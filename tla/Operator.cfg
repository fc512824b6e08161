SPECIFICATION FairSpec
CONSTANTS
    r2 = r2
    Created <- EachTopology
    New = r1
    Old <- DaemonRollout
    Host = {1, 2}
    MaxFaults = 3
INVARIANTS InitAndBootstrapTogether OneDaemonOnVolume
PROPERTY Deploys
