SPECIFICATION DataDirSpec

CONSTANTS
    Join = {j1, j2}
    MaxMade = 4
    MaxKills = 2
    MaxFails = 1

INVARIANTS FilesFollowStore IssuerConsistent NodeIDKept JoinedIsTrusted
