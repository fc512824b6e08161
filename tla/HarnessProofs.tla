------------------------------ MODULE HarnessProofs ----------------------------
(***************************************************************************)
(* A round of the load tools leaves nothing, for any group, any number of  *)
(* rounds and any leader lost.  The invariant says at which steps of the   *)
(* round what it adds may be there, and that a node polled for the end of  *)
(* a grant shows it as long as it is committed.                            *)
(***************************************************************************)
EXTENDS Harness, TLAPS

(* Most steps are first-order: Zenon first, SMT for what it does not find. *)
USE ZenonT(30), SMTT(60)

(* What the tools write to the log, apart from configuration changes.      *)
Logged == {"member", "drop", "acquire", "release", "grant", "revoke", "expireLock", "expireLease"}

Frees(f) == IF f = "lock" THEN {"release", "expireLock"} ELSE {"revoke", "expireLease"}

Entry == [do : Logged, node : Server]

Whole(t) == t = [members |-> t.members, lock |-> t.lock, lease |-> t.lease]

(* Node m has the grant, and nothing it has still to apply takes it away.  *)
Shows(m, f) ==
    /\ table[m][f]
    /\ \A i \in 1 .. Len(backlog[m]) : backlog[m][i].do \notin Frees(f)

PlaceTypes ==
    /\ prog \in {"soak", "bench"}
    /\ at = [phase |-> at.phase, round |-> at.round, step |-> at.step]
    /\ at.phase \in IF prog = "soak" THEN {"start", "tick"} ELSE {"start", "locks", "election"}
    /\ at.round \in 0 .. MaxTicks + MaxSamples
    /\ at.step \in 1 .. Len(Script) + 1

TableTypes ==
    /\ Whole(com)
    /\ DOMAIN table = CoreSet /\ \A m \in CoreSet : Whole(table[m])
    /\ backlog \in [CoreSet -> Seq(Entry)]

HarnessTypes == PlaceTypes /\ TableTypes /\ lead \in CoreSet \cup {NoNode}

(* The voters are added in the order of Core, then the members.            *)
StartInv ==
    /\ ~com.lock /\ ~com.lease
    /\ Boot \in voters /\ voters \subseteq CoreSet /\ com.members \subseteq CoreSet
    /\ \A k \in 2 .. Len(Core) : at.step > k => Core[k] \in voters
    /\ \A k \in 1 .. Len(Core) : at.step > Len(Core) + 1 + k => Core[k] \in com.members

(* What a tick has added is there only between the step that adds it and   *)
(* the one that takes it away; and a grant that is left to expire is seen  *)
(* by the poll for its end as long as it is committed.                     *)
TickInv ==
    /\ CoreSet \subseteq voters /\ voters \subseteq Server
    /\ CoreSet \subseteq com.members /\ com.members \subseteq Server
    /\ Extra \in voters => at.step \in 2 .. 6
    /\ Extra \in com.members => at.step \in 3 .. 5
    /\ com.lock => at.step \in 10 .. 11
    /\ com.lease => at.step \in 12 .. 13
    /\ com.lock /\ at.step = 11 /\ Expires(at.round) => \E m \in CoreSet : Shows(m, "lock")
    /\ com.lease /\ at.step = 13 /\ Expires(at.round) => \E m \in CoreSet : Shows(m, "lease")

SampleInv ==
    /\ voters = CoreSet /\ com.members = CoreSet /\ ~com.lease
    /\ com.lock => at.phase = "locks" /\ ~AtEnd

(* The node is cut off during one sample; the extra node runs from its     *)
(* start to its end, or to the failure of joinExtra.                       *)
CutInv ==
    /\ isolated # NoNode => Running /\ at.phase = "election" /\ at.step \in 3 .. 4
    /\ extra = "up" => at.phase = "tick" /\ at.step \in 2 .. 7 /\ (Running \/ at.step > 4)

HarnessInv ==
    /\ HarnessTypes
    /\ at.phase = "start" => StartInv
    /\ at.phase = "tick" => TickInv
    /\ at.phase \in {"locks", "election"} => SampleInv
    /\ CutInv

--------------------------------------------------------------------------------
(* The scripts.                                                            *)

Word == {"bootLeader", "voterAny", "leader", "start", "has", "shut", "gone", "alive", "lockGone",
         "leaseGone", "isolate", "first", "heal"} \cup Command

Line == [do : Word, node : Server]

Then(s, t) == s \o t

JoinedAs(u, s, t) ==
    /\ u \in Seq(Line) /\ Len(u) = Len(s) + Len(t)
    /\ \A k \in 1 .. Len(s) + Len(t) : u[k] = IF k <= Len(s) THEN s[k] ELSE t[k - Len(s)]

LEMMA JoinedLines ==
    ASSUME NEW s \in Seq(Line), NEW t \in Seq(Line)
    PROVE  JoinedAs(Then(s, t), s, t)
  BY DEF Then, JoinedAs

LEMMA OneLine ==
    \A do \in Word : Do(do) \in Line /\ Do(do).do = do /\ Do(do).node = Extra
  BY DEF Do, S, Line, Server

LEMMA JoinScript ==
    /\ JoinExtra \in Seq(Line) /\ Len(JoinExtra) = 4
    /\ JoinExtra[1] = Do("start") /\ JoinExtra[2] = Do("voter")
    /\ JoinExtra[3] = Do("member") /\ JoinExtra[4] = Do("has")
<1>1. Do("start") \in Line /\ Do("voter") \in Line /\ Do("member") \in Line /\ Do("has") \in Line
  BY OneLine DEF Word, Command
<1> QED  BY <1>1 DEF JoinExtra

LEMMA LeaveScript ==
    /\ LeaveExtra \in Seq(Line) /\ Len(LeaveExtra) = 5
    /\ LeaveExtra[1] = Do("drop") /\ LeaveExtra[2] = Do("unvote")
    /\ LeaveExtra[3] = Do("shut") /\ LeaveExtra[4] = Do("gone") /\ LeaveExtra[5] = Do("alive")
<1>1. /\ Do("drop") \in Line /\ Do("unvote") \in Line /\ Do("shut") \in Line
      /\ Do("gone") \in Line /\ Do("alive") \in Line
  BY OneLine DEF Word, Command
<1> QED  BY <1>1 DEF LeaveExtra

LEMMA ChurnScripts ==
    ASSUME NEW e \in BOOLEAN
    PROVE  /\ ChurnLock(e) \in Seq(Line) /\ Len(ChurnLock(e)) = 2
           /\ ChurnLock(e)[1] = Do("acquire")
           /\ ChurnLock(e)[2] = IF e THEN Do("lockGone") ELSE Do("release")
           /\ ChurnLease(e) \in Seq(Line) /\ Len(ChurnLease(e)) = 2
           /\ ChurnLease(e)[1] = Do("grant")
           /\ ChurnLease(e)[2] = IF e THEN Do("leaseGone") ELSE Do("revoke")
<1>1. /\ Do("acquire") \in Line /\ Do("lockGone") \in Line /\ Do("release") \in Line
      /\ Do("grant") \in Line /\ Do("leaseGone") \in Line /\ Do("revoke") \in Line
  BY OneLine DEF Word, Command
<1>2. CASE e
  BY <1>1, <1>2 DEF ChurnLock, ChurnLease
<1>3. CASE ~e
  BY <1>1, <1>3 DEF ChurnLock, ChurnLease
<1> QED  BY <1>2, <1>3

LEMMA TickScript ==
    ASSUME NEW i \in Nat
    PROVE  LET T == RunTick(i) IN
           /\ Len(T) = 13
           /\ T[1] = Do("start") /\ T[2] = Do("voter") /\ T[3] = Do("member") /\ T[4] = Do("has")
           /\ T[5] = Do("drop") /\ T[6] = Do("unvote") /\ T[7] = Do("shut")
           /\ T[8] = Do("gone") /\ T[9] = Do("alive") /\ T[10] = Do("acquire")
           /\ T[11] = IF Expires(i) THEN Do("lockGone") ELSE Do("release")
           /\ T[12] = Do("grant")
           /\ T[13] = IF Expires(i) THEN Do("leaseGone") ELSE Do("revoke")
<1> DEFINE e == Expires(i)
           J == JoinExtra
           L == LeaveExtra
           K == ChurnLock(e)
           G == ChurnLease(e)
           JL == Then(J, L)
           JLK == Then(JL, K)
           JLKG == Then(JLK, G)
<1>1. e \in BOOLEAN
  BY DEF Expires
<1> HIDE DEF e
<1>2. /\ K \in Seq(Line) /\ Len(K) = 2 /\ K[1] = Do("acquire")
      /\ K[2] = IF e THEN Do("lockGone") ELSE Do("release")
      /\ G \in Seq(Line) /\ Len(G) = 2 /\ G[1] = Do("grant")
      /\ G[2] = IF e THEN Do("leaseGone") ELSE Do("revoke")
  BY <1>1, ChurnScripts
<1> HIDE DEF J, L, K, G, JL, JLK, JLKG
<1>3. /\ JL \in Seq(Line) /\ Len(JL) = 9
      /\ JL[1] = Do("start") /\ JL[2] = Do("voter") /\ JL[3] = Do("member")
      /\ JL[4] = Do("has") /\ JL[5] = Do("drop") /\ JL[6] = Do("unvote")
      /\ JL[7] = Do("shut") /\ JL[8] = Do("gone") /\ JL[9] = Do("alive")
  <2>0. J \in Seq(Line) /\ L \in Seq(Line)
    BY JoinScript, LeaveScript DEF J, L
  <2>1. JoinedAs(JL, J, L)
    BY <2>0, JoinedLines DEF JL
  <2>1a. Len(J) = 4 /\ Len(L) = 5
    BY JoinScript, LeaveScript DEF J, L
  <2>2. /\ JL \in Seq(Line) /\ Len(JL) = 9
        /\ JL[1] = J[1] /\ JL[2] = J[2] /\ JL[3] = J[3] /\ JL[4] = J[4]
        /\ JL[5] = L[1] /\ JL[6] = L[2] /\ JL[7] = L[3] /\ JL[8] = L[4]
        /\ JL[9] = L[5]
    BY SMTT(60), <2>1, <2>1a DEF JoinedAs
  <2> QED  BY <2>2, JoinScript, LeaveScript DEF J, L
<1>4. /\ JLK \in Seq(Line) /\ Len(JLK) = 11
      /\ \A k \in 1 .. 9 : JLK[k] = JL[k]
      /\ JLK[10] = K[1] /\ JLK[11] = K[2]
  <2>1. JoinedAs(JLK, JL, K)
    BY <1>2, <1>3, JoinedLines DEF JLK
  <2> QED  BY SMTT(60), <1>2, <1>3, <2>1 DEF JoinedAs
<1>5. /\ Len(JLKG) = 13
      /\ \A k \in 1 .. 11 : JLKG[k] = JLK[k]
      /\ JLKG[12] = G[1] /\ JLKG[13] = G[2]
  <2>1. JoinedAs(JLKG, JLK, G)
    BY <1>2, <1>4, JoinedLines DEF JLKG
  <2> QED  BY SMTT(60), <1>2, <1>4, <2>1 DEF JoinedAs
<1>6. RunTick(i) = JLKG
  BY DEF RunTick, J, L, K, G, e, JL, JLK, JLKG, Then
<1> DEFINE T == RunTick(i)
<1>7. /\ Len(T) = 13 /\ \A k \in 1 .. 9 : T[k] = JL[k]
      /\ T[10] = K[1] /\ T[11] = K[2] /\ T[12] = G[1] /\ T[13] = G[2]
  BY SMTT(60), <1>4, <1>5, <1>6
<1> QED  BY SMTT(60), <1>2, <1>3, <1>7 DEF e

LEMMA ElectionScript ==
    /\ Len(MeasureElection) = 5
    /\ MeasureElection[1] = Do("leader") /\ MeasureElection[2] = Do("isolate")
    /\ MeasureElection[3] = Do("first") /\ MeasureElection[4] = Do("heal")
    /\ MeasureElection[5] = Do("leader")
  BY DEF MeasureElection

LEMMA LocksScript ==
    ASSUME NEW i \in Nat
    PROVE  LET T == MeasureLocks(i) IN
           /\ Len(T) \in {2, 3} /\ T[Len(T)] = Do("release") /\ T[Len(T) - 1] = Do("acquire")
           /\ Len(T) = 3 => T[1] = Do("leader")
<1> DEFINE A == <<Do("leader")>>
           B == <<Do("acquire"), Do("release")>>
<1>1. Do("leader") \in Line /\ Do("acquire") \in Line /\ Do("release") \in Line
  BY OneLine DEF Word, Command
<1>2. A \in Seq(Line) /\ B \in Seq(Line) /\ Len(A) = 1 /\ Len(B) = 2
  BY <1>1
<1>3. A[1] = Do("leader") /\ B[1] = Do("acquire") /\ B[2] = Do("release")
  OBVIOUS
<1> HIDE DEF A, B
<1>4. CASE i = 0
  <2>1. MeasureLocks(i) = Then(A, B)
    BY <1>4 DEF MeasureLocks, A, B, Then
  <2>2. Len(Then(A, B)) = 3 /\ Then(A, B)[1] = A[1] /\ Then(A, B)[2] = B[1] /\ Then(A, B)[3] = B[2]
    <3>1. JoinedAs(Then(A, B), A, B)
      BY <1>2, JoinedLines
    <3> QED  BY SMTT(60), <1>2, <3>1 DEF JoinedAs
  <2> QED  BY <1>3, <2>1, <2>2
<1>5. CASE i # 0
  <2> DEFINE Z == <<>>
  <2>1. Z \in Seq(Line) /\ Len(Z) = 0
    OBVIOUS
  <2>2. MeasureLocks(i) = Then(Z, B)
    BY <1>5 DEF MeasureLocks, B, Then
  <2> HIDE DEF Z
  <2>3. Len(Then(Z, B)) = 2 /\ Then(Z, B)[1] = B[1] /\ Then(Z, B)[2] = B[2]
    <3>1. JoinedAs(Then(Z, B), Z, B)
      BY <1>2, <2>1, JoinedLines
    <3> QED  BY SMTT(60), <1>2, <2>1, <3>1 DEF JoinedAs
  <2> QED  BY <1>3, <2>2, <2>3
<1> QED  BY <1>4, <1>5

LEMMA CoreFacts ==
    /\ Core \in Seq(CoreSet) /\ Len(Core) \in Nat \ {0} /\ DOMAIN Core = 1 .. Len(Core)
    /\ \A k \in 1 .. Len(Core) : Core[k] \in CoreSet
    /\ \A n \in CoreSet : \E k \in 1 .. Len(Core) : n = Core[k]
    /\ Boot \in CoreSet /\ Boot = Core[1]
<1>1. Core \in Seq(CoreSet) /\ Len(Core) \in Nat \ {0} /\ DOMAIN Core = 1 .. Len(Core)
  BY CoreAssumption
<1>2. CoreSet = {Core[k] : k \in DOMAIN Core}
  BY DEF CoreSet
<1> QED  BY <1>1, <1>2 DEF Boot

(* The first steps of both programs.                                       *)
Starts(T) ==
    LET n == Len(Core) IN
    /\ T[1] = Do("bootLeader") /\ T[n + 1] = Do("leader")
    /\ \A k \in 2 .. n : T[k] = S("voterAny", Core[k])
    /\ \A k \in 1 .. n : T[n + 1 + k] = S("member", Core[k])

LEMMA StartScript ==
    /\ StartCluster \in Seq(Line) /\ Len(StartCluster) = 2 * Len(Core) + 1
    /\ Starts(StartCluster)
<1> DEFINE n == Len(Core)
           A == <<Do("bootLeader")>>
           V == [k \in 1 .. Len(Core) - 1 |-> S("voterAny", Core[k + 1])]
           L == <<Do("leader")>>
           M == [k \in DOMAIN Core |-> S("member", Core[k])]
           AV == Then(A, V)
           AVL == Then(AV, L)
           AVLM == Then(AVL, M)
<1>1. Do("bootLeader") \in Line /\ Do("leader") \in Line
  BY OneLine DEF Word, Command
<1>2. A \in Seq(Line) /\ L \in Seq(Line) /\ Len(A) = 1 /\ Len(L) = 1
      /\ A[1] = Do("bootLeader") /\ L[1] = Do("leader")
  BY <1>1
<1>3. \A m \in CoreSet : S("voterAny", m) \in Line /\ S("member", m) \in Line
  BY DEF S, Line, Server, Word, Command
<1>4. /\ V \in Seq(Line) /\ Len(V) = n - 1
      /\ \A k \in 1 .. n - 1 : V[k] = S("voterAny", Core[k + 1])
  <2>1. n - 1 \in Nat /\ \A k \in 1 .. n - 1 : Core[k + 1] \in CoreSet
    BY SMTT(60), CoreFacts
  <2> QED  BY <1>3, <2>1
<1>5. /\ M \in Seq(Line) /\ Len(M) = n
      /\ \A k \in 1 .. n : M[k] = S("member", Core[k])
  BY SMTT(60), <1>3, CoreFacts
<1>6. n \in Nat \ {0}
  BY CoreFacts
<1>7. StartCluster = AVLM
  BY DEF StartCluster, Then
<1> HIDE DEF n, A, V, L, M, AV, AVL, AVLM
<1>8. AV \in Seq(Line) /\ JoinedAs(AV, A, V)
  <2>1. JoinedAs(AV, A, V)
    BY <1>2, <1>4, JoinedLines DEF AV
  <2> QED  BY <2>1 DEF JoinedAs
<1>9. AVL \in Seq(Line) /\ JoinedAs(AVL, AV, L)
  <2>1. JoinedAs(AVL, AV, L)
    BY <1>2, <1>8, JoinedLines DEF AVL
  <2> QED  BY <2>1 DEF JoinedAs
<1>10. AVLM \in Seq(Line) /\ JoinedAs(AVLM, AVL, M)
  <2>1. JoinedAs(AVLM, AVL, M)
    BY <1>5, <1>9, JoinedLines DEF AVLM
  <2> QED  BY <2>1 DEF JoinedAs
<1>11. Len(AV) = n /\ AV[1] = A[1] /\ \A k \in 2 .. n : AV[k] = V[k - 1]
  BY SMTT(60), <1>2, <1>4, <1>6, <1>8 DEF JoinedAs
<1>12. Len(AVL) = n + 1 /\ AVL[n + 1] = L[1] /\ \A k \in 1 .. n : AVL[k] = AV[k]
  BY SMTT(60), <1>2, <1>6, <1>9, <1>11 DEF JoinedAs
<1>13. Len(AVLM) = 2 * n + 1
  BY SMTT(60), <1>5, <1>6, <1>10, <1>12 DEF JoinedAs
<1>14. \A k \in 1 .. n + 1 : AVLM[k] = AVL[k]
  BY SMTT(60), <1>5, <1>6, <1>10, <1>12 DEF JoinedAs
<1>15. ASSUME NEW k \in 1 .. n PROVE AVLM[n + 1 + k] = M[k]
  <2> DEFINE j == n + 1 + k
  <2>1. j \in 1 .. Len(AVL) + Len(M) /\ ~(j <= Len(AVL)) /\ j - Len(AVL) = k
    BY SMTT(60), <1>5, <1>6, <1>12
  <2> HIDE DEF j
  <2>2. AVLM[j] = IF j <= Len(AVL) THEN AVL[j] ELSE M[j - Len(AVL)]
    BY <1>10, <2>1 DEF JoinedAs
  <2>3. AVLM[j] = M[k]
    BY <2>1, <2>2
  <2> QED  BY <2>3 DEF j
<1>16. ASSUME NEW k \in 2 .. n PROVE AVLM[k] = S("voterAny", Core[k])
  <2>1. k \in 1 .. n + 1 /\ k \in 1 .. n /\ k - 1 \in 1 .. n - 1 /\ k - 1 + 1 = k
    BY <1>6
  <2>2. AVLM[k] = V[k - 1]
    BY <1>11, <1>12, <1>14, <2>1
  <2>3. V[k - 1] = S("voterAny", Core[k - 1 + 1])
    BY <1>4, <2>1
  <2> QED  BY <2>1, <2>2, <2>3
<1>17. AVLM[1] = Do("bootLeader") /\ AVLM[n + 1] = Do("leader")
  BY SMTT(60), <1>2, <1>6, <1>11, <1>12, <1>14
<1>18. Starts(AVLM)
  BY <1>5, <1>15, <1>16, <1>17 DEF Starts, n
<1> QED  BY <1>7, <1>10, <1>13, <1>18 DEF n

LEMMA SoakScript ==
    /\ Len(StartSoak) = 2 * Len(Core) + 2 /\ Starts(StartSoak)
    /\ StartSoak[2 * Len(Core) + 2] = Do("alive")
<1> DEFINE n == Len(Core)
           B == <<Do("alive")>>
           T == StartCluster
           U == Then(T, B)
<1>1. Do("alive") \in Line
  BY OneLine DEF Word, Command
<1>2. B \in Seq(Line) /\ Len(B) = 1 /\ B[1] = Do("alive")
  BY <1>1
<1>3. StartSoak = U
  BY DEF StartSoak, Then
<1>4. T \in Seq(Line) /\ Len(T) = 2 * n + 1 /\ Starts(T)
  BY StartScript
<1>5. n \in Nat \ {0}
  BY CoreFacts
<1> HIDE DEF n, B, T, U
<1>6. JoinedAs(U, T, B)
  BY <1>2, <1>4, JoinedLines DEF U
<1>7. Len(U) = 2 * n + 2 /\ U[2 * n + 2] = B[1] /\ \A k \in 1 .. 2 * n + 1 : U[k] = T[k]
  BY SMTT(60), <1>2, <1>4, <1>5, <1>6 DEF JoinedAs
<1>8. Starts(U)
  <2>1. /\ T[1] = Do("bootLeader") /\ T[n + 1] = Do("leader")
        /\ \A k \in 2 .. n : T[k] = S("voterAny", Core[k])
        /\ \A k \in 1 .. n : T[n + 1 + k] = S("member", Core[k])
    BY <1>4 DEF Starts, n
  <2>2. U[1] = T[1] /\ U[n + 1] = T[n + 1]
    BY SMTT(60), <1>5, <1>7
  <2>3. \A k \in 2 .. n : U[k] = T[k]
    BY SMTT(60), <1>5, <1>7
  <2>4. \A k \in 1 .. n : U[n + 1 + k] = T[n + 1 + k]
    BY SMTT(60), <1>5, <1>7
  <2> QED  BY <2>1, <2>2, <2>3, <2>4 DEF Starts, n
<1> QED  BY <1>2, <1>3, <1>7, <1>8 DEF n

--------------------------------------------------------------------------------
(* Where the program is tells what it does next.                           *)

LEMMA ScriptIs ==
    ASSUME PlaceTypes
    PROVE  /\ at.phase = "start" => Script = IF prog = "soak" THEN StartSoak ELSE StartCluster
           /\ at.phase = "tick" => prog = "soak" /\ Script = RunTick(at.round)
           /\ at.phase = "locks" => prog = "bench" /\ Script = MeasureLocks(at.round)
           /\ at.phase = "election" => prog = "bench" /\ Script = MeasureElection
<1>1. /\ prog \in {"soak", "bench"} /\ at.phase \in Phase
      /\ at.round \in 0 .. MaxTicks + MaxSamples
      /\ at.phase = "tick" => prog = "soak"
      /\ at.phase \in {"locks", "election"} => prog = "bench"
  BY DEF PlaceTypes, Phase
<1>2. Script = Run(prog, at.phase, at.round)
  BY <1>1 DEF Script, Scripts
<1> QED  BY <1>1, <1>2 DEF Run

At(k, do) == Running /\ at.step = k => Step = do /\ Node = Extra

LEMMA TickPlace ==
    ASSUME PlaceTypes, at.phase = "tick"
    PROVE  /\ prog = "soak" /\ Len(Script) = 13 /\ at.step \in 1 .. 14 /\ (AtEnd <=> at.step = 14)
           /\ At(1, "start") /\ At(2, "voter") /\ At(3, "member") /\ At(4, "has")
           /\ At(5, "drop") /\ At(6, "unvote") /\ At(7, "shut") /\ At(8, "gone")
           /\ At(9, "alive") /\ At(10, "acquire")
           /\ At(11, IF Expires(at.round) THEN "lockGone" ELSE "release")
           /\ At(12, "grant")
           /\ At(13, IF Expires(at.round) THEN "leaseGone" ELSE "revoke")
           /\ at.step = 14 => Step = "none"
<1>1. /\ prog = "soak" /\ Script = RunTick(at.round) /\ at.round \in Nat
      /\ at.step \in 1 .. Len(Script) + 1
  BY ScriptIs, RoundAssumption DEF PlaceTypes
<1>2. Len(Script) = 13
  BY <1>1, TickScript
<1>3. at.step \in 1 .. 14 /\ (AtEnd <=> at.step = 14)
  BY <1>1, <1>2 DEF AtEnd
<1>4. \A do \in Word : Do(do).do = do /\ Do(do).node = Extra
  BY OneLine
<1>5. ASSUME NEW k \in 1 .. 13, NEW do \in Word, Script[k] = Do(do) PROVE At(k, do)
  <2> SUFFICES ASSUME Running, at.step = k PROVE Step = do /\ Node = Extra
    BY DEF At
  <2>1. ~AtEnd
    BY <1>3
  <2> QED  BY <1>4, <1>5, <2>1 DEF Step, Node
<1>6. /\ Script[1] = Do("start") /\ Script[2] = Do("voter") /\ Script[3] = Do("member")
      /\ Script[4] = Do("has") /\ Script[5] = Do("drop") /\ Script[6] = Do("unvote")
      /\ Script[7] = Do("shut") /\ Script[8] = Do("gone") /\ Script[9] = Do("alive")
      /\ Script[10] = Do("acquire")
      /\ Script[11] = IF Expires(at.round) THEN Do("lockGone") ELSE Do("release")
      /\ Script[12] = Do("grant")
      /\ Script[13] = IF Expires(at.round) THEN Do("leaseGone") ELSE Do("revoke")
  BY <1>1, TickScript
<1>7. /\ At(1, "start") /\ At(2, "voter") /\ At(3, "member") /\ At(4, "has")
      /\ At(5, "drop") /\ At(6, "unvote")
  BY <1>5, <1>6 DEF Word, Command
<1>8. /\ At(7, "shut") /\ At(8, "gone") /\ At(9, "alive") /\ At(10, "acquire") /\ At(12, "grant")
  BY <1>5, <1>6 DEF Word, Command
<1>9. /\ At(11, IF Expires(at.round) THEN "lockGone" ELSE "release")
      /\ At(13, IF Expires(at.round) THEN "leaseGone" ELSE "revoke")
  BY <1>5, <1>6 DEF Word, Command
<1>10. at.step = 14 => Step = "none"
  BY <1>3 DEF Step
<1> QED  BY <1>1, <1>2, <1>3, <1>7, <1>8, <1>9, <1>10

LEMMA ElectionPlace ==
    ASSUME PlaceTypes, at.phase = "election"
    PROVE  /\ prog = "bench" /\ Len(Script) = 5 /\ at.step \in 1 .. 6 /\ (AtEnd <=> at.step = 6)
           /\ At(1, "leader") /\ At(2, "isolate") /\ At(3, "first") /\ At(4, "heal") /\ At(5, "leader")
           /\ at.step = 6 => Step = "none"
<1>1. /\ prog = "bench" /\ Script = MeasureElection /\ at.step \in 1 .. Len(Script) + 1
  BY ScriptIs DEF PlaceTypes
<1>2. Len(Script) = 5
  BY <1>1, ElectionScript
<1>3. at.step \in 1 .. 6 /\ (AtEnd <=> at.step = 6)
  BY <1>1, <1>2 DEF AtEnd
<1>4. \A do \in Word : Do(do).do = do /\ Do(do).node = Extra
  BY OneLine
<1>5. ASSUME NEW k \in 1 .. 5, NEW do \in Word, Script[k] = Do(do) PROVE At(k, do)
  <2> SUFFICES ASSUME Running, at.step = k PROVE Step = do /\ Node = Extra
    BY DEF At
  <2>1. ~AtEnd
    BY <1>3
  <2> QED  BY <1>4, <1>5, <2>1 DEF Step, Node
<1>6. /\ Script[1] = Do("leader") /\ Script[2] = Do("isolate") /\ Script[3] = Do("first")
      /\ Script[4] = Do("heal") /\ Script[5] = Do("leader")
  BY <1>1, ElectionScript
<1>7. At(1, "leader") /\ At(2, "isolate") /\ At(3, "first") /\ At(4, "heal") /\ At(5, "leader")
  BY <1>5, <1>6 DEF Word, Command
<1>8. at.step = 6 => Step = "none"
  BY <1>3 DEF Step
<1> QED  BY <1>1, <1>2, <1>3, <1>7, <1>8

LEMMA LocksPlace ==
    ASSUME PlaceTypes, at.phase = "locks"
    PROVE  /\ prog = "bench" /\ Len(Script) \in {2, 3} /\ at.step \in 1 .. Len(Script) + 1
           /\ AtEnd <=> at.step = Len(Script) + 1
           /\ At(Len(Script), "release") /\ At(Len(Script) - 1, "acquire")
           /\ Running /\ at.step < Len(Script) - 1 => Step = "leader"
           /\ AtEnd => Step = "none"
<1>1. /\ prog = "bench" /\ Script = MeasureLocks(at.round) /\ at.round \in Nat
      /\ at.step \in 1 .. Len(Script) + 1
  BY ScriptIs, RoundAssumption DEF PlaceTypes
<1>2. /\ Len(Script) \in {2, 3} /\ Script[Len(Script)] = Do("release")
      /\ Script[Len(Script) - 1] = Do("acquire") /\ (Len(Script) = 3 => Script[1] = Do("leader"))
  BY <1>1, LocksScript
<1>3. AtEnd <=> at.step = Len(Script) + 1
  BY <1>1, <1>2 DEF AtEnd
<1>4. \A do \in {"leader", "acquire", "release"} : Do(do).do = do /\ Do(do).node = Extra
  BY OneLine DEF Word, Command
<1>5. At(Len(Script), "release") /\ At(Len(Script) - 1, "acquire")
  <2>1. at.step = Len(Script) \/ at.step = Len(Script) - 1 => ~AtEnd
    BY <1>1, <1>2, <1>3
  <2> QED  BY <1>2, <1>4, <2>1 DEF At, Step, Node
<1>6. Running /\ at.step < Len(Script) - 1 => Step = "leader"
  <2> SUFFICES ASSUME Running, at.step < Len(Script) - 1 PROVE Step = "leader"
    OBVIOUS
  <2>1. ~AtEnd /\ at.step = 1 /\ Len(Script) = 3
    BY <1>1, <1>2, <1>3
  <2> QED  BY <1>2, <1>4, <2>1 DEF Step
<1>7. AtEnd => Step = "none"
  BY DEF Step
<1> QED  BY <1>1, <1>2, <1>3, <1>5, <1>6, <1>7

LEMMA StartPlace ==
    ASSUME PlaceTypes, at.phase = "start"
    PROVE  LET n == Len(Core) IN
           /\ at.step \in 1 .. Len(Script) + 1 /\ (AtEnd <=> at.step = Len(Script) + 1)
           /\ Len(Script) \in {2 * n + 1, 2 * n + 2}
           /\ Running /\ at.step \in 2 .. n => Step = "voterAny" /\ Node = Core[at.step]
           /\ \A k \in 1 .. n : Running /\ at.step = n + 1 + k => Step = "member" /\ Node = Core[k]
           /\ ~(at.step \in 2 .. n \/ \E k \in 1 .. n : at.step = n + 1 + k)
                  => Step \in {"bootLeader", "leader", "alive", "none"}
<1> DEFINE n == Len(Core)
           T == Script
<1>0. n \in Nat \ {0}
  BY CoreFacts
<1>1. /\ Starts(T) /\ at.step \in 1 .. Len(T) + 1
      /\ Len(T) = 2 * n + 1 \/ (Len(T) = 2 * n + 2 /\ T[2 * n + 2] = Do("alive"))
  <2>1. at.step \in 1 .. Len(T) + 1
    BY DEF PlaceTypes
  <2>2. CASE prog = "soak"
    BY <2>1, <2>2, ScriptIs, SoakScript
  <2>3. CASE prog # "soak"
    BY <2>1, <2>3, ScriptIs, StartScript
  <2> QED  BY <2>2, <2>3
<1>2. AtEnd <=> at.step = Len(T) + 1
  BY <1>0, <1>1 DEF AtEnd
<1>3. \A m : S("voterAny", m).do = "voterAny" /\ S("voterAny", m).node = m
             /\ S("member", m).do = "member" /\ S("member", m).node = m
  BY DEF S
<1>4. Do("bootLeader").do = "bootLeader" /\ Do("leader").do = "leader" /\ Do("alive").do = "alive"
  BY OneLine DEF Word, Command
<1>5. /\ T[1] = Do("bootLeader") /\ T[n + 1] = Do("leader")
      /\ \A k \in 2 .. n : T[k] = S("voterAny", Core[k])
      /\ \A k \in 1 .. n : T[n + 1 + k] = S("member", Core[k])
  BY <1>1 DEF Starts
<1>6. Step = IF Running /\ ~AtEnd THEN T[at.step].do ELSE "none"
  BY DEF Step
<1>7. Node = T[at.step].node
  BY DEF Node
<1> HIDE DEF T, n
<1>8. Running /\ at.step \in 2 .. n => Step = "voterAny" /\ Node = Core[at.step]
  <2>1. at.step \in 2 .. n => ~AtEnd
    BY <1>0, <1>1, <1>2
  <2> QED  BY SMTT(60), <1>3, <1>5, <1>6, <1>7, <2>1
<1>9. ASSUME NEW k \in 1 .. n, Running, at.step = n + 1 + k PROVE Step = "member" /\ Node = Core[k]
  <2>1. ~AtEnd
    BY <1>0, <1>1, <1>2, <1>9
  <2>2. T[at.step] = S("member", Core[k])
    BY <1>5, <1>9
  <2> QED  BY <1>3, <1>6, <1>7, <1>9, <2>1, <2>2
<1>10. ASSUME ~(at.step \in 2 .. n), ~(\E k \in 1 .. n : at.step = n + 1 + k)
       PROVE  Step \in {"bootLeader", "leader", "alive", "none"}
  <2>1. at.step = 1 \/ at.step = n + 1 \/ at.step > 2 * n + 1
    <3> SUFFICES ASSUME at.step > n + 1, at.step <= 2 * n + 1 PROVE FALSE
      BY <1>0, <1>1, <1>10
    <3>1. at.step - n - 1 \in 1 .. n /\ at.step = n + 1 + (at.step - n - 1)
      BY <1>0, <1>1
    <3> QED  BY <1>10, <3>1
  <2>2. at.step = 1 \/ at.step = n + 1 \/ AtEnd \/ (at.step = 2 * n + 2 /\ Len(T) = 2 * n + 2)
    BY <1>0, <1>1, <1>2, <2>1
  <2>3. CASE AtEnd
    BY <1>6, <2>3
  <2>4. CASE at.step = 1 \/ at.step = n + 1
    BY <1>4, <1>5, <1>6, <2>4
  <2>5. CASE at.step = 2 * n + 2 /\ Len(T) = 2 * n + 2
    <3>1. T[at.step] = Do("alive")
      BY <1>0, <1>1, <2>5
    <3> QED  BY <1>4, <1>6, <3>1
  <2> QED  BY <2>2, <2>3, <2>4, <2>5
<1> QED  BY <1>1, <1>2, <1>8, <1>9, <1>10 DEF n, T

LEMMA PlaceKept ==
    ASSUME PlaceTypes, prog' = prog, at' = at \/ (Step # "none" /\ Forward)
    PROVE  /\ PlaceTypes' /\ Script' = Script
           /\ at'.phase = at.phase /\ at'.round = at.round
           /\ at'.step \in {at.step, at.step + 1}
           /\ at' # at => Running /\ ~AtEnd /\ at'.step = at.step + 1
<1>1. CASE at' = at
  BY <1>1 DEF PlaceTypes, Script
<1>2. CASE Step # "none" /\ Forward
  <2>1. Running /\ ~AtEnd /\ at.step \in 1 .. Len(Script)
    BY <1>2 DEF Step, AtEnd, PlaceTypes
  <2>2. /\ at' = [phase |-> at'.phase, round |-> at'.round, step |-> at'.step]
        /\ at'.phase = at.phase /\ at'.round = at.round /\ at'.step = at.step + 1
    BY <1>2 DEF Forward, PlaceTypes
  <2>3. Script' = Script
    BY <2>2 DEF Script
  <2>4. at'.step \in 1 .. Len(Script') + 1
    BY <2>1, <2>2, <2>3
  <2> QED  BY <2>1, <2>2, <2>3, <2>4 DEF PlaceTypes
<1> QED  BY <1>1, <1>2

--------------------------------------------------------------------------------
(* What an entry changes.                                                  *)

LEMMA EffectFacts ==
    ASSUME NEW t, Whole(t), NEW do \in Logged, NEW n
    PROVE  LET u == Effect(t, do, n) IN
           /\ Whole(u)
           /\ u.members = IF do = "member" THEN t.members \cup {n}
                          ELSE IF do = "drop" THEN t.members \ {n} ELSE t.members
           /\ (do = "acquire" => u.lock) /\ (do = "grant" => u.lease)
           /\ do \in Frees("lock") => ~u.lock
           /\ do \notin Frees("lock") \cup {"acquire"} => u.lock = t.lock
           /\ do \in Frees("lease") => ~u.lease
           /\ do \notin Frees("lease") \cup {"grant"} => u.lease = t.lease
<1>1. CASE do = "member"
  BY <1>1 DEF Effect, Whole, Frees
<1>2. CASE do = "drop"
  BY <1>2 DEF Effect, Whole, Frees
<1>3. CASE do = "acquire"
  BY <1>3 DEF Effect, Whole, Frees
<1>4. CASE do = "grant"
  BY <1>4 DEF Effect, Whole, Frees
<1>5. CASE do \in {"release", "expireLock"}
  BY <1>5 DEF Effect, Whole, Frees
<1>6. CASE do \in {"revoke", "expireLease"}
  BY <1>6 DEF Effect, Whole, Frees
<1> QED  BY <1>1, <1>2, <1>3, <1>4, <1>5, <1>6 DEF Logged

LEMMA GrantKept ==
    ASSUME NEW t, Whole(t), NEW do \in Logged, NEW n, NEW f \in {"lock", "lease"},
           do \notin Frees(f), t[f]
    PROVE  Effect(t, do, n)[f]
<1>1. CASE do \in {"member", "drop"}
  BY <1>1 DEF Effect, Whole, Frees
<1>2. CASE do \in {"acquire", "grant"}
  BY <1>2 DEF Effect, Whole, Frees
<1>3. CASE do \in {"release", "expireLock"} /\ f = "lease"
  BY <1>3 DEF Effect, Whole, Frees
<1>4. CASE do \in {"revoke", "expireLease"} /\ f = "lock"
  BY <1>4 DEF Effect, Whole, Frees
<1> QED  BY <1>1, <1>2, <1>3, <1>4 DEF Logged, Frees

LEMMA Committed ==
    ASSUME TableTypes, NEW do \in Logged, NEW n \in Server, NEW c, Commit(do, n, c)
    PROVE  /\ TableTypes' /\ voters' = voters /\ com' = Effect(com, do, n)
           /\ \A m \in CoreSet :
                 \/ table'[m] = com' /\ backlog'[m] = <<>>
                 \/ m # c /\ table'[m] = table[m] /\ backlog'[m] = Append(backlog[m], S(do, n))
           /\ c \in CoreSet => table'[c] = com' /\ backlog'[c] = <<>>
<1> DEFINE now(m) == m = c \/ prog = "bench"
<1>1. /\ voters' = voters /\ com' = Effect(com, do, n)
      /\ table' = [m \in CoreSet |-> IF now(m) THEN com' ELSE table[m]]
      /\ backlog' = [m \in CoreSet |-> IF now(m) THEN <<>> ELSE Append(backlog[m], S(do, n))]
  BY DEF Commit, Logged
<1>2. Whole(com')
  BY <1>1, EffectFacts DEF TableTypes
<1>3. S(do, n) \in Entry
  BY DEF S, Entry
<1>4. ASSUME NEW m \in CoreSet
      PROVE  /\ backlog'[m] \in Seq(Entry) /\ Whole(table'[m])
             /\ \/ table'[m] = com' /\ backlog'[m] = <<>>
                \/ m # c /\ table'[m] = table[m] /\ backlog'[m] = Append(backlog[m], S(do, n))
  <2>1. backlog[m] \in Seq(Entry) /\ Whole(table[m])
    BY DEF TableTypes
  <2>2. CASE now(m)
    BY <1>1, <1>2, <2>2
  <2>3. CASE ~now(m)
    BY <1>1, <1>3, <2>1, <2>3
  <2> QED  BY <2>2, <2>3
<1>5. TableTypes'
  BY <1>1, <1>2, <1>4 DEF TableTypes
<1>6. c \in CoreSet => table'[c] = com' /\ backlog'[c] = <<>>
  BY <1>1
<1> QED  BY <1>1, <1>4, <1>5, <1>6

(* A grant that is still committed is shown by whoever showed it.          *)
LEMMA ShowsCommitted ==
    ASSUME TableTypes, NEW do \in Logged, NEW n \in Server, NEW c, Commit(do, n, c),
           NEW f \in {"lock", "lease"}, do \notin Frees(f), com[f],
           NEW m \in CoreSet, Shows(m, f)
    PROVE  Shows(m, f)'
<1>1. com'[f]
  <2>1. com' = Effect(com, do, n) /\ Whole(com)
    BY Committed DEF TableTypes
  <2>2. Effect(com, do, n)[f]
    BY <2>1, GrantKept
  <2> QED  BY <2>1, <2>2
<1>2. CASE table'[m] = com' /\ backlog'[m] = <<>>
  BY <1>1, <1>2 DEF Shows
<1>3. CASE table'[m] = table[m] /\ backlog'[m] = Append(backlog[m], S(do, n))
  <2>1. backlog[m] \in Seq(Entry) /\ S(do, n) \in Entry
    BY DEF TableTypes, S, Entry
  <2>2. /\ Len(backlog'[m]) = Len(backlog[m]) + 1
        /\ backlog'[m][Len(backlog[m]) + 1] = S(do, n)
        /\ \A i \in 1 .. Len(backlog[m]) : backlog'[m][i] = backlog[m][i]
    BY <1>3, <2>1
  <2>3. S(do, n).do = do
    BY DEF S
  <2>4. ASSUME NEW i \in 1 .. Len(backlog'[m]) PROVE backlog'[m][i].do \notin Frees(f)
    <3>1. i \in 1 .. Len(backlog[m]) \/ i = Len(backlog[m]) + 1
      BY <2>1, <2>2
    <3> QED  BY <2>2, <2>3, <3>1 DEF Shows
  <2> QED  BY <1>3, <2>4 DEF Shows
<1> QED  BY <1>2, <1>3, Committed

LEMMA ApplyKeeps ==
    ASSUME HarnessInv, NEW n \in CoreSet, ApplyEntry(n)
    PROVE  HarnessInv'
<1> DEFINE e == Head(backlog[n])
<1>1. /\ UNCHANGED <<prog, at, lead, out, extra, isolated, voters, com>>
      /\ backlog[n] # <<>>
      /\ table' = [table EXCEPT ![n] = Effect(@, e.do, e.node)]
      /\ backlog' = [backlog EXCEPT ![n] = Tail(@)]
  BY DEF ApplyEntry, driver
<1>2. TableTypes
  BY DEF HarnessInv, HarnessTypes
<1>3. backlog[n] \in Seq(Entry) /\ Whole(table[n])
  BY <1>2 DEF TableTypes
<1>4. e \in Entry /\ Len(backlog[n]) \in Nat \ {0} /\ e = backlog[n][1]
  BY <1>1, <1>3
<1>5. e.do \in Logged
  BY <1>4 DEF Entry
<1>6. /\ Tail(backlog[n]) \in Seq(Entry) /\ Len(Tail(backlog[n])) = Len(backlog[n]) - 1
      /\ \A i \in 1 .. Len(backlog[n]) - 1 : Tail(backlog[n])[i] = backlog[n][i + 1]
  BY <1>1, <1>3
<1>7. /\ table'[n] = Effect(table[n], e.do, e.node) /\ backlog'[n] = Tail(backlog[n])
      /\ \A m \in CoreSet \ {n} : table'[m] = table[m] /\ backlog'[m] = backlog[m]
      /\ DOMAIN table' = CoreSet /\ DOMAIN backlog' = CoreSet
      /\ backlog' = [m \in CoreSet |-> backlog'[m]]
  BY <1>1, <1>2 DEF TableTypes
<1> HIDE DEF e
<1>8. Whole(table'[n])
  <2>1. Whole(Effect(table[n], e.do, e.node))
    BY <1>3, <1>5, EffectFacts
  <2> QED  BY <1>7, <2>1
<1>9. TableTypes'
  BY <1>1, <1>2, <1>6, <1>7, <1>8 DEF TableTypes
<1>10. ASSUME NEW f \in {"lock", "lease"}, NEW m \in CoreSet, Shows(m, f) PROVE Shows(m, f)'
  <2>1. CASE m # n
    BY <1>7, <1>10, <2>1 DEF Shows
  <2>2. CASE m = n
    <3>1. e.do \notin Frees(f) /\ table[n][f]
      BY SMTT(60), <1>4, <1>10, <2>2 DEF Shows
    <3>2. table'[n][f]
      <4>1. Effect(table[n], e.do, e.node)[f]
        BY <1>3, <1>5, <3>1, GrantKept
      <4> QED  BY <1>7, <4>1
    <3>3. ASSUME NEW i \in 1 .. Len(backlog'[n]) PROVE backlog'[n][i].do \notin Frees(f)
      <4>1. i \in 1 .. Len(backlog[n]) - 1 /\ i + 1 \in 1 .. Len(backlog[n])
        BY SMTT(60), <1>4, <1>6, <1>7
      <4>2. backlog'[n][i] = backlog[n][i + 1]
        BY <1>6, <1>7, <4>1
      <4> QED  BY <1>10, <2>2, <4>1, <4>2 DEF Shows
    <3> QED  BY <2>2, <3>2, <3>3 DEF Shows
  <2> QED  BY <2>1, <2>2
<1>11. Script' = Script
  BY <1>1 DEF Script
<1>12. HarnessTypes'
  BY <1>1, <1>9, <1>11 DEF HarnessInv, HarnessTypes, PlaceTypes
<1>13. TickInv => TickInv'
  BY <1>1, <1>10 DEF TickInv
<1>14. (StartInv => StartInv') /\ (SampleInv => SampleInv') /\ (CutInv => CutInv')
  BY <1>1, <1>11 DEF StartInv, SampleInv, CutInv, AtEnd, Running
<1> QED  BY <1>1, <1>12, <1>13, <1>14 DEF HarnessInv

--------------------------------------------------------------------------------
(* The steps that leave the replicated state alone.                        *)

LEMMA StillKeeps ==
    ASSUME HarnessInv, UNCHANGED <<prog, at, out, extra, isolated, state>>,
           lead' \in CoreSet \cup {NoNode}
    PROVE  HarnessInv'
<1>1. UNCHANGED <<prog, at, out, extra, isolated, voters, com, table, backlog>>
  BY DEF state
<1>2. Script' = Script
  BY <1>1 DEF Script
<1>3. HarnessTypes'
  BY <1>1, <1>2 DEF HarnessInv, HarnessTypes, PlaceTypes, TableTypes
<1>4. TickInv => TickInv'
  BY <1>1 DEF TickInv, Shows
<1>5. (StartInv => StartInv') /\ (SampleInv => SampleInv') /\ (CutInv => CutInv')
  BY <1>1, <1>2 DEF StartInv, SampleInv, CutInv, AtEnd, Running
<1> QED  BY <1>1, <1>3, <1>4, <1>5 DEF HarnessInv

LEMMA EndKeeps ==
    ASSUME HarnessInv, UNCHANGED <<prog, at, lead, state>>, out' # "running", isolated' = NoNode,
           extra' = "up" => extra = "up" /\ at.step > 4
    PROVE  HarnessInv'
<1>1. UNCHANGED <<prog, at, lead, voters, com, table, backlog>>
  BY DEF state
<1>2. Script' = Script
  BY <1>1 DEF Script
<1>3. HarnessTypes'
  BY <1>1, <1>2 DEF HarnessInv, HarnessTypes, PlaceTypes, TableTypes
<1>4. TickInv => TickInv'
  BY <1>1 DEF TickInv, Shows
<1>5. (StartInv => StartInv') /\ (SampleInv => SampleInv')
  BY <1>1, <1>2 DEF StartInv, SampleInv, AtEnd
<1>6. CutInv => CutInv'
  BY <1>1 DEF CutInv, Running
<1> QED  BY <1>1, <1>3, <1>4, <1>5, <1>6 DEF HarnessInv

LEMMA JoinLen == Len(JoinExtra) = 4
  BY JoinScript

LEMMA FailKeeps ==
    ASSUME HarnessInv, Step \notin {"none", "first", "heal"}, NEW why, why # "running", Fail(why)
    PROVE  HarnessInv'
<1>1. /\ UNCHANGED <<prog, at, lead, isolated, state>> /\ out' # "running"
      /\ extra' = IF Joining /\ extra = "up" THEN "down" ELSE extra
  BY DEF Fail
<1>2. PlaceTypes /\ CutInv
  BY DEF HarnessInv, HarnessTypes
<1>3. Running
  BY DEF Step
<1>4. isolated = NoNode
  <2> SUFFICES ASSUME isolated # NoNode PROVE FALSE
    OBVIOUS
  <2>1. at.phase = "election" /\ at.step \in 3 .. 4
    BY <1>2 DEF CutInv
  <2>2. Step \in {"first", "heal"}
    BY <1>2, <1>3, <2>1, ElectionPlace DEF At
  <2> QED  BY <2>2
<1>5. extra' = "up" => extra = "up" /\ at.step > 4
  BY <1>1, <1>2, JoinLen DEF CutInv, Joining
<1> QED  BY <1>1, <1>4, <1>5, EndKeeps

LEMMA TimeoutKeeps ==
    ASSUME HarnessInv, Timeout
    PROVE  HarnessInv'
<1>1. Step \in Waits \cup Command \cup {"voterAny"}
  BY DEF Timeout
<1>2. CASE Step = "first"
  <2>1. /\ UNCHANGED <<prog, at, lead, extra, state>> /\ out' # "running" /\ isolated' = NoNode
    BY <1>2 DEF Timeout
  <2>2. PlaceTypes /\ CutInv /\ Running
    BY <1>2 DEF HarnessInv, HarnessTypes, Step
  <2>3. extra # "up"
    <3> SUFFICES ASSUME extra = "up" PROVE FALSE
      OBVIOUS
    <3>1. at.phase = "tick" /\ at.step \in 2 .. 7
      BY <2>2 DEF CutInv
    <3>2. Step \in {"voter", "member", "has", "drop", "unvote", "shut"}
      BY <2>2, <3>1, TickPlace DEF At
    <3> QED  BY <1>2, <3>2
  <2> QED  BY <2>1, <2>3, EndKeeps
<1>3. CASE Step # "first"
  <2>1. Fail("timeout")
    BY <1>3 DEF Timeout
  <2>2. Step \notin {"none", "first", "heal"}
    BY <1>1, <1>3 DEF Waits, Command
  <2> QED  BY <2>1, <2>2, FailKeeps
<1> QED  BY <1>2, <1>3

(* The next step is taken without a call.                                  *)
LEMMA ForwardKeeps ==
    ASSUME HarnessInv, Step \notin Command \cup {"none", "voterAny"}, Forward,
           UNCHANGED <<prog, out, state>>, lead' \in CoreSet \cup {NoNode},
           Step = "lockGone" => \A m \in CoreSet : ~table[m].lock,
           Step = "leaseGone" => \A m \in CoreSet : ~table[m].lease,
           extra' = "up" => Step = "start" \/ (extra = "up" /\ Step # "shut"),
           isolated' # NoNode => Step = "isolate" \/ (isolated # NoNode /\ Step # "heal")
    PROVE  HarnessInv'
<1>1. /\ UNCHANGED <<prog, out, voters, com, table, backlog>> /\ Running /\ ~AtEnd
      /\ Step # "none" /\ PlaceTypes
  BY DEF state, Step, HarnessInv, HarnessTypes
<1>2. /\ PlaceTypes' /\ Script' = Script /\ at'.step = at.step + 1
      /\ at'.phase = at.phase /\ at'.round = at.round
  <2>1. at' # at
    BY SMTT(60), <1>1 DEF Forward, PlaceTypes
  <2> QED  BY <1>1, <2>1, PlaceKept
<1>3. HarnessTypes'
  BY <1>1, <1>2 DEF HarnessInv, HarnessTypes, TableTypes
<1>4. CASE at.phase = "start"
  <2>1. StartInv /\ at.step \in Nat /\ Len(Core) \in Nat
    BY SMTT(60), <1>1, <1>4, CoreFacts DEF HarnessInv, PlaceTypes
  <2>2. ASSUME NEW k \in 2 .. Len(Core), at.step = k PROVE FALSE
    BY <1>1, <1>4, <2>2, StartPlace
  <2>3. ASSUME NEW k \in 1 .. Len(Core), at.step = Len(Core) + 1 + k PROVE FALSE
    BY <1>1, <1>4, <2>3, StartPlace DEF Command
  <2>4. \A k \in 2 .. Len(Core) : at'.step > k => at.step > k
    BY SMTT(60), <1>2, <2>1, <2>2
  <2>5. \A k \in 1 .. Len(Core) : at'.step > Len(Core) + 1 + k => at.step > Len(Core) + 1 + k
    BY SMTT(60), <1>2, <2>1, <2>3
  <2>6. StartInv'
    BY <1>1, <2>1, <2>4, <2>5 DEF StartInv
  <2>7. CutInv'
    <3>1. Step \in {"bootLeader", "leader", "alive", "none"}
      BY <1>1, <1>4, <2>2, <2>3, StartPlace
    <3> QED  BY <1>4, <3>1 DEF HarnessInv, CutInv
  <2> QED  BY <1>2, <1>3, <1>4, <2>6, <2>7 DEF HarnessInv
<1>5. CASE at.phase = "tick"
  <2>1. TickInv /\ CutInv
    BY <1>5 DEF HarnessInv
  <2>2. at.step \in {1, 4, 7, 8, 9, 11, 13}
    <3>1. at.step \in 1 .. 13
      BY <1>1, <1>5, TickPlace
    <3>2. at.step \notin {2, 3, 5, 6, 10, 12}
      BY <1>1, <1>5, TickPlace DEF At, Command
    <3> QED  BY <3>1, <3>2
  <2>3. at.step = 11 => ~com.lock
    <3> SUFFICES ASSUME at.step = 11, com.lock PROVE FALSE
      OBVIOUS
    <3>1. Expires(at.round) /\ Step = "lockGone"
      BY <1>1, <1>5, TickPlace DEF At, Command
    <3>2. PICK m \in CoreSet : Shows(m, "lock")
      BY <2>1, <3>1 DEF TickInv
    <3> QED  BY <3>1, <3>2 DEF Shows
  <2>4. at.step = 13 => ~com.lease
    <3> SUFFICES ASSUME at.step = 13, com.lease PROVE FALSE
      OBVIOUS
    <3>1. Expires(at.round) /\ Step = "leaseGone"
      BY <1>1, <1>5, TickPlace DEF At, Command
    <3>2. PICK m \in CoreSet : Shows(m, "lease")
      BY <2>1, <3>1 DEF TickInv
    <3> QED  BY <3>1, <3>2 DEF Shows
  <2>5. TickInv'
    BY SMTT(60), <1>1, <1>2, <2>1, <2>2, <2>3, <2>4 DEF TickInv
  <2>6. CutInv'
    <3>1. isolated' = NoNode
      <4>1. isolated = NoNode
        BY <1>5, <2>1 DEF CutInv
      <4>2. Step # "isolate"
        BY <1>1, <1>5, <2>2, TickPlace DEF At
      <4> QED  BY <4>1, <4>2
    <3>2. ASSUME extra' = "up" PROVE at'.step \in 2 .. 7
      <4>1. CASE Step = "start"
        <5>1. at.step = 1
          BY <1>1, <1>5, <2>2, <4>1, TickPlace DEF At
        <5> QED  BY <1>2, <5>1
      <4>2. CASE extra = "up" /\ Step # "shut"
        <5>1. at.step \in 2 .. 7 /\ at.step # 7
          BY <1>1, <1>5, <2>1, <4>2, TickPlace DEF At, CutInv
        <5> QED  BY SMTT(60), <1>2, <5>1
      <4> QED  BY <3>2, <4>1, <4>2
    <3> QED  BY <1>1, <1>2, <1>5, <3>1, <3>2 DEF CutInv, Running
  <2> QED  BY <1>2, <1>3, <1>5, <2>5, <2>6 DEF HarnessInv
<1>6. CASE at.phase = "locks"
  <2>1. SampleInv /\ CutInv
    BY <1>6 DEF HarnessInv
  <2>2. Step = "leader" /\ at.step < Len(Script) - 1 /\ Len(Script) \in Nat /\ at.step \in Nat
    BY <1>1, <1>6, LocksPlace DEF At, Command
  <2>3. ~(AtEnd')
    BY <1>2, <2>2 DEF AtEnd
  <2>4. SampleInv'
    BY <1>1, <1>2, <1>6, <2>1, <2>3 DEF SampleInv
  <2>5. CutInv'
    BY <1>6, <2>1, <2>2 DEF CutInv
  <2> QED  BY <1>2, <1>3, <1>6, <2>4, <2>5 DEF HarnessInv
<1>7. CASE at.phase = "election"
  <2>1. SampleInv /\ CutInv
    BY <1>7 DEF HarnessInv
  <2>2. SampleInv'
    BY <1>1, <1>2, <1>7, <2>1 DEF SampleInv
  <2>3. at.step \in 1 .. 5
    BY <1>1, <1>7, ElectionPlace
  <2>4. extra' # "up"
    <3>1. Step # "start"
      BY <1>1, <1>7, <2>3, ElectionPlace DEF At
    <3> QED  BY <1>7, <2>1, <3>1 DEF CutInv
  <2>5. isolated' # NoNode => at'.step \in 3 .. 4
    <3> SUFFICES ASSUME isolated' # NoNode PROVE at'.step \in 3 .. 4
      OBVIOUS
    <3>1. CASE Step = "isolate"
      <4>1. at.step = 2
        BY <1>1, <1>7, <2>3, <3>1, ElectionPlace DEF At
      <4> QED  BY <1>2, <4>1
    <3>2. CASE isolated # NoNode /\ Step # "heal"
      <4>1. at.step = 3
        BY <1>1, <1>7, <2>1, <3>2, ElectionPlace DEF At, CutInv
      <4> QED  BY <1>2, <4>1
    <3> QED  BY <3>1, <3>2
  <2>6. CutInv'
    BY <1>1, <1>2, <1>7, <2>4, <2>5 DEF CutInv, Running
  <2> QED  BY <1>2, <1>3, <1>7, <2>2, <2>6 DEF HarnessInv
<1> QED  BY <1>1, <1>4, <1>5, <1>6, <1>7 DEF PlaceTypes

(* A round begins where the one before left off.                           *)
LEMMA RoundKeeps ==
    ASSUME HarnessInv, NextRound
    PROVE  HarnessInv'
<1>1. /\ UNCHANGED <<prog, lead, extra, isolated, state>> /\ Running /\ AtEnd
      /\ UNCHANGED <<voters, com, table, backlog>>
  BY DEF NextRound, state
<1>2. PlaceTypes /\ CutInv /\ TableTypes
  BY DEF HarnessInv, HarnessTypes
<1>3. extra # "up" /\ isolated = NoNode
  <2>1. at.phase = "tick" => at.step = 14
    BY <1>1, <1>2, TickPlace
  <2>2. at.phase = "election" => at.step = 6
    BY <1>1, <1>2, ElectionPlace
  <2> QED  BY <1>2, <2>1, <2>2 DEF CutInv
<1>4. CASE out' # out
  <2>1. out' # "running" /\ at' = at
    BY <1>1, <1>4 DEF NextRound, Running
  <2> QED  BY <1>1, <1>3, <2>1, EndKeeps
<1>5. CASE out' = out
  <2>0. prog \in {"soak", "bench"} /\ at.round \in Nat
    BY <1>2, RoundAssumption DEF PlaceTypes
  <2>1. \E p \in {"tick", "locks", "election"}, r \in Nat :
           /\ at' = [phase |-> p, round |-> r, step |-> 1] /\ r <= MaxTicks + MaxSamples
           /\ prog = "soak" => p = "tick" /\ at.phase \in {"start", "tick"}
           /\ prog = "bench" => p # "tick" /\ at.phase # "tick"
    <3>1. CASE prog = "soak"
      <4>1. \/ at.phase = "start" /\ at' = [phase |-> "tick", round |-> 0, step |-> 1]
            \/ /\ at.phase = "tick" /\ at.round + 1 < MaxTicks
               /\ at' = [phase |-> "tick", round |-> at.round + 1, step |-> 1]
        BY <1>1, <1>5, <3>1 DEF NextRound, Running
      <4> QED  BY <2>0, <3>1, <4>1, RoundAssumption
    <3>2. CASE prog = "bench"
      <4>0. at.phase # "tick"
        BY <1>2, <3>2 DEF PlaceTypes
      <4>1. \/ at' = [phase |-> "locks", round |-> 0, step |-> 1]
            \/ at' = [phase |-> "election", round |-> 0, step |-> 1]
            \/ /\ at.phase \in {"locks", "election"} /\ at.round + 1 < MaxSamples
               /\ at' = [phase |-> at.phase, round |-> at.round + 1, step |-> 1]
        BY <1>1, <1>2, <1>5, <3>2, <4>0 DEF NextRound, Running, PlaceTypes
      <4> QED  BY <2>0, <3>2, <4>0, <4>1, RoundAssumption
    <3> QED  BY <2>0, <3>1, <3>2
  <2>2. PICK p \in {"tick", "locks", "election"}, r \in Nat :
           /\ at' = [phase |-> p, round |-> r, step |-> 1] /\ r <= MaxTicks + MaxSamples
           /\ prog = "soak" => p = "tick" /\ at.phase \in {"start", "tick"}
           /\ prog = "bench" => p # "tick" /\ at.phase # "tick"
    BY <2>1
  <2>3. at'.phase = p /\ at'.round = r /\ at'.step = 1 /\ r \in 0 .. MaxTicks + MaxSamples
    BY <2>2, RoundAssumption
  <2>4. Script' = Run(prog, p, r)
    BY <1>1, <2>0, <2>3 DEF Script, Scripts, Phase
  <2>5. Len(Script') \in Nat \ {0, 1}
    <3>1. CASE p = "tick"
      <4>1. Script' = RunTick(r)
        BY <2>4, <3>1 DEF Run
      <4>2. Len(RunTick(r)) = 13
        BY TickScript
      <4> QED  BY <4>1, <4>2
    <3>2. CASE p = "locks"
      BY <2>4, <3>2, LocksScript DEF Run
    <3>3. CASE p = "election"
      <4>1. Script' = MeasureElection
        BY <2>4, <3>3 DEF Run
      <4>2. Len(MeasureElection) = 5
        BY ElectionScript
      <4> QED  BY <4>1, <4>2
    <3> QED  BY <3>1, <3>2, <3>3
  <2>6. PlaceTypes'
    BY SMTT(60), <1>1, <2>0, <2>2, <2>3, <2>5 DEF PlaceTypes
  <2>7. HarnessTypes'
    BY <1>1, <2>6 DEF HarnessInv, HarnessTypes, TableTypes
  <2>8. /\ CoreSet \subseteq voters /\ voters \subseteq CoreSet
        /\ CoreSet \subseteq com.members /\ com.members \subseteq CoreSet /\ ~com.lock /\ ~com.lease
    <3>1. CASE at.phase = "start"
      <4>1. StartInv
        BY <3>1 DEF HarnessInv
      <4>2. at.step > 2 * Len(Core) + 1 /\ at.step \in Nat /\ Len(Core) \in Nat \ {0}
        BY SMTT(60), <1>1, <1>2, <3>1, StartPlace, CoreFacts DEF PlaceTypes
      <4>3. \A k \in 1 .. Len(Core) : Core[k] \in voters /\ Core[k] \in com.members
        <5> TAKE k \in 1 .. Len(Core)
        <5>1. at.step > k /\ at.step > Len(Core) + 1 + k
          BY <4>2
        <5>2. CASE k = 1
          BY <4>1, <5>1, <5>2 DEF StartInv, Boot
        <5>3. CASE k # 1
          <6>1. k \in 2 .. Len(Core)
            BY <4>2, <5>3
          <6> QED  BY <4>1, <5>1, <6>1 DEF StartInv
        <5> QED  BY <5>2, <5>3
      <4>4. DOMAIN Core = 1 .. Len(Core)
        BY CoreAssumption
      <4>5. CoreSet \subseteq voters /\ CoreSet \subseteq com.members
        BY <4>3, <4>4 DEF CoreSet
      <4> QED  BY <4>1, <4>5 DEF StartInv
    <3>2. CASE at.phase = "tick"
      <4>1. TickInv /\ at.step = 14
        BY <1>1, <1>2, <3>2, TickPlace DEF HarnessInv
      <4> QED  BY <4>1 DEF TickInv, Server
    <3>3. CASE at.phase \in {"locks", "election"}
      <4>1. SampleInv
        BY <3>3 DEF HarnessInv
      <4> QED  BY <1>1, <4>1 DEF SampleInv
    <3> QED  BY <1>2, <3>1, <3>2, <3>3 DEF PlaceTypes
  <2>9. at'.phase = "tick" => TickInv'
    <3>1. Extra \notin voters /\ Extra \notin com.members /\ CoreSet \subseteq Server
      BY <2>8, CoreAssumption DEF Server
    <3> QED  BY <1>1, <2>3, <2>8, <3>1 DEF TickInv
  <2>10. at'.phase \in {"locks", "election"} => SampleInv'
    BY <1>1, <2>8 DEF SampleInv
  <2>11. CutInv'
    BY <1>1, <1>3 DEF CutInv
  <2> QED  BY <2>3, <2>7, <2>9, <2>10, <2>11 DEF HarnessInv
<1> QED  BY <1>4, <1>5

--------------------------------------------------------------------------------
(* The steps that write.                                                   *)

LEMMA ExpirerKeeps ==
    ASSUME HarnessInv, NEW n \in CoreSet, Expirer(n)
    PROVE  HarnessInv'
<1>1. /\ UNCHANGED <<prog, at, lead, out, extra, isolated>> /\ at.phase = "tick"
      /\ lead \in CoreSet \cup {NoNode}
  BY DEF Expirer, HarnessInv, HarnessTypes
<1>2. PICK do \in {"expireLock", "expireLease"} : Commit(do, Extra, n) \/ UNCHANGED state
  BY DEF Expirer
<1>3. CASE UNCHANGED state
  BY <1>1, <1>3, StillKeeps
<1>4. CASE Commit(do, Extra, n)
  <2>1. /\ do \in Logged /\ Extra \in Server /\ TableTypes /\ Whole(com) /\ TickInv /\ CutInv
    BY <1>1 DEF Logged, Server, HarnessInv, HarnessTypes, TableTypes
  <2>2. TableTypes' /\ voters' = voters /\ com' = Effect(com, do, Extra)
    BY <1>4, <2>1, Committed
  <2>3. Script' = Script
    BY <1>1 DEF Script
  <2>4. HarnessTypes'
    BY <1>1, <2>2, <2>3 DEF HarnessInv, HarnessTypes, PlaceTypes
  <2>5. LET u == Effect(com, do, Extra) IN
        /\ u.members = com.members
        /\ IF do = "expireLock" THEN ~u.lock /\ u.lease = com.lease
                                ELSE u.lock = com.lock /\ ~u.lease
    <3>1. CASE do = "expireLock"
      BY <2>1, <3>1 DEF Effect, Whole
    <3>2. CASE do = "expireLease"
      BY <2>1, <3>2 DEF Effect, Whole
    <3> QED  BY <3>1, <3>2
  <2>6. /\ com'.members = com.members /\ (com'.lock => com.lock /\ do \notin Frees("lock"))
        /\ com'.lease => com.lease /\ do \notin Frees("lease")
    BY <2>2, <2>5 DEF Frees
  <2>7. ASSUME com'.lock, NEW m \in CoreSet, Shows(m, "lock") PROVE Shows(m, "lock")'
    BY <1>4, <2>1, <2>6, <2>7, ShowsCommitted
  <2>8. ASSUME com'.lease, NEW m \in CoreSet, Shows(m, "lease") PROVE Shows(m, "lease")'
    BY <1>4, <2>1, <2>6, <2>8, ShowsCommitted
  <2>9. TickInv'
    BY <1>1, <2>1, <2>2, <2>6, <2>7, <2>8 DEF TickInv
  <2>10. CutInv'
    BY <1>1, <2>1 DEF CutInv, Running
  <2> QED  BY <1>1, <2>4, <2>9, <2>10 DEF HarnessInv
<1> QED  BY <1>2, <1>3, <1>4

LEMMA CommitFacts ==
    ASSUME TableTypes, NEW do \in Logged, NEW n \in Server, NEW c, Commit(do, n, c)
    PROVE  /\ TableTypes' /\ voters' = voters
           /\ com'.members = IF do = "member" THEN com.members \cup {n}
                             ELSE IF do = "drop" THEN com.members \ {n} ELSE com.members
           /\ (do = "acquire" => com'.lock) /\ (do = "grant" => com'.lease)
           /\ do \in Frees("lock") => ~com'.lock
           /\ do \notin Frees("lock") \cup {"acquire"} => com'.lock = com.lock
           /\ do \in Frees("lease") => ~com'.lease
           /\ do \notin Frees("lease") \cup {"grant"} => com'.lease = com.lease
<1>1. TableTypes' /\ voters' = voters /\ com' = Effect(com, do, n) /\ Whole(com)
  BY Committed DEF TableTypes
<1>2. LET u == Effect(com, do, n) IN
      /\ u.members = IF do = "member" THEN com.members \cup {n}
                     ELSE IF do = "drop" THEN com.members \ {n} ELSE com.members
      /\ (do = "acquire" => u.lock) /\ (do = "grant" => u.lease)
      /\ do \in Frees("lock") => ~u.lock
      /\ do \notin Frees("lock") \cup {"acquire"} => u.lock = com.lock
      /\ do \in Frees("lease") => ~u.lease
      /\ do \notin Frees("lease") \cup {"grant"} => u.lease = com.lease
  BY SMTT(60), <1>1, EffectFacts
<1> QED  BY <1>1, <1>2

LEMMA CallKeeps ==
    ASSUME HarnessInv, Step \in Command \cup {"voterAny"}, NEW c, Commit(Step, Node, c),
           at' = at \/ (Forward /\ c \in CoreSet),
           UNCHANGED <<prog, out, extra, isolated>>, lead' \in CoreSet \cup {NoNode}
    PROVE  HarnessInv'
<1>1. Running /\ ~AtEnd /\ Step # "none" /\ PlaceTypes /\ TableTypes /\ CutInv
  BY DEF Step, HarnessInv, HarnessTypes, Command
<1>2. /\ PlaceTypes' /\ Script' = Script /\ at'.step \in {at.step, at.step + 1}
      /\ at'.phase = at.phase /\ at'.round = at.round
      /\ at'.step = at.step + 1 => c \in CoreSet
  <2>1. at'.step # at.step => at' # at
    OBVIOUS
  <2>2. at.step \in Nat
    BY SMTT(60), <1>1 DEF PlaceTypes
  <2> QED  BY <1>1, <2>1, <2>2, PlaceKept
<1>3. CASE at.phase = "start"
  <2>1. StartInv /\ at.step \in Nat /\ Len(Core) \in Nat \ {0}
    BY SMTT(60), <1>1, <1>3, CoreFacts DEF HarnessInv, PlaceTypes
  <2>2. CutInv'
    BY <1>2, <1>3 , <1>1 DEF CutInv
  <2>3. CASE at.step \in 2 .. Len(Core)
    <3>1. Step = "voterAny" /\ Node = Core[at.step] /\ Core[at.step] \in CoreSet
      BY SMTT(60), <1>1, <1>3, <2>3, StartPlace, CoreFacts
    <3>2. voters' = voters \cup {Core[at.step]} /\ UNCHANGED <<com, table, backlog>>
      BY <3>1 DEF Commit
    <3>3. \A k \in 2 .. Len(Core) : at'.step > k => at.step > k \/ k = at.step
      BY <1>2, <2>1
    <3>4. \A k \in 1 .. Len(Core) : ~(at'.step > Len(Core) + 1 + k)
      BY <1>2, <2>1, <2>3
    <3>5. StartInv'
      BY <2>1, <3>1, <3>2, <3>3, <3>4 DEF StartInv
    <3>6. HarnessTypes'
      BY <1>1, <1>2, <3>2 DEF HarnessTypes, TableTypes
    <3> QED  BY <1>2, <1>3, <2>2, <3>5, <3>6 DEF HarnessInv
  <2>4. CASE ~(at.step \in 2 .. Len(Core))
    <3>1. PICK j \in 1 .. Len(Core) : at.step = Len(Core) + 1 + j
      BY <1>1, <1>3, <2>4, StartPlace DEF Command
    <3>2. Step = "member" /\ Node = Core[j] /\ Core[j] \in CoreSet
      BY <1>1, <1>3, <3>1, StartPlace, CoreFacts
    <3>3. "member" \in Logged /\ Core[j] \in Server /\ Commit("member", Core[j], c)
      BY <3>2 DEF Logged, Server
    <3>4. /\ TableTypes' /\ voters' = voters /\ com'.members = com.members \cup {Core[j]}
          /\ com'.lock = com.lock /\ com'.lease = com.lease
      BY <1>1, <3>3, CommitFacts DEF Frees
    <3>5. \A k \in 1 .. Len(Core) :
             at'.step > Len(Core) + 1 + k => at.step > Len(Core) + 1 + k \/ k = j
      BY <1>2, <2>1, <3>1
    <3>6. \A k \in 2 .. Len(Core) : at.step > k
      BY <2>1, <3>1
    <3>7. StartInv'
      BY <2>1, <3>2, <3>4, <3>5, <3>6 DEF StartInv
    <3>8. HarnessTypes'
      BY <1>2, <3>4 DEF HarnessTypes
    <3> QED  BY <1>2, <1>3, <2>2, <3>7, <3>8 DEF HarnessInv
  <2> QED  BY <2>3, <2>4
<1>4. CASE at.phase = "tick"
  <2>1. TickInv /\ at.step \in 1 .. 13 /\ Extra \in Server
    BY <1>1, <1>4, TickPlace DEF HarnessInv, Server
  <2>2. at.step \in {2, 3, 5, 6, 10, 11, 12, 13}
    <3>1. at.step \notin {1, 4, 7, 8, 9}
      BY <1>1, <1>4, TickPlace DEF At, Command
    <3> QED  BY <2>1, <3>1
  <2>3. /\ Node = Extra
        /\ Step = CASE at.step = 2 -> "voter" [] at.step = 3 -> "member" [] at.step = 5 -> "drop"
                    [] at.step = 6 -> "unvote" [] at.step = 10 -> "acquire"
                    [] at.step = 11 -> "release" [] at.step = 12 -> "grant"
                    [] at.step = 13 -> "revoke"
    BY <1>1, <1>4, <2>2, TickPlace DEF At, Command
  <2>4. CutInv'
    BY SMTT(60), <1>1, <1>2, <1>4, <2>2 DEF CutInv, Running
  <2>5. CASE at.step \in {2, 6}
    <3>1. /\ voters' = IF at.step = 2 THEN voters \cup {Extra} ELSE voters \ {Extra}
          /\ UNCHANGED <<com, table, backlog>>
      BY SMTT(60), <2>3, <2>5 DEF Commit
    <3>2. TickInv'
      BY SMTT(60), <1>2, <2>1, <2>5, <3>1, CoreAssumption DEF TickInv
    <3>3. HarnessTypes'
      BY <1>1, <1>2, <3>1 DEF HarnessTypes, TableTypes
    <3> QED  BY <1>2, <1>4, <2>4, <3>2, <3>3 DEF HarnessInv
  <2>6. CASE at.step \notin {2, 6}
    <3>0. Step \in Logged /\ Commit(Step, Extra, c)
      BY <2>2, <2>3, <2>6 DEF Logged
    <3>1. TableTypes' /\ voters' = voters
      BY <1>1, <2>1, <3>0, CommitFacts
    <3>2. HarnessTypes'
      BY <1>2, <3>1 DEF HarnessTypes
    <3>3. CASE at.step \in {3, 5}
      <4>1. /\ com'.members = IF at.step = 3 THEN com.members \cup {Extra} ELSE com.members \ {Extra}
            /\ com'.lock = com.lock /\ com'.lease = com.lease
        <5>1. CASE at.step = 3
          <6>1. "member" \in Logged /\ Commit("member", Extra, c)
            BY <2>3, <3>0, <5>1 DEF Logged
          <6>2. /\ "member" \notin Frees("lock") \cup {"acquire"}
                /\ "member" \notin Frees("lease") \cup {"grant"}
            BY DEF Frees
          <6>3. /\ com'.members = com.members \cup {Extra}
                /\ com'.lock = com.lock /\ com'.lease = com.lease
            BY <1>1, <2>1, <6>1, <6>2, CommitFacts
          <6> QED  BY <5>1, <6>3
        <5>2. CASE at.step = 5
          <6>1. "drop" \in Logged /\ Commit("drop", Extra, c)
            BY <2>3, <3>0, <5>2 DEF Logged
          <6>2. /\ "drop" \notin Frees("lock") \cup {"acquire"}
                /\ "drop" \notin Frees("lease") \cup {"grant"}
            BY DEF Frees
          <6>3. /\ com'.members = com.members \ {Extra}
                /\ com'.lock = com.lock /\ com'.lease = com.lease
            BY <1>1, <2>1, <6>1, <6>2, CommitFacts
          <6> QED  BY SMTT(60), <5>2, <6>3
        <5> QED  BY <3>3, <5>1, <5>2
      <4>2. TickInv'
        BY SMTT(60), <1>2, <2>1, <3>1, <3>3, <4>1, CoreAssumption DEF TickInv
      <4> QED  BY <1>2, <1>4, <2>4, <3>2, <4>2 DEF HarnessInv
    <3>4. CASE at.step = 10
      <4>1. com'.members = com.members /\ com'.lock /\ com'.lease = com.lease
        <5>1. "acquire" \in Logged /\ Commit("acquire", Extra, c)
          BY <2>3, <3>0, <3>4 DEF Logged
        <5> QED  BY <1>1, <2>1, <5>1, CommitFacts DEF Frees
      <4>2. c \in CoreSet => Shows(c, "lock")'
        <5>1. c \in CoreSet => table'[c] = com' /\ backlog'[c] = <<>>
          BY <1>1, <2>1, <3>0, Committed
        <5> QED  BY <4>1, <5>1 DEF Shows
      <4>3. TickInv'
        BY <1>2, <2>1, <3>1, <3>4, <4>1, <4>2 DEF TickInv
      <4> QED  BY <1>2, <1>4, <2>4, <3>2, <4>3 DEF HarnessInv
    <3>5. CASE at.step = 11
      <4>1. com'.members = com.members /\ ~com'.lock /\ com'.lease = com.lease
        <5>1. "release" \in Logged /\ Commit("release", Extra, c)
          BY <2>3, <3>0, <3>5 DEF Logged
        <5> QED  BY <1>1, <2>1, <5>1, CommitFacts DEF Frees
      <4>2. TickInv'
        BY <1>2, <2>1, <3>1, <3>5, <4>1 DEF TickInv
      <4> QED  BY <1>2, <1>4, <2>4, <3>2, <4>2 DEF HarnessInv
    <3>6. CASE at.step = 12
      <4>1. com'.members = com.members /\ com'.lock = com.lock /\ com'.lease
        <5>1. "grant" \in Logged /\ Commit("grant", Extra, c)
          BY <2>3, <3>0, <3>6 DEF Logged
        <5> QED  BY <1>1, <2>1, <5>1, CommitFacts DEF Frees
      <4>2. c \in CoreSet => Shows(c, "lease")'
        <5>1. c \in CoreSet => table'[c] = com' /\ backlog'[c] = <<>>
          BY <1>1, <2>1, <3>0, Committed
        <5> QED  BY <4>1, <5>1 DEF Shows
      <4>3. TickInv'
        BY <1>2, <2>1, <3>1, <3>6, <4>1, <4>2 DEF TickInv
      <4> QED  BY <1>2, <1>4, <2>4, <3>2, <4>3 DEF HarnessInv
    <3>7. CASE at.step = 13
      <4>1. com'.members = com.members /\ com'.lock = com.lock /\ ~com'.lease
        <5>1. "revoke" \in Logged /\ Commit("revoke", Extra, c)
          BY <2>3, <3>0, <3>7 DEF Logged
        <5> QED  BY <1>1, <2>1, <5>1, CommitFacts DEF Frees
      <4>2. TickInv'
        BY <1>2, <2>1, <3>1, <3>7, <4>1 DEF TickInv
      <4> QED  BY <1>2, <1>4, <2>4, <3>2, <4>2 DEF HarnessInv
    <3> QED  BY <2>2, <2>6, <3>3, <3>4, <3>5, <3>6, <3>7
  <2> QED  BY <2>5, <2>6
<1>5. CASE at.phase = "locks"
  <2>1. SampleInv /\ Extra \in Server /\ Len(Script) \in Nat /\ at.step \in 1 .. Len(Script)
    BY <1>1, <1>5, LocksPlace DEF HarnessInv, Server
  <2>2. /\ Node = Extra
        /\ \/ at.step = Len(Script) - 1 /\ Step = "acquire"
           \/ at.step = Len(Script) /\ Step = "release"
    <3>1. ~(at.step < Len(Script) - 1)
      BY <1>1, <1>5, LocksPlace DEF Command
    <3>2. at.step = Len(Script) - 1 \/ at.step = Len(Script)
      BY <2>1, <3>1
    <3> QED  BY <1>1, <1>5, <3>2, LocksPlace DEF At
  <2>3. Step \in Logged /\ Commit(Step, Extra, c)
    BY <2>2 DEF Logged
  <2>4. /\ TableTypes' /\ voters' = voters /\ com'.members = com.members /\ com'.lease = com.lease
        /\ Step = "release" => ~com'.lock
    BY <1>1, <2>1, <2>2, <2>3, CommitFacts DEF Frees
  <2>5. Step = "acquire" => ~(AtEnd')
    BY <1>2, <2>1, <2>2 DEF AtEnd
  <2>6. SampleInv'
    BY <1>2, <1>5, <2>1, <2>2, <2>4, <2>5 DEF SampleInv
  <2>7. CutInv'
    BY <1>1, <1>2, <1>5 DEF CutInv
  <2>8. HarnessTypes'
    BY <1>2, <2>4 DEF HarnessTypes
  <2> QED  BY <1>2, <1>5, <2>6, <2>7, <2>8 DEF HarnessInv
<1>6. CASE at.phase = "election"
  <2>1. at.step \in 1 .. 5
    BY <1>1, <1>6, ElectionPlace
  <2> QED  BY <1>1, <1>6, <2>1, ElectionPlace DEF At, Command
<1> QED  BY <1>1, <1>3, <1>4, <1>5, <1>6 DEF PlaceTypes

LEMMA PolledLead ==
    ASSUME HarnessInv, \E n \in Polled : Agreed(n)
    PROVE  (CHOOSE n \in Polled : Agreed(n)) \in CoreSet
<1>1. Boot \in CoreSet
  BY CoreFacts DEF Boot
<1>2. Polled \subseteq CoreSet
  BY <1>1 DEF Polled
<1> QED  BY <1>2

LEMMA PollKeeps ==
    ASSUME HarnessInv, Poll
    PROVE  HarnessInv'
<1>1. UNCHANGED <<prog, out, extra, isolated, state>> /\ lead \in CoreSet \cup {NoNode}
  BY DEF Poll, HarnessInv, HarnessTypes
<1>2. lead' \in CoreSet \cup {NoNode}
  BY <1>1, PolledLead DEF Poll
<1>3. CASE at' = at
  BY <1>1, <1>2, <1>3, StillKeeps
<1>4. CASE at' # at
  <2>1. Forward /\ Step \notin Command /\ Step \in {"bootLeader", "leader", "first"}
    BY <1>4 DEF Poll
  <2> QED  BY <1>1, <1>2, <2>1, ForwardKeeps
<1> QED  BY <1>3, <1>4

LEMMA WaitKeeps ==
    ASSUME HarnessInv, Wait
    PROVE  HarnessInv'
<1>1. /\ UNCHANGED <<prog, lead, out, extra, isolated, state>> /\ Forward /\ Seen
      /\ lead \in CoreSet \cup {NoNode}
  BY DEF Wait, HarnessInv, HarnessTypes
<1>2. Step \in {"has", "gone", "alive", "lockGone", "leaseGone"}
  BY <1>1 DEF Seen
<1>3. /\ Step = "lockGone" => \A m \in CoreSet : ~table[m].lock
      /\ Step = "leaseGone" => \A m \in CoreSet : ~table[m].lease
  BY <1>1 DEF Seen
<1> QED  BY <1>1, <1>2, <1>3, ForwardKeeps DEF Command

LEMMA NodeKeeps ==
    ASSUME HarnessInv, StartExtra \/ ShutExtra \/ Isolate \/ Heal
    PROVE  HarnessInv'
<1>1. lead \in CoreSet \cup {NoNode}
  BY DEF HarnessInv, HarnessTypes
<1>2. CASE StartExtra
  BY <1>1, <1>2, ForwardKeeps DEF StartExtra, Command
<1>3. CASE ShutExtra
  BY <1>1, <1>3, ForwardKeeps DEF ShutExtra, Command
<1>4. CASE Isolate
  BY <1>1, <1>4, ForwardKeeps DEF Isolate, Command
<1>5. CASE Heal
  BY <1>1, <1>5, ForwardKeeps DEF Heal, Command
<1> QED  BY <1>2, <1>3, <1>4, <1>5

LEMMA CallsKeep ==
    ASSUME HarnessInv, CallOk \/ CallLost
    PROVE  HarnessInv'
<1>1. Step \in Command \cup {"voterAny"} /\ lead \in CoreSet
  BY DEF CallOk, CallLost, Calling, HarnessInv, HarnessTypes
<1>2. CASE CallOk /\ Refused(Step) /\ ~Forgiven
  <2>1. Fail("refused") /\ Step \notin {"none", "first", "heal"}
    BY <1>1, <1>2 DEF CallOk, Command
  <2> QED  BY <2>1, FailKeeps
<1>3. CASE CallOk /\ ~(Refused(Step) /\ ~Forgiven)
  <2>1. /\ Commit(Step, Node, lead) /\ Forward /\ UNCHANGED <<prog, out, extra, isolated>>
        /\ lead' \in CoreSet \cup {NoNode}
    BY <1>1, <1>3 DEF CallOk
  <2> QED  BY <1>1, <2>1, CallKeeps
<1>4. CASE CallLost
  <2>1. /\ Commit(Step, Node, NoNode) \/ UNCHANGED state
        /\ UNCHANGED <<prog, at, out, extra, isolated>> /\ lead' = NoNode
    BY <1>4 DEF CallLost
  <2>2. CASE UNCHANGED state
    BY <2>1, <2>2, StillKeeps
  <2>3. CASE Commit(Step, Node, NoNode)
    BY <1>1, <2>1, <2>3, CallKeeps
  <2> QED  BY <2>1, <2>2, <2>3
<1> QED  BY <1>2, <1>3, <1>4

LEMMA AuditKeeps ==
    ASSUME HarnessInv, Audit
    PROVE  HarnessInv'
<1>1. /\ out = "audit" /\ out' # "running" /\ UNCHANGED <<prog, at, lead, extra, isolated, state>>
      /\ CutInv
  BY DEF Audit, HarnessInv
<1>2. isolated = NoNode /\ (extra = "up" => at.step > 4)
  BY <1>1 DEF CutInv, Running
<1> QED  BY <1>1, <1>2, EndKeeps

LEMMA HarnessInvInit ==
    HarnessInit => HarnessInv
<1> SUFFICES ASSUME HarnessInit PROVE HarnessInv
  OBVIOUS
<1>1. /\ prog \in {"soak", "bench"} /\ at = [phase |-> "start", round |-> 0, step |-> 1]
      /\ lead = NoNode /\ extra = "none" /\ isolated = NoNode /\ voters = {Boot}
      /\ com = [members |-> {}, lock |-> FALSE, lease |-> FALSE]
      /\ table = [n \in CoreSet |-> com] /\ backlog = [n \in CoreSet |-> <<>>]
  BY DEF HarnessInit
<1>2. at.phase = "start" /\ at.round = 0 /\ at.step = 1 /\ 0 \in 0 .. MaxTicks + MaxSamples
  BY <1>1, RoundAssumption
<1>3. Script = IF prog = "soak" THEN StartSoak ELSE StartCluster
  BY <1>1, <1>2 DEF Script, Scripts, Run, Phase
<1>4. Len(Core) \in Nat \ {0} /\ Boot \in CoreSet
  BY CoreFacts DEF Boot
<1>5. Len(Script) \in Nat
  BY SMTT(60), <1>3, <1>4, StartScript, SoakScript DEF Starts
<1>6. PlaceTypes
  BY <1>1, <1>2, <1>5 DEF PlaceTypes
<1>7. TableTypes
  BY <1>1 DEF TableTypes, Whole
<1>8. StartInv
  BY SMTT(60), <1>1, <1>2, <1>4 DEF StartInv
<1> QED  BY <1>1, <1>2, <1>6, <1>7, <1>8 DEF HarnessInv, HarnessTypes, CutInv

LEMMA HarnessInvNext ==
    HarnessInv /\ [HarnessNext]_harnessVars => HarnessInv'
<1> SUFFICES ASSUME HarnessInv, [HarnessNext]_harnessVars PROVE HarnessInv'
  OBVIOUS
<1>0. lead \in CoreSet \cup {NoNode} /\ (\A k \in DOMAIN Core : Core[k] \in CoreSet)
  BY DEF HarnessInv, HarnessTypes, CoreSet
<1>1. CASE Poll
  BY <1>1, PollKeeps
<1>2. CASE PickAny \/ Relook \/ CallNotLeader
  BY <1>0, <1>2, StillKeeps DEF PickAny, Relook, CallNotLeader
<1>3. CASE CallOk \/ CallLost
  BY <1>3, CallsKeep
<1>4. CASE Wait
  BY <1>4, WaitKeeps
<1>5. CASE StartExtra \/ ShutExtra \/ Isolate \/ Heal
  BY <1>5, NodeKeeps
<1>6. CASE NextRound
  BY <1>6, RoundKeeps
<1>7. CASE Audit
  BY <1>7, AuditKeeps
<1>8. CASE CtxDone \/ Timeout
  BY <1>8, TimeoutKeeps DEF CtxDone
<1>9. CASE Cancel \/ LeaderFails \/ LeaderCut
  BY <1>0, <1>9, StillKeeps DEF Cancel, LeaderFails, LeaderCut, driver
<1>10. ASSUME NEW n \in Server, Elect(n) \/ Learn(n) \/ StepDown(n) PROVE HarnessInv'
  BY <1>0, <1>10, StillKeeps DEF Elect, Learn, StepDown, driver
<1>11. ASSUME NEW n \in CoreSet, ApplyEntry(n) \/ Expirer(n) PROVE HarnessInv'
  BY <1>11, ApplyKeeps, ExpirerKeeps
<1>12. CASE UNCHANGED harnessVars
  BY <1>0, <1>12, StillKeeps DEF harnessVars, driver
<1> QED
  BY <1>1, <1>2, <1>3, <1>4, <1>5, <1>6, <1>7, <1>8, <1>9, <1>10, <1>11, <1>12
  DEF HarnessNext, Drive, Settle

LEMMA HarnessInvHolds ==
    HarnessSpec => []HarnessInv
<1>1. HarnessInit => HarnessInv
  BY HarnessInvInit
<1>2. HarnessInv /\ [HarnessNext]_harnessVars => HarnessInv'
  BY HarnessInvNext
<1> QED  BY <1>1, <1>2, PTL DEF HarnessSpec

(* runTick, measureLocks, measureElection: for every group, every number   *)
(* of rounds and every loss of leadership, a round that is over has left   *)
(* the configuration, the members, the lock and the lease as it found      *)
(* them, and no node that it started or cut off.                           *)
THEOREM RoundsLeaveNothing ==
    HarnessSpec => []RoundLeavesNothing
<1>1. HarnessInv => RoundLeavesNothing
  <2> SUFFICES ASSUME HarnessInv, Running, AtEnd, at.phase \in {"tick", "locks", "election"}
               PROVE  /\ voters = CoreSet /\ com.members = CoreSet /\ ~com.lock /\ ~com.lease
                      /\ extra # "up" /\ isolated = NoNode
    BY DEF RoundLeavesNothing
  <2>1. PlaceTypes /\ CutInv
    BY DEF HarnessInv, HarnessTypes
  <2>2. CASE at.phase = "tick"
    <3>1. TickInv /\ at.step = 14
      BY <2>1, <2>2, TickPlace DEF HarnessInv
    <3>2. voters = CoreSet /\ com.members = CoreSet /\ ~com.lock /\ ~com.lease
      BY <3>1 DEF TickInv, Server
    <3> QED  BY <2>1, <2>2, <3>1, <3>2 DEF CutInv
  <2>3. CASE at.phase \in {"locks", "election"}
    <3>1. SampleInv
      BY <2>3 DEF HarnessInv
    <3>2. at.phase = "election" => at.step = 6
      BY <2>1, ElectionPlace
    <3>3. extra # "up" /\ isolated = NoNode
      BY <2>1, <2>3, <3>2 DEF CutInv
    <3> QED  BY <3>1, <3>3 DEF SampleInv
  <2> QED  BY <2>2, <2>3
<1> QED  BY <1>1, HarnessInvHolds, PTL

(* joinExtra, measureElection: however a run ends, no node is left cut     *)
(* off, and the extra node runs on only when leaving failed under it.      *)
THEOREM RunsLeaveNothing ==
    HarnessSpec => []NothingLeftBehind
<1>1. HarnessInv => NothingLeftBehind
  <2> SUFFICES ASSUME HarnessInv, out \notin {"running", "audit"}
               PROVE  /\ isolated = NoNode
                      /\ extra = "up" => at.phase = "tick" /\ at.step > Len(JoinExtra)
    BY DEF NothingLeftBehind
  <2>1. CutInv
    BY DEF HarnessInv
  <2> QED  BY <2>1, JoinLen DEF CutInv, Running
<1> QED  BY <1>1, HarnessInvHolds, PTL

================================================================================
