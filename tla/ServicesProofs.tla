---------------------------- MODULE ServicesProofs ----------------------------
(***************************************************************************)
(* Services of a running server, for any callers, roots and intervals: the *)
(* embedding runtime probes with one attempt at a time, the Git change     *)
(* monitor polls in time, the pool forgets no child, an export is whole,   *)
(* and the session that finds the client's root serves no stale one.       *)
(***************************************************************************)
EXTENDS RootsDiscovery, ChildPool, EmbedRuntime, PollSchedule, FeedbackStore,
        FiniteSetTheorems, SequenceTheorems, TLAPS

-----------------------------------------------------------------------------
(* The embedding runtime                                                    *)

\* OneProbe without counting: the slot is taken by the one attempt that is admitted.
ProbeSlot ==
    /\ rtRetrying \in BOOLEAN
    /\ \A d, e \in rtAdmitted : d = e
    /\ rtRetrying <=> rtAdmitted # {}

LEMMA ProbeSlotInit == RuntimeInit => ProbeSlot
  BY DEF RuntimeInit, ProbeSlot

\* An attempt that reports gives up the slot if it has it, and else leaves it.
LEMMA ProbeSlotLeft ==
  ASSUME ProbeSlot, NEW e \in Embedders, NEW result, RtEnds(e, result),
         rtRetrying' = IF e \in rtAdmitted THEN FALSE ELSE rtRetrying
  PROVE  ProbeSlot'
<1>1. rtAdmitted' = rtAdmitted \ {e}
  BY DEF RtEnds
<1>2. CASE e \in rtAdmitted
  BY <1>1, <1>2 DEF ProbeSlot
<1>3. CASE e \notin rtAdmitted
  BY <1>1, <1>3 DEF ProbeSlot
<1> QED
  BY <1>2, <1>3

LEMMA ProbeSlotNext == ProbeSlot /\ [RuntimeNext]_rtVars => ProbeSlot'
<1> SUFFICES ASSUME ProbeSlot, [RuntimeNext]_rtVars PROVE ProbeSlot'
  OBVIOUS
<1>1. ASSUME NEW e \in Embedders, EmbedStarts(e) PROVE ProbeSlot'
  <2>1. CASE Healthy
    BY <1>1, <2>1 DEF EmbedStarts, ProbeSlot
  <2>2. CASE ~Healthy
    <3>1. rtAdmitted = {} /\ rtAdmitted' = rtAdmitted \union {e} /\ rtRetrying' = TRUE
      BY <1>1, <2>2 DEF EmbedStarts, Admits, ProbeSlot
    <3> QED
      BY <3>1 DEF ProbeSlot
  <2> QED
    BY <2>1, <2>2
<1>2. ASSUME NEW e \in Embedders, EmbedRefused(e) PROVE ProbeSlot'
  BY <1>2 DEF EmbedRefused, ProbeSlot
<1>3. ASSUME NEW e \in Embedders, EmbedSucceeds(e) PROVE ProbeSlot'
  BY <1>3, ProbeSlotLeft DEF EmbedSucceeds
<1>4. ASSUME NEW e \in Embedders, EmbedFails(e) PROVE ProbeSlot'
  BY <1>4, ProbeSlotLeft DEF EmbedFails
<1>5. ASSUME NEW e \in Embedders, EmbedCancelled(e) PROVE ProbeSlot'
  BY <1>5, ProbeSlotLeft DEF EmbedCancelled
<1>6. CASE BackoffElapses
  BY <1>6 DEF BackoffElapses, ProbeSlot
<1>7. CASE RuntimeTurns
  BY <1>7 DEF RuntimeTurns, ProbeSlot
<1>8. CASE UNCHANGED rtVars
  BY <1>8 DEF rtVars, ProbeSlot
<1> QED
  BY <1>1, <1>2, <1>3, <1>4, <1>5, <1>6, <1>7, <1>8 DEF RuntimeNext, RtEmbed, RtReport

\* A set of which all members are equal has at most one.
LEMMA AtMostOne ==
  ASSUME NEW S, \A d, e \in S : d = e
  PROVE  Cardinality(S) <= 1
<1>1. CASE S = {}
  BY <1>1, FS_EmptySet
<1>2. ASSUME NEW e \in S PROVE Cardinality(S) <= 1
  <2>1. S = {e}
    OBVIOUS
  <2> QED
    BY <2>1, FS_Singleton
<1> QED
  BY <1>1, <1>2

\* Whichever late answers and cancellations cross, there is at most one attempt at a
\* runtime not known to be healthy, and it has the slot until it ends (OneProbe).
THEOREM ProbesAreSingle == RuntimeSpec => []OneProbe
<1>1. ProbeSlot => OneProbe
  BY AtMostOne DEF ProbeSlot, OneProbe
<1> QED
  BY ProbeSlotInit, ProbeSlotNext, <1>1, PTL DEF RuntimeSpec

-----------------------------------------------------------------------------
(* The poll schedule                                                        *)

PsTypeOK ==
    /\ psConfig \in PollIntervals
    /\ psConfig.hot <= psConfig.idle /\ psConfig.idle <= psConfig.error
    /\ psCurrent \in Nat /\ psLeft \in Nat /\ psSince \in Nat
    /\ psWake \in BOOLEAN /\ psPolling \in BOOLEAN /\ psFailed \in BOOLEAN /\ psAsked \in BOOLEAN

PsCap == IF psFailed THEN psConfig.error ELSE psConfig.idle

\* The interval and the timer are within the cap that applies.
WithinCap == psCurrent <= PsCap /\ psLeft <= Slowest(PsCap)

\* No time passes between what asks for a poll and the timer that is set for it.
AskedInTime ==
    /\ ~psAsked \/ psPolling => psSince = 0
    /\ psAsked /\ psPolling => psWake
    /\ psAsked /\ ~psPolling =>
          \/ psSince + psLeft <= Slowest(psConfig.hot)
          \/ psWake /\ psSince = 0

PsInv == PsTypeOK /\ WithinCap /\ AskedInTime
\* A longer interval has a later latest end, and no jitter goes beyond that.
LEMMA SlowestGrows ==
  ASSUME NEW a \in Nat, NEW b \in Nat, a <= b
  PROVE  Slowest(a) \in Nat /\ Slowest(a) <= Slowest(b)
  BY DEF Slowest, Longer

LEMMA JitterBounded ==
  ASSUME NEW a \in Nat, NEW t \in Jittered(a)
  PROVE  t \in Nat /\ t <= Slowest(a)
  BY DEF Jittered, Slowest, Longer

\* The caps are in order, whatever is configured.
LEMMA IntervalsInOrder ==
  ASSUME NEW given \in PollIntervals
  PROVE  /\ Intervals(given) \in PollIntervals
         /\ Intervals(given).hot <= Intervals(given).idle
         /\ Intervals(given).idle <= Intervals(given).error
  BY PollAssumption DEF PollIntervals, Intervals, Longer

LEMMA DoubledWithinCap ==
  ASSUME NEW a \in Nat, NEW cap \in Nat
  PROVE  Doubled(a, cap) \in Nat /\ Doubled(a, cap) <= cap
  BY DEF Doubled

LEMMA PsInvInit == PollScheduleInit => PsInv
<1> SUFFICES ASSUME PollScheduleInit PROVE PsInv
  OBVIOUS
<1>1. PICK given \in PollConfigs : psConfig = Intervals(given)
  BY DEF PollScheduleInit
<1>2. given \in PollIntervals
  BY <1>1, PollAssumption
<1>3. /\ psConfig \in PollIntervals
      /\ psConfig.hot <= psConfig.idle /\ psConfig.idle <= psConfig.error
  BY <1>1, <1>2, IntervalsInOrder
<1>4. psConfig.hot \in Nat /\ psConfig.idle \in Nat
  BY <1>3 DEF PollIntervals
<1>5. psLeft \in Nat /\ psLeft <= Slowest(psConfig.hot)
  BY <1>4, JitterBounded DEF PollScheduleInit
<1>6. /\ Slowest(psConfig.hot) \in Nat /\ Slowest(psConfig.idle) \in Nat
      /\ Slowest(psConfig.hot) <= Slowest(psConfig.idle)
  BY <1>3, <1>4, SlowestGrows
<1>7. PsTypeOK
  BY <1>3, <1>4, <1>5 DEF PollScheduleInit, PsTypeOK
<1>8. WithinCap
  BY <1>3, <1>4, <1>5, <1>6 DEF PollScheduleInit, WithinCap, PsCap
<1>9. AskedInTime
  BY DEF PollScheduleInit, AskedInTime
<1> QED
  BY <1>7, <1>8, <1>9 DEF PsInv

LEMMA PsInvNext == PsInv /\ [PollScheduleNext]_psVars => PsInv'
<1> SUFFICES ASSUME PsInv, [PollScheduleNext]_psVars PROVE PsInv'
  OBVIOUS
<1>0. /\ psConfig.hot \in Nat /\ psConfig.idle \in Nat /\ psConfig.error \in Nat
      /\ psConfig.hot <= psConfig.idle /\ psConfig.idle <= psConfig.error
      /\ Slowest(psConfig.hot) \in Nat /\ Slowest(psConfig.idle) \in Nat
      /\ Slowest(psConfig.error) \in Nat
      /\ Slowest(psConfig.hot) <= Slowest(psConfig.idle)
      /\ Slowest(psConfig.idle) <= Slowest(psConfig.error)
  BY SlowestGrows DEF PsInv, PsTypeOK, PollIntervals
<1>1. CASE ToolActivity
  BY <1>1 DEF ToolActivity, PsInv, PsTypeOK, WithinCap, PsCap, AskedInTime
<1>2. CASE WakeTaken
  <2>1. PICK delay \in Jittered(psConfig.hot) :
            psLeft' = IF delay < psLeft THEN delay ELSE psLeft
    BY <1>2 DEF WakeTaken
  <2>2. delay \in Nat /\ delay <= Slowest(psConfig.hot)
    BY <1>0, <2>1, JitterBounded
  <2>3. psLeft' \in Nat /\ psLeft' <= psLeft /\ psLeft' <= Slowest(psConfig.hot)
    BY <1>0, <2>1, <2>2 DEF PsInv, PsTypeOK
  <2>4. PsTypeOK'
    BY <1>0, <1>2, <2>3 DEF WakeTaken, PsInv, PsTypeOK
  <2>5. WithinCap'
    BY <1>0, <1>2, <2>3 DEF WakeTaken, PsInv, PsTypeOK, WithinCap, PsCap
  <2>6. AskedInTime'
    BY <1>0, <1>2, <2>3 DEF WakeTaken, PsInv, PsTypeOK, AskedInTime
  <2> QED
    BY <2>4, <2>5, <2>6 DEF PsInv
<1>3. CASE PollBegins
  BY <1>3 DEF PollBegins, PsInv, PsTypeOK, WithinCap, PsCap, AskedInTime
<1>4. CASE PollTick
  BY <1>0, <1>4 DEF PollTick, PsInv, PsTypeOK, WithinCap, PsCap, AskedInTime
<1>5. ASSUME NEW outcome \in {"changed", "unchanged", "failed"}, PollEnds(outcome)
      PROVE  PsInv'
  <2>1. psConfig' = psConfig /\ psFailed' = (outcome = "failed")
    BY <1>5 DEF PollEnds
  <2>2. psCurrent' \in Nat /\ psCurrent' <= PsCap'
    BY <1>0, <1>5, <2>1, DoubledWithinCap DEF PollEnds, PsInv, PsTypeOK, PsCap
  <2>3. psLeft' \in Nat /\ psLeft' <= Slowest(psCurrent')
    BY <1>5, <2>2, JitterBounded DEF PollEnds
  <2>4. Slowest(psCurrent') \in Nat /\ Slowest(psCurrent') <= Slowest(PsCap')
    BY <1>0, <2>1, <2>2, SlowestGrows DEF PsCap
  <2>5. PsTypeOK'
    BY <1>5, <2>2, <2>3 DEF PollEnds, PsInv, PsTypeOK
  <2>6. WithinCap'
    <3>1. Slowest(PsCap') \in Nat
      BY <1>0, <2>1, SlowestGrows DEF PsCap
    <3> QED
      BY <2>2, <2>3, <2>4, <3>1 DEF WithinCap
  <2>7. AskedInTime'
    <3>1. psPolling /\ ~psPolling' /\ psSince = 0 /\ psSince' = 0 /\ psWake' = psWake
      BY <1>5 DEF PollEnds, PsInv, AskedInTime
    <3>2. psAsked' => psWake' \/ psCurrent' = psConfig.hot
      <4>1. CASE outcome = "changed"
        BY <1>5, <4>1 DEF PollEnds
      <4>2. CASE outcome # "changed"
        BY <1>5, <3>1, <4>2 DEF PollEnds, PsInv, PsTypeOK, AskedInTime
      <4> QED
        BY <4>1, <4>2
    <3> QED
      BY <1>0, <2>1, <2>3, <3>1, <3>2 DEF AskedInTime
  <2> QED
    BY <2>5, <2>6, <2>7 DEF PsInv
<1>6. CASE UNCHANGED psVars
  BY <1>6 DEF psVars, PsInv, PsTypeOK, WithinCap, PsCap, AskedInTime
<1> QED
  BY <1>1, <1>2, <1>3, <1>4, <1>5, <1>6 DEF PollScheduleNext

\* Whatever the configured intervals: what asks for a poll gets it within the hot
\* interval, and no interval outgrows the cap that applies (PollsInTime).
THEOREM PollsAreInTime == PollScheduleSpec => []PollsInTime
<1>1. PsInv => PollsInTime
  BY DEF PsInv, AskedInTime, WithinCap, PsCap, PollsInTime
<1> QED
  BY PsInvInit, PsInvNext, <1>1, PTL DEF PollScheduleSpec

-----------------------------------------------------------------------------
(* The broker's child pool.  Its two properties rest on what the program    *)
(* counters say: only a caller about to close a child holds a victim, and a *)
(* call on its second try finds in the pool nothing but what joined it      *)
(* since the call began.                                                    *)

PoolIds == 1..Len(poolRootOf)

PoolTypeOK ==
    /\ poolChildren \in [PoolRoots -> {0} \union PoolIds]
    /\ poolRootOf \in Seq(PoolRoots)
    /\ poolAlive \in SUBSET PoolIds
    /\ poolPc \in [PoolCallers -> {"idle", "ensure", "spawn", "install", "send",
                                "wait", "close"}]
    /\ poolTarget \in [PoolCallers -> PoolRoots]
    /\ poolClient \in [PoolCallers -> {0} \union PoolIds]
    /\ poolTry \in [PoolCallers -> {1, 2}]
    /\ poolVictim \in [PoolCallers -> {0} \union PoolIds]
    /\ poolReap \in [roots : SUBSET PoolRoots, victim : {0} \union PoolIds]
    /\ poolIdle \in SUBSET PoolRoots
    /\ poolClosing \in SUBSET PoolIds
    /\ poolFailed \in [PoolCallers -> BOOLEAN]
    /\ poolJoined \in [PoolCallers -> SUBSET PoolIds]

\* What a caller took out of the pool it closes before it does anything else.
VictimsOfClosers == \A c \in PoolCallers : poolVictim[c] # 0 => poolPc[c] = "close"

\* On the second try whatever child the root has joined during the call, and so
\* did the child the call is made on.
SecondTryIsNew ==
    \A c \in PoolCallers : poolTry[c] = 2 =>
        /\ poolPc[c] # "idle"
        /\ poolChildren[poolTarget[c]] \in {0} \union poolJoined[c]
        /\ poolPc[c] \in {"send", "wait"} => poolClient[c] \in poolJoined[c]

\* A failed call is over until its caller makes the next one.
FailedAreIdle == \A c \in PoolCallers : poolFailed[c] => poolPc[c] = "idle"

\* A call about to put a child into the pool has spawned it.
InstallsSpawned == \A c \in PoolCallers : poolPc[c] = "install" => poolClient[c] # 0

PoolPcOK == VictimsOfClosers /\ FailedAreIdle /\ InstallsSpawned

PoolInv == PoolTypeOK /\ PoolPcOK /\ SecondTryIsNew /\ NoChildLeaks /\ RetryHasNewChild

\* At the start there is no child and no call.
LEMMA PoolInvInit == PoolInit => PoolInv
<1> SUFFICES ASSUME PoolInit PROVE PoolInv
  OBVIOUS
<1>1. PoolTypeOK
  BY DEF PoolInit, PoolTypeOK, PoolIds
<1>2. PoolPcOK
  BY DEF PoolInit, PoolPcOK, VictimsOfClosers, FailedAreIdle, InstallsSpawned
<1>3. SecondTryIsNew /\ NoChildLeaks /\ RetryHasNewChild
  BY DEF PoolInit, SecondTryIsNew, NoChildLeaks, RetryHasNewChild
<1> QED
  BY <1>1, <1>2, <1>3 DEF PoolInv

\* Each step keeps the types.
LEMMA PoolTypeNext == PoolTypeOK /\ InstallsSpawned /\ [PoolNext]_poolVars => PoolTypeOK'
<1> SUFFICES ASSUME PoolTypeOK, InstallsSpawned, [PoolNext]_poolVars PROVE PoolTypeOK'
  OBVIOUS
<1>1. ASSUME NEW c \in PoolCallers, NEW r \in PoolRoots, PoolCall(c, r) PROVE PoolTypeOK'
  BY <1>1 DEF PoolCall, PoolGoes, poolOthers, PoolTypeOK, PoolIds
<1>2. ASSUME NEW c \in PoolCallers, PoolLookup(c) PROVE PoolTypeOK'
  <2>1. PoolIds' = PoolIds
    BY <1>2 DEF PoolLookup, PoolIds
  <2>2. poolClient' \in [PoolCallers -> {0} \union PoolIds] /\ poolIdle' \in SUBSET PoolRoots
    BY <1>2 DEF PoolLookup, PoolTypeOK
  <2> QED
    BY <1>2, <2>1, <2>2 DEF PoolLookup, PoolGoes, poolOthers, PoolTypeOK
<1>3. ASSUME NEW c \in PoolCallers, PoolSpawn(c) PROVE PoolTypeOK'
  <2>1. Len(poolRootOf) \in Nat /\ poolRootOf' = Append(poolRootOf, poolTarget[c])
    BY <1>3 DEF PoolSpawn, PoolTypeOK
  <2>2. poolRootOf' \in Seq(PoolRoots) /\ Len(poolRootOf') = Len(poolRootOf) + 1
    BY <1>3, <2>1 DEF PoolTypeOK
  <2>3. PoolIds \subseteq PoolIds' /\ Len(poolRootOf') \in PoolIds'
    BY <2>1, <2>2 DEF PoolIds
  <2> QED
    BY <1>3, <2>2, <2>3 DEF PoolSpawn, PoolGoes, poolOthers, PoolTypeOK
<1>4. ASSUME NEW c \in PoolCallers, PoolSpawnFails(c) PROVE PoolTypeOK'
  BY <1>4 DEF PoolSpawnFails, PoolGoes, poolOthers, PoolReturns, PoolTypeOK, PoolIds
<1>5. ASSUME NEW c \in PoolCallers, PoolInstall(c) PROVE PoolTypeOK'
  <2>1. PoolIds' = PoolIds
    BY <1>5 DEF PoolInstall, PoolIds
  <2>2. CASE poolChildren[poolTarget[c]] # 0
    BY <1>5, <2>1, <2>2 DEF PoolInstall, PoolGoes, poolOthers, PoolTypeOK
  <2>3. CASE poolChildren[poolTarget[c]] = 0
    <3>1. poolClient[c] # 0
      BY <1>5 DEF PoolInstall, InstallsSpawned
    <3>2. poolJoined' \in [PoolCallers -> SUBSET PoolIds]
      BY <1>5, <2>3, <3>1 DEF PoolInstall, PoolTypeOK
    <3> QED
      BY <1>5, <2>1, <2>3, <3>2 DEF PoolInstall, PoolGoes, poolOthers, PoolTypeOK
  <2> QED
    BY <2>2, <2>3
<1>6. ASSUME NEW c \in PoolCallers, PoolSend(c) PROVE PoolTypeOK'
  BY <1>6 DEF PoolSend, PoolGoes, poolOthers, PoolTypeOK, PoolIds
<1>7. ASSUME NEW c \in PoolCallers, PoolAnswer(c) PROVE PoolTypeOK'
  BY <1>7 DEF PoolAnswer, PoolGoes, poolOthers, PoolReturns, PoolTypeOK, PoolIds
<1>8. ASSUME NEW c \in PoolCallers, PoolTransportError(c) PROVE PoolTypeOK'
  <2>1. PoolIds' = PoolIds
    BY <1>8 DEF PoolTransportError, PoolIds
  <2>2. poolTry' \in [PoolCallers -> {1, 2}]
    BY <1>8 DEF PoolTransportError, PoolTypeOK
  <2>3. CASE poolTry[c] = 1
    <3>1. /\ poolVictim' = [poolVictim EXCEPT ![c] = poolChildren[poolTarget[c]]]
          /\ poolChildren' = [poolChildren EXCEPT ![poolTarget[c]] = 0]
          /\ poolPc' = [poolPc EXCEPT ![c] = "close"]
          /\ UNCHANGED <<poolFailed, poolClient, poolJoined>>
      BY <1>8, <2>3 DEF PoolTransportError, PoolGoes
    <3>2. poolChildren[poolTarget[c]] \in {0} \union PoolIds
      BY DEF PoolTypeOK
    <3> QED
      BY <1>8, <2>1, <2>2, <3>1, <3>2 DEF PoolTransportError, poolOthers, PoolTypeOK
  <2>4. CASE poolTry[c] # 1
    BY <1>8, <2>1, <2>2, <2>4 DEF PoolTransportError, PoolReturns, PoolGoes, poolOthers,
       PoolTypeOK
  <2> QED
    BY <2>3, <2>4
<1>9. ASSUME NEW c \in PoolCallers, PoolClose(c) PROVE PoolTypeOK'
  BY <1>9 DEF PoolClose, PoolGoes, poolOthers, PoolTypeOK, PoolIds
<1>10. CASE ReapScan
  BY <1>10 DEF ReapScan, poolOfCallers, PoolTypeOK, PoolIds
<1>11. CASE ReapClose
  BY <1>11 DEF ReapClose, poolOfCallers, PoolTypeOK, PoolIds
<1>12. CASE PoolShutdown
  <2>1. PoolIds' = PoolIds
    BY <1>12 DEF PoolShutdown, poolOfCallers, PoolIds
  <2>2. Range(poolChildren) \ {0} \subseteq PoolIds
    BY DEF Range, PoolTypeOK
  <2> QED
    BY <1>12, <2>1, <2>2 DEF PoolShutdown, poolOfCallers, PoolTypeOK
<1>13. CASE PoolTimePasses
  BY <1>13 DEF PoolTimePasses, poolOfCallers, poolOthers, PoolTypeOK, PoolIds
<1>14. ASSUME NEW r \in PoolRoots, ReapRemove(r) PROVE PoolTypeOK'
  BY <1>14 DEF ReapRemove, poolOfCallers, PoolTypeOK, PoolIds
<1>15. ASSUME NEW id \in DOMAIN poolRootOf, ChildDies(id) PROVE PoolTypeOK'
  BY <1>15 DEF ChildDies, poolOfCallers, PoolTypeOK, PoolIds
<1>16. ASSUME NEW id \in DOMAIN poolRootOf, ShutdownClose(id) PROVE PoolTypeOK'
  BY <1>16 DEF ShutdownClose, poolOfCallers, PoolTypeOK, PoolIds
<1>17. CASE UNCHANGED poolVars
  BY <1>17 DEF poolVars, PoolTypeOK, PoolIds
<1> QED
  BY <1>1, <1>2, <1>3, <1>4, <1>5, <1>6, <1>7, <1>8, <1>9, <1>10, <1>11, <1>12, <1>13, <1>14,
     <1>15, <1>16, <1>17
  DEF PoolNext, PoolCallerStep

\* What the program counters say is kept by every step.
LEMMA PoolPcNext == PoolInv /\ [PoolNext]_poolVars => PoolPcOK'
<1> SUFFICES ASSUME PoolInv, [PoolNext]_poolVars PROVE PoolPcOK'
  OBVIOUS
<1>1. ASSUME NEW c \in PoolCallers, NEW r \in PoolRoots, PoolCall(c, r) PROVE PoolPcOK'
  BY <1>1 DEF PoolCall, PoolGoes, poolOthers, PoolInv, PoolTypeOK, PoolIds, PoolPcOK,
     VictimsOfClosers, FailedAreIdle, InstallsSpawned
<1>2. ASSUME NEW c \in PoolCallers, PoolLookup(c) PROVE PoolPcOK'
  BY <1>2 DEF PoolLookup, PoolGoes, poolOthers, PoolInv, PoolTypeOK, PoolIds, PoolPcOK,
     VictimsOfClosers, FailedAreIdle, InstallsSpawned
<1>3. ASSUME NEW c \in PoolCallers, PoolSpawn(c) PROVE PoolPcOK'
  BY <1>3 DEF PoolSpawn, PoolGoes, poolOthers, PoolInv, PoolTypeOK, PoolIds, PoolPcOK,
     VictimsOfClosers, FailedAreIdle, InstallsSpawned
<1>4. ASSUME NEW c \in PoolCallers, PoolSpawnFails(c) PROVE PoolPcOK'
  BY <1>4 DEF PoolSpawnFails, PoolGoes, poolOthers, PoolReturns, PoolInv, PoolTypeOK,
     PoolIds, PoolPcOK, VictimsOfClosers, FailedAreIdle, InstallsSpawned
<1>5. ASSUME NEW c \in PoolCallers, PoolInstall(c) PROVE PoolPcOK'
  BY <1>5 DEF PoolInstall, PoolGoes, poolOthers, PoolInv, PoolTypeOK, PoolIds, PoolPcOK,
     VictimsOfClosers, FailedAreIdle, InstallsSpawned
<1>6. ASSUME NEW c \in PoolCallers, PoolSend(c) PROVE PoolPcOK'
  BY <1>6 DEF PoolSend, PoolGoes, poolOthers, PoolInv, PoolTypeOK, PoolIds, PoolPcOK,
     VictimsOfClosers, FailedAreIdle, InstallsSpawned
<1>7. ASSUME NEW c \in PoolCallers, PoolAnswer(c) PROVE PoolPcOK'
  BY <1>7 DEF PoolAnswer, PoolGoes, poolOthers, PoolReturns, PoolInv, PoolTypeOK, PoolIds,
     PoolPcOK, VictimsOfClosers, FailedAreIdle, InstallsSpawned
<1>8. ASSUME NEW c \in PoolCallers, PoolTransportError(c) PROVE PoolPcOK'
  BY <1>8 DEF PoolTransportError, PoolGoes, poolOthers, PoolReturns, PoolInv, PoolTypeOK,
     PoolIds, PoolPcOK, VictimsOfClosers, FailedAreIdle, InstallsSpawned
<1>9. ASSUME NEW c \in PoolCallers, PoolClose(c) PROVE PoolPcOK'
  BY <1>9 DEF PoolClose, PoolGoes, poolOthers, PoolInv, PoolTypeOK, PoolIds, PoolPcOK,
     VictimsOfClosers, FailedAreIdle, InstallsSpawned
<1>10. CASE ReapScan
  BY <1>10 DEF ReapScan, poolOfCallers, PoolInv, PoolTypeOK, PoolIds, PoolPcOK,
     VictimsOfClosers, FailedAreIdle, InstallsSpawned
<1>11. CASE ReapClose
  BY <1>11 DEF ReapClose, poolOfCallers, PoolInv, PoolTypeOK, PoolIds, PoolPcOK,
     VictimsOfClosers, FailedAreIdle, InstallsSpawned
<1>12. CASE PoolShutdown
  BY <1>12 DEF PoolShutdown, poolOfCallers, PoolInv, PoolTypeOK, PoolIds, PoolPcOK,
     VictimsOfClosers, FailedAreIdle, InstallsSpawned
<1>13. CASE PoolTimePasses
  BY <1>13 DEF PoolTimePasses, poolOfCallers, poolOthers, PoolInv, PoolTypeOK, PoolIds,
     PoolPcOK, VictimsOfClosers, FailedAreIdle, InstallsSpawned
<1>14. ASSUME NEW r \in PoolRoots, ReapRemove(r) PROVE PoolPcOK'
  BY <1>14 DEF ReapRemove, poolOfCallers, PoolInv, PoolTypeOK, PoolIds, PoolPcOK,
     VictimsOfClosers, FailedAreIdle, InstallsSpawned
<1>15. ASSUME NEW id \in DOMAIN poolRootOf, ChildDies(id) PROVE PoolPcOK'
  BY <1>15 DEF ChildDies, poolOfCallers, PoolInv, PoolTypeOK, PoolIds, PoolPcOK,
     VictimsOfClosers, FailedAreIdle, InstallsSpawned
<1>16. ASSUME NEW id \in DOMAIN poolRootOf, ShutdownClose(id) PROVE PoolPcOK'
  BY <1>16 DEF ShutdownClose, poolOfCallers, PoolInv, PoolTypeOK, PoolIds, PoolPcOK,
     VictimsOfClosers, FailedAreIdle, InstallsSpawned
<1>17. CASE UNCHANGED poolVars
  BY <1>17 DEF poolVars, PoolInv, PoolTypeOK, PoolIds, PoolPcOK, VictimsOfClosers,
     FailedAreIdle, InstallsSpawned
<1> QED
  BY <1>1, <1>2, <1>3, <1>4, <1>5, <1>6, <1>7, <1>8, <1>9, <1>10, <1>11, <1>12, <1>13, <1>14,
     <1>15, <1>16, <1>17
  DEF PoolNext, PoolCallerStep

\* A second try begins with the root's child taken out of the pool, and what joins the pool
\* after that joins it during the call.
LEMMA SecondTryNext == PoolInv /\ [PoolNext]_poolVars => SecondTryIsNew'
<1> SUFFICES ASSUME PoolInv, [PoolNext]_poolVars PROVE SecondTryIsNew'
  OBVIOUS
<1>1. ASSUME NEW c \in PoolCallers, NEW r \in PoolRoots, PoolCall(c, r) PROVE SecondTryIsNew'
  BY <1>1 DEF PoolCall, PoolGoes, poolOthers, PoolInv, PoolTypeOK, SecondTryIsNew
<1>2. ASSUME NEW c \in PoolCallers, PoolLookup(c) PROVE SecondTryIsNew'
  BY <1>2 DEF PoolLookup, PoolGoes, poolOthers, PoolInv, PoolTypeOK, SecondTryIsNew
<1>3. ASSUME NEW c \in PoolCallers, PoolSpawn(c) PROVE SecondTryIsNew'
  BY <1>3 DEF PoolSpawn, PoolGoes, poolOthers, PoolInv, PoolTypeOK, SecondTryIsNew
<1>4. ASSUME NEW c \in PoolCallers, PoolSpawnFails(c) PROVE SecondTryIsNew'
  BY <1>4 DEF PoolSpawnFails, PoolGoes, poolOthers, PoolReturns, PoolInv, PoolTypeOK,
     SecondTryIsNew
<1>5. ASSUME NEW c \in PoolCallers, PoolInstall(c) PROVE SecondTryIsNew'
  BY <1>5 DEF PoolInstall, PoolGoes, poolOthers, PoolInv, PoolTypeOK, SecondTryIsNew
<1>6. ASSUME NEW c \in PoolCallers, PoolSend(c) PROVE SecondTryIsNew'
  BY <1>6 DEF PoolSend, PoolGoes, poolOthers, PoolInv, PoolTypeOK, SecondTryIsNew
<1>7. ASSUME NEW c \in PoolCallers, PoolAnswer(c) PROVE SecondTryIsNew'
  BY <1>7 DEF PoolAnswer, PoolGoes, poolOthers, PoolReturns, PoolInv, PoolTypeOK,
     SecondTryIsNew
<1>8. ASSUME NEW c \in PoolCallers, PoolTransportError(c) PROVE SecondTryIsNew'
  BY <1>8 DEF PoolTransportError, PoolGoes, poolOthers, PoolReturns, PoolInv, PoolTypeOK,
     SecondTryIsNew
<1>9. ASSUME NEW c \in PoolCallers, PoolClose(c) PROVE SecondTryIsNew'
  BY <1>9 DEF PoolClose, PoolGoes, poolOthers, PoolInv, PoolTypeOK, SecondTryIsNew
<1>10. CASE ReapScan
  BY <1>10 DEF ReapScan, poolOfCallers, PoolInv, PoolTypeOK, SecondTryIsNew
<1>11. CASE ReapClose
  BY <1>11 DEF ReapClose, poolOfCallers, PoolInv, PoolTypeOK, SecondTryIsNew
<1>12. CASE PoolShutdown
  BY <1>12 DEF PoolShutdown, poolOfCallers, PoolInv, PoolTypeOK, SecondTryIsNew
<1>13. CASE PoolTimePasses
  BY <1>13 DEF PoolTimePasses, poolOfCallers, poolOthers, PoolInv, PoolTypeOK, SecondTryIsNew
<1>14. ASSUME NEW r \in PoolRoots, ReapRemove(r) PROVE SecondTryIsNew'
  BY <1>14 DEF ReapRemove, poolOfCallers, PoolInv, PoolTypeOK, SecondTryIsNew
<1>15. ASSUME NEW id \in DOMAIN poolRootOf, ChildDies(id) PROVE SecondTryIsNew'
  BY <1>15 DEF ChildDies, poolOfCallers, PoolInv, PoolTypeOK, SecondTryIsNew
<1>16. ASSUME NEW id \in DOMAIN poolRootOf, ShutdownClose(id) PROVE SecondTryIsNew'
  BY <1>16 DEF ShutdownClose, poolOfCallers, PoolInv, PoolTypeOK, SecondTryIsNew
<1>17. CASE UNCHANGED poolVars
  BY <1>17 DEF poolVars, PoolInv, PoolTypeOK, SecondTryIsNew
<1> QED
  BY <1>1, <1>2, <1>3, <1>4, <1>5, <1>6, <1>7, <1>8, <1>9, <1>10, <1>11, <1>12, <1>13, <1>14,
     <1>15, <1>16, <1>17
  DEF PoolNext, PoolCallerStep

\* A call fails on its second try, and dead children stay dead.
LEMMA RetryNext == PoolInv /\ [PoolNext]_poolVars => RetryHasNewChild'
<1> SUFFICES ASSUME PoolInv, [PoolNext]_poolVars PROVE RetryHasNewChild'
  OBVIOUS
<1>1. ASSUME NEW c \in PoolCallers, NEW r \in PoolRoots, PoolCall(c, r) PROVE RetryHasNewChild'
  BY <1>1 DEF PoolCall, PoolGoes, poolOthers, PoolInv, PoolTypeOK, PoolIds, RetryHasNewChild,
     SecondTryIsNew
<1>2. ASSUME NEW c \in PoolCallers, PoolLookup(c) PROVE RetryHasNewChild'
  BY <1>2 DEF PoolLookup, PoolGoes, poolOthers, PoolInv, PoolTypeOK, PoolIds,
     RetryHasNewChild, SecondTryIsNew
<1>3. ASSUME NEW c \in PoolCallers, PoolSpawn(c) PROVE RetryHasNewChild'
  BY <1>3 DEF PoolSpawn, PoolGoes, poolOthers, PoolInv, PoolTypeOK, PoolIds,
     RetryHasNewChild, SecondTryIsNew
<1>4. ASSUME NEW c \in PoolCallers, PoolSpawnFails(c) PROVE RetryHasNewChild'
  BY <1>4 DEF PoolSpawnFails, PoolGoes, poolOthers, PoolReturns, PoolInv, PoolTypeOK,
     PoolIds, RetryHasNewChild, SecondTryIsNew
<1>5. ASSUME NEW c \in PoolCallers, PoolInstall(c) PROVE RetryHasNewChild'
  BY <1>5 DEF PoolInstall, PoolGoes, poolOthers, PoolInv, PoolTypeOK, PoolIds,
     RetryHasNewChild, SecondTryIsNew
<1>6. ASSUME NEW c \in PoolCallers, PoolSend(c) PROVE RetryHasNewChild'
  BY <1>6 DEF PoolSend, PoolGoes, poolOthers, PoolInv, PoolTypeOK, PoolIds, RetryHasNewChild,
     SecondTryIsNew
<1>7. ASSUME NEW c \in PoolCallers, PoolAnswer(c) PROVE RetryHasNewChild'
  BY <1>7 DEF PoolAnswer, PoolGoes, poolOthers, PoolReturns, PoolInv, PoolTypeOK, PoolIds,
     RetryHasNewChild, SecondTryIsNew
<1>8. ASSUME NEW c \in PoolCallers, PoolTransportError(c) PROVE RetryHasNewChild'
  BY <1>8 DEF PoolTransportError, PoolGoes, poolOthers, PoolReturns, PoolInv, PoolTypeOK,
     PoolIds, RetryHasNewChild, SecondTryIsNew
<1>9. ASSUME NEW c \in PoolCallers, PoolClose(c) PROVE RetryHasNewChild'
  BY <1>9 DEF PoolClose, PoolGoes, poolOthers, PoolInv, PoolTypeOK, PoolIds,
     RetryHasNewChild, SecondTryIsNew
<1>10. CASE ReapScan
  BY <1>10 DEF ReapScan, poolOfCallers, PoolInv, PoolTypeOK, PoolIds, RetryHasNewChild,
     SecondTryIsNew
<1>11. CASE ReapClose
  BY <1>11 DEF ReapClose, poolOfCallers, PoolInv, PoolTypeOK, PoolIds, RetryHasNewChild,
     SecondTryIsNew
<1>12. CASE PoolShutdown
  BY <1>12 DEF PoolShutdown, poolOfCallers, PoolInv, PoolTypeOK, PoolIds, RetryHasNewChild,
     SecondTryIsNew
<1>13. CASE PoolTimePasses
  BY <1>13 DEF PoolTimePasses, poolOfCallers, poolOthers, PoolInv, PoolTypeOK, PoolIds,
     RetryHasNewChild, SecondTryIsNew
<1>14. ASSUME NEW r \in PoolRoots, ReapRemove(r) PROVE RetryHasNewChild'
  BY <1>14 DEF ReapRemove, poolOfCallers, PoolInv, PoolTypeOK, PoolIds, RetryHasNewChild,
     SecondTryIsNew
<1>15. ASSUME NEW id \in DOMAIN poolRootOf, ChildDies(id) PROVE RetryHasNewChild'
  BY <1>15 DEF ChildDies, poolOfCallers, PoolInv, PoolTypeOK, PoolIds, RetryHasNewChild,
     SecondTryIsNew
<1>16. ASSUME NEW id \in DOMAIN poolRootOf, ShutdownClose(id) PROVE RetryHasNewChild'
  BY <1>16 DEF ShutdownClose, poolOfCallers, PoolInv, PoolTypeOK, PoolIds, RetryHasNewChild,
     SecondTryIsNew
<1>17. CASE UNCHANGED poolVars
  BY <1>17 DEF poolVars, PoolInv, PoolTypeOK, PoolIds, RetryHasNewChild, SecondTryIsNew
<1> QED
  BY <1>1, <1>2, <1>3, <1>4, <1>5, <1>6, <1>7, <1>8, <1>9, <1>10, <1>11, <1>12, <1>13, <1>14,
     <1>15, <1>16, <1>17
  DEF PoolNext, PoolCallerStep

\* NoChildLeaks, child by child.
Minded(id) ==
    \/ \E r \in PoolRoots : poolChildren[r] = id
    \/ \E c \in PoolCallers : poolVictim[c] = id
    \/ poolReap.victim = id
    \/ \E c \in PoolCallers : poolPc[c] = "install" /\ poolClient[c] = id

LEMMA LeaksMinded ==
  ASSUME PoolTypeOK
  PROVE  NoChildLeaks <=> (~poolDown => \A id \in poolAlive : Minded(id))
<1>1. DOMAIN poolChildren = PoolRoots /\ DOMAIN poolVictim = PoolCallers
  BY DEF PoolTypeOK
<1> QED
  BY <1>1 DEF NoChildLeaks, Minded, Range

\* A child leaves the place where it is minded for the next one, or ends.
LEMMA MindedNext ==
  ASSUME PoolTypeOK, PoolPcOK, ~poolDown => \A id \in poolAlive : Minded(id),
         [PoolNext]_poolVars, ~poolDown', NEW k \in poolAlive'
  PROVE  Minded(k)'
<1>1. ASSUME NEW c \in PoolCallers, NEW r \in PoolRoots, PoolCall(c, r) PROVE Minded(k)'
  BY <1>1 DEF PoolCall, PoolGoes, poolOthers, PoolTypeOK, PoolIds, Minded, PoolPcOK,
     VictimsOfClosers
<1>2. ASSUME NEW c \in PoolCallers, PoolLookup(c) PROVE Minded(k)'
  BY <1>2 DEF PoolLookup, PoolGoes, poolOthers, PoolTypeOK, PoolIds, Minded, PoolPcOK,
     VictimsOfClosers
<1>3. ASSUME NEW c \in PoolCallers, PoolSpawn(c) PROVE Minded(k)'
  BY <1>3 DEF PoolSpawn, PoolGoes, poolOthers, PoolTypeOK, PoolIds, Minded, PoolPcOK,
     VictimsOfClosers
<1>4. ASSUME NEW c \in PoolCallers, PoolSpawnFails(c) PROVE Minded(k)'
  BY <1>4 DEF PoolSpawnFails, PoolGoes, poolOthers, PoolReturns, PoolTypeOK, PoolIds, Minded,
     PoolPcOK, VictimsOfClosers
<1>5. ASSUME NEW c \in PoolCallers, PoolInstall(c) PROVE Minded(k)'
  <2>1. UNCHANGED <<poolVictim, poolReap,
       poolDown>> /\ poolAlive' \subseteq poolAlive /\ Minded(k)
    BY <1>5 DEF PoolInstall, poolOthers
  <2>2. CASE poolChildren[poolTarget[c]] # 0
    <3>1. k # poolClient[c] /\ poolChildren' = poolChildren
      BY <1>5, <2>2 DEF PoolInstall
    <3>2. \A d \in PoolCallers : d # c => poolPc'[d] = poolPc[d] /\ poolClient'[d] = poolClient[d]
      BY <1>5, <2>2 DEF PoolInstall, PoolGoes, PoolTypeOK
    <3> QED
      BY <2>1, <3>1, <3>2 DEF Minded
  <2>3. CASE poolChildren[poolTarget[c]] = 0
    <3>1. /\ poolChildren' = [poolChildren EXCEPT ![poolTarget[c]] = poolClient[c]]
          /\ poolClient' = poolClient
      BY <1>5, <2>3 DEF PoolInstall
    <3>2. \A d \in PoolCallers : d # c => poolPc'[d] = poolPc[d]
      BY <1>5 DEF PoolInstall, PoolGoes, PoolTypeOK
    <3>3. k # 0 /\ poolTarget[c] \in PoolRoots
      BY <2>1, <1>5 DEF PoolTypeOK, PoolIds, PoolInstall
    <3>4. /\ poolChildren'[poolTarget[c]] = poolClient[c]
          /\ \A r \in PoolRoots : r # poolTarget[c] => poolChildren'[r] = poolChildren[r]
      BY <3>1, <3>3 DEF PoolTypeOK
    <3> QED
      BY <2>1, <2>3, <3>1, <3>2, <3>3, <3>4 DEF Minded
  <2> QED
    BY <2>2, <2>3
<1>6. ASSUME NEW c \in PoolCallers, PoolSend(c) PROVE Minded(k)'
  BY <1>6 DEF PoolSend, PoolGoes, poolOthers, PoolTypeOK, PoolIds, Minded, PoolPcOK,
     VictimsOfClosers
<1>7. ASSUME NEW c \in PoolCallers, PoolAnswer(c) PROVE Minded(k)'
  BY <1>7 DEF PoolAnswer, PoolGoes, poolOthers, PoolReturns, PoolTypeOK, PoolIds, Minded,
     PoolPcOK, VictimsOfClosers
<1>8. ASSUME NEW c \in PoolCallers, PoolTransportError(c) PROVE Minded(k)'
  <2>1. UNCHANGED <<poolAlive, poolReap, poolDown,
       poolTarget>> /\ Minded(k) /\ poolPc[c] = "wait"
    BY <1>8 DEF PoolTransportError, poolOthers
  <2>2. \A d \in PoolCallers : d # c => poolPc'[d] = poolPc[d] /\ poolClient'[d] = poolClient[d]
    BY <1>8 DEF PoolTransportError, PoolReturns, PoolGoes, PoolTypeOK
  <2>3. CASE poolTry[c] = 1
    <3>1. /\ poolVictim' = [poolVictim EXCEPT ![c] = poolChildren[poolTarget[c]]]
          /\ poolChildren' = [poolChildren EXCEPT ![poolTarget[c]] = 0]
      BY <1>8, <2>3 DEF PoolTransportError
    <3>2. poolVictim[c] = 0 /\ k # 0
      BY <2>1 DEF PoolPcOK, VictimsOfClosers, PoolTypeOK, PoolIds
    <3>3. /\ poolVictim'[c] = poolChildren[poolTarget[c]]
          /\ \A d \in PoolCallers : d # c => poolVictim'[d] = poolVictim[d]
      BY <3>1 DEF PoolTypeOK
    <3>4. \A r \in PoolRoots : r # poolTarget[c] => poolChildren'[r] = poolChildren[r]
      BY <3>1 DEF PoolTypeOK
    <3> QED
      BY <2>1, <2>2, <3>2, <3>3, <3>4 DEF Minded
  <2>4. CASE poolTry[c] # 1
    <3>1. UNCHANGED <<poolVictim, poolChildren>>
      BY <1>8, <2>4 DEF PoolTransportError
    <3> QED
      BY <2>1, <2>2, <3>1 DEF Minded
  <2> QED
    BY <2>3, <2>4
<1>9. ASSUME NEW c \in PoolCallers, PoolClose(c) PROVE Minded(k)'
  BY <1>9 DEF PoolClose, PoolGoes, poolOthers, PoolTypeOK, PoolIds, Minded, PoolPcOK,
     VictimsOfClosers
<1>10. CASE ReapScan
  BY <1>10 DEF ReapScan, poolOfCallers, PoolTypeOK, PoolIds, Minded, PoolPcOK, VictimsOfClosers
<1>11. CASE ReapClose
  BY <1>11 DEF ReapClose, poolOfCallers, PoolTypeOK, PoolIds, Minded, PoolPcOK,
     VictimsOfClosers
<1>12. CASE PoolShutdown
  BY <1>12 DEF PoolShutdown, poolOfCallers, PoolTypeOK, PoolIds, Minded, PoolPcOK,
     VictimsOfClosers
<1>13. CASE PoolTimePasses
  BY <1>13 DEF PoolTimePasses, poolOfCallers, poolOthers, Minded
<1>14. ASSUME NEW r \in PoolRoots, ReapRemove(r) PROVE Minded(k)'
  BY <1>14 DEF ReapRemove, poolOfCallers, PoolTypeOK, PoolIds, Minded, PoolPcOK,
     VictimsOfClosers
<1>15. ASSUME NEW id \in DOMAIN poolRootOf, ChildDies(id) PROVE Minded(k)'
  BY <1>15 DEF ChildDies, poolOfCallers, PoolTypeOK, PoolIds, Minded, PoolPcOK,
     VictimsOfClosers
<1>16. ASSUME NEW id \in DOMAIN poolRootOf, ShutdownClose(id) PROVE Minded(k)'
  BY <1>16 DEF ShutdownClose, poolOfCallers, PoolTypeOK, PoolIds, Minded, PoolPcOK,
     VictimsOfClosers
<1>17. CASE UNCHANGED poolVars
  BY <1>17 DEF poolVars, PoolTypeOK, PoolIds, Minded, PoolPcOK, VictimsOfClosers
<1> QED
  BY <1>1, <1>2, <1>3, <1>4, <1>5, <1>6, <1>7, <1>8, <1>9, <1>10, <1>11, <1>12, <1>13, <1>14,
     <1>15, <1>16, <1>17
  DEF PoolNext, PoolCallerStep

LEMMA LeaksNext == PoolInv /\ PoolTypeOK' /\ [PoolNext]_poolVars => NoChildLeaks'
<1> SUFFICES ASSUME PoolInv, PoolTypeOK', [PoolNext]_poolVars PROVE NoChildLeaks'
  OBVIOUS
<1>1. PoolTypeOK /\ PoolPcOK /\ (~poolDown => \A id \in poolAlive : Minded(id))
  BY LeaksMinded DEF PoolInv
<1>2. ~poolDown' => \A id \in poolAlive' : Minded(id)'
  BY <1>1, MindedNext
<1>3. NoChildLeaks' <=> (~poolDown => \A id \in poolAlive : Minded(id))'
  BY LeaksMinded, PTL
<1> QED
  BY <1>2, <1>3

LEMMA PoolInvNext == PoolInv /\ [PoolNext]_poolVars => PoolInv'
<1> SUFFICES ASSUME PoolInv, [PoolNext]_poolVars PROVE PoolInv'
  OBVIOUS
<1>1. PoolTypeOK'
  BY PoolTypeNext DEF PoolInv, PoolPcOK
<1>2. PoolPcOK' /\ SecondTryIsNew' /\ RetryHasNewChild'
  BY PoolPcNext, SecondTryNext, RetryNext
<1>3. NoChildLeaks'
  BY <1>1, LeaksNext
<1> QED
  BY <1>1, <1>2, <1>3 DEF PoolInv

\* What callers, the reaper and the pool agree on holds in every state
\* (callChildTool, reapIdleChildren and closeChild in internal/mcp/server.go).
THEOREM PoolInvariant == PoolSpec => []PoolInv
  BY PoolInvInit, PoolInvNext, PTL DEF PoolSpec

\* Until shutdown a child that lives is in the pool, on its way in, or about to be
\* closed (NoChildLeaks): whichever calls, reaps and deaths cross.
THEOREM PoolForgetsNoChild == PoolSpec => []NoChildLeaks
<1>1. PoolInv => NoChildLeaks
  BY DEF PoolInv
<1> QED BY <1>1, PoolInvariant, PTL

\* A call gives up only after a child that joined the pool during the call has ended,
\* too (RetryHasNewChild): another caller's removal or install never makes it try the
\* child that failed again.
THEOREM RetriesTryNewChild == PoolSpec => []RetryHasNewChild
<1>1. PoolInv => RetryHasNewChild
  BY DEF PoolInv
<1> QED BY <1>1, PoolInvariant, PTL

-----------------------------------------------------------------------------
(* The feedback log.  Every event acknowledged has a line of its own, and a *)
(* half-written last line is one more than that: the file a process reads    *)
(* has a line for each, or one that does not decode.                         *)

FbLines == Events \union {"torn", "glued"}

FbTypeOK ==
    /\ fbPath \in {0} \union FbFiles
    /\ fbFile \in [FbFiles -> Seq(FbLines)]
    /\ fbOpen \in [Recorders -> {0} \union FbFiles]
    /\ fbEvent \in [Recorders -> Events]
    /\ fbAcked \in [FbFiles -> Nat]
    /\ fbDeletes \in 0..MaxFbDeletes

AckedHaveLines ==
    \A file \in FbFiles :
        /\ fbAcked[file] <= Len(fbFile[file])
        /\ TornTail(file) => fbAcked[file] < Len(fbFile[file])

FeedbackInv == FbTypeOK /\ AckedHaveLines /\ ExportIsWhole

\* A file all of whose lines decode is counted to the last line.
LEMMA ReadableAreCounted ==
    ASSUME NEW lines \in Seq(FbLines), \A i \in DOMAIN lines : Readable(lines[i])
    PROVE  Counted(lines) = Len(lines)
<1> DEFINE Of(events) == {i \in DOMAIN lines : lines[i] \in events}
           operations == Of({"operation"})
           ratings == Of(Ratings)
<1>1. DOMAIN lines = 1..Len(lines) /\ Len(lines) \in Nat
  OBVIOUS
<1>2. IsFiniteSet(1..Len(lines)) /\ Cardinality(1..Len(lines)) = Len(lines)
  BY <1>1, FS_Interval
<1>3. operations \union ratings = 1..Len(lines) /\ operations \cap ratings = {}
  BY <1>1 DEF Readable, Events, Ratings
<1>4. IsFiniteSet(operations) /\ IsFiniteSet(ratings)
  BY <1>1, <1>2, FS_Subset
<1>5. Cardinality(operations \union ratings) = Cardinality(operations) + Cardinality(ratings)
  <2> HIDE DEF operations, ratings
  <2>1. /\ Cardinality(operations) \in Nat /\ Cardinality(ratings) \in Nat
        /\ Cardinality(operations \cap ratings) = 0
    BY <1>3, <1>4, FS_CardinalityType, FS_EmptySet
  <2>2. Cardinality(operations \union ratings) =
          Cardinality(operations) + Cardinality(ratings) - Cardinality(operations \cap ratings)
    BY <1>4, FS_Union
  <2> QED BY <2>1, <2>2
<1>6. Counted(lines) = Cardinality(operations) + Cardinality(ratings)
  BY DEF Counted, CountIn
<1> QED BY <1>2, <1>3, <1>5, <1>6

LEMMA FeedbackStart ==
    ASSUME FeedbackInit
    PROVE  FeedbackInv
<1>1. FbTypeOK
  BY FeedbackAssumption DEF FeedbackInit, FbTypeOK, Events
<1>2. AckedHaveLines /\ ExportIsWhole
  BY DEF FeedbackInit, AckedHaveLines, TornTail, ExportIsWhole
<1> QED BY <1>1, <1>2 DEF FeedbackInv

LEMMA OpensKeeps ==
    ASSUME FeedbackInv, NEW p \in Recorders, RecordOpens(p)
    PROVE  FeedbackInv'
<1>1. fbDeletes + 1 \in FbFiles
  BY FeedbackAssumption DEF FeedbackInv, FbTypeOK, FbFiles
<1>2. FbTypeOK'
  BY <1>1 DEF RecordOpens, FeedbackInv, FbTypeOK
<1> QED BY <1>2 DEF RecordOpens, FeedbackInv, AckedHaveLines, TornTail, ExportIsWhole

\* The file an append leaves: its last line is torn only if the line appended is.
LEMMA AppendedLine ==
    ASSUME FeedbackInv, NEW file \in FbFiles, NEW next \in FbLines
    PROVE  LET lines == Appended(file, next) IN
           /\ lines \in Seq(FbLines) /\ lines # <<>>
           /\ Len(lines) = IF TornTail(file) THEN Len(fbFile[file]) ELSE Len(fbFile[file]) + 1
           /\ Last(lines) = IF TornTail(file) THEN "glued" ELSE next
<1> DEFINE before == fbFile[file]
<1>1. before \in Seq(FbLines)
  BY DEF FeedbackInv, FbTypeOK
<1>2. CASE TornTail(file)
  <2>1. before # <<>> /\ Appended(file, next) = Append(Front(before), "glued")
    BY <1>2 DEF TornTail, Appended
  <2> HIDE DEF before
  <2>2. Front(before) \in Seq(FbLines) /\ Len(Front(before)) = Len(before) - 1
    <3>1. PICK n \in Nat : n = Len(before) - 1
      BY <1>1, <2>1
    <3>2. Front(before) = SubSeq(before, 1, n)
      BY <3>1 DEF Front
    <3>3. 1 \in Int /\ n \in Int /\ \A i \in 1..n : before[i] \in FbLines
      BY <1>1, <3>1
    <3>4. /\ SubSeq(before, 1, n) \in Seq(FbLines)
          /\ Len(SubSeq(before, 1, n)) = IF 1 <= n THEN n - 1 + 1 ELSE 0
      BY <3>3, SubSeqProperties
    <3> QED BY <3>1, <3>2, <3>4
  <2> QED BY <1>1, <1>2, <2>1, <2>2 DEF Last, FbLines, before
<1>3. CASE ~TornTail(file)
  BY <1>1, <1>3 DEF Appended, Last
<1> QED BY <1>2, <1>3

LEMMA WritesKeeps ==
    ASSUME FeedbackInv, NEW p \in Recorders, RecordWrites(p)
    PROVE  FeedbackInv'
<1>1. PICK file \in FbFiles : file = fbOpen[p]
  BY DEF RecordWrites, FeedbackInv, FbTypeOK
<1>2. PICK event \in Events : event = fbEvent[p]
  BY DEF FeedbackInv, FbTypeOK
<1>3. PICK lines : lines = Appended(file, event)
  OBVIOUS
<1>4. /\ fbFile' = [fbFile EXCEPT ![file] = lines]
      /\ fbAcked' = [fbAcked EXCEPT ![file] = fbAcked[file] + 1]
      /\ fbOpen' = [fbOpen EXCEPT ![p] = 0]
      /\ UNCHANGED <<fbPath, fbEvent, fbReport, fbDeletes>>
  BY <1>1, <1>2, <1>3 DEF RecordWrites
<1>5. /\ lines \in Seq(FbLines)
      /\ Len(lines) = IF TornTail(file) THEN Len(fbFile[file]) ELSE Len(fbFile[file]) + 1
      /\ Last(lines) # "torn"
  BY <1>3, AppendedLine DEF FbLines, Events, Ratings
<1>6. FbTypeOK'
  BY <1>4, <1>5 DEF FeedbackInv, FbTypeOK
<1>7. AckedHaveLines'
  <2> SUFFICES ASSUME NEW f \in FbFiles
               PROVE  /\ fbAcked'[f] <= Len(fbFile'[f])
                      /\ TornTail(f)' => fbAcked'[f] < Len(fbFile'[f])
    BY DEF AckedHaveLines
  <2>1. fbAcked[f] \in Nat /\ fbFile[f] \in Seq(FbLines) /\ Len(fbFile[f]) \in Nat
    BY DEF FeedbackInv, FbTypeOK
  <2>2. CASE f = file
    BY <1>4, <1>5, <2>1, <2>2 DEF FeedbackInv, FbTypeOK, AckedHaveLines, TornTail
  <2>3. CASE f # file
    BY <1>4, <2>1, <2>3 DEF FeedbackInv, FbTypeOK, AckedHaveLines, TornTail
  <2> QED BY <2>2, <2>3
<1>8. ExportIsWhole'
  BY <1>4 DEF FeedbackInv, ExportIsWhole
<1> QED BY <1>6, <1>7, <1>8 DEF FeedbackInv

LEMMA TearsKeeps ==
    ASSUME FeedbackInv, NEW p \in Recorders, RecordTears(p)
    PROVE  FeedbackInv'
<1>1. PICK file \in FbFiles : file = fbOpen[p]
  BY DEF RecordTears, FeedbackInv, FbTypeOK
<1>2. PICK lines : lines = IF TornTail(file) THEN fbFile[file] ELSE Append(fbFile[file], "torn")
  OBVIOUS
<1>3. /\ fbFile' = [fbFile EXCEPT ![file] = lines] /\ fbOpen' = [fbOpen EXCEPT ![p] = 0]
      /\ UNCHANGED <<fbPath, fbEvent, fbAcked, fbReport, fbDeletes>>
  BY <1>1, <1>2 DEF RecordTears
<1>4. fbFile[file] \in Seq(FbLines) /\ fbAcked[file] \in Nat
  BY DEF FeedbackInv, FbTypeOK
<1>5. /\ lines \in Seq(FbLines)
      /\ Len(lines) = IF TornTail(file) THEN Len(fbFile[file]) ELSE Len(fbFile[file]) + 1
  BY <1>2, <1>4 DEF FbLines
<1>6. FbTypeOK'
  BY <1>3, <1>5 DEF FeedbackInv, FbTypeOK
<1>7. AckedHaveLines'
  <2> SUFFICES ASSUME NEW f \in FbFiles
               PROVE  /\ fbAcked'[f] <= Len(fbFile'[f])
                      /\ TornTail(f)' => fbAcked'[f] < Len(fbFile'[f])
    BY DEF AckedHaveLines
  <2>1. fbAcked[f] \in Nat /\ Len(fbFile[f]) \in Nat
    BY DEF FeedbackInv, FbTypeOK
  <2>2. CASE f = file
    <3>1. fbFile'[f] = lines /\ fbAcked'[f] = fbAcked[f]
      BY <1>3, <2>2 DEF FeedbackInv, FbTypeOK
    <3>2. fbAcked[f] < Len(lines)
      BY <1>5, <2>1, <2>2 DEF FeedbackInv, AckedHaveLines
    <3> QED BY <1>5, <2>1, <3>1, <3>2
  <2>3. CASE f # file
    BY <1>3, <2>1, <2>3 DEF FeedbackInv, FbTypeOK, AckedHaveLines, TornTail
  <2> QED BY <2>2, <2>3
<1>8. ExportIsWhole'
  BY <1>3 DEF FeedbackInv, ExportIsWhole
<1> QED BY <1>6, <1>7, <1>8 DEF FeedbackInv

LEMMA ExportKeeps ==
    ASSUME FeedbackInv, Export
    PROVE  FeedbackInv'
<1>1. fbPath \in FbFiles /\ fbFile[fbPath] \in Seq(FbLines) /\ fbAcked[fbPath] \in Nat
  BY DEF Export, FeedbackInv, FbTypeOK
<1>2. Counted(fbFile[fbPath]) = Len(fbFile[fbPath])
  BY <1>1, ReadableAreCounted DEF Export
<1>3. fbAcked[fbPath] <= Len(fbFile[fbPath])
  BY <1>1 DEF FeedbackInv, AckedHaveLines
<1>4. fbReport' = [counted |-> Len(fbFile[fbPath]), due |-> fbAcked[fbPath]]
  BY <1>2 DEF Export
<1>5. ExportIsWhole'
  BY <1>1, <1>3, <1>4 DEF ExportIsWhole
<1>6. FbTypeOK' /\ AckedHaveLines'
  BY DEF Export, FeedbackInv, FbTypeOK, AckedHaveLines, TornTail
<1> QED BY <1>5, <1>6 DEF FeedbackInv

LEMMA FeedbackStep ==
    ASSUME FeedbackInv, [FeedbackNext]_fbVars
    PROVE  FeedbackInv'
<1>1. CASE UNCHANGED fbVars
  BY <1>1 DEF fbVars, FeedbackInv, FbTypeOK, AckedHaveLines, TornTail, ExportIsWhole
<1>2. CASE DeleteFeedback
  <2>1. FbTypeOK'
    BY <1>2, FeedbackAssumption DEF DeleteFeedback, FeedbackInv, FbTypeOK
  <2> QED BY <1>2, <2>1 DEF DeleteFeedback, FeedbackInv, AckedHaveLines, TornTail, ExportIsWhole
<1> QED BY <1>1, <1>2, OpensKeeps, WritesKeeps, TearsKeeps, ExportKeeps DEF FeedbackNext

\* An export that succeeds counts every event acknowledged into the file it reads,
\* whichever processes append, die half way or delete the file (feedback.go).
THEOREM ExportsAreWhole == FeedbackSpec => []ExportIsWhole
<1>1. FeedbackInv => ExportIsWhole
  BY DEF FeedbackInv
<1> QED BY <1>1, FeedbackStart, FeedbackStep, PTL DEF FeedbackSpec

-----------------------------------------------------------------------------
(* Workspace discovery: notes are read only where the client named the root,  *)
(* no child is started before a client that has roots has answered, and no    *)
(* call is served from a root that its client had left.  None is inductive.   *)
(* The first rests on the order in which handleClientRPCResponse and           *)
(* switchWorkspace set root and source; the others on what is on its way       *)
(* between the two sides.                                                     *)

RootIsNamed == source # "cwd" => root \in named

MInv == RootIsNamed /\ MemoryNeedsName

\* At the start nothing was served, and the source is the launch directory.
LEMMA MInvInit == Init => MInv
  BY DEF Init, MInv, RootIsNamed, MemoryNeedsName, NothingServed

\* A step that leaves root and source, and the last answer, alone.
LEMMA MInvKept ==
  ASSUME MInv, UNCHANGED <<root, source, served, named>>
  PROVE  MInv'
  BY DEF MInv, RootIsNamed, MemoryNeedsName

\* Only a root that is taken becomes the root of the client, and it is named then.
LEMMA MInvAnswer ==
  ASSUME MInv, NEW up \in SUBSET Roots, HandleAnswer(up)
  PROVE  MInv'
<1> DEFINE msg == Head(line)
           settles == msg.id = pending /\ source # "manual"
           taken == settles /\ Usable(msg, up)
<1>1. /\ source' = IF taken THEN "roots" ELSE source
      /\ root' = IF taken THEN msg.root ELSE root
      /\ named' = IF taken THEN named \union {msg.root} ELSE named
      /\ served' = served
  BY DEF HandleAnswer
<1> HIDE DEF taken, msg
<1>2. RootIsNamed'
  BY <1>1 DEF MInv, RootIsNamed
<1>3. MemoryNeedsName'
  BY <1>1 DEF MInv, MemoryNeedsName
<1> QED BY <1>2, <1>3 DEF MInv

\* A memory read is served where the call says, or in a root that is not the launch
\* directory's by default.
LEMMA MInvCall ==
  ASSUME MInv, NEW works \in BOOLEAN, NEW up \in SUBSET Roots, HandleCall(works, up)
  PROVE  MInv'
<1> DEFINE msg == Head(line)
           target == IF msg.arg = NoRoot THEN root ELSE msg.arg
           refused == Held \/ (msg.tool = "memory" /\ source = "cwd" /\ msg.arg = NoRoot)
<1>1. root' = root /\ source' = source
  BY DEF HandleCall
<1>2. CASE refused
  <2>1. named' = named /\ served'.how = "refused"
    BY <1>2 DEF HandleCall, Replies
  <2> QED BY <1>1, <2>1 DEF MInv, RootIsNamed, MemoryNeedsName
<1>3. CASE ~refused
  <2>1. named' = named \union ({msg.arg} \ {NoRoot})
    BY <1>3 DEF HandleCall
  <2>2. \/ served'.how = "failed"
        \/ served'.root = target /\ served'.tool = msg.tool
    BY <1>3 DEF HandleCall, Replies
  <2>3. msg.tool = "memory" => target \in named'
    BY <1>3, <2>1 DEF MInv, RootIsNamed
  <2>4. RootIsNamed'
    BY <1>1, <2>1 DEF MInv, RootIsNamed
  <2>5. MemoryNeedsName'
    BY <2>2, <2>3 DEF MemoryNeedsName
  <2> QED BY <2>4, <2>5 DEF MInv
<1> QED BY <1>2, <1>3

\* A switch names its root in the step that makes it the current one.
LEMMA MInvSwitch ==
  ASSUME MInv, NEW works \in BOOLEAN, NEW up \in SUBSET Roots, HandleSwitch(works, up)
  PROVE  MInv'
<1>1. served' = served
  BY DEF HandleSwitch
<1>2. \/ UNCHANGED <<root, source, named>>
      \/ /\ root' = Head(line).arg
         /\ named' = named \union {Head(line).arg}
  BY DEF HandleSwitch
<1> QED BY <1>1, <1>2 DEF MInv, RootIsNamed, MemoryNeedsName

\* Each step of the client and of the server keeps the invariant.
LEMMA MInvNext == MInv /\ [Next]_vars => MInv'
<1> SUFFICES ASSUME MInv, [Next]_vars PROVE MInv'
  OBVIOUS
<1>1. CASE ClientStep
  BY <1>1, MInvKept
  DEF ClientStep, SayInitialize, SayInitialized, ReadRequest, ChangeWorkspace, SwitchTo,
      AnswerRoots, CallTool, Sends, server
<1>2. CASE ServerStep
  <2>1. CASE HandleInitialize
    BY <2>1, MInvKept DEF HandleInitialize
  <2>2. CASE HandleChanged
    BY <2>2, MInvKept DEF HandleChanged
  <2>3. ASSUME NEW up \in SUBSET Roots, HandleInitialized(up)
        PROVE  MInv'
    BY <2>3, MInvKept DEF HandleInitialized
  <2> QED BY <1>2, <2>1, <2>2, <2>3, MInvAnswer, MInvCall, MInvSwitch DEF ServerStep
<1>3. ASSUME NEW r \in Roots, LoseChild(r)
      PROVE  MInv'
  BY <1>3, MInvKept DEF LoseChild
<1>4. CASE UNCHANGED vars
  BY <1>4, MInvKept DEF vars, server
<1> QED BY <1>1, <1>2, <1>3, <1>4 DEF Next

\* Memory reads fail closed: whatever the client does and in whichever order its
\* messages come, notes are read only from roots it named (MemoryNeedsName).
THEOREM NotesNeedAName == Spec => []MemoryNeedsName
<1>1. MInv => MemoryNeedsName
  BY DEF MInv
<1> QED BY MInvInit, MInvNext, <1>1, PTL DEF Spec
-----------------------------------------------------------------------------
(* The session: what is on the line, and what the server waits for.         *)

Answered == [kind : {"answer"}, id : Nat \ {0}, root : Roots \union {NoRoot}]
Called == [kind : {"call"}, tool : Tools, arg : Roots \union {NoRoot}, at : Roots]
Message == [kind : {"initialize"}, roots : BOOLEAN]
           \union [kind : {"initialized", "changed"}]
           \union Answered \union Called
           \union [kind : {"switch"}, arg : Roots]

SessionTypeOK ==
    /\ active \in Roots /\ said \in {"nothing", "initialize", "initialized"}
    /\ capable \in BOOLEAN /\ asked \in Nat /\ answer \in Roots \union {NoRoot}
    /\ line \in Seq(Message)
    /\ source \in {"cwd", "roots", "manual"}
    /\ supports \in BOOLEAN /\ requested \in BOOLEAN
    /\ pending \in Nat /\ nextId \in Nat \ {0} /\ agreed \in BOOLEAN

\* The server as it was started.
Untouched == ~supports /\ ~requested /\ source = "cwd" /\ children = {}

\* A client says nothing before initialize, and that once.
InitializeIsFirst ==
    /\ said = "nothing" => line = <<>> /\ Untouched
    /\ \A i \in DOMAIN line :
          line[i].kind = "initialize" => i = 1 /\ Untouched /\ line[i].roots = capable

RequestsCounted ==
    /\ ~requested => pending = 0 /\ nextId = 1
    /\ requested => nextId > 1
    /\ supports /\ ~requested => source = "cwd"

RootsNeedSupport ==
    /\ supports => capable /\ said # "nothing"
    /\ pending # 0 \/ source = "roots" => supports

\* At most one answer is on its way, the awaited one, and then none is owed.
OneAnswer ==
    /\ asked # 0 => asked = pending
    /\ \A i \in DOMAIN line : line[i].kind = "answer" =>
          /\ asked = 0 /\ line[i].id = pending
          /\ \A j \in DOMAIN line : line[j].kind = "answer" => j = i

SessionInv ==
    /\ SessionTypeOK /\ InitializeIsFirst /\ RequestsCounted
    /\ RootsNeedSupport /\ OneAnswer

\* What the line becomes when a message is taken from it, and when one is put on it.
LEMMA Reception ==
  ASSUME line \in Seq(Message), line # <<>>, line' = Tail(line)
  PROVE  /\ line' \in Seq(Message) /\ Len(line') \in Nat /\ Len(line) = Len(line') + 1
         /\ DOMAIN line = 1..Len(line) /\ DOMAIN line' = 1..Len(line')
         /\ \A i \in DOMAIN line' : i + 1 \in DOMAIN line /\ line'[i] = line[i + 1]
         /\ 1 \in DOMAIN line /\ Head(line) = line[1] /\ Head(line) \in Message
<1>1. /\ line' \in Seq(Message) /\ Len(line') \in Nat /\ Len(line) = Len(line') + 1
      /\ \A i \in 1..Len(line') : line'[i] = line[i + 1]
      /\ Head(line) = line[1] /\ Head(line) \in Message
  OBVIOUS
<1>2. DOMAIN line = 1..Len(line) /\ DOMAIN line' = 1..Len(line')
  BY <1>1
<1> QED BY <1>1, <1>2

LEMMA Sending ==
  ASSUME line \in Seq(Message), NEW m \in Message, line' = Append(line, m)
  PROVE  /\ line' \in Seq(Message) /\ Len(line) \in Nat /\ Len(line') = Len(line) + 1
         /\ DOMAIN line = 1..Len(line) /\ DOMAIN line' = 1..Len(line')
         /\ \A i \in DOMAIN line : i \in DOMAIN line' /\ line'[i] = line[i]
         /\ line'[Len(line')] = m
<1>1. /\ line' \in Seq(Message) /\ Len(line) \in Nat /\ Len(line') = Len(line) + 1
      /\ \A i \in 1..Len(line) : line'[i] = line[i]
      /\ line'[Len(line) + 1] = m
  OBVIOUS
<1>2. DOMAIN line = 1..Len(line) /\ DOMAIN line' = 1..Len(line')
  BY <1>1
<1> QED BY <1>1, <1>2

\* The fields a message has.
LEMMA MessageFields ==
  ASSUME NEW m \in Message
  PROVE  /\ m.kind = "initialize" => m.roots \in BOOLEAN
         /\ m.kind = "answer" => m.id \in Nat \ {0} /\ m.root \in Roots \union {NoRoot}
         /\ m.kind = "call" => m.at \in Roots
  BY DEF Message, Answered, Called

LEMMA SessionInit == Init => SessionInv
<1> SUFFICES ASSUME Init PROVE SessionInv
  OBVIOUS
<1>1. SessionTypeOK
  <2>1. <<>> \in Seq(Message)
    OBVIOUS
  <2>2. source \in {"cwd", "roots", "manual"} /\ said \in {"nothing", "initialize", "initialized"}
    BY DEF Init
  <2>3. asked \in Nat /\ pending \in Nat /\ nextId \in Nat \ {0}
    BY DEF Init
  <2>4. capable \in BOOLEAN /\ supports \in BOOLEAN /\ requested \in BOOLEAN /\ agreed \in BOOLEAN
    BY DEF Init
  <2> QED BY <2>1, <2>2, <2>3, <2>4 DEF Init, SessionTypeOK
<1>2. DOMAIN line = {}
  BY DEF Init
<1>3. InitializeIsFirst
  BY <1>2 DEF Init, InitializeIsFirst, Untouched
<1>4. RequestsCounted /\ RootsNeedSupport
  BY DEF Init, RequestsCounted, RootsNeedSupport
<1>5. OneAnswer
  BY <1>2 DEF Init, OneAnswer
<1> QED BY <1>1, <1>3, <1>4, <1>5 DEF SessionInv

\* A client that has begun sends a message that is neither initialize nor an answer,
\* and owes what it owed.
LEMMA SessionSent ==
  ASSUME SessionInv, NEW m \in Message, m.kind \notin {"initialize", "answer"}, Sends(m),
         said # "nothing", active' \in Roots, said' \in {said, "initialized"},
         UNCHANGED <<capable, asked, answer>>
  PROVE  SessionInv'
<1> USE DEF SessionInv
<1>1. line' = Append(line, m) /\ UNCHANGED server
  BY DEF Sends
<1>2. UNCHANGED <<root, source, children, supports, requested, pending, nextId, agreed>>
  BY <1>1 DEF server, session
<1>3. SessionTypeOK'
  BY <1>1, <1>2, Sending DEF SessionTypeOK
<1>4. \A i \in DOMAIN line' : line'[i].kind \in {"initialize", "answer"} =>
          i \in DOMAIN line /\ line'[i] = line[i]
  BY <1>1, Sending DEF SessionTypeOK
<1>5. InitializeIsFirst'
  BY <1>2, <1>4 DEF InitializeIsFirst, Untouched, SessionTypeOK
<1>6. RequestsCounted' /\ RootsNeedSupport'
  BY <1>2 DEF RequestsCounted, RootsNeedSupport, SessionTypeOK
<1>7. OneAnswer'
  BY <1>2, <1>4 DEF OneAnswer
<1> QED BY <1>3, <1>5, <1>6, <1>7

\* The two messages of the client that the rest depends on.
LEMMA SessionSayInitialize ==
  ASSUME SessionInv, SayInitialize
  PROVE  SessionInv'
<1> USE DEF SessionInv
<1> DEFINE m == [kind |-> "initialize", roots |-> capable]
<1>1. /\ said = "nothing" /\ said' = "initialize" /\ line' = Append(line, m)
      /\ UNCHANGED <<active, capable, asked, answer, root, source, children, supports, requested,
                     pending, nextId, agreed>>
  BY DEF SayInitialize, Sends, server, session
<1>2. m \in Message /\ m.kind = "initialize" /\ m.roots = capable
  BY DEF Message, SessionTypeOK
<1> HIDE DEF m
<1>3. line = <<>> /\ Untouched
  BY <1>1 DEF InitializeIsFirst
<1>4. SessionTypeOK'
  BY <1>1, <1>2, Sending DEF SessionTypeOK
<1>5. \A i \in DOMAIN line' : i = 1 /\ line'[i] = m
  BY <1>1, <1>2, <1>3, Sending DEF SessionTypeOK
<1>6. InitializeIsFirst'
  BY <1>1, <1>2, <1>3, <1>5 DEF InitializeIsFirst, Untouched
<1>7. RequestsCounted' /\ RootsNeedSupport'
  BY <1>1, <1>3 DEF RequestsCounted, RootsNeedSupport, Untouched
<1>8. OneAnswer'
  BY <1>1, <1>2, <1>5 DEF OneAnswer
<1> QED BY <1>4, <1>6, <1>7, <1>8

LEMMA SessionAnswered ==
  ASSUME SessionInv, NEW refuses \in BOOLEAN, AnswerRoots(refuses)
  PROVE  SessionInv'
<1> USE DEF SessionInv
<1> DEFINE m == [kind |-> "answer", id |-> asked,
                 root |-> IF refuses THEN NoRoot ELSE IF Snapshot THEN answer ELSE active]
<1>1. /\ asked # 0 /\ asked' = 0 /\ line' = Append(line, m) /\ answer' = NoRoot
      /\ UNCHANGED <<active, said, capable, root, source, children, supports, requested,
                     pending, nextId, agreed>>
  BY DEF AnswerRoots, Sends, server, session
<1>2. m \in Message /\ m.kind = "answer" /\ m.id = asked
  BY <1>1 DEF Message, Answered, SessionTypeOK
<1> HIDE DEF m
<1>3. SessionTypeOK'
  BY <1>1, <1>2, Sending DEF SessionTypeOK
<1>4. \A i \in DOMAIN line' : \/ i \in DOMAIN line /\ line'[i] = line[i]
                              \/ i = Len(line) + 1 /\ line'[i] = m
  BY <1>1, <1>2, Sending DEF SessionTypeOK
<1>5. said # "nothing"
  BY <1>1 DEF OneAnswer, RootsNeedSupport
<1>6. InitializeIsFirst'
  BY <1>1, <1>2, <1>4, <1>5 DEF InitializeIsFirst, Untouched
<1>7. RequestsCounted' /\ RootsNeedSupport'
  BY <1>1 DEF RequestsCounted, RootsNeedSupport
<1>8. \A i \in DOMAIN line : line[i].kind # "answer"
  BY <1>1 DEF OneAnswer
<1>9. OneAnswer'
  BY <1>1, <1>2, <1>4, <1>8 DEF OneAnswer
<1> QED BY <1>3, <1>6, <1>7, <1>9

\* A message other than initialize and answer is taken from the line; what it changes
\* of the session is at most the request it makes.
LEMMA SessionTaken ==
  ASSUME SessionInv, NEW kind \in {"initialized", "changed", "call", "switch"},
         Handles(kind), UNCHANGED <<supports, agreed>>, answer' \in {answer, NoRoot},
         \/ UNCHANGED <<asked, pending, nextId, requested>>
         \/ /\ supports /\ pending = 0
            /\ asked' = nextId /\ pending' = nextId /\ nextId' = nextId + 1 /\ requested' = TRUE,
         source' \in {source, "manual"},
         source' = "manual" /\ source # "manual" => ~Held
  PROVE  SessionInv'
<1> USE DEF SessionInv
<1>1. /\ line # <<>> /\ line' = Tail(line) /\ Head(line).kind = kind
      /\ UNCHANGED <<active, said, capable>>
  BY DEF Handles
<1>2. SessionTypeOK'
  <2>1. line' \in Seq(Message)
    BY <1>1, Reception DEF SessionTypeOK
  <2>2. /\ asked' \in Nat /\ pending' \in Nat /\ nextId' \in Nat \ {0}
        /\ source' \in {"cwd", "roots", "manual"}
    BY DEF SessionTypeOK
  <2>3. requested' \in BOOLEAN
    BY DEF SessionTypeOK
  <2> QED BY <1>1, <2>1, <2>2, <2>3 DEF SessionTypeOK
<1>3. \A i \in DOMAIN line' : i + 1 \in DOMAIN line /\ line'[i] = line[i + 1] /\ i \in Nat \ {0}
  BY <1>1, Reception DEF SessionTypeOK
<1>4. \A i \in DOMAIN line' : line'[i].kind # "initialize"
  BY <1>3 DEF InitializeIsFirst
<1>5. said # "nothing"
  BY <1>1 DEF InitializeIsFirst
<1>6. InitializeIsFirst'
  BY <1>1, <1>4, <1>5 DEF InitializeIsFirst
<1>7. RequestsCounted'
  BY DEF RequestsCounted, SessionTypeOK, Held
<1>8. RootsNeedSupport'
  BY <1>1 DEF RootsNeedSupport, SessionTypeOK
<1>9. OneAnswer'
  <2>1. CASE UNCHANGED <<asked, pending, nextId, requested>>
    BY <2>1, <1>3 DEF OneAnswer
  <2>2. CASE supports /\ pending = 0 /\ asked' = nextId /\ pending' = nextId
    <3>1. \A i \in DOMAIN line : line[i].kind # "answer"
      <4> SUFFICES ASSUME NEW i \in DOMAIN line, line[i].kind = "answer" PROVE FALSE
        OBVIOUS
      <4>1. line[i] \in Message
        BY DEF SessionTypeOK
      <4> QED BY <4>1, <2>2, MessageFields DEF OneAnswer
    <3>2. \A i \in DOMAIN line' : line'[i].kind # "answer"
      BY <3>1, <1>3
    <3> QED BY <2>2, <3>2 DEF OneAnswer
  <2> QED BY <2>1, <2>2
<1> QED BY <1>2, <1>6, <1>7, <1>8, <1>9

LEMMA SessionHandleInitialize ==
  ASSUME SessionInv, HandleInitialize
  PROVE  SessionInv'
<1> USE DEF SessionInv
<1>1. /\ line # <<>> /\ line' = Tail(line) /\ Head(line).kind = "initialize"
      /\ supports' = Head(line).roots
      /\ UNCHANGED <<active, said, capable, asked, answer, root, source, children,
                     requested, pending, nextId, agreed>>
  BY DEF HandleInitialize, Handles
<1>2. /\ Head(line) = line[1] /\ 1 \in DOMAIN line /\ Head(line) \in Message
      /\ \A i \in DOMAIN line' : i + 1 \in DOMAIN line /\ line'[i] = line[i + 1] /\ i \in Nat \ {0}
      /\ line' \in Seq(Message)
  BY <1>1, Reception DEF SessionTypeOK
<1>3. Untouched /\ supports' = capable /\ said # "nothing"
  BY <1>1, <1>2 DEF InitializeIsFirst
<1>4. SessionTypeOK'
  BY <1>1, <1>2, <1>3 DEF SessionTypeOK
<1>5. \A i \in DOMAIN line' : line'[i].kind # "initialize"
  BY <1>2 DEF InitializeIsFirst
<1>6. InitializeIsFirst'
  BY <1>1, <1>3, <1>5 DEF InitializeIsFirst
<1>7. RequestsCounted' /\ RootsNeedSupport'
  BY <1>1, <1>3 DEF RequestsCounted, RootsNeedSupport, Untouched
<1>8. OneAnswer'
  BY <1>1, <1>2 DEF OneAnswer
<1> QED BY <1>4, <1>6, <1>7, <1>8

\* The answer that is handled is the awaited one: the server waits no longer.
LEMMA SessionHandleAnswer ==
  ASSUME SessionInv, NEW up \in SUBSET Roots, HandleAnswer(up)
  PROVE  SessionInv' /\ Head(line).id = pending /\ pending' = 0
<1> USE DEF SessionInv
<1> DEFINE msg == Head(line)
           taken == source # "manual" /\ Usable(msg, up)
<1>1. /\ line # <<>> /\ line' = Tail(line) /\ msg.kind = "answer"
      /\ UNCHANGED <<active, said, capable, asked, answer, supports, requested, nextId>>
  BY DEF HandleAnswer, Handles
<1>2. /\ msg = line[1] /\ 1 \in DOMAIN line /\ msg \in Message
      /\ \A i \in DOMAIN line' : i + 1 \in DOMAIN line /\ line'[i] = line[i + 1] /\ i \in Nat \ {0}
      /\ line' \in Seq(Message)
  BY <1>1, Reception DEF SessionTypeOK
<1>3. msg.id = pending /\ asked = 0 /\ msg.id \in Nat \ {0}
  BY <1>1, <1>2, MessageFields DEF OneAnswer
<1>4. /\ pending' = 0
      /\ source' = IF taken THEN "roots" ELSE source
      /\ agreed' = IF source # "manual" THEN taken ELSE agreed
  BY <1>3 DEF HandleAnswer
<1>5. supports /\ said # "nothing" /\ requested
  BY <1>3 DEF RootsNeedSupport, RequestsCounted
<1>6. taken \in BOOLEAN
  BY DEF Usable
<1> HIDE DEF msg, taken
<1>7. SessionTypeOK'
  BY <1>1, <1>2, <1>4, <1>6 DEF SessionTypeOK
<1>8. \A i \in DOMAIN line' : line'[i].kind \notin {"initialize", "answer"}
  <2> SUFFICES ASSUME NEW i \in DOMAIN line', line'[i].kind \in {"initialize", "answer"} PROVE FALSE
    OBVIOUS
  <2>1. i + 1 \in DOMAIN line /\ line'[i] = line[i + 1] /\ i + 1 # 1
    BY <1>2
  <2> QED BY <1>1, <1>2, <2>1 DEF InitializeIsFirst, OneAnswer
<1>9. InitializeIsFirst'
  BY <1>1, <1>5, <1>8 DEF InitializeIsFirst
<1>10. RequestsCounted' /\ RootsNeedSupport'
  BY <1>1, <1>4, <1>5 DEF RequestsCounted, RootsNeedSupport
<1>11. OneAnswer'
  BY <1>1, <1>3, <1>8 DEF OneAnswer
<1> QED BY <1>3, <1>4, <1>7, <1>9, <1>10, <1>11 DEF msg

\* A step that takes and puts no message: the client may have read a request, or
\* changed its workspace in silence, and a child may be lost.
LEMMA SessionQuiet ==
  ASSUME SessionInv, active' \in Roots, answer' \in Roots \union {NoRoot},
         children' = children \/ (children # {} /\ children' \subseteq children),
         UNCHANGED <<said, capable, asked, line, source, session, agreed>>
  PROVE  SessionInv'
<1> USE DEF SessionInv
<1>1. UNCHANGED <<supports, requested, pending, nextId>>
  BY DEF session
<1>2. SessionTypeOK'
  BY <1>1 DEF SessionTypeOK
<1>3. InitializeIsFirst'
  BY <1>1 DEF InitializeIsFirst, Untouched
<1>4. RequestsCounted' /\ RootsNeedSupport'
  BY <1>1 DEF RequestsCounted, RootsNeedSupport
<1>5. OneAnswer'
  BY <1>1 DEF OneAnswer
<1> QED BY <1>2, <1>3, <1>4, <1>5

LEMMA SessionNext == SessionInv /\ [Next]_vars => SessionInv'
<1> SUFFICES ASSUME SessionInv, [Next]_vars PROVE SessionInv'
  OBVIOUS
<1>0. SessionTypeOK
  BY DEF SessionInv
<1>1. CASE ClientStep
  <2>1. CASE SayInitialized
    <3>1. [kind |-> "initialized"] \in Message
      BY DEF Message
    <3>2. /\ Sends([kind |-> "initialized"]) /\ said # "nothing" /\ said' = "initialized"
          /\ UNCHANGED <<active, capable, asked, answer>>
      BY <2>1 DEF SayInitialized
    <3> QED BY <1>0, <3>1, <3>2, SessionSent DEF SessionTypeOK
  <2>2. CASE ReadRequest
    BY <1>0, <2>2, SessionQuiet DEF ReadRequest, server, SessionTypeOK
  <2>3. ASSUME NEW r \in Roots, ChangeWorkspace(r)
        PROVE  SessionInv'
    <3>1. active' = r /\ UNCHANGED <<said, capable, asked, answer>>
      BY <2>3 DEF ChangeWorkspace
    <3>2. [kind |-> "changed"] \in Message
      BY DEF Message
    <3>3. CASE said # "nothing" /\ Sends([kind |-> "changed"])
      BY <3>1, <3>2, <3>3, SessionSent
    <3>4. CASE UNCHANGED <<line, server>>
      BY <1>0, <3>1, <3>4, SessionQuiet DEF server, SessionTypeOK
    <3> QED BY <2>3, <3>3, <3>4 DEF ChangeWorkspace
  <2>4. ASSUME NEW r \in Roots, SwitchTo(r)
        PROVE  SessionInv'
    <3>1. [kind |-> "switch", arg |-> r] \in Message
      BY DEF Message
    <3> QED BY <1>0, <2>4, <3>1, SessionSent DEF SwitchTo, SessionTypeOK
  <2>5. ASSUME NEW tool \in Tools, NEW arg \in Roots \union {NoRoot}, CallTool(tool, arg)
        PROVE  SessionInv'
    <3>1. [kind |-> "call", tool |-> tool, arg |-> arg, at |-> active] \in Message
      BY <1>0 DEF Message, Called, SessionTypeOK
    <3> QED BY <1>0, <2>5, <3>1, SessionSent DEF CallTool, SessionTypeOK
  <2> QED BY <1>1, <2>1, <2>2, <2>3, <2>4, <2>5, SessionSayInitialize, SessionAnswered
          DEF ClientStep
<1>2. CASE ServerStep
  <2>1. CASE HandleChanged
    <3>1. /\ Handles("changed") /\ UNCHANGED <<supports, agreed, source>> /\ RequestRoots(TRUE)
      BY <2>1 DEF HandleChanged
    <3> QED BY <3>1, SessionTaken DEF RequestRoots
  <2>2. ASSUME NEW up \in SUBSET Roots, HandleInitialized(up)
        PROVE  SessionInv'
    <3>1. /\ Handles("initialized") /\ UNCHANGED <<supports, agreed, source>>
          /\ RequestRoots(FALSE)
      BY <2>2 DEF HandleInitialized
    <3> QED BY <3>1, SessionTaken DEF RequestRoots
  <2>3. ASSUME NEW works \in BOOLEAN, NEW up \in SUBSET Roots, HandleCall(works, up)
        PROVE  SessionInv'
    BY <2>3, SessionTaken DEF HandleCall, session
  <2>4. ASSUME NEW works \in BOOLEAN, NEW up \in SUBSET Roots, HandleSwitch(works, up)
        PROVE  SessionInv'
    BY <2>4, SessionTaken DEF HandleSwitch, session
  <2> QED BY <1>2, <2>1, <2>2, <2>3, <2>4, SessionHandleInitialize, SessionHandleAnswer
          DEF ServerStep
<1>3. ASSUME NEW r \in Roots, LoseChild(r)
      PROVE  SessionInv'
  BY <1>0, <1>3, SessionQuiet DEF LoseChild, SessionTypeOK
<1>4. CASE UNCHANGED vars
  BY <1>0, <1>4, SessionQuiet DEF vars, server, SessionTypeOK
<1> QED BY <1>1, <1>2, <1>3, <1>4 DEF Next

-----------------------------------------------------------------------------
(* No child before the first answer.                                        *)

LEMMA ChildlessNext ==
  ASSUME SessionInv, NothingSpawnedEarly, [Next]_vars
  PROVE  NothingSpawnedEarly'
<1> USE DEF NothingSpawnedEarly
<1>0. SessionTypeOK /\ RequestsCounted
  BY DEF SessionInv
<1>1. CASE ClientStep
  BY <1>1
  DEF ClientStep, SayInitialize, SayInitialized, ReadRequest, ChangeWorkspace, SwitchTo,
      AnswerRoots, CallTool, Sends, server, session
<1>2. CASE ServerStep
  <2>1. CASE HandleInitialize
    <3>1. Untouched /\ UNCHANGED children
      BY <2>1, Reception DEF HandleInitialize, Handles, SessionInv, SessionTypeOK, InitializeIsFirst
    <3> QED BY <3>1 DEF Untouched
  <2>2. CASE HandleChanged
    <3>1. RequestRoots(TRUE) /\ UNCHANGED <<supports, children>>
      BY <2>2 DEF HandleChanged
    <3> QED BY <1>0, <3>1 DEF RequestRoots, RequestsCounted, SessionTypeOK
  <2>3. ASSUME NEW up \in SUBSET Roots, HandleInitialized(up)
        PROVE  NothingSpawnedEarly'
    <3>1. RequestRoots(FALSE) /\ UNCHANGED supports /\ (supports => UNCHANGED children)
      BY <2>3 DEF HandleInitialized
    <3> QED BY <1>0, <3>1 DEF RequestRoots, RequestsCounted, SessionTypeOK
  <2>4. ASSUME NEW up \in SUBSET Roots, HandleAnswer(up)
        PROVE  NothingSpawnedEarly'
    <3>1. pending' = 0 /\ Head(line).id = pending
      BY <2>4, SessionHandleAnswer
    <3>2. pending # 0
      BY <2>4, <3>1, Reception, MessageFields DEF HandleAnswer, Handles, SessionInv, SessionTypeOK
    <3>3. requested /\ requested' = requested
      BY <1>0, <2>4, <3>2 DEF RequestsCounted, HandleAnswer
    <3> QED BY <3>1, <3>3
  <2>5. ASSUME NEW works \in BOOLEAN, NEW up \in SUBSET Roots, HandleCall(works, up)
        PROVE  NothingSpawnedEarly'
    <3>1. UNCHANGED session /\ (Held => UNCHANGED children)
      BY <2>5 DEF HandleCall
    <3> QED BY <1>0, <3>1 DEF session, Held, RequestsCounted
  <2>6. ASSUME NEW works \in BOOLEAN, NEW up \in SUBSET Roots, HandleSwitch(works, up)
        PROVE  NothingSpawnedEarly'
    <3>1. UNCHANGED session /\ (Held => UNCHANGED children)
      BY <2>6 DEF HandleSwitch
    <3> QED BY <1>0, <3>1 DEF session, Held, RequestsCounted
  <2> QED BY <1>2, <2>1, <2>2, <2>3, <2>4, <2>5, <2>6 DEF ServerStep
<1>3. ASSUME NEW r \in Roots, LoseChild(r)
      PROVE  NothingSpawnedEarly'
  BY <1>3 DEF LoseChild, session
<1>4. CASE UNCHANGED vars
  BY <1>4 DEF vars, server, session
<1> QED BY <1>1, <1>2, <1>3, <1>4 DEF Next

\* A client that has roots is asked for them first: until it has answered, no tool call,
\* switch or notification starts a child, in the launch directory or in any other
\* (maybeRequestClientRoots, workspaceDiscoveryPending).
THEOREM ChildrenAwaitRoots == Spec => []NothingSpawnedEarly
<1>1. Init => NothingSpawnedEarly
  BY DEF Init, NothingSpawnedEarly
<1> QED BY SessionInit, SessionNext, ChildlessNext, <1>1, PTL DEF Spec

-----------------------------------------------------------------------------
(* Calls and roots that pass each other on the line.  The news of a line are *)
(* what tells the server that its root may be old, or what it is; the call   *)
(* the client might make next is treated as one more message of it.          *)

IsNews(i) == line[i].kind \in {"changed", "answer"}
IsCall(i) == i \in DOMAIN line => line[i].kind = "call"
At(i) == IF i \in DOMAIN line THEN line[i].at ELSE active
Positions == 1..(Len(line) + 1)
QuietBetween(j, i) == \A k \in DOMAIN line : j < k /\ k < i => ~IsNews(k)

\* The root that will answer a call is the one it was made in: the server's, if no news
\* comes before the call and the server waits for none, ...
RootIsCurrent ==
    source = "roots" /\ agreed /\ pending = 0 =>
        \A i \in Positions : IsCall(i) /\ QuietBetween(0, i) => root = At(i)
\* ... or that of the last answer before it, if nothing has changed since.
AnswersAreCurrent ==
    \A j \in DOMAIN line : \A i \in Positions :
        line[j].kind = "answer" /\ j < i /\ IsCall(i) /\ QuietBetween(j, i)
            => line[j].root \in {NoRoot, At(i)}
CurrencyInv == RootIsCurrent /\ AnswersAreCurrent

\* A message is put on the line that is no answer: the call that might have come next
\* comes after it now, and a change of workspace is news.
LEMMA CurrencySent ==
  ASSUME SessionInv, CurrencyInv, NEW m \in Message, line' = Append(line, m),
         m.kind # "answer", m.kind = "call" => m.at = active,
         active' = active \/ m.kind = "changed",
         UNCHANGED <<root, source, agreed, pending>>
  PROVE  CurrencyInv'
<1>1. /\ line \in Seq(Message) /\ Len(line) \in Nat /\ Len(line') = Len(line) + 1
      /\ DOMAIN line = 1..Len(line) /\ DOMAIN line' = 1..Len(line')
      /\ \A i \in DOMAIN line : i \in DOMAIN line' /\ line'[i] = line[i]
      /\ line'[Len(line')] = m
  BY Sending DEF SessionInv, SessionTypeOK
\* What is a call after the step was one before, or might have been.
<1>2. ASSUME NEW i \in Positions', IsCall(i)', NEW j \in Nat, j < i, QuietBetween(j, i)',
             j = 0 \/ j \in DOMAIN line
      PROVE  \E n \in Positions : IsCall(n) /\ QuietBetween(j, n) /\ At(n) = At(i)' /\ j < n
  <2>1. CASE i \in DOMAIN line
    <3>1. IsCall(i) /\ At(i) = At(i)' /\ i \in Positions
      BY <1>1, <1>2, <2>1 DEF IsCall, At, Positions
    <3>2. QuietBetween(j, i)
      BY <1>1, <1>2, <2>1 DEF QuietBetween, IsNews
    <3> QED BY <1>2, <3>1, <3>2
  <2>2. CASE i = Len(line) + 1
    <3>1. m.kind = "call" /\ At(i)' = m.at
      BY <1>1, <1>2, <2>2 DEF IsCall, At
    <3>2. IsCall(i) /\ At(i) = active /\ i \in Positions
      BY <1>1, <2>2 DEF IsCall, At, Positions
    <3>3. QuietBetween(j, i)
      BY <1>1, <1>2, <2>2 DEF QuietBetween, IsNews
    <3> QED BY <1>2, <3>1, <3>2, <3>3
  <2>3. CASE i = Len(line) + 2
    <3>1. m.kind # "changed"
      BY <1>1, <1>2, <2>3 DEF QuietBetween, IsNews
    <3>2. At(i)' = active
      BY <1>1, <2>3, <3>1 DEF At
    <3>3. IsCall(Len(line) + 1) /\ At(Len(line) + 1) = active /\ Len(line) + 1 \in Positions
      BY <1>1 DEF IsCall, At, Positions
    <3>4. QuietBetween(j, Len(line) + 1) /\ j < Len(line) + 1
      BY <1>1, <1>2, <2>3 DEF QuietBetween, IsNews
    <3> QED BY <3>2, <3>3, <3>4
  <2>4. i \in 1..(Len(line) + 2)
    BY <1>1 DEF Positions
  <2> QED BY <1>1, <2>1, <2>2, <2>3, <2>4
<1>3. RootIsCurrent'
  <2> SUFFICES ASSUME source = "roots", agreed, pending = 0,
                      NEW i \in Positions', IsCall(i)', QuietBetween(0, i)'
               PROVE  root = At(i)'
    BY DEF RootIsCurrent
  <2>1. 0 < i
    BY <1>1 DEF Positions
  <2>2. PICK n \in Positions : IsCall(n) /\ QuietBetween(0, n) /\ At(n) = At(i)'
    BY <1>2, <2>1
  <2> QED BY <2>2 DEF CurrencyInv, RootIsCurrent
<1>4. AnswersAreCurrent'
  <2> SUFFICES ASSUME NEW j \in DOMAIN line', NEW i \in Positions', line'[j].kind = "answer",
                      j < i, IsCall(i)', QuietBetween(j, i)'
               PROVE  line'[j].root \in {NoRoot, At(i)'}
    BY DEF AnswersAreCurrent
  <2>1. j \in DOMAIN line /\ line'[j] = line[j] /\ j \in Nat
    BY <1>1
  <2>2. PICK n \in Positions : IsCall(n) /\ QuietBetween(j, n) /\ At(n) = At(i)' /\ j < n
    BY <1>2, <2>1
  <2> QED BY <2>1, <2>2 DEF CurrencyInv, AnswersAreCurrent
<1> QED BY <1>3, <1>4 DEF CurrencyInv

\* An answer is put on the line: it names the workspace the client has by then.
LEMMA CurrencyAnswered ==
  ASSUME SessionInv, CurrencyInv, ~Snapshot, NEW refuses \in BOOLEAN, AnswerRoots(refuses)
  PROVE  CurrencyInv'
<1> DEFINE m == [kind |-> "answer", id |-> asked,
                 root |-> IF refuses THEN NoRoot ELSE IF Snapshot THEN answer ELSE active]
<1>1. /\ asked # 0 /\ line' = Append(line, m)
      /\ UNCHANGED <<active, root, source, agreed, pending>>
  BY DEF AnswerRoots, Sends, server, session
<1>2. m \in Message /\ m.kind = "answer" /\ m.root \in {NoRoot, active}
  BY <1>1 DEF Message, Answered, SessionInv, SessionTypeOK
<1> HIDE DEF m
<1>3. /\ line \in Seq(Message) /\ Len(line) \in Nat /\ Len(line') = Len(line) + 1
      /\ DOMAIN line = 1..Len(line) /\ DOMAIN line' = 1..Len(line')
      /\ \A i \in DOMAIN line : i \in DOMAIN line' /\ line'[i] = line[i]
      /\ line'[Len(line')] = m
  BY <1>1, <1>2, Sending DEF SessionInv, SessionTypeOK
<1>4. pending # 0 /\ \A i \in DOMAIN line : line[i].kind # "answer"
  BY <1>1 DEF SessionInv, OneAnswer
<1>5. RootIsCurrent'
  BY <1>1, <1>4 DEF RootIsCurrent
<1>6. AnswersAreCurrent'
  <2> SUFFICES ASSUME NEW j \in DOMAIN line', NEW i \in Positions', line'[j].kind = "answer",
                      j < i, IsCall(i)'
               PROVE  line'[j].root \in {NoRoot, At(i)'}
    BY DEF AnswersAreCurrent
  <2>1. j = Len(line') /\ line'[j] = m
    BY <1>3, <1>4
  <2>2. At(i)' = active
    BY <1>1, <1>3, <2>1 DEF At, Positions
  <2> QED BY <1>2, <2>1, <2>2
<1> QED BY <1>5, <1>6 DEF CurrencyInv

\* A message is taken from the line.  Where the server then relies on its root, it did
\* before, and the message was no news; or it was an answer that named the root.
LEMMA CurrencyTaken ==
  ASSUME SessionInv, CurrencyInv, line # <<>>, line' = Tail(line), active' = active,
         source' = "roots" /\ agreed' /\ pending' = 0 =>
            \/ ~IsNews(1) /\ source = "roots" /\ agreed /\ pending = 0 /\ root' = root
            \/ line[1].kind = "answer" /\ line[1].root # NoRoot /\ root' = line[1].root
  PROVE  CurrencyInv'
<1>1. /\ Len(line') \in Nat /\ Len(line) = Len(line') + 1
      /\ DOMAIN line = 1..Len(line) /\ DOMAIN line' = 1..Len(line')
      /\ \A i \in DOMAIN line' : i + 1 \in DOMAIN line /\ line'[i] = line[i + 1]
      /\ 1 \in DOMAIN line
  BY Reception DEF SessionInv, SessionTypeOK
<1>2. ASSUME NEW i \in Positions', IsCall(i)'
      PROVE  i + 1 \in Positions /\ IsCall(i + 1) /\ At(i + 1) = At(i)' /\ i \in Nat \ {0}
  BY <1>1, <1>2 DEF Positions, IsCall, At
<1>3. ASSUME NEW i \in Nat, NEW j \in Nat, QuietBetween(j, i)'
      PROVE  QuietBetween(j + 1, i + 1)
  <2> SUFFICES ASSUME NEW k \in DOMAIN line, j + 1 < k, k < i + 1 PROVE ~IsNews(k)
    BY DEF QuietBetween
  <2>1. k - 1 \in DOMAIN line' /\ line'[k - 1] = line[(k - 1) + 1] /\ j < k - 1 /\ k - 1 < i
    BY <1>1
  <2>2. (k - 1) + 1 = k
    BY <1>1
  <2>3. ~IsNews(k - 1)'
    BY <1>3, <2>1 DEF QuietBetween
  <2> QED BY <2>1, <2>2, <2>3 DEF IsNews
<1>4. RootIsCurrent'
  <2> SUFFICES ASSUME (source = "roots")', agreed', (pending = 0)',
                      NEW i \in Positions', IsCall(i)', QuietBetween(0, i)'
               PROVE  root' = At(i)'
    BY DEF RootIsCurrent
  <2>1. /\ i + 1 \in Positions /\ IsCall(i + 1) /\ At(i + 1) = At(i)' /\ i \in Nat \ {0}
        /\ QuietBetween(1, i + 1)
    BY <1>2, <1>3
  <2>2. CASE ~IsNews(1) /\ source = "roots" /\ agreed /\ pending = 0 /\ root' = root
    <3>1. QuietBetween(0, i + 1)
      BY <1>1, <2>1, <2>2 DEF QuietBetween
    <3> QED BY <2>1, <2>2, <3>1 DEF CurrencyInv, RootIsCurrent
  <2>3. CASE line[1].kind = "answer" /\ line[1].root # NoRoot /\ root' = line[1].root
    <3>1. 1 < i + 1
      BY <2>1
    <3> QED BY <1>1, <2>1, <2>3, <3>1 DEF CurrencyInv, AnswersAreCurrent
  <2> QED BY <2>2, <2>3
<1>5. AnswersAreCurrent'
  <2> SUFFICES ASSUME NEW j \in DOMAIN line', NEW i \in Positions', line'[j].kind = "answer",
                      j < i, IsCall(i)', QuietBetween(j, i)'
               PROVE  line'[j].root \in {NoRoot, At(i)'}
    BY DEF AnswersAreCurrent
  <2>1. /\ i + 1 \in Positions /\ IsCall(i + 1) /\ At(i + 1) = At(i)' /\ i \in Nat \ {0}
        /\ j \in Nat /\ j + 1 \in DOMAIN line /\ line'[j] = line[j + 1] /\ j + 1 < i + 1
    BY <1>1, <1>2
  <2>2. QuietBetween(j + 1, i + 1)
    BY <1>3, <2>1
  <2> QED BY <2>1, <2>2 DEF CurrencyInv, AnswersAreCurrent
<1> QED BY <1>4, <1>5 DEF CurrencyInv

\* What the actions of the client and of the server do to the line.
LEMMA CurrencyQuiet ==
  ASSUME SessionInv, CurrencyInv,
         active' = active \/ ~capable \/ said = "nothing",
         UNCHANGED <<line, root, source, pending, agreed>>
  PROVE  CurrencyInv'
<1>1. CASE active' = active
  BY <1>1 DEF CurrencyInv, RootIsCurrent, AnswersAreCurrent, Positions, IsCall, At,
              QuietBetween, IsNews
<1>2. CASE ~capable \/ said = "nothing"
  <2>1. source # "roots" /\ pending = 0
    BY <1>2 DEF SessionInv, RootsNeedSupport
  <2>2. \A j \in DOMAIN line : line[j].kind # "answer"
    <3> SUFFICES ASSUME NEW j \in DOMAIN line, line[j].kind = "answer" PROVE FALSE
      OBVIOUS
    <3>1. line[j] \in Message
      BY DEF SessionInv, SessionTypeOK
    <3> QED BY <2>1, <3>1, MessageFields DEF SessionInv, OneAnswer
  <2>3. RootIsCurrent'
    BY <2>1 DEF RootIsCurrent
  <2>4. AnswersAreCurrent'
    BY <2>2 DEF AnswersAreCurrent
  <2> QED BY <2>3, <2>4 DEF CurrencyInv
<1> QED BY <1>1, <1>2

LEMMA CurrencyNext ==
  ASSUME SessionInv, CurrencyInv, ~Snapshot, [Next]_vars
  PROVE  CurrencyInv'
<1>0. SessionTypeOK
  BY DEF SessionInv
<1>1. CASE ClientStep
  <2>1. CASE SayInitialize
    <3> DEFINE m == [kind |-> "initialize", roots |-> capable]
    <3>1. m \in Message /\ m.kind = "initialize"
      BY <1>0 DEF Message, SessionTypeOK
    <3>2. /\ line' = Append(line, m) /\ UNCHANGED <<active, root, source, agreed, pending>>
      BY <2>1 DEF SayInitialize, Sends, server, session
    <3> HIDE DEF m
    <3> QED BY <3>1, <3>2, CurrencySent
  <2>2. CASE SayInitialized
    <3> DEFINE m == [kind |-> "initialized"]
    <3>1. m \in Message /\ m.kind = "initialized"
      BY DEF Message
    <3>2. /\ line' = Append(line, m) /\ UNCHANGED <<active, root, source, agreed, pending>>
      BY <2>2 DEF SayInitialized, Sends, server, session
    <3> HIDE DEF m
    <3> QED BY <3>1, <3>2, CurrencySent
  <2>3. CASE ReadRequest
    BY <2>3, CurrencyQuiet DEF ReadRequest, server, session
  <2>4. ASSUME NEW r \in Roots, ChangeWorkspace(r)
        PROVE  CurrencyInv'
    <3>1. CASE capable /\ said # "nothing"
      <4> DEFINE m == [kind |-> "changed"]
      <4>1. m \in Message /\ m.kind = "changed"
        BY DEF Message
      <4>2. /\ line' = Append(line, m) /\ UNCHANGED <<root, source, agreed, pending>>
        BY <2>4, <3>1 DEF ChangeWorkspace, Sends, server, session
      <4> HIDE DEF m
      <4> QED BY <4>1, <4>2, CurrencySent
    <3>2. CASE ~(capable /\ said # "nothing")
      <4>1. UNCHANGED <<line, root, source, agreed, pending>>
        BY <2>4, <3>2 DEF ChangeWorkspace, server, session
      <4> QED BY <3>2, <4>1, CurrencyQuiet
    <3> QED BY <3>1, <3>2
  <2>5. ASSUME NEW r \in Roots, SwitchTo(r)
        PROVE  CurrencyInv'
    <3> DEFINE m == [kind |-> "switch", arg |-> r]
    <3>1. m \in Message /\ m.kind = "switch"
      BY DEF Message
    <3>2. /\ line' = Append(line, m) /\ UNCHANGED <<active, root, source, agreed, pending>>
      BY <2>5 DEF SwitchTo, Sends, server, session
    <3> HIDE DEF m
    <3> QED BY <3>1, <3>2, CurrencySent
  <2>6. ASSUME NEW tool \in Tools, NEW arg \in Roots \union {NoRoot}, CallTool(tool, arg)
        PROVE  CurrencyInv'
    <3> DEFINE m == [kind |-> "call", tool |-> tool, arg |-> arg, at |-> active]
    <3>1. m \in Message /\ m.kind = "call" /\ m.at = active
      BY <1>0 DEF Message, Called, SessionTypeOK
    <3>2. /\ line' = Append(line, m) /\ UNCHANGED <<active, root, source, agreed, pending>>
      BY <2>6 DEF CallTool, Sends, server, session
    <3> HIDE DEF m
    <3> QED BY <3>1, <3>2, CurrencySent
  <2> QED BY <1>1, <2>1, <2>2, <2>3, <2>4, <2>5, <2>6, CurrencyAnswered DEF ClientStep
<1>2. CASE ServerStep
  <2>1. ASSUME NEW kind, Handles(kind)
        PROVE  /\ line # <<>> /\ line' = Tail(line) /\ active' = active
               /\ line[1] = Head(line) /\ line[1].kind = kind /\ line[1] \in Message
    BY <1>0, <2>1, Reception DEF Handles, SessionTypeOK
  <2>2. CASE HandleInitialize
    <3>1. Handles("initialize") /\ UNCHANGED <<root, source, agreed, pending>>
      BY <2>2 DEF HandleInitialize
    <3> QED BY <2>1, <3>1, CurrencyTaken DEF IsNews
  <2>3. CASE HandleChanged
    <3>1. Handles("changed") /\ UNCHANGED <<root, source, agreed>> /\ RequestRoots(TRUE)
      BY <2>3 DEF HandleChanged
    <3>2. source = "roots" => pending' # 0
      BY <1>0, <3>1 DEF RequestRoots, SessionTypeOK, SessionInv, RootsNeedSupport
    <3> QED BY <2>1, <3>1, <3>2, CurrencyTaken
  <2>4. ASSUME NEW up \in SUBSET Roots, HandleInitialized(up)
        PROVE  CurrencyInv'
    <3>1. Handles("initialized") /\ UNCHANGED <<root, source, agreed>> /\ RequestRoots(FALSE)
      BY <2>4 DEF HandleInitialized
    <3>2. pending' = 0 => pending = 0
      BY <1>0, <3>1 DEF RequestRoots, SessionTypeOK
    <3> QED BY <2>1, <3>1, <3>2, CurrencyTaken DEF IsNews
  <2>5. ASSUME NEW up \in SUBSET Roots, HandleAnswer(up)
        PROVE  CurrencyInv'
    <3> DEFINE taken == source # "manual" /\ Usable(Head(line), up)
    <3>1. Handles("answer") /\ Head(line).id = pending
      BY <2>5, SessionHandleAnswer DEF HandleAnswer
    <3>2. /\ source' = IF taken THEN "roots" ELSE source
          /\ root' = IF taken THEN Head(line).root ELSE root
          /\ agreed' = IF source # "manual" THEN taken ELSE agreed
      BY <2>5, <3>1 DEF HandleAnswer
    <3>3. taken => Head(line).root # NoRoot
      BY DEF Usable
    <3> HIDE DEF taken
    <3>4. source' = "roots" /\ agreed' => taken
      BY <3>2
    <3> QED BY <2>1, <3>1, <3>2, <3>3, <3>4, CurrencyTaken
  <2>6. ASSUME NEW works \in BOOLEAN, NEW up \in SUBSET Roots, HandleCall(works, up)
        PROVE  CurrencyInv'
    <3>1. Handles("call") /\ UNCHANGED <<root, source, agreed, pending>>
      BY <2>6 DEF HandleCall, session
    <3> QED BY <2>1, <3>1, CurrencyTaken DEF IsNews
  <2>7. ASSUME NEW works \in BOOLEAN, NEW up \in SUBSET Roots, HandleSwitch(works, up)
        PROVE  CurrencyInv'
    <3>1. /\ Handles("switch") /\ UNCHANGED <<agreed, pending>>
          /\ source' # "manual" => UNCHANGED <<root, source>>
      BY <2>7 DEF HandleSwitch, session
    <3> QED BY <2>1, <3>1, CurrencyTaken DEF IsNews
  <2> QED BY <1>2, <2>2, <2>3, <2>4, <2>5, <2>6, <2>7 DEF ServerStep
<1>3. ASSUME NEW r \in Roots, LoseChild(r)
      PROVE  CurrencyInv'
  BY <1>3, CurrencyQuiet DEF LoseChild, session
<1>4. CASE UNCHANGED vars
  BY <1>4, CurrencyQuiet DEF vars, server, session
<1> QED BY <1>1, <1>2, <1>3, <1>4 DEF Next

\* A call that is not held is served where its client was when it made it.
LEMMA FreshNext ==
  ASSUME SessionInv, CurrencyInv, NoStaleResults, [Next]_vars
  PROVE  NoStaleResults'
<1>1. ASSUME NEW works \in BOOLEAN, NEW up \in SUBSET Roots, HandleCall(works, up)
      PROVE  NoStaleResults'
  <2> DEFINE msg == Head(line)
  <2>1. Handles("call") /\ UNCHANGED <<root, source, agreed>>
    BY <1>1 DEF HandleCall
  <2>2. /\ msg = line[1] /\ line[1].kind = "call" /\ 1 \in DOMAIN line
        /\ DOMAIN line = 1..Len(line) /\ Len(line) \in Nat
    BY <2>1, Reception DEF Handles, SessionInv, SessionTypeOK
  <2> SUFFICES ASSUME served'.how = "served", served'.arg = NoRoot, served'.source = "roots",
                      served'.agreed
               PROVE  served'.root = served'.at
    BY DEF NoStaleResults
  <2>3. /\ ~Held /\ served' = [how |-> "served", tool |-> msg.tool, arg |-> msg.arg, at |-> msg.at,
                      root |-> IF msg.arg = NoRoot THEN root ELSE msg.arg,
                      source |-> source, agreed |-> agreed]
    BY <1>1 DEF HandleCall, Replies
  <2>4. served'.root = root /\ served'.at = line[1].at /\ source = "roots" /\ agreed
    BY <2>2, <2>3
  <2>5. pending = 0
    BY <2>3, <2>4 DEF Held, SessionInv, RootsNeedSupport
  <2>6. 1 \in Positions /\ IsCall(1) /\ QuietBetween(0, 1) /\ At(1) = line[1].at
    BY <2>2 DEF Positions, IsCall, QuietBetween, At
  <2> QED BY <2>4, <2>5, <2>6 DEF CurrencyInv, RootIsCurrent
<1>2. CASE UNCHANGED served
  BY <1>2 DEF NoStaleResults
<1>3. [Next]_vars =>
        \/ \E works \in BOOLEAN : \E up \in SUBSET Roots : HandleCall(works, up)
        \/ UNCHANGED served
  BY DEF Next, ClientStep, ServerStep, SayInitialize, SayInitialized, ReadRequest,
         ChangeWorkspace, SwitchTo, AnswerRoots, CallTool, Sends, server, vars,
         HandleInitialize, HandleChanged, HandleInitialized, HandleAnswer, HandleSwitch,
         LoseChild
<1> QED BY <1>1, <1>2, <1>3

LEMMA CurrencyInit == Init => CurrencyInv
  BY DEF Init, CurrencyInv, RootIsCurrent, AnswersAreCurrent

\* Whatever passes what on the line, a tool call is not answered from a workspace its
\* client had left when it made it, if the client answers roots/list with the root it
\* has when it answers (workspaceDiscoveryPending, handleClientRPCResponse).  For a
\* client that answers with the one it had when it read the request it does not hold.
THEOREM CallsAreCurrent == ASSUME ~Snapshot PROVE Spec => []NoStaleResults
<1>1. Init => NoStaleResults
  BY DEF Init, NoStaleResults, NothingServed
<1>2. SessionInv /\ CurrencyInv /\ NoStaleResults /\ [Next]_vars
        => (SessionInv /\ CurrencyInv /\ NoStaleResults)'
  BY SessionNext, CurrencyNext, FreshNext
<1> QED BY SessionInit, CurrencyInit, <1>1, <1>2, PTL DEF Spec
=============================================================================
