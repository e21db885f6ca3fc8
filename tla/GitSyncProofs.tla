---------------------------- MODULE GitSyncProofs ----------------------------
(***************************************************************************)
(* The index follows the worktree: for any files, sizes, rules and         *)
(* versions, whenever nothing is under way and a poll would find nothing   *)
(* new, the index has what the worktree has.  The argument is bookkeeping: *)
(* a path that is wrong in the index is waiting somewhere, in a change no  *)
(* poll has seen (Pending), in the sets of the monitor, in a flush, in the *)
(* queue, or before the worker; and while the loaded rules are not those   *)
(* on disk, the ignore file is (RulesPending).                             *)
(*                                                                         *)
(* It needs what section 4 of README.md names: one flush at a time and a   *)
(* user who is not hasty; and a store that everything fits into.           *)
(***************************************************************************)
EXTENDS GitSync, IndexerProofs

\* One flush at a time.
OneFlush == \A c, d \in Callers : c = d

\* Whatever versions the files have, they fit into the store.
Roomy == \A e \in [Paths -> 0..MaxVersion] : Bytes(e, Paths) <= MaxTotalBytes

-----------------------------------------------------------------------------
(* The invariant                                                            *)

Marks == [op : {"a", "d", "clean"}, ver : 0..MaxVersion]
FlushStates == {"idle", "remove", "ensure", "all", "full", "wait"}

WorkerTyped ==
    w \in [pc : WorkerStates, full : BOOLEAN, live : {TRUE}, todo : SUBSET Paths,
           seen : [Paths -> 0..MaxVersion], rules : SUBSET Paths, local : {w.local},
           cur : SUBSET Paths, ver : 0..MaxVersion, got : {w.got}, had : {w.had},
           partial : BOOLEAN, changed : BOOLEAN, after : {"idle", "next", "finish"}]

UserTyped ==
    /\ fs \in [Paths -> 0..MaxVersion] /\ clock \in [Paths -> 0..MaxVersion]
    /\ head \in [Paths -> 0..MaxVersion]
    /\ ignored \subseteq Paths
    /\ \A p \in Paths : fs[p] <= clock[p] /\ head[p] <= clock[p]

MonitorTyped ==
    /\ statusPaths \in [Paths -> Marks]
    /\ \A p \in Paths : statusPaths[p].ver <= clock[p]
    /\ poll \in [pc : {"idle", "stat"}, add : SUBSET Paths, del : SUBSET Paths]
    /\ pendingAdd \subseteq Paths /\ pendingDel \subseteq Paths
    /\ timer \in BOOLEAN /\ (pendingAdd \union pendingDel # {} => timer)

FlushTyped ==
    /\ flush \in [Callers -> [pc : FlushStates, add : SUBSET Paths, del : SUBSET Paths]]
    /\ k \in [Callers -> CallerRecord]

StoreTyped == ManifestOK(m) /\ TotalOK(m) /\ rules \subseteq Paths

GitTyped == WorkerTyped /\ UserTyped /\ MonitorTyped /\ FlushTyped /\ StoreTyped

\* The worker is in the loop over paths of a pass.
Looping ==
    \/ w.pc \in {"next", "work", "writing"}
    \/ w.pc \in {"marshal", "publish"} /\ w.after = "next"

\* Nobody has asked for anything, or the one flush waits for its one request.
Quiet == queue = <<>> /\ w.pc = "idle" /\ askers = <<>>
Asked(r) == queue = <<r>> /\ w.pc = "idle"
Served == queue = <<>> /\ w.pc # "idle"
Awaited(c) ==
    /\ flush[c].pc = "wait" /\ askers = <<c>>
    /\ Served \/ \E r \in Request : Asked(r) /\ (r.full \/ r.paths # {})

\* Where the goroutine of a flush is, in the index and in the flush.
InStep(c) ==
    /\ k[c].pc \in {"idle", "marshal", "publish", "swap", "full"}
    /\ k[c].pc \in {"marshal", "publish"} => flush[c].pc = "ensure" /\ k[c].next = "idle"
    /\ k[c].pc \in {"swap", "full"} <=> flush[c].pc = "full"
    /\ k[c].pc = "swap" => k[c].next = "full"
    /\ flush[c].pc = "remove" => flush[c].del # {}

InTurn ==
    /\ Quiet \/ \E c \in Callers : Awaited(c)
    /\ \A c \in Callers : InStep(c)

\* What the next poll, or the next flush, has to say of p.
Unnoticed(p) == statusPaths[p] # Now(p)
Pending(p) == Unnoticed(p) \/ p \in pendingAdd \/ (p \in pendingDel /\ fs[p] = 0)
RulesPending ==
    \/ Unnoticed(RulesFile) \/ RulesFile \in pendingAdd \union pendingDel
    \/ \E c \in Callers : flush[c].pc = "all"

\* A path to be removed is gone, or has been put back since.
RemovedAreGone ==
    /\ \A p \in pendingDel : Pending(p)
    /\ \A c \in Callers : flush[c].pc = "remove" =>
         \A p \in flush[c].del : fs[p] = 0 \/ p \in flush[c].add \/ Pending(p)

RulesKnown ==
    RulesPending \/ /\ \A c \in Callers : k[c].pc = "swap" => k[c].rules = ignored
                    /\ (\A c \in Callers : k[c].pc # "swap") => rules = ignored

\* The index does not say of p what the worktree does.
Wrong(p) ==
    \/ m.ent[p] # 0 /\ ~(Allowed(ignored, p) /\ fs[p] # 0)
    \/ Allowed(ignored, p) /\ Fits(p) /\ m.ent[p] # fs[p]

InFlush(p) ==
    \E c \in Callers :
        \/ flush[c].pc = "full"
        \/ flush[c].pc = "remove" /\ (p \in flush[c].add \/ (p \in flush[c].del /\ fs[p] = 0))
        \/ flush[c].pc = "ensure" /\ p \in flush[c].add
InQueue(p) == \E r \in Request : Asked(r) /\ (r.full \/ p \in r.paths)
InWork(p) == w.pc \in {"walk", "prune"} \/ (Looping /\ p \in w.todo)

Waiting(p) == RulesPending \/ Pending(p) \/ InFlush(p) \/ InQueue(p) \/ InWork(p)
WrongAreWaiting == \A p \in Paths : Wrong(p) => Waiting(p)

\* What the worker has read is current, and what it has counted adds up.
Moved(p) == Pending(p) \/ RulesPending
PassKnows ==
    /\ w.pc \in {"walk", "prune"} => w.full
    /\ w.pc = "prune" =>
         \A p \in Paths \ w.todo : Allowed(ignored, p) /\ Fits(p) => Moved(p)
    /\ w.pc \in {"work", "writing"} =>
         \E p \in w.todo : /\ w.cur = {p} /\ w.had = SizeOf(p, m.ent[p])
                           /\ fs[p] # w.ver => Pending(p)
                           /\ w.pc = "writing" => Allowed(rules, p)
    /\ w.full /\ (w.pc = "prune" \/ Looping) => \A p \in w.todo : Allowed(rules, p)
    /\ Looping => w.local = m.total /\ (~w.full => w.rules = rules)
    /\ w.pc \in {"marshal", "publish"} => w.after = "finish" \/ (w.after = "next" /\ w.full)

GitInv == GitTyped /\ InTurn /\ RemovedAreGone /\ RulesKnown /\ WrongAreWaiting /\ PassKnows

-----------------------------------------------------------------------------
(* Sizes                                                                    *)

LEMMA BytesOfOne ==
  ASSUME ManifestOK(m), NEW p \in Paths
  PROVE  /\ Bytes(m.ent, {p}) = SizeOf(p, m.ent[p])
         /\ Bytes(m.ent, {q \in {p} : m.ent[q] # 0}) = SizeOf(p, m.ent[p])
<1> DEFINE e == m.ent
<1>1. e \in Entries
  BY DEF ManifestOK, Entries
<1> HIDE DEF e
<1>2. ASSUME NEW S, S \subseteq Paths
      PROVE  /\ Summands(Weights(e), S) /\ IsFiniteSet(S)
             /\ Bytes(e, S) = SumOver(Weights(e), S) /\ Bytes(e, S) \in Nat
  BY <1>1, <1>2, WeightsAreSummands, BytesIsSum, BytesAreNatural
<1>3. Bytes(e, {}) = 0
  <2>1. SumOver(Weights(e), {}) = 0
    BY <1>2, SumOfZeros
  <2> QED BY <1>2, <2>1
<1>4. Weights(e)[p] = SizeOf(p, e[p]) /\ SizeOf(p, e[p]) \in Nat
  BY <1>1, WeightsAreSummands
<1>5. Bytes(e, {p}) = SizeOf(p, e[p])
  <2>1. {p} \subseteq Paths /\ {p} \ {p} = {} /\ p \in {p}
    OBVIOUS
  <2>2. SumOver(Weights(e), {p}) = Weights(e)[p] + SumOver(Weights(e), {p} \ {p})
    BY <1>2, <2>1, SumWithout
  <2> QED BY <1>2, <1>3, <1>4, <2>1, <2>2
<1>6. CASE e[p] = 0
  <2>1. {q \in {p} : e[q] # 0} = {} /\ SizeOf(p, e[p]) = 0
    BY <1>6 DEF SizeOf
  <2> QED BY <1>3, <1>5, <2>1 DEF e
<1>7. CASE e[p] # 0
  <2>1. {q \in {p} : e[q] # 0} = {p}
    BY <1>7
  <2> QED BY <1>5, <2>1 DEF e
<1> QED BY <1>6, <1>7

\* Nothing is ever rejected for want of room.
LEMMA EverythingFits ==
  ASSUME Roomy, ManifestOK(m), TotalOK(m), NEW p \in Paths, NEW v \in 0..MaxVersion
  PROVE  /\ m.total - SizeOf(p, m.ent[p]) + SizeOf(p, v) <= MaxTotalBytes
         /\ m.total \in Nat /\ SizeOf(p, m.ent[p]) \in Nat /\ SizeOf(p, v) \in Nat
<1>1. m.ent \in Entries /\ m.ent \in [Paths -> 0..MaxVersion] /\ m.total = Bytes(m.ent, Paths)
  BY DEF ManifestOK, Entries, TotalOK
<1>2. [m.ent EXCEPT ![p] = v] \in [Paths -> 0..MaxVersion]
  BY <1>1
<1>3. Bytes([m.ent EXCEPT ![p] = v], Paths) <= MaxTotalBytes
  BY <1>2 DEF Roomy
<1>4. m.total \in Nat /\ SizeOf(p, m.ent[p]) \in Nat /\ SizeOf(p, v) \in Nat
  BY <1>1, TotalsAreNumbers, SizesAreNatural
<1> QED BY <1>1, <1>3, <1>4, BytesOfStored

-----------------------------------------------------------------------------
(* The user: what is touched is not what the last poll recorded.            *)

\* What may happen to the worktree while the index and the monitor stand still.
Touched ==
    /\ UserTyped' /\ \A p \in Paths : clock[p] <= clock'[p]
    /\ UNCHANGED <<index, monitor, askers>>
    /\ \A p \in Paths : (fs'[p] = fs[p] /\ head'[p] = head[p]) \/ Unnoticed(p)'
    /\ ignored' = ignored \/ Unnoticed(RulesFile)'

LEMMA UserTouches ==
  ASSUME ~Hasty, UserTyped, MonitorTyped, GitUser
  PROVE  Touched
<1>0. MaxVersion \in Nat \ {0} /\ Indexable \subseteq Paths /\ RulesFile \in Paths
  BY SizesAssumption, ActorsAssumption, GitAssumption
<1>1. ASSUME NEW p \in Paths, Edit(p) PROVE Touched
  BY <1>0, <1>1 DEF Touched, Edit, UserWrite, UserTyped, MonitorTyped, Marks, Unnoticed,
     Now, Reported,
     Operation, Fingerprint, Clean, index, monitor
<1>2. ASSUME NEW p \in Paths, Delete(p) PROVE Touched
  BY <1>0, <1>2 DEF Touched, Delete, UserDelete, UserTyped, MonitorTyped, Marks, Unnoticed,
     Now, Reported,
     Operation, Fingerprint, Clean, index, monitor, Noticed
<1>3. ASSUME NEW p \in Paths, Revert(p) PROVE Touched
  BY <1>0, <1>3 DEF Touched, Revert, UserTyped, MonitorTyped, Marks, Unnoticed, Now, Reported,
     Operation, Fingerprint, Clean, index, monitor, Noticed
<1>4. ASSUME NEW p \in Paths, Commit(p) PROVE Touched
  BY <1>0, <1>4 DEF Touched, Commit, user, UserTyped, MonitorTyped, Marks, Unnoticed, Now,
     Reported,
     Operation, Fingerprint, Clean, index, monitor, Noticed
<1>5. ASSUME NEW S \in SUBSET Indexable, EditRules(S) PROVE Touched
  BY <1>0, <1>5 DEF Touched, EditRules, UserTyped, MonitorTyped, Marks, Unnoticed, Now,
     Reported,
     Operation, Fingerprint, Clean, index, monitor
<1> QED BY <1>1, <1>2, <1>3, <1>4, <1>5 DEF GitUser

LEMMA IndexUntouched ==
  ASSUME Touched
  PROVE  UNCHANGED <<m, w, queue, askers, rules, k, flush, statusPaths, poll, pendingAdd,
                     pendingDel, timer>>
  BY DEF Touched, index, monitor, store

LEMMA TouchedIsPending ==
  ASSUME Touched
  PROVE  /\ \A p \in Paths : (fs'[p] = fs[p] /\ Pending(p)' = Pending(p)) \/ Pending(p)'
         /\ RulesPending => RulesPending'
         /\ ignored' = ignored \/ RulesPending'
<1>1. UNCHANGED <<flush, statusPaths, pendingAdd, pendingDel>>
  BY IndexUntouched
<1>2. ASSUME NEW p \in Paths, ~Pending(p)'
      PROVE  fs'[p] = fs[p] /\ ~Pending(p)
  <2>1. ~Unnoticed(p)'
    BY <1>2 DEF Pending
  <2>2. fs'[p] = fs[p] /\ head'[p] = head[p]
    BY <2>1 DEF Touched
  <2> QED BY <1>1, <1>2, <2>2 DEF Pending, Unnoticed, Now, Reported, Operation, Fingerprint
<1>3. RulesFile \in Paths
  BY GitAssumption
<1>4. RulesPending => RulesPending'
  <2>1. CASE Unnoticed(RulesFile)'
    BY <2>1 DEF RulesPending
  <2>2. CASE fs'[RulesFile] = fs[RulesFile] /\ head'[RulesFile] = head[RulesFile]
    BY <1>1, <2>2 DEF RulesPending, Unnoticed, Now, Reported, Operation, Fingerprint
  <2> QED BY <1>3, <2>1, <2>2 DEF Touched
<1>5. ignored' = ignored \/ RulesPending'
  BY DEF Touched, RulesPending
<1> QED BY <1>2, <1>4, <1>5 DEF Pending

LEMMA UserKeeps ==
  ASSUME GitInv, Touched
  PROVE  GitInv'
<1>0. GitTyped /\ InTurn /\ RemovedAreGone /\ RulesKnown /\ WrongAreWaiting /\ PassKnows
  BY DEF GitInv
<1>1. UNCHANGED <<m, w, queue, askers, rules, k, flush, statusPaths, poll, pendingAdd,
                  pendingDel, timer>>
  BY IndexUntouched
<1>2. \A p \in Paths :
        \/ fs'[p] = fs[p] /\ ignored' = ignored /\ ~Pending(p)
        \/ Pending(p)' \/ RulesPending'
  BY TouchedIsPending
<1>3. \A p \in Paths : fs'[p] = fs[p] \/ Pending(p)'
  BY TouchedIsPending
<1>4. \A p \in Paths : Pending(p) => Pending(p)'
  BY TouchedIsPending DEF Pending
<1>5. RulesPending => RulesPending'
  BY TouchedIsPending
<1>6. GitTyped'
  <2>1. \A p \in Paths : statusPaths[p].ver <= clock'[p]
    <3> SUFFICES ASSUME NEW p \in Paths PROVE statusPaths[p].ver <= clock'[p]
      OBVIOUS
    <3>1. statusPaths[p].ver \in Nat /\ clock[p] \in Nat /\ clock'[p] \in Nat
      BY <1>0, SizesAssumption DEF GitTyped, MonitorTyped, Marks, UserTyped, Touched
    <3> QED BY <1>0, <3>1 DEF GitTyped, MonitorTyped, Touched
  <2> QED BY <1>0, <1>1, <2>1 DEF GitTyped, WorkerTyped, MonitorTyped, FlushTyped, StoreTyped,
             TotalOK, Touched
<1>7. InTurn'
  BY <1>0, <1>1 DEF InTurn, Quiet, Awaited, Served, Asked, InStep
<1>8. RemovedAreGone'
  BY <1>0, <1>1, <1>3, <1>4 DEF RemovedAreGone, GitTyped, MonitorTyped, FlushTyped
<1>9. RulesKnown'
  BY <1>0, <1>1, <1>5, TouchedIsPending DEF RulesKnown
<1>10. WrongAreWaiting'
  <2> SUFFICES ASSUME NEW p \in Paths, Wrong(p)', ~Pending(p)', ~RulesPending'
               PROVE  Waiting(p)'
    BY DEF WrongAreWaiting, Waiting
  <2>1. fs'[p] = fs[p] /\ ignored' = ignored /\ ~Pending(p) /\ ~RulesPending
    BY <1>2, <1>5
  <2>2. Wrong(p)
    BY <1>1, <2>1 DEF Wrong, Fits
  <2>3. InFlush(p) \/ InQueue(p) \/ InWork(p)
    BY <1>0, <2>1, <2>2 DEF WrongAreWaiting, Waiting
  <2>4. InFlush(p)' \/ InQueue(p)' \/ InWork(p)'
    BY <1>1, <2>1, <2>3 DEF InFlush, InQueue, InWork, Asked, Looping
  <2> QED BY <2>4 DEF Waiting
<1>11. PassKnows'
  <2>1. ASSUME w.pc = "prune", NEW p \in Paths \ w.todo, Allowed(ignored', p), Fits(p)'
        PROVE  Moved(p)'
    <3>1. CASE fs'[p] = fs[p] /\ ignored' = ignored /\ ~Pending(p)
      <4>1. Fits(p)
        BY <2>1, <3>1 DEF Fits
      <4>2. Moved(p)
        BY <1>0, <2>1, <3>1, <4>1 DEF PassKnows
      <4> QED BY <1>5, <3>1, <4>2 DEF Moved
    <3> QED BY <1>2, <2>1, <3>1 DEF Moved
  <2>2. \A p \in Paths : Pending(p)' \/ (fs'[p] = fs[p] /\ (Pending(p) => Pending(p)'))
    BY <1>3, <1>4
  <2>3. w.todo \subseteq Paths
    BY <1>0 DEF GitTyped, WorkerTyped
  <2>4. w.pc \in {"work", "writing"} =>
         \E p \in w.todo : /\ w.cur = {p} /\ w.had = SizeOf(p, m.ent[p])
                           /\ fs'[p] # w.ver => Pending(p)'
                           /\ w.pc = "writing" => Allowed(rules, p)
    BY <1>0, <2>2, <2>3 DEF PassKnows
  <2> QED BY <1>0, <1>1, <2>1, <2>4 DEF PassKnows, Looping
<1> QED BY <1>6, <1>7, <1>8, <1>9, <1>10, <1>11 DEF GitInv

-----------------------------------------------------------------------------
(* The poll: what it takes for seen it puts into the sets of the monitor.   *)

\* The index, the files and the flushes stand still.
OnlyMonitor == UNCHANGED <<m, w, queue, askers, rules, k, flush, fs, clock, ignored, head>>

LEMMA PollIsSmall ==
  ASSUME PollStep
  PROVE  OnlyMonitor
  BY DEF PollStep, PollStatus, PollUpdate, OnlyMonitor, vars, store, user

LEMMA PollTyped ==
  ASSUME UserTyped, MonitorTyped, PollStep
  PROVE  MonitorTyped'
<1>0. /\ statusPaths \in [Paths -> Marks] /\ pendingAdd \subseteq Paths
      /\ pendingDel \subseteq Paths
      /\ poll \in [pc : {"idle", "stat"}, add : SUBSET Paths, del : SUBSET Paths]
      /\ timer \in BOOLEAN /\ (pendingAdd \union pendingDel # {} => timer)
      /\ fs \in [Paths -> 0..MaxVersion] /\ clock \in [Paths -> 0..MaxVersion]
      /\ \A p \in Paths : fs[p] <= clock[p] /\ statusPaths[p].ver <= clock[p]
  BY DEF MonitorTyped, UserTyped
<1>1. CASE PollStatus
  <2>1. /\ UNCHANGED <<statusPaths, pendingAdd, pendingDel, timer, clock>>
        /\ poll' \in [pc : {"idle", "stat"}, add : SUBSET Paths, del : SUBSET Paths]
    BY <1>1 DEF PollStatus, vars, user
  <2> QED BY <1>0, <2>1 DEF MonitorTyped
<1>2. CASE PollUpdate
  <2>1. MaxVersion \in Nat
    BY SizesAssumption
  <2>2. /\ statusPaths' = Current /\ clock' = clock /\ poll' = NoPoll
        /\ pendingAdd' = pendingAdd \union {p \in poll.add : statusPaths[p] # Current[p]}
                                    \union {p \in NoLongerDirty : fs[p] # 0}
        /\ pendingDel' = pendingDel \union {p \in poll.del : statusPaths[p] # Current[p]}
                                    \union {p \in NoLongerDirty : fs[p] = 0}
        /\ timer' = (timer \/ pendingAdd' # {} \/ pendingDel' # {})
    BY <1>2 DEF PollUpdate, vars, user
  <2>3. \A p \in Paths : Current[p] \in Marks /\ Current[p].ver <= clock[p]
    BY <1>0, <2>1 DEF Current, Fingerprint, Clean, Marks
  <2>4. Current \in [Paths -> Marks]
    BY <2>3 DEF Current
  <2>5. pendingAdd' \subseteq Paths /\ pendingDel' \subseteq Paths
    BY <1>0, <2>2 DEF NoLongerDirty
  <2>6. NoPoll \in [pc : {"idle", "stat"}, add : SUBSET Paths, del : SUBSET Paths]
    BY DEF NoPoll
  <2>7. timer' \in BOOLEAN /\ (pendingAdd' \union pendingDel' # {} => timer')
    BY <1>0, <2>2
  <2> QED BY <2>2, <2>3, <2>4, <2>5, <2>6, <2>7 DEF MonitorTyped
<1> QED BY <1>1, <1>2 DEF PollStep

LEMMA SeenIsPending ==
  ASSUME MonitorTyped, PollStep
  PROVE  /\ \A p \in Paths : Pending(p) => Pending(p)'
         /\ \A p \in Paths :
              Unnoticed(p) => Unnoticed(p)' \/ p \in pendingAdd' \union pendingDel'
         /\ \A p \in pendingDel' \ pendingDel : Pending(p)'
         /\ pendingAdd \subseteq pendingAdd' /\ pendingDel \subseteq pendingDel'
<1>0. UNCHANGED <<fs, head>>
  BY PollIsSmall DEF OnlyMonitor
<1>1. CASE PollStatus
  <2>1. UNCHANGED <<statusPaths, pendingAdd, pendingDel>>
    BY <1>1 DEF PollStatus
  <2> QED BY <1>0, <2>1 DEF Pending, Unnoticed, Now, Reported, Operation, Fingerprint
<1>2. CASE PollUpdate
  <2>1. /\ statusPaths' = Current
        /\ pendingAdd' = pendingAdd \union {p \in poll.add : statusPaths[p] # Current[p]}
                                    \union {p \in NoLongerDirty : fs[p] # 0}
        /\ pendingDel' = pendingDel \union {p \in poll.del : statusPaths[p] # Current[p]}
                                    \union {p \in NoLongerDirty : fs[p] = 0}
    BY <1>2 DEF PollUpdate
  <2>2. pendingDel \subseteq Paths /\ poll.del \subseteq Paths /\ NoLongerDirty \subseteq Paths
    BY DEF MonitorTyped, NoLongerDirty
  <2>3. ASSUME NEW p \in Paths
        PROVE  Unnoticed(p)' <=> Current[p] # Now(p)
    BY <1>0, <2>1 DEF Unnoticed, Now, Reported, Operation, Fingerprint
  <2>4. ASSUME NEW p \in Paths, Current[p] = Now(p), statusPaths[p] # Now(p)
        PROVE  p \in pendingAdd' \/ (fs[p] = 0 /\ p \in pendingDel')
    <3>1. CASE p \in poll.add
      BY <2>1, <2>4, <3>1
    <3>2. CASE p \in poll.del /\ p \notin poll.add
      <4>1. Current[p] = [op |-> "d", ver |-> fs[p]]
        BY <3>2 DEF Current, Fingerprint
      <4>2. fs[p] = 0
        BY <2>4, <4>1 DEF Now, Fingerprint, Operation, Clean
      <4> QED BY <2>1, <2>4, <3>2, <4>2
    <3>3. CASE p \notin poll.del /\ p \notin poll.add
      <4>1. Current[p] = Clean
        BY <3>3 DEF Current
      <4>2. p \in NoLongerDirty
        BY <2>4, <4>1 DEF NoLongerDirty
      <4> QED BY <2>1, <4>2
    <3> QED BY <3>1, <3>2, <3>3
  <2>5. ASSUME NEW p \in pendingDel' \ pendingDel PROVE Pending(p)'
    <3>1. p \in Paths
      BY <2>1, <2>2, <2>5
    <3>2. CASE fs[p] = 0
      BY <1>0, <2>5, <3>2 DEF Pending
    <3>3. CASE fs[p] # 0
      <4>1. p \in poll.del
        BY <2>1, <2>5, <3>3
      <4>2. CASE p \in poll.add
        <5>1. p \in pendingAdd'
          BY <2>1, <2>5, <3>3, <4>1, <4>2
        <5> QED BY <5>1 DEF Pending
      <4>3. CASE p \notin poll.add
        <5>1. Current[p] = [op |-> "d", ver |-> fs[p]]
          BY <3>1, <4>1, <4>3 DEF Current, Fingerprint
        <5>2. Current[p] # Now(p)
          BY <3>3, <5>1 DEF Now, Fingerprint, Operation, Clean
        <5> QED BY <2>3, <3>1, <5>2 DEF Pending
      <4> QED BY <4>2, <4>3
    <3> QED BY <3>2, <3>3
  <2>6. ASSUME NEW p \in Paths, Unnoticed(p)
        PROVE  /\ Unnoticed(p)' \/ p \in pendingAdd' \union pendingDel'
               /\ Pending(p)'
    <3>1. CASE Current[p] # Now(p)
      BY <2>3, <3>1 DEF Pending
    <3>2. CASE Current[p] = Now(p)
      BY <1>0, <2>4, <2>6, <3>2 DEF Pending, Unnoticed
    <3> QED BY <3>1, <3>2
  <2>7. pendingAdd \subseteq pendingAdd' /\ pendingDel \subseteq pendingDel'
    BY <2>1
  <2>8. \A p \in Paths : Pending(p) => Pending(p)'
    BY <1>0, <2>6, <2>7 DEF Pending
  <2> QED BY <2>5, <2>6, <2>7, <2>8
<1> QED BY <1>1, <1>2 DEF PollStep

LEMMA PollKeeps ==
  ASSUME GitInv, PollStep
  PROVE  GitInv'
<1>0. GitTyped /\ InTurn /\ RemovedAreGone /\ RulesKnown /\ WrongAreWaiting /\ PassKnows
  BY DEF GitInv
<1>1. UNCHANGED <<m, w, queue, askers, rules, k, flush, fs, clock, ignored, head>>
  BY PollIsSmall DEF OnlyMonitor
<1>2. \A p \in Paths : Pending(p) => Pending(p)'
  BY <1>0, SeenIsPending DEF GitTyped
<1>3. RulesPending => RulesPending'
  <2>1. RulesFile \in Paths
    BY GitAssumption
  <2>2. /\ Unnoticed(RulesFile) =>
               Unnoticed(RulesFile)' \/ RulesFile \in pendingAdd' \union pendingDel'
        /\ pendingAdd \subseteq pendingAdd' /\ pendingDel \subseteq pendingDel'
    BY <1>0, <2>1, SeenIsPending DEF GitTyped
  <2> QED BY <1>1, <2>2 DEF RulesPending
<1>4. GitTyped'
  <2>1. MonitorTyped'
    BY <1>0, PollTyped DEF GitTyped
  <2> QED BY <1>0, <1>1, <2>1 DEF GitTyped, WorkerTyped, UserTyped, FlushTyped, StoreTyped,
          TotalOK
<1>5. InTurn'
  BY <1>0, <1>1 DEF InTurn, Quiet, Awaited, Served, Asked, InStep
<1>6. RemovedAreGone'
  <2>1. \A p \in pendingDel' : Pending(p)'
    <3>1. \A p \in pendingDel' \ pendingDel : Pending(p)'
      BY <1>0, SeenIsPending DEF GitTyped
    <3>2. \A p \in pendingDel : p \in Paths /\ Pending(p)
      BY <1>0 DEF RemovedAreGone, GitTyped, MonitorTyped
    <3> QED BY <1>2, <3>1, <3>2
  <2>2. ASSUME NEW c \in Callers, flush[c].pc = "remove", NEW p \in flush[c].del
        PROVE  fs[p] = 0 \/ p \in flush[c].add \/ Pending(p)'
    <3>1. p \in Paths
      BY <1>0, <2>2 DEF GitTyped, FlushTyped
    <3>2. fs[p] = 0 \/ p \in flush[c].add \/ Pending(p)
      BY <1>0, <2>2 DEF RemovedAreGone
    <3> QED BY <1>2, <3>1, <3>2
  <2> QED BY <1>1, <2>1, <2>2 DEF RemovedAreGone
<1>7. RulesKnown'
  BY <1>0, <1>1, <1>3 DEF RulesKnown
<1>8. WrongAreWaiting'
  <2> SUFFICES ASSUME NEW p \in Paths, Wrong(p)', ~Pending(p)', ~RulesPending'
               PROVE  Waiting(p)'
    BY DEF WrongAreWaiting, Waiting
  <2>1. ~Pending(p) /\ ~RulesPending
    BY <1>2, <1>3
  <2>2. Wrong(p)
    BY <1>1 DEF Wrong, Fits
  <2>3. InFlush(p) \/ InQueue(p) \/ InWork(p)
    BY <1>0, <2>1, <2>2 DEF WrongAreWaiting, Waiting
  <2>4. InFlush(p)' \/ InQueue(p)' \/ InWork(p)'
    BY <1>1, <2>3 DEF InFlush, InQueue, InWork, Asked, Looping
  <2> QED BY <2>4 DEF Waiting
<1>9. PassKnows'
  <2>1. w.todo \subseteq Paths
    BY <1>0 DEF GitTyped, WorkerTyped
  <2>2. ASSUME w.pc = "prune", NEW p \in Paths \ w.todo, Allowed(ignored', p), Fits(p)'
        PROVE  Moved(p)'
    <3>1. Moved(p)
      BY <1>0, <1>1, <2>2 DEF PassKnows, Fits
    <3> QED BY <1>2, <1>3, <3>1 DEF Moved
  <2>3. w.pc \in {"work", "writing"} =>
         \E p \in w.todo : /\ w.cur = {p} /\ w.had = SizeOf(p, m.ent[p])
                           /\ fs[p] # w.ver => Pending(p)'
                           /\ w.pc = "writing" => Allowed(rules, p)
    BY <1>0, <1>2, <2>1 DEF PassKnows
  <2> QED BY <1>0, <1>1, <2>2, <2>3 DEF PassKnows, Looping
<1> QED BY <1>4, <1>5, <1>6, <1>7, <1>8, <1>9 DEF GitInv

-----------------------------------------------------------------------------
(* The flush: it takes the sets, and its request takes them on.             *)

LEMMA QuietUnlessAwaited ==
  ASSUME OneFlush, InTurn, NEW c \in Callers, flush[c].pc # "wait"
  PROVE  Quiet
  BY DEF OneFlush, InTurn, Awaited

LEMMA NothingInWork ==
  ASSUME Quiet
  PROVE  /\ ~Looping /\ w.pc \notin {"prune", "work", "writing", "marshal", "publish", "walk"}
         /\ \A p : ~InQueue(p) /\ ~InWork(p)
  BY DEF Quiet, Looping, InQueue, InWork, Asked

LEMMA IdleKnows ==
  ASSUME w.pc = "idle"
  PROVE  PassKnows
  BY DEF PassKnows, Looping

\* What every step of a flush leaves alone.
LEMMA FlushIsSmall ==
  ASSUME NEW c \in Callers, FlushStart(c) \/ FlushStep(c)
  PROVE  UNCHANGED <<w, fs, clock, ignored, head, statusPaths, poll>>
<1>1. CASE FlushStart(c)
  BY <1>1 DEF FlushStart, vars, user
<1>2. CASE FlushRemove(c)
  BY <1>2 DEF FlushRemove, RemovePaths, FlushKeeps, CallerKeeps, user
<1>3. CASE FlushEnsure(c)
  BY <1>3 DEF FlushEnsure, EnsureIndexed, Submit, FlushKeeps, user
<1>4. CASE FlushAll(c)
  BY <1>4 DEF FlushAll, LoadRules, FlushKeeps, CallerKeeps, user
<1>5. CASE FlushFull(c)
  BY <1>5 DEF FlushFull, SubmitRequest, Submit, FlushKeeps, user
<1>6. CASE FlushEnd(c)
  BY <1>6 DEF FlushEnd, FlushKeeps, vars, user
<1>7. CASE IndexStep(c)
  BY <1>7 DEF IndexStep, CMarshal, CPublish, SwapRules, CallerKeeps, user, monitor
<1> QED BY <1>1, <1>2, <1>3, <1>4, <1>5, <1>6, <1>7 DEF FlushStep

\* A step of a flush that keeps its place keeps what is known of the pending changes.
LEMMA PendingKept ==
  ASSUME UNCHANGED <<fs, head, statusPaths, pendingAdd, pendingDel>>
  PROVE  /\ \A p : Unnoticed(p)' = Unnoticed(p) /\ Pending(p)' = Pending(p)
  BY DEF Pending, Unnoticed, Now, Reported, Operation, Fingerprint

LEMMA StartKeeps ==
  ASSUME OneFlush, GitInv, NEW c \in Callers, FlushStart(c)
  PROVE  GitInv'
<1> DEFINE new == FlushOf(pendingAdd, pendingDel)
<1>0. GitTyped /\ InTurn /\ RemovedAreGone /\ RulesKnown /\ WrongAreWaiting
  BY DEF GitInv
<1>1. /\ UNCHANGED <<w, fs, clock, ignored, head, statusPaths, poll>>
      /\ UNCHANGED <<m, rules, k, queue, askers>>
  BY FlushIsSmall DEF FlushStart, vars, store
<1>2. /\ flush[c].pc = "idle" /\ flush' = [flush EXCEPT ![c] = new]
      /\ pendingAdd' = {} /\ pendingDel' = {} /\ timer' = FALSE
  BY DEF FlushStart
<1>3. Quiet /\ Quiet'
  BY <1>0, <1>1, <1>2, QuietUnlessAwaited DEF Quiet
<1>4. /\ new.add = pendingAdd /\ new.del = pendingDel
      /\ new.pc \in {"all", "remove", "ensure"}
      /\ (RulesFile \in pendingAdd \union pendingDel) => new.pc = "all"
      /\ new.pc = "remove" => pendingDel # {}
      /\ new.pc = "ensure" => pendingDel = {}
      /\ new \in [pc : FlushStates, add : SUBSET Paths, del : SUBSET Paths]
  BY <1>0 DEF FlushOf, GitTyped, MonitorTyped, FlushStates
<1> HIDE DEF new
<1>5. /\ flush' \in [Callers -> [pc : FlushStates, add : SUBSET Paths, del : SUBSET Paths]]
      /\ flush'[c] = new /\ \A d \in Callers : d = c
  BY <1>0, <1>2, <1>4 DEF GitTyped, FlushTyped, OneFlush
<1>6. GitTyped'
  BY <1>0, <1>1, <1>2, <1>5 DEF GitTyped, WorkerTyped, UserTyped, MonitorTyped, FlushTyped,
     StoreTyped, TotalOK
<1>7. InTurn'
  BY <1>0, <1>1, <1>2, <1>3, <1>4, <1>5 DEF InTurn, InStep
<1>8. \A p : Unnoticed(p)' = Unnoticed(p)
  BY <1>1 DEF Unnoticed, Now, Reported, Operation, Fingerprint
<1>9. RemovedAreGone'
  BY <1>0, <1>1, <1>2, <1>4, <1>5, <1>8 DEF RemovedAreGone, Pending
<1>10. RulesPending => RulesPending'
  BY <1>2, <1>4, <1>5, <1>8 DEF RulesPending
<1>11. RulesKnown'
  BY <1>0, <1>1, <1>10 DEF RulesKnown
<1>12. WrongAreWaiting'
  <2> SUFFICES ASSUME NEW p \in Paths, Wrong(p)', ~RulesPending' PROVE Waiting(p)'
    BY DEF WrongAreWaiting, Waiting
  <2>1. Wrong(p) /\ ~RulesPending
    BY <1>1, <1>10 DEF Wrong, Fits
  <2>2. new.pc # "all"
    BY <1>5 DEF RulesPending
  <2>3. ~InFlush(p)
    BY <1>2, <1>5 DEF InFlush
  <2>4. Pending(p)
    BY <1>0, <1>3, <2>1, <2>3, NothingInWork DEF WrongAreWaiting, Waiting
  <2>5. Unnoticed(p)' \/ InFlush(p)'
    BY <1>1, <1>4, <1>5, <1>8, <2>2, <2>4 DEF Pending, InFlush
  <2> QED BY <2>5 DEF Waiting, Pending
<1>13. PassKnows'
  BY <1>3, IdleKnows DEF Quiet, PassKnows, Looping
<1> QED BY <1>6, <1>7, <1>9, <1>11, <1>12, <1>13 DEF GitInv

\* What a flush and its goroutine come to, when neither rules nor sets change.
LEMMA FlushMoves ==
  ASSUME OneFlush, GitInv, NEW c \in Callers, NEW f, NEW g,
         flush' = [flush EXCEPT ![c] = f], k' = [k EXCEPT ![c] = g],
         f \in [pc : FlushStates, add : SUBSET Paths, del : SUBSET Paths], g \in CallerRecord,
         UNCHANGED <<w, fs, clock, ignored, head, statusPaths, poll, pendingAdd, pendingDel,
                     timer>>
  PROVE  /\ flush'[c] = f /\ k'[c] = g /\ \A d \in Callers : d = c
         /\ FlushTyped' /\ UserTyped' /\ MonitorTyped' /\ WorkerTyped'
         /\ \A p : Unnoticed(p)' = Unnoticed(p) /\ Pending(p)' = Pending(p)
         /\ \A d \in Callers : flush[d] = flush[c] /\ k[d] = k[c]
<1>1. GitTyped
  BY DEF GitInv
<1>2. flush'[c] = f /\ k'[c] = g /\ (\A d \in Callers : d = c) /\ FlushTyped'
  BY <1>1 DEF GitTyped, FlushTyped, OneFlush
<1>3. UserTyped' /\ MonitorTyped' /\ WorkerTyped'
  BY <1>1 DEF GitTyped, UserTyped, MonitorTyped, WorkerTyped
<1>4. \A p : Unnoticed(p)' = Unnoticed(p) /\ Pending(p)' = Pending(p)
  BY PendingKept
<1> QED BY <1>2, <1>3, <1>4

LEMMA GoesTo ==
  ASSUME FlushTyped, NEW c \in Callers, NEW pc \in FlushStates, Goes(c, pc)
  PROVE  /\ flush' = [flush EXCEPT ![c] = [flush[c] EXCEPT !.pc = pc]]
         /\ [flush[c] EXCEPT !.pc = pc] \in
              [pc : FlushStates, add : SUBSET Paths, del : SUBSET Paths]
         /\ [flush[c] EXCEPT !.pc = pc].pc = pc
         /\ [flush[c] EXCEPT !.pc = pc].add = flush[c].add
         /\ [flush[c] EXCEPT !.pc = pc].del = flush[c].del
<1>1. flush[c] \in [pc : FlushStates, add : SUBSET Paths, del : SUBSET Paths]
  BY DEF FlushTyped
<1> QED BY <1>1 DEF Goes

LEMMA Callees ==
  /\ IdleCaller \in CallerRecord /\ IdleCaller.pc = "idle" /\ IdleCaller.next = "idle"
  /\ \A pc \in CallerStates : /\ [IdleCaller EXCEPT !.pc = pc] \in CallerRecord
                              /\ [IdleCaller EXCEPT !.pc = pc].pc = pc
                              /\ [IdleCaller EXCEPT !.pc = pc].next = "idle"
<1>1. IdleCaller \in CallerRecord
  BY DEF IdleCaller, CallerRecord, CallerStates
<1>2. IdleCaller.pc = "idle" /\ IdleCaller.next = "idle"
  BY DEF IdleCaller
<1> HIDE DEF IdleCaller
<1> QED BY <1>1, <1>2 DEF CallerRecord

LEMMA FlushRemoveKeeps ==
  ASSUME OneFlush, GitInv, NEW c \in Callers, FlushRemove(c)
  PROVE  GitInv'
<1> DEFINE f == [flush[c] EXCEPT !.pc = "ensure"]
           g == [IdleCaller EXCEPT !.pc = "marshal"]
           T == {p \in flush[c].del : m.ent[p] # 0}
<1>0. /\ GitTyped /\ InTurn /\ RemovedAreGone /\ RulesKnown /\ WrongAreWaiting
      /\ FlushTyped /\ ManifestOK(m) /\ TotalOK(m)
  BY DEF GitInv, GitTyped, StoreTyped
<1>1. UNCHANGED <<w, fs, clock, ignored, head, statusPaths, poll, pendingAdd, pendingDel, timer,
                  rules, queue, askers>>
  BY FlushIsSmall DEF FlushStep, FlushRemove, FlushKeeps, RemovePaths, CallerKeeps
<1>2. /\ flush[c].pc = "remove" /\ Goes(c, "ensure") /\ m' = Dropped(m, T)
      /\ k[c].pc = "idle" /\ k' = [k EXCEPT ![c] = g]
  BY DEF FlushRemove, RemovePaths, Begin, DropLocked
<1>3. /\ flush' = [flush EXCEPT ![c] = f] /\ f.pc = "ensure" /\ f.add = flush[c].add
      /\ f \in [pc : FlushStates, add : SUBSET Paths, del : SUBSET Paths]
  BY <1>0, <1>2, GoesTo DEF FlushStates
<1>4. g \in CallerRecord /\ g.pc = "marshal" /\ g.next = "idle"
  BY Callees DEF CallerStates
<1>5. T \subseteq Paths
  BY <1>0 DEF FlushTyped
<1> HIDE DEF f, g, T
<1>6. /\ flush'[c] = f /\ k'[c] = g /\ \A d \in Callers : d = c
      /\ FlushTyped' /\ UserTyped' /\ MonitorTyped' /\ WorkerTyped'
      /\ \A p : Unnoticed(p)' = Unnoticed(p) /\ Pending(p)' = Pending(p)
  BY <1>1, <1>2, <1>3, <1>4, FlushMoves
<1>7. Quiet /\ Quiet'
  BY <1>0, <1>1, <1>2, QuietUnlessAwaited DEF Quiet
<1>8. ManifestOK(m') /\ TotalOK(m')
  BY <1>0, <1>2, <1>5, DroppedOK, DroppedTotal
<1>9. GitTyped'
  BY <1>0, <1>1, <1>6, <1>8 DEF GitTyped, StoreTyped
<1>10. InTurn'
  BY <1>3, <1>4, <1>6, <1>7 DEF InTurn, InStep
<1>11. RemovedAreGone'
  BY <1>0, <1>1, <1>3, <1>6 DEF RemovedAreGone
<1>12. RulesPending' = RulesPending
  BY <1>1, <1>2, <1>3, <1>6 DEF RulesPending
<1>13. RulesKnown'
  BY <1>0, <1>1, <1>2, <1>4, <1>6, <1>12 DEF RulesKnown
<1>14. WrongAreWaiting'
  <2> SUFFICES ASSUME NEW p \in Paths, Wrong(p)', ~Pending(p)', ~RulesPending'
               PROVE  p \in flush[c].add
    BY <1>3, <1>6 DEF WrongAreWaiting, Waiting, InFlush
  <2>1. ~Pending(p) /\ ~RulesPending
    BY <1>6, <1>12
  <2>2. m'.ent[p] = IF p \in T THEN 0 ELSE m.ent[p]
    BY <1>2 DEF Dropped
  <2>3. CASE p \in T
    <3>1. fs[p] # 0
      BY <1>1, <2>2, <2>3 DEF Wrong, Fits
    <3>2. p \in flush[c].del
      BY <2>3 DEF T
    <3> QED BY <1>0, <1>2, <2>1, <3>1, <3>2 DEF RemovedAreGone
  <2>4. CASE p \notin T
    <3>1. Wrong(p)
      BY <1>1, <2>2, <2>4 DEF Wrong, Fits
    <3>2. InFlush(p)
      BY <1>0, <1>7, <2>1, <3>1, NothingInWork DEF WrongAreWaiting, Waiting
    <3>3. p \in flush[c].add \/ (p \in flush[c].del /\ fs[p] = 0)
      BY <1>2, <1>6, <3>2 DEF InFlush
    <3>4. m.ent[p] # 0 \/ fs[p] # 0
      BY <3>1 DEF Wrong, Fits
    <3> QED BY <2>4, <3>3, <3>4 DEF T
  <2> QED BY <2>3, <2>4
<1>15. PassKnows'
  BY <1>7, IdleKnows DEF Quiet, PassKnows, Looping
<1> QED BY <1>9, <1>10, <1>11, <1>13, <1>14, <1>15 DEF GitInv

\* A save, in the middle of a flush.
LEMMA FlushSaveKeeps ==
  ASSUME OneFlush, GitInv, NEW c \in Callers, IndexStep(c), CMarshal(c) \/ CPublish(c)
  PROVE  GitInv'
<1>0. GitTyped /\ InTurn /\ RemovedAreGone /\ RulesKnown /\ WrongAreWaiting /\ FlushTyped
  BY DEF GitInv, GitTyped
<1>1. UNCHANGED <<w, fs, clock, ignored, head, statusPaths, poll, pendingAdd, pendingDel, timer,
                  rules, queue, askers, flush, m>>
  BY FlushIsSmall DEF FlushStep, IndexStep, monitor, CMarshal, CPublish, store
<1>2. PICK g \in CallerRecord :
        /\ k' = [k EXCEPT ![c] = g] /\ g.pc \in {"publish", "idle"} /\ g.next = "idle"
        /\ k[c].pc \in {"marshal", "publish"} /\ flush[c].pc = "ensure"
  <2>1. k[c] \in CallerRecord
    BY <1>0 DEF FlushTyped
  <2>2. k[c].pc \in {"marshal", "publish"} /\ flush[c].pc = "ensure" /\ k[c].next = "idle"
    BY <1>0 DEF CMarshal, CPublish, InTurn, InStep
  <2>3. CASE CMarshal(c)
    <3>1. k' = [k EXCEPT ![c] = [k[c] EXCEPT !.pc = "publish"]]
      BY <2>3 DEF CMarshal
    <3>2. /\ [k[c] EXCEPT !.pc = "publish"] \in CallerRecord
          /\ [k[c] EXCEPT !.pc = "publish"].pc = "publish"
          /\ [k[c] EXCEPT !.pc = "publish"].next = "idle"
      BY <2>1, <2>2 DEF CallerRecord, CallerStates
    <3> QED BY <2>2, <3>1, <3>2
  <2>4. CASE CPublish(c)
    <3>1. k' = [k EXCEPT ![c] = [IdleCaller EXCEPT !.pc = "idle"]]
      BY <2>2, <2>4 DEF CPublish
    <3> QED BY <2>2, <3>1, Callees DEF CallerStates
  <2> QED BY <2>3, <2>4
<1>3. /\ flush' = [flush EXCEPT ![c] = flush[c]]
      /\ flush[c] \in [pc : FlushStates, add : SUBSET Paths, del : SUBSET Paths]
  BY <1>0, <1>1 DEF FlushTyped
<1>4. /\ flush' = flush /\ k'[c] = g /\ \A d \in Callers : d = c
      /\ FlushTyped' /\ UserTyped' /\ MonitorTyped' /\ WorkerTyped'
      /\ \A p : Unnoticed(p)' = Unnoticed(p) /\ Pending(p)' = Pending(p)
  <2> DEFINE f == flush[c]
  <2>1. /\ flush' = [flush EXCEPT ![c] = f] /\ k' = [k EXCEPT ![c] = g]
        /\ f \in [pc : FlushStates, add : SUBSET Paths, del : SUBSET Paths]
    BY <1>2, <1>3
  <2>2. UNCHANGED <<w, fs, clock, ignored, head, statusPaths, poll, pendingAdd, pendingDel,
                   timer>>
    BY <1>1
  <2> HIDE DEF f
  <2>3. /\ k'[c] = g /\ \A d \in Callers : d = c
        /\ FlushTyped' /\ UserTyped' /\ MonitorTyped' /\ WorkerTyped'
        /\ \A p : Unnoticed(p)' = Unnoticed(p) /\ Pending(p)' = Pending(p)
    BY ONLY OneFlush, GitInv, c \in Callers, g \in CallerRecord, <2>1, <2>2, FlushMoves
  <2> QED BY <1>1, <2>3
<1>5. Quiet /\ Quiet'
  BY <1>0, <1>1, <1>2, QuietUnlessAwaited DEF Quiet
<1>6. GitTyped'
  BY <1>0, <1>1, <1>4 DEF GitTyped, StoreTyped, TotalOK
<1>7. InTurn'
  BY <1>2, <1>4, <1>5 DEF InTurn, InStep
<1>8. RemovedAreGone'
  BY <1>0, <1>1, <1>4 DEF RemovedAreGone
<1>9. RulesPending' = RulesPending
  BY <1>1, <1>4 DEF RulesPending
<1>10. RulesKnown'
  BY <1>0, <1>1, <1>2, <1>4, <1>9 DEF RulesKnown
<1>11. WrongAreWaiting'
  BY <1>0, <1>1, <1>4, <1>9 DEF WrongAreWaiting, Waiting, Wrong, Fits, InFlush, InQueue, InWork,
     Looping, Asked
<1>12. PassKnows'
  BY <1>5, IdleKnows DEF Quiet, PassKnows, Looping
<1> QED BY <1>6, <1>7, <1>8, <1>10, <1>11, <1>12 DEF GitInv

LEMMA FlushAllKeeps ==
  ASSUME OneFlush, GitInv, NEW c \in Callers, FlushAll(c)
  PROVE  GitInv'
<1> DEFINE f == [flush[c] EXCEPT !.pc = "full"]
           g == [IdleCaller EXCEPT !.pc = "swap", !.rules = ignored, !.next = "full"]
<1>0. /\ GitTyped /\ InTurn /\ RemovedAreGone /\ RulesKnown /\ WrongAreWaiting
      /\ FlushTyped /\ ignored \subseteq Paths
  BY DEF GitInv, GitTyped, UserTyped
<1>1. UNCHANGED <<w, fs, clock, ignored, head, statusPaths, poll, pendingAdd, pendingDel, timer,
                  rules, queue, askers, m>>
  BY FlushIsSmall DEF FlushStep, FlushAll, FlushKeeps, LoadRules, CallerKeeps, store
<1>2. /\ flush[c].pc = "all" /\ Goes(c, "full")
      /\ k[c].pc = "idle" /\ k' = [k EXCEPT ![c] = g]
  BY DEF FlushAll, LoadRules, Begin
<1>3. /\ flush' = [flush EXCEPT ![c] = f] /\ f.pc = "full"
      /\ f \in [pc : FlushStates, add : SUBSET Paths, del : SUBSET Paths]
  BY <1>0, <1>2, GoesTo DEF FlushStates
<1>4. g \in CallerRecord /\ g.pc = "swap" /\ g.next = "full" /\ g.rules = ignored
  <2>1. IdleCaller \in CallerRecord
    BY Callees
  <2> HIDE DEF IdleCaller
  <2> QED BY <1>0, <2>1 DEF CallerRecord, CallerStates
<1> HIDE DEF f, g
<1>5. /\ flush'[c] = f /\ k'[c] = g /\ \A d \in Callers : d = c
      /\ FlushTyped' /\ UserTyped' /\ MonitorTyped' /\ WorkerTyped'
      /\ \A p : Unnoticed(p)' = Unnoticed(p) /\ Pending(p)' = Pending(p)
  BY <1>1, <1>2, <1>3, <1>4, FlushMoves
<1>6. Quiet /\ Quiet'
  BY <1>0, <1>1, <1>2, QuietUnlessAwaited DEF Quiet
<1>7. GitTyped'
  BY <1>0, <1>1, <1>5 DEF GitTyped, StoreTyped, TotalOK
<1>8. InTurn'
  BY <1>3, <1>4, <1>5, <1>6 DEF InTurn, InStep
<1>9. RemovedAreGone'
  BY <1>0, <1>1, <1>3, <1>5 DEF RemovedAreGone
<1>10. RulesKnown'
  BY <1>1, <1>4, <1>5 DEF RulesKnown
<1>11. \A p : InFlush(p)'
  BY <1>3, <1>5 DEF InFlush
<1>12. WrongAreWaiting'
  BY <1>11 DEF WrongAreWaiting, Waiting
<1>13. PassKnows'
  BY <1>6, IdleKnows DEF Quiet, PassKnows, Looping
<1> QED BY <1>7, <1>8, <1>9, <1>10, <1>12, <1>13 DEF GitInv

LEMMA FlushSwapKeeps ==
  ASSUME OneFlush, GitInv, NEW c \in Callers, IndexStep(c), SwapRules(c)
  PROVE  GitInv'
<1> DEFINE f == flush[c]
           g == [IdleCaller EXCEPT !.pc = "full"]
<1>0. /\ GitTyped /\ InTurn /\ RemovedAreGone /\ RulesKnown /\ WrongAreWaiting
      /\ FlushTyped
  BY DEF GitInv, GitTyped
<1>1. UNCHANGED <<w, fs, clock, ignored, head, statusPaths, poll, pendingAdd, pendingDel, timer,
                  queue, askers, m, flush>>
  BY FlushIsSmall DEF FlushStep, IndexStep, monitor, SwapRules, CallerKeeps, store
<1>2. k[c].pc = "swap" /\ k[c].next = "full" /\ flush[c].pc = "full"
  BY <1>0 DEF SwapRules, InTurn, InStep
<1>3. rules' = k[c].rules /\ k' = [k EXCEPT ![c] = g]
  BY <1>2 DEF SwapRules
<1>4. /\ flush' = [flush EXCEPT ![c] = f] /\ f.pc = "full"
      /\ f \in [pc : FlushStates, add : SUBSET Paths, del : SUBSET Paths]
      /\ k[c].rules \subseteq Paths
  BY <1>0, <1>1, <1>2 DEF FlushTyped, CallerRecord
<1>5. g \in CallerRecord /\ g.pc = "full"
  BY Callees DEF CallerStates
<1> HIDE DEF f, g
<1>6. /\ flush'[c] = f /\ k'[c] = g /\ \A d \in Callers : d = c
      /\ FlushTyped' /\ UserTyped' /\ MonitorTyped' /\ WorkerTyped'
      /\ \A p : Unnoticed(p)' = Unnoticed(p) /\ Pending(p)' = Pending(p)
  <2>1. UNCHANGED <<w, fs, clock, ignored, head, statusPaths, poll, pendingAdd, pendingDel,
                   timer>>
    BY <1>1
  <2> QED BY ONLY OneFlush, GitInv, c \in Callers, <2>1, <1>3, <1>4, <1>5, FlushMoves
<1>7. Quiet /\ Quiet'
  BY <1>0, <1>1, <1>2, QuietUnlessAwaited DEF Quiet
<1>8. GitTyped'
  BY <1>0, <1>1, <1>3, <1>4, <1>6 DEF GitTyped, StoreTyped, TotalOK
<1>9. InTurn'
  BY <1>4, <1>5, <1>6, <1>7 DEF InTurn, InStep
<1>10. RemovedAreGone'
  BY <1>0, <1>1, <1>4, <1>6 DEF RemovedAreGone
<1>11. RulesPending' = RulesPending
  BY <1>1, <1>6 DEF RulesPending
<1>12. RulesKnown'
  BY <1>0, <1>1, <1>2, <1>3, <1>5, <1>6, <1>11 DEF RulesKnown
<1>13. \A p : InFlush(p)'
  BY <1>4, <1>6 DEF InFlush
<1>14. WrongAreWaiting'
  BY <1>13 DEF WrongAreWaiting, Waiting
<1>15. PassKnows'
  BY <1>7, IdleKnows DEF Quiet, PassKnows, Looping
<1> QED BY <1>8, <1>9, <1>10, <1>12, <1>14, <1>15 DEF GitInv

\* The request takes the place of the flush.
LEMMA FlushAsksKeeps ==
  ASSUME OneFlush, GitInv, NEW c \in Callers, FlushEnsure(c) \/ FlushFull(c)
  PROVE  GitInv'
<1>0. /\ GitTyped /\ InTurn /\ RemovedAreGone /\ RulesKnown /\ WrongAreWaiting
      /\ FlushTyped
  BY DEF GitInv, GitTyped
<1>1. UNCHANGED <<w, fs, clock, ignored, head, statusPaths, poll, pendingAdd, pendingDel, timer,
                  rules, m>>
  BY FlushIsSmall DEF FlushStep, FlushEnsure, FlushFull, EnsureIndexed, SubmitRequest, Submit,
     FlushKeeps, store
<1>2. Goes(c, "wait") /\ flush[c].pc \in {"ensure", "full"} /\ askers' = Append(askers, c)
  BY DEF FlushEnsure, FlushFull
<1> DEFINE f == [flush[c] EXCEPT !.pc = "wait"]
<1>3. /\ flush' = [flush EXCEPT ![c] = f] /\ f.pc = "wait"
      /\ f \in [pc : FlushStates, add : SUBSET Paths, del : SUBSET Paths]
  BY <1>0, <1>2, GoesTo DEF FlushStates
<1>4. PICK r \in Request :
        /\ queue' = Append(queue, r) /\ (r.full \/ r.paths # {})
        /\ flush[c].pc = "ensure" => r.paths = flush[c].add
        /\ flush[c].pc = "full" => r.full
  <2>1. CASE FlushEnsure(c)
    <3>1. /\ flush[c].pc = "ensure" /\ flush[c].add # {}
          /\ queue' = Append(queue, [full |-> FALSE, paths |-> flush[c].add])
      BY <2>1 DEF FlushEnsure, EnsureIndexed, Submit
    <3>2. flush[c].add \subseteq Paths
      BY <1>0 DEF FlushTyped
    <3>3. [full |-> FALSE, paths |-> flush[c].add] \in Request
      BY <3>2 DEF Request
    <3> QED BY <3>1, <3>3
  <2>2. CASE FlushFull(c)
    <3>1. flush[c].pc = "full" /\ k[c].pc # "ensure"
      BY <1>0, <2>2 DEF FlushFull, InTurn, InStep
    <3>2. queue' = Append(queue, [full |-> TRUE, paths |-> {}])
      BY <2>2, <3>1 DEF FlushFull, SubmitRequest, Submit
    <3>3. [full |-> TRUE, paths |-> {}] \in Request
      BY DEF Request
    <3> QED BY <3>1, <3>2, <3>3
  <2> QED BY <2>1, <2>2
<1>5. PICK g \in CallerRecord : k' = [k EXCEPT ![c] = g] /\ g.pc = "idle"
  <2>1. CASE FlushEnsure(c)
    <3>1. k' = k /\ k[c].pc = "idle" /\ k[c] \in CallerRecord
      BY <1>0, <2>1 DEF FlushEnsure, EnsureIndexed, FlushTyped
    <3>2. k' = [k EXCEPT ![c] = k[c]]
      BY <1>0, <3>1 DEF FlushTyped
    <3> QED BY <3>1, <3>2
  <2>2. CASE FlushFull(c)
    <3>1. k' = [k EXCEPT ![c] = IdleCaller]
      BY <2>2 DEF FlushFull, SubmitRequest
    <3> QED BY <3>1, Callees
  <2> QED BY <2>1, <2>2
<1> HIDE DEF f
<1>6. /\ flush'[c] = f /\ k'[c] = g /\ \A d \in Callers : d = c
      /\ FlushTyped' /\ UserTyped' /\ MonitorTyped' /\ WorkerTyped'
      /\ \A p : Unnoticed(p)' = Unnoticed(p) /\ Pending(p)' = Pending(p)
  BY <1>1, <1>3, <1>5, FlushMoves
<1>7. Quiet
  BY <1>0, <1>2, QuietUnlessAwaited
<1>8. queue' = <<r>> /\ askers' = <<c>> /\ w'.pc = "idle"
  BY <1>1, <1>2, <1>4, <1>7 DEF Quiet
<1>9. GitTyped'
  BY <1>0, <1>1, <1>6 DEF GitTyped, StoreTyped, TotalOK
<1>10. Awaited(c)'
  BY <1>3, <1>4, <1>6, <1>8 DEF Awaited, Asked
<1>11. InTurn'
  BY <1>3, <1>5, <1>6, <1>10 DEF InTurn, InStep
<1>12. RemovedAreGone'
  BY <1>0, <1>1, <1>3, <1>6 DEF RemovedAreGone
<1>13. RulesPending' = RulesPending
  BY <1>1, <1>2, <1>3, <1>6 DEF RulesPending
<1>14. k[c].pc # "swap"
  <2>1. CASE FlushEnsure(c)
    BY <2>1 DEF FlushEnsure
  <2>2. CASE FlushFull(c)
    BY <2>2 DEF FlushFull, SubmitRequest
  <2> QED BY <2>1, <2>2
<1>15. RulesKnown'
  BY <1>0, <1>1, <1>5, <1>6, <1>13, <1>14 DEF RulesKnown
<1>16. WrongAreWaiting'
  <2> SUFFICES ASSUME NEW p \in Paths, Wrong(p)', ~Pending(p)', ~RulesPending'
               PROVE  InQueue(p)'
    BY DEF WrongAreWaiting, Waiting
  <2>1. ~Pending(p) /\ ~RulesPending /\ Wrong(p)
    BY <1>1, <1>6, <1>13 DEF Wrong, Fits
  <2>2. InFlush(p)
    BY <1>0, <1>7, <2>1, NothingInWork DEF WrongAreWaiting, Waiting
  <2>3. r.full \/ p \in r.paths
    BY <1>2, <1>4, <1>6, <2>2 DEF InFlush
  <2> QED BY <1>4, <1>8, <2>3 DEF InQueue, Asked
<1>17. PassKnows'
  BY <1>8, IdleKnows DEF PassKnows, Looping
<1> QED BY <1>9, <1>11, <1>12, <1>15, <1>16, <1>17 DEF GitInv

LEMMA FlushEndKeeps ==
  ASSUME OneFlush, GitInv, NEW c \in Callers, FlushEnd(c)
  PROVE  GitInv'
<1>0. /\ GitTyped /\ InTurn /\ RemovedAreGone /\ RulesKnown /\ WrongAreWaiting
      /\ FlushTyped
  BY DEF GitInv, GitTyped
<1>1. UNCHANGED <<w, fs, clock, ignored, head, statusPaths, poll, pendingAdd, pendingDel, timer,
                  rules, queue, askers, m, k>>
  BY FlushIsSmall DEF FlushStep, FlushEnd, FlushKeeps, vars, store
<1> DEFINE g == k[c]
<1>2. /\ flush' = [flush EXCEPT ![c] = NoFlush] /\ NoFlush.pc = "idle"
      /\ NoFlush \in [pc : FlushStates, add : SUBSET Paths, del : SUBSET Paths]
      /\ g \in CallerRecord /\ k' = [k EXCEPT ![c] = g]
  BY <1>0, <1>1 DEF FlushEnd, NoFlush, FlushStates, FlushTyped
<1>3. \/ flush[c].pc = "ensure" /\ flush[c].add = {} /\ k[c].pc = "idle"
      \/ flush[c].pc = "wait" /\ \A i \in DOMAIN askers : askers[i] # c
  BY DEF FlushEnd
<1>4. Quiet /\ Quiet'
  <2>1. CASE flush[c].pc = "ensure"
    BY <1>0, <1>1, <2>1, QuietUnlessAwaited DEF Quiet
  <2>2. CASE flush[c].pc = "wait" /\ \A i \in DOMAIN askers : askers[i] # c
    <3>1. ASSUME NEW d \in Callers, Awaited(d) PROVE FALSE
      <4>1. askers = <<c>>
        BY <3>1 DEF Awaited, OneFlush
      <4>2. 1 \in DOMAIN askers /\ askers[1] = c
        BY <4>1
      <4> QED BY <2>2, <4>2
    <3> QED BY <1>0, <1>1, <3>1 DEF InTurn, Quiet
  <2> QED BY <1>3, <2>1, <2>2
<1>5. k[c].pc = "idle"
  BY <1>0, <1>3 DEF InTurn, InStep
<1> HIDE DEF g, NoFlush
<1>6. /\ flush'[c] = NoFlush /\ k'[c] = g /\ \A d \in Callers : d = c
      /\ FlushTyped' /\ UserTyped' /\ MonitorTyped' /\ WorkerTyped'
      /\ \A p : Unnoticed(p)' = Unnoticed(p) /\ Pending(p)' = Pending(p)
  <2>1. UNCHANGED <<w, fs, clock, ignored, head, statusPaths, poll, pendingAdd, pendingDel,
                   timer>>
    BY <1>1
  <2> QED BY ONLY OneFlush, GitInv, c \in Callers, <2>1, <1>2, FlushMoves
<1>7. GitTyped'
  BY <1>0, <1>1, <1>6 DEF GitTyped, StoreTyped, TotalOK
<1>8. InTurn'
  BY <1>1, <1>2, <1>4, <1>5, <1>6 DEF InTurn, InStep
<1>9. RemovedAreGone'
  BY <1>0, <1>1, <1>2, <1>6 DEF RemovedAreGone
<1>10. RulesPending' = RulesPending
  BY <1>1, <1>2, <1>3, <1>6 DEF RulesPending
<1>11. RulesKnown'
  BY <1>0, <1>1, <1>10 DEF RulesKnown
<1>12. WrongAreWaiting'
  <2>1. \A p : ~InFlush(p)
    BY <1>3, <1>6 DEF InFlush
  <2>2. ASSUME NEW p \in Paths, Wrong(p)' PROVE Pending(p) \/ RulesPending
    BY <1>0, <1>1, <1>4, <2>1, <2>2, NothingInWork DEF WrongAreWaiting, Waiting, Wrong, Fits
  <2> QED BY <1>6, <1>10, <2>2 DEF WrongAreWaiting, Waiting
<1>13. PassKnows'
  BY <1>4, IdleKnows DEF Quiet, PassKnows, Looping
<1> QED BY <1>7, <1>8, <1>9, <1>11, <1>12, <1>13 DEF GitInv

\* The steps of a flush.
LEMMA FlushStepKeeps ==
  ASSUME OneFlush, GitInv, NEW c \in Callers, FlushStep(c)
  PROVE  GitInv'
<1>1. CASE IndexStep(c)
  BY <1>1, FlushSaveKeeps, FlushSwapKeeps DEF IndexStep
<1> QED BY <1>1, FlushRemoveKeeps, FlushAllKeeps, FlushAsksKeeps, FlushEndKeeps DEF FlushStep

-----------------------------------------------------------------------------
(* The worker: a pass brings the paths it is given up to date, one by one.  *)

LEMMA WorkerIsSmall ==
  ASSUME WorkerStep
  PROVE  UNCHANGED <<fs, clock, ignored, rules, k, head, statusPaths, poll, pendingAdd,
                     pendingDel, timer, flush>>
  BY WorkerKeepsCallers, WorkerKeepsRules DEF WorkerStep, user, monitor

\* It takes the next request, or goes on with the one it has.
LEMMA WorkerTurns ==
  ASSUME WorkerStep
  PROVE  \/ w.pc = "idle" /\ \E live \in BOOLEAN : WTake(live)
         \/ w.pc # "idle" /\ queue' = queue
<1>1. ASSUME NEW p, \/ WSkipIneligible(p) \/ WOpenFails(p) \/ WUnchanged(p) \/ WRead(p)
                    \/ WChangedDuringRead(p) \/ WCommitDisallowed(p) \/ WCommitNoCapacity(p)
                    \/ WWriteChunks(p) \/ WBackfillRead(p) \/ WBackfillStore(p)
      PROVE  w.pc # "idle" /\ queue' = queue
  BY <1>1 DEF WSkipIneligible, WOpenFails, WUnchanged, WRead, WChangedDuringRead, AtPath,
              WCommitDisallowed, WCommitNoCapacity, WWriteChunks, WBackfillRead,
              WBackfillStore
<1>2. ASSUME NEW p, NEW b, WStore(p, b)
      PROVE  w.pc # "idle" /\ queue' = queue
  BY <1>2 DEF WStore, WStoreAs
<1>3. ASSUME NEW b, WLoopEnds(b) PROVE w.pc # "idle" /\ queue' = queue
  BY <1>3 DEF WLoopEnds
<1>4. ASSUME NEW b, WTake(b) PROVE w.pc = "idle"
  BY <1>4 DEF WTake
<1>5. CASE \/ WWalk \/ WPrune \/ WCancelled \/ WBackfillStops \/ WBackfillEnds
           \/ WMarshal \/ WPublish \/ WFinish
  BY <1>5 DEF WWalk, WPrune, WCancelled, WBackfillStops, WBackfillEnds, WMarshal, WPublish,
              WFinish
<1>6. Worker
  BY DEF WorkerStep
<1> QED BY <1>1, <1>2, <1>3, <1>4, <1>5, <1>6 DEF Worker

\* Whom it works for: the one flush, which waits.
LEMMA WorkerIsAwaited ==
  ASSUME OneFlush, GitInv, WorkerStep
  PROVE  /\ rules = ignored \/ RulesPending
         /\ \A q : ~InFlush(q)
         /\ \E c \in Callers : /\ Awaited(c) /\ flush[c].pc = "wait" /\ k[c].pc = "idle"
                               /\ \A d \in Callers : d = c
<1>1. InTurn /\ RulesKnown
  BY DEF GitInv
<1>2. ~Quiet
  BY WorkerTurns DEF Quiet, WTake
<1>3. PICK c \in Callers : Awaited(c)
  BY <1>1, <1>2 DEF InTurn
<1>4. flush[c].pc = "wait" /\ \A d \in Callers : d = c
  BY <1>3 DEF Awaited, OneFlush
<1>5. k[c].pc = "idle"
  BY <1>1, <1>4 DEF InTurn, InStep
<1>6. rules = ignored \/ RulesPending
  BY <1>1, <1>4, <1>5 DEF RulesKnown
<1>7. \A q : ~InFlush(q)
  BY <1>4 DEF InFlush
<1> QED BY <1>3, <1>4, <1>5, <1>6, <1>7

\* What a step of the worker keeps, whatever it does.
LEMMA WorkerFrame ==
  ASSUME OneFlush, GitInv, WorkerStep, w.pc = "idle" => w'.pc # "idle"
  PROVE  /\ UserTyped' /\ MonitorTyped' /\ FlushTyped'
         /\ \A p : Pending(p)' = Pending(p)
         /\ RulesPending' = RulesPending
         /\ InTurn' /\ RemovedAreGone' /\ RulesKnown'
<1>0. GitTyped /\ InTurn /\ RemovedAreGone /\ RulesKnown
  BY DEF GitInv
<1>1. UNCHANGED <<fs, clock, ignored, rules, k, head, statusPaths, poll, pendingAdd,
                  pendingDel, timer, flush>>
  BY WorkerIsSmall
<1>2. UserTyped' /\ MonitorTyped' /\ FlushTyped'
  BY <1>0, <1>1 DEF GitTyped, UserTyped, MonitorTyped, FlushTyped
<1>3. \A p : Unnoticed(p)' = Unnoticed(p) /\ Pending(p)' = Pending(p)
  BY <1>1, PendingKept
<1>4. RulesPending' = RulesPending
  BY <1>1, <1>3 DEF RulesPending
<1>5. RemovedAreGone' /\ RulesKnown'
  BY <1>0, <1>1, <1>3, <1>4 DEF RemovedAreGone, RulesKnown
<1>6. InTurn'
  <2>1. PICK c \in Callers : Awaited(c)
    BY WorkerIsAwaited
  <2>2. askers' = IF w.pc # "idle" /\ w'.pc = "idle" THEN Tail(askers) ELSE askers
    BY DEF WorkerStep
  <2>3. queue' = <<>>
    <3>1. CASE w.pc = "idle"
      <4>1. PICK r \in Request : queue = <<r>>
        BY <2>1, <3>1 DEF Awaited, Served, Asked
      <4>2. queue' = Tail(queue)
        BY <3>1, WorkerTurns DEF WTake
      <4> QED BY <4>1, <4>2
    <3>2. CASE w.pc # "idle"
      BY <2>1, <3>2, WorkerTurns DEF Awaited, Served, Asked
    <3> QED BY <3>1, <3>2
  <2>4. \A d \in Callers : InStep(d)'
    BY <1>0, <1>1 DEF InTurn, InStep
  <2>5. CASE w'.pc = "idle"
    <3>1. askers' = Tail(<<c>>)
      BY <2>1, <2>2, <2>5 DEF Awaited
    <3>2. askers' = <<>>
      BY <3>1
    <3> QED BY <2>3, <2>4, <2>5, <3>2 DEF InTurn, Quiet
  <2>6. CASE w'.pc # "idle"
    <3>1. askers' = <<c>> /\ flush'[c].pc = "wait"
      BY <1>1, <2>1, <2>2, <2>6 DEF Awaited
    <3>2. Awaited(c)'
      BY <2>3, <2>6, <3>1 DEF Awaited, Served
    <3> QED BY <2>4, <3>2 DEF InTurn
  <2> QED BY <2>5, <2>6
<1> QED BY <1>2, <1>3, <1>4, <1>5, <1>6

\* So much is left to show of each of its steps.
LEMMA WorkerKeepsGit ==
  ASSUME OneFlush, GitInv, WorkerStep, w.pc = "idle" => w'.pc # "idle",
         WorkerTyped', ManifestOK(m'), TotalOK(m'), PassKnows',
         \A q \in Paths : Wrong(q)' /\ ~Pending(q) /\ ~RulesPending => InWork(q)'
  PROVE  GitInv'
<1>1. /\ UserTyped' /\ MonitorTyped' /\ FlushTyped'
      /\ \A p : Pending(p)' = Pending(p)
      /\ RulesPending' = RulesPending
      /\ InTurn' /\ RemovedAreGone' /\ RulesKnown'
  BY WorkerFrame
<1>2. rules' \subseteq Paths
  BY WorkerIsSmall DEF GitInv, GitTyped, StoreTyped
<1>3. GitTyped'
  BY <1>1, <1>2 DEF GitTyped, StoreTyped, TotalOK
<1>4. WrongAreWaiting'
  BY <1>1 DEF WrongAreWaiting, Waiting
<1> QED BY <1>1, <1>3, <1>4 DEF GitInv

\* A path that is wrong is before the worker.
LEMMA WrongInWork ==
  ASSUME OneFlush, GitInv, WorkerStep, NEW q \in Paths, Wrong(q), ~Pending(q), ~RulesPending
  PROVE  w.pc # "idle" => InWork(q)
<1>1. Waiting(q)
  BY DEF GitInv, WrongAreWaiting
<1>2. ~InFlush(q)
  BY WorkerIsAwaited
<1> QED BY <1>1, <1>2 DEF Waiting, InQueue, Asked

LEMMA WorkerParts ==
  ASSUME GitInv
  PROVE  /\ WorkerTyped /\ ManifestOK(m) /\ TotalOK(m) /\ m.total \in Nat
         /\ m.ent \in [Paths -> 0..MaxVersion] /\ rules \subseteq Paths
         /\ fs \in [Paths -> 0..MaxVersion] /\ PassKnows
         /\ 0 \in 0..MaxVersion
<1>1. /\ WorkerTyped /\ ManifestOK(m) /\ TotalOK(m) /\ UserTyped /\ PassKnows
      /\ rules \subseteq Paths
  BY DEF GitInv, GitTyped, StoreTyped
<1> QED BY <1>1, TotalsAreNumbers, ZeroIsVersion DEF UserTyped, ManifestOK

LEMMA TakenPaths ==
  ASSUME NEW T \in SUBSET Paths, NEW R \in SUBSET Paths, NEW live \in BOOLEAN, NEW n,
         w' = [IdleWorker EXCEPT !.pc = "next", !.live = live, !.todo = T, !.rules = R,
                                 !.local = n]
  PROVE  /\ w' \in [pc : WorkerStates, full : BOOLEAN, live : BOOLEAN, todo : SUBSET Paths,
             seen : [Paths -> 0..MaxVersion], rules : SUBSET Paths, local : {w'.local},
             cur : SUBSET Paths, ver : 0..MaxVersion, got : {w'.got}, had : {w'.had},
             partial : BOOLEAN, changed : BOOLEAN, after : {"idle", "next", "finish"}]
         /\ w'.pc = "next" /\ w'.rules = R /\ w'.local = n /\ w'.todo = T /\ ~w'.full
<1>1. w' = [pc |-> "next", full |-> FALSE, live |-> live, todo |-> T,
            seen |-> [p \in Paths |-> 0], rules |-> R, local |-> n, cur |-> {}, ver |-> 0,
            got |-> 0, had |-> 0, partial |-> FALSE, changed |-> FALSE, after |-> "idle"]
  BY DEF IdleWorker
<1>2. [p \in Paths |-> 0] \in [Paths -> 0..MaxVersion] /\ 0 \in 0..MaxVersion
  BY ZeroIsVersion
<1>3. w'.pc = "next" /\ w'.rules = R /\ w'.local = n /\ w'.todo = T /\ ~w'.full
  BY ONLY <1>1
<1>4. w'.got = 0 /\ w'.had = 0
  BY ONLY <1>1
<1>5. T \in SUBSET Paths /\ R \in SUBSET Paths /\ {} \in SUBSET Paths
  OBVIOUS
<1>6. "next" \in WorkerStates
  BY DEF WorkerStates
<1>7. live \in BOOLEAN
  OBVIOUS
<1> QED BY ONLY <1>1, <1>2, <1>3, <1>4, <1>5, <1>6, <1>7

LEMMA TakeKeeps ==
  ASSUME OneFlush, GitInv, WorkerStep, NEW live \in BOOLEAN, WTake(live)
  PROVE  GitInv'
<1>0. /\ WorkerTyped /\ ManifestOK(m) /\ TotalOK(m) /\ rules \subseteq Paths
      /\ 0 \in 0..MaxVersion
  BY WorkerParts
<1>1. w.pc = "idle" /\ m' = m /\ rules' = rules /\ w'.live
  BY DEF WTake, store, WorkerKeeps, WorkerStep
<1>2. PICK r \in Request : queue = <<r>> /\ (r.full \/ r.paths # {})
  BY <1>1, WorkerIsAwaited DEF Awaited, Served, Asked
<1>3. r.full \in BOOLEAN /\ r.paths \subseteq Paths /\ Head(queue) = r
  BY <1>2 DEF Request
<1>4. CASE r.full
  <2>1. w' = [IdleWorker EXCEPT !.pc = "walk", !.full = TRUE, !.live = live]
    BY <1>3, <1>4 DEF WTake
  <2>2. /\ w' \in [pc : WorkerStates, full : BOOLEAN, live : BOOLEAN, todo : SUBSET Paths,
             seen : [Paths -> 0..MaxVersion], rules : SUBSET Paths, local : {w'.local},
             cur : SUBSET Paths, ver : 0..MaxVersion, got : {w'.got}, had : {w'.had},
             partial : BOOLEAN, changed : BOOLEAN, after : {"idle", "next", "finish"}]
        /\ w'.pc = "walk" /\ w'.full
    BY <1>0, <2>1 DEF IdleWorker, WorkerStates
  <2>3. WorkerTyped'
    BY <1>1, <2>2 DEF WorkerTyped
  <2>4. PassKnows' /\ \A q \in Paths : InWork(q)'
    BY <2>2 DEF PassKnows, Looping, InWork
  <2> QED BY <1>0, <1>1, <2>2, <2>3, <2>4, WorkerKeepsGit DEF TotalOK
<1>5. CASE ~r.full
  <2>1. w' = [IdleWorker EXCEPT !.pc = "next", !.live = live, !.todo = r.paths,
                                !.rules = rules, !.local = m.total]
    BY <1>2, <1>3, <1>5 DEF WTake
  <2>2. /\ w' \in [pc : WorkerStates, full : BOOLEAN, live : BOOLEAN, todo : SUBSET Paths,
             seen : [Paths -> 0..MaxVersion], rules : SUBSET Paths, local : {w'.local},
             cur : SUBSET Paths, ver : 0..MaxVersion, got : {w'.got}, had : {w'.had},
             partial : BOOLEAN, changed : BOOLEAN, after : {"idle", "next", "finish"}]
        /\ w'.pc = "next" /\ w'.rules = rules /\ w'.local = m.total /\ w'.todo = r.paths
        /\ ~w'.full
    BY <1>0, <1>3, <2>1, TakenPaths
  <2>3. WorkerTyped'
    BY <1>1, <2>2 DEF WorkerTyped
  <2>4. PassKnows'
    BY <1>1, <2>2 DEF PassKnows, Looping
  <2>5. ASSUME NEW q \in Paths, Wrong(q)', ~Pending(q), ~RulesPending
        PROVE  InWork(q)'
    <3>1. Wrong(q)
      BY <1>1, <2>5, WorkerIsSmall DEF Wrong, Fits
    <3>2. Waiting(q) /\ ~InFlush(q)
      BY <2>5, <3>1, WorkerIsAwaited DEF GitInv, WrongAreWaiting
    <3>3. InQueue(q)
      BY <1>1, <2>5, <3>2 DEF Waiting, InWork, Looping
    <3>4. q \in r.paths
      <4>1. PICK s \in Request : queue = <<s>> /\ (s.full \/ q \in s.paths)
        BY <3>3 DEF InQueue, Asked
      <4>2. s = r
        BY <1>2, <4>1
      <4> QED BY <1>5, <4>1, <4>2
    <3> QED BY <2>2, <3>4 DEF InWork, Looping
  <2> QED BY <1>0, <1>1, <2>2, <2>3, <2>4, <2>5, WorkerKeepsGit DEF TotalOK
<1> QED BY <1>4, <1>5

LEMMA WalkKeeps ==
  ASSUME OneFlush, GitInv, WorkerStep, WWalk
  PROVE  GitInv'
<1> DEFINE T == {p \in Paths : Allowed(rules, p) /\ Fits(p)}
           S == [p \in Paths |-> IF Allowed(rules, p) /\ Fits(p) THEN fs[p] ELSE 0]
<1>0. /\ WorkerTyped /\ ManifestOK(m) /\ TotalOK(m)
      /\ fs \in [Paths -> 0..MaxVersion] /\ 0 \in 0..MaxVersion
  BY WorkerParts
<1>1. w.live = TRUE
  BY <1>0 DEF WorkerTyped
<1>2. w' = [w EXCEPT !.pc = "prune", !.todo = T, !.seen = S] /\ m' = m
  BY <1>1 DEF WWalk, store
<1>3. T \subseteq Paths /\ S \in [Paths -> 0..MaxVersion]
  BY <1>0
<1>4. /\ \A p \in Paths \ T : Allowed(rules, p) => ~Fits(p)
      /\ \A p \in T : Allowed(rules, p)
  OBVIOUS
<1> HIDE DEF T, S
<1>5. WorkerTyped' /\ w'.pc = "prune" /\ w'.todo = T /\ w'.full = w.full
  BY <1>0, <1>2, <1>3 DEF WorkerTyped, WorkerStates
<1>6. PassKnows'
  <2>1. ASSUME NEW p \in Paths \ T, Allowed(ignored', p), Fits(p)' PROVE Moved(p)'
    <3>1. Allowed(ignored, p) /\ Fits(p)
      BY <2>1, WorkerIsSmall DEF Fits
    <3>2. RulesPending
      BY <1>4, <3>1, WorkerIsAwaited
    <3> QED BY <1>5, <3>2, WorkerFrame DEF Moved
  <2>2. w.full
    BY WorkerParts DEF PassKnows, WWalk
  <2> QED BY <1>4, <1>5, <2>1, <2>2, WorkerIsSmall DEF PassKnows, Looping
<1>7. \A q \in Paths : InWork(q)'
  BY <1>5 DEF InWork
<1> QED BY <1>0, <1>2, <1>5, <1>6, <1>7, WorkerKeepsGit DEF TotalOK

LEMMA PruneKeeps ==
  ASSUME OneFlush, GitInv, WorkerStep, WPrune
  PROVE  GitInv'
<1> DEFINE T == {p \in Paths \ w.todo : m.ent[p] # 0}
<1>0. /\ WorkerTyped /\ ManifestOK(m) /\ TotalOK(m) /\ rules \subseteq Paths
      /\ m.ent \in [Paths -> 0..MaxVersion] /\ 0 \in 0..MaxVersion /\ PassKnows
  BY WorkerParts
<1>1. /\ w.pc = "prune" /\ m' = Dropped(m, T)
      /\ w' = [w EXCEPT !.pc = "next", !.local = m'.total]
      /\ T \subseteq Paths
  BY DEF WPrune, DropLocked
<1>2. \A q \in Paths : m'.ent[q] = IF q \in w.todo THEN m.ent[q] ELSE 0
  BY <1>0, <1>1 DEF Dropped
<1> HIDE DEF T
<1>3. ManifestOK(m') /\ TotalOK(m')
  BY <1>0, <1>1, DroppedOK, DroppedTotal
<1>4. /\ WorkerTyped' /\ w'.pc = "next" /\ w'.todo = w.todo /\ w'.local = m'.total
      /\ w'.full = w.full
  BY <1>0, <1>1 DEF WorkerTyped, WorkerStates
<1>5. w.full = TRUE
  BY <1>0, <1>1 DEF PassKnows, WorkerTyped
<1>6. PassKnows'
  BY <1>0, <1>1, <1>4, <1>5, WorkerIsSmall DEF PassKnows, Looping
<1>7. ASSUME NEW q \in Paths, Wrong(q)', ~Pending(q), ~RulesPending
      PROVE  InWork(q)'
  <2>1. rules = ignored
    BY <1>7, WorkerIsAwaited
  <2>2. CASE q \notin w.todo
    <3>1. ~(Allowed(ignored, q) /\ Fits(q))
      BY <1>0, <1>1, <1>7, <2>2 DEF PassKnows, Moved
    <3> QED BY <1>2, <1>7, <2>2, <3>1, WorkerIsSmall DEF Wrong, Fits
  <2> QED BY <1>4, <2>2 DEF InWork, Looping
<1> QED BY <1>1, <1>3, <1>4, <1>6, <1>7, WorkerKeepsGit

\* One path of the loop is done with: its entry is as the worktree has it, or the
\* next poll, or the rules, will have something to say of it.
LEMMA PathIsDone ==
  ASSUME OneFlush, GitInv, WorkerStep, Looping, NEW p \in w.todo,
         WorkerTyped', ManifestOK(m'), TotalOK(m'),
         w'.todo = w.todo \ {p}, Looping', w'.pc \in {"next", "marshal"}, w'.full = w.full,
         w'.pc = "marshal" => w.full,
         w'.rules = w.rules, w'.local = m'.total,
         \A q \in Paths \ {p} : m'.ent[q] = m.ent[q],
         Wrong(p)' => Pending(p) \/ RulesPending
  PROVE  GitInv'
<1>0. PassKnows
  BY WorkerParts
<1>1. w.pc # "idle" /\ w'.pc # "idle"
  BY DEF Looping
<1>2. rules' = rules
  BY WorkerIsSmall
<1>3. PassKnows'
  BY <1>0, <1>2 DEF PassKnows, Looping
<1>4. ASSUME NEW q \in Paths, Wrong(q)', ~Pending(q), ~RulesPending
      PROVE  InWork(q)'
  <2>1. q # p
    BY <1>4
  <2>2. Wrong(q)
    BY <1>4, <2>1, WorkerIsSmall DEF Wrong, Fits
  <2>3. InWork(q)
    BY <1>1, <1>4, <2>2, WrongInWork
  <2>4. q \in w.todo
    BY <2>3 DEF InWork, Looping
  <2> QED BY <2>1, <2>4 DEF InWork
<1> QED BY <1>1, <1>3, <1>4, WorkerKeepsGit

\* The entry of p is dropped, and what the pass counts with it.
LEMMA EntryDropped ==
  ASSUME ManifestOK(m), TotalOK(m), NEW p \in Paths, NEW T,
         T = {p} \/ T = {q \in {p} : m.ent[q] # 0}, m' = Dropped(m, T)
  PROVE  /\ ManifestOK(m') /\ TotalOK(m')
         /\ m'.ent[p] = 0 /\ \A q \in Paths \ {p} : m'.ent[q] = m.ent[q]
         /\ m'.total = m.total - SizeOf(p, m.ent[p])
<1>1. T \subseteq {p} /\ T \subseteq Paths
  OBVIOUS
<1>2. ManifestOK(m') /\ TotalOK(m')
  BY <1>1, DroppedOK, DroppedTotal
<1>3. m'.total = m.total - Bytes(m.ent, T)
  BY DEF Dropped
<1>4. Bytes(m.ent, T) = SizeOf(p, m.ent[p])
  BY BytesOfOne
<1>5. m'.ent[p] = 0 /\ \A q \in Paths \ {p} : m'.ent[q] = m.ent[q]
  BY <1>1 DEF Dropped
<1> QED BY <1>2, <1>3, <1>4, <1>5

\* A path that is refused is not wrong, if it may not be indexed or has moved since.
LEMMA RefusedIsDone ==
  ASSUME OneFlush, GitInv, WorkerStep, NEW p \in w.todo, NEW size, NEW capacity \in BOOLEAN,
         w.pc \in {"next", "work"}, Reject(p, size, capacity), size = SizeOf(p, m.ent[p]),
         Allowed(ignored, p) /\ Fits(p) => Pending(p) \/ RulesPending
  PROVE  GitInv'
<1> DEFINE T == {q \in {p} : m.ent[q] # 0}
<1>0. /\ WorkerTyped /\ ManifestOK(m) /\ TotalOK(m) /\ PassKnows /\ p \in Paths
      /\ w.todo \subseteq Paths
  BY WorkerParts DEF WorkerTyped
<1>1. m' = Dropped(m, T)
  BY DEF Reject, Remove, Evict, DropLocked
<1> HIDE DEF T
<1>2. /\ ManifestOK(m') /\ TotalOK(m')
      /\ m'.ent[p] = 0 /\ \A q \in Paths \ {p} : m'.ent[q] = m.ent[q]
      /\ m'.total = m.total - SizeOf(p, m.ent[p])
  BY <1>0, <1>1, EntryDropped DEF T
<1>3. Looping /\ w.local = m.total
  BY <1>0 DEF Looping, PassKnows
<1>4. /\ WorkerTyped' /\ w'.todo = w.todo \ {p} /\ w'.full = w.full /\ w'.rules = w.rules
      /\ w'.local = w.local - size
      /\ \/ w'.pc = "next"
         \/ w'.pc = "marshal" /\ w'.after = "next" /\ w.full
  <2>1. CASE w.full
    <3>1. w' = [w EXCEPT !.pc = "marshal", !.after = "next", !.todo = @ \ {p}, !.cur = {},
                         !.partial = @ \/ capacity, !.local = @ - size]
      BY <2>1 DEF Reject, Remove
    <3>2. WorkerTyped'
      <4>1. "marshal" \in WorkerStates /\ (w.partial \/ capacity) \in BOOLEAN
        BY DEF WorkerStates
      <4> QED BY <1>0, <3>1, <4>1 DEF WorkerTyped
    <3>3. /\ w'.todo = w.todo \ {p} /\ w'.full = w.full /\ w'.rules = w.rules
          /\ w'.local = w.local - size /\ w'.pc = "marshal" /\ w'.after = "next"
      BY <1>0, <3>1 DEF WorkerTyped
    <3> QED BY <2>1, <3>2, <3>3
  <2>2. CASE ~w.full
    <3>1. w' = [w EXCEPT !.pc = "next", !.todo = @ \ {p}, !.cur = {},
                         !.changed = @ \/ m.ent[p] # 0, !.local = @ - SizeOf(p, m.ent[p])]
      BY <2>2 DEF Reject, Evict
    <3> QED BY <1>0, <3>1 DEF WorkerTyped, WorkerStates
  <2> QED BY <2>1, <2>2
<1>5. Looping'
  BY <1>4 DEF Looping
<1>6. Wrong(p)' => Pending(p) \/ RulesPending
  BY <1>0, <1>2, WorkerIsSmall DEF Wrong, Fits
<1> QED BY <1>2, <1>3, <1>4, <1>5, <1>6, PathIsDone

LEMMA Budget ==
  ASSUME Roomy, GitInv, NEW p \in Paths, Looping
  PROVE  /\ ~OverBudget(p)
         /\ \A v \in 0..MaxVersion : ~OverCapacity(p, v)
<1>0. /\ WorkerTyped /\ ManifestOK(m) /\ TotalOK(m) /\ w.local = m.total
      /\ fs \in [Paths -> 0..MaxVersion]
  BY WorkerParts DEF PassKnows
<1>1. \A v \in 0..MaxVersion :
        /\ m.total - SizeOf(p, m.ent[p]) + SizeOf(p, v) <= MaxTotalBytes
        /\ m.total \in Nat /\ SizeOf(p, m.ent[p]) \in Nat /\ SizeOf(p, v) \in Nat
  BY <1>0, EverythingFits
<1>2. w.seen[p] \in 0..MaxVersion /\ fs[p] \in 0..MaxVersion /\ MaxTotalBytes \in Nat
  BY <1>0, SizesAssumption DEF WorkerTyped
<1>3. \A v \in 0..MaxVersion : ~(m.total - SizeOf(p, m.ent[p]) + SizeOf(p, v) > MaxTotalBytes)
  BY <1>1, <1>2
<1> QED BY <1>0, <1>2, <1>3 DEF OverBudget, OverCapacity

\* What the loop refuses, skips or reads.
LEMMA LoopKeeps ==
  ASSUME OneFlush, Roomy, GitInv, WorkerStep, NEW p \in Paths,
         WSkipIneligible(p) \/ WOpenFails(p) \/ WUnchanged(p) \/ WRead(p)
  PROVE  GitInv'
<1>0. /\ WorkerTyped /\ ManifestOK(m) /\ TotalOK(m) /\ PassKnows
      /\ fs \in [Paths -> 0..MaxVersion]
  BY WorkerParts
<1>1. AtPath(p) /\ w.pc = "next" /\ p \in w.todo /\ Looping
  BY DEF WSkipIneligible, WOpenFails, WUnchanged, WRead, AtPath, Looping
<1>2. ~OverBudget(p) /\ (~w.full => w.rules = rules)
  BY <1>0, <1>1, Budget DEF PassKnows
<1>3. ~w.full => rules = ignored \/ RulesPending
  BY WorkerIsAwaited
<1>4. CASE WSkipIneligible(p)
  <2>1. Reject(p, SizeOf(p, m.ent[p]), FALSE)
    <3>1. OverBudget(p) = FALSE
      BY <1>2 DEF OverBudget
    <3> QED BY <1>4, <3>1 DEF WSkipIneligible
  <2>2. ~w.full /\ (~Allowed(rules, p) \/ ~Fits(p))
    BY <1>2, <1>4 DEF WSkipIneligible, Ineligible
  <2>3. Allowed(ignored, p) /\ Fits(p) => Pending(p) \/ RulesPending
    BY <1>3, <2>2
  <2> QED BY <1>1, <2>1, <2>3, RefusedIsDone
<1>5. CASE WOpenFails(p)
  BY <1>1, <1>5, RefusedIsDone DEF WOpenFails
<1>6. CASE WUnchanged(p)
  <2>1. w' = [w EXCEPT !.todo = @ \ {p}] /\ m' = m /\ Fits(p) /\ m.ent[p] = fs[p]
        /\ ~Ineligible(p)
    BY <1>6 DEF WUnchanged, store
  <2>2. /\ WorkerTyped' /\ w'.todo = w.todo \ {p} /\ w'.pc = w.pc /\ w'.full = w.full
        /\ w'.rules = w.rules /\ w'.local = w.local
    BY <1>0, <2>1 DEF WorkerTyped
  <2>3. Allowed(rules, p)
    BY <1>0, <1>1, <1>2, <2>1 DEF PassKnows, Ineligible
  <2>4. Wrong(p)' => RulesPending
    BY <2>1, <2>3, WorkerIsAwaited, WorkerIsSmall DEF Wrong, Fits
  <2> QED BY <1>0, <1>1, <2>1, <2>2, <2>4, PathIsDone DEF PassKnows, TotalOK, Looping
<1>7. CASE WRead(p)
  <2>1. /\ w' = [w EXCEPT !.pc = "work", !.cur = {p}, !.ver = fs[p],
                          !.had = SizeOf(p, m.ent[p])]
        /\ m' = m
    BY <1>7 DEF WRead, store
  <2>2. fs[p] \in 0..MaxVersion
    BY <1>0
  <2>3. /\ WorkerTyped' /\ w'.todo = w.todo /\ w'.pc = "work" /\ w'.full = w.full
        /\ w'.rules = w.rules /\ w'.local = w.local /\ w'.cur = {p} /\ w'.ver = fs[p]
        /\ w'.had = SizeOf(p, m.ent[p])
    BY <1>0, <2>1, <2>2 DEF WorkerTyped, WorkerStates
  <2>4. PassKnows'
    BY <1>0, <1>1, <2>1, <2>3, WorkerIsSmall DEF PassKnows, Looping
  <2>5. ASSUME NEW q \in Paths, Wrong(q)', ~Pending(q), ~RulesPending PROVE InWork(q)'
    <3>1. InWork(q)
      BY <1>1, <2>1, <2>5, WorkerIsSmall, WrongInWork DEF Wrong, Fits
    <3> QED BY <1>1, <2>3, <3>1 DEF InWork, Looping
  <2> QED BY <1>0, <1>1, <2>1, <2>3, <2>4, <2>5, WorkerKeepsGit DEF TotalOK
<1> QED BY <1>4, <1>5, <1>6, <1>7

\* What becomes of a path that was read: refused, dropped, or committed.
LEMMA CommitKeeps ==
  ASSUME OneFlush, Roomy, GitInv, WorkerStep, NEW p \in Paths,
         WChangedDuringRead(p) \/ WCommitDisallowed(p) \/ WCommitNoCapacity(p)
         \/ WWriteChunks(p) \/ \E b \in Embedding : WStore(p, b)
  PROVE  GitInv'
<1>0. /\ WorkerTyped /\ ManifestOK(m) /\ TotalOK(m) /\ PassKnows
      /\ m.ent \in [Paths -> 0..MaxVersion] /\ w.ver \in 0..MaxVersion
  BY WorkerParts DEF WorkerTyped
<1>1. w.pc \in {"work", "writing"} /\ p \in w.cur
  BY DEF WChangedDuringRead, WCommitDisallowed, WCommitNoCapacity, WWriteChunks, WStore,
     WStoreAs
<1>2. /\ Looping /\ p \in w.todo /\ w.cur = {p} /\ w.had = SizeOf(p, m.ent[p])
      /\ fs[p] # w.ver => Pending(p)
      /\ w.pc = "writing" => Allowed(rules, p)
      /\ w.local = m.total
  BY <1>0, <1>1 DEF PassKnows, Looping
<1>3. ~OverCapacity(p, w.ver)
  BY <1>0, <1>2, Budget
<1>4. CASE WChangedDuringRead(p)
  BY <1>2, <1>4, RefusedIsDone DEF WChangedDuringRead
<1>5. CASE WCommitDisallowed(p)
  <2>1. /\ m' = Dropped(m, {p}) /\ ~Allowed(rules, p)
        /\ w' = [w EXCEPT !.pc = "next", !.todo = @ \ {p}, !.cur = {},
                          !.changed = @ \/ m.ent[p] # 0, !.local = @ - SizeOf(p, m.ent[p])]
    BY <1>5 DEF WCommitDisallowed
  <2>2. /\ ManifestOK(m') /\ TotalOK(m')
        /\ m'.ent[p] = 0 /\ \A q \in Paths \ {p} : m'.ent[q] = m.ent[q]
        /\ m'.total = m.total - SizeOf(p, m.ent[p])
    BY <1>0, <2>1, EntryDropped
  <2>3. /\ WorkerTyped' /\ w'.todo = w.todo \ {p} /\ w'.pc = "next" /\ w'.full = w.full
        /\ w'.rules = w.rules /\ w'.local = w.local - SizeOf(p, m.ent[p])
    BY <1>0, <2>1 DEF WorkerTyped, WorkerStates
  <2>4. Wrong(p)' => RulesPending
    BY <2>1, <2>2, WorkerIsAwaited, WorkerIsSmall DEF Wrong, Fits
  <2>5. Looping'
    BY <2>3 DEF Looping
  <2> QED BY <1>2, <2>2, <2>3, <2>4, <2>5, PathIsDone
<1>6. ~WCommitNoCapacity(p)
  BY <1>3 DEF WCommitNoCapacity
<1>7. CASE WWriteChunks(p)
  <2>1. w' = [w EXCEPT !.pc = "writing"] /\ m' = m /\ Allowed(rules, p)
    BY <1>7 DEF WWriteChunks
  <2>2. /\ WorkerTyped' /\ w'.todo = w.todo /\ w'.pc = "writing" /\ w'.full = w.full
        /\ w'.rules = w.rules /\ w'.local = w.local /\ w'.cur = {p} /\ w'.ver = w.ver
        /\ w'.had = w.had
    BY <1>0, <1>2, <2>1 DEF WorkerTyped, WorkerStates
  <2>3. rules' = rules /\ fs' = fs /\ Pending(p)' = Pending(p)
    BY <1>2, <2>2, WorkerIsSmall, WorkerFrame
  <2>4. PassKnows'
    BY <1>0, <1>2, <2>1, <2>2, <2>3 DEF PassKnows, Looping
  <2>5. ASSUME NEW q \in Paths, Wrong(q)', ~Pending(q), ~RulesPending PROVE InWork(q)'
    <3>1. InWork(q)
      BY <1>1, <2>1, <2>5, WorkerIsSmall, WrongInWork DEF Wrong, Fits
    <3> QED BY <1>1, <2>2, <3>1 DEF InWork, Looping
  <2> QED BY <1>0, <1>1, <2>1, <2>2, <2>4, <2>5, WorkerKeepsGit DEF TotalOK
<1>8. ASSUME NEW b \in Embedding, WStore(p, b) PROVE GitInv'
  <2>1. /\ m' = Stored(m, p, w.ver, b) /\ w.pc = "writing"
        /\ w' = [w EXCEPT !.pc = "next", !.todo = @ \ {p}, !.cur = {}, !.changed = TRUE,
                          !.local = @ + SizeOf(p, w.ver) - SizeOf(p, m.ent[p])]
    BY <1>8 DEF WStore, WStoreAs
  <2>2. b \in BOOLEAN /\ MaxTotalBytes \in Nat
    BY SizesAssumption
  <2>3. /\ m.total \in Nat /\ SizeOf(p, m.ent[p]) \in Nat /\ SizeOf(p, w.ver) \in Nat
        /\ m.total - SizeOf(p, m.ent[p]) + SizeOf(p, w.ver) <= MaxTotalBytes
    BY <1>0, EverythingFits
  <2>4. ManifestOK(m') /\ TotalOK(m')
    BY <1>0, <2>1, <2>2, <2>3, StoredOK, StoredTotal
  <2>5. /\ m'.ent = [m.ent EXCEPT ![p] = w.ver]
        /\ m'.total = m.total - SizeOf(p, m.ent[p]) + SizeOf(p, w.ver)
    BY <2>1 DEF Stored
  <2>6. m'.ent[p] = w.ver /\ \A q \in Paths \ {p} : m'.ent[q] = m.ent[q]
    BY <1>0, <2>5
  <2>7. /\ WorkerTyped' /\ w'.todo = w.todo \ {p} /\ w'.pc = "next" /\ w'.full = w.full
        /\ w'.rules = w.rules /\ w'.local = w.local + SizeOf(p, w.ver) - SizeOf(p, m.ent[p])
    BY <1>0, <2>1 DEF WorkerTyped, WorkerStates
  <2>8. w'.local = m'.total
    BY <1>2, <2>3, <2>5, <2>7
  <2>9. Wrong(p)' => Pending(p) \/ RulesPending
    BY <1>2, <2>1, <2>6, WorkerIsAwaited, WorkerIsSmall DEF Wrong, Fits
  <2>10. Looping'
    BY <2>7 DEF Looping
  <2> QED BY <1>2, <2>4, <2>6, <2>7, <2>8, <2>9, <2>10, PathIsDone
<1> QED BY <1>4, <1>5, <1>6, <1>7, <1>8

\* The steps of the worker that leave the entries alone, outside of the loop.
LEMMA OtherStepKeeps ==
  ASSUME OneFlush, GitInv, WorkerStep, w.pc # "idle", WorkerTyped', ManifestOK(m'), TotalOK(m'),
         m'.ent = m.ent, PassKnows', \A q \in Paths : InWork(q) => InWork(q)'
  PROVE  GitInv'
<1>1. ASSUME NEW q \in Paths, Wrong(q)', ~Pending(q), ~RulesPending PROVE InWork(q)'
  <2>1. Wrong(q)
    BY <1>1, WorkerIsSmall DEF Wrong, Fits
  <2> QED BY <1>1, <2>1, WrongInWork
<1> QED BY <1>1, WorkerKeepsGit

LEMMA IdleIsTyped ==
  ASSUME w' = IdleWorker
  PROVE  WorkerTyped' /\ w'.pc = "idle"
<1>1. [p \in Paths |-> 0] \in [Paths -> 0..MaxVersion] /\ 0 \in 0..MaxVersion
  BY ZeroIsVersion
<1> QED BY <1>1 DEF IdleWorker, WorkerTyped, WorkerStates

LEMMA EndOfLoopKeeps ==
  ASSUME OneFlush, GitInv, WorkerStep, NEW embedder \in Embedding, WLoopEnds(embedder)
  PROVE  GitInv'
<1>0. WorkerTyped /\ ManifestOK(m) /\ TotalOK(m)
  BY WorkerParts
<1>1. /\ w.pc = "next" /\ w.todo = {} /\ m' = m
      /\ \A q : ~InWork(q)
  BY DEF WLoopEnds, store, InWork, Looping
<1>2. WorkerTyped' /\ PassKnows'
  <2>1. CASE w' = IdleWorker
    BY <2>1, IdleIsTyped DEF PassKnows, Looping
  <2>2. CASE w' = [w EXCEPT !.pc = "marshal", !.after = "finish"]
    <3>1. WorkerTyped' /\ w'.pc = "marshal" /\ w'.after = "finish"
      BY <1>0, <2>2 DEF WorkerTyped, WorkerStates
    <3> QED BY <3>1 DEF PassKnows, Looping
  <2>3. ASSUME NEW T \in SUBSET Paths, w' = [w EXCEPT !.pc = "backfill", !.todo = T]
        PROVE  WorkerTyped' /\ PassKnows'
    <3>1. WorkerTyped' /\ w'.pc = "backfill"
      BY <1>0, <2>3 DEF WorkerTyped, WorkerStates
    <3> QED BY <3>1 DEF PassKnows, Looping
  <2> QED BY <2>1, <2>2, <2>3 DEF WLoopEnds
<1> QED BY <1>0, <1>1, <1>2, OtherStepKeeps DEF TotalOK

LEMMA BackfillKeeps ==
  ASSUME OneFlush, GitInv, WorkerStep,
         \/ \E p \in Paths : WBackfillRead(p) \/ WBackfillStore(p)
         \/ WBackfillStops \/ WBackfillEnds
  PROVE  GitInv'
<1>0. /\ WorkerTyped /\ ManifestOK(m) /\ TotalOK(m) /\ m.total \in Nat
      /\ m.ent \in [Paths -> 0..MaxVersion] /\ 0 \in 0..MaxVersion
  BY WorkerParts
<1>1. w.pc \in {"backfill", "embed"} /\ \A q : ~InWork(q)
  BY DEF WBackfillRead, WBackfillStore, WBackfillStops, WBackfillEnds, InWork, Looping
<1>2. ASSUME NEW p \in Paths, WBackfillRead(p) PROVE GitInv'
  <2>1. m' = m /\ m.ent[p] \in 0..MaxVersion
    BY <1>0, <1>2 DEF WBackfillRead, store
  <2>2. WorkerTyped' /\ w'.pc \in {"backfill", "embed"}
    <3>1. CASE w' = [w EXCEPT !.todo = @ \ {p}]
      BY <1>0, <1>1, <3>1 DEF WorkerTyped
    <3>2. CASE w' = [w EXCEPT !.pc = "embed", !.cur = {p}, !.ver = m.ent[p], !.got = chunk[p]]
      BY <1>0, <2>1, <3>2 DEF WorkerTyped, WorkerStates
    <3> QED BY <1>2, <3>1, <3>2 DEF WBackfillRead
  <2>3. PassKnows'
    BY <2>2 DEF PassKnows, Looping
  <2> QED BY <1>0, <1>1, <2>1, <2>2, <2>3, OtherStepKeeps DEF TotalOK
<1>3. ASSUME NEW p \in Paths, WBackfillStore(p) PROVE GitInv'
  <2>1. w' = [w EXCEPT !.pc = "backfill", !.todo = @ \ {p}, !.cur = {}]
    BY <1>3 DEF WBackfillStore
  <2>2. WorkerTyped' /\ w'.pc = "backfill"
    BY <1>0, <2>1 DEF WorkerTyped, WorkerStates
  <2>3. PassKnows'
    BY <2>2 DEF PassKnows, Looping
  <2>4. ManifestOK(m') /\ TotalOK(m') /\ m'.ent = m.ent
    <3>1. CASE m' = m
      BY <1>0, <3>1 DEF TotalOK
    <3>2. CASE m.ent[p] = w.ver /\ m' = Stored(m, p, w.ver, TRUE)
      <4>1. m.ent[p] \in 0..MaxVersion /\ w.ver \in 0..MaxVersion
        BY <1>0, <3>2
      <4>2. SizeOf(p, w.ver) \in Nat /\ m.total <= MaxTotalBytes
        BY <1>0, <4>1, SizesAreNatural DEF TotalOK
      <4>3. m.total - SizeOf(p, m.ent[p]) + SizeOf(p, w.ver) <= MaxTotalBytes
        BY <1>0, <3>2, <4>2
      <4>4. ManifestOK(m') /\ m'.ent = [m.ent EXCEPT ![p] = w.ver]
        BY <1>0, <3>2, <4>1 DEF Stored, ManifestOK
      <4>5. TotalOK(m')
        BY <1>0, <3>2, <4>1, <4>3, StoredTotal
      <4>6. [m.ent EXCEPT ![p] = w.ver] = m.ent
        BY <1>0, <3>2
      <4> QED BY <4>4, <4>5, <4>6
    <3> QED BY <1>3, <3>1, <3>2 DEF WBackfillStore
  <2> QED BY <1>1, <2>2, <2>3, <2>4, OtherStepKeeps
<1>4. CASE WBackfillStops \/ WBackfillEnds
  <2>1. m' = m
    BY <1>4 DEF WBackfillStops, WBackfillEnds, store
  <2>2. WorkerTyped' /\ PassKnows'
    <3>1. CASE w' = [w EXCEPT !.pc = "backfill", !.todo = {}, !.cur = {}]
      <4>1. WorkerTyped' /\ w'.pc = "backfill"
        BY <1>0, <3>1 DEF WorkerTyped, WorkerStates
      <4> QED BY <4>1 DEF PassKnows, Looping
    <3>2. CASE w' = [w EXCEPT !.pc = "marshal", !.after = "finish"]
      <4>1. WorkerTyped' /\ w'.pc = "marshal" /\ w'.after = "finish"
        BY <1>0, <3>2 DEF WorkerTyped, WorkerStates
      <4> QED BY <4>1 DEF PassKnows, Looping
    <3> QED BY <1>4, <3>1, <3>2 DEF WBackfillStops, WBackfillEnds
  <2> QED BY <1>0, <1>1, <2>1, <2>2, OtherStepKeeps DEF TotalOK
<1> QED BY <1>2, <1>3, <1>4

\* The saves of a pass, and its answer.
LEMMA SavesKeep ==
  ASSUME OneFlush, GitInv, WorkerStep, WMarshal \/ WPublish \/ WFinish
  PROVE  GitInv'
<1>0. WorkerTyped /\ ManifestOK(m) /\ TotalOK(m) /\ PassKnows
  BY WorkerParts
<1>1. m' = m /\ w.pc \in {"marshal", "publish", "finish"} /\ rules' = rules
  BY WorkerIsSmall DEF WMarshal, WPublish, WFinish, store
<1>2. CASE WFinish
  <2>1. /\ WorkerTyped' /\ w'.pc = "idle" /\ \A q : ~InWork(q)
    BY <1>2, IdleIsTyped DEF WFinish, InWork, Looping
  <2>2. PassKnows'
    BY <2>1 DEF PassKnows, Looping
  <2> QED BY <1>0, <1>1, <2>1, <2>2, OtherStepKeeps DEF TotalOK
<1>3. CASE WMarshal \/ WPublish
  <2>1. PICK pc \in WorkerStates :
          /\ w' = [w EXCEPT !.pc = pc]
          /\ \/ w.pc = "marshal" /\ pc = "publish"
             \/ w.pc = "publish" /\ pc = w.after
    BY <1>0, <1>3 DEF WMarshal, WPublish, WorkerTyped, WorkerStates
  <2>2. /\ WorkerTyped' /\ w'.pc = pc /\ w'.after = w.after /\ w'.full = w.full
        /\ w'.todo = w.todo /\ w'.local = w.local /\ w'.rules = w.rules
    BY <1>0, <2>1 DEF WorkerTyped
  <2>3. /\ w.pc \in {"marshal", "publish"}
        /\ w.after = "finish" \/ (w.after = "next" /\ w.full)
    BY <1>0, <2>1 DEF PassKnows
  <2>4. pc \in {"publish", "next", "finish"} /\ (Looping' <=> Looping)
    BY <2>1, <2>2, <2>3 DEF Looping
  <2>5. PassKnows'
    BY <1>0, <1>1, <2>2, <2>3, <2>4 DEF PassKnows
  <2>6. \A q \in Paths : InWork(q) => InWork(q)'
    BY <2>2, <2>3, <2>4 DEF InWork
  <2> QED BY <1>0, <1>1, <2>2, <2>5, <2>6, OtherStepKeeps DEF TotalOK
<1> QED BY <1>2, <1>3

LEMMA WorkerStepKeeps ==
  ASSUME OneFlush, Roomy, GitInv, WorkerStep
  PROVE  GitInv'
<1>1. Worker
  BY DEF WorkerStep
<1>2. ~WCancelled
  BY WorkerParts DEF WCancelled, WorkerTyped
<1> QED BY <1>1, <1>2, TakeKeeps, WalkKeeps, PruneKeeps, LoopKeeps, CommitKeeps, EndOfLoopKeeps,
           BackfillKeeps, SavesKeep DEF Worker

-----------------------------------------------------------------------------
(* The theorem                                                              *)

LEMMA GitStepKeeps ==
  ASSUME ~Hasty, OneFlush, Roomy, GitInv, [GitNext]_gitVars
  PROVE  GitInv'
<1>1. CASE GitUser
  BY <1>1, UserTouches, UserKeeps DEF GitInv, GitTyped
<1>2. CASE PollStep
  BY <1>2, PollKeeps
<1>3. CASE WorkerStep
  BY <1>3, WorkerStepKeeps
<1>4. ASSUME NEW c \in Callers, FlushStart(c) \/ FlushStep(c) PROVE GitInv'
  BY <1>4, StartKeeps, FlushStepKeeps
<1>5. CASE UNCHANGED gitVars
  <2>1. UNCHANGED <<m, w, queue, askers, rules, k, flush, statusPaths, poll, pendingAdd,
                    pendingDel, timer, fs, clock, ignored, head>>
    BY <1>5 DEF gitVars, vars, store, user, monitor
  <2>2. GitTyped'
    BY <2>1 DEF GitInv, GitTyped, WorkerTyped, UserTyped, MonitorTyped, FlushTyped, StoreTyped,
       TotalOK
  <2>3. InTurn'
    BY <2>1 DEF GitInv, InTurn, Quiet, Awaited, Served, Asked, InStep
  <2>4. \A p : Unnoticed(p)' = Unnoticed(p) /\ Pending(p)' = Pending(p)
    BY <2>1, PendingKept
  <2>5. RulesPending' = RulesPending
    BY <2>1, <2>4 DEF RulesPending
  <2>6. RemovedAreGone' /\ RulesKnown'
    BY <2>1, <2>4, <2>5 DEF GitInv, RemovedAreGone, RulesKnown
  <2>7. WrongAreWaiting'
    BY <2>1, <2>4, <2>5 DEF GitInv, WrongAreWaiting, Waiting, Wrong, Fits, InFlush, InQueue,
       InWork, Looping, Asked
  <2>8. PassKnows'
    BY <2>1, <2>4, <2>5 DEF GitInv, PassKnows, Looping, Moved, Fits
  <2> QED BY <2>2, <2>3, <2>6, <2>7, <2>8 DEF GitInv
<1> QED BY <1>1, <1>2, <1>3, <1>4, <1>5 DEF GitNext

\* What is wrong waits for something, and nothing is left to wait for.
LEMMA SettledIsRight ==
  ASSUME GitInv, Settled
  PROVE  DeletedIsRemoved /\ ContentIsFresh /\ ExcludedIsRemoved
<1>0. /\ InTurn /\ RulesKnown /\ WrongAreWaiting /\ MonitorTyped
      /\ RulesFile \in Paths /\ m.ent \in [Paths -> 0..MaxVersion]
      /\ \A c \in Callers : flush[c].pc = "idle"
      /\ \A p \in Paths : statusPaths[p] = Now(p)
      /\ \A c \in Callers : k[c].pc = "idle"
      /\ w.pc = "idle" /\ queue = <<>> /\ ~timer
  BY GitAssumption, WorkerParts DEF GitInv, GitTyped, Settled, AtRest
<1>1. pendingAdd = {} /\ pendingDel = {}
  BY <1>0 DEF MonitorTyped
<1>2. ~RulesPending /\ \A p \in Paths : ~Pending(p)
  BY <1>0, <1>1 DEF RulesPending, Pending, Unnoticed
<1>3. \A p \in Paths : ~InFlush(p) /\ ~InQueue(p) /\ ~InWork(p)
  BY <1>0 DEF InFlush, InQueue, InWork, Looping, Asked
<1>4. rules = ignored
  BY <1>0, <1>2 DEF RulesKnown
<1>5. \A p \in Paths : ~Wrong(p)
  BY <1>0, <1>2, <1>3 DEF WrongAreWaiting, Waiting
<1>6. DeletedIsRemoved
  BY <1>5 DEF DeletedIsRemoved, Wrong
<1>7. ContentIsFresh
  BY <1>5 DEF ContentIsFresh, Wrong
<1>8. ExcludedIsRemoved
  BY <1>4, <1>5 DEF ExcludedIsRemoved, Wrong
<1> QED BY <1>6, <1>7, <1>8

LEMMA GitStartsRight ==
  ASSUME Roomy, GitInit
  PROVE  GitInv
<1> DEFINE e == [p \in Paths |-> InSync(p)]
<1>0. /\ 0 \in 0..MaxVersion /\ 1 \in 0..MaxVersion /\ MaxVersion \in Nat
      /\ RulesFile \in Paths
  BY SizesAssumption, GitAssumption, ZeroIsVersion
<1>1. e \in [Paths -> 0..MaxVersion]
  BY <1>0 DEF InSync
<1>2. m.ent = e /\ m.vec = [p \in Paths |-> FALSE] /\ m.total = Bytes(e, Paths)
  BY DEF GitInit
<1>3. /\ fs = [p \in Paths |-> 1] /\ clock = fs /\ head = fs /\ ignored = {} /\ rules = {}
      /\ queue = <<>> /\ askers = <<>> /\ pendingAdd = {} /\ pendingDel = {} /\ timer = FALSE
      /\ statusPaths = [p \in Paths |-> Clean] /\ poll = NoPoll
      /\ w = IdleWorker /\ w.pc = "idle"
      /\ k = [c \in Callers |-> IdleCaller] /\ flush = [c \in Callers |-> NoFlush]
  BY IdleWorkerFields DEF GitInit
<1>4. /\ \A c \in Callers : k[c].pc = "idle" /\ k[c] \in CallerRecord
      /\ \A c \in Callers : flush[c].pc = "idle"
  BY <1>3, Callees DEF NoFlush
<1>5. ManifestOK(m) /\ TotalOK(m)
  <2>1. Bytes(e, Paths) <= MaxTotalBytes
    BY <1>1 DEF Roomy
  <2> QED BY <1>1, <1>2, <2>1 DEF ManifestOK, TotalOK
<1>6. GitTyped
  <2>1. WorkerTyped
    <3>1. [p \in Paths |-> 0] \in [Paths -> 0..MaxVersion]
      BY <1>0
    <3> QED BY <1>0, <1>3, <3>1 DEF IdleWorker, WorkerTyped, WorkerStates
  <2>2. UserTyped
    BY <1>0, <1>3 DEF UserTyped
  <2>3. MonitorTyped
    <3>1. Clean \in Marks /\ Clean.ver = 0
      BY <1>0 DEF Clean, Marks
    <3>2. statusPaths \in [Paths -> Marks] /\ \A p \in Paths : statusPaths[p].ver <= clock[p]
      BY <1>3, <3>1
    <3> QED BY <1>3, <3>2 DEF MonitorTyped, NoPoll
  <2>4. FlushTyped
    BY <1>3, <1>4 DEF FlushTyped, FlushStates, NoFlush
  <2> QED BY <1>3, <1>5, <2>1, <2>2, <2>3, <2>4 DEF GitTyped, StoreTyped
<1>7. InTurn
  BY <1>3, <1>4 DEF InTurn, Quiet, InStep
<1>8. \A p \in Paths : ~Pending(p)
  BY <1>3 DEF Pending, Unnoticed, Now, Reported
<1>9. RemovedAreGone /\ RulesKnown
  BY <1>3, <1>4 DEF RemovedAreGone, RulesKnown
<1>10. \A p \in Paths : ~Wrong(p)
  BY <1>2, <1>3 DEF Wrong, Fits, Allowed, InSync
<1>11. PassKnows
  BY <1>3, IdleKnows
<1> HIDE DEF e
<1> QED BY <1>6, <1>7, <1>9, <1>10, <1>11 DEF GitInv, WrongAreWaiting

\* Whenever nothing is under way and a poll would find nothing new, the index has what
\* the worktree has: deleted and excluded files are gone from it, the others are there
\* with the content they have (pollOnce and flush in internal/indexing/git_change.go,
\* and the passes they ask the worker for).  It takes one flush at a time, a user who
\* lets a poll see a path before deleting, reverting or committing it, and room for
\* all there is: the first two do not hold of the code, and the runs GitSyncCommit and
\* GitSyncDelete show what happens without them.
THEOREM WorktreeIsFollowed ==
  ASSUME ~Hasty, OneFlush, Roomy
  PROVE  GitSpec => []IndexFollowsWorktree
<1>1. GitInit => GitInv
  BY GitStartsRight
<1>2. GitInv /\ [GitNext]_gitVars => GitInv'
  BY GitStepKeeps
<1>3. GitInv => IndexFollowsWorktree
  BY SettledIsRight DEF IndexFollowsWorktree, DeletedIsRemoved, ContentIsFresh,
     ExcludedIsRemoved
<1> QED BY <1>1, <1>2, <1>3, PTL DEF GitSpec
=============================================================================
