---------------------------- MODULE IndexerProofs ----------------------------
(***************************************************************************)
(* What holds of the index for every set of paths, sizes, callers and      *)
(* bounds: its type, that the chunks, vectors and postings of an entry are *)
(* those of the content the entry stands for, and that ignored paths stay  *)
(* out.  The argument is IInv of module Indexer.  On top of it: every      *)
(* entry has chunks (ChunkInv), TotalBytes is what the entries add up to   *)
(* (BytesInv), and a full pass is exact (RulesUntouched, WalkSeen and      *)
(* LoopExact).                                                             *)
(***************************************************************************)
EXTENDS Indexer, InductionProofs, TLAPS

LEMMA ZeroIsVersion == 0 \in 0..MaxVersion
  BY SizesAssumption

LEMMA EmptyManifestOK == ManifestOK(EmptyManifest)
  BY ZeroIsVersion DEF ManifestOK, EmptyManifest

LEMMA DroppedOK ==
  ASSUME NEW mm, ManifestOK(mm), NEW S
  PROVE  /\ ManifestOK(Dropped(mm, S))
         /\ \A p \in Paths : Dropped(mm, S).ent[p] \in {0, mm.ent[p]}
  BY ZeroIsVersion DEF ManifestOK, Dropped

LEMMA StoredOK ==
  ASSUME NEW mm, ManifestOK(mm), NEW p \in Paths, NEW v \in 0..MaxVersion,
         NEW hv \in BOOLEAN
  PROVE  /\ ManifestOK(Stored(mm, p, v, hv))
         /\ Stored(mm, p, v, hv).ent = [mm.ent EXCEPT ![p] = v]
  BY DEF ManifestOK, Stored

LEMMA ClearedOK ==
  ASSUME NEW f \in [Paths -> 0..MaxVersion], NEW S
  PROVE  /\ Cleared(f, S) \in [Paths -> 0..MaxVersion]
         /\ \A p \in Paths : Cleared(f, S)[p] \in {0, f[p]}
  BY ZeroIsVersion DEF Cleared

LEMMA IdleWorkerFields ==
  /\ IdleWorker.pc = "idle" /\ IdleWorker.cur = {}
  BY DEF IdleWorker

LEMMA QueueSame ==
  ASSUME QueueOK, UNCHANGED queue
  PROVE  QueueOK'
  BY DEF QueueOK

\* What a step that only forgets does to the store.
Forgets ==
  \A p \in Paths :
     /\ m'.ent[p] \in {0, m.ent[p]}
     /\ tri'[p] \in {0, tri[p]}
     /\ chunk'[p] \in {0, chunk[p]}
     /\ vec'[p] \in {0, vec[p]}

\* The worker leaves the path it was at, or is between two paths, or stays.
StaysOrLeaves ==
  /\ w'.cur \in {{}, w.cur}
  /\ \/ w'.cur = {}
     \/ w'.pc \notin {"work", "writing", "embed"}
     \/ w'.pc = w.pc /\ w'.ver = w.ver /\ w'.got = w.got

LEMMA DropLockedForgets ==
  ASSUME TypeOK, NEW S, DropLocked(S)
  PROVE  /\ Forgets
         /\ ManifestOK(m')
         /\ tri' \in [Paths -> 0..MaxVersion]
         /\ chunk' \in [Paths -> 0..MaxVersion]
         /\ vec' \in [Paths -> 0..MaxVersion]
  BY DroppedOK, ClearedOK DEF DropLocked, Forgets, TypeOK

\* Every version is a number, to compare with the others.
AllNumbers ==
  /\ clock \in [Paths -> Nat] /\ fs \in [Paths -> Nat]
  /\ chunk \in [Paths -> Nat] /\ vec \in [Paths -> Nat]
  /\ m.ent \in [Paths -> Nat] /\ disk.ent \in [Paths -> Nat]
  /\ \A a \in Savers : copy[a].ent \in [Paths -> Nat]
  /\ w.ver \in Nat /\ w.got \in Nat
  /\ w.cur \subseteq Paths

LEMMA AllNumbersHold == TypeOK => AllNumbers
  BY DEF TypeOK, ManifestOK, WorkerOK, AllNumbers

\* The facts about files and entries survive a step that only forgets, as long as
\* the worker does not enter a commit in it.
LEMMA ForgettingStep ==
  ASSUME IInv, TypeOK', Forgets, StaysOrLeaves,
         w.pc = "writing" => w'.cur = w.cur /\ w'.pc = w.pc,
         UNCHANGED <<fs, clock, disk, copy, rules, up>>
  PROVE  IInv'
<1> USE DEF IInv, Forgets, StaysOrLeaves, Busy, AllNumbers
<1>0. AllNumbers
  BY AllNumbersHold
<1>1. OneAtATime'
  BY DEF OneAtATime
<1>2. FilesBehindUser'
  BY <1>0 DEF FilesBehindUser
<1>3. WorkerAhead'
  BY <1>0 DEF WorkerAhead, Allowed
<1>4. PostingsBuilt'
  BY <1>0 DEF PostingsBuilt
<1>5. EntriesBehindFiles(m)'
  BY <1>0 DEF EntriesBehindFiles
<1>6. EntriesBehindFiles(disk)'
  BY <1>0 DEF EntriesBehindFiles
<1>7. \A a \in Savers : EntriesBehindFiles(copy[a])'
  BY <1>0 DEF EntriesBehindFiles
<1> QED
  BY <1>1, <1>2, <1>3, <1>4, <1>5, <1>6, <1>7

-----------------------------------------------------------------------------
(* The user                                                                 *)

LEMMA UserKeepsIInv ==
  ASSUME IInv, User
  PROVE  IInv'
<1> USE DEF IInv, AllNumbers
<1>0. AllNumbers /\ MaxVersion \in Nat
  BY AllNumbersHold, SizesAssumption
<1>1. ASSUME NEW p \in Paths, UserWrite(p) PROVE IInv'
  <2>0. UNCHANGED <<m, tri, chunk, vec, disk, saved, copy, up, rules, queue, w, k, ignored>>
    BY <1>1 DEF UserWrite, store, onDisk, life
  <2>1. /\ clock' = [clock EXCEPT ![p] = @ + 1]
        /\ fs' = [fs EXCEPT ![p] = clock[p] + 1]
        /\ clock[p] < MaxVersion
    BY <1>1 DEF UserWrite
  <2>2. TypeOK'
    BY <2>0, <2>1, SizesAssumption, QueueSame DEF TypeOK, ManifestOK, WorkerOK
  <2>3. \A q \in Paths : clock[q] <= clock'[q] /\ clock'[q] \in Nat
    BY <1>0, <2>1
  <2>4. FilesBehindUser'
    BY <1>0, <2>0, <2>1, <2>3 DEF FilesBehindUser
  <2>5. OneAtATime' /\ WorkerAhead' /\ PostingsBuilt'
    BY <1>0, <2>0, <2>3 DEF OneAtATime, WorkerAhead, PostingsBuilt, Busy
  <2>6. /\ EntriesBehindFiles(m)' /\ EntriesBehindFiles(disk)'
        /\ \A a \in Savers : EntriesBehindFiles(copy[a])'
    BY <1>0, <2>0, <2>3 DEF EntriesBehindFiles, Busy
  <2> QED
    BY <2>2, <2>4, <2>5, <2>6
<1>2. ASSUME NEW p \in Paths, UserDelete(p) PROVE IInv'
  <2>0. UNCHANGED <<m, tri, chunk, vec, disk, saved, copy, up, rules, queue, w, k, ignored, clock>>
    BY <1>2 DEF UserDelete, store, onDisk, life
  <2>1. fs' = [fs EXCEPT ![p] = 0]
    BY <1>2 DEF UserDelete
  <2>2. TypeOK'
    BY <2>0, <2>1, ZeroIsVersion, QueueSame DEF TypeOK, ManifestOK, WorkerOK
  <2>3. FilesBehindUser'
    BY <1>0, <2>0, <2>1 DEF FilesBehindUser
  <2>4. OneAtATime' /\ WorkerAhead' /\ PostingsBuilt'
    BY <2>0 DEF OneAtATime, WorkerAhead, PostingsBuilt, Busy
  <2>5. /\ EntriesBehindFiles(m)' /\ EntriesBehindFiles(disk)'
        /\ \A a \in Savers : EntriesBehindFiles(copy[a])'
    BY <2>0 DEF EntriesBehindFiles, Busy
  <2> QED
    BY <2>2, <2>3, <2>4, <2>5
<1>3. ASSUME NEW S \in SUBSET Paths, UserEditIgnore(S) PROVE IInv'
  <2>0. /\ UNCHANGED <<m, tri, chunk, vec, disk, saved, copy, up, rules, queue, w, k, fs, clock>>
        /\ ignored' = S
    BY <1>3 DEF UserEditIgnore, store, onDisk, life
  <2>1. TypeOK'
    BY <2>0, QueueSame DEF TypeOK, ManifestOK, WorkerOK
  <2>2. OneAtATime' /\ FilesBehindUser' /\ WorkerAhead' /\ PostingsBuilt'
    BY <2>0 DEF OneAtATime, FilesBehindUser, WorkerAhead, PostingsBuilt, Busy
  <2>3. /\ EntriesBehindFiles(m)' /\ EntriesBehindFiles(disk)'
        /\ \A a \in Savers : EntriesBehindFiles(copy[a])'
    BY <2>0 DEF EntriesBehindFiles, Busy
  <2> QED
    BY <2>1, <2>2, <2>3
<1> QED
  BY <1>1, <1>2, <1>3 DEF User

LEMMA InitIInv == Init => IInv
<1> SUFFICES ASSUME Init PROVE IInv
  OBVIOUS
<1>0. EmptyManifest.ent = [p \in Paths |-> 0]
  BY DEF EmptyManifest
<1>1. TypeOK
  <2>1. WorkerOK
    BY ZeroIsVersion DEF Init, WorkerOK, WorkerStates, IdleWorker
  <2>2. k \in [Callers -> CallerRecord]
    BY DEF Init, CallerRecord, CallerStates, IdleCaller
  <2>3. fs \in [Paths -> 0..MaxVersion] /\ clock \in [Paths -> 0..MaxVersion]
    <3>1. 0..1 \subseteq 0..MaxVersion
      BY SizesAssumption
    <3> QED
      BY <3>1 DEF Init
  <2>4. QueueOK
    BY DEF Init, QueueOK
  <2> QED
    BY <2>1, <2>2, <2>3, <2>4, EmptyManifestOK, ZeroIsVersion DEF Init, TypeOK
<1>2. OneAtATime /\ FilesBehindUser /\ WorkerAhead /\ PostingsBuilt
  BY IdleWorkerFields DEF Init, OneAtATime, FilesBehindUser, WorkerAhead, PostingsBuilt, Busy
<1>3. EntriesBehindFiles(EmptyManifest)
  BY <1>0, IdleWorkerFields DEF Init, EntriesBehindFiles, Busy
<1> QED
  BY <1>1, <1>2, <1>3 DEF Init, IInv

-----------------------------------------------------------------------------
(* The worker's steps that forget or only move on.  Each leaves the worker  *)
(* at no path or where it was, and keeps every other part of the state.     *)

LEMMA IdleWorkerOK == w' = IdleWorker => WorkerOK' /\ w'.cur = {} /\ w'.pc = "idle"
  BY ZeroIsVersion DEF IdleWorker, WorkerOK, WorkerStates

LEMMA RejectMoves ==
  ASSUME TypeOK, NEW p, NEW existing, NEW capacity \in BOOLEAN,
         Reject(p, existing, capacity),
         UNCHANGED <<fs, clock, disk, copy, rules, up, ignored, saved, k, queue>>
  PROVE  Forgets /\ TypeOK' /\ w'.cur = {}
<1>1. DropLocked({p})
  BY DEF Reject, Remove, Evict
<1>2. /\ Forgets /\ ManifestOK(m')
      /\ tri' \in [Paths -> 0..MaxVersion]
      /\ chunk' \in [Paths -> 0..MaxVersion]
      /\ vec' \in [Paths -> 0..MaxVersion]
  BY <1>1, DropLockedForgets
<1>3. WorkerOK' /\ w'.cur = {}
  <2>0. WorkerOK
    BY DEF TypeOK
  <2>1. CASE w.full
    <3>1. w' = [w EXCEPT !.pc = "marshal", !.after = "next", !.todo = @ \ {p}, !.cur = {},
                         !.partial = @ \/ capacity, !.local = @ - existing]
      BY <2>1 DEF Reject, Remove
    <3> QED
      BY <2>0, <3>1 DEF WorkerOK, WorkerStates
  <2>2. CASE ~w.full
    <3>1. w' = [w EXCEPT !.pc = "next", !.todo = @ \ {p}, !.cur = {},
                         !.changed = @ \/ m.ent[p] # 0,
                         !.local = @ - SizeOf(p, m.ent[p])]
      BY <2>2 DEF Reject, Evict
    <3> QED
      BY <2>0, <3>1 DEF WorkerOK, WorkerStates
  <2> QED
    BY <2>1, <2>2
<1> QED
  BY <1>2, <1>3, QueueSame DEF TypeOK, ManifestOK

LEMMA WorkerMovesOn ==
  ASSUME IInv, WorkerOK', QueueOK', UNCHANGED store, WorkerKeeps, StaysOrLeaves,
         w.pc = "writing" => w'.cur = w.cur /\ w'.pc = w.pc
  PROVE  IInv'
<1>1. TypeOK'
  BY DEF IInv, TypeOK, ManifestOK, store, WorkerKeeps, onDisk, user, life
<1> QED
  BY <1>1, ForgettingStep DEF Forgets, store, WorkerKeeps, onDisk, user, life
LEMMA PassOverPaths ==
  ASSUME NEW T \in SUBSET Paths, NEW R \in SUBSET Paths, NEW b \in BOOLEAN, NEW n,
         w' = [IdleWorker EXCEPT !.pc = "next", !.live = b, !.todo = T,
                                 !.rules = R, !.local = n]
  PROVE  WorkerOK' /\ w'.cur = {}
  BY ZeroIsVersion DEF IdleWorker, WorkerOK, WorkerStates

LEMMA SimpleWorkerSteps ==
  ASSUME IInv, NEW p, NEW b \in BOOLEAN,
         \/ WTake(b) \/ WCancel \/ WWalk \/ WCancelled \/ WUnchanged(p) \/ WLoopEnds(b)
         \/ WBackfillStops \/ WBackfillEnds \/ WFinish
  PROVE  IInv'
<1>0. WorkerOK /\ QueueOK
  BY DEF IInv, TypeOK
<1>1. CASE WTake(b)
  <2>1. w.pc = "idle" /\ UNCHANGED store /\ WorkerKeeps
    BY <1>1 DEF WTake
  <2>2. queue # <<>> /\ queue' = Tail(queue) /\ Head(queue) \in Request
    BY <1>0, <1>1 DEF WTake, QueueOK
  <2>3. QueueOK'
    BY <1>0, <2>2 DEF QueueOK
  <2>4. Head(queue).paths \subseteq Paths
    BY <2>2 DEF Request
  <2>5. WorkerOK' /\ w'.cur = {}
    <3>1. CASE Head(queue).full
      <4>1. w' = [IdleWorker EXCEPT !.pc = "walk", !.full = TRUE, !.live = b]
        BY <1>1, <3>1 DEF WTake
      <4> QED
        BY <4>1, ZeroIsVersion DEF IdleWorker, WorkerOK, WorkerStates
    <3>2. CASE ~Head(queue).full /\ Head(queue).paths = {}
      BY <1>1, <3>2, ZeroIsVersion DEF WTake, IdleWorker, WorkerOK, WorkerStates
    <3>3. CASE ~Head(queue).full /\ Head(queue).paths # {}
      <4>1. w' = [IdleWorker EXCEPT !.pc = "next", !.live = b, !.todo = Head(queue).paths,
                                    !.rules = rules, !.local = m.total]
        BY <1>1, <3>3 DEF WTake
      <4>2. rules \subseteq Paths
        BY DEF IInv, TypeOK
      <4> QED
        BY <4>1, <4>2, <2>4, PassOverPaths
    <3> QED
      BY <3>1, <3>2, <3>3
  <2> QED
    BY <2>1, <2>3, <2>5, WorkerMovesOn DEF StaysOrLeaves
<1>2. CASE WCancel
  <2>1. w' = [w EXCEPT !.live = FALSE] /\ UNCHANGED store /\ UNCHANGED queue /\ WorkerKeeps
    BY <1>2 DEF WCancel
  <2>2. WorkerOK' /\ StaysOrLeaves /\ w'.cur = w.cur /\ w'.pc = w.pc
    BY <1>0, <2>1 DEF WorkerOK, StaysOrLeaves
  <2> QED
    BY <1>0, <2>1, <2>2, QueueSame, WorkerMovesOn
<1>3. CASE WWalk
  <2>0. fs \in [Paths -> 0..MaxVersion]
    BY DEF IInv, TypeOK
  <2>1. UNCHANGED store /\ UNCHANGED queue /\ WorkerKeeps /\ w.pc = "walk"
    BY <1>3 DEF WWalk
  <2>2. CASE w.live
    <3> DEFINE seen == [q \in Paths |-> IF Allowed(rules, q) /\ Fits(q) THEN fs[q] ELSE 0]
               todo == {q \in Paths : Allowed(rules, q) /\ Fits(q)}
    <3>1. w' = [w EXCEPT !.pc = "prune", !.todo = todo, !.seen = seen]
      BY <1>3, <2>2 DEF WWalk
    <3>2. seen \in [Paths -> 0..MaxVersion] /\ todo \in SUBSET Paths
      BY <2>0, ZeroIsVersion
    <3> HIDE DEF seen, todo
    <3>3. WorkerOK' /\ StaysOrLeaves
      BY <1>0, <3>1, <3>2 DEF WorkerOK, WorkerStates, StaysOrLeaves
    <3> QED
      BY <1>0, <2>1, <3>3, QueueSame, WorkerMovesOn
  <2>3. CASE ~w.live
    <3>1. w' = IdleWorker
      BY <1>3, <2>3 DEF WWalk
    <3> QED
      BY <1>0, <2>1, <3>1, QueueSame, WorkerMovesOn, IdleWorkerOK
         DEF StaysOrLeaves
  <2> QED
    BY <2>2, <2>3
<1>4. CASE WCancelled \/ WFinish
  <2>1. /\ UNCHANGED store /\ UNCHANGED queue /\ WorkerKeeps
        /\ w' = IdleWorker /\ w.pc # "writing"
    BY <1>4 DEF WCancelled, WFinish
  <2> QED
    BY <1>0, <2>1, QueueSame, WorkerMovesOn, IdleWorkerOK DEF StaysOrLeaves
<1>5. CASE WUnchanged(p)
  <2>1. /\ UNCHANGED store /\ UNCHANGED queue /\ WorkerKeeps
        /\ w' = [w EXCEPT !.todo = @ \ {p}]
    BY <1>5 DEF WUnchanged
  <2>2. WorkerOK' /\ StaysOrLeaves /\ w'.cur = w.cur /\ w'.pc = w.pc
    BY <1>0, <2>1 DEF WorkerOK, StaysOrLeaves
  <2> QED
    BY <1>0, <2>1, <2>2, QueueSame, WorkerMovesOn
<1>6. CASE WLoopEnds(b)
  <2>1. UNCHANGED store /\ UNCHANGED queue /\ WorkerKeeps /\ w.pc = "next"
    BY <1>6 DEF WLoopEnds
  <2>2. CASE w.full
    <3> DEFINE todo == {q \in Paths : b /\ m.ent[q] # 0 /\ (~m.vec[q] \/ vec[q] = 0)}
    <3>1. w' = [w EXCEPT !.pc = "backfill", !.todo = todo] /\ todo \in SUBSET Paths
      BY <1>6, <2>2 DEF WLoopEnds
    <3> HIDE DEF todo
    <3>2. WorkerOK' /\ StaysOrLeaves
      BY <1>0, <3>1 DEF WorkerOK, WorkerStates, StaysOrLeaves
    <3> QED
      BY <1>0, <2>1, <3>2, QueueSame, WorkerMovesOn
  <2>3. CASE ~w.full /\ w.changed
    <3>1. w' = [w EXCEPT !.pc = "marshal", !.after = "finish"]
      BY <1>6, <2>3 DEF WLoopEnds
    <3>2. WorkerOK' /\ StaysOrLeaves
      BY <1>0, <3>1 DEF WorkerOK, WorkerStates, StaysOrLeaves
    <3> QED
      BY <1>0, <2>1, <3>2, QueueSame, WorkerMovesOn
  <2>4. CASE ~w.full /\ ~w.changed
    <3>1. w' = IdleWorker
      BY <1>6, <2>4 DEF WLoopEnds
    <3> QED
      BY <1>0, <2>1, <3>1, QueueSame, WorkerMovesOn, IdleWorkerOK
         DEF StaysOrLeaves
  <2> QED
    BY <2>2, <2>3, <2>4
<1>7. CASE WBackfillStops
  <2>1. /\ UNCHANGED store /\ UNCHANGED queue /\ WorkerKeeps /\ w.pc = "embed"
        /\ w' = [w EXCEPT !.pc = "backfill", !.todo = {}, !.cur = {}]
    BY <1>7 DEF WBackfillStops
  <2>2. WorkerOK' /\ StaysOrLeaves
    BY <1>0, <2>1 DEF WorkerOK, WorkerStates, StaysOrLeaves
  <2> QED
    BY <1>0, <2>1, <2>2, QueueSame, WorkerMovesOn
<1>8. CASE WBackfillEnds
  <2>1. /\ UNCHANGED store /\ UNCHANGED queue /\ WorkerKeeps /\ w.pc = "backfill"
        /\ w' = [w EXCEPT !.pc = "marshal", !.after = "finish"]
    BY <1>8 DEF WBackfillEnds
  <2>2. WorkerOK' /\ StaysOrLeaves
    BY <1>0, <2>1 DEF WorkerOK, WorkerStates, StaysOrLeaves
  <2> QED
    BY <1>0, <2>1, <2>2, QueueSame, WorkerMovesOn
<1> QED
  BY <1>1, <1>2, <1>3, <1>4, <1>5, <1>6, <1>7, <1>8
LEMMA RejectingSteps ==
  ASSUME IInv, NEW p,
         \/ WPrune \/ WSkipIneligible(p) \/ WOpenFails(p) \/ WChangedDuringRead(p)
         \/ WCommitNoCapacity(p) \/ WCommitDisallowed(p)
  PROVE  IInv'
<1>0. TypeOK /\ WorkerOK
  BY DEF IInv, TypeOK
<1>1. CASE WPrune
  <2>1. /\ DropLocked(Paths \ w.todo) /\ UNCHANGED queue /\ WorkerKeeps /\ w.pc = "prune"
        /\ w' = [w EXCEPT !.pc = "next", !.local = m'.total]
    BY <1>1 DEF WPrune
  <2>2. WorkerOK' /\ StaysOrLeaves
    BY <1>0, <2>1 DEF WorkerOK, WorkerStates, StaysOrLeaves
  <2>3. TypeOK'
    BY <1>0, <2>1, <2>2, DropLockedForgets, QueueSame
       DEF TypeOK, ManifestOK, WorkerKeeps, onDisk, user, life
  <2> QED
    BY <1>0, <2>1, <2>2, <2>3, DropLockedForgets, ForgettingStep
       DEF WorkerKeeps, onDisk, user, life
<1>2. CASE \/ WSkipIneligible(p) \/ WOpenFails(p) \/ WChangedDuringRead(p)
           \/ WCommitNoCapacity(p)
  <2>1. /\ UNCHANGED queue /\ WorkerKeeps /\ w.pc # "writing"
        /\ \E existing : \E capacity \in BOOLEAN : Reject(p, existing, capacity)
    <3>1. OverBudget(p) \in BOOLEAN
      BY DEF OverBudget
    <3>2. CASE WSkipIneligible(p)
      BY <3>1, <3>2 DEF WSkipIneligible, AtPath
    <3>3. CASE WOpenFails(p) \/ WChangedDuringRead(p) \/ WCommitNoCapacity(p)
      BY <3>3 DEF WOpenFails, WChangedDuringRead, WCommitNoCapacity, AtPath
    <3> QED
      BY <1>2, <3>2, <3>3
  <2>2. Forgets /\ TypeOK' /\ w'.cur = {}
    BY <1>0, <2>1, RejectMoves DEF WorkerKeeps, onDisk, user, life
  <2> QED
    BY <2>1, <2>2, ForgettingStep DEF WorkerKeeps, onDisk, user, life, StaysOrLeaves
<1>3. CASE WCommitDisallowed(p)
  <2>1. /\ m' = Dropped(m, {p}) /\ tri' = Cleared(tri, {p})
        /\ chunk' = Cleared(chunk, {p}) /\ vec' = Cleared(vec, {p})
        /\ UNCHANGED queue /\ WorkerKeeps /\ w.pc = "work"
        /\ w' = [w EXCEPT !.pc = "next", !.todo = @ \ {p}, !.cur = {},
                          !.changed = @ \/ m.ent[p] # 0,
                          !.local = @ - SizeOf(p, m.ent[p])]
    BY <1>3 DEF WCommitDisallowed
  <2>2. WorkerOK' /\ StaysOrLeaves
    BY <1>0, <2>1 DEF WorkerOK, WorkerStates, StaysOrLeaves
  <2>3. /\ Forgets /\ ManifestOK(m')
        /\ tri' \in [Paths -> 0..MaxVersion]
        /\ chunk' \in [Paths -> 0..MaxVersion]
        /\ vec' \in [Paths -> 0..MaxVersion]
    BY <1>0, <2>1, DroppedOK, ClearedOK DEF Forgets, TypeOK
  <2>4. TypeOK'
    BY <1>0, <2>1, <2>2, <2>3, QueueSame
       DEF TypeOK, ManifestOK, WorkerKeeps, onDisk, user, life
  <2> QED
    BY <2>1, <2>2, <2>3, <2>4, ForgettingStep DEF WorkerKeeps, onDisk, user, life
<1> QED
  BY <1>1, <1>2, <1>3

-----------------------------------------------------------------------------
(* The worker's steps that read, commit and save                            *)

\* indexOne reads a version the user wrote, none older than what is stored.
LEMMA ReadKeepsIInv ==
  ASSUME IInv, up, NEW p \in Paths, WRead(p)
  PROVE  IInv'
<1> USE DEF IInv, AllNumbers
<1>0. TypeOK /\ WorkerOK /\ AllNumbers
  BY AllNumbersHold DEF TypeOK
<1>1. /\ w' = [w EXCEPT !.pc = "work", !.cur = {p}, !.ver = fs[p], !.had = SizeOf(p, m.ent[p])]
      /\ UNCHANGED <<m, tri, chunk, vec, disk, saved, copy, fs, clock, ignored, rules,
                     queue, up, k>>
      /\ w.pc = "next" /\ fs[p] # 0
  BY DEF WRead, WorkerKeeps, AtPath, Fits, store, onDisk, user, life
<1>2. fs[p] \in 0..MaxVersion
  BY <1>0 DEF TypeOK
<1>3. WorkerOK' /\ w'.pc = "work" /\ w'.cur = {p} /\ w'.ver = fs[p]
  BY <1>0, <1>1, <1>2 DEF WorkerOK, WorkerStates
<1>4. TypeOK'
  BY <1>0, <1>1, <1>3, QueueSame DEF TypeOK, ManifestOK
<1>5. fs[p] = clock[p]
  BY <1>1 DEF FilesBehindUser
<1>6. OneAtATime' /\ FilesBehindUser' /\ WorkerAhead' /\ PostingsBuilt'
  BY <1>0, <1>1, <1>3, <1>5
     DEF OneAtATime, FilesBehindUser, WorkerAhead, PostingsBuilt, Busy
<1>7. /\ EntriesBehindFiles(m)' /\ EntriesBehindFiles(disk)'
      /\ \A a \in Savers : EntriesBehindFiles(copy[a])'
  BY <1>0, <1>1, <1>3, <1>5 DEF EntriesBehindFiles, Busy
<1> QED
  BY <1>4, <1>6, <1>7

\* The chunk file moves to the version to commit: forward, never back.
LEMMA WriteChunksKeepsIInv ==
  ASSUME IInv, NEW p \in Paths, WWriteChunks(p)
  PROVE  IInv'
<1> USE DEF IInv, AllNumbers
<1>0. TypeOK /\ WorkerOK /\ AllNumbers
  BY AllNumbersHold DEF TypeOK
<1>1. /\ chunk' = [chunk EXCEPT ![p] = w.ver] /\ w' = [w EXCEPT !.pc = "writing"]
      /\ UNCHANGED <<m, tri, vec, disk, saved, copy, fs, clock, ignored, rules,
                     queue, up, k>>
      /\ w.pc = "work" /\ p \in w.cur /\ Allowed(rules, p)
  BY DEF WWriteChunks, WorkerKeeps, onDisk, user, life
<1>2. w.ver \in 0..MaxVersion
  BY <1>0 DEF WorkerOK
<1>3. WorkerOK' /\ w'.pc = "writing" /\ w'.cur = w.cur /\ w'.ver = w.ver
  BY <1>0, <1>1 DEF WorkerOK, WorkerStates
<1>4. TypeOK'
  BY <1>0, <1>1, <1>2, <1>3, QueueSame DEF TypeOK, ManifestOK
<1>5. \A q \in Paths : q # p => ~Busy(q, {"work", "writing", "embed"})
  BY <1>1 DEF OneAtATime, Busy
<1>6. /\ chunk'[p] = w.ver /\ \A q \in Paths : q # p => chunk'[q] = chunk[q]
      /\ \A q \in w'.cur : q = p
  BY <1>0, <1>1, <1>3 DEF OneAtATime
<1>7. /\ w.ver # 0 /\ w.ver <= clock[p] /\ vec[p] <= w.ver
  BY <1>1 DEF WorkerAhead, Busy
<1>8. OneAtATime' /\ FilesBehindUser' /\ WorkerAhead' /\ PostingsBuilt'
  BY <1>0, <1>1, <1>3, <1>6, <1>7
     DEF OneAtATime, FilesBehindUser, WorkerAhead, PostingsBuilt, Busy, Allowed
<1>9. /\ EntriesBehindFiles(m)' /\ EntriesBehindFiles(disk)'
      /\ \A a \in Savers : EntriesBehindFiles(copy[a])'
  BY <1>0, <1>1, <1>3, <1>6 DEF EntriesBehindFiles, Busy
<1> QED
  BY <1>4, <1>8, <1>9

\* Entry, sidecar and postings reach the version the chunk file has.
LEMMA StoreKeepsIInv ==
  ASSUME IInv, NEW p \in Paths, NEW embedded \in BOOLEAN, WStore(p, embedded)
  PROVE  IInv'
<1> USE DEF IInv, AllNumbers
<1>0. TypeOK /\ WorkerOK /\ AllNumbers /\ ManifestOK(m)
  BY AllNumbersHold DEF TypeOK
<1>1. /\ vec' = [vec EXCEPT ![p] = IF embedded THEN w.ver ELSE 0]
      /\ m' = Stored(m, p, w.ver, embedded)
      /\ tri' = [tri EXCEPT ![p] = w.ver]
      /\ w' = [w EXCEPT !.pc = "next", !.todo = @ \ {p}, !.cur = {}, !.changed = TRUE,
                        !.local = @ + SizeOf(p, w.ver) - SizeOf(p, m.ent[p])]
      /\ UNCHANGED <<chunk, disk, saved, copy, fs, clock, ignored, rules, queue, up, k>>
      /\ w.pc = "writing" /\ p \in w.cur
  BY DEF WStore, WStoreAs, WorkerKeeps, onDisk, user, life
<1>2. w.ver \in 0..MaxVersion
  BY <1>0 DEF WorkerOK
<1>3. WorkerOK' /\ w'.cur = {}
  BY <1>0, <1>1 DEF WorkerOK, WorkerStates
<1>4. ManifestOK(m') /\ m'.ent = [m.ent EXCEPT ![p] = w.ver]
  BY <1>0, <1>1, <1>2, StoredOK
<1>5. TypeOK'
  BY <1>0, <1>1, <1>2, <1>3, <1>4, ZeroIsVersion, QueueSame DEF TypeOK, ManifestOK
<1>6. /\ w.ver # 0 /\ w.ver <= clock[p] /\ chunk[p] \in {0, w.ver}
      /\ \A q \in w.cur : q = p
  BY <1>1 DEF WorkerAhead, Busy, OneAtATime
<1>7. /\ vec'[p] \in {0, w.ver} /\ tri'[p] = w.ver /\ m'.ent[p] = w.ver
      /\ \A q \in Paths : q # p => /\ vec'[q] = vec[q] /\ tri'[q] = tri[q]
                                   /\ m'.ent[q] = m.ent[q]
  BY <1>0, <1>1, <1>4 DEF TypeOK
<1>8. /\ OneAtATime' /\ FilesBehindUser' /\ WorkerAhead' /\ PostingsBuilt'
  BY <1>0, <1>1, <1>3, <1>6, <1>7
     DEF OneAtATime, FilesBehindUser, WorkerAhead, PostingsBuilt, Busy
<1>9. EntriesBehindFiles(m)'
  BY <1>0, <1>1, <1>3, <1>6, <1>7 DEF EntriesBehindFiles, Busy
<1>10. /\ EntriesBehindFiles(disk)'
       /\ \A a \in Savers : EntriesBehindFiles(copy[a])'
  BY <1>0, <1>1, <1>3, <1>6, <1>7 DEF EntriesBehindFiles, Busy
<1> QED
  BY <1>5, <1>8, <1>9, <1>10

\* The backfill embeds the chunks an entry has, and stores their vectors.
LEMMA BackfillKeepsIInv ==
  ASSUME IInv, up, NEW p \in Paths, WBackfillRead(p) \/ WBackfillStore(p)
  PROVE  IInv'
<1> USE DEF IInv, AllNumbers
<1>0. TypeOK /\ WorkerOK /\ QueueOK /\ AllNumbers /\ ManifestOK(m)
  BY AllNumbersHold DEF TypeOK
<1>1. CASE WBackfillRead(p) /\ (m.ent[p] = 0 \/ chunk[p] = 0)
  <2>1. /\ w' = [w EXCEPT !.todo = @ \ {p}]
        /\ UNCHANGED store /\ UNCHANGED queue /\ WorkerKeeps
    BY <1>1 DEF WBackfillRead
  <2>2. WorkerOK' /\ StaysOrLeaves /\ w'.cur = w.cur /\ w'.pc = w.pc
    BY <1>0, <2>1 DEF WorkerOK, StaysOrLeaves
  <2> QED
    BY <1>0, <2>1, <2>2, QueueSame, WorkerMovesOn
<1>2. CASE WBackfillRead(p) /\ m.ent[p] # 0 /\ chunk[p] # 0
  <2>1. /\ w' = [w EXCEPT !.pc = "embed", !.cur = {p}, !.ver = m.ent[p], !.got = chunk[p]]
        /\ UNCHANGED <<m, tri, chunk, vec, disk, saved, copy, fs, clock, ignored, rules,
                       queue, up, k>>
        /\ w.pc = "backfill"
    BY <1>2 DEF WBackfillRead, WorkerKeeps, store, onDisk, user, life
  <2>2. m.ent[p] \in 0..MaxVersion /\ chunk[p] \in 0..MaxVersion
    BY <1>0 DEF TypeOK, ManifestOK
  <2>3. WorkerOK' /\ w'.pc = "embed" /\ w'.cur = {p} /\ w'.got = chunk[p]
    BY <1>0, <2>1, <2>2 DEF WorkerOK, WorkerStates
  <2>4. TypeOK'
    BY <1>0, <2>1, <2>3, QueueSame DEF TypeOK, ManifestOK
  <2>5. OneAtATime' /\ FilesBehindUser' /\ WorkerAhead' /\ PostingsBuilt'
    BY <1>0, <1>2, <2>1, <2>3
       DEF OneAtATime, FilesBehindUser, WorkerAhead, PostingsBuilt, Busy
  <2>6. /\ EntriesBehindFiles(m)' /\ EntriesBehindFiles(disk)'
        /\ \A a \in Savers : EntriesBehindFiles(copy[a])'
    BY <1>0, <1>2, <2>1, <2>3 DEF EntriesBehindFiles, Busy
  <2> QED
    BY <2>4, <2>5, <2>6
<1>3. CASE WBackfillStore(p)
  <2>1. /\ UNCHANGED <<tri, chunk, disk, saved, copy, fs, clock, ignored, rules,
                       queue, up, k>>
        /\ w' = [w EXCEPT !.pc = "backfill", !.todo = @ \ {p}, !.cur = {}]
        /\ w.pc = "embed" /\ p \in w.cur
        /\ \/ /\ m.ent[p] = w.ver
              /\ vec' = [vec EXCEPT ![p] = w.got] /\ m' = Stored(m, p, w.ver, TRUE)
           \/ UNCHANGED <<m, vec>>
    BY <1>3 DEF WBackfillStore, WorkerKeeps, onDisk, user, life
  <2>2. w.got \in 0..MaxVersion
    BY <1>0 DEF WorkerOK
  <2>3. WorkerOK' /\ w'.cur = {}
    BY <1>0, <2>1 DEF WorkerOK, WorkerStates
  <2>4. ManifestOK(m') /\ m'.ent = m.ent
    <3>1. w.ver \in 0..MaxVersion
      BY <1>0 DEF WorkerOK
    <3>2. m.ent[p] = w.ver => [m.ent EXCEPT ![p] = w.ver] = m.ent
      BY <1>0
    <3>3. CASE m' = Stored(m, p, w.ver, TRUE) /\ m.ent[p] = w.ver
      <4>1. ASSUME NEW hv \in BOOLEAN
            PROVE  /\ ManifestOK(Stored(m, p, w.ver, hv))
                   /\ Stored(m, p, w.ver, hv).ent = [m.ent EXCEPT ![p] = w.ver]
        BY <1>0, <3>1, StoredOK
      <4> QED
        BY <3>2, <3>3, <4>1
    <3>4. CASE UNCHANGED <<m, vec>>
      BY <1>0, <3>4 DEF ManifestOK
    <3> QED
      BY <2>1, <3>3, <3>4
  <2>5. vec' \in [Paths -> 0..MaxVersion]
    BY <1>0, <2>1, <2>2 DEF TypeOK
  <2>6. TypeOK'
    BY <1>0, <2>1, <2>3, <2>4, <2>5, QueueSame DEF TypeOK, ManifestOK
  <2>7. \A q \in Paths : vec'[q] = vec[q] \/ (q = p /\ vec'[q] = w.got)
    BY <1>0, <2>1
  <2>8. /\ w.got # 0 /\ w.got <= clock[p] /\ chunk[p] \in {0, w.got}
    BY <2>1 DEF WorkerAhead, Busy
  <2>9. OneAtATime' /\ FilesBehindUser' /\ WorkerAhead' /\ PostingsBuilt'
    BY <1>0, <2>1, <2>3, <2>7, <2>8
       DEF OneAtATime, FilesBehindUser, WorkerAhead, PostingsBuilt, Busy
  <2>10. EntriesBehindFiles(m)'
    BY <1>0, <2>1, <2>3, <2>4, <2>7 DEF EntriesBehindFiles, Busy
  <2>11. /\ EntriesBehindFiles(disk)'
         /\ \A a \in Savers : EntriesBehindFiles(copy[a])'
    BY <1>0, <2>1, <2>3, <2>7 DEF EntriesBehindFiles, Busy
  <2> QED
    BY <2>6, <2>9, <2>10, <2>11
<1> QED
  BY <1>1, <1>2, <1>3

\* Saving moves manifests between memory, the savers' copies and the disk.
LEMMA SavingStep ==
  ASSUME IInv, TypeOK', StaysOrLeaves,
         UNCHANGED <<m, tri, chunk, vec, fs, clock, rules, up>>,
         w.pc = "writing" => w'.cur = w.cur /\ w'.pc = w.pc,
         \A a \in Savers : copy'[a] = m \/ copy'[a] = copy[a],
         disk' = disk \/ \E a \in Savers : disk' = copy[a]
  PROVE  IInv'
<1> USE DEF IInv, StaysOrLeaves
<1>1. OneAtATime' /\ FilesBehindUser' /\ WorkerAhead' /\ PostingsBuilt'
  BY DEF OneAtATime, FilesBehindUser, WorkerAhead, PostingsBuilt, Busy
<1>2. EntriesBehindFiles(m)'
  BY DEF EntriesBehindFiles, Busy
<1>3. EntriesBehindFiles(disk)'
  <2>1. CASE disk' = disk
    BY <2>1 DEF EntriesBehindFiles, Busy
  <2>2. ASSUME NEW a \in Savers, disk' = copy[a] PROVE EntriesBehindFiles(disk)'
    <3>1. EntriesBehindFiles(copy[a])
      OBVIOUS
    <3> QED
      BY <2>2, <3>1 DEF EntriesBehindFiles, Busy
  <2> QED
    BY <2>1, <2>2
<1>4. ASSUME NEW a \in Savers PROVE EntriesBehindFiles(copy[a])'
  <2>1. EntriesBehindFiles(m) /\ EntriesBehindFiles(copy[a])
    OBVIOUS
  <2>2. CASE copy'[a] = m
    BY <2>1, <2>2 DEF EntriesBehindFiles, Busy
  <2>3. CASE copy'[a] = copy[a]
    BY <2>1, <2>3 DEF EntriesBehindFiles, Busy
  <2> QED
    BY <2>2, <2>3
<1> QED
  BY <1>1, <1>2, <1>3, <1>4

LEMMA WorkerSaveKeepsIInv ==
  ASSUME IInv, WMarshal \/ WPublish
  PROVE  IInv'
<1>0. TypeOK /\ WorkerOK /\ ManifestOK(m) /\ "worker" \in Savers /\ DOMAIN copy = Savers
  BY DEF IInv, TypeOK, Savers
<1>1. CASE WMarshal
  <2>1. /\ UNCHANGED <<m, tri, chunk, vec, disk, saved, fs, clock, ignored, rules, queue, up, k>>
        /\ w.pc = "marshal" /\ w' = [w EXCEPT !.pc = "publish"]
        /\ copy' = [copy EXCEPT !["worker"] = m]
    BY <1>1 DEF WMarshal, store, user, life
  <2>2. WorkerOK' /\ StaysOrLeaves
    BY <1>0, <2>1 DEF WorkerOK, WorkerStates, StaysOrLeaves
  <2>3. DOMAIN copy' = Savers /\ \A a \in Savers : copy'[a] = m \/ copy'[a] = copy[a]
    BY <1>0, <2>1
  <2>4. \A a \in Savers : ManifestOK(copy'[a])
    BY <1>0, <2>3 DEF TypeOK
  <2>5. TypeOK'
    BY <1>0, <2>1, <2>2, <2>3, <2>4, QueueSame DEF TypeOK, ManifestOK
  <2> QED
    BY <2>1, <2>2, <2>3, <2>5, SavingStep
<1>2. CASE WPublish
  <2>1. /\ UNCHANGED <<m, tri, chunk, vec, copy, fs, clock, ignored, rules, queue, up, k>>
        /\ w.pc = "publish" /\ w' = [w EXCEPT !.pc = w.after]
        /\ disk' = copy["worker"] /\ saved' = TRUE
    BY <1>2 DEF WPublish, store, user, life
  <2>2. WorkerOK' /\ StaysOrLeaves
    BY <1>0, <2>1 DEF WorkerOK, WorkerStates, StaysOrLeaves
  <2>3. ManifestOK(disk')
    BY <1>0, <2>1 DEF TypeOK
  <2>4. TypeOK'
    BY <1>0, <2>1, <2>2, <2>3, QueueSame DEF TypeOK, ManifestOK
  <2> QED
    BY <1>0, <2>1, <2>2, <2>4, SavingStep
<1> QED
  BY <1>1, <1>2

LEMMA WorkerKeepsIInv ==
  ASSUME IInv, up, Worker \/ WCancel
  PROVE  IInv'
<1>1. ASSUME NEW p \in Paths, NEW b \in BOOLEAN,
             \/ WRead(p) \/ WWriteChunks(p) \/ WStore(p, b) \/ WBackfillRead(p)
             \/ WBackfillStore(p)
      PROVE IInv'
  BY <1>1, ReadKeepsIInv, WriteChunksKeepsIInv, StoreKeepsIInv, BackfillKeepsIInv
<1>2. ASSUME NEW p,
             \/ WPrune \/ WSkipIneligible(p) \/ WOpenFails(p) \/ WChangedDuringRead(p)
             \/ WCommitNoCapacity(p) \/ WCommitDisallowed(p)
      PROVE IInv'
  BY <1>2, RejectingSteps
<1>3. ASSUME NEW p, NEW b \in BOOLEAN,
             \/ WTake(b) \/ WCancel \/ WWalk \/ WCancelled \/ WUnchanged(p)
             \/ WLoopEnds(b) \/ WBackfillStops \/ WBackfillEnds \/ WFinish
      PROVE IInv'
  BY <1>3, SimpleWorkerSteps
<1> QED
  BY <1>1, <1>2, <1>3, WorkerSaveKeepsIInv, SizesAssumption DEF Worker

-----------------------------------------------------------------------------
(* The goroutines beside the worker                                         *)

\* A caller's step that only forgets, whatever it does to its own record.
LEMMA CallerForgets ==
  ASSUME IInv, Forgets, ManifestOK(m'),
         tri' \in [Paths -> 0..MaxVersion],
         chunk' \in [Paths -> 0..MaxVersion],
         vec' \in [Paths -> 0..MaxVersion],
         k' \in [Callers -> CallerRecord],
         CallerKeeps, UNCHANGED rules
  PROVE  IInv'
<1>1. UNCHANGED <<fs, clock, disk, saved, copy, up, ignored, rules, queue, w>>
  BY DEF CallerKeeps, onDisk, user, life
<1>2. TypeOK'
  BY <1>1, QueueSame DEF IInv, TypeOK, ManifestOK, WorkerOK
<1> QED
  BY <1>1, <1>2, ForgettingStep DEF StaysOrLeaves

LEMMA CallersKeepIInv ==
  ASSUME IInv, NEW c \in Callers, Caller(c)
  PROVE  IInv'
<1>0. /\ TypeOK /\ WorkerOK /\ QueueOK /\ ManifestOK(m) /\ c \in Savers
      /\ DOMAIN copy = Savers /\ k \in [Callers -> CallerRecord] /\ k[c] \in CallerRecord
  BY DEF IInv, TypeOK, Savers
<1>1. CASE CMarshal(c)
  <2>1. /\ UNCHANGED <<m, tri, chunk, vec, disk, saved, fs, clock, ignored, rules, queue, up, w>>
        /\ copy' = [copy EXCEPT ![c] = m] /\ k' = [k EXCEPT ![c].pc = "publish"]
    BY <1>1 DEF CMarshal, store, user, life
  <2>2. DOMAIN copy' = Savers /\ \A a \in Savers : copy'[a] = m \/ copy'[a] = copy[a]
    BY <1>0, <2>1
  <2>3. \A a \in Savers : ManifestOK(copy'[a])
    BY <1>0, <2>2 DEF TypeOK
  <2>4. k' \in [Callers -> CallerRecord]
    BY <1>0, <2>1 DEF CallerRecord, CallerStates
  <2>5. TypeOK'
    BY <1>0, <2>1, <2>2, <2>3, <2>4, QueueSame DEF TypeOK, ManifestOK, WorkerOK
  <2>6. StaysOrLeaves
    BY <2>1 DEF StaysOrLeaves
  <2> QED
    BY <2>1, <2>2, <2>5, <2>6, SavingStep
<1>2. CASE CPublish(c)
  <2>1. /\ UNCHANGED <<m, tri, chunk, vec, copy, fs, clock, ignored, rules, queue, up, w>>
        /\ disk' = copy[c] /\ saved' = TRUE
        /\ k' = [k EXCEPT ![c] = [IdleCaller EXCEPT !.pc = k[c].next]]
    BY <1>2 DEF CPublish, store, user, life
  <2>2. k[c].next \in CallerStates
    BY <1>0 DEF CallerRecord
  <2>3. k' \in [Callers -> CallerRecord]
    BY <1>0, <2>1, <2>2 DEF CallerRecord, CallerStates, IdleCaller
  <2>4. ManifestOK(disk')
    BY <1>0, <2>1 DEF TypeOK
  <2>5. TypeOK'
    BY <1>0, <2>1, <2>3, <2>4, QueueSame DEF TypeOK, ManifestOK, WorkerOK
  <2>6. StaysOrLeaves
    BY <2>1 DEF StaysOrLeaves
  <2> QED
    BY <1>0, <2>1, <2>5, <2>6, SavingStep
<1>3. ASSUME NEW S \in SUBSET Paths, RemovePaths(c, S)
      PROVE  IInv'
  <2>1. /\ DropLocked(S) /\ CallerKeeps /\ UNCHANGED rules /\ LockFree
        /\ k' = [k EXCEPT ![c] = [IdleCaller EXCEPT !.pc = "marshal"]]
    BY <1>3 DEF RemovePaths
  <2>2. k' \in [Callers -> CallerRecord]
    BY <1>0, <2>1 DEF CallerRecord, CallerStates, IdleCaller
  <2> QED
    BY <1>0, <2>1, <2>2, CallerForgets, DropLockedForgets
<1>4. CASE ClearReset(c)
  <2>1. /\ CallerKeeps /\ UNCHANGED <<chunk, vec, rules>>
        /\ m' = EmptyManifest /\ tri' = [p \in Paths |-> 0]
        /\ k' = [k EXCEPT ![c] = [IdleCaller EXCEPT !.pc = "unlink",
                                                    !.todo = {p \in Paths : m.ent[p] # 0}]]
    BY <1>4 DEF ClearReset
  <2>2. k' \in [Callers -> CallerRecord]
    BY <1>0, <2>1 DEF CallerRecord, CallerStates, IdleCaller
  <2>3. Forgets
    BY <2>1 DEF Forgets, EmptyManifest
  <2>4. ManifestOK(m') /\ tri' \in [Paths -> 0..MaxVersion]
    BY <2>1, EmptyManifestOK, ZeroIsVersion
  <2> QED
    BY <1>0, <2>1, <2>2, <2>3, <2>4, CallerForgets DEF TypeOK
<1>5. ASSUME NEW p \in Paths, ClearUnlink(c, p)
      PROVE  IInv'
  <2>1. /\ CallerKeeps /\ UNCHANGED <<m, tri, rules>>
        /\ chunk' = Cleared(chunk, {p}) /\ vec' = Cleared(vec, {p})
        /\ k' = [k EXCEPT ![c].todo = @ \ {p}]
    BY <1>5 DEF ClearUnlink
  <2>2. k' \in [Callers -> CallerRecord]
    BY <1>0, <2>1 DEF CallerRecord
  <2>3. /\ Forgets
        /\ chunk' \in [Paths -> 0..MaxVersion] /\ vec' \in [Paths -> 0..MaxVersion]
    BY <1>0, <2>1, ClearedOK DEF Forgets, TypeOK
  <2> QED
    BY <1>0, <2>1, <2>2, <2>3, CallerForgets DEF TypeOK
<1>6. CASE PurgeRemove(c)
  <2>1. /\ DropLocked(k[c].todo) /\ CallerKeeps /\ UNCHANGED rules
        /\ k' = [k EXCEPT ![c] = [IdleCaller EXCEPT !.pc = "marshal", !.next = "ensure"]]
    BY <1>6 DEF PurgeRemove
  <2>2. k' \in [Callers -> CallerRecord]
    BY <1>0, <2>1 DEF CallerRecord, CallerStates, IdleCaller
  <2> QED
    BY <1>0, <2>1, <2>2, CallerForgets, DropLockedForgets
<1>7. ASSUME NEW op, ClearSave(c) \/ LoadRules(c, op) \/ PurgeScan(c) \/ PurgeJudge(c)
      PROVE  IInv'
  <2>1. CallerKeeps /\ UNCHANGED <<m, tri, chunk, vec, rules>>
    BY <1>7 DEF ClearSave, LoadRules, PurgeScan, PurgeJudge, store
  <2>2. k' \in [Callers -> CallerRecord]
    <3>1. CASE ClearSave(c)
      BY <1>0, <3>1 DEF ClearSave, CallerRecord, CallerStates
    <3>2. CASE LoadRules(c, op)
      <4>1. ignored \subseteq Paths
        BY <1>0 DEF TypeOK
      <4>2. PICK s \in {"full", "purge"} :
               k' = [k EXCEPT ![c] = [IdleCaller EXCEPT !.pc = "swap", !.rules = ignored,
                                                        !.next = s]]
        BY <3>2 DEF LoadRules
      <4> QED
        BY <1>0, <4>1, <4>2 DEF CallerRecord, CallerStates, IdleCaller
    <3>3. CASE PurgeScan(c) \/ PurgeJudge(c)
      <4>1. PICK s \in {"judge", "ensure", "drop"}, S \in SUBSET Paths :
               k' = [k EXCEPT ![c] = [IdleCaller EXCEPT !.pc = s, !.todo = S]]
        <5>1. k[c].todo \subseteq Paths
          BY <1>0 DEF CallerRecord
        <5> QED
          BY <3>3, <5>1 DEF PurgeScan, PurgeJudge
      <4> QED
        BY <1>0, <4>1 DEF CallerRecord, CallerStates, IdleCaller
    <3> QED
      BY <1>7, <3>1, <3>2, <3>3
  <2> QED
    BY <1>0, <2>1, <2>2, CallerForgets DEF TypeOK, Forgets
<1>8. CASE SwapRules(c)
  <2>1. /\ UNCHANGED <<m, tri, chunk, vec, disk, saved, copy, fs, clock, ignored, queue, up, w>>
        /\ rules' = k[c].rules /\ w.pc # "writing"
        /\ k' = [k EXCEPT ![c] = [IdleCaller EXCEPT !.pc = k[c].next]]
    BY <1>8 DEF SwapRules, LockFree, CallerKeeps, store, onDisk, user, life
  <2>2. k[c].next \in CallerStates /\ rules' \subseteq Paths
    BY <1>0, <2>1 DEF CallerRecord
  <2>3. k' \in [Callers -> CallerRecord]
    BY <1>0, <2>1, <2>2 DEF CallerRecord, CallerStates, IdleCaller
  <2>4. TypeOK'
    BY <1>0, <2>1, <2>2, <2>3, QueueSame DEF TypeOK, ManifestOK, WorkerOK
  <2>5. OneAtATime' /\ FilesBehindUser' /\ WorkerAhead' /\ PostingsBuilt'
    BY <2>1 DEF IInv, OneAtATime, FilesBehindUser, WorkerAhead, PostingsBuilt, Busy
  <2>6. /\ EntriesBehindFiles(m)' /\ EntriesBehindFiles(disk)'
        /\ \A a \in Savers : EntriesBehindFiles(copy[a])'
    BY <2>1 DEF IInv, EntriesBehindFiles, Busy
  <2> QED
    BY <2>4, <2>5, <2>6 DEF IInv
<1>9. ASSUME NEW S \in SUBSET Paths, EnsureIndexed(c, S) \/ SubmitRequest(c, S)
      PROVE  IInv'
  <2>1. /\ UNCHANGED <<m, tri, chunk, vec, disk, saved, copy, fs, clock, ignored, rules, up, w>>
        /\ \E full \in BOOLEAN : queue' = Append(queue, [full |-> full, paths |-> S])
        /\ k' = k \/ k' = [k EXCEPT ![c] = IdleCaller]
    BY <1>9 DEF EnsureIndexed, SubmitRequest, Submit, store, onDisk, user, life
  <2>2. k' \in [Callers -> CallerRecord]
    BY <1>0, <2>1 DEF CallerRecord, CallerStates, IdleCaller
  <2>3. QueueOK'
    BY <1>0, <2>1 DEF QueueOK, Request
  <2>4. TypeOK'
    BY <1>0, <2>1, <2>2, <2>3 DEF TypeOK, ManifestOK, WorkerOK
  <2>5. StaysOrLeaves
    BY <2>1 DEF StaysOrLeaves
  <2> QED
    BY <2>1, <2>4, <2>5, SavingStep
<1> QED
  BY <1>1, <1>2, <1>3, <1>4, <1>5, <1>6, <1>7, <1>8, <1>9 DEF Caller

-----------------------------------------------------------------------------
(* Crash and restart                                                        *)

LEMMA CrashKeepsIInv ==
  ASSUME IInv, Crash
  PROVE  IInv'
<1>0. TypeOK
  BY DEF IInv
<1>1. /\ UNCHANGED <<m, tri, chunk, vec, disk, saved, fs, clock, ignored, rules>>
      /\ up' = FALSE /\ w' = IdleWorker /\ queue' = <<>>
      /\ k' = [c \in Callers |-> IdleCaller]
      /\ copy' = [a \in Savers |-> EmptyManifest]
  BY DEF Crash, store, user
<1>2. WorkerOK' /\ w'.cur = {}
  BY <1>1, IdleWorkerOK
<1>3. k' \in [Callers -> CallerRecord] /\ QueueOK'
  BY <1>1 DEF CallerRecord, CallerStates, IdleCaller, QueueOK
<1>4. DOMAIN copy' = Savers /\ \A a \in Savers : ManifestOK(copy'[a])
  BY <1>1, EmptyManifestOK
<1>5. TypeOK'
  BY <1>0, <1>1, <1>2, <1>3, <1>4 DEF TypeOK, ManifestOK
<1>6. OneAtATime' /\ FilesBehindUser' /\ WorkerAhead' /\ PostingsBuilt'
  BY <1>1, <1>2 DEF IInv, OneAtATime, FilesBehindUser, WorkerAhead, PostingsBuilt, Busy
<1>7. EntriesBehindFiles(m)' /\ EntriesBehindFiles(disk)'
  BY <1>1, <1>2 DEF IInv, EntriesBehindFiles, Busy
<1>8. ASSUME NEW a \in Savers PROVE EntriesBehindFiles(copy[a])'
  <2>1. \A p \in Paths : copy'[a].ent[p] = 0
    BY <1>1 DEF EmptyManifest
  <2> QED
    BY <1>0, <1>1, <1>2, <2>1, AllNumbersHold DEF EntriesBehindFiles, Busy, AllNumbers
<1> QED
  BY <1>5, <1>6, <1>7, <1>8 DEF IInv

LEMMA RestartKeepsIInv ==
  ASSUME IInv, NEW kind \in {"same", "reset", "revec"}, Restart(kind)
  PROVE  IInv'
<1> DEFINE none == [p \in Paths |-> 0]
<1>0. TypeOK /\ ManifestOK(disk) /\ ManifestOK(m) /\ AllNumbers
  BY AllNumbersHold DEF IInv, TypeOK
<1>1. /\ UNCHANGED <<copy, fs, clock, ignored, queue, w, k>>
      /\ ~up /\ up' = TRUE /\ rules' = ignored
  BY DEF Restart, user
<1>2. w.cur = {} /\ w'.cur = {}
  BY <1>1 DEF IInv, OneAtATime
<1>3. /\ none \in [Paths -> 0..MaxVersion]
      /\ [p \in Paths |-> IF disk.ent[p] = 0 THEN 0 ELSE chunk[p]] \in [Paths -> 0..MaxVersion]
  BY <1>0, ZeroIsVersion DEF TypeOK
<1>4. /\ ManifestOK(m') /\ ManifestOK(disk') /\ saved' \in BOOLEAN
      /\ tri' \in [Paths -> 0..MaxVersion]
      /\ chunk' \in [Paths -> 0..MaxVersion] /\ vec' \in [Paths -> 0..MaxVersion]
      /\ \A p \in Paths : /\ m'.ent[p] \in {0, disk.ent[p]} /\ disk'.ent[p] \in {0, disk.ent[p]}
                          /\ chunk'[p] \in {0, chunk[p]} /\ vec'[p] \in {0, vec[p]}
                          /\ tri'[p] \in {0, chunk[p]}
  <2>1. CASE kind = "reset"
    <3>1. /\ m' = EmptyManifest /\ disk' = EmptyManifest /\ saved' = FALSE
          /\ chunk' = none /\ vec' = none /\ tri' = none
      BY <2>1 DEF Restart
    <3>2. EmptyManifest.ent = none
      BY DEF EmptyManifest
    <3> QED
      BY <1>3, <3>1, <3>2, EmptyManifestOK
  <2>2. CASE kind = "revec"
    <3>1. /\ m' = [ent |-> disk.ent, vec |-> [p \in Paths |-> FALSE], total |-> disk.total]
          /\ vec' = none /\ UNCHANGED <<chunk, disk, saved>>
          /\ tri' = [p \in Paths |-> IF disk.ent[p] = 0 THEN 0 ELSE chunk[p]]
      BY <2>2 DEF Restart, Rebuilt
    <3>2. ManifestOK(m') /\ m'.ent = disk.ent
      BY <1>0, <3>1 DEF ManifestOK
    <3> QED
      BY <1>0, <1>3, <3>1, <3>2 DEF TypeOK
  <2>3. CASE kind = "same"
    <3>1. /\ m' = disk /\ UNCHANGED <<chunk, vec, disk, saved>>
          /\ tri' = [p \in Paths |-> IF disk.ent[p] = 0 THEN 0 ELSE chunk[p]]
      BY <2>3 DEF Restart, Rebuilt
    <3> QED
      BY <1>0, <1>3, <3>1 DEF TypeOK
  <2> QED
    BY <2>1, <2>2, <2>3
<1>5. TypeOK'
  BY <1>0, <1>1, <1>4, QueueSame DEF TypeOK, ManifestOK, WorkerOK
<1>6. OneAtATime' /\ FilesBehindUser' /\ WorkerAhead' /\ PostingsBuilt'
  BY <1>0, <1>1, <1>2, <1>4
     DEF IInv, OneAtATime, FilesBehindUser, WorkerAhead, PostingsBuilt, Busy, AllNumbers
<1>7. EntriesBehindFiles(m)' /\ EntriesBehindFiles(disk)'
  BY <1>0, <1>1, <1>2, <1>4 DEF IInv, EntriesBehindFiles, Busy, AllNumbers
<1>8. ASSUME NEW a \in Savers PROVE EntriesBehindFiles(copy[a])'
  <2>1. EntriesBehindFiles(copy[a])
    BY DEF IInv
  <2> QED
    BY <1>0, <1>1, <1>2, <1>4, <2>1 DEF EntriesBehindFiles, Busy, AllNumbers
<1> QED
  BY <1>5, <1>6, <1>7, <1>8 DEF IInv

-----------------------------------------------------------------------------
(* The theorems                                                             *)

LEMMA NextKeepsIInv == IInv /\ [Next]_vars => IInv'
<1> SUFFICES ASSUME IInv, [Next]_vars PROVE IInv'
  OBVIOUS
<1>1. CASE Next
  BY <1>1, UserKeepsIInv, WorkerKeepsIInv, CallersKeepIInv, CrashKeepsIInv, RestartKeepsIInv
     DEF Next, Running
<1>2. CASE UNCHANGED vars
  <2>1. UNCHANGED <<m, tri, chunk, vec, disk, saved, copy, fs, clock, ignored, rules, queue,
                    up, w, k>>
    BY <1>2 DEF vars, store, onDisk, user, life
  <2>2. TypeOK'
    BY <2>1, QueueSame DEF IInv, TypeOK, ManifestOK, WorkerOK
  <2> QED
    BY <2>1, <2>2, SavingStep DEF StaysOrLeaves
<1> QED
  BY <1>1, <1>2

\* The chain entries <= vectors <= chunks <= next commit <= the user's last
\* version holds in every reachable state, across crashes, saves and purges.
THEOREM InductiveInvariant == Spec => []IInv
  BY InitIInv, NextKeepsIInv, PTL DEF Spec

\* Every state has its type, whatever the sizes, callers and bounds.
THEOREM TypeCorrect == Spec => []TypeOK
<1>1. IInv => TypeOK
  BY DEF IInv
<1> QED
  BY <1>1, InductiveInvariant, PTL

\* indexOne's size-and-time skip never leaves an older file's chunks behind a
\* newer entry.
THEOREM SkipIsSound == Spec => []FreshSkipSound
<1>1. IInv => FreshSkipSound
  BY DEF IInv, EntriesBehindFiles, FreshSkipSound
<1> QED
  BY <1>1, InductiveInvariant, PTL

\* A fresh entry is never scored with the vectors of another content.
THEOREM VectorsAreSound == Spec => []VectorsMatchChunks
<1>1. IInv => VectorsMatchChunks
  <2> SUFFICES ASSUME IInv, NEW p \in Paths,
                      m.ent[p] # 0, m.ent[p] = chunk[p], vec[p] # 0
               PROVE  vec[p] = chunk[p]
    BY DEF VectorsMatchChunks
  <2>1. m.ent[p] <= vec[p] /\ vec[p] <= chunk[p]
    BY DEF IInv, EntriesBehindFiles, FilesBehindUser
  <2>2. chunk[p] \in Nat /\ vec[p] \in Nat
    BY AllNumbersHold DEF IInv, AllNumbers
  <2> QED
    BY <2>1, <2>2
<1> QED
  BY <1>1, InductiveInvariant, PTL

\* The search's trigram prefilter sees the postings of the chunks it filters.
THEOREM PrefilterIsSound == Spec => []PostingsMatchChunks
<1>1. IInv => PostingsMatchChunks
  BY DEF IInv, PostingsBuilt, Busy, LockFree, PostingsMatchChunks
<1> QED
  BY <1>1, InductiveInvariant, PTL

\* Only a commit brings an entry in; every other step keeps or forgets it.
LEMMA EntriesComeFromCommits ==
  ASSUME IInv, up, Next, NEW q \in Paths, m.ent[q] = 0
  PROVE  m'.ent[q] = 0 \/ \E b \in BOOLEAN : WStore(q, b)
<1>0. TypeOK /\ ManifestOK(m) /\ WorkerOK
  BY DEF IInv, TypeOK
<1>1. ASSUME NEW S, DropLocked(S) PROVE m'.ent[q] = 0
  BY <1>0, <1>1, DropLockedForgets DEF Forgets
<1>2. CASE User \/ Crash
  BY <1>2 DEF User, UserWrite, UserDelete, UserEditIgnore, Crash, store
<1>3. CASE WCancel
  BY <1>3 DEF WCancel, store
<1>4. ASSUME NEW c \in Callers, Caller(c) PROVE m'.ent[q] = 0
  <2>1. CASE \/ \E S \in SUBSET Paths : RemovePaths(c, S)
             \/ PurgeRemove(c)
    BY <1>1, <2>1 DEF RemovePaths, PurgeRemove
  <2>2. CASE ClearReset(c)
    BY <2>2 DEF ClearReset, EmptyManifest
  <2>3. CASE \/ CMarshal(c) \/ CPublish(c) \/ ClearSave(c) \/ SwapRules(c) \/ PurgeScan(c)
             \/ PurgeJudge(c) \/ \E op \in Operations : LoadRules(c, op)
             \/ \E S \in SUBSET Paths : EnsureIndexed(c, S) \/ SubmitRequest(c, S)
             \/ \E p \in Paths : ClearUnlink(c, p)
    BY <2>3 DEF CMarshal, CPublish, ClearSave, SwapRules, PurgeScan, PurgeJudge, LoadRules,
       EnsureIndexed,
                SubmitRequest, Submit, ClearUnlink, store
  <2> QED
    BY <1>4, <2>1, <2>2, <2>3 DEF Caller
<1>5. CASE Worker
  <2>1. ASSUME NEW p, NEW existing, NEW capacity, Reject(p, existing, capacity)
        PROVE  m'.ent[q] = 0
    BY <1>1, <2>1 DEF Reject, Remove, Evict
  <2>2. ASSUME NEW p, \/ WSkipIneligible(p) \/ WOpenFails(p) \/ WChangedDuringRead(p)
                      \/ WCommitNoCapacity(p)
        PROVE  m'.ent[q] = 0
    BY <2>1, <2>2 DEF WSkipIneligible, WOpenFails, WChangedDuringRead, WCommitNoCapacity
  <2>3. ASSUME NEW p, WCommitDisallowed(p) PROVE m'.ent[q] = 0
    BY <1>0, <2>3, DroppedOK DEF WCommitDisallowed
  <2>4. CASE WPrune
    BY <1>1, <2>4 DEF WPrune
  <2>5. ASSUME NEW p \in Paths, WBackfillStore(p) PROVE m'.ent[q] = 0
    <3>1. w.ver \in 0..MaxVersion
      BY <1>0 DEF WorkerOK
    <3>2. ASSUME NEW hv \in BOOLEAN
          PROVE  Stored(m, p, w.ver, hv).ent = [m.ent EXCEPT ![p] = w.ver]
      BY <1>0, <3>1, StoredOK
    <3>3. CASE m.ent[p] = w.ver
      <4>1. m' = Stored(m, p, w.ver, TRUE)
        BY <2>5, <3>3 DEF WBackfillStore
      <4>2. m.ent \in [Paths -> 0..MaxVersion]
        BY <1>0 DEF ManifestOK
      <4> QED
        BY <3>2, <3>3, <4>1, <4>2
    <3>4. CASE m.ent[p] # w.ver
      BY <2>5, <3>4 DEF WBackfillStore
    <3> QED
      BY <3>3, <3>4
  <2>6. ASSUME NEW p \in Paths, NEW b \in BOOLEAN, WStore(p, b), p # q PROVE m'.ent[q] = 0
    <3>1. w.ver \in 0..MaxVersion
      BY <1>0 DEF WorkerOK
    <3>2. m'.ent = [m.ent EXCEPT ![p] = w.ver]
      BY <1>0, <2>6, <3>1, StoredOK DEF WStore, WStoreAs
    <3>3. m.ent \in [Paths -> 0..MaxVersion]
      BY <1>0 DEF ManifestOK
    <3> QED
      BY <2>6, <3>2, <3>3
  <2>7. ASSUME NEW p, NEW b, \/ WTake(b) \/ WWalk \/ WCancelled \/ WUnchanged(p) \/ WRead(p)
                             \/ WWriteChunks(p) \/ WBackfillRead(p) \/ WLoopEnds(b)
                             \/ WBackfillStops \/ WBackfillEnds \/ WMarshal \/ WPublish
                             \/ WFinish
        PROVE  m'.ent[q] = 0
    BY <2>7 DEF WTake, WWalk, WCancelled, WUnchanged, WRead, WWriteChunks, WBackfillRead,
                WLoopEnds, WBackfillStops, WBackfillEnds, WMarshal, WPublish, WFinish, store
  <2> QED
    BY <1>5, <2>2, <2>3, <2>4, <2>5, <2>6, <2>7, SizesAssumption DEF Worker
<1>6. CASE \E kind \in {"same", "reset", "revec"} : Restart(kind)
  BY <1>6 DEF Restart
<1> QED
  BY <1>2, <1>3, <1>4, <1>5, <1>6 DEF Next, Running

\* An excluded path never enters the index, not even from a pass that judged it
\* by the rules of before: the commit judges it again, and no rule changes
\* between that and the entry.
THEOREM ExclusionIsRespected == Spec => IgnoredStaysOut
<1>1. IInv /\ [Next]_vars =>
        [\A p \in Paths : up /\ m.ent[p] = 0 /\ ~Allowed(rules, p) => m'.ent[p] = 0]_vars
  <2> SUFFICES ASSUME IInv, Next, NEW p \in Paths,
                      up, m.ent[p] = 0, ~Allowed(rules, p)
               PROVE  m'.ent[p] = 0
    OBVIOUS
  <2>1. ASSUME NEW b, WStore(p, b) PROVE FALSE
    <3>1. Busy(p, {"writing"})
      BY <2>1 DEF WStore, WStoreAs, Busy
    <3> QED
      BY <3>1 DEF IInv, WorkerAhead
  <2> QED
    BY <2>1, EntriesComeFromCommits
<1> QED
  BY <1>1, InductiveInvariant, PTL DEF Spec, IgnoredStaysOut

-----------------------------------------------------------------------------
(* What the index store can go through while the process runs                *)

\* Who holds the lock with a chunk file in place keeps it.
StillWriting ==
  w'.pc = "writing" => w.pc = "writing" /\ w'.cur = w.cur /\ w'.ver = w.ver

LEMMA RejectStopsWriting ==
  ASSUME WorkerOK, NEW p, NEW existing, NEW capacity, Reject(p, existing, capacity)
  PROVE  DropLocked({p}) /\ w'.pc # "writing"
<1>1. CASE w.full
  BY <1>1 DEF Reject, Remove, WorkerOK
<1>2. CASE ~w.full
  BY <1>2 DEF Reject, Evict, WorkerOK
<1> QED BY <1>1, <1>2

\* What a step of the running process can do to the entries and the chunk files.
LEMMA StepsOfTheStore ==
  ASSUME IInv, up, Running
  PROVE  \/ UNCHANGED <<m, chunk>> /\ StillWriting
         \/ \E S \in SUBSET Paths : DropLocked(S) /\ w.pc # "writing" /\ w'.pc # "writing"
         \/ \E p \in Paths : WCommitDisallowed(p) \/ WWriteChunks(p) \/ WBackfillStore(p)
         \/ \E p \in Paths, b \in BOOLEAN : WStore(p, b)
         \/ \E c \in Callers : ClearReset(c)
         \/ \E c \in Callers, p \in Paths : ClearUnlink(c, p)
<1> DEFINE Drops == \E S \in SUBSET Paths : DropLocked(S) /\ w.pc # "writing" /\ w'.pc # "writing"
           Keeps == UNCHANGED <<m, chunk>> /\ StillWriting
<1>0. WorkerOK /\ k \in [Callers -> CallerRecord]
  BY DEF IInv, TypeOK
<1>1. ASSUME NEW p \in Paths, \/ WSkipIneligible(p) \/ WOpenFails(p) \/ WChangedDuringRead(p)
                              \/ WCommitNoCapacity(p)
      PROVE  Drops
  <2>1. /\ w.pc # "writing" 
        /\ \E existing, capacity : Reject(p, existing, capacity)
    BY <1>1 DEF WSkipIneligible, WOpenFails, WChangedDuringRead, WCommitNoCapacity, AtPath
  <2>2. DropLocked({p}) /\ w'.pc # "writing"
    BY <1>0, <2>1, RejectStopsWriting
  <2> QED BY <2>1, <2>2
<1>2. CASE WPrune
  <2>1. DropLocked(Paths \ w.todo) /\ w.pc = "prune" /\ w' = [w EXCEPT !.pc = "next", !.local = m'.total]
    BY <1>2 DEF WPrune
  <2>2. w'.pc # "writing"
    BY <1>0, <2>1 DEF WorkerOK
  <2>3. Paths \ w.todo \in SUBSET Paths
    OBVIOUS
  <2> QED BY <2>1, <2>2, <2>3
<1>3. CASE \/ WWalk \/ WCancelled \/ WBackfillStops \/ WBackfillEnds \/ WMarshal \/ WPublish
           \/ WFinish \/ WCancel
           \/ \E b \in BOOLEAN : WTake(b) \/ WLoopEnds(b)
           \/ \E p \in Paths : WUnchanged(p) \/ WRead(p) \/ WBackfillRead(p)
  <2>1. UNCHANGED <<m, chunk>>
    BY <1>3 DEF WTake, WCancel, WWalk, WCancelled, WUnchanged, WRead, WBackfillRead,
                WLoopEnds, WBackfillStops, WBackfillEnds, WMarshal, WPublish, WFinish, store
  <2>2. ASSUME NEW p, WCancel \/ WUnchanged(p) PROVE StillWriting
    BY <1>0, <2>1, <2>2 DEF WCancel, WUnchanged, StillWriting, WorkerOK
  <2>3. ASSUME NEW b, WWalk \/ WCancelled \/ WFinish \/ WLoopEnds(b) PROVE StillWriting
    <3>1. \/ w' = IdleWorker
          \/ \E T, seen : w' = [w EXCEPT !.pc = "prune", !.todo = T, !.seen = seen]
          \/ \E T : w' = [w EXCEPT !.pc = "backfill", !.todo = T]
          \/ w' = [w EXCEPT !.pc = "marshal", !.after = "finish"]
      BY <2>3 DEF WWalk, WCancelled, WFinish, WLoopEnds
    <3>2. w'.pc # "writing"
      BY <1>0, <3>1, IdleWorkerFields DEF WorkerOK
    <3> QED BY <3>2 DEF StillWriting
  <2>4. ASSUME NEW b, WTake(b) PROVE StillWriting
    <3>1. \/ w' = IdleWorker
          \/ w' = [IdleWorker EXCEPT !.pc = "walk", !.full = TRUE, !.live = b]
          \/ \E T, n : w' = [IdleWorker EXCEPT !.pc = "next", !.live = b, !.todo = T,
                                               !.rules = rules, !.local = n]
      BY <2>4 DEF WTake
    <3>2. ASSUME NEW T, NEW n, w' = [IdleWorker EXCEPT !.pc = "next", !.live = b, !.todo = T,
                                                       !.rules = rules, !.local = n]
          PROVE  StillWriting
      BY <3>2 DEF IdleWorker, StillWriting
    <3>3. CASE w' = IdleWorker
      BY <3>3, IdleWorkerFields DEF StillWriting
    <3>4. CASE w' = [IdleWorker EXCEPT !.pc = "walk", !.full = TRUE, !.live = b]
      BY <3>4 DEF IdleWorker, StillWriting
    <3> QED BY <3>1, <3>2, <3>3, <3>4
  <2>5. ASSUME NEW p, WRead(p) \/ WBackfillRead(p) PROVE StillWriting
    BY <1>0, <2>1, <2>5 DEF WRead, WBackfillRead, StillWriting, WorkerOK
  <2>6. CASE WBackfillStops \/ WBackfillEnds \/ WMarshal
    BY <1>0, <2>1, <2>6 DEF WBackfillStops, WBackfillEnds, WMarshal, StillWriting, WorkerOK
  <2>7. CASE WPublish
    BY <1>0, <2>1, <2>7 DEF WPublish, StillWriting, WorkerOK
  <2>8. CASE \/ WWalk \/ WCancelled \/ WFinish \/ \E b \in BOOLEAN : WLoopEnds(b)
    <3>1. \E b : WWalk \/ WCancelled \/ WFinish \/ WLoopEnds(b)
      BY <2>8
    <3> QED BY <2>1, <2>3, <3>1
  <2>9. CASE WCancel \/ \E p \in Paths : WUnchanged(p)
    <3>1. \E p : WCancel \/ WUnchanged(p)
      BY <2>9
    <3> QED BY <2>1, <2>2, <3>1
  <2> QED BY <1>3, <2>1, <2>4, <2>5, <2>6, <2>7, <2>8, <2>9
<1>4. ASSUME NEW c \in Callers, Caller(c)
      PROVE  Drops \/ Keeps \/ ClearReset(c) \/ \E p \in Paths : ClearUnlink(c, p)
  <2>1. ASSUME NEW S \in SUBSET Paths, RemovePaths(c, S) PROVE Drops
    BY <2>1 DEF RemovePaths, LockFree, CallerKeeps
  <2>2. CASE PurgeRemove(c)
    <3>1. k[c].todo \in SUBSET Paths
      BY <1>0 DEF CallerRecord
    <3> QED BY <2>2, <3>1 DEF PurgeRemove, LockFree, CallerKeeps
  <2>3. CASE \/ CMarshal(c) \/ CPublish(c) \/ ClearSave(c) \/ SwapRules(c) \/ PurgeScan(c)
             \/ PurgeJudge(c) \/ \E op \in Operations : LoadRules(c, op)
             \/ \E S \in SUBSET Paths : EnsureIndexed(c, S) \/ SubmitRequest(c, S)
    BY <2>3 DEF CMarshal, CPublish, ClearSave, SwapRules, PurgeScan, PurgeJudge, LoadRules,
       EnsureIndexed,
                SubmitRequest, Submit, store, CallerKeeps, StillWriting
  <2> QED BY <1>4, <2>1, <2>2, <2>3 DEF Caller
<1>5. CASE Worker
  <2>1. \/ WPrune \/ WWalk \/ WCancelled \/ WBackfillStops \/ WBackfillEnds \/ WMarshal
        \/ WPublish \/ WFinish
        \/ \E b \in BOOLEAN : WTake(b) \/ WLoopEnds(b)
        \/ \E p \in Paths : \/ WSkipIneligible(p) \/ WOpenFails(p) \/ WChangedDuringRead(p)
                           \/ WCommitNoCapacity(p) \/ WUnchanged(p) \/ WRead(p)
                           \/ WBackfillRead(p)
        \/ \E p \in Paths : WCommitDisallowed(p) \/ WWriteChunks(p) \/ WBackfillStore(p)
        \/ \E p \in Paths, b \in BOOLEAN : WStore(p, b)
    BY <1>5, SizesAssumption DEF Worker
  <2> QED BY <1>1, <1>2, <1>3, <2>1
<1>6. CASE WCancel \/ \E c \in Callers : Caller(c)
  <2>1. WCancel => Keeps
    BY <1>0 DEF WCancel, StillWriting, WorkerOK, store
  <2> QED
   BY <1>4, <1>6, <2>1
<1> QED BY <1>5, <1>6 DEF Running

-----------------------------------------------------------------------------
(* Entries and their chunk files.  The lock spans the two halves of a        *)
(* commit and every step that drops both, so only a crash between the        *)
(* halves or a Clear, which unlinks outside the lock, can part them.         *)

\* repo_clear_index is never called.
NoClears == \A c \in Callers : "clear" \notin Ops[c]

\* The process never stops, so no commit is cut in half, and the chunk file is of the
\* version about to be stored.
ChunkInv ==
  /\ up /\ crashes = 0
  /\ \A c \in Callers : k[c].pc # "unlink" /\ k[c].next # "unlink"
  /\ \A p \in Paths : m.ent[p] # 0 => chunk[p] # 0
  /\ \A p \in Paths : Busy(p, {"writing"}) => chunk[p] = w.ver

LEMMA DroppedEntries ==
  ASSUME ManifestOK(m), NEW S
  PROVE  \A p \in Paths : /\ Dropped(m, S).ent[p] = IF p \in S THEN 0 ELSE m.ent[p]
                         /\ Cleared(chunk, S)[p] = IF p \in S THEN 0 ELSE chunk[p]
  BY DEF Dropped, Cleared

LEMMA WorkerKeepsCallers ==
  ASSUME Worker \/ WCancel
  PROVE  UNCHANGED <<k, life>>
<1>1. ASSUME NEW p, \/ WSkipIneligible(p) \/ WOpenFails(p) \/ WUnchanged(p) \/ WRead(p)
                    \/ WChangedDuringRead(p) \/ WCommitDisallowed(p) \/ WCommitNoCapacity(p)
                    \/ WWriteChunks(p) \/ WBackfillRead(p) \/ WBackfillStore(p)
      PROVE  UNCHANGED <<k, life>>
  BY <1>1 DEF WSkipIneligible, WOpenFails, WUnchanged, WRead, WChangedDuringRead,
              WCommitDisallowed, WCommitNoCapacity, WWriteChunks, WBackfillRead,
              WBackfillStore, WorkerKeeps
<1>2. ASSUME NEW p, NEW b, WStore(p, b)
      PROVE  UNCHANGED <<k, life>>
  BY <1>2 DEF WStore, WStoreAs, WorkerKeeps
<1>3. CASE \/ WWalk \/ WPrune \/ WCancelled \/ WBackfillStops \/ WBackfillEnds
           \/ WMarshal \/ WPublish \/ WFinish \/ WCancel
  BY <1>3 DEF WWalk, WPrune, WCancelled, WBackfillStops, WBackfillEnds, WMarshal, WPublish,
              WFinish, WCancel, WorkerKeeps
<1>4. ASSUME NEW b, WTake(b) \/ WLoopEnds(b) PROVE UNCHANGED <<k, life>>
  BY <1>4 DEF WTake, WLoopEnds, WorkerKeeps
<1> QED BY <1>1, <1>2, <1>3, <1>4 DEF Worker

LEMMA RunningKeepsLife ==
  ASSUME Running
  PROVE  UNCHANGED life
<1>1. ASSUME NEW c \in Callers, Caller(c) PROVE UNCHANGED life
  BY <1>1 DEF Caller, CMarshal, CPublish, RemovePaths, EnsureIndexed, SubmitRequest, Submit,
              ClearReset, ClearSave, ClearUnlink, LoadRules, SwapRules, PurgeScan,
              PurgeJudge, PurgeRemove, CallerKeeps
<1> QED BY <1>1, WorkerKeepsCallers DEF Running

LEMMA CallersDoNotUnlink ==
  ASSUME NoClears, IInv, NEW c \in Callers, Caller(c),
         \A d \in Callers : k[d].pc # "unlink" /\ k[d].next # "unlink"
  PROVE  \A d \in Callers : k'[d].pc # "unlink" /\ k'[d].next # "unlink"
<1>0. k \in [Callers -> CallerRecord] /\ k[c] \in CallerRecord
  BY DEF IInv, TypeOK
<1>1. CASE CMarshal(c) \/ ClearSave(c)
  BY <1>0, <1>1 DEF CMarshal, ClearSave, CallerRecord
<1>2. ASSUME NEW S \in SUBSET Paths, RemovePaths(c, S) \/ PurgeScan(c) \/ PurgeRemove(c)
      PROVE  \A d \in Callers : k'[d].pc # "unlink" /\ k'[d].next # "unlink"
  <2>1. CASE RemovePaths(c, S)
    BY <1>0, <2>1 DEF RemovePaths, IdleCaller
  <2>2. CASE PurgeScan(c)
    <3>1. \E T : k' = [k EXCEPT ![c] = [IdleCaller EXCEPT !.pc = "judge", !.todo = T]]
      BY <2>2 DEF PurgeScan
    <3> QED BY <1>0, <3>1 DEF IdleCaller
  <2>3. CASE PurgeRemove(c)
    BY <1>0, <2>3 DEF PurgeRemove, IdleCaller
  <2> QED BY <1>2, <2>1, <2>2, <2>3
<1>7. CASE CPublish(c) \/ SwapRules(c)
  BY <1>0, <1>7 DEF CPublish, SwapRules, IdleCaller, CallerRecord
<1>3. CASE PurgeJudge(c)
  BY <1>0, <1>3 DEF PurgeJudge, IdleCaller, CallerRecord
<1>4. ASSUME NEW op, LoadRules(c, op)
      PROVE  \A d \in Callers : k'[d].pc # "unlink" /\ k'[d].next # "unlink"
  BY <1>0, <1>4 DEF LoadRules, IdleCaller, CallerRecord
<1>5. ASSUME NEW S \in SUBSET Paths, EnsureIndexed(c, S) \/ SubmitRequest(c, S)
      PROVE  \A d \in Callers : k'[d].pc # "unlink" /\ k'[d].next # "unlink"
  BY <1>0, <1>5 DEF EnsureIndexed, SubmitRequest, IdleCaller, CallerRecord
<1>6. ~ClearReset(c) /\ \A p : ~ClearUnlink(c, p)
  BY DEF ClearReset, ClearUnlink, Begin, NoClears
<1> QED BY <1>1, <1>2, <1>3, <1>4, <1>5, <1>6, <1>7 DEF Caller

LEMMA StoreKeepsChunks ==
  ASSUME NoClears, IInv, ChunkInv, Running
  PROVE  /\ \A p \in Paths : m'.ent[p] # 0 => chunk'[p] # 0
         /\ \A p \in Paths : Busy(p, {"writing"})' => chunk'[p] = w'.ver
<1>0. TypeOK /\ ManifestOK(m) /\ WorkerOK /\ AllNumbers /\ up
  BY AllNumbersHold DEF IInv, TypeOK, ChunkInv
<1>1. CASE UNCHANGED <<m, chunk>> /\ StillWriting
  BY <1>1 DEF ChunkInv, StillWriting, Busy
<1>2. ASSUME NEW S \in SUBSET Paths, DropLocked(S), w'.pc # "writing"
      PROVE  /\ \A p \in Paths : m'.ent[p] # 0 => chunk'[p] # 0
             /\ \A p \in Paths : Busy(p, {"writing"})' => chunk'[p] = w'.ver
  BY <1>0, <1>2, DroppedEntries DEF DropLocked, ChunkInv, Busy
<1>3. ASSUME NEW p \in Paths, WCommitDisallowed(p)
      PROVE  /\ \A q \in Paths : m'.ent[q] # 0 => chunk'[q] # 0
             /\ \A q \in Paths : Busy(q, {"writing"})' => chunk'[q] = w'.ver
  <2>1. w'.pc = "next"
    BY <1>0, <1>3 DEF WCommitDisallowed, WorkerOK
  <2>2. m' = Dropped(m, {p}) /\ chunk' = Cleared(chunk, {p})
    BY <1>3 DEF WCommitDisallowed
  <2> QED BY <1>0, <2>1, <2>2, DroppedEntries DEF ChunkInv, Busy
<1>4. ASSUME NEW p \in Paths, WWriteChunks(p)
      PROVE  /\ \A q \in Paths : m'.ent[q] # 0 => chunk'[q] # 0
             /\ \A q \in Paths : Busy(q, {"writing"})' => chunk'[q] = w'.ver
  <2>1. /\ w'.ver = w.ver /\ w'.cur = w.cur /\ m' = m /\ chunk' = [chunk EXCEPT ![p] = w.ver]
        /\ p \in w.cur
    BY <1>0, <1>4 DEF WWriteChunks, WorkerOK
  <2>2. w.ver # 0 /\ \A q \in w.cur : q = p
    BY <1>4, <2>1 DEF WWriteChunks, IInv, WorkerAhead, OneAtATime, Busy
  <2> QED BY <1>0, <2>1, <2>2 DEF ChunkInv, Busy, AllNumbers
<1>5. ASSUME NEW p \in Paths, NEW b \in BOOLEAN, WStore(p, b)
      PROVE  /\ \A q \in Paths : m'.ent[q] # 0 => chunk'[q] # 0
             /\ \A q \in Paths : Busy(q, {"writing"})' => chunk'[q] = w'.ver
  <2>1. w'.pc = "next"
    BY <1>0, <1>5 DEF WStore, WStoreAs, WorkerOK
  <2>2. m'.ent = [m.ent EXCEPT ![p] = w.ver] /\ chunk' = chunk
    BY <1>0, <1>5 DEF WStore, WStoreAs, Stored
  <2>3. chunk[p] = w.ver /\ w.ver # 0
    BY <1>5 DEF WStore, WStoreAs, IInv, WorkerAhead, ChunkInv, Busy
  <2> QED BY <1>0, <2>1, <2>2, <2>3 DEF ChunkInv, Busy, AllNumbers
<1>6. ASSUME NEW p \in Paths, WBackfillStore(p)
      PROVE  /\ \A q \in Paths : m'.ent[q] # 0 => chunk'[q] # 0
             /\ \A q \in Paths : Busy(q, {"writing"})' => chunk'[q] = w'.ver
  <2>1. w'.pc = "backfill" /\ chunk' = chunk
    BY <1>0, <1>6 DEF WBackfillStore, WorkerOK
  <2>2. m'.ent = m.ent
    BY <1>0, <1>6 DEF WBackfillStore, Stored, AllNumbers
  <2> QED BY <2>1, <2>2 DEF ChunkInv, Busy
<1>7. ASSUME NEW c \in Callers PROVE ~ClearReset(c) /\ \A p : ~ClearUnlink(c, p)
  BY DEF ClearReset, ClearUnlink, Begin, NoClears, ChunkInv
<1> QED BY <1>0, <1>1, <1>2, <1>3, <1>4, <1>5, <1>6, <1>7, StepsOfTheStore

\* Without a crash, and as long as nobody clears the index, a search finds the chunks
\* of every entry: the two are put in place and dropped under one hold of the lock.
THEOREM EntriesHaveChunks ==
  ASSUME MaxCrashes = 0, NoClears
  PROVE  Spec => []EntryHasChunks
<1>1. Init => ChunkInv
  BY IdleWorkerFields DEF Init, ChunkInv, Busy, EmptyManifest, IdleCaller
<1>2. IInv /\ ChunkInv /\ [Next]_vars => ChunkInv'
  <2> SUFFICES ASSUME IInv, ChunkInv, [Next]_vars PROVE ChunkInv'
    OBVIOUS
  <2>1. CASE User
    BY <2>1 DEF User, UserWrite, UserDelete, UserEditIgnore, ChunkInv, Busy, store, life
  <2>2. CASE Running
    <3>1. up' /\ crashes' = 0
      BY <2>2, RunningKeepsLife DEF life, ChunkInv
    <3>2. CASE Worker \/ WCancel
      <4>1. k' = k
        BY <3>2, WorkerKeepsCallers
      <4> QED BY <2>2, <3>1, <4>1, StoreKeepsChunks DEF ChunkInv
    <3>3. CASE \E c \in Callers : Caller(c)
      <4>1. \A d \in Callers : k'[d].pc # "unlink" /\ k'[d].next # "unlink"
        BY <3>3, CallersDoNotUnlink DEF ChunkInv
      <4> QED BY <2>2, <3>1, <4>1, StoreKeepsChunks DEF ChunkInv
    <3> QED BY <2>2, <3>2, <3>3 DEF Running
  <2>3. ~Crash /\ \A kind : ~Restart(kind)
    BY DEF ChunkInv, Crash, Restart
  <2>4. CASE UNCHANGED vars
    BY <2>4 DEF vars, store, life, ChunkInv, Busy
  <2> QED BY <2>1, <2>2, <2>3, <2>4 DEF Next
<1>3. ChunkInv => EntryHasChunks
  BY DEF ChunkInv, EntryHasChunks
<1> QED BY <1>1, <1>2, <1>3, InductiveInvariant, PTL DEF Spec

-----------------------------------------------------------------------------
(* TotalBytes.  Bytes is a sum over paths; what a step does to the entries   *)
(* changes it by the sizes that come and go.                                 *)

Entries == [Paths -> 0..MaxVersion]

Weights(e) == [p \in Paths |-> SizeOf(p, e[p])]

LEMMA SizesAreNatural ==
  ASSUME NEW p \in Paths, NEW v \in 0..MaxVersion
  PROVE  SizeOf(p, v) \in Nat
<1>1. MaxVersion \in Nat /\ Size \in [Paths -> [Versions -> Nat \ {0}]]
  BY SizesAssumption
<1>2. CASE v = 0
  BY <1>2 DEF SizeOf
<1>3. CASE v # 0
  <2>1. v \in Versions
    BY <1>1, <1>3 DEF Versions
  <2> QED BY <1>1, <1>3, <2>1 DEF SizeOf
<1> QED BY <1>2, <1>3

LEMMA WeightsAreSummands ==
  ASSUME NEW e \in Entries, NEW S, S \subseteq Paths
  PROVE  /\ Summands(Weights(e), S) /\ IsFiniteSet(S)
         /\ \A p \in Paths : Weights(e)[p] = SizeOf(p, e[p]) /\ SizeOf(p, e[p]) \in Nat
<1>1. \A p \in Paths : Weights(e)[p] = SizeOf(p, e[p]) /\ SizeOf(p, e[p]) \in Nat
  BY SizesAreNatural DEF Weights, Entries
<1>2. IsFiniteSet(S)
  BY SizesAssumption, FS_Subset
<1> QED BY <1>1, <1>2 DEF Summands

LEMMA BytesIsSum ==
  ASSUME NEW e \in Entries, NEW S, S \subseteq Paths
  PROVE  Bytes(e, S) = SumOver(Weights(e), S)
<1> DEFINE Turn(f) == f = [s \in SUBSET S |->
                             IF s = {} THEN 0
                             ELSE LET x == CHOOSE x \in s : TRUE
                                  IN SizeOf(x, e[x]) + f[s \ {x}]]
           F == CHOOSE f : Turn(f)
           g == Weights(e)
<1>1. Bytes(e, S) = F[S]
  BY DEF Bytes, MapThenSumSet, MapThenFoldSet
<1>2. Summands(g, S) /\ IsFiniteSet(S) /\ \A p \in Paths : g[p] = SizeOf(p, e[p])
  BY WeightsAreSummands
<1> HIDE DEF g
<1>3. ASSUME NEW f PROVE Turn(f) <=> AddsUp(f, g, S)
  <2>1. \A s \in SUBSET S : s # {} => SomeOf(s) \in Paths
    BY DEF SomeOf
  <2>2. \A s \in SUBSET S :
          (IF s = {} THEN 0 ELSE LET x == CHOOSE x \in s : TRUE IN SizeOf(x, e[x]) + f[s \ {x}])
          = (IF s = {} THEN 0 ELSE g[SomeOf(s)] + f[s \ {SomeOf(s)}])
    BY <1>2, <2>1 DEF SomeOf
  <2>3. [s \in SUBSET S |-> IF s = {} THEN 0
                             ELSE LET x == CHOOSE x \in s : TRUE
                                  IN SizeOf(x, e[x]) + f[s \ {x}]]
        = [s \in SUBSET S |-> IF s = {} THEN 0 ELSE g[SomeOf(s)] + f[s \ {SomeOf(s)}]]
    BY <2>2
  <2> QED BY <2>3 DEF AddsUp
<1>4. PICK h : Totals(h, g, S)
  BY <1>2, TotalsExist
<1> HIDE DEF Turn
<1>5. Turn(h)
  BY <1>3, <1>4 DEF Totals
<1>6. AddsUp(F, g, S)
  BY <1>3, <1>5
<1> HIDE DEF F
<1>7. F[S] = h[S]
  BY <1>2, <1>4, <1>6, SumsAgree DEF Totals
<1>8. S \in SUBSET S
  OBVIOUS
<1>9. Bytes(e, S) = SumOver(g, S)
  BY <1>1, <1>4, <1>7, <1>8 DEF Totals
<1> QED BY <1>9 DEF g

LEMMA BytesAreNatural ==
  ASSUME NEW e \in Entries, NEW S, S \subseteq Paths
  PROVE  Bytes(e, S) \in Nat
  BY BytesIsSum, WeightsAreSummands, SumIsNatural

\* An empty store has no bytes, and the entries dropped take theirs along.
LEMMA BytesOfDropped ==
  ASSUME NEW mm, ManifestOK(mm), NEW T, T \subseteq Paths
  PROVE  Bytes(Dropped(mm, T).ent, Paths) = Bytes(mm.ent, Paths) - Bytes(mm.ent, T)
<1> DEFINE e == mm.ent
           d == Dropped(mm, T).ent
<1>1. e \in Entries /\ d \in Entries /\ d = [p \in Paths |-> IF p \in T THEN 0 ELSE e[p]]
  <2>1. e \in Entries
    BY DEF ManifestOK, Entries
  <2>2. d = [p \in Paths |-> IF p \in T THEN 0 ELSE e[p]]
    BY DEF Dropped
  <2>3. ManifestOK(Dropped(mm, T))
    BY DroppedOK
  <2> QED BY <2>1, <2>2, <2>3 DEF ManifestOK, Entries
<1> HIDE DEF e, d
<1>2. ASSUME NEW S, S \subseteq Paths
      PROVE  /\ Summands(Weights(e), S) /\ Summands(Weights(d), S) /\ IsFiniteSet(S)
             /\ Bytes(e, S) = SumOver(Weights(e), S)
             /\ Bytes(d, S) = SumOver(Weights(d), S)
             /\ Bytes(e, S) \in Nat /\ Bytes(d, S) \in Nat
  BY <1>1, <1>2, WeightsAreSummands, BytesIsSum, BytesAreNatural
<1>3. \A p \in Paths : /\ Weights(e)[p] = SizeOf(p, e[p])
                       /\ Weights(d)[p] = SizeOf(p, d[p])
  BY DEF Weights
<1>4. \A p \in T : Weights(d)[p] = 0
  BY <1>1, <1>3 DEF SizeOf
<1>5. \A p \in Paths \ T : Weights(d)[p] = Weights(e)[p]
  BY <1>1, <1>3
<1>6. Bytes(d, T) = 0
  BY <1>2, <1>4, SumOfZeros
<1>7. Bytes(d, Paths \ T) = Bytes(e, Paths \ T)
  <2>1. Paths \ T \subseteq Paths
    OBVIOUS
  <2>2. SumOver(Weights(d), Paths \ T) = SumOver(Weights(e), Paths \ T)
    BY <1>2, <1>5, <2>1, SumSame
  <2> QED BY <1>2, <2>1, <2>2
<1>8. Bytes(d, Paths) = Bytes(d, T) + Bytes(d, Paths \ T)
  <2>1. SumOver(Weights(d), Paths) = SumOver(Weights(d), T) + SumOver(Weights(d), Paths \ T)
    BY <1>2, SumInTwo
  <2> QED BY <1>2, <2>1
<1>9. Bytes(e, Paths) = Bytes(e, T) + Bytes(e, Paths \ T)
  <2>1. SumOver(Weights(e), Paths) = SumOver(Weights(e), T) + SumOver(Weights(e), Paths \ T)
    BY <1>2, SumInTwo
  <2> QED BY <1>2, <2>1
<1>10. Bytes(e, T) \in Nat /\ Bytes(e, Paths \ T) \in Nat
  BY <1>2
<1>11. Bytes(d, Paths) = Bytes(e, Paths) - Bytes(e, T)
  BY <1>6, <1>7, <1>8, <1>9, <1>10
<1> QED BY <1>11 DEF d, e

LEMMA BytesOfStored ==
  ASSUME NEW e \in Entries, NEW p \in Paths, NEW v \in 0..MaxVersion
  PROVE  Bytes([e EXCEPT ![p] = v], Paths)
         = Bytes(e, Paths) - SizeOf(p, e[p]) + SizeOf(p, v)
<1> DEFINE d == [e EXCEPT ![p] = v]
           rest == Paths \ {p}
<1>1. d \in Entries /\ d[p] = v /\ \A q \in rest : d[q] = e[q]
  BY DEF Entries
<1> HIDE DEF d
<1>2. ASSUME NEW S, S \subseteq Paths
      PROVE  /\ Summands(Weights(e), S) /\ Summands(Weights(d), S)
             /\ Bytes(e, S) = SumOver(Weights(e), S)
             /\ Bytes(d, S) = SumOver(Weights(d), S)
             /\ Bytes(e, S) \in Nat /\ Bytes(d, S) \in Nat
  BY <1>1, <1>2, WeightsAreSummands, BytesIsSum, BytesAreNatural
<1>3. \A q \in Paths : /\ Weights(e)[q] = SizeOf(q, e[q])
                       /\ Weights(d)[q] = SizeOf(q, d[q])
  BY DEF Weights
<1>4. rest \subseteq Paths
  OBVIOUS
<1>5. Bytes(e, Paths) = SizeOf(p, e[p]) + Bytes(e, rest)
  <2>1. SumOver(Weights(e), Paths) = Weights(e)[p] + SumOver(Weights(e), Paths \ {p})
    BY <1>2, SumWithout
  <2> QED BY <1>2, <1>3, <1>4, <2>1
<1>6. Bytes(d, Paths) = SizeOf(p, v) + Bytes(d, rest)
  <2>1. SumOver(Weights(d), Paths) = Weights(d)[p] + SumOver(Weights(d), Paths \ {p})
    BY <1>2, SumWithout
  <2> QED BY <1>1, <1>2, <1>3, <1>4, <2>1
<1>7. Bytes(e, rest) = Bytes(d, rest)
  <2>1. SumOver(Weights(e), rest) = SumOver(Weights(d), rest)
    BY <1>1, <1>2, <1>3, <1>4, SumSame
  <2> QED BY <1>2, <1>4, <2>1
<1>8. Bytes(e, rest) \in Nat /\ SizeOf(p, v) \in Nat /\ SizeOf(p, e[p]) \in Nat
  <2>1. e[p] \in 0..MaxVersion
    BY DEF Entries
  <2> QED BY <1>2, <1>4, <2>1, SizesAreNatural
<1>9. Bytes(d, Paths) = Bytes(e, Paths) - SizeOf(p, e[p]) + SizeOf(p, v)
  BY <1>5, <1>6, <1>7, <1>8
<1> QED BY <1>9 DEF d

TotalOK(mm) == mm.total = Bytes(mm.ent, Paths) /\ mm.total <= MaxTotalBytes

\* What the budget of a commit was found to be holds until the entry is stored.
BytesInv ==
  /\ TotalOK(m) /\ TotalOK(disk)
  /\ \A a \in Savers : TotalOK(copy[a])
  /\ \A p \in Paths : Busy(p, {"writing"}) => ~OverCapacity(p, w.ver)

LEMMA TotalsAreNumbers ==
  ASSUME NEW mm, ManifestOK(mm), TotalOK(mm)
  PROVE  mm.total \in Nat /\ MaxTotalBytes \in Nat
<1>1. mm.ent \in Entries
  BY DEF ManifestOK, Entries
<1> QED BY <1>1, BytesAreNatural, SizesAssumption DEF TotalOK

LEMMA EmptyTotal == TotalOK(EmptyManifest)
<1> DEFINE e == EmptyManifest.ent
<1>1. e \in Entries /\ e = [p \in Paths |-> 0]
  BY EmptyManifestOK DEF ManifestOK, Entries, EmptyManifest
<1>2. IsFiniteSet(Paths) /\ MaxTotalBytes \in Nat
  BY SizesAssumption
<1> HIDE DEF e
<1>3. \A p \in Paths : Weights(e)[p] = 0
  BY <1>1 DEF Weights, SizeOf
<1>4. Bytes(e, Paths) = 0
  BY <1>1, <1>2, <1>3, BytesIsSum, SumOfZeros
<1> QED BY <1>2, <1>4 DEF TotalOK, EmptyManifest, e

LEMMA DroppedTotal ==
  ASSUME NEW mm, ManifestOK(mm), TotalOK(mm), NEW T, T \subseteq Paths
  PROVE  TotalOK(Dropped(mm, T))
<1>1. /\ mm.total \in Nat /\ MaxTotalBytes \in Nat
      /\ mm.total = Bytes(mm.ent, Paths) /\ mm.total <= MaxTotalBytes
  BY TotalsAreNumbers DEF TotalOK
<1>2. mm.ent \in Entries
  BY DEF ManifestOK, Entries
<1>3. Bytes(mm.ent, T) \in Nat
  BY <1>2, BytesAreNatural
<1>4. Bytes(Dropped(mm, T).ent, Paths) = Bytes(mm.ent, Paths) - Bytes(mm.ent, T)
  BY BytesOfDropped
<1>5. Dropped(mm, T).total = mm.total - Bytes(mm.ent, T)
  BY DEF Dropped
<1> QED BY <1>1, <1>3, <1>4, <1>5 DEF TotalOK

LEMMA StoredTotal ==
  ASSUME NEW mm, ManifestOK(mm), TotalOK(mm), NEW p \in Paths, NEW v \in 0..MaxVersion,
         NEW hv, mm.total - SizeOf(p, mm.ent[p]) + SizeOf(p, v) <= MaxTotalBytes
  PROVE  TotalOK(Stored(mm, p, v, hv))
<1>1. mm.ent \in Entries /\ mm.total = Bytes(mm.ent, Paths)
  BY DEF ManifestOK, Entries, TotalOK
<1>2. Bytes([mm.ent EXCEPT ![p] = v], Paths)
      = Bytes(mm.ent, Paths) - SizeOf(p, mm.ent[p]) + SizeOf(p, v)
  BY <1>1, BytesOfStored
<1>3. /\ Stored(mm, p, v, hv).ent = [mm.ent EXCEPT ![p] = v]
      /\ Stored(mm, p, v, hv).total = mm.total - SizeOf(p, mm.ent[p]) + SizeOf(p, v)
  BY DEF Stored
<1> QED BY <1>1, <1>2, <1>3 DEF TotalOK

LEMMA StoreKeepsBytes ==
  ASSUME IInv, BytesInv, up, Running
  PROVE  /\ TotalOK(m')
         /\ \A p \in Paths : Busy(p, {"writing"})' => ~OverCapacity(p, w.ver)'
<1> DEFINE Goal == /\ TotalOK(m')
                   /\ \A p \in Paths : Busy(p, {"writing"})' => ~OverCapacity(p, w.ver)'
<1>0. /\ ManifestOK(m) /\ WorkerOK /\ TotalOK(m) /\ w.ver \in 0..MaxVersion
      /\ m.ent \in [Paths -> 0..MaxVersion] /\ m.total \in Nat /\ MaxTotalBytes \in Nat
  <2>1. ManifestOK(m) /\ WorkerOK /\ TotalOK(m)
    BY DEF IInv, TypeOK, BytesInv
  <2>2. m.total \in Nat /\ MaxTotalBytes \in Nat
    BY <2>1, TotalsAreNumbers
  <2> QED BY <2>1, <2>2 DEF WorkerOK, ManifestOK
<1>1. CASE UNCHANGED <<m, chunk>> /\ StillWriting
  BY <1>1 DEF BytesInv, StillWriting, Busy, OverCapacity
<1>2. ASSUME NEW S \in SUBSET Paths, DropLocked(S), w'.pc # "writing"
      PROVE  Goal
  <2> DEFINE T == {p \in S : m.ent[p] # 0}
  <2>1. m' = Dropped(m, T) /\ T \subseteq Paths
    BY <1>2 DEF DropLocked
  <2> HIDE DEF T
  <2>2. TotalOK(m')
    BY <1>0, <2>1, DroppedTotal
  <2> QED BY <1>2, <2>2 DEF Busy
<1>3. ASSUME NEW p \in Paths, WCommitDisallowed(p)
      PROVE  Goal
  <2>1. w'.pc = "next"
    BY <1>0, <1>3 DEF WCommitDisallowed, WorkerOK
  <2>2. m' = Dropped(m, {p}) /\ {p} \subseteq Paths
    BY <1>3 DEF WCommitDisallowed
  <2>3. TotalOK(m')
    BY <1>0, <2>2, DroppedTotal
  <2> QED BY <2>1, <2>3 DEF Busy
<1>4. ASSUME NEW p \in Paths, WWriteChunks(p)
      PROVE  Goal
  <2>1. /\ w'.ver = w.ver /\ w'.cur = w.cur /\ m' = m /\ ~OverCapacity(p, w.ver)
        /\ p \in w.cur
    BY <1>0, <1>4 DEF WWriteChunks, WorkerOK
  <2>2. \A q \in w.cur : q = p
    BY <1>4, <2>1 DEF IInv, OneAtATime
  <2> QED BY <1>0, <2>1, <2>2 DEF Busy, OverCapacity
<1>5. ASSUME NEW p \in Paths, NEW b \in BOOLEAN, WStore(p, b)
      PROVE  Goal
  <2>1. w'.pc = "next"
    BY <1>0, <1>5 DEF WStore, WStoreAs, WorkerOK
  <2>2. m' = Stored(m, p, w.ver, b)
    BY <1>5 DEF WStore, WStoreAs
  <2>3. ~OverCapacity(p, w.ver)
    BY <1>5 DEF WStore, WStoreAs, BytesInv, Busy
  <2>4. m.ent[p] \in 0..MaxVersion
    BY <1>0
  <2>5. SizeOf(p, m.ent[p]) \in Nat /\ SizeOf(p, w.ver) \in Nat
    BY <1>0, <2>4, SizesAreNatural
  <2>6. m.total - SizeOf(p, m.ent[p]) + SizeOf(p, w.ver) <= MaxTotalBytes
    BY <1>0, <2>3, <2>5 DEF OverCapacity
  <2>7. TotalOK(m')
    BY <1>0, <2>2, <2>6, StoredTotal
  <2> QED BY <2>1, <2>7 DEF Busy
<1>6. ASSUME NEW p \in Paths, WBackfillStore(p)
      PROVE  Goal
  <2>1. w'.pc = "backfill"
    BY <1>0, <1>6 DEF WBackfillStore, WorkerOK
  <2>2. CASE m' = m
    BY <1>0, <2>1, <2>2 DEF Busy
  <2>3. CASE m.ent[p] = w.ver /\ m' = Stored(m, p, w.ver, TRUE)
    <3>1. SizeOf(p, w.ver) \in Nat
      BY <1>0, SizesAreNatural
    <3>2. m.total - SizeOf(p, m.ent[p]) + SizeOf(p, w.ver) <= MaxTotalBytes
      BY <1>0, <2>3, <3>1 DEF TotalOK
    <3>3. TotalOK(m')
      BY <1>0, <2>3, <3>2, StoredTotal
    <3> QED BY <2>1, <3>3 DEF Busy
  <2> QED BY <1>6, <2>2, <2>3 DEF WBackfillStore
<1>7. ASSUME NEW c \in Callers, ClearReset(c) PROVE Goal
  <2>1. m' = EmptyManifest /\ w.pc # "writing" /\ w' = w
    BY <1>7 DEF ClearReset, LockFree, CallerKeeps
  <2> QED BY <2>1, EmptyTotal DEF Busy
<1>8. ASSUME NEW c \in Callers, NEW p \in Paths, ClearUnlink(c, p) PROVE Goal
  <2>1. m' = m /\ w' = w
    BY <1>8 DEF ClearUnlink, CallerKeeps
  <2> QED BY <1>0, <2>1 DEF BytesInv, Busy, OverCapacity
<1> HIDE DEF Goal
<1>9. Goal
  <2>1. UNCHANGED <<m, chunk>> /\ StillWriting => Goal
    BY <1>1 DEF Goal
  <2> QED BY <2>1, <1>2, <1>3, <1>4, <1>5, <1>6, <1>7, <1>8, StepsOfTheStore
<1> QED BY <1>9 DEF Goal

\* Saving copies manifests, and nothing else touches the copies and the file.
LEMMA StepsOfTheSavers ==
  ASSUME IInv, Running
  PROVE  /\ \A a \in Savers : copy'[a] = m \/ copy'[a] = copy[a]
         /\ disk' = disk \/ \E a \in Savers : disk' = copy[a]
<1>0. DOMAIN copy = Savers /\ "worker" \in Savers /\ Callers \subseteq Savers
  BY DEF IInv, TypeOK, Savers
<1>1. CASE WMarshal \/ WPublish
  BY <1>0, <1>1 DEF WMarshal, WPublish
<1>2. ASSUME NEW c \in Callers, CMarshal(c) \/ CPublish(c)
      PROVE  /\ \A a \in Savers : copy'[a] = m \/ copy'[a] = copy[a]
             /\ disk' = disk \/ \E a \in Savers : disk' = copy[a]
  BY <1>0, <1>2 DEF CMarshal, CPublish
<1>3. ASSUME NEW p, \/ WSkipIneligible(p) \/ WOpenFails(p) \/ WUnchanged(p) \/ WRead(p)
                    \/ WChangedDuringRead(p) \/ WCommitDisallowed(p) \/ WCommitNoCapacity(p)
                    \/ WWriteChunks(p) \/ WBackfillRead(p) \/ WBackfillStore(p)
      PROVE  UNCHANGED onDisk
  BY <1>3 DEF WSkipIneligible, WOpenFails, WUnchanged, WRead, WChangedDuringRead,
              WCommitDisallowed, WCommitNoCapacity, WWriteChunks, WBackfillRead,
              WBackfillStore, WorkerKeeps
<1>4. ASSUME NEW p, NEW b, WStore(p, b)
      PROVE  UNCHANGED onDisk
  BY <1>4 DEF WStore, WStoreAs, WorkerKeeps
<1>5. ASSUME NEW b, WTake(b) \/ WLoopEnds(b) PROVE UNCHANGED onDisk
  BY <1>5 DEF WTake, WLoopEnds, WorkerKeeps
<1>6. CASE \/ WWalk \/ WPrune \/ WCancelled \/ WBackfillStops \/ WBackfillEnds \/ WFinish
           \/ WCancel
  BY <1>6 DEF WWalk, WPrune, WCancelled, WBackfillStops, WBackfillEnds, WFinish, WCancel,
              WorkerKeeps, onDisk
<1>7. ASSUME NEW c \in Callers, Caller(c), ~CMarshal(c), ~CPublish(c) PROVE UNCHANGED onDisk
  BY <1>7 DEF Caller, RemovePaths, EnsureIndexed, SubmitRequest, Submit,
              ClearReset, ClearSave, ClearUnlink, LoadRules, SwapRules, PurgeScan,
              PurgeJudge, PurgeRemove, CallerKeeps
<1>8. CASE UNCHANGED onDisk
  BY <1>8 DEF onDisk
<1> QED BY <1>1, <1>2, <1>3, <1>4, <1>5, <1>6, <1>7, <1>8 DEF Running, Worker

\* TotalBytes is what the entries add up to and stays within the limit, in memory and
\* on disk, whatever was evicted, replaced, cleared, saved late or lost in a crash: the
\* capacity found at a commit is still there when its entry is stored.
THEOREM BytesAreAccounted == Spec => []BytesAccounted
<1>1. Init => BytesInv
  BY EmptyTotal, IdleWorkerFields DEF Init, BytesInv, Busy
<1>2. IInv /\ BytesInv /\ [Next]_vars => BytesInv'
  <2> SUFFICES ASSUME IInv, BytesInv, [Next]_vars PROVE BytesInv'
    OBVIOUS
  <2>1. CASE User \/ UNCHANGED vars
    <3>1. UNCHANGED <<m, disk, copy, w>>
      BY <2>1 DEF User, UserWrite, UserDelete, UserEditIgnore, vars, store, onDisk
    <3> QED BY <3>1 DEF BytesInv, Busy, OverCapacity
  <2>2. CASE up /\ Running
    <3>1. TotalOK(disk')
      BY <2>2, StepsOfTheSavers DEF BytesInv
    <3>2. \A a \in Savers : TotalOK(copy'[a])
      BY <2>2, StepsOfTheSavers DEF BytesInv
    <3> QED BY <2>2, <3>1, <3>2, StoreKeepsBytes DEF BytesInv
  <2>3. CASE Crash
    <3>1. UNCHANGED <<m, disk>> /\ w' = IdleWorker /\ \A a \in Savers : copy'[a] = EmptyManifest
      BY <2>3 DEF Crash, store
    <3> QED BY <3>1, EmptyTotal, IdleWorkerFields DEF BytesInv, Busy
  <2>4. ASSUME NEW kind \in {"same", "reset", "revec"}, Restart(kind) PROVE BytesInv'
    <3>1. UNCHANGED <<copy, w>> /\ w.cur = {}
      BY <2>4 DEF Restart, IInv, OneAtATime
    <3>2. TotalOK(m') /\ TotalOK(disk')
      <4>1. CASE kind = "reset"
        BY <2>4, <4>1, EmptyTotal DEF Restart
      <4>2. CASE kind = "revec"
        <5>1. m'.ent = disk.ent /\ m'.total = disk.total /\ disk' = disk
          BY <2>4, <4>2 DEF Restart
        <5> QED BY <5>1 DEF BytesInv, TotalOK
      <4>3. CASE kind = "same"
        BY <2>4, <4>3 DEF Restart, BytesInv
      <4> QED BY <4>1, <4>2, <4>3
    <3> QED BY <3>1, <3>2 DEF BytesInv, Busy
  <2> QED BY <2>1, <2>2, <2>3, <2>4 DEF Next
<1>3. BytesInv => BytesAccounted
  BY DEF BytesInv, TotalOK, BytesAccounted
<1> QED BY <1>1, <1>2, <1>3, InductiveInvariant, PTL DEF Spec

-----------------------------------------------------------------------------
(* A full pass is exact.  The walk sees the files as they are; at every path *)
(* the loop is done with, either the entry is of the version seen, or the    *)
(* file has moved on, or the pass is marked partial.                         *)

\* Nobody clears the index, and the monitor reports no deleted file.
NoRemovals == \A c \in Callers : Ops[c] \intersect {"remove", "clear"} = {}

\* Until the ignore files change, no rule excludes anything, and a purge finds only
\* what the static filters exclude.
RulesUntouched ==
  /\ edits \in Nat
  /\ edits = 0 =>
       /\ ignored = {} /\ rules = {}
       /\ \A c \in Callers : /\ k[c].rules = {} /\ k[c].next # "drop"
                             /\ k[c].pc = "drop" => k[c].todo \intersect Indexable = {}

\* What the worker knows of the files it walked.
WalkSeen ==
  /\ w.cur # {} => w.pc \in {"work", "writing", "embed"}
  /\ w.full =>
       /\ up
       /\ \A p \in Paths :
             /\ w.seen[p] <= clock[p]
             /\ w.seen[p] # 0 => p \in Indexable /\ SizeOf(p, w.seen[p]) <= MaxFileBytes
       /\ w.pc = "prune" => w.todo = {p \in Paths : w.seen[p] # 0}

InLoop ==
  /\ w.full
  /\ \/ w.pc \in {"next", "work", "writing"}
     \/ w.pc \in {"marshal", "publish"} /\ w.after = "next"
AfterLoop ==
  /\ w.full
  /\ \/ w.pc \in {"backfill", "embed", "finish"}
     \/ w.pc \in {"marshal", "publish"} /\ w.after = "finish"

Exact(p) == w.seen[p] # 0 /\ w.seen[p] = fs[p] => m.ent[p] = fs[p] \/ w.partial
Unseen(p) == w.seen[p] = 0 => m.ent[p] = 0

LoopExact ==
  /\ InLoop =>
       /\ \A p \in Paths : Unseen(p) /\ (p \in w.todo \/ Exact(p))
       /\ \A p \in w.todo : w.seen[p] # 0
       /\ w.pc \in {"work", "writing"} => \A p \in w.cur : p \in w.todo /\ w.seen[p] <= w.ver
  /\ AfterLoop => \A p \in Paths : Unseen(p) /\ Exact(p)

LEMMA WorkerKeepsRules ==
  ASSUME Worker \/ WCancel
  PROVE  UNCHANGED <<user, rules>>
<1>1. ASSUME NEW p, \/ WSkipIneligible(p) \/ WOpenFails(p) \/ WUnchanged(p) \/ WRead(p)
                    \/ WChangedDuringRead(p) \/ WCommitDisallowed(p) \/ WCommitNoCapacity(p)
                    \/ WWriteChunks(p) \/ WBackfillRead(p) \/ WBackfillStore(p)
      PROVE  UNCHANGED <<user, rules>>
  BY <1>1 DEF WSkipIneligible, WOpenFails, WUnchanged, WRead, WChangedDuringRead,
              WCommitDisallowed, WCommitNoCapacity, WWriteChunks, WBackfillRead,
              WBackfillStore, WorkerKeeps
<1>2. ASSUME NEW p, NEW b, WStore(p, b)
      PROVE  UNCHANGED <<user, rules>>
  BY <1>2 DEF WStore, WStoreAs, WorkerKeeps
<1>3. ASSUME NEW b, WTake(b) \/ WLoopEnds(b) PROVE UNCHANGED <<user, rules>>
  BY <1>3 DEF WTake, WLoopEnds, WorkerKeeps
<1>4. CASE \/ WWalk \/ WPrune \/ WCancelled \/ WBackfillStops \/ WBackfillEnds
           \/ WMarshal \/ WPublish \/ WFinish \/ WCancel
  BY <1>4 DEF WWalk, WPrune, WCancelled, WBackfillStops, WBackfillEnds, WMarshal, WPublish,
              WFinish, WCancel, WorkerKeeps
<1> QED BY <1>1, <1>2, <1>3, <1>4 DEF Worker

\* Beside the worker, the rules change only by being loaded, and only a purge drops
\* entries: those it judged.
LEMMA CallersKeepRules ==
  ASSUME NoRemovals, IInv, RulesUntouched, edits = 0, NEW c \in Callers, Caller(c)
  PROVE  /\ UNCHANGED <<user, w>> /\ rules' = {}
         /\ \A d \in Callers : /\ k'[d].rules = {} /\ k'[d].next # "drop"
                               /\ k'[d].pc = "drop" => k'[d].todo \intersect Indexable = {}
         /\ m' = m \/ \E S : DropLocked(S) /\ S \intersect Indexable = {}
<1> DEFINE Fine(r) == /\ r.rules = {} /\ r.next # "drop"
                      /\ r.pc = "drop" => r.todo \intersect Indexable = {}
           OneMoves(r) == k' = [k EXCEPT ![c] = r] /\ Fine(r)
           NoDrop == m' = m \/ \E S : DropLocked(S) /\ S \intersect Indexable = {}
<1>0. /\ k \in [Callers -> CallerRecord] /\ k[c] \in CallerRecord
      /\ \A d \in Callers : Fine(k[d])
      /\ rules = {} /\ ignored = {}
  BY DEF IInv, TypeOK, RulesUntouched
<1>1. ASSUME CMarshal(c) \/ ClearSave(c) \/ \E p \in Paths : ClearUnlink(c, p)
      PROVE  UNCHANGED <<user, w>> /\ rules' = {} /\ NoDrop /\ \E r : OneMoves(r)
  <2>1. UNCHANGED <<user, w>> /\ rules' = {} /\ m' = m
    BY <1>0, <1>1 DEF CMarshal, ClearSave, ClearUnlink, CallerKeeps, store
  <2>2. CASE CMarshal(c)
    <3>1. OneMoves([k[c] EXCEPT !.pc = "publish"])
      BY <1>0, <2>2 DEF CMarshal, CallerRecord
    <3> QED BY <2>1, <3>1
  <2>3. CASE ClearSave(c)
    <3>1. OneMoves([k[c] EXCEPT !.pc = "marshal"])
      BY <1>0, <2>3 DEF ClearSave, CallerRecord
    <3> QED BY <2>1, <3>1
  <2>4. ASSUME NEW p \in Paths, ClearUnlink(c, p) PROVE \E r : OneMoves(r)
    <3>1. OneMoves([k[c] EXCEPT !.todo = @ \ {p}])
      BY <1>0, <2>4 DEF ClearUnlink, CallerRecord
    <3> QED BY <3>1
  <2> QED BY <1>1, <2>1, <2>2, <2>3, <2>4
<1>2. ASSUME CPublish(c) \/ SwapRules(c)
      PROVE  UNCHANGED <<user, w>> /\ rules' = {} /\ NoDrop /\ \E r : OneMoves(r)
  <2>1. UNCHANGED <<user, w>> /\ rules' = {} /\ m' = m
    BY <1>0, <1>2 DEF CPublish, SwapRules, CallerKeeps, store
  <2>2. OneMoves([IdleCaller EXCEPT !.pc = k[c].next])
    BY <1>0, <1>2 DEF CPublish, SwapRules, IdleCaller
  <2> QED BY <2>1, <2>2
<1>3. ASSUME NEW op, LoadRules(c, op)
      PROVE  UNCHANGED <<user, w>> /\ rules' = {} /\ NoDrop /\ \E r : OneMoves(r)
  <2>1. UNCHANGED <<user, w>> /\ rules' = {} /\ m' = m
    BY <1>0, <1>3 DEF LoadRules, CallerKeeps, store
  <2>2. OneMoves([IdleCaller EXCEPT !.pc = "swap", !.rules = ignored,
                                    !.next = IF op = "all" THEN "full" ELSE "purge"])
    BY <1>0, <1>3 DEF LoadRules, IdleCaller
  <2> QED BY <2>1, <2>2
<1>4. ASSUME PurgeScan(c)
      PROVE  UNCHANGED <<user, w>> /\ rules' = {} /\ NoDrop /\ \E r : OneMoves(r)
  <2>1. UNCHANGED <<user, w>> /\ rules' = {} /\ m' = m
    BY <1>0, <1>4 DEF PurgeScan, CallerKeeps, store
  <2>2. PICK T : k' = [k EXCEPT ![c] = [IdleCaller EXCEPT !.pc = "judge", !.todo = T]]
    BY <1>4 DEF PurgeScan
  <2>3. OneMoves([IdleCaller EXCEPT !.pc = "judge", !.todo = T])
    BY <2>2 DEF IdleCaller
  <2> QED BY <2>1, <2>3
<1>5. ASSUME PurgeJudge(c)
      PROVE  UNCHANGED <<user, w>> /\ rules' = {} /\ NoDrop /\ \E r : OneMoves(r)
  <2>1. UNCHANGED <<user, w>> /\ rules' = {} /\ m' = m
    BY <1>0, <1>5 DEF PurgeJudge, CallerKeeps, store
  <2> DEFINE S == {p \in k[c].todo : ~Allowed(rules, p)}
             pc == IF S = {} THEN "ensure" ELSE "drop"
  <2>2. k' = [k EXCEPT ![c] = [IdleCaller EXCEPT !.pc = pc, !.todo = S]]
    BY <1>5 DEF PurgeJudge
  <2>3. S \intersect Indexable = {}
    BY <1>0 DEF Allowed
  <2> HIDE DEF S, pc
  <2>4. OneMoves([IdleCaller EXCEPT !.pc = pc, !.todo = S])
    BY <2>2, <2>3 DEF IdleCaller
  <2> QED BY <2>1, <2>4
<1>6. ASSUME PurgeRemove(c)
      PROVE  UNCHANGED <<user, w>> /\ rules' = {} /\ NoDrop /\ \E r : OneMoves(r)
  <2>1. UNCHANGED <<user, w>> /\ rules' = {}
    BY <1>0, <1>6 DEF PurgeRemove, CallerKeeps
  <2>2. DropLocked(k[c].todo) /\ k[c].todo \intersect Indexable = {}
    BY <1>0, <1>6 DEF PurgeRemove
  <2>3. OneMoves([IdleCaller EXCEPT !.pc = "marshal", !.next = "ensure"])
    BY <1>6 DEF PurgeRemove, IdleCaller
  <2> QED BY <2>1, <2>2, <2>3
<1>7. ASSUME NEW S, EnsureIndexed(c, S) \/ SubmitRequest(c, S)
      PROVE  UNCHANGED <<user, w>> /\ rules' = {} /\ NoDrop /\ \E r : OneMoves(r)
  <2>1. UNCHANGED <<user, w>> /\ rules' = {} /\ m' = m
    BY <1>0, <1>7 DEF EnsureIndexed, SubmitRequest, Submit, store
  <2>2. k' = k \/ k' = [k EXCEPT ![c] = IdleCaller]
    BY <1>7 DEF EnsureIndexed, SubmitRequest
  <2>3. OneMoves(k[c]) \/ OneMoves(IdleCaller)
    BY <1>0, <2>2 DEF IdleCaller
  <2> QED BY <2>1, <2>3
<1>8. ~ClearReset(c) /\ \A S : ~RemovePaths(c, S)
  BY DEF ClearReset, RemovePaths, Begin, NoRemovals
<1>9. UNCHANGED <<user, w>> /\ rules' = {} /\ NoDrop /\ \E r : OneMoves(r)
  <2> HIDE DEF OneMoves, NoDrop
  <2> QED BY <1>1, <1>2, <1>3, <1>4, <1>5, <1>6, <1>7, <1>8 DEF Caller
<1>10. PICK r : OneMoves(r)
  BY <1>9
<1>11. \A d \in Callers : Fine(k'[d])
  <2>1. \A d \in Callers : k'[d] = r \/ k'[d] = k[d]
    BY <1>0, <1>10
  <2>2. Fine(r)
    BY <1>10
  <2> HIDE DEF Fine
  <2> QED BY <1>0, <2>1, <2>2
<1> QED BY <1>9, <1>11

LEMMA RulesStayUntouched ==
  ASSUME NoRemovals, IInv, RulesUntouched, [Next]_vars
  PROVE  RulesUntouched'
<1>1. CASE User
  BY <1>1 DEF User, UserWrite, UserDelete, UserEditIgnore, RulesUntouched
<1>2. CASE Worker \/ WCancel
  BY <1>2, WorkerKeepsRules, WorkerKeepsCallers DEF RulesUntouched, user
<1>3. ASSUME NEW c \in Callers, Caller(c) PROVE RulesUntouched'
  <2>1. UNCHANGED user
    BY <1>3 DEF Caller, CMarshal, CPublish, RemovePaths, EnsureIndexed, SubmitRequest, Submit,
              ClearReset, ClearSave, ClearUnlink, LoadRules, SwapRules, PurgeScan,
              PurgeJudge, PurgeRemove, CallerKeeps
  <2> QED BY <1>3, <2>1, CallersKeepRules DEF RulesUntouched, user
<1>4. CASE Crash
  <2>1. UNCHANGED <<ignored, rules, edits>> /\ k' = [c \in Callers |-> IdleCaller]
    BY <1>4 DEF Crash, user
  <2> QED BY <2>1 DEF RulesUntouched, IdleCaller
<1>5. ASSUME NEW kind, Restart(kind) PROVE RulesUntouched'
  BY <1>5 DEF Restart, user, RulesUntouched
<1>6. CASE UNCHANGED vars
  BY <1>6 DEF vars, user, RulesUntouched
<1> QED BY <1>1, <1>2, <1>3, <1>4, <1>5, <1>6 DEF Next, Running

LEMMA CallersKeepWorker ==
  ASSUME NEW c \in Callers, Caller(c)
  PROVE  UNCHANGED <<user, w, life>>
  BY DEF Caller, CMarshal, CPublish, RemovePaths, EnsureIndexed, SubmitRequest, Submit,
         ClearReset, ClearSave, ClearUnlink, LoadRules, SwapRules, PurgeScan,
         PurgeJudge, PurgeRemove, CallerKeeps

\* The worker goes on with the pass it is in.
SamePass ==
  /\ w'.full = w.full /\ w'.seen = w.seen /\ w'.pc # "prune"
  /\ w'.cur = {} \/ w'.pc \in {"work", "writing", "embed"}

LEMMA WorkerStaysInPass ==
  ASSUME IInv, WalkSeen, Worker \/ WCancel
  PROVE  \/ SamePass
         \/ w'.full = FALSE /\ w'.cur = {}
         \/ WCancel \/ WWalk
         \/ \E b \in BOOLEAN : WTake(b)
<1>0. WorkerOK /\ (w.pc \in {"next", "backfill", "marshal", "publish", "prune"} => w.cur = {})
  BY DEF IInv, TypeOK, WalkSeen
<1>1. ASSUME NEW p, NEW existing, NEW capacity, Reject(p, existing, capacity) PROVE SamePass
  <2>1. CASE w.full
    BY <1>0, <1>1, <2>1 DEF Reject, Remove, WorkerOK, SamePass
  <2>2. CASE ~w.full
    BY <1>0, <1>1, <2>2 DEF Reject, Evict, WorkerOK, SamePass
  <2> QED BY <2>1, <2>2
<1>2. ASSUME NEW p, \/ WSkipIneligible(p) \/ WOpenFails(p) \/ WChangedDuringRead(p)
                    \/ WCommitNoCapacity(p)
      PROVE  SamePass
  BY <1>1, <1>2 DEF WSkipIneligible, WOpenFails, WChangedDuringRead, WCommitNoCapacity
<1>3. ASSUME NEW p, WUnchanged(p) \/ WRead(p) PROVE SamePass
  BY <1>0, <1>3 DEF WUnchanged, WRead, AtPath, WorkerOK, SamePass
<1>4. ASSUME NEW p, WCommitDisallowed(p) \/ WWriteChunks(p) PROVE SamePass
  BY <1>0, <1>4 DEF WCommitDisallowed, WWriteChunks, WorkerOK, SamePass
<1>5. ASSUME NEW p, NEW b, WStore(p, b) PROVE SamePass
  BY <1>0, <1>5 DEF WStore, WStoreAs, WorkerOK, SamePass
<1>6. ASSUME NEW p, WBackfillRead(p) \/ WBackfillStore(p) PROVE SamePass
  BY <1>0, <1>6 DEF WBackfillRead, WBackfillStore, WorkerOK, SamePass
<1>7. CASE WPrune
  BY <1>0, <1>7 DEF WPrune, WorkerOK, SamePass
<1>11. CASE WBackfillStops
  BY <1>0, <1>11 DEF WBackfillStops, WorkerOK, SamePass
<1>13. CASE WBackfillEnds
  BY <1>0, <1>13 DEF WBackfillEnds, WorkerOK, SamePass
<1>12. CASE WMarshal
  BY <1>0, <1>12 DEF WMarshal, WorkerOK, SamePass
<1>8. CASE WPublish
  BY <1>0, <1>8 DEF WPublish, WorkerOK, SamePass
<1>9. CASE WCancelled \/ WFinish
  BY <1>9 DEF WCancelled, WFinish, IdleWorker
<1>10. ASSUME NEW b, WLoopEnds(b) PROVE SamePass \/ (w'.full = FALSE /\ w'.cur = {})
  <2> DEFINE todo == {q \in Paths : b /\ m.ent[q] # 0 /\ (~m.vec[q] \/ vec[q] = 0)}
  <2>1. CASE w.full
    <3>1. w' = [w EXCEPT !.pc = "backfill", !.todo = todo] /\ w.pc = "next"
      BY <1>10, <2>1 DEF WLoopEnds
    <3> HIDE DEF todo
    <3> QED BY <1>0, <3>1 DEF WorkerOK, SamePass
  <2>2. CASE ~w.full /\ w.changed
    BY <1>0, <1>10, <2>2 DEF WLoopEnds, WorkerOK, SamePass
  <2>3. CASE ~w.full /\ ~w.changed
    BY <1>10, <2>3 DEF WLoopEnds, IdleWorker
  <2> QED BY <2>1, <2>2, <2>3
<1> QED BY <1>2, <1>3, <1>4, <1>5, <1>6, <1>7, <1>8, <1>9, <1>10, <1>11, <1>12, <1>13,
     SizesAssumption
   DEF Worker

LEMMA TakeBegins ==
  ASSUME NEW b, WTake(b)
  PROVE  /\ w'.cur = {} /\ w'.seen = [p \in Paths |-> 0] 
         /\ w'.pc \in {"walk", "next", "idle"} /\ (w'.full => w'.pc = "walk")
<1>1. CASE w' = IdleWorker
  BY <1>1 DEF IdleWorker
<1>2. CASE w' = [IdleWorker EXCEPT !.pc = "walk", !.full = TRUE, !.live = b]
  BY <1>2 DEF IdleWorker
<1>3. ASSUME NEW T, NEW n, w' = [IdleWorker EXCEPT !.pc = "next", !.live = b, !.todo = T,
                                                   !.rules = rules, !.local = n]
      PROVE  /\ w'.cur = {} /\ w'.seen = [p \in Paths |-> 0] 
             /\ w'.pc = "next" /\ w'.full = FALSE
  BY <1>3 DEF IdleWorker
<1> QED BY <1>1, <1>2, <1>3 DEF WTake

LEMMA WalkIsSeen ==
  ASSUME IInv, WalkSeen, WWalk
  PROVE  \/ w'.full = FALSE /\ w'.cur = {}
         \/ /\ w'.pc = "prune" /\ w'.cur = {} /\ w'.full = w.full
            /\ w'.todo = {p \in Paths : w'.seen[p] # 0}
            /\ \A p \in Paths : w'.seen[p] = 0 \/ (w'.seen[p] = fs[p] /\ p \in Indexable /\ Fits(p))
<1>0. WorkerOK /\ w.pc = "walk" /\ w.cur = {}
  BY DEF IInv, TypeOK, WalkSeen, WWalk
<1>1. CASE ~w.live
  BY <1>1 DEF WWalk, IdleWorker
<1>2. CASE w.live
  <2> DEFINE seen == [p \in Paths |-> IF Allowed(rules, p) /\ Fits(p) THEN fs[p] ELSE 0]
             todo == {p \in Paths : Allowed(rules, p) /\ Fits(p)}
  <2>1. w' = [w EXCEPT !.pc = "prune", !.todo = todo, !.seen = seen]
    BY <1>2 DEF WWalk
  <2>2. todo = {p \in Paths : seen[p] # 0}
    BY DEF Fits
  <2>3. \A p \in Paths : seen[p] = 0 \/ (seen[p] = fs[p] /\ p \in Indexable /\ Fits(p))
    BY DEF Allowed
  <2> HIDE DEF seen, todo
  <2>4. w'.pc = "prune" /\ w'.cur = {} /\ w'.full = w.full /\ w'.seen = seen /\ w'.todo = todo
    BY <1>0, <2>1 DEF WorkerOK
  <2> QED BY <2>2, <2>3, <2>4
<1> QED BY <1>1, <1>2

LEMMA WalkStaysSeen ==
  ASSUME IInv, WalkSeen, [Next]_vars
  PROVE  WalkSeen'
<1>0. /\ clock \in [Paths -> Nat] /\ fs \in [Paths -> Nat] /\ WorkerOK
      /\ \A p \in Paths : fs[p] \in {0, clock[p]}
      /\ w.full => \A p \in Paths : w.seen[p] \in Nat
  <2>1. AllNumbers /\ WorkerOK
    BY AllNumbersHold DEF IInv, TypeOK
  <2>2. MaxVersion \in Nat
    BY SizesAssumption
  <2> QED BY <2>1, <2>2 DEF AllNumbers, IInv, FilesBehindUser, WorkerOK
<1>1. CASE User
  <2>1. UNCHANGED <<w, up>>
    BY <1>1 DEF User, UserWrite, UserDelete, UserEditIgnore, life
  <2>2. \A p \in Paths : clock[p] <= clock'[p] /\ clock'[p] \in Nat
    <3>1. ASSUME NEW q \in Paths, UserWrite(q)
          PROVE  \A p \in Paths : clock[p] <= clock'[p] /\ clock'[p] \in Nat
      BY <1>0, <3>1 DEF UserWrite
    <3>2. CASE ~\E q \in Paths : UserWrite(q)
      BY <1>0, <1>1, <3>2 DEF User, UserDelete, UserEditIgnore
    <3> QED BY <3>1, <3>2
  <2> QED BY <1>0, <2>1, <2>2 DEF WalkSeen
<1>2. CASE up /\ (Worker \/ WCancel)
  <2>0. UNCHANGED <<clock, up>>
    BY <1>2, WorkerKeepsRules, WorkerKeepsCallers DEF user, life
  <2>1. CASE SamePass
    BY <1>2, <2>0, <2>1 DEF SamePass, WalkSeen
  <2>2. CASE w'.full = FALSE /\ w'.cur = {}
    BY <2>2 DEF WalkSeen
  <2>3. CASE WCancel
    <3>1. /\ w'.full = w.full /\ w'.seen = w.seen /\ w'.pc = w.pc /\ w'.cur = w.cur
          /\ w'.todo = w.todo
      BY <1>0, <2>3 DEF WCancel, WorkerOK
    <3> QED BY <2>0, <3>1 DEF WalkSeen
  <2>4. CASE WWalk
    <3>1. \A p \in Paths : w'.seen[p] = 0 \/ (w'.seen[p] = fs[p] /\ p \in Indexable /\ Fits(p))
             => /\ w'.seen[p] <= clock[p]
                /\ w'.seen[p] # 0 => p \in Indexable /\ SizeOf(p, w'.seen[p]) <= MaxFileBytes
      BY <1>0 DEF Fits
    <3> QED BY <1>2, <2>0, <2>4, <3>1, WalkIsSeen DEF WalkSeen
  <2>5. ASSUME NEW b \in BOOLEAN, WTake(b) PROVE WalkSeen'
    BY <1>0, <1>2, <2>0, <2>5, TakeBegins DEF WalkSeen
  <2> QED BY <1>2, <2>1, <2>2, <2>3, <2>4, <2>5, WorkerStaysInPass
<1>3. ASSUME NEW c \in Callers, Caller(c) PROVE WalkSeen'
  <2>1. UNCHANGED <<clock, w, up>>
    BY <1>3, CallersKeepWorker DEF user, life
  <2> QED BY <2>1 DEF WalkSeen
<1>4. CASE Crash
  BY <1>4 DEF Crash, IdleWorker, WalkSeen
<1>5. ASSUME NEW kind, Restart(kind) PROVE WalkSeen'
  BY <1>5 DEF Restart, user, WalkSeen, IInv, OneAtATime
<1>6. CASE UNCHANGED vars
  BY <1>6 DEF vars, user, life, WalkSeen
<1> QED BY <1>1, <1>2, <1>3, <1>4, <1>5, <1>6 DEF Next, Running

LEMMA LoopUndisturbed ==
  ASSUME LoopExact, UNCHANGED w,
         w.full => \A p \in Paths : (Exact(p) => Exact(p)') /\ (Unseen(p) => Unseen(p)')
  PROVE  LoopExact'
<1>1. (InLoop' <=> InLoop) /\ (AfterLoop' <=> AfterLoop)
  BY DEF InLoop, AfterLoop
<1>2. InLoop \/ AfterLoop => w.full
  BY DEF InLoop, AfterLoop
<1>3. CASE InLoop
  <2>1. ~AfterLoop
    BY <1>3 DEF InLoop, AfterLoop
  <2> QED BY <1>1, <1>2, <1>3, <2>1 DEF LoopExact
<1>4. CASE AfterLoop
  <2>1. ~InLoop
    BY <1>4 DEF InLoop, AfterLoop
  <2> QED BY <1>1, <1>2, <1>4, <2>1 DEF LoopExact
<1> QED BY <1>1, <1>3, <1>4 DEF LoopExact

\* The loop is done with p.
LEMMA LoopAdvances ==
  ASSUME LoopExact, InLoop, InLoop', NEW p \in w.todo, w.todo \subseteq Paths,
         w'.todo = w.todo \ {p}, w'.cur = {}, w'.seen = w.seen, fs' = fs,
         w.partial => w'.partial,
         \A q \in Paths : q # p => m'.ent[q] = m.ent[q],
         Exact(p)'
  PROVE  LoopExact'
<1>1. ~AfterLoop'
  BY DEF InLoop, AfterLoop
<1>2. \A q \in Paths : Unseen(q)' /\ (q \in w'.todo \/ Exact(q)')
  <2> TAKE q \in Paths
  <2>1. CASE q = p
    BY <2>1 DEF LoopExact, Unseen
  <2>2. CASE q # p
    BY <2>2 DEF LoopExact, Unseen, Exact
  <2> QED BY <2>1, <2>2
<1> QED BY <1>1, <1>2 DEF LoopExact

LEMMA LoopRemoves ==
  ASSUME IInv, WalkSeen, LoopExact, InLoop, NEW p \in w.todo,
         NEW existing, NEW capacity \in BOOLEAN, Reject(p, existing, capacity), fs' = fs,
         capacity \/ w.seen[p] # fs[p]
  PROVE  LoopExact'
<1>0. ManifestOK(m) /\ WorkerOK /\ w.full
  BY DEF IInv, TypeOK, InLoop
<1>1. /\ DropLocked({p})
      /\ w' = [w EXCEPT !.pc = "marshal", !.after = "next", !.todo = @ \ {p}, !.cur = {},
                        !.partial = @ \/ capacity, !.local = @ - existing]
  BY <1>0 DEF Reject, Remove
<1>2. /\ w'.pc = "marshal" /\ w'.after = "next" /\ w'.todo = w.todo \ {p} /\ w'.cur = {}
      /\ w'.partial = (w.partial \/ capacity) /\ w'.seen = w.seen /\ w'.full = w.full
  BY <1>0, <1>1 DEF WorkerOK
<1>3. \A q \in Paths : q # p => m'.ent[q] = m.ent[q]
  BY <1>0, <1>1, DroppedEntries DEF DropLocked
<1>4. InLoop' /\ w.todo \subseteq Paths
  BY <1>0, <1>2 DEF InLoop, WorkerOK
<1>5. Exact(p)'
  BY <1>2 DEF Exact
<1>6. w.partial => w'.partial
  BY <1>2
<1> QED BY <1>2, <1>3, <1>4, <1>5, <1>6, LoopAdvances

LEMMA LoopBodyExact ==
  ASSUME IInv, WalkSeen, RulesUntouched, edits = 0, LoopExact, w.full, fs' = fs, NEW p \in Paths,
         \/ WSkipIneligible(p) \/ WOpenFails(p) \/ WUnchanged(p) \/ WRead(p)
         \/ WChangedDuringRead(p) \/ WCommitDisallowed(p) \/ WCommitNoCapacity(p)
         \/ WWriteChunks(p) \/ \E b \in BOOLEAN : WStore(p, b)
  PROVE  LoopExact'
<1>0. /\ ManifestOK(m) /\ WorkerOK /\ w.todo \subseteq Paths
      /\ m.ent \in [Paths -> Nat] /\ fs[p] \in Nat /\ clock[p] \in Nat /\ w.ver \in Nat
      /\ w.seen[p] \in Nat /\ fs[p] \in {0, clock[p]}
  <2>1. AllNumbers /\ WorkerOK /\ ManifestOK(m) /\ MaxVersion \in Nat
    BY AllNumbersHold, SizesAssumption DEF IInv, TypeOK
  <2> QED BY <2>1 DEF AllNumbers, WorkerOK, IInv, FilesBehindUser
<1>1. /\ InLoop /\ p \in w.todo /\ w.seen[p] # 0 /\ w.seen[p] <= clock[p]
      /\ p \in Indexable /\ SizeOf(p, w.seen[p]) <= MaxFileBytes
  <2>1. w.pc \in {"next", "work", "writing"}
    BY DEF WSkipIneligible, WOpenFails, WUnchanged, WRead, WChangedDuringRead,
       WCommitDisallowed,
           WCommitNoCapacity, WWriteChunks, WStore, WStoreAs, AtPath
  <2>2. InLoop
    BY <2>1 DEF InLoop
  <2>3. p \in w.todo
    BY <2>2 DEF WSkipIneligible, WOpenFails, WUnchanged, WRead, WChangedDuringRead,
                WCommitDisallowed, WCommitNoCapacity, WWriteChunks, WStore, WStoreAs, AtPath,
                LoopExact
  <2> QED BY <2>2, <2>3 DEF LoopExact, WalkSeen
<1>2. CASE WSkipIneligible(p)
  <2>1. OverBudget(p) /\ Reject(p, SizeOf(p, m.ent[p]), TRUE)
    <3>1. OverBudget(p)
      BY <1>2 DEF WSkipIneligible, Ineligible
    <3>2. OverBudget(p) = TRUE
      BY <3>1 DEF OverBudget
    <3> QED BY <1>2, <3>2 DEF WSkipIneligible
  <2> QED BY <1>1, <2>1, LoopRemoves
<1>3. CASE WOpenFails(p)
  <2>1. Reject(p, SizeOf(p, m.ent[p]), FALSE) /\ ~Fits(p)
    BY <1>3 DEF WOpenFails
  <2>2. w.seen[p] # fs[p]
    BY <1>1, <2>1 DEF Fits
  <2> QED BY <1>1, <2>1, <2>2, LoopRemoves
<1>4. CASE WUnchanged(p)
  <2>1. /\ w'.todo = w.todo \ {p} /\ w'.cur = w.cur /\ w'.seen = w.seen /\ w'.full = w.full
        /\ w'.pc = w.pc /\ w'.after = w.after /\ w'.partial = w.partial /\ m' = m
        /\ m.ent[p] = fs[p] /\ w.pc = "next"
    BY <1>0, <1>4 DEF WUnchanged, AtPath, WorkerOK, store
  <2>2. InLoop' /\ Exact(p)' /\ w'.cur = {}
    BY <1>1, <2>1 DEF InLoop, Exact, WalkSeen
  <2> QED BY <1>0, <1>1, <2>1, <2>2, LoopAdvances
<1>5. CASE WRead(p)
  <2>1. /\ w'.todo = w.todo /\ w'.cur = {p} /\ w'.seen = w.seen /\ w'.full = w.full
        /\ w'.pc = "work" /\ w'.ver = fs[p] /\ w'.partial = w.partial /\ m' = m
        /\ fs[p] # 0
    BY <1>0, <1>5 DEF WRead, Fits, WorkerOK, store
  <2>2. InLoop' /\ ~AfterLoop'
    BY <2>1 DEF InLoop, AfterLoop
  <2>3. w.seen[p] <= w'.ver
    BY <1>0, <1>1, <2>1
  <2> QED BY <1>1, <2>1, <2>2, <2>3 DEF LoopExact, Exact, Unseen
<1>6. CASE WChangedDuringRead(p)
  <2>1. Reject(p, w.had, FALSE) /\ fs[p] \notin {0, w.ver} /\ w.pc = "work" /\ p \in w.cur
    BY <1>6 DEF WChangedDuringRead
  <2>2. w.seen[p] <= w.ver /\ w.ver <= clock[p]
    BY <1>1, <2>1 DEF LoopExact, IInv, WorkerAhead, Busy
  <2>3. w.seen[p] # fs[p]
    BY <1>0, <2>1, <2>2
  <2> QED BY <1>1, <2>1, <2>3, LoopRemoves
<1>7. CASE WCommitDisallowed(p)
  BY <1>1, <1>7 DEF WCommitDisallowed, Allowed, RulesUntouched
<1>8. CASE WCommitNoCapacity(p)
  BY <1>1, <1>8, LoopRemoves DEF WCommitNoCapacity
<1>9. CASE WWriteChunks(p)
  <2>1. /\ w'.todo = w.todo /\ w'.cur = w.cur /\ w'.seen = w.seen /\ w'.full = w.full
        /\ w'.pc = "writing" /\ w'.ver = w.ver /\ w'.partial = w.partial /\ m' = m
        /\ w.pc = "work"
    BY <1>0, <1>9 DEF WWriteChunks, WorkerOK
  <2>2. InLoop' /\ ~AfterLoop'
    BY <2>1 DEF InLoop, AfterLoop
  <2> QED BY <1>1, <2>1, <2>2 DEF LoopExact, Exact, Unseen
<1>10. ASSUME NEW b \in BOOLEAN, WStore(p, b) PROVE LoopExact'
  <2>1. /\ w'.todo = w.todo \ {p} /\ w'.cur = {} /\ w'.seen = w.seen /\ w'.full = w.full
        /\ w'.pc = "next" /\ w'.partial = w.partial
        /\ w.pc = "writing" /\ p \in w.cur
    BY <1>0, <1>10 DEF WStore, WStoreAs, WorkerOK
  <2>2. m'.ent = [m.ent EXCEPT ![p] = w.ver]
    BY <1>10 DEF WStore, WStoreAs, Stored
  <2>3. w.seen[p] <= w.ver /\ w.ver <= clock[p]
    BY <1>1, <2>1 DEF LoopExact, IInv, WorkerAhead, Busy
  <2>4. w.seen[p] = fs[p] => fs[p] = w.ver
    BY <1>0, <1>1, <2>3
  <2>5. Exact(p)' /\ \A q \in Paths : q # p => m'.ent[q] = m.ent[q]
    BY <1>0, <2>1, <2>2, <2>4 DEF Exact
  <2>6. InLoop' /\ (w.partial => w'.partial)
    BY <1>1, <2>1 DEF InLoop
  <2> QED BY <1>0, <1>1, <2>1, <2>5, <2>6, LoopAdvances
<1> QED BY <1>2, <1>3, <1>4, <1>5, <1>6, <1>7, <1>8, <1>9, <1>10

\* The worker's steps around the loop of a full pass.
LEMMA RestOfPassExact ==
  ASSUME IInv, WalkSeen, LoopExact, w.full, fs' = fs,
         \/ WPrune \/ WBackfillStops \/ WBackfillEnds \/ WMarshal \/ WPublish \/ WCancel
         \/ \E b \in BOOLEAN : WLoopEnds(b)
         \/ \E p \in Paths : WBackfillRead(p) \/ WBackfillStore(p)
  PROVE  LoopExact'
<1>0. ManifestOK(m) /\ WorkerOK /\ w.todo \subseteq Paths
  BY DEF IInv, TypeOK, WorkerOK
<1>1. CASE WPrune
  <2>1. /\ w'.pc = "next" /\ w'.todo = w.todo /\ w'.seen = w.seen /\ w'.full = w.full
        /\ w.pc = "prune" /\ DropLocked(Paths \ w.todo)
    BY <1>0, <1>1 DEF WPrune, WorkerOK
  <2>2. w.todo = {p \in Paths : w.seen[p] # 0}
    BY <2>1 DEF WalkSeen
  <2>3. \A p \in Paths : p \notin w.todo => m'.ent[p] = 0
    <3> DEFINE T == {p \in Paths \ w.todo : m.ent[p] # 0}
    <3>1. m' = Dropped(m, T)
      BY <2>1 DEF DropLocked
    <3>2. \A p \in Paths : m'.ent[p] = IF p \in T THEN 0 ELSE m.ent[p]
      BY <1>0, <3>1, DroppedEntries
    <3> QED BY <3>2
  <2>4. InLoop' /\ ~AfterLoop'
    BY <2>1 DEF InLoop, AfterLoop
  <2> QED BY <2>1, <2>2, <2>3, <2>4 DEF LoopExact, Unseen, Exact
<1>2. ASSUME NEW b \in BOOLEAN, WLoopEnds(b) PROVE LoopExact'
  <2> DEFINE todo == {q \in Paths : b /\ m.ent[q] # 0 /\ (~m.vec[q] \/ vec[q] = 0)}
  <2>1. w' = [w EXCEPT !.pc = "backfill", !.todo = todo] /\ w.pc = "next" /\ w.todo = {} /\ m' = m
    BY <1>2 DEF WLoopEnds, store
  <2> HIDE DEF todo
  <2>2. w'.pc = "backfill" /\ w'.seen = w.seen /\ w'.partial = w.partial
    BY <1>0, <2>1 DEF WorkerOK
  <2>3. InLoop /\ ~InLoop'
    BY <2>1, <2>2 DEF InLoop
  <2> QED BY <2>1, <2>2, <2>3 DEF LoopExact, Unseen, Exact
<1>3. ASSUME AfterLoop, w'.seen = w.seen, w'.partial = w.partial, ~InLoop', m'.ent = m.ent
      PROVE  LoopExact'
  BY <1>3 DEF LoopExact, Unseen, Exact
<1>4. ASSUME NEW p \in Paths, WBackfillRead(p) \/ WBackfillStore(p)
      PROVE  LoopExact'
  <2>1. AfterLoop
    BY <1>4 DEF WBackfillRead, WBackfillStore, AfterLoop
  <2>2. w'.seen = w.seen /\ w'.partial = w.partial /\ w'.pc \in {"embed", "backfill"}
    BY <1>0, <1>4 DEF WBackfillRead, WBackfillStore, WorkerOK
  <2>3. m'.ent = m.ent
    <3>1. m.ent \in [Paths -> 0..MaxVersion]
      BY <1>0 DEF ManifestOK
    <3>2. m' = m \/ (m.ent[p] = w.ver /\ m'.ent = [m.ent EXCEPT ![p] = w.ver])
      <4>1. WBackfillRead(p) => m' = m
        BY DEF WBackfillRead, store
      <4>2. WBackfillStore(p) /\ m.ent[p] # w.ver => m' = m
        BY DEF WBackfillStore
      <4>3. WBackfillStore(p) /\ m.ent[p] = w.ver => m' = Stored(m, p, w.ver, TRUE)
        BY DEF WBackfillStore
      <4>4. Stored(m, p, w.ver, TRUE).ent = [m.ent EXCEPT ![p] = w.ver]
        BY DEF Stored
      <4> QED BY <1>4, <4>1, <4>2, <4>3, <4>4
    <3> QED BY <3>1, <3>2
  <2>4. ~InLoop'
    BY <2>2 DEF InLoop
  <2> QED BY <1>3, <2>1, <2>2, <2>3, <2>4
<1>5. CASE WBackfillStops \/ WBackfillEnds
  <2>1. AfterLoop /\ m' = m
    BY <1>5 DEF WBackfillStops, WBackfillEnds, AfterLoop, store
  <2>2. CASE WBackfillStops
    <3>1. w'.seen = w.seen /\ w'.partial = w.partial /\ w'.pc = "backfill"
      BY <1>0, <2>2 DEF WBackfillStops, WorkerOK
    <3> QED BY <1>3, <2>1, <3>1 DEF InLoop
  <2>3. CASE WBackfillEnds
    <3>1. w'.seen = w.seen /\ w'.partial = w.partial /\ w'.pc = "marshal" /\ w'.after = "finish"
      BY <1>0, <2>3 DEF WBackfillEnds, WorkerOK
    <3> QED BY <1>3, <2>1, <3>1 DEF InLoop
  <2> QED BY <1>5, <2>2, <2>3
<1>6. CASE WMarshal \/ WPublish \/ WCancel
  <2>1. m' = m
    BY <1>6 DEF WMarshal, WPublish, WCancel, store
  <2>2. /\ w'.seen = w.seen /\ w'.partial = w.partial /\ w'.todo = w.todo /\ w'.cur = w.cur
        /\ w'.full = w.full /\ w'.after = w.after /\ w'.ver = w.ver
        /\ \/ w'.pc = w.pc
           \/ w.pc = "marshal" /\ w'.pc = "publish"
           \/ w.pc = "publish" /\ w'.pc = w.after
    <3>1. CASE WMarshal
      BY <1>0, <3>1 DEF WMarshal, WorkerOK
    <3>2. CASE WPublish
      BY <1>0, <3>2 DEF WPublish, WorkerOK
    <3>3. CASE WCancel
      BY <1>0, <3>3 DEF WCancel, WorkerOK
    <3> QED BY <1>6, <3>1, <3>2, <3>3
  <2>3. w.after \in {"idle", "next", "finish"}
    BY <1>0 DEF WorkerOK
  <2>4. /\ InLoop' => InLoop /\ (w'.pc = w.pc \/ w'.pc \notin {"work", "writing"})
        /\ AfterLoop' => AfterLoop
    BY <2>2, <2>3 DEF InLoop, AfterLoop
  <2>5. \A p \in Paths : (Exact(p)' <=> Exact(p)) /\ (Unseen(p)' <=> Unseen(p))
    BY <2>1, <2>2 DEF Exact, Unseen
  <2> QED BY <2>2, <2>4, <2>5 DEF LoopExact
<1> QED BY <1>1, <1>2, <1>4, <1>5, <1>6

LEMMA NoPassIsExact ==
  ASSUME ~w'.full \/ w'.pc \in {"walk", "prune"}
  PROVE  LoopExact'
  BY DEF LoopExact, InLoop, AfterLoop

LEMMA PassStaysExact ==
  ASSUME NoRemovals, IInv, RulesUntouched, WalkSeen, edits = 0, LoopExact, [Next]_vars,
         edits' = 0
  PROVE  LoopExact'
<1>0. /\ ManifestOK(m) /\ WorkerOK
      /\ clock \in [Paths -> Nat] /\ fs \in [Paths -> Nat]
      /\ \A p \in Paths : w.seen[p] \in Nat
  <2>1. AllNumbers /\ WorkerOK /\ ManifestOK(m) /\ MaxVersion \in Nat
    BY AllNumbersHold, SizesAssumption DEF IInv, TypeOK
  <2> QED BY <2>1 DEF AllNumbers, WorkerOK
<1>1. CASE User
  <2>1. UNCHANGED <<w, m>>
    BY <1>1 DEF User, UserWrite, UserDelete, UserEditIgnore, store
  <2>2. \A p \in Paths : fs'[p] = fs[p] \/ fs'[p] = 0 \/ fs'[p] = clock[p] + 1
    <3>1. ASSUME NEW q \in Paths, UserWrite(q) \/ UserDelete(q)
          PROVE  \A p \in Paths : fs'[p] = fs[p] \/ fs'[p] = 0 \/ fs'[p] = clock[p] + 1
      BY <1>0, <3>1 DEF UserWrite, UserDelete
    <3>2. ASSUME NEW S, UserEditIgnore(S) PROVE fs' = fs
      BY <3>2 DEF UserEditIgnore
    <3> QED BY <1>1, <3>1, <3>2 DEF User
  <2>3. w.full => \A p \in Paths : (Exact(p) => Exact(p)') /\ (Unseen(p) => Unseen(p)')
    BY <1>0, <2>1, <2>2 DEF Exact, Unseen, WalkSeen
  <2> QED BY <2>1, <2>3, LoopUndisturbed
<1>2. CASE up /\ (Worker \/ WCancel)
  <2>0. fs' = fs
    BY <1>2, WorkerKeepsRules DEF user
  <2>1. CASE w.full
    <3>1. CASE WWalk \/ WCancelled \/ WFinish \/ \E b \in BOOLEAN : WTake(b)
      <4>1. CASE WWalk
        BY <4>1, WalkIsSeen, NoPassIsExact
      <4>2. CASE WCancelled \/ WFinish
        BY <4>2, NoPassIsExact DEF WCancelled, WFinish, IdleWorker
      <4>3. ASSUME NEW b \in BOOLEAN, WTake(b) PROVE LoopExact'
        BY <4>3, TakeBegins, NoPassIsExact
      <4> QED BY <3>1, <4>1, <4>2, <4>3
    <3>2. CASE \/ WPrune \/ WBackfillStops \/ WBackfillEnds \/ WMarshal \/ WPublish \/ WCancel
               \/ \E b \in BOOLEAN : WLoopEnds(b)
               \/ \E p \in Paths : WBackfillRead(p) \/ WBackfillStore(p)
      BY <2>0, <2>1, <3>2, RestOfPassExact
    <3>3. ASSUME NEW p \in Paths,
                 \/ WSkipIneligible(p) \/ WOpenFails(p) \/ WUnchanged(p) \/ WRead(p)
                 \/ WChangedDuringRead(p) \/ WCommitDisallowed(p) \/ WCommitNoCapacity(p)
                 \/ WWriteChunks(p) \/ \E b \in BOOLEAN : WStore(p, b)
          PROVE  LoopExact'
      BY <2>0, <2>1, <3>3, LoopBodyExact
    <3> QED BY <1>2, <3>1, <3>2, <3>3, SizesAssumption DEF Worker
  <2>2. CASE ~w.full
    <3>1. CASE SamePass \/ w'.full = FALSE
      BY <2>2, <3>1, NoPassIsExact DEF SamePass
    <3>2. CASE WCancel
      <4>1. w'.full = w.full
        BY <1>0, <3>2 DEF WCancel, WorkerOK
      <4> QED BY <2>2, <4>1, NoPassIsExact
    <3>3. CASE WWalk
      BY <3>3, WalkIsSeen, NoPassIsExact
    <3>4. ASSUME NEW b \in BOOLEAN, WTake(b) PROVE LoopExact'
      BY <3>4, TakeBegins, NoPassIsExact
    <3> QED BY <1>2, <3>1, <3>2, <3>3, <3>4, WorkerStaysInPass
  <2> QED BY <2>1, <2>2
<1>3. ASSUME NEW c \in Callers, Caller(c) PROVE LoopExact'
  <2>1. UNCHANGED <<fs, w>>
    BY <1>3, CallersKeepWorker DEF user
  <2>2. m' = m \/ \E S : DropLocked(S) /\ S \intersect Indexable = {}
    BY <1>3, CallersKeepRules
  <2>3. \A p \in Paths : /\ m'.ent[p] = 0 \/ m'.ent[p] = m.ent[p]
                         /\ p \in Indexable => m'.ent[p] = m.ent[p]
    <3>1. ASSUME NEW S, DropLocked(S), S \intersect Indexable = {}
          PROVE  \A p \in Paths : /\ m'.ent[p] = 0 \/ m'.ent[p] = m.ent[p]
                                  /\ p \in Indexable => m'.ent[p] = m.ent[p]
      BY <1>0, <3>1, DroppedEntries DEF DropLocked
    <3> QED BY <2>2, <3>1
  <2>4. w.full => \A p \in Paths : (Exact(p) => Exact(p)') /\ (Unseen(p) => Unseen(p)')
    BY <2>1, <2>3 DEF Exact, Unseen, WalkSeen
  <2> QED BY <2>1, <2>4, LoopUndisturbed
<1>4. CASE Crash
  BY <1>4, NoPassIsExact DEF Crash, IdleWorker
<1>5. ASSUME NEW kind, Restart(kind) PROVE LoopExact'
  BY <1>5, NoPassIsExact DEF Restart, WalkSeen
<1>6. CASE UNCHANGED vars
  <2>1. UNCHANGED <<w, m, fs>>
    BY <1>6 DEF vars, store, user
  <2> QED BY <2>1, LoopUndisturbed DEF Exact, Unseen
<1> QED BY <1>1, <1>2, <1>3, <1>4, <1>5, <1>6 DEF Next, Running

\* While the ignore files stay as they are and nobody removes paths or clears the
\* index, a full pass that ends has every file that kept its content since the walk
\* at that content, or says it is partial, and has no entry the walk did not see:
\* whatever the user wrote meanwhile, and whatever a purge dropped.
THEOREM FullPassIsExact ==
  ASSUME NoRemovals
  PROVE  Spec => []PassIsExact
<1> DEFINE PassInv == RulesUntouched /\ WalkSeen /\ (edits = 0 => LoopExact)
<1>1. Init => PassInv
  <2> SUFFICES ASSUME Init PROVE PassInv
    OBVIOUS
  <2>1. RulesUntouched
    BY DEF Init, RulesUntouched, IdleCaller
  <2>2. w.cur = {} /\ w.full = FALSE
    BY DEF Init, IdleWorker
  <2>3. WalkSeen /\ LoopExact
    BY <2>2 DEF WalkSeen, LoopExact, InLoop, AfterLoop
  <2> QED BY <2>1, <2>3
<1>2. IInv /\ PassInv /\ [Next]_vars => PassInv'
  <2> SUFFICES ASSUME IInv, PassInv, [Next]_vars PROVE PassInv'
    OBVIOUS
  <2>1. RulesUntouched' /\ WalkSeen'
    BY RulesStayUntouched, WalkStaysSeen
  <2>2. ASSUME edits' = 0 PROVE edits = 0
    <3>1. edits' = edits \/ edits' = edits + 1
      <4>1. CASE User \/ Crash \/ UNCHANGED vars
        BY <4>1 DEF User, UserWrite, UserDelete, UserEditIgnore, Crash, user, vars
      <4>2. CASE Running
        BY <4>2, WorkerKeepsRules, CallersKeepWorker DEF Running, user
      <4>3. ASSUME NEW kind, Restart(kind) PROVE edits' = edits
        BY <4>3 DEF Restart, user
      <4> QED BY <4>1, <4>2, <4>3 DEF Next
    <3> QED BY <2>2, <3>1 DEF RulesUntouched
  <2> QED BY <2>1, <2>2, PassStaysExact
<1>3. IInv /\ PassInv => PassIsExact
  BY DEF LoopExact, AfterLoop, Exact, Unseen, PassIsExact
<1> QED
  <2> HIDE DEF PassInv
  <2> QED BY <1>1, <1>2, <1>3, InductiveInvariant, PTL DEF Spec
=============================================================================
