------------------------------- MODULE Indexer -------------------------------
(***************************************************************************)
(* The chunk index of one workspace (internal/indexing/indexer.go): the    *)
(* manifest in memory, its copy on disk, the chunk, vector and trigram     *)
(* data it points at, the single worker goroutine that runs the queued     *)
(* requests, and the goroutines that change the index beside it (change    *)
(* monitor, poller, tool calls).                                           *)
(*                                                                         *)
(* A file's size, modification time and hash are one number, its version:  *)
(* every write of the user gives the path a version it never had before.   *)
(* Version 0 means "no such file / entry / sidecar".  One action is one    *)
(* region under Indexer.mu, or one file-system step outside it; the one    *)
(* critical section that writes two files is split, because a crash may    *)
(* fall between them (LockFree says when the others may enter).            *)
(***************************************************************************)
EXTENDS Integers, Sequences, FiniteSets, FiniteSetsExt

CONSTANTS
    Paths,          \* repo-relative paths
    Indexable,      \* those that pass the static filters (shouldIndex, deny globs)
    Rank,           \* Rank[p]: position of p in the order of names
    Size,           \* Size[p][v]: bytes of version v of p
    MaxVersion,     \* bound: versions the user may give one path
    MaxFileBytes, MaxTotalBytes,
    Embedding,      \* the outcomes of embedding: {FALSE} when there is no embedder
    Callers,        \* goroutines that use the index beside the worker
    Ops,            \* Ops[c]: the operations goroutine c performs
    QueueCap,       \* capacity of reqCh
    MaxCalls,       \* bound: operations started in one behaviour
    MaxRuleEdits,   \* bound: edits of the ignore files
    MaxCrashes      \* bound: crashes of the process

Versions == 1..MaxVersion
Operations == {"remove", "ensure", "all", "clear", "diff"}

ASSUME SizesAssumption ==
    /\ IsFiniteSet(Paths)
    /\ MaxVersion \in Nat \ {0}
    /\ Size \in [Paths -> [Versions -> Nat \ {0}]]
    /\ Rank \in [Paths -> Nat]
    /\ MaxFileBytes \in Nat
    /\ MaxTotalBytes \in Nat
    /\ Embedding \subseteq BOOLEAN
ASSUME ActorsAssumption ==
    /\ Indexable \subseteq Paths
    /\ Ops \in [Callers -> SUBSET Operations]
    /\ "worker" \notin Callers
    /\ {QueueCap, MaxCalls, MaxRuleEdits, MaxCrashes} \subseteq Nat

Savers == Callers \union {"worker"}

VARIABLES
    fs,         \* fs[p]: version of p in the working tree, 0 if there is none
    clock,      \* clock[p]: the last version the user gave p
    ignored,    \* the paths the ignore files on disk exclude
    rules,      \* Indexer.ignoreRules: the paths the loaded rules exclude
    m,          \* Indexer.manifest
    tri,        \* Indexer.trigrams: version whose postings p has
    chunk,      \* version held by the chunk file of p
    vec,        \* version held by the vector sidecar of p
    disk,       \* manifest.json
    saved,      \* whether manifest.json exists
    copy,       \* copy[a]: the manifest saver a has marshalled
    queue,      \* Indexer.reqCh
    w,          \* the worker goroutine
    k,          \* k[c]: goroutine c
    up,         \* whether the process runs
    calls, edits, crashes

store == <<m, tri, chunk, vec>>
onDisk == <<disk, saved, copy>>
user == <<fs, clock, ignored, edits>>
life == <<up, crashes>>
vars == <<store, onDisk, user, life, rules, queue, w, k, calls>>

SizeOf(p, v) == IF v = 0 THEN 0 ELSE Size[p][v]

Bytes(ents, S) == MapThenSumSet(LAMBDA p : SizeOf(p, ents[p]), S)

EmptyManifest ==
    [ent |-> [p \in Paths |-> 0], vec |-> [p \in Paths |-> FALSE], total |-> 0]

\* The manifest without its entries for S; TotalBytes loses their sizes.
Dropped(mm, S) ==
    [ent   |-> [p \in Paths |-> IF p \in S THEN 0 ELSE mm.ent[p]],
     vec   |-> [p \in Paths |-> IF p \in S THEN FALSE ELSE mm.vec[p]],
     total |-> mm.total - Bytes(mm.ent, S)]

\* Faulty variant: the size of the entry that is replaced is not given back.
StoredAddsUp(mm, p, v, hv) ==
    [ent   |-> [mm.ent EXCEPT ![p] = v],
     vec   |-> [mm.vec EXCEPT ![p] = hv],
     total |-> mm.total + SizeOf(p, v)]

\* The manifest with entry (v, hv) for p in place of the one it has.
Stored(mm, p, v, hv) ==
    [ent   |-> [mm.ent EXCEPT ![p] = v],
     vec   |-> [mm.vec EXCEPT ![p] = hv],
     total |-> mm.total - SizeOf(p, mm.ent[p]) + SizeOf(p, v)]

Cleared(f, S) == [p \in Paths |-> IF p \in S THEN 0 ELSE f[p]]

\* pathAllowedLocked under the rules r.
Allowed(r, p) == p \in Indexable /\ p \notin r

\* A file a walk or a stat accepts: regular, not empty, not too large.
Fits(p) == fs[p] # 0 /\ SizeOf(p, fs[p]) <= MaxFileBytes

IdleWorker ==
    [pc |-> "idle", full |-> FALSE, live |-> TRUE, todo |-> {}, seen |-> [p \in Paths |-> 0],
     rules |-> {}, local |-> 0, cur |-> {}, ver |-> 0, got |-> 0, had |-> 0, partial |-> FALSE,
     changed |-> FALSE, after |-> "idle"]
IdleCaller == [pc |-> "idle", todo |-> {}, rules |-> {}, next |-> "idle"]

Init ==
    /\ fs \in [Paths -> 0..1]
    /\ clock = fs
    /\ ignored = {}
    /\ rules = {}
    /\ m = EmptyManifest
    /\ tri = [p \in Paths |-> 0]
    /\ chunk = [p \in Paths |-> 0]
    /\ vec = [p \in Paths |-> 0]
    /\ disk = EmptyManifest
    /\ saved = FALSE
    /\ copy = [a \in Savers |-> EmptyManifest]
    /\ queue = <<>>
    /\ w = IdleWorker
    /\ k = [c \in Callers |-> IdleCaller]
    /\ up = TRUE
    /\ calls = 0
    /\ edits = 0
    /\ crashes = 0

\* indexOne holds Indexer.mu from the chunk file it writes to the entry it stores.
LockFree == w.pc # "writing"

\* The critical sections drop entries and sidecars of S together.
DropLocked(S) ==
    LET T == {p \in S : m.ent[p] # 0} IN
    /\ m' = Dropped(m, T)
    /\ tri' = Cleared(tri, T)
    /\ chunk' = Cleared(chunk, T)
    /\ vec' = Cleared(vec, T)

-----------------------------------------------------------------------------
(* The working tree                                                        *)

UserWrite(p) ==
    /\ clock[p] < MaxVersion
    /\ clock' = [clock EXCEPT ![p] = @ + 1]
    /\ fs' = [fs EXCEPT ![p] = clock[p] + 1]
    /\ UNCHANGED <<store, onDisk, life, ignored, edits, rules, queue, w, k, calls>>

UserDelete(p) ==
    /\ fs[p] # 0
    /\ fs' = [fs EXCEPT ![p] = 0]
    /\ UNCHANGED <<store, onDisk, life, clock, ignored, edits, rules, queue, w, k, calls>>

UserEditIgnore(S) ==
    /\ edits < MaxRuleEdits
    /\ S # ignored
    /\ ignored' = S
    /\ edits' = edits + 1
    /\ UNCHANGED <<store, onDisk, life, fs, clock, rules, queue, w, k, calls>>

-----------------------------------------------------------------------------
(* The worker: indexFiles for a request that names paths, indexAll for a   *)
(* full one.  w.live is the request's context, w.seen the sizes the walk   *)
(* saw, w.rules the rules a pass over named paths snapshots, w.local its   *)
(* own count of the bytes indexed, w.cur the path indexOne is at.          *)

WorkerKeeps == UNCHANGED <<onDisk, user, life, rules, k, calls>>

\* worker: the next request starts; its caller may have given up already.
WTake(live) ==
    /\ w.pc = "idle" /\ queue # <<>>
    /\ queue' = Tail(queue)
    /\ LET req == Head(queue) IN
       w' = IF req.full
              THEN [IdleWorker EXCEPT !.pc = "walk", !.full = TRUE, !.live = live]
            ELSE IF req.paths = {}
              THEN IdleWorker
              ELSE [IdleWorker EXCEPT !.pc = "next", !.live = live, !.todo = req.paths,
                                      !.rules = rules, !.local = m.total]
    /\ UNCHANGED store /\ WorkerKeeps

\* The request's context is cancelled: its caller times out, or the server stops.
WCancel ==
    /\ w.pc # "idle" /\ w.live
    /\ w' = [w EXCEPT !.live = FALSE]
    /\ UNCHANGED <<store, queue>> /\ WorkerKeeps

\* listCandidates: the walk, which a cancelled context ends.
WWalk ==
    /\ w.pc = "walk"
    /\ w' = IF w.live
              THEN [w EXCEPT !.pc = "prune",
                             !.todo = {p \in Paths : Allowed(rules, p) /\ Fits(p)},
                             !.seen = [p \in Paths |->
                                         IF Allowed(rules, p) /\ Fits(p) THEN fs[p] ELSE 0]]
              ELSE IdleWorker
    /\ UNCHANGED <<store, queue>> /\ WorkerKeeps

\* indexAll: entries the walk did not see are deleted files.
WPrune ==
    /\ w.pc = "prune"
    /\ DropLocked(Paths \ w.todo)
    /\ w' = [w EXCEPT !.pc = "next", !.local = m'.total]
    /\ UNCHANGED queue /\ WorkerKeeps

\* The order of a pass: names; a full pass goes from small files to large.
First(p, S) ==
    \A q \in S \ {p} :
        LET sp == SizeOf(p, w.seen[p])
            sq == SizeOf(q, w.seen[q])
        IN IF w.full /\ sp # sq THEN sp < sq ELSE Rank[p] <= Rank[q]

\* The head of a loop over paths, or a cancelled embedding request of the
\* backfill; a cancelled pass returns without saving.
WCancelled ==
    /\ w.pc \in {"next", "backfill", "embed"} /\ ~w.live
    /\ w.todo # {}
    /\ w' = IdleWorker
    /\ UNCHANGED <<store, queue>> /\ WorkerKeeps

\* The loop turns to p.
AtPath(p) ==
    /\ w.pc = "next" /\ w.live
    /\ p \in w.todo /\ First(p, w.todo)

\* indexFiles evicts p; no save until the pass ends.
Evict(p) ==
    /\ DropLocked({p})
    /\ w' = [w EXCEPT !.pc = "next", !.todo = @ \ {p}, !.cur = {},
                      !.changed = @ \/ m.ent[p] # 0,
                      !.local = @ - SizeOf(p, m.ent[p])]

\* indexAll removes p with RemovePaths, which saves; `existing` was read before.
Remove(p, existing, capacity) ==
    /\ DropLocked({p})
    /\ w' = [w EXCEPT !.pc = "marshal", !.after = "next", !.todo = @ \ {p}, !.cur = {},
                      !.partial = @ \/ capacity,
                      !.local = @ - existing]

Reject(p, existing, capacity) == IF w.full THEN Remove(p, existing, capacity) ELSE Evict(p)

OverBudget(p) ==
    LET size == IF w.full THEN SizeOf(p, w.seen[p]) ELSE SizeOf(p, fs[p])
    IN w.local - SizeOf(p, m.ent[p]) + size > MaxTotalBytes

\* What the loop body refuses before it calls indexOne.
Ineligible(p) == ~w.full /\ (~Allowed(w.rules, p) \/ ~Fits(p))

WSkipIneligible(p) ==
    /\ AtPath(p)
    /\ Ineligible(p) \/ OverBudget(p)
    /\ Reject(p, SizeOf(p, m.ent[p]), OverBudget(p))
    /\ UNCHANGED queue /\ WorkerKeeps

\* indexOne cannot open p, or finds it empty or too large.
WOpenFails(p) ==
    /\ AtPath(p) /\ ~Ineligible(p) /\ ~OverBudget(p)
    /\ ~Fits(p)
    /\ Reject(p, SizeOf(p, m.ent[p]), FALSE)
    /\ UNCHANGED queue /\ WorkerKeeps

\* Faulty variant: a path that has an entry is taken to be fresh.
WUnchangedIfIndexed(p) ==
    /\ AtPath(p) /\ ~Ineligible(p) /\ ~OverBudget(p)
    /\ Fits(p) /\ m.ent[p] # 0
    /\ w' = [w EXCEPT !.todo = @ \ {p}]
    /\ UNCHANGED <<store, queue>> /\ WorkerKeeps

\* indexOne: size and time are those of the entry.
WUnchanged(p) ==
    /\ AtPath(p) /\ ~Ineligible(p) /\ ~OverBudget(p)
    /\ Fits(p) /\ m.ent[p] = fs[p]
    /\ w' = [w EXCEPT !.todo = @ \ {p}]
    /\ UNCHANGED <<store, queue>> /\ WorkerKeeps

\* Faulty variant: the version comes from the walk's FileInfo, not from the read.
WReadWalkInfo(p) ==
    /\ AtPath(p) /\ ~Ineligible(p) /\ ~OverBudget(p)
    /\ Fits(p) /\ m.ent[p] # fs[p]
    /\ w' = [w EXCEPT !.pc = "work", !.cur = {p}, !.ver = w.seen[p],
                      !.had = SizeOf(p, m.ent[p])]
    /\ UNCHANGED <<store, queue>> /\ WorkerKeeps

\* indexOne reads p, then chunks and embeds it for as long as that takes.
WRead(p) ==
    /\ AtPath(p) /\ ~Ineligible(p) /\ ~OverBudget(p)
    /\ Fits(p) /\ m.ent[p] # fs[p]
    /\ w' = [w EXCEPT !.pc = "work", !.cur = {p}, !.ver = fs[p],
                      !.had = SizeOf(p, m.ent[p])]
    /\ UNCHANGED <<store, queue>> /\ WorkerKeeps

\* The file was written in place while it was read.
WChangedDuringRead(p) ==
    /\ w.pc = "work" /\ p \in w.cur
    /\ fs[p] \notin {0, w.ver}
    /\ Reject(p, w.had, FALSE)
    /\ UNCHANGED queue /\ WorkerKeeps

\* The rules changed since: indexOne drops p, whatever it knew of it.
WCommitDisallowed(p) ==
    /\ w.pc = "work" /\ p \in w.cur
    /\ ~Allowed(rules, p)
    /\ m' = Dropped(m, {p})
    /\ tri' = Cleared(tri, {p})
    /\ chunk' = Cleared(chunk, {p})
    /\ vec' = Cleared(vec, {p})
    /\ w' = [w EXCEPT !.pc = "next", !.todo = @ \ {p}, !.cur = {},
                      !.changed = @ \/ m.ent[p] # 0,
                      !.local = @ - SizeOf(p, m.ent[p])]
    /\ UNCHANGED queue /\ WorkerKeeps

OverCapacity(p, v) == m.total - SizeOf(p, m.ent[p]) + SizeOf(p, v) > MaxTotalBytes

\* errIndexCapacity: the store is full by now.
WCommitNoCapacity(p) ==
    /\ w.pc = "work" /\ p \in w.cur
    /\ Allowed(rules, p) /\ OverCapacity(p, w.ver)
    /\ Reject(p, w.had, TRUE)
    /\ UNCHANGED queue /\ WorkerKeeps

\* Faulty variant: the commit trusts the rules the pass began with.
WWriteChunksUnchecked(p) ==
    /\ w.pc = "work" /\ p \in w.cur
    /\ ~OverCapacity(p, w.ver)
    /\ chunk' = [chunk EXCEPT ![p] = w.ver]
    /\ w' = [w EXCEPT !.pc = "writing"]
    /\ UNCHANGED <<m, tri, vec, queue>> /\ WorkerKeeps

\* The commit, first half: the chunk file is renamed into place.
WWriteChunks(p) ==
    /\ w.pc = "work" /\ p \in w.cur
    /\ Allowed(rules, p) /\ ~OverCapacity(p, w.ver)
    /\ chunk' = [chunk EXCEPT ![p] = w.ver]
    /\ w' = [w EXCEPT !.pc = "writing"]
    /\ UNCHANGED <<m, tri, vec, queue>> /\ WorkerKeeps

WStoreAs(p, sidecar, entry, embedded) ==
    /\ w.pc = "writing" /\ p \in w.cur
    /\ vec' = [vec EXCEPT ![p] = sidecar]
    /\ m' = Stored(m, p, entry, embedded)
    /\ tri' = [tri EXCEPT ![p] = w.ver]
    /\ w' = [w EXCEPT !.pc = "next", !.todo = @ \ {p}, !.cur = {}, !.changed = TRUE,
                      !.local = @ + SizeOf(p, w.ver) - SizeOf(p, m.ent[p])]
    /\ UNCHANGED <<chunk, queue>> /\ WorkerKeeps

\* Faulty variants: a failed embedding leaves the old sidecar, or a marker in its
\* place; the entry takes the size and time the file has by now.
WStoreKeepsSidecar(p, embedded) ==
    WStoreAs(p, IF embedded THEN w.ver ELSE vec[p], w.ver, embedded)
WStoreStatsAgain(p, embedded) ==
    WStoreAs(p, IF embedded THEN w.ver ELSE 0, fs[p], embedded)

\* Second half: the sidecar (or its removal, when embedding failed), the entry,
\* the postings; then the lock is released.
WStore(p, embedded) ==
    WStoreAs(p, IF embedded THEN w.ver ELSE 0, w.ver, embedded)

\* The loop is over: a full pass goes on to the backfill (of nothing, when there
\* is no embedder or it is in backoff), the other saves only what it changed.
WLoopEnds(embedder) ==
    /\ w.pc = "next" /\ w.todo = {}
    /\ w' = IF w.full
              THEN [w EXCEPT !.pc = "backfill",
                             !.todo = {p \in Paths : /\ embedder /\ m.ent[p] # 0
                                                     /\ ~m.vec[p] \/ vec[p] = 0}]
            ELSE IF w.changed THEN [w EXCEPT !.pc = "marshal", !.after = "finish"]
            ELSE IdleWorker
    /\ UNCHANGED <<store, queue>> /\ WorkerKeeps

\* backfillVectors reads the chunks of p (it goes on when there are none).
WBackfillRead(p) ==
    /\ w.pc = "backfill" /\ w.live
    /\ p \in w.todo /\ \A q \in w.todo : Rank[p] <= Rank[q]
    /\ w' = IF m.ent[p] = 0 \/ chunk[p] = 0
              THEN [w EXCEPT !.todo = @ \ {p}]
              ELSE [w EXCEPT !.pc = "embed", !.cur = {p}, !.ver = m.ent[p],
                             !.got = chunk[p]]
    /\ UNCHANGED <<store, queue>> /\ WorkerKeeps

\* Faulty variant: it does not look whether the entry is still there.
WBackfillStoreUnguarded(p) ==
    /\ w.pc = "embed" /\ p \in w.cur
    /\ vec' = [vec EXCEPT ![p] = w.got]
    /\ m' = Stored(m, p, w.ver, TRUE)
    /\ w' = [w EXCEPT !.pc = "backfill", !.todo = @ \ {p}, !.cur = {}]
    /\ UNCHANGED <<tri, chunk, queue>> /\ WorkerKeeps

\* It stores the vectors if the entry is still the one it read.
WBackfillStore(p) ==
    /\ w.pc = "embed" /\ p \in w.cur
    /\ IF m.ent[p] = w.ver
         THEN /\ vec' = [vec EXCEPT ![p] = w.got]
              /\ m' = Stored(m, p, w.ver, TRUE)
              /\ w' = [w EXCEPT !.pc = "backfill", !.todo = @ \ {p}, !.cur = {}]
         ELSE /\ UNCHANGED <<m, vec>>
              /\ w' = [w EXCEPT !.pc = "backfill", !.todo = @ \ {p}, !.cur = {}]
    /\ UNCHANGED <<tri, chunk, queue>> /\ WorkerKeeps

\* The embedding runtime fails: the rest of the backlog waits for a later pass.
WBackfillStops ==
    /\ w.pc = "embed" /\ w.live
    /\ w' = [w EXCEPT !.pc = "backfill", !.todo = {}, !.cur = {}]
    /\ UNCHANGED <<store, queue>> /\ WorkerKeeps

\* The last save of a full pass (the one of backfillVectors, if any, is part
\* of it: nothing happens to the manifest between the two).
WBackfillEnds ==
    /\ w.pc = "backfill" /\ w.todo = {}
    /\ w' = [w EXCEPT !.pc = "marshal", !.after = "finish"]
    /\ UNCHANGED <<store, queue>> /\ WorkerKeeps

\* The request is answered (a full pass also sets Status).
WFinish ==
    /\ w.pc = "finish"
    /\ w' = IdleWorker
    /\ UNCHANGED <<store, queue>> /\ WorkerKeeps

-----------------------------------------------------------------------------
(* saveManifest: the manifest is marshalled under the lock and written      *)
(* outside it.                                                              *)

WMarshal ==
    /\ w.pc = "marshal"
    /\ copy' = [copy EXCEPT !["worker"] = m]
    /\ w' = [w EXCEPT !.pc = "publish"]
    /\ UNCHANGED <<store, disk, saved, user, life, rules, queue, k, calls>>

WPublish ==
    /\ w.pc = "publish"
    /\ disk' = copy["worker"] /\ saved' = TRUE
    /\ w' = [w EXCEPT !.pc = w.after]
    /\ UNCHANGED <<store, copy, user, life, rules, queue, k, calls>>

CMarshal(c) ==
    /\ k[c].pc = "marshal" /\ LockFree
    /\ copy' = [copy EXCEPT ![c] = m]
    /\ k' = [k EXCEPT ![c].pc = "publish"]
    /\ UNCHANGED <<store, disk, saved, user, life, rules, queue, w, calls>>

CPublish(c) ==
    /\ k[c].pc = "publish"
    /\ disk' = copy[c] /\ saved' = TRUE
    /\ k' = [k EXCEPT ![c] = [IdleCaller EXCEPT !.pc = k[c].next]]
    /\ UNCHANGED <<store, copy, user, life, rules, queue, w, calls>>

-----------------------------------------------------------------------------
(* The goroutines beside the worker: the monitor's flush (remove, ensure,   *)
(* all), the poller and repo_reindex (all), repo_clear_index (clear),       *)
(* repo_diff_context (diff), repo_context (ensure).                         *)

CallerKeeps == UNCHANGED <<onDisk, user, life, queue, w>>

Begin(c, op) ==
    /\ k[c].pc = "idle" /\ op \in Ops[c]
    /\ calls < MaxCalls /\ calls' = calls + 1

\* RemovePaths(S): one critical section, then a save.
RemovePaths(c, S) ==
    /\ Begin(c, "remove") /\ LockFree
    /\ DropLocked(S)
    /\ k' = [k EXCEPT ![c] = [IdleCaller EXCEPT !.pc = "marshal"]]
    /\ UNCHANGED rules /\ CallerKeeps

\* Clear: the manifest and the postings are reset under the lock ...
ClearReset(c) ==
    /\ Begin(c, "clear") /\ LockFree
    /\ k' = [k EXCEPT ![c] = [IdleCaller EXCEPT !.pc = "unlink",
                                                !.todo = {p \in Paths : m.ent[p] # 0}]]
    /\ m' = EmptyManifest
    /\ tri' = [p \in Paths |-> 0]
    /\ UNCHANGED <<chunk, vec, rules>> /\ CallerKeeps

\* ... the files of the entries it held are removed after it is released ...
ClearUnlink(c, p) ==
    /\ k[c].pc = "unlink" /\ p \in k[c].todo
    /\ chunk' = Cleared(chunk, {p})
    /\ vec' = Cleared(vec, {p})
    /\ k' = [k EXCEPT ![c].todo = @ \ {p}]
    /\ UNCHANGED <<m, tri, rules, calls>> /\ CallerKeeps

\* ... and the manifest is saved.
ClearSave(c) ==
    /\ k[c].pc = "unlink" /\ k[c].todo = {}
    /\ k' = [k EXCEPT ![c].pc = "marshal"]
    /\ UNCHANGED <<store, rules, calls>> /\ CallerKeeps

\* RefreshIgnoreRules loads the rules without the lock (IndexAll and
\* repo_diff_context begin with it) ...
LoadRules(c, op) ==
    /\ op \in {"all", "diff"} /\ Begin(c, op)
    /\ k' = [k EXCEPT ![c] = [IdleCaller EXCEPT !.pc = "swap", !.rules = ignored,
                                 !.next = IF op = "all" THEN "full" ELSE "purge"]]
    /\ UNCHANGED <<store, rules>> /\ CallerKeeps

\* ... and swaps them in under it.
SwapRules(c) ==
    /\ k[c].pc = "swap" /\ LockFree
    /\ rules' = k[c].rules
    /\ k' = [k EXCEPT ![c] = [IdleCaller EXCEPT !.pc = k[c].next]]
    /\ UNCHANGED <<store, calls>> /\ CallerKeeps

\* PurgeDisallowedPaths takes the entries there are ...
PurgeScan(c) ==
    /\ k[c].pc = "purge" /\ LockFree
    /\ k' = [k EXCEPT ![c] = [IdleCaller EXCEPT !.pc = "judge",
                                                !.todo = {p \in Paths : m.ent[p] # 0}]]
    /\ UNCHANGED <<store, rules, calls>> /\ CallerKeeps

\* ... picks those the rules exclude ...
PurgeJudge(c) ==
    /\ k[c].pc = "judge" /\ LockFree
    /\ LET S == {p \in k[c].todo : ~Allowed(rules, p)} IN
       k' = [k EXCEPT ![c] = [IdleCaller EXCEPT !.pc = IF S = {} THEN "ensure" ELSE "drop",
                                                !.todo = S]]
    /\ UNCHANGED <<store, rules, calls>> /\ CallerKeeps

\* ... and removes them; repo_diff_context then asks for the changed paths.
PurgeRemove(c) ==
    /\ k[c].pc = "drop" /\ LockFree
    /\ DropLocked(k[c].todo)
    /\ k' = [k EXCEPT ![c] = [IdleCaller EXCEPT !.pc = "marshal", !.next = "ensure"]]
    /\ UNCHANGED <<rules, calls>> /\ CallerKeeps

Submit(req) ==
    /\ Len(queue) < QueueCap
    /\ queue' = Append(queue, req)
    /\ UNCHANGED <<store, onDisk, user, life, rules, w>>

\* EnsureIndexed(S) as an operation of its own.
EnsureIndexed(c, S) ==
    /\ Begin(c, "ensure")
    /\ Submit([full |-> FALSE, paths |-> S])
    /\ UNCHANGED k

\* The request an IndexAll or a repo_diff_context submits in the end.
SubmitRequest(c, S) ==
    /\ \/ k[c].pc = "full" /\ S = {} /\ Submit([full |-> TRUE, paths |-> S])
       \/ k[c].pc = "ensure" /\ Submit([full |-> FALSE, paths |-> S])
    /\ k' = [k EXCEPT ![c] = IdleCaller]
    /\ UNCHANGED calls

-----------------------------------------------------------------------------
(* Crash and restart                                                        *)

Crash ==
    /\ up /\ crashes < MaxCrashes
    /\ up' = FALSE
    /\ crashes' = crashes + 1
    /\ w' = IdleWorker
    /\ k' = [c \in Callers |-> IdleCaller]
    /\ queue' = <<>>
    /\ copy' = [a \in Savers |-> EmptyManifest]
    /\ UNCHANGED <<store, disk, saved, user, rules, calls>>

\* Faulty variant: postings rebuilt for what the entries say.
RebuiltFromEntries(ents) == ents

\* Postings rebuilt from the chunk files of the entries loaded.
Rebuilt(ents) == [p \in Paths |-> IF ents[p] = 0 THEN 0 ELSE chunk[p]]

\* New: the manifest is loaded and the postings rebuilt from the chunk files; a
\* manifest that is missing, or of another redaction or chunking, empties the
\* store ("reset"); one of another embedding model loses its vectors ("revec").
Restart(kind) ==
    /\ ~up
    /\ up' = TRUE
    /\ rules' = ignored
    /\ ~saved => kind = "reset"
    /\ CASE kind = "reset" ->
              /\ m' = EmptyManifest /\ disk' = EmptyManifest /\ saved' = FALSE
              /\ chunk' = [p \in Paths |-> 0]
              /\ vec' = [p \in Paths |-> 0]
              /\ tri' = [p \in Paths |-> 0]
         [] kind = "revec" ->
              /\ m' = [ent |-> disk.ent, vec |-> [p \in Paths |-> FALSE], total |-> disk.total]
              /\ vec' = [p \in Paths |-> 0]
              /\ tri' = Rebuilt(disk.ent)
              /\ UNCHANGED <<chunk, disk, saved>>
         [] kind = "same" ->
              /\ m' = disk
              /\ tri' = Rebuilt(disk.ent)
              /\ UNCHANGED <<chunk, vec, disk, saved>>
    /\ UNCHANGED <<copy, user, crashes, queue, w, k, calls>>

-----------------------------------------------------------------------------
Worker ==
    \/ \E live \in BOOLEAN : WTake(live)
    \/ WWalk \/ WPrune \/ WCancelled
    \/ \E p \in Paths :
          \/ WSkipIneligible(p) \/ WOpenFails(p) \/ WUnchanged(p) \/ WRead(p)
          \/ WChangedDuringRead(p) \/ WCommitDisallowed(p) \/ WCommitNoCapacity(p)
          \/ WWriteChunks(p)
          \/ \E embedded \in Embedding : WStore(p, embedded)
          \/ WBackfillRead(p) \/ WBackfillStore(p)
    \/ \E embedder \in Embedding : WLoopEnds(embedder)
    \/ WBackfillStops \/ WBackfillEnds
    \/ WMarshal \/ WPublish \/ WFinish

Caller(c) ==
    \/ CMarshal(c) \/ CPublish(c)
    \/ \E S \in SUBSET Paths :
          \/ S # {} /\ RemovePaths(c, S)
          \/ S # {} /\ EnsureIndexed(c, S)
          \/ SubmitRequest(c, S)
    \/ ClearReset(c) \/ ClearSave(c)
    \/ \E p \in Paths : ClearUnlink(c, p)
    \/ \E op \in Operations : LoadRules(c, op)
    \/ SwapRules(c) \/ PurgeScan(c) \/ PurgeJudge(c) \/ PurgeRemove(c)

User ==
    \/ \E p \in Paths : UserWrite(p) \/ UserDelete(p)
    \/ \E S \in SUBSET Paths : UserEditIgnore(S)

Running == Worker \/ WCancel \/ \E c \in Callers : Caller(c)

Next ==
    \/ User
    \/ up /\ Running
    \/ Crash
    \/ \E kind \in {"same", "reset", "revec"} : Restart(kind)

Spec == Init /\ [][Next]_vars

-----------------------------------------------------------------------------
(* Properties                                                               *)

ManifestOK(mm) ==
    /\ mm.ent \in [Paths -> 0..MaxVersion]
    /\ mm.vec \in [Paths -> BOOLEAN]

WorkerStates == {"idle", "walk", "prune", "next", "work", "writing", "backfill", "embed",
                 "marshal", "publish", "finish"}
CallerStates == {"idle", "marshal", "publish", "unlink", "swap", "purge", "judge", "drop", "full",
                 "ensure"}
WorkerOK ==
    w \in [pc : WorkerStates, full : BOOLEAN, live : BOOLEAN, todo : SUBSET Paths,
          seen : [Paths -> 0..MaxVersion], rules : SUBSET Paths, local : {w.local},
          cur : SUBSET Paths, ver : 0..MaxVersion, got : 0..MaxVersion, had : {w.had},
          partial : BOOLEAN, changed : BOOLEAN, after : {"idle", "next", "finish"}]

Request == [full : BOOLEAN, paths : SUBSET Paths]
QueueOK == queue \in Seq(Request)

CallerRecord ==
    [pc : CallerStates, todo : SUBSET Paths, rules : SUBSET Paths, next : CallerStates]

\* The state has its type: versions are versions of the user's files, and the
\* worker and the callers are at one of their steps.
TypeOK ==
    /\ clock \in [Paths -> 0..MaxVersion]
    /\ fs \in [Paths -> 0..MaxVersion]
    /\ ignored \subseteq Paths /\ rules \subseteq Paths
    /\ ManifestOK(m) /\ ManifestOK(disk)
    /\ DOMAIN copy = Savers /\ \A a \in Savers : ManifestOK(copy[a])
    /\ tri \in [Paths -> 0..MaxVersion]
    /\ chunk \in [Paths -> 0..MaxVersion]
    /\ vec \in [Paths -> 0..MaxVersion]
    /\ saved \in BOOLEAN /\ up \in BOOLEAN
    /\ WorkerOK
    /\ QueueOK
    /\ k \in [Callers -> CallerRecord]

\* No entry is newer than the chunks it stands for: an entry says a version is
\* indexed only once the chunk file of that version is in place.  So when
\* indexOne trusts size and time and skips a file, the chunks on disk, if they
\* exist, are those of the very content it skipped, whatever crash, lost save or
\* Clear came before.
FreshSkipSound ==
    \A p \in Paths : m.ent[p] # 0 /\ chunk[p] # 0 => m.ent[p] <= chunk[p]

\* The prefilter of a search never looks at postings of another content than the
\* chunks it would have found (the lock is free when it does).
PostingsMatchChunks ==
    up /\ LockFree => \A p \in Paths : tri[p] # 0 /\ chunk[p] # 0 => tri[p] = chunk[p]

\* A fresh entry's sidecar was embedded from the chunks beside it: a search
\* never scores the chunks of a file that is up to date with old vectors.
VectorsMatchChunks ==
    \A p \in Paths :
        m.ent[p] # 0 /\ m.ent[p] = chunk[p] /\ vec[p] # 0
        => vec[p] = chunk[p]

\* TotalBytes is what the entries add up to, and stays within its limit.
BytesAccounted ==
    /\ m.total = Bytes(m.ent, Paths)
    /\ m.total <= MaxTotalBytes

\* A path the loaded rules exclude does not come into the index: not by a pass
\* that began under other rules, nor by one that checked a snapshot of them.
IgnoredStaysOut ==
    [][\A p \in Paths :
          up /\ m.ent[p] = 0 /\ ~Allowed(rules, p) => m'.ent[p] = 0]_vars

\* A search finds something behind every entry.
EntryHasChunks == up => \A p \in Paths : m.ent[p] # 0 => chunk[p] # 0

AtRest == up /\ w.pc = "idle" /\ queue = <<>> /\ \A c \in Callers : k[c].pc = "idle"

\* When nobody is at work, what the manifest counts as indexed is there to be
\* found: the status and the answers of the search agree.
StatusAgreesWithSearch ==
    AtRest => \A p \in Paths : m.ent[p] # 0 => chunk[p] # 0

\* While the rules stay as they are, a full pass is exact about every file that
\* kept its content since the walk: indexed at that version, or left out with
\* the pass marked partial; what the walk did not see is not indexed.
PassIsExact ==
    w.pc = "finish" /\ w.full /\ edits = 0 =>
        \A p \in Paths :
            /\ w.seen[p] # 0 /\ w.seen[p] = fs[p] => m.ent[p] = fs[p] \/ w.partial
            /\ w.seen[p] = 0 => m.ent[p] = 0

-----------------------------------------------------------------------------
(* The inductive invariant behind the three matching properties: versions   *)
(* only grow, the worker alone commits, and it puts the files in place      *)
(* before the entry, so at each path                                        *)
(*     entries, saved or not  <=  vectors  <=  chunks  <=  what is committed *)
(*     next  <=  the last version the user wrote,                           *)
(* where a missing file breaks the chain without reversing it.              *)

Busy(p, pcs) == p \in w.cur /\ w.pc \in pcs

\* What is known of a manifest, in memory, on disk or on its way there.
EntriesBehindFiles(mm) ==
    \A p \in Paths :
        /\ mm.ent[p] <= clock[p]
        /\ chunk[p] # 0 => mm.ent[p] <= chunk[p]
        /\ vec[p] # 0 => mm.ent[p] <= vec[p]
        /\ Busy(p, {"work", "writing"}) => mm.ent[p] <= w.ver
        /\ Busy(p, {"embed"}) => mm.ent[p] <= w.got

FilesBehindUser ==
    \A p \in Paths :
        /\ fs[p] \in {0, clock[p]}
        /\ chunk[p] <= clock[p] /\ vec[p] <= clock[p]
        /\ vec[p] # 0 /\ chunk[p] # 0 => vec[p] <= chunk[p]

WorkerAhead ==
    \A p \in Paths :
        /\ Busy(p, {"work", "writing"}) =>
               /\ w.ver # 0 /\ w.ver <= clock[p]
               /\ chunk[p] <= w.ver /\ vec[p] <= w.ver
        /\ Busy(p, {"writing"}) => chunk[p] \in {0, w.ver} /\ Allowed(rules, p)
        /\ Busy(p, {"embed"}) =>
               /\ w.got # 0 /\ w.got <= clock[p]
               /\ chunk[p] \in {0, w.got} /\ vec[p] <= w.got

PostingsBuilt ==
    up => \A p \in Paths :
        ~Busy(p, {"writing"}) /\ tri[p] # 0 /\ chunk[p] # 0 => tri[p] = chunk[p]

OneAtATime ==
    /\ \A p, q \in w.cur : p = q
    /\ w.cur # {} => up

IInv ==
    /\ TypeOK
    /\ OneAtATime
    /\ FilesBehindUser
    /\ WorkerAhead
    /\ PostingsBuilt
    /\ EntriesBehindFiles(m)
    /\ EntriesBehindFiles(disk)
    /\ \A a \in Savers : EntriesBehindFiles(copy[a])
=============================================================================
