------------------------------- MODULE GitSync -------------------------------
(***************************************************************************)
(* The Git change monitor (GitChangeMonitor in internal/indexing/          *)
(* git_change.go) driving the index of module Indexer: the poll that reads *)
(* git status and fingerprints the dirty paths, the debounce timer, and    *)
(* the flush, which runs in a goroutine of its own and hands the paths to  *)
(* RemovePaths and EnsureIndexed, or a changed ignore file to IndexAll.    *)
(*                                                                         *)
(* Callers are the goroutines that run a flush.  The behaviours begin      *)
(* after the first full pass, in a clean worktree; the process does not    *)
(* crash and the contexts are never cancelled (the flush has none).        *)
(***************************************************************************)
EXTENDS Indexer

CONSTANTS RulesFile,        \* .mementoignore, one of Paths
          Hasty,            \* whether the user may delete, commit or check out a path
                            \* before a poll has seen it as it is
          MaxUpheavals      \* bound: deletions and edits of the ignore file

ASSUME GitAssumption ==
    /\ RulesFile \in Paths \ Indexable
    /\ Hasty \in BOOLEAN
    /\ MaxUpheavals \in Nat

VARIABLES
    head,           \* head[p]: version of p in the last commit, 0 if it has none
    deletes,        \* how often the user deleted a file
    statusPaths,    \* what the last poll recorded of each path
    poll,           \* the goroutine that polls
    pendingAdd, pendingDel,
    timer,          \* whether GitChangeMonitor.timer is set
    flush,          \* flush[c]: the flush that goroutine c runs
    askers          \* the flushes whose requests are in the queue or with the worker

index == <<store, onDisk, life, rules, queue, w, k, calls>>
monitor == <<statusPaths, poll, pendingAdd, pendingDel, timer, flush>>
gitVars == <<vars, head, deletes, monitor, askers>>

Clean == [op |-> "clean", ver |-> 0]
NoPoll == [pc |-> "idle", add |-> {}, del |-> {}]
NoFlush == [pc |-> "idle", add |-> {}, del |-> {}]

\* What the first full pass leaves of version 1 of p.
InSync(p) == IF p \in Indexable /\ SizeOf(p, 1) <= MaxFileBytes THEN 1 ELSE 0

GitInit ==
    /\ fs = [p \in Paths |-> 1] /\ clock = fs /\ head = fs
    /\ ignored = {} /\ rules = {}
    /\ m = [ent |-> [p \in Paths |-> InSync(p)], vec |-> [p \in Paths |-> FALSE],
            total |-> Bytes([p \in Paths |-> InSync(p)], Paths)]
    /\ tri = m.ent /\ chunk = m.ent /\ vec = [p \in Paths |-> 0]
    /\ disk = m /\ saved = TRUE /\ copy = [a \in Savers |-> m]
    /\ queue = <<>> /\ w = IdleWorker /\ k = [c \in Callers |-> IdleCaller]
    /\ up = TRUE /\ calls = 0 /\ edits = 0 /\ crashes = 0 /\ deletes = 0
    /\ statusPaths = [p \in Paths |-> Clean]
    /\ poll = NoPoll
    /\ pendingAdd = {} /\ pendingDel = {}
    /\ timer = FALSE
    /\ flush = [c \in Callers |-> NoFlush]
    /\ askers = <<>>

-----------------------------------------------------------------------------
(* What git status reports, and the user's side of it                       *)

Reported(p) == fs[p] # head[p]
Operation(p) == IF fs[p] = 0 THEN "d" ELSE "a"

\* Faulty variant: the operation is not part of the fingerprint.
FingerprintBlind(p, op) == [op |-> "a", ver |-> fs[p]]

\* gitPathFingerprint of a path reported under operation op.
Fingerprint(p, op) == [op |-> op, ver |-> fs[p]]
Now(p) == IF Reported(p) THEN Fingerprint(p, Operation(p)) ELSE Clean

\* A user who is not hasty waits for a poll.
Noticed(p) == Hasty \/ statusPaths[p] = Now(p)

Edit(p) == p # RulesFile /\ UserWrite(p) /\ UNCHANGED <<head, deletes, monitor, askers>>

Delete(p) ==
    /\ p # RulesFile /\ deletes + edits < MaxUpheavals /\ Noticed(p)
    /\ UserDelete(p)
    /\ deletes' = deletes + 1
    /\ UNCHANGED <<head, monitor, askers>>

\* git checkout -- p
Revert(p) ==
    /\ p # RulesFile /\ Reported(p) /\ head[p] # 0 /\ Noticed(p)
    /\ fs' = [fs EXCEPT ![p] = head[p]]
    /\ UNCHANGED <<index, clock, ignored, edits, head, deletes, monitor, askers>>

\* git commit p
Commit(p) ==
    /\ Reported(p) /\ Noticed(p)
    /\ head' = [head EXCEPT ![p] = fs[p]]
    /\ UNCHANGED <<index, user, deletes, monitor, askers>>

EditRules(S) ==
    /\ deletes + edits < MaxUpheavals /\ clock[RulesFile] < MaxVersion
    /\ S # ignored
    /\ ignored' = S
    /\ edits' = edits + 1
    /\ clock' = [clock EXCEPT ![RulesFile] = @ + 1]
    /\ fs' = [fs EXCEPT ![RulesFile] = clock[RulesFile] + 1]
    /\ UNCHANGED <<index, head, deletes, monitor, askers>>

-----------------------------------------------------------------------------
(* pollOnce                                                                 *)

\* gitStatusChanges: one git status, its entries classified.
PollStatus ==
    /\ poll.pc = "idle"
    /\ poll' = [pc  |-> "stat",
                add |-> {p \in Paths : Reported(p) /\ Operation(p) = "a"},
                del |-> {p \in Paths : Reported(p) /\ Operation(p) = "d"}]
    /\ UNCHANGED <<vars, head, deletes, statusPaths, pendingAdd, pendingDel, timer, flush, askers>>

\* What the poll records of the paths it was given.
Current ==
    [p \in Paths |-> IF p \in poll.add THEN Fingerprint(p, "a")
                     ELSE IF p \in poll.del THEN Fingerprint(p, "d")
                     ELSE Clean]

\* Paths the last poll recorded and this one does not report.
NoLongerDirty == {p \in Paths : statusPaths[p] # Clean /\ Current[p] = Clean}

\* Faulty variant: a path that is recorded already is not looked at again.
PollUpdateKnown ==
    /\ poll.pc = "stat"
    /\ pendingAdd' = pendingAdd \union {p \in poll.add : statusPaths[p] = Clean}
                                \union {p \in NoLongerDirty : fs[p] # 0}
    /\ pendingDel' = pendingDel \union {p \in poll.del : statusPaths[p] = Clean}
                                \union {p \in NoLongerDirty : fs[p] = 0}
    /\ statusPaths' = Current
    /\ timer' = (timer \/ pendingAdd' # {} \/ pendingDel' # {})
    /\ poll' = NoPoll
    /\ UNCHANGED <<vars, head, deletes, flush, askers>>

\* The new fingerprints are compared with the last, the timer set if it is not.
PollUpdate ==
    /\ poll.pc = "stat"
    /\ pendingAdd' = pendingAdd \union {p \in poll.add : statusPaths[p] # Current[p]}
                                \union {p \in NoLongerDirty : fs[p] # 0}
    /\ pendingDel' = pendingDel \union {p \in poll.del : statusPaths[p] # Current[p]}
                                \union {p \in NoLongerDirty : fs[p] = 0}
    /\ statusPaths' = Current
    /\ timer' = (timer \/ pendingAdd' # {} \/ pendingDel' # {})
    /\ poll' = NoPoll
    /\ UNCHANGED <<vars, head, deletes, flush, askers>>

-----------------------------------------------------------------------------
(* flush: the timer fires and runs it in a goroutine of its own             *)

FlushOf(add, del) ==
    [pc  |-> IF RulesFile \in add \union del THEN "all" ELSE IF del # {} THEN "remove" ELSE "ensure",
     add |-> add, del |-> del]

FlushStart(c) ==
    /\ timer /\ flush[c].pc = "idle"
    /\ flush' = [flush EXCEPT ![c] = FlushOf(pendingAdd, pendingDel)]
    /\ pendingAdd' = {} /\ pendingDel' = {}
    /\ timer' = FALSE
    /\ UNCHANGED <<vars, head, deletes, statusPaths, poll, askers>>

FlushKeeps == UNCHANGED <<head, deletes, statusPaths, poll, pendingAdd, pendingDel, timer>>
Goes(c, pc) == flush' = [flush EXCEPT ![c].pc = pc]

\* Deleted paths first ...
FlushRemove(c) ==
    /\ flush[c].pc = "remove"
    /\ RemovePaths(c, flush[c].del)
    /\ Goes(c, "ensure")
    /\ UNCHANGED askers /\ FlushKeeps

\* ... then, when they are saved, the others.
FlushEnsure(c) ==
    /\ flush[c].pc = "ensure" /\ flush[c].add # {} /\ k[c].pc = "idle"
    /\ EnsureIndexed(c, flush[c].add)
    /\ askers' = Append(askers, c)
    /\ Goes(c, "wait")
    /\ FlushKeeps

\* An ignore file among them: IndexAll, which reads the rules again.
FlushAll(c) ==
    /\ flush[c].pc = "all"
    /\ LoadRules(c, "all")
    /\ Goes(c, "full")
    /\ UNCHANGED askers /\ FlushKeeps

FlushFull(c) ==
    /\ flush[c].pc = "full"
    /\ SubmitRequest(c, {})
    /\ askers' = Append(askers, c)
    /\ Goes(c, "wait")
    /\ FlushKeeps

\* The goroutine ends: its request is answered, or it had none.
FlushEnd(c) ==
    /\ \/ flush[c].pc = "ensure" /\ flush[c].add = {} /\ k[c].pc = "idle"
       \/ flush[c].pc = "wait" /\ \A i \in DOMAIN askers : askers[i] # c
    /\ flush' = [flush EXCEPT ![c] = NoFlush]
    /\ UNCHANGED <<vars, askers>> /\ FlushKeeps

-----------------------------------------------------------------------------
\* A save or a swap of rules that a flush is in the middle of.
IndexStep(c) ==
    /\ CMarshal(c) \/ CPublish(c) \/ SwapRules(c)
    /\ UNCHANGED <<head, deletes, monitor, askers>>

\* The worker; when it is done with a request, it answers who asked.
WorkerStep ==
    /\ Worker /\ w'.live
    /\ askers' = IF w.pc # "idle" /\ w'.pc = "idle" THEN Tail(askers) ELSE askers
    /\ UNCHANGED <<head, deletes, monitor>>

GitUser ==
    \/ \E p \in Paths : Edit(p) \/ Delete(p) \/ Revert(p) \/ Commit(p)
    \/ \E S \in SUBSET Indexable : EditRules(S)

PollStep == PollStatus \/ PollUpdate
FlushStep(c) == FlushRemove(c) \/ FlushEnsure(c) \/ FlushAll(c) \/ FlushFull(c) \/ FlushEnd(c)
                \/ IndexStep(c)

GitNext ==
    \/ GitUser \/ PollStep \/ WorkerStep
    \/ \E c \in Callers : FlushStart(c) \/ FlushStep(c)

\* The polls go on, a timer that is set fires, and goroutines are scheduled.
GitFairness ==
    /\ WF_gitVars(PollStep) /\ WF_gitVars(WorkerStep)
    /\ WF_gitVars(\E c \in Callers : FlushStart(c))
    /\ \A c \in Callers : WF_gitVars(FlushStep(c))

GitSpec == GitInit /\ [][GitNext]_gitVars /\ GitFairness

-----------------------------------------------------------------------------
\* Nothing is under way and a poll would find nothing new.
Settled ==
    /\ AtRest /\ poll.pc = "idle" /\ ~timer
    /\ \A c \in Callers : flush[c].pc = "idle"
    /\ \A p \in Paths : statusPaths[p] = Now(p)

\* Deleted files are gone from the index (flush removes what a poll saw deleted).
DeletedIsRemoved == Settled => \A p \in Paths : fs[p] = 0 => m.ent[p] = 0

\* Files that may be indexed are, with the content they have, edited, reverted or
\* committed meanwhile (pollOnce compares fingerprints and follows clean paths).
ContentIsFresh ==
    Settled => \A p \in Paths : Allowed(ignored, p) /\ Fits(p) => m.ent[p] = fs[p]

\* What the ignore files exclude is not, and the rules loaded are theirs.
ExcludedIsRemoved ==
    Settled => rules = ignored /\ \A p \in Paths : ~Allowed(ignored, p) => m.ent[p] = 0

\* When the dust settles, the index is that of the worktree.
IndexFollowsWorktree == DeletedIsRemoved /\ ContentIsFresh /\ ExcludedIsRemoved

\* Whatever the user leaves in a file in the end reaches the index and stays there,
\* deletion included (Start polls for ever, every change arms the timer).
ChangesReachIndex ==
    \A p \in Indexable : \A v \in 0..MaxVersion :
        <>[](fs[p] = v /\ p \notin ignored) => <>[](m.ent[p] = v)
=============================================================================
