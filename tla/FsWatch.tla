------------------------------- MODULE FsWatch -------------------------------
(***************************************************************************)
(* Change detection by file-system events (internal/indexing/fs_change.go): *)
(* fsnotify's queue, the watcher goroutine, the pending sets behind the     *)
(* debounce timer, and the flushes, which run in timer goroutines and may   *)
(* overlap.  The index is what a pass over a path makes of it: the version  *)
(* on disk, 0 for no file; the Indexer module has the steps of a pass.      *)
(***************************************************************************)
EXTENDS Naturals, Sequences

CONSTANTS FsFiles,      \* the files of the root and of the directory "sub"
          InSub,        \* those of "sub"
          FsRules,      \* an ignore file
          MaxFsVersion, \* bound: versions written
          MaxFsDeletes, \* bound: deletions
          FlushSlots    \* bound: flushes that overlap

VARIABLES
    fsDisk,             \* a file's version (0: none)
    fsSub, fsWatched,   \* whether "sub" exists; whether it is watched
    fsEvents,           \* the watcher's queue
    fsAdd, fsDel, fsTimer,  \* pendingAdd, pendingDel, timer
    fsFlush,            \* of each flush: its phase and the paths it took
    fsIndex,            \* the version a file is indexed at
    fsUnseen,           \* history: files changed where nobody watched
    fsOvertaken,        \* history: files that a flush took out of the index
                        \* after a later one had indexed them
    fsWrites, fsDeletes
fsVars == <<fsDisk, fsSub, fsWatched, fsEvents, fsAdd, fsDel, fsTimer, fsFlush, fsIndex,
            fsUnseen, fsOvertaken, fsWrites, fsDeletes>>
fsWorld == <<fsDisk, fsSub, fsUnseen, fsWrites, fsDeletes>>

NoFsFlush == [phase |-> "none", add |-> {}, del |-> {}]

\* Start: the watches of addDirRecursive, no event yet.
FsInit ==
    /\ fsDisk = [f \in FsFiles |-> 0] /\ fsSub = FALSE /\ fsWatched = FALSE
    /\ fsEvents = <<>> /\ fsAdd = {} /\ fsDel = {} /\ fsTimer = FALSE
    /\ fsFlush = [s \in FlushSlots |-> NoFsFlush]
    /\ fsIndex = fsDisk /\ fsUnseen = {} /\ fsOvertaken = {}
    /\ fsWrites = 0 /\ fsDeletes = 0

\* The kernel queues an event only for a directory that is watched.
FsTells(f, op) ==
    IF f \in InSub /\ ~fsWatched
      THEN fsUnseen' = fsUnseen \union {f} /\ UNCHANGED fsEvents
      ELSE /\ fsEvents' = Append(fsEvents, [op |-> op, file |-> f])
           /\ fsUnseen' = fsUnseen \ {f}

FsWrite(f) ==
    /\ f \in InSub => fsSub
    /\ fsWrites < MaxFsVersion /\ fsWrites' = fsWrites + 1
    /\ fsDisk' = [fsDisk EXCEPT ![f] = fsWrites']
    /\ FsTells(f, "write")
    /\ UNCHANGED <<fsSub, fsWatched, fsAdd, fsDel, fsTimer, fsFlush, fsIndex, fsOvertaken,
                   fsDeletes>>

FsRemove(f) ==
    /\ fsDisk[f] # 0 /\ fsDeletes < MaxFsDeletes /\ fsDeletes' = fsDeletes + 1
    /\ fsDisk' = [fsDisk EXCEPT ![f] = 0]
    /\ FsTells(f, "remove")
    /\ UNCHANGED <<fsSub, fsWatched, fsAdd, fsDel, fsTimer, fsFlush, fsIndex, fsOvertaken,
                   fsWrites>>

FsMakeDir ==
    /\ ~fsSub /\ fsSub' = TRUE
    /\ fsEvents' = Append(fsEvents, [op |-> "create dir"])
    /\ UNCHANGED <<fsDisk, fsWatched, fsAdd, fsDel, fsTimer, fsFlush, fsIndex, fsUnseen,
                   fsOvertaken, fsWrites, fsDeletes>>

\* handleEvent with enqueueAdd and enqueueDelete: a new directory is watched,
\* and what it already holds is not enqueued.
FsHandle ==
    /\ fsEvents # <<>> /\ fsEvents' = Tail(fsEvents)
    /\ LET e == Head(fsEvents)
       IN  IF e.op = "create dir"
             THEN fsWatched' = TRUE /\ UNCHANGED <<fsAdd, fsDel, fsTimer>>
             ELSE /\ fsDel' = IF e.op = "remove" THEN fsDel \union {e.file} ELSE fsDel
                  /\ fsAdd' = IF e.op = "remove" THEN fsAdd ELSE fsAdd \union {e.file}
                  /\ fsTimer' = TRUE
                  /\ UNCHANGED fsWatched
    /\ UNCHANGED <<fsWorld, fsFlush, fsIndex, fsOvertaken>>

FsFlushStarts(s) ==
    /\ fsTimer /\ fsFlush[s].phase = "none"
    /\ fsFlush' = [fsFlush EXCEPT ![s] = [phase |-> "remove", add |-> fsAdd, del |-> fsDel]]
    /\ fsAdd' = {} /\ fsDel' = {} /\ fsTimer' = FALSE
    /\ UNCHANGED <<fsWorld, fsWatched, fsEvents, fsIndex, fsOvertaken>>

\* An ignore file among the paths asks for a pass over everything.
FsFlushRemoves(s) ==
    LET fl == fsFlush[s]
        all == FsRules \in fl.add \union fl.del
    IN  /\ fl.phase = "remove"
        /\ fsIndex' = [f \in FsFiles |-> IF ~all /\ f \in fl.del THEN 0 ELSE fsIndex[f]]
        /\ fsOvertaken' = IF all THEN fsOvertaken
                          ELSE fsOvertaken \union
                                 {f \in fl.del : fsDisk[f] # 0 /\ fsIndex[f] = fsDisk[f]}
        /\ fsFlush' = [fsFlush EXCEPT ![s] =
                         [phase |-> "index", add |-> IF all THEN FsFiles ELSE fl.add, del |-> {}]]
        /\ UNCHANGED <<fsWorld, fsWatched, fsEvents, fsAdd, fsDel, fsTimer>>

\* EnsureIndexed or IndexAll, a file at a time, and onChange at the end.
FsFlushIndexes(s, f) ==
    /\ fsFlush[s].phase = "index" /\ f \in fsFlush[s].add
    /\ fsIndex' = [fsIndex EXCEPT ![f] = fsDisk[f]]
    /\ fsOvertaken' = fsOvertaken \ {f}
    /\ fsFlush' = [fsFlush EXCEPT ![s].add = @ \ {f}]
    /\ UNCHANGED <<fsWorld, fsWatched, fsEvents, fsAdd, fsDel, fsTimer>>

\* Faulty variant: the pending sets are emptied when the flush is done.
FsFlushEndsEmpty(s) ==
    /\ fsFlush[s].phase = "index" /\ fsFlush[s].add = {}
    /\ fsFlush' = [fsFlush EXCEPT ![s] = NoFsFlush]
    /\ fsAdd' = {} /\ fsDel' = {}
    /\ UNCHANGED <<fsWorld, fsWatched, fsEvents, fsTimer, fsIndex, fsOvertaken>>

FsFlushEnds(s) ==
    /\ fsFlush[s].phase = "index" /\ fsFlush[s].add = {}
    /\ fsFlush' = [fsFlush EXCEPT ![s] = NoFsFlush]
    /\ UNCHANGED <<fsWorld, fsWatched, fsEvents, fsAdd, fsDel, fsTimer, fsIndex, fsOvertaken>>

FsFlushStep(s) ==
    \/ FsFlushStarts(s) \/ FsFlushRemoves(s) \/ FsFlushEnds(s)
    \/ \E f \in FsFiles : FsFlushIndexes(s, f)

FsNext ==
    \/ \E f \in FsFiles : FsWrite(f) \/ FsRemove(f)
    \/ FsMakeDir \/ FsHandle \/ \E s \in FlushSlots : FsFlushStep(s)

\* The watcher goroutine runs, the timer fires, passes finish.
FsFairness == WF_fsVars(FsHandle) /\ \A s \in FlushSlots : WF_fsVars(FsFlushStep(s))

-----------------------------------------------------------------------------
(* Properties                                                               *)

\* When the working tree comes to rest the index shows it, for every file whose
\* last change happened in a directory that was watched: no event is lost
\* between the queue, the pending sets and the flushes.  The exception is a
\* deletion whose flush is overtaken by that of the file's return.
FsChangesReachIndex ==
    \A f \in FsFiles : <>[](f \in fsUnseen \union fsOvertaken \/ fsIndex[f] = fsDisk[f])
=============================================================================
