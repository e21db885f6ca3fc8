-------------------------------- MODULE Notes --------------------------------
(***************************************************************************)
(* The durable notes of a repository (internal/mcp/note_store.go,          *)
(* note_lifecycle.go, note_anchors.go, note_git.go) and the memory_ tools. *)
(*                                                                         *)
(* The servers of a repository's linked worktrees share one notes.json.    *)
(* Each operation holds a lock file from its load to its save, and the     *)
(* save renames a complete temporary file: a crash leaves the old file or  *)
(* the new one.  What a note says about the code is judged against the     *)
(* worktree of the server that reads it: its files, branch and HEAD.       *)
(*                                                                         *)
(* Contents of a file are "v1" and "v2", in which every anchored symbol    *)
(* stands, "bare" in which none does, or "gone".  Times are "never",       *)
(* "recent" or "old" (before the cutoff of a collection).  A commit that   *)
(* is no ancestor of HEAD counts as one of another branch.                 *)
(***************************************************************************)
EXTENDS Naturals, Sequences, FiniteSets, Functions

CONSTANTS NoteKeys, Worktrees,
          NotePaths, NoPath,    \* anchored files; the path of a commit anchor
          Branches,
          NoteAnchors,          \* the lists of (path, symbol) callers may give
          HadLegacy,            \* the <<worktree, key>> of older releases' notes
          ChangingTrees,        \* bound: the worktrees that change
          MaxNoteOps,           \* bound: operations on the store
          MaxNoteEdits          \* bound: changes of the worktrees

VARIABLES
    noteDisk,           \* notes.json: the note of a key, or NoNote
    noteLegacy,         \* a worktree's own notes.json of older releases
    noteLock,           \* who holds notes.lock
    noteHeld,           \* what a server has loaded
    notePc,             \* "off", "up", "busy" (holds the lock), "archive"
    noteTree, noteBranch, noteHead, noteMoved,  \* the worktrees
    noteJudged,         \* history: failed adjudications since the last approval
    noteMerged,         \* history: the legacy keys that reached the shared file
    noteOps, noteEdits

noteStore == <<noteDisk, noteLegacy, noteMerged>>
noteGit == <<noteTree, noteBranch, noteHead, noteMoved>>
noteVars == <<noteStore, noteLock, noteHeld, notePc, noteGit,
              noteJudged, noteOps, noteEdits>>

NoNote == [status |-> "none"]
NoFile == [k \in NoteKeys |-> NoNote]
Nobody == "nobody"

\* Callers anchor a note to files or to HEAD; git gives every worktree a branch of
\* its own.
ASSUME NoteAssumption ==
    /\ Nobody \notin Worktrees /\ NoPath \notin NotePaths
    /\ NoteAnchors \subseteq Seq([path : NotePaths \union {NoPath}, symbol : BOOLEAN])
    /\ \E f \in [Worktrees -> Branches] : IsInjective(f)
    /\ HadLegacy \subseteq Worktrees \X NoteKeys /\ ChangingTrees \subseteq Worktrees

NewNote(anchors) ==
    [status |-> "fresh", orphaned |-> FALSE, failed |-> 0, reads |-> 0,
     buried |-> "never", read |-> "never", anchors |-> anchors]
Present(k) == noteDisk[k] # NoNote

-----------------------------------------------------------------------------
(* Anchors                                                                  *)

\* An anchor as snapshotAnchors records it.
Anchored(w, path, symbol) ==
    [path |-> path, symbol |-> symbol, branch |-> noteBranch[w], commit |-> noteHead[w],
     hash |-> IF path = NoPath THEN "none" ELSE noteTree[w][path]]

\* snapshotAnchors fails on an anchor whose file or symbol does not exist.
CanAnchor(w, path, symbol) ==
    \/ path = NoPath /\ ~symbol
    \/ path # NoPath /\ noteTree[w][path] # "gone"
                     /\ ~(symbol /\ noteTree[w][path] = "bare")

CanSnapshot(w, anchors) == \A i \in DOMAIN anchors : CanAnchor(w, anchors[i].path, anchors[i].symbol)
Snapshots(w, anchors) ==
    [i \in DOMAIN anchors |-> Anchored(w, anchors[i].path, anchors[i].symbol)]

SameLineage(w, a) == a.branch = noteBranch[w]

\* The other files that define the anchored symbol (findMovedAnchorSymbol).
MovedTo(w, a) ==
    IF a.symbol THEN {p \in NotePaths \ {a.path} : noteTree[w][p] \in {"v1", "v2"}} ELSE {}

\* reconcileAnchor: the anchor it leaves, whether it reports a change, and
\* whether the referent is lost.
Reconciled(w, a) ==
    LET Is(anchor, changed, orphaned) ==
            [anchor |-> anchor, changed |-> changed, orphaned |-> orphaned]
    IN  IF a.path = NoPath
          THEN Is(a, a.commit # noteHead[w] /\ SameLineage(w, a), FALSE)
        ELSE IF noteTree[w][a.path] # "gone"
          THEN IF a.symbol /\ noteTree[w][a.path] = "bare"
                 THEN Is(a, TRUE, SameLineage(w, a))
                 ELSE Is(a, noteTree[w][a.path] # a.hash, FALSE)
        ELSE IF ~SameLineage(w, a) THEN Is(a, FALSE, FALSE)
        ELSE IF noteMoved[w][a.path] # NoPath
          THEN Is([a EXCEPT !.path = noteMoved[w][a.path]], TRUE, FALSE)
        ELSE IF Cardinality(MovedTo(w, a)) = 1
          THEN Is([a EXCEPT !.path = CHOOSE p \in MovedTo(w, a) : TRUE], TRUE, FALSE)
        ELSE Is(a, TRUE, MovedTo(w, a) = {})

-----------------------------------------------------------------------------
(* The lifecycle of a note                                                  *)

MarkedStale(n, failed) ==
    [n EXCEPT !.status = IF @ = "tombstoned" THEN @ ELSE "stale",
              !.failed = IF failed THEN @ + 1 ELSE @]

Buried(n) == [n EXCEPT !.status = "tombstoned",
                       !.buried = IF @ = "never" THEN "recent" ELSE @]

\* Faulty variant: a lost referent counts as a failed adjudication.
OrphanCounts(n) == Buried([MarkedStale(n, TRUE) EXCEPT !.orphaned = TRUE])
MarkedOrphaned(n) == Buried([MarkedStale(n, FALSE) EXCEPT !.orphaned = TRUE])

\* Faulty variant: one lost anchor is enough.
AnyOrphaned(w, n) == \E i \in DOMAIN n.anchors : Reconciled(w, n.anchors[i]).orphaned

\* allNoteAnchorsOrphaned asks every anchor again, up to the first that is not
\* lost, and rewrites the paths of the anchors it asks.
AllOrphaned(w, n) == \A i \in DOMAIN n.anchors : Reconciled(w, n.anchors[i]).orphaned
Asked(w, n) ==
    [n EXCEPT !.anchors = [i \in DOMAIN n.anchors |->
        IF \A j \in 1..(i - 1) : Reconciled(w, n.anchors[j]).orphaned
          THEN Reconciled(w, n.anchors[i]).anchor ELSE n.anchors[i]]]

\* One anchor's turn in reconcileLocked; a note that is buried stops the loop.
AnchorTurn(w, paths, n, i) ==
    LET a == n.anchors[i]
        r == Reconciled(w, a)
        moved == [n EXCEPT !.anchors[i] = r.anchor]
    IN  IF n.status = "tombstoned" \/ (paths # {} /\ a.path \notin paths) \/ ~r.changed
          THEN n
        ELSE IF ~r.orphaned THEN MarkedStale(moved, FALSE)
        ELSE IF AllOrphaned(w, moved) THEN MarkedOrphaned(moved)
        ELSE MarkedStale(Asked(w, moved), FALSE)

ReconciledNote(w, paths, n) ==
    IF n = NoNote THEN n
    ELSE LET turn[i \in 0..Len(n.anchors)] ==
                 IF i = 0 THEN n ELSE AnchorTurn(w, paths, turn[i - 1], i)
         IN  turn[Len(n.anchors)]

\* reconcileLocked; the empty set of paths stands for all.
ReconciledFile(w, paths, file) == [k \in NoteKeys |-> ReconciledNote(w, paths, file[k])]

Retrieved(n) == [n EXCEPT !.reads = IF @ < 3 THEN @ + 1 ELSE @, !.read = "recent"]

Collectable(n, failures, reads) ==
    /\ n.status = "tombstoned" /\ n.orphaned
    /\ n.failed >= failures /\ n.reads < reads
    /\ n.buried = "old" /\ n.read # "recent"

-----------------------------------------------------------------------------
(* Operations: the lock and the load are one step, the change and the save  *)
(* another.                                                                 *)

\* Faulty variant: the lock is the process's own only.
NoteBeginUnlocked(w) ==
    /\ notePc[w] = "up"
    /\ noteOps < MaxNoteOps /\ noteOps' = noteOps + 1
    /\ noteLock' = w /\ noteHeld' = [noteHeld EXCEPT ![w] = noteDisk]
    /\ notePc' = [notePc EXCEPT ![w] = "busy"]
    /\ UNCHANGED <<noteStore, noteGit, noteJudged, noteEdits>>

NoteBegin(w) ==
    /\ notePc[w] = "up" /\ noteLock = Nobody
    /\ noteOps < MaxNoteOps /\ noteOps' = noteOps + 1
    /\ noteLock' = w /\ noteHeld' = [noteHeld EXCEPT ![w] = noteDisk]
    /\ notePc' = [notePc EXCEPT ![w] = "busy"]
    /\ UNCHANGED <<noteStore, noteGit, noteJudged, noteEdits>>

\* saveLocked and the unlock.
NoteSaves(w, file, judged) ==
    /\ notePc[w] = "busy" /\ notePc' = [notePc EXCEPT ![w] = "up"]
    /\ noteLock' = Nobody
    /\ noteDisk' = file /\ noteJudged' = judged
    /\ noteHeld' = [noteHeld EXCEPT ![w] = NoFile]
    /\ UNCHANGED <<noteLegacy, noteMerged, noteGit, noteOps, noteEdits>>

Upsert(w) ==
    \E k \in NoteKeys, anchors \in NoteAnchors :
        LET old == noteHeld[w][k]
            new == NewNote(Snapshots(w, anchors))
        IN  IF ~CanSnapshot(w, anchors)
              THEN NoteSaves(w, noteHeld[w], noteJudged)
              ELSE NoteSaves(w, [noteHeld[w] EXCEPT ![k] =
                                   IF old = NoNote THEN new
                                   ELSE [new EXCEPT !.reads = old.reads, !.read = old.read]],
                             [noteJudged EXCEPT ![k] = 0])

\* Search: the active notes among those that match, fresh ones before stale
\* ones, up to the limit; it counts what it returns as retrieved.
SearchNotes(w) ==
    LET file == ReconciledFile(w, {}, noteHeld[w])
    IN  \E matching \in SUBSET NoteKeys, limit \in 1..Cardinality(NoteKeys) :
            LET active == {k \in matching : file[k].status \in {"fresh", "stale"}}
            IN  \E hits \in SUBSET active :
                    /\ \/ hits = active /\ Cardinality(active) <= limit
                       \/ Cardinality(hits) = limit
                    /\ \A k \in hits, l \in active \ hits :
                           file[l].status = "fresh" => file[k].status = "fresh"
                    /\ NoteSaves(w, [k \in NoteKeys |-> IF k \in hits THEN Retrieved(file[k])
                                                                      ELSE file[k]],
                                 noteJudged)

\* Faulty variant: the note is served as it is stored.
ReadStored(w) ==
    \E k \in NoteKeys :
        IF noteHeld[w][k].status \in {"fresh", "stale"}
          THEN NoteSaves(w, [noteHeld[w] EXCEPT ![k] = Retrieved(@)], noteJudged)
          ELSE NoteSaves(w, noteHeld[w], noteJudged)

ReadNote(w) ==
    LET file == ReconciledFile(w, {}, noteHeld[w])
    IN  \E k \in NoteKeys :
            IF file[k].status \in {"fresh", "stale"}
              THEN NoteSaves(w, [file EXCEPT ![k] = Retrieved(@)], noteJudged)
              ELSE NoteSaves(w, file, noteJudged)

ListNotes(w) ==
    LET file == ReconciledFile(w, {}, noteHeld[w])
    IN  NoteSaves(w, file, noteJudged)

\* The monitors' onChange.
ReconcileChanged(w) ==
    \E paths \in SUBSET NotePaths :
        NoteSaves(w, ReconciledFile(w, paths, noteHeld[w]), noteJudged)

MarkStale(w) ==
    \E k \in NoteKeys, failed \in BOOLEAN, orphaned \in BOOLEAN :
        LET marked == MarkedStale(noteHeld[w][k], failed)
        IN  /\ noteHeld[w][k] # NoNote
            /\ NoteSaves(w, [noteHeld[w] EXCEPT ![k] =
                               [marked EXCEPT !.orphaned = @ \/ orphaned]],
                         [noteJudged EXCEPT ![k] = IF failed THEN @ + 1 ELSE @])

Verify(w) ==
    \E k \in NoteKeys :
        LET n == noteHeld[w][k]
        IN  /\ n # NoNote
            /\ IF CanSnapshot(w, n.anchors)
                 THEN NoteSaves(w, [noteHeld[w] EXCEPT ![k] =
                                      [NewNote(Snapshots(w, n.anchors)) EXCEPT
                                         !.reads = n.reads, !.read = n.read]],
                                [noteJudged EXCEPT ![k] = 0])
                 ELSE NoteSaves(w, noteHeld[w], noteJudged)

Tombstone(w) ==
    \E k \in NoteKeys :
        /\ noteHeld[w][k] # NoNote
        /\ NoteSaves(w, [noteHeld[w] EXCEPT ![k] = Buried(MarkedStale(@, TRUE))],
                     [noteJudged EXCEPT ![k] = @ + 1])

\* The caller may lower or raise the thresholds within the limits of the rules.
GarbageCollect(w) ==
    \E failures \in 1..2, reads \in 1..3 :
        NoteSaves(w, [k \in NoteKeys |->
                        IF noteHeld[w][k] # NoNote /\ Collectable(noteHeld[w][k], failures, reads)
                          THEN NoNote ELSE noteHeld[w][k]],
                  noteJudged)

DeleteNote(w) ==
    \E k \in NoteKeys : NoteSaves(w, [noteHeld[w] EXCEPT ![k] = NoNote],
                                  [noteJudged EXCEPT ![k] = 0])

ClearNotes(w) == NoteSaves(w, NoFile, [k \in NoteKeys |-> 0])

\* The server dies holding the lock: the kernel releases it.
NoteCrash(w) ==
    /\ notePc[w] \in {"busy", "archive"} /\ notePc' = [notePc EXCEPT ![w] = "off"]
    /\ noteLock' = IF noteLock = w THEN Nobody ELSE noteLock
    /\ noteHeld' = [noteHeld EXCEPT ![w] = NoFile]
    /\ UNCHANGED <<noteStore, noteGit, noteJudged,
                   noteOps, noteEdits>>

-----------------------------------------------------------------------------
(* NewNoteStore: a legacy file of the worktree is merged, then archived.    *)

\* Faulty variant: only notes the shared file knows are merged.
MergedKnown(old, legacy, newer) ==
    IF old = NoNote \/ ~newer THEN old ELSE legacy

\* newerNote, with the larger count and the later time of retrieval.  Which
\* of two notes is newer is left open: their times are abstracted.
MergedNote(old, legacy, newer) ==
    IF legacy = NoNote THEN old
    ELSE IF old = NoNote THEN legacy
    ELSE [(IF newer THEN legacy ELSE old) EXCEPT
            !.reads = IF legacy.reads > old.reads THEN legacy.reads ELSE old.reads,
            !.read = IF "recent" \in {old.read, legacy.read} THEN "recent"
                     ELSE IF "old" \in {old.read, legacy.read} THEN "old" ELSE "never"]

LegacyKeys(w) == {k \in NoteKeys : noteLegacy[w][k] # NoNote}

OpenStore(w) ==
    /\ notePc[w] = "off" /\ LegacyKeys(w) = {}
    /\ notePc' = [notePc EXCEPT ![w] = "up"]
    /\ UNCHANGED <<noteStore, noteLock, noteHeld, noteGit,
                   noteJudged, noteOps, noteEdits>>

MergeLegacy(w) ==
    /\ notePc[w] = "off" /\ LegacyKeys(w) # {}
    /\ noteLock = Nobody /\ noteLock' = w
    /\ notePc' = [notePc EXCEPT ![w] = "archive"]
    /\ \E newer \in SUBSET NoteKeys :
           noteDisk' = [k \in NoteKeys |->
                          MergedNote(noteDisk[k], noteLegacy[w][k], k \in newer)]
    /\ noteMerged' = noteMerged \union {<<w, k>> : k \in {l \in LegacyKeys(w) : noteDisk'[l] # NoNote}}
    /\ UNCHANGED <<noteLegacy, noteHeld, noteGit, noteJudged, noteOps, noteEdits>>

ArchiveLegacy(w) ==
    /\ notePc[w] = "archive" /\ notePc' = [notePc EXCEPT ![w] = "up"]
    /\ noteLock' = Nobody
    /\ noteLegacy' = [noteLegacy EXCEPT ![w] = NoFile]
    /\ UNCHANGED <<noteDisk, noteMerged, noteHeld, noteGit,
                   noteJudged, noteOps, noteEdits>>

-----------------------------------------------------------------------------
(* The worktrees and the clock                                              *)

NoteEditing == noteEdits < MaxNoteEdits /\ noteEdits' = noteEdits + 1
NoteUntouched == UNCHANGED <<noteStore, noteLock, noteHeld, notePc,
                             noteJudged, noteOps>>

EditAnchored(w) ==
    /\ NoteEditing /\ NoteUntouched
    /\ \E p \in NotePaths, c \in {"v1", "v2", "bare", "gone"} :
           /\ c # noteTree[w][p]
           /\ noteTree' = [noteTree EXCEPT ![w][p] = c]
           /\ noteMoved' = [noteMoved EXCEPT ![w][p] = NoPath]
    /\ UNCHANGED <<noteBranch, noteHead>>

RenameAnchored(w) ==
    /\ NoteEditing /\ NoteUntouched
    /\ \E p \in NotePaths, q \in NotePaths :
           /\ noteTree[w][p] # "gone" /\ noteTree[w][q] = "gone"
           /\ noteTree' = [noteTree EXCEPT ![w][q] = noteTree[w][p], ![w][p] = "gone"]
           /\ noteMoved' = [noteMoved EXCEPT ![w][p] = q, ![w][q] = NoPath]
    /\ UNCHANGED <<noteBranch, noteHead>>

CommitAnchored(w) ==
    /\ NoteEditing /\ NoteUntouched
    /\ noteHead' = [noteHead EXCEPT ![w] = @ + 1]
    /\ UNCHANGED <<noteTree, noteBranch, noteMoved>>

\* Another branch, with contents of its own; git checks a branch out in one
\* worktree only.
SwitchBranch(w) ==
    /\ NoteEditing /\ NoteUntouched
    /\ \E b \in Branches \ Range(noteBranch), p \in NotePaths, c \in {"v1", "gone"} :
           /\ noteBranch' = [noteBranch EXCEPT ![w] = b]
           /\ noteTree' = [noteTree EXCEPT ![w][p] = c]
           /\ noteMoved' = [noteMoved EXCEPT ![w] = [q \in NotePaths |-> NoPath]]
    /\ noteHead' = [noteHead EXCEPT ![w] = @ + 1]

MonthsPass ==
    /\ LET Aged(t) == IF t = "recent" THEN "old" ELSE t
           Older(file) == [k \in NoteKeys |->
                             IF file[k] = NoNote THEN NoNote
                             ELSE [file[k] EXCEPT !.buried = Aged(@), !.read = Aged(@)]]
       IN  /\ noteDisk' = Older(noteDisk)
           /\ noteHeld' = [w \in Worktrees |-> Older(noteHeld[w])]
           /\ noteLegacy' = [w \in Worktrees |-> Older(noteLegacy[w])]
    /\ UNCHANGED <<noteMerged, noteLock, notePc, noteGit, noteJudged,
                   noteOps, noteEdits>>

NoteOperation(w) ==
    \/ Upsert(w) \/ SearchNotes(w) \/ ReadNote(w) \/ ListNotes(w) \/ ReconcileChanged(w)
    \/ MarkStale(w) \/ Verify(w) \/ Tombstone(w) \/ GarbageCollect(w)
    \/ DeleteNote(w) \/ ClearNotes(w)
NoteServer(w) ==
    OpenStore(w) \/ MergeLegacy(w) \/ ArchiveLegacy(w) \/ NoteBegin(w) \/ NoteCrash(w)
NoteUser(w) == EditAnchored(w) \/ RenameAnchored(w) \/ CommitAnchored(w) \/ SwitchBranch(w)

NotesInit ==
    /\ noteDisk = NoFile
    /\ noteLegacy = [w \in Worktrees |-> [k \in NoteKeys |->
                       IF <<w, k>> \in HadLegacy THEN NewNote(<<>>) ELSE NoNote]]
    /\ noteLock = Nobody /\ noteHeld = [w \in Worktrees |-> noteDisk]
    /\ notePc = [w \in Worktrees |-> "off"]
    /\ noteTree = [w \in Worktrees |-> [p \in NotePaths |-> "v1"]]
    /\ noteBranch = CHOOSE f \in [Worktrees -> Branches] : IsInjective(f)
    /\ noteHead = [w \in Worktrees |-> 0]
    /\ noteMoved = [w \in Worktrees |-> [p \in NotePaths |-> NoPath]]
    /\ noteJudged = [k \in NoteKeys |-> 0] /\ noteMerged = {}
    /\ noteOps = 0 /\ noteEdits = 0

NotesNext ==
    \/ \E w \in Worktrees : NoteOperation(w) \/ NoteServer(w)
    \/ \E w \in ChangingTrees : NoteUser(w)
    \/ MonthsPass
NotesSpec == NotesInit /\ [][NotesNext]_noteVars

-----------------------------------------------------------------------------
(* Properties                                                               *)

\* An operation replaces the file it has read: no update of another server,
\* or of another worktree's server, is lost between its load and its save.
NoUpdateLost ==
    [][\A w \in Worktrees :
         notePc[w] = "busy" /\ notePc'[w] = "up" => noteHeld[w] = noteDisk]_noteVars

Truthful(w, n) ==
    \A i \in DOMAIN n.anchors :
        LET a == n.anchors[i]
        IN  \/ a.path = NoPath /\ (a.commit = noteHead[w] \/ ~SameLineage(w, a))
            \/ a.path # NoPath /\ noteTree[w][a.path] = a.hash
            \/ a.path # NoPath /\ noteTree[w][a.path] = "gone" /\ ~SameLineage(w, a)

\* A note that is served as fresh says nothing about code that has changed:
\* what it is anchored to is, in the worktree of the server that serves it,
\* what it was when the note was last approved, unless another branch is
\* checked out there and lacks the file.
FreshIsTrue ==
    [][\A w \in Worktrees, k \in NoteKeys :
         /\ notePc[w] = "busy" /\ notePc'[w] = "up"
         /\ noteDisk'[k].status = "fresh" /\ ~Truthful(w, noteDisk'[k])
         => ~SearchNotes(w) /\ ~ReadNote(w) /\ ~ListNotes(w)]_noteVars

\* Reconciliation buries a note only when everything it is anchored to is lost
\* on its own branch: neither the loss of one anchor of several nor the absence
\* of a file on another branch does.
BuriedOnlyWhenLost ==
    [][\A w \in Worktrees, k \in NoteKeys :
         /\ notePc[w] = "busy" /\ notePc'[w] = "up" /\ noteJudged' = noteJudged
         /\ noteDisk[k].status \in {"fresh", "stale"} /\ noteDisk'[k].status = "tombstoned"
         => LET anchors == noteDisk'[k].anchors
            IN  /\ anchors # <<>>
                /\ \A i \in DOMAIN anchors :
                       /\ anchors[i].path # NoPath /\ SameLineage(w, anchors[i])
                       /\ \/ noteTree[w][anchors[i].path] = "gone"
                          \/ noteTree[w][anchors[i].path] = "bare" /\ anchors[i].symbol]_noteVars

\* A collection deletes a note only if somebody has failed to adjudicate it
\* since it was last written or verified: churn of the code alone, however
\* long, deletes nothing.
GcNeedsJudgement ==
    [][\A w \in Worktrees :
         GarbageCollect(w) =>
           \A k \in NoteKeys :
             noteHeld[w][k] # NoNote /\ noteDisk'[k] = NoNote => noteJudged[k] > 0]_noteVars

\* Every note of a worktree's legacy file is in that file or has reached the
\* shared one, whenever the server that merges it dies.
LegacyNotLost ==
    \A old \in HadLegacy : noteLegacy[old[1]][old[2]] # NoNote \/ old \in noteMerged
=============================================================================
