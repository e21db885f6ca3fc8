----------------------------- MODULE NotesProofs -----------------------------
(***************************************************************************)
(* Proofs about the note store (Notes.tla), for any keys, worktrees,        *)
(* anchors and bounds.                                                      *)
(***************************************************************************)
EXTENDS Notes, InductionProofs, FiniteSetTheorems, TLAPS

NoteTimes == {"never", "recent", "old"}
NoteContents == {"v1", "v2", "bare", "gone"}
AnchorRecs == [path : NotePaths \union {NoPath}, symbol : BOOLEAN, branch : Branches,
               commit : Nat, hash : NoteContents \union {"none"}]
NoteRecs == [status : {"fresh", "stale", "tombstoned"}, orphaned : BOOLEAN, failed : Nat,
             reads : Nat, buried : NoteTimes, read : NoteTimes, anchors : Seq(AnchorRecs)]
NoteFiles == [NoteKeys -> NoteRecs \union {NoNote}]
Verdicts == [anchor : AnchorRecs, changed : BOOLEAN, orphaned : BOOLEAN]

GitTypeOK ==
    /\ noteTree \in [Worktrees -> [NotePaths -> NoteContents]]
    /\ noteBranch \in [Worktrees -> Branches]
    /\ noteHead \in [Worktrees -> Nat]
    /\ noteMoved \in [Worktrees -> [NotePaths -> NotePaths \union {NoPath}]]

StoreTypeOK ==
    /\ noteDisk \in NoteFiles
    /\ noteLegacy \in [Worktrees -> NoteFiles]
    /\ noteLock \in Worktrees \union {Nobody}
    /\ noteHeld \in [Worktrees -> NoteFiles]
    /\ notePc \in [Worktrees -> {"off", "up", "busy", "archive"}]
    /\ noteJudged \in [NoteKeys -> Nat]

\* Whoever works on the file holds its lock, and what it has loaded is the file.
WorkersHoldLock == \A w \in Worktrees : notePc[w] \in {"busy", "archive"} => noteLock = w
HeldIsDisk == \A w \in Worktrees : notePc[w] = "busy" => noteHeld[w] = noteDisk

\* A note counts no more failed adjudications than were made of it.
FailuresWereJudged(file, judged) ==
    \A k \in NoteKeys : file[k] # NoNote => file[k].failed <= judged[k]
LegacyUnjudged ==
    \A w \in Worktrees, k \in NoteKeys :
        noteLegacy[w][k] # NoNote => noteLegacy[w][k].failed = 0

\* What is archived has been merged.
ArchivedAreMerged ==
    \A w \in Worktrees, k \in NoteKeys :
        notePc[w] = "archive" /\ noteLegacy[w][k] # NoNote => <<w, k>> \in noteMerged

NotesInv ==
    /\ GitTypeOK /\ StoreTypeOK
    /\ WorkersHoldLock /\ HeldIsDisk
    /\ FailuresWereJudged(noteDisk, noteJudged) /\ LegacyUnjudged
    /\ ArchivedAreMerged /\ LegacyNotLost
-----------------------------------------------------------------------------
(* Anchors                                                                  *)

NoteRepo(w) == GitTypeOK /\ w \in Worktrees

LEMMA AnchorsTyped ==
    ASSUME NEW w, NoteRepo(w), NEW a \in AnchorRecs
    PROVE  Reconciled(w, a) \in Verdicts
<1>1. MovedTo(w, a) \subseteq NotePaths
  BY DEF MovedTo
<1>2. Cardinality(MovedTo(w, a)) = 1 => (CHOOSE p \in MovedTo(w, a) : TRUE) \in NotePaths
  <2>1. MovedTo(w, a) = {} => Cardinality(MovedTo(w, a)) = 0
    BY FS_EmptySet
  <2> QED BY <1>1, <2>1
<1>3. ASSUME NEW p \in NotePaths PROVE [a EXCEPT !.path = p] \in AnchorRecs
  BY <1>3 DEF AnchorRecs
<1>4. noteMoved[w][a.path] # NoPath /\ a.path # NoPath => noteMoved[w][a.path] \in NotePaths
  BY DEF NoteRepo, GitTypeOK, AnchorRecs
<1>5. SameLineage(w, a) \in BOOLEAN /\ (a.commit # noteHead[w]) \in BOOLEAN
  BY DEF SameLineage
<1> DEFINE gone == [a EXCEPT !.path = noteMoved[w][a.path]]
           elsewhere == [a EXCEPT !.path = CHOOSE p \in MovedTo(w, a) : TRUE]
<1>6. a.path # NoPath /\ noteMoved[w][a.path] # NoPath => gone \in AnchorRecs
  BY <1>3, <1>4
<1>7. Cardinality(MovedTo(w, a)) = 1 => elsewhere \in AnchorRecs
  BY <1>2, <1>3
<1> HIDE DEF gone, elsewhere
<1> QED BY <1>5, <1>6, <1>7 DEF Reconciled, Verdicts, gone, elsewhere

\* What an anchor refers to in the worktree is lost: on the anchor's branch, with
\* its file or its symbol gone.
Lost(w, a) ==
    /\ a.path # NoPath /\ SameLineage(w, a)
    /\ \/ noteTree[w][a.path] = "gone"
       \/ noteTree[w][a.path] = "bare" /\ a.symbol

LEMMA OrphansAreLost ==
    ASSUME NEW w, NEW a, Reconciled(w, a).orphaned
    PROVE  Lost(w, a)
<1> QED BY DEF Reconciled, Lost

\* An anchor that stands as it was recorded, or that another branch lacks.
Stands(w, a) ==
    \/ a.path = NoPath /\ (a.commit = noteHead[w] \/ ~SameLineage(w, a))
    \/ a.path # NoPath /\ noteTree[w][a.path] = a.hash
    \/ a.path # NoPath /\ noteTree[w][a.path] = "gone" /\ ~SameLineage(w, a)

LEMMA UnchangedStand ==
    ASSUME NEW w, NEW a, ~Reconciled(w, a).changed
    PROVE  Stands(w, a)
<1> QED BY DEF Reconciled, Stands

LEMMA SnapshotsTyped ==
    ASSUME NEW w, NoteRepo(w), NEW S, NEW anchors \in Seq(S),
           \A a \in S : a.path \in NotePaths \union {NoPath} /\ a.symbol \in BOOLEAN
    PROVE  Snapshots(w, anchors) \in Seq(AnchorRecs)
<1>1. ASSUME NEW i \in 1..Len(anchors)
      PROVE  Anchored(w, anchors[i].path, anchors[i].symbol) \in AnchorRecs
  <2>1. anchors[i].path \in NotePaths \union {NoPath} /\ anchors[i].symbol \in BOOLEAN
    <3>1. anchors[i] \in S
      OBVIOUS
    <3> QED BY <3>1
  <2> QED BY <2>1 DEF Anchored, NoteRepo, GitTypeOK, AnchorRecs
<1> QED BY <1>1 DEF Snapshots

-----------------------------------------------------------------------------
(* Notes                                                                    *)

LEMMA NoteFields ==
    ASSUME NEW n \in NoteRecs
    PROVE  /\ n.status \in {"fresh", "stale", "tombstoned"} /\ n.orphaned \in BOOLEAN
           /\ n.failed \in Nat /\ n.reads \in Nat
           /\ n.buried \in NoteTimes /\ n.read \in NoteTimes /\ n.anchors \in Seq(AnchorRecs)
           /\ n # NoNote
<1> QED BY DEF NoteRecs, NoNote

LEMMA NewNoteTyped ==
    ASSUME NEW anchors \in Seq(AnchorRecs)
    PROVE  /\ NewNote(anchors) \in NoteRecs
           /\ NewNote(anchors).failed = 0 /\ NewNote(anchors).status = "fresh"
<1> QED BY DEF NewNote, NoteRecs, NoteTimes

LEMMA MarkedTyped ==
    ASSUME NEW n \in NoteRecs, NEW failed \in BOOLEAN
    PROVE  LET m == MarkedStale(n, failed) IN
           /\ m \in NoteRecs /\ m.anchors = n.anchors
           /\ m.failed = IF failed THEN n.failed + 1 ELSE n.failed
           /\ m.status = IF n.status = "tombstoned" THEN "tombstoned" ELSE "stale"
<1>1. PICK count \in Nat : count = IF failed THEN n.failed + 1 ELSE n.failed
  BY NoteFields
<1>2. MarkedStale(n, failed) =
        [n EXCEPT !.status = IF n.status = "tombstoned" THEN "tombstoned" ELSE "stale",
                  !.failed = count]
  BY <1>1 DEF MarkedStale
<1> QED BY <1>1, <1>2 DEF NoteRecs

LEMMA BuriedTyped ==
    ASSUME NEW n \in NoteRecs
    PROVE  LET m == Buried(n) IN
           /\ m \in NoteRecs /\ m.anchors = n.anchors /\ m.failed = n.failed
           /\ m.status = "tombstoned"
<1> QED BY DEF Buried, NoteRecs, NoteTimes

LEMMA OrphanedTyped ==
    ASSUME NEW n \in NoteRecs
    PROVE  LET m == MarkedOrphaned(n) IN
           /\ m \in NoteRecs /\ m.anchors = n.anchors /\ m.failed = n.failed
           /\ m.status = "tombstoned"
<1> DEFINE o == [MarkedStale(n, FALSE) EXCEPT !.orphaned = TRUE]
<1>1. o \in NoteRecs /\ o.anchors = n.anchors /\ o.failed = n.failed
  <2>1. MarkedStale(n, FALSE) \in NoteRecs
    BY MarkedTyped
  <2>2. o \in NoteRecs
    BY <2>1 DEF NoteRecs
  <2>3. o.anchors = MarkedStale(n, FALSE).anchors /\ o.failed = MarkedStale(n, FALSE).failed
    BY <2>1 DEF NoteRecs
  <2> QED BY <2>2, <2>3, MarkedTyped
<1>2. MarkedOrphaned(n) = Buried(o)
  BY DEF MarkedOrphaned
<1> HIDE DEF o
<1> QED BY <1>1, <1>2, BuriedTyped

LEMMA RetrievedTyped ==
    ASSUME NEW n \in NoteRecs
    PROVE  LET m == Retrieved(n) IN
           /\ m \in NoteRecs /\ m.anchors = n.anchors /\ m.failed = n.failed
           /\ m.status = n.status
<1>1. PICK count \in Nat : count = IF n.reads < 3 THEN n.reads + 1 ELSE n.reads
  BY NoteFields
<1>2. Retrieved(n) = [n EXCEPT !.reads = count, !.read = "recent"]
  BY <1>1 DEF Retrieved
<1> QED BY <1>1, <1>2 DEF NoteRecs, NoteTimes

LEMMA CountersKept ==
    ASSUME NEW n \in NoteRecs, NEW old \in NoteRecs
    PROVE  LET m == [n EXCEPT !.reads = old.reads, !.read = old.read] IN
           m \in NoteRecs /\ m.failed = n.failed /\ m.status = n.status
<1> QED BY DEF NoteRecs

LEMMA ReanchoredTyped ==
    ASSUME NEW n \in NoteRecs, NEW anchors \in Seq(AnchorRecs)
    PROVE  LET m == [n EXCEPT !.anchors = anchors] IN
           /\ m \in NoteRecs /\ m.anchors = anchors /\ m.failed = n.failed
           /\ m.status = n.status
<1> QED BY DEF NoteRecs

LEMMA AskedTyped ==
    ASSUME NEW w, NoteRepo(w), NEW n \in NoteRecs
    PROVE  LET m == Asked(w, n) IN
           /\ m \in NoteRecs /\ Len(m.anchors) = Len(n.anchors)
           /\ m.failed = n.failed /\ m.status = n.status
<1> DEFINE asked == [i \in DOMAIN n.anchors |->
                       IF \A j \in 1..(i - 1) : Reconciled(w, n.anchors[j]).orphaned
                         THEN Reconciled(w, n.anchors[i]).anchor ELSE n.anchors[i]]
<1>1. n.anchors \in Seq(AnchorRecs)
  BY NoteFields
<1>2. ASSUME NEW i \in 1..Len(n.anchors)
      PROVE  n.anchors[i] \in AnchorRecs /\ Reconciled(w, n.anchors[i]).anchor \in AnchorRecs
  <2>1. n.anchors[i] \in AnchorRecs
    BY <1>1
  <2> QED BY <2>1, AnchorsTyped DEF Verdicts
<1>3. asked \in Seq(AnchorRecs) /\ Len(asked) = Len(n.anchors)
  BY <1>1, <1>2
<1>4. Asked(w, n) = [n EXCEPT !.anchors = asked]
  BY DEF Asked
<1> HIDE DEF asked
<1> QED BY <1>3, <1>4, ReanchoredTyped

\* A turn keeps the failures; it leaves a note fresh only if it leaves it alone and,
\* when it looks at every path, the anchor has not changed; it buries a note only
\* if everything the note is anchored to is lost.
TurnMade(w, paths, n, i, m) ==
    /\ m \in NoteRecs /\ Len(m.anchors) = Len(n.anchors) /\ m.failed = n.failed
    /\ n.status = "tombstoned" => m = n
    /\ m.status = "fresh" => m = n /\ (paths = {} => ~Reconciled(w, n.anchors[i]).changed)
    /\ n.status # "tombstoned" /\ m.status = "tombstoned" =>
         m.anchors # <<>> /\ \A j \in DOMAIN m.anchors : Lost(w, m.anchors[j])

LEMMA TurnEffect ==
    ASSUME NEW w, NoteRepo(w), NEW paths, NEW n \in NoteRecs, NEW i \in 1..Len(n.anchors)
    PROVE  TurnMade(w, paths, n, i, AnchorTurn(w, paths, n, i))
<1> DEFINE a == n.anchors[i]
           r == Reconciled(w, a)
           anchors == [n.anchors EXCEPT ![i] = r.anchor]
           moved == [n EXCEPT !.anchors = anchors]
<1>1. n.anchors \in Seq(AnchorRecs) /\ a \in AnchorRecs
  BY NoteFields
<1>2. r \in Verdicts
  BY <1>1, AnchorsTyped
<1>3. anchors \in Seq(AnchorRecs) /\ Len(anchors) = Len(n.anchors)
  BY <1>1, <1>2 DEF Verdicts
<1>4. /\ moved \in NoteRecs /\ moved.anchors = anchors /\ moved.failed = n.failed
      /\ moved.status = n.status
  BY <1>3, ReanchoredTyped
<1>5. moved = [n EXCEPT !.anchors[i] = r.anchor]
  BY <1>1 DEF NoteRecs
<1>6. r.changed \in BOOLEAN /\ r.orphaned \in BOOLEAN
  BY <1>2 DEF Verdicts
<1> DEFINE skipped == n.status = "tombstoned" \/ (paths # {} /\ a.path \notin paths) \/ ~r.changed
<1>7. AnchorTurn(w, paths, n, i) =
        IF skipped THEN n
        ELSE IF ~r.orphaned THEN MarkedStale(moved, FALSE)
        ELSE IF AllOrphaned(w, moved) THEN MarkedOrphaned(moved)
        ELSE MarkedStale(Asked(w, moved), FALSE)
  BY <1>5 DEF AnchorTurn
<1> HIDE DEF moved, r, anchors, a
<1>8. CASE skipped
  BY <1>7, <1>8 DEF r, a, TurnMade
<1>9. CASE ~skipped /\ ~r.orphaned
  BY <1>3, <1>4, <1>7, <1>9, MarkedTyped DEF TurnMade
<1>10. CASE ~skipped /\ r.orphaned /\ AllOrphaned(w, moved)
  <2>1. AnchorTurn(w, paths, n, i) = MarkedOrphaned(moved)
    BY <1>7, <1>10
  <2>2. \A j \in DOMAIN moved.anchors : Lost(w, moved.anchors[j])
    BY <1>10, OrphansAreLost DEF AllOrphaned
  <2>3. moved.anchors # <<>>
    BY <1>3, <1>4
  <2> QED BY <2>1, <2>2, <2>3, <1>3, <1>4, <1>10, OrphanedTyped DEF TurnMade
<1>11. CASE ~skipped /\ r.orphaned /\ ~AllOrphaned(w, moved)
  <2>1. AnchorTurn(w, paths, n, i) = MarkedStale(Asked(w, moved), FALSE)
    BY <1>7, <1>11
  <2>2. /\ Asked(w, moved) \in NoteRecs /\ Len(Asked(w, moved).anchors) = Len(n.anchors)
        /\ Asked(w, moved).failed = n.failed /\ Asked(w, moved).status = n.status
    BY <1>3, <1>4, AskedTyped
  <2> QED BY <2>1, <2>2, <1>11, MarkedTyped DEF TurnMade
<1> QED BY <1>6, <1>8, <1>9, <1>10, <1>11

\* The turns of reconcileLocked's loop over the anchors of a note.
LEMMA TurnsTaken ==
    ASSUME NEW w, NoteRepo(w), NEW paths, NEW n \in NoteRecs
    PROVE  \E f : /\ \A i \in 0..Len(n.anchors) :
                       f[i] \in NoteRecs /\ Len(f[i].anchors) = Len(n.anchors)
                  /\ f[0] = n
                  /\ \A i \in 1..Len(n.anchors) : f[i] = AnchorTurn(w, paths, f[i - 1], i)
                  /\ ReconciledNote(w, paths, n) = f[Len(n.anchors)]
<1> DEFINE N == Len(n.anchors)
           S == {m \in NoteRecs : Len(m.anchors) = N}
           F == [i \in 1..N |-> [m \in S |-> AnchorTurn(w, paths, m, i)]]
           Turns(f) == f = [i \in 0..N |-> IF i = 0 THEN n
                                           ELSE AnchorTurn(w, paths, f[i - 1], i)]
           turns == CHOOSE f : Turns(f)
<1>1. N \in Nat /\ n \in S
  BY NoteFields
<1>2. \A m \in S, i \in 1..N : AnchorTurn(w, paths, m, i) \in S
  BY TurnEffect DEF TurnMade
<1>3. \E f : Turns(f)
  <2>1. F \in [1..N -> [S -> S]]
    BY <1>2
  <2>2. \E f \in [0..N -> S] : /\ f[0] = n
                               /\ \A i \in 1..N : f[i] = F[i][f[i - 1]]
    <3> HIDE DEF S, F, N, turns, Turns
    <3> QED BY <1>1, <2>1, TurnsDefined
  <2> HIDE DEF S, F, N, turns
  <2>3. PICK f \in [0..N -> S] : f[0] = n /\ \A i \in 1..N : f[i] = F[i][f[i - 1]]
    BY <2>2
  <2>4. \A i \in 1..N : f[i] = AnchorTurn(w, paths, f[i - 1], i)
    <3> TAKE i \in 1..N
    <3>1. i - 1 \in 0..N
      BY <1>1
    <3>2. f[i - 1] \in S
      BY <2>3, <3>1
    <3> QED BY <2>3, <3>2 DEF F
  <2> DEFINE g == [i \in 0..N |-> IF i = 0 THEN n ELSE AnchorTurn(w, paths, f[i - 1], i)]
  <2>5. \A i \in 0..N : f[i] = g[i]
    BY <2>3, <2>4, <1>1
  <2>6. f = g
    BY <2>5
  <2> QED BY <2>6
<1>4. Turns(turns)
  BY <1>3
<1>5. ReconciledNote(w, paths, n) = turns[N]
  BY NoteFields DEF ReconciledNote
<1>6. turns[0] = n /\ \A i \in 1..N : turns[i] = AnchorTurn(w, paths, turns[i - 1], i)
  <2> HIDE DEF turns
  <2>1. SUFFICES ASSUME NEW f, Turns(f)
                 PROVE  f[0] = n /\ \A i \in 1..N : f[i] = AnchorTurn(w, paths, f[i - 1], i)
    BY <1>4
  <2>2. 0 \in 0..N /\ \A i \in 1..N : i \in 0..N /\ i # 0
    BY <1>1
  <2> HIDE DEF N
  <2> QED BY <2>1, <2>2
<1>7. \A i \in 0..N : turns[i] \in S
  <2> DEFINE Good == {i \in Nat : i <= N => turns[i] \in S}
  <2> HIDE DEF turns
  <2>1. 0 \in Good
    BY <1>6, <1>1
  <2>2. ASSUME NEW i \in Nat, i \in Good PROVE i + 1 \in Good
    <3>1. SUFFICES ASSUME i + 1 <= N PROVE turns[i + 1] \in S
      OBVIOUS
    <3>2. turns[i] \in S /\ i + 1 \in 1..N
      BY <2>2, <3>1, <1>1
    <3>3. turns[i + 1] = AnchorTurn(w, paths, turns[i], i + 1)
      <4>1. (i + 1) - 1 = i
        OBVIOUS
      <4>2. turns[i + 1] = AnchorTurn(w, paths, turns[(i + 1) - 1], i + 1)
        BY <1>6, <3>2
      <4> QED BY <4>1, <4>2
    <3> HIDE DEF S
    <3> QED BY <3>2, <3>3, <1>2
  <2>3. Nat \subseteq Good
    <3> HIDE DEF Good
    <3> QED BY <2>1, <2>2, Induction
  <2> QED BY <2>3
<1> HIDE DEF turns
<1> QED BY <1>5, <1>6, <1>7

LEMMA ReconcileEffect ==
    ASSUME NEW w, NoteRepo(w), NEW paths, NEW n \in NoteRecs
    PROVE  LET m == ReconciledNote(w, paths, n) IN
           /\ m \in NoteRecs /\ m.failed = n.failed
           /\ paths = {} /\ m.status = "fresh" =>
                \A i \in DOMAIN m.anchors : Stands(w, m.anchors[i])
           /\ n.status # "tombstoned" /\ m.status = "tombstoned" =>
                m.anchors # <<>> /\ \A i \in DOMAIN m.anchors : Lost(w, m.anchors[i])
<1> DEFINE N == Len(n.anchors)
           Unchanged(j) == ~Reconciled(w, n.anchors[j]).changed
           AllLost(m) == m.anchors # <<>> /\ \A i \in DOMAIN m.anchors : Lost(w, m.anchors[i])
           After(i, m) ==
               /\ m.failed = n.failed
               /\ m.status = "fresh" => m = n /\ (paths = {} => \A j \in 1..i : Unchanged(j))
               /\ n.status # "tombstoned" /\ m.status = "tombstoned" => AllLost(m)
<1>1. N \in Nat /\ n.anchors \in Seq(AnchorRecs)
  BY NoteFields
<1>2. PICK f : /\ \A i \in 0..N : f[i] \in NoteRecs /\ Len(f[i].anchors) = N
               /\ f[0] = n
               /\ \A i \in 1..N : f[i] = AnchorTurn(w, paths, f[i - 1], i)
               /\ ReconciledNote(w, paths, n) = f[N]
  BY TurnsTaken
<1> DEFINE Good == {i \in Nat : i <= N => After(i, f[i])}
<1>3. 0 \in Good
  BY <1>2
<1>4. ASSUME NEW i \in Nat, i \in Good PROVE i + 1 \in Good
  <2> SUFFICES ASSUME i + 1 <= N PROVE After(i + 1, f[i + 1])
    OBVIOUS
  <2>1. i \in 0..N /\ i + 1 \in 1..N /\ (i + 1) - 1 = i
    BY <1>1
  <2>2. f[i + 1] = AnchorTurn(w, paths, f[i], i + 1)
    BY <1>2, <2>1
  <2>3. f[i] \in NoteRecs /\ i + 1 \in 1..Len(f[i].anchors)
    BY <1>2, <2>1
  <2>4. After(i, f[i])
    BY <1>4, <2>1
  <2>5. PICK m, k : m = f[i] /\ m \in NoteRecs /\ k = i + 1 /\ k \in 1..Len(m.anchors)
    BY <2>3
  <2>6. PICK next : next = f[i + 1] /\ next = AnchorTurn(w, paths, m, k)
    BY <2>2, <2>5
  <2>7. TurnMade(w, paths, m, k, next)
    BY <2>5, <2>6, TurnEffect
  <2>8. \A j \in 1..(i + 1) : j \in 1..i \/ j = i + 1
    OBVIOUS
  <2>9. After(i, m)
    BY <2>4, <2>5
  <2> HIDE DEF AllLost
  <2>10. After(i + 1, next)
    BY <2>5, <2>7, <2>8, <2>9 DEF TurnMade, AllLost
  <2> QED BY <2>6, <2>10
<1>5. N \in Good
  <2> HIDE DEF Good
  <2> QED BY <1>1, <1>3, <1>4, Induction
<1>6. After(N, f[N]) /\ f[N] \in NoteRecs
  BY <1>1, <1>2, <1>5
<1>7. ASSUME paths = {}, f[N].status = "fresh"
      PROVE  \A i \in DOMAIN n.anchors : Stands(w, n.anchors[i])
  <2>1. \A i \in 1..N : Unchanged(i)
    BY <1>6, <1>7
  <2>2. DOMAIN n.anchors = 1..N
    BY <1>1
  <2> QED BY <2>1, <2>2, UnchangedStand
<1> QED BY <1>2, <1>6, <1>7

-----------------------------------------------------------------------------
(* Files                                                                    *)

\* A file a server may leave, beside the count of failed adjudications.
Judged(file, judged) ==
    /\ file \in NoteFiles /\ judged \in [NoteKeys -> Nat]
    /\ FailuresWereJudged(file, judged)

LEMMA NoFileJudged ==
    ASSUME NEW judged \in [NoteKeys -> Nat]
    PROVE  Judged(NoFile, judged)
<1> QED BY DEF Judged, NoFile, NoteFiles, FailuresWereJudged

LEMMA NoteReplaced ==
    ASSUME NEW file, NEW judged, Judged(file, judged), NEW k \in NoteKeys,
           NEW n \in NoteRecs \union {NoNote}, NEW count \in Nat,
           n # NoNote => n.failed <= count
    PROVE  Judged([file EXCEPT ![k] = n], [judged EXCEPT ![k] = count])
<1> QED BY DEF Judged, NoteFiles, FailuresWereJudged

LEMMA NoteRewritten ==
    ASSUME NEW file, NEW judged, Judged(file, judged), NEW k \in NoteKeys,
           NEW n \in NoteRecs, n.failed <= judged[k]
    PROVE  Judged([file EXCEPT ![k] = n], judged)
<1> QED BY DEF Judged, NoteFiles, FailuresWereJudged

\* The notes of a reconciled file: what a note counts as failed stays; what is fresh
\* stands; what is buried is lost.
FileMade(w, paths, file, made) ==
    \A k \in NoteKeys :
        LET n == file[k]
            m == made[k]
        IN  /\ n = NoNote => m = NoNote
            /\ n # NoNote =>
                 /\ m \in NoteRecs /\ m.failed = n.failed
                 /\ paths = {} /\ m.status = "fresh" =>
                      \A i \in DOMAIN m.anchors : Stands(w, m.anchors[i])
                 /\ n.status # "tombstoned" /\ m.status = "tombstoned" =>
                      m.anchors # <<>> /\ \A i \in DOMAIN m.anchors : Lost(w, m.anchors[i])

LEMMA FileReconciled ==
    ASSUME NEW w, NoteRepo(w), NEW paths, NEW file, NEW judged, Judged(file, judged)
    PROVE  /\ Judged(ReconciledFile(w, paths, file), judged)
           /\ FileMade(w, paths, file, ReconciledFile(w, paths, file))
<1> DEFINE made == ReconciledFile(w, paths, file)
<1>1. made = [k \in NoteKeys |-> ReconciledNote(w, paths, file[k])]
  BY DEF ReconciledFile
<1>2. FileMade(w, paths, file, made)
  <2> SUFFICES ASSUME NEW k \in NoteKeys
               PROVE  FileMade(w, paths, file, made)!(k)
    BY DEF FileMade
  <2>1. made[k] = ReconciledNote(w, paths, file[k])
    BY <1>1
  <2>2. file[k] \in NoteRecs \union {NoNote}
    BY DEF Judged, NoteFiles
  <2>3. CASE file[k] = NoNote
    BY <2>1, <2>3 DEF ReconciledNote
  <2>4. CASE file[k] \in NoteRecs
    BY <2>1, <2>4, NoteFields, ReconcileEffect
  <2> QED BY <2>2, <2>3, <2>4
<1>3. Judged(made, judged)
  <2>1. made \in [NoteKeys -> NoteRecs \union {NoNote}]
    BY <1>1, <1>2 DEF FileMade, Judged, NoteFiles
  <2> HIDE DEF made
  <2> QED BY <1>2, <2>1 DEF FileMade, Judged, NoteFiles, FailuresWereJudged
<1> QED BY <1>2, <1>3

-----------------------------------------------------------------------------
(* The operations keep the invariant                                        *)

LEMMA SaveKeeps ==
    ASSUME NotesInv, NEW w \in Worktrees, NEW file, NEW judged, Judged(file, judged),
           NoteSaves(w, file, judged)
    PROVE  NotesInv'
<1> USE DEF NoteSaves
<1>1. GitTypeOK'
  BY DEF NotesInv, GitTypeOK, noteGit
<1>2. StoreTypeOK'
  <2>1. NoFile \in NoteFiles
    BY DEF NoFile, NoteFiles
  <2> QED BY <2>1 DEF NotesInv, StoreTypeOK, Judged
<1>3. WorkersHoldLock' /\ HeldIsDisk'
  <2>1. \A v \in Worktrees : notePc'[v] \in {"busy", "archive"} => v # w /\ noteLock = v
    BY DEF NotesInv, StoreTypeOK, WorkersHoldLock
  <2>2. noteLock = w
    BY DEF NotesInv, WorkersHoldLock
  <2> QED BY <2>1, <2>2 DEF WorkersHoldLock, HeldIsDisk
<1>4. FailuresWereJudged(noteDisk, noteJudged)'
  BY DEF Judged
<1>5. LegacyUnjudged' /\ LegacyNotLost'
  BY DEF NotesInv, LegacyUnjudged, LegacyNotLost
<1>6. ArchivedAreMerged'
  BY DEF NotesInv, StoreTypeOK, ArchivedAreMerged
<1> QED BY <1>1, <1>2, <1>3, <1>4, <1>5, <1>6 DEF NotesInv

\* What a busy server has loaded is the file, whose failures were judged.
LEMMA HeldJudged ==
    ASSUME NotesInv, NEW w \in Worktrees, notePc[w] = "busy"
    PROVE  NoteRepo(w) /\ Judged(noteHeld[w], noteJudged) /\ noteHeld[w] = noteDisk
<1> QED BY DEF NotesInv, StoreTypeOK, HeldIsDisk, NoteRepo, Judged

LEMMA BusyOperates ==
    ASSUME NEW w, NoteOperation(w)
    PROVE  notePc[w] = "busy" /\ \E file, judged : NoteSaves(w, file, judged)
<1> QED BY DEF NoteOperation, Upsert, SearchNotes, ReadNote, ListNotes, ReconcileChanged,
            MarkStale, Verify, Tombstone, GarbageCollect, DeleteNote, ClearNotes, NoteSaves

LEMMA UpsertKeeps ==
    ASSUME NotesInv, NEW w \in Worktrees, Upsert(w)
    PROVE  NotesInv'
<1>1. NoteRepo(w) /\ Judged(noteHeld[w], noteJudged)
  BY HeldJudged, BusyOperates DEF NoteOperation
<1>2. PICK k \in NoteKeys, anchors \in NoteAnchors :
        LET old == noteHeld[w][k]
            new == NewNote(Snapshots(w, anchors))
        IN  IF ~CanSnapshot(w, anchors)
              THEN NoteSaves(w, noteHeld[w], noteJudged)
              ELSE NoteSaves(w, [noteHeld[w] EXCEPT ![k] =
                                   IF old = NoNote THEN new
                                   ELSE [new EXCEPT !.reads = old.reads, !.read = old.read]],
                             [noteJudged EXCEPT ![k] = 0])
  BY DEF Upsert
<1>3. CASE ~CanSnapshot(w, anchors)
  BY <1>1, <1>2, <1>3, SaveKeeps
<1>4. CASE CanSnapshot(w, anchors)
  <2>1. Snapshots(w, anchors) \in Seq(AnchorRecs)
    <3> DEFINE S == [path : NotePaths \union {NoPath}, symbol : BOOLEAN]
    <3>1. anchors \in Seq(S) /\ \A a \in S : a.path \in NotePaths \union {NoPath} /\ a.symbol \in BOOLEAN
      BY NoteAssumption
    <3> QED BY <1>1, <3>1, SnapshotsTyped
  <2>2. PICK new : new = NewNote(Snapshots(w, anchors)) /\ new \in NoteRecs /\ new.failed = 0
    BY <2>1, NewNoteTyped
  <2>3. noteHeld[w][k] \in NoteRecs \union {NoNote}
    BY <1>1 DEF Judged, NoteFiles
  <2>4. PICK n : /\ n = IF noteHeld[w][k] = NoNote THEN new
                       ELSE [new EXCEPT !.reads = noteHeld[w][k].reads,
                                        !.read = noteHeld[w][k].read]
                 /\ n \in NoteRecs /\ n.failed <= 0
    <3>1. CASE noteHeld[w][k] = NoNote
      BY <2>2, <3>1
    <3>2. CASE noteHeld[w][k] \in NoteRecs
      <4>1. PICK old \in NoteRecs : old = noteHeld[w][k] /\ old # NoNote
        BY <3>2, NoteFields
      <4>2. PICK n : n = [new EXCEPT !.reads = old.reads, !.read = old.read]
        OBVIOUS
      <4>3. n \in NoteRecs /\ n.failed = new.failed
        BY <2>2, <4>2, CountersKept
      <4>4. n.failed = 0
        BY <2>2, <4>3
      <4>5. n.failed <= 0
        BY <4>4
      <4>6. n = IF noteHeld[w][k] = NoNote THEN new
                ELSE [new EXCEPT !.reads = noteHeld[w][k].reads,
                                 !.read = noteHeld[w][k].read]
        BY <4>1, <4>2
      <4> QED BY <4>3, <4>5, <4>6
    <3> QED BY <2>3, <3>1, <3>2
  <2>5. Judged([noteHeld[w] EXCEPT ![k] = n], [noteJudged EXCEPT ![k] = 0])
    BY <1>1, <2>4, NoteReplaced
  <2>6. NoteSaves(w, [noteHeld[w] EXCEPT ![k] = n], [noteJudged EXCEPT ![k] = 0])
    BY <1>2, <1>4, <2>2, <2>4
  <2> QED BY <2>5, <2>6, SaveKeeps
<1> QED BY <1>3, <1>4

LEMMA VerifyKeeps ==
    ASSUME NotesInv, NEW w \in Worktrees, Verify(w)
    PROVE  NotesInv'
<1>1. NoteRepo(w) /\ Judged(noteHeld[w], noteJudged)
  BY HeldJudged, BusyOperates DEF NoteOperation
<1>2. PICK k \in NoteKeys :
        LET n == noteHeld[w][k]
        IN  /\ n # NoNote
            /\ IF CanSnapshot(w, n.anchors)
                 THEN NoteSaves(w, [noteHeld[w] EXCEPT ![k] =
                                      [NewNote(Snapshots(w, n.anchors)) EXCEPT
                                         !.reads = n.reads, !.read = n.read]],
                                [noteJudged EXCEPT ![k] = 0])
                 ELSE NoteSaves(w, noteHeld[w], noteJudged)
  BY DEF Verify
<1>3. PICK n : n = noteHeld[w][k] /\ n \in NoteRecs
  BY <1>1, <1>2 DEF Judged, NoteFiles
<1>4. CASE ~CanSnapshot(w, n.anchors)
  BY <1>1, <1>2, <1>3, <1>4, SaveKeeps
<1>5. CASE CanSnapshot(w, n.anchors)
  <2>1. Snapshots(w, n.anchors) \in Seq(AnchorRecs)
    <3>1. \A a \in AnchorRecs : a.path \in NotePaths \union {NoPath} /\ a.symbol \in BOOLEAN
      BY DEF AnchorRecs
    <3> QED BY <1>1, <1>3, <3>1, NoteFields, SnapshotsTyped
  <2>2. PICK new : new = NewNote(Snapshots(w, n.anchors)) /\ new \in NoteRecs /\ new.failed = 0
    BY <2>1, NewNoteTyped
  <2>3. PICK m : m = [new EXCEPT !.reads = n.reads, !.read = n.read]
    OBVIOUS
  <2>4. m \in NoteRecs /\ m.failed <= 0
    <3>1. m \in NoteRecs /\ m.failed = new.failed
      BY <1>3, <2>2, <2>3, CountersKept
    <3>2. m.failed = 0
      BY <2>2, <3>1
    <3>3. m.failed <= 0
      BY <3>2
    <3> QED BY <3>1, <3>3
  <2>5. Judged([noteHeld[w] EXCEPT ![k] = m], [noteJudged EXCEPT ![k] = 0])
    BY <1>1, <2>4, NoteReplaced
  <2>6. NoteSaves(w, [noteHeld[w] EXCEPT ![k] = m], [noteJudged EXCEPT ![k] = 0])
    BY <1>2, <1>3, <1>5, <2>2, <2>3
  <2> QED BY <2>5, <2>6, SaveKeeps
<1> QED BY <1>4, <1>5

LEMMA MarkStaleKeeps ==
    ASSUME NotesInv, NEW w \in Worktrees, MarkStale(w)
    PROVE  NotesInv'
<1>1. NoteRepo(w) /\ Judged(noteHeld[w], noteJudged)
  BY HeldJudged, BusyOperates DEF NoteOperation
<1>2. PICK k \in NoteKeys, failed \in BOOLEAN, orphaned \in BOOLEAN :
        LET marked == MarkedStale(noteHeld[w][k], failed)
        IN  /\ noteHeld[w][k] # NoNote
            /\ NoteSaves(w, [noteHeld[w] EXCEPT ![k] =
                               [marked EXCEPT !.orphaned = @ \/ orphaned]],
                         [noteJudged EXCEPT ![k] = IF failed THEN @ + 1 ELSE @])
  BY DEF MarkStale
<1> DEFINE n == noteHeld[w][k]
           m == MarkedStale(n, failed)
           marked == [m EXCEPT !.orphaned = @ \/ orphaned]
           count == IF failed THEN noteJudged[k] + 1 ELSE noteJudged[k]
<1>3. NoteSaves(w, [noteHeld[w] EXCEPT ![k] = marked], [noteJudged EXCEPT ![k] = count])
  BY <1>2
<1>4. n \in NoteRecs /\ n.failed <= noteJudged[k]
  BY <1>1, <1>2 DEF Judged, NoteFiles, FailuresWereJudged
<1> HIDE DEF n
<1>5. m \in NoteRecs /\ m.failed = IF failed THEN n.failed + 1 ELSE n.failed
  BY <1>4, MarkedTyped
<1> HIDE DEF m
<1>6. marked \in NoteRecs /\ marked.failed = m.failed
  <2>1. PICK o \in BOOLEAN : o = (m.orphaned \/ orphaned)
    OBVIOUS
  <2>2. [m EXCEPT !.orphaned = o] \in NoteRecs /\ [m EXCEPT !.orphaned = o].failed = m.failed
    BY <1>5 DEF NoteRecs
  <2> QED BY <2>1, <2>2
<1> HIDE DEF marked
<1>7. count \in Nat /\ marked.failed <= count
  <2>1. noteJudged[k] \in Nat /\ n.failed \in Nat
    BY <1>1, <1>4, NoteFields DEF Judged
  <2> QED BY <2>1, <1>4, <1>5, <1>6
<1> HIDE DEF count
<1>8. Judged([noteHeld[w] EXCEPT ![k] = marked], [noteJudged EXCEPT ![k] = count])
  BY <1>1, <1>6, <1>7, NoteReplaced
<1> QED BY <1>3, <1>8, SaveKeeps

LEMMA TombstoneKeeps ==
    ASSUME NotesInv, NEW w \in Worktrees, Tombstone(w)
    PROVE  NotesInv'
<1>1. NoteRepo(w) /\ Judged(noteHeld[w], noteJudged)
  BY HeldJudged, BusyOperates DEF NoteOperation
<1>2. PICK k \in NoteKeys :
        /\ noteHeld[w][k] # NoNote
        /\ NoteSaves(w, [noteHeld[w] EXCEPT ![k] = Buried(MarkedStale(@, TRUE))],
                     [noteJudged EXCEPT ![k] = @ + 1])
  BY DEF Tombstone
<1>3. PICK n : n = noteHeld[w][k] /\ n \in NoteRecs /\ n.failed <= noteJudged[k]
  BY <1>1, <1>2 DEF Judged, NoteFiles, FailuresWereJudged
<1>4. PICK m : m = Buried(MarkedStale(n, TRUE)) /\ m \in NoteRecs /\ m.failed = n.failed + 1
  <2>1. PICK stale : stale = MarkedStale(n, TRUE)
    OBVIOUS
  <2>2. stale \in NoteRecs /\ stale.failed = n.failed + 1
    BY <1>3, <2>1, MarkedTyped
  <2> QED BY <2>1, <2>2, BuriedTyped
<1>5. PICK count \in Nat : count = noteJudged[k] + 1 /\ m.failed <= count
  <2>1. noteJudged[k] \in Nat /\ n.failed \in Nat
    BY <1>1, <1>3, NoteFields DEF Judged
  <2>2. noteJudged[k] + 1 \in Nat /\ n.failed + 1 <= noteJudged[k] + 1
    BY <2>1, <1>3
  <2>3. m.failed <= noteJudged[k] + 1
    BY <2>2, <1>4
  <2> QED BY <2>2, <2>3
<1>6. Judged([noteHeld[w] EXCEPT ![k] = m], [noteJudged EXCEPT ![k] = count])
  BY <1>1, <1>4, <1>5, NoteReplaced
<1>7. NoteSaves(w, [noteHeld[w] EXCEPT ![k] = m], [noteJudged EXCEPT ![k] = count])
  BY <1>2, <1>3, <1>4, <1>5
<1> QED BY <1>6, <1>7, SaveKeeps

\* A reconciled file, some of whose notes are counted as retrieved.
LEMMA RetrievedJudged ==
    ASSUME NEW w, NoteRepo(w), NEW paths, NEW file, NEW judged, Judged(file, judged),
           NEW hits, \A k \in NoteKeys : k \in hits => file[k] # NoNote
    PROVE  Judged([k \in NoteKeys |-> IF k \in hits THEN Retrieved(file[k]) ELSE file[k]], judged)
<1> DEFINE made == [k \in NoteKeys |-> IF k \in hits THEN Retrieved(file[k]) ELSE file[k]]
<1>1. \A k \in NoteKeys : k \in hits => file[k] \in NoteRecs /\ made[k] = Retrieved(file[k])
  BY DEF Judged, NoteFiles
<1>2. \A k \in NoteKeys : k \notin hits => made[k] = file[k]
  OBVIOUS
<1>3. \A k \in NoteKeys : k \in hits => made[k] \in NoteRecs /\ made[k].failed = file[k].failed
  BY <1>1, RetrievedTyped
<1> HIDE DEF made
<1>4. made \in [NoteKeys -> NoteRecs \union {NoNote}]
  <2>1. made = [k \in NoteKeys |-> made[k]]
    BY DEF made
  <2> QED BY <2>1, <1>2, <1>3 DEF Judged, NoteFiles
<1>5. Judged(made, judged)
  BY <1>2, <1>3, <1>4 DEF Judged, NoteFiles, FailuresWereJudged
<1> QED BY <1>5 DEF made

LEMMA SearchKeeps ==
    ASSUME NotesInv, NEW w \in Worktrees, SearchNotes(w)
    PROVE  NotesInv'
<1>1. NoteRepo(w) /\ Judged(noteHeld[w], noteJudged)
  BY HeldJudged, BusyOperates DEF NoteOperation
<1>2. PICK file : file = ReconciledFile(w, {}, noteHeld[w]) /\ Judged(file, noteJudged)
  BY <1>1, FileReconciled
<1>3. PICK hits : /\ \A k \in NoteKeys : k \in hits => file[k].status \in {"fresh", "stale"}
                  /\ NoteSaves(w, [k \in NoteKeys |-> IF k \in hits THEN Retrieved(file[k])
                                                                   ELSE file[k]], noteJudged)
  BY <1>2 DEF SearchNotes
<1>4. \A k \in NoteKeys : k \in hits => file[k] # NoNote
  BY <1>3 DEF NoNote
<1> QED BY <1>1, <1>2, <1>3, <1>4, RetrievedJudged, SaveKeeps

LEMMA ReadKeeps ==
    ASSUME NotesInv, NEW w \in Worktrees, ReadNote(w)
    PROVE  NotesInv'
<1>1. NoteRepo(w) /\ Judged(noteHeld[w], noteJudged)
  BY HeldJudged, BusyOperates DEF NoteOperation
<1>2. PICK file : file = ReconciledFile(w, {}, noteHeld[w]) /\ Judged(file, noteJudged)
  BY <1>1, FileReconciled
<1>3. PICK k \in NoteKeys :
        IF file[k].status \in {"fresh", "stale"}
          THEN NoteSaves(w, [file EXCEPT ![k] = Retrieved(@)], noteJudged)
          ELSE NoteSaves(w, file, noteJudged)
  BY <1>2 DEF ReadNote
<1>4. CASE file[k].status \in {"fresh", "stale"}
  <2>1. file[k] \in NoteRecs /\ file[k].failed <= noteJudged[k]
    BY <1>2, <1>4 DEF Judged, NoteFiles, FailuresWereJudged, NoNote
  <2>2. Judged([file EXCEPT ![k] = Retrieved(file[k])], noteJudged)
    BY <1>2, <2>1, RetrievedTyped, NoteRewritten
  <2> QED BY <1>3, <1>4, <2>2, SaveKeeps
<1>5. CASE file[k].status \notin {"fresh", "stale"}
  BY <1>2, <1>3, <1>5, SaveKeeps
<1> QED BY <1>4, <1>5

LEMMA RemovalsKeep ==
    ASSUME NotesInv, NEW w \in Worktrees, GarbageCollect(w) \/ DeleteNote(w) \/ ClearNotes(w)
    PROVE  NotesInv'
<1>1. NoteRepo(w) /\ Judged(noteHeld[w], noteJudged)
  BY HeldJudged, BusyOperates DEF NoteOperation
<1>2. CASE GarbageCollect(w)
  <2>1. PICK failures \in 1..2, reads \in 1..3 :
          NoteSaves(w, [k \in NoteKeys |->
                          IF noteHeld[w][k] # NoNote /\ Collectable(noteHeld[w][k], failures, reads)
                            THEN NoNote ELSE noteHeld[w][k]],
                    noteJudged)
    BY <1>2 DEF GarbageCollect
  <2> DEFINE left == [k \in NoteKeys |->
                        IF noteHeld[w][k] # NoNote /\ Collectable(noteHeld[w][k], failures, reads)
                          THEN NoNote ELSE noteHeld[w][k]]
  <2>2. \A k \in NoteKeys : left[k] = NoNote \/ left[k] = noteHeld[w][k]
    OBVIOUS
  <2>3. left \in NoteFiles
    BY <1>1 DEF Judged, NoteFiles
  <2> HIDE DEF left
  <2>4. Judged(left, noteJudged)
    BY <1>1, <2>2, <2>3 DEF Judged, FailuresWereJudged
  <2> QED BY <2>1, <2>4, SaveKeeps DEF left
<1>3. CASE DeleteNote(w)
  <2>1. PICK k \in NoteKeys : NoteSaves(w, [noteHeld[w] EXCEPT ![k] = NoNote],
                                        [noteJudged EXCEPT ![k] = 0])
    BY <1>3 DEF DeleteNote
  <2>2. Judged([noteHeld[w] EXCEPT ![k] = NoNote], [noteJudged EXCEPT ![k] = 0])
    BY <1>1, NoteReplaced
  <2> QED BY <2>1, <2>2, SaveKeeps
<1>4. CASE ClearNotes(w)
  BY <1>4, NoFileJudged, SaveKeeps DEF ClearNotes
<1> QED BY <1>2, <1>3, <1>4

LEMMA OperationKeeps ==
    ASSUME NotesInv, NEW w \in Worktrees, NoteOperation(w)
    PROVE  NotesInv'
<1>1. NoteRepo(w) /\ Judged(noteHeld[w], noteJudged)
  BY HeldJudged, BusyOperates
<1>2. CASE ListNotes(w)
  BY <1>1, <1>2, FileReconciled, SaveKeeps DEF ListNotes
<1>3. CASE ReconcileChanged(w)
  BY <1>1, <1>3, FileReconciled, SaveKeeps DEF ReconcileChanged
<1> QED BY <1>2, <1>3, UpsertKeeps, VerifyKeeps, MarkStaleKeeps, TombstoneKeeps, SearchKeeps,
           ReadKeeps, RemovalsKeep DEF NoteOperation

-----------------------------------------------------------------------------
(* Servers, worktrees and the clock keep the invariant                      *)

LEMMA BeginKeeps ==
    ASSUME NotesInv, NEW w \in Worktrees, NoteBegin(w)
    PROVE  NotesInv'
<1> USE DEF NoteBegin, noteStore, noteGit, NotesInv
<1>1. GitTypeOK' /\ StoreTypeOK'
  BY DEF GitTypeOK, StoreTypeOK
<1>2. \A v \in Worktrees : notePc'[v] \in {"busy", "archive"} => v = w
  BY NoteAssumption DEF StoreTypeOK, WorkersHoldLock
<1>3. WorkersHoldLock' /\ HeldIsDisk'
  BY <1>2 DEF StoreTypeOK, WorkersHoldLock, HeldIsDisk
<1>4. FailuresWereJudged(noteDisk, noteJudged)' /\ LegacyUnjudged' /\ LegacyNotLost'
  BY DEF FailuresWereJudged, LegacyUnjudged, LegacyNotLost
<1>5. ArchivedAreMerged'
  BY DEF StoreTypeOK, ArchivedAreMerged
<1> QED BY <1>1, <1>3, <1>4, <1>5

LEMMA CrashKeeps ==
    ASSUME NotesInv, NEW w \in Worktrees, NoteCrash(w)
    PROVE  NotesInv'
<1> USE DEF NoteCrash, noteStore, noteGit, NotesInv
<1>1. GitTypeOK'
  BY DEF GitTypeOK
<1>2. StoreTypeOK'
  <2>1. NoFile \in NoteFiles
    BY DEF NoFile, NoteFiles
  <2> QED BY <2>1 DEF StoreTypeOK
<1>3. WorkersHoldLock' /\ HeldIsDisk'
  BY DEF StoreTypeOK, WorkersHoldLock, HeldIsDisk
<1>4. FailuresWereJudged(noteDisk, noteJudged)' /\ LegacyUnjudged' /\ LegacyNotLost'
  BY DEF FailuresWereJudged, LegacyUnjudged, LegacyNotLost
<1>5. ArchivedAreMerged'
  BY DEF StoreTypeOK, ArchivedAreMerged
<1> QED BY <1>1, <1>2, <1>3, <1>4, <1>5

LEMMA OpenKeeps ==
    ASSUME NotesInv, NEW w \in Worktrees, OpenStore(w)
    PROVE  NotesInv'
<1> USE DEF OpenStore, noteStore, noteGit, NotesInv
<1>1. GitTypeOK' /\ StoreTypeOK'
  BY DEF GitTypeOK, StoreTypeOK
<1>2. WorkersHoldLock' /\ HeldIsDisk' /\ ArchivedAreMerged'
  BY DEF StoreTypeOK, WorkersHoldLock, HeldIsDisk, ArchivedAreMerged
<1>3. FailuresWereJudged(noteDisk, noteJudged)' /\ LegacyUnjudged' /\ LegacyNotLost'
  BY DEF FailuresWereJudged, LegacyUnjudged, LegacyNotLost
<1> QED BY <1>1, <1>2, <1>3

\* A merged note keeps the failures of one of the two notes.
LEMMA MergedTyped ==
    ASSUME NEW old \in NoteRecs \union {NoNote}, NEW legacy \in NoteRecs \union {NoNote},
           NEW newer \in BOOLEAN
    PROVE  LET m == MergedNote(old, legacy, newer) IN
           /\ legacy = NoNote => m = old
           /\ legacy # NoNote => m \in NoteRecs
           /\ legacy # NoNote /\ old = NoNote => m.failed = legacy.failed
           /\ legacy # NoNote /\ old # NoNote => m.failed \in {old.failed, legacy.failed}
<1>1. CASE legacy = NoNote
  BY <1>1 DEF MergedNote
<1>2. CASE legacy # NoNote /\ old = NoNote
  BY <1>2 DEF MergedNote
<1>3. CASE legacy # NoNote /\ old # NoNote
  <2>1. PICK n : n = (IF newer THEN legacy ELSE old) /\ n \in NoteRecs
    BY <1>3
  <2>2. PICK reads \in Nat :
          reads = IF legacy.reads > old.reads THEN legacy.reads ELSE old.reads
    BY <1>3, NoteFields
  <2>3. PICK read \in NoteTimes :
          read = IF "recent" \in {old.read, legacy.read} THEN "recent"
                 ELSE IF "old" \in {old.read, legacy.read} THEN "old" ELSE "never"
    BY DEF NoteTimes
  <2>4. MergedNote(old, legacy, newer) = [n EXCEPT !.reads = reads, !.read = read]
    BY <1>3, <2>1, <2>2, <2>3 DEF MergedNote
  <2>5. LET m == [n EXCEPT !.reads = reads, !.read = read]
        IN  m \in NoteRecs /\ m.failed = n.failed
    BY <2>1 DEF NoteRecs
  <2> QED BY <1>3, <2>1, <2>4, <2>5
<1> QED BY <1>1, <1>2, <1>3

LEMMA MergeKeeps ==
    ASSUME NotesInv, NEW w \in Worktrees, MergeLegacy(w)
    PROVE  NotesInv'
<1> USE DEF noteGit, NotesInv
<1>1. PICK newer \in SUBSET NoteKeys :
        noteDisk' = [k \in NoteKeys |-> MergedNote(noteDisk[k], noteLegacy[w][k], k \in newer)]
  BY DEF MergeLegacy
<1>2. /\ notePc[w] = "off" /\ noteLock = Nobody /\ noteLock' = w
      /\ notePc' = [notePc EXCEPT ![w] = "archive"]
      /\ noteMerged' = noteMerged \union {<<w, k>> : k \in {l \in LegacyKeys(w) : noteDisk'[l] # NoNote}}
      /\ UNCHANGED <<noteLegacy, noteHeld, noteGit, noteJudged>>
  BY DEF MergeLegacy
<1>3. ASSUME NEW k \in NoteKeys
      PROVE  /\ noteDisk'[k] \in NoteRecs \union {NoNote}
             /\ noteLegacy[w][k] # NoNote => noteDisk'[k] # NoNote
             /\ noteDisk'[k] # NoNote => noteDisk'[k].failed <= noteJudged[k]
  <2>1. PICK old \in NoteRecs \union {NoNote} : old = noteDisk[k]
    BY DEF StoreTypeOK, NoteFiles
  <2>2. PICK legacy \in NoteRecs \union {NoNote} : legacy = noteLegacy[w][k]
    BY DEF StoreTypeOK, NoteFiles
  <2> DEFINE wins == k \in newer
             m == MergedNote(old, legacy, wins)
  <2>3. wins \in BOOLEAN
    OBVIOUS
  <2>4. noteDisk'[k] = m
    BY <1>1, <2>1, <2>2
  <2> HIDE DEF wins
  <2>5. old # NoNote => old.failed <= noteJudged[k]
    BY <2>1 DEF FailuresWereJudged
  <2>6. legacy # NoNote => legacy.failed <= noteJudged[k]
    BY <2>2 DEF LegacyUnjudged, StoreTypeOK
  <2>7. /\ legacy = NoNote => m = old
        /\ legacy # NoNote => m \in NoteRecs
        /\ legacy # NoNote /\ old = NoNote => m.failed = legacy.failed
        /\ legacy # NoNote /\ old # NoNote => m.failed \in {old.failed, legacy.failed}
    BY <2>3, MergedTyped
  <2> HIDE DEF m
  <2>8. \A n \in NoteRecs : n # NoNote
    BY NoteFields
  <2> QED BY <2>2, <2>4, <2>5, <2>6, <2>7, <2>8
<1>4. GitTypeOK'
  BY <1>2 DEF GitTypeOK
<1>5. StoreTypeOK'
  <2>1. noteDisk' \in NoteFiles
    BY <1>1, <1>3 DEF NoteFiles
  <2> QED BY <1>2, <2>1 DEF StoreTypeOK
<1>6. \A v \in Worktrees : notePc'[v] \in {"busy", "archive"} => v = w
  BY <1>2, NoteAssumption DEF StoreTypeOK, WorkersHoldLock
<1>7. WorkersHoldLock' /\ HeldIsDisk'
  BY <1>2, <1>6 DEF StoreTypeOK, WorkersHoldLock, HeldIsDisk
<1>8. FailuresWereJudged(noteDisk, noteJudged)' /\ LegacyUnjudged' /\ LegacyNotLost'
  BY <1>2, <1>3 DEF FailuresWereJudged, LegacyUnjudged, LegacyNotLost
<1>9. ArchivedAreMerged'
  <2> SUFFICES ASSUME NEW v \in Worktrees, NEW k \in NoteKeys, notePc'[v] = "archive",
                      noteLegacy'[v][k] # NoNote
               PROVE  <<v, k>> \in noteMerged'
    BY DEF ArchivedAreMerged
  <2>1. v = w /\ noteLegacy[w][k] # NoNote /\ noteDisk'[k] # NoNote
    BY <1>2, <1>3, <1>6
  <2>2. k \in {l \in LegacyKeys(w) : noteDisk'[l] # NoNote}
    BY <2>1 DEF LegacyKeys
  <2> QED BY <1>2, <2>1, <2>2
<1> QED BY <1>4, <1>5, <1>7, <1>8, <1>9

LEMMA ArchiveKeeps ==
    ASSUME NotesInv, NEW w \in Worktrees, ArchiveLegacy(w)
    PROVE  NotesInv'
<1> USE DEF ArchiveLegacy, noteGit, NotesInv
<1>1. GitTypeOK'
  BY DEF GitTypeOK
<1>2. StoreTypeOK'
  <2>1. NoFile \in NoteFiles
    BY DEF NoFile, NoteFiles
  <2> QED BY <2>1 DEF StoreTypeOK
<1>3. \A v \in Worktrees : notePc'[v] \notin {"busy", "archive"}
  BY DEF StoreTypeOK, WorkersHoldLock
<1>4. WorkersHoldLock' /\ HeldIsDisk' /\ ArchivedAreMerged'
  BY <1>3 DEF WorkersHoldLock, HeldIsDisk, ArchivedAreMerged
<1>5. FailuresWereJudged(noteDisk, noteJudged)' /\ LegacyUnjudged'
  BY DEF FailuresWereJudged, LegacyUnjudged, StoreTypeOK, NoFile
<1>6. LegacyNotLost'
  <2> SUFFICES ASSUME NEW old \in HadLegacy, old \notin noteMerged
               PROVE  noteLegacy'[old[1]][old[2]] # NoNote
    BY DEF LegacyNotLost
  <2>1. old[1] \in Worktrees /\ old[2] \in NoteKeys /\ old = <<old[1], old[2]>>
    BY NoteAssumption
  <2>2. noteLegacy[old[1]][old[2]] # NoNote
    BY DEF LegacyNotLost
  <2>3. old[1] # w
    BY <2>1, <2>2 DEF ArchivedAreMerged
  <2> QED BY <2>1, <2>2, <2>3 DEF StoreTypeOK
<1> QED BY <1>1, <1>2, <1>4, <1>5, <1>6

LEMMA UserKeeps ==
    ASSUME NotesInv, NEW w \in Worktrees, NoteUser(w)
    PROVE  NotesInv'
<1>1. GitTypeOK'
  <2> USE DEF NotesInv, GitTypeOK, NoteContents
  <2>1. CASE EditAnchored(w)
    BY <2>1 DEF EditAnchored
  <2>2. CASE RenameAnchored(w)
    BY <2>2 DEF RenameAnchored
  <2>3. CASE CommitAnchored(w)
    BY <2>3 DEF CommitAnchored
  <2>4. CASE SwitchBranch(w)
    BY <2>4 DEF SwitchBranch
  <2> QED BY <2>1, <2>2, <2>3, <2>4 DEF NoteUser
<1>2. UNCHANGED <<noteDisk, noteLegacy, noteMerged, noteLock, noteHeld, notePc, noteJudged>>
  BY DEF NoteUser, EditAnchored, RenameAnchored, CommitAnchored, SwitchBranch, NoteUntouched,
         noteStore
<1> QED BY <1>1, <1>2 DEF NotesInv, StoreTypeOK, WorkersHoldLock, HeldIsDisk, FailuresWereJudged,
           LegacyUnjudged, ArchivedAreMerged, LegacyNotLost

LEMMA MonthsKeep ==
    ASSUME NotesInv, MonthsPass
    PROVE  NotesInv'
<1> DEFINE Aged(t) == IF t = "recent" THEN "old" ELSE t
           Older(file) == [k \in NoteKeys |->
                             IF file[k] = NoNote THEN NoNote
                             ELSE [file[k] EXCEPT !.buried = Aged(@), !.read = Aged(@)]]
<1>1. /\ noteDisk' = Older(noteDisk)
      /\ noteHeld' = [w \in Worktrees |-> Older(noteHeld[w])]
      /\ noteLegacy' = [w \in Worktrees |-> Older(noteLegacy[w])]
      /\ UNCHANGED <<noteMerged, noteLock, notePc, noteTree, noteBranch, noteHead, noteMoved,
                     noteJudged>>
  BY DEF MonthsPass, noteGit
<1>2. ASSUME NEW file \in NoteFiles, NEW k \in NoteKeys
      PROVE  /\ Older(file)[k] \in NoteRecs \union {NoNote}
             /\ Older(file)[k] = NoNote <=> file[k] = NoNote
             /\ file[k] # NoNote => Older(file)[k].failed = file[k].failed
  <2>1. CASE file[k] = NoNote
    BY <2>1
  <2>2. CASE file[k] \in NoteRecs
    <3>1. PICK n \in NoteRecs : n = file[k]
      BY <2>2
    <3>2. PICK buried \in NoteTimes, read \in NoteTimes :
            buried = Aged(n.buried) /\ read = Aged(n.read)
      BY NoteFields DEF NoteTimes
    <3>3. Older(file)[k] = [n EXCEPT !.buried = buried, !.read = read]
      BY <3>1, <3>2, NoteFields
    <3>4. LET m == [n EXCEPT !.buried = buried, !.read = read]
          IN  m \in NoteRecs /\ m.failed = n.failed
      BY DEF NoteRecs
    <3> QED BY <3>1, <3>3, <3>4, NoteFields
  <2> QED BY <1>2, <2>1, <2>2 DEF NoteFiles
<1>3. ASSUME NEW file \in NoteFiles PROVE Older(file) \in NoteFiles
  <2>1. Older(file) = [k \in NoteKeys |-> Older(file)[k]]
    OBVIOUS
  <2> HIDE DEF Older
  <2> QED BY <1>2, <2>1 DEF NoteFiles
<1> HIDE DEF Older
<1> USE DEF NotesInv
<1>4. StoreTypeOK'
  BY <1>1, <1>3 DEF StoreTypeOK
<1>5. GitTypeOK' /\ WorkersHoldLock'
  BY <1>1 DEF GitTypeOK, WorkersHoldLock
<1>6. HeldIsDisk'
  BY <1>1 DEF HeldIsDisk
<1>7. FailuresWereJudged(noteDisk, noteJudged)'
  BY <1>1, <1>2 DEF FailuresWereJudged, StoreTypeOK
<1>8. \A w \in Worktrees, k \in NoteKeys :
        /\ noteLegacy'[w][k] = NoNote <=> noteLegacy[w][k] = NoNote
        /\ noteLegacy[w][k] # NoNote => noteLegacy'[w][k].failed = noteLegacy[w][k].failed
  BY <1>1, <1>2 DEF StoreTypeOK
<1>9. LegacyUnjudged' /\ ArchivedAreMerged'
  BY <1>1, <1>8 DEF LegacyUnjudged, ArchivedAreMerged
<1>10. LegacyNotLost'
  <2>1. \A old \in HadLegacy : old[1] \in Worktrees /\ old[2] \in NoteKeys
    BY NoteAssumption
  <2> QED BY <1>1, <1>8, <2>1 DEF LegacyNotLost
<1> QED BY <1>4, <1>5, <1>6, <1>7, <1>9, <1>10

LEMMA NotesStart ==
    ASSUME NotesInit
    PROVE  NotesInv
<1> USE DEF NotesInit
<1>1. GitTypeOK
  <2>1. noteBranch \in [Worktrees -> Branches]
    BY NoteAssumption
  <2> QED BY <2>1 DEF GitTypeOK, NoteContents
<1>2. <<>> \in Seq(AnchorRecs)
  OBVIOUS
<1>3. NewNote(<<>>) \in NoteRecs /\ NewNote(<<>>).failed = 0 /\ NewNote(<<>>) # NoNote
  BY <1>2, NewNoteTyped, NoteFields
<1>4. StoreTypeOK
  BY <1>3 DEF StoreTypeOK, NoteFiles, NoFile
<1>5. WorkersHoldLock /\ HeldIsDisk /\ ArchivedAreMerged
  BY DEF WorkersHoldLock, HeldIsDisk, ArchivedAreMerged
<1>6. FailuresWereJudged(noteDisk, noteJudged)
  BY DEF FailuresWereJudged, NoFile
<1>7. LegacyUnjudged
  BY <1>3 DEF LegacyUnjudged
<1>8. LegacyNotLost
  <2> SUFFICES ASSUME NEW old \in HadLegacy PROVE noteLegacy[old[1]][old[2]] # NoNote
    BY DEF LegacyNotLost
  <2>1. old[1] \in Worktrees /\ old[2] \in NoteKeys /\ <<old[1], old[2]>> = old
    BY NoteAssumption
  <2> QED BY <1>3, <2>1
<1> QED BY <1>1, <1>4, <1>5, <1>6, <1>7, <1>8 DEF NotesInv

LEMMA NotesStep ==
    ASSUME NotesInv, [NotesNext]_noteVars
    PROVE  NotesInv'
<1>1. CASE UNCHANGED noteVars
  BY <1>1 DEF noteVars, noteStore, noteGit, NotesInv, GitTypeOK, StoreTypeOK, WorkersHoldLock,
         HeldIsDisk, FailuresWereJudged, LegacyUnjudged, ArchivedAreMerged, LegacyNotLost
<1>2. ASSUME NEW w \in Worktrees, NoteServer(w) PROVE NotesInv'
  BY <1>2, OpenKeeps, MergeKeeps, ArchiveKeeps, BeginKeeps, CrashKeeps DEF NoteServer
<1>3. ASSUME NEW w \in ChangingTrees, NoteUser(w) PROVE NotesInv'
  BY <1>3, NoteAssumption, UserKeeps
<1> QED BY <1>1, <1>2, <1>3, OperationKeeps, MonthsKeep DEF NotesNext

LEMMA NotesInvariant == NotesSpec => []NotesInv
<1> QED BY NotesStart, NotesStep, PTL DEF NotesSpec

-----------------------------------------------------------------------------
(* What follows                                                             *)

\* A server writes back what it has read: no update of another server of the
\* repository falls between the load and the save (note_store.go, under the lock).
THEOREM NoteUpdatesKept == NotesSpec => NoUpdateLost
<1>1. NotesInv /\ [NotesNext]_noteVars =>
        [\A w \in Worktrees :
           notePc[w] = "busy" /\ notePc'[w] = "up" => noteHeld[w] = noteDisk]_noteVars
  BY DEF NotesInv, HeldIsDisk
<1> QED BY <1>1, NotesInvariant, PTL DEF NotesSpec, NoUpdateLost

\* Wherever the server that merges it dies, a note of a worktree's older store is in
\* its file or has reached the shared one (NewNoteStore).
THEOREM LegacyNotesKept == NotesSpec => []LegacyNotLost
<1> QED BY NotesInvariant, PTL DEF NotesInv

\* A collection deletes only what somebody has failed to adjudicate since it was
\* last approved, however much the code has changed.
THEOREM CollectionNeedsJudgement == NotesSpec => GcNeedsJudgement
<1>1. ASSUME NotesInv, NEW w \in Worktrees, GarbageCollect(w), NEW k \in NoteKeys,
             noteHeld[w][k] # NoNote, noteDisk'[k] = NoNote
      PROVE  noteJudged[k] > 0
  <2>1. Judged(noteHeld[w], noteJudged)
    BY <1>1, HeldJudged, BusyOperates DEF NoteOperation
  <2>2. PICK failures \in 1..2, reads \in 1..3 :
          noteDisk' = [l \in NoteKeys |->
                         IF noteHeld[w][l] # NoNote /\ Collectable(noteHeld[w][l], failures, reads)
                           THEN NoNote ELSE noteHeld[w][l]]
    BY <1>1 DEF GarbageCollect, NoteSaves
  <2>3. Collectable(noteHeld[w][k], failures, reads)
    BY <1>1, <2>2
  <2>4. noteHeld[w][k].failed >= 1 /\ noteHeld[w][k].failed \in Nat
    BY <1>1, <2>1, <2>3, NoteFields DEF Collectable, Judged, NoteFiles
  <2>5. noteHeld[w][k].failed <= noteJudged[k] /\ noteJudged[k] \in Nat
    BY <1>1, <2>1 DEF Judged, FailuresWereJudged
  <2> QED BY <2>4, <2>5
<1>2. NotesInv /\ [NotesNext]_noteVars =>
        [\A w \in Worktrees :
           GarbageCollect(w) =>
             \A k \in NoteKeys :
               noteHeld[w][k] # NoNote /\ noteDisk'[k] = NoNote => noteJudged[k] > 0]_noteVars
  BY <1>1
<1> QED BY <1>2, NotesInvariant, PTL DEF NotesSpec, GcNeedsJudgement

LEMMA ServedStand ==
    ASSUME NotesInv, NEW w \in Worktrees, NEW k \in NoteKeys,
           SearchNotes(w) \/ ReadNote(w) \/ ListNotes(w), noteDisk'[k].status = "fresh"
    PROVE  Truthful(w, noteDisk'[k])
<1>1. NoteRepo(w) /\ Judged(noteHeld[w], noteJudged)
  BY HeldJudged, BusyOperates DEF NoteOperation
<1>2. PICK file : /\ file = ReconciledFile(w, {}, noteHeld[w]) /\ file \in NoteFiles
                  /\ FileMade(w, {}, noteHeld[w], file)
  BY <1>1, FileReconciled DEF Judged
<1> DEFINE Counted == file[k] # NoNote /\ noteDisk'[k] = Retrieved(file[k])
<1>3. ASSUME NEW f, NoteSaves(w, f, noteJudged) PROVE noteDisk' = f
  BY <1>3 DEF NoteSaves
<1>4. noteDisk'[k] = file[k] \/ Counted
  <2>1. CASE SearchNotes(w)
    <3>1. PICK hits :
            /\ \A l \in NoteKeys : l \in hits => file[l].status \in {"fresh", "stale"}
            /\ NoteSaves(w, [l \in NoteKeys |-> IF l \in hits THEN Retrieved(file[l])
                                                             ELSE file[l]], noteJudged)
      BY <1>2, <2>1 DEF SearchNotes
    <3>2. noteDisk' = [l \in NoteKeys |-> IF l \in hits THEN Retrieved(file[l]) ELSE file[l]]
      BY <3>1, <1>3
    <3> QED BY <3>1, <3>2 DEF NoNote
  <2>2. CASE ReadNote(w)
    <3>1. PICK l \in NoteKeys :
            IF file[l].status \in {"fresh", "stale"}
              THEN NoteSaves(w, [file EXCEPT ![l] = Retrieved(@)], noteJudged)
              ELSE NoteSaves(w, file, noteJudged)
      BY <1>2, <2>2 DEF ReadNote
    <3>2. CASE file[l].status \in {"fresh", "stale"}
      <4>1. noteDisk' = [file EXCEPT ![l] = Retrieved(file[l])]
        BY <3>1, <3>2, <1>3
      <4> QED BY <1>2, <3>2, <4>1 DEF NoNote, NoteFiles
    <3>3. CASE file[l].status \notin {"fresh", "stale"}
      BY <3>1, <3>3, <1>3
    <3> QED BY <3>2, <3>3
  <2>3. CASE ListNotes(w)
    BY <1>3, <1>2, <2>3 DEF ListNotes
  <2> QED BY <2>1, <2>2, <2>3
<1>5. file[k] \in NoteRecs
  BY <1>2, <1>4 DEF NoNote, NoteFiles
<1>6. file[k].status = "fresh" /\ noteDisk'[k].anchors = file[k].anchors
  BY <1>4, <1>5, RetrievedTyped
<1>7. \A i \in DOMAIN file[k].anchors : Stands(w, file[k].anchors[i])
  BY <1>2, <1>5, <1>6, NoteFields DEF FileMade
<1> QED BY <1>6, <1>7 DEF Truthful, Stands

\* What a server serves as fresh is, in its worktree, what it was when the note was
\* last approved, or is absent on another branch (memory_search, _read, _list).
THEOREM ServedFreshIsTrue == NotesSpec => FreshIsTrue
<1>1. NotesInv /\ [NotesNext]_noteVars =>
        [\A w \in Worktrees, k \in NoteKeys :
           /\ notePc[w] = "busy" /\ notePc'[w] = "up"
           /\ noteDisk'[k].status = "fresh" /\ ~Truthful(w, noteDisk'[k])
           => ~SearchNotes(w) /\ ~ReadNote(w) /\ ~ListNotes(w)]_noteVars
  BY ServedStand
<1> QED BY <1>1, NotesInvariant, PTL DEF NotesSpec, FreshIsTrue

\* The step buries a note that was active, without judging any.
Buries(k) ==
    /\ noteJudged' = noteJudged
    /\ noteDisk[k].status \in {"fresh", "stale"} /\ noteDisk'[k].status = "tombstoned"

LEMMA ReconcilingBuriesLost ==
    ASSUME NotesInv, NEW w \in Worktrees, NEW k \in NoteKeys, Buries(k),
           SearchNotes(w) \/ ReadNote(w) \/ ListNotes(w) \/ ReconcileChanged(w)
    PROVE  /\ noteDisk'[k].anchors # <<>>
           /\ \A i \in DOMAIN noteDisk'[k].anchors : Lost(w, noteDisk'[k].anchors[i])
<1>1. NoteRepo(w) /\ Judged(noteHeld[w], noteJudged) /\ noteHeld[w] = noteDisk
  BY HeldJudged, BusyOperates DEF NoteOperation
<1>2. noteDisk[k] \in NoteRecs /\ noteDisk[k].status # "tombstoned"
  BY <1>1 DEF Judged, NoteFiles, NoNote, Buries
<1>3. ASSUME NEW f, NoteSaves(w, f, noteJudged) PROVE noteDisk' = f
  BY <1>3 DEF NoteSaves
<1>4. \E paths, file : /\ file \in NoteFiles /\ FileMade(w, paths, noteDisk, file)
                       /\ \/ noteDisk'[k] = file[k]
                          \/ file[k] # NoNote /\ noteDisk'[k] = Retrieved(file[k])
  <2>1. \A paths : LET file == ReconciledFile(w, paths, noteHeld[w])
                   IN  file \in NoteFiles /\ FileMade(w, paths, noteDisk, file)
    BY <1>1, FileReconciled DEF Judged
  <2>2. PICK file : /\ file = ReconciledFile(w, {}, noteHeld[w]) /\ file \in NoteFiles
                    /\ FileMade(w, {}, noteDisk, file)
    BY <2>1
  <2> DEFINE Made(f) == \/ noteDisk'[k] = f[k]
                        \/ f[k] # NoNote /\ noteDisk'[k] = Retrieved(f[k])
  <2>3. CASE SearchNotes(w)
    <3>1. PICK hits :
            /\ \A l \in NoteKeys : l \in hits => file[l].status \in {"fresh", "stale"}
            /\ NoteSaves(w, [l \in NoteKeys |-> IF l \in hits THEN Retrieved(file[l])
                                                             ELSE file[l]], noteJudged)
      BY <2>2, <2>3 DEF SearchNotes
    <3>2. noteDisk' = [l \in NoteKeys |-> IF l \in hits THEN Retrieved(file[l]) ELSE file[l]]
      BY <3>1, <1>3
    <3>3. Made(file)
      BY <3>1, <3>2 DEF NoNote
    <3> QED BY <2>2, <3>3
  <2>4. CASE ReadNote(w)
    <3>1. PICK l \in NoteKeys :
            IF file[l].status \in {"fresh", "stale"}
              THEN NoteSaves(w, [file EXCEPT ![l] = Retrieved(@)], noteJudged)
              ELSE NoteSaves(w, file, noteJudged)
      BY <2>2, <2>4 DEF ReadNote
    <3>2. CASE file[l].status \in {"fresh", "stale"}
      <4>1. noteDisk' = [file EXCEPT ![l] = Retrieved(file[l])]
        BY <3>1, <3>2, <1>3
      <4>2. Made(file)
        BY <2>2, <3>2, <4>1 DEF NoNote, NoteFiles
      <4> QED BY <2>2, <4>2
    <3>3. CASE file[l].status \notin {"fresh", "stale"}
      BY <2>2, <3>1, <3>3, <1>3
    <3> QED BY <3>2, <3>3
  <2>5. CASE ListNotes(w)
    BY <2>2, <1>3, <2>5 DEF ListNotes
  <2>6. CASE ReconcileChanged(w)
    <3>1. PICK paths : NoteSaves(w, ReconciledFile(w, paths, noteHeld[w]), noteJudged)
      BY <2>6 DEF ReconcileChanged
    <3>2. noteDisk' = ReconciledFile(w, paths, noteHeld[w])
      BY <3>1, <1>3
    <3> QED BY <2>1, <3>2
  <2> QED BY <2>3, <2>4, <2>5, <2>6
<1>5. PICK paths, file : /\ file \in NoteFiles /\ FileMade(w, paths, noteDisk, file)
                         /\ \/ noteDisk'[k] = file[k]
                            \/ file[k] # NoNote /\ noteDisk'[k] = Retrieved(file[k])
  BY <1>4
<1>6. file[k] \in NoteRecs
  BY <1>5 DEF NoNote, NoteFiles, Buries
<1>7. file[k].status = "tombstoned" /\ noteDisk'[k].anchors = file[k].anchors
  BY <1>5, <1>6, RetrievedTyped DEF Buries
<1>8. /\ file[k].anchors # <<>>
      /\ \A i \in DOMAIN file[k].anchors : Lost(w, file[k].anchors[i])
  BY <1>2, <1>5, <1>7, NoteFields DEF FileMade
<1> QED BY <1>7, <1>8

LEMMA OthersBuryJudged ==
    ASSUME NotesInv, NEW w \in Worktrees, NEW k \in NoteKeys, Buries(k),
           NoteOperation(w)
    PROVE  SearchNotes(w) \/ ReadNote(w) \/ ListNotes(w) \/ ReconcileChanged(w)
<1>1. Judged(noteHeld[w], noteJudged) /\ noteHeld[w] = noteDisk
  BY HeldJudged, BusyOperates
<1>2. noteDisk \in NoteFiles /\ noteJudged \in [NoteKeys -> Nat]
  BY <1>1 DEF Judged
<1>3. noteDisk[k] \in NoteRecs /\ noteDisk[k].status \in {"fresh", "stale"}
  BY <1>2 DEF NoteFiles, NoNote, Buries
<1>4. ASSUME NEW f, NEW judged, NoteSaves(w, f, judged)
      PROVE  f[k] # noteDisk[k] /\ f[k].status = "tombstoned" /\ judged = noteJudged
  BY <1>3, <1>4 DEF NoteSaves, Buries
<1>5. ASSUME Upsert(w) PROVE FALSE
  <2>1. PICK l \in NoteKeys, anchors \in NoteAnchors :
          LET old == noteHeld[w][l]
              new == NewNote(Snapshots(w, anchors))
          IN  IF ~CanSnapshot(w, anchors)
                THEN NoteSaves(w, noteHeld[w], noteJudged)
                ELSE NoteSaves(w, [noteHeld[w] EXCEPT ![l] =
                                     IF old = NoNote THEN new
                                     ELSE [new EXCEPT !.reads = old.reads, !.read = old.read]],
                               [noteJudged EXCEPT ![l] = 0])
    BY <1>5 DEF Upsert
  <2>2. CanSnapshot(w, anchors)
    BY <2>1, <1>1, <1>4
  <2> DEFINE new == NewNote(Snapshots(w, anchors))
             n == IF noteHeld[w][l] = NoNote THEN new
                  ELSE [new EXCEPT !.reads = noteHeld[w][l].reads, !.read = noteHeld[w][l].read]
  <2>3. [noteHeld[w] EXCEPT ![l] = n][k] # noteDisk[k]
        /\ [noteHeld[w] EXCEPT ![l] = n][k].status = "tombstoned"
    <3>1. NoteSaves(w, [noteHeld[w] EXCEPT ![l] = n], [noteJudged EXCEPT ![l] = 0])
      BY <2>1, <2>2
    <3> HIDE DEF n
    <3> QED BY <3>1, <1>4
  <2>4. n.status = "fresh"
    BY DEF NewNote
  <2> HIDE DEF n
  <2> QED BY <1>1, <1>2, <2>3, <2>4 DEF NoteFiles
<1>6. ASSUME Verify(w) PROVE FALSE
  <2>1. PICK l \in NoteKeys :
          LET n == noteHeld[w][l]
          IN  /\ n # NoNote
              /\ IF CanSnapshot(w, n.anchors)
                   THEN NoteSaves(w, [noteHeld[w] EXCEPT ![l] =
                                        [NewNote(Snapshots(w, n.anchors)) EXCEPT
                                           !.reads = n.reads, !.read = n.read]],
                                  [noteJudged EXCEPT ![l] = 0])
                   ELSE NoteSaves(w, noteHeld[w], noteJudged)
    BY <1>6 DEF Verify
  <2> DEFINE old == noteHeld[w][l]
             n == [NewNote(Snapshots(w, old.anchors)) EXCEPT !.reads = old.reads, !.read = old.read]
  <2>2. CanSnapshot(w, old.anchors)
    BY <2>1, <1>1, <1>4
  <2>3. [noteHeld[w] EXCEPT ![l] = n][k] # noteDisk[k]
        /\ [noteHeld[w] EXCEPT ![l] = n][k].status = "tombstoned"
    BY <2>1, <2>2, <1>4
  <2>4. n.status = "fresh"
    BY DEF NewNote
  <2> HIDE DEF n
  <2> QED BY <1>1, <1>2, <2>3, <2>4 DEF NoteFiles
<1>7. ASSUME MarkStale(w) PROVE FALSE
  <2>1. PICK l \in NoteKeys, failed \in BOOLEAN, orphaned \in BOOLEAN :
          /\ noteHeld[w][l] # NoNote
          /\ NoteSaves(w, [noteHeld[w] EXCEPT ![l] =
                 [MarkedStale(noteHeld[w][l], failed) EXCEPT
                    !.orphaned = MarkedStale(noteHeld[w][l], failed).orphaned \/ orphaned]],
               [noteJudged EXCEPT ![l] = IF failed THEN noteJudged[l] + 1 ELSE noteJudged[l]])
    BY <1>7 DEF MarkStale
  <2> DEFINE m == MarkedStale(noteHeld[w][l], failed)
             n == [m EXCEPT !.orphaned = m.orphaned \/ orphaned]
  <2>2. [noteHeld[w] EXCEPT ![l] = n][k] # noteDisk[k]
        /\ [noteHeld[w] EXCEPT ![l] = n][k].status = "tombstoned"
    BY <2>1, <1>4
  <2>3. l = k
    <3> HIDE DEF n
    <3> QED BY <1>1, <1>2, <2>2 DEF NoteFiles
  <2>4. m \in NoteRecs /\ m.status = "stale"
    BY <1>1, <1>3, <2>3, MarkedTyped
  <2> HIDE DEF m
  <2>5. n.status = m.status
    BY <2>4 DEF NoteRecs
  <2> HIDE DEF n
  <2> QED BY <1>1, <1>2, <2>2, <2>3, <2>4, <2>5 DEF NoteFiles
<1>8. ASSUME Tombstone(w) PROVE FALSE
  <2>1. PICK l \in NoteKeys :
          NoteSaves(w, [noteHeld[w] EXCEPT ![l] = Buried(MarkedStale(noteHeld[w][l], TRUE))],
                    [noteJudged EXCEPT ![l] = noteJudged[l] + 1])
    BY <1>8 DEF Tombstone
  <2>2. [noteJudged EXCEPT ![l] = noteJudged[l] + 1] = noteJudged
    BY <1>4, <2>1
  <2>3. noteJudged[l] + 1 = noteJudged[l] /\ noteJudged[l] \in Nat
    BY <1>2, <2>2
  <2> QED BY <2>3
<1>9. ASSUME GarbageCollect(w) PROVE FALSE
  <2>1. PICK f : NoteSaves(w, f, noteJudged) /\ (f[k] = NoNote \/ f[k] = noteHeld[w][k])
    BY <1>9 DEF GarbageCollect
  <2> QED BY <1>1, <1>4, <2>1 DEF NoNote
<1>10. ASSUME DeleteNote(w) PROVE FALSE
  <2>1. PICK l \in NoteKeys :
          NoteSaves(w, [noteHeld[w] EXCEPT ![l] = NoNote], [noteJudged EXCEPT ![l] = 0])
    BY <1>10 DEF DeleteNote
  <2>2. [noteHeld[w] EXCEPT ![l] = NoNote][k] # noteDisk[k]
        /\ [noteHeld[w] EXCEPT ![l] = NoNote][k].status = "tombstoned"
    BY <1>4, <2>1
  <2> QED BY <1>1, <1>2, <2>2 DEF NoNote, NoteFiles
<1>11. ASSUME ClearNotes(w) PROVE FALSE
  BY <1>4, <1>11 DEF ClearNotes, NoFile, NoNote
<1> QED BY <1>5, <1>6, <1>7, <1>8, <1>9, <1>10, <1>11 DEF NoteOperation

\* Reconciliation buries a note only when each of its anchors has lost its file or
\* its symbol on the branch it was made on (reconcileLocked).
THEOREM BuriedNotesAreLost == NotesSpec => BuriedOnlyWhenLost
<1>1. ASSUME NotesInv, NotesNext, NEW w \in Worktrees, NEW k \in NoteKeys,
             notePc[w] = "busy", notePc'[w] = "up", Buries(k)
      PROVE  /\ noteDisk'[k].anchors # <<>>
             /\ \A i \in DOMAIN noteDisk'[k].anchors : Lost(w, noteDisk'[k].anchors[i])
  <2>1. notePc \in [Worktrees -> {"off", "up", "busy", "archive"}]
    BY <1>1 DEF NotesInv, StoreTypeOK
  <2>2. ~MonthsPass /\ \A v \in ChangingTrees : ~NoteUser(v)
    BY <1>1 DEF MonthsPass, NoteUser, EditAnchored, RenameAnchored, CommitAnchored, SwitchBranch,
                NoteUntouched
  <2>3. \A v \in Worktrees : ~NoteServer(v)
    BY <1>1, <2>1 DEF NoteServer, OpenStore, MergeLegacy, ArchiveLegacy, NoteBegin, NoteCrash
  <2>4. ASSUME NEW v \in Worktrees, NoteOperation(v) PROVE v = w
    <3>1. notePc' = [notePc EXCEPT ![v] = "up"]
      BY <2>4, BusyOperates DEF NoteSaves
    <3> QED BY <1>1, <2>1, <3>1
  <2>5. NoteOperation(w)
    BY <1>1, <2>2, <2>3, <2>4 DEF NotesNext
  <2> QED BY <1>1, <2>5, OthersBuryJudged, ReconcilingBuriesLost
<1>2. NotesInv /\ [NotesNext]_noteVars =>
        [\A w \in Worktrees, k \in NoteKeys :
           /\ notePc[w] = "busy" /\ notePc'[w] = "up" /\ noteJudged' = noteJudged
           /\ noteDisk[k].status \in {"fresh", "stale"} /\ noteDisk'[k].status = "tombstoned"
           => LET anchors == noteDisk'[k].anchors
              IN  /\ anchors # <<>>
                  /\ \A i \in DOMAIN anchors :
                         /\ anchors[i].path # NoPath /\ SameLineage(w, anchors[i])
                         /\ \/ noteTree[w][anchors[i].path] = "gone"
                            \/ noteTree[w][anchors[i].path] = "bare" /\ anchors[i].symbol]_noteVars
  BY <1>1 DEF Buries, Lost
<1> QED BY <1>2, NotesInvariant, PTL DEF NotesSpec, BuriedOnlyWhenLost

=============================================================================
