----------------------------- MODULE DiffContext -----------------------------
(***************************************************************************)
(* repo_diff_context (internal/mcp/diff_context_tool.go, diff_summary.go):   *)
(* the changed files Git reports or the client names, a bounded diff of       *)
(* them, and their chunks from the index.  Git, the working tree and the      *)
(* index change between the steps of a call.  The calls it shares with the    *)
(* index (rule reload, purge, the queue) are in Indexer.                      *)
(***************************************************************************)
EXTENDS OutputLimits, Lists

CONSTANTS DiffPaths,        \* the paths, in Git's order
          Sensitive,        \* paths never named in a diff
          NotIndexable,     \* named, but of a type that is not indexed
          GitIgnored,       \* ignored by Git unless tracked
          DiffTrees,        \* [head, staged, work] a call may start from
          DiffRequests,     \* the paths a client may give; <<>>: none
          ChunksIn,         \* per content the bytes of its chunks
          MaxDiffPaths, PerFile, DiffTokens, DiffBytes,     \* limits of a call
          MaxDiffBytes, Lookahead, OmittedBytes,            \* and of its diff
          MaxTreeEdits      \* bound: changes to the trees

VARIABLES
    dfTree,         \* contents per path: [head, staged, work]
    dfIndex,        \* content the index holds per path
    dfStep,         \* where the call is
    dfAsked,        \* the paths it was given
    dfChanges,      \* Git's changes, as read or as selected
    dfSel,          \* [paths, deleted, skipped, filtered, beyond, detected]
    dfDiff,         \* sections so far: [scope, bytes, truncated]
    dfAnswer,       \* [files, omitted, skipped]; a file: [path, content, chunks, total]
    dfSeen,         \* history: <<path, content>> seen in the tree since the call began
    dfEdits
dfVars == <<dfTree, dfIndex, dfStep, dfAsked, dfChanges, dfSel, dfDiff, dfAnswer, dfSeen, dfEdits>>
callVars == <<dfAsked, dfChanges, dfSel, dfDiff, dfAnswer>>

Absent == 0
Link == -1          \* a symbolic link or anything but a regular file
Contents == DOMAIN ChunksIn
DfPaths == ToSet(DiffPaths)
Regular(c) == c \notin {Absent, Link}
SafeForSummary(p) == p \notin Sensitive
Allowed(p) == SafeForSummary(p) /\ p \notin NotIndexable
Seen(tree) == {<<p, tree.work[p]>> : p \in DfPaths}
NoSelection == [paths |-> <<>>, deleted |-> {}, skipped |-> <<>>, filtered |-> 0,
                beyond |-> 0, detected |-> 0]
EmptyAnswer == [files |-> <<>>, omitted |-> <<>>, skipped |-> <<>>]

\* Every path has a name, and the limits of a call are positive: the tool takes its
\* own for one that is not.
ASSUME DiffAssumption ==
    /\ DiffPaths \in Seq(DfPaths) /\ "" \notin DfPaths
    /\ ChunksIn \in Seq(Seq(Nat))
    /\ DiffTrees \subseteq [head : [DfPaths -> Contents \union {Absent}],
                            staged : [DfPaths -> Contents \union {Absent}],
                            work : [DfPaths -> Contents \union {Absent, Link}]]
    /\ DiffRequests \subseteq Seq(DfPaths)
    /\ MaxDiffPaths \in Nat /\ PerFile \in Nat
    /\ DiffTokens \in Nat \ {0} /\ DiffBytes \in Nat \ {0}
    /\ MaxDiffBytes \in Nat /\ OmittedBytes \in Nat

DiffInit ==
    /\ dfTree \in DiffTrees /\ dfIndex = dfTree.head /\ dfSeen = {} /\ dfEdits = 0
    /\ dfStep = "idle" /\ dfAsked = <<>> /\ dfChanges = <<>> /\ dfSel = NoSelection
    /\ dfDiff = <<>> /\ dfAnswer = EmptyAnswer

-----------------------------------------------------------------------------
(* git status --porcelain --renames                                         *)

RenamedFrom(p) ==
    {q \in DfPaths : /\ dfTree.head[p] = Absent /\ dfTree.staged[p] # Absent
                     /\ dfTree.head[q] = dfTree.staged[p] /\ dfTree.staged[q] = Absent}
Source(p) == IF RenamedFrom(p) = {} THEN "" ELSE CHOOSE q \in RenamedFrom(p) : TRUE
Change(p, from, x, y) ==        \* parsePorcelainV1Z
    [path |-> p, from |-> from,
     staged |-> x \notin {" ", "?"}, unstaged |-> y \notin {" ", "?"},
     untracked |-> x = "?", deleted |-> "D" \in {x, y}]
Staged(p) ==
    IF Source(p) # "" THEN "R"
    ELSE IF dfTree.staged[p] = dfTree.head[p] \/ \E q \in DfPaths : Source(q) = p THEN " "
    ELSE IF dfTree.head[p] = Absent THEN "A"
    ELSE IF dfTree.staged[p] = Absent THEN "D"
    ELSE "M"
Unstaged(p) ==
    IF dfTree.staged[p] \in {Absent, dfTree.work[p]} THEN " "
    ELSE IF dfTree.work[p] = Absent THEN "D"
    ELSE IF dfTree.work[p] = Link THEN "T"
    ELSE "M"
Untracked(p) ==
    dfTree.staged[p] = Absent /\ dfTree.work[p] # Absent /\ p \notin GitIgnored
ChangesAt(p) ==
    (IF Untracked(p) THEN <<Change(p, "", "?", "?")>> ELSE <<>>)
    \o (IF Staged(p) = " " /\ Unstaged(p) = " " THEN <<>>
        ELSE <<Change(p, Source(p), Staged(p), Unstaged(p))>>)
AndChangesAt(all, p) == all \o ChangesAt(p)
ChangesAmong(paths) == FoldLeft(AndChangesAt, <<>>, paths)
WorktreeChanges == ChangesAmong(DiffPaths)

SafeChange(c) == SafeForSummary(c.path) /\ (c.from = "" \/ SafeForSummary(c.from))
Removed(paths) == [p \in DfPaths |-> IF p \in paths THEN Absent ELSE dfIndex[p]]

-----------------------------------------------------------------------------
(* Which paths                                                              *)

\* The rules are read again and what they exclude leaves the index.
CallBegins ==
    /\ dfStep \in {"idle", "answered", "failed"}
    /\ \E asked \in DiffRequests :
        /\ dfAsked' = asked
        /\ dfStep' = IF asked = <<>> THEN "detect" ELSE "validate"
    /\ dfIndex' = Removed({p \in DfPaths : ~Allowed(p)})
    /\ dfChanges' = <<>> /\ dfSel' = NoSelection /\ dfDiff' = <<>> /\ dfAnswer' = EmptyAnswer
    /\ dfSeen' = Seen(dfTree)
    /\ UNCHANGED <<dfTree, dfEdits>>

\* Given paths must be regular files Git does not ignore: what is refused is
\* dropped from the index, and the call fails.
ExplicitValidates ==
    /\ dfStep = "validate"
    /\ LET rejected == {p \in ToSet(dfAsked) : ~Regular(dfTree.work[p])}
           ignored == {p \in ToSet(dfAsked) \ rejected :
                        p \in GitIgnored /\ dfTree.staged[p] = Absent}
       IN  /\ dfIndex' = Removed(rejected \union ignored)
           /\ dfStep' = IF rejected \union ignored = {} THEN "changes" ELSE "failed"
    /\ UNCHANGED <<dfTree, dfEdits, dfSeen, callVars>>

\* Faulty variant: a file moved away stays in the index.
NoSources(changes) == {}

\* The old names of renamed files.
RenameSources(changes) == {c.from : c \in ToSet(changes)} \ {""}

\* explicitDiffContextChanges: the changes to or from a given path.
ExplicitChanges ==
    /\ dfStep = "changes" /\ dfStep' = "ensure"
    /\ LET asked == ToSet(dfAsked)
           changes == WorktreeChanges
           touching == Within(changes, {c \in ToSet(changes) : {c.path, c.from} \intersect asked # {}})
       IN  /\ dfChanges' = Within(touching, {c \in ToSet(touching) : SafeChange(c)})
           /\ dfSel' = [NoSelection EXCEPT !.paths = dfAsked,
                                           !.filtered = Len(touching) - Len(dfChanges')]
           /\ dfIndex' = Removed(RenameSources(dfChanges'))
    /\ UNCHANGED <<dfTree, dfEdits, dfSeen, dfAsked, dfDiff, dfAnswer>>

AutoDetects ==
    /\ dfStep = "detect" /\ dfChanges' = WorktreeChanges
    /\ dfSel' = [NoSelection EXCEPT !.detected = Len(dfChanges')]
    /\ dfStep' = IF dfChanges' = <<>> THEN "ensure" ELSE "classify"
    /\ UNCHANGED <<dfTree, dfIndex, dfEdits, dfSeen, dfAsked, dfDiff, dfAnswer>>

\* Unsafe changes are counted, what is no regular file is skipped, and both
\* leave the index with what was deleted or moved away; the rest is capped.
Deletion(c) == dfTree.work[c.path] = Absent /\ c.deleted
DiffCandidate(c) == Regular(dfTree.work[c.path]) \/ Deletion(c)
AutoClassifies ==
    /\ dfStep = "classify" /\ dfStep' = "choose"
    /\ LET changes == ToSet(dfChanges)
           safe == {c \in changes : SafeChange(c)}
           candidate == {c \in safe : DiffCandidate(c)}
           candidates == Within(dfChanges, candidate)
           skipped == Within(dfChanges, safe \ candidate)
           taken == Least(Len(candidates), MaxDiffPaths)
           stale == {c.path : c \in (changes \ candidate)
                                     \union {d \in changes : dfTree.work[d.path] = Absent}}
       IN  /\ dfIndex' = Removed(stale \union RenameSources(dfChanges))
           /\ dfChanges' = SubSeq(candidates, 1, taken)
           /\ dfSel' = [dfSel EXCEPT
                !.skipped = [i \in DOMAIN skipped |-> skipped[i].path],
                !.filtered = Len(Within(dfChanges, changes \ safe)),
                !.beyond = Len(candidates) - taken]
    /\ UNCHANGED <<dfTree, dfEdits, dfSeen, dfAsked, dfDiff, dfAnswer>>

\* Every change is looked at again: the tree may have moved on.
Choose(sel, c) ==
    IF dfTree.work[c.path] = Absent THEN [sel EXCEPT !.deleted = @ \union {c.path}]
    ELSE IF dfTree.work[c.path] = Link THEN [sel EXCEPT !.skipped = Append(@, c.path)]
    ELSE IF ~Allowed(c.path) \/ Contains(sel.paths, c.path) THEN sel
    ELSE [sel EXCEPT !.paths = Append(@, c.path)]
ChoosesAll(sel, changes) == FoldLeft(Choose, sel, changes)
AutoChooses ==
    /\ dfStep = "choose" /\ dfStep' = "ensure"
    /\ dfSel' = ChoosesAll(dfSel, dfChanges)
    /\ UNCHANGED <<dfTree, dfIndex, dfEdits, dfSeen, dfAsked, dfChanges, dfDiff, dfAnswer>>

\* EnsureIndexed: a path that is no regular file is evicted.
IndexReads(paths) ==
    dfIndex' = [p \in DfPaths |->
        IF p \notin paths THEN dfIndex[p]
        ELSE IF Allowed(p) /\ Regular(dfTree.work[p]) THEN dfTree.work[p] ELSE Absent]
CallEnsures ==
    /\ dfStep = "ensure" /\ dfStep' = "staged"
    /\ IndexReads(ToSet(dfSel.paths))
    /\ UNCHANGED <<dfTree, dfEdits, dfSeen, callVars>>

-----------------------------------------------------------------------------
(* The diff                                                                 *)

\* diffSummaryPaths: both names of a renamed file.
PathsOf(scope) ==
    LET named(c) == {c.path, c.from} \ {""}
    IN  IF scope = "untracked"
        THEN {c.path : c \in {d \in ToSet(dfChanges) : d.untracked}}
        ELSE UNION {named(c) : c \in {d \in ToSet(dfChanges) :
                        IF scope = "staged" THEN d.staged ELSE d.unstaged}}
BytesOf(c) == IF Regular(c) THEN SumFunction(ChunksIn[c]) ELSE 0
DiffBetween(old, new) == IF old = new THEN 0 ELSE BytesOf(old) + BytesOf(new)
RawBytes(scope) ==
    LET size(p) == CASE scope = "staged" -> DiffBetween(dfTree.head[p], dfTree.staged[p])
                     [] scope = "unstaged" -> IF dfTree.staged[p] = Absent THEN 0
                                              ELSE DiffBetween(dfTree.staged[p], dfTree.work[p])
                     [] OTHER -> BytesOf(dfTree.work[p])
    IN  SumFunction([p \in PathsOf(scope) |-> size(p)])
UsedBytes == SumFunction([i \in DOMAIN dfDiff |-> dfDiff[i].bytes])

\* One section per scope: more than can be redacted safely is left out whole,
\* the rest is cut to the bytes that are left.
CallDiffs(scope, next) ==
    /\ dfStep = scope /\ dfStep' = next
    /\ LET raw == RawBytes(scope)
           cut == raw > MaxDiffBytes + Lookahead
           clean == IF cut THEN OmittedBytes ELSE raw
           room == Most(0, MaxDiffBytes - UsedBytes)
           text == IF room = 0 THEN 0 ELSE TruncatedSize(clean, 0..clean, room)
       IN  dfDiff' = IF raw = 0 THEN dfDiff
                     ELSE Append(dfDiff, [scope |-> scope, bytes |-> text,
                                          truncated |-> cut \/ clean > room])
    /\ UNCHANGED <<dfTree, dfIndex, dfEdits, dfSeen, dfAsked, dfChanges, dfSel, dfAnswer>>

-----------------------------------------------------------------------------
(* The chunks                                                               *)

TakesOne(state, bytes) ==
    IF Affords(state.budget, bytes)
    THEN [budget |-> Spent(state.budget, bytes), n |-> state.n + 1]
    ELSE [state EXCEPT !.budget = Spent(@, bytes)]
TakesEach(state, chunks) == FoldLeft(TakesOne, state, chunks)
PacksPath(state, p) ==
    IF dfIndex[p] = Absent
    THEN [state EXCEPT !.answer.skipped = Append(@, p)]
    ELSE LET chunks == ChunksIn[dfIndex[p]]
             packed == TakesEach([budget |-> state.budget, n |-> 0],
                                 SubSeq(chunks, 1, Least(Len(chunks), PerFile)))
         IN  [budget |-> packed.budget,
              answer |-> IF packed.n = 0
                THEN [state.answer EXCEPT !.omitted = Append(@, p)]
                ELSE [state.answer EXCEPT !.files = Append(@,
                        [path |-> p, content |-> dfIndex[p], chunks |-> packed.n,
                         total |-> Len(chunks)])]]
PacksEach(state, paths) == FoldLeft(PacksPath, state, paths)
CallPacks ==
    /\ dfStep = "pack" /\ dfStep' = "answered"
    /\ dfAnswer' = PacksEach([budget |-> NewBudget(DiffTokens, DiffBytes),
                              answer |-> [EmptyAnswer EXCEPT !.skipped = dfSel.skipped]],
                             dfSel.paths).answer
    /\ UNCHANGED <<dfTree, dfIndex, dfEdits, dfSeen, dfAsked, dfChanges, dfSel, dfDiff>>

\* A cancelled context or a failing Git ends the call.
CallFails ==
    /\ dfStep \notin {"idle", "answered", "failed"} /\ dfStep' = "failed"
    /\ UNCHANGED <<dfTree, dfIndex, dfEdits, dfSeen, callVars>>

-----------------------------------------------------------------------------
(* Everything else                                                          *)

TreeBecomes(tree) ==
    /\ dfEdits < MaxTreeEdits /\ dfEdits' = dfEdits + 1
    /\ dfTree' = tree /\ tree # dfTree /\ dfSeen' = dfSeen \union Seen(tree)
    /\ UNCHANGED <<dfIndex, dfStep, callVars>>
UserEdits(p) == \E c \in Contents \union {Absent, Link} :
    TreeBecomes([dfTree EXCEPT !.work[p] = c])
UserStages(p) == dfTree.work[p] # Link /\ TreeBecomes([dfTree EXCEPT !.staged[p] = dfTree.work[p]])
UserCommits == TreeBecomes([dfTree EXCEPT !.head = dfTree.staged])
IndexFollows(p) ==
    /\ IndexReads({p}) /\ dfIndex' # dfIndex
    /\ UNCHANGED <<dfTree, dfStep, dfEdits, dfSeen, callVars>>

DiffNext ==
    \/ CallBegins \/ ExplicitValidates \/ ExplicitChanges
    \/ AutoDetects \/ AutoClassifies \/ AutoChooses \/ CallEnsures
    \/ CallDiffs("staged", "unstaged") \/ CallDiffs("unstaged", "untracked")
    \/ CallDiffs("untracked", "pack") \/ CallPacks \/ CallFails \/ UserCommits
    \/ \E p \in DfPaths : UserEdits(p) \/ UserStages(p) \/ IndexFollows(p)
DiffSpec == DiffInit /\ [][DiffNext]_dfVars

-----------------------------------------------------------------------------
(* Properties                                                               *)

\* Nothing an answer serves was gone before the call: every chunk is of a content
\* its file had since the call began, and what it reports as deleted or moved
\* away is not left in the index.  Every path chosen is served, omitted or
\* skipped, once, every change Git reported is named or counted, and the diff
\* keeps to its size.
Named == [i \in DOMAIN dfAnswer.files |-> dfAnswer.files[i].path]
         \o dfAnswer.omitted \o SubSeq(dfAnswer.skipped, Len(dfSel.skipped) + 1,
                                       Len(dfAnswer.skipped))
DiffIsCurrent ==
    dfStep = "answered" =>
        /\ \A i \in DOMAIN dfAnswer.files :
                <<dfAnswer.files[i].path, dfAnswer.files[i].content>> \in dfSeen
        /\ \A p \in dfSel.deleted \union ({c.from : c \in ToSet(dfChanges)} \ {""}) :
                dfIndex[p] # Absent => \E c \in Contents : <<p, c>> \in dfSeen
        /\ ToSet(Named) = ToSet(dfSel.paths) /\ Len(Named) = Len(dfSel.paths)
        /\ dfAsked = <<>> => dfSel.detected <= Len(dfChanges) + dfSel.filtered + dfSel.beyond
                                                + Len(dfSel.skipped)
        /\ UsedBytes <= MaxDiffBytes
=============================================================================
