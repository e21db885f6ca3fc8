----------------------------- MODULE ContextTool -----------------------------
(***************************************************************************)
(* repo_context (internal/mcp/context_tool.go): the active file, the files   *)
(* related to it and those a focus finds, packed into a budget; and the      *)
(* second call it suggests.  The index and the working tree change between   *)
(* the steps of a call.                                                     *)
(***************************************************************************)
EXTENDS OutputLimits, Lists

CONSTANTS ContextFiles,     \* the files, in path order
          ContextChunks,    \* per file its chunks in order: [start, bytes, hits]
          OutlineBytes,     \* per file the size of its outline (0: none)
          RelatedTo,        \* per file the related ones in order: [path, reasons]
          FocusFinds,       \* what a focus may find: sequences of files
          ContextLimits,    \* [files, perFile, tokens, bytes] a call may give
          MaxVanished       \* bound: files deleted

VARIABLES
    cxGone,         \* files deleted from the working tree
    cxIndexed,      \* files the index holds
    cxCall,         \* the call: [path, mode, focus, excluded, limits]
    cxStep,         \* "idle", "ensure", "pack", "answered"
    cxPaths,        \* the files chosen, in order
    cxFound,        \* what the focus found, in order
    cxAnswer,       \* the answer: [files, budget, next]
    cxFirst         \* the answer before it, when it suggested this call
cxVars == <<cxGone, cxIndexed, cxCall, cxStep, cxPaths, cxFound, cxAnswer, cxFirst>>

CtxFiles == {ContextFiles[i] : i \in DOMAIN ContextFiles}
\* No path twice, no two chunks of a file that start at the same line, and limits
\* that are positive: the tool takes its own for one that is not.
ASSUME ContextAssumption ==
    /\ ContextFiles \in Seq(CtxFiles) /\ ContextFiles # <<>>
    /\ \A i, j \in DOMAIN ContextFiles : ContextFiles[i] = ContextFiles[j] => i = j
    /\ \A p \in CtxFiles :
          /\ ContextChunks[p] \in Seq([start : Nat, bytes : Nat, hits : Nat])
          /\ \A i, j \in DOMAIN ContextChunks[p] :
                ContextChunks[p][i].start = ContextChunks[p][j].start => i = j
          /\ OutlineBytes[p] \in Nat
          /\ RelatedTo[p] \in Seq([path : CtxFiles, reasons : SUBSET STRING])
          /\ \A i \in DOMAIN RelatedTo[p] : IsFiniteSet(RelatedTo[p][i].reasons)
    /\ FocusFinds \subseteq Seq(CtxFiles)
    /\ ContextLimits # {}
    /\ ContextLimits \subseteq [files : Nat \ {0}, perFile : Nat \ {0},
                                tokens : Nat \ {0}, bytes : Nat \ {0}]
NoNext == [path |-> "none", excluded |-> {}]
NoAnswer == [files |-> <<>>, budget |-> NewBudget(0, 0), next |-> NoNext]
NoCall == [path |-> ContextFiles[1], mode |-> "full", focus |-> FALSE, excluded |-> {},
           limits |-> CHOOSE l \in ContextLimits : TRUE]

\* An intent resolves to a mode; an explicit mode wins.
Resolved(mode, intent) ==
    IF mode # "none" THEN mode ELSE IF intent = "navigate" THEN "outline" ELSE "auto"

ContextInit ==
    /\ cxGone = {} /\ cxIndexed \in {{}, CtxFiles} /\ cxCall = NoCall /\ cxStep = "idle"
    /\ cxPaths = <<>> /\ cxFound = <<>> /\ cxAnswer = NoAnswer /\ cxFirst = NoAnswer

-----------------------------------------------------------------------------
(* Choosing files                                                           *)

Unique(paths) ==
    FoldLeft(LAMBDA seen, p : IF Contains(seen, p) THEN seen ELSE Append(seen, p), <<>>, paths)
Chosen(call, found) ==
    LET related == [i \in DOMAIN RelatedTo[call.path] |-> RelatedTo[call.path][i].path]
        wanted == Within(Unique(<<call.path>> \o found \o related), CtxFiles \ call.excluded)
    IN  SubSeq(wanted, 1, Least(Len(wanted), call.limits.files))

\* A path that names no file is an error.
Asks(call) ==
    /\ call.path \notin cxGone
    /\ cxCall' = call
    /\ \E found \in FocusFinds :
        /\ ~call.focus => found = <<>>
        /\ cxFound' = Within(found, cxIndexed)
        /\ cxPaths' = Chosen(call, cxFound')
    /\ cxStep' = "ensure" /\ cxAnswer' = NoAnswer
    /\ UNCHANGED <<cxGone, cxIndexed>>
FirstCall ==
    /\ cxStep = "idle" /\ cxFirst' = NoAnswer
    /\ \E path \in CtxFiles, mode \in {"none", "full", "auto", "outline", "summary"},
          intent \in {"none", "navigate", "implement", "review"}, focus \in BOOLEAN,
          excluded \in {{}, {ContextFiles[Len(ContextFiles)]}}, limits \in ContextLimits :
        Asks([path |-> path, mode |-> Resolved(mode, intent), focus |-> focus,
              excluded |-> excluded, limits |-> limits])

\* The client follows the suggestion with the arguments it was given.
FollowUp ==
    /\ cxStep = "answered" /\ cxAnswer.next # NoNext /\ cxFirst' = cxAnswer
    /\ Asks([cxCall EXCEPT !.path = cxAnswer.next.path, !.mode = "full",
                           !.excluded = cxAnswer.next.excluded])

\* EnsureIndexed; its error is ignored.
EnsuresIndexed ==
    /\ cxStep = "ensure" /\ cxStep' = "pack"
    /\ \/ LET chosen == {cxPaths[i] : i \in DOMAIN cxPaths}
          IN  cxIndexed' = (cxIndexed \union chosen) \ (cxGone \intersect chosen)
       \/ UNCHANGED cxIndexed
    /\ UNCHANGED <<cxGone, cxCall, cxPaths, cxFound, cxAnswer, cxFirst>>

-----------------------------------------------------------------------------
(* Packing                                                                  *)

\* relationScore.
ReasonScore(reason) ==
    CASE reason \in {"go_types_refs_target", "go_types_used_by_target"} -> 6
      [] reason \in {"imports_target_package", "imported_by", "autoloaded_by"} -> 4
      [] reason \in {"imports", "imported_package", "includes", "included_by", "autoloads"} -> 3
      [] reason = "same_dir" -> 2
      [] OTHER -> 1
FocusRank(p) == IF Contains(cxFound, p) THEN CHOOSE i \in DOMAIN cxFound : cxFound[i] = p ELSE 0
RelationScore(p) ==
    LET related == RelatedTo[cxCall.path]
        listed == {i \in DOMAIN related : related[i].path = p}
    IN  (IF listed = {} THEN 0
         ELSE LET reasons == related[CHOOSE i \in listed : TRUE].reasons
              IN  SumFunction([reason \in reasons |-> ReasonScore(reason)]))
        + (IF FocusRank(p) > 0 THEN 1 ELSE 0)
ChunkScore(chunk) ==        \* chScore
    (IF cxCall.focus /\ chunk.hits > 0 THEN 10 + chunk.hits ELSE 0)
    + (IF chunk.start <= 5 THEN 1 ELSE 0)

\* The focus gives its bonus to the one chunk of a file it found: here the first
\* with most hits.
FocusChunk(p) ==
    CHOOSE i \in DOMAIN ContextChunks[p] : \A j \in DOMAIN ContextChunks[p] :
        ContextChunks[p][i].hits > ContextChunks[p][j].hits
        \/ (ContextChunks[p][i].hits = ContextChunks[p][j].hits /\ i <= j)
Candidate(p, i) ==
    LET chunk == ContextChunks[p][i]
        weight == IF p # cxCall.path THEN 1 ELSE IF cxCall.focus THEN 2 ELSE 4
        bonus == IF FocusRank(p) > 0 /\ i = FocusChunk(p) THEN Most(1, 13 - FocusRank(p)) ELSE 0
    IN  [path |-> p, start |-> chunk.start, bytes |-> chunk.bytes, score |-> ChunkScore(chunk),
         signal |-> ChunkScore(chunk) * weight + bonus
                    + (IF p = cxCall.path THEN 0 ELSE RelationScore(p))]
Place(p) == CHOOSE i \in DOMAIN ContextFiles : ContextFiles[i] = p
Before(a, b) ==
    \/ Denser(a, b)
    \/ /\ ~Denser(b, a)
       /\ Place(a.path) < Place(b.path) \/ (a.path = b.path /\ a.start < b.start)

Picked == {cxPaths[i] : i \in DOMAIN cxPaths}
Nothing == [taken |-> <<>>, budget |-> NewBudget(cxCall.limits.tokens, cxCall.limits.bytes)]
Takes(state, item) ==
    IF Affords(state.budget, item.bytes)
    THEN [taken |-> Append(state.taken, item), budget |-> Spent(state.budget, item.bytes)]
    ELSE [state EXCEPT !.budget = Spent(@, item.bytes)]
TakesChunk(state, item) ==
    IF Cardinality({i \in DOMAIN state.taken : state.taken[i].path = item.path})
        >= cxCall.limits.perFile
    THEN state ELSE Takes(state, item)
PacksItems(state, items) == FoldLeft(Takes, state, items)
PacksChunks(chunks) == FoldLeft(TakesChunk, Nothing, chunks)
Chunks(p) ==
    IF p \in cxIndexed THEN {Candidate(p, i) : i \in DOMAIN ContextChunks[p]} ELSE {}

\* "full": chunks of every file by density of signal.
BeforeIn(candidates) == {ab \in candidates \X candidates : Before(ab[1], ab[2])}
PackFull ==
    LET candidates == UNION {Chunks(p) : p \in Picked}
    IN  PacksChunks(Ranked(candidates, BeforeIn(candidates)))

\* "outline" and "summary": outlines read from the working tree, in order.
OutlineOf(p) == [path |-> p, start |-> 0, bytes |-> OutlineBytes[p]]
Outlined(paths) ==
    [i \in DOMAIN paths |-> OutlineOf(paths[i])]
HasOutline(p) == p \notin cxGone /\ OutlineBytes[p] > 0
PackOutlines == PacksItems(Nothing, Outlined(Within(cxPaths, {p \in CtxFiles : HasOutline(p)})))

\* "auto": chunks of the active file by score, outlines of the others.
Higher(a, b) == a.score > b.score \/ (a.score = b.score /\ a.start < b.start)
HigherIn(candidates) == {ab \in candidates \X candidates : Higher(ab[1], ab[2])}
PackAuto ==
    LET active == IF cxCall.path \in Picked THEN Chunks(cxCall.path) ELSE {}
        others == Within(cxPaths, {p \in CtxFiles \ {cxCall.path} : HasOutline(p)})
    IN  PacksItems(PacksChunks(Ranked(active, HigherIn(active))), Outlined(others))

FilesOf(taken) == Within(cxPaths, {taken[i].path : i \in DOMAIN taken})

\* Faulty variant: the suggestion leaves out the file just sent.
SuggestedBare(files) ==
    LET related == Within(files, CtxFiles \ {cxCall.path})
    IN  IF related = <<>> THEN NoNext
        ELSE [path |-> Head(related), excluded |-> {related[i] : i \in 2..Len(related)}]

\* suggestedRepoContextFollowUp: the first related file in full, without what
\* this answer holds; what this call was told to leave out is forgotten.
Suggested(files) ==
    LET related == Within(files, CtxFiles \ {cxCall.path})
    IN  IF related = <<>> THEN NoNext
        ELSE [path |-> Head(related),
              excluded |-> {cxCall.path} \union {related[i] : i \in 2..Len(related)}]

Answers ==
    LET packed == CASE cxCall.mode = "full" -> PackFull
                    [] cxCall.mode = "auto" -> PackAuto
                    [] OTHER -> PackOutlines
        files == FilesOf(packed.taken)
    IN  /\ cxStep = "pack" /\ cxStep' = "answered"
        /\ cxAnswer' = [files |-> files, budget |-> packed.budget,
                        next |-> IF cxCall.mode = "full" THEN NoNext ELSE Suggested(files)]
        /\ UNCHANGED <<cxGone, cxIndexed, cxCall, cxPaths, cxFound, cxFirst>>

FileVanishes(p) ==
    /\ p \notin cxGone /\ Cardinality(cxGone) < MaxVanished /\ cxGone' = cxGone \union {p}
    /\ \/ cxIndexed' = cxIndexed \ {p}
       \/ UNCHANGED cxIndexed       \* the index has not heard of it yet
    /\ UNCHANGED <<cxCall, cxStep, cxPaths, cxFound, cxAnswer, cxFirst>>

ContextNext ==
    \/ FirstCall \/ FollowUp \/ EnsuresIndexed \/ Answers
    \/ \E p \in CtxFiles : FileVanishes(p)

-----------------------------------------------------------------------------
(* Properties                                                               *)

\* A client that follows a suggestion is sent no file a second time but the one
\* it asked to read in full; and no answer is larger than its call allows.
NothingSentTwice ==
    cxStep = "answered" =>
        /\ \A i \in DOMAIN cxAnswer.files :
                Contains(cxFirst.files, cxAnswer.files[i]) => cxAnswer.files[i] = cxCall.path
        /\ cxAnswer.budget.tokens <= cxCall.limits.tokens
        /\ cxAnswer.budget.bytes <= cxCall.limits.bytes

ContextSpec == ContextInit /\ [][ContextNext]_cxVars
=============================================================================
