----------------------------- MODULE RelatedFiles -----------------------------
(***************************************************************************)
(* repo_related_files (internal/mcp/related_tools.go, go_semantic.go): the    *)
(* files of the same directory, those a file imports, those that import it,   *)
(* those it shares names with, and those that mention it, scored and cut to   *)
(* a maximum.  Directories and Go imports are read from the working tree      *)
(* during the call; the other relations are those of a cached graph, which    *)
(* may show an earlier tree (RelationCache has the caches).  A file either    *)
(* has its links ("linked") or none ("bare"), or is gone.                     *)
(***************************************************************************)
EXTENDS Lists

CONSTANTS RelPaths,         \* the files, in path order
          RelKind,          \* per file: "go", "gotest", "graph" (js, py, php),
                            \*   "template" (php's too), "hidden" or "other"
          RelDir,           \* per file its directory, "." being the root
          RelLinks,         \* per file a set of [how, to, inside, hits]
          RelIgnored,       \* files Git ignores
          RelOptions,       \* what a call may include: sets of "same", "imports",
                            \*   "importers" and "refs"
          RelMax,           \* the maxima a call may give
          MaxRelEdits       \* bound: changes of the working tree

VARIABLES
    rfTree,         \* per file "linked", "bare" or "gone"
    rfSeen,         \* the tree the cached graphs were built from
    rfStep,         \* "idle", the part that comes next, "answered"
    rfCall,         \* the call: [target, options, max]
    rfFound,        \* relatedCollector: per file its score and reasons
    rfAnswer,       \* [paths, cut]
    rfAt,           \* history: [tree, seen] when the call began, touched: the files
                    \*   that changed since
    rfEdits
rfVars == <<rfTree, rfSeen, rfStep, rfCall, rfFound, rfAnswer, rfAt, rfEdits>>
rfWorld == <<rfTree, rfSeen, rfEdits>>

RelFiles == ToSet(RelPaths)
NothingFound == [f \in RelFiles |-> [score |-> 0, reasons |-> {}]]
NoRelAnswer == [paths |-> <<>>, cut |-> FALSE]
\* One sequence without repeats; finitely many links; a positive maximum: the tool
\* takes its own for one that is not.
ASSUME RelatedAssumption ==
    /\ RelPaths \in Seq(RelFiles) /\ RelPaths # <<>>
    /\ \A i, j \in DOMAIN RelPaths : RelPaths[i] = RelPaths[j] => i = j
    /\ \A f \in RelFiles : IsFiniteSet(RelLinks[f]) /\ \A l \in RelLinks[f] : l.hits \in Nat
    /\ RelMax \subseteq Nat \ {0}
There(tree, f) == tree[f] # "gone" /\ f \notin RelIgnored
LinksIn(tree, f) == IF tree[f] = "linked" THEN RelLinks[f] ELSE {}

\* Imports, autoloads and references resolve to files that are there; the types are
\* those of every file the Go tool loads.
GraphEdges ==
    UNION {{[how |-> l.how, from |-> f, to |-> l.to, hits |-> l.hits] :
              l \in {l \in RelLinks[f] : l.how \notin {"package", "mention"}}} : f \in RelFiles}
Edges(tree) ==
    {e \in GraphEdges : /\ tree[e.from] = "linked" /\ tree[e.to] # "gone"
                        /\ e.how = "type" \/ e.from \notin RelIgnored}

RelatedInit ==
    /\ rfTree = [f \in RelFiles |-> "linked"] /\ rfSeen = rfTree
    /\ rfStep = "idle" /\ rfFound = NothingFound /\ rfAnswer = NoRelAnswer
    /\ rfCall = [target |-> RelPaths[1], options |-> {}, max |-> 0]
    /\ rfAt = [tree |-> rfTree, seen |-> rfSeen, touched |-> {}] /\ rfEdits = 0

-----------------------------------------------------------------------------
(* What the parts of a call find                                            *)

RelHit(path, score, reason, by) == [path |-> path, score |-> score, reason |-> reason, by |-> by]

\* addSameDirRelated.
SameDirHits(t) ==
    {RelHit(f, IF RelKind[f] = "gotest" THEN 6 ELSE 5, "same_dir", f) :
        f \in {f \in RelFiles : /\ RelDir[f] = RelDir[t] /\ RelKind[f] # "hidden"
                                /\ There(rfTree, f)}}

\* addGoImportsRelated: every Go file of the package's directory, its tests too; an
\* import counts as one of the module if it begins with the same letters.
GoImportHits(t) ==
    {RelHit(h[2], 8, "imported_package", h[1]) :
        h \in {h \in {l \in LinksIn(rfTree, t) : l.how = "package" /\ l.to # "."} \X RelFiles :
                  /\ RelDir[h[2]] = h[1].to /\ RelKind[h[2]] \in {"go", "gotest"}
                  /\ There(rfTree, h[2])}}

\* Faulty variant: the root package is looked for under its directory's name.
GoImporterHitsBelow(t) ==
    {RelHit(f, 10, "imports_target_package", t) :
        f \in {f \in RelFiles : /\ RelKind[f] = "go" /\ There(rfTree, f) /\ RelDir[t] # "."
                                /\ \E l \in LinksIn(rfTree, f) :
                                       l.how = "package" /\ l.inside /\ l.to = RelDir[t]}}

\* addGoImportersRelated: the walk leaves tests out.
GoImporterHits(t) ==
    {RelHit(f, 10, "imports_target_package", t) :
        f \in {f \in RelFiles : /\ RelKind[f] = "go" /\ There(rfTree, f)
                                /\ \E l \in LinksIn(rfTree, f) :
                                       l.how = "package" /\ l.inside /\ l.to = RelDir[t]}}

\* addGoTypeSemanticRelated: the uses of a file that uses the target count up to
\* three, those of one it uses up to five.
GoTypeHits(t) ==
    LET AtMost(n, most) == IF n < most THEN n ELSE most
        types == {e \in Edges(rfSeen) : e.how = "type"}
    IN  {RelHit(e.from, 12 + AtMost(e.hits, 3), "go_types_refs_target", e) : e \in {e \in types : e.to = t}}
        \union
        {RelHit(e.to, 7 + AtMost(e.hits, 5), "go_types_used_by_target", e) : e \in {e \in types : e.from = t}}

\* The import graph of JavaScript, Python or PHP.
ForthReason(how) == CASE how = "import" -> "imports" [] how = "autoload" -> "autoloads"
                      [] OTHER -> "semantic_reference"
BackReason(how) == CASE how = "import" -> "imported_by" [] how = "autoload" -> "autoloaded_by"
                     [] OTHER -> "referenced_by"
Included(how, forth) ==
    (IF how = "reference" THEN "refs" ELSE IF forth THEN "imports" ELSE "importers") \in rfCall.options
EdgeScore(how, forth) == IF how = "reference" THEN 8 ELSE IF forth THEN 9 ELSE 10
GraphHits(t) ==
    LET edges == {e \in Edges(rfSeen) : e.how # "type"}
    IN  {RelHit(e.to, EdgeScore(e.how, TRUE), ForthReason(e.how), e) :
            e \in {e \in edges : e.from = t /\ Included(e.how, TRUE)}}
        \union
        {RelHit(e.from, EdgeScore(e.how, FALSE), BackReason(e.how), e) :
            e \in {e \in edges : e.to = t /\ Included(e.how, FALSE)}}

\* addGenericMentionsRelated.
MentionHits(t) ==
    {RelHit(f, 2, "mention", t) :
        f \in {f \in RelFiles : /\ There(rfTree, f) /\ RelKind[f] # "hidden"
                                /\ \E l \in LinksIn(rfTree, f) : l.how = "mention" /\ l.to = t}}

\* relatedCollector.add: scores add up, reasons are named once.
Collected(found, hits) ==
    [f \in RelFiles |->
        LET mine == {h \in hits : h.path = f /\ f # rfCall.target}
        IN  [score |-> found[f].score + SumFunction([h \in mine |-> h.score]),
             reasons |-> found[f].reasons \union {h.reason : h \in mine}]]

-----------------------------------------------------------------------------
(* A call                                                                   *)

RelatedAsked(t, options, max) ==
    /\ rfStep \in {"idle", "answered"} /\ There(rfTree, t)
    /\ rfStep' = "same dir" /\ rfFound' = NothingFound /\ rfAnswer' = NoRelAnswer
    /\ rfCall' = [target |-> t, options |-> options, max |-> max]
    /\ rfAt' = [tree |-> rfTree, seen |-> rfSeen, touched |-> {}]
    /\ UNCHANGED rfWorld

RelatedPart(step, hits, next) ==
    /\ rfStep = step /\ rfStep' = next
    /\ rfFound' = Collected(rfFound, hits)
    /\ UNCHANGED <<rfWorld, rfCall, rfAnswer, rfAt>>

SameDirPart ==
    RelatedPart("same dir", IF "same" \in rfCall.options THEN SameDirHits(rfCall.target) ELSE {},
                IF RelKind[rfCall.target] \in {"go", "gotest"} THEN "imports"
                ELSE IF RelKind[rfCall.target] \in {"other", "hidden"} THEN "mentions" ELSE "graph")
GoImportsPart ==
    RelatedPart("imports",
                IF "imports" \in rfCall.options THEN GoImportHits(rfCall.target) ELSE {}, "importers")
GoImportersPart ==
    RelatedPart("importers",
                IF "importers" \in rfCall.options THEN GoImporterHits(rfCall.target) ELSE {}, "types")
GoTypesPart ==
    RelatedPart("types", IF "refs" \in rfCall.options THEN GoTypeHits(rfCall.target) ELSE {}, "results")
GraphPart ==
    RelatedPart("graph", GraphHits(rfCall.target),
                IF RelKind[rfCall.target] = "template" THEN "mentions" ELSE "results")
MentionsPart == RelatedPart("mentions", MentionHits(rfCall.target), "results")

\* results sorts and cuts the list; filterExistingRelated then takes out what is not
\* there.
PathPlace(f) == CHOOSE i \in DOMAIN RelPaths : RelPaths[i] = f
RelatedBefore ==
    {p \in RelFiles \X RelFiles :
        \/ rfFound[p[1]].score > rfFound[p[2]].score
        \/ rfFound[p[1]].score = rfFound[p[2]].score /\ PathPlace(p[1]) < PathPlace(p[2])}
RelatedResults ==
    LET sorted == Ranked({f \in RelFiles : rfFound[f].score > 0}, RelatedBefore)
        cut == Len(sorted) > rfCall.max
        kept == IF cut THEN SubSeq(sorted, 1, rfCall.max) ELSE sorted
    IN  /\ rfStep = "results" /\ rfStep' = "answered"
        /\ rfAnswer' = [paths |-> Within(kept, {f \in RelFiles : There(rfTree, f)}), cut |-> cut]
        /\ UNCHANGED <<rfWorld, rfCall, rfFound, rfAt>>

-----------------------------------------------------------------------------
(* The working tree, and the graphs that follow it                          *)

RelatedEdit(f, content) ==
    /\ rfEdits < MaxRelEdits /\ rfEdits' = rfEdits + 1
    /\ content # rfTree[f] /\ rfTree' = [rfTree EXCEPT ![f] = content]
    /\ rfAt' = [rfAt EXCEPT !.touched = @ \union {f}]
    /\ UNCHANGED <<rfSeen, rfStep, rfCall, rfFound, rfAnswer>>
GraphsRebuilt ==
    /\ rfSeen # rfTree /\ rfSeen' = rfTree
    /\ UNCHANGED <<rfTree, rfStep, rfCall, rfFound, rfAnswer, rfAt, rfEdits>>

RelatedNext ==
    \/ \E t \in RelFiles, options \in RelOptions, max \in RelMax : RelatedAsked(t, options, max)
    \/ SameDirPart \/ GoImportsPart \/ GoImportersPart \/ GoTypesPart \/ GraphPart \/ MentionsPart
    \/ RelatedResults \/ GraphsRebuilt
    \/ \E f \in RelFiles, content \in {"linked", "bare", "gone"} : RelatedEdit(f, content)

-----------------------------------------------------------------------------
(* Properties                                                               *)

Steady(f) == There(rfTree, f) /\ f \notin rfAt.touched
\* f has this link to t, or to t's directory, for Go's imports of its own module.
LinksTo(f, how, t) ==
    \E l \in LinksIn(rfTree, f) :
        l.how = how /\ IF how = "package" THEN l.inside /\ l.to = RelDir[t] ELSE l.to = t
\* The tree has the edge, and so had the graph when the call began.
Linked(f, hows, t) == \E e \in Edges(rfTree) \intersect Edges(rfAt.seen) :
                          e.how \in hows /\ e.from = f /\ e.to = t
IsGo(t) == RelKind[t] \in {"go", "gotest"}
InGraph(t) == RelKind[t] \in {"graph", "template"}
IsImported(f, t) ==     \* t imports f
    \/ IsGo(t) /\ RelKind[f] = "go" /\ LinksTo(t, "package", f) /\ RelDir[f] # "."
    \/ InGraph(t) /\ Linked(t, {"import", "autoload"}, f)
Imports(f, t) ==
    \/ IsGo(t) /\ RelKind[f] = "go" /\ LinksTo(f, "package", t)
    \/ InGraph(t) /\ Linked(f, {"import", "autoload"}, t)
SharesNames(f, t) ==
    \/ IsGo(t) /\ (Linked(f, {"type"}, t) \/ Linked(t, {"type"}, f))
    \/ InGraph(t) /\ (Linked(f, {"reference"}, t) \/ Linked(t, {"reference"}, f))
RelatesTo(f, t) ==
    \/ "same" \in rfCall.options /\ RelDir[f] = RelDir[t] /\ RelKind[f] # "hidden"
    \/ "imports" \in rfCall.options /\ IsImported(f, t)
    \/ "importers" \in rfCall.options /\ Imports(f, t)
    \/ "refs" \in rfCall.options /\ SharesNames(f, t)
    \/ RelKind[t] \in {"template", "other"} /\ RelKind[f] # "hidden" /\ LinksTo(f, "mention", t)

\* While the tree changes and the graphs lag behind it, a call that was not cut at
\* its maximum names every file that stood still and is related to a target that did,
\* in either direction; and a file it names was there when it began or has appeared
\* since.
RelatedIsWhole ==
    rfStep = "answered" =>
        /\ Len(rfAnswer.paths) <= rfCall.max
        /\ \A f \in ToSet(rfAnswer.paths) : rfAt.tree[f] = "gone" => f \in rfAt.touched
        /\ ~rfAnswer.cut /\ Steady(rfCall.target) =>
              \A f \in RelFiles \ {rfCall.target} :
                  Steady(f) /\ RelatesTo(f, rfCall.target) => f \in ToSet(rfAnswer.paths)

RelatedSpec == RelatedInit /\ [][RelatedNext]_rfVars
=============================================================================
