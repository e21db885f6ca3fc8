------------------------------- MODULE MCTools -------------------------------
(***************************************************************************)
(* Ten parts of the program that share no state in these models: the note    *)
(* store, the tools that answer from the index or the tree, the relation      *)
(* caches, chunking, and the update and setup commands.  A behaviour          *)
(* exercises one of them and leaves the others at rest: their states add up   *)
(* instead of multiplying.                                                   *)
(***************************************************************************)
EXTENDS Notes, SelfUpdate, Setup, Search, ContextTool, DiffContext, RelationCache,
        RepoTools, RelatedFiles, Chunking

VARIABLE tool
toolVars == <<tool, noteVars, upVars, stVars, srVars, cxVars, dfVars, rcVars, rtVars, rfVars, ckVars>>

\* Note anchors and worktrees; releases.
MCNoteAnchors == {<<[path |-> "a", symbol |-> TRUE], [path |-> "b", symbol |-> FALSE]>>,
                  <<[path |-> "HEAD", symbol |-> FALSE]>>}
MCHadLegacy == {<<"linked", "k">>}
Released(v, listed, reports) == [version |-> v, listed |-> listed, assets |-> TRUE,
                                 sidecar |-> "matches", reports |-> reports]
MCReleases == {Released(<<1, 9, 0>>, TRUE, <<1, 9, 0>>), Released(<<1, 10, 0>>, TRUE, <<1, 10, 0>>),
               Released(<<1, 10, 1>>, TRUE, <<1, 9, 0>>), Released(<<2, 0, 0>>, FALSE, <<2, 0, 0>>)}
MCFirstBinary == [version |-> <<1, 9, 0>>, whole |-> TRUE, reports |-> <<1, 9, 0>>]
MCNoBinary == [version |-> <<>>, whole |-> FALSE, reports |-> <<>>]

\* Setup.
MCSetupClients == <<"codex", "claude", "editor">>
MCGuides == {<<>>, <<"mine">>, <<"mine", "start", "guide", "end", "mine">>, <<"start", "mine">>,
             <<"end", "start", "end">>, <<"mine", "start", "end", "mine", "end">>}

\* Search.
W(head, stem, suffix) == [head |-> head, stem |-> stem, suffix |-> suffix]
C(content, path, declared, shapes) ==
    [content |-> content, path |-> path, declared |-> declared, shapes |-> shapes]
MCSearchFiles == <<"a", "b">>
MCChunkOf ==
    [a |-> <<C({W("hand", "handle", ""), W("boun", "bind", "")}, {W("user", "user", "")},
               {W("hand", "handle", "")}, {"backed enum"}),
             C({W("load", "load", "")}, {W("user", "user", "")}, {}, {"imports only"})>>,
     b |-> <<C({W("hand", "handle", "r")}, {W("load", "load", "er")}, {},
               {"config path", "config read"}),
             C({W("bind", "bind", "")}, {W("load", "load", "er")}, {},
               {"assignment", "config path"})>>]
MCRangeOf == [a |-> <<1, 2>>, b |-> <<1, 1>>]
MCLikely == [a |-> <<80, 20>>, b |-> <<50, 0>>]
MCSearchQueries ==
    {[terms |-> {W("hand", "handle", "s"), W("load", "load", "")},
      said |-> {"define", "config"}, defining |-> {"define", "config"}],
     [terms |-> {W("bind", "bind", "")}, said |-> {}, defining |-> {}]}
MCRelatedFiles == {<<"a", "b">>}

\* The context tools.
MCContextFiles == <<"a", "b", "c">>
Ch(start, bytes, hits) == [start |-> start, bytes |-> bytes, hits |-> hits]
MCContextChunks == [a |-> <<Ch(1, 8, 0), Ch(6, 20, 2), Ch(11, 4, 0)>>,
                    b |-> <<Ch(1, 12, 1)>>, c |-> <<Ch(1, 30, 0), Ch(9, 9, 3)>>]
MCOutlineBytes == [a |-> 6, b |-> 9, c |-> 0]
R(path, reasons) == [path |-> path, reasons |-> reasons]
MCRelatedTo == [a |-> <<R("b", {"imports"}), R("c", {"same_dir", "imported_by"})>>,
                b |-> <<R("a", {"same_dir"}), R("c", {"includes"})>>,
                c |-> <<R("a", {"go_types_refs_target"}), R("b", {})>>]
MCFocusFinds == {<<>>, <<"c", "b">>}
MCContextLimits == {[files |-> 3, perFile |-> 2, tokens |-> 12, bytes |-> 40],
                    [files |-> 2, perFile |-> 1, tokens |-> 100, bytes |-> 25]}
MCDiffPaths == <<"a", "b", "s">>
P(a, b, s) == [x \in {"a", "b", "s"} |-> CASE x = "a" -> a [] x = "b" -> b [] OTHER -> s]
MCDiffTrees == {[head |-> P(1, 0, 0), staged |-> P(0, 1, 0), work |-> P(0, 1, 0)],
                [head |-> P(1, 2, 2), staged |-> P(2, 2, 2), work |-> P(1, 0, 1)],
                [head |-> P(1, 0, 1), staged |-> P(0, 0, 1), work |-> P(2, Link, 0)]}
MCDiffRequests == {<<>>, <<"b">>, <<"b", "a">>}
MCChunksIn == <<<<6, 3>>, <<9>>>>

\* The tools that walk the tree.
MCRepoFiles == <<"a", "b">>
Line(bytes, from, to) == [bytes |-> bytes, from |-> from, to |-> to]
MCRepoTexts == {[lines |-> <<Line(3, 0, 0), Line(14, 9, 12)>>, grams |-> TRUE],
                [lines |-> <<Line(4, 0, 0)>>, grams |-> FALSE],
                [lines |-> <<Line(6, 2, 5), Line(2, 0, 0), Line(5, 0, 3)>>, grams |-> TRUE],
                [lines |-> <<Line(40, 2, 5)>>, grams |-> TRUE]}
MCGoneText == [lines |-> <<>>, grams |-> FALSE]
MCRepoGlobs == {{"a", "b"}}
MCNoteResources == <<"n1", "n2">>
MCKeyFiles == <<"b">>

MCReadRequests == {[start |-> r[1], end |-> r[2], max |-> r[3]] :
                    r \in {<<0, 2, 0>>, <<2, 0, 9>>}}

\* Related files: "lib/l.go" is imported as a package of the module, and by a path of
\* another module that begins like it.
LinkTo(how, to) == [how |-> how, to |-> to, inside |-> TRUE, hits |-> 2]
MCRelPaths == <<"a.js", "b.js", "composer.json", "lib/l.go", "lib/l_test.go", "logo.png", "main.go",
                "notes.md", "page.twig", "page.php">>
MCRelKind == [f \in ToSet(MCRelPaths) |->
    CASE f \in {"a.js", "b.js", "page.php", "composer.json"} -> "graph"
      [] f \in {"lib/l.go", "main.go"} -> "go" [] f = "lib/l_test.go" -> "gotest"
      [] f = "logo.png" -> "hidden" [] f = "notes.md" -> "other" [] OTHER -> "template"]
MCRelDir == [f \in ToSet(MCRelPaths) |-> IF f \in {"lib/l.go", "lib/l_test.go"} THEN "lib" ELSE "."]
MCRelLinks == [f \in ToSet(MCRelPaths) |->
    CASE f = "a.js" -> {LinkTo("import", "b.js")}
      [] f = "composer.json" -> {LinkTo("autoload", "page.php")}
      [] f = "lib/l.go" -> {LinkTo("package", "."), LinkTo("mention", "notes.md")}
      [] f = "main.go" -> {LinkTo("package", "lib"), LinkTo("type", "lib/l.go"),
                           [LinkTo("package", "lib") EXCEPT !.inside = FALSE]}
      [] f = "page.php" -> {LinkTo("reference", "page.twig"), LinkTo("mention", "page.twig")}
      [] OTHER -> {}]

\* Chunking: a JavaScript declaration under any three lines, and four lines of any
\* language with any declarations among them.
LinesOf(sizes, kinds) == [bytes : sizes, kind : kinds]
JsKinds == {"blank", "code", "decl", "modifier", "decorator", "nested", "slashes",
            "opens", "closes", "whole"}
MCEmptyFile == [lines |-> <<>>, language |-> "go", starts |-> {}, sameLines |-> TRUE]
MCChunkInputs ==
    {[lines |-> Append(above, [bytes |-> 2, kind |-> "decl"]), language |-> "js",
      starts |-> {}, sameLines |-> TRUE] : above \in [1..3 -> LinesOf({2}, JsKinds)]}
    \union [lines : [1..4 -> LinesOf({1, 4, 12}, {"code"}) \union LinesOf({0}, {"blank"})],
            language : {"go", "php"}, starts : SUBSET (2..4), sameLines : {TRUE}]
    \union [lines : [1..2 -> LinesOf({1, 12}, {"code"})],
            language : {"go", "text"}, starts : {{2}}, sameLines : BOOLEAN]
    \union {MCEmptyFile}

\* The parts a behaviour does not exercise start in one state; setup is tried with
\* every state of the clients or with every guide.
ToolsInit ==
    /\ tool \in {"notes", "update", "setup", "search", "context", "diff", "graphs",
                 "walks", "related", "chunking"}
    /\ NotesInit /\ RelationInit
    /\ UpdateInit /\ (tool # "update" => upSetting = "plain")
    /\ SearchInit /\ (tool # "search" => ~srSemantic)
    /\ ContextInit /\ (tool # "context" => cxIndexed = {})
    /\ DiffInit /\ (tool # "diff" => dfTree.head["b"] = 2)
    /\ RepoToolsInit /\ RelatedInit
    /\ tool # "walks" => \A f \in RepoPaths : ~rtFile[f].text.grams
    /\ \/ tool = "setup" /\ stGuide \in Guides
       \/ tool # "setup" /\ stGuide = <<>> /\ stForce = FALSE /\ stCommand = FALSE
    /\ stGuide # <<>> \/ tool # "setup" => stConfig = [c \in Selected |-> NotRegistered]
    /\ SetupInit
    /\ \/ tool = "chunking" /\ ChunkingInit
       \/ tool # "chunking" /\ ckFile = MCEmptyFile /\ ckChunks = NotChunked

ToolsNext ==
    /\ UNCHANGED tool
    /\ \/ /\ tool = "notes" /\ NotesNext
          /\ UNCHANGED <<upVars, stVars, srVars, cxVars, dfVars, rcVars, rtVars, rfVars, ckVars>>
       \/ /\ tool = "update" /\ UpdateNext
          /\ UNCHANGED <<noteVars, stVars, srVars, cxVars, dfVars, rcVars, rtVars, rfVars, ckVars>>
       \/ /\ tool = "setup" /\ SetupNext
          /\ UNCHANGED <<noteVars, upVars, srVars, cxVars, dfVars, rcVars, rtVars, rfVars, ckVars>>
       \/ /\ tool = "search" /\ SearchNext
          /\ UNCHANGED <<noteVars, upVars, stVars, cxVars, dfVars, rcVars, rtVars, rfVars, ckVars>>
       \/ /\ tool = "context" /\ ContextNext
          /\ UNCHANGED <<noteVars, upVars, stVars, srVars, dfVars, rcVars, rtVars, rfVars, ckVars>>
       \/ /\ tool = "diff" /\ DiffNext
          /\ UNCHANGED <<noteVars, upVars, stVars, srVars, cxVars, rcVars, rtVars, rfVars, ckVars>>
       \/ /\ tool = "graphs" /\ RelationNext
          /\ UNCHANGED <<noteVars, upVars, stVars, srVars, cxVars, dfVars, rtVars, rfVars, ckVars>>
       \/ /\ tool = "walks" /\ RepoToolsNext
          /\ UNCHANGED <<noteVars, upVars, stVars, srVars, cxVars, dfVars, rcVars, rfVars, ckVars>>
       \/ /\ tool = "related" /\ RelatedNext
          /\ UNCHANGED <<noteVars, upVars, stVars, srVars, cxVars, dfVars, rcVars, rtVars, ckVars>>
       \/ /\ tool = "chunking" /\ ChunkingNext
          /\ UNCHANGED <<noteVars, upVars, stVars, srVars, cxVars, dfVars, rcVars, rtVars, rfVars>>
ToolsSpec == ToolsInit /\ [][ToolsNext]_toolVars
=============================================================================
