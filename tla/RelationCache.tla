---------------------------- MODULE RelationCache ----------------------------
(***************************************************************************)
(* The cached relation graphs behind repo_related_files and ranking           *)
(* (internal/mcp/php_semantic.go, go_semantic.go, js_semantic.go,             *)
(* py_semantic.go), and their invalidation by the change monitor's OnChange   *)
(* (server.go) and by the index.  A graph is the version of the tree it was   *)
(* built from.  PHP puts an entry in the cache before it builds, and later    *)
(* callers wait for it; the others look, build and store.                    *)
(***************************************************************************)
EXTENDS Naturals, FiniteSets

CONSTANTS GraphCallers,         \* tool calls
          GraphLanguages,       \* a subset of {"php", "go", "js", "py"}
          MaxTreeVersion,       \* bound: changes of the files of a language
          MaxGraphCalls         \* bound: calls

VARIABLES
    rcTree,         \* rcTree[l]: version of the files of language l
    rcToldOf,       \* rcToldOf[l]: the version OnChange was last called for
    rcCache,        \* rcCache[l]: what the cache holds: an entry, a graph, or NoGraph
    rcEntries,      \* rcEntries[e]: a PHP entry: "building", "failed", or its graph
    rcCall,         \* rcCall[c]: a call, or the goroutine that warms the Go cache
    rcCalls
rcVars == <<rcTree, rcToldOf, rcCache, rcEntries, rcCall, rcCalls>>

NoGraph == 0
Building == 0
Failed == 99
Warmer == "warm"
ASSUME RelationAssumption ==
    /\ Warmer \notin GraphCallers /\ GraphLanguages \subseteq {"php", "go", "js", "py"}
    /\ MaxGraphCalls \in Nat /\ MaxTreeVersion \in 1..(Failed - 1)
GraphUsers == GraphCallers \union {Warmer}
\* at: the version callers had been told of when it began; entry: of the PHP
\* cache; got: the graph, while it builds the version its walk began at.
NoGraphCall == [pc |-> "idle", lang |-> "none", at |-> 0, entry |-> 0, got |-> 0]

RelationInit ==
    /\ rcTree = [l \in GraphLanguages |-> 1] /\ rcToldOf = rcTree
    /\ rcCache = [l \in GraphLanguages |-> NoGraph]
    /\ rcEntries = [e \in 1..MaxGraphCalls |-> Building]
    /\ rcCall = [c \in GraphUsers |-> NoGraphCall] /\ rcCalls = 0

-----------------------------------------------------------------------------
(* Getting a graph                                                          *)

\* LoadOrStore: the call that stores its entry builds; the others wait for it.
PhpGets(c, fresh) ==
    LET held == rcCache["php"]
    IN  IF held = NoGraph
        THEN /\ rcCache' = [rcCache EXCEPT !["php"] = fresh]
             /\ rcCall' = [rcCall EXCEPT ![c] = [pc |-> "build", lang |-> "php",
                             at |-> rcToldOf["php"], entry |-> fresh, got |-> rcTree["php"]]]
        ELSE /\ rcCall' = [rcCall EXCEPT ![c] = [pc |-> "wait", lang |-> "php",
                             at |-> rcToldOf["php"], entry |-> held, got |-> 0]]
             /\ UNCHANGED rcCache
OtherGets(c, l) ==
    /\ rcCall' = [rcCall EXCEPT ![c] =
            [pc |-> IF rcCache[l] = NoGraph THEN "build" ELSE "done", lang |-> l,
             at |-> rcToldOf[l], entry |-> 0,
             got |-> IF rcCache[l] = NoGraph THEN rcTree[l] ELSE rcCache[l]]]
    /\ UNCHANGED rcCache
GraphAsked(c, l) ==
    /\ c # Warmer /\ rcCall[c].pc \in {"idle", "done"} /\ rcCalls < MaxGraphCalls
    /\ rcCalls' = rcCalls + 1
    /\ IF l = "php" THEN PhpGets(c, rcCalls') ELSE OtherGets(c, l)
    /\ UNCHANGED <<rcTree, rcToldOf, rcEntries>>

\* The walk reads each file at some moment between its start and its end.
GraphBuilt(c) ==
    /\ rcCall[c].pc = "build"
    /\ \E v \in rcCall[c].got..rcTree[rcCall[c].lang] :
          rcCall' = [rcCall EXCEPT ![c].pc = "store", ![c].got = v]
    /\ UNCHANGED <<rcTree, rcToldOf, rcCache, rcEntries, rcCalls>>

\* Faulty variant: the entry is put back when its graph is done.
PhpStoresLate(c) ==
    /\ rcEntries' = [rcEntries EXCEPT ![rcCall[c].entry] = rcCall[c].got]
    /\ rcCache' = [rcCache EXCEPT !["php"] = rcCall[c].entry]

\* The graph goes into the entry, wherever the cache is by now.
PhpStores(c) ==
    /\ rcEntries' = [rcEntries EXCEPT ![rcCall[c].entry] = rcCall[c].got]
    /\ UNCHANGED rcCache
OtherStores(c) ==
    /\ rcCache' = [rcCache EXCEPT ![rcCall[c].lang] = rcCall[c].got]
    /\ UNCHANGED rcEntries
GraphStored(c) ==
    /\ rcCall[c].pc = "store"
    /\ IF rcCall[c].lang = "php" THEN PhpStores(c) ELSE OtherStores(c)
    /\ rcCall' = [rcCall EXCEPT ![c].pc = "done"]
    /\ UNCHANGED <<rcTree, rcToldOf, rcCalls>>

\* The builder's context ends: nothing is cached, and those who wait for a PHP
\* entry get its error.  Python's walk ends early and its graph, of no version of
\* the tree, is stored like any other.
GraphCancelled(c) ==
    LET call == rcCall[c]
    IN  /\ call.pc = "build"
        /\ CASE call.lang = "php" ->
                 /\ rcEntries' = [rcEntries EXCEPT ![call.entry] = Failed]
                 /\ rcCache' = IF rcCache["php"] = call.entry
                               THEN [rcCache EXCEPT !["php"] = NoGraph] ELSE rcCache
                 /\ rcCall' = [rcCall EXCEPT ![c] = NoGraphCall]
             [] call.lang = "py" ->
                 /\ rcCall' = [rcCall EXCEPT ![c].pc = "store", ![c].got = Failed]
                 /\ UNCHANGED <<rcEntries, rcCache>>
             [] OTHER ->
                 /\ rcCall' = [rcCall EXCEPT ![c] = NoGraphCall]
                 /\ UNCHANGED <<rcEntries, rcCache>>
    /\ UNCHANGED <<rcTree, rcToldOf, rcCalls>>
GraphGiven(c) ==
    LET held == rcEntries[rcCall[c].entry]
    IN  /\ rcCall[c].pc = "wait" /\ held # Building
        /\ rcCall' = [rcCall EXCEPT ![c] = IF held = Failed THEN NoGraphCall
                        ELSE [rcCall[c] EXCEPT !.pc = "done", !.got = held]]
    /\ UNCHANGED <<rcTree, rcToldOf, rcCache, rcEntries, rcCalls>>
WaiterLeaves(c) ==      \* the context of the waiter ends
    /\ rcCall[c].pc = "wait"
    /\ rcCall' = [rcCall EXCEPT ![c] = NoGraphCall]
    /\ UNCHANGED <<rcTree, rcToldOf, rcCache, rcEntries, rcCalls>>

-----------------------------------------------------------------------------
(* Changes                                                                  *)

FilesChange(l) ==
    /\ rcTree[l] < MaxTreeVersion /\ rcTree' = [rcTree EXCEPT ![l] = @ + 1]
    /\ UNCHANGED <<rcToldOf, rcCache, rcEntries, rcCall, rcCalls>>

\* notifySemantic: the caches of PHP, Go and JS are dropped, Python's is not, and
\* a goroutine builds the Go graph again.
ChangeNoticed(l) ==
    /\ rcToldOf[l] < rcTree[l] /\ rcToldOf' = [rcToldOf EXCEPT ![l] = rcTree[l]]
    /\ rcCache' = IF l = "py" THEN rcCache ELSE [rcCache EXCEPT ![l] = NoGraph]
    /\ IF l = "go" /\ rcCall[Warmer].pc \in {"idle", "done"}
       THEN rcCall' = [rcCall EXCEPT ![Warmer] =
                [NoGraphCall EXCEPT !.pc = "build", !.lang = "go", !.at = rcTree["go"],
                                   !.got = rcTree["go"]]]
       ELSE UNCHANGED rcCall
    /\ UNCHANGED <<rcTree, rcEntries, rcCalls>>

\* The index drops the PHP graph after every pass, removal and clear.
PassInvalidates ==
    /\ "php" \in GraphLanguages /\ rcCache["php"] # NoGraph
    /\ rcCache' = [rcCache EXCEPT !["php"] = NoGraph]
    /\ UNCHANGED <<rcTree, rcToldOf, rcEntries, rcCall, rcCalls>>

RelationNext ==
    \/ \E c \in GraphUsers :
        \/ \E l \in GraphLanguages : GraphAsked(c, l)
        \/ GraphBuilt(c) \/ GraphStored(c) \/ GraphCancelled(c)
        \/ GraphGiven(c) \/ WaiterLeaves(c)
    \/ \E l \in GraphLanguages : FilesChange(l) \/ ChangeNoticed(l)
    \/ PassInvalidates
RelationSpec == RelationInit /\ [][RelationNext]_rcVars

-----------------------------------------------------------------------------
(* Properties                                                               *)

CurrentFor(l) ==
    \A c \in GraphCallers :
        rcCall[c].pc = "done" /\ rcCall[c].lang = l => rcCall[c].got \in rcCall[c].at..rcTree[l]

\* A call is never given a PHP graph older than the change the server had
\* announced when it began, nor one whose build was given up.
PhpGraphIsCurrent == "php" \in GraphLanguages => CurrentFor("php")

\* The same of the Go graph, which ADRs.md:227 asks to be invalidated on relevant
\* changes: a build that was under way stores its older graph afterwards.
GoGraphIsCurrent == "go" \in GraphLanguages => CurrentFor("go")
=============================================================================
