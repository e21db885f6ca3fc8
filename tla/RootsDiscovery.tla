---------------------------- MODULE RootsDiscovery ----------------------------
(***************************************************************************)
(* How a broker that was started without a root finds the workspace of its *)
(* client (ServeStdio in internal/mcp/server.go): initialize, roots/list   *)
(* requests and their answers, list_changed notifications, the tool calls  *)
(* that are held back meanwhile, and repo_switch_workspace.                *)
(*                                                                         *)
(* The server reads one message at a time.  The client is on the other end *)
(* of the pipe: it may change its workspace at any time, says so with a    *)
(* notification if it supports roots, and answers a roots/list when it     *)
(* likes.  The server waits for at most one answer, so that its requests   *)
(* are one place, not a queue.                                             *)
(***************************************************************************)
EXTENDS Naturals, Sequences

CONSTANTS Roots,
          Launch,       \* the directory the server was started in
          NoRoot,
          Snapshot,     \* whether the client answers with the root it had when it
                        \* read the request, not with the one it has by then
          MaxSent       \* bound: changes, calls and switches the client sends

ASSUME RootsAssumption ==
    /\ Launch \in Roots
    /\ NoRoot \notin Roots
    /\ Snapshot \in BOOLEAN
    /\ MaxSent \in Nat

VARIABLES
    active,     \* the client's workspace
    said,       \* what the client has said: "nothing", "initialize", "initialized"
    capable,    \* whether it declares the roots capability
    asked,      \* the roots/list it has to answer (0: none) ...
    answer,     \* ... and the root it had when it read it
    sent,
    line,       \* the messages on their way to the server
    root, source,           \* Server.root, Server.rootSource
    children,               \* the roots that have a child (Server.children)
    supports, requested,    \* stdioSession: clientSupportsRoots, rootsRequested,
    pending, nextId,        \* pendingRootsID (0: none), nextServerRequestID
    served,     \* history: the last answer to a tool call
    named,      \* history: the roots the client has named
    agreed      \* history: whether the last answer was a root that could be taken

session == <<supports, requested, pending, nextId>>
server == <<root, source, children, session, served, named, agreed>>
vars == <<active, said, capable, asked, answer, sent, line, server>>

Tools == {"memory", "other"}
NothingServed == [how |-> "none", tool |-> "other", arg |-> NoRoot, at |-> NoRoot,
                  root |-> NoRoot, source |-> "cwd", agreed |-> TRUE]

Init ==
    /\ active \in Roots /\ said = "nothing" /\ capable \in BOOLEAN
    /\ asked = 0 /\ answer = NoRoot /\ sent = 0 /\ line = <<>>
    /\ root = Launch /\ source = "cwd" /\ children = {}
    /\ supports = FALSE /\ requested = FALSE /\ pending = 0 /\ nextId = 1
    /\ served = NothingServed /\ named = {} /\ agreed = TRUE

-----------------------------------------------------------------------------
(* The client                                                               *)

Sends(msg) == line' = Append(line, msg) /\ UNCHANGED server
Counts == sent < MaxSent /\ sent' = sent + 1

SayInitialize ==
    /\ said = "nothing" /\ said' = "initialize"
    /\ Sends([kind |-> "initialize", roots |-> capable])
    /\ UNCHANGED <<active, capable, asked, answer, sent>>

SayInitialized ==
    /\ said = "initialize" /\ said' = "initialized"
    /\ Sends([kind |-> "initialized"])
    /\ UNCHANGED <<active, capable, asked, answer, sent>>

ChangeWorkspace(r) ==
    /\ r # active /\ active' = r
    /\ Counts
    /\ IF capable /\ said # "nothing" THEN Sends([kind |-> "changed"])
                                      ELSE UNCHANGED <<line, server>>
    /\ UNCHANGED <<said, capable, asked, answer>>

ReadRequest ==
    /\ asked # 0 /\ answer = NoRoot
    /\ answer' = active
    /\ UNCHANGED <<active, said, capable, asked, sent, line, server>>

\* It answers, with a root or with none (an error, or no file:// root).
AnswerRoots(refuses) ==
    /\ asked # 0 /\ answer # NoRoot
    /\ Sends([kind |-> "answer", id |-> asked,
              root |-> IF refuses THEN NoRoot ELSE IF Snapshot THEN answer ELSE active])
    /\ asked' = 0 /\ answer' = NoRoot
    /\ UNCHANGED <<active, said, capable, sent>>

CallTool(tool, arg) ==
    /\ said # "nothing" /\ Counts
    /\ Sends([kind |-> "call", tool |-> tool, arg |-> arg, at |-> active])
    /\ UNCHANGED <<active, said, capable, asked, answer>>

SwitchTo(r) ==
    /\ said # "nothing" /\ Counts
    /\ Sends([kind |-> "switch", arg |-> r])
    /\ UNCHANGED <<active, said, capable, asked, answer>>

-----------------------------------------------------------------------------
(* The server: one message.  up is the set of roots whose child comes up if *)
(* it has to be spawned (ensureChild).                                      *)

Handles(kind) ==
    /\ line # <<>> /\ Head(line).kind = kind
    /\ line' = Tail(line)
    /\ UNCHANGED <<active, said, capable, sent>>

EnsureChild(r, up) == children' = children \union ({r} \intersect up)

\* maybeRequestClientRoots
RequestRoots(force) ==
    IF supports /\ source # "manual" /\ pending = 0 /\ (force \/ ~requested)
      THEN /\ asked' = nextId /\ answer' = NoRoot
           /\ pending' = nextId /\ nextId' = nextId + 1 /\ requested' = TRUE
      ELSE UNCHANGED <<asked, answer, pending, nextId, requested>>

HandleInitialize ==
    /\ Handles("initialize")
    /\ supports' = Head(line).roots
    /\ UNCHANGED <<asked, answer, root, source, children, requested, pending, nextId,
                   served, named, agreed>>

\* A client without roots gets a child in the launch directory.
HandleInitialized(up) ==
    /\ Handles("initialized")
    /\ RequestRoots(FALSE)
    /\ IF supports THEN UNCHANGED children ELSE EnsureChild(root, up)
    /\ UNCHANGED <<supports, root, source, served, named, agreed>>

\* Faulty variant: roots are asked for once, whatever the client says later.
HandleChangedOnce ==
    /\ Handles("changed")
    /\ RequestRoots(FALSE)
    /\ UNCHANGED <<supports, root, source, children, served, named, agreed>>

HandleChanged ==
    /\ Handles("changed")
    /\ RequestRoots(TRUE)
    /\ UNCHANGED <<supports, root, source, children, served, named, agreed>>

\* The root of an answer is taken if it is usable and its child comes up.
Usable(msg, up) == msg.root # NoRoot /\ msg.root \in children \union up

\* Faulty variant: the source is recorded before the root is known to be usable.
HandleAnswerEarly(up) ==
    /\ Handles("answer")
    /\ LET msg == Head(line)
           settles == msg.id = pending /\ source # "manual"
           taken == settles /\ Usable(msg, up)
       IN /\ pending' = IF msg.id = pending THEN 0 ELSE pending
          /\ source' = IF settles THEN "roots" ELSE source
          /\ root' = IF taken THEN msg.root ELSE root
          /\ IF settles THEN EnsureChild(root', up) ELSE UNCHANGED children
          /\ named' = IF taken THEN named \union {msg.root} ELSE named
          /\ agreed' = IF settles THEN taken ELSE agreed
    /\ UNCHANGED <<asked, answer, supports, requested, nextId, served>>

\* Faulty variant: an answer that cannot be used leaves the request open.
HandleAnswerHolding(up) ==
    /\ Handles("answer")
    /\ LET msg == Head(line)
           settles == msg.id = pending /\ source # "manual"
           taken == settles /\ Usable(msg, up)
       IN /\ pending' = IF taken THEN 0 ELSE pending
          /\ source' = IF taken THEN "roots" ELSE source
          /\ root' = IF taken THEN msg.root ELSE root
          /\ IF settles THEN EnsureChild(root', up) ELSE UNCHANGED children
          /\ named' = IF taken THEN named \union {msg.root} ELSE named
          /\ agreed' = IF settles THEN taken ELSE agreed
    /\ UNCHANGED <<asked, answer, supports, requested, nextId, served>>

\* handleClientRPCResponse: when the root cannot be taken, the current one stays and
\* gets its child.  An answer that is not the awaited one, or comes after the client
\* chose a root by hand, changes no root.
HandleAnswer(up) ==
    /\ Handles("answer")
    /\ LET msg == Head(line)
           settles == msg.id = pending /\ source # "manual"
           taken == settles /\ Usable(msg, up)
       IN /\ pending' = IF msg.id = pending THEN 0 ELSE pending
          /\ source' = IF taken THEN "roots" ELSE source
          /\ root' = IF taken THEN msg.root ELSE root
          /\ IF settles THEN EnsureChild(root', up) ELSE UNCHANGED children
          /\ named' = IF taken THEN named \union {msg.root} ELSE named
          /\ agreed' = IF settles THEN taken ELSE agreed
    /\ UNCHANGED <<asked, answer, supports, requested, nextId, served>>

\* Faulty variant: calls are held only while an answer is awaited.
HeldWhilePending == supports /\ pending # 0

\* workspaceDiscoveryPending
Held == supports /\ (pending # 0 \/ (source = "cwd" /\ ~requested))

Replies(msg, how, r) ==
    served' = [how |-> how, tool |-> msg.tool, arg |-> msg.arg, at |-> msg.at,
               root |-> r, source |-> source, agreed |-> agreed]

\* A proxied tool call: held during discovery; a memory read that names no root is
\* refused in the launch directory; else the child of the root serves it, or fails
\* twice, the first time leaving its place in the pool.
HandleCall(works, up) ==
    /\ Handles("call")
    /\ LET msg == Head(line)
           target == IF msg.arg = NoRoot THEN root ELSE msg.arg
       IN IF Held \/ (msg.tool = "memory" /\ source = "cwd" /\ msg.arg = NoRoot)
            THEN Replies(msg, "refused", NoRoot) /\ UNCHANGED <<children, named>>
            ELSE /\ named' = named \union ({msg.arg} \ {NoRoot})
                 /\ IF works /\ target \in children \union up
                      THEN Replies(msg, "served", target) /\ EnsureChild(target, up)
                      ELSE /\ Replies(msg, "failed", NoRoot)
                           /\ children' = (children \ {target}) \union ({target} \intersect up)
    /\ UNCHANGED <<asked, answer, root, source, session, agreed>>

\* repo_switch_workspace, itself a tool call: when the child does not come up, or the
\* reindex that was asked for fails (reindexed), the root stays.
HandleSwitch(reindexed, up) ==
    /\ Handles("switch")
    /\ LET r == Head(line).arg
           chosen == reindexed /\ r \in children \union up
       IN IF Held
            THEN UNCHANGED <<root, source, children, named>>
            ELSE /\ EnsureChild(r, up)
                 /\ root' = IF chosen THEN r ELSE root
                 /\ source' = IF chosen THEN "manual" ELSE source
                 /\ named' = IF chosen THEN named \union {r} ELSE named
    /\ UNCHANGED <<asked, answer, session, served, agreed>>

\* An idle child is reaped, or one whose call failed in the background is dropped.
LoseChild(r) ==
    /\ r \in children /\ children' = children \ {r}
    /\ UNCHANGED <<active, said, capable, asked, answer, sent, line, root, source,
                   session, served, named, agreed>>

-----------------------------------------------------------------------------
ClientStep ==
    \/ SayInitialize \/ SayInitialized \/ ReadRequest
    \/ \E r \in Roots : ChangeWorkspace(r) \/ SwitchTo(r)
    \/ \E refuses \in BOOLEAN : AnswerRoots(refuses)
    \/ \E tool \in Tools : \E arg \in Roots \union {NoRoot} : CallTool(tool, arg)

ServerStep ==
    \/ HandleInitialize \/ HandleChanged
    \/ \E up \in SUBSET Roots :
          \/ HandleInitialized(up) \/ HandleAnswer(up)
          \/ \E works \in BOOLEAN : HandleCall(works, up) \/ HandleSwitch(works, up)

Next == ClientStep \/ ServerStep \/ \E r \in Roots : LoseChild(r)

Spec == Init /\ [][Next]_vars

\* The server keeps reading; a client that is asked for its roots answers, one way or
\* the other, and one that has said initialize goes on to say initialized.
FairSpec ==
    /\ Spec /\ WF_vars(ServerStep)
    /\ WF_vars(ReadRequest) /\ WF_vars(\E refuses \in BOOLEAN : AnswerRoots(refuses))
    /\ WF_vars(SayInitialized)

-----------------------------------------------------------------------------
\* No tool call is answered from a workspace that the client had left when it made
\* the call: list_changed holds calls back until the roots are known again
\* (workspaceDiscoveryPending).  Not claimed when the last answer named no root that
\* could be taken, and the older root stayed.
NoStaleResults ==
    served.how = "served" /\ served.arg = NoRoot /\ served.source = "roots" /\ served.agreed
    => served.root = served.at

\* Notes are read without naming a root only where the client named it before: by
\* roots/list, by a switch, or in an earlier call, never just because the server was
\* started there (validateMemoryReadScope and the order in handleClientRPCResponse).
MemoryNeedsName ==
    served.how = "served" /\ served.tool = "memory" => served.root \in named

\* No child is started, in the launch directory or elsewhere, before a client that
\* supports roots has answered the first time (maybeRequestClientRoots has asked with id 1).
NothingSpawnedEarly == supports /\ (~requested \/ pending = 1) => children = {}

\* Tool calls are not held for good: an answer ends the wait whatever it says, and
\* whether or not its root can be taken (handleClientRPCResponse).
DiscoveryEnds == Held ~> ~Held
=============================================================================
