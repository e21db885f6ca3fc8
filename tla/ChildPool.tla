------------------------------ MODULE ChildPool ------------------------------
(***************************************************************************)
(* The broker's pool of child processes, one per workspace root            *)
(* (internal/mcp/server.go, child_client.go): calls of the main loop and   *)
(* of background reindexing, the reaper of idle children, and shutdown.    *)
(*                                                                         *)
(* The pool's lock covers the lookups and updates of the map, never the    *)
(* spawning, calling or closing of a child: each of these is a step of its *)
(* own.  A child answers one call at a time (processChildClient.mu); it    *)
(* may die at any moment, after it has done the work as well as before.    *)
(* A call has no timeout: it waits for the answer or for the child's end.  *)
(***************************************************************************)
EXTENDS Naturals, Sequences, Functions

CONSTANTS PoolRoots, PoolCallers,
          MaxSpawns,        \* bound: children ever spawned
          MaxPoolCalls,     \* bound: calls
          MaxDeaths         \* bound: children that die by themselves

VARIABLES
    poolChildren,   \* Server.children: the child of a root, 0 if it has none
    poolIdle,       \* the roots whose child was last used before the cutoff
    poolRootOf,     \* the roots of the children spawned so far
    poolAlive,
    poolPc, poolTarget, poolClient, poolTry,    \* of each caller; the try is 1 or 2
    poolVictim,     \* the child a caller has to close (0: none)
    poolReap,       \* the reaper: the roots it picked, the child it closes
    poolDown,       \* shutdown has emptied the map ...
    poolClosing,    \* ... and closes these children
    poolFailed,     \* whether a caller's last call failed for its transport
    poolCalls, poolDeaths,
    poolJoined      \* history: the children that joined the pool during a call
poolVars == <<poolChildren, poolIdle, poolRootOf, poolAlive, poolPc, poolTarget, poolClient,
              poolTry, poolVictim, poolReap, poolDown, poolClosing, poolFailed, poolCalls,
              poolDeaths, poolJoined>>
poolOthers == <<poolReap, poolDown, poolClosing, poolDeaths>>

PoolInit ==
    /\ poolChildren = [r \in PoolRoots |-> 0] /\ poolIdle = {}
    /\ poolRootOf = <<>> /\ poolAlive = {}
    /\ poolPc = [c \in PoolCallers |-> "idle"]
    /\ poolTarget \in [PoolCallers -> PoolRoots]
    /\ poolClient = [c \in PoolCallers |-> 0] /\ poolTry = [c \in PoolCallers |-> 1]
    /\ poolVictim = [c \in PoolCallers |-> 0]
    /\ poolReap = [roots |-> {}, victim |-> 0]
    /\ poolDown = FALSE /\ poolClosing = {}
    /\ poolFailed = [c \in PoolCallers |-> FALSE]
    /\ poolCalls = 0 /\ poolDeaths = 0
    /\ poolJoined = [c \in PoolCallers |-> {}]

-----------------------------------------------------------------------------
(* A call: callChildTool                                                    *)

PoolGoes(c, at) == poolPc' = [poolPc EXCEPT ![c] = at]
PoolReturns(c, failed) ==
    /\ PoolGoes(c, "idle") /\ poolFailed' = [poolFailed EXCEPT ![c] = failed]
    /\ poolClient' = [poolClient EXCEPT ![c] = 0]
    /\ poolJoined' = IF failed THEN poolJoined ELSE [poolJoined EXCEPT ![c] = {}]

PoolCall(c, r) ==
    /\ poolPc[c] = "idle" /\ ~poolDown
    /\ poolCalls < MaxPoolCalls /\ poolCalls' = poolCalls + 1
    /\ PoolGoes(c, "ensure")
    /\ poolTarget' = [poolTarget EXCEPT ![c] = r]
    /\ poolJoined' = [poolJoined EXCEPT ![c] = {}]
    /\ poolFailed' = [poolFailed EXCEPT ![c] = FALSE]
    /\ UNCHANGED <<poolChildren, poolIdle, poolRootOf, poolAlive, poolClient, poolTry,
                   poolVictim, poolOthers>>

\* ensureChild, first section.
PoolLookup(c) ==
    /\ poolPc[c] = "ensure"
    /\ LET r == poolTarget[c]
       IN  IF poolChildren[r] # 0
             THEN /\ poolClient' = [poolClient EXCEPT ![c] = poolChildren[r]]
                  /\ poolIdle' = poolIdle \ {r}
                  /\ PoolGoes(c, "send")
             ELSE PoolGoes(c, "spawn") /\ UNCHANGED <<poolClient, poolIdle>>
    /\ UNCHANGED <<poolChildren, poolRootOf, poolAlive, poolTarget, poolTry, poolVictim,
                   poolFailed, poolCalls, poolOthers, poolJoined>>

\* spawnProcessChild: the process, initialize and tools/list.
PoolSpawn(c) ==
    /\ poolPc[c] = "spawn" /\ Len(poolRootOf) < MaxSpawns
    /\ poolRootOf' = Append(poolRootOf, poolTarget[c])
    /\ poolAlive' = poolAlive \union {Len(poolRootOf')}
    /\ poolClient' = [poolClient EXCEPT ![c] = Len(poolRootOf')]
    /\ PoolGoes(c, "install")
    /\ UNCHANGED <<poolChildren, poolIdle, poolTarget, poolTry, poolVictim, poolFailed,
                   poolCalls, poolOthers, poolJoined>>

PoolSpawnFails(c) ==
    /\ poolPc[c] = "spawn" /\ PoolReturns(c, FALSE)
    /\ poolTry' = [poolTry EXCEPT ![c] = 1]
    /\ UNCHANGED <<poolChildren, poolIdle, poolRootOf, poolAlive, poolTarget, poolVictim,
                   poolCalls, poolOthers>>

\* Faulty variant: the new child takes the place of one that came first.
PoolInstallOver(c) ==
    /\ poolPc[c] = "install"
    /\ poolChildren' = [poolChildren EXCEPT ![poolTarget[c]] = poolClient[c]]
    /\ poolJoined' = [d \in PoolCallers |->
                       IF poolPc[d] = "idle" THEN poolJoined[d]
                       ELSE poolJoined[d] \union {poolClient[c]}]
    /\ PoolGoes(c, "send")
    /\ poolIdle' = poolIdle \ {poolTarget[c]}
    /\ UNCHANGED <<poolRootOf, poolClient, poolAlive, poolTarget, poolTry, poolVictim,
                   poolFailed, poolCalls, poolOthers>>

\* ensureChild, second section: the first child to arrive stays.
PoolInstall(c) ==
    LET r == poolTarget[c]
        first == poolChildren[r]
    IN  /\ poolPc[c] = "install"
        /\ IF first # 0
             THEN /\ poolAlive' = poolAlive \ {poolClient[c]}
                  /\ poolClient' = [poolClient EXCEPT ![c] = first]
                  /\ UNCHANGED <<poolChildren, poolJoined>>
             ELSE /\ poolChildren' = [poolChildren EXCEPT ![r] = poolClient[c]]
                  /\ poolJoined' = [d \in PoolCallers |->
                       IF poolPc[d] = "idle" THEN poolJoined[d]
                       ELSE poolJoined[d] \union {poolClient[c]}]
                  /\ UNCHANGED <<poolAlive, poolClient>>
        /\ poolIdle' = poolIdle \ {r}
        /\ PoolGoes(c, "send")
        /\ UNCHANGED <<poolRootOf, poolTarget, poolTry, poolVictim, poolFailed, poolCalls,
                       poolOthers>>

\* callRPC: one call at a time; a child found dead is a transport error.
PoolSend(c) ==
    /\ poolPc[c] = "send"
    /\ \A d \in PoolCallers : ~(poolPc[d] = "wait" /\ poolClient[d] = poolClient[c])
    /\ PoolGoes(c, "wait")
    /\ UNCHANGED <<poolChildren, poolIdle, poolRootOf, poolAlive, poolTarget, poolClient,
                   poolTry, poolVictim, poolFailed, poolCalls, poolOthers, poolJoined>>

PoolAnswer(c) ==
    /\ poolPc[c] = "wait" /\ poolClient[c] \in poolAlive
    /\ PoolReturns(c, FALSE)
    /\ poolTry' = [poolTry EXCEPT ![c] = 1]
    /\ UNCHANGED <<poolChildren, poolIdle, poolRootOf, poolAlive, poolTarget, poolVictim,
                   poolCalls, poolOthers>>

\* Faulty variants: the call is tried again on whatever child the pool has;
\* and that as often as it fails.
PoolRetryInPlace(c) ==
    /\ poolPc[c] = "wait" /\ poolClient[c] \notin poolAlive
    /\ IF poolTry[c] = 1
         THEN PoolGoes(c, "ensure") /\ UNCHANGED <<poolFailed, poolClient, poolJoined>>
         ELSE PoolReturns(c, TRUE)
    /\ poolTry' = [poolTry EXCEPT ![c] = 3 - @]
    /\ UNCHANGED <<poolChildren, poolIdle, poolRootOf, poolAlive, poolTarget, poolVictim,
                   poolCalls, poolOthers>>
PoolRetryForever(c) ==
    /\ poolPc[c] = "wait" /\ poolClient[c] \notin poolAlive
    /\ PoolGoes(c, "ensure")
    /\ UNCHANGED <<poolChildren, poolIdle, poolRootOf, poolAlive, poolTarget, poolClient,
                   poolTry, poolVictim, poolFailed, poolCalls, poolOthers, poolJoined>>

\* A transport error: the first one takes the root's child out of the pool,
\* whichever child that is by now.
PoolTransportError(c) ==
    LET r == poolTarget[c]
    IN  /\ poolPc[c] = "wait" /\ poolClient[c] \notin poolAlive
        /\ IF poolTry[c] = 1
             THEN /\ poolVictim' = [poolVictim EXCEPT ![c] = poolChildren[r]]
                  /\ poolChildren' = [poolChildren EXCEPT ![r] = 0]
                  /\ PoolGoes(c, "close")
                  /\ UNCHANGED <<poolFailed, poolClient, poolJoined>>
             ELSE PoolReturns(c, TRUE) /\ UNCHANGED <<poolVictim, poolChildren>>
        /\ poolTry' = [poolTry EXCEPT ![c] = 3 - @]
        /\ UNCHANGED <<poolIdle, poolRootOf, poolAlive, poolTarget, poolCalls, poolOthers>>

PoolClose(c) ==
    /\ poolPc[c] = "close" /\ PoolGoes(c, "ensure")
    /\ poolAlive' = poolAlive \ {poolVictim[c]}
    /\ poolVictim' = [poolVictim EXCEPT ![c] = 0]
    /\ UNCHANGED <<poolChildren, poolIdle, poolRootOf, poolTarget, poolClient, poolTry,
                   poolFailed, poolCalls, poolOthers, poolJoined>>

PoolCallerStep(c) ==
    \/ PoolLookup(c) \/ PoolSpawn(c) \/ PoolSpawnFails(c) \/ PoolInstall(c) \/ PoolSend(c)
    \/ PoolAnswer(c) \/ PoolTransportError(c) \/ PoolClose(c)

-----------------------------------------------------------------------------
(* The reaper, shutdown, and the world                                      *)

poolOfCallers == <<poolRootOf, poolPc, poolTarget, poolClient, poolTry, poolVictim,
                   poolFailed, poolCalls, poolJoined>>

\* reapIdleChildren: it picks the idle roots under the lock ...
ReapScan ==
    /\ ~poolDown /\ poolReap = [roots |-> {}, victim |-> 0]
    /\ poolReap' = [roots |-> {r \in poolIdle : poolChildren[r] # 0}, victim |-> 0]
    /\ poolReap'.roots # {}
    /\ UNCHANGED <<poolOfCallers, poolChildren, poolIdle, poolAlive, poolDown, poolClosing,
                   poolDeaths>>

\* ... and closes the child each of them has by then (closeChild).
ReapRemove(r) ==
    /\ r \in poolReap.roots /\ poolReap.victim = 0
    /\ poolReap' = [roots |-> poolReap.roots \ {r}, victim |-> poolChildren[r]]
    /\ poolChildren' = [poolChildren EXCEPT ![r] = 0]
    /\ UNCHANGED <<poolOfCallers, poolIdle, poolAlive, poolDown, poolClosing, poolDeaths>>

ReapClose ==
    /\ poolReap.victim # 0 /\ poolReap' = [poolReap EXCEPT !.victim = 0]
    /\ poolAlive' = poolAlive \ {poolReap.victim}
    /\ UNCHANGED <<poolOfCallers, poolChildren, poolIdle, poolDown, poolClosing, poolDeaths>>

PoolShutdown ==
    /\ ~poolDown /\ poolDown' = TRUE
    /\ poolClosing' = Range(poolChildren) \ {0}
    /\ poolChildren' = [r \in PoolRoots |-> 0]
    /\ UNCHANGED <<poolOfCallers, poolIdle, poolAlive, poolReap, poolDeaths>>

ShutdownClose(id) ==
    /\ id \in poolClosing /\ poolClosing' = poolClosing \ {id}
    /\ poolAlive' = poolAlive \ {id}
    /\ UNCHANGED <<poolOfCallers, poolChildren, poolIdle, poolReap, poolDown, poolDeaths>>

PoolTimePasses ==
    /\ poolIdle' = {r \in PoolRoots : poolChildren[r] # 0}
    /\ poolIdle' # poolIdle
    /\ UNCHANGED <<poolOfCallers, poolChildren, poolAlive, poolOthers>>

ChildDies(id) ==
    /\ id \in poolAlive /\ poolAlive' = poolAlive \ {id}
    /\ poolDeaths < MaxDeaths /\ poolDeaths' = poolDeaths + 1
    /\ UNCHANGED <<poolOfCallers, poolChildren, poolIdle, poolReap, poolDown, poolClosing>>

PoolNext ==
    \/ \E c \in PoolCallers : PoolCallerStep(c) \/ \E r \in PoolRoots : PoolCall(c, r)
    \/ ReapScan \/ ReapClose \/ PoolShutdown \/ PoolTimePasses
    \/ \E r \in PoolRoots : ReapRemove(r)
    \/ \E id \in DOMAIN poolRootOf : ChildDies(id) \/ ShutdownClose(id)

\* Every step of a call is taken, and a child answers or ends.
PoolFairness == \A c \in PoolCallers : WF_poolVars(PoolCallerStep(c))

PoolSpec == PoolInit /\ [][PoolNext]_poolVars /\ PoolFairness

-----------------------------------------------------------------------------
(* Properties                                                               *)

\* Until shutdown no child is forgotten: one that lives is in the pool, or on
\* its way in with the call that spawned it, or about to be closed by the one
\* that took it out.
NoChildLeaks ==
    ~poolDown =>
        \A id \in poolAlive :
            \/ id \in Range(poolChildren) \union Range(poolVictim) \union {poolReap.victim}
            \/ \E c \in PoolCallers : poolPc[c] = "install" /\ poolClient[c] = id

\* A call fails for its transport only if the child it was retried on, too, has
\* ended: a child that had joined the pool since the call began.
RetryHasNewChild ==
    \A c \in PoolCallers :
        poolFailed[c] => poolJoined[c] \ poolAlive # {}

\* Every call returns, whatever is reaped, closed or dies meanwhile.
CallsReturn == \A c \in PoolCallers : poolPc[c] # "idle" ~> poolPc[c] = "idle"
=============================================================================
