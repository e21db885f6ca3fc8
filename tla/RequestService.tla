--------------------------- MODULE RequestService ---------------------------
(***************************************************************************)
(* What Indexer.submitRequest promises to the goroutines that call it,     *)
(* however requests are queued, run, cancelled or cut off: a request is    *)
(* served at most once, an answer is only given to a request that was      *)
(* served, and a caller is told that the indexer stopped only when it was  *)
(* not.                                                                    *)
(***************************************************************************)
CONSTANT Callers

VARIABLES call,     \* call[c]: where the call of c is
          result    \* result[c]: what its last call returned

Answers == {"ok", "error"}

ServiceInit ==
    /\ call = [c \in Callers |-> "idle"]
    /\ result = [c \in Callers |-> "none"]

Ask(c) ==
    /\ call[c] = "idle"
    /\ call' = [call EXCEPT ![c] = "pending"]
    /\ UNCHANGED result

Serve(c) ==
    /\ call[c] = "pending"
    /\ call' = [call EXCEPT ![c] = "served"]
    /\ UNCHANGED result

\* Its own context may end a call at any time, the others only as they are.
Return(c, r) ==
    /\ \/ r \in Answers /\ call[c] = "served"
       \/ r \in {"stopped", "not started"} /\ call[c] = "pending"
       \/ r = "cancelled" /\ call[c] # "idle"
    /\ call' = [call EXCEPT ![c] = "idle"]
    /\ result' = [result EXCEPT ![c] = r]

ServiceNext ==
    \E c \in Callers :
        \/ Ask(c) \/ Serve(c)
        \/ \E r \in Answers \union {"stopped", "not started", "cancelled"} : Return(c, r)

Service == ServiceInit /\ [][ServiceNext]_<<call, result>>
=============================================================================
