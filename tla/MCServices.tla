------------------------------ MODULE MCServices ------------------------------
(***************************************************************************)
(* Five services of a running server that share no state.  A behaviour      *)
(* exercises one of them and leaves the others at rest: their states add    *)
(* up instead of multiplying.                                               *)
(***************************************************************************)
EXTENDS ChildPool, EmbedRuntime, FsWatch, PollSchedule, FeedbackStore

VARIABLE service
serviceVars == <<service, poolVars, rtVars, fsVars, psVars, fbVars>>

\* Intervals as they are, and as they may be set: a cap below the interval it caps,
\* and intervals of one tick.
Unset == [hot |-> 0, idle |-> 0, error |-> 0]
MCPollConfigs == {Unset, [hot |-> 6, idle |-> 3, error |-> 0], [hot |-> 1, idle |-> 3, error |-> 2]}
MCPollDefaults == [hot |-> 2, idle |-> 30, error |-> 60]

ServicesInit ==
    /\ service \in {"pool", "embedding", "watch", "polls", "feedback"}
    /\ PoolInit /\ RuntimeInit /\ FsInit /\ PollScheduleInit /\ FeedbackInit
    /\ service # "embedding" => rtMode = "off"
    /\ service # "feedback" => ~fbOpted
    /\ service # "polls" => psConfig = Intervals(Unset) /\ psLeft = PollDefaults.hot

ServicesNext ==
    /\ UNCHANGED service
    /\ \/ service = "pool" /\ PoolNext /\ UNCHANGED <<rtVars, fsVars, psVars, fbVars>>
       \/ service = "embedding" /\ RuntimeNext /\ UNCHANGED <<poolVars, fsVars, psVars, fbVars>>
       \/ service = "watch" /\ FsNext /\ UNCHANGED <<poolVars, rtVars, psVars, fbVars>>
       \/ service = "polls" /\ PollScheduleNext /\ UNCHANGED <<poolVars, rtVars, fsVars, fbVars>>
       \/ service = "feedback" /\ FeedbackNext /\ UNCHANGED <<poolVars, rtVars, fsVars, psVars>>

ServicesSpec ==
    /\ ServicesInit /\ [][ServicesNext]_serviceVars
    /\ PoolFairness /\ RuntimeFairness /\ FsFairness
=============================================================================
