----------------------------- MODULE EmbedRuntime -----------------------------
(***************************************************************************)
(* The availability of the embedding runtime (internal/embedding/runtime.go, *)
(* ollama.go, mode.go): one wrapper shared by the index worker's passes and *)
(* by the searches of concurrent tool calls.  An attempt is admitted under  *)
(* the lock, embeds outside it, and reports under the lock again; the       *)
(* runtime may go away or come back, and the caller may be cancelled, in    *)
(* between.                                                                 *)
(***************************************************************************)
EXTENDS Naturals, FiniteSets

CONSTANTS Embedders,        \* the concurrent callers of Embed
          MaxRtCancels,     \* bound: cancelled contexts
          MaxRtUpheavals    \* bound: changes of the runtime's health

VARIABLES
    rtMode,         \* "off", "auto" or "required"
    rtHealth,       \* the runtime: "down", "no model", "faulty" or "up"
    rtProbed, rtAvailable, rtRetrying,  \* Runtime.probed, availability, retrying
    rtWindow,       \* whether now is before retryAt
    rtPc,           \* of each caller: "idle" or "sent"
    rtAdmitted,     \* the callers whose attempt is the one that is single-flighted
    rtFound,        \* the health an attempt meets
    rtLast,         \* how a caller's last Embed ended
    rtCancels, rtUpheavals
rtVars == <<rtMode, rtHealth, rtProbed, rtAvailable, rtRetrying, rtWindow, rtPc, rtAdmitted,
            rtFound, rtLast, rtCancels, rtUpheavals>>

\* NewRuntime under a mode that ParseMode yields.
RuntimeInit ==
    /\ rtMode \in {"off", "auto", "required"}
    /\ rtHealth = "down" /\ rtProbed = FALSE /\ rtAvailable = FALSE
    /\ rtRetrying = FALSE /\ rtWindow = FALSE
    /\ rtPc = [e \in Embedders |-> "idle"] /\ rtAdmitted = {}
    /\ rtFound = [e \in Embedders |-> "down"] /\ rtLast = [e \in Embedders |-> "none"]
    /\ rtCancels = 0 /\ rtUpheavals = 0

RtEnds(e, result) ==
    /\ rtPc' = [rtPc EXCEPT ![e] = "idle"]
    /\ rtFound' = [rtFound EXCEPT ![e] = "down"]
    /\ rtLast' = [rtLast EXCEPT ![e] = result]
    /\ rtAdmitted' = rtAdmitted \ {e}

\* embed and admitAttempt: while the runtime is healthy attempts overlap.
Healthy == rtProbed /\ rtAvailable
Admits == rtMode # "off" /\ (Healthy \/ (~rtRetrying /\ ~(rtProbed /\ rtWindow)))

EmbedStarts(e) ==
    /\ rtPc[e] = "idle" /\ Admits
    /\ rtPc' = [rtPc EXCEPT ![e] = "sent"]
    /\ IF Healthy
         THEN UNCHANGED <<rtRetrying, rtAdmitted>>
         ELSE rtRetrying' = TRUE /\ rtAdmitted' = rtAdmitted \union {e}
    /\ rtFound' = [rtFound EXCEPT ![e] = rtHealth]
    /\ UNCHANGED <<rtMode, rtHealth, rtProbed, rtAvailable, rtWindow, rtLast, rtCancels,
                   rtUpheavals>>

\* Callers degrade to lexical retrieval.
EmbedRefused(e) ==
    /\ rtPc[e] = "idle" /\ ~Admits
    /\ rtLast' = [rtLast EXCEPT ![e] = "unavailable"]
    /\ UNCHANGED <<rtMode, rtHealth, rtProbed, rtAvailable, rtRetrying, rtWindow, rtPc,
                   rtAdmitted, rtFound, rtCancels, rtUpheavals>>

\* markAvailable.
EmbedSucceeds(e) ==
    /\ rtPc[e] = "sent" /\ rtFound[e] = "up"
    /\ RtEnds(e, "vectors")
    /\ rtRetrying' = IF e \in rtAdmitted THEN FALSE ELSE rtRetrying
    /\ rtProbed' = TRUE /\ rtAvailable' = TRUE /\ rtWindow' = FALSE
    /\ UNCHANGED <<rtMode, rtHealth, rtCancels, rtUpheavals>>

\* Faulty variant: any failure frees the single flight.
EmbedFailsFreely(e) ==
    /\ rtPc[e] = "sent" /\ rtFound[e] # "up"
    /\ RtEnds(e, "unavailable")
    /\ rtRetrying' = FALSE
    /\ rtProbed' = TRUE /\ rtAvailable' = FALSE /\ rtWindow' = TRUE
    /\ UNCHANGED <<rtMode, rtHealth, rtCancels, rtUpheavals>>

\* Ollama.Embed: no answer at all and a missing model are reported to the
\* caller as an unavailable runtime, any other failure (a status, a body that
\* is no embedding) as itself; all of them open a window (markUnavailable).
EmbedFails(e) ==
    /\ rtPc[e] = "sent" /\ rtFound[e] # "up"
    /\ RtEnds(e, IF rtFound[e] = "faulty" THEN "error" ELSE "unavailable")
    /\ rtRetrying' = IF e \in rtAdmitted THEN FALSE ELSE rtRetrying
    /\ rtProbed' = TRUE /\ rtAvailable' = FALSE /\ rtWindow' = TRUE
    /\ UNCHANGED <<rtMode, rtHealth, rtCancels, rtUpheavals>>

\* Faulty variant: a cancelled attempt returns without finishAttempt.
EmbedCancelledKeeps(e) ==
    /\ rtPc[e] = "sent" /\ rtCancels < MaxRtCancels /\ rtCancels' = rtCancels + 1
    /\ RtEnds(e, "cancelled")
    /\ UNCHANGED <<rtMode, rtHealth, rtProbed, rtAvailable, rtRetrying, rtWindow, rtUpheavals>>

\* A cancelled attempt says nothing about the runtime (finishAttempt).
EmbedCancelled(e) ==
    /\ rtPc[e] = "sent" /\ rtCancels < MaxRtCancels /\ rtCancels' = rtCancels + 1
    /\ RtEnds(e, "cancelled")
    /\ rtRetrying' = IF e \in rtAdmitted THEN FALSE ELSE rtRetrying
    /\ UNCHANGED <<rtMode, rtHealth, rtProbed, rtAvailable, rtWindow, rtUpheavals>>

BackoffElapses ==
    /\ rtWindow /\ rtWindow' = FALSE
    /\ UNCHANGED <<rtMode, rtHealth, rtProbed, rtAvailable, rtRetrying, rtPc, rtAdmitted,
                   rtFound, rtLast, rtCancels, rtUpheavals>>

\* The runtime, which fails or answers the requests under way at will.
RuntimeTurns ==
    /\ rtUpheavals < MaxRtUpheavals /\ rtUpheavals' = rtUpheavals + 1
    /\ \E h \in {"down", "no model", "faulty", "up"} \ {rtHealth} :
           /\ rtHealth' = h
           /\ \E struck \in SUBSET {e \in Embedders : rtPc[e] = "sent"} :
                  rtFound' = [e \in Embedders |-> IF e \in struck THEN h ELSE rtFound[e]]
    /\ UNCHANGED <<rtMode, rtProbed, rtAvailable, rtRetrying, rtWindow, rtPc, rtAdmitted,
                   rtLast, rtCancels>>

RtEmbed(e) == EmbedStarts(e) \/ EmbedRefused(e)
RtReport(e) == EmbedSucceeds(e) \/ EmbedFails(e)
RuntimeNext ==
    \/ \E e \in Embedders : RtEmbed(e) \/ RtReport(e) \/ EmbedCancelled(e)
    \/ BackoffElapses \/ RuntimeTurns

\* Requests end (the client has a timeout), the clock moves, and passes and
\* searches keep coming.
RuntimeFairness ==
    /\ \A e \in Embedders : WF_rtVars(RtReport(e)) /\ WF_rtVars(EmbedStarts(e))
    /\ WF_rtVars(BackoffElapses)

RuntimeSpec == RuntimeInit /\ [][RuntimeNext]_rtVars /\ RuntimeFairness

-----------------------------------------------------------------------------
(* Properties                                                               *)

\* Whatever else is in flight, at most one attempt probes a runtime that is not
\* known to be healthy, and the slot it takes is never left behind.
OneProbe ==
    /\ Cardinality(rtAdmitted) <= 1
    /\ rtRetrying <=> rtAdmitted # {}

\* Once the runtime stays up, semantic retrieval comes back and stays,
\* whichever late answers, failures and cancellations are still to arrive.
RuntimeRecovers ==
    (rtMode # "off" /\ <>[](rtHealth = "up")) => <>[]rtAvailable
=============================================================================
