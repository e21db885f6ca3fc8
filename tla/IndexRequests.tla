---------------------------- MODULE IndexRequests ----------------------------
(***************************************************************************)
(* How requests reach the single worker of the indexer and how its callers *)
(* come back (submitRequest, worker, Start in internal/indexing/indexer.go).*)
(*                                                                         *)
(* line is the channel reqCh: its first QueueCap elements are buffered,    *)
(* the others are goroutines blocked in the send, in the order in which    *)
(* the Go runtime lets them in.  An element is the goroutine that waits    *)
(* for the answer, or Gone when it has given up: its request stays.        *)
(* What a request does is module Indexer; here it ends, with some outcome. *)
(***************************************************************************)
EXTENDS Naturals, Sequences

CONSTANTS Callers,
          Patient,      \* those whose context is never cancelled (the monitors)
          QueueCap,     \* capacity of reqCh
          Gone, Nobody  \* no caller

ASSUME RequestAssumption ==
    /\ Patient \subseteq Callers
    /\ QueueCap \in Nat \ {0}
    /\ Gone \notin Callers /\ Nobody \notin Callers /\ Gone # Nobody

VARIABLES started,      \* workerStarted is closed
          stopped,      \* the server's context is cancelled
          exited,       \* workerDone is closed
          line, cur,    \* reqCh; the request the worker runs
          pc,           \* pc[c]: the select goroutine c is at
          answer,       \* answer[c]: what the done channel of its request holds
          cancelled,    \* cancelled[c]: whether its context is
          result        \* result[c]: what its last call returned

server == <<started, stopped, exited>>
vars == <<server, line, cur, pc, answer, cancelled, result>>

Init ==
    /\ started = FALSE /\ stopped = FALSE /\ exited = FALSE
    /\ line = <<>> /\ cur = Nobody
    /\ pc = [c \in Callers |-> "idle"]
    /\ answer = [c \in Callers |-> "empty"]
    /\ cancelled = [c \in Callers |-> FALSE]
    /\ result = [c \in Callers |-> "none"]

-----------------------------------------------------------------------------
(* The server: Start, and the end of its context                            *)

Start ==
    /\ ~started /\ started' = TRUE
    /\ UNCHANGED <<stopped, exited, line, cur, pc, answer, cancelled, result>>

Stop ==
    /\ ~stopped /\ stopped' = TRUE
    /\ UNCHANGED <<started, exited, line, cur, pc, answer, cancelled, result>>

-----------------------------------------------------------------------------
(* A caller in submitRequest                                                *)

Returns(c, r) ==
    /\ pc' = [pc EXCEPT ![c] = "idle"]
    /\ answer' = [answer EXCEPT ![c] = "empty"]
    /\ cancelled' = [cancelled EXCEPT ![c] = FALSE]
    /\ result' = [result EXCEPT ![c] = r]

\* A call begins.
Submit(c) ==
    /\ pc[c] = "idle"
    /\ pc' = [pc EXCEPT ![c] = "check"]
    /\ UNCHANGED <<server, line, cur, answer, cancelled, result>>

\* The context of the call ends.
Cancel(c) ==
    /\ pc[c] # "idle" /\ c \notin Patient /\ ~cancelled[c]
    /\ cancelled' = [cancelled EXCEPT ![c] = TRUE]
    /\ UNCHANGED <<server, line, cur, pc, answer, result>>

\* The two checks before the send: never started, already stopped.
Check(c) ==
    /\ pc[c] = "check"
    /\ IF started /\ ~exited
         THEN /\ pc' = [pc EXCEPT ![c] = "send"]
              /\ UNCHANGED <<answer, cancelled, result>>
         ELSE Returns(c, IF started THEN "stopped" ELSE "not started")
    /\ UNCHANGED <<server, line, cur>>

\* The send: into the buffer, or into the line of those blocked on it.
Send(c) ==
    /\ pc[c] = "send"
    /\ line' = Append(line, c)
    /\ pc' = [pc EXCEPT ![c] = IF Len(line) < QueueCap THEN "wait" ELSE "blocked"]
    /\ UNCHANGED <<server, cur, answer, cancelled, result>>

\* The other cases of that select.
SendEnds(c) ==
    \/ cancelled[c] /\ Returns(c, "cancelled")
    \/ exited /\ Returns(c, "stopped")

SendGivesUp(c) ==
    /\ pc[c] = "send"
    /\ SendEnds(c)
    /\ UNCHANGED <<server, line, cur>>

\* A goroutine that was blocked in the send leaves the line.
LeaveLine(c) ==
    /\ pc[c] = "blocked"
    /\ SendEnds(c)
    /\ \E i \in DOMAIN line :
          /\ line[i] = c
          /\ line' = [j \in 1..(Len(line) - 1) |-> IF j < i THEN line[j] ELSE line[j + 1]]
    /\ UNCHANGED <<server, cur>>

\* The wait: the answer is there ...
Receive(c) ==
    /\ pc[c] = "wait" /\ answer[c] # "empty"
    /\ Returns(c, answer[c])
    /\ UNCHANGED <<server, line, cur>>

Forsaken(d, c) == IF d = c THEN Gone ELSE d

\* Faulty variant: the worker still answers the goroutine, not this request.
WaitCancelledKept(c) ==
    /\ pc[c] = "wait" /\ cancelled[c]
    /\ Returns(c, "cancelled")
    /\ line' = [i \in DOMAIN line |-> Forsaken(line[i], c)]
    /\ UNCHANGED <<server, cur>>

\* ... or its context is done, and nobody waits for the answer any more ...
WaitCancelled(c) ==
    /\ pc[c] = "wait" /\ cancelled[c]
    /\ Returns(c, "cancelled")
    /\ line' = [i \in DOMAIN line |-> Forsaken(line[i], c)]
    /\ cur' = Forsaken(cur, c)
    /\ UNCHANGED server

\* Faulty variant: no second look for an answer.
WaitStoppedBlind(c) ==
    /\ pc[c] = "wait" /\ exited
    /\ Returns(c, "stopped")
    /\ line' = [i \in DOMAIN line |-> Forsaken(line[i], c)]
    /\ UNCHANGED <<server, cur>>

\* ... or the worker is gone: an answer it left is still taken.
WaitStopped(c) ==
    /\ pc[c] = "wait" /\ exited
    /\ Returns(c, IF answer[c] # "empty" THEN answer[c] ELSE "stopped")
    /\ line' = [i \in DOMAIN line |-> Forsaken(line[i], c)]
    /\ UNCHANGED <<server, cur>>

-----------------------------------------------------------------------------
(* The worker                                                               *)

\* Faulty variant: a goroutine whose send went through is not told.
TakeQuietly ==
    /\ started /\ ~exited /\ cur = Nobody /\ line # <<>>
    /\ cur' = Head(line)
    /\ line' = Tail(line)
    /\ UNCHANGED <<server, pc, answer, cancelled, result>>

\* It takes the first request; the first goroutine blocked in a send gets in.
Take ==
    /\ started /\ ~exited /\ cur = Nobody /\ line # <<>>
    /\ cur' = Head(line)
    /\ line' = Tail(line)
    /\ pc' = IF Len(line) > QueueCap THEN [pc EXCEPT ![line[QueueCap + 1]] = "wait"] ELSE pc
    /\ UNCHANGED <<server, answer, cancelled, result>>

\* The request ends; done has room for its answer, so the worker never waits.
Finish(a) ==
    /\ cur # Nobody
    /\ cur' = Nobody
    /\ answer' = [c \in Callers |-> IF c = cur THEN a ELSE answer[c]]
    /\ UNCHANGED <<server, line, pc, cancelled, result>>

\* The end of the server's context, between two requests.
Exit ==
    /\ started /\ stopped /\ ~exited /\ cur = Nobody
    /\ exited' = TRUE
    /\ UNCHANGED <<started, stopped, line, cur, pc, answer, cancelled, result>>

-----------------------------------------------------------------------------
CallerStep(c) ==
    \/ Check(c) \/ Send(c) \/ SendGivesUp(c) \/ LeaveLine(c)
    \/ Receive(c) \/ WaitCancelled(c) \/ WaitStopped(c)

WorkerStep == Take \/ (\E a \in {"ok", "error"} : Finish(a)) \/ Exit

Next ==
    \/ Start \/ Stop \/ WorkerStep
    \/ \E c \in Callers : Submit(c) \/ Cancel(c) \/ CallerStep(c)

Spec == Init /\ [][Next]_vars

\* A runnable goroutine is scheduled, a pass over the files ends.  Nothing makes a
\* caller ask, its context end, or the server start or stop.
Fairness == WF_vars(WorkerStep) /\ \A c \in Callers : WF_vars(CallerStep(c))
FairSpec == Spec /\ Fairness

-----------------------------------------------------------------------------
LineOK == line \in Seq(Callers \union {Gone})

TypeOK ==
    /\ started \in BOOLEAN /\ stopped \in BOOLEAN /\ exited \in BOOLEAN
    /\ LineOK
    /\ cur \in Callers \union {Gone, Nobody}
    /\ pc \in [Callers -> {"idle", "check", "send", "blocked", "wait"}]
    /\ answer \in [Callers -> {"empty", "ok", "error"}]
    /\ cancelled \in [Callers -> BOOLEAN]
    /\ result \in [Callers -> {"none", "ok", "error", "cancelled", "stopped", "not started"}]

\* A request runs once and answers the goroutine that made it: whoever is in
\* line or being served waits, unanswered, for that one request, and those
\* blocked in the send are the ones behind the buffer.
OneRequestEach ==
    /\ \A i \in DOMAIN line : line[i] # Gone =>
          /\ pc[line[i]] = IF i > QueueCap THEN "blocked" ELSE "wait"
          /\ answer[line[i]] = "empty"
          /\ line[i] # cur
          /\ \A j \in DOMAIN line : line[j] = line[i] => j = i
    /\ cur \in Callers => pc[cur] = "wait" /\ answer[cur] = "empty"

\* No request is forgotten: whoever is blocked or waits unanswered is in line or
\* being served.
NobodyForgotten ==
    \A c \in Callers :
        pc[c] = "blocked" \/ (pc[c] = "wait" /\ answer[c] = "empty") =>
            cur = c \/ \E i \in DOMAIN line : line[i] = c

\* submitRequest keeps the promise of RequestService.
callOf == [c \in Callers |->
              IF pc[c] = "idle" THEN "idle"
              ELSE IF answer[c] = "empty" THEN "pending" ELSE "served"]
Promise == INSTANCE RequestService WITH call <- callOf
ServiceKept == Promise!Service

\* Every call returns: even that of a goroutine with no timeout, behind a full
\* queue, when requests keep coming or the worker stops with requests queued.
EveryCallReturns == \A c \in Callers : pc[c] # "idle" ~> pc[c] = "idle"
=============================================================================
