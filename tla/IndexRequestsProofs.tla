------------------------- MODULE IndexRequestsProofs -------------------------
(***************************************************************************)
(* submitRequest keeps the promise of RequestService for any number of     *)
(* callers and any queue.  The invariant ties each request in line or      *)
(* being served to the one goroutine that waits for it.                    *)
(***************************************************************************)
EXTENDS IndexRequests, TLAPS

\* Only a goroutine that waits can have its answer.
AnswersAwaited == \A c \in Callers : answer[c] # "empty" => pc[c] = "wait"

\* A worker that is gone serves nobody.
ExitedIdle == exited => cur = Nobody

Inv == TypeOK /\ OneRequestEach /\ AnswersAwaited /\ ExitedIdle

LEMMA InitInv == Init => Inv
<1> SUFFICES ASSUME Init PROVE Inv
  OBVIOUS
<1>1. LineOK
  BY DEF Init, LineOK
<1>2. DOMAIN line = {}
  BY DEF Init
<1> QED
  BY <1>1, <1>2, RequestAssumption DEF Init, Inv, TypeOK, OneRequestEach, AnswersAwaited, ExitedIdle

\* What is used of the line being a sequence.
LEMMA LineFacts ==
  ASSUME LineOK
  PROVE  /\ Len(line) \in Nat /\ DOMAIN line = 1..Len(line)
         /\ \A i \in DOMAIN line : line[i] \in Callers \union {Gone}
  BY DEF LineOK

LEMMA LineFromFunction ==
  ASSUME NEW n \in Nat, NEW f \in [1..n -> Callers \union {Gone}]
  PROVE  f \in Seq(Callers \union {Gone})
  OBVIOUS

LEMMA LineSame ==
  ASSUME LineOK, UNCHANGED line
  PROVE  LineOK'
  BY DEF LineOK

LEMMA ReturnsFields ==
  ASSUME TypeOK, NEW c \in Callers,
         NEW r \in {"ok", "error", "cancelled", "stopped", "not started"}, Returns(c, r)
  PROVE  /\ pc' \in [Callers -> {"idle", "check", "send", "blocked", "wait"}]
         /\ answer' \in [Callers -> {"empty", "ok", "error"}]
         /\ cancelled' \in [Callers -> BOOLEAN]
         /\ result' \in [Callers -> {"none", "ok", "error", "cancelled", "stopped", "not started"}]
         /\ pc'[c] = "idle" /\ answer'[c] = "empty"
         /\ \A d \in Callers : d # c => pc'[d] = pc[d] /\ answer'[d] = answer[d]
  BY DEF Returns, TypeOK

\* A caller that returns is no longer in line nor being served.
LEMMA ReturnKeepsInv ==
  ASSUME Inv, NEW c \in Callers,
         NEW r \in {"ok", "error", "cancelled", "stopped", "not started"}, Returns(c, r),
         UNCHANGED server,
         cur' = Forsaken(cur, c),
         line' = [i \in DOMAIN line |-> Forsaken(line[i], c)]
  PROVE  Inv'
<1>1. TypeOK'
  <2>0. LineOK
    BY DEF Inv, TypeOK
  <2>1. LineOK'
    <3>1. line' \in [1..Len(line) -> Callers \union {Gone}] /\ Len(line) \in Nat
      BY <2>0, LineFacts DEF Forsaken
    <3> QED
      BY <3>1, LineFromFunction DEF LineOK
  <2>2. cur' \in Callers \union {Gone, Nobody}
    BY DEF Inv, TypeOK, Forsaken
  <2> QED
    BY <2>1, <2>2, ReturnsFields DEF Inv, TypeOK, server
<1>2. DOMAIN line' = DOMAIN line /\ \A i \in DOMAIN line :
         line'[i] = IF line[i] = c THEN Gone ELSE line[i]
  BY DEF Inv, TypeOK, Forsaken
<1>3. OneRequestEach'
  <2>0. LineOK
    BY DEF Inv, TypeOK
  <2>1. \A i \in DOMAIN line : line[i] \in Callers \union {Gone}
    BY <2>0, LineFacts
  <2>2. \A d \in Callers : d # c => pc'[d] = pc[d] /\ answer'[d] = answer[d]
    BY ReturnsFields DEF Inv
  <2>3. ASSUME NEW i \in DOMAIN line', line'[i] # Gone
        PROVE  /\ pc'[line'[i]] = IF i > QueueCap THEN "blocked" ELSE "wait"
               /\ answer'[line'[i]] = "empty"
               /\ line'[i] # cur'
               /\ \A j \in DOMAIN line' : line'[j] = line'[i] => j = i
    <3>1. i \in DOMAIN line /\ line'[i] = line[i] /\ line[i] \in Callers /\ line[i] # c
      BY <1>2, <2>1, <2>3
    <3>2. pc'[line'[i]] = pc[line[i]] /\ answer'[line'[i]] = answer[line[i]]
      BY <2>2, <3>1
    <3> QED
      BY <1>2, <2>3, <3>1, <3>2 DEF Inv, OneRequestEach, Forsaken
  <2>4. cur' \in Callers => pc'[cur'] = "wait" /\ answer'[cur'] = "empty"
    BY <2>2, RequestAssumption DEF Inv, OneRequestEach, Forsaken
  <2> QED
    BY <2>3, <2>4 DEF OneRequestEach
<1>4. AnswersAwaited'
  BY ReturnsFields DEF Inv, AnswersAwaited
<1>5. ExitedIdle'
  BY RequestAssumption DEF Inv, ExitedIdle, Forsaken, server
<1> QED
  BY <1>1, <1>3, <1>4, <1>5 DEF Inv

\* A caller that returns without ever having been in line.
LEMMA ReturnOutsideKeepsInv ==
  ASSUME Inv, NEW c \in Callers,
         NEW r \in {"ok", "error", "cancelled", "stopped", "not started"}, Returns(c, r),
         UNCHANGED <<server, line, cur>>,
         pc[c] \notin {"blocked", "wait"} \/ answer[c] # "empty"
  PROVE  Inv'
<1>1. cur # c /\ \A i \in DOMAIN line : line[i] # c
  BY RequestAssumption DEF Inv, OneRequestEach
<1>2. TypeOK'
  BY ReturnsFields, LineSame DEF Inv, TypeOK, server
<1>3. OneRequestEach'
  <2>0. LineOK
    BY DEF Inv, TypeOK
  <2>1. \A i \in DOMAIN line : line[i] \in Callers \union {Gone}
    BY <2>0, LineFacts
  <2>2. \A d \in Callers : d # c => pc'[d] = pc[d] /\ answer'[d] = answer[d]
    BY ReturnsFields DEF Inv
  <2>3. ASSUME NEW i \in DOMAIN line, line[i] # Gone
        PROVE  pc'[line[i]] = pc[line[i]] /\ answer'[line[i]] = answer[line[i]]
    BY <1>1, <2>1, <2>2, <2>3
  <2>4. cur \in Callers => pc'[cur] = pc[cur] /\ answer'[cur] = answer[cur]
    BY <1>1, <2>2
  <2> QED
    BY <2>3, <2>4 DEF Inv, OneRequestEach
<1>4. AnswersAwaited'
  BY ReturnsFields DEF Inv, AnswersAwaited
<1> QED
  BY <1>2, <1>3, <1>4 DEF Inv, ExitedIdle, server

LEMMA CallerKeepsInv ==
  ASSUME Inv, NEW c \in Callers, Submit(c) \/ Cancel(c) \/ CallerStep(c)
  PROVE  Inv'
<1> USE DEF Inv
<1>0. /\ TypeOK /\ LineOK /\ Len(line) \in Nat /\ DOMAIN line = 1..Len(line)
      /\ \A i \in DOMAIN line : line[i] \in Callers \union {Gone}
  BY LineFacts DEF TypeOK
<1>1. CASE Submit(c) \/ Cancel(c) \/ (Check(c) /\ started /\ ~exited)
  <2>1. /\ UNCHANGED <<started, stopped, exited, line, cur, answer, result>>
        /\ pc' = pc \/ \E s \in {"check", "send"} : pc' = [pc EXCEPT ![c] = s]
        /\ pc' # pc => pc[c] \notin {"blocked", "wait"}
        /\ cancelled' = cancelled \/ cancelled' = [cancelled EXCEPT ![c] = TRUE]
    BY <1>1 DEF Submit, Cancel, Check, server
  <2>2. TypeOK'
    BY <1>0, <2>1, LineSame DEF TypeOK
  <2>3. pc \in [Callers -> {"idle", "check", "send", "blocked", "wait"}]
    BY DEF TypeOK
  <2>4. \A d \in Callers : pc[d] \in {"blocked", "wait"} => pc'[d] = pc[d]
    BY <2>1, <2>3
  <2>5. OneRequestEach'
    BY <1>0, <2>1, <2>4 DEF OneRequestEach
  <2>6. AnswersAwaited'
    BY <2>1, <2>4 DEF AnswersAwaited
  <2> QED
    BY <2>1, <2>2, <2>5, <2>6 DEF ExitedIdle
<1>2. CASE Check(c) /\ ~(started /\ ~exited)
  BY <1>2, ReturnOutsideKeepsInv DEF Check
<1>3. CASE Send(c)
  <2>1. /\ line' = Append(line, c) /\ pc[c] = "send"
        /\ pc' = [pc EXCEPT ![c] = IF Len(line) < QueueCap THEN "wait" ELSE "blocked"]
        /\ UNCHANGED <<started, stopped, exited, cur, answer, cancelled, result>>
    BY <1>3 DEF Send, server
  <2>2. LineOK'
    BY <1>0, <2>1 DEF LineOK
  <2>3. TypeOK'
    BY <1>0, <2>1, <2>2 DEF TypeOK
  <2>4. cur # c /\ \A i \in DOMAIN line : line[i] # c
    BY <2>1, RequestAssumption DEF OneRequestEach
  <2>5. /\ DOMAIN line' = 1..(Len(line) + 1)
        /\ line'[Len(line) + 1] = c /\ \A i \in DOMAIN line : line'[i] = line[i]
    BY <1>0, <2>1 DEF LineOK
  <2>6. answer[c] = "empty"
    BY <2>1 DEF AnswersAwaited
  <2>7. /\ pc'[c] = IF Len(line) + 1 > QueueCap THEN "blocked" ELSE "wait"
        /\ \A d \in Callers : d # c => pc'[d] = pc[d]
    <3>1. pc \in [Callers -> {"idle", "check", "send", "blocked", "wait"}]
      BY DEF TypeOK
    <3>2. Len(line) < QueueCap <=> ~(Len(line) + 1 > QueueCap)
      BY <1>0, RequestAssumption
    <3> QED
      BY <2>1, <3>1, <3>2
  <2>8. OneRequestEach'
    BY <1>0, <2>1, <2>4, <2>5, <2>6, <2>7, RequestAssumption DEF OneRequestEach
  <2>9. AnswersAwaited'
    BY <2>1, <2>6, <2>7 DEF AnswersAwaited
  <2> QED
    BY <2>1, <2>3, <2>8, <2>9 DEF ExitedIdle
<1>4. CASE SendGivesUp(c)
  BY <1>4, ReturnOutsideKeepsInv DEF SendGivesUp, SendEnds
<1>5. CASE LeaveLine(c)
  <2>1. PICK r \in {"cancelled", "stopped"} : Returns(c, r)
    BY <1>5 DEF LeaveLine, SendEnds
  <2>2. PICK n \in DOMAIN line :
           /\ line[n] = c
           /\ line' = [j \in 1..(Len(line) - 1) |-> IF j < n THEN line[j] ELSE line[j + 1]]
    BY <1>5 DEF LeaveLine
  <2>3. UNCHANGED <<started, stopped, exited, cur>> /\ pc[c] = "blocked"
    BY <1>5 DEF LeaveLine, server
  <2>4. /\ pc' \in [Callers -> {"idle", "check", "send", "blocked", "wait"}]
        /\ answer' \in [Callers -> {"empty", "ok", "error"}]
        /\ cancelled' \in [Callers -> BOOLEAN]
        /\ result' \in [Callers -> {"none", "ok", "error", "cancelled", "stopped", "not started"}]
        /\ pc'[c] = "idle" /\ answer'[c] = "empty"
        /\ \A d \in Callers : d # c => pc'[d] = pc[d] /\ answer'[d] = answer[d]
    BY <1>0, <2>1, ReturnsFields
  <2>5. n \in 1..Len(line) /\ n > QueueCap /\ cur # c /\ \A j \in DOMAIN line : line[j] = c => j = n
    BY <1>0, <2>2, <2>3, RequestAssumption DEF OneRequestEach
  <2>6. /\ DOMAIN line' = 1..(Len(line) - 1)
        /\ \A j \in DOMAIN line' : line'[j] \in Callers \union {Gone}
    BY <1>0, <2>2, <2>5
  <2>7. LineOK'
    <3>1. line' \in [1..(Len(line) - 1) -> Callers \union {Gone}] /\ Len(line) - 1 \in Nat
      BY <1>0, <2>2, <2>5
    <3> QED
      BY <3>1 DEF LineOK
  <2>8. TypeOK'
    BY <1>0, <2>3, <2>4, <2>7 DEF TypeOK
  <2>9. ASSUME NEW j \in DOMAIN line'
        PROVE  \E i \in DOMAIN line : /\ i # n /\ line'[j] = line[i]
                                      /\ i > QueueCap <=> j > QueueCap
                                      /\ i = IF j < n THEN j ELSE j + 1
    BY <1>0, <2>2, <2>5, <2>6, RequestAssumption
  <2>10. ASSUME NEW j \in DOMAIN line', line'[j] # Gone
         PROVE  /\ pc'[line'[j]] = IF j > QueueCap THEN "blocked" ELSE "wait"
                /\ answer'[line'[j]] = "empty"
                /\ line'[j] # cur'
                /\ \A h \in DOMAIN line' : line'[h] = line'[j] => h = j
    <3>1. PICK i \in DOMAIN line : /\ i # n /\ line'[j] = line[i]
                                   /\ i > QueueCap <=> j > QueueCap
                                   /\ i = IF j < n THEN j ELSE j + 1
      BY <2>9
    <3>2. line[i] \in Callers /\ line[i] # c
      BY <1>0, <2>5, <2>10, <3>1
    <3>3. /\ pc[line[i]] = IF i > QueueCap THEN "blocked" ELSE "wait"
          /\ answer[line[i]] = "empty" /\ line[i] # cur
          /\ \A h \in DOMAIN line : line[h] = line[i] => h = i
      BY <2>10, <3>1 DEF OneRequestEach
    <3>4. ASSUME NEW h \in DOMAIN line', line'[h] = line'[j] PROVE h = j
      <4>1. PICK g \in DOMAIN line : /\ line'[h] = line[g]
                                     /\ g = IF h < n THEN h ELSE h + 1
        BY <2>9
      <4>2. g = i
        BY <3>1, <3>3, <3>4, <4>1
      <4> QED
        BY <1>0, <2>5, <2>6, <3>1, <4>1, <4>2
    <3> QED
      BY <2>3, <2>4, <3>1, <3>2, <3>3, <3>4
  <2>11. cur \in Callers => pc'[cur] = "wait" /\ answer'[cur] = "empty"
    BY <2>4, <2>5 DEF OneRequestEach
  <2>12. OneRequestEach'
    BY <2>3, <2>10, <2>11 DEF OneRequestEach
  <2>13. AnswersAwaited'
    BY <2>4 DEF AnswersAwaited
  <2> QED
    BY <2>3, <2>8, <2>12, <2>13 DEF ExitedIdle
<1>6. CASE Receive(c)
  <2>1. answer[c] \in {"ok", "error"}
    BY <1>6 DEF Receive, TypeOK
  <2> QED
    BY <1>6, <2>1, ReturnOutsideKeepsInv DEF Receive
<1>7. CASE WaitCancelled(c)
  BY <1>7, ReturnKeepsInv DEF WaitCancelled
<1>8. CASE WaitStopped(c)
  <2>1. PICK r \in {"ok", "error", "stopped"} : Returns(c, r)
    <3>1. answer[c] \in {"empty", "ok", "error"}
      BY DEF TypeOK
    <3> QED
      BY <1>8, <3>1 DEF WaitStopped
  <2>2. cur' = Forsaken(cur, c)
    BY <1>8, RequestAssumption DEF WaitStopped, ExitedIdle, Forsaken
  <2> QED
    BY <1>8, <2>1, <2>2, ReturnKeepsInv DEF WaitStopped
<1> QED
  BY <1>1, <1>2, <1>3, <1>4, <1>5, <1>6, <1>7, <1>8 DEF CallerStep

LEMMA WorkerKeepsInv ==
  ASSUME Inv, WorkerStep
  PROVE  Inv'
<1> USE DEF Inv
<1>0. /\ TypeOK /\ LineOK /\ Len(line) \in Nat /\ DOMAIN line = 1..Len(line)
      /\ \A i \in DOMAIN line : line[i] \in Callers \union {Gone}
      /\ pc \in [Callers -> {"idle", "check", "send", "blocked", "wait"}]
  BY LineFacts DEF TypeOK
<1>1. CASE Take
  <2>1. /\ cur = Nobody /\ cur' = line[1] /\ line' = Tail(line) /\ 1 \in DOMAIN line
        /\ UNCHANGED <<started, stopped, exited, answer, cancelled, result>> /\ ~exited
    BY <1>0, <1>1 DEF Take, server, LineOK
  <2>2. /\ DOMAIN line' = 1..(Len(line) - 1)
        /\ \A j \in DOMAIN line' : j + 1 \in DOMAIN line /\ line'[j] = line[j + 1]
    BY <1>0, <2>1 DEF LineOK
  <2>3. LineOK'
    BY <1>0, <2>1 DEF LineOK
  <2>4. pc' = IF Len(line) > QueueCap THEN [pc EXCEPT ![line[QueueCap + 1]] = "wait"] ELSE pc
    BY <1>1 DEF Take
  <2>5. pc' \in [Callers -> {"idle", "check", "send", "blocked", "wait"}]
    BY <1>0, <2>4
  <2>6. TypeOK'
    BY <1>0, <2>1, <2>3, <2>5 DEF TypeOK
  <2>7. QueueCap \in Nat \ {0} /\ (Len(line) > QueueCap => QueueCap + 1 \in DOMAIN line)
    BY <1>0, RequestAssumption
  <2>8. \A d \in Callers : /\ pc'[d] = pc[d] \/ pc'[d] = "wait"
                           /\ (Len(line) > QueueCap => d # line[QueueCap + 1]) => pc'[d] = pc[d]
                           /\ Len(line) > QueueCap /\ d = line[QueueCap + 1] => pc'[d] = "wait"
    BY <1>0, <2>4
  <2>9. ASSUME NEW j \in DOMAIN line', line'[j] # Gone
        PROVE  /\ pc'[line'[j]] = IF j > QueueCap THEN "blocked" ELSE "wait"
               /\ answer'[line'[j]] = "empty"
               /\ line'[j] # cur'
               /\ \A h \in DOMAIN line' : line'[h] = line'[j] => h = j
    <3>1. j \in Nat /\ j > 0 /\ j + 1 \in DOMAIN line /\ line'[j] = line[j + 1] /\ line[j + 1] \in Callers
      BY <1>0, <2>2, <2>9
    <3>2. /\ pc[line[j + 1]] = IF j + 1 > QueueCap THEN "blocked" ELSE "wait"
          /\ answer[line[j + 1]] = "empty"
          /\ \A h \in DOMAIN line : line[h] = line[j + 1] => h = j + 1
      BY <2>9, <3>1 DEF OneRequestEach
    <3>3. line'[j] # cur' /\ \A h \in DOMAIN line' : line'[h] = line'[j] => h = j
      <4>1. line[1] # line[j + 1]
        BY <2>1, <3>1, <3>2
      <4>2. \A h \in DOMAIN line' : h \in Nat
        BY <1>0, <2>2
      <4> QED
        BY <2>1, <2>2, <3>1, <3>2, <4>1, <4>2
    <3>4. CASE j = QueueCap
      BY <1>0, <2>1, <2>7, <2>8, <3>1, <3>2, <3>3, <3>4
    <3>5. CASE j # QueueCap
      <4>1. Len(line) > QueueCap => line[j + 1] # line[QueueCap + 1]
        BY <2>7, <3>1, <3>2, <3>5
      <4>2. pc'[line[j + 1]] = pc[line[j + 1]]
        BY <2>8, <3>1, <4>1
      <4>3. j > QueueCap <=> j + 1 > QueueCap
        BY <2>7, <3>1, <3>5
      <4> QED
        BY <2>1, <3>1, <3>2, <3>3, <4>2, <4>3
    <3> QED
      BY <3>4, <3>5
  <2>10. ASSUME cur' \in Callers PROVE pc'[cur'] = "wait" /\ answer'[cur'] = "empty"
    <3>1. line[1] \in Callers /\ line[1] # Gone
      BY <2>1, <2>10, RequestAssumption
    <3>2. pc[line[1]] = "wait" /\ answer[line[1]] = "empty"
      BY <2>1, <2>7, <3>1 DEF OneRequestEach
    <3> QED
      BY <2>1, <2>8, <3>1, <3>2
  <2>11. OneRequestEach'
    BY <2>9, <2>10 DEF OneRequestEach
  <2>12. AnswersAwaited'
    BY <2>1, <2>8 DEF AnswersAwaited
  <2> QED
    BY <2>1, <2>6, <2>11, <2>12 DEF ExitedIdle
<1>2. ASSUME NEW a \in {"ok", "error"}, Finish(a) PROVE Inv'
  <2>1. /\ cur # Nobody /\ cur' = Nobody
        /\ answer' = [c \in Callers |-> IF c = cur THEN a ELSE answer[c]]
        /\ UNCHANGED <<started, stopped, exited, line, pc, cancelled, result>>
    BY <1>2 DEF Finish, server
  <2>2. TypeOK'
    BY <1>0, <2>1, LineSame DEF TypeOK
  <2>3. cur' \notin Callers /\ cur' # Gone
    BY <2>1, RequestAssumption
  <2>4. \A i \in DOMAIN line : line[i] # Gone => answer'[line[i]] = answer[line[i]] /\ line[i] # cur'
    BY <1>0, <2>1, <2>3 DEF OneRequestEach
  <2>5. OneRequestEach'
    BY <2>1, <2>3, <2>4 DEF OneRequestEach
  <2>6. AnswersAwaited'
    BY <2>1 DEF AnswersAwaited, OneRequestEach
  <2> QED
    BY <2>1, <2>2, <2>5, <2>6 DEF ExitedIdle
<1>3. CASE Exit
  BY <1>0, <1>3, LineSame DEF Exit, TypeOK, OneRequestEach, AnswersAwaited, ExitedIdle
<1> QED
  BY <1>1, <1>2, <1>3 DEF WorkerStep

LEMMA NextKeepsInv == Inv /\ [Next]_vars => Inv'
<1> SUFFICES ASSUME Inv, [Next]_vars PROVE Inv'
  OBVIOUS
<1>1. CASE Start \/ Stop
  <2>1. /\ UNCHANGED <<exited, line, cur, pc, answer, cancelled, result>>
        /\ started' \in {started, TRUE} /\ stopped' \in {stopped, TRUE}
    BY <1>1 DEF Start, Stop
  <2>2. TypeOK'
    BY <2>1, LineSame DEF Inv, TypeOK
  <2>3. OneRequestEach' /\ AnswersAwaited' /\ ExitedIdle'
    BY <2>1 DEF Inv, OneRequestEach, AnswersAwaited, ExitedIdle
  <2> QED
    BY <2>2, <2>3 DEF Inv
<1>2. CASE UNCHANGED vars
  BY <1>2, LineSame DEF vars, server, Inv, TypeOK, OneRequestEach, AnswersAwaited, ExitedIdle
<1> QED
  BY <1>1, <1>2, CallerKeepsInv, WorkerKeepsInv DEF Next

LEMMA InvHolds == Spec => []Inv
  BY InitInv, NextKeepsInv, PTL DEF Spec

\* The state of the queue stays one the code can be in.
THEOREM TypeCorrect == Spec => []TypeOK
<1>1. Inv => TypeOK
  BY DEF Inv
<1> QED
  BY <1>1, InvHolds, PTL

\* However many goroutines send, give up and come back, a request in the channel
\* or with the worker belongs to the one goroutine that waits for it
\* (submitRequest, worker).
THEOREM NoCrossedAnswers == Spec => []OneRequestEach
<1>1. Inv => OneRequestEach
  BY DEF Inv
<1> QED
  BY <1>1, InvHolds, PTL

-----------------------------------------------------------------------------
(* No request is forgotten                                                  *)

Owed(c) == pc[c] = "blocked" \/ (pc[c] = "wait" /\ answer[c] = "empty")
Held(c) == cur = c \/ \E i \in DOMAIN line : line[i] = c

\* A step forgets nobody if whoever is owed an answer after it was owed one
\* before, or has just sent, and nobody's request is dropped.
LEMMA CallerForgetsNobody ==
  ASSUME Inv, NobodyForgotten, NEW c \in Callers, Submit(c) \/ Cancel(c) \/ CallerStep(c)
  PROVE  NobodyForgotten'
<1>0. /\ LineOK /\ Len(line) \in Nat /\ DOMAIN line = 1..Len(line)
      /\ pc \in [Callers -> {"idle", "check", "send", "blocked", "wait"}]
      /\ answer \in [Callers -> {"empty", "ok", "error"}]
      /\ \A d \in Callers : Owed(d) => Held(d)
  <2>1. LineOK
    BY DEF Inv, TypeOK
  <2> QED
    BY <2>1, LineFacts DEF Inv, TypeOK, NobodyForgotten, Owed, Held
<1>1. ASSUME NEW d \in Callers, d # c, Owed(d)' PROVE Held(d)'
  <2>1. Owed(d)
    BY <1>0, <1>1 DEF Owed, CallerStep, Submit, Cancel, Check, Send, SendGivesUp, SendEnds,
                      LeaveLine, Receive, WaitCancelled, WaitStopped, Returns
  <2>2. CASE UNCHANGED <<line, cur>>
    BY <1>0, <2>1, <2>2 DEF Held
  <2>3. CASE Send(c)
    <3>1. line' = Append(line, c) /\ cur' = cur
      BY <2>3 DEF Send
    <3>2. DOMAIN line' = 1..(Len(line) + 1) /\ \A i \in DOMAIN line : line'[i] = line[i]
      BY <1>0, <3>1 DEF LineOK
    <3> QED
      BY <1>0, <2>1, <3>1, <3>2 DEF Held
  <2>4. CASE LeaveLine(c)
    <3>1. PICK n \in DOMAIN line :
             /\ line[n] = c
             /\ line' = [j \in 1..(Len(line) - 1) |-> IF j < n THEN line[j] ELSE line[j + 1]]
      BY <2>4 DEF LeaveLine
    <3>2. cur' = cur
      BY <2>4 DEF LeaveLine
    <3>3. ASSUME NEW i \in DOMAIN line, line[i] = d PROVE \E j \in DOMAIN line' : line'[j] = d
      <4>1. i # n /\ i \in 1..Len(line) /\ n \in 1..Len(line)
        BY <1>0, <1>1, <3>1, <3>3
      <4>2. CASE i < n
        BY <1>0, <3>1, <3>3, <4>1, <4>2
      <4>3. CASE i > n
        <5>1. i - 1 \in 1..(Len(line) - 1) /\ ~(i - 1 < n) /\ (i - 1) + 1 = i
          BY <1>0, <4>1, <4>3
        <5> QED
          BY <3>1, <3>3, <5>1
      <4> QED
        BY <4>1, <4>2, <4>3
    <3> QED
      BY <1>0, <2>1, <3>2, <3>3 DEF Held
  <2>5. CASE WaitCancelled(c) \/ WaitStopped(c)
    <3>1. line' = [i \in DOMAIN line |-> Forsaken(line[i], c)] /\ cur' \in {cur, Forsaken(cur, c)}
      BY <2>5 DEF WaitCancelled, WaitStopped
    <3> QED
      BY <1>0, <1>1, <2>1, <3>1 DEF Held, Forsaken
  <2> QED
    BY <2>2, <2>3, <2>4, <2>5 DEF CallerStep, Submit, Cancel, Check, SendGivesUp, Receive
<1>2. ASSUME Owed(c)' PROVE Held(c)'
  <2>1. CASE Send(c)
    <3>1. line' = Append(line, c)
      BY <2>1 DEF Send
    <3>2. Len(line) + 1 \in DOMAIN line' /\ line'[Len(line) + 1] = c
      BY <1>0, <3>1 DEF LineOK
    <3> QED
      BY <3>2 DEF Held
  <2>2. CASE Cancel(c)
    BY <1>0, <1>2, <2>2 DEF Cancel, Owed, Held
  <2>3. CASE ~Send(c) /\ ~Cancel(c)
    <3>1. pc'[c] \in {"idle", "check", "send"}
      BY <1>0, <2>3 DEF CallerStep, Submit, Check, SendGivesUp, SendEnds, LeaveLine,
                        Receive, WaitCancelled, WaitStopped, Returns
    <3> QED
      BY <1>2, <3>1 DEF Owed
  <2> QED
    BY <2>1, <2>2, <2>3
<1> QED
  BY <1>1, <1>2 DEF NobodyForgotten, Owed, Held

LEMMA WorkerForgetsNobody ==
  ASSUME Inv, NobodyForgotten, WorkerStep
  PROVE  NobodyForgotten'
<1>0. /\ LineOK /\ Len(line) \in Nat /\ DOMAIN line = 1..Len(line)
      /\ pc \in [Callers -> {"idle", "check", "send", "blocked", "wait"}]
      /\ answer \in [Callers -> {"empty", "ok", "error"}]
      /\ \A d \in Callers : Owed(d) => Held(d)
      /\ \A i \in DOMAIN line : line[i] # Gone => Owed(line[i])
  <2>1. LineOK
    BY DEF Inv, TypeOK
  <2> QED
    BY <2>1, LineFacts DEF Inv, TypeOK, OneRequestEach, NobodyForgotten, Owed, Held
<1>1. CASE Take
  <2>1. /\ cur = Nobody /\ cur' = line[1] /\ line' = Tail(line) /\ answer' = answer
        /\ DOMAIN line' = 1..(Len(line) - 1)
        /\ \A j \in DOMAIN line' : line'[j] = line[j + 1]
    BY <1>0, <1>1 DEF Take, LineOK
  <2>2. ASSUME NEW d \in Callers, Owed(d)' PROVE Owed(d)
    <3>1. pc' = IF Len(line) > QueueCap THEN [pc EXCEPT ![line[QueueCap + 1]] = "wait"] ELSE pc
      BY <1>1 DEF Take
    <3>2. CASE Len(line) > QueueCap /\ d = line[QueueCap + 1]
      BY <1>0, <3>2, RequestAssumption
    <3>3. CASE ~(Len(line) > QueueCap /\ d = line[QueueCap + 1])
      BY <1>0, <2>1, <2>2, <3>1, <3>3 DEF Owed
    <3> QED
      BY <3>2, <3>3
  <2>3. ASSUME NEW d \in Callers, Held(d) PROVE Held(d)'
    <3>1. PICK i \in DOMAIN line : line[i] = d
      BY <2>1, <2>3, RequestAssumption DEF Held
    <3>2. CASE i = 1
      BY <2>1, <3>1, <3>2 DEF Held
    <3>3. CASE i # 1
      <4>1. i - 1 \in DOMAIN line' /\ (i - 1) + 1 = i
        BY <1>0, <2>1, <3>3
      <4>2. line'[i - 1] = d
        BY <2>1, <3>1, <4>1
      <4> QED
        BY <4>1, <4>2 DEF Held
    <3> QED
      BY <3>2, <3>3
  <2> QED
    BY <1>0, <2>2, <2>3 DEF NobodyForgotten, Owed, Held
<1>2. ASSUME NEW a \in {"ok", "error"}, Finish(a) PROVE NobodyForgotten'
  <2>1. /\ answer' = [d \in Callers |-> IF d = cur THEN a ELSE answer[d]]
        /\ UNCHANGED <<line, pc>>
    BY <1>2 DEF Finish
  <2>2. ASSUME NEW d \in Callers, Owed(d)' PROVE Owed(d) /\ (d = cur => pc[d] = "blocked")
    BY <1>0, <2>1, <2>2 DEF Owed
  <2>3. cur \in Callers => pc[cur] = "wait"
    BY DEF Inv, OneRequestEach
  <2> QED
    BY <1>0, <2>1, <2>2, <2>3 DEF NobodyForgotten, Owed, Held
<1>3. CASE Exit
  BY <1>3 DEF Exit, NobodyForgotten
<1> QED
  BY <1>1, <1>2, <1>3 DEF WorkerStep

\* No request that went into the channel, or is blocked on it, is lost: the
\* goroutine that is owed an answer is in line or with the worker
\* (submitRequest, worker).
THEOREM NothingForgotten == Spec => []NobodyForgotten
<1>1. Init => NobodyForgotten
  BY DEF Init, NobodyForgotten
<1>2. Inv /\ NobodyForgotten /\ [Next]_vars => NobodyForgotten'
  <2> SUFFICES ASSUME Inv, NobodyForgotten, [Next]_vars PROVE NobodyForgotten'
    OBVIOUS
  <2>1. CASE Start \/ Stop \/ UNCHANGED vars
    BY <2>1 DEF Start, Stop, vars, NobodyForgotten
  <2> QED
    BY <2>1, CallerForgetsNobody, WorkerForgetsNobody DEF Next
<1> QED
  BY <1>1, <1>2, InvHolds, PTL DEF Spec

-----------------------------------------------------------------------------
(* submitRequest implements RequestService                                  *)

LEMMA InitPromised == Init => Promise!ServiceInit
  BY DEF Init, Promise!ServiceInit, callOf

\* A return of submitRequest is one the service allows.
LEMMA ReturnPromised ==
  ASSUME Inv, NEW c \in Callers, pc[c] # "idle",
         NEW r \in {"ok", "error", "cancelled", "stopped", "not started"}, Returns(c, r),
         \/ r = answer[c]
         \/ r \in {"stopped", "not started"} /\ answer[c] = "empty"
         \/ r = "cancelled"
  PROVE  Promise!Return(c, r)
<1>1. callOf' = [callOf EXCEPT ![c] = "idle"]
  <2>1. pc' = [pc EXCEPT ![c] = "idle"] /\ answer' = [answer EXCEPT ![c] = "empty"]
    BY DEF Returns
  <2> QED
    BY <2>1 DEF callOf, Inv, TypeOK
<1>2. callOf[c] = IF answer[c] = "empty" THEN "pending" ELSE "served"
  BY DEF callOf
<1>3. answer[c] \in {"empty", "ok", "error"} /\ result' = [result EXCEPT ![c] = r]
  BY DEF Inv, TypeOK, Returns
<1> QED
  BY <1>1, <1>2, <1>3 DEF Promise!Return, Promise!Answers

LEMMA CallerPromised ==
  ASSUME Inv, NEW c \in Callers, Submit(c) \/ Cancel(c) \/ CallerStep(c)
  PROVE  Promise!ServiceNext \/ UNCHANGED <<callOf, result>>
<1>0. /\ pc \in [Callers -> {"idle", "check", "send", "blocked", "wait"}]
      /\ answer \in [Callers -> {"empty", "ok", "error"}]
      /\ pc[c] # "wait" => answer[c] = "empty"
      /\ pc[c] = "wait" /\ answer[c] # "empty" => answer[c] \in {"ok", "error"}
  BY DEF Inv, TypeOK, AnswersAwaited
<1>1. CASE Submit(c)
  <2>1. pc[c] = "idle" /\ pc' = [pc EXCEPT ![c] = "check"] /\ UNCHANGED <<answer, result>>
    BY <1>1 DEF Submit
  <2>2. callOf[c] = "idle" /\ callOf' = [callOf EXCEPT ![c] = "pending"]
    BY <1>0, <2>1 DEF callOf
  <2> QED
    BY <2>1, <2>2 DEF Promise!ServiceNext, Promise!Ask
<1>2. CASE Cancel(c)
  BY <1>2 DEF Cancel, callOf
<1>3. CASE (Check(c) /\ started /\ ~exited) \/ Send(c)
  <2>1. PICK s \in {"send", "wait", "blocked"} :
           pc[c] # "idle" /\ pc' = [pc EXCEPT ![c] = s] /\ UNCHANGED <<answer, result>>
    BY <1>3 DEF Check, Send
  <2> QED
    BY <1>0, <2>1 DEF callOf
<1>4. ASSUME NEW r \in {"ok", "error", "cancelled", "stopped", "not started"}, Promise!Return(c, r)
      PROVE  Promise!ServiceNext
  BY <1>4 DEF Promise!ServiceNext, Promise!Answers
<1>5. CASE Check(c) /\ ~(started /\ ~exited)
  BY <1>0, <1>4, <1>5, ReturnPromised DEF Check
<1>6. CASE SendGivesUp(c) \/ LeaveLine(c)
  BY <1>0, <1>4, <1>6, ReturnPromised DEF SendGivesUp, LeaveLine, SendEnds
<1>7. CASE Receive(c)
  BY <1>0, <1>4, <1>7, ReturnPromised DEF Receive
<1>8. CASE WaitCancelled(c)
  BY <1>4, <1>8, ReturnPromised DEF WaitCancelled
<1>9. CASE WaitStopped(c)
  <2>1. pc[c] = "wait" /\ Returns(c, IF answer[c] # "empty" THEN answer[c] ELSE "stopped")
    BY <1>9 DEF WaitStopped
  <2>2. CASE answer[c] = "empty"
    BY <1>4, <2>1, <2>2, ReturnPromised
  <2>3. CASE answer[c] # "empty"
    BY <1>0, <1>4, <2>1, <2>3, ReturnPromised
  <2> QED
    BY <2>2, <2>3
<1> QED
  BY <1>1, <1>2, <1>3, <1>5, <1>6, <1>7, <1>8, <1>9 DEF CallerStep

LEMMA WorkerPromised ==
  ASSUME Inv, WorkerStep
  PROVE  Promise!ServiceNext \/ UNCHANGED <<callOf, result>>
<1>0. /\ pc \in [Callers -> {"idle", "check", "send", "blocked", "wait"}]
      /\ answer \in [Callers -> {"empty", "ok", "error"}]
      /\ cur \in Callers => pc[cur] = "wait" /\ answer[cur] = "empty"
  BY DEF Inv, TypeOK, OneRequestEach
<1>1. CASE Take
  <2>1. UNCHANGED <<answer, result>>
    BY <1>1 DEF Take
  <2>2. \A c \in Callers : pc'[c] = pc[c] \/ (pc[c] # "idle" /\ pc'[c] # "idle")
    <3>1. CASE Len(line) > QueueCap
      <4>1. pc' = [pc EXCEPT ![line[QueueCap + 1]] = "wait"]
        BY <1>1, <3>1 DEF Take
      <4>2. QueueCap + 1 \in DOMAIN line
        <5>1. LineOK
          BY DEF Inv, TypeOK
        <5> QED
          BY <3>1, <5>1, LineFacts, RequestAssumption
      <4>3. line[QueueCap + 1] # Gone => pc[line[QueueCap + 1]] # "idle"
        BY <4>2 DEF Inv, OneRequestEach
      <4> QED
        BY <1>0, <4>1, <4>3, RequestAssumption
    <3> QED
      BY <1>1, <3>1 DEF Take
  <2> QED
    BY <2>1, <2>2 DEF callOf
<1>2. ASSUME NEW a \in {"ok", "error"}, Finish(a)
      PROVE  Promise!ServiceNext \/ UNCHANGED <<callOf, result>>
  <2>1. /\ answer' = [c \in Callers |-> IF c = cur THEN a ELSE answer[c]]
        /\ UNCHANGED <<pc, result>>
    BY <1>2 DEF Finish
  <2>2. CASE cur \in Callers
    <3>1. callOf[cur] = "pending" /\ callOf' = [callOf EXCEPT ![cur] = "served"]
      BY <1>0, <2>1, <2>2 DEF callOf
    <3> QED
      BY <2>1, <2>2, <3>1 DEF Promise!ServiceNext, Promise!Serve
  <2>3. CASE cur \notin Callers
    BY <1>0, <2>1, <2>3 DEF callOf
  <2> QED
    BY <2>2, <2>3
<1>3. CASE Exit
  BY <1>3 DEF Exit, callOf
<1> QED
  BY <1>1, <1>2, <1>3 DEF WorkerStep

\* submitRequest, the channel and the worker together keep the promise: no
\* answer without a request served, no "stopped" for one that was, whatever the
\* interleaving of cancellations, a full channel and the end of the worker.
THEOREM PromiseKept == Spec => ServiceKept
<1>1. Inv /\ [Next]_vars => [Promise!ServiceNext]_<<callOf, result>>
  <2> SUFFICES ASSUME Inv, [Next]_vars PROVE Promise!ServiceNext \/ UNCHANGED <<callOf, result>>
    OBVIOUS
  <2>1. CASE Start \/ Stop \/ UNCHANGED vars
    BY <2>1 DEF Start, Stop, vars, callOf
  <2> QED
    BY <2>1, CallerPromised, WorkerPromised DEF Next
<1> QED
  BY <1>1, InitPromised, InvHolds, PTL DEF Spec, ServiceKept, Promise!Service
=============================================================================
