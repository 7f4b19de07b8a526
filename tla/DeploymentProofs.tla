--------------------------- MODULE DeploymentProofs -------------------------
(***************************************************************************)
(* Theorems about Deployment: the clients' state keeps its invariant, and  *)
(* everything that the worker processes do to the tables is a step of      *)
(* Engine, so that the theorems of EngineProofs hold in the composition.   *)
(***************************************************************************)
EXTENDS Deployment, EngineProofs

ClientInv == ClientTypeOK /\ AnswersMatch

-----------------------------------------------------------------------------
(* Processes *)

LEMMA NotRunningOK ==
  ASSUME NEW pc \in {"new", "exited"}
  PROVE  ProcessOK(NotRunning(pc))
BY DEF NotRunning, ProcessOK, Processes, PCs, Todos, Calls, Ops, NoCall, Call, CallOK

\* A process that makes a call, and one that waits for its answer.
LEMMA CallingOK ==
  ASSUME NEW p, ProcessOK(p), p.pc = "decide", clock \in Nat,
         NEW call \in Calls, CallOK(call, p.wf)
  PROVE  /\ Calling(p, call) \in Processes
         /\ ProcessOK([Calling(p, call) EXCEPT !.pc = "await"])
<1> DEFINE p1 == [p EXCEPT !.call = call]
           p2 == [p1 EXCEPT !.attempt = 0]
           p3 == [p2 EXCEPT !.since = clock]
           q == [p3 EXCEPT !.pc = "await"]
<1>1. p \in Processes
  BY DEF ProcessOK
<1>2. p1 \in Processes /\ p1.call = call /\ p1.wf = p.wf /\ p1.todo = p.todo /\ p1.next = p.next
  BY <1>1 DEF Processes
<1> HIDE DEF p1
<1>3. p2 \in Processes /\ p2.call = call /\ p2.wf = p.wf /\ p2.todo = p.todo /\ p2.next = p.next
  BY <1>2 DEF Processes
<1> HIDE DEF p2
<1>4. p3 \in Processes /\ p3.call = call /\ p3.wf = p.wf /\ p3.todo = p.todo /\ p3.next = p.next
  BY <1>3 DEF Processes
<1> HIDE DEF p3
<1>5. /\ q \in Processes /\ q.pc = "await"
      /\ q.call = call /\ q.wf = p.wf /\ q.todo = p.todo /\ q.next = p.next
  BY <1>4 DEF Processes, PCs
<1> HIDE DEF q
<1>6. ProcessOK(q)
  BY <1>5 DEF ProcessOK
<1>7. p3 = Calling(p, call)
  BY DEF Calling, p3, p2, p1
<1>8. q = [Calling(p, call) EXCEPT !.pc = "await"]
  BY <1>7 DEF q
<1> QED
  BY <1>4, <1>6, <1>7, <1>8

LEMMA AttemptFailedOK ==
  ASSUME NEW p, ProcessOK(p), p.pc = "await"
  PROVE  ProcessOK(AttemptFailed(p))
<1>1. CASE p.attempt < SdkRetries
  <2>1. AttemptFailed(p) = [p EXCEPT !.pc = "again", !.attempt = @ + 1]
    BY <1>1 DEF AttemptFailed
  <2>2. p \in Processes /\ "again" \in PCs /\ p.attempt + 1 \in Nat
    BY DEF ProcessOK, Processes, PCs
  <2>3. [p EXCEPT !.pc = "again", !.attempt = @ + 1] \in Processes
    BY <2>2 DEF Processes
  <2> QED
    BY <2>1, <2>3 DEF ProcessOK, Processes
<1>2. CASE ~(p.attempt < SdkRetries)
  BY <1>2, NotRunningOK DEF AttemptFailed
<1> QED
  BY <1>1, <1>2

LEMMA ReadyOK == ProcessOK(Ready("acquire"))
BY DEF Ready, NotRunning, ProcessOK, Processes, PCs, Todos, Calls, Ops, NoCall, Call, CallOK

\* A new process, before its first call.
LEMMA StartingOK ==
  ASSUME NEW first \in FirstSteps
  PROVE  LET p == [Ready("acquire") EXCEPT !.next = first]
         IN  /\ ProcessOK(p) /\ p.pc = "decide" /\ p.todo = "acquire"
             /\ p.next = first /\ p.since = 0
<1> DEFINE ready == Ready("acquire")
           p == [ready EXCEPT !.next = first]
<1>1. ready \in Processes /\ ready.pc = "decide" /\ ready.todo = "acquire" /\ ready.since = 0
  BY ReadyOK DEF ProcessOK, Ready, NotRunning
<1>2. first \in Nat
  BY ProgramAssumption
<1> HIDE DEF ready
<1>3. /\ p \in Processes /\ p.pc = "decide" /\ p.todo = "acquire"
      /\ p.next = first /\ p.since = 0
  BY <1>1, <1>2 DEF Processes
<1> HIDE DEF p
<1>4. ProcessOK(p)
  BY <1>3 DEF ProcessOK
<1> QED
  BY <1>3, <1>4 DEF p, ready

\* The values with which the handlers answer the calls.
ValueOK(op, value) ==
  /\ op = "acquire" => \/ value = None
                       \/ value # None /\ value.wf \in Workflows /\ value.cursor \in Nat
  /\ op = "retry" => value \in BOOLEAN

LEMMA ResumeOK ==
  ASSUME NEW p, ProcessOK(p), p.pc = "await", NEW value, ValueOK(p.call.op, value)
  PROVE  ProcessOK(Resume(p, value))
<1>1. p.call \in Calls /\ CallOK(p.call, p.wf)
  BY DEF ProcessOK, Processes
<1>2. CASE p.call.op = "acquire" /\ value = None
  <2>1. Resume(p, value) = NotRunning("exited")
    BY <1>2 DEF Resume
  <2> QED
    BY <2>1, NotRunningOK
<1>3. CASE p.call.op = "acquire" /\ value # None
  <2>1. Resume(p, value) = Acquired(p, value.wf, value.cursor)
    BY <1>3 DEF Resume
  <2>2. value.wf \in Workflows /\ value.cursor \in Nat
    BY <1>3 DEF ValueOK
  <2> DEFINE p1 == [p EXCEPT !.pc = "decide", !.todo = "step"]
             next == IF p.next = 0 THEN value.cursor + 1 ELSE p.next
             p2 == [[p1 EXCEPT !.wf = value.wf] EXCEPT !.next = next]
             q == [p2 EXCEPT !.until = p.since + p.call.arg]
  <2>3. /\ p1 \in Processes /\ p1.pc = "decide" /\ p1.todo = "step"
        /\ p.next \in Nat /\ p1.next = p.next
    BY DEF ProcessOK, Processes, PCs, Todos
  <2> HIDE DEF p1
  <2>10. next \in Nat /\ next > 0
    BY <2>2, <2>3
  <2> HIDE DEF next
  <2>4. /\ p2 \in Processes /\ p2.pc = "decide" /\ p2.todo = "step"
        /\ p2.wf \in Workflows /\ p2.next > 0
    BY <2>2, <2>3, <2>10 DEF Processes
  <2> HIDE DEF p2
  <2>5. p.since + p.call.arg \in Nat
    BY <1>1 DEF ProcessOK, Processes, Calls
  <2>6. /\ q \in Processes /\ q.pc = "decide" /\ q.todo = "step"
        /\ q.wf \in Workflows /\ q.next > 0
    BY <2>4, <2>5 DEF Processes
  <2> HIDE DEF q
  <2>7. ProcessOK(q)
    BY <2>6 DEF ProcessOK
  <2>8. q = Acquired(p, value.wf, value.cursor)
    BY DEF Acquired, q, p2, next, p1
  <2> QED
    BY <2>1, <2>7, <2>8
<1>4. CASE p.call.op = "complete"
  <2>1. Resume(p, value) = [p EXCEPT !.pc = "decide", !.next = @ + 1]
    BY <1>4 DEF Resume
  <2>2. p.wf \in Workflows /\ p.next + 1 \in Nat /\ p.next + 1 > 0
    BY <1>1, <1>4 DEF CallOK, ProcessOK, Processes
  <2> QED
    BY <2>1, <2>2 DEF ProcessOK, Processes, PCs
<1>5. CASE p.call.op = "fail"
  <2>1. Resume(p, value) = [p EXCEPT !.pc = "decide", !.todo = "retry"]
    BY <1>5 DEF Resume
  <2>2. p.wf \in Workflows
    BY <1>1, <1>5 DEF CallOK
  <2> QED
    BY <2>1, <2>2 DEF ProcessOK, Processes, PCs, Todos
<1>6. CASE p.call.op = "retry" /\ value
  <2>1. Resume(p, value) = Ready("acquire")
    BY <1>6 DEF Resume
  <2> QED
    BY <2>1, ReadyOK
<1>7. CASE p.call.op = "retry" /\ ~value
  <2>1. Resume(p, value) = [p EXCEPT !.pc = "decide", !.todo = "giveup"]
    BY <1>7 DEF Resume
  <2>2. p.wf \in Workflows
    BY <1>1, <1>7 DEF CallOK
  <2> QED
    BY <2>1, <2>2 DEF ProcessOK, Processes, PCs, Todos
<1>8. CASE p.call.op \in {"finish", "giveup"}
  <2>1. Resume(p, value) = NotRunning("exited")
    BY <1>8 DEF Resume
  <2> QED
    BY <2>1, NotRunningOK
<1> QED
  BY <1>1, <1>2, <1>3, <1>4, <1>5, <1>6, <1>7, <1>8 DEF CallOK, ValueOK

-----------------------------------------------------------------------------
(* What the steps of the clients and the handlers do to the clients' state *)

\* A process p of worker k sends a request and waits for its answer.
LEMMA FetchKeeps ==
  ASSUME ClientInv, clock \in Nat, NEW k \in Workers, worker[k].pc # "await",
         NEW p, Fetch(k, p), ProcessOK([p EXCEPT !.pc = "await"]),
         p \in Processes
  PROVE  ClientInv'
<1> DEFINE r == [from |-> k, call |-> p.call, wf |-> p.wf, sent |-> clock,
                 live |-> TRUE, got |-> None]
           q == [p EXCEPT !.pc = "await"]
<1>1. PICK t \in Threads : /\ inflight[t] = NoRequest
                           /\ inflight' = [inflight EXCEPT ![t] = r]
  BY DEF Fetch
<1>2. worker' = [worker EXCEPT ![k] = q]
  BY DEF Fetch
<1>3. q.pc = "await" /\ q.call = p.call /\ q.wf = p.wf
  BY DEF Processes
<1>4. r \in [from : Workers, call : Calls, wf : Workflows \cup {None},
            sent : Nat, live : BOOLEAN, got : Workflows \cup {None}]
  BY DEF Processes
<1>5. RequestOK(r)
  BY <1>3, <1>4 DEF RequestOK, ProcessOK
<1>6. r.from = k /\ r.live /\ r.call = q.call /\ r.wf = q.wf
  BY <1>3
<1> HIDE DEF r, q
<1>7. ClientTypeOK'
  <2>1. \A j \in Workers : ProcessOK(worker'[j])
    BY <1>2 DEF ClientInv, ClientTypeOK, q
  <2>2. \A u \in Threads : inflight'[u] = NoRequest \/ RequestOK(inflight'[u])
    BY <1>1, <1>5 DEF ClientInv, ClientTypeOK
  <2> QED
    BY <1>1, <1>2, <2>1, <2>2 DEF ClientInv, ClientTypeOK
<1>8. \A u \in Threads \ {t} :
        inflight'[u] = inflight[u] /\ (inflight[u].live => inflight[u].from # k)
  BY <1>1 DEF ClientInv, ClientTypeOK, AnswersMatch
<1>9. worker'[k] = q /\ inflight'[t] = r
  BY <1>1, <1>2 DEF ClientInv, ClientTypeOK
<1>10. \A j \in Workers \ {k} : worker'[j] = worker[j]
  BY <1>2
<1>11. \A u \in Threads : inflight[u].live => inflight[u].from \in Workers
  BY DEF ClientInv, ClientTypeOK, RequestOK, NoRequest
<1>12. AnswersMatch'
  <2>1. ASSUME NEW u \in Threads, inflight'[u].live
        PROVE  LET j == inflight'[u].from IN
               /\ worker'[j].pc = "await"
               /\ worker'[j].call = inflight'[u].call
               /\ worker'[j].wf = inflight'[u].wf
    <3>1. CASE u = t
      BY <3>1, <1>3, <1>6, <1>9
    <3>2. CASE u # t
      BY <3>2, <2>1, <1>8, <1>10, <1>11 DEF ClientInv, AnswersMatch
    <3> QED
      BY <3>1, <3>2
  <2>2. ASSUME NEW u \in Threads, NEW v \in Threads,
               inflight'[u].live, inflight'[v].live,
               inflight'[u].from = inflight'[v].from
        PROVE  u = v
    BY <2>2, <1>6, <1>8, <1>9 DEF ClientInv, AnswersMatch
  <2> QED
    BY <2>1, <2>2 DEF AnswersMatch
<1> QED
  BY <1>7, <1>12 DEF ClientInv

\* A request ends; its process, if it still waits, goes on as p.
LEMMA AnswerKeeps ==
  ASSUME ClientInv, NEW t \in Threads, inflight[t] # NoRequest, NEW p,
         inflight[t].live => ProcessOK(p),
         inflight' = [inflight EXCEPT ![t] = NoRequest],
         worker' = IF inflight[t].live
                   THEN [worker EXCEPT ![inflight[t].from] = p] ELSE worker
  PROVE  ClientInv'
<1>1. inflight[t].from \in Workers
  BY DEF ClientInv, ClientTypeOK, RequestOK
<1>2. ClientTypeOK'
  BY <1>1 DEF ClientInv, ClientTypeOK
<1>3. \A u \in Threads :
        inflight'[u].live =>
          /\ u # t /\ inflight'[u] = inflight[u]
          /\ worker'[inflight[u].from] = worker[inflight[u].from]
  <2>1. ~NoRequest.live
    BY DEF NoRequest
  <2> QED
    BY <2>1, <1>1 DEF ClientInv, ClientTypeOK, AnswersMatch
<1>4. AnswersMatch'
  BY <1>3 DEF ClientInv, AnswersMatch
<1> QED
  BY <1>2, <1>4 DEF ClientInv

\* A process gives up what it asked for and goes on as p.
LEMMA AbandonKeeps ==
  ASSUME ClientInv, NEW k \in Workers, NEW p, ProcessOK(p),
         worker' = [worker EXCEPT ![k] = p], Abandon(k)
  PROVE  ClientInv'
<1>1. \A t \in Threads :
        inflight'[t] = IF inflight[t].from = k
                       THEN [inflight[t] EXCEPT !.live = FALSE] ELSE inflight[t]
  BY DEF Abandon
<1>2. \A t \in Threads : inflight[t].from = k => RequestOK(inflight[t])
  BY NoneAssumption DEF ClientInv, ClientTypeOK, NoRequest
<1>3. \A t \in Threads : inflight[t].from = k =>
        RequestOK([inflight[t] EXCEPT !.live = FALSE])
  BY <1>2 DEF RequestOK
<1>4. ClientTypeOK'
  <2>1. \A t \in Threads : inflight'[t] = NoRequest \/ RequestOK(inflight'[t])
    BY <1>1, <1>3 DEF ClientInv, ClientTypeOK
  <2>2. \A j \in Workers : ProcessOK(worker'[j])
    BY DEF ClientInv, ClientTypeOK
  <2> QED
    BY <2>1, <2>2 DEF ClientInv, ClientTypeOK, Abandon
<1>5. \A t \in Threads :
        inflight'[t].live => inflight'[t] = inflight[t] /\ inflight[t].from # k
  BY <1>1, <1>2 DEF RequestOK
<1>6. AnswersMatch'
  BY <1>5 DEF ClientInv, AnswersMatch
<1> QED
  BY <1>4, <1>6 DEF ClientInv

LEMMA RequestTyped ==
  ASSUME ClientInv, NEW t \in Threads, inflight[t].call.op # "none"
  PROVE  /\ inflight[t] # NoRequest
         /\ RequestOK(inflight[t])
BY DEF ClientInv, ClientTypeOK, NoRequest, NoCall, Call

LEMMA LiveProcess ==
  ASSUME ClientInv, NEW t \in Threads, inflight[t] # NoRequest, inflight[t].live
  PROVE  LET p == worker[inflight[t].from] IN
         ProcessOK(p) /\ p.pc = "await" /\ p.call = inflight[t].call
BY DEF ClientInv, ClientTypeOK, AnswersMatch, RequestOK

\* A handler answers its request with a value, or with an error.
LEMMA AnswerStep ==
  ASSUME ClientInv, NEW t \in Threads, inflight[t].call.op # "none",
         NEW value, ValueOK(inflight[t].call.op, value), Answer(t, value)
  PROVE  ClientInv'
<1> DEFINE p == Resume(worker[inflight[t].from], value)
<1>1. inflight[t] # NoRequest /\ inflight[t].from \in Workers
  BY RequestTyped DEF RequestOK
<1>2. inflight[t].live => ProcessOK(p)
  BY <1>1, LiveProcess, ResumeOK
<1>3. worker' = IF inflight[t].live
                THEN [worker EXCEPT ![inflight[t].from] = p] ELSE worker
  BY DEF Answer
<1> HIDE DEF p
<1> QED
  BY <1>1, <1>2, <1>3, AnswerKeeps DEF Answer

LEMMA FailedStep ==
  ASSUME ClientInv, NEW t \in Threads, inflight[t] # NoRequest,
         inflight' = [inflight EXCEPT ![t] = NoRequest],
         worker' = IF inflight[t].live
                   THEN [worker EXCEPT ![inflight[t].from] = AttemptFailed(@)]
                   ELSE worker
  PROVE  ClientInv'
<1> DEFINE p == AttemptFailed(worker[inflight[t].from])
<1>1. inflight[t].live => ProcessOK(p)
  BY LiveProcess, AttemptFailedOK
<1>2. worker' = IF inflight[t].live
                THEN [worker EXCEPT ![inflight[t].from] = p] ELSE worker
  OBVIOUS
<1> HIDE DEF p
<1> QED
  BY <1>1, <1>2, AnswerKeeps

-----------------------------------------------------------------------------
(* The steps of the worker processes *)

\* Process p of worker k makes a call.
LEMMA MakeKeeps ==
  ASSUME ClientInv, clock \in Nat, NEW k \in Workers, worker[k].pc # "await",
         NEW p, ProcessOK(p), p.pc = "decide",
         NEW call \in Calls, CallOK(call, p.wf), Fetch(k, Calling(p, call))
  PROVE  ClientInv' /\ UNCHANGED vars
<1>1. /\ Calling(p, call) \in Processes
      /\ ProcessOK([Calling(p, call) EXCEPT !.pc = "await"])
  BY CallingOK
<1>2. UNCHANGED vars
  BY DEF Fetch
<1> QED
  BY <1>1, <1>2, FetchKeeps

LEMMA StartKeeps ==
  ASSUME ClientInv, clock \in Nat, NEW k \in Workers, Start(k)
  PROVE  ClientInv' /\ UNCHANGED vars
<1>1. PICK d \in LeaseSeconds, first \in FirstSteps :
        Fetch(k, Calling([Ready("acquire") EXCEPT !.next = first], Call("acquire", d)))
  BY DEF Start
<1> DEFINE p == [Ready("acquire") EXCEPT !.next = first]
           call == Call("acquire", d)
<1>2. ProcessOK(p) /\ p.pc = "decide"
  BY StartingOK
<1>3. call \in Calls /\ CallOK(call, p.wf)
  BY LeaseAssumption DEF Call, Calls, Ops, CallOK
<1>4. worker[k].pc # "await"
  BY DEF Start
<1> HIDE DEF p, call
<1>5. Fetch(k, Calling(p, call))
  BY <1>1 DEF p, call
<1> QED
  BY <1>2, <1>3, <1>4, <1>5, MakeKeeps

LEMMA GoOnKeeps ==
  ASSUME ClientInv, clock \in Nat, NEW k \in Workers, GoOn(k)
  PROVE  ClientInv' /\ UNCHANGED vars
<1> DEFINE p == worker[k]
<1>1. ProcessOK(p) /\ p.pc = "decide" /\ worker[k].pc # "await"
  BY DEF GoOn, ClientInv, ClientTypeOK
<1>2. ASSUME NEW call \in Calls, CallOK(call, p.wf), Make(k, call)
      PROVE  ClientInv' /\ UNCHANGED vars
  BY <1>1, <1>2, MakeKeeps DEF Make
<1>3. CASE p.todo = "acquire" /\ \E d \in LeaseSeconds : Make(k, Call("acquire", d))
  <2>1. PICK d \in LeaseSeconds : Make(k, Call("acquire", d))
    BY <1>3
  <2>2. Call("acquire", d) \in Calls /\ CallOK(Call("acquire", d), p.wf)
    BY LeaseAssumption DEF Call, Calls, Ops, CallOK
  <2> QED
    BY <1>2, <2>1, <2>2
<1>4. ASSUME p.todo = "step", p.next <= LastStep,
             NEW op \in {"complete", "fail"}, Make(k, Call(op, p.next))
      PROVE  ClientInv' /\ UNCHANGED vars
  <2>1. p.wf \in Workflows /\ p.next \in Nat /\ p.next > 0
    BY <1>1, <1>4 DEF ProcessOK, Processes
  <2>2. p.next \in StepNumbers
    BY <1>4, <2>1, ProgramAssumption
  <2>3. Call(op, p.next) \in Calls /\ CallOK(Call(op, p.next), p.wf)
    BY <2>1, <2>2 DEF Call, Calls, Ops, CallOK
  <2> QED
    BY <1>2, <1>4, <2>3
<1>5. ASSUME p.todo # "acquire", NEW op \in {"retry", "finish", "giveup"},
             NEW arg \in Nat, Make(k, Call(op, arg))
      PROVE  ClientInv' /\ UNCHANGED vars
  <2>1. p.wf \in Workflows
    BY <1>1, <1>5 DEF ProcessOK
  <2>2. Call(op, arg) \in Calls /\ CallOK(Call(op, arg), p.wf)
    BY <2>1 DEF Call, Calls, Ops, CallOK
  <2> QED
    BY <1>2, <1>5, <2>2
<1>6. CASE p.todo = "retry" /\ \E c \in 0..(MaxRetries + 1) : Make(k, Call("retry", c))
  <2>1. PICK c \in 0..(MaxRetries + 1) : Make(k, Call("retry", c))
    BY <1>6
  <2>2. c \in Nat
    BY RetryAssumption
  <2> QED
    BY <1>5, <1>6, <2>1, <2>2
<1> HIDE DEF p
<1> QED
  BY <1>3, <1>4, <1>5, <1>6 DEF GoOn, p

LEMMA FetchAgainKeeps ==
  ASSUME ClientInv, clock \in Nat, NEW k \in Workers, FetchAgain(k)
  PROVE  ClientInv' /\ UNCHANGED vars
<1> DEFINE p == worker[k]
<1>1. /\ ProcessOK(p) /\ p.pc = "again" /\ worker[k].pc # "await"
      /\ p \in Processes /\ Fetch(k, p)
  BY DEF FetchAgain, ClientInv, ClientTypeOK, ProcessOK
<1> HIDE DEF p
<1>2. [p EXCEPT !.pc = "await"] \in Processes
  BY <1>1 DEF Processes, PCs
<1>3. ProcessOK([p EXCEPT !.pc = "await"])
  BY <1>1, <1>2 DEF ProcessOK, Processes
<1>4. UNCHANGED vars
  BY <1>1 DEF Fetch
<1> QED
  BY <1>1, <1>3, <1>4, FetchKeeps DEF p

LEMMA TimeoutKeeps ==
  ASSUME ClientInv, NEW k \in Workers, Timeout(k)
  PROVE  ClientInv' /\ UNCHANGED vars
<1> DEFINE p == AttemptFailed(worker[k])
<1>1. ProcessOK(p)
  BY AttemptFailedOK DEF Timeout, ClientInv, ClientTypeOK
<1>2. worker' = [worker EXCEPT ![k] = p] /\ Abandon(k) /\ UNCHANGED vars
  BY DEF Timeout
<1> HIDE DEF p
<1> QED
  BY <1>1, <1>2, AbandonKeeps

LEMMA KillKeeps ==
  ASSUME ClientInv, NEW k \in Workers, Kill(k)
  PROVE  ClientInv' /\ UNCHANGED vars
<1>1. ProcessOK(NotRunning("exited"))
  BY NotRunningOK
<1> QED
  BY <1>1, AbandonKeeps DEF Kill

LEMMA LoseKeeps ==
  ASSUME ClientInv, NEW t \in Threads, Lose(t)
  PROVE  ClientInv' /\ UNCHANGED vars
BY FailedStep DEF Lose

-----------------------------------------------------------------------------
(* The handlers *)

LEMMA HandleAcquireImplements ==
  ASSUME ClientInv, NEW t \in Threads, HandleAcquire(t)
  PROVE  ClientInv' /\ [Next]_vars
<1> DEFINE r == inflight[t]
<1>1. RequestOK(r) /\ r # NoRequest /\ r.call.op = "acquire"
  BY RequestTyped DEF HandleAcquire, Handles
<1>2. r.from \in Workers /\ r.call.arg \in LeaseSeconds
  BY <1>1 DEF RequestOK, CallOK
<1>3. CASE \E now \in Nows, w \in Workflows :
             /\ LeaseTo(w, r.from, r.call.arg, now)
             /\ inflight' = [inflight EXCEPT ![t].got = w]
             /\ UNCHANGED worker
  <2>1. PICK now \in Nows, w \in Workflows :
          /\ LeaseTo(w, r.from, r.call.arg, now)
          /\ inflight' = [inflight EXCEPT ![t].got = w]
          /\ UNCHANGED worker
    BY <1>3
  <2>2. AcquireLease(r.from, r.call.arg)
    BY <2>1 DEF AcquireLease
  <2>3. Next
    BY <1>2, <2>2 DEF Next, ClientStep
  <2> DEFINE q == [r EXCEPT !.got = w]
  <2>4. /\ RequestOK(q) /\ q.live = r.live /\ q.from = r.from
        /\ q.call = r.call /\ q.wf = r.wf
    BY <1>1 DEF RequestOK
  <2>5. inflight' = [inflight EXCEPT ![t] = q]
    BY <2>1
  <2> HIDE DEF q
  <2>6. ClientTypeOK'
    BY <2>1, <2>4, <2>5 DEF ClientInv, ClientTypeOK
  <2>7. AnswersMatch'
    BY <2>1, <2>4, <2>5 DEF ClientInv, ClientTypeOK, AnswersMatch
  <2> QED
    BY <2>3, <2>6, <2>7 DEF ClientInv
<1>4. CASE Answer(t, None) /\ UNCHANGED vars
  <2>1. ValueOK(r.call.op, None)
    BY <1>1 DEF ValueOK
  <2> QED
    BY <1>1, <1>4, <2>1, AnswerStep
<1> QED
  BY <1>3, <1>4 DEF HandleAcquire

LEMMA HandleAcquiredImplements ==
  ASSUME ClientInv, TypeOK, NEW t \in Threads, HandleAcquired(t)
  PROVE  ClientInv' /\ UNCHANGED vars
<1> DEFINE r == inflight[t]
           value == [wf |-> r.got, cursor |-> workflows[r.got].cursor]
<1>1. RequestOK(r) /\ r.call.op = "acquire" /\ r.got \in Workflows
  BY DEF HandleAcquired, ClientInv, ClientTypeOK, RequestOK, NoRequest
<1>2. value.wf \in Workflows /\ value.cursor \in Nat
  BY <1>1 DEF TypeOK, WorkflowRow
<1>3. Answer(t, value) /\ UNCHANGED vars
  BY DEF HandleAcquired
<1> HIDE DEF value
<1>4. ValueOK(r.call.op, value)
  BY <1>1, <1>2 DEF ValueOK
<1> QED
  BY <1>1, <1>3, <1>4, AnswerStep

\* The arguments of a request other than acquireLease.
LEMMA RequestArguments ==
  ASSUME ClientInv, NEW t \in Threads,
         inflight[t].call.op \in {"complete", "fail", "retry", "finish", "giveup"}
  PROVE  /\ inflight[t] # NoRequest
         /\ inflight[t].from \in Workers /\ inflight[t].wf \in Workflows
         /\ inflight[t].call.arg \in Nat
         /\ inflight[t].call.op \in {"complete", "fail"} =>
              inflight[t].call.arg \in StepNumbers
<1>1. inflight[t] # NoRequest /\ RequestOK(inflight[t])
  BY RequestTyped
<1> QED
  BY <1>1 DEF RequestOK, CallOK, Calls

LEMMA RefuseKeeps ==
  ASSUME ClientInv, NEW t \in Threads, inflight[t] # NoRequest, Refuse(t)
  PROVE  ClientInv' /\ UNCHANGED vars
BY FailedStep DEF Refuse

LEMMA OkKeeps ==
  ASSUME ClientInv, NEW t \in Threads, NEW value \in BOOLEAN, Answer(t, value),
         inflight[t].call.op \in {"complete", "fail", "retry", "finish", "giveup"}
  PROVE  ClientInv'
BY AnswerStep DEF ValueOK

LEMMA HandleCompleteImplements ==
  ASSUME ClientInv, NEW t \in Threads, HandleComplete(t)
  PROVE  ClientInv' /\ [Next]_vars
<1> DEFINE r == inflight[t]
<1>1. r.call.op = "complete"
  BY DEF HandleComplete, Handles
<1>2. CASE CompleteStep(r.wf, r.from, r.call.arg) /\ Answer(t, TRUE)
  <2>1. LeaseStep
    BY <1>1, <1>2, RequestArguments DEF LeaseStep
  <2> QED
    BY <1>1, <1>2, <2>1, OkKeeps DEF Next
<1>3. CASE Refuse(t)
  BY <1>1, <1>3, RequestArguments, RefuseKeeps
<1> QED
  BY <1>2, <1>3 DEF HandleComplete

LEMMA HandleFinishImplements ==
  ASSUME ClientInv, NEW t \in Threads, HandleFinish(t)
  PROVE  ClientInv' /\ [Next]_vars
<1> DEFINE r == inflight[t]
<1>1. r.call.op = "finish"
  BY DEF HandleFinish, Handles
<1>2. CASE CompleteWorkflow(r.wf, r.from) /\ Answer(t, TRUE)
  <2>1. LeaseStep
    BY <1>1, <1>2, RequestArguments DEF LeaseStep
  <2> QED
    BY <1>1, <1>2, <2>1, OkKeeps DEF Next
<1>3. CASE Refuse(t)
  BY <1>1, <1>3, RequestArguments, RefuseKeeps
<1> QED
  BY <1>2, <1>3 DEF HandleFinish

LEMMA HandleGiveUpImplements ==
  ASSUME ClientInv, NEW t \in Threads, HandleGiveUp(t)
  PROVE  ClientInv' /\ [Next]_vars
<1> DEFINE r == inflight[t]
<1>1. r.call.op = "giveup"
  BY DEF HandleGiveUp, Handles
<1>2. CASE FailWorkflow(r.wf, r.from) /\ Answer(t, TRUE)
  <2>1. LeaseStep
    BY <1>1, <1>2, RequestArguments DEF LeaseStep
  <2> QED
    BY <1>1, <1>2, <2>1, OkKeeps DEF Next
<1>3. CASE Refuse(t)
  BY <1>1, <1>3, RequestArguments, RefuseKeeps
<1> QED
  BY <1>2, <1>3 DEF HandleGiveUp

\* A step that leaves the clients alone.
LEMMA ClientUnchanged ==
  ASSUME ClientInv, UNCHANGED client
  PROVE  ClientInv'
BY DEF ClientInv, ClientTypeOK, AnswersMatch, client

LEMMA HandleFailImplements ==
  ASSUME ClientInv, NEW t \in Threads, HandleFail(t)
  PROVE  ClientInv' /\ [Next]_vars
<1> DEFINE r == inflight[t]
<1>1. r.call.op = "fail"
  BY DEF HandleFail, Handles
<1>2. CASE /\ VerifyLease(t, "FailStep", r.wf, r.from, r.call.arg)
           /\ UNCHANGED client
  <2>1. RequestStep
    BY <1>1, <1>2, RequestArguments DEF RequestStep
  <2> QED
    BY <1>2, <2>1, ClientUnchanged DEF Next
<1>3. CASE FailStep(t) /\ Answer(t, TRUE)
  <2>1. RequestStep
    BY <1>3 DEF RequestStep
  <2> QED
    BY <1>1, <1>3, <2>1, OkKeeps DEF Next
<1>4. CASE Refuse(t)
  BY <1>1, <1>4, RequestArguments, RefuseKeeps
<1> QED
  BY <1>2, <1>3, <1>4 DEF HandleFail

LEMMA HandleRetryImplements ==
  ASSUME ClientInv, NEW t \in Threads, HandleRetry(t)
  PROVE  ClientInv' /\ [Next]_vars
<1> DEFINE r == inflight[t]
<1>1. r.call.op = "retry"
  BY DEF HandleRetry, Handles
<1>2. CASE RetryStep(t, r.wf, r.from, r.call.arg) /\ UNCHANGED client
  <2>1. r.call.arg \in 0..MaxRetries
    BY <1>1, <1>2, RequestArguments, RetryAssumption DEF RetryStep
  <2>2. RequestStep
    BY <1>1, <1>2, <2>1, RequestArguments DEF RequestStep
  <2> QED
    BY <1>2, <2>2, ClientUnchanged DEF Next
<1>3. CASE Answer(t, FALSE) /\ UNCHANGED vars
  BY <1>1, <1>3, OkKeeps
<1>4. CASE RetryStepWait(t) /\ Answer(t, TRUE)
  <2>1. RequestStep
    BY <1>4 DEF RequestStep
  <2> QED
    BY <1>1, <1>4, <2>1, OkKeeps DEF Next
<1>5. CASE /\ RetryStepWait(t)
           /\ inflight' = [inflight EXCEPT ![t] = NoRequest]
           /\ worker' = IF r.live THEN [worker EXCEPT ![r.from] = AttemptFailed(@)]
                                   ELSE worker
  <2>1. RequestStep
    BY <1>5 DEF RequestStep
  <2>2. ClientInv'
    BY <1>1, <1>5, RequestArguments, FailedStep
  <2> QED
    BY <2>1, <2>2 DEF Next
<1> QED
  BY <1>2, <1>3, <1>4, <1>5 DEF HandleRetry

\* The requests die with the server, and who waits learns it.
LEMMA ServerCrashImplements ==
  ASSUME ClientInv, ServerCrash
  PROVE  ClientInv' /\ [Next]_vars
<1>1. \A k \in Workers : ProcessOK(worker'[k])
  BY AttemptFailedOK DEF ServerCrash, ClientInv, ClientTypeOK
<1>2. ClientTypeOK'
  BY <1>1 DEF ServerCrash, ClientTypeOK
<1>3. AnswersMatch'
  BY DEF ServerCrash, AnswersMatch, NoRequest
<1> QED
  BY <1>2, <1>3 DEF ServerCrash, ClientInv, Next

LEMMA EnvironmentImplements ==
  ASSUME ClientInv, Environment
  PROVE  ClientInv' /\ [Next]_vars
BY ClientUnchanged DEF Environment, Next, ClientStep

-----------------------------------------------------------------------------
(* The composition *)

LEMMA DeploymentInitInv == DeploymentInit => DInv
<1> SUFFICES ASSUME DeploymentInit
             PROVE  DInv
  OBVIOUS
<1>1. IInv
  BY InitInv DEF DeploymentInit
<1>2. ClientTypeOK
  BY NotRunningOK DEF DeploymentInit, ClientInit, ClientTypeOK
<1>3. AnswersMatch
  BY DEF DeploymentInit, ClientInit, AnswersMatch, NoRequest
<1> QED
  BY <1>1, <1>2, <1>3 DEF DInv

\* Every step keeps the invariant, and is a step of Engine or leaves its
\* state alone.
LEMMA DeploymentStep == DInv /\ [DeploymentNext]_allVars => DInv' /\ [Next]_vars
<1> SUFFICES ASSUME DInv, [DeploymentNext]_allVars
             PROVE  DInv' /\ [Next]_vars
  OBVIOUS
<1>1. ClientInv /\ TypeOK /\ clock \in Nat
  BY BoundAssumption DEF DInv, ClientInv, IInv, TypeOK
<1>2. ASSUME NEW k \in Workers,
             Start(k) \/ GoOn(k) \/ FetchAgain(k) \/ Timeout(k) \/ Kill(k)
      PROVE  ClientInv' /\ [Next]_vars
  BY <1>1, <1>2, StartKeeps, GoOnKeeps, FetchAgainKeeps, TimeoutKeeps, KillKeeps
<1>3. ASSUME NEW t \in Threads,
             \/ Lose(t) \/ HandleAcquire(t) \/ HandleAcquired(t)
             \/ HandleComplete(t) \/ HandleFail(t) \/ HandleRetry(t)
             \/ HandleFinish(t) \/ HandleGiveUp(t)
      PROVE  ClientInv' /\ [Next]_vars
  BY <1>1, <1>3, LoseKeeps, HandleAcquireImplements, HandleAcquiredImplements,
     HandleCompleteImplements, HandleFailImplements, HandleRetryImplements,
     HandleFinishImplements, HandleGiveUpImplements
<1>4. ASSUME ServerCrash
      PROVE  ClientInv' /\ [Next]_vars
  BY <1>1, <1>4, ServerCrashImplements
<1>5. ASSUME Environment
      PROVE  ClientInv' /\ [Next]_vars
  BY <1>1, <1>5, EnvironmentImplements
<1>6. ASSUME UNCHANGED allVars
      PROVE  ClientInv' /\ [Next]_vars
  BY <1>1, <1>6, ClientUnchanged DEF allVars, client
<1>7. ClientInv' /\ [Next]_vars
  BY <1>2, <1>3, <1>4, <1>5, <1>6 DEF DeploymentNext
<1>8. IInv'
  BY <1>7, NextInv DEF DInv
<1> QED
  BY <1>7, <1>8 DEF DInv, ClientInv

\* The state of clients, handlers and engine keeps its invariant: the tables
\* that of Engine, and processes and requests their types.
THEOREM DeploymentInvariance == DeploymentSpec => []DInv
<1> QED
  BY DeploymentInitInv, DeploymentStep, PTL DEF DeploymentSpec

\* Worker processes that go through the SDK and the handlers do nothing that
\* Engine does not let a client do: every property of Spec holds for them.
THEOREM DeploymentImplementsEngine == DeploymentSpec => Spec
<1>1. DeploymentInit => Init
  BY DEF DeploymentInit
<1> QED
  BY <1>1, DeploymentStep, DeploymentInvariance, PTL
  DEF DeploymentSpec, Spec
=============================================================================
