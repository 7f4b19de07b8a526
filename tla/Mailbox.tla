------------------------------- MODULE Mailbox ------------------------------
(***************************************************************************)
(* Processes that send and consume signals through the SDK: sendSignal and *)
(* consumeSignal of src/sdks/typescript/src/index.ts, the routes POST      *)
(* /signals and POST /signals/{id}/consume of src/cmd/server/main.go, and  *)
(* the engine.  A process makes any of the two calls at any time, also     *)
(* after a call has thrown.  A handler commits first and answers later,    *)
(* and the answer may be lost.                                             *)
(*                                                                         *)
(* The scheduler and the other routes are left out: they change nothing    *)
(* that these two look at.                                                 *)
(***************************************************************************)
EXTENDS Client

CONSTANT MaxFailures   \* bound: attempts that are given up after they left

ASSUME MailboxAssumption == MaxFailures \in Nat

VARIABLES
  returned,    \* how many calls of sendSignal have returned
  delivered,   \* signal_ids that calls of consumeSignal returned, in order
  failures     \* attempts that were given up while on their way

history == <<returned, delivered, failures>>
mailboxVars == <<vars, worker, inflight, history>>

NoSignal == 0    \* the answer "no_signal"; signal_ids start at 1

\* sendSignal or consumeSignal is called for some workflow.
Begin(k, op) ==
  /\ worker[k].pc \in {"new", "exited"}
  /\ \E w \in Workflows :
       Fetch(k, Calling([NotRunning("new") EXCEPT !.wf = w], Call(op, 0)))
  /\ UNCHANGED history

Again(k) == FetchAgain(k) /\ UNCHANGED history

\* n attempts are given up: what they still do is in nobody's answer.
GiveUp(n) ==
  /\ failures + n <= MaxFailures
  /\ failures' = failures + n
  /\ UNCHANGED <<returned, delivered>>

Fail ==
  \/ \E k \in Workers : Timeout(k) /\ GiveUp(1)
  \/ \E k \in Workers : Kill(k) /\ GiveUp(IF worker[k].pc = "await" THEN 1 ELSE 0)
  \/ ServerCrash /\ GiveUp(Cardinality({t \in Threads : inflight[t].live}))
  \/ \E t \in Threads : Lose(t) /\ UNCHANGED history

\* The handler of r has committed; its answer is on its way.
Done(t, value) ==
  /\ inflight' = [inflight EXCEPT ![t].got = value]
  /\ UNCHANGED <<worker, history>>

\* Fault: a signal to a workflow that does not exist is not refused.
FaultyHandleSend(t) ==
  LET w == inflight[t].wf IN
  /\ Handles(t, "send") /\ inflight[t].got = None
  /\ \/ SendSignal(w) /\ Done(t, Len(signals'))
     \/ ~Exists(w) /\ Done(t, Len(signals) + 1) /\ UNCHANGED vars

HandleSend(t) ==
  LET w == inflight[t].wf IN
  /\ Handles(t, "send") /\ inflight[t].got = None
  /\ \/ SendSignal(w) /\ Done(t, Len(signals'))
     \/ ~Exists(w) /\ Refuse(t) /\ UNCHANGED history

HandleConsume(t) ==
  LET w == inflight[t].wf IN
  /\ Handles(t, "consume") /\ inflight[t].got = None
  /\ \/ \E i \in DOMAIN signals : TakeSignal(w, i) /\ Done(t, i)
     \/ PendingSignals(w) = {} /\ Done(t, NoSignal) /\ UNCHANGED vars

\* The answer arrives: the call returns, unless the attempt was given up.
Return(t) ==
  LET r == inflight[t] IN
  /\ r.got # None
  /\ inflight' = [inflight EXCEPT ![t] = NoRequest]
  /\ worker' = IF r.live THEN [worker EXCEPT ![r.from] = NotRunning("new")]
                          ELSE worker
  /\ returned' = IF r.live /\ r.call.op = "send" THEN returned + 1 ELSE returned
  /\ delivered' = IF r.live /\ r.call.op = "consume" /\ r.got # NoSignal
                  THEN Append(delivered, r.got)
                  ELSE delivered
  /\ UNCHANGED <<vars, failures>>

Others ==
  /\ PassSecond \/ \E w \in Workflows : CreateWorkflow(w)
  /\ UNCHANGED <<worker, inflight, history>>

MailboxInit ==
  /\ Init /\ ClientInit
  /\ returned = 0 /\ delivered = <<>> /\ failures = 0

MailboxNext ==
  \/ \E k \in Workers : Begin(k, "send") \/ Begin(k, "consume") \/ Again(k)
  \/ \E t \in Threads : HandleSend(t) \/ HandleConsume(t) \/ Return(t)
  \/ Fail
  \/ Others

MailboxSpec == MailboxInit /\ [][MailboxNext]_mailboxVars

-----------------------------------------------------------------------------
(* Properties *)

\* Answers on their way to a process that waits for them.
Answers(op) ==
  {t \in Threads : inflight[t].live /\ Handles(t, op) /\ inflight[t].got # None}

\* consumeSignal returns no signal twice, to whichever processes, however
\* often the SDK repeats the call and whatever abandoned attempts still do.
DeliveredOnce ==
  \A i, j \in DOMAIN delivered : delivered[i] = delivered[j] => i = j

\* A consumed signal that no call returned, and none will return, was lost by
\* an attempt that was given up: never more signals than such attempts, and
\* none by a request that was lost before its handler (ConsumeSignal commits
\* before the answer is written, and nothing confirms the receipt).
LostOnlyByFailure ==
  LET consumed == {i \in DOMAIN signals : signals[i].consumed}
      arrived == {delivered[i] : i \in DOMAIN delivered}
      coming == {inflight[t].got : t \in Answers("consume")}
  IN  Cardinality(consumed \ (arrived \cup coming)) <= failures

\* A sendSignal that returned has stored its signal, and the rows beyond
\* those are duplicates or leftovers of attempts that were given up, one each
\* at most (request() repeats a call that may have been handled).
SentOnceEach ==
  LET extra == Len(signals) - returned - Cardinality(Answers("send"))
  IN  extra \in 0..failures
=============================================================================
