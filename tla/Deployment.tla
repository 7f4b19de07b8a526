------------------------------ MODULE Deployment ----------------------------
(***************************************************************************)
(* Worker processes, the SDK and the server with its engine, put together: *)
(* src/cmd/server/main.go.  A handler makes one engine call and answers;   *)
(* its goroutine is a member of Threads.  An answer to an attempt that was *)
(* given up is dropped.  Other routes than those the workers use, and      *)
(* clients that do not follow the worker program, are in Engine.           *)
(***************************************************************************)
EXTENDS WorkerProgram

client == <<worker, inflight>>
allVars == <<vars, worker, inflight>>

\* writeJSON: the answer of a successful call.
Answer(t, value) ==
  LET r == inflight[t] IN
  /\ inflight' = [inflight EXCEPT ![t] = NoRequest]
  /\ worker' = IF r.live THEN [worker EXCEPT ![r.from] = Resume(@, value)]
                          ELSE worker

\* AcquireLease up to its commit: a workflow is leased, or there is no work.
HandleAcquire(t) ==
  LET r == inflight[t] IN
  /\ Handles(t, "acquire") /\ r.got = None
  /\ \E now \in {n \in Nows : n >= r.sent} :
       \/ /\ \E w \in Workflows : /\ LeaseTo(w, r.from, r.call.arg, now)
                                  /\ inflight' = [inflight EXCEPT ![t].got = w]
          /\ UNCHANGED worker
       \/ /\ Oldest(now) = {}
          /\ Answer(t, None)
          /\ UNCHANGED vars

\* The GetWorkflow that ends AcquireLease: a read of its own, after the commit,
\* which may show a later owner.
HandleAcquired(t) ==
  LET w == inflight[t].got IN
  /\ w # None
  /\ Answer(t, [wf |-> w, cursor |-> workflows[w].cursor])
  /\ UNCHANGED vars

HandleComplete(t) ==
  LET r == inflight[t] IN
  /\ Handles(t, "complete")
  /\ \/ CompleteStep(r.wf, r.from, r.call.arg) /\ Answer(t, TRUE)
     \/ /\ ~HoldsLease(r.wf, r.from) \/ steps[r.wf][r.call.arg] = "COMPLETED"
        /\ Refuse(t)

HandleFail(t) ==
  LET r == inflight[t] IN
  /\ Handles(t, "fail")
  /\ \/ /\ VerifyLease(t, "FailStep", r.wf, r.from, r.call.arg)
        /\ UNCHANGED client
     \/ FailStep(t) /\ Answer(t, TRUE)
     \/ thread[t] = Idle /\ ~HoldsLease(r.wf, r.from) /\ Refuse(t)

HandleRetry(t) ==
  LET r == inflight[t] IN
  /\ Handles(t, "retry")
  /\ \/ RetryStep(t, r.wf, r.from, r.call.arg) /\ UNCHANGED client
     \/ r.call.arg > MaxRetries /\ Answer(t, FALSE) /\ UNCHANGED vars
     \/ RunningFor(r.wf, r.from) /\ RetryStepWait(t) /\ Answer(t, TRUE)
     \/ /\ ~RunningFor(r.wf, r.from) /\ RetryStepWait(t)
        /\ inflight' = [inflight EXCEPT ![t] = NoRequest]
        /\ worker' = IF r.live THEN [worker EXCEPT ![r.from] = AttemptFailed(@)]
                                ELSE worker

HandleFinish(t) ==
  LET r == inflight[t] IN
  /\ Handles(t, "finish")
  /\ \/ CompleteWorkflow(r.wf, r.from) /\ Answer(t, TRUE)
     \/ ~RunningFor(r.wf, r.from) /\ Refuse(t)

HandleGiveUp(t) ==
  LET r == inflight[t] IN
  /\ Handles(t, "giveup")
  /\ \/ FailWorkflow(r.wf, r.from) /\ Answer(t, TRUE)
     \/ ~RunningFor(r.wf, r.from) /\ Refuse(t)

\* Everything that is not a worker's doing.
Environment ==
  /\ (\E w \in Workflows : CreateWorkflow(w)) \/ SchedulerStep \/ PassSecond
  /\ UNCHANGED client

DeploymentInit == Init /\ ClientInit

DeploymentNext ==
  \/ \E k \in Workers : \/ Start(k) \/ GoOn(k) \/ FetchAgain(k)
                      \/ Timeout(k) \/ Kill(k)
  \/ \E t \in Threads :
       \/ Lose(t)
       \/ HandleAcquire(t) \/ HandleAcquired(t)
       \/ HandleComplete(t) \/ HandleFail(t) \/ HandleRetry(t)
       \/ HandleFinish(t) \/ HandleGiveUp(t)
  \/ ServerCrash
  \/ Environment

DeploymentSpec == DeploymentInit /\ [][DeploymentNext]_allVars

-----------------------------------------------------------------------------
(* The clients and the engine *)

Ops == {"acquire", "complete", "fail", "retry", "finish", "giveup"}

Calls == [op : Ops \cup {"none"}, arg : Nat]

\* A call whose arguments its handler can use.
CallOK(call, wf) ==
  \/ call.op = "acquire" /\ call.arg \in LeaseSeconds
  \/ /\ wf \in Workflows
     /\ \/ call.op \in {"complete", "fail"} /\ call.arg \in StepNumbers
        \/ call.op \in {"retry", "finish", "giveup"}

RequestOK(r) ==
  /\ r \in [from : Workers, call : Calls, wf : Workflows \cup {None},
             sent : Nat, live : BOOLEAN, got : Workflows \cup {None}]
  /\ CallOK(r.call, r.wf)
  /\ r.got # None => r.call.op = "acquire"

PCs == {"new", "decide", "await", "again", "exited"}
Todos == {"none", "acquire", "step", "retry", "giveup"}

Processes == [pc : PCs, todo : Todos, wf : Workflows \cup {None}, next : Nat,
              until : Nat, since : Nat, call : Calls, attempt : Nat]

ProcessOK(p) ==
  /\ p \in Processes
  /\ p.pc \in {"decide", "await", "again"} => p.todo # "none"
  /\ p.pc \in {"await", "again"} => CallOK(p.call, p.wf)
  /\ p.pc = "decide" /\ p.todo # "acquire" => p.wf \in Workflows
  /\ p.todo = "step" => p.next > 0

\* The type invariant of the clients' state.
ClientTypeOK ==
  /\ worker = [k \in Workers |-> worker[k]]
  /\ \A k \in Workers : ProcessOK(worker[k])
  /\ inflight = [t \in Threads |-> inflight[t]]
  /\ \A t \in Threads : inflight[t] = NoRequest \/ RequestOK(inflight[t])

\* What "live" means: at most one request can still answer a process, and only
\* while it waits for the answer to that call.
AnswersMatch ==
  /\ \A t \in Threads : inflight[t].live =>
       LET p == worker[inflight[t].from] IN
       p.pc = "await" /\ p.call = inflight[t].call /\ p.wf = inflight[t].wf
  /\ \A t, u \in Threads :
       inflight[t].live /\ inflight[u].live
         /\ inflight[t].from = inflight[u].from => t = u

\* The invariant with which the processes' steps are steps of Engine.
DInv == IInv /\ ClientTypeOK /\ AnswersMatch

-----------------------------------------------------------------------------
(* Correctness *)

\* k runs the steps of w and its clock says that its lease has not expired:
\* it counts the lease from the moment it asked for it.
Working(k, w) ==
  /\ worker[k].wf = w /\ worker[k].todo = "step" /\ worker[k].next <= LastStep
  /\ clock < worker[k].until

\* "only one worker per workflow" (sdks/typescript/tests/sdk.test.ts:385): no
\* two worker processes run the steps of one workflow at a time in which both
\* may think they hold its lease, wherever they start.  Refuted where the SDK
\* repeats retryStep.
OneWorker ==
  \A w \in Workflows, j, k \in Workers :
    Working(j, w) /\ Working(k, w) => j = k

\* "Exactly-once checkpointing" and "Automatic recovery" (README.md:14): a
\* COMPLETED workflow has run each of its steps, whatever answers were lost,
\* attempts delayed, and processes killed on the way.  Where steps fail that is
\* so if every process goes on where current_step says (FirstSteps = {0}) and
\* the SDK repeats no call; it is refuted where the SDK repeats calls.
NoStepSkipped ==
  \A w \in Workflows : workflows[w].status = "COMPLETED" =>
    \A s \in 1..LastStep : steps[w][s] # "ABSENT"

\* Where no step fails, the completed steps are the first current_step ones,
\* and a COMPLETED workflow has them all, wherever processes start.
CursorIsPrefix ==
  \A w \in Workflows :
    /\ CompletedSteps(w) = 1..workflows[w].cursor
    /\ workflows[w].status = "COMPLETED" => workflows[w].cursor = LastStep

-----------------------------------------------------------------------------
(* Where no step fails: why OneWorker and CursorIsPrefix hold *)

\* Worker k has the row under a lease that lasts until then, or longer.
Held(row, k, until) ==
  row.status = "RUNNING" /\ row.owner = k /\ until <= row.expires

\* Or the workflow is complete: a request of an earlier process of k, on its
\* way still, may finish it while k runs steps again that it has already.
Kept(row, k, until) == Held(row, k, until) \/ row.status = "COMPLETED"

\* Process p of k is at most one step ahead of the cursor, makes the call for
\* the step it is at, and has the lease that it reckons with.
ProcessSteady(k, p, rows, now) ==
  /\ p.todo \in {"none", "acquire", "step"} /\ p.since <= now
  /\ p.pc \in {"await", "again"} =>
       \/ p.call.op = "acquire" /\ p.todo = "acquire"
       \/ p.call.op = "complete" /\ p.todo = "step" /\ p.call.arg = p.next
       \/ p.call.op = "finish" /\ p.todo = "step" /\ p.next > LastStep
  /\ p.todo = "acquire" => p.next <= 1
  /\ p.todo = "step" =>
       /\ p.wf \in Workflows /\ p.next <= rows[p.wf].cursor + 1
       /\ p.next <= LastStep /\ now < p.until => Kept(rows[p.wf], k, p.until)

\* Request r of process p, however old: it completes no step but those up to
\* the one after the cursor, finishes a workflow only after its last step, and
\* if p waits for the workflow that has been leased for it, p will know less
\* time of the lease than there is.
RequestSteady(r, p, rows, now) ==
  /\ r.live => p.since <= r.sent
  /\ \/ r.call.op = "acquire"
     \/ r.call.op = "complete" /\ r.call.arg <= rows[r.wf].cursor + 1
     \/ r.call.op = "finish" /\ rows[r.wf].cursor = LastStep
  /\ r.live /\ r.got # None =>
       LET until == p.since + r.call.arg IN
       now < until => Kept(rows[r.got], r.from, until)

RowSteady(row, done) ==
  /\ done = 1..row.cursor
  /\ row.status = "COMPLETED" => row.cursor = LastStep
  /\ row.status = "ABSENT" => row.cursor = 0

\* k may take it that it has the lease of w, or will when its answer arrives.
Believes(k, w) ==
  \/ Working(k, w)
  \/ \E t \in Threads :
       LET r == inflight[t] IN
       /\ r.live /\ r.from = k /\ r.got = w
       /\ clock < worker[k].since + r.call.arg

OneBeliever ==
  \A w \in Workflows, j, k \in Workers :
    Believes(j, w) /\ Believes(k, w) => j = k

\* The strengthening of the two that every step preserves.
WorkerInv ==
  /\ \A w \in Workflows : RowSteady(workflows[w], CompletedSteps(w))
  /\ \A k \in Workers : ProcessSteady(k, worker[k], workflows, clock)
  /\ \A t \in Threads : inflight[t] # NoRequest =>
       RequestSteady(inflight[t], worker[inflight[t].from], workflows, clock)
  /\ OneBeliever

-----------------------------------------------------------------------------
(* Where no call is repeated and no id is used again: why OneWorker and    *)
(* NoStepSkipped hold although steps fail                                  *)

\* Every process goes on where current_step says; NoStepSkipped needs that.
FromCursor == FirstSteps \subseteq {0}

\* Process p of k makes the call that belongs to what it does, and has the
\* lease that it reckons with.  While its workflow is its own, the next step
\* is the one after the cursor.
ProcessOwning(k, p, rows, now) ==
  /\ p.since <= now /\ p.pc # "again"
  /\ p.pc \in {"new", "exited"} => p.todo = "none"
  /\ p.pc = "await" =>
       \/ p.call.op = p.todo /\ p.todo # "step"
       \/ p.todo = "step" /\ p.call.op \in {"complete", "fail"} /\ p.call.arg = p.next
       \/ p.todo = "step" /\ p.call.op = "finish" /\ p.next > LastStep
  /\ FromCursor /\ p.todo = "acquire" => p.next = 0
  /\ p.todo = "step" =>
       /\ FromCursor /\ rows[p.wf].owner = k => p.next = rows[p.wf].cursor + 1
       /\ p.next <= LastStep /\ now < p.until => Held(rows[p.wf], k, p.until)

\* Request r of process p: nobody waits for it only if p has ended.  It cannot
\* complete a step but the one after the cursor, nor finish a workflow that
\* has steps left.
RequestOwning(r, p, rows, now) ==
  /\ IF r.live THEN p.since <= r.sent ELSE p.pc = "exited"
  /\ FromCursor /\ r.call.op = "complete" /\ rows[r.wf].owner = r.from =>
       r.call.arg = rows[r.wf].cursor + 1
  /\ FromCursor /\ r.call.op = "finish" /\ rows[r.wf].owner = r.from =>
       rows[r.wf].cursor = LastStep
  /\ r.live /\ r.got # None =>
       LET until == p.since + r.call.arg IN
       now < until => Held(rows[r.got], r.from, until)

\* A step may fail after its completion; the cursor covers it all the same.
RowOwning(row, st) ==
  /\ row.status = "ABSENT" => row.cursor = 0
  /\ FromCursor =>
       /\ row.cursor <= LastStep
       /\ \A s \in StepNumbers : /\ s <= row.cursor => st[s] # "ABSENT"
                                 /\ st[s] = "COMPLETED" => s <= row.cursor
       /\ row.status = "COMPLETED" => row.cursor = LastStep

\* A worker has one request at most, and a retry under way is that one.
OneRequest ==
  \A t \in Threads :
    /\ inflight[t] # NoRequest =>
         \A u \in Threads : inflight[u].from = inflight[t].from => u = t
    /\ thread[t].op = "RetryStep" =>
         /\ inflight[t].from = thread[t].worker
         /\ inflight[t].call.op = "retry" /\ inflight[t].call.arg <= MaxRetries

\* The strengthening of the two that every step preserves.
OwnerInv ==
  /\ OneRequest
  /\ \A w \in Workflows : RowOwning(workflows[w], steps[w])
  /\ \A k \in Workers : ProcessOwning(k, worker[k], workflows, clock)
  /\ \A t \in Threads : inflight[t] # NoRequest =>
       RequestOwning(inflight[t], worker[inflight[t].from], workflows, clock)
=============================================================================
