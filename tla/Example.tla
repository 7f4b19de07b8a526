------------------------------- MODULE Example ------------------------------
(***************************************************************************)
(* The program src/cmd/example/main.go: a worker and the scheduler share a *)
(* process, and the worker calls the engine directly.  It creates two      *)
(* workflows, runs step 1 of the one it is given, retries step 2, signals  *)
(* the second workflow and creates a timer for it, sleeps, acquires again, *)
(* finishes what it is given, reports and exits.  A failed call other than *)
(* StartStep is log.Fatal.                                                 *)
(*                                                                         *)
(* The row that AcquireLease returns is taken to be read with the commit:  *)
(* only the worker itself changes the columns that it uses.                *)
(***************************************************************************)
EXTENDS Engine

CONSTANTS
  First, Second,  \* "order-001" and "order-002"
  Me,             \* "worker-a"
  LastStep,       \* 3
  MaxPause        \* bound: seconds it takes before, over and after its sleep

ASSUME ExampleAssumption ==
  /\ {First, Second} = Workflows /\ Me \in Workers
  /\ LastStep \in Nat /\ LastStep >= 2 /\ StepNumbers = 1..LastStep
  /\ MaxRetries >= 1 /\ NextDelay[1] <= 3    \* 2 and 2
  /\ \A n \in 0..MaxTime : n + 2 \in WakeTimes

VARIABLE prog   \* the main goroutine: the workflow and step it is at, when
                \* its lease expires, when it fell asleep or woke up

exampleVars == <<vars, prog>>

Ended == {"done", "fatal", "panic"}

\* The program goes from one point to another.
At(pc) == prog.pc = pc
GoTo(pc) == prog' = [prog EXCEPT !.pc = pc]
GoToStep(pc, s) == prog' = [prog EXCEPT !.pc = pc, !.step = s]
GoToSince(pc) == prog' = [prog EXCEPT !.pc = pc, !.since = clock]

Create ==
  \/ At("create1") /\ CreateWorkflow(First) /\ GoTo("create2")
  \/ At("create2") /\ CreateWorkflow(Second) /\ GoTo("acquire1")

\* The loop starts at step 1, or at the step after the cursor.
GivenTo(w, expires) ==
  prog' = [prog EXCEPT !.pc = IF @ = "acquire1" THEN "start" ELSE "finish",
                       !.wf = w, !.until = expires,
                       !.step = IF At("acquire1") THEN 1 ELSE workflows[w].cursor + 1]

\* The program uses the workflow without a look at the nil of "no work".  Its
\* second call reads the clock after the sleep.
Acquire ==
  /\ At("acquire1") \/ At("acquire2")
  /\ \E now \in {n \in Nows : n >= prog.since} :
       \/ \E w \in Workflows, d \in LeaseSeconds :
            LeaseTo(w, Me, d, now) /\ GivenTo(w, now + d)
       \/ Oldest(now) = {} /\ GoTo("panic") /\ UNCHANGED vars

\* An error of StartStep is ignored.
AfterStart == GoTo(IF prog.step = 2 THEN "retry" ELSE "complete")

TryStep ==
  \/ \E t \in Threads : /\ At("start")
                        /\ VerifyLease(t, "StartStep", prog.wf, Me, prog.step)
                        /\ GoTo("starting")
  \/ At("start") /\ ~HoldsLease(prog.wf, Me) /\ AfterStart /\ UNCHANGED vars
  \/ \E t \in Threads : At("starting") /\ StartStep(t) /\ AfterStart

Complete(pc, then) ==
  /\ At(pc)
  /\ \/ CompleteStep(prog.wf, Me, prog.step) /\ GoToStep(then, prog.step + 1)
     \/ /\ ~HoldsLease(prog.wf, Me) \/ steps[prog.wf][prog.step] = "COMPLETED"
        /\ GoTo("fatal") /\ UNCHANGED vars

\* The retry count is 1; a refusal of MarkWaiting is the error of RetryStep.
Retry ==
  \E t \in Threads :
    \/ At("retry") /\ RetryStep(t, prog.wf, Me, 1) /\ GoTo("waiting")
    \/ /\ At("waiting") /\ RetryStepWait(t)
       /\ GoTo(IF RunningFor(prog.wf, Me) THEN "signal" ELSE "fatal")

SignalAndTimer ==
  \/ At("signal") /\ SendSignal(Second) /\ GoTo("timer")
  \/ At("timer") /\ GoToSince("sleep")
     /\ \E now \in Nows : CreateTimer(Second, now + 2)

Sleep ==
  At("sleep") /\ clock >= prog.since + 3 /\ GoToSince("acquire2") /\ UNCHANGED vars

Finish ==
  \/ prog.step <= LastStep /\ Complete("finish", "finish")
  \/ /\ At("finish") /\ prog.step > LastStep
     /\ \/ CompleteWorkflow(prog.wf, Me) /\ GoTo("done")
        \/ ~RunningFor(prog.wf, Me) /\ GoTo("fatal") /\ UNCHANGED vars

Program ==
  \/ Create \/ Acquire \/ TryStep \/ Complete("complete", "start") \/ Retry
  \/ SignalAndTimer \/ Sleep \/ Finish

\* The clock, as far as the bound on the program lets it go.
Tick ==
  /\ clock < prog.since + MaxPause + (IF At("sleep") THEN 3 ELSE 0)
  /\ PassSecond
  /\ UNCHANGED prog

\* The end of main ends the scheduler.
Scheduler == prog.pc \notin Ended /\ SchedulerStep /\ UNCHANGED prog

ExampleInit ==
  /\ Init
  /\ prog = [pc |-> "create1", wf |-> None, step |-> 0, until |-> 0, since |-> 0]

ExampleNext == Program \/ Scheduler \/ Tick

ExampleSpec == ExampleInit /\ [][ExampleNext]_exampleVars

-----------------------------------------------------------------------------
(* Queries *)

\* QueryRunning, QueryQueued, ...: the workflows with a status.
Query(status) == {w \in Workflows : workflows[w].status = status}

-----------------------------------------------------------------------------
(* Properties *)

\* AcquireLease never finds no work, so that main does not dereference nil,
\* and it does not fail before its lease has expired, however the scheduler
\* interleaves with it and however old the readings of the clock are.
FailsOnlyExpired ==
  /\ prog.pc # "panic"
  /\ prog.pc = "fatal" => clock >= prog.until

\* When main reports: the workflow it finished has every step and no other
\* is running or failed; if the retried workflow is the older one, it is the
\* one that was finished, for its timer is due after the sleep even where the
\* scheduler has not fired it.
Report ==
  prog.pc = "done" =>
    /\ Query("COMPLETED") = {prog.wf}
    /\ Query("FAILED") = {} /\ Query("RUNNING") = {}
    /\ CompletedSteps(prog.wf) = 1..LastStep
    /\ Cardinality(PendingSignals(Second)) = 1
    /\ workflows[First].created < workflows[Second].created => prog.wf = First

-----------------------------------------------------------------------------
(* Why the two hold *)

Beginning == {"create1", "create2", "acquire1"}
FirstRun == {"start", "starting", "complete", "retry", "waiting"}
Between == {"signal", "timer", "sleep", "acquire2"}
Given == FirstRun \cup Between \cup {"finish", "done"}

PCs == Beginning \cup Given \cup {"fatal", "panic"}

Progs == [pc : PCs, wf : Workflows \cup {None}, step : Nat, until : Nat, since : Nat]

ProgTypeOK ==
  /\ prog \in Progs
  /\ prog.pc \in Given => prog.wf \in Workflows
  /\ prog.since <= clock

\* The workflow is the program's, under the lease that it knows of, or that
\* lease has run out.
LeaseKnown(row) ==
  \/ row.status = "RUNNING" /\ row.owner = Me /\ row.expires = prog.until
  \/ row.status = "QUEUED" /\ row.owner = None /\ clock >= prog.until

\* What the program has done with the workflow that it was given.
GivenRow(row) ==
  /\ prog.pc \in FirstRun => /\ prog.step \in {1, 2}
                             /\ prog.pc = "complete" => prog.step = 1
  /\ prog.pc \in FirstRun \cup {"finish"} => prog.step = row.cursor + 1 /\ LeaseKnown(row)
  /\ prog.pc \in Between => row.status \in {"QUEUED", "WAITING"}
  /\ prog.pc = "done" => row.status = "COMPLETED" /\ row.cursor = LastStep

\* What it has not done with the other one, until it sleeps, and after.
OtherRow(row) ==
  /\ prog.pc \in FirstRun \cup Between => row.status = "QUEUED" /\ row.cursor = 0
  /\ prog.pc \in {"finish", "done"} => row.status \in {"QUEUED", "WAITING"}

RowsKnown ==
  /\ \A w \in Workflows : CompletedSteps(w) = 1..workflows[w].cursor
  /\ prog.pc \in Beginning => \A w \in Workflows : workflows[w].cursor = 0
  /\ At("create2") => workflows[First].status = "QUEUED"
  /\ At("acquire1") => \A w \in Workflows : workflows[w].status = "QUEUED"
  /\ prog.pc \in Given =>
       /\ GivenRow(workflows[prog.wf])
       /\ \A w \in Workflows \ {prog.wf} : OtherRow(workflows[w])
       /\ workflows[First].created < workflows[Second].created => prog.wf = First

\* The timer of the retried workflow is there as long as it waits, and due
\* after the sleep.
RetryTimerSet ==
  prog.pc \in {"waiting"} \cup Between
    /\ workflows[prog.wf].status \in {"RUNNING", "WAITING"} =>
      \E i \in DOMAIN timers :
        /\ timers[i].wf = prog.wf /\ ~timers[i].fired
        /\ timers[i].wake <= CASE At("acquire2") -> prog.since
                               [] At("sleep") -> prog.since + NextDelay[1]
                               [] OTHER -> clock + NextDelay[1]

OneSignal ==
  /\ prog.pc \in Beginning \cup FirstRun \cup {"signal"} => signals = <<>>
  /\ prog.pc \in {"timer", "sleep", "acquire2", "finish", "done"} =>
       Len(signals) = 1 /\ signals[1].wf = Second /\ ~signals[1].consumed

\* The only request that is between two transactions of RetryStep is the
\* program's own.
OwnRetry ==
  \A t \in Threads : thread[t].op = "RetryStep" =>
    /\ prog.pc \notin Beginning \cup (FirstRun \ {"waiting"})
    /\ At("waiting") => thread[t].wf = prog.wf /\ thread[t].worker = Me

\* The strengthening of the two that every step preserves.
ExampleInv ==
  ProgTypeOK /\ RowsKnown /\ RetryTimerSet /\ OneSignal /\ OwnRetry /\ FailsOnlyExpired
=============================================================================
