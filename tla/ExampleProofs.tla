----------------------------- MODULE ExampleProofs --------------------------
(***************************************************************************)
(* Theorems about the example program: it does to the tables what Engine   *)
(* lets a client do, and it neither panics nor fails before its lease has  *)
(* expired, and reports what is true.                                      *)
(***************************************************************************)
EXTENDS Example, EngineProofs

EInv == IInv /\ ExampleInv

-----------------------------------------------------------------------------
(* The program's variable *)

LEMMA GoToFields ==
  ASSUME prog \in Progs, NEW pc \in PCs, GoTo(pc)
  PROVE  /\ prog' \in Progs /\ prog'.pc = pc /\ prog'.wf = prog.wf
         /\ prog'.step = prog.step /\ prog'.until = prog.until /\ prog'.since = prog.since
BY DEF GoTo, Progs

LEMMA GoToStepFields ==
  ASSUME prog \in Progs, NEW pc \in PCs, NEW s \in Nat, GoToStep(pc, s)
  PROVE  /\ prog' \in Progs /\ prog'.pc = pc /\ prog'.wf = prog.wf
         /\ prog'.step = s /\ prog'.until = prog.until /\ prog'.since = prog.since
BY DEF GoToStep, Progs

LEMMA GoToSinceFields ==
  ASSUME prog \in Progs, NEW pc \in PCs, clock \in Nat, GoToSince(pc)
  PROVE  /\ prog' \in Progs /\ prog'.pc = pc /\ prog'.wf = prog.wf
         /\ prog'.step = prog.step /\ prog'.until = prog.until /\ prog'.since = clock
BY DEF GoToSince, Progs

LEMMA GivenToFields ==
  ASSUME prog \in Progs, NEW w \in Workflows, NEW expires \in Nat,
         workflows[w].cursor \in Nat, GivenTo(w, expires)
  PROVE  /\ prog' \in Progs /\ prog'.wf = w /\ prog'.until = expires
         /\ prog'.since = prog.since
         /\ prog'.pc = IF At("acquire1") THEN "start" ELSE "finish"
         /\ prog'.step = IF At("acquire1") THEN 1 ELSE workflows[w].cursor + 1
<1> DEFINE pc == IF At("acquire1") THEN "start" ELSE "finish"
           step == IF At("acquire1") THEN 1 ELSE workflows[w].cursor + 1
<1>1. pc \in PCs /\ step \in Nat
  BY DEF PCs, Given, FirstRun
<1>2. prog' = [prog EXCEPT !.pc = pc, !.wf = w, !.until = expires, !.step = step]
  BY DEF GivenTo, At
<1> HIDE DEF pc, step
<1>3. /\ prog' \in Progs /\ prog'.wf = w /\ prog'.until = expires
      /\ prog'.since = prog.since /\ prog'.pc = pc /\ prog'.step = step
  BY <1>1, <1>2 DEF Progs
<1> QED
  BY <1>3 DEF pc, step

\* The types of what the steps of the program use.
LEMMA ExampleTypes ==
  ASSUME EInv
  PROVE  /\ prog \in Progs /\ clock \in Nat
         /\ prog.step \in Nat /\ prog.until \in Nat /\ prog.since \in Nat /\ prog.pc \in PCs
         /\ \A w \in Workflows : /\ workflows[w] \in WorkflowRow
                                 /\ workflows[w].cursor \in Nat
                                 /\ workflows[w].created \in Nat
                                 /\ CompletedSteps(w) \subseteq 1..LastStep
         /\ prog.pc \in Given => prog.wf \in Workflows
<1>1. TypeOK /\ ProgTypeOK
  BY DEF EInv, IInv, ExampleInv
<1>2. clock \in Nat /\ workflows \in [Workflows -> WorkflowRow]
  BY <1>1, BoundAssumption DEF TypeOK
<1> QED
  BY <1>1, <1>2, ExampleAssumption DEF ProgTypeOK, Progs, WorkflowRow, CompletedSteps

-----------------------------------------------------------------------------
(* What the program does is what Engine lets a client do *)

LEMMA AcquireStep ==
  ASSUME EInv, NEW w \in Workflows, NEW d \in LeaseSeconds, NEW now \in Nows,
         LeaseTo(w, Me, d, now)
  PROVE  Next
BY ExampleAssumption DEF AcquireLease, ClientStep, Next

LEMMA CompleteStepNext ==
  ASSUME EInv, NEW w \in Workflows, NEW s \in StepNumbers, CompleteStep(w, Me, s)
  PROVE  Next
BY ExampleAssumption DEF LeaseStep, Next

LEMMA ProgramIsClient ==
  ASSUME EInv, [ExampleNext]_exampleVars
  PROVE  [Next]_vars
<1>1. CASE Create
  BY <1>1, ExampleAssumption DEF Create, ClientStep, Next
<1>2. CASE Acquire
  BY <1>2, AcquireStep DEF Acquire
<1>3. CASE TryStep
  <2>1. ASSUME NEW t \in Threads, At("start"),
               VerifyLease(t, "StartStep", prog.wf, Me, prog.step)
        PROVE  Next
    <3>1. prog.wf \in Workflows /\ prog.step \in StepNumbers
      BY <2>1, ExampleTypes, ExampleAssumption
         DEF EInv, ExampleInv, RowsKnown, GivenRow, At, FirstRun, Given
    <3> QED
      BY <2>1, <3>1, ExampleAssumption DEF RequestStep, Next
  <2>2. ASSUME NEW t \in Threads, StartStep(t)
        PROVE  Next
    BY <2>2 DEF RequestStep, Next
  <2> QED
    BY <1>3, <2>1, <2>2 DEF TryStep
<1>4. CASE Complete("complete", "start")
  <2>1. CASE CompleteStep(prog.wf, Me, prog.step) /\ At("complete")
    <3>1. prog.wf \in Workflows /\ prog.step \in StepNumbers
      BY <2>1, ExampleTypes, ExampleAssumption
         DEF EInv, ExampleInv, RowsKnown, GivenRow, At, FirstRun, Given
    <3> QED
      BY <2>1, <3>1, CompleteStepNext
  <2> QED
    BY <1>4, <2>1 DEF Complete
<1>5. CASE Retry
  <2>1. ASSUME NEW t \in Threads, At("retry"), RetryStep(t, prog.wf, Me, 1)
        PROVE  Next
    <3>1. prog.wf \in Workflows
      BY <2>1, ExampleTypes DEF At, FirstRun, Given
    <3>2. 1 \in 0..MaxRetries
      BY ExampleAssumption, RetryAssumption
    <3> QED
      BY <2>1, <3>1, <3>2, ExampleAssumption DEF RequestStep, Next
  <2>2. ASSUME NEW t \in Threads, RetryStepWait(t)
        PROVE  Next
    BY <2>2 DEF RequestStep, Next
  <2> QED
    BY <1>5, <2>1, <2>2 DEF Retry
<1>6. CASE SignalAndTimer
  <2>1. ASSUME NEW now \in Nows, CreateTimer(Second, now + 2)
        PROVE  Next
    <3>1. clock \in 0..MaxTime /\ MaxTime \in Nat
      BY BoundAssumption DEF EInv, IInv, TypeOK
    <3>2. now \in 0..MaxTime
      BY <3>1 DEF Nows
    <3>3. now + 2 \in WakeTimes /\ Second \in Workflows
      BY <3>2, ExampleAssumption
    <3> QED
      BY <2>1, <3>3 DEF ClientStep, Next
  <2>2. ASSUME SendSignal(Second)
        PROVE  Next
    BY <2>2, ExampleAssumption DEF ClientStep, Next
  <2> QED
    BY <1>6, <2>1, <2>2 DEF SignalAndTimer
<1>7. CASE Sleep
  BY <1>7 DEF Sleep
<1>8. CASE Finish
  <2>1. CASE prog.step <= LastStep /\ Complete("finish", "finish")
    <3>1. CASE CompleteStep(prog.wf, Me, prog.step) /\ At("finish")
      <4>1. prog.wf \in Workflows /\ prog.step = workflows[prog.wf].cursor + 1
        BY <3>1, ExampleTypes DEF EInv, ExampleInv, RowsKnown, GivenRow, At, Given
      <4>2. prog.step \in StepNumbers
        <5>1. workflows[prog.wf].cursor \in Nat
          BY <4>1, ExampleTypes
        <5> QED
          BY <2>1, <4>1, <5>1, ExampleAssumption
      <4> QED
        BY <3>1, <4>1, <4>2, CompleteStepNext
    <3> QED
      BY <2>1, <3>1 DEF Complete
  <2>2. CASE At("finish") /\ CompleteWorkflow(prog.wf, Me)
    <3>1. prog.wf \in Workflows
      BY <2>2, ExampleTypes DEF At, Given
    <3> QED
      BY <2>2, <3>1, ExampleAssumption DEF LeaseStep, Next
  <2> QED
    BY <1>8, <2>1, <2>2 DEF Finish
<1>9. CASE Scheduler
  BY <1>9 DEF Scheduler, Next
<1>10. CASE Tick
  BY <1>10 DEF Tick, Next
<1>11. CASE UNCHANGED exampleVars
  BY <1>11 DEF exampleVars
<1> QED
  BY <1>1, <1>2, <1>3, <1>4, <1>5, <1>6, <1>7, <1>8, <1>9, <1>10, <1>11
     DEF ExampleNext, Program

-----------------------------------------------------------------------------
(* The steps of the program keep its invariant *)

\* Where the program goes on and no row, step, timer or request changes, there
\* is only the new point to look at.
LEMMA PrefixStays ==
  ASSUME EInv, steps' = steps, \A w \in Workflows : workflows'[w].cursor = workflows[w].cursor
  PROVE  \A w \in Workflows : CompletedSteps(w)' = 1..workflows'[w].cursor
BY DEF EInv, ExampleInv, RowsKnown, CompletedSteps

LEMMA CreateKeeps ==
  ASSUME EInv, IInv', Create
  PROVE  ExampleInv'
<1>1. PICK w \in Workflows : /\ CreateWorkflow(w)
                             /\ \/ At("create1") /\ w = First /\ GoTo("create2")
                                \/ At("create2") /\ w = Second /\ GoTo("acquire1")
  BY ExampleAssumption DEF Create
<1>2. prog \in Progs /\ clock \in Nat /\ "create2" \in PCs /\ "acquire1" \in PCs
  BY ExampleTypes DEF PCs, Beginning
<1>3. /\ prog' \in Progs /\ prog'.since = prog.since
      /\ \/ prog.pc = "create1" /\ w = First /\ prog'.pc = "create2"
         \/ prog.pc = "create2" /\ w = Second /\ prog'.pc = "acquire1"
  BY <1>1, <1>2, GoToFields DEF At
<1>4. PICK now : workflows' = [workflows EXCEPT ![w] = Created(now)]
  BY <1>1 DEF CreateWorkflow
<1>5. /\ workflows'[w].status = "QUEUED" /\ workflows'[w].cursor = 0
      /\ \A v \in Workflows \ {w} : workflows'[v] = workflows[v]
  BY <1>4 DEF Created, EInv, IInv, TypeOK
<1>6. ~Exists(w) /\ UNCHANGED <<clock, steps, timers, signals, thread>>
  BY <1>1 DEF CreateWorkflow, notLeases
<1>7. \A v \in Workflows : workflows[v].cursor = 0 /\ workflows'[v].cursor = 0
  BY <1>3, <1>5 DEF EInv, ExampleInv, RowsKnown, Beginning
<1>8. ProgTypeOK'
  BY <1>3, <1>6 DEF EInv, ExampleInv, ProgTypeOK, Given, FirstRun, Between
<1>9. RowsKnown'
  <2>1. \A v \in Workflows : CompletedSteps(v)' = 1..workflows'[v].cursor
    BY <1>6, <1>7, PrefixStays
  <2>2. prog'.pc \notin Given
    BY <1>3 DEF Given, FirstRun, Between
  <2>3. prog'.pc = "create2" => workflows'[First].status = "QUEUED"
    BY <1>3, <1>5
  <2>4. ASSUME prog'.pc = "acquire1", NEW v \in Workflows
        PROVE  workflows'[v].status = "QUEUED"
    <3>1. prog.pc = "create2" /\ w = Second
      BY <1>3, <2>4
    <3>2. workflows[First].status = "QUEUED"
      BY <3>1 DEF EInv, ExampleInv, RowsKnown, At
    <3>3. First # w
      BY <1>6, <3>2 DEF Exists
    <3> QED
      BY <1>5, <3>1, <3>2, <3>3, ExampleAssumption
  <2> QED
    BY <1>7, <2>1, <2>2, <2>3, <2>4 DEF RowsKnown, At
<1>10. RetryTimerSet'
  BY <1>3 DEF RetryTimerSet, Between
<1>11. OneSignal'
  BY <1>3, <1>6 DEF EInv, ExampleInv, OneSignal, Beginning, FirstRun
<1>12. OwnRetry'
  BY <1>3, <1>6 DEF EInv, ExampleInv, OwnRetry, Beginning, FirstRun
<1>13. FailsOnlyExpired'
  BY <1>3 DEF FailsOnlyExpired
<1> QED
  BY <1>8, <1>9, <1>10, <1>11, <1>12, <1>13 DEF ExampleInv

\* Every workflow can be handed out when the program asks for one.
LEMMA AllEligible ==
  ASSUME EInv, At("acquire1") \/ At("acquire2"),
         NEW now \in Nat, now >= prog.since
  PROVE  \A w \in Workflows : Eligible(w, now)
<1> SUFFICES ASSUME NEW w \in Workflows PROVE Eligible(w, now)
  OBVIOUS
<1>1. CASE workflows[w].status = "QUEUED"
  BY <1>1 DEF Eligible
<1>2. CASE workflows[w].status # "QUEUED"
  <2>1. At("acquire2") /\ w = prog.wf /\ workflows[w].status = "WAITING"
    BY <1>2 DEF EInv, ExampleInv, RowsKnown, GivenRow, OtherRow, At, Given, Between
  <2>2. PICK i \in DOMAIN timers :
          timers[i].wf = w /\ ~timers[i].fired /\ timers[i].wake <= prog.since
    BY <2>1 DEF EInv, ExampleInv, RetryTimerSet, Between, At
  <2>3. timers[i].wake \in Int /\ prog.since \in Nat
    <3>1. timers \in Seq(TimerRow)
      BY DEF EInv, IInv, TypeOK
    <3>2. timers[i] \in TimerRow
      BY <2>2, <3>1, LenProperties, ElementOfSeq
    <3> QED
      BY <3>2, ExampleTypes DEF TimerRow
  <2>4. i \in DueTimers(w, now)
    BY <2>2, <2>3 DEF DueTimers
  <2> QED
    BY <2>1, <2>4 DEF Eligible
<1> QED
  BY <1>1, <1>2

\* So there is work, and the older of the two workflows is handed out.
LEMMA OlderHandedOut ==
  ASSUME EInv, NEW now, \A w \in Workflows : Eligible(w, now)
  PROVE  /\ Oldest(now) # {}
         /\ workflows[First].created < workflows[Second].created =>
              Oldest(now) \subseteq {First}
<1>1. /\ workflows[First].created \in Nat /\ workflows[Second].created \in Nat
      /\ First \in Workflows /\ Second \in Workflows
  BY ExampleTypes, ExampleAssumption
<1>2. workflows[First].created <= workflows[Second].created => First \in Oldest(now)
  BY <1>1, ExampleAssumption DEF Oldest
<1>3. workflows[Second].created <= workflows[First].created => Second \in Oldest(now)
  BY <1>1, ExampleAssumption DEF Oldest
<1>4. workflows[First].created < workflows[Second].created => Second \notin Oldest(now)
  BY <1>1 DEF Oldest
<1>5. Oldest(now) \subseteq {First, Second}
  BY ExampleAssumption DEF Oldest
<1> QED
  BY <1>1, <1>2, <1>3, <1>4, <1>5

LEMMA AcquireKeeps ==
  ASSUME EInv, IInv', Acquire
  PROVE  ExampleInv'
<1>1. PICK now \in {n \in Nows : n >= prog.since} :
        \/ \E w \in Workflows, d \in LeaseSeconds :
             LeaseTo(w, Me, d, now) /\ GivenTo(w, now + d)
        \/ Oldest(now) = {}
  BY DEF Acquire
<1>2. now \in Nat /\ now >= prog.since /\ now <= clock /\ clock \in Nat /\ prog \in Progs
  BY ExampleTypes DEF Nows
<1>3. \A w \in Workflows : Eligible(w, now)
  BY <1>2, AllEligible DEF Acquire
<1>4. PICK w \in Workflows, d \in LeaseSeconds :
        LeaseTo(w, Me, d, now) /\ GivenTo(w, now + d)
  BY <1>1, <1>3, OlderHandedOut
<1>5. d \in Nat /\ now + d \in Nat /\ workflows[w].cursor \in Nat
  BY <1>2, LeaseAssumption, ExampleTypes
<1>6. /\ prog' \in Progs /\ prog'.wf = w /\ prog'.until = now + d
      /\ prog'.since = prog.since
      /\ \/ prog.pc = "acquire1" /\ prog'.pc = "start" /\ prog'.step = 1
         \/ prog.pc = "acquire2" /\ prog'.pc = "finish"
              /\ prog'.step = workflows[w].cursor + 1
  BY <1>2, <1>4, <1>5, GivenToFields DEF Acquire, At
<1> DEFINE row == Taken(workflows[w], Me, now + d)
<1>7. /\ row.status = "RUNNING" /\ row.owner = Me /\ row.expires = now + d
      /\ row.cursor = workflows[w].cursor /\ row.created = workflows[w].created
  BY ExampleTypes DEF Taken, WorkflowRow
<1>8. /\ workflows'[w] = row /\ \A v \in Workflows \ {w} : workflows'[v] = workflows[v]
      /\ UNCHANGED <<clock, steps, timers, signals, thread>>
  BY <1>4 DEF LeaseTo, notLeases, EInv, IInv, TypeOK
<1> HIDE DEF row
<1>9. ProgTypeOK'
  BY <1>6, <1>8 DEF EInv, ExampleInv, ProgTypeOK, Given, FirstRun, Between
<1>10. RowsKnown'
  <2>1. \A v \in Workflows : CompletedSteps(v)' = 1..workflows'[v].cursor
    BY <1>7, <1>8, PrefixStays
  <2>2. GivenRow(workflows[w])' /\ LeaseKnown(workflows[w])'
    <3>1. LeaseKnown(workflows[w])'
      BY <1>6, <1>7, <1>8 DEF LeaseKnown
    <3>2. prog.pc = "acquire1" => workflows[w].cursor = 0
      BY DEF EInv, ExampleInv, RowsKnown, Beginning
    <3> QED
      BY <1>6, <1>7, <1>8, <3>1, <3>2 DEF GivenRow, FirstRun, Between
  <2>3. \A v \in Workflows \ {w} : OtherRow(workflows[v])'
    <3>1. ASSUME NEW v \in Workflows \ {w}
          PROVE  OtherRow(workflows[v])'
      <4>1. prog.pc = "acquire1" => workflows[v].cursor = 0 /\ workflows[v].status = "QUEUED"
        BY DEF EInv, ExampleInv, RowsKnown, Beginning, At
      <4>2. prog.pc = "acquire2" => workflows[v].status \in {"QUEUED", "WAITING"}
        BY DEF EInv, ExampleInv, RowsKnown, GivenRow, OtherRow, Given, Between
      <4> QED
        BY <1>6, <1>8, <4>1, <4>2 DEF OtherRow, FirstRun, Between
    <3> QED
      BY <3>1
  <2>4. workflows'[First].created < workflows'[Second].created => w = First
    <3>1. w \in Oldest(now)
      BY <1>4 DEF LeaseTo
    <3>2. \A v \in Workflows : workflows'[v].created = workflows[v].created
      BY <1>7, <1>8
    <3> QED
      BY <1>3, <3>1, <3>2, OlderHandedOut, ExampleAssumption
  <2>5. prog'.pc \notin Beginning
    BY <1>6 DEF Beginning
  <2> QED
    BY <1>6, <2>1, <2>2, <2>3, <2>4, <2>5 DEF RowsKnown, At, Beginning
<1>11. RetryTimerSet'
  BY <1>6 DEF RetryTimerSet, Between
<1>12. OneSignal'
  BY <1>6, <1>8 DEF EInv, ExampleInv, OneSignal, Beginning, FirstRun
<1>13. OwnRetry'
  BY <1>6, <1>8 DEF EInv, ExampleInv, OwnRetry, Beginning, FirstRun, At
<1>14. FailsOnlyExpired'
  BY <1>6 DEF FailsOnlyExpired
<1> QED
  BY <1>9, <1>10, <1>11, <1>12, <1>13, <1>14 DEF ExampleInv

\* A move within the first run, which leaves the rows as they are.
LEMMA FirstRunMoves ==
  ASSUME EInv, NEW pc \in {"starting", "retry", "complete"},
         prog.pc \in {"start", "starting"}, GoTo(pc),
         pc = "complete" => prog.step = 1,
         UNCHANGED <<clock, workflows, timers, signals>>,
         \A w \in Workflows : CompletedSteps(w)' = CompletedSteps(w),
         \A t \in Threads : thread'[t].op = "RetryStep" => thread[t].op = "RetryStep"
  PROVE  ExampleInv'
<1>1. prog \in Progs /\ pc \in PCs
  BY ExampleTypes DEF PCs, Given, FirstRun
<1>2. /\ prog' \in Progs /\ prog'.pc = pc /\ prog'.wf = prog.wf
      /\ prog'.step = prog.step /\ prog'.until = prog.until /\ prog'.since = prog.since
  BY <1>1, GoToFields
<1>3. prog.pc \in FirstRun /\ pc \in FirstRun /\ prog.pc \in Given /\ pc \in Given
      /\ pc \notin Between /\ pc \notin Beginning
  BY DEF FirstRun, Given, Between, Beginning
<1>4. ProgTypeOK'
  BY <1>2, <1>3 DEF EInv, ExampleInv, ProgTypeOK
<1>5. RowsKnown'
  <2>1. RowsKnown
    BY DEF EInv, ExampleInv
  <2>2. \A w \in Workflows : CompletedSteps(w)' = 1..workflows'[w].cursor
    BY <2>1 DEF RowsKnown
  <2>3. prog.wf \in Workflows /\ GivenRow(workflows[prog.wf])
        /\ \A w \in Workflows \ {prog.wf} : OtherRow(workflows[w])
    BY <1>3, <2>1, ExampleTypes DEF RowsKnown
  <2>4. GivenRow(workflows[prog.wf])'
    <3>1. prog.step \in {1, 2} /\ prog.step = workflows[prog.wf].cursor + 1
          /\ LeaseKnown(workflows[prog.wf])
      BY <1>3, <2>3 DEF GivenRow
    <3>2. LeaseKnown(workflows[prog.wf])'
      BY <1>2, <3>1 DEF LeaseKnown
    <3> QED
      BY <1>2, <1>3, <3>1, <3>2 DEF GivenRow
  <2>5. \A w \in Workflows \ {prog.wf} : OtherRow(workflows[w])'
    BY <1>2, <1>3, <2>3 DEF OtherRow
  <2> QED
    BY <1>2, <1>3, <2>1, <2>2, <2>4, <2>5 DEF RowsKnown, At
<1>6. RetryTimerSet'
  BY <1>2, <1>3 DEF RetryTimerSet
<1>7. OneSignal'
  BY <1>2, <1>3 DEF EInv, ExampleInv, OneSignal
<1>8. OwnRetry'
  BY <1>2, <1>3 DEF EInv, ExampleInv, OwnRetry, At, FirstRun
<1>9. FailsOnlyExpired'
  BY <1>2 DEF FailsOnlyExpired
<1> QED
  BY <1>4, <1>5, <1>6, <1>7, <1>8, <1>9 DEF ExampleInv

LEMMA TryStepKeeps ==
  ASSUME EInv, IInv', TryStep
  PROVE  ExampleInv'
<1>1. prog.pc \in {"start", "starting"} /\ prog.step \in {1, 2}
  <2>1. prog.pc \in {"start", "starting"}
    BY DEF TryStep, At
  <2> QED
    BY <2>1 DEF EInv, ExampleInv, RowsKnown, GivenRow, Given, FirstRun
<1> DEFINE after == IF prog.step = 2 THEN "retry" ELSE "complete"
<1>2. after \in {"starting", "retry", "complete"} /\ (after = "complete" => prog.step = 1)
  BY <1>1
<1>3. CASE \E t \in Threads :
             VerifyLease(t, "StartStep", prog.wf, Me, prog.step) /\ GoTo("starting")
  <2>1. PICK t \in Threads :
          VerifyLease(t, "StartStep", prog.wf, Me, prog.step) /\ GoTo("starting")
    BY <1>3
  <2>2. UNCHANGED <<clock, workflows, steps, timers, signals>>
    BY <2>1 DEF VerifyLease, notSteps
  <2>3. \A u \in Threads : thread'[u].op = "RetryStep" => thread[u].op = "RetryStep"
    BY <2>1 DEF VerifyLease, EInv, IInv, TypeOK
  <2>4. \A w \in Workflows : CompletedSteps(w)' = CompletedSteps(w)
    BY <2>2 DEF CompletedSteps
  <2> QED
    BY <1>1, <2>1, <2>2, <2>3, <2>4, FirstRunMoves
<1>4. CASE AfterStart /\ UNCHANGED vars
  <2>1. GoTo(after)
    BY <1>4 DEF AfterStart
  <2>2. \A w \in Workflows : CompletedSteps(w)' = CompletedSteps(w)
    BY <1>4 DEF CompletedSteps, vars
  <2>3. UNCHANGED <<clock, workflows, timers, signals, thread>>
    BY <1>4 DEF vars
  <2> HIDE DEF after
  <2> QED
    BY <1>1, <1>2, <2>1, <2>2, <2>3, FirstRunMoves
<1>5. CASE \E t \in Threads : StartStep(t) /\ AfterStart
  <2>1. PICK t \in Threads : StartStep(t) /\ AfterStart
    BY <1>5
  <2>2. UNCHANGED <<clock, workflows, timers, signals>> /\ GoTo(after)
    BY <2>1 DEF StartStep, notSteps, AfterStart
  <2>3. \A u \in Threads : thread'[u].op = "RetryStep" => thread[u].op = "RetryStep"
    BY <2>1 DEF StartStep, Idle, EInv, IInv, TypeOK
  <2>4. \A w \in Workflows : CompletedSteps(w)' = CompletedSteps(w)
    <3> DEFINE v == thread[t].wf  s == thread[t].step
    <3>1. v \in Workflows /\ s \in StepNumbers
      BY <2>1, StepRequest DEF StartStep, EInv, IInv
    <3>2. steps \in [Workflows -> [StepNumbers -> StepStatuses]]
          /\ steps' = [steps EXCEPT ![v][s] = IF @ = "ABSENT" THEN "RUNNING" ELSE @]
      BY <2>1 DEF StartStep, EInv, IInv, TypeOK
    <3> HIDE DEF v, s
    <3>3. \A w \in Workflows, r \in StepNumbers :
            steps'[w][r] = "COMPLETED" <=> steps[w][r] = "COMPLETED"
      BY <3>1, <3>2
    <3> QED
      BY <3>3 DEF CompletedSteps
  <2> HIDE DEF after
  <2> QED
    BY <1>1, <1>2, <2>1, <2>2, <2>3, <2>4, FirstRunMoves
<1> QED
  BY <1>3, <1>4, <1>5 DEF TryStep

\* A fatal error of the program, after its lease has run out.
LEMMA FailsExpired ==
  ASSUME EInv, GoTo("fatal"), clock >= prog.until, UNCHANGED <<clock, workflows, steps>>
  PROVE  ExampleInv'
<1>1. prog \in Progs /\ "fatal" \in PCs
  BY ExampleTypes DEF PCs
<1>2. /\ prog' \in Progs /\ prog'.pc = "fatal"
      /\ prog'.until = prog.until /\ prog'.since = prog.since
  BY <1>1, GoToFields
<1>3. "fatal" \notin Given /\ "fatal" \notin Beginning /\ "fatal" \notin FirstRun
      /\ "fatal" \notin Between
  BY DEF Given, FirstRun, Between, Beginning
<1>4. ProgTypeOK'
  BY <1>2, <1>3 DEF EInv, ExampleInv, ProgTypeOK
<1>5. RowsKnown'
  <2>1. \A w \in Workflows : CompletedSteps(w)' = 1..workflows'[w].cursor
    BY PrefixStays
  <2> QED
    BY <1>2, <1>3, <2>1 DEF RowsKnown, At
<1>6. RetryTimerSet' /\ OneSignal' /\ OwnRetry'
  BY <1>2, <1>3 DEF RetryTimerSet, OneSignal, OwnRetry, At
<1>7. FailsOnlyExpired'
  BY <1>2 DEF FailsOnlyExpired
<1> QED
  BY <1>4, <1>5, <1>6, <1>7 DEF ExampleInv

\* A step that is completed in its order.
LEMMA StepCompleted ==
  ASSUME EInv, NEW w \in Workflows, NEW s \in StepNumbers,
         s = workflows[w].cursor + 1, CompleteStep(w, Me, s)
  PROVE  /\ CompletedSteps(w)' = 1..s
         /\ \A v \in Workflows \ {w} : /\ workflows'[v] = workflows[v]
                                       /\ CompletedSteps(v)' = CompletedSteps(v)
         /\ workflows'[w].cursor = s
         /\ workflows'[w].status = workflows[w].status
         /\ workflows'[w].owner = workflows[w].owner
         /\ workflows'[w].expires = workflows[w].expires
         /\ workflows'[w].created = workflows[w].created
<1>1. workflows[w] \in WorkflowRow /\ workflows[w].cursor \in Nat
  BY ExampleTypes
<1>2. /\ Advanced(workflows[w]).cursor = workflows[w].cursor + 1
      /\ Advanced(workflows[w]).created = workflows[w].created
      /\ Advanced(workflows[w]).status = workflows[w].status
      /\ Advanced(workflows[w]).owner = workflows[w].owner
      /\ Advanced(workflows[w]).expires = workflows[w].expires
  BY <1>1 DEF Advanced, WorkflowRow
<1>3. workflows' = [workflows EXCEPT ![w] = Advanced(workflows[w])]
      /\ steps' = [steps EXCEPT ![w][s] = "COMPLETED"]
  BY DEF CompleteStep
<1>4. workflows \in [Workflows -> WorkflowRow]
      /\ steps \in [Workflows -> [StepNumbers -> StepStatuses]]
  BY DEF EInv, IInv, TypeOK
<1>5. /\ steps'[w][s] = "COMPLETED"
      /\ \A v \in Workflows, r \in StepNumbers :
           v # w \/ r # s => steps'[v][r] = steps[v][r]
  BY <1>3, <1>4
<1>6. CompletedSteps(w)' = CompletedSteps(w) \cup {s}
  BY <1>5 DEF CompletedSteps
<1>7. CompletedSteps(w) = 1..workflows[w].cursor
  BY DEF EInv, ExampleInv, RowsKnown
<1>8. CompletedSteps(w)' = 1..s
  BY <1>1, <1>6, <1>7
<1>9. \A v \in Workflows \ {w} : CompletedSteps(v)' = CompletedSteps(v)
  BY <1>5 DEF CompletedSteps
<1>10. workflows'[w] = Advanced(workflows[w])
       /\ \A v \in Workflows \ {w} : workflows'[v] = workflows[v]
  BY <1>3, <1>4
<1> QED
  BY <1>2, <1>8, <1>9, <1>10

LEMMA CompleteKeeps ==
  ASSUME EInv, IInv', NEW pc \in {"complete", "finish"},
         NEW then \in {"start", "finish"}, pc = "complete" <=> then = "start",
         pc = "finish" => prog.step <= LastStep,
         Complete(pc, then)
  PROVE  ExampleInv'
<1>0. PICK w \in Workflows, s \in Nat : w = prog.wf /\ s = prog.step
  BY ExampleTypes DEF Complete, At, Given, FirstRun
<1>1. prog.pc = pc /\ prog.pc \in Given /\ w \in Workflows
  BY DEF Complete, At, Given, FirstRun
<1>2. /\ s = workflows[w].cursor + 1 /\ LeaseKnown(workflows[w])
      /\ pc = "complete" => s = 1
      /\ \A v \in Workflows \ {w} : OtherRow(workflows[v])
      /\ workflows[First].created < workflows[Second].created => w = First
  BY <1>0, <1>1 DEF EInv, ExampleInv, RowsKnown, GivenRow, FirstRun
<1>3. workflows[w].cursor \in Nat /\ s \in Nat
  BY <1>1, ExampleTypes
<1>4. s \in StepNumbers
  BY <1>0, <1>2, <1>3, ExampleAssumption
<1>5. prog \in Progs /\ pc \in PCs /\ then \in PCs /\ clock \in Nat
  BY ExampleTypes DEF PCs, Given, FirstRun
<1>6. CASE CompleteStep(w, Me, s) /\ GoToStep(then, s + 1)
  <2>1. /\ prog' \in Progs /\ prog'.pc = then /\ prog'.wf = w
        /\ prog'.step = s + 1 /\ prog'.until = prog.until /\ prog'.since = prog.since
    BY <1>0, <1>3, <1>5, <1>6, GoToStepFields
  <2>2. UNCHANGED <<clock, timers, signals, thread>>
    BY <1>6 DEF CompleteStep, notSteps
  <2>3. /\ CompletedSteps(w)' = 1..s
        /\ \A v \in Workflows \ {w} : /\ workflows'[v] = workflows[v]
                                      /\ CompletedSteps(v)' = CompletedSteps(v)
        /\ workflows'[w].cursor = s
        /\ workflows'[w].status = workflows[w].status
        /\ workflows'[w].owner = workflows[w].owner
        /\ workflows'[w].expires = workflows[w].expires
        /\ workflows'[w].created = workflows[w].created
    BY <1>1, <1>2, <1>4, <1>6, StepCompleted
  <2>4. then \in Given /\ then \notin Between /\ then \notin Beginning
        /\ (then \in FirstRun <=> then = "start")
    BY DEF Given, FirstRun, Between, Beginning
  <2>5. ProgTypeOK'
    BY <1>1, <2>1, <2>2 DEF EInv, ExampleInv, ProgTypeOK
  <2>6. RowsKnown'
    <3>1. \A v \in Workflows : CompletedSteps(v)' = 1..workflows'[v].cursor
      BY <2>3 DEF EInv, ExampleInv, RowsKnown
    <3>2. LeaseKnown(workflows[w])'
      BY <1>2, <2>1, <2>2, <2>3 DEF LeaseKnown
    <3>3. GivenRow(workflows[w])'
      BY <1>2, <2>1, <2>3, <2>4, <3>2 DEF GivenRow
    <3>4. \A v \in Workflows \ {w} : OtherRow(workflows[v])'
      BY <1>0, <1>1, <1>2, <2>1, <2>3, <2>4 DEF OtherRow, FirstRun, Between
    <3>5. workflows'[First].created < workflows'[Second].created => w = First
      BY <1>2, <2>3, ExampleAssumption
    <3> QED
      BY <2>1, <2>4, <3>1, <3>3, <3>4, <3>5 DEF RowsKnown, At, Beginning
  <2>7. RetryTimerSet'
    BY <2>1, <2>4 DEF RetryTimerSet
  <2>8. OneSignal'
    BY <1>1, <2>1, <2>2 DEF EInv, ExampleInv, OneSignal, Beginning, FirstRun
  <2>9. OwnRetry'
    BY <1>1, <2>1, <2>2 DEF EInv, ExampleInv, OwnRetry, Beginning, FirstRun, At
  <2>10. FailsOnlyExpired'
    BY <2>1 DEF FailsOnlyExpired
  <2> QED
    BY <2>5, <2>6, <2>7, <2>8, <2>9, <2>10 DEF ExampleInv
<1>7. CASE /\ ~HoldsLease(w, Me) \/ steps[w][s] = "COMPLETED"
           /\ GoTo("fatal") /\ UNCHANGED vars
  <2>1. steps[w][s] # "COMPLETED"
    <3>1. s \notin CompletedSteps(w)
      BY <1>1, <1>2, <1>3 DEF EInv, ExampleInv, RowsKnown
    <3> QED
      BY <1>4, <3>1 DEF CompletedSteps
  <2>2. clock >= prog.until
    BY <1>2, <1>7, <2>1 DEF LeaseKnown, HoldsLease
  <2>3. UNCHANGED <<clock, workflows, steps>>
    BY <1>7 DEF vars
  <2> QED
    BY <1>7, <2>2, <2>3, FailsExpired
<1> QED
  BY <1>0, <1>6, <1>7 DEF Complete

LEMMA RetryKeeps ==
  ASSUME EInv, IInv', Retry
  PROVE  ExampleInv'
<1>0. PICK w \in Workflows : w = prog.wf
  BY ExampleTypes DEF Retry, At, Given, FirstRun
<1>1. prog.pc \in {"retry", "waiting"} /\ prog.pc \in FirstRun /\ prog.pc \in Given
  BY DEF Retry, At, Given, FirstRun
<1>2. /\ prog.step \in {1, 2} /\ prog.step = workflows[w].cursor + 1
      /\ LeaseKnown(workflows[w])
      /\ \A v \in Workflows \ {w} : OtherRow(workflows[v])
      /\ workflows[First].created < workflows[Second].created => w = First
      /\ signals = <<>>
  BY <1>0, <1>1 DEF EInv, ExampleInv, RowsKnown, GivenRow, OneSignal
<1>3. prog \in Progs /\ "waiting" \in PCs /\ "signal" \in PCs /\ clock \in Nat
  BY ExampleTypes DEF PCs, Given, FirstRun, Between
<1>4. NextDelay[1] \in Int
  BY ExampleAssumption, RetryAssumption
<1>5. CASE At("retry") /\ \E t \in Threads : RetryStep(t, w, Me, 1) /\ GoTo("waiting")
  <2>1. PICK t \in Threads : RetryStep(t, w, Me, 1) /\ GoTo("waiting")
    BY <1>5
  <2>2. /\ prog' \in Progs /\ prog'.pc = "waiting" /\ prog'.wf = w
        /\ prog'.step = prog.step /\ prog'.until = prog.until /\ prog'.since = prog.since
    BY <1>0, <1>3, <2>1, GoToFields
  <2>3. PICK now \in Nows : AddTimer(w, now + NextDelay[1])
    BY <2>1 DEF RetryStep
  <2>4. UNCHANGED <<clock, workflows, steps, signals>>
    BY <2>1 DEF RetryStep, notTimers
  <2>5. "waiting" \in FirstRun /\ "waiting" \in Given /\ "waiting" \notin Between
        /\ "waiting" \notin Beginning
    BY DEF FirstRun, Given, Between, Beginning
  <2>6. ProgTypeOK'
    BY <2>2, <2>4 DEF EInv, ExampleInv, ProgTypeOK
  <2>7. RowsKnown'
    <3>1. \A v \in Workflows : CompletedSteps(v)' = 1..workflows'[v].cursor
      BY <2>4, PrefixStays
    <3>2. GivenRow(workflows[w])'
      <4>1. LeaseKnown(workflows[w])'
        BY <1>2, <2>2, <2>4 DEF LeaseKnown
      <4> QED
        BY <1>2, <2>2, <2>4, <2>5, <4>1 DEF GivenRow
    <3>3. \A v \in Workflows \ {w} : OtherRow(workflows[v])'
      BY <1>1, <1>2, <2>2, <2>4, <2>5 DEF OtherRow
    <3> QED
      BY <1>2, <2>2, <2>4, <2>5, <3>1, <3>2, <3>3 DEF RowsKnown, At
  <2>8. RetryTimerSet'
    <3> DEFINE timer == [wf |-> w, wake |-> now + NextDelay[1], fired |-> FALSE]
               i == Len(timers) + 1
    <3>1. timers' = Append(timers, timer) /\ timers \in Seq(TimerRow)
      BY <2>3 DEF AddTimer, EInv, IInv, TypeOK
    <3>2. timer \in TimerRow
      BY <1>4 DEF Nows, TimerRow
    <3>3. timer.wf = w /\ ~timer.fired /\ timer.wake = now + NextDelay[1]
      OBVIOUS
    <3> HIDE DEF timer
    <3>4. i \in DOMAIN timers' /\ timers'[i] = timer
      BY <3>1, <3>2, AppendProperties
    <3>5. timer.wake <= clock + NextDelay[1]
      BY <1>3, <1>4, <3>3 DEF Nows
    <3> HIDE DEF i
    <3> QED
      BY <2>2, <2>4, <3>3, <3>4, <3>5 DEF RetryTimerSet, At
  <2>9. OneSignal'
    BY <1>2, <2>2, <2>4, <2>5 DEF OneSignal
  <2>10. OwnRetry'
    <3>1. thread' = [thread EXCEPT ![t] = [op |-> "RetryStep", wf |-> w, worker |-> Me]]
          /\ thread \in [Threads -> Requests]
      BY <2>1 DEF RetryStep, EInv, IInv, TypeOK
    <3>2. \A u \in Threads : thread[u].op # "RetryStep"
      BY <1>1, <1>5 DEF EInv, ExampleInv, OwnRetry, At, FirstRun
    <3>3. \A u \in Threads : thread'[u].op = "RetryStep" =>
            thread'[u].wf = w /\ thread'[u].worker = Me
      BY <3>1, <3>2
    <3> QED
      BY <2>2, <2>5, <3>3 DEF OwnRetry
  <2>11. FailsOnlyExpired'
    BY <2>2 DEF FailsOnlyExpired
  <2> QED
    BY <2>6, <2>7, <2>8, <2>9, <2>10, <2>11 DEF ExampleInv
<1>6. ASSUME NEW t \in Threads, At("waiting"), RetryStepWait(t), RunningFor(w, Me),
             GoTo("signal")
      PROVE  ExampleInv'
  <2>1. thread[t].wf = w /\ thread[t].worker = Me
    BY <1>0, <1>6 DEF EInv, ExampleInv, OwnRetry, RetryStepWait
  <2>2. workflows' = [workflows EXCEPT ![w].status = "WAITING"]
    BY <1>6, <2>1 DEF RetryStepWait, SetWaiting
  <2>3. /\ workflows'[w].status = "WAITING" /\ workflows'[w].cursor = workflows[w].cursor
        /\ workflows'[w].created = workflows[w].created
        /\ \A v \in Workflows \ {w} : workflows'[v] = workflows[v]
    <3>1. workflows \in [Workflows -> WorkflowRow] /\ workflows[w] \in WorkflowRow
      BY DEF EInv, IInv, TypeOK
    <3> QED
      BY <2>2, <3>1 DEF WorkflowRow
  <2>4. /\ prog' \in Progs /\ prog'.pc = "signal" /\ prog'.wf = w
        /\ prog'.since = prog.since
    BY <1>0, <1>3, <1>6, GoToFields
  <2>5. UNCHANGED <<clock, steps, timers, signals>>
    BY <1>6 DEF RetryStepWait, notTimers
  <2>6. "signal" \in Between /\ "signal" \in Given /\ "signal" \notin FirstRun
        /\ "signal" \notin Beginning
    BY DEF FirstRun, Given, Between, Beginning
  <2>7. ProgTypeOK'
    BY <2>4, <2>5 DEF EInv, ExampleInv, ProgTypeOK
  <2>8. RowsKnown'
    <3>1. \A v \in Workflows : workflows'[v].cursor = workflows[v].cursor
                               /\ workflows'[v].created = workflows[v].created
      BY <2>3
    <3>2. \A v \in Workflows : CompletedSteps(v)' = 1..workflows'[v].cursor
      BY <2>5, <3>1, PrefixStays
    <3>3. GivenRow(workflows[w])'
      BY <2>3, <2>4, <2>6 DEF GivenRow
    <3>4. \A v \in Workflows \ {w} : OtherRow(workflows[v])'
      BY <1>1, <1>2, <2>3, <2>4, <2>6 DEF OtherRow
    <3> QED
      BY <1>2, <2>4, <2>6, <3>1, <3>2, <3>3, <3>4, ExampleAssumption DEF RowsKnown, At
  <2>9. RetryTimerSet'
    <3>1. PICK i \in DOMAIN timers :
            /\ timers[i].wf = w /\ ~timers[i].fired
            /\ timers[i].wake <= clock + NextDelay[1]
      BY <1>0, <1>6 DEF EInv, ExampleInv, RetryTimerSet, At, RunningFor
    <3> QED
      BY <2>4, <2>5, <3>1 DEF RetryTimerSet, At
  <2>10. OneSignal'
    BY <1>2, <2>4, <2>5 DEF OneSignal
  <2>11. OwnRetry'
    BY <2>4, <2>6 DEF OwnRetry, At
  <2>12. FailsOnlyExpired'
    BY <2>4 DEF FailsOnlyExpired
  <2> QED
    BY <2>7, <2>8, <2>9, <2>10, <2>11, <2>12 DEF ExampleInv
<1>7. ASSUME NEW t \in Threads, At("waiting"), RetryStepWait(t), ~RunningFor(w, Me),
             GoTo("fatal")
      PROVE  ExampleInv'
  <2>1. thread[t].wf = w /\ thread[t].worker = Me
    BY <1>0, <1>7 DEF EInv, ExampleInv, OwnRetry, RetryStepWait
  <2>2. UNCHANGED <<clock, workflows, steps>>
    BY <1>7, <2>1 DEF RetryStepWait, SetWaiting, notTimers
  <2>3. clock >= prog.until
    BY <1>2, <1>7 DEF LeaseKnown, RunningFor
  <2> QED
    BY <1>7, <2>2, <2>3, FailsExpired
<1>8. CASE At("waiting") /\ \E t \in Threads :
             /\ RetryStepWait(t)
             /\ GoTo(IF RunningFor(w, Me) THEN "signal" ELSE "fatal")
  BY <1>6, <1>7, <1>8
<1> QED
  BY <1>0, <1>5, <1>8 DEF Retry

\* A move between the two runs, which leaves the rows as they are.
LEMMA BetweenMoves ==
  ASSUME EInv, prog.pc \in {"signal", "timer", "sleep"},
         prog'.pc \in {"timer", "sleep", "acquire2"},
         prog' \in Progs, prog'.wf = prog.wf, prog'.since <= clock,
         UNCHANGED <<clock, workflows, steps>>, RetryTimerSet', OneSignal'
  PROVE  ExampleInv'
<1>1. /\ prog.pc \in Between /\ prog'.pc \in Between
      /\ prog.pc \in Given /\ prog'.pc \in Given
      /\ prog'.pc \notin FirstRun /\ prog'.pc \notin Beginning
  BY DEF FirstRun, Given, Between, Beginning
<1>2. ProgTypeOK'
  BY <1>1 DEF EInv, ExampleInv, ProgTypeOK
<1>3. RowsKnown'
  <2>1. \A v \in Workflows : CompletedSteps(v)' = 1..workflows'[v].cursor
    BY PrefixStays
  <2>2. GivenRow(workflows[prog.wf])'
    BY <1>1 DEF EInv, ExampleInv, RowsKnown, GivenRow
  <2>3. \A v \in Workflows \ {prog.wf} : OtherRow(workflows[v])'
    BY <1>1 DEF EInv, ExampleInv, RowsKnown, OtherRow
  <2>4. workflows[First].created < workflows[Second].created => prog.wf = First
    BY <1>1 DEF EInv, ExampleInv, RowsKnown
  <2> QED
    BY <1>1, <2>1, <2>2, <2>3, <2>4 DEF RowsKnown, At, Beginning
<1>4. OwnRetry'
  BY <1>1 DEF OwnRetry, At
<1>5. FailsOnlyExpired'
  BY DEF FailsOnlyExpired
<1> QED
  BY <1>2, <1>3, <1>4, <1>5 DEF ExampleInv

LEMMA SignalAndTimerKeeps ==
  ASSUME EInv, IInv', SignalAndTimer
  PROVE  ExampleInv'
<1>1. prog \in Progs /\ clock \in Nat /\ "timer" \in PCs /\ "sleep" \in PCs
      /\ prog.wf = prog.wf /\ prog.since <= clock
  BY ExampleTypes DEF PCs, Given, Between, EInv, ExampleInv, ProgTypeOK
<1>2. NextDelay[1] \in Int /\ timers \in Seq(TimerRow)
  BY ExampleAssumption, RetryAssumption DEF EInv, IInv, TypeOK
<1>3. CASE At("signal") /\ SendSignal(Second) /\ GoTo("timer")
  <2>1. /\ prog.pc = "signal" /\ prog'.pc = "timer" /\ prog' \in Progs
        /\ prog'.wf = prog.wf /\ prog'.since = prog.since
    BY <1>1, <1>3, GoToFields DEF At
  <2>2. UNCHANGED <<clock, workflows, steps, timers>>
    BY <1>3 DEF SendSignal, notSignals
  <2>3. RetryTimerSet'
    BY <2>1, <2>2 DEF EInv, ExampleInv, RetryTimerSet, At, Between
  <2>4. OneSignal'
    <3>1. PICK now : signals' = Append(signals, [wf |-> Second, created |-> now,
                                                 consumed |-> FALSE])
      BY <1>3 DEF SendSignal
    <3>2. signals = <<>>
      BY <2>1 DEF EInv, ExampleInv, OneSignal
    <3>3. Len(signals') = 1 /\ signals'[1].wf = Second /\ ~signals'[1].consumed
      BY <3>1, <3>2
    <3> QED
      BY <2>1, <3>3 DEF OneSignal, Beginning, FirstRun
  <2> QED
    BY <1>1, <2>1, <2>2, <2>3, <2>4, BetweenMoves
<1>4. ASSUME At("timer"), GoToSince("sleep"), NEW now \in Nows, CreateTimer(Second, now + 2)
      PROVE  ExampleInv'
  <2>1. /\ prog.pc = "timer" /\ prog'.pc = "sleep" /\ prog' \in Progs
        /\ prog'.wf = prog.wf /\ prog'.since = clock
    BY <1>1, <1>4, GoToSinceFields DEF At
  <2>2. UNCHANGED <<clock, workflows, steps, signals>>
    BY <1>4 DEF CreateTimer, notTimers
  <2>3. RetryTimerSet'
    <3>1. SUFFICES ASSUME workflows[prog.wf].status \in {"RUNNING", "WAITING"}
                   PROVE  \E i \in DOMAIN timers' :
                            /\ timers'[i].wf = prog.wf /\ ~timers'[i].fired
                            /\ timers'[i].wake <= clock + NextDelay[1]
      BY <2>1, <2>2 DEF RetryTimerSet, At
    <3>2. PICK i \in DOMAIN timers :
            /\ timers[i].wf = prog.wf /\ ~timers[i].fired
            /\ timers[i].wake <= clock + NextDelay[1]
      BY <2>1, <3>1 DEF EInv, ExampleInv, RetryTimerSet, At, Between
    <3> DEFINE timer == [wf |-> Second, wake |-> now + 2, fired |-> FALSE]
    <3>3. timers' = Append(timers, timer)
      BY <1>4 DEF CreateTimer, AddTimer
    <3>4. timer \in TimerRow
      BY ExampleAssumption DEF Nows, TimerRow
    <3> HIDE DEF timer
    <3>5. i \in DOMAIN timers' /\ timers'[i] = timers[i]
      BY <1>2, <3>2, <3>3, <3>4, AppendProperties
    <3> QED
      BY <3>2, <3>5
  <2>4. OneSignal'
    BY <2>1, <2>2 DEF EInv, ExampleInv, OneSignal, Beginning, FirstRun
  <2> QED
    BY <1>1, <2>1, <2>2, <2>3, <2>4, BetweenMoves
<1> QED
  BY <1>3, <1>4 DEF SignalAndTimer

LEMMA SleepKeeps ==
  ASSUME EInv, IInv', Sleep
  PROVE  ExampleInv'
<1>1. prog \in Progs /\ clock \in Nat /\ prog.since \in Nat /\ "acquire2" \in PCs
  BY ExampleTypes DEF PCs, Given, Between
<1>2. NextDelay[1] \in Int /\ NextDelay[1] <= 3 /\ timers \in Seq(TimerRow)
  BY ExampleAssumption, RetryAssumption DEF EInv, IInv, TypeOK
<1>3. /\ prog.pc = "sleep" /\ prog'.pc = "acquire2" /\ prog' \in Progs
      /\ prog'.wf = prog.wf /\ prog'.since = clock /\ clock >= prog.since + 3
  BY <1>1, GoToSinceFields DEF Sleep, At
<1>4. UNCHANGED <<clock, workflows, steps, timers, signals>>
  BY DEF Sleep, vars
<1>5. RetryTimerSet'
  <2>1. SUFFICES ASSUME workflows[prog.wf].status \in {"RUNNING", "WAITING"}
                 PROVE  \E i \in DOMAIN timers :
                          /\ timers[i].wf = prog.wf /\ ~timers[i].fired
                          /\ timers[i].wake <= clock
    BY <1>3, <1>4 DEF RetryTimerSet, At
  <2>2. PICK i \in DOMAIN timers :
          /\ timers[i].wf = prog.wf /\ ~timers[i].fired
          /\ timers[i].wake <= prog.since + NextDelay[1]
    BY <1>3, <2>1 DEF EInv, ExampleInv, RetryTimerSet, At, Between
  <2>3. timers[i].wake \in Int
    <3>1. timers[i] \in TimerRow
      BY <1>2, LenProperties, ElementOfSeq
    <3> QED
      BY <3>1 DEF TimerRow
  <2> QED
    BY <1>1, <1>2, <1>3, <2>2, <2>3
<1>6. OneSignal'
  BY <1>3, <1>4 DEF EInv, ExampleInv, OneSignal, Beginning, FirstRun
<1> QED
  BY <1>1, <1>3, <1>4, <1>5, <1>6, BetweenMoves

LEMMA FinishKeeps ==
  ASSUME EInv, IInv', Finish
  PROVE  ExampleInv'
<1>1. CASE prog.step <= LastStep /\ Complete("finish", "finish")
  BY <1>1, CompleteKeeps
<1>2. ASSUME At("finish"), prog.step > LastStep
      PROVE  /\ prog.pc = "finish" /\ prog.pc \in Given
             /\ prog.wf \in Workflows /\ workflows[prog.wf].cursor = LastStep
             /\ LeaseKnown(workflows[prog.wf])
             /\ \A v \in Workflows \ {prog.wf} : workflows[v].status \in {"QUEUED", "WAITING"}
             /\ workflows[First].created < workflows[Second].created => prog.wf = First
  <2>1. prog.pc = "finish" /\ prog.pc \in Given /\ prog.wf \in Workflows
    BY <1>2, ExampleTypes DEF At, Given
  <2>2. PICK w \in Workflows : w = prog.wf
    BY <2>1
  <2>3. /\ prog.step = workflows[w].cursor + 1 /\ CompletedSteps(w) = 1..workflows[w].cursor
        /\ LeaseKnown(workflows[w])
        /\ \A v \in Workflows \ {w} : workflows[v].status \in {"QUEUED", "WAITING"}
        /\ workflows[First].created < workflows[Second].created => w = First
    BY <2>1, <2>2 DEF EInv, ExampleInv, RowsKnown, GivenRow, OtherRow
  <2>4. workflows[w].cursor \in Nat /\ CompletedSteps(w) \subseteq 1..LastStep
    BY ExampleTypes
  <2>5. LastStep \in Nat
    BY ExampleAssumption
  <2>6. workflows[w].cursor >= LastStep
    BY <1>2, <2>3, <2>4, <2>5
  <2>7. workflows[w].cursor <= LastStep
    <3>1. CASE workflows[w].cursor = 0
      BY <2>5, <3>1
    <3>2. CASE workflows[w].cursor # 0
      <4>1. workflows[w].cursor \in CompletedSteps(w)
        BY <2>3, <2>4, <3>2
      <4> QED
        BY <2>4, <4>1
    <3> QED
      BY <3>1, <3>2
  <2> QED
    BY <2>1, <2>2, <2>3, <2>4, <2>5, <2>6, <2>7
<1>3. CASE /\ At("finish") /\ prog.step > LastStep
           /\ CompleteWorkflow(prog.wf, Me) /\ GoTo("done")
  <2>1. PICK w \in Workflows : w = prog.wf
    BY <1>2, <1>3
  <2>2. /\ prog.pc = "finish" /\ prog.pc \in Given /\ workflows[w].cursor = LastStep
        /\ \A v \in Workflows \ {w} : workflows[v].status \in {"QUEUED", "WAITING"}
        /\ workflows[First].created < workflows[Second].created => w = First
    BY <1>2, <1>3, <2>1
  <2>3. prog \in Progs /\ "done" \in PCs
    BY ExampleTypes DEF PCs, Given
  <2>4. prog' \in Progs /\ prog'.pc = "done" /\ prog'.wf = w /\ prog'.since = prog.since
    BY <1>3, <2>1, <2>3, GoToFields
  <2>5. UNCHANGED <<clock, steps, signals>>
    BY <1>3 DEF CompleteWorkflow, notLeases
  <2>6. /\ workflows'[w].status = "COMPLETED"
        /\ workflows'[w].cursor = workflows[w].cursor
        /\ workflows'[w].created = workflows[w].created
        /\ \A v \in Workflows \ {w} : workflows'[v] = workflows[v]
    <3>1. workflows' = [workflows EXCEPT ![w] = Closed(workflows[w], "COMPLETED")]
      BY <1>3, <2>1 DEF CompleteWorkflow
    <3>2. workflows \in [Workflows -> WorkflowRow] /\ workflows[w] \in WorkflowRow
      BY DEF EInv, IInv, TypeOK
    <3>3. /\ Closed(workflows[w], "COMPLETED").status = "COMPLETED"
          /\ Closed(workflows[w], "COMPLETED").cursor = workflows[w].cursor
          /\ Closed(workflows[w], "COMPLETED").created = workflows[w].created
      BY <3>2 DEF Closed, WorkflowRow
    <3> QED
      BY <3>1, <3>2, <3>3
  <2>7. "done" \in Given /\ "done" \notin FirstRun /\ "done" \notin Between
        /\ "done" \notin Beginning
    BY DEF FirstRun, Given, Between, Beginning
  <2>8. ProgTypeOK'
    BY <2>4, <2>5 DEF EInv, ExampleInv, ProgTypeOK
  <2>9. RowsKnown'
    <3>1. \A v \in Workflows : workflows'[v].cursor = workflows[v].cursor
                               /\ workflows'[v].created = workflows[v].created
      BY <2>6
    <3>2. \A v \in Workflows : CompletedSteps(v)' = 1..workflows'[v].cursor
      BY <2>5, <3>1, PrefixStays
    <3>3. GivenRow(workflows[w])'
      BY <2>2, <2>4, <2>6, <2>7 DEF GivenRow
    <3>4. \A v \in Workflows \ {w} : OtherRow(workflows[v])'
      BY <2>2, <2>4, <2>6, <2>7 DEF OtherRow
    <3> QED
      BY <2>2, <2>4, <2>7, <3>1, <3>2, <3>3, <3>4, ExampleAssumption DEF RowsKnown, At
  <2>10. RetryTimerSet'
    BY <2>4, <2>7 DEF RetryTimerSet
  <2>11. OneSignal'
    BY <2>2, <2>4, <2>5, <2>7 DEF EInv, ExampleInv, OneSignal
  <2>12. OwnRetry'
    BY <2>4, <2>7 DEF OwnRetry, At
  <2>13. FailsOnlyExpired'
    BY <2>4 DEF FailsOnlyExpired
  <2> QED
    BY <2>8, <2>9, <2>10, <2>11, <2>12, <2>13 DEF ExampleInv
<1>4. CASE /\ At("finish") /\ prog.step > LastStep
           /\ ~RunningFor(prog.wf, Me) /\ GoTo("fatal") /\ UNCHANGED vars
  <2>1. clock >= prog.until
    BY <1>2, <1>4 DEF LeaseKnown, RunningFor
  <2>2. UNCHANGED <<clock, workflows, steps>>
    BY <1>4 DEF vars
  <2> QED
    BY <1>4, <2>1, <2>2, FailsExpired
<1> QED
  BY <1>1, <1>3, <1>4 DEF Finish

-----------------------------------------------------------------------------
(* So do the steps of the scheduler and of the clock *)

\* The scheduler puts a row back that waits or whose lease has run out.
RowPutBack(w) ==
  \/ workflows'[w] = workflows[w]
  \/ /\ workflows'[w] = Requeued(workflows[w])
     /\ \/ workflows[w].status = "WAITING"
        \/ workflows[w].status = "RUNNING" /\ workflows[w].expires <= clock

LEMMA PutBackKeeps ==
  ASSUME EInv, prog.pc \notin Ended, UNCHANGED <<prog, clock, steps, signals, thread>>,
         \A w \in Workflows : RowPutBack(w), RetryTimerSet'
  PROVE  ExampleInv'
<1>1. prog \in Progs /\ clock \in Nat /\ prog.pc \in PCs /\ prog.pc # "done"
      /\ (prog.pc \in Given => prog.wf \in Workflows)
  BY ExampleTypes DEF Ended
<1>2. ASSUME NEW w \in Workflows
      PROVE  /\ workflows'[w].cursor = workflows[w].cursor
             /\ workflows'[w].created = workflows[w].created
             /\ \/ workflows'[w] = workflows[w]
                \/ /\ workflows'[w].status = "QUEUED" /\ workflows'[w].owner = None
                   /\ \/ workflows[w].status = "WAITING"
                      \/ workflows[w].status = "RUNNING" /\ workflows[w].expires <= clock
  <2>1. workflows[w] \in WorkflowRow /\ RowPutBack(w)
    BY ExampleTypes
  <2> QED
    BY <2>1 DEF RowPutBack, Requeued, WorkflowRow
<1>3. ProgTypeOK'
  BY DEF EInv, ExampleInv, ProgTypeOK
<1>4. RowsKnown'
  <2>1. \A v \in Workflows : CompletedSteps(v)' = 1..workflows'[v].cursor
    BY <1>2, PrefixStays
  <2>2. prog.pc \in Beginning => \A w \in Workflows : workflows'[w].cursor = 0
    BY <1>2 DEF EInv, ExampleInv, RowsKnown
  <2>3. prog.pc = "create2" => workflows'[First].status = "QUEUED"
    BY <1>2, ExampleAssumption DEF EInv, ExampleInv, RowsKnown, At
  <2>4. prog.pc = "acquire1" => \A w \in Workflows : workflows'[w].status = "QUEUED"
    BY <1>2 DEF EInv, ExampleInv, RowsKnown, At
  <2>5. ASSUME prog.pc \in Given
        PROVE  /\ GivenRow(workflows[prog.wf])'
               /\ \A w \in Workflows \ {prog.wf} : OtherRow(workflows[w])'
               /\ workflows'[First].created < workflows'[Second].created => prog.wf = First
    <3>1. PICK w \in Workflows : w = prog.wf
      BY <1>1, <2>5
    <3>2. /\ GivenRow(workflows[w])
          /\ \A v \in Workflows \ {w} : OtherRow(workflows[v])
          /\ workflows[First].created < workflows[Second].created => w = First
      BY <2>5, <3>1 DEF EInv, ExampleInv, RowsKnown
    <3>3. LeaseKnown(workflows[w]) => LeaseKnown(workflows[w])'
      BY <1>2 DEF LeaseKnown
    <3>4. GivenRow(workflows[w])'
      BY <1>1, <1>2, <3>2, <3>3 DEF GivenRow
    <3>5. \A v \in Workflows \ {w} : OtherRow(workflows[v])'
      BY <1>1, <1>2, <3>2 DEF OtherRow
    <3> QED
      BY <1>2, <3>1, <3>2, <3>4, <3>5, ExampleAssumption
  <2> QED
    BY <2>1, <2>2, <2>3, <2>4, <2>5 DEF RowsKnown, At
<1>5. OneSignal' /\ OwnRetry'
  BY DEF EInv, ExampleInv, OneSignal, OwnRetry, At
<1>6. FailsOnlyExpired'
  BY DEF Ended, FailsOnlyExpired
<1> QED
  BY <1>3, <1>4, <1>5, <1>6 DEF ExampleInv

LEMMA SchedulerKeeps ==
  ASSUME EInv, IInv', Scheduler
  PROVE  ExampleInv'
<1>1. prog.pc \notin Ended /\ UNCHANGED prog /\ RetryTimerSet
  BY DEF Scheduler, EInv, ExampleInv
<1>2. CASE TickStart
  <2>1. UNCHANGED <<clock, workflows, steps, timers, signals, thread>>
    BY <1>2 DEF TickStart, notTimers
  <2>2. RetryTimerSet' /\ \A w \in Workflows : RowPutBack(w)
    BY <1>1, <2>1 DEF RetryTimerSet, At, RowPutBack
  <2> QED
    BY <1>1, <2>1, <2>2, PutBackKeeps
<1>3. CASE FireExpiredTimers
  <2> DEFINE due(w) == TimersToFire(w, sched.now)
  <2>1. UNCHANGED <<clock, steps, signals, thread>>
    BY <1>3 DEF FireExpiredTimers, notTimers
  <2>2. /\ timers' = [i \in DOMAIN timers |->
              [timers[i] EXCEPT !.fired = @ \/ i \in due(timers[i].wf)]]
        /\ workflows' = [w \in Workflows |->
              IF due(w) # {} THEN Requeued(workflows[w]) ELSE workflows[w]]
    BY <1>3 DEF FireExpiredTimers
  <2>3. \A w \in Workflows : due(w) # {} => workflows[w].status = "WAITING"
    BY DEF TimersToFire
  <2> HIDE DEF due
  <2>4. \A w \in Workflows : RowPutBack(w)
    BY <2>2, <2>3 DEF RowPutBack
  <2>5. RetryTimerSet'
    <3>1. SUFFICES ASSUME prog.pc \in {"waiting"} \cup Between,
                          workflows'[prog.wf].status \in {"RUNNING", "WAITING"}
                   PROVE  \E i \in DOMAIN timers' :
                            /\ timers'[i].wf = prog.wf /\ ~timers'[i].fired
                            /\ timers'[i].wake <=
                                 CASE At("acquire2") -> prog.since
                                   [] At("sleep") -> prog.since + NextDelay[1]
                                   [] OTHER -> clock + NextDelay[1]
      BY <1>1, <2>1 DEF RetryTimerSet, At
    <3>2. PICK w \in Workflows : w = prog.wf
      BY <3>1, ExampleTypes DEF Given, FirstRun
    <3>3. workflows[w] \in WorkflowRow
      BY ExampleTypes
    <3>4. due(w) = {} /\ workflows'[w] = workflows[w]
      <4>1. Requeued(workflows[w]).status = "QUEUED"
        BY <3>3 DEF Requeued, WorkflowRow
      <4> QED
        BY <2>2, <3>1, <3>2, <4>1
    <3>5. PICK i \in DOMAIN timers :
            /\ timers[i].wf = w /\ ~timers[i].fired
            /\ timers[i].wake <= CASE At("acquire2") -> prog.since
                                   [] At("sleep") -> prog.since + NextDelay[1]
                                   [] OTHER -> clock + NextDelay[1]
      BY <1>1, <3>1, <3>2, <3>4 DEF RetryTimerSet
    <3>6. timers[i] \in TimerRow
      <4>1. timers \in Seq(TimerRow)
        BY DEF EInv, IInv, TypeOK
      <4> QED
        BY <4>1, LenProperties, ElementOfSeq
    <3>7. timers'[i] = [timers[i] EXCEPT !.fired = @ \/ i \in due(w)]
      BY <2>2, <3>5
    <3>8. /\ i \in DOMAIN timers' /\ timers'[i].wf = w /\ ~timers'[i].fired
          /\ timers'[i].wake = timers[i].wake
      BY <2>2, <3>4, <3>5, <3>6, <3>7 DEF TimerRow
    <3> QED
      BY <3>2, <3>5, <3>8
  <2> QED
    BY <1>1, <2>1, <2>4, <2>5, PutBackKeeps
<1>4. CASE ExpireLeases
  <2>1. UNCHANGED <<clock, steps, timers, signals, thread>>
    BY <1>4 DEF ExpireLeases, notTimers
  <2>2. workflows' = [w \in Workflows |->
          IF workflows[w].status = "RUNNING" /\ Expired(w, sched.now)
          THEN Requeued(workflows[w]) ELSE workflows[w]]
    BY <1>4 DEF ExpireLeases
  <2>3. ASSUME NEW w \in Workflows, Expired(w, sched.now)
        PROVE  workflows[w].expires <= clock
    <3>1. workflows[w].expires \in Int
      BY <2>3, ExampleTypes DEF Expired, WorkflowRow
    <3>2. sched.now \in Nat /\ sched.now <= clock /\ clock \in Nat
      BY ExampleTypes DEF EInv, IInv, TypeOK, SchedulerStates, SchedulerBehind
    <3> QED
      BY <2>3, <3>1, <3>2 DEF Expired
  <2>4. \A w \in Workflows : RowPutBack(w)
    BY <2>2, <2>3 DEF RowPutBack
  <2>5. RetryTimerSet'
    <3>1. ASSUME prog.pc \in {"waiting"} \cup Between
          PROVE  prog.wf \in Workflows
      BY <3>1, ExampleTypes DEF Given, FirstRun
    <3>2. \A w \in Workflows : workflows'[w].status \in {"RUNNING", "WAITING"} =>
                                 workflows'[w] = workflows[w]
      <4>1. \A w \in Workflows : Requeued(workflows[w]).status = "QUEUED"
        BY ExampleTypes DEF Requeued, WorkflowRow
      <4> QED
        BY <2>2, <4>1
    <3> QED
      BY <1>1, <2>1, <3>1, <3>2 DEF RetryTimerSet, At
  <2> QED
    BY <1>1, <2>1, <2>4, <2>5, PutBackKeeps
<1> QED
  BY <1>2, <1>3, <1>4 DEF Scheduler, SchedulerStep

LEMMA TickKeeps ==
  ASSUME EInv, IInv', Tick
  PROVE  ExampleInv'
<1>1. prog \in Progs /\ clock \in Nat /\ clock' = clock + 1 /\ prog' = prog
      /\ prog.until \in Nat /\ prog.since \in Nat
      /\ UNCHANGED <<workflows, steps, timers, signals, thread>>
  BY ExampleTypes DEF Tick, PassSecond, tables
<1>2. ProgTypeOK'
  BY <1>1 DEF EInv, ExampleInv, ProgTypeOK
<1>3. RowsKnown'
  <2>1. \A v \in Workflows : CompletedSteps(v)' = 1..workflows'[v].cursor
    BY <1>1, PrefixStays
  <2>2. ASSUME prog.pc \in Given
        PROVE  /\ GivenRow(workflows[prog.wf])'
               /\ \A w \in Workflows \ {prog.wf} : OtherRow(workflows[w])'
    <3>1. /\ GivenRow(workflows[prog.wf])
          /\ \A w \in Workflows \ {prog.wf} : OtherRow(workflows[w])
      BY <2>2 DEF EInv, ExampleInv, RowsKnown
    <3>2. LeaseKnown(workflows[prog.wf]) => LeaseKnown(workflows[prog.wf])'
      BY <1>1 DEF LeaseKnown
    <3>3. GivenRow(workflows[prog.wf])'
      BY <1>1, <3>1, <3>2 DEF GivenRow
    <3>4. \A w \in Workflows \ {prog.wf} : OtherRow(workflows[w])'
      BY <1>1, <3>1 DEF OtherRow
    <3> QED
      BY <3>3, <3>4
  <2> QED
    BY <1>1, <2>1, <2>2 DEF EInv, ExampleInv, RowsKnown, At
<1>4. RetryTimerSet'
  <2>1. NextDelay[1] \in Int
    BY ExampleAssumption, RetryAssumption
  <2>2. SUFFICES ASSUME prog.pc \in {"waiting"} \cup Between,
                        workflows[prog.wf].status \in {"RUNNING", "WAITING"}
                 PROVE  \E i \in DOMAIN timers :
                          /\ timers[i].wf = prog.wf /\ ~timers[i].fired
                          /\ timers[i].wake <=
                               CASE At("acquire2") -> prog.since
                                 [] At("sleep") -> prog.since + NextDelay[1]
                                 [] OTHER -> clock + 1 + NextDelay[1]
    BY <1>1 DEF RetryTimerSet, At
  <2>3. PICK i \in DOMAIN timers :
          /\ timers[i].wf = prog.wf /\ ~timers[i].fired
          /\ timers[i].wake <= CASE At("acquire2") -> prog.since
                                 [] At("sleep") -> prog.since + NextDelay[1]
                                 [] OTHER -> clock + NextDelay[1]
    BY <2>2 DEF EInv, ExampleInv, RetryTimerSet
  <2>4. timers[i].wake \in Int
    <3>1. timers \in Seq(TimerRow)
      BY DEF EInv, IInv, TypeOK
    <3>2. timers[i] \in TimerRow
      BY <3>1, LenProperties, ElementOfSeq
    <3> QED
      BY <3>2 DEF TimerRow
  <2>5. CASE At("acquire2")
    BY <2>3, <2>5 DEF At
  <2>6. CASE At("sleep")
    BY <2>3, <2>6 DEF At
  <2>7. CASE ~At("acquire2") /\ ~At("sleep")
    BY <1>1, <2>1, <2>3, <2>4, <2>7
  <2> QED
    BY <2>5, <2>6, <2>7
<1>5. OneSignal' /\ OwnRetry'
  BY <1>1 DEF EInv, ExampleInv, OneSignal, OwnRetry, At
<1>6. FailsOnlyExpired'
  BY <1>1 DEF EInv, ExampleInv, FailsOnlyExpired
<1> QED
  BY <1>2, <1>3, <1>4, <1>5, <1>6 DEF ExampleInv

LEMMA ExampleStarts == ExampleInit => EInv
<1> SUFFICES ASSUME ExampleInit PROVE EInv
  OBVIOUS
<1>1. IInv /\ Init
  BY InitInv DEF ExampleInit
<1>2. /\ prog.pc = "create1" /\ prog.wf = None /\ prog.step = 0
      /\ prog.until = 0 /\ prog.since = 0 /\ prog \in Progs
      /\ "create1" \in Beginning /\ "create1" \notin Given /\ "create1" \notin FirstRun
      /\ "create1" \notin Between
  BY DEF ExampleInit, Progs, PCs, Beginning, Given, FirstRun, Between
<1>3. /\ clock = 0 /\ signals = <<>>
      /\ workflows = [w \in Workflows |-> NoWorkflow]
      /\ steps = [w \in Workflows |-> [s \in StepNumbers |-> "ABSENT"]]
      /\ thread = [t \in Threads |-> Idle]
  BY <1>1 DEF Init
<1>4. ProgTypeOK
  BY <1>2, <1>3 DEF ProgTypeOK
<1>5. RowsKnown
  <2>1. \A w \in Workflows : workflows[w].cursor = 0 /\ CompletedSteps(w) = {}
    BY <1>3 DEF NoWorkflow, CompletedSteps
  <2>2. 1..0 = {}
    OBVIOUS
  <2> QED
    BY <1>2, <2>1, <2>2 DEF RowsKnown, At
<1>6. RetryTimerSet /\ OneSignal
  BY <1>2, <1>3 DEF RetryTimerSet, OneSignal
<1>7. OwnRetry
  BY <1>3 DEF OwnRetry, Idle
<1>8. FailsOnlyExpired
  BY <1>2 DEF FailsOnlyExpired
<1> QED
  BY <1>1, <1>4, <1>5, <1>6, <1>7, <1>8 DEF EInv, ExampleInv

LEMMA ExampleKeeps == EInv /\ [ExampleNext]_exampleVars => EInv'
<1> SUFFICES ASSUME EInv, [ExampleNext]_exampleVars PROVE EInv'
  OBVIOUS
<1>1. IInv'
  BY ProgramIsClient, NextInv DEF EInv
<1>2. Complete("complete", "start") => ExampleInv'
  BY <1>1, CompleteKeeps
<1>3. UNCHANGED exampleVars => ExampleInv'
  <2>1. SUFFICES ASSUME UNCHANGED exampleVars PROVE ExampleInv'
    OBVIOUS
  <2>2. UNCHANGED <<prog, clock, workflows, steps, timers, signals, thread>>
    BY <2>1 DEF exampleVars, vars
  <2>3. ProgTypeOK' /\ OneSignal' /\ OwnRetry' /\ FailsOnlyExpired'
    BY <2>2 DEF EInv, ExampleInv, ProgTypeOK, OneSignal, OwnRetry, FailsOnlyExpired, At
  <2>4. RowsKnown'
    BY <2>2 DEF EInv, ExampleInv, RowsKnown, GivenRow, OtherRow, LeaseKnown,
                CompletedSteps, At
  <2>5. RetryTimerSet'
    BY <2>2 DEF EInv, ExampleInv, RetryTimerSet, At
  <2> QED
    BY <2>3, <2>4, <2>5 DEF ExampleInv
<1>4. ExampleInv'
  BY <1>1, <1>2, <1>3, CreateKeeps, AcquireKeeps, TryStepKeeps, RetryKeeps,
     SignalAndTimerKeeps, SleepKeeps, FinishKeeps, SchedulerKeeps, TickKeeps
     DEF ExampleNext, Program, EInv
<1> QED
  BY <1>1, <1>4 DEF EInv

-----------------------------------------------------------------------------
(* The theorems *)

LEMMA ExampleInvariance == ExampleSpec => []EInv
<1>1. ExampleInit => EInv
  BY ExampleStarts
<1>2. EInv /\ [ExampleNext]_exampleVars => EInv'
  BY ExampleKeeps
<1> QED
  BY <1>1, <1>2, PTL DEF ExampleSpec

\* The program with its scheduler is a run of the engine: whatever is proved
\* of Engine for every client holds of the tables that this one works with.
THEOREM ExampleImplementsEngine == ExampleSpec => Spec
<1>1. ExampleInit => Init
  BY DEF ExampleInit
<1>2. EInv /\ [ExampleNext]_exampleVars => [Next]_vars
  BY ProgramIsClient
<1> QED
  BY <1>1, <1>2, ExampleInvariance, PTL DEF ExampleSpec, Spec

\* Wherever main is, it knows its workflow, its lease and its timer: what it
\* has in its variables is what the tables hold, or its lease has run out.
THEOREM ExampleKnowsItsRows == ExampleSpec => []ExampleInv
<1>1. EInv => ExampleInv
  BY DEF EInv
<1> QED
  BY <1>1, ExampleInvariance, PTL

\* main never dereferences the nil of "no work", and a call of the engine
\* ends it with log.Fatal only when its lease has run out on the real clock.
THEOREM ExampleFailsOnlyExpired == ExampleSpec => []FailsOnlyExpired
<1>1. EInv => FailsOnlyExpired
  BY DEF EInv, ExampleInv
<1> QED
  BY <1>1, ExampleInvariance, PTL

\* At the end one workflow is complete with all its steps, no other is running
\* or failed, the signal is still there, and the workflow that was retried is
\* the one that was finished if it is the older one.
THEOREM ExampleReports == ExampleSpec => []Report
<1>1. ASSUME EInv, prog.pc = "done"
      PROVE  Report
  <2>1. "done" \in Given /\ "done" \notin FirstRun /\ "done" \notin Between
    BY DEF Given, FirstRun, Between
  <2>2. PICK w \in Workflows : w = prog.wf
    BY <1>1, <2>1, ExampleTypes
  <2>3. /\ workflows[w].status = "COMPLETED" /\ workflows[w].cursor = LastStep
        /\ \A v \in Workflows \ {w} : workflows[v].status \in {"QUEUED", "WAITING"}
        /\ CompletedSteps(w) = 1..LastStep
        /\ workflows[First].created < workflows[Second].created => w = First
    BY <1>1, <2>1, <2>2 DEF EInv, ExampleInv, RowsKnown, GivenRow, OtherRow
  <2>4. Query("COMPLETED") = {w} /\ Query("FAILED") = {} /\ Query("RUNNING") = {}
    BY <2>3 DEF Query
  <2>5. Cardinality(PendingSignals(Second)) = 1
    <3>1. Len(signals) = 1 /\ signals[1].wf = Second /\ ~signals[1].consumed
      BY <1>1 DEF EInv, ExampleInv, OneSignal
    <3>2. DOMAIN signals = 1..Len(signals)
      BY <1>1, LenProperties DEF EInv, IInv, TypeOK
    <3>3. PendingSignals(Second) = {1}
      BY <3>1, <3>2 DEF PendingSignals
    <3> QED
      BY <3>3, FS_Singleton
  <2> QED
    BY <2>2, <2>3, <2>4, <2>5 DEF Report
<1>2. EInv => Report
  BY <1>1 DEF Report
<1> QED
  BY <1>2, ExampleInvariance, PTL
=============================================================================
