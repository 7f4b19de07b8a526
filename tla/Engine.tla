------------------------------- MODULE Engine -------------------------------
(***************************************************************************)
(* The durable workflow engine: the clients' operations of src/workflow.go,*)
(* src/step.go, src/signal.go, src/timer.go and src/retry.go, called by    *)
(* any worker at any time, interleaved with one scheduler, the clock and   *)
(* crashes of the server.  Its correctness properties follow.              *)
(***************************************************************************)
EXTENDS Leases, Timers, Steps, Signals

\* Operations that are one transaction.
LeaseStep ==
  \E w \in Workflows, k \in Workers :
    \/ \E d \in LeaseSeconds : RenewLease(w, k, d)
    \/ ReleaseLease(w, k)
    \/ CompleteWorkflow(w, k)
    \/ FailWorkflow(w, k)
    \/ MarkWaiting(w, k)
    \/ \E s \in StepNumbers : CompleteStep(w, k, s)

ClientStep ==
  \/ \E w \in Workflows :
       \/ CreateWorkflow(w)
       \/ SendSignal(w)
       \/ ConsumeSignal(w)
       \/ \E wake \in WakeTimes : CreateTimer(w, wake)
  \/ \E k \in Workers, d \in LeaseSeconds : AcquireLease(k, d)

\* Operations that are two transactions, one request goroutine each.
RequestStep ==
  \E t \in Threads :
    \/ \E w \in Workflows, k \in Workers :
         \/ \E s \in StepNumbers, op \in {"StartStep", "FailStep"} :
              VerifyLease(t, op, w, k, s)
         \/ \E count \in 0..MaxRetries : RetryStep(t, w, k, count)
    \/ StartStep(t)
    \/ FailStep(t)
    \/ RetryStepWait(t)

SchedulerStep == TickStart \/ FireExpiredTimers \/ ExpireLeases

Next ==
  \/ LeaseStep
  \/ ClientStep
  \/ RequestStep
  \/ SchedulerStep
  \/ PassSecond
  \/ Crash

Spec == Init /\ [][Next]_vars

\* Run loops until its context is cancelled and the ticker always fires
\* again; time passes.  No client is required to do anything.
Fairness ==
  /\ WF_vars(PassSecond)
  /\ WF_vars(TickStart)
  /\ WF_vars(FireExpiredTimers)
  /\ WF_vars(ExpireLeases)

FairSpec == Spec /\ Fairness

-----------------------------------------------------------------------------
(* Invariants *)

CountOf(w, types) ==
  Cardinality({i \in DOMAIN events[w] : events[w][i].type \in types})

\* Only RUNNING and WAITING workflows have an owner and an expiry time, both
\* or neither, and completed_at marks the terminal ones.  The WHERE clauses
\* of AcquireLease, ReleaseLease, CompleteStep and verifyLease test only one
\* of these columns and rely on the others.
RowConsistent(row) ==
  /\ row.status \in Leased <=> row.owner # None
  /\ row.owner # None <=> row.expires # None
  /\ row.status \in Terminal <=> row.completed

LeaseConsistent == \A w \in Workflows : RowConsistent(workflows[w])

\* The sequence numbers of a workflow are 1, 2, 3, ... in insertion order,
\* though nothing in the schema makes (workflow_id, sequence_number) unique.
LogContiguous ==
  \A w \in Workflows : \A i \in DOMAIN events[w] : events[w][i].seq = i

\* Replaying the log gives the row: the cursor counts the checkpoints, the
\* version counts the journalled updates, and a terminal status is exactly
\* one terminal event.
RowMatchesLog ==
  \A w \in Workflows : LET row == workflows[w] IN
    /\ row.cursor = CountOf(w, {"STEP_COMPLETED"})
    /\ row.version = CountOf(w, {"WORKFLOW_CREATED", "WORKFLOW_STARTED",
                                 "STEP_COMPLETED", "WORKFLOW_COMPLETED",
                                 "WORKFLOW_FAILED"})
    /\ CountOf(w, {"WORKFLOW_COMPLETED", "WORKFLOW_FAILED"})
         = IF row.status \in Terminal THEN 1 ELSE 0

\* A timer fires once: as many TIMER_FIRED events as fired timers, whatever
\* interleaves with fireExpiredTimers and wherever the server crashes.
TimersFireOnce ==
  \A w \in Workflows :
    CountOf(w, {"TIMER_FIRED"})
      = Cardinality({i \in DOMAIN timers : timers[i].wf = w /\ timers[i].fired})

\* Every signal has its SIGNAL_RECEIVED event and no event lacks its signal.
SignalsLogged ==
  \A w \in Workflows :
    CountOf(w, {"SIGNAL_RECEIVED"})
      = Cardinality({i \in DOMAIN signals : signals[i].wf = w})

CompletedSteps(w) == {s \in StepNumbers : steps[w][s] = "COMPLETED"}

\* The cursor is never behind the checkpoints in number.  It may be ahead:
\* after FailStep has overwritten a COMPLETED step, CompleteStep counts that
\* step again, and then current_step + 1 is not the next step to run.
CursorCoversSteps ==
  \A w \in Workflows : Cardinality(CompletedSteps(w)) <= workflows[w].cursor

\* No event precedes its workflow; a request that has passed verifyLease is
\* for a workflow that exists; the scheduler is not ahead of the clock.
LogOfExisting == \A w \in Workflows : ~Exists(w) => events[w] = <<>>

RequestsExist ==
  \A t \in Threads :
    thread[t].op \in {"StartStep", "FailStep"} => Exists(thread[t].wf)

SchedulerBehind == sched.now <= clock

\* The inductive invariant of the engine: what TypeOK, LeaseConsistent and
\* LogContiguous need to be preserved by every step of every handler.
IInv ==
  /\ TypeOK
  /\ LeaseConsistent
  /\ LogContiguous
  /\ LogOfExisting
  /\ RequestsExist
  /\ SchedulerBehind

-----------------------------------------------------------------------------
(* Action properties *)

\* A COMPLETED or FAILED workflow keeps its row for ever, although
\* AcquireLease, ReleaseLease and CompleteStep do not test for it.
TerminalFinal ==
  [][\A w \in Workflows : workflows[w].status \in Terminal =>
        workflows'[w] = workflows[w]]_vars

\* A RUNNING workflow whose lease has not expired on the real clock is given
\* to no other worker, and no step of the scheduler touches its row, however
\* stale the time that AcquireLease or the scheduler works with.
LiveLeaseKept ==
  [][\A w \in Workflows :
        (workflows[w].status = "RUNNING" /\ clock < workflows[w].expires) =>
          /\ workflows'[w].owner \in {workflows[w].owner, None}
          /\ sched' # sched => workflows'[w] = workflows[w]]_vars

\* The engine's log is a log of the abstract specification.
Log == INSTANCE EventLog WITH
  log <- [w \in Workflows |-> [i \in DOMAIN events[w] |-> events[w][i].type]]

\* The events of a workflow form a log that EventLog allows: nothing that
\* needs a holder is journalled after the timer or the terminal event that
\* took the lease away, until a new WORKFLOW_STARTED.
ImplementsEventLog == Log!LogSpec

\* The lease of a row, as the abstract lease service sees it.
LeaseOf(row) ==
  [state |-> CASE row.status = "ABSENT" -> "absent"
               [] row.status = "QUEUED" -> "free"
               [] row.status = "RUNNING" -> "held"
               [] row.status = "WAITING" -> "waived"
               [] OTHER -> "closed",
   holder |-> row.owner, until |-> row.expires, progress |-> row.cursor,
   version |-> row.version]

Service == INSTANCE LeaseService WITH
  lease <- [w \in Workflows |-> LeaseOf(workflows[w])], pass <- sched

\* The transactions of worker k's calls that may change a row of workflows.
CallBy(k) ==
  \/ \E d \in LeaseSeconds : AcquireLease(k, d)
  \/ \E w \in Workflows :
       \/ \E d \in LeaseSeconds : RenewLease(w, k, d)
       \/ ReleaseLease(w, k)
       \/ CompleteWorkflow(w, k)
       \/ FailWorkflow(w, k)
       \/ MarkWaiting(w, k)
       \/ \E s \in StepNumbers : CompleteStep(w, k, s)
  \/ \E t \in Threads : /\ thread[t] # Idle /\ thread[t].worker = k
                        /\ StartStep(t) \/ FailStep(t) \/ RetryStepWait(t)

\* The rows are the leases of the abstract service, and what a call of worker
\* k does to them is k's use of a lease: k ends, waives and advances only
\* what k holds, also with a request that was delayed between its two
\* transactions, and a lease that is live on the real clock is ended by its
\* holder alone, however old the clock readings that handlers and scheduler
\* work with.  No two grants of a workflow have the same version.
ImplementsLeaseService ==
  /\ Service!ServiceSpec
  /\ [][workflows' # workflows =>
          \A k \in Workers : CallBy(k) => Service!Use(k)]_vars

-----------------------------------------------------------------------------
(* Liveness *)

\* A lease that is not renewed is taken back: a RUNNING workflow does not
\* keep the same expiry time for ever, even if every worker has died.
UnrenewedLeaseReclaimed ==
  \A w \in Workflows, e \in 0..MaxTime :
    (workflows[w].status = "RUNNING" /\ workflows[w].expires = e)
      ~> ~(workflows[w].status = "RUNNING" /\ workflows[w].expires = e)

\* A WAITING workflow with a pending timer that will be due does not wait
\* for ever: the scheduler alone wakes it.
PendingTimerWakes ==
  \A w \in Workflows :
    (workflows[w].status = "WAITING" /\ DueTimers(w, MaxTime) # {})
      ~> workflows[w].status # "WAITING"
=============================================================================
