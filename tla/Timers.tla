------------------------------- MODULE Timers -------------------------------
(***************************************************************************)
(* Timers, retries and the scheduler: src/timer.go, src/retry.go and       *)
(* src/scheduler.go.  RetryStep is two transactions, so a request sits in  *)
(* thread between them.  A scheduler cycle reads the clock once and then   *)
(* runs two transactions with that value, however late they commit.        *)
(***************************************************************************)
EXTENDS Leases

notTimers == <<clock, steps, signals, crashes>>

AddTimer(w, wake) ==
  /\ Exists(w)                     \* the foreign key
  /\ Len(timers) < MaxTimers
  /\ timers' = Append(timers, [wf |-> w, wake |-> wake, fired |-> FALSE])

CreateTimer(w, wake) ==
  /\ AddTimer(w, wake)
  /\ UNCHANGED <<workflows, events, thread, sched, notTimers>>

-----------------------------------------------------------------------------
(* RetryStep: ScheduleRetry and CreateTimer, which checks no lease, then   *)
(* MarkWaiting.  A count above MaxRetries returns before any change.       *)

RetryStep(t, w, k, count) ==
  /\ thread[t] = Idle
  /\ count <= MaxRetries
  /\ \E now \in Nows :
       /\ now + NextDelay[count] <= MaxTime
       /\ AddTimer(w, now + NextDelay[count])
  /\ thread' = [thread EXCEPT ![t] = [op |-> "RetryStep", wf |-> w, worker |-> k]]
  /\ UNCHANGED <<workflows, events, sched, notTimers>>

\* The second transaction; on a lease mismatch the timer stays behind.
RetryStepWait(t) ==
  /\ thread[t].op = "RetryStep"
  /\ \/ SetWaiting(thread[t].wf, thread[t].worker)
     \/ /\ ~RunningFor(thread[t].wf, thread[t].worker)
        /\ UNCHANGED workflows
  /\ thread' = [thread EXCEPT ![t] = Idle]
  /\ UNCHANGED <<events, timers, sched, notTimers>>

-----------------------------------------------------------------------------
(* The scheduler *)

\* Faults: the workflow's status is not looked at; only the very second of
\* wake_at counts.
FaultyFireAnyStatus(w, now) == DueTimers(w, now)

FaultyFireExactly(w, now) ==
  IF workflows[w].status = "WAITING"
  THEN {i \in DueTimers(w, now) : timers[i].wake = now}
  ELSE {}

\* The timers joined to a WAITING workflow that fireExpiredTimers selects.
TimersToFire(w, now) ==
  IF workflows[w].status = "WAITING" THEN DueTimers(w, now) ELSE {}

TickStart ==
  /\ sched.pc = "idle"
  /\ sched' = [pc |-> "fire", now |-> clock]
  /\ UNCHANGED <<workflows, events, timers, thread, notTimers>>

FireExpiredTimers ==
  LET due(w) == TimersToFire(w, sched.now) IN
  /\ sched.pc = "fire"
  /\ timers' = [i \in DOMAIN timers |->
       [timers[i] EXCEPT !.fired = @ \/ i \in due(timers[i].wf)]]
  /\ workflows' = [w \in Workflows |->
       IF due(w) # {} THEN Requeued(workflows[w]) ELSE workflows[w]]
  /\ events' = [w \in Workflows |->
       AppendEvents(events[w], "TIMER_FIRED", Cardinality(due(w)))]
  /\ sched' = [sched EXCEPT !.pc = "expire"]
  /\ UNCHANGED <<thread, notTimers>>

\* Fault: only leases that expire in the very second of the cycle.
FaultyExpireLeases ==
  /\ sched.pc = "expire"
  /\ workflows' = [w \in Workflows |->
       IF workflows[w].status = "RUNNING" /\ workflows[w].expires = sched.now
       THEN Requeued(workflows[w])
       ELSE workflows[w]]
  /\ sched' = SchedulerIdle
  /\ UNCHANGED <<events, timers, thread, notTimers>>

ExpireLeases ==
  /\ sched.pc = "expire"
  /\ workflows' = [w \in Workflows |->
       IF workflows[w].status = "RUNNING" /\ Expired(w, sched.now)
       THEN Requeued(workflows[w])
       ELSE workflows[w]]
  /\ sched' = SchedulerIdle
  /\ UNCHANGED <<events, timers, thread, notTimers>>
=============================================================================
