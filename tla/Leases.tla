------------------------------- MODULE Leases -------------------------------
(***************************************************************************)
(* Workflow lifecycle and leases, src/workflow.go.  Each operation is one  *)
(* transaction; a call that would return an error or "no work" changes     *)
(* nothing and is not an action.  No operation but AcquireLease looks at   *)
(* the expiry time: an owner whose lease has expired is still the owner    *)
(* until somebody takes the lease away.                                    *)
(***************************************************************************)
EXTENDS Schema

notLeases == <<clock, steps, timers, signals, thread, sched, crashes>>

\* WHERE workflow_id = w AND lease_owner = k AND status = RUNNING
RunningFor(w, k) ==
  workflows[w].status = "RUNNING" /\ workflows[w].owner = k

\* The row that CreateWorkflow inserts.
Created(now) ==
  [status |-> "QUEUED", cursor |-> 0, owner |-> None, expires |-> None,
   created |-> now, completed |-> FALSE, version |-> 1]

\* The row after AcquireLease.
Taken(row, k, expires) ==
  [row EXCEPT !.status = "RUNNING", !.owner = k, !.expires = expires,
              !.version = @ + 1]

\* SET status = ..., lease_owner = NULL, lease_expires_at = NULL
Requeued(row) ==
  [row EXCEPT !.status = "QUEUED", !.owner = None, !.expires = None]

\* The row after CompleteWorkflow and FailWorkflow.
Closed(row, status) ==
  [row EXCEPT !.status = status, !.owner = None, !.expires = None,
              !.completed = TRUE, !.version = @ + 1]

CreateWorkflow(w) ==
  /\ ~Exists(w)
  /\ Room(w)
  /\ \E now \in Nows : workflows' = [workflows EXCEPT ![w] = Created(now)]
  /\ events' = [events EXCEPT ![w] =
                  Append(@, [type |-> "WORKFLOW_CREATED", seq |-> 1])]
  /\ UNCHANGED notLeases

\* Fault: the fired column is not looked at.
FaultyDueTimers(w, now) ==
  {i \in DOMAIN timers : timers[i].wf = w /\ timers[i].wake <= now}

\* The rows of workflow_timers that are due and not fired.
DueTimers(w, now) ==
  {i \in DOMAIN timers :
     timers[i].wf = w /\ ~timers[i].fired /\ timers[i].wake <= now}

\* Fault: one second early.
FaultyExpired(w, now) ==
  workflows[w].expires # None /\ workflows[w].expires <= now + 1

Expired(w, now) ==
  workflows[w].expires # None /\ workflows[w].expires <= now

\* Fault: a workflow that waits is left to the scheduler.
FaultyEligible(w, now) == workflows[w].status = "QUEUED" \/ Expired(w, now)

Eligible(w, now) ==
  \/ workflows[w].status = "QUEUED"
  \/ workflows[w].status = "WAITING" /\ DueTimers(w, now) # {}
  \/ Expired(w, now)

\* ORDER BY created_at LIMIT 1: any of the oldest eligible rows.
Oldest(now) ==
  {w \in Workflows :
     /\ Eligible(w, now)
     /\ \A v \in Workflows :
          Eligible(v, now) => workflows[w].created <= workflows[v].created}

\* The transaction of a handler that read now, when it selects w.
LeaseTo(w, k, d, now) ==
  /\ w \in Oldest(now)
  /\ now + d <= MaxTime
  /\ Room(w)
  /\ workflows' = [workflows EXCEPT ![w] = Taken(@, k, now + d)]
  /\ Emit(w, "WORKFLOW_STARTED")
  /\ UNCHANGED notLeases

AcquireLease(k, d) == \E now \in Nows, w \in Workflows : LeaseTo(w, k, d, now)

RenewLease(w, k, d) ==
  /\ RunningFor(w, k)
  /\ \E now \in Nows :
       /\ now + d <= MaxTime
       /\ workflows' = [workflows EXCEPT ![w].expires = now + d]
  /\ UNCHANGED <<events, notLeases>>

\* Fault: anybody may release a lease.
FaultyReleaseLease(w, k) ==
  /\ workflows[w].owner # None
  /\ workflows' = [workflows EXCEPT ![w] = Requeued(@)]
  /\ UNCHANGED <<events, notLeases>>

ReleaseLease(w, k) ==
  /\ workflows[w].owner = k
  /\ workflows' = [workflows EXCEPT ![w] = Requeued(@)]
  /\ UNCHANGED <<events, notLeases>>

CompleteWorkflow(w, k) ==
  /\ RunningFor(w, k)
  /\ Room(w)
  /\ workflows' = [workflows EXCEPT ![w] = Closed(@, "COMPLETED")]
  /\ Emit(w, "WORKFLOW_COMPLETED")
  /\ UNCHANGED notLeases

FailWorkflow(w, k) ==
  /\ RunningFor(w, k)
  /\ Room(w)
  /\ workflows' = [workflows EXCEPT ![w] = Closed(@, "FAILED")]
  /\ Emit(w, "WORKFLOW_FAILED")
  /\ UNCHANGED notLeases

\* Fault: the owner is dropped, the expiry time is not.
FaultySetWaiting(w, k) ==
  /\ RunningFor(w, k)
  /\ workflows' = [workflows EXCEPT ![w].status = "WAITING", ![w].owner = None]

\* UPDATE ... SET status = WAITING, which keeps the lease.
SetWaiting(w, k) ==
  /\ RunningFor(w, k)
  /\ workflows' = [workflows EXCEPT ![w].status = "WAITING"]

MarkWaiting(w, k) ==
  /\ SetWaiting(w, k)
  /\ UNCHANGED <<events, notLeases>>
=============================================================================
