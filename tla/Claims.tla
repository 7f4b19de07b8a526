-------------------------------- MODULE Claims ------------------------------
(***************************************************************************)
(* What the documentation, comments and tests of the repository say of the *)
(* engine and the code does not keep.  Each claim is refuted by a run.     *)
(***************************************************************************)
EXTENDS Engine

\* "ErrLeaseMismatch is returned when a worker attempts to operate on a
\* workflow it does not currently lease" (step.go:10): no StartStep or
\* FailStep of one worker writes while another worker has the lease.
OnlyOwnerWritesSteps ==
  [][\A t \in Threads :
        (thread[t].op \in {"StartStep", "FailStep"} /\ thread'[t] = Idle
          /\ events' # events)
        => workflows[thread[t].wf].owner \in {thread[t].worker, None}]_vars

\* "The caller should call MarkWaiting after creating the timer so the
\* workflow pauses until the timer fires" (timer.go:9): a workflow that waits
\* with a timer pending and none due is not handed to a worker.
PausesUntilTimerFires ==
  [][\A w \in Workflows :
        (/\ workflows[w].status = "WAITING"
         /\ DueTimers(w, MaxTime) # {} /\ DueTimers(w, clock) = {})
        => workflows'[w].status # "RUNNING"]_vars
=============================================================================
