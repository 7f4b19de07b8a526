------------------------------ MODULE EventLog ------------------------------
(***************************************************************************)
(* What a reader of GetEvents may rely on: the abstract specification of   *)
(* the event log of every workflow, as the sequence of its event types.    *)
(* The last lifecycle event tells whether a worker holds the workflow, and *)
(* the events that need a holder follow a WORKFLOW_STARTED that no         *)
(* TIMER_FIRED and no terminal event has ended.  Signals and the late      *)
(* STEP_STARTED and STEP_FAILED of a former owner may come at any time.    *)
(***************************************************************************)
EXTENDS Integers, Sequences, FiniteSetsExt

CONSTANT Workflows

VARIABLE log    \* log[w]: the event types of w, oldest first

LifecycleTypes == {"WORKFLOW_CREATED", "WORKFLOW_STARTED", "TIMER_FIRED",
                   "WORKFLOW_COMPLETED", "WORKFLOW_FAILED"}

\* The last lifecycle event of a log, "NONE" when there is none.
Phase(l) ==
  LET marks == {i \in DOMAIN l : l[i] \in LifecycleTypes}
  IN  IF marks = {} THEN "NONE" ELSE l[Max(marks)]

HasStarted(l) == \E i \in DOMAIN l : l[i] = "WORKFLOW_STARTED"

LogInit == log = [w \in Workflows |-> <<>>]

\* One event of the given type is appended to the log of w.
Grows(w, type) == log' = [log EXCEPT ![w] = Append(@, type)]

Create(w) == log[w] = <<>> /\ Grows(w, "WORKFLOW_CREATED")

\* A worker takes the workflow, from the queue or from another worker.
Start(w) ==
  /\ Phase(log[w]) \in {"WORKFLOW_CREATED", "WORKFLOW_STARTED", "TIMER_FIRED"}
  /\ Grows(w, "WORKFLOW_STARTED")

\* What only a holder does.
Checkpoint(w) == Phase(log[w]) = "WORKFLOW_STARTED" /\ Grows(w, "STEP_COMPLETED")

Close(w) ==
  /\ Phase(log[w]) = "WORKFLOW_STARTED"
  /\ Grows(w, "WORKFLOW_COMPLETED") \/ Grows(w, "WORKFLOW_FAILED")

\* One cycle of the scheduler may fire several timers of several workflows.
FireTimers ==
  /\ DOMAIN log' = Workflows
  /\ \A w \in Workflows :
       LET fired == Len(log'[w]) - Len(log[w]) IN
       /\ log'[w] = log[w] \o [i \in 1..fired |-> "TIMER_FIRED"]
       /\ fired > 0 => Phase(log[w]) = "WORKFLOW_STARTED"

\* A request of a worker that held the workflow once, however long ago.
LateStep(w) ==
  /\ HasStarted(log[w])
  /\ Grows(w, "STEP_STARTED") \/ Grows(w, "STEP_FAILED")

Signal(w) == log[w] # <<>> /\ Grows(w, "SIGNAL_RECEIVED")

LogNext ==
  \/ \E w \in Workflows : \/ Create(w) \/ Start(w) \/ Checkpoint(w) \/ Close(w)
                          \/ LateStep(w) \/ Signal(w)
  \/ FireTimers

LogSpec == LogInit /\ [][LogNext]_log
=============================================================================
