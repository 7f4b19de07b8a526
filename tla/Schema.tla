------------------------------- MODULE Schema -------------------------------
(***************************************************************************)
(* The SQLite database of the durable workflow engine (src/engine.go,      *)
(* src/types.go) and the process-local state of the server that runs it:   *)
(* five tables, the request handlers that are between two transactions,    *)
(* the scheduler loop and the clock.                                       *)
(*                                                                         *)
(* The engine opens the database with SetMaxOpenConns(1), so a statement   *)
(* or a transaction is one atomic step.  What is not atomic is a handler:  *)
(* it reads time.Now() before it waits for the connection, and some        *)
(* handlers use several transactions.  The first is modelled by Nows, the  *)
(* second by the variable thread.                                          *)
(*                                                                         *)
(* Left out of the rows: workflow_type, updated_at, the JSON payloads and  *)
(* the timestamps of events and steps, which no statement reads back.      *)
(*                                                                         *)
(* Here and in the modules that extend this one, a definition Faulty...    *)
(* is a defective variant of the one after it.  No specification uses it:  *)
(* put in its place, it shows that the properties notice the defect.       *)
(***************************************************************************)
EXTENDS Integers, Sequences, FiniteSets, FiniteSetsExt

CONSTANTS
  Workflows,     \* workflow identifiers
  Workers,       \* worker identifiers, as passed to AcquireLease
  Threads,       \* request goroutines that may be between two transactions
  StepNumbers,   \* step numbers the workers use
  LeaseSeconds,  \* lease durations in whole seconds; 0 is a sub-second one
  WakeTimes,     \* wake_at values passed to CreateTimer
  MaxRetries,    \* RetryConfig.MaxRetries
  NextDelay,     \* RetryConfig.Policy.NextDelay, as a function of the count
  None,          \* SQL NULL
  MaxTime,       \* bound: the last second the clock reaches
  MaxLag,        \* bound: seconds a handler may wait for the connection
  MaxEvents,     \* bound: events of one workflow (TIMER_FIRED exempt)
  MaxTimers,     \* bound: rows of workflow_timers
  MaxSignals,    \* bound: rows of workflow_signals
  MaxCrashes     \* bound: crashes of the server process

ASSUME NoneAssumption == None \notin Workflows /\ None \notin Workers /\ None \notin Int
ASSUME LeaseAssumption == LeaseSeconds \subseteq Nat
ASSUME WakeAssumption == WakeTimes \subseteq Int
ASSUME RetryAssumption == /\ MaxRetries \in Nat
                          /\ NextDelay \in [0..MaxRetries -> Int]
ASSUME BoundAssumption == /\ MaxTime \in Nat /\ MaxLag \in Nat
                          /\ MaxEvents \in Nat /\ MaxTimers \in Nat
                          /\ MaxSignals \in Nat /\ MaxCrashes \in Nat

VARIABLES
  clock,      \* the machine's Unix time
  workflows,  \* table workflows, one row per identifier
  events,     \* table workflow_events, per workflow in event_id order
  steps,      \* table workflow_steps: the status column
  timers,     \* table workflow_timers, indexed by timer_id
  signals,    \* table workflow_signals, indexed by signal_id
  thread,     \* requests that are between two of their transactions
  sched,      \* the scheduler goroutine
  crashes     \* crashes so far, to bound them

tables == <<workflows, events, steps, timers, signals>>
vars == <<clock, workflows, events, steps, timers, signals, thread, sched, crashes>>

-----------------------------------------------------------------------------
(* Rows *)

Terminal == {"COMPLETED", "FAILED"}
Leased == {"RUNNING", "WAITING"}
Statuses == {"QUEUED"} \cup Leased \cup Terminal

EventTypes == {"WORKFLOW_CREATED", "WORKFLOW_STARTED", "STEP_STARTED",
               "STEP_COMPLETED", "STEP_FAILED", "SIGNAL_RECEIVED",
               "TIMER_FIRED", "WORKFLOW_COMPLETED", "WORKFLOW_FAILED"}

\* The primary key makes a row either absent or unique.
WorkflowRow == [status : Statuses \cup {"ABSENT"}, cursor : Nat,
                owner : Workers \cup {None}, expires : Int \cup {None},
                created : Nat, completed : BOOLEAN, version : Nat]

NoWorkflow == [status |-> "ABSENT", cursor |-> 0, owner |-> None,
               expires |-> None, created |-> 0, completed |-> FALSE,
               version |-> 0]

EventRow == [type : EventTypes, seq : Nat]

StepStatuses == {"ABSENT", "RUNNING", "COMPLETED", "FAILED"}

TimerRow == [wf : Workflows, wake : Int, fired : BOOLEAN]

SignalRow == [wf : Workflows, created : Nat, consumed : BOOLEAN]

Exists(w) == workflows[w].status # "ABSENT"

-----------------------------------------------------------------------------
(* The handlers' view of time *)

\* The values a handler that commits now may hold in its local variable now.
Nows == {n \in 0..clock : clock - n <= MaxLag}

-----------------------------------------------------------------------------
(* The event log *)

\* The bound on the log, a guard of the handlers that clients call.
Room(w) == Len(events[w]) < MaxEvents

\* Fault: the largest number is used again.
FaultySequence(log) ==
  IF log = <<>> THEN 1 ELSE Max({log[i].seq : i \in DOMAIN log})

NextSequence(log) ==
  IF log = <<>> THEN 1 ELSE Max({log[i].seq : i \in DOMAIN log}) + 1

\* n events of one type, each with the next sequence number.
AppendEvents(log, type, n) ==
  log \o [i \in 1..n |-> [type |-> type, seq |-> NextSequence(log) + i - 1]]

\* Only the log of w grows, by one event.
Emit(w, type) ==
  events' = [events EXCEPT ![w] = AppendEvents(@, type, 1)]

-----------------------------------------------------------------------------
(* Process-local state *)

Idle == [op |-> "Idle"]

Requests == {Idle}
  \cup [op : {"StartStep", "FailStep"}, wf : Workflows, worker : Workers,
        step : StepNumbers]
  \cup [op : {"RetryStep"}, wf : Workflows, worker : Workers]

SchedulerIdle == [pc |-> "idle", now |-> 0]

SchedulerStates == [pc : {"idle", "fire", "expire"}, now : Nat]

-----------------------------------------------------------------------------
(* The database is opened on an empty file. *)
Init ==
  /\ clock = 0
  /\ workflows = [w \in Workflows |-> NoWorkflow]
  /\ events = [w \in Workflows |-> <<>>]
  /\ steps = [w \in Workflows |-> [s \in StepNumbers |-> "ABSENT"]]
  /\ timers = <<>>
  /\ signals = <<>>
  /\ thread = [t \in Threads |-> Idle]
  /\ sched = SchedulerIdle
  /\ crashes = 0

TypeOK ==
  /\ clock \in 0..MaxTime
  /\ workflows \in [Workflows -> WorkflowRow]
  /\ events \in [Workflows -> Seq(EventRow)]
  /\ steps \in [Workflows -> [StepNumbers -> StepStatuses]]
  /\ timers \in Seq(TimerRow)
  /\ signals \in Seq(SignalRow)
  /\ thread \in [Threads -> Requests]
  /\ sched \in SchedulerStates
  /\ crashes \in 0..MaxCrashes

-----------------------------------------------------------------------------
(* A second passes. *)
PassSecond ==
  /\ clock < MaxTime
  /\ clock' = clock + 1
  /\ UNCHANGED <<tables, thread, sched, crashes>>

(* The server process dies and is started again: committed rows survive,   *)
(* the requests and the scheduler's progress are gone (src/engine.go New   *)
(* keeps the tables it finds).                                             *)
Crash ==
  /\ crashes < MaxCrashes
  /\ crashes' = crashes + 1
  /\ thread' = [t \in Threads |-> Idle]
  /\ sched' = SchedulerIdle
  /\ UNCHANGED <<clock, tables>>
=============================================================================
