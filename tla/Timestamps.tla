----------------------------- MODULE Timestamps -----------------------------
(***************************************************************************)
(* The engine together with the times it stores and no statement of an     *)
(* operation reads back: created_at of workflow_events, started_at and     *)
(* completed_at of workflow_steps; and what the queries GetEvents,         *)
(* GetSignals and AvgStepDuration show of them.  A time is the clock       *)
(* reading of the handler, taken before it waits for the connection.       *)
(***************************************************************************)
EXTENDS Engine

VARIABLES
  stamps,   \* stamps[w][i]: created_at of event i of w
  spans     \* spans[w][s]: started_at and completed_at of step s of w

stampedVars == <<vars, stamps, spans>>

\* The events that an operation adds, stamped with the time at.
StampedWith(at) ==
  stamps' = [w \in Workflows |-> stamps[w] \o
               [i \in 1..(Len(events'[w]) - Len(events[w])) |-> at]]

\* Fault: the time of the last cycle of the scheduler.
FaultyStamped(now) == StampedWith(sched.now)

\* The events that an operation adds, stamped with its clock reading.
Stamped(now) == StampedWith(now)

\* started_at of a row that a step finds or inserts.
StartedAt(w, s, now) ==
  IF steps[w][s] = "ABSENT" THEN now ELSE spans[w][s].started

\* Fault: the upsert writes completed_at only where it inserts.
FaultyEnds(w, s, now) ==
  spans' = [spans EXCEPT ![w][s] =
              [started |-> StartedAt(w, s, now),
               completed |-> IF steps[w][s] = "ABSENT" THEN now ELSE @.completed]]

\* CompleteStep and FailStep: the insertion sets both times, the update
\* keeps started_at.
Ends(w, s, now) ==
  spans' = [spans EXCEPT ![w][s] = [started |-> StartedAt(w, s, now),
                                    completed |-> now]]

\* StartStep: INSERT OR IGNORE leaves the times of a row that is there.
Starts(w, s, now) ==
  spans' = [spans EXCEPT ![w][s].started = StartedAt(w, s, now)]

\* Transactions that write a step's times.
StepTimes(now) ==
  \/ \E t \in Threads : LET w == thread[t].wf  s == thread[t].step IN
       \/ StartStep(t) /\ Starts(w, s, now)
       \/ FailStep(t) /\ Ends(w, s, now)
  \/ \E w \in Workflows, k \in Workers, s \in StepNumbers :
       CompleteStep(w, k, s) /\ Ends(w, s, now)

\* Transactions that stamp an event with the reading that they also use.
ReadingShown(now) ==
  \/ \E w \in Workflows : \/ CreateWorkflow(w) /\ workflows'[w].created = now
                          \/ SendSignal(w) /\ signals'[Len(signals')].created = now
                          \/ \E k \in Workers : \/ CompleteWorkflow(w, k)
                                                \/ FailWorkflow(w, k)
                                                \/ \E d \in LeaseSeconds :
                                                     LeaseTo(w, k, d, now)

\* Everything that writes no event and no step.
NotStamped ==
  \/ \E w \in Workflows, k \in Workers :
       \/ ReleaseLease(w, k)
       \/ MarkWaiting(w, k)
       \/ \E d \in LeaseSeconds : RenewLease(w, k, d)
       \/ \E t \in Threads :
            \/ \E s \in StepNumbers, op \in {"StartStep", "FailStep"} :
                 VerifyLease(t, op, w, k, s)
            \/ \E count \in 0..MaxRetries : RetryStep(t, w, k, count)
  \/ \E t \in Threads : RetryStepWait(t)
  \/ \E w \in Workflows : \/ ConsumeSignal(w)
                          \/ \E wake \in WakeTimes : CreateTimer(w, wake)
  \/ TickStart \/ ExpireLeases \/ PassSecond \/ Crash

StampedInit ==
  /\ Init
  /\ stamps = [w \in Workflows |-> <<>>]
  /\ spans = [w \in Workflows |->
                [s \in StepNumbers |-> [started |-> None, completed |-> None]]]

StampedNext ==
  \/ \E now \in Nows : /\ StepTimes(now) \/ (ReadingShown(now) /\ UNCHANGED spans)
                       /\ Stamped(now)
  \/ FireExpiredTimers /\ Stamped(sched.now) /\ UNCHANGED spans
  \/ NotStamped /\ UNCHANGED <<stamps, spans>>

StampedSpec == StampedInit /\ [][StampedNext]_stampedVars

-----------------------------------------------------------------------------
(* The queries *)

\* The rows that GetEvents returns: ORDER BY sequence_number, the n-th row
\* being the one that n - 1 have a smaller number than.
GetEvents(w) ==
  LET rows == [i \in DOMAIN events[w] |-> [type |-> events[w][i].type,
                                           seq |-> events[w][i].seq,
                                           created |-> stamps[w][i]]]
      Before(i) == {j \in DOMAIN rows : rows[j].seq < rows[i].seq}
  IN [n \in DOMAIN rows |->
        rows[CHOOSE i \in DOMAIN rows : Cardinality(Before(i)) = n - 1]]

\* The WHERE clause of AvgStepDuration, for step s.
Measured(s) ==
  {w \in Workflows : spans[w][s].started # None /\ spans[w][s].completed # None}

\* AVG(completed_at - started_at), as a sum over a number of rows.
AvgStepDuration(s) ==
  [sum |-> MapThenSumSet(LAMBDA w : spans[w][s].completed - spans[w][s].started,
                         Measured(s)),
   rows |-> Cardinality(Measured(s))]

-----------------------------------------------------------------------------
(* Properties *)

\* In the order of GetEvents, created_at goes back by no more than the time
\* a handler waits for the connection; only a TIMER_FIRED may be older, for a
\* cycle of the scheduler may be held up for any time.
CreatedAtOrder ==
  \A w \in Workflows : LET shown == GetEvents(w) IN
    \A i, j \in DOMAIN shown :
      (i < j /\ shown[j].type # "TIMER_FIRED")
        => shown[i].created <= shown[j].created + MaxLag

\* A signal is consumed before one that was sent more than the wait of a
\* handler later (ConsumeSignal orders by created_at, a clock reading taken
\* before the insertion is ordered).
SignalOrder ==
  \A i, j \in DOMAIN signals :
    (/\ signals[i].wf = signals[j].wf
     /\ signals[i].created + MaxLag < signals[j].created
     /\ signals[j].consumed) => signals[i].consumed

\* AvgStepDuration measures exactly the steps that have ended, the FAILED
\* ones too, and the mean is negative by no more than the wait of a handler:
\* the two times of a step come from clock readings of different requests,
\* and the one that inserts the row need not be the one that read first.
StepSpans ==
  \A s \in StepNumbers :
    /\ \A w \in Workflows :
         /\ w \in Measured(s) <=> steps[w][s] \in {"COMPLETED", "FAILED"}
         /\ spans[w][s].started = None <=> steps[w][s] = "ABSENT"
    /\ LET avg == AvgStepDuration(s) IN avg.sum >= -MaxLag * avg.rows

\* "AvgStepDuration returns the average duration per step number across all
\* completed steps" (engine.go:187): what it measures is COMPLETED.
AveragesCompletedSteps ==
  \A s \in StepNumbers : \A w \in Measured(s) : steps[w][s] = "COMPLETED"
=============================================================================
