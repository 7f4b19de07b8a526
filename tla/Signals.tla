------------------------------- MODULE Signals ------------------------------
(***************************************************************************)
(* External signals, src/signal.go.  Neither operation looks at the lease  *)
(* or the status of the workflow, and a signal does not wake it.           *)
(***************************************************************************)
EXTENDS Schema

notSignals == <<clock, workflows, steps, timers, thread, sched, crashes>>

\* Fault: a signal to a workflow that nobody works on leaves no event.
FaultySendSignal(w) ==
  /\ Exists(w)
  /\ Len(signals) < MaxSignals
  /\ Room(w)
  /\ \E now \in Nows :
       signals' = Append(signals, [wf |-> w, created |-> now, consumed |-> FALSE])
  /\ IF workflows[w].owner = None THEN UNCHANGED events
     ELSE Emit(w, "SIGNAL_RECEIVED")
  /\ UNCHANGED notSignals

SendSignal(w) ==
  /\ Exists(w)                     \* the foreign key
  /\ Len(signals) < MaxSignals
  /\ Room(w)
  /\ \E now \in Nows :
       signals' = Append(signals, [wf |-> w, created |-> now, consumed |-> FALSE])
  /\ Emit(w, "SIGNAL_RECEIVED")
  /\ UNCHANGED notSignals

\* Fault: the consumed column is not looked at.
FaultyPendingSignals(w) == {i \in DOMAIN signals : signals[i].wf = w}

\* GetSignals with unconsumedOnly, and the WHERE clause of ConsumeSignal.
PendingSignals(w) ==
  {i \in DOMAIN signals : signals[i].wf = w /\ ~signals[i].consumed}

\* Fault: the newest first.
FaultyOldestSignals(w) ==
  {i \in PendingSignals(w) :
     \A j \in PendingSignals(w) : signals[i].created >= signals[j].created}

\* ORDER BY created_at LIMIT 1: any of the oldest.
OldestSignals(w) ==
  {i \in PendingSignals(w) :
     \A j \in PendingSignals(w) : signals[i].created <= signals[j].created}

\* Fault: the update selects by workflow.
FaultyTakeSignal(w, i) ==
  /\ i \in OldestSignals(w)
  /\ signals' = [j \in DOMAIN signals |->
       [signals[j] EXCEPT !.consumed = @ \/ signals[j].wf = w]]
  /\ UNCHANGED <<events, notSignals>>

\* The transaction of ConsumeSignal, when it selects i.
TakeSignal(w, i) ==
  /\ i \in OldestSignals(w)
  /\ signals' = [signals EXCEPT ![i].consumed = TRUE]
  /\ UNCHANGED <<events, notSignals>>

ConsumeSignal(w) == \E i \in DOMAIN signals : TakeSignal(w, i)
=============================================================================
