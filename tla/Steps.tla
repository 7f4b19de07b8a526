-------------------------------- MODULE Steps -------------------------------
(***************************************************************************)
(* Step checkpoints, src/step.go.  CompleteStep checks the lease inside    *)
(* its transaction.  StartStep and FailStep check it with a read of its    *)
(* own (verifyLease) and write in a later transaction that does not look   *)
(* at the owner again: between the two the request sits in thread.         *)
(***************************************************************************)
EXTENDS Schema

notSteps == <<clock, timers, signals, sched, crashes>>

\* Fault: any worker passes.
FaultyHoldsLease(w, k) == Exists(w)

\* verifyLease: the owner column only, neither the status nor the expiry.
HoldsLease(w, k) == workflows[w].owner = k

\* Fault: the lease is not checked.
FaultyVerifyLease(t, op, w, k, s) ==
  /\ thread[t] = Idle
  /\ thread' = [thread EXCEPT ![t] =
                  [op |-> op, wf |-> w, worker |-> k, step |-> s]]
  /\ UNCHANGED <<workflows, events, steps, notSteps>>

VerifyLease(t, op, w, k, s) ==
  /\ thread[t] = Idle
  /\ HoldsLease(w, k)
  /\ thread' = [thread EXCEPT ![t] =
                  [op |-> op, wf |-> w, worker |-> k, step |-> s]]
  /\ UNCHANGED <<workflows, events, steps, notSteps>>

\* INSERT OR IGNORE, and an event whether or not a row was inserted.
StartStep(t) ==
  LET w == thread[t].wf  s == thread[t].step IN
  /\ thread[t].op = "StartStep"
  /\ Room(w)
  /\ steps' = [steps EXCEPT ![w][s] = IF @ = "ABSENT" THEN "RUNNING" ELSE @]
  /\ Emit(w, "STEP_STARTED")
  /\ thread' = [thread EXCEPT ![t] = Idle]
  /\ UNCHANGED <<workflows, notSteps>>

\* Fault: the checkpoint is taken back, whether or not there was one.
FaultyFailStep(t) ==
  LET w == thread[t].wf  s == thread[t].step IN
  /\ thread[t].op = "FailStep"
  /\ Room(w)
  /\ steps' = [steps EXCEPT ![w][s] = "FAILED"]
  /\ workflows' = [workflows EXCEPT ![w].cursor = @ - 1]
  /\ Emit(w, "STEP_FAILED")
  /\ thread' = [thread EXCEPT ![t] = Idle]
  /\ UNCHANGED notSteps

\* The conflict clause of FailStep has no WHERE: it overwrites any status.
FailStep(t) ==
  LET w == thread[t].wf  s == thread[t].step IN
  /\ thread[t].op = "FailStep"
  /\ Room(w)
  /\ steps' = [steps EXCEPT ![w][s] = "FAILED"]
  /\ Emit(w, "STEP_FAILED")
  /\ thread' = [thread EXCEPT ![t] = Idle]
  /\ UNCHANGED <<workflows, notSteps>>

\* Fault: the version is not increased.
FaultyAdvanced(row) == [row EXCEPT !.cursor = @ + 1]

\* The row with its cursor one step further.
Advanced(row) == [row EXCEPT !.cursor = @ + 1, !.version = @ + 1]

\* Fault: a step that failed before does not advance the cursor.
FaultyCompleteStep(w, k, s) ==
  /\ HoldsLease(w, k)
  /\ steps[w][s] # "COMPLETED"
  /\ Room(w)
  /\ steps' = [steps EXCEPT ![w][s] = "COMPLETED"]
  /\ workflows' = IF steps[w][s] = "FAILED" THEN workflows
                   ELSE [workflows EXCEPT ![w] = Advanced(@)]
  /\ Emit(w, "STEP_COMPLETED")
  /\ UNCHANGED <<thread, notSteps>>

\* A COMPLETED row is ErrStepAlreadyCompleted: the transaction rolls back.
CompleteStep(w, k, s) ==
  /\ HoldsLease(w, k)
  /\ steps[w][s] # "COMPLETED"
  /\ Room(w)
  /\ steps' = [steps EXCEPT ![w][s] = "COMPLETED"]
  /\ workflows' = [workflows EXCEPT ![w] = Advanced(@)]
  /\ Emit(w, "STEP_COMPLETED")
  /\ UNCHANGED <<thread, notSteps>>
=============================================================================
