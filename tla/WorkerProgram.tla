---------------------------- MODULE WorkerProgram ---------------------------
(***************************************************************************)
(* A worker process: acquire a workflow, run and checkpoint its steps one  *)
(* after the other, complete the workflow, exit.  A step that fails is     *)
(* reported with failStep, retryStep is called for it and the process asks *)
(* for work again; without a retry left it fails the workflow.  An         *)
(* exception of the SDK ends the process.                                  *)
(*                                                                         *)
(* The loop is that of src/sdks/typescript/examples/basic.ts, which runs   *)
(* the steps of its first acquisition from step 1 on, and those of the     *)
(* next one from current_step + 1 on.  What another process does with a    *)
(* workflow that has steps already is in src/engine_recovery_test.go: it   *)
(* goes on at current_step + 1 at once.  FirstSteps says which of the two  *)
(* a new process may do.  Creating workflows is left to others (a second   *)
(* run of basic.ts itself would end at its createWorkflow).  Which steps   *)
(* fail, and how often they were retried, is any choice.                   *)
(***************************************************************************)
EXTENDS Client

CONSTANTS
  LastStep,        \* the number of steps of a workflow; 3 in the example
  StepsFail,       \* whether a step may fail
  FirstSteps,      \* where new processes start: 1, or 0 for current_step + 1
  RestartSameId    \* whether a new process may take the id of an old one

ASSUME ProgramAssumption == /\ LastStep \in Nat /\ StepNumbers = 1..LastStep
                            /\ FirstSteps \subseteq {0, 1}
                            /\ StepsFail \in BOOLEAN /\ RestartSameId \in BOOLEAN

\* A process that holds no workflow and is about to do what todo says.
Ready(todo) == [NotRunning("decide") EXCEPT !.todo = todo]

\* A new process starts by asking for work.
Start(k) ==
  /\ worker[k].pc = "new" \/ (RestartSameId /\ worker[k].pc = "exited")
  /\ \E d \in LeaseSeconds, first \in FirstSteps :
       Fetch(k, Calling([Ready("acquire") EXCEPT !.next = first],
                        Call("acquire", d)))

Make(k, call) == Fetch(k, Calling(worker[k], call))

\* The call that comes next.
GoOn(k) ==
  LET p == worker[k] IN
  /\ p.pc = "decide"
  /\ \/ p.todo = "acquire" /\ \E d \in LeaseSeconds : Make(k, Call("acquire", d))
     \/ /\ p.todo = "step" /\ p.next <= LastStep
        /\ \/ Make(k, Call("complete", p.next))
           \/ StepsFail /\ Make(k, Call("fail", p.next))
     \/ p.todo = "step" /\ p.next > LastStep /\ Make(k, Call("finish", 0))
     \/ p.todo = "retry" /\ \E c \in 0..(MaxRetries + 1) : Make(k, Call("retry", c))
     \/ p.todo = "giveup" /\ Make(k, Call("giveup", 0))

\* Fault: current_step is taken for the step that is next, and that one is done.
FaultyAcquired(p, w, cursor) ==
  [p EXCEPT !.pc = "decide", !.todo = "step", !.wf = w,
            !.next = IF p.next = 0 THEN cursor + 2 ELSE p.next,
            !.until = p.since + p.call.arg]

\* The process goes on with the row that acquireLease returned: at the step
\* that it starts with, or at the one after current_step.
Acquired(p, w, cursor) ==
  [p EXCEPT !.pc = "decide", !.todo = "step", !.wf = w,
            !.next = IF p.next = 0 THEN cursor + 1 ELSE p.next,
            !.until = p.since + p.call.arg]

\* The process after a call that succeeded with the given value.
Resume(p, value) ==
  CASE p.call.op = "acquire" /\ value = None -> NotRunning("exited")
    [] p.call.op = "acquire" /\ value # None -> Acquired(p, value.wf, value.cursor)
    [] p.call.op = "complete" -> [p EXCEPT !.pc = "decide", !.next = @ + 1]
    [] p.call.op = "fail" -> [p EXCEPT !.pc = "decide", !.todo = "retry"]
    [] p.call.op = "retry" /\ value -> Ready("acquire")
    [] p.call.op = "retry" /\ ~value -> [p EXCEPT !.pc = "decide", !.todo = "giveup"]
    [] p.call.op \in {"finish", "giveup"} -> NotRunning("exited")
=============================================================================
