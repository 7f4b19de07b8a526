----------------------------- MODULE WorkerProofs ----------------------------
(***************************************************************************)
(* Theorems about the worker processes.  One worker at a time works on a   *)
(* workflow, and a COMPLETED workflow has skipped no step, whatever        *)
(* answers are lost and processes killed: first in every deployment in     *)
(* which no step fails, though calls are repeated, ids used again and new  *)
(* processes start at step 1; then in those in which steps may fail, but   *)
(* no call is repeated and no id is used again.  There the second needs    *)
(* that processes go on at current_step + 1.                               *)
(***************************************************************************)
EXTENDS DeploymentProofs

-----------------------------------------------------------------------------
(* Rows, processes and requests that other steps leave steady *)

\* The types that the lemmas need of the tables, the processes and requests.
LEMMA DeploymentTypes ==
  ASSUME DInv
  PROVE  /\ clock \in Nat
         /\ \A w \in Workflows : /\ workflows[w] \in WorkflowRow
                                 /\ workflows[w].cursor \in Nat
                                 /\ CompletedSteps(w) \subseteq 1..LastStep
         /\ \A k \in Workers : ProcessOK(worker[k]) /\ worker[k] \in Processes
         /\ \A t \in Threads : inflight[t] # NoRequest => RequestOK(inflight[t])
<1>1. TypeOK /\ ClientTypeOK
  BY DEF DInv, IInv
<1> QED
  BY <1>1, BoundAssumption, ProgramAssumption
     DEF TypeOK, WorkflowRow, ClientTypeOK, ProcessOK, CompletedSteps

LEMMA CursorBound ==
  ASSUME NEW row, NEW done \in SUBSET (1..LastStep), row.cursor \in Nat,
         RowSteady(row, done)
  PROVE  row.cursor <= LastStep
<1>1. row.cursor > 0 => row.cursor \in done
  BY DEF RowSteady
<1> QED
  BY <1>1, ProgramAssumption

\* A lease that is live cannot be handed out.
LEMMA HeldNotEligible ==
  ASSUME IInv, NEW w \in Workflows, NEW k, NEW u \in Nat,
         Held(workflows[w], k, u), clock < u,
         NEW now \in Nat, now <= clock
  PROVE  ~Eligible(w, now) /\ ~Expired(w, now)
<1>1. workflows[w].expires \in Int \cup {None} /\ clock \in Nat
  BY BoundAssumption DEF IInv, TypeOK, WorkflowRow
<1> QED
  BY <1>1 DEF Held, Eligible, Expired

LEMMA CompletedNotExpired ==
  ASSUME IInv, NEW w \in Workflows, workflows[w].status = "COMPLETED", NEW now
  PROVE  ~Expired(w, now)
<1>1. RowConsistent(workflows[w])
  BY DEF IInv, LeaseConsistent
<1> QED
  BY <1>1 DEF RowConsistent, Expired, Leased

\* Nor can a workflow that is complete.
LEMMA KeptNotEligible ==
  ASSUME IInv, NEW w \in Workflows, NEW k, NEW u \in Nat,
         Kept(workflows[w], k, u), clock < u, NEW now \in Nat, now <= clock
  PROVE  ~Eligible(w, now)
<1>1. CASE workflows[w].status = "COMPLETED"
  BY <1>1, CompletedNotExpired DEF Eligible
<1> QED
  BY <1>1, HeldNotEligible DEF Kept

LEMMA ProcessKept ==
  ASSUME NEW k \in Workers, NEW p \in Processes, NEW rows, NEW new,
         NEW now \in Nat, NEW later \in Nat, now <= later,
         \A w \in Workflows : /\ rows[w].cursor \in Nat /\ new[w].cursor \in Nat
                              /\ new[w].cursor >= rows[w].cursor,
         ProcessSteady(k, p, rows, now),
         p.todo = "step" /\ now < p.until /\ Kept(rows[p.wf], k, p.until)
           => Kept(new[p.wf], k, p.until)
  PROVE  ProcessSteady(k, p, new, later)
<1>1. p.since \in Nat /\ p.next \in Nat /\ p.until \in Nat
  BY DEF Processes
<1>2. ASSUME p.todo = "step"
      PROVE  /\ p.wf \in Workflows /\ p.next <= new[p.wf].cursor + 1
             /\ p.next <= LastStep /\ later < p.until => Kept(new[p.wf], k, p.until)
  <2>1. /\ p.wf \in Workflows /\ p.next <= rows[p.wf].cursor + 1
        /\ p.next <= LastStep /\ now < p.until => Kept(rows[p.wf], k, p.until)
    BY <1>2 DEF ProcessSteady
  <2>2. later < p.until => now < p.until
    BY <1>1
  <2>3. p.next <= new[p.wf].cursor + 1
    <3>1. /\ rows[p.wf].cursor \in Nat /\ new[p.wf].cursor \in Nat
          /\ new[p.wf].cursor >= rows[p.wf].cursor
      BY <2>1
    <3> QED
      BY <1>1, <2>1, <3>1
  <2> QED
    BY <1>2, <2>1, <2>2, <2>3
<1>3. p.since <= later
  BY <1>1 DEF ProcessSteady
<1> QED
  BY <1>2, <1>3 DEF ProcessSteady

\* The request's own part of RequestSteady and the part of its process.
LEMMA RequestKept ==
  ASSUME NEW r, RequestOK(r), NEW p \in Processes, NEW rows, NEW new,
         NEW now \in Nat, NEW later \in Nat, now <= later,
         \A w \in Workflows : /\ rows[w].cursor \in Nat /\ new[w].cursor \in Nat
                              /\ new[w].cursor >= rows[w].cursor
                              /\ new[w].cursor <= LastStep,
         RequestSteady(r, p, rows, now),
         r.live /\ r.got # None /\ now < p.since + r.call.arg
           /\ Kept(rows[r.got], r.from, p.since + r.call.arg)
             => Kept(new[r.got], r.from, p.since + r.call.arg)
  PROVE  RequestSteady(r, p, new, later)
<1>1. /\ r.call.arg \in Nat /\ p.since \in Nat /\ p.since + r.call.arg \in Nat
      /\ r.call.op \in {"complete", "finish"} => r.wf \in Workflows
  BY DEF RequestOK, CallOK, Calls, Processes
<1>2. \/ r.call.op = "acquire"
      \/ r.call.op = "complete" /\ r.call.arg <= new[r.wf].cursor + 1
      \/ r.call.op = "finish" /\ new[r.wf].cursor = LastStep
  <2>1. ASSUME r.call.op \in {"complete", "finish"}
        PROVE  /\ rows[r.wf].cursor \in Nat /\ new[r.wf].cursor \in Nat
               /\ new[r.wf].cursor >= rows[r.wf].cursor /\ new[r.wf].cursor <= LastStep
    BY <1>1, <2>1
  <2>2. ASSUME r.call.op = "complete"
        PROVE  r.call.arg <= new[r.wf].cursor + 1
    BY <1>1, <2>1, <2>2 DEF RequestSteady
  <2>3. ASSUME r.call.op = "finish"
        PROVE  new[r.wf].cursor = LastStep
    BY <2>1, <2>3, ProgramAssumption DEF RequestSteady
  <2> QED
    BY <2>2, <2>3 DEF RequestSteady
<1>3. ASSUME r.live, r.got # None, later < p.since + r.call.arg
      PROVE  Kept(new[r.got], r.from, p.since + r.call.arg)
  <2>1. now < p.since + r.call.arg
    BY <1>1, <1>3
  <2> QED
    BY <1>3, <2>1 DEF RequestSteady
<1> QED
  BY <1>2, <1>3 DEF RequestSteady

\* Where the tables and the clock stay, so do the rows.
LEMMA RowsStay ==
  ASSUME WorkerInv, UNCHANGED vars
  PROVE  /\ workflows' = workflows /\ clock' = clock
         /\ \A w \in Workflows : RowSteady(workflows'[w], CompletedSteps(w)')
BY DEF WorkerInv, vars, CompletedSteps

-----------------------------------------------------------------------------
(* Who believes in a lease *)

\* Whoever runs steps as q believed in the lease before.
Believed(k, q) ==
  q.todo = "step" /\ q.next <= LastStep /\ clock < q.until => Believes(k, q.wf)

LEMMA Itself ==
  ASSUME NEW k
  PROVE  Believed(k, worker[k])
BY DEF Believed, Believes, Working

\* Unless a workflow is leased nobody starts to believe in a lease.
LEMMA BelieversStay ==
  ASSUME DInv, DInv', OneBeliever, clock <= clock',
         \A k \in Workers : Believed(k, worker'[k]),
         \A t \in Threads : inflight'[t].live /\ inflight'[t].got # None =>
           /\ inflight'[t] = inflight[t]
           /\ worker'[inflight[t].from].since = worker[inflight[t].from].since
  PROVE  OneBeliever'
<1>1. /\ clock \in Nat /\ clock' \in Nat
      /\ \A k \in Workers : worker'[k].until \in Nat
      /\ \A t \in Threads : inflight[t].live =>
           /\ worker[inflight[t].from].since \in Nat
           /\ inflight[t].call.arg \in Nat
  <2>1. TypeOK /\ TypeOK' /\ ClientTypeOK /\ ClientTypeOK'
    BY DEF DInv, IInv
  <2>2. clock \in Nat /\ clock' \in Nat
    BY <2>1, BoundAssumption DEF TypeOK
  <2>3. \A k \in Workers : worker[k] \in Processes /\ worker'[k] \in Processes
    BY <2>1 DEF ClientTypeOK, ProcessOK
  <2>4. \A t \in Threads : inflight[t].live => RequestOK(inflight[t])
    BY <2>1 DEF ClientTypeOK, NoRequest
  <2> QED
    BY <2>2, <2>3, <2>4 DEF Processes, RequestOK, Calls
<1>2. ASSUME NEW k \in Workers, NEW w \in Workflows, Believes(k, w)'
      PROVE  Believes(k, w)
  <2>1. CASE Working(k, w)'
    <3>1. /\ worker'[k].wf = w /\ worker'[k].todo = "step"
          /\ worker'[k].next <= LastStep /\ clock' < worker'[k].until
      BY <2>1 DEF Working
    <3>2. clock < worker'[k].until
      BY <1>1, <3>1
    <3> QED
      BY <3>1, <3>2 DEF Believed
  <2>2. CASE ~Working(k, w)'
    <3>1. PICK t \in Threads :
            /\ inflight'[t].live /\ inflight'[t].from = k /\ inflight'[t].got = w
            /\ clock' < worker'[k].since + inflight'[t].call.arg
      BY <1>2, <2>2 DEF Believes
    <3>2. inflight'[t] = inflight[t] /\ worker'[k].since = worker[k].since
      BY <3>1, NoneAssumption
    <3>3. clock < worker[k].since + inflight[t].call.arg
      BY <1>1, <3>1, <3>2
    <3> QED
      BY <3>1, <3>2, <3>3 DEF Believes
  <2> QED
    BY <2>1, <2>2
<1> QED
  BY <1>2 DEF OneBeliever

-----------------------------------------------------------------------------
(* Calls, timeouts and failures *)

LEMMA NotRunningSteady ==
  ASSUME NEW k \in Workers, NEW pc \in {"new", "exited"}, NEW rows, NEW now \in Nat
  PROVE  ProcessSteady(k, NotRunning(pc), rows, now)
BY DEF NotRunning, ProcessSteady

LEMMA AttemptFailedSteady ==
  ASSUME NEW k \in Workers, NEW p \in Processes, p.pc = "await", NEW rows,
         NEW now \in Nat, ProcessSteady(k, p, rows, now)
  PROVE  /\ ProcessSteady(k, AttemptFailed(p), rows, now)
         /\ AttemptFailed(p).todo = "step" =>
              AttemptFailed(p).wf = p.wf /\ AttemptFailed(p).next = p.next
                /\ AttemptFailed(p).until = p.until /\ AttemptFailed(p).since = p.since
                /\ p.todo = "step"
<1> DEFINE q == AttemptFailed(p)
<1>1. CASE p.attempt < SdkRetries
  <2>1. /\ q.pc = "again" /\ q.todo = p.todo /\ q.since = p.since /\ q.call = p.call
        /\ q.wf = p.wf /\ q.next = p.next /\ q.until = p.until
    BY <1>1 DEF AttemptFailed, Processes
  <2> HIDE DEF q
  <2>2. ProcessSteady(k, q, rows, now)
    BY <2>1 DEF ProcessSteady
  <2> QED
    BY <2>1, <2>2 DEF q
<1>2. CASE ~(p.attempt < SdkRetries)
  <2>1. q = NotRunning("exited")
    BY <1>2 DEF AttemptFailed
  <2>2. q.todo = "none"
    BY <2>1 DEF NotRunning
  <2> QED
    BY <2>1, <2>2, NotRunningSteady
<1> QED
  BY <1>1, <1>2

\* Processes fail or end and requests end or lose who waits for them.
LEMMA FailuresKeep ==
  ASSUME DInv, DInv', WorkerInv,
         workflows' = workflows, clock' = clock, steps' = steps,
         \A k \in Workers :
           \/ worker'[k] = worker[k]
           \/ worker'[k] = NotRunning("exited")
           \/ worker'[k] = AttemptFailed(worker[k]) /\ worker[k].pc = "await",
         \A t \in Threads :
           \/ inflight'[t] = NoRequest
           \/ inflight'[t] = inflight[t]
                /\ (inflight[t].live =>
                      worker'[inflight[t].from] = worker[inflight[t].from])
           \/ inflight'[t] = [inflight[t] EXCEPT !.live = FALSE]
  PROVE  WorkerInv'
<1>1. /\ \A w \in Workflows : RowSteady(workflows'[w], CompletedSteps(w)')
  BY DEF WorkerInv, CompletedSteps
<1>2. ASSUME NEW k \in Workers
      PROVE  /\ ProcessSteady(k, worker'[k], workflows, clock)
             /\ worker'[k].todo = "step" =>
                  worker'[k].wf = worker[k].wf /\ worker'[k].next = worker[k].next
                    /\ worker'[k].until = worker[k].until /\ worker[k].todo = "step"
  <2>1. worker[k] \in Processes /\ clock \in Nat
    BY DeploymentTypes
  <2>2. ProcessSteady(k, worker[k], workflows, clock)
    BY DEF WorkerInv
  <2>3. CASE worker'[k] = NotRunning("exited")
    <3>1. NotRunning("exited").todo = "none"
      BY DEF NotRunning
    <3> QED
      BY <2>1, <2>3, <3>1, NotRunningSteady
  <2>4. CASE worker'[k] = AttemptFailed(worker[k]) /\ worker[k].pc = "await"
    BY <2>1, <2>2, <2>4, AttemptFailedSteady
  <2> QED
    BY <2>2, <2>3, <2>4
<1>3. ASSUME NEW t \in Threads, inflight'[t] # NoRequest
      PROVE  RequestSteady(inflight'[t], worker'[inflight'[t].from], workflows, clock)
  <2> DEFINE r == inflight[t]
             p == worker[r.from]
             q == worker'[r.from]
  <2>1. CASE r = NoRequest
    BY <1>3, <2>1 DEF NoRequest
  <2>2. CASE r # NoRequest
    <3>1. RequestOK(r) /\ r.from \in Workers /\ RequestSteady(r, p, workflows, clock)
      BY <2>2, DeploymentTypes DEF RequestOK, WorkerInv
    <3>3. CASE inflight'[t] = r /\ (r.live => q = p)
      <4> HIDE DEF r, p, q
      <4>1. RequestSteady(r, q, workflows, clock)
        BY <3>1, <3>3 DEF RequestSteady
      <4> QED
        BY <3>3, <4>1 DEF q
    <3>4. CASE inflight'[t] = [r EXCEPT !.live = FALSE]
      <4> DEFINE s == [r EXCEPT !.live = FALSE]
      <4>1. s.call = r.call /\ s.wf = r.wf /\ s.from = r.from /\ ~s.live
        BY <3>1 DEF RequestOK
      <4> HIDE DEF r, p, q, s
      <4>2. RequestSteady(s, q, workflows, clock)
        BY <3>1, <4>1 DEF RequestSteady
      <4>3. inflight'[t] = s
        BY <3>4 DEF s
      <4> QED
        BY <4>1, <4>2, <4>3 DEF q
    <3> QED
      BY <1>3, <3>3, <3>4
  <2> QED
    BY <2>1, <2>2
<1>4. OneBeliever'
  <2>1. \A k \in Workers : Believed(k, worker'[k])
    BY <1>2 DEF Believed, Believes, Working
  <2>2. ASSUME NEW t \in Threads, inflight'[t].live, inflight'[t].got # None
        PROVE  /\ inflight'[t] = inflight[t]
               /\ worker'[inflight[t].from].since = worker[inflight[t].from].since
    <3>1. CASE inflight'[t] = NoRequest
      BY <2>2, <3>1 DEF NoRequest
    <3>2. CASE inflight'[t] = [inflight[t] EXCEPT !.live = FALSE]
      <4> DEFINE r == inflight[t]
      <4>1. CASE r = NoRequest
        BY <2>2, <3>2, <4>1 DEF NoRequest
      <4>2. CASE r # NoRequest
        <5>1. RequestOK(r)
          BY <4>2, DeploymentTypes
        <5>2. ~[r EXCEPT !.live = FALSE].live
          BY <5>1 DEF RequestOK
        <5> QED
          BY <2>2, <3>2, <5>2
      <4> QED
        BY <4>1, <4>2
    <3> QED
      BY <2>2, <3>1, <3>2
  <2>3. OneBeliever /\ clock <= clock'
    BY DeploymentTypes DEF WorkerInv
  <2> QED
    BY <2>1, <2>2, <2>3, BelieversStay
<1> QED
  BY <1>1, <1>2, <1>3, <1>4 DEF WorkerInv

-----------------------------------------------------------------------------
(* The two halves of a step: the tables and the clock move, then the clients *)

\* Processes and requests are steady against these rows at this time.
ClientsSteady(rows, now) ==
  /\ \A k \in Workers : ProcessSteady(k, worker[k], rows, now)
  /\ \A t \in Threads : inflight[t] # NoRequest =>
       RequestSteady(inflight[t], worker[inflight[t].from], rows, now)

LEMMA WorkerInvParts ==
  WorkerInv <=> /\ \A w \in Workflows : RowSteady(workflows[w], CompletedSteps(w))
                /\ ClientsSteady(workflows, clock)
                /\ OneBeliever
BY DEF WorkerInv, ClientsSteady

\* The tables move: the cursors do not go back, and the live leases that the
\* processes and the answers on their way reckon with end only with the workflow.
LEMMA RowsMove ==
  ASSUME DInv, WorkerInv, DInv', clock <= clock',
         \A w \in Workflows : RowSteady(workflows'[w], CompletedSteps(w)'),
         \A w \in Workflows : workflows'[w].cursor >= workflows[w].cursor,
         \A w \in Workflows, k \in Workers, u \in Nat :
           clock < u /\ Kept(workflows[w], k, u) => Kept(workflows'[w], k, u)
  PROVE  ClientsSteady(workflows', clock')
<1>1. /\ clock \in Nat /\ clock' \in Nat
      /\ \A w \in Workflows : /\ workflows[w].cursor \in Nat /\ workflows'[w].cursor \in Nat
                              /\ CompletedSteps(w)' \subseteq 1..LastStep
  <2>1. TypeOK /\ TypeOK'
    BY DEF DInv, IInv
  <2> QED
    BY <2>1, BoundAssumption, ProgramAssumption DEF TypeOK, WorkflowRow, CompletedSteps
<1>2. \A w \in Workflows : workflows'[w].cursor <= LastStep
  <2> SUFFICES ASSUME NEW w \in Workflows PROVE workflows'[w].cursor <= LastStep
    OBVIOUS
  <2> DEFINE row == workflows'[w]
             done == CompletedSteps(w)'
  <2>1. RowSteady(row, done) /\ row.cursor \in Nat /\ done \in SUBSET (1..LastStep)
    BY <1>1
  <2> HIDE DEF row, done
  <2>2. row.cursor <= LastStep
    BY <2>1, CursorBound
  <2> QED
    BY <2>2 DEF row
<1>3. ASSUME NEW k \in Workers
      PROVE  ProcessSteady(k, worker[k], workflows', clock')
  <2> DEFINE p == worker[k]
             new == workflows'
             later == clock'
  <2>1. p \in Processes /\ ProcessSteady(k, p, workflows, clock)
    BY DeploymentTypes DEF WorkerInv
  <2>2. p.todo = "step" /\ clock < p.until /\ Kept(workflows[p.wf], k, p.until)
          => Kept(new[p.wf], k, p.until)
    BY <2>1 DEF ProcessSteady, Processes
  <2>3. /\ later \in Nat /\ clock \in Nat /\ clock <= later
        /\ \A w \in Workflows : /\ workflows[w].cursor \in Nat /\ new[w].cursor \in Nat
                                /\ new[w].cursor >= workflows[w].cursor
    BY <1>1
  <2> HIDE DEF p, new, later
  <2>4. ProcessSteady(k, p, new, later)
    BY <2>1, <2>2, <2>3, ProcessKept
  <2> QED
    BY <2>4 DEF p, new, later
<1>4. ASSUME NEW t \in Threads, inflight[t] # NoRequest
      PROVE  RequestSteady(inflight[t], worker[inflight[t].from], workflows', clock')
  <2> DEFINE r == inflight[t]
             p == worker[r.from]
             new == workflows'
             later == clock'
  <2>1. RequestOK(r) /\ r.from \in Workers /\ r.got \in Workflows \cup {None}
    BY <1>4, DeploymentTypes DEF RequestOK
  <2>2. p \in Processes /\ RequestSteady(r, p, workflows, clock)
    BY <1>4, <2>1, DeploymentTypes DEF WorkerInv
  <2>3. p.since + r.call.arg \in Nat
    BY <2>1, <2>2 DEF Processes, RequestOK, Calls
  <2>4. r.live /\ r.got # None /\ clock < p.since + r.call.arg
          /\ Kept(workflows[r.got], r.from, p.since + r.call.arg)
            => Kept(new[r.got], r.from, p.since + r.call.arg)
    <3> DEFINE u == p.since + r.call.arg
    <3>1. u \in Nat
      BY <2>3
    <3> HIDE DEF u, r, p
    <3>2. ASSUME r.got # None
          PROVE  clock < u /\ Kept(workflows[r.got], r.from, u) => Kept(new[r.got], r.from, u)
      <4>1. r.got \in Workflows
        BY <2>1, <3>2
      <4> QED
        BY <2>1, <3>1, <4>1
    <3> QED
      BY <3>2 DEF u
  <2>5. /\ later \in Nat /\ clock \in Nat /\ clock <= later
        /\ \A w \in Workflows : /\ workflows[w].cursor \in Nat /\ new[w].cursor \in Nat
                                /\ new[w].cursor >= workflows[w].cursor
                                /\ new[w].cursor <= LastStep
    BY <1>1, <1>2
  <2> HIDE DEF r, p, new, later
  <2>6. RequestSteady(r, p, new, later)
    BY <2>1, <2>2, <2>4, <2>5, RequestKept
  <2> QED
    BY <2>6 DEF r, p, new, later
<1> QED
  BY <1>3, <1>4 DEF ClientsSteady

\* A request that nobody waits for does not depend on what its process does.
LEMMA OldRequest ==
  ASSUME NEW r, NEW p, NEW q, NEW rows, NEW now,
         ~r.live, RequestSteady(r, p, rows, now)
  PROVE  RequestSteady(r, q, rows, now)
BY DEF RequestSteady

\* A request ends, and its process goes on as q if it waits for the answer.
LEMMA AnswerMoves ==
  ASSUME DInv, DInv', NEW rows, NEW now, ClientsSteady(rows, now),
         NEW t \in Threads, inflight[t] # NoRequest, NEW q \in Processes,
         inflight[t].live => ProcessSteady(inflight[t].from, q, rows, now),
         inflight' = [inflight EXCEPT ![t] = NoRequest],
         worker' = IF inflight[t].live
                   THEN [worker EXCEPT ![inflight[t].from] = q] ELSE worker
  PROVE  /\ \A k \in Workers : ProcessSteady(k, worker'[k], rows, now)
         /\ \A u \in Threads : inflight'[u] # NoRequest =>
              RequestSteady(inflight'[u], worker'[inflight'[u].from], rows, now)
<1> DEFINE k == inflight[t].from
<1>1. k \in Workers /\ worker[k] \in Processes
  BY DeploymentTypes DEF RequestOK
<1>2. ASSUME NEW j \in Workers
      PROVE  ProcessSteady(j, worker'[j], rows, now)
  BY <1>1 DEF ClientsSteady, DInv, ClientTypeOK
<1>3. ASSUME NEW u \in Threads, inflight'[u] # NoRequest
      PROVE  RequestSteady(inflight'[u], worker'[inflight'[u].from], rows, now)
  <2> DEFINE r == inflight[u]
  <2>1. u # t /\ inflight'[u] = r /\ r # NoRequest
    BY <1>3 DEF DInv, ClientTypeOK
  <2>2. r.from \in Workers /\ RequestSteady(r, worker[r.from], rows, now)
    BY <2>1, DeploymentTypes DEF ClientsSteady, RequestOK
  <2>3. CASE r.from = k /\ inflight[t].live
    <3>1. ~r.live
      BY <2>1, <2>3 DEF DInv, AnswersMatch
    <3>2. worker'[k] = q
      BY <1>1, <2>3 DEF DInv, ClientTypeOK
    <3>3. RequestSteady(r, worker[k], rows, now)
      BY <2>2, <2>3
    <3> HIDE DEF r, k
    <3>4. RequestSteady(r, q, rows, now)
      BY <1>1, <3>1, <3>2, <3>3, OldRequest
    <3> QED
      BY <2>1, <2>3, <3>2, <3>4
  <2>4. CASE ~(r.from = k /\ inflight[t].live)
    <3>1. worker'[r.from] = worker[r.from]
      BY <2>2, <2>4
    <3> QED
      BY <2>1, <2>2, <3>1
  <2> QED
    BY <2>3, <2>4
<1> QED
  BY <1>2, <1>3

-----------------------------------------------------------------------------
(* Calls *)

\* Worker k sends the request of process p and waits.
LEMMA FetchSteady ==
  ASSUME DInv, DInv', WorkerInv, NEW k \in Workers, worker[k].pc # "await",
         NEW p \in Processes, Fetch(k, p),
         ProcessSteady(k, [p EXCEPT !.pc = "await"], workflows, clock),
         Believed(k, p),
         \/ p.call.op = "acquire"
         \/ p.call.op = "complete" /\ p.call.arg <= workflows[p.wf].cursor + 1
         \/ p.call.op = "finish" /\ workflows[p.wf].cursor = LastStep
  PROVE  WorkerInv'
<1> DEFINE r == [from |-> k, call |-> p.call, wf |-> p.wf, sent |-> clock,
                 live |-> TRUE, got |-> None]
           q == [p EXCEPT !.pc = "await"]
<1>1. PICK t \in Threads : /\ inflight[t] = NoRequest
                           /\ inflight' = [inflight EXCEPT ![t] = r]
  BY DEF Fetch
<1>2. worker' = [worker EXCEPT ![k] = q] /\ UNCHANGED vars
  BY DEF Fetch
<1>3. /\ q \in Processes /\ q.todo = p.todo /\ q.wf = p.wf /\ q.next = p.next
      /\ q.since = p.since /\ q.since <= clock /\ q.until = p.until
  BY DEF Processes, PCs, ProcessSteady
<1>4. /\ r.from = k /\ r.live /\ r.call = p.call /\ r.wf = p.wf
      /\ r.sent = clock /\ r.got = None
  OBVIOUS
<1>5. ProcessSteady(k, q, workflows, clock)
  OBVIOUS
<1> HIDE DEF r, q
<1>6. RequestSteady(r, q, workflows, clock)
  BY <1>3, <1>4 DEF RequestSteady
<1>7. OneBeliever'
  <2>1. Believed(k, q)
    BY <1>3 DEF Believed
  <2>2. \A j \in Workers : Believed(j, worker'[j])
    BY <1>2, <2>1, Itself DEF DInv, ClientTypeOK
  <2>3. ASSUME NEW u \in Threads, inflight'[u].live, inflight'[u].got # None
        PROVE  /\ inflight'[u] = inflight[u]
               /\ worker'[inflight[u].from].since = worker[inflight[u].from].since
    <3>1. u # t
      BY <1>1, <1>4, <2>3 DEF DInv, ClientTypeOK
    <3>2. inflight'[u] = inflight[u]
      BY <1>1, <3>1
    <3>3. inflight[u].from # k
      BY <2>3, <3>2 DEF DInv, AnswersMatch
    <3> QED
      BY <1>2, <3>2, <3>3
  <2>4. clock' = clock /\ clock \in Nat /\ OneBeliever
    BY <1>2, DeploymentTypes DEF vars, WorkerInv
  <2> QED
    BY <2>2, <2>3, <2>4, BelieversStay
<1>8. ASSUME NEW j \in Workers
      PROVE  ProcessSteady(j, worker'[j], workflows, clock)
  BY <1>2, <1>5 DEF WorkerInv, DInv, ClientTypeOK
<1>9. ASSUME NEW u \in Threads, inflight'[u] # NoRequest
      PROVE  RequestSteady(inflight'[u], worker'[inflight'[u].from], workflows, clock)
  <2>1. worker'[k] = q /\ inflight'[t] = r
    BY <1>1, <1>2 DEF DInv, ClientTypeOK
  <2>2. CASE u = t
    BY <1>4, <1>6, <2>1, <2>2
  <2>3. CASE u # t
    <3> DEFINE s == inflight[u]
    <3>1. inflight'[u] = s /\ s # NoRequest
      BY <1>1, <1>9, <2>3
    <3>2. s.from \in Workers /\ RequestSteady(s, worker[s.from], workflows, clock)
      BY <3>1, DeploymentTypes DEF WorkerInv, RequestOK
    <3>3. CASE s.from = k
      <4>1. ~s.live
        BY <3>3 DEF DInv, AnswersMatch
      <4>2. worker[k] \in Processes /\ RequestSteady(s, worker[k], workflows, clock)
        BY <3>2, <3>3, DeploymentTypes
      <4> HIDE DEF s
      <4>3. RequestSteady(s, q, workflows, clock)
        BY <4>1, <4>2, OldRequest
      <4> QED
        BY <2>1, <3>1, <3>3, <4>3
    <3>4. CASE s.from # k
      BY <1>2, <3>1, <3>2, <3>4
    <3> QED
      BY <3>3, <3>4
  <2> QED
    BY <2>2, <2>3
<1> QED
  BY <1>2, <1>7, <1>8, <1>9, RowsStay DEF WorkerInv

\* A process in a state that no request forbids makes a call.
LEMMA MakeSteady ==
  ASSUME DInv, DInv', WorkerInv, NEW k \in Workers, worker[k].pc # "await",
         NEW p, ProcessOK(p), p.pc = "decide", NEW call \in Calls,
         CallOK(call, p.wf), Fetch(k, Calling(p, call)),
         ProcessSteady(k, p, workflows, clock),
         Believed(k, p),
         \/ call.op = "acquire" /\ p.todo = "acquire"
         \/ call.op = "complete" /\ p.todo = "step" /\ call.arg = p.next
         \/ /\ call.op = "finish" /\ p.todo = "step" /\ p.next > LastStep
            /\ workflows[p.wf].cursor = LastStep
  PROVE  WorkerInv'
<1> DEFINE c == Calling(p, call)
           q == [c EXCEPT !.pc = "await"]
<1>1. p \in Processes /\ clock \in Nat /\ c \in Processes
  BY DeploymentTypes, CallingOK DEF ProcessOK
<1>2. /\ c.call = call /\ c.since = clock /\ c.todo = p.todo
      /\ c.wf = p.wf /\ c.next = p.next /\ c.until = p.until
  BY <1>1 DEF Calling, Processes
<1>0. Fetch(k, c)
  OBVIOUS
<1> HIDE DEF c
<1>3. /\ q.call = call /\ q.since = clock /\ q.todo = p.todo /\ q.pc = "await"
      /\ q.wf = p.wf /\ q.next = p.next /\ q.until = p.until
  BY <1>1, <1>2 DEF Processes
<1>4. q = [c EXCEPT !.pc = "await"]
  OBVIOUS
<1> HIDE DEF q
<1>5. ProcessSteady(k, q, workflows, clock)
  BY <1>1, <1>3 DEF ProcessSteady
<1>6. Believed(k, c)
  BY <1>2 DEF Believed
<1>7. \/ c.call.op = "acquire"
      \/ c.call.op = "complete" /\ c.call.arg <= workflows[c.wf].cursor + 1
      \/ c.call.op = "finish" /\ workflows[c.wf].cursor = LastStep
  BY <1>2 DEF ProcessSteady
<1> QED
  BY <1>0, <1>1, <1>4, <1>5, <1>6, <1>7, FetchSteady

LEMMA StartSteady ==
  ASSUME DInv, DInv', WorkerInv, NEW k \in Workers, Start(k)
  PROVE  WorkerInv'
<1>1. PICK d \in LeaseSeconds, first \in FirstSteps :
        Fetch(k, Calling([Ready("acquire") EXCEPT !.next = first], Call("acquire", d)))
  BY DEF Start
<1> DEFINE p == [Ready("acquire") EXCEPT !.next = first]
           call == Call("acquire", d)
<1>2. /\ ProcessOK(p) /\ p.pc = "decide" /\ p.todo = "acquire" /\ p.since = 0
      /\ p.next <= 1
  BY StartingOK, ProgramAssumption
<1>3. call \in Calls /\ CallOK(call, p.wf) /\ call.op = "acquire"
  BY LeaseAssumption DEF Call, Calls, Ops, CallOK
<1>4. worker[k].pc # "await" /\ Fetch(k, Calling(p, call)) /\ clock \in Nat
  BY <1>1, DeploymentTypes DEF Start
<1> HIDE DEF p, call
<1>5. ProcessSteady(k, p, workflows, clock) /\ Believed(k, p)
  BY <1>2, <1>4 DEF ProcessSteady, Believed
<1> QED
  BY <1>2, <1>3, <1>4, <1>5, MakeSteady

\* Where no step fails, a process completes its steps and then finishes.
LEMMA GoOnSteady ==
  ASSUME StepsFail = FALSE, DInv, DInv', WorkerInv, NEW k \in Workers, GoOn(k)
  PROVE  WorkerInv'
<1> DEFINE p == worker[k]
<1>1. /\ ProcessOK(p) /\ p \in Processes /\ p.pc = "decide" /\ worker[k].pc # "await"
      /\ ProcessSteady(k, p, workflows, clock) /\ p.next \in Nat
  BY DeploymentTypes DEF GoOn, WorkerInv, Processes
<1>2. Believed(k, p)
  BY Itself
<1>3. CASE p.todo = "acquire" /\ \E d \in LeaseSeconds : Make(k, Call("acquire", d))
  <2>1. PICK d \in LeaseSeconds : Make(k, Call("acquire", d))
    BY <1>3
  <2> DEFINE call == Call("acquire", d)
  <2>2. call \in Calls /\ CallOK(call, p.wf) /\ call.op = "acquire"
    BY LeaseAssumption DEF Call, Calls, Ops, CallOK
  <2>3. Fetch(k, Calling(p, call)) /\ p.todo = "acquire"
    BY <1>3, <2>1 DEF Make
  <2> HIDE DEF p, call
  <2> QED
    BY <1>1, <1>2, <2>2, <2>3, MakeSteady DEF p
<1>4. CASE p.todo = "step" /\ p.next <= LastStep /\ Make(k, Call("complete", p.next))
  <2> DEFINE call == Call("complete", p.next)
  <2>1. p.wf \in Workflows /\ p.next \in StepNumbers
    BY <1>1, <1>4, ProgramAssumption DEF ProcessOK
  <2>2. call \in Calls /\ CallOK(call, p.wf) /\ call.op = "complete" /\ call.arg = p.next
    BY <1>1, <2>1 DEF Call, Calls, Ops, CallOK
  <2>3. Fetch(k, Calling(p, call)) /\ p.todo = "step"
    BY <1>4 DEF Make
  <2> HIDE DEF p, call
  <2> QED
    BY <1>1, <1>2, <2>2, <2>3, MakeSteady DEF p
<1>5. CASE p.todo = "step" /\ p.next > LastStep /\ Make(k, Call("finish", 0))
  <2> DEFINE call == Call("finish", 0)
             row == workflows[p.wf]
             done == CompletedSteps(p.wf)
  <2>1. p.wf \in Workflows
    BY <1>1, <1>5 DEF ProcessOK
  <2>2. call \in Calls /\ CallOK(call, p.wf) /\ call.op = "finish"
    BY <2>1 DEF Call, Calls, Ops, CallOK
  <2>3. Fetch(k, Calling(p, call)) /\ p.todo = "step" /\ p.next > LastStep
    BY <1>5 DEF Make
  <2>4. /\ row.cursor \in Nat /\ done \in SUBSET (1..LastStep)
        /\ RowSteady(row, done) /\ p.next <= row.cursor + 1
    BY <1>1, <2>1, <2>3, DeploymentTypes DEF WorkerInv, ProcessSteady
  <2> HIDE DEF row, done
  <2>5. row.cursor = LastStep
    BY <1>1, <2>3, <2>4, CursorBound, ProgramAssumption
  <2>6. workflows[p.wf].cursor = LastStep
    BY <2>5 DEF row
  <2> HIDE DEF p, call
  <2> QED
    BY <1>1, <1>2, <2>2, <2>3, <2>6, MakeSteady DEF p
<1> QED
  BY <1>1, <1>3, <1>4, <1>5 DEF GoOn, ProcessSteady

LEMMA FetchAgainSteady ==
  ASSUME DInv, DInv', WorkerInv, NEW k \in Workers, FetchAgain(k)
  PROVE  WorkerInv'
<1> DEFINE p == worker[k]
           q == [p EXCEPT !.pc = "await"]
<1>1. /\ ProcessOK(p) /\ p \in Processes /\ p.pc = "again" /\ Fetch(k, p)
      /\ ProcessSteady(k, p, workflows, clock) /\ p.next \in Nat /\ clock \in Nat
  BY DeploymentTypes DEF FetchAgain, WorkerInv, Processes
<1>2. Believed(k, p)
  BY Itself
<1>3. /\ q.call = p.call /\ q.since = p.since /\ q.todo = p.todo /\ q.pc = "await"
      /\ q.wf = p.wf /\ q.next = p.next /\ q.until = p.until
  BY <1>1 DEF Processes
<1>4. q = [p EXCEPT !.pc = "await"] /\ worker[k].pc # "await"
  BY <1>1
<1> DEFINE row == workflows[p.wf]
           done == CompletedSteps(p.wf)
<1>5. p.todo = "step" => /\ row.cursor \in Nat /\ done \in SUBSET (1..LastStep)
                         /\ RowSteady(row, done) /\ p.next <= row.cursor + 1
  BY <1>1, DeploymentTypes DEF WorkerInv, ProcessSteady
<1> HIDE DEF row, done, q
<1>6. p.todo = "step" /\ p.next > LastStep => row.cursor = LastStep
  BY <1>1, <1>5, CursorBound, ProgramAssumption
<1>7. \/ p.call.op = "acquire"
      \/ p.call.op = "complete" /\ p.call.arg <= row.cursor + 1
      \/ p.call.op = "finish" /\ row.cursor = LastStep
  BY <1>1, <1>5, <1>6 DEF ProcessSteady
<1>8. ProcessSteady(k, q, workflows, clock)
  BY <1>1, <1>3 DEF ProcessSteady
<1>9. \/ p.call.op = "acquire"
      \/ p.call.op = "complete" /\ p.call.arg <= workflows[p.wf].cursor + 1
      \/ p.call.op = "finish" /\ workflows[p.wf].cursor = LastStep
  BY <1>7 DEF row
<1> HIDE DEF p
<1>10. worker[k].pc # "await"
  BY <1>4
<1>11. ProcessSteady(k, [p EXCEPT !.pc = "await"], workflows, clock)
  BY <1>4, <1>8
<1> QED
  BY <1>1, <1>2, <1>9, <1>10, <1>11, FetchSteady

-----------------------------------------------------------------------------
(* Timeouts, kills, lost requests, refusals and crashes *)

\* Nobody waits for the attempts of worker k any more.
LEMMA AbandonSteady ==
  ASSUME DInv, DInv', WorkerInv, NEW k \in Workers, Abandon(k), UNCHANGED vars,
         \/ worker' = [worker EXCEPT ![k] = NotRunning("exited")]
         \/ /\ worker' = [worker EXCEPT ![k] = AttemptFailed(@)]
            /\ worker[k].pc = "await"
  PROVE  WorkerInv'
<1>1. workflows' = workflows /\ clock' = clock /\ steps' = steps
  BY DEF vars
<1>2. ASSUME NEW j \in Workers
      PROVE  \/ worker'[j] = worker[j]
             \/ worker'[j] = NotRunning("exited")
             \/ worker'[j] = AttemptFailed(worker[j]) /\ worker[j].pc = "await"
  BY DEF DInv, ClientTypeOK
<1>3. ASSUME NEW t \in Threads
      PROVE  \/ inflight'[t] = NoRequest
             \/ inflight'[t] = inflight[t]
                  /\ (inflight[t].live =>
                        worker'[inflight[t].from] = worker[inflight[t].from])
             \/ inflight'[t] = [inflight[t] EXCEPT !.live = FALSE]
  <2>1. inflight'[t] = IF inflight[t].from = k
                       THEN [inflight[t] EXCEPT !.live = FALSE] ELSE inflight[t]
    BY DEF Abandon
  <2>2. inflight[t].live => inflight[t].from \in Workers
    BY DeploymentTypes DEF RequestOK, NoRequest
  <2>3. inflight[t].live /\ inflight[t].from # k =>
          worker'[inflight[t].from] = worker[inflight[t].from]
    BY <2>2 DEF DInv, ClientTypeOK
  <2> QED
    BY <2>1, <2>3
<1> QED
  BY <1>1, <1>2, <1>3, FailuresKeep

\* A request is lost or refused; who waits for it has failed once more.
LEMMA LostSteady ==
  ASSUME DInv, DInv', WorkerInv, NEW t \in Threads, inflight[t] # NoRequest, UNCHANGED vars,
         inflight' = [inflight EXCEPT ![t] = NoRequest],
         worker' = IF inflight[t].live
                   THEN [worker EXCEPT ![inflight[t].from] = AttemptFailed(@)]
                   ELSE worker
  PROVE  WorkerInv'
<1>1. workflows' = workflows /\ clock' = clock /\ steps' = steps
  BY DEF vars
<1>2. inflight[t].from \in Workers
  BY DeploymentTypes DEF RequestOK
<1>3. ASSUME NEW j \in Workers
      PROVE  \/ worker'[j] = worker[j]
             \/ worker'[j] = NotRunning("exited")
             \/ worker'[j] = AttemptFailed(worker[j]) /\ worker[j].pc = "await"
  BY <1>2 DEF DInv, ClientTypeOK, AnswersMatch
<1>4. ASSUME NEW u \in Threads
      PROVE  \/ inflight'[u] = NoRequest
             \/ inflight'[u] = inflight[u]
                  /\ (inflight[u].live =>
                        worker'[inflight[u].from] = worker[inflight[u].from])
             \/ inflight'[u] = [inflight[u] EXCEPT !.live = FALSE]
  <2>1. CASE u = t
    BY <2>1 DEF DInv, ClientTypeOK
  <2>2. CASE u # t
    <3>1. inflight'[u] = inflight[u]
      BY <2>2
    <3>2. inflight[u].live /\ inflight[t].live => inflight[u].from # inflight[t].from
      BY <2>2 DEF DInv, AnswersMatch
    <3>3. inflight[u].live => worker'[inflight[u].from] = worker[inflight[u].from]
      BY <3>2
    <3> QED
      BY <3>1, <3>3
  <2> QED
    BY <2>1, <2>2
<1> QED
  BY <1>1, <1>3, <1>4, FailuresKeep

LEMMA ServerCrashSteady ==
  ASSUME DInv, DInv', WorkerInv, ServerCrash
  PROVE  WorkerInv'
<1>1. workflows' = workflows /\ clock' = clock /\ steps' = steps
  BY DEF ServerCrash, Crash, tables
<1>2. \A j \in Workers :
        \/ worker'[j] = worker[j]
        \/ worker'[j] = NotRunning("exited")
        \/ worker'[j] = AttemptFailed(worker[j]) /\ worker[j].pc = "await"
  BY DEF ServerCrash
<1>3. \A t \in Threads :
        \/ inflight'[t] = NoRequest
        \/ inflight'[t] = inflight[t]
             /\ (inflight[t].live =>
                   worker'[inflight[t].from] = worker[inflight[t].from])
        \/ inflight'[t] = [inflight[t] EXCEPT !.live = FALSE]
  BY DEF ServerCrash
<1> QED
  BY <1>1, <1>2, <1>3, FailuresKeep

-----------------------------------------------------------------------------
(* Answers *)

\* The handler of a call that is one transaction answers it.
LEMMA AnswerSteady ==
  ASSUME DInv, DInv', OneBeliever, clock' = clock,
         \A w \in Workflows : RowSteady(workflows'[w], CompletedSteps(w)'),
         ClientsSteady(workflows', clock'),
         NEW t \in Threads, inflight[t] # NoRequest, NEW value, Answer(t, value),
         inflight[t].live =>
           LET p == worker[inflight[t].from] IN
           /\ Resume(p, value) \in Processes
           /\ ProcessSteady(inflight[t].from, Resume(p, value), workflows', clock')
           /\ Believed(inflight[t].from, Resume(p, value))
  PROVE  WorkerInv'
<1> DEFINE p == worker[inflight[t].from]
           q == IF inflight[t].live THEN Resume(p, value) ELSE p
<1>1. inflight[t].from \in Workers /\ p \in Processes
  BY DeploymentTypes DEF RequestOK
<1>2. /\ inflight' = [inflight EXCEPT ![t] = NoRequest]
      /\ worker' = IF inflight[t].live
                   THEN [worker EXCEPT ![inflight[t].from] = q] ELSE worker
  BY DEF Answer
<1>3. /\ q \in Processes
      /\ inflight[t].live =>
           /\ ProcessSteady(inflight[t].from, q, workflows', clock')
           /\ Believed(inflight[t].from, q)
  BY <1>1
<1> DEFINE rows == workflows'
           now == clock'
<1>4. /\ ClientsSteady(rows, now)
      /\ inflight[t].live => ProcessSteady(inflight[t].from, q, rows, now)
  BY <1>3
<1> HIDE DEF p, q, rows, now
<1>5. /\ \A k \in Workers : ProcessSteady(k, worker'[k], rows, now)
      /\ \A u \in Threads : inflight'[u] # NoRequest =>
           RequestSteady(inflight'[u], worker'[inflight'[u].from], rows, now)
  BY <1>2, <1>3, <1>4, AnswerMoves
<1>6. OneBeliever'
  <2>1. \A k \in Workers : Believed(k, worker'[k])
    BY <1>1, <1>2, <1>3, Itself DEF DInv, ClientTypeOK
  <2>2. ASSUME NEW u \in Threads, inflight'[u].live, inflight'[u].got # None
        PROVE  /\ inflight'[u] = inflight[u]
               /\ worker'[inflight[u].from].since = worker[inflight[u].from].since
    <3>1. u # t
      BY <1>2, <2>2 DEF DInv, ClientTypeOK, NoRequest
    <3>2. inflight'[u] = inflight[u]
      BY <1>2, <3>1
    <3>3. inflight[t].live => inflight[u].from # inflight[t].from
      BY <2>2, <3>1, <3>2 DEF DInv, AnswersMatch
    <3> QED
      BY <1>2, <3>2, <3>3
  <2>3. clock <= clock'
    BY DeploymentTypes
  <2> QED
    BY <2>1, <2>2, <2>3, BelieversStay
<1> QED
  BY <1>5, <1>6 DEF WorkerInv, rows, now

\* A process that ends is steady, and believes in nothing.
LEMMA EndSteady ==
  ASSUME NEW k \in Workers, NEW rows, NEW now \in Nat
  PROVE  LET q == NotRunning("exited") IN
         q \in Processes /\ ProcessSteady(k, q, rows, now) /\ Believed(k, q)
<1>1. NotRunning("exited").todo = "none" /\ NotRunning("exited") \in Processes
  BY NotRunningOK DEF NotRunning, ProcessOK
<1> QED
  BY <1>1, NotRunningSteady DEF Believed

-----------------------------------------------------------------------------
(* Handlers *)

\* A request's process, if it waits, has made that very call.
LEMMA LiveRequest ==
  ASSUME DInv, WorkerInv, NEW t \in Threads, inflight[t] # NoRequest
  PROVE  LET r == inflight[t]  p == worker[r.from] IN
         /\ RequestOK(r) /\ r.from \in Workers /\ p \in Processes /\ ProcessOK(p)
         /\ RequestSteady(r, p, workflows, clock)
         /\ ProcessSteady(r.from, p, workflows, clock)
         /\ r.live => p.pc = "await" /\ p.call = r.call /\ p.wf = r.wf
BY DeploymentTypes DEF RequestOK, WorkerInv, DInv, AnswersMatch

LEMMA NoWorkSteady ==
  ASSUME DInv, DInv', WorkerInv, NEW t \in Threads, Handles(t, "acquire"),
         Answer(t, None), UNCHANGED vars
  PROVE  WorkerInv'
<1> DEFINE r == inflight[t]
           p == worker[r.from]
<1>1. r # NoRequest /\ r.call.op = "acquire"
  BY DEF Handles, NoRequest, NoCall, Call
<1>2. r.from \in Workers /\ clock \in Nat
  BY <1>1, LiveRequest, DeploymentTypes
<1>3. r.live => Resume(p, None) = NotRunning("exited")
  <2>1. r.live => p.call.op = "acquire"
    BY <1>1, LiveRequest
  <2> QED
    BY <2>1 DEF Resume
<1>4. /\ \A w \in Workflows : RowSteady(workflows'[w], CompletedSteps(w)')
      /\ ClientsSteady(workflows', clock') /\ workflows' = workflows /\ clock' = clock
      /\ OneBeliever
  BY RowsStay, WorkerInvParts
<1>5. r.live => /\ Resume(p, None) \in Processes
                /\ ProcessSteady(r.from, Resume(p, None), workflows', clock')
                /\ Believed(r.from, Resume(p, None))
  BY <1>2, <1>3, <1>4, EndSteady
<1> QED
  BY <1>1, <1>4, <1>5, AnswerSteady

\* The lease is granted; nobody had a lease that was live.
LEMMA LeaseSteady ==
  ASSUME DInv, DInv', WorkerInv, NEW t \in Threads, Handles(t, "acquire"),
         inflight[t].got = None, NEW w \in Workflows,
         NEW now \in Nat, now <= clock, inflight[t].sent <= now,
         LeaseTo(w, inflight[t].from, inflight[t].call.arg, now),
         inflight' = [inflight EXCEPT ![t].got = w], UNCHANGED worker
  PROVE  WorkerInv'
<1> DEFINE r == inflight[t]
           p == worker[r.from]
           d == r.call.arg
           row == Taken(workflows[w], r.from, now + d)
<1>1. r # NoRequest /\ r.call.op = "acquire"
  BY DEF Handles, NoRequest, NoCall, Call
<1>2. /\ RequestOK(r) /\ r.from \in Workers /\ p \in Processes
      /\ RequestSteady(r, p, workflows, clock) /\ d \in Nat /\ r.sent \in Nat
      /\ p.since \in Nat /\ now + d \in Nat /\ clock \in Nat
  BY <1>1, LiveRequest, DeploymentTypes DEF RequestOK, Calls, Processes
<1>3. workflows' = [workflows EXCEPT ![w] = row] /\ Eligible(w, now)
  BY DEF LeaseTo, Oldest
<1>4. /\ row.status = "RUNNING" /\ row.owner = r.from /\ row.expires = now + d
      /\ row.cursor = workflows[w].cursor
  BY <1>2, DeploymentTypes DEF Taken, WorkflowRow
<1>5. workflows'[w] = row /\ \A v \in Workflows \ {w} : workflows'[v] = workflows[v]
  BY <1>3 DEF DInv, IInv, TypeOK
<1>6. clock' = clock /\ \A v \in Workflows : CompletedSteps(v)' = CompletedSteps(v)
  BY DEF LeaseTo, notLeases, CompletedSteps
<1> HIDE DEF row
<1>7. \A v \in Workflows : /\ RowSteady(workflows'[v], CompletedSteps(v)')
                           /\ workflows'[v].cursor >= workflows[v].cursor
  BY <1>4, <1>5, <1>6, DeploymentTypes DEF WorkerInv, RowSteady
<1>8. \A v \in Workflows, k \in Workers, u \in Nat :
        clock < u /\ Kept(workflows[v], k, u) => Kept(workflows'[v], k, u)
  BY <1>3, <1>5, KeptNotEligible DEF DInv
<1>10. ClientsSteady(workflows', clock')
  <2>1. clock <= clock'
    BY <1>2, <1>6
  <2> QED
    BY <1>7, <1>8, <2>1, RowsMove
<1> DEFINE s == [r EXCEPT !.got = w]
<1>11. inflight'[t] = s /\ \A u \in Threads \ {t} : inflight'[u] = inflight[u]
  BY DEF DInv, ClientTypeOK
<1>12. s.got = w /\ s.call = r.call /\ s.from = r.from /\ s.live = r.live /\ s.sent = r.sent
  BY <1>2 DEF RequestOK
<1> HIDE DEF s
<1>13. RequestSteady(s, p, workflows', clock')
  <2>1. r.live => p.since <= r.sent
    BY <1>2 DEF RequestSteady
  <2>2. r.live => Kept(row, r.from, p.since + d)
    BY <1>2, <1>4, <2>1 DEF Kept, Held
  <2> QED
    BY <1>1, <1>5, <1>12, <2>1, <2>2 DEF RequestSteady
<1>14. \A u \in Threads : inflight'[u] # NoRequest =>
         RequestSteady(inflight'[u], worker[inflight'[u].from], workflows', clock')
  BY <1>10, <1>11, <1>12, <1>13 DEF ClientsSteady
<1>15. \A k \in Workers : ~Believes(k, w)
  <2> SUFFICES ASSUME NEW k \in Workers, Believes(k, w) PROVE FALSE
    OBVIOUS
  <2>1. CASE Working(k, w)
    <3>1. /\ worker[k].wf = w /\ worker[k].todo = "step"
          /\ worker[k].next <= LastStep /\ clock < worker[k].until
      BY <2>1 DEF Working
    <3>2. Kept(workflows[w], k, worker[k].until) /\ worker[k].until \in Nat
      BY <3>1, DeploymentTypes DEF WorkerInv, ProcessSteady, Processes
    <3> QED
      BY <1>2, <1>3, <3>1, <3>2, KeptNotEligible DEF DInv
  <2>2. CASE ~Working(k, w)
    <3>1. PICK u \in Threads :
            /\ inflight[u].live /\ inflight[u].from = k /\ inflight[u].got = w
            /\ clock < worker[k].since + inflight[u].call.arg
      BY <2>2 DEF Believes
    <3>2. inflight[u] # NoRequest
      BY <3>1 DEF NoRequest
    <3> DEFINE until == worker[k].since + inflight[u].call.arg
    <3>3. Kept(workflows[w], k, until)
      BY <3>1, <3>2, NoneAssumption DEF WorkerInv, RequestSteady
    <3>4. until \in Nat
      BY <3>2, DeploymentTypes DEF Processes, RequestOK, Calls
    <3> HIDE DEF until
    <3>5. clock < until
      BY <3>1 DEF until
    <3> QED
      BY <1>2, <1>3, <3>3, <3>4, <3>5, KeptNotEligible DEF DInv
  <2> QED
    BY <2>1, <2>2
<1>16. OneBeliever'
  <2>1. ASSUME NEW v \in Workflows, NEW k \in Workers, Believes(k, v)'
        PROVE  IF v = w THEN k = r.from ELSE Believes(k, v)
    <3>1. CASE Working(k, v)'
      <4>1. Working(k, v)
        BY <1>6, <3>1 DEF Working
      <4> QED
        BY <1>15, <4>1 DEF Believes
    <3>2. CASE ~Working(k, v)'
      <4>1. PICK u \in Threads :
              /\ inflight'[u].live /\ inflight'[u].from = k /\ inflight'[u].got = v
              /\ clock < worker[k].since + inflight'[u].call.arg
        BY <1>6, <2>1, <3>2 DEF Believes
      <4>2. CASE u = t
        BY <1>11, <1>12, <4>1, <4>2
      <4>3. CASE u # t
        <5>1. Believes(k, v)
          BY <1>11, <4>1, <4>3 DEF Believes
        <5> QED
          BY <1>15, <5>1
      <4> QED
        BY <4>2, <4>3
    <3> QED
      BY <3>1, <3>2
  <2>2. OneBeliever
    BY DEF WorkerInv
  <2>3. ASSUME NEW v \in Workflows, NEW j \in Workers, NEW k \in Workers,
               Believes(j, v)', Believes(k, v)'
        PROVE  j = k
    BY <2>1, <2>2, <2>3 DEF OneBeliever
  <2> QED
    BY <2>3 DEF OneBeliever
<1> QED
  BY <1>7, <1>10, <1>14, <1>16 DEF WorkerInv, ClientsSteady

\* The row that ends AcquireLease is read: the process reckons with a lease
\* that is at most as long as the one it has, if it has it still.
LEMMA AcquiredSteady ==
  ASSUME DInv, DInv', WorkerInv, NEW t \in Threads, HandleAcquired(t)
  PROVE  WorkerInv'
<1> DEFINE r == inflight[t]
           p == worker[r.from]
           w == r.got
           value == [wf |-> w, cursor |-> workflows[w].cursor]
           q == Acquired(p, w, workflows[w].cursor)
<1>1. r # NoRequest /\ r.got # None
  BY DEF HandleAcquired, NoRequest
<1>2. /\ RequestOK(r) /\ r.from \in Workers /\ p \in Processes /\ ProcessOK(p)
      /\ RequestSteady(r, p, workflows, clock) /\ w \in Workflows /\ r.call.op = "acquire"
      /\ ProcessSteady(r.from, p, workflows, clock) /\ r.call.arg \in Nat
      /\ r.live => p.pc = "await" /\ p.call = r.call
      /\ r.live => p.todo = "acquire" /\ p.next <= 1
      /\ p.since \in Nat /\ clock \in Nat /\ workflows[w].cursor \in Nat /\ p.next \in Nat
  BY <1>1, LiveRequest, DeploymentTypes DEF RequestOK, Calls, Processes, ProcessSteady
<1>3. /\ \A v \in Workflows : RowSteady(workflows'[v], CompletedSteps(v)')
      /\ ClientsSteady(workflows', clock') /\ workflows' = workflows /\ clock' = clock
      /\ OneBeliever
  BY RowsStay, WorkerInvParts DEF HandleAcquired
<1>4. ASSUME r.live, value # None
      PROVE  /\ Resume(p, value) \in Processes
             /\ ProcessSteady(r.from, Resume(p, value), workflows', clock')
             /\ Believed(r.from, Resume(p, value))
  <2>1. p.pc = "await" /\ p.call.op = "acquire" /\ value # None
    BY <1>1, <1>2, <1>4
  <2>2. Resume(p, value) = q
    <3>1. q = Acquired(p, value.wf, value.cursor)
      OBVIOUS
    <3> HIDE DEF q, p, value
    <3> QED
      BY <2>1, <3>1 DEF Resume
  <2>3. ValueOK(p.call.op, value)
    BY <1>2, <2>1 DEF ValueOK
  <2> HIDE DEF value
  <2>4. q \in Processes
    BY <1>2, <2>1, <2>2, <2>3, ResumeOK DEF ProcessOK
  <2>5. /\ q.pc = "decide" /\ q.todo = "step" /\ q.wf = w
        /\ q.next = IF p.next = 0 THEN workflows[w].cursor + 1 ELSE p.next
        /\ q.since = p.since /\ q.until = p.since + p.call.arg
    BY <1>2 DEF Acquired, Processes
  <2> HIDE DEF q
  <2>9. q.next <= workflows[w].cursor + 1
    BY <1>2, <1>4, <2>5
  <2>6. clock < q.until => Kept(workflows[w], r.from, q.until)
    BY <1>1, <1>2, <1>4, <2>5 DEF RequestSteady
  <2>7. ProcessSteady(r.from, q, workflows, clock)
    BY <1>2, <2>5, <2>6, <2>9 DEF ProcessSteady
  <2>8. Believed(r.from, q)
    BY <1>2, <1>4, <2>5 DEF Believed, Believes
  <2> QED
    BY <1>3, <2>2, <2>4, <2>7, <2>8
<1>5. ASSUME r.live, value = None
      PROVE  /\ Resume(p, value) \in Processes
             /\ ProcessSteady(r.from, Resume(p, value), workflows', clock')
             /\ Believed(r.from, Resume(p, value))
  <2>1. p.call.op = "acquire"
    BY <1>2, <1>5
  <2> HIDE DEF value
  <2>2. Resume(p, value) = NotRunning("exited")
    BY <1>5, <2>1 DEF Resume
  <2> QED
    BY <1>2, <1>3, <2>2, EndSteady
<1>6. Answer(t, value)
  BY DEF HandleAcquired
<1> HIDE DEF value, q
<1> QED
  BY <1>1, <1>3, <1>4, <1>5, <1>6, AnswerSteady

\* A checkpoint: the first step that is not complete, by the process that is
\* at it or by an attempt that it or another process gave up.
LEMMA CompletedSteady ==
  ASSUME DInv, DInv', WorkerInv, NEW t \in Threads, Handles(t, "complete"),
         CompleteStep(inflight[t].wf, inflight[t].from, inflight[t].call.arg),
         Answer(t, TRUE)
  PROVE  WorkerInv'
<1> DEFINE r == inflight[t]
           p == worker[r.from]
           s == r.call.arg
<1>1. r # NoRequest /\ r.call.op = "complete"
  BY DEF Handles, NoRequest, NoCall, Call
<1>2. /\ RequestOK(r) /\ r.from \in Workers /\ p \in Processes /\ ProcessOK(p)
      /\ RequestSteady(r, p, workflows, clock)
      /\ ProcessSteady(r.from, p, workflows, clock)
      /\ r.live => p.pc = "await" /\ p.call = r.call /\ p.wf = r.wf
  BY <1>1, LiveRequest
<1>0. PICK w \in Workflows : w = r.wf
  BY <1>1, <1>2 DEF RequestOK, CallOK
<1> DEFINE row == workflows[w]
           done == CompletedSteps(w)
<1>3. /\ w \in Workflows /\ s \in 1..LastStep /\ s <= row.cursor + 1 /\ clock \in Nat
      /\ row \in WorkflowRow /\ row.cursor \in Nat /\ done \subseteq 1..LastStep
      /\ RowSteady(row, done) /\ RowConsistent(row)
  <2>1. w \in Workflows /\ s \in StepNumbers /\ s <= row.cursor + 1
    BY <1>0, <1>1, <1>2 DEF RequestOK, CallOK, RequestSteady
  <2> QED
    BY <2>1, DeploymentTypes, ProgramAssumption
       DEF WorkerInv, DInv, IInv, LeaseConsistent
<1>4. /\ workflows'[w] = Advanced(row) /\ row.owner = r.from /\ clock' = clock
      /\ \A v \in Workflows \ {w} : workflows'[v] = workflows[v]
      /\ steps' = [steps EXCEPT ![w][s] = "COMPLETED"] /\ steps[w][s] # "COMPLETED"
  BY <1>0, <1>3 DEF CompleteStep, HoldsLease, notSteps, DInv, IInv, TypeOK
<1>5. CompletedSteps(w)' = done \cup {s} /\ s \notin done
  <2>1. s \in StepNumbers
    BY <1>3, ProgramAssumption
  <2>2. \A x \in StepNumbers :
          steps'[w][x] = IF x = s THEN "COMPLETED" ELSE steps[w][x]
    BY <1>3, <1>4 DEF DInv, IInv, TypeOK
  <2> QED
    BY <1>4, <2>1, <2>2 DEF CompletedSteps
<1>6. \A v \in Workflows \ {w} : CompletedSteps(v)' = CompletedSteps(v)
  BY <1>3, <1>4 DEF DInv, IInv, TypeOK, CompletedSteps
<1>7. LET new == Advanced(row) IN
      /\ new.cursor = row.cursor + 1 /\ new.status = row.status
      /\ new.owner = row.owner /\ new.expires = row.expires
  BY <1>3 DEF Advanced, WorkflowRow
<1>8. row.status \in Leased
  BY <1>2, <1>3, <1>4, NoneAssumption DEF RowConsistent
<1> HIDE DEF row, done, s
<1>9. s = row.cursor + 1
  BY <1>3, <1>5 DEF RowSteady
<1>10. RowSteady(workflows'[w], CompletedSteps(w)')
  <2>1. CompletedSteps(w)' = 1..(row.cursor + 1)
    BY <1>3, <1>5, <1>9 DEF RowSteady
  <2> QED
    BY <1>4, <1>7, <1>8, <2>1 DEF RowSteady, Leased
<1>11. \A v \in Workflows :
         /\ RowSteady(workflows'[v], CompletedSteps(v)')
         /\ workflows'[v].cursor >= workflows[v].cursor
         /\ \A k, u : Kept(workflows[v], k, u) => Kept(workflows'[v], k, u)
  <2> SUFFICES ASSUME NEW v \in Workflows
               PROVE  /\ RowSteady(workflows'[v], CompletedSteps(v)')
                      /\ workflows'[v].cursor >= workflows[v].cursor
                      /\ \A k, u : Kept(workflows[v], k, u) => Kept(workflows'[v], k, u)
    OBVIOUS
  <2>1. CASE v = w
    <3>1. workflows'[w].cursor >= row.cursor
      BY <1>3, <1>4, <1>7
    <3>2. \A k, u : Kept(row, k, u) => Kept(workflows'[w], k, u)
      BY <1>4, <1>7 DEF Kept, Held
    <3> QED
      BY <1>10, <2>1, <3>1, <3>2 DEF row
  <2>2. CASE v # w
    BY <1>4, <1>6, <2>2, DeploymentTypes DEF WorkerInv
  <2> QED
    BY <2>1, <2>2
<1>13. ClientsSteady(workflows', clock')
  <2>1. clock <= clock'
    BY <1>3, <1>4
  <2> QED
    BY <1>11, <2>1, RowsMove
<1>14. ASSUME r.live
       PROVE  LET q == Resume(p, TRUE) IN
              /\ q \in Processes
              /\ ProcessSteady(r.from, q, workflows', clock')
              /\ Believed(r.from, q)
  <2> DEFINE q == Resume(p, TRUE)
  <2>1. /\ p.pc = "await" /\ p.call.op = "complete" /\ p.todo = "step"
        /\ p.wf = w /\ p.next = s
    BY <1>0, <1>1, <1>2, <1>14 DEF ProcessSteady, s
  <2>2. q = [p EXCEPT !.pc = "decide", !.next = @ + 1]
    BY <2>1 DEF Resume
  <2>3. q \in Processes
    BY <1>2, <2>1, ResumeOK DEF ValueOK, ProcessOK
  <2>4. /\ q.pc = "decide" /\ q.todo = "step" /\ q.wf = w /\ q.next = s + 1
        /\ q.since = p.since /\ q.until = p.until
    BY <1>2, <2>1, <2>2 DEF Processes
  <2> HIDE DEF q
  <2>5. p.since <= clock /\ p.next <= LastStep
    BY <1>2, <1>3, <2>1 DEF ProcessSteady
  <2>6. clock < p.until => Kept(workflows'[w], r.from, p.until)
    BY <1>2, <1>3, <1>11, <2>1, <2>5 DEF ProcessSteady
  <2>7. q.next <= workflows'[w].cursor + 1
    BY <1>3, <1>4, <1>7, <1>9, <2>4
  <2>8. ProcessSteady(r.from, q, workflows', clock')
    BY <1>3, <1>4, <2>4, <2>5, <2>6, <2>7 DEF ProcessSteady
  <2>9. Believed(r.from, q)
    BY <2>1, <2>4, <2>5 DEF Believed, Believes, Working
  <2> QED
    BY <2>3, <2>8, <2>9 DEF q
<1> QED
  BY <1>1, <1>4, <1>11, <1>13, <1>14, AnswerSteady DEF WorkerInv

\* A workflow is finished after its last step, perhaps by an old request of an
\* owner who runs steps again that it has.
LEMMA FinishedSteady ==
  ASSUME DInv, DInv', WorkerInv, NEW t \in Threads, Handles(t, "finish"),
         CompleteWorkflow(inflight[t].wf, inflight[t].from), Answer(t, TRUE)
  PROVE  WorkerInv'
<1> DEFINE r == inflight[t]
           p == worker[r.from]
<1>1. r # NoRequest /\ r.call.op = "finish"
  BY DEF Handles, NoRequest, NoCall, Call
<1>2. /\ RequestOK(r) /\ r.from \in Workers /\ p \in Processes /\ ProcessOK(p)
      /\ RequestSteady(r, p, workflows, clock)
      /\ r.live => p.pc = "await" /\ p.call = r.call /\ p.wf = r.wf
  BY <1>1, LiveRequest
<1>3. PICK w \in Workflows : w = r.wf
  BY <1>1, <1>2 DEF RequestOK, CallOK
<1> DEFINE row == workflows[w]
           new == Closed(row, "COMPLETED")
<1>4. row.cursor = LastStep
  BY <1>1, <1>2, <1>3 DEF RequestSteady
<1>5. /\ workflows'[w] = new /\ row.owner = r.from /\ clock' = clock
      /\ \A v \in Workflows \ {w} : workflows'[v] = workflows[v]
      /\ \A v \in Workflows : CompletedSteps(v)' = CompletedSteps(v)
  BY <1>3 DEF CompleteWorkflow, RunningFor, notLeases, DInv, IInv, TypeOK, CompletedSteps
<1>6. new.cursor = row.cursor /\ new.status = "COMPLETED"
  BY DeploymentTypes DEF Closed, WorkflowRow
<1> HIDE DEF new
<1>7. \A v \in Workflows : /\ RowSteady(workflows'[v], CompletedSteps(v)')
                           /\ workflows'[v].cursor >= workflows[v].cursor
  BY <1>4, <1>5, <1>6, DeploymentTypes DEF WorkerInv, RowSteady
<1>8. \A v \in Workflows, k \in Workers, u \in Nat :
        clock < u /\ Kept(workflows[v], k, u) => Kept(workflows'[v], k, u)
  BY <1>5, <1>6 DEF Kept
<1>10. ClientsSteady(workflows', clock') /\ clock \in Nat
  <2>1. clock <= clock' /\ clock \in Nat
    BY <1>5, DeploymentTypes
  <2> QED
    BY <1>7, <1>8, <2>1, RowsMove
<1>11. ASSUME r.live
       PROVE  LET q == Resume(p, TRUE) IN
              /\ q \in Processes
              /\ ProcessSteady(r.from, q, workflows', clock')
              /\ Believed(r.from, q)
  <2>1. Resume(p, TRUE) = NotRunning("exited")
    BY <1>1, <1>2, <1>11 DEF Resume
  <2> QED
    BY <1>2, <1>5, <1>10, <2>1, EndSteady
<1> QED
  BY <1>1, <1>5, <1>7, <1>10, <1>11, AnswerSteady DEF WorkerInv

-----------------------------------------------------------------------------
(* What is not the workers' doing *)

\* The clients stay where no cursor goes back and no live lease ends.
LEMMA OthersSteady ==
  ASSUME DInv, DInv', WorkerInv, UNCHANGED client, clock <= clock', steps' = steps,
         \A w \in Workflows :
           /\ workflows'[w].cursor = workflows[w].cursor
           /\ workflows'[w].status \in {"ABSENT", "COMPLETED"} =>
                workflows'[w].status = workflows[w].status
           /\ \A k \in Workers, u \in Nat :
                clock < u /\ Held(workflows[w], k, u) => Held(workflows'[w], k, u)
           /\ workflows[w].status = "COMPLETED" => workflows'[w].status = "COMPLETED"
  PROVE  WorkerInv'
<1>1. \A w \in Workflows : CompletedSteps(w)' = CompletedSteps(w)
  BY DEF CompletedSteps
<1>2. \A w \in Workflows : /\ RowSteady(workflows'[w], CompletedSteps(w)')
                           /\ workflows'[w].cursor >= workflows[w].cursor
  BY <1>1, DeploymentTypes DEF WorkerInv, RowSteady
<1>3. \A w \in Workflows, k \in Workers, u \in Nat :
        clock < u /\ Kept(workflows[w], k, u) => Kept(workflows'[w], k, u)
  BY DEF Kept
<1>4. ClientsSteady(workflows', clock')
  BY <1>2, <1>3, RowsMove
<1>5. OneBeliever'
  <2>1. worker' = worker /\ inflight' = inflight /\ OneBeliever
    BY DEF client, WorkerInv
  <2> QED
    BY <2>1, Itself, BelieversStay
<1> QED
  BY <1>2, <1>4, <1>5 DEF WorkerInv, ClientsSteady, client

LEMMA EnvironmentSteady ==
  ASSUME DInv, DInv', WorkerInv, Environment
  PROVE  WorkerInv'
<1>1. UNCHANGED client /\ clock \in Nat
  BY DeploymentTypes DEF Environment
<1>2. ASSUME workflows' = workflows, steps' = steps, clock <= clock'
      PROVE  WorkerInv'
  BY <1>1, <1>2, OthersSteady
<1>3. ASSUME NEW w \in Workflows, CreateWorkflow(w)
      PROVE  WorkerInv'
  <2>1. PICK now \in Nows : workflows' = [workflows EXCEPT ![w] = Created(now)]
    BY <1>3 DEF CreateWorkflow
  <2>2. /\ workflows'[w] = Created(now) /\ clock' = clock /\ steps' = steps
        /\ \A v \in Workflows \ {w} : workflows'[v] = workflows[v]
    BY <1>3, <2>1 DEF CreateWorkflow, notLeases, DInv, IInv, TypeOK
  <2>3. workflows[w].status = "ABSENT" /\ workflows[w].cursor = 0
    BY <1>3 DEF CreateWorkflow, Exists, WorkerInv, RowSteady
  <2>4. Created(now).cursor = 0 /\ Created(now).status = "QUEUED"
    BY DEF Created
  <2>5. clock <= clock'
    BY <1>1, <2>2
  <2> QED
    BY <1>1, <2>2, <2>3, <2>4, <2>5, OthersSteady DEF Held
<1>4. ASSUME TickStart \/ PassSecond
      PROVE  WorkerInv'
  BY <1>1, <1>2, <1>4 DEF TickStart, PassSecond, notTimers, tables
<1>5. \A w \in Workflows :
        /\ Requeued(workflows[w]).cursor = workflows[w].cursor
        /\ Requeued(workflows[w]).status = "QUEUED"
  BY DeploymentTypes DEF Requeued, WorkflowRow
<1>6. ASSUME FireExpiredTimers
      PROVE  WorkerInv'
  <2>1. /\ clock' = clock /\ steps' = steps
        /\ \A w \in Workflows :
             \/ workflows'[w] = workflows[w]
             \/ workflows'[w] = Requeued(workflows[w]) /\ workflows[w].status = "WAITING"
    BY <1>6 DEF FireExpiredTimers, TimersToFire, notTimers
  <2>2. clock <= clock'
    BY <1>1, <2>1
  <2> QED
    BY <1>1, <1>5, <2>1, <2>2, OthersSteady DEF Held
<1>7. ASSUME ExpireLeases
      PROVE  WorkerInv'
  <2>1. /\ clock' = clock /\ steps' = steps
        /\ \A w \in Workflows :
             \/ workflows'[w] = workflows[w]
             \/ /\ workflows'[w] = Requeued(workflows[w])
                /\ Expired(w, sched.now)
    BY <1>7 DEF ExpireLeases, notTimers
  <2>2. sched.now \in Nat /\ sched.now <= clock /\ clock <= clock'
    BY <1>1, <2>1 DEF DInv, IInv, TypeOK, SchedulerStates, SchedulerBehind
  <2>3. ASSUME NEW w \in Workflows, NEW k \in Workers, NEW u \in Nat, clock < u,
               Held(workflows[w], k, u)
        PROVE  workflows'[w] = workflows[w]
    BY <2>1, <2>2, <2>3, HeldNotEligible DEF DInv
  <2>4. \A w \in Workflows : workflows[w].status = "COMPLETED" => workflows'[w] = workflows[w]
    BY <2>1, CompletedNotExpired DEF DInv
  <2> QED
    BY <1>1, <1>5, <2>1, <2>2, <2>3, <2>4, OthersSteady
<1> QED
  BY <1>3, <1>4, <1>6, <1>7 DEF Environment, SchedulerStep

-----------------------------------------------------------------------------
(* The composition *)

LEMMA WorkerInitInv == DeploymentInit => WorkerInv
<1> SUFFICES ASSUME DeploymentInit PROVE WorkerInv
  OBVIOUS
<1>1. \A w \in Workflows : RowSteady(workflows[w], CompletedSteps(w))
  BY DEF DeploymentInit, Init, NoWorkflow, CompletedSteps, RowSteady
<1>2. \A k \in Workers : ProcessSteady(k, worker[k], workflows, clock)
  <2>1. clock \in Nat
    BY DEF DeploymentInit, Init
  <2> QED
    BY <2>1, NotRunningSteady DEF DeploymentInit, ClientInit
<1>3. OneBeliever
  BY DEF DeploymentInit, ClientInit, OneBeliever, Believes, Working, NotRunning, NoRequest
<1> QED
  BY <1>1, <1>2, <1>3 DEF DeploymentInit, ClientInit, WorkerInv

LEMMA WorkerStep ==
  ASSUME StepsFail = FALSE, DInv, DInv', WorkerInv, [DeploymentNext]_allVars
  PROVE  WorkerInv'
<1>1. ASSUME NEW k \in Workers,
             Start(k) \/ GoOn(k) \/ FetchAgain(k) \/ Timeout(k) \/ Kill(k)
      PROVE  WorkerInv'
  <2>1. CASE Timeout(k)
    BY <2>1, AbandonSteady DEF Timeout
  <2>2. CASE Kill(k)
    BY <2>2, AbandonSteady DEF Kill
  <2> QED
    BY <1>1, <2>1, <2>2, StartSteady, GoOnSteady, FetchAgainSteady
<1>2. ASSUME NEW t \in Threads, inflight[t] # NoRequest, Refuse(t) \/ Lose(t)
      PROVE  WorkerInv'
  BY <1>2, LostSteady DEF Refuse, Lose
<1>3. ASSUME NEW t \in Threads, HandleAcquire(t)
      PROVE  WorkerInv'
  <2>1. Handles(t, "acquire") /\ inflight[t].got = None
    BY <1>3 DEF HandleAcquire
  <2>2. PICK now \in {n \in Nows : n >= inflight[t].sent} :
          \/ /\ \E w \in Workflows :
                  /\ LeaseTo(w, inflight[t].from, inflight[t].call.arg, now)
                  /\ inflight' = [inflight EXCEPT ![t].got = w]
             /\ UNCHANGED worker
          \/ Answer(t, None) /\ UNCHANGED vars
    BY <1>3 DEF HandleAcquire
  <2>3. now \in Nat /\ now <= clock /\ inflight[t].sent <= now
    <3>1. inflight[t].sent \in Nat /\ clock \in Nat
      BY <2>1, DeploymentTypes DEF Handles, NoRequest, NoCall, Call, RequestOK
    <3> QED
      BY <3>1 DEF Nows
  <2> QED
    BY <2>1, <2>2, <2>3, LeaseSteady, NoWorkSteady
<1>4. ASSUME NEW t \in Threads, HandleAcquired(t)
      PROVE  WorkerInv'
  BY <1>4, AcquiredSteady
<1>5. ASSUME NEW t \in Threads, HandleComplete(t) \/ HandleFinish(t)
      PROVE  WorkerInv'
  <2>1. inflight[t] # NoRequest
    <3>1. inflight[t].call.op \in {"complete", "finish"}
      BY <1>5 DEF HandleComplete, HandleFinish, Handles
    <3> QED
      BY <3>1 DEF NoRequest, NoCall, Call
  <2> QED
    BY <1>2, <1>5, <2>1, CompletedSteady, FinishedSteady
       DEF HandleComplete, HandleFinish
<1>6. ASSUME NEW t \in Threads, HandleFail(t) \/ HandleRetry(t) \/ HandleGiveUp(t)
      PROVE  FALSE
  <2>1. inflight[t].call.op \in {"fail", "retry", "giveup"}
    BY <1>6 DEF HandleFail, HandleRetry, HandleGiveUp, Handles
  <2>2. inflight[t] # NoRequest
    BY <2>1 DEF NoRequest, NoCall, Call
  <2> QED
    BY <2>1, <2>2 DEF WorkerInv, RequestSteady
<1>7. ASSUME NEW t \in Threads, Lose(t)
      PROVE  WorkerInv'
  BY <1>2, <1>7 DEF Lose
<1>8. ASSUME UNCHANGED allVars
      PROVE  WorkerInv'
  <2>1. clock' = clock /\ clock <= clock' /\ UNCHANGED client /\ steps' = steps
          /\ workflows' = workflows
    <3>1. clock \in Nat
      BY DeploymentTypes
    <3> QED
      BY <1>8, <3>1 DEF allVars, vars, client
  <2> QED
    BY <2>1, OthersSteady
<1> QED
  BY <1>1, <1>3, <1>4, <1>5, <1>6, <1>7, <1>8, ServerCrashSteady, EnvironmentSteady
     DEF DeploymentNext

LEMMA WorkerInvariance ==
  ASSUME StepsFail = FALSE
  PROVE  DeploymentSpec => [](DInv /\ WorkerInv)
<1>1. DeploymentInit => DInv /\ WorkerInv
  BY DeploymentInitInv, WorkerInitInv
<1>2. DInv /\ WorkerInv /\ [DeploymentNext]_allVars => DInv' /\ WorkerInv'
  <2> SUFFICES ASSUME DInv, WorkerInv, [DeploymentNext]_allVars
               PROVE  DInv' /\ WorkerInv'
    OBVIOUS
  <2>1. DInv'
    BY DeploymentStep
  <2> QED
    BY <2>1, WorkerStep
<1> QED
  BY <1>1, <1>2, PTL DEF DeploymentSpec

\* Where no step fails, no process is further than one step after the cursor,
\* and no request, however old, completes a step beyond it or finishes a
\* workflow that has steps left: the invariant behind the next three theorems
\* (src/step.go CompleteStep with sdks/typescript/src/index.ts request).
THEOREM WorkersStaySteady ==
  ASSUME StepsFail = FALSE
  PROVE  DeploymentSpec => []WorkerInv
BY WorkerInvariance, PTL

\* Where no step fails, the completed steps of a workflow are its first
\* current_step ones, and a COMPLETED workflow has completed them all, though
\* answers are lost, calls repeated, attempts handled late, leases lost and
\* worker processes killed (src/step.go CompleteStep with the worker program).
THEOREM CheckpointsArePrefix ==
  ASSUME StepsFail = FALSE
  PROVE  DeploymentSpec => []CursorIsPrefix
<1>1. WorkerInv => CursorIsPrefix
  BY DEF WorkerInv, RowSteady, CursorIsPrefix
<1> QED
  BY <1>1, WorkerInvariance, PTL

\* Where no step fails, no two processes that may both believe that their
\* lease is live work on one workflow (src/workflow.go AcquireLease).
THEOREM OneWorkerAtATime ==
  ASSUME StepsFail = FALSE
  PROVE  DeploymentSpec => []OneWorker
<1>1. WorkerInv => OneWorker
  BY DEF WorkerInv, OneBeliever, OneWorker, Believes
<1> QED
  BY <1>1, WorkerInvariance, PTL

\* Where no step fails, a COMPLETED workflow has run each of its steps.
THEOREM NoneSkipped ==
  ASSUME StepsFail = FALSE
  PROVE  DeploymentSpec => []NoStepSkipped
<1>1. CursorIsPrefix => NoStepSkipped
  <2> SUFFICES ASSUME CursorIsPrefix, NEW w \in Workflows,
                      workflows[w].status = "COMPLETED", NEW s \in 1..LastStep
               PROVE  steps[w][s] # "ABSENT"
    BY DEF NoStepSkipped
  <2>1. s \in CompletedSteps(w)
    BY DEF CursorIsPrefix
  <2> QED
    BY <2>1 DEF CompletedSteps
<1> QED
  BY <1>1, CheckpointsArePrefix, PTL

-----------------------------------------------------------------------------
(* Where steps may fail, but no call is repeated and no id is used again *)

\* Worker k gets no workflow, loses no live lease, and the cursors of the
\* workflows it owns stay.
Undisturbed(k, old, new, now) ==
  \A w \in Workflows :
    /\ new[w].owner = k => old[w].owner = k /\ new[w].cursor = old[w].cursor
    /\ \A u \in Nat : now < u /\ Held(old[w], k, u) => Held(new[w], k, u)

\* The workflow whose steps a process runs.
LEMMA StepWorkflow ==
  ASSUME NEW k, NEW p, ProcessOK(p), NEW rows, NEW now, ProcessOwning(k, p, rows, now),
         p.todo = "step"
  PROVE  p.wf \in Workflows /\ p.pc \in {"decide", "await"}
<1>1. p.pc \in PCs
  BY DEF ProcessOK, Processes
<1>2. p.pc \in {"decide", "await"}
  BY <1>1 DEF ProcessOwning, PCs
<1>3. p.pc = "await" => p.wf \in Workflows
  BY DEF ProcessOK, ProcessOwning, CallOK
<1> QED
  BY <1>2, <1>3 DEF ProcessOK

LEMMA ProcessUndisturbed ==
  ASSUME NEW k \in Workers, NEW p, ProcessOK(p), NEW rows, NEW new,
         NEW now \in Nat, NEW later \in Nat, now <= later,
         ProcessOwning(k, p, rows, now), Undisturbed(k, rows, new, now)
  PROVE  ProcessOwning(k, p, new, later)
<1>1. p.since \in Nat /\ p.next \in Nat /\ p.until \in Nat
  BY DEF ProcessOK, Processes
<1>2. ASSUME p.todo = "step"
      PROVE  /\ FromCursor /\ new[p.wf].owner = k => p.next = new[p.wf].cursor + 1
             /\ p.next <= LastStep /\ later < p.until => Held(new[p.wf], k, p.until)
  <2>1. p.wf \in Workflows
    BY <1>2, StepWorkflow
  <2>2. /\ FromCursor /\ rows[p.wf].owner = k => p.next = rows[p.wf].cursor + 1
        /\ p.next <= LastStep /\ now < p.until => Held(rows[p.wf], k, p.until)
    BY <1>2 DEF ProcessOwning
  <2>3. later < p.until => now < p.until
    BY <1>1
  <2> QED
    BY <1>1, <2>1, <2>2, <2>3 DEF Undisturbed
<1>3. p.since <= later
  BY <1>1 DEF ProcessOwning
<1> QED
  BY <1>2, <1>3 DEF ProcessOwning

LEMMA RequestUndisturbed ==
  ASSUME NEW r, RequestOK(r), NEW p \in Processes, NEW rows, NEW new,
         NEW now \in Nat, NEW later \in Nat, now <= later,
         RequestOwning(r, p, rows, now), Undisturbed(r.from, rows, new, now)
  PROVE  RequestOwning(r, p, new, later)
<1>1. /\ r.call.arg \in Nat /\ p.since \in Nat /\ p.since + r.call.arg \in Nat
      /\ r.call.op \in {"complete", "finish"} => r.wf \in Workflows
      /\ r.got \in Workflows \cup {None}
  BY DEF RequestOK, CallOK, Calls, Processes
<1>2. FromCursor /\ r.call.op = "complete" /\ new[r.wf].owner = r.from =>
        r.call.arg = new[r.wf].cursor + 1
  BY <1>1 DEF RequestOwning, Undisturbed
<1>3. FromCursor /\ r.call.op = "finish" /\ new[r.wf].owner = r.from =>
        new[r.wf].cursor = LastStep
  BY <1>1 DEF RequestOwning, Undisturbed
<1>4. ASSUME r.live, r.got # None, later < p.since + r.call.arg
      PROVE  Held(new[r.got], r.from, p.since + r.call.arg)
  <2>1. now < p.since + r.call.arg
    BY <1>1, <1>4
  <2>2. Held(rows[r.got], r.from, p.since + r.call.arg)
    BY <1>4, <2>1 DEF RequestOwning
  <2> QED
    BY <1>1, <1>4, <2>1, <2>2 DEF Undisturbed
<1> QED
  BY <1>2, <1>3, <1>4 DEF RequestOwning

\* The processes and requests of all workers but k, or of all.
OwningBut(k, rows, now) ==
  /\ \A j \in Workers : j # k => ProcessOwning(j, worker[j], rows, now)
  /\ \A t \in Threads : inflight[t] # NoRequest /\ inflight[t].from # k =>
       RequestOwning(inflight[t], worker[inflight[t].from], rows, now)

\* The tables move and leave all workers but k undisturbed.
LEMMA OthersOwning ==
  ASSUME DInv, DInv', OwnerInv, clock <= clock', NEW k,
         \A j \in Workers : j # k => Undisturbed(j, workflows, workflows', clock)
  PROVE  OwningBut(k, workflows', clock')
<1>1. clock \in Nat /\ clock' \in Nat
  BY BoundAssumption DEF DInv, IInv, TypeOK
<1>2. ASSUME NEW j \in Workers, j # k
      PROVE  ProcessOwning(j, worker[j], workflows', clock')
  <2>1. ProcessOK(worker[j]) /\ ProcessOwning(j, worker[j], workflows, clock)
    BY DeploymentTypes DEF OwnerInv
  <2>2. Undisturbed(j, workflows, workflows', clock)
    BY <1>2
  <2> QED
    BY <1>1, <2>1, <2>2, ProcessUndisturbed
<1>3. ASSUME NEW t \in Threads, inflight[t] # NoRequest, inflight[t].from # k
      PROVE  RequestOwning(inflight[t], worker[inflight[t].from], workflows', clock')
  <2>1. /\ RequestOK(inflight[t]) /\ inflight[t].from \in Workers
        /\ worker[inflight[t].from] \in Processes
    BY <1>3, DeploymentTypes DEF RequestOK
  <2>2. RequestOwning(inflight[t], worker[inflight[t].from], workflows, clock)
    BY <1>3 DEF OwnerInv
  <2>3. Undisturbed(inflight[t].from, workflows, workflows', clock)
    BY <1>3, <2>1
  <2> QED
    BY <1>1, <2>1, <2>2, <2>3, RequestUndisturbed
<1> QED
  BY <1>2, <1>3 DEF OwningBut

\* The clients and the clock's part: the tables stay, or no worker is disturbed.
LEMMA AllOwning ==
  ASSUME DInv, DInv', OwnerInv, clock <= clock', UNCHANGED client,
         \A j \in Workers : Undisturbed(j, workflows, workflows', clock)
  PROVE  /\ \A k \in Workers : ProcessOwning(k, worker'[k], workflows', clock')
         /\ \A t \in Threads : inflight'[t] # NoRequest =>
              RequestOwning(inflight'[t], worker'[inflight'[t].from], workflows', clock')
<1>1. None \notin Workers
  BY NoneAssumption
<1>2. OwningBut(None, workflows', clock')
  BY OthersOwning
<1>3. \A t \in Threads : inflight[t] # NoRequest => inflight[t].from # None
  BY <1>1, DeploymentTypes DEF RequestOK
<1> QED
  BY <1>1, <1>2, <1>3 DEF OwningBut, client

\* What a request that is in flight tells of its process.
LEMMA OwnRequest ==
  ASSUME DInv, OwnerInv, NEW t \in Threads, inflight[t] # NoRequest
  PROVE  LET r == inflight[t]  p == worker[r.from] IN
         /\ RequestOK(r) /\ r.from \in Workers /\ p \in Processes /\ ProcessOK(p)
         /\ RequestOwning(r, p, workflows, clock)
         /\ ProcessOwning(r.from, p, workflows, clock)
         /\ r.live => p.pc = "await" /\ p.call = r.call /\ p.wf = r.wf
         /\ ~r.live => p.pc = "exited" /\ p.todo = "none"
         /\ \A u \in Threads : inflight[u].from = r.from => u = t
<1>1. /\ RequestOK(inflight[t]) /\ inflight[t].from \in Workers
      /\ worker[inflight[t].from] \in Processes /\ ProcessOK(worker[inflight[t].from])
  BY DeploymentTypes DEF RequestOK
<1>2. /\ RequestOwning(inflight[t], worker[inflight[t].from], workflows, clock)
      /\ ProcessOwning(inflight[t].from, worker[inflight[t].from], workflows, clock)
      /\ OneRequest
  BY <1>1 DEF OwnerInv
<1>3. inflight[t].live => /\ worker[inflight[t].from].pc = "await"
                          /\ worker[inflight[t].from].call = inflight[t].call
                          /\ worker[inflight[t].from].wf = inflight[t].wf
  BY DEF DInv, AnswersMatch
<1>4. ~inflight[t].live => /\ worker[inflight[t].from].pc = "exited"
                           /\ worker[inflight[t].from].todo = "none"
  BY <1>2 DEF RequestOwning, ProcessOwning
<1> QED
  BY <1>1, <1>2, <1>3, <1>4 DEF OneRequest

-----------------------------------------------------------------------------
(* Answers and failures *)

LEMMA EndedOwning ==
  ASSUME NEW k, NEW rows, NEW now \in Nat
  PROVE  ProcessOwning(k, NotRunning("exited"), rows, now)
BY DEF NotRunning, ProcessOwning

\* Where the tables and the clock stay, no worker is disturbed.
LEMMA TablesStay ==
  ASSUME DInv, OwnerInv, UNCHANGED vars
  PROVE  /\ clock' = clock /\ clock <= clock'
         /\ \A w \in Workflows : RowOwning(workflows'[w], steps'[w])
         /\ \A j \in Workers : Undisturbed(j, workflows, workflows', clock)
<1>1. clock \in Nat
  BY DeploymentTypes
<1> QED
  BY <1>1 DEF OwnerInv, vars, Undisturbed

\* The call of request t is over, and with it the request.
LEMMA CallOver ==
  ASSUME DInv, DInv', OwnerInv, NEW t \in Threads, inflight[t] # NoRequest,
         \A w \in Workflows : RowOwning(workflows'[w], steps'[w]),
         OwningBut(inflight[t].from, workflows', clock'),
         inflight' = [inflight EXCEPT ![t] = NoRequest],
         \A j \in Workers : j # inflight[t].from => worker'[j] = worker[j],
         ProcessOwning(inflight[t].from, worker'[inflight[t].from], workflows', clock'),
         \A u \in Threads : u # t => thread'[u] = thread[u],
         thread'[t].op # "RetryStep"
  PROVE  OwnerInv'
<1> DEFINE k == inflight[t].from
<1>1. k \in Workers /\ \A u \in Threads : inflight[u].from = k => u = t
  BY OwnRequest
<1>2. inflight'[t] = NoRequest /\ \A u \in Threads \ {t} : inflight'[u] = inflight[u]
  BY DEF DInv, ClientTypeOK
<1>3. OneRequest'
  <2>1. OneRequest /\ NoRequest.from \notin Workers
    BY NoneAssumption DEF OwnerInv, NoRequest
  <2>2. \A u \in Threads : inflight[u] # NoRequest => inflight[u].from \in Workers
    BY DeploymentTypes DEF RequestOK
  <2> QED
    BY <1>2, <2>1, <2>2 DEF OneRequest
<1>4. \A j \in Workers : ProcessOwning(j, worker'[j], workflows', clock')
  BY DEF OwningBut
<1>5. ASSUME NEW u \in Threads, inflight'[u] # NoRequest
      PROVE  RequestOwning(inflight'[u], worker'[inflight'[u].from], workflows', clock')
  <2>1. u # t /\ inflight'[u] = inflight[u] /\ inflight[u].from # k
    BY <1>1, <1>2, <1>5
  <2>2. inflight[u].from \in Workers
    BY <1>5, <2>1, DeploymentTypes DEF RequestOK
  <2> QED
    BY <1>5, <2>1, <2>2 DEF OwningBut
<1> QED
  BY <1>3, <1>4, <1>5 DEF OwnerInv

LEMMA AnswerOwning ==
  ASSUME DInv, DInv', OwnerInv, NEW t \in Threads, inflight[t] # NoRequest,
         clock' = clock, NEW value, Answer(t, value),
         \A w \in Workflows : RowOwning(workflows'[w], steps'[w]),
         \A j \in Workers : j # inflight[t].from =>
           Undisturbed(j, workflows, workflows', clock),
         inflight[t].live =>
           ProcessOwning(inflight[t].from, Resume(worker[inflight[t].from], value),
                         workflows', clock'),
         \A u \in Threads : u # t => thread'[u] = thread[u],
         thread'[t].op # "RetryStep"
  PROVE  OwnerInv'
<1> DEFINE k == inflight[t].from
           q == Resume(worker[k], value)
<1>1. k \in Workers /\ (~inflight[t].live => worker[k].todo = "none" /\ worker[k].pc = "exited")
  BY OwnRequest
<1>2. clock \in Nat /\ clock <= clock'
  BY DeploymentTypes
<1>3. /\ inflight' = [inflight EXCEPT ![t] = NoRequest]
      /\ worker' = IF inflight[t].live THEN [worker EXCEPT ![k] = q] ELSE worker
  BY DEF Answer
<1>4. ~inflight[t].live => ProcessOwning(k, worker[k], workflows', clock')
  BY <1>1 DEF ProcessOwning, OwnerInv
<1> HIDE DEF q
<1>5. /\ \A j \in Workers : j # k => worker'[j] = worker[j]
      /\ worker'[k] = IF inflight[t].live THEN q ELSE worker[k]
  BY <1>1, <1>3 DEF DInv, ClientTypeOK
<1>6. ProcessOwning(k, worker'[k], workflows', clock')
  BY <1>4, <1>5 DEF q
<1>7. OwningBut(k, workflows', clock')
  BY <1>1, <1>2, OthersOwning
<1> QED
  BY <1>3, <1>5, <1>6, <1>7, CallOver

\* A request is lost or refused: its process, if it still runs, exits.
LEMMA FailedOwning ==
  ASSUME SdkRetries = 0, DInv, DInv', OwnerInv, NEW t \in Threads,
         inflight[t] # NoRequest, clock' = clock,
         \A w \in Workflows : RowOwning(workflows'[w], steps'[w]),
         \A j \in Workers : j # inflight[t].from =>
           Undisturbed(j, workflows, workflows', clock),
         inflight' = [inflight EXCEPT ![t] = NoRequest],
         worker' = IF inflight[t].live
                   THEN [worker EXCEPT ![inflight[t].from] = AttemptFailed(@)]
                   ELSE worker,
         \A u \in Threads : u # t => thread'[u] = thread[u],
         thread'[t].op # "RetryStep"
  PROVE  OwnerInv'
<1> DEFINE k == inflight[t].from
<1>1. /\ k \in Workers /\ worker[k] \in Processes
      /\ ~inflight[t].live => worker[k].todo = "none" /\ worker[k].pc = "exited"
  BY OwnRequest
<1>2. clock \in Nat /\ clock <= clock'
  BY DeploymentTypes
<1>3. AttemptFailed(worker[k]) = NotRunning("exited")
  BY <1>1 DEF AttemptFailed, Processes
<1>4. /\ \A j \in Workers : j # k => worker'[j] = worker[j]
      /\ worker'[k] = IF inflight[t].live THEN NotRunning("exited") ELSE worker[k]
  BY <1>1, <1>3 DEF DInv, ClientTypeOK
<1>5. ~inflight[t].live => ProcessOwning(k, worker[k], workflows', clock')
  BY <1>1 DEF ProcessOwning, OwnerInv
<1>6. ProcessOwning(k, worker'[k], workflows', clock')
  BY <1>2, <1>4, <1>5, EndedOwning
<1>7. OwningBut(k, workflows', clock')
  BY <1>1, <1>2, OthersOwning
<1> QED
  BY <1>4, <1>6, <1>7, CallOver

\* A request that is no retry is not between the two transactions of one.
LEMMA NoRetryHere ==
  ASSUME OwnerInv, NEW t \in Threads,
         \/ inflight[t].call.op # "retry"
         \/ thread[t] = Idle
         \/ inflight[t].call.arg > MaxRetries /\ inflight[t].call.arg \in Nat
  PROVE  thread[t].op # "RetryStep"
BY RetryAssumption DEF OwnerInv, OneRequest, Idle

LEMMA LostOwning ==
  ASSUME SdkRetries = 0, DInv, DInv', OwnerInv, NEW t \in Threads,
         Lose(t) \/ (Refuse(t) /\ inflight[t] # NoRequest /\ inflight[t].call.op # "retry")
  PROVE  OwnerInv'
<1>1. /\ inflight[t] # NoRequest /\ UNCHANGED vars
      /\ inflight' = [inflight EXCEPT ![t] = NoRequest]
      /\ worker' = IF inflight[t].live
                   THEN [worker EXCEPT ![inflight[t].from] = AttemptFailed(@)]
                   ELSE worker
  BY DEF Lose, Refuse
<1>2. thread[t].op # "RetryStep" /\ thread' = thread
  BY <1>1, NoRetryHere DEF Lose, vars
<1> QED
  BY <1>1, <1>2, TablesStay, FailedOwning

\* Worker k gives up what it waits for, or is killed: it exits.
LEMMA AbandonOwning ==
  ASSUME SdkRetries = 0, DInv, DInv', OwnerInv, NEW k \in Workers, Timeout(k) \/ Kill(k)
  PROVE  OwnerInv'
<1>1. /\ UNCHANGED vars /\ clock \in Nat /\ clock' = clock
      /\ worker[k] \in Processes /\ Abandon(k)
  BY DeploymentTypes DEF Timeout, Kill, vars
<1>2. AttemptFailed(worker[k]) = NotRunning("exited")
  BY <1>1 DEF AttemptFailed, Processes
<1>3. worker'[k] = NotRunning("exited") /\ \A j \in Workers : j # k => worker'[j] = worker[j]
  BY <1>2 DEF Timeout, Kill, DInv, ClientTypeOK
<1>4. \A u \in Threads :
        inflight'[u] = IF inflight[u].from = k
                       THEN [inflight[u] EXCEPT !.live = FALSE] ELSE inflight[u]
  BY <1>1 DEF Abandon
<1>5. OwningBut(k, workflows', clock')
  BY <1>1, TablesStay, OthersOwning
<1>6. OneRequest'
  <2>1. \A u \in Threads : /\ inflight'[u].from = inflight[u].from
                           /\ inflight'[u].call = inflight[u].call
                           /\ inflight'[u] = NoRequest <=> inflight[u] = NoRequest
    <3>1. ASSUME NEW u \in Threads
          PROVE  /\ inflight'[u].from = inflight[u].from
                 /\ inflight'[u].call = inflight[u].call
                 /\ inflight'[u] = NoRequest <=> inflight[u] = NoRequest
      <4>1. NoRequest.from # k
        BY NoneAssumption DEF NoRequest
      <4>2. inflight[u] # NoRequest => RequestOK(inflight[u])
        BY DeploymentTypes
      <4>3. inflight[u].from = k =>
              /\ inflight'[u].from = k /\ inflight'[u].call = inflight[u].call
        BY <1>4, <4>1, <4>2 DEF RequestOK
      <4>4. inflight[u].from = k => inflight[u] # NoRequest /\ inflight'[u] # NoRequest
        BY <4>1, <4>3
      <4>5. inflight[u].from # k => inflight'[u] = inflight[u]
        BY <1>4
      <4> QED
        BY <4>3, <4>4, <4>5
    <3> QED
      BY <3>1
  <2> QED
    BY <1>1, <2>1 DEF OwnerInv, OneRequest, vars
<1>7. \A j \in Workers : ProcessOwning(j, worker'[j], workflows', clock')
  BY <1>1, <1>3, <1>5, EndedOwning DEF OwningBut
<1>8. ASSUME NEW u \in Threads, inflight'[u] # NoRequest
      PROVE  RequestOwning(inflight'[u], worker'[inflight'[u].from], workflows', clock')
  <2>1. inflight[u] # NoRequest
    BY <1>4, <1>8, NoneAssumption DEF NoRequest
  <2>2. RequestOK(inflight[u]) /\ inflight[u].from \in Workers
    BY <2>1, DeploymentTypes DEF RequestOK
  <2>3. CASE inflight[u].from # k
    BY <1>3, <1>4, <1>5, <2>1, <2>2, <2>3 DEF OwningBut
  <2>4. CASE inflight[u].from = k
    <3> DEFINE r == inflight[u]  s == [r EXCEPT !.live = FALSE]
    <3>1. /\ s.live = FALSE /\ s.from = k /\ s.call = r.call /\ s.wf = r.wf
          /\ inflight'[u] = s
      BY <1>4, <2>2, <2>4 DEF RequestOK
    <3>2. RequestOwning(r, worker[k], workflows, clock)
      BY <2>1, <2>4 DEF OwnerInv
    <3>3. workflows' = workflows /\ worker'[k].pc = "exited"
      BY <1>1, <1>3 DEF vars, NotRunning
    <3> HIDE DEF s
    <3> QED
      BY <2>4, <3>1, <3>2, <3>3 DEF RequestOwning
  <2> QED
    BY <2>3, <2>4
<1>9. \A w \in Workflows : RowOwning(workflows'[w], steps'[w])
  BY <1>1, TablesStay
<1> QED
  BY <1>6, <1>7, <1>8, <1>9 DEF OwnerInv

LEMMA ServerCrashOwning ==
  ASSUME SdkRetries = 0, DInv, DInv', OwnerInv, ServerCrash
  PROVE  OwnerInv'
<1>1. /\ workflows' = workflows /\ clock' = clock /\ steps' = steps
      /\ \A t \in Threads : inflight'[t] = NoRequest /\ thread'[t] = Idle
      /\ clock \in Nat
  BY DeploymentTypes DEF ServerCrash, Crash, tables
<1>2. ASSUME NEW k \in Workers
      PROVE  ProcessOwning(k, worker'[k], workflows', clock')
  <2>1. worker[k] \in Processes /\ ProcessOwning(k, worker[k], workflows, clock)
    BY DeploymentTypes DEF OwnerInv
  <2>2. AttemptFailed(worker[k]) = NotRunning("exited")
    BY <2>1 DEF AttemptFailed, Processes
  <2>3. worker'[k] = NotRunning("exited") \/ worker'[k] = worker[k]
    BY <2>2 DEF ServerCrash
  <2> QED
    BY <1>1, <2>1, <2>3, EndedOwning
<1>3. OneRequest'
  BY <1>1 DEF OneRequest, Idle
<1> QED
  BY <1>1, <1>2, <1>3 DEF OwnerInv

-----------------------------------------------------------------------------
(* Calls *)

\* A worker whose process does not wait has no request under way: one that
\* nobody waits for is of a process that has exited.
LEMMA NoRequestYet ==
  ASSUME DInv, OwnerInv, NEW k \in Workers, worker[k].pc \in {"new", "decide"}
  PROVE  \A t \in Threads : inflight[t].from # k
<1> SUFFICES ASSUME NEW t \in Threads, inflight[t].from = k PROVE FALSE
  OBVIOUS
<1>1. inflight[t] # NoRequest
  BY NoneAssumption DEF NoRequest
<1> QED
  BY <1>1, OwnRequest

\* Worker k sends the request of process p and waits.
LEMMA FetchOwning ==
  ASSUME DInv, OwnerInv, NEW k \in Workers, worker[k].pc \in {"new", "decide"},
         NEW p \in Processes, Fetch(k, p), p.since = clock,
         ProcessOwning(k, [p EXCEPT !.pc = "await"], workflows, clock),
         FromCursor /\ p.call.op = "complete" /\ workflows[p.wf].owner = k =>
           p.call.arg = workflows[p.wf].cursor + 1,
         FromCursor /\ p.call.op = "finish" /\ workflows[p.wf].owner = k =>
           workflows[p.wf].cursor = LastStep
  PROVE  OwnerInv'
<1> DEFINE r == [from |-> k, call |-> p.call, wf |-> p.wf, sent |-> clock,
                 live |-> TRUE, got |-> None]
           q == [p EXCEPT !.pc = "await"]
<1>1. PICK t \in Threads : /\ inflight[t] = NoRequest
                           /\ inflight' = [inflight EXCEPT ![t] = r]
  BY DEF Fetch
<1>2. worker' = [worker EXCEPT ![k] = q] /\ UNCHANGED vars
  BY DEF Fetch
<1>3. q.since = clock /\ clock \in Nat
  BY DeploymentTypes DEF Processes
<1>4. /\ r.from = k /\ r.live /\ r.call = p.call /\ r.wf = p.wf
      /\ r.sent = clock /\ r.got = None
  OBVIOUS
<1>5. ProcessOwning(k, q, workflows, clock)
  OBVIOUS
<1> HIDE DEF r, q
<1>6. RequestOwning(r, q, workflows, clock)
  BY <1>3, <1>4 DEF RequestOwning
<1>7. /\ worker'[k] = q /\ \A j \in Workers : j # k => worker'[j] = worker[j]
      /\ inflight'[t] = r /\ \A u \in Threads : u # t => inflight'[u] = inflight[u]
  BY <1>1, <1>2 DEF DInv, ClientTypeOK
<1>8. \A u \in Threads : inflight[u].from # k
  BY NoRequestYet
<1>9. OneRequest'
  <2>1. thread' = thread /\ NoRequest.call.op # "retry"
    BY <1>2 DEF vars, NoRequest, NoCall, Call
  <2> QED
    BY <1>1, <1>4, <1>7, <1>8, <2>1 DEF OwnerInv, OneRequest
<1>10. \A j \in Workers : ProcessOwning(j, worker'[j], workflows, clock)
  BY <1>5, <1>7 DEF OwnerInv
<1>11. ASSUME NEW u \in Threads, inflight'[u] # NoRequest
       PROVE  RequestOwning(inflight'[u], worker'[inflight'[u].from], workflows, clock)
  <2>1. CASE u = t
    BY <1>4, <1>6, <1>7, <2>1
  <2>2. CASE u # t
    <3>1. inflight'[u] = inflight[u] /\ inflight[u] # NoRequest /\ inflight[u].from # k
      BY <1>7, <1>8, <1>11, <2>2
    <3>2. inflight[u].from \in Workers
      BY <3>1, DeploymentTypes DEF RequestOK
    <3> QED
      BY <1>7, <3>1, <3>2 DEF OwnerInv
  <2> QED
    BY <2>1, <2>2
<1>12. workflows' = workflows /\ clock' = clock /\ steps' = steps
  BY <1>2 DEF vars
<1> QED
  BY <1>9, <1>10, <1>11, <1>12 DEF OwnerInv

\* A process makes the call that belongs to what it does.
LEMMA MakeOwning ==
  ASSUME DInv, OwnerInv, NEW k \in Workers, worker[k].pc \in {"new", "decide"},
         NEW p, ProcessOK(p), p.pc = "decide", NEW call \in Calls,
         CallOK(call, p.wf), Fetch(k, Calling(p, call)),
         ProcessOwning(k, p, workflows, clock),
         \/ call.op = p.todo /\ p.todo # "step"
         \/ p.todo = "step" /\ call.op \in {"complete", "fail"} /\ call.arg = p.next
         \/ p.todo = "step" /\ call.op = "finish" /\ p.next > LastStep
  PROVE  OwnerInv'
<1> DEFINE c == Calling(p, call)
           q == [c EXCEPT !.pc = "await"]
<1>1. /\ p \in Processes /\ clock \in Nat /\ c \in Processes
      /\ p.next \in Nat /\ p.todo \in Todos /\ LastStep \in Nat
  BY DeploymentTypes, CallingOK, ProgramAssumption DEF ProcessOK, Processes
<1>2. /\ c.call = call /\ c.since = clock /\ c.todo = p.todo
      /\ c.wf = p.wf /\ c.next = p.next /\ c.until = p.until
  BY <1>1 DEF Calling, Processes
<1>0. Fetch(k, c)
  OBVIOUS
<1> HIDE DEF c
<1>3. /\ q.call = call /\ q.since = clock /\ q.todo = p.todo /\ q.pc = "await"
      /\ q.wf = p.wf /\ q.next = p.next /\ q.until = p.until
  BY <1>1, <1>2 DEF Processes
<1>4. q = [c EXCEPT !.pc = "await"]
  OBVIOUS
<1> HIDE DEF q
<1>5. ProcessOwning(k, q, workflows, clock)
  BY <1>1, <1>3 DEF ProcessOwning
<1>6. call.op \in {"complete", "finish"} => p.todo = "step"
  BY <1>1 DEF Todos
<1>7. FromCursor /\ c.call.op = "complete" /\ workflows[c.wf].owner = k =>
        c.call.arg = workflows[c.wf].cursor + 1
  BY <1>2, <1>6 DEF ProcessOwning
<1>8. FromCursor /\ c.call.op = "finish" /\ workflows[c.wf].owner = k =>
        workflows[c.wf].cursor = LastStep
  <2> SUFFICES ASSUME FromCursor, call.op = "finish", workflows[p.wf].owner = k
               PROVE  workflows[p.wf].cursor = LastStep
    BY <1>2
  <2>1. p.todo = "step" /\ p.next > LastStep /\ p.next = workflows[p.wf].cursor + 1
    BY <1>6 DEF ProcessOwning
  <2>2. p.wf \in Workflows
    BY <2>1, StepWorkflow
  <2>3. workflows[p.wf].cursor \in Nat /\ workflows[p.wf].cursor <= LastStep
    BY <2>2, DeploymentTypes DEF OwnerInv, RowOwning
  <2> QED
    BY <1>1, <2>1, <2>3
<1> QED
  BY <1>0, <1>1, <1>2, <1>4, <1>5, <1>7, <1>8, FetchOwning

LEMMA StartOwning ==
  ASSUME RestartSameId = FALSE, DInv, OwnerInv, NEW k \in Workers, Start(k)
  PROVE  OwnerInv'
<1>1. PICK d \in LeaseSeconds, first \in FirstSteps :
        Fetch(k, Calling([Ready("acquire") EXCEPT !.next = first], Call("acquire", d)))
  BY DEF Start
<1> DEFINE p == [Ready("acquire") EXCEPT !.next = first]
           call == Call("acquire", d)
<1>2. /\ ProcessOK(p) /\ p.pc = "decide" /\ p.todo = "acquire" /\ p.since = 0
      /\ FromCursor => p.next = 0
  BY StartingOK DEF FromCursor
<1>3. call \in Calls /\ CallOK(call, p.wf) /\ call.op = "acquire"
  BY LeaseAssumption DEF Call, Calls, Ops, CallOK
<1>4. worker[k].pc \in {"new", "decide"} /\ Fetch(k, Calling(p, call)) /\ clock \in Nat
  BY <1>1, DeploymentTypes DEF Start
<1> HIDE DEF p, call
<1>5. ProcessOwning(k, p, workflows, clock)
  BY <1>2, <1>4 DEF ProcessOwning
<1> QED
  BY <1>2, <1>3, <1>4, <1>5, MakeOwning

LEMMA GoOnOwning ==
  ASSUME DInv, OwnerInv, NEW k \in Workers, GoOn(k)
  PROVE  OwnerInv'
<1> DEFINE p == worker[k]
<1>1. /\ ProcessOK(p) /\ p \in Processes /\ p.pc = "decide" /\ worker[k].pc \in {"new", "decide"}
      /\ ProcessOwning(k, p, workflows, clock) /\ p.next \in Nat
  BY DeploymentTypes DEF GoOn, OwnerInv, Processes
<1>2. p.todo # "acquire" => p.wf \in Workflows
  BY <1>1 DEF ProcessOK
<1>3. ASSUME NEW op \in Ops, NEW n \in Nat, Make(k, Call(op, n)), CallOK(Call(op, n), p.wf),
             \/ op = p.todo /\ p.todo # "step"
             \/ p.todo = "step" /\ op \in {"complete", "fail"} /\ n = p.next
             \/ p.todo = "step" /\ op = "finish" /\ p.next > LastStep
      PROVE  OwnerInv'
  <2> DEFINE call == Call(op, n)
  <2>1. call \in Calls /\ call.op = op /\ call.arg = n /\ Fetch(k, Calling(p, call))
    BY <1>3 DEF Call, Calls, Make
  <2>2. CallOK(call, p.wf)
    BY <1>3
  <2> HIDE DEF p, call
  <2> QED
    BY <1>1, <1>3, <2>1, <2>2, MakeOwning DEF p
<1>4. CASE p.todo = "acquire" /\ \E d \in LeaseSeconds : Make(k, Call("acquire", d))
  <2>1. PICK d \in LeaseSeconds : Make(k, Call("acquire", d))
    BY <1>4
  <2>2. d \in Nat /\ CallOK(Call("acquire", d), p.wf)
    BY LeaseAssumption DEF CallOK, Call
  <2> QED
    BY <1>3, <1>4, <2>1, <2>2 DEF Ops
<1>5. CASE /\ p.todo = "step" /\ p.next <= LastStep
           /\ Make(k, Call("complete", p.next)) \/ Make(k, Call("fail", p.next))
  <2>1. PICK op \in {"complete", "fail"} : Make(k, Call(op, p.next))
    BY <1>5
  <2>2. p.next \in StepNumbers
    BY <1>1, <1>5, ProgramAssumption DEF ProcessOK
  <2>3. op \in Ops /\ CallOK(Call(op, p.next), p.wf)
    BY <1>2, <1>5, <2>2 DEF CallOK, Call, Ops
  <2> QED
    BY <1>1, <1>3, <1>5, <2>1, <2>3
<1>6. CASE p.todo = "step" /\ p.next > LastStep /\ Make(k, Call("finish", 0))
  <2>1. CallOK(Call("finish", 0), p.wf)
    BY <1>2, <1>6 DEF CallOK, Call
  <2> QED
    BY <1>3, <1>6, <2>1 DEF Ops
<1>7. CASE p.todo = "retry" /\ \E c \in 0..(MaxRetries + 1) : Make(k, Call("retry", c))
  <2>1. PICK c \in 0..(MaxRetries + 1) : Make(k, Call("retry", c))
    BY <1>7
  <2>2. c \in Nat /\ CallOK(Call("retry", c), p.wf)
    BY <1>2, <1>7, RetryAssumption DEF CallOK, Call
  <2> QED
    BY <1>3, <1>7, <2>1, <2>2 DEF Ops
<1>8. CASE p.todo = "giveup" /\ Make(k, Call("giveup", 0))
  <2>1. CallOK(Call("giveup", 0), p.wf)
    BY <1>2, <1>8 DEF CallOK, Call
  <2> QED
    BY <1>3, <1>8, <2>1 DEF Ops
<1> QED
  BY <1>4, <1>5, <1>6, <1>7, <1>8 DEF GoOn

LEMMA NotAgain ==
  ASSUME OwnerInv, NEW k \in Workers
  PROVE  ~FetchAgain(k)
BY DEF OwnerInv, ProcessOwning, FetchAgain

-----------------------------------------------------------------------------
(* Handlers *)

\* There is no work: the process exits.
LEMMA NoWorkOwning ==
  ASSUME DInv, DInv', OwnerInv, NEW t \in Threads, Handles(t, "acquire"),
         Answer(t, None), UNCHANGED vars
  PROVE  OwnerInv'
<1> DEFINE r == inflight[t]
           p == worker[r.from]
<1>1. r # NoRequest /\ r.call.op = "acquire"
  BY DEF Handles, NoRequest, NoCall, Call
<1>2. r.from \in Workers /\ clock \in Nat
  BY <1>1, OwnRequest, DeploymentTypes
<1>3. r.live => Resume(p, None) = NotRunning("exited")
  <2>1. r.live => p.call.op = "acquire"
    BY <1>1, OwnRequest
  <2> QED
    BY <2>1 DEF Resume
<1>4. thread' = thread /\ thread[t].op # "RetryStep"
  BY <1>1, NoRetryHere DEF vars
<1> QED
  BY <1>1, <1>2, <1>3, <1>4, TablesStay, EndedOwning, AnswerOwning

\* The lease is granted; nobody had a lease that was live.
LEMMA LeaseOwning ==
  ASSUME DInv, DInv', OwnerInv, NEW t \in Threads, Handles(t, "acquire"),
         NEW w \in Workflows,
         NEW now \in Nat, now <= clock, inflight[t].sent <= now,
         LeaseTo(w, inflight[t].from, inflight[t].call.arg, now),
         inflight' = [inflight EXCEPT ![t].got = w], UNCHANGED worker
  PROVE  OwnerInv'
<1> DEFINE r == inflight[t]
           k == r.from
           p == worker[k]
           d == r.call.arg
           row == Taken(workflows[w], k, now + d)
<1>1. r # NoRequest /\ r.call.op = "acquire"
  BY DEF Handles, NoRequest, NoCall, Call
<1>2. /\ RequestOK(r) /\ k \in Workers /\ p \in Processes /\ d \in Nat
      /\ r.sent \in Nat /\ p.since \in Nat /\ now + d \in Nat /\ clock \in Nat
      /\ \A u \in Threads : inflight[u].from = k => u = t
  BY <1>1, OwnRequest, DeploymentTypes DEF RequestOK, Calls, Processes
<1>3. /\ RequestOwning(r, p, workflows, clock) /\ ProcessOwning(k, p, workflows, clock)
      /\ r.live => p.pc = "await" /\ p.call = r.call
      /\ ~r.live => p.pc = "exited" /\ p.todo = "none"
  BY <1>1, OwnRequest
<1>4. p.todo # "step" /\ (r.live => p.since <= r.sent)
  BY <1>1, <1>3 DEF ProcessOwning, RequestOwning
<1>5. workflows' = [workflows EXCEPT ![w] = row] /\ Eligible(w, now)
  BY DEF LeaseTo, Oldest
<1>6. /\ row.status = "RUNNING" /\ row.owner = k /\ row.expires = now + d
      /\ row.cursor = workflows[w].cursor
  BY <1>2, DeploymentTypes DEF Taken, WorkflowRow
<1>7. workflows'[w] = row /\ \A v \in Workflows \ {w} : workflows'[v] = workflows[v]
  BY <1>5 DEF DInv, IInv, TypeOK
<1>8. clock' = clock /\ steps' = steps /\ thread' = thread
  BY DEF LeaseTo, notLeases
<1> HIDE DEF row
<1>9. \A v \in Workflows : RowOwning(workflows'[v], steps'[v])
  BY <1>6, <1>7, <1>8 DEF OwnerInv, RowOwning
<1>10. ASSUME NEW j \in Workers, j # k
       PROVE  Undisturbed(j, workflows, workflows', clock)
  <2>1. \A v \in Workflows, u \in Nat :
          clock < u /\ Held(workflows[v], j, u) => Held(workflows'[v], j, u)
    BY <1>5, <1>7, HeldNotEligible DEF DInv
  <2>2. \A v \in Workflows : workflows'[v].owner = j => workflows'[v] = workflows[v]
    BY <1>6, <1>7, <1>10
  <2> QED
    BY <2>1, <2>2 DEF Undisturbed
<1>11. OwningBut(k, workflows', clock')
  BY <1>2, <1>8, <1>10, OthersOwning
<1>12. ProcessOwning(k, p, workflows', clock')
  BY <1>3, <1>4, <1>8 DEF ProcessOwning
<1> DEFINE s == [r EXCEPT !.got = w]
<1>13. inflight'[t] = s /\ \A u \in Threads \ {t} : inflight'[u] = inflight[u]
  BY DEF DInv, ClientTypeOK
<1>14. s.got = w /\ s.call = r.call /\ s.from = r.from /\ s.live = r.live /\ s.sent = r.sent
  BY <1>2 DEF RequestOK
<1> HIDE DEF s
<1>15. RequestOwning(s, p, workflows', clock')
  <2>1. r.live => Held(row, k, p.since + d)
    BY <1>2, <1>4, <1>6 DEF Held
  <2> QED
    BY <1>1, <1>3, <1>7, <1>14, <2>1 DEF RequestOwning
<1>16. \A j \in Workers : ProcessOwning(j, worker'[j], workflows', clock')
  BY <1>11, <1>12 DEF OwningBut
<1>17. ASSUME NEW u \in Threads, inflight'[u] # NoRequest
       PROVE  RequestOwning(inflight'[u], worker'[inflight'[u].from], workflows', clock')
  <2>1. CASE u = t
    BY <1>13, <1>14, <1>15, <2>1
  <2>2. CASE u # t
    BY <1>2, <1>11, <1>13, <1>17, <2>2 DEF OwningBut
  <2> QED
    BY <2>1, <2>2
<1>18. OneRequest'
  BY <1>1, <1>8, <1>13, <1>14 DEF OwnerInv, OneRequest
<1> QED
  BY <1>9, <1>16, <1>17, <1>18 DEF OwnerInv

\* The row that ends AcquireLease is read: if the workflow is still the
\* worker's own and the process goes on from the cursor, it is at the step
\* after that.
LEMMA AcquiredOwning ==
  ASSUME DInv, DInv', OwnerInv, NEW t \in Threads, HandleAcquired(t)
  PROVE  OwnerInv'
<1> DEFINE r == inflight[t]
           k == r.from
           p == worker[k]
           w == r.got
           value == [wf |-> w, cursor |-> workflows[w].cursor]
           q == Acquired(p, w, workflows[w].cursor)
<1>1. r # NoRequest /\ r.got # None /\ UNCHANGED vars /\ Answer(t, value)
  BY DEF HandleAcquired, NoRequest
<1>2. /\ RequestOK(r) /\ k \in Workers /\ p \in Processes
      /\ RequestOwning(r, p, workflows, clock) /\ w \in Workflows /\ r.call.op = "acquire"
      /\ ProcessOwning(k, p, workflows, clock) /\ r.call.arg \in Nat
      /\ r.live => p.pc = "await" /\ p.call = r.call
      /\ p.since \in Nat /\ clock \in Nat /\ workflows[w].cursor \in Nat
      /\ p.todo \in Todos
  BY <1>1, OwnRequest, DeploymentTypes DEF RequestOK, Calls, Processes
<1>3. workflows' = workflows /\ clock' = clock /\ thread' = thread
  BY <1>1 DEF vars
<1>4. ASSUME r.live, value # None
      PROVE  ProcessOwning(k, Resume(p, value), workflows', clock')
  <2>1. p.call.op = "acquire" /\ p.call.arg = r.call.arg
    BY <1>2, <1>4
  <2> HIDE DEF value
  <2>2. Resume(p, value) = Acquired(p, value.wf, value.cursor)
    BY <1>4, <2>1 DEF Resume
  <2>3. Resume(p, value) = q
    BY <2>2 DEF value
  <2>4. /\ q.pc = "decide" /\ q.todo = "step" /\ q.wf = w
        /\ q.next = IF p.next = 0 THEN workflows[w].cursor + 1 ELSE p.next
        /\ q.since = p.since /\ q.until = p.since + r.call.arg
    BY <1>2, <2>1 DEF Acquired, Processes
  <2>7. FromCursor => p.next = 0
    BY <1>2, <1>4, <2>1 DEF ProcessOwning
  <2> HIDE DEF q
  <2>5. clock < q.until => Held(workflows[w], k, q.until)
    BY <1>1, <1>2, <1>4, <2>4 DEF RequestOwning
  <2>6. ProcessOwning(k, q, workflows, clock)
    BY <1>2, <2>4, <2>5, <2>7 DEF ProcessOwning
  <2> QED
    BY <1>3, <2>3, <2>6
<1>5. ASSUME r.live, value = None
      PROVE  ProcessOwning(k, Resume(p, value), workflows', clock')
  <2>1. p.call.op = "acquire"
    BY <1>2, <1>5
  <2> HIDE DEF value
  <2>2. Resume(p, value) = NotRunning("exited")
    BY <1>5, <2>1 DEF Resume
  <2> QED
    BY <1>2, <1>3, <2>2, EndedOwning
<1>6. thread[t].op # "RetryStep"
  BY <1>2, NoRetryHere
<1> HIDE DEF value, q
<1> QED
  BY <1>1, <1>3, <1>4, <1>5, <1>6, TablesStay, AnswerOwning

\* A checkpoint by the owner is of the step after the cursor, where processes
\* go on from there.
LEMMA CompletedOwning ==
  ASSUME DInv, DInv', OwnerInv, NEW t \in Threads, Handles(t, "complete"),
         CompleteStep(inflight[t].wf, inflight[t].from, inflight[t].call.arg),
         Answer(t, TRUE)
  PROVE  OwnerInv'
<1> DEFINE r == inflight[t]
           k == r.from
           p == worker[k]
           s == r.call.arg
<1>1. r # NoRequest /\ r.call.op = "complete"
  BY DEF Handles, NoRequest, NoCall, Call
<1>2. /\ RequestOK(r) /\ k \in Workers /\ p \in Processes
      /\ RequestOwning(r, p, workflows, clock)
      /\ ProcessOwning(k, p, workflows, clock)
      /\ r.live => p.pc = "await" /\ p.call = r.call /\ p.wf = r.wf
  BY <1>1, OwnRequest
<1>3. PICK w \in Workflows : w = r.wf
  BY <1>1, <1>2 DEF RequestOK, CallOK
<1> DEFINE row == workflows[w]
           new == Advanced(row)
<1>4. /\ row.owner = k /\ s \in StepNumbers /\ row.cursor \in Nat /\ s <= LastStep
      /\ FromCursor => s = row.cursor + 1
  <2>1. row.owner = k /\ (FromCursor => s = row.cursor + 1)
    BY <1>1, <1>2, <1>3 DEF CompleteStep, HoldsLease, RequestOwning
  <2>2. s \in StepNumbers
    BY <1>1, <1>2 DEF RequestOK, CallOK
  <2> QED
    BY <2>1, <2>2, DeploymentTypes, ProgramAssumption
<1>5. /\ new.cursor = row.cursor + 1 /\ new.status = row.status
      /\ new.owner = row.owner /\ new.expires = row.expires
  BY <1>4, DeploymentTypes DEF Advanced, WorkflowRow
<1> HIDE DEF new
<1>6. /\ workflows'[w] = new /\ clock' = clock /\ thread' = thread
      /\ \A v \in Workflows \ {w} : workflows'[v] = workflows[v] /\ steps'[v] = steps[v]
      /\ steps'[w][s] = "COMPLETED"
      /\ \A n \in StepNumbers \ {s} : steps'[w][n] = steps[w][n]
  BY <1>3, <1>4 DEF CompleteStep, notSteps, DInv, IInv, TypeOK, new
<1>7. \A v \in Workflows : RowOwning(workflows'[v], steps'[v])
  <2>1. RowOwning(row, steps[w])
    BY DEF OwnerInv
  <2>2. StepNumbers = 1..LastStep /\ LastStep \in Nat
    BY ProgramAssumption
  <2>3. FromCursor => new.cursor <= LastStep
    BY <1>4, <1>5
  <2>4. ASSUME FromCursor, NEW n \in StepNumbers
        PROVE  /\ n <= new.cursor => steps'[w][n] # "ABSENT"
               /\ steps'[w][n] = "COMPLETED" => n <= new.cursor
    <3>1. CASE n = s
      BY <1>4, <1>5, <1>6, <2>2, <2>4, <3>1
    <3>2. CASE n # s
      <4>1. n <= new.cursor => n <= row.cursor
        BY <1>4, <1>5, <2>2, <2>4, <3>2
      <4>2. n <= row.cursor => n <= new.cursor
        BY <1>4, <1>5, <2>2
      <4> QED
        BY <1>6, <2>1, <2>4, <3>2, <4>1, <4>2 DEF RowOwning
    <3> QED
      BY <3>1, <3>2
  <2>5. row.status \notin {"COMPLETED", "ABSENT"}
    <3>1. row.owner # None
      BY <1>2, <1>4, NoneAssumption
    <3>2. RowConsistent(row)
      BY DEF DInv, IInv, LeaseConsistent
    <3> QED
      BY <3>1, <3>2 DEF RowConsistent, Leased
  <2>6. RowOwning(new, steps'[w])
    BY <1>5, <2>3, <2>4, <2>5 DEF RowOwning
  <2> QED
    BY <1>6, <2>6 DEF OwnerInv
<1>8. ASSUME NEW j \in Workers, j # k
      PROVE  Undisturbed(j, workflows, workflows', clock)
  <2>1. \A v \in Workflows : workflows'[v].owner = j => workflows'[v] = workflows[v]
    BY <1>4, <1>5, <1>6, <1>8
  <2>2. \A v \in Workflows, u \in Nat :
          Held(workflows[v], j, u) => Held(workflows'[v], j, u)
    BY <1>4, <1>5, <1>6, <1>8 DEF Held
  <2> QED
    BY <2>1, <2>2 DEF Undisturbed
<1>9. ASSUME r.live
      PROVE  ProcessOwning(k, Resume(p, TRUE), workflows', clock')
  <2> DEFINE q == [p EXCEPT !.pc = "decide", !.next = @ + 1]
  <2>1. p.pc = "await" /\ p.call = r.call /\ p.wf = w /\ p.todo = "step" /\ p.next = s
    <3>1. p.todo \in Todos /\ p.call = r.call /\ p.pc = "await"
      BY <1>2, <1>9 DEF Processes
    <3> QED
      BY <1>1, <1>2, <1>3, <1>9, <3>1 DEF ProcessOwning, Todos
  <2>2. Resume(p, TRUE) = q
    BY <1>1, <2>1 DEF Resume
  <2>3. /\ q.pc = "decide" /\ q.todo = "step" /\ q.wf = w /\ q.next = s + 1
        /\ q.since = p.since /\ q.until = p.until
    BY <1>2, <2>1 DEF Processes
  <2> HIDE DEF q
  <2>4. p.since <= clock /\ (clock < p.until => Held(row, k, p.until))
    BY <1>2, <1>4, <2>1 DEF ProcessOwning
  <2>5. clock < p.until => Held(new, k, p.until)
    BY <1>5, <2>4 DEF Held
  <2>6. ProcessOwning(k, q, workflows', clock')
    BY <1>4, <1>5, <1>6, <2>3, <2>4, <2>5 DEF ProcessOwning
  <2> QED
    BY <2>2, <2>6
<1>10. thread[t].op # "RetryStep"
  BY <1>1, NoRetryHere
<1> QED
  BY <1>1, <1>6, <1>7, <1>8, <1>9, <1>10, AnswerOwning

\* Worker k ends its lease of w or its work on it: the row stays the worker's
\* or becomes nobody's, and its cursor stays.
LEMMA RowEnds ==
  ASSUME DInv, DInv', OwnerInv, NEW w \in Workflows, NEW k \in Workers,
         workflows[w].owner = k, NEW new, new.cursor = workflows[w].cursor,
         new.owner \in {k, None}, new.status \in {"WAITING", "COMPLETED", "FAILED"},
         FromCursor /\ new.status = "COMPLETED" => workflows[w].cursor = LastStep,
         workflows' = [workflows EXCEPT ![w] = new], steps' = steps
  PROVE  /\ \A v \in Workflows : RowOwning(workflows'[v], steps'[v])
         /\ \A j \in Workers : j # k => Undisturbed(j, workflows, workflows', clock)
<1>1. workflows'[w] = new /\ \A v \in Workflows \ {w} : workflows'[v] = workflows[v]
  BY DEF DInv, IInv, TypeOK
<1>2. \A v \in Workflows : RowOwning(workflows'[v], steps'[v])
  BY <1>1 DEF OwnerInv, RowOwning
<1>3. ASSUME NEW j \in Workers, j # k
      PROVE  Undisturbed(j, workflows, workflows', clock)
  <2>1. \A v \in Workflows : workflows'[v].owner = j => workflows'[v] = workflows[v]
    BY <1>1, <1>3, NoneAssumption
  <2>2. \A v \in Workflows, u \in Nat :
          Held(workflows[v], j, u) => Held(workflows'[v], j, u)
    BY <1>1, <1>3 DEF Held
  <2> QED
    BY <2>1, <2>2 DEF Undisturbed
<1> QED
  BY <1>2, <1>3

\* A workflow is finished or given up: the process exits.
LEMMA ClosedOwning ==
  ASSUME DInv, DInv', OwnerInv, NEW t \in Threads,
         \/ /\ Handles(t, "finish")
            /\ CompleteWorkflow(inflight[t].wf, inflight[t].from)
         \/ /\ Handles(t, "giveup")
            /\ FailWorkflow(inflight[t].wf, inflight[t].from),
         Answer(t, TRUE)
  PROVE  OwnerInv'
<1> DEFINE r == inflight[t]
           k == r.from
           p == worker[k]
<1>1. r # NoRequest /\ r.call.op \in {"finish", "giveup"}
  BY DEF Handles, NoRequest, NoCall, Call
<1>2. /\ RequestOK(r) /\ k \in Workers /\ clock \in Nat
      /\ RequestOwning(r, p, workflows, clock)
      /\ r.live => p.call = r.call
  BY <1>1, OwnRequest, DeploymentTypes
<1>3. PICK w \in Workflows : w = r.wf
  BY <1>1, <1>2 DEF RequestOK, CallOK
<1>4. PICK status \in {"COMPLETED", "FAILED"} :
        /\ workflows' = [workflows EXCEPT ![w] = Closed(@, status)]
        /\ status = "COMPLETED" => r.call.op = "finish"
        /\ RunningFor(w, k)
        /\ UNCHANGED notLeases
  BY <1>3 DEF CompleteWorkflow, FailWorkflow, Handles
<1> DEFINE new == Closed(workflows[w], status)
<1>5. /\ new.cursor = workflows[w].cursor /\ new.owner = None /\ new.status = status
      /\ workflows' = [workflows EXCEPT ![w] = new] /\ workflows[w].owner = k
  BY <1>4, DeploymentTypes DEF Closed, WorkflowRow, RunningFor
<1> HIDE DEF new
<1>6. clock' = clock /\ steps' = steps /\ thread' = thread
  BY <1>4 DEF notLeases
<1>7. FromCursor /\ status = "COMPLETED" => workflows[w].cursor = LastStep
  BY <1>2, <1>3, <1>4, <1>5 DEF RequestOwning
<1>8. /\ \A v \in Workflows : RowOwning(workflows'[v], steps'[v])
      /\ \A j \in Workers : j # k => Undisturbed(j, workflows, workflows', clock)
  BY <1>2, <1>5, <1>6, <1>7, RowEnds
<1>9. r.live => ProcessOwning(k, Resume(p, TRUE), workflows', clock')
  <2>1. r.live => Resume(p, TRUE) = NotRunning("exited")
    BY <1>1, <1>2 DEF Resume
  <2> QED
    BY <1>2, <1>6, <2>1, EndedOwning
<1>10. thread[t].op # "RetryStep"
  BY <1>1, NoRetryHere
<1> QED
  BY <1>1, <1>6, <1>8, <1>9, <1>10, AnswerOwning

\* verifyLease of FailStep: the request is between its transactions.
LEMMA VerifiedOwning ==
  ASSUME DInv, DInv', OwnerInv, NEW t \in Threads, Handles(t, "fail"),
         VerifyLease(t, "FailStep", inflight[t].wf, inflight[t].from, inflight[t].call.arg),
         UNCHANGED client
  PROVE  OwnerInv'
<1>1. /\ workflows' = workflows /\ steps' = steps /\ clock' = clock
      /\ UNCHANGED <<worker, inflight>>
  BY DEF VerifyLease, notSteps, client
<1>2. \A u \in Threads : thread'[u] = thread[u] \/ thread'[u].op = "FailStep"
  BY DEF VerifyLease, DInv, IInv, TypeOK
<1>3. OneRequest'
  BY <1>1, <1>2 DEF OwnerInv, OneRequest
<1> QED
  BY <1>1, <1>3 DEF OwnerInv

\* FailStep: the step is recorded as failed, whatever it was.
LEMMA FailedStepOwning ==
  ASSUME DInv, DInv', OwnerInv, NEW t \in Threads, Handles(t, "fail"),
         FailStep(t), Answer(t, TRUE)
  PROVE  OwnerInv'
<1> DEFINE r == inflight[t]
           k == r.from
           p == worker[k]
           q == [p EXCEPT !.pc = "decide", !.todo = "retry"]
<1>1. r # NoRequest /\ r.call.op = "fail"
  BY DEF Handles, NoRequest, NoCall, Call
<1>2. /\ k \in Workers /\ clock \in Nat /\ p \in Processes
      /\ ProcessOwning(k, p, workflows, clock) /\ (r.live => p.call = r.call)
  BY <1>1, OwnRequest, DeploymentTypes
<1>3. /\ workflows' = workflows /\ clock' = clock
      /\ thread'[t] = Idle /\ \A u \in Threads : u # t => thread'[u] = thread[u]
  BY DEF FailStep, notSteps, DInv, IInv, TypeOK
<1>4. \A w \in Workflows, s \in StepNumbers :
        steps'[w][s] = steps[w][s] \/ steps'[w][s] = "FAILED"
  BY DEF FailStep, DInv, IInv, TypeOK
<1>5. \A w \in Workflows : RowOwning(workflows'[w], steps'[w])
  BY <1>3, <1>4 DEF OwnerInv, RowOwning
<1>6. r.live => ProcessOwning(k, Resume(p, TRUE), workflows', clock')
  <2>1. r.live => Resume(p, TRUE) = q
    BY <1>1, <1>2 DEF Resume
  <2>2. q.pc = "decide" /\ q.todo = "retry" /\ q.since = p.since
    BY <1>2 DEF Processes
  <2>3. ProcessOwning(k, q, workflows', clock')
    BY <1>2, <1>3, <2>2 DEF ProcessOwning
  <2> QED
    BY <2>1, <2>3
<1>7. \A j \in Workers : Undisturbed(j, workflows, workflows', clock)
  BY <1>3 DEF Undisturbed
<1>8. thread'[t].op # "RetryStep"
  BY <1>3 DEF Idle
<1> QED
  BY <1>1, <1>3, <1>5, <1>6, <1>7, <1>8, AnswerOwning

\* The first transaction of RetryStep: the request is a retry of its worker.
LEMMA RetryStepOwning ==
  ASSUME DInv, DInv', OwnerInv, NEW t \in Threads, Handles(t, "retry"),
         RetryStep(t, inflight[t].wf, inflight[t].from, inflight[t].call.arg),
         UNCHANGED client
  PROVE  OwnerInv'
<1>1. /\ workflows' = workflows /\ steps' = steps /\ clock' = clock
      /\ UNCHANGED <<worker, inflight>>
  BY DEF RetryStep, notTimers, client
<1>2. /\ thread'[t].worker = inflight[t].from /\ inflight[t].call.arg <= MaxRetries
      /\ \A u \in Threads \ {t} : thread'[u] = thread[u]
  BY DEF RetryStep, DInv, IInv, TypeOK
<1>3. OneRequest'
  BY <1>1, <1>2 DEF OwnerInv, OneRequest, Handles
<1> QED
  BY <1>1, <1>3 DEF OwnerInv

\* A retry that is refused because there were too many.
LEMMA TooManyOwning ==
  ASSUME DInv, DInv', OwnerInv, NEW t \in Threads, Handles(t, "retry"),
         inflight[t].call.arg > MaxRetries, Answer(t, FALSE), UNCHANGED vars
  PROVE  OwnerInv'
<1> DEFINE r == inflight[t]
           k == r.from
           p == worker[k]
           q == [p EXCEPT !.pc = "decide", !.todo = "giveup"]
<1>1. r # NoRequest /\ r.call.op = "retry"
  BY DEF Handles, NoRequest, NoCall, Call
<1>2. /\ k \in Workers /\ clock \in Nat /\ p \in Processes /\ RequestOK(r)
      /\ ProcessOwning(k, p, workflows, clock) /\ (r.live => p.call = r.call)
  BY <1>1, OwnRequest, DeploymentTypes
<1>3. workflows' = workflows /\ clock' = clock /\ thread' = thread
  BY DEF vars
<1>4. r.live => ProcessOwning(k, Resume(p, FALSE), workflows', clock')
  <2>1. r.live => Resume(p, FALSE) = q
    BY <1>1, <1>2 DEF Resume
  <2>2. q.pc = "decide" /\ q.todo = "giveup" /\ q.since = p.since
    BY <1>2 DEF Processes
  <2>3. ProcessOwning(k, q, workflows', clock')
    BY <1>2, <1>3, <2>2 DEF ProcessOwning
  <2> QED
    BY <2>1, <2>3
<1>5. thread[t].op # "RetryStep"
  <2>1. r.call.arg \in Nat
    BY <1>2 DEF RequestOK, Calls
  <2> QED
    BY <2>1, NoRetryHere
<1> QED
  BY <1>1, <1>3, <1>4, <1>5, TablesStay, AnswerOwning

\* The second transaction of RetryStep: only its own worker's workflow waits.
LEMMA RetryWaitOwning ==
  ASSUME SdkRetries = 0, DInv, DInv', OwnerInv, NEW t \in Threads, Handles(t, "retry"),
         RetryStepWait(t),
         \/ Answer(t, TRUE)
         \/ /\ inflight' = [inflight EXCEPT ![t] = NoRequest]
            /\ worker' = IF inflight[t].live
                         THEN [worker EXCEPT ![inflight[t].from] = AttemptFailed(@)]
                         ELSE worker
  PROVE  OwnerInv'
<1> DEFINE r == inflight[t]
           k == r.from
           p == worker[k]
           w == thread[t].wf
<1>1. r # NoRequest /\ r.call.op = "retry"
  BY DEF Handles, NoRequest, NoCall, Call
<1>2. /\ k \in Workers /\ clock \in Nat /\ (r.live => p.call = r.call)
  BY <1>1, OwnRequest, DeploymentTypes
<1>3. /\ thread'[t] = Idle /\ \A u \in Threads : u # t => thread'[u] = thread[u]
      /\ clock' = clock /\ steps' = steps
  BY DEF RetryStepWait, notTimers, DInv, IInv, TypeOK
<1>4. w \in Workflows /\ thread[t].worker = k
  BY DEF RetryStepWait, DInv, IInv, TypeOK, Requests, Idle, OwnerInv, OneRequest
<1>5. /\ \A v \in Workflows : RowOwning(workflows'[v], steps'[v])
      /\ \A j \in Workers : j # k => Undisturbed(j, workflows, workflows', clock)
  <2>1. CASE workflows' = workflows
    BY <1>3, <2>1 DEF OwnerInv, Undisturbed
  <2>2. CASE SetWaiting(w, k)
    <3> DEFINE new == [workflows[w] EXCEPT !.status = "WAITING"]
    <3>1. /\ new.cursor = workflows[w].cursor /\ new.status = "WAITING" /\ new.owner = k
          /\ workflows' = [workflows EXCEPT ![w] = new] /\ workflows[w].owner = k
      BY <1>4, <2>2, DeploymentTypes DEF SetWaiting, RunningFor, WorkflowRow
    <3> HIDE DEF new
    <3> QED
      BY <1>2, <1>3, <1>4, <3>1, RowEnds
  <2> QED
    BY <1>4, <2>1, <2>2 DEF RetryStepWait
<1>6. CASE Answer(t, TRUE)
  <2>1. r.live => Resume(p, TRUE) = Ready("acquire")
    BY <1>1, <1>2 DEF Resume
  <2>2. ProcessOwning(k, Ready("acquire"), workflows', clock')
    BY <1>2, <1>3 DEF Ready, NotRunning, ProcessOwning
  <2>3. thread'[t].op # "RetryStep"
    BY <1>3 DEF Idle
  <2> QED
    BY <1>1, <1>3, <1>5, <1>6, <2>1, <2>2, <2>3, AnswerOwning
<1>7. CASE /\ inflight' = [inflight EXCEPT ![t] = NoRequest]
           /\ worker' = IF inflight[t].live
                        THEN [worker EXCEPT ![inflight[t].from] = AttemptFailed(@)]
                        ELSE worker
  <2>1. thread'[t].op # "RetryStep"
    BY <1>3 DEF Idle
  <2> QED
    BY <1>1, <1>3, <1>5, <1>7, <2>1, FailedOwning
<1> QED
  BY <1>6, <1>7

-----------------------------------------------------------------------------
(* What is not the workers' doing *)

\* The scheduler and the creation of workflows give no worker anything and
\* end no live lease.
LEMMA OutsideOwning ==
  ASSUME DInv, DInv', OwnerInv, UNCHANGED client, clock <= clock', steps' = steps,
         thread' = thread,
         \A w \in Workflows :
           /\ workflows'[w].cursor = workflows[w].cursor
           /\ workflows'[w].status \in {"ABSENT", "COMPLETED"} =>
                workflows'[w].status = workflows[w].status
           /\ workflows'[w].owner \in {workflows[w].owner, None}
           /\ \A k \in Workers, u \in Nat :
                clock < u /\ Held(workflows[w], k, u) => Held(workflows'[w], k, u)
  PROVE  OwnerInv'
<1>1. \A k \in Workers : Undisturbed(k, workflows, workflows', clock)
  BY NoneAssumption DEF Undisturbed
<1>2. \A w \in Workflows : RowOwning(workflows'[w], steps'[w])
  BY DEF OwnerInv, RowOwning
<1>3. OneRequest'
  BY DEF OwnerInv, OneRequest, client
<1> QED
  BY <1>1, <1>2, <1>3, AllOwning DEF OwnerInv

LEMMA EnvironmentOwning ==
  ASSUME DInv, DInv', OwnerInv, Environment
  PROVE  OwnerInv'
<1>1. UNCHANGED client /\ clock \in Nat
  BY DeploymentTypes DEF Environment
<1>2. ASSUME workflows' = workflows, steps' = steps, thread' = thread, clock <= clock'
      PROVE  OwnerInv'
  BY <1>1, <1>2, OutsideOwning
<1>3. ASSUME NEW w \in Workflows, CreateWorkflow(w)
      PROVE  OwnerInv'
  <2>1. PICK now \in Nows : workflows' = [workflows EXCEPT ![w] = Created(now)]
    BY <1>3 DEF CreateWorkflow
  <2>2. /\ workflows'[w] = Created(now) /\ clock' = clock /\ steps' = steps
        /\ thread' = thread
        /\ \A v \in Workflows \ {w} : workflows'[v] = workflows[v]
    BY <1>3, <2>1 DEF CreateWorkflow, notLeases, DInv, IInv, TypeOK
  <2>3. workflows[w].status = "ABSENT" /\ workflows[w].cursor = 0
    BY <1>3 DEF CreateWorkflow, Exists, OwnerInv, RowOwning
  <2>4. /\ Created(now).cursor = 0 /\ Created(now).status = "QUEUED"
        /\ Created(now).owner = None
    BY DEF Created
  <2>5. clock <= clock'
    BY <1>1, <2>2
  <2> QED
    BY <1>1, <2>2, <2>3, <2>4, <2>5, OutsideOwning DEF Held
<1>4. ASSUME TickStart \/ PassSecond
      PROVE  OwnerInv'
  BY <1>1, <1>2, <1>4 DEF TickStart, PassSecond, notTimers, tables
<1>5. \A w \in Workflows :
        /\ Requeued(workflows[w]).cursor = workflows[w].cursor
        /\ Requeued(workflows[w]).status = "QUEUED"
        /\ Requeued(workflows[w]).owner = None
  BY DeploymentTypes DEF Requeued, WorkflowRow
<1>6. ASSUME FireExpiredTimers
      PROVE  OwnerInv'
  <2>1. /\ clock' = clock /\ steps' = steps /\ thread' = thread
        /\ \A w \in Workflows :
             \/ workflows'[w] = workflows[w]
             \/ workflows'[w] = Requeued(workflows[w]) /\ workflows[w].status = "WAITING"
    BY <1>6 DEF FireExpiredTimers, TimersToFire, notTimers
  <2>2. clock <= clock'
    BY <1>1, <2>1
  <2> QED
    BY <1>1, <1>5, <2>1, <2>2, OutsideOwning DEF Held
<1>7. ASSUME ExpireLeases
      PROVE  OwnerInv'
  <2>1. /\ clock' = clock /\ steps' = steps /\ thread' = thread
        /\ \A w \in Workflows :
             \/ workflows'[w] = workflows[w]
             \/ /\ workflows'[w] = Requeued(workflows[w])
                /\ Expired(w, sched.now)
    BY <1>7 DEF ExpireLeases, notTimers
  <2>2. sched.now \in Nat /\ sched.now <= clock /\ clock <= clock'
    BY <1>1, <2>1 DEF DInv, IInv, TypeOK, SchedulerStates, SchedulerBehind
  <2>3. ASSUME NEW w \in Workflows, NEW k \in Workers, NEW u \in Nat, clock < u,
               Held(workflows[w], k, u)
        PROVE  workflows'[w] = workflows[w]
    BY <2>1, <2>2, <2>3, HeldNotEligible DEF DInv
  <2> QED
    BY <1>1, <1>5, <2>1, <2>2, <2>3, OutsideOwning
<1> QED
  BY <1>3, <1>4, <1>6, <1>7 DEF Environment, SchedulerStep

-----------------------------------------------------------------------------
(* The composition *)

LEMMA OwnerInitInv == DeploymentInit => OwnerInv
<1> SUFFICES ASSUME DeploymentInit PROVE OwnerInv
  OBVIOUS
<1>1. \A w \in Workflows : RowOwning(workflows[w], steps[w])
  BY ProgramAssumption DEF DeploymentInit, Init, NoWorkflow, RowOwning
<1>2. \A k \in Workers : ProcessOwning(k, worker[k], workflows, clock)
  BY DEF DeploymentInit, Init, ClientInit, NotRunning, ProcessOwning
<1>3. \A t \in Threads : inflight[t] = NoRequest
  BY DEF DeploymentInit, ClientInit
<1>4. OneRequest
  BY <1>3 DEF DeploymentInit, Init, Idle, OneRequest
<1> QED
  BY <1>1, <1>2, <1>3, <1>4 DEF OwnerInv

LEMMA HandlersOwning ==
  ASSUME SdkRetries = 0, DInv, DInv', OwnerInv, NEW t \in Threads,
         \/ HandleAcquire(t) \/ HandleAcquired(t)
         \/ HandleComplete(t) \/ HandleFail(t) \/ HandleRetry(t)
         \/ HandleFinish(t) \/ HandleGiveUp(t)
  PROVE  OwnerInv'
<1>1. CASE HandleAcquire(t)
  <2>1. Handles(t, "acquire")
    BY <1>1 DEF HandleAcquire
  <2>2. PICK now \in {n \in Nows : n >= inflight[t].sent} :
          \/ /\ \E w \in Workflows :
                  /\ LeaseTo(w, inflight[t].from, inflight[t].call.arg, now)
                  /\ inflight' = [inflight EXCEPT ![t].got = w]
             /\ UNCHANGED worker
          \/ Answer(t, None) /\ UNCHANGED vars
    BY <1>1 DEF HandleAcquire
  <2>3. now \in Nat /\ now <= clock /\ inflight[t].sent <= now
    <3>1. inflight[t].sent \in Nat /\ clock \in Nat
      BY <2>1, DeploymentTypes DEF Handles, NoRequest, NoCall, Call, RequestOK
    <3> QED
      BY <3>1 DEF Nows
  <2> QED
    BY <2>1, <2>2, <2>3, LeaseOwning, NoWorkOwning
<1>2. ASSUME Refuse(t), \E op \in {"complete", "fail", "finish", "giveup"} : Handles(t, op)
      PROVE  OwnerInv'
  BY <1>2, LostOwning DEF Handles, NoRequest, NoCall, Call
<1>3. CASE HandleFail(t)
  BY <1>2, <1>3, VerifiedOwning, FailedStepOwning DEF HandleFail
<1>4. CASE HandleRetry(t)
  BY <1>4, RetryStepOwning, TooManyOwning, RetryWaitOwning DEF HandleRetry
<1> QED
  BY <1>1, <1>2, <1>3, <1>4, AcquiredOwning, CompletedOwning, ClosedOwning
     DEF HandleComplete, HandleFinish, HandleGiveUp

LEMMA OwningStep ==
  ASSUME SdkRetries = 0, RestartSameId = FALSE,
         DInv, DInv', OwnerInv, [DeploymentNext]_allVars
  PROVE  OwnerInv'
<1>1. ASSUME NEW k \in Workers,
             Start(k) \/ GoOn(k) \/ FetchAgain(k) \/ Timeout(k) \/ Kill(k)
      PROVE  OwnerInv'
  BY <1>1, StartOwning, GoOnOwning, NotAgain, AbandonOwning
<1>2. ASSUME NEW t \in Threads, Lose(t)
      PROVE  OwnerInv'
  BY <1>2, LostOwning
<1>3. ASSUME UNCHANGED allVars
      PROVE  OwnerInv'
  BY <1>3 DEF allVars, vars, OwnerInv, OneRequest
<1>4. ASSUME NEW t \in Threads,
             \/ HandleAcquire(t) \/ HandleAcquired(t)
             \/ HandleComplete(t) \/ HandleFail(t) \/ HandleRetry(t)
             \/ HandleFinish(t) \/ HandleGiveUp(t)
      PROVE  OwnerInv'
  BY <1>4, HandlersOwning
<1>5. ASSUME ServerCrash \/ Environment
      PROVE  OwnerInv'
  BY <1>5, ServerCrashOwning, EnvironmentOwning
<1> QED
  BY <1>1, <1>2, <1>3, <1>4, <1>5 DEF DeploymentNext

\* Where the SDK repeats no call and no worker id is used again, a process that
\* runs steps has the lease it reckons with, though steps fail and are retried,
\* answers are lost, leases expire and processes and the server die; and where
\* processes go on at current_step + 1 (src/engine_recovery_test.go:314-326),
\* a workflow's owner is at that step: the invariant behind the next two
\* theorems (src/step.go CompleteStep and FailStep, src/workflow.go AcquireLease).
THEOREM OwnersKeepTheirPlace ==
  ASSUME SdkRetries = 0, RestartSameId = FALSE
  PROVE  DeploymentSpec => []OwnerInv
<1>1. DeploymentInit => DInv /\ OwnerInv
  BY DeploymentInitInv, OwnerInitInv
<1>2. DInv /\ OwnerInv /\ [DeploymentNext]_allVars => DInv' /\ OwnerInv'
  <2> SUFFICES ASSUME DInv, OwnerInv, [DeploymentNext]_allVars
               PROVE  DInv' /\ OwnerInv'
    OBVIOUS
  <2>1. DInv'
    BY DeploymentStep
  <2>2. OwnerInv'
    BY <2>1, OwningStep
  <2> QED
    BY <2>1, <2>2
<1> QED
  BY <1>1, <1>2, PTL DEF DeploymentSpec

\* There, no two processes that may both believe that their lease is live
\* work on one workflow, whichever steps fail and wherever processes start,
\* step 1 as in basic.ts or current_step + 1 (src/workflow.go AcquireLease,
\* src/retry.go RetryStep).
THEOREM OneWorkerWithRetries ==
  ASSUME SdkRetries = 0, RestartSameId = FALSE
  PROVE  DeploymentSpec => []OneWorker
<1>1. OwnerInv => OneWorker
  <2> SUFFICES ASSUME OwnerInv, NEW w \in Workflows, NEW j \in Workers,
                      NEW k \in Workers, Working(j, w), Working(k, w)
               PROVE  j = k
    BY DEF OneWorker
  <2>1. ASSUME NEW i \in Workers, Working(i, w)
        PROVE  workflows[w].owner = i
    <3>1. ProcessOwning(i, worker[i], workflows, clock)
      BY DEF OwnerInv
    <3> QED
      BY <2>1, <3>1 DEF ProcessOwning, Working, Held
  <2> QED
    BY <2>1
<1> QED
  BY <1>1, OwnersKeepTheirPlace, PTL

\* There, if every process goes on at current_step + 1, a COMPLETED workflow
\* has run each of its steps, though a late FailStep may have overwritten a
\* checkpoint (src/step.go FailStep).  One that starts at step 1 could report a
\* completed step as failed, and completing that again moves current_step over
\* a step that has not run.
THEOREM NoneSkippedWithRetries ==
  ASSUME SdkRetries = 0, RestartSameId = FALSE, FirstSteps \subseteq {0}
  PROVE  DeploymentSpec => []NoStepSkipped
<1>1. OwnerInv => NoStepSkipped
  <2> SUFFICES ASSUME OwnerInv, NEW w \in Workflows,
                      workflows[w].status = "COMPLETED", NEW s \in 1..LastStep
               PROVE  steps[w][s] # "ABSENT"
    BY DEF NoStepSkipped
  <2>1. RowOwning(workflows[w], steps[w])
    BY DEF OwnerInv
  <2> QED
    BY <2>1, ProgramAssumption DEF RowOwning, FromCursor
<1> QED
  BY <1>1, OwnersKeepTheirPlace, PTL
=============================================================================
