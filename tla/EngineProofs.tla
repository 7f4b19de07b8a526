----------------------------- MODULE EngineProofs ---------------------------
(***************************************************************************)
(* Theorems about the engine for any sets of workflows, workers, threads   *)
(* and steps and any values of the bounds.                                 *)
(***************************************************************************)
EXTENDS Engine, SequenceTheorems, FiniteSetTheorems, NaturalsInduction,
        WellFoundedInduction, TLAPS

-----------------------------------------------------------------------------
(* Induction and recursion over the natural numbers *)

\* A nonempty set of natural numbers has a least one.
LEMMA LeastNumber ==
  ASSUME NEW T \in SUBSET Nat, T # {}
  PROVE  \E n \in T : \A m \in T : n <= m
<1> DEFINE R == OpToRel(<, Nat)
<1>1. IsWellFoundedOn(R, Nat)
  BY NatLessThanWellFounded
<1>2. \A m, n \in Nat : m < n => <<m, n>> \in R
  BY DEF OpToRel
<1> HIDE DEF R
<1>3. PICK n \in T : \A m \in T : ~(<<m, n>> \in R)
  BY <1>1, WFMin
<1>4. \A m \in T : n <= m
  <2> TAKE m \in T
  <2>1. m \in Nat /\ n \in Nat /\ ~(m < n)
    BY <1>2, <1>3
  <2> QED
    BY <2>1
<1> QED
  BY <1>4

\* Induction: T is the set of the numbers of which something holds.
LEMMA SetInduction ==
  ASSUME NEW T \in SUBSET Nat, 0 \in T, \A n \in T : n + 1 \in T
  PROVE  T = Nat
<1>1. SUFFICES ASSUME Nat \ T # {} PROVE FALSE
  OBVIOUS
<1>2. PICK n \in Nat \ T : \A m \in Nat \ T : n <= m
  BY <1>1, LeastNumber
<1>3. n # 0 /\ n - 1 \in Nat
  BY <1>2
<1>4. n - 1 \in T
  BY <1>2, <1>3
<1> QED
  BY <1>2, <1>3, <1>4

\* A function on the natural numbers may be defined by its first value and by
\* the step from one value to the next.
LEMMA RecursionExists ==
  ASSUME NEW S, NEW base \in S, NEW step \in [S -> S]
  PROVE  \E f \in [Nat -> S] : f[0] = base /\ \A n \in Nat : f[n + 1] = step[f[n]]
<1> DEFINE Begins(g, n) == /\ g \in [0..n -> S] /\ g[0] = base
                           /\ \A i \in Nat : i + 1 <= n => g[i + 1] = step[g[i]]
           T == {n \in Nat : \E g : Begins(g, n)}
           U == {n \in Nat : \A l, m \in Nat : \A g, h :
                   n <= l /\ n <= m /\ Begins(g, l) /\ Begins(h, m) => g[n] = h[n]}
<1> HIDE DEF Begins
<1>1. T = Nat
  <2>1. 0 \in T
    <3>1. Begins([i \in 0..0 |-> base], 0)
      BY DEF Begins
    <3> QED
      BY <3>1
  <2>2. ASSUME NEW n \in T PROVE n + 1 \in T
    <3>1. PICK g : Begins(g, n)
      OBVIOUS
    <3> DEFINE h == [i \in 0..(n + 1) |-> IF i <= n THEN g[i] ELSE step[g[n]]]
    <3>2. h \in [0..(n + 1) -> S] /\ h[0] = base
      BY <3>1 DEF Begins
    <3>3. ASSUME NEW i \in Nat, i + 1 <= n + 1 PROVE h[i + 1] = step[h[i]]
      BY <3>1, <3>3 DEF Begins
    <3> HIDE DEF h
    <3>4. Begins(h, n + 1)
      BY <3>2, <3>3 DEF Begins
    <3> QED
      BY <3>4
  <2> HIDE DEF T
  <2>3. T \in SUBSET Nat
    BY DEF T
  <2> QED
    BY <2>1, <2>2, <2>3, SetInduction
<1>2. U = Nat
  <2>1. 0 \in U
    BY DEF Begins
  <2>2. ASSUME NEW n \in U PROVE n + 1 \in U
    <3>1. SUFFICES ASSUME NEW l \in Nat, NEW m \in Nat, NEW g, NEW h,
                          n + 1 <= l, n + 1 <= m, Begins(g, l), Begins(h, m)
                   PROVE  g[n + 1] = h[n + 1]
      OBVIOUS
    <3>2. g[n] = h[n] /\ n <= l /\ n <= m
      BY <3>1
    <3> QED
      BY <3>1, <3>2 DEF Begins
  <2> HIDE DEF U
  <2>3. U \in SUBSET Nat
    BY DEF U
  <2> QED
    BY <2>1, <2>2, <2>3, SetInduction
<1> DEFINE G == [n \in Nat |-> CHOOSE g : Begins(g, n)]
           f == [n \in Nat |-> G[n][n]]
<1>3. \A n \in Nat : Begins(G[n], n)
  BY <1>1
<1> HIDE DEF G, T, U
<1>4. f \in [Nat -> S] /\ f[0] = base
  BY <1>3 DEF Begins
<1>5. ASSUME NEW n \in Nat PROVE f[n + 1] = step[f[n]]
  <2>1. Begins(G[n], n) /\ Begins(G[n + 1], n + 1)
    BY <1>3
  <2>2. G[n + 1][n + 1] = step[G[n + 1][n]]
    BY <2>1 DEF Begins
  <2>3. n \in U
    BY <1>2
  <2>4. G[n + 1][n] = G[n][n]
    BY <2>1, <2>3 DEF U
  <2> QED
    BY <2>2, <2>4
<1> QED
  BY <1>4, <1>5

-----------------------------------------------------------------------------
(* The event log *)

\* The largest of the numbers 1 to n.
LEMMA MaxOfInterval ==
  ASSUME NEW n \in Nat \ {0}
  PROVE  Max(1..n) = n
<1>1. n \in 1..n /\ \A y \in 1..n : n >= y
  OBVIOUS
<1>2. ASSUME NEW x \in 1..n, \A y \in 1..n : x >= y
      PROVE  x = n
  <2>1. x >= n
    BY <1>1, <1>2
  <2> QED
    BY <2>1
<1> QED
  BY <1>1, <1>2 DEF Max

\* In a log numbered 1, 2, 3, ... nextSequenceTx returns the length plus one.
LEMMA NextSequenceIsNext ==
  ASSUME NEW log \in Seq(EventRow), \A i \in DOMAIN log : log[i].seq = i
  PROVE  NextSequence(log) = Len(log) + 1
<1>1. Len(log) \in Nat /\ DOMAIN log = 1..Len(log)
  BY LenProperties
<1>2. CASE log = <<>>
  BY <1>2 DEF NextSequence
<1>3. CASE log # <<>>
  <2>1. Len(log) # 0
    BY <1>3, EmptySeq
  <2>2. {log[i].seq : i \in DOMAIN log} = 1..Len(log)
    BY <1>1
  <2>3. Max(1..Len(log)) = Len(log)
    BY <2>1, <1>1, MaxOfInterval
  <2> QED
    BY <2>2, <2>3, <1>3 DEF NextSequence
<1> QED
  BY <1>2, <1>3

\* Appending events keeps a log well typed and numbered.
LEMMA AppendEventsContiguous ==
  ASSUME NEW log \in Seq(EventRow), \A i \in DOMAIN log : log[i].seq = i,
         NEW type \in EventTypes, NEW n \in Nat
  PROVE  LET new == AppendEvents(log, type, n) IN
         /\ new \in Seq(EventRow)
         /\ Len(new) = Len(log) + n
         /\ \A i \in DOMAIN new : new[i].seq = i
<1> DEFINE tail == [i \in 1..n |-> [type |-> type, seq |-> NextSequence(log) + i - 1]]
           new == AppendEvents(log, type, n)
<1>1. Len(log) \in Nat /\ DOMAIN log = 1..Len(log)
  BY LenProperties
<1>2. NextSequence(log) = Len(log) + 1
  BY NextSequenceIsNext
<1>3. \A i \in 1..n : tail[i] \in EventRow /\ tail[i].seq = Len(log) + i
  BY <1>1, <1>2 DEF EventRow
<1>4. tail \in [1..n -> EventRow]
  BY <1>3
<1>5. tail \in Seq(EventRow) /\ Len(tail) = n
  BY <1>4, SeqDef
<1> HIDE DEF tail
<1>6. /\ log \o tail \in Seq(EventRow)
      /\ Len(log \o tail) = Len(log) + n
      /\ \A i \in 1..(Len(log) + n) :
           (log \o tail)[i] = IF i <= Len(log) THEN log[i] ELSE tail[i - Len(log)]
  BY <1>5, ConcatProperties
<1>7. DOMAIN (log \o tail) = 1..(Len(log) + n)
  BY <1>6, LenProperties
<1>8. \A i \in 1..(Len(log) + n) : (log \o tail)[i].seq = i
  <2> TAKE i \in 1..(Len(log) + n)
  <2>1. CASE i <= Len(log)
    BY <2>1, <1>1, <1>6
  <2>2. CASE ~(i <= Len(log))
    <3>1. i - Len(log) \in 1..n
      BY <2>2, <1>1
    <3> QED
      BY <2>2, <3>1, <1>1, <1>3, <1>6
  <2> QED
    BY <2>1, <2>2
<1>9. new = log \o tail
  BY DEF AppendEvents, tail
<1> QED
  BY <1>6, <1>7, <1>8, <1>9

-----------------------------------------------------------------------------
(* What one statement does to a table *)

\* One event appended to the log of w.
LEMMA EmitKeepsLogs ==
  ASSUME TypeOK, LogContiguous, NEW w \in Workflows, NEW type \in EventTypes,
         Emit(w, type)
  PROVE  /\ events' \in [Workflows -> Seq(EventRow)]
         /\ LogContiguous'
         /\ \A v \in Workflows : v # w => events'[v] = events[v]
<1> DEFINE new == AppendEvents(events[w], type, 1)
<1>1. events[w] \in Seq(EventRow) /\ \A i \in DOMAIN events[w] : events[w][i].seq = i
  BY DEF TypeOK, LogContiguous
<1>2. new \in Seq(EventRow) /\ \A i \in DOMAIN new : new[i].seq = i
  BY <1>1, AppendEventsContiguous
<1>3. events' = [events EXCEPT ![w] = new]
  BY DEF Emit
<1> HIDE DEF new
<1> QED
  BY <1>2, <1>3 DEF TypeOK, LogContiguous

\* A consistent row put in place of the row of w.
LEMMA SetRowKeepsRows ==
  ASSUME TypeOK, LeaseConsistent, NEW w \in Workflows, NEW row \in WorkflowRow,
         RowConsistent(row), workflows' = [workflows EXCEPT ![w] = row]
  PROVE  /\ workflows' \in [Workflows -> WorkflowRow]
         /\ LeaseConsistent'
         /\ workflows'[w] = row
         /\ \A v \in Workflows : v # w => workflows'[v] = workflows[v]
BY DEF TypeOK, LeaseConsistent

\* Rows put back in the queue or closed are consistent rows.
LEMMA RequeuedRow ==
  ASSUME NEW row \in WorkflowRow, RowConsistent(row),
         row.status \notin Terminal
  PROVE  /\ Requeued(row) \in WorkflowRow
         /\ RowConsistent(Requeued(row))
         /\ Requeued(row).status = "QUEUED"
BY DEF WorkflowRow, RowConsistent, Requeued, Statuses, Leased, Terminal

LEMMA ClosedRow ==
  ASSUME NEW row \in WorkflowRow, NEW status \in Terminal
  PROVE  /\ Closed(row, status) \in WorkflowRow
         /\ RowConsistent(Closed(row, status))
         /\ Closed(row, status).status = status
<1> DEFINE version == row.version + 1
           unset == [row EXCEPT !.status = status, !.owner = None,
                                !.expires = None, !.version = version]
<1>1. version \in Nat
  BY DEF WorkflowRow
<1> HIDE DEF version
<1>2. unset \in WorkflowRow
  BY <1>1 DEF WorkflowRow, Terminal, Statuses
<1> HIDE DEF unset
<1>3. [unset EXCEPT !.completed = TRUE] \in WorkflowRow
  BY <1>2 DEF WorkflowRow
<1>4. Closed(row, status) = [unset EXCEPT !.completed = TRUE]
  BY DEF unset, version, Closed, WorkflowRow
<1>5. /\ Closed(row, status).status = status
      /\ Closed(row, status).owner = None
      /\ Closed(row, status).expires = None
      /\ Closed(row, status).completed = TRUE
  BY DEF Closed, WorkflowRow
<1> QED
  BY <1>3, <1>4, <1>5 DEF RowConsistent, Terminal, Leased

\* A row that AcquireLease has written is a row, RUNNING and owned.
LEMMA TakenRow ==
  ASSUME NEW row \in WorkflowRow, NEW k \in Workers, NEW expires \in Int
  PROVE  /\ Taken(row, k, expires) \in WorkflowRow
         /\ Taken(row, k, expires).status = "RUNNING"
         /\ Taken(row, k, expires).owner = k
         /\ Taken(row, k, expires).expires = expires
         /\ Taken(row, k, expires).completed = row.completed
<1> DEFINE version == row.version + 1
<1>1. version \in Nat
  BY DEF WorkflowRow
<1>2. Taken(row, k, expires) =
        [row EXCEPT !.status = "RUNNING", !.owner = k, !.expires = expires,
                    !.version = version]
  BY DEF Taken
<1> HIDE DEF version
<1> QED
  BY <1>1, <1>2 DEF WorkflowRow, Statuses, Leased

-----------------------------------------------------------------------------
(* The operations of workflow.go *)

\* An operation that replaces one row and appends at most to its log.
LEMMA LeaseOperation ==
  ASSUME IInv, UNCHANGED notLeases, NEW w \in Workflows,
         NEW row \in WorkflowRow, RowConsistent(row), row.status # "ABSENT",
         workflows' = [workflows EXCEPT ![w] = row],
         \/ events' = events
         \/ \E type \in EventTypes : Emit(w, type)
  PROVE  IInv'
<1>1. /\ workflows' \in [Workflows -> WorkflowRow]
      /\ LeaseConsistent'
      /\ workflows'[w] = row
      /\ \A v \in Workflows : v # w => workflows'[v] = workflows[v]
  BY SetRowKeepsRows DEF IInv
<1>2. /\ events' \in [Workflows -> Seq(EventRow)]
      /\ LogContiguous'
      /\ \A v \in Workflows : v # w => events'[v] = events[v]
  <2>1. CASE events' = events
    BY <2>1 DEF IInv, TypeOK, LogContiguous
  <2>2. CASE \E type \in EventTypes : Emit(w, type)
    BY <2>2, EmitKeepsLogs DEF IInv
  <2> QED
    BY <2>1, <2>2
<1>3. TypeOK'
  BY <1>1, <1>2 DEF IInv, TypeOK, notLeases
<1>4. LogOfExisting'
  BY <1>1, <1>2 DEF IInv, LogOfExisting, Exists
<1>5. RequestsExist'
  BY <1>1 DEF IInv, RequestsExist, Exists, notLeases
<1>6. SchedulerBehind'
  BY DEF IInv, SchedulerBehind, notLeases
<1> QED
  BY <1>1, <1>2, <1>3, <1>4, <1>5, <1>6 DEF IInv

LEMMA CreateWorkflowInv ==
  ASSUME IInv, NEW w \in Workflows, CreateWorkflow(w)
  PROVE  IInv'
<1>1. PICK now \in Nows : workflows' = [workflows EXCEPT ![w] = Created(now)]
  BY DEF CreateWorkflow
<1>2. Created(now) \in WorkflowRow
  BY DEF Nows, Created, WorkflowRow, Statuses
<1>3. RowConsistent(Created(now)) /\ Created(now).status # "ABSENT"
  BY DEF Created, RowConsistent, Leased, Terminal
<1>4. Emit(w, "WORKFLOW_CREATED")
  <2>1. events[w] = <<>>
    BY DEF IInv, LogOfExisting, CreateWorkflow
  <2>2. Append(<<>>, [type |-> "WORKFLOW_CREATED", seq |-> 1])
          = AppendEvents(<<>>, "WORKFLOW_CREATED", 1)
    BY DEF AppendEvents, NextSequence
  <2> QED
    BY <2>1, <2>2 DEF CreateWorkflow, Emit
<1>5. UNCHANGED notLeases
  BY DEF CreateWorkflow
<1> QED
  BY <1>1, <1>2, <1>3, <1>4, <1>5, LeaseOperation DEF EventTypes

LEMMA AcquireLeaseInv ==
  ASSUME IInv, NEW k \in Workers, NEW d \in LeaseSeconds, AcquireLease(k, d)
  PROVE  IInv'
<1>1. PICK now \in Nows, w \in Workflows : LeaseTo(w, k, d, now)
  BY DEF AcquireLease
<1> DEFINE row == Taken(workflows[w], k, now + d)
<1>2. w \in Workflows /\ Eligible(w, now)
  BY <1>1 DEF LeaseTo, Oldest
<1>3. workflows[w] \in WorkflowRow /\ RowConsistent(workflows[w])
  BY <1>2 DEF IInv, TypeOK, LeaseConsistent
<1>4. workflows[w].status \notin Terminal
  BY <1>2, <1>3 DEF Eligible, Expired, RowConsistent, Leased, Terminal
<1>5. now + d \in Int
  BY LeaseAssumption DEF Nows
<1>6. /\ row \in WorkflowRow
      /\ row.status = "RUNNING" /\ row.owner = k /\ row.expires = now + d
      /\ row.completed = workflows[w].completed
  BY <1>3, <1>5, TakenRow
<1> HIDE DEF row
<1>7. RowConsistent(row) /\ row.status # "ABSENT"
  <2>1. k # None /\ now + d # None
    BY <1>5, NoneAssumption
  <2>2. ~row.completed
    BY <1>3, <1>4, <1>6 DEF RowConsistent
  <2> QED
    BY <1>6, <2>1, <2>2 DEF RowConsistent, Leased, Terminal
<1>8. /\ workflows' = [workflows EXCEPT ![w] = row]
      /\ Emit(w, "WORKFLOW_STARTED")
      /\ UNCHANGED notLeases
  BY <1>1 DEF row, LeaseTo
<1> QED
  BY <1>2, <1>6, <1>7, <1>8, LeaseOperation DEF EventTypes

LEMMA RenewLeaseInv ==
  ASSUME IInv, NEW w \in Workflows, NEW k \in Workers, NEW d \in LeaseSeconds,
         RenewLease(w, k, d)
  PROVE  IInv'
<1>1. PICK now \in Nows : workflows' = [workflows EXCEPT ![w].expires = now + d]
  BY DEF RenewLease
<1> DEFINE row == [workflows[w] EXCEPT !.expires = now + d]
<1>2. workflows[w] \in WorkflowRow /\ RowConsistent(workflows[w])
  BY DEF IInv, TypeOK, LeaseConsistent
<1>3. now + d \in Int /\ now + d # None
  BY LeaseAssumption, NoneAssumption DEF Nows
<1>4. workflows[w].status = "RUNNING"
  BY DEF RenewLease, RunningFor
<1>5. row \in WorkflowRow /\ row.status # "ABSENT"
  BY <1>2, <1>3, <1>4 DEF WorkflowRow
<1>6. RowConsistent(row)
  BY <1>2, <1>3, <1>4 DEF RowConsistent, WorkflowRow, Leased, Terminal
<1>7. workflows' = [workflows EXCEPT ![w] = row]
  BY <1>1 DEF IInv, TypeOK
<1> HIDE DEF row
<1> QED
  BY <1>5, <1>6, <1>7, LeaseOperation DEF RenewLease

LEMMA ReleaseLeaseInv ==
  ASSUME IInv, NEW w \in Workflows, NEW k \in Workers, ReleaseLease(w, k)
  PROVE  IInv'
<1> DEFINE row == Requeued(workflows[w])
<1>1. workflows[w] \in WorkflowRow /\ RowConsistent(workflows[w])
  BY DEF IInv, TypeOK, LeaseConsistent
<1>2. workflows[w].owner # None
  BY NoneAssumption DEF ReleaseLease
<1>3. workflows[w].status \notin Terminal
  BY <1>1, <1>2 DEF RowConsistent, Leased, Terminal
<1>4. row \in WorkflowRow /\ RowConsistent(row) /\ row.status = "QUEUED"
  BY <1>1, <1>3, RequeuedRow
<1>5. workflows' = [workflows EXCEPT ![w] = row]
  BY DEF ReleaseLease
<1> HIDE DEF row
<1> QED
  BY <1>4, <1>5, LeaseOperation DEF ReleaseLease

\* CompleteWorkflow and FailWorkflow.
LEMMA CloseWorkflowInv ==
  ASSUME IInv, NEW w \in Workflows, NEW k \in Workers,
         CompleteWorkflow(w, k) \/ FailWorkflow(w, k)
  PROVE  IInv'
<1>1. PICK status \in Terminal, type \in EventTypes :
        /\ workflows' = [workflows EXCEPT ![w] = Closed(@, status)]
        /\ Emit(w, type)
        /\ UNCHANGED notLeases
  <2>1. CASE CompleteWorkflow(w, k)
    BY <2>1 DEF CompleteWorkflow, Terminal, EventTypes
  <2>2. CASE FailWorkflow(w, k)
    BY <2>2 DEF FailWorkflow, Terminal, EventTypes
  <2> QED
    BY <2>1, <2>2
<1> DEFINE row == Closed(workflows[w], status)
<1>2. workflows[w] \in WorkflowRow
  BY DEF IInv, TypeOK
<1>3. row \in WorkflowRow /\ RowConsistent(row) /\ row.status # "ABSENT"
  BY <1>2, ClosedRow DEF Terminal
<1>4. workflows' = [workflows EXCEPT ![w] = row]
  BY <1>1
<1> HIDE DEF row
<1> QED
  BY <1>1, <1>3, <1>4, LeaseOperation

\* UPDATE ... SET status = WAITING, on its own and inside RetryStep.
LEMMA SetWaitingRow ==
  ASSUME IInv, NEW w \in Workflows, NEW k \in Workers, SetWaiting(w, k)
  PROVE  \E row \in WorkflowRow :
           /\ RowConsistent(row) /\ row.status = "WAITING"
           /\ workflows' = [workflows EXCEPT ![w] = row]
<1> DEFINE row == [workflows[w] EXCEPT !.status = "WAITING"]
<1>1. workflows[w] \in WorkflowRow /\ RowConsistent(workflows[w])
  BY DEF IInv, TypeOK, LeaseConsistent
<1>2. workflows[w].status = "RUNNING"
  BY DEF SetWaiting, RunningFor
<1>3. row \in WorkflowRow /\ row.status = "WAITING"
  BY <1>1 DEF WorkflowRow, Statuses, Leased
<1>4. RowConsistent(row)
  BY <1>1, <1>2 DEF RowConsistent, WorkflowRow, Leased, Terminal
<1>5. workflows' = [workflows EXCEPT ![w] = row]
  BY DEF SetWaiting, IInv, TypeOK
<1> HIDE DEF row
<1> QED
  BY <1>3, <1>4, <1>5

LEMMA MarkWaitingInv ==
  ASSUME IInv, NEW w \in Workflows, NEW k \in Workers, MarkWaiting(w, k)
  PROVE  IInv'
BY SetWaitingRow, LeaseOperation DEF MarkWaiting

-----------------------------------------------------------------------------
(* The operations of step.go *)

LEMMA VerifyLeaseInv ==
  ASSUME IInv, NEW t \in Threads, NEW op \in {"StartStep", "FailStep"},
         NEW w \in Workflows, NEW k \in Workers, NEW s \in StepNumbers,
         VerifyLease(t, op, w, k, s)
  PROVE  IInv'
<1> DEFINE request == [op |-> op, wf |-> w, worker |-> k, step |-> s]
<1>1. request \in Requests /\ request.op # "Idle" /\ request.wf = w
  BY DEF Requests
<1>2. thread' = [thread EXCEPT ![t] = request]
  BY DEF VerifyLease
<1> HIDE DEF request
<1>3. Exists(w)
  <2>1. workflows[w].owner # None
    BY NoneAssumption DEF VerifyLease, HoldsLease
  <2> QED
    BY <2>1 DEF IInv, LeaseConsistent, RowConsistent, Exists, Leased
<1>4. UNCHANGED <<workflows, events, steps, notSteps>>
  BY DEF VerifyLease
<1>5. TypeOK'
  BY <1>1, <1>2, <1>4 DEF IInv, TypeOK, notSteps
<1>6. RequestsExist'
  BY <1>1, <1>2, <1>3, <1>4 DEF IInv, TypeOK, RequestsExist, Exists
<1>7. LeaseConsistent' /\ LogContiguous' /\ LogOfExisting' /\ SchedulerBehind'
  BY <1>4 DEF IInv, LeaseConsistent, LogContiguous, LogOfExisting,
              SchedulerBehind, Exists, notSteps
<1> QED
  BY <1>5, <1>6, <1>7 DEF IInv

\* The record of a request that has passed verifyLease.
LEMMA StepRequest ==
  ASSUME TypeOK, NEW t \in Threads, thread[t].op \in {"StartStep", "FailStep"}
  PROVE  thread[t].wf \in Workflows /\ thread[t].step \in StepNumbers
<1>1. thread[t] \in Requests
  BY DEF TypeOK
<1> QED
  BY <1>1 DEF Requests, Idle

\* No workflow disappears and no request appears: requests stay justified.
LEMMA RequestsKeepExisting ==
  ASSUME TypeOK, RequestsExist,
         \A w \in Workflows : Exists(w)' <=> Exists(w),
         \A t \in Threads : thread'[t] \in {thread[t], Idle}
  PROVE  RequestsExist'
<1> SUFFICES ASSUME NEW t \in Threads,
                    thread'[t].op \in {"StartStep", "FailStep"}
             PROVE  workflows'[thread'[t].wf].status # "ABSENT"
  BY DEF RequestsExist, Exists
<1> DEFINE w == thread[t].wf
<1>1. thread'[t] = thread[t]
  BY DEF Idle
<1>2. w \in Workflows /\ Exists(w)
  BY <1>1, StepRequest DEF RequestsExist
<1> HIDE DEF w
<1>3. workflows'[w].status # "ABSENT"
  BY <1>2 DEF Exists
<1> QED
  BY <1>1, <1>3 DEF w

\* StartStep and FailStep: a step status and an event, for a workflow that
\* exists although the lease may be gone.
LEMMA StepWriteInv ==
  ASSUME IInv, NEW t \in Threads, StartStep(t) \/ FailStep(t)
  PROVE  IInv'
<1> DEFINE w == thread[t].wf
<1>1. /\ thread[t].op \in {"StartStep", "FailStep"}
      /\ \E type \in EventTypes : Emit(w, type)
      /\ steps' \in [Workflows -> [StepNumbers -> StepStatuses]]
      /\ thread' = [thread EXCEPT ![t] = Idle]
      /\ UNCHANGED <<workflows, notSteps>>
  <2>1. CASE StartStep(t)
    <3>1. thread[t].op = "StartStep" /\ w \in Workflows /\ thread[t].step \in StepNumbers
      BY <2>1, StepRequest DEF IInv, StartStep
    <3> QED
      BY <2>1, <3>1 DEF StartStep, IInv, TypeOK, StepStatuses, EventTypes
  <2>2. CASE FailStep(t)
    <3>1. thread[t].op = "FailStep" /\ w \in Workflows /\ thread[t].step \in StepNumbers
      BY <2>2, StepRequest DEF IInv, FailStep
    <3> QED
      BY <2>2, <3>1 DEF FailStep, IInv, TypeOK, StepStatuses, EventTypes
  <2> QED
    BY <2>1, <2>2
<1>2. w \in Workflows /\ Exists(w)
  BY <1>1, StepRequest DEF IInv, RequestsExist
<1> HIDE DEF w
<1>3. /\ events' \in [Workflows -> Seq(EventRow)]
      /\ LogContiguous'
      /\ \A v \in Workflows : v # w => events'[v] = events[v]
  BY <1>1, <1>2, EmitKeepsLogs DEF IInv
<1>4. Idle \in Requests /\ Idle.op = "Idle"
  BY DEF Idle, Requests
<1>5. TypeOK'
  BY <1>1, <1>3, <1>4 DEF IInv, TypeOK, notSteps
<1>6. LogOfExisting'
  BY <1>1, <1>2, <1>3 DEF IInv, LogOfExisting, Exists
<1>7. RequestsExist'
  BY <1>1, <1>4 DEF IInv, TypeOK, RequestsExist, Exists
<1>8. LeaseConsistent' /\ SchedulerBehind'
  BY <1>1 DEF IInv, LeaseConsistent, SchedulerBehind, notSteps
<1> QED
  BY <1>3, <1>5, <1>6, <1>7, <1>8 DEF IInv

\* Advancing the cursor changes two counters and nothing about the lease.
LEMMA AdvancedRow ==
  ASSUME NEW row \in WorkflowRow
  PROVE  /\ Advanced(row) \in WorkflowRow
         /\ Advanced(row).status = row.status
         /\ Advanced(row).owner = row.owner
         /\ Advanced(row).expires = row.expires
         /\ Advanced(row).completed = row.completed
<1> DEFINE cursor == row.cursor + 1
           version == row.version + 1
<1>1. cursor \in Nat /\ version \in Nat
  BY DEF WorkflowRow
<1>2. Advanced(row) = [row EXCEPT !.cursor = cursor, !.version = version]
  BY DEF Advanced
<1> HIDE DEF cursor, version
<1> QED
  BY <1>1, <1>2 DEF WorkflowRow

LEMMA CompleteStepInv ==
  ASSUME IInv, NEW w \in Workflows, NEW k \in Workers, NEW s \in StepNumbers,
         CompleteStep(w, k, s)
  PROVE  IInv'
<1> DEFINE row == Advanced(workflows[w])
<1>1. workflows[w] \in WorkflowRow /\ RowConsistent(workflows[w])
  BY DEF IInv, TypeOK, LeaseConsistent
<1>2. row \in WorkflowRow
  BY <1>1, AdvancedRow
<1>3. /\ row.status = workflows[w].status /\ row.owner = workflows[w].owner
      /\ row.expires = workflows[w].expires
      /\ row.completed = workflows[w].completed
  BY <1>1, AdvancedRow
<1>4. RowConsistent(row)
  BY <1>1, <1>3 DEF RowConsistent
<1>5. workflows' = [workflows EXCEPT ![w] = row]
  BY DEF CompleteStep
<1> HIDE DEF row
<1>6. /\ workflows' \in [Workflows -> WorkflowRow]
      /\ LeaseConsistent'
      /\ \A v \in Workflows : workflows'[v].status = workflows[v].status
  BY <1>2, <1>3, <1>4, <1>5, SetRowKeepsRows DEF IInv
<1>7. Exists(w)
  <2>1. workflows[w].owner # None
    BY NoneAssumption DEF CompleteStep, HoldsLease
  <2> QED
    BY <1>1, <2>1 DEF RowConsistent, Exists, Leased
<1>8. /\ events' \in [Workflows -> Seq(EventRow)]
      /\ LogContiguous'
      /\ \A v \in Workflows : v # w => events'[v] = events[v]
  BY EmitKeepsLogs DEF IInv, CompleteStep, EventTypes
<1>9. steps' \in [Workflows -> [StepNumbers -> StepStatuses]]
  BY DEF IInv, TypeOK, CompleteStep, StepStatuses
<1>10. UNCHANGED <<thread, notSteps>>
  BY DEF CompleteStep
<1>11. TypeOK'
  BY <1>6, <1>8, <1>9, <1>10 DEF IInv, TypeOK, notSteps
<1>12. LogOfExisting' /\ RequestsExist' /\ SchedulerBehind'
  BY <1>6, <1>7, <1>8, <1>10, StepRequest
     DEF IInv, LogOfExisting, RequestsExist, SchedulerBehind, Exists, notSteps
<1> QED
  BY <1>6, <1>8, <1>11, <1>12 DEF IInv

-----------------------------------------------------------------------------
(* The operations of signal.go *)

LEMMA SendSignalInv ==
  ASSUME IInv, NEW w \in Workflows, SendSignal(w)
  PROVE  IInv'
<1>1. PICK now \in Nows :
        signals' = Append(signals, [wf |-> w, created |-> now, consumed |-> FALSE])
  BY DEF SendSignal
<1>2. [wf |-> w, created |-> now, consumed |-> FALSE] \in SignalRow
  BY DEF SignalRow, Nows
<1>3. signals' \in Seq(SignalRow)
  BY <1>1, <1>2 DEF IInv, TypeOK
<1>4. /\ events' \in [Workflows -> Seq(EventRow)]
      /\ LogContiguous'
      /\ \A v \in Workflows : v # w => events'[v] = events[v]
  BY EmitKeepsLogs DEF IInv, SendSignal, EventTypes
<1>5. Exists(w) /\ UNCHANGED notSignals
  BY DEF SendSignal
<1>6. TypeOK'
  BY <1>3, <1>4, <1>5 DEF IInv, TypeOK, notSignals
<1>7. LeaseConsistent' /\ LogOfExisting' /\ RequestsExist' /\ SchedulerBehind'
  BY <1>4, <1>5 DEF IInv, LeaseConsistent, LogOfExisting, RequestsExist,
                    SchedulerBehind, Exists, notSignals
<1> QED
  BY <1>4, <1>6, <1>7 DEF IInv

LEMMA ConsumeSignalInv ==
  ASSUME IInv, NEW w \in Workflows, ConsumeSignal(w)
  PROVE  IInv'
<1>1. PICK i \in DOMAIN signals : signals' = [signals EXCEPT ![i].consumed = TRUE]
  BY DEF ConsumeSignal, TakeSignal
<1> DEFINE row == [signals[i] EXCEPT !.consumed = TRUE]
<1>2. signals \in Seq(SignalRow) /\ DOMAIN signals = 1..Len(signals)
  BY LenProperties DEF IInv, TypeOK
<1>3. signals[i] \in SignalRow
  BY <1>2, ElementOfSeq
<1>4. row \in SignalRow
  BY <1>3 DEF SignalRow
<1>5. signals' = [signals EXCEPT ![i] = row]
  BY <1>1
<1> HIDE DEF row
<1>6. signals' \in Seq(SignalRow)
  BY <1>2, <1>4, <1>5, ExceptSeq
<1>7. UNCHANGED <<events, notSignals>>
  BY DEF ConsumeSignal, TakeSignal
<1>8. TypeOK'
  BY <1>6, <1>7 DEF IInv, TypeOK, notSignals
<1>9. /\ LeaseConsistent' /\ LogContiguous' /\ LogOfExisting'
      /\ RequestsExist' /\ SchedulerBehind'
  BY <1>7 DEF IInv, LeaseConsistent, LogContiguous, LogOfExisting, RequestsExist,
              SchedulerBehind, Exists, notSignals
<1> QED
  BY <1>8, <1>9 DEF IInv

-----------------------------------------------------------------------------
(* The operations of timer.go and retry.go *)

LEMMA AddTimerType ==
  ASSUME IInv, NEW w \in Workflows, NEW wake \in Int, AddTimer(w, wake)
  PROVE  timers' \in Seq(TimerRow)
<1>1. [wf |-> w, wake |-> wake, fired |-> FALSE] \in TimerRow
  BY DEF TimerRow
<1> QED
  BY <1>1 DEF IInv, TypeOK, AddTimer

LEMMA CreateTimerInv ==
  ASSUME IInv, NEW w \in Workflows, NEW wake \in WakeTimes, CreateTimer(w, wake)
  PROVE  IInv'
<1>1. timers' \in Seq(TimerRow)
  BY AddTimerType, WakeAssumption DEF CreateTimer
<1>2. UNCHANGED <<workflows, events, thread, sched, notTimers>>
  BY DEF CreateTimer
<1>3. TypeOK'
  BY <1>1, <1>2 DEF IInv, TypeOK, notTimers
<1>4. /\ LeaseConsistent' /\ LogContiguous' /\ LogOfExisting'
      /\ RequestsExist' /\ SchedulerBehind'
  BY <1>2 DEF IInv, LeaseConsistent, LogContiguous, LogOfExisting, RequestsExist,
              SchedulerBehind, Exists, notTimers
<1> QED
  BY <1>3, <1>4 DEF IInv

LEMMA RetryStepInv ==
  ASSUME IInv, NEW t \in Threads, NEW w \in Workflows, NEW k \in Workers,
         NEW count \in 0..MaxRetries, RetryStep(t, w, k, count)
  PROVE  IInv'
<1> DEFINE request == [op |-> "RetryStep", wf |-> w, worker |-> k]
<1>1. PICK now \in Nows : AddTimer(w, now + NextDelay[count])
  BY DEF RetryStep
<1>2. now + NextDelay[count] \in Int
  BY RetryAssumption DEF Nows
<1>3. timers' \in Seq(TimerRow)
  BY <1>1, <1>2, AddTimerType
<1>4. request \in Requests /\ request.op = "RetryStep"
  BY DEF Requests
<1>5. thread' = [thread EXCEPT ![t] = request]
  BY DEF RetryStep
<1> HIDE DEF request
<1>6. UNCHANGED <<workflows, events, sched, notTimers>>
  BY DEF RetryStep
<1>7. TypeOK'
  BY <1>3, <1>4, <1>5, <1>6 DEF IInv, TypeOK, notTimers
<1>8. RequestsExist'
  BY <1>4, <1>5, <1>6 DEF IInv, TypeOK, RequestsExist, Exists
<1>9. LeaseConsistent' /\ LogContiguous' /\ LogOfExisting' /\ SchedulerBehind'
  BY <1>6 DEF IInv, LeaseConsistent, LogContiguous, LogOfExisting,
              SchedulerBehind, Exists, notTimers
<1> QED
  BY <1>7, <1>8, <1>9 DEF IInv

LEMMA RetryStepWaitInv ==
  ASSUME IInv, NEW t \in Threads, RetryStepWait(t)
  PROVE  IInv'
<1> DEFINE w == thread[t].wf
           k == thread[t].worker
<1>1. w \in Workflows /\ k \in Workers
  <2>1. thread[t] \in Requests /\ thread[t].op = "RetryStep"
    BY DEF IInv, TypeOK, RetryStepWait
  <2> QED
    BY <2>1 DEF Requests, Idle
<1>2. SetWaiting(w, k) \/ UNCHANGED workflows
  BY DEF RetryStepWait
<1>3. /\ thread' = [thread EXCEPT ![t] = Idle]
      /\ UNCHANGED <<events, timers, sched, notTimers>>
  BY DEF RetryStepWait
<1> HIDE DEF w, k
<1>4. /\ workflows' \in [Workflows -> WorkflowRow]
      /\ LeaseConsistent'
      /\ \A v \in Workflows : Exists(v)' <=> Exists(v)
  <2>1. CASE SetWaiting(w, k)
    <3>1. PICK row \in WorkflowRow :
            /\ RowConsistent(row) /\ row.status = "WAITING"
            /\ workflows' = [workflows EXCEPT ![w] = row]
      BY <2>1, <1>1, SetWaitingRow
    <3>2. workflows[w].status = "RUNNING"
      BY <2>1 DEF SetWaiting, RunningFor
    <3> QED
      BY <1>1, <3>1, <3>2, SetRowKeepsRows DEF IInv, Exists
  <2>2. CASE UNCHANGED workflows
    BY <2>2 DEF IInv, TypeOK, LeaseConsistent, Exists
  <2> QED
    BY <1>2, <2>1, <2>2
<1>5. Idle \in Requests /\ Idle.op = "Idle"
  BY DEF Idle, Requests
<1>6. TypeOK'
  BY <1>3, <1>4, <1>5 DEF IInv, TypeOK, notTimers
<1>7. RequestsExist'
  <2>1. \A u \in Threads : thread'[u] \in {thread[u], Idle}
    BY <1>3 DEF IInv, TypeOK
  <2> QED
    BY <1>4, <2>1, RequestsKeepExisting DEF IInv
<1>8. LogContiguous' /\ LogOfExisting' /\ SchedulerBehind'
  BY <1>3, <1>4 DEF IInv, LogContiguous, LogOfExisting, SchedulerBehind, notTimers
<1> QED
  BY <1>4, <1>6, <1>7, <1>8 DEF IInv

-----------------------------------------------------------------------------
(* The scheduler *)

LEMMA TickStartInv ==
  ASSUME IInv, TickStart
  PROVE  IInv'
<1>1. sched' = [pc |-> "fire", now |-> clock]
  BY DEF TickStart
<1>2. UNCHANGED <<workflows, events, timers, thread, notTimers>>
  BY DEF TickStart
<1>3. TypeOK'
  BY <1>1, <1>2, BoundAssumption DEF IInv, TypeOK, SchedulerStates, notTimers
<1>4. SchedulerBehind'
  BY <1>1, <1>2, BoundAssumption DEF IInv, TypeOK, SchedulerBehind, notTimers
<1>5. LeaseConsistent' /\ LogContiguous' /\ LogOfExisting' /\ RequestsExist'
  BY <1>2 DEF IInv, LeaseConsistent, LogContiguous, LogOfExisting,
              RequestsExist, Exists
<1> QED
  BY <1>3, <1>4, <1>5 DEF IInv

\* A transaction of the scheduler puts some workflows that hold a lease back
\* in the queue: rows stay consistent and no workflow disappears.
LEMMA RequeueSome ==
  ASSUME IInv, NEW S \in SUBSET Workflows,
         \A w \in S : workflows[w].status \in Leased,
         workflows' = [w \in Workflows |->
                         IF w \in S THEN Requeued(workflows[w]) ELSE workflows[w]]
  PROVE  /\ workflows' \in [Workflows -> WorkflowRow]
         /\ LeaseConsistent'
         /\ \A w \in Workflows : Exists(w)' <=> Exists(w)
<1>1. \A w \in Workflows :
        /\ workflows'[w] \in WorkflowRow
        /\ RowConsistent(workflows'[w])
        /\ workflows'[w].status # "ABSENT" <=> workflows[w].status # "ABSENT"
  <2> TAKE w \in Workflows
  <2>1. workflows[w] \in WorkflowRow /\ RowConsistent(workflows[w])
    BY DEF IInv, TypeOK, LeaseConsistent
  <2>2. CASE w \in S
    <3>1. workflows'[w] = Requeued(workflows[w])
      BY <2>2
    <3>2. workflows[w].status \in Leased
      BY <2>2
    <3>3. workflows[w].status \notin Terminal /\ workflows[w].status # "ABSENT"
      BY <3>2 DEF Leased, Terminal
    <3> QED
      BY <2>1, <3>1, <3>3, RequeuedRow
  <2>3. CASE w \notin S
    BY <2>1, <2>3
  <2> QED
    BY <2>2, <2>3
<1>2. workflows' \in [Workflows -> WorkflowRow]
  BY <1>1
<1> QED
  BY <1>1, <1>2 DEF LeaseConsistent, Exists

\* The timers that fireExpiredTimers selects for one workflow.
LEMMA TimersToFireFinite ==
  ASSUME TypeOK, NEW w \in Workflows, NEW now
  PROVE  /\ IsFiniteSet(TimersToFire(w, now))
         /\ Cardinality(TimersToFire(w, now)) \in Nat
         /\ TimersToFire(w, now) = {} => Cardinality(TimersToFire(w, now)) = 0
<1>1. DOMAIN timers = 1..Len(timers) /\ Len(timers) \in Nat
  BY LenProperties DEF TypeOK
<1>2. IsFiniteSet(DOMAIN timers)
  BY <1>1, FS_Interval
<1>3. TimersToFire(w, now) \in SUBSET (DOMAIN timers)
  BY DEF TimersToFire, DueTimers
<1>4. IsFiniteSet(TimersToFire(w, now))
  BY <1>2, <1>3, FS_Subset
<1> QED
  BY <1>4, FS_CardinalityType, FS_EmptySet

LEMMA FireExpiredTimersInv ==
  ASSUME IInv, FireExpiredTimers
  PROVE  IInv'
<1> DEFINE due(w) == TimersToFire(w, sched.now)
           S == {w \in Workflows : due(w) # {}}
<1>1. /\ sched' = [sched EXCEPT !.pc = "expire"]
      /\ UNCHANGED <<thread, notTimers>>
  BY DEF FireExpiredTimers
<1>2. \A w \in S : workflows[w].status \in Leased
  BY DEF TimersToFire, Leased
<1>3. workflows' = [w \in Workflows |->
                      IF w \in S THEN Requeued(workflows[w]) ELSE workflows[w]]
  BY DEF FireExpiredTimers
<1>4. events' = [w \in Workflows |->
                   AppendEvents(events[w], "TIMER_FIRED", Cardinality(due(w)))]
  BY DEF FireExpiredTimers
<1>5. /\ workflows' \in [Workflows -> WorkflowRow]
      /\ LeaseConsistent'
      /\ \A w \in Workflows : Exists(w)' <=> Exists(w)
  <2> HIDE DEF S
  <2> QED
    BY <1>2, <1>3, RequeueSome DEF S
<1>6. \A w \in Workflows :
        /\ events'[w] \in Seq(EventRow)
        /\ Len(events'[w]) = Len(events[w]) + Cardinality(due(w))
        /\ \A i \in DOMAIN events'[w] : events'[w][i].seq = i
  <2> TAKE w \in Workflows
  <2>1. events[w] \in Seq(EventRow) /\ \A i \in DOMAIN events[w] : events[w][i].seq = i
    BY DEF IInv, TypeOK, LogContiguous
  <2>2. Cardinality(due(w)) \in Nat
    BY TimersToFireFinite DEF IInv
  <2>3. events'[w] = AppendEvents(events[w], "TIMER_FIRED", Cardinality(due(w)))
    BY <1>4
  <2> DEFINE n == Cardinality(due(w))
             new == AppendEvents(events[w], "TIMER_FIRED", n)
  <2> HIDE DEF n
  <2>4. /\ new \in Seq(EventRow)
        /\ Len(new) = Len(events[w]) + n
        /\ \A i \in DOMAIN new : new[i].seq = i
    BY <2>1, <2>2, AppendEventsContiguous DEF EventTypes, n
  <2>5. events'[w] = new
    BY <2>3 DEF n
  <2> HIDE DEF new
  <2> QED
    BY <2>4, <2>5 DEF n
<1>7. events' \in [Workflows -> Seq(EventRow)] /\ LogContiguous'
  BY <1>4, <1>6 DEF LogContiguous
<1>8. timers' \in Seq(TimerRow)
  <2>1. DOMAIN timers = 1..Len(timers) /\ Len(timers) \in Nat
    BY LenProperties DEF IInv, TypeOK
  <2>2. \A i \in DOMAIN timers :
          [timers[i] EXCEPT !.fired = @ \/ i \in due(timers[i].wf)] \in TimerRow
    <3> TAKE i \in DOMAIN timers
    <3>1. timers[i] \in TimerRow
      BY <2>1, ElementOfSeq DEF IInv, TypeOK
    <3>2. (timers[i].fired \/ i \in due(timers[i].wf)) \in BOOLEAN
      OBVIOUS
    <3> QED
      BY <3>1, <3>2 DEF TimerRow
  <2>3. timers' \in [1..Len(timers) -> TimerRow]
    BY <2>1, <2>2 DEF FireExpiredTimers
  <2> QED
    BY <2>1, <2>3, SeqDef
<1>9. LogOfExisting'
  <2> SUFFICES ASSUME NEW w \in Workflows, ~Exists(w)'
               PROVE  events'[w] = <<>>
    BY DEF LogOfExisting
  <2>1. ~Exists(w) /\ events[w] = <<>>
    BY <1>5 DEF IInv, LogOfExisting
  <2>2. due(w) = {}
    BY <2>1 DEF TimersToFire, Exists
  <2>3. Cardinality(due(w)) = 0
    BY <2>2, TimersToFireFinite DEF IInv
  <2>4. Len(events'[w]) = 0
    BY <1>6, <2>1, <2>3
  <2> QED
    BY <1>6, <2>4, EmptySeq
<1>10. TypeOK'
  BY <1>1, <1>5, <1>7, <1>8 DEF IInv, TypeOK, SchedulerStates, notTimers
<1>11. RequestsExist'
  BY <1>1, <1>5, RequestsKeepExisting DEF IInv
<1>12. SchedulerBehind'
  BY <1>1 DEF IInv, TypeOK, SchedulerBehind, SchedulerStates, notTimers
<1> QED
  BY <1>5, <1>7, <1>9, <1>10, <1>11, <1>12 DEF IInv

LEMMA ExpireLeasesInv ==
  ASSUME IInv, ExpireLeases
  PROVE  IInv'
<1> DEFINE S == {w \in Workflows :
                   workflows[w].status = "RUNNING" /\ Expired(w, sched.now)}
<1>1. sched' = SchedulerIdle /\ UNCHANGED <<events, timers, thread, notTimers>>
  BY DEF ExpireLeases
<1>2. \A w \in S : workflows[w].status \in Leased
  BY DEF Leased
<1>3. workflows' = [w \in Workflows |->
                      IF w \in S THEN Requeued(workflows[w]) ELSE workflows[w]]
  BY DEF ExpireLeases
<1>4. /\ workflows' \in [Workflows -> WorkflowRow]
      /\ LeaseConsistent'
      /\ \A w \in Workflows : Exists(w)' <=> Exists(w)
  <2> HIDE DEF S
  <2> QED
    BY <1>2, <1>3, RequeueSome DEF S
<1>5. TypeOK'
  BY <1>1, <1>4 DEF IInv, TypeOK, SchedulerIdle, SchedulerStates, notTimers
<1>6. RequestsExist'
  BY <1>1, <1>4, RequestsKeepExisting DEF IInv
<1>7. LogContiguous' /\ LogOfExisting'
  BY <1>1, <1>4 DEF IInv, LogContiguous, LogOfExisting
<1>8. SchedulerBehind'
  BY <1>1, BoundAssumption DEF IInv, TypeOK, SchedulerBehind, SchedulerIdle, notTimers
<1> QED
  BY <1>4, <1>5, <1>6, <1>7, <1>8 DEF IInv

-----------------------------------------------------------------------------
(* The clock and the server *)

LEMMA PassSecondInv ==
  ASSUME IInv, PassSecond
  PROVE  IInv'
<1>1. TypeOK'
  BY BoundAssumption DEF IInv, TypeOK, PassSecond, tables
<1>2. SchedulerBehind'
  BY BoundAssumption DEF IInv, TypeOK, SchedulerBehind, SchedulerStates, PassSecond
<1>3. LeaseConsistent' /\ LogContiguous' /\ LogOfExisting' /\ RequestsExist'
  BY DEF IInv, LeaseConsistent, LogContiguous, LogOfExisting, RequestsExist,
         Exists, PassSecond, tables
<1> QED
  BY <1>1, <1>2, <1>3 DEF IInv

LEMMA CrashInv ==
  ASSUME IInv, Crash
  PROVE  IInv'
<1>1. Idle \in Requests /\ Idle.op = "Idle"
  BY DEF Idle, Requests
<1>2. TypeOK'
  BY <1>1, BoundAssumption
     DEF IInv, TypeOK, Crash, tables, SchedulerIdle, SchedulerStates
<1>3. RequestsExist'
  BY <1>1 DEF RequestsExist, Crash
<1>4. SchedulerBehind'
  BY BoundAssumption DEF IInv, TypeOK, SchedulerBehind, SchedulerIdle, Crash
<1>5. LeaseConsistent' /\ LogContiguous' /\ LogOfExisting'
  BY DEF IInv, LeaseConsistent, LogContiguous, LogOfExisting, Exists, Crash, tables
<1> QED
  BY <1>2, <1>3, <1>4, <1>5 DEF IInv

-----------------------------------------------------------------------------
(* The theorems *)

LEMMA InitInv == Init => IInv
<1> SUFFICES ASSUME Init PROVE IInv
  OBVIOUS
<1>1. NoWorkflow \in WorkflowRow /\ RowConsistent(NoWorkflow)
      /\ NoWorkflow.status = "ABSENT"
  BY DEF NoWorkflow, WorkflowRow, RowConsistent, Leased, Terminal
<1>2. Idle \in Requests /\ Idle.op = "Idle"
  BY DEF Idle, Requests
<1>3. TypeOK
  BY <1>1, <1>2, BoundAssumption, EmptySeq
     DEF Init, TypeOK, StepStatuses, SchedulerIdle, SchedulerStates
<1>4. LeaseConsistent
  BY <1>1 DEF Init, LeaseConsistent
<1>5. LogContiguous /\ LogOfExisting
  BY DEF Init, LogContiguous, LogOfExisting
<1>6. RequestsExist /\ SchedulerBehind
  BY <1>2, BoundAssumption DEF Init, RequestsExist, SchedulerBehind, SchedulerIdle
<1> QED
  BY <1>3, <1>4, <1>5, <1>6 DEF IInv

LEMMA NextInv == IInv /\ [Next]_vars => IInv'
<1> SUFFICES ASSUME IInv, [Next]_vars PROVE IInv'
  OBVIOUS
<1>1. CASE LeaseStep
  <2>1. PICK w \in Workflows, k \in Workers :
          \/ \E d \in LeaseSeconds : RenewLease(w, k, d)
          \/ ReleaseLease(w, k)
          \/ CompleteWorkflow(w, k) \/ FailWorkflow(w, k)
          \/ MarkWaiting(w, k)
          \/ \E s \in StepNumbers : CompleteStep(w, k, s)
    BY <1>1 DEF LeaseStep
  <2> QED
    BY <2>1, RenewLeaseInv, ReleaseLeaseInv, CloseWorkflowInv, MarkWaitingInv,
       CompleteStepInv
<1>2. CASE ClientStep
  BY <1>2, CreateWorkflowInv, SendSignalInv, ConsumeSignalInv, CreateTimerInv,
     AcquireLeaseInv DEF ClientStep
<1>3. CASE RequestStep
  <2>1. PICK t \in Threads :
          \/ \E w \in Workflows, k \in Workers :
               \/ \E s \in StepNumbers, op \in {"StartStep", "FailStep"} :
                    VerifyLease(t, op, w, k, s)
               \/ \E count \in 0..MaxRetries : RetryStep(t, w, k, count)
          \/ StartStep(t)
          \/ FailStep(t)
          \/ RetryStepWait(t)
    BY <1>3 DEF RequestStep
  <2> QED
    BY <2>1, VerifyLeaseInv, RetryStepInv, StepWriteInv, RetryStepWaitInv
<1>4. CASE SchedulerStep
  BY <1>4, TickStartInv, FireExpiredTimersInv, ExpireLeasesInv DEF SchedulerStep
<1>5. CASE PassSecond
  BY <1>5, PassSecondInv
<1>6. CASE Crash
  BY <1>6, CrashInv
<1>7. CASE UNCHANGED vars
  BY <1>7 DEF IInv, TypeOK, LeaseConsistent, LogContiguous, LogOfExisting,
              RequestsExist, SchedulerBehind, Exists, vars, tables
<1> QED
  BY <1>1, <1>2, <1>3, <1>4, <1>5, <1>6, <1>7 DEF Next

\* The inductive invariant holds in every reachable state.
THEOREM Invariance == Spec => []IInv
<1>1. Init => IInv
  BY InitInv
<1>2. IInv /\ [Next]_vars => IInv'
  BY NextInv
<1> QED
  BY <1>1, <1>2, PTL DEF Spec

\* Every table and every process variable stays within its type.
THEOREM TypeCorrect == Spec => []TypeOK
<1>1. IInv => TypeOK
  BY DEF IInv
<1> QED
  BY <1>1, Invariance, PTL

\* A workflow has an owner exactly while it is RUNNING or WAITING, an expiry
\* time exactly while it has an owner, and a completion time exactly when it
\* is COMPLETED or FAILED.
THEOREM LeasesConsistent == Spec => []LeaseConsistent
<1>1. IInv => LeaseConsistent
  BY DEF IInv
<1> QED
  BY <1>1, Invariance, PTL

\* The sequence numbers of every workflow are 1, 2, 3, ... without a gap or a
\* duplicate, although the schema does not make them unique.
THEOREM LogsContiguous == Spec => []LogContiguous
<1>1. IInv => LogContiguous
  BY DEF IInv
<1> QED
  BY <1>1, Invariance, PTL

-----------------------------------------------------------------------------
(* A row changes only as its lease and its status allow *)

\* What one step may do to the row of w.  Every change is an operation of the
\* owner, a takeover through AcquireLease, or a step of the scheduler.
RowStep(w) ==
  \/ workflows'[w] = workflows[w]
  \/ workflows[w].status = "ABSENT"
  \/ /\ workflows[w].owner # None
     /\ workflows'[w].owner \in {workflows[w].owner, None}
     /\ sched' = sched
  \/ \E now \in Nows : Eligible(w, now) /\ sched' = sched
  \/ workflows[w].status = "WAITING"
  \/ /\ workflows[w].status = "RUNNING" /\ Expired(w, sched.now)

LEMMA SetRowStep ==
  ASSUME IInv, NEW u \in Workflows, NEW w \in Workflows, NEW row,
         workflows' = [workflows EXCEPT ![u] = row]
  PROVE  /\ w # u => workflows'[w] = workflows[w]
         /\ w = u => workflows'[w] = row
BY DEF IInv, TypeOK

LEMMA OwnerStep ==
  ASSUME IInv, NEW w \in Workflows, LeaseStep
  PROVE  RowStep(w)
<1>1. PICK u \in Workflows, k \in Workers :
        \/ \E d \in LeaseSeconds : RenewLease(u, k, d)
        \/ ReleaseLease(u, k)
        \/ CompleteWorkflow(u, k)
        \/ FailWorkflow(u, k)
        \/ MarkWaiting(u, k)
        \/ \E s \in StepNumbers : CompleteStep(u, k, s)
  BY DEF LeaseStep
<1>2. workflows[u] \in WorkflowRow
  BY DEF IInv, TypeOK
<1>3. workflows[u].owner = k /\ sched' = sched
  BY <1>1 DEF RenewLease, ReleaseLease, CompleteWorkflow, FailWorkflow,
              MarkWaiting, SetWaiting, CompleteStep, HoldsLease, RunningFor,
              notLeases, notSteps
<1>4. \E row : /\ workflows' = [workflows EXCEPT ![u] = row]
               /\ row.owner \in {k, None}
  <2>1. CASE \E d \in LeaseSeconds : RenewLease(u, k, d)
    <3>1. PICK now, d : workflows' = [workflows EXCEPT ![u].expires = now + d]
      BY <2>1 DEF RenewLease
    <3> DEFINE row == [workflows[u] EXCEPT !.expires = now + d]
    <3>2. workflows' = [workflows EXCEPT ![u] = row] /\ row.owner = k
      BY <3>1, <1>2, <1>3 DEF IInv, TypeOK, WorkflowRow
    <3> QED
      BY <3>2
  <2>2. CASE ReleaseLease(u, k)
    <3>1. workflows' = [workflows EXCEPT ![u] = Requeued(workflows[u])]
      BY <2>2 DEF ReleaseLease
    <3>2. Requeued(workflows[u]).owner = None
      BY <1>2 DEF Requeued, WorkflowRow
    <3> QED
      BY <3>1, <3>2
  <2>3. CASE CompleteWorkflow(u, k) \/ FailWorkflow(u, k)
    <3>1. PICK status : workflows' = [workflows EXCEPT ![u] = Closed(workflows[u], status)]
      BY <2>3 DEF CompleteWorkflow, FailWorkflow
    <3>2. Closed(workflows[u], status).owner = None
      BY <1>2 DEF Closed, WorkflowRow
    <3> QED
      BY <3>1, <3>2
  <2>4. CASE MarkWaiting(u, k)
    <3> DEFINE row == [workflows[u] EXCEPT !.status = "WAITING"]
    <3>1. workflows' = [workflows EXCEPT ![u] = row] /\ row.owner = k
      BY <2>4, <1>2, <1>3 DEF MarkWaiting, SetWaiting, IInv, TypeOK, WorkflowRow
    <3> QED
      BY <3>1
  <2>5. CASE \E s \in StepNumbers : CompleteStep(u, k, s)
    <3>1. workflows' = [workflows EXCEPT ![u] = Advanced(workflows[u])]
      BY <2>5 DEF CompleteStep
    <3>2. Advanced(workflows[u]).owner = k
      BY <1>2, <1>3, AdvancedRow
    <3> QED
      BY <3>1, <3>2
  <2> QED
    BY <1>1, <2>1, <2>2, <2>3, <2>4, <2>5
<1>5. k # None
  BY NoneAssumption
<1> QED
  BY <1>3, <1>4, <1>5, SetRowStep DEF RowStep

LEMMA NextRowStep ==
  ASSUME IInv, [Next]_vars, NEW w \in Workflows
  PROVE  RowStep(w)
<1>1. CASE LeaseStep
  BY <1>1, OwnerStep
<1>2. CASE ClientStep
  <2>1. CASE \E u \in Workflows : CreateWorkflow(u)
    <3>1. PICK u \in Workflows : CreateWorkflow(u)
      BY <2>1
    <3>2. PICK now : workflows' = [workflows EXCEPT ![u] = Created(now)]
      BY <3>1 DEF CreateWorkflow
    <3>3. workflows[u].status = "ABSENT"
      BY <3>1 DEF CreateWorkflow, Exists
    <3> QED
      BY <3>2, <3>3, SetRowStep DEF RowStep
  <2>2. CASE \E u \in Workflows : \/ SendSignal(u) \/ ConsumeSignal(u)
                                  \/ \E wake \in WakeTimes : CreateTimer(u, wake)
    BY <2>2 DEF RowStep, SendSignal, ConsumeSignal, TakeSignal, CreateTimer,
               notSignals
  <2>3. CASE \E k \in Workers, d \in LeaseSeconds : AcquireLease(k, d)
    <3>1. PICK k \in Workers, d \in LeaseSeconds : AcquireLease(k, d)
      BY <2>3
    <3>2. PICK now \in Nows, u \in Workflows : LeaseTo(u, k, d, now)
      BY <3>1 DEF AcquireLease
    <3>3. /\ workflows' = [workflows EXCEPT ![u] = Taken(@, k, now + d)]
          /\ UNCHANGED notLeases
      BY <3>2 DEF LeaseTo
    <3>4. Eligible(u, now)
      BY <3>2 DEF LeaseTo, Oldest
    <3>5. CASE w = u
      BY <3>3, <3>4, <3>5 DEF RowStep, notLeases
    <3>6. CASE w # u
      BY <3>3, <3>6 DEF RowStep, IInv, TypeOK
    <3> QED
      BY <3>5, <3>6
  <2> QED
    BY <1>2, <2>1, <2>2, <2>3 DEF ClientStep
<1>3. CASE RequestStep
  <2>1. PICK t \in Threads :
          \/ \E u \in Workflows, k \in Workers :
               \/ \E s \in StepNumbers, op \in {"StartStep", "FailStep"} :
                    VerifyLease(t, op, u, k, s)
               \/ \E count \in 0..MaxRetries : RetryStep(t, u, k, count)
          \/ StartStep(t)
          \/ FailStep(t)
          \/ RetryStepWait(t)
    BY <1>3 DEF RequestStep
  <2>2. CASE UNCHANGED workflows
    BY <2>2 DEF RowStep
  <2>3. CASE RetryStepWait(t) /\ ~UNCHANGED workflows
    <3> DEFINE u == thread[t].wf
               row == [workflows[u] EXCEPT !.status = "WAITING"]
    <3>1. SetWaiting(u, thread[t].worker) /\ sched' = sched
      BY <2>3 DEF RetryStepWait
    <3>2. u \in Workflows /\ thread[t].worker \in Workers
      <4>1. thread[t] \in Requests /\ thread[t].op = "RetryStep"
        BY <2>3 DEF RetryStepWait, IInv, TypeOK
      <4> QED
        BY <4>1 DEF Requests, Idle
    <3>3. workflows[u] \in WorkflowRow
      BY <3>2 DEF IInv, TypeOK
    <3>4. workflows[u].owner = thread[t].worker /\ workflows[u].owner # None
      BY <3>1, <3>2, NoneAssumption DEF SetWaiting, RunningFor
    <3>5. workflows' = [workflows EXCEPT ![u] = row] /\ row.owner = workflows[u].owner
      BY <3>1, <3>2, <3>3 DEF SetWaiting, IInv, TypeOK, WorkflowRow
    <3> HIDE DEF u, row
    <3> QED
      BY <3>1, <3>2, <3>4, <3>5, SetRowStep DEF RowStep
  <2> QED
    BY <2>1, <2>2, <2>3 DEF VerifyLease, RetryStep, StartStep, FailStep
<1>4. CASE SchedulerStep
  <2>1. CASE TickStart
    BY <2>1 DEF TickStart, RowStep
  <2>2. CASE FireExpiredTimers
    BY <2>2 DEF FireExpiredTimers, TimersToFire, RowStep
  <2>3. CASE ExpireLeases
    BY <2>3 DEF ExpireLeases, RowStep
  <2> QED
    BY <1>4, <2>1, <2>2, <2>3 DEF SchedulerStep
<1>5. CASE PassSecond \/ Crash \/ UNCHANGED vars
  BY <1>5 DEF PassSecond, Crash, vars, tables, RowStep
<1> QED
  BY <1>1, <1>2, <1>3, <1>4, <1>5 DEF Next

\* Once COMPLETED or FAILED, a workflow's row never changes again.
THEOREM TerminalIsFinal == Spec => TerminalFinal
<1>1. ASSUME IInv, [Next]_vars, NEW w \in Workflows,
             workflows[w].status \in Terminal
      PROVE  workflows'[w] = workflows[w]
  <2>1. RowConsistent(workflows[w])
    BY <1>1 DEF IInv, LeaseConsistent
  <2>2. workflows[w].owner = None /\ workflows[w].expires = None
    BY <1>1, <2>1 DEF RowConsistent, Leased, Terminal
  <2>3. RowStep(w)
    BY <1>1, NextRowStep
  <2> QED
    BY <1>1, <2>2, <2>3 DEF RowStep, Eligible, Expired, Terminal
<1>2. IInv /\ [Next]_vars =>
        [\A w \in Workflows : workflows[w].status \in Terminal =>
           workflows'[w] = workflows[w]]_vars
  BY <1>1
<1> QED
  BY <1>2, Invariance, PTL DEF Spec, TerminalFinal

\* A RUNNING workflow whose lease is live on the real clock is neither given
\* to another worker nor touched by the scheduler.
THEOREM LiveLeaseIsKept == Spec => LiveLeaseKept
<1>1. ASSUME IInv, [Next]_vars, NEW w \in Workflows,
             workflows[w].status = "RUNNING", clock < workflows[w].expires
      PROVE  /\ workflows'[w].owner \in {workflows[w].owner, None}
             /\ sched' # sched => workflows'[w] = workflows[w]
  <2>1. RowStep(w)
    BY <1>1, NextRowStep
  <2>2. workflows[w].expires \in Int
    <3>1. workflows[w] \in WorkflowRow /\ RowConsistent(workflows[w])
      BY <1>1 DEF IInv, TypeOK, LeaseConsistent
    <3> QED
      BY <1>1, <3>1 DEF WorkflowRow, RowConsistent, Leased
  <2>3. clock \in Int /\ sched.now \in Int /\ sched.now <= clock
    BY <1>1 DEF IInv, TypeOK, SchedulerBehind, SchedulerStates
  <2>4. \A now \in Nows : ~Eligible(w, now)
    BY <1>1, <2>2, <2>3 DEF Nows, Eligible, Expired
  <2>5. ~Expired(w, sched.now)
    BY <1>1, <2>2, <2>3 DEF Expired
  <2> QED
    BY <1>1, <2>1, <2>4, <2>5 DEF RowStep
<1>2. IInv /\ [Next]_vars =>
        [\A w \in Workflows :
          (workflows[w].status = "RUNNING" /\ clock < workflows[w].expires) =>
            /\ workflows'[w].owner \in {workflows[w].owner, None}
            /\ sched' # sched => workflows'[w] = workflows[w]]_vars
  BY <1>1
<1> QED
  BY <1>2, Invariance, PTL DEF Spec, LiveLeaseKept

-----------------------------------------------------------------------------
(* Every step of the engine is of one of a few kinds.  What the theorems   *)
(* about the log, the leases and the refinements need of the twenty        *)
(* actions is stated here once, and proved for each action.                *)

-----------------------------------------------------------------------------
(* The kinds *)

\* No row of a workflow, no event and no step changes; a timer that has not
\* fired may be added and a signal may be consumed.
Quiet ==
  /\ UNCHANGED <<workflows, events, steps>>
  /\ \/ UNCHANGED timers
     \/ \E w \in Workflows, wake \in Int : AddTimer(w, wake)
  /\ \/ UNCHANGED signals
     \/ \E i \in DOMAIN signals : signals' = [signals EXCEPT ![i].consumed = TRUE]
  /\ UNCHANGED clock \/ (clock' = clock + 1 /\ UNCHANGED sched)

\* A row changes without an event: renewal, release, waiting.
SilentRow(old, row) ==
  /\ old.owner # None
  /\ \/ old.status = "RUNNING" /\ \E e \in 0..MaxTime : row = [old EXCEPT !.expires = e]
     \/ row = Requeued(old)
     \/ old.status = "RUNNING" /\ row = [old EXCEPT !.status = "WAITING"]

Silent(w) ==
  /\ workflows' = [workflows EXCEPT ![w] = workflows'[w]]
  /\ SilentRow(workflows[w], workflows'[w])
  /\ UNCHANGED <<clock, sched, events, steps, timers, signals>>

\* A row changes with an event of the given type.
LeasedRow(old, row, type, w) ==
  \/ /\ type = "WORKFLOW_CREATED" /\ old.status = "ABSENT"
     /\ \E now \in Nows : row = Created(now)
  \/ /\ type = "WORKFLOW_STARTED"
     /\ \E now \in Nows, k \in Workers, d \in LeaseSeconds :
          Eligible(w, now) /\ now + d <= MaxTime /\ row = Taken(old, k, now + d)
  \/ /\ type \in {"WORKFLOW_COMPLETED", "WORKFLOW_FAILED"}
     /\ old.status = "RUNNING" /\ old.owner # None
     /\ \E status \in Terminal : row = Closed(old, status)

Lifecycle(w, type) ==
  /\ workflows' = [workflows EXCEPT ![w] = workflows'[w]]
  /\ LeasedRow(workflows[w], workflows'[w], type, w)
  /\ Emit(w, type)
  /\ UNCHANGED <<clock, sched, steps, timers, signals>>

\* An event of a step or a signal.
Checkpoint(w) ==
  /\ workflows[w].owner # None
  /\ workflows' = [workflows EXCEPT ![w] = Advanced(workflows[w])]
  /\ Emit(w, "STEP_COMPLETED")
  /\ \E s \in StepNumbers : /\ steps[w][s] # "COMPLETED"
                            /\ steps' = [steps EXCEPT ![w][s] = "COMPLETED"]
  /\ UNCHANGED <<clock, sched, timers, signals>>

LateStep(w, type) ==
  /\ type \in {"STEP_STARTED", "STEP_FAILED"}
  /\ \E t \in Threads : thread[t].op \in {"StartStep", "FailStep"} /\ thread[t].wf = w
  /\ Emit(w, type)
  /\ \E s \in StepNumbers :
       \/ steps' = [steps EXCEPT ![w][s] = "FAILED"]
       \/ steps' = [steps EXCEPT ![w][s] = IF @ = "ABSENT" THEN "RUNNING" ELSE @]
  /\ UNCHANGED <<clock, sched, workflows, timers, signals>>

Signalled(w) ==
  /\ Exists(w)
  /\ \E now \in Nows :
       signals' = Append(signals, [wf |-> w, created |-> now, consumed |-> FALSE])
  /\ Emit(w, "SIGNAL_RECEIVED")
  /\ UNCHANGED <<clock, sched, workflows, steps, timers>>

\* The two transactions of a scheduler cycle are the remaining kinds.
StepOfKind ==
  \/ Quiet
  \/ \E w \in Workflows :
       \/ Silent(w)
       \/ \E type \in EventTypes : Lifecycle(w, type)
       \/ Checkpoint(w)
       \/ \E type \in EventTypes : LateStep(w, type)
       \/ Signalled(w)
  \/ FireExpiredTimers
  \/ ExpireLeases

-----------------------------------------------------------------------------
(* The actions *)

\* A row put in place of the row of w is its next row.
LEMMA RowInPlace ==
  ASSUME TypeOK, NEW w \in Workflows, NEW row,
         workflows' = [workflows EXCEPT ![w] = row]
  PROVE  /\ workflows'[w] = row
         /\ workflows' = [workflows EXCEPT ![w] = workflows'[w]]
         /\ \A v \in Workflows : v # w => workflows'[v] = workflows[v]
BY DEF TypeOK

LEMMA LeaseStepKind ==
  ASSUME IInv, LeaseStep
  PROVE  StepOfKind
<1>1. PICK w \in Workflows, k \in Workers :
        \/ \E d \in LeaseSeconds : RenewLease(w, k, d)
        \/ ReleaseLease(w, k)
        \/ CompleteWorkflow(w, k)
        \/ FailWorkflow(w, k)
        \/ MarkWaiting(w, k)
        \/ \E s \in StepNumbers : CompleteStep(w, k, s)
  BY DEF LeaseStep
<1>2. TypeOK /\ workflows[w] \in WorkflowRow /\ k # None
  BY NoneAssumption DEF IInv, TypeOK
<1>3. CASE \E d \in LeaseSeconds : RenewLease(w, k, d)
  <2>1. PICK d \in LeaseSeconds, now \in Nows :
          /\ now + d <= MaxTime
          /\ workflows' = [workflows EXCEPT ![w].expires = now + d]
    BY <1>3 DEF RenewLease
  <2>2. now + d \in 0..MaxTime
    BY <2>1, LeaseAssumption, BoundAssumption DEF Nows
  <2> DEFINE e == now + d
             row == [workflows[w] EXCEPT !.expires = e]
  <2>3. workflows' = [workflows EXCEPT ![w] = row]
    BY <2>1
  <2>4. workflows[w].status = "RUNNING" /\ workflows[w].owner # None
    BY <1>3, <1>2 DEF RenewLease, RunningFor
  <2>5. \E x \in 0..MaxTime : row = [workflows[w] EXCEPT !.expires = x]
    <3> HIDE DEF e
    <3> QED
      BY <2>2 DEF e
  <2>6. UNCHANGED <<clock, sched, events, steps, timers, signals>>
    BY <1>3 DEF RenewLease, notLeases
  <2> HIDE DEF row, e
  <2>7. SilentRow(workflows[w], row)
    BY <2>4, <2>5 DEF SilentRow
  <2>8. Silent(w)
    BY <1>2, <2>3, <2>6, <2>7, RowInPlace DEF Silent
  <2> QED
    BY <2>8 DEF StepOfKind
<1>4. CASE ReleaseLease(w, k)
  <2>1. workflows' = [workflows EXCEPT ![w] = Requeued(workflows[w])]
    BY <1>4 DEF ReleaseLease
  <2>2. Silent(w)
    BY <1>2, <1>4, <2>1, RowInPlace DEF Silent, SilentRow, ReleaseLease, notLeases
  <2> QED
    BY <2>2 DEF StepOfKind
<1>5. CASE MarkWaiting(w, k)
  <2> DEFINE row == [workflows[w] EXCEPT !.status = "WAITING"]
  <2>1. workflows' = [workflows EXCEPT ![w] = row]
    BY <1>5 DEF MarkWaiting, SetWaiting
  <2>2. workflows[w].status = "RUNNING" /\ workflows[w].owner # None
    BY <1>5, <1>2 DEF MarkWaiting, SetWaiting, RunningFor
  <2>3. Silent(w)
    BY <1>2, <1>5, <2>1, <2>2, RowInPlace
       DEF Silent, SilentRow, MarkWaiting, notLeases
  <2> QED
    BY <2>3 DEF StepOfKind
<1>6. CASE CompleteWorkflow(w, k) \/ FailWorkflow(w, k)
  <2>1. PICK status \in Terminal, type \in {"WORKFLOW_COMPLETED", "WORKFLOW_FAILED"} :
          /\ workflows' = [workflows EXCEPT ![w] = Closed(workflows[w], status)]
          /\ Emit(w, type)
    BY <1>6 DEF CompleteWorkflow, FailWorkflow, Terminal
  <2>2. /\ RunningFor(w, k)
        /\ UNCHANGED notLeases
    BY <1>6 DEF CompleteWorkflow, FailWorkflow
  <2>3. LeasedRow(workflows[w], workflows'[w], type, w)
    BY <1>2, <2>1, <2>2, RowInPlace DEF LeasedRow, RunningFor
  <2>4. Lifecycle(w, type)
    BY <1>2, <2>1, <2>2, <2>3, RowInPlace DEF Lifecycle, notLeases
  <2> QED
    BY <2>1, <2>4 DEF StepOfKind, EventTypes
<1>7. CASE \E s \in StepNumbers : CompleteStep(w, k, s)
  <2>1. Checkpoint(w)
    BY <1>7, <1>2 DEF CompleteStep, HoldsLease, Checkpoint, notSteps
  <2> QED
    BY <2>1 DEF StepOfKind
<1> QED
  BY <1>1, <1>3, <1>4, <1>5, <1>6, <1>7

LEMMA ClientStepKind ==
  ASSUME IInv, ClientStep
  PROVE  StepOfKind
<1>1. CASE \E w \in Workflows : CreateWorkflow(w)
  <2>1. PICK w \in Workflows : CreateWorkflow(w)
    BY <1>1
  <2>2. PICK now \in Nows : workflows' = [workflows EXCEPT ![w] = Created(now)]
    BY <2>1 DEF CreateWorkflow
  <2>3. Emit(w, "WORKFLOW_CREATED")
    <3>1. events[w] = <<>>
      BY <2>1 DEF IInv, LogOfExisting, CreateWorkflow
    <3>2. Append(<<>>, [type |-> "WORKFLOW_CREATED", seq |-> 1])
            = AppendEvents(<<>>, "WORKFLOW_CREATED", 1)
      BY DEF AppendEvents, NextSequence
    <3> QED
      BY <2>1, <3>1, <3>2 DEF CreateWorkflow, Emit
  <2>4. LeasedRow(workflows[w], workflows'[w], "WORKFLOW_CREATED", w)
    BY <2>1, <2>2, RowInPlace DEF IInv, LeasedRow, CreateWorkflow, Exists
  <2>5. Lifecycle(w, "WORKFLOW_CREATED")
    BY <2>1, <2>2, <2>3, <2>4, RowInPlace DEF IInv, Lifecycle, CreateWorkflow, notLeases
  <2> QED
    BY <2>5 DEF StepOfKind, EventTypes
<1>2. CASE \E w \in Workflows : SendSignal(w)
  BY <1>2 DEF SendSignal, StepOfKind, Signalled, notSignals
<1>3. CASE \E w \in Workflows : ConsumeSignal(w)
  BY <1>3 DEF ConsumeSignal, TakeSignal, StepOfKind, Quiet, notSignals
<1>4. CASE \E w \in Workflows, wake \in WakeTimes : CreateTimer(w, wake)
  BY <1>4, WakeAssumption DEF CreateTimer, StepOfKind, Quiet, notTimers
<1>5. CASE \E k \in Workers, d \in LeaseSeconds : AcquireLease(k, d)
  <2>1. PICK k \in Workers, d \in LeaseSeconds, now \in Nows, w \in Workflows :
          LeaseTo(w, k, d, now)
    BY <1>5 DEF AcquireLease
  <2>2. /\ workflows' = [workflows EXCEPT ![w] = Taken(workflows[w], k, now + d)]
        /\ now + d <= MaxTime /\ Eligible(w, now)
        /\ Emit(w, "WORKFLOW_STARTED") /\ UNCHANGED notLeases
    BY <2>1 DEF LeaseTo, Oldest
  <2> DEFINE row == Taken(workflows[w], k, now + d)
  <2>3. LeasedRow(workflows[w], workflows'[w], "WORKFLOW_STARTED", w)
    <3>1. \E n \in Nows, j \in Workers, x \in LeaseSeconds :
             Eligible(w, n) /\ n + x <= MaxTime /\ row = Taken(workflows[w], j, n + x)
      BY <2>2
    <3>2. workflows' = [workflows EXCEPT ![w] = row] /\ TypeOK
      BY <2>2 DEF IInv
    <3> HIDE DEF row
    <3>3. workflows'[w] = row
      BY <3>2, RowInPlace
    <3> QED
      BY <3>1, <3>3 DEF LeasedRow
  <2>4. Lifecycle(w, "WORKFLOW_STARTED")
    BY <2>2, <2>3, RowInPlace DEF IInv, Lifecycle, notLeases
  <2> QED
    BY <2>4 DEF StepOfKind, EventTypes
<1> QED
  BY <1>1, <1>2, <1>3, <1>4, <1>5 DEF ClientStep

LEMMA RequestStepKind ==
  ASSUME IInv, RequestStep
  PROVE  StepOfKind
<1>1. PICK t \in Threads :
        \/ \E w \in Workflows, k \in Workers :
             \/ \E s \in StepNumbers, op \in {"StartStep", "FailStep"} :
                  VerifyLease(t, op, w, k, s)
             \/ \E count \in 0..MaxRetries : RetryStep(t, w, k, count)
        \/ StartStep(t)
        \/ FailStep(t)
        \/ RetryStepWait(t)
  BY DEF RequestStep
<1>2. CASE \E w \in Workflows, k \in Workers, s \in StepNumbers,
              op \in {"StartStep", "FailStep"} : VerifyLease(t, op, w, k, s)
  BY <1>2 DEF VerifyLease, StepOfKind, Quiet, notSteps
<1>3. CASE \E w \in Workflows, k \in Workers, count \in 0..MaxRetries :
             RetryStep(t, w, k, count)
  <2>1. PICK w \in Workflows, count \in 0..MaxRetries, now \in Nows :
          AddTimer(w, now + NextDelay[count])
    BY <1>3 DEF RetryStep
  <2>2. now + NextDelay[count] \in Int
    BY RetryAssumption DEF Nows
  <2> QED
    BY <1>3, <2>1, <2>2 DEF RetryStep, StepOfKind, Quiet, notTimers
<1>4. CASE StartStep(t) \/ FailStep(t)
  <2>1. thread[t].wf \in Workflows /\ thread[t].step \in StepNumbers
    BY <1>4, StepRequest DEF StartStep, FailStep, IInv
  <2>2. CASE StartStep(t)
    <3>1. LateStep(thread[t].wf, "STEP_STARTED")
      BY <2>1, <2>2 DEF StartStep, LateStep, notSteps
    <3> QED
      BY <2>1, <3>1 DEF StepOfKind, EventTypes
  <2>3. CASE FailStep(t)
    <3>1. LateStep(thread[t].wf, "STEP_FAILED")
      BY <2>1, <2>3 DEF FailStep, LateStep, notSteps
    <3> QED
      BY <2>1, <3>1 DEF StepOfKind, EventTypes
  <2> QED
    BY <1>4, <2>2, <2>3
<1>5. CASE RetryStepWait(t)
  <2>1. CASE UNCHANGED workflows
    BY <1>5, <2>1 DEF RetryStepWait, StepOfKind, Quiet, notTimers
  <2>2. CASE SetWaiting(thread[t].wf, thread[t].worker)
    <3>1. thread[t] \in Requests /\ thread[t].op = "RetryStep"
      BY <1>5 DEF RetryStepWait, IInv, TypeOK
    <3>2. thread[t].wf \in Workflows /\ thread[t].worker \in Workers
      BY <3>1 DEF Requests, Idle
    <3> DEFINE w == thread[t].wf
               row == [workflows[w] EXCEPT !.status = "WAITING"]
    <3>3. workflows' = [workflows EXCEPT ![w] = row]
      BY <2>2 DEF SetWaiting
    <3>4. workflows[w].status = "RUNNING" /\ workflows[w].owner # None
      BY <2>2, <3>2, NoneAssumption DEF SetWaiting, RunningFor
    <3>5. SilentRow(workflows[w], row)
      BY <3>4 DEF SilentRow
    <3>6. w \in Workflows /\ TypeOK
      BY <3>2 DEF IInv
    <3>7. UNCHANGED <<clock, sched, events, steps, timers, signals>>
      BY <1>5 DEF RetryStepWait, notTimers
    <3> HIDE DEF w, row
    <3>8. Silent(w)
      BY <3>3, <3>5, <3>6, <3>7, RowInPlace DEF Silent
    <3> QED
      BY <3>6, <3>8 DEF StepOfKind
  <2> QED
    BY <1>5, <2>1, <2>2 DEF RetryStepWait
<1> QED
  BY <1>1, <1>2, <1>3, <1>4, <1>5

\* Whatever the engine does is of one of the kinds.
LEMMA EveryStepKind ==
  ASSUME IInv, [Next]_vars
  PROVE  StepOfKind
<1>1. CASE SchedulerStep
  BY <1>1 DEF SchedulerStep, TickStart, StepOfKind, Quiet, notTimers
<1>2. CASE PassSecond \/ Crash \/ UNCHANGED vars
  BY <1>2 DEF PassSecond, Crash, vars, tables, StepOfKind, Quiet
<1> QED
  BY <1>1, <1>2, LeaseStepKind, ClientStepKind, RequestStepKind DEF Next
=============================================================================
