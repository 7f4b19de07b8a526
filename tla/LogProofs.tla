------------------------------- MODULE LogProofs ----------------------------
(***************************************************************************)
(* The log counts what the tables hold: theorems about the rows, timers,   *)
(* signals and steps of a workflow and the numbers of its events.  Then    *)
(* the engine implements its two abstract specifications: every step is a  *)
(* step of the lease service of LeaseService, and of the event log of      *)
(* EventLog, or leaves the abstract state alone.                           *)
(***************************************************************************)
EXTENDS EngineProofs

-----------------------------------------------------------------------------
(* Counting events *)

\* The events of a log whose type is one of types.
Of(log, types) == {i \in DOMAIN log : log[i].type \in types}

\* What AppendEvents puts where.
LEMMA AppendedTypes ==
  ASSUME NEW log \in Seq(EventRow), \A i \in DOMAIN log : log[i].seq = i,
         NEW type \in EventTypes, NEW n \in Nat
  PROVE  LET new == AppendEvents(log, type, n) IN
         /\ DOMAIN log = 1..Len(log) /\ Len(log) \in Nat
         /\ DOMAIN new = 1..(Len(log) + n)
         /\ \A i \in 1..Len(log) : new[i] = log[i]
         /\ \A i \in (Len(log) + 1)..(Len(log) + n) : new[i].type = type
<1> DEFINE tail == [i \in 1..n |-> [type |-> type, seq |-> NextSequence(log) + i - 1]]
<1>1. Len(log) \in Nat /\ DOMAIN log = 1..Len(log)
  BY LenProperties
<1>2. NextSequence(log) = Len(log) + 1
  BY NextSequenceIsNext
<1>3. \A i \in 1..n : tail[i] \in EventRow /\ tail[i].type = type
  BY <1>1, <1>2 DEF EventRow
<1>4. tail \in Seq(EventRow) /\ Len(tail) = n
  <2>1. tail \in [1..n -> EventRow]
    BY <1>3
  <2> QED
    BY <2>1, SeqDef
<1> HIDE DEF tail
<1>5. /\ Len(log \o tail) = Len(log) + n
      /\ log \o tail \in Seq(EventRow)
      /\ \A i \in 1..(Len(log) + n) :
           (log \o tail)[i] = IF i <= Len(log) THEN log[i] ELSE tail[i - Len(log)]
  BY <1>4, ConcatProperties
<1>6. DOMAIN (log \o tail) = 1..(Len(log) + n)
  BY <1>5, LenProperties
<1>7. \A i \in 1..Len(log) : (log \o tail)[i] = log[i]
  BY <1>1, <1>5
<1>8. \A i \in (Len(log) + 1)..(Len(log) + n) : (log \o tail)[i].type = type
  <2> TAKE i \in (Len(log) + 1)..(Len(log) + n)
  <2>1. i \in 1..(Len(log) + n) /\ ~(i <= Len(log)) /\ i - Len(log) \in 1..n
    BY <1>1
  <2> QED
    BY <2>1, <1>3, <1>5
<1>9. AppendEvents(log, type, n) = log \o tail
  BY DEF AppendEvents, tail
<1> QED
  BY <1>1, <1>6, <1>7, <1>8, <1>9

\* Appending n events of one type adds n to the counts of that type.
LEMMA AppendedCount ==
  ASSUME NEW log \in Seq(EventRow), \A i \in DOMAIN log : log[i].seq = i,
         NEW type \in EventTypes, NEW n \in Nat, NEW types
  PROVE  /\ Cardinality(Of(log, types)) \in Nat
         /\ Cardinality(Of(AppendEvents(log, type, n), types))
              = Cardinality(Of(log, types)) + (IF type \in types THEN n ELSE 0)
<1> DEFINE new == AppendEvents(log, type, n)
           added == IF type \in types THEN (Len(log) + 1)..(Len(log) + n) ELSE {}
<1>1. /\ DOMAIN log = 1..Len(log) /\ Len(log) \in Nat
      /\ DOMAIN new = 1..(Len(log) + n)
      /\ \A i \in 1..Len(log) : new[i] = log[i]
      /\ \A i \in (Len(log) + 1)..(Len(log) + n) : new[i].type = type
  BY AppendedTypes
<1> HIDE DEF new
<1>2. Of(new, types) = Of(log, types) \cup added
  <2>1. DOMAIN new = (1..Len(log)) \cup ((Len(log) + 1)..(Len(log) + n))
    BY <1>1
  <2> QED
    BY <1>1, <2>1 DEF Of
<1>3. Of(log, types) \cap added = {}
  BY <1>1 DEF Of
<1>4. IsFiniteSet(Of(log, types)) /\ Cardinality(Of(log, types)) \in Nat
  <2>1. IsFiniteSet(1..Len(log)) /\ Of(log, types) \in SUBSET (1..Len(log))
    BY <1>1, FS_Interval DEF Of
  <2> QED
    BY <2>1, FS_Subset, FS_CardinalityType
<1>5. IsFiniteSet(added) /\ Cardinality(added) = IF type \in types THEN n ELSE 0
  <2>1. /\ IsFiniteSet((Len(log) + 1)..(Len(log) + n))
        /\ Cardinality((Len(log) + 1)..(Len(log) + n)) = n
    BY <1>1, FS_Interval
  <2> QED
    BY <2>1, FS_EmptySet
<1> HIDE DEF added
<1>6. Cardinality(Of(log, types) \cup added)
        = Cardinality(Of(log, types)) + Cardinality(added) - Cardinality({})
  BY <1>3, <1>4, <1>5, FS_Union
<1> QED
  BY <1>2, <1>4, <1>5, <1>6, FS_EmptySet DEF new

\* A log of the engine can be counted.
LEMMA CountNat ==
  ASSUME IInv, NEW w \in Workflows, NEW types
  PROVE  CountOf(w, types) \in Nat
<1>1. events[w] \in Seq(EventRow) /\ \A i \in DOMAIN events[w] : events[w][i].seq = i
  BY DEF IInv, TypeOK, LogContiguous
<1>2. Cardinality(Of(events[w], types)) \in Nat
  <2>1. "TIMER_FIRED" \in EventTypes /\ 0 \in Nat
    BY DEF EventTypes
  <2> QED
    BY <1>1, <2>1, AppendedCount
<1> QED
  BY <1>2 DEF CountOf, Of

\* Where nothing is appended the counts stay.
LEMMA SameCount ==
  ASSUME NEW w \in Workflows, events'[w] = events[w], NEW types
  PROVE  CountOf(w, types)' = CountOf(w, types)
BY DEF CountOf

\* One event of one workflow.
LEMMA EmitCount ==
  ASSUME IInv, NEW w \in Workflows, NEW type \in EventTypes, Emit(w, type),
         NEW v \in Workflows, NEW types
  PROVE  CountOf(v, types)'
           = CountOf(v, types) + (IF v = w /\ type \in types THEN 1 ELSE 0)
<1>1. /\ events[w] \in Seq(EventRow)
      /\ \A i \in DOMAIN events[w] : events[w][i].seq = i
      /\ events' = [events EXCEPT ![w] = AppendEvents(events[w], type, 1)]
      /\ events \in [Workflows -> Seq(EventRow)]
  BY DEF IInv, TypeOK, LogContiguous, Emit
<1>2. CASE v = w
  <2> DEFINE new == AppendEvents(events[w], type, 1)
  <2>1. Cardinality(Of(new, types))
          = Cardinality(Of(events[w], types)) + (IF type \in types THEN 1 ELSE 0)
    BY <1>1, AppendedCount
  <2> HIDE DEF new
  <2>2. events'[w] = new
    BY <1>1 DEF new
  <2> QED
    BY <1>2, <2>1, <2>2 DEF CountOf, Of
<1>3. CASE v # w
  <2>1. events'[v] = events[v]
    BY <1>1, <1>3
  <2>2. CountOf(v, types) \in Nat
    BY CountNat
  <2> QED
    BY <1>3, <2>1, <2>2, SameCount
<1> QED
  BY <1>2, <1>3

\* The events of a scheduler cycle.
LEMMA FiredCount ==
  ASSUME IInv, FireExpiredTimers, NEW v \in Workflows, NEW types
  PROVE  CountOf(v, types)' = CountOf(v, types)
           + (IF "TIMER_FIRED" \in types
              THEN Cardinality(TimersToFire(v, sched.now)) ELSE 0)
<1> DEFINE n == Cardinality(TimersToFire(v, sched.now))
           new == AppendEvents(events[v], "TIMER_FIRED", n)
<1>1. events[v] \in Seq(EventRow) /\ \A i \in DOMAIN events[v] : events[v][i].seq = i
  BY DEF IInv, TypeOK, LogContiguous
<1>2. n \in Nat
  BY TimersToFireFinite DEF IInv
<1>3. events'[v] = new
  BY DEF FireExpiredTimers
<1> HIDE DEF n
<1>4. Cardinality(Of(new, types))
        = Cardinality(Of(events[v], types))
            + (IF "TIMER_FIRED" \in types THEN n ELSE 0)
  BY <1>1, <1>2, AppendedCount DEF EventTypes
<1> HIDE DEF new
<1> QED
  BY <1>3, <1>4 DEF CountOf, Of, n

-----------------------------------------------------------------------------
(* The row of a workflow and its log *)

Journalled == {"WORKFLOW_CREATED", "WORKFLOW_STARTED", "STEP_COMPLETED",
               "WORKFLOW_COMPLETED", "WORKFLOW_FAILED"}

Closing == {"WORKFLOW_COMPLETED", "WORKFLOW_FAILED"}

\* RowMatchesLog for one row and the three counts of its log.
Matches(row, checkpoints, journalled, closing) ==
  /\ row.cursor = checkpoints
  /\ row.version = journalled
  /\ closing = IF row.status \in Terminal THEN 1 ELSE 0

RowMatches(w) ==
  Matches(workflows[w], CountOf(w, {"STEP_COMPLETED"}), CountOf(w, Journalled),
          CountOf(w, Closing))

LEMMA RowMatchesAll == RowMatchesLog <=> \A w \in Workflows : RowMatches(w)
BY DEF RowMatchesLog, RowMatches, Matches, Journalled, Closing

\* A row with the same counters still matches a log that has not grown by any
\* of the events that count.
LEMMA SameMatches ==
  ASSUME NEW w \in Workflows, RowMatches(w),
         workflows'[w].cursor = workflows[w].cursor,
         workflows'[w].version = workflows[w].version,
         workflows'[w].status \in Terminal <=> workflows[w].status \in Terminal,
         CountOf(w, {"STEP_COMPLETED"})' = CountOf(w, {"STEP_COMPLETED"}),
         CountOf(w, Journalled)' = CountOf(w, Journalled),
         CountOf(w, Closing)' = CountOf(w, Closing)
  PROVE  RowMatches(w)'
BY DEF RowMatches, Matches

\* The counters of a row that is requeued, renewed or left waiting.
LEMMA SilentCounters ==
  ASSUME NEW old \in WorkflowRow, RowConsistent(old), NEW row, SilentRow(old, row)
  PROVE  /\ row.cursor = old.cursor /\ row.version = old.version
         /\ row.status \notin Terminal /\ old.status \notin Terminal
<1>1. old.status \in Leased
  BY DEF SilentRow, RowConsistent
<1> QED
  BY <1>1 DEF SilentRow, WorkflowRow, Requeued, Leased, Terminal

\* The counts that an event of w which counts nothing leaves alone.
LEMMA OtherEvent ==
  ASSUME IInv, NEW w \in Workflows, NEW type \in EventTypes \ Journalled,
         Emit(w, type), NEW v \in Workflows
  PROVE  /\ CountOf(v, {"STEP_COMPLETED"})' = CountOf(v, {"STEP_COMPLETED"})
         /\ CountOf(v, Journalled)' = CountOf(v, Journalled)
         /\ CountOf(v, Closing)' = CountOf(v, Closing)
<1>1. type \notin {"STEP_COMPLETED"} /\ type \notin Closing
  BY DEF Journalled, Closing
<1>2. /\ CountOf(v, {"STEP_COMPLETED"}) \in Nat
      /\ CountOf(v, Journalled) \in Nat /\ CountOf(v, Closing) \in Nat
  BY CountNat
<1>3. /\ CountOf(v, {"STEP_COMPLETED"})' = CountOf(v, {"STEP_COMPLETED"}) + 0
      /\ CountOf(v, Journalled)' = CountOf(v, Journalled) + 0
      /\ CountOf(v, Closing)' = CountOf(v, Closing) + 0
  BY <1>1, EmitCount
<1> QED
  BY <1>2, <1>3

\* The lifecycle events and the row.
LEMMA LifecycleMatches ==
  ASSUME IInv, NEW w \in Workflows, RowMatches(w), NEW type \in EventTypes,
         Lifecycle(w, type)
  PROVE  RowMatches(w)'
<1> DEFINE old == workflows[w]
           row == workflows'[w]
           c == CountOf(w, {"STEP_COMPLETED"})
           j == CountOf(w, Journalled)
           x == CountOf(w, Closing)
<1>1. /\ old \in WorkflowRow /\ RowConsistent(old)
      /\ LeasedRow(old, row, type, w)
      /\ Matches(old, c, j, x)
  BY DEF IInv, TypeOK, LeaseConsistent, Lifecycle, RowMatches
<1>2. c \in Nat /\ j \in Nat /\ x \in Nat
  BY CountNat
<1>3. /\ c' = c + (IF type \in {"STEP_COMPLETED"} THEN 1 ELSE 0)
      /\ j' = j + (IF type \in Journalled THEN 1 ELSE 0)
      /\ x' = x + (IF type \in Closing THEN 1 ELSE 0)
  BY EmitCount DEF Lifecycle
<1>4. old.status = "ABSENT" => c = 0 /\ j = 0 /\ x = 0
  <2> SUFFICES ASSUME old.status = "ABSENT" PROVE c = 0 /\ j = 0 /\ x = 0
    OBVIOUS
  <2>1. events[w] = <<>>
    BY DEF IInv, LogOfExisting, Exists
  <2>2. \A types : {i \in DOMAIN events[w] : events[w][i].type \in types} = {}
    BY <2>1
  <2> QED
    BY <2>2, FS_EmptySet DEF CountOf
<1>5. Matches(row, c', j', x')
  <2> HIDE DEF old, row, c, j, x
  <2>1. CASE type = "WORKFLOW_CREATED"
    <3>1. PICK now \in Nows : row = Created(now) /\ old.status = "ABSENT"
      BY <1>1, <2>1 DEF LeasedRow
    <3>2. row.cursor = 0 /\ row.version = 1 /\ row.status = "QUEUED"
      BY <3>1 DEF Created
    <3>3. c' = 0 /\ j' = 1 /\ x' = 0
      BY <1>3, <1>4, <2>1, <3>1 DEF Journalled, Closing
    <3> QED
      BY <3>2, <3>3 DEF Matches, Terminal
  <2>2. CASE type = "WORKFLOW_STARTED"
    <3>1. PICK now \in Nows, k \in Workers, d \in LeaseSeconds :
            Eligible(w, now) /\ row = Taken(old, k, now + d)
      BY <1>1, <2>2 DEF LeasedRow
    <3>2. old.status \notin Terminal
      BY <1>1, <3>1 DEF Eligible, Expired, RowConsistent, Leased, Terminal, old
    <3>3. /\ row.cursor = old.cursor /\ row.version = old.version + 1
          /\ row.status = "RUNNING"
      BY <1>1, <3>1 DEF Taken, WorkflowRow
    <3>4. c' = c /\ j' = j + 1 /\ x' = x
      BY <1>2, <1>3, <2>2 DEF Journalled, Closing
    <3> QED
      BY <1>1, <3>2, <3>3, <3>4 DEF Matches, Terminal
  <2>3. CASE type \in {"WORKFLOW_COMPLETED", "WORKFLOW_FAILED"}
    <3>1. PICK status \in Terminal : row = Closed(old, status)
      BY <1>1, <2>3 DEF LeasedRow
    <3>2. old.status \notin Terminal
      BY <1>1, <2>3 DEF LeasedRow, Terminal
    <3>3. /\ row.cursor = old.cursor /\ row.version = old.version + 1
          /\ row.status \in Terminal
      BY <1>1, <3>1 DEF Closed, WorkflowRow
    <3>4. c' = c /\ j' = j + 1 /\ x' = x + 1
      BY <1>2, <1>3, <2>3 DEF Journalled, Closing
    <3> QED
      BY <1>1, <1>2, <3>2, <3>3, <3>4 DEF Matches
  <2> QED
    BY <1>1, <2>1, <2>2, <2>3 DEF LeasedRow
<1> QED
  BY <1>5 DEF RowMatches

\* A workflow whose row and log a step leaves alone.
LEMMA UntouchedMatches ==
  ASSUME NEW v \in Workflows, RowMatches(v), workflows'[v] = workflows[v],
         events'[v] = events[v]
  PROVE  RowMatches(v)'
BY SameCount, SameMatches

LEMMA StepMatches ==
  ASSUME IInv, StepOfKind, NEW v \in Workflows, RowMatches(v)
  PROVE  RowMatches(v)'
<1>1. workflows[v] \in WorkflowRow /\ RowConsistent(workflows[v]) /\ TypeOK
  BY DEF IInv, TypeOK, LeaseConsistent
<1>2. CASE Quiet
  BY <1>2, UntouchedMatches DEF Quiet
<1>3. ASSUME NEW w \in Workflows, Silent(w)
      PROVE  RowMatches(v)'
  <2>1. CASE v = w
    BY <1>1, <1>3, <2>1, SilentCounters, SameCount, SameMatches DEF Silent
  <2>2. CASE v # w
    BY <1>1, <1>3, <2>2, RowInPlace, UntouchedMatches DEF Silent
  <2> QED
    BY <2>1, <2>2
<1>4. ASSUME NEW w \in Workflows, NEW type \in EventTypes, Lifecycle(w, type)
      PROVE  RowMatches(v)'
  <2>1. CASE v = w
    BY <1>4, <2>1, LifecycleMatches
  <2>2. CASE v # w
    <3>1. workflows'[v] = workflows[v]
      BY <1>1, <1>4, <2>2, RowInPlace DEF Lifecycle
    <3>2. events'[v] = events[v]
      BY <1>1, <1>4, <2>2 DEF Lifecycle, Emit, TypeOK
    <3> QED
      BY <3>1, <3>2, UntouchedMatches
  <2> QED
    BY <2>1, <2>2
<1>5. ASSUME NEW w \in Workflows, Checkpoint(w)
      PROVE  RowMatches(v)'
  <2>1. CASE v = w
    <3> DEFINE c == CountOf(v, {"STEP_COMPLETED"})
               j == CountOf(v, Journalled)
               x == CountOf(v, Closing)
               row == workflows[v]
    <3>1. workflows'[v] = Advanced(row)
      BY <1>1, <1>5, <2>1, RowInPlace DEF Checkpoint
    <3>2. /\ Advanced(row).cursor = row.cursor + 1
          /\ Advanced(row).version = row.version + 1
          /\ Advanced(row).status = row.status
      BY <1>1 DEF Advanced, WorkflowRow
    <3>3. c' = c + 1 /\ j' = j + 1 /\ x' = x + 0
      BY <1>5, <2>1, EmitCount DEF Checkpoint, EventTypes, Journalled, Closing
    <3>4. x \in Nat /\ Matches(row, c, j, x)
      BY CountNat DEF RowMatches
    <3>5. Matches(workflows'[v], c', j', x')
      <4> HIDE DEF c, j, x, row
      <4> QED
        BY <3>1, <3>2, <3>3, <3>4 DEF Matches
    <3> QED
      BY <3>5 DEF RowMatches
  <2>2. CASE v # w
    <3>1. workflows'[v] = workflows[v]
      BY <1>1, <1>5, <2>2, RowInPlace DEF Checkpoint
    <3>2. events'[v] = events[v]
      BY <1>1, <1>5, <2>2 DEF Checkpoint, Emit, TypeOK
    <3> QED
      BY <3>1, <3>2, UntouchedMatches
  <2> QED
    BY <2>1, <2>2
<1>6. ASSUME NEW w \in Workflows, NEW type \in EventTypes, LateStep(w, type)
      PROVE  RowMatches(v)'
  <2>1. type \in EventTypes \ Journalled /\ Emit(w, type) /\ UNCHANGED workflows
    BY <1>6 DEF LateStep, Journalled
  <2> QED
    BY <2>1, OtherEvent, SameMatches
<1>7. ASSUME NEW w \in Workflows, Signalled(w)
      PROVE  RowMatches(v)'
  <2>1. /\ "SIGNAL_RECEIVED" \in EventTypes \ Journalled
        /\ Emit(w, "SIGNAL_RECEIVED") /\ UNCHANGED workflows
    BY <1>7 DEF Signalled, Journalled, EventTypes
  <2> QED
    BY <2>1, OtherEvent, SameMatches
<1>8. CASE FireExpiredTimers
  <2>1. \/ workflows'[v] = workflows[v]
        \/ /\ workflows'[v] = Requeued(workflows[v])
           /\ workflows[v].status = "WAITING"
    BY <1>8 DEF FireExpiredTimers, TimersToFire
  <2>2. /\ workflows'[v].cursor = workflows[v].cursor
        /\ workflows'[v].version = workflows[v].version
        /\ workflows'[v].status \in Terminal <=> workflows[v].status \in Terminal
    BY <1>1, <2>1 DEF Requeued, WorkflowRow, Terminal
  <2>3. /\ "TIMER_FIRED" \notin {"STEP_COMPLETED"}
        /\ "TIMER_FIRED" \notin Journalled /\ "TIMER_FIRED" \notin Closing
    BY DEF Journalled, Closing
  <2>4. \A types : "TIMER_FIRED" \notin types => CountOf(v, types)' = CountOf(v, types)
    <3> TAKE types
    <3> HAVE "TIMER_FIRED" \notin types
    <3>1. CountOf(v, types)' = CountOf(v, types) + 0
      BY <1>8, FiredCount
    <3> QED
      BY <3>1, CountNat
  <2> QED
    BY <2>2, <2>3, <2>4, SameMatches
<1>9. CASE ExpireLeases
  <2>1. \/ workflows'[v] = workflows[v]
        \/ /\ workflows'[v] = Requeued(workflows[v])
           /\ workflows[v].status = "RUNNING"
    BY <1>9 DEF ExpireLeases
  <2>2. /\ workflows'[v].cursor = workflows[v].cursor
        /\ workflows'[v].version = workflows[v].version
        /\ workflows'[v].status \in Terminal <=> workflows[v].status \in Terminal
    BY <1>1, <2>1 DEF Requeued, WorkflowRow, Terminal
  <2>3. events'[v] = events[v]
    BY <1>9 DEF ExpireLeases
  <2> QED
    BY <2>2, <2>3, SameCount, SameMatches
<1> QED
  BY <1>2, <1>3, <1>4, <1>5, <1>6, <1>7, <1>8, <1>9 DEF StepOfKind

LEMMA EmptyCounts ==
  ASSUME Init, NEW w \in Workflows, NEW types
  PROVE  CountOf(w, types) = 0
<1>1. {i \in DOMAIN events[w] : events[w][i].type \in types} = {}
  BY DEF Init
<1> QED
  BY <1>1, FS_EmptySet DEF CountOf

\* Replaying the log of a workflow gives its row: the cursor counts the
\* checkpoints, the version the journalled updates, and a terminal status is
\* exactly one terminal event.
THEOREM RowsMatchLogs == Spec => []RowMatchesLog
<1>1. Init => RowMatchesLog
  <2> SUFFICES ASSUME Init, NEW w \in Workflows PROVE RowMatches(w)
    BY RowMatchesAll
  <2>1. workflows[w] = NoWorkflow
    BY DEF Init
  <2> QED
    BY <2>1, EmptyCounts DEF RowMatches, Matches, NoWorkflow, Terminal
<1>2. IInv /\ RowMatchesLog /\ [Next]_vars => RowMatchesLog'
  <2> SUFFICES ASSUME IInv, RowMatchesLog, [Next]_vars, NEW v \in Workflows
               PROVE  RowMatches(v)'
    BY DEF RowMatchesLog, RowMatches, Matches, Journalled, Closing
  <2> QED
    BY EveryStepKind, StepMatches, RowMatchesAll
<1> QED
  BY <1>1, <1>2, Invariance, PTL DEF Spec

-----------------------------------------------------------------------------
(* Timers and TIMER_FIRED *)

\* A step other than the one that fires timers journals no TIMER_FIRED.
LEMMA OnlyFiringCounts ==
  ASSUME IInv, NEW w \in Workflows, NEW type \in EventTypes \ {"TIMER_FIRED"},
         Emit(w, type), NEW v \in Workflows
  PROVE  CountOf(v, {"TIMER_FIRED"})' = CountOf(v, {"TIMER_FIRED"})
<1>1. CountOf(v, {"TIMER_FIRED"}) \in Nat
  BY CountNat
<1>2. CountOf(v, {"TIMER_FIRED"})' = CountOf(v, {"TIMER_FIRED"}) + 0
  BY EmitCount
<1> QED
  BY <1>1, <1>2

FiredTimers(w) == {i \in DOMAIN timers : timers[i].wf = w /\ timers[i].fired}

FiredMatch(w) == CountOf(w, {"TIMER_FIRED"}) = Cardinality(FiredTimers(w))

LEMMA TimersFinite ==
  ASSUME TypeOK, NEW w \in Workflows
  PROVE  IsFiniteSet(FiredTimers(w))
<1>1. DOMAIN timers = 1..Len(timers) /\ Len(timers) \in Nat
  BY LenProperties DEF TypeOK
<1>2. IsFiniteSet(1..Len(timers)) /\ FiredTimers(w) \in SUBSET (1..Len(timers))
  BY <1>1, FS_Interval DEF FiredTimers
<1> QED
  BY <1>2, FS_Subset

\* A new timer has not fired.
LEMMA AddTimerFiresNone ==
  ASSUME TypeOK, NEW w \in Workflows, NEW wake \in Int, AddTimer(w, wake),
         NEW v \in Workflows
  PROVE  FiredTimers(v)' = FiredTimers(v)
<1> DEFINE new == [wf |-> w, wake |-> wake, fired |-> FALSE]
<1>1. timers \in Seq(TimerRow) /\ new \in TimerRow /\ timers' = Append(timers, new)
  BY DEF TypeOK, AddTimer, TimerRow
<1>2. /\ DOMAIN timers = 1..Len(timers) /\ Len(timers) \in Nat
      /\ DOMAIN timers' = 1..(Len(timers) + 1)
      /\ \A i \in 1..Len(timers) : timers'[i] = timers[i]
      /\ timers'[Len(timers) + 1] = new
  BY <1>1, AppendProperties, LenProperties
<1>3. ~new.fired
  OBVIOUS
<1> HIDE DEF new
<1> QED
  BY <1>2, <1>3 DEF FiredTimers

LEMMA FiringCounted ==
  ASSUME IInv, FireExpiredTimers, NEW v \in Workflows, FiredMatch(v)
  PROVE  FiredMatch(v)'
<1> DEFINE now == TimersToFire(v, sched.now)
<1>1. FiredTimers(v)' = FiredTimers(v) \cup now
  <2>1. DOMAIN timers' = DOMAIN timers
    BY DEF FireExpiredTimers
  <2>2. ASSUME NEW i \in DOMAIN timers
        PROVE  /\ timers'[i].wf = timers[i].wf
               /\ timers'[i].fired <=>
                    timers[i].fired \/ i \in TimersToFire(timers[i].wf, sched.now)
    <3>1. timers[i] \in TimerRow
      BY ElementOfSeq, LenProperties DEF IInv, TypeOK
    <3>2. timers'[i] = [timers[i] EXCEPT !.fired =
             @ \/ i \in TimersToFire(timers[i].wf, sched.now)]
      BY DEF FireExpiredTimers
    <3> QED
      BY <3>1, <3>2 DEF TimerRow
  <2>3. \A i \in now : i \in DOMAIN timers /\ timers[i].wf = v
    BY DEF TimersToFire, DueTimers
  <2> QED
    BY <2>1, <2>2, <2>3 DEF FiredTimers
<1>2. FiredTimers(v) \cap now = {}
  BY DEF FiredTimers, TimersToFire, DueTimers
<1>3. /\ IsFiniteSet(FiredTimers(v)) /\ Cardinality(FiredTimers(v)) \in Nat
      /\ IsFiniteSet(now) /\ Cardinality(now) \in Nat
  BY TimersFinite, TimersToFireFinite, FS_CardinalityType DEF IInv
<1>4. CountOf(v, {"TIMER_FIRED"})' = CountOf(v, {"TIMER_FIRED"}) + Cardinality(now)
  BY FiredCount
<1> HIDE DEF now
<1>5. Cardinality(FiredTimers(v) \cup now)
        = Cardinality(FiredTimers(v)) + Cardinality(now) - Cardinality({})
  BY <1>2, <1>3, FS_Union
<1>6. Cardinality(FiredTimers(v))' = Cardinality(FiredTimers(v)) + Cardinality(now)
  BY <1>1, <1>3, <1>5, FS_EmptySet
<1> QED
  BY <1>4, <1>6 DEF FiredMatch

LEMMA StepFiredMatch ==
  ASSUME IInv, StepOfKind, NEW v \in Workflows, FiredMatch(v)
  PROVE  FiredMatch(v)'
<1>0. TypeOK
  BY DEF IInv
<1>1. ASSUME UNCHANGED timers, UNCHANGED events
      PROVE  FiredMatch(v)'
  BY <1>1, SameCount DEF FiredMatch, FiredTimers
<1>2. ASSUME UNCHANGED timers, NEW w \in Workflows,
             NEW type \in EventTypes \ {"TIMER_FIRED"}, Emit(w, type)
      PROVE  FiredMatch(v)'
  BY <1>2, OnlyFiringCounts DEF FiredMatch, FiredTimers
<1>3. CASE Quiet
  <2>1. events' = events /\ FiredTimers(v)' = FiredTimers(v)
    BY <1>0, <1>3, AddTimerFiresNone DEF Quiet, FiredTimers
  <2> QED
    BY <2>1, SameCount DEF FiredMatch
<1>4. ASSUME NEW w \in Workflows, Silent(w)
      PROVE  FiredMatch(v)'
  BY <1>1, <1>4 DEF Silent
<1>5. ASSUME NEW w \in Workflows, NEW type \in EventTypes, Lifecycle(w, type)
      PROVE  FiredMatch(v)'
  BY <1>2, <1>5 DEF Lifecycle, LeasedRow
<1>6. ASSUME NEW w \in Workflows, Checkpoint(w)
      PROVE  FiredMatch(v)'
  BY <1>2, <1>6 DEF Checkpoint, EventTypes
<1>7. ASSUME NEW w \in Workflows, NEW type \in EventTypes, LateStep(w, type)
      PROVE  FiredMatch(v)'
  BY <1>2, <1>7 DEF LateStep
<1>8. ASSUME NEW w \in Workflows, Signalled(w)
      PROVE  FiredMatch(v)'
  BY <1>2, <1>8 DEF Signalled, EventTypes
<1>9. CASE ExpireLeases
  BY <1>1, <1>9 DEF ExpireLeases
<1> QED
  BY <1>3, <1>4, <1>5, <1>6, <1>7, <1>8, <1>9, FiringCounted DEF StepOfKind

\* A workflow has as many TIMER_FIRED events as fired timers.
THEOREM TimersFiredOnce == Spec => []TimersFireOnce
<1>1. Init => TimersFireOnce
  <2> SUFFICES ASSUME Init, NEW w \in Workflows PROVE FiredMatch(w)
    BY DEF TimersFireOnce, FiredMatch, FiredTimers
  <2>1. FiredTimers(w) = {}
    BY DEF Init, FiredTimers
  <2> QED
    BY <2>1, EmptyCounts, FS_EmptySet DEF FiredMatch
<1>2. IInv /\ TimersFireOnce /\ [Next]_vars => TimersFireOnce'
  <2> SUFFICES ASSUME IInv, TimersFireOnce, [Next]_vars, NEW v \in Workflows
               PROVE  FiredMatch(v)'
    BY DEF TimersFireOnce, FiredMatch, FiredTimers
  <2>1. FiredMatch(v)
    BY DEF TimersFireOnce, FiredMatch, FiredTimers
  <2> QED
    BY <2>1, EveryStepKind, StepFiredMatch
<1> QED
  BY <1>1, <1>2, Invariance, PTL DEF Spec

-----------------------------------------------------------------------------
(* Signals and SIGNAL_RECEIVED *)

SignalsOf(w) == {i \in DOMAIN signals : signals[i].wf = w}

SignalsMatch(w) == CountOf(w, {"SIGNAL_RECEIVED"}) = Cardinality(SignalsOf(w))

LEMMA SignalsFinite ==
  ASSUME TypeOK, NEW w \in Workflows
  PROVE  /\ IsFiniteSet(SignalsOf(w)) /\ Cardinality(SignalsOf(w)) \in Nat
         /\ Len(signals) + 1 \notin SignalsOf(w)
<1>1. DOMAIN signals = 1..Len(signals) /\ Len(signals) \in Nat
  BY LenProperties DEF TypeOK
<1>2. IsFiniteSet(1..Len(signals)) /\ SignalsOf(w) \in SUBSET (1..Len(signals))
  BY <1>1, FS_Interval DEF SignalsOf
<1>3. Len(signals) + 1 \notin SignalsOf(w)
  BY <1>1, <1>2
<1> QED
  BY <1>2, <1>3, FS_Subset, FS_CardinalityType

LEMMA ReceivedCounted ==
  ASSUME IInv, NEW w \in Workflows, Signalled(w), NEW v \in Workflows,
         SignalsMatch(v)
  PROVE  SignalsMatch(v)'
<1>1. CountOf(v, {"SIGNAL_RECEIVED"})'
        = CountOf(v, {"SIGNAL_RECEIVED"}) + (IF v = w THEN 1 ELSE 0)
  BY EmitCount DEF Signalled, EventTypes
<1>2. PICK now \in Nows :
        signals' = Append(signals, [wf |-> w, created |-> now, consumed |-> FALSE])
  BY DEF Signalled
<1> DEFINE new == [wf |-> w, created |-> now, consumed |-> FALSE]
<1>3. signals \in Seq(SignalRow) /\ new \in SignalRow
  BY DEF IInv, TypeOK, SignalRow, Nows
<1>4. new.wf = w /\ signals' = Append(signals, new)
  BY <1>2
<1> HIDE DEF new
<1>5. /\ DOMAIN signals = 1..Len(signals) /\ Len(signals) \in Nat
      /\ DOMAIN signals' = 1..(Len(signals) + 1)
      /\ \A i \in 1..Len(signals) : signals'[i] = signals[i]
      /\ signals'[Len(signals) + 1] = new
  BY <1>3, <1>4, AppendProperties, LenProperties
<1>6. SignalsOf(v)'
        = IF v = w THEN SignalsOf(v) \cup {Len(signals) + 1} ELSE SignalsOf(v)
  BY <1>4, <1>5 DEF SignalsOf
<1>7. /\ IsFiniteSet(SignalsOf(v)) /\ Cardinality(SignalsOf(v)) \in Nat
      /\ Len(signals) + 1 \notin SignalsOf(v)
  BY SignalsFinite DEF IInv
<1>8. Cardinality(SignalsOf(v) \cup {Len(signals) + 1}) = Cardinality(SignalsOf(v)) + 1
  BY <1>7, FS_AddElement
<1>9. Cardinality(SignalsOf(v)')
        = Cardinality(SignalsOf(v)) + (IF v = w THEN 1 ELSE 0)
  BY <1>6, <1>7, <1>8
<1> QED
  BY <1>1, <1>7, <1>9 DEF SignalsMatch

\* A step that journals no SIGNAL_RECEIVED.
LEMMA OtherEventNoSignal ==
  ASSUME IInv, NEW w \in Workflows, NEW type \in EventTypes \ {"SIGNAL_RECEIVED"},
         Emit(w, type), NEW v \in Workflows
  PROVE  CountOf(v, {"SIGNAL_RECEIVED"})' = CountOf(v, {"SIGNAL_RECEIVED"})
<1>1. CountOf(v, {"SIGNAL_RECEIVED"}) \in Nat
  BY CountNat
<1>2. CountOf(v, {"SIGNAL_RECEIVED"})' = CountOf(v, {"SIGNAL_RECEIVED"}) + 0
  BY EmitCount
<1> QED
  BY <1>1, <1>2

LEMMA StepSignalsMatch ==
  ASSUME IInv, StepOfKind, NEW v \in Workflows, SignalsMatch(v)
  PROVE  SignalsMatch(v)'
<1>1. ASSUME UNCHANGED signals, UNCHANGED events
      PROVE  SignalsMatch(v)'
  BY <1>1, SameCount DEF SignalsMatch, SignalsOf
<1>2. ASSUME UNCHANGED signals, NEW w \in Workflows,
             NEW type \in EventTypes \ {"SIGNAL_RECEIVED"}, Emit(w, type)
      PROVE  SignalsMatch(v)'
  BY <1>2, OtherEventNoSignal DEF SignalsMatch, SignalsOf
<1>3. CASE Quiet
  <2>1. ASSUME NEW j \in DOMAIN signals,
               signals' = [signals EXCEPT ![j].consumed = TRUE]
        PROVE  SignalsOf(v)' = SignalsOf(v)
    <3>1. signals[j] \in SignalRow
      BY ElementOfSeq, LenProperties DEF IInv, TypeOK
    <3>2. /\ DOMAIN signals' = DOMAIN signals
          /\ \A i \in DOMAIN signals : signals'[i].wf = signals[i].wf
      BY <2>1, <3>1 DEF SignalRow
    <3> QED
      BY <3>2 DEF SignalsOf
  <2>2. events' = events /\ SignalsOf(v)' = SignalsOf(v)
    BY <1>3, <2>1 DEF Quiet, SignalsOf
  <2> QED
    BY <2>2, SameCount DEF SignalsMatch
<1>4. ASSUME NEW w \in Workflows, Silent(w)
      PROVE  SignalsMatch(v)'
  BY <1>1, <1>4 DEF Silent
<1>5. ASSUME NEW w \in Workflows, NEW type \in EventTypes, Lifecycle(w, type)
      PROVE  SignalsMatch(v)'
  BY <1>2, <1>5 DEF Lifecycle, LeasedRow
<1>6. ASSUME NEW w \in Workflows, Checkpoint(w)
      PROVE  SignalsMatch(v)'
  BY <1>2, <1>6 DEF Checkpoint, EventTypes
<1>7. ASSUME NEW w \in Workflows, NEW type \in EventTypes, LateStep(w, type)
      PROVE  SignalsMatch(v)'
  BY <1>2, <1>7 DEF LateStep
<1>8. CASE FireExpiredTimers
  <2>1. CountOf(v, {"SIGNAL_RECEIVED"})' = CountOf(v, {"SIGNAL_RECEIVED"}) + 0
    BY <1>8, FiredCount
  <2>2. CountOf(v, {"SIGNAL_RECEIVED"}) \in Nat /\ signals' = signals
    BY <1>8, CountNat DEF FireExpiredTimers, notTimers
  <2> QED
    BY <2>1, <2>2 DEF SignalsMatch, SignalsOf
<1>9. CASE ExpireLeases
  BY <1>1, <1>9 DEF ExpireLeases, notTimers
<1> QED
  BY <1>3, <1>4, <1>5, <1>6, <1>7, <1>8, <1>9, ReceivedCounted DEF StepOfKind

\* Every signal has its SIGNAL_RECEIVED event and no event lacks its signal.
THEOREM SignalsAreLogged == Spec => []SignalsLogged
<1>1. Init => SignalsLogged
  <2> SUFFICES ASSUME Init, NEW w \in Workflows PROVE SignalsMatch(w)
    BY DEF SignalsLogged, SignalsMatch, SignalsOf
  <2>1. SignalsOf(w) = {}
    BY DEF Init, SignalsOf
  <2> QED
    BY <2>1, EmptyCounts, FS_EmptySet DEF SignalsMatch
<1>2. IInv /\ SignalsLogged /\ [Next]_vars => SignalsLogged'
  <2> SUFFICES ASSUME IInv, SignalsLogged, [Next]_vars, NEW v \in Workflows
               PROVE  SignalsMatch(v)'
    BY DEF SignalsLogged, SignalsMatch, SignalsOf
  <2>1. SignalsMatch(v)
    BY DEF SignalsLogged, SignalsMatch, SignalsOf
  <2> QED
    BY <2>1, EveryStepKind, StepSignalsMatch
<1> QED
  BY <1>1, <1>2, Invariance, PTL DEF Spec

-----------------------------------------------------------------------------
(* The cursor and the completed steps *)

\* Finiteness is needed to count: the step numbers may be all of Nat.
Covered(w) ==
  /\ IsFiniteSet(CompletedSteps(w))
  /\ Cardinality(CompletedSteps(w)) <= workflows[w].cursor

\* Fewer steps and the same cursor.
LEMMA FewerCovered ==
  ASSUME TypeOK, NEW w \in Workflows, Covered(w),
         CompletedSteps(w)' \subseteq CompletedSteps(w),
         workflows'[w].cursor = workflows[w].cursor
  PROVE  Covered(w)'
<1> DEFINE old == CompletedSteps(w)
           new == CompletedSteps(w)'
<1>1. new \in SUBSET old /\ IsFiniteSet(old)
  BY DEF Covered
<1> HIDE DEF old, new
<1>2. /\ IsFiniteSet(new) /\ Cardinality(new) <= Cardinality(old)
      /\ Cardinality(new) \in Nat /\ Cardinality(old) \in Nat
  BY <1>1, FS_Subset, FS_CardinalityType
<1>3. Cardinality(old) <= workflows[w].cursor
  BY DEF Covered, old
<1>4. workflows[w].cursor \in Nat
  BY DEF TypeOK, WorkflowRow
<1>5. Cardinality(new) <= workflows'[w].cursor
  BY <1>2, <1>3, <1>4
<1> QED
  BY <1>2, <1>5 DEF Covered, new

LEMMA CheckpointCovered ==
  ASSUME IInv, NEW w \in Workflows, Checkpoint(w), Covered(w)
  PROVE  Covered(w)'
<1> DEFINE old == CompletedSteps(w)
           new == CompletedSteps(w)'
<1>1. PICK s \in StepNumbers :
        steps[w][s] # "COMPLETED" /\ steps' = [steps EXCEPT ![w][s] = "COMPLETED"]
  BY DEF Checkpoint
<1>2. new = old \cup {s} /\ s \notin old
  BY <1>1 DEF CompletedSteps, IInv, TypeOK
<1>3. IsFiniteSet(old) /\ Cardinality(old) <= workflows[w].cursor
  BY DEF Covered
<1>4. workflows'[w].cursor = workflows[w].cursor + 1 /\ workflows[w].cursor \in Nat
  <2>1. workflows'[w] = Advanced(workflows[w]) /\ workflows[w] \in WorkflowRow
    BY RowInPlace DEF Checkpoint, IInv, TypeOK
  <2> QED
    BY <2>1 DEF Advanced, WorkflowRow
<1> HIDE DEF old, new
<1>5. /\ IsFiniteSet(new) /\ Cardinality(new) = Cardinality(old) + 1
      /\ Cardinality(old) \in Nat
  BY <1>2, <1>3, FS_AddElement, FS_CardinalityType
<1>6. Cardinality(new) <= workflows'[w].cursor
  BY <1>3, <1>4, <1>5
<1> QED
  BY <1>5, <1>6 DEF Covered, new

LEMMA StepCovered ==
  ASSUME IInv, StepOfKind, NEW v \in Workflows, RowMatches(v), Covered(v)
  PROVE  Covered(v)'
<1>1. TypeOK /\ workflows[v] \in WorkflowRow /\ RowConsistent(workflows[v])
  BY DEF IInv, TypeOK, LeaseConsistent
<1>2. ASSUME UNCHANGED steps, workflows'[v].cursor = workflows[v].cursor
      PROVE  Covered(v)'
  BY <1>1, <1>2, FewerCovered DEF CompletedSteps
<1>3. CASE Quiet
  BY <1>2, <1>3 DEF Quiet
<1>4. ASSUME NEW w \in Workflows, Silent(w)
      PROVE  Covered(v)'
  <2>1. workflows'[v].cursor = workflows[v].cursor
    BY <1>1, <1>4, RowInPlace, SilentCounters DEF Silent
  <2> QED
    BY <1>2, <1>4, <2>1 DEF Silent
<1>5. ASSUME NEW w \in Workflows, NEW type \in EventTypes, Lifecycle(w, type)
      PROVE  Covered(v)'
  <2>1. CASE v # w
    <3>1. workflows'[v] = workflows[v]
      BY <1>1, <1>5, <2>1, RowInPlace DEF Lifecycle
    <3> QED
      BY <1>2, <1>5, <3>1 DEF Lifecycle
  <2>2. CASE v = w
    <3>1. LeasedRow(workflows[v], workflows'[v], type, v)
      BY <1>5, <2>2 DEF Lifecycle
    <3>2. CASE workflows[v].status = "ABSENT"
      <4>1. PICK now \in Nows : workflows'[v] = Created(now)
        BY <1>1, <3>1, <3>2
           DEF LeasedRow, Eligible, Expired, RowConsistent, Leased
      <4>2. workflows[v].cursor = 0
        <5>1. events[v] = <<>>
          BY <3>2 DEF IInv, LogOfExisting, Exists
        <5>2. {i \in DOMAIN events[v] : events[v][i].type \in {"STEP_COMPLETED"}} = {}
          BY <5>1
        <5> QED
          BY <5>2, FS_EmptySet DEF RowMatches, Matches, CountOf
      <4> QED
        BY <1>2, <1>5, <4>1, <4>2 DEF Created, Lifecycle
    <3>3. CASE workflows[v].status # "ABSENT"
      <4>1. workflows'[v].cursor = workflows[v].cursor
        BY <1>1, <3>1, <3>3 DEF LeasedRow, Taken, Closed, WorkflowRow
      <4> QED
        BY <1>2, <1>5, <4>1 DEF Lifecycle
    <3> QED
      BY <3>2, <3>3
  <2> QED
    BY <2>1, <2>2
<1>6. ASSUME NEW w \in Workflows, Checkpoint(w)
      PROVE  Covered(v)'
  <2>1. CASE v # w
    <3>1. workflows'[v] = workflows[v]
      BY <1>1, <1>6, <2>1, RowInPlace DEF Checkpoint
    <3>2. CompletedSteps(v)' = CompletedSteps(v)
      BY <1>1, <1>6, <2>1 DEF Checkpoint, CompletedSteps, TypeOK
    <3> QED
      BY <1>1, <3>1, <3>2, FewerCovered
  <2> QED
    BY <1>6, <2>1, CheckpointCovered
<1>7. ASSUME NEW w \in Workflows, NEW type \in EventTypes, LateStep(w, type)
      PROVE  Covered(v)'
  <2>1. PICK s \in StepNumbers :
          \/ steps' = [steps EXCEPT ![w][s] = "FAILED"]
          \/ steps' = [steps EXCEPT ![w][s] = IF @ = "ABSENT" THEN "RUNNING" ELSE @]
    BY <1>7 DEF LateStep
  <2>2. CompletedSteps(v)' \subseteq CompletedSteps(v)
    <3>1. steps \in [Workflows -> [StepNumbers -> StepStatuses]]
      BY <1>1 DEF TypeOK
    <3>2. CASE steps' = [steps EXCEPT ![w][s] = "FAILED"]
      BY <3>1, <3>2 DEF CompletedSteps
    <3>3. CASE steps' = [steps EXCEPT ![w][s] = IF @ = "ABSENT" THEN "RUNNING" ELSE @]
      <4> DEFINE status == IF steps[w][s] = "ABSENT" THEN "RUNNING" ELSE steps[w][s]
      <4>1. steps' = [steps EXCEPT ![w][s] = status]
        BY <3>3
      <4>2. status = "COMPLETED" => steps[w][s] = "COMPLETED"
        OBVIOUS
      <4> HIDE DEF status
      <4> QED
        BY <3>1, <4>1, <4>2 DEF CompletedSteps
    <3> QED
      BY <2>1, <3>2, <3>3
  <2> QED
    BY <1>1, <1>7, <2>2, FewerCovered DEF LateStep
<1>8. ASSUME NEW w \in Workflows, Signalled(w)
      PROVE  Covered(v)'
  BY <1>2, <1>8 DEF Signalled
<1>9. CASE FireExpiredTimers \/ ExpireLeases
  <2>1. \/ workflows'[v] = workflows[v]
        \/ workflows'[v] = Requeued(workflows[v])
    BY <1>9 DEF FireExpiredTimers, ExpireLeases
  <2>2. steps' = steps
    BY <1>9 DEF FireExpiredTimers, ExpireLeases, notTimers
  <2> QED
    BY <1>1, <1>2, <2>1, <2>2 DEF Requeued, WorkflowRow
<1> QED
  BY <1>3, <1>4, <1>5, <1>6, <1>7, <1>8, <1>9 DEF StepOfKind

\* The cursor is never behind the number of completed steps.
THEOREM CursorsCoverSteps == Spec => []CursorCoversSteps
<1> DEFINE AllCovered == \A w \in Workflows : Covered(w)
<1>1. Init => AllCovered
  <2> SUFFICES ASSUME Init, NEW w \in Workflows PROVE Covered(w)
    OBVIOUS
  <2>1. CompletedSteps(w) = {} /\ workflows[w].cursor = 0
    BY DEF Init, CompletedSteps, NoWorkflow
  <2> QED
    BY <2>1, FS_EmptySet DEF Covered
<1>2. IInv /\ RowMatchesLog /\ AllCovered /\ [Next]_vars => AllCovered'
  <2> SUFFICES ASSUME IInv, RowMatchesLog, AllCovered, [Next]_vars, NEW v \in Workflows
               PROVE  Covered(v)'
    OBVIOUS
  <2> QED
    BY EveryStepKind, StepCovered, RowMatchesAll
<1>3. AllCovered => CursorCoversSteps
  BY DEF Covered, CursorCoversSteps
<1> HIDE DEF AllCovered
<1> QED
  BY <1>1, <1>2, <1>3, Invariance, RowsMatchLogs, PTL DEF Spec

-----------------------------------------------------------------------------
(* Rows as leases *)

\* The state of a lease by the status of its row.
LEMMA LeaseState ==
  ASSUME NEW row \in WorkflowRow
  PROVE  /\ row.status = "ABSENT" => LeaseOf(row).state = "absent"
         /\ row.status = "QUEUED" => LeaseOf(row).state = "free"
         /\ row.status = "RUNNING" => LeaseOf(row).state = "held"
         /\ row.status = "WAITING" => LeaseOf(row).state = "waived"
         /\ row.status \in Terminal => LeaseOf(row).state = "closed"
BY DEF LeaseOf, Terminal

\* The record of a lease, field by field.
Record(s, h, u, p, v) ==
  [state |-> s, holder |-> h, until |-> u, progress |-> p, version |-> v]

\* Assignments to several of its fields.
Moved(l, x, y, z) == [l EXCEPT !.state = x, !.holder = y, !.until = z]

Counted(l, x, y, z) ==
  [l EXCEPT !.state = x, !.holder = y, !.until = z, !.version = @ + 1]

Progressed(l) == [l EXCEPT !.progress = @ + 1, !.version = @ + 1]

LEMMA RecordMoved ==
  ASSUME NEW s, NEW h, NEW u, NEW p, NEW v, NEW x, NEW y, NEW z
  PROVE  Moved(Record(s, h, u, p, v), x, y, z) = Record(x, y, z, p, v)
<1> DEFINE l == Record(s, h, u, p, v)
<1>1. /\ [l EXCEPT !.state = x] = Record(x, h, u, p, v)
      /\ [Record(x, h, u, p, v) EXCEPT !.holder = y] = Record(x, y, u, p, v)
      /\ [Record(x, y, u, p, v) EXCEPT !.until = z] = Record(x, y, z, p, v)
  BY DEF Record
<1> HIDE DEF l
<1>2. Moved(l, x, y, z)
        = [[[l EXCEPT !.state = x] EXCEPT !.holder = y] EXCEPT !.until = z]
  BY DEF Moved
<1> QED
  BY <1>1, <1>2 DEF l

LEMMA RecordCounted ==
  ASSUME NEW s, NEW h, NEW u, NEW p, NEW v, NEW x, NEW y, NEW z
  PROVE  Counted(Record(s, h, u, p, v), x, y, z) = Record(x, y, z, p, v + 1)
<1> DEFINE l == Record(s, h, u, p, v)
<1>1. l.version + 1 = v + 1
  BY DEF Record
<1>2. [Record(x, y, z, p, v) EXCEPT !.version = v + 1] = Record(x, y, z, p, v + 1)
  BY DEF Record
<1>3. Moved(l, x, y, z) = Record(x, y, z, p, v)
  BY RecordMoved
<1> HIDE DEF l
<1>4. Counted(l, x, y, z) = [Moved(l, x, y, z) EXCEPT !.version = l.version + 1]
  BY DEF Counted, Moved
<1>5. Counted(l, x, y, z) = Record(x, y, z, p, v + 1)
  BY <1>1, <1>2, <1>3, <1>4
<1> QED
  BY <1>5 DEF l

LEMMA RecordProgressed ==
  ASSUME NEW s, NEW h, NEW u, NEW p, NEW v
  PROVE  Progressed(Record(s, h, u, p, v)) = Record(s, h, u, p + 1, v + 1)
<1> DEFINE l == Record(s, h, u, p, v)
<1>1. l.version + 1 = v + 1 /\ l.progress + 1 = p + 1
  BY DEF Record
<1>2. [l EXCEPT !.progress = p + 1] = Record(s, h, u, p + 1, v)
  BY DEF Record
<1>3. [Record(s, h, u, p + 1, v) EXCEPT !.version = v + 1]
        = Record(s, h, u, p + 1, v + 1)
  BY DEF Record
<1> HIDE DEF l
<1>4. Progressed(l)
        = [[l EXCEPT !.progress = l.progress + 1] EXCEPT !.version = l.version + 1]
  BY DEF Progressed
<1>5. Progressed(l) = Record(s, h, u, p + 1, v + 1)
  BY <1>1, <1>2, <1>3, <1>4
<1> QED
  BY <1>5 DEF l

\* The other fields of the lease of a row.
LEMMA LeaseFields ==
  ASSUME NEW row
  PROVE  /\ LeaseOf(row) = Record(LeaseOf(row).state, row.owner, row.expires,
                                  row.cursor, row.version)
         /\ LeaseOf(row).holder = row.owner /\ LeaseOf(row).until = row.expires
         /\ LeaseOf(row).progress = row.cursor /\ LeaseOf(row).version = row.version
BY DEF LeaseOf, Record

LEMMA RequeuedLease ==
  ASSUME NEW row \in WorkflowRow
  PROVE  LeaseOf(Requeued(row)) = Service!Nobody(LeaseOf(row))
<1> DEFINE new == Requeued(row)
<1>1. /\ new.status = "QUEUED" /\ new.owner = None /\ new.expires = None
      /\ new.cursor = row.cursor /\ new.version = row.version
  BY DEF Requeued, WorkflowRow
<1> HIDE DEF new
<1>2. LeaseOf(new) = Record("free", None, None, row.cursor, row.version)
  BY <1>1 DEF LeaseOf, Record
<1>3. Moved(LeaseOf(row), "free", None, None)
        = Record("free", None, None, row.cursor, row.version)
  BY LeaseFields, RecordMoved
<1>4. Service!Nobody(LeaseOf(row)) = Moved(LeaseOf(row), "free", None, None)
  BY DEF Service!Nobody, Moved
<1> QED
  BY <1>2, <1>3, <1>4 DEF new

\* What a step of worker k does to one lease.
Uses(l, n, k) ==
  \/ Service!Grant(l, n, k)
  \/ /\ l.holder = k
     /\ \/ Service!Renew(l, n) \/ Service!Waive(l, n) \/ Service!Return(l, n)
        \/ Service!Progress(l, n) \/ Service!Finish(l, n)

LEMMA SilentServes ==
  ASSUME NEW old \in WorkflowRow, RowConsistent(old), NEW row, SilentRow(old, row)
  PROVE  Uses(LeaseOf(old), LeaseOf(row), old.owner)
<1>1. ASSUME NEW e \in 0..MaxTime, old.status = "RUNNING",
             row = [old EXCEPT !.expires = e]
      PROVE  Service!Renew(LeaseOf(old), LeaseOf(row))
  <2>1. /\ row.status = "RUNNING" /\ row.owner = old.owner /\ row.expires = e
        /\ row.cursor = old.cursor /\ row.version = old.version
    BY <1>1 DEF WorkflowRow
  <2> QED
    BY <1>1, <2>1 DEF LeaseOf, Service!Renew
<1>2. ASSUME row = Requeued(old), old.owner # None
      PROVE  Service!Return(LeaseOf(old), LeaseOf(row))
  <2>1. LeaseOf(old).state \in {"held", "waived"}
    BY <1>2, LeaseState DEF RowConsistent, Leased
  <2> QED
    BY <1>2, <2>1, RequeuedLease DEF Service!Return, Service!Taken
<1>3. ASSUME old.status = "RUNNING", row = [old EXCEPT !.status = "WAITING"]
      PROVE  Service!Waive(LeaseOf(old), LeaseOf(row))
  <2>1. /\ row.status = "WAITING" /\ row.owner = old.owner /\ row.expires = old.expires
        /\ row.cursor = old.cursor /\ row.version = old.version
    BY <1>3 DEF WorkflowRow
  <2> QED
    BY <1>3, <2>1 DEF LeaseOf, Service!Waive
<1> QED
  BY <1>1, <1>2, <1>3, LeaseFields DEF SilentRow, Uses

\* A workflow that is eligible at a time read before is free or endable now.
LEMMA EligibleEndable ==
  ASSUME IInv, NEW w \in Workflows, NEW now \in Nows, Eligible(w, now)
  PROVE  \/ LeaseOf(workflows[w]).state = "free"
         \/ Service!Endable(LeaseOf(workflows[w]))
<1>1. workflows[w] \in WorkflowRow /\ RowConsistent(workflows[w]) /\ now <= clock
  BY DEF IInv, TypeOK, LeaseConsistent, Nows
<1>2. CASE workflows[w].status \in {"QUEUED", "WAITING"}
  BY <1>1, <1>2, LeaseState DEF Service!Endable
<1>3. CASE Expired(w, now)
  <2>1. workflows[w].expires \in Int /\ workflows[w].expires <= clock
    BY <1>1, <1>3 DEF Expired, WorkflowRow, IInv, TypeOK, Nows
  <2>2. workflows[w].status \in Leased
    BY <1>1, <1>3 DEF Expired, RowConsistent
  <2> QED
    BY <1>1, <2>1, <2>2, LeaseState, LeaseFields DEF Leased, Service!Endable
<1> QED
  BY <1>2, <1>3 DEF Eligible

LEMMA CreatedOpens ==
  ASSUME NEW old \in WorkflowRow, old.status = "ABSENT", NEW now
  PROVE  Service!Create(LeaseOf(old), LeaseOf(Created(now)))
BY LeaseState DEF Created, LeaseOf, Service!Create

LEMMA TakenServes ==
  ASSUME IInv, NEW w \in Workflows, NEW now \in Nows, NEW k \in Workers, NEW e,
         Eligible(w, now)
  PROVE  Uses(LeaseOf(workflows[w]), LeaseOf(Taken(workflows[w], k, e)), k)
<1> DEFINE old == workflows[w]
           row == Taken(old, k, e)
<1>1. old \in WorkflowRow
  BY DEF IInv, TypeOK
<1>2. LeaseOf(old).state = "free" \/ Service!Endable(LeaseOf(old))
  BY EligibleEndable
<1> HIDE DEF old
<1>3. /\ row.status = "RUNNING" /\ row.owner = k /\ row.expires = e
      /\ row.cursor = old.cursor /\ row.version = old.version + 1
  BY <1>1 DEF Taken, WorkflowRow
<1> HIDE DEF row
<1>4. LeaseOf(row) = Record("held", k, e, old.cursor, old.version + 1)
  BY <1>3 DEF LeaseOf, Record
<1>5. LeaseOf(row).until = e
  BY <1>3, LeaseFields
<1>6. Counted(LeaseOf(old), "held", k, e)
        = Record("held", k, e, old.cursor, old.version + 1)
  BY LeaseFields, RecordCounted
<1>7. Service!Grant(LeaseOf(old), LeaseOf(row), k)
  BY <1>2, <1>4, <1>5, <1>6 DEF Service!Grant, Counted
<1> QED
  BY <1>7 DEF Uses, old, row

LEMMA ClosedServes ==
  ASSUME NEW old \in WorkflowRow, old.status = "RUNNING", NEW status \in Terminal
  PROVE  Uses(LeaseOf(old), LeaseOf(Closed(old, status)), old.owner)
<1> DEFINE row == Closed(old, status)
<1>1. LeaseOf(old).state = "held" /\ LeaseOf(old).holder = old.owner
  BY LeaseState, LeaseFields
<1>2. /\ row.status = status /\ row.owner = None /\ row.expires = None
      /\ row.cursor = old.cursor /\ row.version = old.version + 1
  BY DEF Closed, WorkflowRow
<1> HIDE DEF row
<1>3. LeaseOf(row) = Record("closed", None, None, old.cursor, old.version + 1)
  BY <1>2 DEF LeaseOf, Terminal, Record
<1>4. Counted(LeaseOf(old), "closed", None, None)
        = Record("closed", None, None, old.cursor, old.version + 1)
  BY LeaseFields, RecordCounted
<1>5. Service!Finish(LeaseOf(old), LeaseOf(row))
  BY <1>1, <1>3, <1>4 DEF Service!Finish, Counted
<1> QED
  BY <1>1, <1>5 DEF Uses, row

LEMMA LifecycleServes ==
  ASSUME IInv, NEW w \in Workflows, NEW row, NEW type,
         LeasedRow(workflows[w], row, type, w)
  PROVE  \/ Service!Create(LeaseOf(workflows[w]), LeaseOf(row))
         \/ \E k \in Workers : Uses(LeaseOf(workflows[w]), LeaseOf(row), k)
<1>1. workflows[w] \in WorkflowRow
  BY DEF IInv, TypeOK
<1>2. CASE workflows[w].status = "ABSENT" /\ \E now \in Nows : row = Created(now)
  BY <1>1, <1>2, CreatedOpens
<1>3. CASE \E now \in Nows, k \in Workers, d \in LeaseSeconds :
             Eligible(w, now) /\ row = Taken(workflows[w], k, now + d)
  BY <1>3, TakenServes
<1>4. CASE /\ workflows[w].status = "RUNNING" /\ workflows[w].owner # None
           /\ \E status \in Terminal : row = Closed(workflows[w], status)
  <2>1. workflows[w].owner \in Workers
    BY <1>1, <1>4 DEF WorkflowRow
  <2> QED
    BY <1>1, <1>4, <2>1, ClosedServes
<1> QED
  BY <1>2, <1>3, <1>4 DEF LeasedRow

LEMMA AdvancedServes ==
  ASSUME NEW old \in WorkflowRow, RowConsistent(old), old.owner # None
  PROVE  Uses(LeaseOf(old), LeaseOf(Advanced(old)), old.owner)
<1> DEFINE row == Advanced(old)
<1>1. LeaseOf(old).state \in {"held", "waived"} /\ LeaseOf(old).holder = old.owner
  BY LeaseState, LeaseFields DEF RowConsistent, Leased
<1>2. /\ row.status = old.status /\ row.owner = old.owner /\ row.expires = old.expires
      /\ row.cursor = old.cursor + 1 /\ row.version = old.version + 1
  BY DEF Advanced, WorkflowRow
<1> HIDE DEF row
<1>3. LeaseOf(row) = Record(LeaseOf(old).state, old.owner, old.expires,
                            old.cursor + 1, old.version + 1)
  BY <1>2 DEF LeaseOf, Record
<1>4. Progressed(LeaseOf(old))
        = Record(LeaseOf(old).state, old.owner, old.expires, old.cursor + 1,
                 old.version + 1)
  BY LeaseFields, RecordProgressed
<1> QED
  BY <1>1, <1>3, <1>4 DEF row, Uses, Service!Progress, Service!Taken,
                           Progressed

-----------------------------------------------------------------------------
(* Steps of the lease service *)

ServiceStep ==
  \/ \E k \in Workers : Service!Use(k)
  \/ Service!Open \/ Service!Reclaim \/ Service!Wait
  \/ UNCHANGED <<[w \in Workflows |-> LeaseOf(workflows[w])], clock, sched>>

\* A step that puts a row in place of one row does so with the leases.
LEMMA OneLease ==
  ASSUME TypeOK, NEW w \in Workflows,
         workflows' = [workflows EXCEPT ![w] = workflows'[w]]
  PROVE  [v \in Workflows |-> LeaseOf(workflows'[v])]
           = [[v \in Workflows |-> LeaseOf(workflows[v])]
                EXCEPT ![w] = LeaseOf(workflows'[w])]
<1>1. \A v \in Workflows : v # w => workflows'[v] = workflows[v]
  BY DEF TypeOK
<1> QED
  BY <1>1

LEMMA OneServed ==
  ASSUME TypeOK, NEW w \in Workflows, NEW k,
         workflows' = [workflows EXCEPT ![w] = workflows'[w]],
         Uses(LeaseOf(workflows[w]), LeaseOf(workflows'[w]), k),
         UNCHANGED <<clock, sched>>
  PROVE  Service!Use(k)
BY OneLease DEF Service!Use, Uses

LEMMA OneOpened ==
  ASSUME TypeOK, NEW w \in Workflows,
         workflows' = [workflows EXCEPT ![w] = workflows'[w]],
         Service!Create(LeaseOf(workflows[w]), LeaseOf(workflows'[w])),
         UNCHANGED <<clock, sched>>
  PROVE  Service!Open
BY OneLease DEF Service!Open

LEMMA RowsReclaimed ==
  ASSUME IInv, sched' # sched, UNCHANGED clock,
         \A v \in Workflows :
           \/ workflows'[v] = workflows[v]
           \/ /\ workflows'[v] = Requeued(workflows[v])
              /\ Service!Endable(LeaseOf(workflows[v]))
  PROVE  Service!Reclaim
<1>1. \A v \in Workflows : workflows[v] \in WorkflowRow
  BY DEF IInv, TypeOK
<1>2. \A v \in Workflows :
        \/ LeaseOf(workflows'[v]) = LeaseOf(workflows[v])
        \/ /\ Service!Endable(LeaseOf(workflows[v]))
           /\ LeaseOf(workflows'[v]) = Service!Nobody(LeaseOf(workflows[v]))
  BY <1>1, RequeuedLease
<1> QED
  BY <1>2 DEF Service!Reclaim

LEMMA StepServes ==
  ASSUME IInv, StepOfKind
  PROVE  ServiceStep
<1>1. TypeOK /\ \A w \in Workflows : /\ workflows[w] \in WorkflowRow
                                     /\ RowConsistent(workflows[w])
  BY DEF IInv, TypeOK, LeaseConsistent
<1>2. ASSUME UNCHANGED <<workflows, clock>>
      PROVE  ServiceStep
  <2>1. CASE sched' = sched
    BY <1>2, <2>1 DEF ServiceStep
  <2>2. CASE sched' # sched
    BY <1>2, <2>2, RowsReclaimed DEF ServiceStep
  <2> QED
    BY <2>1, <2>2
<1>3. CASE Quiet
  <2>1. CASE clock' = clock + 1 /\ UNCHANGED sched
    BY <1>1, <1>3, <2>1 DEF Quiet, TypeOK, ServiceStep, Service!Wait
  <2> QED
    BY <1>2, <1>3, <2>1 DEF Quiet
<1>4. ASSUME NEW w \in Workflows, Silent(w)
      PROVE  ServiceStep
  <2>1. workflows[w].owner \in Workers
    BY <1>1, <1>4 DEF Silent, SilentRow, WorkflowRow
  <2> QED
    BY <1>1, <1>4, <2>1, SilentServes, OneServed DEF Silent, ServiceStep
<1>5. ASSUME NEW w \in Workflows, NEW type \in EventTypes, Lifecycle(w, type)
      PROVE  ServiceStep
  BY <1>1, <1>5, LifecycleServes, OneServed, OneOpened DEF Lifecycle, ServiceStep
<1>6. ASSUME NEW w \in Workflows, Checkpoint(w)
      PROVE  ServiceStep
  <2>1. /\ workflows'[w] = Advanced(workflows[w])
        /\ workflows' = [workflows EXCEPT ![w] = workflows'[w]]
        /\ workflows[w].owner \in Workers
    BY <1>1, <1>6, RowInPlace DEF Checkpoint, WorkflowRow
  <2> QED
    BY <1>1, <1>6, <2>1, AdvancedServes, OneServed DEF Checkpoint, ServiceStep
<1>7. ASSUME NEW w \in Workflows,
             (\E type \in EventTypes : LateStep(w, type)) \/ Signalled(w)
      PROVE  ServiceStep
  BY <1>2, <1>7 DEF LateStep, Signalled
<1>8. CASE FireExpiredTimers
  <2>1. \A v \in Workflows :
          \/ workflows'[v] = workflows[v]
          \/ /\ workflows'[v] = Requeued(workflows[v])
             /\ workflows[v].status = "WAITING"
    BY <1>8 DEF FireExpiredTimers, TimersToFire
  <2>2. sched' # sched
    BY <1>1, <1>8 DEF FireExpiredTimers, TypeOK, SchedulerStates
  <2> QED
    BY <1>1, <1>8, <2>1, <2>2, LeaseState, RowsReclaimed
       DEF FireExpiredTimers, notTimers, ServiceStep, Service!Endable
<1>9. CASE ExpireLeases
  <2>1. sched' # sched
    BY <1>9 DEF ExpireLeases, SchedulerIdle
  <2>2. ASSUME NEW v \in Workflows
        PROVE  \/ workflows'[v] = workflows[v]
               \/ /\ workflows'[v] = Requeued(workflows[v])
                  /\ Service!Endable(LeaseOf(workflows[v]))
    <3>1. CASE workflows[v].status = "RUNNING" /\ Expired(v, sched.now)
      <4>1. workflows'[v] = Requeued(workflows[v])
        BY <1>9, <3>1 DEF ExpireLeases
      <4>2. workflows[v].expires \in Int /\ workflows[v].expires <= clock
        BY <1>1, <3>1
           DEF Expired, WorkflowRow, IInv, TypeOK, SchedulerStates, SchedulerBehind
      <4> QED
        BY <1>1, <3>1, <4>1, <4>2, LeaseState, LeaseFields DEF Service!Endable
    <3> QED
      BY <1>9, <3>1 DEF ExpireLeases
  <2> QED
    BY <1>9, <2>1, <2>2, RowsReclaimed DEF ExpireLeases, notTimers, ServiceStep
<1> QED
  BY <1>3, <1>4, <1>5, <1>6, <1>7, <1>8, <1>9 DEF StepOfKind

\* A call of worker k uses leases in the name of k: the owner that a handler
\* compares with is the holder of the lease that it changes.
LEMMA CallServes ==
  ASSUME IInv, NEW k \in Workers, CallBy(k), workflows' # workflows
  PROVE  Service!Use(k)
<1>1. TypeOK /\ \A w \in Workflows : /\ workflows[w] \in WorkflowRow
                                     /\ RowConsistent(workflows[w])
  BY DEF IInv, TypeOK, LeaseConsistent
<1>2. k # None
  BY NoneAssumption
<1>3. ASSUME NEW w \in Workflows, workflows[w].owner = k, NEW row,
             workflows' = [workflows EXCEPT ![w] = row],
             SilentRow(workflows[w], row), UNCHANGED <<clock, sched>>
      PROVE  Service!Use(k)
  BY <1>1, <1>3, RowInPlace, SilentServes, OneServed
<1>4. ASSUME NEW w \in Workflows, SetWaiting(w, k), UNCHANGED <<clock, sched>>
      PROVE  Service!Use(k)
  <2> DEFINE row == [workflows[w] EXCEPT !.status = "WAITING"]
  <2>1. SilentRow(workflows[w], row) /\ workflows[w].owner = k
    BY <1>2, <1>4 DEF SetWaiting, RunningFor, SilentRow
  <2>2. workflows' = [workflows EXCEPT ![w] = row]
    BY <1>4 DEF SetWaiting
  <2> HIDE DEF row
  <2> QED
    BY <1>3, <1>4, <2>1, <2>2
<1>5. ASSUME NEW w \in Workflows, workflows[w].owner = k,
             workflows[w].status = "RUNNING", NEW status \in Terminal,
             workflows' = [workflows EXCEPT ![w] = Closed(workflows[w], status)],
             UNCHANGED <<clock, sched>>
      PROVE  Service!Use(k)
  BY <1>1, <1>5, RowInPlace, ClosedServes, OneServed
<1>6. ASSUME NEW d \in LeaseSeconds, AcquireLease(k, d)
      PROVE  Service!Use(k)
  <2>1. PICK now \in Nows, w \in Workflows : LeaseTo(w, k, d, now)
    BY <1>6 DEF AcquireLease
  <2>2. Eligible(w, now) /\ UNCHANGED <<clock, sched>>
    BY <2>1 DEF LeaseTo, Oldest, notLeases
  <2> DEFINE e == now + d
  <2>3. workflows' = [workflows EXCEPT ![w] = Taken(workflows[w], k, e)]
    BY <2>1 DEF LeaseTo
  <2> HIDE DEF e
  <2> QED
    BY <1>1, <2>2, <2>3, RowInPlace, TakenServes, OneServed
<1>7. ASSUME NEW w \in Workflows, NEW d \in LeaseSeconds, RenewLease(w, k, d)
      PROVE  Service!Use(k)
  <2>1. PICK now \in Nows :
          now + d <= MaxTime /\ workflows' = [workflows EXCEPT ![w].expires = now + d]
    BY <1>7 DEF RenewLease
  <2> DEFINE e == now + d
             row == [workflows[w] EXCEPT !.expires = e]
  <2>2. e \in 0..MaxTime /\ workflows' = [workflows EXCEPT ![w] = row]
    BY <2>1, LeaseAssumption, BoundAssumption DEF Nows
  <2>3. /\ workflows[w].status = "RUNNING" /\ workflows[w].owner = k
        /\ UNCHANGED <<clock, sched>>
    BY <1>7 DEF RenewLease, RunningFor, notLeases
  <2> HIDE DEF e
  <2>4. SilentRow(workflows[w], row)
    BY <1>2, <2>2, <2>3 DEF SilentRow
  <2> HIDE DEF row
  <2> QED
    BY <1>3, <2>2, <2>3, <2>4
<1>8. ASSUME NEW w \in Workflows, ReleaseLease(w, k)
      PROVE  Service!Use(k)
  BY <1>2, <1>3, <1>8 DEF ReleaseLease, SilentRow, notLeases
<1>9. ASSUME NEW w \in Workflows, CompleteWorkflow(w, k) \/ FailWorkflow(w, k)
      PROVE  Service!Use(k)
  BY <1>5, <1>9 DEF CompleteWorkflow, FailWorkflow, RunningFor, notLeases, Terminal
<1>10. ASSUME NEW w \in Workflows, MarkWaiting(w, k)
       PROVE  Service!Use(k)
  BY <1>4, <1>10 DEF MarkWaiting, notLeases
<1>11. ASSUME NEW w \in Workflows, NEW s \in StepNumbers, CompleteStep(w, k, s)
       PROVE  Service!Use(k)
  <2>1. /\ workflows' = [workflows EXCEPT ![w] = Advanced(workflows[w])]
        /\ workflows[w].owner = k /\ UNCHANGED <<clock, sched>>
    BY <1>11 DEF CompleteStep, HoldsLease, notSteps
  <2> QED
    BY <1>1, <1>2, <2>1, RowInPlace, AdvancedServes, OneServed
<1>12. ASSUME NEW t \in Threads, thread[t] # Idle, thread[t].worker = k,
              StartStep(t) \/ FailStep(t) \/ RetryStepWait(t)
       PROVE  Service!Use(k)
  <2>1. RetryStepWait(t) /\ SetWaiting(thread[t].wf, k)
    BY <1>12 DEF StartStep, FailStep, RetryStepWait
  <2>2. thread[t].wf \in Workflows
    BY <1>1, <1>12, <2>1 DEF RetryStepWait, TypeOK, Requests, Idle
  <2> QED
    BY <1>4, <2>1, <2>2 DEF RetryStepWait, notTimers
<1> QED
  BY <1>6, <1>7, <1>8, <1>9, <1>10, <1>11, <1>12 DEF CallBy

\* The rows of the engine are the leases of the abstract lease service, and
\* what a call of a worker changes is that worker's own use of its lease.
THEOREM EngineImplementsLeaseService == Spec => ImplementsLeaseService
<1>1. Init => Service!ServiceInit
  BY DEF Init, NoWorkflow, LeaseOf, Service!ServiceInit
<1>2. IInv /\ [Next]_vars =>
        [Service!ServiceNext]_<<
            [w \in Workflows |-> LeaseOf(workflows[w])], clock, sched>>
  BY EveryStepKind, StepServes DEF ServiceStep, Service!ServiceNext
<1>3. IInv /\ [Next]_vars =>
        [workflows' # workflows =>
           \A k \in Workers : CallBy(k) => Service!Use(k)]_vars
  BY CallServes
<1> QED
  BY <1>1, <1>2, <1>3, Invariance, PTL
     DEF Spec, ImplementsLeaseService, Service!ServiceSpec

-----------------------------------------------------------------------------
(* Logs of events as logs of types *)

TypesOf(log) == [i \in DOMAIN log |-> log[i].type]

LEMMA TypesSequence ==
  ASSUME NEW log \in Seq(EventRow)
  PROVE  /\ TypesOf(log) \in Seq(EventTypes) /\ Len(TypesOf(log)) = Len(log)
         /\ DOMAIN TypesOf(log) = 1..Len(log) /\ Len(log) \in Nat
         /\ DOMAIN log = 1..Len(log)
         /\ \A i \in 1..Len(log) : TypesOf(log)[i] = log[i].type
<1>1. Len(log) \in Nat /\ DOMAIN log = 1..Len(log)
  BY LenProperties
<1>2. \A i \in 1..Len(log) : log[i].type \in EventTypes
  <2>1. \A i \in 1..Len(log) : log[i] \in EventRow
    BY ElementOfSeq
  <2> QED
    BY <2>1 DEF EventRow
<1>3. TypesOf(log) \in [1..Len(log) -> EventTypes]
  BY <1>1, <1>2 DEF TypesOf
<1>4. TypesOf(log) \in Seq(EventTypes) /\ Len(TypesOf(log)) = Len(log)
  BY <1>1, <1>3, SeqDef, LenProperties
<1> QED
  BY <1>1, <1>3, <1>4 DEF TypesOf

\* AppendEvents appends to the log of types.
LEMMA AppendedLog ==
  ASSUME NEW log \in Seq(EventRow), \A i \in DOMAIN log : log[i].seq = i,
         NEW type \in EventTypes, NEW n \in Nat
  PROVE  /\ TypesOf(AppendEvents(log, type, n)) = TypesOf(log) \o [i \in 1..n |-> type]
         /\ Len(TypesOf(AppendEvents(log, type, n))) - Len(TypesOf(log)) = n
         /\ n = 1 => TypesOf(AppendEvents(log, type, n)) = Append(TypesOf(log), type)
<1> DEFINE new == AppendEvents(log, type, n)
           old == TypesOf(log)
           tail == [i \in 1..n |-> type]
<1>1. /\ DOMAIN log = 1..Len(log) /\ Len(log) \in Nat
      /\ DOMAIN new = 1..(Len(log) + n)
      /\ \A i \in 1..Len(log) : new[i] = log[i]
      /\ \A i \in (Len(log) + 1)..(Len(log) + n) : new[i].type = type
  BY AppendedTypes
<1>2. /\ old \in Seq(EventTypes) /\ Len(old) = Len(log)
      /\ \A i \in 1..Len(log) : old[i] = log[i].type
  BY TypesSequence
<1>3. tail \in Seq(EventTypes) /\ Len(tail) = n /\ \A i \in 1..n : tail[i] = type
  <2>1. tail \in [1..n -> EventTypes]
    OBVIOUS
  <2>2. tail \in Seq(EventTypes)
    BY <2>1, SeqDef
  <2> QED
    BY <2>1, <2>2, LenProperties
<1> HIDE DEF new, old, tail
<1>4. \A i \in 1..(Len(log) + n) :
        new[i].type = IF i <= Len(log) THEN old[i] ELSE type
  <2> TAKE i \in 1..(Len(log) + n)
  <2>1. CASE i \in 1..Len(log)
    BY <1>1, <1>2, <2>1
  <2>2. CASE i \in (Len(log) + 1)..(Len(log) + n)
    BY <1>1, <2>2
  <2> QED
    BY <1>1, <2>1, <2>2
<1>5. TypesOf(new) \in Seq(EventTypes) /\ Len(TypesOf(new)) = Len(log) + n
  <2>1. TypesOf(new) = [i \in 1..(Len(log) + n) |-> new[i].type]
    BY <1>1 DEF TypesOf
  <2>2. \A i \in 1..(Len(log) + n) : new[i].type \in EventTypes
    <3> TAKE i \in 1..(Len(log) + n)
    <3>1. i <= Len(log) => i \in 1..Len(log)
      BY <1>1
    <3> QED
      BY <1>2, <1>4, <3>1, ElementOfSeq
  <2>3. TypesOf(new) \in [1..(Len(log) + n) -> EventTypes]
    BY <2>1, <2>2
  <2>4. Len(log) + n \in Nat
    BY <1>1
  <2>5. TypesOf(new) \in Seq(EventTypes)
    BY <2>3, <2>4, SeqDef
  <2> QED
    BY <2>3, <2>4, <2>5, LenProperties
<1>6. \A i \in 1..(Len(log) + n) : TypesOf(new)[i] = new[i].type
  BY <1>1 DEF TypesOf
<1>7. /\ old \o tail \in Seq(EventTypes) /\ Len(old \o tail) = Len(log) + n
      /\ \A i \in 1..(Len(log) + n) :
           (old \o tail)[i] = IF i <= Len(log) THEN old[i] ELSE tail[i - Len(log)]
  <2>1. /\ old \o tail \in Seq(EventTypes) /\ Len(old \o tail) = Len(old) + Len(tail)
        /\ \A i \in 1..(Len(old) + Len(tail)) :
             (old \o tail)[i] = IF i <= Len(old) THEN old[i] ELSE tail[i - Len(old)]
    BY <1>2, <1>3, ConcatProperties
  <2> QED
    BY <1>2, <1>3, <2>1
<1>8. \A i \in 1..(Len(log) + n) : i > Len(log) => tail[i - Len(log)] = type
  BY <1>1, <1>3
<1>9. TypesOf(new) = old \o tail
  <2>1. \A i \in 1..(Len(log) + n) : TypesOf(new)[i] = (old \o tail)[i]
    BY <1>1, <1>4, <1>6, <1>7, <1>8
  <2> QED
    BY <1>5, <1>7, <2>1, SeqEqual
<1>10. ASSUME n = 1 PROVE TypesOf(new) = Append(old, type)
  <2>1. /\ Append(old, type) \in Seq(EventTypes)
        /\ Len(Append(old, type)) = Len(log) + 1
        /\ \A i \in 1..Len(log) : Append(old, type)[i] = old[i]
        /\ Append(old, type)[Len(log) + 1] = type
    BY <1>2, AppendProperties
  <2>2. \A i \in 1..(Len(log) + 1) : TypesOf(new)[i] = Append(old, type)[i]
    BY <1>1, <1>4, <1>6, <1>10, <2>1
  <2> QED
    BY <1>5, <1>10, <2>1, <2>2, SeqEqual
<1> QED
  BY <1>1, <1>2, <1>5, <1>9, <1>10 DEF new, old, tail

-----------------------------------------------------------------------------
(* The phase of a log *)

\* The last lifecycle event of log is of the given type.
LastIs(log, type) ==
  \E m \in DOMAIN log :
    /\ log[m].type = type /\ type \in Log!LifecycleTypes
    /\ \A i \in DOMAIN log : i > m => log[i].type \notin Log!LifecycleTypes

LEMMA PhaseIsLast ==
  ASSUME NEW log \in Seq(EventRow), NEW type, LastIs(log, type)
  PROVE  Log!Phase(TypesOf(log)) = type
<1> DEFINE l == TypesOf(log)
           marks == {i \in DOMAIN l : l[i] \in Log!LifecycleTypes}
<1>1. /\ DOMAIN l = 1..Len(log) /\ DOMAIN log = 1..Len(log) /\ Len(log) \in Nat
      /\ \A i \in 1..Len(log) : l[i] = log[i].type
  BY TypesSequence
<1>2. PICK m \in DOMAIN log :
        /\ log[m].type = type /\ type \in Log!LifecycleTypes
        /\ \A i \in DOMAIN log : i > m => log[i].type \notin Log!LifecycleTypes
  BY DEF LastIs
<1> HIDE DEF l
<1>3. m \in marks /\ marks \subseteq Int /\ \A i \in marks : m >= i
  BY <1>1, <1>2
<1>4. Log!Max(marks) = m
  <2> HIDE DEF marks
  <2> QED
    BY <1>3 DEF Log!Max
<1>5. Log!Phase(l) = l[m]
  <2>1. marks # {}
    BY <1>3
  <2>2. Log!Phase(l) = IF marks = {} THEN "NONE" ELSE l[Log!Max(marks)]
    BY DEF Log!Phase
  <2> HIDE DEF marks
  <2> QED
    BY <1>4, <2>1, <2>2
<1> QED
  BY <1>1, <1>2, <1>5 DEF l

\* The phase after n events of one type.
LEMMA AppendedLast ==
  ASSUME NEW log \in Seq(EventRow), \A i \in DOMAIN log : log[i].seq = i,
         NEW type \in EventTypes, NEW n \in Nat
  PROVE  LET new == AppendEvents(log, type, n) IN
         /\ type \in Log!LifecycleTypes /\ n > 0 => LastIs(new, type)
         /\ type \notin Log!LifecycleTypes \/ n = 0 =>
              \A last : LastIs(log, last) => LastIs(new, last)
<1> DEFINE new == AppendEvents(log, type, n)
<1>1. /\ DOMAIN log = 1..Len(log) /\ Len(log) \in Nat
      /\ DOMAIN new = 1..(Len(log) + n)
      /\ \A i \in 1..Len(log) : new[i] = log[i]
      /\ \A i \in (Len(log) + 1)..(Len(log) + n) : new[i].type = type
  BY AppendedTypes
<1> HIDE DEF new
<1>2. ASSUME type \in Log!LifecycleTypes, n > 0 PROVE LastIs(new, type)
  <2>1. Len(log) + n \in DOMAIN new /\ new[Len(log) + n].type = type
    BY <1>1, <1>2
  <2>2. \A i \in DOMAIN new : ~(i > Len(log) + n)
    BY <1>1
  <2> QED
    BY <1>2, <2>1, <2>2 DEF LastIs
<1>3. ASSUME type \notin Log!LifecycleTypes \/ n = 0, NEW last, LastIs(log, last)
      PROVE  LastIs(new, last)
  <2>1. PICK m \in DOMAIN log :
          /\ log[m].type = last /\ last \in Log!LifecycleTypes
          /\ \A i \in DOMAIN log : i > m => log[i].type \notin Log!LifecycleTypes
    BY <1>3 DEF LastIs
  <2>2. m \in DOMAIN new /\ new[m].type = last
    BY <1>1, <2>1
  <2>3. ASSUME NEW i \in DOMAIN new, i > m
        PROVE  new[i].type \notin Log!LifecycleTypes
    <3>1. CASE i \in 1..Len(log)
      BY <1>1, <2>1, <2>3, <3>1
    <3>2. CASE i \in (Len(log) + 1)..(Len(log) + n)
      BY <1>1, <1>3, <3>2
    <3> QED
      BY <1>1, <3>1, <3>2
  <2> QED
    BY <2>1, <2>2, <2>3 DEF LastIs
<1> QED
  BY <1>2, <1>3 DEF new

-----------------------------------------------------------------------------
(* The row of a workflow and the phase of its log *)

PhaseMatches(row, log) ==
  /\ row.status = "QUEUED" =>
       \E type \in {"WORKFLOW_CREATED", "WORKFLOW_STARTED", "TIMER_FIRED"} :
         LastIs(log, type)
  /\ row.status \in Leased => LastIs(log, "WORKFLOW_STARTED")
  /\ row.status \in Terminal => \E type \in Closing : LastIs(log, type)

Started(log) == \E i \in DOMAIN log : log[i].type = "WORKFLOW_STARTED"

\* A request that has passed verifyLease is for a workflow that has started.
RequestsStarted ==
  \A t \in Threads :
    thread[t].op \in {"StartStep", "FailStep"} => Started(events[thread[t].wf])

\* The invariant of the refinement.
LogInv ==
  /\ \A w \in Workflows : PhaseMatches(workflows[w], events[w])
  /\ RequestsStarted

\* A workflow that is leased, or was, has started.
LEMMA LastIsIn ==
  ASSUME NEW log, LastIs(log, "WORKFLOW_STARTED")
  PROVE  Started(log)
BY DEF LastIs, Started

\* Whatever is appended for w, its log keeps what the new row needs.
LEMMA EmitPhase ==
  ASSUME IInv, NEW w \in Workflows, NEW type \in EventTypes, Emit(w, type)
  PROVE  /\ type \in Log!LifecycleTypes => LastIs(events'[w], type)
         /\ type \notin Log!LifecycleTypes =>
              \A last : LastIs(events[w], last) => LastIs(events'[w], last)
<1>1. /\ events[w] \in Seq(EventRow)
      /\ \A i \in DOMAIN events[w] : events[w][i].seq = i
  BY DEF IInv, TypeOK, LogContiguous
<1> DEFINE new == AppendEvents(events[w], type, 1)
<1>2. /\ type \in Log!LifecycleTypes => LastIs(new, type)
      /\ type \notin Log!LifecycleTypes =>
              \A last : LastIs(events[w], last) => LastIs(new, last)
  BY <1>1, AppendedLast
<1> HIDE DEF new
<1>3. events'[w] = new
  BY DEF Emit, IInv, TypeOK, new
<1> QED
  BY <1>2, <1>3

LEMMA StepPhase ==
  ASSUME IInv, StepOfKind, NEW v \in Workflows, PhaseMatches(workflows[v], events[v])
  PROVE  PhaseMatches(workflows'[v], events'[v])
<1>1. TypeOK /\ workflows[v] \in WorkflowRow /\ RowConsistent(workflows[v])
  BY DEF IInv, TypeOK, LeaseConsistent
<1>2. ASSUME workflows'[v].status = workflows[v].status, events'[v] = events[v]
      PROVE  PhaseMatches(workflows'[v], events'[v])
  BY <1>2 DEF PhaseMatches
<1>3. ASSUME workflows'[v].status = workflows[v].status, NEW w \in Workflows,
             NEW type \in EventTypes \ Log!LifecycleTypes, Emit(w, type)
      PROVE  PhaseMatches(workflows'[v], events'[v])
  <2>1. CASE v = w
    BY <1>3, <2>1, EmitPhase DEF PhaseMatches
  <2>2. CASE v # w
    BY <1>1, <1>2, <1>3, <2>2 DEF Emit, TypeOK
  <2> QED
    BY <2>1, <2>2
<1>4. ASSUME workflows[v].status \in Leased, events'[v] = events[v],
             workflows'[v].status \in {"QUEUED"} \cup Leased
      PROVE  PhaseMatches(workflows'[v], events'[v])
  BY <1>4 DEF PhaseMatches, Leased, Terminal
<1>5. CASE Quiet
  BY <1>2, <1>5 DEF Quiet
<1>6. ASSUME NEW w \in Workflows, Silent(w)
      PROVE  PhaseMatches(workflows'[v], events'[v])
  <2>1. CASE v = w
    <3>1. SilentRow(workflows[v], workflows'[v]) /\ events'[v] = events[v]
      BY <1>6, <2>1 DEF Silent
    <3>2. workflows[v].status \in Leased
      BY <1>1, <3>1 DEF SilentRow, RowConsistent
    <3>3. workflows'[v].status \in {"QUEUED"} \cup Leased
      BY <1>1, <3>1, <3>2 DEF SilentRow, Requeued, WorkflowRow, Leased
    <3> QED
      BY <1>4, <3>1, <3>2, <3>3
  <2>2. CASE v # w
    BY <1>1, <1>2, <1>6, <2>2, RowInPlace DEF Silent
  <2> QED
    BY <2>1, <2>2
<1>7. ASSUME NEW w \in Workflows, NEW type \in EventTypes, Lifecycle(w, type)
      PROVE  PhaseMatches(workflows'[v], events'[v])
  <2>1. CASE v = w
    <3>1. LeasedRow(workflows[v], workflows'[v], type, v) /\ Emit(v, type)
      BY <1>7, <2>1 DEF Lifecycle
    <3>2. LastIs(events'[v], type)
      BY <3>1, EmitPhase DEF LeasedRow, Log!LifecycleTypes
    <3>3. \/ /\ workflows'[v].status = "QUEUED" /\ type = "WORKFLOW_CREATED"
          \/ /\ workflows'[v].status = "RUNNING" /\ type = "WORKFLOW_STARTED"
          \/ /\ workflows'[v].status \in Terminal /\ type \in Closing
      <4>1. \A now : Created(now).status = "QUEUED"
        BY DEF Created
      <4>2. \A k, e : Taken(workflows[v], k, e).status = "RUNNING"
        BY <1>1 DEF Taken, WorkflowRow
      <4>3. \A status \in Terminal : Closed(workflows[v], status).status \in Terminal
        BY <1>1 DEF Closed, WorkflowRow
      <4> QED
        BY <3>1, <4>1, <4>2, <4>3 DEF LeasedRow, Closing
    <3> QED
      BY <3>2, <3>3 DEF PhaseMatches, Leased, Terminal
  <2>2. CASE v # w
    <3>1. workflows'[v] = workflows[v]
      BY <1>1, <1>7, <2>2, RowInPlace DEF Lifecycle
    <3>2. events'[v] = events[v]
      BY <1>1, <1>7, <2>2 DEF Lifecycle, Emit, TypeOK
    <3> QED
      BY <1>2, <3>1, <3>2
  <2> QED
    BY <2>1, <2>2
<1>8. ASSUME NEW w \in Workflows, Checkpoint(w)
      PROVE  PhaseMatches(workflows'[v], events'[v])
  <2>1. workflows'[v] = workflows[v] \/ workflows'[v] = Advanced(workflows[v])
    BY <1>1, <1>8, RowInPlace DEF Checkpoint
  <2>2. workflows'[v].status = workflows[v].status
    BY <1>1, <2>1 DEF Advanced, WorkflowRow
  <2>3. "STEP_COMPLETED" \in EventTypes \ Log!LifecycleTypes /\ Emit(w, "STEP_COMPLETED")
    BY <1>8 DEF Checkpoint, EventTypes, Log!LifecycleTypes
  <2> QED
    BY <1>3, <2>2, <2>3
<1>9. ASSUME NEW w \in Workflows, NEW type \in EventTypes, LateStep(w, type)
      PROVE  PhaseMatches(workflows'[v], events'[v])
  BY <1>3, <1>9 DEF LateStep, Log!LifecycleTypes
<1>10. ASSUME NEW w \in Workflows, Signalled(w)
       PROVE  PhaseMatches(workflows'[v], events'[v])
  BY <1>3, <1>10 DEF Signalled, EventTypes, Log!LifecycleTypes
<1>11. CASE FireExpiredTimers
  <2> DEFINE n == Cardinality(TimersToFire(v, sched.now))
             new == AppendEvents(events[v], "TIMER_FIRED", n)
  <2>1. /\ events[v] \in Seq(EventRow) /\ \A i \in DOMAIN events[v] : events[v][i].seq = i
        /\ "TIMER_FIRED" \in EventTypes /\ n \in Nat
        /\ TimersToFire(v, sched.now) # {} => n > 0
        /\ TimersToFire(v, sched.now) = {} => n = 0
    <3>1. IsFiniteSet(TimersToFire(v, sched.now)) /\ n \in Nat
      BY <1>1, TimersToFireFinite
    <3>2. n = 0 <=> TimersToFire(v, sched.now) = {}
      BY <3>1, FS_EmptySet
    <3> QED
      BY <3>1, <3>2 DEF IInv, TypeOK, LogContiguous, EventTypes
  <2>2. events'[v] = new
    BY <1>11 DEF FireExpiredTimers
  <2> HIDE DEF n
  <2>3. /\ n > 0 => LastIs(new, "TIMER_FIRED")
        /\ n = 0 => \A last : LastIs(events[v], last) => LastIs(new, last)
    BY <2>1, AppendedLast DEF Log!LifecycleTypes
  <2> HIDE DEF new
  <2>4. CASE TimersToFire(v, sched.now) # {}
    <3>1. workflows'[v] = Requeued(workflows[v])
      BY <1>11, <2>4 DEF FireExpiredTimers
    <3>2. workflows'[v].status = "QUEUED" /\ LastIs(events'[v], "TIMER_FIRED")
      BY <1>1, <2>1, <2>2, <2>3, <2>4, <3>1 DEF Requeued, WorkflowRow
    <3> QED
      BY <3>2 DEF PhaseMatches, Leased, Terminal
  <2>5. CASE TimersToFire(v, sched.now) = {}
    <3>1. workflows'[v] = workflows[v]
      BY <1>11, <2>5 DEF FireExpiredTimers
    <3> QED
      BY <2>1, <2>2, <2>3, <2>5, <3>1 DEF PhaseMatches
  <2> QED
    BY <2>4, <2>5
<1>12. CASE ExpireLeases
  <2>1. events' = events
    BY <1>12 DEF ExpireLeases
  <2>2. \/ workflows'[v] = workflows[v]
        \/ /\ workflows[v].status \in Leased
           /\ workflows'[v] = Requeued(workflows[v])
    BY <1>12 DEF ExpireLeases, Leased
  <2>3. CASE workflows'[v] = workflows[v]
    BY <1>2, <2>1, <2>3
  <2>4. CASE workflows[v].status \in Leased /\ workflows'[v] = Requeued(workflows[v])
    BY <1>1, <1>4, <2>1, <2>4 DEF Requeued, WorkflowRow
  <2> QED
    BY <2>2, <2>3, <2>4
<1> QED
  BY <1>5, <1>6, <1>7, <1>8, <1>9, <1>10, <1>11, <1>12 DEF StepOfKind

\* A log only grows.
LEMMA StepStarted ==
  ASSUME IInv, StepOfKind, NEW v \in Workflows, Started(events[v])
  PROVE  Started(events'[v])
<1>1. /\ events[v] \in Seq(EventRow)
      /\ \A i \in DOMAIN events[v] : events[v][i].seq = i
      /\ events \in [Workflows -> Seq(EventRow)]
  BY DEF IInv, TypeOK, LogContiguous
<1>2. ASSUME NEW type \in EventTypes, NEW n \in Nat
      PROVE  Started(AppendEvents(events[v], type, n))
  <2> DEFINE new == AppendEvents(events[v], type, n)
  <2>1. /\ DOMAIN events[v] = 1..Len(events[v]) /\ Len(events[v]) \in Nat
        /\ DOMAIN new = 1..(Len(events[v]) + n)
        /\ \A i \in 1..Len(events[v]) : new[i] = events[v][i]
    BY <1>1, AppendedTypes
  <2> HIDE DEF new
  <2>2. Started(new)
    BY <2>1 DEF Started
  <2> QED
    BY <2>2 DEF new
<1>3. ASSUME UNCHANGED events PROVE Started(events'[v])
  BY <1>3
<1>4. ASSUME NEW w \in Workflows, NEW type \in EventTypes, Emit(w, type)
      PROVE  Started(events'[v])
  <2>1. events'[v] \in {events[v], AppendEvents(events[v], type, 1)}
    BY <1>1, <1>4 DEF Emit
  <2> QED
    BY <1>2, <2>1
<1>5. CASE FireExpiredTimers
  <2>1. Cardinality(TimersToFire(v, sched.now)) \in Nat
    BY TimersToFireFinite DEF IInv
  <2>2. events'[v] = AppendEvents(events[v], "TIMER_FIRED",
                                  Cardinality(TimersToFire(v, sched.now)))
    BY <1>5 DEF FireExpiredTimers
  <2> QED
    BY <1>2, <2>1, <2>2 DEF EventTypes
<1>6. /\ "STEP_COMPLETED" \in EventTypes /\ "SIGNAL_RECEIVED" \in EventTypes
  BY DEF EventTypes
<1> QED
  BY <1>3, <1>4, <1>5, <1>6
     DEF StepOfKind, Quiet, Silent, Lifecycle, Checkpoint, LateStep, Signalled,
         ExpireLeases

\* Only the owner of a workflow passes verifyLease.
LEMMA NewRequest ==
  ASSUME IInv, [Next]_vars, NEW t \in Threads,
         thread'[t].op \in {"StartStep", "FailStep"}
  PROVE  \/ thread'[t] = thread[t]
         \/ /\ thread'[t].wf \in Workflows
            /\ workflows[thread'[t].wf].owner # None
<1>1. thread \in [Threads -> Requests]
  BY DEF IInv, TypeOK
<1>2. CASE RequestStep
  <2>1. PICK u \in Threads :
        \/ \E w \in Workflows, k \in Workers :
             \/ \E s \in StepNumbers, op \in {"StartStep", "FailStep"} :
                  VerifyLease(u, op, w, k, s)
             \/ \E count \in 0..MaxRetries : RetryStep(u, w, k, count)
        \/ StartStep(u)
        \/ FailStep(u)
        \/ RetryStepWait(u)
    BY <1>2 DEF RequestStep
  <2>2. ASSUME NEW w \in Workflows, NEW k \in Workers, NEW s \in StepNumbers,
               NEW op \in {"StartStep", "FailStep"}, VerifyLease(u, op, w, k, s)
        PROVE  \/ thread'[t] = thread[t]
               \/ thread'[t].wf = w /\ workflows[w].owner = k
    BY <1>1, <2>2 DEF VerifyLease, HoldsLease
  <2>3. ASSUME NEW w \in Workflows, NEW k \in Workers, NEW count \in 0..MaxRetries,
               RetryStep(u, w, k, count)
        PROVE  thread'[t] = thread[t]
    BY <1>1, <2>3 DEF RetryStep
  <2>4. ASSUME StartStep(u) \/ FailStep(u) \/ RetryStepWait(u)
        PROVE  thread'[t] = thread[t]
    BY <1>1, <2>4 DEF StartStep, FailStep, RetryStepWait, Idle
  <2> QED
    BY <2>1, <2>2, <2>3, <2>4, NoneAssumption
<1>3. CASE Crash
  BY <1>3 DEF Crash, Idle
<1>4. ASSUME UNCHANGED thread PROVE thread'[t] = thread[t]
  BY <1>4
<1>5. LeaseStep => UNCHANGED thread
  BY DEF LeaseStep, RenewLease, ReleaseLease, CompleteWorkflow, FailWorkflow,
         MarkWaiting, CompleteStep, notLeases
<1>6. ClientStep => UNCHANGED thread
  BY DEF ClientStep, CreateWorkflow, SendSignal, ConsumeSignal, TakeSignal,
         CreateTimer, AcquireLease, LeaseTo, notLeases, notSignals
<1>7. SchedulerStep \/ PassSecond \/ UNCHANGED vars => UNCHANGED thread
  BY DEF SchedulerStep, TickStart, FireExpiredTimers, ExpireLeases, PassSecond, vars
<1> QED
  BY <1>2, <1>3, <1>4, <1>5, <1>6, <1>7 DEF Next

-----------------------------------------------------------------------------
(* Steps of the event log *)

LogOf == [w \in Workflows |-> [i \in DOMAIN events[w] |-> events[w][i].type]]

LogStep ==
  \/ \E w \in Workflows : \/ Log!Create(w) \/ Log!Start(w) \/ Log!Checkpoint(w)
                          \/ Log!Close(w) \/ Log!LateStep(w) \/ Log!Signal(w)
  \/ Log!FireTimers
  \/ UNCHANGED LogOf

LEMMA EmitGrows ==
  ASSUME IInv, NEW w \in Workflows, NEW type \in EventTypes, Emit(w, type)
  PROVE  Log!Grows(w, type)
<1>1. /\ events[w] \in Seq(EventRow)
      /\ \A i \in DOMAIN events[w] : events[w][i].seq = i
      /\ events \in [Workflows -> Seq(EventRow)]
  BY DEF IInv, TypeOK, LogContiguous
<1> DEFINE new == AppendEvents(events[w], type, 1)
<1>2. TypesOf(new) = Append(TypesOf(events[w]), type)
  BY <1>1, AppendedLog
<1>3. events' = [events EXCEPT ![w] = new]
  BY DEF Emit
<1> HIDE DEF new
<1>4. events'[w] = new /\ \A v \in Workflows : v # w => events'[v] = events[v]
  BY <1>1, <1>3
<1>5. LogOf' = [LogOf EXCEPT ![w] = Append(LogOf[w], type)]
  <2>1. LogOf' = [v \in Workflows |-> TypesOf(events'[v])]
    BY DEF LogOf, TypesOf
  <2>2. LogOf = [v \in Workflows |-> TypesOf(events[v])]
    BY DEF LogOf, TypesOf
  <2> QED
    BY <1>2, <1>4, <2>1, <2>2
<1> QED
  BY <1>5 DEF LogOf, Log!Grows

\* The log of a workflow, as Log sees it.
LEMMA LogOfTypes ==
  ASSUME NEW w \in Workflows
  PROVE  LogOf[w] = TypesOf(events[w])
BY DEF LogOf, TypesOf

LEMMA LogPhase ==
  ASSUME IInv, NEW w \in Workflows, NEW type, LastIs(events[w], type)
  PROVE  Log!Phase(LogOf[w]) = type
<1>1. events[w] \in Seq(EventRow)
  BY DEF IInv, TypeOK
<1> QED
  BY <1>1, LogOfTypes, PhaseIsLast

LEMMA FiringLogged ==
  ASSUME IInv, LogInv, FireExpiredTimers
  PROVE  Log!FireTimers
<1> SUFFICES ASSUME NEW w \in Workflows
             PROVE  LET fired == Len(LogOf'[w]) - Len(LogOf[w]) IN
                    /\ LogOf'[w] = LogOf[w] \o [i \in 1..fired |-> "TIMER_FIRED"]
                    /\ fired > 0 => Log!Phase(LogOf[w]) = "WORKFLOW_STARTED"
  BY DEF Log!FireTimers, LogOf
<1> DEFINE n == Cardinality(TimersToFire(w, sched.now))
           old == TypesOf(events[w])
           new == TypesOf(AppendEvents(events[w], "TIMER_FIRED", n))
<1>1. /\ events[w] \in Seq(EventRow) /\ \A i \in DOMAIN events[w] : events[w][i].seq = i
      /\ "TIMER_FIRED" \in EventTypes
      /\ n \in Nat /\ (TimersToFire(w, sched.now) = {} => n = 0)
  BY TimersToFireFinite DEF IInv, TypeOK, LogContiguous, EventTypes
<1>2. events'[w] = AppendEvents(events[w], "TIMER_FIRED", n)
  BY DEF FireExpiredTimers
<1>3. n > 0 => Log!Phase(LogOf[w]) = "WORKFLOW_STARTED"
  <2> SUFFICES ASSUME n > 0 PROVE LastIs(events[w], "WORKFLOW_STARTED")
    BY LogPhase
  <2>1. workflows[w].status = "WAITING"
    BY <1>1 DEF TimersToFire
  <2> QED
    BY <2>1 DEF LogInv, PhaseMatches, Leased
<1> HIDE DEF n
<1>4. new = old \o [i \in 1..n |-> "TIMER_FIRED"] /\ Len(new) - Len(old) = n
  BY <1>1, AppendedLog
<1>5. LogOf'[w] = new /\ LogOf[w] = old
  BY <1>2 DEF LogOf, TypesOf
<1> HIDE DEF old, new
<1> QED
  BY <1>3, <1>4, <1>5

LEMMA StepLogged ==
  ASSUME IInv, LogInv, StepOfKind
  PROVE  LogStep
<1>1. \A w \in Workflows : /\ PhaseMatches(workflows[w], events[w])
                           /\ workflows[w] \in WorkflowRow
                           /\ RowConsistent(workflows[w])
                           /\ events[w] \in Seq(EventRow)
  BY DEF IInv, TypeOK, LeaseConsistent, LogInv
<1>2. ASSUME UNCHANGED events PROVE LogStep
  BY <1>2 DEF LogStep, LogOf
<1>3. \A w \in Workflows :
        workflows[w].owner # None => Log!Phase(LogOf[w]) = "WORKFLOW_STARTED"
  <2> SUFFICES ASSUME NEW w \in Workflows, workflows[w].owner # None
               PROVE  LastIs(events[w], "WORKFLOW_STARTED")
    BY LogPhase
  <2> QED
    BY <1>1 DEF RowConsistent, PhaseMatches
<1>4. ASSUME NEW w \in Workflows, NEW type \in EventTypes, Lifecycle(w, type)
      PROVE  LogStep
  <2>1. Log!Grows(w, type) /\ LeasedRow(workflows[w], workflows'[w], type, w)
    BY <1>4, EmitGrows DEF Lifecycle
  <2>2. CASE type = "WORKFLOW_CREATED"
    <3>1. events[w] = <<>>
      BY <2>1, <2>2 DEF LeasedRow, IInv, LogOfExisting, Exists
    <3>2. [i \in DOMAIN events[w] |-> events[w][i].type] = <<>>
      BY <3>1
    <3>3. LogOf[w] = <<>>
      BY <3>2 DEF LogOf
    <3>4. Log!Create(w)
      BY <2>1, <2>2, <3>3 DEF Log!Create, LogOf
    <3> QED
      BY <3>4 DEF LogStep
  <2>3. CASE type = "WORKFLOW_STARTED"
    <3>1. workflows[w].status \in {"QUEUED"} \cup Leased
      BY <1>1, <2>1, <2>3 DEF LeasedRow, Eligible, Expired, RowConsistent, Leased
    <3>2. \E last \in {"WORKFLOW_CREATED", "WORKFLOW_STARTED", "TIMER_FIRED"} :
            LastIs(events[w], last)
      BY <1>1, <3>1 DEF PhaseMatches
    <3>3. Log!Phase(LogOf[w])
            \in {"WORKFLOW_CREATED", "WORKFLOW_STARTED", "TIMER_FIRED"}
      BY <3>2, LogPhase
    <3>4. Log!Start(w)
      BY <2>1, <2>3, <3>3 DEF Log!Start, LogOf
    <3> QED
      BY <3>4 DEF LogStep
  <2>4. CASE type \in {"WORKFLOW_COMPLETED", "WORKFLOW_FAILED"}
    <3>1. Log!Phase(LogOf[w]) = "WORKFLOW_STARTED"
      BY <1>3, <2>1, <2>4 DEF LeasedRow
    <3>2. Log!Close(w)
      BY <2>1, <2>4, <3>1 DEF Log!Close, LogOf
    <3> QED
      BY <3>2 DEF LogStep
  <2> QED
    BY <2>1, <2>2, <2>3, <2>4 DEF LeasedRow
<1>5. ASSUME NEW w \in Workflows, Checkpoint(w)
      PROVE  LogStep
  <2>1. Log!Grows(w, "STEP_COMPLETED") /\ Log!Phase(LogOf[w]) = "WORKFLOW_STARTED"
    BY <1>3, <1>5, EmitGrows DEF Checkpoint, EventTypes
  <2>2. Log!Checkpoint(w)
    BY <2>1 DEF Log!Checkpoint, LogOf
  <2> QED
    BY <2>2 DEF LogStep
<1>6. ASSUME NEW w \in Workflows, NEW type \in EventTypes, LateStep(w, type)
      PROVE  LogStep
  <2>1. Log!Grows(w, type) /\ type \in {"STEP_STARTED", "STEP_FAILED"}
    BY <1>6, EmitGrows DEF LateStep
  <2>2. Started(events[w])
    BY <1>6 DEF LateStep, LogInv, RequestsStarted
  <2>3. Log!HasStarted(LogOf[w])
    <3>1. LogOf[w] = TypesOf(events[w])
      BY LogOfTypes
    <3> QED
      BY <2>2, <3>1 DEF Started, Log!HasStarted, TypesOf
  <2>4. Log!LateStep(w)
    BY <2>1, <2>3 DEF Log!LateStep, LogOf
  <2> QED
    BY <2>4 DEF LogStep
<1>7. ASSUME NEW w \in Workflows, Signalled(w)
      PROVE  LogStep
  <2>1. Log!Grows(w, "SIGNAL_RECEIVED")
    BY <1>7, EmitGrows DEF Signalled, EventTypes
  <2>2. \E last : LastIs(events[w], last)
    BY <1>1, <1>7 DEF Signalled, Exists, PhaseMatches, WorkflowRow, Statuses
  <2>3. LogOf[w] # <<>>
    <3>1. PICK i \in DOMAIN events[w] : TRUE
      BY <2>2 DEF LastIs
    <3>2. i \in DOMAIN LogOf[w]
      BY <3>1 DEF LogOf
    <3> QED
      BY <3>2
  <2>4. Log!Signal(w)
    BY <2>1, <2>3 DEF Log!Signal, LogOf
  <2> QED
    BY <2>4 DEF LogStep
<1> QED
  BY <1>2, <1>4, <1>5, <1>6, <1>7, FiringLogged
     DEF StepOfKind, Quiet, Silent, ExpireLeases, LogStep

LEMMA LogInvStep ==
  ASSUME IInv, LogInv, [Next]_vars
  PROVE  LogInv'
<1>1. StepOfKind /\ IInv'
  BY EveryStepKind, NextInv
<1>2. \A w \in Workflows : PhaseMatches(workflows'[w], events'[w])
  BY <1>1, StepPhase DEF LogInv
<1>3. ASSUME NEW t \in Threads, thread'[t].op \in {"StartStep", "FailStep"}
      PROVE  Started(events'[thread'[t].wf])
  <2>1. CASE thread'[t] = thread[t]
    <3> DEFINE w == thread[t].wf
    <3>1. w \in Workflows /\ Started(events[w])
      BY <1>3, <2>1, StepRequest DEF IInv, LogInv, RequestsStarted
    <3> HIDE DEF w
    <3>2. Started(events'[w])
      BY <1>1, <3>1, StepStarted
    <3> QED
      BY <2>1, <3>2 DEF w
  <2>2. CASE /\ thread'[t].wf \in Workflows
             /\ workflows[thread'[t].wf].owner # None
    <3> DEFINE w == thread'[t].wf
    <3>1. w \in Workflows /\ workflows[w].owner # None
      BY <2>2
    <3> HIDE DEF w
    <3>2. Started(events[w])
      BY <3>1, LastIsIn DEF LogInv, PhaseMatches, IInv, LeaseConsistent, RowConsistent
    <3>3. Started(events'[w])
      BY <1>1, <3>1, <3>2, StepStarted
    <3> QED
      BY <3>3 DEF w
  <2> QED
    BY <1>3, <2>1, <2>2, NewRequest
<1> QED
  BY <1>2, <1>3 DEF LogInv, RequestsStarted

\* The events of every workflow form a log that EventLog allows.
THEOREM EngineImplementsEventLog == Spec => ImplementsEventLog
<1>1. Init => LogInv /\ Log!LogInit
  <2> SUFFICES ASSUME Init PROVE LogInv /\ Log!LogInit
    OBVIOUS
  <2>1. \A w \in Workflows : [i \in DOMAIN events[w] |-> events[w][i].type] = <<>>
    BY DEF Init
  <2>2. Log!LogInit
    BY <2>1 DEF Log!LogInit
  <2>3. LogInv
    BY DEF Init, LogInv, PhaseMatches, RequestsStarted, NoWorkflow, Leased, Terminal, Idle
  <2> QED
    BY <2>2, <2>3
<1>2. IInv /\ LogInv /\ [Next]_vars => LogInv' /\ [Log!LogNext]_LogOf
  BY LogInvStep, EveryStepKind, StepLogged DEF LogStep, Log!LogNext
<1>3. [Log!LogNext]_LogOf =>
        [Log!LogNext]_[w \in Workflows |-> [i \in DOMAIN events[w] |-> events[w][i].type]]
  BY DEF LogOf
<1> QED
  BY <1>1, <1>2, <1>3, Invariance, PTL DEF Spec, ImplementsEventLog, Log!LogSpec
=============================================================================
