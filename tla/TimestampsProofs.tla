-------------------------- MODULE TimestampsProofs --------------------------
(***************************************************************************)
(* Theorems about Timestamps: for any wait of the handlers, how far the    *)
(* times of events and the order of consumption may go back, and what the  *)
(* mean length of a step is.                                               *)
(***************************************************************************)
EXTENDS Timestamps, LogProofs

-----------------------------------------------------------------------------
(* The engine inside *)

\* Stamping adds nothing to what the engine does.
LEMMA StampedStep ==
  ASSUME [StampedNext]_stampedVars
  PROVE  [Next]_vars
<1>1. CASE \E now \in Nows : StepTimes(now)
  BY <1>1 DEF StepTimes, Next, RequestStep, LeaseStep
<1>2. CASE \E now \in Nows : ReadingShown(now)
  <2>1. PICK now \in Nows : ReadingShown(now)
    BY <1>2
  <2>2. CASE \E w \in Workflows : CreateWorkflow(w) \/ SendSignal(w)
    BY <2>2 DEF Next, ClientStep
  <2>3. CASE \E w \in Workflows, k \in Workers : CompleteWorkflow(w, k) \/ FailWorkflow(w, k)
    BY <2>3 DEF Next, LeaseStep
  <2>4. CASE \E w \in Workflows, k \in Workers, d \in LeaseSeconds : LeaseTo(w, k, d, now)
    BY <2>1, <2>4 DEF Next, ClientStep, AcquireLease
  <2> QED
    BY <2>1, <2>2, <2>3, <2>4 DEF ReadingShown
<1>3. CASE FireExpiredTimers
  BY <1>3 DEF Next, SchedulerStep
<1>4. CASE NotStamped
  BY <1>4 DEF NotStamped, Next, LeaseStep, ClientStep, RequestStep, SchedulerStep
<1>5. CASE UNCHANGED stampedVars
  BY <1>5 DEF stampedVars
<1> QED
  BY <1>1, <1>2, <1>3, <1>4, <1>5 DEF StampedNext

\* The engine with its stored times is the engine: what is proved of Spec
\* holds of it.
THEOREM StampedImplementsEngine == StampedSpec => Spec
<1>1. StampedInit => Init
  BY DEF StampedInit
<1> QED
  BY <1>1, StampedStep, PTL DEF StampedSpec, Spec

-----------------------------------------------------------------------------
(* The order of consumption *)

\* No signal is from the future.
SignalInv == SignalOrder /\ \A i \in DOMAIN signals : signals[i].created <= clock

LEMMA SignalChanges ==
  ASSUME [Next]_vars
  PROVE  \/ UNCHANGED signals
         \/ \E w \in Workflows : ConsumeSignal(w) \/ SendSignal(w)
<1>1. CASE LeaseStep
  BY <1>1 DEF LeaseStep, RenewLease, ReleaseLease, CompleteWorkflow, FailWorkflow,
              MarkWaiting, CompleteStep, notLeases, notSteps
<1>2. CASE ClientStep
  BY <1>2 DEF ClientStep, CreateWorkflow, CreateTimer, AcquireLease, LeaseTo,
              notLeases, notTimers
<1>3. CASE RequestStep
  BY <1>3 DEF RequestStep, VerifyLease, StartStep, FailStep, RetryStep,
              RetryStepWait, notSteps, notTimers
<1>4. CASE SchedulerStep
  BY <1>4 DEF SchedulerStep, TickStart, FireExpiredTimers, ExpireLeases, notTimers
<1>5. CASE PassSecond \/ Crash \/ UNCHANGED vars
  BY <1>5 DEF PassSecond, Crash, vars, tables
<1> QED
  BY <1>1, <1>2, <1>3, <1>4, <1>5 DEF Next

LEMMA ClockGrows ==
  ASSUME IInv, [Next]_vars
  PROVE  clock \in Nat /\ clock' \in Nat /\ clock <= clock'
<1>1. IInv'
  BY NextInv
<1>2. clock \in 0..MaxTime /\ clock' \in (0..MaxTime)' /\ MaxTime \in Nat
  BY <1>1, BoundAssumption DEF IInv, TypeOK
<1>3. clock' = clock \/ clock' = clock + 1
  BY EveryStepKind DEF StepOfKind, Quiet, Silent, Lifecycle, Checkpoint, LateStep,
     Signalled, FireExpiredTimers, ExpireLeases, notTimers
<1> QED
  BY <1>2, <1>3

LEMMA SignalInvStep ==
  ASSUME IInv, SignalInv, [Next]_vars
  PROVE  SignalInv'
<1>1. clock \in Nat /\ clock' \in Nat /\ clock <= clock' /\ MaxLag \in Nat
  BY ClockGrows, BoundAssumption
<1>2. \A i \in DOMAIN signals : signals[i] \in SignalRow
  BY ElementOfSeq, LenProperties DEF IInv, TypeOK
<1>3. CASE UNCHANGED signals
  BY <1>1, <1>2, <1>3 DEF SignalInv, SignalOrder, SignalRow
<1>4. CASE \E w \in Workflows : ConsumeSignal(w)
  <2>1. PICK w \in Workflows, n \in DOMAIN signals : TakeSignal(w, n)
    BY <1>4 DEF ConsumeSignal
  <2>2. /\ DOMAIN signals' = DOMAIN signals
        /\ \A i \in DOMAIN signals :
             /\ signals'[i].wf = signals[i].wf
             /\ signals'[i].created = signals[i].created
             /\ signals'[i].consumed = (i = n \/ signals[i].consumed)
    <3>1. signals' = [signals EXCEPT ![n].consumed = TRUE]
      BY <2>1 DEF TakeSignal
    <3> QED
      BY <3>1, <1>2 DEF SignalRow
  <2>3. /\ signals[n].wf = w
        /\ \A j \in DOMAIN signals :
             (signals[j].wf = w /\ ~signals[j].consumed)
               => signals[n].created <= signals[j].created
    BY <2>1 DEF TakeSignal, OldestSignals, PendingSignals
  <2>4. \A i \in DOMAIN signals : signals[i].created \in Nat
    BY <1>2 DEF SignalRow
  <2>5. SignalOrder'
    <3> SUFFICES ASSUME NEW i \in DOMAIN signals, NEW j \in DOMAIN signals,
                        signals[i].wf = signals[j].wf,
                        signals[i].created + MaxLag < signals[j].created,
                        j = n \/ signals[j].consumed,
                        ~(i = n \/ signals[i].consumed)
                 PROVE  FALSE
      BY <2>2 DEF SignalOrder
    <3>1. CASE signals[j].consumed
      BY <3>1 DEF SignalInv, SignalOrder
    <3>2. CASE j = n
      BY <3>2, <1>1, <2>3, <2>4
    <3> QED
      BY <3>1, <3>2
  <2> QED
    BY <1>1, <2>2, <2>4, <2>5 DEF SignalInv
<1>5. CASE \E w \in Workflows : SendSignal(w)
  <2>1. PICK w \in Workflows, now \in Nows :
          signals' = Append(signals, [wf |-> w, created |-> now, consumed |-> FALSE])
    BY <1>5 DEF SendSignal
  <2> DEFINE new == [wf |-> w, created |-> now, consumed |-> FALSE]
  <2>2. now \in Nat /\ now <= clock
    BY <1>1, <2>1 DEF Nows
  <2>3. /\ DOMAIN signals = 1..Len(signals) /\ Len(signals) \in Nat
        /\ DOMAIN signals' = 1..(Len(signals) + 1)
        /\ signals'[Len(signals) + 1] = new
        /\ \A i \in 1..Len(signals) : signals'[i] = signals[i]
    <3>1. signals \in Seq(SignalRow) /\ new \in SignalRow
      BY <2>2 DEF IInv, TypeOK, SignalRow
    <3> HIDE DEF new
    <3> QED
      BY <2>1, <3>1, AppendProperties, LenProperties DEF new
  <2>4. \A i \in DOMAIN signals : signals[i].created \in Nat
    BY <1>2 DEF SignalRow
  <2>5. \A i \in DOMAIN signals' :
          i \in DOMAIN signals \/ (i = Len(signals) + 1 /\ ~signals'[i].consumed)
    BY <2>3
  <2>6. SignalOrder'
    <3> SUFFICES ASSUME NEW i \in DOMAIN signals', NEW j \in DOMAIN signals',
                        signals'[i].wf = signals'[j].wf,
                        signals'[i].created + MaxLag < signals'[j].created,
                        signals'[j].consumed
                 PROVE  signals'[i].consumed
      BY DEF SignalOrder
    <3>1. j \in DOMAIN signals /\ signals'[j] = signals[j]
      BY <2>3, <2>5
    <3>2. CASE i \in DOMAIN signals
      BY <3>1, <3>2, <2>3 DEF SignalInv, SignalOrder
    <3>3. CASE i = Len(signals) + 1
      <4>1. signals'[i].created = now
        BY <3>3, <2>3
      <4> QED
        BY <4>1, <3>1, <2>2, <2>4, <1>1 DEF SignalInv, Nows
    <3> QED
      BY <2>5, <3>2, <3>3
  <2>7. \A i \in DOMAIN signals' : signals'[i].created <= clock'
    BY <1>1, <2>2, <2>3, <2>4 DEF SignalInv
  <2> QED
    BY <2>6, <2>7 DEF SignalInv
<1> QED
  BY <1>3, <1>4, <1>5, SignalChanges

\* Signals are consumed in the order of their sending, up to the time that a
\* handler waits for the connection.
THEOREM SignalsInOrder == StampedSpec => []SignalOrder
<1>1. Init => SignalInv
  BY DEF Init, SignalInv, SignalOrder
<1>2. Spec => []SignalInv
  BY <1>1, SignalInvStep, Invariance, PTL DEF Spec
<1>3. SignalInv => SignalOrder
  BY DEF SignalInv
<1> QED
  BY <1>2, <1>3, StampedImplementsEngine, PTL

-----------------------------------------------------------------------------
(* The times of events *)

\* A log keeps its events when it grows.
Growth(v) ==
  /\ DOMAIN events[v] = 1..Len(events[v]) /\ Len(events[v]) \in Nat
  /\ Len(events'[v]) \in Nat /\ Len(events[v]) <= Len(events'[v])
  /\ \A i \in 1..Len(events[v]) : events'[v][i] = events[v][i]

LEMMA LogGrows ==
  ASSUME IInv, [Next]_vars, NEW v \in Workflows
  PROVE  Growth(v)
<1>1. /\ events[v] \in Seq(EventRow) /\ \A i \in DOMAIN events[v] : events[v][i].seq = i
      /\ DOMAIN events = Workflows
  BY DEF IInv, TypeOK, LogContiguous
<1>2. DOMAIN events[v] = 1..Len(events[v]) /\ Len(events[v]) \in Nat
  BY <1>1, LenProperties
<1>3. ASSUME NEW type \in EventTypes, NEW n \in Nat,
             events'[v] = AppendEvents(events[v], type, n)
      PROVE  Growth(v)
  <2> DEFINE new == AppendEvents(events[v], type, n)
  <2>1. /\ Len(new) = Len(events[v]) + n
        /\ \A i \in 1..Len(events[v]) : new[i] = events[v][i]
    <3>1. Len(new) = Len(events[v]) + n
      BY <1>1, AppendEventsContiguous
    <3>2. \A i \in 1..Len(events[v]) : new[i] = events[v][i]
      BY <1>1, AppendedTypes
    <3> QED
      BY <3>1, <3>2
  <2> HIDE DEF new
  <2> QED
    BY <1>2, <1>3, <2>1 DEF Growth, new
<1>4. CASE UNCHANGED events
  BY <1>2, <1>4 DEF Growth
<1>5. CASE \E w \in Workflows, type \in EventTypes : Emit(w, type)
  <2>1. PICK w \in Workflows, type \in EventTypes : Emit(w, type)
    BY <1>5
  <2>2. CASE w = v
    BY <1>1, <1>3, <2>1, <2>2 DEF Emit
  <2>3. CASE w # v
    BY <1>2, <2>1, <2>3 DEF Emit, Growth
  <2> QED
    BY <2>2, <2>3
<1>6. CASE FireExpiredTimers
  <2> DEFINE n == Cardinality(TimersToFire(v, sched.now))
  <2>1. n \in Nat
    BY TimersToFireFinite DEF IInv
  <2>2. events'[v] = AppendEvents(events[v], "TIMER_FIRED", n)
    BY <1>6 DEF FireExpiredTimers
  <2> HIDE DEF n
  <2> QED
    BY <1>3, <2>1, <2>2 DEF EventTypes
<1>7. CASE ExpireLeases
  BY <1>4, <1>7 DEF ExpireLeases
<1>8. CASE Quiet \/ \E w \in Workflows : Silent(w)
  BY <1>4, <1>8 DEF Quiet, Silent
<1>9. CASE \E w \in Workflows :
             \/ \E type \in EventTypes : Lifecycle(w, type) \/ LateStep(w, type)
             \/ Checkpoint(w)
             \/ Signalled(w)
  BY <1>5, <1>9 DEF Lifecycle, LateStep, Checkpoint, Signalled, EventTypes
<1> QED
  BY <1>6, <1>7, <1>8, <1>9, EveryStepKind DEF StepOfKind

\* What is beyond the old end of a log is of the appended type.
LEMMA AppendedAreOf ==
  ASSUME NEW log \in Seq(EventRow), \A i \in DOMAIN log : log[i].seq = i,
         NEW type \in EventTypes, NEW n \in Nat, NEW longer,
         longer = AppendEvents(log, type, n),
         NEW i \in 1..Len(longer), i > Len(log)
  PROVE  longer[i].type = type
<1> DEFINE new == AppendEvents(log, type, n)
<1>1. Len(new) = Len(log) + n
  BY AppendEventsContiguous
<1>2. /\ DOMAIN log = 1..Len(log) /\ Len(log) \in Nat
      /\ DOMAIN new = 1..(Len(log) + n)
      /\ \A j \in 1..Len(log) : new[j] = log[j]
      /\ \A j \in (Len(log) + 1)..(Len(log) + n) : new[j].type = type
  BY AppendedTypes
<1>3. longer = new
  OBVIOUS
<1> HIDE DEF new
<1> QED
  BY <1>1, <1>2, <1>3

\* What a cycle of the scheduler adds to a log.
LEMMA FiringAddsFired ==
  ASSUME IInv, FireExpiredTimers, NEW v \in Workflows,
         NEW i \in 1..Len(events'[v]), i > Len(events[v])
  PROVE  events'[v][i].type = "TIMER_FIRED"
<1>1. events[v] \in Seq(EventRow) /\ \A j \in DOMAIN events[v] : events[v][j].seq = j
  BY DEF IInv, TypeOK, LogContiguous
<1>2. ASSUME NEW type \in EventTypes, NEW n \in Nat,
             events'[v] = AppendEvents(events[v], type, n)
      PROVE  events'[v][i].type = type
  BY <1>1, <1>2, AppendedAreOf
<1>3. PICK n \in Nat : events'[v] = AppendEvents(events[v], "TIMER_FIRED", n)
  BY TimersToFireFinite DEF IInv, FireExpiredTimers
<1> QED
  BY <1>2, <1>3 DEF EventTypes

\* One time for each event, none from the future, and in the order of the log
\* up to the wait of a handler.
Stamps(v) ==
  /\ stamps[v] \in Seq(Nat) /\ Len(stamps[v]) = Len(events[v])
  /\ \A i \in 1..Len(events[v]) :
       /\ stamps[v][i] <= clock
       /\ \A j \in 1..Len(events[v]) :
            (i < j /\ events[v][j].type # "TIMER_FIRED")
              => stamps[v][i] <= stamps[v][j] + MaxLag

StampInv == \A v \in Workflows : Stamps(v)

\* New events with one time, which is recent unless timers have fired.
LEMMA StampsGrow ==
  ASSUME NEW v \in Workflows, Stamps(v), Growth(v), NEW at \in Nat, StampedWith(at),
         clock \in Nat, clock' \in Nat, at <= clock, clock <= clock',
         \/ clock - at <= MaxLag
         \/ \A i \in 1..Len(events'[v]) :
              i > Len(events[v]) => events'[v][i].type = "TIMER_FIRED"
  PROVE  Stamps(v)'
<1> DEFINE L == Len(events[v])
           M == Len(events'[v])
           tail == [i \in 1..(M - L) |-> at]
<1>1. L \in Nat /\ M \in Nat /\ L <= M /\ MaxLag \in Nat
  BY BoundAssumption DEF Growth
<1>2. stamps[v] \in Seq(Nat) /\ Len(stamps[v]) = L
  BY DEF Stamps
<1>3. stamps'[v] = stamps[v] \o tail
  BY DEF StampedWith
<1>4. tail \in Seq(Nat) /\ Len(tail) = M - L
  <2>1. M - L \in Nat /\ tail \in [1..(M - L) -> Nat]
    <3> HIDE DEF L, M
    <3> QED
      BY <1>1
  <2> HIDE DEF tail, L, M
  <2>2. tail \in Seq(Nat)
    BY <2>1, SeqDef
  <2> QED
    BY <2>1, <2>2, LenProperties
<1>5. \A i \in 1..(M - L) : tail[i] = at
  OBVIOUS
<1>6. \A i \in 1..L : events'[v][i] = events[v][i] /\ stamps[v][i] \in Nat
  BY <1>2, ElementOfSeq DEF Growth
<1> HIDE DEF tail
<1>7. /\ stamps'[v] \in Seq(Nat) /\ Len(stamps'[v]) = M
      /\ \A i \in 1..M : stamps'[v][i] = IF i <= L THEN stamps[v][i] ELSE tail[i - L]
  <2>1. /\ stamps[v] \o tail \in Seq(Nat)
        /\ Len(stamps[v] \o tail) = L + (M - L)
        /\ \A i \in 1..(L + (M - L)) : (stamps[v] \o tail)[i]
                          = IF i <= L THEN stamps[v][i] ELSE tail[i - L]
    <3> HIDE DEF L, M
    <3>1. Len(stamps[v] \o tail) = Len(stamps[v]) + Len(tail)
      BY <1>2, <1>4, ConcatProperties
    <3>2. \A i \in 1..(Len(stamps[v]) + Len(tail)) : (stamps[v] \o tail)[i]
              = IF i <= Len(stamps[v]) THEN stamps[v][i] ELSE tail[i - Len(stamps[v])]
      BY <1>2, <1>4, ConcatProperties
    <3>3. stamps[v] \o tail \in Seq(Nat)
      BY <1>2, <1>4, ConcatProperties
    <3> QED
      BY <3>1, <3>2, <3>3, <1>2, <1>4
  <2>2. L + (M - L) = M
    BY <1>1
  <2> QED
    BY <1>3, <2>1, <2>2
<1>8. /\ \A i \in 1..L : stamps'[v][i] = stamps[v][i]
      /\ \A i \in 1..M : i > L => stamps'[v][i] = at
  <2> HIDE DEF L, M
  <2>1. \A i \in 1..L : i \in 1..M /\ i <= L
    BY <1>1
  <2>2. \A i \in 1..M : i > L => i - L \in 1..(M - L) /\ ~(i <= L)
    BY <1>1
  <2> QED
    BY <2>1, <2>2, <1>5, <1>7
<1>9. /\ \A i \in 1..L : stamps[v][i] <= clock
      /\ \A i, j \in 1..L : (i < j /\ events[v][j].type # "TIMER_FIRED")
              => stamps[v][i] <= stamps[v][j] + MaxLag
  BY DEF Stamps
<1>10. \A i \in 1..M : stamps'[v][i] <= clock /\ stamps'[v][i] \in Nat
  <2> HIDE DEF L, M
  <2>1. \A i \in 1..M : i > L \/ i \in 1..L
    BY <1>1
  <2> QED
    BY <2>1, <1>6, <1>8, <1>9
<1>11. ASSUME NEW i \in 1..M, NEW j \in 1..M, i < j,
              events'[v][j].type # "TIMER_FIRED"
       PROVE  stamps'[v][i] <= stamps'[v][j] + MaxLag
  <2>1. CASE j \in 1..L
    <3>1. i \in 1..L
      BY <1>1, <1>11, <2>1
    <3> HIDE DEF L, M
    <3> QED
      BY <1>6, <1>8, <1>9, <1>11, <2>1, <3>1
  <2>2. CASE j > L
    <3>1. clock - at <= MaxLag /\ stamps'[v][j] = at
      BY <1>8, <1>11, <2>2
    <3> HIDE DEF L, M
    <3> QED
      BY <3>1, <1>1, <1>10
  <2> HIDE DEF L, M
  <2> QED
    BY <1>1, <2>1, <2>2
<1>12. \A i \in 1..M : stamps'[v][i] <= clock'
  <2> HIDE DEF L, M
  <2> QED
    BY <1>10
<1> QED
  BY <1>7, <1>11, <1>12 DEF Stamps

\* What is not stamped writes no event.
LEMMA UnstampedWritesNoEvent ==
  ASSUME NotStamped
  PROVE  UNCHANGED events
BY DEF NotStamped, ReleaseLease, MarkWaiting, RenewLease, VerifyLease, RetryStep,
       RetryStepWait, ConsumeSignal, TakeSignal, CreateTimer, TickStart,
       ExpireLeases, PassSecond, Crash, notLeases, tables

LEMMA StampInvStep ==
  ASSUME IInv, StampInv, [StampedNext]_stampedVars
  PROVE  StampInv'
<1>1. [Next]_vars
  BY StampedStep
<1>2. clock \in Nat /\ clock' \in Nat /\ clock <= clock'
  BY <1>1, ClockGrows
<1> SUFFICES ASSUME NEW v \in Workflows PROVE Stamps(v)'
  BY DEF StampInv
<1>3. Stamps(v) /\ Growth(v)
  BY <1>1, LogGrows DEF StampInv
<1>4. CASE \E now \in Nows : Stamped(now)
  <2>1. PICK now \in Nows : Stamped(now)
    BY <1>4
  <2>2. now \in Nat /\ now <= clock /\ clock - now <= MaxLag
    BY <1>2 DEF Nows
  <2> QED
    BY <1>2, <1>3, <2>1, <2>2, StampsGrow DEF Stamped
<1>5. CASE FireExpiredTimers /\ Stamped(sched.now)
  <2>1. sched.now \in Nat /\ sched.now <= clock
    BY DEF IInv, TypeOK, SchedulerStates, SchedulerBehind
  <2> QED
    BY <1>2, <1>3, <1>5, <2>1, FiringAddsFired, StampsGrow DEF Stamped
<1>6. CASE UNCHANGED <<events, stamps>>
  <2>1. \A i \in 1..Len(events[v]) : stamps[v][i] \in Nat
    BY <1>3, ElementOfSeq DEF Stamps
  <2> QED
    BY <1>2, <1>3, <1>6, <2>1 DEF Stamps
<1>7. CASE NotStamped /\ UNCHANGED stamps
  BY <1>6, <1>7, UnstampedWritesNoEvent
<1>8. CASE UNCHANGED stampedVars
  BY <1>6, <1>8 DEF stampedVars, vars
<1> QED
  BY <1>4, <1>5, <1>7, <1>8 DEF StampedNext

\* In a log numbered 1, 2, 3, ... ORDER BY sequence_number is the order of
\* insertion.
LEMMA ShownInOrder ==
  ASSUME IInv, NEW w \in Workflows
  PROVE  /\ DOMAIN GetEvents(w) = DOMAIN events[w]
         /\ \A n \in DOMAIN events[w] :
              /\ GetEvents(w)[n].type = events[w][n].type
              /\ GetEvents(w)[n].created = stamps[w][n]
<1> DEFINE rows == [i \in DOMAIN events[w] |-> [type |-> events[w][i].type,
                                                seq |-> events[w][i].seq,
                                                created |-> stamps[w][i]]]
           Before(i) == {j \in DOMAIN rows : rows[j].seq < rows[i].seq}
           L == Len(events[w])
<1>1. L \in Nat /\ DOMAIN events[w] = 1..L /\ \A i \in DOMAIN events[w] : events[w][i].seq = i
  BY LenProperties DEF IInv, TypeOK, LogContiguous
<1>2. DOMAIN rows = 1..L /\ \A i \in 1..L : rows[i].seq = i
  BY <1>1
<1>3. ASSUME NEW i \in 1..L
      PROVE  Cardinality(Before(i)) = i - 1
  <2>1. Before(i) = 1..(i - 1)
    BY <1>1, <1>2, <1>3
  <2> QED
    <3> HIDE DEF Before, L
    <3>1. 1 \in Int /\ i - 1 \in Int /\ (i - 1) - 1 + 1 = i - 1
      BY <1>1
    <3>2. Cardinality(1..(i - 1)) = IF 1 > i - 1 THEN 0 ELSE (i - 1) - 1 + 1
      BY <3>1, FS_Interval
    <3> QED
      BY <1>1, <2>1, <3>1, <3>2
<1>4. ASSUME NEW n \in 1..L
      PROVE  (CHOOSE i \in DOMAIN rows : Cardinality(Before(i)) = n - 1) = n
  <2> HIDE DEF Before, rows
  <2>1. \A i \in DOMAIN rows : Cardinality(Before(i)) = n - 1 <=> i = n
    BY <1>1, <1>2, <1>3
  <2>2. n \in DOMAIN rows
    BY <1>2
  <2> QED
    BY <2>1, <2>2
<1>5. GetEvents(w) = [n \in DOMAIN rows |->
        rows[CHOOSE i \in DOMAIN rows : Cardinality(Before(i)) = n - 1]]
  BY DEF GetEvents
<1>6. \A n \in 1..L : GetEvents(w)[n] = rows[n]
  <2> HIDE DEF rows, Before
  <2> QED
    BY <1>2, <1>4, <1>5
<1>7. DOMAIN GetEvents(w) = 1..L
  BY <1>2, <1>5
<1>8. \A n \in 1..L : rows[n].type = events[w][n].type /\ rows[n].created = stamps[w][n]
  BY <1>1
<1> HIDE DEF rows, L
<1> QED
  BY <1>1, <1>6, <1>7, <1>8

\* In the order that GetEvents shows, created_at goes back by no more than the
\* time that a handler waits for the connection, but for fired timers.
THEOREM CreationTimesInOrder == StampedSpec => []CreatedAtOrder
<1>1. StampedInit => StampInv
  <2> SUFFICES ASSUME StampedInit, NEW v \in Workflows PROVE Stamps(v)
    BY DEF StampInv
  <2>1. stamps[v] = <<>> /\ events[v] = <<>>
    BY DEF StampedInit, Init
  <2> QED
    BY <2>1, EmptySeq DEF Stamps
<1>2. StampedSpec => [](IInv /\ StampInv)
  BY <1>1, StampInvStep, StampedImplementsEngine, Invariance, PTL DEF StampedSpec
<1>3. IInv /\ StampInv => CreatedAtOrder
  <2> SUFFICES ASSUME IInv, StampInv, NEW w \in Workflows,
                      NEW i \in DOMAIN GetEvents(w), NEW j \in DOMAIN GetEvents(w),
                      i < j, GetEvents(w)[j].type # "TIMER_FIRED"
               PROVE  GetEvents(w)[i].created <= GetEvents(w)[j].created + MaxLag
    BY DEF CreatedAtOrder
  <2>1. DOMAIN events[w] = 1..Len(events[w])
    BY LenProperties DEF IInv, TypeOK
  <2> QED
    BY <2>1, ShownInOrder DEF StampInv, Stamps
<1> QED
  BY <1>2, <1>3, PTL

-----------------------------------------------------------------------------
(* Sums *)

\* An element of a nonempty set, as the sums of FiniteSetsExt choose it.
Chosen(t) == CHOOSE x \in t : TRUE

\* The sums over the subsets of S.
SumsUp(sum, S, term) ==
  \A t \in SUBSET S :
    sum[t] = IF t = {} THEN 0 ELSE term[Chosen(t)] + sum[t \ {Chosen(t)}]

\* One element less in a finite set.
LEMMA TakenOut ==
  ASSUME NEW S, IsFiniteSet(S), NEW t \in SUBSET S, NEW x \in t
  PROVE  /\ t \ {x} \in SUBSET S
         /\ Cardinality(t \ {x}) \in Nat
         /\ Cardinality(t) = Cardinality(t \ {x}) + 1
<1>1. IsFiniteSet(t) /\ IsFiniteSet(t \ {x})
  BY FS_Subset
<1>2. Cardinality(t \ {x}) \in Nat /\ Cardinality(t) \in Nat
  BY <1>1, FS_CardinalityType
<1>3. Cardinality(t \ {x}) = Cardinality(t) - 1
  BY <1>1, FS_RemoveElement
<1> QED
  BY <1>2, <1>3

\* There is such a sum.
LEMMA SumExists ==
  ASSUME NEW S, IsFiniteSet(S), NEW term \in [S -> Int]
  PROVE  \E sum \in [SUBSET S -> Int] : SumsUp(sum, S, term)
<1> DEFINE F == [SUBSET S -> Int]
           zero == [t \in SUBSET S |-> 0]
           More(g) == [t \in SUBSET S |->
                         IF t = {} THEN 0 ELSE term[Chosen(t)] + g[t \ {Chosen(t)}]]
           more == [g \in F |-> More(g)]
<1>1. \A t \in SUBSET S : t # {} => Chosen(t) \in t /\ Chosen(t) \in S /\ term[Chosen(t)] \in Int
  BY DEF Chosen
<1>2. zero \in F
  OBVIOUS
<1>3. ASSUME NEW g \in F PROVE More(g) \in F
  <2>1. \A t \in SUBSET S : (IF t = {} THEN 0 ELSE term[Chosen(t)] + g[t \ {Chosen(t)}]) \in Int
    BY <1>1
  <2> QED
    BY <2>1
<1>4. more \in [F -> F]
  <2> HIDE DEF More, F
  <2> QED
    BY <1>3
<1> HIDE DEF F, zero, more, More
<1>5. PICK f \in [Nat -> F] : f[0] = zero /\ \A n \in Nat : f[n + 1] = more[f[n]]
  <2>1. zero \in F /\ more \in [F -> F]
    BY <1>2, <1>4
  <2>2. \E f \in [Nat -> F] : f[0] = zero /\ \A n \in Nat : f[n + 1] = more[f[n]]
    BY <2>1, RecursionExists, SMTT(30)
  <2> QED
    BY <2>2
<1>6. \A n \in Nat : f[n] \in F /\ f[n + 1] = More(f[n])
  BY <1>5 DEF more
<1> DEFINE sum == [t \in SUBSET S |-> f[Cardinality(t)][t]]
<1>7. \A t \in SUBSET S : Cardinality(t) \in Nat
  BY FS_Subset, FS_CardinalityType
<1>8. sum \in [SUBSET S -> Int]
  BY <1>6, <1>7 DEF F
<1>9. ASSUME NEW t \in SUBSET S
      PROVE  sum[t] = IF t = {} THEN 0 ELSE term[Chosen(t)] + sum[t \ {Chosen(t)}]
  <2>1. CASE t = {}
    <3>1. Cardinality(t) = 0
      BY <2>1, FS_EmptySet
    <3> QED
      BY <1>5, <2>1, <3>1 DEF zero
  <2>2. CASE t # {}
    <3> DEFINE rest == t \ {Chosen(t)}
    <3>1. /\ rest \in SUBSET S /\ Cardinality(rest) \in Nat
          /\ Cardinality(t) = Cardinality(rest) + 1
      BY <1>1, <2>2, TakenOut
    <3>2. f[Cardinality(t)] = More(f[Cardinality(rest)])
      BY <1>6, <3>1
    <3>3. f[Cardinality(t)][t] = term[Chosen(t)] + f[Cardinality(rest)][rest]
      BY <2>2, <3>2 DEF More
    <3> QED
      BY <2>2, <3>1, <3>3
  <2> QED
    BY <2>1, <2>2
<1> QED
  BY <1>8, <1>9 DEF SumsUp

\* A sum is at least the number of its terms times a bound of each.
LEMMA SumBounded ==
  ASSUME NEW S, IsFiniteSet(S), NEW term \in [S -> Int],
         NEW sum, SumsUp(sum, S, term),
         NEW low \in Int, \A x \in S : low <= term[x]
  PROVE  sum[S] \in Int /\ sum[S] >= low * Cardinality(S)
<1> DEFINE Holds(n) == \A t \in SUBSET S : Cardinality(t) = n
                         => sum[t] \in Int /\ sum[t] >= low * n
           T == {n \in Nat : Holds(n)}
<1>1. \A t \in SUBSET S : t # {} => Chosen(t) \in t /\ term[Chosen(t)] \in Int /\ low <= term[Chosen(t)]
  BY DEF Chosen
<1>2. \A t \in SUBSET S : IsFiniteSet(t) /\ Cardinality(t) \in Nat
  BY FS_Subset, FS_CardinalityType
<1>3. Holds(0)
  <2> SUFFICES ASSUME NEW t \in SUBSET S, Cardinality(t) = 0
               PROVE  sum[t] \in Int /\ sum[t] >= low * 0
    OBVIOUS
  <2>1. t = {}
    BY <1>2, FS_EmptySet
  <2>2. sum[t] = 0
    BY <2>1 DEF SumsUp
  <2>3. low * 0 = 0
    OBVIOUS
  <2> QED
    BY <2>2, <2>3
<1>4. ASSUME NEW n \in Nat, Holds(n) PROVE Holds(n + 1)
  <2> SUFFICES ASSUME NEW t \in SUBSET S, Cardinality(t) = n + 1
               PROVE  sum[t] \in Int /\ sum[t] >= low * (n + 1)
    OBVIOUS
  <2>1. t # {}
    BY FS_EmptySet
  <2> DEFINE rest == t \ {Chosen(t)}
  <2>2. rest \in SUBSET S /\ Cardinality(rest) = n
    BY <1>1, <2>1, TakenOut
  <2>3. sum[rest] \in Int /\ sum[rest] >= low * n
    BY <1>4, <2>2
  <2>4. sum[t] = term[Chosen(t)] + sum[rest]
    BY <2>1 DEF SumsUp
  <2>5. term[Chosen(t)] \in Int /\ low <= term[Chosen(t)]
    BY <1>1, <2>1
  <2> DEFINE a == sum[rest]  b == term[Chosen(t)]
  <2>6. a \in Int /\ b \in Int /\ a >= low * n /\ b >= low
    BY <2>3, <2>5
  <2> HIDE DEF a, b
  <2>7. b + a \in Int /\ b + a >= low * (n + 1)
    BY <2>6
  <2> QED
    BY <2>4, <2>7 DEF a, b
<1> HIDE DEF Holds
<1>5. T = Nat
  <2>1. T \in SUBSET Nat /\ 0 \in T /\ \A n \in T : n + 1 \in T
    BY <1>3, <1>4
  <2> HIDE DEF T
  <2> QED
    BY <2>1, SetInduction
<1>6. Holds(Cardinality(S))
  <2>1. Cardinality(S) \in T
    BY <1>2, <1>5
  <2> QED
    BY <2>1
<1> QED
  BY <1>6 DEF Holds

\* The length of step s of workflow w.
Length(w, s) == spans[w][s].completed - spans[w][s].started

\* What MapThenSumSet computes for the query.
LEMMA SumOfLengths ==
  ASSUME NEW s, IsFiniteSet(Measured(s)),
         NEW low \in Int, \A w \in Measured(s) : Length(w, s) \in Int /\ low <= Length(w, s)
  PROVE  /\ AvgStepDuration(s).sum \in Int
         /\ AvgStepDuration(s).sum >= low * Cardinality(Measured(s))
<1> DEFINE S == Measured(s)
           term == [w \in S |-> Length(w, s)]
           Sums(iter) == iter = [t \in SUBSET S |->
             IF t = {} THEN 0
             ELSE LET x == CHOOSE x \in t : TRUE
                  IN  Length(x, s) + iter[t \ {x}]]
           sum == CHOOSE iter : Sums(iter)
<1>1. AvgStepDuration(s).sum = sum[S]
  BY DEF AvgStepDuration, MapThenSumSet, MapThenFoldSet, Length
<1>2. term \in [S -> Int] /\ \A w \in S : low <= term[w]
  OBVIOUS
<1>3. \A t \in SUBSET S : t # {} => Chosen(t) \in t
  BY DEF Chosen
<1>4. \A iter : Sums(iter) <=> /\ iter = [t \in SUBSET S |-> iter[t]]
                              /\ SumsUp(iter, S, term)
  BY <1>3 DEF SumsUp, Chosen
<1> HIDE DEF Sums, S, term
<1>5. PICK iter \in [SUBSET S -> Int] : SumsUp(iter, S, term)
  BY <1>2, SumExists DEF S
<1>6. Sums(iter)
  BY <1>4, <1>5
<1>7. Sums(sum)
  BY <1>6
<1> HIDE DEF sum
<1>8. SumsUp(sum, S, term)
  BY <1>4, <1>7
<1>9. sum[S] \in Int /\ sum[S] >= low * Cardinality(S)
  BY <1>2, <1>8, SumBounded DEF S
<1> QED
  BY <1>1, <1>9 DEF S

-----------------------------------------------------------------------------
(* The times of steps *)

\* The times of a step with this status: they are NULL before its row is
\* inserted, or has ended, and neither is later than time.
SpanMatches(span, status, time) ==
  /\ span.started = None <=> status = "ABSENT"
  /\ span.completed # None <=> status \in {"COMPLETED", "FAILED"}
  /\ span.started # None => span.started \in 0..time
  /\ span.completed # None => /\ span.completed \in 0..time
                              /\ span.started <= span.completed + MaxLag

Times == [started : Nat \cup {None}, completed : Nat \cup {None}]

SpanInv ==
  /\ spans \in [Workflows -> [StepNumbers -> Times]]
  /\ \A w \in Workflows, s \in StepNumbers : SpanMatches(spans[w][s], steps[w][s], clock)
  /\ \A s \in StepNumbers : IsFiniteSet(Measured(s))

\* One step changes its times, and possibly its status.
LEMMA OneSpan ==
  ASSUME SpanInv, NEW w \in Workflows, NEW s \in StepNumbers, NEW new \in Times, NEW status,
         clock \in Nat, clock' \in Nat, clock <= clock', None \notin Int, MaxLag \in Nat,
         steps \in [Workflows -> [StepNumbers -> StepStatuses]],
         spans' = [spans EXCEPT ![w][s] = new],
         steps' = [steps EXCEPT ![w][s] = status],
         SpanMatches(new, status, clock)
  PROVE  SpanInv'
<1>1. /\ spans' \in [Workflows -> [StepNumbers -> Times]]
      /\ \A v \in Workflows, r \in StepNumbers :
           /\ spans'[v][r] = IF v = w /\ r = s THEN new ELSE spans[v][r]
           /\ steps'[v][r] = IF v = w /\ r = s THEN status ELSE steps[v][r]
  BY DEF SpanInv
<1>2. ASSUME NEW span \in Times, NEW st, SpanMatches(span, st, clock)
      PROVE  SpanMatches(span, st, clock')
  BY <1>2 DEF SpanMatches, Times
<1>3. \A v \in Workflows, r \in StepNumbers : SpanMatches(spans'[v][r], steps'[v][r], clock')
  <2> TAKE v \in Workflows, r \in StepNumbers
  <2>1. CASE v = w /\ r = s
    BY <1>1, <1>2, <2>1
  <2>2. CASE ~(v = w /\ r = s)
    <3>1. spans[v][r] \in Times /\ SpanMatches(spans[v][r], steps[v][r], clock)
      BY DEF SpanInv
    <3> QED
      BY <1>1, <1>2, <2>2, <3>1
  <2> QED
    BY <2>1, <2>2
<1>4. ASSUME NEW r \in StepNumbers
      PROVE  IsFiniteSet(Measured(r)')
  <2>1. Measured(r)' \subseteq Measured(r) \cup {w}
    BY <1>1 DEF Measured
  <2>2. IsFiniteSet(Measured(r) \cup {w})
    BY FS_AddElement DEF SpanInv
  <2> QED
    BY <2>1, <2>2, FS_Subset
<1> QED
  BY <1>1, <1>3, <1>4 DEF SpanInv

\* Nothing but the clock changes.
LEMMA SameSpans ==
  ASSUME SpanInv, UNCHANGED <<spans, steps>>, clock \in Nat, clock' \in Nat, clock <= clock'
  PROVE  SpanInv'
<1>1. ASSUME NEW span \in Times, NEW st, SpanMatches(span, st, clock)
      PROVE  SpanMatches(span, st, clock')
  BY <1>1 DEF SpanMatches, Times
<1>2. \A w \in Workflows, s \in StepNumbers : SpanMatches(spans'[w][s], steps'[w][s], clock')
  BY <1>1 DEF SpanInv
<1>3. \A s \in StepNumbers : Measured(s)' = Measured(s)
  BY DEF Measured
<1> QED
  BY <1>2, <1>3 DEF SpanInv

\* The times of a step that has just ended.
LEMMA EndedSpan ==
  ASSUME NEW w \in Workflows, NEW s \in StepNumbers, NEW now \in Nows,
         NEW status \in {"COMPLETED", "FAILED"}, clock \in Nat, SpanInv
  PROVE  LET new == [started |-> StartedAt(w, s, now), completed |-> now] IN
         new \in Times /\ SpanMatches(new, status, clock)
<1>1. now \in 0..clock /\ clock - now <= MaxLag /\ MaxLag \in Nat
  BY BoundAssumption DEF Nows
<1>2. spans[w][s] \in Times /\ SpanMatches(spans[w][s], steps[w][s], clock)
  BY DEF SpanInv
<1>3. StartedAt(w, s, now) \in 0..clock
  BY <1>1, <1>2 DEF StartedAt, SpanMatches
<1>4. StartedAt(w, s, now) # None /\ now # None
  BY <1>1, <1>3, NoneAssumption
<1> QED
  BY <1>1, <1>3, <1>4 DEF Times, SpanMatches

LEMMA SpanInvStep ==
  ASSUME IInv, SpanInv, [StampedNext]_stampedVars
  PROVE  SpanInv'
<1>1. clock \in Nat /\ clock' \in Nat /\ clock <= clock' /\ MaxLag \in Nat
  BY StampedStep, ClockGrows, BoundAssumption
<1>2. steps \in [Workflows -> [StepNumbers -> StepStatuses]] /\ None \notin Int
  BY NoneAssumption DEF IInv, TypeOK
<1>3. ASSUME NEW now \in Nows, NEW t \in Threads,
             \/ StartStep(t) /\ Starts(thread[t].wf, thread[t].step, now)
             \/ FailStep(t) /\ Ends(thread[t].wf, thread[t].step, now)
      PROVE  SpanInv'
  <2>1. PICK w \in Workflows, s \in StepNumbers : w = thread[t].wf /\ s = thread[t].step
    BY <1>3, StepRequest DEF IInv, StartStep, FailStep
  <2>2. CASE FailStep(t) /\ Ends(w, s, now)
    <3>1. steps' = [steps EXCEPT ![w][s] = "FAILED"]
      BY <2>1, <2>2 DEF FailStep
    <3> DEFINE new == [started |-> StartedAt(w, s, now), completed |-> now]
    <3>2. spans' = [spans EXCEPT ![w][s] = new]
      BY <2>2 DEF Ends
    <3>3. new \in Times /\ SpanMatches(new, "FAILED", clock)
      BY <1>1, EndedSpan
    <3> HIDE DEF new
    <3> QED
      BY <1>1, <1>2, <3>1, <3>2, <3>3, OneSpan
  <2>3. CASE StartStep(t) /\ Starts(w, s, now)
    <3> DEFINE old == steps[w][s]
               status == IF old = "ABSENT" THEN "RUNNING" ELSE old
               new == [spans[w][s] EXCEPT !.started = StartedAt(w, s, now)]
    <3>1. steps' = [steps EXCEPT ![w][s] = status]
      BY <1>2, <2>1, <2>3 DEF StartStep
    <3>2. spans' = [spans EXCEPT ![w][s] = new]
      BY <2>3 DEF Starts, SpanInv
    <3>3. spans[w][s] \in Times /\ SpanMatches(spans[w][s], old, clock)
      BY DEF SpanInv
    <3>4. now \in 0..clock /\ now # None
      BY <1>1, <1>2 DEF Nows
    <3>5. new \in Times /\ SpanMatches(new, status, clock)
      <4>1. CASE old = "ABSENT"
        BY <3>3, <3>4, <4>1 DEF StartedAt, SpanMatches, Times
      <4>2. CASE old # "ABSENT"
        BY <3>3, <4>2 DEF StartedAt, Times
      <4> QED
        BY <4>1, <4>2
    <3> HIDE DEF new, status, old
    <3> QED
      BY <1>1, <1>2, <3>1, <3>2, <3>5, OneSpan
  <2> QED
    BY <1>3, <2>1, <2>2, <2>3
<1>4. ASSUME NEW now \in Nows, NEW w \in Workflows, NEW k \in Workers, NEW s \in StepNumbers,
             CompleteStep(w, k, s) /\ Ends(w, s, now)
      PROVE  SpanInv'
  <2>1. steps' = [steps EXCEPT ![w][s] = "COMPLETED"]
    BY <1>4 DEF CompleteStep
  <2> DEFINE new == [started |-> StartedAt(w, s, now), completed |-> now]
  <2>2. spans' = [spans EXCEPT ![w][s] = new]
    BY <1>4 DEF Ends
  <2>3. new \in Times /\ SpanMatches(new, "COMPLETED", clock)
    BY <1>1, EndedSpan
  <2> HIDE DEF new
  <2> QED
    BY <1>1, <1>2, <2>1, <2>2, <2>3, OneSpan
<1>5. ASSUME NEW now \in Nows, ReadingShown(now)
      PROVE  UNCHANGED steps
  BY <1>5 DEF ReadingShown, CreateWorkflow, SendSignal, CompleteWorkflow, FailWorkflow,
              LeaseTo, notLeases, notSignals
<1>6. FireExpiredTimers => UNCHANGED steps
  BY DEF FireExpiredTimers, notTimers
<1>7. NotStamped => UNCHANGED steps
  BY DEF NotStamped, ReleaseLease, MarkWaiting, RenewLease, VerifyLease, RetryStep,
         RetryStepWait, ConsumeSignal, TakeSignal, CreateTimer, TickStart,
         ExpireLeases, PassSecond, Crash, notLeases, notSteps, notTimers,
         notSignals, tables
<1>8. CASE UNCHANGED <<spans, steps>>
  BY <1>1, <1>8, SameSpans
<1>9. CASE UNCHANGED stampedVars
  BY <1>8, <1>9 DEF stampedVars, vars
<1>10. CASE \E now \in Nows : StepTimes(now)
  BY <1>3, <1>4, <1>10 DEF StepTimes
<1> QED
  BY <1>5, <1>6, <1>7, <1>8, <1>9, <1>10 DEF StampedNext

\* AvgStepDuration measures exactly the steps that have ended, whatever
\* requests are repeated or overtake each other, and its mean is negative by
\* no more than the time that a handler waits for the connection.
THEOREM StepsMeasured == StampedSpec => []StepSpans
<1>1. StampedInit => SpanInv
  <2> SUFFICES ASSUME StampedInit PROVE SpanInv
    OBVIOUS
  <2>1. \A s \in StepNumbers : Measured(s) = {}
    BY DEF StampedInit, Measured
  <2>2. \A s \in StepNumbers : IsFiniteSet(Measured(s))
    BY <2>1, FS_EmptySet
  <2> QED
    BY <2>2 DEF StampedInit, Init, SpanInv, SpanMatches, Times
<1>2. StampedSpec => [](IInv /\ SpanInv)
  BY <1>1, SpanInvStep, StampedImplementsEngine, Invariance, PTL DEF StampedSpec
<1>3. IInv /\ SpanInv => StepSpans
  <2> SUFFICES ASSUME IInv, SpanInv, NEW s \in StepNumbers
               PROVE  /\ \A w \in Workflows :
                           /\ w \in Measured(s) <=> steps[w][s] \in {"COMPLETED", "FAILED"}
                           /\ spans[w][s].started = None <=> steps[w][s] = "ABSENT"
                      /\ AvgStepDuration(s).sum >= -MaxLag * AvgStepDuration(s).rows
    BY DEF StepSpans
  <2>1. \A w \in Workflows : spans[w][s] \in Times /\ SpanMatches(spans[w][s], steps[w][s], clock)
    BY DEF SpanInv
  <2>2. \A w \in Workflows :
          /\ w \in Measured(s) <=> steps[w][s] \in {"COMPLETED", "FAILED"}
          /\ spans[w][s].started = None <=> steps[w][s] = "ABSENT"
    BY <2>1 DEF Measured, SpanMatches
  <2>3. clock \in Nat /\ MaxLag \in Nat
    BY BoundAssumption DEF IInv, TypeOK
  <2>4. \A w \in Measured(s) : Length(w, s) \in Int /\ -MaxLag <= Length(w, s)
    <3> TAKE w \in Measured(s)
    <3>1. w \in Workflows /\ spans[w][s].started # None /\ spans[w][s].completed # None
      BY DEF Measured
    <3> DEFINE a == spans[w][s].started
               b == spans[w][s].completed
    <3>2. a \in 0..clock /\ b \in 0..clock /\ a <= b + MaxLag
      BY <2>1, <3>1 DEF SpanMatches
    <3> HIDE DEF a, b
    <3>3. b - a \in Int /\ -MaxLag <= b - a
      BY <2>3, <3>2
    <3> QED
      BY <3>3 DEF Length, a, b
  <2> DEFINE low == -MaxLag
  <2>5. low \in Int /\ IsFiniteSet(Measured(s))
    BY <2>3 DEF SpanInv
  <2>6. AvgStepDuration(s).sum >= low * Cardinality(Measured(s))
    <3>1. \A w \in Measured(s) : Length(w, s) \in Int /\ low <= Length(w, s)
      BY <2>4
    <3> HIDE DEF low
    <3> QED
      BY <2>5, <3>1, SumOfLengths
  <2>7. AvgStepDuration(s).rows = Cardinality(Measured(s))
    BY DEF AvgStepDuration
  <2>8. AvgStepDuration(s).sum >= -MaxLag * AvgStepDuration(s).rows
    <3> DEFINE n == Cardinality(Measured(s))
    <3>1. n \in Nat
      BY <2>5, FS_CardinalityType
    <3> HIDE DEF n
    <3>2. low * n = -MaxLag * n
      BY <2>3, <3>1
    <3> HIDE DEF low
    <3> QED
      BY <2>6, <2>7, <3>2 DEF n
  <2> QED
    BY <2>2, <2>8
<1> QED
  BY <1>2, <1>3, PTL
=============================================================================
