------------------------------- MODULE Backoff ------------------------------
(***************************************************************************)
(* The retry policies of src/types.go and ScheduleRetry of src/retry.go.   *)
(* Delays are int64 in the code; here they are two's complement integers   *)
(* of Width bits, so that a small instance reaches the overflow.           *)
(* A definition Faulty... is a defective variant that nothing uses, to     *)
(* show that the properties notice the defect.                             *)
(***************************************************************************)
EXTENDS Integers, FiniteSetsExt

CONSTANT Width      \* bits of an integer; 64 in the code

ASSUME WidthAssumption == Width \in Nat \ {0}

\* The powers of two, which the proofs unfold from one to the next.
TwoTo[n \in Nat] == IF n = 0 THEN 1 ELSE 2 * TwoTo[n - 1]

MaxInt == TwoTo[Width - 1] - 1

\* The value an arithmetic result has after wrapping around.
Wrap(x) == ((x + MaxInt + 1) % TwoTo[Width]) - (MaxInt + 1)

FixedBackoff(delay, count) == delay

\* Fault: the first retry does not wait.
FaultyLinearBackoff(base, count) == Wrap(base * count)

LinearBackoff(base, count) == Wrap(base * Wrap(count + 1))

\* A round of the loop of ExponentialBackoff: the delay, and whether the cap
\* was returned, which ends the loop.  A cap of 0 is no cap.
Round(last, cap) ==
  LET double == Wrap(last.delay * 2) IN
  CASE last.capped -> last
    [] ~last.capped /\ cap > 0 /\ double > cap -> [delay |-> cap, capped |-> TRUE]
    [] OTHER -> [delay |-> double, capped |-> FALSE]

\* Fault: the cap is tested before the doubling, one round late.
FaultyExponentialBackoff(base, cap, count) ==
  LET loop[i \in 0..count] ==
        IF i = 0 THEN base
        ELSE IF cap > 0 /\ loop[i - 1] > cap THEN cap ELSE Wrap(loop[i - 1] * 2)
  IN  loop[count]

\* The delay after count rounds.
ExponentialBackoff(base, cap, count) ==
  LET loop[i \in Nat] == IF i = 0 THEN [delay |-> base, capped |-> FALSE]
                         ELSE Round(loop[i - 1], cap)
  IN  loop[count].delay

\* A policy is a record, as the POST /retry handler builds it from its name.
Delay(policy, count) ==
  CASE policy.kind = "linear" -> LinearBackoff(policy.base, count)
    [] policy.kind = "exponential" ->
         ExponentialBackoff(policy.base, policy.max, count)
    [] OTHER -> FixedBackoff(policy.base, count)

-----------------------------------------------------------------------------
(* The delays in closed form, over policies with a base up to B and a cap  *)
(* up to C, and retry counts up to N: pairs of a delay and what it is to   *)
(* be.                                                                     *)

Policies(kind, B, C) == [kind : {kind}, base : 0..B, max : 0..C]

Uncapped(policy, count) == policy.base * TwoTo[count]

\* The smaller of base * 2^count and the cap, from the first retry on, where
\* twice the larger of base and cap fits the integer: the cap is tested after
\* the doubling.
CappedDelays(B, C, N) ==
  {<<Delay(x[1], x[2]), Min({Uncapped(x[1], x[2]), x[1].max})>> :
     x \in {y \in Policies("exponential", B, C) \X (1..N) :
              /\ y[1].max > 0
              /\ 2 * Max({y[1].base, y[1].max}) <= MaxInt}}

\* Linear and uncapped exponential delays that do not overflow.
UncappedDelays(B, N) ==
  {<<Delay(x[1], x[2]), x[1].base * (x[2] + 1)>> :
     x \in {y \in Policies("linear", B, 0) \X (0..N) :
              y[1].base * (y[2] + 1) <= MaxInt}}
  \cup
  {<<Delay(x[1], x[2]), Uncapped(x[1], x[2])>> :
     x \in {y \in Policies("exponential", B, 0) \X (0..N) :
              Uncapped(y[1], y[2]) <= MaxInt}}
=============================================================================
