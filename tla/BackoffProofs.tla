---------------------------- MODULE BackoffProofs ---------------------------
(***************************************************************************)
(* Theorems about the retry policies: their delays in closed form, for     *)
(* every width of the integers and every base, cap and retry count, and    *)
(* what becomes of a delay that overflows.                                 *)
(***************************************************************************)
EXTENDS MCEngine, EngineProofs

-----------------------------------------------------------------------------
(* Integers of a width *)

LEMMA PowersOfTwo ==
  /\ TwoTo[0] = 1
  /\ \A n \in Nat : TwoTo[n] \in Nat \ {0} /\ TwoTo[n + 1] = 2 * TwoTo[n]
<1> DEFINE S == Nat
           one == 1
           double == [x \in S |-> 2 * x]
<1>1. PICK f \in [Nat -> Nat] : f[0] = 1 /\ \A n \in Nat : f[n + 1] = double[f[n]]
  <2>1. double \in [S -> S] /\ one \in S
    OBVIOUS
  <2> HIDE DEF S, double, one
  <2>2. \E f \in [Nat -> S] : f[0] = one /\ \A n \in Nat : f[n + 1] = double[f[n]]
    BY <2>1, RecursionExists
  <2> QED
    BY <2>2 DEF S, one
<1>2. f = [n \in Nat |-> IF n = 0 THEN 1 ELSE 2 * f[n - 1]]
  <2>1. ASSUME NEW n \in Nat PROVE f[n] = IF n = 0 THEN 1 ELSE 2 * f[n - 1]
    <3>1. CASE n = 0
      BY <1>1, <3>1
    <3>2. CASE n # 0
      <4>1. n - 1 \in Nat /\ (n - 1) + 1 = n
        BY <3>2
      <4> QED
        BY <1>1, <3>2, <4>1
    <3> QED
      BY <3>1, <3>2
  <2> QED
    BY <1>1, <2>1
<1>3. TwoTo = [n \in Nat |-> IF n = 0 THEN 1 ELSE 2 * TwoTo[n - 1]]
  BY <1>2, Zenon DEF TwoTo
<1>4. TwoTo[0] = 1 /\ \A n \in Nat : TwoTo[n + 1] = 2 * TwoTo[n]
  BY <1>3
<1> DEFINE T == {n \in Nat : TwoTo[n] \in Nat \ {0}}
<1>5. T = Nat
  <2>1. 0 \in T /\ \A n \in T : n + 1 \in T
    BY <1>4
  <2>2. T \in SUBSET Nat
    OBVIOUS
  <2> HIDE DEF T
  <2> QED
    BY <2>1, <2>2, SetInduction
<1>6. \A n \in Nat : TwoTo[n] \in Nat \ {0}
  <2> TAKE n \in Nat
  <2>1. n \in T
    BY <1>5
  <2> QED
    BY <2>1
<1> QED
  BY <1>4, <1>6

\* A result that fits the integer is not wrapped around.
LEMMA WrapFits ==
  /\ MaxInt \in Nat
  /\ \A x \in Int : Wrap(x) \in Int
  /\ \A x \in 0..MaxInt : Wrap(x) = x
<1>1. Width - 1 \in Nat /\ (Width - 1) + 1 = Width
  BY WidthAssumption
<1>2. TwoTo[Width - 1] \in Nat \ {0} /\ TwoTo[Width] = 2 * TwoTo[Width - 1]
  BY <1>1, PowersOfTwo
<1>3. MaxInt \in Nat /\ TwoTo[Width] = 2 * (MaxInt + 1)
  BY <1>2 DEF MaxInt
<1>4. ASSUME NEW x \in Int PROVE Wrap(x) \in Int
  BY <1>3 DEF Wrap
<1>5. ASSUME NEW x \in 0..MaxInt PROVE Wrap(x) = x
  <2> DEFINE K == 2 * (MaxInt + 1)
             y == x + MaxInt + 1
  <2>1. K \in Nat \ {0} /\ y \in 0..(K - 1)
    BY <1>3
  <2>2. Wrap(x) = (y % K) - (MaxInt + 1)
    BY <1>3 DEF Wrap
  <2>3. y % K = y
    <3> HIDE DEF K, y
    <3> QED
      BY <2>1
  <2> QED
    BY <1>3, <2>2, <2>3
<1> QED
  BY <1>3, <1>4, <1>5

-----------------------------------------------------------------------------
(* The exponential policy *)

\* What the loop of ExponentialBackoff computes, round after round.
LEMMA LoopOfRounds ==
  ASSUME NEW base \in Int, NEW cap \in Int
  PROVE  \E f : /\ f[0] = [delay |-> base, capped |-> FALSE]
                /\ \A n \in Nat : f[n + 1] = Round(f[n], cap)
                /\ \A n \in Nat : ExponentialBackoff(base, cap, n) = f[n].delay
<1> DEFINE S == [delay : Int, capped : BOOLEAN]
           first == [delay |-> base, capped |-> FALSE]
           round == [x \in S |-> Round(x, cap)]
<1>1. first \in S
  OBVIOUS
<1>2. \A x \in S : Round(x, cap) \in S
  BY WrapFits DEF Round
<1>3. round \in [S -> S]
  BY <1>2
<1> HIDE DEF S, first, round
<1>4. PICK f \in [Nat -> S] : f[0] = first /\ \A n \in Nat : f[n + 1] = round[f[n]]
  BY <1>1, <1>3, RecursionExists
<1>5. \A n \in Nat : f[n + 1] = Round(f[n], cap)
  BY <1>4 DEF round
<1>6. \A n \in Nat : f[n] = IF n = 0 THEN first ELSE Round(f[n - 1], cap)
  <2> TAKE n \in Nat
  <2>1. CASE n = 0
    BY <1>4, <2>1
  <2>2. CASE n # 0
    <3>1. n - 1 \in Nat /\ (n - 1) + 1 = n
      BY <2>2
    <3> QED
      BY <1>5, <2>2, <3>1
  <2> QED
    BY <2>1, <2>2
<1>7. f = [n \in Nat |-> IF n = 0 THEN first ELSE Round(f[n - 1], cap)]
  BY <1>4, <1>6
<1> DEFINE loop[n \in Nat] == IF n = 0 THEN first ELSE Round(loop[n - 1], cap)
<1>8. loop = [n \in Nat |-> IF n = 0 THEN first ELSE Round(loop[n - 1], cap)]
  BY <1>7, Zenon DEF loop
<1>9. \A n \in Nat : ExponentialBackoff(base, cap, n) = loop[n].delay
  BY DEF ExponentialBackoff, first
<1> HIDE DEF loop
<1>10. /\ loop[0] = first
       /\ \A n \in Nat : loop[n + 1] = Round(loop[n], cap)
  BY <1>8
<1> QED
  BY <1>9, <1>10 DEF first

\* A product with a power of two, one round later.
LEMMA DoubledProduct ==
  ASSUME NEW base \in Nat, NEW n \in Nat
  PROVE  /\ base * TwoTo[n] \in Nat
         /\ base * TwoTo[n + 1] = 2 * (base * TwoTo[n])
         /\ base * TwoTo[0] = base
<1>1. TwoTo[n] \in Nat /\ TwoTo[n + 1] = 2 * TwoTo[n] /\ TwoTo[0] = 1
  BY PowersOfTwo
<1> QED
  BY <1>1

\* A round that no cap has ended before.
LEMMA RoundGoesOn ==
  ASSUME NEW last, ~last.capped, NEW cap \in Int, NEW double \in Int,
         Wrap(last.delay * 2) = double
  PROVE  Round(last, cap) = IF cap > 0 /\ double > cap
                            THEN [delay |-> cap, capped |-> TRUE]
                            ELSE [delay |-> double, capped |-> FALSE]
BY DEF Round

\* The delay is doubled up to the cap: where twice the larger of base and cap
\* fits the integer, no doubling before the test of the cap wraps around.
LEMMA CappedDelay ==
  ASSUME NEW base \in Nat, NEW cap \in Nat \ {0}, 2 * base <= MaxInt, 2 * cap <= MaxInt,
         NEW n \in Nat \ {0}
  PROVE  ExponentialBackoff(base, cap, n) =
           IF base * TwoTo[n] <= cap THEN base * TwoTo[n] ELSE cap
<1>1. PICK f : /\ f[0] = [delay |-> base, capped |-> FALSE]
               /\ \A i \in Nat : f[i + 1] = Round(f[i], cap)
               /\ \A i \in Nat : ExponentialBackoff(base, cap, i) = f[i].delay
  <2>1. base \in Int /\ cap \in Int
    OBVIOUS
  <2> QED
    BY <2>1, LoopOfRounds, Zenon
<1> DEFINE Reached(i) ==
             \/ f[i] = [delay |-> cap, capped |-> TRUE] /\ base * TwoTo[i] > cap
             \/ /\ f[i] = [delay |-> base * TwoTo[i], capped |-> FALSE]
                /\ i = 0 \/ base * TwoTo[i] <= cap
           T == {i \in Nat : Reached(i)}
<1>2. 0 \in T
  BY <1>1, DoubledProduct
<1>3. ASSUME NEW i \in T PROVE i + 1 \in T
  <2> DEFINE p == base * TwoTo[i]
             last == f[i]
  <2>1. i \in Nat /\ p \in Nat /\ base * TwoTo[i + 1] = 2 * p
    BY DoubledProduct
  <2>2. f[i + 1] = Round(last, cap)
    BY <1>1
  <2>3. CASE last = [delay |-> cap, capped |-> TRUE] /\ p > cap
    <3>1. Round(last, cap) = last
      BY <2>3 DEF Round
    <3> HIDE DEF p
    <3> QED
      BY <2>1, <2>2, <2>3, <3>1
  <2>4. CASE last = [delay |-> p, capped |-> FALSE] /\ (i = 0 \/ p <= cap)
    <3>1. 2 * p <= MaxInt /\ MaxInt \in Nat
      <4>1. i = 0 => p = base
        BY DoubledProduct
      <4> HIDE DEF p
      <4> QED
        BY <2>1, <2>4, <4>1, WrapFits
    <3>2. ~last.capped /\ Wrap(last.delay * 2) = 2 * p
      <4> HIDE DEF p
      <4>1. last.delay * 2 = 2 * p /\ 2 * p \in 0..MaxInt
        BY <2>1, <2>4, <3>1
      <4> QED
        BY <2>4, <4>1, WrapFits
    <3>3. /\ 2 * p > cap => f[i + 1] = [delay |-> cap, capped |-> TRUE]
          /\ 2 * p <= cap => f[i + 1] = [delay |-> 2 * p, capped |-> FALSE]
      <4> HIDE DEF p, last
      <4>1. 2 * p \in Int /\ cap \in Int /\ cap > 0
        BY <2>1
      <4>2. Round(last, cap) = IF cap > 0 /\ 2 * p > cap
                               THEN [delay |-> cap, capped |-> TRUE]
                               ELSE [delay |-> 2 * p, capped |-> FALSE]
        BY <3>2, <4>1, RoundGoesOn
      <4> QED
        BY <2>2, <4>1, <4>2
    <3>4. i + 1 \in Nat /\ 2 * p \in Nat
      <4> HIDE DEF p
      <4> QED
        BY <2>1
    <3> DEFINE q == base * TwoTo[i + 1]
    <3>5. q = 2 * p
      BY <2>1
    <3> HIDE DEF p, q
    <3>6. \/ f[i + 1] = [delay |-> cap, capped |-> TRUE] /\ q > cap
          \/ f[i + 1] = [delay |-> q, capped |-> FALSE] /\ q <= cap
      BY <3>3, <3>4, <3>5
    <3> QED
      BY <3>4, <3>6 DEF q
  <2> QED
    BY <2>3, <2>4
<1>4. T = Nat
  <2>1. T \in SUBSET Nat
    OBVIOUS
  <2> HIDE DEF T
  <2> QED
    BY <1>2, <1>3, <2>1, SetInduction
<1>5. Reached(n)
  <2>1. n \in T
    BY <1>4
  <2> QED
    BY <2>1
<1>6. base * TwoTo[n] \in Nat
  BY DoubledProduct
<1> QED
  BY <1>1, <1>5, <1>6

\* Without a cap the delay is doubled as long as it fits the integer.
LEMMA UncappedDelay ==
  ASSUME NEW base \in Nat, NEW n \in Nat, base * TwoTo[n] <= MaxInt
  PROVE  ExponentialBackoff(base, 0, n) = base * TwoTo[n]
<1>1. PICK f : /\ f[0] = [delay |-> base, capped |-> FALSE]
               /\ \A i \in Nat : f[i + 1] = Round(f[i], 0)
               /\ \A i \in Nat : ExponentialBackoff(base, 0, i) = f[i].delay
  <2>1. base \in Int /\ 0 \in Int
    OBVIOUS
  <2> QED
    BY <2>1, LoopOfRounds, Zenon
<1> DEFINE T == {i \in Nat : base * TwoTo[i] <= MaxInt =>
                               f[i] = [delay |-> base * TwoTo[i], capped |-> FALSE]}
<1>2. 0 \in T
  BY <1>1, DoubledProduct
<1>3. ASSUME NEW i \in T PROVE i + 1 \in T
  <2> DEFINE p == base * TwoTo[i]
             last == f[i]
             q == base * TwoTo[i + 1]
  <2>1. i \in Nat /\ p \in Nat /\ q = 2 * p /\ MaxInt \in Nat
    BY DoubledProduct, WrapFits
  <2>2. f[i + 1] = Round(last, 0)
    BY <1>1
  <2>3. SUFFICES ASSUME q <= MaxInt
                 PROVE  f[i + 1] = [delay |-> q, capped |-> FALSE]
    OBVIOUS
  <2>4. last = [delay |-> p, capped |-> FALSE]
    <3>1. p <= MaxInt
      <4> HIDE DEF p, q
      <4> QED
        BY <2>1, <2>3
    <3> QED
      BY <3>1
  <2>5. ~last.capped /\ Wrap(last.delay * 2) = q /\ q \in Int
    <3> HIDE DEF p, q
    <3>1. last.delay * 2 = q /\ q \in 0..MaxInt
      BY <2>1, <2>3, <2>4
    <3> QED
      BY <2>4, <3>1, WrapFits
  <2> DEFINE none == 0
  <2> HIDE DEF p, q, last, none
  <2>6. Round(last, none) = IF none > 0 /\ q > none
                            THEN [delay |-> none, capped |-> TRUE]
                            ELSE [delay |-> q, capped |-> FALSE]
    <3>1. none \in Int
      BY DEF none
    <3> QED
      BY <2>5, <3>1, RoundGoesOn
  <2> QED
    BY <2>2, <2>6 DEF none
<1>4. T = Nat
  <2>1. T \in SUBSET Nat
    OBVIOUS
  <2> HIDE DEF T
  <2> QED
    BY <1>2, <1>3, <2>1, SetInduction
<1>5. f[n] = [delay |-> base * TwoTo[n], capped |-> FALSE]
  <2>1. n \in T
    BY <1>4
  <2> QED
    BY <2>1
<1> QED
  BY <1>1, <1>5

-----------------------------------------------------------------------------
(* The closed forms *)

LEMMA ExtremesOfTwo ==
  ASSUME NEW a \in Nat, NEW b \in Nat
  PROVE  /\ Min({a, b}) = IF a <= b THEN a ELSE b
         /\ Max({a, b}) = IF a <= b THEN b ELSE a
<1> DEFINE low == IF a <= b THEN a ELSE b
           high == IF a <= b THEN b ELSE a
<1>1. /\ low \in {a, b} /\ \A y \in {a, b} : low <= y
      /\ high \in {a, b} /\ \A y \in {a, b} : high >= y
  OBVIOUS
<1>2. \A x \in {a, b} : /\ (\A y \in {a, b} : x <= y) => x = low
                        /\ (\A y \in {a, b} : x >= y) => x = high
  OBVIOUS
<1> HIDE DEF low, high
<1>3. Min({a, b}) = low /\ Max({a, b}) = high
  BY <1>1, <1>2 DEF Min, Max
<1> QED
  BY <1>3 DEF low, high

\* An exponential policy with a cap waits base * 2^count seconds or the cap,
\* the smaller of the two, from the first retry on, for every base, cap and
\* count where twice the larger of base and cap fits the integer: no count,
\* however large, overflows (NextDelay of ExponentialBackoff).
THEOREM CappedDelaysExact ==
  ASSUME NEW B \in Nat, NEW C \in Nat, NEW N \in Nat
  PROVE  \A d \in CappedDelays(B, C, N) : d[1] = d[2] /\ d[1] \in Nat
<1>1. ASSUME NEW p \in Policies("exponential", B, C), NEW n \in 1..N,
             p.max > 0, 2 * Max({p.base, p.max}) <= MaxInt
      PROVE  /\ Delay(p, n) = Min({Uncapped(p, n), p.max})
             /\ Delay(p, n) \in Nat
  <2>1. p.kind = "exponential" /\ p.base \in Nat /\ p.max \in Nat \ {0} /\ n \in Nat \ {0}
    BY <1>1 DEF Policies
  <2>2. MaxInt \in Nat
    BY WrapFits
  <2> DEFINE greater == IF p.base <= p.max THEN p.max ELSE p.base
             u == p.base * TwoTo[n]
  <2>3. Max({p.base, p.max}) = greater
    BY <2>1, ExtremesOfTwo
  <2>4. 2 * greater <= MaxInt
    BY <1>1, <2>3
  <2>5. 2 * p.base <= MaxInt /\ 2 * p.max <= MaxInt
    BY <2>1, <2>2, <2>4
  <2>6. u \in Nat
    BY <2>1, DoubledProduct
  <2>7. ExponentialBackoff(p.base, p.max, n) = IF u <= p.max THEN u ELSE p.max
    BY <2>1, <2>5, CappedDelay
  <2>8. Delay(p, n) = ExponentialBackoff(p.base, p.max, n) /\ Uncapped(p, n) = u
    BY <2>1 DEF Delay, Uncapped
  <2> HIDE DEF u
  <2>9. Min({u, p.max}) = IF u <= p.max THEN u ELSE p.max
    BY <2>1, <2>6, ExtremesOfTwo
  <2> QED
    BY <2>1, <2>6, <2>7, <2>8, <2>9
<1>2. ASSUME NEW d \in CappedDelays(B, C, N)
      PROVE  d[1] = d[2] /\ d[1] \in Nat
  <2>1. \E p \in Policies("exponential", B, C), n \in 1..N :
          /\ p.max > 0
          /\ 2 * Max({p.base, p.max}) <= MaxInt
          /\ d = <<Delay(p, n), Min({Uncapped(p, n), p.max})>>
    BY DEF CappedDelays
  <2> QED
    BY <1>1, <2>1
<1> QED
  BY <1>2

\* A linear policy waits base * (count + 1) seconds and an exponential one
\* without a cap base * 2^count, for every base and count where that fits the
\* integer (NextDelay of LinearBackoff and of ExponentialBackoff).
THEOREM UncappedDelaysExact ==
  ASSUME NEW B \in Nat, NEW N \in Nat
  PROVE  \A d \in UncappedDelays(B, N) : d[1] = d[2] /\ d[1] \in Nat
<1>1. ASSUME NEW p \in Policies("linear", B, 0), NEW n \in 0..N,
             p.base * (n + 1) <= MaxInt
      PROVE  Delay(p, n) = p.base * (n + 1) /\ Delay(p, n) \in Nat
  <2>1. p.kind = "linear" /\ p.base \in Nat /\ n \in Nat /\ MaxInt \in Nat
    BY WrapFits DEF Policies
  <2>2. Delay(p, n) = Wrap(p.base * Wrap(n + 1))
    BY <2>1 DEF Delay, LinearBackoff
  <2> DEFINE due == p.base * (n + 1)
  <2>3. due \in 0..MaxInt /\ 0 \in 0..MaxInt
    BY <1>1, <2>1
  <2>4. p.base * Wrap(n + 1) = due
    <3>1. n + 1 \in Int /\ Wrap(n + 1) \in Int
      BY <2>1, WrapFits
    <3>2. CASE p.base = 0
      BY <2>1, <3>1, <3>2
    <3>3. CASE p.base # 0
      <4>1. n + 1 <= due
        BY <2>1, <3>3
      <4>2. n + 1 \in 0..MaxInt
        <5> HIDE DEF due
        <5> QED
          BY <2>1, <2>3, <4>1
      <4> QED
        BY <4>2, WrapFits
    <3> QED
      BY <3>2, <3>3
  <2> HIDE DEF due
  <2>5. Wrap(due) = due
    BY <2>3, WrapFits
  <2>6. Delay(p, n) = due /\ due \in Nat
    BY <2>1, <2>2, <2>3, <2>4, <2>5
  <2> QED
    BY <2>6 DEF due
<1>2. ASSUME NEW p \in Policies("exponential", B, 0), NEW n \in 0..N,
             Uncapped(p, n) <= MaxInt
      PROVE  Delay(p, n) = Uncapped(p, n) /\ Delay(p, n) \in Nat
  <2>1. p.kind = "exponential" /\ p.base \in Nat /\ p.max = 0 /\ n \in Nat
    BY DEF Policies
  <2>2. Delay(p, n) = ExponentialBackoff(p.base, 0, n)
    BY <2>1 DEF Delay
  <2>3. Uncapped(p, n) = p.base * TwoTo[n]
    BY DEF Uncapped
  <2>4. ExponentialBackoff(p.base, 0, n) = p.base * TwoTo[n]
    BY <1>2, <2>1, <2>3, UncappedDelay
  <2> QED
    BY <2>1, <2>2, <2>3, <2>4, DoubledProduct
<1>3. ASSUME NEW d \in UncappedDelays(B, N)
      PROVE  d[1] = d[2] /\ d[1] \in Nat
  <2>1. \/ \E p \in Policies("linear", B, 0), n \in 0..N :
             p.base * (n + 1) <= MaxInt /\ d = <<Delay(p, n), p.base * (n + 1)>>
        \/ \E p \in Policies("exponential", B, 0), n \in 0..N :
             Uncapped(p, n) <= MaxInt /\ d = <<Delay(p, n), Uncapped(p, n)>>
    BY DEF UncappedDelays
  <2> QED
    BY <1>1, <1>2, <2>1
<1> QED
  BY <1>3

-----------------------------------------------------------------------------
(* Retries fall due when their policy says *)

LEMMA ExactDelaysAreDue ==
  ASSUME IInv, NEW delays, \A d \in delays : d[1] = d[2] /\ d[1] \in Nat
  PROVE  DueExactly(delays)
BY BoundAssumption DEF IInv, TypeOK, DueExactly

\* A retry under a capped exponential policy of the grid falls due exactly
\* base * 2^count seconds or the cap after its clock reading, and never in the
\* past.
THEOREM CappedExponentialIsExact == Spec => []CappedExponentialExact
<1>1. IInv => CappedExponentialExact
  <2>1. \A d \in CappedGrid : d[1] = d[2] /\ d[1] \in Nat
    BY CappedDelaysExact DEF CappedGrid
  <2> QED
    BY <2>1, ExactDelaysAreDue DEF CappedExponentialExact
<1> QED
  BY <1>1, Invariance, PTL

\* So does a retry under a linear or an uncapped exponential policy of the
\* grid, where its delay fits the integer.
THEOREM UncappedIsExact == Spec => []UncappedExact
<1>1. IInv => UncappedExact
  <2>1. \A d \in UncappedGrid : d[1] = d[2] /\ d[1] \in Nat
    BY UncappedDelaysExact DEF UncappedGrid
  <2> QED
    BY <2>1, ExactDelaysAreDue DEF UncappedExact
<1> QED
  BY <1>1, Invariance, PTL

-----------------------------------------------------------------------------
(* What an overflow leads to *)

\* Division with a remainder.
LEMMA Division ==
  ASSUME NEW y \in Int, NEW K \in Nat \ {0}
  PROVE  \E q \in Int, r \in 0..(K - 1) : r = y % K /\ y = q * K + r
<1>1. y % K \in 0..(K - 1)
  OBVIOUS
<1>2. y \div K \in Int
  OBVIOUS
<1>3. y = (y \div K) * K + (y % K)
  OBVIOUS
<1> QED
  BY <1>1, <1>2, <1>3

\* Wrapping around takes a multiple of 2^Width away and leaves an integer of
\* the width.
LEMMA WrapDiffers ==
  ASSUME NEW x \in Int
  PROVE  /\ MaxInt \in Nat /\ TwoTo[Width] = 2 * (MaxInt + 1)
         /\ Wrap(x) \in Int /\ -MaxInt - 1 <= Wrap(x) /\ Wrap(x) <= MaxInt
         /\ \E q \in Int : Wrap(x) = x - q * TwoTo[Width]
<1>1. MaxInt \in Nat /\ TwoTo[Width] = 2 * (MaxInt + 1)
  <2>1. Width - 1 \in Nat /\ (Width - 1) + 1 = Width
    BY WidthAssumption
  <2> QED
    BY <2>1, PowersOfTwo DEF MaxInt
<1>2. PICK K \in Nat \ {0}, M \in Nat : K = TwoTo[Width] /\ M = MaxInt + 1 /\ K = 2 * M
  BY <1>1
<1>3. PICK y \in Int : y = x + M /\ y = x + MaxInt + 1
  BY <1>1, <1>2
<1>4. PICK q \in Int, r \in 0..(K - 1) : r = y % K /\ y = q * K + r
  BY Division
<1>5. Wrap(x) = r - M
  BY <1>2, <1>3, <1>4 DEF Wrap
<1>6. r - M = x - q * K /\ r - M \in Int /\ -M <= r - M /\ r - M <= M - 1
  <2> DEFINE p == q * K
  <2>1. p \in Int
    OBVIOUS
  <2> HIDE DEF p
  <2>2. y = p + r
    BY <1>4 DEF p
  <2>3. r - M = x - p /\ r - M \in Int /\ -M <= r - M /\ r - M <= M - 1
    BY <1>2, <1>3, <2>1, <2>2
  <2> QED
    BY <2>3 DEF p
<1>7. -MaxInt - 1 <= Wrap(x) /\ Wrap(x) <= MaxInt /\ Wrap(x) \in Int
  BY <1>1, <1>2, <1>5, <1>6
<1> QED
  BY <1>1, <1>2, <1>5, <1>6, <1>7

\* Without a cap the delay after n rounds is base * 2^n up to a multiple of
\* 2^Width.
LEMMA RoundsModulo ==
  ASSUME NEW base \in Int, NEW n \in Nat
  PROVE  \E d, q \in Int :
           /\ ExponentialBackoff(base, 0, n) = d
           /\ d = base * TwoTo[n] - q * TwoTo[Width]
           /\ n > 0 => -MaxInt - 1 <= d /\ d <= MaxInt
<1> DEFINE none == 0
           K == TwoTo[Width]
<1>1. PICK f : /\ f[0] = [delay |-> base, capped |-> FALSE]
               /\ \A i \in Nat : f[i + 1] = Round(f[i], none)
               /\ \A i \in Nat : ExponentialBackoff(base, none, i) = f[i].delay
  <2>1. base \in Int /\ none \in Int
    OBVIOUS
  <2> HIDE DEF none
  <2> QED
    BY <2>1, LoopOfRounds, Zenon
<1>2. K \in Int
  BY PowersOfTwo, WidthAssumption
<1> HIDE DEF K
<1> DEFINE Reached(i) == \E d, q \in Int : /\ f[i] = [delay |-> d, capped |-> FALSE]
                                           /\ d = base * TwoTo[i] - q * K
                                           /\ i > 0 => -MaxInt - 1 <= d /\ d <= MaxInt
           T == {i \in Nat : Reached(i)}
<1>3. Reached(0)
  <2>1. f[0] = [delay |-> base, capped |-> FALSE]
    BY <1>1
  <2>2. base = base * TwoTo[0] - 0 * K
    BY <1>2, PowersOfTwo
  <2>3. PICK q \in Int : base = base * TwoTo[0] - q * K
    BY <2>2
  <2>4. ~(0 > 0)
    OBVIOUS
  <2> QED
    BY <2>1, <2>3, <2>4, Zenon
<1>4. ASSUME NEW i \in Nat, Reached(i) PROVE Reached(i + 1)
  <2>1. PICK d \in Int, q \in Int : /\ f[i] = [delay |-> d, capped |-> FALSE]
                                    /\ d = base * TwoTo[i] - q * K
    BY <1>4
  <2>2. PICK e \in Int, p \in Int : /\ e = Wrap(d * 2) /\ e = d * 2 - p * K
                                    /\ -MaxInt - 1 <= e /\ e <= MaxInt
    <3>1. PICK x \in Int : x = d * 2
      OBVIOUS
    <3> QED
      BY <3>1, WrapDiffers DEF K
  <2>3. f[i + 1] = [delay |-> e, capped |-> FALSE]
    <3>1. f[i].delay = d /\ ~f[i].capped
      BY <2>1
    <3>2. Round(f[i], none) = [delay |-> e, capped |-> FALSE]
      BY <2>2, <3>1 DEF Round
    <3> QED
      BY <1>1, <3>2
  <2>4. e = base * TwoTo[i + 1] - (2 * q + p) * K
    <3> DEFINE a == base * TwoTo[i]
               b == q * K
               c == p * K
    <3>1. a \in Int /\ b \in Int /\ c \in Int
      BY <1>2, PowersOfTwo
    <3>2. base * TwoTo[i + 1] = 2 * a
      BY PowersOfTwo
    <3>3. (2 * q + p) * K = 2 * b + c
      BY <1>2
    <3>4. d = a - b /\ e = d * 2 - c
      BY <2>1, <2>2
    <3> HIDE DEF a, b, c
    <3>5. e = 2 * a - (2 * b + c)
      BY <3>1, <3>4
    <3> QED
      BY <3>2, <3>3, <3>5
  <2>5. 2 * q + p \in Int
    OBVIOUS
  <2> QED
    BY <2>2, <2>3, <2>4, <2>5
<1> HIDE DEF Reached
<1>5. T = Nat
  <2>1. T \in SUBSET Nat /\ 0 \in T /\ \A i \in T : i + 1 \in T
    BY <1>3, <1>4
  <2> HIDE DEF T
  <2> QED
    BY <2>1, SetInduction
<1>6. Reached(n)
  BY <1>5
<1>7. PICK d \in Int, q \in Int : /\ f[n] = [delay |-> d, capped |-> FALSE]
                                  /\ d = base * TwoTo[n] - q * K
                                  /\ n > 0 => -MaxInt - 1 <= d /\ d <= MaxInt
  BY <1>6 DEF Reached
<1>8. ExponentialBackoff(base, none, n) = d
  BY <1>1, <1>7
<1> QED
  BY <1>7, <1>8 DEF K

\* The product of two powers of two.
LEMMA PowersMultiply ==
  ASSUME NEW m \in Nat, NEW n \in Nat
  PROVE  TwoTo[m + n] = TwoTo[n] * TwoTo[m]
<1> DEFINE T == {j \in Nat : TwoTo[m + j] = TwoTo[j] * TwoTo[m]}
<1>1. 0 \in T
  BY PowersOfTwo
<1>2. ASSUME NEW j \in T PROVE j + 1 \in T
  <2> DEFINE a == TwoTo[m]
             b == TwoTo[j]
  <2>1. a \in Nat /\ b \in Nat /\ TwoTo[m + j] = b * a
    BY PowersOfTwo
  <2>2. TwoTo[j + 1] = 2 * b
    BY PowersOfTwo
  <2>3. TwoTo[m + (j + 1)] = 2 * (b * a)
    <3>1. m + j \in Nat /\ m + (j + 1) = (m + j) + 1
      OBVIOUS
    <3> QED
      BY <2>1, <3>1, PowersOfTwo
  <2> HIDE DEF a, b
  <2>4. 2 * (b * a) = (2 * b) * a
    BY <2>1
  <2>5. TwoTo[m + (j + 1)] = TwoTo[j + 1] * a
    BY <2>2, <2>3, <2>4
  <2> QED
    BY <2>5 DEF a
<1>3. T = Nat
  <2>1. T \in SUBSET Nat
    OBVIOUS
  <2> HIDE DEF T
  <2> QED
    BY <1>1, <1>2, <2>1, SetInduction
<1>4. n \in T
  BY <1>3
<1> QED
  BY <1>4

\* An exponential policy without a cap does not wait at all once the count has
\* reached the width of the integers, 64 in the code: all bits of the base have
\* been shifted out, and every further retry is due at once (NextDelay of
\* ExponentialBackoff).
THEOREM UncappedOverflows ==
  ASSUME NEW base \in Int, NEW n \in Nat, Width <= n
  PROVE  ExponentialBackoff(base, 0, n) = 0
<1>1. PICK d \in Int, q \in Int : /\ ExponentialBackoff(base, 0, n) = d
                                  /\ d = base * TwoTo[n] - q * TwoTo[Width]
                                  /\ n > 0 => -MaxInt - 1 <= d /\ d <= MaxInt
  BY RoundsModulo
<1>2. PICK j \in Nat : n = Width + j
  BY WidthAssumption
<1>3. PICK K \in Nat \ {0} : K = TwoTo[Width] /\ K = 2 * (MaxInt + 1) /\ MaxInt \in Nat
  BY WrapDiffers, PowersOfTwo, WidthAssumption
<1>4. PICK b \in Nat : b = TwoTo[j] /\ TwoTo[n] = b * K
  <2>1. Width \in Nat
    BY WidthAssumption
  <2>2. TwoTo[n] = TwoTo[j] * TwoTo[Width] /\ TwoTo[j] \in Nat
    BY <1>2, <2>1, PowersMultiply, PowersOfTwo
  <2> QED
    BY <1>3, <2>2
<1>5. PICK m \in Int : d = m * K
  <2>1. base * (b * K) - q * K = (base * b - q) * K
    OBVIOUS
  <2>2. d = (base * b - q) * K /\ base * b - q \in Int
    BY <1>1, <1>3, <1>4, <2>1
  <2> QED
    BY <2>2
<1>6. -MaxInt - 1 <= d /\ d <= MaxInt
  BY <1>1, WidthAssumption
<1>7. m < 1
  <2>1. m >= 1 => m * K >= K
    OBVIOUS
  <2> QED
    BY <1>3, <1>5, <1>6, <2>1
<1>8. m > -1
  <2>1. m <= -1 => m * K <= -K
    OBVIOUS
  <2> QED
    BY <1>3, <1>5, <1>6, <2>1
<1>9. m = 0
  BY <1>7, <1>8
<1> QED
  BY <1>1, <1>5, <1>9
=============================================================================
