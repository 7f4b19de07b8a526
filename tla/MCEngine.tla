------------------------------- MODULE MCEngine -----------------------------
(* Values for the constants of Engine that a .cfg cannot write down.       *)
EXTENDS Engine, Backoff, TLC

\* Every retry one second later: FixedBackoff{DelaySeconds: 1}.
FixedDelays == [c \in 0..MaxRetries |-> FixedBackoff(1, c)]

\* ExponentialBackoff{BaseSeconds: 1, MaxSeconds: 2}.
ExponentialDelays == [c \in 0..MaxRetries |-> ExponentialBackoff(1, 2, c)]

\* Identifiers are only compared for equality.
StepSymmetry == Permutations(Workers) \cup Permutations(StepNumbers)

\* The delays over a grid that overflows 7-bit integers.
CappedGrid == CappedDelays(12, 40, 8)
UncappedGrid == UncappedDelays(12, 8)

\* A retry scheduled now falls due as late as it should, and not in the past.
DueExactly(delays) ==
  \A d \in delays : clock + d[1] = clock + d[2] /\ clock + d[1] >= clock

\* A retry under a capped exponential policy falls due after base * 2^count
\* seconds or the cap, the smaller of the two, and no doubling wraps around
\* where twice the larger of base and cap fits the integer (src/types.go
\* NextDelay).
CappedExponentialExact == DueExactly(CappedGrid)

\* A retry under a linear or an uncapped exponential policy falls due after
\* base * (count + 1) or base * 2^count seconds, as long as that fits the
\* integer.
UncappedExact == DueExactly(UncappedGrid)
=============================================================================
