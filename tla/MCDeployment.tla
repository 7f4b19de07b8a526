----------------------------- MODULE MCDeployment ---------------------------
(* Values for the constants of Deployment that a .cfg cannot write down.   *)
EXTENDS Deployment, Backoff, TLC

\* Every retry one second later: FixedBackoff{DelaySeconds: 1}.
FixedDelays == [c \in 0..MaxRetries |-> FixedBackoff(1, c)]

\* Retries at once: FixedBackoff{DelaySeconds: 0}.
NoDelays == [c \in 0..MaxRetries |-> FixedBackoff(0, c)]

\* Identifiers are only compared for equality.
Symmetry == Permutations(Workers) \cup Permutations(Threads)
=============================================================================
