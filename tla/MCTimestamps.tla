----------------------------- MODULE MCTimestamps ---------------------------
(* Values for the constants of Timestamps that a .cfg cannot write down.   *)
EXTENDS Timestamps

\* FixedBackoff{DelaySeconds: 1}.
FixedDelays == [c \in 0..MaxRetries |-> 1]
=============================================================================
