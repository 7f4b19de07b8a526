------------------------------- MODULE MCClaims -----------------------------
(* Values for the constants of Claims that a .cfg cannot write down.       *)
EXTENDS Claims, Backoff

\* Every retry one second later: FixedBackoff{DelaySeconds: 1}.
FixedDelays == [c \in 0..MaxRetries |-> FixedBackoff(1, c)]
=============================================================================
