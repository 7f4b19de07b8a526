------------------------------ MODULE MCExample -----------------------------
(* Values for the constants of Example, after cmd/example/main.go.         *)
EXTENDS Example, Backoff

\* ExponentialBackoff{BaseSeconds: 1, MaxSeconds: 10}.
ExampleDelays == [c \in 0..MaxRetries |-> ExponentialBackoff(1, 10, c)]
=============================================================================
