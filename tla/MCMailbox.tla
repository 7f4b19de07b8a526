------------------------------ MODULE MCMailbox -----------------------------
(* Values for the constants of Mailbox that a .cfg cannot write down.      *)
EXTENDS Mailbox, TLC

NoDelays == [c \in 0..MaxRetries |-> 0]

\* Identifiers are only compared for equality.
Symmetry == Permutations(Workers) \cup Permutations(Threads)
                \cup Permutations(Workflows)
=============================================================================
