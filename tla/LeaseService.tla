---------------------------- MODULE LeaseService ----------------------------
(***************************************************************************)
(* What the engine promises to those who lease workflows: the abstract     *)
(* specification of a lease service.  A workflow is free, held by one      *)
(* holder until some time, waived (its holder pauses and gives up the      *)
(* claim to the rest of its lease), or closed for ever.                    *)
(*                                                                         *)
(* Every use of a lease is somebody's: worker k renews, waives, returns    *)
(* and finishes only what k holds.  The service reclaims leases in passes  *)
(* of its own, and a grant or a pass may end a held lease only when its    *)
(* time is over on the real clock.                                         *)
(* Every grant has a version of its own, so that a version tells two       *)
(* tenures of one holder apart.                                            *)
(***************************************************************************)
EXTENDS Integers

CONSTANTS Workflows, Workers, None

VARIABLES
  lease,   \* lease[w]: state, holder, until, progress and version
  clock,   \* the real time
  pass     \* how far the service is; changes in every pass

Taken(l) == l.state \in {"held", "waived"}

\* The lease may be ended by others than its holder.
Endable(l) == l.state = "waived" \/ (l.state = "held" /\ l.until <= clock)

Nobody(l) == [l EXCEPT !.state = "free", !.holder = None, !.until = None]

Create(l, n) ==
  l.state = "absent" /\ n = [state |-> "free", holder |-> None, until |-> None,
                             progress |-> 0, version |-> 1]

\* k gets a lease that is free or may be ended.
Grant(l, n, k) ==
  /\ l.state = "free" \/ Endable(l)
  /\ n = [l EXCEPT !.state = "held", !.holder = k, !.until = n.until,
                   !.version = @ + 1]

\* A renewal, which may shorten the lease.
Renew(l, n) == l.state = "held" /\ n = [l EXCEPT !.until = n.until]

Waive(l, n) == l.state = "held" /\ n = [l EXCEPT !.state = "waived"]

Return(l, n) == Taken(l) /\ n = Nobody(l)

Progress(l, n) ==
  Taken(l) /\ n = [l EXCEPT !.progress = @ + 1, !.version = @ + 1]

Finish(l, n) ==
  /\ l.state = "held"
  /\ n = [l EXCEPT !.state = "closed", !.holder = None, !.until = None,
                   !.version = @ + 1]

\* Worker k is granted a lease, or does something with one that it holds.
Use(k) ==
  /\ UNCHANGED <<clock, pass>>
  /\ \E w \in Workflows : LET l == lease[w]  n == lease'[w] IN
       /\ lease' = [lease EXCEPT ![w] = n]
       /\ \/ Grant(l, n, k)
          \/ /\ l.holder = k
             /\ \/ Renew(l, n) \/ Waive(l, n) \/ Return(l, n)
                \/ Progress(l, n) \/ Finish(l, n)

\* A new lease, which anybody may ask for.
Open ==
  /\ UNCHANGED <<clock, pass>>
  /\ \E w \in Workflows : /\ lease' = [lease EXCEPT ![w] = lease'[w]]
                          /\ Create(lease[w], lease'[w])

\* The service ends any of the leases that may be ended.
Reclaim ==
  /\ pass' # pass
  /\ UNCHANGED clock
  /\ DOMAIN lease' = Workflows
  /\ \A w \in Workflows : \/ lease'[w] = lease[w]
                          \/ Endable(lease[w]) /\ lease'[w] = Nobody(lease[w])

Wait == clock' > clock /\ UNCHANGED <<lease, pass>>

ServiceInit ==
  lease = [w \in Workflows |-> [state |-> "absent", holder |-> None,
                                until |-> None, progress |-> 0, version |-> 0]]

ServiceNext == (\E k \in Workers : Use(k)) \/ Open \/ Reclaim \/ Wait

ServiceSpec == ServiceInit /\ [][ServiceNext]_<<lease, clock, pass>>
=============================================================================
