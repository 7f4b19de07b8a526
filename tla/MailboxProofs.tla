---------------------------- MODULE MailboxProofs ---------------------------
(***************************************************************************)
(* Theorems about Mailbox: for any number of processes, requests, signals  *)
(* and repetitions, a signal is delivered at most once, and signals are    *)
(* lost or duplicated only by attempts that were given up, one each.       *)
(***************************************************************************)
EXTENDS Mailbox, EngineProofs, FiniteSetTheorems

-----------------------------------------------------------------------------
(* The invariant *)

SentOps == {"send", "consume"}

MailCalls == [op : {"none"} \cup SentOps, arg : Nat]

\* A process, or a request, that has a call has it for some workflow.
Processes ==
  {p \in [pc : {"new", "exited", "again", "await"}, todo : {"none"},
          wf : Workflows \cup {None}, next : {0}, until : {0}, since : Nat,
          call : MailCalls, attempt : Nat] :
     p.call.op \in SentOps => p.wf \in Workflows}

Letters ==
  {r \in [from : Workers \cup {None}, call : MailCalls,
          wf : Workflows \cup {None}, sent : Nat, live : BOOLEAN,
          got : Nat \cup {None}] :
     r.call.op \in SentOps => r.wf \in Workflows}

Live == {t \in Threads : inflight[t].live}

MailTyped ==
  /\ worker \in [Workers -> Processes]
  /\ inflight \in [Threads -> Letters]
  /\ returned \in Nat /\ failures \in Nat /\ delivered \in Seq(Nat)
  /\ IsFiniteSet({t \in Threads : inflight[t] # NoRequest})

\* At most one request can still answer a process, and only while it waits.
LiveOnce ==
  /\ \A t \in Live : /\ inflight[t].from \in Workers
                     /\ worker[inflight[t].from].pc = "await"
  /\ \A t, u \in Live : inflight[t].from = inflight[u].from => t = u

\* The signals that are consumed, those that have arrived, and the requests
\* that bring one, to whoever waits.
Consumed == {i \in DOMAIN signals : signals[i].consumed}

Arrived == {delivered[i] : i \in DOMAIN delivered}

Bring == {t \in Threads : Handles(t, "consume") /\ inflight[t].got \notin {None, NoSignal}}

\* No signal is on two ways, or on its way and there.
OneWay ==
  /\ Arrived \subseteq Consumed
  /\ \A t \in Bring : inflight[t].got \in Consumed \ Arrived
  /\ \A t, u \in Bring : inflight[t].got = inflight[u].got => t = u
  /\ DeliveredOnce

\* The requests that nobody waits for and that are still to be handled.
Abandoned(op) ==
  {t \in Threads : Handles(t, op) /\ ~inflight[t].live /\ inflight[t].got = None}

Coming == {inflight[t].got : t \in Answers("consume")}

Lost == Consumed \ (Arrived \cup Coming)

Extra == Len(signals) - returned - Cardinality(Answers("send"))

\* A request that was given up will yet lose a signal or leave one too many.
Counted ==
  /\ Cardinality(Lost) + Cardinality(Abandoned("consume")) <= failures
  /\ Extra >= 0
  /\ Extra + Cardinality(Abandoned("send")) <= failures

MailInv == IInv /\ MailTyped /\ LiveOnce /\ OneWay /\ Counted

-----------------------------------------------------------------------------
(* Finite sets of requests and signals *)

LEMMA FiniteRequests ==
  ASSUME MailTyped, TypeOK
  PROVE  /\ IsFiniteSet(Live)
         /\ \A op \in {"send", "consume"} :
              IsFiniteSet(Answers(op)) /\ IsFiniteSet(Abandoned(op))
         /\ IsFiniteSet(DOMAIN signals) /\ IsFiniteSet(Consumed) /\ IsFiniteSet(Lost)
         /\ Len(signals) \in Nat /\ DOMAIN signals = 1..Len(signals)
<1> DEFINE R == {t \in Threads : inflight[t] # NoRequest}
<1>1. Live \subseteq R
  BY DEF Live, NoRequest
<1>2. \A op \in {"send", "consume"} : Answers(op) \subseteq R /\ Abandoned(op) \subseteq R
  BY DEF Answers, Abandoned, Handles, NoRequest, NoCall, Call
<1>3. Len(signals) \in Nat /\ DOMAIN signals = 1..Len(signals)
  BY LenProperties DEF TypeOK
<1>4. IsFiniteSet(DOMAIN signals)
  BY <1>3, FS_Interval
<1>5. Consumed \subseteq DOMAIN signals /\ Lost \subseteq DOMAIN signals
  BY DEF Consumed, Lost
<1> QED
  BY <1>1, <1>2, <1>3, <1>4, <1>5, FS_Subset DEF MailTyped

\* A set that gains at most the elements of another.
LEMMA Gains ==
  ASSUME NEW S, NEW T, NEW A, IsFiniteSet(S), IsFiniteSet(A), T \subseteq S \cup A
  PROVE  /\ IsFiniteSet(T) /\ Cardinality(T) <= Cardinality(S) + Cardinality(A)
         /\ Cardinality(T) \in Nat /\ Cardinality(S) \in Nat /\ Cardinality(A) \in Nat
<1>1. IsFiniteSet(S \cup A) /\ IsFiniteSet(S \cap A)
  BY FS_Union, FS_Subset, S \cap A \subseteq S
<1>2. Cardinality(S \cup A) = Cardinality(S) + Cardinality(A) - Cardinality(S \cap A)
  BY FS_Union
<1>3. IsFiniteSet(T) /\ Cardinality(T) <= Cardinality(S \cup A)
  BY <1>1, FS_Subset
<1> QED
  BY <1>1, <1>2, <1>3, FS_CardinalityType

\* An element more, an element less.
LEMMA OneMore ==
  ASSUME NEW S, IsFiniteSet(S), NEW x
  PROVE  /\ x \notin S => Cardinality(S \cup {x}) = Cardinality(S) + 1
         /\ x \in S => Cardinality(S \ {x}) = Cardinality(S) - 1
         /\ x \notin S => S \ {x} = S
         /\ Cardinality(S) \in Nat
BY FS_AddElement, FS_RemoveElement, FS_CardinalityType

LEMMA Singles ==
  ASSUME NEW x
  PROVE  /\ IsFiniteSet({x}) /\ Cardinality({x}) = 1
         /\ IsFiniteSet({}) /\ Cardinality({}) = 0
BY FS_Singleton, FS_EmptySet

-----------------------------------------------------------------------------
(* How the requests change *)

LettersKept == inflight' \in [Threads -> Letters]
               /\ IsFiniteSet({t \in Threads : inflight'[t] # NoRequest})

\* Request t is gone.
LEMMA Dropped ==
  ASSUME MailTyped, NEW t \in Threads, inflight' = [inflight EXCEPT ![t] = NoRequest]
  PROVE  /\ LettersKept
         /\ \A u \in Threads \ {t} : inflight'[u] = inflight[u]
         /\ Live' = Live \ {t} /\ Bring' = Bring \ {t}
         /\ \A op \in SentOps : /\ Answers(op)' = Answers(op) \ {t}
                                /\ Abandoned(op)' = Abandoned(op) \ {t}
<1>1. inflight'[t] = NoRequest /\ \A u \in Threads \ {t} : inflight'[u] = inflight[u]
  BY DEF MailTyped
<1>2. NoRequest \in Letters
  BY DEF NoRequest, Letters, NoCall, Call, MailCalls, SentOps
<1>3. LettersKept
  <2>1. {u \in Threads : inflight'[u] # NoRequest} \subseteq {u \in Threads : inflight[u] # NoRequest}
    BY <1>1
  <2>2. inflight' \in [Threads -> Letters]
    BY <1>2 DEF MailTyped
  <2> QED
    BY <2>1, <2>2, FS_Subset DEF MailTyped, LettersKept
<1>4. ~inflight'[t].live /\ inflight'[t].call.op = "none" /\ inflight'[t].got = None
  BY <1>1 DEF NoRequest, NoCall, Call
<1>5. Live' = Live \ {t} /\ Bring' = Bring \ {t}
  BY <1>1, <1>4 DEF Live, Bring, Handles
<1>6. \A op \in SentOps : /\ Answers(op)' = Answers(op) \ {t}
                          /\ Abandoned(op)' = Abandoned(op) \ {t}
  BY <1>1, <1>4 DEF Answers, Abandoned, Handles, SentOps
<1> QED
  BY <1>1, <1>3, <1>5, <1>6

\* The answer of t is on its way.
LEMMA Answered ==
  ASSUME MailTyped, NEW t \in Threads, NEW value \in Nat, NEW o \in SentOps,
         Handles(t, o), inflight[t].got = None,
         inflight' = [inflight EXCEPT ![t].got = value]
  PROVE  /\ LettersKept /\ Live' = Live
         /\ \A u \in Threads \ {t} : inflight'[u] = inflight[u]
         /\ inflight'[t].got = value /\ inflight'[t].from = inflight[t].from
         /\ Bring' = IF o = "consume" /\ value # NoSignal THEN Bring \cup {t} ELSE Bring
         /\ t \notin Bring /\ t \notin Answers(o)
         /\ Answers(o)' = IF t \in Live THEN Answers(o) \cup {t} ELSE Answers(o)
         /\ t \in Live \/ t \in Abandoned(o)
         /\ \A op \in SentOps : /\ Abandoned(op)' = Abandoned(op) \ {t}
                                /\ op # o => Answers(op)' = Answers(op)
<1> DEFINE r == inflight[t]  new == [r EXCEPT !.got = value]
<1>1. inflight'[t] = new /\ \A u \in Threads \ {t} : inflight'[u] = inflight[u]
  BY DEF MailTyped
<1>2. r \in Letters
  BY DEF MailTyped
<1>3. /\ new \in Letters /\ new.from = r.from /\ new.live = r.live
      /\ new.call = r.call /\ new.got = value
  BY <1>2 DEF Letters
<1>4. value # None
  BY NoneAssumption
<1>5. LettersKept
  <2>1. {u \in Threads : inflight'[u] # NoRequest} \subseteq {u \in Threads : inflight[u] # NoRequest}
    <3>1. inflight[t] # NoRequest
      BY DEF Handles, NoRequest, NoCall, Call, SentOps
    <3> QED
      BY <1>1, <3>1
  <2>2. inflight' \in [Threads -> Letters]
    BY <1>3 DEF MailTyped
  <2> QED
    BY <2>1, <2>2, FS_Subset DEF MailTyped, LettersKept
<1>6. r.call.op = o /\ r.got = None
  BY DEF Handles
<1> HIDE DEF new, r
<1>7. \A u \in Threads : /\ inflight'[u].call = inflight[u].call
                         /\ inflight'[u].live = inflight[u].live
  BY <1>1, <1>3 DEF r
<1>8. Live' = Live
  BY <1>7 DEF Live
<1>9. Bring' = IF o = "consume" /\ value # NoSignal THEN Bring \cup {t} ELSE Bring
  BY <1>1, <1>3, <1>4, <1>6, <1>7 DEF Bring, Handles, r
<1>10. t \notin Bring /\ t \notin Answers(o) /\ (t \in Live \/ t \in Abandoned(o))
  BY <1>6 DEF Bring, Answers, Live, Abandoned, Handles, r
<1>11. Answers(o)' = IF t \in Live THEN Answers(o) \cup {t} ELSE Answers(o)
  BY <1>1, <1>3, <1>4, <1>6, <1>7 DEF Answers, Live, Handles, r
<1>12. \A op \in SentOps : /\ Abandoned(op)' = Abandoned(op) \ {t}
                           /\ op # o => Answers(op)' = Answers(op)
  BY <1>1, <1>3, <1>4, <1>6, <1>7 DEF Answers, Abandoned, Handles, r
<1> QED
  BY <1>1, <1>3, <1>5, <1>8, <1>9, <1>10, <1>11, <1>12 DEF r

\* Process k sends a request.
LEMMA Fetched ==
  ASSUME MailTyped, LiveOnce, clock \in Nat, NEW k \in Workers,
         worker[k].pc # "await", NEW p \in Processes, Fetch(k, p)
  PROVE  /\ LettersKept /\ worker' \in [Workers -> Processes] /\ LiveOnce'
         /\ Bring' = Bring /\ \A u \in Bring : inflight'[u] = inflight[u]
         /\ \A op \in SentOps : /\ Answers(op)' = Answers(op)
                                /\ Abandoned(op)' = Abandoned(op)
         /\ \A u \in Answers("consume") : inflight'[u] = inflight[u]
<1> DEFINE r == [from |-> k, call |-> p.call, wf |-> p.wf, sent |-> clock,
                 live |-> TRUE, got |-> None]
           q == [p EXCEPT !.pc = "await"]
<1>1. PICK t \in Threads : /\ inflight[t] = NoRequest
                           /\ inflight' = [inflight EXCEPT ![t] = r]
  BY DEF Fetch
<1>2. worker' = [worker EXCEPT ![k] = q]
  BY DEF Fetch
<1>3. r \in Letters
  BY DEF Processes, Letters
<1>4. q \in Processes /\ q.pc = "await"
  BY DEF Processes
<1>5. r.from = k /\ r.live /\ r.got = None
  OBVIOUS
<1> HIDE DEF r, q
<1>6. inflight'[t] = r /\ \A u \in Threads \ {t} : inflight'[u] = inflight[u]
  BY <1>1 DEF MailTyped
<1>7. LettersKept
  <2>1. {u \in Threads : inflight'[u] # NoRequest}
          \subseteq {u \in Threads : inflight[u] # NoRequest} \cup {t}
    BY <1>6
  <2>2. IsFiniteSet({u \in Threads : inflight[u] # NoRequest} \cup {t})
    BY FS_AddElement DEF MailTyped
  <2>3. inflight' \in [Threads -> Letters]
    BY <1>1, <1>3 DEF MailTyped
  <2> QED
    BY <2>1, <2>2, <2>3, FS_Subset DEF LettersKept
<1>8. worker' \in [Workers -> Processes]
  BY <1>2, <1>4 DEF MailTyped
<1>9. ~inflight[t].live /\ inflight[t].call.op = "none" /\ inflight[t].got = None
  BY <1>1 DEF NoRequest, NoCall, Call
<1>10. LiveOnce'
  <2>1. Live' = Live \cup {t}
    BY <1>5, <1>6 DEF Live
  <2>2. \A u \in Live : inflight[u].from # k /\ u # t
    BY <1>9 DEF LiveOnce, Live
  <2>3. worker'[k].pc = "await" /\ \A j \in Workers \ {k} : worker'[j] = worker[j]
    BY <1>2, <1>4 DEF MailTyped
  <2> QED
    BY <1>5, <1>6, <2>1, <2>2, <2>3 DEF LiveOnce, Live
<1>11. Bring' = Bring /\ t \notin Bring
  BY <1>5, <1>6, <1>9 DEF Bring, Handles
<1>12. \A op \in SentOps : /\ Answers(op)' = Answers(op) /\ t \notin Answers(op)
                           /\ Abandoned(op)' = Abandoned(op)
  BY <1>5, <1>6, <1>9 DEF Answers, Abandoned, Handles, SentOps
<1>13. \A u \in Bring \cup Answers("consume") : u \in Threads \ {t}
  BY <1>11, <1>12 DEF Bring, Answers, SentOps
<1> QED
  BY <1>6, <1>7, <1>8, <1>10, <1>11, <1>12, <1>13

\* Nobody waits for the attempts of process k any more.
LEMMA Given ==
  ASSUME MailTyped, LiveOnce, NEW k \in Workers, Abandon(k)
  PROVE  /\ LettersKept /\ Bring' = Bring
         /\ \A t \in Threads : /\ inflight'[t].got = inflight[t].got
                               /\ inflight'[t].from = inflight[t].from
         /\ Live' = {t \in Live : inflight[t].from # k}
         /\ \A op \in SentOps : /\ Answers(op)' = {t \in Answers(op) : inflight[t].from # k}
                                /\ Abandoned(op)' \subseteq Abandoned(op)
                                     \cup {t \in Live : /\ inflight[t].from = k
                                                        /\ Handles(t, op)
                                                        /\ inflight[t].got = None}
<1>1. \A t \in Threads :
        /\ inflight'[t] \in Letters
        /\ inflight'[t].got = inflight[t].got /\ inflight'[t].from = inflight[t].from
        /\ inflight'[t].call = inflight[t].call
        /\ inflight'[t].live = (inflight[t].live /\ inflight[t].from # k)
        /\ inflight[t].from # k => inflight'[t] = inflight[t]
  <2> SUFFICES ASSUME NEW t \in Threads
               PROVE  /\ inflight'[t] \in Letters
                      /\ inflight'[t].got = inflight[t].got /\ inflight'[t].from = inflight[t].from
                      /\ inflight'[t].call = inflight[t].call
                      /\ inflight'[t].live = (inflight[t].live /\ inflight[t].from # k)
                      /\ inflight[t].from # k => inflight'[t] = inflight[t]
    OBVIOUS
  <2> DEFINE r == inflight[t]
  <2>1. r \in Letters
    BY DEF MailTyped
  <2>2. inflight'[t] = IF r.from = k THEN [r EXCEPT !.live = FALSE] ELSE r
    BY DEF Abandon
  <2> HIDE DEF r
  <2>3. CASE r.from = k
    BY <2>1, <2>2, <2>3 DEF Letters, r
  <2>4. CASE r.from # k
    BY <2>1, <2>2, <2>4 DEF Letters, r
  <2> QED
    BY <2>3, <2>4
<1>2. LettersKept
  <2>1. {u \in Threads : inflight'[u] # NoRequest} \subseteq {u \in Threads : inflight[u] # NoRequest}
    <3>1. NoRequest.from \notin Workers
      BY NoneAssumption DEF NoRequest
    <3> QED
      BY <1>1, <3>1
  <2>2. inflight' \in [Threads -> Letters]
    BY <1>1 DEF Abandon
  <2> QED
    BY <2>1, <2>2, FS_Subset DEF MailTyped, LettersKept
<1> QED
  BY <1>1, <1>2 DEF Live, Bring, Answers, Abandoned, Handles

-----------------------------------------------------------------------------
(* Processes *)

LEMMA FailedProcess ==
  ASSUME NEW p \in Processes
  PROVE  AttemptFailed(p) \in Processes /\ NotRunning("new") \in Processes
         /\ NotRunning("exited") \in Processes
<1>1. \A pc \in {"new", "exited"} : NotRunning(pc) \in Processes
  BY DEF NotRunning, Processes, NoCall, Call, MailCalls, SentOps
<1>2. p.attempt + 1 \in Nat
  BY DEF Processes
<1>3. [p EXCEPT !.pc = "again", !.attempt = @ + 1] \in Processes
  BY <1>2 DEF Processes
<1> QED
  BY <1>1, <1>3 DEF AttemptFailed

LEMMA BeginningProcess ==
  ASSUME clock \in Nat, NEW w \in Workflows, NEW op \in SentOps
  PROVE  Calling([NotRunning("new") EXCEPT !.wf = w], Call(op, 0)) \in Processes
<1> DEFINE p == [NotRunning("new") EXCEPT !.wf = w]
<1>1. p \in Processes /\ p.wf = w
  BY DEF NotRunning, Processes, NoCall, Call, MailCalls, SentOps
<1>2. Call(op, 0) \in MailCalls
  BY DEF Call, MailCalls, SentOps
<1> HIDE DEF p
<1>3. Calling(p, Call(op, 0)) \in Processes
  BY <1>1, <1>2 DEF Calling, Processes
<1> QED
  BY <1>3 DEF p

\* The process that waits for request t goes on, if there is one.
LEMMA DroppedProcess ==
  ASSUME MailTyped, LiveOnce, NEW t \in Threads,
         inflight' = [inflight EXCEPT ![t] = NoRequest],
         NEW p, t \in Live => p \in Processes,
         worker' = IF inflight[t].live THEN [worker EXCEPT ![inflight[t].from] = p]
                   ELSE worker
  PROVE  worker' \in [Workers -> Processes] /\ LiveOnce'
<1>1. worker' \in [Workers -> Processes]
  BY DEF MailTyped, Live
<1>2. Live' = Live \ {t} /\ \A u \in Threads \ {t} : inflight'[u] = inflight[u]
  BY Dropped
<1>3. \A u \in Live \ {t} : worker'[inflight[u].from] = worker[inflight[u].from]
  BY DEF LiveOnce, Live, MailTyped
<1> QED
  BY <1>1, <1>2, <1>3 DEF LiveOnce, Live

-----------------------------------------------------------------------------
(* Ways and counts *)

LEMMA WaysKept ==
  ASSUME OneWay, Bring' \subseteq Bring, \A t \in Bring' : inflight'[t].got = inflight[t].got,
         Consumed' = Consumed, UNCHANGED delivered
  PROVE  OneWay'
BY DEF OneWay, Arrived, DeliveredOnce

LEMMA ConsumeBudget ==
  ASSUME MailTyped, TypeOK, Counted,
         NEW A, IsFiniteSet(A), NEW B, IsFiniteSet(B), NEW n \in Nat,
         Cardinality(A) + Cardinality(B) <= n,
         Lost' \subseteq Lost \cup A,
         Abandoned("consume")' \subseteq Abandoned("consume") \cup B,
         failures' = failures + n
  PROVE  Cardinality(Lost') + Cardinality(Abandoned("consume")') <= failures'
<1>1. IsFiniteSet(Lost) /\ IsFiniteSet(Abandoned("consume"))
  BY FiniteRequests
<1>2. /\ Cardinality(Lost') <= Cardinality(Lost) + Cardinality(A)
      /\ Cardinality(Lost') \in Nat /\ Cardinality(Lost) \in Nat /\ Cardinality(A) \in Nat
  BY <1>1, Gains
<1>3. /\ Cardinality(Abandoned("consume")') <= Cardinality(Abandoned("consume")) + Cardinality(B)
      /\ Cardinality(Abandoned("consume")') \in Nat
      /\ Cardinality(Abandoned("consume")) \in Nat /\ Cardinality(B) \in Nat
  BY <1>1, Gains
<1> QED
  BY <1>2, <1>3 DEF Counted, MailTyped

\* A send that was live, or abandoned, and is no more.
LEMMA SendBudget ==
  ASSUME MailTyped, TypeOK, Counted, NEW B, IsFiniteSet(B), NEW m \in Nat, NEW n \in Nat,
         m + Cardinality(B) <= n,
         Extra' = Extra + m,
         Abandoned("send")' \subseteq Abandoned("send") \cup B,
         failures' = failures + n
  PROVE  Extra' >= 0 /\ Extra' + Cardinality(Abandoned("send")') <= failures'
<1>1. IsFiniteSet(Abandoned("send")) /\ IsFiniteSet(Answers("send")) /\ Len(signals) \in Nat
  BY FiniteRequests
<1>2. /\ Cardinality(Abandoned("send")') <= Cardinality(Abandoned("send")) + Cardinality(B)
      /\ Cardinality(Abandoned("send")') \in Nat
      /\ Cardinality(Abandoned("send")) \in Nat /\ Cardinality(B) \in Nat
  BY <1>1, Gains
<1>3. Extra \in Int
  BY <1>1, FS_CardinalityType DEF Extra, MailTyped
<1> QED
  BY <1>2, <1>3 DEF Counted, MailTyped

LEMMA NothingLost ==
  ASSUME Consumed' \subseteq Consumed, UNCHANGED delivered,
         \A t \in Answers("consume") : /\ t \in Answers("consume")'
                                       /\ inflight'[t].got = inflight[t].got
  PROVE  Lost' \subseteq Lost
<1>1. Arrived' = Arrived
  BY DEF Arrived
<1>2. Coming \subseteq Coming'
  BY DEF Coming
<1> QED
  BY <1>1, <1>2 DEF Lost

-----------------------------------------------------------------------------
(* The steps *)

MailStep == [Next]_vars /\ MailTyped' /\ LiveOnce' /\ OneWay' /\ Counted'

\* Steps that leave the tables, the answers and the counters alone.
LEMMA QuietRequests ==
  ASSUME MailInv, UNCHANGED <<signals, history>>, LettersKept,
         worker' \in [Workers -> Processes],
         Bring' = Bring, \A t \in Bring \cup Answers("consume") : inflight'[t].got = inflight[t].got,
         \A op \in SentOps : Answers(op)' = Answers(op) /\ Abandoned(op)' \subseteq Abandoned(op)
  PROVE  MailTyped' /\ OneWay' /\ Counted'
<1>1. MailTyped'
  BY DEF MailInv, MailTyped, LettersKept, history
<1>2. Consumed' = Consumed
  BY DEF Consumed
<1>3. OneWay'
  BY <1>2, WaysKept DEF MailInv, history
<1>4. /\ Answers("consume")' = Answers("consume") /\ Answers("send")' = Answers("send")
      /\ Abandoned("consume")' \subseteq Abandoned("consume")
      /\ Abandoned("send")' \subseteq Abandoned("send")
  BY DEF SentOps
<1>5. Lost' \subseteq Lost
  BY <1>2, <1>4, NothingLost DEF history
<1>6. Extra' = Extra
  BY <1>4 DEF Extra, history
<1>7. TypeOK /\ MailTyped /\ Counted
  BY DEF MailInv, IInv
<1>8. failures' = failures + 0 /\ failures \in Nat /\ Extra' = Extra + 0
  <2>1. Extra \in Int
    BY <1>7, FiniteRequests, FS_CardinalityType DEF Extra, MailTyped, SentOps
  <2> QED
    BY <1>6, <1>7, <2>1 DEF history, MailTyped
<1>9. /\ Lost' \subseteq Lost \cup {}
      /\ Abandoned("consume")' \subseteq Abandoned("consume") \cup {}
      /\ Abandoned("send")' \subseteq Abandoned("send") \cup {}
      /\ IsFiniteSet({}) /\ 0 + Cardinality({}) <= 0 /\ Cardinality({}) + Cardinality({}) <= 0
  BY <1>4, <1>5, FS_EmptySet
<1>10. Cardinality(Lost') + Cardinality(Abandoned("consume")') <= failures'
  BY <1>7, <1>8, <1>9, ConsumeBudget
<1>11. Extra' >= 0 /\ Extra' + Cardinality(Abandoned("send")') <= failures'
  BY <1>7, <1>8, <1>9, SendBudget
<1> QED
  BY <1>1, <1>3, <1>10, <1>11 DEF Counted

LEMMA SendsRequest ==
  ASSUME MailInv, NEW k \in Workers,
         Begin(k, "send") \/ Begin(k, "consume") \/ Again(k)
  PROVE  MailStep
<1>1. clock \in Nat /\ MailTyped /\ LiveOnce /\ worker[k] \in Processes
  BY BoundAssumption DEF MailInv, IInv, TypeOK, MailTyped
<1>2. UNCHANGED vars /\ UNCHANGED history /\ worker[k].pc # "await"
      /\ \E p \in Processes : Fetch(k, p)
  <2>1. CASE Again(k)
    BY <1>1, <2>1 DEF Again, FetchAgain, Fetch
  <2>2. ASSUME NEW op \in SentOps, Begin(k, op)
        PROVE  UNCHANGED vars /\ UNCHANGED history /\ worker[k].pc # "await"
               /\ \E p \in Processes : Fetch(k, p)
    <3>1. PICK w \in Workflows :
            Fetch(k, Calling([NotRunning("new") EXCEPT !.wf = w], Call(op, 0)))
      BY <2>2 DEF Begin
    <3>2. UNCHANGED vars
      BY <3>1 DEF Fetch
    <3> QED
      BY <1>1, <2>2, <3>1, <3>2, BeginningProcess DEF Begin
  <2> QED
    BY <2>1, <2>2 DEF SentOps
<1>3. PICK p \in Processes : Fetch(k, p)
  BY <1>2
<1>4. /\ LettersKept /\ worker' \in [Workers -> Processes] /\ LiveOnce'
      /\ Bring' = Bring /\ \A u \in Bring : inflight'[u] = inflight[u]
      /\ \A op \in SentOps : Answers(op)' = Answers(op) /\ Abandoned(op)' = Abandoned(op)
      /\ \A u \in Answers("consume") : inflight'[u] = inflight[u]
  BY <1>1, <1>2, <1>3, Fetched
<1>5. UNCHANGED <<signals, history>>
  BY <1>2 DEF vars
<1> QED
  BY <1>2, <1>4, <1>5, QuietRequests DEF MailStep

\* Attempts of process k are given up, at most one that it waits for.
LEMMA GivesUp ==
  ASSUME MailInv, NEW k \in Workers,
         \/ Timeout(k) /\ GiveUp(1)
         \/ Kill(k) /\ GiveUp(IF worker[k].pc = "await" THEN 1 ELSE 0)
  PROVE  MailStep
<1> DEFINE X == {t \in Live : inflight[t].from = k}
           n == IF worker[k].pc = "await" THEN 1 ELSE 0
           A == {inflight[t].got : t \in {u \in X : inflight[u].got # None}}
           B == {u \in X : inflight[u].got = None}
           S == {u \in X : u \in Answers("send")}
<1>1. MailTyped /\ LiveOnce /\ OneWay /\ Counted /\ TypeOK /\ worker[k] \in Processes
  BY DEF MailInv, IInv, MailTyped
<1>2. UNCHANGED vars /\ Abandon(k) /\ UNCHANGED <<returned, delivered>>
      /\ failures' = failures + n /\ n \in {0, 1}
  BY DEF Timeout, Kill, GiveUp
<1>3. PICK p \in Processes : worker' = [worker EXCEPT ![k] = p]
  BY <1>1, FailedProcess DEF Timeout, Kill
<1>4. worker' \in [Workers -> Processes]
  BY <1>1, <1>3 DEF MailTyped
<1>5. /\ LettersKept /\ Bring' = Bring
      /\ \A t \in Threads : /\ inflight'[t].got = inflight[t].got
                            /\ inflight'[t].from = inflight[t].from
      /\ Live' = {t \in Live : inflight[t].from # k}
      /\ \A op \in SentOps : /\ Answers(op)' = {t \in Answers(op) : inflight[t].from # k}
                             /\ Abandoned(op)' \subseteq Abandoned(op)
                                  \cup {t \in Live : /\ inflight[t].from = k
                                                     /\ Handles(t, op)
                                                     /\ inflight[t].got = None}
  BY <1>1, <1>2, Given
<1>6. LiveOnce'
  <2>1. \A t \in Live' : t \in Threads /\ worker'[inflight[t].from] = worker[inflight[t].from]
    BY <1>1, <1>3, <1>5 DEF LiveOnce, MailTyped, Live
  <2> QED
    BY <1>1, <1>5, <2>1 DEF LiveOnce
<1>7. MailTyped'
  BY <1>1, <1>2, <1>4, <1>5 DEF MailTyped, LettersKept
<1>8. Consumed' = Consumed
  BY <1>2 DEF Consumed, vars
<1>9. OneWay'
  BY <1>1, <1>2, <1>5, <1>8, WaysKept DEF Bring
<1>10. \/ X = {}
       \/ n = 1 /\ \E t \in Threads : X = {t}
  <2>1. ASSUME NEW t \in X
        PROVE  n = 1 /\ X = {t}
    BY <1>1 DEF LiveOnce, Live
  <2> QED
    BY <2>1 DEF Live
<1>11. /\ IsFiniteSet(A) /\ IsFiniteSet(B) /\ Cardinality(A) + Cardinality(B) <= n
       /\ IsFiniteSet(S) /\ Cardinality(S) + Cardinality(B) <= n
       /\ Cardinality(S) \in Nat
  <2>1. CASE X = {}
    <3>1. A = {} /\ B = {} /\ S = {}
      BY <2>1
    <3> HIDE DEF A, B, S
    <3> QED
      BY <1>2, <3>1, FS_EmptySet
  <2>2. ASSUME NEW t \in Threads, n = 1, X = {t}
        PROVE  /\ IsFiniteSet(A) /\ IsFiniteSet(B) /\ Cardinality(A) + Cardinality(B) <= n
               /\ IsFiniteSet(S) /\ Cardinality(S) + Cardinality(B) <= n
               /\ Cardinality(S) \in Nat
    <3>1. CASE inflight[t].got = None
      <4>1. A = {} /\ B = {t} /\ S = {}
        BY <2>2, <3>1 DEF Answers
      <4>2. IsFiniteSet({t}) /\ Cardinality({t}) = 1 /\ IsFiniteSet({}) /\ Cardinality({}) = 0
        BY Singles
      <4> HIDE DEF A, B, S, n
      <4> QED
        BY <2>2, <4>1, <4>2
    <3>2. CASE inflight[t].got # None
      <4> DEFINE g == inflight[t].got
      <4>1. A = {g} /\ B = {} /\ (S = {} \/ S = {t})
        BY <2>2, <3>2
      <4>2. /\ IsFiniteSet({t}) /\ Cardinality({t}) = 1
            /\ IsFiniteSet({g}) /\ Cardinality({g}) = 1
            /\ IsFiniteSet({}) /\ Cardinality({}) = 0
        BY Singles
      <4> HIDE DEF A, B, S, n, g
      <4>3. Cardinality(A) = 1 /\ Cardinality(B) = 0 /\ IsFiniteSet(A) /\ IsFiniteSet(B)
        BY <4>1, <4>2
      <4>4. IsFiniteSet(S) /\ Cardinality(S) \in {0, 1}
        BY <4>1, <4>2
      <4> QED
        BY <2>2, <4>3, <4>4
    <3> QED
      BY <3>1, <3>2
  <2> QED
    BY <1>10, <2>1, <2>2
<1>12. Lost' \subseteq Lost \cup A
  <2>1. Arrived' = Arrived
    BY <1>2 DEF Arrived
  <2>2. Answers("consume")' = {t \in Answers("consume") : inflight[t].from # k}
    BY <1>5 DEF SentOps
  <2>3. Coming \subseteq Coming' \cup A
    <3>1. ASSUME NEW t \in Answers("consume")
          PROVE  inflight[t].got \in Coming' \cup A
      <4>1. CASE inflight[t].from = k
        BY <4>1 DEF Answers, Live
      <4>2. CASE inflight[t].from # k
        <5>1. t \in Answers("consume")' /\ inflight'[t].got = inflight[t].got
          BY <1>5, <2>2, <4>2 DEF Answers
        <5> QED
          BY <5>1 DEF Coming
      <4> QED
        BY <4>1, <4>2
    <3> QED
      BY <3>1 DEF Coming
  <2> QED
    BY <1>8, <2>1, <2>3 DEF Lost
<1>13. /\ Abandoned("consume")' \subseteq Abandoned("consume") \cup B
       /\ Abandoned("send")' \subseteq Abandoned("send") \cup B
  BY <1>5 DEF SentOps
<1>14. Extra' = Extra + Cardinality(S)
  <2>1. Answers("send")' = Answers("send") \ S /\ S \subseteq Answers("send")
    BY <1>5 DEF SentOps, Answers, Live
  <2>2. Cardinality(Answers("send")') = Cardinality(Answers("send")) - Cardinality(S)
    <3>1. IsFiniteSet(Answers("send"))
      BY <1>1, FiniteRequests
    <3>2. S = {} \/ \E t \in Threads : S = {t}
      BY <1>10
    <3> HIDE DEF S
    <3>3. CASE S = {}
      BY <2>1, <3>1, <3>3, FS_EmptySet, FS_CardinalityType
    <3>4. ASSUME NEW t \in Threads, S = {t}
          PROVE  Cardinality(Answers("send")') = Cardinality(Answers("send")) - Cardinality(S)
      <4>1. Cardinality({t}) = 1 /\ t \in Answers("send")
        BY <2>1, <3>4, Singles
      <4>2. Cardinality(Answers("send") \ {t}) = Cardinality(Answers("send")) - 1
        BY <3>1, <4>1, OneMore
      <4> QED
        BY <2>1, <3>4, <4>1, <4>2
    <3> QED
      BY <3>2, <3>3, <3>4
  <2>3. Cardinality(Answers("send")) \in Nat /\ Len(signals) \in Nat
    BY <1>1, FiniteRequests, FS_CardinalityType DEF SentOps
  <2> HIDE DEF S
  <2> QED
    BY <1>1, <1>2, <1>11, <2>2, <2>3 DEF Extra, vars, MailTyped
<1> HIDE DEF A, B, S, X, n
<1>15. n \in Nat
  BY <1>2
<1>16. Cardinality(Lost') + Cardinality(Abandoned("consume")') <= failures'
  BY <1>1, <1>2, <1>11, <1>12, <1>13, <1>15, ConsumeBudget
<1>17. Extra' >= 0 /\ Extra' + Cardinality(Abandoned("send")') <= failures'
  BY <1>1, <1>2, <1>11, <1>13, <1>14, <1>15, SendBudget
<1> QED
  BY <1>2, <1>6, <1>7, <1>9, <1>16, <1>17 DEF MailStep, Counted

\* A request that has no answer yet is gone, and its process has failed.
LEMMA RequestFails ==
  ASSUME MailInv, NEW t \in Threads, inflight[t].got = None,
         inflight' = [inflight EXCEPT ![t] = NoRequest],
         worker' = IF inflight[t].live
                   THEN [worker EXCEPT ![inflight[t].from] = AttemptFailed(@)] ELSE worker,
         UNCHANGED vars, UNCHANGED history
  PROVE  MailStep
<1> DEFINE p == AttemptFailed(worker[inflight[t].from])
<1>1. MailTyped /\ LiveOnce
  BY DEF MailInv
<1>2. t \in Live => p \in Processes
  BY <1>1, FailedProcess DEF LiveOnce, MailTyped
<1>3. worker' = IF inflight[t].live THEN [worker EXCEPT ![inflight[t].from] = p] ELSE worker
  <2>1. inflight[t].live => inflight[t].from \in Workers
    BY <1>1 DEF LiveOnce, Live
  <2> QED
    BY <1>1, <2>1 DEF MailTyped
<1> HIDE DEF p
<1>4. worker' \in [Workers -> Processes] /\ LiveOnce'
  BY <1>1, <1>2, <1>3, DroppedProcess
<1>5. /\ LettersKept
      /\ \A u \in Threads \ {t} : inflight'[u] = inflight[u]
      /\ Bring' = Bring \ {t}
      /\ \A op \in SentOps : /\ Answers(op)' = Answers(op) \ {t}
                             /\ Abandoned(op)' = Abandoned(op) \ {t}
  BY <1>1, Dropped
<1>6. t \notin Bring /\ \A op \in SentOps : t \notin Answers(op)
  BY DEF Bring, Answers
<1>7. \A u \in Bring \cup Answers("consume") : u \in Threads \ {t}
  BY <1>6 DEF Bring, Answers, SentOps
<1>8. Bring' = Bring /\ \A u \in Bring \cup Answers("consume") : inflight'[u].got = inflight[u].got
  BY <1>5, <1>6, <1>7
<1>9. \A op \in SentOps : Answers(op)' = Answers(op) /\ Abandoned(op)' \subseteq Abandoned(op)
  BY <1>5, <1>6
<1> QED
  BY <1>4, <1>5, <1>8, <1>9, QuietRequests DEF MailStep, vars

LEMMA LosesRequest ==
  ASSUME MailInv, NEW t \in Threads, Lose(t) \/ Refuse(t), inflight[t].got = None,
         UNCHANGED history
  PROVE  MailStep
BY RequestFails DEF Lose, Refuse

\* A signal is stored, or there is no workflow to send it to.
LEMMA HandlesSend ==
  ASSUME MailInv, NEW t \in Threads, HandleSend(t)
  PROVE  MailStep
<1> DEFINE w == inflight[t].wf  n == Len(signals)
<1>1. MailTyped /\ LiveOnce /\ OneWay /\ Counted /\ TypeOK /\ clock \in Nat
  BY BoundAssumption DEF MailInv, IInv, TypeOK
<1>2. CASE ~Exists(w) /\ Refuse(t) /\ UNCHANGED history
  BY <1>2, LosesRequest DEF HandleSend
<1>3. CASE SendSignal(w) /\ Done(t, Len(signals'))
  <2> DEFINE row(now) == [wf |-> w, created |-> now, consumed |-> FALSE]
  <2>1. PICK now \in Nat : signals' = Append(signals, row(now))
    <3>1. PICK now \in Nows : signals' = Append(signals, row(now))
      BY <1>3 DEF SendSignal
    <3> HIDE DEF row
    <3> QED
      BY <1>1, <3>1 DEF Nows
  <2>2. n \in Nat /\ DOMAIN signals = 1..n
    BY <1>1, LenProperties DEF TypeOK
  <2>3. /\ Len(signals') = n + 1 /\ DOMAIN signals' = 1..(n + 1)
        /\ \A i \in 1..n : signals'[i] = signals[i]
        /\ ~signals'[n + 1].consumed
    BY <1>1, <2>1, <2>2 DEF TypeOK
  <2>4. Consumed' = Consumed
    BY <2>2, <2>3 DEF Consumed
  <2>5. /\ inflight' = [inflight EXCEPT ![t].got = n + 1]
        /\ UNCHANGED worker /\ UNCHANGED history
        /\ Handles(t, "send") /\ inflight[t].got = None
    BY <1>3, <2>3 DEF Done, HandleSend
  <2>6. /\ LettersKept /\ Live' = Live
        /\ \A u \in Threads \ {t} : inflight'[u] = inflight[u]
        /\ inflight'[t].got = n + 1 /\ inflight'[t].from = inflight[t].from
        /\ Bring' = Bring /\ t \notin Bring /\ t \notin Answers("send")
        /\ Answers("send")' = IF t \in Live THEN Answers("send") \cup {t} ELSE Answers("send")
        /\ t \in Live \/ t \in Abandoned("send")
        /\ \A op \in SentOps : /\ Abandoned(op)' = Abandoned(op) \ {t}
                               /\ op # "send" => Answers(op)' = Answers(op)
    <3>1. "send" \in SentOps /\ n + 1 \in Nat /\ "send" # "consume"
      BY <2>2 DEF SentOps
    <3> HIDE DEF n
    <3> QED
      BY <1>1, <2>5, <3>1, Answered
  <2>7. MailTyped' /\ LiveOnce'
    <3>1. \A u \in Threads : inflight'[u].from = inflight[u].from
      BY <2>6
    <3> QED
      BY <1>1, <2>5, <2>6, <3>1 DEF MailTyped, LettersKept, LiveOnce, history, Live
  <2>8. \A u \in Bring \cup Answers("consume") : inflight'[u].got = inflight[u].got
    <3>1. t \notin Answers("consume")
      BY <2>5 DEF Answers, Handles
    <3> QED
      BY <2>6, <3>1 DEF Bring, Answers
  <2>9. OneWay'
    BY <1>1, <2>4, <2>5, <2>6, <2>8, WaysKept DEF history
  <2>10. Answers("consume")' = Answers("consume") /\ Abandoned("consume")' = Abandoned("consume") \ {t}
         /\ Abandoned("send")' = Abandoned("send") \ {t}
    BY <2>6 DEF SentOps
  <2>11. /\ Lost' \subseteq Lost
         /\ Abandoned("consume")' \subseteq Abandoned("consume") \cup {}
    BY <2>4, <2>5, <2>8, <2>10, NothingLost DEF history
  <2>12. failures' = failures + 0
    BY <1>1, <2>5 DEF history, MailTyped
  <2>13. Cardinality(Lost') + Cardinality(Abandoned("consume")') <= failures'
    <3>1. Lost' \subseteq Lost \cup {} /\ Cardinality({}) + Cardinality({}) <= 0
          /\ IsFiniteSet({})
      BY <2>11, FS_EmptySet
    <3> QED
      BY <1>1, <2>11, <2>12, <3>1, ConsumeBudget
  <2>14. Extra' >= 0 /\ Extra' + Cardinality(Abandoned("send")') <= failures'
    <3>1. IsFiniteSet(Answers("send")) /\ IsFiniteSet(Abandoned("send"))
      BY <1>1, FiniteRequests DEF SentOps
    <3>2. /\ Cardinality(Answers("send")) \in Nat /\ Cardinality(Abandoned("send")) \in Nat
          /\ Cardinality(Answers("send") \cup {t}) = Cardinality(Answers("send")) + 1
          /\ IF t \in Abandoned("send")
             THEN Cardinality(Abandoned("send") \ {t}) = Cardinality(Abandoned("send")) - 1
             ELSE Abandoned("send") \ {t} = Abandoned("send")
      BY <2>6, <3>1, OneMore
    <3> DEFINE a == Cardinality(Answers("send"))
               b == Cardinality(Answers("send")')
               c == Cardinality(Abandoned("send"))
               d == Cardinality(Abandoned("send")')
               m == Len(signals')
    <3>3. Extra' = m - returned' - b
      BY DEF Extra
    <3>4. Extra = n - returned - a
      BY DEF Extra
    <3>5. /\ m = n + 1 /\ returned' = returned
          /\ a \in Nat /\ c \in Nat /\ n \in Nat /\ returned \in Nat /\ failures \in Nat
          /\ Extra >= 0 /\ Extra + c <= failures
      BY <1>1, <2>2, <2>3, <2>5, <3>2 DEF history, Counted, MailTyped
    <3>6. /\ b = IF t \in Live THEN a + 1 ELSE a
          /\ d = IF t \in Abandoned("send") THEN c - 1 ELSE c
      BY <2>6, <2>10, <3>2
    <3>7. t \in Live \/ t \in Abandoned("send")
      BY <2>6
    <3> HIDE DEF a, b, c, d, m, n
    <3>8. Extra' >= 0 /\ Extra' + d <= failures'
      BY <2>12, <3>3, <3>4, <3>5, <3>6, <3>7
    <3> QED
      BY <3>8 DEF d
  <2>15. [Next]_vars
    <3>1. w \in Workflows
      <4>1. inflight[t] \in Letters
        BY <1>1 DEF MailTyped
      <4> QED
        BY <2>5, <4>1 DEF Handles, Letters, SentOps
    <3> QED
      BY <1>3, <3>1 DEF Next, ClientStep
  <2> QED
    BY <2>7, <2>9, <2>13, <2>14, <2>15 DEF MailStep, Counted
<1> QED
  BY <1>2, <1>3 DEF HandleSend

\* Nothing but the answer to request t changes, and the answer is a number.
LEMMA AnswersRequest ==
  ASSUME MailInv, NEW t \in Threads, NEW o \in SentOps, NEW value \in Nat,
         Handles(t, o), inflight[t].got = None, Done(t, value)
  PROVE  /\ MailTyped' /\ LiveOnce'
         /\ inflight'[t].got = value
         /\ \A u \in Threads \ {t} : inflight'[u] = inflight[u]
         /\ Bring' = IF o = "consume" /\ value # NoSignal THEN Bring \cup {t} ELSE Bring
         /\ t \notin Bring /\ t \notin Answers(o)
         /\ Answers(o)' = IF t \in Live THEN Answers(o) \cup {t} ELSE Answers(o)
         /\ t \in Live \/ t \in Abandoned(o)
         /\ \A op \in SentOps : /\ Abandoned(op)' = Abandoned(op) \ {t}
                                /\ op # o => Answers(op)' = Answers(op)
<1>1. MailTyped /\ LiveOnce
  BY DEF MailInv
<1>2. /\ inflight' = [inflight EXCEPT ![t].got = value]
      /\ UNCHANGED worker /\ UNCHANGED history
  BY DEF Done
<1>3. /\ LettersKept /\ Live' = Live
      /\ \A u \in Threads \ {t} : inflight'[u] = inflight[u]
      /\ inflight'[t].got = value /\ inflight'[t].from = inflight[t].from
      /\ Bring' = IF o = "consume" /\ value # NoSignal THEN Bring \cup {t} ELSE Bring
      /\ t \notin Bring /\ t \notin Answers(o)
      /\ Answers(o)' = IF t \in Live THEN Answers(o) \cup {t} ELSE Answers(o)
      /\ t \in Live \/ t \in Abandoned(o)
      /\ \A op \in SentOps : /\ Abandoned(op)' = Abandoned(op) \ {t}
                             /\ op # o => Answers(op)' = Answers(op)
  BY <1>1, <1>2, Answered
<1>4. \A u \in Threads : inflight'[u].from = inflight[u].from
  BY <1>3
<1>5. MailTyped' /\ LiveOnce'
  BY <1>1, <1>2, <1>3, <1>4 DEF MailTyped, LettersKept, LiveOnce, history, Live
<1> QED
  BY <1>3, <1>5

\* A signal is consumed, or there is none.
LEMMA HandlesConsume ==
  ASSUME MailInv, NEW t \in Threads, HandleConsume(t)
  PROVE  MailStep
<1> DEFINE w == inflight[t].wf
<1>1. MailTyped /\ LiveOnce /\ OneWay /\ Counted /\ TypeOK
      /\ Handles(t, "consume") /\ inflight[t].got = None /\ "consume" \in SentOps
      /\ "send" \in SentOps /\ NoSignal \in Nat
  BY DEF MailInv, IInv, HandleConsume, SentOps, NoSignal
<1>2. w \in Workflows
  BY <1>1 DEF MailTyped, Letters, Handles
<1>3. /\ IsFiniteSet({}) /\ Cardinality({}) = 0
      /\ failures' = failures + 0 /\ Extra \in Int
      /\ UNCHANGED <<returned, delivered>>
  <2>1. UNCHANGED history
    BY DEF HandleConsume, Done
  <2>2. Extra \in Int
    BY <1>1, FiniteRequests, FS_CardinalityType DEF Extra, MailTyped
  <2> QED
    BY <1>1, <2>1, <2>2, FS_EmptySet DEF history, MailTyped
<1>4. CASE UNCHANGED vars /\ Done(t, NoSignal)
  <2>1. /\ MailTyped' /\ LiveOnce'
        /\ \A u \in Threads \ {t} : inflight'[u] = inflight[u]
        /\ Bring' = Bring /\ t \notin Bring /\ t \notin Answers("consume")
        /\ Answers("consume")' = IF t \in Live THEN Answers("consume") \cup {t}
                                 ELSE Answers("consume")
        /\ Abandoned("consume")' \subseteq Abandoned("consume") \cup {}
        /\ Abandoned("send")' \subseteq Abandoned("send") \cup {}
        /\ Answers("send")' = Answers("send")
    BY <1>1, <1>4, AnswersRequest
  <2>2. Consumed' = Consumed /\ Len(signals') = Len(signals)
    BY <1>4 DEF Consumed, vars
  <2>3. OneWay'
    BY <1>1, <1>3, <2>1, <2>2, WaysKept DEF Bring
  <2>4. Lost' \subseteq Lost \cup {}
    BY <1>3, <2>1, <2>2, NothingLost DEF Answers
  <2>5. Cardinality(Lost') + Cardinality(Abandoned("consume")') <= failures'
    BY <1>1, <1>3, <2>1, <2>4, ConsumeBudget
  <2>6. Extra' = Extra + 0
    BY <1>3, <2>1, <2>2 DEF Extra
  <2>7. Extra' >= 0 /\ Extra' + Cardinality(Abandoned("send")') <= failures'
    BY <1>1, <1>3, <2>1, <2>6, SendBudget
  <2> QED
    BY <1>4, <2>1, <2>3, <2>5, <2>7 DEF MailStep, Counted
<1>5. ASSUME NEW i \in DOMAIN signals, TakeSignal(w, i), Done(t, i)
      PROVE  MailStep
  <2>1. /\ Len(signals') = Len(signals) /\ Consumed' = Consumed \cup {i}
        /\ i \notin Consumed /\ i \in Nat /\ i # NoSignal
    <3>1. signals \in Seq(SignalRow) /\ ~signals[i].consumed
          /\ signals' = [signals EXCEPT ![i].consumed = TRUE]
      BY <1>1, <1>5 DEF TypeOK, TakeSignal, OldestSignals, PendingSignals
    <3>2. Len(signals') = Len(signals) /\ DOMAIN signals' = DOMAIN signals
          /\ DOMAIN signals = 1..Len(signals) /\ Len(signals) \in Nat
      BY <3>1, LenProperties
    <3>3. /\ signals'[i].consumed
          /\ \A j \in DOMAIN signals : j # i => signals'[j] = signals[j]
      <4>1. signals[i] \in SignalRow
        BY <3>1, <3>2
      <4> QED
        BY <3>1, <4>1 DEF SignalRow
    <3> QED
      BY <1>5, <3>1, <3>2, <3>3 DEF Consumed, NoSignal
  <2>2. /\ MailTyped' /\ LiveOnce'
        /\ inflight'[t].got = i
        /\ \A u \in Threads \ {t} : inflight'[u] = inflight[u]
        /\ Bring' = Bring \cup {t} /\ t \notin Bring /\ t \notin Answers("consume")
        /\ Answers("consume")' = IF t \in Live THEN Answers("consume") \cup {t}
                                 ELSE Answers("consume")
        /\ t \in Live \/ t \in Abandoned("consume")
        /\ Abandoned("consume")' = Abandoned("consume") \ {t}
        /\ Abandoned("send")' \subseteq Abandoned("send") \cup {}
        /\ Answers("send")' = Answers("send")
    BY <1>1, <1>5, <2>1, AnswersRequest
  <2>3. OneWay'
    <3>1. /\ Arrived' = Arrived /\ DeliveredOnce' = DeliveredOnce
      BY <1>3 DEF Arrived, DeliveredOnce
    <3>2. \A u \in Bring : u \in Threads \ {t} /\ inflight'[u] = inflight[u]
      BY <2>2 DEF Bring
    <3>3. i \notin Arrived /\ \A u \in Bring : inflight[u].got # i
      BY <1>1, <2>1 DEF OneWay
    <3> QED
      BY <1>1, <2>1, <2>2, <3>1, <3>2, <3>3 DEF OneWay
  <2>4. Arrived' = Arrived /\ Coming \subseteq Coming'
    <3>1. \A u \in Answers("consume") : u \in Answers("consume")' /\ inflight'[u] = inflight[u]
      BY <2>2 DEF Answers
    <3> QED
      BY <1>3, <3>1 DEF Arrived, Coming
  <2>5. Cardinality(Lost') + Cardinality(Abandoned("consume")') <= failures'
    <3>1. CASE t \in Live
      <4>1. i \in Coming'
        BY <2>2, <3>1 DEF Coming
      <4>2. Lost' \subseteq Lost \cup {}
        BY <2>1, <2>4, <4>1 DEF Lost
      <4>3. Abandoned("consume")' \subseteq Abandoned("consume") \cup {}
        BY <2>2
      <4> QED
        BY <1>1, <1>3, <4>2, <4>3, ConsumeBudget
    <3>2. CASE t \in Abandoned("consume")
      <4>1. Lost' \subseteq Lost \cup {i}
        BY <2>1, <2>4 DEF Lost
      <4>2. IsFiniteSet(Lost) /\ IsFiniteSet(Abandoned("consume"))
        BY <1>1, FiniteRequests
      <4>3. IsFiniteSet({i}) /\ Cardinality({i}) = 1
        BY Singles
      <4>4. /\ Cardinality(Lost') <= Cardinality(Lost) + 1
            /\ Cardinality(Lost') \in Nat /\ Cardinality(Lost) \in Nat
        BY <4>1, <4>2, <4>3, Gains
      <4>5. /\ Cardinality(Abandoned("consume")') = Cardinality(Abandoned("consume")) - 1
            /\ Cardinality(Abandoned("consume")) \in Nat
        BY <2>2, <3>2, <4>2, OneMore
      <4> QED
        BY <1>1, <1>3, <4>4, <4>5 DEF Counted, MailTyped
    <3> QED
      BY <2>2, <3>1, <3>2
  <2>6. Extra' = Extra + 0
    BY <1>3, <2>1, <2>2 DEF Extra
  <2>7. Extra' >= 0 /\ Extra' + Cardinality(Abandoned("send")') <= failures'
    BY <1>1, <1>3, <2>2, <2>6, SendBudget
  <2>8. [Next]_vars
    BY <1>2, <1>5 DEF Next, ClientStep, ConsumeSignal
  <2> QED
    BY <2>2, <2>3, <2>5, <2>7, <2>8 DEF MailStep, Counted
<1> QED
  BY <1>4, <1>5 DEF HandleConsume

\* The answer arrives, at a process that waits for it or at none.
LEMMA Returns ==
  ASSUME MailInv, NEW t \in Threads, Return(t)
  PROVE  MailStep
<1> DEFINE r == inflight[t]
           sent == r.live /\ r.call.op = "send"
           got == r.live /\ r.call.op = "consume" /\ r.got # NoSignal
<1>1. MailTyped /\ LiveOnce /\ OneWay /\ Counted /\ TypeOK
  BY DEF MailInv, IInv
<1>2. /\ r.got # None /\ r \in Letters /\ "send" \in SentOps /\ "consume" \in SentOps
      /\ inflight' = [inflight EXCEPT ![t] = NoRequest]
      /\ worker' = IF r.live THEN [worker EXCEPT ![r.from] = NotRunning("new")] ELSE worker
      /\ returned' = IF sent THEN returned + 1 ELSE returned
      /\ delivered' = IF got THEN Append(delivered, r.got) ELSE delivered
      /\ UNCHANGED vars /\ failures' = failures
  BY <1>1 DEF Return, MailTyped, SentOps
<1>3. worker' \in [Workers -> Processes] /\ LiveOnce'
  <2>1. NotRunning("new") \in Processes
    BY DEF NotRunning, Processes, NoCall, Call, MailCalls, SentOps
  <2> HIDE DEF r
  <2> QED
    BY <1>1, <1>2, <2>1, DroppedProcess DEF r
<1>4. /\ LettersKept
      /\ \A u \in Threads \ {t} : inflight'[u] = inflight[u]
      /\ Bring' = Bring \ {t}
      /\ Answers("send")' = Answers("send") \ {t}
      /\ Answers("consume")' = Answers("consume") \ {t}
      /\ Abandoned("send")' \subseteq Abandoned("send") \cup {}
      /\ Abandoned("consume")' \subseteq Abandoned("consume") \cup {}
  BY <1>1, <1>2, Dropped
<1>5. /\ r.got \in Nat
      /\ t \in Answers("send") <=> sent
      /\ got <=> t \in Answers("consume") /\ t \in Bring
      /\ t \in Answers("consume") /\ ~got => r.got = NoSignal
  BY <1>2 DEF Letters, Answers, Bring, Handles, Live
<1> HIDE DEF sent, got
<1>6. delivered' \in Seq(Nat) /\ delivered \in Seq(Nat)
  BY <1>1, <1>2, <1>5 DEF MailTyped
<1>7. MailTyped'
  BY <1>1, <1>2, <1>3, <1>4, <1>6 DEF MailTyped, LettersKept
<1>8. Consumed' = Consumed /\ Len(signals') = Len(signals)
  BY <1>2 DEF Consumed, vars
<1>9. Arrived' = IF got THEN Arrived \cup {r.got} ELSE Arrived
  <2>1. CASE got
    <3>1. /\ DOMAIN delivered = 1..Len(delivered) /\ Len(delivered) \in Nat
          /\ DOMAIN delivered' = 1..(Len(delivered) + 1)
          /\ delivered'[Len(delivered) + 1] = r.got
          /\ \A i \in 1..Len(delivered) : delivered'[i] = delivered[i]
      BY <1>2, <1>5, <1>6, <2>1, AppendProperties, LenProperties
    <3> HIDE DEF r
    <3> QED
      BY <2>1, <3>1 DEF Arrived
  <2>2. CASE ~got
    BY <1>2, <2>2 DEF Arrived
  <2> QED
    BY <2>1, <2>2
<1>10. OneWay'
  <2>1. CASE got
    <3>1. /\ DOMAIN delivered = 1..Len(delivered) /\ Len(delivered) \in Nat
          /\ DOMAIN delivered' = 1..(Len(delivered) + 1)
          /\ delivered'[Len(delivered) + 1] = r.got
          /\ \A i \in 1..Len(delivered) : delivered'[i] = delivered[i]
      BY <1>2, <1>5, <1>6, <2>1, AppendProperties, LenProperties
    <3>2. r.got \in Consumed \ Arrived
      BY <1>1, <1>5, <2>1 DEF OneWay
    <3>3. \A i \in 1..Len(delivered) : delivered[i] # r.got
      BY <3>1, <3>2 DEF Arrived
    <3>4. DeliveredOnce'
      BY <1>1, <3>1, <3>3 DEF OneWay, DeliveredOnce
    <3>5. \A u \in Bring \ {t} : inflight'[u] = inflight[u] /\ inflight[u].got # r.got
      BY <1>1, <1>4, <1>5, <2>1 DEF OneWay, Bring
    <3> QED
      BY <1>1, <1>4, <1>8, <1>9, <2>1, <3>2, <3>4, <3>5 DEF OneWay
  <2>2. CASE ~got
    <3>1. \A u \in Bring' : inflight'[u].got = inflight[u].got
      BY <1>4 DEF Bring
    <3> QED
      BY <1>1, <1>2, <1>4, <1>8, <2>2, <3>1, WaysKept
  <2> QED
    BY <2>1, <2>2
<1>11. Lost' \subseteq Lost \cup {}
  <2>1. Coming \subseteq Coming' \cup {r.got}
    <3>1. \A u \in Answers("consume") \ {t} : inflight'[u] = inflight[u]
      BY <1>4 DEF Answers
    <3> QED
      BY <1>4, <3>1 DEF Coming
  <2>2. CASE t \in Answers("consume")
    <3>1. NoSignal \notin Consumed
      <4>1. DOMAIN signals = 1..Len(signals) /\ Len(signals) \in Nat
        BY <1>1, LenProperties DEF TypeOK
      <4> QED
        BY <4>1 DEF Consumed, NoSignal
    <3> QED
      BY <1>5, <1>8, <1>9, <2>1, <2>2, <3>1 DEF Lost
  <2>3. CASE t \notin Answers("consume")
    <3>1. Coming \subseteq Coming'
      BY <1>4, <2>3 DEF Coming, Answers
    <3> QED
      BY <1>8, <1>9, <3>1 DEF Lost
  <2> QED
    BY <2>2, <2>3
<1>12. /\ IsFiniteSet({}) /\ Cardinality({}) = 0
       /\ failures' = failures + 0 /\ Extra \in Int
  <2>1. Extra \in Int
    BY <1>1, <1>2, FiniteRequests, FS_CardinalityType DEF Extra, MailTyped
  <2> QED
    BY <1>1, <1>2, <2>1, FS_EmptySet DEF MailTyped
<1>13. Cardinality(Lost') + Cardinality(Abandoned("consume")') <= failures'
  BY <1>1, <1>4, <1>11, <1>12, ConsumeBudget
<1>14. Extra' = Extra + 0
  <2> DEFINE a == Cardinality(Answers("send"))
             b == Cardinality(Answers("send")')
             n == Len(signals)
             m == Len(signals')
  <2>1. Extra' = m - returned' - b /\ Extra = n - returned - a
    BY DEF Extra
  <2>2. IsFiniteSet(Answers("send")) /\ n \in Nat /\ returned \in Nat
    BY <1>1, <1>2, FiniteRequests DEF MailTyped
  <2>3. a \in Nat /\ b = IF sent THEN a - 1 ELSE a
    BY <1>4, <1>5, <2>2, OneMore
  <2>4. m = n
    BY <1>8
  <2> HIDE DEF a, b, n, m
  <2> QED
    BY <1>2, <2>1, <2>2, <2>3, <2>4
<1>15. Extra' >= 0 /\ Extra' + Cardinality(Abandoned("send")') <= failures'
  BY <1>1, <1>4, <1>12, <1>14, SendBudget
<1> QED
  BY <1>2, <1>3, <1>7, <1>10, <1>13, <1>15 DEF MailStep, Counted

\* The image of the requests is no larger than their number.
LEMMA Gots ==
  ASSUME NEW S \in SUBSET Threads, IsFiniteSet(S)
  PROVE  LET T == {inflight[t].got : t \in S} IN
         IsFiniteSet(T) /\ Cardinality(T) <= Cardinality(S)
<1> DEFINE T == {inflight[t].got : t \in S}
           f == [t \in S |-> inflight[t].got]
<1>1. f \in Surjection(S, T)
  BY DEF Surjection
<1> QED
  BY <1>1, FS_Surjection

\* The server dies with all requests; every process that waited is told.
LEMMA Crashes ==
  ASSUME MailInv, ServerCrash, GiveUp(Cardinality(Live))
  PROVE  MailStep
<1> DEFINE n == Cardinality(Live)
           A == {inflight[t].got : t \in Answers("consume")}
           S == Answers("send")
<1>1. MailTyped /\ LiveOnce /\ OneWay /\ Counted /\ TypeOK
  BY DEF MailInv, IInv
<1>2. /\ inflight' = [t \in Threads |-> NoRequest] /\ Crash
      /\ failures' = failures + n /\ UNCHANGED <<returned, delivered>>
      /\ UNCHANGED signals
  BY DEF ServerCrash, GiveUp, Crash, tables
<1>3. worker' \in [Workers -> Processes]
  <2>1. \A k \in Workers : worker[k] \in Processes /\ AttemptFailed(worker[k]) \in Processes
    BY <1>1, FailedProcess DEF MailTyped
  <2> QED
    BY <2>1 DEF ServerCrash
<1>4. \A t \in Threads : inflight'[t] = NoRequest
  BY <1>2
<1>5. /\ Live' = {} /\ Bring' = {}
      /\ \A op \in SentOps : Answers(op)' = {} /\ Abandoned(op)' = {}
  BY <1>4 DEF Live, Bring, Answers, Abandoned, Handles, NoRequest, NoCall, Call, SentOps
<1>6. /\ IsFiniteSet(Live) /\ n \in Nat /\ IsFiniteSet(Answers("consume"))
      /\ IsFiniteSet(S) /\ Len(signals) \in Nat
      /\ IsFiniteSet(Abandoned("consume")) /\ IsFiniteSet(Abandoned("send"))
  BY <1>1, FiniteRequests, FS_CardinalityType DEF SentOps
<1>7. MailTyped'
  <2>1. NoRequest \in Letters
    BY DEF NoRequest, Letters, NoCall, Call, MailCalls, SentOps
  <2>2. {t \in Threads : inflight'[t] # NoRequest} = {}
    BY <1>4
  <2> QED
    <3>1. failures' \in Nat /\ returned' \in Nat /\ delivered' \in Seq(Nat)
      <4> HIDE DEF n
      <4> QED
        BY <1>1, <1>2, <1>6 DEF MailTyped
    <3>2. inflight' \in [Threads -> Letters]
      BY <1>2, <2>1
    <3> QED
      BY <1>3, <2>2, <3>1, <3>2, FS_EmptySet DEF MailTyped
<1>8. LiveOnce'
  BY <1>5 DEF LiveOnce
<1>9. Consumed' = Consumed
  BY <1>2 DEF Consumed
<1>10. OneWay'
  BY <1>1, <1>2, <1>5, <1>9, WaysKept
<1>11. /\ IsFiniteSet(A) /\ Cardinality(A) <= n /\ Cardinality(S) <= n
       /\ Cardinality(S) \in Nat /\ Cardinality(A) \in Nat
  <2>1. Answers("consume") \subseteq Live /\ S \subseteq Live
    BY DEF Answers, Live
  <2>2. IsFiniteSet(A) /\ Cardinality(A) <= Cardinality(Answers("consume"))
    BY <1>6, Gots DEF Answers
  <2>3. Cardinality(Answers("consume")) <= n /\ Cardinality(S) <= n
    BY <1>6, <2>1, FS_Subset
  <2>4. /\ Cardinality(Answers("consume")) \in Nat
        /\ Cardinality(S) \in Nat /\ Cardinality(A) \in Nat
    BY <1>6, <2>2, FS_CardinalityType
  <2> HIDE DEF A, S, n
  <2> QED
    BY <1>6, <2>2, <2>3, <2>4
<1>12. Lost' \subseteq Lost \cup A
  BY <1>2, <1>9 DEF Lost, Arrived, Coming
<1>13. IsFiniteSet({}) /\ Cardinality({}) = 0
  BY FS_EmptySet
<1>14. /\ Abandoned("consume")' \subseteq Abandoned("consume") \cup {}
       /\ Abandoned("send")' \subseteq Abandoned("send") \cup {}
       /\ Answers("send")' = {}
  BY <1>5 DEF SentOps
<1>15. Cardinality(A) + Cardinality({}) <= n /\ Cardinality(S) + Cardinality({}) <= n
  BY <1>6, <1>11, <1>13
<1>16. Extra' = Extra + Cardinality(S)
  <2>1. Extra' = Len(signals') - returned' - Cardinality(Answers("send")')
    BY DEF Extra
  <2>2. Extra = Len(signals) - returned - Cardinality(S)
    BY DEF Extra
  <2>3. Len(signals') = Len(signals) /\ returned' = returned /\ returned \in Nat
        /\ Cardinality(Answers("send")') = 0
    BY <1>1, <1>2, <1>13, <1>14 DEF MailTyped
  <2> DEFINE ln == Len(signals)  m == Len(signals')  c == Cardinality(S)
             d == Cardinality(Answers("send")')
  <2>4. ln \in Nat /\ c \in Nat /\ m = ln /\ d = 0
    BY <1>6, <1>11, <2>3
  <2>5. Extra' = m - returned' - d /\ Extra = ln - returned - c
    BY <2>1, <2>2
  <2> HIDE DEF ln, m, c, d
  <2>6. Extra' = Extra + c
    BY <2>3, <2>4, <2>5
  <2> QED
    BY <2>6 DEF c
<1> HIDE DEF A, S, n
<1>17. Cardinality(Lost') + Cardinality(Abandoned("consume")') <= failures'
  BY <1>1, <1>2, <1>6, <1>11, <1>12, <1>13, <1>14, <1>15, ConsumeBudget
<1>18. Extra' >= 0 /\ Extra' + Cardinality(Abandoned("send")') <= failures'
  BY <1>1, <1>2, <1>6, <1>11, <1>13, <1>14, <1>15, <1>16, SendBudget
<1> QED
  BY <1>2, <1>7, <1>8, <1>10, <1>17, <1>18 DEF MailStep, Counted, Next

-----------------------------------------------------------------------------
(* The mailbox *)

LEMMA MailInitInv == MailboxInit => MailInv
<1> SUFFICES ASSUME MailboxInit
             PROVE  MailInv
  OBVIOUS
<1>1. IInv /\ signals = <<>>
  BY InitInv DEF MailboxInit, Init
<1>2. /\ returned = 0 /\ delivered = <<>> /\ failures = 0
      /\ \A t \in Threads : inflight[t] = NoRequest
      /\ inflight = [t \in Threads |-> NoRequest]
      /\ worker = [k \in Workers |-> NotRunning("new")]
  BY DEF MailboxInit, ClientInit
<1>3. MailTyped
  <2>1. NoRequest \in Letters /\ NotRunning("new") \in Processes
    BY DEF NoRequest, Letters, NoCall, Call, MailCalls, SentOps, NotRunning, Processes
  <2>2. {t \in Threads : inflight[t] # NoRequest} = {}
    BY <1>2
  <2>3. delivered \in Seq(Nat)
    BY <1>2
  <2> QED
    BY <1>2, <2>1, <2>2, <2>3, FS_EmptySet DEF MailTyped
<1>4. /\ Live = {} /\ Bring = {}
      /\ Answers("send") = {} /\ Abandoned("send") = {} /\ Abandoned("consume") = {}
  BY <1>2 DEF Live, Bring, Answers, Abandoned, Handles, NoRequest, NoCall, Call
<1>5. Consumed = {} /\ Arrived = {} /\ Len(signals) = 0 /\ DOMAIN delivered = {}
  BY <1>1, <1>2 DEF Consumed, Arrived
<1>6. LiveOnce
  BY <1>4 DEF LiveOnce
<1>7. OneWay
  BY <1>4, <1>5 DEF OneWay, DeliveredOnce
<1>8. /\ Cardinality(Lost) = 0 /\ Cardinality(Answers("send")) = 0
      /\ Cardinality(Abandoned("send")) = 0 /\ Cardinality(Abandoned("consume")) = 0
  <2>1. Lost = {}
    BY <1>5 DEF Lost
  <2> QED
    BY <1>4, <2>1, FS_EmptySet
<1>9. Extra = 0
  <2>1. Extra = Len(signals) - returned - Cardinality(Answers("send"))
    BY DEF Extra
  <2> QED
    BY <1>2, <1>5, <1>8, <2>1
<1>10. Counted
  BY <1>2, <1>8, <1>9 DEF Counted
<1> QED
  BY <1>1, <1>3, <1>6, <1>7, <1>10 DEF MailInv

\* Every step keeps the invariant, and is a step of Engine or leaves its
\* state alone.
LEMMA MailboxStep == MailInv /\ [MailboxNext]_mailboxVars => MailInv' /\ [Next]_vars
<1> SUFFICES ASSUME MailInv, [MailboxNext]_mailboxVars
             PROVE  MailInv' /\ [Next]_vars
  OBVIOUS
<1>1. ASSUME NEW k \in Workers, Begin(k, "send") \/ Begin(k, "consume") \/ Again(k)
      PROVE  MailStep
  BY <1>1, SendsRequest
<1>2. ASSUME NEW t \in Threads, HandleSend(t) \/ HandleConsume(t) \/ Return(t)
      PROVE  MailStep
  BY <1>2, HandlesSend, HandlesConsume, Returns
<1>3. ASSUME Fail
      PROVE  MailStep
  <2>1. ASSUME NEW k \in Workers,
               \/ Timeout(k) /\ GiveUp(1)
               \/ Kill(k) /\ GiveUp(IF worker[k].pc = "await" THEN 1 ELSE 0)
        PROVE  MailStep
    BY <2>1, GivesUp
  <2>2. ASSUME NEW t \in Threads, Lose(t), UNCHANGED history
        PROVE  MailStep
    <3>1. inflight[t].got = None
      BY <2>2 DEF Lose
    <3> QED
      BY <2>2, <3>1, LosesRequest
  <2>3. ASSUME ServerCrash, GiveUp(Cardinality({t \in Threads : inflight[t].live}))
        PROVE  MailStep
    BY <2>3, Crashes DEF Live
  <2>4. \/ \E k \in Workers : Timeout(k) /\ GiveUp(1)
        \/ \E k \in Workers : Kill(k) /\ GiveUp(IF worker[k].pc = "await" THEN 1 ELSE 0)
        \/ ServerCrash /\ GiveUp(Cardinality({t \in Threads : inflight[t].live}))
        \/ \E t \in Threads : Lose(t) /\ UNCHANGED history
    BY <1>3 DEF Fail
  <2>5. CASE \E k \in Workers : Timeout(k) /\ GiveUp(1)
    BY <2>1, <2>5
  <2>6. CASE \E k \in Workers : Kill(k) /\ GiveUp(IF worker[k].pc = "await" THEN 1 ELSE 0)
    BY <2>1, <2>6
  <2> QED
    BY <2>2, <2>3, <2>4, <2>5, <2>6
<1>4. ASSUME UNCHANGED signals, UNCHANGED <<worker, inflight, history>>
      PROVE  MailTyped' /\ LiveOnce' /\ OneWay' /\ Counted'
  <2>1. /\ Live' = Live /\ Bring' = Bring
        /\ \A op \in SentOps : Answers(op)' = Answers(op) /\ Abandoned(op)' \subseteq Abandoned(op)
    BY <1>4 DEF Live, Bring, Answers, Abandoned, Handles
  <2>2. LettersKept /\ worker' \in [Workers -> Processes]
    BY <1>4 DEF MailInv, MailTyped, LettersKept
  <2>3. LiveOnce'
    BY <1>4, <2>1 DEF MailInv, LiveOnce
  <2> QED
    BY <1>4, <2>1, <2>2, <2>3, QuietRequests
<1>5. ASSUME Others
      PROVE  MailStep
  <2>1. UNCHANGED signals /\ [Next]_vars
    BY <1>5 DEF Others, PassSecond, CreateWorkflow, tables, notLeases, Next, ClientStep
  <2> QED
    BY <1>4, <1>5, <2>1 DEF Others, MailStep
<1>6. ASSUME UNCHANGED mailboxVars
      PROVE  MailStep
  BY <1>4, <1>6 DEF mailboxVars, vars, MailStep
<1>7. MailStep
  BY <1>1, <1>2, <1>3, <1>5, <1>6 DEF MailboxNext
<1>8. IInv'
  BY <1>7, NextInv DEF MailInv, MailStep
<1> QED
  BY <1>7, <1>8 DEF MailInv, MailStep

\* What every step of a process, a request, a handler or a crash preserves: the
\* engine's invariant, the ways of the signals and the counts of what was given up.
THEOREM MailboxInvariance == MailboxSpec => []MailInv
<1> QED
  BY MailInitInv, MailboxStep, PTL DEF MailboxSpec

\* What processes, the SDK and the handlers of the two signal routes do to the
\* tables is a behaviour of the engine: what is proved of Spec holds of it.
THEOREM MailboxImplementsEngine == MailboxSpec => Spec
<1>1. MailboxInit => Init
  BY DEF MailboxInit
<1> QED
  BY <1>1, MailInitInv, MailboxStep, PTL DEF MailboxSpec, Spec

\* consumeSignal returns no signal twice, however many processes consume,
\* however often the SDK repeats a call and whatever an abandoned attempt
\* still does.
THEOREM SignalsDeliveredOnce == MailboxSpec => []DeliveredOnce
<1>1. MailInv => DeliveredOnce
  BY DEF MailInv, OneWay
<1> QED
  BY <1>1, MailboxInvariance, PTL

\* There are never more consumed signals that reach nobody than attempts that
\* were given up on their way.
THEOREM SignalsLostByFailure == MailboxSpec => []LostOnlyByFailure
<1>1. MailInv => LostOnlyByFailure
  <2> SUFFICES ASSUME MailInv
               PROVE  LostOnlyByFailure
    OBVIOUS
  <2>1. IsFiniteSet(Lost) /\ IsFiniteSet(Abandoned("consume"))
    BY FiniteRequests DEF MailInv, IInv
  <2>2. Cardinality(Lost) \in Nat /\ Cardinality(Abandoned("consume")) \in Nat
    BY <2>1, FS_CardinalityType
  <2>3. Cardinality(Lost) <= failures
    BY <2>2 DEF MailInv, Counted, MailTyped
  <2> QED
    BY <2>3 DEF LostOnlyByFailure, Lost, Consumed, Arrived, Coming
<1> QED
  BY <1>1, MailboxInvariance, PTL

\* Each call of sendSignal that returned has stored its signal, and each row
\* beyond those is due to an attempt of its own that was given up.
THEOREM SignalsSentOnce == MailboxSpec => []SentOnceEach
<1>1. MailInv => SentOnceEach
  <2> SUFFICES ASSUME MailInv
               PROVE  SentOnceEach
    OBVIOUS
  <2>1. IsFiniteSet(Answers("send")) /\ IsFiniteSet(Abandoned("send")) /\ Len(signals) \in Nat
    BY FiniteRequests DEF MailInv, IInv
  <2>2. Cardinality(Answers("send")) \in Nat /\ Cardinality(Abandoned("send")) \in Nat
    BY <2>1, FS_CardinalityType
  <2>3. Extra \in Int /\ returned \in Nat /\ failures \in Nat
    BY <2>1, <2>2 DEF Extra, MailInv, MailTyped
  <2>4. Extra \in 0..failures
    BY <2>2, <2>3 DEF MailInv, Counted
  <2> QED
    BY <2>4 DEF SentOnceEach, Extra
<1> QED
  BY <1>1, MailboxInvariance, PTL
=============================================================================
