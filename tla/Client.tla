-------------------------------- MODULE Client ------------------------------
(***************************************************************************)
(* The TypeScript SDK, src/sdks/typescript/src/index.ts: what request()    *)
(* does with a call that a worker process makes, and the requests that are *)
(* on their way to the server or in one of its handlers.                   *)
(*                                                                         *)
(* request() repeats a call after any failure: no connection, a timeout    *)
(* that aborts the fetch, an answer that is an HTTP error.  The server     *)
(* does not notice an abort: the handler of an aborted attempt goes on,    *)
(* and may run after the handler of the next attempt.                      *)
(***************************************************************************)
EXTENDS Engine

CONSTANT SdkRetries   \* ClientOptions.maxRetries

ASSUME SdkAssumption == SdkRetries \in Nat

VARIABLES
  worker,    \* the worker processes, one per worker_id
  inflight   \* inflight[t]: the request that goroutine t handles or will handle

Call(op, arg) == [op |-> op, arg |-> arg]

NoCall == Call("none", 0)

NoRequest == [from |-> None, call |-> NoCall, wf |-> None, sent |-> 0,
              live |-> FALSE, got |-> None]

\* A process that is not running; pc tells whether it ever was.
NotRunning(pc) == [pc |-> pc, todo |-> "none", wf |-> None, next |-> 0,
                   until |-> 0, since |-> 0, call |-> NoCall, attempt |-> 0]

\* The process makes a call; since is its clock at that moment.
Calling(p, call) ==
  [p EXCEPT !.call = call, !.attempt = 0, !.since = clock]

\* An attempt has failed: once more, or request() throws and main() exits.
AttemptFailed(p) ==
  IF p.attempt < SdkRetries
  THEN [p EXCEPT !.pc = "again", !.attempt = @ + 1]
  ELSE NotRunning("exited")

ClientInit ==
  /\ worker = [k \in Workers |-> NotRunning("new")]
  /\ inflight = [t \in Threads |-> NoRequest]

\* fetch() sends the request of process p of worker k, which waits for its
\* answer: the request is live.
Fetch(k, p) ==
  /\ \E t \in Threads :
       /\ inflight[t] = NoRequest
       /\ inflight' = [inflight EXCEPT ![t] =
            [from |-> k, call |-> p.call, wf |-> p.wf, sent |-> clock,
             live |-> TRUE, got |-> None]]
  /\ worker' = [worker EXCEPT ![k] = [p EXCEPT !.pc = "await"]]
  /\ UNCHANGED vars

\* The next attempt, after retryDelay.
FetchAgain(k) == worker[k].pc = "again" /\ Fetch(k, worker[k])

\* Nobody waits for the attempts of k any more.
Abandon(k) ==
  inflight' = [t \in Threads |->
    IF inflight[t].from = k THEN [inflight[t] EXCEPT !.live = FALSE]
                            ELSE inflight[t]]

\* The fetch is aborted after its timeout, or its answer is lost.
Timeout(k) ==
  /\ worker[k].pc = "await"
  /\ worker' = [worker EXCEPT ![k] = AttemptFailed(@)]
  /\ Abandon(k)
  /\ UNCHANGED vars

\* The request is lost before a handler starts.
Lose(t) ==
  /\ inflight[t] # NoRequest /\ inflight[t].got = None /\ thread[t] = Idle
  /\ inflight' = [inflight EXCEPT ![t] = NoRequest]
  /\ worker' = IF inflight[t].live
                THEN [worker EXCEPT ![inflight[t].from] = AttemptFailed(@)]
                ELSE worker
  /\ UNCHANGED vars

\* The worker process is killed.
Kill(k) ==
  /\ worker[k].pc \in {"decide", "again", "await"}
  /\ worker' = [worker EXCEPT ![k] = NotRunning("exited")]
  /\ Abandon(k)
  /\ UNCHANGED vars

-----------------------------------------------------------------------------
(* The server's side of a request *)

Handles(t, op) == inflight[t].call.op = op

\* writeError: the engine call returned an error and changed nothing.
Refuse(t) ==
  LET r == inflight[t] IN
  /\ inflight' = [inflight EXCEPT ![t] = NoRequest]
  /\ worker' = IF r.live THEN [worker EXCEPT ![r.from] = AttemptFailed(@)]
                          ELSE worker
  /\ UNCHANGED vars

\* The server dies with its requests; who waits for one sees the connection
\* break.
ServerCrash ==
  /\ Crash
  /\ inflight' = [t \in Threads |-> NoRequest]
  /\ worker' = [k \in Workers |->
       IF worker[k].pc = "await" THEN AttemptFailed(worker[k]) ELSE worker[k]]
=============================================================================
