--------------------------- MODULE ProverService ---------------------------
(***************************************************************************)
(* The plonky2 prover service (src/commands/service.rs): its handler of     *)
(* /prove behind a concurrency limit of one, the query of the trusted block *)
(* with its retries and sleeps (tendermint_client.rs), the circuits, and    *)
(* the call of the gnark service (gnark_verifier.rs).                       *)
(*                                                                          *)
(* Time is what the handler sleeps, in seconds.                             *)
(***************************************************************************)
EXTENDS Integers, SequencesExt

CONSTANTS
    Clients,      \* callers; each has one request at a time
    Gaps,         \* target_height - trusted_height of the requests
    SkipMax,      \* SKIP_MAX of tendermintx
    StepEnabled,  \* the feature "step"
    Retries       \* 10 in the code

Nobody == "nobody"

ASSUME ServiceAssumption ==
    /\ Gaps \subseteq Int /\ SkipMax \in Nat /\ Retries \in Nat
    /\ StepEnabled \in BOOLEAN
    /\ Nobody \notin Clients

\* What 2u64.pow computes, which the provers do not know of.
ASSUME PowersOfTwo ==
    \A n \in 0 .. Retries : 2 ^ n \in Nat \ {0} /\ 2 ^ (n + 1) = 2 * 2 ^ n

VARIABLES
    requests,  \* client -> its request
    queue,     \* requests that wait for the permit, in order
    permit     \* the request that has it

vars == << requests, queue, permit >>

None == [pc |-> "none", gap |-> 0, res |-> "none", retries |-> 0, failures |-> 0,
         delay |-> 0, ahead |-> 0]
Handling == {"admitted", "checking", "sleeping", "proving", "wrapping"}
Finished == {"answered", "panicked", "dropped"}

Init ==
    /\ requests = [c \in Clients |-> None]
    /\ queue = << >>
    /\ permit = Nobody

-----------------------------------------------------------------------------
(* Callers, and the layers around the handler *)

Send(c, gap) ==
    /\ requests[c].pc = "none"
    /\ requests' = [requests EXCEPT ![c] = [None EXCEPT
           !.pc = "queued", !.gap = gap,
           !.ahead = Len(queue) + IF permit = Nobody THEN 0 ELSE 1]]
    /\ queue' = Append(queue, c)
    /\ UNCHANGED permit

\* ProveArgs::validate.
Validates(gap) == gap > 0 /\ gap <= SkipMax

\* Only in a mutant: the permit is given back only by a handler that returns.
FreedByReturn(c, pc) == IF permit = c /\ pc = "answered" THEN Nobody ELSE permit

\* The permit is dropped with the handler's future, also by a panic, which
\* CatchPanicLayer catches outside of the limit.
Freed(c, pc) == IF permit = c THEN Nobody ELSE permit

Finish(c, pc) ==
    /\ requests' = [requests EXCEPT ![c] = [None EXCEPT
           !.pc = pc, !.res = requests[c].res, !.failures = requests[c].failures]]
    /\ permit' = Freed(c, pc)

\* ConcurrencyLimitLayer::new(1), first come, first served.
Admit ==
    /\ permit = Nobody
    /\ queue # << >>
    /\ LET c == Head(queue)
       IN  IF Validates(requests[c].gap)
           THEN /\ requests' = [requests EXCEPT ![c].pc = "admitted"]
                /\ permit' = c
           ELSE Finish(c, "panicked")
    /\ queue' = Tail(queue)

\* The connection is closed: the future is dropped where it waits.  While a
\* circuit proves it does not wait, and runs on.
Disconnect(c) ==
    /\ \/ \E k \in DOMAIN queue : queue[k] = c /\ queue' = RemoveAt(queue, k)
       \/ requests[c].pc \in Handling \ {"proving"} /\ UNCHANGED queue
    /\ Finish(c, "dropped")

Forget(c) ==
    /\ requests[c].pc \in Finished
    /\ requests' = [requests EXCEPT ![c] = None]
    /\ UNCHANGED << queue, permit >>

-----------------------------------------------------------------------------
(* request_from_rpc *)

\* What a query returns: a connection error, the header, or another answer (a
\* status and a text that is no header), which is no error of reqwest::get.
Results == {"err", "header", "other"}

Queried(c, res, pc) ==
    /\ requests' = [requests EXCEPT ![c].pc = pc, ![c].res = res,
           ![c].failures = @ + IF res = "err" THEN 1 ELSE 0]
    /\ UNCHANGED << queue, permit >>

FirstQuery(c, res) ==
    /\ requests[c].pc = "admitted"
    /\ Queried(c, res, "checking")

\* Only in a mutant: one retry too few.
OneRetryLess(c) == requests[c].res = "err" /\ requests[c].retries + 1 < Retries

MayRetry(c) == requests[c].res = "err" /\ requests[c].retries < Retries

Retry(c, res) ==
    /\ requests[c].pc = "checking"
    /\ MayRetry(c)
    /\ Queried(c, res, "sleeping")

\* Only in a mutant: the number is counted up before the sleep.
BackoffOfNext(n) == 2 ^ (n + 1)

\* 2u64.pow(num_retries), also when the retry has succeeded.
Backoff(n) == 2 ^ n

\* Everybody in the queue waits as well.
Wake(c) ==
    /\ requests[c].pc = "sleeping"
    /\ LET d == Backoff(requests[c].retries)
       IN  requests' = [e \in Clients |->
               IF e = c THEN [requests[c] EXCEPT !.pc = "checking", !.retries = @ + 1,
                                                 !.delay = @ + d]
               ELSE IF requests[e].pc = "queued" THEN [requests[e] EXCEPT !.delay = @ + d]
               ELSE requests[e]]
    /\ UNCHANGED << queue, permit >>

\* The loop ends; only a header parses, and its last_block_id is the trusted hash.
Fetched(c) ==
    /\ requests[c].pc = "checking"
    /\ ~MayRetry(c)
    /\ requests[c].res = "header"
    /\ requests' = [requests EXCEPT ![c].pc = "proving"]
    /\ UNCHANGED << queue, permit >>

FetchPanics(c) ==
    /\ requests[c].pc = "checking"
    /\ ~MayRetry(c)
    /\ requests[c].res # "header"
    /\ Finish(c, "panicked")
    /\ UNCHANGED queue

-----------------------------------------------------------------------------
(* prove *)

\* The step circuit for a gap of one, the skip circuit for a larger one.
CircuitProves(c) ==
    /\ requests[c].pc = "proving"
    /\ requests[c].gap = 1 => StepEnabled
    /\ requests' = [requests EXCEPT ![c].pc = "wrapping"]
    /\ UNCHANGED << queue, permit >>

\* No step circuit, or no proof: unwrap panics.
CircuitPanics(c) ==
    /\ requests[c].pc = "proving"
    /\ Finish(c, "panicked")
    /\ UNCHANGED queue

\* gnark_verifier::prove returns JSON, or panics with an error or another text.
Wrapped(c, pc) ==
    /\ requests[c].pc = "wrapping"
    /\ pc \in {"answered", "panicked"}
    /\ Finish(c, pc)
    /\ UNCHANGED queue

Handle(c) ==
    \/ \E res \in Results : FirstQuery(c, res) \/ Retry(c, res)
    \/ Wake(c) \/ Fetched(c) \/ FetchPanics(c)
    \/ CircuitProves(c) \/ CircuitPanics(c)
    \/ \E pc \in Finished : Wrapped(c, pc)

Next ==
    \/ Admit
    \/ \E c \in Clients :
          \/ Handle(c) \/ Disconnect(c) \/ Forget(c)
          \/ \E gap \in Gaps : Send(c, gap)

Spec == Init /\ [][Next]_vars

\* The runtime polls the permit's next owner and every handler; queries, sleeps,
\* circuits and the gnark service come to an end.
FairSpec == Spec /\ WF_vars(Admit) /\ \A c \in Clients : WF_vars(Handle(c))

-----------------------------------------------------------------------------
(* Properties *)

\* The permit belongs to the one request that is being handled: no panic, no
\* connection closed in the middle of a sleep and no refused request keeps it,
\* and none gives back the permit of another.
PermitHeldByHandler ==
    \A c \in Clients : (permit = c) <=> (requests[c].pc \in Handling)

\* A request ends for want of a connection only after the first query and every
\* retry have failed: an answer that comes with the last retry is still used.
GivesUpAfterRetries ==
    \A c \in Clients :
        (requests[c].pc = "panicked" /\ requests[c].res = "err") =>
            requests[c].failures = Retries + 1

\* The sleeps of the retries delay a request by at most 2^Retries - 1 seconds for
\* itself and as many for each request that was before it: with ten retries 1023
\* seconds each, more than the ten minutes the relayer waits.
DelayBounded ==
    \A c \in Clients :
        requests[c].delay <= (requests[c].ahead + 1) * (2 ^ Retries - 1)

\* Every request ends, behind whatever other requests, panics and retries.
RequestsEnd ==
    \A c \in Clients : (requests[c].pc = "queued") ~> (requests[c].pc \in Finished)

=============================================================================
