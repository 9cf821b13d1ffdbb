--------------------------- MODULE UpdatePipeline ---------------------------
(***************************************************************************)
(* How a client update is produced and delivered: relayers                  *)
(* (go/relay/prover.go, zkprover.go) read the client's latest height from   *)
(* the contract, start a goroutine that asks the prover service for a proof *)
(* (src/commands/service.rs), poll its channel until an answer or a         *)
(* timeout, build an UpdateStateMessage and submit it.  The contract is     *)
(* module ZKLightClient, with one client, a chain without forks and no      *)
(* expiry.                                                                  *)
(*                                                                          *)
(* Time advances in ticks of the relayer's 10 second ticker.  A goroutine   *)
(* together with its channel is a job.                                      *)
(***************************************************************************)
EXTENDS Integers, SequencesExt

CONSTANTS
    Relayers,           \* relayer processes
    MaxHeight,          \* bound on the height of the chain
    SkipMax,            \* tendermintx's SKIP_MAX
    StepEnabled,        \* the service is built with the feature "step"
    TimeoutTicks,       \* ticks of 10 s until the timer of 10 min is seen: 60 or 61
    ProveTicks,         \* the longest the service takes for a proof
    MaxJobs,            \* bound on the number of goroutines alive
    MaxFailures,        \* bound on failed or wrong answers and lost transactions
    LeadingZeros        \* public inputs that begin with a zero byte

ASSUME PipelineAssumption ==
    /\ MaxHeight \in Nat \ {0}
    /\ {SkipMax, TimeoutTicks, ProveTicks, MaxJobs} \subseteq Nat \ {0}
    /\ MaxFailures \in Nat
    /\ StepEnabled \in BOOLEAN

VARIABLES
    clientStates, consensusStates, now, anchors,  \* the contract
    chainHeight,  \* height of the Tendermint chain
    calls,        \* relayer -> its call of SetupHeadersForUpdate
    jobs,         \* job -> goroutine, request and channel of AsyncProve
    queue,        \* jobs waiting for the service, in order of arrival
    failures      \* failed or wrong answers and lost transactions so far

contract == << clientStates, consensusStates, now, anchors >>
vars == << contract, chainHeight, calls, jobs, queue, failures >>

client == "client"
Blocks == 1 .. MaxHeight
Jobs   == 1 .. MaxJobs
NoJob  == 0
NoInput == << >>

\* The chain: one header per height.
Block(h) == [height |-> h, time |-> h, appHash |-> << "app", h >>,
             rest |-> << "rest", h >>]

LC == INSTANCE ZKLightClient WITH
    Clients <- {client}, MaxTimestamp <- MaxHeight, NanosPerSecond <- 2,
    BlockTimestampUnit <- 1,
    AppHashes <- {<< "app", h >> : h \in Blocks},
    Rests <- {<< "rest", h >> : h \in Blocks},
    Headers <- {Block(h) : h \in Blocks}, Chain <- {Block(h) : h \in Blocks},
    StepLinks <- {<< Block(h), Block(h + 1) >> : h \in 1 .. MaxHeight - 1},
    SkipLinks <- {<< Block(p[1]), Block(p[2]) >> :
                     p \in {q \in Blocks \X Blocks : /\ q[1] < q[2]
                                                     /\ q[2] - q[1] <= SkipMax}},
    Digests <- {<< "stepDigest" >>, << "skipDigest" >>},
    stepVerifierDigest <- << "stepDigest" >>,
    skipVerifierDigest <- << "skipDigest" >>,
    revisionNumber <- 0, RevisionNumbers <- {0}, BadLength <- << "bad" >>,
    ProtoClientStates <- {}, ProtoConsensusStates <- {}, UpdateStateInputs <- {}

-----------------------------------------------------------------------------
(* Proofs and messages *)

\* proveMock: the public inputs the relayer computes itself for two heights.
ExpectedInput(trusted, target) ==
    LET l == << Block(trusted), Block(target) >>
    IN  IF target - trusted = 1 THEN LC!StepStatement(l) ELSE LC!SkipStatement(l)

\* big.Int.Bytes drops leading zero bytes, so a digest or a hash that has some
\* arrives short; bytes32(...) in convertUpdateStateMessage pads it with zeros on
\* the right, which makes it another number.
LeadingZero(x) == x \in LeadingZeros

Bytes(x) == IF LeadingZero(x) THEN << "short", x >> ELSE x

bytes32(b) == IF b[1] = "short" THEN << "padded", b[2] >> ELSE b

\* The message SetupHeadersForUpdate builds, as updateState receives it.
UpdateStateMessage(trusted, target, input) ==
    LET hd == Block(target)
    IN  [trustedHeight |-> trusted, untrustedHeight |-> target,
         untrustedBlockHash |-> LC!BlockHash(hd), timestamp |-> hd.time,
         appHash |-> hd.appHash, simpleTreeProof |-> LC!SimpleTreeProof(hd),
         input |-> << bytes32(Bytes(input[1])), bytes32(Bytes(input[2])),
                     bytes32(Bytes(input[3])) >>]

Message(r) == UpdateStateMessage(calls[r].trusted, calls[r].target,
                                 calls[r].input)

\* CreateInitialLightClientState.
InitialClientState(h) ==
    [typeUrl |-> "client", stepVerifierDigest |-> << "stepDigest" >>,
     skipVerifierDigest |-> << "skipDigest" >>, trustingPeriod |-> MaxHeight,
     frozen |-> FALSE, revisionHeight |-> h, revisionNumber |-> 0]

InitialConsensusState(h) ==
    [typeUrl |-> "consensus", blockHash |-> LC!BlockHash(Block(h)),
     appHash |-> Block(h).appHash, timestamp |-> Block(h).time]

-----------------------------------------------------------------------------
Idle == [pc |-> "idle", trusted |-> 0, target |-> 0, elapsed |-> 0,
         due |-> FALSE, job |-> NoJob, input |-> NoInput]

FreeJob == [status |-> "free", trusted |-> 0, target |-> 0, age |-> 0,
            input |-> NoInput]

Init ==
    /\ LC!Init
    /\ chainHeight = 1
    /\ calls = [r \in Relayers |-> Idle]
    /\ jobs = [j \in Jobs |-> FreeJob]
    /\ queue = << >>
    /\ failures = 0

\* The chain commits a block.
CommitBlock ==
    /\ chainHeight < MaxHeight
    /\ chainHeight' = chainHeight + 1
    /\ UNCHANGED << contract, calls, jobs, queue, failures >>

\* The client is created at the height the relayer's own light client reaches.
CreateClient ==
    /\ LC!InitializeClient(client, "ibcHandler",
                           InitialClientState(chainHeight),
                           InitialConsensusState(chainHeight))
    /\ UNCHANGED << chainHeight, calls, jobs, queue, failures >>

-----------------------------------------------------------------------------
(* SetupHeadersForUpdate *)

\* GetLatestFinalizedHeader: the header to update to is fetched first; the
\* relay loop fetches it anew on every round, also after a failed query made
\* SetupHeadersForUpdate return early.
GetLatestFinalizedHeader(r) ==
    /\ LC!getClientState(client)[2]
    /\ calls[r].pc \in {"idle", "synced"}
    /\ calls' = [calls EXCEPT ![r] = [Idle EXCEPT !.pc = "synced",
                                                  !.target = chainHeight]]
    /\ UNCHANGED << contract, chainHeight, jobs, queue, failures >>

\* The client moved past that header in the meantime: an error.
HeaderTooOld(r) ==
    /\ calls[r].pc = "synced"
    /\ LC!getLatestHeight(client) >= calls[r].target
    /\ calls' = [calls EXCEPT ![r] = Idle]
    /\ UNCHANGED << contract, chainHeight, jobs, queue, failures >>

\* The latest height of the client is read, and AsyncProve starts a job.
AsyncProve(r, j) ==
    LET trusted == LC!getLatestHeight(client)
    IN  /\ calls[r].pc = "synced"
        /\ trusted < calls[r].target
        /\ jobs[j].status = "free"
        /\ calls' = [calls EXCEPT ![r].pc = "polling", ![r].trusted = trusted,
                                  ![r].job = j]
        /\ jobs' = [jobs EXCEPT ![j] =
                       [FreeJob EXCEPT !.status = "queued", !.trusted = trusted,
                                       !.target = calls[r].target]]
        /\ queue' = Append(queue, j)
        /\ UNCHANGED << contract, chainHeight, failures >>

\* A tick of the ticker: one round of the select.
Polls(r) == calls[r].pc = "polling" /\ calls[r].due

\* Only in a mutant: the timer fires one tick early.
TimerFiresEarly(r) == calls[r].elapsed >= TimeoutTicks - 1

\* time.After(10 * time.Minute) has fired.
TimerFired(r) == calls[r].elapsed >= TimeoutTicks

\* The channel yields the proof; the goroutine closes the channel and ends.
PollReceive(r) ==
    LET j == calls[r].job
    IN  /\ Polls(r)
        /\ jobs[j].status = "sending"
        /\ calls' = [calls EXCEPT ![r].pc = "built", ![r].input = jobs[j].input,
                                  ![r].due = FALSE, ![r].job = NoJob]
        /\ jobs' = [jobs EXCEPT ![j] = FreeJob]
        /\ UNCHANGED << contract, chainHeight, queue, failures >>

\* The channel was closed without a proof: an error.
PollClosed(r) ==
    LET j == calls[r].job
    IN  /\ Polls(r)
        /\ jobs[j].status = "closed"
        /\ calls' = [calls EXCEPT ![r] = Idle]
        /\ jobs' = [jobs EXCEPT ![j] = FreeJob]
        /\ UNCHANGED << contract, chainHeight, queue, failures >>

\* The timer fired (select picks any case that is ready): an error.  The
\* goroutine is left behind; nobody will receive from its channel.
PollTimeout(r) ==
    LET j == calls[r].job
    IN  /\ Polls(r)
        /\ TimerFired(r)
        /\ calls' = [calls EXCEPT ![r] = Idle]
        /\ jobs' = [jobs EXCEPT ![j] =
                       IF @.status = "closed" THEN FreeJob ELSE @]
        /\ UNCHANGED << contract, chainHeight, queue, failures >>

\* Nothing is ready: wait for the next tick.
PollDefault(r) ==
    /\ Polls(r)
    /\ jobs[calls[r].job].status \notin {"sending", "closed"}
    /\ ~TimerFired(r)
    /\ calls' = [calls EXCEPT ![r].due = FALSE]
    /\ UNCHANGED << contract, chainHeight, jobs, queue, failures >>

\* The message is submitted to the contract: applied or reverted.
Submit(r) ==
    /\ calls[r].pc = "built"
    /\ \/ LC!UpdateState(client, Message(r))
       \/ ~LC!Accepts(client, Message(r)) /\ UNCHANGED contract
    /\ calls' = [calls EXCEPT ![r] = Idle]
    /\ UNCHANGED << chainHeight, jobs, queue, failures >>

\* The transaction is lost; the next round of the relay loop builds another.
SubmitLost(r) ==
    /\ calls[r].pc = "built"
    /\ failures < MaxFailures
    /\ calls' = [calls EXCEPT ![r] = Idle]
    /\ failures' = failures + 1
    /\ UNCHANGED << contract, chainHeight, jobs, queue >>

-----------------------------------------------------------------------------
(* The prover service *)

Busy == \E j \in Jobs : jobs[j].status = "proving"

\* Only in a mutant: a gap of SKIP_MAX is refused too.
ProvableBelowMax(trusted, target) ==
    /\ target > trusted
    /\ target - trusted < SkipMax
    /\ target - trusted = 1 => StepEnabled

\* ProveArgs::validate, and the step circuit that may not be compiled in.  A
\* panic is answered with status 500, which the relayer fails to decode.
Provable(trusted, target) ==
    /\ target > trusted
    /\ target - trusted <= SkipMax
    /\ target - trusted = 1 => StepEnabled

Abandoned(j) == \A r \in Relayers : calls[r].job # j

\* Only in a mutant: Prove does not notice that its request has failed.
FailureUnnoticed(j) == UNCHANGED jobs

\* Prove fails: the goroutine closes the channel and ends.
CloseChannel(j) ==
    jobs' = [jobs EXCEPT ![j] = IF Abandoned(j) THEN FreeJob
                                ELSE [FreeJob EXCEPT !.status = "closed"]]

\* The concurrency limit of 1 admits the request that waited longest.
Admit ==
    /\ queue # << >>
    /\ ~Busy
    /\ LET j == Head(queue)
       IN  IF Provable(jobs[j].trusted, jobs[j].target)
           THEN jobs' = [jobs EXCEPT ![j].status = "proving"]
           ELSE CloseChannel(j)
    /\ queue' = Tail(queue)
    /\ UNCHANGED << contract, chainHeight, calls, failures >>

\* Only in a mutant: the relayer takes any inputs the service returns.
AnyInput(j, input) == input # NoInput

\* Prove compares the answer with the inputs it computed itself.
InputMatches(j, input) ==
    input = ExpectedInput(jobs[j].trusted, jobs[j].target)

\* The service answers with a proof and its public inputs.
Answer(j, input) ==
    /\ jobs[j].status = "proving"
    /\ jobs[j].age >= 1
    /\ IF InputMatches(j, input)
       THEN jobs' = [jobs EXCEPT ![j].status = "sending", ![j].input = input]
       ELSE CloseChannel(j)
    /\ failures' = IF input = ExpectedInput(jobs[j].trusted, jobs[j].target)
                   THEN failures ELSE failures + 1
    /\ failures' <= MaxFailures
    /\ UNCHANGED << contract, chainHeight, calls, queue >>

\* Only in a mutant: a request whose connection is closed keeps its place.
FailInQueue(j) ==
    /\ jobs[j].status \in {"queued", "proving"}
    /\ failures < MaxFailures
    /\ CloseChannel(j)
    /\ failures' = failures + 1
    /\ UNCHANGED << contract, chainHeight, calls, queue >>

\* The Tendermint node or the gnark service does not answer (a panic), or the
\* connection to the service breaks, while the request waits or is worked on.
Fail(j) ==
    /\ \/ /\ jobs[j].status = "queued"
          /\ \E k \in DOMAIN queue : queue[k] = j /\ queue' = RemoveAt(queue, k)
       \/ jobs[j].status = "proving" /\ UNCHANGED queue
    /\ failures < MaxFailures
    /\ CloseChannel(j)
    /\ failures' = failures + 1
    /\ UNCHANGED << contract, chainHeight, calls >>

\* Ten seconds pass.  What was due in the last ones has happened.
Tick ==
    /\ \A r \in Relayers : ~calls[r].due
    /\ queue # << >> => Busy
    /\ \A j \in Jobs : jobs[j].status = "proving" => jobs[j].age < ProveTicks
    /\ Busy \/ \E r \in Relayers : calls[r].pc = "polling"
    /\ calls' = [r \in Relayers |->
                    IF calls[r].pc = "polling"
                    THEN [calls[r] EXCEPT !.due = TRUE, !.elapsed = @ + 1]
                    ELSE calls[r]]
    /\ jobs' = [j \in Jobs |->
                    IF jobs[j].status = "proving"
                    THEN [jobs[j] EXCEPT !.age = @ + 1] ELSE jobs[j]]
    /\ UNCHANGED << contract, chainHeight, queue, failures >>

\* The statements the service can answer with.
Inputs == {ExpectedInput(p[1], p[2]) :
              p \in {q \in Blocks \X Blocks : q[1] < q[2] /\ q[2] - q[1] <= SkipMax}}

Relay(r) ==
    \/ GetLatestFinalizedHeader(r)
    \/ HeaderTooOld(r)
    \/ \E j \in Jobs : AsyncProve(r, j)
    \/ PollReceive(r)
    \/ PollClosed(r)
    \/ PollTimeout(r)
    \/ PollDefault(r)
    \/ Submit(r)
    \/ SubmitLost(r)

Serve ==
    \/ Admit
    \/ \E j \in Jobs, input \in Inputs : Answer(j, input)
    \/ \E j \in Jobs : Fail(j)

Next ==
    \/ CommitBlock
    \/ CreateClient
    \/ \E r \in Relayers : Relay(r)
    \/ Serve
    \/ Tick

Spec == Init /\ [][Next]_vars

\* The relay loop, the service and time do not stop.  Blocks may stop coming,
\* and of the answers only the right one is certain to be given.
Fairness ==
    /\ WF_vars(CreateClient)
    /\ WF_vars(Tick)
    /\ WF_vars(Admit)
    /\ WF_vars(\E j \in Jobs :
                  Answer(j, ExpectedInput(jobs[j].trusted, jobs[j].target)))
    /\ \A r \in Relayers :
          /\ WF_vars(GetLatestFinalizedHeader(r))
          /\ WF_vars(HeaderTooOld(r))
          /\ WF_vars(\E j \in Jobs : AsyncProve(r, j))
          /\ WF_vars(PollReceive(r) \/ PollClosed(r) \/ PollTimeout(r)
                       \/ PollDefault(r))
          /\ WF_vars(Submit(r))

FairSpec == Spec /\ Fairness

-----------------------------------------------------------------------------
(* Properties *)

\* Heights, statuses and counters stay in range; a polling call has a job; the
\* service's queue holds each waiting request exactly once, and no other.
TypeOK ==
    /\ chainHeight \in Blocks
    /\ \A r \in Relayers :
          /\ calls[r].pc \in {"idle", "synced", "polling", "built"}
          /\ calls[r].trusted \in 0 .. MaxHeight
          /\ calls[r].target \in 0 .. MaxHeight
          /\ calls[r].elapsed \in 0 .. TimeoutTicks
          /\ calls[r].job \in Jobs <=> calls[r].pc = "polling"
    /\ \A j \in Jobs :
          /\ jobs[j].status \in {"free", "queued", "proving", "sending", "closed"}
          /\ jobs[j].age \in 0 .. ProveTicks
    /\ failures \in 0 .. MaxFailures
    /\ \A k, n \in DOMAIN queue :
          jobs[queue[k]].status = "queued" /\ (queue[k] = queue[n] => k = n)
    /\ \A j \in Jobs :
          jobs[j].status = "queued" => \E k \in DOMAIN queue : queue[k] = j

\* A message SetupHeadersForUpdate has built is accepted by updateState when it
\* is submitted, although the client's height was read long before and other
\* relayers have updated the client since, and although the service may have
\* answered an earlier request late or with a proof of something else.
BuiltMessagesAccepted ==
    \A r \in Relayers : calls[r].pc = "built" => LC!Accepts(client, Message(r))

\* Once the chain has stopped at its last block, the client reaches it: the
\* relay loop does not get stuck whatever failed before.
CatchesUp ==
    (chainHeight = MaxHeight) ~> (LC!getLatestHeight(client) = MaxHeight)

\* A proof that is ready while the timer still runs at the next tick is received,
\* whatever other relayers, whose requests time out, do meanwhile.
ProofInTimeReceived ==
    \A r \in Relayers :
        (/\ calls[r].pc = "polling" /\ jobs[calls[r].job].status = "sending"
         /\ calls[r].elapsed + 1 < TimeoutTicks) ~> (calls[r].pc = "built")

\* Every goroutine AsyncProve starts ends, behind whatever other requests it waits
\* at the service, but for one: when its call's timer has fired before the proof
\* came, it waits for ever on a channel nobody receives from.
GoroutinesEnd ==
    \A j \in Jobs :
        (jobs[j].status # "free") ~>
            (jobs[j].status = "free" \/ [](jobs[j].status = "sending" /\ Abandoned(j)))

=============================================================================
