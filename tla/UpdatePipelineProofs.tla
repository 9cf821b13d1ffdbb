------------------------ MODULE UpdatePipelineProofs ------------------------
(***************************************************************************)
(* Proofs about UpdatePipeline, for any number of relayers, blocks,         *)
(* goroutines and failures and for any timeout.                             *)
(***************************************************************************)
EXTENDS UpdatePipeline, SharedLemmas

Heights == 0 .. MaxHeight
Created == clientStates[client].latestHeight # 0
Trusted(h) == consensusStates[client][h].blockHash # LC!ZeroHash

\* The contract holds consensus states of blocks of the chain and no others, one
\* of them at its latest height.
ContractInv ==
    /\ clientStates \in [{client} -> [latestHeight : Heights, trustingPeriod : Nat]]
    /\ consensusStates = [c \in {client} |-> consensusStates[c]]
    /\ consensusStates[client] = [h \in Heights |-> consensusStates[client][h]]
    /\ \A h \in Heights :
          \/ consensusStates[client][h] = LC!NoConsensusState
          \/ h \in Blocks /\ consensusStates[client][h] = LC!StateOf(Block(h))
    /\ now = 0
    /\ Created => Trusted(clientStates[client].latestHeight)

CallType ==
    [pc : {"idle", "synced", "polling", "built"}, trusted : Heights, target : Heights,
     elapsed : 0 .. TimeoutTicks, due : BOOLEAN, job : Jobs \cup {NoJob},
     input : Inputs \cup {NoInput}]

JobType ==
    [status : {"free", "queued", "proving", "sending", "closed"},
     trusted : Heights, target : Heights, age : 0 .. ProveTicks,
     input : Inputs \cup {NoInput}]

\* A call of SetupHeadersForUpdate by itself: the timer has not fired before a
\* tick is due, and a message is built from a proof of its two heights.
CallOK(c) ==
    /\ c.pc = "polling" <=> c.job # NoJob
    /\ c.pc = "polling" /\ ~c.due => c.elapsed < TimeoutTicks
    /\ c.due => c.pc = "polling"
    /\ c.pc = "synced" => c.elapsed = 0
    /\ c.pc # "idle" => c.target \in Blocks
    /\ c.pc \in {"polling", "built"} => c.trusted \in Blocks /\ c.trusted < c.target
    /\ c.pc = "built" => /\ Provable(c.trusted, c.target)
                         /\ c.input = ExpectedInput(c.trusted, c.target)

\* A goroutine by itself: the service works on what it can prove, and what waits
\* in the channel is a proof of the two heights that were asked for.
JobOK(j) ==
    /\ j.status \in {"proving", "sending"} => Provable(j.trusted, j.target)
    /\ j.status = "sending" => j.input = ExpectedInput(j.trusted, j.target)

\* The goroutine a call polls is there, and was asked for what the call wants.
Serves(j, c) ==
    /\ j.status # "free"
    /\ j.status # "closed" => j.trusted = c.trusted /\ j.target = c.target

CallsInv ==
    /\ calls \in [Relayers -> CallType]
    /\ \A r \in Relayers : CallOK(calls[r])

JobsInv ==
    /\ jobs \in [Jobs -> JobType]
    /\ \A j \in Jobs : JobOK(jobs[j])

\* What a call took from the contract is still there.
TrustInv ==
    \A r \in Relayers :
        /\ calls[r].pc # "idle" => Created
        /\ calls[r].pc \in {"polling", "built"} => Trusted(calls[r].trusted)

\* Every call polls a goroutine of its own.
LinkInv ==
    /\ \A r \in Relayers :
          calls[r].pc = "polling" => Serves(jobs[calls[r].job], calls[r])
    /\ \A r, s \in Relayers :
          calls[r].pc = "polling" /\ calls[r].job = calls[s].job => r = s

\* The service's queue holds each waiting request once and nothing else.
QueueInv ==
    /\ queue \in Seq(Jobs)
    /\ Distinct(queue)
    /\ \A j \in Jobs : Holds(queue, j) <=> jobs[j].status = "queued"

IInv ==
    /\ chainHeight \in Blocks
    /\ failures \in 0 .. MaxFailures
    /\ ContractInv
    /\ CallsInv
    /\ JobsInv
    /\ TrustInv
    /\ LinkInv
    /\ QueueInv

-----------------------------------------------------------------------------
(* The contract *)

\* A block hash fixes the height of its block, and is not the hash of nothing.
LEMMA BlockHashes ==
    ASSUME NEW h \in Blocks, NEW k \in Blocks
    PROVE  /\ LC!BlockHash(Block(h)) = LC!BlockHash(Block(k)) => h = k
           /\ LC!BlockHash(Block(h)) # LC!ZeroHash
PROOF
<1>1. LC!BlockHash(Block(h)) = LC!BlockHash(Block(k)) => h = k
  BY DEF LC!BlockHash, Block, LC!SimpleTreeProof
<1>2. LC!BlockHash(Block(h)) # LC!ZeroHash
  BY DEF LC!BlockHash, LC!ZeroHash
<1> QED BY <1>1, <1>2

\* A trusted height is one of the chain, with the state of its block.
LEMMA TrustedState ==
    ASSUME ContractInv, NEW h \in Heights, Trusted(h)
    PROVE  /\ h \in Blocks
           /\ consensusStates[client][h] = LC!StateOf(Block(h))
           /\ consensusStates[client][h].blockHash = LC!BlockHash(Block(h))
           /\ consensusStates[client][h].timestamp = h
PROOF
<1>1. h \in Blocks /\ consensusStates[client][h] = LC!StateOf(Block(h))
  BY DEF ContractInv, Trusted, LC!NoConsensusState
<1> QED BY <1>1 DEF LC!StateOf, Block

\* None of the three public inputs begins with a zero byte.
Intact(input) == \A i \in 1 .. 3 : ~LeadingZero(input[i])

\* The three public inputs for two heights, none of which was cut.
LEMMA InputShape ==
    ASSUME NEW t \in Blocks, NEW g \in Blocks
    PROVE  \E d, i, out :
               /\ ExpectedInput(t, g) = << d, i, out >>
               /\ out = LC!OutputHash(LC!BlockHash(Block(g)))
               /\ d[1] \notin {"short", "padded"}
               /\ i[1] \notin {"short", "padded"}
               /\ out[1] \notin {"short", "padded"}
PROOF
<1>1. PICK d, i, out : /\ ExpectedInput(t, g) = << d, i, out >>
                       /\ d \in {<< "stepDigest" >>, << "skipDigest" >>}
                       /\ \/ i = LC!StepInput(t, LC!BlockHash(Block(t)))
                          \/ i = LC!SkipInput(t, LC!BlockHash(Block(t)), g)
                       /\ out = LC!OutputHash(LC!BlockHash(Block(g)))
  BY DEF ExpectedInput, LC!StepStatement, LC!SkipStatement, Block
<1>2. d[1] \notin {"short", "padded"}
  BY <1>1
<1>3. i[1] \notin {"short", "padded"}
  BY <1>1 DEF LC!StepInput, LC!SkipInput
<1>4. out[1] \notin {"short", "padded"}
  BY <1>1 DEF LC!OutputHash
<1> QED BY <1>1, <1>2, <1>3, <1>4

\* An input reaches the contract as it is unless it begins with a zero byte; then
\* another number arrives.
LEMMA OneInput ==
    ASSUME NEW x, x[1] \notin {"short", "padded"}
    PROVE  bytes32(Bytes(x)) = x <=> ~LeadingZero(x)
PROOF
<1>1. CASE LeadingZero(x)
  <2>1. bytes32(Bytes(x))[1] = "padded"
    BY <1>1 DEF Bytes, bytes32
  <2> QED BY <1>1, <2>1
<1>2. CASE ~LeadingZero(x)
  BY <1>2 DEF Bytes, bytes32
<1> QED BY <1>1, <1>2

\* The public inputs reach the contract as the relayer computed them exactly when
\* none of them begins with a zero byte.
LEMMA InputArrives ==
    ASSUME NEW t \in Blocks, NEW g \in Blocks
    PROVE  UpdateStateMessage(t, g, ExpectedInput(t, g)).input = ExpectedInput(t, g)
               <=> Intact(ExpectedInput(t, g))
PROOF
<1>1. PICK d, i, out : /\ ExpectedInput(t, g) = << d, i, out >>
                       /\ d[1] \notin {"short", "padded"}
                       /\ i[1] \notin {"short", "padded"}
                       /\ out[1] \notin {"short", "padded"}
  BY InputShape
<1>2. UpdateStateMessage(t, g, << d, i, out >>).input =
          << bytes32(Bytes(d)), bytes32(Bytes(i)), bytes32(Bytes(out)) >>
  BY DEF UpdateStateMessage
<1>3. Intact(<< d, i, out >>) <=> ~LeadingZero(d) /\ ~LeadingZero(i) /\ ~LeadingZero(out)
  BY DEF Intact
<1>4. << bytes32(Bytes(d)), bytes32(Bytes(i)), bytes32(Bytes(out)) >> = << d, i, out >>
          <=> ~LeadingZero(d) /\ ~LeadingZero(i) /\ ~LeadingZero(out)
  BY <1>1, OneInput
<1> QED BY <1>1, <1>2, <1>3, <1>4

\* updateState accepts the message for a trusted height and a proof of the two
\* heights, whatever else the contract has stored since the height was read.
LEMMA MessageAccepted ==
    ASSUME ContractInv, NEW t \in Blocks, NEW g \in Blocks, Trusted(t),
           Provable(t, g), Intact(ExpectedInput(t, g))
    PROVE  LC!Accepts(client, UpdateStateMessage(t, g, ExpectedInput(t, g)))
PROOF
<1> DEFINE m == UpdateStateMessage(t, g, ExpectedInput(t, g))
<1>1. /\ m.trustedHeight = t /\ m.untrustedHeight = g
      /\ m.untrustedBlockHash = LC!BlockHash(Block(g)) /\ m.timestamp = g
      /\ m.appHash = Block(g).appHash
      /\ m.simpleTreeProof = LC!SimpleTreeProof(Block(g))
  BY DEF UpdateStateMessage, Block
<1>2. m.input = ExpectedInput(t, g)
  BY InputArrives
<1> HIDE DEF m
<1>3. t \in Int /\ g \in Int /\ t < g /\ g - t <= SkipMax /\ t \in Heights
  BY DEF Provable, Blocks, Heights
<1>4. /\ consensusStates[client][t].blockHash = LC!BlockHash(Block(t))
      /\ consensusStates[client][t].timestamp = t
  BY <1>3, TrustedState
<1>5. LC!VerifyProof(m.input)
  <2>1. CASE g - t = 1
    <3>1. << Block(t), Block(g) >> \in
              {<< Block(h), Block(h + 1) >> : h \in 1 .. MaxHeight - 1}
      <4>1. t \in 1 .. MaxHeight - 1 /\ g = t + 1
        BY <1>3, <2>1, PipelineAssumption DEF Blocks
      <4> QED BY <4>1
    <3> QED BY <1>2, <2>1, <3>1
            DEF ExpectedInput, LC!VerifyProof, LC!StepStatements
  <2>2. CASE g - t # 1
    <3>1. << Block(t), Block(g) >> \in
              {<< Block(p[1]), Block(p[2]) >> :
                  p \in {q \in Blocks \X Blocks : /\ q[1] < q[2]
                                                  /\ q[2] - q[1] <= SkipMax}}
      <4>1. << t, g >> \in {q \in Blocks \X Blocks : /\ q[1] < q[2]
                                                     /\ q[2] - q[1] <= SkipMax}
        BY <1>3
      <4> QED BY <4>1
    <3> QED BY <1>2, <2>2, <3>1
            DEF ExpectedInput, LC!VerifyProof, LC!SkipStatements
  <2> QED BY <2>1, <2>2
<1>6. LC!HeightsAscend(m)
  BY <1>1, <1>3 DEF LC!HeightsAscend
<1>7. LC!Found(client, m.trustedHeight)
  BY <1>1 DEF LC!Found, Trusted
<1>8. ~LC!Expired(client, m.trustedHeight)
  <2>1. clientStates[client].trustingPeriod \in Nat
    BY DEF ContractInv
  <2>2. LC!blockTimestamp = 0
    BY DEF ContractInv, LC!blockTimestamp
  <2> QED BY <1>1, <1>3, <1>4, <2>1, <2>2 DEF LC!Expired, Blocks
<1>9. LC!InputExpected(client, m)
  <2>1. CASE g - t = 1
    BY <1>1, <1>2, <1>4, <2>1
    DEF LC!InputExpected, LC!ExpectedInput, ExpectedInput, LC!StepStatement, Block
  <2>2. CASE g - t # 1
    BY <1>1, <1>2, <1>4, <2>2
    DEF LC!InputExpected, LC!ExpectedInput, ExpectedInput, LC!SkipStatement, Block
  <2> QED BY <2>1, <2>2
<1>10. LC!OutputExpected(m)
  BY <1>1, <1>2
  DEF LC!OutputExpected, ExpectedInput, LC!StepStatement, LC!SkipStatement
<1>11. LC!HeaderOpened(m)
  BY <1>1 DEF LC!HeaderOpened, LC!MerkleRoot, LC!BlockHash, Block
<1> QED BY <1>5, <1>6, <1>7, <1>8, <1>9, <1>10, <1>11 DEF LC!Accepts, m

\* It rejects the message when one of the inputs begins with a zero byte.
LEMMA MessageRejected ==
    ASSUME ContractInv, NEW t \in Blocks, NEW g \in Blocks, Trusted(t),
           LC!Accepts(client, UpdateStateMessage(t, g, ExpectedInput(t, g)))
    PROVE  Intact(ExpectedInput(t, g))
PROOF
<1> DEFINE m == UpdateStateMessage(t, g, ExpectedInput(t, g))
<1>1. /\ m.trustedHeight = t /\ m.untrustedHeight = g
      /\ m.untrustedBlockHash = LC!BlockHash(Block(g))
  BY DEF UpdateStateMessage
<1>2. PICK a, b, c : m.input = << a, b, c >>
  BY DEF UpdateStateMessage
<1>3. LC!InputExpected(client, m) /\ LC!OutputExpected(m)
  BY DEF LC!Accepts
<1>4. m.input = ExpectedInput(t, g) <=> Intact(ExpectedInput(t, g))
  BY InputArrives
<1> HIDE DEF m
<1>5. consensusStates[client][t].blockHash = LC!BlockHash(Block(t))
  BY TrustedState, PipelineAssumption DEF Blocks, Heights
<1>6. c = LC!OutputHash(LC!BlockHash(Block(g)))
  BY <1>1, <1>2, <1>3 DEF LC!OutputExpected
<1>7. CASE g - t = 1
  <2>1. a = << "stepDigest" >> /\ b = LC!StepInput(t, LC!BlockHash(Block(t)))
    BY <1>1, <1>2, <1>3, <1>5, <1>7 DEF LC!InputExpected, LC!ExpectedInput
  <2> QED BY <1>2, <1>4, <1>6, <1>7, <2>1 DEF ExpectedInput, LC!StepStatement, Block
<1>8. CASE g - t # 1
  <2>1. a = << "skipDigest" >> /\ b = LC!SkipInput(t, LC!BlockHash(Block(t)), g)
    BY <1>1, <1>2, <1>3, <1>5, <1>8 DEF LC!InputExpected, LC!ExpectedInput
  <2> QED BY <1>2, <1>4, <1>6, <1>8, <2>1 DEF ExpectedInput, LC!SkipStatement, Block
<1> QED BY <1>7, <1>8

\* What a step may do to the contract: nothing, or store the state of a block.
Stores(h) ==
    /\ consensusStates' = [consensusStates EXCEPT ![client][h] = LC!StateOf(Block(h))]
    /\ now' = now
    /\ clientStates' \in [{client} -> [latestHeight : Heights, trustingPeriod : Nat]]
    /\ clientStates'[client].latestHeight \in {h, clientStates[client].latestHeight}
    /\ clientStates'[client].latestHeight # 0

\* Storing the state of a block keeps the contract's invariant and all trust.
LEMMA StoresKeeps ==
    ASSUME ContractInv, NEW h \in Blocks, Stores(h)
    PROVE  /\ ContractInv'
           /\ Created'
           /\ \A k \in Heights : Trusted(k) => Trusted(k)'
PROOF
<1>1. /\ \A k \in Heights : consensusStates'[client][k] =
             IF k = h THEN LC!StateOf(Block(h)) ELSE consensusStates[client][k]
      /\ consensusStates' = [c \in {client} |-> consensusStates'[c]]
      /\ consensusStates'[client] = [k \in Heights |-> consensusStates'[client][k]]
  BY DEF ContractInv, Stores
<1>2. LC!StateOf(Block(h)).blockHash # LC!ZeroHash
  BY BlockHashes DEF LC!StateOf
<1>3. h \in Heights
  BY DEF Blocks, Heights
<1>4. Created' /\ \A k \in Heights : Trusted(k) => Trusted(k)'
  BY <1>1, <1>2 DEF Stores, Created, Trusted
<1>5. Trusted(clientStates[client].latestHeight)'
  <2>1. clientStates[client].latestHeight \in Heights
    BY DEF ContractInv
  <2>2. CASE clientStates'[client].latestHeight = h
    BY <1>1, <1>2, <1>3, <2>2 DEF Trusted
  <2>3. CASE clientStates'[client].latestHeight = clientStates[client].latestHeight
    <3>1. Trusted(clientStates[client].latestHeight)
      BY <2>3 DEF ContractInv, Stores, Created
    <3> QED BY <1>4, <2>1, <2>3, <3>1 DEF Trusted
  <2> QED BY <2>2, <2>3 DEF Stores
<1> QED BY <1>1, <1>4, <1>5 DEF ContractInv, Stores

LEMMA CreateStores ==
    ASSUME IInv, CreateClient
    PROVE  Stores(chainHeight)
PROOF
<1> DEFINE cs == InitialClientState(chainHeight)
           ks == InitialConsensusState(chainHeight)
<1>1. cs.revisionHeight = chainHeight /\ cs.trustingPeriod = MaxHeight
  BY DEF InitialClientState
<1>2. LC!SubmittedState(ks) = LC!StateOf(Block(chainHeight))
  BY DEF InitialConsensusState, LC!SubmittedState, LC!StateOf
<1> HIDE DEF cs, ks
<1>3. /\ consensusStates' = [consensusStates EXCEPT ![client][cs.revisionHeight] =
                                LC!SubmittedState(ks)]
      /\ clientStates' = [clientStates EXCEPT ![client] =
                                [latestHeight |-> cs.revisionHeight,
                                 trustingPeriod |-> cs.trustingPeriod]]
      /\ now' = now
  BY DEF CreateClient, LC!InitializeClient, cs, ks
<1>4. chainHeight \in Heights /\ chainHeight # 0 /\ MaxHeight \in Nat
  BY PipelineAssumption DEF IInv, Blocks, Heights
<1> QED BY <1>1, <1>2, <1>3, <1>4 DEF Stores, IInv, ContractInv

LEMMA UpdateStores ==
    ASSUME IInv, NEW r \in Relayers, calls[r].pc = "built",
           LC!UpdateState(client, Message(r))
    PROVE  calls[r].target \in Blocks /\ Stores(calls[r].target)
PROOF
<1> DEFINE g == calls[r].target
           m == Message(r)
           n == LC!NewLatestHeight(client, m)
<1>1. g \in Blocks
  BY DEF IInv, CallsInv, CallOK
<1>2. /\ m.untrustedHeight = g
      /\ [blockHash |-> m.untrustedBlockHash, appHash |-> m.appHash,
          timestamp |-> m.timestamp] = LC!StateOf(Block(g))
  BY DEF Message, UpdateStateMessage, LC!StateOf
<1> HIDE DEF m
<1>3. n \in {g, clientStates[client].latestHeight} /\ n \in Heights /\ n # 0
  BY <1>1, <1>2 DEF LC!NewLatestHeight, IInv, ContractInv, Blocks, Heights
<1> HIDE DEF n, g
<1>4. /\ consensusStates' = [consensusStates EXCEPT ![client][g] =
                                LC!StateOf(Block(g))]
      /\ clientStates' = [clientStates EXCEPT ![client].latestHeight = n]
      /\ now' = now
  BY <1>2 DEF LC!UpdateState, m, n
<1>5. /\ clientStates' \in [{client} -> [latestHeight : Heights, trustingPeriod : Nat]]
      /\ clientStates'[client].latestHeight = n
  BY <1>3, <1>4 DEF IInv, ContractInv
<1> QED BY <1>1, <1>3, <1>4, <1>5 DEF Stores, g

-----------------------------------------------------------------------------
(* Initial states *)

LEMMA RecordTypes ==
    /\ Idle \in CallType /\ CallOK(Idle) /\ Idle.pc = "idle" /\ Idle.job = NoJob
    /\ FreeJob \in JobType /\ JobOK(FreeJob) /\ FreeJob.status = "free"
PROOF
<1>1. 0 \in Heights /\ 0 \in 0 .. TimeoutTicks /\ 0 \in 0 .. ProveTicks
  BY PipelineAssumption DEF Heights
<1>2. Idle \in CallType
  BY <1>1 DEF Idle, CallType
<1>3. FreeJob \in JobType
  BY <1>1 DEF FreeJob, JobType
<1>4. CallOK(Idle) /\ JobOK(FreeJob)
  BY DEF Idle, CallOK, FreeJob, JobOK
<1> QED BY <1>2, <1>3, <1>4 DEF Idle, FreeJob

LEMMA InitIInv == Init => IInv
PROOF
<1> SUFFICES ASSUME Init PROVE IInv
  OBVIOUS
<1>1. chainHeight \in Blocks /\ failures \in 0 .. MaxFailures
  BY PipelineAssumption DEF Init, Blocks
<1>2. ContractInv
  <2>1. LC!Init
    BY DEF Init
  <2>2. 0 \in Heights /\ MaxHeight \in Nat
    BY PipelineAssumption DEF Heights
  <2> QED BY <2>1, <2>2
          DEF LC!Init, ContractInv, LC!Heights, Heights, Created, LC!NoClientState
<1>3. CallsInv /\ JobsInv /\ TrustInv /\ LinkInv
  BY RecordTypes DEF Init, CallsInv, JobsInv, TrustInv, LinkInv
<1>4. QueueInv
  <2>1. queue = << >> /\ Len(queue) = 0 /\ queue \in Seq(Jobs)
    BY EmptySeq DEF Init
  <2>2. Distinct(queue) /\ \A j \in Jobs : ~Holds(queue, j)
    BY <2>1 DEF Distinct, Holds
  <2> QED BY <2>1, <2>2, RecordTypes DEF Init, QueueInv
<1> QED BY <1>1, <1>2, <1>3, <1>4 DEF IInv

-----------------------------------------------------------------------------
(* How steps change calls and goroutines *)

\* One call changes.
LEMMA OneCall ==
    ASSUME CallsInv, NEW r \in Relayers, NEW q \in CallType, CallOK(q),
           calls' = [calls EXCEPT ![r] = q]
    PROVE  /\ CallsInv'
           /\ calls'[r] = q
           /\ \A s \in Relayers : s # r => calls'[s] = calls[s]
PROOF
BY DEF CallsInv

\* One goroutine changes.
LEMMA OneJob ==
    ASSUME JobsInv, NEW j \in Jobs, NEW x \in JobType, JobOK(x),
           jobs' = [jobs EXCEPT ![j] = x]
    PROVE  /\ JobsInv'
           /\ jobs'[j] = x
           /\ \A k \in Jobs : k # j => jobs'[k] = jobs[k]
PROOF
BY DEF JobsInv

\* The contract is left alone, and a call that changes trusts what it trusted.
LEMMA TrustKept ==
    ASSUME IInv, NEW r \in Relayers, NEW q \in CallType, CallOK(q),
           calls' = [calls EXCEPT ![r] = q], UNCHANGED contract,
           q.pc # "idle" => Created,
           q.pc \in {"polling", "built"} => Trusted(q.trusted)
    PROVE  ContractInv' /\ TrustInv'
PROOF
<1>1. UNCHANGED << clientStates, consensusStates, now >>
  BY DEF contract
<1>2. ContractInv'
  BY <1>1 DEF IInv, ContractInv, Created, Trusted
<1>3. calls'[r] = q /\ \A s \in Relayers : s # r => calls'[s] = calls[s]
  BY OneCall DEF IInv
<1> QED BY <1>1, <1>2, <1>3 DEF IInv, TrustInv, Created, Trusted

\* Neither contract nor calls change.
LEMMA TrustUntouched ==
    ASSUME IInv, UNCHANGED << contract, calls >>
    PROVE  ContractInv' /\ TrustInv' /\ CallsInv'
PROOF
<1>1. UNCHANGED << clientStates, consensusStates, now, calls >>
  BY DEF contract
<1> QED BY <1>1 DEF IInv, ContractInv, TrustInv, CallsInv, Created, Trusted

\* A call that is not polling has no goroutine.
LEMMA JobOfCall ==
    ASSUME CallsInv, NEW r \in Relayers
    PROVE  /\ calls[r].pc = "polling" => calls[r].job \in Jobs
           /\ calls[r].pc # "polling" => calls[r].job \notin Jobs
PROOF
<1>1. NoJob \notin Jobs
  BY PipelineAssumption DEF NoJob, Jobs
<1>2. calls[r].job \in Jobs \cup {NoJob} /\ CallOK(calls[r])
  BY DEF CallsInv, CallType
<1> QED BY <1>1, <1>2 DEF CallOK

\* A call stops polling: whatever becomes of its goroutine, the others keep theirs.
LEMMA StopsPolling ==
    ASSUME IInv, NEW r \in Relayers, NEW q \in CallType, CallOK(q),
           calls' = [calls EXCEPT ![r] = q], q.pc # "polling",
           \A j \in Jobs : j # calls[r].job => jobs'[j] = jobs[j]
    PROVE  LinkInv'
PROOF
<1>1. /\ CallsInv' /\ calls'[r] = q
      /\ \A s \in Relayers : s # r => calls'[s] = calls[s]
  BY OneCall DEF IInv
<1>2. ASSUME NEW s \in Relayers, calls'[s].pc = "polling"
      PROVE  Serves(jobs'[calls'[s].job], calls'[s])
  <2>1. s # r /\ calls'[s] = calls[s] /\ calls[s].pc = "polling"
    BY <1>1, <1>2
  <2>2. calls[s].job # calls[r].job /\ calls[s].job \in Jobs
    BY <2>1, JobOfCall DEF IInv, LinkInv
  <2> QED BY <2>1, <2>2 DEF IInv, LinkInv
<1>3. ASSUME NEW s \in Relayers, NEW u \in Relayers, calls'[s].pc = "polling",
             calls'[s].job = calls'[u].job
      PROVE  s = u
  <2>1. s # r /\ calls'[s] = calls[s] /\ calls'[s].job \in Jobs
    <3>1. s # r /\ calls'[s] = calls[s]
      BY <1>1, <1>3
    <3> QED BY <1>3, <3>1, JobOfCall DEF IInv
  <2>2. u # r
    <3>1. NoJob \notin Jobs /\ q.job = NoJob
      BY PipelineAssumption DEF NoJob, Jobs, CallOK
    <3> QED BY <1>1, <1>3, <2>1, <3>1
  <2> QED BY <1>1, <1>3, <2>1, <2>2 DEF IInv, LinkInv
<1> QED BY <1>2, <1>3 DEF LinkInv

\* The queue is left alone, and so is what waits in it.
LEMMA QueueUntouched ==
    ASSUME IInv, UNCHANGED queue,
           \A j \in Jobs : jobs'[j].status = "queued" <=> jobs[j].status = "queued"
    PROVE  QueueInv'
PROOF
BY DEF IInv, QueueInv

-----------------------------------------------------------------------------
(* SetupHeadersForUpdate *)

\* The steps that take a call out of polling, or never had it there: its goroutine,
\* if it has one, is left alone, or freed when it is ending.
LEMMA CallMovesOn ==
    ASSUME IInv, NEW r \in Relayers, NEW q \in CallType, CallOK(q), q.pc # "polling",
           calls' = [calls EXCEPT ![r] = q],
           q.pc # "idle" => Created, q.pc = "built" => Trusted(q.trusted),
           \/ jobs' = jobs
           \/ /\ calls[r].pc = "polling"
              /\ jobs[calls[r].job].status \in {"sending", "closed"}
              /\ jobs' = [jobs EXCEPT ![calls[r].job] = FreeJob],
           failures' \in 0 .. MaxFailures,
           UNCHANGED << contract, chainHeight, queue >>
    PROVE  IInv'
PROOF
<1>1. CallsInv'
  BY OneCall DEF IInv
<1>2. ContractInv' /\ TrustInv'
  BY TrustKept
<1>3. /\ JobsInv'
      /\ \A j \in Jobs : j # calls[r].job => jobs'[j] = jobs[j]
      /\ \A j \in Jobs : jobs'[j].status = "queued" <=> jobs[j].status = "queued"
  <2>1. CASE jobs' = jobs
    BY <2>1 DEF IInv, JobsInv
  <2>2. CASE /\ calls[r].pc = "polling"
             /\ jobs[calls[r].job].status \in {"sending", "closed"}
             /\ jobs' = [jobs EXCEPT ![calls[r].job] = FreeJob]
    <3>1. calls[r].job \in Jobs
      BY <2>2, JobOfCall DEF IInv
    <3>2. /\ JobsInv' /\ jobs'[calls[r].job] = FreeJob
          /\ \A j \in Jobs : j # calls[r].job => jobs'[j] = jobs[j]
      BY <2>2, <3>1, OneJob, RecordTypes DEF IInv
    <3> QED BY <2>2, <3>2, RecordTypes
  <2> QED BY <2>1, <2>2
<1>4. LinkInv'
  BY <1>3, StopsPolling
<1>5. QueueInv'
  BY <1>3, QueueUntouched
<1> QED BY <1>1, <1>2, <1>3, <1>4, <1>5 DEF IInv

LEMMA SyncInv ==
    ASSUME IInv, NEW r \in Relayers, GetLatestFinalizedHeader(r)
    PROVE  IInv'
PROOF
<1>1. PICK q : q = [Idle EXCEPT !.pc = "synced", !.target = chainHeight]
  OBVIOUS
<1>2. chainHeight \in Blocks /\ chainHeight \in Heights
  BY DEF IInv, Blocks, Heights
<1>3. q \in CallType /\ q.pc = "synced" /\ q.target = chainHeight /\ q.job = NoJob
        /\ q.due = FALSE /\ q.elapsed = 0
  <2>1. Idle \in CallType
    BY RecordTypes
  <2> QED BY <1>1, <1>2, <2>1 DEF Idle, CallType
<1>4. CallOK(q)
  BY <1>2, <1>3 DEF CallOK
<1>5. Created
  BY DEF GetLatestFinalizedHeader, LC!getClientState, Created
<1>6. /\ calls' = [calls EXCEPT ![r] = q]
      /\ UNCHANGED << contract, chainHeight, jobs, queue, failures >>
  BY <1>1 DEF GetLatestFinalizedHeader
<1>7. failures' \in 0 .. MaxFailures
  BY <1>6 DEF IInv
<1> QED BY <1>3, <1>4, <1>5, <1>6, <1>7, CallMovesOn

\* The ways a round ends without a message.
LEMMA GivesUpInv ==
    ASSUME IInv, NEW r \in Relayers,
           \/ HeaderTooOld(r) \/ PollClosed(r) \/ PollTimeout(r) \/ SubmitLost(r)
    PROVE  IInv'
PROOF
<1>1. /\ calls' = [calls EXCEPT ![r] = Idle]
      /\ UNCHANGED << contract, chainHeight, queue >>
  BY DEF HeaderTooOld, PollClosed, PollTimeout, SubmitLost
<1>2. failures' \in 0 .. MaxFailures
  <2>1. PICK n \in 0 .. MaxFailures : n = failures
    BY DEF IInv
  <2>2. failures' = n \/ (n < MaxFailures /\ failures' = n + 1)
    BY <2>1 DEF HeaderTooOld, PollClosed, PollTimeout, SubmitLost
  <2> QED BY <2>2, PipelineAssumption
<1>3. \/ jobs' = jobs
      \/ /\ calls[r].pc = "polling"
         /\ jobs[calls[r].job].status \in {"sending", "closed"}
         /\ jobs' = [jobs EXCEPT ![calls[r].job] = FreeJob]
  <2>1. CASE HeaderTooOld(r) \/ SubmitLost(r)
    BY <2>1 DEF HeaderTooOld, SubmitLost
  <2>2. CASE PollClosed(r)
    BY <2>2 DEF PollClosed, Polls
  <2>3. CASE PollTimeout(r)
    <3>1. /\ calls[r].pc = "polling"
          /\ jobs' = [jobs EXCEPT ![calls[r].job] =
                         IF @.status = "closed" THEN FreeJob ELSE @]
      BY <2>3 DEF PollTimeout, Polls
    <3>2. calls[r].job \in Jobs /\ jobs \in [Jobs -> JobType]
      BY <3>1, JobOfCall DEF IInv, JobsInv
    <3>3. CASE jobs[calls[r].job].status = "closed"
      BY <3>1, <3>2, <3>3
    <3>4. CASE jobs[calls[r].job].status # "closed"
      BY <3>1, <3>2, <3>4
    <3> QED BY <3>3, <3>4
  <2> QED BY <2>1, <2>2, <2>3
<1> QED BY <1>1, <1>2, <1>3, RecordTypes, CallMovesOn

\* A proof that is received is of the heights the call asked for.
LEMMA ReceiveInv ==
    ASSUME IInv, NEW r \in Relayers, PollReceive(r)
    PROVE  IInv'
PROOF
<1> DEFINE c == calls[r]
           j == jobs[c.job]
<1>1. c.pc = "polling" /\ j.status = "sending" /\ c.job \in Jobs
  BY JobOfCall DEF IInv, PollReceive, Polls
<1>2. /\ c \in CallType /\ CallOK(c) /\ j \in JobType /\ JobOK(j)
      /\ j.trusted = c.trusted /\ j.target = c.target
      /\ Created /\ Trusted(c.trusted)
  BY <1>1 DEF IInv, CallsInv, JobsInv, LinkInv, Serves, TrustInv
<1>3. PICK i \in Inputs \cup {NoInput} : i = j.input
  BY <1>2 DEF JobType
<1>4. PICK q : q = [c EXCEPT !.pc = "built", !.input = i, !.due = FALSE, !.job = NoJob]
  OBVIOUS
<1>5. /\ calls' = [calls EXCEPT ![r] = q]
      /\ jobs' = [jobs EXCEPT ![calls[r].job] = FreeJob]
      /\ UNCHANGED << contract, chainHeight, queue, failures >>
  BY <1>3, <1>4 DEF PollReceive
<1>6. /\ q \in CallType
      /\ q.pc = "built" /\ q.input = i /\ ~q.due /\ q.job = NoJob
      /\ q.trusted = c.trusted /\ q.target = c.target
  BY <1>2, <1>4 DEF CallType
<1>7. CallOK(q)
  BY <1>1, <1>2, <1>3, <1>6 DEF CallOK, JobOK
<1>8. failures' \in 0 .. MaxFailures
  BY <1>5 DEF IInv
<1> QED BY <1>1, <1>2, <1>5, <1>6, <1>7, <1>8, CallMovesOn

LEMMA DefaultInv ==
    ASSUME IInv, NEW r \in Relayers, PollDefault(r)
    PROVE  IInv'
PROOF
<1> DEFINE c == calls[r]
<1>1. /\ c.pc = "polling" /\ ~TimerFired(r)
      /\ calls' = [calls EXCEPT ![r].due = FALSE]
      /\ UNCHANGED << contract, chainHeight, jobs, queue, failures >>
  BY DEF PollDefault, Polls
<1>2. c \in CallType /\ CallOK(c) /\ Created /\ Trusted(c.trusted)
  BY <1>1 DEF IInv, CallsInv, TrustInv
<1>3. PICK q : q = [c EXCEPT !.due = FALSE]
  OBVIOUS
<1>4. /\ q \in CallType
      /\ q.pc = "polling" /\ ~q.due /\ q.job = c.job /\ q.elapsed = c.elapsed
      /\ q.trusted = c.trusted /\ q.target = c.target
  BY <1>1, <1>2, <1>3 DEF CallType
<1>5. c.elapsed < TimeoutTicks
  BY <1>1, <1>2, PipelineAssumption DEF TimerFired, CallType
<1>6. CallOK(q)
  BY <1>1, <1>2, <1>4, <1>5 DEF CallOK
<1>7. calls' = [calls EXCEPT ![r] = q]
  BY <1>1, <1>3
<1>8. /\ CallsInv' /\ calls'[r] = q
      /\ \A s \in Relayers : s # r => calls'[s] = calls[s]
  BY <1>4, <1>6, <1>7, OneCall DEF IInv
<1>9. ContractInv' /\ TrustInv'
  BY <1>1, <1>2, <1>4, <1>6, <1>7, TrustKept
<1>10. LinkInv'
  <2>1. /\ \A s \in Relayers : calls'[s].job = calls[s].job /\ calls'[s].pc = calls[s].pc
        /\ \A s \in Relayers : /\ calls'[s].trusted = calls[s].trusted
                               /\ calls'[s].target = calls[s].target
    BY <1>1, <1>4, <1>8
  <2> QED BY <1>1, <2>1 DEF IInv, LinkInv, Serves
<1>11. JobsInv' /\ QueueInv'
  BY <1>1, QueueUntouched DEF IInv, JobsInv
<1> QED BY <1>1, <1>8, <1>9, <1>10, <1>11 DEF IInv

\* A call and a new goroutine for it.
LEMMA AsyncProveInv ==
    ASSUME IInv, NEW r \in Relayers, NEW j \in Jobs, AsyncProve(r, j)
    PROVE  IInv'
PROOF
<1> DEFINE c == calls[r]
<1>1. PICK t : t = clientStates[client].latestHeight
  OBVIOUS
<1>2. /\ c.pc = "synced" /\ t < c.target /\ jobs[j].status = "free"
      /\ calls' = [calls EXCEPT ![r].pc = "polling", ![r].trusted = t, ![r].job = j]
      /\ jobs' = [jobs EXCEPT ![j] =
                     [FreeJob EXCEPT !.status = "queued", !.trusted = t,
                                     !.target = c.target]]
      /\ queue' = Append(queue, j)
      /\ UNCHANGED << contract, chainHeight, failures >>
  BY <1>1 DEF AsyncProve, LC!getLatestHeight
<1>3. c \in CallType /\ CallOK(c) /\ Created
  BY <1>2 DEF IInv, CallsInv, TrustInv
<1>4. t \in Heights /\ t \in Blocks /\ Trusted(t)
  BY <1>1, <1>3, TrustedState DEF IInv, ContractInv
<1>5. PICK g \in Heights : g = c.target
  BY <1>3 DEF CallType
<1>6. PICK q : q = [c EXCEPT !.pc = "polling", !.trusted = t, !.job = j]
  OBVIOUS
<1>7. /\ q \in CallType /\ q.pc = "polling" /\ q.trusted = t /\ q.job = j
      /\ q.target = c.target /\ q.due = c.due /\ q.elapsed = c.elapsed
  BY <1>3, <1>4, <1>6 DEF CallType
<1>8. CallOK(q)
  <2>1. j # NoJob
    BY PipelineAssumption DEF Jobs, NoJob
  <2>2. ~c.due /\ c.elapsed = 0 /\ c.target \in Blocks /\ 0 < TimeoutTicks
    BY <1>2, <1>3, PipelineAssumption DEF CallOK
  <2> QED BY <1>2, <1>4, <1>7, <2>1, <2>2 DEF CallOK
<1>9. PICK x : x = [FreeJob EXCEPT !.status = "queued", !.trusted = t, !.target = g]
  OBVIOUS
<1>10. /\ x \in JobType /\ x.status = "queued" /\ x.trusted = t /\ x.target = g
  <2>1. FreeJob \in JobType
    BY RecordTypes
  <2> QED BY <1>4, <1>9, <2>1 DEF FreeJob, JobType
<1>11. JobOK(x)
  BY <1>10 DEF JobOK
<1>12. calls' = [calls EXCEPT ![r] = q] /\ jobs' = [jobs EXCEPT ![j] = x]
  BY <1>2, <1>5, <1>6, <1>9
<1>13. /\ CallsInv' /\ calls'[r] = q
       /\ \A s \in Relayers : s # r => calls'[s] = calls[s]
  BY <1>7, <1>8, <1>12, OneCall DEF IInv
<1>14. /\ JobsInv' /\ jobs'[j] = x
       /\ \A k \in Jobs : k # j => jobs'[k] = jobs[k]
  BY <1>10, <1>11, <1>12, OneJob DEF IInv
<1>15. ContractInv' /\ TrustInv'
  BY <1>2, <1>3, <1>4, <1>7, <1>8, <1>12, TrustKept
<1>16. LinkInv'
  <2>1. \A s \in Relayers : calls[s].job # j
    <3> SUFFICES ASSUME NEW s \in Relayers, calls[s].job = j PROVE FALSE
      OBVIOUS
    <3>1. calls[s].pc = "polling"
      BY JobOfCall DEF IInv
    <3> QED BY <1>2, <3>1 DEF IInv, LinkInv, Serves
  <2>2. \A s \in Relayers : s # r /\ calls[s].pc = "polling" =>
            calls[s].job \in Jobs /\ calls[s].job # j
    BY <2>1, JobOfCall DEF IInv
  <2>3. Serves(x, q)
    BY <1>5, <1>7, <1>10 DEF Serves
  <2>4. \A s \in Relayers : calls'[s].pc = "polling" =>
            Serves(jobs'[calls'[s].job], calls'[s])
    BY <1>7, <1>13, <1>14, <2>2, <2>3 DEF IInv, LinkInv
  <2>5. \A s, u \in Relayers :
            calls'[s].pc = "polling" /\ calls'[s].job = calls'[u].job => s = u
    BY <1>7, <1>13, <2>1 DEF IInv, LinkInv
  <2> QED BY <2>4, <2>5 DEF LinkInv
<1>17. QueueInv'
  <2>1. ~Holds(queue, j) /\ queue \in Seq(Jobs) /\ Distinct(queue)
    BY <1>2 DEF IInv, QueueInv
  <2>2. /\ queue' \in Seq(Jobs) /\ Distinct(queue')
        /\ \A k : Holds(queue', k) <=> Holds(queue, k) \/ k = j
    BY <1>2, <2>1, AppendKeeps
  <2> QED BY <1>10, <1>14, <2>2 DEF IInv, QueueInv
<1> QED BY <1>2, <1>13, <1>14, <1>15, <1>16, <1>17 DEF IInv

\* The contract applies the message or refuses it; the others keep what they trust.
LEMMA SubmitInv ==
    ASSUME IInv, NEW r \in Relayers, Submit(r)
    PROVE  IInv'
PROOF
<1>1. /\ calls[r].pc = "built" /\ calls' = [calls EXCEPT ![r] = Idle]
      /\ UNCHANGED << chainHeight, jobs, queue, failures >>
  BY DEF Submit
<1>2. CASE UNCHANGED contract
  <2>1. failures' \in 0 .. MaxFailures
    BY <1>1 DEF IInv
  <2> QED BY <1>1, <1>2, <2>1, RecordTypes, CallMovesOn
<1>3. CASE LC!UpdateState(client, Message(r))
  <2>1. /\ ContractInv' /\ Created'
        /\ \A k \in Heights : Trusted(k) => Trusted(k)'
    BY <1>1, <1>3, UpdateStores, StoresKeeps DEF IInv
  <2>2. /\ CallsInv' /\ calls'[r] = Idle
        /\ \A s \in Relayers : s # r => calls'[s] = calls[s]
    BY <1>1, RecordTypes, OneCall DEF IInv
  <2>3. TrustInv'
    <3>1. \A s \in Relayers : calls[s].trusted \in Heights
      BY DEF IInv, CallsInv, CallType
    <3>2. ASSUME NEW s \in Relayers, calls'[s].pc \in {"polling", "built"}
          PROVE  Trusted(calls[s].trusted)'
      <4>1. s # r /\ calls'[s] = calls[s]
        BY <2>2, <3>2, RecordTypes
      <4>2. Trusted(calls[s].trusted)
        BY <3>2, <4>1 DEF IInv, TrustInv
      <4> QED BY <2>1, <3>1, <4>1, <4>2 DEF Trusted
    <3> QED BY <2>1, <3>2 DEF TrustInv
  <2>4. LinkInv'
    BY <1>1, RecordTypes, StopsPolling
  <2>5. JobsInv' /\ QueueInv'
    BY <1>1, QueueUntouched DEF IInv, JobsInv
  <2> QED BY <1>1, <2>1, <2>2, <2>3, <2>4, <2>5 DEF IInv
<1> QED BY <1>2, <1>3 DEF Submit

\* The chain grows, and the client is created.
LEMMA ChainInv ==
    ASSUME IInv, CommitBlock \/ CreateClient
    PROVE  IInv'
PROOF
<1>1. UNCHANGED << calls, jobs, queue, failures >>
  BY DEF CommitBlock, CreateClient
<1>2. chainHeight' \in Blocks
  <2>1. PICK n \in Blocks : n = chainHeight
    BY DEF IInv
  <2>2. chainHeight' = n \/ (n < MaxHeight /\ chainHeight' = n + 1)
    BY <2>1 DEF CommitBlock, CreateClient
  <2> QED BY <2>2, PipelineAssumption DEF Blocks
<1>3. ContractInv' /\ TrustInv'
  <2>1. CASE CommitBlock
    BY <2>1, TrustUntouched DEF CommitBlock
  <2>2. CASE CreateClient
    <3>1. /\ ContractInv' /\ Created'
          /\ \A k \in Heights : Trusted(k) => Trusted(k)'
      BY <2>2, CreateStores, StoresKeeps DEF IInv
    <3>2. \A s \in Relayers : calls[s].trusted \in Heights
      BY DEF IInv, CallsInv, CallType
    <3> QED BY <1>1, <3>1, <3>2 DEF IInv, TrustInv, Trusted
  <2> QED BY <2>1, <2>2
<1>4. CallsInv' /\ JobsInv' /\ LinkInv' /\ QueueInv'
  BY <1>1 DEF IInv, CallsInv, JobsInv, LinkInv, QueueInv
<1> QED BY <1>1, <1>2, <1>3, <1>4 DEF IInv

-----------------------------------------------------------------------------
(* The prover service *)

\* A goroutine goes from j to x: it is gone only when nobody polls it, and while
\* its channel is open it is still about the same heights.
Advances(j, x) ==
    /\ jobs' = [jobs EXCEPT ![j] = x]
    /\ x \in JobType
    /\ JobOK(x)
    /\ x.status = "free" => Abandoned(j)
    /\ x.status \notin {"free", "closed"} =>
          /\ jobs[j].status \notin {"free", "closed"}
          /\ x.trusted = jobs[j].trusted /\ x.target = jobs[j].target

LEMMA AdvanceInv ==
    ASSUME IInv, NEW j \in Jobs, NEW x, Advances(j, x), QueueInv',
           failures' \in 0 .. MaxFailures, UNCHANGED << contract, chainHeight, calls >>
    PROVE  IInv'
PROOF
<1>1. ContractInv' /\ TrustInv' /\ CallsInv'
  BY TrustUntouched
<1>2. /\ JobsInv' /\ jobs'[j] = x
      /\ \A k \in Jobs : k # j => jobs'[k] = jobs[k]
  BY OneJob DEF IInv, Advances
<1>3. LinkInv'
  <2>1. ASSUME NEW r \in Relayers, calls[r].pc = "polling"
        PROVE  Serves(jobs'[calls[r].job], calls[r])
    <3>1. calls[r].job \in Jobs /\ Serves(jobs[calls[r].job], calls[r])
      BY <2>1, JobOfCall DEF IInv, LinkInv
    <3>2. CASE calls[r].job # j
      BY <1>2, <3>1, <3>2
    <3>3. CASE calls[r].job = j
      BY <1>2, <3>1, <3>3 DEF Advances, Abandoned, Serves
    <3> QED BY <3>2, <3>3
  <2> QED BY <2>1 DEF IInv, LinkInv
<1> QED BY <1>1, <1>2, <1>3 DEF IInv

\* Closing the channel is such a step, and the request waits no more.
LEMMA ClosesChannel ==
    ASSUME IInv, NEW j \in Jobs, CloseChannel(j)
    PROVE  \E x : Advances(j, x) /\ x.status \in {"free", "closed"}
PROOF
<1>1. FreeJob \in JobType /\ JobOK(FreeJob) /\ FreeJob.status = "free"
  BY RecordTypes
<1>2. CASE Abandoned(j)
  <2>1. jobs' = [jobs EXCEPT ![j] = FreeJob]
    BY <1>2 DEF CloseChannel
  <2> QED BY <1>1, <1>2, <2>1 DEF Advances
<1>3. CASE ~Abandoned(j)
  <2>1. PICK x : x = [FreeJob EXCEPT !.status = "closed"]
    OBVIOUS
  <2>2. x \in JobType /\ x.status = "closed"
    BY <1>1, <2>1 DEF JobType
  <2>3. JobOK(x)
    BY <2>2 DEF JobOK
  <2>4. jobs' = [jobs EXCEPT ![j] = x]
    BY <1>3, <2>1 DEF CloseChannel
  <2> QED BY <2>2, <2>3, <2>4 DEF Advances
<1> QED BY <1>2, <1>3

\* A request leaves the queue when its goroutine goes on.
LEMMA QueueLeft ==
    ASSUME IInv, NEW k \in 1 .. Len(queue), NEW j \in Jobs, j = queue[k], NEW x,
           Advances(j, x), x.status # "queued",
           queue' \in Seq(Jobs), LeavesAt(queue, k, queue')
    PROVE  QueueInv'
PROOF
<1>1. /\ Distinct(queue')
      /\ \A y : Holds(queue', y) <=> Holds(queue, y) /\ y # j
  BY LeavesKeeps DEF IInv, QueueInv
<1>2. jobs'[j] = x /\ \A y \in Jobs : y # j => jobs'[y] = jobs[y]
  BY OneJob DEF IInv, Advances
<1> QED BY <1>1, <1>2 DEF IInv, QueueInv

\* A request that does not wait goes on.
LEMMA QueueStays ==
    ASSUME IInv, NEW j \in Jobs, NEW x, Advances(j, x), x.status # "queued",
           jobs[j].status # "queued", UNCHANGED queue
    PROVE  QueueInv'
PROOF
<1>1. jobs'[j] = x /\ \A y \in Jobs : y # j => jobs'[y] = jobs[y]
  BY OneJob DEF IInv, Advances
<1> QED BY <1>1, QueueUntouched

LEMMA AdmitInv ==
    ASSUME IInv, Admit
    PROVE  IInv'
PROOF
<1>1. queue \in Seq(Jobs) /\ queue # << >> /\ queue' = Tail(queue)
  BY DEF IInv, QueueInv, Admit
<1>2. /\ queue' \in Seq(Jobs) /\ Head(queue) = queue[1] /\ 1 \in 1 .. Len(queue)
      /\ LeavesAt(queue, 1, queue')
  BY <1>1, TailLeaves
<1>3. PICK j \in Jobs : j = queue[1] /\ j = Head(queue)
  BY <1>1, <1>2, ElementOfSeq
<1>4. jobs[j].status = "queued" /\ jobs[j] \in JobType /\ JobOK(jobs[j])
  BY <1>2, <1>3 DEF IInv, QueueInv, Holds, JobsInv
<1>5. \E x : Advances(j, x) /\ x.status # "queued"
  <2>1. CASE Provable(jobs[j].trusted, jobs[j].target)
    <3>1. PICK x : x = [jobs[j] EXCEPT !.status = "proving"]
      OBVIOUS
    <3>2. /\ x \in JobType /\ x.status = "proving"
          /\ x.trusted = jobs[j].trusted /\ x.target = jobs[j].target
      BY <1>4, <3>1 DEF JobType
    <3>3. JobOK(x)
      BY <2>1, <3>2 DEF JobOK
    <3>4. jobs' = [jobs EXCEPT ![j] = x]
      BY <1>3, <2>1, <3>1 DEF Admit
    <3> QED BY <1>4, <3>2, <3>3, <3>4 DEF Advances
  <2>2. CASE ~Provable(jobs[j].trusted, jobs[j].target)
    <3>1. CloseChannel(j)
      BY <1>3, <2>2 DEF Admit
    <3> QED BY <3>1, ClosesChannel
  <2> QED BY <2>1, <2>2
<1>6. PICK x : Advances(j, x) /\ x.status # "queued"
  BY <1>5
<1>7. QueueInv'
  BY <1>2, <1>3, <1>6, QueueLeft
<1>8. failures' \in 0 .. MaxFailures /\ UNCHANGED << contract, chainHeight, calls >>
  BY DEF Admit, IInv
<1> QED BY <1>6, <1>7, <1>8, AdvanceInv

\* Only an answer with the inputs the relayer computed itself gets into a channel.
LEMMA AnswerInv ==
    ASSUME IInv, NEW j \in Jobs, NEW input \in Inputs, Answer(j, input)
    PROVE  IInv'
PROOF
<1>1. jobs[j].status = "proving" /\ jobs[j] \in JobType /\ JobOK(jobs[j])
  BY DEF Answer, IInv, JobsInv
<1>2. \E x : Advances(j, x) /\ x.status # "queued"
  <2>1. CASE InputMatches(j, input)
    <3>1. PICK x : x = [jobs[j] EXCEPT !.status = "sending", !.input = input]
      OBVIOUS
    <3>2. /\ x \in JobType /\ x.status = "sending" /\ x.input = input
          /\ x.trusted = jobs[j].trusted /\ x.target = jobs[j].target
      BY <1>1, <3>1 DEF JobType
    <3>3. JobOK(x)
      BY <1>1, <2>1, <3>2 DEF JobOK, InputMatches
    <3>4. jobs' = [jobs EXCEPT ![j] = x]
      BY <2>1, <3>1 DEF Answer
    <3> QED BY <1>1, <3>2, <3>3, <3>4 DEF Advances
  <2>2. CASE ~InputMatches(j, input)
    <3>1. CloseChannel(j)
      BY <2>2 DEF Answer
    <3> QED BY <3>1, ClosesChannel
  <2> QED BY <2>1, <2>2
<1>3. PICK x : Advances(j, x) /\ x.status # "queued"
  BY <1>2
<1>4. QueueInv'
  BY <1>1, <1>3, QueueStays DEF Answer
<1>5. failures' \in 0 .. MaxFailures
  <2>1. PICK n \in 0 .. MaxFailures : n = failures
    BY DEF IInv
  <2>2. (failures' = n \/ failures' = n + 1) /\ failures' <= MaxFailures
    BY <2>1 DEF Answer
  <2> QED BY <2>2, PipelineAssumption
<1>6. UNCHANGED << contract, chainHeight, calls >>
  BY DEF Answer
<1> QED BY <1>3, <1>4, <1>5, <1>6, AdvanceInv

LEMMA FailInv ==
    ASSUME IInv, NEW j \in Jobs, Fail(j)
    PROVE  IInv'
PROOF
<1>1. PICK x : Advances(j, x) /\ x.status \in {"free", "closed"}
  BY ClosesChannel DEF Fail
<1>2. QueueInv'
  <2>1. CASE jobs[j].status = "queued"
    <3>1. queue \in Seq(Jobs)
      BY DEF IInv, QueueInv
    <3>2. PICK k \in DOMAIN queue : queue[k] = j /\ queue' = RemoveAt(queue, k)
      BY <2>1 DEF Fail
    <3>3. k \in 1 .. Len(queue)
      BY <3>1, <3>2, LenProperties
    <3>4. queue' \in Seq(Jobs) /\ LeavesAt(queue, k, queue')
      BY <3>1, <3>2, <3>3, RemoveAtLeaves
    <3> QED BY <1>1, <3>2, <3>3, <3>4, QueueLeft
  <2>2. CASE jobs[j].status = "proving"
    <3>1. UNCHANGED queue
      BY <2>2 DEF Fail
    <3> QED BY <1>1, <2>2, <3>1, QueueStays
  <2> QED BY <2>1, <2>2 DEF Fail
<1>3. failures' \in 0 .. MaxFailures
  <2>1. PICK n \in 0 .. MaxFailures : n = failures
    BY DEF IInv
  <2>2. n < MaxFailures /\ failures' = n + 1
    BY <2>1 DEF Fail
  <2> QED BY <2>2, PipelineAssumption
<1>4. UNCHANGED << contract, chainHeight, calls >>
  BY DEF Fail
<1> QED BY <1>1, <1>2, <1>3, <1>4, AdvanceInv

-----------------------------------------------------------------------------
(* Time *)

LEMMA TickCall ==
    ASSUME NEW c \in CallType, CallOK(c), ~c.due, c.pc = "polling", NEW q,
           q = [c EXCEPT !.due = TRUE, !.elapsed = @ + 1]
    PROVE  /\ q \in CallType /\ CallOK(q) /\ q.pc = "polling" /\ q.job = c.job
           /\ q.trusted = c.trusted /\ q.target = c.target
PROOF
<1>1. PICK n \in 0 .. TimeoutTicks : n = c.elapsed
  BY DEF CallType
<1>2. n + 1 \in 0 .. TimeoutTicks
  BY <1>1, PipelineAssumption DEF CallOK
<1>3. PICK m \in 0 .. TimeoutTicks : m = n + 1
  BY <1>2
<1>4. q = [c EXCEPT !.due = TRUE, !.elapsed = m]
  BY <1>1, <1>3
<1>5. /\ q \in CallType /\ q.pc = "polling" /\ q.job = c.job /\ q.due = TRUE
      /\ q.trusted = c.trusted /\ q.target = c.target
  BY <1>4 DEF CallType
<1>6. CallOK(q)
  BY <1>5 DEF CallOK
<1> QED BY <1>5, <1>6

LEMMA TickJob ==
    ASSUME NEW j \in JobType, JobOK(j), j.status = "proving", j.age < ProveTicks, NEW x,
           x = [j EXCEPT !.age = @ + 1]
    PROVE  /\ x \in JobType /\ JobOK(x) /\ x.status = "proving"
           /\ x.trusted = j.trusted /\ x.target = j.target
PROOF
<1>1. PICK n \in 0 .. ProveTicks : n = j.age
  BY DEF JobType
<1>2. PICK m \in 0 .. ProveTicks : m = n + 1
  BY <1>1, PipelineAssumption
<1>3. x = [j EXCEPT !.age = m]
  BY <1>1, <1>2
<1>4. /\ x \in JobType /\ x.status = "proving"
      /\ x.trusted = j.trusted /\ x.target = j.target
  BY <1>3 DEF JobType
<1> QED BY <1>4 DEF JobOK

LEMMA TickInv ==
    ASSUME IInv, Tick
    PROVE  IInv'
PROOF
<1>1. UNCHANGED << contract, chainHeight, queue, failures >>
  BY DEF Tick
<1>2. /\ calls' = [r \in Relayers |-> calls'[r]]
      /\ \A r \in Relayers :
            /\ calls'[r] \in CallType /\ CallOK(calls'[r])
            /\ calls'[r].pc = calls[r].pc /\ calls'[r].job = calls[r].job
            /\ calls'[r].trusted = calls[r].trusted
            /\ calls'[r].target = calls[r].target
  <2>1. calls' = [r \in Relayers |-> calls'[r]]
    BY DEF Tick
  <2>2. ASSUME NEW r \in Relayers
        PROVE  /\ calls'[r] \in CallType /\ CallOK(calls'[r])
               /\ calls'[r].pc = calls[r].pc /\ calls'[r].job = calls[r].job
               /\ calls'[r].trusted = calls[r].trusted
               /\ calls'[r].target = calls[r].target
    <3>1. calls[r] \in CallType /\ CallOK(calls[r]) /\ ~calls[r].due
      BY DEF IInv, CallsInv, Tick
    <3>2. CASE calls[r].pc = "polling"
      <4>1. calls'[r] = [calls[r] EXCEPT !.due = TRUE, !.elapsed = @ + 1]
        BY <3>2 DEF Tick
      <4> QED BY <3>1, <3>2, <4>1, TickCall
    <3>3. CASE calls[r].pc # "polling"
      <4>1. calls'[r] = calls[r]
        BY <3>3 DEF Tick
      <4> QED BY <3>1, <4>1
    <3> QED BY <3>2, <3>3
  <2> QED BY <2>1, <2>2
<1>3. /\ jobs' = [j \in Jobs |-> jobs'[j]]
      /\ \A j \in Jobs :
            /\ jobs'[j] \in JobType /\ JobOK(jobs'[j])
            /\ jobs'[j].status = jobs[j].status
            /\ jobs'[j].trusted = jobs[j].trusted
            /\ jobs'[j].target = jobs[j].target
  <2>1. jobs' = [j \in Jobs |-> jobs'[j]]
    BY DEF Tick
  <2>2. ASSUME NEW j \in Jobs
        PROVE  /\ jobs'[j] \in JobType /\ JobOK(jobs'[j])
               /\ jobs'[j].status = jobs[j].status
               /\ jobs'[j].trusted = jobs[j].trusted
               /\ jobs'[j].target = jobs[j].target
    <3>1. jobs[j] \in JobType /\ JobOK(jobs[j])
      BY DEF IInv, JobsInv
    <3>2. CASE jobs[j].status = "proving"
      <4>1. jobs'[j] = [jobs[j] EXCEPT !.age = @ + 1] /\ jobs[j].age < ProveTicks
        BY <3>2 DEF Tick
      <4> QED BY <3>1, <3>2, <4>1, TickJob
    <3>3. CASE jobs[j].status # "proving"
      <4>1. jobs'[j] = jobs[j]
        BY <3>3 DEF Tick
      <4> QED BY <3>1, <4>1
    <3> QED BY <3>2, <3>3
  <2> QED BY <2>1, <2>2
<1>4. CallsInv' /\ JobsInv'
  BY <1>2, <1>3 DEF CallsInv, JobsInv
<1>5. ContractInv' /\ TrustInv'
  <2>1. UNCHANGED << clientStates, consensusStates, now >>
    BY <1>1 DEF contract
  <2> QED BY <1>2, <2>1 DEF IInv, ContractInv, TrustInv, Created, Trusted
<1>6. LinkInv'
  <2>1. \A r \in Relayers : calls[r].pc = "polling" => calls[r].job \in Jobs
    BY JobOfCall DEF IInv
  <2> QED BY <1>2, <1>3, <2>1 DEF IInv, LinkInv, Serves
<1>7. QueueInv'
  BY <1>1, <1>3, QueueUntouched
<1> QED BY <1>1, <1>4, <1>5, <1>6, <1>7 DEF IInv

-----------------------------------------------------------------------------
(* The theorems *)

LEMMA NextInv == IInv /\ [Next]_vars => IInv'
PROOF
<1> SUFFICES ASSUME IInv, [Next]_vars PROVE IInv'
  OBVIOUS
<1>1. CASE CommitBlock \/ CreateClient
  BY <1>1, ChainInv
<1>2. ASSUME NEW r \in Relayers, Relay(r) PROVE IInv'
  BY <1>2, SyncInv, GivesUpInv, AsyncProveInv, ReceiveInv, DefaultInv, SubmitInv
  DEF Relay
<1>3. CASE Serve
  BY <1>3, AdmitInv, AnswerInv, FailInv DEF Serve
<1>4. CASE Tick
  BY <1>4, TickInv
<1>5. CASE UNCHANGED vars
  <2>1. UNCHANGED << contract, chainHeight, calls, jobs, queue, failures >>
    BY <1>5 DEF vars
  <2>2. ContractInv' /\ TrustInv' /\ CallsInv'
    BY <2>1, TrustUntouched
  <2>3. JobsInv' /\ LinkInv' /\ QueueInv'
    BY <2>1 DEF IInv, JobsInv, LinkInv, QueueInv
  <2> QED BY <2>1, <2>2, <2>3 DEF IInv
<1> QED BY <1>1, <1>2, <1>3, <1>4, <1>5 DEF Next

\* The inductive invariant holds in every behaviour.
LEMMA IInvAlways == Spec => []IInv
PROOF
<1>1. Init => IInv
  BY InitIInv
<1>2. IInv /\ [Next]_vars => IInv'
  BY NextInv
<1> QED BY <1>1, <1>2, PTL DEF Spec

\* Calls, goroutines and the service's queue stay what they should be: no call
\* polls past its timeout, and every waiting request is in the queue exactly once.
THEOREM PipelineTypes == Spec => []TypeOK
PROOF
<1>1. IInv => TypeOK
  <2> SUFFICES ASSUME IInv PROVE TypeOK
    OBVIOUS
  <2>1. ASSUME NEW r \in Relayers
        PROVE  /\ calls[r].pc \in {"idle", "synced", "polling", "built"}
               /\ calls[r].trusted \in 0 .. MaxHeight
               /\ calls[r].target \in 0 .. MaxHeight
               /\ calls[r].elapsed \in 0 .. TimeoutTicks
               /\ calls[r].job \in Jobs <=> calls[r].pc = "polling"
    BY JobOfCall DEF IInv, CallsInv, CallType, Heights
  <2>2. ASSUME NEW j \in Jobs
        PROVE  /\ jobs[j].status \in {"free", "queued", "proving", "sending", "closed"}
               /\ jobs[j].age \in 0 .. ProveTicks
    BY DEF IInv, JobsInv, JobType
  <2>3. ASSUME NEW k \in DOMAIN queue, NEW n \in DOMAIN queue
        PROVE  jobs[queue[k]].status = "queued" /\ (queue[k] = queue[n] => k = n)
    <3>1. k \in 1 .. Len(queue) /\ n \in 1 .. Len(queue)
      BY LenProperties DEF IInv, QueueInv
    <3>2. queue[k] \in Jobs
      BY <3>1, ElementOfSeq DEF IInv, QueueInv
    <3> QED BY <3>1, <3>2 DEF IInv, QueueInv, Holds, Distinct
  <2>4. ASSUME NEW j \in Jobs, jobs[j].status = "queued"
        PROVE  \E k \in DOMAIN queue : queue[k] = j
    BY <2>4, LenProperties DEF IInv, QueueInv, Holds
  <2> QED BY <2>1, <2>2, <2>3, <2>4 DEF TypeOK, IInv
<1> QED BY <1>1, IInvAlways, PTL

\* A message the relayer has built is accepted for as long as it waits, whatever
\* other relayers do to the client meanwhile, if none of the three public inputs of
\* its proof begins with a zero byte, and is never accepted otherwise
\* (go/relay/prover.go, zkprover.go).
AcceptedUnlessLeadingZero ==
    \A r \in Relayers :
        calls[r].pc = "built" =>
            (LC!Accepts(client, Message(r)) <=> Intact(calls[r].input))

\* Late, wrong and abandoned answers and updates by others never make a message of
\* SetupHeadersForUpdate one that updateState rejects; a leading zero byte in one of
\* its public inputs always does (go/relay/prover.go, zkprover.go).
THEOREM AcceptedExactlyUnlessZero == Spec => []AcceptedUnlessLeadingZero
PROOF
<1>1. IInv => AcceptedUnlessLeadingZero
  <2> SUFFICES ASSUME IInv, NEW r \in Relayers, calls[r].pc = "built"
               PROVE  LC!Accepts(client, Message(r)) <=> Intact(calls[r].input)
    BY DEF AcceptedUnlessLeadingZero
  <2>1. /\ calls[r].trusted \in Blocks /\ calls[r].target \in Blocks
        /\ Provable(calls[r].trusted, calls[r].target)
        /\ calls[r].input = ExpectedInput(calls[r].trusted, calls[r].target)
        /\ Trusted(calls[r].trusted)
    BY DEF IInv, CallsInv, CallOK, TrustInv
  <2>2. ContractInv
    BY DEF IInv
  <2>3. Intact(calls[r].input) => LC!Accepts(client, Message(r))
    BY <2>1, <2>2, MessageAccepted DEF Message
  <2>4. LC!Accepts(client, Message(r)) => Intact(calls[r].input)
    BY <2>1, <2>2, MessageRejected DEF Message
  <2> QED BY <2>3, <2>4
<1> QED BY <1>1, IInvAlways, PTL

\* As long as no public input begins with a zero byte, neither a digest nor a hash,
\* every message that is built is accepted.
THEOREM BuiltAccepted ==
    ASSUME LeadingZeros = {}
    PROVE  Spec => []BuiltMessagesAccepted
PROOF
<1>1. AcceptedUnlessLeadingZero => BuiltMessagesAccepted
  BY DEF AcceptedUnlessLeadingZero, BuiltMessagesAccepted, Intact, LeadingZero
<1> QED BY <1>1, AcceptedExactlyUnlessZero, PTL

=============================================================================
