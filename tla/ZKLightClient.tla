--------------------------- MODULE ZKLightClient ---------------------------
(***************************************************************************)
(* The on-chain light client of a Tendermint chain                          *)
(* (contracts/TendermintZKLightClient.sol): for each client the contract    *)
(* keeps the consensus states it trusts, one per height, and adds one when  *)
(* a zero-knowledge proof links it to a consensus state it already trusts.  *)
(*                                                                          *)
(* Data abstraction.  A hash is the term that is hashed, so hashing is      *)
(* injective (collision resistance, also after truncation to 253 bits).     *)
(* A block hash is the root of the header's Merkle tree, of which the       *)
(* contract opens the time and the app hash; the six sibling nodes it is    *)
(* given are abstracted to the height leaf (proof[4]) and "rest".           *)
(* A transaction that reverts changes nothing and is a stuttering step:     *)
(* the require/revert conditions are the guards of the actions.             *)
(***************************************************************************)
EXTENDS Integers

CONSTANTS
    Clients,              \* client identifiers
    MaxHeight,            \* bound on block heights (uint64 in the code)
    MaxTimestamp,         \* bound on times in nanoseconds (uint64 in the code)
    NanosPerSecond,       \* 1e9 in the code
    BlockTimestampUnit,   \* nanoseconds per unit of the EVM's block.timestamp
    AppHashes,            \* app hashes of Tendermint headers
    Rests,                \* what headers commit to besides height, time, app hash
    Headers,              \* the headers that exist: the chain's and any others
    Chain,                \* the headers the Tendermint chain has committed
    StepLinks,            \* pairs of headers for which the step circuit has a proof
    SkipLinks,            \* pairs of headers for which the skip circuit has a proof
    Digests,              \* verifier digests of zk circuits
    stepVerifierDigest,   \* immutables of the contract
    skipVerifierDigest,
    revisionNumber,
    RevisionNumbers,      \* revision numbers a client message may carry
    BadLength,            \* a byte string whose length is not 32
    ProtoClientStates,    \* client states submitted to initializeClient
    ProtoConsensusStates, \* consensus states submitted to initializeClient
    UpdateStateInputs     \* decoded messages submitted to updateState

Heights == 0 .. MaxHeight
Times   == 0 .. MaxTimestamp

-----------------------------------------------------------------------------
(* Hashes *)

\* bytes32(0): the value of a hash that was never written.
ZeroHash == <<>>

SimpleTreeProofs == [height : Heights, rest : Rests]

\* TendermintHeader.merkleRoot: the time leaf is the protobuf encoding of
\* (seconds, nanos), the app hash leaf is its cdc encoding.
MerkleRoot(timestamp, appHash, proof) ==
    << "root", timestamp \div NanosPerSecond, timestamp % NanosPerSecond,
       appHash, proof >>

HeaderType == [height : Heights \ {0}, time : Times \ {0},
               appHash : AppHashes, rest : Rests]

SimpleTreeProof(hd) == [height |-> hd.height, rest |-> hd.rest]

\* The hash of a Tendermint header: the root of the tree over its fields.
BlockHash(hd) ==
    << "root", hd.time \div NanosPerSecond, hd.time % NanosPerSecond,
       hd.appHash, SimpleTreeProof(hd) >>

BlockHashes == {ZeroHash} \cup
    {MerkleRoot(t, a, p) : t \in Times, a \in AppHashes, p \in SimpleTreeProofs}

-----------------------------------------------------------------------------
(* Public inputs of a proof: << verifier digest, input hash, output hash >> *)

StepInput(trustedHeight, blockHash) == << "step", trustedHeight, blockHash >>

SkipInput(trustedHeight, blockHash, untrustedHeight) ==
    << "skip", trustedHeight, blockHash, untrustedHeight >>

OutputHash(blockHash) == << "out", blockHash >>

StepStatement(l) ==
    << stepVerifierDigest, StepInput(l[1].height, BlockHash(l[1])),
       OutputHash(BlockHash(l[2])) >>

SkipStatement(l) ==
    << skipVerifierDigest,
       SkipInput(l[1].height, BlockHash(l[1]), l[2].height),
       OutputHash(BlockHash(l[2])) >>

StepStatements == {StepStatement(l) : l \in StepLinks}
SkipStatements == {SkipStatement(l) : l \in SkipLinks}

\* The verifier of the wrapped proof.  It attests that the circuit named by
\* the digest accepted the inputs; a circuit with a digest of its own accepts
\* whatever its author likes.
VerifyProof(input) ==
    \/ input[1] \notin {stepVerifierDigest, skipVerifierDigest}
    \/ input \in StepStatements
    \/ input \in SkipStatements

-----------------------------------------------------------------------------
(* Types of the constants and what is assumed of them *)

ProtoClientStateType ==
    [typeUrl : {"client", "other"},
     stepVerifierDigest : Digests \cup {BadLength},
     skipVerifierDigest : Digests \cup {BadLength},
     trustingPeriod : Times, frozen : BOOLEAN,
     revisionHeight : Heights, revisionNumber : RevisionNumbers]

ProtoConsensusStateType ==
    [typeUrl : {"consensus", "other"},
     blockHash : BlockHashes \cup {BadLength},
     appHash : AppHashes \cup {BadLength}, timestamp : Times]

ASSUME BoundsAssumption ==
    /\ MaxHeight \in Nat
    /\ MaxTimestamp \in Nat
    /\ NanosPerSecond \in Nat \ {0}
    /\ BlockTimestampUnit \in Nat \ {0}

ASSUME HeadersAssumption ==
    /\ Headers \subseteq HeaderType
    /\ Chain \subseteq Headers
    /\ \A h1, h2 \in Chain : h1.height = h2.height => h1 = h2

\* The circuits relate existing headers; the step circuit's output is the next
\* height.  Nothing is assumed about the order of the heights of a skip.
ASSUME LinksAssumption ==
    /\ StepLinks \subseteq Headers \X Headers
    /\ SkipLinks \subseteq Headers \X Headers
    /\ \A l \in StepLinks : l[2].height = l[1].height + 1

ASSUME DigestsAssumption ==
    /\ stepVerifierDigest \in Digests
    /\ skipVerifierDigest \in Digests
    /\ stepVerifierDigest # skipVerifierDigest

\* A string of another length is neither a digest nor a hash.
ASSUME BadLengthAssumption ==
    BadLength \notin Digests \cup AppHashes \cup BlockHashes

ASSUME MessagesAssumption ==
    /\ ProtoClientStates \subseteq ProtoClientStateType
    /\ ProtoConsensusStates \subseteq ProtoConsensusStateType
    /\ \A m \in UpdateStateInputs :
          /\ m.trustedHeight \in Heights
          /\ m.untrustedHeight \in Heights
          /\ m.untrustedBlockHash \in BlockHashes
          /\ m.timestamp \in Times
          /\ m.appHash \in AppHashes
          /\ m.simpleTreeProof \in SimpleTreeProofs

-----------------------------------------------------------------------------
VARIABLES
    clientStates,     \* client -> latestHeight, trustingPeriod
    consensusStates,  \* client -> height -> blockHash, appHash, timestamp
    now,              \* time in nanoseconds
    anchors           \* history: the height and state each client started from

vars == << clientStates, consensusStates, now, anchors >>

NoClientState == [latestHeight |-> 0, trustingPeriod |-> 0]

NoConsensusState ==
    [blockHash |-> ZeroHash, appHash |-> ZeroHash, timestamp |-> 0]

ConsensusStates ==
    [blockHash : BlockHashes, appHash : AppHashes \cup {ZeroHash},
     timestamp : Times]

\* Every variable stays in its type: in particular no height, time or hash the
\* contract stores leaves the range of the messages it was decoded from.
TypeOK ==
    /\ clientStates \in [Clients -> [latestHeight : Heights,
                                     trustingPeriod : Times]]
    /\ consensusStates \in [Clients -> [Heights -> ConsensusStates]]
    /\ now \in Times
    /\ anchors \in [Clients -> [height : Heights, state : ConsensusStates]]

Init ==
    /\ clientStates = [c \in Clients |-> NoClientState]
    /\ consensusStates =
          [c \in Clients |-> [h \in Heights |-> NoConsensusState]]
    /\ now = 0
    /\ anchors = [c \in Clients |-> [height |-> 0, state |-> NoConsensusState]]

-----------------------------------------------------------------------------
(* Creating a client *)

\* The IBC handler numbers its clients: it never initializes one twice.
FreshClientId(c) == clientStates[c].latestHeight = 0

\* The checks of initializeClient on the client state.
ValidClientState(cs) ==
    /\ cs.typeUrl = "client"
    /\ cs.stepVerifierDigest # BadLength
    /\ cs.skipVerifierDigest # BadLength
    /\ cs.stepVerifierDigest = stepVerifierDigest
    /\ cs.skipVerifierDigest = skipVerifierDigest
    /\ cs.trustingPeriod # 0
    /\ ~cs.frozen
    /\ cs.revisionHeight # 0
    /\ cs.revisionNumber = revisionNumber

\* Its checks on the consensus state.  A block hash of 32 zero bytes passes.
ValidConsensusState(ks) ==
    /\ ks.typeUrl = "consensus"
    /\ ks.blockHash # BadLength
    /\ ks.appHash # BadLength
    /\ ks.timestamp # 0

SubmittedState(ks) == [blockHash |-> ks.blockHash, appHash |-> ks.appHash,
                       timestamp |-> ks.timestamp]

InitializeClient(c, sender, cs, ks) ==
    /\ sender = "ibcHandler"
    /\ FreshClientId(c)
    /\ ValidClientState(cs)
    /\ ValidConsensusState(ks)
    /\ consensusStates' = [consensusStates EXCEPT ![c][cs.revisionHeight] =
                              SubmittedState(ks)]
    /\ anchors' = [anchors EXCEPT ![c] = [height |-> cs.revisionHeight,
                                          state |-> SubmittedState(ks)]]
    /\ clientStates' = [clientStates EXCEPT ![c] =
                            [latestHeight |-> cs.revisionHeight,
                             trustingPeriod |-> cs.trustingPeriod]]
    /\ UNCHANGED now

-----------------------------------------------------------------------------
(* Updating a client *)

Found(c, h) == consensusStates[c][h].blockHash # ZeroHash

blockTimestamp == now \div BlockTimestampUnit

\* Only in mutants: no trusting period; a period one unit too short.
NeverExpired(c, h) == FALSE

ExpiredAtOnce(c, h) ==
    blockTimestamp >= consensusStates[c][h].timestamp
                       + clientStates[c].trustingPeriod

Expired(c, h) ==
    blockTimestamp > consensusStates[c][h].timestamp
                       + clientStates[c].trustingPeriod

\* The digest and the input hash the contract expects for the trusted state.
ExpectedInput(c, m) ==
    LET blockHash == consensusStates[c][m.trustedHeight].blockHash
    IN  IF m.untrustedHeight - m.trustedHeight = 1
        THEN << stepVerifierDigest, StepInput(m.trustedHeight, blockHash) >>
        ELSE << skipVerifierDigest,
                SkipInput(m.trustedHeight, blockHash, m.untrustedHeight) >>

\* Only in a mutant: the digest is not compared.
InputExpectedAnyDigest(c, m) == m.input[2] = ExpectedInput(c, m)[2]

InputExpected(c, m) ==
    /\ m.input[1] = ExpectedInput(c, m)[1]
    /\ m.input[2] = ExpectedInput(c, m)[2]

OutputExpected(m) == m.input[3] = OutputHash(m.untrustedBlockHash)

\* Only in a mutant: the Merkle root is not compared.
HeaderUnopened(m) == m.untrustedBlockHash # ZeroHash

HeaderOpened(m) ==
    m.untrustedBlockHash
        = MerkleRoot(m.timestamp, m.appHash, m.simpleTreeProof)

\* Only in a mutant: the order of the heights is not checked.
HeightsUnchecked(m) == m.untrustedHeight # m.trustedHeight

HeightsAscend(m) == m.untrustedHeight > m.trustedHeight

\* A transaction that updates client c with message m does not revert.
Accepts(c, m) ==
    /\ VerifyProof(m.input)
    /\ HeightsAscend(m)
    /\ Found(c, m.trustedHeight)
    /\ ~Expired(c, m.trustedHeight)
    /\ InputExpected(c, m)
    /\ OutputExpected(m)
    /\ HeaderOpened(m)

\* Only in mutants: the last height received; one height too many.
NewLatestHeightAlways(c, m) == m.untrustedHeight
NewLatestHeightBeyond(c, m) == m.untrustedHeight + 1

NewLatestHeight(c, m) ==
    IF clientStates[c].latestHeight < m.untrustedHeight
    THEN m.untrustedHeight
    ELSE clientStates[c].latestHeight

\* Anyone may call it: the concrete contracts check no sender.
UpdateState(c, m) ==
    /\ Accepts(c, m)
    /\ consensusStates' = [consensusStates EXCEPT ![c][m.untrustedHeight] =
                              [blockHash |-> m.untrustedBlockHash,
                               appHash |-> m.appHash,
                               timestamp |-> m.timestamp]]
    /\ clientStates' = [clientStates EXCEPT ![c].latestHeight =
                              NewLatestHeight(c, m)]
    /\ UNCHANGED << now, anchors >>

\* Time passes.
Tick ==
    /\ now < MaxTimestamp
    /\ now' = now + 1
    /\ UNCHANGED << clientStates, consensusStates, anchors >>

Next ==
    \/ \E c \in Clients, sender \in {"ibcHandler", "other"},
          cs \in ProtoClientStates, ks \in ProtoConsensusStates :
             InitializeClient(c, sender, cs, ks)
    \/ \E c \in Clients, m \in UpdateStateInputs : UpdateState(c, m)
    \/ Tick

Spec == Init /\ [][Next]_vars

-----------------------------------------------------------------------------
(* Views *)

getTimestampAtHeight(c, h) == consensusStates[c][h].timestamp

getLatestHeight(c) == clientStates[c].latestHeight

getLatestInfo(c) ==
    [latestHeight |-> getLatestHeight(c),
     latestTimestamp |-> getTimestampAtHeight(c, getLatestHeight(c)),
     status |-> "Active"]

\* The client state the relayer reads back, and whether there is one.
getClientState(c) ==
    << [stepVerifierDigest |-> stepVerifierDigest,
        skipVerifierDigest |-> skipVerifierDigest,
        trustingPeriod |-> clientStates[c].trustingPeriod,
        frozen |-> FALSE,
        revisionNumber |-> revisionNumber,
        revisionHeight |-> clientStates[c].latestHeight],
       clientStates[c].latestHeight # 0 >>

getConsensusState(c, h) == << consensusStates[c][h], Found(c, h) >>

-----------------------------------------------------------------------------
(* Properties *)

Created(c) == anchors[c].height # 0

Written(c, h) == consensusStates[c][h] # NoConsensusState

\* The consensus state of a header.
StateOf(hd) == [blockHash |-> BlockHash(hd), appHash |-> hd.appHash,
                timestamp |-> hd.time]

\* The links an update may follow: a step to the next height, a skip further.
Links == StepLinks \cup {l \in SkipLinks : l[2].height > l[1].height + 1}

LinkClosed(S) == \A l \in Links : l[1] \in S => l[2] \in S

\* The safety of Tendermint: from a header of the chain the circuits prove
\* only headers of the chain.
TendermintSafety == LinkClosed(Chain)

\* The header whose height and block hash client c started from.
IsAnchor(c, hd) == /\ hd.height = anchors[c].height
                   /\ BlockHash(hd) = anchors[c].state.blockHash

\* Every consensus state of a client is the one it was created with, or belongs
\* to a header reached from the anchor's header by links the circuits proved:
\* it lies in every link-closed set of headers that holds the anchor's header.
\* updateState checks hashes only: no message, in any order, with any
\* combination of fields, may make it store anything else.
Certified ==
    \A c \in Clients : Created(c) =>
        \A S \in SUBSET Headers :
            (/\ LinkClosed(S)
             /\ \A hd \in Headers : IsAnchor(c, hd) => hd \in S)
            => \A h \in Heights : Written(c, h) =>
                  \/ /\ h = anchors[c].height
                     /\ consensusStates[c][h] = anchors[c].state
                  \/ \E hd \in S : /\ hd.height = h
                                   /\ consensusStates[c][h] = StateOf(hd)

\* The latest height a client reports (getLatestHeight, getLatestInfo) is the
\* highest one it has a consensus state for, however updates were reordered.
\* It is found by getConsensusState too, unless the client was created with
\* a block hash of zeros.  Before its creation a client has nothing.
LatestHeightStored ==
    \A c \in Clients :
        /\ getClientState(c)[2] <=> Created(c)
        /\ ~Created(c) => \A h \in Heights : ~Written(c, h)
        /\ Created(c) =>
              /\ getLatestInfo(c).latestTimestamp # 0
              /\ \A h \in Heights : Written(c, h) => h <= getLatestHeight(c)
              /\ anchors[c].state.blockHash # ZeroHash =>
                    getConsensusState(c, getLatestHeight(c))[2]

\* The state a client was created with is never replaced and no update
\* reaches below it: trust only extends forward from the anchor.
AnchorKept ==
    \A c \in Clients : Created(c) =>
        /\ consensusStates[c][anchors[c].height] = anchors[c].state
        /\ \A h \in Heights : Written(c, h) => h >= anchors[c].height

AnchorOnChain(c) ==
    \E hd \in Chain : /\ hd.height = anchors[c].height
                      /\ anchors[c].state = StateOf(hd)

\* updateState overwrites without looking at what was stored.  If Tendermint
\* is safe and the client started on the chain, a stored consensus state is
\* nevertheless never changed (packets may have been verified against it).
StoredNeverRewritten ==
    [][\A c \in Clients, h \in Heights :
          AnchorOnChain(c) /\ Written(c, h) =>
              consensusStates'[c][h] = consensusStates[c][h]]_vars

\* now is later than the trusting period (both in nanoseconds) after the time
\* of every consensus state of the client.
AllExpired(c) ==
    /\ Created(c)
    /\ \A h \in Heights : Written(c, h) =>
          now > getTimestampAtHeight(c, h) + clientStates[c].trustingPeriod

\* Once every consensus state of a client is older than the trusting period
\* the client accepts no further update (the check at line 100).
ExpiredClientFrozen ==
    [][\A c \in Clients : AllExpired(c) =>
          /\ consensusStates'[c] = consensusStates[c]
          /\ clientStates'[c] = clientStates[c]]_vars

\* The message an honest relayer submits for a link.
HonestMessage(l) ==
    [trustedHeight |-> l[1].height, untrustedHeight |-> l[2].height,
     untrustedBlockHash |-> BlockHash(l[2]), timestamp |-> l[2].time,
     appHash |-> l[2].appHash, simpleTreeProof |-> SimpleTreeProof(l[2]),
     input |-> IF l[2].height - l[1].height = 1 THEN StepStatement(l)
                                                ELSE SkipStatement(l)]

\* Within the trusting period no check of updateState rejects the honest
\* message for a link from a header the client trusts.
HonestUpdateAccepted ==
    \A c \in Clients, l \in Links :
        LET trusted == consensusStates[c][l[1].height]
        IN  (/\ trusted.blockHash = BlockHash(l[1])
             /\ now <= trusted.timestamp + clientStates[c].trustingPeriod)
            => Accepts(c, HonestMessage(l))

-----------------------------------------------------------------------------
(* The abstract light client *)

Entry(h, state) == [height |-> h, state |-> state]

EntryOf(hd) == Entry(hd.height, StateOf(hd))

Trust == INSTANCE TrustStore WITH
    Anchors <- {Entry(cs.revisionHeight, SubmittedState(ks)) :
                   cs \in ProtoClientStates, ks \in ProtoConsensusStates},
    Periods <- Times \ {0},
    Links <- {<< EntryOf(l[1]), EntryOf(l[2]) >> : l \in Links},
    MaxTime <- MaxTimestamp,
    trusted <- [c \in Clients |->
                  {Entry(h, consensusStates[c][h]) :
                      h \in {k \in Heights : Written(c, k)}}],
    latest <- [c \in Clients |-> clientStates[c].latestHeight],
    period <- [c \in Clients |-> clientStates[c].trustingPeriod],
    now <- now

\* The contract implements the abstract light client: whatever bytes it is
\* sent, its store only starts from an anchor and only grows along links,
\* from states within the trusting period.
ImplementsTrustStore == Trust!Spec

=============================================================================
