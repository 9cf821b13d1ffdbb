------------------------ MODULE ZKLightClientProofs ------------------------
(***************************************************************************)
(* Proofs about ZKLightClient, for every set of clients, headers, links and *)
(* messages that satisfies the module's assumptions.                        *)
(***************************************************************************)
EXTENDS ZKLightClient, TLAPS

-----------------------------------------------------------------------------
(* Hashes *)

\* A time is determined by its seconds and nanoseconds, so splitting it in the
\* time leaf (TendermintHeader.merkleRoot) loses nothing.
LEMMA SecondsNanosInjective ==
    ASSUME NEW t \in Nat, NEW u \in Nat, NEW n \in Nat \ {0},
           t \div n = u \div n, t % n = u % n
    PROVE  t = u
  <1>1. t = n * (t \div n) + (t % n) OBVIOUS
  <1>2. u = n * (u \div n) + (u % n) OBVIOUS
  <1> QED BY <1>1, <1>2

\* A message that opens the hash of a header opens it to that header's fields.
LEMMA OpenedFields ==
    ASSUME NEW hd \in Headers, NEW m \in UpdateStateInputs,
           BlockHash(hd) = MerkleRoot(m.timestamp, m.appHash, m.simpleTreeProof)
    PROVE  /\ hd.time = m.timestamp
           /\ hd.appHash = m.appHash
           /\ hd.height = m.simpleTreeProof.height
           /\ hd.rest = m.simpleTreeProof.rest
  <1>1. /\ hd.time \div NanosPerSecond = m.timestamp \div NanosPerSecond
        /\ hd.time % NanosPerSecond = m.timestamp % NanosPerSecond
        /\ hd.appHash = m.appHash
        /\ SimpleTreeProof(hd) = m.simpleTreeProof
    BY DEF BlockHash, MerkleRoot
  <1>2. hd.time \in Nat /\ m.timestamp \in Nat
    BY HeadersAssumption, MessagesAssumption, BoundsAssumption
       DEF HeaderType, Times
  <1>3. hd.time = m.timestamp
    BY <1>1, <1>2, BoundsAssumption, SecondsNanosInjective
  <1> QED BY <1>1, <1>3 DEF SimpleTreeProof

\* Two headers with the same hash are the same header.
LEMMA BlockHashInjective ==
    ASSUME NEW g \in Headers, NEW hd \in Headers, BlockHash(g) = BlockHash(hd)
    PROVE  g = hd
  <1>1. /\ g.time \div NanosPerSecond = hd.time \div NanosPerSecond
        /\ g.time % NanosPerSecond = hd.time % NanosPerSecond
        /\ g.appHash = hd.appHash
        /\ SimpleTreeProof(g) = SimpleTreeProof(hd)
    BY DEF BlockHash
  <1>2. g \in HeaderType /\ hd \in HeaderType
    BY HeadersAssumption
  <1>3. g.time \in Nat /\ hd.time \in Nat
    BY <1>2, BoundsAssumption DEF HeaderType, Times
  <1>4. g.time = hd.time
    BY <1>1, <1>3, BoundsAssumption, SecondsNanosInjective
  <1>5. g.height = hd.height /\ g.rest = hd.rest
    BY <1>1 DEF SimpleTreeProof
  <1> QED BY <1>1, <1>2, <1>4, <1>5 DEF HeaderType

\* The hash of a header is not the zero hash, and is a hash.
LEMMA BlockHashType ==
    ASSUME NEW hd \in Headers
    PROVE  BlockHash(hd) \in BlockHashes /\ BlockHash(hd) # ZeroHash
  <1>1. hd \in HeaderType
    BY HeadersAssumption
  <1>2. /\ hd.time \in Times /\ hd.appHash \in AppHashes
        /\ SimpleTreeProof(hd) \in SimpleTreeProofs
    BY <1>1 DEF HeaderType, SimpleTreeProof, SimpleTreeProofs
  <1>3. BlockHash(hd) = MerkleRoot(hd.time, hd.appHash, SimpleTreeProof(hd))
    BY DEF BlockHash, MerkleRoot
  <1>4. BlockHash(hd) # ZeroHash
    BY DEF BlockHash, ZeroHash
  <1> QED BY <1>2, <1>3, <1>4 DEF BlockHashes

-----------------------------------------------------------------------------
(* Type correctness *)

\* A contract just deployed, with no clients, has the types of TypeOK.
LEMMA TypeCorrectInit == Init => TypeOK
  <1> SUFFICES ASSUME Init PROVE TypeOK
    OBVIOUS
  <1>1. 0 \in Heights /\ 0 \in Times
    BY BoundsAssumption DEF Heights, Times
  <1>2. NoConsensusState \in ConsensusStates
    BY <1>1 DEF NoConsensusState, ConsensusStates, BlockHashes
  <1> QED BY <1>1, <1>2 DEF Init, TypeOK, NoClientState

\* What initializeClient was given, when it does not revert.
LEMMA InitializeArguments ==
    ASSUME NEW c \in Clients, NEW sender,
           NEW cs \in ProtoClientStates, NEW ks \in ProtoConsensusStates,
           InitializeClient(c, sender, cs, ks)
    PROVE  /\ cs.revisionHeight \in Heights \ {0}
           /\ cs.trustingPeriod \in Times \ {0}
           /\ SubmittedState(ks) \in ConsensusStates
           /\ SubmittedState(ks).timestamp # 0
           /\ clientStates[c].latestHeight = 0
  <1>1. cs \in ProtoClientStateType /\ ks \in ProtoConsensusStateType
    BY MessagesAssumption
  <1>2. /\ cs.revisionHeight \in Heights \ {0}
        /\ cs.trustingPeriod \in Times \ {0}
    BY <1>1 DEF ProtoClientStateType, InitializeClient, ValidClientState
  <1>3. /\ ks.blockHash \in BlockHashes /\ ks.appHash \in AppHashes
        /\ ks.timestamp \in Times \ {0}
    BY <1>1 DEF ProtoConsensusStateType, InitializeClient, ValidConsensusState
  <1>4. /\ SubmittedState(ks) \in ConsensusStates
        /\ SubmittedState(ks).timestamp # 0
    BY <1>3 DEF ConsensusStates, SubmittedState
  <1> QED BY <1>2, <1>4 DEF InitializeClient, FreshClientId

\* What it leaves behind, pointwise.
LEMMA InitializeEffect ==
    ASSUME TypeOK, NEW c \in Clients, NEW sender,
           NEW cs \in ProtoClientStates, NEW ks \in ProtoConsensusStates,
           InitializeClient(c, sender, cs, ks)
    PROVE  /\ clientStates'[c] = [latestHeight |-> cs.revisionHeight,
                                  trustingPeriod |-> cs.trustingPeriod]
           /\ anchors'[c] = [height |-> cs.revisionHeight,
                             state |-> SubmittedState(ks)]
           /\ \A h \in Heights : consensusStates'[c][h] =
                 IF h = cs.revisionHeight THEN SubmittedState(ks)
                                          ELSE consensusStates[c][h]
           /\ \A d \in Clients \ {c} :
                 /\ clientStates'[d] = clientStates[d]
                 /\ anchors'[d] = anchors[d]
                 /\ consensusStates'[d] = consensusStates[d]
           /\ now' = now
  BY InitializeArguments DEF InitializeClient, TypeOK

\* Neither initializeClient nor updateState nor the clock leaves the types.
LEMMA TypeCorrectStep == TypeOK /\ [Next]_vars => TypeOK'
  <1> SUFFICES ASSUME TypeOK, [Next]_vars PROVE TypeOK'
    OBVIOUS
  <1>1. ASSUME NEW c \in Clients, NEW sender \in {"ibcHandler", "other"},
               NEW cs \in ProtoClientStates, NEW ks \in ProtoConsensusStates,
               InitializeClient(c, sender, cs, ks)
        PROVE  TypeOK'
    <2>1. /\ cs.revisionHeight \in Heights /\ cs.trustingPeriod \in Times
          /\ SubmittedState(ks) \in ConsensusStates
      BY <1>1, InitializeArguments
    <2> QED BY <1>1, <2>1 DEF InitializeClient, TypeOK
  <1>2. ASSUME NEW c \in Clients, NEW m \in UpdateStateInputs, UpdateState(c, m)
        PROVE  TypeOK'
    <2> DEFINE state == [blockHash |-> m.untrustedBlockHash,
                         appHash |-> m.appHash, timestamp |-> m.timestamp]
    <2>1. m.untrustedHeight \in Heights /\ state \in ConsensusStates
      BY MessagesAssumption DEF ConsensusStates
    <2>2. NewLatestHeight(c, m) \in Heights
      BY <2>1 DEF NewLatestHeight, TypeOK
    <2>3. /\ consensusStates' =
                [consensusStates EXCEPT ![c][m.untrustedHeight] = state]
          /\ clientStates' = [clientStates EXCEPT ![c].latestHeight =
                                NewLatestHeight(c, m)]
          /\ now' = now
          /\ anchors' = anchors
      BY <1>2 DEF UpdateState
    <2> HIDE DEF state
    <2> QED BY <2>1, <2>2, <2>3 DEF TypeOK
  <1>3. CASE Tick
    BY <1>3, BoundsAssumption DEF Tick, TypeOK, Times
  <1>4. CASE UNCHANGED vars
    BY <1>4 DEF vars, TypeOK
  <1> QED BY <1>1, <1>2, <1>3, <1>4 DEF Next

\* Heights, times and hashes stay in range whatever transactions are sent to
\* the contract (initializeClient and updateState).
THEOREM TypeCorrect == Spec => []TypeOK
  BY TypeCorrectInit, TypeCorrectStep, PTL DEF Spec

-----------------------------------------------------------------------------
(* What an accepted update is *)

\* An accepted message carries the consensus state of a header that a link
\* leads to, from the header whose hash is trusted at the trusted height.  The
\* checks on digest, input hash, output hash and Merkle root are all needed.
LEMMA AcceptedLink ==
    ASSUME TypeOK, NEW c \in Clients, NEW m \in UpdateStateInputs, Accepts(c, m)
    PROVE  \E l \in Links :
              /\ l[1] \in Headers /\ l[2] \in Headers
              /\ l[1].height = m.trustedHeight
              /\ l[2].height = m.untrustedHeight
              /\ BlockHash(l[1]) = consensusStates[c][m.trustedHeight].blockHash
              /\ StateOf(l[2]) = [blockHash |-> m.untrustedBlockHash,
                                  appHash |-> m.appHash,
                                  timestamp |-> m.timestamp]
  <1> DEFINE blockHash == consensusStates[c][m.trustedHeight].blockHash
  <1>1. /\ m.trustedHeight \in Int /\ m.untrustedHeight \in Int
        /\ m.untrustedHeight > m.trustedHeight
    BY MessagesAssumption, BoundsAssumption DEF Accepts, HeightsAscend, Heights
  <1>2. /\ VerifyProof(m.input) /\ InputExpected(c, m)
        /\ m.input[3] = OutputHash(m.untrustedBlockHash)
        /\ m.untrustedBlockHash =
              MerkleRoot(m.timestamp, m.appHash, m.simpleTreeProof)
    BY DEF Accepts, OutputExpected, HeaderOpened
  <1>3. ASSUME NEW l \in Links, l[1] \in Headers, l[2] \in Headers,
               l[1].height = m.trustedHeight, l[2].height = m.untrustedHeight,
               BlockHash(l[1]) = blockHash,
               m.input[3] = OutputHash(BlockHash(l[2]))
        PROVE  StateOf(l[2]) = [blockHash |-> m.untrustedBlockHash,
                                appHash |-> m.appHash,
                                timestamp |-> m.timestamp]
    <2>1. BlockHash(l[2]) = m.untrustedBlockHash
      BY <1>2, <1>3 DEF OutputHash
    <2>2. l[2].time = m.timestamp /\ l[2].appHash = m.appHash
      BY <1>2, <1>3, <2>1, OpenedFields
    <2> QED BY <2>1, <2>2 DEF StateOf
  <1>4. CASE m.untrustedHeight - m.trustedHeight = 1
    <2>1. /\ m.input[1] = stepVerifierDigest
          /\ m.input[2] = StepInput(m.trustedHeight, blockHash)
      BY <1>2, <1>4 DEF InputExpected, ExpectedInput
    <2>2. m.input \in StepStatements
      <3>1. m.input \notin SkipStatements
        BY <2>1, DigestsAssumption DEF SkipStatements, SkipStatement
      <3> QED BY <1>2, <2>1, <3>1 DEF VerifyProof
    <2>3. PICK l \in StepLinks : m.input = StepStatement(l)
      BY <2>2 DEF StepStatements
    <2>4. /\ StepInput(m.trustedHeight, blockHash) =
                StepInput(l[1].height, BlockHash(l[1]))
          /\ m.input[3] = OutputHash(BlockHash(l[2]))
      BY <2>1, <2>3 DEF StepStatement
    <2>5. l[1].height = m.trustedHeight /\ BlockHash(l[1]) = blockHash
      BY <2>4 DEF StepInput
    <2>6. /\ l \in Links /\ l[1] \in Headers /\ l[2] \in Headers
          /\ l[2].height = l[1].height + 1
      BY LinksAssumption DEF Links
    <2>7. l[2].height = m.untrustedHeight
      BY <1>1, <1>4, <2>5, <2>6
    <2> QED BY <1>3, <2>4, <2>5, <2>6, <2>7
  <1>5. CASE m.untrustedHeight - m.trustedHeight # 1
    <2>1. /\ m.input[1] = skipVerifierDigest
          /\ m.input[2] = SkipInput(m.trustedHeight, blockHash, m.untrustedHeight)
      BY <1>2, <1>5 DEF InputExpected, ExpectedInput
    <2>2. m.input \in SkipStatements
      <3>1. m.input \notin StepStatements
        BY <2>1, DigestsAssumption DEF StepStatements, StepStatement
      <3> QED BY <1>2, <2>1, <3>1 DEF VerifyProof
    <2>3. PICK l \in SkipLinks : m.input = SkipStatement(l)
      BY <2>2 DEF SkipStatements
    <2>4. /\ SkipInput(m.trustedHeight, blockHash, m.untrustedHeight) =
                SkipInput(l[1].height, BlockHash(l[1]), l[2].height)
          /\ m.input[3] = OutputHash(BlockHash(l[2]))
      BY <2>1, <2>3 DEF SkipStatement
    <2>5. /\ l[1].height = m.trustedHeight /\ BlockHash(l[1]) = blockHash
          /\ l[2].height = m.untrustedHeight
      BY <2>4 DEF SkipInput
    <2>6. l[2].height > l[1].height + 1
      BY <1>1, <1>5, <2>5
    <2>7. l \in Links /\ l[1] \in Headers /\ l[2] \in Headers
      BY <2>6, LinksAssumption DEF Links
    <2> QED BY <1>3, <2>4, <2>5, <2>7
  <1> QED BY <1>4, <1>5

-----------------------------------------------------------------------------
(* The effect of an update, pointwise *)

\* What updateState leaves behind at each client and height when it does not
\* revert: one consensus state written, the latest height raised if lower.
LEMMA UpdateEffect ==
    ASSUME TypeOK, NEW c \in Clients, NEW m \in UpdateStateInputs,
           UpdateState(c, m)
    PROVE  \E l \in Links :
              /\ l[1] \in Headers /\ l[2] \in Headers
              /\ m.trustedHeight \in Heights /\ m.untrustedHeight \in Heights
              /\ m.trustedHeight < m.untrustedHeight
              /\ l[1].height = m.trustedHeight
              /\ l[2].height = m.untrustedHeight
              /\ BlockHash(l[1]) = consensusStates[c][m.trustedHeight].blockHash
              /\ Written(c, m.trustedHeight)
              /\ ~Expired(c, m.trustedHeight)
              /\ \A h \in Heights : consensusStates'[c][h] =
                    IF h = m.untrustedHeight THEN StateOf(l[2])
                                             ELSE consensusStates[c][h]
              /\ clientStates'[c].latestHeight = NewLatestHeight(c, m)
              /\ clientStates'[c].trustingPeriod = clientStates[c].trustingPeriod
              /\ \A d \in Clients \ {c} :
                    /\ clientStates'[d] = clientStates[d]
                    /\ consensusStates'[d] = consensusStates[d]
              /\ anchors' = anchors
              /\ now' = now
  <1> DEFINE state == [blockHash |-> m.untrustedBlockHash,
                       appHash |-> m.appHash, timestamp |-> m.timestamp]
  <1>1. PICK l \in Links :
              /\ l[1] \in Headers /\ l[2] \in Headers
              /\ l[1].height = m.trustedHeight
              /\ l[2].height = m.untrustedHeight
              /\ BlockHash(l[1]) = consensusStates[c][m.trustedHeight].blockHash
              /\ StateOf(l[2]) = state
    BY AcceptedLink DEF UpdateState
  <1>2. /\ consensusStates' =
              [consensusStates EXCEPT ![c][m.untrustedHeight] = state]
        /\ clientStates' = [clientStates EXCEPT ![c].latestHeight =
                              NewLatestHeight(c, m)]
        /\ now' = now
        /\ anchors' = anchors
    BY DEF UpdateState
  <1>3. /\ m.trustedHeight \in Heights /\ m.untrustedHeight \in Heights
        /\ m.trustedHeight < m.untrustedHeight
    BY MessagesAssumption, BoundsAssumption
       DEF UpdateState, Accepts, HeightsAscend, Heights
  <1>4. Written(c, m.trustedHeight) /\ ~Expired(c, m.trustedHeight)
    BY DEF UpdateState, Accepts, Found, Written, NoConsensusState
  <1> HIDE DEF state
  <1> QED BY <1>1, <1>2, <1>3, <1>4 DEF TypeOK

\* The state of a header is a consensus state with a non-zero hash and time.
LEMMA StateOfType ==
    ASSUME NEW hd \in Headers
    PROVE  /\ StateOf(hd) \in ConsensusStates
           /\ StateOf(hd).blockHash = BlockHash(hd)
           /\ StateOf(hd).blockHash # ZeroHash
           /\ StateOf(hd).timestamp # 0
           /\ StateOf(hd) # NoConsensusState
           /\ hd.height \in Heights \ {0}
  <1>1. hd \in HeaderType
    BY HeadersAssumption
  <1>2. hd.time \in Times \ {0} /\ hd.appHash \in AppHashes
        /\ hd.height \in Heights \ {0}
    BY <1>1 DEF HeaderType
  <1> QED BY <1>2, BlockHashType DEF StateOf, ConsensusStates, NoConsensusState

-----------------------------------------------------------------------------
(* The latest height and the anchor *)

\* The part of the inductive invariant that orders heights.  An update needs a
\* written trusted state, which lies at or above the anchor, and goes up.
HeightInv == TypeOK /\ LatestHeightStored /\ AnchorKept

\* A contract just deployed satisfies the height part of the invariant.
LEMMA HeightInit == Init => HeightInv
  <1> SUFFICES ASSUME Init PROVE LatestHeightStored /\ AnchorKept
    BY TypeCorrectInit DEF HeightInv
  <1> QED BY DEF Init, LatestHeightStored, AnchorKept, Created, Written,
                 getClientState, NoClientState

\* initializeClient and updateState preserve the height part of the invariant.
LEMMA HeightStep == HeightInv /\ [Next]_vars => HeightInv'
  <1> SUFFICES ASSUME HeightInv, [Next]_vars
               PROVE  LatestHeightStored' /\ AnchorKept'
    BY TypeCorrectStep DEF HeightInv
  <1> USE DEF HeightInv
  <1> DEFINE
        Latest(d) ==
            /\ getClientState(d)[2] <=> Created(d)
            /\ ~Created(d) => \A h \in Heights : ~Written(d, h)
            /\ Created(d) =>
                  /\ getLatestInfo(d).latestTimestamp # 0
                  /\ \A h \in Heights : Written(d, h) => h <= getLatestHeight(d)
                  /\ anchors[d].state.blockHash # ZeroHash =>
                        getConsensusState(d, getLatestHeight(d))[2]
        Anchor(d) ==
            Created(d) =>
                /\ consensusStates[d][anchors[d].height] = anchors[d].state
                /\ \A h \in Heights : Written(d, h) => h >= anchors[d].height
  <1>0. /\ LatestHeightStored <=> \A d \in Clients : Latest(d)
        /\ AnchorKept <=> \A d \in Clients : Anchor(d)
        /\ LatestHeightStored' <=> \A d \in Clients : Latest(d)'
        /\ AnchorKept' <=> \A d \in Clients : Anchor(d)'
    BY DEF LatestHeightStored, AnchorKept
  <1>s. \A d \in Clients :
          /\ clientStates'[d] = clientStates[d]
          /\ consensusStates'[d] = consensusStates[d]
          /\ anchors'[d] = anchors[d]
          => Latest(d)' /\ Anchor(d)'
    BY <1>0 DEF getClientState, getLatestInfo, getTimestampAtHeight, Found,
       getLatestHeight, getConsensusState, Created, Written, NoConsensusState
  <1>v. \A d \in Clients, h \in Heights :
          /\ getClientState(d)[2] <=> getLatestHeight(d) # 0
          /\ getClientState(d)[2]' <=> getLatestHeight(d)' # 0
          /\ getConsensusState(d, h)[2] <=> consensusStates[d][h].blockHash # ZeroHash
          /\ getConsensusState(d, h)[2]'
                <=> consensusStates'[d][h].blockHash # ZeroHash
    BY DEF getClientState, getConsensusState, getLatestHeight, Found
  <1>t. TypeOK
    OBVIOUS
  <1>1. ASSUME NEW c \in Clients, NEW sender \in {"ibcHandler", "other"},
               NEW cs \in ProtoClientStates, NEW ks \in ProtoConsensusStates,
               InitializeClient(c, sender, cs, ks)
        PROVE  \A d \in Clients : Latest(d)' /\ Anchor(d)'
    <2>0. /\ cs.revisionHeight \in Heights \ {0}
          /\ SubmittedState(ks).timestamp # 0
          /\ clientStates[c].latestHeight = 0
      BY <1>1, InitializeArguments
    <2>1. /\ clientStates'[c] = [latestHeight |-> cs.revisionHeight,
                                 trustingPeriod |-> cs.trustingPeriod]
          /\ anchors'[c] = [height |-> cs.revisionHeight,
                            state |-> SubmittedState(ks)]
          /\ \A h \in Heights : consensusStates'[c][h] =
                IF h = cs.revisionHeight THEN SubmittedState(ks)
                                         ELSE consensusStates[c][h]
          /\ \A d \in Clients \ {c} :
                /\ clientStates'[d] = clientStates[d]
                /\ anchors'[d] = anchors[d]
                /\ consensusStates'[d] = consensusStates[d]
      BY <1>1, <1>t, InitializeEffect
    <2>2. \A h \in Heights : consensusStates[c][h] = NoConsensusState
      BY <1>0, <2>0, <2>1 DEF getClientState, Created, Written
    <2>3. Created(c)' /\ getLatestHeight(c)' = cs.revisionHeight
          /\ anchors'[c].height = cs.revisionHeight
          /\ anchors'[c].state = SubmittedState(ks)
      BY <2>0, <2>1 DEF Created, getLatestHeight
    <2>4. \A h \in Heights : Written(c, h)' => h = cs.revisionHeight
      BY <2>0, <2>1, <2>2 DEF Written, NoConsensusState
    <2>5. cs.revisionHeight \in Int
      BY <2>0, <2>1, BoundsAssumption DEF Heights
    <2>6. Latest(c)'
      <3>1. getClientState(c)[2]'
        BY <1>v, <2>0, <2>1, <2>3
      <3>2. getLatestInfo(c).latestTimestamp' # 0
        BY <2>0, <2>1, <2>3 DEF getLatestInfo, getTimestampAtHeight
      <3>3. \A h \in Heights : Written(c, h)' => h <= getLatestHeight(c)'
        BY <2>3, <2>4, <2>5
      <3>4. anchors'[c].state.blockHash # ZeroHash =>
               getConsensusState(c, getLatestHeight(c))[2]'
        BY <1>v, <2>0, <2>1, <2>3
      <3> QED BY <2>3, <3>1, <3>2, <3>3, <3>4
    <2>7. Anchor(c)'
      BY <2>0, <2>1, <2>3, <2>4, <2>5
    <2> QED BY <1>s, <2>0, <2>1, <2>6, <2>7
  <1>2. ASSUME NEW c \in Clients, NEW m \in UpdateStateInputs, UpdateState(c, m)
        PROVE  \A d \in Clients : Latest(d)' /\ Anchor(d)'
    <2>1. PICK l \in Links :
              /\ l[1] \in Headers /\ l[2] \in Headers
              /\ m.trustedHeight \in Heights /\ m.untrustedHeight \in Heights
              /\ m.trustedHeight < m.untrustedHeight
              /\ Written(c, m.trustedHeight)
              /\ \A h \in Heights : consensusStates'[c][h] =
                    IF h = m.untrustedHeight THEN StateOf(l[2])
                                             ELSE consensusStates[c][h]
              /\ clientStates'[c].latestHeight = NewLatestHeight(c, m)
              /\ \A d \in Clients \ {c} :
                    /\ clientStates'[d] = clientStates[d]
                    /\ consensusStates'[d] = consensusStates[d]
              /\ anchors' = anchors
      BY <1>2, UpdateEffect
    <2>2. /\ Created(c) /\ Created(c)'
          /\ anchors[c].height <= m.trustedHeight
          /\ m.trustedHeight <= getLatestHeight(c)
      BY <1>0, <2>1 DEF Created
    <2>3. /\ getLatestHeight(c) \in Heights /\ anchors[c].height \in Heights
          /\ \A h \in Heights : h \in Int
      BY BoundsAssumption DEF TypeOK, Heights, getLatestHeight
    <2>4. /\ StateOf(l[2]).timestamp # 0
          /\ StateOf(l[2]).blockHash # ZeroHash
      BY <2>1, StateOfType
    <2>5. /\ getLatestHeight(c)' = IF getLatestHeight(c) < m.untrustedHeight
                                   THEN m.untrustedHeight ELSE getLatestHeight(c)
          /\ getLatestHeight(c)' \in Heights
      BY <2>1, <2>3 DEF NewLatestHeight, getLatestHeight
    <2>6. Latest(c)'
      <3>1. getClientState(c)[2]'
        <4>1. getLatestHeight(c)' # 0
          BY <2>1, <2>3, <2>5, BoundsAssumption DEF Heights
        <4> QED BY <4>1 DEF getClientState, getLatestHeight
      <3>2. getLatestInfo(c).latestTimestamp' # 0
        BY <1>0, <2>1, <2>2, <2>3, <2>4, <2>5
           DEF getLatestInfo, getTimestampAtHeight
      <3>3. \A h \in Heights : Written(c, h)' => h <= getLatestHeight(c)'
        BY <1>0, <2>1, <2>2, <2>3, <2>5 DEF Written, NoConsensusState
      <3>4. anchors'[c].state.blockHash # ZeroHash =>
               getConsensusState(c, getLatestHeight(c))[2]'
        <4>1. anchors[c].state.blockHash # ZeroHash =>
                 consensusStates[c][getLatestHeight(c)].blockHash # ZeroHash
          BY <1>0, <1>v, <2>2, <2>3
        <4>2. anchors[c].state.blockHash # ZeroHash =>
                 consensusStates'[c][getLatestHeight(c)'].blockHash # ZeroHash
          BY <2>1, <2>3, <2>4, <2>5, <4>1
        <4>3. getConsensusState(c, getLatestHeight(c))[2]'
                <=> consensusStates'[c][getLatestHeight(c)'].blockHash # ZeroHash
          BY DEF getConsensusState, Found
        <4> QED BY <2>1, <4>2, <4>3
      <3> QED BY <2>2, <3>1, <3>2, <3>3, <3>4
    <2>7. Anchor(c)'
      <3>1. consensusStates'[c][anchors'[c].height] = anchors'[c].state
        BY <1>0, <2>1, <2>2, <2>3
      <3>2. \A h \in Heights : Written(c, h)' => h >= anchors'[c].height
        BY <1>0, <2>1, <2>2, <2>3 DEF Written, NoConsensusState
      <3> QED BY <3>1, <3>2
    <2> QED BY <1>s, <2>1, <2>6, <2>7
  <1>3. ASSUME Tick \/ UNCHANGED vars
        PROVE  \A d \in Clients : Latest(d)' /\ Anchor(d)'
    <2>1. /\ clientStates' = clientStates /\ consensusStates' = consensusStates
          /\ anchors' = anchors
      BY <1>3 DEF Tick, vars
    <2> QED BY <1>s, <2>1
  <1>4. \A d \in Clients : Latest(d)' /\ Anchor(d)'
    <2> HIDE DEF Latest, Anchor
    <2> QED BY <1>1, <1>2, <1>3 DEF Next
  <1> QED BY <1>0, <1>4

\* Height order of the store (getLatestHeight, getLatestInfo) and the anchor's
\* permanence: both need the other, since an update that reached below the
\* anchor is excluded only because every written height lies above it.
THEOREM LatestAndAnchor == Spec => [](LatestHeightStored /\ AnchorKept)
  <1>1. HeightInv => LatestHeightStored /\ AnchorKept
    BY DEF HeightInv
  <1> QED BY <1>1, HeightInit, HeightStep, PTL DEF Spec

\* In particular no update (updateState) replaces the state a client was created
\* with or reaches below it: validators that sign twice do not matter here.
THEOREM AnchorAlways == Spec => []AnchorKept
  BY LatestAndAnchor, PTL

-----------------------------------------------------------------------------
(* Certification *)

\* Every stored state is certified and heights are in order.
SafetyInv == HeightInv /\ Certified

\* A contract just deployed stores nothing, so everything it stores is
\* certified.
LEMMA SafetyInit == Init => SafetyInv
  <1> SUFFICES ASSUME Init PROVE Certified
    BY HeightInit DEF SafetyInv
  <1> QED BY DEF Init, Certified, Created

\* initializeClient stores the anchor, updateState the state of a header one
\* link away from a certified one: both preserve the whole invariant.
LEMMA SafetyStep == SafetyInv /\ [Next]_vars => SafetyInv'
  <1> SUFFICES ASSUME SafetyInv, [Next]_vars PROVE Certified'
    BY HeightStep DEF SafetyInv
  <1>t. TypeOK /\ LatestHeightStored /\ AnchorKept /\ Certified
    BY DEF SafetyInv, HeightInv
  <1> DEFINE
        FromAnchor(d, h) == /\ h = anchors[d].height
                            /\ consensusStates[d][h] = anchors[d].state
        FromHeader(d, h, S) ==
            \E hd \in S : /\ hd.height = h
                          /\ consensusStates[d][h] = StateOf(hd)
  <1> SUFFICES ASSUME NEW d \in Clients, Created(d)',
                      NEW S \in SUBSET Headers, LinkClosed(S),
                      \A hd \in Headers : IsAnchor(d, hd)' => hd \in S,
                      NEW h \in Heights, Written(d, h)'
               PROVE  FromAnchor(d, h)' \/ FromHeader(d, h, S)'
    BY DEF Certified
  <1>s. ASSUME anchors'[d] = anchors[d]
        PROVE  \A k \in Heights : Written(d, k) =>
                  FromAnchor(d, k) \/ FromHeader(d, k, S)
    <2>1. Created(d)
      BY <1>s DEF Created
    <2>2. \A hd \in Headers : IsAnchor(d, hd) => hd \in S
      BY <1>s DEF IsAnchor
    <2> QED BY <1>t, <2>1, <2>2 DEF Certified
  <1>u. ASSUME anchors'[d] = anchors[d], consensusStates'[d] = consensusStates[d]
        PROVE  FromAnchor(d, h)' \/ FromHeader(d, h, S)'
    BY <1>s, <1>u DEF Written, NoConsensusState
  <1>1. ASSUME NEW c \in Clients, NEW sender \in {"ibcHandler", "other"},
               NEW cs \in ProtoClientStates, NEW ks \in ProtoConsensusStates,
               InitializeClient(c, sender, cs, ks)
        PROVE  FromAnchor(d, h)' \/ FromHeader(d, h, S)'
    <2>1. /\ clientStates[c].latestHeight = 0
          /\ anchors'[c] = [height |-> cs.revisionHeight,
                            state |-> SubmittedState(ks)]
          /\ \A k \in Heights : consensusStates'[c][k] =
                IF k = cs.revisionHeight THEN SubmittedState(ks)
                                         ELSE consensusStates[c][k]
      BY <1>1, <1>t DEF InitializeClient, FreshClientId, TypeOK
    <2>2. CASE d # c
      <3>1. anchors'[d] = anchors[d] /\ consensusStates'[d] = consensusStates[d]
        BY <1>1, <2>2 DEF InitializeClient, TypeOK
      <3> QED BY <1>u, <3>1
    <2>3. CASE d = c
      <3>1. ~Written(c, h)
        BY <1>t, <2>1 DEF LatestHeightStored, getClientState
      <3>2. h = cs.revisionHeight
        BY <2>1, <2>3, <3>1 DEF Written, NoConsensusState
      <3> QED BY <2>1, <2>3, <3>2
    <2> QED BY <2>2, <2>3
  <1>2. ASSUME NEW c \in Clients, NEW m \in UpdateStateInputs, UpdateState(c, m)
        PROVE  FromAnchor(d, h)' \/ FromHeader(d, h, S)'
    <2>1. PICK l \in Links :
              /\ l[1] \in Headers /\ l[2] \in Headers
              /\ m.trustedHeight \in Heights
              /\ l[1].height = m.trustedHeight
              /\ l[2].height = m.untrustedHeight
              /\ BlockHash(l[1]) = consensusStates[c][m.trustedHeight].blockHash
              /\ Written(c, m.trustedHeight)
              /\ \A k \in Heights : consensusStates'[c][k] =
                    IF k = m.untrustedHeight THEN StateOf(l[2])
                                             ELSE consensusStates[c][k]
              /\ \A e \in Clients \ {c} : consensusStates'[e] = consensusStates[e]
              /\ anchors' = anchors
      BY <1>2, <1>t, UpdateEffect
    <2>2. CASE d # c
      BY <1>u, <2>1, <2>2
    <2>3. CASE d = c /\ h # m.untrustedHeight
      <3>1. consensusStates'[d][h] = consensusStates[d][h]
        BY <2>1, <2>3
      <3>2. Written(d, h)
        BY <3>1 DEF Written, NoConsensusState
      <3> QED BY <1>s, <2>1, <3>1, <3>2
    <2>4. CASE d = c /\ h = m.untrustedHeight
      <3>1. l[1] \in S
        <4>1. CASE FromAnchor(c, m.trustedHeight)
          <5>1. IsAnchor(d, l[1])'
            BY <2>1, <2>4, <4>1 DEF IsAnchor
          <5> QED BY <2>1, <5>1
        <4>2. CASE FromHeader(c, m.trustedHeight, S)
          <5>1. PICK hd \in S :
                   consensusStates[c][m.trustedHeight] = StateOf(hd)
            BY <4>2
          <5>2. BlockHash(hd) = BlockHash(l[1])
            BY <2>1, <5>1 DEF StateOf
          <5>3. hd = l[1]
            BY <2>1, <5>2, BlockHashInjective
          <5> QED BY <5>3
        <4> QED BY <1>s, <2>1, <2>4, <4>1, <4>2
      <3>2. l[2] \in S
        BY <2>1, <3>1 DEF LinkClosed
      <3>3. consensusStates'[d][h] = StateOf(l[2])
        BY <2>1, <2>4
      <3> QED BY <2>1, <2>4, <3>2, <3>3
    <2> QED BY <2>2, <2>3, <2>4
  <1>3. CASE Tick \/ UNCHANGED vars
    <2>1. anchors' = anchors /\ consensusStates' = consensusStates
      BY <1>3 DEF Tick, vars
    <2> QED BY <1>u, <2>1
  <1> HIDE DEF FromAnchor, FromHeader
  <1> QED BY <1>1, <1>2, <1>3 DEF Next

\* Whatever is sent to updateState, every stored consensus state is the
\* anchor's or that of a header the circuits linked to the anchor's header.
THEOREM CertifiedAlways == Spec => []Certified
  <1>1. SafetyInv => Certified
    BY DEF SafetyInv
  <1> QED BY <1>1, SafetyInit, SafetyStep, PTL DEF Spec

-----------------------------------------------------------------------------
(* What a step may never do *)

\* A client created is not created again.
LEMMA CreatedOnce ==
    ASSUME HeightInv, NEW c \in Clients, Created(c), NEW d \in Clients, NEW sender,
           NEW cs \in ProtoClientStates, NEW ks \in ProtoConsensusStates,
           InitializeClient(d, sender, cs, ks)
    PROVE  /\ consensusStates'[c] = consensusStates[c]
           /\ clientStates'[c] = clientStates[c]
  <1>1. clientStates[c].latestHeight # 0
    BY DEF HeightInv, LatestHeightStored, getClientState
  <1>2. d # c
    BY <1>1 DEF InitializeClient, FreshClientId
  <1> QED BY <1>2 DEF InitializeClient, HeightInv, TypeOK

\* If Tendermint is safe, a client that started on the chain stores only
\* states of the chain.
LEMMA StoredOnChain ==
    ASSUME TendermintSafety, SafetyInv, NEW c \in Clients, AnchorOnChain(c),
           NEW h \in Heights, Written(c, h)
    PROVE  /\ Created(c)
           /\ \E hd \in Chain : /\ hd.height = h
                               /\ consensusStates[c][h] = StateOf(hd)
  <1>1. PICK a \in Chain : a.height = anchors[c].height
                           /\ anchors[c].state = StateOf(a)
    BY DEF AnchorOnChain
  <1>2. Created(c)
    BY <1>1, HeadersAssumption, StateOfType DEF Created
  <1>3. \A g \in Headers : IsAnchor(c, g) => g \in Chain
    <2> SUFFICES ASSUME NEW g \in Headers, IsAnchor(c, g) PROVE g \in Chain
      OBVIOUS
    <2>1. BlockHash(g) = BlockHash(a)
      BY <1>1 DEF IsAnchor, StateOf
    <2> QED BY <1>1, <2>1, HeadersAssumption, BlockHashInjective
  <1>4. \/ h = anchors[c].height /\ consensusStates[c][h] = anchors[c].state
        \/ \E hd \in Chain : /\ hd.height = h
                            /\ consensusStates[c][h] = StateOf(hd)
    BY <1>2, <1>3, HeadersAssumption DEF SafetyInv, Certified, TendermintSafety
  <1> QED BY <1>1, <1>2, <1>4

\* updateState overwrites a consensus state only by the same one, as long as
\* the circuits prove no fork of the chain.
THEOREM NeverRewritten ==
    ASSUME TendermintSafety PROVE Spec => StoredNeverRewritten
  <1>1. SafetyInv /\ [Next]_vars =>
          [\A c \in Clients, h \in Heights :
              AnchorOnChain(c) /\ Written(c, h) =>
                  consensusStates'[c][h] = consensusStates[c][h]]_vars
    <2> SUFFICES ASSUME SafetyInv, [Next]_vars,
                        NEW c \in Clients, NEW h \in Heights,
                        AnchorOnChain(c), Written(c, h)
                 PROVE  consensusStates'[c][h] = consensusStates[c][h]
      OBVIOUS
    <2>1. PICK hd \in Chain : /\ hd.height = h
                              /\ consensusStates[c][h] = StateOf(hd)
      BY StoredOnChain
    <2>2. ASSUME NEW d \in Clients, NEW sender \in {"ibcHandler", "other"},
                 NEW cs \in ProtoClientStates, NEW ks \in ProtoConsensusStates,
                 InitializeClient(d, sender, cs, ks)
          PROVE  consensusStates'[c][h] = consensusStates[c][h]
      BY <2>2, StoredOnChain, CreatedOnce DEF SafetyInv
    <2>3. ASSUME NEW d \in Clients, NEW m \in UpdateStateInputs, UpdateState(d, m)
          PROVE  consensusStates'[c][h] = consensusStates[c][h]
      <3>1. PICK l \in Links :
                /\ l[1] \in Headers /\ l[2] \in Headers
                /\ m.trustedHeight \in Heights
                /\ l[2].height = m.untrustedHeight
                /\ BlockHash(l[1]) = consensusStates[d][m.trustedHeight].blockHash
                /\ Written(d, m.trustedHeight)
                /\ \A k \in Heights : consensusStates'[d][k] =
                      IF k = m.untrustedHeight THEN StateOf(l[2])
                                               ELSE consensusStates[d][k]
                /\ \A e \in Clients \ {d} :
                      consensusStates'[e] = consensusStates[e]
        BY <2>3, UpdateEffect DEF SafetyInv, HeightInv
      <3>2. CASE d # c \/ h # m.untrustedHeight
        BY <3>1, <3>2
      <3>3. CASE d = c /\ h = m.untrustedHeight
        <4>1. PICK g \in Chain : consensusStates[c][m.trustedHeight] = StateOf(g)
          BY <3>1, <3>3, StoredOnChain
        <4>2. BlockHash(g) = BlockHash(l[1])
          BY <3>1, <3>3, <4>1 DEF StateOf
        <4>3. l[1] \in Chain
          BY <3>1, <4>2, HeadersAssumption, BlockHashInjective
        <4>4. l[2] \in Chain
          BY <3>1, <4>3 DEF TendermintSafety, LinkClosed
        <4>5. l[2] = hd
          BY <2>1, <3>1, <3>3, <4>4, HeadersAssumption
        <4> QED BY <2>1, <3>1, <3>3, <4>5
      <3> QED BY <3>2, <3>3
    <2>4. CASE Tick \/ UNCHANGED vars
      BY <2>4 DEF Tick, vars
    <2> QED BY <2>2, <2>3, <2>4 DEF Next
  <1> QED BY <1>1, SafetyInit, SafetyStep, PTL DEF Spec, StoredNeverRewritten

\* If block.timestamp counts nanoseconds, a client whose states have all
\* passed the trusting period never changes again.
THEOREM ExpiredFrozen ==
    ASSUME BlockTimestampUnit = 1 PROVE Spec => ExpiredClientFrozen
  <1>1. HeightInv /\ [Next]_vars =>
          [\A c \in Clients : AllExpired(c) =>
              /\ consensusStates'[c] = consensusStates[c]
              /\ clientStates'[c] = clientStates[c]]_vars
    <2> SUFFICES ASSUME HeightInv, [Next]_vars, NEW c \in Clients, AllExpired(c)
                 PROVE  /\ consensusStates'[c] = consensusStates[c]
                        /\ clientStates'[c] = clientStates[c]
      OBVIOUS
    <2>1. ASSUME NEW d \in Clients, NEW sender \in {"ibcHandler", "other"},
                 NEW cs \in ProtoClientStates, NEW ks \in ProtoConsensusStates,
                 InitializeClient(d, sender, cs, ks)
          PROVE  /\ consensusStates'[c] = consensusStates[c]
                 /\ clientStates'[c] = clientStates[c]
      BY <2>1, CreatedOnce DEF AllExpired
    <2>2. ASSUME NEW d \in Clients, NEW m \in UpdateStateInputs, UpdateState(d, m)
          PROVE  /\ consensusStates'[c] = consensusStates[c]
                 /\ clientStates'[c] = clientStates[c]
      <3>1. /\ m.trustedHeight \in Heights
            /\ Written(d, m.trustedHeight)
            /\ ~Expired(d, m.trustedHeight)
            /\ \A e \in Clients \ {d} :
                  /\ clientStates'[e] = clientStates[e]
                  /\ consensusStates'[e] = consensusStates[e]
        BY <2>2, UpdateEffect DEF HeightInv
      <3>2. d # c
        <4> SUFFICES ASSUME d = c PROVE FALSE
          OBVIOUS
        <4>1. now > consensusStates[c][m.trustedHeight].timestamp
                      + clientStates[c].trustingPeriod
          BY <3>1 DEF AllExpired, getTimestampAtHeight
        <4>2. now \in Int
          BY BoundsAssumption DEF HeightInv, TypeOK, Times
        <4>3. now \div 1 = now
          BY <4>2
        <4> QED BY <3>1, <4>1, <4>3 DEF Expired, blockTimestamp
      <3> QED BY <3>1, <3>2
    <2>3. CASE Tick \/ UNCHANGED vars
      BY <2>3 DEF Tick, vars
    <2> QED BY <2>1, <2>2, <2>3 DEF Next
  <1> QED BY <1>1, HeightInit, HeightStep, PTL DEF Spec, ExpiredClientFrozen

-----------------------------------------------------------------------------
(* Completeness *)

\* Within the trusting period updateState rejects no honest message, whatever
\* the unit of block.timestamp.
THEOREM HonestAccepted == Spec => []HonestUpdateAccepted
  <1>1. TypeOK => HonestUpdateAccepted
    <2> SUFFICES ASSUME TypeOK, NEW c \in Clients, NEW l \in Links,
                        consensusStates[c][l[1].height].blockHash = BlockHash(l[1]),
                        now <= consensusStates[c][l[1].height].timestamp
                                 + clientStates[c].trustingPeriod
                 PROVE  Accepts(c, HonestMessage(l))
      BY DEF HonestUpdateAccepted
    <2> DEFINE m == HonestMessage(l)
    <2>1. /\ l[1] \in Headers /\ l[2] \in Headers
          /\ \/ l \in StepLinks /\ l[2].height = l[1].height + 1
             \/ l \in SkipLinks /\ l[2].height > l[1].height + 1
      BY LinksAssumption DEF Links
    <2>2. l[1].height \in Heights /\ l[2].height \in Heights
          /\ l[1].height \in Int /\ l[2].height \in Int
      BY <2>1, StateOfType, BoundsAssumption DEF Heights
    <2>3. /\ m.trustedHeight = l[1].height /\ m.untrustedHeight = l[2].height
          /\ m.untrustedBlockHash = BlockHash(l[2]) /\ m.timestamp = l[2].time
          /\ m.appHash = l[2].appHash
          /\ m.simpleTreeProof = SimpleTreeProof(l[2])
          /\ m.input = IF l[2].height - l[1].height = 1 THEN StepStatement(l)
                                                        ELSE SkipStatement(l)
      BY DEF HonestMessage
    <2> HIDE DEF m
    <2>4. HeightsAscend(m)
      BY <2>1, <2>2, <2>3 DEF HeightsAscend
    <2>5. Found(c, m.trustedHeight)
      BY <2>1, <2>3, BlockHashType DEF Found
    <2>6. ~Expired(c, m.trustedHeight)
      <3>1. /\ now \in Nat /\ clientStates[c].trustingPeriod \in Int
            /\ consensusStates[c][l[1].height].timestamp \in Int
        BY <2>2, BoundsAssumption DEF TypeOK, Times, ConsensusStates
      <3>2. now \div BlockTimestampUnit <= now
        BY <3>1, BoundsAssumption
      <3>3. now \div BlockTimestampUnit \in Int
        BY <3>1, BoundsAssumption
      <3> QED BY <2>3, <3>1, <3>2, <3>3 DEF Expired, blockTimestamp
    <2>7. VerifyProof(m.input) /\ InputExpected(c, m) /\ OutputExpected(m)
      <3>1. CASE l[2].height - l[1].height = 1
        <4>1. l \in StepLinks /\ m.input = StepStatement(l)
          BY <2>1, <2>2, <2>3, <3>1
        <4>2. VerifyProof(m.input)
          BY <4>1 DEF VerifyProof, StepStatements
        <4>3. InputExpected(c, m) /\ OutputExpected(m)
          BY <2>3, <3>1, <4>1 DEF InputExpected, ExpectedInput, OutputExpected,
                                  StepStatement
        <4> QED BY <4>2, <4>3
      <3>2. CASE l[2].height - l[1].height # 1
        <4>1. l \in SkipLinks /\ m.input = SkipStatement(l)
          BY <2>1, <2>2, <2>3, <3>2
        <4>2. VerifyProof(m.input)
          BY <4>1 DEF VerifyProof, SkipStatements
        <4>3. InputExpected(c, m) /\ OutputExpected(m)
          BY <2>3, <3>2, <4>1 DEF InputExpected, ExpectedInput, OutputExpected,
                                  SkipStatement
        <4> QED BY <4>2, <4>3
      <3> QED BY <3>1, <3>2
    <2>8. HeaderOpened(m)
      BY <2>3 DEF HeaderOpened, BlockHash, MerkleRoot
    <2> QED BY <2>4, <2>5, <2>6, <2>7, <2>8 DEF Accepts, m
  <1> QED BY <1>1, TypeCorrect, PTL

-----------------------------------------------------------------------------
(* Refinement *)

\* The refinement mapping: the trusted entries of a client.
TrustedEntries(c) == {Entry(h, consensusStates[c][h]) :
                         h \in {k \in Heights : Written(c, k)}}

\* A contract just deployed maps to an initial state of TrustStore.
LEMMA RefinementInit == Init => Trust!Init
  <1> SUFFICES ASSUME Init PROVE Trust!Init
    OBVIOUS
  <1>1. \A c \in Clients : TrustedEntries(c) = {}
    BY DEF Init, TrustedEntries, Written
  <1> QED BY <1>1 DEF Init, Trust!Init, TrustedEntries, NoClientState

\* Creating a client is the abstract Create.
LEMMA RefinementCreate ==
    ASSUME HeightInv, NEW c \in Clients, NEW sender,
           NEW cs \in ProtoClientStates, NEW ks \in ProtoConsensusStates,
           InitializeClient(c, sender, cs, ks)
    PROVE  Trust!Next
  <1> DEFINE e == Entry(cs.revisionHeight, SubmittedState(ks))
  <1>1. /\ cs.revisionHeight \in Heights /\ cs.trustingPeriod \in Times \ {0}
        /\ SubmittedState(ks).timestamp # 0
        /\ clientStates[c].latestHeight = 0
    BY InitializeArguments
  <1>2. \A h \in Heights : ~Written(c, h)
    BY <1>1 DEF HeightInv, LatestHeightStored, getClientState
  <1>3. TrustedEntries(c) = {}
    BY <1>2 DEF TrustedEntries
  <1>4. \A d \in Clients, h \in Heights : consensusStates'[d][h] =
           IF d = c /\ h = cs.revisionHeight THEN SubmittedState(ks)
                                             ELSE consensusStates[d][h]
    BY <1>1 DEF InitializeClient, HeightInv, TypeOK
  <1>5. \A h \in Heights : Written(c, h)' <=> h = cs.revisionHeight
    BY <1>1, <1>2, <1>4 DEF Written, NoConsensusState
  <1>6. TrustedEntries(c)' = {e}
    BY <1>1, <1>4, <1>5 DEF TrustedEntries
  <1>7. \A d \in Clients \ {c} : TrustedEntries(d)' = TrustedEntries(d)
    <2> SUFFICES ASSUME NEW d \in Clients \ {c}
                 PROVE  TrustedEntries(d)' = TrustedEntries(d)
      OBVIOUS
    <2>1. consensusStates'[d] = consensusStates[d]
      BY DEF InitializeClient, HeightInv, TypeOK
    <2> QED BY <2>1 DEF TrustedEntries, Written, NoConsensusState
  <1>8. /\ \A d \in Clients : clientStates'[d].latestHeight =
              IF d = c THEN cs.revisionHeight ELSE clientStates[d].latestHeight
        /\ \A d \in Clients : clientStates'[d].trustingPeriod =
              IF d = c THEN cs.trustingPeriod ELSE clientStates[d].trustingPeriod
        /\ now' = now
        /\ e.height = cs.revisionHeight
    BY DEF InitializeClient, HeightInv, TypeOK, Entry
  <1>9. Trust!Create(c, e, cs.trustingPeriod)
    <2> HIDE DEF e
    <2>1. [d \in Clients |-> TrustedEntries(d)]' =
            [[d \in Clients |-> TrustedEntries(d)] EXCEPT ![c] = {e}]
      BY <1>6, <1>7
    <2>2. [d \in Clients |-> clientStates[d].latestHeight]' =
            [[d \in Clients |-> clientStates[d].latestHeight]
                EXCEPT ![c] = e.height]
      BY <1>8
    <2>3. [d \in Clients |-> clientStates[d].trustingPeriod]' =
            [[d \in Clients |-> clientStates[d].trustingPeriod]
                EXCEPT ![c] = cs.trustingPeriod]
      BY <1>8
    <2>4. [d \in Clients |-> TrustedEntries(d)][c] = {}
      BY <1>3
    <2> QED BY <1>8, <2>1, <2>2, <2>3, <2>4 DEF Trust!Create, TrustedEntries
  <1>10. e \in {Entry(a.revisionHeight, SubmittedState(k)) :
                   a \in ProtoClientStates, k \in ProtoConsensusStates}
    OBVIOUS
  <1> HIDE DEF e
  <1> QED BY <1>1, <1>9, <1>10 DEF Trust!Next

\* An accepted update is the abstract Extend, along the link it proves.
LEMMA RefinementExtend ==
    ASSUME BlockTimestampUnit = 1, HeightInv, NEW c \in Clients,
           NEW m \in UpdateStateInputs, UpdateState(c, m)
    PROVE  Trust!Next
  <1>1. PICK l \in Links :
              /\ l[1] \in Headers /\ l[2] \in Headers
              /\ m.trustedHeight \in Heights /\ m.untrustedHeight \in Heights
              /\ l[1].height = m.trustedHeight
              /\ l[2].height = m.untrustedHeight
              /\ BlockHash(l[1]) = consensusStates[c][m.trustedHeight].blockHash
              /\ Written(c, m.trustedHeight)
              /\ ~Expired(c, m.trustedHeight)
              /\ \A h \in Heights : consensusStates'[c][h] =
                    IF h = m.untrustedHeight THEN StateOf(l[2])
                                             ELSE consensusStates[c][h]
              /\ clientStates'[c].latestHeight = NewLatestHeight(c, m)
              /\ clientStates'[c].trustingPeriod = clientStates[c].trustingPeriod
              /\ \A d \in Clients \ {c} :
                    /\ clientStates'[d] = clientStates[d]
                    /\ consensusStates'[d] = consensusStates[d]
              /\ now' = now
    BY UpdateEffect DEF HeightInv
  <1> DEFINE e == Entry(m.trustedHeight, consensusStates[c][m.trustedHeight])
             k == << EntryOf(l[1]), EntryOf(l[2]) >>
  <1>2. /\ e.height = m.trustedHeight
        /\ e.state = consensusStates[c][m.trustedHeight]
        /\ k[1].height = m.trustedHeight
        /\ k[1].state.blockHash = BlockHash(l[1])
        /\ k[2] = Entry(m.untrustedHeight, StateOf(l[2]))
        /\ k[2].height = m.untrustedHeight
    BY <1>1 DEF Entry, EntryOf, StateOf
  <1>3. e \in TrustedEntries(c)
    BY <1>1 DEF TrustedEntries
  <1>4. now <= e.state.timestamp + clientStates[c].trustingPeriod
    <2>1. /\ now \in Int /\ clientStates[c].trustingPeriod \in Int
          /\ consensusStates[c][m.trustedHeight].timestamp \in Int
      BY <1>1, BoundsAssumption DEF HeightInv, TypeOK, Times, ConsensusStates
    <2>2. now \div 1 = now
      BY <2>1
    <2> HIDE DEF e
    <2> QED BY <1>1, <1>2, <2>1, <2>2 DEF Expired, blockTimestamp
  <1>5. TrustedEntries(c)' =
          {x \in TrustedEntries(c) : x.height # k[2].height} \cup {k[2]}
    <2>1. \A h \in Heights : Written(c, h)' <=>
             h = m.untrustedHeight \/ Written(c, h)
      BY <1>1, StateOfType DEF Written, NoConsensusState
    <2>2. \A h \in Heights : Entry(h, consensusStates'[c][h]) =
             IF h = m.untrustedHeight THEN k[2] ELSE Entry(h, consensusStates[c][h])
      BY <1>1, <1>2
    <2>3. \A h, state : Entry(h, state).height = h
      BY DEF Entry
    <2> HIDE DEF k
    <2>4. \A x : x \in TrustedEntries(c)' <=>
             (x \in TrustedEntries(c) /\ x.height # k[2].height) \/ x = k[2]
      <3>1. \A x : x \in TrustedEntries(c)' <=>
               \E h \in Heights : Written(c, h)'
                                  /\ x = Entry(h, consensusStates'[c][h])
        BY DEF TrustedEntries
      <3>2. \A x : x \in TrustedEntries(c) <=>
               \E h \in Heights : Written(c, h)
                                  /\ x = Entry(h, consensusStates[c][h])
        BY DEF TrustedEntries
      <3> QED BY <1>1, <1>2, <2>1, <2>2, <2>3, <3>1, <3>2
    <2> QED BY <2>4
  <1>6. \A d \in Clients \ {c} : TrustedEntries(d)' = TrustedEntries(d)
    BY <1>1 DEF TrustedEntries, Written, NoConsensusState
  <1>7. clientStates'[c].latestHeight =
          IF clientStates[c].latestHeight < k[2].height
          THEN k[2].height ELSE clientStates[c].latestHeight
    BY <1>1, <1>2 DEF NewLatestHeight
  <1>8. Trust!Extend(c, e, k)
    <2> HIDE DEF e, k
    <2>1. [d \in Clients |-> TrustedEntries(d)]' =
            [[d \in Clients |-> TrustedEntries(d)] EXCEPT ![c] =
                {x \in @ : x.height # k[2].height} \cup {k[2]}]
      BY <1>5, <1>6
    <2>2. [d \in Clients |-> clientStates[d].latestHeight]' =
            [[d \in Clients |-> clientStates[d].latestHeight] EXCEPT ![c] =
                IF @ < k[2].height THEN k[2].height ELSE @]
      <3>1. PICK latest : latest = IF clientStates[c].latestHeight < k[2].height
                         THEN k[2].height ELSE clientStates[c].latestHeight
        OBVIOUS
      <3>2. \A d \in Clients : clientStates'[d].latestHeight =
               IF d = c THEN latest ELSE clientStates[d].latestHeight
        BY <1>1, <1>7, <3>1
      <3>3. [d \in Clients |-> clientStates'[d].latestHeight] =
              [[d \in Clients |-> clientStates[d].latestHeight] EXCEPT ![c] = latest]
        BY <3>2
      <3>4. [d \in Clients |-> clientStates[d].latestHeight][c] =
              clientStates[c].latestHeight
        BY <1>1
      <3> QED BY <3>1, <3>3, <3>4
    <2>3. [d \in Clients |-> clientStates[d].trustingPeriod]' =
            [d \in Clients |-> clientStates[d].trustingPeriod]
      BY <1>1
    <2>4. /\ [d \in Clients |-> TrustedEntries(d)][c] = TrustedEntries(c)
          /\ [d \in Clients |-> clientStates[d].trustingPeriod][c]
                = clientStates[c].trustingPeriod
      OBVIOUS
    <2>5. e.height = k[1].height /\ e.state.blockHash = k[1].state.blockHash
      BY <1>1, <1>2
    <2> QED BY <1>1, <1>3, <1>4, <2>1, <2>2, <2>3, <2>4, <2>5
               DEF Trust!Extend, TrustedEntries
  <1>9. k \in {<< EntryOf(j[1]), EntryOf(j[2]) >> : j \in Links}
    OBVIOUS
  <1> HIDE DEF e, k
  <1>10. e \in [d \in Clients |-> TrustedEntries(d)][c]
    BY <1>3
  <1> QED BY <1>8, <1>9, <1>10 DEF Trust!Next, TrustedEntries

\* With a clock in nanoseconds the contract (initializeClient, updateState)
\* implements the abstract light client TrustStore.
THEOREM Refinement ==
    ASSUME BlockTimestampUnit = 1 PROVE Spec => ImplementsTrustStore
  <1>1. HeightInv /\ [Next]_vars => [Trust!Next]_(Trust!vars)
    <2> SUFFICES ASSUME HeightInv, [Next]_vars
                 PROVE  [Trust!Next]_(Trust!vars)
      OBVIOUS
    <2>1. ASSUME NEW c \in Clients, NEW sender \in {"ibcHandler", "other"},
                 NEW cs \in ProtoClientStates, NEW ks \in ProtoConsensusStates,
                 InitializeClient(c, sender, cs, ks)
          PROVE  Trust!Next
      BY <2>1, RefinementCreate
    <2>2. ASSUME NEW c \in Clients, NEW m \in UpdateStateInputs, UpdateState(c, m)
          PROVE  Trust!Next
      BY <2>2, RefinementExtend
    <2>3. CASE Tick
      <3>1. /\ now < MaxTimestamp /\ now' = now + 1
            /\ clientStates' = clientStates /\ consensusStates' = consensusStates
        BY <2>3 DEF Tick
      <3>2. \A c \in Clients : TrustedEntries(c)' = TrustedEntries(c)
        BY <3>1 DEF TrustedEntries, Written, NoConsensusState
      <3>3. /\ [d \in Clients |-> TrustedEntries(d)]' =
                  [d \in Clients |-> TrustedEntries(d)]
            /\ [d \in Clients |-> clientStates[d].latestHeight]' =
                  [d \in Clients |-> clientStates[d].latestHeight]
            /\ [d \in Clients |-> clientStates[d].trustingPeriod]' =
                  [d \in Clients |-> clientStates[d].trustingPeriod]
        BY <3>1, <3>2
      <3>4. Trust!Tick
        BY <3>1, <3>3 DEF Trust!Tick, TrustedEntries
      <3> QED BY <3>4 DEF Trust!Next
    <2>4. CASE UNCHANGED vars
      <3>1. /\ now' = now
            /\ clientStates' = clientStates /\ consensusStates' = consensusStates
        BY <2>4 DEF vars
      <3> QED BY <3>1 DEF Trust!vars, Written, NoConsensusState
    <2> QED BY <2>1, <2>2, <2>3, <2>4 DEF Next
  <1> QED BY <1>1, RefinementInit, HeightInit, HeightStep, PTL
             DEF Spec, ImplementsTrustStore, Trust!Spec

=============================================================================
