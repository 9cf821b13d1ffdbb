-------------------------- MODULE MCZKLightClient --------------------------
(***************************************************************************)
(* Instances of ZKLightClient for TLC: a chain of four blocks, two headers  *)
(* beside it at heights 2 and 3, and messages that are honest or differ     *)
(* from an honest one in one field.                                         *)
(***************************************************************************)
EXTENDS ZKLightClient

CONSTANTS a1, a2, r1, r2, digestStep, digestSkip, digestOther, badLength

Header(h, t, a, r) == [height |-> h, time |-> t, appHash |-> a, rest |-> r]

b1 == Header(1, 1, a1, r1)
b2 == Header(2, 2, a1, r1)
b3 == Header(3, 3, a2, r1)
b4 == Header(4, 3, a1, r1)
\* Headers beside the chain, as a fork would produce them.
f2 == Header(2, 3, a2, r2)
f3 == Header(3, 3, a1, r2)

MCChain   == {b1, b2, b3, b4}
MCHeaders == MCChain \cup {f2, f3}

\* The fork is not reachable from the chain.  The last skip goes backwards.
MCStepLinks == {<<b1, b2>>, <<b2, b3>>, <<b3, b4>>, <<f2, f3>>, <<f3, b4>>}
MCSkipLinks == {<<b1, b3>>, <<b1, b4>>, <<b2, b4>>, <<b1, b2>>, <<b4, b2>>,
                <<f2, b4>>}

MCDigests == {digestStep, digestSkip, digestOther}

GoodClientState(h) ==
    [typeUrl |-> "client", stepVerifierDigest |-> digestStep,
     skipVerifierDigest |-> digestSkip, trustingPeriod |-> 2,
     frozen |-> FALSE, revisionHeight |-> h, revisionNumber |-> 0]

\* A valid client state for each starting height and one of each invalid kind.
MCProtoClientStates ==
    {GoodClientState(h) : h \in 1..2} \cup
    {[GoodClientState(1) EXCEPT !.typeUrl = "other"],
     [GoodClientState(1) EXCEPT !.stepVerifierDigest = badLength],
     [GoodClientState(1) EXCEPT !.skipVerifierDigest = badLength],
     [GoodClientState(1) EXCEPT !.stepVerifierDigest = digestOther],
     [GoodClientState(1) EXCEPT !.skipVerifierDigest = digestStep],
     [GoodClientState(1) EXCEPT !.trustingPeriod = 0],
     [GoodClientState(1) EXCEPT !.frozen = TRUE],
     [GoodClientState(1) EXCEPT !.revisionHeight = 0],
     [GoodClientState(1) EXCEPT !.revisionNumber = 1]}

ConsensusStateOf(hd) ==
    [typeUrl |-> "consensus", blockHash |-> BlockHash(hd),
     appHash |-> hd.appHash, timestamp |-> hd.time]

\* The states of three headers, a state that is no header's (the time is not
\* the one the block hash commits to), and the invalid kinds.
MCProtoConsensusStates ==
    {ConsensusStateOf(hd) : hd \in {b1, b2, f2}} \cup
    {[ConsensusStateOf(b1) EXCEPT !.timestamp = 2],
     [ConsensusStateOf(b1) EXCEPT !.blockHash = ZeroHash],
     [ConsensusStateOf(b1) EXCEPT !.typeUrl = "other"],
     [ConsensusStateOf(b1) EXCEPT !.blockHash = badLength],
     [ConsensusStateOf(b1) EXCEPT !.appHash = badLength],
     [ConsensusStateOf(b1) EXCEPT !.timestamp = 0]}

\* The message for a pair of headers, whether or not there is a proof of it.
Messages == {HonestMessage(l) : l \in MCHeaders \X MCHeaders}

MCUpdateStateInputs ==
    Messages \cup
    UNION {{[m EXCEPT !.trustedHeight = h] : h \in Heights} : m \in Messages} \cup
    UNION {{[m EXCEPT !.untrustedHeight = h] : h \in Heights} : m \in Messages} \cup
    UNION {{[m EXCEPT !.timestamp = t] : t \in 1..3} : m \in Messages} \cup
    UNION {{[m EXCEPT !.appHash = a] : a \in {a1, a2}} : m \in Messages} \cup
    UNION {{[m EXCEPT !.input[1] = d] : d \in MCDigests} : m \in Messages} \cup
    UNION {{[m EXCEPT !.input = n.input] : n \in Messages} : m \in Messages}

=============================================================================
