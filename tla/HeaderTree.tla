----------------------------- MODULE HeaderTree -----------------------------
(***************************************************************************)
(* The Merkle tree over the 14 fields of a Tendermint header.  The relayer  *)
(* (go/relay/tree.go) sends six nodes of it, from which, with the time and  *)
(* the app hash, the contract (contracts/TendermintHeader.sol) computes the *)
(* block hash.  Module ZKLightClient takes that computation to be injective *)
(* in the time and the app hash, and to accept what the relayer sends; here *)
(* both are shown for the tree itself.                                      *)
(***************************************************************************)
EXTENDS Integers

CONSTANTS
    NanosPerSecond,   \* 1e9 in the code
    Empty,            \* an empty byte string
    AppHashes,        \* app hashes of 32 bytes
    Headers,          \* headers [time, appHash, fields]
    Messages          \* messages [time, appHash, proof] that may be sent

FieldIndexes == 0 .. 13
TimeIndex    == 3
AppHashIndex == 10
ValidatorsHashIndex == 7

ASSUME HeaderTreeAssumption ==
    /\ NanosPerSecond \in Nat \ {0}
    /\ Empty \notin AppHashes
    /\ \A h \in Headers : h.time \in Nat /\ h.appHash \in AppHashes \cup {Empty}
    /\ \A m \in Messages : m.time \in Nat /\ m.appHash \in AppHashes

-----------------------------------------------------------------------------
(* Hashes, injective, with different prefixes for leaves and inner nodes *)

leafHash(leaf)         == << "leaf", leaf >>
innerHash(left, right) == << "inner", left, right >>

\* Only in a mutant: nanoseconds are lost.
TimestampSeconds(nanos) ==
    [f \in {1} |-> nanos \div NanosPerSecond]

\* The protobuf message of a time: a field that is 0 is left out.
Timestamp(nanos) ==
    LET value == [f \in {1, 2} |-> IF f = 1 THEN nanos \div NanosPerSecond
                                            ELSE nanos % NanosPerSecond]
    IN  [f \in {g \in {1, 2} : value[g] # 0} |-> value[f]]

-----------------------------------------------------------------------------
(* go/relay/tree.go *)

\* cdcEncode: a wrapper message around the value, nothing for an empty one.
cdcEncode(item) == IF item = Empty THEN << >> ELSE << "value", item >>

headerToLeaves(h) ==
    [i \in FieldIndexes |->
        leafHash(IF i = TimeIndex THEN << "time", Timestamp(h.time) >>
                 ELSE IF i = AppHashIndex THEN cdcEncode(h.appHash)
                 ELSE cdcEncode(h.fields[i]))]

\* Only in a mutant: the app hash's sibling is taken to be on its left.
SiblingOnTheLeft(h) ==
    LET leaves == headerToLeaves(h)
    IN  << innerHash(innerHash(leaves[4], leaves[5]),
                     innerHash(leaves[6], leaves[7])),
           innerHash(leaves[12], leaves[13]), innerHash(leaves[0], leaves[1]),
           innerHash(leaves[8], leaves[9]), leaves[2], leaves[9] >>

\* The nodes with generalized indexes 4, 6, 7, 11, 17 and 26.
getSimpleTreeProof(h) ==
    LET leaves == headerToLeaves(h)
    IN  << innerHash(innerHash(leaves[4], leaves[5]),
                     innerHash(leaves[6], leaves[7])),
           innerHash(leaves[12], leaves[13]),
           innerHash(leaves[0], leaves[1]),
           innerHash(leaves[8], leaves[9]),
           leaves[2],
           leaves[11] >>

\* headerToLeaves returns nil, and getSimpleTreeProof panics, without a
\* validators hash; an empty app hash has no place in the message.
CanBeSent(h) == h.fields[ValidatorsHashIndex] # Empty /\ h.appHash \in AppHashes

HonestMessage(h) ==
    [time |-> h.time, appHash |-> h.appHash, proof |-> getSimpleTreeProof(h)]

-----------------------------------------------------------------------------
(* contracts/TendermintHeader.sol: the proof is counted from 0 there *)

\* cdcEncode of the contract: 32 bytes are never empty.
cdcEncode32(bz) == << "value", bz >>

merkleRoot(time, appHash, proof) ==
    innerHash(
        innerHash(innerHash(proof[3],
                            innerHash(proof[5],
                                      leafHash(<< "time", Timestamp(time) >>))),
                  proof[1]),
        innerHash(innerHash(proof[4],
                            innerHash(leafHash(cdcEncode32(appHash)), proof[6])),
                  proof[2]))

-----------------------------------------------------------------------------
(* The hash of a header in cometbft: the tree over its 14 leaves *)

HeaderHash(h) ==
    LET leaves == headerToLeaves(h)
        pair(i) == innerHash(leaves[i], leaves[i + 1])
    IN  innerHash(
            innerHash(innerHash(pair(0), pair(2)), innerHash(pair(4), pair(6))),
            innerHash(innerHash(pair(8), pair(10)), pair(12)))

\* Only in a mutant: the root is not compared with the header's hash.
NotCompared(h, m) == merkleRoot(m.time, m.appHash, m.proof) # << >>

\* The contract takes the time and the app hash of a message for the header's.
Accepted(h, m) == merkleRoot(m.time, m.appHash, m.proof) = HeaderHash(h)

-----------------------------------------------------------------------------
(* The tree as RFC 6962 and cometbft's merkle package define it *)

\* The left part has as many leaves as the greatest power of two below their number.
Split(n) == CHOOSE k \in {1, 2, 4, 8} : k < n /\ 2 * k >= n

\* The hash of count leaves, counted from 0; tree[n][i] is that of n leaves from i on.
HashFromByteSlices(leaves, count) ==
    LET tree[n \in 1 .. count] ==
            [i \in 0 .. count - n |->
                IF n = 1 THEN leaves[i]
                ELSE innerHash(tree[Split(n)][i], tree[n - Split(n)][i + Split(n)])]
    IN  tree[count][0]

-----------------------------------------------------------------------------
(* Properties *)

\* A message the contract accepts for a header has the header's time and app hash,
\* whatever six nodes it comes with.
OpeningSound ==
    \A h \in Headers, m \in Messages :
        Accepted(h, m) => m.time = h.time /\ m.appHash = h.appHash

\* What the relayer sends for a header is accepted: both sides mean the same six
\* nodes in the same order, and encode the time alike, zero fields included; and
\* with the two opened leaves they make up the root of the tree, of uneven depth,
\* that the chain computes over the header's fields.
OpeningComplete ==
    \A h \in Headers :
        LET m == HonestMessage(h)
        IN  CanBeSent(h) =>
                /\ Accepted(h, m)
                /\ merkleRoot(m.time, m.appHash, m.proof) =
                      HashFromByteSlices(headerToLeaves(h), 14)

=============================================================================
