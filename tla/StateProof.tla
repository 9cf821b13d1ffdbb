----------------------------- MODULE StateProof -----------------------------
(***************************************************************************)
(* How the state of the Tendermint chain is proved to the contract: the     *)
(* relayer queries a value with its proof (ProveState in                    *)
(* go/relay/prover.go), checks and converts the proof (go/relay/tree.go,    *)
(* proof.go), and the contract verifies it against the app hash of a header *)
(* it has stored (verifyMembership and verifyNonMembership in               *)
(* contracts/TendermintZKLightClient.sol).  A header carries the app hash   *)
(* of the state before its block; the contract takes it from a message that *)
(* opens the header's hash (module HeaderTree).                             *)
(***************************************************************************)
EXTENDS TreeVerifier, HeaderTree

CONSTANTS
    Trees,      \* contents and shapes of the IBC store
    Keys,       \* keys asked for, in the store or not
    Values,     \* values asked for
    BlockFields,  \* the other fields of the chain's headers
    MaxBlocks   \* bound on the number of blocks

ASSUME StateProofAssumption ==
    MaxBlocks \in Nat /\ \A t \in Trees : IsSearchTree(t)

\* Keys are numbers, and a node's metadata is within the limits of the ICS-23 spec
\* for IAVL trees, which are those of getPaddingIAVL.
ASSUME MetadataAssumption ==
    /\ Keys \subseteq Nat
    /\ \A t \in Trees : \A x \in Places(t) : Metadata(x[1])[3] \in 3 .. 11

VARIABLES
    trees,      \* the IBC store after each block
    stored,     \* header height -> app hash in the contract's consensus states
    proof       \* the last proof ProveState returned

vars == << trees, stored, proof >>

NoHash  == << >>
NoProof == << >>

\* Heights count from a block beyond the first two, which QueryTendermintProof
\* does not answer for.
HeaderHeights == 2 .. MaxBlocks + 1

Init ==
    /\ trees = << >>
    /\ stored = [h \in HeaderHeights |-> NoHash]
    /\ proof = NoProof

\* A block is executed.
CommitBlock(t) ==
    /\ Len(trees) < MaxBlocks
    /\ trees' = Append(trees, t)
    /\ UNCHANGED << stored, proof >>

HeaderExists(h)  == h - 1 \in DOMAIN trees

HeaderAppHash(h) == AppHash(trees[h - 1])

Header(h) == [time |-> h, appHash |-> HeaderAppHash(h), fields |-> BlockFields]

\* Messages made of the parts of any headers there are.
Offered ==
    LET known == {h \in HeaderHeights : HeaderExists(h)}
    IN  [time : known, appHash : {HeaderAppHash(h) : h \in known},
         proof : {getSimpleTreeProof(Header(h)) : h \in known}]

\* The contract has a proof for the hash of header h (module ZKLightClient) and
\* stores what a message says of that header.
UpdateClient(h) ==
    /\ HeaderExists(h)
    /\ \E m \in Offered :
          /\ Accepted(Header(h), m)
          /\ stored' = [stored EXCEPT ![h] = m.appHash]
    /\ UNCHANGED << trees, proof >>

-----------------------------------------------------------------------------
(* The relayer *)

SimpleTree == 0
IAVLSpec   == 1

\* Numbered otherwise than in the contract, which does not look at them here.
buildExistenceProofIAVL(e)       == ExistenceProof(IAVLSpec, e)
buildExistenceProofSimpleTree(e) == ExistenceProof(SimpleTree, e)

\* The specs of ics23: bounds on the prefix of a step, with the left sibling that
\* may be in it, and the size of a child.
IavlSpec       == [minPrefix |-> 4, maxPrefix |-> 12 + 33, childSize |-> 33]
TendermintSpec == [minPrefix |-> 1, maxPrefix |-> 1 + 32, childSize |-> 32]

\* The leaf prefix of both specs is a zero byte; so begins a leaf's metadata.
HasLeafPrefix(prefix) == prefix[1][1] \in {"tag", "meta"} /\ prefix[1][2] = 0

\* ics23's own reading of the varints: the height with its zigzag encoding undone.
ValidateIavlOps(prefix, layer) ==
    LET rest == Length(prefix) - TokenLength(prefix[1])
    IN  /\ prefix[1][1] = "meta"
        /\ prefix[1][2] \in Nat /\ prefix[1][2] >= layer
        /\ IF layer = 0 THEN rest = 0 ELSE rest \in {1, 34}

CheckAgainstSpec(e, spec) ==
    /\ HasLeafPrefix(e.prefix)
    /\ spec = IavlSpec => ValidateIavlOps(e.prefix, 0)
    /\ \A i \in 1 .. Len(e.path) :
          /\ ~HasLeafPrefix(e.path[i].prefix)
          /\ spec = IavlSpec => ValidateIavlOps(e.path[i].prefix, i)
          /\ Length(e.path[i].prefix) \in spec.minPrefix .. spec.maxPrefix
          /\ Length(e.path[i].suffix) % spec.childSize = 0

Calculate(e) == ApplyPath(e.prefix \o LeafData(e.key, e.value), e.path)

\* VerifyMembership of ibc-go: two existence proofs in a chain.
VerifyMembership(e, store, root, key, value) ==
    /\ e.key = key /\ e.value = value /\ CheckAgainstSpec(e, IavlSpec)
    /\ store.key = Key("ibc") /\ store.value = << Calculate(e) >>
    /\ CheckAgainstSpec(store, TendermintSpec)
    /\ Calculate(store) = root

\* Only in a mutant: the proof is passed on unchecked.
Unchecked(h, e, store, k, v) == e.key = Key(k) /\ e.value = << Value(v) >>

\* verifyAndConvertToExistenceProof: the proofs must lead to the header's app hash.
Verified(h, e, store, k, v) ==
    VerifyMembership(e, store, HeaderAppHash(h), Key(k), << Value(v) >>)

\* The proofs there are: of every leaf, and of every inner node read as a leaf,
\* of every state the chain ever had.
Candidates ==
    UNION {ExistenceProofs(trees[j]) \cup InnerNodesAsLeaves(trees[j]) :
              j \in DOMAIN trees}

\* ProveState: the header at the height asked for is fetched, then the node is asked
\* for the value before its block.  The node answers with any proofs and says they
\* are from state j; the proof height is made from that answer, and nothing compares
\* it with the height asked for.  Every other outcome is an error.  History: asked,
\* and whether the proof is of the state the node says.
ProveState(h, k, v, e, j) ==
    \E i \in DOMAIN trees :
        /\ HeaderExists(h)
        /\ Verified(h, e, StoreProofOf(trees[i]), k, v)
        /\ proof' = [asked |-> h, height |-> j + 1, key |-> k, value |-> v,
                     ofState |-> e \in ExistenceProofs(trees[j]),
                     proof0 |-> buildExistenceProofIAVL(e),
                     proof1 |-> buildExistenceProofSimpleTree(StoreProofOf(trees[i]))]
        /\ UNCHANGED << trees, stored >>

Next ==
    \/ \E t \in Trees : CommitBlock(t)
    \/ \E h \in HeaderHeights : UpdateClient(h)
    \/ \E e \in Candidates, h \in HeaderHeights, k \in Keys, v \in Values,
          j \in DOMAIN trees : ProveState(h, k, v, e, j)

Spec == Init /\ [][Next]_vars

-----------------------------------------------------------------------------
(* The contract *)

\* abi.decode into the struct ExistenceProof reverts on a spec beyond the enum.
Decodes(p) == p.spec \in ProofSpecs

\* Only the prefixes and the paths of the proofs are used.
verifyMembership(h, p0, p1, path, value) ==
    /\ Decodes(p0) /\ Decodes(p1)
    /\ LET root == verifyMembershipIAVLSpec(p0.prefix, path, value, p0.path)
       IN  /\ root # Reverts
           /\ verifyMembershipTendermintSpec(p1.prefix, Key("ibc"), << root >>,
                                             p1.path) = stored[h]

verifyNonMembership(h, key, left, right, p1, path) ==
    /\ Decodes(left) /\ Decodes(right) /\ Decodes(p1)
    /\ key = path
    /\ p1.key = Key("ibc")
    /\ LET root == verifyNonMembershipIAVL(key, left, right)
       IN  /\ root # Reverts
           /\ verifyMembershipTendermintSpec(p1.prefix, Key("ibc"), << root >>,
                                             p1.path) = stored[h]

-----------------------------------------------------------------------------
(* Properties *)

Known == {h \in HeaderHeights : stored[h] # NoHash}

EntriesAt(h) == Entries(trees[h - 1])

\* The leaves of a state as a neighbour in a non-membership proof, under a spec.
NeighboursIn(t, spec) ==
    {NilProof} \cup {ExistenceProof(spec, e) : e \in ExistenceProofs(t)}

\* Also with the number the relayer has for the spec.
Neighbours ==
    UNION {NeighboursIn(trees[j], spec) : j \in DOMAIN trees, spec \in {IAVLSpec, IAVLTree}}

StoreProofAt(h) == buildExistenceProofSimpleTree(StoreProofOf(trees[h - 1]))

\* Every variable is in its range: states come from the chain, the contract has
\* the app hash of an existing header or none, whatever messages it was offered.
TypeOK ==
    /\ trees \in UNION {[1 .. n -> Trees] : n \in 0 .. MaxBlocks}
    /\ \A h \in HeaderHeights :
          stored[h] # NoHash => HeaderExists(h) /\ stored[h] = HeaderAppHash(h)

\* What passed ibc-go's check in ProveState passes the contract's, which is other
\* code: a proof ProveState returned convinces the contract as soon as it knows the
\* header that was asked for, whatever the node answered and whatever the chain does
\* later, and at the height ProveState returned, if the node was right about the
\* state the proof is of.
ReturnedProofAccepted ==
    proof # NoProof =>
        \A h \in Known :
            h = proof.asked \/ (h = proof.height /\ proof.ofState) =>
                verifyMembership(h, proof.proof0, proof.proof1, Key(proof.key),
                                 << Value(proof.value) >>)

\* verifyMembership accepts a key and a value only if the store held them before
\* that header's block: not from another block's proof, and not from an inner
\* node whose bytes are read as a leaf.
MembershipSound ==
    \A h \in Known, p \in Candidates, c \in Candidates :
        verifyMembership(h, buildExistenceProofIAVL(p),
                         buildExistenceProofSimpleTree(StoreProofOf(RootOf(p))),
                         c.key, c.value)
            => << c.key, c.value >> \in EntriesAt(h)

\* verifyNonMembership never accepts a key that is in the store, whichever leaves
\* of whichever states are offered as its neighbours.
NonMembershipSound ==
    \A h \in Known, l \in Neighbours, r \in Neighbours, k \in Keys :
        verifyNonMembership(h, Key(k), l, r, StoreProofAt(h), Key(k))
            => \A e \in EntriesAt(h) : e[1] # Key(k)

\* For every key that is not in the store two leaves, or one at an end of the
\* tree, convince verifyNonMembership, in every shape of the tree.
NonMembershipComplete ==
    \A h \in Known, k \in Keys :
        (\A e \in EntriesAt(h) : e[1] # Key(k)) =>
            \E l, r \in NeighboursIn(trees[h - 1], IAVLTree) :
                verifyNonMembership(h, Key(k), l, r, StoreProofAt(h), Key(k))

=============================================================================
