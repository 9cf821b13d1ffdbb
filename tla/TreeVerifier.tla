---------------------------- MODULE TreeVerifier ----------------------------
(***************************************************************************)
(* Membership and non-membership in the trees of a Cosmos chain             *)
(* (contracts/TendermintTreeVerifier.sol): an IAVL tree per store and a     *)
(* simple Merkle tree over the stores' roots, whose root is the app hash.   *)
(*                                                                          *)
(* A byte string is a sequence of tokens: a length byte, a node's metadata, *)
(* a key, a value, a hash.  Hashing is injective, so what matters is which  *)
(* byte strings coincide: an inner node and a leaf can, when a child's hash *)
(* is read as a key of 32 bytes.                                            *)
(***************************************************************************)
EXTENDS Integers, Sequences, FiniteSetsExt, SequencesExt

\* Tokens.  A node's metadata is its height, size and version as varints, of n
\* bytes together; a leaf has height 0.
LengthByte(n)   == << "length", n >>
Meta(height, n) == << "meta", height, n >>
Key(k)          == << "key", k >>
Value(v)        == << "value", v >>
TagByte(b)      == << "tag", b >>
Sha256(bytes)   == << "hash", bytes >>

TokenLength(t) ==
    CASE t[1] = "hash" -> 32
      [] t[1] = "meta" -> t[3]
      [] OTHER         -> 1

Length(bytes) ==
    LET length[i \in 0 .. Len(bytes)] ==
            IF i = 0 THEN 0 ELSE length[i - 1] + TokenLength(bytes[i])
    IN  length[Len(bytes)]

Reverts == << "revert" >>

-----------------------------------------------------------------------------
(* The trees of the chain, as the chain hashes them *)

\* The content of a leaf after its metadata.
LeafData(key, value) ==
    << LengthByte(TokenLength(key)), key, LengthByte(32), Sha256(value) >>

\* A tree is its root hash, and that is the hash of five tokens: the metadata,
\* in which the chain keeps the height, and a key and the hash of a value, or the
\* left and the right child.
Metadata(t)   == t[2][1]
Height(t)     == Metadata(t)[2]
IsLeaf(t)     == Height(t) = 0
KeyOf(t)      == t[2][3]
ValueOf(t)    == t[2][5][2]
LeftChild(t)  == t[2][3]
RightChild(t) == t[2][5]

Leaf(k, v, n) == Sha256(<< Meta(0, n) >> \o LeafData(Key(k), << Value(v) >>))
Node(l, r, n) ==
    Sha256(<< Meta(1 + Max({Height(l), Height(r)}), n),
              LengthByte(32), l, LengthByte(32), r >>)

\* The step from a child to its node, as ics23 writes it.
LeftOp(t) ==
    [prefix |-> << Metadata(t), LengthByte(32) >>,
     suffix |-> << LengthByte(32), RightChild(t) >>]
RightOp(t) ==
    [prefix |-> << Metadata(t), LengthByte(32), LeftChild(t), LengthByte(32) >>,
     suffix |-> << >>]

\* A place in a tree: a subtree and the path from it to the root.
Children(x) ==
    IF IsLeaf(x[1]) THEN {}
    ELSE {<< LeftChild(x[1]), << LeftOp(x[1]) >> \o x[2] >>,
          << RightChild(x[1]), << RightOp(x[1]) >> \o x[2] >>}

\* The places at each depth.
Levels(t) ==
    LET level[d \in 0 .. Height(t)] ==
            IF d = 0 THEN {<< t, << >> >>} ELSE UNION {Children(x) : x \in level[d - 1]}
    IN  level

Places(t) == UNION {Levels(t)[d] : d \in 0 .. Height(t)}
Leaves(t) == {x \in Places(t) : IsLeaf(x[1])}

Entries(t) == {<< KeyOf(x[1]), ValueOf(x[1]) >> : x \in Leaves(t)}

\* The bytes at a place, read as those of a leaf.
ProofAt(x) ==
    [prefix |-> << Metadata(x[1]) >>, key |-> KeyOf(x[1]), value |-> ValueOf(x[1]),
     path |-> x[2]]

ExistenceProofs(t) == {ProofAt(x) : x \in Leaves(t)}

\* The same with an inner node in the place of a leaf: a child's hash is read as
\* a key, the other child's bytes as a value.
InnerNodesAsLeaves(t) == {ProofAt(x) : x \in Places(t) \ Leaves(t)}

\* What is at a place of a tree the chain makes: a leaf, or a node over children
\* of which the left one has the smaller keys.
WellFormed(s) ==
    /\ Height(s) \in Nat
    /\ IsLeaf(s) =>
          /\ KeyOf(s)[2] \in Nat
          /\ s = Leaf(KeyOf(s)[2], ValueOf(s)[1][2], Metadata(s)[3])
    /\ ~IsLeaf(s) =>
          /\ s = Node(LeftChild(s), RightChild(s), Metadata(s)[3])
          /\ \A a \in Entries(LeftChild(s)), b \in Entries(RightChild(s)) :
                a[1][2] < b[1][2]

IsSearchTree(t) == Height(t) \in Nat /\ \A x \in Places(t) : WellFormed(x[1])

\* The multistore: the "ibc" store beside one other.
StoreLeaf(name, root) ==
    Sha256(<< TagByte(0) >> \o LeafData(Key(name), << root >>))
OtherStore == StoreLeaf("other", Sha256(<< >>))

AppHash(t) == Sha256(<< TagByte(1), StoreLeaf("ibc", t), OtherStore >>)

\* The proof of the "ibc" store's root: only its value depends on that root.
StoreProof ==
    [prefix |-> << TagByte(0) >>, key |-> Key("ibc"),
     path |-> << [prefix |-> << TagByte(1) >>, suffix |-> << OtherStore >>] >>]

StoreProofOf(root) ==
    [prefix |-> StoreProof.prefix, key |-> StoreProof.key, value |-> << root >>,
     path |-> StoreProof.path]

-----------------------------------------------------------------------------
(* Membership *)

\* The enum ProofSpec: None, SimpleTree, IAVLTree.
ProofSpecs == 0 .. 2
IAVLTree   == 2

ExistenceProof(spec, e) ==
    [spec |-> spec, prefix |-> e.prefix, key |-> e.key, value |-> e.value,
     path |-> e.path]

\* The varints of validateIAVLOps: height, size, version.  The height is read
\* without undoing its zigzag encoding, as twice its value.
DecodedHeight(prefix) == 2 * prefix[1][2]

\* What is left of the prefix after the varints: nothing in a leaf, a length
\* byte before a left child, a sibling between length bytes before a right one.
validateIAVLOps(prefix, b) ==
    LET rest == Length(prefix) - TokenLength(prefix[1])
    IN  /\ prefix[1][1] = "meta"
        /\ DecodedHeight(prefix) >= b
        /\ IF b = 0 THEN rest = 0 ELSE rest \in {1, 34}

\* Only in a mutant: any node may be a leaf.
AnyLeafPrefix(prefix) == prefix # << >>

\* prefix[0] == 0: the metadata of a leaf begins with height 0.
LeafPrefix(prefix) == DecodedHeight(prefix) = 0

\* The hashes on the way from the leaf to the root.
Hashes(leaf, path) ==
    LET hash[i \in 0 .. Len(path)] ==
            IF i = 0 THEN Sha256(leaf)
            ELSE Sha256(path[i].prefix \o << hash[i - 1] >> \o path[i].suffix)
    IN  hash

ApplyPath(leaf, path) == Hashes(leaf, path)[Len(path)]

verifyMembershipIAVLSpec(prefix, key, value, path) ==
    IF /\ LeafPrefix(prefix)
       /\ validateIAVLOps(prefix, 0)
       /\ \A i \in 1 .. Len(path) :
             /\ Length(path[i].prefix) \in 4 .. 45
             /\ Length(path[i].suffix) % 33 = 0
             /\ validateIAVLOps(path[i].prefix, i)
    THEN ApplyPath(prefix \o LeafData(key, value), path)
    ELSE Reverts

verifyMembershipTendermintSpec(prefix, key, value, path) ==
    IF /\ prefix = << TagByte(0) >>
       /\ \A i \in 1 .. Len(path) :
             /\ Length(path[i].prefix) \in 1 .. 33
             /\ Length(path[i].suffix) % 32 = 0
    THEN ApplyPath(prefix \o LeafData(key, value), path)
    ELSE Reverts

-----------------------------------------------------------------------------
(* Non-membership *)

\* Only in a mutant: metadata of at most ten bytes.
ShorterPadding(branch) ==
    [minPrefix |-> branch * 33 + 4, maxPrefix |-> branch * 33 + 11,
     suffix |-> (1 - branch) * 33]

\* Branch 0 is the left child, branch 1 the right one.
getPaddingIAVL(branch) ==
    [minPrefix |-> branch * 33 + 4, maxPrefix |-> branch * 33 + 12,
     suffix |-> (1 - branch) * 33]

hasPadding(op, pad) ==
    /\ Length(op.prefix) \in pad.minPrefix .. pad.maxPrefix
    /\ Length(op.suffix) = pad.suffix

\* Only in a mutant: the step nearest to the leaf is not looked at.
AllButFirst(path, maxLen, branch) ==
    \A i \in 2 .. maxLen : hasPadding(path[i], getPaddingIAVL(branch))

\* The loop of isLeftMostIAVL (branch 0) and isRightMostIAVL (branch 1).
allOnBranch(path, maxLen, branch) ==
    \A i \in 1 .. maxLen : hasPadding(path[i], getPaddingIAVL(branch))

isLeftMostIAVL(path, maxLen)  == allOnBranch(path, maxLen, 0)
isRightMostIAVL(path, maxLen) == allOnBranch(path, maxLen, 1)

\* orderFromPaddingIAVL reverts when neither branch fits.
isLeftStepIAVL(left, right) ==
    /\ hasPadding(left, getPaddingIAVL(0))
    /\ hasPadding(right, getPaddingIAVL(1))

\* The paths are followed down from the root while they agree; an index below 0
\* reverts.
isLeftNeighborIAVL(left, right) ==
    LET l == Len(left)
        r == Len(right)
        split == {n \in 0 .. Min({l, r}) - 1 : left[l - n] # right[r - n]}
        n == Min(split)
    IN  /\ split # {}
        /\ isLeftStepIAVL(left[l - n], right[r - n])
        /\ isRightMostIAVL(left, l - n - 1)
        /\ isLeftMostIAVL(right, r - n - 1)

\* An absent neighbour has an empty key.
NilProof == [spec |-> IAVLTree, prefix |-> << >>, key |-> << >>, value |-> << >>,
             path |-> << >>]

\* bytesCompare on keys, which are ordered like their numbers.
ensureKeysInValidRange(leftKey, key, rightKey) ==
    /\ leftKey = << >> \/ leftKey[2] < key[2]
    /\ rightKey = << >> \/ key[2] < rightKey[2]

RootOf(p) == verifyMembershipIAVLSpec(p.prefix, p.key, p.value, p.path)

verifyNonMembershipIAVL(key, left, right) ==
    LET isLeftNil  == left.key = << >>
        isRightNil == right.key = << >>
    IN  IF /\ left.spec = right.spec /\ left.spec = IAVLTree
           /\ ~(isLeftNil /\ isRightNil)
           /\ ensureKeysInValidRange(left.key, key, right.key)
           /\ isLeftNil \/ isRightNil \/ RootOf(left) = RootOf(right)
           /\ CASE isLeftNil  -> isLeftMostIAVL(right.path, Len(right.path))
                [] isRightNil -> isRightMostIAVL(left.path, Len(left.path))
                [] OTHER      -> isLeftNeighborIAVL(left.path, right.path)
        THEN IF isLeftNil THEN RootOf(right) ELSE RootOf(left)
        ELSE Reverts

=============================================================================
