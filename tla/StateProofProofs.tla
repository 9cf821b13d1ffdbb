-------------------------- MODULE StateProofProofs --------------------------
(***************************************************************************)
(* The proofs about the trees of the chain: the opening of a header (module  *)
(* HeaderTree), membership and non-membership in the IBC store (module       *)
(* TreeVerifier), and what the contract accepts (module StateProof), for     *)
(* trees of every height and shape.                                          *)
(***************************************************************************)
EXTENDS StateProof, SharedLemmas

-----------------------------------------------------------------------------
(* The opening of a header *)

\* A time is determined by its seconds and nanoseconds.
LEMMA SecondsAndNanos ==
    ASSUME NEW s \in Nat, NEW t \in Nat,
           s \div NanosPerSecond = t \div NanosPerSecond,
           s % NanosPerSecond = t % NanosPerSecond
    PROVE  s = t
  <1> DEFINE n == NanosPerSecond
  <1>1. n \in Nat /\ n > 0
    BY HeaderTreeAssumption
  <1> HIDE DEF n
  <1>2. \A x \in Nat : x = n * (x \div n) + (x % n)
    BY <1>1, SMT
  <1>3. s \div n = t \div n /\ s % n = t % n
    BY DEF n
  <1> QED
    BY <1>2, <1>3

\* So is a time by its protobuf message, although fields that are 0 are left out.
LEMMA TimestampInjective ==
    ASSUME NEW s \in Nat, NEW t \in Nat, Timestamp(s) = Timestamp(t)
    PROVE  s = t
  <1> DEFINE n == NanosPerSecond
             v(x) == [f \in {1, 2} |-> IF f = 1 THEN x \div n ELSE x % n]
             m(x) == [f \in {g \in {1, 2} : v(x)[g] # 0} |-> v(x)[f]]
  <1>1. m(s) = m(t)
    BY DEF Timestamp
  <1>2. ASSUME NEW f \in {1, 2} PROVE v(s)[f] = v(t)[f]
    <2>1. DOMAIN m(s) = {g \in {1, 2} : v(s)[g] # 0}
      OBVIOUS
    <2>2. DOMAIN m(t) = {g \in {1, 2} : v(t)[g] # 0}
      OBVIOUS
    <2>3. (v(s)[f] # 0) <=> (v(t)[f] # 0)
      BY <1>1, <2>1, <2>2
    <2>4. CASE v(s)[f] # 0
      <3>1. m(s)[f] = v(s)[f] /\ m(t)[f] = v(t)[f]
        BY <2>3, <2>4
      <3> QED
        BY <1>1, <3>1
    <2>5. CASE v(s)[f] = 0
      BY <2>3, <2>5
    <2> QED
      BY <2>4, <2>5
  <1>3. s \div n = t \div n /\ s % n = t % n
    BY <1>2
  <1> QED
    BY <1>3, SecondsAndNanos

\* Two openings with the same root agree in the time and the app hash, whatever
\* nodes they come with: merkleRoot is injective, as ZKLightClient's MerkleRoot is.
THEOREM RootInjective ==
    ASSUME NEW s \in Nat, NEW a, NEW p, NEW t \in Nat, NEW b, NEW q,
           merkleRoot(s, a, p) = merkleRoot(t, b, q)
    PROVE  s = t /\ a = b
  <1> DEFINE l(x, y) == innerHash(innerHash(y[3], innerHash(y[5], x)), y[1])
             r(x, y) == innerHash(innerHash(y[4], innerHash(x, y[6])), y[2])
             tl(x) == leafHash(<< "time", Timestamp(x) >>)
             al(x) == leafHash(cdcEncode32(x))
  <1>1. innerHash(l(tl(s), p), r(al(a), p)) = innerHash(l(tl(t), q), r(al(b), q))
    BY DEF merkleRoot
  <1>2. l(tl(s), p) = l(tl(t), q) /\ r(al(a), p) = r(al(b), q)
    BY <1>1 DEF innerHash
  <1>3. tl(s) = tl(t) /\ al(a) = al(b)
    BY <1>2 DEF innerHash
  <1>4. Timestamp(s) = Timestamp(t) /\ a = b
    BY <1>3 DEF leafHash, cdcEncode32
  <1> QED
    BY <1>4, TimestampInjective

\* The message of the relayer opens the hash of the header: merkleRoot and
\* getSimpleTreeProof mean the same nodes of the tree.
LEMMA HonestRoot ==
    ASSUME NEW h, CanBeSent(h)
    PROVE  merkleRoot(h.time, h.appHash, getSimpleTreeProof(h)) = HeaderHash(h)
  <1>1. cdcEncode(h.appHash) = cdcEncode32(h.appHash)
    BY HeaderTreeAssumption DEF CanBeSent, cdcEncode, cdcEncode32
  <1>2. headerToLeaves(h)[3] = leafHash(<< "time", Timestamp(h.time) >>)
    BY DEF headerToLeaves, FieldIndexes, TimeIndex
  <1>3. headerToLeaves(h)[10] = leafHash(cdcEncode32(h.appHash))
    BY <1>1 DEF headerToLeaves, FieldIndexes, TimeIndex, AppHashIndex
  <1> QED
    BY <1>2, <1>3 DEF merkleRoot, getSimpleTreeProof, HeaderHash

\* Any root that a header's own nodes lead to fixes its time and app hash, also
\* when the header has no app hash.
LEMMA HashFixesOpening ==
    ASSUME NEW h, h.time \in Nat, NEW t \in Nat, NEW a, NEW p,
           merkleRoot(t, a, p) = HeaderHash(h)
    PROVE  t = h.time /\ a = h.appHash
  <1> DEFINE leaves == headerToLeaves(h)
  <1>1. leaves[3] = leafHash(<< "time", Timestamp(t) >>)
        /\ leaves[10] = leafHash(cdcEncode32(a))
    BY DEF merkleRoot, HeaderHash, innerHash
  <1>2. leaves[3] = leafHash(<< "time", Timestamp(h.time) >>)
        /\ leaves[10] = leafHash(cdcEncode(h.appHash))
    BY DEF headerToLeaves, FieldIndexes, TimeIndex, AppHashIndex
  <1>3. Timestamp(t) = Timestamp(h.time)
    BY <1>1, <1>2 DEF leafHash
  <1>4. cdcEncode32(a) = cdcEncode(h.appHash)
    BY <1>1, <1>2 DEF leafHash
  <1>5. a = h.appHash
    BY <1>4 DEF cdcEncode32, cdcEncode
  <1> QED
    BY <1>3, <1>5, TimestampInjective

\* Whatever messages are sent, one that the contract accepts for a header has the
\* time and the app hash of that header (merkleRoot in TendermintHeader.sol).
THEOREM AcceptedIsHeader == OpeningSound
  <1> SUFFICES ASSUME NEW h \in Headers, NEW m \in Messages, Accepted(h, m)
               PROVE  m.time = h.time /\ m.appHash = h.appHash
    BY DEF OpeningSound
  <1>1. m.time \in Nat /\ h.time \in Nat
    BY HeaderTreeAssumption
  <1> QED
    BY <1>1, HashFixesOpening DEF Accepted

-----------------------------------------------------------------------------
(* The tree over a header's fields *)

\* Both parts of a split are smaller.
LEMMA SplitSmaller ==
    ASSUME NEW n \in 2 .. 14
    PROVE  Split(n) \in 1 .. n - 1
PROOF
<1>1. \E k \in {1, 2, 4, 8} : k < n /\ 2 * k >= n
  <2>1. CASE n = 2
    BY <2>1
  <2>2. CASE n \in 3 .. 4
    BY <2>2
  <2>3. CASE n \in 5 .. 8
    BY <2>3
  <2>4. CASE n \in 9 .. 14
    BY <2>4
  <2> QED BY <2>1, <2>2, <2>3, <2>4
<1>2. Split(n) \in {1, 2, 4, 8} /\ Split(n) < n
  BY <1>1 DEF Split
<1> QED BY <1>2

\* The splits of a tree over 14 leaves.
LEMMA Splits ==
    Split(14) = 8 /\ Split(8) = 4 /\ Split(6) = 4 /\ Split(4) = 2 /\ Split(2) = 1
PROOF
BY DEF Split

\* The hashes of n leaves, from those of fewer.
Row(leaves, f, n) ==
    [i \in 0 .. 14 - n |->
        IF n = 1 THEN leaves[i]
        ELSE innerHash(f[Split(n)][i], f[n - Split(n)][i + Split(n)])]

RowsLoop(leaves, m, f) == f = [n \in 1 .. m |-> Row(leaves, f, n)]

LEMMA RowSame ==
    ASSUME NEW leaves, NEW f, NEW g, NEW n \in 1 .. 14,
           \A k \in 1 .. n - 1 : f[k] = g[k]
    PROVE  Row(leaves, f, n) = Row(leaves, g, n)
PROOF
<1>1. CASE n = 1
  BY <1>1 DEF Row
<1>2. CASE n # 1
  <2>1. PICK k \in 1 .. n - 1 : k = Split(n)
    BY <1>2, SplitSmaller
  <2>2. n - k \in 1 .. n - 1
    OBVIOUS
  <2>3. f[k] = g[k] /\ f[n - k] = g[n - k]
    BY <2>2
  <2> QED BY <2>1, <2>3 DEF Row
<1> QED BY <1>1, <1>2

LEMMA RowsExist ==
    ASSUME NEW leaves
    PROVE  \E f : RowsLoop(leaves, 14, f)
PROOF
<1> DEFINE K == {m \in 0 .. 14 : \E f : RowsLoop(leaves, m, f)}
<1>1. \E f : RowsLoop(leaves, 0, f)
  <2>1. PICK f : f = [n \in 1 .. 0 |-> 0]
    OBVIOUS
  <2>2. f = [n \in 1 .. 0 |-> Row(leaves, f, n)]
    BY <2>1
  <2> QED BY <2>2 DEF RowsLoop
<1>2. ASSUME NEW m \in 0 .. 14 - 1, NEW f, RowsLoop(leaves, m, f)
      PROVE  \E g : RowsLoop(leaves, m + 1, g)
  <2>1. f = [n \in 1 .. m |-> Row(leaves, f, n)]
    BY <1>2 DEF RowsLoop
  <2>2. PICK last : last = Row(leaves, f, m + 1)
    OBVIOUS
  <2>3. PICK g : g = [n \in 1 .. m + 1 |-> IF n = m + 1 THEN last ELSE f[n]]
    OBVIOUS
  <2>4. g[m + 1] = last /\ \A n \in 1 .. m : g[n] = f[n]
    BY <2>3
  <2>5. ASSUME NEW n \in 1 .. m + 1
        PROVE  g[n] = Row(leaves, g, n)
    <3>1. n \in 1 .. 14 /\ \A k \in 1 .. n - 1 : f[k] = g[k]
      BY <2>4
    <3>2. Row(leaves, f, n) = Row(leaves, g, n)
      BY <3>1, RowSame
    <3>3. CASE n = m + 1
      BY <2>2, <2>4, <3>2, <3>3
    <3>4. CASE n \in 1 .. m
      BY <2>1, <2>4, <3>2, <3>4
    <3> QED BY <3>3, <3>4
  <2>6. g = [n \in 1 .. m + 1 |-> g[n]]
    BY <2>3
  <2>7. g = [n \in 1 .. m + 1 |-> Row(leaves, g, n)]
    BY <2>5, <2>6
  <2> QED BY <2>7 DEF RowsLoop
<1>3. 0 \in K /\ \A k \in 0 .. 14 - 1 : k \in K => k + 1 \in K
  BY <1>1, <1>2
<1> HIDE DEF K
<1>4. PICK m \in Nat : m = 14
  OBVIOUS
<1>5. 0 .. m \subseteq K
  BY <1>3, <1>4, InductionUpTo
<1>6. 14 \in K
  BY <1>4, <1>5
<1> QED BY <1>6 DEF K

\* The recursion over the 14 fields ends in the tree that HeaderHash spells out.
LEMMA HeaderHashIsTree ==
    ASSUME NEW h
    PROVE  HashFromByteSlices(headerToLeaves(h), 14) = HeaderHash(h)
PROOF
<1>1. PICK leaves : leaves = headerToLeaves(h)
  OBVIOUS
<1>2. PICK f : f = CHOOSE g : RowsLoop(leaves, 14, g)
  OBVIOUS
<1>3. RowsLoop(leaves, 14, f)
  BY <1>2, RowsExist
<1>4. HashFromByteSlices(leaves, 14) = f[14][0]
  BY <1>2 DEF HashFromByteSlices, RowsLoop, Row
<1>5. \A n \in 1 .. 14 : f[n] = Row(leaves, f, n)
  BY <1>3 DEF RowsLoop
<1>6. \A i \in 0 .. 13 : f[1][i] = leaves[i]
  <2>1. f[1] = Row(leaves, f, 1)
    BY <1>5
  <2> QED BY <2>1 DEF Row
<1>7. \A i \in 0 .. 12 : f[2][i] = innerHash(leaves[i], leaves[i + 1])
  <2>1. f[2] = Row(leaves, f, 2)
    BY <1>5
  <2>2. \A i \in 0 .. 12 : f[2][i] = innerHash(f[1][i], f[1][i + 1])
    BY <2>1, Splits DEF Row
  <2> QED BY <1>6, <2>2
<1>8. \A i \in 0 .. 10 : f[4][i] = innerHash(f[2][i], f[2][i + 2])
  <2>1. f[4] = Row(leaves, f, 4)
    BY <1>5
  <2> QED BY <2>1, Splits DEF Row
<1>9. f[6][8] = innerHash(f[4][8], f[2][12])
  <2>1. f[6] = Row(leaves, f, 6)
    BY <1>5
  <2> QED BY <2>1, Splits DEF Row
<1>10. f[8][0] = innerHash(f[4][0], f[4][4])
  <2>1. f[8] = Row(leaves, f, 8)
    BY <1>5
  <2> QED BY <2>1, Splits DEF Row
<1>11. f[14][0] = innerHash(f[8][0], f[6][8])
  <2>1. f[14] = Row(leaves, f, 14)
    BY <1>5
  <2> QED BY <2>1, Splits DEF Row
<1>12. \A i \in {0, 2, 4, 6, 8, 10, 12} : f[2][i] = innerHash(leaves[i], leaves[i + 1])
  BY <1>7
<1>13. /\ f[4][0] = innerHash(f[2][0], f[2][2])
       /\ f[4][4] = innerHash(f[2][4], f[2][6])
       /\ f[4][8] = innerHash(f[2][8], f[2][10])
  BY <1>8
<1> QED BY <1>1, <1>4, <1>9, <1>10, <1>11, <1>12, <1>13 DEF HeaderHash

\* What getSimpleTreeProof sends for any header with an app hash is accepted, and the
\* contract's root of its six nodes is the root of the tree that cometbft builds over
\* the 14 fields (tree.go and TendermintHeader.sol, against RFC 6962's splitting of
\* the leaves).
THEOREM HonestOpening == OpeningComplete
PROOF
BY HonestRoot, HeaderHashIsTree DEF OpeningComplete, Accepted, HonestMessage

-----------------------------------------------------------------------------
(* Loops *)

\* The lengths of the parts of a byte string, as Length adds them up.
LengthLoop(s, n, f) ==
    f = [i \in 0 .. n |-> IF i = 0 THEN 0
                          ELSE f[i - 1] + TokenLength(s[i])]

LEMMA LengthExists ==
    ASSUME NEW s, NEW n \in Nat
    PROVE  \E f : LengthLoop(s, n, f)
PROOF
<1> DEFINE K == {m \in 0 .. n : \E f : LengthLoop(s, m, f)}
<1>1. \E f : LengthLoop(s, 0, f)
  <2>1. PICK f : f = [i \in 0 .. 0 |-> 0]
    OBVIOUS
  <2>2. f = [i \in 0 .. 0 |-> IF i = 0 THEN 0
                              ELSE f[i - 1] + TokenLength(s[i])]
    BY <2>1
  <2> QED BY <2>2 DEF LengthLoop
<1>2. ASSUME NEW m \in 0 .. n - 1, NEW f, LengthLoop(s, m, f)
      PROVE  \E g : LengthLoop(s, m + 1, g)
  <2>1. f = [i \in 0 .. m |-> IF i = 0 THEN 0
                              ELSE f[i - 1] + TokenLength(s[i])]
    BY <1>2 DEF LengthLoop
  <2>2. PICK last : last = f[m] + TokenLength(s[m + 1])
    OBVIOUS
  <2>3. PICK g : g = [i \in 0 .. m + 1 |-> IF i = m + 1 THEN last ELSE f[i]]
    OBVIOUS
  <2>4. g[m + 1] = last /\ \A i \in 0 .. m : g[i] = f[i]
    BY <2>3
  <2>5. \A i \in 1 .. m : i \in 0 .. m /\ i # 0 /\ i - 1 \in 0 .. m
    OBVIOUS
  <2>6. \A i \in 1 .. m : f[i] = f[i - 1] + TokenLength(s[i])
    BY <2>1, <2>5
  <2>7. ASSUME NEW i \in 0 .. m + 1
        PROVE  g[i] = IF i = 0 THEN 0
                      ELSE g[i - 1] + TokenLength(s[i])
    <3>1. CASE i = 0
      <4>1. 0 \in 0 .. m
        OBVIOUS
      <4>2. f[0] = 0
        BY <2>1, <4>1
      <4> QED BY <2>4, <3>1, <4>1, <4>2
    <3>2. CASE i \in 1 .. m
      BY <2>4, <2>5, <2>6, <3>2
    <3>3. CASE i = m + 1
      <4>1. m \in 0 .. m /\ i - 1 = m /\ i # 0
        BY <3>3
      <4> QED BY <2>2, <2>4, <3>3, <4>1
    <3> QED BY <3>1, <3>2, <3>3
  <2>8. g = [i \in 0 .. m + 1 |-> g[i]]
    BY <2>3
  <2>9. g = [i \in 0 .. m + 1 |-> IF i = 0 THEN 0
                                 ELSE g[i - 1] + TokenLength(s[i])]
    BY <2>7, <2>8
  <2> QED BY <2>9 DEF LengthLoop
<1>3. 0 \in K /\ \A k \in 0 .. n - 1 : k \in K => k + 1 \in K
  BY <1>1, <1>2
<1> HIDE DEF K
<1>4. 0 .. n \subseteq K
  BY <1>3, InductionUpTo
<1> QED BY <1>4 DEF K

\* The hashes on the way to the root, as ApplyPath computes them.
HashLoop(leaf, path, n, f) ==
    f = [i \in 0 .. n |-> IF i = 0 THEN Sha256(leaf)
                          ELSE Sha256(path[i].prefix \o << f[i - 1] >> \o path[i].suffix)]

LEMMA HashesExist ==
    ASSUME NEW leaf, NEW path, NEW n \in Nat
    PROVE  \E f : HashLoop(leaf, path, n, f)
PROOF
<1> DEFINE K == {m \in 0 .. n : \E f : HashLoop(leaf, path, m, f)}
<1>1. \E f : HashLoop(leaf, path, 0, f)
  <2>1. PICK f : f = [i \in 0 .. 0 |-> Sha256(leaf)]
    OBVIOUS
  <2>2. f = [i \in 0 .. 0 |-> IF i = 0 THEN Sha256(leaf)
                              ELSE Sha256(path[i].prefix \o << f[i - 1] >> \o path[i].suffix)]
    BY <2>1
  <2> QED BY <2>2 DEF HashLoop
<1>2. ASSUME NEW m \in 0 .. n - 1, NEW f, HashLoop(leaf, path, m, f)
      PROVE  \E g : HashLoop(leaf, path, m + 1, g)
  <2>1. f = [i \in 0 .. m |-> IF i = 0 THEN Sha256(leaf)
                              ELSE Sha256(path[i].prefix \o << f[i - 1] >> \o path[i].suffix)]
    BY <1>2 DEF HashLoop
  <2>2. PICK last : last = Sha256(path[m + 1].prefix \o << f[m] >> \o path[m + 1].suffix)
    OBVIOUS
  <2>3. PICK g : g = [i \in 0 .. m + 1 |-> IF i = m + 1 THEN last ELSE f[i]]
    OBVIOUS
  <2>4. g[m + 1] = last /\ \A i \in 0 .. m : g[i] = f[i]
    BY <2>3
  <2>5. \A i \in 1 .. m : i \in 0 .. m /\ i # 0 /\ i - 1 \in 0 .. m
    OBVIOUS
  <2>6. \A i \in 1 .. m : f[i] = Sha256(path[i].prefix \o << f[i - 1] >> \o path[i].suffix)
    BY <2>1, <2>5
  <2>7. ASSUME NEW i \in 0 .. m + 1
        PROVE  g[i] = IF i = 0 THEN Sha256(leaf)
                      ELSE Sha256(path[i].prefix \o << g[i - 1] >> \o path[i].suffix)
    <3>1. CASE i = 0
      <4>1. 0 \in 0 .. m
        OBVIOUS
      <4>2. f[0] = Sha256(leaf)
        BY <2>1, <4>1
      <4> QED BY <2>4, <3>1, <4>1, <4>2
    <3>2. CASE i \in 1 .. m
      BY <2>4, <2>5, <2>6, <3>2
    <3>3. CASE i = m + 1
      <4>1. m \in 0 .. m /\ i - 1 = m /\ i # 0
        BY <3>3
      <4> QED BY <2>2, <2>4, <3>3, <4>1
    <3> QED BY <3>1, <3>2, <3>3
  <2>8. g = [i \in 0 .. m + 1 |-> g[i]]
    BY <2>3
  <2>9. g = [i \in 0 .. m + 1 |-> IF i = 0 THEN Sha256(leaf)
                                 ELSE Sha256(path[i].prefix \o << g[i - 1] >> \o path[i].suffix)]
    BY <2>7, <2>8
  <2> QED BY <2>9 DEF HashLoop
<1>3. 0 \in K /\ \A k \in 0 .. n - 1 : k \in K => k + 1 \in K
  BY <1>1, <1>2
<1> HIDE DEF K
<1>4. 0 .. n \subseteq K
  BY <1>3, InductionUpTo
<1> QED BY <1>4 DEF K

\* The levels of a tree, as Levels descends through them.
LevelLoop(t, n, f) ==
    f = [i \in 0 .. n |-> IF i = 0 THEN {<< t, << >> >>}
                          ELSE UNION {Children(x) : x \in f[i - 1]}]

LEMMA LevelsExist ==
    ASSUME NEW t, NEW n \in Nat
    PROVE  \E f : LevelLoop(t, n, f)
PROOF
<1> DEFINE K == {m \in 0 .. n : \E f : LevelLoop(t, m, f)}
<1>1. \E f : LevelLoop(t, 0, f)
  <2>1. PICK f : f = [i \in 0 .. 0 |-> {<< t, << >> >>}]
    OBVIOUS
  <2>2. f = [i \in 0 .. 0 |-> IF i = 0 THEN {<< t, << >> >>}
                              ELSE UNION {Children(x) : x \in f[i - 1]}]
    BY <2>1
  <2> QED BY <2>2 DEF LevelLoop
<1>2. ASSUME NEW m \in 0 .. n - 1, NEW f, LevelLoop(t, m, f)
      PROVE  \E g : LevelLoop(t, m + 1, g)
  <2>1. f = [i \in 0 .. m |-> IF i = 0 THEN {<< t, << >> >>}
                              ELSE UNION {Children(x) : x \in f[i - 1]}]
    BY <1>2 DEF LevelLoop
  <2>2. PICK last : last = UNION {Children(x) : x \in f[m]}
    OBVIOUS
  <2>3. PICK g : g = [i \in 0 .. m + 1 |-> IF i = m + 1 THEN last ELSE f[i]]
    OBVIOUS
  <2>4. g[m + 1] = last /\ \A i \in 0 .. m : g[i] = f[i]
    BY <2>3
  <2>5. \A i \in 1 .. m : i \in 0 .. m /\ i # 0 /\ i - 1 \in 0 .. m
    OBVIOUS
  <2>6. \A i \in 1 .. m : f[i] = UNION {Children(x) : x \in f[i - 1]}
    BY <2>1, <2>5
  <2>7. ASSUME NEW i \in 0 .. m + 1
        PROVE  g[i] = IF i = 0 THEN {<< t, << >> >>}
                      ELSE UNION {Children(x) : x \in g[i - 1]}
    <3>1. CASE i = 0
      <4>1. 0 \in 0 .. m
        OBVIOUS
      <4>2. f[0] = {<< t, << >> >>}
        BY <2>1, <4>1
      <4> QED BY <2>4, <3>1, <4>1, <4>2
    <3>2. CASE i \in 1 .. m
      BY <2>4, <2>5, <2>6, <3>2
    <3>3. CASE i = m + 1
      <4>1. m \in 0 .. m /\ i - 1 = m /\ i # 0
        BY <3>3
      <4> QED BY <2>2, <2>4, <3>3, <4>1
    <3> QED BY <3>1, <3>2, <3>3
  <2>8. g = [i \in 0 .. m + 1 |-> g[i]]
    BY <2>3
  <2>9. g = [i \in 0 .. m + 1 |-> IF i = 0 THEN {<< t, << >> >>}
                                 ELSE UNION {Children(x) : x \in g[i - 1]}]
    BY <2>7, <2>8
  <2> QED BY <2>9 DEF LevelLoop
<1>3. 0 \in K /\ \A k \in 0 .. n - 1 : k \in K => k + 1 \in K
  BY <1>1, <1>2
<1> HIDE DEF K
<1>4. 0 .. n \subseteq K
  BY <1>3, InductionUpTo
<1> QED BY <1>4 DEF K

\* Length adds up the lengths of the tokens.
LEMMA LengthEquation ==
    ASSUME NEW s, Len(s) \in Nat
    PROVE  \E f : /\ f[0] = 0 /\ Length(s) = f[Len(s)]
                  /\ \A i \in 1 .. Len(s) : f[i] = f[i - 1] + TokenLength(s[i])
PROOF
<1>1. PICK n \in Nat : n = Len(s)
  OBVIOUS
<1>2. PICK f : f = CHOOSE g : LengthLoop(s, n, g)
  OBVIOUS
<1>3. LengthLoop(s, n, f)
  BY <1>2, LengthExists
<1>4. Length(s) = f[n]
  BY <1>1, <1>2 DEF Length, LengthLoop
<1>5. 0 \in 0 .. n /\ \A i \in 1 .. n : i \in 0 .. n /\ i # 0
  OBVIOUS
<1>6. f[0] = 0
  BY <1>3, <1>5 DEF LengthLoop
<1>7. \A i \in 1 .. n : f[i] = f[i - 1] + TokenLength(s[i])
  BY <1>3, <1>5 DEF LengthLoop
<1> QED BY <1>1, <1>4, <1>6, <1>7

\* Every hash on the way to the root is that of the one below between a prefix and
\* a suffix.
LEMMA HashesEquation ==
    ASSUME NEW leaf, NEW path, Len(path) \in Nat
    PROVE  /\ Hashes(leaf, path)[0] = Sha256(leaf)
           /\ \A i \in 1 .. Len(path) : Hashes(leaf, path)[i] =
                 Sha256(path[i].prefix \o << Hashes(leaf, path)[i - 1] >> \o path[i].suffix)
PROOF
<1>1. PICK n \in Nat : n = Len(path)
  OBVIOUS
<1>2. PICK f : f = CHOOSE g : HashLoop(leaf, path, n, g)
  OBVIOUS
<1>3. HashLoop(leaf, path, n, f)
  BY <1>2, HashesExist
<1>4. Hashes(leaf, path) = f
  BY <1>1, <1>2 DEF Hashes, HashLoop
<1>5. 0 \in 0 .. n /\ \A i \in 1 .. n : i \in 0 .. n /\ i # 0
  OBVIOUS
<1>6. f[0] = Sha256(leaf)
  BY <1>3, <1>5 DEF HashLoop
<1>7. \A i \in 1 .. n : f[i] = Sha256(path[i].prefix \o << f[i - 1] >> \o path[i].suffix)
  BY <1>3, <1>5 DEF HashLoop
<1> QED BY <1>1, <1>4, <1>6, <1>7

\* The places at a depth are the children of those above.
LEMMA LevelsEquation ==
    ASSUME NEW t, Height(t) \in Nat
    PROVE  /\ Levels(t)[0] = {<< t, << >> >>}
           /\ \A d \in 1 .. Height(t) :
                 Levels(t)[d] = UNION {Children(x) : x \in Levels(t)[d - 1]}
PROOF
<1>1. PICK n \in Nat : n = Height(t)
  OBVIOUS
<1>2. PICK f : f = CHOOSE g : LevelLoop(t, n, g)
  OBVIOUS
<1>3. LevelLoop(t, n, f)
  BY <1>2, LevelsExist
<1>4. Levels(t) = f
  BY <1>1, <1>2 DEF Levels, LevelLoop
<1>5. 0 \in 0 .. n /\ \A i \in 1 .. n : i \in 0 .. n /\ i # 0
  OBVIOUS
<1>6. f[0] = {<< t, << >> >>}
  BY <1>3, <1>5 DEF LevelLoop
<1>7. \A i \in 1 .. n : f[i] = UNION {Children(x) : x \in f[i - 1]}
  BY <1>3, <1>5 DEF LevelLoop
<1> QED BY <1>1, <1>4, <1>6, <1>7

-----------------------------------------------------------------------------
(* Trees *)

LEMMA MaxOfTwo ==
    ASSUME NEW a \in Nat, NEW b \in Nat
    PROVE  Max({a, b}) \in {a, b} /\ Max({a, b}) >= a /\ Max({a, b}) >= b
PROOF
<1>1. \E x \in {a, b} : \A y \in {a, b} : x >= y
  <2>1. CASE a >= b
    BY <2>1
  <2>2. CASE ~(a >= b)
    BY <2>2
  <2> QED BY <2>1, <2>2
<1>2. Max({a, b}) \in {a, b} /\ \A y \in {a, b} : Max({a, b}) >= y
  BY <1>1 DEF Max
<1> QED BY <1>2

LEMMA FiveTokens ==
    ASSUME NEW m, NEW a, NEW b, NEW c, NEW d
    PROVE  << m >> \o << a, b, c, d >> = << m, a, b, c, d >>
PROOF
<1> DEFINE T == {m, a, b, c, d}
           u == << m >>
           v == << a, b, c, d >>
           w == << m, a, b, c, d >>
<1>1. u \in Seq(T) /\ v \in Seq(T) /\ w \in Seq(T)
  OBVIOUS
<1>2. Len(u) = 1 /\ Len(v) = 4 /\ Len(w) = 5
  OBVIOUS
<1>3. u[1] = m /\ v[1] = a /\ v[2] = b /\ v[3] = c /\ v[4] = d
  OBVIOUS
<1>4. w[1] = m /\ w[2] = a /\ w[3] = b /\ w[4] = c /\ w[5] = d
  OBVIOUS
<1> HIDE DEF T, u, v, w
<1>5. /\ u \o v \in Seq(T) /\ Len(u \o v) = Len(u) + Len(v)
      /\ \A i \in 1 .. Len(u) + Len(v) :
            (u \o v)[i] = IF i <= Len(u) THEN u[i] ELSE v[i - Len(u)]
  BY <1>1, ConcatProperties
<1>6. \A i \in 1 .. 5 : (u \o v)[i] = w[i]
  BY <1>2, <1>3, <1>4, <1>5
<1>7. u \o v = w
  <2>1. PICK t : t = u \o v
    OBVIOUS
  <2>2. t \in Seq(T) /\ Len(t) = Len(w) /\ \A i \in 1 .. Len(t) : t[i] = w[i]
    BY <1>2, <1>5, <1>6, <2>1
  <2> QED BY <1>1, <2>1, <2>2, SeqEqual
<1> QED BY <1>7 DEF u, v, w

\* The five tokens of a leaf.
LEMMA LeafTokens ==
    ASSUME NEW s, WellFormed(s), IsLeaf(s)
    PROVE  /\ s = << "hash", s[2] >>
           /\ s[2] = << Metadata(s), LengthByte(1), KeyOf(s), LengthByte(32),
                        Sha256(ValueOf(s)) >>
           /\ Metadata(s) = << "meta", 0, Metadata(s)[3] >>
           /\ KeyOf(s) = << "key", KeyOf(s)[2] >> /\ KeyOf(s)[2] \in Nat
PROOF
<1>1. PICK k, v, n : k = KeyOf(s)[2] /\ v = ValueOf(s)[1][2] /\ n = Metadata(s)[3]
  OBVIOUS
<1>2. s = Leaf(k, v, n) /\ k \in Nat
  BY <1>1 DEF WellFormed
<1>3. TokenLength(Key(k)) = 1
  BY DEF TokenLength, Key
<1>4. PICK m, key, value : m = Meta(0, n) /\ key = Key(k) /\ value = << Value(v) >>
  OBVIOUS
<1>5. s = Sha256(<< m >> \o << LengthByte(1), key, LengthByte(32), Sha256(value) >>)
  BY <1>2, <1>3, <1>4 DEF Leaf, LeafData
<1>6. << m >> \o << LengthByte(1), key, LengthByte(32), Sha256(value) >> =
         << m, LengthByte(1), key, LengthByte(32), Sha256(value) >>
  BY FiveTokens
<1>7. s = << "hash", << m, LengthByte(1), key, LengthByte(32), Sha256(value) >> >>
  BY <1>5, <1>6 DEF Sha256
<1>8. Metadata(s) = m /\ KeyOf(s) = key /\ ValueOf(s) = value
  BY <1>7 DEF Metadata, KeyOf, ValueOf, Sha256
<1> QED BY <1>2, <1>4, <1>7, <1>8 DEF Meta, Key

\* The five tokens of a node.
LEMMA NodeTokens ==
    ASSUME NEW s, WellFormed(s), ~IsLeaf(s)
    PROVE  /\ s = << "hash", s[2] >>
           /\ s[2] = << Metadata(s), LengthByte(32), LeftChild(s), LengthByte(32),
                        RightChild(s) >>
           /\ Metadata(s) = << "meta", Height(s), Metadata(s)[3] >>
           /\ Height(s) = 1 + Max({Height(LeftChild(s)), Height(RightChild(s))})
PROOF
<1>1. PICK l, r, n : l = LeftChild(s) /\ r = RightChild(s) /\ n = Metadata(s)[3]
  OBVIOUS
<1>2. s = Node(l, r, n)
  BY <1>1 DEF WellFormed
<1>3. PICK h : h = 1 + Max({Height(l), Height(r)})
  OBVIOUS
<1>4. PICK m : m = << "meta", h, n >>
  OBVIOUS
<1>5. s = << "hash", << m, LengthByte(32), l, LengthByte(32), r >> >>
  BY <1>2, <1>3, <1>4 DEF Node, Meta, Sha256
<1>6. Metadata(s) = m /\ Height(s) = h
  BY <1>4, <1>5 DEF Metadata, Height
<1> QED BY <1>1, <1>3, <1>4, <1>5, <1>6

LEMMA ChildrenLower ==
    ASSUME NEW s, WellFormed(s), ~IsLeaf(s),
           Height(LeftChild(s)) \in Nat, Height(RightChild(s)) \in Nat
    PROVE  /\ Height(LeftChild(s)) < Height(s)
           /\ Height(RightChild(s)) < Height(s)
PROOF
<1>1. PICK a \in Nat, b \in Nat : a = Height(LeftChild(s)) /\ b = Height(RightChild(s))
  OBVIOUS
<1>2. Height(s) = 1 + Max({a, b})
  BY <1>1, NodeTokens
<1>3. PICK m \in Nat : m = Max({a, b}) /\ m >= a /\ m >= b
  BY MaxOfTwo
<1> QED BY <1>1, <1>2, <1>3

\* The children of a subtree, and the subtrees at a depth, without their paths.
Kids(s) == IF IsLeaf(s) THEN {} ELSE {LeftChild(s), RightChild(s)}
At(t, d) == {x[1] : x \in Levels(t)[d]}
Subtrees(t) == UNION {At(t, d) : d \in 0 .. Height(t)}

LEMMA AtEquation ==
    ASSUME NEW t, Height(t) \in Nat
    PROVE  /\ At(t, 0) = {t}
           /\ \A d \in 1 .. Height(t) : \A y :
                 y \in At(t, d) <=> \E s \in At(t, d - 1) : y \in Kids(s)
PROOF
<1>1. At(t, 0) = {t}
  <2>1. \A x : x \in Levels(t)[0] <=> x = << t, << >> >>
    BY LevelsEquation
  <2>2. << t, << >> >>[1] = t
    OBVIOUS
  <2> QED BY <2>1, <2>2 DEF At
<1>2. ASSUME NEW d \in 1 .. Height(t), NEW y, y \in At(t, d)
      PROVE  \E s \in At(t, d - 1) : y \in Kids(s)
  <2>1. PICK z \in Levels(t)[d] : y = z[1]
    BY <1>2 DEF At
  <2>2. PICK x \in Levels(t)[d - 1] : z \in Children(x)
    BY <2>1, LevelsEquation
  <2>3. x[1] \in At(t, d - 1)
    BY <2>2 DEF At
  <2>4. z[1] \in Kids(x[1])
    BY <2>2 DEF Children, Kids
  <2> QED BY <2>1, <2>3, <2>4
<1>3. ASSUME NEW d \in 1 .. Height(t), NEW y, NEW s \in At(t, d - 1), y \in Kids(s)
      PROVE  y \in At(t, d)
  <2>1. PICK x \in Levels(t)[d - 1] : s = x[1]
    BY <1>3 DEF At
  <2>2. PICK z \in Children(x) : y = z[1]
    BY <1>3, <2>1 DEF Children, Kids
  <2>3. z \in Levels(t)[d]
    BY <2>1, <2>2, LevelsEquation
  <2> QED BY <2>2, <2>3 DEF At
<1> QED BY <1>1, <1>2, <1>3

LEMMA SubtreesOfPlaces ==
    ASSUME NEW t
    PROVE  \A s : s \in Subtrees(t) <=> \E x \in Places(t) : s = x[1]
  BY DEF Subtrees, Places, At

\* All trees of the store, and their subtrees.
Forest == UNION {Subtrees(t) : t \in Trees}

LEMMA ForestWellFormed ==
    ASSUME NEW s \in Forest
    PROVE  WellFormed(s) /\ Height(s) \in Nat
PROOF
<1>1. PICK t \in Trees : s \in Subtrees(t)
  BY DEF Forest
<1>2. PICK x \in Places(t) : s = x[1]
  BY <1>1, SubtreesOfPlaces
<1> QED BY <1>2, StateProofAssumption DEF IsSearchTree, WellFormed

\* A tree whose subtrees are well formed is as high as its metadata says, so that
\* its levels reach down to every leaf.
LEMMA HeightBounds ==
    ASSUME NEW t, Height(t) \in Nat, \A s \in Subtrees(t) : WellFormed(s),
           NEW d \in 0 .. Height(t), NEW s \in At(t, d)
    PROVE  Height(s) \in Nat /\ Height(s) + d <= Height(t)
PROOF
<1>1. \A e \in 0 .. Height(t) : \A u \in At(t, e) :
         u \in Subtrees(t) /\ WellFormed(u) /\ Height(u) \in Nat
  BY DEF Subtrees, WellFormed
<1> DEFINE K == {e \in 0 .. Height(t) : \A u \in At(t, e) : Height(u) + e <= Height(t)}
<1>2. 0 \in K
  BY AtEquation
<1>3. ASSUME NEW e \in 0 .. Height(t) - 1, e \in K PROVE e + 1 \in K
  <2>1. e + 1 \in 1 .. Height(t) /\ e + 1 \in 0 .. Height(t) /\ (e + 1) - 1 = e
        /\ e \in 0 .. Height(t)
    OBVIOUS
  <2>2. ASSUME NEW u \in At(t, e + 1) PROVE Height(u) + (e + 1) <= Height(t)
    <3>1. PICK p \in At(t, e) : u \in Kids(p)
      BY <2>1, AtEquation
    <3>2. ~IsLeaf(p) /\ u \in {LeftChild(p), RightChild(p)}
      BY <3>1 DEF Kids
    <3>3. LeftChild(p) \in At(t, e + 1) /\ RightChild(p) \in At(t, e + 1)
      BY <2>1, <3>2, AtEquation DEF Kids
    <3>4. Height(LeftChild(p)) \in Nat /\ Height(RightChild(p)) \in Nat
      BY <1>1, <2>1, <3>3
    <3>5. WellFormed(p) /\ Height(p) \in Nat
      BY <1>1, <2>1
    <3>6. Height(u) < Height(p) /\ Height(u) \in Nat
      BY <3>2, <3>4, <3>5, ChildrenLower
    <3>7. Height(p) + e <= Height(t)
      BY <1>3
    <3> QED BY <3>5, <3>6, <3>7
  <2> QED BY <2>1, <2>2
<1>4. 0 .. Height(t) \subseteq K
  <2> HIDE DEF K
  <2> QED BY <1>2, <1>3, InductionUpTo
<1> QED BY <1>1, <1>4

\* The children of a subtree are subtrees.
LEMMA KidsClosed ==
    ASSUME NEW t, Height(t) \in Nat, \A s \in Subtrees(t) : WellFormed(s),
           NEW s \in Subtrees(t), NEW c \in Kids(s)
    PROVE  c \in Subtrees(t)
PROOF
<1>1. PICK d \in 0 .. Height(t) : s \in At(t, d)
  BY DEF Subtrees
<1>2. Height(s) \in Nat /\ Height(s) + d <= Height(t)
  BY <1>1, HeightBounds
<1>3. Height(s) # 0
  BY DEF Kids, IsLeaf
<1>4. d + 1 \in 1 .. Height(t) /\ d + 1 \in 0 .. Height(t) /\ (d + 1) - 1 = d
  BY <1>2, <1>3
<1>5. c \in At(t, d + 1)
  BY <1>1, <1>4, AtEquation
<1> QED BY <1>4, <1>5 DEF Subtrees

LEMMA ForestClosed ==
    ASSUME NEW s \in Forest, NEW c \in Kids(s)
    PROVE  c \in Forest
PROOF
<1>1. PICK t \in Trees : s \in Subtrees(t)
  BY DEF Forest
<1>2. Height(t) \in Nat /\ \A u \in Subtrees(t) : WellFormed(u)
  BY StateProofAssumption, SubtreesOfPlaces DEF IsSearchTree
<1>3. c \in Subtrees(t)
  BY <1>1, <1>2, KidsClosed
<1> QED BY <1>3 DEF Forest

LEMMA TreesInForest == Trees \subseteq Forest
PROOF
<1> SUFFICES ASSUME NEW t \in Trees PROVE t \in Forest
  OBVIOUS
<1>1. Height(t) \in Nat
  BY StateProofAssumption DEF IsSearchTree
<1>2. t \in At(t, 0) /\ 0 \in 0 .. Height(t)
  BY <1>1, AtEquation
<1>3. t \in Subtrees(t)
  BY <1>2 DEF Subtrees
<1> QED BY <1>3 DEF Forest

\* So the subtrees of a subtree are subtrees.
LEMMA SubtreesWithin ==
    ASSUME NEW s \in Forest, NEW S, s \in S, \A u \in S : Kids(u) \subseteq S
    PROVE  Subtrees(s) \subseteq S
PROOF
<1>1. Height(s) \in Nat
  BY ForestWellFormed
<1> DEFINE K == {d \in 0 .. Height(s) : At(s, d) \subseteq S}
<1>2. 0 \in K
  BY <1>1, AtEquation
<1>3. ASSUME NEW d \in 0 .. Height(s) - 1, d \in K PROVE d + 1 \in K
  <2>1. d + 1 \in 1 .. Height(s) /\ d + 1 \in 0 .. Height(s) /\ (d + 1) - 1 = d
    BY <1>1
  <2>2. ASSUME NEW c \in At(s, d + 1) PROVE c \in S
    <3>1. PICK u \in At(s, d) : c \in Kids(u)
      BY <1>1, <2>1, AtEquation
    <3> QED BY <1>3, <3>1
  <2> QED BY <2>1, <2>2
<1>4. 0 .. Height(s) \subseteq K
  <2> HIDE DEF K
  <2> QED BY <1>1, <1>2, <1>3, InductionUpTo
<1> QED BY <1>4 DEF Subtrees

LEMMA SubtreesFacts ==
    ASSUME NEW s \in Forest
    PROVE  /\ s \in Subtrees(s) /\ Subtrees(s) \subseteq Forest
           /\ \A u \in Subtrees(s) : Kids(u) \subseteq Subtrees(s)
PROOF
<1>1. Height(s) \in Nat
  BY ForestWellFormed
<1>2. s \in At(s, 0) /\ 0 \in 0 .. Height(s)
  BY <1>1, AtEquation
<1>3. s \in Subtrees(s)
  BY <1>2 DEF Subtrees
<1>4. Subtrees(s) \subseteq Forest
  BY ForestClosed, SubtreesWithin
<1>5. \A u \in Subtrees(s) : WellFormed(u)
  BY <1>4, ForestWellFormed
<1> QED BY <1>1, <1>3, <1>4, <1>5, KidsClosed

\* The subtrees of a node are itself and those of its children.
LEMMA SubtreesOfNode ==
    ASSUME NEW s \in Forest, ~IsLeaf(s), NEW l, l = LeftChild(s), NEW r, r = RightChild(s)
    PROVE  Subtrees(s) = {s} \cup Subtrees(l) \cup Subtrees(r)
PROOF
<1>1. Kids(s) = {l, r}
  BY DEF Kids
<1>2. l \in Forest /\ r \in Forest
  BY <1>1, ForestClosed
<1>3. l \in Subtrees(s) /\ r \in Subtrees(s) /\ s \in Subtrees(s)
  BY <1>1, SubtreesFacts
<1>4. Subtrees(l) \subseteq Subtrees(s) /\ Subtrees(r) \subseteq Subtrees(s)
  BY <1>2, <1>3, SubtreesFacts, SubtreesWithin
<1> DEFINE S == {s} \cup Subtrees(l) \cup Subtrees(r)
<1>5. s \in S /\ \A u \in S : Kids(u) \subseteq S
  BY <1>1, <1>2, SubtreesFacts
<1> HIDE DEF S
<1>6. Subtrees(s) \subseteq S
  BY <1>5, SubtreesWithin
<1> QED BY <1>3, <1>4, <1>6 DEF S

LEMMA EntriesOfSubtrees ==
    ASSUME NEW t, NEW e
    PROVE  e \in Entries(t) <=>
              \E s \in Subtrees(t) : IsLeaf(s) /\ e = << KeyOf(s), ValueOf(s) >>
PROOF
<1>1. ASSUME e \in Entries(t)
      PROVE  \E s \in Subtrees(t) : IsLeaf(s) /\ e = << KeyOf(s), ValueOf(s) >>
  <2>1. PICK x \in Places(t) : IsLeaf(x[1]) /\ e = << KeyOf(x[1]), ValueOf(x[1]) >>
    BY <1>1 DEF Entries, Leaves
  <2> QED BY <2>1, SubtreesOfPlaces
<1>2. ASSUME NEW s \in Subtrees(t), IsLeaf(s), e = << KeyOf(s), ValueOf(s) >>
      PROVE  e \in Entries(t)
  <2>1. PICK x \in Places(t) : s = x[1]
    BY SubtreesOfPlaces
  <2> QED BY <1>2, <2>1 DEF Entries, Leaves
<1> QED BY <1>1, <1>2

\* The entries of a node are those of its children.
LEMMA EntriesOfNode ==
    ASSUME NEW s \in Forest, ~IsLeaf(s)
    PROVE  Entries(s) = Entries(LeftChild(s)) \cup Entries(RightChild(s))
PROOF
<1>1. PICK l, r : l = LeftChild(s) /\ r = RightChild(s)
  OBVIOUS
<1>2. Subtrees(s) = {s} \cup Subtrees(l) \cup Subtrees(r)
  BY <1>1, SubtreesOfNode
<1>3. \A e : e \in Entries(s) <=> e \in Entries(l) \/ e \in Entries(r)
  BY <1>2, EntriesOfSubtrees
<1> QED BY <1>1, <1>3

LEMMA EntriesOfLeaf ==
    ASSUME NEW s \in Forest, IsLeaf(s)
    PROVE  Entries(s) = {<< KeyOf(s), ValueOf(s) >>}
PROOF
<1>1. Kids(s) = {} /\ s \in Subtrees(s)
  BY SubtreesFacts DEF Kids
<1>2. PICK S : S = {s}
  OBVIOUS
<1>3. Subtrees(s) \subseteq S
  BY <1>1, <1>2, SubtreesWithin
<1>4. \A e : e \in Entries(s) <=> e = << KeyOf(s), ValueOf(s) >>
  BY <1>1, <1>2, <1>3, EntriesOfSubtrees
<1> QED BY <1>4

\* The keys of entries are numbers, and the left child has the smaller ones.
LEMMA EntryKeys ==
    ASSUME NEW s \in Forest
    PROVE  /\ \A e \in Entries(s) : e[1] = Key(e[1][2]) /\ e[1][2] \in Nat
           /\ ~IsLeaf(s) => \A a \in Entries(LeftChild(s)), b \in Entries(RightChild(s)) :
                               a[1][2] < b[1][2]
PROOF
<1>1. ASSUME NEW e \in Entries(s) PROVE e[1] = Key(e[1][2]) /\ e[1][2] \in Nat
  <2>1. PICK u \in Subtrees(s) : IsLeaf(u) /\ e = << KeyOf(u), ValueOf(u) >>
    BY EntriesOfSubtrees
  <2>2. WellFormed(u)
    BY <2>1, SubtreesFacts, ForestWellFormed
  <2>3. KeyOf(u) = << "key", KeyOf(u)[2] >> /\ KeyOf(u)[2] \in Nat
    BY <2>1, <2>2, LeafTokens
  <2> QED BY <2>1, <2>3 DEF Key
<1>2. WellFormed(s)
  BY ForestWellFormed
<1> QED BY <1>1, <1>2 DEF WellFormed

-----------------------------------------------------------------------------
(* What a verified path says *)

\* Any sequence of tokens.
IsBytes(s) == \E T : s \in Seq(T)

LEMMA BytesLength ==
    ASSUME NEW s, IsBytes(s)
    PROVE  Len(s) \in Nat /\ (s = << >> <=> Len(s) = 0)
PROOF
<1>1. PICK T : s \in Seq(T)
  BY DEF IsBytes
<1> QED BY <1>1, LenProperties, EmptySeq

\* w is u followed by v.
Follows(w, u, v) ==
    /\ Len(w) = Len(u) + Len(v)
    /\ \A i \in 1 .. Len(u) : w[i] = u[i]
    /\ \A i \in 1 .. Len(v) : w[Len(u) + i] = v[i]

LEMMA ConcatBytes ==
    ASSUME NEW u, NEW v, NEW w, IsBytes(u), IsBytes(v), w = u \o v
    PROVE  IsBytes(w) /\ Follows(w, u, v)
PROOF
<1>1. PICK T, U : u \in Seq(T) /\ v \in Seq(U)
  BY DEF IsBytes
<1>2. PICK S : S = T \cup U
  OBVIOUS
<1>3. u \in Seq(S) /\ v \in Seq(S)
  <2>1. /\ \A i \in 1 .. Len(u) : u[i] \in S
        /\ \A i \in 1 .. Len(v) : v[i] \in S
    BY <1>1, <1>2, ElementOfSeq
  <2>2. PICK m \in Nat, n \in Nat : m = Len(u) /\ n = Len(v)
    BY <1>1, LenProperties
  <2>3. u \in [1 .. m -> S] /\ v \in [1 .. n -> S]
    BY <1>1, <2>1, <2>2, LenProperties
  <2>4. u \in Seq(S)
    BY <2>3, SeqDef
  <2>5. v \in Seq(S)
    BY <2>3, SeqDef
  <2> QED BY <2>4, <2>5
<1>4. /\ u \o v \in Seq(S) /\ Len(u \o v) = Len(u) + Len(v)
      /\ \A i \in 1 .. Len(u) + Len(v) :
            (u \o v)[i] = IF i <= Len(u) THEN u[i] ELSE v[i - Len(u)]
  BY <1>3, ConcatProperties
<1>5. Len(u) \in Nat /\ Len(v) \in Nat
  BY <1>1, LenProperties
<1>6. \A i \in 1 .. Len(u) : i \in 1 .. Len(u) + Len(v) /\ i <= Len(u)
  BY <1>5
<1>7. ASSUME NEW i \in 1 .. Len(v) PROVE w[Len(u) + i] = v[i]
  <2>1. PICK j \in 1 .. Len(u) + Len(v) : j = Len(u) + i /\ ~(j <= Len(u)) /\ j - Len(u) = i
    BY <1>5
  <2> QED BY <1>4, <2>1
<1>8. IsBytes(w)
  BY <1>4 DEF IsBytes
<1> QED BY <1>4, <1>6, <1>7, <1>8 DEF Follows

\* The five tokens w are n tokens p, h and the tokens q.
SetApart(w, p, h, q, n) ==
    /\ Len(p) = n /\ Len(q) = 4 - n /\ w[n + 1] = h
    /\ \A i \in 1 .. n : p[i] = w[i]
    /\ \A i \in 1 .. 4 - n : q[i] = w[n + 1 + i]

LEMMA FollowsTwice ==
    ASSUME NEW p, NEW o, NEW q, NEW t, NEW w, IsBytes(p), IsBytes(q),
           Len(o) = 1, Follows(t, p, o), Follows(w, t, q), Len(w) = 5
    PROVE  \E n \in 0 .. 4 : SetApart(w, p, o[1], q, n)
PROOF
<1>1. /\ Len(t) = Len(p) + Len(o)
      /\ \A i \in 1 .. Len(p) : t[i] = p[i]
      /\ \A i \in 1 .. Len(o) : t[Len(p) + i] = o[i]
  BY DEF Follows
<1>2. PICK n \in Nat, m \in Nat : n = Len(p) /\ m = Len(q)
  BY BytesLength
<1>3. /\ Len(w) = Len(t) + Len(q)
      /\ \A i \in 1 .. Len(t) : w[i] = t[i]
      /\ \A i \in 1 .. Len(q) : w[Len(t) + i] = q[i]
  BY DEF Follows
<1>4. Len(t) = n + 1 /\ m = 4 - n /\ n \in 0 .. 4 /\ 1 \in 1 .. Len(o)
  <2>1. Len(t) = n + 1
    BY <1>1, <1>2
  <2>2. n + 1 + m = 5
    BY <1>2, <1>3, <2>1
  <2> QED BY <2>1, <2>2
<1>5. t[n + 1] = o[1] /\ \A i \in 1 .. n : t[i] = p[i]
  BY <1>1, <1>2, <1>4
<1>6. n + 1 \in 1 .. n + 1 /\ \A i \in 1 .. n : i \in 1 .. n + 1
  OBVIOUS
<1>7. w[n + 1] = o[1] /\ \A i \in 1 .. n : w[i] = p[i]
  BY <1>3, <1>4, <1>5, <1>6
<1>8. \A i \in 1 .. 4 - n : q[i] = w[n + 1 + i]
  BY <1>2, <1>3, <1>4
<1> QED BY <1>2, <1>4, <1>7, <1>8 DEF SetApart

\* The bytes of a step, when they are those of a tree.
LEMMA StepTokens ==
    ASSUME NEW p, NEW q, IsBytes(p), IsBytes(q), NEW h, NEW w, w = p \o << h >> \o q,
           Len(w) = 5
    PROVE  \E n \in 0 .. 4 : SetApart(w, p, h, q, n)
PROOF
<1>1. PICK o : o = << h >>
  OBVIOUS
<1>2. IsBytes(o)
  <2>1. o \in Seq({h})
    BY <1>1
  <2> QED BY <2>1 DEF IsBytes
<1>3. PICK t : t = p \o o
  OBVIOUS
<1>4. w = t \o q
  BY <1>1, <1>3
<1>5. IsBytes(t) /\ Follows(t, p, o)
  BY <1>2, <1>3, ConcatBytes
<1>6. Follows(w, t, q)
  BY <1>4, <1>5, ConcatBytes
<1>7. Len(o) = 1 /\ o[1] = h
  BY <1>1
<1>8. \E n \in 0 .. 4 : SetApart(w, p, o[1], q, n)
  BY <1>5, <1>6, <1>7, FollowsTwice
<1> QED BY <1>7, <1>8

\* A step of a path leads from a child of the tree to its node.
IsStep(op, c, s) ==
    \/ op = LeftOp(s) /\ c = LeftChild(s)
    \/ op = RightOp(s) /\ c = RightChild(s)

IsOp(op) ==
    /\ op = [prefix |-> op.prefix, suffix |-> op.suffix]
    /\ IsBytes(op.prefix) /\ IsBytes(op.suffix)

\* Only the hash of a child, between the right bytes, hashes to a node: a tree and
\* what validateIAVLOps requires leave no other step to its root.
LEMMA StepDown ==
    ASSUME NEW s \in Forest, NEW op, IsOp(op), NEW h, h[1] = "hash",
           s = Sha256(op.prefix \o << h >> \o op.suffix),
           NEW i \in Nat \ {0}, validateIAVLOps(op.prefix, i)
    PROVE  ~IsLeaf(s) /\ IsStep(op, h, s)
PROOF
<1>1. PICK w : w = op.prefix \o << h >> \o op.suffix
  OBVIOUS
<1>2. s[2] = w
  BY <1>1 DEF Sha256
<1>3. WellFormed(s) /\ Height(s) \in Nat
  BY ForestWellFormed
<1>4. /\ Len(w) = 5 /\ w[1] = Metadata(s) /\ w[2][1] = "length" /\ w[4][1] = "length"
      /\ Metadata(s)[1] = "meta" /\ Metadata(s)[2] = Height(s)
  <2>1. CASE IsLeaf(s)
    <3>1. PICK m, k, v : m = Metadata(s) /\ k = KeyOf(s) /\ v = Sha256(ValueOf(s))
      OBVIOUS
    <3>2. w = << m, LengthByte(1), k, LengthByte(32), v >>
      BY <1>2, <1>3, <2>1, <3>1, LeafTokens
    <3>3. m[1] = "meta" /\ m[2] = Height(s)
      BY <1>3, <2>1, <3>1, LeafTokens DEF IsLeaf
    <3> QED BY <3>1, <3>2, <3>3 DEF LengthByte
  <2>2. CASE ~IsLeaf(s)
    <3>1. PICK m, l, r : m = Metadata(s) /\ l = LeftChild(s) /\ r = RightChild(s)
      OBVIOUS
    <3>2. w = << m, LengthByte(32), l, LengthByte(32), r >>
      BY <1>2, <1>3, <2>2, <3>1, NodeTokens
    <3>3. m = << "meta", Height(s), m[3] >>
      BY <1>3, <2>2, <3>1, NodeTokens
    <3> QED BY <3>1, <3>2, <3>3 DEF LengthByte
  <2> QED BY <2>1, <2>2
<1>5. PICK n \in 0 .. 4 : SetApart(w, op.prefix, h, op.suffix, n)
  <2>1. Len(w) = 5 /\ IsBytes(op.prefix) /\ IsBytes(op.suffix)
    BY <1>4 DEF IsOp
  <2> QED BY <1>1, <2>1, StepTokens
<1>6. n \in {2, 4}
  <2>1. n # 0 /\ n # 1 /\ n # 3
    BY <1>4, <1>5 DEF SetApart
  <2> QED BY <2>1
<1>7. ~IsLeaf(s)
  <2>1. 1 \in 1 .. n
    BY <1>6
  <2>2. op.prefix[1] = Metadata(s)
    BY <1>4, <1>5, <2>1 DEF SetApart
  <2>3. 2 * Height(s) >= i
    BY <1>4, <2>2 DEF validateIAVLOps, DecodedHeight
  <2> QED BY <1>3, <2>3 DEF IsLeaf
<1>8. PICK m, l, r : m = Metadata(s) /\ l = LeftChild(s) /\ r = RightChild(s)
  OBVIOUS
<1>9. w = << m, LengthByte(32), l, LengthByte(32), r >>
  BY <1>2, <1>3, <1>7, <1>8, NodeTokens
<1>10. IsBytes(op.prefix) /\ IsBytes(op.suffix)
  BY DEF IsOp
<1>11. op = [prefix |-> op.prefix, suffix |-> op.suffix]
  BY DEF IsOp
<1>12. CASE n = 2
  <2>1. op.prefix[1] = w[1] /\ op.prefix[2] = w[2] /\ Len(op.prefix) = 2
    BY <1>5, <1>12 DEF SetApart
  <2>2. op.suffix[1] = w[4] /\ op.suffix[2] = w[5] /\ Len(op.suffix) = 2 /\ w[3] = h
    BY <1>5, <1>12 DEF SetApart
  <2>3. op.prefix = << m, LengthByte(32) >>
    <3>1. PICK T : op.prefix \in Seq(T)
      BY <1>10 DEF IsBytes
    <3> QED BY <1>9, <2>1, <3>1
  <2>4. op.suffix = << LengthByte(32), r >>
    <3>1. PICK T : op.suffix \in Seq(T)
      BY <1>10 DEF IsBytes
    <3> QED BY <1>9, <2>2, <3>1
  <2>5. h = l
    BY <1>9, <2>2
  <2>6. op = LeftOp(s)
    BY <1>8, <1>11, <2>3, <2>4 DEF LeftOp
  <2> QED BY <1>7, <1>8, <2>5, <2>6 DEF IsStep
<1>13. CASE n = 4
  <2>1. /\ op.prefix[1] = w[1] /\ op.prefix[2] = w[2] /\ op.prefix[3] = w[3]
        /\ op.prefix[4] = w[4] /\ Len(op.prefix) = 4
    BY <1>5, <1>13 DEF SetApart
  <2>2. Len(op.suffix) = 0 /\ w[5] = h
    BY <1>5, <1>13 DEF SetApart
  <2>3. op.prefix = << m, LengthByte(32), l, LengthByte(32) >>
    <3>1. PICK T : op.prefix \in Seq(T)
      BY <1>10 DEF IsBytes
    <3> QED BY <1>9, <2>1, <3>1
  <2>4. op.suffix = << >>
    BY <1>10, <2>2, BytesLength
  <2>5. h = r
    BY <1>9, <2>2
  <2>6. op = RightOp(s)
    BY <1>8, <1>11, <2>3, <2>4 DEF RightOp
  <2> QED BY <1>7, <1>8, <2>5, <2>6 DEF IsStep
<1> QED BY <1>6, <1>12, <1>13

\* Five tokens make up every tree.
LEMMA TreeTokens ==
    ASSUME NEW s \in Forest
    PROVE  /\ s[1] = "hash" /\ Len(s[2]) = 5
           /\ Metadata(s)[2] = Height(s) /\ Metadata(s) = s[2][1]
PROOF
<1>1. WellFormed(s)
  BY ForestWellFormed
<1>2. CASE IsLeaf(s)
  <2>1. s[1] = "hash"
    BY <1>1, <1>2, LeafTokens
  <2>2. s[2] = << Metadata(s), LengthByte(1), KeyOf(s), LengthByte(32),
                     Sha256(ValueOf(s)) >>
    BY <1>1, <1>2, LeafTokens
  <2> QED BY <2>1, <2>2 DEF Metadata, Height
<1>3. CASE ~IsLeaf(s)
  <2>1. s[1] = "hash"
    <3>1. s = << "hash", s[2] >>
      BY <1>1, <1>3, NodeTokens
    <3> QED BY <3>1
  <2>2. s[2] = << Metadata(s), LengthByte(32), LeftChild(s), LengthByte(32),
                     RightChild(s) >>
    BY <1>1, <1>3, NodeTokens
  <2> QED BY <2>1, <2>2 DEF Metadata, Height
<1> QED BY <1>2, <1>3

\* Only a leaf is read as a leaf: its metadata says height 0, and a key and a value
\* that were read from a tree are those of that leaf.
LEMMA LeafDown ==
    ASSUME NEW s \in Forest, NEW prefix, IsBytes(prefix), NEW key, NEW value,
           s = Sha256(prefix \o LeafData(key, value)), LeafPrefix(prefix)
    PROVE  IsLeaf(s) /\ key = KeyOf(s) /\ value = ValueOf(s)
PROOF
<1>1. PICK a, v : a = LengthByte(TokenLength(key)) /\ v = Sha256(value)
  OBVIOUS
<1>2. PICK d : d = << a, key, LengthByte(32), v >>
  OBVIOUS
<1>3. d = LeafData(key, value)
  BY <1>1, <1>2 DEF LeafData
<1>4. Len(d) = 4 /\ d[2] = key /\ d[4] = v
  BY <1>2
<1>5. IsBytes(d)
  <2>1. d \in Seq({a, key, LengthByte(32), v})
    BY <1>2
  <2> QED BY <2>1 DEF IsBytes
<1>6. PICK w : w = prefix \o d
  OBVIOUS
<1>7. s[2] = w
  BY <1>3, <1>6 DEF Sha256
<1>8. Follows(w, prefix, d)
  BY <1>5, <1>6, ConcatBytes
<1>9. /\ Len(w) = Len(prefix) + Len(d)
      /\ \A i \in 1 .. Len(prefix) : w[i] = prefix[i]
      /\ \A i \in 1 .. Len(d) : w[Len(prefix) + i] = d[i]
  BY <1>8 DEF Follows
<1>10. Len(w) = 5 /\ Metadata(s) = w[1] /\ Metadata(s)[2] = Height(s)
  BY <1>7, TreeTokens
<1>11. PICK n \in Nat : n = Len(prefix)
  BY BytesLength
<1>12. n = 1
  <2>1. n + 4 = 5
    BY <1>4, <1>9, <1>10, <1>11
  <2> QED BY <2>1
<1>13. 1 \in 1 .. Len(prefix) /\ 2 \in 1 .. Len(d) /\ 4 \in 1 .. Len(d)
  BY <1>4, <1>11, <1>12
<1>14. w[1] = prefix[1]
  BY <1>9, <1>13
<1>15. w[1 + 2] = d[2] /\ w[1 + 4] = d[4]
  BY <1>9, <1>11, <1>12, <1>13
<1>16. IsLeaf(s)
  <2>1. PICK h \in Nat : h = Height(s)
    BY ForestWellFormed
  <2>2. 2 * h = 0
    BY <1>10, <1>14, <2>1 DEF LeafPrefix, DecodedHeight
  <2> QED BY <2>1, <2>2 DEF IsLeaf
<1>17. w[3] = key /\ w[5] = v
  BY <1>4, <1>15
<1>18. key = KeyOf(s)
  BY <1>7, <1>17 DEF KeyOf
<1>19. value = ValueOf(s)
  <2>1. v[2] = value
    BY <1>1 DEF Sha256
  <2> QED BY <1>7, <1>17, <2>1 DEF ValueOf
<1> QED BY <1>16, <1>18, <1>19

\* The hashes f lead along a path from a leaf up to the tree t.
Chain(f, path, t) ==
    /\ f[Len(path)] = t /\ IsLeaf(f[0])
    /\ \A i \in 0 .. Len(path) : f[i] \in Forest
    /\ \A i \in 1 .. Len(path) : ~IsLeaf(f[i]) /\ IsStep(path[i], f[i - 1], f[i])

IsPath(path) == IsBytes(path) /\ \A i \in 1 .. Len(path) : IsOp(path[i])

\* What verifyMembershipIAVLSpec computes is the root of a tree only if the key and
\* the value are those of a leaf, and the path leads from that leaf to the root.
LEMMA VerifiedPath ==
    ASSUME NEW prefix, IsBytes(prefix), NEW key, NEW value, NEW path, IsPath(path),
           NEW t \in Forest, verifyMembershipIAVLSpec(prefix, key, value, path) = t
    PROVE  \E f : Chain(f, path, t) /\ key = KeyOf(f[0]) /\ value = ValueOf(f[0])
PROOF
<1>1. t # Reverts
  BY TreeTokens DEF Reverts
<1>2. PICK leaf : leaf = prefix \o LeafData(key, value)
  OBVIOUS
<1>3. /\ LeafPrefix(prefix)
      /\ \A i \in 1 .. Len(path) : validateIAVLOps(path[i].prefix, i)
      /\ ApplyPath(leaf, path) = t
  BY <1>1, <1>2 DEF verifyMembershipIAVLSpec
<1>4. PICK n \in Nat : n = Len(path)
  BY BytesLength DEF IsPath
<1>5. PICK f : f = Hashes(leaf, path)
  OBVIOUS
<1>6. /\ f[0] = Sha256(leaf)
      /\ \A i \in 1 .. n : f[i] = Sha256(path[i].prefix \o << f[i - 1] >> \o path[i].suffix)
  BY <1>4, <1>5, HashesEquation
<1>7. f[n] = t
  BY <1>3, <1>4, <1>5 DEF ApplyPath
<1>8. \A i \in 0 .. n : f[i][1] = "hash"
  <2> SUFFICES ASSUME NEW i \in 0 .. n PROVE f[i][1] = "hash"
    OBVIOUS
  <2>1. CASE i = 0
    BY <1>6, <2>1 DEF Sha256
  <2>2. CASE i # 0
    <3>1. i \in 1 .. n
      BY <2>2
    <3>2. PICK w : f[i] = Sha256(w)
      BY <1>6, <3>1
    <3> QED BY <3>2 DEF Sha256
  <2> QED BY <2>1, <2>2
<1>9. ASSUME NEW i \in 1 .. n, f[i] \in Forest
      PROVE  ~IsLeaf(f[i]) /\ IsStep(path[i], f[i - 1], f[i]) /\ f[i - 1] \in Forest
  <2>1. PICK op, s, h : op = path[i] /\ s = f[i] /\ h = f[i - 1]
    OBVIOUS
  <2>2. i \in Nat \ {0} /\ i - 1 \in 0 .. n
    OBVIOUS
  <2>3. s = Sha256(op.prefix \o << h >> \o op.suffix)
    BY <1>6, <2>1
  <2>4. IsOp(op) /\ validateIAVLOps(op.prefix, i)
    BY <1>3, <1>4, <2>1 DEF IsPath
  <2>5. h[1] = "hash"
    BY <1>8, <2>1, <2>2
  <2>6. ~IsLeaf(s) /\ IsStep(op, h, s)
    BY <1>9, <2>1, <2>2, <2>3, <2>4, <2>5, StepDown
  <2>7. h \in Kids(s)
    BY <2>6 DEF IsStep, Kids
  <2> QED BY <1>9, <2>1, <2>6, <2>7, ForestClosed
<1>10. \A i \in 0 .. n : f[i] \in Forest
  <2> DEFINE K == {d \in 0 .. n : f[n - d] \in Forest}
  <2>1. 0 \in K
    BY <1>7
  <2>2. ASSUME NEW d \in 0 .. n - 1, d \in K PROVE d + 1 \in K
    <3>1. n - d \in 1 .. n /\ (n - d) - 1 = n - (d + 1) /\ d + 1 \in 0 .. n
      OBVIOUS
    <3>2. f[n - d] \in Forest
      BY <2>2
    <3> QED BY <1>9, <3>1, <3>2
  <2>3. 0 .. n \subseteq K
    <3> HIDE DEF K
    <3> QED BY <2>1, <2>2, InductionUpTo
  <2>4. \A i \in 0 .. n : n - i \in 0 .. n /\ n - (n - i) = i
    OBVIOUS
  <2> QED BY <2>3, <2>4
<1>11. IsLeaf(f[0]) /\ key = KeyOf(f[0]) /\ value = ValueOf(f[0])
  <2>1. PICK s \in Forest : s = f[0]
    BY <1>10
  <2> QED BY <1>2, <1>3, <1>6, <2>1, LeafDown
<1>12. Chain(f, path, t)
  BY <1>4, <1>7, <1>9, <1>10, <1>11 DEF Chain
<1> QED BY <1>11, <1>12

\* The entries of a tree on the chain are entries of those above it, that of the
\* leaf among them.
LEMMA ChainEntries ==
    ASSUME NEW f, NEW path, Len(path) \in Nat, NEW t, Chain(f, path, t),
           NEW i \in 0 .. Len(path)
    PROVE  /\ << KeyOf(f[0]), ValueOf(f[0]) >> \in Entries(f[i])
           /\ Entries(f[i]) \subseteq Entries(t)
PROOF
<1>1. PICK n \in Nat : n = Len(path)
  OBVIOUS
<1>2. f[n] = t /\ IsLeaf(f[0]) /\ (\A j \in 0 .. n : f[j] \in Forest)
  BY <1>1 DEF Chain
<1>3. ASSUME NEW j \in 1 .. n PROVE Entries(f[j - 1]) \subseteq Entries(f[j])
  <2>1. j \in 0 .. n
    OBVIOUS
  <2>2. ~IsLeaf(f[j]) /\ f[j - 1] \in {LeftChild(f[j]), RightChild(f[j])}
    BY <1>1 DEF Chain, IsStep
  <2>3. Entries(f[j]) = Entries(LeftChild(f[j])) \cup Entries(RightChild(f[j]))
    BY <1>2, <2>1, <2>2, EntriesOfNode
  <2> QED BY <2>2, <2>3
<1>4. PICK e : e = << KeyOf(f[0]), ValueOf(f[0]) >>
  OBVIOUS
<1>5. \A j \in 0 .. n : e \in Entries(f[j])
  <2> DEFINE K == {j \in 0 .. n : e \in Entries(f[j])}
  <2>1. 0 \in K
    <3>1. 0 \in 0 .. n
      OBVIOUS
    <3>2. Entries(f[0]) = {e}
      BY <1>2, <1>4, <3>1, EntriesOfLeaf
    <3> QED BY <3>1, <3>2
  <2>2. ASSUME NEW j \in 0 .. n - 1, j \in K PROVE j + 1 \in K
    <3>1. j + 1 \in 1 .. n /\ (j + 1) - 1 = j /\ j + 1 \in 0 .. n
      OBVIOUS
    <3> QED BY <1>3, <2>2, <3>1
  <2>3. 0 .. n \subseteq K
    <3> HIDE DEF K
    <3> QED BY <2>1, <2>2, InductionUpTo
  <2> QED BY <2>3
<1>6. \A j \in 0 .. n : Entries(f[j]) \subseteq Entries(t)
  <2> DEFINE K == {d \in 0 .. n : Entries(f[n - d]) \subseteq Entries(t)}
  <2>1. 0 \in K
    BY <1>2
  <2>2. ASSUME NEW d \in 0 .. n - 1, d \in K PROVE d + 1 \in K
    <3>1. n - d \in 1 .. n /\ (n - d) - 1 = n - (d + 1) /\ d + 1 \in 0 .. n
      OBVIOUS
    <3>2. Entries(f[n - (d + 1)]) \subseteq Entries(f[n - d])
      BY <1>3, <3>1
    <3> QED BY <2>2, <3>1, <3>2
  <2>3. 0 .. n \subseteq K
    <3> HIDE DEF K
    <3> QED BY <2>1, <2>2, InductionUpTo
  <2>4. \A j \in 0 .. n : n - j \in 0 .. n /\ n - (n - j) = j
    OBVIOUS
  <2> QED BY <2>3, <2>4
<1> QED BY <1>1, <1>4, <1>5, <1>6

-----------------------------------------------------------------------------
(* What neighbours say *)

LEMMA LengthOfTwo ==
    ASSUME NEW a, NEW b, NEW s, s = << a, b >>, TokenLength(a) \in Nat, TokenLength(b) \in Nat
    PROVE  Length(s) = TokenLength(a) + TokenLength(b)
PROOF
<1>1. Len(s) = 2 /\ s[1] = a /\ s[2] = b
  OBVIOUS
<1>2. PICK f : /\ f[0] = 0 /\ Length(s) = f[Len(s)]
               /\ \A i \in 1 .. Len(s) : f[i] = f[i - 1] + TokenLength(s[i])
  BY <1>1, LengthEquation
<1>3. 1 \in 1 .. Len(s) /\ 2 \in 1 .. Len(s) /\ 1 - 1 = 0 /\ 2 - 1 = 1
  BY <1>1
<1>4. f[1] = f[0] + TokenLength(a) /\ f[2] = f[1] + TokenLength(b)
  BY <1>1, <1>2, <1>3
<1> QED BY <1>1, <1>2, <1>4

LEMMA LengthOfNone == Length(<< >>) = 0
PROOF
<1>1. PICK s : s = << >>
  OBVIOUS
<1>2. Len(s) = 0
  BY <1>1
<1>3. PICK f : f[0] = 0 /\ Length(s) = f[Len(s)]
  BY <1>2, LengthEquation
<1> QED BY <1>1, <1>2, <1>3

\* The length of the suffix tells the left step to a node from the right one.
LEMMA PaddingTells ==
    ASSUME NEW s \in Forest, ~IsLeaf(s), NEW op, NEW c, IsStep(op, c, s)
    PROVE  /\ hasPadding(op, getPaddingIAVL(0)) => op = LeftOp(s) /\ c = LeftChild(s)
           /\ hasPadding(op, getPaddingIAVL(1)) => op = RightOp(s) /\ c = RightChild(s)
           /\ LeftOp(s) # RightOp(s)
PROOF
<1>1. RightChild(s) \in Forest
  BY ForestClosed DEF Kids
<1>2. TokenLength(RightChild(s)) = 32
  BY <1>1, TreeTokens DEF TokenLength
<1>3. TokenLength(LengthByte(32)) = 1
  BY DEF TokenLength, LengthByte
<1>4. PICK a, b : a = LengthByte(32) /\ b = RightChild(s)
  OBVIOUS
<1>5. LeftOp(s).suffix = << a, b >> /\ RightOp(s).suffix = << >>
  BY <1>4 DEF LeftOp, RightOp
<1>6. Length(LeftOp(s).suffix) = 33
  BY <1>2, <1>3, <1>4, <1>5, LengthOfTwo
<1>7. Length(RightOp(s).suffix) = 0
  BY <1>5, LengthOfNone
<1>8. getPaddingIAVL(0).suffix = 33 /\ getPaddingIAVL(1).suffix = 0
  BY DEF getPaddingIAVL
<1>9. LeftOp(s) # RightOp(s)
  BY <1>6, <1>7
<1>10. hasPadding(op, getPaddingIAVL(0)) => Length(op.suffix) = 33
  BY <1>8 DEF hasPadding
<1>11. hasPadding(op, getPaddingIAVL(1)) => Length(op.suffix) = 0
  BY <1>8 DEF hasPadding
<1> QED BY <1>6, <1>7, <1>9, <1>10, <1>11 DEF IsStep

\* The number of a leaf's key.
KeyNumber(s) == KeyOf(s)[2]

LEMMA LeafEntry ==
    ASSUME NEW s \in Forest, IsLeaf(s)
    PROVE  /\ KeyNumber(s) \in Nat
           /\ \A e \in Entries(s) : e[1][2] = KeyNumber(s)
           /\ << KeyOf(s), ValueOf(s) >>[1][2] = KeyNumber(s)
PROOF
<1>1. WellFormed(s)
  BY ForestWellFormed
<1>2. KeyOf(s)[2] \in Nat
  BY <1>1 DEF WellFormed
<1>3. \A e \in Entries(s) : e = << KeyOf(s), ValueOf(s) >>
  BY EntriesOfLeaf
<1> QED BY <1>2, <1>3 DEF KeyNumber

\* What a step up the chain adds to the entries: those of the other child, which
\* are all greater than those below, or all smaller.
LEMMA StepUp ==
    ASSUME NEW f, NEW path, Len(path) \in Nat, NEW t, Chain(f, path, t),
           NEW i \in 1 .. Len(path)
    PROVE  /\ path[i] = LeftOp(f[i]) =>
                \A e \in Entries(f[i]) : \/ e \in Entries(f[i - 1])
                   \/ \A d \in Entries(f[i - 1]) : d[1][2] < e[1][2]
           /\ path[i] = RightOp(f[i]) =>
                \A e \in Entries(f[i]) : \/ e \in Entries(f[i - 1])
                   \/ \A d \in Entries(f[i - 1]) : e[1][2] < d[1][2]
           /\ path[i] = LeftOp(f[i]) \/ path[i] = RightOp(f[i])
PROOF
<1>1. PICK s, c, op : s = f[i] /\ c = f[i - 1] /\ op = path[i]
  OBVIOUS
<1>2. i \in 0 .. Len(path)
  OBVIOUS
<1>3. s \in Forest /\ ~IsLeaf(s) /\ IsStep(op, c, s)
  BY <1>1, <1>2 DEF Chain
<1>4. /\ op = LeftOp(s) => c = LeftChild(s)
      /\ op = RightOp(s) => c = RightChild(s)
      /\ op = LeftOp(s) \/ op = RightOp(s)
  BY <1>3, PaddingTells DEF IsStep
<1>5. Entries(s) = Entries(LeftChild(s)) \cup Entries(RightChild(s))
  BY <1>3, EntriesOfNode
<1>6. \A a \in Entries(LeftChild(s)), b \in Entries(RightChild(s)) : a[1][2] < b[1][2]
  BY <1>3, EntryKeys
<1>7. op = LeftOp(s) => \A e \in Entries(s) : \/ e \in Entries(c)
                           \/ \A d \in Entries(c) : d[1][2] < e[1][2]
  BY <1>4, <1>5, <1>6
<1>8. op = RightOp(s) => \A e \in Entries(s) : \/ e \in Entries(c)
                           \/ \A d \in Entries(c) : e[1][2] < d[1][2]
  BY <1>4, <1>5, <1>6
<1> QED BY <1>1, <1>4, <1>7, <1>8

\* A leaf from which all steps are right ones has the greatest key.
LEMMA Rightmost ==
    ASSUME NEW f, NEW path, Len(path) \in Nat, NEW t, Chain(f, path, t),
           NEW m \in 0 .. Len(path), isRightMostIAVL(path, m)
    PROVE  \A e \in Entries(f[m]) : e[1][2] <= KeyNumber(f[0])
PROOF
<1>1. PICK l : l = << KeyOf(f[0]), ValueOf(f[0]) >>
  OBVIOUS
<1>2. 0 \in 0 .. Len(path) /\ f[0] \in Forest /\ IsLeaf(f[0])
  BY DEF Chain
<1>3. l[1][2] = KeyNumber(f[0]) /\ KeyNumber(f[0]) \in Nat
      /\ \A e \in Entries(f[0]) : e[1][2] = KeyNumber(f[0])
  BY <1>1, <1>2, LeafEntry
<1> DEFINE Below(i) == \A e \in Entries(f[i]) : e[1][2] <= KeyNumber(f[0])
           K == {i \in 0 .. m : Below(i)}
<1>4. Below(0)
  BY <1>3
<1>5. ASSUME NEW i \in 0 .. m - 1, Below(i) PROVE Below(i + 1)
  <2>1. PICK j \in 1 .. Len(path) : j = i + 1 /\ j - 1 = i /\ j \in 1 .. m /\ j \in 0 .. Len(path)
                                    /\ i \in 0 .. Len(path)
    OBVIOUS
  <2>2. f[j] \in Forest /\ ~IsLeaf(f[j]) /\ IsStep(path[j], f[j - 1], f[j])
    BY <2>1 DEF Chain
  <2>3. path[j] = RightOp(f[j])
    <3>1. hasPadding(path[j], getPaddingIAVL(1))
      BY <2>1 DEF isRightMostIAVL, allOnBranch
    <3> QED BY <2>2, <3>1, PaddingTells
  <2>4. \A e \in Entries(f[j]) : \/ e \in Entries(f[i])
                                 \/ \A d \in Entries(f[i]) : e[1][2] < d[1][2]
    BY <2>1, <2>3, StepUp
  <2>5. l \in Entries(f[i])
    BY <1>1, <2>1, ChainEntries
  <2>6. ASSUME NEW e \in Entries(f[j]) PROVE e[1][2] <= KeyNumber(f[0])
    <3>1. e[1][2] \in Nat
      BY <2>2, EntryKeys
    <3>2. CASE e \in Entries(f[i])
      BY <1>5, <3>2
    <3>3. CASE e[1][2] < l[1][2]
      BY <1>3, <3>1, <3>3
    <3> QED BY <2>4, <2>5, <3>2, <3>3
  <2> QED BY <2>1, <2>6
<1> HIDE DEF Below
<1>6. m \in Nat /\ 0 \in K /\ \A i \in 0 .. m - 1 : i \in K => i + 1 \in K
  BY <1>4, <1>5
<1> HIDE DEF K
<1>7. 0 .. m \subseteq K
  BY <1>6, InductionUpTo
<1>8. Below(m)
  BY <1>6, <1>7 DEF K
<1> QED BY <1>8 DEF Below

\* A leaf from which all steps are left ones has the smallest key.
LEMMA Leftmost ==
    ASSUME NEW f, NEW path, Len(path) \in Nat, NEW t, Chain(f, path, t),
           NEW m \in 0 .. Len(path), isLeftMostIAVL(path, m)
    PROVE  \A e \in Entries(f[m]) : KeyNumber(f[0]) <= e[1][2]
PROOF
<1>1. PICK l : l = << KeyOf(f[0]), ValueOf(f[0]) >>
  OBVIOUS
<1>2. 0 \in 0 .. Len(path) /\ f[0] \in Forest /\ IsLeaf(f[0])
  BY DEF Chain
<1>3. l[1][2] = KeyNumber(f[0]) /\ KeyNumber(f[0]) \in Nat
      /\ \A e \in Entries(f[0]) : e[1][2] = KeyNumber(f[0])
  BY <1>1, <1>2, LeafEntry
<1> DEFINE Above(i) == \A e \in Entries(f[i]) : KeyNumber(f[0]) <= e[1][2]
           K == {i \in 0 .. m : Above(i)}
<1>4. Above(0)
  BY <1>3
<1>5. ASSUME NEW i \in 0 .. m - 1, Above(i) PROVE Above(i + 1)
  <2>1. PICK j \in 1 .. Len(path) : j = i + 1 /\ j - 1 = i /\ j \in 1 .. m /\ j \in 0 .. Len(path)
                                    /\ i \in 0 .. Len(path)
    OBVIOUS
  <2>2. f[j] \in Forest /\ ~IsLeaf(f[j]) /\ IsStep(path[j], f[j - 1], f[j])
    BY <2>1 DEF Chain
  <2>3. path[j] = LeftOp(f[j])
    <3>1. hasPadding(path[j], getPaddingIAVL(0))
      BY <2>1 DEF isLeftMostIAVL, allOnBranch
    <3> QED BY <2>2, <3>1, PaddingTells
  <2>4. \A e \in Entries(f[j]) : \/ e \in Entries(f[i])
                                 \/ \A d \in Entries(f[i]) : d[1][2] < e[1][2]
    BY <2>1, <2>3, StepUp
  <2>5. l \in Entries(f[i])
    BY <1>1, <2>1, ChainEntries
  <2>6. ASSUME NEW e \in Entries(f[j]) PROVE KeyNumber(f[0]) <= e[1][2]
    <3>1. e[1][2] \in Nat
      BY <2>2, EntryKeys
    <3>2. CASE e \in Entries(f[i])
      BY <1>5, <3>2
    <3>3. CASE l[1][2] < e[1][2]
      BY <1>3, <3>1, <3>3
    <3> QED BY <2>4, <2>5, <3>2, <3>3
  <2> QED BY <2>1, <2>6
<1> HIDE DEF Above
<1>6. m \in Nat /\ 0 \in K /\ \A i \in 0 .. m - 1 : i \in K => i + 1 \in K
  BY <1>4, <1>5
<1> HIDE DEF K
<1>7. 0 .. m \subseteq K
  BY <1>6, InductionUpTo
<1>8. Above(m)
  BY <1>6, <1>7 DEF K
<1> QED BY <1>8 DEF Above

\* The paths of the proofs of a tree are made of steps.
LEMMA PathsOfPlaces ==
    ASSUME NEW t \in Trees, NEW x \in Places(t)
    PROVE  IsPath(x[2]) /\ x[1] \in Forest
PROOF
<1>1. \A s : IsOp(LeftOp(s)) /\ IsOp(RightOp(s))
  <2> SUFFICES ASSUME NEW s PROVE IsOp(LeftOp(s)) /\ IsOp(RightOp(s))
    OBVIOUS
  <2>1. PICK m, b, l, r : m = Metadata(s) /\ b = LengthByte(32) /\ l = LeftChild(s)
                          /\ r = RightChild(s)
    OBVIOUS
  <2>2. /\ << m, b >> \in Seq({m, b}) /\ << b, r >> \in Seq({b, r})
        /\ << m, b, l, b >> \in Seq({m, b, l}) /\ << >> \in Seq({})
    OBVIOUS
  <2>3. /\ IsBytes(<< m, b >>) /\ IsBytes(<< b, r >>)
        /\ IsBytes(<< m, b, l, b >>) /\ IsBytes(<< >>)
    BY <2>2 DEF IsBytes
  <2>4. /\ LeftOp(s) = [prefix |-> << m, b >>, suffix |-> << b, r >>]
        /\ RightOp(s) = [prefix |-> << m, b, l, b >>, suffix |-> << >>]
    BY <2>1 DEF LeftOp, RightOp
  <2> QED BY <2>3, <2>4 DEF IsOp
<1>2. ASSUME NEW op, IsOp(op), NEW p, IsPath(p) PROVE IsPath(<< op >> \o p)
  <2>1. PICK o, w : o = << op >> /\ w = o \o p
    OBVIOUS
  <2>2. o \in Seq({op}) /\ Len(o) = 1 /\ o[1] = op
    BY <2>1
  <2>3. IsBytes(o) /\ IsBytes(p)
    BY <1>2, <2>2 DEF IsBytes, IsPath
  <2>4. IsBytes(w) /\ Follows(w, o, p)
    BY <2>1, <2>3, ConcatBytes
  <2>5. PICK n \in Nat : n = Len(p)
    BY <2>3, BytesLength
  <2>6. /\ Len(w) = 1 + n /\ \A i \in 1 .. 1 : w[i] = o[i]
        /\ \A i \in 1 .. n : w[1 + i] = p[i]
    BY <2>2, <2>4, <2>5 DEF Follows
  <2>7. ASSUME NEW i \in 1 .. Len(w) PROVE IsOp(w[i])
    <3>1. CASE i = 1
      BY <1>2, <2>2, <2>6, <3>1
    <3>2. CASE i # 1
      <4>1. PICK j \in 1 .. n : 1 + j = i
        <5>1. i - 1 \in 1 .. n /\ 1 + (i - 1) = i
          BY <2>6, <3>2
        <5> QED BY <5>1
      <4>2. w[i] = p[j]
        BY <2>6, <4>1
      <4> QED BY <1>2, <2>5, <4>2 DEF IsPath
    <3> QED BY <3>1, <3>2
  <2>8. IsPath(w)
    BY <2>4, <2>7 DEF IsPath
  <2> QED BY <2>1, <2>8
<1>3. Height(t) \in Nat
  BY TreesInForest, ForestWellFormed
<1> DEFINE K == {d \in 0 .. Height(t) : \A y \in Levels(t)[d] : IsPath(y[2])}
<1>4. 0 \in K
  <2>1. IsPath(<< >>)
    <3>1. << >> \in Seq({}) /\ Len(<< >>) = 0
      OBVIOUS
    <3> QED BY <3>1 DEF IsPath, IsBytes
  <2>2. \A y \in Levels(t)[0] : y = << t, << >> >>
    BY <1>3, LevelsEquation
  <2> QED BY <1>3, <2>1, <2>2
<1>5. ASSUME NEW d \in 0 .. Height(t) - 1, d \in K PROVE d + 1 \in K
  <2>1. d + 1 \in 1 .. Height(t) /\ d + 1 \in 0 .. Height(t) /\ (d + 1) - 1 = d
    BY <1>3
  <2>2. ASSUME NEW z \in Levels(t)[d + 1] PROVE IsPath(z[2])
    <3>1. PICK y \in Levels(t)[d] : z \in Children(y)
      BY <1>3, <2>1, LevelsEquation
    <3>2. IsPath(y[2])
      BY <1>5, <3>1
    <3>3. z[2] = << LeftOp(y[1]) >> \o y[2] \/ z[2] = << RightOp(y[1]) >> \o y[2]
      BY <3>1 DEF Children
    <3> QED BY <1>1, <1>2, <3>2, <3>3
  <2> QED BY <2>1, <2>2
<1>6. 0 .. Height(t) \subseteq K
  <2> HIDE DEF K
  <2> QED BY <1>3, <1>4, <1>5, InductionUpTo
<1>7. PICK d \in 0 .. Height(t) : x \in Levels(t)[d]
  BY DEF Places
<1>8. x[1] \in Forest
  BY SubtreesOfPlaces DEF Forest
<1> QED BY <1>6, <1>7, <1>8

-----------------------------------------------------------------------------
(* The root of the store *)

LEMMA HashInjective ==
    ASSUME NEW u, NEW v, Sha256(u) = Sha256(v)
    PROVE  u = v
  BY DEF Sha256

LEMMA ThreeTokens ==
    ASSUME NEW a, NEW b, NEW c
    PROVE  << a >> \o << b >> \o << c >> = << a, b, c >>
PROOF
<1>1. PICK T, u, v, w, r : /\ T = {a, b, c} /\ u = << a >> /\ v = << b >> /\ w = << c >>
                           /\ r = << a, b, c >>
  OBVIOUS
<1>2. u \in Seq(T) /\ v \in Seq(T) /\ w \in Seq(T) /\ r \in Seq(T)
  BY <1>1
<1>3. /\ Len(u) = 1 /\ Len(v) = 1 /\ Len(w) = 1 /\ Len(r) = 3
      /\ u[1] = a /\ v[1] = b /\ w[1] = c /\ r[1] = a /\ r[2] = b /\ r[3] = c
  BY <1>1
<1>4. PICK t : t = u \o v
  OBVIOUS
<1>5. t \in Seq(T) /\ Len(t) = 2 /\ t[1] = a /\ t[2] = b
  <2>1. /\ t \in Seq(T) /\ Len(t) = Len(u) + Len(v)
        /\ \A i \in 1 .. Len(u) + Len(v) :
              t[i] = IF i <= Len(u) THEN u[i] ELSE v[i - Len(u)]
    BY <1>2, <1>4, ConcatProperties
  <2> QED BY <1>3, <2>1
<1>6. PICK x : x = t \o w
  OBVIOUS
<1>7. x \in Seq(T) /\ Len(x) = Len(r) /\ \A i \in 1 .. Len(x) : x[i] = r[i]
  <2>1. t \in Seq(T)
    BY <1>5
  <2>2. /\ x \in Seq(T) /\ Len(x) = Len(t) + Len(w)
        /\ \A i \in 1 .. Len(t) + Len(w) :
              x[i] = IF i <= Len(t) THEN t[i] ELSE w[i - Len(t)]
    BY <1>2, <1>6, <2>1, ConcatProperties
  <2>3. x[1] = a /\ x[2] = b /\ x[3] = c /\ Len(x) = 3
    BY <1>3, <1>5, <2>2
  <2>4. \A i \in 1 .. 3 : i = 1 \/ i = 2 \/ i = 3
    OBVIOUS
  <2>5. \A i \in 1 .. 3 : x[i] = r[i]
    BY <1>3, <2>3, <2>4
  <2> QED BY <1>3, <2>2, <2>3, <2>5
<1>8. x = r
  BY <1>2, <1>7, SeqEqual
<1> QED BY <1>1, <1>4, <1>6, <1>8

\* The proof of the store leads to an app hash only from the root of its tree.
LEMMA StoreRoot ==
    ASSUME NEW root, NEW t,
           verifyMembershipTendermintSpec(StoreProof.prefix, Key("ibc"), << root >>,
                                          StoreProof.path) = AppHash(t)
    PROVE  root = t
PROOF
<1>1. PICK op, path : /\ op = [prefix |-> << TagByte(1) >>, suffix |-> << OtherStore >>]
                      /\ path = << op >>
  OBVIOUS
<1>2. StoreProof.prefix = << TagByte(0) >> /\ StoreProof.path = path
  BY <1>1 DEF StoreProof
<1>3. PICK leaf : leaf = << TagByte(0) >> \o LeafData(Key("ibc"), << root >>)
  OBVIOUS
<1>4. AppHash(t) # Reverts
  BY DEF AppHash, Sha256, Reverts
<1>5. ApplyPath(leaf, path) = AppHash(t)
  BY <1>2, <1>3, <1>4 DEF verifyMembershipTendermintSpec
<1>6. Len(path) = 1 /\ path[1] = op
  BY <1>1
<1>7. PICK f : f = Hashes(leaf, path)
  OBVIOUS
<1>8. f[0] = Sha256(leaf) /\ f[1] = AppHash(t)
  BY <1>5, <1>6, <1>7, HashesEquation DEF ApplyPath
<1>9. f[1] = Sha256(op.prefix \o << f[0] >> \o op.suffix)
  <2>1. 1 \in 1 .. Len(path) /\ 1 - 1 = 0 /\ Len(path) \in Nat
    BY <1>6
  <2>2. f[1] = Sha256(path[1].prefix \o << f[1 - 1] >> \o path[1].suffix)
    BY <1>7, <2>1, HashesEquation
  <2> QED BY <1>6, <2>1, <2>2
<1>10. PICK a, o : a = TagByte(1) /\ o = OtherStore
  OBVIOUS
<1>11. f[1] = Sha256(<< a, f[0], o >>)
  <2>1. op.prefix = << a >> /\ op.suffix = << o >>
    BY <1>1, <1>10
  <2>2. << a >> \o << f[0] >> \o << o >> = << a, f[0], o >>
    BY ThreeTokens
  <2> QED BY <1>9, <2>1, <2>2
<1>12. PICK s : s = StoreLeaf("ibc", t)
  OBVIOUS
<1>13. f[1] = Sha256(<< a, s, o >>)
  BY <1>8, <1>10, <1>12 DEF AppHash
<1>14. f[0] = s
  BY <1>11, <1>13 DEF Sha256
<1>15. PICK z, n, k, b : z = TagByte(0) /\ n = LengthByte(TokenLength(Key("ibc")))
                         /\ k = Key("ibc") /\ b = LengthByte(32)
  OBVIOUS
<1>16. PICK x, y : x = Sha256(<< root >>) /\ y = Sha256(<< t >>)
  OBVIOUS
<1>17. f[0] = Sha256(<< z >> \o << n, k, b, x >>) /\ s = Sha256(<< z >> \o << n, k, b, y >>)
  BY <1>3, <1>8, <1>12, <1>15, <1>16 DEF StoreLeaf, LeafData
<1>18. PICK u, v : u = << z, n, k, b, x >> /\ v = << z, n, k, b, y >>
  OBVIOUS
<1>19. f[0] = Sha256(u) /\ s = Sha256(v)
  BY <1>17, <1>18, FiveTokens
<1>20. x = y
  <2>1. u = v
    BY <1>14, <1>19, HashInjective
  <2>2. u[5] = x /\ v[5] = y
    BY <1>18
  <2> QED BY <2>1, <2>2
<1> QED BY <1>16, <1>20 DEF Sha256

-----------------------------------------------------------------------------
(* The inductive invariant *)

TreesInv == trees \in Seq(Trees) /\ Len(trees) <= MaxBlocks

\* The contract has the app hash of an existing header or none.
StoredInv ==
    /\ stored = [h \in HeaderHeights |-> stored[h]]
    /\ \A h \in HeaderHeights :
          stored[h] # NoHash => HeaderExists(h) /\ stored[h] = HeaderAppHash(h)

\* The two proofs that ProveState returned were checked against the header asked
\* for, and are those of an entry of state t if they are of the state the node says.
Checked(p, e, root, t) ==
    /\ Verified(p.asked, e, StoreProofOf(root), p.key, p.value)
    /\ p.proof0 = buildExistenceProofIAVL(e)
    /\ p.proof1 = buildExistenceProofSimpleTree(StoreProofOf(root))
    /\ p.ofState => e \in ExistenceProofs(t)

ProofInv ==
    proof # NoProof =>
        /\ HeaderExists(proof.asked) /\ HeaderExists(proof.height)
        /\ \E e, root : root \in Trees /\ Checked(proof, e, root, trees[proof.height - 1])

IInv == TreesInv /\ StoredInv /\ ProofInv

LEMMA InitInv == Init => IInv
PROOF
<1> SUFFICES ASSUME Init PROVE IInv
  OBVIOUS
<1>1. TreesInv
  BY StateProofAssumption DEF Init, TreesInv
<1>2. StoredInv /\ ProofInv
  BY DEF Init, StoredInv, ProofInv, NoHash, NoProof
<1> QED BY <1>1, <1>2 DEF IInv

\* A header stays what it is when the chain grows.
LEMMA CommitKeeps ==
    ASSUME IInv, NEW t \in Trees, CommitBlock(t)
    PROVE  IInv'
PROOF
<1>1. trees' = Append(trees, t) /\ Len(trees) < MaxBlocks
      /\ stored' = stored /\ proof' = proof
  BY DEF CommitBlock
<1>2. PICK n \in Nat : n = Len(trees)
  BY LenProperties DEF IInv, TreesInv
<1>3. /\ trees' \in Seq(Trees) /\ Len(trees') = n + 1
      /\ \A i \in 1 .. n : trees'[i] = trees[i]
  BY <1>1, <1>2, AppendProperties DEF IInv, TreesInv
<1>4. TreesInv'
  BY <1>1, <1>2, <1>3, StateProofAssumption DEF TreesInv
<1>5. DOMAIN trees = 1 .. n /\ DOMAIN trees' = 1 .. n + 1
  BY <1>2, <1>3, LenProperties DEF IInv, TreesInv
<1>6. ASSUME NEW h, HeaderExists(h)
      PROVE  HeaderExists(h)' /\ HeaderAppHash(h)' = HeaderAppHash(h)
  <2>1. PICK i \in 1 .. n : i = h - 1
    BY <1>5, <1>6 DEF HeaderExists
  <2>2. i \in 1 .. n + 1 /\ trees'[i] = trees[i]
    BY <1>3
  <2> QED BY <1>5, <2>1, <2>2 DEF HeaderExists, HeaderAppHash
<1>7. StoredInv'
  BY <1>1, <1>6 DEF IInv, StoredInv
<1>8. ProofInv'
  <2> SUFFICES ASSUME proof # NoProof PROVE ProofInv'
    BY <1>1 DEF ProofInv
  <2>1. HeaderExists(proof.asked) /\ HeaderExists(proof.height)
    BY DEF IInv, ProofInv
  <2>2. /\ HeaderExists(proof.asked)' /\ HeaderExists(proof.height)'
        /\ HeaderAppHash(proof.asked)' = HeaderAppHash(proof.asked)
    BY <1>1, <1>6, <2>1
  <2>3. trees'[proof.height - 1] = trees[proof.height - 1]
    BY <1>3, <1>5, <2>1 DEF HeaderExists
  <2>4. PICK e, root : root \in Trees /\ Checked(proof, e, root, trees[proof.height - 1])
    BY DEF IInv, ProofInv
  <2>5. Verified(proof.asked, e, StoreProofOf(root), proof.key, proof.value)'
    BY <1>1, <2>2, <2>4 DEF Checked, Verified
  <2>6. Checked(proof, e, root, trees[proof.height - 1])'
    BY <1>1, <2>3, <2>4, <2>5 DEF Checked
  <2> QED BY <1>1, <2>2, <2>4, <2>6 DEF ProofInv
<1> QED BY <1>4, <1>7, <1>8 DEF IInv

LEMMA UpdateKeeps ==
    ASSUME IInv, NEW h \in HeaderHeights, UpdateClient(h)
    PROVE  IInv'
PROOF
<1>1. HeaderExists(h) /\ trees' = trees /\ proof' = proof
  BY DEF UpdateClient
<1>2. PICK m \in Offered : Accepted(Header(h), m) /\ stored' = [stored EXCEPT ![h] = m.appHash]
  BY DEF UpdateClient
<1>3. \A k \in HeaderHeights : k \in Nat
  BY StateProofAssumption DEF HeaderHeights
<1>4. m.time \in Nat
  BY <1>3 DEF Offered
<1>5. Header(h).time = h /\ Header(h).appHash = HeaderAppHash(h)
  BY DEF Header
<1>6. m.appHash = HeaderAppHash(h)
  <2>1. PICK g : g = Header(h)
    OBVIOUS
  <2>2. g.time \in Nat /\ merkleRoot(m.time, m.appHash, m.proof) = HeaderHash(g)
    BY <1>2, <1>3, <1>5, <2>1 DEF Accepted
  <2>3. m.appHash = g.appHash
    BY <1>4, <2>2, HashFixesOpening
  <2> QED BY <1>5, <2>1, <2>3
<1>7. \A k : HeaderExists(k)' = HeaderExists(k) /\ HeaderAppHash(k)' = HeaderAppHash(k)
  BY <1>1 DEF HeaderExists, HeaderAppHash
<1>8. TreesInv'
  BY <1>1 DEF IInv, TreesInv
<1>9. StoredInv'
  <2>1. stored'[h] = HeaderAppHash(h) /\ \A k \in HeaderHeights \ {h} : stored'[k] = stored[k]
    BY <1>2, <1>6 DEF IInv, StoredInv
  <2>2. stored' = [k \in HeaderHeights |-> stored'[k]]
    BY <1>2 DEF IInv, StoredInv
  <2> QED BY <1>1, <1>7, <2>1, <2>2 DEF IInv, StoredInv
<1>10. ProofInv'
  BY <1>1 DEF IInv, ProofInv, Checked, Verified, HeaderExists, HeaderAppHash
<1> QED BY <1>8, <1>9, <1>10 DEF IInv

LEMMA ProveKeeps ==
    ASSUME IInv, NEW h \in HeaderHeights, NEW k \in Keys, NEW v \in Values,
           NEW e \in Candidates, NEW j \in DOMAIN trees, ProveState(h, k, v, e, j)
    PROVE  IInv'
PROOF
<1>1. PICK i \in DOMAIN trees :
         /\ HeaderExists(h)
         /\ Verified(h, e, StoreProofOf(trees[i]), k, v)
         /\ proof' = [asked |-> h, height |-> j + 1, key |-> k, value |-> v,
                      ofState |-> e \in ExistenceProofs(trees[j]),
                      proof0 |-> buildExistenceProofIAVL(e),
                      proof1 |-> buildExistenceProofSimpleTree(StoreProofOf(trees[i]))]
         /\ trees' = trees /\ stored' = stored
  BY DEF ProveState
<1>2. TreesInv' /\ StoredInv'
  BY <1>1 DEF IInv, TreesInv, StoredInv, HeaderExists, HeaderAppHash
<1>3. trees[i] \in Trees /\ j \in Nat
  BY LenProperties, ElementOfSeq DEF IInv, TreesInv
<1>4. PICK p, root, t : p = proof' /\ root = trees[i] /\ t = trees[j]
  OBVIOUS
<1>5. PICK p0, p1 : /\ p0 = buildExistenceProofIAVL(e)
                    /\ p1 = buildExistenceProofSimpleTree(StoreProofOf(root))
  OBVIOUS
<1>6. /\ p.asked = h /\ p.height = j + 1 /\ p.key = k /\ p.value = v
      /\ p.proof0 = p0 /\ p.proof1 = p1 /\ (p.ofState => e \in ExistenceProofs(t))
  BY <1>1, <1>4, <1>5
<1>7. Verified(h, e, StoreProofOf(root), k, v)'
  BY <1>1, <1>4 DEF Verified, HeaderAppHash
<1>8. p.height - 1 = j
  BY <1>3, <1>6
<1>9. Checked(p, e, root, t)'
  BY <1>5, <1>6, <1>7 DEF Checked
<1>10. HeaderExists(p.asked)' /\ HeaderExists(p.height)'
  BY <1>1, <1>6, <1>8 DEF HeaderExists
<1>11. ProofInv'
  <2>1. proof' = p /\ trees'[p.height - 1] = t /\ root \in Trees
    BY <1>1, <1>3, <1>4, <1>8
  <2> QED BY <1>9, <1>10, <2>1 DEF ProofInv, Checked
<1> QED BY <1>2, <1>11 DEF IInv

LEMMA Invariance == Spec => []IInv
PROOF
<1>1. IInv /\ [Next]_vars => IInv'
  <2> SUFFICES ASSUME IInv, [Next]_vars PROVE IInv'
    OBVIOUS
  <2>1. CASE UNCHANGED vars
    BY <2>1 DEF vars, IInv, TreesInv, StoredInv, ProofInv, HeaderExists, HeaderAppHash,
                Checked, Verified
  <2>2. ASSUME NEW t \in Trees, CommitBlock(t) PROVE IInv'
    BY <2>2, CommitKeeps
  <2>3. ASSUME NEW h \in HeaderHeights, UpdateClient(h) PROVE IInv'
    BY <2>3, UpdateKeeps
  <2>4. ASSUME NEW h \in HeaderHeights, NEW k \in Keys, NEW v \in Values,
               NEW e \in Candidates, NEW j \in DOMAIN trees, ProveState(h, k, v, e, j)
        PROVE  IInv'
    BY <2>4, ProveKeeps
  <2> QED BY <2>1, <2>2, <2>3, <2>4 DEF Next
<1> QED BY InitInv, <1>1, PTL DEF Spec

\* The states are those of the chain, and the contract has the app hash of an
\* existing header or none: the opening of the header (merkleRoot in
\* TendermintHeader.sol) lets no other app hash through.
THEOREM AppHashesOfHeaders == Spec => []TypeOK
PROOF
<1>1. IInv => TypeOK
  <2> SUFFICES ASSUME IInv PROVE TypeOK
    OBVIOUS
  <2>1. PICK n \in Nat : n = Len(trees)
    BY LenProperties DEF IInv, TreesInv
  <2>2. trees \in [1 .. n -> Trees] /\ n \in 0 .. MaxBlocks
    BY <2>1, LenProperties, StateProofAssumption DEF IInv, TreesInv
  <2>3. trees \in UNION {[1 .. m -> Trees] : m \in 0 .. MaxBlocks}
    BY <2>2
  <2> QED BY <2>3 DEF IInv, StoredInv, TypeOK
<1> QED BY Invariance, <1>1, PTL

\* What the contract knows of a header: the tree before its block.
LEMMA KnownHeader ==
    ASSUME IInv, NEW h \in Known
    PROVE  trees[h - 1] \in Trees /\ stored[h] = AppHash(trees[h - 1])
PROOF
<1>1. h - 1 \in DOMAIN trees /\ stored[h] = AppHash(trees[h - 1])
  BY DEF Known, IInv, StoredInv, HeaderExists, HeaderAppHash
<1>2. trees \in Seq(Trees)
  BY DEF IInv, TreesInv
<1>3. DOMAIN trees = 1 .. Len(trees)
  BY <1>2, LenProperties
<1> QED BY <1>1, <1>2, <1>3, ElementOfSeq

\* The store's proof and a known header's app hash give the root of its tree.
LEMMA RootIsTree ==
    ASSUME IInv, NEW h \in Known, NEW root,
           verifyMembershipTendermintSpec(StoreProof.prefix, Key("ibc"), << root >>,
                                          StoreProof.path) = stored[h]
    PROVE  root = trees[h - 1] /\ root \in Forest
PROOF
<1>1. trees[h - 1] \in Trees /\ stored[h] = AppHash(trees[h - 1])
  BY KnownHeader
<1>2. PICK t \in Trees : t = trees[h - 1]
  BY <1>1
<1>3. root = t
  BY <1>1, <1>2, StoreRoot
<1> QED BY <1>2, <1>3, TreesInForest

\* verifyMembership accepts a key and a value under any sequence of tokens as the
\* proof only if they are an entry of the store before the header's block.
LEMMA AcceptedIsEntry ==
    ASSUME IInv, NEW h \in Known, NEW p0, IsBytes(p0.prefix), IsPath(p0.path),
           NEW p1, p1.prefix = StoreProof.prefix, p1.path = StoreProof.path,
           NEW key, NEW value, verifyMembership(h, p0, p1, key, value)
    PROVE  << key, value >> \in EntriesAt(h)
PROOF
<1>1. PICK root : root = verifyMembershipIAVLSpec(p0.prefix, key, value, p0.path)
  OBVIOUS
<1>2. verifyMembershipTendermintSpec(StoreProof.prefix, Key("ibc"), << root >>,
                                     StoreProof.path) = stored[h]
  BY <1>1 DEF verifyMembership
<1>3. root = trees[h - 1] /\ root \in Forest
  BY <1>2, RootIsTree
<1>4. PICK prefix, path : prefix = p0.prefix /\ path = p0.path
  OBVIOUS
<1>5. PICK f : Chain(f, path, root) /\ key = KeyOf(f[0]) /\ value = ValueOf(f[0])
  <2>1. IsBytes(prefix) /\ IsPath(path)
    BY <1>4
  <2>2. verifyMembershipIAVLSpec(prefix, key, value, path) = root /\ root \in Forest
    BY <1>1, <1>3, <1>4
  <2>3. PICK t \in Forest : t = root
    BY <2>2
  <2> QED BY <2>1, <2>2, <2>3, VerifiedPath
<1>6. Len(path) \in Nat
  BY <1>4, BytesLength DEF IsPath
<1>7. Len(path) \in 0 .. Len(path)
  BY <1>6
<1>8. << KeyOf(f[0]), ValueOf(f[0]) >> \in Entries(f[Len(path)])
  BY <1>5, <1>6, <1>7, ChainEntries
<1>9. f[Len(path)] = root
  BY <1>5 DEF Chain
<1> QED BY <1>3, <1>5, <1>8, <1>9 DEF EntriesAt

\* The bytes of a place are a proof as far as their types go.
LEMMA PlaceProof ==
    ASSUME IInv, NEW j \in DOMAIN trees, NEW x \in Places(trees[j]), NEW p, p = ProofAt(x)
    PROVE  IsBytes(p.prefix) /\ IsPath(p.path)
PROOF
<1>1. trees[j] \in Trees
  BY LenProperties, ElementOfSeq DEF IInv, TreesInv
<1>2. p.prefix = << Metadata(x[1]) >> /\ p.path = x[2]
  BY DEF ProofAt
<1>3. IsPath(x[2])
  BY <1>1, PathsOfPlaces
<1>4. IsBytes(p.prefix)
  <2>1. PICK m : m = Metadata(x[1])
    OBVIOUS
  <2>2. p.prefix \in Seq({m})
    BY <1>2, <2>1
  <2> QED BY <2>2 DEF IsBytes
<1> QED BY <1>2, <1>3, <1>4

\* Whatever proofs there are, of leaves or of inner nodes read as leaves, of any
\* state, verifyMembership accepts only what was in the store before the header's
\* block.
THEOREM OnlyEntriesAccepted == Spec => []MembershipSound
PROOF
<1>1. IInv => MembershipSound
  <2> SUFFICES ASSUME IInv, NEW h \in Known, NEW p \in Candidates, NEW c \in Candidates,
                      verifyMembership(h, buildExistenceProofIAVL(p),
                         buildExistenceProofSimpleTree(StoreProofOf(RootOf(p))),
                         c.key, c.value)
               PROVE  << c.key, c.value >> \in EntriesAt(h)
    BY DEF MembershipSound
  <2>1. PICK j \in DOMAIN trees : p \in ExistenceProofs(trees[j])
                                        \cup InnerNodesAsLeaves(trees[j])
    BY DEF Candidates
  <2>2. PICK x \in Places(trees[j]) : p = ProofAt(x)
    BY <2>1 DEF ExistenceProofs, InnerNodesAsLeaves, Leaves
  <2>3. IsBytes(p.prefix) /\ IsPath(p.path)
    BY <2>2, PlaceProof
  <2>4. PICK p0, p1 : /\ p0 = buildExistenceProofIAVL(p)
                      /\ p1 = buildExistenceProofSimpleTree(StoreProofOf(RootOf(p)))
    OBVIOUS
  <2>5. p0.prefix = p.prefix /\ p0.path = p.path
    BY <2>4 DEF buildExistenceProofIAVL, ExistenceProof
  <2>6. p1.prefix = StoreProof.prefix /\ p1.path = StoreProof.path
    BY <2>4 DEF buildExistenceProofSimpleTree, ExistenceProof, StoreProofOf
  <2>7. verifyMembership(h, p0, p1, c.key, c.value)
    BY <2>4
  <2>8. IsBytes(p0.prefix) /\ IsPath(p0.path)
    BY <2>3, <2>5
  <2> QED BY <2>6, <2>7, <2>8, AcceptedIsEntry
<1> QED BY Invariance, <1>1, PTL

-----------------------------------------------------------------------------
(* Non-membership *)

\* Two paths that agree from the root down lead through the same trees.
LEMMA SameTrees ==
    ASSUME NEW f, NEW left, Len(left) \in Nat, NEW g, NEW right, Len(right) \in Nat,
           NEW t, Chain(f, left, t), Chain(g, right, t),
           NEW n \in Nat, n <= Len(left), n <= Len(right),
           \A m \in 0 .. n - 1 : left[Len(left) - m] = right[Len(right) - m]
    PROVE  f[Len(left) - n] = g[Len(right) - n]
PROOF
<1>1. PICK l \in Nat, r \in Nat : l = Len(left) /\ r = Len(right)
  OBVIOUS
<1> DEFINE K == {m \in 0 .. n : f[l - m] = g[r - m]}
<1>2. 0 \in K
  BY <1>1 DEF Chain
<1>3. ASSUME NEW m \in 0 .. n - 1, m \in K PROVE m + 1 \in K
  <2>1. PICK i \in 1 .. l, j \in 1 .. r :
           /\ i = l - m /\ j = r - m /\ i - 1 = l - (m + 1) /\ j - 1 = r - (m + 1)
           /\ i \in 0 .. l
    <3>1. n <= l /\ n <= r /\ m \in Nat /\ m < n
      BY <1>1
    <3>2. l - m \in 1 .. l /\ r - m \in 1 .. r /\ l - m \in 0 .. l
      BY <3>1
    <3>3. (l - m) - 1 = l - (m + 1) /\ (r - m) - 1 = r - (m + 1)
      BY <3>1
    <3> QED BY <3>2, <3>3
  <2>2. PICK s, op : s = f[i] /\ op = left[i]
    OBVIOUS
  <2>3. g[j] = s /\ right[j] = op
    BY <1>1, <1>3, <2>1, <2>2
  <2>4. s \in Forest /\ ~IsLeaf(s) /\ IsStep(op, f[i - 1], s)
    BY <1>1, <2>1, <2>2 DEF Chain
  <2>5. IsStep(op, g[j - 1], s)
    BY <1>1, <2>1, <2>3 DEF Chain
  <2>6. LeftOp(s) # RightOp(s)
    BY <2>4, PaddingTells
  <2>7. f[i - 1] = g[j - 1]
    BY <2>4, <2>5, <2>6 DEF IsStep
  <2> QED BY <2>1, <2>7
<1>4. 0 .. n \subseteq K
  <2> HIDE DEF K
  <2> QED BY <1>2, <1>3, InductionUpTo
<1> QED BY <1>1, <1>4

\* Between two neighbours there is no entry: where their paths part they are the
\* greatest on the left and the smallest on the right, and what the common steps
\* above add is beyond one of them.
LEMMA NothingBetween ==
    ASSUME NEW f, NEW left, Len(left) \in Nat, NEW g, NEW right, Len(right) \in Nat,
           NEW t, Chain(f, left, t), Chain(g, right, t),
           isLeftNeighborIAVL(left, right)
    PROVE  \A e \in Entries(t) : e[1][2] <= KeyNumber(f[0]) \/ KeyNumber(g[0]) <= e[1][2]
PROOF
<1>1. PICK l \in Nat, r \in Nat : l = Len(left) /\ r = Len(right)
  OBVIOUS
<1>2. PICK n \in Nat : /\ n < l /\ n < r
                       /\ \A m \in 0 .. n - 1 : left[l - m] = right[r - m]
                       /\ isLeftStepIAVL(left[l - n], right[r - n])
                       /\ isRightMostIAVL(left, l - n - 1)
                       /\ isLeftMostIAVL(right, r - n - 1)
  <2>1. PICK mn : mn = Min({l, r})
    OBVIOUS
  <2>2. mn \in Nat /\ mn <= l /\ mn <= r
    <3>1. \E x \in {l, r} : \A y \in {l, r} : x <= y
      <4>1. CASE l <= r
        BY <4>1
      <4>2. CASE ~(l <= r)
        BY <4>2
      <4> QED BY <4>1, <4>2
    <3>2. mn \in {l, r} /\ \A y \in {l, r} : mn <= y
      BY <2>1, <3>1 DEF Min
    <3> QED BY <3>2
  <2>3. PICK split : split = {m \in 0 .. mn - 1 : left[l - m] # right[r - m]}
    OBVIOUS
  <2>4. PICK n : n = Min(split)
    OBVIOUS
  <2>5. /\ split # {}
        /\ isLeftStepIAVL(left[l - n], right[r - n])
        /\ isRightMostIAVL(left, l - n - 1)
        /\ isLeftMostIAVL(right, r - n - 1)
    BY <1>1, <2>1, <2>3, <2>4 DEF isLeftNeighborIAVL
  <2>6. split \subseteq Nat
    BY <2>2, <2>3
  <2>7. n \in split /\ \A y \in split : n <= y
    BY <2>4, <2>5, <2>6, LeastNatural DEF Min
  <2>8. n \in Nat /\ n < l /\ n < r /\ n <= mn - 1
    BY <2>2, <2>3, <2>7
  <2>9. ASSUME NEW m \in 0 .. n - 1 PROVE left[l - m] = right[r - m]
    <3>1. m \in 0 .. mn - 1 /\ ~(n <= m)
      BY <2>2, <2>8
    <3> QED BY <2>3, <2>7, <3>1
  <2> QED BY <2>5, <2>8, <2>9
<1>3. f[l - n] = g[r - n]
  <2>1. n <= Len(left) /\ n <= Len(right)
    BY <1>1, <1>2
  <2>2. \A m \in 0 .. n - 1 : left[Len(left) - m] = right[Len(right) - m]
    BY <1>1, <1>2
  <2>3. f[Len(left) - n] = g[Len(right) - n]
    BY <2>1, <2>2, SameTrees
  <2> QED BY <1>1, <2>3
<1>4. PICK s : s = f[l - n]
  OBVIOUS
<1>5. PICK i \in 1 .. l, j \in 1 .. r :
         i = l - n /\ j = r - n /\ i - 1 = l - n - 1 /\ j - 1 = r - n - 1
         /\ i \in 0 .. l /\ i - 1 \in 0 .. l /\ j - 1 \in 0 .. r /\ j \in 0 .. r
  BY <1>2
<1>6. /\ s \in Forest /\ ~IsLeaf(s)
      /\ IsStep(left[i], f[i - 1], s) /\ IsStep(right[j], g[j - 1], s)
  BY <1>1, <1>3, <1>4, <1>5 DEF Chain
<1>7. f[i - 1] = LeftChild(s) /\ g[j - 1] = RightChild(s)
  <2>1. hasPadding(left[i], getPaddingIAVL(0)) /\ hasPadding(right[j], getPaddingIAVL(1))
    BY <1>2, <1>5 DEF isLeftStepIAVL
  <2> QED BY <1>6, <2>1, PaddingTells
<1>8. PICK a \in Nat, b \in Nat : a = KeyNumber(f[0]) /\ b = KeyNumber(g[0])
  <2>1. f[0] \in Forest /\ IsLeaf(f[0]) /\ g[0] \in Forest /\ IsLeaf(g[0])
    BY <1>1 DEF Chain
  <2> QED BY <2>1, LeafEntry
<1>9. /\ \A e \in Entries(f[i - 1]) : e[1][2] <= a
      /\ \A e \in Entries(g[j - 1]) : b <= e[1][2]
  <2>1. PICK p \in 0 .. l, q \in 0 .. r : p = i - 1 /\ q = j - 1
    BY <1>5
  <2>2. isRightMostIAVL(left, p) /\ isLeftMostIAVL(right, q)
    BY <1>2, <1>5, <2>1
  <2>3. \A e \in Entries(f[p]) : e[1][2] <= a
    BY <1>1, <1>8, <2>2, Rightmost
  <2>4. \A e \in Entries(g[q]) : b <= e[1][2]
    BY <1>1, <1>8, <2>2, Leftmost
  <2> QED BY <2>1, <2>3, <2>4
<1>10. \A e \in Entries(s) : e[1][2] <= a \/ b <= e[1][2]
  BY <1>6, <1>7, <1>9, EntriesOfNode
<1>11. PICK x, y : x = << KeyOf(f[0]), ValueOf(f[0]) >> /\ y = << KeyOf(g[0]), ValueOf(g[0]) >>
  OBVIOUS
<1>12. x[1][2] = a /\ y[1][2] = b
  BY <1>8, <1>11 DEF KeyNumber
<1>13. y \in Entries(s)
  BY <1>1, <1>3, <1>4, <1>5, <1>11, ChainEntries
<1> DEFINE Gap(u) == y \in Entries(u) /\ \A e \in Entries(u) : e[1][2] <= a \/ b <= e[1][2]
           K == {d \in 0 .. n : Gap(f[i + d])}
<1>14. Gap(f[i])
  BY <1>4, <1>5, <1>10, <1>13
<1>15. ASSUME NEW d \in 0 .. n - 1, Gap(f[i + d]) PROVE Gap(f[i + (d + 1)])
  <2>1. PICK k \in 1 .. l : k = i + (d + 1) /\ k - 1 = i + d /\ k - 1 \in 0 .. l /\ k \in 0 .. l
    BY <1>2, <1>5
  <2>2. PICK u, c : u = f[k] /\ c = f[k - 1]
    OBVIOUS
  <2>3. u \in Forest /\ Gap(c)
    BY <1>1, <1>15, <2>1, <2>2 DEF Chain
  <2>4. x \in Entries(c)
    BY <1>1, <1>11, <2>1, <2>2, ChainEntries
  <2>5. y \in Entries(c) /\ \A e \in Entries(c) : e[1][2] <= a \/ b <= e[1][2]
    BY <2>3
  <2>6. Entries(c) \subseteq Entries(u)
    <3>1. ~IsLeaf(u) /\ c \in {LeftChild(u), RightChild(u)}
      BY <1>1, <2>1, <2>2 DEF Chain, IsStep
    <3> QED BY <2>3, <3>1, EntriesOfNode
  <2>7. \A e \in Entries(u) : \/ e \in Entries(c)
                              \/ \A z \in Entries(c) : z[1][2] < e[1][2]
                              \/ \A z \in Entries(c) : e[1][2] < z[1][2]
    BY <1>1, <2>1, <2>2, StepUp
  <2>8. ASSUME NEW e \in Entries(u) PROVE e[1][2] <= a \/ b <= e[1][2]
    <3>1. e[1][2] \in Nat
      BY <2>3, EntryKeys
    <3>2. e \in Entries(c) \/ y[1][2] < e[1][2] \/ e[1][2] < x[1][2]
      BY <2>4, <2>5, <2>7
    <3> QED BY <1>12, <2>5, <3>1, <3>2
  <2>9. Gap(u)
    BY <2>5, <2>6, <2>8
  <2> QED BY <2>1, <2>2, <2>9
<1> HIDE DEF Gap
<1>16. 0 \in K /\ \A d \in 0 .. n - 1 : d \in K => d + 1 \in K
  <2>1. i + 0 = i /\ 0 \in 0 .. n
    BY <1>2
  <2>2. Gap(f[i + 0])
    BY <1>14, <2>1
  <2>3. \A d \in 0 .. n - 1 : d + 1 \in 0 .. n
    BY <1>2
  <2> QED BY <1>15, <2>1, <2>2, <2>3
<1>17. 0 .. n \subseteq K
  <2> HIDE DEF K
  <2> QED BY <1>2, <1>16, InductionUpTo
<1>18. Gap(f[i + n])
  BY <1>17
<1>19. i + n = l
  BY <1>5
<1>20. f[l] = t
  BY <1>1 DEF Chain
<1> QED BY <1>8, <1>18, <1>19, <1>20 DEF Gap

\* A proof, as far as its types go.
IsProof(p) == IsBytes(p.prefix) /\ IsPath(p.path)

LEMMA VerifiedProof ==
    ASSUME NEW p, IsProof(p), NEW t \in Forest, RootOf(p) = t
    PROVE  \E f : Chain(f, p.path, t) /\ p.key = KeyOf(f[0]) /\ p.value = ValueOf(f[0])
PROOF
<1>1. PICK prefix, key, value, path :
         prefix = p.prefix /\ key = p.key /\ value = p.value /\ path = p.path
  OBVIOUS
<1>2. IsBytes(prefix) /\ IsPath(path)
  BY <1>1 DEF IsProof
<1>3. verifyMembershipIAVLSpec(prefix, key, value, path) = t
  BY <1>1 DEF RootOf
<1>4. \E f : Chain(f, path, t) /\ key = KeyOf(f[0]) /\ value = ValueOf(f[0])
  BY <1>2, <1>3, VerifiedPath
<1> QED BY <1>1, <1>4

\* Whatever proofs verifyNonMembershipIAVL is given as neighbours, it computes the
\* root of a tree only for a key that is not in the tree.
LEMMA AcceptedIsAbsent ==
    ASSUME NEW t \in Forest, NEW k, NEW left, NEW right,
           left.key = << >> \/ IsProof(left), right.key = << >> \/ IsProof(right),
           verifyNonMembershipIAVL(Key(k), left, right) = t
    PROVE  \A e \in Entries(t) : e[1] # Key(k)
PROOF
<1>1. t # Reverts
  BY TreeTokens DEF Reverts
<1>2. /\ ~(left.key = << >> /\ right.key = << >>)
      /\ ensureKeysInValidRange(left.key, Key(k), right.key)
      /\ left.key = << >> \/ right.key = << >> \/ RootOf(left) = RootOf(right)
      /\ t = IF left.key = << >> THEN RootOf(right) ELSE RootOf(left)
  BY <1>1 DEF verifyNonMembershipIAVL
<1>3. /\ left.key = << >> => isLeftMostIAVL(right.path, Len(right.path))
      /\ left.key # << >> /\ right.key = << >> => isRightMostIAVL(left.path, Len(left.path))
      /\ left.key # << >> /\ right.key # << >> => isLeftNeighborIAVL(left.path, right.path)
  BY <1>1 DEF verifyNonMembershipIAVL
<1>4. Key(k)[2] = k
  BY DEF Key
<1>5. /\ left.key # << >> => left.key[2] < k
      /\ right.key # << >> => k < right.key[2]
  BY <1>2, <1>4 DEF ensureKeysInValidRange
<1>6. ASSUME NEW p, IsProof(p), RootOf(p) = t
      PROVE  /\ Len(p.path) \in Nat /\ Len(p.path) \in 0 .. Len(p.path)
             /\ \E f : Chain(f, p.path, t) /\ p.key[2] = KeyNumber(f[0])
                       /\ f[Len(p.path)] = t /\ KeyNumber(f[0]) \in Nat
  <2>1. PICK f : Chain(f, p.path, t) /\ p.key = KeyOf(f[0])
    BY <1>6, VerifiedProof
  <2>2. Len(p.path) \in Nat
    BY <1>6, BytesLength DEF IsProof, IsPath
  <2>3. Len(p.path) \in 0 .. Len(p.path) /\ 0 \in 0 .. Len(p.path)
    BY <2>2
  <2>4. f[Len(p.path)] = t /\ f[0] \in Forest /\ IsLeaf(f[0])
    BY <2>1, <2>3 DEF Chain
  <2>5. KeyNumber(f[0]) \in Nat
    BY <2>4, LeafEntry
  <2> QED BY <2>1, <2>2, <2>3, <2>4, <2>5 DEF KeyNumber
<1> SUFFICES ASSUME NEW e \in Entries(t), e[1] = Key(k) PROVE FALSE
  OBVIOUS
<1>7. k \in Nat /\ e[1][2] = k
  BY <1>4, EntryKeys
<1>8. CASE left.key = << >>
  <2>1. PICK path : path = right.path
    OBVIOUS
  <2>2. PICK f : Chain(f, path, t) /\ right.key[2] = KeyNumber(f[0]) /\ f[Len(path)] = t
                 /\ KeyNumber(f[0]) \in Nat
    BY <1>2, <1>6, <1>8, <2>1
  <2>3. Len(path) \in Nat /\ Len(path) \in 0 .. Len(path)
    BY <1>2, <1>6, <1>8, <2>1
  <2>4. isLeftMostIAVL(path, Len(path))
    BY <1>3, <1>8, <2>1
  <2>5. KeyNumber(f[0]) <= e[1][2]
    BY <2>2, <2>3, <2>4, Leftmost
  <2>6. k < KeyNumber(f[0])
    BY <1>2, <1>5, <1>8, <2>2
  <2> QED BY <1>7, <2>2, <2>5, <2>6
<1>9. CASE left.key # << >> /\ right.key = << >>
  <2>1. PICK path : path = left.path
    OBVIOUS
  <2>2. PICK f : Chain(f, path, t) /\ left.key[2] = KeyNumber(f[0]) /\ f[Len(path)] = t
                 /\ KeyNumber(f[0]) \in Nat
    BY <1>2, <1>6, <1>9, <2>1
  <2>3. Len(path) \in Nat /\ Len(path) \in 0 .. Len(path)
    BY <1>2, <1>6, <1>9, <2>1
  <2>4. isRightMostIAVL(path, Len(path))
    BY <1>3, <1>9, <2>1
  <2>5. e[1][2] <= KeyNumber(f[0])
    BY <2>2, <2>3, <2>4, Rightmost
  <2>6. KeyNumber(f[0]) < k
    BY <1>5, <1>9, <2>2
  <2> QED BY <1>7, <2>2, <2>5, <2>6
<1>10. CASE left.key # << >> /\ right.key # << >>
  <2>1. PICK lp, rp : lp = left.path /\ rp = right.path
    OBVIOUS
  <2>2. RootOf(left) = t /\ RootOf(right) = t /\ IsProof(left) /\ IsProof(right)
    BY <1>2, <1>10
  <2>3. PICK f : Chain(f, lp, t) /\ left.key[2] = KeyNumber(f[0]) /\ KeyNumber(f[0]) \in Nat
    BY <1>6, <2>1, <2>2
  <2>4. PICK g : Chain(g, rp, t) /\ right.key[2] = KeyNumber(g[0]) /\ KeyNumber(g[0]) \in Nat
    BY <1>6, <2>1, <2>2
  <2>5. Len(lp) \in Nat /\ Len(rp) \in Nat
    BY <1>6, <2>1, <2>2
  <2>6. isLeftNeighborIAVL(lp, rp)
    BY <1>3, <1>10, <2>1
  <2>7. e[1][2] <= KeyNumber(f[0]) \/ KeyNumber(g[0]) <= e[1][2]
    BY <2>3, <2>4, <2>5, <2>6, NothingBetween
  <2>8. KeyNumber(f[0]) < k /\ k < KeyNumber(g[0])
    BY <1>5, <1>10, <2>3, <2>4
  <2> QED BY <1>7, <2>3, <2>4, <2>7, <2>8
<1> QED BY <1>8, <1>9, <1>10

\* verifyNonMembership accepts no key that was in the store before the header's
\* block, whichever leaves of whichever states are offered as its neighbours.
THEOREM NoEntryAbsent == Spec => []NonMembershipSound
PROOF
<1>1. IInv => NonMembershipSound
  <2> SUFFICES ASSUME IInv, NEW h \in Known, NEW l \in Neighbours, NEW r \in Neighbours,
                      NEW k \in Keys, verifyNonMembership(h, Key(k), l, r, StoreProofAt(h), Key(k))
               PROVE  \A e \in EntriesAt(h) : e[1] # Key(k)
    BY DEF NonMembershipSound
  <2>1. ASSUME NEW p \in Neighbours PROVE p.key = << >> \/ IsProof(p)
    <3>1. CASE p = NilProof
      BY <3>1 DEF NilProof
    <3>2. CASE p # NilProof
      <4>1. PICK j \in DOMAIN trees, spec \in {IAVLSpec, IAVLTree} :
               p \in NeighboursIn(trees[j], spec)
        BY DEF Neighbours
      <4>2. PICK e \in ExistenceProofs(trees[j]) : p = ExistenceProof(spec, e)
        BY <3>2, <4>1 DEF NeighboursIn
      <4>3. PICK x \in Places(trees[j]) : e = ProofAt(x)
        BY <4>2 DEF ExistenceProofs, Leaves
      <4>4. IsBytes(e.prefix) /\ IsPath(e.path)
        BY <4>3, PlaceProof
      <4>5. p.prefix = e.prefix /\ p.path = e.path
        BY <4>2 DEF ExistenceProof
      <4> QED BY <4>4, <4>5 DEF IsProof
    <3> QED BY <3>1, <3>2
  <2>2. PICK root : root = verifyNonMembershipIAVL(Key(k), l, r)
    OBVIOUS
  <2>3. verifyMembershipTendermintSpec(StoreProof.prefix, Key("ibc"), << root >>,
                                       StoreProof.path) = stored[h]
    <3>1. StoreProofAt(h).prefix = StoreProof.prefix /\ StoreProofAt(h).path = StoreProof.path
      BY DEF StoreProofAt, buildExistenceProofSimpleTree, ExistenceProof, StoreProofOf
    <3> QED BY <2>2, <3>1 DEF verifyNonMembership
  <2>4. root = trees[h - 1] /\ root \in Forest
    BY <2>3, RootIsTree
  <2>5. \A e \in Entries(root) : e[1] # Key(k)
    BY <2>1, <2>2, <2>4, AcceptedIsAbsent
  <2> QED BY <2>4, <2>5 DEF EntriesAt
<1> QED BY Invariance, <1>1, PTL

-----------------------------------------------------------------------------
(* The proofs there are *)

LEMMA LengthOfOne ==
    ASSUME NEW a, NEW s, s = << a >>, TokenLength(a) \in Nat
    PROVE  Length(s) = TokenLength(a)
PROOF
<1>1. Len(s) = 1 /\ s[1] = a
  OBVIOUS
<1>2. PICK f : /\ f[0] = 0 /\ Length(s) = f[Len(s)]
               /\ \A i \in 1 .. Len(s) : f[i] = f[i - 1] + TokenLength(s[i])
  BY <1>1, LengthEquation
<1>3. 1 \in 1 .. Len(s) /\ 1 - 1 = 0
  BY <1>1
<1>4. f[1] = f[0] + TokenLength(a)
  BY <1>1, <1>2, <1>3
<1> QED BY <1>1, <1>2, <1>4

LEMMA LengthOfFour ==
    ASSUME NEW a, NEW b, NEW c, NEW d, NEW s, s = << a, b, c, d >>,
           TokenLength(a) \in Nat, TokenLength(b) \in Nat,
           TokenLength(c) \in Nat, TokenLength(d) \in Nat
    PROVE  Length(s) = TokenLength(a) + TokenLength(b) + TokenLength(c) + TokenLength(d)
PROOF
<1>1. Len(s) = 4 /\ s[1] = a /\ s[2] = b /\ s[3] = c /\ s[4] = d
  OBVIOUS
<1>2. PICK f : /\ f[0] = 0 /\ Length(s) = f[Len(s)]
               /\ \A i \in 1 .. Len(s) : f[i] = f[i - 1] + TokenLength(s[i])
  BY <1>1, LengthEquation
<1>3. /\ 1 \in 1 .. Len(s) /\ 2 \in 1 .. Len(s) /\ 3 \in 1 .. Len(s) /\ 4 \in 1 .. Len(s)
      /\ 1 - 1 = 0 /\ 2 - 1 = 1 /\ 3 - 1 = 2 /\ 4 - 1 = 3
  BY <1>1
<1>4. /\ f[1] = f[0] + TokenLength(a) /\ f[2] = f[1] + TokenLength(b)
      /\ f[3] = f[2] + TokenLength(c) /\ f[4] = f[3] + TokenLength(d)
  BY <1>1, <1>2, <1>3
<1> QED BY <1>1, <1>2, <1>4

LEMMA MetadataLength ==
    ASSUME NEW s \in Forest
    PROVE  TokenLength(Metadata(s)) \in 3 .. 11 /\ Metadata(s)[1] = "meta"
PROOF
<1>1. PICK t \in Trees : s \in Subtrees(t)
  BY DEF Forest
<1>2. PICK x \in Places(t) : s = x[1]
  BY <1>1, SubtreesOfPlaces
<1>3. Metadata(s)[3] \in 3 .. 11
  BY <1>2, MetadataAssumption
<1>4. WellFormed(s)
  BY ForestWellFormed
<1>5. Metadata(s)[1] = "meta"
  <2>1. CASE IsLeaf(s)
    <3>1. Metadata(s) = << "meta", 0, Metadata(s)[3] >>
      BY <1>4, <2>1, LeafTokens
    <3> QED BY <3>1
  <2>2. CASE ~IsLeaf(s)
    <3>1. Metadata(s) = << "meta", Height(s), Metadata(s)[3] >>
      BY <1>4, <2>2, NodeTokens
    <3> QED BY <3>1
  <2> QED BY <2>1, <2>2
<1> QED BY <1>3, <1>5 DEF TokenLength

\* The lengths of the two steps to a node, whose metadata has n bytes.
OpLengthsAre(s, n) ==
    /\ TokenLength(Metadata(s)) = n
    /\ Length(LeftOp(s).prefix) = n + 1 /\ Length(LeftOp(s).suffix) = 33
    /\ Length(RightOp(s).prefix) = n + 34 /\ Length(RightOp(s).suffix) = 0

LEMMA OpLengths ==
    ASSUME NEW s \in Forest, ~IsLeaf(s)
    PROVE  \E n \in 3 .. 11 : OpLengthsAre(s, n)
PROOF
<1>1. LeftChild(s) \in Forest /\ RightChild(s) \in Forest
  BY ForestClosed DEF Kids
<1>2. PICK m, b, l, r : /\ m = Metadata(s) /\ b = LengthByte(32) /\ l = LeftChild(s)
                        /\ r = RightChild(s)
  OBVIOUS
<1>3. TokenLength(l) = 32 /\ TokenLength(r) = 32
  BY <1>1, <1>2, TreeTokens DEF TokenLength
<1>4. TokenLength(b) = 1
  BY <1>2 DEF TokenLength, LengthByte
<1>5. PICK n \in 3 .. 11 : TokenLength(m) = n
  BY <1>2, MetadataLength
<1>6. n \in Nat
  OBVIOUS
<1>7. /\ LeftOp(s).prefix = << m, b >> /\ LeftOp(s).suffix = << b, r >>
      /\ RightOp(s).prefix = << m, b, l, b >> /\ RightOp(s).suffix = << >>
  BY <1>2 DEF LeftOp, RightOp
<1>8. Length(LeftOp(s).prefix) = n + 1
  BY <1>4, <1>5, <1>6, <1>7, LengthOfTwo
<1>9. Length(LeftOp(s).suffix) = 33
  BY <1>3, <1>4, <1>7, LengthOfTwo
<1>10. Length(RightOp(s).prefix) = n + 34
  <2>1. PICK p : p = << m, b, l, b >>
    OBVIOUS
  <2>2. Length(p) = TokenLength(m) + TokenLength(b) + TokenLength(l) + TokenLength(b)
    BY <1>3, <1>4, <1>5, <1>6, <2>1, LengthOfFour
  <2> QED BY <1>3, <1>4, <1>5, <1>6, <1>7, <2>1, <2>2
<1>11. Length(RightOp(s).suffix) = 0
  BY <1>7, LengthOfNone
<1> QED BY <1>2, <1>5, <1>8, <1>9, <1>10, <1>11 DEF OpLengthsAre

\* Both steps to a node have the padding of their branch.
LEMMA OpPadding ==
    ASSUME NEW s \in Forest, ~IsLeaf(s)
    PROVE  /\ hasPadding(LeftOp(s), getPaddingIAVL(0))
           /\ hasPadding(RightOp(s), getPaddingIAVL(1))
PROOF
<1>1. PICK n \in 3 .. 11 : OpLengthsAre(s, n)
  BY OpLengths
<1>2. PICK z \in Nat, o \in Nat : z = getPaddingIAVL(0).suffix /\ o = getPaddingIAVL(1).suffix
                                  /\ z = 33 /\ o = 0
  BY DEF getPaddingIAVL
<1>3. /\ getPaddingIAVL(0).minPrefix = 4 /\ getPaddingIAVL(0).maxPrefix = 12
      /\ getPaddingIAVL(1).minPrefix = 37 /\ getPaddingIAVL(1).maxPrefix = 45
  BY DEF getPaddingIAVL
<1>4. n + 1 \in 4 .. 12 /\ n + 34 \in 37 .. 45
  OBVIOUS
<1> QED BY <1>1, <1>2, <1>3, <1>4 DEF OpLengthsAre, hasPadding

\* The steps to a node pass the checks of verifyMembershipIAVLSpec.
Passes(op, i) ==
    /\ Length(op.prefix) \in 4 .. 45
    /\ Length(op.suffix) % 33 = 0
    /\ validateIAVLOps(op.prefix, i)

LEMMA StepPasses ==
    ASSUME NEW s \in Forest, ~IsLeaf(s), NEW i \in Nat \ {0}, i <= Height(s)
    PROVE  Passes(LeftOp(s), i) /\ Passes(RightOp(s), i)
PROOF
<1>1. PICK n \in 3 .. 11 : OpLengthsAre(s, n)
  BY OpLengths
<1>2. PICK m : m = Metadata(s)
  OBVIOUS
<1>3. m[1] = "meta" /\ m[2] = Height(s) /\ TokenLength(m) = n /\ Height(s) \in Nat
  BY <1>1, <1>2, MetadataLength, TreeTokens, ForestWellFormed DEF OpLengthsAre
<1>4. LeftOp(s).prefix[1] = m /\ RightOp(s).prefix[1] = m
  BY <1>2 DEF LeftOp, RightOp
<1>5. n + 1 \in 4 .. 45 /\ n + 34 \in 4 .. 45 /\ 33 % 33 = 0 /\ 0 % 33 = 0
      /\ (n + 1) - n = 1 /\ (n + 34) - n = 34 /\ 2 * Height(s) >= i
  BY <1>3
<1>6. PICK p, q : p = LeftOp(s).prefix /\ q = RightOp(s).prefix
  OBVIOUS
<1>7. validateIAVLOps(p, i)
  <2>1. Length(p) - TokenLength(p[1]) = 1
    BY <1>1, <1>3, <1>4, <1>5, <1>6 DEF OpLengthsAre
  <2> QED BY <1>3, <1>4, <1>5, <1>6, <2>1 DEF validateIAVLOps, DecodedHeight
<1>8. validateIAVLOps(q, i)
  <2>1. Length(q) - TokenLength(q[1]) = 34
    BY <1>1, <1>3, <1>4, <1>5, <1>6 DEF OpLengthsAre
  <2> QED BY <1>3, <1>4, <1>5, <1>6, <2>1 DEF validateIAVLOps, DecodedHeight
<1> QED BY <1>1, <1>5, <1>6, <1>7, <1>8 DEF Passes, OpLengthsAre

LEMMA BytesEqual ==
    ASSUME NEW u, NEW v, IsBytes(u), IsBytes(v), Len(u) = Len(v),
           \A i \in 1 .. Len(u) : u[i] = v[i]
    PROVE  u = v
PROOF
<1>1. PICK T, U : u \in Seq(T) /\ v \in Seq(U)
  BY DEF IsBytes
<1>2. PICK n \in Nat : n = Len(u)
  BY BytesLength
<1>3. u \in [1 .. n -> T] /\ v \in [1 .. n -> U]
  BY <1>1, <1>2, LenProperties
<1>4. u = [i \in 1 .. n |-> u[i]] /\ v = [i \in 1 .. n |-> v[i]]
  BY <1>3
<1> QED BY <1>2, <1>4

\* A child between the bytes of its step are the bytes of the node.
LEMMA StepHash ==
    ASSUME NEW s \in Forest, ~IsLeaf(s), NEW op, NEW c, IsStep(op, c, s)
    PROVE  Sha256(op.prefix \o << c >> \o op.suffix) = s
PROOF
<1>1. PICK m, b, l, r : /\ m = Metadata(s) /\ b = LengthByte(32) /\ l = LeftChild(s)
                        /\ r = RightChild(s)
  OBVIOUS
<1>2. PICK v : v = << m, b, l, b, r >>
  OBVIOUS
<1>3. s = << "hash", s[2] >> /\ s[2] = v
  BY <1>1, <1>2, ForestWellFormed, NodeTokens
<1>4. s = Sha256(v)
  BY <1>3 DEF Sha256
<1>5. /\ IsBytes(v) /\ Len(v) = 5
      /\ v[1] = m /\ v[2] = b /\ v[3] = l /\ v[4] = b /\ v[5] = r
  <2>1. v \in Seq({m, b, l, r})
    BY <1>2
  <2> QED BY <1>2, <2>1 DEF IsBytes
<1>6. PICK p, o, q, w, z : /\ p = op.prefix /\ o = << c >> /\ q = op.suffix
                           /\ w = p \o o /\ z = w \o q
  OBVIOUS
<1>7. Len(o) = 1 /\ o[1] = c /\ IsBytes(o)
  <2>1. o \in Seq({c})
    BY <1>6
  <2> QED BY <1>6, <2>1 DEF IsBytes
<1>8. CASE op = LeftOp(s) /\ c = l
  <2>1. p = << m, b >> /\ q = << b, r >>
    BY <1>1, <1>6, <1>8 DEF LeftOp
  <2>2. /\ IsBytes(p) /\ Len(p) = 2 /\ p[1] = m /\ p[2] = b
        /\ IsBytes(q) /\ Len(q) = 2 /\ q[1] = b /\ q[2] = r
    <3>1. p \in Seq({m, b}) /\ q \in Seq({b, r})
      BY <2>1
    <3> QED BY <2>1, <3>1 DEF IsBytes
  <2>3. IsBytes(w) /\ Follows(w, p, o)
    BY <1>6, <1>7, <2>2, ConcatBytes
  <2>4. IsBytes(z) /\ Follows(z, w, q)
    BY <1>6, <2>2, <2>3, ConcatBytes
  <2>5. Len(w) = 3 /\ w[1] = m /\ w[2] = b /\ w[3] = c
    <3>1. 1 \in 1 .. 2 /\ 2 \in 1 .. 2 /\ 1 \in 1 .. 1 /\ 2 + 1 = 3
      OBVIOUS
    <3> QED BY <1>7, <2>2, <2>3, <3>1 DEF Follows
  <2>6. Len(z) = 5 /\ z[1] = m /\ z[2] = b /\ z[3] = c /\ z[4] = b /\ z[5] = r
    <3>1. /\ 1 \in 1 .. 3 /\ 2 \in 1 .. 3 /\ 3 \in 1 .. 3 /\ 1 \in 1 .. 2 /\ 2 \in 1 .. 2
          /\ 3 + 1 = 4 /\ 3 + 2 = 5
      OBVIOUS
    <3> QED BY <2>2, <2>4, <2>5, <3>1 DEF Follows
  <2>7. \A i \in 1 .. 5 : z[i] = v[i]
    <3>1. \A i \in 1 .. 5 : i = 1 \/ i = 2 \/ i = 3 \/ i = 4 \/ i = 5
      OBVIOUS
    <3> QED BY <1>5, <1>8, <2>6, <3>1
  <2>8. z = v
    BY <1>5, <2>4, <2>6, <2>7, BytesEqual
  <2> QED BY <1>4, <1>6, <2>8
<1>9. CASE op = RightOp(s) /\ c = r
  <2>1. p = << m, b, l, b >> /\ q = << >>
    BY <1>1, <1>6, <1>9 DEF RightOp
  <2>2. /\ IsBytes(p) /\ Len(p) = 4 /\ p[1] = m /\ p[2] = b /\ p[3] = l /\ p[4] = b
        /\ IsBytes(q) /\ Len(q) = 0
    <3>1. p \in Seq({m, b, l}) /\ q \in Seq({})
      BY <2>1
    <3> QED BY <2>1, <3>1 DEF IsBytes
  <2>3. IsBytes(w) /\ Follows(w, p, o)
    BY <1>6, <1>7, <2>2, ConcatBytes
  <2>4. IsBytes(z) /\ Follows(z, w, q)
    BY <1>6, <2>2, <2>3, ConcatBytes
  <2>5. Len(w) = 5 /\ w[1] = m /\ w[2] = b /\ w[3] = l /\ w[4] = b /\ w[5] = c
    <3>1. /\ 1 \in 1 .. 4 /\ 2 \in 1 .. 4 /\ 3 \in 1 .. 4 /\ 4 \in 1 .. 4 /\ 1 \in 1 .. 1
          /\ 4 + 1 = 5
      OBVIOUS
    <3> QED BY <1>7, <2>2, <2>3, <3>1 DEF Follows
  <2>6. Len(z) = 5 /\ \A i \in 1 .. 5 : z[i] = w[i]
    BY <2>2, <2>4, <2>5 DEF Follows
  <2>7. \A i \in 1 .. 5 : z[i] = v[i]
    <3>1. \A i \in 1 .. 5 : i = 1 \/ i = 2 \/ i = 3 \/ i = 4 \/ i = 5
      OBVIOUS
    <3> QED BY <1>5, <1>9, <2>5, <2>6, <3>1
  <2>8. z = v
    BY <1>5, <2>4, <2>6, <2>7, BytesEqual
  <2> QED BY <1>4, <1>6, <2>8
<1> QED BY <1>1, <1>8, <1>9 DEF IsStep

\* The trees from a place up to the root.
Ascent(f, path, s, t) ==
    /\ f[Len(path)] = t /\ f[0] = s
    /\ \A i \in 0 .. Len(path) : f[i] \in Forest
    /\ \A i \in 1 .. Len(path) : ~IsLeaf(f[i]) /\ IsStep(path[i], f[i - 1], f[i])

LEMMA AscentBelow ==
    ASSUME NEW f, NEW path, IsBytes(path), NEW s, NEW t, Ascent(f, path, s, t), ~IsLeaf(s),
           NEW op, NEW c, IsStep(op, c, s), NEW p, p = << op >> \o path
    PROVE  IsBytes(p) /\ \E g : Ascent(g, p, c, t)
PROOF
<1>1. PICK n \in Nat : n = Len(path)
  BY BytesLength
<1>2. PICK o : o = << op >>
  OBVIOUS
<1>3. IsBytes(o) /\ Len(o) = 1 /\ o[1] = op
  <2>1. o \in Seq({op})
    BY <1>2
  <2> QED BY <1>2, <2>1 DEF IsBytes
<1>4. IsBytes(p) /\ Follows(p, o, path)
  BY <1>2, <1>3, ConcatBytes
<1>5. /\ Len(p) = n + 1 /\ p[1] = op
      /\ \A i \in 1 .. n : p[1 + i] = path[i]
  <2>1. 1 \in 1 .. 1
    OBVIOUS
  <2> QED BY <1>1, <1>3, <1>4, <2>1 DEF Follows
<1>6. PICK g : g = [i \in 0 .. n + 1 |-> IF i = 0 THEN c ELSE f[i - 1]]
  OBVIOUS
<1>7. g[0] = c /\ \A j \in 0 .. n : g[j + 1] = f[j]
  <2>1. \A j \in 0 .. n : j + 1 \in 0 .. n + 1 /\ j + 1 # 0 /\ (j + 1) - 1 = j
    OBVIOUS
  <2>2. 0 \in 0 .. n + 1
    OBVIOUS
  <2> QED BY <1>6, <2>1, <2>2
<1>8. s \in Forest /\ f[0] = s /\ f[n] = t /\ \A j \in 0 .. n : f[j] \in Forest
  <2>1. 0 \in 0 .. n
    OBVIOUS
  <2> QED BY <1>1, <2>1 DEF Ascent
<1>9. c \in Forest
  <2>1. c \in Kids(s)
    BY DEF IsStep, Kids
  <2> QED BY <1>8, <2>1, ForestClosed
<1>10. ASSUME NEW i \in 0 .. n + 1 PROVE g[i] \in Forest
  <2>1. CASE i = 0
    BY <1>7, <1>9, <2>1
  <2>2. CASE i # 0
    <3>1. PICK j \in 0 .. n : i = j + 1
      <4>1. i - 1 \in 0 .. n /\ i = (i - 1) + 1
        BY <2>2
      <4> QED BY <4>1
    <3> QED BY <1>7, <1>8, <3>1
  <2> QED BY <2>1, <2>2
<1>11. ASSUME NEW i \in 1 .. n + 1 PROVE ~IsLeaf(g[i]) /\ IsStep(p[i], g[i - 1], g[i])
  <2>1. CASE i = 1
    <3>1. 0 \in 0 .. n /\ 0 + 1 = 1 /\ 1 - 1 = 0
      OBVIOUS
    <3>2. g[1] = s /\ g[0] = c
      BY <1>7, <1>8, <3>1
    <3> QED BY <1>5, <2>1, <3>1, <3>2
  <2>2. CASE i # 1
    <3>1. PICK j \in 1 .. n : i = j + 1 /\ i = 1 + j /\ i - 1 = j /\ j \in 0 .. n
                              /\ j - 1 \in 0 .. n /\ (j - 1) + 1 = j
      <4>1. i - 1 \in 1 .. n /\ i = (i - 1) + 1 /\ i = 1 + (i - 1)
            /\ (i - 1) \in 0 .. n /\ (i - 1) - 1 \in 0 .. n /\ ((i - 1) - 1) + 1 = i - 1
        BY <2>2
      <4> QED BY <4>1
    <3>2. g[i] = f[j] /\ g[i - 1] = f[j - 1] /\ p[i] = path[j]
      BY <1>5, <1>7, <3>1
    <3>3. ~IsLeaf(f[j]) /\ IsStep(path[j], f[j - 1], f[j])
      BY <1>1 DEF Ascent
    <3> QED BY <3>2, <3>3
  <2> QED BY <2>1, <2>2
<1>12. g[n + 1] = t
  <2>1. n \in 0 .. n
    OBVIOUS
  <2> QED BY <1>7, <1>8, <2>1
<1>13. Ascent(g, p, c, t)
  BY <1>5, <1>7, <1>10, <1>11, <1>12 DEF Ascent
<1> QED BY <1>4, <1>13

LEMMA PlaceAscent ==
    ASSUME NEW t \in Trees, NEW x \in Places(t)
    PROVE  IsBytes(x[2]) /\ \E f : Ascent(f, x[2], x[1], t)
PROOF
<1>1. Height(t) \in Nat /\ t \in Forest
  BY TreesInForest, ForestWellFormed
<1> DEFINE Up(y) == IsBytes(y[2]) /\ \E f : Ascent(f, y[2], y[1], t)
           K == {d \in 0 .. Height(t) : \A y \in Levels(t)[d] : Up(y)}
<1>2. 0 \in K
  <2>1. \A y \in Levels(t)[0] : y = << t, << >> >>
    BY <1>1, LevelsEquation
  <2>2. PICK e : e = << >>
    OBVIOUS
  <2>3. IsBytes(e) /\ Len(e) = 0
    <3>1. e \in Seq({})
      BY <2>2
    <3> QED BY <2>2, <3>1 DEF IsBytes
  <2>4. PICK f : f = [i \in 0 .. 0 |-> t]
    OBVIOUS
  <2>5. f[0] = t /\ \A i \in 0 .. 0 : f[i] \in Forest
    BY <1>1, <2>4
  <2>6. Ascent(f, e, t, t)
    BY <2>3, <2>5 DEF Ascent
  <2>7. ASSUME NEW y \in Levels(t)[0] PROVE Up(y)
    <3>1. y[1] = t /\ y[2] = e
      BY <2>1, <2>2
    <3> QED BY <2>3, <2>6, <3>1
  <2> QED BY <1>1, <2>7
<1>3. ASSUME NEW d \in 0 .. Height(t) - 1, d \in K PROVE d + 1 \in K
  <2>1. d + 1 \in 1 .. Height(t) /\ d + 1 \in 0 .. Height(t) /\ (d + 1) - 1 = d
    BY <1>1
  <2>2. ASSUME NEW z \in Levels(t)[d + 1] PROVE Up(z)
    <3>1. PICK y \in Levels(t)[d] : z \in Children(y)
      BY <1>1, <2>1, LevelsEquation
    <3>2. PICK s, path, c, p : s = y[1] /\ path = y[2] /\ c = z[1] /\ p = z[2]
      OBVIOUS
    <3>3. IsBytes(path) /\ \E f : Ascent(f, path, s, t)
      BY <1>3, <3>1, <3>2
    <3>4. PICK f : Ascent(f, path, s, t)
      BY <3>3
    <3>5. ~IsLeaf(s) /\ \E op : IsStep(op, c, s) /\ p = << op >> \o path
      <4>1. z \in {<< LeftChild(s), << LeftOp(s) >> \o path >>,
                   << RightChild(s), << RightOp(s) >> \o path >>} /\ ~IsLeaf(s)
        BY <3>1, <3>2 DEF Children
      <4>2. CASE z = << LeftChild(s), << LeftOp(s) >> \o path >>
        BY <3>2, <4>1, <4>2 DEF IsStep
      <4>3. CASE z = << RightChild(s), << RightOp(s) >> \o path >>
        BY <3>2, <4>1, <4>3 DEF IsStep
      <4> QED BY <4>1, <4>2, <4>3
    <3>6. PICK op : IsStep(op, c, s) /\ p = << op >> \o path
      BY <3>5
    <3>7. IsBytes(p) /\ \E g : Ascent(g, p, c, t)
      BY <3>3, <3>4, <3>5, <3>6, AscentBelow
    <3> QED BY <3>2, <3>7
  <2> QED BY <2>1, <2>2
<1>4. 0 .. Height(t) \subseteq K
  <2> HIDE DEF K
  <2> QED BY <1>1, <1>2, <1>3, InductionUpTo
<1>5. PICK d \in 0 .. Height(t) : x \in Levels(t)[d]
  BY DEF Places
<1> QED BY <1>4, <1>5

LEMMA ChainHeights ==
    ASSUME NEW f, NEW path, Len(path) \in Nat, NEW t, Chain(f, path, t),
           NEW i \in 0 .. Len(path)
    PROVE  i <= Height(f[i])
PROOF
<1>1. PICK n \in Nat : n = Len(path)
  OBVIOUS
<1>2. \A j \in 0 .. n : f[j] \in Forest /\ Height(f[j]) \in Nat
  BY <1>1, ForestWellFormed DEF Chain
<1> DEFINE K == {j \in 0 .. n : j <= Height(f[j])}
<1>3. 0 \in K
  BY <1>2
<1>4. ASSUME NEW j \in 0 .. n - 1, j \in K PROVE j + 1 \in K
  <2>1. j + 1 \in 1 .. n /\ (j + 1) - 1 = j /\ j + 1 \in 0 .. n /\ j \in 0 .. n
    OBVIOUS
  <2>2. PICK s \in Forest, c \in Forest : s = f[j + 1] /\ c = f[j]
    BY <1>2, <2>1
  <2>3. ~IsLeaf(s) /\ c \in {LeftChild(s), RightChild(s)}
    BY <1>1, <2>1, <2>2 DEF Chain, IsStep
  <2>4. LeftChild(s) \in Forest /\ RightChild(s) \in Forest
    BY <2>3, ForestClosed DEF Kids
  <2>5. /\ Height(LeftChild(s)) \in Nat /\ Height(RightChild(s)) \in Nat
        /\ WellFormed(s) /\ Height(s) \in Nat
    BY <2>4, ForestWellFormed
  <2>6. Height(c) < Height(s)
    BY <2>3, <2>5, ChildrenLower
  <2>7. j <= Height(c) /\ Height(c) \in Nat
    BY <1>2, <1>4, <2>1, <2>2
  <2>8. j + 1 <= Height(s)
    BY <2>5, <2>6, <2>7
  <2> QED BY <2>1, <2>2, <2>8
<1>5. 0 .. n \subseteq K
  <2> HIDE DEF K
  <2> QED BY <1>3, <1>4, InductionUpTo
<1> QED BY <1>1, <1>5

\* The hashes along the path of a leaf are the trees above it.
LEMMA ChainHashes ==
    ASSUME NEW f, NEW path, Len(path) \in Nat, NEW t, Chain(f, path, t),
           NEW leaf, f[0] = Sha256(leaf)
    PROVE  ApplyPath(leaf, path) = t
PROOF
<1>1. PICK n \in Nat : n = Len(path)
  OBVIOUS
<1>2. PICK g : g = Hashes(leaf, path)
  OBVIOUS
<1>3. /\ g[0] = Sha256(leaf)
      /\ \A i \in 1 .. n : g[i] = Sha256(path[i].prefix \o << g[i - 1] >> \o path[i].suffix)
  BY <1>1, <1>2, HashesEquation
<1> DEFINE K == {i \in 0 .. n : g[i] = f[i]}
<1>4. 0 \in K
  BY <1>3
<1>5. ASSUME NEW j \in 0 .. n - 1, j \in K PROVE j + 1 \in K
  <2>1. PICK i \in 1 .. n : i = j + 1 /\ i - 1 = j /\ i \in 0 .. n
    OBVIOUS
  <2>2. PICK s, c, op : s = f[i] /\ c = f[i - 1] /\ op = path[i]
    OBVIOUS
  <2>3. s \in Forest /\ ~IsLeaf(s) /\ IsStep(op, c, s)
    BY <1>1, <2>1, <2>2 DEF Chain
  <2>4. Sha256(op.prefix \o << c >> \o op.suffix) = s
    BY <2>3, StepHash
  <2>5. g[i - 1] = c
    BY <1>5, <2>1, <2>2
  <2>6. g[i] = s
    BY <1>3, <2>2, <2>4, <2>5
  <2> QED BY <2>1, <2>2, <2>6
<1>6. 0 .. n \subseteq K
  <2> HIDE DEF K
  <2> QED BY <1>4, <1>5, InductionUpTo
<1>7. g[n] = f[n]
  BY <1>6
<1> QED BY <1>1, <1>2, <1>7 DEF ApplyPath, Chain

\* The proof of a leaf is accepted for the tree that the leaf is in.
LEMMA LeafProof ==
    ASSUME NEW t \in Trees, NEW x \in Leaves(t), NEW p, p = ProofAt(x)
    PROVE  /\ RootOf(p) = t /\ Len(p.path) \in Nat
           /\ \E f : Chain(f, p.path, t) /\ f[0] = x[1]
           /\ p.key = KeyOf(x[1])
PROOF
<1>1. x \in Places(t) /\ IsLeaf(x[1])
  BY DEF Leaves
<1>2. PICK s, path : s = x[1] /\ path = x[2]
  OBVIOUS
<1>3. PICK m, k, v : m = Metadata(s) /\ k = KeyOf(s) /\ v = ValueOf(s)
  OBVIOUS
<1>4. p.prefix = << m >> /\ p.key = k /\ p.value = v /\ p.path = path
  BY <1>2, <1>3 DEF ProofAt
<1>5. IsBytes(path) /\ \E f : Ascent(f, path, s, t)
  BY <1>1, <1>2, PlaceAscent
<1>6. PICK f : Ascent(f, path, s, t)
  BY <1>5
<1>7. PICK n \in Nat : n = Len(path)
  BY <1>5, BytesLength
<1>8. Chain(f, path, t) /\ f[0] = s
  BY <1>1, <1>2, <1>6 DEF Ascent, Chain
<1>9. s \in Forest /\ IsLeaf(s)
  <2>1. 0 \in 0 .. n
    OBVIOUS
  <2> QED BY <1>1, <1>2, <1>7, <1>8, <2>1 DEF Chain
<1>10. PICK leaf : leaf = << m >> \o LeafData(k, v)
  OBVIOUS
<1>11. s = Sha256(leaf)
  <2>1. WellFormed(s)
    BY <1>9, ForestWellFormed
  <2>2. /\ s = << "hash", s[2] >>
        /\ s[2] = << m, LengthByte(1), k, LengthByte(32), Sha256(v) >>
        /\ k = << "key", k[2] >>
    BY <1>3, <1>9, <2>1, LeafTokens
  <2>3. TokenLength(k) = 1
    BY <2>2 DEF TokenLength
  <2>4. PICK a, b, c : a = LengthByte(1) /\ b = LengthByte(32) /\ c = Sha256(v)
    OBVIOUS
  <2>5. leaf = << m >> \o << a, k, b, c >>
    BY <1>10, <2>3, <2>4 DEF LeafData
  <2>6. leaf = << m, a, k, b, c >>
    BY <2>5, FiveTokens
  <2> QED BY <2>2, <2>4, <2>6 DEF Sha256
<1>12. ApplyPath(leaf, path) = t
  BY <1>7, <1>8, <1>11, ChainHashes
<1>13. LeafPrefix(<< m >>) /\ validateIAVLOps(<< m >>, 0)
  <2>1. PICK q, z : q = << m >> /\ z = 0
    OBVIOUS
  <2>2. q[1] = m
    BY <2>1
  <2>3. m[1] = "meta" /\ TokenLength(m) \in Nat /\ m[2] = 0
    <3>1. TokenLength(m) \in 3 .. 11 /\ m[1] = "meta" /\ m[2] = Height(s)
      BY <1>3, <1>9, MetadataLength, TreeTokens
    <3> QED BY <1>9, <3>1 DEF IsLeaf
  <2>4. Length(q) = TokenLength(m)
    BY <2>1, <2>3, LengthOfOne
  <2>5. Length(q) - TokenLength(q[1]) = 0
    BY <2>2, <2>3, <2>4
  <2>6. DecodedHeight(q) = 0
    BY <2>2, <2>3 DEF DecodedHeight
  <2>7. LeafPrefix(q)
    BY <2>6 DEF LeafPrefix
  <2>8. validateIAVLOps(q, z)
    BY <2>1, <2>2, <2>3, <2>5, <2>6 DEF validateIAVLOps
  <2> QED BY <2>1, <2>7, <2>8
<1>14. \A i \in 1 .. n : Passes(path[i], i)
  <2> SUFFICES ASSUME NEW i \in 1 .. n PROVE Passes(path[i], i)
    OBVIOUS
  <2>1. i \in 0 .. n /\ i \in Nat \ {0}
    OBVIOUS
  <2>2. PICK u, op : u = f[i] /\ op = path[i]
    OBVIOUS
  <2>3. u \in Forest /\ ~IsLeaf(u) /\ op \in {LeftOp(u), RightOp(u)}
    BY <1>7, <1>8, <2>1, <2>2 DEF Chain, IsStep
  <2>4. i <= Height(u)
    BY <1>7, <1>8, <2>1, <2>2, ChainHeights
  <2>5. Passes(LeftOp(u), i) /\ Passes(RightOp(u), i)
    BY <2>1, <2>3, <2>4, StepPasses
  <2> QED BY <2>2, <2>3, <2>5
<1>15. verifyMembershipIAVLSpec(<< m >>, k, v, path) = t
  <2>1. \A i \in 1 .. Len(path) :
             /\ Length(path[i].prefix) \in 4 .. 45
             /\ Length(path[i].suffix) % 33 = 0
             /\ validateIAVLOps(path[i].prefix, i)
    BY <1>7, <1>14 DEF Passes
  <2>2. PICK q : q = << m >>
    OBVIOUS
  <2>3. LeafPrefix(q) /\ validateIAVLOps(q, 0) /\ ApplyPath(q \o LeafData(k, v), path) = t
    BY <1>10, <1>12, <1>13, <2>2
  <2>4. verifyMembershipIAVLSpec(q, k, v, path) = t
    BY <2>1, <2>3 DEF verifyMembershipIAVLSpec
  <2> QED BY <2>2, <2>4
<1>16. RootOf(p) = t
  BY <1>4, <1>15 DEF RootOf
<1> QED BY <1>2, <1>3, <1>4, <1>7, <1>8, <1>16

\* The app hash of a tree is accepted for its root.
LEMMA StoreProofHolds ==
    ASSUME NEW t
    PROVE  verifyMembershipTendermintSpec(StoreProof.prefix, Key("ibc"), << t >>,
                                          StoreProof.path) = AppHash(t)
PROOF
<1>1. PICK op, path : /\ op = [prefix |-> << TagByte(1) >>, suffix |-> << OtherStore >>]
                      /\ path = << op >>
  OBVIOUS
<1>2. StoreProof.prefix = << TagByte(0) >> /\ StoreProof.path = path
  BY <1>1 DEF StoreProof
<1>3. PICK leaf : leaf = << TagByte(0) >> \o LeafData(Key("ibc"), << t >>)
  OBVIOUS
<1>4. Len(path) = 1 /\ path[1] = op
  BY <1>1
<1>5. PICK a, o, s : a = TagByte(1) /\ o = OtherStore /\ s = StoreLeaf("ibc", t)
  OBVIOUS
<1>6. op.prefix = << a >> /\ op.suffix = << o >>
  BY <1>1, <1>5
<1>7. s = Sha256(leaf)
  BY <1>3, <1>5 DEF StoreLeaf
<1>8. ApplyPath(leaf, path) = AppHash(t)
  <2>1. PICK f : f = Hashes(leaf, path)
    OBVIOUS
  <2>2. f[0] = s
    BY <1>4, <1>7, <2>1, HashesEquation
  <2>3. 1 \in 1 .. Len(path) /\ 1 - 1 = 0 /\ Len(path) \in Nat
    BY <1>4
  <2>4. f[1] = Sha256(path[1].prefix \o << f[1 - 1] >> \o path[1].suffix)
    BY <2>1, <2>3, HashesEquation
  <2>5. f[1] = Sha256(<< a >> \o << s >> \o << o >>)
    BY <1>4, <1>6, <2>2, <2>3, <2>4
  <2>6. f[1] = Sha256(<< a, s, o >>)
    BY <2>5, ThreeTokens
  <2>7. f[1] = AppHash(t)
    BY <1>5, <2>6 DEF AppHash
  <2> QED BY <1>4, <2>1, <2>7 DEF ApplyPath
<1>9. Length(<< a >>) = 1 /\ Length(<< o >>) = 32
  <2>1. TokenLength(a) = 1 /\ TokenLength(o) = 32
    BY <1>5 DEF TokenLength, TagByte, OtherStore, StoreLeaf, Sha256
  <2>2. PICK u, v : u = << a >> /\ v = << o >>
    OBVIOUS
  <2>3. Length(u) = 1
    BY <2>1, <2>2, LengthOfOne
  <2>4. Length(v) = 32
    BY <2>1, <2>2, LengthOfOne
  <2> QED BY <2>2, <2>3, <2>4
<1>10. \A i \in 1 .. Len(path) :
             /\ Length(path[i].prefix) \in 1 .. 33
             /\ Length(path[i].suffix) % 32 = 0
  <2>1. \A i \in 1 .. Len(path) : i = 1
    BY <1>4
  <2>2. 1 \in 1 .. 33 /\ 32 % 32 = 0
    OBVIOUS
  <2> QED BY <1>4, <1>6, <1>9, <2>1, <2>2
<1>11. PICK q : q = << TagByte(0) >>
  OBVIOUS
<1>12. verifyMembershipTendermintSpec(q, Key("ibc"), << t >>, path) = AppHash(t)
  BY <1>3, <1>8, <1>10, <1>11 DEF verifyMembershipTendermintSpec
<1> QED BY <1>2, <1>11, <1>12

\* No tree is empty.
LEMMA EntriesExist ==
    ASSUME NEW s \in Forest
    PROVE  Entries(s) # {}
PROOF
<1>1. \A u \in Forest : Height(u) \in Nat
  BY ForestWellFormed
<1>2. PICK n \in Nat : n = Height(s)
  BY <1>1
<1> DEFINE K == {h \in 0 .. n : \A u \in Forest : Height(u) <= h => Entries(u) # {}}
<1>3. ASSUME NEW u \in Forest, IsLeaf(u) PROVE Entries(u) # {}
  BY <1>3, EntriesOfLeaf
<1>4. 0 \in K
  BY <1>1, <1>3 DEF IsLeaf
<1>5. ASSUME NEW h \in 0 .. n - 1, h \in K PROVE h + 1 \in K
  <2>1. ASSUME NEW u \in Forest, Height(u) <= h + 1, ~IsLeaf(u) PROVE Entries(u) # {}
    <3>1. LeftChild(u) \in Forest /\ RightChild(u) \in Forest
      BY <2>1, ForestClosed DEF Kids
    <3>2. Height(LeftChild(u)) < Height(u)
      BY <1>1, <2>1, <3>1, ForestWellFormed, ChildrenLower
    <3>3. Height(LeftChild(u)) <= h
      BY <1>1, <2>1, <3>1, <3>2
    <3>4. Entries(LeftChild(u)) # {}
      BY <1>5, <3>1, <3>3
    <3> QED BY <2>1, <3>4, EntriesOfNode
  <2>2. h + 1 \in 0 .. n
    OBVIOUS
  <2> QED BY <1>3, <2>1, <2>2
<1>6. 0 .. n \subseteq K
  <2> HIDE DEF K
  <2> QED BY <1>4, <1>5, InductionUpTo
<1>7. n \in K
  BY <1>6
<1> QED BY <1>2, <1>7

\* From one tree of a chain to a higher one the entries grow.
LEMMA ChainGrows ==
    ASSUME NEW f, NEW path, Len(path) \in Nat, NEW t, Chain(f, path, t),
           NEW m \in 0 .. Len(path), NEW i \in 0 .. m
    PROVE  Entries(f[i]) \subseteq Entries(f[m])
PROOF
<1>1. PICK n \in Nat : n = Len(path)
  OBVIOUS
<1> DEFINE K == {d \in 0 .. m : Entries(f[m - d]) \subseteq Entries(f[m])}
<1>2. 0 \in K
  OBVIOUS
<1>3. ASSUME NEW d \in 0 .. m - 1, d \in K PROVE d + 1 \in K
  <2>1. PICK j \in 1 .. n : j = m - d /\ j - 1 = m - (d + 1) /\ j \in 0 .. n /\ d + 1 \in 0 .. m
    BY <1>1
  <2>2. f[j] \in Forest /\ ~IsLeaf(f[j]) /\ f[j - 1] \in {LeftChild(f[j]), RightChild(f[j])}
    BY <1>1, <2>1 DEF Chain, IsStep
  <2>3. Entries(f[j - 1]) \subseteq Entries(f[j])
    BY <2>2, EntriesOfNode
  <2> QED BY <1>3, <2>1, <2>3
<1>4. m \in Nat
  OBVIOUS
<1>5. 0 .. m \subseteq K
  <2> HIDE DEF K
  <2> QED BY <1>2, <1>3, <1>4, InductionUpTo
<1>6. m - i \in 0 .. m /\ m - (m - i) = i
  OBVIOUS
<1> QED BY <1>5, <1>6

\* A chain whose leaf has the greatest key of one of its trees goes up to that tree
\* in right steps only: beyond a left step there would be a greater one.
LEMMA GreatestRightmost ==
    ASSUME NEW f, NEW path, Len(path) \in Nat, NEW t, Chain(f, path, t),
           NEW m \in 0 .. Len(path), \A e \in Entries(f[m]) : e[1][2] <= KeyNumber(f[0])
    PROVE  isRightMostIAVL(path, m)
PROOF
<1> SUFFICES ASSUME NEW i \in 1 .. m PROVE hasPadding(path[i], getPaddingIAVL(1))
  BY DEF isRightMostIAVL, allOnBranch
<1>1. i \in 1 .. Len(path) /\ i \in 0 .. Len(path) /\ i \in 0 .. m /\ i - 1 \in 0 .. Len(path)
  OBVIOUS
<1>2. PICK s, c, op : s = f[i] /\ c = f[i - 1] /\ op = path[i]
  OBVIOUS
<1>3. s \in Forest /\ ~IsLeaf(s) /\ IsStep(op, c, s)
  BY <1>1, <1>2 DEF Chain
<1>4. CASE op = RightOp(s)
  BY <1>2, <1>3, <1>4, OpPadding
<1>5. CASE op # RightOp(s)
  <2>1. c = LeftChild(s)
    BY <1>3, <1>5 DEF IsStep
  <2>2. PICK l : l = << KeyOf(f[0]), ValueOf(f[0]) >>
    OBVIOUS
  <2>3. l \in Entries(c) /\ l[1][2] = KeyNumber(f[0])
    BY <1>1, <1>2, <2>2, ChainEntries DEF KeyNumber
  <2>4. RightChild(s) \in Forest
    BY <1>3, ForestClosed DEF Kids
  <2>5. PICK e : e \in Entries(RightChild(s))
    BY <2>4, EntriesExist
  <2>6. l[1][2] < e[1][2]
    BY <1>3, <2>1, <2>3, <2>5, EntryKeys
  <2>7. Entries(s) \subseteq Entries(f[m])
    BY <1>1, <1>2, ChainGrows
  <2>8. e \in Entries(f[m])
    BY <1>3, <2>5, <2>7, EntriesOfNode
  <2>9. e[1][2] <= KeyNumber(f[0])
    BY <2>8
  <2>10. e[1][2] \in Nat /\ l[1][2] \in Nat
    <3>1. c \in Forest
      BY <1>1, <1>2 DEF Chain
    <3> QED BY <2>3, <2>4, <2>5, <3>1, EntryKeys
  <2> QED BY <2>3, <2>6, <2>9, <2>10
<1> QED BY <1>4, <1>5

\* And in left steps only, if the leaf has the smallest key.
LEMMA SmallestLeftmost ==
    ASSUME NEW f, NEW path, Len(path) \in Nat, NEW t, Chain(f, path, t),
           NEW m \in 0 .. Len(path), \A e \in Entries(f[m]) : KeyNumber(f[0]) <= e[1][2]
    PROVE  isLeftMostIAVL(path, m)
PROOF
<1> SUFFICES ASSUME NEW i \in 1 .. m PROVE hasPadding(path[i], getPaddingIAVL(0))
  BY DEF isLeftMostIAVL, allOnBranch
<1>1. i \in 1 .. Len(path) /\ i \in 0 .. Len(path) /\ i \in 0 .. m /\ i - 1 \in 0 .. Len(path)
  OBVIOUS
<1>2. PICK s, c, op : s = f[i] /\ c = f[i - 1] /\ op = path[i]
  OBVIOUS
<1>3. s \in Forest /\ ~IsLeaf(s) /\ IsStep(op, c, s)
  BY <1>1, <1>2 DEF Chain
<1>4. CASE op = LeftOp(s)
  BY <1>2, <1>3, <1>4, OpPadding
<1>5. CASE op # LeftOp(s)
  <2>1. c = RightChild(s)
    BY <1>3, <1>5 DEF IsStep
  <2>2. PICK l : l = << KeyOf(f[0]), ValueOf(f[0]) >>
    OBVIOUS
  <2>3. l \in Entries(c) /\ l[1][2] = KeyNumber(f[0])
    BY <1>1, <1>2, <2>2, ChainEntries DEF KeyNumber
  <2>4. LeftChild(s) \in Forest
    BY <1>3, ForestClosed DEF Kids
  <2>5. PICK e : e \in Entries(LeftChild(s))
    BY <2>4, EntriesExist
  <2>6. e[1][2] < l[1][2]
    BY <1>3, <2>1, <2>3, <2>5, EntryKeys
  <2>7. Entries(s) \subseteq Entries(f[m])
    BY <1>1, <1>2, ChainGrows
  <2>8. e \in Entries(f[m])
    BY <1>3, <2>5, <2>7, EntriesOfNode
  <2>9. KeyNumber(f[0]) <= e[1][2]
    BY <2>8
  <2>10. e[1][2] \in Nat /\ l[1][2] \in Nat
    <3>1. c \in Forest
      BY <1>1, <1>2 DEF Chain
    <3> QED BY <2>3, <2>4, <2>5, <3>1, EntryKeys
  <2> QED BY <2>3, <2>6, <2>9, <2>10
<1> QED BY <1>4, <1>5

\* Paths from two leaves to one root part somewhere.
LEMMA PathsPart ==
    ASSUME NEW f, NEW left, Len(left) \in Nat, NEW g, NEW right, Len(right) \in Nat,
           NEW t, Chain(f, left, t), Chain(g, right, t), f[0] # g[0],
           NEW n \in Nat, n <= Len(left), n <= Len(right),
           n = Len(left) \/ n = Len(right)
    PROVE  \E m \in 0 .. n - 1 : left[Len(left) - m] # right[Len(right) - m]
PROOF
<1> SUFFICES ASSUME \A m \in 0 .. n - 1 : left[Len(left) - m] = right[Len(right) - m]
             PROVE  FALSE
  OBVIOUS
<1>1. PICK l \in Nat, r \in Nat : l = Len(left) /\ r = Len(right)
  OBVIOUS
<1>2. f[l - n] = g[r - n]
  <2>1. f[Len(left) - n] = g[Len(right) - n]
    BY SameTrees
  <2> QED BY <1>1, <2>1
<1>3. IsLeaf(f[0]) /\ IsLeaf(g[0])
  BY DEF Chain
<1>4. l - n \in 0 .. l /\ r - n \in 0 .. r
  BY <1>1
<1>5. /\ \A i \in 1 .. l : ~IsLeaf(f[i])
      /\ \A i \in 1 .. r : ~IsLeaf(g[i])
  BY <1>1 DEF Chain
<1>6. CASE n = l
  <2>1. l - n = 0
    BY <1>6
  <2>2. IsLeaf(g[r - n])
    BY <1>2, <1>3, <2>1
  <2>3. r - n = 0
    BY <1>4, <1>5, <2>2
  <2> QED BY <1>2, <2>1, <2>3
<1>7. CASE n = r
  <2>1. r - n = 0
    BY <1>7
  <2>2. IsLeaf(f[l - n])
    BY <1>2, <1>3, <2>1
  <2>3. l - n = 0
    BY <1>4, <1>5, <2>2
  <2> QED BY <1>2, <2>1, <2>3
<1> QED BY <1>1, <1>6, <1>7

\* Two leaves with no entry between them are neighbours to isLeftNeighborIAVL.
LEMMA AdjacentLeaves ==
    ASSUME NEW f, NEW left, Len(left) \in Nat, NEW g, NEW right, Len(right) \in Nat,
           NEW t, Chain(f, left, t), Chain(g, right, t), KeyNumber(f[0]) < KeyNumber(g[0]),
           \A e \in Entries(t) : e[1][2] <= KeyNumber(f[0]) \/ KeyNumber(g[0]) <= e[1][2]
    PROVE  isLeftNeighborIAVL(left, right)
PROOF
<1>1. PICK l \in Nat, r \in Nat : l = Len(left) /\ r = Len(right)
  OBVIOUS
<1>2. PICK a \in Nat, b \in Nat : a = KeyNumber(f[0]) /\ b = KeyNumber(g[0])
  <2>1. 0 \in 0 .. l /\ 0 \in 0 .. r
    OBVIOUS
  <2>2. f[0] \in Forest /\ IsLeaf(f[0]) /\ g[0] \in Forest /\ IsLeaf(g[0])
    BY <1>1, <2>1 DEF Chain
  <2> QED BY <2>2, LeafEntry
<1>3. a < b /\ f[0] # g[0]
  BY <1>2
<1>4. PICK mn : mn = Min({l, r})
  OBVIOUS
<1>5. mn \in Nat /\ mn <= l /\ mn <= r /\ (mn = l \/ mn = r)
  <2>1. \E x \in {l, r} : \A y \in {l, r} : x <= y
    <3>1. CASE l <= r
      BY <3>1
    <3>2. CASE ~(l <= r)
      BY <3>2
    <3> QED BY <3>1, <3>2
  <2>2. mn \in {l, r} /\ \A y \in {l, r} : mn <= y
    BY <1>4, <2>1 DEF Min
  <2> QED BY <2>2
<1>6. PICK split : split = {m \in 0 .. mn - 1 : left[l - m] # right[r - m]}
  OBVIOUS
<1>7. split # {} /\ split \subseteq Nat
  <2>1. mn <= Len(left) /\ mn <= Len(right) /\ (mn = Len(left) \/ mn = Len(right))
    BY <1>1, <1>5
  <2>2. \E m \in 0 .. mn - 1 : left[Len(left) - m] # right[Len(right) - m]
    BY <1>3, <1>5, <2>1, PathsPart
  <2>3. PICK m \in 0 .. mn - 1 : left[l - m] # right[r - m]
    BY <1>1, <2>2
  <2>4. m \in split
    BY <1>6, <2>3
  <2>5. 0 .. mn - 1 \subseteq Nat
    OBVIOUS
  <2> QED BY <1>6, <2>4, <2>5
<1>8. PICK n : n = Min(split)
  OBVIOUS
<1>9. n \in split /\ \A y \in split : n <= y
  BY <1>7, <1>8, LeastNatural DEF Min
<1>10. n \in Nat /\ n < l /\ n < r /\ n <= mn - 1 /\ left[l - n] # right[r - n]
  BY <1>5, <1>6, <1>9
<1>11. ASSUME NEW m \in 0 .. n - 1 PROVE left[l - m] = right[r - m]
  <2>1. m \in 0 .. mn - 1 /\ ~(n <= m)
    BY <1>5, <1>10
  <2> QED BY <1>6, <1>9, <2>1
<1>12. f[l - n] = g[r - n]
  <2>1. n <= Len(left) /\ n <= Len(right)
    BY <1>1, <1>10
  <2>2. \A m \in 0 .. n - 1 : left[Len(left) - m] = right[Len(right) - m]
    BY <1>1, <1>11
  <2>3. f[Len(left) - n] = g[Len(right) - n]
    BY <1>10, <2>1, <2>2, SameTrees
  <2> QED BY <1>1, <2>3
<1>13. PICK i \in 1 .. l, j \in 1 .. r :
          i = l - n /\ j = r - n /\ i - 1 = l - n - 1 /\ j - 1 = r - n - 1
          /\ i \in 0 .. l /\ i - 1 \in 0 .. l /\ j - 1 \in 0 .. r /\ j \in 0 .. r
  BY <1>10
<1>14. PICK s, c, d, op, oq : /\ s = f[i] /\ c = f[i - 1] /\ d = g[j - 1]
                              /\ op = left[i] /\ oq = right[j]
  OBVIOUS
<1>15. s \in Forest /\ ~IsLeaf(s) /\ IsStep(op, c, s) /\ IsStep(oq, d, s) /\ op # oq
  BY <1>1, <1>10, <1>12, <1>13, <1>14 DEF Chain
<1>16. PICK x, y : x = << KeyOf(f[0]), ValueOf(f[0]) >> /\ y = << KeyOf(g[0]), ValueOf(g[0]) >>
  OBVIOUS
<1>17. x[1][2] = a /\ y[1][2] = b
  BY <1>2, <1>16 DEF KeyNumber
<1>18. x \in Entries(c) /\ y \in Entries(d)
  BY <1>1, <1>13, <1>14, <1>16, ChainEntries
<1>19. /\ \A u \in Entries(LeftChild(s)), v \in Entries(RightChild(s)) : u[1][2] < v[1][2]
       /\ \A e \in Entries(s) : e[1][2] \in Nat
  BY <1>15, EntryKeys
<1>20. op = LeftOp(s) /\ c = LeftChild(s) /\ oq = RightOp(s) /\ d = RightChild(s)
  <2>1. CASE op = RightOp(s) /\ c = RightChild(s) /\ oq = LeftOp(s) /\ d = LeftChild(s)
    <3>1. y[1][2] < x[1][2]
      BY <1>18, <1>19, <2>1
    <3> QED BY <1>3, <1>17, <3>1
  <2> QED BY <1>15, <2>1 DEF IsStep
<1>21. Entries(s) = Entries(c) \cup Entries(d) /\ Entries(s) \subseteq Entries(t)
  <2>1. Entries(s) = Entries(c) \cup Entries(d)
    BY <1>15, <1>20, EntriesOfNode
  <2>2. Entries(s) \subseteq Entries(t)
    BY <1>1, <1>13, <1>14, ChainEntries
  <2> QED BY <2>1, <2>2
<1>22. ASSUME NEW e \in Entries(c) PROVE e[1][2] <= a
  <2>1. e[1][2] < b
    BY <1>17, <1>18, <1>19, <1>20
  <2>2. e[1][2] <= a \/ b <= e[1][2]
    BY <1>2, <1>21
  <2>3. e[1][2] \in Nat
    BY <1>19, <1>21
  <2> QED BY <2>1, <2>2, <2>3
<1>23. ASSUME NEW e \in Entries(d) PROVE b <= e[1][2]
  <2>1. a < e[1][2]
    BY <1>17, <1>18, <1>19, <1>20
  <2>2. e[1][2] <= a \/ b <= e[1][2]
    BY <1>2, <1>21
  <2>3. e[1][2] \in Nat
    BY <1>19, <1>21
  <2> QED BY <2>1, <2>2, <2>3
<1>24. isRightMostIAVL(left, i - 1) /\ isLeftMostIAVL(right, j - 1)
  <2>1. PICK p \in 0 .. l, q \in 0 .. r : p = i - 1 /\ q = j - 1
    BY <1>13
  <2>2. /\ \A e \in Entries(f[p]) : e[1][2] <= KeyNumber(f[0])
        /\ \A e \in Entries(g[q]) : KeyNumber(g[0]) <= e[1][2]
    BY <1>2, <1>14, <1>22, <1>23, <2>1
  <2>3. isRightMostIAVL(left, p)
    BY <1>1, <2>2, GreatestRightmost
  <2>4. isLeftMostIAVL(right, q)
    BY <1>1, <2>2, SmallestLeftmost
  <2> QED BY <2>1, <2>3, <2>4
<1>25. isLeftStepIAVL(op, oq)
  BY <1>15, <1>20, OpPadding DEF isLeftStepIAVL
<1>26. /\ split # {}
       /\ isLeftStepIAVL(left[l - n], right[r - n])
       /\ isRightMostIAVL(left, l - n - 1)
       /\ isLeftMostIAVL(right, r - n - 1)
  BY <1>7, <1>13, <1>14, <1>24, <1>25
<1> QED BY <1>1, <1>4, <1>6, <1>8, <1>26 DEF isLeftNeighborIAVL

\* p is the existence proof of an entry with the key number k, as a neighbour.
Proves(p, k, t) ==
    /\ p \in NeighboursIn(t, IAVLTree) /\ p.spec = IAVLTree /\ RootOf(p) = t
    /\ p.key # << >> /\ p.key[2] = k
    /\ Len(p.path) \in Nat /\ \E f : Chain(f, p.path, t) /\ KeyNumber(f[0]) = k

LEMMA EntryProof ==
    ASSUME NEW t \in Trees, NEW e \in Entries(t)
    PROVE  \E p : Proves(p, e[1][2], t)
PROOF
<1>1. PICK x \in Leaves(t) : e = << KeyOf(x[1]), ValueOf(x[1]) >>
  BY DEF Entries
<1>2. PICK s, q, p : s = x[1] /\ q = ProofAt(x) /\ p = ExistenceProof(IAVLTree, q)
  OBVIOUS
<1>3. /\ RootOf(q) = t /\ Len(q.path) \in Nat /\ q.key = KeyOf(s)
      /\ \E f : Chain(f, q.path, t) /\ f[0] = s
  BY <1>2, LeafProof
<1>4. /\ p.spec = IAVLTree /\ p.prefix = q.prefix /\ p.key = q.key
      /\ p.value = q.value /\ p.path = q.path
  BY <1>2 DEF ExistenceProof
<1>5. RootOf(p) = t
  BY <1>3, <1>4 DEF RootOf
<1>6. s \in Forest /\ IsLeaf(s)
  <2>1. x \in Places(t) /\ IsLeaf(x[1])
    BY DEF Leaves
  <2> QED BY <1>2, <2>1, PathsOfPlaces
<1>7. KeyOf(s) = << "key", KeyOf(s)[2] >>
  BY <1>6, ForestWellFormed, LeafTokens
<1>8. p.key # << >>
  <2>1. PICK w, z : w = << "key", KeyOf(s)[2] >> /\ z = << >>
    OBVIOUS
  <2>2. Len(w) = 2 /\ Len(z) = 0
    BY <2>1
  <2>3. w # z
    BY <2>2
  <2>4. p.key = w
    BY <1>3, <1>4, <1>7, <2>1
  <2> QED BY <2>1, <2>3, <2>4
<1>9. p \in NeighboursIn(t, IAVLTree)
  BY <1>2 DEF ExistenceProofs, NeighboursIn
<1>10. e[1][2] = KeyNumber(s) /\ p.key[2] = KeyNumber(s)
  BY <1>1, <1>2, <1>3, <1>4 DEF KeyNumber
<1> QED BY <1>3, <1>4, <1>5, <1>8, <1>9, <1>10 DEF Proves

\* For every absent key there are neighbours, or one leaf at an end of the tree,
\* for which verifyNonMembershipIAVL computes the root.
LEMMA AbsenceShown ==
    ASSUME NEW t \in Trees, NEW k \in Nat, \A e \in Entries(t) : e[1] # Key(k)
    PROVE  \E l, r \in NeighboursIn(t, IAVLTree) :
              l.spec = IAVLTree /\ r.spec = IAVLTree /\ verifyNonMembershipIAVL(Key(k), l, r) = t
PROOF
<1>1. t \in Forest /\ Entries(t) # {}
  BY TreesInForest, EntriesExist
<1>2. \A e \in Entries(t) : e[1][2] \in Nat /\ (e[1][2] < k \/ k < e[1][2])
  <2> SUFFICES ASSUME NEW e \in Entries(t) PROVE e[1][2] \in Nat /\ e[1][2] # k
    OBVIOUS
  <2> QED BY <1>1, EntryKeys
<1>3. /\ Key(k)[2] = k /\ NilProof.key = << >> /\ NilProof.spec = IAVLTree
      /\ NilProof \in NeighboursIn(t, IAVLTree)
  BY DEF Key, NilProof, NeighboursIn
<1> DEFINE Lower == {e \in Entries(t) : e[1][2] < k}
           Upper == {e \in Entries(t) : k < e[1][2]}
<1>4. ASSUME Lower # {}
      PROVE  \E e \in Lower : \A d \in Lower : d[1][2] <= e[1][2]
  <2>1. PICK S : S = {k - d[1][2] : d \in Lower}
    OBVIOUS
  <2>2. S # {} /\ S \subseteq Nat
    <3>1. ASSUME NEW d \in Lower PROVE k - d[1][2] \in Nat
      <4>1. PICK j \in Nat : j = d[1][2] /\ j < k
        BY <1>2
      <4> QED BY <4>1
    <3>2. PICK d : d \in Lower
      BY <1>4
    <3>3. k - d[1][2] \in S
      BY <2>1, <3>2
    <3> QED BY <2>1, <3>1, <3>3
  <2>3. PICK z \in S : \A y \in S : z <= y
    BY <2>2, LeastNatural
  <2>4. PICK e \in Lower : z = k - e[1][2]
    BY <2>1, <2>3
  <2>5. ASSUME NEW d \in Lower PROVE d[1][2] <= e[1][2]
    <3>1. z <= k - d[1][2]
      BY <2>1, <2>3
    <3>2. d[1][2] \in Nat /\ e[1][2] \in Nat
      BY <1>2
    <3> QED BY <2>4, <3>1, <3>2
  <2> QED BY <2>5
<1>5. ASSUME Upper # {}
      PROVE  \E e \in Upper : \A d \in Upper : e[1][2] <= d[1][2]
  <2>1. PICK S : S = {d[1][2] : d \in Upper}
    OBVIOUS
  <2>2. S # {} /\ S \subseteq Nat
    BY <1>2, <1>5, <2>1
  <2>3. PICK z \in S : \A y \in S : z <= y
    BY <2>2, LeastNatural
  <2> QED BY <2>1, <2>3
<1>6. PICK key : key = Key(k)
  OBVIOUS
<1>7. CASE Lower = {}
  <2>1. Upper # {} /\ \A e \in Entries(t) : e \in Upper
    BY <1>1, <1>2, <1>7
  <2>2. PICK e \in Upper : \A d \in Upper : e[1][2] <= d[1][2]
    BY <1>5, <2>1
  <2>3. PICK p : Proves(p, e[1][2], t)
    BY <2>2, EntryProof
  <2>4. PICK path : path = p.path
    OBVIOUS
  <2>5. PICK f : Chain(f, path, t) /\ KeyNumber(f[0]) = e[1][2]
    BY <2>3, <2>4 DEF Proves
  <2>6. Len(path) \in Nat /\ Len(path) \in 0 .. Len(path) /\ f[Len(path)] = t
    BY <2>3, <2>4, <2>5 DEF Proves, Chain
  <2>7. \A d \in Entries(f[Len(path)]) : KeyNumber(f[0]) <= d[1][2]
    BY <2>1, <2>2, <2>5, <2>6
  <2>8. isLeftMostIAVL(path, Len(path))
    BY <2>5, <2>6, <2>7, SmallestLeftmost
  <2>9. /\ p.key # << >> /\ k < p.key[2] /\ RootOf(p) = t
        /\ p.spec = IAVLTree /\ p \in NeighboursIn(t, IAVLTree)
    BY <2>2, <2>3 DEF Proves
  <2>10. ensureKeysInValidRange(NilProof.key, key, p.key)
    BY <1>3, <1>6, <2>9 DEF ensureKeysInValidRange
  <2>11. verifyNonMembershipIAVL(key, NilProof, p) = t
    BY <1>3, <2>4, <2>8, <2>9, <2>10 DEF verifyNonMembershipIAVL
  <2> QED BY <1>3, <1>6, <2>9, <2>11
<1>8. CASE Upper = {}
  <2>1. Lower # {} /\ \A e \in Entries(t) : e \in Lower
    BY <1>1, <1>2, <1>8
  <2>2. PICK e \in Lower : \A d \in Lower : d[1][2] <= e[1][2]
    BY <1>4, <2>1
  <2>3. PICK p : Proves(p, e[1][2], t)
    BY <2>2, EntryProof
  <2>4. PICK path : path = p.path
    OBVIOUS
  <2>5. PICK f : Chain(f, path, t) /\ KeyNumber(f[0]) = e[1][2]
    BY <2>3, <2>4 DEF Proves
  <2>6. Len(path) \in Nat /\ Len(path) \in 0 .. Len(path) /\ f[Len(path)] = t
    BY <2>3, <2>4, <2>5 DEF Proves, Chain
  <2>7. \A d \in Entries(f[Len(path)]) : d[1][2] <= KeyNumber(f[0])
    BY <2>1, <2>2, <2>5, <2>6
  <2>8. isRightMostIAVL(path, Len(path))
    BY <2>5, <2>6, <2>7, GreatestRightmost
  <2>9. /\ p.key # << >> /\ p.key[2] < k /\ RootOf(p) = t
        /\ p.spec = IAVLTree /\ p \in NeighboursIn(t, IAVLTree)
    BY <2>2, <2>3 DEF Proves
  <2>10. ensureKeysInValidRange(p.key, key, NilProof.key)
    BY <1>3, <1>6, <2>9 DEF ensureKeysInValidRange
  <2>11. verifyNonMembershipIAVL(key, p, NilProof) = t
    BY <1>3, <2>4, <2>8, <2>9, <2>10 DEF verifyNonMembershipIAVL
  <2> QED BY <1>3, <1>6, <2>9, <2>11
<1>9. CASE Lower # {} /\ Upper # {}
  <2>1. PICK e \in Lower : \A c \in Lower : c[1][2] <= e[1][2]
    BY <1>4, <1>9
  <2>2. PICK d \in Upper : \A c \in Upper : d[1][2] <= c[1][2]
    BY <1>5, <1>9
  <2>3. PICK p : Proves(p, e[1][2], t)
    BY <2>1, EntryProof
  <2>4. PICK q : Proves(q, d[1][2], t)
    BY <2>2, EntryProof
  <2>5. PICK left, right : left = p.path /\ right = q.path
    OBVIOUS
  <2>6. PICK f : Chain(f, left, t) /\ KeyNumber(f[0]) = e[1][2]
    BY <2>3, <2>5 DEF Proves
  <2>7. PICK g : Chain(g, right, t) /\ KeyNumber(g[0]) = d[1][2]
    BY <2>4, <2>5 DEF Proves
  <2>8. Len(left) \in Nat /\ Len(right) \in Nat
    BY <2>3, <2>4, <2>5 DEF Proves
  <2>9. e[1][2] \in Nat /\ d[1][2] \in Nat /\ e[1][2] < k /\ k < d[1][2]
    BY <1>2, <2>1, <2>2
  <2>10. KeyNumber(f[0]) < KeyNumber(g[0])
    BY <2>6, <2>7, <2>9
  <2>11. \A c \in Entries(t) : c \in Lower \/ c \in Upper
    BY <1>2
  <2>12. \A c \in Entries(t) : c[1][2] <= KeyNumber(f[0]) \/ KeyNumber(g[0]) <= c[1][2]
    BY <2>1, <2>2, <2>6, <2>7, <2>11
  <2>13. isLeftNeighborIAVL(left, right)
    BY <2>6, <2>7, <2>8, <2>10, <2>12, AdjacentLeaves
  <2>14. /\ p.key # << >> /\ p.key[2] < k /\ RootOf(p) = t
         /\ q.key # << >> /\ k < q.key[2] /\ RootOf(q) = t
         /\ p.spec = IAVLTree /\ q.spec = IAVLTree
    BY <2>3, <2>4, <2>9 DEF Proves
  <2>15. ensureKeysInValidRange(p.key, key, q.key)
    BY <1>3, <1>6, <2>14 DEF ensureKeysInValidRange
  <2>16. verifyNonMembershipIAVL(key, p, q) = t
    BY <2>5, <2>13, <2>14, <2>15 DEF verifyNonMembershipIAVL
  <2>17. p \in NeighboursIn(t, IAVLTree) /\ q \in NeighboursIn(t, IAVLTree)
    BY <2>3, <2>4 DEF Proves
  <2> QED BY <1>6, <2>14, <2>16, <2>17
<1> QED BY <1>7, <1>8, <1>9

\* Every key that was not in the store before a known header's block can be shown
\* to verifyNonMembership to be absent, however the tree of the store has grown.
THEOREM AbsenceProvable == Spec => []NonMembershipComplete
PROOF
<1>1. IInv => NonMembershipComplete
  <2> SUFFICES ASSUME IInv, NEW h \in Known, NEW k \in Keys,
                      \A e \in EntriesAt(h) : e[1] # Key(k)
               PROVE  \E l, r \in NeighboursIn(trees[h - 1], IAVLTree) :
                         verifyNonMembership(h, Key(k), l, r, StoreProofAt(h), Key(k))
    BY DEF NonMembershipComplete
  <2>1. PICK t \in Trees : t = trees[h - 1] /\ stored[h] = AppHash(t)
    BY KnownHeader
  <2>2. \A e \in Entries(t) : e[1] # Key(k)
    BY <2>1 DEF EntriesAt
  <2>3. k \in Nat
    BY MetadataAssumption
  <2>4. PICK l \in NeighboursIn(t, IAVLTree), r \in NeighboursIn(t, IAVLTree) :
           l.spec = IAVLTree /\ r.spec = IAVLTree /\ verifyNonMembershipIAVL(Key(k), l, r) = t
    BY <2>2, <2>3, AbsenceShown
  <2>5. t # Reverts
    BY TreesInForest, TreeTokens DEF Reverts
  <2>6. verifyMembershipTendermintSpec(StoreProof.prefix, Key("ibc"), << t >>,
                                       StoreProof.path) = stored[h]
    BY <2>1, StoreProofHolds
  <2>7. PICK p1 : p1 = StoreProofAt(h)
    OBVIOUS
  <2>8. /\ p1.key = Key("ibc") /\ p1.prefix = StoreProof.prefix
        /\ p1.path = StoreProof.path /\ p1.spec = SimpleTree
    BY <2>7 DEF StoreProofAt, buildExistenceProofSimpleTree, ExistenceProof, StoreProofOf,
                StoreProof
  <2>9. Decodes(l) /\ Decodes(r) /\ Decodes(p1)
    BY <2>4, <2>8 DEF Decodes, ProofSpecs, IAVLTree, SimpleTree
  <2>10. PICK key : key = Key(k)
    OBVIOUS
  <2>11. verifyNonMembership(h, key, l, r, p1, key)
    BY <2>4, <2>5, <2>6, <2>8, <2>9, <2>10 DEF verifyNonMembership
  <2> QED BY <2>1, <2>7, <2>10, <2>11
<1> QED BY Invariance, <1>1, PTL

-----------------------------------------------------------------------------
(* What the relayer checks and what the contract checks *)

\* The steps that ics23 accepts for an IAVL tree are those the contract accepts: its
\* height is the true one, the contract's twice that.
LEMMA OpsAgree ==
    ASSUME NEW prefix, NEW n \in Nat, ValidateIavlOps(prefix, n)
    PROVE  validateIAVLOps(prefix, n)
PROOF
<1>1. PICK m : m = prefix[1][2]
  OBVIOUS
<1>2. m \in Nat /\ m >= n
  BY <1>1 DEF ValidateIavlOps
<1>3. 2 * m >= n
  BY <1>2
<1>4. DecodedHeight(prefix) >= n
  BY <1>1, <1>3 DEF DecodedHeight
<1> QED BY <1>4 DEF ValidateIavlOps, validateIAVLOps

\* An existence proof that passes ics23's check against the IAVL spec passes
\* verifyMembershipIAVLSpec, which computes the root that ics23 computes.
LEMMA IavlChecksAgree ==
    ASSUME NEW e, CheckAgainstSpec(e, IavlSpec)
    PROVE  verifyMembershipIAVLSpec(e.prefix, e.key, e.value, e.path) = Calculate(e)
PROOF
<1>1. PICK prefix, path : prefix = e.prefix /\ path = e.path
  OBVIOUS
<1>2. IavlSpec.minPrefix = 4 /\ IavlSpec.maxPrefix = 45 /\ IavlSpec.childSize = 33
  BY DEF IavlSpec
<1>3. /\ HasLeafPrefix(prefix) /\ ValidateIavlOps(prefix, 0)
      /\ \A i \in 1 .. Len(path) :
            /\ ValidateIavlOps(path[i].prefix, i)
            /\ Length(path[i].prefix) \in 4 .. 45
            /\ Length(path[i].suffix) % 33 = 0
  BY <1>1, <1>2 DEF CheckAgainstSpec
<1>4. LeafPrefix(prefix)
  <2>1. PICK m : m = prefix[1][2]
    OBVIOUS
  <2>2. m = 0
    BY <1>3, <2>1 DEF HasLeafPrefix
  <2> QED BY <2>1, <2>2 DEF LeafPrefix, DecodedHeight
<1>5. validateIAVLOps(prefix, 0)
  <2>1. PICK n \in Nat : n = 0
    OBVIOUS
  <2>2. validateIAVLOps(prefix, n)
    BY <1>3, <2>1, OpsAgree
  <2> QED BY <2>1, <2>2
<1>6. ASSUME NEW i \in 1 .. Len(path) PROVE validateIAVLOps(path[i].prefix, i)
  <2>1. PICK q : q = path[i].prefix
    OBVIOUS
  <2>2. i \in Nat /\ ValidateIavlOps(q, i)
    BY <1>3, <2>1
  <2> QED BY <2>1, <2>2, OpsAgree
<1>7. verifyMembershipIAVLSpec(prefix, e.key, e.value, path)
        = ApplyPath(prefix \o LeafData(e.key, e.value), path)
  BY <1>3, <1>4, <1>5, <1>6 DEF verifyMembershipIAVLSpec
<1> QED BY <1>1, <1>7 DEF Calculate

\* The proof of a store's root passes the contract's check, which computes what ics23
\* computes: the app hash.
LEMMA StoreChecksAgree ==
    ASSUME NEW root
    PROVE  /\ verifyMembershipTendermintSpec(StoreProof.prefix, Key("ibc"), << root >>,
                                             StoreProof.path) = Calculate(StoreProofOf(root))
           /\ Calculate(StoreProofOf(root)) = AppHash(root)
PROOF
<1>1. PICK s : s = StoreProofOf(root)
  OBVIOUS
<1>2. /\ s.prefix = StoreProof.prefix /\ s.key = Key("ibc") /\ s.value = << root >>
      /\ s.path = StoreProof.path
  BY <1>1 DEF StoreProofOf, StoreProof
<1>3. verifyMembershipTendermintSpec(s.prefix, s.key, s.value, s.path) = AppHash(root)
  BY <1>2, StoreProofHolds
<1>4. AppHash(root) # Reverts
  BY DEF AppHash, Sha256, Reverts
<1>5. Calculate(s) = AppHash(root)
  BY <1>3, <1>4 DEF Calculate, verifyMembershipTendermintSpec
<1> QED BY <1>1, <1>2, <1>3, <1>5

\* What passed ibc-go's check in ProveState (go/relay/prover.go) passes the
\* contract's verifyMembership at the header that was asked for, however the chain
\* goes on and whatever the node answered, and at the height ProveState returned, if
\* the node answered from the state it said.
THEOREM ReturnedProofsConvince == Spec => []ReturnedProofAccepted
PROOF
<1>1. IInv => ReturnedProofAccepted
  <2> SUFFICES ASSUME IInv, proof # NoProof, NEW h \in Known,
                      h = proof.asked \/ (h = proof.height /\ proof.ofState)
               PROVE  verifyMembership(h, proof.proof0, proof.proof1,
                                       Key(proof.key), << Value(proof.value) >>)
    BY DEF ReturnedProofAccepted
  <2>1. PICK e, root : root \in Trees /\ Checked(proof, e, root, trees[proof.height - 1])
    BY DEF IInv, ProofInv
  <2>2. PICK store : store = StoreProofOf(root)
    OBVIOUS
  <2>3. VerifyMembership(e, store, HeaderAppHash(proof.asked), Key(proof.key),
                         << Value(proof.value) >>)
    BY <2>1, <2>2 DEF Checked, Verified
  <2>4. e.key = Key(proof.key) /\ e.value = << Value(proof.value) >>
        /\ store.value = << Calculate(e) >> /\ Calculate(store) = HeaderAppHash(proof.asked)
    BY <2>3 DEF VerifyMembership
  <2>5. verifyMembershipIAVLSpec(e.prefix, e.key, e.value, e.path) = Calculate(e)
    BY <2>3, IavlChecksAgree DEF VerifyMembership
  <2>6. Calculate(e) = root
    <3>1. store.value = << root >>
      BY <2>2 DEF StoreProofOf
    <3> QED BY <2>4, <3>1
  <2>7. AppHash(root) = HeaderAppHash(proof.asked)
    BY <2>2, <2>4, StoreChecksAgree
  <2>8. stored[h] = AppHash(root)
    <3>1. stored[h] = AppHash(trees[h - 1])
      BY KnownHeader
    <3>2. CASE h = proof.asked
      BY <2>7, <3>1, <3>2 DEF HeaderAppHash
    <3>3. CASE h = proof.height /\ proof.ofState
      <4>1. PICK t \in Trees : t = trees[h - 1]
        BY KnownHeader
      <4>2. e \in ExistenceProofs(t)
        BY <2>1, <3>3, <4>1 DEF Checked
      <4>3. PICK x \in Leaves(t) : e = ProofAt(x)
        BY <4>2 DEF ExistenceProofs
      <4>4. RootOf(e) = t
        BY <4>3, LeafProof
      <4>5. t = root
        BY <2>5, <2>6, <4>4 DEF RootOf
      <4> QED BY <3>1, <4>1, <4>5
    <3> QED BY <3>2, <3>3
  <2>9. root # Reverts
    BY <2>1, TreesInForest, TreeTokens DEF Reverts
  <2>10. PICK p0, p1 : p0 = proof.proof0 /\ p1 = proof.proof1
    OBVIOUS
  <2>11. p0.spec = IAVLSpec /\ p0.prefix = e.prefix /\ p0.path = e.path
    BY <2>1, <2>10 DEF Checked, buildExistenceProofIAVL, ExistenceProof
  <2>12. /\ p1.spec = SimpleTree /\ p1.prefix = StoreProof.prefix
         /\ p1.path = StoreProof.path
    BY <2>1, <2>10 DEF Checked, buildExistenceProofSimpleTree, ExistenceProof, StoreProofOf
  <2>13. verifyMembershipIAVLSpec(p0.prefix, Key(proof.key), << Value(proof.value) >>,
                                  p0.path) = root
    BY <2>4, <2>5, <2>6, <2>11
  <2>14. verifyMembershipTendermintSpec(p1.prefix, Key("ibc"), << root >>, p1.path)
           = stored[h]
    BY <2>8, <2>12, StoreChecksAgree
  <2>15. Decodes(p0) /\ Decodes(p1)
    BY <2>11, <2>12 DEF Decodes, ProofSpecs, IAVLSpec, SimpleTree
  <2> QED BY <2>9, <2>10, <2>13, <2>14, <2>15 DEF verifyMembership
<1> QED BY Invariance, <1>1, PTL

=============================================================================
