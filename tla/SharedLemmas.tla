---------------------------- MODULE SharedLemmas ----------------------------
(***************************************************************************)
(* Lemmas that the proofs of several components need: induction on the      *)
(* natural numbers, in terms of sets, division, and queues in which nobody  *)
(* waits twice (what joining at the end, being admitted from the front and  *)
(* leaving from the middle do to them).                                     *)
(***************************************************************************)
EXTENDS Integers, SequencesExt, SequenceTheorems, WellFoundedInduction, TLAPS

-----------------------------------------------------------------------------
(* Induction *)

\* A set of natural numbers that is not empty has a least element.
LEMMA LeastNatural ==
    ASSUME NEW T, T \subseteq Nat, T # {}
    PROVE  \E x \in T : \A y \in T : x <= y
  <1> DEFINE R == {p \in Nat \X Nat : p[1] < p[2]}
  <1>1. IsWellFoundedOn(R, Nat)
    BY NatLessThanWellFounded DEF OpToRel
  <1>2. \A x, y \in Nat : << y, x >> \in R <=> y < x
    OBVIOUS
  <1> HIDE DEF R
  <1>3. PICK x \in T : \A y \in T : ~(<< y, x >> \in R)
    BY <1>1, WFMin
  <1>4. \A y \in T : ~(y < x)
    BY <1>2, <1>3
  <1> QED BY <1>4

\* Induction over the numbers up to a bound.
LEMMA InductionUpTo ==
    ASSUME NEW n \in Nat, NEW T, 0 \in T, \A k \in 0 .. n - 1 : k \in T => k + 1 \in T
    PROVE  0 .. n \subseteq T
  <1> DEFINE U == {k \in 0 .. n : k \notin T}
  <1> SUFFICES ASSUME U # {} PROVE FALSE
    OBVIOUS
  <1>1. PICK x \in U : \A y \in U : x <= y
    <2>1. U \subseteq Nat OBVIOUS
    <2> QED BY <2>1, LeastNatural
  <1>2. x # 0 /\ x - 1 \in 0 .. n - 1
    OBVIOUS
  <1>3. x - 1 \notin U
    BY <1>1, <1>2
  <1> QED BY <1>1, <1>2, <1>3

-----------------------------------------------------------------------------
(* Division *)

\* The quotient and the remainder are the only numbers that divide.
LEMMA DivisionUnique ==
    ASSUME NEW d \in Nat \ {0}, NEW q \in Int, NEW s \in 0 .. d - 1,
           NEW n \in Int, n = q * d + s
    PROVE  n \div d = q /\ n % d = s
PROOF
<1>1. PICK u \in Int, v \in 0 .. d - 1 : n = u * d + v /\ u = n \div d /\ v = n % d
  OBVIOUS
<1>2. (u - q) * d = s - v
  BY <1>1
<1>3. u = q
  <2>1. CASE u > q
    <3>1. PICK e \in Nat : u - q = e + 1
      BY <2>1
    <3>2. PICK p \in Nat : p = e * d
      OBVIOUS
    <3>3. (e + 1) * d = p + d
      BY <3>2
    <3> QED BY <1>2, <3>1, <3>2, <3>3
  <2>2. CASE u < q
    <3>1. PICK e \in Nat : q - u = e + 1
      BY <2>2
    <3>2. PICK p \in Nat : p = e * d
      OBVIOUS
    <3>3. (q - u) * d = v - s
      BY <1>1
    <3>4. (e + 1) * d = p + d
      BY <3>2
    <3> QED BY <3>1, <3>2, <3>3, <3>4
  <2> QED BY <2>1, <2>2
<1> QED BY <1>1, <1>3

\* Dividing twice is dividing by the product.
LEMMA DivideTwice ==
    ASSUME NEW n \in Nat, NEW d \in Nat \ {0}, NEW b \in Nat \ {0}
    PROVE  /\ (n \div d) \div b = n \div (b * d)
           /\ \E s \in 0 .. b - 1 : /\ s = (n \div d) % b
                                   /\ n \div d = (n \div (b * d)) * b + s
PROOF
<1>1. PICK q \in Nat, r \in 0 .. d - 1 : n = q * d + r /\ q = n \div d
  OBVIOUS
<1>2. PICK p \in Nat, s \in 0 .. b - 1 : q = p * b + s /\ p = q \div b /\ s = q % b
  OBVIOUS
<1>3. b * d \in Nat \ {0}
  OBVIOUS
<1>4. PICK t : t = s * d + r
  OBVIOUS
<1>5. t \in 0 .. b * d - 1
  <2>1. PICK x \in Nat : x = s * d
    OBVIOUS
  <2>2. PICK e \in Nat : b - 1 - s = e
    OBVIOUS
  <2>3. PICK y \in Nat : y = e * d
    OBVIOUS
  <2>4. b * d = x + y + d
    BY <2>1, <2>2, <2>3
  <2> QED BY <1>4, <2>1, <2>3, <2>4
<1>6. n = p * (b * d) + t
  <2>1. PICK y \in Nat : y = p * b
    OBVIOUS
  <2>2. (y + s) * d = y * d + s * d
    BY <2>1
  <2>3. y * d = p * (b * d)
    BY <2>1
  <2>4. q = y + s
    BY <1>2, <2>1
  <2>5. PICK u \in Nat, v \in Nat : u = y * d /\ v = s * d
    OBVIOUS
  <2>6. q * d = u + v
    BY <2>2, <2>4, <2>5
  <2>7. n = u + t /\ u = p * (b * d)
    BY <1>1, <1>4, <2>3, <2>5, <2>6
  <2> QED BY <2>7
<1>7. n \div (b * d) = p
  BY <1>3, <1>5, <1>6, DivisionUnique
<1>8. q \div b = p /\ q % b = s
  BY <1>2
<1> QED BY <1>1, <1>2, <1>7, <1>8

-----------------------------------------------------------------------------
(* Queues *)

\* Nobody is in the queue twice.
Distinct(q) == \A i, j \in 1 .. Len(q) : q[i] = q[j] => i = j

Holds(q, x) == \E i \in 1 .. Len(q) : q[i] = x

\* The queue r is q without the element at k.
LeavesAt(q, k, r) ==
    /\ Len(r) = Len(q) - 1
    /\ \A i \in 1 .. Len(r) : r[i] = IF i < k THEN q[i] ELSE q[i + 1]

-----------------------------------------------------------------------------
\* Taking the head of a queue is leaving at its first place.
LEMMA TailLeaves ==
    ASSUME NEW S, NEW q \in Seq(S), q # << >>
    PROVE  /\ Tail(q) \in Seq(S)
           /\ Head(q) = q[1]
           /\ 1 \in 1 .. Len(q)
           /\ LeavesAt(q, 1, Tail(q))
  <1>1. /\ Tail(q) \in Seq(S)
        /\ Len(Tail(q)) = Len(q) - 1
        /\ \A i \in 1 .. Len(Tail(q)) : Tail(q)[i] = q[i + 1]
    BY HeadTailProperties
  <1>2. Len(q) \in Nat \ {0}
    BY EmptySeq
  <1>3. \A i \in 1 .. Len(Tail(q)) : ~(i < 1)
    BY <1>1, <1>2
  <1> QED BY <1>1, <1>2, <1>3 DEF LeavesAt

\* RemoveAt leaves the others in their order.
LEMMA RemoveAtLeaves ==
    ASSUME NEW S, NEW q \in Seq(S), NEW k \in 1 .. Len(q)
    PROVE  RemoveAt(q, k) \in Seq(S) /\ LeavesAt(q, k, RemoveAt(q, k))
  <1> DEFINE a == SubSeq(q, 1, k - 1)
             b == SubSeq(q, k + 1, Len(q))
  <1>1. Len(q) \in Nat /\ \A i \in 1 .. Len(q) : q[i] \in S
    BY LenProperties, ElementOfSeq
  <1>2. /\ a \in Seq(S)
        /\ Len(a) = k - 1
        /\ \A i \in 1 .. k - 1 : a[i] = q[i]
    <2>1. \A i \in 1 .. k - 1 : q[i] \in S
      BY <1>1
    <2>2. /\ a \in Seq(S)
          /\ Len(a) = IF 1 <= k - 1 THEN k - 1 - 1 + 1 ELSE 0
          /\ \A i \in 1 .. k - 1 - 1 + 1 : a[i] = q[1 + i - 1]
      BY <1>1, <2>1, SubSeqProperties
    <2> HIDE DEF a
    <2> QED BY <1>1, <2>2
  <1>3. /\ b \in Seq(S)
        /\ Len(b) = Len(q) - k
        /\ \A i \in 1 .. Len(q) - k : b[i] = q[k + i]
    <2>1. \A i \in k + 1 .. Len(q) : q[i] \in S
      BY <1>1
    <2>2. /\ b \in Seq(S)
          /\ Len(b) = IF k + 1 <= Len(q) THEN Len(q) - (k + 1) + 1 ELSE 0
          /\ \A i \in 1 .. Len(q) - (k + 1) + 1 : b[i] = q[k + 1 + i - 1]
      BY <1>1, <2>1, SubSeqProperties
    <2> HIDE DEF b
    <2> QED BY <1>1, <2>2
  <1> HIDE DEF a, b
  <1>4. /\ a \o b \in Seq(S)
        /\ Len(a \o b) = Len(a) + Len(b)
        /\ \A i \in 1 .. Len(a) + Len(b) :
              (a \o b)[i] = IF i <= Len(a) THEN a[i] ELSE b[i - Len(a)]
    BY <1>2, <1>3, ConcatProperties
  <1>5. Len(a \o b) = Len(q) - 1
    BY <1>1, <1>2, <1>3, <1>4
  <1>6. ASSUME NEW i \in 1 .. Len(q) - 1
        PROVE  (a \o b)[i] = IF i < k THEN q[i] ELSE q[i + 1]
    <2>1. (a \o b)[i] = IF i <= k - 1 THEN a[i] ELSE b[i - (k - 1)]
      BY <1>1, <1>2, <1>3, <1>4
    <2>2. CASE i < k
      <3>1. i \in 1 .. k - 1 BY <2>2
      <3> QED BY <1>2, <2>1, <2>2, <3>1
    <2>3. CASE ~(i < k)
      <3>1. i - (k - 1) \in 1 .. Len(q) - k /\ k + (i - (k - 1)) = i + 1
        BY <1>1, <2>3
      <3>2. b[i - (k - 1)] = q[k + (i - (k - 1))]
        BY <1>3, <3>1
      <3> QED BY <2>1, <2>3, <3>1, <3>2
    <2> QED BY <2>2, <2>3
  <1>7. RemoveAt(q, k) = a \o b
    BY DEF RemoveAt, a, b
  <1> QED BY <1>4, <1>5, <1>6, <1>7 DEF LeavesAt

\* Whoever leaves a queue is gone from it, and nobody else is.
LEMMA LeavesKeeps ==
    ASSUME NEW S, NEW q \in Seq(S), NEW k \in 1 .. Len(q), NEW r \in Seq(S),
           Distinct(q), LeavesAt(q, k, r)
    PROVE  /\ Distinct(r)
           /\ \A x : Holds(r, x) <=> Holds(q, x) /\ x # q[k]
  <1>1. Len(q) \in Nat /\ Len(r) = Len(q) - 1
    BY LenProperties DEF LeavesAt
  <1> DEFINE at(i) == IF i < k THEN i ELSE i + 1
  <1>2. \A i \in 1 .. Len(r) : at(i) \in 1 .. Len(q) /\ at(i) # k /\ r[i] = q[at(i)]
    BY <1>1 DEF LeavesAt
  <1>3. \A i, j \in 1 .. Len(r) : at(i) = at(j) => i = j
    BY <1>1
  <1>4. \A j \in 1 .. Len(q) : j # k => \E i \in 1 .. Len(r) : at(i) = j
    <2> SUFFICES ASSUME NEW j \in 1 .. Len(q), j # k
                 PROVE  \E i \in 1 .. Len(r) : at(i) = j
      OBVIOUS
    <2>1. CASE j < k
      <3>1. j \in 1 .. Len(r) /\ at(j) = j BY <1>1, <2>1
      <3> QED BY <3>1
    <2>2. CASE j > k
      <3>1. j - 1 \in 1 .. Len(r) /\ at(j - 1) = j BY <1>1, <2>2
      <3> QED BY <3>1
    <2> QED BY <1>1, <2>1, <2>2
  <1> HIDE DEF at
  <1>5. Distinct(r)
    <2> SUFFICES ASSUME NEW i \in 1 .. Len(r), NEW j \in 1 .. Len(r), r[i] = r[j]
                 PROVE  i = j
      BY DEF Distinct
    <2>1. q[at(i)] = q[at(j)] BY <1>2
    <2>2. at(i) = at(j) BY <1>2, <2>1 DEF Distinct
    <2> QED BY <1>3, <2>2
  <1>6. ASSUME NEW x PROVE Holds(r, x) <=> Holds(q, x) /\ x # q[k]
    <2>1. Holds(r, x) => Holds(q, x) /\ x # q[k]
      <3> SUFFICES ASSUME NEW i \in 1 .. Len(r), r[i] = x
                   PROVE  Holds(q, x) /\ x # q[k]
        BY DEF Holds
      <3> QED BY <1>2 DEF Holds, Distinct
    <2>2. Holds(q, x) /\ x # q[k] => Holds(r, x)
      <3> SUFFICES ASSUME NEW j \in 1 .. Len(q), q[j] = x, x # q[k]
                   PROVE  Holds(r, x)
        BY DEF Holds
      <3>1. PICK i \in 1 .. Len(r) : at(i) = j BY <1>4
      <3> QED BY <1>2, <3>1 DEF Holds
    <2> QED BY <2>1, <2>2
  <1> QED BY <1>5, <1>6

\* Whoever joins is in the queue, at its end, and nobody else is new.
LEMMA AppendKeeps ==
    ASSUME NEW S, NEW q \in Seq(S), NEW e \in S, Distinct(q), ~Holds(q, e)
    PROVE  /\ Append(q, e) \in Seq(S)
           /\ Len(Append(q, e)) = Len(q) + 1
           /\ \A i \in 1 .. Len(q) : Append(q, e)[i] = q[i]
           /\ Append(q, e)[Len(q) + 1] = e
           /\ Distinct(Append(q, e))
           /\ \A x : Holds(Append(q, e), x) <=> Holds(q, x) \/ x = e
  <1> DEFINE r == Append(q, e)
  <1>1. /\ r \in Seq(S)
        /\ Len(r) = Len(q) + 1
        /\ \A i \in 1 .. Len(q) : r[i] = q[i]
        /\ r[Len(q) + 1] = e
    BY AppendProperties
  <1>2. Len(q) \in Nat
    BY LenProperties
  <1> HIDE DEF r
  <1>3. \A i \in 1 .. Len(r) : i \in 1 .. Len(q) \/ i = Len(q) + 1
    BY <1>1, <1>2
  <1>4. Distinct(r)
    <2> SUFFICES ASSUME NEW i \in 1 .. Len(r), NEW j \in 1 .. Len(r), r[i] = r[j]
                 PROVE  i = j
      BY DEF Distinct
    <2>1. CASE i \in 1 .. Len(q) /\ j \in 1 .. Len(q)
      BY <1>1, <2>1 DEF Distinct
    <2>2. CASE ~(i \in 1 .. Len(q) /\ j \in 1 .. Len(q))
      BY <1>1, <1>3, <2>2 DEF Holds
    <2> QED BY <2>1, <2>2
  <1>5. ASSUME NEW x PROVE Holds(r, x) <=> Holds(q, x) \/ x = e
    <2>1. Holds(r, x) => Holds(q, x) \/ x = e
      BY <1>1, <1>3 DEF Holds
    <2>2. Holds(q, x) => Holds(r, x)
      BY <1>1, <1>2 DEF Holds
    <2>3. Holds(r, e)
      <3>1. Len(q) + 1 \in 1 .. Len(r) BY <1>1, <1>2
      <3> QED BY <1>1, <3>1 DEF Holds
    <2> QED BY <2>1, <2>2, <2>3
  <1> QED BY <1>1, <1>4, <1>5 DEF r

=============================================================================
