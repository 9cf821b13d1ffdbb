------------------------- MODULE ProofClientProofs -------------------------
(***************************************************************************)
(* Proofs about ProofClient, for field elements of any length in any base,  *)
(* any proofs and any configuration.                                        *)
(***************************************************************************)
EXTENDS ProofClient, SharedLemmas

-----------------------------------------------------------------------------
(* Numbers and bytes *)

Sizes == 0 .. FpSize + CountSize
Digits == 0 .. Base - 1

LEMMA BaseFacts ==
    /\ Base \in Nat \ {0} /\ Base > 1 /\ FpSize \in Nat \ {0} /\ CountSize \in Nat \ {0}
    /\ FpSize \in Sizes /\ CountSize \in Sizes
    /\ Base ^ 0 = 1
    /\ \A k \in Sizes : Base ^ k \in Nat \ {0} /\ Base ^ (k + 1) = Base * Base ^ k
PROOF
BY ProofClientAssumption, PowersOfBase DEF Sizes

LEMMA BaseInNat == Base \in Nat \ {0}
PROOF
BY BaseFacts

\* Bytes are digits, as many as were asked for.
LEMMA BytesType ==
    ASSUME NEW size \in Sizes, NEW n \in Nat
    PROVE  /\ Bytes(n, size) \in [1 .. size -> Digits]
           /\ Bytes(n, size) \in Seq(Digits)
           /\ Len(Bytes(n, size)) = size
PROOF
<1>1. Bytes(n, size) \in [1 .. size -> Digits]
  <2> SUFFICES ASSUME NEW i \in 1 .. size
               PROVE  (n \div Base ^ (size - i)) % Base \in Digits
    BY DEF Bytes
  <2>1. size - i \in Sizes
    BY BaseFacts DEF Sizes
  <2>2. PICK d \in Nat \ {0} : d = Base ^ (size - i)
    BY <2>1, BaseFacts
  <2>3. PICK q \in Nat : q = n \div d
    OBVIOUS
  <2>4. q % Base \in Digits
    BY BaseFacts DEF Digits
  <2> QED BY <2>2, <2>3, <2>4
<1>2. size \in Nat
  BY BaseFacts DEF Sizes
<1> QED BY <1>1, <1>2, SeqDef

\* Different numbers have different bytes.
LEMMA BytesInjective ==
    ASSUME NEW size \in Sizes, NEW n \in 0 .. Base ^ size - 1,
           NEW m \in 0 .. Base ^ size - 1, Bytes(n, size) = Bytes(m, size)
    PROVE  n = m
PROOF
<1> DEFINE T == {k \in 0 .. size : n \div Base ^ (size - k) = m \div Base ^ (size - k)}
<1>1. size \in Nat /\ n \in Nat /\ m \in Nat
  BY BaseFacts DEF Sizes
<1>2. 0 \in T
  <2>1. PICK d \in Nat \ {0} : d = Base ^ size
    BY BaseFacts
  <2>2. n = 0 * d + n /\ m = 0 * d + m /\ n \in 0 .. d - 1 /\ m \in 0 .. d - 1
    BY <2>1, <1>1
  <2>3. n \div d = 0 /\ m \div d = 0
    BY <2>2, DivisionUnique
  <2> QED BY <1>1, <2>1, <2>3
<1>3. ASSUME NEW k \in 0 .. size - 1, k \in T
      PROVE  k + 1 \in T
  <2>1. size - (k + 1) \in Sizes /\ size - k = (size - (k + 1)) + 1 /\ k + 1 \in 1 .. size
    BY <1>1, BaseFacts DEF Sizes
  <2>2. PICK d \in Nat \ {0} : d = Base ^ (size - (k + 1)) /\ Base ^ (size - k) = Base * d
    BY <2>1, BaseFacts
  <2>3. n \div (Base * d) = m \div (Base * d)
    BY <1>3, <2>2
  <2>4. (n \div d) % Base = (m \div d) % Base
    <3>1. /\ Bytes(n, size)[k + 1] = (n \div Base ^ (size - (k + 1))) % Base
          /\ Bytes(m, size)[k + 1] = (m \div Base ^ (size - (k + 1))) % Base
      BY <2>1 DEF Bytes
    <3> QED BY <2>2, <3>1
  <2>5. PICK s \in 0 .. Base - 1 :
            s = (n \div d) % Base /\ n \div d = (n \div (Base * d)) * Base + s
    BY <1>1, BaseInNat, DivideTwice, Zenon
  <2>6. PICK t \in 0 .. Base - 1 :
            t = (m \div d) % Base /\ m \div d = (m \div (Base * d)) * Base + t
    BY <1>1, BaseInNat, DivideTwice, Zenon
  <2>7. n \div d = m \div d
    BY <2>3, <2>4, <2>5, <2>6
  <2> QED BY <1>1, <2>1, <2>2, <2>7
<1>4. size \in T
  <2> HIDE DEF T
  <2>1. 0 .. size \subseteq T
    BY <1>1, <1>2, <1>3, InductionUpTo
  <2> QED BY <1>1, <2>1
<1>5. n \div 1 = m \div 1
  <2>1. size - size = 0
    BY <1>1
  <2> QED BY <1>4, <2>1, BaseFacts
<1> QED BY <1>1, <1>5

\* Every string of digits is that of a number.
LEMMA BytesOnto ==
    ASSUME NEW size \in Sizes, NEW b \in [1 .. size -> Digits]
    PROVE  \E n \in 0 .. Base ^ size - 1 : Bytes(n, size) = b
PROOF
<1> DEFINE Has(k, n) == \A i \in 1 .. k : (n \div Base ^ (k - i)) % Base = b[i]
           T == {k \in 0 .. size : \E n \in 0 .. Base ^ k - 1 : Has(k, n)}
<1>1. size \in Nat /\ \A k \in 0 .. size : k \in Sizes
  BY BaseFacts DEF Sizes
<1>2. 0 \in T
  <2>1. 0 \in 0 .. Base ^ 0 - 1 /\ Has(0, 0)
    BY BaseFacts
  <2> QED BY <1>1, <2>1
<1>3. ASSUME NEW k \in 0 .. size - 1, k \in T
      PROVE  k + 1 \in T
  <2>1. k \in Sizes /\ k \in Nat /\ k + 1 \in 0 .. size
    BY <1>1
  <2>2. PICK n \in 0 .. Base ^ k - 1 : Has(k, n)
    BY <1>3
  <2>3. PICK d \in Nat \ {0} : d = Base ^ k /\ Base ^ (k + 1) = Base * d
    BY <2>1, BaseFacts
  <2>4. PICK c \in Digits : c = b[k + 1]
    BY <2>1
  <2>5. PICK x \in Nat : x = n * Base
    BY <2>1, <2>2, <2>3, BaseFacts
  <2>6. PICK m \in Nat : m = x + c
    BY BaseFacts DEF Digits
  <2>7. m \div Base = n /\ m % Base = c
    <3>1. c \in 0 .. Base - 1 /\ n \in Int /\ m \in Int /\ m = n * Base + c
      BY <2>2, <2>3, <2>5, <2>6 DEF Digits
    <3> QED BY <3>1, BaseInNat, DivisionUnique, Zenon
  <2>8. m \in 0 .. Base ^ (k + 1) - 1
    <3>1. PICK e \in Nat : d - 1 - n = e
      BY <2>2, <2>3
    <3>2. PICK y \in Nat : y = e * Base
      BY BaseFacts
    <3>3. Base * d = x + y + Base
      BY <2>2, <2>3, <2>5, <3>1, <3>2, BaseFacts
    <3> QED BY <2>3, <2>6, <3>3, BaseFacts DEF Digits
  <2>9. Has(k + 1, m)
    <3> SUFFICES ASSUME NEW i \in 1 .. k + 1
                 PROVE  (m \div Base ^ (k + 1 - i)) % Base = b[i]
      OBVIOUS
    <3>1. CASE i = k + 1
      <4>1. k + 1 - i = 0 /\ m \div 1 = m
        BY <2>1, <3>1
      <4> QED BY <2>4, <2>7, <3>1, <4>1, BaseFacts
    <3>2. CASE i # k + 1
      <4>1. i \in 1 .. k /\ k - i \in Sizes /\ k + 1 - i = (k - i) + 1
        BY <2>1, <3>2, BaseFacts DEF Sizes
      <4>2. PICK f \in Nat \ {0} : f = Base ^ (k - i) /\ Base ^ (k + 1 - i) = f * Base
        BY <4>1, BaseFacts
      <4>3. (m \div Base) \div f = m \div (f * Base)
        BY BaseInNat, DivideTwice, Zenon
      <4>4. m \div Base ^ (k + 1 - i) = n \div Base ^ (k - i)
        BY <2>7, <4>2, <4>3
      <4> QED BY <2>2, <4>1, <4>4
    <3> QED BY <3>1, <3>2
  <2> QED BY <2>1, <2>8, <2>9
<1>4. size \in T
  <2> HIDE DEF T
  <2>1. 0 .. size \subseteq T
    BY <1>1, <1>2, <1>3, InductionUpTo
  <2> QED BY <1>1, <2>1
<1>5. PICK n \in 0 .. Base ^ size - 1 : Has(size, n)
  BY <1>4
<1>6. Bytes(n, size) = b
  BY <1>5 DEF Bytes
<1> QED BY <1>6

\* Reading bytes as a number and writing a number as bytes undo one another.
LEMMA NumberOfBytes ==
    ASSUME NEW size \in Sizes, NEW n \in 0 .. Base ^ size - 1
    PROVE  Number(Bytes(n, size)) = n
PROOF
<1>1. n \in Nat /\ Len(Bytes(n, size)) = size
  BY BytesType, BaseFacts
<1>2. PICK m : m = Number(Bytes(n, size))
  OBVIOUS
<1>3. m = CHOOSE k \in 0 .. Base ^ size - 1 : Bytes(k, size) = Bytes(n, size)
  BY <1>1, <1>2 DEF Number
<1>4. m \in 0 .. Base ^ size - 1 /\ Bytes(m, size) = Bytes(n, size)
  BY <1>3
<1> QED BY <1>2, <1>4, BytesInjective

LEMMA BytesOfNumber ==
    ASSUME NEW size \in Sizes, NEW b \in [1 .. size -> Digits]
    PROVE  /\ Number(b) \in 0 .. Base ^ size - 1
           /\ Bytes(Number(b), size) = b
PROOF
<1>1. size \in Nat
  BY BaseFacts DEF Sizes
<1>2. Len(b) = size
  BY <1>1, SeqDef
<1>3. \E n \in 0 .. Base ^ size - 1 : Bytes(n, size) = b
  BY BytesOnto
<1> QED BY <1>2, <1>3 DEF Number

-----------------------------------------------------------------------------
(* Field elements one after the other *)

Words == 0 .. Base ^ FpSize - 1

\* A place in the i-th of n field elements.
LEMMA Place ==
    ASSUME NEW n \in Nat, NEW i \in 1 .. n, NEW j \in 1 .. FpSize,
           NEW k, k = (i - 1) * FpSize + j
    PROVE  /\ k \in 1 .. n * FpSize
           /\ (k - 1) \div FpSize = i - 1
           /\ (k - 1) % FpSize = j - 1
PROOF
<1>1. FpSize \in Nat \ {0}
  BY BaseFacts
<1>2. PICK x \in Nat : x = (i - 1) * FpSize
  BY <1>1
<1>3. x + j \in 1 .. n * FpSize
  <2>1. PICK y \in Nat : y = (n - i) * FpSize
    BY <1>1
  <2>2. n * FpSize = x + y + FpSize
    BY <1>1, <1>2, <2>1
  <2> QED BY <1>1, <1>2, <2>1, <2>2
<1>4. PICK q \in Int, s \in 0 .. FpSize - 1, m \in Int :
          q = i - 1 /\ s = j - 1 /\ m = x + j - 1
  BY <1>1
<1>5. m = q * FpSize + s
  BY <1>1, <1>2, <1>4
<1>6. m \div FpSize = q /\ m % FpSize = s
  BY <1>1, <1>5, DivisionUnique, Zenon
<1>7. k = x + j /\ k - 1 = m
  BY <1>2, <1>4
<1> QED BY <1>2, <1>3, <1>4, <1>6, <1>7

\* Every place is in one of the field elements.
LEMMA PlaceInWord ==
    ASSUME NEW n \in Nat, NEW k \in 1 .. n * FpSize
    PROVE  (k - 1) \div FpSize + 1 \in 1 .. n /\ ((k - 1) % FpSize) + 1 \in 1 .. FpSize
PROOF
<1>1. FpSize \in Nat \ {0}
  BY BaseFacts
<1>2. PICK q \in Nat, r \in 0 .. FpSize - 1 :
          k - 1 = q * FpSize + r /\ q = (k - 1) \div FpSize /\ r = (k - 1) % FpSize
  <2>1. PICK m \in Nat : m = k - 1
    BY <1>1
  <2> QED BY <1>1, <2>1
<1>3. q < n
  <2> SUFFICES ASSUME q >= n PROVE FALSE
    OBVIOUS
  <2>1. PICK e \in Nat : q = n + e
    OBVIOUS
  <2>2. PICK x \in Nat, y \in Nat : x = n * FpSize /\ y = e * FpSize
    BY <1>1
  <2>3. q * FpSize = x + y
    BY <1>1, <2>1, <2>2
  <2> QED BY <1>1, <1>2, <2>2, <2>3
<1> QED BY <1>1, <1>2, <1>3

\* Packed words are digits, FpSize for each word, in their order.
LEMMA PackFacts ==
    ASSUME NEW ws \in Seq(Nat)
    PROVE  /\ Pack(ws) \in Seq(Digits)
           /\ Len(Pack(ws)) = Len(ws) * FpSize
           /\ \A i \in 1 .. Len(ws), j \in 1 .. FpSize :
                 Pack(ws)[(i - 1) * FpSize + j] = Bytes(ws[i], FpSize)[j]
PROOF
<1>1. Len(ws) \in Nat /\ \A i \in 1 .. Len(ws) : ws[i] \in Nat
  BY LenProperties, ElementOfSeq
<1>2. PICK n \in Nat : n = Len(ws) * FpSize
  BY <1>1, BaseFacts
<1>3. Pack(ws) \in [1 .. n -> Digits]
  <2> SUFFICES ASSUME NEW k \in 1 .. n
               PROVE  Bytes(ws[(k - 1) \div FpSize + 1], FpSize)[((k - 1) % FpSize) + 1]
                         \in Digits
    BY <1>2 DEF Pack
  <2>1. PICK i \in 1 .. Len(ws), j \in 1 .. FpSize :
            i = (k - 1) \div FpSize + 1 /\ j = ((k - 1) % FpSize) + 1
    BY <1>1, <1>2, PlaceInWord
  <2>2. Bytes(ws[i], FpSize) \in [1 .. FpSize -> Digits]
    BY <1>1, BaseFacts, BytesType
  <2> QED BY <2>1, <2>2
<1>4. Pack(ws) \in Seq(Digits) /\ Len(Pack(ws)) = n
  BY <1>3, SeqDef
<1>5. ASSUME NEW i \in 1 .. Len(ws), NEW j \in 1 .. FpSize
      PROVE  Pack(ws)[(i - 1) * FpSize + j] = Bytes(ws[i], FpSize)[j]
  <2>1. PICK k : k = (i - 1) * FpSize + j
    OBVIOUS
  <2>2. /\ k \in 1 .. Len(ws) * FpSize
        /\ (k - 1) \div FpSize = i - 1 /\ (k - 1) % FpSize = j - 1
    BY <1>1, <2>1, Place
  <2>3. Pack(ws)[k] =
            Bytes(ws[(k - 1) \div FpSize + 1], FpSize)[((k - 1) % FpSize) + 1]
    BY <2>2, Zenon DEF Pack
  <2>4. (i - 1) + 1 = i /\ (j - 1) + 1 = j
    BY <1>1, BaseFacts
  <2> QED BY <2>1, <2>2, <2>3, <2>4, Zenon
<1> QED BY <1>2, <1>4, <1>5

\* A number is read back from where its bytes are.
LEMMA NumberRead ==
    ASSUME NEW bytes \in Seq(Digits), NEW off \in Nat, NEW size \in Sizes, size > 0,
           NEW w \in 0 .. Base ^ size - 1, off + size <= Len(bytes),
           \A j \in 1 .. size : bytes[off + j] = Bytes(w, size)[j]
    PROVE  Number(SubSeq(bytes, off + 1, off + size)) = w
PROOF
<1> DEFINE part == SubSeq(bytes, off + 1, off + size)
<1>1. size \in Nat /\ w \in Nat /\ Len(bytes) \in Nat
  BY BaseFacts, LenProperties DEF Sizes
<1>2. \A i \in off + 1 .. off + size : bytes[i] \in Digits
  BY <1>1, ElementOfSeq
<1>3. /\ part \in Seq(Digits)
      /\ Len(part) = IF off + 1 <= off + size THEN off + size - (off + 1) + 1 ELSE 0
      /\ \A i \in 1 .. off + size - (off + 1) + 1 : part[i] = bytes[off + 1 + i - 1]
  BY <1>1, <1>2, SubSeqProperties
<1> HIDE DEF part
<1>4. Len(part) = size /\ \A i \in 1 .. size : part[i] = bytes[off + i]
  BY <1>1, <1>3
<1>5. Bytes(w, size) \in Seq(Digits) /\ Len(Bytes(w, size)) = size
  BY <1>1, BytesType
<1>6. part = Bytes(w, size)
  BY <1>3, <1>4, <1>5, SeqEqual
<1> QED BY <1>6, NumberOfBytes DEF part

\* The i-th word after skip bytes, where its bytes are.
LEMMA WordRead ==
    ASSUME NEW bytes \in Seq(Digits), NEW skip \in Nat, NEW i \in Nat \ {0},
           skip + i * FpSize <= Len(bytes)
    PROVE  /\ Word(bytes, skip, i) \in Words
           /\ \A w \in Words :
                 (\A j \in 1 .. FpSize :
                     bytes[skip + (i - 1) * FpSize + j] = Bytes(w, FpSize)[j])
                 => Word(bytes, skip, i) = w
PROOF
<1>1. FpSize \in Nat \ {0} /\ FpSize \in Sizes /\ Len(bytes) \in Nat
  BY BaseFacts, LenProperties
<1>2. PICK off \in Nat : off = skip + (i - 1) * FpSize
  BY <1>1
<1>3. off + FpSize = skip + i * FpSize
  <2>1. PICK x \in Nat : x = (i - 1) * FpSize
    BY <1>1
  <2>2. i * FpSize = x + FpSize
    BY <1>1, <2>1
  <2> QED BY <1>1, <1>2, <2>1, <2>2
<1> DEFINE part == SubSeq(bytes, off + 1, off + FpSize)
<1>4. Word(bytes, skip, i) = Number(part)
  BY <1>2, <1>3 DEF Word
<1>5. part \in [1 .. FpSize -> Digits]
  <2>1. \A k \in off + 1 .. off + FpSize : bytes[k] \in Digits
    BY <1>1, <1>3, ElementOfSeq
  <2>2. /\ part \in Seq(Digits)
        /\ Len(part) = IF off + 1 <= off + FpSize THEN off + FpSize - (off + 1) + 1 ELSE 0
    BY <1>1, <2>1, SubSeqProperties
  <2> HIDE DEF part
  <2>3. Len(part) = FpSize
    BY <1>1, <2>2
  <2> QED BY <2>2, <2>3, LenProperties
<1>6. Number(part) \in Words
  <2> HIDE DEF part
  <2> QED BY <1>1, <1>5, BytesOfNumber DEF Words
<1>7. ASSUME NEW w \in Words,
             \A j \in 1 .. FpSize :
                 bytes[skip + (i - 1) * FpSize + j] = Bytes(w, FpSize)[j]
      PROVE  Number(part) = w
  <2>1. off + FpSize <= Len(bytes) /\ FpSize > 0
    BY <1>1, <1>3
  <2>2. \A j \in 1 .. FpSize : bytes[off + j] = Bytes(w, FpSize)[j]
    BY <1>2, <1>7
  <2>3. w \in 0 .. Base ^ FpSize - 1
    BY DEF Words
  <2> QED BY <1>1, <2>1, <2>2, <2>3, NumberRead
<1> HIDE DEF part
<1> QED BY <1>4, <1>6, <1>7

\* Where bytes hold packed words, the words are read.
LEMMA WordsRead ==
    ASSUME NEW bytes \in Seq(Digits), NEW skip \in Nat, NEW ws \in Seq(Words),
           skip + Len(ws) * FpSize <= Len(bytes),
           \A k \in 1 .. Len(ws) * FpSize : bytes[skip + k] = Pack(ws)[k]
    PROVE  \A i \in 1 .. Len(ws) : Word(bytes, skip, i) = ws[i]
PROOF
<1>1. FpSize \in Nat \ {0} /\ Len(bytes) \in Nat /\ Len(ws) \in Nat
  BY BaseFacts, LenProperties
<1>2. Words \subseteq Nat
  BY BaseFacts DEF Words
<1>3. ws \in Seq(Nat)
  BY <1>2, SeqMonotonic
<1> SUFFICES ASSUME NEW i \in 1 .. Len(ws) PROVE Word(bytes, skip, i) = ws[i]
  OBVIOUS
<1>4. ws[i] \in Words
  BY ElementOfSeq
<1>5. skip + i * FpSize <= Len(bytes)
  <2>1. PICK y \in Nat : y = (Len(ws) - i) * FpSize
    BY <1>1
  <2>2. PICK z \in Nat : z = i * FpSize
    BY <1>1
  <2>3. Len(ws) * FpSize = z + y
    BY <1>1, <2>1, <2>2
  <2> QED BY <1>1, <2>1, <2>2, <2>3
<1>6. ASSUME NEW j \in 1 .. FpSize
      PROVE  bytes[skip + (i - 1) * FpSize + j] = Bytes(ws[i], FpSize)[j]
  <2>1. PICK k : k = (i - 1) * FpSize + j
    OBVIOUS
  <2>2. k \in 1 .. Len(ws) * FpSize
    BY <1>1, <2>1, Place
  <2>3. skip + (i - 1) * FpSize + j = skip + k
    <3>1. PICK x \in Nat : x = (i - 1) * FpSize
      BY <1>1
    <3> QED BY <2>1, <3>1
  <2>4. Pack(ws)[k] = Bytes(ws[i], FpSize)[j]
    BY <1>3, <2>1, PackFacts
  <2> QED BY <2>2, <2>3, <2>4
<1>7. i \in Nat \ {0}
  BY <1>1
<1> QED BY <1>4, <1>5, <1>6, <1>7, WordRead

-----------------------------------------------------------------------------
(* The formats of proofs *)

LEMMA ProofFacts ==
    ASSUME NEW p \in Proofs
    PROVE  /\ p.words \in Seq(Words) /\ p.commitments \in Seq(Words)
           /\ p.pok \in Seq(Words)
           /\ p.words \in Seq(Nat) /\ p.commitments \in Seq(Nat) /\ p.pok \in Seq(Nat)
           /\ Len(p.words) = 8
           /\ p.commitments = << >> => p.pok = << >>
           /\ p.commitments # << >> => Len(p.commitments) >= 2 /\ Len(p.pok) = 2
PROOF
<1>1. /\ p.words \in Seq(Words) /\ p.commitments \in Seq(Words)
      /\ p.pok \in Seq(Words) /\ Len(p.words) = 8
      /\ Len(p.commitments) % 2 = 0
      /\ Len(p.pok) = IF p.commitments = << >> THEN 0 ELSE 2
  BY ProofsAssumption DEF Words
<1>2. Words \subseteq Nat
  BY BaseFacts DEF Words
<1>3. p.words \in Seq(Nat) /\ p.commitments \in Seq(Nat) /\ p.pok \in Seq(Nat)
  BY <1>1, <1>2, SeqMonotonic
<1>4. p.commitments = << >> => p.pok = << >>
  BY <1>1, EmptySeq
<1>5. p.commitments # << >> => Len(p.commitments) >= 2
  <2> SUFFICES ASSUME p.commitments # << >> PROVE Len(p.commitments) >= 2
    OBVIOUS
  <2>1. PICK n \in Nat \ {0} : n = Len(p.commitments) /\ n % 2 = 0
    BY <1>1, EmptySeq
  <2>2. 1 % 2 = 1
    OBVIOUS
  <2>3. n # 1
    BY <2>1, <2>2
  <2>4. n >= 2
    BY <2>3
  <2> QED BY <2>1, <2>4, Zenon
<1> QED BY <1>1, <1>3, <1>4, <1>5

\* Where the parts of gnark's encoding of a proof with commitments are.
CountAt(p, m) ==
    \A k \in 1 .. CountSize :
       m[8 * FpSize + k] = Bytes(Len(p.commitments) \div 2, CountSize)[k]
CommitmentsAt(p, m) ==
    \A k \in 1 .. Len(p.commitments) * FpSize :
       m[8 * FpSize + CountSize + k] = Pack(p.commitments)[k]
PokAt(p, m) ==
    \A k \in 1 .. 2 * FpSize :
       m[8 * FpSize + CountSize + Len(p.commitments) * FpSize + k] = Pack(p.pok)[k]

\* What gnark's encoding of a proof looks like.
LEMMA MarshalFacts ==
    ASSUME NEW p \in Proofs, NEW m, m = MarshalSolidity(p)
    PROVE  /\ m \in Seq(Digits)
           /\ Len(m) = 8 * FpSize + IF p.commitments = << >> THEN 0
                     ELSE CountSize + Len(p.commitments) * FpSize + 2 * FpSize
           /\ \A k \in 1 .. 8 * FpSize : m[k] = Pack(p.words)[k]
           /\ p.commitments # << >> =>
                 CountAt(p, m) /\ CommitmentsAt(p, m) /\ PokAt(p, m)
PROOF
<1>1. FpSize \in Nat \ {0} /\ CountSize \in Nat \ {0} /\ CountSize \in Sizes
  BY BaseFacts
<1>2. Pack(p.words) \in Seq(Digits) /\ Len(Pack(p.words)) = 8 * FpSize
  <2>1. p.words \in Seq(Nat) /\ Len(p.words) = 8
    BY ProofFacts
  <2>2. Pack(p.words) \in Seq(Digits) /\ Len(Pack(p.words)) = Len(p.words) * FpSize
    BY <2>1, PackFacts
  <2> QED BY <2>1, <2>2
<1>3. CASE p.commitments = << >>
  <2>1. m = Pack(p.words)
    BY <1>2, <1>3, ConcatEmptySeq DEF MarshalSolidity
  <2> QED BY <1>1, <1>2, <1>3, <2>1
<1>4. CASE p.commitments # << >>
  <2> DEFINE w == Pack(p.words)
             b == Bytes(Len(p.commitments) \div 2, CountSize)
             c == Pack(p.commitments)
             k == Pack(p.pok)
  <2>1. m = w \o ((b \o c) \o k)
    BY <1>4 DEF MarshalSolidity
  <2>2. PICK n \in Nat : n = Len(p.commitments) * FpSize
    BY <1>1, ProofFacts, LenProperties
  <2>3. c \in Seq(Digits) /\ Len(c) = n
    BY <2>2, ProofFacts, PackFacts
  <2>4. k \in Seq(Digits) /\ Len(k) = 2 * FpSize
    BY <1>4, ProofFacts, PackFacts
  <2>5. b \in Seq(Digits) /\ Len(b) = CountSize
    <3>1. PICK h \in Nat : h = Len(p.commitments)
      BY ProofFacts, LenProperties
    <3>2. h \div 2 \in Nat
      OBVIOUS
    <3> QED BY <1>1, <3>1, <3>2, BytesType
  <2> HIDE DEF w, b, c, k
  <2>6. PICK t : t = b \o c
    OBVIOUS
  <2>7. /\ t \in Seq(Digits) /\ Len(t) = CountSize + n
        /\ \A i \in 1 .. CountSize + n :
              t[i] = IF i <= CountSize THEN b[i] ELSE c[i - CountSize]
    BY <2>3, <2>5, <2>6, ConcatProperties
  <2>8. PICK u : u = t \o k
    OBVIOUS
  <2>9. /\ u \in Seq(Digits) /\ Len(u) = CountSize + n + 2 * FpSize
        /\ \A i \in 1 .. CountSize + n + 2 * FpSize :
              u[i] = IF i <= CountSize + n THEN t[i] ELSE k[i - (CountSize + n)]
    <3>1. /\ u \in Seq(Digits) /\ Len(u) = Len(t) + Len(k)
          /\ \A i \in 1 .. Len(t) + Len(k) :
                u[i] = IF i <= Len(t) THEN t[i] ELSE k[i - Len(t)]
      BY <2>4, <2>7, <2>8, ConcatProperties
    <3> QED BY <2>4, <2>7, <3>1
  <2>10. /\ m \in Seq(Digits) /\ Len(m) = 8 * FpSize + (CountSize + n + 2 * FpSize)
         /\ \A i \in 1 .. 8 * FpSize + (CountSize + n + 2 * FpSize) :
               m[i] = IF i <= 8 * FpSize THEN w[i] ELSE u[i - 8 * FpSize]
    <3>1. w \in Seq(Digits) /\ Len(w) = 8 * FpSize /\ m = w \o u
      BY <1>2, <2>1, <2>6, <2>8 DEF w
    <3>2. u \in Seq(Digits) /\ Len(u) = CountSize + n + 2 * FpSize
      BY <2>9
    <3>3. /\ w \o u \in Seq(Digits) /\ Len(w \o u) = Len(w) + Len(u)
          /\ \A i \in 1 .. Len(w) + Len(u) :
                (w \o u)[i] = IF i <= Len(w) THEN w[i] ELSE u[i - Len(w)]
      BY <3>1, <3>2, ConcatProperties
    <3> QED BY <3>1, <3>2, <3>3
  <2>11. \A i \in 1 .. 8 * FpSize : m[i] = w[i]
    BY <1>1, <2>10
  <2>12. \A i \in 1 .. CountSize + n + 2 * FpSize : m[8 * FpSize + i] = u[i]
    <3> SUFFICES ASSUME NEW i \in 1 .. CountSize + n + 2 * FpSize
                 PROVE  m[8 * FpSize + i] = u[i]
      OBVIOUS
    <3>1. PICK e \in 1 .. 8 * FpSize + (CountSize + n + 2 * FpSize) :
              e = 8 * FpSize + i /\ ~(e <= 8 * FpSize) /\ e - 8 * FpSize = i
      BY <1>1
    <3> QED BY <2>10, <3>1
  <2>13. \A i \in 1 .. CountSize : m[8 * FpSize + i] = b[i]
    <3> SUFFICES ASSUME NEW i \in 1 .. CountSize PROVE m[8 * FpSize + i] = b[i]
      OBVIOUS
    <3>1. /\ i \in 1 .. CountSize + n /\ i \in 1 .. CountSize + n + 2 * FpSize
          /\ i <= CountSize /\ i <= CountSize + n
      BY <1>1
    <3> QED BY <2>7, <2>9, <2>12, <3>1
  <2>14. \A i \in 1 .. n : m[8 * FpSize + CountSize + i] = c[i]
    <3> SUFFICES ASSUME NEW i \in 1 .. n
                 PROVE  m[8 * FpSize + CountSize + i] = c[i]
      OBVIOUS
    <3>1. PICK e \in 1 .. CountSize + n :
              e = CountSize + i /\ ~(e <= CountSize) /\ e - CountSize = i
                /\ 8 * FpSize + CountSize + i = 8 * FpSize + e
      BY <1>1
    <3>2. t[e] = c[i]
      BY <2>7, <3>1
    <3>3. u[e] = t[e] /\ e \in 1 .. CountSize + n + 2 * FpSize
      BY <1>1, <2>9, <3>1
    <3> QED BY <2>12, <3>1, <3>2, <3>3
  <2>15. \A i \in 1 .. 2 * FpSize : m[8 * FpSize + CountSize + n + i] = k[i]
    <3> SUFFICES ASSUME NEW i \in 1 .. 2 * FpSize
                 PROVE  m[8 * FpSize + CountSize + n + i] = k[i]
      OBVIOUS
    <3>1. PICK e \in 1 .. CountSize + n + 2 * FpSize :
              e = CountSize + n + i /\ ~(e <= CountSize + n) /\ e - (CountSize + n) = i
                /\ 8 * FpSize + CountSize + n + i = 8 * FpSize + e
      BY <1>1
    <3> QED BY <2>9, <2>12, <3>1
  <2>16. CountAt(p, m)
    BY <2>13 DEF CountAt, b
  <2>17. CommitmentsAt(p, m)
    BY <2>2, <2>14 DEF CommitmentsAt, c
  <2>18. PokAt(p, m)
    BY <2>2, <2>15 DEF PokAt, k
  <2> QED BY <1>1, <1>4, <2>2, <2>10, <2>11, <2>16, <2>17, <2>18 DEF w
<1> QED BY <1>3, <1>4

\* Bytes of which the end may be missing.
Prefix(b, m) ==
    /\ b \in Seq(Digits)
    /\ Len(b) <= Len(m)
    /\ \A k \in 1 .. Len(b) : b[k] = m[k]

LEMMA CutPrefix ==
    ASSUME NEW m \in Seq(Digits), NEW n \in 0 .. Len(m)
    PROVE  Prefix(SubSeq(m, 1, n), m)
PROOF
<1> DEFINE b == SubSeq(m, 1, n)
<1>1. Len(m) \in Nat /\ \A i \in 1 .. n : m[i] \in Digits
  BY LenProperties, ElementOfSeq
<1>2. /\ b \in Seq(Digits)
      /\ Len(b) = IF 1 <= n THEN n - 1 + 1 ELSE 0
      /\ \A i \in 1 .. n - 1 + 1 : b[i] = m[1 + i - 1]
  BY <1>1, SubSeqProperties
<1> HIDE DEF b
<1>3. Len(b) = n /\ \A i \in 1 .. n : b[i] = m[i]
  BY <1>1, <1>2
<1>4. Prefix(b, m)
  BY <1>1, <1>2, <1>3 DEF Prefix
<1> QED BY <1>4 DEF b

\* n words that are read make a sequence.
LEMMA WordsOfSeq ==
    ASSUME NEW bytes \in Seq(Digits), NEW skip \in Nat, NEW n \in Nat,
           skip + n * FpSize <= Len(bytes)
    PROVE  /\ WordsOf(bytes, skip, n) \in Seq(Words)
           /\ Len(WordsOf(bytes, skip, n)) = n
           /\ \A i \in 1 .. n : WordsOf(bytes, skip, n)[i] = Word(bytes, skip, i)
PROOF
<1>1. FpSize \in Nat \ {0} /\ Len(bytes) \in Nat
  BY BaseFacts, LenProperties
<1>2. ASSUME NEW i \in 1 .. n PROVE Word(bytes, skip, i) \in Words
  <2>1. PICK x \in Nat, y \in Nat : x = i * FpSize /\ y = (n - i) * FpSize
    BY <1>1
  <2>2. n * FpSize = x + y
    BY <1>1, <2>1
  <2>3. skip + i * FpSize <= Len(bytes) /\ i \in Nat \ {0}
    BY <1>1, <2>1, <2>2
  <2> QED BY <2>3, WordRead
<1>3. WordsOf(bytes, skip, n) \in [1 .. n -> Words]
  BY <1>2 DEF WordsOf
<1>4. WordsOf(bytes, skip, n) \in Seq(Words) /\ Len(WordsOf(bytes, skip, n)) = n
  BY <1>3, SeqDef
<1> QED BY <1>4 DEF WordsOf

\* Where bytes hold the packed words of a sequence, the sequence is read.
LEMMA WordsOfRead ==
    ASSUME NEW bytes \in Seq(Digits), NEW skip \in Nat, NEW n \in Nat,
           NEW ws \in Seq(Words), Len(ws) = n, skip + n * FpSize <= Len(bytes),
           \A k \in 1 .. n * FpSize : bytes[skip + k] = Pack(ws)[k]
    PROVE  WordsOf(bytes, skip, n) = ws
PROOF
<1>1. \A i \in 1 .. Len(ws) : Word(bytes, skip, i) = ws[i]
  BY WordsRead
<1>2. PICK rs : rs = WordsOf(bytes, skip, n)
  OBVIOUS
<1>3. /\ rs \in Seq(Words) /\ Len(rs) = n
      /\ \A i \in 1 .. n : rs[i] = Word(bytes, skip, i)
  BY <1>2, WordsOfSeq
<1>4. \A i \in 1 .. Len(rs) : rs[i] = ws[i]
  BY <1>1, <1>3
<1>5. rs = ws
  BY <1>3, <1>4, SeqEqual
<1> QED BY <1>2, <1>5

\* The first eight words of an answer are those of the proof, if they are there.
LEMMA ParsedWords ==
    ASSUME NEW p \in Proofs, NEW b, Prefix(b, MarshalSolidity(p)),
           8 * FpSize <= Len(b)
    PROVE  WordsOf(b, 0, 8) = p.words
PROOF
<1>1. FpSize \in Nat \ {0} /\ b \in Seq(Digits) /\ Len(b) \in Nat
  BY BaseFacts, LenProperties DEF Prefix
<1>2. p.words \in Seq(Words) /\ Len(p.words) = 8
  BY ProofFacts
<1>3. \A k \in 1 .. 8 * FpSize : b[0 + k] = Pack(p.words)[k]
  <2>1. PICK m : m = MarshalSolidity(p)
    OBVIOUS
  <2>2. \A k \in 1 .. 8 * FpSize : m[k] = Pack(p.words)[k]
    BY <2>1, MarshalFacts
  <2>3. \A k \in 1 .. 8 * FpSize : k \in 1 .. Len(b) /\ 0 + k = k
    BY <1>1
  <2> QED BY <2>1, <2>2, <2>3 DEF Prefix
<1>4. PICK skip \in Nat, n \in Nat : skip = 0 /\ n = 8
  OBVIOUS
<1>5. /\ Len(p.words) = n /\ skip + n * FpSize <= Len(b)
      /\ \A k \in 1 .. n * FpSize : b[skip + k] = Pack(p.words)[k]
  BY <1>1, <1>2, <1>3, <1>4
<1>6. WordsOf(b, skip, n) = p.words
  BY <1>1, <1>2, <1>5, WordsOfRead
<1> QED BY <1>4, <1>6

\* One commitment is counted, and it and its proof of knowledge are read.
LEMMA ParsedCommitments ==
    ASSUME NEW p \in Proofs, Len(p.commitments) = 2, NEW b, b = MarshalSolidity(p)
    PROVE  /\ CommitmentCount(b) = NbCommitments
           /\ WordsOf(b, AfterCount, 2) = p.commitments
           /\ WordsOf(b, AfterCount + 2 * FpSize, 2) = p.pok
PROOF
<1>1. FpSize \in Nat \ {0} /\ CountSize \in Nat \ {0} /\ CountSize \in Sizes
  BY BaseFacts
<1>2. p.commitments # << >>
  BY EmptySeq
<1>3. Len(p.pok) = 2 /\ p.commitments \in Seq(Words) /\ p.pok \in Seq(Words)
  BY <1>2, ProofFacts
<1>4. /\ b \in Seq(Digits)
      /\ Len(b) = 8 * FpSize + (IF p.commitments = << >> THEN 0
                     ELSE CountSize + Len(p.commitments) * FpSize + 2 * FpSize)
  BY MarshalFacts
<1>5. CountAt(p, b) /\ CommitmentsAt(p, b) /\ PokAt(p, b)
  BY <1>2, MarshalFacts
<1>6. \A k \in 1 .. Len(p.commitments) * FpSize :
            b[8 * FpSize + CountSize + k] = Pack(p.commitments)[k]
  BY <1>5 DEF CommitmentsAt
<1>7. \A k \in 1 .. 2 * FpSize :
            b[8 * FpSize + CountSize + Len(p.commitments) * FpSize + k] = Pack(p.pok)[k]
  BY <1>5 DEF PokAt
<1>8. Len(b) = 8 * FpSize + CountSize + 2 * FpSize + 2 * FpSize
  BY <1>1, <1>2, <1>4
<1>9. CommitmentCount(b) = 1
  <2>1. 1 \in 0 .. Base ^ CountSize - 1
    <3>1. CountSize - 1 \in Sizes /\ (CountSize - 1) + 1 = CountSize
      BY BaseFacts DEF Sizes
    <3>2. PICK d \in Nat \ {0} : Base ^ CountSize = Base * d
      BY <3>1, BaseFacts
    <3>3. PICK e \in Nat : d = e + 1
      OBVIOUS
    <3>4. PICK x \in Nat : x = Base * e
      BY BaseInNat
    <3>5. Base * d = x + Base
      BY <3>3, <3>4, BaseInNat
    <3>6. Base \in Nat /\ Base > 1
      BY BaseFacts
    <3> QED BY <3>2, <3>5, <3>6
  <2>2. 2 \div 2 = 1
    OBVIOUS
  <2>3. \A k \in 1 .. CountSize :
            b[8 * FpSize + k] = Bytes(Len(p.commitments) \div 2, CountSize)[k]
    BY <1>5 DEF CountAt
  <2>4. PICK off \in Nat : off = 8 * FpSize /\ off = FpSize * 8
    BY <1>1
  <2>5. off + CountSize <= Len(b) /\ CountSize > 0
    BY <1>1, <1>8, <2>4
  <2>6. PICK one \in 0 .. Base ^ CountSize - 1 : one = 1 /\ one = Len(p.commitments) \div 2
    BY <2>1, <2>2
  <2>7. \A k \in 1 .. CountSize : b[off + k] = Bytes(one, CountSize)[k]
    BY <2>3, <2>4, <2>6
  <2>8. CountSize \in Sizes /\ b \in Seq(Digits)
    BY <1>1, <1>4
  <2>9. Number(SubSeq(b, off + 1, off + CountSize)) = one
    BY <2>5, <2>7, <2>8, NumberRead
  <2> QED BY <2>4, <2>6, <2>9 DEF CommitmentCount
<1>10. PICK skip \in Nat : skip = AfterCount /\ skip = 8 * FpSize + CountSize
  BY <1>1 DEF AfterCount
<1>11. PICK n \in Nat, after \in Nat : n = 2 /\ after = skip + 2 * FpSize
  BY <1>1
<1>12. WordsOf(b, skip, n) = p.commitments
  <2>1. /\ Len(p.commitments) = n /\ skip + n * FpSize <= Len(b)
        /\ \A k \in 1 .. n * FpSize : b[skip + k] = Pack(p.commitments)[k]
    BY <1>1, <1>8, <1>10, <1>11, <1>6
  <2> QED BY <1>3, <1>4, <2>1, WordsOfRead
<1>13. WordsOf(b, after, n) = p.pok
  <2>1. /\ Len(p.pok) = n /\ after + n * FpSize <= Len(b)
        /\ \A k \in 1 .. n * FpSize : b[after + k] = Pack(p.pok)[k]
    BY <1>1, <1>3, <1>8, <1>10, <1>11, <1>7
  <2> QED BY <1>3, <1>4, <2>1, WordsOfRead
<1> QED BY <1>9, <1>10, <1>11, <1>12, <1>13 DEF NbCommitments

\* What the contract decodes from an encoded proof.
LEMMA EncodedFacts ==
    ASSUME NEW ws \in Seq(Words), NEW cs \in Seq(Words), NEW ks \in Seq(Words),
           Len(ws) = 8, NEW zkp, zkp = Pack(ws \o cs \o ks),
           (Len(cs) = 0 /\ Len(ks) = 0) \/ (Len(cs) = 2 /\ Len(ks) = 2)
    PROVE  /\ zkp \in Seq(Digits)
           /\ Len(zkp) = (IF Len(cs) = 0 THEN 8 ELSE 12) * FpSize
           /\ WordsOf(zkp, 0, 8) = ws
           /\ Len(cs) = 2 => /\ WordsOf(zkp, FpSize * 8, 2) = cs
                             /\ WordsOf(zkp, FpSize * 10, 2) = ks
PROOF
<1>1. FpSize \in Nat \ {0} /\ Words \subseteq Nat
  BY BaseFacts DEF Words
<1>2. PICK n \in Nat : n = IF Len(cs) = 0 THEN 8 ELSE 12
  OBVIOUS
<1>3. PICK t : t = ws \o cs
  OBVIOUS
<1>4. /\ t \in Seq(Words) /\ Len(t) = Len(ws) + Len(cs)
      /\ \A i \in 1 .. Len(ws) + Len(cs) :
            t[i] = IF i <= Len(ws) THEN ws[i] ELSE cs[i - Len(ws)]
  BY <1>3, ConcatProperties
<1>5. PICK all : all = t \o ks
  OBVIOUS
<1>6. /\ all \in Seq(Words) /\ Len(all) = Len(t) + Len(ks)
      /\ \A i \in 1 .. Len(t) + Len(ks) :
            all[i] = IF i <= Len(t) THEN t[i] ELSE ks[i - Len(t)]
  <2>1. t \in Seq(Words)
    BY <1>4
  <2> QED BY <2>1, <1>5, ConcatProperties
<1>7. Len(all) = n /\ \A i \in 1 .. 8 : all[i] = ws[i]
  <2>1. Len(t) = 8 + Len(cs) /\ Len(all) = n
    <3>1. Len(t) = 8 + Len(cs) /\ Len(all) = Len(t) + Len(ks)
      BY <1>4, <1>6
    <3>2. CASE Len(cs) = 0 /\ Len(ks) = 0
      BY <1>2, <3>1, <3>2
    <3>3. CASE Len(cs) = 2 /\ Len(ks) = 2
      BY <1>2, <3>1, <3>3
    <3> QED BY <3>1, <3>2, <3>3
  <2>2. \A i \in 1 .. 8 : /\ i \in 1 .. Len(ws) + Len(cs) /\ i \in 1 .. Len(t) + Len(ks)
                         /\ i <= Len(ws) /\ i <= Len(t)
    BY <2>1
  <2> QED BY <1>4, <1>6, <2>1, <2>2
<1>8. Len(cs) = 2 => /\ all[9] = cs[1] /\ all[10] = cs[2]
                     /\ all[11] = ks[1] /\ all[12] = ks[2]
  <2> SUFFICES ASSUME Len(cs) = 2
               PROVE  /\ all[9] = cs[1] /\ all[10] = cs[2]
                      /\ all[11] = ks[1] /\ all[12] = ks[2]
    OBVIOUS
  <2>1. Len(ks) = 2 /\ Len(t) = 10
    BY <1>4
  <2>2. all[9] = t[9] /\ all[10] = t[10] /\ all[11] = ks[1] /\ all[12] = ks[2]
    BY <1>6, <2>1
  <2>3. t[9] = cs[1] /\ t[10] = cs[2]
    BY <1>4
  <2> QED BY <2>2, <2>3
<1>9. all \in Seq(Nat)
  BY <1>1, <1>6, SeqMonotonic
<1>10. zkp = Pack(all) /\ zkp \in Seq(Digits) /\ Len(zkp) = n * FpSize
  BY <1>3, <1>5, <1>7, <1>9, PackFacts
<1>11. \A i \in 1 .. n : Word(zkp, 0, i) = all[i]
  <2>0. PICK skip \in Nat : skip = 0
    OBVIOUS
  <2>1. skip + Len(all) * FpSize <= Len(zkp)
    BY <1>1, <1>2, <1>7, <1>10, <2>0
  <2>2. \A k \in 1 .. Len(all) * FpSize : zkp[skip + k] = Pack(all)[k]
    <3>1. \A k \in 1 .. Len(all) * FpSize : skip + k = k
      BY <1>1, <1>2, <1>7, <2>0
    <3> QED BY <1>10, <3>1
  <2>3. \A i \in 1 .. Len(all) : Word(zkp, skip, i) = all[i]
    BY <1>6, <1>10, <2>1, <2>2, WordsRead
  <2> QED BY <1>7, <2>0, <2>3
<1>12. WordsOf(zkp, 0, 8) = ws
  <2>1. PICK skip \in Nat, e \in Nat : skip = 0 /\ e = 8
    OBVIOUS
  <2>2. PICK rs : rs = WordsOf(zkp, skip, e)
    OBVIOUS
  <2>3. skip + e * FpSize <= Len(zkp)
    BY <1>1, <1>2, <1>10, <2>1
  <2>4. /\ rs \in Seq(Words) /\ Len(rs) = e
        /\ \A i \in 1 .. e : rs[i] = Word(zkp, skip, i)
    BY <1>10, <2>2, <2>3, WordsOfSeq
  <2>5. Len(rs) = Len(ws) /\ \A i \in 1 .. Len(rs) : rs[i] = ws[i]
    BY <1>2, <1>7, <1>11, <2>1, <2>4
  <2>6. rs = ws
    BY <2>4, <2>5, SeqEqual
  <2> QED BY <2>1, <2>2, <2>6
<1>13. ASSUME Len(cs) = 2
       PROVE  WordsOf(zkp, FpSize * 8, 2) = cs /\ WordsOf(zkp, FpSize * 10, 2) = ks
  <2>1. n = 12 /\ Len(ks) = 2
    BY <1>2, <1>13
  <2>2. PICK a \in Nat, b \in Nat, e \in Nat :
            a = FpSize * 8 /\ b = FpSize * 10 /\ e = 2
    BY <1>1
  <2>3. a + e * FpSize <= Len(zkp) /\ b + e * FpSize <= Len(zkp)
    BY <1>1, <1>10, <2>1, <2>2
  <2>4. /\ Word(zkp, a, 1) = Word(zkp, 0, 9) /\ Word(zkp, a, 2) = Word(zkp, 0, 10)
        /\ Word(zkp, b, 1) = Word(zkp, 0, 11) /\ Word(zkp, b, 2) = Word(zkp, 0, 12)
    BY <1>1, <2>2 DEF Word
  <2>5. PICK as, bs : as = WordsOf(zkp, a, e) /\ bs = WordsOf(zkp, b, e)
    OBVIOUS
  <2>6. /\ as \in Seq(Words) /\ Len(as) = e
        /\ \A i \in 1 .. e : as[i] = Word(zkp, a, i)
    BY <1>10, <2>3, <2>5, WordsOfSeq
  <2>7. /\ bs \in Seq(Words) /\ Len(bs) = e
        /\ \A i \in 1 .. e : bs[i] = Word(zkp, b, i)
    BY <1>10, <2>3, <2>5, WordsOfSeq
  <2>8. /\ Word(zkp, 0, 9) = cs[1] /\ Word(zkp, 0, 10) = cs[2]
        /\ Word(zkp, 0, 11) = ks[1] /\ Word(zkp, 0, 12) = ks[2]
    BY <1>8, <1>11, <1>13, <2>1
  <2>9. as[1] = cs[1] /\ as[2] = cs[2] /\ bs[1] = ks[1] /\ bs[2] = ks[2]
    <3>1. 1 \in 1 .. e /\ 2 \in 1 .. e
      BY <2>2
    <3> QED BY <2>4, <2>6, <2>7, <2>8, <3>1, Zenon
  <2>10. /\ Len(as) = Len(cs) /\ \A i \in 1 .. Len(as) : as[i] = cs[i]
         /\ Len(bs) = Len(ks) /\ \A i \in 1 .. Len(bs) : bs[i] = ks[i]
    <3>1. \A i \in 1 .. e : i = 1 \/ i = 2
      BY <2>2
    <3>2. \A i \in 1 .. e : as[i] = cs[i] /\ bs[i] = ks[i]
      BY <2>9, <3>1, Zenon
    <3> QED BY <1>13, <2>1, <2>2, <2>6, <2>7, <3>2
  <2>11. as = cs
    BY <2>6, <2>10, SeqEqual
  <2>12. bs = ks
    BY <2>7, <2>10, SeqEqual
  <2> QED BY <2>2, <2>5, <2>11, <2>12
<1> QED BY <1>2, <1>10, <1>12, <1>13

-----------------------------------------------------------------------------
(* One answer, from its bytes to what the contract decodes *)

\* The prover type is the one the proof was made for.
Matches(type, p) ==
    \/ type = "groth16" /\ p.commitments = << >>
    \/ type = "groth16-commitment" /\ Len(p.commitments) = 2

\* A proof without commitments is eight words long, another one at least twelve
\* and the number of commitments.
LEMMA MarshalLength ==
    ASSUME NEW p \in Proofs, NEW b, b = MarshalSolidity(p)
    PROVE  /\ Len(b) \in Nat /\ Len(b) >= 8 * FpSize
           /\ p.commitments # << >> => Len(b) >= 8 * FpSize + CountSize + 4 * FpSize
PROOF
<1>1. FpSize \in Nat \ {0} /\ CountSize \in Nat \ {0}
  BY BaseFacts
<1>2. Len(b) \in Nat /\ Len(b) = 8 * FpSize + IF p.commitments = << >> THEN 0
                     ELSE CountSize + Len(p.commitments) * FpSize + 2 * FpSize
  BY MarshalFacts, LenProperties
<1>3. CASE p.commitments = << >>
  BY <1>1, <1>2, <1>3
<1>4. CASE p.commitments # << >>
  <2>1. PICK n \in Nat : n = Len(p.commitments) /\ n >= 2
    BY <1>4, ProofFacts, LenProperties
  <2>2. PICK e \in Nat : n = e + 2
    BY <2>1
  <2>3. PICK x \in Nat : x = e * FpSize
    BY <1>1
  <2>4. PICK y \in Nat : y = n * FpSize
    BY <1>1
  <2>5. y = x + 2 * FpSize
    BY <1>1, <2>2, <2>3, <2>4
  <2>6. Len(b) = 8 * FpSize + (CountSize + y + 2 * FpSize)
    BY <1>2, <1>4, <2>1, <2>4
  <2>7. /\ Len(b) >= 8 * FpSize
        /\ Len(b) >= 8 * FpSize + CountSize + 4 * FpSize
    BY <1>1, <2>3, <2>5, <2>6
  <2> QED BY <1>2, <2>7
<1> QED BY <1>3, <1>4

\* Parse slices within a whole proof, unless commitments are missing.
LEMMA GenuinePanics ==
    ASSUME NEW p \in Proofs, NEW b, b = MarshalSolidity(p), NEW type, Panics(type, b)
    PROVE  type = "groth16-commitment" /\ p.commitments = << >>
PROOF
<1>1. /\ FpSize \in Nat \ {0} /\ CountSize \in Nat \ {0}
      /\ AfterCount = 8 * FpSize + CountSize /\ FpSize * 8 = 8 * FpSize
      /\ FpSize * 4 = 4 * FpSize
  BY BaseFacts DEF AfterCount
<1>2. /\ Len(b) \in Nat /\ Len(b) >= 8 * FpSize
      /\ p.commitments # << >> => Len(b) >= AfterCount + 4 * FpSize
  BY <1>1, MarshalLength
<1>3. type = "groth16-commitment"
  BY <1>1, <1>2 DEF Panics, SlicedTo
<1>4. Len(b) < AfterCount + 4 * FpSize
  BY <1>1, <1>2, <1>3 DEF Panics, SlicedTo
<1>5. AfterCount + 4 * FpSize \in Nat
  BY <1>1
<1> QED BY <1>2, <1>3, <1>4, <1>5

\* What Parse reads from an answer, of which the end may be missing.
LEMMA ParsedProof ==
    ASSUME NEW p \in Proofs, NEW b, Prefix(b, MarshalSolidity(p)), NEW type,
           ~Panics(type, b), Parses(type, b), NEW r, r = Parse(type, b)
    PROVE  /\ type \in {"groth16", "groth16-commitment"}
           /\ r = [words |-> r.words, commitments |-> r.commitments, pok |-> r.pok]
           /\ r.words = p.words
           /\ r.commitments \in Seq(Words) /\ r.pok \in Seq(Words)
           /\ type = "groth16" => Len(r.commitments) = 0 /\ Len(r.pok) = 0
           /\ type # "groth16" => Len(r.commitments) = 2 /\ Len(r.pok) = 2
PROOF
<1>1. /\ FpSize \in Nat \ {0} /\ CountSize \in Nat \ {0}
      /\ AfterCount \in Nat /\ AfterCount = 8 * FpSize + CountSize
      /\ FpSize * 8 = 8 * FpSize /\ FpSize * 4 = 4 * FpSize
  BY BaseFacts DEF AfterCount
<1>2. b \in Seq(Digits) /\ Len(b) \in Nat
  BY LenProperties DEF Prefix
<1>3. CASE type = "groth16"
  <2>1. 8 * FpSize <= Len(b)
    BY <1>1, <1>2, <1>3 DEF Panics, SlicedTo
  <2>2. WordsOf(b, 0, 8) = p.words
    BY <2>1, ParsedWords
  <2>3. r = [words |-> WordsOf(b, 0, 8), commitments |-> << >>, pok |-> << >>]
    BY <1>3 DEF Parse, ParseGroth16Proof
  <2>4. << >> \in Seq(Words) /\ Len(<< >>) = 0
    BY EmptySeq
  <2>5. /\ r.words = p.words /\ r.commitments = << >> /\ r.pok = << >>
        /\ r = [words |-> r.words, commitments |-> r.commitments, pok |-> r.pok]
    BY <2>2, <2>3
  <2> QED BY <1>3, <2>4, <2>5
<1>4. CASE type # "groth16"
  <2>1. type = "groth16-commitment" /\ CommitmentCount(b) = NbCommitments
    BY <1>4 DEF Parses
  <2>2. AfterCount <= Len(b)
    BY <1>1, <1>2, <2>1 DEF Panics, SlicedTo
  <2>3. AfterCount + 4 * FpSize <= Len(b)
    BY <1>1, <1>2, <2>1, <2>2 DEF Panics, SlicedTo
  <2>4. WordsOf(b, 0, 8) = p.words
    <3>1. 8 * FpSize <= Len(b)
      BY <1>1, <1>2, <2>3
    <3> QED BY <3>1, ParsedWords
  <2>5. PICK cs, ks : /\ cs = WordsOf(b, AfterCount, 2)
                      /\ ks = WordsOf(b, AfterCount + 2 * FpSize, 2)
    OBVIOUS
  <2>6. /\ cs \in Seq(Words) /\ Len(cs) = 2
        /\ ks \in Seq(Words) /\ Len(ks) = 2
    <3>1. PICK n \in Nat, after \in Nat : n = 2 /\ after = AfterCount + 2 * FpSize
      BY <1>1
    <3>2. AfterCount + n * FpSize <= Len(b) /\ after + n * FpSize <= Len(b)
      BY <1>1, <1>2, <2>3, <3>1
    <3>3. WordsOf(b, AfterCount, n) \in Seq(Words) /\ Len(WordsOf(b, AfterCount, n)) = n
      BY <1>1, <1>2, <3>2, WordsOfSeq
    <3>4. WordsOf(b, after, n) \in Seq(Words) /\ Len(WordsOf(b, after, n)) = n
      BY <1>2, <3>2, WordsOfSeq
    <3> QED BY <2>5, <3>1, <3>3, <3>4
  <2>7. r = [words |-> WordsOf(b, 0, 8), commitments |-> cs, pok |-> ks]
    BY <1>4, <2>5 DEF Parse, ParseGroth16CommitmentProof
  <2> QED BY <2>1, <2>4, <2>6, <2>7
<1> QED BY <1>3, <1>4

\* A whole proof of the system the relayer is configured for is parsed, to itself.
LEMMA GenuineParsed ==
    ASSUME NEW p \in Proofs, NEW b, b = MarshalSolidity(p), NEW type, Matches(type, p)
    PROVE  ~Panics(type, b) /\ Parses(type, b) /\ Parse(type, b) = p
PROOF
<1>1. ~Panics(type, b)
  <2>1. Len(p.commitments) = 2 => p.commitments # << >>
    BY EmptySeq
  <2> QED BY <2>1, GenuinePanics DEF Matches
<1>2. p = [words |-> p.words, commitments |-> p.commitments, pok |-> p.pok]
  BY ProofsAssumption
<1>3. WordsOf(b, 0, 8) = p.words
  <2>1. b \in Seq(Digits) /\ 8 * FpSize <= Len(b)
    BY MarshalFacts, MarshalLength
  <2>2. Prefix(b, MarshalSolidity(p))
    BY <2>1, LenProperties DEF Prefix
  <2> QED BY <2>1, <2>2, ParsedWords
<1>4. CASE type = "groth16" /\ p.commitments = << >>
  <2>1. p.pok = << >>
    BY <1>4, ProofFacts
  <2>2. Parse(type, b) = [words |-> p.words, commitments |-> << >>, pok |-> << >>]
    BY <1>3, <1>4 DEF Parse, ParseGroth16Proof
  <2> QED BY <1>1, <1>2, <1>4, <2>1, <2>2 DEF Parses
<1>5. CASE type = "groth16-commitment" /\ Len(p.commitments) = 2
  <2>1. /\ CommitmentCount(b) = NbCommitments
        /\ WordsOf(b, AfterCount, 2) = p.commitments
        /\ WordsOf(b, AfterCount + 2 * FpSize, 2) = p.pok
    BY <1>5, ParsedCommitments
  <2>2. Parse(type, b) = [words |-> p.words, commitments |-> p.commitments, pok |-> p.pok]
    BY <1>3, <1>5, <2>1 DEF Parse, ParseGroth16CommitmentProof
  <2> QED BY <1>1, <1>2, <1>5, <2>1, <2>2 DEF Parses
<1> QED BY <1>4, <1>5 DEF Matches

\* A proof that was parsed, encoded for the contract and decoded there.
LEMMA DecodedProof ==
    ASSUME NEW r, r = [words |-> r.words, commitments |-> r.commitments, pok |-> r.pok],
           r.words \in Seq(Words), Len(r.words) = 8,
           r.commitments \in Seq(Words), r.pok \in Seq(Words),
           NEW type \in {"groth16", "groth16-commitment"},
           type = "groth16" => Len(r.commitments) = 0 /\ Len(r.pok) = 0,
           type # "groth16" => Len(r.commitments) = 2 /\ Len(r.pok) = 2,
           NEW system \in {"groth16", "groth16-commitment"},
           NEW zkp, zkp = EncodeEthABI(r)
    PROVE  /\ ~Reverts(system, zkp) =>
                 /\ Decoded(system, zkp).words = r.words
                 /\ system = "groth16-commitment" => type = system
           /\ system = type => ~Reverts(system, zkp) /\ Decoded(system, zkp) = r
PROOF
<1>1. FpSize \in Nat \ {0}
  BY BaseFacts
<1>2. PICK ws \in Seq(Words), cs \in Seq(Words), ks \in Seq(Words) :
          ws = r.words /\ cs = r.commitments /\ ks = r.pok
  OBVIOUS
<1>3. /\ Len(ws) = 8 /\ zkp = Pack(ws \o cs \o ks)
      /\ (Len(cs) = 0 /\ Len(ks) = 0) \/ (Len(cs) = 2 /\ Len(ks) = 2)
  BY <1>2 DEF EncodeEthABI
<1>4. /\ Len(zkp) = (IF Len(cs) = 0 THEN 8 ELSE 12) * FpSize
      /\ WordsOf(zkp, 0, 8) = ws
      /\ Len(cs) = 2 => /\ WordsOf(zkp, FpSize * 8, 2) = cs
                        /\ WordsOf(zkp, FpSize * 10, 2) = ks
  BY <1>3, EncodedFacts
<1>5. Decoded(system, zkp).words = r.words
  BY <1>2, <1>4 DEF Decoded
<1>6. CASE type = "groth16"
  <2>1. Len(cs) = 0 /\ Len(zkp) = 8 * FpSize
    BY <1>2, <1>4, <1>6
  <2>2. Reverts("groth16-commitment", zkp) /\ ~Reverts("groth16", zkp)
    BY <1>1, <2>1 DEF Reverts
  <2>3. cs = << >> /\ ks = << >>
    BY <1>2, <1>6, EmptySeq
  <2>4. Decoded("groth16", zkp) = [words |-> ws, commitments |-> cs, pok |-> ks]
    BY <1>4, <2>3 DEF Decoded
  <2> QED BY <1>2, <1>5, <1>6, <2>2, <2>4
<1>7. CASE type = "groth16-commitment"
  <2>1. Len(cs) = 2 /\ Len(zkp) = 12 * FpSize
    BY <1>2, <1>4, <1>7
  <2>2. ~Reverts("groth16-commitment", zkp)
    BY <1>1, <2>1 DEF Reverts
  <2>3. Decoded("groth16-commitment", zkp) = [words |-> ws, commitments |-> cs, pok |-> ks]
    BY <1>4, <2>1 DEF Decoded
  <2> QED BY <1>2, <1>5, <1>7, <2>2, <2>3
<1> QED BY <1>6, <1>7

\* A contract with a verifier cannot decode a mock proof.
LEMMA MockReverts ==
    ASSUME NEW system \in {"groth16", "groth16-commitment"}
    PROVE  Reverts(system, MockProof)
PROOF
<1>1. FpSize \in Nat \ {0} /\ Len(MockProof) = 3
  BY BaseFacts DEF MockProof
<1> QED BY <1>1 DEF Reverts

-----------------------------------------------------------------------------
(* The inductive invariant *)

\* A record of a call: only its fields are known.
IsCall(c) ==
    c = [pc |-> c.pc, made |-> c.made, bytes |-> c.bytes, input |-> c.input,
         genuine |-> c.genuine, zkp |-> c.zkp]

\* What the relayer was built from has been validated.
RelayerInv ==
    /\ config \in Configs
    /\ contract \in Contracts
    /\ relayer # "off" => Validate(config)

\* What a call holds while its answer is worked on: the proof, as far as it was
\* not lost on the way.
AnswerInv ==
    call.pc = "answered" =>
        /\ relayer # "off"
        /\ config.proverType # "mock"
        /\ call.made \in Proofs
        /\ call.input \in {LostInput, CircuitInput}
        /\ Prefix(call.bytes, MarshalSolidity(call.made))
        /\ call.genuine => /\ call.bytes = MarshalSolidity(call.made)
                           /\ call.input = CircuitInput

CallInv ==
    /\ IsCall(call)
    /\ call.pc = "idle" => call.genuine = FALSE
    /\ AnswerInv

IInv ==
    /\ RelayerInv
    /\ CallInv
    /\ CrashOnlyOnForeignAnswer
    /\ GenuineProofDelivered
    /\ DecodedWordsGenuine
    /\ ShortDigestStops

LEMMA InitIInv == Init => IInv
PROOF
<1> SUFFICES ASSUME Init PROVE IInv
  OBVIOUS
<1>1. call.pc = "idle" /\ call.genuine = FALSE /\ IsCall(call)
  BY DEF Init, NoCall, IsCall
<1>2. RelayerInv /\ CallInv
  BY <1>1 DEF Init, RelayerInv, CallInv, AnswerInv
<1>3. CrashOnlyOnForeignAnswer
  BY DEF Init, CrashOnlyOnForeignAnswer
<1>4. GenuineProofDelivered
  BY <1>1 DEF GenuineProofDelivered
<1>5. DecodedWordsGenuine
  BY <1>1 DEF DecodedWordsGenuine
<1>6. ShortDigestStops
  BY <1>1 DEF Init, ShortDigestStops
<1> QED BY <1>2, <1>3, <1>4, <1>5, <1>6 DEF IInv

\* A call that ends keeps what it was answered.
LEMMA CallEnds ==
    ASSUME IsCall(call), NEW pc, NEW zkp, Ends(pc, zkp)
    PROVE  /\ IsCall(call')
           /\ call'.pc = pc /\ call'.zkp = zkp
           /\ call'.made = call.made /\ call'.genuine = call.genuine
PROOF
<1>1. PICK c : c = [call EXCEPT !.pc = pc, !.zkp = zkp]
  OBVIOUS
<1>2. /\ IsCall(c) /\ c.pc = pc /\ c.zkp = zkp
      /\ c.made = call.made /\ c.genuine = call.genuine
  BY <1>1 DEF IsCall
<1>3. call' = c
  BY <1>1 DEF Ends
<1> QED BY <1>2, <1>3

\* Steps that leave the call and the configuration alone.
LEMMA CallKept ==
    ASSUME IInv, UNCHANGED << config, contract, call >>
    PROVE  /\ GenuineProofDelivered' /\ DecodedWordsGenuine'
           /\ (relayer # "off" => relayer' # "off") => CallInv'
PROOF
<1>1. GenuineProofDelivered'
  BY DEF IInv, GenuineProofDelivered
<1>2. DecodedWordsGenuine'
  BY DEF IInv, DecodedWordsGenuine
<1>3. (relayer # "off" => relayer' # "off") => CallInv'
  BY DEF IInv, CallInv, AnswerInv, IsCall
<1> QED BY <1>1, <1>2, <1>3

LEMMA LoadConfigIInv == ASSUME IInv, LoadConfig PROVE IInv'
PROOF
<1>1. RelayerInv' /\ relayer' = "validated"
  BY DEF LoadConfig, IInv, RelayerInv
<1>2. CallInv' /\ GenuineProofDelivered' /\ DecodedWordsGenuine'
  BY <1>1, CallKept DEF LoadConfig
<1>3. CrashOnlyOnForeignAnswer'
  BY <1>1 DEF CrashOnlyOnForeignAnswer
<1>4. ShortDigestStops'
  BY DEF LoadConfig, IInv, ShortDigestStops
<1> QED BY <1>1, <1>2, <1>3, <1>4 DEF IInv

\* Build does not panic: Validate has decoded both digests.
LEMMA NewProverIInv == ASSUME IInv, NewProver PROVE IInv'
PROOF
<1>1. Malformed \notin {config.step, config.skip}
  BY Zenon DEF NewProver, IInv, RelayerInv, Validate
<1>2. RelayerInv' /\ relayer' = "up"
  BY <1>1 DEF NewProver, IInv, RelayerInv
<1>3. CallInv' /\ GenuineProofDelivered' /\ DecodedWordsGenuine'
  BY <1>2, CallKept DEF NewProver
<1>4. CrashOnlyOnForeignAnswer'
  BY <1>2 DEF CrashOnlyOnForeignAnswer
<1>5. ShortDigestStops'
  BY DEF NewProver, IInv, ShortDigestStops
<1> QED BY <1>2, <1>3, <1>4, <1>5 DEF IInv

LEMMA CreateIInv == ASSUME IInv, CreateInitialLightClientState PROVE IInv'
PROOF
<1>1. RelayerInv' /\ relayer' = "up"
  BY DEF CreateInitialLightClientState, IInv, RelayerInv
<1>2. CallInv' /\ GenuineProofDelivered' /\ DecodedWordsGenuine'
  BY <1>1, CallKept DEF CreateInitialLightClientState
<1>3. CrashOnlyOnForeignAnswer'
  BY <1>1 DEF CrashOnlyOnForeignAnswer
<1>4. ShortDigestStops'
  BY DEF CreateInitialLightClientState, IInv, ShortDigestStops
<1> QED BY <1>1, <1>2, <1>3, <1>4 DEF IInv

LEMMA ProveMockIInv == ASSUME IInv, ProveMock PROVE IInv'
PROOF
<1>1. /\ IsCall(call') /\ call'.pc = "proved" /\ call'.zkp = MockProof
      /\ call'.genuine = FALSE
  BY CallEnds DEF ProveMock, IInv, CallInv
<1>2. RelayerInv' /\ relayer' = "up"
  BY DEF ProveMock, IInv, RelayerInv
<1>3. CallInv'
  BY <1>1 DEF CallInv, AnswerInv
<1>4. CrashOnlyOnForeignAnswer'
  BY <1>2 DEF CrashOnlyOnForeignAnswer
<1>5. GenuineProofDelivered'
  BY <1>1 DEF GenuineProofDelivered
<1>6. DecodedWordsGenuine'
  <2>1. contract' # "mock" => contract' \in {"groth16", "groth16-commitment"}
    BY <1>2, ProofClientAssumption DEF RelayerInv
  <2> QED BY <1>1, <2>1, MockReverts DEF DecodedWordsGenuine
<1>7. ShortDigestStops'
  BY DEF ProveMock, IInv, ShortDigestStops
<1> QED BY <1>2, <1>3, <1>4, <1>5, <1>6, <1>7 DEF IInv

\* An answer that came in.
LEMMA AnsweredIInv ==
    ASSUME IInv, relayer = "up", config.proverType # "mock",
           UNCHANGED << config, relayer, client, contract >>,
           IsCall(call'), call'.pc = "answered", AnswerInv'
    PROVE  IInv'
PROOF
<1>1. RelayerInv' /\ relayer' = "up"
  BY DEF IInv, RelayerInv
<1>2. CallInv'
  BY DEF CallInv
<1>3. CrashOnlyOnForeignAnswer'
  BY <1>1 DEF CrashOnlyOnForeignAnswer
<1>4. GenuineProofDelivered' /\ DecodedWordsGenuine'
  BY DEF GenuineProofDelivered, DecodedWordsGenuine
<1>5. ShortDigestStops'
  BY DEF IInv, ShortDigestStops
<1> QED BY <1>1, <1>2, <1>3, <1>4, <1>5 DEF IInv

LEMMA AnswerGenuineIInv == ASSUME IInv, NEW p \in Proofs, AnswerGenuine(p) PROVE IInv'
PROOF
<1>1. /\ IsCall(call') /\ call'.pc = "answered" /\ call'.made = p
      /\ call'.bytes = MarshalSolidity(p) /\ call'.input = CircuitInput
  <2>1. PICK c : c = [NoCall EXCEPT !.pc = "answered", !.made = p, !.genuine = TRUE,
                              !.bytes = MarshalSolidity(p), !.input = CircuitInput]
    OBVIOUS
  <2>2. /\ IsCall(c) /\ c.pc = "answered" /\ c.made = p
        /\ c.bytes = MarshalSolidity(p) /\ c.input = CircuitInput
    BY <2>1 DEF IsCall, NoCall
  <2>3. call' = c
    BY <2>1 DEF AnswerGenuine
  <2> QED BY <2>2, <2>3
<1>2. Prefix(MarshalSolidity(p), MarshalSolidity(p))
  <2>1. PICK m : m = MarshalSolidity(p)
    OBVIOUS
  <2>2. m \in Seq(Digits) /\ Len(m) \in Nat
    BY <2>1, MarshalFacts, LenProperties
  <2>3. Prefix(m, m)
    BY <2>2 DEF Prefix
  <2> QED BY <2>1, <2>3
<1>3. AnswerInv'
  BY <1>1, <1>2 DEF AnswerInv, AnswerGenuine, CircuitInput, LostInput
<1> QED BY <1>1, <1>3, AnsweredIInv DEF AnswerGenuine

LEMMA AnswerPartialIInv ==
    ASSUME IInv, NEW p \in Proofs, NEW n \in 0 .. Len(MarshalSolidity(p)),
           NEW input \in {LostInput, CircuitInput}, AnswerPartial(p, n, input)
    PROVE  IInv'
PROOF
<1>1. /\ IsCall(call') /\ call'.pc = "answered" /\ call'.made = p
      /\ call'.bytes = SubSeq(MarshalSolidity(p), 1, n) /\ call'.input = input
      /\ call'.genuine = FALSE
  <2>1. PICK c : c = [NoCall EXCEPT !.pc = "answered", !.made = p,
                              !.bytes = SubSeq(MarshalSolidity(p), 1, n), !.input = input]
    OBVIOUS
  <2>2. /\ IsCall(c) /\ c.pc = "answered" /\ c.made = p
        /\ c.bytes = SubSeq(MarshalSolidity(p), 1, n) /\ c.input = input
        /\ c.genuine = FALSE
    BY <2>1 DEF IsCall, NoCall
  <2>3. call' = c
    BY <2>1 DEF AnswerPartial
  <2> QED BY <2>2, <2>3
<1>2. Prefix(SubSeq(MarshalSolidity(p), 1, n), MarshalSolidity(p))
  BY MarshalFacts, CutPrefix
<1>3. AnswerInv'
  BY <1>1, <1>2 DEF AnswerInv, AnswerPartial, CircuitInput, LostInput
<1> QED BY <1>1, <1>3, AnsweredIInv DEF AnswerPartial

LEMMA AnswerFailsIInv == ASSUME IInv, AnswerFails PROVE IInv'
PROOF
<1>1. IsCall(call') /\ call'.pc = "error" /\ call'.genuine = FALSE
  BY CallEnds DEF AnswerFails, IInv, CallInv
<1>2. RelayerInv' /\ relayer' = "up"
  BY DEF AnswerFails, IInv, RelayerInv
<1>3. CallInv'
  BY <1>1 DEF CallInv, AnswerInv
<1>4. CrashOnlyOnForeignAnswer'
  BY <1>2 DEF CrashOnlyOnForeignAnswer
<1>5. GenuineProofDelivered' /\ DecodedWordsGenuine'
  BY <1>1 DEF GenuineProofDelivered, DecodedWordsGenuine
<1>6. ShortDigestStops'
  BY <1>1 DEF AnswerFails, IInv, ShortDigestStops
<1> QED BY <1>2, <1>3, <1>4, <1>5, <1>6 DEF IInv

\* What a call was answered that is about to end.
LEMMA EndingFacts ==
    ASSUME IInv, call.pc = "answered"
    PROVE  /\ IsCall(call) /\ relayer # "off" /\ config.proverType # "mock"
           /\ call.made \in Proofs
           /\ call.input \in {LostInput, CircuitInput}
           /\ Prefix(call.bytes, MarshalSolidity(call.made))
           /\ call.genuine => /\ call.bytes = MarshalSolidity(call.made)
                              /\ call.input = CircuitInput
PROOF
BY DEF IInv, CallInv, AnswerInv

\* The inputs that Prove compares are numbers; equal numbers have equal bytes.
LEMMA SameInputSameDigest ==
    ASSUME RelayerInv, relayer # "off", NEW input \in {LostInput, CircuitInput}
    PROVE  /\ SameInput(OwnInput, input) => DigestInput(config.step[1]) = Digest
           /\ config.step = << Digest >> => SameInput(OwnInput, CircuitInput)
PROOF
<1>1. PICK d : d = config.step[1]
  OBVIOUS
<1>2. FpSize \in Sizes /\ FpSize \in Nat \ {0} /\ Base \in Nat /\ Base > 1
      /\ Digest \in [1 .. FpSize -> Digits]
  BY BaseFacts, ProofClientAssumption DEF Digits
<1>3. d \in Seq(Digits)
  BY <1>1, ConfigsAssumption, Zenon DEF RelayerInv, Validate, Malformed, Digits
<1>4. DigestInput(d) \in [1 .. FpSize -> Digits]
  <2>1. Len(d) \in Nat /\ \A i \in 1 .. Len(d) : d[i] \in Digits
    BY <1>3, LenProperties, ElementOfSeq
  <2>2. 0 \in Digits
    BY <1>2 DEF Digits
  <2>3. \A i \in 1 .. FpSize : (IF i <= Len(d) THEN d[i] ELSE 0) \in Digits
    BY <1>2, <2>1, <2>2
  <2> QED BY <2>3 DEF DigestInput
<1>5. ASSUME SameInput(OwnInput, input) PROVE DigestInput(d) = Digest
  <2>1. input = CircuitInput
    BY <1>5 DEF SameInput, OwnInput, LostInput, CircuitInput
  <2>2. Number(DigestInput(d)) = Number(Digest)
    BY <1>1, <1>5, <2>1 DEF SameInput, OwnInput, CircuitInput
  <2>3. /\ Bytes(Number(DigestInput(d)), FpSize) = DigestInput(d)
        /\ Bytes(Number(Digest), FpSize) = Digest
    BY <1>2, <1>4, BytesOfNumber
  <2> QED BY <2>2, <2>3
<1>6. ASSUME config.step = << Digest >> PROVE SameInput(OwnInput, CircuitInput)
  <2>1. d = Digest
    BY <1>1, <1>6
  <2>2. Len(Digest) = FpSize
    BY <1>2, SeqDef
  <2>3. DigestInput(d) = [i \in 1 .. FpSize |-> Digest[i]]
    BY <1>2, <2>1, <2>2 DEF DigestInput
  <2>4. DigestInput(d) = Digest
    BY <1>2, <2>3
  <2> QED BY <1>1, <2>4 DEF SameInput, OwnInput, CircuitInput
<1> QED BY <1>1, <1>5, <1>6

\* The process ends on a slice that is out of bounds, which a whole proof of the
\* configured system never leads to.
LEMMA ProvePanicsIInv == ASSUME IInv, ProvePanics PROVE IInv'
PROOF
<1>1. call.pc = "answered" /\ UNCHANGED << config, client, contract >>
      /\ relayer' = "crashed"
  BY DEF ProvePanics
<1>2. /\ IsCall(call') /\ call'.pc = "panicked"
      /\ call'.made = call.made /\ call'.genuine = call.genuine
  BY <1>1, EndingFacts, CallEnds DEF ProvePanics
<1>3. call.genuine => /\ config.proverType = "groth16-commitment"
                      /\ call.made.commitments = << >>
  BY <1>1, EndingFacts, GenuinePanics DEF ProvePanics
<1>4. RelayerInv'
  BY <1>1, EndingFacts DEF IInv, RelayerInv
<1>5. CallInv'
  BY <1>2 DEF CallInv, AnswerInv
<1>6. CrashOnlyOnForeignAnswer'
  BY <1>1, <1>2, <1>3 DEF CrashOnlyOnForeignAnswer
<1>7. GenuineProofDelivered'
  <2>1. ~(call.genuine /\ Matches(config.proverType, call.made))
    BY <1>3, EmptySeq DEF Matches
  <2> QED BY <1>1, <1>2, <2>1 DEF GenuineProofDelivered, Matches
<1>8. DecodedWordsGenuine'
  BY <1>2 DEF DecodedWordsGenuine
<1>9. ShortDigestStops'
  BY <1>1, <1>2 DEF IInv, ShortDigestStops
<1> QED BY <1>4, <1>5, <1>6, <1>7, <1>8, <1>9 DEF IInv

LEMMA ProvedIInv == ASSUME IInv, Proved PROVE IInv'
PROOF
<1>1. call.pc = "answered" /\ UNCHANGED << config, relayer, client, contract >>
  BY DEF Proved
<1>2. PICK p, b, r, type :
          /\ p = call.made /\ b = call.bytes /\ type = config.proverType
          /\ p \in Proofs /\ r = Parse(type, b)
  BY <1>1, EndingFacts
<1>3. PICK zkp : zkp = EncodeEthABI(r)
  OBVIOUS
<1>4. /\ IsCall(call') /\ call'.pc = "proved" /\ call'.zkp = zkp
      /\ call'.made = p /\ call'.genuine = call.genuine
  BY <1>1, <1>2, <1>3, EndingFacts, CallEnds DEF Proved
<1>5. /\ type \in {"groth16", "groth16-commitment"}
      /\ r = [words |-> r.words, commitments |-> r.commitments, pok |-> r.pok]
      /\ r.words = p.words
      /\ r.commitments \in Seq(Words) /\ r.pok \in Seq(Words)
      /\ type = "groth16" => Len(r.commitments) = 0 /\ Len(r.pok) = 0
      /\ type # "groth16" => Len(r.commitments) = 2 /\ Len(r.pok) = 2
  <2>1. Prefix(b, MarshalSolidity(p)) /\ ~Panics(type, b) /\ Parses(type, b)
    BY <1>1, <1>2, EndingFacts DEF Proved
  <2> QED BY <1>2, <2>1, ParsedProof
<1>6. r.words \in Seq(Words) /\ Len(r.words) = 8
  BY <1>2, <1>5, ProofFacts
<1>7. ASSUME NEW system \in {"groth16", "groth16-commitment"}
      PROVE  /\ ~Reverts(system, zkp) =>
                   /\ Decoded(system, zkp).words = p.words
                   /\ system = "groth16-commitment" => type = system
             /\ system = type => ~Reverts(system, zkp) /\ Decoded(system, zkp) = r
  BY <1>3, <1>5, <1>6, DecodedProof
<1>8. RelayerInv'
  BY <1>1 DEF IInv, RelayerInv
<1>9. contract' # "mock" => contract' \in {"groth16", "groth16-commitment"}
  BY <1>8, ProofClientAssumption DEF RelayerInv
<1>10. CallInv'
  BY <1>4 DEF CallInv, AnswerInv
<1>11. CrashOnlyOnForeignAnswer'
  BY <1>1 DEF IInv, CrashOnlyOnForeignAnswer
<1>12. GenuineProofDelivered'
  <2>1. ASSUME call.genuine, Matches(type, p) PROVE r = p
    <3>1. b = MarshalSolidity(p)
      BY <1>1, <1>2, <2>1, EndingFacts
    <3> QED BY <1>2, <2>1, <3>1, GenuineParsed
  <2>2. contract' = type => ~Reverts(type, zkp) /\ Decoded(type, zkp) = r
    BY <1>5, <1>7
  <2> QED BY <1>1, <1>2, <1>4, <2>1, <2>2 DEF GenuineProofDelivered, Matches
<1>13. DecodedWordsGenuine'
  <2>1. type # "mock"
    BY <1>5
  <2> QED BY <1>1, <1>2, <1>4, <1>7, <1>9, <2>1 DEF DecodedWordsGenuine
<1>14. ShortDigestStops'
  <2>1. DigestInput(config.step[1]) = Digest
    BY <1>1, EndingFacts, SameInputSameDigest DEF Proved, IInv
  <2> QED BY <1>1, <2>1 DEF IInv, ShortDigestStops, DigestInput
<1> QED BY <1>8, <1>10, <1>11, <1>12, <1>13, <1>14 DEF IInv

LEMMA ProveFailsIInv == ASSUME IInv, ProveFails PROVE IInv'
PROOF
<1>1. call.pc = "answered" /\ UNCHANGED << config, relayer, client, contract >>
  BY DEF ProveFails
<1>2. /\ IsCall(call') /\ call'.pc = "error"
      /\ call'.made = call.made /\ call'.genuine = call.genuine
  BY <1>1, EndingFacts, CallEnds DEF ProveFails
<1>3. RelayerInv'
  BY <1>1 DEF IInv, RelayerInv
<1>4. CallInv'
  BY <1>2 DEF CallInv, AnswerInv
<1>5. CrashOnlyOnForeignAnswer'
  BY <1>1 DEF IInv, CrashOnlyOnForeignAnswer
<1>6. GenuineProofDelivered'
  <2>1. ASSUME call.genuine, Matches(config.proverType, call.made),
               config.step = << Digest >>
        PROVE  FALSE
    <3>1. call.bytes = MarshalSolidity(call.made) /\ call.input = CircuitInput
      BY <1>1, <2>1, EndingFacts
    <3>2. Parses(config.proverType, call.bytes)
      BY <1>1, <2>1, <3>1, EndingFacts, GenuineParsed
    <3>3. SameInput(OwnInput, call.input)
      BY <1>1, <2>1, <3>1, EndingFacts, SameInputSameDigest DEF IInv
    <3> QED BY <3>2, <3>3 DEF ProveFails
  <2> QED BY <1>1, <1>2, <2>1 DEF GenuineProofDelivered, Matches
<1>7. DecodedWordsGenuine'
  BY <1>2 DEF DecodedWordsGenuine
<1>8. ShortDigestStops'
  BY <1>1, <1>2 DEF IInv, ShortDigestStops
<1> QED BY <1>3, <1>4, <1>5, <1>6, <1>7, <1>8 DEF IInv

LEMMA NextCallIInv == ASSUME IInv, NextCall PROVE IInv'
PROOF
<1>1. IsCall(call') /\ call'.pc = "idle" /\ call'.genuine = FALSE
  BY DEF NextCall, NoCall, IsCall
<1>2. RelayerInv' /\ relayer' = "up"
  BY DEF NextCall, IInv, RelayerInv
<1>3. CallInv'
  BY <1>1 DEF CallInv, AnswerInv
<1>4. CrashOnlyOnForeignAnswer'
  BY <1>2 DEF CrashOnlyOnForeignAnswer
<1>5. GenuineProofDelivered' /\ DecodedWordsGenuine'
  BY <1>1 DEF GenuineProofDelivered, DecodedWordsGenuine
<1>6. ShortDigestStops'
  BY <1>1 DEF NextCall, IInv, ShortDigestStops
<1> QED BY <1>2, <1>3, <1>4, <1>5, <1>6 DEF IInv

LEMMA NextIInv == ASSUME IInv, [Next]_vars PROVE IInv'
PROOF
<1>1. CASE UNCHANGED vars
  <2>1. RelayerInv' /\ (relayer # "off" => relayer' # "off")
    BY <1>1 DEF vars, IInv, RelayerInv
  <2>2. CallInv' /\ GenuineProofDelivered' /\ DecodedWordsGenuine'
    BY <1>1, <2>1, CallKept DEF vars
  <2>3. CrashOnlyOnForeignAnswer' /\ ShortDigestStops'
    BY <1>1 DEF vars, IInv, CrashOnlyOnForeignAnswer, ShortDigestStops
  <2> QED BY <2>1, <2>2, <2>3 DEF IInv
<1>2. CASE Next
  BY <1>2, LoadConfigIInv, NewProverIInv, CreateIInv, ProveMockIInv, AnswerFailsIInv,
     ProvePanicsIInv, ProvedIInv, ProveFailsIInv, NextCallIInv, AnswerGenuineIInv,
     AnswerPartialIInv
  DEF Next
<1> QED BY <1>1, <1>2

LEMMA IInvAlways == Spec => []IInv
PROOF
<1>1. IInv /\ [Next]_vars => IInv'
  BY NextIInv
<1> QED BY InitIInv, <1>1, PTL DEF Spec

-----------------------------------------------------------------------------
(* The theorems *)

\* For every configuration, every length of field elements and every answer, the
\* relayer crashes only in Prove (go/relay/zkprover.go), and on a whole proof only
\* where it expects commitments (go/relay/zkp/groth16) that gnark did not make.
THEOREM CrashOnlyInProve == Spec => []CrashOnlyOnForeignAnswer
PROOF
<1>1. IInv => CrashOnlyOnForeignAnswer
  BY DEF IInv
<1> QED BY IInvAlways, <1>1, PTL

\* For every proof that gnark can make for the configured system, a call with the
\* circuit's digest succeeds, and the contract of that system decodes the very
\* proof: MarshalSolidity, Parse, EncodeEthABI and abi.decode compose to the
\* identity, whatever the words, the base and the length of field elements.
THEOREM GenuineAlwaysDelivered == Spec => []GenuineProofDelivered
PROOF
<1>1. IInv => GenuineProofDelivered
  BY DEF IInv
<1> QED BY IInvAlways, <1>1, PTL

\* Whatever the relayer's prover type is and wherever an answer was cut off, a
\* contract with a verifier reverts or decodes words that gnark made.
THEOREM DecodedAlwaysGenuine == Spec => []DecodedWordsGenuine
PROOF
<1>1. IInv => DecodedWordsGenuine
  BY DEF IInv
<1> QED BY IInvAlways, <1>1, PTL

\* For every digest that the configuration may hold, of any length, no client state
\* has a digest of another length than the circuit's, and Prove returns a proof
\* only where the digest, cut off or filled up, is the circuit's.
THEOREM ShortDigestAlwaysStops == Spec => []ShortDigestStops
PROOF
<1>1. IInv => ShortDigestStops
  BY DEF IInv
<1> QED BY IInvAlways, <1>1, PTL

=============================================================================
