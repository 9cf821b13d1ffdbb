------------------------- MODULE GnarkServiceProofs -------------------------
(***************************************************************************)
(* Proofs about GnarkService, for any number of requests, setups and bodies, *)
(* for files of any length and for hashes of any length.                    *)
(***************************************************************************)
EXTENDS GnarkService, SharedLemmas

Processes == {Service, Command}
FileNames == {Files[i] : i \in 1 .. 4}

FileType   == [exists : BOOLEAN, parts : Seq(Nat)]
SetupType  == [pc : {"none", "create", "write", "ok", "error"}, run : Nat,
               file : 1 .. 4, at : Nat]
EndingType == [pc : {"none", "ok", "error", "running"}, run : Nat]
ProverType == [pc : {"down", "r1cs", "pk", "up"}, cs : Seq(Nat), pk : Seq(Nat),
               after : EndingType]

\* A record of a request: only its stage and its process have a type.
IsRequest(q) ==
    /\ q = [pc |-> q.pc, body |-> q.body, at |-> q.at, input |-> q.input]
    /\ q.at \in Processes

TypeInv ==
    /\ disk \in [FileNames -> FileType]
    /\ setup \in SetupType
    /\ provers \in [Processes -> ProverType]
    /\ requests = [r \in Requests |-> requests[r]]
    /\ \A r \in Requests : IsRequest(requests[r])
    /\ mu \in Requests \cup {NoRequest}

\* The first k parts of a file of setup n.
Written(n, k) == [i \in 1 .. k |-> n]

OfSomeSetup(parts) == \E n \in Nat, k \in 0 .. FileParts : parts = Written(n, k)

\* Every file begins with parts of one setup, and has no others.
DiskInv == \A f \in FileNames : OfSomeSetup(disk[f].parts)

\* Where the setup is in the file it writes.
PositionInv ==
    /\ setup.pc = "create" => setup.at = 0
    /\ setup.pc = "write" =>
          setup.at < FileParts /\ disk[File].parts = Written(setup.run, setup.at)

\* What the current setup has written: the circuit and the contract to the end,
\* because it would have stopped otherwise, and of the proving key what it could,
\* if it could open the file at all.
WrittenInv ==
    /\ (Running /\ setup.file > 1) \/ setup.pc = "ok" =>
          disk["r1cs"].parts = Whole(setup.run)
    /\ (Running /\ setup.file > 3) \/ setup.pc = "ok" =>
          disk["sol"].parts = Whole(setup.run)
    /\ setup.pc = "ok" /\ setup.run \notin lost =>
          \E k \in 0 .. FileParts : disk["pk"].parts = Written(setup.run, k)

SetupInv == DiskInv /\ PositionInv /\ WrittenInv

Begins(s, t) == Len(s) <= Len(t) /\ \A i \in 1 .. Len(s) : s[i] = t[i]

\* No setup has run since the process began to load: what it has read is still there.
Undisturbed(q) ==
    /\ ~Running /\ q.after = Ending
    /\ Begins(q.cs, disk["r1cs"].parts) /\ Begins(q.pk, disk["pk"].parts)

AllOf(q, n) == q.cs = Whole(n) /\ q.pk = Whole(n)

ReadWell(q) ==
    /\ q.pc \in {"r1cs", "pk"} /\ q.after # NoEnding => Undisturbed(q)
    /\ q.pc = "pk" => Len(q.cs) = FileParts
    /\ q.pc = "up" /\ q.after # NoEnding => OfOneSetup(q.cs) /\ OfOneSetup(q.pk)
    /\ q.pc = "up" /\ q.after.pc = "ok" /\ q.after.run \notin lost => AllOf(q, q.after.run)

ReadInv == \A p \in Processes : ReadWell(provers[p])

IInv == TypeInv /\ SetupInv /\ ReadInv /\ MutexHeldByProver

-----------------------------------------------------------------------------
(* Parts of files *)

LEMMA PartsFacts == FileParts \in Nat \ {0}
PROOF
BY GnarkAssumption

LEMMA WrittenFacts ==
    ASSUME NEW n \in Nat, NEW k \in Nat
    PROVE  /\ Written(n, k) \in Seq(Nat) /\ Len(Written(n, k)) = k
           /\ DOMAIN Written(n, k) = 1 .. k
           /\ \A i \in 1 .. k : Written(n, k)[i] = n
PROOF
<1>1. Written(n, k) \in [1 .. k -> Nat]
  BY DEF Written
<1> QED BY <1>1, SeqDef DEF Written

\* Writing at the end of what is written.
LEMMA WrittenMore ==
    ASSUME NEW n \in Nat, NEW k \in Nat
    PROVE  [i \in DOMAIN Written(n, k) \cup {k + 1} |->
               IF i = k + 1 THEN n ELSE Written(n, k)[i]] = Written(n, k + 1)
PROOF
<1>1. DOMAIN Written(n, k) \cup {k + 1} = 1 .. k + 1
  <2>1. DOMAIN Written(n, k) = 1 .. k
    BY WrittenFacts
  <2>2. (1 .. k) \cup {k + 1} = 1 .. k + 1
    OBVIOUS
  <2> QED BY <2>1, <2>2
<1>2. \A i \in 1 .. k + 1 : (IF i = k + 1 THEN n ELSE Written(n, k)[i]) = n
  BY WrittenFacts
<1> QED BY <1>1, <1>2 DEF Written

LEMMA WholeWritten == \A n : Whole(n) = Written(n, FileParts)
PROOF
BY DEF Whole, Written

LEMMA WholeOfOne ==
    ASSUME NEW n \in Nat
    PROVE  OfOneSetup(Whole(n))
PROOF
BY PartsFacts, WrittenFacts, WholeWritten DEF OfOneSetup

\* Who has read as much as a whole file from the beginning of one that one setup
\* wrote has all of that setup's file.
LEMMA ReadOut ==
    ASSUME NEW s \in Seq(Nat), NEW n \in Nat, NEW k \in 0 .. FileParts,
           Begins(s, Written(n, k)), Len(s) = FileParts
    PROVE  s = Whole(n)
PROOF
<1>1. k \in Nat /\ k = FileParts
  BY PartsFacts, WrittenFacts DEF Begins
<1>2. \A i \in 1 .. FileParts : s[i] = n
  BY <1>1, WrittenFacts DEF Begins
<1>3. s = [i \in 1 .. Len(s) |-> s[i]]
  OBVIOUS
<1> QED BY <1>2, <1>3 DEF Whole

-----------------------------------------------------------------------------
(* The files *)

\* The four files have different names.
LEMMA FileFacts ==
    /\ \A i \in 1 .. 4 : Files[i] \in FileNames
    /\ \A i, j \in 1 .. 4 : Files[i] = Files[j] => i = j
    /\ Files[1] = "r1cs" /\ Files[2] = "vk" /\ Files[3] = "sol" /\ Files[4] = "pk"
    /\ {"r1cs", "vk", "sol", "pk"} = FileNames
PROOF
<1>1. Files[1] = "r1cs" /\ Files[2] = "vk" /\ Files[3] = "sol" /\ Files[4] = "pk"
  BY DEF Files
<1>2. \A i \in 1 .. 4 : i = 1 \/ i = 2 \/ i = 3 \/ i = 4
  OBVIOUS
<1> QED BY <1>1, <1>2 DEF FileNames

\* NextFile moves on by one file, or ends after the last.
LEMMA NextFileFacts ==
    ASSUME TypeInv
    PROVE  /\ NextFile \in SetupType
           /\ NextFile.run = setup.run /\ NextFile.at = 0
           /\ \/ setup.file < 4 /\ NextFile.pc = "create"
                   /\ NextFile.file = setup.file + 1
              \/ setup.file = 4 /\ NextFile.pc = "ok"
PROOF
<1>1. PICK n \in 1 .. 4 : n = setup.file
  BY DEF TypeInv, SetupType
<1>2. CASE n < 4
  <2>1. PICK m \in 1 .. 4 : m = n + 1
    BY <1>2
  <2>2. NextFile = [setup EXCEPT !.pc = "create", !.file = m, !.at = 0]
    BY <1>1, <1>2, <2>1 DEF NextFile
  <2>3. PICK next : next = [setup EXCEPT !.pc = "create", !.file = m, !.at = 0]
    OBVIOUS
  <2>4. /\ next.run = setup.run /\ next.pc = "create" /\ next.file = m /\ next.at = 0
        /\ next \in SetupType
    BY <2>3 DEF TypeInv, SetupType
  <2> QED BY <1>1, <1>2, <2>1, <2>2, <2>3, <2>4
<1>3. CASE n = 4
  <2>1. PICK next : next = [setup EXCEPT !.pc = "ok", !.at = 0]
    OBVIOUS
  <2>2. next.run = setup.run /\ next.pc = "ok" /\ next.at = 0 /\ next \in SetupType
    BY <2>1 DEF TypeInv, SetupType
  <2> QED BY <1>1, <1>3, <2>1, <2>2 DEF NextFile
<1> QED BY <1>1, <1>2, <1>3

LEMMA FailsFacts ==
    ASSUME TypeInv
    PROVE  Fails \in SetupType /\ Fails.pc = "error" /\ Fails.run = setup.run
PROOF
BY DEF TypeInv, SetupType, Fails

-----------------------------------------------------------------------------
(* Initial states *)

LEMMA EndingFacts ==
    ASSUME TypeInv
    PROVE  /\ Ending \in EndingType /\ NoEnding \in EndingType
           /\ ~Running => /\ Ending.pc = setup.pc /\ Ending.run = setup.run
                          /\ Ending # NoEnding
           /\ NoEnding.pc = "running"
PROOF
BY DEF TypeInv, SetupType, EndingType, Ending, NoEnding, Running

LEMMA DownFacts ==
    /\ Down \in ProverType /\ Down.pc = "down"
    /\ Down.cs = << >> /\ Down.pk = << >>
PROOF
BY DEF Down, ProverType, EndingType, NoEnding

\* A process that is down has read nothing.
LEMMA DownReadsWell == \A q : q.pc = "down" => ReadWell(q)
PROOF
BY DEF ReadWell

LEMMA InitIInv == Init => IInv
PROOF
<1> SUFFICES ASSUME Init PROVE IInv
  OBVIOUS
<1>1. TypeInv
  <2>1. Absent \in FileType
    BY DEF Absent, FileType
  <2>2. disk \in [FileNames -> FileType]
    BY <2>1 DEF Init, FileNames
  <2>3. setup \in SetupType
    BY DEF Init, SetupType
  <2>4. provers \in [Processes -> ProverType]
    BY DownFacts DEF Init, Processes
  <2> QED BY <2>2, <2>3, <2>4 DEF Init, TypeInv, IsRequest, Processes, Unsent
<1>2. SetupInv
  <2>1. DiskInv
    <3>1. \A f \in FileNames : disk[f].parts = << >>
      BY DEF Init, FileNames, Absent
    <3>2. Written(0, 0) = << >>
      BY WrittenFacts
    <3> QED BY <3>1, <3>2, PartsFacts DEF DiskInv, OfSomeSetup
  <2>2. PositionInv /\ WrittenInv
    BY DEF Init, PositionInv, WrittenInv, Running
  <2> QED BY <2>1, <2>2 DEF SetupInv
<1>3. ReadInv
  BY DownFacts, DownReadsWell DEF Init, ReadInv, Processes
<1>4. MutexHeldByProver
  BY GnarkAssumption DEF Init, MutexHeldByProver, Unsent
<1> QED BY <1>1, <1>2, <1>3, <1>4 DEF IInv

-----------------------------------------------------------------------------
(* setup *)

\* A part that is written extends what the setup has written.
LEMMA WriteFileFacts ==
    ASSUME IInv, WriteFile
    PROVE  /\ setup.at \in Nat /\ setup.at + 1 \in 0 .. FileParts
           /\ \E q \in FileType : /\ disk' = [disk EXCEPT ![File] = q]
                                  /\ q.parts = Written(setup.run, setup.at + 1)
PROOF
<1> USE DEF IInv
<1>1. PICK n \in Nat, k \in Nat : n = setup.run /\ k = setup.at
  BY DEF TypeInv, SetupType
<1>2. k < FileParts /\ disk[File].parts = Written(n, k)
  BY <1>1 DEF WriteFile, SetupInv, PositionInv
<1>3. File \in FileNames
  BY FileFacts DEF File, TypeInv, SetupType
<1>4. disk[File] \in FileType
  BY <1>3 DEF TypeInv
<1>5. PICK w \in Seq(Nat) : w = Written(n, k + 1)
  <2>1. k + 1 \in Nat
    OBVIOUS
  <2> QED BY <2>1, WrittenFacts
<1>6. PICK q : q = [disk[File] EXCEPT !.parts = w]
  OBVIOUS
<1>7. q \in FileType /\ q.parts = w
  BY <1>4, <1>6 DEF FileType
<1>8. PICK old : old = disk[File].parts
  OBVIOUS
<1>9. [i \in DOMAIN old \cup {k + 1} |-> IF i = k + 1 THEN n ELSE old[i]] = w
  BY <1>2, <1>5, <1>8, WrittenMore
<1>10. disk' = [disk EXCEPT ![File].parts =
                   [i \in DOMAIN old \cup {k + 1} |-> IF i = k + 1 THEN n ELSE old[i]]]
  BY <1>1, <1>8 DEF WriteFile
<1>11. disk' = [disk EXCEPT ![File].parts = w]
  BY <1>9, <1>10
<1>12. disk' = [disk EXCEPT ![File] = q]
  BY <1>6, <1>11
<1>13. k + 1 \in 0 .. FileParts
  BY <1>2, PartsFacts
<1> QED BY <1>1, <1>5, <1>7, <1>12, <1>13

LEMMA SetupTypes ==
    ASSUME IInv, Setup
    PROVE  disk' \in [FileNames -> FileType] /\ setup' \in SetupType
PROOF
<1> USE FileFacts, NextFileFacts, FailsFacts DEF IInv
<1>1. PICK n \in Nat : n = setup.run
  BY DEF TypeInv, SetupType
<1>2. CASE StartSetup
  BY <1>1, <1>2 DEF StartSetup, TypeInv, SetupType
<1>3. CASE CreateFile
  <2>1. [exists |-> TRUE, parts |-> << >>] \in FileType
    BY DEF FileType
  <2> QED BY <1>3, <2>1 DEF CreateFile, TypeInv, SetupType
<1>4. CASE CreateFails \/ WriteFails \/ SetupCrash
  BY <1>4 DEF CreateFails, WriteFails, SetupCrash, TypeInv
<1>5. CASE WriteFile
  <2>1. disk' \in [FileNames -> FileType]
    BY <1>5, WriteFileFacts DEF TypeInv
  <2>2. setup' \in SetupType
    BY <1>5 DEF WriteFile, TypeInv, SetupType
  <2> QED BY <2>1, <2>2
<1> QED BY <1>2, <1>3, <1>4, <1>5 DEF Setup

\* A step after which the setup is at its next file, or over.
LEMMA NextFileKeeps ==
    ASSUME IInv, setup' = NextFile, DiskInv',
           disk'["r1cs"].parts = Whole(setup.run),
           setup.file > 2 => disk'["sol"].parts = Whole(setup.run),
           setup.file = 4 /\ setup.run \notin lost' =>
               \E k \in 0 .. FileParts : disk'["pk"].parts = Written(setup.run, k)
    PROVE  SetupInv'
PROOF
<1> USE DEF IInv
<1>1. /\ setup'.run = setup.run /\ setup'.at = 0
      /\ \/ setup.file < 4 /\ setup'.pc = "create" /\ setup'.file = setup.file + 1
         \/ setup.file = 4 /\ setup'.pc = "ok"
  BY NextFileFacts
<1>2. setup.file \in 1 .. 4
  BY DEF TypeInv, SetupType
<1>3. PositionInv'
  BY <1>1 DEF PositionInv
<1>4. WrittenInv'
  BY <1>1, <1>2 DEF WrittenInv, Running
<1> QED BY <1>3, <1>4 DEF SetupInv

\* A step with which the setup gives up.
LEMMA FailsKeeps ==
    ASSUME IInv, setup' = Fails, disk' = disk
    PROVE  SetupInv'
PROOF
<1>1. setup'.pc = "error"
  BY FailsFacts DEF IInv
<1> QED BY <1>1 DEF IInv, SetupInv, DiskInv, PositionInv, WrittenInv, Running

LEMMA WriteFileKeeps ==
    ASSUME IInv, WriteFile
    PROVE  SetupInv'
PROOF
<1> USE DEF IInv
<1>1. PICK n \in Nat, k \in Nat, i \in Nat :
          n = setup.run /\ k = setup.at /\ i = setup.file
  BY DEF TypeInv, SetupType
<1>2. i \in 1 .. 4 /\ File = Files[i]
  BY <1>1 DEF TypeInv, SetupType, File
<1>3. PICK q \in FileType : /\ disk' = [disk EXCEPT ![File] = q]
                            /\ q.parts = Written(n, k + 1)
  BY <1>1, WriteFileFacts
<1>4. k + 1 \in 0 .. FileParts
  BY <1>1, WriteFileFacts
<1>5. /\ disk'[File] = q
      /\ \A f \in FileNames : f # File => disk'[f] = disk[f]
  BY <1>2, <1>3, FileFacts DEF TypeInv
<1>6. DiskInv'
  BY <1>1, <1>3, <1>4, <1>5 DEF SetupInv, DiskInv, OfSomeSetup
<1>7. /\ i > 1 => disk'["r1cs"].parts = Whole(n)
      /\ i > 3 => disk'["sol"].parts = Whole(n)
  BY <1>1, <1>2, <1>5, FileFacts DEF SetupInv, WrittenInv, WriteFile, Running
<1>8. CASE k + 1 = FileParts
  <2>1. disk'[File].parts = Whole(n)
    BY <1>3, <1>5, <1>8, WholeWritten
  <2>2. disk'["r1cs"].parts = Whole(n)
    BY <1>2, <1>7, <2>1, FileFacts
  <2>3. i > 2 => disk'["sol"].parts = Whole(n)
    BY <1>2, <1>7, <2>1, FileFacts
  <2>4. i = 4 => \E j \in 0 .. FileParts : disk'["pk"].parts = Written(n, j)
    BY <1>2, <1>3, <1>4, <1>5, FileFacts
  <2>5. setup' = NextFile
    BY <1>1, <1>8 DEF WriteFile
  <2> QED BY <1>1, <1>6, <2>2, <2>3, <2>4, <2>5, NextFileKeeps
<1>9. CASE k + 1 # FileParts
  <2>1. setup' = [setup EXCEPT !.at = k + 1]
    BY <1>1, <1>9 DEF WriteFile
  <2>2. /\ setup'.pc = "write" /\ setup'.run = n /\ setup'.file = i
        /\ setup'.at = k + 1
    BY <1>1, <2>1 DEF WriteFile, TypeInv, SetupType
  <2>3. PositionInv'
    BY <1>2, <1>3, <1>4, <1>5, <1>9, <2>2, PartsFacts DEF PositionInv, File
  <2>4. WrittenInv'
    BY <1>7, <2>2 DEF WrittenInv
  <2> QED BY <1>6, <2>3, <2>4 DEF SetupInv
<1> QED BY <1>8, <1>9

LEMMA SetupKeepsSetupInv ==
    ASSUME IInv, Setup
    PROVE  SetupInv'
PROOF
<1> USE DEF IInv
<1>1. PICK n \in Nat, i \in 1 .. 4 : n = setup.run /\ i = setup.file
  <2>1. setup.run \in Nat /\ setup.file \in 1 .. 4
    BY DEF TypeInv, SetupType
  <2> QED BY <2>1
<1>2. File = Files[i]
  BY <1>1 DEF File
<1>3. CASE StartSetup
  BY <1>3 DEF StartSetup, SetupInv, DiskInv, PositionInv, WrittenInv, Running
<1>4. CASE CreateFile
  <2>1. PICK q \in FileType : /\ disk' = [disk EXCEPT ![File] = q]
                              /\ q.parts = << >>
    <3>1. PICK q : q = [exists |-> TRUE, parts |-> << >>]
      OBVIOUS
    <3>2. q \in FileType /\ q.parts = << >>
      BY <3>1 DEF FileType
    <3>3. disk' = [disk EXCEPT ![File] = q]
      BY <1>4, <3>1 DEF CreateFile
    <3> QED BY <3>2, <3>3
  <2>2. /\ disk'[File] = q
        /\ \A f \in FileNames : f # File => disk'[f] = disk[f]
    BY <1>2, <2>1, FileFacts DEF TypeInv
  <2>3. << >> = Written(n, 0)
    BY WrittenFacts
  <2>4. /\ setup'.pc = "write" /\ setup'.run = n /\ setup'.file = i /\ setup'.at = 0
    BY <1>1, <1>4 DEF CreateFile, TypeInv, SetupType, SetupInv, PositionInv
  <2>5. DiskInv'
    BY <2>1, <2>2, <2>3, PartsFacts DEF SetupInv, DiskInv, OfSomeSetup
  <2>6. PositionInv'
    BY <1>2, <2>1, <2>2, <2>3, <2>4, PartsFacts DEF PositionInv, File
  <2>7. WrittenInv'
    BY <1>1, <1>2, <1>4, <2>2, <2>4, FileFacts
    DEF CreateFile, SetupInv, WrittenInv, Running
  <2> QED BY <2>5, <2>6, <2>7 DEF SetupInv
<1>5. CASE CreateFails
  <2>1. CASE File = "pk"
    <3>1. i = 4 /\ n \in lost' /\ disk' = disk /\ setup' = NextFile
      <4>1. i = 4
        <5>1. i = 1 \/ i = 2 \/ i = 3 \/ i = 4
          OBVIOUS
        <5> QED BY <1>2, <2>1, <5>1, FileFacts
      <4> QED BY <1>1, <1>5, <2>1, <4>1 DEF CreateFails
    <3>2. disk["r1cs"].parts = Whole(n) /\ disk["sol"].parts = Whole(n)
      BY <1>1, <1>5, <3>1 DEF CreateFails, SetupInv, WrittenInv, Running
    <3>3. DiskInv'
      BY <3>1 DEF SetupInv, DiskInv
    <3> QED BY <1>1, <3>1, <3>2, <3>3, NextFileKeeps
  <2>2. CASE File # "pk"
    BY <1>5, <2>2, FailsKeeps DEF CreateFails
  <2> QED BY <2>1, <2>2
<1>6. CASE WriteFile
  BY <1>6, WriteFileKeeps
<1>7. CASE WriteFails
  <2>1. CASE File \in {"vk", "pk"}
    <3>1. (i = 2 \/ i = 4) /\ disk' = disk /\ setup' = NextFile /\ lost' = lost
      BY <1>2, <1>7, <2>1, FileFacts DEF WriteFails
    <3>2. disk["r1cs"].parts = Whole(n) /\ (i = 4 => disk["sol"].parts = Whole(n))
      BY <1>1, <1>7, <3>1 DEF WriteFails, SetupInv, WrittenInv, Running
    <3>3. \E k \in 0 .. FileParts : disk[File].parts = Written(n, k)
      BY <1>1, <1>7, PartsFacts
      DEF WriteFails, TypeInv, SetupType, SetupInv, PositionInv
    <3>4. i = 4 => \E k \in 0 .. FileParts : disk["pk"].parts = Written(n, k)
      BY <1>2, <3>3, FileFacts
    <3>5. DiskInv'
      BY <3>1 DEF SetupInv, DiskInv
    <3> QED BY <1>1, <3>1, <3>2, <3>4, <3>5, NextFileKeeps
  <2>2. CASE File \notin {"vk", "pk"}
    BY <1>7, <2>2, FailsKeeps DEF WriteFails
  <2> QED BY <2>1, <2>2
<1>8. CASE SetupCrash
  BY <1>8, FailsKeeps DEF SetupCrash
<1> QED BY <1>3, <1>4, <1>5, <1>6, <1>7, <1>8 DEF Setup

\* A setup that begins disturbs every process that is loading.
LEMMA StartSetupReads ==
    ASSUME IInv, StartSetup
    PROVE  provers' \in [Processes -> ProverType] /\ ReadInv'
PROOF
<1> USE DEF IInv
<1>1. ASSUME NEW p \in Processes
      PROVE  provers'[p] \in ProverType /\ ReadWell(provers[p])'
  <2>1. provers[p] \in ProverType /\ ReadWell(provers[p]) /\ lost' = lost
    BY <1>1 DEF TypeInv, ReadInv, StartSetup
  <2>2. CASE Loading(p)
    <3>1. PICK q : q = [provers[p] EXCEPT !.after = NoEnding]
      OBVIOUS
    <3>2. /\ q \in ProverType /\ q.after = NoEnding /\ NoEnding.pc = "running"
          /\ q.pc = provers[p].pc /\ q.cs = provers[p].cs
      BY <2>1, <3>1, EndingFacts DEF ProverType
    <3>3. provers'[p] = q
      BY <1>1, <2>2, <3>1 DEF StartSetup, TypeInv
    <3> QED BY <2>1, <2>2, <3>2, <3>3 DEF ReadWell, Loading
  <2>3. CASE ~Loading(p)
    <3>1. provers'[p] = provers[p]
      BY <1>1, <2>3 DEF StartSetup, TypeInv
    <3> QED BY <2>1, <2>3, <3>1 DEF ReadWell, Loading
  <2> QED BY <2>2, <2>3
<1>2. provers' = [p \in Processes |-> provers'[p]]
  BY DEF StartSetup, TypeInv
<1> QED BY <1>1, <1>2 DEF ReadInv

LEMMA SetupReads ==
    ASSUME IInv, Setup
    PROVE  /\ provers' \in [Processes -> ProverType] /\ ReadInv'
           /\ UNCHANGED << requests, mu >>
PROOF
<1> USE DEF IInv
<1>1. CASE StartSetup
  BY <1>1, StartSetupReads DEF StartSetup
<1>2. CASE ~StartSetup
  <2>1. Running /\ UNCHANGED << provers, requests, mu >>
    BY <1>2
    DEF Setup, CreateFile, CreateFails, WriteFile, WriteFails, SetupCrash, Running
  <2>2. lost \subseteq lost'
    BY <1>2 DEF Setup, CreateFile, CreateFails, WriteFile, WriteFails, SetupCrash
  <2>3. ASSUME NEW p \in Processes
        PROVE  ReadWell(provers[p])'
    <3>1. ReadWell(provers[p]) /\ provers'[p] = provers[p]
      BY <2>1, <2>3 DEF ReadInv
    <3> QED BY <2>1, <2>2, <3>1 DEF ReadWell, Undisturbed
  <2> QED BY <2>1, <2>3 DEF TypeInv, ReadInv
<1> QED BY <1>1, <1>2

LEMMA SetupKeepsIInv ==
    ASSUME IInv, Setup
    PROVE  IInv'
PROOF
<1>1. TypeInv'
  BY SetupReads, SetupTypes DEF IInv, TypeInv
<1>2. MutexHeldByProver'
  BY SetupReads DEF IInv, MutexHeldByProver
<1> QED BY <1>1, <1>2, SetupReads, SetupKeepsSetupInv DEF IInv

-----------------------------------------------------------------------------
(* Processes *)

\* What does not touch the files keeps what is known of them.
LEMMA SetupUntouched ==
    ASSUME IInv, UNCHANGED << disk, setup, lost >>
    PROVE  SetupInv'
PROOF
BY DEF IInv, SetupInv, DiskInv, PositionInv, WrittenInv, Running, File

LEMMA ReadUntouched ==
    ASSUME IInv, UNCHANGED << disk, setup, lost, provers >>
    PROVE  ReadInv'
PROOF
BY DEF IInv, ReadInv, ReadWell, Undisturbed, Running, Ending

\* A change of one process that reads well keeps the rest.
LEMMA OneProcess ==
    ASSUME TypeInv, ReadInv, UNCHANGED << disk, setup, lost >>,
           NEW p \in Processes, NEW q \in ProverType, ReadWell(q),
           provers' = [provers EXCEPT ![p] = q]
    PROVE  provers' \in [Processes -> ProverType] /\ ReadInv'
PROOF
<1>1. provers' \in [Processes -> ProverType]
  BY DEF TypeInv
<1>2. ASSUME NEW o \in Processes
      PROVE  ReadWell(provers[o])'
  <2>1. ReadWell(provers'[o])
    BY <1>2 DEF TypeInv, ReadInv
  <2> QED BY <2>1 DEF ReadWell, Undisturbed, Running, Ending
<1> QED BY <1>1, <1>2 DEF ReadInv

\* A process that ends takes its requests along, and the mutex with the service.
LEMMA EndsKeepsIInv ==
    ASSUME IInv, NEW p \in Processes, Ends(p)
    PROVE  IInv'
PROOF
<1> USE DEF IInv
<1>1. SetupInv'
  BY SetupUntouched DEF Ends
<1>2. provers' \in [Processes -> ProverType] /\ ReadInv'
  BY OneProcess, DownFacts, DownReadsWell DEF Ends
<1>3. \A r \in Requests :
          /\ IsRequest(requests'[r]) /\ requests'[r].at = requests[r].at
          /\ requests'[r].pc = IF requests[r].at = p /\ requests[r].pc \in InWork
                               THEN "error" ELSE requests[r].pc
  BY DEF Ends, TypeInv, IsRequest
<1>4. TypeInv'
  BY <1>2, <1>3 DEF Ends, TypeInv
<1>5. MutexHeldByProver'
  BY <1>3, GnarkAssumption DEF Ends, MutexHeldByProver, InWork, TypeInv, Processes
<1> QED BY <1>1, <1>2, <1>4, <1>5

\* Reading the next part keeps what was read a beginning of the file.
LEMMA ReadsOn ==
    ASSUME NEW s \in Seq(Nat), NEW t \in Seq(Nat), Begins(s, t), Len(s) < Len(t)
    PROVE  Begins(Append(s, t[Len(s) + 1]), t)
PROOF
<1>1. PICK n \in Nat, e \in Nat : n = Len(s) /\ e = t[n + 1]
  <2>1. PICK n \in Nat : n = Len(s)
    OBVIOUS
  <2>2. n + 1 \in 1 .. Len(t)
    BY <2>1
  <2>3. t[n + 1] \in Nat
    BY <2>2
  <2> QED BY <2>1, <2>3
<1>2. PICK u \in Seq(Nat) : u = Append(s, e)
  BY AppendProperties
<1>3. Len(u) = n + 1 /\ u[n + 1] = e /\ \A i \in 1 .. n : u[i] = s[i]
  BY <1>1, <1>2, AppendProperties
<1>4. \A i \in 1 .. n + 1 : u[i] = t[i]
  <2>1. \A i \in 1 .. n + 1 : i \in 1 .. n \/ i = n + 1
    OBVIOUS
  <2> QED BY <1>1, <1>3, <2>1 DEF Begins
<1> QED BY <1>1, <1>2, <1>3, <1>4 DEF Begins

\* The steps of loading leave all but the process alone.
Loads(p) == OpenR1CS(p) \/ LoadR1CS(p) \/ OpenPK(p) \/ LoadPK(p) \/ Loaded(p)

LEMMA OpenR1CSReads ==
    ASSUME IInv, NEW p \in Processes, OpenR1CS(p)
    PROVE  \E q \in ProverType : ReadWell(q) /\ provers' = [provers EXCEPT ![p] = q]
PROOF
<1>1. PICK e \in EndingType : e = Ending
  BY EndingFacts DEF IInv
<1>2. PICK q : q = [Down EXCEPT !.pc = "r1cs", !.after = e]
  OBVIOUS
<1>3. /\ q \in ProverType /\ q.pc = "r1cs" /\ q.after = e
      /\ q.cs = << >> /\ q.pk = << >>
  BY <1>1, <1>2, DownFacts DEF ProverType
<1>4. provers' = [provers EXCEPT ![p] = q]
  BY <1>1, <1>2 DEF OpenR1CS
<1>5. e # NoEnding => ~Running
  BY <1>1 DEF Ending
<1>6. \A f \in FileNames : Begins(<< >>, disk[f].parts)
  BY DEF IInv, TypeInv, FileType, Begins
<1>7. ReadWell(q)
  BY <1>1, <1>3, <1>5, <1>6, FileFacts DEF ReadWell, Undisturbed
<1> QED BY <1>3, <1>4, <1>7

LEMMA LoadR1CSReads ==
    ASSUME IInv, NEW p \in Processes, LoadR1CS(p)
    PROVE  \E q \in ProverType : ReadWell(q) /\ provers' = [provers EXCEPT ![p] = q]
PROOF
<1> USE DEF IInv
<1>1. PICK q0 \in ProverType : q0 = provers[p] /\ ReadWell(q0) /\ q0.pc = "r1cs"
  BY DEF LoadR1CS, TypeInv, ReadInv
<1>2. PICK t \in Seq(Nat) : t = disk["r1cs"].parts
  BY FileFacts DEF TypeInv, FileType
<1>3. PICK s \in Seq(Nat) : s = q0.cs
  BY DEF ProverType
<1>4. Len(s) < Len(t) /\ t[Len(s) + 1] \in Nat
  <2>1. Len(s) < Len(t)
    BY <1>1, <1>2, <1>3 DEF LoadR1CS, More
  <2>2. Len(s) + 1 \in 1 .. Len(t)
    BY <2>1
  <2> QED BY <2>1, <2>2
<1>5. PICK u \in Seq(Nat) : u = Append(s, t[Len(s) + 1])
  <2>1. PICK e \in Nat : e = t[Len(s) + 1]
    BY <1>4
  <2> QED BY <2>1, AppendProperties
<1>6. PICK q : q = [q0 EXCEPT !.cs = u]
  OBVIOUS
<1>7. /\ q \in ProverType /\ q.pc = "r1cs" /\ q.cs = u
      /\ q.pk = q0.pk /\ q.after = q0.after
  BY <1>1, <1>6 DEF ProverType
<1>8. provers' = [provers EXCEPT ![p].cs = u]
  BY <1>1, <1>2, <1>3, <1>5 DEF LoadR1CS
<1>9. provers' = [provers EXCEPT ![p] = q]
  BY <1>1, <1>6, <1>8
<1>10. ReadWell(q)
  BY <1>1, <1>2, <1>3, <1>4, <1>5, <1>7, ReadsOn DEF ReadWell, Undisturbed
<1> QED BY <1>7, <1>9, <1>10

LEMMA LoadPKReads ==
    ASSUME IInv, NEW p \in Processes, LoadPK(p)
    PROVE  \E q \in ProverType : ReadWell(q) /\ provers' = [provers EXCEPT ![p] = q]
PROOF
<1> USE DEF IInv
<1>1. PICK q0 \in ProverType : q0 = provers[p] /\ ReadWell(q0) /\ q0.pc = "pk"
  BY DEF LoadPK, TypeInv, ReadInv
<1>2. PICK t \in Seq(Nat) : t = disk["pk"].parts
  BY FileFacts DEF TypeInv, FileType
<1>3. PICK s \in Seq(Nat) : s = q0.pk
  BY DEF ProverType
<1>4. Len(s) < Len(t) /\ t[Len(s) + 1] \in Nat
  <2>1. Len(s) < Len(t)
    BY <1>1, <1>2, <1>3 DEF LoadPK, More
  <2>2. Len(s) + 1 \in 1 .. Len(t)
    BY <2>1
  <2> QED BY <2>1, <2>2
<1>5. PICK u \in Seq(Nat) : u = Append(s, t[Len(s) + 1])
  <2>1. PICK e \in Nat : e = t[Len(s) + 1]
    BY <1>4
  <2> QED BY <2>1, AppendProperties
<1>6. PICK q : q = [q0 EXCEPT !.pk = u]
  OBVIOUS
<1>7. /\ q \in ProverType /\ q.pc = "pk" /\ q.pk = u
      /\ q.cs = q0.cs /\ q.after = q0.after
  BY <1>1, <1>6 DEF ProverType
<1>8. provers' = [provers EXCEPT ![p].pk = u]
  BY <1>1, <1>2, <1>3, <1>5 DEF LoadPK
<1>9. provers' = [provers EXCEPT ![p] = q]
  BY <1>1, <1>6, <1>8
<1>10. ReadWell(q)
  BY <1>1, <1>2, <1>3, <1>4, <1>5, <1>7, ReadsOn DEF ReadWell, Undisturbed
<1> QED BY <1>7, <1>9, <1>10

LEMMA OpenPKReads ==
    ASSUME IInv, NEW p \in Processes, OpenPK(p)
    PROVE  \E q \in ProverType : ReadWell(q) /\ provers' = [provers EXCEPT ![p] = q]
PROOF
<1>1. PICK q0 \in ProverType : q0 = provers[p] /\ ReadWell(q0) /\ q0.pc = "r1cs"
  BY DEF IInv, OpenPK, TypeInv, ReadInv
<1>2. PICK q : q = [q0 EXCEPT !.pc = "pk"]
  OBVIOUS
<1>3. /\ q \in ProverType /\ q.pc = "pk" /\ q.cs = q0.cs
      /\ q.pk = q0.pk /\ q.after = q0.after
  BY <1>1, <1>2 DEF ProverType
<1>4. provers' = [provers EXCEPT ![p] = q]
  BY <1>1, <1>2 DEF OpenPK
<1>5. Len(q.cs) = FileParts
  BY <1>1, <1>3 DEF OpenPK, ReadOver
<1>6. ReadWell(q)
  BY <1>1, <1>3, <1>5 DEF ReadWell, Undisturbed
<1> QED BY <1>3, <1>4, <1>6

\* A process that has read both files to the end while no setup ran has what one
\* setup wrote, and after a setup that could open the key's file what that one did.
LEMMA LoadedReads ==
    ASSUME IInv, NEW p \in Processes, Loaded(p)
    PROVE  \E q \in ProverType : ReadWell(q) /\ provers' = [provers EXCEPT ![p] = q]
PROOF
<1> USE DEF IInv
<1>1. PICK q0 \in ProverType : q0 = provers[p] /\ ReadWell(q0) /\ q0.pc = "pk"
  BY DEF Loaded, TypeInv, ReadInv
<1>2. PICK q : q = [q0 EXCEPT !.pc = "up"]
  OBVIOUS
<1>3. /\ q \in ProverType /\ q.pc = "up" /\ q.cs = q0.cs
      /\ q.pk = q0.pk /\ q.after = q0.after
  BY <1>1, <1>2 DEF ProverType
<1>4. provers' = [provers EXCEPT ![p] = q]
  BY <1>1, <1>2 DEF Loaded
<1> SUFFICES ReadWell(q)
  BY <1>3, <1>4
<1>5. PICK s \in Seq(Nat), t \in Seq(Nat) : s = q.cs /\ t = q.pk
  BY <1>3 DEF ProverType
<1>6. Len(s) = FileParts /\ Len(t) = FileParts
  BY <1>1, <1>3, <1>5 DEF ReadWell, Loaded, ReadOver
<1>7. CASE q.after = NoEnding
  BY <1>3, <1>7, EndingFacts DEF ReadWell
<1>8. CASE q.after # NoEnding
  <2>1. /\ ~Running /\ q.after = Ending
        /\ Begins(s, disk["r1cs"].parts) /\ Begins(t, disk["pk"].parts)
    BY <1>1, <1>3, <1>5, <1>8 DEF ReadWell, Undisturbed
  <2>2. OfOneSetup(s) /\ OfOneSetup(t)
    <3>1. ASSUME NEW f \in FileNames, NEW u \in Seq(Nat), Len(u) = FileParts,
                 Begins(u, disk[f].parts)
          PROVE  OfOneSetup(u)
      <4>1. PICK n \in Nat, k \in 0 .. FileParts : disk[f].parts = Written(n, k)
        BY <3>1 DEF SetupInv, DiskInv, OfSomeSetup
      <4>2. u = Whole(n)
        BY <3>1, <4>1, ReadOut
      <4> QED BY <4>2, WholeOfOne
    <3> QED BY <1>6, <2>1, <3>1, FileFacts
  <2>3. ASSUME q.after.pc = "ok", q.after.run \notin lost
        PROVE  AllOf(q, q.after.run)
    <3>1. PICK n \in Nat : n = q.after.run /\ n = setup.run
      BY <2>1, EndingFacts DEF TypeInv, SetupType
    <3>2. setup.pc = "ok"
      BY <2>1, <2>3, EndingFacts
    <3>3. disk["r1cs"].parts = Written(n, FileParts)
      BY <3>1, <3>2, WholeWritten DEF SetupInv, WrittenInv
    <3>4. PICK k \in 0 .. FileParts : disk["pk"].parts = Written(n, k)
      BY <2>3, <3>1, <3>2 DEF SetupInv, WrittenInv
    <3>5. FileParts \in 0 .. FileParts
      BY PartsFacts
    <3>6. s = Whole(n)
      BY <1>6, <2>1, <3>3, <3>5, ReadOut
    <3>7. t = Whole(n)
      BY <1>6, <2>1, <3>4, ReadOut
    <3> QED BY <1>5, <3>1, <3>6, <3>7 DEF AllOf
  <2> QED BY <1>3, <1>5, <2>2, <2>3 DEF ReadWell
<1> QED BY <1>7, <1>8

LEMMA LoadKeepsIInv ==
    ASSUME IInv, NEW p \in Processes, Loads(p)
    PROVE  IInv'
PROOF
<1> USE DEF IInv
<1>1. UNCHANGED << disk, setup, lost, requests, mu >>
  BY DEF Loads, OpenR1CS, LoadR1CS, OpenPK, LoadPK, Loaded
<1>2. PICK q \in ProverType : ReadWell(q) /\ provers' = [provers EXCEPT ![p] = q]
  BY OpenR1CSReads, LoadR1CSReads, OpenPKReads, LoadPKReads, LoadedReads DEF Loads
<1>3. provers' \in [Processes -> ProverType] /\ ReadInv'
  BY <1>1, <1>2, OneProcess
<1>4. TypeInv'
  BY <1>1, <1>3 DEF TypeInv
<1>5. MutexHeldByProver'
  BY <1>1 DEF MutexHeldByProver
<1> QED BY <1>1, <1>3, <1>4, <1>5, SetupUntouched

-----------------------------------------------------------------------------
(* Requests *)

\* A change of one request keeps the rest.
LEMMA OneRequest ==
    ASSUME TypeInv, NEW r \in Requests, NEW q, IsRequest(q),
           requests' = [requests EXCEPT ![r] = q]
    PROVE  /\ requests' = [s \in Requests |-> requests'[s]]
           /\ requests'[r] = q
           /\ \A s \in Requests : s # r => requests'[s] = requests[s]
           /\ \A s \in Requests : IsRequest(requests'[s])
PROOF
BY DEF TypeInv

\* A change of the stage of one request is such a change.
LEMMA GoesChangesOne ==
    ASSUME TypeInv, NEW r \in Requests, NEW pc, Goes(r, pc)
    PROVE  \E q : /\ IsRequest(q) /\ requests' = [requests EXCEPT ![r] = q]
                  /\ q.pc = pc /\ q.at = requests[r].at
PROOF
<1>1. PICK q : q = [requests[r] EXCEPT !.pc = pc]
  OBVIOUS
<1>2. IsRequest(q) /\ q.pc = pc /\ q.at = requests[r].at
  BY <1>1 DEF TypeInv, IsRequest
<1>3. requests' = [requests EXCEPT ![r] = q]
  BY <1>1 DEF Goes
<1> QED BY <1>2, <1>3

\* AfterProof ends the command, or nothing.
LEMMA AfterProofFacts ==
    ASSUME IInv, NEW r \in Requests, provers' = AfterProof(r),
           UNCHANGED << disk, setup, lost >>
    PROVE  provers' \in [Processes -> ProverType] /\ ReadInv'
PROOF
<1>1. CASE requests[r].at = Command
  <2>1. provers' = [provers EXCEPT ![Command] = Down] /\ Command \in Processes
    BY <1>1 DEF AfterProof, Processes
  <2> QED BY <2>1, OneProcess, DownFacts, DownReadsWell DEF IInv
<1>2. CASE requests[r].at # Command
  BY <1>2, ReadUntouched DEF AfterProof, IInv, TypeInv
<1> QED BY <1>1, <1>2

\* A request that moves without the mutex: the step keeps the invariant when
\* neither its old stage nor its new one is that of the mutex's holder.
LEMMA QuietMove ==
    ASSUME IInv, NEW r \in Requests, NEW q, IsRequest(q),
           requests' = [requests EXCEPT ![r] = q],
           requests[r].pc # "proving", q.pc # "proving",
           UNCHANGED << disk, setup, lost, provers, mu >>
    PROVE  IInv'
PROOF
<1> USE DEF IInv
<1>1. TypeInv'
  BY OneRequest DEF TypeInv
<1>2. ReadInv'
  BY ReadUntouched
<1>3. MutexHeldByProver'
  BY OneRequest DEF MutexHeldByProver
<1> QED BY <1>1, <1>2, <1>3, SetupUntouched

\* A request that was being worked on is over: the mutex is free if it had it.
LEMMA FinishMove ==
    ASSUME IInv, NEW r \in Requests, NEW q, IsRequest(q),
           requests' = [requests EXCEPT ![r] = q],
           requests[r].pc = "proving", q.pc # "proving",
           mu' = Unlocked(r), provers' = AfterProof(r),
           UNCHANGED << disk, setup, lost >>
    PROVE  IInv'
PROOF
<1> USE DEF IInv
<1>1. TypeInv' /\ ReadInv'
  BY OneRequest, AfterProofFacts DEF TypeInv, Unlocked
<1>2. MutexHeldByProver'
  BY OneRequest, GnarkAssumption DEF MutexHeldByProver, Unlocked
<1> QED BY <1>1, <1>2, SetupUntouched

LEMMA HandleKeepsIInv ==
    ASSUME IInv, NEW r \in Requests, Handle(r) \/ Done(r)
    PROVE  IInv'
PROOF
<1> USE DEF IInv
<1>1. CASE BadRequest(r) \/ MakeWitness(r)
  <2>1. requests[r].pc = "received" /\ UNCHANGED << disk, setup, lost, provers, mu >>
    BY <1>1 DEF BadRequest, MakeWitness
  <2>2. PICK pc \in {"error", "waiting"} : Goes(r, pc)
    BY <1>1 DEF BadRequest, MakeWitness
  <2>3. PICK q : /\ IsRequest(q) /\ requests' = [requests EXCEPT ![r] = q]
                 /\ q.pc = pc
    BY <2>2, GoesChangesOne
  <2> QED BY <2>1, <2>2, <2>3, QuietMove
<1>2. CASE Lock(r)
  <2>1. PICK q : /\ IsRequest(q) /\ requests' = [requests EXCEPT ![r] = q]
                 /\ q.pc = "proving" /\ q.at = requests[r].at
    BY <1>2, GoesChangesOne DEF Lock
  <2>2. TypeInv' /\ ReadInv'
    BY <1>2, <2>1, OneRequest, ReadUntouched DEF Lock, TypeInv
  <2>3. MutexHeldByProver'
    <3>1. /\ requests'[r] = q
          /\ \A s \in Requests : s # r => requests'[s] = requests[s]
      BY <2>1, OneRequest
    <3>2. CASE requests[r].at = Service
      <4>1. mu = NoRequest /\ mu' = r
        BY <1>2, <3>2 DEF Lock
      <4> QED BY <2>1, <3>1, <3>2, <4>1, GnarkAssumption DEF MutexHeldByProver
    <3>3. CASE requests[r].at # Service
      <4>1. mu' = mu
        BY <1>2, <3>3 DEF Lock
      <4> QED BY <2>1, <3>1, <3>3, <4>1 DEF MutexHeldByProver
    <3> QED BY <3>2, <3>3
  <2> QED BY <1>2, <2>2, <2>3, SetupUntouched DEF Lock
<1>3. CASE Answer(r)
  <2>1. PICK i : requests' = [requests EXCEPT ![r].pc = "answered", ![r].input = i]
    BY <1>3 DEF Answer
  <2>2. PICK q : q = [requests[r] EXCEPT !.pc = "answered", !.input = i]
    OBVIOUS
  <2>3. requests' = [requests EXCEPT ![r] = q]
    BY <2>1, <2>2
  <2>4. IsRequest(q) /\ q.pc = "answered"
    <3>1. PICK b, p, k : /\ p \in Processes
                         /\ requests[r] \in [pc : {"proving"}, body : {b}, at : {p},
                                             input : {k}]
      <4>1. PICK b, p, k : b = requests[r].body /\ p = requests[r].at
                              /\ k = requests[r].input
        OBVIOUS
      <4>2. IsRequest(requests[r]) /\ requests[r].pc = "proving"
        BY <1>3 DEF Answer, TypeInv
      <4>3. /\ requests[r] = [pc |-> "proving", body |-> b, at |-> p, input |-> k]
            /\ p \in Processes
        BY <4>1, <4>2 DEF IsRequest
      <4> QED BY <4>3
    <3>2. q \in [pc : {"answered"}, body : {b}, at : {p}, input : {i}]
      BY <2>2, <3>1
    <3> QED BY <3>1, <3>2 DEF IsRequest
  <2> QED BY <1>3, <2>3, <2>4, FinishMove DEF Answer
<1>4. CASE ProveFails(r)
  <2>1. PICK q : /\ IsRequest(q) /\ requests' = [requests EXCEPT ![r] = q]
                 /\ q.pc = "error"
    BY <1>4, GoesChangesOne DEF ProveFails
  <2> QED BY <1>4, <2>1, FinishMove DEF ProveFails
<1>5. CASE Done(r)
  <2>1. IsRequest(Unsent) /\ Unsent.pc = "unsent"
    BY DEF IsRequest, Unsent, Processes
  <2> QED BY <1>5, <2>1, QuietMove DEF Done
<1> QED BY <1>1, <1>2, <1>3, <1>4, <1>5 DEF Handle

LEMMA SendKeepsIInv ==
    ASSUME IInv, NEW r \in Requests, NEW p \in Processes, NEW body, Send(r, p, body)
    PROVE  IInv'
PROOF
<1>1. PICK q : q = [pc |-> "received", body |-> body, at |-> p, input |-> << >>]
  OBVIOUS
<1>2. IsRequest(q) /\ q.pc = "received"
  BY <1>1 DEF IsRequest
<1>3. requests' = [requests EXCEPT ![r] = q] /\ requests[r].pc = "unsent"
  BY <1>1 DEF Send
<1> QED BY <1>2, <1>3, QuietMove DEF Send

-----------------------------------------------------------------------------
(* Numbers *)

LEMMA ConstantFacts ==
    /\ Base \in Nat \ {0} /\ HashLength \in Nat \ {0} /\ HashBits \in Nat \ {0}
    /\ FieldOrder \in Nat \ {0} /\ FieldOrder < Base ^ HashLength
    /\ 2 ^ HashBits < FieldOrder
PROOF
BY GnarkAssumption

\* The values of the digits from the first on, as Number computes them.
NumberLoop(d, n, f) ==
    f = [i \in 0 .. n |-> IF i = 0 THEN 0 ELSE Base * f[i - 1] + d[i]]

LEMMA NumberExists ==
    ASSUME NEW d, NEW n \in Nat
    PROVE  \E f : NumberLoop(d, n, f)
PROOF
<1> DEFINE K == {m \in 0 .. n : \E f : NumberLoop(d, m, f)}
<1>1. \E f : NumberLoop(d, 0, f)
  <2>1. PICK f : f = [i \in 0 .. 0 |-> 0]
    OBVIOUS
  <2>2. f = [i \in 0 .. 0 |-> IF i = 0 THEN 0 ELSE Base * f[i - 1] + d[i]]
    BY <2>1
  <2> QED BY <2>2 DEF NumberLoop
<1>2. ASSUME NEW m \in 0 .. n - 1, NEW f, NumberLoop(d, m, f)
      PROVE  \E g : NumberLoop(d, m + 1, g)
  <2>1. f = [i \in 0 .. m |-> IF i = 0 THEN 0 ELSE Base * f[i - 1] + d[i]]
    BY <1>2 DEF NumberLoop
  <2>2. PICK last : last = Base * f[m] + d[m + 1]
    OBVIOUS
  <2>3. PICK g : g = [i \in 0 .. m + 1 |-> IF i = m + 1 THEN last ELSE f[i]]
    OBVIOUS
  <2>4. g[m + 1] = last /\ \A i \in 0 .. m : g[i] = f[i]
    BY <2>3
  <2>5. \A i \in 1 .. m : i \in 0 .. m /\ i # 0 /\ i - 1 \in 0 .. m
    OBVIOUS
  <2>6. \A i \in 1 .. m : f[i] = Base * f[i - 1] + d[i]
    BY <2>1, <2>5
  <2>7. ASSUME NEW i \in 0 .. m + 1
        PROVE  g[i] = IF i = 0 THEN 0 ELSE Base * g[i - 1] + d[i]
    <3>1. CASE i = 0
      <4>1. 0 \in 0 .. m
        OBVIOUS
      <4>2. f[0] = 0
        BY <2>1, <4>1
      <4> QED BY <2>4, <3>1, <4>1, <4>2
    <3>2. CASE i \in 1 .. m
      BY <2>4, <2>5, <2>6, <3>2
    <3>3. CASE i = m + 1
      <4>1. m \in 0 .. m /\ i - 1 = m /\ i # 0
        BY <3>3
      <4> QED BY <2>2, <2>4, <3>3, <4>1
    <3> QED BY <3>1, <3>2, <3>3
  <2>8. g = [i \in 0 .. m + 1 |-> g[i]]
    BY <2>3
  <2>9. g = [i \in 0 .. m + 1 |-> IF i = 0 THEN 0 ELSE Base * g[i - 1] + d[i]]
    BY <2>7, <2>8
  <2> QED BY <2>9 DEF NumberLoop
<1>3. 0 \in K /\ \A k \in 0 .. n - 1 : k \in K => k + 1 \in K
  BY <1>1, <1>2
<1> HIDE DEF K
<1>4. 0 .. n \subseteq K
  BY <1>3, InductionUpTo
<1> QED BY <1>4 DEF K

\* What Number returns is the last of these values.
LEMMA NumberEquation ==
    ASSUME NEW d, Len(d) \in Nat
    PROVE  \E f : /\ f[0] = 0 /\ Number(d) = f[Len(d)]
                  /\ \A i \in 1 .. Len(d) : f[i] = Base * f[i - 1] + d[i]
PROOF
<1>1. PICK n \in Nat : n = Len(d)
  OBVIOUS
<1>2. PICK f : f = CHOOSE g : NumberLoop(d, n, g)
  OBVIOUS
<1>3. NumberLoop(d, n, f)
  BY <1>2, NumberExists
<1>4. Number(d) = f[n]
  BY <1>1, <1>2 DEF Number, NumberLoop
<1>5. 0 \in 0 .. n /\ \A i \in 1 .. n : i \in 0 .. n /\ i # 0
  OBVIOUS
<1>6. f[0] = 0
  BY <1>3, <1>5 DEF NumberLoop
<1>7. \A i \in 1 .. n : f[i] = Base * f[i - 1] + d[i]
  BY <1>3, <1>5 DEF NumberLoop
<1> QED BY <1>1, <1>4, <1>6, <1>7

\* The value of digits of any size is a natural number.
LEMMA NumberType ==
    ASSUME NEW d \in Seq(Nat)
    PROVE  Number(d) \in Nat
PROOF
<1>1. PICK n \in Nat : n = Len(d)
  OBVIOUS
<1>2. PICK f : /\ f[0] = 0 /\ Number(d) = f[n]
               /\ \A i \in 1 .. n : f[i] = Base * f[i - 1] + d[i]
  BY <1>1, NumberEquation
<1> DEFINE T == {k \in 0 .. n : f[k] \in Nat}
<1>3. 0 \in T
  BY <1>2
<1>4. ASSUME NEW k \in 0 .. n - 1, k \in T
      PROVE  k + 1 \in T
  <2>1. k + 1 \in 1 .. n /\ (k + 1) - 1 = k
    OBVIOUS
  <2>2. PICK a \in Nat, b \in Nat : a = f[k] /\ b = d[k + 1]
    BY <1>1, <1>4, <2>1
  <2>3. Base * a \in Nat
    BY ConstantFacts
  <2>4. f[k + 1] = Base * a + b
    BY <1>2, <2>1, <2>2
  <2> QED BY <2>1, <2>3, <2>4
<1> HIDE DEF T
<1>5. 0 .. n \subseteq T
  BY <1>3, <1>4, InductionUpTo
<1> QED BY <1>2, <1>5 DEF T

\* Writing a field element without leading zeros, and reading it, gives it back.
LEMMA HexRoundTrip ==
    ASSUME NEW n \in Nat, n < FieldOrder
    PROVE  Number(HexBytes(n)) = n
PROOF
<1> DEFINE S == {k \in 0 .. HashLength : n < Base ^ k}
<1>1. Base \in Nat \ {0}
  BY ConstantFacts
<1>2. PICK len \in 0 .. HashLength : len = Min(S) /\ n < Base ^ len
  <2>1. HashLength \in S
    <3>1. PICK d \in Nat : d = Base ^ HashLength
      BY ConstantFacts, PowersOfBase
    <3> QED BY <3>1, ConstantFacts
  <2>2. S \subseteq Nat /\ S # {}
    BY <2>1
  <2> HIDE DEF S
  <2>3. \E x \in S : \A y \in S : x <= y
    BY <2>2, LeastNatural
  <2>4. Min(S) \in S
    BY <2>3 DEF Min
  <2> QED BY <2>4 DEF S
<1> HIDE DEF S
<1>3. HexBytes(n) = [i \in 1 .. len |-> (n \div Base ^ (len - i)) % Base]
  BY <1>2 DEF HexBytes, S
<1>4. PICK h : h = HexBytes(n)
  OBVIOUS
<1>5. len \in Nat /\ Len(h) = len
  <2>1. len \in Nat
    BY <1>2, ConstantFacts
  <2>2. h \in [1 .. len -> {(n \div Base ^ (len - i)) % Base : i \in 1 .. len}]
    BY <1>3, <1>4
  <2> QED BY <2>1, <2>2, SeqDef
<1>6. PICK f : /\ f[0] = 0 /\ Number(h) = f[len]
               /\ \A i \in 1 .. len : f[i] = Base * f[i - 1] + h[i]
  BY <1>5, NumberEquation
<1> DEFINE T == {k \in 0 .. len : f[k] = n \div Base ^ (len - k)}
<1>7. 0 \in T
  <2>1. PICK d \in Nat \ {0} : d = Base ^ len
    BY PowersOfBase
  <2>2. n = 0 * d + n /\ n \in 0 .. d - 1
    BY <1>2, <2>1
  <2>3. n \div d = 0
    BY <2>2, DivisionUnique
  <2> QED BY <1>5, <1>6, <2>1, <2>3
<1>8. ASSUME NEW k \in 0 .. len - 1, k \in T
      PROVE  k + 1 \in T
  <2>1. /\ len - (k + 1) \in 0 .. HashLength /\ len - k = (len - (k + 1)) + 1
        /\ k + 1 \in 1 .. len /\ (k + 1) - 1 = k
    BY <1>2, <1>5, ConstantFacts
  <2>2. PICK d \in Nat \ {0} : d = Base ^ (len - (k + 1)) /\ Base ^ (len - k) = Base * d
    BY <2>1, PowersOfBase
  <2>3. h[k + 1] = (n \div d) % Base
    BY <1>3, <1>4, <2>1, <2>2
  <2>4. f[k] = n \div (Base * d)
    BY <1>8, <2>2
  <2>5. PICK s \in 0 .. Base - 1 :
            s = (n \div d) % Base /\ n \div d = (n \div (Base * d)) * Base + s
    BY <1>1, DivideTwice
  <2>6. PICK a \in Nat : a = f[k]
    <3>1. Base * d \in Nat \ {0}
      BY <1>1
    <3>2. PICK e \in Nat \ {0} : e = Base * d
      BY <3>1
    <3> QED BY <2>4, <3>2
  <2>7. f[k + 1] = Base * a + s
    BY <1>6, <2>1, <2>3, <2>5, <2>6
  <2>8. n \div d = a * Base + s
    BY <2>4, <2>5, <2>6
  <2>9. a * Base = Base * a
    BY <1>1
  <2>10. f[k + 1] = n \div d
    BY <2>7, <2>8, <2>9
  <2> QED BY <1>5, <2>1, <2>2, <2>10
<1>9. len \in T
  <2> HIDE DEF T
  <2>1. 0 .. len \subseteq T
    BY <1>5, <1>7, <1>8, InductionUpTo
  <2> QED BY <1>5, <2>1
<1>10. f[len] = n \div 1
  <2>1. len - len = 0
    BY <1>5
  <2> QED BY <1>9, <2>1, PowersOfBase
<1> QED BY <1>4, <1>6, <1>10

\* Half of the limbs of a request.
Half(body, i) == SubSeq(body.limbs, (i - 1) * HashLength + 1, i * HashLength)

\* The limbs of a hash are numbers, and so are the hash and its value.
LEMMA HalfTypes ==
    ASSUME NEW body \in Bodies, Len(body.limbs) = 2 * HashLength, NEW i \in 1 .. 2
    PROVE  Number(Half(body, i)) \in Nat /\ HashOf(Half(body, i)) \in Nat
PROOF
<1>1. body.limbs \in Seq(Nat)
  BY GnarkAssumption
<1>2. PICK a \in Nat, b \in Nat : /\ a = (i - 1) * HashLength + 1 /\ b = i * HashLength
                                  /\ 1 <= a /\ b <= Len(body.limbs)
  <2>1. CASE i = 1
    BY <2>1, ConstantFacts
  <2>2. CASE i = 2
    BY <2>2, ConstantFacts
  <2> QED BY <2>1, <2>2
<1>3. SubSeq(body.limbs, a, b) \in Seq(Nat)
  <2>1. \A j \in a .. b : body.limbs[j] \in Nat
    BY <1>1, <1>2
  <2> QED BY <1>1, <1>2, <2>1, SubSeqProperties
<1>4. PICK h \in Seq(Nat) : h = Half(body, i)
  BY <1>2, <1>3 DEF Half
<1>5. [j \in DOMAIN h |-> h[j] % Base] \in Seq(Nat)
  <2>1. DOMAIN h = 1 .. Len(h) /\ Len(h) \in Nat
    OBVIOUS
  <2>2. \A j \in 1 .. Len(h) : h[j] % Base \in Nat
    BY ConstantFacts
  <2>3. [j \in DOMAIN h |-> h[j] % Base] \in [1 .. Len(h) -> Nat]
    BY <2>1, <2>2
  <2> QED BY <2>1, <2>3, SeqDef
<1> QED BY <1>4, <1>5, NumberType DEF HashOf

\* What the circuit and the check of the bits leave: the value of the limbs is in
\* the field, and the answer's public input is that value.
LEMMA SatisfiedExact ==
    ASSUME NEW body \in Bodies, ValidInputs(body), Satisfied(body, Hashes(body.limbs)),
           NEW i \in 1 .. 2
    PROVE  Number(HexBytes(FieldElement(Hashes(body.limbs)[i]))) = Number(Half(body, i))
PROOF
<1>1. PICK h \in Nat, v \in Nat : h = HashOf(Half(body, i)) /\ v = Number(Half(body, i))
  BY HalfTypes DEF ValidInputs
<1>2. /\ (1 - 1) * HashLength + 1 = 1 /\ 1 * HashLength = HashLength
      /\ (2 - 1) * HashLength + 1 = HashLength + 1
  BY ConstantFacts
<1>3. /\ Hashes(body.limbs)[i] = h
      /\ h < 2 ^ HashBits
      /\ FieldElement(h) = v % FieldOrder
  <2>1. CASE i = 1
    BY <1>1, <1>2, <2>1
    DEF Half, Hashes, ValidInputs, BitLenOK, Satisfied, CircuitDigest
  <2>2. CASE i = 2
    BY <1>1, <1>2, <2>2
    DEF Half, Hashes, ValidInputs, BitLenOK, Satisfied, CircuitDigest
  <2> QED BY <2>1, <2>2
<1>4. v < FieldOrder
  BY <1>1, <1>3, LimbsAssumption DEF Half, ValidInputs, Satisfied
<1>5. h < FieldOrder
  <2>1. PICK x : x = 2 ^ HashBits
    OBVIOUS
  <2> QED BY <1>3, <2>1, ConstantFacts
<1>6. FieldElement(h) = h /\ v % FieldOrder = v
  <2>1. /\ h = 0 * FieldOrder + h /\ v = 0 * FieldOrder + v
        /\ h \in 0 .. FieldOrder - 1 /\ v \in 0 .. FieldOrder - 1
    BY <1>4, <1>5, ConstantFacts
  <2> QED BY <2>1, ConstantFacts, DivisionUnique DEF FieldElement
<1> QED BY <1>1, <1>3, <1>5, <1>6, HexRoundTrip

-----------------------------------------------------------------------------
(* Answers *)

\* The public inputs of a request are the values of its limbs.
Exact(q) == \A i \in 1 .. 2 : q.input[i] = Number(Half(q.body, i))

\* What a request carries at each stage.
Carries(q) ==
    /\ q.pc \in InWork => q.body \in Bodies
    /\ q.pc \in {"waiting", "proving"} => ValidInputs(q.body)
    /\ q.pc = "answered" => Exact(q)

AnswerInv == \A r \in Requests : Carries(requests[r])

\* A change of the stage leaves the body alone.
LEMMA GoesKeepsBody ==
    ASSUME TypeInv, AnswerInv, NEW r \in Requests, NEW pc, Goes(r, pc),
           pc # "answered",
           pc \in InWork => requests[r].pc \in InWork,
           pc \in {"waiting", "proving"} => ValidInputs(requests[r].body)
    PROVE  AnswerInv'
PROOF
<1>1. PICK q : q = [requests[r] EXCEPT !.pc = pc]
  OBVIOUS
<1>2. requests' = [requests EXCEPT ![r] = q]
  BY <1>1 DEF Goes
<1>3. q.pc = pc /\ q.body = requests[r].body
  BY <1>1 DEF TypeInv, IsRequest
<1>4. Carries(q)
  BY <1>3 DEF AnswerInv, Carries
<1> QED BY <1>2, <1>4 DEF TypeInv, AnswerInv

LEMMA AnswerKeeps ==
    ASSUME TypeInv, AnswerInv, NEW r \in Requests, Answer(r)
    PROVE  AnswerInv'
PROOF
<1>1. PICK body : body = requests[r].body
  OBVIOUS
<1>2. /\ requests[r].pc = "proving" /\ body \in Bodies /\ ValidInputs(body)
      /\ Satisfied(body, Hashes(body.limbs))
  BY <1>1 DEF Answer, AnswerInv, Carries, InWork
<1>3. PICK k : k = [i \in 1 .. 2 |->
                       Number(HexBytes(FieldElement(Hashes(body.limbs)[i])))]
  OBVIOUS
<1>4. \A i \in 1 .. 2 : k[i] = Number(Half(body, i))
  BY <1>2, <1>3, SatisfiedExact
<1>5. requests' = [requests EXCEPT ![r].pc = "answered", ![r].input = k]
  BY <1>1, <1>3 DEF Answer
<1>6. PICK q : q = [requests[r] EXCEPT !.pc = "answered", !.input = k]
  OBVIOUS
<1>7. requests' = [requests EXCEPT ![r] = q]
  BY <1>5, <1>6
<1>8. q.pc = "answered" /\ q.input = k /\ q.body = body
  <2>1. PICK a, j : a = requests[r].at /\ j = requests[r].input
    OBVIOUS
  <2>2. requests[r] = [pc |-> "proving", body |-> body, at |-> a, input |-> j]
    BY <1>1, <1>2, <2>1 DEF TypeInv, IsRequest
  <2>3. requests[r] \in [pc : {"proving"}, body : {body}, at : {a}, input : {j}]
    BY <2>2
  <2>4. q \in [pc : {"answered"}, body : {body}, at : {a}, input : {k}]
    BY <1>6, <2>3
  <2> QED BY <2>4
<1>9. Carries(q)
  BY <1>4, <1>8 DEF Carries, Exact, InWork
<1> QED BY <1>7, <1>9 DEF TypeInv, AnswerInv

\* The other steps of requests, and of the processes that they end with.
LEMMA RequestKeepsAnswers ==
    ASSUME TypeInv, AnswerInv, NEW r \in Requests, Handle(r) \/ Done(r)
    PROVE  AnswerInv'
PROOF
<1>1. CASE BadRequest(r)
  BY <1>1, GoesKeepsBody DEF BadRequest, InWork
<1>2. CASE MakeWitness(r)
  BY <1>2, GoesKeepsBody DEF MakeWitness, InWork
<1>3. CASE Lock(r)
  <2>1. requests[r].pc = "waiting" /\ Goes(r, "proving")
    BY <1>3 DEF Lock
  <2>2. ValidInputs(requests[r].body)
    BY <2>1 DEF AnswerInv, Carries
  <2> QED BY <2>1, <2>2, GoesKeepsBody DEF InWork
<1>4. CASE Answer(r)
  BY <1>4, AnswerKeeps
<1>5. CASE ProveFails(r)
  BY <1>5, GoesKeepsBody DEF ProveFails, InWork
<1>6. CASE Done(r)
  <2>1. Carries(Unsent)
    BY DEF Carries, Unsent, InWork
  <2> QED BY <1>6, <2>1 DEF Done, TypeInv, AnswerInv
<1> QED BY <1>1, <1>2, <1>3, <1>4, <1>5, <1>6 DEF Handle

LEMMA EndsKeepsAnswers ==
    ASSUME TypeInv, AnswerInv, NEW p, Ends(p)
    PROVE  AnswerInv'
PROOF
<1> SUFFICES ASSUME NEW r \in Requests PROVE Carries(requests'[r])
  BY DEF AnswerInv
<1>1. CASE requests[r].at = p /\ requests[r].pc \in InWork
  <2>1. PICK q : q = [requests[r] EXCEPT !.pc = "error"]
    OBVIOUS
  <2>2. requests'[r] = q
    BY <1>1, <2>1 DEF Ends
  <2>3. q.pc = "error"
    BY <2>1 DEF TypeInv, IsRequest
  <2>4. Carries(q)
    BY <2>3 DEF Carries, InWork
  <2> QED BY <2>2, <2>4
<1>2. CASE ~(requests[r].at = p /\ requests[r].pc \in InWork)
  BY <1>2 DEF Ends, AnswerInv
<1> QED BY <1>1, <1>2

LEMMA SendKeepsAnswers ==
    ASSUME TypeInv, AnswerInv, NEW r \in Requests, NEW p, NEW body \in Bodies,
           Send(r, p, body)
    PROVE  AnswerInv'
PROOF
<1>1. PICK q : q = [pc |-> "received", body |-> body, at |-> p, input |-> << >>]
  OBVIOUS
<1>2. Carries(q)
  BY <1>1 DEF Carries
<1>3. requests' = [requests EXCEPT ![r] = q]
  BY <1>1 DEF Send
<1> QED BY <1>2, <1>3 DEF TypeInv, AnswerInv

LEMMA NextKeepsAnswers == IInv /\ AnswerInv /\ [Next]_vars => AnswerInv'
PROOF
<1> SUFFICES ASSUME IInv, AnswerInv, [Next]_vars PROVE AnswerInv'
  OBVIOUS
<1>1. TypeInv
  BY DEF IInv
<1>2. CASE requests' = requests
  BY <1>2 DEF AnswerInv
<1>3. CASE \E p \in Processes : LoadFails(p) \/ Exit(p)
  BY <1>1, <1>3, EndsKeepsAnswers DEF LoadFails, Exit
<1>4. CASE \E p \in Processes, r \in Requests, body \in Bodies : Send(r, p, body)
  BY <1>1, <1>4, SendKeepsAnswers
<1>5. CASE \E r \in Requests : Handle(r) \/ Done(r)
  BY <1>1, <1>5, RequestKeepsAnswers
<1>6. CASE Setup \/ \E p \in Processes : Loads(p)
  BY <1>2, <1>6, SetupReads DEF Loads, OpenR1CS, LoadR1CS, OpenPK, LoadPK, Loaded
<1>7. CASE UNCHANGED vars
  BY <1>2, <1>7 DEF vars
<1> QED BY <1>3, <1>4, <1>5, <1>6, <1>7 DEF Next, Processes, Loads

-----------------------------------------------------------------------------
(* The theorems *)

LEMMA NextKeepsIInv == IInv /\ [Next]_vars => IInv'
PROOF
<1> SUFFICES ASSUME IInv, [Next]_vars PROVE IInv'
  OBVIOUS
<1>1. CASE Setup
  BY <1>1, SetupKeepsIInv
<1>2. CASE \E p \in Processes : Loads(p)
  BY <1>2, LoadKeepsIInv
<1>3. CASE \E p \in Processes : LoadFails(p) \/ Exit(p)
  BY <1>3, EndsKeepsIInv DEF LoadFails, Exit
<1>4. CASE \E p \in Processes, r \in Requests, body \in Bodies : Send(r, p, body)
  BY <1>4, SendKeepsIInv
<1>5. CASE \E r \in Requests : Handle(r) \/ Done(r)
  BY <1>5, HandleKeepsIInv
<1>6. CASE UNCHANGED vars
  <2>1. SetupInv' /\ ReadInv'
    BY <1>6, SetupUntouched, ReadUntouched DEF vars
  <2> QED BY <1>6, <2>1 DEF vars, IInv, TypeInv, MutexHeldByProver
<1> QED BY <1>1, <1>2, <1>3, <1>4, <1>5, <1>6 DEF Next, Processes, Loads

\* The inductive invariant holds in every behaviour.
LEMMA IInvAlways == Spec => []IInv
PROOF
<1>1. Init => IInv
  BY InitIInv
<1>2. IInv /\ [Next]_vars => IInv'
  BY NextKeepsIInv
<1> QED BY <1>1, <1>2, PTL DEF Spec

-----------------------------------------------------------------------------
(* Setups that lost their proving key *)

\* The setup has not opened the proving key's file, or could not.
KeyUntouched ==
    \/ Running /\ (setup.file < 4 \/ setup.pc = "create")
    \/ setup.pc = "ok" /\ setup.run \in lost

\* The proving key's file is of this setup or, if it has not touched it, older.
KeyOnDisk ==
    \E m \in Nat, k \in 0 .. FileParts :
        /\ disk["pk"].parts = Written(m, k) /\ m <= setup.run
        /\ KeyUntouched => m < setup.run

\* Only setups that are over have lost their key.
LostInv ==
    /\ \A n \in lost : n \in Nat /\ n <= setup.run
    /\ Running => setup.run \notin lost

\* A process with the files of a setup that is over and reported success.
KeyRead(q) ==
    q.pc = "up" /\ q.after.pc = "ok" =>
        /\ q.after.run <= setup.run /\ (Running => q.after.run < setup.run)
        /\ q.cs = Whole(q.after.run)
        /\ q.after.run \in lost => q.pk # Whole(q.after.run)

KeyInv == KeyOnDisk /\ LostInv /\ \A p \in Processes : KeyRead(provers[p])

LEMMA InitKeyInv == Init => KeyInv
PROOF
<1> SUFFICES ASSUME Init PROVE KeyInv
  OBVIOUS
<1>1. KeyOnDisk
  <2>1. disk["pk"].parts = << >> /\ setup.run = 0 /\ ~KeyUntouched
    BY FileFacts DEF Init, FileNames, Absent, KeyUntouched, Running
  <2>2. Written(0, 0) = << >>
    BY WrittenFacts
  <2> QED BY <2>1, <2>2, PartsFacts DEF KeyOnDisk
<1>2. LostInv
  BY DEF Init, LostInv, Running
<1>3. \A p \in Processes : KeyRead(provers[p])
  BY DownFacts DEF Init, Processes, KeyRead
<1> QED BY <1>1, <1>2, <1>3 DEF KeyInv

\* A setup that starts has everything before it.
LEMMA StartKeepsKeyInv ==
    ASSUME IInv, KeyInv, StartSetup
    PROVE  KeyInv'
PROOF
<1>1. PICK n \in Nat : n = setup.run
  BY DEF IInv, TypeInv, SetupType
<1>2. setup'.run = n + 1 /\ disk' = disk /\ lost' = lost
  BY <1>1 DEF StartSetup
<1>3. KeyOnDisk'
  <2>1. PICK m \in Nat, k \in 0 .. FileParts :
            disk["pk"].parts = Written(m, k) /\ m <= n
    BY <1>1 DEF KeyInv, KeyOnDisk
  <2>2. m < n + 1 /\ m <= n + 1
    BY <2>1
  <2> QED BY <1>2, <2>1, <2>2 DEF KeyOnDisk
<1>4. LostInv'
  BY <1>1, <1>2 DEF KeyInv, LostInv
<1>5. ASSUME NEW p \in Processes
      PROVE  KeyRead(provers[p])'
  <2>1. CASE Loading(p)
    <3>1. provers'[p] = [provers[p] EXCEPT !.after = NoEnding]
      BY <1>5, <2>1 DEF StartSetup, IInv, TypeInv
    <3>2. provers[p] \in ProverType
      BY <1>5 DEF IInv, TypeInv
    <3>3. provers'[p].pc # "up"
      BY <2>1, <3>1, <3>2 DEF Loading, ProverType
    <3> QED BY <3>3 DEF KeyRead
  <2>2. CASE ~Loading(p)
    <3>1. provers'[p] = provers[p] /\ KeyRead(provers[p])
      BY <1>5, <2>2 DEF StartSetup, IInv, TypeInv, KeyInv
    <3>2. PICK a \in Nat : a = provers[p].after.run
      BY <1>5 DEF IInv, TypeInv, ProverType, EndingType
    <3> QED BY <1>1, <1>2, <3>1, <3>2 DEF KeyRead
  <2> QED BY <2>1, <2>2
<1> QED BY <1>3, <1>4, <1>5 DEF KeyInv

\* The other steps of a setup: it is the one that runs, and may now be lost.
LEMMA SetupKeepsKeyInv ==
    ASSUME IInv, KeyInv, Setup, ~StartSetup
    PROVE  KeyInv'
PROOF
<1>1. PICK n \in Nat, i \in 1 .. 4 : n = setup.run /\ i = setup.file
  <2>1. setup.run \in Nat /\ setup.file \in 1 .. 4
    BY DEF IInv, TypeInv, SetupType
  <2> QED BY <2>1
<1>2. Running /\ provers' = provers
  BY DEF Setup, CreateFile, CreateFails, WriteFile, WriteFails, SetupCrash, Running
<1>3. n \notin lost
  BY <1>1, <1>2 DEF KeyInv, LostInv
<1>4. setup'.run = n
  BY <1>1, NextFileFacts, FailsFacts
  DEF Setup, CreateFile, CreateFails, WriteFile, WriteFails, SetupCrash, IInv, TypeInv,
      SetupType
<1>5. File = Files[i] /\ (File = "pk" <=> i = 4)
  <2>1. i = 1 \/ i = 2 \/ i = 3 \/ i = 4
    OBVIOUS
  <2> QED BY <1>1, <2>1, FileFacts DEF File
<1>6. PICK m \in Nat, k \in 0 .. FileParts :
          /\ disk["pk"].parts = Written(m, k) /\ m <= n
          /\ KeyUntouched => m < n
  BY <1>1 DEF KeyInv, KeyOnDisk
<1>7. lost' = lost \/ (lost' = lost \cup {n} /\ setup'.pc = "ok")
  BY <1>1, <1>5, NextFileFacts
  DEF Setup, CreateFile, CreateFails, WriteFile, WriteFails, SetupCrash, StartSetup, IInv
<1>8. KeyOnDisk'
  <2>1. CASE i < 4 \/ CreateFails
    <3>1. KeyUntouched
      BY <1>1, <1>2, <2>1 DEF KeyUntouched, CreateFails
    <3>2. disk'["pk"] = disk["pk"]
      <4>1. CASE CreateFile
        BY <1>5, <2>1, <4>1, FileFacts DEF CreateFile, CreateFails, IInv, TypeInv
      <4>2. CASE WriteFile
        <5>1. File # "pk"
          BY <1>5, <2>1, <4>2 DEF WriteFile, CreateFails
        <5> QED BY <4>2, <5>1, FileFacts DEF WriteFile, IInv, TypeInv
      <4> QED BY <4>1, <4>2 DEF Setup, CreateFails, WriteFails, SetupCrash
    <3> QED BY <1>4, <1>6, <3>1, <3>2 DEF KeyOnDisk
  <2>2. CASE i = 4 /\ CreateFile
    <3>1. disk'["pk"].parts = << >>
      BY <1>5, <2>2, FileFacts DEF CreateFile, IInv, TypeInv
    <3>2. Written(n, 0) = << >>
      BY WrittenFacts
    <3>3. setup'.pc = "write" /\ setup'.file = 4
      <4>1. setup \in SetupType /\ setup' = [setup EXCEPT !.pc = "write"]
        BY <2>2 DEF CreateFile, IInv, TypeInv
      <4> QED BY <1>1, <2>2, <4>1 DEF SetupType
    <3>4. ~KeyUntouched'
      BY <3>3 DEF KeyUntouched, Running
    <3> QED BY <1>4, <3>1, <3>2, <3>4, PartsFacts DEF KeyOnDisk
  <2>3. CASE i = 4 /\ WriteFile
    <3>1. PICK w \in 0 .. FileParts : disk'["pk"].parts = Written(n, w)
      BY <1>1, <1>5, <2>3, WriteFileFacts, FileFacts DEF IInv, TypeInv
    <3>2. setup'.pc = "ok" \/ (setup'.pc = "write" /\ setup'.file = 4)
      <4>1. CASE setup' = NextFile
        BY <1>1, <2>3, <4>1, NextFileFacts DEF IInv
      <4>2. CASE setup' = [setup EXCEPT !.at = @ + 1]
        <5>1. setup \in SetupType /\ setup.pc = "write"
          BY <2>3 DEF WriteFile, IInv, TypeInv
        <5> QED BY <1>1, <2>3, <4>2, <5>1 DEF SetupType
      <4> QED BY <2>3, <4>1, <4>2 DEF WriteFile
    <3>3. lost' = lost
      BY <2>3 DEF WriteFile
    <3>4. ~KeyUntouched'
      BY <1>3, <1>4, <3>2, <3>3 DEF KeyUntouched, Running
    <3> QED BY <1>4, <3>1, <3>4 DEF KeyOnDisk
  <2>4. CASE i = 4 /\ (WriteFails \/ SetupCrash)
    <3>1. disk' = disk /\ lost' = lost
      BY <2>4 DEF WriteFails, SetupCrash
    <3>2. setup'.pc \in {"ok", "error"}
      BY <1>1, <2>4, NextFileFacts, FailsFacts DEF WriteFails, SetupCrash, IInv
    <3>3. ~KeyUntouched'
      BY <1>3, <1>4, <3>1, <3>2 DEF KeyUntouched, Running
    <3> QED BY <1>4, <1>6, <3>1, <3>3 DEF KeyOnDisk
  <2> QED BY <2>1, <2>2, <2>3, <2>4 DEF Setup
<1>9. LostInv'
  BY <1>1, <1>3, <1>4, <1>7 DEF KeyInv, LostInv, Running
<1>10. ASSUME NEW p \in Processes
       PROVE  KeyRead(provers[p])'
  <2>1. KeyRead(provers[p]) /\ provers'[p] = provers[p]
    BY <1>2, <1>10 DEF KeyInv
  <2>2. PICK a \in Nat : a = provers[p].after.run
    BY <1>10 DEF IInv, TypeInv, ProverType, EndingType
  <2>3. provers[p].pc = "up" /\ provers[p].after.pc = "ok" =>
            a < n /\ (a \in lost' => a \in lost)
    BY <1>1, <1>2, <1>7, <2>1, <2>2 DEF KeyRead
  <2> QED BY <1>1, <1>4, <2>1, <2>2, <2>3 DEF KeyRead
<1> QED BY <1>8, <1>9, <1>10 DEF KeyInv

\* A process that gets up has an older key if the setup has lost its own.
LEMMA LoadedReadsKey ==
    ASSUME IInv, KeyInv, NEW p \in Processes, Loaded(p)
    PROVE  KeyRead(provers[p])'
PROOF
<1> USE DEF IInv
<1>1. PICK q0 \in ProverType : q0 = provers[p] /\ ReadWell(q0) /\ q0.pc = "pk"
  BY DEF Loaded, TypeInv, ReadInv
<1>2. PICK q : q = [q0 EXCEPT !.pc = "up"]
  OBVIOUS
<1>3. /\ q \in ProverType /\ q.pc = "up" /\ q.cs = q0.cs
      /\ q.pk = q0.pk /\ q.after = q0.after
  BY <1>1, <1>2 DEF ProverType
<1>4. provers'[p] = q /\ setup' = setup /\ lost' = lost
  BY <1>1, <1>2 DEF Loaded, TypeInv
<1> SUFFICES ASSUME q.after.pc = "ok" PROVE KeyRead(q)
  BY <1>4 DEF KeyRead, Running
<1>5. PICK s \in Seq(Nat), t \in Seq(Nat) : s = q.cs /\ t = q.pk
  BY <1>3 DEF ProverType
<1>6. Len(s) = FileParts /\ Len(t) = FileParts
  BY <1>1, <1>3, <1>5 DEF ReadWell, Loaded, ReadOver
<1>7. /\ ~Running /\ q.after = Ending
      /\ Begins(s, disk["r1cs"].parts) /\ Begins(t, disk["pk"].parts)
  BY <1>1, <1>3, <1>5, EndingFacts DEF ReadWell, Undisturbed
<1>8. PICK n \in Nat : n = q.after.run /\ n = setup.run
  BY <1>7, EndingFacts DEF TypeInv, SetupType
<1>9. setup.pc = "ok"
  BY <1>7, EndingFacts
<1>10. s = Whole(n)
  <2>1. disk["r1cs"].parts = Written(n, FileParts)
    BY <1>8, <1>9, WholeWritten DEF SetupInv, WrittenInv
  <2>2. FileParts \in 0 .. FileParts
    BY PartsFacts
  <2> QED BY <1>6, <1>7, <2>1, <2>2, ReadOut
<1>11. ASSUME n \in lost
       PROVE  t # Whole(n)
  <2>1. PICK m \in Nat, k \in 0 .. FileParts : disk["pk"].parts = Written(m, k) /\ m < n
    BY <1>8, <1>9, <1>11 DEF KeyInv, KeyOnDisk, KeyUntouched
  <2>2. t = Whole(m)
    BY <1>6, <1>7, <2>1, ReadOut
  <2>3. Whole(m)[1] = m /\ Whole(n)[1] = n
    BY PartsFacts DEF Whole
  <2> QED BY <2>1, <2>2, <2>3
<1> QED BY <1>3, <1>5, <1>7, <1>8, <1>10, <1>11 DEF KeyRead

LEMMA NextKeepsKeyInv == IInv /\ KeyInv /\ [Next]_vars => KeyInv'
PROOF
<1> SUFFICES ASSUME IInv, KeyInv, [Next]_vars PROVE KeyInv'
  OBVIOUS
<1>1. CASE Setup
  BY <1>1, StartKeepsKeyInv, SetupKeepsKeyInv
<1>2. CASE ~Setup
  <2>1. UNCHANGED << disk, setup, lost >>
    BY <1>2
    DEF Next, vars, OpenR1CS, LoadR1CS, OpenPK, LoadPK, Loaded, LoadFails, Exit, Ends,
        Send, Handle, BadRequest, MakeWitness, Lock, Answer, ProveFails, Done
  <2>2. ASSUME NEW p \in Processes, provers'[p] # provers[p]
        PROVE  Loaded(p) \/ provers'[p].pc # "up"
    <3> USE <2>2
    <3>1. provers \in [Processes -> ProverType]
      BY DEF IInv, TypeInv
    <3>2. CASE \E o \in Processes : Loads(o)
      <4>1. PICK o \in Processes : Loads(o)
        BY <3>2
      <4>2. o = p
        BY <3>1, <4>1 DEF Loads, OpenR1CS, LoadR1CS, OpenPK, LoadPK, Loaded
      <4>3. CASE OpenR1CS(p)
        BY <3>1, <4>3 DEF OpenR1CS, Down
      <4>4. CASE LoadR1CS(p) \/ OpenPK(p) \/ LoadPK(p)
        BY <3>1, <4>4 DEF LoadR1CS, OpenPK, LoadPK, ProverType
      <4> QED BY <4>1, <4>2, <4>3, <4>4 DEF Loads
    <3>3. CASE \E o \in Processes : LoadFails(o) \/ Exit(o)
      BY <3>1, <3>3, DownFacts DEF LoadFails, Exit, Ends
    <3>4. CASE \E r \in Requests : Answer(r) \/ ProveFails(r)
      BY <3>1, <3>4, DownFacts DEF Answer, ProveFails, AfterProof, Processes
    <3>5. CASE UNCHANGED provers
      BY <3>5
    <3> QED BY <1>2, <3>2, <3>3, <3>4, <3>5
            DEF Next, vars, Processes, Loads, Send, Handle, BadRequest, MakeWitness, Lock,
                Done
  <2>3. ASSUME NEW p \in Processes
        PROVE  KeyRead(provers[p])'
    <3>1. CASE Loaded(p)
      BY <2>3, <3>1, LoadedReadsKey
    <3>2. CASE provers'[p] = provers[p]
      BY <2>1, <2>3, <3>2 DEF KeyInv, KeyRead, Running
    <3>3. CASE provers'[p].pc # "up"
      BY <3>3 DEF KeyRead
    <3> QED BY <2>2, <2>3, <3>1, <3>2, <3>3
  <2> QED BY <2>1, <2>3 DEF KeyInv, KeyOnDisk, KeyUntouched, LostInv, Running
<1> QED BY <1>1, <1>2

\* A process that gets up after a setup reported success, with no other setup since,
\* has that setup's circuit and a whole proving key, for files of any length and
\* whatever was cut off before, and the key is that setup's exactly if the setup could
\* create the key's file (go/setup.go, go/service.go).
THEOREM KeysAlwaysMatch == Spec => []KeysMatch
PROOF
<1>1. IInv /\ KeyInv => KeysMatch
  <2> SUFFICES ASSUME IInv, KeyInv, NEW p \in Processes, NEW n \in 1 .. MaxSetups,
                      ServesSetup(p, n)
               PROVE  /\ provers[p].cs = Whole(n)
                      /\ OfOneSetup(provers[p].pk)
                      /\ (provers[p].pk = Whole(n)) <=> n \notin lost
                      /\ setup.pc = "ok" /\ setup.run = n =>
                            disk["sol"].parts = Whole(n)
    BY DEF KeysMatch, IInv, TypeInv
  <2>1. /\ provers[p].pc = "up" /\ provers[p].after.pc = "ok"
        /\ provers[p].after.run = n /\ provers[p].after # NoEnding
    BY EndingFacts DEF ServesSetup, IInv
  <2>2. provers[p].cs = Whole(n) /\ (n \in lost => provers[p].pk # Whole(n))
    BY <2>1 DEF KeyInv, KeyRead
  <2>3. n \notin lost => provers[p].pk = Whole(n)
    BY <2>1 DEF IInv, ReadInv, ReadWell, AllOf
  <2>4. OfOneSetup(provers[p].pk)
    BY <2>1 DEF IInv, ReadInv, ReadWell
  <2>5. setup.pc = "ok" /\ setup.run = n => disk["sol"].parts = Whole(n)
    BY DEF IInv, SetupInv, WrittenInv
  <2> QED BY <2>2, <2>3, <2>4, <2>5
<1>2. Init => KeyInv
  BY InitKeyInv
<1>3. IInv /\ KeyInv /\ [Next]_vars => KeyInv'
  BY NextKeepsKeyInv
<1> QED BY <1>1, <1>2, <1>3, IInvAlways, PTL DEF Spec

\* A process that loads while no setup runs has a circuit and a key each of which one
\* setup wrote to the end, however many setups died in the middle of a file before
\* (go/setup.go, go/service.go, go/prove.go).
THEOREM LoadedAlwaysOfOneSetup == Spec => []LoadedOfOneSetup
PROOF
<1>1. IInv => LoadedOfOneSetup
  BY DEF IInv, TypeInv, ReadInv, ReadWell, LoadedOfOneSetup
<1> QED BY <1>1, IInvAlways, PTL

\* The mutex of the service is held exactly while a request of its is proved, for
\* any number of requests and whatever fails (go/service.go).
THEOREM MutexAlways == Spec => []MutexHeldByProver
PROOF
<1>1. IInv => MutexHeldByProver
  BY DEF IInv
<1> QED BY <1>1, IInvAlways, PTL

\* The public inputs of every answer are, as numbers, the hashes in the limbs of its
\* own request: neither the reduction in the field nor the hexadecimal form loses
\* anything, in any base and for hashes of any length (go/prove.go, go/circuit.go).
THEOREM AnswersAlwaysExact == Spec => []AnswersExact
PROOF
<1>1. Init => AnswerInv
  BY DEF Init, AnswerInv, Carries, Unsent, InWork
<1>2. IInv /\ AnswerInv /\ [Next]_vars => AnswerInv'
  BY NextKeepsAnswers
<1>3. AnswerInv => AnswersExact
  BY DEF AnswerInv, AnswersExact, Carries, Exact, Half
<1> QED BY <1>1, <1>2, <1>3, IInvAlways, PTL DEF Spec

=============================================================================
