---------------------------- MODULE GnarkService ----------------------------
(***************************************************************************)
(* The gnark program that wraps plonky2 proofs: "setup" writes the circuit  *)
(* and its keys into the data directory (go/setup.go), "service" loads them *)
(* and answers requests, one proof at a time (go/service.go), and "prove"   *)
(* does the same for one proof (go/prove.go).  The circuit (go/circuit.go)  *)
(* ties the public inputs to the bytes of the plonky2 proof.                *)
(*                                                                          *)
(* A file is written and read in FileParts parts; nothing keeps a process   *)
(* from reading while setup writes.  A part is the number of the setup that *)
(* wrote it.                                                                *)
(*                                                                          *)
(* A hash is HashLength bytes in base Base, a number below 2^HashBits; the  *)
(* field has FieldOrder elements, more than such a number needs and fewer   *)
(* than HashLength bytes can write.                                         *)
(***************************************************************************)
EXTENDS Integers, Sequences, FiniteSetsExt

CONSTANTS
    Base,          \* 256 in the code
    HashLength,    \* bytes of a hash: 32 in the code
    HashBits,      \* bits of a truncated hash: 253 in the code
    FieldOrder,    \* the order of BN254's scalar field
    Service,       \* the process that serves requests
    Command,       \* the process of the "prove" command
    Requests,      \* requests in flight
    Bodies,        \* what a request may carry
    FileParts,     \* writes it takes to write a file, and reads to read it
    MaxSetups      \* bound on the number of setups

NoRequest == "none"

ASSUME GnarkAssumption ==
    /\ {Base, HashLength, HashBits, FieldOrder, FileParts} \subseteq Nat \ {0}
    /\ MaxSetups \in Nat
    /\ 2 ^ HashBits < FieldOrder /\ FieldOrder < Base ^ HashLength
    /\ Service # Command
    /\ NoRequest \notin Requests
    /\ \A body \in Bodies : body.limbs \in Seq(Nat)

\* Arithmetic that the provers do not know.
ASSUME PowersOfBase ==
    /\ Base ^ 0 = 1
    /\ \A k \in 0 .. HashLength :
          Base ^ k \in Nat \ {0} /\ Base ^ (k + 1) = Base * Base ^ k

VARIABLES
    disk,      \* file -> whether it is there, and its parts
    setup,     \* the "setup" command: its number, stage, file and position in it
    lost,      \* history: setups that could not create the proving key's file
    provers,   \* process -> what it has loaded
    requests,  \* request -> how far it is
    mu         \* the mutex of the service: the request that has it

vars == << disk, setup, lost, provers, requests, mu >>

-----------------------------------------------------------------------------
(* Numbers *)

\* The number with these digits, the first of which is the highest.
Number(digits) ==
    LET value[i \in 0 .. Len(digits)] ==
            IF i = 0 THEN 0 ELSE Base * value[i - 1] + digits[i]
    IN  value[Len(digits)]

\* byte(v & 0xFF) of each public input, read as a big-endian number.
HashOf(limbs) == Number([i \in DOMAIN limbs |-> limbs[i] % Base])

\* Only in a mutant: the length in bits is not checked.
AnyBitLen(n) == n >= 0

BitLenOK(n) == n < 2 ^ HashBits

\* The digest the circuit computes from the same limbs, in the field.
CircuitDigest(limbs) == Number(limbs) % FieldOrder

\* A public input as the service reads it back from the witness.
FieldElement(n) == n % FieldOrder

\* HexBigInt: bytes without leading zeros, in JSON and back.
HexBytes(n) ==
    LET len == Min({k \in 0 .. HashLength : n < Base ^ k})
    IN  [i \in 1 .. len |-> (n \div Base ^ (len - i)) % Base]

\* The limbs of a proof that plonky2 verifies are bytes.  Only this much of it is
\* used: no limb is so large that the number leaves the field while the hash, from
\* which the upper bits of each limb are cut, is in range.
ASSUME LimbsAssumption ==
    \A body \in Bodies :
        body.proof = "valid" /\ Len(body.limbs) = 2 * HashLength =>
            \A i \in 1 .. 2 :
                LET limbs == SubSeq(body.limbs, (i - 1) * HashLength + 1, i * HashLength)
                IN  HashOf(limbs) < 2 ^ HashBits => Number(limbs) < FieldOrder

-----------------------------------------------------------------------------
Absent == [exists |-> FALSE, parts |-> << >>]
Files  == << "r1cs", "vk", "sol", "pk" >>

\* How the last setup ended; none has while one is running.
NoEnding == [pc |-> "running", run |-> 0]

Down   == [pc |-> "down", cs |-> << >>, pk |-> << >>, after |-> NoEnding]
Unsent == [pc |-> "unsent", body |-> << >>, at |-> Service, input |-> << >>]
InWork == {"received", "waiting", "proving"}

Init ==
    /\ disk = [f \in {Files[i] : i \in 1 .. 4} |-> Absent]
    /\ setup = [pc |-> "none", run |-> 0, file |-> 1, at |-> 0]
    /\ lost = {}
    /\ provers = [p \in {Service, Command} |-> Down]
    /\ requests = [r \in Requests |-> Unsent]
    /\ mu = NoRequest

-----------------------------------------------------------------------------
(* setup *)

Running == setup.pc \in {"create", "write"}
File    == Files[setup.file]
Ending  == IF Running THEN NoEnding ELSE [pc |-> setup.pc, run |-> setup.run]

Loading(p) == provers[p].pc \in {"r1cs", "pk"}

\* The command makes the data directory; it ends here, with nothing changed, when
\* the proving system is unknown or the circuit does not compile.
StartSetup ==
    /\ ~Running
    /\ setup.run < MaxSetups
    /\ setup' = [pc |-> "create", run |-> setup.run + 1, file |-> 1, at |-> 0]
    /\ provers' = [p \in DOMAIN provers |->
           IF Loading(p) THEN [provers[p] EXCEPT !.after = NoEnding] ELSE provers[p]]
    /\ UNCHANGED << disk, lost, requests, mu >>

\* The next file, or the end: setup returns nil.
NextFile ==
    IF setup.file < 4 THEN [setup EXCEPT !.pc = "create", !.file = @ + 1, !.at = 0]
    ELSE [setup EXCEPT !.pc = "ok", !.at = 0]

Fails == [setup EXCEPT !.pc = "error", !.at = 0]

\* Only in a mutant: an existing file is opened without truncating it.
OpenFile ==
    /\ setup.pc = "create"
    /\ disk' = [disk EXCEPT ![File].exists = TRUE]
    /\ setup' = [setup EXCEPT !.pc = "write"]
    /\ UNCHANGED << lost, provers, requests, mu >>

\* os.Create truncates the file in place: who is reading it is at its end.
CreateFile ==
    /\ setup.pc = "create"
    /\ disk' = [disk EXCEPT ![File] = [exists |-> TRUE, parts |-> << >>]]
    /\ setup' = [setup EXCEPT !.pc = "write"]
    /\ UNCHANGED << lost, provers, requests, mu >>

\* An error is returned, but not for the proving key, which is written last: its
\* old file stays.
CreateFails ==
    /\ setup.pc = "create"
    /\ setup' = IF File = "pk" THEN NextFile ELSE Fails
    /\ lost' = IF File = "pk" THEN lost \cup {setup.run} ELSE lost
    /\ UNCHANGED << disk, provers, requests, mu >>

\* A part is written at the position; after the last one comes the next file.
WriteFile ==
    /\ setup.pc = "write"
    /\ disk' = [disk EXCEPT ![File].parts =
           [i \in DOMAIN @ \cup {setup.at + 1} |->
               IF i = setup.at + 1 THEN setup.run ELSE @[i]]]
    /\ setup' = IF setup.at + 1 = FileParts THEN NextFile
                ELSE [setup EXCEPT !.at = @ + 1]
    /\ UNCHANGED << lost, provers, requests, mu >>

\* The errors of both keys' WriteTo are ignored: the file stays cut off.
WriteFails ==
    /\ setup.pc = "write"
    /\ setup' = IF File \in {"vk", "pk"} THEN NextFile ELSE Fails
    /\ UNCHANGED << disk, lost, provers, requests, mu >>

\* The process dies, or groth16.Setup returns an error.
SetupCrash ==
    /\ Running
    /\ setup' = Fails
    /\ UNCHANGED << disk, lost, provers, requests, mu >>

-----------------------------------------------------------------------------
(* Loading: NewService, and the "prove" command *)

\* The process p ends, and its request handlers with it.
Ends(p) ==
    /\ provers' = [provers EXCEPT ![p] = Down]
    /\ requests' = [r \in Requests |->
           IF requests[r].at = p /\ requests[r].pc \in InWork
           THEN [requests[r] EXCEPT !.pc = "error"] ELSE requests[r]]
    /\ mu' = IF p = Service THEN NoRequest ELSE mu
    /\ UNCHANGED << disk, setup, lost >>

\* The command reads its proof first, and loads the circuit only for a good one.
MayLoad(p) ==
    p = Command => \E r \in Requests : requests[r].at = p /\ requests[r].pc = "waiting"

\* History: how the last setup had ended when the process began to load.
OpenR1CS(p) ==
    /\ provers[p].pc = "down" /\ MayLoad(p)
    /\ disk["r1cs"].exists
    /\ provers' = [provers EXCEPT ![p] = [Down EXCEPT !.pc = "r1cs", !.after = Ending]]
    /\ UNCHANGED << disk, setup, lost, requests, mu >>

\* There is something in the file after n parts.
More(f, n) == n < Len(disk[f].parts)

\* ReadFrom and UnsafeReadFrom read a part at a time, of the file as it is then.
LoadR1CS(p) ==
    LET n == Len(provers[p].cs)
    IN  /\ provers[p].pc = "r1cs"
        /\ n < FileParts /\ More("r1cs", n)
        /\ provers' = [provers EXCEPT ![p].cs = Append(@, disk["r1cs"].parts[n + 1])]
        /\ UNCHANGED << disk, setup, lost, requests, mu >>

LoadPK(p) ==
    LET n == Len(provers[p].pk)
    IN  /\ provers[p].pc = "pk"
        /\ n < FileParts /\ More("pk", n)
        /\ provers' = [provers EXCEPT ![p].pk = Append(@, disk["pk"].parts[n + 1])]
        /\ UNCHANGED << disk, setup, lost, requests, mu >>

\* Only in a mutant: the error of ReadFrom is dropped, like those of WriteTo.
ReadSomehow(f, n) == n = FileParts \/ ~More(f, n)

\* ReadFrom has returned without an error.
ReadOver(f, n) == n = FileParts

\* Nothing ties the proving key to the circuit that was read before it.
OpenPK(p) ==
    /\ provers[p].pc = "r1cs"
    /\ ReadOver("r1cs", Len(provers[p].cs))
    /\ disk["pk"].exists
    /\ provers' = [provers EXCEPT ![p].pc = "pk"]
    /\ UNCHANGED << disk, setup, lost, requests, mu >>

Loaded(p) ==
    /\ provers[p].pc = "pk"
    /\ ReadOver("pk", Len(provers[p].pk))
    /\ provers' = [provers EXCEPT ![p].pc = "up"]
    /\ UNCHANGED << disk, setup, lost, requests, mu >>

\* A file is missing, or ends before all of it is read.
LoadFails(p) ==
    /\ \/ provers[p].pc = "down" /\ MayLoad(p) /\ ~disk["r1cs"].exists
       \/ /\ provers[p].pc = "r1cs" /\ ~ReadOver("r1cs", Len(provers[p].cs))
          /\ ~More("r1cs", Len(provers[p].cs))
       \/ /\ provers[p].pc = "r1cs" /\ ReadOver("r1cs", Len(provers[p].cs))
          /\ ~disk["pk"].exists
       \/ /\ provers[p].pc = "pk" /\ ~ReadOver("pk", Len(provers[p].pk))
          /\ ~More("pk", Len(provers[p].pk))
    /\ Ends(p)

\* The process is killed.
Exit(p) ==
    /\ provers[p].pc # "down"
    /\ Ends(p)

-----------------------------------------------------------------------------
(* Requests *)

\* Only in a mutant: the handler returns with the mutex.
StaysLocked(r) == IF mu = r THEN r ELSE mu

\* defer mu.Unlock(), also when the handler panics.
Unlocked(r) == IF mu = r THEN NoRequest ELSE mu

Goes(r, pc) == requests' = [requests EXCEPT ![r].pc = pc]

\* A client sends a request to the service, or the command is started, one at a
\* time, on a directory with the same two records.
Send(r, p, body) ==
    /\ requests[r].pc = "unsent"
    /\ IF p = Service THEN provers[p].pc = "up"
       ELSE provers[p].pc = "down" /\ \A q \in Requests : requests[q].at # p
    /\ requests' = [requests EXCEPT ![r] = [pc |-> "received", body |-> body,
                                            at |-> p, input |-> << >>]]
    /\ UNCHANGED << disk, setup, lost, provers, mu >>

\* getInputHashOutputHash.
ValidInputs(body) ==
    /\ Len(body.limbs) = 2 * HashLength
    /\ BitLenOK(HashOf(SubSeq(body.limbs, 1, HashLength)))
    /\ BitLenOK(HashOf(SubSeq(body.limbs, HashLength + 1, 2 * HashLength)))

Hashes(limbs) == << HashOf(SubSeq(limbs, 1, HashLength)),
                    HashOf(SubSeq(limbs, HashLength + 1, 2 * HashLength)) >>

\* Status 400, or a panic that net/http recovers from: the body cannot be decoded
\* as a proof, or its public inputs are not two hashes.
BadRequest(r) ==
    /\ requests[r].pc = "received"
    /\ requests[r].body.proof = "malformed" \/ ~ValidInputs(requests[r].body)
    /\ Goes(r, "error")
    /\ UNCHANGED << disk, setup, lost, provers, mu >>

\* The witness is made before the mutex is taken.
MakeWitness(r) ==
    /\ requests[r].pc = "received"
    /\ requests[r].body.proof # "malformed" /\ ValidInputs(requests[r].body)
    /\ Goes(r, "waiting")
    /\ UNCHANGED << disk, setup, lost, provers, mu >>

\* mu.Lock(); the command has no mutex, and has loaded its keys by now.
Lock(r) ==
    /\ requests[r].pc = "waiting"
    /\ provers[requests[r].at].pc = "up"
    /\ requests[r].at = Service => mu = NoRequest
    /\ mu' = IF requests[r].at = Service THEN r ELSE mu
    /\ Goes(r, "proving")
    /\ UNCHANGED << disk, setup, lost, provers >>

\* The command is over after its proof.
AfterProof(r) ==
    IF requests[r].at = Command THEN [provers EXCEPT ![Command] = Down] ELSE provers

\* Plonky2xVerifierCircuit.Define: the plonky2 proof verifies, and the public
\* inputs are the digests of its bytes.
Satisfied(body, hashes) ==
    /\ body.proof = "valid"
    /\ FieldElement(hashes[1]) = CircuitDigest(SubSeq(body.limbs, 1, HashLength))
    /\ FieldElement(hashes[2]) =
          CircuitDigest(SubSeq(body.limbs, HashLength + 1, 2 * HashLength))

\* groth16.Prove succeeds, parseInputAndProof reads the inputs back, and the
\* answer carries them as hexadecimal numbers.
Answer(r) ==
    LET body == requests[r].body
        hashes == Hashes(body.limbs)
    IN  /\ requests[r].pc = "proving"
        /\ Satisfied(body, hashes)
        /\ requests' = [requests EXCEPT ![r].pc = "answered", ![r].input =
               [i \in 1 .. 2 |-> Number(HexBytes(FieldElement(hashes[i])))]]
        /\ mu' = Unlocked(r)
        /\ provers' = AfterProof(r)
        /\ UNCHANGED << disk, setup, lost >>

\* Status 500, or a panic that net/http recovers from: the circuit is not
\* satisfied, or memory does not suffice.
ProveFails(r) ==
    /\ requests[r].pc = "proving"
    /\ Goes(r, "error")
    /\ mu' = Unlocked(r)
    /\ provers' = AfterProof(r)
    /\ UNCHANGED << disk, setup, lost >>

\* The client has read the answer and may send another request.
Done(r) ==
    /\ requests[r].pc \in {"answered", "error"}
    /\ requests' = [requests EXCEPT ![r] = Unsent]
    /\ UNCHANGED << disk, setup, lost, provers, mu >>

Handle(r) ==
    BadRequest(r) \/ MakeWitness(r) \/ Lock(r) \/ Answer(r) \/ ProveFails(r)

Setup ==
    StartSetup \/ CreateFile \/ CreateFails \/ WriteFile \/ WriteFails \/ SetupCrash

Next ==
    \/ Setup
    \/ \E p \in {Service, Command} :
          \/ OpenR1CS(p) \/ LoadR1CS(p) \/ OpenPK(p) \/ LoadPK(p) \/ Loaded(p)
          \/ LoadFails(p) \/ Exit(p)
          \/ \E r \in Requests, body \in Bodies : Send(r, p, body)
    \/ \E r \in Requests : Handle(r) \/ Done(r)

Spec == Init /\ [][Next]_vars

-----------------------------------------------------------------------------
(* Properties *)

Whole(n) == [i \in 1 .. FileParts |-> n]

\* The process was started when setup n had reported success, and no other setup
\* ran while it loaded.
ServesSetup(p, n) == provers[p].pc = "up" /\ provers[p].after = [pc |-> "ok", run |-> n]

OfOneSetup(parts) ==
    Len(parts) = FileParts /\ \A i, j \in DOMAIN parts : parts[i] = parts[j]

\* A process that is started after a setup that reported success and gets up has the
\* circuit of that setup, to which the exported verifier contract belongs, and its
\* proving key, whole, although setup drops the errors of writing the keys and
\* earlier setups may have left anything; but for the setup that could not create
\* the key's file, and says nothing either: then the key is an earlier setup's.
KeysMatch ==
    \A p \in DOMAIN provers, n \in 1 .. MaxSetups :
        ServesSetup(p, n) =>
            /\ provers[p].cs = Whole(n)
            /\ OfOneSetup(provers[p].pk)
            /\ (provers[p].pk = Whole(n)) <=> n \notin lost
            /\ setup.pc = "ok" /\ setup.run = n => disk["sol"].parts = Whole(n)

\* However many setups have failed or died in the middle of a file before, a process
\* that loads while none is running has a circuit and a proving key each of which
\* one setup wrote to the end: no remains of an older file are read as part of a
\* newer one.  (While a setup runs it may get such a mixture.)
LoadedOfOneSetup ==
    \A p \in DOMAIN provers :
        provers[p].pc = "up" /\ provers[p].after # NoEnding =>
            OfOneSetup(provers[p].cs) /\ OfOneSetup(provers[p].pk)

\* The public inputs of an answer are, as numbers, the hashes in the plonky2 proof
\* of that very request, although several are in flight: nothing is lost in the
\* field, in the hexadecimal form or in bytes above 255.
AnswersExact ==
    \A r \in Requests :
        requests[r].pc = "answered" =>
            \A i \in 1 .. 2 :
                requests[r].input[i] =
                    Number(SubSeq(requests[r].body.limbs, (i - 1) * HashLength + 1,
                                  i * HashLength))

\* The service works on one proof at a time, and the mutex is held by a request
\* that is being worked on: no error, panic or restart leaves it locked.
MutexHeldByProver ==
    \A r \in Requests :
        (mu = r) <=> (requests[r].pc = "proving" /\ requests[r].at = Service)

=============================================================================
