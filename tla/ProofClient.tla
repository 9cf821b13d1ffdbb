---------------------------- MODULE ProofClient ----------------------------
(***************************************************************************)
(* A proof's way from the gnark service through the relayer to the          *)
(* contract: the relayer's configuration and what is built from it          *)
(* (go/relay/config.go, NewProver), one call of ZKProverClient.Prove        *)
(* (go/relay/zkprover.go), the two formats of proofs (go/relay/zkp/groth16) *)
(* and their decoding by the contract that the prover type is meant for.    *)
(*                                                                          *)
(* Bytes are digits in base Base.  A digest in the configuration is << b >> *)
(* where its hexadecimal text decodes to the bytes b, and Malformed where   *)
(* it does not; a duration likewise.                                        *)
(***************************************************************************)
EXTENDS Integers, SequencesExt

CONSTANTS
    Base,        \* 256 in the code
    FpSize,      \* bytes of a field element, and of a digest: 32 in the code
    CountSize,   \* bytes of the number of commitments: 4 in the code
    DurationMod, \* 2^64: a duration becomes a uint64
    Configs,     \* configurations
    Proofs,      \* proofs gnark may make: words, commitments, pok
    Digest,      \* the digest of the circuit that is proved
    Contracts    \* proving systems of the contract

ASSUME ProofClientAssumption ==
    /\ {Base, FpSize, CountSize, DurationMod} \subseteq Nat \ {0}
    /\ Base > 1
    /\ Digest \in [1 .. FpSize -> 0 .. Base - 1]
    /\ Contracts \subseteq {"groth16", "groth16-commitment", "mock"}

\* Eight field elements; two for each commitment, and two to prove knowledge of
\* what is committed to.
ASSUME ProofsAssumption ==
    \A p \in Proofs :
        /\ p = [words |-> p.words, commitments |-> p.commitments, pok |-> p.pok]
        /\ {p.words, p.commitments, p.pok} \subseteq Seq(0 .. Base ^ FpSize - 1)
        /\ Len(p.words) = 8
        /\ Len(p.commitments) % 2 = 0
        /\ Len(p.pok) = IF p.commitments = << >> THEN 0 ELSE 2

\* What hexadecimal text decodes to is bytes.
ASSUME ConfigsAssumption ==
    \A c \in Configs : c.step # << >> => c.step[1] \in Seq(0 .. Base - 1)

\* The powers of the base, of which the provers know nothing.
ASSUME PowersOfBase ==
    /\ Base ^ 0 = 1
    /\ \A k \in 0 .. FpSize + CountSize :
          Base ^ k \in Nat \ {0} /\ Base ^ (k + 1) = Base * Base ^ k

VARIABLES
    config,    \* the relayer's configuration
    relayer,   \* "off", "validated", "up" or "crashed"
    client,    \* the initial client state, if one was made
    contract,  \* the proving system of the contract
    call       \* one call of Prove, and the message made from it

vars == << config, relayer, client, contract, call >>

Malformed == << >>
NoClient == [step |-> << >>, skip |-> << >>, period |-> 0]
NoCall == [pc |-> "idle", made |-> << >>, bytes |-> << >>, input |-> << >>,
           genuine |-> FALSE, zkp |-> << >>]

-----------------------------------------------------------------------------
(* Numbers and bytes *)

\* n in size bytes, the highest first.
Bytes(n, size) == [i \in 1 .. size |-> (n \div Base ^ (size - i)) % Base]

\* big.Int.SetBytes: the number that has these bytes.
Number(bytes) ==
    CHOOSE n \in 0 .. Base ^ Len(bytes) - 1 : Bytes(n, Len(bytes)) = bytes

\* The i-th field element after the first skip bytes.
Word(bytes, skip, i) ==
    Number(SubSeq(bytes, skip + (i - 1) * FpSize + 1, skip + i * FpSize))

WordsOf(bytes, skip, n) == [i \in 1 .. n |-> Word(bytes, skip, i)]

\* Words as field elements, one after the other.
Pack(words) ==
    [k \in 1 .. Len(words) * FpSize |->
        Bytes(words[(k - 1) \div FpSize + 1], FpSize)[((k - 1) % FpSize) + 1]]

\* gnark's MarshalSolidity: commitments only where there are any.
MarshalSolidity(p) ==
    Pack(p.words) \o IF p.commitments = << >> THEN << >>
                     ELSE Bytes(Len(p.commitments) \div 2, CountSize)
                             \o Pack(p.commitments) \o Pack(p.pok)

-----------------------------------------------------------------------------
(* The formats of proofs *)

NbCommitments == 1

CommitmentCount(bytes) ==
    Number(SubSeq(bytes, FpSize * 8 + 1, FpSize * 8 + CountSize))

\* Only in a mutant: the count is taken to be a field element.
AfterCountWord == FpSize * 8 + FpSize

\* Where the commitments start.
AfterCount == FpSize * 8 + CountSize

\* How far Parse slices the proof.
SlicedTo(type, bytes) ==
    CASE type = "groth16" -> FpSize * 8
      [] type = "groth16-commitment" ->
             IF Len(bytes) >= AfterCount /\ CommitmentCount(bytes) = NbCommitments
             THEN AfterCount + FpSize * 4
             ELSE AfterCount
      [] OTHER -> 0

\* A slice beyond the end of the proof panics.
Panics(type, bytes) == Len(bytes) < SlicedTo(type, bytes)

Parses(type, bytes) ==
    \/ type = "groth16"
    \/ type = "groth16-commitment" /\ CommitmentCount(bytes) = NbCommitments

ParseGroth16Proof(bytes) ==
    [words |-> WordsOf(bytes, 0, 8), commitments |-> << >>, pok |-> << >>]

ParseGroth16CommitmentProof(bytes) ==
    [words |-> WordsOf(bytes, 0, 8),
     commitments |-> WordsOf(bytes, AfterCount, 2),
     pok |-> WordsOf(bytes, AfterCount + 2 * FpSize, 2)]

Parse(type, bytes) ==
    IF type = "groth16" THEN ParseGroth16Proof(bytes)
    ELSE ParseGroth16CommitmentProof(bytes)

\* Only in a mutant: encoded as a dynamic type, behind its offset.
EncodeWithOffset(p) == Bytes(FpSize, FpSize) \o Pack(p.words \o p.commitments \o p.pok)

\* Arrays and tuples of static types are packed without offsets.
EncodeEthABI(p) == Pack(p.words \o p.commitments \o p.pok)

MockProof == << 1, 0, 1 >>

\* routeUpdateState of the contract: abi.decode reverts on short data.
Reverts(system, zkp) ==
    \/ system = "groth16" /\ Len(zkp) < FpSize * 8
    \/ system = "groth16-commitment" /\ Len(zkp) < FpSize * 12

Decoded(system, zkp) ==
    IF system = "groth16"
    THEN [words |-> WordsOf(zkp, 0, 8), commitments |-> << >>, pok |-> << >>]
    ELSE [words |-> WordsOf(zkp, 0, 8), commitments |-> WordsOf(zkp, FpSize * 8, 2),
          pok |-> WordsOf(zkp, FpSize * 10, 2)]

-----------------------------------------------------------------------------
(* The configuration *)

\* Only in a mutant: the second digest is not looked at.
ValidatesStepOnly(c) ==
    c.proverType # "" /\ c.step # Malformed /\ c.period # Malformed

Validate(c) ==
    /\ c.proverType # ""
    /\ c.step # Malformed
    /\ c.skip # Malformed
    /\ c.period # Malformed

Init ==
    /\ config \in Configs
    /\ relayer = "off"
    /\ client = NoClient
    /\ contract \in Contracts
    /\ call = NoCall

LoadConfig ==
    /\ relayer = "off"
    /\ Validate(config)
    /\ relayer' = "validated"
    /\ UNCHANGED << config, client, contract, call >>

\* ProverConfig.Build, NewProver and Init: the digests are decoded, or panic.
NewProver ==
    /\ relayer = "validated"
    /\ relayer' = IF Malformed \in {config.step, config.skip} THEN "crashed" ELSE "up"
    /\ UNCHANGED << config, client, contract, call >>

\* GetTrustingPeriod may be negative, and is made a uint64 all the same.
CreateInitialLightClientState ==
    /\ relayer = "up"
    /\ client = NoClient
    /\ Len(config.step[1]) = FpSize /\ Len(config.skip[1]) = FpSize
    /\ client' = [step |-> config.step[1], skip |-> config.skip[1],
                  period |-> config.period[1] % DurationMod]
    /\ UNCHANGED << config, relayer, contract, call >>

-----------------------------------------------------------------------------
(* Prove *)

\* copy(input[0][:], digest): cut off or filled with zeros.
DigestInput(d) == [i \in 1 .. FpSize |-> IF i <= Len(d) THEN d[i] ELSE 0]

\* The public inputs: the digest, and the two hashes as one.  The step digest
\* stands for both, which Prove treats alike.
OwnInput == << DigestInput(config.step[1]), "hashes" >>
CircuitInput == << Digest, "hashes" >>

\* Fields that are missing in JSON are zero.
LostInput == << << >>, "zeros" >>

\* Only in a mutant: the digest is not compared.
SameHashes(a, b) == a[2] = b[2]

\* bytes.Equal of the numbers' Bytes(), for each input.
SameInput(a, b) == Number(a[1]) = Number(b[1]) /\ a[2] = b[2]

Ends(pc, zkp) == call' = [call EXCEPT !.pc = pc, !.zkp = zkp]

\* No request is made for a mock proof.
ProveMock ==
    /\ relayer = "up" /\ call.pc = "idle"
    /\ config.proverType = "mock"
    /\ Ends("proved", MockProof)
    /\ UNCHANGED << config, relayer, client, contract >>

\* The service answers with a genuine proof and its public inputs ...
AnswerGenuine(p) ==
    /\ relayer = "up" /\ call.pc = "idle"
    /\ config.proverType # "mock"
    /\ call' = [NoCall EXCEPT !.pc = "answered", !.made = p, !.genuine = TRUE,
                              !.bytes = MarshalSolidity(p), !.input = CircuitInput]
    /\ UNCHANGED << config, relayer, client, contract >>

\* ... or with JSON that has lost fields, which decode to nothing ...
AnswerPartial(p, n, input) ==
    /\ relayer = "up" /\ call.pc = "idle"
    /\ config.proverType # "mock"
    /\ call' = [NoCall EXCEPT !.pc = "answered", !.made = p,
                              !.bytes = SubSeq(MarshalSolidity(p), 1, n), !.input = input]
    /\ UNCHANGED << config, relayer, client, contract >>

\* ... or not with JSON, or the node does not return the headers.
AnswerFails ==
    /\ relayer = "up" /\ call.pc = "idle"
    /\ config.proverType # "mock"
    /\ Ends("error", << >>)
    /\ UNCHANGED << config, relayer, client, contract >>

\* A panic in AsyncProve's goroutine ends the process.
ProvePanics ==
    /\ call.pc = "answered"
    /\ Panics(config.proverType, call.bytes)
    /\ relayer' = "crashed"
    /\ Ends("panicked", << >>)
    /\ UNCHANGED << config, client, contract >>

Proved ==
    /\ call.pc = "answered"
    /\ ~Panics(config.proverType, call.bytes)
    /\ Parses(config.proverType, call.bytes)
    /\ SameInput(OwnInput, call.input)
    /\ Ends("proved", EncodeEthABI(Parse(config.proverType, call.bytes)))
    /\ UNCHANGED << config, relayer, client, contract >>

\* Another number of commitments, other public inputs, another prover type.
ProveFails ==
    /\ call.pc = "answered"
    /\ ~Panics(config.proverType, call.bytes)
    /\ \/ ~Parses(config.proverType, call.bytes)
       \/ ~SameInput(OwnInput, call.input)
    /\ Ends("error", << >>)
    /\ UNCHANGED << config, relayer, client, contract >>

NextCall ==
    /\ relayer = "up"
    /\ call.pc \in {"proved", "error"}
    /\ call' = NoCall
    /\ UNCHANGED << config, relayer, client, contract >>

Next ==
    \/ LoadConfig \/ NewProver \/ CreateInitialLightClientState
    \/ ProveMock \/ AnswerFails \/ ProvePanics \/ Proved \/ ProveFails \/ NextCall
    \/ \E p \in Proofs :
          \/ AnswerGenuine(p)
          \/ \E n \in 0 .. Len(MarshalSolidity(p)), input \in {LostInput, CircuitInput} :
                AnswerPartial(p, n, input)

Spec == Init /\ [][Next]_vars

-----------------------------------------------------------------------------
(* Properties *)

\* What Validate lets pass does not panic later on: a relayer crashes only in a
\* call of Prove, on an answer that gnark did not make for its prover type.
CrashOnlyOnForeignAnswer ==
    relayer = "crashed" =>
        /\ call.pc = "panicked"
        /\ call.genuine => /\ config.proverType = "groth16-commitment"
                           /\ call.made.commitments = << >>

\* A call of Prove that gets a genuine proof of the system it is configured for,
\* with the digest it is configured for, succeeds, and the contract decodes from
\* the message exactly what gnark made: no word is shifted, cut off or swapped
\* between MarshalSolidity, Parse, EncodeEthABI and abi.decode.
GenuineProofDelivered ==
    LET matches == \/ config.proverType = "groth16" /\ call.made.commitments = << >>
                   \/ /\ config.proverType = "groth16-commitment"
                      /\ Len(call.made.commitments) = 2
    IN  (call.genuine /\ matches /\ config.step = << Digest >>) =>
            /\ call.pc \notin {"error", "panicked"}
            /\ (call.pc = "proved" /\ contract = config.proverType) =>
                   /\ ~Reverts(contract, call.zkp)
                   /\ Decoded(contract, call.zkp) = call.made

\* A contract with a verifier that can decode a message decodes from it words that
\* gnark made, whatever the relayer's prover type: a mock proof reverts, and so
\* does a proof without commitments where they are needed.
DecodedWordsGenuine ==
    (call.pc = "proved" /\ contract # "mock" /\ ~Reverts(contract, call.zkp)) =>
        /\ config.proverType # "mock"
        /\ Decoded(contract, call.zkp).words = call.made.words
        /\ contract = "groth16-commitment" => config.proverType = contract

\* A digest of another length than the circuit's, which Validate accepts, never
\* gets as far as a client state, nor as a message with inputs that are not those
\* of the circuit.
ShortDigestStops ==
    /\ client # NoClient => Len(client.step) = FpSize /\ Len(client.skip) = FpSize
    /\ (call.pc = "proved" /\ config.proverType # "mock") =>
           DigestInput(config.step[1]) = Digest

=============================================================================
