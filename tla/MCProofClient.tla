--------------------------- MODULE MCProofClient ---------------------------
(* Two-byte field elements in base 4, digests with and without a leading zero,  *)
(* proofs without, with one and with two commitments.                           *)
EXTENDS ProofClient

MCWords(k) == [i \in 1 .. 8 |-> (i * k * 3) % 16]

MCProofs ==
    {[words |-> MCWords(1), commitments |-> << >>, pok |-> << >>],
     [words |-> MCWords(3), commitments |-> << 1, 2 >>, pok |-> << 3, 0 >>],
     [words |-> MCWords(3), commitments |-> << 1, 2, 3, 0 >>, pok |-> << 0, 1 >>]}

MCDigest == << 0, 1 >>

MCConfigs ==
    [proverType : {"", "groth16", "groth16-commitment", "mock", "plonk"},
     step : {Malformed, << MCDigest >>, << << >> >>, << << 1 >> >>, << << 0, 1, 1 >> >>},
     skip : {Malformed, << << 1, 1 >> >>},
     period : {Malformed, << 3 >>, << -1 >>}]

MCContracts == {"groth16", "groth16-commitment", "mock"}

=============================================================================
