--------------------------- MODULE MCGnarkService ---------------------------
(* Request bodies for TLC, with hashes of two digits in base 4 and three bits:  *)
(* a hash that is in range, one that is out of range, one with a digit beyond   *)
(* the base, a wrong number of digits, an invalid proof.                        *)
EXTENDS GnarkService, TLC

\* The requests can be exchanged for one another.
MCSymmetry == Permutations(Requests)

MCBodies ==
    [limbs : {<< 1, 2, 0, 3 >>, << 0, 1, 1, 3 >>, << 3, 0, 1, 1 >>,
              << 1, 1, 0, 4 >>, << 1, 1, 1 >>},
     proof : {"valid"}]
      \cup {[limbs |-> << 1, 2, 0, 3 >>, proof |-> p] : p \in {"invalid", "malformed"}}

=============================================================================
