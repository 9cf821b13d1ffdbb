-------------------------- MODULE MCProverService --------------------------
(* The service for TLC. *)
EXTENDS ProverService

\* The largest gap the service proves, and one more.
MCGaps == {SkipMax, SkipMax + 1}

=============================================================================
