----------------------------- MODULE MCLightDB -----------------------------
(* TLC's entry point for LightDB; the constants are given in the .cfg files. *)
EXTENDS LightDB

=============================================================================
