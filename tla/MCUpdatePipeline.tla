-------------------------- MODULE MCUpdatePipeline --------------------------
(* UpdatePipeline for TLC: the public inputs that begin with a zero byte.  The *)
(* other constants are given in the .cfg files.                               *)
EXTENDS UpdatePipeline

\* None, so that every update is accepted.
MCNone == {}

\* The output hash of block 2: no update to it is accepted, one to block 3 is.
MCOutputOfTwo == {LC!OutputHash(LC!BlockHash(Block(2)))}

\* The input hash of the step from 2 to 3 alone: neither digest nor output hash.
MCStepInput == {LC!StepInput(2, LC!BlockHash(Block(2)))}

=============================================================================
