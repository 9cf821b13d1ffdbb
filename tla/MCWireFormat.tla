---------------------------- MODULE MCWireFormat ----------------------------
(* Messages for TLC: of the fields of a message each is zero in some and not   *)
(* in others, numbers take one or two bytes, and byte strings look like tags.  *)
EXTENDS WireFormat

Strings == {<< >>, << 8 >>}
Lists   == {<< >>, << << >> >>, << << 10, 1 >>, << >> >>}

MCMessages ==
    [ClientState |->
        [StepVerifierDigest : Strings, SkipVerifierDigest : {<< 9 >>},
         TrustingPeriod : {0, 300}, Frozen : BOOLEAN,
         LatestHeight : [RevisionNumber : {0, 1}, RevisionHeight : {0, 200}]],
     ConsensusState |->
        [BlockHash : Strings, AppHash : {<< >>, << 74, 9 >>}, Timestamp : {0, 127, 128, 1023}],
     UpdateStateMessage |->
        [TrustedHeight : {0, 5}, UntrustedHeight : {130}, UntrustedBlockHash : {<< 8 >>},
         Timestamp : {0, 8}, AppHash : {<< 1 >>}, SimpleTreeProof : Lists,
         Input : {<< >>, << << >>, << 66 >> >>}, ZkProof : {<< >>, << 66, 66 >>}],
     Timestamp |-> [Seconds : {-512, -1, 0, 1, 511}, Nanos : {-16, -1, 0, 1, 15}],
     ProverConfig |->
        [ZkProverAddr : Strings, StepVerifierDigest : Strings, SkipVerifierDigest : {<< 255 >>},
         ProverType : Strings, TrustingPeriod : Strings]]

\* Field 9 as a number, in a tag longer than it need be, as fixed and delimited
\* values, as a group and as a group within a group.
MCUnknownFields ==
    {<< 72, 200, 1 >>, << 200, 0, 5 >>, << 73, 8, 8, 8, 8, 8, 8, 8, 8 >>,
     << 77, 10, 10, 10, 10 >>, << 74, 2, 10, 9 >>, << 75, 8, 1, 76 >>,
     << 75, 75, 74, 1, 76, 76, 76 >>}

MCStrayBytes == {0, 1, 3, 7, 8, 10, 42, 74, 75, 76, 253, 255}

=============================================================================
