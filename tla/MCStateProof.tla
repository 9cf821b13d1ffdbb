---------------------------- MODULE MCStateProof ----------------------------
(* IBC stores for TLC: every shape of tree over the even keys up to 8, one  *)
(* with 10, and the odd keys between and beside them to ask for.  The metadata *)
(* of the lowest nodes is as short as it gets, that of the others as long.     *)
(* Headers: all fields different, all alike, some empty; times with and        *)
(* without seconds and nanoseconds.                                            *)
EXTENDS StateProof

MCLeaf(k, v) == Leaf(k, v, 3)
MCNode(l, r) == Node(l, r, IF IsLeaf(l) THEN 3 ELSE 11)

\* All trees whose leaves are keys (a sequence) with one value.
RECURSIVE Shapes(_, _)
Shapes(keys, v) ==
    IF Len(keys) = 1 THEN {MCLeaf(keys[1], v)}
    ELSE UNION {{MCNode(l, r) : l \in Shapes(SubSeq(keys, 1, n), v),
                                r \in Shapes(SubSeq(keys, n + 1, Len(keys)), v)} :
                   n \in 1 .. Len(keys) - 1}

MCTrees ==
    UNION {Shapes(keys, 1) : keys \in {<< 2 >>, << 2, 6 >>, << 2, 4, 6 >>,
                                       << 2, 4, 6, 8 >>}}
      \cup Shapes(<< 2, 4 >>, 2)
      \cup {MCNode(MCNode(MCNode(MCLeaf(2, 1), MCLeaf(4, 1)),
                          MCNode(MCLeaf(6, 1), MCLeaf(8, 1))), MCLeaf(10, 1))}

MCKeys == 1 .. 11

MCEmpty == << >>
MCSomeHashes == {<< 11 >>, << 12 >>}
MCAppHashes == MCSomeHashes \cup {AppHash(t) : t \in MCTrees}
MCBlockFields == [i \in FieldIndexes |-> << i + 20 >>]

MCFields ==
    {MCBlockFields,
     [i \in FieldIndexes |-> << 11 >>],
     [i \in FieldIndexes |-> IF i \in {5, 6, 9, 11, 12} THEN MCEmpty ELSE << 12 >>],
     [i \in FieldIndexes |-> IF i = ValidatorsHashIndex THEN MCEmpty ELSE << i >>]}

MCHeaders ==
    [time : 0 .. 3, appHash : MCSomeHashes \cup {MCEmpty}, fields : MCFields]

MCMessages ==
    [time : 0 .. 3, appHash : MCSomeHashes,
     proof : {getSimpleTreeProof(h) : h \in MCHeaders}]

=============================================================================
