------------------------------ MODULE MC_Rufs -------------------------------
(* Small instances of Rufs for TLC. *)
EXTENDS Rufs

CONSTANTS n1, n2, n3, n4

\* A directory with a file in it, and two files beside it.
OneDir == {<<n1>>}
ThreeFiles == {<<n1, n4>>, <<n2>>, <<n3>>}
\* Two files.
TwoFiles == {<<n2>>, <<n3>>}

\* From the second cell of a block of two into the next block, or from the second block
\* beyond the last; from the start of a file.
AcrossBlocks == {<<1, 2>>, <<2, 3>>}
FromStart == {<<0, 2>>}

Users == Permutations({n2, n3}) \cup Permutations(Values)
=============================================================================
