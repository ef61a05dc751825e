--------------------------- MODULE MCNodeBreaker ----------------------------
(* Small instances of NodeBreaker for TLC.                                 *)
EXTENDS NodeBreaker, TLC

CONSTANTS n1, n2, n3, s1, s2

MCNode == {n1, n2, n3}
MCSetting == {s1, s2}
MCSymmetry == Permutations(MCNode) \cup Permutations(MCSetting)
=============================================================================
