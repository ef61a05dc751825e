---------------------------- MODULE MCLatencies -----------------------------
(* Small instances of Latencies for TLC.                                   *)
EXTENDS Latencies, TLC

CONSTANTS w1, w2, w3

MCWriter3 == {w1, w2, w3}
MCSymmetry == Permutations(MCWriter3)
=============================================================================
