---------------------------- MODULE MCDualWrite -----------------------------
(* Small instances of DualWrite for TLC.                                   *)
EXTENDS DualWrite

CONSTANTS r1, w1

MCReq == {r1}
MCWorker == {w1}
=============================================================================
