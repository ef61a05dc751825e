--------------------------- MODULE MCCircuitCall ----------------------------
(* A small instance of CircuitCall for TLC: one call as limiter.Execute     *)
(* makes it, with the limiter's handler and a context that is never done,   *)
(* and one with the default handler and a caller that may give up.          *)
EXTENDS CircuitCall

CONSTANTS k1, k2

MCId == {k1, k2}
MCHandler == [k \in MCId |-> IF k = k1 THEN "limiter" ELSE "default"]
MCCancellable == {k2}
=============================================================================
