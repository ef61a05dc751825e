---------------------------- MODULE MCScheduler -----------------------------
(* A small instance of Scheduler for TLC.                                  *)
EXTENDS Scheduler

CONSTANTS f1, f2, f3, w1, w2

MCFunc == {f1, f2, f3}
MCWorker == {w1, w2}
=============================================================================
