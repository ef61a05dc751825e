------------------------------ MODULE TaskPool ------------------------------
(***************************************************************************)
(* What the dual-write scheduler of scheduler.go promises to the code that *)
(* hands closures to it: an accepted closure waits, is run by exactly one  *)
(* worker, at most once, closures begin in the order they were accepted,   *)
(* and the pool counts as stopped only when no closure is being run.       *)
(* Closures still waiting when the pool stops are never run.               *)
(* Workers, counters and tickers are not visible here: Scheduler           *)
(* implements this specification.                                          *)
(***************************************************************************)
EXTENDS Sequences

CONSTANT Func     \* the closures that may be handed to the pool

VARIABLES waiting,    \* accepted, not begun, oldest first
          active,     \* being run by some worker
          finished,   \* run to their end
          phase       \* "open", then "stopping", then "stopped"

vars == <<waiting, active, finished, phase>>

Known == {waiting[i] : i \in DOMAIN waiting} \cup active \cup finished

TypeOK == /\ waiting \in Seq(Func)
          /\ active \subseteq Func
          /\ finished \subseteq Func
          /\ phase \in {"open", "stopping", "stopped"}

Init == /\ waiting = <<>>
        /\ active = {}
        /\ finished = {}
        /\ phase = "open"

Accept(f) == /\ phase # "stopped"
             /\ f \notin Known
             /\ waiting' = Append(waiting, f)
             /\ UNCHANGED <<active, finished, phase>>

Begin == /\ phase # "stopped"
         /\ waiting # <<>>
         /\ waiting' = Tail(waiting)
         /\ active' = active \cup {Head(waiting)}
         /\ UNCHANGED <<finished, phase>>

End(f) == /\ f \in active
          /\ active' = active \ {f}
          /\ finished' = finished \cup {f}
          /\ UNCHANGED <<waiting, phase>>

RequestStop == /\ phase = "open"
               /\ phase' = "stopping"
               /\ UNCHANGED <<waiting, active, finished>>

Stop == /\ phase = "stopping"
        /\ active = {}
        /\ phase' = "stopped"
        /\ UNCHANGED <<waiting, active, finished>>

Next == \/ \E f \in Func : Accept(f) \/ End(f)
        \/ Begin
        \/ RequestStop
        \/ Stop

Spec == Init /\ [][Next]_vars
=============================================================================
