----------------------------- MODULE Latencies ------------------------------
(***************************************************************************)
(* The ring of latency samples (src/latencies.go) that tells the scheduler *)
(* how many workers a backlog needs.  Workers Add to it concurrently, each *)
(* in three atomic steps; the scheduler takes the Average, slot by slot,   *)
(* while they do.                                                          *)
(*                                                                         *)
(* A sample is stood for by the ticket it was given: the value of `index`  *)
(* that its Add obtained.  NoSample is the zero a slot holds before any    *)
(* Add has stored to it.  MaxAdds bounds the tickets given.                *)
(***************************************************************************)
EXTENDS Integers, FiniteSets

CONSTANTS Writer,    \* the workers
          L,         \* len(l.values)
          MaxAdds

ASSUME RingSize == L \in Nat \ {0}
ASSUME WriterFinite == IsFiniteSet(Writer)
ASSUME MaxAddsType == MaxAdds \in Nat

NoSample == -1
Slot == 0..L-1

VARIABLES
  values,    \* the ring
  index,     \* the last ticket given
  added,     \* the Adds that have counted themselves
  pc,        \* where each writer is in Add
  ticket,    \* the ticket each writer holds
  reading,   \* Average is in its loop
  length,    \* how many slots it reads
  i,         \* the next slot it reads
  missed     \* history: the slots it read that held no sample

addVars == <<values, index, added, pc, ticket>>
avgVars == <<reading, length, i, missed>>
vars == <<addVars, avgVars>>

Lesser(a, b) == IF a < b THEN a ELSE b

TypeOK ==
  /\ values \in [Slot -> Nat \cup {NoSample}]
  /\ index \in Nat \cup {-1}
  /\ added \in Nat
  /\ pc \in [Writer -> {"idle", "claimed", "stored"}]
  /\ ticket \in [Writer -> Nat]
  /\ reading \in BOOLEAN
  /\ length \in 0..L
  /\ i \in 0..L
  /\ missed \subseteq Slot

Init ==
  /\ values = [s \in Slot |-> NoSample]
  /\ index = -1
  /\ added = 0
  /\ pc = [w \in Writer |-> "idle"]
  /\ ticket = [w \in Writer |-> 0]
  /\ reading = FALSE
  /\ length = 0
  /\ i = 0
  /\ missed = {}

-----------------------------------------------------------------------------
(* Add: take a ticket, store, count.                                       *)

\* Mutated: index is read and written back in steps that do not exclude others.
ClaimNotAtomic(w) ==
  /\ pc[w] = "idle"
  /\ index + 1 < MaxAdds
  /\ index' \in {index, index + 1}
  /\ ticket' = [ticket EXCEPT ![w] = index + 1]
  /\ pc' = [pc EXCEPT ![w] = "claimed"]
  /\ UNCHANGED <<values, added, avgVars>>

Claim(w) ==
  /\ pc[w] = "idle"
  /\ index + 1 < MaxAdds
  /\ index' = index + 1
  /\ ticket' = [ticket EXCEPT ![w] = index + 1]
  /\ pc' = [pc EXCEPT ![w] = "claimed"]
  /\ UNCHANGED <<values, added, avgVars>>

\* Mutated: the sample is stored to the slot after the one of its ticket.
StoreNextSlot(w) ==
  /\ pc[w] = "claimed"
  /\ values' = [values EXCEPT ![(ticket[w] + 1) % L] = ticket[w]]
  /\ pc' = [pc EXCEPT ![w] = "stored"]
  /\ UNCHANGED <<index, added, ticket, avgVars>>

Store(w) ==
  /\ pc[w] = "claimed"
  /\ values' = [values EXCEPT ![ticket[w] % L] = ticket[w]]
  /\ pc' = [pc EXCEPT ![w] = "stored"]
  /\ UNCHANGED <<index, added, ticket, avgVars>>

Count(w) ==
  /\ pc[w] = "stored"
  /\ added' = added + 1
  /\ pc' = [pc EXCEPT ![w] = "idle"]
  /\ UNCHANGED <<values, index, ticket, avgVars>>

-----------------------------------------------------------------------------
(* Average: load `added`, then read that many slots, or all of them.       *)

\* Mutated: Average always reads the whole ring.
LoadAddedWholeRing ==
  /\ ~reading
  /\ length' = L
  /\ reading' = TRUE
  /\ i' = 0
  /\ missed' = {}
  /\ UNCHANGED addVars

\* With nothing added the average is 0 at once.
LoadAdded ==
  /\ ~reading
  /\ length' = Lesser(added, L)
  /\ reading' = (length' > 0)
  /\ i' = 0
  /\ missed' = {}
  /\ UNCHANGED addVars

ReadSlot ==
  /\ reading
  /\ i < length
  /\ missed' = IF values[i] = NoSample THEN missed \cup {i} ELSE missed
  /\ i' = i + 1
  /\ UNCHANGED <<addVars, reading, length>>

AverageReturns ==
  /\ reading
  /\ i = length
  /\ reading' = FALSE
  /\ UNCHANGED <<addVars, length, i, missed>>

-----------------------------------------------------------------------------
AddNext(w) == Claim(w) \/ Store(w) \/ Count(w)

Next == \/ \E w \in Writer : AddNext(w)
        \/ LoadAdded
        \/ ReadSlot
        \/ AverageReturns

Spec == Init /\ [][Next]_vars

-----------------------------------------------------------------------------
(* Properties.                                                             *)

InFlight == {w \in Writer : pc[w] # "idle"}

\* No ticket is lost: an Add that has a ticket either has counted itself or is
\* on its way, so that `added` never runs ahead of the tickets.
TicketsCounted == added + Cardinality(InFlight) = index + 1

\* A slot that has been given out but holds no sample is one an Add now under
\* way will store to.  This is as much as latencies.go:62 can rely on: the
\* slots below `added` need not all hold samples.
UnwrittenClaimed ==
  \A s \in Slot : s <= index /\ values[s] = NoSample =>
    \E w \in Writer : pc[w] = "claimed" /\ ticket[w] = s

\* When no Add is under way the average is over samples only.
QuiescentExact ==
  InFlight = {} => \A s \in Slot : s < Lesser(added, L) => values[s] # NoSample

\* One Average reads at most one empty slot per worker, however the Adds and
\* the reads interleave: the estimate of scheduler.go:106 is low by no more.
MissedBounded == Cardinality(missed) <= Cardinality(Writer)

-----------------------------------------------------------------------------
(* What comments and messages of the code say and the code does not do: TLC *)
(* finds each of these violated.                                            *)

\* latencies.go:52: "the guarantee here is that the old value is replaced with
\* a newer one".
NewerReplacesOlder == [][\A s \in Slot : values'[s] >= values[s]]_vars

\* latencies.go:55: "after the store, there are at least `added` number of
\* elements".
ElementsCoverAdded ==
  Cardinality({s \in Slot : values[s] # NoSample}) >= Lesser(added, L)
=============================================================================
