-------------------------- MODULE LatenciesProofs ---------------------------
(***************************************************************************)
(* Proofs about Latencies, for any finite set of workers and any ring      *)
(* size.  A slot below L has itself as its first ticket, so that an empty  *)
(* slot that has been given out names the Add that is to fill it.          *)
(***************************************************************************)
EXTENDS Latencies, FiniteSetTheorems, FunctionTheorems, TLAPS

\* A ticket is stored to a slot, and a first ticket to the slot of its number.
LEMMA SlotOfTicket ==
  /\ \A t \in Nat : t % L \in Slot
  /\ \A t \in Slot : t % L = t
<1>1. L \in Nat /\ L > 0
  BY RingSize
<1> QED
  BY <1>1 DEF Slot

TypeInv == TypeOK /\ i <= length

\* The variables of the ring keep their types, and Average stays within the
\* slots it has chosen to read.
THEOREM TypeCorrect == Spec => []TypeInv
<1>1. Init => TypeInv
  <2> SUFFICES ASSUME Init PROVE TypeInv
    OBVIOUS
  <2> USE DEF Init
  <2>1. values \in [Slot -> Nat \cup {NoSample}]
    OBVIOUS
  <2>2. index \in Nat \cup {-1} /\ added \in Nat
    OBVIOUS
  <2>3. pc \in [Writer -> {"idle", "claimed", "stored"}]
    OBVIOUS
  <2>4. ticket \in [Writer -> Nat]
    OBVIOUS
  <2>5. length \in 0..L /\ i \in 0..L /\ i <= length
    BY RingSize
  <2>6. reading \in BOOLEAN /\ missed \subseteq Slot
    OBVIOUS
  <2> QED
    BY <2>1, <2>2, <2>3, <2>4, <2>5, <2>6 DEF TypeInv, TypeOK
<1>2. TypeInv /\ [Next]_vars => TypeInv'
  <2> SUFFICES ASSUME TypeInv, [Next]_vars PROVE TypeInv'
    OBVIOUS
  <2> USE RingSize DEF TypeInv, TypeOK, addVars, avgVars
  <2>1. ASSUME NEW w \in Writer, Claim(w) PROVE TypeInv'
    BY <2>1 DEF Claim
  <2>2. ASSUME NEW w \in Writer, Store(w) PROVE TypeInv'
    BY <2>2 DEF Store
  <2>3. ASSUME NEW w \in Writer, Count(w) PROVE TypeInv'
    BY <2>3 DEF Count
  <2>4. CASE LoadAdded
    BY <2>4 DEF LoadAdded, Lesser
  <2>5. CASE ReadSlot
    BY <2>5 DEF ReadSlot, Slot
  <2>6. CASE AverageReturns
    BY <2>6 DEF AverageReturns
  <2>7. CASE UNCHANGED vars
    BY <2>7 DEF vars
  <2> QED
    BY <2>1, <2>2, <2>3, <2>4, <2>5, <2>6, <2>7 DEF Next, AddNext
<1> QED
  BY <1>1, <1>2, PTL DEF Spec

-----------------------------------------------------------------------------
\* No ticket is lost between the atomic steps of Add (latencies.go:49-56).
THEOREM TicketsCorrect == Spec => []TicketsCounted
<1>1. Init => TicketsCounted
  <2> SUFFICES ASSUME Init PROVE TicketsCounted
    OBVIOUS
  <2>1. InFlight = {}
    BY DEF Init, InFlight
  <2> QED
    BY <2>1, FS_EmptySet DEF Init, TicketsCounted
<1>2. TypeInv /\ TicketsCounted /\ [Next]_vars => TicketsCounted'
  <2> SUFFICES ASSUME TypeInv, TicketsCounted, [Next]_vars
               PROVE  TicketsCounted'
    OBVIOUS
  <2>1. /\ pc \in [Writer -> {"idle", "claimed", "stored"}]
        /\ added \in Nat /\ index \in Int
    BY DEF TypeInv, TypeOK
  <2>2. IsFiniteSet(InFlight) /\ Cardinality(InFlight) \in Nat
    BY WriterFinite, FS_Subset, FS_CardinalityType DEF InFlight
  <2>3. ASSUME NEW w \in Writer, Claim(w) PROVE TicketsCounted'
    <3>1. InFlight' = InFlight \cup {w} /\ w \notin InFlight
      BY <2>1, <2>3 DEF Claim, InFlight
    <3>2. Cardinality(InFlight') = Cardinality(InFlight) + 1
      BY <2>2, <3>1, FS_AddElement
    <3> QED
      BY <2>1, <2>2, <2>3, <3>2 DEF Claim, TicketsCounted
  <2>4. ASSUME NEW w \in Writer, Store(w) PROVE TicketsCounted'
    <3>1. InFlight' = InFlight
      BY <2>1, <2>4 DEF Store, InFlight
    <3> QED
      BY <2>4, <3>1 DEF Store, TicketsCounted
  <2>5. ASSUME NEW w \in Writer, Count(w) PROVE TicketsCounted'
    <3>1. InFlight' = InFlight \ {w} /\ w \in InFlight
      BY <2>1, <2>5 DEF Count, InFlight
    <3>2. Cardinality(InFlight') = Cardinality(InFlight) - 1
      BY <2>2, <3>1, FS_RemoveElement
    <3> QED
      BY <2>1, <2>2, <2>5, <3>2 DEF Count, TicketsCounted
  <2>6. CASE LoadAdded \/ ReadSlot \/ AverageReturns \/ UNCHANGED vars
    BY <2>6 DEF LoadAdded, ReadSlot, AverageReturns, vars, addVars,
      TicketsCounted, InFlight
  <2> QED
    BY <2>3, <2>4, <2>5, <2>6 DEF Next, AddNext
<1> QED
  BY <1>1, <1>2, TypeCorrect, PTL DEF Spec

\* An empty slot that has been given out is one an Add under way will fill.
THEOREM UnwrittenAreClaimed == Spec => []UnwrittenClaimed
<1>1. Init => UnwrittenClaimed
  BY DEF Init, UnwrittenClaimed, Slot
<1>2. TypeInv /\ UnwrittenClaimed /\ [Next]_vars => UnwrittenClaimed'
  <2> SUFFICES ASSUME TypeInv, UnwrittenClaimed, [Next]_vars,
                      NEW s \in Slot, s <= index', values'[s] = NoSample
               PROVE  \E w \in Writer : pc'[w] = "claimed" /\ ticket'[w] = s
    BY DEF UnwrittenClaimed
  <2> USE DEF TypeInv, TypeOK
  <2>1. s \in Int
    BY DEF Slot
  <2>2. ASSUME NEW w \in Writer, Claim(w)
        PROVE  \E v \in Writer : pc'[v] = "claimed" /\ ticket'[v] = s
    <3>1. CASE s = index + 1
      BY <2>2, <3>1 DEF Claim
    <3>2. CASE s # index + 1
      <4>1. s <= index /\ values[s] = NoSample
        BY <2>1, <2>2, <3>2 DEF Claim
      <4>2. PICK v \in Writer : pc[v] = "claimed" /\ ticket[v] = s
        BY <4>1 DEF UnwrittenClaimed
      <4> QED
        BY <2>2, <4>2 DEF Claim
    <3> QED
      BY <3>1, <3>2
  <2>3. ASSUME NEW w \in Writer, Store(w)
        PROVE  \E v \in Writer : pc'[v] = "claimed" /\ ticket'[v] = s
    <3>1. ticket[w] \in Nat /\ ticket[w] % L \in Slot
      BY SlotOfTicket
    <3>2. ticket[w] % L # s
      BY <2>3, <3>1 DEF Store, NoSample
    <3>3. s <= index /\ values[s] = NoSample
      BY <2>3, <3>1, <3>2 DEF Store
    <3>4. PICK v \in Writer : pc[v] = "claimed" /\ ticket[v] = s
      BY <3>3 DEF UnwrittenClaimed
    <3>5. v # w
      BY <3>2, <3>4, SlotOfTicket
    <3> QED
      BY <2>3, <3>4, <3>5 DEF Store
  <2>4. ASSUME NEW w \in Writer, Count(w)
        PROVE  \E v \in Writer : pc'[v] = "claimed" /\ ticket'[v] = s
    BY <2>4 DEF Count, UnwrittenClaimed
  <2>5. CASE LoadAdded \/ ReadSlot \/ AverageReturns \/ UNCHANGED vars
    BY <2>5 DEF LoadAdded, ReadSlot, AverageReturns, vars, addVars,
      UnwrittenClaimed
  <2> QED
    BY <2>2, <2>3, <2>4, <2>5 DEF Next, AddNext
<1> QED
  BY <1>1, <1>2, TypeCorrect, PTL DEF Spec

\* With no Add under way every slot that Average would read holds a sample.
THEOREM QuiescentIsExact == Spec => []QuiescentExact
<1>1. TypeInv /\ TicketsCounted /\ UnwrittenClaimed => QuiescentExact
  <2> SUFFICES ASSUME TypeInv, TicketsCounted, UnwrittenClaimed, InFlight = {},
                      NEW s \in Slot, s < Lesser(added, L)
               PROVE  values[s] # NoSample
    BY DEF QuiescentExact
  <2>1. added = index + 1
    BY FS_EmptySet DEF TicketsCounted, TypeInv, TypeOK
  <2>2. s <= index
    BY <2>1, RingSize DEF Lesser, Slot, TypeInv, TypeOK
  <2>3. \A w \in Writer : pc[w] # "claimed"
    BY DEF InFlight
  <2> QED
    BY <2>2, <2>3 DEF UnwrittenClaimed
<1> QED
  BY <1>1, TypeCorrect, TicketsCorrect, UnwrittenAreClaimed, PTL
-----------------------------------------------------------------------------
(* How many empty slots one Average can read.                              *)

\* The slots that Average has yet to read and that are still empty.
Pending == {s \in Slot : i <= s /\ s < length /\ values[s] = NoSample}

\* Each of them, and each empty slot it has read, had an Add of its own under
\* way when `added` was loaded.
MissedInv == /\ IsFiniteSet(missed \cup Pending)
             /\ Cardinality(missed \cup Pending) <= Cardinality(Writer)

\* The empty slots below `added` have different writers.
LEMMA EmptySlotsFewerThanWriters ==
  ASSUME UnwrittenClaimed, NEW T, T \subseteq Slot,
         \A s \in T : s <= index /\ values[s] = NoSample
  PROVE  IsFiniteSet(T) /\ Cardinality(T) <= Cardinality(Writer)
<1> DEFINE filler(s) == CHOOSE w \in Writer : pc[w] = "claimed" /\ ticket[w] = s
           F == [s \in T |-> filler(s)]
<1>1. \A s \in T : filler(s) \in Writer /\ ticket[filler(s)] = s
  BY DEF UnwrittenClaimed
<1>2. F \in [T -> Writer] /\ \A s \in T : ticket[F[s]] = s
  BY <1>1
<1>3. \A a, b \in T : F[a] = F[b] => a = b
  BY <1>2
<1> HIDE DEF F
<1>4. F \in Injection(T, Writer)
  BY <1>2, <1>3, Fun_IsInj
<1> QED
  BY <1>4, WriterFinite, FS_Injection

\* One Average is off by at most one sample per worker.
THEOREM MissedAreFew == Spec => []MissedBounded
<1> USE DEF MissedInv
<1>1. Init => MissedInv
  <2> SUFFICES ASSUME Init PROVE MissedInv
    OBVIOUS
  <2>1. missed \cup Pending = {}
    BY DEF Init, Pending, Slot
  <2>2. Cardinality(Writer) \in Nat
    BY WriterFinite, FS_CardinalityType
  <2> QED
    BY <2>1, <2>2, FS_EmptySet
<1>2. /\ TypeInv /\ TicketsCounted /\ UnwrittenClaimed /\ MissedInv
      /\ [Next]_vars
      => MissedInv'
  <2> SUFFICES ASSUME TypeInv, TicketsCounted, UnwrittenClaimed, MissedInv,
                      [Next]_vars
               PROVE  MissedInv'
    OBVIOUS
  <2> USE DEF TypeInv, TypeOK
  <2>1. ASSUME missed' \cup Pending' \subseteq missed \cup Pending
        PROVE  MissedInv'
    <3>1. /\ IsFiniteSet(missed' \cup Pending')
          /\ Cardinality(missed' \cup Pending') <= Cardinality(missed \cup Pending)
      BY <2>1, FS_Subset
    <3>2. /\ Cardinality(missed' \cup Pending') \in Nat
          /\ Cardinality(missed \cup Pending) \in Nat
          /\ Cardinality(Writer) \in Nat
      BY <3>1, WriterFinite, FS_CardinalityType
    <3> QED
      BY <3>1, <3>2
  <2>2. ASSUME NEW w \in Writer, AddNext(w) PROVE MissedInv'
    <3>1. UNCHANGED <<missed, i, length>>
      BY <2>2 DEF AddNext, Claim, Store, Count, avgVars
    <3>2. \A s \in Slot : values'[s] = NoSample => values[s] = NoSample
      BY <2>2 DEF AddNext, Claim, Store, Count, NoSample
    <3> QED
      BY <2>1, <3>1, <3>2 DEF Pending
  <2>3. CASE LoadAdded
    <3>1. missed' = {} /\ values' = values
      BY <2>3 DEF LoadAdded, addVars
    <3>2. added <= index + 1
      BY WriterFinite, FS_Subset, FS_CardinalityType DEF TicketsCounted, InFlight
    <3>3. \A s \in Pending' : s \in Slot /\ s <= index /\ values[s] = NoSample
      BY <2>3, <3>1, <3>2, RingSize DEF Pending, LoadAdded, Lesser, Slot
    <3>4. Pending' \subseteq Slot
      BY <3>3
    <3>5. IsFiniteSet(Pending') /\ Cardinality(Pending') <= Cardinality(Writer)
      BY <3>3, <3>4, EmptySlotsFewerThanWriters
    <3>6. missed' \cup Pending' = Pending'
      BY <3>1
    <3> QED
      BY <3>5, <3>6
  <2>4. CASE ReadSlot
    <3>1. UNCHANGED <<values, length>> /\ i' = i + 1 /\ i < length
      BY <2>4 DEF ReadSlot, addVars
    <3>2. i \in Slot
      BY <3>1, RingSize DEF Slot
    <3>3. missed' \subseteq missed \cup Pending
      BY <2>4, <3>2 DEF ReadSlot, Pending
    <3>4. Pending' \subseteq Pending
      BY <3>1 DEF Pending, Slot
    <3> QED
      BY <2>1, <3>3, <3>4
  <2>5. CASE AverageReturns \/ UNCHANGED vars
    BY <2>5 DEF AverageReturns, vars, addVars, avgVars, Pending
  <2> QED
    BY <2>2, <2>3, <2>4, <2>5 DEF Next
<1>3. MissedInv => MissedBounded
  <2> SUFFICES ASSUME MissedInv PROVE MissedBounded
    OBVIOUS
  <2>1. IsFiniteSet(missed) /\ Cardinality(missed) <= Cardinality(missed \cup Pending)
    BY FS_Subset
  <2>2. /\ Cardinality(missed) \in Nat /\ Cardinality(missed \cup Pending) \in Nat
        /\ Cardinality(Writer) \in Nat
    BY <2>1, WriterFinite, FS_CardinalityType
  <2> QED
    BY <2>1, <2>2 DEF MissedBounded
<1> QED
  BY <1>1, <1>2, <1>3, TypeCorrect, TicketsCorrect, UnwrittenAreClaimed, PTL
  DEF Spec
=============================================================================
