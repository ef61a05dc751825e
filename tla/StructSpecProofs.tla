--------------------------- MODULE StructSpecProofs ---------------------------
(* What holds of the layouts of structs for every number of goroutines and  *)
(* for every struct type, whatever its fields, names and depths.           *)
EXTENDS StructSpec, TLAPS

-----------------------------------------------------------------------------
(* Types.                                                                  *)

\* All that is used of the depth of a name not seen.
LEMMA FarIsNat == Far \in Nat
  BY SMT DEF Far

\* Every type considered is a sequence of fields.
LEMMA TypeIsSeq == ASSUME type \in Types PROVE
    /\ type \in Seq(Field)
    /\ Len(type) \in Nat
    /\ \A i \in Fields : type[i] \in Field
  BY TypesAssumption DEF Fields

\* The variables keep their types; in particular the map and the list hold only
\* fields of the type asked for.
THEOREM TypeCorrect == Spec => []TypeOK
<1>1. Init => TypeOK
  <2>1. ASSUME Init PROVE type \in Seq(Field) /\ Len(type) \in Nat
    BY <2>1, TypesAssumption DEF Init
  <2>2. ASSUME Init PROVE depth \in [Thread -> [Name -> 0 .. Far]]
    BY <2>2, FarIsNat DEF Init
  <2>3. ASSUME Init PROVE m \in [Thread -> [Name -> 0 .. Len(type)]]
    BY <2>1, <2>3 DEF Init
  <2>4. ASSUME Init PROVE k \in [Thread -> 1 .. Len(type) + 1]
    BY <2>1, <2>4 DEF Init
  <2>5. ASSUME Init PROVE l \in [Thread -> SUBSET Fields]
    BY <2>5 DEF Init
  <2> QED BY <2>2, <2>3, <2>4, <2>5 DEF Init, TypeOK
<1>2. TypeOK /\ [Next]_vars => TypeOK'
  <2> SUFFICES ASSUME TypeOK, [Next]_vars PROVE TypeOK'
    OBVIOUS
  <2> USE DEF TypeOK
  <2>1. ASSUME NEW t \in Thread, LookShared(t) PROVE TypeOK'
    BY <2>1 DEF LookShared, Return, object, Fields
  <2>2. ASSUME NEW t \in Thread, Lock(t) PROVE TypeOK'
    BY <2>2 DEF Lock, Return, object, Fields
  <2>3. ASSUME NEW t \in Thread, Visit(t) PROVE TypeOK'
    <3> DEFINE f == type[k[t]]
    <3>1. /\ type' = type /\ k[t] \in Fields /\ k[t] \in 1 .. Len(type)
          /\ f \in Field /\ Len(type) \in Nat
      BY <2>3, TypeIsSeq DEF Visit, Fields
    <3>2. f.name \in Name /\ f.depth \in 0 .. Far
      BY <3>1, FarIsNat DEF Field
    <3>3. k' \in [Thread -> 1 .. Len(type) + 1]
      BY <2>3, <3>1 DEF Visit
    <3>4. CASE SameDepth(t, f)
      BY <2>3, <3>1, <3>2, <3>3, <3>4 DEF Visit, SameDepth, Fields
    <3>5. CASE Shallower(t, f)
      <4>1. depth' \in [Thread -> [Name -> 0 .. Far]]
        BY <3>2, <3>5 DEF Shallower
      <4>2. m' \in [Thread -> [Name -> 0 .. Len(type)]]
        BY <3>1, <3>2, <3>5 DEF Shallower
      <4>3. l' \in [Thread -> SUBSET Fields]
        BY <3>1, <3>5 DEF Shallower
      <4> QED BY <2>3, <3>1, <3>3, <4>1, <4>2, <4>3 DEF Visit, Fields
    <3>6. CASE Deeper(t, f)
      BY <2>3, <3>1, <3>3, <3>6 DEF Visit, Deeper, Fields
    <3> QED BY <2>3, <3>4, <3>5, <3>6 DEF Visit
  <2>4. ASSUME NEW t \in Thread, Panic(t) PROVE TypeOK'
    BY <2>4 DEF Panic, object, Fields
  <2>5. ASSUME NEW t \in Thread, Store(t) PROVE TypeOK'
    BY <2>5 DEF Store, Return, object, Fields
  <2>6. CASE UNCHANGED vars
    BY <2>6 DEF vars, object, Fields
  <2> QED BY <2>1, <2>2, <2>3, <2>4, <2>5, <2>6 DEF Next, Step
<1> QED BY <1>1, <1>2, PTL DEF Spec

-----------------------------------------------------------------------------
(* Names.                                                                  *)

\* The compiler's depth of a name is the least depth at which it was seen; that
\* is what the comparison with it decides.
DepthIsLeast ==
    \A t \in Thread, n \in Name :
        /\ \A i \in Seen(t, n) : depth[t][n] <= type[i].depth
        /\ \/ Seen(t, n) = {} /\ depth[t][n] = Far /\ m[t][n] = 0
           \/ \E i \in Seen(t, n) : type[i].depth = depth[t][n]

NameInv == DepthIsLeast /\ NamesArePromoted /\ ListEndsWithMap

\* A step that visits no field leaves the layouts as they are.
LEMMA NoVisit ==
    ASSUME NameInv, UNCHANGED <<type, object>>
    PROVE  NameInv'
  BY DEF NameInv, DepthIsLeast, NamesArePromoted, ListEndsWithMap, Seen,
         Shallowest, Fields, object

\* Visiting field j, which is f and has name x, adds it to the fields seen under
\* x, and to no others.
LEMMA VisitSees ==
    ASSUME TypeOK, NEW t \in Thread, Visit(t),
           NEW j, j = k[t], NEW f, f = type[j], NEW x, x = f.name
    PROVE  /\ j \in Fields /\ f \in Field
           /\ Seen(t, x)' = Seen(t, x) \cup {j}
           /\ j \notin Seen(t, x)
           /\ \A n \in Name \ {x} : Seen(t, n)' = Seen(t, n)
           /\ \A u \in Thread \ {t}, n \in Name : Seen(u, n)' = Seen(u, n)
<1>1. type' = type /\ Fields' = Fields /\ j \in Fields /\ k' = [k EXCEPT ![t] = @ + 1]
  BY DEF Visit, Fields
<1>2. f \in Field /\ Len(type) \in Nat
  BY <1>1, TypeIsSeq DEF TypeOK
<1>3. k \in [Thread -> 1 .. Len(type) + 1]
  BY DEF TypeOK
<1>4. \A i \in Fields : i < j + 1 <=> i < j \/ i = j
  BY <1>1, <1>2, <1>3 DEF Fields
<1>5. k'[t] = j + 1 /\ \A u \in Thread \ {t} : k'[u] = k[u]
  BY <1>1, <1>3
<1>6. ~(j < j)
  BY <1>1, <1>2 DEF Fields
<1>7. \A u \in Thread, n \in Name :
          Seen(u, n)' = {i \in Fields : i < k'[u] /\ type[i].name = n}
  BY <1>1 DEF Seen
<1>8. Seen(t, x)' = Seen(t, x) \cup {j}
  <2>1. x \in Name
    BY <1>2 DEF Field
  <2>2. Seen(t, x)' = {i \in Fields : i < j + 1 /\ type[i].name = x}
    BY <1>5, <1>7, <2>1
  <2> QED BY <1>1, <1>4, <2>2 DEF Seen
<1>9. \A n \in Name \ {x} : Seen(t, n)' = Seen(t, n)
  BY <1>1, <1>4, <1>5, <1>7 DEF Seen
<1>10. \A u \in Thread \ {t}, n \in Name : Seen(u, n)' = Seen(u, n)
  BY <1>5, <1>7 DEF Seen
<1> QED BY <1>1, <1>2, <1>6, <1>8, <1>9, <1>10 DEF Seen

\* One field visited: what holds of the names goes on holding.
LEMMA VisitKeepsNames ==
    ASSUME TypeOK, NameInv, NEW t \in Thread, Visit(t),
           NEW j, j = k[t], NEW f, f = type[j], NEW x, x = f.name
    PROVE  NameInv'
<1>1. /\ type' = type /\ j \in Fields /\ f \in Field
      /\ Seen(t, x)' = Seen(t, x) \cup {j} /\ j \notin Seen(t, x)
      /\ \A n \in Name \ {x} : Seen(t, n)' = Seen(t, n)
      /\ \A u \in Thread \ {t}, n \in Name : Seen(u, n)' = Seen(u, n)
  <2>1. type' = type
    BY DEF Visit
  <2> QED BY <2>1, VisitSees
<1>2. x \in Name /\ f.depth \in Nat /\ f.depth < Far
  BY <1>1, FarIsNat DEF Field
<1>3. /\ depth \in [Thread -> [Name -> 0 .. Far]]
      /\ m \in [Thread -> [Name -> 0 .. Len(type)]]
      /\ l \in [Thread -> SUBSET Fields]
      /\ Len(type) \in Nat /\ \A i \in Fields : type[i] \in Field /\ type[i].depth \in Nat
  <2>1. Len(type) \in Nat /\ \A i \in Fields : type[i] \in Field
    BY TypeIsSeq DEF TypeOK
  <2>2. \A g \in Field : g.depth \in Nat
    BY FarIsNat DEF Field
  <2> QED BY <2>1, <2>2 DEF TypeOK
<1>4. j \in Nat \ {0} /\ \A i \in Seen(t, x) : i < j
  BY <1>1, <1>3 DEF Seen, Fields
<1>14. SameDepth(t, f) \/ Shallower(t, f) \/ Deeper(t, f)
  BY DEF Visit
\* The other goroutines and the other names are as before.
<1>5. ASSUME NEW u \in Thread, NEW n \in Name, u # t \/ n # x
      PROVE  /\ depth'[u][n] = depth[u][n]
             /\ m'[u][n] = m[u][n]
             /\ Seen(u, n)' = Seen(u, n)
             /\ {i \in l'[u] : type[i].name = n} = {i \in l[u] : type[i].name = n}
  <2>1. Seen(u, n)' = Seen(u, n)
    BY <1>1, <1>5
  <2>2. CASE SameDepth(t, f)
    BY <1>2, <1>3, <1>5, <2>1, <2>2 DEF SameDepth
  <2>3. CASE Shallower(t, f)
    BY <1>2, <1>3, <1>5, <2>1, <2>3 DEF Shallower
  <2>4. CASE Deeper(t, f)
    BY <2>1, <2>4 DEF Deeper
  <2> QED BY <1>14, <2>2, <2>3, <2>4
\* The name of the field visited.
<1> DEFINE Least(n) == {i \in Seen(t, n) : type[i].depth = depth[t][n]}
<1>6. Seen(t, x) \subseteq Fields /\ \A i \in Seen(t, x) : type[i].depth \in Nat
  BY <1>3 DEF Seen
<1>7. /\ \A i \in Seen(t, x) : depth[t][x] <= type[i].depth
      /\ \/ Seen(t, x) = {} /\ depth[t][x] = Far /\ m[t][x] = 0
         \/ \E i \in Seen(t, x) : type[i].depth = depth[t][x]
      /\ depth[t][x] \in Nat
  BY <1>2, <1>3, FarIsNat DEF NameInv, DepthIsLeast
<1>8. Shallowest(t, x) = Least(x)
  BY <1>6, <1>7 DEF Shallowest
<1>9. \/ m[t][x] # 0 /\ Shallowest(t, x) = {m[t][x]}
      \/ m[t][x] = 0 /\ \A i \in Shallowest(t, x) : Shallowest(t, x) # {i}
  BY <1>2 DEF NameInv, NamesArePromoted
<1>10. LET listed == {i \in l[t] : type[i].name = x}
       IN  /\ m[t][x] # 0 => m[t][x] \in listed
           /\ \A i \in listed : m[t][x] # 0 /\ i <= m[t][x]
  BY <1>2 DEF NameInv, ListEndsWithMap
<1> DEFINE DepthOf(u, n) ==
               /\ \A i \in Seen(u, n) : depth[u][n] <= type[i].depth
               /\ \/ Seen(u, n) = {} /\ depth[u][n] = Far /\ m[u][n] = 0
                  \/ \E i \in Seen(u, n) : type[i].depth = depth[u][n]
           Promoted(u, n) ==
               \/ m[u][n] # 0 /\ Shallowest(u, n) = {m[u][n]}
               \/ m[u][n] = 0 /\ \A i \in Shallowest(u, n) : Shallowest(u, n) # {i}
           Ends(u, n) ==
               LET listed == {i \in l[u] : type[i].name = n}
               IN  /\ m[u][n] # 0 => m[u][n] \in listed
                   /\ \A i \in listed : m[u][n] # 0 /\ i <= m[u][n]
<1>11. DepthOf(t, x)' /\ Promoted(t, x)' /\ Ends(t, x)'
  <2>1. CASE SameDepth(t, f)
    <3>1. f.depth = depth[t][x] /\ depth' = depth /\ m'[t][x] = 0
          /\ l'[t] = {i \in l[t] : type[i].name # x}
      BY <1>2, <1>3, <2>1 DEF SameDepth
    <3>2. PICK i \in Seen(t, x) : type[i].depth = depth[t][x]
      BY <1>2, <1>7, <3>1
    <3>3. DepthOf(t, x)'
      BY <1>1, <1>7, <3>1, <3>2
    <3>4. Shallowest(t, x)' = Least(x) \cup {j}
      BY <1>1, <1>2, <1>6, <1>7, <3>1 DEF Shallowest
    <3>5. i \in Least(x) /\ i # j
      BY <1>1, <3>2
    <3> QED BY <1>1, <3>1, <3>3, <3>4, <3>5
  <2>2. CASE Shallower(t, f)
    <3>1. f.depth < depth[t][x] /\ depth'[t][x] = f.depth /\ m'[t][x] = j
          /\ l'[t] = l[t] \cup {j}
      BY <1>2, <1>3, <2>2 DEF Shallower
    <3>2. DepthOf(t, x)'
      BY <1>1, <1>2, <1>6, <1>7, <3>1
    <3>3. Shallowest(t, x)' = {j}
      BY <1>1, <1>2, <1>6, <1>7, <3>1 DEF Shallowest
    <3>4. \A i \in l[t] : type[i].name = x => i <= j
      <4> SUFFICES ASSUME NEW i \in l[t], type[i].name = x PROVE i <= j
        OBVIOUS
      <4>1. m[t][x] # 0 /\ i <= m[t][x]
        BY <1>10
      <4>2. m[t][x] \in Seen(t, x)
        BY <1>9, <4>1 DEF Shallowest
      <4>3. i \in Nat /\ m[t][x] \in Nat /\ m[t][x] < j
        BY <1>2, <1>3, <1>4, <4>2 DEF Fields
      <4> QED BY <1>4, <4>1, <4>3
    <3>5. Ends(t, x)'
      BY <1>1, <1>4, <3>1, <3>4 DEF Fields
    <3> QED BY <1>4, <3>1, <3>2, <3>3, <3>5
  <2>3. CASE Deeper(t, f)
    <3>1. f.depth > depth[t][x] /\ depth' = depth /\ m' = m /\ l' = l
      BY <2>3 DEF Deeper
    <3>2. \E i \in Seen(t, x) : type[i].depth = depth[t][x]
      BY <1>2, <1>7, <3>1, FarIsNat
    <3>3. DepthOf(t, x)'
      BY <1>1, <1>2, <1>7, <3>1, <3>2
    <3>4. Shallowest(t, x)' = Shallowest(t, x)
      BY <1>1, <1>2, <1>6, <1>7, <1>8, <3>1, <3>2 DEF Shallowest
    <3> QED BY <1>1, <1>9, <1>10, <3>1, <3>3, <3>4
  <2> QED BY <1>14, <2>1, <2>2, <2>3
<1>12. ASSUME NEW u \in Thread, NEW n \in Name, u # t \/ n # x
       PROVE  DepthOf(u, n)' /\ Promoted(u, n)' /\ Ends(u, n)'
  <2>1. DepthOf(u, n) /\ Promoted(u, n) /\ Ends(u, n)
    BY DEF NameInv, DepthIsLeast, NamesArePromoted, ListEndsWithMap
  <2>2. Shallowest(u, n)' = Shallowest(u, n)
    BY <1>1, <1>5, <1>12 DEF Shallowest
  <2>3. DepthOf(u, n)' /\ Promoted(u, n)'
    BY <1>1, <1>5, <1>12, <2>1, <2>2
  <2>4. Ends(u, n)'
    BY <1>1, <1>5, <1>12, <2>1
  <2> QED BY <2>3, <2>4
<1>13. \A u \in Thread, n \in Name : DepthOf(u, n)' /\ Promoted(u, n)' /\ Ends(u, n)'
  BY <1>11, <1>12
<1> QED BY <1>13 DEF NameInv, DepthIsLeast, NamesArePromoted, ListEndsWithMap

\* What holds of the names holds always.
LEMMA NamesHold == Spec => []NameInv
<1>1. Init => NameInv
  <2> SUFFICES ASSUME Init PROVE NameInv
    OBVIOUS
  <2>1. Len(type) \in Nat
    BY TypesAssumption DEF Init
  <2>2. \A t \in Thread, n \in Name : Seen(t, n) = {}
    BY <2>1 DEF Init, Seen, Fields
  <2> QED BY <2>2 DEF Init, NameInv, DepthIsLeast, NamesArePromoted,
                      ListEndsWithMap, Shallowest
<1>2. TypeOK /\ NameInv /\ [Next]_vars => NameInv'
  <2> SUFFICES ASSUME TypeOK, NameInv, [Next]_vars PROVE NameInv'
    OBVIOUS
  <2>1. ASSUME NEW t \in Thread, Visit(t) PROVE NameInv'
    <3>1. PICK j, f, x : j = k[t] /\ f = type[j] /\ x = f.name
      OBVIOUS
    <3> QED BY <2>1, <3>1, VisitKeepsNames
  <2>2. ASSUME NEW t \in Thread, LookShared(t) \/ Lock(t) \/ Panic(t) \/ Store(t)
        PROVE  NameInv'
    BY <2>2, NoVisit DEF LookShared, Lock, Panic, Store
  <2>3. CASE UNCHANGED vars
    BY <2>3, NoVisit DEF vars
  <2> QED BY <2>1, <2>2, <2>3 DEF Next, Step
<1> QED BY <1>1, <1>2, TypeCorrect, PTL DEF Spec

\* At any moment of the walk, of any type and in any goroutine, a name belongs to
\* the only shallowest field that has it among the fields visited, if there is
\* only one.
THEOREM NamesAreResolved == Spec => []NamesArePromoted
<1>1. NameInv => NamesArePromoted
  BY DEF NameInv
<1> QED BY <1>1, NamesHold, PTL

-----------------------------------------------------------------------------
(* Sharing.                                                                *)

\* A goroutine compiles exactly while it holds the lock, and only while nothing
\* is stored; what is stored is complete and nobody works on it; and a call that
\* has returned has returned it.
SharedInv ==
    /\ \A t \in Thread : pc[t] = "compile" <=> writer = t
    /\ writer # None => cache = None
    /\ cache # None => pc[cache] = "returned" /\ k[cache] = Len(type) + 1
    /\ \A t \in Thread : got[t] # None => got[t] = cache

\* From the first call on, one layout is shared.
THEOREM OneLayoutIsShared == Spec => []CallersShareOne
<1>1. Init => SharedInv
  BY NoneAssumption DEF Init, SharedInv
<1>2. TypeOK /\ SharedInv /\ [Next]_vars => SharedInv'
  <2> SUFFICES ASSUME TypeOK, SharedInv, [Next]_vars PROVE SharedInv'
    OBVIOUS
  <2> USE NoneAssumption DEF SharedInv
  <2>0. /\ pc \in [Thread -> {"start", "miss", "compile", "returned", "panicked"}]
        /\ got \in [Thread -> Thread \cup {None}]
        /\ k \in [Thread -> 1 .. Len(type) + 1]
        /\ cache \in Thread \cup {None} /\ writer \in Thread \cup {None}
        /\ Len(type) \in Nat
    BY TypeIsSeq DEF TypeOK
  <2>1. ASSUME NEW t \in Thread, LookShared(t) PROVE SharedInv'
    BY <2>0, <2>1 DEF LookShared, Return, object
  <2>2. ASSUME NEW t \in Thread, Lock(t) PROVE SharedInv'
    BY <2>0, <2>2 DEF Lock, Return, object
  <2>3. ASSUME NEW t \in Thread, Visit(t) PROVE SharedInv'
    <3>1. /\ pc[t] = "compile" /\ k' = [k EXCEPT ![t] = @ + 1]
          /\ UNCHANGED <<type, pc, writer, cache, got>>
      BY <2>3 DEF Visit
    <3> QED BY <2>0, <3>1
  <2>4. ASSUME NEW t \in Thread, Panic(t) PROVE SharedInv'
    BY <2>0, <2>4 DEF Panic, object
  <2>5. ASSUME NEW t \in Thread, Store(t) PROVE SharedInv'
    <3>1. /\ pc[t] = "compile" /\ pc' = [pc EXCEPT ![t] = "returned"]
          /\ k[t] \notin Fields /\ got' = [got EXCEPT ![t] = t]
          /\ cache' = t /\ writer' = None /\ UNCHANGED <<type, k>>
      BY <2>5 DEF Store, Return, object
    <3>2. writer = t /\ cache = None /\ \A u \in Thread : got[u] = None
      BY <2>0, <3>1
    <3>3. k[t] = Len(type) + 1
      BY <2>0, <3>1 DEF Fields
    <3> QED BY <2>0, <3>1, <3>2, <3>3
  <2>6. CASE UNCHANGED vars
    BY <2>6 DEF vars, object
  <2> QED BY <2>1, <2>2, <2>3, <2>4, <2>5, <2>6 DEF Next, Step
<1>3. TypeOK /\ SharedInv => CallersShareOne
  BY DEF TypeOK, SharedInv, CallersShareOne
<1> QED BY <1>1, <1>2, <1>3, TypeCorrect, PTL DEF Spec

-----------------------------------------------------------------------------
(* Flattening and scanning.                                                *)

\* The greatest element of a set that has one.
LEMMA MaxIs ==
    ASSUME NEW S \in SUBSET Nat, NEW i \in S, \A j \in S : j <= i
    PROVE  Max(S) = i
<1>1. \E x \in S : \A y \in S : x >= y
  OBVIOUS
<1>2. Max(S) \in S /\ \A y \in S : Max(S) >= y
  BY <1>1 DEF Max
<1>3. \A x, y \in Nat : x <= y /\ x >= y => x = y
  OBVIOUS
<1>4. Max(S) \in Nat /\ i \in Nat /\ Max(S) <= i /\ Max(S) >= i
  BY <1>2
<1> QED BY <1>3, <1>4

\* Whatever the value, a field that a name resolves to is read back from the
\* pairs that AddFlat writes: it is the last one listed under its name, so its
\* pair is the last one, and only when the pair is left out can the one of a
\* shadowed field take its place.
THEOREM FlattenedComesBack == Spec => []FlattenedIsReadBack
<1>1. TypeOK /\ NameInv => FlattenedIsReadBack
  <2> SUFFICES ASSUME TypeOK, NameInv,
                      NEW t \in Thread, got[t] # None,
                      NEW n \in Name, m[got[t]][n] # 0,
                      NEW v \in [Fields -> 0 .. 1]
               PROVE  LET o == got[t]
                          i == m[o][n]
                          shadowed == {j \in l[o] : type[j].name = n /\ j # i}
                      IN  \/ ScanStruct(o, v, flattenStruct(o, v))[i] = v[i]
                          \/ type[i].tag = "omitempty" /\ v[i] = 0 /\ shadowed # {}
    BY DEF FlattenedIsReadBack
  <2> DEFINE o == got[t]
             i == m[o][n]
             pairs == flattenStruct(o, v)
             mine == {j \in pairs : m[o][type[j].name] = i}
  <2>1. /\ o \in Thread /\ l[o] \subseteq Fields /\ Fields \subseteq Nat
        /\ \A j \in Fields : type[j].name \in Name
    <3>1. o \in Thread /\ l[o] \subseteq Fields
      BY DEF TypeOK
    <3>2. Fields \subseteq Nat /\ \A j \in Fields : type[j] \in Field
      BY TypeIsSeq DEF TypeOK, Fields
    <3> QED BY <3>1, <3>2 DEF Field
  <2>2. /\ \A x \in Name : m[o][x] # 0 => m[o][x] \in l[o] /\ type[m[o][x]].name = x
        /\ \A j \in l[o] : j <= m[o][type[j].name]
    BY <2>1 DEF NameInv, ListEndsWithMap
  <2>3. i \in Fields /\ type[i].name = n /\ i \in l[o]
    BY <2>1, <2>2
  <2>4. pairs \subseteq l[o]
    BY DEF flattenStruct
  <2>5. mine = {j \in pairs : type[j].name = n}
    BY <2>1, <2>2, <2>3, <2>4
  <2>6. mine \subseteq Nat /\ \A j \in mine : j <= i
    BY <2>1, <2>2, <2>4
  <2>7. ScanStruct(o, v, pairs)[i] = IF mine = {} THEN 0 ELSE v[Max(mine)]
    BY <2>3 DEF ScanStruct
  <2>8. CASE i \in pairs
    <3>1. i \in mine
      BY <2>3, <2>5, <2>8
    <3>2. Max(mine) = i
      BY <2>6, <3>1, MaxIs
    <3> QED BY <2>7, <3>1, <3>2
  <2>9. CASE i \notin pairs
    <3>1. type[i].tag = "omitempty" /\ v[i] = 0
      BY <2>3, <2>9 DEF flattenStruct
    <3>2. CASE mine = {}
      BY <2>7, <3>1, <3>2
    <3>3. CASE mine # {}
      BY <2>4, <2>5, <2>9, <3>1, <3>3
    <3> QED BY <3>2, <3>3
  <2> QED BY <2>8, <2>9
<1> QED BY <1>1, TypeCorrect, NamesHold, PTL
=============================================================================
