------------------------------ MODULE StructSpec ------------------------------
(***************************************************************************)
(* The cache of struct layouts behind ScanStruct, ScanSlice and AddFlat    *)
(* (redisapi/scan.go, redisapi/args.go).  structSpecForType looks a type   *)
(* up under the read lock, looks again under the write lock, compiles the  *)
(* layout field by field while holding the lock, and stores it.  Several   *)
(* goroutines ask for the layout of one type at the same time; a field tag *)
(* nobody knows makes the compiler panic, and the deferred Unlock releases *)
(* the lock.                                                               *)
(*                                                                         *)
(* A struct type is the sequence of its exported fields in the order of    *)
(* compileStructSpec's walk, embedded structs opened in place: a field has *)
(* its name after the tag, the depth it is embedded at (len(index)) and    *)
(* what the tag asks for.  Fields the walk skips (unexported, "-",         *)
(* embedded pointers) do not occur.  Every sequence of depths is one of a  *)
(* real type: a struct may be embedded at any point, as deep as wanted.    *)
(***************************************************************************)
EXTENDS Naturals, Sequences, FiniteSetsExt

CONSTANTS Thread,      \* the goroutines that ask for the layout
          None,        \* no goroutine
          Name,        \* the names of fields
          Types        \* the struct types considered

Far == 1073741824      \* 1 << 30, the depth of a name not seen yet

Field == [name: Name, depth: 0 .. Far - 1,
          tag: {"plain", "omitempty", "unknown"}]

ASSUME TypesAssumption == Types \subseteq Seq(Field)
ASSUME NoneAssumption == None \notin Thread

VARIABLES type,        \* the struct type asked for
          pc,          \* [Thread -> where the goroutine is]
          writer,      \* the holder of structSpecMutex's write lock, or None
          cache,       \* whose structSpec is in structSpecCache, or None
          got,         \* [Thread -> whose structSpec the call returned, or None]
          k,           \* [Thread -> the next field to visit]
          depth,       \* [Thread -> the compiler's depth map]
          m,           \* [Thread -> ss.m: the field of each name, 0 for none]
          l            \* [Thread -> ss.l: the fields listed.  Fields are only
                       \*  appended in the order of the walk and removed, so
                       \*  the list is the set in ascending order]

object == <<k, depth, m, l>>
vars == <<type, pc, writer, cache, got, object>>

Fields == 1 .. Len(type)

TypeOK ==
    /\ type \in Types
    /\ pc \in [Thread -> {"start", "miss", "compile", "returned", "panicked"}]
    /\ writer \in Thread \cup {None}
    /\ cache \in Thread \cup {None}
    /\ got \in [Thread -> Thread \cup {None}]
    /\ k \in [Thread -> 1 .. Len(type) + 1]
    /\ depth \in [Thread -> [Name -> 0 .. Far]]
    /\ m \in [Thread -> [Name -> 0 .. Len(type)]]
    /\ l \in [Thread -> SUBSET Fields]

Init ==
    /\ type \in Types
    /\ pc = [t \in Thread |-> "start"]
    /\ writer = None
    /\ cache = None
    /\ got = [t \in Thread |-> None]
    /\ k = [t \in Thread |-> 1]
    /\ depth = [t \in Thread |-> [n \in Name |-> Far]]
    /\ m = [t \in Thread |-> [n \in Name |-> 0]]
    /\ l = [t \in Thread |-> {}]

-----------------------------------------------------------------------------
(* structSpecForType.                                                      *)

Return(t, owner) ==
    /\ pc' = [pc EXCEPT ![t] = "returned"]
    /\ got' = [got EXCEPT ![t] = owner]

\* The first look, under the read lock: no writer holds the lock.
LookShared(t) ==
    /\ pc[t] = "start"
    /\ writer = None
    /\ \/ /\ cache # None
          /\ Return(t, cache)
       \/ /\ cache = None
          /\ pc' = [pc EXCEPT ![t] = "miss"]
          /\ UNCHANGED got
    /\ UNCHANGED <<type, writer, cache, object>>

\* Mutated: the second look is forgotten.
LockAnyway(t) ==
    /\ pc[t] = "miss"
    /\ writer = None
    /\ writer' = t
    /\ pc' = [pc EXCEPT ![t] = "compile"]
    /\ UNCHANGED <<type, cache, got, object>>

\* The second look, under the write lock: another goroutine may have stored
\* the layout since the first one.
Lock(t) ==
    /\ pc[t] = "miss"
    /\ writer = None
    /\ \/ /\ cache # None
          /\ Return(t, cache)
          /\ UNCHANGED writer
       \/ /\ cache = None
          /\ writer' = t
          /\ pc' = [pc EXCEPT ![t] = "compile"]
          /\ UNCHANGED got
    /\ UNCHANGED <<type, cache, object>>

-----------------------------------------------------------------------------
(* compileStructSpec, one field at a time.                                 *)

\* A field as deep as the one known: the name is ambiguous, nothing has it.
SameDepth(t, f) ==
    /\ f.depth = depth[t][f.name]
    /\ m' = [m EXCEPT ![t][f.name] = 0]
    /\ l' = [l EXCEPT ![t] = {i \in @ : type[i].name # f.name}]
    /\ UNCHANGED depth

\* Mutated: a shallower field does not lower the depth known.
ShallowerKeepsDepth(t, f) ==
    /\ f.depth < depth[t][f.name]
    /\ depth' = [depth EXCEPT ![t][f.name] = IF @ = Far THEN f.depth ELSE @]
    /\ m' = [m EXCEPT ![t][f.name] = k[t]]
    /\ l' = [l EXCEPT ![t] = @ \cup {k[t]}]

\* A shallower field takes the name.  What was listed under it stays listed.
Shallower(t, f) ==
    /\ f.depth < depth[t][f.name]
    /\ depth' = [depth EXCEPT ![t][f.name] = f.depth]
    /\ m' = [m EXCEPT ![t][f.name] = k[t]]
    /\ l' = [l EXCEPT ![t] = @ \cup {k[t]}]

Deeper(t, f) ==
    /\ f.depth > depth[t][f.name]
    /\ UNCHANGED <<depth, m, l>>

Visit(t) ==
    /\ pc[t] = "compile"
    /\ k[t] \in Fields
    /\ type[k[t]].tag # "unknown"
    /\ \/ SameDepth(t, type[k[t]])
       \/ Shallower(t, type[k[t]])
       \/ Deeper(t, type[k[t]])
    /\ k' = [k EXCEPT ![t] = @ + 1]
    /\ UNCHANGED <<type, pc, writer, cache, got>>

\* Mutated: the lock is not released by a deferred call.
PanicKeepsLock(t) ==
    /\ pc[t] = "compile"
    /\ k[t] \in Fields
    /\ type[k[t]].tag = "unknown"
    /\ pc' = [pc EXCEPT ![t] = "panicked"]
    /\ UNCHANGED <<type, writer, cache, got, object>>

\* An unknown tag: the panic runs the deferred Unlock, nothing is stored.
Panic(t) ==
    /\ pc[t] = "compile"
    /\ k[t] \in Fields
    /\ type[k[t]].tag = "unknown"
    /\ pc' = [pc EXCEPT ![t] = "panicked"]
    /\ writer' = None
    /\ UNCHANGED <<type, cache, got, object>>

\* The walk is over: the layout is stored and the lock released.
Store(t) ==
    /\ pc[t] = "compile"
    /\ k[t] \notin Fields
    /\ cache' = t
    /\ writer' = None
    /\ Return(t, t)
    /\ UNCHANGED <<type, object>>

Step(t) == LookShared(t) \/ Lock(t) \/ Visit(t) \/ Panic(t) \/ Store(t)

Next == \E t \in Thread : Step(t)

Spec == Init /\ [][Next]_vars

\* Nothing in a call waits but for the lock, and its holder never waits.
FairSpec == Spec /\ \A t \in Thread : WF_vars(Step(t))

-----------------------------------------------------------------------------
(* What the callers do with the layout of goroutine o.  A value of the type *)
(* is a function v on its fields; 0 is the empty value of a field.          *)

\* Mutated: every empty field is left out, whatever its tag.
flattenStructNonEmpty(o, v) == {i \in l[o] : v[i] # 0}

\* The name/value pairs flattenStruct appends, as the set of the fields they
\* are of: they are appended in ascending order.
flattenStruct(o, v) ==
    {i \in l[o] : type[i].tag = "omitempty" => v[i] # 0}

\* ScanStruct of these pairs into an empty struct: each pair goes to the field
\* that ss.m has for its name, and a later pair overwrites an earlier one.
ScanStruct(o, v, pairs) ==
    [i \in Fields |->
        LET mine == {j \in pairs : m[o][type[j].name] = i}
        IN  IF mine = {} THEN 0 ELSE v[Max(mine)]]

-----------------------------------------------------------------------------
(* Properties.                                                             *)

\* The fields visited so far that have name n, and the shallowest of them.
Seen(t, n) == {i \in Fields : i < k[t] /\ type[i].name = n}
Shallowest(t, n) ==
    {i \in Seen(t, n) : \A j \in Seen(t, n) : type[i].depth <= type[j].depth}

\* The walk resolves names as Go does for embedded structs: at any moment a name
\* belongs to the only shallowest field that has it among the fields visited,
\* and to none when two fields are equally shallow (scan.go:341-360).
NamesArePromoted ==
    \A t \in Thread, n \in Name :
        \/ m[t][n] # 0 /\ Shallowest(t, n) = {m[t][n]}
        \/ m[t][n] = 0 /\ \A i \in Shallowest(t, n) : Shallowest(t, n) # {i}

\* A layout's list and map agree: the last field listed under a name is the one
\* the map has, and a name the map has not is not listed (scan.go:344-359).
ListEndsWithMap ==
    \A t \in Thread, n \in Name :
        LET listed == {i \in l[t] : type[i].name = n}
        IN  /\ m[t][n] # 0 => m[t][n] \in listed
            /\ \A i \in listed : m[t][n] # 0 /\ i <= m[t][n]

\* Only a layout whose walk is over is in the cache, and every call that
\* returns returns that one: no goroutine sees half a layout, also after a
\* panic (scan.go:379-389).
CallersShareOne ==
    \A t \in Thread :
        got[t] # None => got[t] = cache /\ k[cache] = Len(type) + 1

\* What AddFlat writes ScanStruct reads back: each field a name resolves to has
\* its value again.  The one exception is a field shadowing a listed one of the
\* same name and left out because it is empty: it reads the shadowed value.
FlattenedIsReadBack ==
    \A t \in Thread : got[t] # None =>
        LET o == got[t] IN
        \A n \in {x \in Name : m[o][x] # 0}, v \in [Fields -> 0 .. 1] :
            LET i == m[o][n]
                shadowed == {j \in l[o] : type[j].name = n /\ j # i}
            IN  \/ ScanStruct(o, v, flattenStruct(o, v))[i] = v[i]
                \/ type[i].tag = "omitempty" /\ v[i] = 0 /\ shadowed # {}

\* Every call ends, with the layout or with the panic: a panic leaves no lock
\* behind for the calls that wait (scan.go:379-380).
CallsEnd == \A t \in Thread : <>(pc[t] \in {"returned", "panicked"})

-----------------------------------------------------------------------------
(* What a reader would expect and the code does not do: TLC finds it        *)
(* violated.                                                                *)

\* A name is listed once.  But a field of an embedded struct that comes first
\* stays listed after an outer field took its name, so that ScanSlice expects
\* two values for the name and AddFlat writes it twice (scan.go:353-359).
ListedOnce ==
    \A t \in Thread : got[t] # None =>
        \A i, j \in l[got[t]] : type[i].name = type[j].name => i = j
=============================================================================
