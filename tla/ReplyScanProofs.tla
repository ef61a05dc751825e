--------------------------- MODULE ReplyScanProofs --------------------------
(***************************************************************************)
(* Proofs about Replies and ReplyScan, for integers of any widths, any     *)
(* replies however deep, and any number of answers.                        *)
(***************************************************************************)
EXTENDS ReplyScan, SequenceTheorems, FiniteSetTheorems, WellFoundedInduction, TLAPS

-----------------------------------------------------------------------------
(* Numbers.                                                                *)

LEMMA MinIsLeast ==
  ASSUME NEW S, S \subseteq Nat, S # {}
  PROVE  Min(S) \in S /\ \A y \in S : Min(S) <= y
<1>1. PICK x \in S : \A y \in S : ~ (<<y, x>> \in OpToRel(<, Nat))
  BY WFMin, NatLessThanWellFounded
<1>2. ASSUME NEW y \in S PROVE x <= y
  <2>1. x \in Nat /\ y \in Nat
    OBVIOUS
  <2>2. y < x => <<y, x>> \in OpToRel(<, Nat)
    BY <2>1 DEF OpToRel
  <2>3. ~ (y < x)
    BY <1>1, <2>2, Zenon
  <2> QED
    BY <2>1, <2>3
<1>3. x \in S /\ \A y \in S : x =< y
  BY <1>2
<1> QED
  BY <1>3, Zenon DEF Min

LEMMA MaxIsGreatest ==
  ASSUME NEW n \in Nat, NEW S, S \subseteq 0..n, S # {}
  PROVE  Max(S) \in S /\ \A y \in S : y <= Max(S)
<1> DEFINE T == {n - x : x \in S}
<1>1. T \subseteq Nat /\ T # {}
  <2>1. \A x \in S : n - x \in Nat
    OBVIOUS
  <2> QED
    BY <2>1
<1>2. PICK z \in T : \A y \in T : z <= y
  BY <1>1, MinIsLeast
<1>3. PICK x \in S : z = n - x
  BY <1>2
<1>4. \A y \in S : x >= y
  BY <1>2, <1>3
<1> QED
  BY <1>3, <1>4 DEF Max

\* An integer goes through a kind unchanged exactly when the kind can hold it.
LEMMA SetIntFits ==
  ASSUME NEW k \in IntKinds, NEW n \in Int
  PROVE  /\ SetInt(k, n) = n <=> n \in SMin(k) .. SMax(k)
         /\ SetUint(k, n) = n <=> n \in 0 .. UMax(k)
<1>1. Half[k] \in Nat \ {0}
  BY HalfAssumption
<1> DEFINE h == Half[k]
<1>2. (((n + h) % (2 * h)) - h = n) <=> n \in (-h) .. (h - 1)
  BY <1>1
<1>3. (n % (2 * h) = n) <=> n \in 0 .. (2 * h - 1)
  BY <1>1
<1> QED
  BY <1>2, <1>3 DEF SetInt, SetUint, SMin, SMax, UMax

-----------------------------------------------------------------------------
(* One value.                                                              *)

Errors == {"none", "syntax", "range", "convert", "panic"}
Value == Int \cup BOOLEAN \cup Text

\* What a conversion of r promises: a value of some type, and without an error
\* exactly if r has a meaning, which it then is.
Means(c, k, r) == /\ c.v \in Value /\ c.err \in Errors
                  /\ c.err = "none" <=> Meaning(k, r) # {}
                  /\ c.err = "none" => c.v \in Meaning(k, r)

\* What r can stand for in an integer kind.
LEMMA IntMeaning ==
  ASSUME NEW k \in IntKinds, NEW r
  PROVE  Meaning(k, r) = {n \in Holds(k) : \/ r = IntReply(n)
                                           \/ IsText(r) /\ r.text = Dec(n)}
<1>1. k \notin {"bool", "float", "string", "bytes"}
  BY HalfAssumption
<1> QED
  BY <1>1 DEF Meaning

LEMMA HoldsType ==
  ASSUME NEW k \in IntKinds
  PROVE  /\ Holds(k) \subseteq Int
         /\ k \in Signed => Holds(k) = SMin(k) .. SMax(k)
         /\ k \notin Signed => Holds(k) = 0 .. UMax(k)
         /\ Half[k] \in Nat \ {0} /\ SMin(k) \in Int /\ SMax(k) \in Int
         /\ UMax(k) \in Nat
<1>1. Half[k] \in Nat \ {0}
  BY HalfAssumption
<1>2. SMin(k) \in Int /\ SMax(k) \in Int /\ UMax(k) \in Nat
  BY <1>1 DEF SMin, SMax, UMax
<1> QED
  BY <1>1, <1>2 DEF Holds

LEMMA ParseIntMeans ==
  ASSUME NEW k \in IntKinds, NEW x \in Text
  PROVE  LET c == ParseInt(x, k) IN
         /\ c.v \in Int /\ c.err \in Errors
         /\ c.err = "none" <=> \E n \in SMin(k) .. SMax(k) : x = Dec(n)
         /\ c.err = "none" => x = Dec(c.v) /\ c.v \in SMin(k) .. SMax(k)
<1>1. SMin(k) \in Int /\ SMax(k) \in Int /\ x.n \in Int
  BY HoldsType DEF Text, Frac, Word, Empty
<1>2. \A n : x = Dec(n) <=> x.form = "dec" /\ x.n = n
  BY DEF Text, Dec, Frac, Word, Empty
<1>3. CASE x.form # "dec"
  BY <1>1, <1>2, <1>3 DEF ParseInt, Fail, Ok, Errors
<1>4. CASE x.form = "dec" /\ x.n < SMin(k)
  BY <1>1, <1>2, <1>4 DEF ParseInt, Fail, Ok, Errors
<1>5. CASE x.form = "dec" /\ ~(x.n < SMin(k)) /\ x.n > SMax(k)
  BY <1>1, <1>2, <1>5 DEF ParseInt, Fail, Ok, Errors
<1>6. CASE x.form = "dec" /\ ~(x.n < SMin(k)) /\ ~(x.n > SMax(k))
  <2>1. ParseInt(x, k) = Ok(x.n)
    BY <1>6 DEF ParseInt
  <2> QED
    BY <1>1, <1>2, <1>6, <2>1 DEF Ok, Errors
<1> QED
  BY <1>3, <1>4, <1>5, <1>6

LEMMA ParseUintMeans ==
  ASSUME NEW k \in IntKinds, NEW x \in Text
  PROVE  LET c == ParseUint(x, k) IN
         /\ c.v \in Int /\ c.err \in Errors
         /\ c.err = "none" <=> \E n \in 0 .. UMax(k) : x = Dec(n)
         /\ c.err = "none" => x = Dec(c.v) /\ c.v \in 0 .. UMax(k)
<1>1. UMax(k) \in Nat /\ x.n \in Int
  BY HoldsType DEF Text, Frac, Word, Empty
<1>2. \A n : x = Dec(n) <=> x.form = "dec" /\ x.n = n
  BY DEF Text, Dec, Frac, Word, Empty
<1>3. CASE x.form # "dec" \/ x.n < 0
  BY <1>1, <1>2, <1>3 DEF ParseUint, Fail, Ok, Errors
<1>4. CASE x.form = "dec" /\ ~(x.n < 0) /\ x.n > UMax(k)
  BY <1>1, <1>2, <1>4 DEF ParseUint, Fail, Ok, Errors
<1>5. CASE x.form = "dec" /\ ~(x.n < 0) /\ ~(x.n > UMax(k))
  <2>1. ParseUint(x, k) = Ok(x.n)
    BY <1>5 DEF ParseUint
  <2> QED
    BY <1>1, <1>2, <1>5, <2>1 DEF Ok, Errors
<1> QED
  BY <1>3, <1>4, <1>5

\* A text, whichever of the two Go types it has, is taken for what it says.
LEMMA TextMeans ==
  ASSUME NEW k, NEW old \in Value, NEW x \in Text,
         NEW r, r \in {Bulk(x), Simple(x)}
  PROVE  Means(convertAssignText(k, old, x), k, r)
<1>1. /\ IsText(r) /\ r.text = x /\ r.go # "int64"
      /\ \A n : r # IntReply(n)
  BY DEF IsText, Bulk, Simple, IntReply
<1>2. Signed \subseteq IntKinds /\ IntKinds \cap {"bool", "float", "string", "bytes"} = {}
  BY HalfAssumption
<1>3. CASE k \in Signed
  <2>1. convertAssignText(k, old, x) = ParseInt(x, k)
    BY <1>2, <1>3 DEF convertAssignText
  <2>2. Meaning(k, r) = {n \in SMin(k) .. SMax(k) : x = Dec(n)}
    BY <1>1, <1>2, <1>3, IntMeaning, HoldsType
  <2> QED
    BY <1>2, <1>3, <2>1, <2>2, ParseIntMeans DEF Means, Errors, Value
<1>4. CASE k \in IntKinds \ Signed
  <2>1. convertAssignText(k, old, x) = ParseUint(x, k)
    BY <1>2, <1>4 DEF convertAssignText
  <2>2. Meaning(k, r) = {n \in 0 .. UMax(k) : x = Dec(n)}
    BY <1>1, <1>4, IntMeaning, HoldsType
  <2> QED
    BY <1>4, <2>1, <2>2, ParseUintMeans DEF Means, Errors, Value
<1>5. CASE k = "float"
  <2>1. convertAssignText(k, old, x) = ParseFloat(x) /\ k \notin IntKinds
    BY <1>2, <1>5 DEF convertAssignText
  <2>2. Meaning(k, r) = {x} \ {Word, Empty}
    BY <1>1, <2>1, <1>5 DEF Meaning
  <2>3. x \in {Word, Empty} => x.form \notin {"dec", "frac"}
    BY DEF Word, Empty
  <2>4. x \notin {Word, Empty} => x.form \in {"dec", "frac"}
    BY DEF Text, Frac, Word, Empty
  <2>5. Dec(0) \in Text
    BY DEF Dec, Text
  <2> QED
    BY <2>1, <2>2, <2>3, <2>4, <2>5 DEF Means, Errors, Value, ParseFloat, Ok, Fail
<1>6. CASE k = "bool"
  <2>1. convertAssignText(k, old, x) = ParseBool(x) /\ k \notin IntKinds
    BY <1>2, <1>6 DEF convertAssignText
  <2>2. Meaning(k, r) = {b \in BOOLEAN : x = Dec(IF b THEN 1 ELSE 0)}
    BY <1>1, <2>1, <1>6 DEF Meaning
  <2>3. Dec(0) # Dec(1)
    BY DEF Dec
  <2>4. CASE x \in {Dec(0), Dec(1)}
    <3>1. ParseBool(x) = Ok(x = Dec(1))
      BY <2>4 DEF ParseBool
    <3>2. (x = Dec(1)) \in Meaning(k, r)
      BY <2>2, <2>3, <2>4
    <3> QED
      BY <2>1, <3>1, <3>2 DEF Means, Errors, Value, Ok
  <2>5. CASE x \notin {Dec(0), Dec(1)}
    <3>1. ParseBool(x) = Fail(FALSE, "syntax")
      BY <2>5 DEF ParseBool
    <3>2. Meaning(k, r) = {}
      BY <2>2, <2>5
    <3> QED
      BY <2>1, <3>1, <3>2 DEF Means, Errors, Value, Fail
  <2> QED
    BY <2>4, <2>5
<1>7. CASE k \in {"string", "bytes"}
  <2>1. convertAssignText(k, old, x) = Ok(x) /\ k \notin IntKinds
    BY <1>2, <1>7 DEF convertAssignText
  <2>2. Meaning(k, r) = {x}
    BY <1>1, <2>1, <1>7 DEF Meaning
  <2> QED
    BY <2>1, <2>2 DEF Means, Errors, Value, Ok
<1>8. CASE k \notin IntKinds \cup {"float", "bool", "string", "bytes"}
  <2>1. convertAssignText(k, old, x) = Fail(old, "convert")
    BY <1>2, <1>8 DEF convertAssignText
  <2>2. Meaning(k, r) = {}
    BY <1>1, <1>8 DEF Meaning
  <2> QED
    BY <2>1, <2>2 DEF Means, Errors, Fail
<1> QED
  BY <1>2, <1>3, <1>4, <1>5, <1>6, <1>7, <1>8

\* An integer is taken by a kind that can hold it, and told apart from 0 by bool.
LEMMA IntMeans ==
  ASSUME NEW k, NEW old \in Value, NEW n \in Int
  PROVE  Means(convertAssignInt(k, old, n), k, IntReply(n))
<1> DEFINE r == IntReply(n)
<1>1. /\ r.go = "int64" /\ r.n = n /\ ~IsText(r)
      /\ \A j : r = IntReply(j) <=> n = j
  BY DEF IsText, IntReply
<1> HIDE DEF r
<1>2. Signed \subseteq IntKinds /\ IntKinds \cap {"bool", "float", "string", "bytes"} = {}
  BY HalfAssumption
<1>3. CASE k \in Signed
  <2>1. convertAssignInt(k, old, n) = IF SetInt(k, n) = n THEN Ok(n) ELSE Fail(0, "range")
    BY <1>2, <1>3 DEF convertAssignInt
  <2>2. Meaning(k, r) = {j \in SMin(k) .. SMax(k) : n = j}
    BY <1>1, <1>2, <1>3, IntMeaning, HoldsType
  <2>3. SetInt(k, n) = n <=> n \in SMin(k) .. SMax(k)
    BY <1>2, <1>3, SetIntFits
  <2> QED
    BY <2>1, <2>2, <2>3 DEF Means, Errors, Value, Ok, Fail, r
<1>4. CASE k \in IntKinds \ Signed
  <2>1. convertAssignInt(k, old, n) =
          IF n < 0 THEN Fail(old, "range")
          ELSE IF SetUint(k, n) = n THEN Ok(n) ELSE Fail(0, "range")
    BY <1>2, <1>4 DEF convertAssignInt
  <2>2. Meaning(k, r) = {j \in 0 .. UMax(k) : n = j}
    BY <1>1, <1>4, IntMeaning, HoldsType
  <2>3. SetUint(k, n) = n <=> n \in 0 .. UMax(k)
    BY <1>4, SetIntFits
  <2> QED
    BY <2>1, <2>2, <2>3 DEF Means, Errors, Value, Ok, Fail, r
<1>5. CASE k = "bool"
  <2>1. convertAssignInt(k, old, n) = Ok(n # 0) /\ k \notin IntKinds
    BY <1>2, <1>5 DEF convertAssignInt
  <2>2. Meaning(k, r) = {n # 0}
    BY <1>1, <2>1, <1>5 DEF Meaning
  <2> QED
    BY <2>1, <2>2 DEF Means, Errors, Value, Ok, r
<1>6. CASE k \notin IntKinds \cup {"bool"}
  <2>1. convertAssignInt(k, old, n) = Fail(old, "convert")
    BY <1>2, <1>6 DEF convertAssignInt
  <2>2. Meaning(k, r) = {}
    BY <1>1, <1>6 DEF Meaning
  <2> QED
    BY <2>1, <2>2 DEF Means, Errors, Fail, r
<1> QED
  BY <1>2, <1>3, <1>4, <1>5, <1>6

\* The shapes of replies.
LEMMA Shapes ==
  ASSUME NEW r \in Reply
  PROVE  \/ r.go \in {"nil", "other"}
         \/ r.go = "int64" /\ r = IntReply(r.n) /\ r.n \in Number
         \/ r.go = "bytes" /\ r = Bulk(r.text) /\ r.text \in Text
         \/ r.go = "string" /\ r = Simple(r.text) /\ r.text \in Text
         \/ r.go = "array" /\ r = Array(r.e) /\ r.e \in Seq(Reply)
<1>1. \/ r \in [go : {"nil", "other"}]
      \/ r \in [go : {"int64"}, n : Number]
      \/ r \in [go : {"bytes", "string"}, text : Text]
      \/ r \in [go : {"array"}, e : Seq(Reply)]
  BY ReplyAssumption
<1> QED
  BY <1>1 DEF IntReply, Bulk, Simple, Array

LEMMA ValueMeans ==
  ASSUME NEW k, NEW old \in Value, NEW r \in Reply
  PROVE  Means(convertAssignValue(k, old, r), k, r)
<1>1. CASE r.go = "int64"
  <2>1. r = IntReply(r.n) /\ r.n \in Int
    BY <1>1, Shapes, HoldsType, HalfAssumption DEF Number
  <2>2. convertAssignValue(k, old, r) = convertAssignInt(k, old, r.n)
    BY <1>1 DEF convertAssignValue, IsText
  <2> QED
    BY <2>1, <2>2, IntMeans
<1>2. CASE r.go \in {"bytes", "string"}
  <2>1. r.text \in Text /\ r \in {Bulk(r.text), Simple(r.text)}
    BY <1>2, Shapes
  <2>2. convertAssignValue(k, old, r) = convertAssignText(k, old, r.text)
    BY <1>2 DEF convertAssignValue, IsText
  <2> QED
    BY <2>1, <2>2, TextMeans
<1>3. CASE r.go \in {"nil", "other", "array"}
  <2>1. ~IsText(r) /\ \A n : r # IntReply(n)
    BY <1>3 DEF IsText, IntReply
  <2>2. Meaning(k, r) = {}
    BY <1>3, <2>1 DEF Meaning
  <2>3. convertAssignValue(k, old, r) \in {Fail(old, "panic"), Fail(old, "convert")}
    BY <1>3, <2>1 DEF convertAssignValue
  <2> QED
    BY <2>2, <2>3 DEF Means, Errors, Fail
<1> QED
  BY <1>1, <1>2, <1>3, Shapes

-----------------------------------------------------------------------------
(* Slices.                                                                 *)

SliceType == [arr : Seq(Value), len : Nat]

LEMMA IsSequence ==
  ASSUME NEW S, NEW n \in Nat, NEW f \in [1..n -> S]
  PROVE  f \in Seq(S) /\ Len(f) = n
<1>1. f \in Seq(S)
  BY SeqDef
<1> QED
  BY <1>1, LenProperties

LEMMA ZeroIsValue == \A k : Zero(k) \in Value
<1> SUFFICES ASSUME NEW k PROVE Zero(k) \in Value
  OBVIOUS
<1>1. {0, FALSE, Dec(0), Empty} \subseteq Value
  BY DEF Value, Text, Dec
<1>2. k \in IntKinds => k \notin {"bool", "float"}
  BY HalfAssumption
<1> QED
  BY <1>1, <1>2 DEF Zero

\* A slice that is too short gets a new array of zeros; another keeps its own.
LEMMA EnsuredLen ==
  ASSUME NEW k, NEW d \in SliceType, NEW n \in Nat
  PROVE  LET a == ensureLen(k, d, n).arr IN
         /\ ensureLen(k, d, n) \in SliceType /\ n <= Len(a)
         /\ n <= Len(d.arr) => a = d.arr
         /\ n > Len(d.arr) => Len(a) = n /\ \A i \in 1..n : a[i] = Zero(k)
<1>1. d.arr \in Seq(Value) /\ Len(d.arr) \in Nat
  BY LenProperties DEF SliceType
<1>2. CASE n > Len(d.arr)
  <2> DEFINE z == [i \in 1..n |-> Zero(k)]
  <2>1. z \in Seq(Value) /\ Len(z) = n
    <3>1. z \in [1..n -> Value]
      BY ZeroIsValue
    <3> HIDE DEF z
    <3> QED
      BY <3>1, IsSequence
  <2>2. ensureLen(k, d, n) = [arr |-> z, len |-> n]
    BY <1>2 DEF ensureLen, Slice
  <2> QED
    BY <1>1, <1>2, <2>1, <2>2 DEF SliceType
<1>3. CASE ~(n > Len(d.arr))
  <2>1. ensureLen(k, d, n) = [d EXCEPT !.len = n]
    BY <1>3 DEF ensureLen
  <2> QED
    BY <1>1, <1>3, <2>1 DEF SliceType
<1> QED
  BY <1>2, <1>3

\* The loop gets past reply r: it is skipped, or has a meaning.
Past(k, r, skip) == (skip /\ r.go = "nil") \/ Meaning(k, r) # {}

\* The loop assigns position i: it has got there, and does not skip it.
Reached(k, src, i, skip) ==
  /\ i <= Len(src) /\ ~(skip /\ src[i].go = "nil")
  /\ \A j \in 1..(i - 1) : Past(k, src[j], skip)

LEMMA AssignedAll ==
  ASSUME NEW k, NEW d \in SliceType, NEW src \in Seq(Reply),
         Len(src) <= Len(d.arr), NEW skip \in BOOLEAN
  PROVE  LET s == assignAll(k, d, src, skip) IN
         /\ s.v \in SliceType /\ Len(s.v.arr) = Len(d.arr) /\ s.err \in Errors
         /\ s.err = "none" <=> \A j \in 1..Len(src) : Past(k, src[j], skip)
         /\ \A i \in 1..Len(d.arr) :
              IF Reached(k, src, i, skip)
              THEN \/ s.v.arr[i] \in Meaning(k, src[i])
                   \/ Meaning(k, src[i]) = {}
              ELSE s.v.arr[i] = d.arr[i]
<1> DEFINE n == Len(src)
           m == Len(d.arr)
           c(i) == convertAssignValue(k, d.arr[i], src[i])
           stops == Stops(k, d.arr, src, skip)
           A == Assigned(k, d.arr, src, skip)
           arr == [i \in 1..m |-> IF i \in A THEN c(i).v ELSE d.arr[i]]
           s == assignAll(k, d, src, skip)
<1>1. n \in Nat /\ m \in Nat /\ n <= m /\ d.arr \in Seq(Value) /\ d.len \in Nat
  BY LenProperties DEF SliceType
<1>2. ASSUME NEW i \in 1..n PROVE Means(c(i), k, src[i]) /\ d.arr[i] \in Value
  <2>1. src[i] \in Reply /\ d.arr[i] \in Value
    BY <1>1, ElementOfSeq
  <2> QED
    BY <2>1, ValueMeans
<1>3. stops = {i \in 1..n : ~Past(k, src[i], skip)}
  BY <1>2 DEF Stops, Past, Means
<1>4. A = {i \in 1..n : Reached(k, src, i, skip)}
  <2>1. ASSUME NEW i \in 1..n
        PROVE  (\A j \in stops : i <= j) <=> \A j \in 1..(i - 1) : Past(k, src[j], skip)
    <3> HIDE DEF stops
    <3>1. ASSUME \A j \in stops : i <= j, NEW j \in 1..(i - 1)
          PROVE  Past(k, src[j], skip)
      BY <1>1, <1>3, <3>1
    <3>2. ASSUME \A j \in 1..(i - 1) : Past(k, src[j], skip), NEW j \in stops
          PROVE  i <= j
      BY <1>1, <1>3, <3>2
    <3> QED
      BY <3>1, <3>2
  <2>2. A = {i \in 1..n : (skip => src[i].go # "nil") /\ \A j \in stops : i <= j}
    BY DEF Assigned
  <2> HIDE DEF A, stops
  <2> QED
    BY <1>1, <2>1, <2>2 DEF Reached
<1>5. s = [v |-> [arr |-> arr, len |-> d.len],
           err |-> IF stops = {} THEN "none" ELSE c(Min(stops)).err]
  BY DEF assignAll, Fail, Slice
<1> HIDE DEF c, stops, A, s
<1>6. arr \in Seq(Value) /\ Len(arr) = m
  <2>1. \A i \in 1..m : d.arr[i] \in Value
    BY <1>1, ElementOfSeq
  <2>2. \A i \in 1..m : arr[i] \in Value
    BY <1>2, <1>4, <2>1 DEF Means
  <2>3. arr \in [1..m -> Value]
    BY <2>2
  <2> HIDE DEF arr
  <2> QED
    BY <1>1, <2>3, IsSequence
<1>7. s.err \in Errors /\ (s.err = "none" <=> stops = {})
  <2>1. CASE stops = {}
    BY <1>5, <2>1 DEF Errors
  <2>2. CASE stops # {}
    <3>1. stops \subseteq Nat
      BY <1>1, <1>3
    <3>2. Min(stops) \in stops
      BY <2>2, <3>1, MinIsLeast
    <3>3. /\ Min(stops) \in 1..n
          /\ Meaning(k, src[Min(stops)]) = {}
      BY <1>3, <3>2 DEF Past
    <3>4. Means(c(Min(stops)), k, src[Min(stops)])
      BY <1>2, <3>3
    <3> QED
      BY <1>5, <2>2, <3>3, <3>4 DEF Means
  <2> QED
    BY <2>1, <2>2
<1>8. ASSUME NEW i \in 1..m
      PROVE  IF Reached(k, src, i, skip)
             THEN arr[i] \in Meaning(k, src[i]) \/ Meaning(k, src[i]) = {}
             ELSE arr[i] = d.arr[i]
  <2>1. CASE Reached(k, src, i, skip)
    <3>1. i \in 1..n
      BY <1>1, <2>1 DEF Reached
    <3>2. i \in A /\ Means(c(i), k, src[i])
      BY <1>2, <1>4, <2>1, <3>1
    <3> QED
      BY <2>1, <3>2 DEF Means
  <2>2. CASE ~Reached(k, src, i, skip)
    BY <1>4, <2>2
  <2> QED
    BY <2>1, <2>2
<1>9. s.v.arr = arr /\ s.v \in SliceType
  BY <1>1, <1>5, <1>6 DEF SliceType
<1> HIDE DEF arr
<1> QED
  BY <1>3, <1>6, <1>7, <1>8, <1>9 DEF s

LEMMA PastMeansReadable == \A k, r : Past(k, r, TRUE) <=> Readable(k, r)
BY DEF Past, Readable

\* What s has to be, to be the result of scanning src into d.
Scanned(s, k, d, f, src) ==
  IF Len(src) % f # 0 THEN s = Fail(d, "length")
  ELSE
  /\ s.v \in SliceType /\ s.err \in Errors
  /\ s.err = "none" <=> ReadTo(k, src, Len(src))
  /\ Len(src) <= Len(s.v.arr)
  /\ Len(s.v.arr) = Len(d.arr) <=> Len(src) <= Len(d.arr)
  /\ Len(src) > Len(d.arr) => Len(s.v.arr) = Len(src)
  /\ \A i \in 1..Len(s.v.arr) :
       IF i <= Len(src) /\ src[i].go # "nil" /\ ReadTo(k, src, i - 1)
       THEN \/ s.v.arr[i] \in Meaning(k, src[i])
            \/ Meaning(k, src[i]) = {}
       ELSE s.v.arr[i] = IF Len(src) <= Len(d.arr) THEN d.arr[i] ELSE Zero(k)

LEMMA ScannedSlice ==
  ASSUME NEW k, NEW d \in SliceType, NEW f \in Nat \ {0}, NEW src \in Seq(Reply)
  PROVE  Scanned(ScanSlice(k, d, f, src), k, d, f, src)
<1> DEFINE n == Len(src)
           e == ensureLen(k, d, n)
           a == assignAll(k, e, src, TRUE)
           s == ScanSlice(k, d, f, src)
<1>1. n \in Nat /\ Len(d.arr) \in Nat
  BY LenProperties DEF SliceType
<1>2. CASE n % f # 0
  BY <1>2 DEF ScanSlice, Scanned
<1>3. CASE ~(n % f # 0)
  <2>1. s = a
    BY <1>3 DEF ScanSlice
  <2>2. /\ e \in SliceType /\ n <= Len(e.arr) /\ Len(e.arr) \in Nat
        /\ n <= Len(d.arr) => e.arr = d.arr
        /\ n > Len(d.arr) => Len(e.arr) = n /\ \A i \in 1..n : e.arr[i] = Zero(k)
    <3>1. /\ e \in SliceType /\ n <= Len(e.arr)
          /\ n <= Len(d.arr) => e.arr = d.arr
          /\ n > Len(d.arr) => Len(e.arr) = n /\ \A i \in 1..n : e.arr[i] = Zero(k)
      BY <1>1, EnsuredLen
    <3> QED
      BY <3>1, LenProperties DEF SliceType
  <2> HIDE DEF e
  <2>3. /\ a.v \in SliceType /\ Len(a.v.arr) = Len(e.arr) /\ a.err \in Errors
        /\ a.err = "none" <=> \A j \in 1..n : Past(k, src[j], TRUE)
        /\ \A i \in 1..Len(e.arr) :
             IF Reached(k, src, i, TRUE)
             THEN a.v.arr[i] \in Meaning(k, src[i]) \/ Meaning(k, src[i]) = {}
             ELSE a.v.arr[i] = e.arr[i]
    BY <2>2, AssignedAll
  <2>4. \A i \in 1..Len(e.arr) :
          Reached(k, src, i, TRUE) <=>
            i <= n /\ src[i].go # "nil" /\ ReadTo(k, src, i - 1)
    BY PastMeansReadable DEF Reached, ReadTo
  <2>5. \A i \in 1..Len(e.arr) :
          e.arr[i] = IF n <= Len(d.arr) THEN d.arr[i] ELSE Zero(k)
    BY <1>1, <2>2
  <2>6. (\A j \in 1..n : Past(k, src[j], TRUE)) <=> ReadTo(k, src, n)
    BY PastMeansReadable DEF ReadTo
  <2> HIDE DEF a, s
  <2>7. /\ Len(e.arr) = Len(d.arr) <=> n <= Len(d.arr)
        /\ n > Len(d.arr) => Len(e.arr) = n
    BY <1>1, <2>2
  <2> QED
    BY <1>1, <1>3, <2>1, <2>2, <2>3, <2>4, <2>5, <2>6, <2>7 DEF s, Scanned
<1> QED
  BY <1>2, <1>3

-----------------------------------------------------------------------------
(* Scan.                                                                   *)

Targets == {"value", "interface", "slice", "nil", "noPointer"}
Result == Value \cup Reply \cup {NilReply} \cup SliceType

LEMMA ConvertedAs ==
  ASSUME NEW d \in Destinations, NEW r \in Reply
  PROVE  LET c == convertAssign(d, r) IN
         /\ d.to \in Targets /\ c.v \in Result /\ c.err \in Errors
         /\ c.err = "none" /\ r.go # "nil" => Says([to |-> d.to, v |-> c.v], r)
<1> DEFINE c == convertAssign(d, r)
           x == [to |-> d.to, v |-> c.v]
<1>1. /\ d.to \in Targets /\ d.kind = kind /\ d.old \in Result
      /\ d.to = "value" => d.old \in Value
      /\ d.to = "slice" => d.old = Slice(<<>>, 0)
  <2>1. Slice(<<>>, 0) \in SliceType /\ Zero(kind) \in Value
    BY ZeroIsValue DEF Slice, SliceType
  <2> QED
    BY <2>1 DEF Destinations, Targets, Result
<1>2. CASE r.go = "nil"
  <2>1. c = Ok(d.old)
    BY <1>2 DEF convertAssign
  <2> QED
    BY <1>1, <1>2, <2>1 DEF Ok, Errors
<1>3. CASE r.go # "nil" /\ d.to = "nil"
  <2>1. c \in {Ok(d.old), Fail(d.old, "panic")}
    BY <1>3 DEF convertAssign
  <2>2. Says(x, r)
    BY <1>3 DEF Says
  <2> QED
    BY <1>1, <2>1, <2>2 DEF Ok, Fail, Errors
<1>4. CASE r.go # "nil" /\ d.to = "value"
  <2>1. CASE r.go = "array"
    <3>1. c = Fail(d.old, "convert")
      BY <1>4, <2>1 DEF convertAssign
    <3> QED
      BY <1>1, <3>1 DEF Fail, Errors
  <2>2. CASE r.go # "array"
    <3>1. c = convertAssignValue(kind, d.old, r)
      BY <1>1, <1>4, <2>2 DEF convertAssign
    <3>2. Means(c, kind, r)
      BY <1>1, <1>4, <3>1, ValueMeans
    <3> HIDE DEF c
    <3>3. c.err = "none" => Says(x, r)
      BY <1>4, <3>2 DEF Means, Says
    <3> QED
      BY <1>1, <3>2, <3>3 DEF Means, Result, c
  <2> QED
    BY <2>1, <2>2
<1>5. CASE r.go # "nil" /\ d.to = "interface"
  <2>1. c \in {Ok(r), Fail(d.old, "convert")}
    BY <1>5 DEF convertAssign
  <2>2. c = Ok(r) => Says(x, r)
    BY <1>5 DEF Says, Ok
  <2> QED
    BY <1>1, <2>1, <2>2 DEF Ok, Fail, Errors, Result
<1>6. CASE r.go # "nil" /\ d.to = "slice"
  <2>1. CASE r.go # "array"
    <3>1. c = Fail(d.old, "convert")
      BY <1>6, <2>1 DEF convertAssign
    <3> QED
      BY <1>1, <3>1 DEF Fail, Errors
  <2>2. CASE r.go = "array"
    <3> DEFINE n == Len(r.e)
               d0 == Slice(<<>>, 0)
               e == ensureLen(kind, d0, n)
    <3>1. c = assignAll(kind, e, r.e, FALSE)
      BY <1>1, <1>6, <2>2 DEF convertAssign, convertAssignArray
    <3>2. r.e \in Seq(Reply) /\ n \in Nat
      BY <2>2, Shapes, LenProperties
    <3>3. d0 \in SliceType /\ Len(d0.arr) = 0 /\ d0.arr = <<>>
      BY DEF Slice, SliceType
    <3>4. e \in SliceType /\ Len(e.arr) = n
      <4>1. /\ e \in SliceType /\ n <= Len(e.arr)
            /\ n <= Len(d0.arr) => e.arr = d0.arr
            /\ n > Len(d0.arr) => Len(e.arr) = n
        BY <3>2, <3>3, EnsuredLen
      <4> QED
        BY <3>2, <3>3, <4>1
    <3> HIDE DEF c, e
    <3>a. LET a == assignAll(kind, e, r.e, FALSE) IN
          /\ a.v \in SliceType /\ Len(a.v.arr) = Len(e.arr) /\ a.err \in Errors
          /\ a.err = "none" <=> \A j \in 1..Len(r.e) : Past(kind, r.e[j], FALSE)
          /\ \A i \in 1..Len(e.arr) :
               IF Reached(kind, r.e, i, FALSE)
               THEN \/ a.v.arr[i] \in Meaning(kind, r.e[i])
                    \/ Meaning(kind, r.e[i]) = {}
               ELSE a.v.arr[i] = e.arr[i]
      <4>1. Len(r.e) <= Len(e.arr)
        BY <3>2, <3>4
      <4> QED
        BY <3>2, <3>4, <4>1, AssignedAll
    <3>5. /\ c.v \in SliceType /\ Len(c.v.arr) = n /\ c.err \in Errors
          /\ c.err = "none" <=> \A j \in 1..n : Past(kind, r.e[j], FALSE)
          /\ \A i \in 1..n :
               Reached(kind, r.e, i, FALSE) =>
                 \/ c.v.arr[i] \in Meaning(kind, r.e[i])
                 \/ Meaning(kind, r.e[i]) = {}
      BY <3>1, <3>a, <3>4
    <3>6. ASSUME c.err = "none" PROVE Says(x, r)
      <4>1. \A j \in 1..n : Meaning(kind, r.e[j]) # {}
        BY <3>5, <3>6 DEF Past
      <4>2. \A i \in 1..n : Reached(kind, r.e, i, FALSE)
        BY <3>2, <4>1 DEF Reached, Past
      <4>3. \A i \in DOMAIN r.e : c.v.arr[i] \in Meaning(kind, r.e[i])
        BY <3>2, <3>5, <4>1, <4>2, LenProperties
      <4> QED
        BY <1>6, <3>5, <4>3 DEF Says
    <3> QED
      BY <1>1, <3>5, <3>6 DEF Result, c
  <2> QED
    BY <2>1, <2>2
<1>7. CASE r.go # "nil" /\ d.to = "noPointer"
  <2>1. c = Fail(d.old, "convert")
    BY <1>7 DEF convertAssign
  <2> QED
    BY <1>1, <2>1 DEF Fail, Errors
<1> QED
  BY <1>1, <1>2, <1>3, <1>4, <1>5, <1>6, <1>7 DEF Targets

Conversions(d) == {convertAssign(d, r) : r \in Reply}

\* Scan with n destinations alike: with fewer values it takes none; otherwise it
\* leaves what comes after the n, and without an error has converted each.
LEMMA ScannedLoop ==
  ASSUME NEW d \in Destinations, NEW n \in Nat \ {0}, NEW src \in Seq(Reply)
  PROVE  LET s == Scan(src, [i \in 1..n |-> d]) IN
         IF Len(src) < n THEN s = [got |-> <<>>, rest |-> <<>>, err |-> "short"]
         ELSE
         /\ s.got \in Seq(Conversions(d)) /\ s.err \in Errors
         /\ s.rest \in Seq(Reply) /\ Len(s.rest) = Len(src) - n
         /\ \A i \in 1..(Len(src) - n) : s.rest[i] = src[n + i]
         /\ s.err = "none" =>
              /\ Len(s.got) = n
              /\ \A i \in 1..n : src[i].go # "nil" =>
                   Says([to |-> d.to, v |-> s.got[i].v], src[i])
<1> DEFINE dst == [i \in 1..n |-> d]
           m == Len(src)
           res == [i \in DOMAIN dst |-> convertAssign(dst[i], src[i])]
           stops == {i \in DOMAIN dst : res[i].err # "none"}
           last == IF stops = {} THEN Len(dst) ELSE Min(stops)
           s == Scan(src, dst)
<1>1. m \in Nat /\ Len(dst) = n /\ DOMAIN dst = 1..n
  <2>1. dst \in [1..n -> Destinations]
    OBVIOUS
  <2> QED
    BY <2>1, IsSequence, LenProperties
<1>2. CASE m < n
  BY <1>1, <1>2 DEF Scan
<1>3. CASE ~(m < n)
  <2>1. s = [got |-> SubSeq(res, 1, last), rest |-> SubSeq(src, Len(dst) + 1, Len(src)),
             err |-> IF stops = {} THEN "none" ELSE res[last].err]
    <3> HIDE DEF dst
    <3> QED
      BY <1>1, <1>3 DEF Scan
  <2>2. \A i \in 1..n : res[i] = convertAssign(d, src[i])
    OBVIOUS
  <2>3. s = [got |-> SubSeq(res, 1, last), rest |-> SubSeq(src, n + 1, m),
             err |-> IF stops = {} THEN "none" ELSE res[last].err]
    BY <1>1, <2>1
  <2> HIDE DEF s, dst
  <2>4. ASSUME NEW i \in 1..n
        PROVE  /\ res[i].v \in Result /\ res[i].err \in Errors
               /\ res[i] \in Conversions(d)
               /\ res[i].err = "none" /\ src[i].go # "nil" =>
                    Says([to |-> d.to, v |-> res[i].v], src[i])
    <3>1. src[i] \in Reply
      BY <1>1, <1>3, ElementOfSeq
    <3>2. LET c == convertAssign(d, src[i]) IN
          /\ c.v \in Result /\ c.err \in Errors
          /\ c.err = "none" /\ src[i].go # "nil" =>
               Says([to |-> d.to, v |-> c.v], src[i])
      BY <3>1, ConvertedAs
    <3>3. convertAssign(d, src[i]) \in Conversions(d)
      BY <3>1 DEF Conversions
    <3>4. res[i] = convertAssign(d, src[i])
      BY <2>2
    <3> HIDE DEF res
    <3> QED
      BY <3>2, <3>3, <3>4
  <2>5. res \in Seq(Conversions(d)) /\ Len(res) = n
    <3>1. res \in [1..n -> Conversions(d)]
      BY <1>1, <2>4
    <3> HIDE DEF res
    <3> QED
      BY <3>1, IsSequence
  <2> HIDE DEF res
  <2>6. last \in 1..n /\ (stops # {} => last \in stops)
    <3>1. stops \subseteq Nat /\ stops \subseteq 1..n
      BY <1>1
    <3> HIDE DEF stops
    <3>2. CASE stops = {}
      BY <1>1, <3>2
    <3>3. CASE stops # {}
      <4>1. Min(stops) \in stops
        BY <3>1, <3>3, MinIsLeast
      <4> QED
        BY <3>1, <3>3, <4>1
    <3> QED
      BY <3>2, <3>3
  <2>7. s.got \in Seq(Conversions(d))
    <3> HIDE DEF stops, last
    <3>1. \A i \in 1..last : res[i] \in Conversions(d)
      <4>1. \A i \in 1..last : i \in 1..n
        BY <2>6
      <4>2. \A i \in 1..n : res[i] \in Conversions(d)
        BY <2>4
      <4> QED
        BY <4>1, <4>2, Zenon
    <3>2. last \in Int /\ s.got = SubSeq(res, 1, last)
      BY <2>3, <2>6
    <3> QED
      BY <3>1, <3>2, SubSeqProperties
  <2>8. s.err \in Errors /\ (s.err = "none" => stops = {})
    <3>1. stops # {} => res[last].err # "none"
      BY <2>6
    <3> HIDE DEF stops, last
    <3> QED
      BY <2>3, <2>4, <2>6, <3>1 DEF Errors
  <2>9. /\ s.rest \in Seq(Reply) /\ Len(s.rest) = m - n
        /\ \A i \in 1..(m - n) : s.rest[i] = src[n + i]
    <3>1. s.rest = SubSeq(src, n + 1, m)
      BY <2>3
    <3> QED
      BY <1>1, <1>3, <3>1, SubSeqProperties
  <2>10. ASSUME s.err = "none"
         PROVE  /\ Len(s.got) = n
                /\ \A i \in 1..n : src[i].go # "nil" =>
                     Says([to |-> d.to, v |-> s.got[i].v], src[i])
    <3>1. stops = {} /\ last = n
      BY <1>1, <2>8, <2>10
    <3>2. \A i \in 1..n : res[i].err = "none"
      BY <3>1
    <3> HIDE DEF stops, last
    <3>3. s.got = SubSeq(res, 1, n)
      BY <2>3, <3>1
    <3>4. Len(s.got) = n /\ \A i \in 1..n : s.got[i] = res[i]
      BY <2>5, <3>3, SubSeqProperties
    <3> QED
      BY <2>4, <3>2, <3>4
  <2> HIDE DEF stops, last
  <2> QED
    BY <1>1, <1>3, <2>7, <2>8, <2>9, <2>10 DEF s, dst
<1> QED
  BY <1>2, <1>3 DEF s, dst

-----------------------------------------------------------------------------
(* The invariants.                                                         *)

\* The types of the variables.
TypeInv ==
    /\ fields \in 1..2
    /\ dest \in SliceType
    /\ since \in Seq(Seq(Reply))
    /\ answer \in Reply \cup {NilReply}
    /\ err \in Errors \cup {"length", "nodata", "type"}
    /\ rest \in Seq(Reply)
    /\ got \in Seq([to : Targets, v : Result])
    /\ scanErr \in Errors \cup {"short"}

\* An array reaches position i: the loop gets past all before it, and takes it.
Covers(k, e, i) == i <= Len(e) /\ e[i].go # "nil" /\ ReadTo(k, e, i - 1)

\* Value i of array arr is that of the last of the arrays ss that reaches it.
Overlaid(k, arr, ss, i) ==
    LET reach == {c \in DOMAIN ss : Covers(k, ss[c], i)} IN
    IF reach = {} THEN arr[i] = Zero(k)
    ELSE \/ arr[i] \in Meaning(k, ss[Max(reach)][i])
         \/ Meaning(k, ss[Max(reach)][i]) = {}

\* What Scan took and what it left make up the answer.
LoopInv ==
    /\ answer.go # "array" => rest = <<>>
    /\ scanErr = "none" /\ answer.go = "array" =>
         /\ Len(got) + Len(rest) = Len(answer.e)
         /\ \A i \in 1..Len(rest) : rest[i] = answer.e[Len(got) + i]
         /\ \A i \in 1..Len(got) : answer.e[i].go # "nil" => Says(got[i], answer.e[i])

LEMMA TypeInit == Init => TypeInv
<1>1. Slice(<<>>, 0) \in SliceType
  BY DEF Slice, SliceType
<1> QED
  BY <1>1 DEF Init, TypeInv, Errors

\* What is in an answer.
LEMMA ValuesOf ==
  ASSUME NEW a \in Reply
  PROVE  /\ a.go = "array" => Values(a) = Ok(a.e) /\ a = Array(a.e) /\ a.e \in Seq(Reply)
         /\ a.go # "array" => Values(a) \in {Fail(<<>>, "nodata"), Fail(<<>>, "type")}
<1>1. a.go = "array" => a = Array(a.e) /\ a.e \in Seq(Reply)
  BY Shapes
<1> QED
  BY <1>1 DEF Values

\* An answer that is an array is scanned; another leaves the slice alone.
LEMMA ReceiveCases ==
  ASSUME NEW a \in Answers, Receive(a)
  PROVE  /\ a \in Reply /\ answer' = a /\ got' = <<>> /\ scanErr' = "none"
         /\ kind' = kind /\ fields' = fields
         /\ a.go # "array" =>
              /\ rest' = <<>> /\ err' \in {"nodata", "type"}
              /\ dest' = dest /\ since' = since
         /\ a.go = "array" =>
              LET s == ScanSlice(kind, dest, fields, a.e) IN
              /\ a.e \in Seq(Reply) /\ rest' = a.e
              /\ dest' = s.v /\ err' = s.err
              /\ since' = IF s.err = "length" THEN since
                          ELSE IF Len(s.v.arr) = Len(dest.arr) THEN Append(since, a.e)
                          ELSE <<a.e>>
<1>1. a \in Reply
  BY ReplyAssumption
<1>2. /\ answer' = a /\ got' = <<>> /\ scanErr' = "none"
      /\ kind' = kind /\ fields' = fields /\ rest' = Values(a).v
  BY DEF Receive
<1>3. CASE a.go # "array"
  <2>1. Values(a).v = <<>> /\ Values(a).err \in {"nodata", "type"}
    BY <1>1, <1>3, ValuesOf DEF Fail
  <2>2. err' = Values(a).err /\ UNCHANGED <<dest, since>>
    BY <2>1 DEF Receive
  <2> QED
    BY <1>1, <1>2, <1>3, <2>1, <2>2
<1>4. CASE a.go = "array"
  <2>1. Values(a).v = a.e /\ Values(a).err = "none" /\ a.e \in Seq(Reply)
    BY <1>1, <1>4, ValuesOf DEF Ok
  <2>2. LET s == ScanSlice(kind, dest, fields, a.e) IN
        /\ dest' = s.v /\ err' = s.err
        /\ since' = IF s.err = "length" THEN since
                    ELSE IF Len(s.v.arr) = Len(dest.arr) THEN Append(since, a.e)
                    ELSE <<a.e>>
    BY <2>1 DEF Receive
  <2> QED
    BY <1>1, <1>2, <1>4, <2>1, <2>2
<1> QED
  BY <1>3, <1>4

\* The slice after an array: left alone when its length does not fit, else the
\* array is written over it, or over zeros when it was too short.
LEMMA ReceivedSlice ==
  ASSUME TypeInv, NEW a \in Answers, Receive(a), a.go = "array"
  PROVE  \/ /\ Len(a.e) % fields # 0 /\ err' = "length"
            /\ dest' = dest /\ since' = since
         \/ /\ ~(Len(a.e) % fields # 0) /\ err' \in Errors
            /\ err' = "none" <=> ReadTo(kind, a.e, Len(a.e))
            /\ dest' \in SliceType
            /\ \/ /\ since' = Append(since, a.e) /\ Len(dest'.arr) = Len(dest.arr)
                  /\ \A i \in 1..Len(dest'.arr) :
                       IF Covers(kind, a.e, i)
                       THEN \/ dest'.arr[i] \in Meaning(kind, a.e[i])
                            \/ Meaning(kind, a.e[i]) = {}
                       ELSE dest'.arr[i] = dest.arr[i]
               \/ /\ since' = <<a.e>>
                  /\ \A i \in 1..Len(dest'.arr) :
                       IF Covers(kind, a.e, i)
                       THEN \/ dest'.arr[i] \in Meaning(kind, a.e[i])
                            \/ Meaning(kind, a.e[i]) = {}
                       ELSE dest'.arr[i] = Zero(kind)
<1>1. PICK s : s = ScanSlice(kind, dest, fields, a.e)
  OBVIOUS
<1>2. /\ a.e \in Seq(Reply) /\ dest' = s.v /\ err' = s.err
      /\ since' = IF s.err = "length" THEN since
                  ELSE IF Len(s.v.arr) = Len(dest.arr) THEN Append(since, a.e)
                  ELSE <<a.e>>
  BY <1>1, ReceiveCases
<1>3. dest \in SliceType /\ fields \in Nat \ {0}
  BY DEF TypeInv
<1>4. Scanned(s, kind, dest, fields, a.e)
  BY <1>1, <1>2, <1>3, ScannedSlice
<1>5. CASE Len(a.e) % fields # 0
  <2>1. s.v = dest /\ s.err = "length"
    BY <1>4, <1>5 DEF Fail, Scanned
  <2>2. err' = "length" /\ dest' = dest /\ since' = since
    BY <1>2, <2>1
  <2> QED
    BY <1>5, <2>2
<1>6. CASE ~(Len(a.e) % fields # 0) /\ Len(a.e) <= Len(dest.arr)
  <2>1. s.err # "length" /\ Len(s.v.arr) = Len(dest.arr)
    BY <1>4, <1>6 DEF Errors, Scanned
  <2> QED
    BY <1>2, <1>4, <1>6, <2>1 DEF Covers, Scanned
<1>7. CASE ~(Len(a.e) % fields # 0) /\ ~(Len(a.e) <= Len(dest.arr))
  <2>1. s.err # "length" /\ Len(s.v.arr) # Len(dest.arr)
    BY <1>4, <1>7 DEF Errors, Scanned
  <2> QED
    BY <1>2, <1>4, <1>7, <2>1 DEF Covers, Scanned
<1> QED
  BY <1>5, <1>6, <1>7

\* One Scan of the loop.
LEMMA ScanNextCases ==
  ASSUME TypeInv, NEW n \in 1..MaxGroup, NEW d \in Destinations, ScanNext(n, d)
  PROVE  /\ rest # <<>> /\ scanErr = "none" /\ n \in Nat \ {0}
         /\ UNCHANGED <<kind, fields, dest, since, answer, err>>
         /\ \/ /\ Len(rest) < n
               /\ rest' = <<>> /\ got' = got /\ scanErr' = "short"
            \/ /\ ~(Len(rest) < n) /\ scanErr' \in Errors
               /\ rest' \in Seq(Reply) /\ Len(rest') = Len(rest) - n
               /\ \A i \in 1..(Len(rest) - n) : rest'[i] = rest[n + i]
               /\ \E new \in Seq([to : Targets, v : Result]) :
                    /\ got' = got \o new
                    /\ scanErr' = "none" =>
                         /\ Len(new) = n
                         /\ \A i \in 1..n : rest[i].go # "nil" => Says(new[i], rest[i])
<1> DEFINE s == Scan(rest, [i \in 1..n |-> d])
           new == [i \in DOMAIN s.got |-> [to |-> d.to, v |-> s.got[i].v]]
<1>1. /\ rest # <<>> /\ scanErr = "none" /\ n \in Nat \ {0}
      /\ UNCHANGED <<kind, fields, dest, since, answer, err>>
      /\ rest' = s.rest /\ got' = got \o new /\ scanErr' = s.err
  BY DEF ScanNext
<1>2. /\ rest \in Seq(Reply) /\ got \in Seq([to : Targets, v : Result])
  BY DEF TypeInv
<1>3. IF Len(rest) < n THEN s = [got |-> <<>>, rest |-> <<>>, err |-> "short"]
      ELSE
      /\ s.got \in Seq(Conversions(d)) /\ s.err \in Errors
      /\ s.rest \in Seq(Reply) /\ Len(s.rest) = Len(rest) - n
      /\ \A i \in 1..(Len(rest) - n) : s.rest[i] = rest[n + i]
      /\ s.err = "none" =>
           /\ Len(s.got) = n
           /\ \A i \in 1..n : rest[i].go # "nil" =>
                Says([to |-> d.to, v |-> s.got[i].v], rest[i])
  BY <1>1, <1>2, ScannedLoop
<1> HIDE DEF s
<1>4. CASE Len(rest) < n
  <2>1. s.got = <<>> /\ s.rest = <<>> /\ s.err = "short"
    BY <1>3, <1>4
  <2>2. new = <<>>
    BY <2>1
  <2> HIDE DEF new
  <2>3. got \o new = got
    BY <1>2, <2>2, ConcatEmptySeq
  <2> QED
    BY <1>1, <1>4, <2>1, <2>3
<1>5. CASE ~(Len(rest) < n)
  <2> DEFINE m == Len(s.got)
  <2>1. m \in Nat /\ DOMAIN s.got = 1..m
    BY <1>3, <1>5, LenProperties
  <2>2. \A i \in 1..m : s.got[i].v \in Result
    <3>1. \A c \in Conversions(d) : c.v \in Result
      BY ConvertedAs DEF Conversions
    <3> QED
      BY <1>3, <1>5, <3>1, ElementOfSeq
  <2>3. d.to \in Targets
    BY DEF Destinations, Targets
  <2>4. new \in [1..m -> [to : Targets, v : Result]]
    BY <2>1, <2>2, <2>3
  <2>5. \A i \in 1..m : new[i] = [to |-> d.to, v |-> s.got[i].v]
    BY <2>1
  <2> HIDE DEF new
  <2>6. new \in Seq([to : Targets, v : Result]) /\ Len(new) = m
    BY <2>1, <2>4, IsSequence
  <2>7. scanErr' = "none" =>
          /\ Len(new) = n
          /\ \A i \in 1..n : rest[i].go # "nil" => Says(new[i], rest[i])
    BY <1>1, <1>3, <1>5, <2>5, <2>6
  <2> QED
    BY <1>1, <1>3, <1>5, <2>6, <2>7
<1> QED
  BY <1>4, <1>5

LEMMA TypeStep == TypeInv /\ [Next]_vars => TypeInv'
<1> SUFFICES ASSUME TypeInv, [Next]_vars PROVE TypeInv'
  OBVIOUS
<1>1. ASSUME NEW a \in Answers, Receive(a) PROVE TypeInv'
  <2>1. /\ answer' \in Reply /\ got' = <<>> /\ scanErr' = "none" /\ fields' = fields
    BY <1>1, ReceiveCases
  <2>2. CASE a.go # "array"
    <3>1. /\ rest' = <<>> /\ err' \in {"nodata", "type"}
          /\ dest' = dest /\ since' = since
      BY <1>1, <2>2, ReceiveCases
    <3> QED
      BY <2>1, <3>1 DEF TypeInv, Errors
  <2>3. CASE a.go = "array"
    <3>1. a.e \in Seq(Reply) /\ rest' = a.e
      BY <1>1, <2>3, ReceiveCases
    <3>2. dest' \in SliceType /\ err' \in Errors \cup {"length"}
      BY <1>1, <2>3, ReceivedSlice DEF TypeInv
    <3>3. since' \in {since, Append(since, a.e), <<a.e>>}
      BY <1>1, <2>3, ReceivedSlice
    <3>4. since' \in Seq(Seq(Reply))
      <4>1. since \in Seq(Seq(Reply))
        BY DEF TypeInv
      <4>2. Append(since, a.e) \in Seq(Seq(Reply)) /\ <<a.e>> \in Seq(Seq(Reply))
        BY <3>1, <4>1, AppendProperties
      <4> QED
        BY <3>3, <4>1, <4>2
    <3> QED
      BY <2>1, <3>1, <3>2, <3>4 DEF TypeInv, Errors
  <2> QED
    BY <2>2, <2>3
<1>2. ASSUME NEW n \in 1..MaxGroup, NEW d \in Destinations, ScanNext(n, d)
      PROVE  TypeInv'
  <2>1. UNCHANGED <<fields, dest, since, answer, err>>
    BY <1>2, ScanNextCases
  <2>2. rest' \in Seq(Reply) /\ scanErr' \in Errors \cup {"short"}
    <3>1. \/ rest' = <<>> /\ scanErr' = "short"
          \/ rest' \in Seq(Reply) /\ scanErr' \in Errors
      BY <1>2, ScanNextCases
    <3> QED
      BY <3>1, EmptySeq
  <2>3. got' \in Seq([to : Targets, v : Result])
    <3>1. got' = got \/ \E new \in Seq([to : Targets, v : Result]) : got' = got \o new
      BY <1>2, ScanNextCases
    <3> QED
      BY <3>1, ConcatProperties DEF TypeInv
  <2> QED
    BY <2>1, <2>2, <2>3 DEF TypeInv
<1>3. CASE UNCHANGED vars
  BY <1>3 DEF TypeInv, vars
<1> QED
  BY <1>1, <1>2, <1>3 DEF Next

\* The variables keep their types.
THEOREM TypeCorrect == Spec => []TypeInv
<1> QED
  BY TypeInit, TypeStep, PTL DEF Spec

\* ScanSlice (scan.go) succeeds on an answer exactly when the array divides into
\* the slice's elements and each reply in it is nil or has a meaning.
THEOREM ScansFitOrFail == Spec => []FitsOrFails
<1>1. Init => FitsOrFails
  BY DEF Init, FitsOrFails, NilReply
<1>2. TypeInv /\ FitsOrFails /\ [Next]_vars => FitsOrFails'
  <2> SUFFICES ASSUME TypeInv, FitsOrFails, [Next]_vars PROVE FitsOrFails'
    OBVIOUS
  <2>1. ASSUME NEW a \in Answers, Receive(a) PROVE FitsOrFails'
    <3>1. answer' = a /\ kind' = kind /\ fields' = fields
      BY <2>1, ReceiveCases
    <3>2. CASE a.go # "array"
      BY <3>1, <3>2 DEF FitsOrFails
    <3>3. CASE a.go = "array"
      <4>1. err' = "none" <=> Len(a.e) % fields = 0 /\ ReadTo(kind, a.e, Len(a.e))
        BY <2>1, <3>3, ReceivedSlice
      <4> QED
        BY <3>1, <4>1 DEF FitsOrFails, ReadTo, Readable, Meaning
    <3> QED
      BY <3>2, <3>3
  <2>2. ASSUME NEW n \in 1..MaxGroup, NEW d \in Destinations, ScanNext(n, d)
        PROVE  FitsOrFails'
    <3>1. UNCHANGED <<kind, fields, answer, err>>
      BY <2>2, ScanNextCases
    <3> QED
      BY <3>1 DEF FitsOrFails, ReadTo, Readable, Meaning
  <2>3. CASE UNCHANGED vars
    BY <2>3 DEF vars, FitsOrFails, ReadTo, Readable, Meaning
  <2> QED
    BY <2>1, <2>2, <2>3 DEF Next
<1> QED
  BY <1>1, <1>2, TypeCorrect, PTL DEF Spec

\* One more array over the slice.
LEMMA OverlaidAgain ==
  ASSUME NEW k, NEW ss \in Seq(Seq(Reply)), NEW e \in Seq(Reply),
         NEW i \in Nat, NEW old, NEW new, Overlaid(k, old, ss, i),
         IF Covers(k, e, i)
         THEN new[i] \in Meaning(k, e[i]) \/ Meaning(k, e[i]) = {}
         ELSE new[i] = old[i]
  PROVE  Overlaid(k, new, Append(ss, e), i)
<1> DEFINE tt == Append(ss, e)
           n == Len(ss)
           before == {c \in DOMAIN ss : Covers(k, ss[c], i)}
           reach == {c \in DOMAIN tt : Covers(k, tt[c], i)}
<1>1. /\ n \in Nat /\ DOMAIN ss = 1..n /\ DOMAIN tt = 1..(n + 1)
      /\ tt[n + 1] = e /\ \A c \in 1..n : tt[c] = ss[c]
  BY AppendProperties, LenProperties
<1> HIDE DEF tt
<1>2. reach = IF Covers(k, e, i) THEN before \cup {n + 1} ELSE before
  BY <1>1
<1>3. before \subseteq 1..n /\ reach \subseteq 0..(n + 1)
  BY <1>1
<1>4. IF before = {} THEN old[i] = Zero(k)
      ELSE \/ old[i] \in Meaning(k, ss[Max(before)][i])
           \/ Meaning(k, ss[Max(before)][i]) = {}
  BY DEF Overlaid
<1> HIDE DEF before, reach
<1>5. CASE Covers(k, e, i)
  <2>1. n + 1 \in reach /\ reach # {}
    BY <1>2, <1>5
  <2>2. Max(reach) \in reach /\ \A y \in reach : y <= Max(reach)
    <3>1. n + 1 \in Nat
      BY <1>1
    <3> QED
      BY <1>3, <2>1, <3>1, MaxIsGreatest
  <2>3. Max(reach) = n + 1
    <3>1. Max(reach) \in 0..(n + 1) /\ n + 1 <= Max(reach)
      BY <1>3, <2>1, <2>2
    <3> QED
      BY <1>1, <3>1
  <2>4. tt[Max(reach)] = e
    BY <1>1, <2>3
  <2> QED
    BY <1>5, <2>1, <2>4 DEF Overlaid, reach, tt
<1>6. CASE ~Covers(k, e, i)
  <2>1. reach = before /\ new[i] = old[i]
    BY <1>2, <1>6
  <2>2. CASE before = {}
    BY <1>4, <2>1, <2>2 DEF Overlaid, reach, tt
  <2>3. CASE before # {}
    <3>1. Max(before) \in before
      BY <1>1, <1>3, <2>1, <2>3, MaxIsGreatest
    <3>2. tt[Max(reach)] = ss[Max(before)]
      BY <1>1, <1>3, <2>1, <3>1
    <3>3. new[i] \in Meaning(k, tt[Max(reach)][i]) \/ Meaning(k, tt[Max(reach)][i]) = {}
      BY <1>4, <2>1, <2>3, <3>2
    <3> QED
      BY <2>1, <2>3, <3>3 DEF Overlaid, reach, tt
  <2> QED
    BY <2>2, <2>3
<1> QED
  BY <1>5, <1>6

LEMMA OverlayIs ==
  SliceIsOverlay <=> \A i \in 1..Len(dest.arr) : Overlaid(kind, dest.arr, since, i)
BY DEF SliceIsOverlay, Overlaid, Covers

\* A slice that is scanned into again and again (ScanSlice, ensureLen in scan.go)
\* has each value from the last array since its allocation that had one for it.
THEOREM SliceOverlays == Spec => []SliceIsOverlay
<1>1. Init => SliceIsOverlay
  <2> SUFFICES ASSUME Init PROVE Len(dest.arr) = 0
    BY OverlayIs
  <2> QED
    BY DEF Init, Slice
<1>2. TypeInv /\ SliceIsOverlay /\ [Next]_vars => SliceIsOverlay'
  <2> SUFFICES ASSUME TypeInv, SliceIsOverlay, [Next]_vars
               PROVE  \A i \in 1..Len(dest'.arr) : Overlaid(kind', dest'.arr, since', i)
    BY DEF SliceIsOverlay, Overlaid, Covers
  <2>1. \A i \in 1..Len(dest.arr) : Overlaid(kind, dest.arr, since, i)
    BY OverlayIs
  <2>2. CASE UNCHANGED <<kind, dest, since>>
    BY <2>1, <2>2
  <2>3. ASSUME NEW a \in Answers, Receive(a), ~UNCHANGED <<kind, dest, since>>
        PROVE  \A i \in 1..Len(dest'.arr) : Overlaid(kind', dest'.arr, since', i)
    <3>1. kind' = kind /\ a.go = "array" /\ a.e \in Seq(Reply) /\ dest' \in SliceType
      BY <2>3, ReceiveCases, ReceivedSlice
    <3>2. since \in Seq(Seq(Reply)) /\ Len(dest'.arr) \in Nat
      BY <3>1, LenProperties DEF TypeInv, SliceType
    <3> SUFFICES ASSUME NEW i \in 1..Len(dest'.arr)
                 PROVE  Overlaid(kind, dest'.arr, since', i)
      BY <3>1
    <3>3. CASE /\ since' = Append(since, a.e) /\ Len(dest'.arr) = Len(dest.arr)
               /\ IF Covers(kind, a.e, i)
                  THEN dest'.arr[i] \in Meaning(kind, a.e[i]) \/ Meaning(kind, a.e[i]) = {}
                  ELSE dest'.arr[i] = dest.arr[i]
      <4>1. Overlaid(kind, dest.arr, since, i)
        BY <2>1, <3>3
      <4>2. i \in Nat /\ since' = Append(since, a.e)
        BY <3>2, <3>3
      <4>3. IF Covers(kind, a.e, i)
            THEN dest'.arr[i] \in Meaning(kind, a.e[i]) \/ Meaning(kind, a.e[i]) = {}
            ELSE dest'.arr[i] = dest.arr[i]
        BY <3>3
      <4>4. Overlaid(kind, dest'.arr, Append(since, a.e), i)
        BY <3>1, <3>2, <4>1, <4>2, <4>3, OverlaidAgain
      <4> QED
        BY <4>2, <4>4
    <3>4. CASE /\ since' = <<a.e>>
               /\ IF Covers(kind, a.e, i)
                  THEN dest'.arr[i] \in Meaning(kind, a.e[i]) \/ Meaning(kind, a.e[i]) = {}
                  ELSE dest'.arr[i] = Zero(kind)
      <4> DEFINE zeros == [j \in 1..Len(dest'.arr) |-> Zero(kind)]
      <4>1. zeros[i] = Zero(kind)
        OBVIOUS
      <4> HIDE DEF zeros
      <4>2. Overlaid(kind, zeros, <<>>, i)
        BY <4>1 DEF Overlaid
      <4>3. <<>> \in Seq(Seq(Reply)) /\ Append(<<>>, a.e) = <<a.e>>
        OBVIOUS
      <4>4. i \in Nat /\ since' = Append(<<>>, a.e)
        BY <3>2, <3>4, <4>3
      <4>5. IF Covers(kind, a.e, i)
            THEN dest'.arr[i] \in Meaning(kind, a.e[i]) \/ Meaning(kind, a.e[i]) = {}
            ELSE dest'.arr[i] = zeros[i]
        BY <3>4, <4>1
      <4>6. Overlaid(kind, dest'.arr, Append(<<>>, a.e), i)
        BY <3>1, <4>2, <4>3, <4>4, <4>5, OverlaidAgain
      <4> QED
        BY <4>4, <4>6
    <3> QED
      BY <2>3, <3>1, <3>3, <3>4, ReceivedSlice
  <2>4. ASSUME NEW n \in 1..MaxGroup, NEW d \in Destinations, ScanNext(n, d)
        PROVE  UNCHANGED <<kind, dest, since>>
    BY <2>4, ScanNextCases
  <2> QED
    BY <2>2, <2>3, <2>4 DEF Next, vars
<1> QED
  BY <1>1, <1>2, TypeCorrect, PTL DEF Spec

LEMMA LoopInit == Init => LoopInv
BY DEF Init, LoopInv, NilReply

LEMMA LoopStep == TypeInv /\ LoopInv /\ [Next]_vars => LoopInv'
<1> SUFFICES ASSUME TypeInv, LoopInv, [Next]_vars PROVE LoopInv'
  OBVIOUS
<1>1. ASSUME NEW a \in Answers, Receive(a) PROVE LoopInv'
  <2>1. answer' = a /\ got' = <<>> /\ scanErr' = "none"
    BY <1>1, ReceiveCases
  <2>2. a.go # "array" => rest' = <<>>
    BY <1>1, ReceiveCases
  <2>3. a.go = "array" => rest' = a.e /\ a.e \in Seq(Reply)
    BY <1>1, ReceiveCases
  <2> QED
    BY <2>1, <2>2, <2>3, LenProperties DEF LoopInv
<1>2. ASSUME NEW n \in 1..MaxGroup, NEW d \in Destinations, ScanNext(n, d)
      PROVE  LoopInv'
  <2>1. answer.go = "array" /\ answer' = answer /\ kind' = kind /\ n \in Nat \ {0}
    BY <1>2, ScanNextCases DEF LoopInv
  <2>2. /\ Len(got) + Len(rest) = Len(answer.e)
        /\ \A i \in 1..Len(rest) : rest[i] = answer.e[Len(got) + i]
        /\ \A i \in 1..Len(got) : answer.e[i].go # "nil" => Says(got[i], answer.e[i])
    BY <1>2, <2>1, ScanNextCases DEF LoopInv
  <2>3. CASE scanErr' # "none"
    BY <2>1, <2>3 DEF LoopInv
  <2>4. CASE scanErr' = "none"
    <3>1. PICK new \in Seq([to : Targets, v : Result]) :
            /\ ~(Len(rest) < n) /\ Len(rest') = Len(rest) - n
            /\ \A i \in 1..(Len(rest) - n) : rest'[i] = rest[n + i]
            /\ got' = got \o new /\ Len(new) = n
            /\ \A i \in 1..n : rest[i].go # "nil" => Says(new[i], rest[i])
      BY <1>2, <2>4, ScanNextCases
    <3> DEFINE m == Len(got)
    <3>2. m \in Nat /\ Len(rest) \in Nat /\ got \in Seq([to : Targets, v : Result])
      BY LenProperties DEF TypeInv
    <3>3. /\ Len(got') = m + n
          /\ \A i \in 1..(m + n) : got'[i] = IF i <= m THEN got[i] ELSE new[i - m]
      BY <3>1, <3>2, ConcatProperties
    <3>4. Len(got') + Len(rest') = Len(answer.e)
      <4>1. Len(got') = m + n /\ Len(rest') = Len(rest) - n
        BY <3>1, <3>3
      <4>2. m + Len(rest) = Len(answer.e)
        BY <2>2
      <4>3. (m + n) + (Len(rest) - n) = m + Len(rest)
        BY <2>1, <3>2
      <4> QED
        BY <4>1, <4>2, <4>3
    <3>5. ASSUME NEW i \in 1..Len(rest') PROVE rest'[i] = answer.e[Len(got') + i]
      <4>1. i \in 1..(Len(rest) - n) /\ n + i \in 1..Len(rest) /\ m + (n + i) = (m + n) + i
        BY <2>1, <3>1, <3>2
      <4>2. rest'[i] = rest[n + i] /\ rest[n + i] = answer.e[m + (n + i)]
        BY <2>2, <3>1, <4>1
      <4> QED
        BY <3>3, <4>1, <4>2
    <3>6. ASSUME NEW i \in 1..Len(got'), answer.e[i].go # "nil"
          PROVE  Says(got'[i], answer.e[i])
      <4>1. CASE i <= m
        <5>1. i \in 1..m /\ i \in 1..(m + n)
          BY <2>1, <3>2, <3>3, <4>1
        <5>2. got'[i] = got[i]
          BY <3>3, <4>1, <5>1
        <5> QED
          BY <2>2, <3>6, <5>1, <5>2
      <4>2. CASE ~(i <= m)
        <5>1. i - m \in 1..n /\ i - m \in 1..Len(rest) /\ m + (i - m) = i
          BY <2>1, <3>1, <3>2, <3>3, <4>2
        <5>2. got'[i] = new[i - m] /\ rest[i - m] = answer.e[i]
          BY <2>1, <2>2, <3>2, <3>3, <4>2, <5>1
        <5> QED
          BY <3>1, <3>6, <5>1, <5>2
      <4> QED
        BY <4>1, <4>2
    <3>7. \A x, r : Says(x, r) => Says(x, r)'
      BY <2>1 DEF Says
    <3> QED
      BY <2>1, <3>4, <3>5, <3>6, <3>7 DEF LoopInv, Says
  <2> QED
    BY <2>3, <2>4
<1>3. CASE UNCHANGED vars
  BY <1>3 DEF LoopInv, Says, vars
<1> QED
  BY <1>1, <1>2, <1>3 DEF Next

\* A loop of Scans (scan.go) that has met no error has taken each value of the
\* answer once and in order, what is left of it apart, and converted each into
\* what it says.
THEOREM LoopsTakeAll == Spec => []LoopTakesAll
<1>1. TypeInv /\ LoopInv => LoopTakesAll
  <2> SUFFICES ASSUME TypeInv, LoopInv, scanErr = "none", answer.go = "array"
               PROVE  /\ answer.e = SubSeq(answer.e, 1, Len(got)) \o rest
                      /\ \A i \in DOMAIN got :
                           answer.e[i].go # "nil" => Says(got[i], answer.e[i])
    BY DEF LoopTakesAll
  <2> DEFINE m == Len(got)
             taken == SubSeq(answer.e, 1, m)
  <2>1. /\ m + Len(rest) = Len(answer.e)
        /\ \A i \in 1..Len(rest) : rest[i] = answer.e[m + i]
        /\ \A i \in 1..m : answer.e[i].go # "nil" => Says(got[i], answer.e[i])
    BY DEF LoopInv
  <2>2. answer.e \in Seq(Reply)
    <3>1. answer \in Reply
      BY DEF TypeInv, NilReply
    <3> QED
      BY <3>1, Shapes
  <2>3. rest \in Seq(Reply) /\ m \in Nat /\ Len(rest) \in Nat /\ DOMAIN got = 1..m
    BY LenProperties DEF TypeInv
  <2>4. \A i \in 1..m : answer.e[i] \in Reply
    BY <2>1, <2>2, <2>3, ElementOfSeq
  <2>5. taken \in Seq(Reply) /\ Len(taken) = m /\ \A i \in 1..m : taken[i] = answer.e[i]
    BY <2>3, <2>4, SubSeqProperties
  <2> HIDE DEF taken
  <2>6. /\ taken \o rest \in Seq(Reply) /\ Len(taken \o rest) = m + Len(rest)
        /\ \A i \in 1..(m + Len(rest)) :
             (taken \o rest)[i] = IF i <= m THEN taken[i] ELSE rest[i - m]
    <3>1. LET k == Len(taken) IN
          /\ taken \o rest \in Seq(Reply) /\ Len(taken \o rest) = k + Len(rest)
          /\ \A i \in 1..(k + Len(rest)) :
               (taken \o rest)[i] = IF i <= k THEN taken[i] ELSE rest[i - k]
      BY <2>3, <2>5, ConcatProperties
    <3> QED
      BY <2>5, <3>1
  <2>7. ASSUME NEW i \in 1..Len(answer.e) PROVE answer.e[i] = (taken \o rest)[i]
    <3>1. CASE i <= m
      BY <2>1, <2>3, <2>5, <2>6, <3>1
    <3>2. CASE ~(i <= m)
      <4>1. i - m \in 1..Len(rest) /\ m + (i - m) = i
        BY <2>1, <2>3, <3>2
      <4> QED
        BY <2>1, <2>3, <2>6, <3>2, <4>1
    <3> QED
      BY <3>1, <3>2
  <2>8. answer.e = taken \o rest
    BY <2>1, <2>2, <2>6, <2>7, SeqEqual
  <2> QED
    BY <2>1, <2>3, <2>8 DEF taken
<1> QED
  BY <1>1, LoopInit, LoopStep, TypeCorrect, PTL DEF Spec

-----------------------------------------------------------------------------
(* The helpers of reply.go.                                                *)

\* What the helpers made of the elements is collected when none has failed.
LEMMA Collected ==
  ASSUME NEW n \in Nat, NEW res, DOMAIN res = 1..n
  PROVE  /\ Collect(res).err = "none" <=> \A i \in 1..n : res[i].err = "none"
         /\ (\A i \in 1..n : res[i].err = "none") => Collect(res).v = [i \in 1..n |-> res[i].v]
<1> DEFINE stops == {i \in DOMAIN res : res[i].err # "none"}
<1>1. CASE stops = {}
  <2>1. \A i \in 1..n : res[i].err = "none"
    BY <1>1
  <2>2. Collect(res) = Ok([i \in DOMAIN res |-> res[i].v])
    BY <1>1 DEF Collect
  <2> QED
    BY <2>1, <2>2 DEF Ok
<1>2. CASE stops # {}
  <2>1. Min(stops) \in stops
    BY <1>2, MinIsLeast
  <2>2. res[Min(stops)].err # "none" /\ Min(stops) \in 1..n
    BY <2>1
  <2>3. Collect(res) = Fail(<<>>, res[Min(stops)].err)
    BY <1>2 DEF Collect
  <2> QED
    BY <2>2, <2>3 DEF Fail
<1> QED
  BY <1>1, <1>2


\* The elements of a list by a helper, those at nils left at a zero value.
OrZero(n, one, nils, zero) ==
  [i \in 1..n |-> IF i \in nils THEN Ok(zero) ELSE one[i]]

\* The list is accepted as its elements are.
LEMMA EachFine ==
  ASSUME NEW n \in Nat, NEW one, NEW zero, NEW nils,
         \A i \in 1..n : i \in nils => one[i].err # "none",
         NEW whole, whole = Collect(OrZero(n, one, nils, zero))
  PROVE  /\ whole.err = "none" <=> \A i \in 1..n : one[i].err = "none" \/ i \in nils
         /\ whole.err = "none" =>
              whole.v = [i \in 1..n |-> IF one[i].err = "none" THEN one[i].v ELSE zero]
<1> DEFINE res == OrZero(n, one, nils, zero)
<1>1. DOMAIN res = 1..n /\ whole = Collect(res)
  BY DEF OrZero
<1>2. ASSUME NEW i \in 1..n
      PROVE  /\ res[i].err = "none" <=> one[i].err = "none" \/ i \in nils
             /\ res[i].err = "none" =>
                  res[i].v = IF one[i].err = "none" THEN one[i].v ELSE zero
  BY DEF Ok, OrZero
<1> HIDE DEF res
<1>3. /\ whole.err = "none" <=> \A i \in 1..n : res[i].err = "none"
      /\ (\A i \in 1..n : res[i].err = "none") => whole.v = [i \in 1..n |-> res[i].v]
  BY <1>1, Collected
<1>4. (\A i \in 1..n : res[i].err = "none")
        <=> \A i \in 1..n : one[i].err = "none" \/ i \in nils
  BY <1>2
<1>5. (\A i \in 1..n : res[i].err = "none") =>
        whole.v = [i \in 1..n |-> IF one[i].err = "none" THEN one[i].v ELSE zero]
  BY <1>2, <1>3
<1> QED
  BY <1>3, <1>4, <1>5

\* A helper finds no value in nil.
LEMMA NoValueInNil ==
  ASSUME NEW r, r.go = "nil"
  PROVE  /\ ReplyInt(r).err # "none" /\ Int64(r).err # "none" /\ String(r).err # "none"
         /\ Bytes(r).err # "none" /\ Float64(r).err # "none"
         /\ convertToGeoGeoPoint(r).err # "none"
<1>1. ~IsText(r)
  BY DEF IsText
<1>2. /\ ReplyInt(r).err = "nodata" /\ Int64(r).err = "nodata"
      /\ String(r).err = "nodata" /\ Bytes(r).err = "nodata" /\ Float64(r).err = "nodata"
  BY <1>1 DEF ReplyInt, Int64, String, Bytes, Float64, Helper, Fail
<1>3. Values(r).err = "nodata" /\ Float64s(r) = Values(r)
  BY DEF Values, Fail, Float64s, Each
<1>4. convertToGeoGeoPoint(r).err = "nodata"
  BY <1>3 DEF convertToGeoGeoPoint, Fail
<1> QED
  BY <1>2, <1>4

\* An array is a sequence.
LEMMA ArrayIs ==
  ASSUME NEW r \in Reply, r.go = "array"
  PROVE  /\ r = Array(r.e) /\ r.e \in Seq(Reply) /\ Values(r) = Ok(r.e)
         /\ Len(r.e) \in Nat /\ DOMAIN r.e = 1..Len(r.e)
<1>1. r = Array(r.e) /\ r.e \in Seq(Reply)
  BY Shapes
<1> QED
  BY <1>1, LenProperties DEF Values

LEMMA ListsAccept ==
  ASSUME NEW r \in Reply, r.go = "array"
  PROVE  /\ AcceptsEach(Strings(r), r, String, Empty, TRUE)
         /\ AcceptsEach(ByteSlices(r), r, Bytes, NilReply, TRUE)
         /\ AcceptsEach(Float64s(r), r, Float64, Dec(0), FALSE)
         /\ AcceptsEach(GeoPosition(r), r, convertToGeoGeoPoint, <<>>, FALSE)
<1> DEFINE n == Len(r.e)
           nils == {i \in 1..n : r.e[i].go = "nil"}
<1>1. n \in Nat /\ DOMAIN r.e = 1..n /\ Values(r).err = "none"
  BY ArrayIs DEF Ok
<1>2. AcceptsEach(Strings(r), r, String, Empty, TRUE)
  <2> DEFINE one == [i \in 1..n |-> String(r.e[i])]
  <2>1. Strings(r) = Collect(OrZero(n, one, nils, Empty))
    BY <1>1 DEF Strings, Each, OrZero, NilAs
  <2>2. \A i \in 1..n : i \in nils => one[i].err # "none"
    BY NoValueInNil
  <2>3. /\ Strings(r).err = "none" <=> \A i \in 1..n : one[i].err = "none" \/ i \in nils
        /\ Strings(r).err = "none" =>
             Strings(r).v = [i \in 1..n |-> IF one[i].err = "none" THEN one[i].v ELSE Empty]
    <3> HIDE DEF one, nils
    <3> QED
      BY <1>1, <2>1, <2>2, EachFine
  <2> QED
    BY <1>1, <2>3 DEF AcceptsEach
<1>3. AcceptsEach(ByteSlices(r), r, Bytes, NilReply, TRUE)
  <2> DEFINE one == [i \in 1..n |-> Bytes(r.e[i])]
  <2>1. ByteSlices(r) = Collect(OrZero(n, one, nils, NilReply))
    BY <1>1 DEF ByteSlices, Each, OrZero, NilAs
  <2>2. \A i \in 1..n : i \in nils => one[i].err # "none"
    BY NoValueInNil
  <2>3. /\ ByteSlices(r).err = "none" <=> \A i \in 1..n : one[i].err = "none" \/ i \in nils
        /\ ByteSlices(r).err = "none" =>
             ByteSlices(r).v = [i \in 1..n |-> IF one[i].err = "none" THEN one[i].v ELSE NilReply]
    <3> HIDE DEF one, nils
    <3> QED
      BY <1>1, <2>1, <2>2, EachFine
  <2> QED
    BY <1>1, <2>3 DEF AcceptsEach
<1>4. AcceptsEach(Float64s(r), r, Float64, Dec(0), FALSE)
  <2> DEFINE one == [i \in 1..n |-> Float64(r.e[i])]
  <2>1. Float64s(r) = Collect(OrZero(n, one, {}, Dec(0)))
    BY <1>1 DEF Float64s, Each, OrZero
  <2>2. \A i \in 1..n : i \in {} => one[i].err # "none"
    BY NoValueInNil
  <2>3. /\ Float64s(r).err = "none" <=> \A i \in 1..n : one[i].err = "none" \/ i \in {}
        /\ Float64s(r).err = "none" =>
             Float64s(r).v = [i \in 1..n |-> IF one[i].err = "none" THEN one[i].v ELSE Dec(0)]
    <3> HIDE DEF one
    <3> QED
      BY <1>1, <2>1, <2>2, EachFine
  <2> QED
    BY <1>1, <2>3 DEF AcceptsEach
<1>5. AcceptsEach(GeoPosition(r), r, convertToGeoGeoPoint, <<>>, FALSE)
  <2> DEFINE one == [i \in 1..n |-> convertToGeoGeoPoint(r.e[i])]
  <2>1. GeoPosition(r) = Collect(OrZero(n, one, {}, <<>>))
    BY <1>1 DEF GeoPosition, Each, OrZero
  <2>2. \A i \in 1..n : i \in {} => one[i].err # "none"
    BY NoValueInNil
  <2>3. /\ GeoPosition(r).err = "none" <=> \A i \in 1..n : one[i].err = "none" \/ i \in {}
        /\ GeoPosition(r).err = "none" =>
             GeoPosition(r).v = [i \in 1..n |-> IF one[i].err = "none" THEN one[i].v ELSE <<>>]
    <3> HIDE DEF one
    <3> QED
      BY <1>1, <2>1, <2>2, EachFine
  <2> QED
    BY <1>1, <2>3 DEF AcceptsEach
<1> QED
  BY <1>2, <1>3, <1>4, <1>5

\* The helpers for one integer tell what ScanSlice does of an element.
LEMMA IntHelper ==
  ASSUME NEW r \in Reply, NEW k \in {"int", "int64"}, NEW c,
         c = IF k = "int" THEN ReplyInt(r) ELSE Int64(r)
  PROVE  /\ c.err = "none" <=> Meaning(k, r) # {}
         /\ \A v \in Meaning(k, r) : v = c.v
<1>1. k \in IntKinds /\ k \in Signed /\ Half["int64"] \in Nat \ {0}
  BY HalfAssumption
<1>2. Meaning(k, r) = {n \in SMin(k) .. SMax(k) :
                        r = IntReply(n) \/ (IsText(r) /\ r.text = Dec(n))}
  <2>1. Holds(k) = SMin(k) .. SMax(k)
    BY <1>1, HoldsType
  <2>2. Meaning(k, r) = {n \in Holds(k) :
                           r = IntReply(n) \/ (IsText(r) /\ r.text = Dec(n))}
    BY <1>1, IntMeaning
  <2> QED
    BY <2>1, <2>2, Zenon
<1>3. CASE r.go = "int64"
  <2>1. r = IntReply(r.n) /\ r.n \in Number /\ r.n \in Int /\ ~IsText(r)
    BY <1>3, Shapes, HoldsType, HalfAssumption DEF Number, IsText
  <2>2. \A n : r = IntReply(n) <=> r.n = n
    BY <2>1 DEF IntReply
  <2>3. \A n : n \in Meaning(k, r) <=> n \in SMin(k) .. SMax(k) /\ r.n = n
    BY <1>2, <2>1, <2>2, Zenon
  <2>4. k = "int64" => r.n \in SMin(k) .. SMax(k)
    BY <1>1, <2>1, HoldsType DEF Number
  <2>5. c = IF k = "int" THEN IntOf(r.n) ELSE Ok(r.n)
    BY <1>3, <2>1 DEF ReplyInt, Int64, Helper
  <2>6. SetInt("int", r.n) = r.n <=> r.n \in SMin("int") .. SMax("int")
    BY <2>1, SetIntFits, HalfAssumption
  <2> QED
    BY <2>3, <2>4, <2>5, <2>6 DEF IntOf, Ok, Fail
<1>4. CASE IsText(r)
  <2>1. r.text \in Text /\ \A n : r # IntReply(n)
    BY <1>4, Shapes DEF IsText, IntReply
  <2>2. c = ParseInt(r.text, k)
    BY <1>4 DEF ReplyInt, Int64, Helper, IsText
  <2>3. Meaning(k, r) = {n \in SMin(k) .. SMax(k) : r.text = Dec(n)}
    BY <1>2, <1>4, <2>1
  <2>4. /\ c.err = "none" <=> \E n \in SMin(k) .. SMax(k) : r.text = Dec(n)
        /\ c.err = "none" => r.text = Dec(c.v)
    BY <1>1, <2>1, <2>2, ParseIntMeans
  <2>5. \A m, n : Dec(m) = Dec(n) => m = n
    BY DEF Dec
  <2> QED
    BY <2>3, <2>4, <2>5
<1>5. CASE r.go # "int64" /\ ~IsText(r)
  <2>1. \A n : r # IntReply(n)
    BY <1>5 DEF IntReply
  <2>2. Meaning(k, r) = {}
    BY <1>2, <1>5, <2>1
  <2>3. c.err \in {"nodata", "type"}
    BY <1>5 DEF ReplyInt, Int64, Helper, Fail
  <2> QED
    BY <2>2, <2>3
<1> QED
  BY <1>3, <1>4, <1>5

\* What Ints and Int64s scan their reply into.
LEMMA FreshlyScanned ==
  ASSUME NEW r \in Reply, r.go = "array", NEW k \in {"int", "int64"}
  PROVE  LET s == ScanFresh(k, r) IN
         /\ s.err = "none" <=> \A i \in 1..Len(r.e) : Readable(k, r.e[i])
         /\ s.err = "none" =>
              /\ DOMAIN s.v = 1..Len(r.e)
              /\ s.v = [i \in 1..Len(r.e) |-> s.v[i]]
              /\ \A i \in 1..Len(r.e) :
                   IF r.e[i].go = "nil" THEN s.v[i] = 0
                   ELSE s.v[i] \in Meaning(k, r.e[i])
<1> DEFINE n == Len(r.e)
           d == Slice(<<>>, 0)
<1>1. n \in Nat /\ r.e \in Seq(Reply) /\ Values(r) = Ok(r.e) /\ Zero(k) = 0
  <2>1. k \in IntKinds
    BY HalfAssumption
  <2> QED
    BY <2>1, ArrayIs, HalfAssumption DEF Zero
<1>2. d \in SliceType /\ d.arr = <<>> /\ Len(d.arr) = 0
  BY DEF Slice, SliceType
<1>3. PICK z : z = ScanSlice(k, d, 1, r.e)
  OBVIOUS
<1>4. ScanFresh(k, r) = [v |-> z.v.arr, err |-> z.err]
  BY <1>1, <1>3 DEF ScanFresh, Ok, Fail
<1>5. Scanned(z, k, d, 1, r.e)
  BY <1>1, <1>2, <1>3, ScannedSlice
<1> HIDE DEF d
<1>6. /\ z.v \in SliceType /\ (z.err = "none" <=> ReadTo(k, r.e, n)) /\ Len(z.v.arr) = n
      /\ \A i \in 1..n :
           IF r.e[i].go # "nil" /\ ReadTo(k, r.e, i - 1)
           THEN z.v.arr[i] \in Meaning(k, r.e[i]) \/ Meaning(k, r.e[i]) = {}
           ELSE z.v.arr[i] = 0
  <2>1. ~(n % 1 # 0)
    <3>1. \A m \in Nat : m % 1 = 0
      OBVIOUS
    <3> QED
      BY <1>1, <3>1, Zenon
  <2>2. Len(z.v.arr) = n
    BY <1>1, <1>2, <1>5, <2>1 DEF Scanned
  <2>3. /\ z.v \in SliceType /\ (z.err = "none" <=> ReadTo(k, r.e, n))
        /\ \A i \in 1..n :
             IF i <= n /\ r.e[i].go # "nil" /\ ReadTo(k, r.e, i - 1)
             THEN z.v.arr[i] \in Meaning(k, r.e[i]) \/ Meaning(k, r.e[i]) = {}
             ELSE z.v.arr[i] = IF n <= Len(d.arr) THEN d.arr[i] ELSE Zero(k)
    BY <1>5, <2>1, <2>2 DEF Scanned
  <2>4. \A i \in 1..n : i <= n /\ ~(n <= Len(d.arr))
    BY <1>1, <1>2
  <2> QED
    BY <1>1, <2>2, <2>3, <2>4
<1>7. z.v.arr \in Seq(Value) /\ DOMAIN z.v.arr = 1..n
  BY <1>6, LenProperties DEF SliceType
<1>8. z.v.arr = [i \in 1..n |-> z.v.arr[i]]
  BY <1>7
<1>9. ASSUME ReadTo(k, r.e, n), NEW i \in 1..n
      PROVE  IF r.e[i].go = "nil" THEN z.v.arr[i] = 0 ELSE z.v.arr[i] \in Meaning(k, r.e[i])
  <2>1. ReadTo(k, r.e, i - 1) /\ Readable(k, r.e[i])
    BY <1>1, <1>9 DEF ReadTo
  <2> QED
    BY <1>6, <2>1 DEF Readable
<1> QED
  BY <1>4, <1>6, <1>7, <1>8, <1>9 DEF ReadTo

\* The slice helper's answer for r is what the helper of one element makes
\* of each, zero of a nil one.
IntsAgree(whole, r, one) ==
  /\ whole.err = "none" <=>
       \A i \in 1..Len(r.e) : one[i].err = "none" \/ r.e[i].go = "nil"
  /\ whole.err = "none" =>
       whole.v = [i \in 1..Len(r.e) |-> IF one[i].err = "none" THEN one[i].v ELSE 0]

LEMMA IntsFine ==
  ASSUME NEW r \in Reply, r.go = "array", NEW k \in {"int", "int64"}, NEW one, NEW whole,
         \A i \in 1..Len(r.e) :
            one[i] = IF k = "int" THEN ReplyInt(r.e[i]) ELSE Int64(r.e[i]),
         whole.err = "none" <=> ScanFresh(k, r).err = "none",
         whole.err = "none" => whole.v = ScanFresh(k, r).v
  PROVE  IntsAgree(whole, r, one)
<1> DEFINE n == Len(r.e)
<1>0. n \in Nat /\ DOMAIN r.e = 1..n /\ \A i \in 1..n : r.e[i] \in Reply
  BY ArrayIs, ElementOfSeq
<1>1. \A i \in 1..n : /\ one[i].err = "none" <=> Meaning(k, r.e[i]) # {}
                      /\ \A v \in Meaning(k, r.e[i]) : v = one[i].v
  BY <1>0, IntHelper
<1>2. \A i \in 1..n : r.e[i].go = "nil" => Meaning(k, r.e[i]) = {}
  <2>1. \A i \in 1..n : r.e[i].go = "nil" => one[i].err # "none"
    BY NoValueInNil
  <2> QED
    BY <1>1, <2>1
<1>3. PICK s : s = ScanFresh(k, r)
  OBVIOUS
<1>4. /\ s.err = "none" <=> \A i \in 1..n : Readable(k, r.e[i])
      /\ s.err = "none" =>
           /\ s.v = [i \in 1..n |-> s.v[i]]
           /\ \A i \in 1..n : IF r.e[i].go = "nil" THEN s.v[i] = 0
                              ELSE s.v[i] \in Meaning(k, r.e[i])
  BY <1>3, FreshlyScanned
<1>5. whole.err = "none" <=> \A i \in 1..n : one[i].err = "none" \/ r.e[i].go = "nil"
  BY <1>1, <1>3, <1>4 DEF Readable
<1>6. ASSUME whole.err = "none"
      PROVE  \A i \in 1..n : s.v[i] = IF one[i].err = "none" THEN one[i].v ELSE 0
  BY <1>1, <1>2, <1>3, <1>4, <1>6
<1>7. ASSUME whole.err = "none"
      PROVE  whole.v = [i \in 1..n |-> IF one[i].err = "none" THEN one[i].v ELSE 0]
  BY <1>3, <1>4, <1>6, <1>7
<1> QED
  BY <1>5, <1>7 DEF IntsAgree

LEMMA IntsAccept ==
  ASSUME NEW r \in Reply, r.go = "array"
  PROVE  /\ AcceptsEach(Ints(r), r, ReplyInt, 0, TRUE)
         /\ AcceptsEach(Int64s(r), r, Int64, 0, TRUE)
<1> DEFINE n == Len(r.e)
<1>1. n \in Nat /\ DOMAIN r.e = 1..n /\ \A i \in 1..n : r.e[i] \in Reply
  BY ArrayIs, ElementOfSeq
<1>3. AcceptsEach(Ints(r), r, ReplyInt, 0, TRUE)
  <2> DEFINE one == [i \in 1..n |-> ReplyInt(r.e[i])]
  <2>1. \A i \in 1..n : one[i] = ReplyInt(r.e[i])
    OBVIOUS
  <2>2. Ints(r) = ScanFresh("int", r)
    BY DEF Ints
  <2>3. IntsAgree(Ints(r), r, one)
    <3>1. \A i \in 1..n : one[i] = IF "int" = "int" THEN ReplyInt(r.e[i]) ELSE Int64(r.e[i])
      BY <2>1
    <3> HIDE DEF one
    <3> QED
      BY <2>2, <3>1, IntsFine
  <2> QED
    BY <1>1, <2>3 DEF AcceptsEach, IntsAgree
<1>4. AcceptsEach(Int64s(r), r, Int64, 0, TRUE)
  <2> DEFINE one == [i \in 1..n |-> Int64(r.e[i])]
  <2>1. \A i \in 1..n : one[i] = Int64(r.e[i])
    OBVIOUS
  <2>2. /\ Int64s(r).err = "none" <=> ScanFresh("int64", r).err = "none"
        /\ Int64s(r).err = "none" => Int64s(r).v = ScanFresh("int64", r).v
    BY DEF Int64s, Fail
  <2>3. IntsAgree(Int64s(r), r, one)
    <3>1. \A i \in 1..n : one[i] = IF "int64" = "int" THEN ReplyInt(r.e[i]) ELSE Int64(r.e[i])
      BY <2>1
    <3> HIDE DEF one
    <3> QED
      BY <2>2, <3>1, IntsFine
  <2> QED
    BY <1>1, <2>3 DEF AcceptsEach, IntsAgree
<1> QED
  BY <1>3, <1>4

LEMMA StringIs ==
  ASSUME NEW r
  PROVE  /\ String(r).err = "none" <=> IsText(r)
         /\ IsText(r) => String(r).v = r.text
<1>1. CASE r.go = "int64"
  <2>1. ~IsText(r) /\ String(r) = Fail(Empty, "type")
    BY <1>1 DEF IsText, String, Helper
  <2> QED
    BY <2>1 DEF Fail
<1>2. CASE IsText(r)
  <2>1. String(r) = Ok(r.text)
    BY <1>2 DEF IsText, String, Helper
  <2> QED
    BY <1>2, <2>1 DEF Ok
<1>3. CASE r.go # "int64" /\ ~IsText(r)
  <2>1. String(r).err \in {"nodata", "type"}
    BY <1>3 DEF String, Helper, Fail
  <2> QED
    BY <1>3, <2>1
<1> QED
  BY <1>1, <1>2, <1>3

\* The odd positions of a list of even length are the first ones of its pairs.
Odd(l) == {i \in 1..l : i % 2 = 1}

LEMMA OddPositions ==
  ASSUME NEW l \in Nat, l % 2 = 0
  PROVE  /\ l \div 2 \in Nat
         /\ \A p \in 1..(l \div 2) : /\ 2 * p - 1 \in Odd(l) /\ 2 * p \in 1..l
                                     /\ (2 * p - 1) + 1 = 2 * p
         /\ \A i \in Odd(l) : \E p \in 1..(l \div 2) : i = 2 * p - 1
<1>1. PICK n \in Nat : l = 2 * n /\ l \div 2 = n
  <2>1. l \div 2 \in Nat /\ l = 2 * (l \div 2)
    OBVIOUS
  <2> QED
    BY <2>1
<1>2. ASSUME NEW p \in 1..n
      PROVE  2 * p - 1 \in Odd(l) /\ 2 * p \in 1..l /\ (2 * p - 1) + 1 = 2 * p
  <2>1. (2 * p - 1) % 2 = 1
    OBVIOUS
  <2> QED
    BY <1>1, <2>1 DEF Odd
<1>3. ASSUME NEW i \in Odd(l) PROVE \E p \in 1..n : i = 2 * p - 1
  <2>1. i \in 1..l /\ i % 2 = 1
    BY DEF Odd
  <2>2. (i + 1) \div 2 \in 1..n /\ i = 2 * ((i + 1) \div 2) - 1
    BY <1>1, <2>1
  <2> QED
    BY <2>2
<1> QED
  BY <1>1, <1>2, <1>3

\* m is the map of the keys and values: the last of the pairs with a key wins.
LastWins(m, n, key, value) ==
  /\ m.err = "none" <=> \A p \in 1..n : key[p].err = "none" /\ value[p].err = "none"
  /\ m.err = "none" =>
       \A p \in 1..n : \E q \in 1..n :
         /\ key[q].v = key[p].v /\ m.v[key[p].v] = value[q].v
         /\ \A h \in 1..n : key[h].v = key[p].v => h <= q

LEMMA Joined ==
  ASSUME NEW n \in Nat, NEW key, DOMAIN key = 1..n, NEW value, DOMAIN value = 1..n
  PROVE  LastWins(Join(key, value), n, key, value)
<1> DEFINE same(x) == {i \in 1..n : key[i].v = x}
           v == [x \in {key[p].v : p \in 1..n} |-> value[Max(same(x))].v]
<1>1. CASE \E p \in 1..n : key[p].err # "none" \/ value[p].err # "none"
  <2>1. Join(key, value) = Fail(<<>>, "pair")
    BY <1>1 DEF Join
  <2> QED
    BY <1>1, <2>1 DEF Fail, LastWins
<1>2. CASE \A p \in 1..n : key[p].err = "none" /\ value[p].err = "none"
  <2>1. Join(key, value) = Ok(v)
    BY <1>2 DEF Join
  <2>2. Join(key, value).v = v /\ Join(key, value).err = "none"
    BY <2>1 DEF Ok
  <2>3. ASSUME NEW p \in 1..n
        PROVE  \E q \in 1..n : /\ key[q].v = key[p].v /\ v[key[p].v] = value[q].v
                               /\ \A h \in 1..n : key[h].v = key[p].v => h <= q
    <3> DEFINE S == same(key[p].v)
    <3>1. p \in S /\ S \subseteq 1..n
      OBVIOUS
    <3>2. S \subseteq 0..n /\ S # {}
      BY <3>1
    <3>3. v[key[p].v] = value[Max(S)].v
      OBVIOUS
    <3>4. Max(S) \in S /\ \A y \in S : y <= Max(S)
      <4> HIDE DEF S
      <4> QED
        BY <3>2, MaxIsGreatest
    <3>5. Max(S) \in 1..n /\ key[Max(S)].v = key[p].v
      BY <3>4
    <3>6. \A h \in 1..n : key[h].v = key[p].v => h <= Max(S)
      BY <3>4
    <3> QED
      BY <3>3, <3>5, <3>6
  <2> HIDE DEF v
  <2> QED
    BY <1>2, <2>2, <2>3 DEF LastWins
<1> QED
  BY <1>1, <1>2

\* PairMap over a list e, one being what the helper makes of each element.
Paired(e, one) ==
  IF Len(e) % 2 # 0 THEN Fail(<<>>, "odd")
  ELSE Join([i \in 1..(Len(e) \div 2) |-> String(e[2 * i - 1])],
            [i \in 1..(Len(e) \div 2) |-> one[2 * i]])

\* The map m of the pairs in e is accepted as they are, and agrees with them.
PairsAgree(m, e, one) ==
  /\ m.err = "none" <=>
       /\ Len(e) % 2 = 0
       /\ \A i \in Odd(Len(e)) : String(e[i]).err = "none" /\ one[i + 1].err = "none"
  /\ m.err = "none" =>
       \A k \in Odd(Len(e)) : \E i \in Odd(Len(e)) :
         /\ e[i].text = e[k].text /\ m.v[e[k].text] = one[i + 1].v
         /\ \A j \in Odd(Len(e)) : e[j].text = e[k].text => j <= i

LEMMA PairsFine ==
  ASSUME NEW e \in Seq(Reply), NEW one, NEW whole, whole = Paired(e, one)
  PROVE  PairsAgree(whole, e, one)
<1> DEFINE l == Len(e)
           n == l \div 2
           key == [i \in 1..n |-> String(e[2 * i - 1])]
           value == [i \in 1..n |-> one[2 * i]]
<1>1. l \in Nat
  BY LenProperties
<1>2. CASE l % 2 # 0
  <2>1. whole.err = "odd"
    BY <1>2 DEF Paired, Fail
  <2> QED
    BY <1>2, <2>1 DEF PairsAgree
<1>3. CASE ~(l % 2 # 0)
  <2>1. whole = Join(key, value)
    BY <1>3 DEF Paired
  <2>2. /\ n \in Nat
        /\ \A p \in 1..n : 2 * p - 1 \in Odd(l) /\ (2 * p - 1) + 1 = 2 * p
        /\ \A i \in Odd(l) : \E p \in 1..n : i = 2 * p - 1
    BY <1>1, <1>3, OddPositions
  <2>3. DOMAIN key = 1..n /\ DOMAIN value = 1..n
    OBVIOUS
  <2>4. \A p \in 1..n : key[p] = String(e[2 * p - 1]) /\ value[p] = one[(2 * p - 1) + 1]
    BY <2>2
  <2> HIDE DEF key, value, n
  <2>5. LastWins(whole, n, key, value)
    BY <2>1, <2>2, <2>3, Joined
  <2>6. whole.err = "none" <=>
          \A i \in Odd(l) : String(e[i]).err = "none" /\ one[i + 1].err = "none"
    <3>1. (\A p \in 1..n : key[p].err = "none" /\ value[p].err = "none") <=>
            \A i \in Odd(l) : String(e[i]).err = "none" /\ one[i + 1].err = "none"
      <4>1. ASSUME \A p \in 1..n : key[p].err = "none" /\ value[p].err = "none",
                   NEW i \in Odd(l)
            PROVE  String(e[i]).err = "none" /\ one[i + 1].err = "none"
        <5>1. PICK p \in 1..n : i = 2 * p - 1
          BY <2>2
        <5> QED
          BY <2>4, <4>1, <5>1
      <4>2. ASSUME \A i \in Odd(l) : String(e[i]).err = "none" /\ one[i + 1].err = "none",
                   NEW p \in 1..n
            PROVE  key[p].err = "none" /\ value[p].err = "none"
        BY <2>2, <2>4, <4>2
      <4> QED
        BY <4>1, <4>2
    <3> QED
      BY <2>5, <3>1 DEF LastWins
  <2>7. ASSUME whole.err = "none", NEW k \in Odd(l)
        PROVE  \E i \in Odd(l) :
                 /\ e[i].text = e[k].text /\ whole.v[e[k].text] = one[i + 1].v
                 /\ \A j \in Odd(l) : e[j].text = e[k].text => j <= i
    <3>1. \A i \in Odd(l) : String(e[i]).v = e[i].text
      BY <2>6, <2>7, StringIs
    <3>2. PICK p \in 1..n : k = 2 * p - 1
      BY <2>2
    <3>3. PICK q \in 1..n :
            /\ key[q].v = key[p].v /\ whole.v[key[p].v] = value[q].v
            /\ \A h \in 1..n : key[h].v = key[p].v => h <= q
      BY <2>5, <2>7 DEF LastWins
    <3>4. \A h \in 1..n : key[h].v = e[2 * h - 1].text
      BY <2>2, <2>4, <3>1
    <3>5. /\ 2 * q - 1 \in Odd(l) /\ e[2 * q - 1].text = e[k].text
          /\ whole.v[e[k].text] = one[(2 * q - 1) + 1].v
      BY <2>2, <2>4, <3>2, <3>3, <3>4
    <3>6. ASSUME NEW j \in Odd(l), e[j].text = e[k].text PROVE j <= 2 * q - 1
      <4>1. PICK h \in 1..n : j = 2 * h - 1
        BY <2>2
      <4>2. h <= q
        BY <3>2, <3>3, <3>4, <3>6, <4>1
      <4> QED
        BY <2>2, <4>1, <4>2
    <3> QED
      BY <3>5, <3>6
  <2> QED
    BY <1>3, <2>6, <2>7 DEF PairsAgree
<1> QED
  BY <1>2, <1>3

LEMMA MapsAccept ==
  ASSUME NEW r \in Reply, r.go = "array"
  PROVE  /\ AcceptsPairs(StringMap(r), r, String)
         /\ AcceptsPairs(IntMap(r), r, ReplyInt)
         /\ AcceptsPairs(Int64Map(r), r, Int64)
         /\ AcceptsPairs(Float64Map(r), r, Float64)
<1> DEFINE n == Len(r.e)
<1>1. /\ n \in Nat /\ DOMAIN r.e = 1..n /\ r.e \in Seq(Reply) /\ Values(r).err = "none"
  BY ArrayIs DEF Ok
<1>2. AcceptsPairs(StringMap(r), r, String)
  <2> DEFINE one == [i \in 1..n |-> String(r.e[i])]
  <2>1. StringMap(r) = Paired(r.e, one)
    <3>1. n % 2 = 0 => \A p \in 1..(n \div 2) : 2 * p \in 1..n
      BY <1>1, OddPositions
    <3> QED
      BY <1>1, <3>1 DEF StringMap, PairMap, Paired
  <2>2. n % 2 = 0 => \A i \in Odd(n) : one[i + 1] = String(r.e[i + 1])
    <3>1. n % 2 = 0 => \A i \in Odd(n) : i + 1 \in 1..n
      <4>1. ASSUME n % 2 = 0, NEW i \in Odd(n) PROVE i + 1 \in 1..n
        <5>1. PICK p \in 1..(n \div 2) : i = 2 * p - 1
          BY <1>1, <4>1, OddPositions
        <5> QED
          BY <1>1, <4>1, <5>1, OddPositions
      <4> QED
        BY <4>1
    <3> QED
      BY <3>1
  <2>3. PairsAgree(StringMap(r), r.e, one)
    <3> HIDE DEF one
    <3> QED
      BY <1>1, <2>1, PairsFine
  <2> HIDE DEF one
  <2> DEFINE odd == {i \in DOMAIN r.e : i % 2 = 1}
  <2>4. odd = Odd(n)
    BY <1>1 DEF Odd
  <2> HIDE DEF odd
  <2>5. StringMap(r).err = "none" <=>
          n % 2 = 0 /\ \A i \in odd : String(r.e[i]).err = "none" /\ String(r.e[i + 1]).err = "none"
    BY <2>2, <2>3, <2>4 DEF PairsAgree
  <2>6. ASSUME StringMap(r).err = "none", NEW k \in odd
        PROVE  \E i \in odd : /\ r.e[i].text = r.e[k].text
                              /\ StringMap(r).v[r.e[k].text] = String(r.e[i + 1]).v
                              /\ \A j \in odd : r.e[j].text = r.e[k].text => j <= i
    <3>1. PICK i \in Odd(n) :
            /\ r.e[i].text = r.e[k].text /\ StringMap(r).v[r.e[k].text] = one[i + 1].v
            /\ \A j \in Odd(n) : r.e[j].text = r.e[k].text => j <= i
      BY <2>3, <2>4, <2>6 DEF PairsAgree
    <3>2. one[i + 1] = String(r.e[i + 1])
      BY <2>2, <2>4, <2>5, <2>6
    <3> QED
      BY <2>4, <3>1, <3>2
  <2> QED
    BY <2>5, <2>6 DEF AcceptsPairs, odd
<1>3. AcceptsPairs(IntMap(r), r, ReplyInt)
  <2> DEFINE one == [i \in 1..n |-> ReplyInt(r.e[i])]
  <2>1. IntMap(r) = Paired(r.e, one)
    <3>1. n % 2 = 0 => \A p \in 1..(n \div 2) : 2 * p \in 1..n
      BY <1>1, OddPositions
    <3> QED
      BY <1>1, <3>1 DEF IntMap, PairMap, Paired
  <2>2. n % 2 = 0 => \A i \in Odd(n) : one[i + 1] = ReplyInt(r.e[i + 1])
    <3>1. n % 2 = 0 => \A i \in Odd(n) : i + 1 \in 1..n
      <4>1. ASSUME n % 2 = 0, NEW i \in Odd(n) PROVE i + 1 \in 1..n
        <5>1. PICK p \in 1..(n \div 2) : i = 2 * p - 1
          BY <1>1, <4>1, OddPositions
        <5> QED
          BY <1>1, <4>1, <5>1, OddPositions
      <4> QED
        BY <4>1
    <3> QED
      BY <3>1
  <2>3. PairsAgree(IntMap(r), r.e, one)
    <3> HIDE DEF one
    <3> QED
      BY <1>1, <2>1, PairsFine
  <2> HIDE DEF one
  <2> DEFINE odd == {i \in DOMAIN r.e : i % 2 = 1}
  <2>4. odd = Odd(n)
    BY <1>1 DEF Odd
  <2> HIDE DEF odd
  <2>5. IntMap(r).err = "none" <=>
          /\ n % 2 = 0
          /\ \A i \in odd : /\ String(r.e[i]).err = "none"
                            /\ ReplyInt(r.e[i + 1]).err = "none"
    BY <2>2, <2>3, <2>4 DEF PairsAgree
  <2>6. ASSUME IntMap(r).err = "none", NEW k \in odd
        PROVE  \E i \in odd : /\ r.e[i].text = r.e[k].text
                              /\ IntMap(r).v[r.e[k].text] = ReplyInt(r.e[i + 1]).v
                              /\ \A j \in odd : r.e[j].text = r.e[k].text => j <= i
    <3>1. PICK i \in Odd(n) :
            /\ r.e[i].text = r.e[k].text /\ IntMap(r).v[r.e[k].text] = one[i + 1].v
            /\ \A j \in Odd(n) : r.e[j].text = r.e[k].text => j <= i
      BY <2>3, <2>4, <2>6 DEF PairsAgree
    <3>2. one[i + 1] = ReplyInt(r.e[i + 1])
      BY <2>2, <2>4, <2>5, <2>6
    <3> QED
      BY <2>4, <3>1, <3>2
  <2> QED
    BY <2>5, <2>6 DEF AcceptsPairs, odd
<1>4. AcceptsPairs(Int64Map(r), r, Int64)
  <2> DEFINE one == [i \in 1..n |-> Int64(r.e[i])]
  <2>1. Int64Map(r) = Paired(r.e, one)
    <3>1. n % 2 = 0 => \A p \in 1..(n \div 2) : 2 * p \in 1..n
      BY <1>1, OddPositions
    <3> QED
      BY <1>1, <3>1 DEF Int64Map, PairMap, Paired
  <2>2. n % 2 = 0 => \A i \in Odd(n) : one[i + 1] = Int64(r.e[i + 1])
    <3>1. n % 2 = 0 => \A i \in Odd(n) : i + 1 \in 1..n
      <4>1. ASSUME n % 2 = 0, NEW i \in Odd(n) PROVE i + 1 \in 1..n
        <5>1. PICK p \in 1..(n \div 2) : i = 2 * p - 1
          BY <1>1, <4>1, OddPositions
        <5> QED
          BY <1>1, <4>1, <5>1, OddPositions
      <4> QED
        BY <4>1
    <3> QED
      BY <3>1
  <2>3. PairsAgree(Int64Map(r), r.e, one)
    <3> HIDE DEF one
    <3> QED
      BY <1>1, <2>1, PairsFine
  <2> HIDE DEF one
  <2> DEFINE odd == {i \in DOMAIN r.e : i % 2 = 1}
  <2>4. odd = Odd(n)
    BY <1>1 DEF Odd
  <2> HIDE DEF odd
  <2>5. Int64Map(r).err = "none" <=>
          n % 2 = 0 /\ \A i \in odd : String(r.e[i]).err = "none" /\ Int64(r.e[i + 1]).err = "none"
    BY <2>2, <2>3, <2>4 DEF PairsAgree
  <2>6. ASSUME Int64Map(r).err = "none", NEW k \in odd
        PROVE  \E i \in odd : /\ r.e[i].text = r.e[k].text
                              /\ Int64Map(r).v[r.e[k].text] = Int64(r.e[i + 1]).v
                              /\ \A j \in odd : r.e[j].text = r.e[k].text => j <= i
    <3>1. PICK i \in Odd(n) :
            /\ r.e[i].text = r.e[k].text /\ Int64Map(r).v[r.e[k].text] = one[i + 1].v
            /\ \A j \in Odd(n) : r.e[j].text = r.e[k].text => j <= i
      BY <2>3, <2>4, <2>6 DEF PairsAgree
    <3>2. one[i + 1] = Int64(r.e[i + 1])
      BY <2>2, <2>4, <2>5, <2>6
    <3> QED
      BY <2>4, <3>1, <3>2
  <2> QED
    BY <2>5, <2>6 DEF AcceptsPairs, odd
<1>5. AcceptsPairs(Float64Map(r), r, Float64)
  <2> DEFINE one == [i \in 1..n |-> Float64(r.e[i])]
  <2>1. Float64Map(r) = Paired(r.e, one)
    <3>1. n % 2 = 0 => \A p \in 1..(n \div 2) : 2 * p \in 1..n
      BY <1>1, OddPositions
    <3> QED
      BY <1>1, <3>1 DEF Float64Map, PairMap, Paired
  <2>2. n % 2 = 0 => \A i \in Odd(n) : one[i + 1] = Float64(r.e[i + 1])
    <3>1. n % 2 = 0 => \A i \in Odd(n) : i + 1 \in 1..n
      <4>1. ASSUME n % 2 = 0, NEW i \in Odd(n) PROVE i + 1 \in 1..n
        <5>1. PICK p \in 1..(n \div 2) : i = 2 * p - 1
          BY <1>1, <4>1, OddPositions
        <5> QED
          BY <1>1, <4>1, <5>1, OddPositions
      <4> QED
        BY <4>1
    <3> QED
      BY <3>1
  <2>3. PairsAgree(Float64Map(r), r.e, one)
    <3> HIDE DEF one
    <3> QED
      BY <1>1, <2>1, PairsFine
  <2> HIDE DEF one
  <2> DEFINE odd == {i \in DOMAIN r.e : i % 2 = 1}
  <2>4. odd = Odd(n)
    BY <1>1 DEF Odd
  <2> HIDE DEF odd
  <2>5. Float64Map(r).err = "none" <=>
          /\ n % 2 = 0
          /\ \A i \in odd : /\ String(r.e[i]).err = "none"
                            /\ Float64(r.e[i + 1]).err = "none"
    BY <2>2, <2>3, <2>4 DEF PairsAgree
  <2>6. ASSUME Float64Map(r).err = "none", NEW k \in odd
        PROVE  \E i \in odd : /\ r.e[i].text = r.e[k].text
                              /\ Float64Map(r).v[r.e[k].text] = Float64(r.e[i + 1]).v
                              /\ \A j \in odd : r.e[j].text = r.e[k].text => j <= i
    <3>1. PICK i \in Odd(n) :
            /\ r.e[i].text = r.e[k].text /\ Float64Map(r).v[r.e[k].text] = one[i + 1].v
            /\ \A j \in Odd(n) : r.e[j].text = r.e[k].text => j <= i
      BY <2>3, <2>4, <2>6 DEF PairsAgree
    <3>2. one[i + 1] = Float64(r.e[i + 1])
      BY <2>2, <2>4, <2>5, <2>6
    <3> QED
      BY <2>4, <3>1, <3>2
  <2> QED
    BY <2>5, <2>6 DEF AcceptsPairs, odd
<1> QED
  BY <1>2, <1>3, <1>4, <1>5

\* f lists the members of S, each once.
Lists(f, S) ==
  /\ DOMAIN f = 1..Cardinality(S)
  /\ \A j \in DOMAIN f : f[j] \in S
  /\ \A j, k \in DOMAIN f : f[j] = f[k] => j = k
  /\ \A i \in S : \E j \in DOMAIN f : f[j] = i

\* Counting the smaller members tells the members of a set of numbers apart, and
\* takes each value up to their number.
LEMMA RisingLists ==
  ASSUME NEW n \in Nat, NEW S, S \subseteq 1..n
  PROVE  Lists(Rising(S), S)
<1> DEFINE c == Cardinality(S)
           upTo(i) == {h \in S : h <= i}
           rank == [i \in S |-> Cardinality(upTo(i))]
           f == Rising(S)
<1>1. IsFiniteSet(S) /\ c \in Nat
  <2>1. IsFiniteSet(1..n)
    BY FS_Interval
  <2>2. IsFiniteSet(S)
    BY <2>1, FS_Subset
  <2> QED
    BY <2>2, FS_CardinalityType
<1>2. ASSUME NEW i \in S
      PROVE  IsFiniteSet(upTo(i)) /\ Cardinality(upTo(i)) \in 1..c
  <2>1. upTo(i) \in SUBSET S /\ i \in upTo(i)
    OBVIOUS
  <2> HIDE DEF upTo
  <2>2. IsFiniteSet(upTo(i)) /\ Cardinality(upTo(i)) <= c
    BY <1>1, <2>1, FS_Subset
  <2>3. Cardinality(upTo(i)) \in Nat /\ Cardinality(upTo(i)) # 0
    BY <2>1, <2>2, FS_CardinalityType, FS_EmptySet
  <2> QED
    BY <1>1, <2>2, <2>3
<1>3. ASSUME NEW i \in S, NEW j \in S, i < j
      PROVE  Cardinality(upTo(i)) # Cardinality(upTo(j))
  <2>1. upTo(i) \in SUBSET upTo(j) /\ j \in upTo(j) /\ j \notin upTo(i)
    <3>1. \A h \in S : h \in Int
      OBVIOUS
    <3>2. \A h \in S : h <= i => h <= j
      BY <1>3, <3>1
    <3>3. j <= j /\ ~(j <= i)
      BY <1>3, <3>1
    <3> QED
      BY <3>2, <3>3, Zenon
  <2> HIDE DEF upTo
  <2> QED
    BY <1>2, <2>1, FS_Subset
<1>4. \A i, j \in S : Cardinality(upTo(i)) = Cardinality(upTo(j)) => i = j
  <2>1. \A i, j \in S : i < j \/ i = j \/ j < i
    OBVIOUS
  <2> HIDE DEF upTo
  <2> QED
    BY <1>3, <2>1
<1>5. rank \in Surjection(S, 1..c)
  <2>1. rank \in Injection(S, 1..c)
    <3> HIDE DEF upTo, c
    <3>1. rank \in [S -> 1..c]
      BY <1>2
    <3>2. \A i, j \in S : rank[i] = rank[j] => i = j
      BY <1>4
    <3> QED
      BY <3>1, <3>2 DEF Injection, IsInjective
  <2>2. IsFiniteSet(1..c) /\ Cardinality(1..c) = c
    BY <1>1, FS_Interval
  <2> HIDE DEF rank
  <2> QED
    BY <2>1, <2>2, FS_Injection
<1>6. \A j \in 1..c : \E i \in S : Cardinality(upTo(i)) = j
  <2> HIDE DEF upTo, c
  <2> QED
    BY <1>5 DEF Surjection
<1>7. DOMAIN f = 1..c /\ \A j \in 1..c : f[j] \in S /\ Cardinality(upTo(f[j])) = j
  <2>1. f = [j \in 1..c |-> CHOOSE i \in S : Cardinality(upTo(i)) = j]
    BY DEF Rising
  <2> HIDE DEF f, upTo, c
  <2> QED
    BY <1>6, <2>1
<1> HIDE DEF f, upTo, c
<1>8. \A i \in S : \E j \in DOMAIN f : f[j] = i
  <2>1. ASSUME NEW i \in S PROVE f[Cardinality(upTo(i))] = i
    BY <1>2, <1>4, <1>7
  <2> QED
    BY <1>2, <1>7, <2>1
<1> QED
  BY <1>7, <1>8 DEF Lists, f, c

\* The positions at which f has a member of P.
Where(f, P) == {j \in DOMAIN f : f[j] \in P}

\* The positions at which a listing of S has a property are as many as the members
\* that have it.
LEMMA SameCount ==
  ASSUME NEW n \in Nat, NEW S, S \subseteq 1..n, NEW f, Lists(f, S),
         NEW P, P \subseteq S
  PROVE  IsFiniteSet(P) /\ Cardinality(Where(f, P)) = Cardinality(P)
<1> DEFINE J == Where(f, P)
           g == [j \in J |-> f[j]]
<1>1. g \in Injection(J, P)
  <2>1. g \in [J -> P]
    BY DEF Where
  <2>2. \A j, k \in J : g[j] = g[k] => j = k
    BY DEF Lists, Where
  <2> HIDE DEF g
  <2> QED
    BY <2>1, <2>2 DEF Injection, IsInjective
<1>2. g \in Surjection(J, P)
  <2>1. g \in [J -> P]
    BY DEF Where
  <2>2. \A i \in P : \E j \in J : g[j] = i
    BY DEF Lists, Where
  <2> HIDE DEF g
  <2> QED
    BY <2>1, <2>2 DEF Surjection
<1>3. IsFiniteSet(P)
  <2>1. IsFiniteSet(1..n) /\ P \in SUBSET (1..n)
    BY FS_Interval
  <2> QED
    BY <2>1, FS_Subset
<1> HIDE DEF g, J
<1> QED
  BY <1>1, <1>2, <1>3, FS_Injection DEF J

\* A list by score keeps the members of each.
LEMMA MembersKept ==
  ASSUME NEW r \in Reply, r.go = "array"
  PROVE  KeepsMembers(Int64StringMapSlice(r), r)
<1> DEFINE e == r.e
           l == Len(e)
           n == l \div 2
           member == [i \in 1..n |-> String(e[2 * i - 1])]
           score == [i \in 1..n |-> Int64(e[2 * i])]
           S(s) == {i \in 1..n : score[i].v = s}
           whole == Int64StringMapSlice(r)
           v == [s \in {score[i].v : i \in 1..n} |->
                   [j \in DOMAIN Rising(S(s)) |-> member[Rising(S(s))[j]].v]]
           odd == {i \in DOMAIN e : i % 2 = 1}
<1>1. l \in Nat /\ DOMAIN e = 1..l
  BY ArrayIs
<1>2. ASSUME whole.err = "none"
      PROVE  /\ l % 2 = 0 /\ whole.v = v
             /\ \A i \in 1..n : member[i].err = "none"
  <2>1. whole =
          IF l % 2 # 0 THEN Fail(<<>>, "odd")
          ELSE IF \E i \in 1..n : member[i].err # "none" \/ score[i].err # "none"
               THEN Fail(<<>>, "pair")
          ELSE Ok(v)
    BY DEF Int64StringMapSlice
  <2> HIDE DEF whole, member, score, v, n
  <2>2. ~(l % 2 # 0)
    BY <1>2, <2>1 DEF Fail
  <2>3. ~(\E i \in 1..n : member[i].err # "none" \/ score[i].err # "none")
    BY <1>2, <2>1, <2>2 DEF Fail
  <2>4. whole = Ok(v)
    BY <1>2, <2>1, <2>2, <2>3 DEF Fail
  <2> QED
    BY <2>2, <2>3, <2>4 DEF Ok
<1>3. ASSUME whole.err = "none", NEW s \in DOMAIN whole.v, NEW x
      PROVE  Cardinality({j \in DOMAIN whole.v[s] : whole.v[s][j] = x})
               = Cardinality({i \in odd : e[i].text = x /\ Int64(e[i + 1]).v = s})
  <2> DEFINE f == Rising(S(s))
             P == {p \in S(s) : member[p].v = x}
             I == {i \in odd : e[i].text = x /\ Int64(e[i + 1]).v = s}
             J == {j \in DOMAIN whole.v[s] : whole.v[s][j] = x}
  <2>1. /\ n \in Nat /\ odd = Odd(l)
        /\ \A p \in 1..n : 2 * p - 1 \in Odd(l) /\ (2 * p - 1) + 1 = 2 * p
        /\ \A i \in Odd(l) : \E p \in 1..n : i = 2 * p - 1
    <3>1. odd = Odd(l)
      BY <1>1 DEF Odd
    <3> HIDE DEF odd
    <3> QED
      BY <1>1, <1>2, <1>3, <3>1, OddPositions
  <2>2. Lists(f, S(s))
    BY <2>1, RisingLists
  <2>3. /\ DOMAIN whole.v[s] = DOMAIN f
        /\ \A j \in DOMAIN f : whole.v[s][j] = member[f[j]].v
    <3>1. whole.v = v /\ s \in DOMAIN v
      BY <1>2, <1>3
    <3>2. v[s] = [j \in DOMAIN f |-> member[f[j]].v]
      BY <3>1
    <3> HIDE DEF f, v, member, whole
    <3> QED
      BY <3>1, <3>2
  <2>4. J = Where(f, P)
    <3>1. \A j \in DOMAIN f : f[j] \in S(s)
      BY <2>2 DEF Lists
    <3> HIDE DEF f, member, S
    <3> QED
      BY <2>3, <3>1 DEF Where
  <2>5. IsFiniteSet(P) /\ Cardinality(J) = Cardinality(P)
    <3>1. S(s) \subseteq 1..n /\ P \subseteq S(s)
      OBVIOUS
    <3> HIDE DEF S, P, J, f, n
    <3> QED
      BY <2>1, <2>2, <2>4, <3>1, SameCount
  <2>6. Cardinality(I) = Cardinality(P)
    <3> DEFINE g == [p \in P |-> 2 * p - 1]
    <3>1. \A p \in 1..n : member[p].v = e[2 * p - 1].text /\ score[p] = Int64(e[(2 * p - 1) + 1])
      BY <1>2, <1>3, <2>1, StringIs
    <3>2. \A p \in 1..n : p \in P <=> 2 * p - 1 \in I
      BY <2>1, <3>1
    <3>3. P \subseteq 1..n /\ I \subseteq Odd(l)
      BY <2>1
    <3> HIDE DEF P, I, n
    <3>4. g \in Bijection(P, I)
      <4>1. g \in [P -> I]
        BY <3>2, <3>3
      <4>2. \A p, q \in P : g[p] = g[q] => p = q
        BY <2>1, <3>3
      <4>3. \A i \in I : \E p \in P : g[p] = i
        BY <2>1, <3>2, <3>3
      <4> HIDE DEF g
      <4> QED
        BY <4>1, <4>2, <4>3 DEF Bijection, Injection, Surjection, IsInjective
    <3> QED
      BY <2>5, <3>4, FS_Bijection DEF ExistsBijection
  <2> QED
    BY <2>5, <2>6
<1> HIDE DEF whole
<1> QED
  BY <1>3 DEF KeepsMembers, whole

Parts == {"name", "distance", "hash", "point"}

\* One more item puts its own part and leaves the others.
Puts(new, loc, item) ==
  /\ DOMAIN new = Parts
  /\ new.name = loc.name
  /\ new.hash = IF item.go = "int64" THEN <<item.n>> ELSE loc.hash
  /\ new.distance = IF item.go = "string" THEN <<item.text>> ELSE loc.distance
  /\ new.point = IF item.go = "array" THEN <<convertToGeoGeoPoint(item).v>> ELSE loc.point

LEMMA GeoItemPuts ==
  ASSUME NEW loc, NEW item, GeoItem(loc, item).err = "none"
  PROVE  /\ loc.err = "none"
         /\ DOMAIN loc.v = Parts => Puts(GeoItem(loc, item).v, loc.v, item)
<1> DEFINE new == GeoItem(loc, item)
<1>1. loc.err = "none"
  BY DEF GeoItem
<1>2. CASE item.go = "int64"
  <2>1. Int64(item) = Ok(item.n)
    BY <1>2 DEF Int64, Helper, IsText
  <2>2. new = Ok([loc.v EXCEPT !["hash"] = <<item.n>>])
    BY <1>1, <1>2, <2>1 DEF GeoItem, Ok
  <2> QED
    BY <1>1, <1>2, <2>2 DEF Puts, Parts, Ok
<1>3. CASE item.go = "string"
  <2>1. Float64(item) = ParseFloat(item.text)
    BY <1>3 DEF Float64, Helper, IsText
  <2>2. new = IF Float64(item).err # "none" THEN Fail(loc.v, Float64(item).err)
              ELSE Ok([loc.v EXCEPT !["distance"] = <<Float64(item).v>>])
    BY <1>1, <1>3 DEF GeoItem
  <2>3. Float64(item).err = "none"
    BY <2>2 DEF Fail
  <2>4. Float64(item).v = item.text
    BY <2>1, <2>3 DEF ParseFloat, Ok, Fail
  <2>5. new = Ok([loc.v EXCEPT !["distance"] = <<item.text>>])
    BY <2>2, <2>3, <2>4
  <2> QED
    BY <1>1, <1>3, <2>5 DEF Puts, Parts, Ok
<1>4. CASE item.go = "array"
  <2> DEFINE point == convertToGeoGeoPoint(item)
  <2>1. new = IF point.err # "none" THEN Fail(loc.v, point.err)
              ELSE Ok([loc.v EXCEPT !["point"] = <<point.v>>])
    BY <1>1, <1>4 DEF GeoItem
  <2> HIDE DEF point
  <2>2. new = Ok([loc.v EXCEPT !["point"] = <<point.v>>])
    BY <2>1 DEF Fail
  <2> QED
    BY <1>1, <1>4, <2>2 DEF Puts, Parts, Ok, point
<1>5. CASE item.go \notin {"int64", "string", "array"}
  <2>1. new = loc
    BY <1>1, <1>5 DEF GeoItem
  <2> QED
    BY <1>1, <1>5, <2>1 DEF Puts
<1> QED
  BY <1>2, <1>3, <1>4, <1>5

\* A location has the name and the last item of each type.
LEMMA LocationKept ==
  ASSUME NEW r \in Reply, convertToGeoLocation(r).err = "none"
  PROVE  /\ Len(r.e) \in 1..4
         /\ convertToGeoLocation(r).v.name = r.e[1].text
         /\ \A j \in 2..Len(r.e) :
              (\A h \in (j + 1)..Len(r.e) : r.e[h].go # r.e[j].go) =>
                /\ r.e[j].go = "int64" => convertToGeoLocation(r).v.hash = <<r.e[j].n>>
                /\ r.e[j].go = "string" => convertToGeoLocation(r).v.distance = <<r.e[j].text>>
                /\ r.e[j].go = "array" =>
                     convertToGeoLocation(r).v.point = <<convertToGeoGeoPoint(r.e[j]).v>>
<1> DEFINE e == Values(r).v
           l == Len(e)
           With(loc, j) == IF j <= l THEN GeoItem(loc, e[j]) ELSE loc
           a1 == IF String(e[1]).err # "none" THEN Fail(<<>>, String(e[1]).err)
                 ELSE Ok([name |-> String(e[1]).v, distance |-> <<>>,
                          hash |-> <<>>, point |-> <<>>])
           a2 == With(a1, 2)
           a3 == With(a2, 3)
           a4 == With(a3, 4)
<1>1. convertToGeoLocation(r) =
        IF Values(r).err # "none" THEN Values(r)
        ELSE IF l \notin 1..4 THEN Fail(<<>>, "length")
        ELSE a4
  BY DEF convertToGeoLocation
<1> HIDE DEF a1, a2, a3, a4
<1>2. Values(r).err = "none"
  BY <1>1
<1>3. r.go = "array" /\ e = r.e /\ r.e \in Seq(Reply)
  <2>1. r.go = "array"
    BY <1>2 DEF Values, Fail
  <2> QED
    BY <2>1, ArrayIs DEF Ok
<1>4. l \in 1..4 /\ convertToGeoLocation(r) = a4 /\ a4.err = "none"
  <2>1. l \in 1..4
    BY <1>1, <1>2 DEF Fail
  <2> QED
    BY <1>1, <1>2, <2>1
<1> HIDE DEF e
<1>5. ASSUME NEW new, NEW loc, NEW j \in 2..4, new = With(loc, j), new.err = "none"
      PROVE  /\ loc.err = "none"
             /\ DOMAIN loc.v = Parts =>
                  IF j <= l THEN Puts(new.v, loc.v, e[j]) ELSE new.v = loc.v
  BY <1>5, GeoItemPuts
<1>6. a4 = With(a3, 4) /\ a3 = With(a2, 3) /\ a2 = With(a1, 2)
  BY DEF a4, a3, a2
<1> HIDE DEF With
<1>7. a3.err = "none" /\ a2.err = "none" /\ a1.err = "none"
  <2>1. a3.err = "none"
    BY <1>4, <1>5, <1>6
  <2>2. a2.err = "none"
    BY <2>1, <1>5, <1>6
  <2> QED
    BY <2>1, <2>2, <1>5, <1>6
<1>8. DOMAIN a1.v = Parts /\ a1.v.name = e[1].text
  <2>1. String(e[1]).err = "none"
    BY <1>7 DEF a1, Fail
  <2>2. a1.v = [name |-> String(e[1]).v, distance |-> <<>>, hash |-> <<>>, point |-> <<>>]
    BY <2>1 DEF a1, Ok
  <2> QED
    BY <2>1, <2>2, StringIs DEF Parts
<1>9. /\ DOMAIN a2.v = Parts
      /\ IF 2 <= l THEN Puts(a2.v, a1.v, e[2]) ELSE a2.v = a1.v
  <2>1. IF 2 <= l THEN Puts(a2.v, a1.v, e[2]) ELSE a2.v = a1.v
    BY <1>5, <1>6, <1>7, <1>8
  <2> QED
    BY <1>8, <2>1 DEF Puts
<1>10. /\ DOMAIN a3.v = Parts
       /\ IF 3 <= l THEN Puts(a3.v, a2.v, e[3]) ELSE a3.v = a2.v
  <2>1. IF 3 <= l THEN Puts(a3.v, a2.v, e[3]) ELSE a3.v = a2.v
    BY <1>5, <1>6, <1>7, <1>9
  <2> QED
    BY <1>9, <2>1 DEF Puts
<1>11. IF 4 <= l THEN Puts(a4.v, a3.v, e[4]) ELSE a4.v = a3.v
  BY <1>4, <1>5, <1>6, <1>10
<1>12. a4.v.name = e[1].text
  BY <1>8, <1>9, <1>10, <1>11 DEF Puts
<1>13. ASSUME NEW j \in 2..l, \A h \in (j + 1)..l : e[h].go # e[j].go
       PROVE  /\ e[j].go = "int64" => a4.v.hash = <<e[j].n>>
              /\ e[j].go = "string" => a4.v.distance = <<e[j].text>>
              /\ e[j].go = "array" => a4.v.point = <<convertToGeoGeoPoint(e[j]).v>>
  <2>1. j \in {2, 3, 4} /\ j <= l
    <3>1. l \in {1, 2, 3, 4} /\ l \in Nat
      BY <1>4
    <3> HIDE DEF l
    <3> QED
      BY <3>1
  <2>2. CASE j = 4
    BY <1>11, <2>1, <2>2 DEF Puts
  <2>3. CASE j = 3
    <3>1. 4 <= l => e[4].go # e[3].go
      BY <1>4, <1>13, <2>3
    <3> QED
      BY <1>10, <1>11, <2>1, <2>3, <3>1 DEF Puts
  <2>4. CASE j = 2
    <3>1. (3 <= l => e[3].go # e[2].go) /\ (4 <= l => e[4].go # e[2].go)
      BY <1>4, <1>13, <2>4
    <3> QED
      BY <1>9, <1>10, <1>11, <2>1, <2>4, <3>1 DEF Puts
  <2> QED
    BY <2>1, <2>2, <2>3, <2>4
<1> QED
  BY <1>3, <1>4, <1>12, <1>13

LEMMA LocationsKept ==
  ASSUME NEW r \in Reply, r.go = "array"
  PROVE  KeepsLocations(GeoLocations(r), r)
<1> DEFINE n == Len(r.e)
           res == [i \in 1..n |-> convertToGeoLocation(r.e[i])]
           whole == GeoLocations(r)
<1>1. /\ n \in Nat /\ DOMAIN r.e = 1..n /\ Values(r).err = "none"
      /\ \A i \in 1..n : r.e[i] \in Reply
  BY ArrayIs, ElementOfSeq DEF Ok
<1>2. whole = Collect(res)
  BY <1>1 DEF GeoLocations, Each
<1>3. whole.err = "none" =>
        \A i \in 1..n : /\ convertToGeoLocation(r.e[i]).err = "none"
                        /\ whole.v[i] = convertToGeoLocation(r.e[i]).v
  <2>1. \A i \in 1..n : res[i] = convertToGeoLocation(r.e[i])
    OBVIOUS
  <2>2. DOMAIN res = 1..n
    OBVIOUS
  <2> HIDE DEF res, whole
  <2>3. /\ whole.err = "none" <=> \A i \in 1..n : res[i].err = "none"
        /\ (\A i \in 1..n : res[i].err = "none") => whole.v = [i \in 1..n |-> res[i].v]
    BY <1>1, <1>2, <2>2, Collected
  <2> QED
    BY <2>1, <2>3
<1> HIDE DEF whole
<1>4. ASSUME whole.err = "none", NEW i \in DOMAIN r.e
      PROVE  LET e == r.e[i].e
                 last == {j \in 2 .. Len(e) : \A h \in (j + 1) .. Len(e) : e[h].go # e[j].go}
             IN  /\ whole.v[i].name = e[1].text
                 /\ \A j \in last :
                      /\ e[j].go = "int64" => whole.v[i].hash = <<e[j].n>>
                      /\ e[j].go = "string" => whole.v[i].distance = <<e[j].text>>
                      /\ e[j].go = "array" => whole.v[i].point = <<convertToGeoGeoPoint(e[j]).v>>
  <2> DEFINE x == r.e[i]
  <2>1. /\ x \in Reply /\ convertToGeoLocation(x).err = "none"
        /\ whole.v[i] = convertToGeoLocation(x).v
    BY <1>1, <1>3, <1>4
  <2> HIDE DEF x
  <2>2. /\ whole.v[i].name = x.e[1].text
        /\ \A j \in 2..Len(x.e) :
             (\A h \in (j + 1)..Len(x.e) : x.e[h].go # x.e[j].go) =>
               /\ x.e[j].go = "int64" => whole.v[i].hash = <<x.e[j].n>>
               /\ x.e[j].go = "string" => whole.v[i].distance = <<x.e[j].text>>
               /\ x.e[j].go = "array" => whole.v[i].point = <<convertToGeoGeoPoint(x.e[j]).v>>
    BY <2>1, LocationKept
  <2> QED
    BY <2>2 DEF x
<1> QED
  BY <1>4 DEF KeepsLocations, whole

\* The helpers for arrays, maps and lists by score (reply.go, reply_geo.go) accept
\* an answer exactly when the helper for one reply accepts each of its values, and
\* neither lose nor invent one.
THEOREM HelpersAlwaysAgree == Spec => []HelpersAgree
<1>1. TypeInv => HelpersAgree
  <2> SUFFICES ASSUME TypeInv, answer.go = "array" PROVE HelpersAgree
    BY DEF HelpersAgree
  <2>1. answer \in Reply
    BY DEF TypeInv, NilReply
  <2> QED
    BY <2>1, IntsAccept, ListsAccept, MapsAccept, MembersKept, LocationsKept DEF HelpersAgree
<1> QED
  BY <1>1, TypeCorrect, PTL
=============================================================================
