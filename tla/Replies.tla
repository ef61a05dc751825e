------------------------------- MODULE Replies -------------------------------
(***************************************************************************)
(* The conversions of Redis replies into Go values (redisapi/scan.go,      *)
(* reply.go, reply_geo.go), as functions of the reply.                     *)
(*                                                                         *)
(* A reply is what arrives in an interface{}: nil, int64, []byte, string,  *)
(* []interface{}, or something else (an error inside an array).  A string  *)
(* is abstracted to what it parses as: a decimal numeral, a numeral with a *)
(* fraction, or a word that is neither.  Integers keep their widths.  A    *)
(* result is a value and an error; as in Go the value counts with an error *)
(* too, where the code stores it.                                          *)
(***************************************************************************)
EXTENDS Integers, Sequences, SequencesExt

CONSTANTS Half,    \* [integer kinds -> 2^(w-1)], w being the kind's width
          Signed   \* the integer kinds that have negative values

\* The integer kinds; "int" and "int64" are two.
IntKinds == DOMAIN Half

ASSUME HalfAssumption ==
    /\ {"int", "int64", "uint64"} \subseteq IntKinds
    /\ IntKinds \cap {"bool", "float", "string", "bytes"} = {}
    /\ Half["int64"] \in Nat
    /\ \A i \in IntKinds : Half[i] \in 1 .. Half["int64"]
    /\ Half["uint64"] = Half["int64"]
    /\ Signed \subseteq IntKinds
    /\ {"int", "int64"} \subseteq Signed /\ "uint64" \notin Signed

SMin(kind) == -Half[kind]
SMax(kind) == Half[kind] - 1
UMax(kind) == 2 * Half[kind] - 1

\* The numbers a kind can hold, and what a conversion to it makes of n.
Holds(kind) == IF kind \in Signed THEN SMin(kind) .. SMax(kind)
                                  ELSE 0 .. UMax(kind)
SetInt(kind, n) == ((n + Half[kind]) % (2 * Half[kind])) - Half[kind]
SetUint(kind, n) == n % (2 * Half[kind])

\* Texts and replies.
Dec(n) == [form |-> "dec", n |-> n]
Frac == [form |-> "frac", n |-> 0]
Word == [form |-> "word", n |-> 0]
Empty == [form |-> "empty", n |-> 0]

NilReply == [go |-> "nil"]
IntReply(n) == [go |-> "int64", n |-> n]
Bulk(x) == [go |-> "bytes", text |-> x]
Simple(x) == [go |-> "string", text |-> x]
Array(e) == [go |-> "array", e |-> e]
Other == [go |-> "other"]

IsText(r) == r.go \in {"bytes", "string"}

Ok(v) == [v |-> v, err |-> "none"]
Fail(v, e) == [v |-> v, err |-> e]

-----------------------------------------------------------------------------
(* strconv, as the code uses it: a numeral out of range gives the nearest   *)
(* value the width has, with an error.                                     *)

ParseInt(x, kind) ==
    CASE x.form # "dec" -> Fail(0, "syntax")
      [] x.form = "dec" /\ x.n < SMin(kind) -> Fail(SMin(kind), "range")
      [] x.form = "dec" /\ x.n > SMax(kind) -> Fail(SMax(kind), "range")
      [] OTHER -> Ok(x.n)

ParseUint(x, kind) ==
    CASE x.form # "dec" \/ x.n < 0 -> Fail(0, "syntax")
      [] x.form = "dec" /\ x.n > UMax(kind) -> Fail(UMax(kind), "range")
      [] OTHER -> Ok(x.n)

ParseFloat(x) == IF x.form \in {"dec", "frac"} THEN Ok(x) ELSE Fail(Dec(0), "syntax")

ParseBool(x) == IF x \in {Dec(0), Dec(1)} THEN Ok(x = Dec(1)) ELSE Fail(FALSE, "syntax")

-----------------------------------------------------------------------------
(* scan.go: assignment to a destination of a kind, which holds old.        *)

Zero(kind) ==
    CASE kind \in IntKinds -> 0
      [] kind = "bool" -> FALSE
      [] kind = "float" -> Dec(0)
      [] OTHER -> Empty

convertAssignText(kind, old, x) ==
    CASE kind \in Signed -> ParseInt(x, kind)
      [] kind \in IntKinds \ Signed -> ParseUint(x, kind)
      [] kind = "float" -> ParseFloat(x)
      [] kind = "bool" -> ParseBool(x)
      [] kind \in {"string", "bytes"} -> Ok(x)
      [] OTHER -> Fail(old, "convert")

\* Mutated: a negative integer goes to an unsigned value as it is.
convertAssignIntNoSign(kind, old, n) ==
    CASE kind \in Signed ->
            IF SetInt(kind, n) = n THEN Ok(n) ELSE Fail(0, "range")
      [] kind \in IntKinds \ Signed ->
            LET x == SetUint("uint64", n) IN
            IF SetUint(kind, x) = x THEN Ok(x) ELSE Fail(0, "range")
      [] kind = "bool" -> Ok(n # 0)
      [] OTHER -> Fail(old, "convert")

convertAssignInt(kind, old, n) ==
    CASE kind \in Signed ->
            IF SetInt(kind, n) = n THEN Ok(n) ELSE Fail(0, "range")
      [] kind \in IntKinds \ Signed ->
            IF n < 0 THEN Fail(old, "range")
            ELSE IF SetUint(kind, n) = n THEN Ok(n) ELSE Fail(0, "range")
      [] kind = "bool" -> Ok(n # 0)
      [] OTHER -> Fail(old, "convert")

\* cannotConvert names the type of its source, and there is none of nil: a nil
\* that gets here is a panic.
convertAssignValue(kind, old, r) ==
    CASE IsText(r) -> convertAssignText(kind, old, r.text)
      [] r.go = "int64" -> convertAssignInt(kind, old, r.n)
      [] r.go = "nil" -> Fail(old, "panic")
      [] OTHER -> Fail(old, "convert")

\* A slice is an array and the length in use.
Slice(arr, len) == [arr |-> arr, len |-> len]

ensureLen(kind, d, n) ==
    IF n > Len(d.arr) THEN Slice([i \in 1 .. n |-> Zero(kind)], n)
                      ELSE [d EXCEPT !.len = n]

\* The positions a loop over the replies assigns, up to and with the first one
\* that fails: those of nil replies are skipped when skipNil is set.
Stops(kind, arr, src, skipNil) ==
    {i \in 1 .. Len(src) : /\ skipNil => src[i].go # "nil"
                           /\ convertAssignValue(kind, arr[i], src[i]).err # "none"}

\* Mutated: a nil ends the loop.
AssignedToNil(kind, arr, src, skipNil) ==
    {i \in 1 .. Len(src) :
        /\ \A j \in 1 .. i : skipNil => src[j].go # "nil"
        /\ \A j \in Stops(kind, arr, src, skipNil) : i <= j}

Assigned(kind, arr, src, skipNil) ==
    {i \in 1 .. Len(src) :
        /\ skipNil => src[i].go # "nil"
        /\ \A j \in Stops(kind, arr, src, skipNil) : i <= j}

\* The loops of convertAssignArray and ScanSlice into d, which is long enough.
assignAll(kind, d, src, skipNil) ==
    LET stops == Stops(kind, d.arr, src, skipNil)
        arr == [i \in 1 .. Len(d.arr) |->
                   IF i \in Assigned(kind, d.arr, src, skipNil)
                   THEN convertAssignValue(kind, d.arr[i], src[i]).v ELSE d.arr[i]]
    IN  Fail(Slice(arr, d.len),
             IF stops = {} THEN "none"
             ELSE convertAssignValue(kind, d.arr[Min(stops)], src[Min(stops)]).err)

convertAssignArray(kind, d, src) ==
    assignAll(kind, ensureLen(kind, d, Len(src)), src, FALSE)

\* ScanSlice into a slice of structs with `fields' fields each (1 for values
\* that are no structs).  The array holds the fields of all elements in a row,
\* so that reply i goes to position i.
ScanSlice(kind, d, fields, src) ==
    IF Len(src) % fields # 0 THEN Fail(d, "length")
    ELSE assignAll(kind, ensureLen(kind, d, Len(src)), src, TRUE)

-----------------------------------------------------------------------------
(* Scan: a destination is nil, a pointer to a value of a kind, to an        *)
(* interface{} or to a slice of values of a kind, or no pointer at all.    *)

convertAssign(d, r) ==
    CASE r.go = "nil" -> Ok(d.old)
      [] r.go # "nil" /\ d.to = "nil" ->
            IF r.go \in {"bytes", "int64", "array"} THEN Ok(d.old)
            ELSE Fail(d.old, "panic")
      [] r.go # "nil" /\ d.to = "value" ->
            IF r.go = "array" THEN Fail(d.old, "convert")
            ELSE convertAssignValue(d.kind, d.old, r)
      [] r.go # "nil" /\ d.to = "interface" ->
            IF r.go \in {"bytes", "int64", "array"} THEN Ok(r) ELSE Fail(d.old, "convert")
      [] r.go # "nil" /\ d.to = "slice" ->
            IF r.go = "array" THEN convertAssignArray(d.kind, d.old, r.e)
            ELSE Fail(d.old, "convert")
      [] OTHER -> Fail(d.old, "convert")

\* Mutated: the rest begins with the last value taken.
ScanAgain(src, dest) ==
    IF Len(src) < Len(dest) THEN [got |-> <<>>, rest |-> <<>>, err |-> "short"]
    ELSE LET res == [i \in DOMAIN dest |-> convertAssign(dest[i], src[i])]
             stops == {i \in DOMAIN dest : res[i].err # "none"}
         IN  [got |-> res,
              rest |-> SubSeq(src, Len(dest), Len(src)),
              err |-> IF stops = {} THEN "none"
                      ELSE res[Min(stops)].err]

\* The results of the destinations up to the first error, the rest of src, and
\* the error.
Scan(src, dest) ==
    IF Len(src) < Len(dest) THEN [got |-> <<>>, rest |-> <<>>, err |-> "short"]
    ELSE LET res == [i \in DOMAIN dest |-> convertAssign(dest[i], src[i])]
             stops == {i \in DOMAIN dest : res[i].err # "none"}
             last == IF stops = {} THEN Len(dest) ELSE Min(stops)
         IN  [got |-> SubSeq(res, 1, last),
              rest |-> SubSeq(src, Len(dest) + 1, Len(src)),
              err |-> IF stops = {} THEN "none" ELSE res[last].err]

-----------------------------------------------------------------------------
(* reply.go: one reply.                                                    *)

Helper(r, OnInt(_), OnText(_), zero) ==
    CASE r.go = "int64" -> OnInt(r.n)
      [] IsText(r) -> OnText(r.text)
      [] r.go = "nil" -> Fail(zero, "nodata")
      [] OTHER -> Fail(zero, "type")

IntOf(n) == IF SetInt("int", n) = n THEN Ok(n) ELSE Fail(0, "range")
ReplyInt(r) == Helper(r, IntOf, LAMBDA x : ParseInt(x, "int"), 0)
Int64(r) == Helper(r, Ok, LAMBDA x : ParseInt(x, "int64"), 0)

UintOf(n) == IF n < 0 THEN Fail(0, "value") ELSE Ok(n)
Uint64(r) == Helper(r, UintOf, LAMBDA x : ParseUint(x, "uint64"), 0)

Float64(r) == Helper(r, LAMBDA n : Fail(Dec(0), "type"), ParseFloat, Dec(0))
String(r) == Helper(r, LAMBDA n : Fail(Empty, "type"), Ok, Empty)
Bytes(r) == Helper(r, LAMBDA n : Fail(NilReply, "type"), Ok, NilReply)
Bool(r) == Helper(r, LAMBDA n : Ok(n # 0), ParseBool, FALSE)

Values(r) ==
    CASE r.go = "array" -> Ok(r.e)
      [] r.go = "nil" -> Fail(<<>>, "nodata")
      [] OTHER -> Fail(<<>>, "type")

(* reply.go: arrays.                                                       *)

\* What the helpers made of the elements, or nothing and the first error.
Collect(res) ==
    LET stops == {i \in DOMAIN res : res[i].err # "none"}
    IN  IF stops = {} THEN Ok([i \in DOMAIN res |-> res[i].v])
        ELSE Fail(<<>>, res[Min(stops)].err)

\* Each element by a helper.
Each(r, H(_)) ==
    IF Values(r).err # "none" THEN Values(r)
    ELSE Collect([i \in DOMAIN r.e |-> H(r.e[i])])

\* A helper that leaves the zero value in place of nil.
NilAs(H(_), zero, x) == IF x.go = "nil" THEN Ok(zero) ELSE H(x)

Strings(r) == Each(r, LAMBDA x : NilAs(String, Empty, x))
ByteSlices(r) == Each(r, LAMBDA x : NilAs(Bytes, NilReply, x))
Float64s(r) == Each(r, Float64)

\* Ints gives what it has got with the error, Int64s gives nothing.
ScanFresh(kind, r) ==
    IF Values(r).err # "none" THEN Values(r)
    ELSE LET s == ScanSlice(kind, Slice(<<>>, 0), 1, r.e) IN Fail(s.v.arr, s.err)
Ints(r) == ScanFresh("int", r)
Int64s(r) == LET s == ScanFresh("int64", r) IN
             IF s.err = "none" THEN s ELSE Fail(<<>>, s.err)

\* StringMap, IntMap, Int64Map and Float64Map: the later of two equal keys wins.
\* Which of the two helpers failed first only the text of the error tells.
Join(key, value) ==
    LET last(x) == Max({i \in DOMAIN key : key[i].v = x})
    IN  IF \E i \in DOMAIN key : key[i].err # "none" \/ value[i].err # "none"
        THEN Fail(<<>>, "pair")
        ELSE Ok([x \in {key[i].v : i \in DOMAIN key} |-> value[last(x)].v])

PairMap(r, H(_)) ==
    IF Values(r).err # "none" THEN Values(r)
    ELSE IF Len(r.e) % 2 # 0 THEN Fail(<<>>, "odd")
    ELSE Join([i \in 1 .. Len(r.e) \div 2 |-> String(r.e[2 * i - 1])],
              [i \in 1 .. Len(r.e) \div 2 |-> H(r.e[2 * i])])

StringMap(r) == PairMap(r, String)
IntMap(r) == PairMap(r, ReplyInt)
Int64Map(r) == PairMap(r, Int64)
Float64Map(r) == PairMap(r, Float64)

\* Mutated: a score has room for one member.
Int64StringMapSliceLast(r) ==
    LET e == IF r.go = "array" THEN r.e ELSE <<>>
        n == Len(e) \div 2
        member == [i \in 1 .. n |-> String(e[2 * i - 1])]
        score == [i \in 1 .. n |-> Int64(e[2 * i])]
    IN  IF Len(e) % 2 # 0 THEN Fail(<<>>, "odd")
        ELSE IF \E i \in 1 .. n : member[i].err # "none" \/ score[i].err # "none"
             THEN Fail(<<>>, "pair")
        ELSE Ok([s \in {score[i].v : i \in 1 .. n} |->
                             <<member[CHOOSE i \in 1 .. n : score[i].v = s].v>>])

\* The numbers of S in rising order.
Rising(S) ==
    [j \in 1 .. Cardinality(S) |->
        CHOOSE i \in S : Cardinality({h \in S : h <= i}) = j]

\* The members of each score, in the order of the reply.  A reply that is no
\* array counts as an empty one.
Int64StringMapSlice(r) ==
    LET e == IF r.go = "array" THEN r.e ELSE <<>>
        n == Len(e) \div 2
        member == [i \in 1 .. n |-> String(e[2 * i - 1])]
        score == [i \in 1 .. n |-> Int64(e[2 * i])]
        Of(s) == Rising({i \in 1 .. n : score[i].v = s})
    IN  IF Len(e) % 2 # 0 THEN Fail(<<>>, "odd")
        ELSE IF \E i \in 1 .. n : member[i].err # "none" \/ score[i].err # "none"
             THEN Fail(<<>>, "pair")
        ELSE Ok([s \in {score[i].v : i \in 1 .. n} |->
                             [j \in DOMAIN Of(s) |-> member[Of(s)[j]].v]])

-----------------------------------------------------------------------------
(* reply_geo.go.                                                           *)

\* The server sends longitude, latitude.
convertToGeoGeoPoint(r) ==
    LET f == Float64s(r) IN
    CASE f.err # "none" -> Fail(<<>>, f.err)
      [] f.err = "none" /\ Len(f.v) # 2 -> Fail(<<>>, "length")
      [] OTHER -> Ok([lat |-> f.v[2], lng |-> f.v[1]])

GeoPosition(r) == Each(r, convertToGeoGeoPoint)

\* What follows the name is told apart by its type; the rest is ignored.
GeoItem(loc, item) ==
    LET Put(res, field) ==
            IF res.err # "none" THEN Fail(loc.v, res.err)
            ELSE Ok([loc.v EXCEPT ![field] = <<res.v>>])
    IN  IF loc.err # "none" THEN loc
        ELSE
        CASE item.go = "int64" -> Put(Int64(item), "hash")
          [] item.go = "string" -> Put(Float64(item), "distance")
          [] item.go = "array" -> Put(convertToGeoGeoPoint(item), "point")
          [] OTHER -> loc

\* At most three follow.
convertToGeoLocation(r) ==
    LET e == Values(r).v
        named == IF String(e[1]).err # "none" THEN Fail(<<>>, String(e[1]).err)
                 ELSE Ok([name |-> String(e[1]).v, distance |-> <<>>,
                          hash |-> <<>>, point |-> <<>>])
        With(loc, j) == IF j <= Len(e) THEN GeoItem(loc, e[j]) ELSE loc
    IN  IF Values(r).err # "none" THEN Values(r)
        ELSE IF Len(e) \notin 1 .. 4 THEN Fail(<<>>, "length")
        ELSE With(With(With(named, 2), 3), 4)

GeoLocations(r) == Each(r, convertToGeoLocation)
=============================================================================
