------------------------------ MODULE ReplyScan ------------------------------
(***************************************************************************)
(* A caller that receives one answer after another and converts it with    *)
(* redisapi: ScanSlice into one slice that it reuses, as the Go idiom for  *)
(* a loop is, and Scan in a loop over what the last Scan left ("To enable  *)
(* easy use of Scan in a loop", scan.go:272).  The helpers of reply.go are *)
(* asked about every answer in the properties.                             *)
(***************************************************************************)
EXTENDS Replies

CONSTANTS Kinds,      \* the kinds of the values scanned into
          Reply,      \* the replies there are, the elements of arrays included
          Answers,    \* those that may arrive as an answer
          MaxAnswers, \* bound: how many of them arrive
          MaxScanned, \* bound: how many of them Scan is used on (Scan knows
                      \*  nothing of the slice, nor of earlier answers)
          MaxGroup    \* bound: how many values one Scan takes

Number == Holds("int64")
Text == [form : {"dec"}, n : Int] \cup {Frac, Word, Empty}

ASSUME ReplyAssumption ==
    /\ Answers \subseteq Reply
    /\ \A r \in Reply : r \in [go : {"nil", "other"}]
                          \cup [go : {"int64"}, n : Number]
                          \cup [go : {"bytes", "string"}, text : Text]
                          \cup [go : {"array"}, e : Seq(Reply)]
ASSUME MaxAssumption == {MaxAnswers, MaxScanned, MaxGroup} \subseteq Nat

VARIABLES kind,       \* the kind of the slice's values
          fields,     \* the values per element of the slice: 1, or a struct's
          dest,       \* the slice
          since,      \* the arrays scanned since dest's array was made
          answer,     \* the last answer
          err,        \* how ScanSlice ended on it
          rest,       \* what is left of it for Scan
          got,        \* the results of Scan on it so far
          scanErr,    \* how the last Scan ended
          count       \* answers received

vars == <<kind, fields, dest, since, answer, err, rest, got, scanErr, count>>

Init ==
    /\ kind \in Kinds
    /\ fields \in 1 .. 2
    /\ dest = Slice(<<>>, 0)
    /\ since = <<>>
    /\ answer = NilReply
    /\ err = "none"
    /\ rest = <<>>
    /\ got = <<>>
    /\ scanErr = "none"
    /\ count = 0

\* An answer: Values gives the array, and ScanSlice scans it into the slice,
\* whose array is kept when it is large enough.  (A bound: Scan leaves nothing
\* behind for a later answer, so one it was used on is the last.)
Receive(a) ==
    /\ count < MaxAnswers
    /\ got = <<>> /\ scanErr = "none"
    /\ count' = count + 1
    /\ answer' = a
    /\ rest' = Values(a).v
    /\ got' = <<>>
    /\ scanErr' = "none"
    /\ \/ /\ Values(a).err # "none"
          /\ err' = Values(a).err
          /\ UNCHANGED <<dest, since>>
       \/ /\ Values(a).err = "none"
          /\ LET s == ScanSlice(kind, dest, fields, a.e) IN
             /\ dest' = s.v
             /\ err' = s.err
             /\ since' = IF s.err = "length" THEN since
                         ELSE IF Len(s.v.arr) = Len(dest.arr) THEN Append(since, a.e)
                         ELSE <<a.e>>
    /\ UNCHANGED <<kind, fields>>

\* A fresh destination for Scan.
Destinations ==
    {[to |-> "value", kind |-> kind, old |-> Zero(kind)],
     [to |-> "interface", kind |-> kind, old |-> NilReply],
     [to |-> "slice", kind |-> kind, old |-> Slice(<<>>, 0)],
     [to |-> "nil", kind |-> kind, old |-> NilReply],
     [to |-> "noPointer", kind |-> kind, old |-> NilReply]}

ScanNext(n, d) ==
    /\ count <= MaxScanned
    /\ rest # <<>>
    /\ scanErr = "none"
    /\ LET s == Scan(rest, [i \in 1 .. n |-> d]) IN
       /\ rest' = s.rest
       /\ got' = got \o [i \in DOMAIN s.got |-> [to |-> d.to, v |-> s.got[i].v]]
       /\ scanErr' = s.err
    /\ UNCHANGED <<kind, fields, dest, since, answer, err, count>>

Next ==
    \/ \E a \in Answers : Receive(a)
    \/ \E n \in 1 .. MaxGroup, d \in Destinations : ScanNext(n, d)

Spec == Init /\ [][Next]_vars

-----------------------------------------------------------------------------
(* What a reply means as a value of a kind: the only value, or none.        *)

Meaning(kd, r) ==
    CASE kd \in IntKinds ->
            {n \in Holds(kd) : r = IntReply(n) \/ (IsText(r) /\ r.text = Dec(n))}
      [] kd = "bool" /\ r.go = "int64" -> {r.n # 0}
      [] kd = "bool" /\ IsText(r) -> {b \in BOOLEAN : r.text = Dec(IF b THEN 1 ELSE 0)}
      [] kd = "float" /\ IsText(r) -> {r.text} \ {Word, Empty}
      [] kd \in {"string", "bytes"} /\ IsText(r) -> {r.text}
      [] OTHER -> {}

\* The replies a loop gets past: nil, or with a meaning.
Readable(kd, r) == r.go = "nil" \/ Meaning(kd, r) # {}
ReadTo(kd, e, i) == \A j \in 1 .. i : Readable(kd, e[j])

-----------------------------------------------------------------------------
(* Properties.                                                             *)

\* ScanSlice succeeds exactly when every reply is nil or can be held by the
\* slice's values without loss: an integer never wraps at its width, a negative
\* one never becomes a large unsigned one (scan.go:139-162).
FitsOrFails ==
    answer.go = "array" =>
        (err = "none" <=> /\ Len(answer.e) % fields = 0
                          /\ ReadTo(kind, answer.e, Len(answer.e)))

\* A reused slice is the overlay of the arrays scanned since it was allocated:
\* each value is the meaning of the last array that had one for it, whatever
\* was nil, shorter or failed since; a value at which a scan failed is left out.
SliceIsOverlay ==
    \A i \in 1 .. Len(dest.arr) :
        LET reach == {c \in DOMAIN since :
                         /\ i <= Len(since[c])
                         /\ since[c][i].go # "nil"
                         /\ ReadTo(kind, since[c], i - 1)}
            last == Max(reach)
        IN  IF reach = {} THEN dest.arr[i] = Zero(kind)
            ELSE \/ dest.arr[i] \in Meaning(kind, since[last][i])
                 \/ Meaning(kind, since[last][i]) = {}

\* What Scan has put into a destination is what the reply says.
Says(x, r) ==
    CASE x.to = "value" -> x.v \in Meaning(kind, r)
      [] x.to = "interface" -> x.v = r
      [] x.to = "slice" -> /\ Len(x.v.arr) = Len(r.e)
                           /\ \A j \in DOMAIN r.e : x.v.arr[j] \in Meaning(kind, r.e[j])
      [] OTHER -> x.to = "nil"

\* Scan in a loop takes every value of the answer once and in order, up to the
\* first error, into a destination of any type (scan.go:272-287).
LoopTakesAll ==
    scanErr = "none" /\ answer.go = "array" =>
        /\ answer.e = SubSeq(answer.e, 1, Len(got)) \o rest
        /\ \A i \in DOMAIN got : answer.e[i].go # "nil" => Says(got[i], answer.e[i])

\* A helper for arrays and the helper for one reply tell the same of each value:
\* the array is accepted when each of its values is (nil apart), and a map or a
\* list by score neither loses nor invents a member.
AcceptsEach(whole, r, One(_), zero, nilToo) ==
    LET fine == \A i \in DOMAIN r.e : One(r.e[i]).err = "none" \/ (nilToo /\ r.e[i].go = "nil")
    IN  /\ (whole.err = "none") = fine
        /\ fine => whole.v = [i \in DOMAIN r.e |->
                                 IF One(r.e[i]).err = "none" THEN One(r.e[i]).v ELSE zero]

AcceptsPairs(whole, r, One(_)) ==
    LET odd == {i \in DOMAIN r.e : i % 2 = 1}
        fine == /\ Len(r.e) % 2 = 0
                /\ \A i \in odd : String(r.e[i]).err = "none" /\ One(r.e[i + 1]).err = "none"
    IN  /\ (whole.err = "none") = fine
        /\ fine => \A x \in {r.e[i].text : i \in odd} :
              \E i \in odd : /\ r.e[i].text = x
                             /\ whole.v[x] = One(r.e[i + 1]).v
                             /\ \A j \in odd : r.e[j].text = x => j <= i

KeepsMembers(whole, r) ==
    LET odd == {i \in DOMAIN r.e : i % 2 = 1}
    IN  whole.err = "none" =>
          \A s \in DOMAIN whole.v : \A x \in {r.e[i].text : i \in odd} :
              Cardinality({j \in DOMAIN whole.v[s] : whole.v[s][j] = x})
                = Cardinality({i \in odd : r.e[i].text = x /\ Int64(r.e[i + 1]).v = s})

\* A list of positions or locations is accepted whole or not at all, and a
\* location has all that its reply says of it, the last of each type.
KeepsLocations(whole, r) ==
    whole.err = "none" =>
        \A i \in DOMAIN r.e :
            LET e == r.e[i].e
                last == {j \in 2 .. Len(e) : \A h \in (j + 1) .. Len(e) : e[h].go # e[j].go}
            IN  /\ whole.v[i].name = e[1].text
                /\ \A j \in last :
                     /\ e[j].go = "int64" => whole.v[i].hash = <<e[j].n>>
                     /\ e[j].go = "string" => whole.v[i].distance = <<e[j].text>>
                     /\ e[j].go = "array" => whole.v[i].point = <<convertToGeoGeoPoint(e[j]).v>>

HelpersAgree ==
    answer.go = "array" =>
        /\ AcceptsEach(Ints(answer), answer, ReplyInt, 0, TRUE)
        /\ AcceptsEach(Int64s(answer), answer, Int64, 0, TRUE)
        /\ AcceptsEach(Strings(answer), answer, String, Empty, TRUE)
        /\ AcceptsEach(ByteSlices(answer), answer, Bytes, NilReply, TRUE)
        /\ AcceptsEach(Float64s(answer), answer, Float64, Dec(0), FALSE)
        /\ AcceptsEach(GeoPosition(answer), answer, convertToGeoGeoPoint, <<>>, FALSE)
        /\ AcceptsPairs(StringMap(answer), answer, String)
        /\ AcceptsPairs(IntMap(answer), answer, ReplyInt)
        /\ AcceptsPairs(Int64Map(answer), answer, Int64)
        /\ AcceptsPairs(Float64Map(answer), answer, Float64)
        /\ KeepsMembers(Int64StringMapSlice(answer), answer)
        /\ KeepsLocations(GeoLocations(answer), answer)

-----------------------------------------------------------------------------
(* What comments of the code say and the code does not do: TLC finds each   *)
(* of these violated.                                                      *)

\* "If a dest value is nil, then the corresponding src value is skipped"
\* (scan.go:268): a Go string, which is what go-redis answers, panics.
NilDestSkips == scanErr # "panic"

\* "The values pointed at by dest must be an integer, float, boolean, string,
\* []byte, interface{} ..." (scan.go:264): a Go string is refused for interface{}.
InterfaceTakesAll ==
    \A i \in DOMAIN got : got[i].to = "interface" => got[i].v = answer.e[i]

\* Float64s takes an array that Int64s takes: a nil element fails it.
NilElementIsZero ==
    answer.go = "array" /\ Float64s(answer).err = "nodata" => Int64s(answer).err # "none"
=============================================================================
