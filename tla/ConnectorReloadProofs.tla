------------------------ MODULE ConnectorReloadProofs -----------------------
(***************************************************************************)
(* Proofs about ConnectorReload, for any set of configurations, any number *)
(* of clients and any sequence of changes, with ShutDown and the end of    *)
(* the context at any moment of them.                                      *)
(***************************************************************************)
EXTENDS ConnectorReload, FiniteSetTheorems, SequenceTheorems,
        WellFoundedInduction, TLAPS

-----------------------------------------------------------------------------
(* Sequences and numbers.                                                  *)

LEMMA Smallest ==
  ASSUME NEW T, T \subseteq Nat, T # {}
  PROVE  \E x \in T : \A y \in T : x <= y
<1>1. PICK x \in T : \A y \in T : ~ (<<y, x>> \in OpToRel(<, Nat))
  BY WFMin, NatLessThanWellFounded
<1>2. ASSUME NEW y \in T PROVE x <= y
  <2>1. x \in Nat /\ y \in Nat
    OBVIOUS
  <2>2. y < x => <<y, x>> \in OpToRel(<, Nat)
    BY <2>1 DEF OpToRel
  <2>3. ~ (y < x)
    BY <1>1, <2>2, Zenon
  <2> QED
    BY <2>1, <2>3
<1> QED
  BY <1>2

\* What reload takes out of its map is in it: the last of the positions is one.
LEMMA MaxIsIn ==
  ASSUME NEW n \in Nat, NEW S \in SUBSET (1..n), S # {}
  PROVE  Max(S) \in S
<1> DEFINE T == {n - x : x \in S}
<1>1. T \subseteq Nat
  OBVIOUS
<1>2. T # {}
  OBVIOUS
<1>3. PICK t \in T : \A y \in T : t <= y
  <2> HIDE DEF T
  <2> QED
    BY <1>1, <1>2, Smallest
<1>4. PICK x \in S : t = n - x
  OBVIOUS
<1>5. ASSUME NEW y \in S PROVE x >= y
  <2>1. x \in Nat /\ y \in Nat /\ t <= n - y
    BY <1>3
  <2> QED
    BY <2>1, <1>4
<1> QED
  BY <1>5 DEF Max

\* Appending an element.
LEMMA AppendTo ==
  ASSUME NEW S, NEW s \in Seq(S), NEW e \in S
  PROVE  /\ Append(s, e) \in Seq(S)
         /\ Len(Append(s, e)) = Len(s) + 1
         /\ DOMAIN Append(s, e) = 1..(Len(s) + 1)
         /\ \A i \in 1..Len(s) : Append(s, e)[i] = s[i]
         /\ Append(s, e)[Len(s) + 1] = e
         /\ ToSet(Append(s, e)) = ToSet(s) \cup {e}
         /\ IsInjective(s) /\ e \notin ToSet(s) => IsInjective(Append(s, e))
<1> DEFINE t == Append(s, e)
<1>1. /\ t \in Seq(S) /\ Len(t) = Len(s) + 1
      /\ \A i \in 1..Len(s) : t[i] = s[i]
      /\ t[Len(s) + 1] = e
  BY AppendProperties
<1>2. DOMAIN t = 1..(Len(s) + 1) /\ DOMAIN s = 1..Len(s) /\ Len(s) \in Nat
  BY <1>1, LenProperties
<1> HIDE DEF t
<1>3. \A i \in DOMAIN t : i \in DOMAIN s \/ i = Len(s) + 1
  BY <1>2
<1>4. ToSet(t) = ToSet(s) \cup {e}
  <2>1. ToSet(t) \subseteq ToSet(s) \cup {e}
    BY <1>1, <1>2, <1>3 DEF ToSet
  <2>2. e \in ToSet(t)
    BY <1>1, <1>2 DEF ToSet
  <2>3. ToSet(s) \subseteq ToSet(t)
    BY <1>1, <1>2 DEF ToSet
  <2> QED
    BY <2>1, <2>2, <2>3
<1>5. ASSUME IsInjective(s), e \notin ToSet(s) PROVE IsInjective(t)
  <2>1. \A i \in DOMAIN s : s[i] # e
    BY <1>5 DEF ToSet
  <2> SUFFICES ASSUME NEW i \in DOMAIN t, NEW j \in DOMAIN t, t[i] = t[j]
               PROVE  i = j
    BY DEF IsInjective
  <2> QED
    BY <1>1, <1>2, <1>3, <1>5, <2>1 DEF IsInjective
<1> QED
  BY <1>1, <1>2, <1>4, <1>5 DEF t

\* Removing an element.
LEMMA RemoveFrom ==
  ASSUME NEW S, NEW s \in Seq(S), NEW k \in DOMAIN s
  PROVE  /\ RemoveAt(s, k) \in Seq(S)
         /\ s[k] \in ToSet(s)
         /\ ToSet(RemoveAt(s, k)) \subseteq ToSet(s)
         /\ ToSet(s) \subseteq ToSet(RemoveAt(s, k)) \cup {s[k]}
         /\ IsInjective(s) => /\ IsInjective(RemoveAt(s, k))
                              /\ s[k] \notin ToSet(RemoveAt(s, k))
<1> DEFINE a == SubSeq(s, 1, k - 1)
           b == SubSeq(s, k + 1, Len(s))
           t == a \o b
           n == Len(s)
<1>1. n \in Nat /\ DOMAIN s = 1..n /\ k \in 1..n
  BY LenProperties
<1>2. /\ a \in Seq(S) /\ Len(a) = k - 1
      /\ \A i \in 1..(k - 1) : a[i] = s[i]
  <2>1. \A i \in 1..(k - 1) : s[i] \in S
    BY <1>1, ElementOfSeq
  <2> QED
    BY <1>1, <2>1, SubSeqProperties
<1>3. /\ b \in Seq(S) /\ Len(b) = n - k
      /\ \A i \in 1..(n - k) : b[i] = s[k + i]
  <2>1. \A i \in (k + 1)..n : s[i] \in S
    BY <1>1, ElementOfSeq
  <2> QED
    BY <1>1, <2>1, SubSeqProperties
<1> HIDE DEF a, b
<1>4. /\ t \in Seq(S) /\ Len(t) = n - 1
      /\ \A i \in 1..(n - 1) : t[i] = IF i < k THEN s[i] ELSE s[i + 1]
  <2>1. /\ t \in Seq(S) /\ Len(t) = Len(a) + Len(b)
        /\ \A i \in 1..(Len(a) + Len(b)) :
             t[i] = IF i <= Len(a) THEN a[i] ELSE b[i - Len(a)]
    BY <1>2, <1>3, ConcatProperties
  <2> HIDE DEF t
  <2>2. Len(a) + Len(b) = n - 1
    BY <1>1, <1>2, <1>3
  <2>3. ASSUME NEW i \in 1..(n - 1)
        PROVE  t[i] = IF i < k THEN s[i] ELSE s[i + 1]
    <3>1. t[i] = IF i <= k - 1 THEN a[i] ELSE b[i - (k - 1)]
      BY <1>2, <2>1, <2>2
    <3>2. CASE i < k
      BY <1>1, <1>2, <3>1, <3>2
    <3>3. CASE i >= k
      <4>1. i - (k - 1) \in 1..(n - k) /\ k + (i - (k - 1)) = i + 1
        BY <1>1, <3>3
      <4> QED
        BY <1>1, <1>3, <3>1, <3>3, <4>1
    <3> QED
      BY <1>1, <3>2, <3>3
  <2> QED
    BY <2>1, <2>2, <2>3
<1>5. DOMAIN t = 1..(n - 1)
  BY <1>4, LenProperties
<1> HIDE DEF t
<1>6. RemoveAt(s, k) = t
  BY DEF RemoveAt, a, b, t
<1>7. s[k] \in ToSet(s)
  BY DEF ToSet
<1>8. ToSet(t) \subseteq ToSet(s)
  BY <1>1, <1>4, <1>5 DEF ToSet
<1>9. ASSUME NEW i \in DOMAIN s, i # k PROVE s[i] \in ToSet(t)
  <2> DEFINE j == IF i < k THEN i ELSE i - 1
  <2>1. j \in 1..(n - 1) /\ t[j] = s[i]
    BY <1>1, <1>4, <1>9
  <2> QED
    BY <1>5, <2>1 DEF ToSet
<1>10. ToSet(s) \subseteq ToSet(t) \cup {s[k]}
  BY <1>9 DEF ToSet
<1>11. ASSUME IsInjective(s)
       PROVE  IsInjective(t) /\ s[k] \notin ToSet(t)
  <2> DEFINE u(i) == IF i < k THEN i ELSE i + 1
  <2>1. \A i \in 1..(n - 1) : u(i) \in 1..n /\ u(i) # k /\ t[i] = s[u(i)]
    BY <1>1, <1>4
  <2>2. \A i, j \in 1..(n - 1) : u(i) = u(j) => i = j
    BY <1>1
  <2> HIDE DEF u
  <2>3. \A i, j \in 1..n : s[i] = s[j] => i = j
    BY <1>1, <1>11 DEF IsInjective
  <2>4. ASSUME NEW i \in DOMAIN t, NEW j \in DOMAIN t, t[i] = t[j] PROVE i = j
    <3>1. i \in 1..(n - 1) /\ j \in 1..(n - 1)
      BY <1>5
    <3>2. u(i) = u(j)
      BY <2>1, <2>3, <2>4, <3>1
    <3> QED
      BY <2>2, <3>1, <3>2
  <2>5. ASSUME NEW i \in DOMAIN t PROVE t[i] # s[k]
    <3>1. i \in 1..(n - 1)
      BY <1>5
    <3> QED
      BY <1>1, <2>1, <2>3, <3>1
  <2> QED
    BY <2>4, <2>5 DEF IsInjective, ToSet
<1> QED
  BY <1>4, <1>6, <1>7, <1>8, <1>10, <1>11

\* The empty sequence.
LEMMA Nothing ==
  /\ <<>> \in Seq(Client) /\ Len(<<>>) = 0 /\ ToSet(<<>>) = {}
  /\ IsInjective(<<>>)
BY DEF ToSet, IsInjective
-----------------------------------------------------------------------------
(* Configurations and options.                                             *)

OptionFields == {"username", "dialTimeout", "poolSize", "tls", "limiter",
                 "nodes", "db", "maxRedirects", "routing"}

IsOptions(o) == o = [f \in OptionFields |-> o[f]]

\* The options that a reload is to keep up with: those of o are c's.
Works(o, c) == \A f \in OptionFields \ {"tls", "nodes"} : o[f] = Options(c)[f]

LEMMA OptionsAreOptions == \A c : IsOptions(Options(c))
BY DEF IsOptions, Options, OptionFields

LEMMA OptionsAgree ==
  ASSUME NEW o, NEW new, IsOptions(o)
  PROVE  [o EXCEPT !.tls = new.tls, !.nodes = <<>>]
           = [Options(new) EXCEPT !.nodes = <<>>] <=> Works(o, new)
<1> DEFINE p == Options(new)
           q == [o EXCEPT !.tls = new.tls, !.nodes = <<>>]
           r == [p EXCEPT !.nodes = <<>>]
<1>1. p.tls = new.tls
  BY DEF Options
<1>2. o = [f \in OptionFields |-> o[f]] /\ p = [f \in OptionFields |-> p[f]]
  BY OptionsAreOptions DEF IsOptions
<1> HIDE DEF p
<1>3. /\ q = [f \in OptionFields |-> CASE f = "tls" -> new.tls
                                      [] f = "nodes" -> <<>>
                                      [] OTHER -> o[f]]
      /\ r = [f \in OptionFields |-> CASE f = "nodes" -> <<>>
                                      [] OTHER -> p[f]]
  BY <1>2 DEF OptionFields
<1>4. q = r <=> \A f \in OptionFields \ {"tls", "nodes"} : o[f] = p[f]
  BY <1>1, <1>3
<1> QED
  BY <1>4 DEF Works, p

\* InForce, of a client that has the options o and records k.
Fits(o, k, new) == /\ Works(o, new)
                   /\ k.ignoreReadOnly = new.ignoreReadOnly
                   /\ AddrBag(k) = AddrBag(new)

LEMMA InForceByField ==
  ASSUME NEW c, NEW new, IsOptions(copts[c])
  PROVE  InForce(c, new) <=> Fits(copts[c], cconf[c], new)
BY OptionsAgree DEF InForce, Fits

\* A reload that is allowed makes of options that work like the recorded
\* configuration options that work like the new one; what is then recorded is
\* in force too, whatever of the new configuration it leaves out.
LEMMA ReloadedWorks ==
  ASSUME NEW old \in ClientConfigs, NEW new \in ClientConfigs, NEW o,
         IsOptions(o), Works(o, old), Allowed(old, new)
  PROVE  /\ IsOptions(SetOptions(o, old, new))
         /\ Works(SetOptions(o, old, new), new)
         /\ Works(SetOptions(o, old, new), Recorded(old, new))
         /\ Recorded(old, new) \in ClientConfigs
         /\ Recorded(old, new).addrs = old.addrs
         /\ Recorded(old, new).ignoreReadOnly = new.ignoreReadOnly
         /\ AddrBag(old) = AddrBag(new)
<1> DEFINE rec == Recorded(old, new)
           so == SetOptions(o, old, new)
           single == old.clientMode = "singleHost"
           taken == HystrixTaken(old, new)
<1>1. /\ old.clientMode = new.clientMode /\ old.db = new.db
      /\ AddrBag(old) = AddrBag(new)
  BY DEF Allowed
<1>2. /\ DOMAIN old = {"clientMode", "addrs", "db", "tls", "username",
                       "dialTimeout", "poolSize", "maxRedirects", "readMode",
                       "ignoreReadOnly", "hystrixEnabled", "hystrix"}
      /\ DOMAIN rec = DOMAIN old
  BY DEF ClientConfigs, Recorded
<1>3. /\ rec.clientMode = old.clientMode /\ rec.addrs = old.addrs
      /\ rec.db = old.db /\ rec.tls = old.tls
      /\ rec.username = new.username /\ rec.dialTimeout = new.dialTimeout
      /\ rec.poolSize = new.poolSize
      /\ rec.maxRedirects = IF single THEN old.maxRedirects
                                      ELSE new.maxRedirects
      /\ rec.readMode = IF single THEN old.readMode ELSE new.readMode
      /\ rec.hystrixEnabled = new.hystrixEnabled
      /\ rec.ignoreReadOnly = new.ignoreReadOnly
      /\ rec.hystrix = IF taken THEN new.hystrix ELSE old.hystrix
  BY <1>2 DEF Recorded, Taken, Compared
<1>4. rec \in ClientConfigs
  <2>1. rec = [f \in DOMAIN old |-> rec[f]]
    BY DEF Recorded
  <2> HIDE DEF rec
  <2> QED
    BY <1>2, <1>3, <2>1 DEF ClientConfigs
<1>5. IsOptions(so)
  BY DEF IsOptions, SetOptions
<1>6. /\ so.username = new.username /\ so.dialTimeout = new.dialTimeout
      /\ so.poolSize = new.poolSize
      /\ so.db = o.db
      /\ so.maxRedirects = IF ~single /\ old.maxRedirects # new.maxRedirects
                           THEN new.maxRedirects ELSE o.maxRedirects
      /\ so.routing = IF ~single /\ old.readMode # new.readMode
                      THEN Routing(new.readMode) ELSE o.routing
      /\ so.limiter = IF ~new.hystrixEnabled THEN NoLimiter
                      ELSE IF taken THEN Limiter(new.hystrix) ELSE o.limiter
  <2>1. DOMAIN o = OptionFields
    BY DEF IsOptions
  <2>2. /\ o.username = old.username /\ o.dialTimeout = old.dialTimeout
        /\ o.poolSize = old.poolSize
    BY DEF Works, Options, OptionFields
  <2> DEFINE T == Taken(old, new)
  <2>3. /\ "username" \in T <=> old.username # new.username
        /\ "dialTimeout" \in T <=> old.dialTimeout # new.dialTimeout
        /\ "poolSize" \in T <=> old.poolSize # new.poolSize
        /\ "maxRedirects" \in T
              <=> ~single /\ old.maxRedirects # new.maxRedirects
        /\ "readMode" \in T <=> ~single /\ old.readMode # new.readMode
        /\ T \cap {"db", "routing", "limiter"} = {}
    BY DEF Taken, Compared
  <2> HIDE DEF T
  <2>4. so = [f \in OptionFields |->
                CASE f \in T -> new[f]
                  [] f = "routing" /\ "readMode" \in T -> Routing(new.readMode)
                  [] f = "limiter" /\ ~new.hystrixEnabled -> NoLimiter
                  [] f = "limiter" /\ taken -> Limiter(new.hystrix)
                  [] OTHER -> o[f]]
    BY <2>1 DEF SetOptions, T
  <2>10. taken \in BOOLEAN /\ (taken => new.hystrixEnabled)
        /\ new.hystrixEnabled \in BOOLEAN
    BY DEF HystrixTaken, ClientConfigs
  <2> HIDE DEF so, taken
  <2>5. /\ so.username = new.username /\ so.dialTimeout = new.dialTimeout
        /\ so.poolSize = new.poolSize
    BY <2>2, <2>3, <2>4 DEF OptionFields
  <2>6. so.db = o.db
    BY <2>3, <2>4 DEF OptionFields
  <2>7. so.maxRedirects = IF ~single /\ old.maxRedirects # new.maxRedirects
                          THEN new.maxRedirects ELSE o.maxRedirects
    BY <2>3, <2>4 DEF OptionFields
  <2>8. so.routing = IF ~single /\ old.readMode # new.readMode
                     THEN Routing(new.readMode) ELSE o.routing
    BY <2>3, <2>4 DEF OptionFields
  <2>9. so.limiter = IF ~new.hystrixEnabled THEN NoLimiter
                     ELSE IF taken THEN Limiter(new.hystrix) ELSE o.limiter
    <3>1. so["limiter"] = CASE ~new.hystrixEnabled -> NoLimiter
                            [] taken -> Limiter(new.hystrix)
                            [] ~taken /\ new.hystrixEnabled -> o["limiter"]
      BY <2>3, <2>4, <2>10 DEF OptionFields
    <3> QED
      BY <2>10, <3>1
  <2> QED
    BY <2>5, <2>6, <2>7, <2>8, <2>9
<1>7. /\ o.db = IF single THEN old.db ELSE 0
      /\ o.maxRedirects = IF single THEN 0 ELSE old.maxRedirects
      /\ o.routing = Routing(IF single THEN "readFromMaster" ELSE old.readMode)
      /\ o.limiter = IF old.hystrixEnabled THEN Limiter(old.hystrix)
                                           ELSE NoLimiter
  BY DEF Works, Options, OptionFields
<1> HIDE DEF rec, so
<1>8. /\ so.limiter = IF new.hystrixEnabled THEN Limiter(new.hystrix)
                                            ELSE NoLimiter
      /\ so.limiter = IF rec.hystrixEnabled THEN Limiter(rec.hystrix)
                                            ELSE NoLimiter
  BY <1>3, <1>6, <1>7 DEF HystrixTaken
<1>9. Works(so, new)
  BY <1>1, <1>6, <1>7, <1>8 DEF Works, Options, OptionFields
<1>10. Works(so, rec)
  BY <1>1, <1>3, <1>6, <1>7, <1>8 DEF Works, Options, OptionFields
<1> QED
  BY <1>1, <1>3, <1>4, <1>5, <1>9, <1>10 DEF rec, so
-----------------------------------------------------------------------------
(* Types and lists.                                                        *)

\* Sorting the addresses keeps how often each is there, so a client's name is
\* that of its configuration as it was given.
LEMMA PermutedIsSameBag ==
  ASSUME NEW S, NEW s \in Seq(S), NEW p \in Bijection(DOMAIN s, DOMAIN s)
  PROVE  ToBag([i \in DOMAIN s |-> s[p[i]]]) = ToBag(s)
<1> DEFINE n == DOMAIN s
           t == [i \in n |-> s[p[i]]]
           InS(x) == {i \in n : s[i] = x}
           InT(x) == {i \in n : t[i] = x}
<1>1. /\ p \in [n -> n]
      /\ \A i, j \in n : p[i] = p[j] => i = j
      /\ \A i \in n : \E j \in n : p[j] = i
  BY DEF Bijection, Injection, Surjection, IsInjective
<1>2. DOMAIN t = n /\ Range(t) = Range(s)
  BY <1>1 DEF Range
<1>3. IsFiniteSet(n)
  <2>1. n = 1..Len(s) /\ Len(s) \in Nat
    BY LenProperties
  <2> QED
    BY <2>1, FS_Interval
<1>4. ASSUME NEW x PROVE Cardinality(InT(x)) = Cardinality(InS(x))
  <2> DEFINE q == [i \in InT(x) |-> p[i]]
  <2>1. q \in [InT(x) -> InS(x)]
    BY <1>1
  <2>2. \A i, j \in InT(x) : q[i] = q[j] => i = j
    BY <1>1
  <2>3. \A i \in InS(x) : \E j \in InT(x) : q[j] = i
    BY <1>1
  <2>4. q \in Bijection(InT(x), InS(x))
    BY <2>1, <2>2, <2>3 DEF Bijection, Injection, Surjection, IsInjective
  <2>5. ExistsBijection(InT(x), InS(x))
    BY <2>4 DEF ExistsBijection
  <2>6. IsFiniteSet(InT(x))
    BY <1>3, FS_Subset
  <2> QED
    BY <2>5, <2>6, FS_Bijection
<1> HIDE DEF InS, InT
<1>5. ToBag(t) = [x \in Range(t) |-> Cardinality(InT(x))]
  BY <1>2 DEF ToBag, InT
<1>6. ToBag(s) = [x \in Range(s) |-> Cardinality(InS(x))]
  BY DEF ToBag, InS
<1> QED
  BY <1>2, <1>4, <1>5, <1>6

LEMMA NamedKeeps ==
  ASSUME NEW c \in ClientConfigs, NEW d \in Named(c)
  PROVE  /\ d \in ClientConfigs /\ IsOptions(Options(d))
         /\ AddrBag(d) = AddrBag(c)
         /\ Works(Options(d), d) /\ Works(Options(d), c)
         /\ d.ignoreReadOnly = c.ignoreReadOnly
<1>1. CASE d = c
  BY <1>1, OptionsAreOptions DEF Works
<1>2. CASE c.clientMode # "singleHost"
  <2>1. PICK as \in Sorted(c.addrs) : d = [c EXCEPT !.addrs = as]
    BY <1>2 DEF Named
  <2> DEFINE n == DOMAIN c.addrs
  <2>2. PICK p \in Bijection(n, n) : as = [i \in n |-> c.addrs[p[i]]]
    BY <2>1 DEF Sorted
  <2>3. p \in [n -> n] /\ \A i \in n : \E j \in n : p[j] = i
    BY <2>2 DEF Bijection, Injection, Surjection
  <2>4. ToBag(as) = ToBag(c.addrs)
    BY <2>2, PermutedIsSameBag DEF ClientConfigs
  <2>5. as \in Seq(Nat)
    <3>1. c.addrs \in Seq(Nat)
      BY DEF ClientConfigs
    <3>2. Len(c.addrs) \in Nat /\ n = 1..Len(c.addrs)
      BY <3>1, LenProperties
    <3>3. \A i \in n : p[i] \in 1..Len(c.addrs)
      BY <2>3, <3>2
    <3>4. \A i \in n : c.addrs[p[i]] \in Nat
      BY <3>1, <3>3, ElementOfSeq
    <3>5. as \in [1..Len(c.addrs) -> Nat]
      BY <2>2, <3>2, <3>4
    <3> QED
      BY <3>2, <3>5, SeqDef
  <2>6. d \in ClientConfigs /\ d.addrs = as
    BY <2>1, <2>5 DEF ClientConfigs
  <2>7. AddrBag(d) = AddrBag(c)
    BY <2>4, <2>6 DEF AddrBag
  <2>8. \A f \in {"clientMode", "db", "tls", "username", "dialTimeout",
                  "poolSize", "maxRedirects", "readMode", "ignoreReadOnly",
                  "hystrixEnabled", "hystrix"} : d[f] = c[f]
    BY <2>1 DEF ClientConfigs
  <2>9. Works(Options(d), d) /\ Works(Options(d), c)
    BY <2>8 DEF Works, Options, OptionFields
  <2> QED
    BY <2>6, <2>7, <2>8, <2>9, OptionsAreOptions
<1> QED
  BY <1>1, <1>2 DEF Named

LEMMA InitedKeepsType ==
  ASSUME NEW c \in ClientConfigs
  PROVE  Inited(c) \in ClientConfigs
<1> DEFINE h == InitedHystrix(c.hystrix)
           as == Or(c.addrs, {<<>>}, <<DefaultHostAndPort>>)
           mode == Or(c.readMode, {"", Nil}, "readFromSlaves")
           name == Or(c.username, {Nil}, "")
           time == Or(c.dialTimeout, {0}, 5000)
           d == [c EXCEPT !.addrs = as, !.readMode = mode, !.username = name,
                          !.dialTimeout = time, !.hystrix = h]
<1>1. ASSUME NEW k \in Hystrix PROVE InitedHystrix(k) \in Hystrix
  <2> DEFINE a == Or(k.timeout, {0}, 31000)
             b == Or(k.maxConcurrent, {0}, 5000)
             e == Or(k.errorPercent, {0}, 50)
  <2>1. a \in Int /\ b \in Int /\ e \in Int
    BY DEF Hystrix, Or
  <2>2. InitedHystrix(k) = [k EXCEPT !.timeout = a, !.maxConcurrent = b,
                                     !.errorPercent = e]
    BY DEF InitedHystrix, Hystrix
  <2> HIDE DEF a, b, e
  <2> QED
    BY <2>1, <2>2 DEF Hystrix
<1>2. h \in Hystrix
  BY <1>1 DEF ClientConfigs
<1>3. as \in Seq(Nat)
  BY DEF Or, ClientConfigs, DefaultHostAndPort
<1>4. mode \in Text /\ name \in Text
  BY DEF Or, ClientConfigs, Text
<1>5. time \in Int
  BY DEF Or, ClientConfigs
<1>6. Inited(c) = d
  BY DEF Inited, ClientConfigs
<1> HIDE DEF h, as, mode, name, time
<1>7. d \in ClientConfigs
  BY <1>2, <1>3, <1>4, <1>5 DEF ClientConfigs
<1> QED
  BY <1>6, <1>7

LEMMA InitedAllKeepsType ==
  ASSUME NEW c \in ConnectorConfigs
  PROVE  /\ InitedAll(c) \in ConnectorConfigs
         /\ Len(InitedAll(c).loads) = Len(c.loads)
<1> DEFINE l == [i \in DOMAIN c.loads |-> Inited(c.loads[i])]
<1>1. c.loads \in Seq(ClientConfigs)
  BY DEF ConnectorConfigs
<1>2. \A i \in DOMAIN c.loads : c.loads[i] \in ClientConfigs
  BY <1>1
<1>3. l \in Seq(ClientConfigs) /\ Len(l) = Len(c.loads)
  BY <1>1, <1>2, InitedKeepsType
<1> HIDE DEF l
<1>4. /\ Inited(c.main) \in ClientConfigs
      /\ Or(c.sched, {""}, "default") \in Text
  <2>1. c.main \in ClientConfigs /\ c.sched \in Text
    BY DEF ConnectorConfigs
  <2> QED
    BY <2>1, InitedKeepsType DEF Or, Text
<1>5. InitedAll(c) = [c EXCEPT !.main = Inited(c.main), !.loads = l,
                               !.sched = Or(c.sched, {""}, "default")]
  BY DEF InitedAll, l, ConnectorConfigs
<1> QED
  BY <1>3, <1>4, <1>5 DEF ConnectorConfigs

LEMMA StartIsConfig ==
  /\ Start \in ConnectorConfigs
  /\ Len(Start.loads) \in 0..MaxClients
  /\ MaxClients \in Nat
<1>1. First \in ConnectorConfigs
  BY ConfigType
<1>2. Start \in ConnectorConfigs /\ Len(Start.loads) = Len(First.loads)
  BY <1>1, InitedAllKeepsType DEF Start
<1>3. Len(First.loads) \in Nat
  BY <1>1 DEF ConnectorConfigs
<1> QED
  BY <1>2, <1>3, MaxClientsType

-----------------------------------------------------------------------------
(* The inductive invariant.                                                *)

TypeInv ==
  /\ built \in {"clients", "registered", "all", "done", "failed"}
  /\ sched \in Text \cup {"initial"} /\ processAll \in BOOLEAN
  /\ made \in 0..(MaxClients + 1)
  /\ cconf \in [Client -> ClientConfigs]
  /\ DOMAIN copts = Client /\ \A c \in Client : IsOptions(copts[c])
  /\ list \in Seq(Client) /\ fresh \in Seq(Client) /\ spare \in Seq(Client)
  /\ pc \in {"idle", "options", "main", "loads", "wait"}
  /\ conf \in ConnectorConfigs
  /\ result \in {"none", "ignored", "ok", "error"}
  /\ {ctxDone, crashed, early, touched} \subseteq BOOLEAN
  /\ lost \subseteq Client
  /\ closers \in [Client -> Nat]
  /\ closeChan \in [Client -> BOOLEAN]
  /\ sd \in {"idle", "main", "done"}

\* reload is at work on the load-test clients.
InLoads == pc \in {"loads", "wait"}

\* Of these clients the connector holds an open one: the list, or what reload
\* has made of it so far.
Held == IF InLoads THEN ToSet(fresh) \cup ToSet(spare) ELSE ToSet(list)

BuildInv ==
  IF built = "clients"
  THEN made <= Len(Start.loads) /\ pc = "idle" /\ result = "none" /\ lost = {}
  ELSE made > Main

ListInv ==
  /\ IsInjective(list) /\ IsInjective(fresh) /\ IsInjective(spare)
  /\ ToSet(spare) \subseteq ToSet(list) /\ ToSet(fresh) \cap ToSet(spare) = {}
  /\ \A c \in ToSet(list) \cup ToSet(fresh) : c # Main /\ c < made
  /\ ~InLoads => fresh = <<>> /\ spare = <<>>
  /\ InLoads => Len(fresh) <= Len(conf.loads)
  /\ pc = "wait" => Len(fresh) = Len(conf.loads)
  /\ InLoads /\ Len(fresh) < Len(conf.loads) =>
       ToSet(list) \subseteq ToSet(fresh) \cup ToSet(spare)

\* The clients that are still to be created.
Rest == {i \in Needed(conf.loads) : i > Len(fresh)}
RoomInv == pc # "idle" => made + Cardinality(Rest) <= MaxClients + 1

Idle(c) == closers[c] = 0 /\ ~closeChan[c]
Once(c) == closers[c] = 0 \/ (closers[c] = 1 /\ ~closeChan[c])
CloseInv ==
  /\ \A c \in Client : c >= made => Idle(c)
  /\ Once(Main) /\ (sd = "idle" => Idle(Main))
  /\ \A c \in Held : closers[c] <= 1 /\ (sd # "done" => Idle(c))
  /\ \A c \in Client : closers[c] <= 2 /\ (sd # "done" => Once(c))
  /\ sd = "idle" => ~crashed

LeakInv ==
  \A c \in Client : OpenClient(c) => c \in {Main} \cup Held \cup lost

ForceInv == \A c \in Client : c < made => Works(copts[c], cconf[c])

Meets(c, new) == Fits(copts[c], cconf[c], new)
ApplyInv ==
  /\ (pc # "idle" \/ result = "ok") /\ ~early =>
       built = "done" /\ processAll = conf.all
  /\ InLoads => /\ Meets(Main, conf.main)
                /\ \A i \in DOMAIN fresh : Meets(fresh[i], conf.loads[i])
  /\ pc = "idle" /\ result = "ok" =>
       /\ Meets(Main, conf.main)
       /\ Len(list) = Len(conf.loads)
       /\ \A i \in DOMAIN list : Meets(list[i], conf.loads[i])

ReuseInv ==
  \A c \in ToSet(fresh) \ ToSet(list), d \in ToSet(list) \ ToSet(fresh) :
    InLoads => AddrBag(cconf[c]) # AddrBag(cconf[d])

IInv == /\ TypeInv /\ BuildInv /\ ListInv /\ RoomInv /\ CloseInv
        /\ LeakInv /\ ForceInv /\ ApplyInv /\ ReuseInv

-----------------------------------------------------------------------------
(* What the steps do.                                                      *)

LEMMA EntryType ==
  ASSUME TypeInv, Len(fresh) < Len(conf.loads)
  PROVE  /\ Entry \in ClientConfigs
         /\ Len(fresh) \in Nat /\ Len(conf.loads) \in Nat
         /\ DOMAIN fresh = 1..Len(fresh)
         /\ DOMAIN conf.loads = 1..Len(conf.loads)
         /\ Len(fresh) + 1 \in DOMAIN conf.loads
<1>1. conf.loads \in Seq(ClientConfigs) /\ fresh \in Seq(Client)
  BY DEF TypeInv, ConnectorConfigs
<1>2. /\ Len(fresh) \in Nat /\ Len(conf.loads) \in Nat
      /\ DOMAIN fresh = 1..Len(fresh)
      /\ DOMAIN conf.loads = 1..Len(conf.loads)
  BY <1>1, LenProperties
<1>3. Len(fresh) + 1 \in 1..Len(conf.loads)
  BY <1>2
<1> QED
  BY <1>1, <1>2, <1>3, ElementOfSeq DEF Entry

LEMMA ReusedIsSpare ==
  ASSUME TypeInv, SameName # {}
  PROVE  /\ Reused \in DOMAIN spare
         /\ spare[Reused] \in ToSet(spare) /\ spare[Reused] \in Client
         /\ AddrBag(cconf[spare[Reused]]) = AddrBag(Entry)
<1>1. spare \in Seq(Client) /\ Len(spare) \in Nat /\ DOMAIN spare = 1..Len(spare)
  BY LenProperties DEF TypeInv
<1>2. SameName \in SUBSET (1..Len(spare))
  BY <1>1 DEF SameName
<1>3. Reused \in SameName
  BY <1>1, <1>2, MaxIsIn DEF Reused
<1> QED
  BY <1>1, <1>3, ElementOfSeq DEF SameName, ToSet

LEMMA NewEffect ==
  ASSUME TypeInv, made \in Client, NEW d \in ClientConfigs, NewClient(d)
  PROVE  /\ made' = made + 1 /\ made' \in 0..(MaxClients + 1)
         /\ cconf' \in [Client -> ClientConfigs]
         /\ DOMAIN copts' = Client /\ \A c \in Client : IsOptions(copts'[c])
         /\ cconf'[made] = d /\ copts'[made] = Options(d)
         /\ \A c \in Client :
              c # made => cconf'[c] = cconf[c] /\ copts'[c] = copts[c]
<1>1. /\ cconf' = [cconf EXCEPT ![made] = d] /\ made' = made + 1
      /\ copts' = [copts EXCEPT ![made] = Options(d)]
  BY DEF NewClient
<1>2. IsOptions(Options(d))
  BY OptionsAreOptions
<1>3. made' \in 0..(MaxClients + 1)
  BY <1>1, StartIsConfig DEF Client
<1> QED
  BY <1>1, <1>2, <1>3 DEF TypeInv

LEMMA ReloadEffect ==
  ASSUME TypeInv, ForceInv, NEW c \in Client, c < made,
         NEW new \in ClientConfigs, Allowed(cconf[c], new),
         ReloadClient(c, new)
  PROVE  /\ cconf' \in [Client -> ClientConfigs]
         /\ DOMAIN copts' = Client /\ \A d \in Client : IsOptions(copts'[d])
         /\ \A d \in Client : AddrBag(cconf'[d]) = AddrBag(cconf[d])
         /\ \A d \in Client :
              d # c => cconf'[d] = cconf[d] /\ copts'[d] = copts[d]
         /\ Works(copts'[c], cconf'[c])
         /\ Fits(copts'[c], cconf'[c], new)
<1> DEFINE o == copts[c]
           old == cconf[c]
<1>1. /\ IsOptions(o) /\ old \in ClientConfigs /\ Works(o, old)
      /\ Allowed(old, new)
  BY DEF TypeInv, ForceInv
<1>2. /\ copts' = [copts EXCEPT ![c] = SetOptions(o, old, new)]
      /\ cconf' = [cconf EXCEPT ![c] = Recorded(old, new)]
  BY DEF ReloadClient
<1> HIDE DEF o, old
<1>3. /\ IsOptions(SetOptions(o, old, new))
      /\ Works(SetOptions(o, old, new), new)
      /\ Works(SetOptions(o, old, new), Recorded(old, new))
      /\ Recorded(old, new) \in ClientConfigs
      /\ Recorded(old, new).addrs = old.addrs
      /\ Recorded(old, new).ignoreReadOnly = new.ignoreReadOnly
      /\ AddrBag(old) = AddrBag(new)
  BY <1>1, ReloadedWorks
<1>4. /\ cconf' \in [Client -> ClientConfigs]
      /\ DOMAIN copts' = Client /\ \A d \in Client : IsOptions(copts'[d])
      /\ copts'[c] = SetOptions(o, old, new) /\ cconf'[c] = Recorded(old, new)
      /\ \A d \in Client :
              d # c => cconf'[d] = cconf[d] /\ copts'[d] = copts[d]
  BY <1>2, <1>3 DEF TypeInv
<1>5. AddrBag(cconf'[c]) = AddrBag(cconf[c])
  BY <1>3, <1>4 DEF AddrBag, old
<1>6. Fits(copts'[c], cconf'[c], new)
  BY <1>3, <1>4, <1>5 DEF Fits, old
<1> QED
  BY <1>3, <1>4, <1>5, <1>6

\* A client is only created for an entry that no listed client is left for:
\* those of its name serve the earlier entries of that name.
LEMMA CreatedIsNeeded ==
  ASSUME TypeInv, ListInv, RoomInv, ApplyInv,
         pc = "loads", Len(fresh) < Len(conf.loads), SameName = {}
  PROVE  /\ made \in Client
         /\ IsFiniteSet(Rest \ {Len(fresh) + 1})
         /\ made + 1 + Cardinality(Rest \ {Len(fresh) + 1}) <= MaxClients + 1
<1> DEFINE k == Len(fresh) + 1
           l == conf.loads
           a == AddrBag(l[k])
           J == {j \in DOMAIN list : AddrBag(cconf[list[j]]) = a}
           W == {j \in 1..k : AddrBag(l[j]) = a}
           V == W \ {k}
<1>1. /\ Len(fresh) \in Nat /\ Len(l) \in Nat /\ DOMAIN l = 1..Len(l)
      /\ DOMAIN fresh = 1..Len(fresh) /\ k \in 1..Len(l) /\ Entry = l[k]
  BY EntryType DEF Entry
<1>2. IsFiniteSet(W) /\ Cardinality(W) \in Nat
  <2>1. IsFiniteSet(1..k)
    BY <1>1, FS_Interval
  <2> QED
    BY <2>1, FS_Subset, FS_CardinalityType
<1>3. IsFiniteSet(V) /\ Cardinality(V) = Cardinality(W) - 1
  <2>1. k \in W
    BY <1>1
  <2> HIDE DEF W
  <2> QED
    BY <1>2, <2>1, FS_RemoveElement
<1>4. ASSUME NEW j \in J PROVE \E i \in V : fresh[i] = list[j]
  <2>1. list[j] \in ToSet(list)
    BY DEF ToSet
  <2>2. list[j] \in ToSet(fresh) \cup ToSet(spare)
    BY <2>1 DEF ListInv, InLoads
  <2>3. list[j] \notin ToSet(spare)
    <3>1. \A i \in DOMAIN spare : AddrBag(cconf[spare[i]]) # a
      BY <1>1 DEF SameName
    <3> QED
      BY <3>1 DEF ToSet
  <2>4. PICK i \in DOMAIN fresh : fresh[i] = list[j]
    BY <2>2, <2>3 DEF ToSet
  <2>5. AddrBag(cconf[fresh[i]]) = AddrBag(l[i])
    BY DEF ApplyInv, InLoads, Meets, Fits
  <2>6. i \in 1..k /\ i # k
    BY <1>1
  <2> QED
    BY <2>4, <2>5, <2>6
<1>5. Cardinality(J) <= Cardinality(V)
  <2> DEFINE f == [j \in J |-> CHOOSE i \in V : fresh[i] = list[j]]
  <2>1. \A j \in J : f[j] \in V /\ fresh[f[j]] = list[j]
    <3> HIDE DEF J, V
    <3> QED
      BY <1>4
  <2>2. J \subseteq DOMAIN list /\ \A i, j \in DOMAIN list : list[i] = list[j] => i = j
    BY DEF ListInv, IsInjective
  <2>3. f \in [J -> V]
    <3> HIDE DEF J, V
    <3> QED
      BY <1>4
  <2>4. f \in Injection(J, V)
    <3> HIDE DEF J, V, f
    <3> QED
      BY <2>1, <2>2, <2>3 DEF Injection, IsInjective
  <2> HIDE DEF J, V, f
  <2> QED
    BY <1>3, <2>4, FS_Injection
<1>6. IsFiniteSet(J) /\ Cardinality(J) \in Nat
  <2>1. IsFiniteSet(DOMAIN list)
    <3>1. Len(list) \in Nat /\ DOMAIN list = 1..Len(list)
      BY LenProperties DEF TypeInv
    <3> QED
      BY <3>1, FS_Interval
  <2> QED
    BY <2>1, FS_Subset, FS_CardinalityType
<1>7. k \in Rest
  <2>1. Wanted(l, k) = Cardinality(W) /\ Listed(a) = Cardinality(J)
    BY DEF Wanted, Listed
  <2> HIDE DEF W, V, J
  <2>2. Wanted(l, k) > Listed(a)
    BY <1>2, <1>3, <1>5, <1>6, <2>1
  <2> QED
    BY <1>1, <2>2 DEF Rest, Needed
<1>8. IsFiniteSet(Rest)
  <2>1. IsFiniteSet(1..Len(l))
    BY <1>1, FS_Interval
  <2>2. Rest \in SUBSET (1..Len(l))
    BY <1>1 DEF Rest, Needed
  <2> QED
    BY <2>1, <2>2, FS_Subset
<1>9. /\ IsFiniteSet(Rest \ {k})
      /\ Cardinality(Rest \ {k}) = Cardinality(Rest) - 1
      /\ Cardinality(Rest \ {k}) \in Nat
  BY <1>7, <1>8, FS_RemoveElement, FS_CardinalityType
<1>10. made + Cardinality(Rest) <= MaxClients + 1 /\ Cardinality(Rest) \in Nat
  BY <1>8, FS_CardinalityType DEF RoomInv
<1>11. made \in Nat /\ MaxClients \in Nat
  BY StartIsConfig DEF TypeInv
<1> HIDE DEF k
<1> QED
  BY <1>9, <1>10, <1>11 DEF Client, k

LEMMA ReturnType ==
  ASSUME TypeInv, NEW x \in {"ok", "error", "ignored"},
         NEW new \in SUBSET Client, ReturnWith(x, new)
  PROVE  /\ pc' = "idle" /\ result' = x
         /\ conf' \in ConnectorConfigs
         /\ early' \in BOOLEAN
         /\ spare' = <<>> /\ spare' \in Seq(Client)
         /\ fresh' = <<>> /\ fresh' \in Seq(Client)
         /\ lost' \subseteq Client
<1>1. conf' \in ConnectorConfigs
  BY StartIsConfig DEF ReturnWith, TypeInv
<1>2. ToSet(fresh) \subseteq Client
  BY ElementOfSeq, LenProperties DEF TypeInv, ToSet
<1>3. lost' \subseteq Client
  BY <1>2 DEF ReturnWith, TypeInv
<1> QED
  BY <1>1, <1>3, Nothing DEF ReturnWith, TypeInv

\* The disjuncts of ReuseClient and CreateClient that go on.
ReuseOne == /\ Reusable
            /\ ReloadClient(spare[Reused], Entry)
            /\ fresh' = Append(fresh, spare[Reused])
            /\ spare' = RemoveAt(spare, Reused)
            /\ Continue
            /\ UNCHANGED pc

LEMMA ReuseEffect ==
  ASSUME TypeInv, ListInv, ForceInv, ReuseClient, ReuseOne
  PROVE  \E c \in Client :
           /\ c \in ToSet(spare) /\ c \in ToSet(list) /\ c # Main /\ c < made
           /\ cconf' \in [Client -> ClientConfigs]
           /\ DOMAIN copts' = Client /\ \A d \in Client : IsOptions(copts'[d])
           /\ \A d \in Client : AddrBag(cconf'[d]) = AddrBag(cconf[d])
           /\ \A d \in Client :
                d # c => cconf'[d] = cconf[d] /\ copts'[d] = copts[d]
           /\ Works(copts'[c], cconf'[c])
           /\ Fits(copts'[c], cconf'[c], Entry)
           /\ fresh' = Append(fresh, c) /\ fresh' \in Seq(Client)
           /\ spare' \in Seq(Client)
           /\ IsInjective(spare') /\ c \notin ToSet(spare')
           /\ ToSet(spare) = ToSet(spare') \cup {c}
<1> DEFINE c == spare[Reused]
<1>1. /\ Entry \in ClientConfigs
      /\ Reused \in DOMAIN spare /\ c \in ToSet(spare) /\ c \in Client
  BY EntryType, ReusedIsSpare DEF ReuseClient
<1>2. c \in ToSet(list) /\ c # Main /\ c < made
  BY <1>1 DEF ListInv
<1>3. Allowed(cconf[c], Entry) /\ ReloadClient(c, Entry)
  BY DEF ReuseOne, Reusable
<1>4. fresh' = Append(fresh, c) /\ spare' = RemoveAt(spare, Reused)
  BY DEF ReuseOne
<1>5. spare \in Seq(Client) /\ fresh \in Seq(Client) /\ IsInjective(spare)
  BY DEF TypeInv, ListInv
<1>6. /\ spare' \in Seq(Client)
      /\ IsInjective(spare') /\ c \notin ToSet(spare')
      /\ ToSet(spare') \subseteq ToSet(spare)
      /\ ToSet(spare) \subseteq ToSet(spare') \cup {c}
  BY <1>1, <1>4, <1>5, RemoveFrom
<1> HIDE DEF c
<1>7. fresh' \in Seq(Client)
  BY <1>1, <1>4, <1>5, AppendTo
<1>8. /\ cconf' \in [Client -> ClientConfigs]
      /\ DOMAIN copts' = Client /\ \A d \in Client : IsOptions(copts'[d])
      /\ \A d \in Client : AddrBag(cconf'[d]) = AddrBag(cconf[d])
      /\ \A d \in Client :
           d # c => cconf'[d] = cconf[d] /\ copts'[d] = copts[d]
      /\ Works(copts'[c], cconf'[c])
      /\ Fits(copts'[c], cconf'[c], Entry)
  BY <1>1, <1>2, <1>3, ReloadEffect
<1>9. ToSet(spare) = ToSet(spare') \cup {c}
  BY <1>1, <1>6
<1> QED
  BY <1>1, <1>2, <1>4, <1>6, <1>7, <1>8, <1>9

LEMMA CreateEffect ==
  ASSUME TypeInv, ListInv, RoomInv, ApplyInv, CreateClient
  PROVE  /\ made \in Client /\ made' = made + 1 /\ made' \in 0..(MaxClients + 1)
         /\ IsFiniteSet(Rest \ {Len(fresh) + 1})
         /\ made' + Cardinality(Rest \ {Len(fresh) + 1}) <= MaxClients + 1
         /\ cconf' \in [Client -> ClientConfigs]
         /\ DOMAIN copts' = Client /\ \A c \in Client : IsOptions(copts'[c])
         /\ \A c \in Client :
              c # made => cconf'[c] = cconf[c] /\ copts'[c] = copts[c]
         /\ Works(copts'[made], cconf'[made])
         /\ Fits(copts'[made], cconf'[made], Entry)
<1>1. PICK d \in Named(Entry) : NewClient(d)
  BY DEF CreateClient
<1>2. /\ made \in Client
      /\ IsFiniteSet(Rest \ {Len(fresh) + 1})
      /\ made + 1 + Cardinality(Rest \ {Len(fresh) + 1}) <= MaxClients + 1
  BY CreatedIsNeeded DEF CreateClient
<1>3. Entry \in ClientConfigs
  BY EntryType DEF CreateClient
<1>4. /\ d \in ClientConfigs /\ AddrBag(d) = AddrBag(Entry)
      /\ Works(Options(d), d) /\ Works(Options(d), Entry)
      /\ d.ignoreReadOnly = Entry.ignoreReadOnly
  BY <1>3, NamedKeeps
<1>5. /\ made' = made + 1 /\ made' \in 0..(MaxClients + 1)
      /\ cconf' \in [Client -> ClientConfigs]
      /\ DOMAIN copts' = Client /\ \A c \in Client : IsOptions(copts'[c])
      /\ cconf'[made] = d /\ copts'[made] = Options(d)
      /\ \A c \in Client :
           c # made => cconf'[c] = cconf[c] /\ copts'[c] = copts[c]
  BY <1>1, <1>2, <1>4, NewEffect
<1> QED
  BY <1>2, <1>4, <1>5 DEF Fits

-----------------------------------------------------------------------------
(* Each part of the invariant, step by step.                               *)

LEMMA TypeStep ==
  ASSUME IInv, Next
  PROVE  TypeInv'
<1>0. TypeInv /\ BuildInv /\ ListInv /\ RoomInv /\ ForceInv /\ ApplyInv
  BY DEF IInv
<1>1. CASE MakeClient
  <2> DEFINE d == IF made = Main THEN Start.main ELSE Start.loads[made]
  <2>1. made \in 0..Len(Start.loads) /\ made \in Client
    BY <1>0, <1>1, StartIsConfig DEF MakeClient, BuildInv, TypeInv, Client
  <2>2. Start.main \in ClientConfigs /\ Start.loads \in Seq(ClientConfigs)
    BY StartIsConfig DEF ConnectorConfigs
  <2>3. d \in ClientConfigs
    <3>1. made # Main => made \in 1..Len(Start.loads)
      BY <2>1 DEF Main
    <3> QED
      BY <2>2, <3>1, ElementOfSeq
  <2>4. NewClient(d)
    BY <1>1 DEF MakeClient
  <2> HIDE DEF d
  <2>5. /\ made' \in 0..(MaxClients + 1)
        /\ cconf' \in [Client -> ClientConfigs]
        /\ DOMAIN copts' = Client /\ \A c \in Client : IsOptions(copts'[c])
    BY <1>0, <2>1, <2>3, <2>4, NewEffect
  <2>6. list' \in Seq(Client)
    <3>1. list \in Seq(Client) /\ Append(list, made) \in Seq(Client)
      BY <1>0, <2>1, AppendTo DEF TypeInv
    <3> QED
      BY <1>1, <3>1 DEF MakeClient
  <2>7. lost' \subseteq Client
    <3>1. lost \subseteq Client /\ 0..made \subseteq Client
      BY <1>0, <2>1, StartIsConfig DEF TypeInv, Client
    <3> QED
      BY <1>1, <3>1 DEF MakeClient
  <2>8. built' \in {"registered", "clients", "failed"}
    BY <1>1 DEF MakeClient
  <2> QED
    BY <1>0, <1>1, <2>5, <2>6, <2>7, <2>8 DEF MakeClient, closeVars, TypeInv
<1>2. CASE SetProcessAll \/ SetScheduler
  BY <1>0, <1>2, StartIsConfig
     DEF SetProcessAll, SetScheduler, TypeInv, ConnectorConfigs, clientVars,
         reloadVars, closeVars
<1>3. ASSUME NEW c \in Config, Change(InitedAll(c)) PROVE TypeInv'
  <2>1. InitedAll(c) \in ConnectorConfigs
    BY ConfigType, InitedAllKeepsType
  <2> DEFINE new == InitedAll(c)
  <2> HIDE DEF new
  <2>2. new \in ConnectorConfigs /\ new.all \in BOOLEAN
    BY <2>1 DEF new, ConnectorConfigs
  <2>3. Change(new)
    BY <1>3 DEF new
  <2>4. (built # "done") \in BOOLEAN /\ FALSE \in BOOLEAN
    OBVIOUS
  <2>5. /\ pc' \in {"idle", "options"}
        /\ result' \in {"none", "ignored", "ok", "error"}
        /\ processAll' \in BOOLEAN
        /\ conf' \in ConnectorConfigs
        /\ spare' \in Seq(Client) /\ fresh' \in Seq(Client)
        /\ lost' \subseteq Client
    <3>1. CASE UNCHANGED <<result, spare, fresh, lost>> /\ pc' = "options"
                 /\ conf' = new /\ processAll' = new.all
      BY <1>0, <2>2, <3>1 DEF TypeInv
    <3>2. CASE /\ Return("error") \/ Return("ignored")
               /\ UNCHANGED processAll
      <4>1. PICK x \in {"ok", "error", "ignored"} : ReturnWith(x, {})
        BY <3>2 DEF Return
      <4> QED
        BY <1>0, <3>2, <4>1, ReturnType DEF TypeInv
    <3> QED
      BY <2>3, <3>1, <3>2 DEF Change
  <2>6. early' \in BOOLEAN /\ touched' \in BOOLEAN
    BY <2>3 DEF Change, Return, ReturnWith
  <2> QED
    BY <1>0, <2>3, <2>5, <2>6 DEF Change, TypeInv, buildVars, clientVars, closeVars
<1>4. CASE CompareScheduler
  <2>1. CASE Return("error")
    <3>1. ReturnWith("error", {})
      BY <2>1 DEF Return
    <3> QED
      BY <1>0, <1>4, <3>1, ReturnType
         DEF CompareScheduler, TypeInv, buildVars, clientVars, closeVars
  <2>2. CASE pc' = "main" /\ Continue /\ UNCHANGED <<spare, fresh>>
    BY <1>0, <1>4, <2>2
       DEF CompareScheduler, Continue, TypeInv, buildVars, clientVars, closeVars
  <2> QED
    BY <1>4, <2>1, <2>2 DEF CompareScheduler
<1>5. CASE ReloadMain
  <2>1. CASE Refuse
    <3>1. ReturnWith("error", {})
      BY <2>1 DEF Refuse, Return
    <3> QED
      BY <1>0, <1>5, <2>1, <3>1, ReturnType
         DEF ReloadMain, Refuse, TypeInv, buildVars, closeVars
  <2>2. CASE /\ Allowed(cconf[Main], conf.main)
             /\ ReloadClient(Main, conf.main)
             /\ spare' = list /\ pc' = "loads" /\ Continue /\ UNCHANGED fresh
    <3>1. Main \in Client /\ Main < made /\ conf.main \in ClientConfigs
      BY <1>0, <1>5, StartIsConfig
         DEF ReloadMain, TypeInv, BuildInv, ConnectorConfigs, Client, Main
    <3>2. /\ cconf' \in [Client -> ClientConfigs]
          /\ DOMAIN copts' = Client /\ \A c \in Client : IsOptions(copts'[c])
      BY <1>0, <2>2, <3>1, ReloadEffect
    <3>3. touched' \in BOOLEAN
      BY <2>2 DEF ReloadClient
    <3> QED
      BY <1>0, <1>5, <2>2, <3>2, <3>3
         DEF ReloadMain, Continue, TypeInv, buildVars, closeVars
  <2> QED
    BY <1>5, <2>1, <2>2 DEF ReloadMain
<1>6. CASE ReuseClient
  <2>1. CASE Refuse
    <3>1. ReturnWith("error", {})
      BY <2>1 DEF Refuse, Return
    <3> QED
      BY <1>0, <1>6, <2>1, <3>1, ReturnType
         DEF ReuseClient, Refuse, TypeInv, buildVars, closeVars
  <2>2. CASE ReuseOne
    <3>1. /\ cconf' \in [Client -> ClientConfigs]
          /\ DOMAIN copts' = Client /\ \A c \in Client : IsOptions(copts'[c])
          /\ fresh' \in Seq(Client) /\ spare' \in Seq(Client)
      BY <1>0, <1>6, <2>2, ReuseEffect
    <3>2. touched' \in BOOLEAN
      BY <2>2 DEF ReuseOne, ReloadClient
    <3> QED
      BY <1>0, <1>6, <2>2, <3>1, <3>2
         DEF ReuseClient, ReuseOne, Continue, TypeInv, buildVars, closeVars
  <2> QED
    BY <1>6, <2>1, <2>2 DEF ReuseClient, ReuseOne
<1>7. CASE CreateClient
  <2>2. /\ made' \in 0..(MaxClients + 1) /\ made \in Client
        /\ cconf' \in [Client -> ClientConfigs]
        /\ DOMAIN copts' = Client /\ \A c \in Client : IsOptions(copts'[c])
    BY <1>0, <1>7, CreateEffect
  <2>3. CASE ReturnWith("error", {made})
    <3>1. {made} \in SUBSET Client
      BY <2>2
    <3> QED
      BY <1>0, <1>7, <2>2, <2>3, <3>1, ReturnType
         DEF CreateClient, TypeInv, buildVars, closeVars
  <2>4. CASE fresh' = Append(fresh, made) /\ Continue /\ UNCHANGED <<pc, spare>>
    <3>1. fresh' \in Seq(Client)
      BY <1>0, <2>2, <2>4, AppendTo DEF TypeInv
    <3> QED
      BY <1>0, <1>7, <2>2, <2>4, <3>1
         DEF CreateClient, Continue, TypeInv, buildVars, closeVars
  <2> QED
    BY <1>7, <2>3, <2>4 DEF CreateClient
<1>8. CASE RemoveClient
  <2>1. PICK i \in DOMAIN spare :
          /\ closers' = [closers EXCEPT ![spare[i]] = closers[spare[i]] + 1]
          /\ spare' = RemoveAt(spare, i)
    BY <1>8 DEF RemoveClient
  <2>2. spare' \in Seq(Client)
    BY <1>0, <2>1, RemoveFrom DEF TypeInv
  <2>3. closers' \in [Client -> Nat]
    BY <1>0, <2>1 DEF TypeInv
  <2> QED
    BY <1>0, <1>8, <2>2, <2>3
       DEF RemoveClient, Continue, TypeInv, buildVars, clientVars
<1>9. CASE RemoveReturns
  BY <1>0, <1>9 DEF RemoveReturns, Continue, TypeInv, buildVars, clientVars, closeVars
<1>10. CASE ReplaceList
  <2>1. ReturnWith("ok", {}) /\ list' = fresh
    BY <1>10 DEF ReplaceList, Return
  <2> QED
    BY <1>0, <1>10, <2>1, ReturnType
       DEF ReplaceList, TypeInv, buildVars, clientVars, closeVars
<1>11. ASSUME NEW c \in Client, CloseChan(c) PROVE TypeInv'
  BY <1>0, <1>11 DEF CloseChan, TypeInv, buildVars, clientVars, reloadVars
<1>12. CASE SdMain \/ SdLoadTests
  BY <1>0, <1>12 DEF SdMain, SdLoadTests, TypeInv, buildVars, clientVars, reloadVars, Main
<1>13. CASE CancelContext
  BY <1>0, <1>13 DEF CancelContext, TypeInv, buildVars, clientVars, reloadVars, closeVars
<1> QED
  BY <1>1, <1>2, <1>3, <1>4, <1>5, <1>6, <1>7, <1>8, <1>9, <1>10, <1>11, <1>12,
     <1>13 DEF Next, ReloadStep

\* The steps beside reload leave what it works on alone.
LEMMA QuietStep ==
  ASSUME \/ SetProcessAll \/ SetScheduler \/ SdMain \/ SdLoadTests
         \/ \E c \in Client : CloseChan(c)
         \/ CancelContext
  PROVE  UNCHANGED <<pc, conf, spare, fresh, result, early, lost, list, made,
                     cconf, copts>>
BY DEF SetProcessAll, SetScheduler, SdMain, SdLoadTests, CloseChan,
       CancelContext, reloadVars, clientVars

\* A change is ignored or refused, or reload begins.
LEMMA ChangeEffect ==
  ASSUME NEW new, Change(new)
  PROVE  /\ built \in {"registered", "all", "done"} /\ pc = "idle"
         /\ UNCHANGED <<built, made, cconf, copts, list, closers, closeChan,
                        crashed, sd>>
         /\ \/ /\ \E x \in {"error", "ignored"} : ReturnWith(x, {})
               /\ UNCHANGED processAll
            \/ /\ pc' = "options" /\ conf' = new /\ processAll' = new.all
               /\ early' = (built # "done")
               /\ made + Cardinality(Needed(new.loads)) <= MaxClients + 1
               /\ UNCHANGED <<result, spare, fresh, lost>>
BY DEF Change, Return, buildVars, clientVars, closeVars

LEMMA BuildStep ==
  ASSUME IInv, Next
  PROVE  BuildInv'
<1>0. TypeInv /\ BuildInv
  BY DEF IInv
<1>1. CASE MakeClient
  <2>1. /\ made \in Nat /\ Len(Start.loads) \in Nat
        /\ made <= Len(Start.loads) /\ pc = "idle" /\ result = "none"
        /\ lost = {}
    BY <1>0, <1>1, StartIsConfig DEF MakeClient, TypeInv, BuildInv
  <2>2. made' = made + 1 /\ pc' = pc /\ result' = result
    BY <1>1 DEF MakeClient, NewClient
  <2>3. \/ built' = "failed"
        \/ /\ lost' = lost
           /\ built' = IF made = Len(Start.loads) THEN "registered"
                                                  ELSE "clients"
    BY <1>1 DEF MakeClient
  <2> QED
    BY <2>1, <2>2, <2>3 DEF BuildInv, Main
<1>2. CASE SetProcessAll \/ SetScheduler
  BY <1>0, <1>2 DEF SetProcessAll, SetScheduler, BuildInv, clientVars,
                    reloadVars
<1>3. ASSUME NEW c \in Config, Change(InitedAll(c)) PROVE BuildInv'
  BY <1>0, <1>3, ChangeEffect DEF BuildInv
<1>4. CASE ReloadStep
  <2>1. built' = built /\ pc # "idle"
    BY <1>4 DEF ReloadStep, CompareScheduler, ReloadMain, ReuseClient,
         CreateClient, RemoveClient, RemoveReturns, ReplaceList, buildVars
  <2>2. made' = made \/ made' = made + 1
    BY <1>4 DEF ReloadStep, CompareScheduler, ReloadMain, ReuseClient,
         CreateClient, RemoveClient, RemoveReturns, ReplaceList, clientVars,
         NewClient
  <2> QED
    BY <1>0, <2>1, <2>2 DEF BuildInv, TypeInv, Main
<1>5. CASE \/ SdMain \/ SdLoadTests \/ \E c \in Client : CloseChan(c)
           \/ CancelContext
  <2>1. UNCHANGED <<pc, result, made, lost>>
    BY <1>5, QuietStep
  <2>2. built' = built
    BY <1>5 DEF SdMain, SdLoadTests, CloseChan, CancelContext, buildVars
  <2> QED
    BY <1>0, <2>1, <2>2 DEF BuildInv
<1> QED
  BY <1>1, <1>2, <1>3, <1>4, <1>5 DEF Next

LEMMA ListStep ==
  ASSUME IInv, Next
  PROVE  ListInv'
<1>0. TypeInv /\ BuildInv /\ ListInv /\ RoomInv /\ ForceInv /\ ApplyInv
  BY DEF IInv
<1>a. /\ list \in Seq(Client) /\ fresh \in Seq(Client) /\ spare \in Seq(Client)
      /\ made \in Nat
  BY <1>0 DEF TypeInv
\* All of it when reload returns, or has not come to the load tests.
<1>b. ASSUME pc' \in {"idle", "options", "main"}, fresh' = <<>>, spare' = <<>>,
             IsInjective(list'),
             \A c \in ToSet(list') : c # Main /\ c < made'
      PROVE  ListInv'
  BY <1>b, Nothing DEF ListInv, InLoads
<1>c. ASSUME NEW x, NEW new, ReturnWith(x, new),
             list' = list \/ list' = fresh, made' >= made, made' \in Nat
      PROVE  ListInv'
  <2>1. \A c \in ToSet(list') : c \in Client /\ c # Main /\ c < made
    <3>1. \A c \in ToSet(list) \cup ToSet(fresh) : c \in Client
      BY <1>a, ElementOfSeq, LenProperties DEF ToSet
    <3> QED
      BY <1>0, <1>c, <3>1 DEF ListInv
  <2>2. \A c \in ToSet(list') : c # Main /\ c < made'
    BY <1>a, <1>c, <2>1, StartIsConfig DEF Client
  <2> QED
    BY <1>0, <1>b, <1>c, <2>2 DEF ReturnWith, ListInv
<1>1. CASE MakeClient
  <2>1. /\ pc' = "idle" /\ fresh' = <<>> /\ spare' = <<>> /\ made' = made + 1
    BY <1>0, <1>1 DEF MakeClient, NewClient, BuildInv, ListInv, InLoads
  <2>2. CASE list' = list
    <3>1. \A c \in ToSet(list) : c \in Client
      BY <1>a, ElementOfSeq, LenProperties DEF ToSet
    <3>2. \A c \in ToSet(list) : c # Main /\ c < made + 1
      BY <1>0, <1>a, <3>1, StartIsConfig DEF ListInv, Client
    <3> QED
      BY <1>0, <1>b, <2>1, <2>2, <3>2 DEF ListInv
  <2>3. CASE list' = Append(list, made) /\ made # Main
    <3>1. made \in Client
      BY <1>0, <1>1, StartIsConfig DEF MakeClient, BuildInv, TypeInv, Client
    <3>2. \A c \in ToSet(list) : c \in Client
      BY <1>a, ElementOfSeq, LenProperties DEF ToSet
    <3>3. \A c \in ToSet(list) : c # Main /\ c < made /\ c \in Int
      BY <1>0, <1>a, <3>2, StartIsConfig DEF ListInv, Client
    <3>4. made \notin ToSet(list) /\ IsInjective(list)
      BY <1>0, <1>a, <3>3 DEF ListInv
    <3>5. /\ ToSet(list') = ToSet(list) \cup {made}
          /\ IsInjective(list')
      BY <1>a, <2>3, <3>1, <3>4, AppendTo
    <3>6. \A c \in ToSet(list') : c # Main /\ c < made + 1
      BY <1>a, <2>3, <3>3, <3>5
    <3> QED
      BY <1>b, <2>1, <3>5, <3>6
  <2> QED
    BY <1>1, <2>2, <2>3 DEF MakeClient
<1>3. ASSUME NEW c \in Config, Change(InitedAll(c)) PROVE ListInv'
  <2> DEFINE new == InitedAll(c)
  <2> HIDE DEF new
  <2>1. Change(new)
    BY <1>3 DEF new
  <2>2. CASE \E x \in {"error", "ignored"} : ReturnWith(x, {})
    BY <1>a, <1>c, <2>1, <2>2, ChangeEffect
  <2>3. CASE pc' = "options" /\ UNCHANGED <<spare, fresh>>
    <3>1. pc = "idle" /\ list' = list /\ made' = made
      BY <2>1, ChangeEffect
    <3>2. fresh' = <<>> /\ spare' = <<>>
      BY <1>0, <2>3, <3>1 DEF ListInv, InLoads
    <3> QED
      BY <1>0, <1>b, <2>3, <3>1, <3>2 DEF ListInv
  <2> QED
    BY <2>1, <2>2, <2>3, ChangeEffect
<1>4. CASE CompareScheduler
  <2>1. list' = list /\ made' = made /\ pc = "options"
    BY <1>4 DEF CompareScheduler, clientVars
  <2>2. CASE Return("error")
    BY <1>a, <1>c, <2>1, <2>2 DEF Return
  <2>3. CASE pc' = "main" /\ UNCHANGED <<spare, fresh>>
    <3>1. fresh' = <<>> /\ spare' = <<>>
      BY <1>0, <2>3, <2>1 DEF ListInv, InLoads
    <3> QED
      BY <1>0, <1>b, <2>1, <2>3, <3>1 DEF ListInv
  <2> QED
    BY <1>4, <2>2, <2>3 DEF CompareScheduler
<1>5. CASE ReloadMain
  <2>1. list' = list /\ made' = made /\ pc = "main"
    BY <1>5 DEF ReloadMain
  <2>2. CASE Refuse
    BY <1>a, <1>c, <2>1, <2>2 DEF Refuse, Return
  <2>3. CASE pc' = "loads" /\ spare' = list /\ fresh' = fresh /\ conf' = conf
    <3>1. fresh = <<>>
      BY <1>0, <2>1 DEF ListInv, InLoads
    <3>2. Len(conf.loads) \in Nat
      BY <1>0, LenProperties DEF TypeInv, ConnectorConfigs
    <3> QED
      BY <1>0, <2>1, <2>3, <3>1, <3>2, Nothing DEF ListInv, InLoads
  <2> QED
    BY <1>5, <2>2, <2>3 DEF ReloadMain, Continue
<1>6. CASE ReuseClient
  <2>1. list' = list /\ made' = made /\ pc = "loads" /\ Len(fresh) < Len(conf.loads)
    BY <1>6 DEF ReuseClient
  <2>2. CASE Refuse
    BY <1>a, <1>c, <2>1, <2>2 DEF Refuse, Return
  <2>3. CASE ReuseOne
    <3>1. PICK c \in Client :
           /\ c \in ToSet(spare) /\ c \in ToSet(list) /\ c # Main /\ c < made
           /\ fresh' = Append(fresh, c)
           /\ IsInjective(spare') /\ c \notin ToSet(spare')
           /\ ToSet(spare) = ToSet(spare') \cup {c}
      BY <1>0, <1>6, <2>3, ReuseEffect
    <3>2. IsInjective(fresh) /\ c \notin ToSet(fresh)
      BY <1>0, <3>1 DEF ListInv
    <3>3. /\ IsInjective(fresh') /\ ToSet(fresh') = ToSet(fresh) \cup {c}
          /\ Len(fresh') = Len(fresh) + 1
      BY <1>a, <3>1, <3>2, AppendTo
    <3>4. conf' = conf /\ pc' = pc
      BY <2>3 DEF ReuseOne, Continue
    <3>5. Len(fresh) \in Nat /\ Len(conf.loads) \in Nat
      BY <1>0, <2>1, EntryType
    <3>6. /\ ToSet(spare') \subseteq ToSet(list) /\ ToSet(fresh') \cap ToSet(spare') = {}
          /\ \A d \in ToSet(list) \cup ToSet(fresh') : d # Main /\ d < made
          /\ ToSet(list) \subseteq ToSet(fresh') \cup ToSet(spare')
      BY <1>0, <2>1, <3>1, <3>3 DEF ListInv, InLoads
    <3>7. Len(fresh') <= Len(conf'.loads) /\ pc' = "loads"
      BY <2>1, <3>3, <3>4, <3>5
    <3> QED
      BY <1>0, <2>1, <3>1, <3>3, <3>6, <3>7 DEF ListInv, InLoads
  <2> QED
    BY <1>6, <2>2, <2>3 DEF ReuseClient, ReuseOne
<1>7. CASE CreateClient
  <2>1. list' = list /\ pc = "loads" /\ Len(fresh) < Len(conf.loads)
    BY <1>7 DEF CreateClient
  <2>2. made \in Client /\ made' = made + 1
    BY <1>0, <1>7, CreateEffect
  <2>3. CASE ReturnWith("error", {made})
    BY <1>a, <1>c, <2>1, <2>2, <2>3
  <2>4. CASE fresh' = Append(fresh, made) /\ Continue /\ UNCHANGED <<pc, spare>>
    <3>1. \A c \in ToSet(list) \cup ToSet(fresh) : c \in Client
      BY <1>a, ElementOfSeq, LenProperties DEF ToSet
    <3>2. \A c \in ToSet(list) \cup ToSet(fresh) : c # Main /\ c < made /\ c \in Int
      BY <1>0, <3>1, StartIsConfig DEF ListInv, Client
    <3>3. made \notin ToSet(list) \cup ToSet(fresh) /\ made # Main
      <4>1. made > Main
        BY <1>0, <2>1 DEF BuildInv
      <4> QED
        BY <1>a, <3>2, <4>1 DEF Main
    <3>4. /\ IsInjective(fresh') /\ ToSet(fresh') = ToSet(fresh) \cup {made}
          /\ Len(fresh') = Len(fresh) + 1
      BY <1>0, <1>a, <2>2, <2>4, <3>3, AppendTo DEF ListInv
    <3>5. Len(fresh) \in Nat /\ Len(conf.loads) \in Nat
      BY <1>0, <2>1, EntryType
    <3>6. \A c \in ToSet(list) \cup ToSet(fresh') : c # Main /\ c < made'
      BY <1>a, <2>2, <3>2, <3>3, <3>4
    <3>7. /\ ToSet(fresh') \cap ToSet(spare) = {}
          /\ ToSet(list) \subseteq ToSet(fresh') \cup ToSet(spare)
      BY <1>0, <2>1, <3>3, <3>4 DEF ListInv, InLoads
    <3> QED
      BY <1>0, <2>1, <2>4, <3>4, <3>5, <3>6, <3>7 DEF ListInv, InLoads, Continue
  <2> QED
    BY <1>7, <2>3, <2>4 DEF CreateClient
<1>8. CASE RemoveClient
  <2>1. PICK i \in DOMAIN spare : spare' = RemoveAt(spare, i)
    BY <1>8 DEF RemoveClient
  <2>2. /\ IsInjective(spare') /\ ToSet(spare') \subseteq ToSet(spare)
    BY <1>0, <1>a, <2>1, RemoveFrom DEF ListInv
  <2>3. /\ UNCHANGED <<list, fresh, conf, made>>
        /\ pc' = "wait" /\ Len(fresh) = Len(conf.loads)
    BY <1>0, <1>8 DEF RemoveClient, Removing, Continue, clientVars, ListInv
  <2>4. Len(fresh) \in Nat
    BY <1>a, LenProperties
  <2> QED
    BY <1>0, <2>2, <2>3, <2>4 DEF ListInv, InLoads
<1>9. CASE RemoveReturns
  <2>1. Len(fresh) \in Nat
    BY <1>a, LenProperties
  <2> QED
    BY <1>0, <1>9, <2>1 DEF RemoveReturns, Continue, clientVars, ListInv, InLoads
<1>10. CASE ReplaceList
  BY <1>a, <1>c, <1>10 DEF ReplaceList, Return, clientVars
<1>11. CASE \/ SetProcessAll \/ SetScheduler \/ SdMain \/ SdLoadTests
            \/ \E c \in Client : CloseChan(c)
            \/ CancelContext
  BY <1>0, <1>11, QuietStep DEF ListInv, InLoads
<1> QED
  BY <1>1, <1>3, <1>4, <1>5, <1>6, <1>7, <1>8, <1>9, <1>10, <1>11
     DEF Next, ReloadStep

\* Which clients are missing depends on the names of the listed ones, and a
\* reload leaves a client its name.
LEMMA NeededStays ==
  ASSUME list \in Seq(Client), list' = list, conf' = conf,
         \A c \in ToSet(list) : AddrBag(cconf'[c]) = AddrBag(cconf[c])
  PROVE  Needed(conf.loads)' = Needed(conf.loads)
<1>1. \A j \in DOMAIN list : AddrBag(cconf'[list[j]]) = AddrBag(cconf[list[j]])
  BY DEF ToSet
<1>2. \A a : Listed(a)' = Listed(a)
  <2> SUFFICES ASSUME NEW a
               PROVE  {j \in DOMAIN list' : AddrBag(cconf'[list'[j]]) = a}
                        = {j \in DOMAIN list : AddrBag(cconf[list[j]]) = a}
    BY DEF Listed, AddrBag
  <2> QED
    BY <1>1
<1> QED
  BY <1>2 DEF Needed, Wanted, AddrBag

LEMMA RestIsFinite ==
  ASSUME TypeInv
  PROVE  IsFiniteSet(Rest) /\ Cardinality(Rest) \in Nat
<1>1. Len(conf.loads) \in Nat /\ DOMAIN conf.loads = 1..Len(conf.loads)
  BY LenProperties DEF TypeInv, ConnectorConfigs
<1>2. Rest \in SUBSET (1..Len(conf.loads))
  BY <1>1 DEF Rest, Needed
<1>3. IsFiniteSet(1..Len(conf.loads))
  BY <1>1, FS_Interval
<1> HIDE DEF Rest
<1> QED
  BY <1>2, <1>3, FS_Subset, FS_CardinalityType

LEMMA RoomStep ==
  ASSUME IInv, Next
  PROVE  RoomInv'
<1>0. TypeInv /\ BuildInv /\ ListInv /\ RoomInv /\ ForceInv /\ ApplyInv
  BY DEF IInv
<1>a. list \in Seq(Client) /\ \A c \in ToSet(list) : c \in Client /\ c < made
  BY <1>0, ElementOfSeq, LenProperties DEF TypeInv, ListInv, ToSet
<1>b. ASSUME pc # "idle", made' = made, list' = list, conf' = conf,
             \A c \in ToSet(list) : AddrBag(cconf'[c]) = AddrBag(cconf[c]),
             Len(fresh') >= Len(fresh), Len(fresh) \in Nat, Len(fresh') \in Nat
      PROVE  RoomInv'
  <2>1. Needed(conf.loads)' = Needed(conf.loads)
    BY <1>a, <1>b, NeededStays
  <2>2. Rest' \subseteq Rest
    <3>1. Needed(conf.loads) \subseteq Nat
      BY <1>0, LenProperties DEF Needed, TypeInv, ConnectorConfigs
    <3> QED
      BY <1>b, <2>1, <3>1 DEF Rest
  <2>3. /\ Cardinality(Rest') <= Cardinality(Rest)
        /\ Cardinality(Rest') \in Nat /\ Cardinality(Rest) \in Nat
    BY <1>0, <2>2, RestIsFinite, FS_Subset, FS_CardinalityType
  <2>4. made + Cardinality(Rest) <= MaxClients + 1
    BY <1>0, <1>b DEF RoomInv
  <2>5. made' + Cardinality(Rest') <= MaxClients + 1
    BY <1>0, <1>b, <2>3, <2>4, StartIsConfig DEF TypeInv
  <2> QED
    BY <2>5 DEF RoomInv
<1>c. ASSUME pc' = "idle" PROVE RoomInv'
  BY <1>c DEF RoomInv
<1>d. Len(fresh) \in Nat
  BY <1>0, LenProperties DEF TypeInv
<1>1. CASE MakeClient
  BY <1>0, <1>1, <1>c DEF MakeClient, BuildInv
<1>3. ASSUME NEW c \in Config, Change(InitedAll(c)) PROVE RoomInv'
  <2> DEFINE new == InitedAll(c)
  <2>0. new \in ConnectorConfigs
    BY ConfigType, InitedAllKeepsType
  <2> HIDE DEF new
  <2>1. Change(new)
    BY <1>3 DEF new
  <2>2. CASE \E x \in {"error", "ignored"} : ReturnWith(x, {})
    BY <1>c, <2>2 DEF ReturnWith
  <2>3. CASE /\ conf' = new
             /\ made + Cardinality(Needed(new.loads)) <= MaxClients + 1
    <3>1. UNCHANGED <<list, cconf, made>>
      BY <2>1, ChangeEffect
    <3>2. Needed(conf.loads)' = Needed(new.loads)
      BY <2>3, <3>1 DEF Needed, Wanted, Listed, AddrBag
    <3>3. Rest' \subseteq Needed(new.loads)
      BY <3>2 DEF Rest
    <3>4. IsFiniteSet(Needed(new.loads))
      <4>1. Len(new.loads) \in Nat /\ DOMAIN new.loads = 1..Len(new.loads)
        BY <2>0, LenProperties DEF ConnectorConfigs
      <4>2. Needed(new.loads) \in SUBSET (1..Len(new.loads))
        BY <4>1 DEF Needed
      <4>3. IsFiniteSet(1..Len(new.loads))
        BY <4>1, FS_Interval
      <4> QED
        BY <4>2, <4>3, FS_Subset
    <3>5. /\ Cardinality(Rest') <= Cardinality(Needed(new.loads))
          /\ Cardinality(Rest') \in Nat /\ Cardinality(Needed(new.loads)) \in Nat
      BY <3>3, <3>4, FS_Subset, FS_CardinalityType
    <3>6. made' + Cardinality(Rest') <= MaxClients + 1
      BY <1>0, <2>3, <3>1, <3>5, StartIsConfig DEF TypeInv
    <3> QED
      BY <3>6 DEF RoomInv
  <2> QED
    BY <2>1, <2>2, <2>3, ChangeEffect
<1>4. CASE CompareScheduler
  <2>1. CASE Return("error")
    BY <1>c, <2>1 DEF Return, ReturnWith
  <2>2. CASE Continue /\ UNCHANGED <<spare, fresh>>
    BY <1>4, <1>b, <1>d, <2>2 DEF CompareScheduler, Continue, clientVars
  <2> QED
    BY <1>4, <2>1, <2>2 DEF CompareScheduler
<1>5. CASE ReloadMain
  <2>1. CASE Refuse
    BY <1>c, <2>1 DEF Refuse, Return, ReturnWith
  <2>2. CASE /\ Allowed(cconf[Main], conf.main)
             /\ ReloadClient(Main, conf.main)
             /\ Continue /\ UNCHANGED fresh
    <3>1. Main \in Client /\ Main < made /\ conf.main \in ClientConfigs
      BY <1>0, <1>5, StartIsConfig
         DEF ReloadMain, TypeInv, BuildInv, ConnectorConfigs, Client, Main
    <3>2. \A c \in Client : AddrBag(cconf'[c]) = AddrBag(cconf[c])
      BY <1>0, <2>2, <3>1, ReloadEffect
    <3> QED
      BY <1>5, <1>a, <1>b, <1>d, <2>2, <3>2 DEF ReloadMain, Continue
  <2> QED
    BY <1>5, <2>1, <2>2 DEF ReloadMain
<1>6. CASE ReuseClient
  <2>1. CASE Refuse
    BY <1>c, <2>1 DEF Refuse, Return, ReturnWith
  <2>2. CASE ReuseOne
    <3>1. PICK c \in Client :
            /\ fresh' = Append(fresh, c)
            /\ \A d \in Client : AddrBag(cconf'[d]) = AddrBag(cconf[d])
      BY <1>0, <1>6, <2>2, ReuseEffect
    <3>2. Len(fresh') = Len(fresh) + 1
      BY <1>0, <3>1, AppendTo DEF TypeInv
    <3> QED
      BY <1>6, <1>a, <1>b, <1>d, <2>2, <3>1, <3>2 DEF ReuseClient, ReuseOne, Continue
  <2> QED
    BY <1>6, <2>1, <2>2 DEF ReuseClient, ReuseOne
<1>7. CASE CreateClient
  <2>1. CASE ReturnWith("error", {made})
    BY <1>c, <2>1 DEF ReturnWith
  <2>2. CASE fresh' = Append(fresh, made) /\ Continue
    <3>1. /\ made \in Client
          /\ made' + Cardinality(Rest \ {Len(fresh) + 1}) <= MaxClients + 1
          /\ \A c \in Client : c # made => cconf'[c] = cconf[c]
      BY <1>0, <1>7, CreateEffect
    <3>2. \A c \in ToSet(list) : cconf'[c] = cconf[c]
      <4>1. \A c \in ToSet(list) : c # made
        BY <1>0, <1>a DEF TypeInv
      <4> QED
        BY <1>a, <3>1, <4>1
    <3>3. Needed(conf.loads)' = Needed(conf.loads)
      BY <1>7, <1>a, <2>2, <3>2, NeededStays DEF CreateClient, Continue
    <3>4. Len(fresh') = Len(fresh) + 1
      BY <1>0, <2>2, <3>1, AppendTo DEF TypeInv
    <3>5. Rest' = Rest \ {Len(fresh) + 1}
      <4>1. Needed(conf.loads) \subseteq Nat
        BY <1>0, LenProperties DEF Needed, TypeInv, ConnectorConfigs
      <4> QED
        BY <1>d, <3>3, <3>4, <4>1 DEF Rest
    <3> QED
      BY <3>1, <3>5 DEF RoomInv
  <2> QED
    BY <1>7, <2>1, <2>2 DEF CreateClient
<1>8. CASE RemoveClient \/ RemoveReturns
  BY <1>8, <1>b, <1>d DEF RemoveClient, RemoveReturns, Continue, clientVars
<1>10. CASE ReplaceList
  BY <1>10, <1>c DEF ReplaceList, Return, ReturnWith
<1>11. CASE \/ SetProcessAll \/ SetScheduler \/ SdMain \/ SdLoadTests
            \/ \E c \in Client : CloseChan(c)
            \/ CancelContext
  <2>1. CASE pc = "idle"
    BY <1>11, <1>c, <2>1, QuietStep
  <2> QED
    BY <1>11, <1>b, <1>d, <2>1, QuietStep
<1> QED
  BY <1>1, <1>3, <1>4, <1>5, <1>6, <1>7, <1>8, <1>10, <1>11 DEF Next, ReloadStep

LEMMA HeldAreClients ==
  ASSUME TypeInv, ListInv
  PROVE  /\ \A c \in ToSet(list) \cup ToSet(fresh) \cup ToSet(spare) :
              c \in Client /\ c # Main /\ c < made
         /\ \A c \in Held : c \in Client /\ c # Main /\ c < made
         /\ ~InLoads => Held = ToSet(list)
         /\ Held \subseteq ToSet(list) \cup ToSet(fresh)
<1>1. \A c \in ToSet(list) \cup ToSet(fresh) \cup ToSet(spare) : c \in Client
  BY ElementOfSeq, LenProperties DEF TypeInv, ToSet
<1> QED
  BY <1>1 DEF ListInv, Held

\* What the connector holds changes by the client that is created and the one
\* that reload shuts down; what else it gives up a call has failed to keep.
LEMMA HeldStep ==
  ASSUME IInv,
         MakeClient \/ ReloadStep \/ \E c \in Config : Change(InitedAll(c))
  PROVE  /\ made' = made \/ (made' = made + 1 /\ made \in Client)
         /\ lost \subseteq lost'
         /\ \A c \in Held' : c \in Held \/ (c = made /\ made' = made + 1)
         /\ RemoveClient \/ \A c \in Held : c \in Held' \cup lost'
         /\ made' = made + 1 => made \in {Main} \cup Held' \cup lost'
         /\ RemoveClient \/ UNCHANGED <<closers, closeChan, crashed>>
         /\ sd' = sd
<1> DEFINE P == /\ made' = made \/ (made' = made + 1 /\ made \in Client)
                /\ lost \subseteq lost'
                /\ \A c \in Held' : c \in Held \/ (c = made /\ made' = made + 1)
                /\ RemoveClient \/ \A c \in Held : c \in Held' \cup lost'
                /\ made' = made + 1 => made \in {Main} \cup Held' \cup lost'
<1>0. TypeInv /\ BuildInv /\ ListInv /\ RoomInv /\ ForceInv /\ ApplyInv
  BY DEF IInv
<1>a. /\ list \in Seq(Client) /\ fresh \in Seq(Client) /\ spare \in Seq(Client)
      /\ made \in Nat
  BY <1>0 DEF TypeInv
<1>b. /\ ~InLoads => Held = ToSet(list)
      /\ InLoads => Held = ToSet(fresh) \cup ToSet(spare)
      /\ ~InLoads' => Held' = ToSet(list')
      /\ InLoads' => Held' = ToSet(fresh') \cup ToSet(spare')
  BY DEF Held, ToSet
\* A call that fails keeps the list.
<1>c. ASSUME NEW new, ReturnWith("error", new), list' = list, ToSet(list) \subseteq Held,
             \/ made' = made
             \/ (made' = made + 1 /\ made \in Client /\ made \in new)
      PROVE  P
  <2>1. Held' = ToSet(list)
    BY <1>b, <1>c DEF ReturnWith, InLoads
  <2>2. lost' = lost \cup new \cup (ToSet(fresh) \ ToSet(list))
    BY <1>c DEF ReturnWith
  <2>3. Held \subseteq ToSet(list) \cup ToSet(fresh)
    BY <1>0, HeldAreClients
  <2> QED
    BY <1>a, <1>c, <2>1, <2>2, <2>3
\* A step that leaves all of it alone.
<1>d. ASSUME made' = made, Held' = Held, lost' = lost PROVE P
  <2> HIDE DEF Held
  <2> QED
    BY <1>a, <1>d
<1>e. pc = "loads" /\ Len(fresh) < Len(conf.loads) =>
        Held = ToSet(fresh) \cup ToSet(spare) /\ ToSet(list) \subseteq Held
  BY <1>0, <1>b DEF ListInv, InLoads
<1>f. /\ RemoveClient \/ UNCHANGED <<closers, closeChan, crashed>>
      /\ sd' = sd
  <2>1. CASE MakeClient
    BY <2>1 DEF MakeClient, closeVars
  <2>2. CASE \E c \in Config : Change(InitedAll(c))
    BY <2>2, ChangeEffect
  <2>3. CASE ReloadStep
    BY <2>3 DEF ReloadStep, CompareScheduler, ReloadMain, ReuseClient,
         CreateClient, RemoveClient, RemoveReturns, ReplaceList, closeVars
  <2> QED
    BY <2>1, <2>2, <2>3
<1> SUFFICES P
  BY <1>f
<1> HIDE DEF P
<1>1. CASE MakeClient
  <2>1. pc = "idle" /\ pc' = "idle" /\ made' = made + 1 /\ made \in Client
    BY <1>0, <1>1, StartIsConfig
       DEF MakeClient, NewClient, BuildInv, TypeInv, Client
  <2>2. Held = ToSet(list) /\ Held' = ToSet(list')
    BY <1>b, <2>1 DEF InLoads
  <2>3. CASE list' = list /\ lost' = 0..made
    <3>1. made \in lost' /\ lost \subseteq lost'
      BY <1>0, <1>1, <1>a, <2>3 DEF MakeClient, BuildInv
    <3> QED
      BY <2>1, <2>2, <2>3, <3>1 DEF P
  <2>4. CASE made = Main /\ list' = list /\ lost' = lost
    BY <2>1, <2>2, <2>4 DEF P
  <2>5. CASE list' = Append(list, made) /\ lost' = lost
    <3>1. ToSet(list') = ToSet(list) \cup {made}
      BY <1>a, <2>1, <2>5, AppendTo
    <3> QED
      BY <2>1, <2>2, <2>5, <3>1 DEF P
  <2> QED
    BY <1>1, <2>3, <2>4, <2>5 DEF MakeClient
<1>2. ASSUME NEW c \in Config, Change(InitedAll(c)) PROVE P
  <2>1. pc = "idle" /\ made' = made /\ list' = list
    BY <1>2, ChangeEffect
  <2>2. ToSet(fresh) = {} /\ Held = ToSet(list)
    BY <1>0, <1>b, <2>1, Nothing DEF ListInv, InLoads
  <2>3. pc' \in {"idle", "options"} /\ lost' = lost
    <3>1. CASE \E x \in {"error", "ignored"} : ReturnWith(x, {})
      BY <2>2, <3>1 DEF ReturnWith
    <3>2. CASE pc' = "options" /\ lost' = lost
      BY <3>2
    <3> QED
      BY <1>2, <3>1, <3>2, ChangeEffect
  <2>4. Held' = ToSet(list)
    BY <1>b, <2>1, <2>3 DEF InLoads
  <2> QED
    BY <1>d, <2>1, <2>2, <2>3, <2>4
<1>3. CASE CompareScheduler
  <2>1. pc = "options" /\ list' = list /\ made' = made
    BY <1>3 DEF CompareScheduler, clientVars
  <2>2. CASE Return("error")
    BY <1>b, <1>c, <2>1, <2>2 DEF Return, InLoads
  <2>3. CASE pc' = "main" /\ Continue
    BY <1>b, <1>d, <2>1, <2>3 DEF InLoads, Continue
  <2> QED
    BY <1>3, <2>2, <2>3 DEF CompareScheduler
<1>4. CASE ReloadMain
  <2>1. pc = "main" /\ list' = list /\ made' = made
    BY <1>4 DEF ReloadMain
  <2>2. CASE Refuse
    BY <1>b, <1>c, <2>1, <2>2 DEF Refuse, Return, InLoads
  <2>3. CASE pc' = "loads" /\ spare' = list /\ Continue /\ UNCHANGED fresh
    <3>1. ToSet(fresh') = {} /\ ToSet(spare') = ToSet(list)
      BY <1>0, <2>1, <2>3, Nothing DEF ListInv, InLoads
    <3> QED
      BY <1>b, <1>d, <2>1, <2>3, <3>1 DEF InLoads, Continue
  <2> QED
    BY <1>4, <2>2, <2>3 DEF ReloadMain
<1>5. CASE ReuseClient
  <2>1. /\ pc = "loads" /\ Len(fresh) < Len(conf.loads)
        /\ list' = list /\ made' = made
    BY <1>5 DEF ReuseClient
  <2>2. CASE Refuse
    BY <1>c, <1>e, <2>1, <2>2 DEF Refuse, Return
  <2>3. CASE ReuseOne
    <3>1. PICK c \in Client :
            fresh' = Append(fresh, c) /\ ToSet(spare) = ToSet(spare') \cup {c}
      BY <1>0, <1>5, <2>3, ReuseEffect
    <3>2. ToSet(fresh') = ToSet(fresh) \cup {c}
      BY <1>a, <3>1, AppendTo
    <3>3. pc' = "loads" /\ lost' = lost
      BY <2>1, <2>3 DEF ReuseOne, Continue
    <3> QED
      BY <1>b, <1>d, <2>1, <3>1, <3>2, <3>3 DEF InLoads
  <2> QED
    BY <1>5, <2>2, <2>3 DEF ReuseClient, ReuseOne
<1>6. CASE CreateClient
  <2>1. /\ pc = "loads" /\ Len(fresh) < Len(conf.loads) /\ list' = list
        /\ made \in Client /\ made' = made + 1
    BY <1>0, <1>6, CreateEffect DEF CreateClient
  <2>2. CASE ReturnWith("error", {made})
    BY <1>c, <1>e, <2>1, <2>2
  <2>3. CASE fresh' = Append(fresh, made) /\ Continue /\ UNCHANGED <<pc, spare>>
    <3>1. ToSet(fresh') = ToSet(fresh) \cup {made}
      BY <1>a, <2>1, <2>3, AppendTo
    <3>2. Held' = Held \cup {made}
      BY <1>b, <2>1, <2>3, <3>1 DEF InLoads
    <3> QED
      BY <2>1, <2>3, <3>2 DEF Continue, P
  <2> QED
    BY <1>6, <2>2, <2>3 DEF CreateClient
<1>7. CASE RemoveClient
  <2>1. PICK i \in DOMAIN spare : spare' = RemoveAt(spare, i)
    BY <1>7 DEF RemoveClient
  <2>2. ToSet(spare') \subseteq ToSet(spare)
    BY <1>a, <2>1, RemoveFrom
  <2>3. /\ pc = "loads" /\ pc' = "wait"
        /\ UNCHANGED <<made, lost, fresh, list>>
    BY <1>7 DEF RemoveClient, Continue, clientVars
  <2>4. Held' \subseteq Held
    BY <1>b, <2>2, <2>3 DEF InLoads
  <2> QED
    BY <1>7, <1>a, <2>3, <2>4 DEF P
<1>8. CASE RemoveReturns
  BY <1>8, <1>b, <1>d DEF RemoveReturns, Continue, clientVars, InLoads
<1>9. CASE ReplaceList
  <2>1. Held = ToSet(fresh) /\ Held' = ToSet(fresh) /\ made' = made /\ lost' = lost
    BY <1>9, <1>b, Nothing DEF ReplaceList, Return, ReturnWith, InLoads, clientVars
  <2> QED
    BY <1>d, <2>1
<1> QED
  BY <1>1, <1>2, <1>3, <1>4, <1>5, <1>6, <1>7, <1>8, <1>9 DEF ReloadStep

LEMMA CloseStep ==
  ASSUME IInv, Next
  PROVE  CloseInv'
<1>0. TypeInv /\ BuildInv /\ ListInv /\ CloseInv
  BY DEF IInv
<1>a. /\ closers \in [Client -> Nat] /\ closeChan \in [Client -> BOOLEAN]
      /\ made \in Nat /\ made' \in Nat /\ Main \in Client
      /\ \A c \in Client : c \in Nat
  BY <1>0, TypeStep, StartIsConfig DEF TypeInv, Client, Main
<1>b. \A c \in Held : c \in Client /\ c # Main /\ c < made
  BY <1>0, HeldAreClients
<1>c. \A c \in Client : c >= made => Idle(c)
  BY <1>0 DEF CloseInv
<1>1. CASE MakeClient \/ ReloadStep \/ \E c \in Config : Change(InitedAll(c))
  <2>1. /\ made' = made \/ (made' = made + 1 /\ made \in Client)
        /\ \A c \in Held' : c \in Held \/ (c = made /\ made' = made + 1)
        /\ RemoveClient \/ UNCHANGED <<closers, closeChan, crashed>>
        /\ sd' = sd
    BY <1>1, HeldStep
  <2>2. CASE UNCHANGED <<closers, closeChan, crashed>>
    <3>1. \A c \in Client : Idle(c)' = Idle(c) /\ Once(c)' = Once(c)
      BY <2>2 DEF Idle, Once
    <3>2. ASSUME NEW c \in Held'
          PROVE  closers'[c] <= 1 /\ (sd' # "done" => Idle(c)')
      <4>1. c \in Held \/ (c \in Client /\ Idle(c))
        BY <1>a, <1>c, <2>1
      <4>2. c \in Client
        BY <1>b, <4>1
      <4>3. Idle(c) => closers[c] <= 1
        BY DEF Idle
      <4> QED
        BY <1>0, <2>1, <2>2, <3>1, <4>1, <4>2, <4>3 DEF CloseInv
    <3>3. \A c \in Client : c >= made' => Idle(c)'
      BY <1>a, <1>c, <2>1, <3>1
    <3> QED
      BY <1>0, <1>a, <2>1, <2>2, <3>1, <3>2, <3>3 DEF CloseInv
  <2>3. CASE RemoveClient
    <3>1. PICK i \in DOMAIN spare :
            /\ closers' = [closers EXCEPT ![spare[i]] = closers[spare[i]] + 1]
            /\ spare' = RemoveAt(spare, i)
      BY <2>3 DEF RemoveClient
    <3>a. PICK r : r = spare[i]
      OBVIOUS
    <3>2. /\ spare \in Seq(Client) /\ r \in ToSet(spare) /\ r \notin ToSet(spare')
          /\ IsInjective(spare)
      BY <1>0, <3>1, <3>a, RemoveFrom DEF TypeInv, ListInv
    <3>3. r \in Held /\ r \in Client /\ r # Main /\ r < made
      BY <1>0, <2>3, <3>2, HeldAreClients DEF Held, RemoveClient, InLoads
    <3>4. r \notin ToSet(fresh)
      BY <1>0, <3>2 DEF ListInv
    <3>5. /\ UNCHANGED <<made, closeChan, crashed, fresh>> /\ pc' = "wait"
      BY <2>3 DEF RemoveClient, clientVars, Continue
    <3>6. r \notin Held'
      BY <3>2, <3>4, <3>5 DEF Held, InLoads, ToSet
    <3>7. /\ closers'[r] = closers[r] + 1
          /\ \A c \in Client : c # r => closers'[c] = closers[c]
      BY <1>a, <3>1, <3>3, <3>a
    <3>8. \A c \in Client : c # r => Idle(c)' = Idle(c) /\ Once(c)' = Once(c)
      BY <3>5, <3>7 DEF Idle, Once
    <3>9. closers'[r] <= 2 /\ (sd # "done" => Once(r)')
      <4>1. closers[r] <= 1 /\ (sd # "done" => Idle(r))
        BY <1>0, <3>3 DEF CloseInv
      <4>2. Idle(r) => Once(r)'
        BY <3>5, <3>7 DEF Idle, Once
      <4> QED
        BY <1>a, <2>1, <3>3, <3>7, <4>1, <4>2
    <3>10. \A c \in Client : c >= made' => Idle(c)'
      <4>1. \A c \in Client : c >= made' => c # r
        BY <1>a, <3>3, <3>5
      <4> QED
        BY <1>c, <3>5, <3>8, <4>1
    <3>11. \A c \in Held' : closers'[c] <= 1 /\ (sd' # "done" => Idle(c)')
      <4>1. \A c \in Held' : c \in Held /\ c \in Client /\ c # r
        BY <1>a, <1>b, <2>1, <3>5, <3>6
      <4> QED
        BY <1>0, <2>1, <3>7, <3>8, <4>1 DEF CloseInv
    <3>12. Once(Main)' /\ (sd' = "idle" => Idle(Main)' /\ ~crashed')
      BY <1>0, <1>a, <2>1, <3>3, <3>5, <3>8 DEF CloseInv
    <3>13. \A c \in Client : closers'[c] <= 2 /\ (sd' # "done" => Once(c)')
      BY <1>0, <2>1, <3>7, <3>8, <3>9 DEF CloseInv
    <3> QED
      BY <3>10, <3>11, <3>12, <3>13 DEF CloseInv
  <2> QED
    BY <2>1, <2>2, <2>3
<1>2. ASSUME UNCHANGED <<pc, fresh, spare, list>> PROVE Held' = Held
  BY <1>2 DEF Held, InLoads
<1>3. CASE SetProcessAll \/ SetScheduler \/ CancelContext
  <2>1. Held' = Held /\ made' = made
    BY <1>2, <1>3, QuietStep
  <2>2. UNCHANGED <<closers, closeChan, crashed, sd>>
    BY <1>3 DEF SetProcessAll, SetScheduler, CancelContext, closeVars
  <2> QED
    BY <1>0, <2>1, <2>2 DEF CloseInv, Idle, Once
<1>4. ASSUME NEW c \in Client, CloseChan(c) PROVE CloseInv'
  <2>1. Held' = Held /\ made' = made
    BY <1>2, <1>4, QuietStep
  <2>2. /\ closers[c] > 0 /\ closers'[c] = closers[c] - 1 /\ closeChan'[c] = TRUE
        /\ \A d \in Client : d # c =>
             closers'[d] = closers[d] /\ closeChan'[d] = closeChan[d]
        /\ crashed' = closeChan[c] /\ sd' = sd
    BY <1>4, <1>a DEF CloseChan
  <2>3. ~Idle(c) /\ closers[c] \in Nat
    BY <1>a, <2>2 DEF Idle
  <2>4. \A d \in Client : d # c => Idle(d)' = Idle(d) /\ Once(d)' = Once(d)
    BY <2>2 DEF Idle, Once
  <2>5. Once(c) => Once(c)' /\ ~closeChan[c]
    BY <2>2, <2>3 DEF Once
  <2>6. Once(Main)' /\ (sd' = "idle" => Idle(Main)' /\ ~crashed')
    <3>1. sd = "idle" => c # Main /\ Once(c)
      BY <1>0, <2>3 DEF CloseInv
    <3>2. sd = "idle" => ~crashed'
      BY <2>2, <2>5, <3>1
    <3>3. sd = "idle" => Idle(Main)'
      BY <1>0, <1>a, <2>4, <3>1 DEF CloseInv
    <3>4. Once(Main)'
      BY <1>0, <1>a, <2>4, <2>5 DEF CloseInv
    <3> QED
      BY <2>2, <3>2, <3>3, <3>4
  <2>7. \A d \in Client : d >= made' => Idle(d)'
    BY <1>c, <2>1, <2>3, <2>4
  <2>8. ASSUME NEW d \in Held
        PROVE  closers'[d] <= 1 /\ (sd' # "done" => Idle(d)')
    <3>1. d \in Client /\ closers[d] <= 1 /\ (sd # "done" => Idle(d))
      BY <1>0, <1>b DEF CloseInv
    <3>2. CASE d = c
      BY <2>2, <2>3, <3>1, <3>2
    <3>3. CASE d # c
      BY <2>2, <2>4, <3>1, <3>3
    <3> QED
      BY <3>2, <3>3
  <2>9. ASSUME NEW d \in Client
        PROVE  closers'[d] <= 2 /\ (sd' # "done" => Once(d)')
    <3>1. closers[d] <= 2 /\ (sd # "done" => Once(d))
      BY <1>0 DEF CloseInv
    <3>2. CASE d = c
      BY <2>2, <2>3, <2>5, <3>1, <3>2
    <3>3. CASE d # c
      BY <2>2, <2>4, <3>1, <3>3
    <3> QED
      BY <3>2, <3>3
  <2> QED
    BY <2>1, <2>6, <2>7, <2>8, <2>9 DEF CloseInv
<1>5. CASE SdMain
  <2>1. Held' = Held /\ made' = made
    BY <1>2, <1>5, QuietStep
  <2>2. /\ sd = "idle" /\ sd' = "main" /\ UNCHANGED <<closeChan, crashed>>
        /\ closers'[Main] = closers[Main] + 1
        /\ \A d \in Client : d # Main => closers'[d] = closers[d]
    BY <1>5, <1>a DEF SdMain
  <2>3. \A d \in Client : d # Main => Idle(d)' = Idle(d) /\ Once(d)' = Once(d)
    BY <2>2 DEF Idle, Once
  <2>4. Idle(Main)
    BY <1>0, <2>2 DEF CloseInv
  <2>5. Once(Main)' /\ closers'[Main] <= 2
    BY <2>2, <2>4 DEF Idle, Once
  <2>6. Main < made
    BY <1>0, <1>5 DEF BuildInv, SdMain
  <2>7. \A d \in Client : d >= made' => Idle(d)'
    <3>1. \A d \in Client : d >= made => d # Main
      BY <1>a, <2>6
    <3> QED
      BY <1>c, <2>1, <2>3, <3>1
  <2>8. \A d \in Held : closers'[d] <= 1 /\ (sd' # "done" => Idle(d)')
    BY <1>0, <1>b, <2>2, <2>3 DEF CloseInv
  <2>9. \A d \in Client : closers'[d] <= 2 /\ (sd' # "done" => Once(d)')
    BY <1>0, <2>2, <2>3, <2>5 DEF CloseInv
  <2> QED
    BY <2>1, <2>2, <2>5, <2>7, <2>8, <2>9 DEF CloseInv
<1>6. CASE SdLoadTests
  <2>1. Held' = Held /\ made' = made
    BY <1>2, <1>6, QuietStep
  <2>2. /\ sd = "main" /\ sd' = "done" /\ UNCHANGED <<closeChan, crashed>>
        /\ \A c \in Client : closers'[c] = IF c \in ToSet(list) THEN closers[c] + 1
                                                             ELSE closers[c]
    BY <1>6, <1>a DEF SdLoadTests
  <2>3. \A c \in ToSet(list) : c \in Client /\ c # Main /\ c < made
    BY <1>0, HeldAreClients
  <2>4. \A c \in Client : c \notin ToSet(list) =>
          Idle(c)' = Idle(c) /\ Once(c)' = Once(c)
    BY <2>2 DEF Idle, Once
  <2>5. \A c \in Client : Once(c) => closers[c] <= 1
    BY DEF Once
  <2>6. \A c \in Client : closers'[c] <= 2
    <3>1. \A c \in Client : closers[c] <= 1 /\ closers[c] \in Nat
      BY <1>0, <1>a, <2>2, <2>5 DEF CloseInv
    <3> QED
      BY <2>2, <3>1
  <2>7. \A c \in Held : closers'[c] <= 1
    <3>1. \A c \in Held : c \in Client /\ closers[c] = 0
      BY <1>0, <1>b, <2>2 DEF CloseInv, Idle
    <3> QED
      BY <2>2, <3>1
  <2>8. \A c \in Client : c >= made => Idle(c)'
    <3>1. \A c \in Client : c >= made => c \notin ToSet(list)
      BY <1>a, <2>3
    <3> QED
      BY <1>c, <2>4, <3>1
  <2>9. Once(Main)'
    BY <1>0, <1>a, <2>3, <2>4 DEF CloseInv
  <2> QED
    BY <2>1, <2>2, <2>6, <2>7, <2>8, <2>9 DEF CloseInv
<1> QED
  BY <1>1, <1>3, <1>4, <1>5, <1>6 DEF Next

LEMMA LeakStep ==
  ASSUME IInv, Next
  PROVE  LeakInv'
<1>0. TypeInv /\ BuildInv /\ ListInv /\ CloseInv /\ LeakInv
  BY DEF IInv
<1>a. /\ made \in Nat /\ made' \in Nat /\ \A c \in Client : c \in Nat
      /\ closers \in [Client -> Nat] /\ closeChan \in [Client -> BOOLEAN]
  BY <1>0, TypeStep, StartIsConfig DEF TypeInv, Client
<1>1. CASE MakeClient \/ ReloadStep \/ \E c \in Config : Change(InitedAll(c))
  <2>1. /\ made' = made \/ (made' = made + 1 /\ made \in Client)
        /\ lost \subseteq lost'
        /\ RemoveClient \/ \A c \in Held : c \in Held' \cup lost'
        /\ made' = made + 1 => made \in {Main} \cup Held' \cup lost'
        /\ RemoveClient \/ UNCHANGED <<closers, closeChan, crashed>>
    BY <1>1, HeldStep
  <2>2. CASE UNCHANGED <<closers, closeChan>> /\ ~RemoveClient
    <3> SUFFICES ASSUME NEW c \in Client, OpenClient(c)'
                 PROVE  c \in {Main} \cup Held' \cup lost'
      BY DEF LeakInv
    <3>1. c < made => OpenClient(c)
      BY <2>2 DEF OpenClient
    <3>2. c < made' => c < made \/ (c = made /\ made' = made + 1)
      BY <1>a, <2>1
    <3> QED
      BY <1>0, <2>1, <2>2, <3>1, <3>2 DEF LeakInv, OpenClient
  <2>3. CASE RemoveClient
    <3>1. PICK i \in DOMAIN spare :
            /\ closers' = [closers EXCEPT ![spare[i]] = closers[spare[i]] + 1]
            /\ spare' = RemoveAt(spare, i)
      BY <2>3 DEF RemoveClient
    <3>a. PICK r : r = spare[i]
      OBVIOUS
    <3>2. r \in ToSet(spare) /\ ToSet(spare) \subseteq ToSet(spare') \cup {r}
      BY <1>0, <3>1, <3>a, RemoveFrom DEF TypeInv, ListInv
    <3>3. r \in Client
      BY <1>0, <3>2, HeldAreClients
    <3>4. /\ UNCHANGED <<made, closeChan, fresh, lost>> /\ pc' = "wait" /\ pc = "loads"
      BY <2>3 DEF RemoveClient, clientVars, Continue
    <3>5. Held \subseteq Held' \cup {r}
      BY <3>2, <3>4 DEF Held, InLoads, ToSet
    <3>6. /\ closers'[r] = closers[r] + 1 /\ closers[r] \in Nat
          /\ \A c \in Client : c # r => closers'[c] = closers[c]
      BY <1>a, <3>1, <3>3, <3>a
    <3>7. ~OpenClient(r)'
      BY <3>6 DEF OpenClient
    <3>8. \A c \in Client : OpenClient(c)' => c # r /\ OpenClient(c)
      BY <3>4, <3>6, <3>7 DEF OpenClient
    <3> QED
      BY <1>0, <3>4, <3>5, <3>8 DEF LeakInv
  <2> QED
    BY <2>1, <2>2, <2>3
<1>2. CASE \/ SetProcessAll \/ SetScheduler \/ SdMain \/ SdLoadTests
           \/ \E c \in Client : CloseChan(c)
           \/ CancelContext
  <2>1. UNCHANGED <<pc, spare, fresh, list, lost, made>>
    BY <1>2, QuietStep
  <2>2. Held' = Held
    BY <2>1 DEF Held, InLoads
  <2>3. \A c \in Client : OpenClient(c)' => OpenClient(c)
    <3>1. CASE SetProcessAll \/ SetScheduler \/ CancelContext
      BY <2>1, <3>1 DEF SetProcessAll, SetScheduler, CancelContext, closeVars, OpenClient
    <3>2. ASSUME NEW d \in Client, CloseChan(d)
          PROVE  \A c \in Client : OpenClient(c)' => OpenClient(c)
      BY <1>a, <2>1, <3>2 DEF CloseChan, OpenClient
    <3>3. CASE SdMain
      BY <1>a, <2>1, <3>3, StartIsConfig DEF SdMain, OpenClient
    <3>4. CASE SdLoadTests
      BY <1>a, <2>1, <3>4 DEF SdLoadTests, OpenClient
    <3> QED
      BY <1>2, <3>1, <3>2, <3>3, <3>4
  <2> QED
    BY <1>0, <2>1, <2>2, <2>3 DEF LeakInv
<1> QED
  BY <1>1, <1>2 DEF Next

LEMMA ForceStep ==
  ASSUME IInv, Next
  PROVE  ForceInv'
<1>0. TypeInv /\ BuildInv /\ ListInv /\ RoomInv /\ ForceInv /\ ApplyInv
  BY DEF IInv
<1>a. \A c \in Client : c \in Nat
  BY StartIsConfig DEF Client
<1>b. ASSUME UNCHANGED <<made, cconf, copts>> PROVE ForceInv'
  BY <1>0, <1>b DEF ForceInv
<1>c. ASSUME made \in Client, made' = made + 1, Works(copts'[made], cconf'[made]),
             \A c \in Client :
               c # made => cconf'[c] = cconf[c] /\ copts'[c] = copts[c]
      PROVE  ForceInv'
  <2>1. ASSUME NEW c \in Client, c < made' PROVE Works(copts'[c], cconf'[c])
    <3>1. c = made \/ (c < made /\ c # made)
      BY <1>a, <1>c, <2>1
    <3> QED
      BY <1>0, <1>c, <3>1 DEF ForceInv
  <2> QED
    BY <2>1 DEF ForceInv
<1>d. ASSUME NEW r \in Client, made' = made, Works(copts'[r], cconf'[r]),
             \A c \in Client :
               c # r => cconf'[c] = cconf[c] /\ copts'[c] = copts[c]
      PROVE  ForceInv'
  <2>1. ASSUME NEW c \in Client, c < made' PROVE Works(copts'[c], cconf'[c])
    BY <1>0, <1>d, <2>1 DEF ForceInv
  <2> QED
    BY <2>1 DEF ForceInv
<1>1. CASE MakeClient
  <2>1. PICK d : d = IF made = Main THEN Start.main ELSE Start.loads[made]
    OBVIOUS
  <2>2. made \in 0..Len(Start.loads) /\ made \in Client
    BY <1>0, <1>1, StartIsConfig DEF MakeClient, BuildInv, TypeInv, Client
  <2>3. d \in ClientConfigs
    <3>1. Start.main \in ClientConfigs /\ Start.loads \in Seq(ClientConfigs)
      BY StartIsConfig DEF ConnectorConfigs
    <3>2. made # Main => made \in 1..Len(Start.loads)
      BY <2>2 DEF Main
    <3> QED
      BY <2>1, <3>1, <3>2, ElementOfSeq
  <2>4. NewClient(d)
    BY <1>1, <2>1 DEF MakeClient
  <2>5. /\ made' = made + 1 /\ cconf'[made] = d /\ copts'[made] = Options(d)
        /\ \A c \in Client :
             c # made => cconf'[c] = cconf[c] /\ copts'[c] = copts[c]
    BY <1>0, <2>2, <2>3, <2>4, NewEffect
  <2>6. Works(Options(d), d)
    BY DEF Works
  <2> QED
    BY <1>c, <2>2, <2>5, <2>6
<1>2. ASSUME NEW c \in Config, Change(InitedAll(c)) PROVE ForceInv'
  BY <1>b, <1>2, ChangeEffect
<1>3. CASE ReloadMain
  <2>1. CASE Refuse
    BY <1>3, <1>b, <2>1 DEF ReloadMain, Refuse
  <2>2. CASE /\ Allowed(cconf[Main], conf.main)
             /\ ReloadClient(Main, conf.main)
    <3>1. Main \in Client /\ Main < made /\ conf.main \in ClientConfigs
      BY <1>0, <1>3, StartIsConfig
         DEF ReloadMain, TypeInv, BuildInv, ConnectorConfigs, Client, Main
    <3>2. /\ Works(copts'[Main], cconf'[Main])
          /\ \A d \in Client :
               d # Main => cconf'[d] = cconf[d] /\ copts'[d] = copts[d]
      BY <1>0, <2>2, <3>1, ReloadEffect
    <3> QED
      BY <1>3, <1>d, <3>1, <3>2 DEF ReloadMain
  <2> QED
    BY <1>3, <2>1, <2>2 DEF ReloadMain
<1>4. CASE ReuseClient
  <2>1. CASE Refuse
    BY <1>4, <1>b, <2>1 DEF ReuseClient, Refuse
  <2>2. CASE ReuseOne
    <3>1. PICK c \in Client :
            /\ Works(copts'[c], cconf'[c])
            /\ \A d \in Client :
                 d # c => cconf'[d] = cconf[d] /\ copts'[d] = copts[d]
      BY <1>0, <1>4, <2>2, ReuseEffect
    <3> QED
      BY <1>4, <1>d, <3>1 DEF ReuseClient
  <2> QED
    BY <1>4, <2>1, <2>2 DEF ReuseClient, ReuseOne
<1>5. CASE CreateClient
  BY <1>0, <1>5, <1>c, CreateEffect
<1>6. CASE CompareScheduler \/ RemoveClient \/ RemoveReturns \/ ReplaceList
  BY <1>6, <1>b DEF CompareScheduler, RemoveClient, RemoveReturns, ReplaceList,
                    clientVars
<1>7. CASE \/ SetProcessAll \/ SetScheduler \/ SdMain \/ SdLoadTests
           \/ \E c \in Client : CloseChan(c)
           \/ CancelContext
  BY <1>7, <1>b, QuietStep
<1> QED
  BY <1>1, <1>2, <1>3, <1>4, <1>5, <1>6, <1>7 DEF Next, ReloadStep

LEMMA ApplyStep ==
  ASSUME IInv, Next
  PROVE  ApplyInv'
<1> DEFINE A == (pc # "idle" \/ result = "ok") /\ ~early =>
                  built = "done" /\ processAll = conf.all
           B == InLoads => /\ Meets(Main, conf.main)
                           /\ \A i \in DOMAIN fresh : Meets(fresh[i], conf.loads[i])
           C == pc = "idle" /\ result = "ok" =>
                  /\ Meets(Main, conf.main)
                  /\ Len(list) = Len(conf.loads)
                  /\ \A i \in DOMAIN list : Meets(list[i], conf.loads[i])
<1> SUFFICES A' /\ B' /\ C'
  BY DEF ApplyInv
<1>0. TypeInv /\ BuildInv /\ ListInv /\ RoomInv /\ ForceInv /\ ApplyInv
  BY DEF IInv
<1>a. A /\ B /\ C
  BY <1>0 DEF ApplyInv
<1>b. /\ list \in Seq(Client) /\ fresh \in Seq(Client) /\ made \in Nat
      /\ Main \in Client /\ \A c \in Client : c \in Nat
  BY <1>0, StartIsConfig DEF TypeInv, Client, Main
\* A call that returns something else than nil.
<1>c. ASSUME pc' = "idle", result' # "ok" PROVE A' /\ B' /\ C'
  BY <1>c DEF InLoads
\* What A and B speak of is still so.
<1>d. ASSUME pc # "idle", UNCHANGED <<early, built, processAll, conf>> PROVE A'
  BY <1>a, <1>d
<1>e. ASSUME InLoads, pc' \in {"loads", "wait"},
             UNCHANGED <<early, built, processAll, conf, fresh, cconf, copts>>
      PROVE  A' /\ B' /\ C'
  BY <1>a, <1>d, <1>e DEF InLoads, Meets
\* Another client, c, serves the next load test.
<1>f. ASSUME NEW c \in Client, pc = "loads", Len(fresh) < Len(conf.loads),
             UNCHANGED <<pc, early, built, processAll, conf>>,
             fresh' = Append(fresh, c), c # Main, c \notin ToSet(fresh),
             Fits(copts'[c], cconf'[c], Entry),
             \A d \in Client : d # c => cconf'[d] = cconf[d] /\ copts'[d] = copts[d]
      PROVE  A' /\ B' /\ C'
  <2>1. Meets(Main, conf.main)'
    BY <1>a, <1>b, <1>f DEF Meets, InLoads
  <2>2. /\ DOMAIN fresh' = 1..(Len(fresh) + 1) /\ fresh'[Len(fresh) + 1] = c
        /\ \A i \in 1..Len(fresh) : fresh'[i] = fresh[i]
        /\ DOMAIN fresh = 1..Len(fresh) /\ Len(fresh) \in Nat
    BY <1>b, <1>f, AppendTo, LenProperties
  <2>3. ASSUME NEW i \in DOMAIN fresh' PROVE Meets(fresh[i], conf.loads[i])'
    <3>1. CASE i \in DOMAIN fresh
      <4>1. fresh[i] \in Client /\ fresh[i] # c /\ fresh'[i] = fresh[i]
        BY <1>b, <1>f, <2>2, <3>1, ElementOfSeq DEF ToSet
      <4>2. Meets(fresh[i], conf.loads[i])
        BY <1>a, <1>f, <3>1 DEF InLoads
      <4> QED
        BY <1>f, <4>1, <4>2 DEF Meets
    <3>2. CASE i = Len(fresh) + 1
      BY <1>f, <2>2, <3>2 DEF Meets, Entry
    <3> QED
      BY <2>2, <3>1, <3>2
  <2> QED
    BY <1>d, <1>f, <2>1, <2>3
<1>1. CASE MakeClient
  BY <1>0, <1>1, <1>c DEF MakeClient, BuildInv
<1>2. CASE SetProcessAll \/ SetScheduler
  <2>1. built \in {"registered", "all"}
    BY <1>2 DEF SetProcessAll, SetScheduler
  <2>2. UNCHANGED <<pc, conf, fresh, result, early, list, cconf, copts>>
    BY <1>2, QuietStep
  <2>3. A'
    BY <1>a, <2>1, <2>2
  <2>4. B' /\ C'
    BY <1>a, <2>2 DEF InLoads, Meets
  <2> QED
    BY <2>3, <2>4
<1>3. ASSUME NEW k \in Config, Change(InitedAll(k)) PROVE A' /\ B' /\ C'
  <2>1. PICK new : new = InitedAll(k)
    OBVIOUS
  <2>2. Change(new)
    BY <1>3, <2>1
  <2>3. CASE \E x \in {"error", "ignored"} : ReturnWith(x, {})
    BY <1>c, <2>3 DEF ReturnWith
  <2>4. CASE /\ pc' = "options" /\ conf' = new /\ processAll' = new.all
             /\ early' = (built # "done")
    BY <2>2, <2>4, ChangeEffect DEF InLoads
  <2> QED
    BY <2>2, <2>3, <2>4, ChangeEffect
<1>4. CASE CompareScheduler
  <2>1. CASE Return("error")
    BY <1>c, <2>1 DEF Return, ReturnWith
  <2>2. CASE pc' = "main" /\ Continue
    BY <1>4, <1>d, <2>2 DEF CompareScheduler, Continue, buildVars, InLoads
  <2> QED
    BY <1>4, <2>1, <2>2 DEF CompareScheduler
<1>5. CASE ReloadMain
  <2>1. CASE Refuse
    BY <1>c, <2>1 DEF Refuse, Return, ReturnWith
  <2>2. CASE /\ Allowed(cconf[Main], conf.main)
             /\ ReloadClient(Main, conf.main)
             /\ pc' = "loads" /\ Continue /\ UNCHANGED fresh
    <3>1. Main \in Client /\ Main < made /\ conf.main \in ClientConfigs
      BY <1>0, <1>5, <1>b DEF ReloadMain, TypeInv, BuildInv, ConnectorConfigs
    <3>2. Fits(copts'[Main], cconf'[Main], conf.main)
      BY <1>0, <2>2, <3>1, ReloadEffect
    <3>3. Meets(Main, conf.main)'
      BY <2>2, <3>2 DEF Meets, Continue, Main
    <3>4. fresh' = <<>>
      BY <1>0, <1>5, <2>2 DEF ReloadMain, ListInv, InLoads
    <3>5. A'
      BY <1>5, <1>d, <2>2 DEF ReloadMain, Continue, buildVars
    <3> QED
      BY <2>2, <3>3, <3>4, <3>5
  <2> QED
    BY <1>5, <2>1, <2>2 DEF ReloadMain
<1>6. CASE ReuseClient
  <2>1. CASE Refuse
    BY <1>c, <2>1 DEF Refuse, Return, ReturnWith
  <2>2. CASE ReuseOne
    <3>1. PICK c \in Client :
            /\ c \in ToSet(spare) /\ c # Main
            /\ fresh' = Append(fresh, c)
            /\ Fits(copts'[c], cconf'[c], Entry)
            /\ \A d \in Client :
                 d # c => cconf'[d] = cconf[d] /\ copts'[d] = copts[d]
      BY <1>0, <1>6, <2>2, ReuseEffect
    <3>2. c \notin ToSet(fresh)
      BY <1>0, <3>1 DEF ListInv
    <3>3. /\ pc = "loads" /\ Len(fresh) < Len(conf.loads)
          /\ UNCHANGED <<pc, early, built, processAll, conf>>
      BY <1>6, <2>2 DEF ReuseClient, ReuseOne, Continue, buildVars
    <3> QED
      BY <1>f, <3>1, <3>2, <3>3
  <2> QED
    BY <1>6, <2>1, <2>2 DEF ReuseClient, ReuseOne
<1>7. CASE CreateClient
  <2>1. CASE ReturnWith("error", {made})
    BY <1>c, <2>1 DEF ReturnWith
  <2>2. CASE fresh' = Append(fresh, made) /\ Continue /\ UNCHANGED <<pc, spare>>
    <3>1. /\ made \in Client /\ Fits(copts'[made], cconf'[made], Entry)
          /\ \A d \in Client :
               d # made => cconf'[d] = cconf[d] /\ copts'[d] = copts[d]
      BY <1>0, <1>7, CreateEffect
    <3>2. /\ pc = "loads" /\ Len(fresh) < Len(conf.loads)
          /\ UNCHANGED <<pc, early, built, processAll, conf>>
      BY <1>7, <2>2 DEF CreateClient, Continue, buildVars
    <3>3. made \notin ToSet(fresh)
      <4>1. \A c \in ToSet(fresh) : c < made /\ c \in Client
        BY <1>0, HeldAreClients
      <4> QED
        BY <1>b, <4>1
    <3>4. made # Main
      BY <1>0, <1>b, <3>2 DEF BuildInv, Main
    <3>5. PICK m : m = made
      OBVIOUS
    <3> QED
      BY <1>f, <2>2, <3>1, <3>2, <3>3, <3>4, <3>5
  <2> QED
    BY <1>7, <2>1, <2>2 DEF CreateClient
<1>8. CASE RemoveClient \/ RemoveReturns
  BY <1>8, <1>e DEF RemoveClient, RemoveReturns, Continue, buildVars, clientVars, InLoads
<1>9. CASE ReplaceList
  <2>1. /\ pc = "loads" /\ Len(fresh) = Len(conf.loads) /\ list' = fresh
        /\ pc' = "idle" /\ result' = "ok" /\ early' = early
        /\ UNCHANGED <<conf, built, processAll, cconf, copts>>
    <3>1. early \in BOOLEAN
      BY <1>0 DEF TypeInv
    <3> QED
      BY <1>9, <3>1 DEF ReplaceList, Removing, Return, ReturnWith, buildVars, clientVars
  <2>2. A'
    BY <1>a, <2>1
  <2>3. C'
    BY <1>a, <2>1 DEF InLoads, Meets
  <2> QED
    BY <2>1, <2>2, <2>3 DEF InLoads
<1>10. CASE SdMain \/ SdLoadTests \/ CancelContext \/ \E c \in Client : CloseChan(c)
  <2>1. UNCHANGED <<pc, conf, fresh, result, early, list, cconf, copts>>
    BY <1>10, QuietStep
  <2>2. UNCHANGED <<built, processAll>>
    BY <1>10 DEF SdMain, SdLoadTests, CancelContext, CloseChan, buildVars
  <2> QED
    BY <1>a, <2>1, <2>2 DEF InLoads, Meets
<1> QED
  BY <1>1, <1>2, <1>3, <1>4, <1>5, <1>6, <1>7, <1>8, <1>9, <1>10
     DEF Next, ReloadStep

LEMMA ReuseStep ==
  ASSUME IInv, Next
  PROVE  ReuseInv'
<1>0. /\ TypeInv /\ BuildInv /\ ListInv /\ RoomInv /\ ForceInv /\ ApplyInv
      /\ ReuseInv
  BY DEF IInv
<1>a. ASSUME ~InLoads' \/ fresh' = <<>> PROVE ReuseInv'
  BY <1>a, Nothing DEF ReuseInv, ToSet
<1>b. /\ fresh \in Seq(Client) /\ made \in Nat
      /\ \A c \in ToSet(list) \cup ToSet(fresh) : c \in Client /\ c < made
  BY <1>0, HeldAreClients DEF TypeInv
<1>c. \A c \in ToSet(list) \cup ToSet(fresh) : c \in Client /\ c # made
  BY <1>b
<1>1. CASE MakeClient \/ CompareScheduler \/ ReloadMain \/ ReplaceList
  <2>1. pc = "main" => fresh = <<>>
    BY <1>0 DEF ListInv, InLoads
  <2> QED
    BY <1>0, <1>1, <1>a, <2>1
       DEF MakeClient, BuildInv, CompareScheduler, ReloadMain, ReplaceList,
           Refuse, Return, ReturnWith, InLoads
<1>2. ASSUME NEW k \in Config, Change(InitedAll(k)) PROVE ReuseInv'
  <2>1. pc' # "loads" /\ pc' # "wait"
    BY <1>2, ChangeEffect DEF ReturnWith
  <2> QED
    BY <1>a, <2>1 DEF InLoads
<1>3. CASE ReuseClient
  <2>1. CASE Refuse
    BY <1>a, <2>1 DEF Refuse, Return, ReturnWith, InLoads
  <2>2. CASE ReuseOne
    <3>1. PICK c \in Client :
            /\ c \in ToSet(list) /\ fresh' = Append(fresh, c)
            /\ \A d \in Client : AddrBag(cconf'[d]) = AddrBag(cconf[d])
      BY <1>0, <1>3, <2>2, ReuseEffect
    <3>2. ToSet(fresh') = ToSet(fresh) \cup {c}
      BY <1>b, <3>1, AppendTo
    <3>3. list' = list /\ pc = "loads"
      BY <1>3 DEF ReuseClient
    <3> SUFFICES ASSUME NEW x \in ToSet(fresh') \ ToSet(list),
                        NEW y \in ToSet(list) \ ToSet(fresh')
                 PROVE  AddrBag(cconf'[x]) # AddrBag(cconf'[y])
      BY <3>3 DEF ReuseInv, AddrBag, ToSet
    <3>4. x \in ToSet(fresh) \ ToSet(list) /\ y \in ToSet(list) \ ToSet(fresh)
      BY <3>1, <3>2
    <3> QED
      BY <1>0, <1>b, <3>1, <3>3, <3>4 DEF ReuseInv, InLoads
  <2> QED
    BY <1>3, <2>1, <2>2 DEF ReuseClient, ReuseOne
<1>4. CASE CreateClient
  <2>1. CASE ReturnWith("error", {made})
    BY <1>a, <2>1 DEF ReturnWith, InLoads
  <2>2. CASE fresh' = Append(fresh, made)
    <3>1. /\ made \in Client /\ Fits(copts'[made], cconf'[made], Entry)
          /\ \A d \in Client : d # made => cconf'[d] = cconf[d]
      BY <1>0, <1>4, CreateEffect
    <3>2. ToSet(fresh') = ToSet(fresh) \cup {made}
      BY <1>b, <2>2, <3>1, AppendTo
    <3>3. list' = list /\ pc = "loads" /\ Len(fresh) < Len(conf.loads) /\ SameName = {}
      BY <1>4 DEF CreateClient
    <3> SUFFICES ASSUME NEW x \in ToSet(fresh') \ ToSet(list),
                        NEW y \in ToSet(list) \ ToSet(fresh')
                 PROVE  AddrBag(cconf'[x]) # AddrBag(cconf'[y])
      BY <3>3 DEF ReuseInv, AddrBag, ToSet
    <3>4. y \in Client /\ y # made /\ cconf'[y] = cconf[y]
      BY <1>c, <3>1
    <3>5. CASE x = made
      <4>1. y \in ToSet(spare)
        BY <1>0, <3>2, <3>3 DEF ListInv, InLoads
      <4>2. AddrBag(cconf[y]) # AddrBag(Entry)
        BY <3>3, <4>1 DEF SameName, ToSet
      <4> QED
        BY <3>1, <3>4, <3>5, <4>2 DEF Fits
    <3>6. CASE x \in ToSet(fresh)
      <4>1. x # made /\ cconf'[x] = cconf[x]
        BY <1>c, <3>1, <3>6
      <4>2. y \in ToSet(list) \ ToSet(fresh)
        BY <3>2
      <4> QED
        BY <1>0, <3>3, <3>4, <3>6, <4>1, <4>2 DEF ReuseInv, InLoads
    <3> QED
      BY <3>2, <3>5, <3>6
  <2> QED
    BY <1>4, <2>1, <2>2 DEF CreateClient
<1>5. CASE RemoveClient \/ RemoveReturns
  BY <1>0, <1>5 DEF RemoveClient, RemoveReturns, Continue, clientVars, ReuseInv, InLoads
<1>6. CASE \/ SetProcessAll \/ SetScheduler \/ SdMain \/ SdLoadTests
           \/ \E c \in Client : CloseChan(c)
           \/ CancelContext
  BY <1>0, <1>6, QuietStep DEF ReuseInv, InLoads
<1> QED
  BY <1>1, <1>2, <1>3, <1>4, <1>5, <1>6 DEF Next, ReloadStep

-----------------------------------------------------------------------------
(* The theorems.                                                           *)

LEMMA InitInv == Init => IInv
<1> SUFFICES ASSUME Init PROVE IInv
  OBVIOUS
<1> USE DEF Init
<1>1. TypeInv
  <2>1. /\ Start.main \in ClientConfigs /\ Start \in ConnectorConfigs
        /\ MaxClients \in Nat
    BY StartIsConfig DEF ConnectorConfigs
  <2>2. IsOptions(Options(Start.main))
    BY OptionsAreOptions
  <2>3. /\ cconf \in [Client -> ClientConfigs]
        /\ DOMAIN copts = Client /\ \A c \in Client : IsOptions(copts[c])
    BY <2>1, <2>2
  <2>4. closers \in [Client -> Nat] /\ closeChan \in [Client -> BOOLEAN]
    OBVIOUS
  <2>5. made \in 0..(MaxClients + 1) /\ lost \subseteq Client
    BY <2>1
  <2>6. list \in Seq(Client) /\ fresh \in Seq(Client) /\ spare \in Seq(Client)
    BY Nothing
  <2>7. {ctxDone, crashed, early, touched} \subseteq BOOLEAN
    OBVIOUS
  <2>8. /\ built = "clients" /\ sched = "initial" /\ processAll = FALSE
        /\ pc = "idle" /\ conf = Start /\ result = "none" /\ sd = "idle"
    OBVIOUS
  <2> QED
    BY ONLY <2>1, <2>3, <2>4, <2>5, <2>6, <2>7, <2>8 DEF TypeInv
<1>2. BuildInv
  BY StartIsConfig DEF BuildInv
<1>3. ListInv
  BY Nothing DEF ListInv, InLoads
<1>4. RoomInv /\ ApplyInv /\ ReuseInv
  BY DEF RoomInv, ApplyInv, ReuseInv, InLoads
<1>5. CloseInv
  <2>1. Held = {}
    BY Nothing DEF Held, InLoads
  <2>2. Main \in Client
    BY StartIsConfig DEF Main, Client
  <2> QED
    BY <2>1, <2>2 DEF CloseInv, Idle, Once
<1>6. LeakInv /\ ForceInv
  <2>1. \A c \in Client : ~ (c < made)
    BY StartIsConfig DEF Client
  <2> QED
    BY <2>1 DEF LeakInv, ForceInv, OpenClient
<1> QED
  BY <1>1, <1>2, <1>3, <1>4, <1>5, <1>6 DEF IInv

LEMMA Stutter ==
  ASSUME IInv, UNCHANGED vars
  PROVE  IInv'
<1> USE DEF vars, buildVars, clientVars, reloadVars, closeVars
<1>1. TypeInv' /\ BuildInv' /\ ListInv' /\ ForceInv' /\ ReuseInv'
  BY DEF IInv, TypeInv, BuildInv, ListInv, InLoads, ForceInv, ReuseInv
<1>2. RoomInv'
  BY DEF IInv, RoomInv, Rest, Needed, Wanted, Listed, AddrBag
<1>3. CloseInv' /\ LeakInv'
  BY DEF IInv, CloseInv, LeakInv, Held, InLoads, Idle, Once, OpenClient
<1>4. ApplyInv'
  BY DEF IInv, ApplyInv, InLoads, Meets
<1> QED
  BY <1>1, <1>2, <1>3, <1>4 DEF IInv

\* The invariant that the theorems below rest on holds throughout: in all that
\* NewDynamicConnector, the change callback, reload and ShutDown do.
THEOREM Invariance == Spec => []IInv
<1>1. IInv /\ [Next]_vars => IInv'
  BY TypeStep, BuildStep, ListStep, RoomStep, CloseStep, LeakStep, ForceStep,
     ApplyStep, ReuseStep, Stutter DEF IInv
<1> QED
  BY <1>1, InitInv, PTL DEF Spec

\* The variables keep their types; the bound on the clients suffices, and never
\* are more than two goroutines closing one client.
THEOREM TypeCorrect == Spec => []TypeOK
<1>1. IInv => TypeOK
  <2> SUFFICES ASSUME IInv PROVE TypeOK
    OBVIOUS
  <2>1. closers \in [Client -> 0..2]
    BY DEF IInv, TypeInv, CloseInv
  <2> QED
    BY <2>1 DEF IInv, TypeInv, TypeOK
<1> QED
  BY <1>1, Invariance, PTL

\* ListedAreOpen: a call that ranges over the list finds open clients, but for
\* those that the new configuration has dropped.
THEOREM ListedStayOpen == Spec => []ListedAreOpen
<1>1. IInv => ListedAreOpen
  <2> SUFFICES ASSUME IInv, sd # "done",
                      NEW c \in ToSet(list) \cup ToSet(fresh)
               PROVE  \/ OpenClient(c)
                      \/ Removing /\ c \notin ToSet(fresh) \cup ToSet(spare)
    BY DEF ListedAreOpen
  <2>0. TypeInv /\ ListInv /\ CloseInv
    BY DEF IInv
  <2>1. c \in Held => OpenClient(c)
    BY <2>0, HeldAreClients DEF CloseInv, Idle, OpenClient
  <2>2. CASE ~InLoads
    <3>1. c \in Held
      BY <2>0, <2>2, HeldAreClients, Nothing DEF ListInv
    <3> QED
      BY <2>1, <3>1
  <2>3. CASE InLoads /\ c \notin Held
    <3>1. c \notin ToSet(fresh) \cup ToSet(spare)
      BY <2>3 DEF Held
    <3>2. ~ (Len(fresh) < Len(conf.loads)) /\ Len(fresh) <= Len(conf.loads)
      BY <2>0, <2>3, <3>1 DEF ListInv
    <3>3. Len(fresh) \in Nat /\ Len(conf.loads) \in Nat
      BY <2>0, LenProperties DEF TypeInv, ConnectorConfigs
    <3>4. Removing
      BY <2>3, <3>2, <3>3 DEF Removing, InLoads
    <3> QED
      BY <3>1, <3>4
  <2> QED
    BY <2>1, <2>2, <2>3
<1> QED
  BY <1>1, Invariance, PTL

\* ReloadClosesOnce: without ShutDown no closeChan is closed a second time.
THEOREM ClosedOnce == Spec => []ReloadClosesOnce
<1>1. IInv => ReloadClosesOnce
  BY DEF IInv, CloseInv, ReloadClosesOnce
<1> QED
  BY <1>1, Invariance, PTL

\* OnlyFailuresLeak: an open client is the main one, listed, about to be, or was
\* created by a call that failed.
THEOREM NothingElseLeaks == Spec => []OnlyFailuresLeak
<1>1. IInv => OnlyFailuresLeak
  <2> SUFFICES ASSUME IInv PROVE OnlyFailuresLeak
    OBVIOUS
  <2>1. Held \subseteq ToSet(list) \cup ToSet(fresh)
    BY HeldAreClients DEF IInv
  <2> QED
    BY <2>1 DEF IInv, LeakInv, OnlyFailuresLeak
<1> QED
  BY <1>1, Invariance, PTL

\* RecordedIsInForce: what a client has recorded is what its go-redis client
\* works with.
THEOREM RecordsAreInForce == Spec => []RecordedIsInForce
<1>1. IInv => RecordedIsInForce
  <2> SUFFICES ASSUME IInv, NEW c \in Client, c < made
               PROVE  InForce(c, cconf[c])
    BY DEF RecordedIsInForce
  <2>1. IsOptions(copts[c]) /\ Works(copts[c], cconf[c])
    BY DEF IInv, TypeInv, ForceInv
  <2> QED
    BY <2>1, InForceByField DEF Fits
<1> QED
  BY <1>1, Invariance, PTL

\* ReloadApplies: a reload that returns nil has put all of its configuration in
\* force, entry by entry.
THEOREM ReloadIsApplied == Spec => []ReloadApplies
<1>1. IInv => ReloadApplies
  <2> SUFFICES ASSUME IInv, pc = "idle", result = "ok", ~early
               PROVE  /\ processAll = conf.all
                      /\ InForce(Main, conf.main)
                      /\ Len(list) = Len(conf.loads)
                      /\ IsInjective(list)
                      /\ \A i \in DOMAIN list : InForce(list[i], conf.loads[i])
    BY DEF ReloadApplies
  <2>1. /\ processAll = conf.all /\ Len(list) = Len(conf.loads)
        /\ Meets(Main, conf.main)
        /\ \A i \in DOMAIN list : Meets(list[i], conf.loads[i])
    BY DEF IInv, ApplyInv
  <2>2. IsInjective(list)
    BY DEF IInv, ListInv
  <2>3. Main \in Client /\ \A i \in DOMAIN list : list[i] \in Client
    <3>1. list \in Seq(Client)
      BY DEF IInv, TypeInv
    <3> QED
      BY <3>1, StartIsConfig, ElementOfSeq, LenProperties DEF Main, Client
  <2>4. \A c \in Client : IsOptions(copts[c])
    BY DEF IInv, TypeInv
  <2> QED
    BY <2>1, <2>2, <2>3, <2>4, InForceByField DEF Meets
<1> QED
  BY <1>1, Invariance, PTL

\* ReplacementReuses: where the new list has room for a client of a name, an old
\* one of that name is kept.
THEOREM ReusedWherePossible == Spec => ReplacementReuses
<1>1. ASSUME IInv, [Next]_vars
      PROVE  [list' # list /\ built = "done" =>
               \A c \in ToSet(list) :
                    LET a == AddrBag(cconf[c])
                        kept == At(list, a) \cap At(list', a)
                    IN  \/ At(list, a) \subseteq kept
                        \/ At(list', a) = kept]_vars
  <2> SUFFICES ASSUME Next, list' # list, built = "done", NEW a
               PROVE  LET kept == At(list, a) \cap At(list', a)
                      IN  At(list, a) \subseteq kept \/ At(list', a) = kept
    BY <1>1
  <2>1. ReplaceList
    <3>1. ~MakeClient
      BY DEF MakeClient
    <3>2. CASE \E k \in Config : Change(InitedAll(k))
      BY <3>2, ChangeEffect
    <3>3. CASE ReloadStep
      BY <3>3 DEF ReloadStep, CompareScheduler, ReloadMain, ReuseClient,
           CreateClient, RemoveClient, RemoveReturns
    <3>4. CASE \/ SetProcessAll \/ SetScheduler \/ SdMain \/ SdLoadTests
               \/ \E c \in Client : CloseChan(c)
               \/ CancelContext
      BY <3>4, QuietStep
    <3> QED
      BY <3>1, <3>2, <3>3, <3>4 DEF Next
  <2>2. list' = fresh /\ InLoads
    BY <2>1 DEF ReplaceList, InLoads
  <2>3. \A c \in ToSet(fresh) \ ToSet(list), d \in ToSet(list) \ ToSet(fresh) :
          AddrBag(cconf[c]) # AddrBag(cconf[d])
    BY <1>1, <2>2 DEF IInv, ReuseInv
  <2> QED
    BY <2>2, <2>3 DEF At
<1> QED
  BY <1>1, Invariance, PTL DEF Spec, ReplacementReuses
=============================================================================
