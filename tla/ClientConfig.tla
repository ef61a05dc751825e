---------------------------- MODULE ClientConfig ----------------------------
(***************************************************************************)
(* A client's configuration (src/config.go), the options that a go-redis   *)
(* client is created with, and what the reload of either wrapper           *)
(* (src/client_wrapper.go, src/cluster_wrapper.go) makes of both.          *)
(*                                                                         *)
(* Addresses are numbers in the order of their strings.  Of the fifteen    *)
(* options that are copied, compared and set one by one three are kept:    *)
(* username (a text; so is Password), dialTimeout (a number with a         *)
(* default) and poolSize (a number without; so are the other twelve).      *)
(***************************************************************************)
EXTENDS Integers, SequencesExt

\* The empty string as the configurer has it (ucmEmptyString).
Nil == "<nil>"
DefaultHostAndPort == 0

ClientModes == {"cluster", "masterSlaveGroup", "singleHost"}
ReadModes == {"readFromMaster", "readFromSlaves", "readRandomly", "readByLatency"}

\* The strings.  Those that the code gives for defaults are named: that a literal
\* is in STRING is more than the provers know.
Text == STRING \cup {"", "default", "readFromSlaves"}

Hystrix == [timeout : Int, maxConcurrent : Int, errorPercent : Int,
            volume : Int, sleep : Int, queue : Int]

ClientConfigs ==
  [clientMode : STRING, addrs : Seq(Nat), db : Nat, tls : BOOLEAN,
   username : Text, dialTimeout : Int, poolSize : Int,
   maxRedirects : Int, readMode : Text, ignoreReadOnly : BOOLEAN,
   hystrixEnabled : BOOLEAN, hystrix : Hystrix]

Or(value, empty, default) == IF value \in empty THEN default ELSE value

\* init: what is not given gets its default.
InitedHystrix(h) == [h EXCEPT !.timeout = Or(@, {0}, 31000),
                              !.maxConcurrent = Or(@, {0}, 5000),
                              !.errorPercent = Or(@, {0}, 50)]

Inited(c) ==
  [c EXCEPT
     !.addrs = Or(@, {<<>>}, <<DefaultHostAndPort>>),
     !.readMode = Or(@, {"", Nil}, "readFromSlaves"),
     !.username = Or(@, {Nil}, ""),
     !.dialTimeout = Or(@, {0}, 5000),
     !.hystrix = InitedHystrix(@)]

\* validate, of a configuration that has been through init.
Valid(c) == c.clientMode \in ClientModes /\ c.readMode \in ReadModes

\* What names and isAddrsEquals compare: the addresses in any order.
AddrBag(c) == ToBag(c.addrs)

\* What sort.Strings makes of the sequence as.
Sorted(as) ==
  LET n == DOMAIN as
  IN  {s \in {[i \in n |-> as[p[i]]] : p \in Bijection(n, n)} :
         \A i, j \in n : i <= j => s[i] <= s[j]}

\* validateReload, of a valid configuration.
Allowed(old, new) == /\ old.clientMode = new.clientMode
                     /\ old.db = new.db
                     /\ AddrBag(old) = AddrBag(new)

-----------------------------------------------------------------------------
(* The options of the go-redis client.                                     *)

\* What hystrix-go takes for a setting that it is not given.
HystrixDefault == [timeout |-> 1000, maxConcurrent |-> 10, errorPercent |-> 50,
                   volume |-> 20, sleep |-> 5000]

\* configureHystrix: the command builder takes a value that is positive, and
\* any queue size but a negative one.
Settings(h) ==
  LET kept == [f \in DOMAIN HystrixDefault |->
                 IF h[f] > 0 THEN h[f] ELSE HystrixDefault[f]]
  IN  [settings |-> kept,
       queue |-> IF h.queue >= 0 THEN h.queue ELSE 5 * kept.maxConcurrent]

NoLimiter == <<>>
Limiter(h) == <<Settings(h)>>

Routing(readMode) == [readOnly |-> readMode = "readFromSlaves",
                      routeRandomly |-> readMode = "readRandomly",
                      routeByLatency |-> readMode = "readByLatency"]

\* What createClient gives to go-redis: a single host has a database, a
\* cluster or group has nodes (a group's first one is its master), redirects
\* and a routing of its reads.  The limiter is that of the nodes of the day.
Options(c) ==
  LET single == c.clientMode = "singleHost"
  IN  [username |-> c.username, dialTimeout |-> c.dialTimeout,
       poolSize |-> c.poolSize, tls |-> c.tls,
       limiter |-> IF c.hystrixEnabled THEN Limiter(c.hystrix) ELSE NoLimiter,
       nodes |-> IF single THEN <<c.addrs[1]>> ELSE c.addrs,
       db |-> IF single THEN c.db ELSE 0,
       maxRedirects |-> IF single THEN 0 ELSE c.maxRedirects,
       routing |-> Routing(IF single THEN "readFromMaster" ELSE c.readMode)]

-----------------------------------------------------------------------------
(* reload, once the new configuration is allowed.                          *)

\* The fields that are compared, recorded and set if they differ.
Compared(mode) ==
  {"username", "dialTimeout", "poolSize"} \cup
    (IF mode = "singleHost" THEN {} ELSE {"maxRedirects", "readMode"})

\* Mutated: hystrix is compared by its settings alone.
HystrixTakenIfChanged(old, new) ==
  new.hystrixEnabled /\ old.hystrix # new.hystrix

\* Hystrix's settings are taken when they are to be used and differ, or were
\* not in use.
HystrixTaken(old, new) ==
  new.hystrixEnabled /\ (old.hystrix # new.hystrix \/ ~old.hystrixEnabled)

Taken(old, new) == {f \in Compared(old.clientMode) : old[f] # new[f]}

\* The configuration that the client then records.
Recorded(old, new) ==
  [f \in DOMAIN old |->
     IF \/ f \in Taken(old, new) \cup {"hystrixEnabled", "ignoreReadOnly"}
        \/ f = "hystrix" /\ HystrixTaken(old, new)
     THEN new[f] ELSE old[f]]

\* Mutated: a mode is recorded, and the routing is that of the mode before.
SetOptionsNoRouting(options, old, new) ==
  [f \in DOMAIN options |->
     CASE f \in Taken(old, new) -> new[f]
       [] f = "limiter" /\ ~new.hystrixEnabled -> NoLimiter
       [] f = "limiter" /\ HystrixTaken(old, new) -> Limiter(new.hystrix)
       [] OTHER -> options[f]]

\* The options that go-redis is left with.
SetOptions(options, old, new) ==
  [f \in DOMAIN options |->
     CASE f \in Taken(old, new) -> new[f]
       [] f = "routing" /\ "readMode" \in Taken(old, new) -> Routing(new.readMode)
       [] f = "limiter" /\ ~new.hystrixEnabled -> NoLimiter
       [] f = "limiter" /\ HystrixTaken(old, new) -> Limiter(new.hystrix)
       [] OTHER -> options[f]]
=============================================================================
