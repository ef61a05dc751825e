--------------------------- MODULE ConnectorReload --------------------------
(***************************************************************************)
(* Dynamic configuration (src/connector.go): NewDynamicConnector creates   *)
(* the clients, registers the callback for changes and only then sets the  *)
(* connector's own options.  A change updates the main client and the      *)
(* load-test clients in place, creates the clients that are new, shuts     *)
(* down the ones that are gone and then replaces the list of load-test     *)
(* clients.  ShutDown of the connector may run at any moment of it.        *)
(*                                                                         *)
(* The configurer calls its callback for one change at a time, ShutDown is *)
(* called at most once, and a single-host client has one address, so that  *)
(* a client's name stands for its addresses in any order.                  *)
(***************************************************************************)
EXTENDS ClientConfig

CONSTANTS
  Config,     \* the configurations that the configurer can hold
  First,      \* the one that NewDynamicConnector reads
  MaxClients  \* bound: a change that could create more clients is not made

\* sched stands for the scheduler's three options, "" if they are not given.
ConnectorConfigs == [hot : BOOLEAN, all : BOOLEAN, sched : Text,
                     main : ClientConfigs, loads : Seq(ClientConfigs)]

ASSUME ConfigType == Config \cup {First} \subseteq ConnectorConfigs

\* initAndValidate: defaults everywhere first, then validation.
InitedAll(c) == [c EXCEPT !.main = Inited(@),
                          !.loads = [i \in DOMAIN @ |-> Inited(@[i])],
                          !.sched = Or(@, {""}, "default")]
ValidAll(c) == Valid(c.main) /\ \A i \in DOMAIN c.loads : Valid(c.loads[i])

\* NewDynamicConnector returns the error for a configuration that is not valid.
ASSUME MaxClientsType ==
  /\ MaxClients \in Nat /\ Len(First.loads) <= MaxClients
  /\ ValidAll(InitedAll(First))

Start == InitedAll(First)

Main == 0
Client == 0..MaxClients

VARIABLES
  built,       \* where NewDynamicConnector is
  sched,       \* c.schedulerOptions
  processAll,  \* c.processAllLoadTestPackets
  made,        \* how many clients have been created
  cconf,       \* client.config of each
  copts,       \* the options of its go-redis client
  list,        \* c.loadTestClients
  ctxDone,     \* the context given to NewDynamicConnector has been cancelled
  pc,          \* where reload is
  conf,        \* the configuration it was last called with
  spare,       \* loadTestMap: listed clients it has not reused
  fresh,       \* newLoadTestClients
  result,      \* what the last call of reload returned
  early,       \* history: it was called before the connector was built
  touched,     \* history: it has changed the configuration of a client
  lost,        \* history: clients created by a call that returned an error
  closers,     \* goroutines of ShutDown that are closing each client
  closeChan,   \* whether closeChan of each client is closed
  crashed,     \* a goroutine closed a closed channel
  sd           \* where the connector's ShutDown is

reloadVars == <<pc, conf, spare, fresh, result, early, touched, lost>>
clientVars == <<made, cconf, copts>>
closeVars  == <<closers, closeChan, crashed>>
buildVars  == <<built, sched>>
vars == <<buildVars, processAll, clientVars, list, ctxDone, reloadVars,
          closeVars, sd>>

Init ==
  /\ built = "clients"
  /\ sched = "initial"
  /\ processAll = FALSE
  /\ made = 0
  /\ cconf = [c \in Client |-> Start.main]
  /\ copts = [c \in Client |-> Options(Start.main)]
  /\ list = <<>>
  /\ ctxDone = FALSE
  /\ pc = "idle" /\ conf = Start /\ result = "none"
  /\ spare = <<>> /\ fresh = <<>>
  /\ early = FALSE /\ touched = FALSE /\ lost = {}
  /\ closers = [c \in Client |-> 0]
  /\ closeChan = [c \in Client |-> FALSE]
  /\ crashed = FALSE
  /\ sd = "idle"

-----------------------------------------------------------------------------
(* NewDynamicConnector.                                                    *)

\* newClient: the next client gets its configuration and options.
NewClient(c) == /\ made' = made + 1
                /\ cconf' = [cconf EXCEPT ![made] = c]
                /\ copts' = [copts EXCEPT ![made] = Options(c)]

\* The main client, then the load-test clients.  With the context cancelled,
\* newClient returns an error and leaves the client it made to itself, and so
\* does NewDynamicConnector.
MakeClient ==
  /\ built = "clients"
  /\ NewClient(IF made = Main THEN Start.main ELSE Start.loads[made])
  /\ \/ /\ ctxDone
        /\ built' = "failed"
        /\ lost' = 0..made
        /\ UNCHANGED list
     \/ /\ ~ctxDone
        /\ built' = IF made = Len(Start.loads) THEN "registered" ELSE "clients"
        /\ list' = IF made = Main THEN list ELSE Append(list, made)
        /\ UNCHANGED lost
  /\ UNCHANGED <<sched, processAll, ctxDone, pc, conf, spare, fresh, result,
                 early, touched, closeVars, sd>>

\* The callback is registered by now: changes may come in.
SetProcessAll ==
  /\ built = "registered"
  /\ built' = "all"
  /\ processAll' = Start.all
  /\ UNCHANGED <<sched, clientVars, list, ctxDone, reloadVars, closeVars, sd>>

\* Until now the idle timeout has been 1000 ns, which is no configuration's.
SetScheduler ==
  /\ built = "all"
  /\ built' = "done"
  /\ sched' = Start.sched
  /\ UNCHANGED <<processAll, clientVars, list, ctxDone, reloadVars, closeVars,
                 sd>>

-----------------------------------------------------------------------------
(* The configuration change.                                               *)

\* reload returns r; its locals are gone, and with an error the clients it has
\* created, beside those in new.
ReturnWith(r, new) ==
  /\ pc' = "idle" /\ result' = r
  /\ conf' = IF r = "ok" THEN conf ELSE Start
  /\ early' = (r = "ok" /\ early)
  /\ spare' = <<>> /\ fresh' = <<>>
  /\ lost' = IF r = "error" THEN lost \cup new \cup (ToSet(fresh) \ ToSet(list))
                            ELSE lost

Return(r) == ReturnWith(r, {})
Continue == UNCHANGED <<conf, early, result, lost>>
Removing == \/ pc = "wait"
            \/ pc = "loads" /\ Len(fresh) = Len(conf.loads)

\* The bound: the load tests that no listed client would be left for.
Wanted(loads, i) ==
  Cardinality({j \in 1..i : AddrBag(loads[j]) = AddrBag(loads[i])})
Listed(a) == Cardinality({j \in DOMAIN list : AddrBag(cconf[list[j]]) = a})
Needed(loads) ==
  {i \in DOMAIN loads : Wanted(loads, i) > Listed(AddrBag(loads[i]))}

\* The callback, with a configuration that has its defaults.  What is not valid
\* is refused, and without hotReload a change is ignored; otherwise processAll is
\* taken over at once.
Change(new) ==
  /\ built \in {"registered", "all", "done"}
  /\ pc = "idle"
  /\ made + Cardinality(Needed(new.loads)) <= MaxClients + 1
  /\ touched' = FALSE
  /\ \/ ~ValidAll(new) /\ Return("error") /\ UNCHANGED processAll
     \/ ValidAll(new) /\ ~new.hot /\ Return("ignored") /\ UNCHANGED processAll
     \/ /\ ValidAll(new) /\ new.hot
        /\ processAll' = new.all
        /\ conf' = new
        /\ early' = (built # "done")
        /\ pc' = "options"
        /\ UNCHANGED <<result, spare, fresh, lost>>
  /\ UNCHANGED <<buildVars, clientVars, list, ctxDone, closeVars, sd>>

\* The scheduler's options cannot change.
CompareScheduler ==
  /\ pc = "options"
  /\ \/ conf.sched # sched /\ Return("error")
     \/ conf.sched = sched /\ pc' = "main" /\ Continue /\ UNCHANGED <<spare, fresh>>
  /\ UNCHANGED <<buildVars, processAll, clientVars, list, ctxDone, touched,
                 closeVars, sd>>

\* client.reload(new), which is allowed.
ReloadClient(c, new) ==
  /\ copts' = [copts EXCEPT ![c] = SetOptions(@, cconf[c], new)]
  /\ cconf' = [cconf EXCEPT ![c] = Recorded(@, new)]
  /\ touched' = (touched \/ cconf' # cconf)

Refuse == Return("error") /\ UNCHANGED <<cconf, copts, touched>>

ReloadMain ==
  /\ pc = "main"
  /\ \/ ~Allowed(cconf[Main], conf.main) /\ Refuse
     \/ /\ Allowed(cconf[Main], conf.main)
        /\ ReloadClient(Main, conf.main)
        /\ spare' = list
        /\ pc' = "loads"
        /\ Continue
        /\ UNCHANGED fresh
  /\ UNCHANGED <<buildVars, processAll, made, list, ctxDone, closeVars, sd>>

\* The entry of config.LoadTests that is looked at.
Entry == conf.loads[Len(fresh) + 1]

\* Mutated: the addresses make a name as they come.
SameNameUnsorted == {i \in DOMAIN spare : cconf[spare[i]].addrs = Entry.addrs}

\* The positions in spare of the clients that have the entry's name; the last
\* of them is the one that is reused.
SameName == {i \in DOMAIN spare : AddrBag(cconf[spare[i]]) = AddrBag(Entry)}
Reused == Max(SameName)
Reusable == /\ AddrBag(cconf[Main]) # AddrBag(Entry)
            /\ Allowed(cconf[spare[Reused]], Entry)

\* Mutated: the reused client stays in the map.
ReuseClientInMap ==
  /\ pc = "loads"
  /\ Len(fresh) < Len(conf.loads)
  /\ SameName # {}
  /\ \/ ~Reusable /\ Refuse
     \/ /\ Reusable
        /\ ReloadClient(spare[Reused], Entry)
        /\ fresh' = Append(fresh, spare[Reused])
        /\ Continue
        /\ UNCHANGED <<pc, spare>>
  /\ UNCHANGED <<buildVars, processAll, made, list, ctxDone, closeVars, sd>>

\* A listed client of this name is taken out of the map and reloaded, unless
\* it has the main client's addresses or the change is not allowed.
ReuseClient ==
  /\ pc = "loads"
  /\ Len(fresh) < Len(conf.loads)
  /\ SameName # {}
  /\ \/ ~Reusable /\ Refuse
     \/ /\ Reusable
        /\ ReloadClient(spare[Reused], Entry)
        /\ fresh' = Append(fresh, spare[Reused])
        /\ spare' = RemoveAt(spare, Reused)
        /\ Continue
        /\ UNCHANGED pc
  /\ UNCHANGED <<buildVars, processAll, made, list, ctxDone, closeVars, sd>>

\* name() has sorted the addresses by the time the client is created: a group
\* takes the smallest one for its master.
Named(c) == IF c.clientMode = "singleHost" THEN {c}
            ELSE {[c EXCEPT !.addrs = as] : as \in Sorted(c.addrs)}

CreateClient ==
  /\ pc = "loads"
  /\ Len(fresh) < Len(conf.loads)
  /\ SameName = {}
  /\ \E c \in Named(Entry) : NewClient(c)
  /\ \/ ctxDone /\ ReturnWith("error", {made})
     \/ /\ ~ctxDone
        /\ fresh' = Append(fresh, made)
        /\ Continue
        /\ UNCHANGED <<pc, spare>>
  /\ UNCHANGED <<buildVars, processAll, list, ctxDone, touched, closeVars, sd>>

\* One of the clients that were not reused is shut down, in the order of the
\* map; reload waits for its closeChan or the timeout.
RemoveClient ==
  /\ pc = "loads" /\ Removing
  /\ \E i \in DOMAIN spare :
       /\ closers' = [closers EXCEPT ![spare[i]] = closers[spare[i]] + 1]
       /\ spare' = RemoveAt(spare, i)
  /\ pc' = "wait"
  /\ Continue
  /\ UNCHANGED <<buildVars, processAll, clientVars, list, ctxDone, fresh,
                 touched, closeChan, crashed, sd>>

\* Mutated: ShutDown has no timeout.
RemoveReturnsLate ==
  /\ pc = "wait"
  /\ \A c \in Client : closers[c] = 0
  /\ pc' = "loads"
  /\ Continue
  /\ UNCHANGED <<buildVars, processAll, clientVars, list, ctxDone, spare,
                 fresh, touched, closeVars, sd>>

\* The select in client.ShutDown: closeChan, or the timeout at any moment.
RemoveReturns ==
  /\ pc = "wait"
  /\ pc' = "loads"
  /\ Continue
  /\ UNCHANGED <<buildVars, processAll, clientVars, list, ctxDone, spare,
                 fresh, touched, closeVars, sd>>

\* Mutated: the clients that are left over are not shut down.
ReplaceListNoRemoval ==
  /\ pc = "loads" /\ Removing
  /\ list' = fresh
  /\ Return("ok")
  /\ UNCHANGED <<buildVars, processAll, clientVars, ctxDone, touched, closeVars,
                 sd>>

\* Mutated: the old list stays.
ReplaceListForgotten ==
  /\ pc = "loads" /\ Removing
  /\ spare = <<>>
  /\ Return("ok")
  /\ UNCHANGED <<buildVars, processAll, clientVars, list, ctxDone, touched,
                 closeVars, sd>>

ReplaceList ==
  /\ pc = "loads" /\ Removing
  /\ spare = <<>>
  /\ list' = fresh
  /\ Return("ok")
  /\ UNCHANGED <<buildVars, processAll, clientVars, ctxDone, touched, closeVars,
                 sd>>

-----------------------------------------------------------------------------
(* ShutDown, the closing goroutines and the context.                       *)

\* The goroutine of client.ShutDown, when wrappedClient.Close has returned.
CloseChan(c) ==
  /\ closers[c] > 0
  /\ closers' = [closers EXCEPT ![c] = closers[c] - 1]
  /\ closeChan' = [closeChan EXCEPT ![c] = TRUE]
  /\ crashed' = closeChan[c]
  /\ UNCHANGED <<buildVars, processAll, clientVars, list, ctxDone, reloadVars,
                 sd>>

SdMain ==
  /\ built = "done"
  /\ sd = "idle"
  /\ sd' = "main"
  /\ closers' = [closers EXCEPT ![Main] = closers[Main] + 1]
  /\ UNCHANGED <<buildVars, processAll, clientVars, list, ctxDone, reloadVars,
                 closeChan, crashed>>

\* The workers are gone; one goroutine for each listed client.
SdLoadTests ==
  /\ sd = "main"
  /\ sd' = "done"
  /\ closers' = [c \in Client |->
       IF c \in ToSet(list) THEN closers[c] + 1 ELSE closers[c]]
  /\ UNCHANGED <<buildVars, processAll, clientVars, list, ctxDone, reloadVars,
                 closeChan, crashed>>

CancelContext ==
  /\ ~ctxDone
  /\ ctxDone' = TRUE
  /\ UNCHANGED <<buildVars, processAll, clientVars, list, reloadVars, closeVars,
                 sd>>

\* The steps of a reload that has been called.
ReloadStep == \/ CompareScheduler \/ ReloadMain \/ ReuseClient \/ CreateClient
              \/ RemoveClient \/ RemoveReturns \/ ReplaceList

Next == /\ ~crashed
        /\ \/ MakeClient \/ SetProcessAll \/ SetScheduler
           \/ \E c \in Config : Change(InitedAll(c))
           \/ ReloadStep
           \/ \E c \in Client : CloseChan(c)
           \/ SdMain \/ SdLoadTests
           \/ CancelContext

Spec == Init /\ [][Next]_vars

\* The goroutine of a reload is scheduled; that wrappedClient.Close returns,
\* and so that closeChan is closed, is not assumed.
FairSpec == Spec /\ WF_vars(~crashed /\ ReloadStep)

-----------------------------------------------------------------------------
(* Properties.                                                             *)

TypeOK ==
  /\ built \in {"clients", "registered", "all", "done", "failed"}
  /\ sched \in Text \cup {"initial"} /\ processAll \in BOOLEAN
  /\ made \in 0..(MaxClients + 1)
  /\ cconf \in [Client -> ClientConfigs]
  /\ DOMAIN copts = Client
  /\ list \in Seq(Client) /\ fresh \in Seq(Client) /\ spare \in Seq(Client)
  /\ pc \in {"idle", "options", "main", "loads", "wait"}
  /\ conf \in ConnectorConfigs
  /\ result \in {"none", "ignored", "ok", "error"}
  /\ {ctxDone, crashed, early, touched} \subseteq BOOLEAN
  /\ lost \subseteq Client
  /\ closers \in [Client -> 0..2]
  /\ closeChan \in [Client -> BOOLEAN]
  /\ sd \in {"idle", "main", "done"}

OpenClient(c) == c < made /\ closers[c] = 0 /\ ~closeChan[c]

\* Until ShutDown closes the load-test clients, a call that ranges over
\* c.loadTestClients finds open ones: the only clients that reload closes
\* while they are listed are those the new configuration has dropped, and the
\* ones it keeps stay open (connector.go:151-153, 173-178).
ListedAreOpen ==
  sd # "done" =>
    \A c \in ToSet(list) \cup ToSet(fresh) :
      \/ OpenClient(c)
      \/ Removing /\ c \notin ToSet(fresh) \cup ToSet(spare)

\* The client works as if the configuration had just created it, but for TLS,
\* which is not reloaded, and for the order of the nodes.
InForce(c, new) ==
  /\ [copts[c] EXCEPT !.tls = new.tls, !.nodes = <<>>]
       = [Options(new) EXCEPT !.nodes = <<>>]
  /\ cconf[c].ignoreReadOnly = new.ignoreReadOnly
  /\ AddrBag(cconf[c]) = AddrBag(new)

\* A reload that returns nil has put the whole configuration in force, whatever
\* reloads were accepted or failed half-way before it: the main client and, entry
\* by entry, one client of its own for each load test work like clients made with
\* it (connector.go:137-178, cluster_wrapper.go:41-168).
ReloadApplies ==
  pc = "idle" /\ result = "ok" /\ ~early =>
    /\ processAll = conf.all
    /\ InForce(Main, conf.main)
    /\ Len(list) = Len(conf.loads)
    /\ IsInjective(list)
    /\ \A i \in DOMAIN list : InForce(list[i], conf.loads[i])

\* reload compares a configuration with the one that the client has recorded,
\* never with the client: what is recorded must be what is in force, also after a
\* reload that fails later, or a difference would never be put right
\* (client_wrapper.go:45-134).
RecordedIsInForce == \A c \in Client : c < made => InForce(c, cconf[c])

\* Before ShutDown, no reload closes a client's closeChan a second time: a
\* client is shut down once and is not listed afterwards.
ReloadClosesOnce == sd = "idle" => ~crashed

\* The clients of the list s that have the addresses a.
At(s, a) == {c \in ToSet(s) : AddrBag(cconf[c]) = a}

\* When a reload replaces the list, for each name as many of the old clients are
\* kept as the new list has room for: no connection is dropped that the new
\* configuration could use (connector.go:142-153).
ReplacementReuses ==
  [][list' # list /\ built = "done" =>
       \A c \in ToSet(list) :
            LET a == AddrBag(cconf[c])
                kept == At(list, a) \cap At(list', a)
            IN  \/ At(list, a) \subseteq kept
                \/ At(list', a) = kept]_vars

\* The connector holds on to the clients it has opened: one that is open is the
\* main client, listed, about to be listed, or was created by a call that
\* returned an error (connector.go:142-178).
OnlyFailuresLeak ==
  \A c \in Client : OpenClient(c) =>
    c \in {Main} \cup ToSet(list) \cup ToSet(fresh) \cup lost

\* A reload ends even if a client it shuts down never finishes closing
\* (client.go:199-217), unless the process dies under it.
ReloadEnds == pc # "idle" ~> pc = "idle" \/ crashed

-----------------------------------------------------------------------------
(* What comments and messages of the code say and the code does not do: TLC *)
(* finds each of these violated.                                            *)

\* README.md:21: changes to the settings "without service restarts": a change
\* that is accepted while the connector is being built is in force.
EarlyReloadApplies ==
  pc = "idle" /\ result = "ok" /\ built = "done" => processAll = conf.all

\* ... and an accepted change of TLS is.
TLSFollows ==
  pc = "idle" /\ result = "ok" => copts[Main].tls = conf.main.tls

\* What the log lines of reload say: "unable to reload load test client,
\* fallback to old client" - after a rejected change the clients have the
\* configuration they had.
RejectedKeepsClients ==
  pc = "idle" /\ result = "error" => ~touched

\* What the error of reload says: a load-test client cannot share the address
\* of the main client.
NoSharedAddress ==
  \A c \in ToSet(list) : AddrBag(cconf[c]) # AddrBag(cconf[Main])

\* What the comment of Addrs says: a group's master comes first.
MasterIsFirst ==
  pc = "idle" /\ result = "ok" =>
    \A i \in DOMAIN list :
      cconf[list[i]].clientMode = "masterSlaveGroup" =>
        copts[list[i]].nodes[1] = conf.loads[i].addrs[1]

\* What the comment of ShutDown says: it closes the pools; when it and every
\* goroutine are done, no client is left open.
ShutDownClosesAll ==
  sd = "done" /\ pc = "idle" => \A c \in Client : ~OpenClient(c)

\* ShutDown does clean up rather than end the process: a channel is not
\* closed twice.
NoCloseTwice == ~crashed
=============================================================================
