----------------------------- MODULE NodeBreaker ----------------------------
(***************************************************************************)
(* The circuit breakers of a cluster client's nodes: the limiter that a    *)
(* node's client is created with (src/config.go clusterOptions), the one a *)
(* reload gives to the nodes of the moment (src/cluster_wrapper.go reload) *)
(* and the circuits behind them (src/limiter.go), while nodes join and     *)
(* leave the cluster and commands run.                                     *)
(*                                                                         *)
(* go-redis and hystrix-go are not part of the repository.  Of go-redis:   *)
(* it creates a node's client with opt.NewClient, and ForEachShard runs    *)
(* its function for all nodes at once, or returns an error without running *)
(* it.  Of hystrix: a circuit is made from its settings when it is first   *)
(* used, and Flush drops all circuits.  One reload runs at a time.         *)
(***************************************************************************)
EXTENDS FiniteSets

CONSTANTS Node,     \* node addresses
          Setting,  \* the values of ClientConfig.Hystrix
          NoSetting

ASSUME NodeType == Node # {} /\ IsFiniteSet(Node)
ASSUME SettingType == Setting # {} /\ NoSetting \notin Setting

VARIABLES
  installed,   \* opt.NewClient is set
  enabled,     \* c.config.HystrixEnabled
  setting,     \* c.config.Hystrix
  present,     \* the nodes that have a client
  limited,     \* those whose client has a limiter
  registered,  \* hystrix's settings for each node's key
  circuit,     \* the settings that each node's circuit was made with
  inherited,   \* history: circuits made before this client was created
  pc,          \* where reload is
  target,      \* HystrixEnabled and Hystrix of the new configuration
  visit,       \* where the function of ForEachShard is for each node
  stale,       \* nodes whose visited client has left since
  missed       \* history: the last ForEachShard returned an error

nodeVars == <<present, limited>>
hystrixVars == <<registered, circuit, inherited>>
confVars == <<installed, enabled, setting>>
reloadVars == <<pc, target, visit, stale, missed>>
vars == <<confVars, nodeVars, hystrixVars, reloadVars>>

TypeOK ==
  /\ installed \in BOOLEAN
  /\ enabled \in BOOLEAN
  /\ setting \in Setting
  /\ present \subseteq Node /\ limited \subseteq present
  /\ registered \in [Node -> Setting \cup {NoSetting}]
  /\ circuit \in [Node -> Setting \cup {NoSetting}]
  /\ inherited \subseteq Node
  /\ pc \in {"idle", "set", "clear"}
  /\ target \in [enabled : BOOLEAN, setting : Setting]
  /\ visit \in [Node -> {"no", "configure", "flush", "limiter", "clear"}]
  /\ stale \subseteq Node
  /\ missed \in BOOLEAN

\* The client has been created, with hystrix or without, and knows some of the
\* nodes.  Circuits are the process's, not the client's: those that an earlier
\* client of the same nodes has left are there, and configureHystrix alone does
\* not flush them.
Init ==
  /\ enabled \in BOOLEAN
  /\ installed = enabled
  /\ setting \in Setting
  /\ present \in (SUBSET Node) \ {{}}
  /\ limited = IF installed THEN present ELSE {}
  /\ registered = [n \in Node |-> IF n \in limited THEN setting ELSE NoSetting]
  /\ circuit \in [Node -> Setting \cup {NoSetting}]
  /\ inherited = {n \in Node : circuit[n] # NoSetting}
  /\ pc = "idle"
  /\ target = [enabled |-> enabled, setting |-> setting]
  /\ visit = [n \in Node |-> "no"]
  /\ stale = {}
  /\ missed = FALSE

-----------------------------------------------------------------------------
(* The nodes.                                                              *)

\* Mutated: the client is created without the limiter.
JoinNoLimiter(n) ==
  /\ n \notin present
  /\ present' = present \cup {n}
  /\ UNCHANGED <<confVars, limited, hystrixVars, reloadVars>>

\* The NewClient function is there only if hystrix was enabled when the client
\* was created; it reads the settings of the day.
Join(n) ==
  /\ n \notin present
  /\ present' = present \cup {n}
  /\ limited' = IF installed THEN limited \cup {n} ELSE limited
  /\ registered' = IF installed
                     THEN [registered EXCEPT ![n] = setting] ELSE registered
  /\ UNCHANGED <<confVars, circuit, inherited, reloadVars>>

\* A client always knows at least one node.
Leave(n) ==
  /\ n \in present /\ present # {n}
  /\ present' = present \ {n}
  /\ limited' = limited \ {n}
  /\ stale' = IF visit[n] # "no" THEN stale \cup {n} ELSE stale
  /\ UNCHANGED <<confVars, hystrixVars, pc, target, visit, missed>>

\* A command on a limited node finds its circuit or has it made.
Command(n) ==
  /\ n \in limited
  /\ circuit[n] = NoSetting
  /\ circuit' = [circuit EXCEPT ![n] = registered[n]]
  /\ UNCHANGED <<confVars, nodeVars, registered, inherited, reloadVars>>

-----------------------------------------------------------------------------
(* reload.                                                                 *)

\* ForEachShard starts its function for every node, or fails.
Shards(stage) ==
  \/ /\ visit' = [n \in Node |-> IF n \in present THEN stage ELSE "no"]
     /\ stale' = {}
     /\ missed' = FALSE
  \/ missed' = TRUE /\ UNCHANGED <<visit, stale>>

ReloadEnabled ==
  /\ pc = "idle"
  /\ \E h \in Setting :
       /\ target' = [enabled |-> TRUE, setting |-> h]
       /\ \/ /\ h # setting \/ ~enabled
             /\ setting' = h
             /\ Shards("configure")
          \/ /\ h = setting /\ enabled
             /\ UNCHANGED <<setting, visit, stale, missed>>
  /\ pc' = "set"
  /\ UNCHANGED <<installed, enabled, nodeVars, hystrixVars>>

\* The new settings are not taken over.
ReloadDisabled ==
  /\ pc = "idle"
  /\ \E h \in Setting : target' = [enabled |-> FALSE, setting |-> h]
  /\ Shards("clear")
  /\ pc' = "clear"
  /\ UNCHANGED <<confVars, nodeVars, hystrixVars>>

\* Mutated: the limiter is there before the settings are.
ConfigureLater(n) ==
  /\ visit[n] = "configure"
  /\ visit' = [visit EXCEPT ![n] = "flush"]
  /\ UNCHANGED <<confVars, nodeVars, hystrixVars, pc, target, stale, missed>>

\* reconfigureHystrix, first half.
Configure(n) ==
  /\ visit[n] = "configure"
  /\ registered' = [registered EXCEPT ![n] = target.setting]
  /\ visit' = [visit EXCEPT ![n] = "flush"]
  /\ UNCHANGED <<confVars, nodeVars, circuit, inherited, pc, target, stale, missed>>

\* Mutated: the circuits stay.
FlushNot(n) ==
  /\ visit[n] = "flush"
  /\ visit' = [visit EXCEPT ![n] = "limiter"]
  /\ UNCHANGED <<confVars, nodeVars, hystrixVars, pc, target, stale, missed>>

\* reconfigureHystrix, second half: every circuit goes.
Flush(n) ==
  /\ visit[n] = "flush"
  /\ circuit' = [m \in Node |-> NoSetting] /\ inherited' = {}
  /\ visit' = [visit EXCEPT ![n] = "limiter"]
  /\ UNCHANGED <<confVars, nodeVars, registered, pc, target, stale, missed>>

\* SetLimiter on the client that was visited, which the cluster may have
\* replaced.
SetLimiter(n) ==
  /\ visit[n] = "limiter"
  /\ limited' = IF n \in present \ stale THEN limited \cup {n} ELSE limited
  /\ visit' = [visit EXCEPT ![n] = "no"]
  /\ UNCHANGED <<confVars, present, hystrixVars, pc, target, stale, missed>>

ClearLimiter(n) ==
  /\ visit[n] = "clear"
  /\ limited' = IF n \in stale THEN limited ELSE limited \ {n}
  /\ visit' = [visit EXCEPT ![n] = "no"]
  /\ UNCHANGED <<confVars, present, hystrixVars, pc, target, stale, missed>>

ReloadEnd ==
  /\ pc # "idle"
  /\ \A n \in Node : visit[n] = "no"
  /\ enabled' = target.enabled
  /\ pc' = "idle"
  /\ UNCHANGED <<installed, setting, nodeVars, hystrixVars, target, visit, stale,
                 missed>>

Next == \/ \E n \in Node : Join(n) \/ Leave(n) \/ Command(n)
        \/ ReloadEnabled \/ ReloadDisabled \/ ReloadEnd
        \/ \E n \in Node : \/ Configure(n) \/ Flush(n) \/ SetLimiter(n)
                           \/ ClearLimiter(n)

Spec == Init /\ [][Next]_vars

-----------------------------------------------------------------------------
(* Properties.                                                             *)

\* What ClientConfig says of hystrix: each node has its own circuit breaker -
\* the nodes that join later, during a reload or between two, as well
\* (config.go:294-301, cluster_wrapper.go:122-132).
EachNodeHasBreaker ==
  pc = "idle" /\ enabled /\ installed /\ ~missed => present \subseteq limited

\* No limiter guards a node under hystrix's own defaults: the settings of its
\* key are there before it, whatever fails or leaves (limiter.go:104-119).
LimitersAreConfigured == \A n \in limited : registered[n] # NoSetting

\* Between reloads the settings of the configuration are in force: no limited
\* node, whenever it joined or last ran a command, has a circuit that was made
\* with older ones (limiter.go:116-119) - unless it has had it since before the
\* client and no reload has flushed the circuits yet.
SettingsInForce ==
  pc = "idle" /\ enabled /\ ~missed =>
    \A n \in limited :
      /\ registered[n] = setting
      /\ n \in inherited \/ circuit[n] \in {setting, NoSetting}

-----------------------------------------------------------------------------
(* What comments and messages of the code say and the code does not do: TLC *)
(* finds each of these violated.                                            *)

\* cluster_wrapper.go:134: "if the hystrix is disabled, we need to remove the
\* hystrix config", however the client was created.
DisabledMeansNone == pc = "idle" /\ ~enabled /\ ~missed => limited = {}

\* limiter.go:118: "remove any existing circuit to apply new setting": a client
\* that is created applies its settings too.
CreationApplies == pc = "idle" /\ enabled /\ ~missed =>
                     \A n \in limited : circuit[n] \in {setting, NoSetting}
=============================================================================
