---------------------------- MODULE BreakerProofs ---------------------------
(***************************************************************************)
(* Proofs about the circuit breaker, a node's and a call's.                *)
(*                                                                         *)
(* Of NodeBreaker, for any set of nodes and of settings: types, the        *)
(* limiters' keys, and, when the last ForEachShard has not failed, that    *)
(* the configured settings are in force on every limited node and that     *)
(* every node of a client created with hystrix has its breaker.            *)
(*                                                                         *)
(* Of CircuitCall, for any set of calls and either handler: the two error  *)
(* channels never hold more than they have room for, and the answer of a   *)
(* call is the truth about that call.                                      *)
(***************************************************************************)
EXTENDS NodeBreaker, CircuitCall, TLAPS

\* TypeOK with a client's nodes never all gone.
TypeInv == TypeOK /\ present # {}

\* ForEachShard leaves each node at a stage of the function it was given.
LEMMA ShardsType ==
  ASSUME TypeInv, NEW stage \in {"configure", "clear"}, Shards(stage)
  PROVE  /\ visit' \in [Node -> {"no", "configure", "flush", "limiter", "clear"}]
         /\ stale' \subseteq Node
         /\ missed' \in BOOLEAN
BY Zenon DEF TypeInv, TypeOK, Shards

\* The state has its type at every step (NodeBreaker's declarations).
THEOREM TypeCorrect == Spec => []TypeInv
<1>1. Init => TypeInv
  <2> SUFFICES ASSUME Init PROVE TypeInv
    OBVIOUS
  <2>1. present # {} /\ present \subseteq Node /\ limited \subseteq present
    BY DEF Init
  <2>2. /\ enabled \in BOOLEAN /\ installed \in BOOLEAN
        /\ target \in [enabled : BOOLEAN, setting : Setting]
    BY DEF Init
  <2>3. registered \in [Node -> Setting \cup {NoSetting}]
    BY DEF Init
  <2> QED
    BY <2>1, <2>2, <2>3 DEF Init, TypeInv, TypeOK
<1>2. TypeInv /\ [Next]_vars => TypeInv'
  <2> SUFFICES ASSUME TypeInv, [Next]_vars PROVE TypeInv'
    OBVIOUS
  <2> USE DEF TypeInv, TypeOK, confVars, nodeVars, hystrixVars, reloadVars
  <2>1. ASSUME NEW n \in Node, Join(n) PROVE TypeInv'
    BY <2>1 DEF Join
  <2>2. ASSUME NEW n \in Node, Leave(n) PROVE TypeInv'
    BY <2>2 DEF Leave
  <2>3. ASSUME NEW n \in Node, Command(n) PROVE TypeInv'
    BY <2>3 DEF Command
  <2>4. CASE ReloadEnabled
    <3>1. /\ visit' \in [Node -> {"no", "configure", "flush", "limiter", "clear"}]
          /\ stale' \subseteq Node
          /\ missed' \in BOOLEAN
      BY <2>4, ShardsType DEF ReloadEnabled
    <3> QED
      BY <2>4, <3>1 DEF ReloadEnabled
  <2>5. CASE ReloadDisabled
    BY <2>5, ShardsType DEF ReloadDisabled
  <2>6. CASE ReloadEnd
    BY <2>6 DEF ReloadEnd
  <2>7. ASSUME NEW n \in Node, Configure(n) PROVE TypeInv'
    BY <2>7 DEF Configure
  <2>8. ASSUME NEW n \in Node, Flush(n) PROVE TypeInv'
    BY <2>8 DEF Flush
  <2>9. ASSUME NEW n \in Node, SetLimiter(n) PROVE TypeInv'
    BY <2>9 DEF SetLimiter
  <2>10. ASSUME NEW n \in Node, ClearLimiter(n) PROVE TypeInv'
    BY <2>10 DEF ClearLimiter
  <2>11. CASE UNCHANGED vars
    BY <2>11 DEF vars
  <2> QED
    BY <2>1, <2>2, <2>3, <2>4, <2>5, <2>6, <2>7, <2>8, <2>9, <2>10, <2>11
    DEF Next
<1> QED
  BY <1>1, <1>2, PTL DEF Spec

-----------------------------------------------------------------------------
(* The settings.  While a reload is on, every node that has a limiter with *)
(* old settings is still to be configured, and as long as a circuit may be *)
(* old some flush is still to come.                                        *)

Configured(n) == registered[n] = setting
Fresh(n) == n \in inherited \/ circuit[n] \in {setting, NoSetting}

\* Which visits there are while reload is where.
StagesInv ==
  /\ pc = "idle" => \A n \in Node : visit[n] = "no"
  /\ pc = "set" => \A n \in Node : visit[n] # "clear"
  /\ pc = "clear" => \A n \in Node : visit[n] \in {"no", "clear"}
  /\ pc = "set" => target.enabled /\ target.setting = setting
  /\ pc = "clear" => ~target.enabled

SettingsInv == ~missed =>
  /\ pc = "idle" /\ enabled =>
       /\ \A n \in limited : Configured(n)
       /\ \A n \in Node : Fresh(n)
  /\ pc = "set" =>
       /\ \A n \in limited : Configured(n) \/ visit[n] = "configure"
       /\ \A n \in Node : visit[n] \in {"flush", "limiter"} => Configured(n)
       /\ \/ \A n \in Node : Fresh(n)
          \/ \E m \in Node : visit[m] \in {"configure", "flush"}

\* Unless the last ForEachShard failed, the configured settings are in force on
\* every limited node whenever no reload is running: reconfigureHystrix on the nodes
\* of the moment is enough, whatever joins, leaves or runs a command meanwhile.
THEOREM SettingsAreInForce == Spec => []SettingsInForce
<1> DEFINE I == StagesInv /\ SettingsInv
<1>1. Init => I
  BY DEF Init, StagesInv, SettingsInv, Configured, Fresh
<1>2. TypeInv /\ I /\ [Next]_vars => I'
  <2> SUFFICES ASSUME TypeInv, I, [Next]_vars PROVE I'
    OBVIOUS
  <2> USE DEF TypeInv, TypeOK, StagesInv, SettingsInv, Configured, Fresh,
              confVars, nodeVars, hystrixVars, reloadVars
  <2>1. ASSUME NEW n \in Node, Join(n) PROVE I'
    BY <2>1 DEF Join
  <2>2. ASSUME NEW n \in Node, Leave(n) PROVE I'
    BY <2>2 DEF Leave
  <2>3. ASSUME NEW n \in Node, Command(n) PROVE I'
    BY <2>3 DEF Command
  <2>4. CASE ReloadEnabled
    BY <2>4 DEF ReloadEnabled, Shards
  <2>5. CASE ReloadDisabled
    BY <2>5 DEF ReloadDisabled, Shards
  <2>6. CASE ReloadEnd
    BY <2>6 DEF ReloadEnd
  <2>7. ASSUME NEW n \in Node, Configure(n) PROVE I'
    BY <2>7 DEF Configure
  <2>8. ASSUME NEW n \in Node, Flush(n) PROVE I'
    BY <2>8, SettingType DEF Flush
  <2>9. ASSUME NEW n \in Node, SetLimiter(n) PROVE I'
    BY <2>9 DEF SetLimiter
  <2>10. ASSUME NEW n \in Node, ClearLimiter(n) PROVE I'
    BY <2>10 DEF ClearLimiter
  <2>11. CASE UNCHANGED vars
    BY <2>11 DEF vars
  <2> QED
    BY <2>1, <2>2, <2>3, <2>4, <2>5, <2>6, <2>7, <2>8, <2>9, <2>10, <2>11
    DEF Next
<1>3. TypeInv /\ I => SettingsInForce
  BY DEF StagesInv, SettingsInv, SettingsInForce, Configured, Fresh, TypeInv,
         TypeOK
<1> QED
  BY <1>1, <1>2, <1>3, TypeCorrect, PTL DEF Spec

-----------------------------------------------------------------------------
(* The breakers.  While a reload sets the limiters, a node without one is   *)
(* one that the reload found and has still to visit.                       *)

BreakerInv == installed /\ ~missed =>
  /\ pc = "idle" /\ enabled => present \subseteq limited
  /\ pc = "set" =>
       \A n \in present \ limited : visit[n] # "no" /\ n \notin stale

\* Every node of a client that was created with hystrix has its own circuit
\* breaker whenever hystrix is on and no reload is running, unless the last
\* ForEachShard failed.
THEOREM EveryNodeHasBreaker == Spec => []EachNodeHasBreaker
<1> DEFINE I == StagesInv /\ BreakerInv
<1>1. Init => I
  BY DEF Init, StagesInv, BreakerInv
<1>2. TypeInv /\ I /\ [Next]_vars => I'
  <2> SUFFICES ASSUME TypeInv, I, [Next]_vars PROVE I'
    OBVIOUS
  <2> USE DEF TypeInv, TypeOK, StagesInv, BreakerInv, confVars, nodeVars, hystrixVars,
              reloadVars
  <2>1. ASSUME NEW n \in Node, Join(n) PROVE I'
    BY <2>1 DEF Join
  <2>2. ASSUME NEW n \in Node, Leave(n) PROVE I'
    BY <2>2 DEF Leave
  <2>3. ASSUME NEW n \in Node, Command(n) PROVE I'
    BY <2>3 DEF Command
  <2>4. CASE ReloadEnabled
    BY <2>4 DEF ReloadEnabled, Shards
  <2>5. CASE ReloadDisabled
    BY <2>5 DEF ReloadDisabled, Shards
  <2>6. CASE ReloadEnd
    BY <2>6 DEF ReloadEnd
  <2>7. ASSUME NEW n \in Node, Configure(n) PROVE I'
    BY <2>7 DEF Configure
  <2>8. ASSUME NEW n \in Node, Flush(n) PROVE I'
    BY <2>8 DEF Flush
  <2>9. ASSUME NEW n \in Node, SetLimiter(n) PROVE I'
    BY <2>9 DEF SetLimiter
  <2>10. ASSUME NEW n \in Node, ClearLimiter(n) PROVE I'
    BY <2>10 DEF ClearLimiter
  <2>11. CASE UNCHANGED vars
    BY <2>11 DEF vars
  <2> QED
    BY <2>1, <2>2, <2>3, <2>4, <2>5, <2>6, <2>7, <2>8, <2>9, <2>10, <2>11
    DEF Next
<1>3. I => EachNodeHasBreaker
  BY DEF BreakerInv, EachNodeHasBreaker
<1> QED
  BY <1>1, <1>2, <1>3, TypeCorrect, PTL DEF Spec

-----------------------------------------------------------------------------
(* The keys.                                                               *)

KeysInv == \A n \in Node :
  visit[n] \in {"flush", "limiter"} => registered[n] # NoSetting

\* A limiter is never there before the settings of its key, ForEachShard
\* failing or not.
THEOREM LimitersHaveSettings == Spec => []LimitersAreConfigured
<1> DEFINE I == LimitersAreConfigured /\ KeysInv
<1>1. Init => I
  BY SettingType DEF Init, LimitersAreConfigured, KeysInv
<1>2. TypeInv /\ I /\ [Next]_vars => I'
  <2> SUFFICES ASSUME TypeInv, I, [Next]_vars PROVE I'
    OBVIOUS
  <2> USE DEF TypeInv, TypeOK, LimitersAreConfigured, KeysInv, confVars, nodeVars,
              hystrixVars, reloadVars
  <2>1. ASSUME NEW n \in Node, Join(n) PROVE I'
    BY <2>1, SettingType DEF Join
  <2>2. ASSUME NEW n \in Node, Leave(n) PROVE I'
    BY <2>2 DEF Leave
  <2>3. ASSUME NEW n \in Node, Command(n) PROVE I'
    BY <2>3 DEF Command
  <2>4. CASE ReloadEnabled
    BY <2>4 DEF ReloadEnabled, Shards
  <2>5. CASE ReloadDisabled
    BY <2>5 DEF ReloadDisabled, Shards
  <2>6. CASE ReloadEnd
    BY <2>6 DEF ReloadEnd
  <2>7. ASSUME NEW n \in Node, Configure(n) PROVE I'
    BY <2>7, SettingType DEF Configure
  <2>8. ASSUME NEW n \in Node, Flush(n) PROVE I'
    BY <2>8 DEF Flush
  <2>9. ASSUME NEW n \in Node, SetLimiter(n) PROVE I'
    BY <2>9 DEF SetLimiter
  <2>10. ASSUME NEW n \in Node, ClearLimiter(n) PROVE I'
    BY <2>10 DEF ClearLimiter
  <2>11. CASE UNCHANGED vars
    BY <2>11 DEF vars
  <2> QED
    BY <2>1, <2>2, <2>3, <2>4, <2>5, <2>6, <2>7, <2>8, <2>9, <2>10, <2>11
    DEF Next
<1> QED
  BY <1>1, <1>2, TypeCorrect, PTL DEF Spec

-----------------------------------------------------------------------------
(* The calls.                                                              *)

Result == Failure \cup {"nil"}

\* What the channels of a call can hold while its goroutines are where they
\* are: nothing before the command or the run has got there, then the one
\* thing that each of them sends.
SoftInv(k) ==
  \/ soft[k] = <<>>
  \/ /\ soft[k] = <<outcome[k]>>
     /\ outcome[k] \in Result
     /\ run[k] \in {"returned", "gone"}

FatalInv(k) ==
  \/ fatal[k] = <<>>
  \/ cmd[k] = "over" /\ run[k] = "none" /\ fatal[k] = <<"refused">>
  \/ cmd[k] = "over" /\ run[k] # "none" /\ fatal[k] = <<"timeout">>
  \/ /\ cmd[k] = "over" /\ run[k] = "gone"
     /\ outcome[k] \in Failure
     /\ fatal[k] = <<outcome[k]>>

RunInv(k) ==
  /\ cmd[k] \in {"new", "ready"} => run[k] = "none"
  /\ cmd[k] = "running" => run[k] \in {"routine", "push", "returned"}
  /\ run[k] \in {"push", "returned", "gone"} => outcome[k] \in Result

AnswerInv(k) ==
  /\ answer[k] \in Result => /\ answer[k] = outcome[k]
                             /\ run[k] \in {"returned", "gone"}
  /\ answer[k] = "refused" => cmd[k] = "over" /\ run[k] = "none"
  /\ answer[k] = "timeout" => cmd[k] = "over" /\ run[k] # "none"
  /\ answer[k] = "ctx" => ctxDone[k]

CallInv(k) == SoftInv(k) /\ FatalInv(k) /\ RunInv(k) /\ AnswerInv(k)

\* TypeOK but for the rooms of the channels, which follow from CallInv.
CallsTyped ==
  /\ cmd \in [Id -> {"new", "ready", "running", "over"}]
  /\ run \in [Id -> {"none", "routine", "push", "returned", "gone"}]
  /\ outcome \in [Id -> Failure \cup {"none", "nil"}]
  /\ soft \in [Id -> Seq(Result)]
  /\ fatal \in [Id -> Seq(Failure \cup Refusal)]
  /\ ctxDone \in [Id -> BOOLEAN]
  /\ answer \in [Id -> Failure \cup Refusal \cup {"none", "nil", "ctx"}]

CallsInv == CallsTyped /\ \A k \in Id : CallInv(k)

\* Sending to and receiving from a channel with room for one.
LEMMA One ==
  ASSUME NEW x
  PROVE  /\ Append(<<>>, x) = <<x>> /\ <<x>> # <<>>
         /\ Head(<<x>>) = x /\ Tail(<<x>>) = <<>>
         /\ Len(<<x>>) = 1 /\ Len(<<>>) = 0
OBVIOUS

\* Neither of the channels of a call ever has to hold a second error.
LEMMA AtMostOne ==
  ASSUME NEW x, NEW s, s = <<>> \/ s = <<x>>
  PROVE  Len(s) <= 1
<1>1. CASE s = <<>>
  BY <1>1, Len(<<>>) = 0
<1>2. CASE s = <<x>>
  <2>1. Len(<<x>>) = 1
    OBVIOUS
  <2> QED
    BY <1>2, <2>1
<1> QED
  BY <1>1, <1>2

\* The handlers call nil an error in no case.
LEMMA ThreatsAreFailures == \A k \in Id : ~Threat(k, "nil")
BY DEF Threat, ShouldCount

\* Before Go is called there is no error anywhere.
LEMMA InitCallsInv == CallInit => CallsInv
<1> SUFFICES ASSUME CallInit PROVE CallsInv
  OBVIOUS
<1>1. /\ cmd \in [Id -> {"new", "ready", "running", "over"}]
      /\ run \in [Id -> {"none", "routine", "push", "returned", "gone"}]
  BY DEF CallInit
<1>2. /\ soft \in [Id -> Seq(Result)]
      /\ fatal \in [Id -> Seq(Failure \cup Refusal)]
  BY DEF CallInit
<1>3. ctxDone \in [Id -> BOOLEAN]
  BY DEF CallInit
<1>4. /\ outcome \in [Id -> Failure \cup {"none", "nil"}]
      /\ answer \in [Id -> Failure \cup Refusal \cup {"none", "nil", "ctx"}]
  BY DEF CallInit
<1>5. \A k \in Id : CallInv(k)
  BY DEF CallInit, CallInv, SoftInv, FatalInv, RunInv, AnswerInv, Result,
         Failure, RedisError
<1> QED
  BY <1>1, <1>2, <1>3, <1>4, <1>5 DEF CallsInv, CallsTyped

\* A step of call k leaves the other calls as they are.
LEMMA Others ==
  ASSUME NEW k \in Id, NEW j \in Id, CallInv(j),
         cmd'[j] = cmd[j], run'[j] = run[j], outcome'[j] = outcome[j],
         soft'[j] = soft[j], fatal'[j] = fatal[j], ctxDone'[j] = ctxDone[j],
         answer'[j] = answer[j]
  PROVE  CallInv(j)'
BY DEF CallInv, SoftInv, FatalInv, RunInv, AnswerInv

\* Every step of a call, of hystrix and of its context keeps the invariant.
LEMMA StepCallsInv == CallsInv /\ [CallNext]_callVars => CallsInv'
<1> SUFFICES ASSUME CallsInv, [CallNext]_callVars PROVE CallsInv'
  OBVIOUS
<1> USE DEF CallsInv, CallsTyped, Result, Failure, RedisError, Refusal
<1>1. ASSUME NEW k \in Id, Go(k) PROVE CallsInv'
  <2>1. CallsTyped'
    BY <1>1 DEF Go
  <2>2. CallInv(k)'
    BY <1>1, <2>1, One
    DEF Go, CallInv, SoftInv, FatalInv, RunInv, AnswerInv
  <2>3. \A j \in Id \ {k} : CallInv(j)'
    BY <1>1, Others DEF Go
  <2> QED
    BY <2>1, <2>2, <2>3
<1>2. ASSUME NEW k \in Id, Refuse(k) PROVE CallsInv'
  <2>1. CallsTyped'
    BY <1>2 DEF Refuse
  <2>2. CallInv(k)'
    <3>1. fatal[k] = <<>>
      BY <1>2 DEF Refuse, CallInv, SoftInv, FatalInv,
           RunInv, AnswerInv
    <3>2. fatal'[k] = <<"refused">>
      BY <1>2, <3>1, One DEF Refuse
    <3> QED
      BY <1>2, <2>1, <3>1, <3>2 DEF Refuse, CallInv, SoftInv, FatalInv,
           RunInv, AnswerInv
  <2>3. \A j \in Id \ {k} : CallInv(j)'
    BY <1>2, Others DEF Refuse
  <2> QED
    BY <2>1, <2>2, <2>3
<1>3. ASSUME NEW k \in Id, Start(k) PROVE CallsInv'
  <2>1. CallsTyped'
    BY <1>3 DEF Start
  <2>2. CallInv(k)'
    BY <1>3, <2>1, One
    DEF Start, CallInv, SoftInv, FatalInv, RunInv, AnswerInv
  <2>3. \A j \in Id \ {k} : CallInv(j)'
    BY <1>3, Others DEF Start
  <2> QED
    BY <2>1, <2>2, <2>3
<1>4. ASSUME NEW k \in Id, TimeOut(k) PROVE CallsInv'
  <2>1. CallsTyped'
    BY <1>4 DEF TimeOut
  <2>2. CallInv(k)'
    <3>1. fatal[k] = <<>>
      BY <1>4 DEF TimeOut, CallInv, SoftInv, FatalInv,
           RunInv, AnswerInv
    <3>2. fatal'[k] = <<"timeout">>
      BY <1>4, <3>1, One DEF TimeOut
    <3> QED
      BY <1>4, <2>1, <3>1, <3>2 DEF TimeOut, CallInv, SoftInv, FatalInv,
           RunInv, AnswerInv
  <2>3. \A j \in Id \ {k} : CallInv(j)'
    BY <1>4, Others DEF TimeOut
  <2> QED
    BY <2>1, <2>2, <2>3
<1>5. ASSUME NEW k \in Id, Finish(k) PROVE CallsInv'
  <2>1. CallsTyped'
    BY <1>5, ThreatsAreFailures DEF Finish, CallInv, RunInv
  <2>2. CallInv(k)'
    <3>1. CASE cmd[k] = "running" /\ Threat(k, outcome[k])
      <4>1. fatal[k] = <<>> /\ outcome[k] \in Failure
        BY <1>5, <3>1, ThreatsAreFailures DEF Finish, CallInv, SoftInv, FatalInv,
           RunInv, AnswerInv
      <4>2. fatal'[k] = <<outcome[k]>>
        BY <1>5, <3>1, <4>1, One DEF Finish
      <4> QED
        BY <1>5, <2>1, <4>1, <4>2 DEF Finish, CallInv, SoftInv, FatalInv,
           RunInv, AnswerInv
    <3>2. CASE ~(cmd[k] = "running" /\ Threat(k, outcome[k]))
      BY <1>5, <2>1, <3>2 DEF Finish, CallInv, SoftInv, FatalInv,
           RunInv, AnswerInv
    <3> QED
      BY <3>1, <3>2
  <2>3. \A j \in Id \ {k} : CallInv(j)'
    BY <1>5, Others DEF Finish
  <2> QED
    BY <2>1, <2>2, <2>3
<1>6. ASSUME NEW k \in Id, Routine(k) PROVE CallsInv'
  <2>1. CallsTyped'
    BY <1>6, ThreatsAreFailures DEF Routine
  <2>2. CallInv(k)'
    <3>1. PICK e \in Failure \cup {"nil"} :
            /\ outcome' = [outcome EXCEPT ![k] = e]
            /\ run' = [run EXCEPT ![k] = IF Threat(k, e) THEN "returned" ELSE "push"]
      BY <1>6 DEF Routine
    <3>2. outcome'[k] = e /\ run'[k] \in {"returned", "push"} /\ soft'[k] = <<>>
      BY <1>6, <3>1 DEF Routine, CallInv, SoftInv, FatalInv,
           RunInv, AnswerInv
    <3> QED
      BY <1>6, <2>1, <3>2 DEF Routine, CallInv, SoftInv, FatalInv,
           RunInv, AnswerInv
  <2>3. \A j \in Id \ {k} : CallInv(j)'
    BY <1>6, Others DEF Routine
  <2> QED
    BY <2>1, <2>2, <2>3
<1>7. ASSUME NEW k \in Id, Push(k) PROVE CallsInv'
  <2>1. CallsTyped'
    BY <1>7 DEF Push, CallInv, RunInv
  <2>2. CallInv(k)'
    <3>1. soft[k] = <<>>
      BY <1>7 DEF Push, CallInv, SoftInv, FatalInv,
           RunInv, AnswerInv
    <3>2. soft'[k] = <<outcome[k]>>
      BY <1>7, <3>1, One DEF Push
    <3> QED
      BY <1>7, <2>1, <3>1, <3>2 DEF Push, CallInv, SoftInv, FatalInv,
           RunInv, AnswerInv
  <2>3. \A j \in Id \ {k} : CallInv(j)'
    BY <1>7, Others DEF Push
  <2> QED
    BY <2>1, <2>2, <2>3
<1>8. ASSUME NEW k \in Id, AnswerSoft(k) PROVE CallsInv'
  <2>1. CallsTyped'
    BY <1>8 DEF AnswerSoft
  <2>2. CallInv(k)'
    BY <1>8, <2>1, One
    DEF AnswerSoft, CallInv, SoftInv, FatalInv, RunInv, AnswerInv
  <2>3. \A j \in Id \ {k} : CallInv(j)'
    BY <1>8, Others DEF AnswerSoft
  <2> QED
    BY <2>1, <2>2, <2>3
<1>9. ASSUME NEW k \in Id, AnswerFatal(k) PROVE CallsInv'
  <2>1. CallsTyped'
    BY <1>9 DEF AnswerFatal
  <2>2. CallInv(k)'
    <3> DEFINE v == Head(fatal[k])
    <3>1. /\ fatal[k] # <<>>
          /\ fatal'[k] = Tail(fatal[k]) /\ answer'[k] = v
      BY <1>9 DEF AnswerFatal
    <3>2. FatalInv(k)
      BY DEF CallInv
    <3>3. /\ Tail(fatal[k]) = <<>>
          /\ \/ v = "refused" /\ cmd[k] = "over" /\ run[k] = "none"
             \/ v = "timeout" /\ cmd[k] = "over" /\ run[k] # "none"
             \/ v = outcome[k] /\ v \in Failure /\ run[k] = "gone"
      <4>1. CASE fatal[k] = <<"refused">> /\ cmd[k] = "over" /\ run[k] = "none"
        BY <4>1
      <4>2. CASE fatal[k] = <<"timeout">> /\ cmd[k] = "over" /\ run[k] # "none"
        BY <4>2
      <4>3. CASE /\ fatal[k] = <<outcome[k]>> /\ outcome[k] \in Failure
                 /\ run[k] = "gone"
        BY <4>3
      <4> QED
        BY <3>1, <3>2, <4>1, <4>2, <4>3 DEF FatalInv
    <3> QED
      BY <1>9, <2>1, <3>1, <3>3 DEF AnswerFatal, CallInv, SoftInv, FatalInv,
           RunInv, AnswerInv
  <2>3. \A j \in Id \ {k} : CallInv(j)'
    BY <1>9, Others DEF AnswerFatal
  <2> QED
    BY <2>1, <2>2, <2>3
<1>10. ASSUME NEW k \in Id, AnswerContext(k) PROVE CallsInv'
  <2>1. CallsTyped'
    BY <1>10 DEF AnswerContext
  <2>2. CallInv(k)'
    BY <1>10, <2>1, One
    DEF AnswerContext, CallInv, SoftInv, FatalInv, RunInv, AnswerInv
  <2>3. \A j \in Id \ {k} : CallInv(j)'
    BY <1>10, Others DEF AnswerContext
  <2> QED
    BY <2>1, <2>2, <2>3
<1>11. ASSUME NEW k \in Id, ContextEnds(k) PROVE CallsInv'
  <2>1. CallsTyped'
    BY <1>11 DEF ContextEnds
  <2>2. CallInv(k)'
    BY <1>11, <2>1, One
    DEF ContextEnds, CallInv, SoftInv, FatalInv, RunInv, AnswerInv
  <2>3. \A j \in Id \ {k} : CallInv(j)'
    BY <1>11, Others DEF ContextEnds
  <2> QED
    BY <2>1, <2>2, <2>3
<1>12. CASE UNCHANGED callVars
  <2>1. CallsTyped'
    BY <1>12 DEF callVars
  <2>2. \A j \in Id : CallInv(j)'
    BY <1>12, Others DEF callVars
  <2> QED
    BY <2>1, <2>2
<1> QED
  BY <1>1, <1>2, <1>3, <1>4, <1>5, <1>6, <1>7, <1>8, <1>9, <1>10,
     <1>11, <1>12 DEF CallNext, Hystrix, Answer

\* Types, and with them that neither channel ever has to hold two errors: a
\* run never waits to send its own (circuit_breaker.go:112-113).
THEOREM CallTypeCorrect == CallSpec => []CallTypeOK
<1>1. CallsInv => CallTypeOK
  <2> SUFFICES ASSUME CallsInv PROVE CallTypeOK
    OBVIOUS
  <2>1. \A k \in Id : Len(soft[k]) <= 1 /\ Len(fatal[k]) <= 1
    <3> TAKE k \in Id
    <3>1. SoftInv(k) /\ FatalInv(k)
      BY DEF CallsInv, CallInv
    <3>2. soft[k] = <<>> \/ soft[k] = <<outcome[k]>>
      BY <3>1 DEF SoftInv
    <3>3. PICK v : fatal[k] = <<>> \/ fatal[k] = <<v>>
      BY <3>1 DEF FatalInv
    <3>4. Len(soft[k]) <= 1
      BY <3>2, AtMostOne
    <3>5. Len(fatal[k]) <= 1
      BY <3>3, AtMostOne
    <3> QED
      BY <3>4, <3>5
  <2> QED
    BY <2>1 DEF CallsInv, CallsTyped, CallTypeOK, Result
<1> QED
  BY <1>1, InitCallsInv, StepCallsInv, PTL DEF CallSpec

\* The answer of a call is the truth about its routine and its command,
\* whatever the order in which run, hystrix and the context end
\* (circuit_breaker.go:67-87).
THEOREM AnswersAreTrue == CallSpec => []AnswerIsTrue
<1>1. CallsInv => AnswerIsTrue
  BY DEF CallsInv, CallInv, AnswerInv, AnswerIsTrue, Result
<1> QED
  BY <1>1, InitCallsInv, StepCallsInv, PTL DEF CallSpec
=============================================================================
