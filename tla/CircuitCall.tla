----------------------------- MODULE CircuitCall ----------------------------
(***************************************************************************)
(* circuitbreaker.Go (src/circuitbreaker/circuit_breaker.go) with the      *)
(* error handlers it is used with: a routine runs under hystrix, what is   *)
(* harmless to the circuit comes back through softErrorCh, what counts     *)
(* against it through hystrix's own channel, and a third goroutine answers *)
(* the caller with the first of the two or with the context's error.       *)
(*                                                                         *)
(* hystrix-go is not part of the repository.  Of it this module takes what *)
(* Go relies on: a command is refused or run once, it may time out while   *)
(* it runs, and its channel holds the one error of a command that fails.   *)
(* No option sets a fallback handler, so that Go passes none.              *)
(*                                                                         *)
(* The names that every specification has begin with Call: BreakerProofs   *)
(* extends this module and NodeBreaker.                                    *)
(***************************************************************************)
EXTENDS Naturals, Sequences

CONSTANTS Id,          \* the calls of Go
          Handler,     \* each call's error handler: "default" or "limiter"
          Cancellable  \* the calls whose context can be done

ASSUME HandlerType == Handler \in [Id -> {"default", "limiter"}]
ASSUME CancellableType == Cancellable \subseteq Id

VARIABLES
  cmd,      \* hystrix's command: "new", "ready", "running", "over"
  run,      \* the goroutine of run: "none", "routine", "push", "returned", "gone"
  outcome,  \* what the routine did
  soft,     \* softErrorCh
  fatal,    \* fatalErrorCh
  ctxDone,  \* the call's context is done
  answer    \* what aggregateError sent, once it has

callVars == <<cmd, run, outcome, soft, fatal, ctxDone, answer>>

ReadOnlyError == {"readonly"}
RedisError == {"readonly", "wrongtype"}
Failure == {"canceled", "network", "panic"} \cup RedisError
Refusal == {"refused", "timeout"}

\* shouldCountAsCBError
ShouldCount(e) ==
  /\ e # "nil"
  /\ e # "canceled"
  /\ e \in ReadOnlyError \/ e \notin RedisError

\* What run hands to hystrix: the error that the handler does not call safe.
Threat(k, e) ==
  IF Handler[k] = "limiter" THEN ShouldCount(e) ELSE e # "nil"

CallTypeOK ==
  /\ cmd \in [Id -> {"new", "ready", "running", "over"}]
  /\ run \in [Id -> {"none", "routine", "push", "returned", "gone"}]
  /\ outcome \in [Id -> Failure \cup {"none", "nil"}]
  /\ soft \in [Id -> Seq(Failure \cup {"nil"})]
  /\ fatal \in [Id -> Seq(Failure \cup Refusal)]
  /\ \A k \in Id : Len(soft[k]) <= 1 /\ Len(fatal[k]) <= 1
  /\ ctxDone \in [Id -> BOOLEAN]
  /\ answer \in [Id -> Failure \cup Refusal \cup {"none", "nil", "ctx"}]

CallInit ==
  /\ cmd = [k \in Id |-> "new"]
  /\ run = [k \in Id |-> "none"]
  /\ outcome = [k \in Id |-> "none"]
  /\ soft = [k \in Id |-> <<>>]
  /\ fatal = [k \in Id |-> <<>>]
  /\ ctxDone = [k \in Id |-> FALSE]
  /\ answer = [k \in Id |-> "none"]

-----------------------------------------------------------------------------
Go(k) ==
  /\ cmd[k] = "new"
  /\ cmd' = [cmd EXCEPT ![k] = "ready"]
  /\ UNCHANGED <<run, outcome, soft, fatal, ctxDone, answer>>

(* hystrix.                                                                *)

\* The circuit is open or too many commands run.
Refuse(k) ==
  /\ cmd[k] = "ready"
  /\ cmd' = [cmd EXCEPT ![k] = "over"]
  /\ fatal' = [fatal EXCEPT ![k] = Append(@, "refused")]
  /\ UNCHANGED <<run, outcome, soft, ctxDone, answer>>

Start(k) ==
  /\ cmd[k] = "ready"
  /\ cmd' = [cmd EXCEPT ![k] = "running"]
  /\ run' = [run EXCEPT ![k] = "routine"]
  /\ UNCHANGED <<outcome, soft, fatal, ctxDone, answer>>

\* The routine goes on.
TimeOut(k) ==
  /\ cmd[k] = "running"
  /\ cmd' = [cmd EXCEPT ![k] = "over"]
  /\ fatal' = [fatal EXCEPT ![k] = Append(@, "timeout")]
  /\ UNCHANGED <<run, outcome, soft, ctxDone, answer>>

\* run has returned; its error counts unless the command has timed out.
Finish(k) ==
  /\ run[k] = "returned"
  /\ run' = [run EXCEPT ![k] = "gone"]
  /\ cmd' = [cmd EXCEPT ![k] = "over"]
  /\ fatal' = IF cmd[k] = "running" /\ Threat(k, outcome[k])
                THEN [fatal EXCEPT ![k] = Append(@, outcome[k])] ELSE fatal
  /\ UNCHANGED <<outcome, soft, ctxDone, answer>>

(* run.                                                                    *)

\* The routine returns or panics, and the handler judges what came of it.
Routine(k) ==
  /\ run[k] = "routine"
  /\ \E e \in Failure \cup {"nil"} :
       /\ outcome' = [outcome EXCEPT ![k] = e]
       /\ run' = [run EXCEPT ![k] = IF Threat(k, e) THEN "returned" ELSE "push"]
  /\ UNCHANGED <<cmd, soft, fatal, ctxDone, answer>>

\* Mutated: softErrorCh has no buffer, so that the answering goroutine must
\* still be there.
PushUnbuffered(k) ==
  /\ run[k] = "push"
  /\ answer[k] = "none"
  /\ soft' = [soft EXCEPT ![k] = Append(@, outcome[k])]
  /\ run' = [run EXCEPT ![k] = "returned"]
  /\ UNCHANGED <<cmd, outcome, fatal, ctxDone, answer>>

\* Mutated: what is sent is the handler's error, nil for a safe one.
PushHandlersError(k) ==
  /\ run[k] = "push"
  /\ soft' = [soft EXCEPT ![k] = Append(@, "nil")]
  /\ run' = [run EXCEPT ![k] = "returned"]
  /\ UNCHANGED <<cmd, outcome, fatal, ctxDone, answer>>

\* Mutated: a safe error is not sent.
PushOnlyNil(k) ==
  /\ run[k] = "push"
  /\ soft' = IF outcome[k] = "nil" THEN [soft EXCEPT ![k] = <<"nil">>] ELSE soft
  /\ run' = [run EXCEPT ![k] = "returned"]
  /\ UNCHANGED <<cmd, outcome, fatal, ctxDone, answer>>

\* softErrorCh has room for one.
Push(k) ==
  /\ run[k] = "push"
  /\ Len(soft[k]) < 1
  /\ soft' = [soft EXCEPT ![k] = Append(@, outcome[k])]
  /\ run' = [run EXCEPT ![k] = "returned"]
  /\ UNCHANGED <<cmd, outcome, fatal, ctxDone, answer>>

(* aggregateError.                                                         *)

AnswerSoft(k) ==
  /\ answer[k] = "none" /\ soft[k] # <<>>
  /\ answer' = [answer EXCEPT ![k] = Head(soft[k])]
  /\ soft' = [soft EXCEPT ![k] = Tail(@)]
  /\ UNCHANGED <<cmd, run, outcome, fatal, ctxDone>>

AnswerFatal(k) ==
  /\ answer[k] = "none" /\ fatal[k] # <<>>
  /\ answer' = [answer EXCEPT ![k] = Head(fatal[k])]
  /\ fatal' = [fatal EXCEPT ![k] = Tail(@)]
  /\ UNCHANGED <<cmd, run, outcome, soft, ctxDone>>

AnswerContext(k) ==
  /\ answer[k] = "none" /\ ctxDone[k] /\ cmd[k] # "new"
  /\ answer' = [answer EXCEPT ![k] = "ctx"]
  /\ UNCHANGED <<cmd, run, outcome, soft, fatal, ctxDone>>

ContextEnds(k) ==
  /\ k \in Cancellable /\ ~ctxDone[k]
  /\ ctxDone' = [ctxDone EXCEPT ![k] = TRUE]
  /\ UNCHANGED <<cmd, run, outcome, soft, fatal, answer>>

Hystrix(k) == Refuse(k) \/ Start(k) \/ TimeOut(k) \/ Finish(k)
Answer(k) == AnswerSoft(k) \/ AnswerFatal(k) \/ AnswerContext(k)

CallNext == \E k \in Id :
  Go(k) \/ Hystrix(k) \/ Routine(k) \/ Push(k) \/ Answer(k) \/ ContextEnds(k)

\* hystrix decides on a command, stops it in time and takes notice of its
\* end; the goroutines of Go are scheduled.  Nothing is assumed of the routine.
Fairness == \A k \in Id :
  WF_callVars(Hystrix(k)) /\ WF_callVars(Push(k)) /\ WF_callVars(Answer(k))

CallSpec == CallInit /\ [][CallNext]_callVars
FairSpec == CallSpec /\ Fairness

-----------------------------------------------------------------------------
(* Properties.                                                             *)

\* The caller learns what happened to its own call: nil and a harmless error
\* only from the routine, a counted error only if it is one, a refusal only if
\* the routine never ran, whatever overtakes what (circuit_breaker.go:67-87).
AnswerIsTrue == \A k \in Id :
  /\ answer[k] \in Failure \cup {"nil"} => answer[k] = outcome[k]
  /\ answer[k] = "refused" => run[k] = "none"
  /\ answer[k] = "timeout" => cmd[k] = "over" /\ run[k] # "none"
  /\ answer[k] = "ctx" => ctxDone[k]

\* Every call is answered, even when its routine never returns and nobody
\* cancels it: limiter.Execute waits under context.Background()
\* (circuit_breaker.go:173-175, limiter.go:48, 63).
AnswerComes == \A k \in Id : cmd[k] = "ready" ~> answer[k] # "none"

\* A run whose routine returns ends, also when the caller has been answered
\* already and nobody reads softErrorCh any more (circuit_breaker.go:112-113).
RunEnds == \A k \in Id : run[k] \in {"push", "returned"} ~> run[k] = "gone"

-----------------------------------------------------------------------------
(* What comments and messages of the code say and the code does not do: TLC *)
(* finds each of these violated.                                            *)

\* What Go's comment says: the errors of a routine's panic are soft ones, which
\* do not count against the circuit.
PanicIsSoft == \A k \in Id :
  outcome[k] = "panic" => "panic" \notin {fatal[k][i] : i \in DOMAIN fatal[k]}
=============================================================================
