----------------------------- MODULE DualWrite ------------------------------
(***************************************************************************)
(* The connector's request path and its shutdown (src/connector.go) over   *)
(* the scheduler: callers put one closure per load-test client into the    *)
(* scheduler's channel (queueLoadTest) and then run the command on the     *)
(* main client; workers run the closures on the load-test clients;         *)
(* ShutDown closes the main client, cancels the scheduler, waits for the   *)
(* workers and closes the load-test clients.                               *)
(*                                                                         *)
(* Do, DoReadOnly, Pipeline, PipelineReadOnly, Run, RunReadOnly, Publish   *)
(* and Subscribe all have this path; only Do and DoReadOnly can skip the   *)
(* queue.  A call is made once and ShutDown is called at most once.        *)
(***************************************************************************)
EXTENDS Integers, Sequences, FiniteSets

CONSTANTS Req,        \* the calls
          NClient,    \* len(c.loadTestClients)
          NoFunc, Worker, ChanSize, MaxWorker, MaxNeed

ASSUME NClientType == NClient \in Nat

Client == 1..NClient

\* The closure that call r sends in iteration i of queueLoadTest.
Func == Req \X Client

\* What Scheduler assumes of its constants.
ASSUME SchedulerSizes == /\ ChanSize \in Nat \ {0}
                         /\ MaxWorker \in Nat \ {0}
                         /\ MaxNeed \in Nat \ {0}
ASSUME SchedulerWorkers == IsFiniteSet(Worker)
ASSUME SchedulerNoFunc == NoFunc \notin Func

VARIABLES fnChan, closed, cancelled, numWorker, wg, loop, quota,
          worker, fn, tick, done       \* the scheduler's

VARIABLES
  processAll,  \* c.processAllLoadTestPackets
  pc,          \* where each call is
  idx,         \* iterations of the range loop each call has begun
  loopVar,     \* the loop variable `client` of each call: its closures read it
  stage,       \* where each worker is in the closure it runs
  target,      \* the client on which it runs the command
  hits,        \* history: how often a call's command was run on a client
  ltClient,    \* each load-test client
  sd           \* where ShutDown is

schedVars == <<fnChan, closed, cancelled, numWorker, wg, loop, quota,
               worker, fn, tick, done>>
callVars == <<pc, idx, loopVar>>
runVars  == <<stage, target, hits>>
sdVars   == <<ltClient, sd>>
vars == <<schedVars, processAll, callVars, runVars, sdVars>>

S == INSTANCE Scheduler

TypeOK ==
  /\ processAll \in BOOLEAN
  /\ pc \in [Req -> {"idle", "range", "send", "main", "returned", "panicked"}]
  /\ idx \in [Req -> 0..NClient]
  /\ loopVar \in [Req -> 0..NClient]
  /\ stage \in [Worker -> {"none", "check", "apply", "op"}]
  /\ target \in [Worker -> 0..NClient]
  /\ hits \in [Req -> [Client -> Nat]]
  /\ ltClient \in [Client -> {"open", "closing", "closed"}]
  /\ sd \in {"idle", "main", "cancel", "wait", "parked", "woken", "close",
             "done", "panicked"}

Init ==
  /\ S!Init
  /\ processAll \in BOOLEAN
  /\ pc = [r \in Req |-> "idle"]
  /\ idx = [r \in Req |-> 0]
  /\ loopVar = [r \in Req |-> 0]
  /\ stage = [w \in Worker |-> "none"]
  /\ target = [w \in Worker |-> 0]
  /\ hits = [r \in Req |-> [i \in Client |-> 0]]
  /\ ltClient = [i \in Client |-> "open"]
  /\ sd = "idle"

-----------------------------------------------------------------------------
(* A call.                                                                 *)

\* With IgnoreReadOnly, a command that the cache knows to be read-only goes to
\* the main client alone.
Call(r) ==
  /\ pc[r] = "idle"
  /\ \E next \in {"range", "main"} : pc' = [pc EXCEPT ![r] = next]
  /\ UNCHANGED <<schedVars, processAll, idx, loopVar, runVars, sdVars>>

\* Mutated: the variable is assigned at the end of an iteration, not at its
\* start, so that the closures see the client of the iteration before.
RangeNextLate(r) ==
  /\ pc[r] = "range"
  /\ idx[r] < NClient
  /\ idx' = [idx EXCEPT ![r] = idx[r] + 1]
  /\ loopVar' = [loopVar EXCEPT ![r] = IF idx[r] = 0 THEN 1 ELSE idx[r]]
  /\ pc' = [pc EXCEPT ![r] = "send"]
  /\ UNCHANGED <<schedVars, processAll, runVars, sdVars>>

\* The next iteration assigns the one variable that every closure of this
\* call has captured.
RangeNext(r) ==
  /\ pc[r] = "range"
  /\ idx[r] < NClient
  /\ idx' = [idx EXCEPT ![r] = idx[r] + 1]
  /\ loopVar' = [loopVar EXCEPT ![r] = idx[r] + 1]
  /\ pc' = [pc EXCEPT ![r] = "send"]
  /\ UNCHANGED <<schedVars, processAll, runVars, sdVars>>

RangeEnd(r) ==
  /\ pc[r] = "range"
  /\ idx[r] = NClient
  /\ pc' = [pc EXCEPT ![r] = "main"]
  /\ UNCHANGED <<schedVars, processAll, idx, loopVar, runVars, sdVars>>

\* The channel takes the closure.  When it is full, the call waits here if
\* processAll, and otherwise drops the closure.
SendOk(r) ==
  /\ pc[r] = "send"
  /\ S!Send(<<r, idx[r]>>)
  /\ pc' = [pc EXCEPT ![r] = "range"]
  /\ UNCHANGED <<processAll, idx, loopVar, runVars, sdVars>>

\* Mutated: a full channel drops the closure whatever processAll says.
SendDropAlways(r) ==
  /\ pc[r] = "send"
  /\ ~closed
  /\ Len(fnChan) = ChanSize
  /\ pc' = [pc EXCEPT ![r] = "range"]
  /\ UNCHANGED <<schedVars, processAll, idx, loopVar, runVars, sdVars>>

SendDrop(r) ==
  /\ pc[r] = "send"
  /\ ~processAll
  /\ ~closed
  /\ Len(fnChan) = ChanSize
  /\ pc' = [pc EXCEPT ![r] = "range"]
  /\ UNCHANGED <<schedVars, processAll, idx, loopVar, runVars, sdVars>>

\* Mutated: a sender that waits is not told that the channel was closed.
SendPanicNotWaiting(r) ==
  /\ pc[r] = "send"
  /\ closed
  /\ ~processAll
  /\ pc' = [pc EXCEPT ![r] = "panicked"]
  /\ UNCHANGED <<schedVars, processAll, idx, loopVar, runVars, sdVars>>

\* A send on a closed channel panics, in both forms, also when it was waiting.
SendPanic(r) ==
  /\ pc[r] = "send"
  /\ closed
  /\ pc' = [pc EXCEPT ![r] = "panicked"]
  /\ UNCHANGED <<schedVars, processAll, idx, loopVar, runVars, sdVars>>

\* c.client runs the command, or fails with an error: the call returns.
MainOp(r) ==
  /\ pc[r] = "main"
  /\ pc' = [pc EXCEPT ![r] = "returned"]
  /\ UNCHANGED <<schedVars, processAll, idx, loopVar, runVars, sdVars>>

-----------------------------------------------------------------------------
(* The workers: the scheduler's steps, with the closure's body.            *)

Receive(w) ==
  /\ S!Receive(w)
  /\ stage' = [stage EXCEPT ![w] = "check"]
  /\ UNCHANGED <<processAll, callVars, target, hits, sdVars>>

\* select { case <-ctx.Done(): return; default: ... }
CheckDone(w) ==
  /\ stage[w] = "check"
  /\ cancelled
  /\ S!Return(w)
  /\ stage' = [stage EXCEPT ![w] = "none"]
  /\ UNCHANGED <<processAll, callVars, target, hits, sdVars>>

CheckDefault(w) ==
  /\ stage[w] = "check"
  /\ ~cancelled
  /\ stage' = [stage EXCEPT ![w] = "apply"]
  /\ UNCHANGED <<schedVars, processAll, callVars, target, hits, sdVars>>

\* fn(ctx, client): the captured variable is read now.
Apply(w) ==
  /\ stage[w] = "apply"
  /\ LET r == fn[w][1]
         c == loopVar[r]
     IN /\ target' = [target EXCEPT ![w] = c]
        /\ hits' = [hits EXCEPT ![r][c] = @ + 1]
  /\ stage' = [stage EXCEPT ![w] = "op"]
  /\ UNCHANGED <<schedVars, processAll, callVars, sdVars>>

\* The command has been answered, has failed or has timed out.
OpReturn(w) ==
  /\ stage[w] = "op"
  /\ S!Return(w)
  /\ stage' = [stage EXCEPT ![w] = "none"]
  /\ target' = [target EXCEPT ![w] = 0]
  /\ UNCHANGED <<processAll, callVars, hits, sdVars>>

\* Mutated: the last wg.Done does not wake the waiter.
LeaveNoWake(w) ==
  /\ S!ExitIdle(w) \/ S!ExitCancel(w)
  /\ UNCHANGED <<processAll, callVars, runVars, sdVars>>

\* wg.Done at 1 releases a ShutDown parked in wg.Wait.
Leave(w) ==
  /\ S!ExitIdle(w) \/ S!ExitCancel(w)
  /\ sd' = IF sd = "parked" /\ wg' = 0 THEN "woken" ELSE sd
  /\ UNCHANGED <<processAll, callVars, runVars, ltClient>>

SchedOther ==
  /\ \/ S!LoopNext
     \/ \E w \in Worker : S!Start(w) \/ S!TickerFires(w) \/ S!Dec(w)
  /\ UNCHANGED <<processAll, callVars, runVars, sdVars>>

-----------------------------------------------------------------------------
(* ShutDown.                                                               *)

SdStep(from, to) == sd = from /\ sd' = to

\* c.client.ShutDown(ctx) returns when the client has closed or the context
\* has timed out: it always returns.
SdBegin ==
  /\ SdStep("idle", "main")
  /\ UNCHANGED <<schedVars, processAll, callVars, runVars, ltClient>>

SdMainReturn ==
  /\ SdStep("main", "cancel")
  /\ UNCHANGED <<schedVars, processAll, callVars, runVars, ltClient>>

SdCancel ==
  /\ SdStep("cancel", "wait")
  /\ S!Cancel
  /\ UNCHANGED <<processAll, callVars, runVars, ltClient>>

\* Mutated: ShutDown does not wait for the workers.
SdWaitNot ==
  /\ SdStep("wait", "close")
  /\ UNCHANGED <<schedVars, processAll, callVars, runVars, ltClient>>

\* wg.Wait looks at the counter once.  If it is not zero, it parks until a Done
\* takes it to zero, and panics if it then finds it in use again.
SdWait ==
  /\ IF wg = 0 THEN SdStep("wait", "close") ELSE SdStep("wait", "parked")
  /\ UNCHANGED <<schedVars, processAll, callVars, runVars, ltClient>>

SdWoken ==
  /\ IF wg = 0 THEN SdStep("woken", "close") ELSE SdStep("woken", "panicked")
  /\ UNCHANGED <<schedVars, processAll, callVars, runVars, ltClient>>

\* for ... { go client.ShutDown(ctx) }: ShutDown does not wait for them.
SdClose ==
  /\ SdStep("close", "done")
  /\ ltClient' = [i \in Client |-> "closing"]
  /\ UNCHANGED <<schedVars, processAll, callVars, runVars>>

ClientClosed(i) ==
  /\ ltClient[i] = "closing"
  /\ ltClient' = [ltClient EXCEPT ![i] = "closed"]
  /\ UNCHANGED <<schedVars, processAll, callVars, runVars, sd>>

-----------------------------------------------------------------------------
CallNext(r) == \/ Call(r)
               \/ RangeNext(r)
               \/ RangeEnd(r)
               \/ SendOk(r)
               \/ SendDrop(r)
               \/ SendPanic(r)
               \/ MainOp(r)

RunNext(w) == \/ Receive(w)
              \/ CheckDone(w)
              \/ CheckDefault(w)
              \/ Apply(w)
              \/ OpReturn(w)
              \/ Leave(w)

SdNext == \/ SdBegin
          \/ SdMainReturn
          \/ SdCancel
          \/ SdWait
          \/ SdWoken
          \/ SdClose
          \/ \E i \in Client : ClientClosed(i)

Next == \/ \E r \in Req : CallNext(r)
        \/ \E w \in Worker : RunNext(w)
        \/ SchedOther
        \/ SdNext

Spec == Init /\ [][Next]_vars

\* As in Scheduler; moreover a call that was made goes on, senders waiting for
\* room are served in turn, operations and closes return, and ShutDown, once
\* called, goes on.  Nobody is obliged to call.
KeepUnchanged == UNCHANGED <<processAll, callVars, runVars, sdVars>>

Fairness ==
  /\ \A r \in Req : /\ WF_vars(RangeNext(r) \/ RangeEnd(r) \/ SendDrop(r)
                                 \/ SendPanic(r) \/ MainOp(r))
                    /\ SF_vars(SendOk(r))
  /\ WF_vars(S!Tick /\ KeepUnchanged)
  /\ WF_vars(S!SpawnCheck /\ KeepUnchanged)
  /\ WF_vars((\E w \in Worker : S!Spawn(w)) /\ KeepUnchanged)
  /\ WF_vars(S!SpawnEnd /\ KeepUnchanged)
  /\ SF_vars(S!ObserveCancel /\ KeepUnchanged)
  /\ WF_vars(S!CloseChan /\ KeepUnchanged)
  /\ SF_vars(\E w \in Worker : Receive(w))
  /\ \A w \in Worker : /\ WF_vars(S!Start(w) /\ KeepUnchanged)
                       /\ WF_vars(CheckDone(w) \/ CheckDefault(w) \/ Apply(w)
                                    \/ OpReturn(w))
                       /\ SF_vars(S!ExitCancel(w) /\ Leave(w))
                       /\ WF_vars(S!Dec(w) /\ KeepUnchanged)
  /\ WF_vars(SdMainReturn)
  /\ WF_vars(SdCancel)
  /\ WF_vars(SdWait)
  /\ WF_vars(SdWoken)
  /\ WF_vars(SdClose)
  /\ \A i \in Client : WF_vars(ClientClosed(i))

FairSpec == Spec /\ Fairness

-----------------------------------------------------------------------------
(* Properties.                                                             *)

\* ShutDown closes the load-test clients only after it has waited for the
\* workers (connector.go:343-349): no command is ever being run on a load-test
\* client that has been told to close, although start may still add workers
\* after the wait has returned.
NoOpOnClosingClient ==
  \A w \in Worker : stage[w] = "op" => ltClient[target[w]] = "open"

\* The closure of iteration i reads the loop variable when it runs, and the
\* loop only moves on: it is never run on a client before the i-th, and the
\* last client gets the command at least once from the closure meant for it.
NeverEarlierClient ==
  \A w \in Worker : stage[w] = "op" => target[w] >= fn[w][2]

LastClientServed ==
  \A r \in Req : ~cancelled /\ <<r, NClient>> \in done => hits[r][NClient] >= 1

\* Every call ends, also one that waits for room in the channel (processAll)
\* while the scheduler shuts down.
CallsEnd ==
  \A r \in Req : pc[r] \in {"range", "send", "main"}
                   ~> pc[r] \in {"returned", "panicked"}

\* ProcessAllLoadTestPackets is "for not allowing losing packets when the
\* channel is full" (config.go:47): a call that has passed its loop is run for
\* every load-test client, unless the connector is shut down.
ProcessAllDelivers ==
  \A r \in Req : processAll /\ idx[r] = NClient /\ pc[r] \in {"main", "returned"}
                   ~> (cancelled \/ \A i \in Client : <<r, i>> \in done)

\* ShutDown, once called, ends, and then every load-test client is closed.
ShutDownEnds == sd = "main" ~> \/ sd = "panicked"
                               \/ \A i \in Client : ltClient[i] = "closed"

-----------------------------------------------------------------------------
(* What comments and messages of the code say and the code does not do: TLC *)
(* finds each of these violated.                                            *)

\* README.md:228: "The client will start dual write to both cluster": a
\* closure that has run to its end has written to its own client, once.
EachClientServed ==
  \A r \in Req, i \in Client :
    ~cancelled /\ <<r, i>> \in done => hits[r][i] = 1

\* connector_test.go:68-72: a command sent after ShutDown gets the error
\* "redis: client is closed": it does not panic.
NoCallPanics == \A r \in Req : pc[r] # "panicked"

\* connector.go:340: "ShutDown will stop the status reporting, close the pools
\* and other clean up": it does not panic on the way.
ShutDownDoesNotPanic == sd # "panicked"
=============================================================================
