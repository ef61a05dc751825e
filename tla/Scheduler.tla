----------------------------- MODULE Scheduler ------------------------------
(***************************************************************************)
(* The dual-write scheduler (src/scheduler.go): a bounded channel of       *)
(* closures, one goroutine that looks at the backlog on a ticker and       *)
(* spawns workers (start), and the workers (spawnWorker), which leave when *)
(* their idle ticker has fired or the context is cancelled.                *)
(*                                                                         *)
(* Each step below is one atomic access to what the goroutines share: the  *)
(* channel, numWorker, the WaitGroup, the context, a ticker's channel.     *)
(* Bounds: Worker is how many worker goroutines can exist at once, MaxNeed *)
(* the largest number of workers one look at the backlog asks for, and     *)
(* Func the closures ever sent.                                            *)
(***************************************************************************)
EXTENDS Integers, Sequences, FiniteSets

CONSTANTS Func,        \* the closures that may be sent
          NoFunc,      \* not a closure: what an idle worker runs
          Worker,      \* slots for worker goroutines; a slot is reused
          ChanSize,    \* options.maxChanSize, after normalise
          MaxWorker,   \* options.maxWorker, after normalise
          MaxNeed      \* bound on what start computes as `need`

\* normalise (scheduler.go:44-56) replaces sizes that are not positive.
ASSUME SizesPositive == /\ ChanSize \in Nat \ {0}
                        /\ MaxWorker \in Nat \ {0}
                        /\ MaxNeed \in Nat \ {0}
ASSUME WorkerFinite == IsFiniteSet(Worker)
ASSUME NoFuncFresh == NoFunc \notin Func

VARIABLES
  fnChan,      \* the closures in the channel, oldest first
  closed,      \* close(fnChan) has been done
  cancelled,   \* the context of start and of the workers is cancelled
  numWorker,   \* the atomic counter that start reads
  wg,          \* the WaitGroup's counter
  loop,        \* where start is: see LoopState
  quota,       \* need - i in the spawn loop
  worker,      \* where each worker goroutine is
  fn,          \* the closure each worker is running
  tick,        \* what is in each idle ticker's channel
  done         \* history: the closures that have returned

vars == <<fnChan, closed, cancelled, numWorker, wg, loop, quota,
          worker, fn, tick, done>>
chanVars == <<fnChan, closed>>
loopVars == <<loop, quota>>
workerVars == <<worker, fn, tick>>

LoopState == {"select", "spawn", "add", "drain", "stopped"}

\* "exiting": wg.Done has run, the deferred numWorker.Dec has not.
WorkerState == {"none", "spawned", "select", "running", "exiting"}

\* A tick is "fresh" when it fired in the select the worker is still in, and
\* "stale" when the worker has run a closure since, or was running one.
TickState == {"none", "fresh", "stale"}

In(states) == {w \in Worker : worker[w] \in states}

\* The goroutines the WaitGroup waits for, and those numWorker counts.
Live    == In({"spawned", "select", "running"})
Counted == In({"select", "running", "exiting"})
Running == In({"running"})

Queued == {fnChan[i] : i \in 1..Len(fnChan)}
Active == {fn[w] : w \in Running}
Sent   == Queued \cup Active \cup done

TypeOK ==
  /\ fnChan \in Seq(Func)
  /\ closed \in BOOLEAN
  /\ cancelled \in BOOLEAN
  /\ numWorker \in Int
  /\ wg \in Int
  /\ loop \in LoopState
  /\ quota \in 0..MaxNeed
  /\ worker \in [Worker -> WorkerState]
  /\ fn \in [Worker -> Func \cup {NoFunc}]
  /\ tick \in [Worker -> TickState]
  /\ done \subseteq Func

Init ==
  /\ fnChan = <<>>
  /\ closed = FALSE
  /\ cancelled = FALSE
  /\ numWorker = 0
  /\ wg = 0
  /\ loop = "select"
  /\ quota = 0
  /\ worker = [w \in Worker |-> "none"]
  /\ fn = [w \in Worker |-> NoFunc]
  /\ tick = [w \in Worker |-> "none"]
  /\ done = {}

-----------------------------------------------------------------------------
(* The users of the scheduler.                                             *)

\* The channel takes a closure.  Each closure is a new one.
Send(f) ==
  /\ ~closed
  /\ Len(fnChan) < ChanSize
  /\ f \notin Sent
  /\ fnChan' = Append(fnChan, f)
  /\ UNCHANGED <<closed, cancelled, numWorker, wg, done>>
  /\ UNCHANGED <<loopVars, workerVars>>

Cancel ==
  /\ ~cancelled
  /\ cancelled' = TRUE
  /\ UNCHANGED <<chanVars, numWorker, wg, done>>
  /\ UNCHANGED <<loopVars, workerVars>>

-----------------------------------------------------------------------------
(* start.  The select takes either ready case: a tick may still be taken   *)
(* when the context is cancelled.                                          *)

\* Mutated: an off-by-one in the test of the backlog.
TickOffByOne ==
  /\ loop = "select"
  /\ Len(fnChan) > 1
  /\ loop' = "spawn"
  /\ quota' \in 1..MaxNeed
  /\ UNCHANGED <<chanVars, cancelled, numWorker, wg, workerVars, done>>

\* need is 1 before any latency is known, then the ceiling of backlog times
\* the average latency in seconds: any positive number.
Tick ==
  /\ loop = "select"
  /\ Len(fnChan) > 0
  /\ loop' = "spawn"
  /\ quota' \in 1..MaxNeed
  /\ UNCHANGED <<chanVars, cancelled, numWorker, wg, workerVars, done>>

\* The test of the spawn loop: numWorker is loaded here ...
SpawnCheck ==
  /\ loop = "spawn"
  /\ quota > 0
  /\ numWorker < MaxWorker
  /\ loop' = "add"
  /\ UNCHANGED <<chanVars, cancelled, numWorker, wg, quota, workerVars, done>>

\* ... and its body, wg.Add(1); go spawnWorker(ctx), leaves numWorker alone.
Spawn(w) ==
  /\ loop = "add"
  /\ worker[w] = "none"
  /\ wg' = wg + 1
  /\ worker' = [worker EXCEPT ![w] = "spawned"]
  /\ loop' = "spawn"
  /\ quota' = quota - 1
  /\ UNCHANGED <<chanVars, cancelled, numWorker, fn, tick, done>>

SpawnEnd ==
  /\ loop = "spawn"
  /\ quota = 0 \/ numWorker >= MaxWorker
  /\ loop' = "select"
  /\ quota' = 0
  /\ UNCHANGED <<chanVars, cancelled, numWorker, wg, workerVars, done>>

ObserveCancel ==
  /\ loop = "select"
  /\ cancelled
  /\ loop' = "drain"
  /\ UNCHANGED <<chanVars, cancelled, numWorker, wg, quota, workerVars, done>>

\* Mutated: the channel is closed without waiting for the workers.
CloseChanNoWait ==
  /\ loop = "drain"
  /\ closed' = TRUE
  /\ loop' = "stopped"
  /\ UNCHANGED <<fnChan, cancelled, numWorker, wg, quota, workerVars, done>>

\* wg.Wait() returns, then close(fnChan).  What is still in the channel stays.
CloseChan ==
  /\ loop = "drain"
  /\ wg = 0
  /\ closed' = TRUE
  /\ loop' = "stopped"
  /\ UNCHANGED <<fnChan, cancelled, numWorker, wg, quota, workerVars, done>>

-----------------------------------------------------------------------------
(* spawnWorker.                                                            *)

\* Mutated: numWorker is counted again by the goroutine that was counted before
\* it was started.
StartCountedTwice(w) ==
  /\ worker[w] = "spawned"
  /\ worker' = [worker EXCEPT ![w] = "select"]
  /\ numWorker' = numWorker + 2
  /\ tick' = [tick EXCEPT ![w] = "none"]
  /\ UNCHANGED <<chanVars, cancelled, wg, loopVars, fn, done>>

Start(w) ==
  /\ worker[w] = "spawned"
  /\ worker' = [worker EXCEPT ![w] = "select"]
  /\ numWorker' = numWorker + 1
  /\ tick' = [tick EXCEPT ![w] = "none"]
  /\ UNCHANGED <<chanVars, cancelled, wg, loopVars, fn, done>>

\* The idle ticker fires on its own; its channel holds one tick.
TickerFires(w) ==
  /\ worker[w] \in {"select", "running"}
  /\ tick[w] = "none"
  /\ tick' = [tick EXCEPT
                ![w] = IF worker[w] = "select" THEN "fresh" ELSE "stale"]
  /\ UNCHANGED <<chanVars, cancelled, numWorker, wg, loopVars, worker, fn, done>>

\* Mutated: the closure is looked at but left in the channel.
ReceivePeeks(w) ==
  /\ worker[w] = "select"
  /\ fnChan # <<>>
  /\ fn' = [fn EXCEPT ![w] = Head(fnChan)]
  /\ worker' = [worker EXCEPT ![w] = "running"]
  /\ UNCHANGED <<chanVars, cancelled, numWorker, wg, loopVars, tick, done>>

\* Mutated: the newest closure is taken first.
ReceiveNewest(w) ==
  /\ worker[w] = "select"
  /\ fnChan # <<>>
  /\ fn' = [fn EXCEPT ![w] = fnChan[Len(fnChan)]]
  /\ fnChan' = SubSeq(fnChan, 1, Len(fnChan) - 1)
  /\ worker' = [worker EXCEPT ![w] = "running"]
  /\ UNCHANGED <<closed, cancelled, numWorker, wg, loopVars, tick, done>>

Receive(w) ==
  /\ worker[w] = "select"
  /\ fnChan # <<>>
  /\ fn' = [fn EXCEPT ![w] = Head(fnChan)]
  /\ fnChan' = Tail(fnChan)
  /\ worker' = [worker EXCEPT ![w] = "running"]
  /\ UNCHANGED <<closed, cancelled, numWorker, wg, loopVars, tick, done>>

\* fn(ctx) returns.  Reset gives the ticker a new period; it does not take a
\* tick out of the ticker's channel.
Return(w) ==
  /\ worker[w] = "running"
  /\ done' = done \cup {fn[w]}
  /\ fn' = [fn EXCEPT ![w] = NoFunc]
  /\ worker' = [worker EXCEPT ![w] = "select"]
  /\ tick' = [tick EXCEPT ![w] = IF tick[w] = "none" THEN "none" ELSE "stale"]
  /\ UNCHANGED <<chanVars, cancelled, numWorker, wg, loopVars>>

\* Mutated: a way out of the worker that skips wg.Done.
LeaveNoDone(w) ==
  /\ worker[w] = "select"
  /\ worker' = [worker EXCEPT ![w] = "exiting"]
  /\ tick' = [tick EXCEPT ![w] = "none"]
  /\ UNCHANGED <<chanVars, cancelled, numWorker, wg, loopVars, fn, done>>

\* The deferred calls run last to first: wg.Done, then numWorker.Dec.
Leave(w) ==
  /\ worker[w] = "select"
  /\ worker' = [worker EXCEPT ![w] = "exiting"]
  /\ wg' = wg - 1
  /\ tick' = [tick EXCEPT ![w] = "none"]
  /\ UNCHANGED <<chanVars, cancelled, numWorker, loopVars, fn, done>>

ExitIdle(w) == tick[w] # "none" /\ Leave(w)

ExitCancel(w) == cancelled /\ Leave(w)

Dec(w) ==
  /\ worker[w] = "exiting"
  /\ worker' = [worker EXCEPT ![w] = "none"]
  /\ numWorker' = numWorker - 1
  /\ UNCHANGED <<chanVars, cancelled, wg, loopVars, fn, tick, done>>

-----------------------------------------------------------------------------
LoopNext == \/ Tick
            \/ SpawnCheck
            \/ \E w \in Worker : Spawn(w)
            \/ SpawnEnd
            \/ ObserveCancel
            \/ CloseChan

WorkerNext(w) == \/ Start(w)
                 \/ TickerFires(w)
                 \/ Receive(w)
                 \/ Return(w)
                 \/ ExitIdle(w)
                 \/ ExitCancel(w)
                 \/ Dec(w)

Next == \/ \E f \in Func : Send(f)
        \/ Cancel
        \/ LoopNext
        \/ \E w \in Worker : WorkerNext(w)

Spec == Init /\ [][Next]_vars

\* Go runs every goroutine that can run, tickers keep firing, and a closure
\* returns (the operations have timeouts).  Of several ready cases a select
\* takes one uniformly at random, so a case that is ready again and again is
\* taken: strong fairness.  Nobody is obliged to send or to cancel, and the
\* idle ticker may be long.
Fairness ==
  /\ WF_vars(Tick)
  /\ WF_vars(SpawnCheck)
  /\ WF_vars(\E w \in Worker : Spawn(w))
  /\ WF_vars(SpawnEnd)
  /\ SF_vars(ObserveCancel)
  /\ WF_vars(CloseChan)
  /\ SF_vars(\E w \in Worker : Receive(w))
  /\ \A w \in Worker : /\ WF_vars(Start(w))
                       /\ WF_vars(Return(w))
                       /\ SF_vars(ExitCancel(w))
                       /\ WF_vars(Dec(w))

FairSpec == Spec /\ Fairness

-----------------------------------------------------------------------------
(* Properties.                                                             *)

\* wg.Wait (scheduler.go:116, connector.go:345) and the spawn test
\* (scheduler.go:111) mean what they are meant to mean: the WaitGroup counts
\* exactly the goroutines that may still run a closure, numWorker those that
\* have started and have not finished.  wg.Add and wg.Done are in different
\* goroutines, and so are numWorker.Inc and the test of numWorker.
CountersExact == /\ wg = Cardinality(Live)
                 /\ numWorker = Cardinality(Counted)

\* When the channel is closed (scheduler.go:117) no goroutine is left that
\* could receive from it: a worker would get a nil closure and call it.
NoWorkerAfterClose == closed => Live = {} /\ loop = "stopped"

\* A closure is in one place only: it is never in the channel twice, run by
\* two workers, or queued or run again after it has returned.
RunsOnce ==
  /\ \A i, j \in 1..Len(fnChan) : fnChan[i] = fnChan[j] => i = j
  /\ \A v, w \in Running : fn[v] = fn[w] => v = w
  /\ Queued \cap Active = {}
  /\ (Queued \cup Active) \cap done = {}

\* The scheduler implements TaskPool.
Pool == INSTANCE TaskPool WITH
  waiting  <- fnChan,
  active   <- Active,
  finished <- done,
  phase    <- IF closed THEN "stopped"
              ELSE IF cancelled THEN "stopping" ELSE "open"

ImplementsTaskPool == Pool!Spec

\* A closure in the channel is run to its end unless the scheduler is
\* cancelled: idle workers that leave are replaced (scheduler.go:99-114).
BacklogServed ==
  \A f \in Func : f \in Queued ~> (f \in done \/ cancelled)

\* Once cancelled, the scheduler waits its workers out and closes the channel.
CancelCloses == cancelled ~> closed

-----------------------------------------------------------------------------
(* What comments and messages of the code say and the code does not do: TLC *)
(* finds each of these violated.                                            *)

\* config.go:50: SchedulerWorkerNumber "defines the max number of workers for
\* load test scheduler".
WorkersBounded == numWorker <= MaxWorker

\* config.go:55: "if the worker is idle for this time, it will be
\* terminated": a worker that leaves as idle has run nothing since its ticker
\* fired.
LeavesOnlyWhenIdle ==
  [][\A w \in Worker :
       ExitIdle(w) /\ ~cancelled => tick[w] = "fresh"]_vars
=============================================================================
