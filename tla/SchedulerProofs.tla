-------------------------- MODULE SchedulerProofs ---------------------------
(***************************************************************************)
(* Proofs about Scheduler, for any set of closures, any finite set of      *)
(* worker slots and any sizes.  TypeInv is inductive by itself; the        *)
(* counters, the closing of the channel, RunsOnce and the refinement of    *)
(* TaskPool are then proved one on top of the other.                       *)
(***************************************************************************)
EXTENDS Scheduler, FiniteSetTheorems, SequenceTheorems, TLAPS

\* How the program counters of start, the flags and fn go together.
Shape ==
  /\ loop = "add" => quota > 0
  /\ closed <=> loop = "stopped"
  /\ loop \in {"drain", "stopped"} => cancelled
  /\ \A w \in Worker : fn[w] \in Func <=> worker[w] = "running"

TypeInv == TypeOK /\ Shape

\* The scheduler's variables keep their types, the spawn loop never adds more
\* workers than it needs, and the channel is closed exactly when start ends.
THEOREM TypeCorrect == Spec => []TypeInv
<1>1. Init => TypeInv
  <2> SUFFICES ASSUME Init PROVE TypeInv
    OBVIOUS
  <2>1. fnChan \in Seq(Func) /\ done \subseteq Func
    BY DEF Init
  <2>2. closed \in BOOLEAN /\ cancelled \in BOOLEAN
    BY DEF Init
  <2>3. numWorker \in Int /\ wg \in Int /\ loop \in LoopState
    BY DEF Init, LoopState
  <2>4. quota \in 0..MaxNeed
    BY SizesPositive DEF Init
  <2>5. worker \in [Worker -> WorkerState]
    BY DEF Init, WorkerState
  <2>6. fn \in [Worker -> Func \cup {NoFunc}]
    BY DEF Init
  <2>7. tick \in [Worker -> TickState]
    BY DEF Init, TickState
  <2>8. Shape
    BY NoFuncFresh DEF Init, Shape
  <2> QED
    BY <2>1, <2>2, <2>3, <2>4, <2>5, <2>6, <2>7, <2>8 DEF TypeInv, TypeOK
<1>2. TypeInv /\ [Next]_vars => TypeInv'
  <2> SUFFICES ASSUME TypeInv, [Next]_vars PROVE TypeInv'
    OBVIOUS
  <2> USE SizesPositive, NoFuncFresh
      DEF TypeInv, TypeOK, Shape, LoopState, WorkerState, TickState,
          chanVars, loopVars, workerVars
  <2>1. ASSUME NEW f \in Func, Send(f) PROVE TypeInv'
    BY <2>1 DEF Send
  <2>2. CASE Cancel
    BY <2>2 DEF Cancel
  <2>3. CASE Tick
    BY <2>3 DEF Tick
  <2>4. CASE SpawnCheck
    BY <2>4 DEF SpawnCheck
  <2>5. ASSUME NEW w \in Worker, Spawn(w) PROVE TypeInv'
    BY <2>5 DEF Spawn
  <2>6. CASE SpawnEnd
    BY <2>6 DEF SpawnEnd
  <2>7. CASE ObserveCancel
    BY <2>7 DEF ObserveCancel
  <2>8. CASE CloseChan
    BY <2>8 DEF CloseChan
  <2>9. ASSUME NEW w \in Worker, Start(w) PROVE TypeInv'
    BY <2>9 DEF Start
  <2>10. ASSUME NEW w \in Worker, TickerFires(w) PROVE TypeInv'
    BY <2>10 DEF TickerFires
  <2>11. ASSUME NEW w \in Worker, Receive(w) PROVE TypeInv'
    BY <2>11 DEF Receive
  <2>12. ASSUME NEW w \in Worker, Return(w) PROVE TypeInv'
    BY <2>12 DEF Return
  <2>13. ASSUME NEW w \in Worker, Leave(w) PROVE TypeInv'
    BY <2>13 DEF Leave
  <2>14. ASSUME NEW w \in Worker, Dec(w) PROVE TypeInv'
    BY <2>14 DEF Dec
  <2>15. CASE UNCHANGED vars
    BY <2>15 DEF vars
  <2> QED
    BY <2>1, <2>2, <2>3, <2>4, <2>5, <2>6, <2>7, <2>8, <2>9, <2>10, <2>11,
       <2>12, <2>13, <2>14, <2>15
    DEF Next, LoopNext, WorkerNext, ExitIdle, ExitCancel
<1> QED
  BY <1>1, <1>2, PTL DEF Spec
-----------------------------------------------------------------------------
(* The counters.                                                           *)

\* The worker sets are finite, whatever the states of the workers are.
LEMMA WorkerSetsFinite ==
  /\ IsFiniteSet(Live)
  /\ IsFiniteSet(Counted)
BY WorkerFinite, FS_Subset DEF Live, Counted, In

\* The WaitGroup and numWorker count the goroutines they are meant to count,
\* although the increments, the decrements and the tests are in different
\* goroutines (scheduler.go:70-72, 111-113).
THEOREM CountersCorrect == Spec => []CountersExact
<1>1. Init => CountersExact
  <2> SUFFICES ASSUME Init PROVE CountersExact
    OBVIOUS
  <2>1. Live = {} /\ Counted = {}
    BY DEF Init, Live, Counted, In
  <2> QED
    BY <2>1, FS_EmptySet DEF Init, CountersExact
<1>2. TypeInv /\ CountersExact /\ [Next]_vars => CountersExact'
  <2> SUFFICES ASSUME TypeInv, CountersExact, [Next]_vars PROVE CountersExact'
    OBVIOUS
  <2>1. worker \in [Worker -> WorkerState] /\ wg \in Int /\ numWorker \in Int
    BY DEF TypeInv, TypeOK
  <2>2. ASSUME UNCHANGED <<worker, wg, numWorker>> PROVE CountersExact'
    BY <2>2 DEF CountersExact, Live, Counted, In
  <2>3. ASSUME NEW w \in Worker, Spawn(w) PROVE CountersExact'
    <3>1. Live' = Live \cup {w} /\ w \notin Live /\ Counted' = Counted
      BY <2>1, <2>3 DEF Spawn, Live, Counted, In, WorkerState
    <3>2. Cardinality(Live') = Cardinality(Live) + 1
      BY <3>1, WorkerSetsFinite, FS_AddElement
    <3> QED
      BY <2>3, <3>1, <3>2 DEF Spawn, CountersExact
  <2>4. ASSUME NEW w \in Worker, Start(w) PROVE CountersExact'
    <3>1. Live' = Live /\ w \notin Counted /\ Counted' = Counted \cup {w}
      BY <2>1, <2>4 DEF Start, Live, Counted, In, WorkerState
    <3>2. Cardinality(Counted') = Cardinality(Counted) + 1
      BY <3>1, WorkerSetsFinite, FS_AddElement
    <3> QED
      BY <2>4, <3>1, <3>2 DEF Start, CountersExact
  <2>5. ASSUME NEW w \in Worker, Receive(w) \/ Return(w) PROVE CountersExact'
    <3>1. Live' = Live /\ Counted' = Counted
      BY <2>1, <2>5 DEF Receive, Return, Live, Counted, In, WorkerState
    <3> QED
      BY <2>5, <3>1 DEF Receive, Return, CountersExact
  <2>6. ASSUME NEW w \in Worker, Leave(w) PROVE CountersExact'
    <3>1. Live' = Live \ {w} /\ w \in Live /\ Counted' = Counted
      BY <2>1, <2>6 DEF Leave, Live, Counted, In, WorkerState
    <3>2. Cardinality(Live') = Cardinality(Live) - 1
      BY <3>1, WorkerSetsFinite, FS_RemoveElement
    <3> QED
      BY <2>6, <3>1, <3>2 DEF Leave, CountersExact
  <2>7. ASSUME NEW w \in Worker, Dec(w) PROVE CountersExact'
    <3>1. Live' = Live /\ w \in Counted /\ Counted' = Counted \ {w}
      BY <2>1, <2>7 DEF Dec, Live, Counted, In, WorkerState
    <3>2. Cardinality(Counted') = Cardinality(Counted) - 1
      BY <3>1, WorkerSetsFinite, FS_RemoveElement
    <3> QED
      BY <2>7, <3>1, <3>2 DEF Dec, CountersExact
  <2>8. ASSUME NEW f \in Func, Send(f) PROVE CountersExact'
    BY <2>2, <2>8 DEF Send, workerVars
  <2>9. CASE Cancel \/ Tick \/ SpawnCheck \/ SpawnEnd \/ ObserveCancel
                    \/ CloseChan
    BY <2>2, <2>9
    DEF Cancel, Tick, SpawnCheck, SpawnEnd, ObserveCancel, CloseChan, workerVars
  <2>10. ASSUME NEW w \in Worker, TickerFires(w) PROVE CountersExact'
    BY <2>2, <2>10 DEF TickerFires
  <2>11. CASE UNCHANGED vars
    BY <2>2, <2>11 DEF vars
  <2> QED
    BY <2>3, <2>4, <2>5, <2>6, <2>7, <2>8, <2>9, <2>10, <2>11
    DEF Next, LoopNext, WorkerNext, ExitIdle, ExitCancel
<1> QED
  BY <1>1, <1>2, TypeCorrect, PTL DEF Spec

-----------------------------------------------------------------------------
(* The close of the channel.                                               *)

\* wg.Wait returns only when no goroutine is left that could run a closure.
LEMMA WaitMeansNone == CountersExact /\ wg = 0 => Live = {}
BY WorkerSetsFinite, FS_EmptySet DEF CountersExact

\* No worker can receive from the closed channel: start closes it after
\* wg.Wait and adds no worker afterwards (scheduler.go:115-118).
THEOREM CloseIsSafe == Spec => []NoWorkerAfterClose
<1>1. Init => NoWorkerAfterClose
  BY DEF Init, NoWorkerAfterClose
<1>2. TypeInv /\ CountersExact /\ NoWorkerAfterClose /\ [Next]_vars
        => NoWorkerAfterClose'
  <2> SUFFICES ASSUME TypeInv, CountersExact, NoWorkerAfterClose, [Next]_vars,
                      closed'
               PROVE  Live' = {} /\ loop' = "stopped"
    BY DEF NoWorkerAfterClose
  <2>1. worker \in [Worker -> WorkerState] /\ closed \in BOOLEAN
    BY DEF TypeInv, TypeOK
  <2>2. CASE CloseChan
    BY <2>2, WaitMeansNone DEF CloseChan, workerVars, Live, In
  <2>3. CASE ~CloseChan
    <3>1. closed
      BY <2>1, <2>3
      DEF Next, LoopNext, WorkerNext, Send, Cancel, Tick, SpawnCheck, Spawn,
          SpawnEnd, ObserveCancel, Start, TickerFires, Receive, Return, Leave,
          ExitIdle, ExitCancel, Dec, vars, chanVars
    <3>2. Live = {} /\ loop = "stopped"
      BY <3>1 DEF NoWorkerAfterClose
    <3>3. \A w \in Worker : worker[w] \notin {"spawned", "select", "running"}
      BY <3>2 DEF Live, In
    <3>4. \/ UNCHANGED <<worker, loop>>
          \/ \E w \in Worker : Dec(w)
      BY <2>3, <3>1, <3>2, <3>3
      DEF Next, LoopNext, WorkerNext, Send, Cancel, Tick, SpawnCheck, Spawn,
          SpawnEnd, ObserveCancel, Start, TickerFires, Receive, Return, Leave,
          ExitIdle, ExitCancel, vars, workerVars, loopVars
    <3> QED
      BY <2>1, <3>2, <3>3, <3>4 DEF Live, In, Dec, loopVars
  <2> QED
    BY <2>2, <2>3
<1> QED
  BY <1>1, <1>2, TypeCorrect, CountersCorrect, PTL DEF Spec
-----------------------------------------------------------------------------
(* Each closure is run at most once, and TaskPool is implemented.          *)

\* What a channel does to the set of closures in it.
LEMMA SendQueues ==
  ASSUME TypeOK, NEW f \in Func, Send(f)
  PROVE  /\ Len(fnChan') = Len(fnChan) + 1
         /\ \A i \in 1..Len(fnChan) : fnChan'[i] = fnChan[i]
         /\ fnChan'[Len(fnChan) + 1] = f
         /\ Queued' = Queued \cup {f}
<1>1. fnChan \in Seq(Func) /\ Len(fnChan) \in Nat
  BY DEF TypeOK
<1>2. /\ Len(fnChan') = Len(fnChan) + 1
      /\ \A i \in 1..Len(fnChan) : fnChan'[i] = fnChan[i]
      /\ fnChan'[Len(fnChan) + 1] = f
  BY <1>1, AppendProperties DEF Send
<1>3. 1..Len(fnChan') = (1..Len(fnChan)) \cup {Len(fnChan) + 1}
  BY <1>1, <1>2
<1> QED
  BY <1>2, <1>3 DEF Queued

\* A worker takes the oldest closure, and the others stay queued in order.
LEMMA ReceiveTakesHead ==
  ASSUME TypeOK, NEW w \in Worker, Receive(w)
  PROVE  /\ Len(fnChan) > 0
         /\ Len(fnChan') = Len(fnChan) - 1
         /\ \A i \in 1..Len(fnChan') : fnChan'[i] = fnChan[i + 1]
         /\ fn'[w] = fnChan[1]
         /\ fnChan[1] \in Func
         /\ Queued = Queued' \cup {fnChan[1]}
<1>1. fnChan \in Seq(Func) /\ fnChan # <<>>
  BY DEF TypeOK, Receive
<1>2. /\ Len(fnChan) \in Nat \ {0}
      /\ Len(fnChan') = Len(fnChan) - 1
      /\ \A i \in 1..Len(fnChan') : fnChan'[i] = fnChan[i + 1]
      /\ fn'[w] = fnChan[1]
  <2>1. Len(fnChan) \in Nat \ {0}
    BY <1>1, EmptySeq
  <2>2. fnChan' = Tail(fnChan) /\ fn'[w] = fnChan[1]
    BY <1>1 DEF Receive, TypeOK
  <2>3. /\ Len(Tail(fnChan)) = Len(fnChan) - 1
        /\ \A i \in 1..Len(Tail(fnChan)) : Tail(fnChan)[i] = fnChan[i + 1]
    BY <1>1, HeadTailProperties
  <2> QED
    BY <2>1, <2>2, <2>3
<1>3. fnChan[1] \in Func
  BY <1>1, <1>2, ElementOfSeq
<1>4. \A i \in 1..Len(fnChan) :
        i = 1 \/ (i - 1 \in 1..Len(fnChan') /\ fnChan'[i - 1] = fnChan[i])
  BY <1>2
<1>5. Queued \subseteq Queued' \cup {fnChan[1]}
  BY <1>4 DEF Queued
<1>6. Queued' \cup {fnChan[1]} \subseteq Queued
  BY <1>2 DEF Queued
<1> QED
  BY <1>2, <1>3, <1>5, <1>6

\* The closures being run after a worker has received or returned one.
LEMMA ReceiveActive ==
  ASSUME TypeInv, NEW w \in Worker, Receive(w)
  PROVE  /\ w \notin Running /\ Running' = Running \cup {w}
         /\ \A v \in Running : fn'[v] = fn[v]
         /\ Active' = Active \cup {fnChan[1]}
<1>1. w \notin Running /\ Running' = Running \cup {w}
  BY DEF TypeInv, TypeOK, Receive, Running, In
<1>2. \A v \in Running : fn'[v] = fn[v]
  BY <1>1 DEF TypeInv, TypeOK, Receive, Running, In
<1>3. fn'[w] = fnChan[1]
  BY ReceiveTakesHead DEF TypeInv
<1> QED
  BY <1>1, <1>2, <1>3 DEF Active

\* A worker that returns from its closure gives up that one only.
LEMMA ReturnActive ==
  ASSUME TypeInv, RunsOnce, NEW w \in Worker, Return(w)
  PROVE  /\ w \in Running /\ Running' = Running \ {w}
         /\ \A v \in Running' : fn'[v] = fn[v]
         /\ fn[w] \in Func /\ fn[w] \in Active
         /\ Active' = Active \ {fn[w]}
<1>1. w \in Running /\ Running' = Running \ {w}
  BY DEF TypeInv, TypeOK, Return, Running, In
<1>2. \A v \in Running' : fn'[v] = fn[v]
  BY <1>1 DEF TypeInv, TypeOK, Return, Running, In
<1>3. fn[w] \in Func /\ fn[w] \in Active
  BY <1>1 DEF TypeInv, Shape, Active, Running, In
<1>4. \A v \in Running' : fn[v] # fn[w]
  BY <1>1 DEF RunsOnce
<1> QED
  BY <1>1, <1>2, <1>3, <1>4 DEF Active

\* Every other step of the scheduler leaves the closures where they are.
LEMMA OthersKeepFuncs ==
  ASSUME TypeInv, [Next]_vars, \A f \in Func : ~Send(f),
         \A w \in Worker : ~Receive(w) /\ ~Return(w)
  PROVE  /\ UNCHANGED <<fnChan, fn, done>>
         /\ Running' = Running
<1>1. UNCHANGED <<fnChan, fn, done>>
  BY DEF Next, LoopNext, WorkerNext, Cancel, Tick, SpawnCheck, Spawn,
         SpawnEnd, ObserveCancel, CloseChan, Start, TickerFires, Leave,
         ExitIdle, ExitCancel, Dec, vars, chanVars, workerVars
<1>2. \/ UNCHANGED worker
      \/ \E w \in Worker : Spawn(w) \/ Start(w) \/ Leave(w) \/ Dec(w)
  BY DEF Next, LoopNext, WorkerNext, Cancel, Tick, SpawnCheck, SpawnEnd,
         ObserveCancel, CloseChan, TickerFires, ExitIdle, ExitCancel, vars,
         workerVars
<1>3. ASSUME NEW w \in Worker, Spawn(w) \/ Start(w) \/ Leave(w) \/ Dec(w)
      PROVE  worker[w] # "running" /\ \E s \in WorkerState \ {"running"} :
               worker' = [worker EXCEPT ![w] = s]
  BY <1>3 DEF Spawn, Start, Leave, Dec, WorkerState
<1>4. worker \in [Worker -> WorkerState]
  BY DEF TypeInv, TypeOK
<1>5. Running' = Running
  BY <1>2, <1>3, <1>4 DEF Running, In
<1> QED
  BY <1>1, <1>5

\* No closure is queued, run or finished twice.
THEOREM RunsAtMostOnce == Spec => []RunsOnce
<1>1. Init => RunsOnce
  BY EmptySeq DEF Init, RunsOnce, Queued, Active, Running, In
<1>2. TypeInv /\ RunsOnce /\ [Next]_vars => RunsOnce'
  <2> SUFFICES ASSUME TypeInv, RunsOnce, [Next]_vars PROVE RunsOnce'
    OBVIOUS
  <2>1. ASSUME NEW f \in Func, Send(f) PROVE RunsOnce'
    <3>1. Running' = Running /\ fn' = fn /\ done' = done /\ Active' = Active
      BY <2>1 DEF Send, workerVars, Running, In, Active
    <3>2. f \notin Queued /\ f \notin Active /\ f \notin done
      BY <2>1 DEF Send, Sent
    <3>3. \A i, j \in 1..Len(fnChan') : fnChan'[i] = fnChan'[j] => i = j
      <4>1. /\ Len(fnChan') = Len(fnChan) + 1 /\ Len(fnChan) \in Nat
            /\ \A i \in 1..Len(fnChan) : fnChan'[i] = fnChan[i]
            /\ fnChan'[Len(fnChan) + 1] = f
        BY <2>1, SendQueues DEF TypeInv, TypeOK
      <4>2. \A i \in 1..Len(fnChan) : fnChan[i] # f
        BY <3>2 DEF Queued
      <4>3. \A i \in 1..Len(fnChan') :
              i \in 1..Len(fnChan) \/ i = Len(fnChan) + 1
        BY <4>1
      <4> QED
        BY <4>1, <4>2, <4>3 DEF RunsOnce
    <3>4. Queued' = Queued \cup {f}
      BY <2>1, SendQueues DEF TypeInv
    <3> QED
      BY <3>1, <3>2, <3>3, <3>4 DEF RunsOnce
  <2>2. ASSUME NEW w \in Worker, Receive(w) PROVE RunsOnce'
    <3>1. /\ Len(fnChan) > 0 /\ Len(fnChan) \in Nat
          /\ Len(fnChan') = Len(fnChan) - 1
          /\ \A i \in 1..Len(fnChan') : fnChan'[i] = fnChan[i + 1]
          /\ fn'[w] = fnChan[1]
          /\ Queued = Queued' \cup {fnChan[1]}
      BY <2>2, ReceiveTakesHead DEF TypeInv, TypeOK
    <3>2. /\ Running' = Running \cup {w} /\ Active' = Active \cup {fnChan[1]}
          /\ \A v \in Running : fn'[v] = fn[v]
      BY <2>2, ReceiveActive
    <3>3. done' = done
      BY <2>2 DEF Receive
    <3>4. \A i, j \in 1..Len(fnChan') : fnChan'[i] = fnChan'[j] => i = j
      <4>1. \A i \in 1..Len(fnChan') : i + 1 \in 1..Len(fnChan)
        BY <3>1
      <4> QED
        BY <3>1, <4>1 DEF RunsOnce
    <3>5. fnChan[1] \notin Queued'
      <4>1. \A i \in 1..Len(fnChan') : i + 1 \in 1..Len(fnChan) /\ i + 1 # 1
        BY <3>1
      <4>2. \A i \in 1..Len(fnChan') : fnChan'[i] # fnChan[1]
        BY <3>1, <4>1 DEF RunsOnce
      <4> QED
        BY <4>2 DEF Queued
    <3>6. fnChan[1] \notin Active
      BY <3>1 DEF RunsOnce
    <3>7. \A u, v \in Running' : fn'[u] = fn'[v] => u = v
      BY <3>1, <3>2, <3>6 DEF RunsOnce, Active
    <3> QED
      BY <3>1, <3>2, <3>3, <3>4, <3>5, <3>7 DEF RunsOnce
  <2>3. ASSUME NEW w \in Worker, Return(w) PROVE RunsOnce'
    <3>1. /\ Running' = Running \ {w} /\ Active' = Active \ {fn[w]}
          /\ fn[w] \in Active /\ \A v \in Running' : fn'[v] = fn[v]
      BY <2>3, ReturnActive
    <3>2. /\ fnChan' = fnChan /\ Queued' = Queued
          /\ done' = done \cup {fn[w]}
      BY <2>3 DEF Return, chanVars, Queued
    <3> QED
      BY <3>1, <3>2 DEF RunsOnce
  <2>4. CASE /\ \A f \in Func : ~Send(f)
             /\ \A w \in Worker : ~Receive(w) /\ ~Return(w)
    <3>1. UNCHANGED <<fnChan, fn, done>> /\ Running' = Running
      BY <2>4, OthersKeepFuncs
    <3> QED
      BY <3>1 DEF RunsOnce, Queued, Active
  <2> QED
    BY <2>1, <2>2, <2>3, <2>4
<1> QED
  BY <1>1, <1>2, TypeCorrect, PTL DEF Spec

\* The scheduler implements TaskPool: accepted closures begin in order, one
\* worker each, and the pool stops only when none is being run.
THEOREM SchedulerImplementsTaskPool == Spec => ImplementsTaskPool
<1> USE DEF Pool!vars, Pool!Known
<1>1. Init => Pool!Init
  BY DEF Init, Pool!Init, Active, Running, In
<1>2. TypeInv /\ CountersExact /\ NoWorkerAfterClose /\ RunsOnce /\ [Next]_vars
        => [Pool!Next]_Pool!vars
  <2> SUFFICES ASSUME TypeInv, CountersExact, NoWorkerAfterClose, RunsOnce,
                      [Next]_vars
               PROVE  [Pool!Next]_Pool!vars
    OBVIOUS
  <2>1. closed \in BOOLEAN /\ cancelled \in BOOLEAN /\ (closed => cancelled)
    BY DEF TypeInv, TypeOK, Shape
  <2>2. ASSUME NEW f \in Func, Send(f) PROVE Pool!Accept(f)
    <3>1. Active' = Active
      BY <2>2 DEF Send, workerVars, Active, Running, In
    <3>2. Queued = {fnChan[i] : i \in DOMAIN fnChan}
      BY DEF TypeInv, TypeOK, Queued
    <3> QED
      BY <2>1, <2>2, <3>1, <3>2 DEF Send, Sent, Pool!Accept
  <2>3. ASSUME NEW w \in Worker, Receive(w) PROVE Pool!Begin
    <3>1. ~closed
      BY <2>3 DEF NoWorkerAfterClose, Receive, Live, In
    <3>2. Active' = Active \cup {Head(fnChan)}
      BY <2>3, ReceiveActive, ReceiveTakesHead DEF TypeInv
    <3> QED
      BY <2>1, <2>3, <3>1, <3>2 DEF Receive, Pool!Begin
  <2>4. ASSUME NEW w \in Worker, Return(w) PROVE Pool!End(fn[w])
    BY <2>4, ReturnActive DEF Return, chanVars, Pool!End
  <2>5. CASE Cancel
    <3>1. ~closed
      BY <2>1, <2>5 DEF Cancel
    <3>2. Active' = Active
      BY <2>5 DEF Cancel, workerVars, Active, Running, In
    <3>3. Pool!RequestStop
      BY <2>5, <3>1, <3>2 DEF Cancel, chanVars, Pool!RequestStop
    <3> QED
      BY <3>3 DEF Pool!Next
  <2>6. CASE CloseChan
    <3>1. cancelled /\ ~closed
      BY <2>6 DEF CloseChan, TypeInv, Shape
    <3>2. Active = {} /\ Active' = Active
      BY <2>6, WaitMeansNone
      DEF CloseChan, workerVars, Active, Running, Live, In
    <3>3. Pool!Stop
      BY <2>1, <2>6, <3>1, <3>2 DEF CloseChan, Pool!Stop
    <3> QED
      BY <3>3 DEF Pool!Next
  <2>7. CASE /\ \A f \in Func : ~Send(f)
             /\ \A w \in Worker : ~Receive(w) /\ ~Return(w)
             /\ ~Cancel /\ ~CloseChan
    <3>1. UNCHANGED <<fnChan, fn, done>> /\ Running' = Running
      BY <2>7, OthersKeepFuncs
    <3>2. Active' = Active
      BY <3>1 DEF Active
    <3>3. UNCHANGED <<closed, cancelled>>
      BY <2>7 DEF Next, LoopNext, WorkerNext, Tick, SpawnCheck, Spawn,
        SpawnEnd, ObserveCancel, Start, TickerFires, Leave, ExitIdle,
        ExitCancel, Dec, vars, chanVars
    <3> QED
      BY <3>1, <3>2, <3>3
  <2>8. \A w \in Worker : Return(w) => fn[w] \in Func
    BY ReturnActive
  <2> QED
    BY <2>2, <2>3, <2>4, <2>5, <2>6, <2>7, <2>8 DEF Pool!Next
<1> QED
  BY <1>1, <1>2, TypeCorrect, CountersCorrect, CloseIsSafe, RunsAtMostOnce, PTL
  DEF Spec, ImplementsTaskPool, Pool!Spec
=============================================================================
