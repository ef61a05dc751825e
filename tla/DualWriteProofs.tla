-------------------------- MODULE DualWriteProofs ---------------------------
(***************************************************************************)
(* Proofs about DualWrite, for any calls, any number of load-test clients  *)
(* and any sizes.  DualWrite implements Scheduler, so what SchedulerProofs *)
(* shows of the workers holds here; on top of it stand an invariant that   *)
(* relates the closures being run to where ShutDown is, and one that       *)
(* relates the closures to the loop variable they have captured.           *)
(***************************************************************************)
EXTENDS DualWrite, TLAPS

\* S and SP are the same instance of Scheduler; SP also has its theorems.
SP == INSTANCE SchedulerProofs

\* The instance of the finite sets that SP brings is the one of this module.
LEMMA WorkerFiniteSP == SP!IsFiniteSet(Worker)
BY SchedulerWorkers DEF SP!IsFiniteSet, IsFiniteSet

\* The two instances have the same steps.
LEMMA SameNext == S!Next <=> SP!Next
BY DEF S!Next, S!LoopNext, S!WorkerNext, S!Send, S!Cancel, S!Tick,
  S!SpawnCheck, S!Spawn, S!SpawnEnd, S!ObserveCancel, S!CloseChan, S!Start,
  S!TickerFires, S!Receive, S!Return, S!Leave, S!ExitIdle, S!ExitCancel,
  S!Dec, S!Sent, S!Queued, S!Active, S!Running, S!In, S!chanVars, S!loopVars,
  S!workerVars,
  SP!Next, SP!LoopNext, SP!WorkerNext, SP!Send, SP!Cancel, SP!Tick,
  SP!SpawnCheck, SP!Spawn, SP!SpawnEnd, SP!ObserveCancel, SP!CloseChan,
  SP!Start, SP!TickerFires, SP!Receive, SP!Return, SP!Leave, SP!ExitIdle,
  SP!ExitCancel, SP!Dec, SP!Sent, SP!Queued, SP!Active, SP!Running, SP!In,
  SP!chanVars, SP!loopVars, SP!workerVars

-----------------------------------------------------------------------------
(* The calls, and the refinement of Scheduler.                             *)

\* Between iterations the captured variable is the client of the last one.
CallInv ==
  /\ pc \in [Req -> {"idle", "range", "send", "main", "returned", "panicked"}]
  /\ idx \in [Req -> 0..NClient]
  /\ loopVar = idx
  /\ \A r \in Req : pc[r] = "send" => idx[r] \in Client

\* Only a call's own steps touch what CallInv is about.
LEMMA OthersKeepCalls ==
  ASSUME [Next]_vars, ~ \E r \in Req : CallNext(r)
  PROVE  UNCHANGED callVars
BY DEF Next, RunNext, Receive, CheckDone, CheckDefault, Apply, OpReturn, Leave,
       SchedOther, SdNext, SdBegin, SdMainReturn, SdCancel, SdWait, SdWoken,
       SdClose, ClientClosed, vars

\* A call is at the client its loop has reached (connector.go:184).
LEMMA CallsCorrect == Spec => []CallInv
<1>1. Init => CallInv
  BY NClientType DEF Init, CallInv
<1>2. CallInv /\ [Next]_vars => CallInv'
  <2> SUFFICES ASSUME CallInv, [Next]_vars PROVE CallInv'
    OBVIOUS
  <2>1. ASSUME NEW r \in Req, CallNext(r) PROVE CallInv'
    <3> USE DEF CallInv
    <3>1. CASE RangeNext(r)
      <4>1. idx[r] + 1 \in 1..NClient
        BY <3>1, NClientType DEF RangeNext
      <4> QED
        BY <3>1, <4>1, NClientType DEF RangeNext, Client
    <3>2. CASE Call(r) \/ RangeEnd(r) \/ SendOk(r) \/ SendDrop(r)
                 \/ SendPanic(r) \/ MainOp(r)
      BY <3>2 DEF Call, RangeEnd, SendOk, SendDrop, SendPanic, MainOp
    <3> QED
      BY <2>1, <3>1, <3>2 DEF CallNext
  <2>2. CASE ~ \E r \in Req : CallNext(r)
    BY <2>2, OthersKeepCalls DEF CallInv, callVars
  <2> QED
    BY <2>1, <2>2
<1> QED
  BY <1>1, <1>2, PTL DEF Spec

\* The calls, the workers' closures and ShutDown use the scheduler only through
\* its own steps, so that what SchedulerProofs shows holds of the connector.
THEOREM ImplementsScheduler == Spec => SP!Spec
<1>1. Init => SP!Init
  BY DEF Init, S!Init, SP!Init
<1>2. CallInv /\ [Next]_vars => [SP!Next]_SP!vars
  <2> SUFFICES ASSUME CallInv, [Next]_vars PROVE S!Next \/ UNCHANGED schedVars
    BY SameNext DEF SP!vars, schedVars
  <2>1. ASSUME NEW r \in Req, CallNext(r)
        PROVE  S!Next \/ UNCHANGED schedVars
    <3>1. CASE SendOk(r)
      <4>1. <<r, idx[r]>> \in Func
        BY <3>1 DEF SendOk, CallInv, Func
      <4> QED
        BY <3>1, <4>1 DEF SendOk, S!Next
    <3>2. CASE ~SendOk(r)
      BY <2>1, <3>2
      DEF CallNext, Call, RangeNext, RangeEnd, SendDrop, SendPanic, MainOp
    <3> QED
      BY <3>1, <3>2
  <2>2. ASSUME NEW w \in Worker, RunNext(w)
        PROVE  S!Next \/ UNCHANGED schedVars
    BY <2>2 DEF RunNext, Receive, CheckDone, CheckDefault, Apply, OpReturn,
                Leave, S!Next, S!WorkerNext
  <2>3. CASE SchedOther
    BY <2>3 DEF SchedOther, S!Next, S!WorkerNext
  <2>4. CASE SdNext
    BY <2>4 DEF SdNext, SdBegin, SdMainReturn, SdCancel, SdWait, SdWoken,
                SdClose, ClientClosed, S!Next
  <2> QED
    BY <2>1, <2>2, <2>3, <2>4 DEF Next, vars
<1> QED
  BY <1>1, <1>2, CallsCorrect, PTL DEF Spec, SP!Spec

\* What the proofs below use of the scheduler.
LEMMA SchedulerFacts ==
  Spec => [](SP!TypeInv /\ SP!CountersExact /\ SP!RunsOnce)
<1>1. Spec => []SP!TypeInv
  BY ImplementsScheduler, SP!TypeCorrect, SchedulerSizes, WorkerFiniteSP,
     SchedulerNoFunc, PTL
<1>2. Spec => []SP!CountersExact
  BY ImplementsScheduler, SP!CountersCorrect, SchedulerSizes, WorkerFiniteSP,
     SchedulerNoFunc, PTL
<1>3. Spec => []SP!RunsOnce
  BY ImplementsScheduler, SP!RunsAtMostOnce, SchedulerSizes, WorkerFiniteSP,
     SchedulerNoFunc, PTL
<1> QED
  BY <1>1, <1>2, <1>3, PTL
-----------------------------------------------------------------------------
(* ShutDown and the closures being run.                                    *)

\* Where ShutDown is once it has cancelled, and once wg.Wait has seen zero.
AfterCancel == {"wait", "parked", "woken", "close", "done", "panicked"}
AfterWait   == {"woken", "close", "done", "panicked"}

RunInv ==
  /\ stage \in [Worker -> {"none", "check", "apply", "op"}]
  /\ \A w \in Worker : stage[w] # "none" => worker[w] = "running"

SdInv ==
  /\ sd \in AfterCancel => cancelled
  /\ sd \in AfterWait => \A w \in Worker : stage[w] \notin {"apply", "op"}
  /\ ltClient \in [Client -> {"open", "closing", "closed"}]
  /\ \A i \in Client : ltClient[i] # "open" => sd = "done"

\* wg.Wait sees zero only when no worker is in a closure: the workers in one
\* are among those the WaitGroup counts.
WaitInv == wg = 0 => \A w \in Worker : worker[w] # "running"

\* When Wait can return, nothing is being run (scheduler.go:72, connector.go:345).
LEMMA WaitCorrect == Spec => []WaitInv
<1>1. SP!CountersExact => WaitInv
  <2>1. SP!CountersExact /\ wg = 0 => SP!Live = {}
    BY SP!WaitMeansNone, SchedulerSizes, WorkerFiniteSP, SchedulerNoFunc
  <2> QED
    BY <2>1 DEF WaitInv, SP!Live, SP!In
<1> QED
  BY <1>1, SchedulerFacts, PTL

\* A closure is at its checks or its command only while its worker runs it
\* (connector.go:186-212).
LEMMA RunsCorrect == Spec => []RunInv
<1>1. Init => RunInv
  BY DEF Init, RunInv
<1>2. RunInv /\ SP!TypeInv /\ [Next]_vars => RunInv'
  <2> SUFFICES ASSUME RunInv, SP!TypeInv, [Next]_vars PROVE RunInv'
    OBVIOUS
  <2>1. worker \in [Worker -> SP!WorkerState]
    BY DEF SP!TypeInv, SP!TypeOK
  <2> USE DEF RunInv, SP!WorkerState
  <2>2. ASSUME NEW r \in Req, CallNext(r) PROVE RunInv'
    BY <2>2 DEF CallNext, Call, RangeNext, RangeEnd, SendOk, SendDrop,
      SendPanic, MainOp, S!Send, S!workerVars, runVars, schedVars
  <2>3. ASSUME NEW w \in Worker, RunNext(w) PROVE RunInv'
    <3>1. CASE Receive(w)
      BY <2>1, <3>1 DEF Receive, S!Receive
    <3>2. CASE CheckDone(w) \/ OpReturn(w)
      BY <2>1, <3>2 DEF CheckDone, OpReturn, S!Return
    <3>3. CASE CheckDefault(w) \/ Apply(w)
      BY <2>1, <3>3 DEF CheckDefault, Apply, schedVars
    <3>4. CASE Leave(w)
      BY <2>1, <3>4 DEF Leave, S!ExitIdle, S!ExitCancel, S!Leave, runVars
    <3> QED
      BY <2>3, <3>1, <3>2, <3>3, <3>4 DEF RunNext
  <2>4. CASE SchedOther
    <3>1. UNCHANGED stage
      BY <2>4 DEF SchedOther, runVars
    <3>2. \/ UNCHANGED worker
          \/ \E w \in Worker : S!Spawn(w) \/ S!Start(w) \/ S!Dec(w)
      BY <2>4 DEF SchedOther, S!LoopNext, S!Tick, S!SpawnCheck, S!SpawnEnd,
        S!ObserveCancel, S!CloseChan, S!TickerFires, S!workerVars
    <3>3. ASSUME NEW w \in Worker, S!Spawn(w) \/ S!Start(w) \/ S!Dec(w)
          PROVE  RunInv'
      BY <2>1, <3>1, <3>3 DEF S!Spawn, S!Start, S!Dec
    <3> QED
      BY <3>1, <3>2, <3>3
  <2>5. CASE SdNext \/ UNCHANGED vars
    BY <2>5 DEF SdNext, SdBegin, SdMainReturn, SdCancel, SdWait, SdWoken,
      SdClose, ClientClosed, S!Cancel, S!workerVars, runVars, schedVars, vars
  <2> QED
    BY <2>2, <2>3, <2>4, <2>5 DEF Next
<1> QED
  BY <1>1, <1>2, SchedulerFacts, PTL DEF Spec

\* Only Apply and CheckDefault bring a closure to its command.
LEMMA SdCorrect == Spec => []SdInv
<1>1. Init => SdInv
  BY DEF Init, SdInv, AfterCancel, AfterWait
<1>2. SdInv /\ RunInv /\ RunInv' /\ WaitInv /\ WaitInv' /\ [Next]_vars
        => SdInv'
  <2> SUFFICES ASSUME SdInv, RunInv, RunInv', WaitInv, WaitInv', [Next]_vars
               PROVE  SdInv'
    OBVIOUS
  <2> USE DEF AfterCancel, AfterWait
  <2>1. ASSUME UNCHANGED <<sd, ltClient, stage>>, cancelled => cancelled'
        PROVE  SdInv'
    BY <2>1 DEF SdInv
  <2>2. ASSUME NEW r \in Req, CallNext(r) PROVE SdInv'
    BY <2>1, <2>2 DEF CallNext, Call, RangeNext, RangeEnd, SendOk, SendDrop,
      SendPanic, MainOp, S!Send, sdVars, runVars, schedVars
  <2>3. ASSUME NEW w \in Worker, RunNext(w) PROVE SdInv'
    <3>1. CASE Receive(w) \/ CheckDone(w) \/ OpReturn(w)
      <4>1. /\ UNCHANGED <<sd, ltClient, cancelled>>
            /\ stage' \in {[stage EXCEPT ![w] = "check"],
                           [stage EXCEPT ![w] = "none"]}
        BY <3>1 DEF Receive, CheckDone, OpReturn, S!Receive, S!Return, sdVars
      <4> QED
        BY <4>1 DEF SdInv, RunInv
    <3>2. CASE CheckDefault(w)
      BY <3>2 DEF CheckDefault, SdInv, sdVars, schedVars
    <3>3. CASE Apply(w)
      <4>1. sd \notin AfterWait
        BY <3>3 DEF Apply, SdInv
      <4> QED
        BY <3>3, <4>1 DEF Apply, SdInv, sdVars, schedVars
    <3>4. CASE Leave(w)
      <4>1. /\ UNCHANGED <<ltClient, stage, cancelled>>
            /\ sd' = sd \/ (sd = "parked" /\ sd' = "woken" /\ wg' = 0)
        BY <3>4 DEF Leave, S!ExitIdle, S!ExitCancel, S!Leave, runVars
      <4>2. CASE sd' = sd
        BY <2>1, <4>1, <4>2
      <4>3. CASE sd = "parked" /\ sd' = "woken" /\ wg' = 0
        <5>1. \A v \in Worker : stage'[v] = "none"
          BY <4>3 DEF RunInv, WaitInv
        <5> QED
          BY <4>1, <4>3, <5>1 DEF SdInv
      <4> QED
        BY <4>1, <4>2, <4>3
    <3> QED
      BY <2>3, <3>1, <3>2, <3>3, <3>4 DEF RunNext
  <2>4. CASE SchedOther
    <3>1. UNCHANGED <<sd, ltClient, stage, cancelled>>
      BY <2>4 DEF SchedOther, S!LoopNext, S!Tick, S!SpawnCheck, S!Spawn,
        S!SpawnEnd, S!ObserveCancel, S!CloseChan, S!Start, S!TickerFires,
        S!Dec, sdVars, runVars
    <3> QED
      BY <2>1, <3>1
  <2>5. CASE SdNext
    <3>1. CASE SdWait
      <4>1. CASE wg = 0
        BY <3>1, <4>1
        DEF SdWait, SdStep, SdInv, RunInv, WaitInv, runVars, schedVars
      <4>2. CASE wg # 0
        BY <3>1, <4>2 DEF SdWait, SdStep, SdInv, runVars, schedVars
      <4> QED
        BY <4>1, <4>2
    <3>2. CASE SdBegin \/ SdMainReturn
      BY <3>2 DEF SdBegin, SdMainReturn, SdStep, SdInv, runVars, schedVars
    <3>3. CASE SdCancel
      BY <3>3 DEF SdCancel, SdStep, S!Cancel, SdInv, runVars
    <3>4. CASE SdWoken
      BY <3>4 DEF SdWoken, SdStep, SdInv, runVars, schedVars
    <3>5. CASE SdClose
      BY <3>5 DEF SdClose, SdStep, SdInv, runVars, schedVars
    <3>6. ASSUME NEW i \in Client, ClientClosed(i) PROVE SdInv'
      BY <3>6 DEF ClientClosed, SdInv, runVars, schedVars
    <3> QED
      BY <2>5, <3>1, <3>2, <3>3, <3>4, <3>5, <3>6 DEF SdNext
  <2>6. CASE UNCHANGED vars
    BY <2>1, <2>6 DEF vars, schedVars, runVars, sdVars
  <2> QED
    BY <2>2, <2>3, <2>4, <2>5, <2>6 DEF Next
<1> QED
  BY <1>1, <1>2, RunsCorrect, WaitCorrect, PTL DEF Spec
-----------------------------------------------------------------------------
(* The closures and the loop variable they have captured.                  *)

\* A closure's own client is never ahead of its call's loop, so that what it
\* reads from the loop variable is its own client or a later one.
CaptureInv ==
  /\ \A j \in 1..Len(fnChan) : fnChan[j][2] <= idx[fnChan[j][1]]
  /\ \A w \in Worker : worker[w] = "running" => fn[w][2] <= idx[fn[w][1]]
  /\ target \in [Worker -> 0..NClient]
  /\ \A w \in Worker : stage[w] = "op" =>
       target[w] \in Client /\ target[w] >= fn[w][2]

\* A closure names its call and its client.
LEMMA FuncParts == \A f \in Func : f[1] \in Req /\ f[2] \in Client
BY DEF Func

\* What the proofs below use of the types of the scheduler's variables.
LEMMA SchedulerTypes ==
  ASSUME SP!TypeInv
  PROVE  /\ fnChan \in Seq(Func)
         /\ Len(fnChan) \in Nat
         /\ \A j \in 1..Len(fnChan) : fnChan[j] \in Func
         /\ worker \in [Worker -> SP!WorkerState]
         /\ DOMAIN fn = Worker
         /\ \A w \in Worker : worker[w] = "running" => fn[w] \in Func
         /\ done \subseteq Func
BY DEF SP!TypeInv, SP!TypeOK, SP!Shape

\* idx only grows, and only a call's own steps change it.
LEMMA IdxGrows ==
  ASSUME CallInv, [Next]_vars
  PROVE  \A r \in Req : idx'[r] >= idx[r]
<1>1. ASSUME NEW r \in Req, CallNext(r) PROVE \A q \in Req : idx'[q] >= idx[q]
  BY <1>1, NClientType DEF CallNext, Call, RangeNext, RangeEnd, SendOk,
    SendDrop, SendPanic, MainOp, CallInv
<1>2. CASE ~ \E r \in Req : CallNext(r)
  BY <1>2, OthersKeepCalls, NClientType DEF CallInv, callVars
<1> QED
  BY <1>1, <1>2

\* The loop variable a closure has captured has not gone back
\* (connector.go:184, 192).
LEMMA CaptureCorrect == Spec => []CaptureInv
<1>1. Init => CaptureInv
  BY NClientType DEF Init, S!Init, CaptureInv
<1>2. CaptureInv /\ CallInv /\ CallInv' /\ RunInv /\ SP!TypeInv /\ [Next]_vars
        => CaptureInv'
  <2> SUFFICES ASSUME CaptureInv, CallInv, CallInv', RunInv, SP!TypeInv,
                      [Next]_vars
               PROVE  CaptureInv'
    OBVIOUS
  <2>1. \A r \in Req : idx'[r] >= idx[r] /\ idx'[r] \in Int /\ idx[r] \in Int
    BY IdxGrows, NClientType DEF CallInv
  <2>2. ASSUME UNCHANGED <<fnChan, fn, target, stage>>,
               \A w \in Worker : worker'[w] = "running" => worker[w] = "running"
        PROVE  CaptureInv'
    <3>1. \A j \in 1..Len(fnChan) : fnChan[j][2] <= idx'[fnChan[j][1]]
      BY <2>1, SchedulerTypes, FuncParts DEF CaptureInv, Client
    <3>2. \A w \in Worker : worker[w] = "running" => fn[w][2] <= idx'[fn[w][1]]
      BY <2>1, SchedulerTypes, FuncParts DEF CaptureInv, Client
    <3> QED
      BY <2>2, <3>1, <3>2 DEF CaptureInv
  <2>3. ASSUME NEW r \in Req, SendOk(r) PROVE CaptureInv'
    <3>1. /\ fnChan' = Append(fnChan, <<r, idx[r]>>)
          /\ UNCHANGED <<fn, target, stage, worker, idx>>
      BY <2>3 DEF SendOk, S!Send, S!workerVars, runVars
    <3>2. \A j \in 1..Len(fnChan') : fnChan'[j][2] <= idx[fnChan'[j][1]]
      <4>1. \A j \in 1..Len(fnChan') :
              fnChan'[j] = IF j <= Len(fnChan) THEN fnChan[j] ELSE <<r, idx[r]>>
        BY <3>1, SchedulerTypes
      <4>2. \A j \in 1..Len(fnChan') : j <= Len(fnChan) => j \in 1..Len(fnChan)
        OBVIOUS
      <4> QED
        BY <2>1, <4>1, <4>2 DEF CaptureInv
    <3> QED
      BY <3>1, <3>2 DEF CaptureInv
  <2>4. ASSUME NEW w \in Worker, Receive(w) PROVE CaptureInv'
    <3>1. SP!Receive(w)
      BY <2>4 DEF Receive, S!Receive, SP!Receive, S!loopVars, SP!loopVars
    <3>2. /\ Len(fnChan) > 0
          /\ Len(fnChan') = Len(fnChan) - 1
          /\ \A j \in 1..Len(fnChan') : fnChan'[j] = fnChan[j + 1]
          /\ fn'[w] = fnChan[1]
      BY <3>1, SP!ReceiveTakesHead, SchedulerSizes, WorkerFiniteSP,
         SchedulerNoFunc
      DEF SP!TypeInv
    <3>3. /\ fn' = [fn EXCEPT ![w] = fn'[w]]
          /\ worker' = [worker EXCEPT ![w] = "running"]
          /\ stage' = [stage EXCEPT ![w] = "check"]
          /\ UNCHANGED <<target, idx>>
      BY <2>4, SchedulerTypes DEF Receive, S!Receive, callVars
    <3>4. \A j \in 1..Len(fnChan') : j + 1 \in 1..Len(fnChan)
      BY <3>2, SchedulerTypes
    <3>5. \A j \in 1..Len(fnChan') : fnChan'[j][2] <= idx[fnChan'[j][1]]
      BY <3>2, <3>4 DEF CaptureInv
    <3>6. 1 \in 1..Len(fnChan)
      BY <3>2, SchedulerTypes
    <3>7. \A v \in Worker :
            worker'[v] = "running" => fn'[v][2] <= idx[fn'[v][1]]
      BY <3>2, <3>3, <3>6, SchedulerTypes DEF CaptureInv
    <3>8. \A v \in Worker : stage'[v] = "op" =>
            v # w /\ stage[v] = "op" /\ fn'[v] = fn[v]
      BY <3>3, SchedulerTypes DEF RunInv
    <3> QED
      BY <3>3, <3>5, <3>7, <3>8 DEF CaptureInv
  <2>5. ASSUME NEW w \in Worker, CheckDone(w) \/ OpReturn(w)
        PROVE  CaptureInv'
    <3>1. /\ UNCHANGED <<fnChan, idx>>
          /\ worker' = [worker EXCEPT ![w] = "select"]
          /\ fn' = [fn EXCEPT ![w] = NoFunc]
          /\ stage' = [stage EXCEPT ![w] = "none"]
          /\ target' = target \/ target' = [target EXCEPT ![w] = 0]
      BY <2>5 DEF CheckDone, OpReturn, S!Return, S!chanVars, callVars
    <3>2. \A v \in Worker :
            worker'[v] = "running" => worker[v] = "running" /\ fn'[v] = fn[v]
      BY <3>1, SchedulerTypes
    <3>3. \A v \in Worker : stage'[v] = "op" =>
            stage[v] = "op" /\ fn'[v] = fn[v] /\ target'[v] = target[v]
      BY <3>1, SchedulerTypes DEF RunInv, CaptureInv
    <3>4. target' \in [Worker -> 0..NClient]
      BY <3>1, NClientType DEF CaptureInv
    <3> QED
      BY <3>1, <3>2, <3>3, <3>4 DEF CaptureInv
  <2>6. ASSUME NEW w \in Worker, CheckDefault(w) PROVE CaptureInv'
    BY <2>6 DEF CheckDefault, schedVars, callVars, CaptureInv, RunInv
  <2>7. ASSUME NEW w \in Worker, Apply(w) PROVE CaptureInv'
    <3>1. worker[w] = "running" /\ fn[w] \in Func
      BY <2>7, SchedulerTypes DEF Apply, RunInv
    <3>2. fn[w][1] \in Req /\ fn[w][2] \in Client
      BY <3>1, FuncParts
    <3>3. fn[w][2] <= loopVar[fn[w][1]] /\ loopVar[fn[w][1]] \in 0..NClient
      BY <3>1, <3>2 DEF CaptureInv, CallInv
    <3>4. loopVar[fn[w][1]] \in Client
      BY <3>2, <3>3, NClientType DEF Client
    <3>5. /\ UNCHANGED <<fnChan, worker, fn, idx>>
          /\ target' = [target EXCEPT ![w] = loopVar[fn[w][1]]]
          /\ stage' = [stage EXCEPT ![w] = "op"]
      BY <2>7 DEF Apply, schedVars, callVars
    <3>6. \A v \in Worker : stage'[v] = "op" =>
            target'[v] \in Client /\ target'[v] >= fn[v][2]
      BY <3>2, <3>3, <3>4, <3>5 DEF CaptureInv, RunInv, Client
    <3> QED
      BY <3>3, <3>5, <3>6 DEF CaptureInv
  <2>8. ASSUME NEW w \in Worker, Leave(w) PROVE CaptureInv'
    BY <2>2, <2>8, SchedulerTypes
    DEF Leave, S!ExitIdle, S!ExitCancel, S!Leave, S!chanVars, runVars
  <2>9. CASE SchedOther
    <3>1. UNCHANGED <<fnChan, fn, target, stage>>
      BY <2>9 DEF SchedOther, S!LoopNext, S!Tick, S!SpawnCheck, S!Spawn,
        S!SpawnEnd, S!ObserveCancel, S!CloseChan, S!Start, S!TickerFires,
        S!Dec, S!chanVars, S!workerVars, runVars
    <3>2. \/ UNCHANGED worker
          \/ \E w \in Worker : S!Spawn(w) \/ S!Start(w) \/ S!Dec(w)
      BY <2>9 DEF SchedOther, S!LoopNext, S!Tick, S!SpawnCheck, S!SpawnEnd,
        S!ObserveCancel, S!CloseChan, S!TickerFires, S!workerVars
    <3>3. \A v \in Worker : worker'[v] = "running" => worker[v] = "running"
      BY <3>2, SchedulerTypes DEF S!Spawn, S!Start, S!Dec
    <3> QED
      BY <2>2, <3>1, <3>3
  <2>10. CASE SdNext \/ UNCHANGED vars
    BY <2>2, <2>10 DEF SdNext, SdBegin, SdMainReturn, SdCancel, SdWait,
      SdWoken, SdClose, ClientClosed, S!Cancel, S!chanVars, S!workerVars,
      runVars, schedVars, vars
  <2>11. ASSUME NEW r \in Req, CallNext(r), ~SendOk(r) PROVE CaptureInv'
    BY <2>2, <2>11 DEF CallNext, Call, RangeNext, RangeEnd, SendDrop,
      SendPanic, MainOp, runVars, schedVars
  <2> QED
    BY <2>3, <2>4, <2>5, <2>6, <2>7, <2>8, <2>9, <2>10, <2>11
    DEF Next, RunNext
<1> QED
  BY <1>1, <1>2, CallsCorrect, RunsCorrect, SchedulerFacts, PTL DEF Spec

-----------------------------------------------------------------------------
(* What has been run on the last client.                                   *)

\* The captured variable can be no later than the last client: a closure made
\* for that client runs its command there, and ends only after that or after
\* the scheduler has been cancelled.
HitInv ==
  /\ hits \in [Req -> [Client -> Nat]]
  /\ \A w \in Worker : stage[w] = "op" /\ fn[w][2] = NClient
                         => hits[fn[w][1]][NClient] >= 1
  /\ ~cancelled => \A f \in done : f[2] = NClient => hits[f[1]][NClient] >= 1

\* Only Apply counts, CheckDone and OpReturn end a closure, Receive begins one.
LEMMA OthersKeepHits ==
  ASSUME [Next]_vars,
         ~ \E w \in Worker : Receive(w) \/ CheckDone(w) \/ CheckDefault(w)
                               \/ Apply(w) \/ OpReturn(w)
  PROVE  /\ UNCHANGED <<hits, stage, fn, done>>
         /\ cancelled => cancelled'
<1>1. ASSUME NEW r \in Req, CallNext(r)
      PROVE  UNCHANGED <<hits, stage, fn, done, cancelled>>
  BY <1>1 DEF CallNext, Call, RangeNext, RangeEnd, SendOk, SendDrop, SendPanic,
    MainOp, S!Send, S!workerVars, runVars, schedVars
<1>2. ASSUME NEW w \in Worker, Leave(w)
      PROVE  UNCHANGED <<hits, stage, fn, done, cancelled>>
  BY <1>2 DEF Leave, S!ExitIdle, S!ExitCancel, S!Leave, runVars
<1>3. CASE SchedOther
  BY <1>3 DEF SchedOther, S!LoopNext, S!Tick, S!SpawnCheck, S!Spawn, S!SpawnEnd,
    S!ObserveCancel, S!CloseChan, S!Start, S!TickerFires, S!Dec, S!workerVars,
    runVars
<1>4. CASE SdNext \/ UNCHANGED vars
  BY <1>4 DEF SdNext, SdBegin, SdMainReturn, SdCancel, SdWait, SdWoken, SdClose,
    ClientClosed, S!Cancel, S!workerVars, runVars, schedVars, vars
<1> QED
  BY <1>1, <1>2, <1>3, <1>4 DEF Next, RunNext

\* The last client gets every command whose closure for it has ended
\* (connector.go:187-192).
LEMMA HitsCorrect == Spec => []HitInv
<1>1. Init => HitInv
  BY DEF Init, S!Init, HitInv
<1>2. HitInv /\ CaptureInv /\ CallInv /\ RunInv /\ SP!TypeInv /\ [Next]_vars
        => HitInv'
  <2> SUFFICES ASSUME HitInv, CaptureInv, CallInv, RunInv, SP!TypeInv,
                      [Next]_vars
               PROVE  HitInv'
    OBVIOUS
  <2>1. ASSUME NEW w \in Worker, Receive(w) PROVE HitInv'
    <3>1. /\ UNCHANGED <<hits, done, cancelled>>
          /\ fn' = [fn EXCEPT ![w] = fn'[w]]
          /\ stage' = [stage EXCEPT ![w] = "check"]
      BY <2>1, SchedulerTypes DEF Receive, S!Receive
    <3>2. \A v \in Worker : stage'[v] = "op" => stage[v] = "op" /\ fn'[v] = fn[v]
      BY <3>1, SchedulerTypes DEF RunInv
    <3> QED
      BY <3>1, <3>2 DEF HitInv
  <2>2. ASSUME NEW w \in Worker, CheckDone(w) \/ OpReturn(w)
        PROVE  HitInv'
    <3>1. /\ UNCHANGED <<hits, cancelled>>
          /\ done' = done \cup {fn[w]}
          /\ fn' = [fn EXCEPT ![w] = NoFunc]
          /\ stage' = [stage EXCEPT ![w] = "none"]
          /\ cancelled \/ stage[w] = "op"
      BY <2>2 DEF CheckDone, OpReturn, S!Return
    <3>2. \A v \in Worker : stage'[v] = "op" => stage[v] = "op" /\ fn'[v] = fn[v]
      BY <3>1, SchedulerTypes DEF RunInv
    <3>3. ~cancelled => \A f \in done' : f[2] = NClient
                                           => hits[f[1]][NClient] >= 1
      BY <3>1 DEF HitInv
    <3> QED
      BY <3>1, <3>2, <3>3 DEF HitInv
  <2>3. ASSUME NEW w \in Worker, CheckDefault(w) PROVE HitInv'
    BY <2>3 DEF CheckDefault, schedVars, HitInv, RunInv
  <2>4. ASSUME NEW w \in Worker, Apply(w) PROVE HitInv'
    <3> DEFINE r == fn[w][1]
               c == loopVar[r]
    <3>1. fn[w] \in Func /\ r \in Req /\ fn[w][2] \in Client
      BY <2>4, SchedulerTypes, FuncParts DEF Apply, RunInv
    <3>2. fn[w][2] <= c /\ c \in Client
      <4>1. worker[w] = "running"
        BY <2>4 DEF Apply, RunInv
      <4>2. fn[w][2] <= c /\ c \in 0..NClient
        BY <3>1, <4>1 DEF CaptureInv, CallInv
      <4> QED
        BY <3>1, <4>2, NClientType DEF Client
    <3>3. /\ UNCHANGED <<fn, done, cancelled>>
          /\ hits' = [hits EXCEPT ![r][c] = @ + 1]
          /\ stage' = [stage EXCEPT ![w] = "op"]
      BY <2>4 DEF Apply, schedVars
    <3>4. hits' \in [Req -> [Client -> Nat]]
      BY <3>1, <3>2, <3>3 DEF HitInv
    <3>5. \A q \in Req : \A i \in Client : hits'[q][i] >= hits[q][i]
      BY <3>1, <3>2, <3>3 DEF HitInv
    <3>6. fn[w][2] = NClient => hits'[r][NClient] >= 1
      BY <3>1, <3>2, <3>3, NClientType DEF HitInv, Client
    <3>7. \A v \in Worker : stage'[v] = "op" /\ fn'[v][2] = NClient
                              => hits'[fn'[v][1]][NClient] >= 1
      <4> SUFFICES ASSUME NEW v \in Worker, v # w, stage[v] = "op",
                          fn[v][2] = NClient
                   PROVE  hits'[fn[v][1]][NClient] >= 1
        BY <3>3, <3>6 DEF RunInv
      <4>1. fn[v][1] \in Req /\ NClient \in Client
        BY SchedulerTypes, FuncParts DEF RunInv
      <4>2. hits[fn[v][1]][NClient] >= 1
        BY DEF HitInv
      <4>3. hits[fn[v][1]][NClient] \in Nat /\ hits'[fn[v][1]][NClient] \in Nat
        BY <3>4, <4>1 DEF HitInv
      <4> QED
        BY <3>5, <4>1, <4>2, <4>3
    <3>8. ~cancelled => \A f \in done' : f[2] = NClient
                                           => hits'[f[1]][NClient] >= 1
      <4> SUFFICES ASSUME ~cancelled, NEW f \in done, f[2] = NClient
                   PROVE  hits'[f[1]][NClient] >= 1
        BY <3>3
      <4>1. f[1] \in Req /\ NClient \in Client
        BY SchedulerTypes, FuncParts
      <4>2. hits[f[1]][NClient] >= 1
        BY DEF HitInv
      <4>3. hits[f[1]][NClient] \in Nat /\ hits'[f[1]][NClient] \in Nat
        BY <3>4, <4>1 DEF HitInv
      <4> QED
        BY <3>5, <4>1, <4>2, <4>3
    <3> QED
      BY <3>3, <3>4, <3>7, <3>8 DEF HitInv
  <2>5. CASE ~ \E w \in Worker : Receive(w) \/ CheckDone(w) \/ CheckDefault(w)
                                   \/ Apply(w) \/ OpReturn(w)
    BY <2>5, OthersKeepHits DEF HitInv
  <2> QED
    BY <2>1, <2>2, <2>3, <2>4, <2>5
<1> QED
  BY <1>1, <1>2, CaptureCorrect, CallsCorrect, RunsCorrect, SchedulerFacts, PTL
  DEF Spec

\* A closure is never run on a client that comes before the one it is for.
THEOREM NeverEarlier == Spec => []NeverEarlierClient
<1>1. CaptureInv => NeverEarlierClient
  BY DEF CaptureInv, NeverEarlierClient
<1> QED
  BY <1>1, CaptureCorrect, PTL

\* No command is being run on a load-test client that ShutDown is closing.
THEOREM ClosingIsSafe == Spec => []NoOpOnClosingClient
<1>1. SdInv /\ CaptureInv => NoOpOnClosingClient
  BY DEF SdInv, CaptureInv, NoOpOnClosingClient, AfterWait
<1> QED
  BY <1>1, SdCorrect, CaptureCorrect, PTL

\* The last load-test client gets every command that was queued for it, unless
\* the scheduler was cancelled first.
THEOREM LastIsServed == Spec => []LastClientServed
<1>1. HitInv /\ SP!TypeInv => LastClientServed
  <2> SUFFICES ASSUME HitInv, NEW r \in Req, ~cancelled,
                      <<r, NClient>> \in done
               PROVE  hits[r][NClient] >= 1
    BY DEF LastClientServed
  <2> QED
    BY DEF HitInv
<1> QED
  BY <1>1, HitsCorrect, SchedulerFacts, PTL

\* The connector's variables keep their types.
THEOREM TypeCorrect == Spec => []TypeOK
<1> DEFINE Other == /\ processAll \in BOOLEAN
                    /\ sd \in {"idle", "main", "cancel"} \cup AfterCancel
<1>1. Init => Other
  BY DEF Init
<1>2. Other /\ [Next]_vars => Other'
  <2> SUFFICES ASSUME Other, [Next]_vars PROVE Other'
    OBVIOUS
  <2> USE DEF AfterCancel
  <2>1. ASSUME NEW r \in Req, CallNext(r) PROVE Other'
    BY <2>1 DEF CallNext, Call, RangeNext, RangeEnd, SendOk, SendDrop, SendPanic,
      MainOp, sdVars
  <2>2. ASSUME NEW w \in Worker, RunNext(w) PROVE Other'
    BY <2>2 DEF RunNext, Receive, CheckDone, CheckDefault, Apply, OpReturn,
      Leave, sdVars
  <2>3. CASE SchedOther \/ UNCHANGED vars
    BY <2>3 DEF SchedOther, sdVars, vars
  <2>4. CASE SdNext
    BY <2>4 DEF SdNext, SdBegin, SdMainReturn, SdCancel, SdWait, SdWoken,
      SdClose, ClientClosed, SdStep
  <2> QED
    BY <2>1, <2>2, <2>3, <2>4 DEF Next
<1>3. Other /\ CallInv /\ RunInv /\ SdInv /\ CaptureInv /\ HitInv => TypeOK
  BY DEF TypeOK, CallInv, RunInv, SdInv, CaptureInv, HitInv, AfterCancel
<1> QED
  BY <1>1, <1>2, <1>3, CallsCorrect, RunsCorrect, SdCorrect, CaptureCorrect,
     HitsCorrect, PTL DEF Spec
=============================================================================
