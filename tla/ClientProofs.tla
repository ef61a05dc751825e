---------------------------- MODULE ClientProofs ----------------------------
(***************************************************************************)
(* Proofs about Client, for any buffer sizes, any number of retries and any *)
(* bounds: what Subscribe's goroutine hands on, and how often Run executes *)
(* a script.                                                               *)
(***************************************************************************)
EXTENDS Client, SequenceTheorems, TLAPS

-----------------------------------------------------------------------------
(* Sequences.                                                              *)

\* Handing on the first element of a sequence.
LEMMA HeadAndTail ==
  ASSUME NEW t \in Seq(Nat), t # <<>>
  PROVE  /\ Head(t) \in Nat
         /\ Tail(t) \in Seq(Nat)
         /\ Len(Tail(t)) = Len(t) - 1
         /\ t = <<Head(t)>> \o Tail(t)
<1>1. Head(t) \in Nat /\ Tail(t) \in Seq(Nat) /\ Len(Tail(t)) = Len(t) - 1
  BY HeadTailProperties
<1>2. <<Head(t)>> \o Tail(t) \in Seq(Nat)
  BY <1>1, ConcatProperties
<1>3. Len(<<Head(t)>> \o Tail(t)) = Len(t)
  BY <1>1, ConcatProperties, LenProperties
<1>4. ASSUME NEW i \in 1..Len(t) PROVE t[i] = (<<Head(t)>> \o Tail(t))[i]
  BY <1>1, HeadTailProperties, ConcatProperties, LenProperties
<1> QED
  BY <1>1, <1>2, <1>3, <1>4, SeqEqual

\* Append is concatenation.
LEMMA Appended ==
  ASSUME NEW s \in Seq(Nat), NEW e \in Nat
  PROVE  Append(s, e) = s \o <<e>> /\ Append(s, e) \in Seq(Nat)
OBVIOUS

\* Concatenation, with the element type spelt out.
LEMMA Concatenated ==
  \A a, b \in Seq(Nat) : a \o b \in Seq(Nat) /\ Len(a \o b) = Len(a) + Len(b)
BY ConcatProperties

LEMMA Associative == \A a, b, c \in Seq(Nat) : (a \o b) \o c = a \o (b \o c)
BY ConcatAssociative

-----------------------------------------------------------------------------
(* The subscription.                                                       *)

\* The queues hold messages; the goroutine holds at most one; without a buffer
\* nothing stays in the result channel; without a subscription nothing is there.
QueueInv ==
  /\ handed \in Seq(Nat) /\ ch \in Seq(Nat) /\ held \in Seq(Nat)
  /\ result \in Seq(Nat) /\ read \in Seq(Nat)
  /\ held = <<>> \/ \E m \in Nat : held = <<m>>
  /\ size \in Nat /\ Len(result) <= size
  /\ published \in Nat
  /\ sub = "none" => result = <<>> /\ held = <<>> /\ ch = <<>>

\* Only a message, the goroutine and the subscriber touch the queues; Subscribe
\* makes the result channel when it is empty.
LEMMA OthersKeepQueues ==
  ASSUME [Next]_vars, ~ (Subscribe \/ Message \/ Take \/ Forward \/ Read)
  PROVE  /\ UNCHANGED <<handed, ch, held, result, read, size, published>>
         /\ sub' = "none" => sub = "none"
<1>1. CASE Unsubscribe \/ ChannelClosed \/ End \/ StopReading
  BY <1>1 DEF Unsubscribe, ChannelClosed, End, StopReading
<1>2. CASE UNCHANGED subVars
  BY <1>2 DEF subVars
<1>3. CASE \/ ShutDown \/ ClosePool \/ CloseReturns \/ CloseChan
           \/ ShutDownReturns \/ MonitorTick \/ MonitorReport \/ MonitorEnd
           \/ Run \/ Served \/ Fails \/ Refused \/ FlushOrLoad
  BY <1>2, <1>3 DEF ShutDown, ClosePool, CloseReturns, CloseChan,
    ShutDownReturns, MonitorTick, MonitorReport, MonitorEnd, Run, Served, Fails,
    Refused, FlushOrLoad
<1> QED
  BY <1>1, <1>2, <1>3 DEF Next, vars

\* Between go-redis's channel and the subscriber nothing is dropped, doubled or
\* reordered (client.go:175-183).
THEOREM MessagesStayInOrder == Spec => []MessagesInOrder
<1> DEFINE I == QueueInv /\ MessagesInOrder
<1>1. Init => I
  <2> SUFFICES ASSUME Init PROVE I
    OBVIOUS
  <2>1. QueueInv
    BY DEF Init, QueueInv
  <2>2. <<>> \o <<>> \o <<>> \o <<>> = <<>>
    OBVIOUS
  <2> QED
    BY <2>1, <2>2 DEF Init, MessagesInOrder
<1>2. I /\ [Next]_vars => I'
  <2> SUFFICES ASSUME QueueInv, MessagesInOrder, [Next]_vars PROVE I'
    OBVIOUS
  <2> USE DEF MessagesInOrder
  <2>1. CASE Subscribe
    <3>1. UNCHANGED <<handed, ch, held, result, read, published>>
      BY <2>1 DEF Subscribe
    <3>2. size' \in Nat /\ sub' = "open"
      BY <2>1, SizesType DEF Subscribe
    <3>3. Len(result') <= size'
      BY <2>1, <3>1, <3>2, EmptySeq DEF Subscribe, QueueInv
    <3>4. MessagesInOrder'
      BY <3>1
    <3>5. QueueInv'
      BY <3>1, <3>2, <3>3 DEF QueueInv
    <3> QED
      BY <3>4, <3>5
  <2>2. CASE Message
    <3>1. CASE UNCHANGED <<ch, handed>>
      <4>1. UNCHANGED <<ch, handed, held, result, read, size, sub>>
        BY <2>2, <3>1 DEF Message
      <4>2. published' \in Nat
        BY <2>2 DEF Message, QueueInv
      <4> QED
        BY <4>1, <4>2 DEF QueueInv
    <3>2. CASE ~ UNCHANGED <<ch, handed>>
      <4> DEFINE m == published'
                 X == read \o result \o held
      <4>1. m \in Nat /\ <<m>> \in Seq(Nat) /\ sub = "open"
        BY <2>2 DEF Message, QueueInv
      <4>2. /\ ch' = Append(ch, m) /\ handed' = Append(handed, m)
            /\ UNCHANGED <<held, result, read, size, sub>>
        BY <2>2, <3>2 DEF Message
      <4>3. ch' = ch \o <<m>> /\ ch' \in Seq(Nat)
        BY <4>1, <4>2, Appended DEF QueueInv
      <4>4. handed' = handed \o <<m>> /\ handed' \in Seq(Nat)
        BY <4>1, <4>2, Appended DEF QueueInv
      <4>5. X \in Seq(Nat)
        <5>1. read \o result \in Seq(Nat)
          BY ConcatProperties DEF QueueInv
        <5> QED
          BY <5>1, ConcatProperties DEF QueueInv
      <4>6. (X \o ch) \o <<m>> = X \o (ch \o <<m>>)
        BY <4>1, <4>5, Associative DEF QueueInv
      <4>7. read' \o result' \o held' \o ch' = handed'
        BY <4>2, <4>3, <4>4, <4>6
      <4> QED
        BY <4>1, <4>2, <4>3, <4>4, <4>7 DEF QueueInv
    <3> QED
      BY <3>1, <3>2
  <2>3. CASE Take
    <3>1. /\ held = <<>> /\ ch # <<>>
          /\ held' = <<Head(ch)>> /\ ch' = Tail(ch)
          /\ UNCHANGED <<handed, result, read, size, published, sub>>
      BY <2>3 DEF Take
    <3>2. held' \in Seq(Nat) /\ ch' \in Seq(Nat) /\ ch = held' \o ch'
          /\ Head(ch) \in Nat
      BY <3>1, HeadAndTail DEF QueueInv
    <3>3. read \o result \o held \o ch = read \o result \o ch
      <4>1. read \o result \in Seq(Nat)
        BY Concatenated DEF QueueInv
      <4> QED
        BY <3>1, <4>1, ConcatEmptySeq
    <3>4. read \o result \o ch = read \o result \o held' \o ch'
      <4>1. read \o result \in Seq(Nat)
        BY Concatenated DEF QueueInv
      <4> QED
        BY <3>2, <4>1, Associative
    <3>5. sub # "none"
      BY <3>1 DEF QueueInv
    <3> QED
      BY <3>1, <3>2, <3>3, <3>4, <3>5 DEF QueueInv
  <2>4. CASE Forward
    <3>1. /\ held # <<>> /\ held' = <<>>
          /\ UNCHANGED <<handed, ch, size, published, sub>>
      BY <2>4 DEF Forward
    <3>2. held \in Seq(Nat) /\ Len(held) = 1 /\ sub # "none"
      BY <3>1 DEF QueueInv
    <3>3. CASE Len(result) < size /\ result' = result \o held /\ read' = read
      <4>1. result' \in Seq(Nat) /\ Len(result') = Len(result) + 1
        BY <3>2, <3>3, Concatenated DEF QueueInv
      <4>2. read' \o result' \o held' \o ch' = read \o result \o held \o ch
        <5>1. read \o (result \o held) \in Seq(Nat)
          BY <3>2, Concatenated DEF QueueInv
        <5>2. read' \o result' \o held' = read \o (result \o held)
          BY <3>1, <3>3, <5>1, ConcatEmptySeq
        <5>3. read \o (result \o held) = read \o result \o held
          BY <3>2, Associative DEF QueueInv
        <5> QED
          BY <3>1, <5>2, <5>3
      <4>3. Len(result') <= size
        BY <3>3, <4>1, LenProperties DEF QueueInv
      <4> QED
        BY <3>1, <3>3, <4>1, <4>2, <4>3 DEF QueueInv
    <3>4. CASE size = 0 /\ read' = read \o held /\ result' = result
      <4>1. result = <<>>
        BY <3>4, LenProperties, EmptySeq DEF QueueInv
      <4>2. read' \in Seq(Nat)
        BY <3>2, <3>4, ConcatProperties DEF QueueInv
      <4>3. read' \o result' \o held' \o ch' = read \o result \o held \o ch
        BY <3>1, <3>4, <4>1, <4>2, ConcatEmptySeq DEF QueueInv
      <4> QED
        BY <3>1, <3>4, <4>1, <4>2, <4>3 DEF QueueInv
    <3> QED
      BY <2>4, <3>3, <3>4 DEF Forward
  <2>5. CASE Read
    <3>1. /\ result # <<>>
          /\ read' = Append(read, Head(result)) /\ result' = Tail(result)
          /\ UNCHANGED <<handed, ch, held, size, published, sub>>
      BY <2>5 DEF Read
    <3>2. /\ Head(result) \in Nat /\ <<Head(result)>> \in Seq(Nat)
          /\ result' \in Seq(Nat) /\ Len(result') = Len(result) - 1
          /\ result = <<Head(result)>> \o result'
      BY <3>1, HeadAndTail DEF QueueInv
    <3>3. read' = read \o <<Head(result)>> /\ read' \in Seq(Nat)
      BY <3>1, <3>2, Appended DEF QueueInv
    <3>4. read' \o result' = read \o result
      <4>1. (read \o <<Head(result)>>) \o result'
              = read \o (<<Head(result)>> \o result')
        BY <3>2, Associative DEF QueueInv
      <4> QED
        BY <3>2, <3>3, <4>1
    <3>5. Len(result') <= size
      BY <3>2, LenProperties DEF QueueInv
    <3>6. sub # "none"
      BY <3>1 DEF QueueInv
    <3> QED
      BY <3>1, <3>2, <3>3, <3>4, <3>5, <3>6 DEF QueueInv
  <2>6. CASE ~ (Subscribe \/ Message \/ Take \/ Forward \/ Read)
    BY <2>6, OthersKeepQueues DEF QueueInv
  <2> QED
    BY <2>1, <2>2, <2>3, <2>4, <2>5, <2>6
<1> QED
  BY <1>1, <1>2, PTL DEF Spec

-----------------------------------------------------------------------------
(* The script.                                                             *)

\* While Run waits for a command, only executions whose reply was lost have
\* happened.
ScriptInv ==
  /\ executed \in Nat /\ lost \in Nat
  /\ step \in {"idle", "evalsha", "eval"} => executed <= lost /\ answer = "none"

\* Run executes a script once, and once more only for a reply that the network
\* lost, whatever others do with the server's cache (client.go:147-158).
THEOREM ScriptRunsOnce == Spec => []RunsOncePerLoss
<1> DEFINE I == ScriptInv /\ RunsOncePerLoss
<1>1. Init => I
  BY DEF Init, ScriptInv, RunsOncePerLoss
<1>2. I /\ [Next]_vars => I'
  <2> SUFFICES ASSUME ScriptInv, RunsOncePerLoss, [Next]_vars PROVE I'
    OBVIOUS
  <2> USE DEF ScriptInv, RunsOncePerLoss
  <2>1. CASE UNCHANGED <<executed, lost, step, answer>>
    BY <2>1
  <2>2. CASE Served
    BY <2>2 DEF Served, Answer, Executes
  <2>3. CASE Fails
    BY <2>3 DEF Fails, Answer, Executes
  <2>4. CASE Refused
    BY <2>4 DEF Refused, Answer
  <2>5. CASE Run
    BY <2>5 DEF Run
  <2>6. CASE ~ (Served \/ Fails \/ Refused \/ Run)
    <3>1. UNCHANGED <<executed, lost, step, answer>>
      <4>1. CASE UNCHANGED runVars
        BY <4>1 DEF runVars
      <4> QED
        BY <2>6, <4>1 DEF Next, ShutDown, ClosePool, CloseReturns, CloseChan,
          ShutDownReturns, MonitorTick, MonitorReport, MonitorEnd, Subscribe,
          Unsubscribe, Message, ChannelClosed, Take, Forward, End, Read,
          StopReading, FlushOrLoad, vars
    <3> QED
      BY <2>1, <3>1
  <2> QED
    BY <2>2, <2>3, <2>4, <2>5, <2>6
<1> QED
  BY <1>1, <1>2, PTL DEF Spec
=============================================================================
