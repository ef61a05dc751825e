------------------------------- MODULE Client -------------------------------
(***************************************************************************)
(* One client (src/client.go) after newClient has returned it: ShutDown    *)
(* with the goroutine that closes the go-redis client, monitorPool, the    *)
(* goroutine of Subscribe between go-redis's channel and the result        *)
(* channel, and Run with its two commands.                                 *)
(*                                                                         *)
(* A subscription and a script do not touch each other: the client is used *)
(* for one of them.  ShutDown is called at most once.                      *)
(*                                                                         *)
(* go-redis and the server are not part of the repository.  Of go-redis: a *)
(* message that finds its channel full is dropped; the channel is closed   *)
(* some time after the pool; a command is tried again when the network     *)
(* fails, and fails once the pool is closed; Close may fail or hang.  Of   *)
(* the server: it knows scripts by their hash from an EVAL on, until       *)
(* somebody flushes them.                                                  *)
(***************************************************************************)
EXTENDS Integers, Sequences

CONSTANTS BufSizes,  \* values of chanBufferSize
          ChanSize,  \* size of go-redis's channel
          Retries,   \* MaxRetries: how often go-redis tries again
          MaxMsg,    \* bound: messages that are published
          MaxEvents  \* bound: flushes and loads of the script by others

ASSUME SizesType == /\ BufSizes \subseteq Nat
                    /\ ChanSize \in Nat \ {0}
                    /\ {Retries, MaxMsg, MaxEvents} \subseteq Nat

VARIABLES
  pool,       \* the connections of the go-redis client
  closer,     \* where the goroutine of ShutDown is
  closeChan,  \* c.closeChan is closed
  sd,         \* where ShutDown is
  monitor,    \* where monitorPool is
  use,        \* what the client is used for
  sub,        \* the subscription
  size,       \* its chanBufferSize
  published,  \* history: how many messages were published
  handed,     \* history: those that were put into ch
  ch,         \* sub.Channel(), and whether it is closed
  chClosed,
  held,       \* the message that the goroutine is about to send
  result,     \* resultChan
  ended,      \* resultChan is closed, the goroutine has ended
  reading,    \* the subscriber is still ranging over resultChan
  read,       \* history: what it has read
  known,      \* the server has the script in its cache
  events,     \* history: how often others changed that
  step,       \* which command Run is waiting for
  tries,      \* go-redis's attempts at it
  executed,   \* history: how often the script was executed
  lost,       \* history: how many of its replies were lost
  answer      \* what Run has returned

closeVars == <<pool, closer, closeChan, sd, monitor>>
subVars == <<sub, size, published, handed, ch, chClosed, held, result, ended,
             reading, read>>
runVars == <<known, events, step, tries, executed, lost, answer>>
vars == <<closeVars, use, subVars, runVars>>

Init ==
  /\ pool = "open" /\ closer = "none" /\ closeChan = FALSE
  /\ sd = "idle" /\ monitor = "select"
  /\ use \in {"subscribe", "run"}
  /\ sub = "none" /\ size = 0
  /\ published = 0 /\ handed = <<>>
  /\ ch = <<>> /\ chClosed = FALSE /\ held = <<>>
  /\ result = <<>> /\ ended = FALSE
  /\ reading = FALSE /\ read = <<>>
  /\ known \in BOOLEAN /\ events = 0
  /\ step = "idle" /\ tries = 0
  /\ executed = 0 /\ lost = 0 /\ answer = "none"

-----------------------------------------------------------------------------
(* ShutDown and monitorPool.                                               *)

ShutDown ==
  /\ sd = "idle"
  /\ sd' = "waiting" /\ closer' = "closing"
  /\ UNCHANGED <<pool, closeChan, monitor, use, subVars, runVars>>

\* wrappedClient.Close: the pool is closed first; then it may fail or hang.
ClosePool ==
  /\ closer = "closing" /\ pool = "open"
  /\ pool' = "closed"
  /\ UNCHANGED <<closer, closeChan, sd, monitor, use, subVars, runVars>>

CloseReturns ==
  /\ closer = "closing" /\ pool = "closed"
  /\ closer' \in {"ok", "error"}
  /\ UNCHANGED <<pool, closeChan, sd, monitor, use, subVars, runVars>>

\* Mutated: an error of Close ends the goroutine.
CloseChanUnlessError ==
  /\ closer = "ok"
  /\ closer' = "done" /\ closeChan' = TRUE
  /\ UNCHANGED <<pool, sd, monitor, use, subVars, runVars>>

\* The error is logged.
CloseChan ==
  /\ closer \in {"ok", "error"}
  /\ closer' = "done" /\ closeChan' = TRUE
  /\ UNCHANGED <<pool, sd, monitor, use, subVars, runVars>>

\* The select of ShutDown; the context has a deadline in any case.
ShutDownReturns ==
  /\ sd = "waiting"
  /\ \/ closeChan /\ sd' = "graceful"
     \/ sd' = "timeout"
  /\ UNCHANGED <<pool, closer, closeChan, monitor, use, subVars, runVars>>

MonitorTick ==
  /\ monitor = "select"
  /\ monitor' = "report"
  /\ UNCHANGED <<pool, closer, closeChan, sd, use, subVars, runVars>>

MonitorReport ==
  /\ monitor = "report"
  /\ monitor' = "select"
  /\ UNCHANGED <<pool, closer, closeChan, sd, use, subVars, runVars>>

MonitorEnd ==
  /\ monitor = "select" /\ closeChan
  /\ monitor' = "gone"
  /\ UNCHANGED <<pool, closer, closeChan, sd, use, subVars, runVars>>

-----------------------------------------------------------------------------
(* Subscribe.                                                              *)

\* On a load-test client the response is dropped: nobody reads.
Subscribe ==
  /\ use = "subscribe" /\ sub = "none"
  /\ sub' = "open"
  /\ size' \in BufSizes
  /\ reading' \in BOOLEAN
  /\ UNCHANGED <<closeVars, use, published, handed, ch, chClosed, held, result,
                 ended, read, runVars>>

Unsubscribe ==
  /\ sub = "open"
  /\ sub' = "unsubscribed"
  /\ UNCHANGED <<closeVars, use, size, published, handed, ch, chClosed, held,
                 result, ended, reading, read, runVars>>

Message ==
  /\ sub = "open" /\ pool = "open" /\ published < MaxMsg
  /\ published' = published + 1
  /\ \/ /\ Len(ch) < ChanSize
        /\ ch' = Append(ch, published') /\ handed' = Append(handed, published')
     \/ Len(ch) = ChanSize /\ UNCHANGED <<ch, handed>>
  /\ UNCHANGED <<closeVars, use, sub, size, chClosed, held, result, ended,
                 reading, read, runVars>>

ChannelClosed ==
  /\ sub # "none" /\ pool = "closed" /\ ~chClosed
  /\ chClosed' = TRUE
  /\ UNCHANGED <<closeVars, use, sub, size, published, handed, ch, held, result,
                 ended, reading, read, runVars>>

\* The goroutine's range over ch.
Take ==
  /\ held = <<>> /\ ch # <<>>
  /\ held' = <<Head(ch)>> /\ ch' = Tail(ch)
  /\ UNCHANGED <<closeVars, use, sub, size, published, handed, chClosed, result,
                 ended, reading, read, runVars>>

\* Mutated: what finds the result channel full is dropped.
ForwardOrDrop ==
  /\ held # <<>>
  /\ result' = IF Len(result) < size THEN result \o held ELSE result
  /\ held' = <<>>
  /\ UNCHANGED <<closeVars, use, sub, size, published, handed, ch, chClosed,
                 ended, reading, read, runVars>>

\* The send on resultChan waits for room, or without a buffer for the reader.
Forward ==
  /\ held # <<>>
  /\ \/ /\ Len(result) < size
        /\ result' = result \o held /\ UNCHANGED read
     \/ /\ size = 0 /\ reading
        /\ read' = read \o held /\ UNCHANGED result
  /\ held' = <<>>
  /\ UNCHANGED <<closeVars, use, sub, size, published, handed, ch, chClosed,
                 ended, reading, runVars>>

\* Mutated: resultChan is left open.
EndOpen ==
  /\ chClosed /\ ch = <<>> /\ held = <<>> /\ ~ended
  /\ UNCHANGED vars

End ==
  /\ chClosed /\ ch = <<>> /\ held = <<>> /\ ~ended
  /\ ended' = TRUE
  /\ UNCHANGED <<closeVars, use, sub, size, published, handed, ch, chClosed,
                 held, result, reading, read, runVars>>

\* The subscriber.
Read ==
  /\ reading /\ result # <<>>
  /\ read' = Append(read, Head(result)) /\ result' = Tail(result)
  /\ UNCHANGED <<closeVars, use, sub, size, published, handed, ch, chClosed,
                 held, ended, reading, runVars>>

StopReading ==
  /\ reading
  /\ reading' = FALSE
  /\ UNCHANGED <<closeVars, use, sub, size, published, handed, ch, chClosed,
                 held, result, ended, read, runVars>>

-----------------------------------------------------------------------------
(* Run.                                                                    *)

Run ==
  /\ use = "run" /\ step = "idle"
  /\ step' = "evalsha"
  /\ UNCHANGED <<closeVars, use, subVars, known, events, tries, executed, lost,
                 answer>>

\* Mutated: EVAL follows on any error.
AnswerAnyError(a) ==
  IF step = "evalsha" /\ a # "reply"
  THEN step' = "eval" /\ tries' = 0 /\ UNCHANGED answer
  ELSE step' = "done" /\ answer' = a /\ UNCHANGED tries

\* c.do has returned a: EVAL follows if the error is NOSCRIPT.
Answer(a) ==
  IF step = "evalsha" /\ a = "noscript"
  THEN step' = "eval" /\ tries' = 0 /\ UNCHANGED answer
  ELSE step' = "done" /\ answer' = a /\ UNCHANGED tries

Executes == step = "eval" \/ known

\* The server answers the command.
Served ==
  /\ step \in {"evalsha", "eval"} /\ pool = "open"
  /\ \/ /\ Executes
        /\ executed' = executed + 1 /\ known' = TRUE
        /\ \E a \in {"reply", "scriptError"} : Answer(a)
     \/ ~Executes /\ Answer("noscript") /\ UNCHANGED <<executed, known>>
  /\ UNCHANGED <<closeVars, use, subVars, events, lost>>

\* The network fails, before the command has been executed or after.
Fails ==
  /\ step \in {"evalsha", "eval"} /\ pool = "open"
  /\ \/ /\ Executes
        /\ executed' = executed + 1 /\ lost' = lost + 1 /\ known' = TRUE
     \/ UNCHANGED <<executed, lost, known>>
  /\ \/ tries < Retries /\ tries' = tries + 1 /\ UNCHANGED <<step, answer>>
     \/ tries = Retries /\ Answer("networkError")
  /\ UNCHANGED <<closeVars, use, subVars, events>>

Refused ==
  /\ step \in {"evalsha", "eval"} /\ pool = "closed"
  /\ Answer("closed")
  /\ UNCHANGED <<closeVars, use, subVars, known, events, executed, lost>>

FlushOrLoad ==
  /\ use = "run" /\ events < MaxEvents
  /\ events' = events + 1 /\ known' = ~known
  /\ UNCHANGED <<closeVars, use, subVars, step, tries, executed, lost, answer>>

-----------------------------------------------------------------------------
Next == \/ ShutDown \/ ClosePool \/ CloseReturns \/ CloseChan \/ ShutDownReturns
        \/ MonitorTick \/ MonitorReport \/ MonitorEnd
        \/ Subscribe \/ Unsubscribe \/ Message \/ ChannelClosed
        \/ Take \/ Forward \/ End \/ Read \/ StopReading
        \/ Run \/ Served \/ Fails \/ Refused \/ FlushOrLoad

Spec == Init /\ [][Next]_vars

\* The goroutines are scheduled, and a select that finds closeChan closed again
\* and again takes that case one day.  Go-redis closes its channel, and a
\* subscriber that has not stopped reads on.  That Close returns is not assumed.
Fairness == /\ WF_vars(CloseChan) /\ WF_vars(ShutDownReturns)
            /\ WF_vars(MonitorReport) /\ SF_vars(MonitorEnd)
            /\ WF_vars(ChannelClosed) /\ WF_vars(Take) /\ WF_vars(Forward)
            /\ WF_vars(End) /\ WF_vars(Read)

FairSpec == Spec /\ Fairness

-----------------------------------------------------------------------------
(* Properties.                                                             *)

TypeOK ==
  /\ pool \in {"open", "closed"}
  /\ closer \in {"none", "closing", "ok", "error", "done"}
  /\ sd \in {"idle", "waiting", "graceful", "timeout"}
  /\ monitor \in {"select", "report", "gone"}
  /\ use \in {"subscribe", "run"}
  /\ sub \in {"none", "open", "unsubscribed"}
  /\ size \in BufSizes \cup {0} /\ published \in Nat
  /\ {handed, ch, held, result, read} \subseteq Seq(Nat)
  /\ Len(ch) <= ChanSize /\ Len(held) <= 1 /\ Len(result) <= size
  /\ {closeChan, chClosed, ended, reading, known} \subseteq BOOLEAN
  /\ {events, tries, executed, lost} \subseteq Nat
  /\ step \in {"idle", "evalsha", "eval", "done"}
  /\ answer \in {"none", "reply", "scriptError", "noscript", "networkError",
                 "closed"}

\* monitorPool does not outlive the client: it ends once Close has returned,
\* with an error or without, and also if ShutDown has long timed out
\* (client.go:204-209, 238-239).
MonitorEnds == closer \in {"ok", "error"} ~> monitor = "gone"

\* Between go-redis's channel and the subscriber nothing is dropped, doubled or
\* reordered, with a buffer or without, slow or stopped as the subscriber may be
\* (client.go:175-183).
MessagesInOrder == read \o result \o held \o ch = handed

\* Closing the client ends its subscriptions: a subscriber that goes on reading
\* gets everything that was handed over and then the end of the channel
\* (client.go:177-187).
SubscriptionEnds ==
  pool = "closed" /\ sub # "none" ~> ~reading \/ (ended /\ read = handed)

\* Run executes a script once, and once more only for every reply that the network
\* lost; the server's flushes cost nothing and never show (client.go:147-158).
RunsOncePerLoss ==
  /\ executed <= 1 + lost
  /\ answer = "reply" => executed >= 1
  /\ answer # "noscript"

-----------------------------------------------------------------------------
(* What comments and messages of the code say and the code does not do: TLC *)
(* finds each of these violated.                                            *)

\* redisapi/client.go:92: "Unsubscribe can be used to terminate the
\* subscription": the subscriber's channel is closed.
UnsubscribeTerminates == sub = "unsubscribed" ~> ended

\* client.go:197: ShutDown does the clean up: the goroutine of a subscription
\* that nobody reads ends too.
ForwarderEnds == pool = "closed" /\ sub # "none" ~> ended
=============================================================================
