----------------------------- MODULE SendQueue -----------------------------
(***************************************************************************)
(* The Telegram sender: handlers and the bot's own loop put messages on a  *)
(* bounded channel, sendqueueRunner takes them off, sends them at the rate *)
(* Telegram allows, and puts aside in holdQ what it may not send yet, to   *)
(* feed it back into the channel it reads.  When the context is cancelled  *)
(* the runner and the bot's loop stop, in either order, and the loop       *)
(* closes the channel.  Time is left out: the armed timer may fire at any  *)
(* time, and when it does, the time it was armed for is over; unblocker is *)
(* one variable, so a timer it no longer names never fires.                *)
(***************************************************************************)
EXTENDS Naturals, Sequences, SequencesExt

CONSTANTS Msgs,       \* the messages of a burst, each offered once
          BotMsgs,    \* those the bot's own loop sends, answering an update
          ChanSize,   \* sendQchanSize
          HalfBurst,  \* sendQBurst / 2
          MayStop,    \* may the context be cancelled?
          Nil         \* what a closed and empty channel yields

ASSUME MsgsType == BotMsgs \subseteq Msgs /\ Nil \notin Msgs
ASSUME SizeType == ChanSize \in Nat \ {0} /\ HalfBurst \in Nat \ {0}
ASSUME StopType == MayStop \in BOOLEAN

VARIABLES
  caller,    \* where each message is, seen from its sender
  queue,     \* sendQueue
  hold,      \* holdQ
  blocked,   \* park everything in holdQ
  timer,     \* what unblocker was last armed for, "none" once it has fired
  runner,    \* where the runner is
  msg,       \* the message it is sending
  fed,       \* messages fed back in this round of the holdQ
  settled,   \* messages sent or given up on
  pausing,   \* history: the pause Telegram asked for is not over
  stopping,  \* the context is cancelled
  closed,    \* Start has returned and closed the channel
  crashed    \* a panic outside an HTTP handler has ended the process

vars == <<caller, queue, hold, blocked, timer, runner, msg, fed, settled,
          pausing, stopping, closed, crashed>>
own  == <<queue, hold, blocked, timer, runner, msg, fed, settled, pausing>>
ends == <<stopping, closed, crashed>>

TypeOK == /\ caller \in [Msgs -> {"idle", "sending", "in", "lost"}]
          /\ queue \in Seq(Msgs) /\ Len(queue) <= ChanSize
          /\ hold \in Seq(Msgs \cup {Nil})
          /\ blocked \in BOOLEAN
          /\ timer \in {"none", "burst", "full", "retry"}
          /\ runner \in {"select", "wait", "send", "drain", "stopped"}
          /\ msg \in Msgs \cup {Nil}
          /\ fed \in 0 .. HalfBurst
          /\ settled \subseteq Msgs
          /\ pausing \in BOOLEAN
          /\ stopping \in BOOLEAN
          /\ closed \in BOOLEAN
          /\ crashed \in BOOLEAN

Init == /\ caller = [m \in Msgs |-> "idle"]
        /\ queue = <<>>
        /\ hold = <<>>
        /\ blocked = FALSE
        /\ timer = "none"
        /\ runner = "select"
        /\ msg = Nil
        /\ fed = 0
        /\ settled = {}
        /\ pausing = FALSE
        /\ stopping = FALSE
        /\ closed = FALSE
        /\ crashed = FALSE
-----------------------------------------------------------------------------
(* Senders: sendMessage, sendTarget, sendAnnounce, and runUpdate *)

BotBusy == \E m \in BotMsgs : caller[m] = "sending"

\* The bot's loop handles one update at a time, until it returns.
Offer(m) == /\ caller[m] = "idle"
            /\ m \in BotMsgs => ~BotBusy /\ ~closed
            /\ caller' = [caller EXCEPT ![m] = "sending"]
            /\ UNCHANGED <<own, ends>>

\* sendQueue <- msg waits for room.
Enter(m) == /\ caller[m] = "sending" /\ ~closed
            /\ Len(queue) < ChanSize
            /\ queue' = Append(queue, m)
            /\ caller' = [caller EXCEPT ![m] = "in"]
            /\ UNCHANGED <<hold, blocked, timer, runner, msg, fed, settled, pausing, ends>>

\* A send on the closed channel panics; net/http recovers the handler.
SendOnClosed(m) == /\ caller[m] = "sending" /\ closed
                   /\ caller' = [caller EXCEPT ![m] = "lost"]
                   /\ UNCHANGED <<own, ends>>

\* main cancels the context.
Cancel == /\ MayStop /\ ~stopping
          /\ stopping' = TRUE
          /\ UNCHANGED <<caller, own, closed, crashed>>

\* Start, between two updates: return, and close the channel on the way.
BotStop == /\ stopping /\ ~closed /\ ~BotBusy
           /\ closed' = TRUE
           /\ UNCHANGED <<caller, own, stopping, crashed>>
-----------------------------------------------------------------------------
(* sendqueueRunner: a select among the context, the timer and the channel *)

RunnerStop == /\ runner = "select" /\ stopping
              /\ runner' = "stopped"
              /\ UNCHANGED <<caller, queue, hold, blocked, timer, msg, fed, settled, pausing, ends>>

Unblock == /\ runner = "select" /\ timer # "none"
           /\ timer' = "none"
           /\ blocked' = FALSE
           /\ pausing' = (pausing /\ timer # "retry")
           /\ fed' = 0
           /\ runner' = "drain"
           /\ UNCHANGED <<caller, queue, hold, msg, settled, ends>>

\* While blocked, park it; a closed channel yields nil, of which one is kept.
Receive ==
  /\ runner = "select"
  /\ queue # <<>> \/ (closed /\ ~Contains(hold, Nil))
  /\ LET m == IF queue = <<>> THEN Nil ELSE Head(queue)
     IN  IF blocked THEN hold' = Append(hold, m) /\ UNCHANGED <<runner, msg>>
                    ELSE runner' = "wait" /\ msg' = m /\ UNCHANGED hold
  /\ queue' = IF queue = <<>> THEN <<>> ELSE Tail(queue)
  /\ UNCHANGED <<caller, blocked, timer, fed, settled, pausing, ends>>

\* limiter.Wait: our turn, or the context is cancelled and the message dropped.
Wait == /\ runner = "wait"
        /\ IF stopping THEN /\ runner' = "select"
                            /\ settled' = settled \cup ({msg} \ {Nil})
                            /\ msg' = Nil
                       ELSE runner' = "send" /\ UNCHANGED <<settled, msg>>
        /\ UNCHANGED <<caller, queue, hold, blocked, timer, fed, pausing, ends>>

\* bot.Send succeeds, or fails in a way that is not retried.
Settle == /\ runner = "send"
          /\ runner' = "select"
          /\ settled' = settled \cup {msg}
          /\ msg' = Nil
          /\ UNCHANGED <<caller, queue, hold, blocked, timer, fed, pausing, ends>>

\* Mutant of TooMany: the timer is left as it was.
TooManyUnarmed == /\ runner = "send"
                  /\ runner' = "select"
                  /\ hold' = Append(hold, msg)
                  /\ msg' = Nil
                  /\ blocked' = TRUE
                  /\ pausing' = TRUE
                  /\ UNCHANGED <<caller, queue, timer, fed, settled, ends>>

\* Mutant of TooMany: a timer that is armed already is left to run.
TooManyOlder == /\ runner = "send"
                /\ runner' = "select"
                /\ hold' = Append(hold, msg)
                /\ msg' = Nil
                /\ blocked' = TRUE
                /\ timer' = IF timer = "none" THEN "retry" ELSE timer
                /\ pausing' = TRUE
                /\ UNCHANGED <<caller, queue, fed, settled, ends>>

\* "Too Many Requests: retry after n": park it and stop sending for n seconds.
TooMany == /\ runner = "send"
           /\ runner' = "select"
           /\ hold' = Append(hold, msg)
           /\ msg' = Nil
           /\ blocked' = TRUE
           /\ timer' = "retry"
           /\ pausing' = TRUE
           /\ UNCHANGED <<caller, queue, fed, settled, ends>>
-----------------------------------------------------------------------------
(* The loop over holdQ: half a burst goes back to the channel. *)

DrainDone == /\ runner = "drain" /\ hold = <<>>
             /\ runner' = "select"
             /\ UNCHANGED <<caller, queue, hold, blocked, timer, msg, fed, settled, pausing, ends>>

\* A nil fails the type assertion; a send on the closed channel panics.
DrainPanic == /\ runner = "drain" /\ hold # <<>>
              /\ closed \/ Head(hold) = Nil
              /\ crashed' = TRUE
              /\ UNCHANGED <<caller, own, stopping, closed>>

Feedable == runner = "drain" /\ hold # <<>> /\ ~closed

\* Mutant of Feed: after half a burst, the rest waits for the next message.
FeedNoRearm == /\ Feedable /\ Len(queue) < ChanSize
               /\ queue' = Append(queue, Head(hold))
               /\ hold' = Tail(hold)
               /\ fed' = fed + 1
               /\ IF fed + 1 = HalfBurst THEN runner' = "select" ELSE UNCHANGED runner
               /\ UNCHANGED <<caller, blocked, timer, msg, settled, pausing, ends>>

\* Mutant of Feed: break without its label leaves the inner select only.
FeedBreak == /\ Feedable /\ Len(queue) < ChanSize
             /\ queue' = Append(queue, Head(hold))
             /\ hold' = Tail(hold)
             /\ fed' = fed + 1
             /\ IF fed + 1 >= HalfBurst THEN timer' = "burst" ELSE UNCHANGED timer
             /\ UNCHANGED <<caller, blocked, runner, msg, settled, pausing, ends>>

Feed == /\ Feedable /\ Len(queue) < ChanSize
        /\ queue' = Append(queue, Head(hold))
        /\ hold' = Tail(hold)
        /\ fed' = fed + 1
        /\ IF fed + 1 = HalfBurst THEN timer' = "burst" /\ runner' = "select"
                                  ELSE UNCHANGED <<timer, runner>>
        /\ UNCHANGED <<caller, blocked, msg, settled, pausing, ends>>

\* Mutant of FeedFull: the message taken from holdQ is not put back.
FeedFullDrops == /\ Feedable /\ Len(queue) = ChanSize
                 /\ hold' = Tail(hold)
                 /\ blocked' = TRUE
                 /\ timer' = "full"
                 /\ runner' = "select"
                 /\ UNCHANGED <<caller, queue, msg, fed, settled, pausing, ends>>

\* The channel is full: empty it into holdQ, behind what is there.
FeedFull == /\ Feedable /\ Len(queue) = ChanSize
            /\ blocked' = TRUE
            /\ timer' = "full"
            /\ runner' = "select"
            /\ UNCHANGED <<caller, queue, hold, msg, fed, settled, pausing, ends>>

Runner == \/ RunnerStop \/ Unblock \/ Receive \/ Wait \/ Settle \/ TooMany
          \/ DrainDone \/ DrainPanic \/ Feed \/ FeedFull

Next == /\ ~crashed
        /\ \/ \E m \in Msgs : Offer(m) \/ Enter(m) \/ SendOnClosed(m)
           \/ Cancel \/ BotStop \/ Runner

Spec == Init /\ [][Next]_vars

Alive(A) == ~crashed /\ A

\* select picks among its ready cases at random, a channel serves its senders
\* in turn, and Telegram does not answer "retry after" for ever.
Fairness == /\ SF_vars(Alive(Unblock)) /\ SF_vars(Alive(Receive))
            /\ SF_vars(Alive(RunnerStop)) /\ SF_vars(Alive(BotStop))
            /\ SF_vars(Alive(Settle))
            /\ WF_vars(Alive(Wait)) /\ WF_vars(Alive(DrainDone \/ DrainPanic \/ Feed \/ FeedFull))
            /\ \A m \in Msgs : SF_vars(Alive(Enter(m))) /\ WF_vars(Alive(SendOnClosed(m)))

FairSpec == Spec /\ Fairness

\* A burst ends, and the pauses last 6 s, 12 s or what Telegram says, longer than
\* the runner takes to empty the channel: from then on a timer finds it empty.
Prompt == <>[][Unblock => queue = <<>>]_vars

PromptSpec == FairSpec /\ Prompt
-----------------------------------------------------------------------------
(* Properties *)

Flow      == queue \o hold \o <<msg>>
Places(m) == {i \in DOMAIN Flow : Flow[i] = m}

\* A message the channel took is in the channel, in holdQ or in the runner's
\* hands, once, until it is sent or given up on; then it is nowhere.
EachMessageOnce ==
  \A m \in Msgs : IF caller[m] = "in" /\ m \notin settled THEN \E i \in DOMAIN Flow : Places(m) = {i}
                                                       ELSE Places(m) = {}

\* The runner never goes back to its select with messages parked, or parking
\* them, and no timer to come back for them.
ParkedMeansArmed ==
  runner \in {"select", "wait", "send"} /\ (blocked \/ hold # <<>>) => timer # "none"

\* Nothing is sent before the pause Telegram asked for is over, whatever timers
\* were armed before it, for half a burst or a full channel, and whatever the
\* channel fills with meanwhile.
PausesAreKept == pausing => runner \notin {"wait", "send"}

\* "all the blocking to happen on this goprocess" (sendq.go:27), and not for
\* ever: again and again every message offered so far is in, and sent or given
\* up on.
EveryMessageSettled ==
  []<>(stopping \/ {m \in Msgs : caller[m] # "idle"} \subseteq settled)

\* "shutdown RISC, Telegram, V, Rocks, and Firebase by canceling the context"
\* (cmd/wasabee/main.go:213): Start returns.
CancelStopsTelegram == stopping ~> closed
=============================================================================
