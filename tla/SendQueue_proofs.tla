-------------------------- MODULE SendQueue_proofs --------------------------
(***************************************************************************)
(* Theorems about SendQueue, for any burst and any sizes: the type         *)
(* invariant, ParkedMeansArmed, PausesAreKept and EachMessageOnce.  The    *)
(* second and third need to know that the runner is blocked in its select  *)
(* only, and that the timer armed during a pause is the one the pause has  *)
(* armed (BlockInv); the types need to know that the nil of the closed      *)
(* channel goes no further than the limiter, which refuses it because the  *)
(* context is cancelled (NilInv); the last is kept as OnceInv says, which  *)
(* also needs the runner's hands to be empty when it takes a message.      *)
(***************************************************************************)
EXTENDS SendQueue, SequenceTheorems, TLAPS

\* Parking is switched on from the select or on the way back to it; it is on
\* until the timer of the pause fires, which nobody replaces meanwhile.
BlockInv == /\ blocked => runner \in {"select", "stopped"}
            /\ pausing => blocked /\ timer = "retry"

\* The loop over holdQ ends with half a burst.
FedInv == runner = "drain" => fed < HalfBurst

\* A nil is seen only after the channel is closed, by then the context is
\* cancelled, and it is never sent.
NilInv == /\ closed => stopping
          /\ ~closed => hold \in Seq(Msgs)
          /\ runner = "wait" /\ msg = Nil => closed
          /\ runner = "send" => msg \in Msgs

IInv == TypeOK /\ BlockInv /\ FedInv /\ NilInv /\ ParkedMeansArmed

\* EachMessageOnce as it is kept: no message is twice in the channel or in
\* holdQ, none is in two of the channel, holdQ and the runner's hands, and
\* those in one of them are those taken and not yet settled.
Has(s, m) == \E i \in 1 .. Len(s) : s[i] = m
Once(s)   == \A i, j \in 1 .. Len(s) : s[i] = s[j] /\ s[i] # Nil => i = j
Apart     == /\ Once(queue) /\ Once(hold)
             /\ \A m \in Msgs : ~(Has(queue, m) /\ Has(hold, m))
             /\ \A m \in Msgs : msg = m => ~Has(queue, m) /\ ~Has(hold, m)
Held(m)   == Has(queue, m) \/ Has(hold, m) \/ msg = m

OnceInv == /\ Apart
           /\ \A m \in Msgs : (Held(m) <=> caller[m] = "in" /\ m \notin settled)
           /\ \A m \in settled : caller[m] = "in"
           /\ runner \notin {"wait", "send"} => msg = Nil
-----------------------------------------------------------------------------
LEMMA Mover ==
  ASSUME TypeOK, NEW m \in Msgs, NEW l \in {"idle", "sending", "in", "lost"}
  PROVE  [caller EXCEPT ![m] = l] \in [Msgs -> {"idle", "sending", "in", "lost"}]
BY DEF TypeOK
-----------------------------------------------------------------------------
(* The invariant *)

LEMMA InitInv == Init => IInv
<1> SUFFICES ASSUME Init PROVE IInv
  OBVIOUS
<1>1. /\ queue \in Seq(Msgs) /\ Len(queue) <= ChanSize
      /\ hold \in Seq(Msgs \cup {Nil}) /\ hold \in Seq(Msgs)
  BY EmptySeq, SizeType DEF Init
<1>2. TypeOK
  <2>1. caller \in [Msgs -> {"idle", "sending", "in", "lost"}]
    BY DEF Init
  <2>2. msg \in Msgs \cup {Nil} /\ settled \subseteq Msgs /\ fed \in 0 .. HalfBurst
    BY SizeType DEF Init
  <2>3. /\ {blocked, pausing, stopping, closed, crashed} \subseteq BOOLEAN
        /\ timer \in {"none", "burst", "full", "retry"}
        /\ runner \in {"select", "wait", "send", "drain", "stopped"}
    BY DEF Init
  <2> QED BY <1>1, <2>1, <2>2, <2>3 DEF TypeOK
<1>3. BlockInv /\ FedInv /\ ParkedMeansArmed
  BY SizeType DEF Init, BlockInv, FedInv, ParkedMeansArmed
<1>4. NilInv
  BY <1>1 DEF Init, NilInv
<1> QED BY <1>2, <1>3, <1>4 DEF IInv

\* Senders, the bot's loop and main leave the runner alone; only Enter
\* touches what it reads.
LEMMA SendersInv ==
  ASSUME IInv, NEW m \in Msgs, Offer(m) \/ Enter(m) \/ SendOnClosed(m)
  PROVE  IInv'
<1> USE DEF IInv, BlockInv, FedInv, NilInv, ParkedMeansArmed, own, ends
<1>1. CASE Offer(m)
  BY <1>1, Mover DEF Offer, TypeOK
<1>2. CASE Enter(m)
  <2>1. queue' \in Seq(Msgs) /\ Len(queue') <= ChanSize
    BY <1>2, AppendProperties, SizeType DEF Enter, TypeOK
  <2>2. caller' \in [Msgs -> {"idle", "sending", "in", "lost"}]
    BY <1>2, Mover DEF Enter
  <2> QED BY <1>2, <2>1, <2>2 DEF Enter, TypeOK
<1>3. CASE SendOnClosed(m)
  BY <1>3, Mover DEF SendOnClosed, TypeOK
<1> QED BY <1>1, <1>2, <1>3

LEMMA ShutdownInv ==
  ASSUME IInv, Cancel \/ BotStop \/ RunnerStop
  PROVE  IInv'
<1> USE DEF IInv, TypeOK, BlockInv, FedInv, NilInv, ParkedMeansArmed, own
<1>1. CASE Cancel
  BY <1>1 DEF Cancel
<1>2. CASE BotStop
  BY <1>2 DEF BotStop
<1>3. CASE RunnerStop
  BY <1>3 DEF RunnerStop, ends
<1> QED BY <1>1, <1>2, <1>3

LEMMA ReceiveInv ==
  ASSUME IInv, Receive
  PROVE  IInv'
<1> DEFINE m == IF queue = <<>> THEN Nil ELSE Head(queue)
<1>1. /\ m \in Msgs \cup {Nil}
      /\ m = Nil => closed
      /\ m # Nil => m \in Msgs
  BY HeadTailProperties, LenProperties, MsgsType DEF IInv, TypeOK, Receive
<1>2. queue' \in Seq(Msgs) /\ Len(queue') <= ChanSize
  <2>1. CASE queue = <<>>
    BY <2>1, SizeType DEF Receive, IInv, TypeOK
  <2>2. CASE queue # <<>>
    BY <2>2, HeadTailProperties, LenProperties, SizeType DEF Receive, IInv, TypeOK
  <2> QED BY <2>1, <2>2
<1>3. CASE blocked
  <2>1. hold' = Append(hold, m) /\ UNCHANGED <<runner, msg>>
    BY <1>3 DEF Receive
  <2>2. hold' \in Seq(Msgs \cup {Nil})
    BY <1>1, <2>1, AppendProperties DEF IInv, TypeOK
  <2>3. ~closed => hold' \in Seq(Msgs)
    BY <1>1, <2>1, AppendProperties DEF IInv, NilInv
  <2> QED BY <1>2, <1>3, <2>1, <2>2, <2>3
          DEF IInv, TypeOK, BlockInv, FedInv, NilInv, ParkedMeansArmed, ends, Receive
<1>4. CASE ~blocked
  <2>1. runner' = "wait" /\ msg' = m /\ UNCHANGED hold
    BY <1>4 DEF Receive
  <2> HIDE DEF m
  <2> QED BY <1>1, <1>2, <1>4, <2>1
          DEF IInv, TypeOK, BlockInv, FedInv, NilInv, ParkedMeansArmed, ends, Receive
<1> QED BY <1>3, <1>4

\* The limiter and bot.Send.
LEMMA SendInv ==
  ASSUME IInv, Unblock \/ Wait \/ Settle \/ TooMany
  PROVE  IInv'
<1> USE DEF IInv, BlockInv, FedInv, NilInv, ParkedMeansArmed, ends
<1>1. CASE Unblock
  <2>1. fed' \in 0 .. HalfBurst /\ fed' < HalfBurst
    BY <1>1, SizeType DEF Unblock
  <2> QED BY <1>1, <2>1 DEF Unblock, TypeOK
<1>2. CASE Wait
  BY <1>2 DEF Wait, TypeOK
<1>3. CASE Settle
  BY <1>3 DEF Settle, TypeOK
<1>4. CASE TooMany
  <2>1. hold' \in Seq(Msgs \cup {Nil}) /\ (~closed => hold' \in Seq(Msgs))
    BY <1>4, AppendProperties DEF TooMany, TypeOK
  <2> QED BY <1>4, <2>1 DEF TooMany, TypeOK
<1> QED BY <1>1, <1>2, <1>3, <1>4

\* The loop over holdQ.
LEMMA DrainInv ==
  ASSUME IInv, DrainDone \/ DrainPanic \/ Feed \/ FeedFull
  PROVE  IInv'
<1> USE DEF IInv, BlockInv, FedInv, NilInv, ParkedMeansArmed, ends
<1>1. CASE DrainDone
  BY <1>1 DEF DrainDone, TypeOK
<1>2. CASE DrainPanic
  BY <1>2 DEF DrainPanic, TypeOK, own
<1>3. CASE Feed
  <2>1. hold \in Seq(Msgs) /\ hold # <<>> /\ ~closed /\ runner = "drain"
    BY <1>3 DEF Feed, Feedable
  <2>2. /\ Head(hold) \in Msgs
        /\ Tail(hold) \in Seq(Msgs)
    BY <2>1, HeadTailProperties, LenProperties
  <2>3. hold' \in Seq(Msgs) /\ hold' \in Seq(Msgs \cup {Nil})
    BY <1>3, <2>2, SeqMonotonic DEF Feed
  <2>4. queue' \in Seq(Msgs) /\ Len(queue') <= ChanSize
    BY <1>3, <2>2, AppendProperties, SizeType DEF Feed, TypeOK
  <2>5. fed' \in 0 .. HalfBurst /\ (fed + 1 # HalfBurst => fed' < HalfBurst)
    BY <1>3, <2>1, SizeType DEF Feed, TypeOK
  <2> QED BY <1>3, <2>1, <2>3, <2>4, <2>5 DEF Feed, TypeOK
<1>4. CASE FeedFull
  BY <1>4 DEF FeedFull, Feedable, TypeOK
<1> QED BY <1>1, <1>2, <1>3, <1>4

LEMMA StepInv == IInv /\ [Next]_vars => IInv'
<1> SUFFICES ASSUME IInv, [Next]_vars PROVE IInv'
  OBVIOUS
<1>1. CASE Next
  <2>1. CASE \E m \in Msgs : Offer(m) \/ Enter(m) \/ SendOnClosed(m)
    BY <2>1, SendersInv
  <2>2. CASE Cancel \/ BotStop \/ RunnerStop
    BY <2>2, ShutdownInv
  <2>3. CASE Receive
    BY <2>3, ReceiveInv
  <2>4. CASE Unblock \/ Wait \/ Settle \/ TooMany
    BY <2>4, SendInv
  <2>5. CASE DrainDone \/ DrainPanic \/ Feed \/ FeedFull
    BY <2>5, DrainInv
  <2> QED BY <1>1, <2>1, <2>2, <2>3, <2>4, <2>5 DEF Next, Runner
<1>2. CASE UNCHANGED vars
  BY <1>2 DEF vars, IInv, TypeOK, BlockInv, FedInv, NilInv, ParkedMeansArmed
<1> QED BY <1>1, <1>2
-----------------------------------------------------------------------------
(* Each message once *)

\* What a sequence holds with one element more, and without its first.
LEMMA HasAppend ==
  ASSUME NEW S, NEW s \in Seq(S), NEW e \in S
  PROVE  /\ \A m \in S : Has(Append(s, e), m) <=> Has(s, m) \/ m = e
         /\ Once(s) /\ (Has(s, e) => e = Nil) => Once(Append(s, e))
<1>1. Len(s) \in Nat
  BY LenProperties
<1>2. /\ Len(Append(s, e)) = Len(s) + 1
      /\ \A i \in 1 .. Len(s) : Append(s, e)[i] = s[i]
      /\ Append(s, e)[Len(s) + 1] = e
  BY AppendProperties
<1>3. \A i \in 1 .. Len(s) + 1 : i \in 1 .. Len(s) \/ i = Len(s) + 1
  BY <1>1
<1>4. \A i \in 1 .. Len(s) : i \in 1 .. Len(s) + 1
  BY <1>1
<1>5. Len(s) + 1 \in 1 .. Len(s) + 1
  BY <1>1
<1>6. \A m \in S : Has(Append(s, e), m) <=> Has(s, m) \/ m = e
  BY <1>2, <1>3, <1>4, <1>5 DEF Has
<1>7. ASSUME Once(s), Has(s, e) => e = Nil
      PROVE  Once(Append(s, e))
  BY <1>2, <1>3, <1>4, <1>5, <1>7 DEF Has, Once
<1> QED BY <1>6, <1>7

LEMMA HasTail ==
  ASSUME NEW S, NEW s \in Seq(S), s # <<>>, Once(s)
  PROVE  /\ Has(s, Head(s))
         /\ \A m \in S : Has(s, m) => m = Head(s) \/ Has(Tail(s), m)
         /\ \A m \in S : m # Nil /\ Has(Tail(s), m) => Has(s, m) /\ m # Head(s)
         /\ Once(Tail(s))
<1>1. Len(s) \in Nat /\ Len(s) # 0 /\ Head(s) = s[1]
  BY LenProperties, EmptySeq
<1>2. /\ Len(Tail(s)) = Len(s) - 1
      /\ \A i \in 1 .. Len(Tail(s)) : Tail(s)[i] = s[i + 1]
  BY HeadTailProperties
<1>3. 1 \in 1 .. Len(s) /\ \A i \in 1 .. Len(s) - 1 : i + 1 \in 1 .. Len(s) /\ i + 1 # 1
  BY <1>1
<1>4. \A i \in 1 .. Len(s) : i = 1 \/ (i - 1 \in 1 .. Len(s) - 1 /\ (i - 1) + 1 = i)
  BY <1>1
<1>5. Has(s, Head(s))
  BY <1>1, <1>3 DEF Has
<1>6. \A m \in S : Has(s, m) => m = Head(s) \/ Has(Tail(s), m)
  BY <1>1, <1>2, <1>4 DEF Has
<1>7. \A m \in S : m # Nil /\ Has(Tail(s), m) => Has(s, m) /\ m # Head(s)
  BY <1>1, <1>2, <1>3 DEF Has, Once
<1>8. ASSUME NEW i \in 1 .. Len(s) - 1, NEW j \in 1 .. Len(s) - 1, i + 1 = j + 1
      PROVE  i = j
  BY <1>1, <1>8
<1>9. Once(Tail(s))
  BY <1>2, <1>3, <1>8 DEF Once
<1> QED BY <1>5, <1>6, <1>7, <1>9

LEMMA HasNone == \A m : ~Has(<<>>, m)
BY DEF Has

LEMMA InitOnce == Init => OnceInv
<1> SUFFICES ASSUME Init PROVE OnceInv
  OBVIOUS
<1>1. Once(<<>>)
  BY DEF Once
<1>2. Apart /\ \A m \in Msgs : ~Held(m)
  BY <1>1, HasNone, MsgsType DEF Init, Apart, Held
<1>3. \A m \in Msgs : ~(caller[m] = "in" /\ m \notin settled)
  BY DEF Init
<1>4. \A m \in Msgs : (Held(m) <=> caller[m] = "in" /\ m \notin settled)
  BY <1>2, <1>3
<1> QED BY <1>2, <1>4 DEF Init, OnceInv

\* A step that leaves the channel, holdQ, the runner and what is settled alone.
LEMMA StillOnce ==
  ASSUME OnceInv, UNCHANGED <<queue, hold, msg, settled>>,
         runner' \notin {"wait", "send"} => runner \notin {"wait", "send"},
         \A m \in Msgs \cup settled : caller'[m] = "in" <=> caller[m] = "in"
  PROVE  OnceInv'
<1>1. Apart' /\ \A m \in Msgs : (Held(m)' <=> Held(m))
  BY DEF OnceInv, Apart, Held
<1>2. \A m \in Msgs : (Held(m)' <=> caller'[m] = "in" /\ m \notin settled')
  BY <1>1 DEF OnceInv
<1> QED BY <1>1, <1>2 DEF OnceInv

LEMMA EnterOnce ==
  ASSUME TypeOK, OnceInv, NEW m \in Msgs, Enter(m)
  PROVE  OnceInv'
<1>1. ~Held(m) /\ m \notin settled
  BY DEF OnceInv, Enter
<1>2. queue' = Append(queue, m) /\ UNCHANGED <<hold, msg, settled, runner>>
  BY DEF Enter
<1>3. Once(queue') /\ \A n \in Msgs : Has(queue', n) <=> Has(queue, n) \/ n = m
  BY <1>1, <1>2, HasAppend DEF Held, OnceInv, Apart, TypeOK
<1>4. Apart' /\ \A n \in Msgs : Held(n)' <=> Held(n) \/ n = m
  BY <1>1, <1>2, <1>3 DEF OnceInv, Apart, Held
<1>5. /\ caller'[m] = "in"
      /\ \A n \in Msgs : n # m => caller'[n] = caller[n]
  BY DEF Enter, TypeOK
<1>6. \A n \in Msgs : Held(n)' <=> caller'[n] = "in" /\ n \notin settled'
  BY <1>1, <1>2, <1>4, <1>5 DEF OnceInv
<1> QED BY <1>2, <1>4, <1>5, <1>6 DEF OnceInv, TypeOK

\* A step of the runner that moves a message, and settles none.
LEMMA MoveOnce ==
  ASSUME OnceInv, UNCHANGED <<caller, settled>>, Apart',
         \A n \in Msgs : Held(n)' <=> Held(n),
         runner' \notin {"wait", "send"} => msg' = Nil
  PROVE  OnceInv'
BY DEF OnceInv

LEMMA ReceiveOnce ==
  ASSUME IInv, OnceInv, Receive
  PROVE  OnceInv'
<1> DEFINE m == IF queue = <<>> THEN Nil ELSE Head(queue)
<1>1. msg = Nil /\ UNCHANGED <<caller, settled>>
  BY DEF OnceInv, Receive
<1>2. m \in Msgs \cup {Nil} /\ (queue # <<>> => m \in Msgs)
  BY HeadTailProperties, LenProperties DEF IInv, TypeOK
<1>3. /\ Once(queue')
      /\ m # Nil => Has(queue, m)
      /\ ~Has(queue', m) \/ m = Nil
      /\ \A n \in Msgs : Has(queue, n) <=> Has(queue', n) \/ n = m
      /\ \A n \in Msgs : Has(queue', n) => n # m
  <2>1. CASE queue = <<>>
    BY <2>1, HasNone, MsgsType DEF Receive, OnceInv, Apart
  <2>2. CASE queue # <<>>
    <3>1. queue' = Tail(queue) /\ m = Head(queue) /\ m \in Msgs /\ m # Nil
      BY <1>2, <2>2, MsgsType DEF Receive
    <3>2. /\ Has(queue, Head(queue))
          /\ \A n \in Msgs : Has(queue, n) => n = Head(queue) \/ Has(Tail(queue), n)
          /\ \A n \in Msgs : n # Nil /\ Has(Tail(queue), n) => Has(queue, n) /\ n # Head(queue)
          /\ Once(Tail(queue))
      BY <2>2, HasTail DEF OnceInv, Apart, IInv, TypeOK
    <3> HIDE DEF m
    <3> QED BY <3>1, <3>2, MsgsType
  <2> QED BY <2>1, <2>2
<1>4. blocked => hold' = Append(hold, m) /\ UNCHANGED <<runner, msg>>
  BY DEF Receive
<1>5. ~blocked => runner' = "wait" /\ msg' = m /\ UNCHANGED hold
  BY DEF Receive
<1> HIDE DEF m
<1>6. m \in Msgs => ~Has(hold, m)
  BY <1>3, MsgsType DEF OnceInv, Apart
<1>7. CASE blocked
  <2>1. hold \in Seq(Msgs \cup {Nil})
    BY DEF IInv, TypeOK
  <2>2. /\ Once(hold')
        /\ \A n \in Msgs : Has(hold', n) <=> Has(hold, n) \/ n = m
    <3>1. Once(hold) /\ (Has(hold, m) => m = Nil)
      BY <1>2, <1>6 DEF OnceInv, Apart
    <3>2. /\ \A n \in Msgs \cup {Nil} : Has(Append(hold, m), n) <=> Has(hold, n) \/ n = m
          /\ Once(hold) /\ (Has(hold, m) => m = Nil) => Once(Append(hold, m))
      BY <1>2, <2>1, HasAppend
    <3> QED BY <1>4, <1>7, <3>1, <3>2
  <2>3. Apart' /\ \A n \in Msgs : Held(n)' <=> Held(n)
    BY <1>1, <1>2, <1>3, <1>4, <1>7, <2>2, MsgsType DEF OnceInv, Apart, Held
  <2> QED BY <1>1, <1>4, <1>7, <2>3, MoveOnce
<1>8. CASE ~blocked
  <2>1. Apart' /\ \A n \in Msgs : Held(n)' <=> Held(n)
    BY <1>1, <1>2, <1>3, <1>5, <1>6, <1>8, MsgsType DEF OnceInv, Apart, Held
  <2> QED BY <1>1, <1>5, <1>8, <2>1, MoveOnce
<1> QED BY <1>7, <1>8

LEMMA SettleOnce ==
  ASSUME IInv, OnceInv, Wait \/ Settle
  PROVE  OnceInv'
<1>1. CASE Wait /\ ~stopping
  BY <1>1, StillOnce DEF Wait
<1>2. CASE (Wait /\ stopping) \/ Settle
  <2>1. /\ runner' = "select" /\ msg' = Nil /\ UNCHANGED <<caller, queue, hold>>
        /\ \A n \in Msgs : n \in settled' <=> n \in settled \/ n = msg
        /\ settled' \subseteq Msgs
    BY <1>2, MsgsType DEF Wait, Settle, IInv, TypeOK, NilInv
  <2>2. Apart' /\ \A n \in Msgs : Held(n)' <=> Held(n) /\ n # msg
    BY <2>1, MsgsType DEF OnceInv, Apart, Held
  <2>3. \A n \in Msgs : n = msg => caller[n] = "in"
    BY DEF OnceInv, Held
  <2> QED BY <2>1, <2>2, <2>3 DEF OnceInv
<1> QED BY <1>1, <1>2

LEMMA TooManyOnce ==
  ASSUME IInv, OnceInv, TooMany
  PROVE  OnceInv'
<1>1. /\ hold' = Append(hold, msg) /\ msg' = Nil /\ msg \in Msgs
      /\ runner' = "select" /\ UNCHANGED <<caller, queue, settled>>
  BY DEF TooMany, IInv, NilInv
<1>2. ~Has(hold, msg) /\ ~Has(queue, msg)
  BY <1>1 DEF OnceInv, Apart
<1>3. /\ Once(hold')
      /\ \A n \in Msgs : Has(hold', n) <=> Has(hold, n) \/ n = msg
  BY <1>1, <1>2, HasAppend DEF OnceInv, Apart, IInv, TypeOK
<1>4. Apart' /\ \A n \in Msgs : Held(n)' <=> Held(n)
  BY <1>1, <1>2, <1>3, MsgsType DEF OnceInv, Apart, Held
<1> QED BY <1>1, <1>4, MoveOnce

LEMMA FeedOnce ==
  ASSUME IInv, OnceInv, Feed
  PROVE  OnceInv'
<1>1. /\ hold \in Seq(Msgs) /\ hold # <<>>
      /\ queue' = Append(queue, Head(hold)) /\ hold' = Tail(hold)
      /\ runner' \in {"select", "drain"} /\ msg = Nil
      /\ UNCHANGED <<caller, msg, settled>>
  BY DEF Feed, Feedable, IInv, NilInv, OnceInv
<1>2. Head(hold) \in Msgs /\ queue \in Seq(Msgs)
  BY <1>1, HeadTailProperties DEF IInv, TypeOK
<1>3. /\ Has(hold, Head(hold))
      /\ \A n \in Msgs : Has(hold, n) => n = Head(hold) \/ Has(hold', n)
      /\ \A n \in Msgs : n # Nil /\ Has(hold', n) => Has(hold, n) /\ n # Head(hold)
      /\ Once(hold')
  BY <1>1, HasTail DEF OnceInv, Apart
<1>4. ~Has(queue, Head(hold))
  BY <1>2, <1>3 DEF OnceInv, Apart
<1>5. /\ Once(queue')
      /\ \A n \in Msgs : Has(queue', n) <=> Has(queue, n) \/ n = Head(hold)
  BY <1>1, <1>2, <1>4, HasAppend DEF OnceInv, Apart
<1>6. Apart' /\ \A n \in Msgs : Held(n)' <=> Held(n)
  BY <1>1, <1>2, <1>3, <1>5, MsgsType DEF OnceInv, Apart, Held
<1> QED BY <1>1, <1>6, MoveOnce

LEMMA StepOnce == IInv /\ OnceInv /\ [Next]_vars => OnceInv'
<1> SUFFICES ASSUME IInv, OnceInv, [Next]_vars PROVE OnceInv'
  OBVIOUS
<1> USE DEF own, ends
<1>1. settled \subseteq Msgs
  BY DEF IInv, TypeOK
<1>2. ASSUME NEW m \in Msgs, Offer(m) \/ SendOnClosed(m)
      PROVE  OnceInv'
  <2>1. \A n \in Msgs : caller'[n] = "in" <=> caller[n] = "in"
    BY <1>2 DEF Offer, SendOnClosed, IInv, TypeOK
  <2> QED BY <1>1, <1>2, <2>1, StillOnce DEF Offer, SendOnClosed
<1>3. ASSUME NEW m \in Msgs, Enter(m)
      PROVE  OnceInv'
  BY <1>3, EnterOnce DEF IInv
<1>4. CASE Cancel \/ BotStop \/ RunnerStop \/ Unblock \/ DrainDone \/ DrainPanic \/ FeedFull
  <2>1. UNCHANGED <<caller, queue, hold, msg, settled>>
    BY <1>4 DEF Cancel, BotStop, RunnerStop, Unblock, DrainDone, DrainPanic, FeedFull
  <2>2. runner' \notin {"wait", "send"} => runner \notin {"wait", "send"}
    BY <1>4 DEF Cancel, BotStop, RunnerStop, Unblock, DrainDone, DrainPanic, FeedFull, Feedable
  <2> QED BY <1>1, <2>1, <2>2, StillOnce
<1>5. CASE UNCHANGED vars
  BY <1>1, <1>5, StillOnce DEF vars
<1>6. CASE Receive \/ Wait \/ Settle \/ TooMany \/ Feed
  BY <1>6, ReceiveOnce, SettleOnce, TooManyOnce, FeedOnce
<1> QED BY <1>2, <1>3, <1>4, <1>5, <1>6 DEF Next, Runner

\* Where the message is in the flow: in the channel's part of it, in holdQ's, or
\* at the end.
LEMMA OneFlow ==
  ASSUME TypeOK, OnceInv
  PROVE  EachMessageOnce
<1> DEFINE S == Msgs \cup {Nil}
           p == Len(queue)
           r == Len(hold)
<1>1. queue \in Seq(S) /\ hold \in Seq(S) /\ msg \in S
  BY SeqMonotonic DEF TypeOK
<1>2. p \in Nat /\ r \in Nat /\ <<msg>> \in Seq(S) /\ Len(<<msg>>) = 1 /\ <<msg>>[1] = msg
  BY <1>1, LenProperties
<1>3. /\ queue \o hold \in Seq(S) /\ Len(queue \o hold) = p + r
      /\ \A i \in 1 .. p + r : (queue \o hold)[i] = IF i <= p THEN queue[i] ELSE hold[i - p]
  BY <1>1, ConcatProperties
<1>4. /\ Flow \in Seq(S) /\ Len(Flow) = p + r + 1
      /\ \A i \in 1 .. p + r + 1 : Flow[i] = IF i <= p + r THEN (queue \o hold)[i] ELSE <<msg>>[i - (p + r)]
  BY <1>1, <1>2, <1>3, ConcatProperties DEF Flow
<1>5. DOMAIN Flow = 1 .. p + r + 1
  BY <1>4, LenProperties
<1> HIDE DEF p, r
<1>6. ASSUME NEW i \in 1 .. p
      PROVE  i \in DOMAIN Flow /\ Flow[i] = queue[i]
  <2>1. i \in 1 .. p + r /\ i \in 1 .. p + r + 1 /\ i <= p /\ i <= p + r
    BY <1>2, <1>6
  <2> QED BY <2>1, <1>3, <1>4, <1>5
<1>7. ASSUME NEW i \in 1 .. r
      PROVE  p + i \in DOMAIN Flow /\ Flow[p + i] = hold[i]
  <2>1. /\ p + i \in 1 .. p + r /\ p + i \in 1 .. p + r + 1
        /\ ~(p + i <= p) /\ p + i <= p + r /\ (p + i) - p = i
    BY <1>2, <1>7
  <2> QED BY <2>1, <1>3, <1>4, <1>5
<1>8. p + r + 1 \in DOMAIN Flow /\ Flow[p + r + 1] = msg
  <2>1. /\ p + r + 1 \in 1 .. p + r + 1 /\ ~(p + r + 1 <= p + r)
        /\ (p + r + 1) - (p + r) = 1
    BY <1>2
  <2> QED BY <1>2, <1>4, <1>5, <2>1
<1>9. \A i \in DOMAIN Flow : i \in 1 .. p \/ (i - p \in 1 .. r /\ p + (i - p) = i) \/ i = p + r + 1
  BY <1>2, <1>5
<1>10. ASSUME NEW m \in Msgs
       PROVE  IF caller[m] = "in" /\ m \notin settled THEN \E i \in DOMAIN Flow : Places(m) = {i}
                                                       ELSE Places(m) = {}
  <2>1. CASE ~Held(m)
    <3>1. /\ \A i \in 1 .. p : queue[i] # m
          /\ \A i \in 1 .. r : hold[i] # m
          /\ msg # m
      BY <2>1 DEF Held, Has, p, r
    <3>2. Places(m) = {}
      BY <1>6, <1>7, <1>8, <1>9, <3>1 DEF Places
    <3> QED BY <2>1, <3>2 DEF OnceInv
  <2>2. CASE Held(m)
    <3>1. m # Nil
      BY MsgsType
    <3>2. /\ \A i, j \in 1 .. p : queue[i] = m /\ queue[j] = m => i = j
          /\ \A i, j \in 1 .. r : hold[i] = m /\ hold[j] = m => i = j
          /\ \A i \in 1 .. p, j \in 1 .. r : ~(queue[i] = m /\ hold[j] = m)
          /\ \A i \in 1 .. p : ~(queue[i] = m /\ msg = m)
          /\ \A i \in 1 .. r : ~(hold[i] = m /\ msg = m)
      BY <3>1 DEF OnceInv, Apart, Once, Has, p, r
    <3>3. \E i \in DOMAIN Flow : Flow[i] = m
      BY <1>6, <1>7, <1>8, <2>2 DEF Held, Has, p, r
    <3>4. ASSUME NEW i \in DOMAIN Flow, NEW j \in DOMAIN Flow, Flow[i] = m, Flow[j] = m
          PROVE  i = j
      BY <1>2, <1>6, <1>7, <1>8, <1>9, <3>2, <3>4
    <3>5. \E i \in DOMAIN Flow : Places(m) = {i}
      BY <3>3, <3>4 DEF Places
    <3> QED BY <2>2, <3>5 DEF OnceInv
  <2> QED BY <2>1, <2>2
<1> QED BY <1>10 DEF EachMessageOnce
-----------------------------------------------------------------------------
(* Theorems *)

\* The invariant above holds in every state of every burst.
THEOREM Invariance == Spec => []IInv
BY InitInv, StepInv, PTL DEF Spec

\* Every variable keeps its type; in particular no nil is ever sent and the
\* loop over holdQ feeds back at most half a burst.
THEOREM TypeCorrect == Spec => []TypeOK
<1>1. IInv => TypeOK
  BY DEF IInv
<1> QED BY <1>1, Invariance, PTL

\* Whatever Telegram answers and whenever the context is cancelled, the
\* runner is never in or near its select with messages parked and no timer.
THEOREM NothingParkedForGood == Spec => []ParkedMeansArmed
<1>1. IInv => ParkedMeansArmed
  BY DEF IInv
<1> QED BY <1>1, Invariance, PTL

\* From Telegram's "retry after" until the pause has run out nothing is sent: no
\* timer armed before it, and no full channel, ends it.
THEOREM PausesKept == Spec => []PausesAreKept
<1>1. IInv => PausesAreKept
  BY DEF IInv, BlockInv, PausesAreKept
<1> QED BY <1>1, Invariance, PTL

\* From the moment the channel takes a message to the moment it is sent or given
\* up on it is in one place, whatever is parked, fed back or stopped meanwhile.
THEOREM OncePlaced == Spec => []EachMessageOnce
<1>1. IInv /\ OnceInv => EachMessageOnce
  BY OneFlow DEF IInv
<1>2. Spec => []OnceInv
  BY InitOnce, StepOnce, Invariance, PTL DEF Spec
<1> QED BY <1>1, <1>2, Invariance, PTL
=============================================================================
