---------------------------- MODULE MpscChannel ----------------------------
(***************************************************************************)
(* The bounded multi-producer channel of the futures crate                 *)
(* (futures::channel::mpsc), as far as rclrust uses it: channel(10),       *)
(* Sender::clone, Sender::try_send, Receiver::try_next and Receiver::next, *)
(* and dropping either end.  rclrust has two kinds of these channels, from *)
(* a Node to its Executor and from an invoker to a worker task.            *)
(*                                                                         *)
(* The capacity of a futures channel is not a plain bound on its length:   *)
(* every sender owns one slot besides the shared buffer.  A message that   *)
(* makes the queue longer than the buffer is accepted, and its sender is   *)
(* parked; a parked sender's next try_send is refused as full.  Each       *)
(* message taken out unparks the sender that was parked first.             *)
(*                                                                         *)
(* A channel is a record: queue holds the messages that were accepted and  *)
(* not yet received, parked the parked senders in the order they parked,   *)
(* open tells whether the receiver exists.                                 *)
(***************************************************************************)
EXTENDS Naturals, Sequences

Channels(Messages, Senders) ==
  [queue: Seq(Messages), parked: Seq(Senders), open: BOOLEAN]

EmptyChannel == [queue |-> <<>>, parked |-> <<>>, open |-> TRUE]

\* try_send of sender s returns Err(e) with e.is_full().
IsFull(ch, s) == \E i \in DOMAIN ch.parked : ch.parked[i] = s

\* try_send returns Err(e) with e.is_disconnected().
IsDisconnected(ch) == ~ch.open

\* try_send of sender s returns Ok(()).
Accepts(ch, s) == ch.open /\ ~IsFull(ch, s)

---------------------------------------------------------------------------
\* An accepted message: the sender is parked if the queue outgrew the buffer.
Push(ch, buffer, s, m) ==
  [ch EXCEPT !.queue = Append(@, m),
             !.parked = IF Len(ch.queue) < buffer THEN @ ELSE Append(@, s)]

\* The receiver takes the oldest message and unparks one sender.
Pop(ch) ==
  [ch EXCEPT !.queue = Tail(@), !.parked = IF @ = <<>> THEN @ ELSE Tail(@)]

\* The receiver is dropped: what is queued is lost and every sender unparked.
Close(ch) == [queue |-> <<>>, parked |-> <<>>, open |-> FALSE]

---------------------------------------------------------------------------
(***************************************************************************)
(* What the channel keeps: the messages beyond the buffer are exactly the  *)
(* ones whose senders are parked, and no sender is parked twice.  So with  *)
(* n senders at most buffer + n messages are ever queued, and a sender is  *)
(* refused only while more than buffer messages are queued.                *)
(***************************************************************************)
WithinCapacity(ch, buffer) ==
  /\ \A i, j \in DOMAIN ch.parked : ch.parked[i] = ch.parked[j] => i = j
  /\ IF ch.parked = <<>>
     THEN Len(ch.queue) <= buffer
     ELSE Len(ch.queue) = buffer + Len(ch.parked)
============================================================================
