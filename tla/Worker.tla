------------------------------- MODULE Worker -------------------------------
(***************************************************************************)
(* internal/worker.rs: a ReceiveWorker owns the sending end of a channel   *)
(* and a Tokio task that runs a user callback on every message.  It is     *)
(* shared by Subscription, Timer, Client and Service.  This module defines *)
(* the state of one worker as a record and what each operation does to it; *)
(* ReceiveWorker and Executor are the state machines built from it.        *)
(*                                                                         *)
(*   ch     the channel; its senders are the ReceiveWorker itself          *)
(*          ("owner") and the clone that the invoker holds ("invoker")     *)
(*   owner  the ReceiveWorker has not been dropped                         *)
(*   task   "idle"      suspended in rx.next().await                       *)
(*          "handling"  inside the callback                                *)
(*          "stopping"  left the loop, the receiver still exists           *)
(*          "gone"      the future was dropped, and the receiver with it   *)
(*                                                                         *)
(* A message is a positive number, the WorkerMessage::Terminate is 0.      *)
(*                                                                         *)
(* The loop of the task also ends when rx.next() yields None, that is when *)
(* every sender was dropped and the queue is empty.  That never happens:   *)
(* dropping the ReceiveWorker always queues Terminate first, even behind a *)
(* full queue (ReceiveWorker!TerminateQueued), and the task stops there.   *)
(***************************************************************************)
EXTENDS MpscChannel

CONSTANT WorkerBuffer   \* mpsc::channel(10) in ReceiveWorker::new

ASSUME WorkerBufferAssumption == WorkerBuffer \in Nat

Terminate == 0
WorkerMessages == Nat
WorkerSenders == {"owner", "invoker"}
TaskStates == {"idle", "handling", "stopping", "gone"}

Workers ==
  [ch: Channels(WorkerMessages, WorkerSenders), owner: BOOLEAN, task: TaskStates]

\* ReceiveWorker::new
NewWorker == [ch |-> EmptyChannel, owner |-> TRUE, task |-> "idle"]

---------------------------------------------------------------------------
\* Mutated forms: each is a plausible mistake in the definition that it
\* stands in for, used to show that a property would notice the mistake.

\* A clone of the sender for every message: each has a slot of its own.
OfferedByClone(w, m) == [w EXCEPT !.ch.queue = Append(@, m)]

\* Make room by dropping the oldest message.
OfferedDropsOldest(w, m) ==
  [w EXCEPT !.ch = Push(IF Len(@.queue) < WorkerBuffer THEN @ ELSE Pop(@),
                        WorkerBuffer, "invoker", m)]
---------------------------------------------------------------------------

\* tx.try_send(WorkerMessage::Message(m)) of the invoker returned Ok.
Offered(w, m) == [w EXCEPT !.ch = Push(@, WorkerBuffer, "invoker", m)]

---------------------------------------------------------------------------
\* Mutated forms.

\* The ReceiveWorker is dropped without sending Terminate.
OwnerDroppedSilently(w) == [w EXCEPT !.owner = FALSE]

\* Terminate is sent through the sender of the invoker instead of an own one.
OwnerDroppedSharedSender(w) ==
  [w EXCEPT !.owner = FALSE,
            !.ch = IF Accepts(@, "invoker")
                   THEN Push(@, WorkerBuffer, "invoker", Terminate) ELSE @]

\* Terminate is treated as one more message.
ReceivedIgnoresTerminate(w) == [w EXCEPT !.ch = Pop(@), !.task = "handling"]

\* The task ends after its first message.
ReceivedOnce(w) == [w EXCEPT !.ch = Pop(@), !.task = "stopping"]
---------------------------------------------------------------------------

\* Drop for ReceiveWorker: terminate() ignores the result of try_send, then
\* the sender itself is dropped.
OwnerDropped(w) ==
  [w EXCEPT !.owner = FALSE,
            !.ch = IF Accepts(@, "owner")
                   THEN Push(@, WorkerBuffer, "owner", Terminate) ELSE @]

\* rx.next() yields a message.
CanReceive(w) == w.task = "idle" /\ w.ch.queue # <<>>

Received(w) ==
  [w EXCEPT !.ch = Pop(@),
            !.task = IF Head(w.ch.queue) = Terminate THEN "stopping" ELSE "handling"]

\* The future is dropped: after the loop, or because the callback panicked.
TaskGone(w) == [w EXCEPT !.ch = Close(@), !.task = "gone"]
============================================================================
