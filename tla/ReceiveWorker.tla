---------------------------- MODULE ReceiveWorker ----------------------------
(***************************************************************************)
(* One worker with everything that touches it: the invoker in the executor *)
(* thread, the user's handle (Subscription, Timer, Client or Service) and  *)
(* the Tokio task.  Messages are numbered 1, 2, ... in the order in which  *)
(* the invoker takes them from rcl.                                        *)
(***************************************************************************)
EXTENDS Worker, SequencesExt

CONSTANT MaxMessages    \* bound on the messages the invoker takes

ASSUME MaxMessagesAssumption == MaxMessages \in Nat

VARIABLES
  worker,   \* the worker, see module Worker
  tx,       \* the invoker's Option<Sender> is Some
  failed,   \* invoke() returned MessageQueueIsFull
  taken,    \* number of the message taken from rcl last
  log,      \* history: what try_send accepted, in order, Terminate included
  handled   \* history: messages the callback was started with, in order

vars == <<worker, tx, failed, taken, log, handled>>

Init ==
  /\ worker = NewWorker
  /\ tx = TRUE
  /\ failed = FALSE
  /\ taken = 0
  /\ log = <<>>
  /\ handled = <<>>

---------------------------------------------------------------------------
(***************************************************************************)
(* The executor thread: invoke() takes one message and offers it to the    *)
(* worker.  The three outcomes of try_send are three actions.              *)
(***************************************************************************)
Take ==
  /\ tx /\ taken < MaxMessages
  /\ taken' = taken + 1

InvokeDelivers ==
  /\ Take
  /\ Accepts(worker.ch, "invoker")
  /\ worker' = Offered(worker, taken')
  /\ log' = Append(log, taken')
  /\ UNCHANGED <<tx, failed, handled>>

InvokeStopsWhenRefused ==   \* mutated form: a full queue counts too
  /\ Take
  /\ ~Accepts(worker.ch, "invoker")
  /\ tx' = FALSE
  /\ UNCHANGED <<worker, failed, log, handled>>

\* Disconnected: stop() gives the sender up, the message is lost.
InvokeStops ==
  /\ Take
  /\ IsDisconnected(worker.ch)
  /\ tx' = FALSE
  /\ UNCHANGED <<worker, failed, log, handled>>

\* Full: Err(MessageQueueIsFull) ends Executor::spin, which drops its invokers.
InvokeFails ==
  /\ Take
  /\ IsFull(worker.ch, "invoker")
  /\ tx' = FALSE
  /\ failed' = TRUE
  /\ UNCHANGED <<worker, log, handled>>

\* The executor ends for another reason and drops its invokers.
DropInvoker ==
  /\ tx
  /\ tx' = FALSE
  /\ UNCHANGED <<worker, failed, taken, log, handled>>

---------------------------------------------------------------------------
\* The user drops the handle, and with it the ReceiveWorker.
DropHandle ==
  /\ worker.owner
  /\ worker' = OwnerDropped(worker)
  /\ log' = IF Accepts(worker.ch, "owner") THEN Append(log, Terminate) ELSE log
  /\ UNCHANGED <<tx, failed, taken, handled>>

---------------------------------------------------------------------------
(***************************************************************************)
(* The Tokio task.                                                         *)
(***************************************************************************)
TaskReceives ==
  /\ CanReceive(worker)
  /\ worker' = Received(worker)
  /\ handled' = IF worker'.task = "handling"
                THEN Append(handled, Head(worker.ch.queue)) ELSE handled
  /\ UNCHANGED <<tx, failed, taken, log>>

CallbackReturns ==
  /\ worker.task = "handling"
  /\ worker' = [worker EXCEPT !.task = "idle"]
  /\ UNCHANGED <<tx, failed, taken, log, handled>>

\* Tokio catches the panic and drops the future.
CallbackPanics ==
  /\ worker.task = "handling"
  /\ worker' = TaskGone(worker)
  /\ UNCHANGED <<tx, failed, taken, log, handled>>

TaskEnds ==
  /\ worker.task = "stopping"
  /\ worker' = TaskGone(worker)
  /\ UNCHANGED <<tx, failed, taken, log, handled>>

---------------------------------------------------------------------------
Invoke == InvokeDelivers \/ InvokeStops \/ InvokeFails
Task == TaskReceives \/ CallbackReturns \/ CallbackPanics \/ TaskEnds

Next == Invoke \/ DropInvoker \/ DropHandle \/ Task

Spec == Init /\ [][Next]_vars

\* Tokio polls a ready task, and callbacks come to an end.  Nothing obliges
\* the user to drop the handle or the executor to have messages.
FairSpec == Spec /\ WF_vars(Task)

---------------------------------------------------------------------------
TypeOK ==
  /\ worker \in Workers
  /\ tx \in BOOLEAN
  /\ failed \in BOOLEAN
  /\ taken \in 0..MaxMessages
  /\ log \in Seq(0..taken)
  /\ handled \in Seq(1..taken)

(***************************************************************************)
(* The queue of a worker never outgrows mpsc::channel(WorkerBuffer) plus   *)
(* one slot for each of its two senders, and exactly the senders of the    *)
(* excess messages are parked (worker.rs:24, invoker.rs:76).               *)
(***************************************************************************)
QueueBounded ==
  /\ WithinCapacity(worker.ch, WorkerBuffer)
  /\ Len(worker.ch.queue) <= WorkerBuffer + 2

(***************************************************************************)
(* As long as the task is in its loop (worker.rs:27-32) nothing that       *)
(* try_send accepted is lost, repeated or overtaken: the accepted messages *)
(* are those the callback was started with followed by those queued.       *)
(***************************************************************************)
NothingLost ==
  worker.task \in {"idle", "handling"} => log = handled \o worker.ch.queue

(***************************************************************************)
(* At any time, also after the task ended, the callback ran for a prefix   *)
(* of the accepted messages: in order, once each, never for Terminate, so  *)
(* never for anything sent after the handle was dropped.                   *)
(***************************************************************************)
InOrderOnce ==
  /\ IsPrefix(handled, log)
  /\ \A i \in DOMAIN handled : handled[i] # Terminate

(***************************************************************************)
(* The task leaves its loop only at the Terminate that the dropped handle  *)
(* queued, after the callback ran for everything accepted before it.       *)
(***************************************************************************)
StopsAtTerminate ==
  worker.task = "stopping" =>
    /\ ~worker.owner
    /\ Len(handled) < Len(log)
    /\ log[Len(handled) + 1] = Terminate

(***************************************************************************)
(* terminate() ignores the result of try_send (worker.rs:48), and is right *)
(* to: a dropped handle leaves a Terminate in the queue of a running task, *)
(* however full the invoker has made the queue.                            *)
(***************************************************************************)
TerminateQueued ==
  ~worker.owner /\ worker.task \in {"idle", "handling"} =>
    \E i \in DOMAIN worker.ch.queue : worker.ch.queue[i] = Terminate

(***************************************************************************)
(* The invoker gives up a running worker only with MessageQueueIsFull, and *)
(* only when the callback is more than WorkerBuffer messages behind; it    *)
(* stops silently (invoker.rs:78) only when the task is gone.              *)
(***************************************************************************)
GivesUpWithCause ==
  [][Invoke /\ ~tx' => IF failed' THEN Len(worker.ch.queue) > WorkerBuffer
                                  ELSE worker.task = "gone"]_vars

\* The task of a dropped handle ends (the receiver is dropped: nothing leaks).
DroppedTaskEnds == ~worker.owner ~> worker.task = "gone"

(***************************************************************************)
(* The worker implements OrderedDelivery: the log and the handled messages *)
(* are the abstract ones, and the abstract end is the task leaving its     *)
(* loop.  That includes the promise that every message accepted before a   *)
(* Terminate reaches the callback, unless an earlier callback panicked.    *)
(***************************************************************************)
Delivery == INSTANCE OrderedDelivery WITH
  Messages <- 0..MaxMessages,
  ended <- worker.task \in {"stopping", "gone"}

ImplementsOrderedDelivery == Delivery!Spec
==============================================================================
