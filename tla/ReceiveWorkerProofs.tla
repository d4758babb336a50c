------------------------- MODULE ReceiveWorkerProofs -------------------------
(***************************************************************************)
(* ReceiveWorker for every WorkerBuffer and every number of messages: its  *)
(* safety properties, from one inductive invariant, and that each of its   *)
(* steps is one of OrderedDelivery or changes nothing there.               *)
(***************************************************************************)
EXTENDS ReceiveWorker, WorkerProofs

---------------------------------------------------------------------------
(***************************************************************************)
(* Facts about sequences, in the form in which the steps need them.        *)
(***************************************************************************)

\* What comes after the handled messages is the head of the queue.
LEMMA NextIsHead ==
  ASSUME NEW S, NEW h \in Seq(S), NEW q \in Seq(S), q # <<>>
  PROVE  /\ Len(h) < Len(h \o q)
         /\ (h \o q)[Len(h) + 1] = Head(q)
<1>1. Len(h) \in Nat /\ Len(q) \in Nat \ {0} /\ Head(q) = q[1]
  BY EmptySeq, LenProperties
<1> QED
  BY <1>1, ConcatProperties

\* What was handled is a prefix of what was handled and what is queued.
LEMMA PrefixOfConcat ==
  ASSUME NEW S, NEW h \in Seq(S), NEW q \in Seq(S)
  PROVE  IsPrefix(h, h \o q)
<1>1. /\ Len(h) \in Nat /\ Len(q) \in Nat
      /\ Len(h \o q) = Len(h) + Len(q)
      /\ h \o q \in Seq(S)
      /\ \A i \in 1..Len(h) : (h \o q)[i] = h[i]
  BY ConcatProperties, LenProperties
<1> DEFINE l == h \o q
<1> HIDE DEF l
<1>2. SubSeq(l, 1, Len(h)) = SubSeq(h, 1, Len(h))
  BY <1>1 DEF l
<1> QED
  BY <1>1, <1>2 DEF IsPrefix, l

\* A longer log still has the handled messages as a prefix.
LEMMA PrefixOfAppend ==
  ASSUME NEW S, NEW h \in Seq(S), NEW l \in Seq(S), NEW m \in S, IsPrefix(h, l)
  PROVE  IsPrefix(h, Append(l, m))
<1> DEFINE new == Append(l, m)
<1>1. /\ Len(h) \in Nat /\ Len(l) \in Nat /\ Len(h) <= Len(l)
      /\ Len(new) = Len(l) + 1
      /\ \A i \in 1..Len(l) : new[i] = l[i]
  BY AppendProperties, LenProperties DEF IsPrefix
<1> HIDE DEF new
<1>2. SubSeq(new, 1, Len(h)) = SubSeq(l, 1, Len(h))
  BY <1>1
<1> QED
  BY <1>1, <1>2 DEF IsPrefix, new

---------------------------------------------------------------------------
(***************************************************************************)
(* The inductive invariant.  QueueBounded and TerminateQueued follow from  *)
(* WorkerInv, which adds that the slot of a live owner is free and that no *)
(* Terminate is queued before its drop.                                    *)
(***************************************************************************)
IInv ==
  /\ TypeOK
  /\ WorkerInv(worker)
  /\ NothingLost
  /\ InOrderOnce
  /\ StopsAtTerminate
  /\ failed => ~tx
  /\ worker.task = "handling" => handled # <<>>

\* In a state of the invariant, and by the types alone.
LEMMA Types ==
  ASSUME TypeOK
  PROVE  /\ worker \in Workers
         /\ worker.ch.queue \in Seq(Nat)
         /\ worker.owner \in BOOLEAN
         /\ worker.task \in TaskStates
         /\ taken \in Nat /\ MaxMessages \in Nat
         /\ log \in Seq(Nat)
         /\ handled \in Seq(Nat)
<1>1. taken \in Nat /\ MaxMessages \in Nat
  BY MaxMessagesAssumption DEF TypeOK
<1>2. 0..taken \subseteq Nat /\ 1..taken \subseteq Nat
  BY <1>1
<1>3. log \in Seq(Nat) /\ handled \in Seq(Nat)
  BY <1>2, SeqMonotonic DEF TypeOK
<1> QED
  BY <1>1, <1>3, WorkerFields DEF TypeOK

\* The invariant holds of a worker just created.
LEMMA InitInvariant == Init => IInv
<1> SUFFICES ASSUME Init PROVE IInv
  OBVIOUS
<1>1. worker \in Workers /\ WorkerInv(worker) /\ worker.task = "idle"
  BY NewWorkerOK DEF Init, NewWorker
<1>2. worker.ch.queue = <<>>
  BY DEF Init, NewWorker, EmptyChannel
<1>3. TypeOK
  <2>1. <<>> \in Seq(0..taken) /\ <<>> \in Seq(1..taken)
    BY EmptySeq
  <2>2. log \in Seq(0..taken) /\ handled \in Seq(1..taken)
    BY <2>1 DEF Init
  <2>3. taken \in 0..MaxMessages
    BY MaxMessagesAssumption DEF Init
  <2>4. tx \in BOOLEAN /\ failed \in BOOLEAN
    BY DEF Init
  <2> QED
    BY <1>1, <2>2, <2>3, <2>4 DEF TypeOK
<1>4. NothingLost
  BY <1>2 DEF Init, NothingLost
<1>5. InOrderOnce
  BY DEF Init, InOrderOnce, IsPrefix
<1> QED
  BY <1>1, <1>3, <1>4, <1>5 DEF IInv, StopsAtTerminate, Init

---------------------------------------------------------------------------
(***************************************************************************)
(* One lemma for each action.                                              *)
(***************************************************************************)
LEMMA TakeTypes ==
  ASSUME TypeOK, Take
  PROVE  /\ taken' \in 0..MaxMessages
         /\ taken' \in Nat \ {Terminate}
         /\ log \in Seq(0..taken')
         /\ handled \in Seq(1..taken')
<1>1. taken \in Nat /\ MaxMessages \in Nat /\ taken < MaxMessages /\ taken' = taken + 1
  BY Types DEF Take
<1>2. 0..taken \subseteq 0..taken' /\ 1..taken \subseteq 1..taken'
  BY <1>1
<1> QED
  BY <1>1, <1>2, SeqMonotonic DEF TypeOK, Terminate

\* A message that try_send accepts (invoker.rs:77) keeps the invariant.
LEMMA InvokeDeliversInvariant ==
  ASSUME IInv, InvokeDelivers
  PROVE  IInv'
<1> USE DEF IInv
<1> DEFINE q == worker.ch.queue
<1>1. /\ worker \in Workers /\ WorkerInv(worker)
      /\ Accepts(worker.ch, "invoker")
      /\ worker' = Offered(worker, taken')
      /\ log' = Append(log, taken')
      /\ UNCHANGED <<tx, failed, handled>>
      /\ taken' \in Nat \ {Terminate}
  BY Types, TakeTypes DEF InvokeDelivers
<1>2. /\ worker' \in Workers /\ WorkerInv(worker')
      /\ worker'.ch.queue = Append(q, taken')
      /\ worker'.owner = worker.owner
      /\ worker'.task = worker.task
  BY <1>1, OfferedOK
<1>3. /\ q \in Seq(Nat) /\ log \in Seq(Nat) /\ handled \in Seq(Nat)
      /\ taken' \in Nat
  BY <1>1, Types
<1>4. TypeOK'
  <2>1. log' \in Seq(0..taken')
    <3>1. taken' \in 0..taken' /\ log \in Seq(0..taken')
      BY <1>3, TakeTypes DEF InvokeDelivers
    <3> QED
      BY <1>1, <3>1, AppendProperties
  <2> QED
    BY <1>1, <1>2, <2>1, TakeTypes DEF InvokeDelivers, TypeOK
<1>5. NothingLost'
  <2>1. Append(handled \o q, taken') = handled \o Append(q, taken')
    <3> HIDE DEF q, IInv
    <3>1. q \in Seq(Nat) /\ handled \in Seq(Nat) /\ taken' \in Nat
      BY <1>3
    <3> QED
      BY <3>1, AppendToConcat
  <2> QED
    BY <1>1, <1>2, <2>1 DEF NothingLost
<1>6. InOrderOnce'
  BY <1>1, <1>3, PrefixOfAppend DEF InOrderOnce
<1>7. StopsAtTerminate'
  <2>1. Len(handled) < Len(log) =>
          Len(handled) < Len(log') /\ log'[Len(handled) + 1] = log[Len(handled) + 1]
    BY <1>1, <1>3, AppendProperties, LenProperties
  <2> QED
    BY <1>1, <1>2, <2>1 DEF StopsAtTerminate
<1>8. (failed' => ~tx') /\ (worker'.task = "handling" => handled' # <<>>)
  BY <1>1, <1>2
<1> QED
  BY <1>2, <1>4, <1>5, <1>6, <1>7, <1>8

\* InvokeStops, InvokeFails and DropInvoker leave the worker alone.
LEMMA WorkerUntouched ==
  ASSUME IInv, TypeOK', failed' => ~tx', UNCHANGED <<worker, log, handled>>
  PROVE  IInv'
BY DEF IInv, NothingLost, InOrderOnce, StopsAtTerminate

\* Dropping the handle, and so queueing Terminate, keeps the invariant.
LEMMA DropHandleInvariant ==
  ASSUME IInv, DropHandle
  PROVE  IInv'
<1> USE DEF IInv
<1> DEFINE q == worker.ch.queue
<1>1. /\ worker \in Workers /\ WorkerInv(worker) /\ worker.owner
      /\ worker' = OwnerDropped(worker)
      /\ log' = IF Accepts(worker.ch, "owner") THEN Append(log, Terminate) ELSE log
      /\ UNCHANGED <<tx, failed, taken, handled>>
  BY Types DEF DropHandle
<1>2. /\ worker' \in Workers /\ WorkerInv(worker')
      /\ worker'.task = worker.task
      /\ worker.task # "gone" <=> Accepts(worker.ch, "owner")
      /\ worker'.ch.queue = IF worker.task = "gone"
                            THEN q ELSE Append(q, Terminate)
  BY <1>1, OwnerDroppedOK
<1>3. /\ q \in Seq(Nat) /\ log \in Seq(Nat) /\ handled \in Seq(Nat)
      /\ Terminate \in Nat /\ taken \in Nat
  BY Types DEF Terminate
<1>4. TypeOK'
  <2>1. Append(log, Terminate) \in Seq(0..taken)
    BY <1>3, AppendProperties DEF TypeOK, Terminate
  <2> QED
    BY <1>1, <1>2, <2>1 DEF TypeOK
<1>5. NothingLost'
  <2>1. Append(handled \o q, Terminate) = handled \o Append(q, Terminate)
    <3> HIDE DEF q, IInv
    <3>1. q \in Seq(Nat) /\ handled \in Seq(Nat) /\ Terminate \in Nat
      BY <1>3
    <3> QED
      BY <3>1, AppendToConcat
  <2> QED
    BY <1>1, <1>2, <2>1 DEF NothingLost
<1>6. InOrderOnce'
  BY <1>1, <1>3, PrefixOfAppend DEF InOrderOnce
<1>7. StopsAtTerminate'
  BY <1>1, <1>2 DEF StopsAtTerminate, WorkerInv
<1> QED
  BY <1>1, <1>2, <1>4, <1>5, <1>6, <1>7

\* The task taking the oldest message, Terminate or not, keeps the invariant.
LEMMA TaskReceivesInvariant ==
  ASSUME IInv, TaskReceives
  PROVE  IInv'
<1> USE DEF IInv
<1> DEFINE q == worker.ch.queue
<1>1. /\ worker \in Workers /\ WorkerInv(worker) /\ CanReceive(worker)
      /\ worker' = Received(worker)
      /\ handled' = IF worker'.task = "handling" THEN Append(handled, Head(q)) ELSE handled
      /\ UNCHANGED <<tx, failed, taken, log>>
  BY Types DEF TaskReceives
<1>2. /\ worker' \in Workers /\ WorkerInv(worker')
      /\ worker'.owner = worker.owner
      /\ worker'.ch.queue = Tail(q)
      /\ worker'.task = IF Head(q) = Terminate THEN "stopping" ELSE "handling"
  BY <1>1, ReceivedOK
<1>3. /\ q \in Seq(Nat) /\ q # <<>> /\ handled \in Seq(Nat) /\ log \in Seq(Nat)
      /\ taken \in Nat
  BY <1>1, Types DEF CanReceive
<1>4. log = handled \o q
  BY <1>1 DEF CanReceive, NothingLost
<1>5. Len(handled) < Len(log) /\ log[Len(handled) + 1] = Head(q)
  BY <1>3, <1>4, NextIsHead
<1>6. Head(q) \in 0..taken
  <2>1. Len(handled) + 1 \in 1..Len(log)
    BY <1>3, <1>5, LenProperties
  <2> QED
    BY <1>5, <2>1, ElementOfSeq DEF TypeOK
<1>7. CASE Head(q) = Terminate
  <2>1. worker'.task = "stopping" /\ handled' = handled
    BY <1>1, <1>2, <1>7
  <2>2. TypeOK'
    BY <1>1, <1>2, <2>1 DEF TypeOK
  <2>3. NothingLost' /\ InOrderOnce'
    BY <1>1, <2>1 DEF NothingLost, InOrderOnce
  <2>4. ~worker'.owner
    BY <1>2, <2>1 DEF WorkerInv
  <2>5. StopsAtTerminate'
    BY <1>1, <1>5, <1>7, <2>1, <2>4 DEF StopsAtTerminate
  <2> QED
    BY <1>1, <1>2, <2>1, <2>2, <2>3, <2>5
<1>8. CASE Head(q) # Terminate
  <2>1. worker'.task = "handling" /\ handled' = Append(handled, Head(q))
    BY <1>1, <1>2, <1>8
  <2>2. Head(q) \in 1..taken
    BY <1>3, <1>6, <1>8 DEF Terminate
  <2>3. handled' \in Seq(1..taken)
    BY <2>1, <2>2, AppendProperties DEF TypeOK
  <2>4. TypeOK'
    BY <1>1, <1>2, <2>3 DEF TypeOK
  <2>5. log = handled' \o Tail(q)
    BY <1>3, <1>4, <2>1, MoveHead
  <2>6. Tail(q) \in Seq(Nat) /\ handled' \in Seq(Nat)
    BY <1>3, <2>1, <2>2, HeadTailProperties, AppendProperties
  <2>7. NothingLost'
    BY <1>1, <1>2, <2>5 DEF NothingLost
  <2>8. InOrderOnce'
    <3>1. IsPrefix(handled', log')
      BY <1>1, <2>5, <2>6, PrefixOfConcat
    <3>2. ASSUME NEW i \in DOMAIN handled'
          PROVE  handled'[i] # Terminate
      <4> DEFINE h == handled'
                 S == 1..taken
      <4>1. h \in Seq(S) /\ i \in DOMAIN h
        BY <2>3
      <4> HIDE DEF h, S
      <4>2. h[i] \in S
        BY <4>1, LenProperties, ElementOfSeq
      <4> QED
        BY <1>3, <4>2 DEF Terminate, h, S
    <3> QED
      BY <3>1, <3>2 DEF InOrderOnce
  <2>9. StopsAtTerminate'
    BY <2>1 DEF StopsAtTerminate
  <2>10. handled' # <<>>
    BY <2>1, <2>2, AppendProperties DEF TypeOK
  <2> QED
    BY <1>1, <1>2, <2>4, <2>7, <2>8, <2>9, <2>10
<1> QED
  BY <1>7, <1>8

\* The callback returning keeps the invariant.
LEMMA CallbackReturnsInvariant ==
  ASSUME IInv, CallbackReturns
  PROVE  IInv'
<1> USE DEF IInv
<1>1. /\ worker \in Workers /\ WorkerInv(worker) /\ worker.task = "handling"
      /\ worker' = [worker EXCEPT !.task = "idle"]
      /\ UNCHANGED <<tx, failed, taken, log, handled>>
  BY Types DEF CallbackReturns
<1>2. /\ worker' \in Workers /\ WorkerInv(worker')
      /\ worker'.ch = worker.ch
      /\ worker'.task = "idle"
  BY <1>1, ReturnedOK
<1>3. TypeOK'
  BY <1>1, <1>2 DEF TypeOK
<1>4. NothingLost' /\ InOrderOnce' /\ StopsAtTerminate'
  BY <1>1, <1>2 DEF NothingLost, InOrderOnce, StopsAtTerminate
<1> QED
  BY <1>1, <1>2, <1>3, <1>4

\* CallbackPanics and TaskEnds.
LEMMA TaskGoneInvariant ==
  ASSUME IInv, worker' = TaskGone(worker), UNCHANGED <<tx, failed, taken, log, handled>>
  PROVE  IInv'
<1> USE DEF IInv
<1>1. worker' \in Workers /\ WorkerInv(worker') /\ worker'.task = "gone"
  BY Types, TaskGoneOK
<1>2. TypeOK'
  BY <1>1 DEF TypeOK
<1>3. NothingLost' /\ InOrderOnce' /\ StopsAtTerminate'
  BY <1>1 DEF NothingLost, InOrderOnce, StopsAtTerminate
<1> QED
  BY <1>1, <1>2, <1>3

---------------------------------------------------------------------------
\* Every step keeps the invariant: one case per action.
LEMMA NextInvariant == IInv /\ [Next]_vars => IInv'
<1> SUFFICES ASSUME IInv, [Next]_vars
             PROVE  IInv'
  OBVIOUS
<1>1. CASE InvokeDelivers
  BY <1>1, InvokeDeliversInvariant
<1>2. CASE InvokeStops
  <2>1. TypeOK'
    BY <1>2, TakeTypes DEF InvokeStops, IInv, TypeOK
  <2> QED
    BY <1>2, <2>1, WorkerUntouched DEF InvokeStops, IInv
<1>3. CASE InvokeFails
  <2>1. TypeOK'
    BY <1>3, TakeTypes DEF InvokeFails, IInv, TypeOK
  <2> QED
    BY <1>3, <2>1, WorkerUntouched DEF InvokeFails
<1>4. CASE DropInvoker
  <2>1. TypeOK'
    BY <1>4 DEF DropInvoker, IInv, TypeOK
  <2> QED
    BY <1>4, <2>1, WorkerUntouched DEF DropInvoker
<1>5. CASE DropHandle
  BY <1>5, DropHandleInvariant
<1>6. CASE TaskReceives
  BY <1>6, TaskReceivesInvariant
<1>7. CASE CallbackReturns
  BY <1>7, CallbackReturnsInvariant
<1>8. CASE CallbackPanics
  BY <1>8, TaskGoneInvariant DEF CallbackPanics
<1>9. CASE TaskEnds
  BY <1>9, TaskGoneInvariant DEF TaskEnds
<1>10. CASE UNCHANGED vars
  <2>1. TypeOK'
    BY <1>10 DEF vars, IInv, TypeOK
  <2> QED
    BY <1>10, <2>1, WorkerUntouched DEF vars, IInv
<1> QED
  BY <1>1, <1>2, <1>3, <1>4, <1>5, <1>6, <1>7, <1>8, <1>9, <1>10
  DEF Next, Invoke, Task

(***************************************************************************)
(* The invariant holds in every reachable state.                           *)
(***************************************************************************)
THEOREM Invariance == Spec => []IInv
BY InitInvariant, NextInvariant, PTL DEF Spec

---------------------------------------------------------------------------
(***************************************************************************)
(* Every variable keeps its type: internal/worker.rs and invoker.rs.       *)
(***************************************************************************)
THEOREM TypeCorrect == Spec => []TypeOK
<1>1. IInv => TypeOK
  BY DEF IInv
<1> QED
  BY <1>1, Invariance, PTL

(***************************************************************************)
(* mpsc::channel(n) and two senders: never more than n + 2 messages.       *)
(***************************************************************************)
THEOREM QueueStaysBounded == Spec => []QueueBounded
<1>1. IInv => QueueBounded
  <2> SUFFICES ASSUME IInv
               PROVE  QueueBounded
    OBVIOUS
  <2>1. worker.ch \in Channels(Nat, {"owner", "invoker"})
    BY Types, WorkerFields DEF IInv, WorkerSenders
  <2>2. WithinCapacity(worker.ch, WorkerBuffer) /\ WorkerBuffer \in Nat
    BY WorkerBufferAssumption DEF IInv, WorkerInv
  <2> DEFINE ch == worker.ch
  <2> HIDE DEF ch
  <2>3. Len(ch.queue) <= WorkerBuffer + 2
    BY <2>1, <2>2, TwoSenders DEF ch
  <2> QED
    BY <2>2, <2>3 DEF QueueBounded, ch
<1> QED
  BY <1>1, Invariance, PTL

(***************************************************************************)
(* The callback runs for the accepted messages in their order and once     *)
(* each (worker.rs:26-35).                                                 *)
(***************************************************************************)
THEOREM DeliveryInOrder == Spec => []InOrderOnce
<1>1. IInv => InOrderOnce
  BY DEF IInv
<1> QED
  BY <1>1, Invariance, PTL

(***************************************************************************)
(* None of them is lost while the task is in its loop: each is handled or  *)
(* queued (worker.rs:26-35, invoker.rs:76-80).                             *)
(***************************************************************************)
THEOREM DeliveryWithoutLoss == Spec => []NothingLost
<1>1. IInv => NothingLost
  BY DEF IInv
<1> QED
  BY <1>1, Invariance, PTL

(***************************************************************************)
(* The task leaves its loop only at the Terminate of the dropped handle,   *)
(* the callback having run for all that was accepted before it             *)
(* (worker.rs:27-34).                                                      *)
(***************************************************************************)
THEOREM StoppingAtTerminate == Spec => []StopsAtTerminate
<1>1. IInv => StopsAtTerminate
  BY DEF IInv
<1> QED
  BY <1>1, Invariance, PTL

(***************************************************************************)
(* The Terminate of a dropped handle is never refused, although the result *)
(* of its try_send is ignored (worker.rs:47-49).                           *)
(***************************************************************************)
THEOREM TerminateIsQueued == Spec => []TerminateQueued
<1>1. IInv => TerminateQueued
  BY DEF IInv, WorkerInv, Running, TerminateWaits, Holds, TerminateQueued
<1> QED
  BY <1>1, Invariance, PTL

(***************************************************************************)
(* The invoker gives its sender up only with a cause (invoker.rs:76-88).   *)
(***************************************************************************)
THEOREM GivingUpHasCause == Spec => GivesUpWithCause
<1>1. IInv /\ [Next]_vars =>
        [Invoke /\ ~tx' => IF failed' THEN Len(worker.ch.queue) > WorkerBuffer
                                      ELSE worker.task = "gone"]_vars
  <2> SUFFICES ASSUME IInv, Invoke, ~tx'
               PROVE  IF failed' THEN Len(worker.ch.queue) > WorkerBuffer
                                 ELSE worker.task = "gone"
    OBVIOUS
  <2>1. CASE InvokeDelivers
    BY <2>1 DEF InvokeDelivers, Take
  <2>2. CASE InvokeStops
    <3>1. worker.task = "gone"
      BY <2>2 DEF InvokeStops, IsDisconnected, IInv, WorkerInv
    <3>2. failed' = failed /\ ~failed
      BY <2>2 DEF InvokeStops, Take, IInv
    <3> QED
      BY <3>1, <3>2
  <2>3. CASE InvokeFails
    <3> DEFINE ch == worker.ch
    <3>1. /\ ch \in Channels(Nat, WorkerSenders) /\ "invoker" \in WorkerSenders
          /\ WithinCapacity(ch, WorkerBuffer) /\ WorkerBuffer \in Nat
      BY Types, WorkerFields, WorkerBufferAssumption DEF IInv, WorkerInv, WorkerSenders
    <3>2. IsFull(ch, "invoker") /\ failed'
      BY <2>3 DEF InvokeFails
    <3> HIDE DEF ch
    <3>3. Len(ch.queue) > WorkerBuffer
      BY <3>1, <3>2, FullMeansBacklog
    <3> QED
      BY <3>2, <3>3 DEF ch
  <2> QED
    BY <2>1, <2>2, <2>3 DEF Invoke
<1> QED
  BY <1>1, Invariance, PTL DEF Spec, GivesUpWithCause

---------------------------------------------------------------------------
(***************************************************************************)
(* The steps of ReceiveWorker are steps of OrderedDelivery.                *)
(***************************************************************************)
Ended == worker.task \in {"stopping", "gone"}

\* A step that leaves the log, the handled messages and the end as they were.
LEMMA Stutter ==
  ASSUME UNCHANGED <<log, handled>>, Ended' = Ended
  PROVE  UNCHANGED Delivery!vars
BY DEF Delivery!vars, Ended

\* A step that appends one message to the log.
LEMMA Submits ==
  ASSUME NEW m \in 0..MaxMessages, log' = Append(log, m), UNCHANGED handled, Ended' = Ended
  PROVE  Delivery!Submit
BY DEF Delivery!Submit, Ended

\* The task taking a message is the abstract Run, or End at a Terminate.
LEMMA TaskReceivesRefines ==
  ASSUME IInv, TaskReceives
  PROVE  Delivery!Run \/ Delivery!End
<1> DEFINE q == worker.ch.queue
<1>1. /\ worker \in Workers /\ CanReceive(worker) /\ WorkerInv(worker)
      /\ worker' = Received(worker)
      /\ handled' = IF worker'.task = "handling" THEN Append(handled, Head(q)) ELSE handled
      /\ log' = log
  BY Types DEF TaskReceives, IInv
<1>2. worker'.task = IF Head(q) = Terminate THEN "stopping" ELSE "handling"
  BY <1>1, ReceivedOK
<1>3. q \in Seq(Nat) /\ q # <<>> /\ handled \in Seq(Nat)
  BY <1>1, Types DEF CanReceive, IInv
<1>4. log = handled \o q /\ worker.task = "idle"
  BY <1>1 DEF CanReceive, NothingLost, IInv
<1>5. Len(handled) < Len(log) /\ log[Len(handled) + 1] = Head(q)
  BY <1>3, <1>4, NextIsHead
<1>6. Delivery!Pending /\ Delivery!NextUp = Head(q)
  BY <1>5 DEF Delivery!Pending, Delivery!NextUp
<1>7. CASE Head(q) = Terminate
  BY <1>1, <1>2, <1>4, <1>6, <1>7 DEF Delivery!End, Terminate
<1>8. CASE Head(q) # Terminate
  BY <1>1, <1>2, <1>4, <1>6, <1>8 DEF Delivery!Run, Terminate
<1> QED
  BY <1>7, <1>8

(***************************************************************************)
(* Every behaviour of the worker is one that OrderedDelivery allows.  (The *)
(* fairness of OrderedDelivery is left to TLC: ImplementsOrderedDelivery.) *)
(***************************************************************************)
THEOREM DeliverySafety == Spec => Delivery!Init /\ [][Delivery!Next]_(Delivery!vars)
<1>1. Init => Delivery!Init
  BY DEF Init, NewWorker, Delivery!Init
<1>2. IInv /\ [Next]_vars => [Delivery!Next]_(Delivery!vars)
  <2> SUFFICES ASSUME IInv, [Next]_vars
               PROVE  Delivery!Next \/ UNCHANGED Delivery!vars
    OBVIOUS
  <2>0. worker \in Workers /\ WorkerInv(worker) /\ TypeOK
    BY Types DEF IInv
  <2>1. CASE InvokeDelivers
    <3>1. worker' = Offered(worker, taken') /\ Accepts(worker.ch, "invoker")
          /\ taken' \in 0..MaxMessages /\ taken' \in Nat \ {Terminate}
      BY <2>0, <2>1, TakeTypes DEF InvokeDelivers
    <3>2. Ended' = Ended
      BY <2>0, <3>1, OfferedOK DEF Ended
    <3> QED
      BY <2>1, <3>1, <3>2, Submits DEF InvokeDelivers, Delivery!Next
  <2>2. CASE InvokeStops \/ InvokeFails \/ DropInvoker \/ UNCHANGED vars
    BY <2>2, Stutter DEF InvokeStops, InvokeFails, DropInvoker, vars, Ended
  <2>3. CASE DropHandle
    <3>1. Ended' = Ended
      BY <2>0, <2>3, OwnerDroppedOK DEF DropHandle, Ended
    <3>2. Terminate \in 0..MaxMessages
      BY MaxMessagesAssumption DEF Terminate
    <3> QED
      BY <2>3, <3>1, <3>2, Submits, Stutter DEF DropHandle, Delivery!Next
  <2>4. CASE TaskReceives
    BY <2>4, TaskReceivesRefines DEF Delivery!Next
  <2>5. CASE CallbackReturns
    <3>1. Ended' = Ended
      BY <2>0, <2>5, ReturnedOK DEF CallbackReturns, Ended
    <3> QED
      BY <2>5, <3>1, Stutter DEF CallbackReturns
  <2>6. CASE CallbackPanics
    <3>1. worker'.task = "gone"
      BY <2>0, <2>6, TaskGoneOK DEF CallbackPanics
    <3> QED
      BY <2>6, <3>1 DEF CallbackPanics, IInv, Delivery!Next, Delivery!End
  <2>7. CASE TaskEnds
    <3>1. worker'.task = "gone"
      BY <2>0, <2>7, TaskGoneOK DEF TaskEnds
    <3> QED
      BY <2>7, <3>1, Stutter DEF TaskEnds, Ended
  <2> QED
    BY <2>1, <2>2, <2>3, <2>4, <2>5, <2>6, <2>7 DEF Next, Invoke, Task
<1> QED
  BY <1>1, <1>2, Invariance, PTL DEF Spec
==============================================================================
