------------------------------ MODULE RpcProofs ------------------------------
(***************************************************************************)
(* Client and Rpc for any requests, servers, buffers and histories.        *)
(*                                                                         *)
(* Client leaves the servers open, Rpc puts services there: every step of  *)
(* Rpc is one of Client or leaves the client alone, so what is proved here *)
(* of the client holds for both, and the services are proved on top of it. *)
(***************************************************************************)
EXTENDS Rpc, WorkerProofs, FiniteSetTheorems

---------------------------------------------------------------------------
(***************************************************************************)
(* The inductive invariant of the client.                                  *)
(***************************************************************************)

\* Calls are made in order, and every answer is to a call that was made.
CallsInv ==
  /\ \A id \in Ids : call[id] # "none" => \A prev \in 1..id : call[prev] # "none"
  /\ \A id \in Ids :
       asked[id] # {} \/ Holds(inbox, id) \/ Holds(worker.ch.queue, id) => call[id] # "none"

\* What the state of a call says of the rest of the client.
StatesInv ==
  /\ \A id \in answers : call[id] \in {"awaiting", "answered", "cancelled"}
  /\ \A id \in Ids :
       /\ call[id] = "answered" => id \in answers
       /\ call[id] \in {"failed", "panicked"} => poisoned
       /\ call[id] = "cancelled" => MayCancel

\* A single server answers a call once: it owes the answer, or the answer is
\* in rmw, or in the queue of the worker, or has been given to the callback.
OneServer == \A s, t \in Servers : s = t

AnsweredOnce ==
  OneServer =>
    /\ Distinct(inbox)
    /\ Distinct(worker.ch.queue)
    /\ \A id \in Ids :
         /\ asked[id] # {} =>
              ~Holds(inbox, id) /\ ~Holds(worker.ch.queue, id) /\ id \notin answers
         /\ Holds(inbox, id) => ~Holds(worker.ch.queue, id) /\ id \notin answers
         /\ Holds(worker.ch.queue, id) => id \notin answers

ClientInv ==
  /\ TypeOK
  /\ WorkerInv(worker)
  /\ PendingsExact
  /\ CallsInv
  /\ StatesInv
  /\ AnsweredOnce

---------------------------------------------------------------------------
\* The numbers of requests are never mistaken for Terminate.
LEMMA IdsAreMessages ==
  Ids \subseteq Nat \ {Terminate}
BY ClientAssumption DEF Ids, Terminate

\* What the types say of the queues.
LEMMA ClientTypes ==
  ASSUME TypeOK
  PROVE  /\ call \in [Ids -> Calls]
         /\ asked \in [Ids -> SUBSET Servers]
         /\ inbox \in Seq(Ids)
         /\ worker \in Workers
         /\ worker.ch.queue \in Seq(Nat)
BY WorkerFields DEF TypeOK

(***************************************************************************)
(* The worker when the callback is given the response to a call: back in   *)
(* its loop, or gone after a panic.                                        *)
(***************************************************************************)
LEMMA Handled ==
  ASSUME NEW w \in Workers, WorkerInv(w), CanReceive(w), Head(w.ch.queue) # Terminate
  PROVE  /\ [Received(w) EXCEPT !.task = "idle"] \in Workers
         /\ WorkerInv([Received(w) EXCEPT !.task = "idle"])
         /\ [Received(w) EXCEPT !.task = "idle"].ch.queue = Tail(w.ch.queue)
<1> DEFINE r == Received(w)
<1>1. /\ r \in Workers
      /\ WorkerInv(r)
      /\ r.ch.queue = Tail(w.ch.queue)
      /\ r.task = "handling"
  BY ReceivedOK
<1> HIDE DEF r
<1>2. /\ [r EXCEPT !.task = "idle"] \in Workers
      /\ WorkerInv([r EXCEPT !.task = "idle"])
      /\ [r EXCEPT !.task = "idle"].ch = r.ch
  BY <1>1, ReturnedOK
<1> QED
  BY <1>1, <1>2 DEF r

LEMMA Ended ==
  ASSUME NEW w \in Workers, WorkerInv(w), CanReceive(w)
  PROVE  /\ TaskGone(Received(w)) \in Workers
         /\ WorkerInv(TaskGone(Received(w)))
         /\ TaskGone(Received(w)).ch.queue = <<>>
BY ReceivedOK, TaskGoneOK

\* What is left in the queue of the worker when a response has been taken.
LEMMA QueueAfter ==
  ASSUME NEW w \in Workers, CanReceive(w)
  PROVE  /\ \A x : Holds(w.ch.queue, x) <=> Head(w.ch.queue) = x \/ Holds(Tail(w.ch.queue), x)
         /\ Distinct(w.ch.queue) =>
              Distinct(Tail(w.ch.queue)) /\ ~Holds(Tail(w.ch.queue), Head(w.ch.queue))
<1> DEFINE q == w.ch.queue
<1>1. q \in Seq(Nat) /\ q # <<>>
  BY WorkerFields DEF CanReceive
<1> HIDE DEF q
<1>2. \A x : Holds(q, x) <=> Head(q) = x \/ Holds(Tail(q), x)
  BY <1>1, InTail
<1>3. Distinct(q) => Distinct(Tail(q)) /\ ~Holds(Tail(q), Head(q))
  BY <1>1, DistinctTail
<1> QED
  BY <1>2, <1>3 DEF q

\* An empty queue.
LEMMA NothingQueued ==
  Distinct(<<>>) /\ \A x : ~Holds(<<>>, x)
BY DEF Distinct, Holds

---------------------------------------------------------------------------
LEMMA ClientInitially == Init => ClientInv
<1> SUFFICES ASSUME Init
             PROVE  ClientInv
  OBVIOUS
<1>1. worker \in Workers /\ WorkerInv(worker) /\ worker.ch.queue = <<>>
  BY NewWorkerOK DEF Init, NewWorker, EmptyChannel
<1>2. inbox = <<>>
  BY DEF Init
<1>3. TypeOK
  <2>1. inbox \in Seq(Ids)
    BY <1>2
  <2>2. tx \in BOOLEAN /\ poisoned \in BOOLEAN
    BY DEF Init
  <2>3. call \in [Ids -> Calls] /\ asked \in [Ids -> SUBSET Servers]
    BY DEF Init, Calls
  <2> QED
    BY <1>1, <2>1, <2>2, <2>3 DEF Init, TypeOK
<1>4. PendingsExact
  BY DEF Init, PendingsExact
<1>5. CallsInv /\ StatesInv
  BY <1>1, <1>2, NothingQueued DEF Init, CallsInv, StatesInv
<1>6. AnsweredOnce
  BY <1>1, <1>2, NothingQueued DEF Init, AnsweredOnce
<1> QED
  BY <1>1, <1>3, <1>4, <1>5, <1>6 DEF ClientInv

(***************************************************************************)
(* The steps of the user's task.                                           *)
(***************************************************************************)
LEMMA SendRequestKeeps ==
  ASSUME ClientInv, NEW id \in Ids, SendRequest(id)
  PROVE  ClientInv'
<1> USE DEF SendRequest
<1>0. /\ TypeOK /\ WorkerInv(worker) /\ PendingsExact
      /\ CallsInv /\ StatesInv /\ AnsweredOnce
  BY DEF ClientInv
<1>1. /\ call' \in [Ids -> Calls]
      /\ asked' \in [Ids -> SUBSET Servers]
      /\ call'[id] = "sent" /\ asked'[id] = Servers
      /\ \A j \in Ids \ {id} : call'[j] = call[j] /\ asked'[j] = asked[j]
  BY <1>0 DEF TypeOK, Calls
<1>2. TypeOK'
  BY <1>0, <1>1 DEF TypeOK
<1>3. PendingsExact'
  BY <1>0, <1>1 DEF PendingsExact, TypeOK
<1>4. CallsInv'
  <2>1. \A j \in Ids : call'[j] # "none" => \A prev \in 1..j : call'[prev] # "none"
    <3>1. \A j \in Ids : 1..j \subseteq Ids
      BY ClientAssumption DEF Ids
    <3>2. \A j \in Ids : call[j] # "none" => call'[j] # "none"
      BY <1>1
    <3>3. \A prev \in 1..id : call'[prev] # "none"
      BY <1>1, <3>1, <3>2 DEF Ids
    <3> QED
      BY <1>0, <1>1, <3>1, <3>2, <3>3 DEF CallsInv
  <2>2. \A j \in Ids : asked'[j] # {} \/ Holds(inbox', j) \/ Holds(worker'.ch.queue, j)
                          => call'[j] # "none"
    BY <1>0, <1>1 DEF CallsInv
  <2> QED
    BY <2>1, <2>2 DEF CallsInv
<1>5. StatesInv'
  BY <1>0, <1>1 DEF StatesInv, TypeOK
<1>6. AnsweredOnce'
  BY <1>0, <1>1 DEF AnsweredOnce, CallsInv, StatesInv
<1> QED
  BY <1>0, <1>2, <1>3, <1>4, <1>5, <1>6 DEF ClientInv

LEMMA InsertPendingKeeps ==
  ASSUME ClientInv, NEW id \in Ids, InsertPending(id)
  PROVE  ClientInv'
<1> USE DEF InsertPending
<1>0. /\ TypeOK /\ WorkerInv(worker) /\ PendingsExact
      /\ CallsInv /\ StatesInv /\ AnsweredOnce
  BY DEF ClientInv
<1>1. /\ call' \in [Ids -> Calls]
      /\ \/ poisoned /\ call'[id] = "panicked" /\ pendings' = pendings
         \/ ~poisoned /\ call'[id] = "awaiting" /\ pendings' = pendings \cup {id}
      /\ call[id] = "sent"
      /\ \A j \in Ids \ {id} : call'[j] = call[j]
  BY <1>0 DEF TypeOK, Calls
<1>2. TypeOK'
  BY <1>0, <1>1 DEF TypeOK
<1>3. PendingsExact'
  BY <1>0, <1>1 DEF PendingsExact, TypeOK, StatesInv
<1>4. CallsInv'
  <2>1. \A j \in Ids : call'[j] # "none" <=> call[j] # "none"
    BY <1>1
  <2>2. \A j \in Ids : 1..j \subseteq Ids
    BY ClientAssumption DEF Ids
  <2> QED
    BY <1>0, <2>1, <2>2 DEF CallsInv
<1>5. StatesInv'
  BY <1>0, <1>1 DEF StatesInv, TypeOK
<1>6. AnsweredOnce'
  BY <1>0, <1>1 DEF AnsweredOnce
<1> QED
  BY <1>0, <1>2, <1>3, <1>4, <1>5, <1>6 DEF ClientInv

\* A call that waits ends, with its response or without.
LEMMA EndOfCallKeeps ==
  ASSUME ClientInv, NEW id \in Ids, Return(id) \/ Cancel(id)
  PROVE  ClientInv'
<1> USE DEF Return, ReturnResponse, ReturnError, Cancel
<1>0. /\ TypeOK /\ WorkerInv(worker) /\ PendingsExact
      /\ CallsInv /\ StatesInv /\ AnsweredOnce
  BY DEF ClientInv
<1>1. /\ call' \in [Ids -> Calls]
      /\ \/ call'[id] = "answered" /\ id \in answers
         \/ call'[id] = "cancelled" /\ MayCancel
         \/ call'[id] = "failed" /\ id \notin answers /\ id \notin pendings
      /\ call[id] = "awaiting"
      /\ \A j \in Ids \ {id} : call'[j] = call[j]
      /\ UNCHANGED <<asked, inbox, tx, worker, pendings, answers, poisoned>>
  BY <1>0 DEF TypeOK, Calls
<1>2. TypeOK'
  BY <1>0, <1>1 DEF TypeOK
<1>3. PendingsExact'
  BY <1>0, <1>1 DEF PendingsExact, TypeOK
<1>4. CallsInv'
  <2>1. \A j \in Ids : call'[j] # "none" <=> call[j] # "none"
    BY <1>1
  <2>2. \A j \in Ids : 1..j \subseteq Ids
    BY ClientAssumption DEF Ids
  <2> QED
    BY <1>0, <1>1, <2>1, <2>2 DEF CallsInv
<1>5. StatesInv'
  <2>1. call'[id] = "failed" => poisoned
    BY <1>0, <1>1 DEF PendingsExact
  <2> QED
    BY <1>0, <1>1, <2>1 DEF StatesInv, TypeOK
<1>6. AnsweredOnce'
  BY <1>0, <1>1 DEF AnsweredOnce
<1> QED
  BY <1>0, <1>1, <1>2, <1>3, <1>4, <1>5, <1>6 DEF ClientInv

LEMMA DropClientKeeps ==
  ASSUME ClientInv, DropClient
  PROVE  ClientInv'
<1> USE DEF DropClient
<1>0. /\ TypeOK /\ WorkerInv(worker) /\ PendingsExact
      /\ CallsInv /\ StatesInv /\ AnsweredOnce
  BY DEF ClientInv
<1>1. /\ worker' \in Workers
      /\ WorkerInv(worker')
      /\ \/ worker'.ch.queue = worker.ch.queue
         \/ worker'.ch.queue = Append(worker.ch.queue, Terminate)
  BY <1>0, ClientTypes, OwnerDroppedOK
<1>2. /\ \A id \in Ids : Holds(worker'.ch.queue, id) <=> Holds(worker.ch.queue, id)
      /\ Distinct(worker.ch.queue) => Distinct(worker'.ch.queue)
  <2> DEFINE q == worker.ch.queue
             m == Terminate
  <2>1. q \in Seq(Nat) /\ m \in Nat /\ ~Holds(q, m)
    BY <1>0, ClientTypes DEF WorkerInv, TerminateWaits, Terminate
  <2>2. \A id \in Ids : id # m
    BY IdsAreMessages
  <2>3. worker'.ch.queue \in {q, Append(q, m)}
    BY <1>1
  <2> HIDE DEF q, m
  <2>4. \A x : Holds(Append(q, m), x) <=> Holds(q, x) \/ m = x
    BY <2>1, InAppend
  <2>5. Distinct(q) => Distinct(Append(q, m))
    BY <2>1, DistinctAppend
  <2>6. /\ \A id \in Ids : Holds(worker'.ch.queue, id) <=> Holds(q, id)
        /\ Distinct(q) => Distinct(worker'.ch.queue)
    BY <2>2, <2>3, <2>4, <2>5
  <2> QED
    BY <2>6 DEF q
<1>3. TypeOK'
  BY <1>0, <1>1 DEF TypeOK
<1>4. PendingsExact'
  BY <1>0 DEF PendingsExact
<1>5. CallsInv' /\ StatesInv'
  BY <1>0, <1>2 DEF CallsInv, StatesInv
<1>6. AnsweredOnce'
  BY <1>0, <1>2 DEF AnsweredOnce
<1> QED
  BY <1>0, <1>1, <1>3, <1>4, <1>5, <1>6 DEF ClientInv

(***************************************************************************)
(* A server answers: rmw may have to forget the oldest response for it.    *)
(***************************************************************************)
LEMMA RespondKeeps ==
  ASSUME ClientInv, NEW id \in Ids, NEW s \in Servers, Respond(id, s)
  PROVE  ClientInv'
<1> USE DEF Respond
<1>0. /\ TypeOK /\ WorkerInv(worker) /\ PendingsExact
      /\ CallsInv /\ StatesInv /\ AnsweredOnce
  BY DEF ClientInv
<1>1. /\ asked' \in [Ids -> SUBSET Servers]
      /\ asked'[id] = asked[id] \ {s} /\ asked[id] # {}
      /\ \A j \in Ids \ {id} : asked'[j] = asked[j]
      /\ OneServer => asked'[id] = {}
  BY <1>0 DEF TypeOK, OneServer
<1>2. /\ inbox' \in Seq(Ids)
      /\ \A x : Holds(inbox', x) => Holds(inbox, x) \/ id = x
      /\ Distinct(inbox) /\ ~Holds(inbox, id) => Distinct(inbox')
  <2> DEFINE kept == IF Len(inbox) < Depth THEN inbox ELSE Tail(inbox)
  <2>1. inbox \in Seq(Ids)
    BY <1>0 DEF TypeOK
  <2>2. ~(Len(inbox) < Depth) => inbox # <<>>
    BY <2>1, EmptySeq, ClientAssumption
  <2>3. /\ kept \in Seq(Ids)
        /\ \A x : Holds(kept, x) => Holds(inbox, x)
        /\ Distinct(inbox) => Distinct(kept)
    <3>1. CASE Len(inbox) < Depth
      BY <2>1, <3>1
    <3>2. CASE ~(Len(inbox) < Depth)
      <4>1. inbox # <<>> /\ kept = Tail(inbox)
        BY <2>2, <3>2
      <4>2. Tail(inbox) \in Seq(Ids)
        BY <2>1, <4>1, HeadTailProperties
      <4>3. \A x : Holds(Tail(inbox), x) => Holds(inbox, x)
        BY <2>1, <4>1, InTail
      <4>4. Distinct(inbox) => Distinct(Tail(inbox))
        BY <2>1, <4>1, DistinctTail
      <4> QED
        BY <4>1, <4>2, <4>3, <4>4
    <3> QED
      BY <3>1, <3>2
  <2>4. inbox' = Append(kept, id)
    OBVIOUS
  <2> HIDE DEF kept
  <2>5. Append(kept, id) \in Seq(Ids)
    BY <2>3, AppendProperties
  <2>6. \A x : Holds(Append(kept, id), x) <=> Holds(kept, x) \/ id = x
    BY <2>3, InAppend
  <2>7. Distinct(kept) /\ ~Holds(kept, id) => Distinct(Append(kept, id))
    BY <2>3, DistinctAppend
  <2> QED
    BY <2>3, <2>4, <2>5, <2>6, <2>7
<1>3. TypeOK'
  BY <1>0, <1>1, <1>2 DEF TypeOK
<1>4. PendingsExact'
  BY <1>0 DEF PendingsExact
<1>5. CallsInv' /\ StatesInv'
  BY <1>0, <1>1, <1>2 DEF CallsInv, StatesInv
<1>6. AnsweredOnce'
  <2> SUFFICES ASSUME OneServer
               PROVE  AnsweredOnce'
    BY DEF AnsweredOnce, OneServer
  <2>1. ~Holds(inbox, id) /\ ~Holds(worker.ch.queue, id) /\ id \notin answers
    BY <1>0, <1>1 DEF AnsweredOnce
  <2> QED
    BY <1>0, <1>1, <1>2, <2>1 DEF AnsweredOnce
<1> QED
  BY <1>0, <1>3, <1>4, <1>5, <1>6 DEF ClientInv

(***************************************************************************)
(* The invoker hands a response to the worker, or loses its sender.        *)
(***************************************************************************)
LEMMA InvokeKeeps ==
  ASSUME ClientInv, Invoke
  PROVE  ClientInv'
<1>0. /\ TypeOK /\ WorkerInv(worker) /\ PendingsExact
      /\ CallsInv /\ StatesInv /\ AnsweredOnce
  BY DEF ClientInv
<1> DEFINE id == Head(inbox)
           q == worker.ch.queue
<1>1. inbox \in Seq(Ids) /\ inbox # <<>> /\ q \in Seq(Nat) /\ worker \in Workers
  BY <1>0, ClientTypes DEF Invoke
<1>2. /\ id \in Ids /\ id \in Nat \ {Terminate}
      /\ inbox' = Tail(inbox)
      /\ inbox' \in Seq(Ids)
      /\ UNCHANGED <<call, asked, pendings, answers, poisoned>>
  BY <1>1, HeadTailProperties, IdsAreMessages DEF Invoke
<1>3. /\ \A x : Holds(inbox, x) <=> id = x \/ Holds(inbox', x)
      /\ Distinct(inbox) => Distinct(inbox') /\ ~Holds(inbox', id)
  BY <1>1, <1>2, InTail, DistinctTail
<1>4. /\ worker' \in Workers /\ WorkerInv(worker') /\ tx' \in BOOLEAN
      /\ \/ worker'.ch.queue = q
         \/ worker'.ch.queue = Append(q, id)
  <2> HIDE DEF id
  <2>1. CASE Accepts(worker.ch, "invoker")
    <3>1. worker' = Offered(worker, id) /\ tx' = tx
      BY <2>1 DEF Invoke, id
    <3>2. /\ Offered(worker, id) \in Workers
          /\ WorkerInv(Offered(worker, id))
          /\ Offered(worker, id).ch.queue = Append(worker.ch.queue, id)
      BY <1>0, <1>1, <1>2, <2>1, OfferedOK
    <3>3. tx \in BOOLEAN
      BY <1>0 DEF TypeOK
    <3> QED
      BY <3>1, <3>2, <3>3
  <2>2. CASE ~Accepts(worker.ch, "invoker")
    BY <1>0, <1>1, <2>2 DEF Invoke
  <2> QED
    BY <2>1, <2>2
<1> HIDE DEF id, q
<1>5. /\ \A x : Holds(worker'.ch.queue, x) => Holds(q, x) \/ id = x
      /\ Distinct(q) /\ ~Holds(q, id) => Distinct(worker'.ch.queue)
  <2>1. id \in Nat
    BY <1>2
  <2>2. \A x : Holds(Append(q, id), x) <=> Holds(q, x) \/ id = x
    BY <1>1, <2>1, InAppend
  <2>3. Distinct(q) /\ ~Holds(q, id) => Distinct(Append(q, id))
    BY <1>1, <2>1, DistinctAppend
  <2> QED
    BY <1>4, <2>2, <2>3
<1>6. TypeOK'
  BY <1>0, <1>2, <1>4 DEF TypeOK
<1>7. PendingsExact'
  BY <1>0, <1>2 DEF PendingsExact
<1>8. CallsInv' /\ StatesInv'
  BY <1>0, <1>2, <1>3, <1>5 DEF CallsInv, StatesInv, q
<1>9. AnsweredOnce'
  <2> SUFFICES ASSUME OneServer
               PROVE  AnsweredOnce'
    BY DEF AnsweredOnce, OneServer
  <2>1. /\ Distinct(inbox') /\ ~Holds(inbox', id)
        /\ asked[id] = {} /\ ~Holds(q, id) /\ id \notin answers
        /\ Distinct(worker'.ch.queue)
    BY <1>0, <1>2, <1>3, <1>5 DEF AnsweredOnce, q
  <2>2. ASSUME NEW j \in Ids
        PROVE  /\ asked'[j] # {} =>
                    ~Holds(inbox', j) /\ ~Holds(worker'.ch.queue, j) /\ j \notin answers'
               /\ Holds(inbox', j) => ~Holds(worker'.ch.queue, j) /\ j \notin answers'
               /\ Holds(worker'.ch.queue, j) => j \notin answers'
    <3>1. CASE j = id
      BY <1>2, <2>1, <3>1
    <3>2. CASE j # id
      BY <1>0, <1>2, <1>3, <1>5, <3>2 DEF AnsweredOnce, q
    <3> QED
      BY <3>1, <3>2
  <2> QED
    BY <2>1, <2>2 DEF AnsweredOnce
<1> QED
  BY <1>4, <1>6, <1>7, <1>8, <1>9 DEF ClientInv

LEMMA DropInvokerKeeps ==
  ASSUME ClientInv, DropInvoker
  PROVE  ClientInv'
<1> USE DEF DropInvoker
<1>0. /\ TypeOK /\ WorkerInv(worker) /\ PendingsExact
      /\ CallsInv /\ StatesInv /\ AnsweredOnce
  BY DEF ClientInv
<1>1. TypeOK'
  <2>1. tx' \in BOOLEAN
    OBVIOUS
  <2> QED
    BY <1>0, <2>1 DEF TypeOK
<1>2. WorkerInv(worker)' /\ PendingsExact'
  BY <1>0 DEF PendingsExact
<1>3. CallsInv' /\ StatesInv' /\ AnsweredOnce'
  BY <1>0 DEF CallsInv, StatesInv, AnsweredOnce
<1> QED
  BY <1>1, <1>2, <1>3 DEF ClientInv

(***************************************************************************)
(* The steps of the worker's task.                                         *)
(***************************************************************************)
LEMMA CallbackAnswersKeeps ==
  ASSUME ClientInv, NEW id \in Ids, CallbackAnswers(id)
  PROVE  ClientInv'
<1>0. /\ TypeOK /\ WorkerInv(worker) /\ PendingsExact
      /\ CallsInv /\ StatesInv /\ AnsweredOnce
  BY DEF ClientInv
<1> DEFINE q == worker.ch.queue
<1>1. /\ worker \in Workers /\ CanReceive(worker)
      /\ Head(q) = id /\ Head(q) # Terminate
      /\ worker' = [Received(worker) EXCEPT !.task = "idle"]
  BY <1>0, IdsAreMessages DEF CallbackAnswers, Response, TypeOK
<1>2. worker' \in Workers /\ WorkerInv(worker') /\ worker'.ch.queue = Tail(q)
  BY <1>0, <1>1, Handled
<1>3. /\ \A x : Holds(q, x) <=> id = x \/ Holds(worker'.ch.queue, x)
      /\ Distinct(q) => Distinct(worker'.ch.queue) /\ ~Holds(worker'.ch.queue, id)
  BY <1>1, <1>2, QueueAfter
<1>4. /\ id \in pendings /\ call[id] = "awaiting"
      /\ pendings' = pendings \ {id}
      /\ answers' = answers \cup {id}
      /\ UNCHANGED <<call, asked, inbox, tx, poisoned>>
  BY DEF CallbackAnswers
<1> HIDE DEF q
<1>5. TypeOK'
  BY <1>0, <1>2, <1>4 DEF TypeOK
<1>6. PendingsExact'
  BY <1>0, <1>4 DEF PendingsExact
<1>7. CallsInv'
  BY <1>0, <1>3, <1>4 DEF CallsInv, q
<1>8. StatesInv'
  BY <1>0, <1>4 DEF StatesInv
<1>9. AnsweredOnce'
  BY <1>0, <1>3, <1>4 DEF AnsweredOnce, OneServer, q
<1> QED
  BY <1>2, <1>5, <1>6, <1>7, <1>8, <1>9 DEF ClientInv

\* The callback panics, or the task leaves its loop.
LEMMA EndOfTaskKeeps ==
  ASSUME ClientInv,
         TaskStops \/ \E id \in Ids : CallbackFailsToSend(id) \/ CallbackFindsNoKey(id)
  PROVE  ClientInv'
<1>0. /\ TypeOK /\ WorkerInv(worker) /\ PendingsExact
      /\ CallsInv /\ StatesInv /\ AnsweredOnce
  BY DEF ClientInv
<1>1. /\ worker \in Workers /\ CanReceive(worker)
      /\ worker' = TaskGone(Received(worker))
      /\ pendings' \subseteq pendings
      /\ \A id \in pendings \ pendings' :
           call[id] = "awaiting" => id \in Garbled /\ poisoned'
      /\ UNCHANGED <<call, asked, inbox, tx, answers>>
  BY <1>0 DEF TaskStops, CallbackFailsToSend, CallbackFindsNoKey, Response, TypeOK
<1>2. poisoned' \in BOOLEAN /\ (poisoned => poisoned')
  BY <1>0 DEF TaskStops, CallbackFailsToSend, CallbackFindsNoKey, TypeOK
<1>3. /\ worker' \in Workers /\ WorkerInv(worker')
      /\ Distinct(worker'.ch.queue) /\ \A x : ~Holds(worker'.ch.queue, x)
  BY <1>0, <1>1, Ended, NothingQueued
<1>4. TypeOK'
  BY <1>0, <1>1, <1>2, <1>3 DEF TypeOK
<1>5. PendingsExact'
  BY <1>0, <1>1, <1>2 DEF PendingsExact
<1>6. CallsInv' /\ StatesInv'
  BY <1>0, <1>1, <1>2, <1>3 DEF CallsInv, StatesInv
<1>7. AnsweredOnce'
  BY <1>0, <1>1, <1>3 DEF AnsweredOnce, OneServer
<1> QED
  BY <1>3, <1>4, <1>5, <1>6, <1>7 DEF ClientInv

---------------------------------------------------------------------------
LEMMA ClientKeeps ==
  ASSUME ClientInv, [Next]_vars
  PROVE  ClientInv'
<1>1. CASE UNCHANGED vars
  BY <1>1 DEF vars, ClientInv, TypeOK, PendingsExact, CallsInv, StatesInv, AnsweredOnce
<1>2. ASSUME NEW id \in Ids, Call(id)
      PROVE  ClientInv'
  BY <1>2, SendRequestKeeps, InsertPendingKeeps, EndOfCallKeeps DEF Call
<1>3. ASSUME NEW id \in Ids, Callback(id)
      PROVE  ClientInv'
  BY <1>3, CallbackAnswersKeeps, EndOfTaskKeeps DEF Callback
<1>4. ASSUME NEW id \in Ids, NEW s \in Servers, Respond(id, s)
      PROVE  ClientInv'
  BY <1>4, RespondKeeps
<1>5. CASE Invoke \/ DropInvoker
  BY <1>5, InvokeKeeps, DropInvokerKeeps
<1>6. CASE TaskStops \/ DropClient
  BY <1>6, EndOfTaskKeeps, DropClientKeeps
<1> QED
  BY <1>1, <1>2, <1>3, <1>4, <1>5, <1>6 DEF Next

LEMMA ClientInvariance == Spec => []ClientInv
BY ClientInitially, ClientKeeps, PTL DEF Spec

---------------------------------------------------------------------------
(***************************************************************************)
(* Client keeps its types.                                                 *)
(***************************************************************************)
THEOREM TypeCorrect == Spec => []TypeOK
<1>1. ClientInv => TypeOK
  BY DEF ClientInv
<1> QED
  BY <1>1, ClientInvariance, PTL

(***************************************************************************)
(* The map of pending requests holds exactly the calls that wait for their *)
(* response, apart from cancelled ones (client/mod.rs:57-60, 97), however  *)
(* many servers answer, and however late.                                  *)
(***************************************************************************)
THEOREM PendingsExactAlways == Spec => []PendingsExact
<1>1. ClientInv => PendingsExact
  BY DEF ClientInv
<1> QED
  BY <1>1, ClientInvariance, PTL

---------------------------------------------------------------------------
\* Without a second server there is one at most.
LEMMA LoneServer ==
  ASSUME ~(Cardinality(Servers) > 1)
  PROVE  OneServer
<1>1. IsFiniteSet(Servers) /\ Cardinality(Servers) \in Nat
  BY ClientAssumption, FS_CardinalityType
<1>2. Cardinality(Servers) = 0 \/ Cardinality(Servers) = 1
  BY <1>1
<1>3. CASE Cardinality(Servers) = 0
  BY <1>1, <1>3, FS_EmptySet DEF OneServer
<1>4. CASE Cardinality(Servers) = 1
  BY <1>1, <1>4, FS_Singleton DEF OneServer
<1> QED
  BY <1>2, <1>3, <1>4

\* The response that the callback is given belongs to a call that was made.
LEMMA ResponseWasAsked ==
  ASSUME ClientInv, NEW id \in Ids, Response(id)
  PROVE  /\ call[id] \in Calls \ {"none"}
         /\ call[id] = "sent" => MultiThread
         /\ id \in answers => Cardinality(Servers) > 1
<1> DEFINE q == worker.ch.queue
<1>1. worker \in Workers /\ CanReceive(worker) /\ Head(q) = id
  BY DEF ClientInv, TypeOK, Response
<1>2. Holds(q, id)
  BY <1>1, QueueAfter
<1> HIDE DEF q
<1>3. call[id] \in Calls \ {"none"}
  BY <1>2 DEF ClientInv, CallsInv, TypeOK, q
<1>4. call[id] = "sent" => MultiThread
  BY DEF Response, MayRun
<1>5. OneServer => id \notin answers
  BY <1>2 DEF ClientInv, AnsweredOnce, q
<1> QED
  BY <1>3, <1>4, <1>5, LoneServer

(***************************************************************************)
(* What has to have happened for the callback to panic.                    *)
(***************************************************************************)
Cause ==
  \E id \in Ids :
    /\ Response(id)
    /\ \/ id \in Garbled /\ id \in pendings
       \/ call[id] = "cancelled"
       \/ MultiThread /\ call[id] = "sent"
       \/ Cardinality(Servers) > 1 /\ id \in answers

LEMMA BreakStep ==
  ASSUME ClientInv, [Next]_vars, ~poisoned, poisoned'
  PROVE  Cause
<1>1. PICK id \in Ids : CallbackFailsToSend(id) \/ CallbackFindsNoKey(id)
  <2>1. ~UNCHANGED poisoned
    OBVIOUS
  <2>2. Next
    BY <2>1 DEF vars
  <2>3. \A id \in Ids : ~Call(id) /\ ~CallbackAnswers(id) /\ \A s \in Servers : ~Respond(id, s)
    BY <2>1 DEF Call, SendRequest, InsertPending, Return, ReturnResponse, ReturnError, Cancel,
       CallbackAnswers, Respond
  <2>4. ~Invoke /\ ~DropInvoker /\ ~TaskStops /\ ~DropClient
    BY <2>1 DEF Invoke, DropInvoker, TaskStops, DropClient
  <2> QED
    BY <2>2, <2>3, <2>4 DEF Next, Callback
<1>2. Response(id)
  BY <1>1 DEF CallbackFailsToSend, CallbackFindsNoKey
<1>3. /\ call[id] \in Calls \ {"none"}
      /\ call[id] = "sent" => MultiThread
      /\ id \in answers => Cardinality(Servers) > 1
  BY <1>2, ResponseWasAsked
<1>4. CASE CallbackFailsToSend(id)
  <2>1. \/ id \in Garbled /\ id \in pendings
        \/ call[id] = "cancelled"
    BY <1>4 DEF CallbackFailsToSend, ClientInv, PendingsExact
  <2> QED
    BY <1>2, <2>1 DEF Cause
<1>5. CASE CallbackFindsNoKey(id)
  <2>1. id \notin pendings
    BY <1>5 DEF CallbackFindsNoKey
  <2>2. call[id] \notin {"failed", "panicked"}
    BY DEF ClientInv, StatesInv
  <2>3. call[id] \in {"awaiting", "answered"} => id \in answers
    BY <2>1 DEF ClientInv, PendingsExact, StatesInv
  <2> QED
    BY <1>2, <1>3, <2>2, <2>3 DEF Cause, Calls
<1> QED
  BY <1>1, <1>4, <1>5

(***************************************************************************)
(* The callback of a client panics (client/mod.rs:57-65) only at a         *)
(* response that cannot be read, at one to a cancelled call, at one that   *)
(* overtook the insertion of its number on another thread, or at a second  *)
(* answer of a second server.                                              *)
(***************************************************************************)
THEOREM BreaksWithCauseAlways == Spec => BreaksWithCause
<1>1. ClientInv /\ [Next]_vars => [~poisoned /\ poisoned' => Cause]_vars
  BY BreakStep
<1>2. Spec => [][~poisoned /\ poisoned' => Cause]_vars
  BY <1>1, ClientInvariance, PTL DEF Spec
<1> QED
  BY <1>2 DEF BreaksWithCause, Cause

(***************************************************************************)
(* So a program on a current-thread runtime that never drops the future of *)
(* a call, with one server whose texts are UTF-8, meets no panic: the map  *)
(* has the key of every response that the callback is given, as the        *)
(* message of its panic says ("fail to find key in                         *)
(* Client::process_requests", client/mod.rs:61).                           *)
(***************************************************************************)
THEOREM KeyIsFoundWithCare ==
  ASSUME ~MultiThread, ~MayCancel, Cardinality(Servers) <= 1, Garbled = {}
  PROVE  Spec => [](KeyIsFound /\ ~poisoned)
<1>1. ~(Cardinality(Servers) > 1)
  BY ClientAssumption, FS_CardinalityType
<1>2. Init => ~poisoned
  BY DEF Init
<1>3. ClientInv /\ ~poisoned /\ [Next]_vars => ~poisoned'
  BY <1>1, BreakStep DEF Cause, ClientInv, StatesInv
<1>4. Spec => []~poisoned
  BY <1>2, <1>3, ClientInvariance, PTL DEF Spec
<1>5. ASSUME ClientInv, ~poisoned, NEW id \in Ids, Response(id)
      PROVE  id \in pendings
  <2>1. /\ call[id] \in Calls \ {"none"}
        /\ call[id] # "sent"
        /\ id \notin answers
    BY <1>1, <1>5, ResponseWasAsked
  <2>2. call[id] = "awaiting"
    BY <1>5, <2>1 DEF ClientInv, StatesInv, Calls
  <2> QED
    BY <1>5, <2>1, <2>2 DEF ClientInv, PendingsExact
<1>6. ClientInv /\ ~poisoned => KeyIsFound /\ ~poisoned
  BY <1>5 DEF KeyIsFound
<1> QED
  BY <1>4, <1>6, ClientInvariance, PTL

---------------------------------------------------------------------------
(***************************************************************************)
(* A step of Rpc is one of Client, or one of a service only: the services  *)
(* are servers as Client supposes them.                                    *)
(***************************************************************************)
LEMMA RpcStepIsClientStep ==
  ASSUME [RpcNext]_rpcVars
  PROVE  [Next]_vars
<1>1. CASE UNCHANGED rpcVars
  BY <1>1 DEF rpcVars
<1>2. CASE ClientStep
  BY <1>2 DEF ClientStep, Next, Call
<1>3. ASSUME NEW id \in Ids, SendToServers(id)
      PROVE  Next
  BY <1>3 DEF SendToServers, Next, Call
<1>4. ASSUME NEW s \in Servers, NEW id \in Ids, ServiceResponds(s, id)
      PROVE  Next
  BY <1>4 DEF ServiceResponds, Next
<1>5. ASSUME NEW s \in Servers,
             \/ InvokeService(s) \/ DropServiceInvoker(s) \/ DropService(s) \/ ServiceStops(s)
             \/ \E id \in Ids : ServicePanics(s, id)
      PROVE  UNCHANGED vars
  BY <1>5 DEF InvokeService, DropServiceInvoker, DropService, ServiceStops, ServicePanics
<1> QED
  BY <1>1, <1>2, <1>3, <1>4, <1>5 DEF RpcNext, ServiceTask

THEOREM RpcImplementsClient == RpcSpec => Spec
<1>1. RpcInit => Init
  BY DEF RpcInit
<1>2. [RpcNext]_rpcVars => [Next]_vars
  BY RpcStepIsClientStep
<1> QED
  BY <1>1, <1>2, PTL DEF RpcSpec, Spec

LEMMA ClientInvarianceInRpc == RpcSpec => []ClientInv
BY RpcImplementsClient, ClientInvariance, PTL

(***************************************************************************)
(* What holds of the client for any servers holds of it with its services. *)
(***************************************************************************)
COROLLARY ClientCorrectInRpc == RpcSpec => []PendingsExact /\ BreaksWithCause
BY RpcImplementsClient, PendingsExactAlways, BreaksWithCauseAlways, PTL

---------------------------------------------------------------------------
(***************************************************************************)
(* The way of the requests through a service: queue is that of the worker, *)
(* held what rmw holds for it, owes the requests it has yet to answer.     *)
(* Owed says that both are in the order of the calls, the one before the   *)
(* other, and that an answer is owed to everything in them.                *)
(***************************************************************************)
Increasing(seq) ==
  \A i, j \in DOMAIN seq :
    i < j /\ seq[i] # Terminate /\ seq[j] # Terminate => seq[i] < seq[j]

Owed(owes, queue, held) ==
  /\ \A x : Holds(queue, x) => x = Terminate \/ x \in owes
  /\ \A x : Holds(held, x) => x \in owes
  /\ Increasing(queue) /\ Increasing(held)
  /\ \A x, y : Holds(queue, x) /\ Holds(held, y) /\ x # Terminate => x < y

LEMMA IncreasingAppend ==
  ASSUME NEW seq \in Seq(Nat), NEW m \in Nat, Increasing(seq),
         \A x : Holds(seq, x) /\ x # Terminate /\ m # Terminate => x < m
  PROVE  Increasing(Append(seq, m))
<1> DEFINE new == Append(seq, m)
<1>1. /\ Len(seq) \in Nat
      /\ DOMAIN seq = 1..Len(seq)
      /\ DOMAIN new = 1..(Len(seq) + 1)
      /\ \A i \in 1..Len(seq) : new[i] = seq[i]
      /\ new[Len(seq) + 1] = m
  BY AppendProperties
<1> HIDE DEF new
<1>2. ASSUME NEW i \in DOMAIN new, NEW j \in DOMAIN new, i < j,
             new[i] # Terminate, new[j] # Terminate
      PROVE  new[i] < new[j]
  <2>1. i \in DOMAIN seq /\ new[i] = seq[i] /\ Holds(seq, new[i])
    BY <1>1, <1>2 DEF Holds
  <2>2. CASE j \in DOMAIN seq
    BY <1>1, <1>2, <2>1, <2>2 DEF Increasing
  <2>3. CASE j \notin DOMAIN seq
    BY <1>1, <1>2, <2>1, <2>3
  <2> QED
    BY <2>2, <2>3
<1>3. Increasing(new)
  BY <1>2 DEF Increasing
<1> QED
  BY <1>3 DEF new

LEMMA IncreasingTail ==
  ASSUME NEW seq \in Seq(Nat), seq # <<>>, Increasing(seq)
  PROVE  /\ Increasing(Tail(seq))
         /\ \A x : Holds(Tail(seq), x) /\ x # Terminate /\ Head(seq) # Terminate => Head(seq) < x
<1> DEFINE rest == Tail(seq)
<1>1. /\ Len(seq) \in Nat \ {0}
      /\ DOMAIN seq = 1..Len(seq)
      /\ DOMAIN rest = 1..(Len(seq) - 1)
      /\ \A i \in 1..(Len(seq) - 1) : rest[i] = seq[i + 1]
      /\ Head(seq) = seq[1]
  BY HeadTailProperties, EmptySeq
<1> HIDE DEF rest
<1>2. ASSUME NEW i \in DOMAIN rest
      PROVE  i \in Nat \ {0} /\ i + 1 \in DOMAIN seq /\ rest[i] = seq[i + 1]
  BY <1>1
<1>3. Increasing(rest)
  BY <1>2 DEF Increasing
<1>4. ASSUME NEW x, Holds(rest, x), x # Terminate, Head(seq) # Terminate
      PROVE  Head(seq) < x
  <2>1. PICK i \in DOMAIN rest : rest[i] = x
    BY <1>4 DEF Holds
  <2>2. 1 \in DOMAIN seq /\ 1 < i + 1 /\ seq[1] # Terminate /\ seq[i + 1] = x
    BY <1>1, <1>2, <1>4, <2>1
  <2> QED
    BY <1>1, <1>2, <1>4, <2>2 DEF Increasing
<1> QED
  BY <1>3, <1>4 DEF rest

(***************************************************************************)
(* A new request is the latest; rmw may forget the oldest one for it.      *)
(***************************************************************************)
LEMMA OwedGrows ==
  ASSUME NEW owes \in SUBSET Ids, NEW queue \in Seq(Nat), NEW held \in Seq(Ids),
         Owed(owes, queue, held), NEW id \in Ids, \A x \in owes : x < id,
         NEW depth \in Nat \ {0}
  PROVE  /\ KeepLast(held, depth, id) \in Seq(Ids)
         /\ Owed(owes \cup {id}, queue, KeepLast(held, depth, id))
<1> DEFINE kept == IF Len(held) < depth THEN held ELSE Tail(held)
           new == Append(kept, id)
<1>0. id \in Nat /\ id # Terminate
  BY IdsAreMessages
<1>1. held \in Seq(Nat)
  <2>1. Ids \subseteq Nat
    BY IdsAreMessages
  <2> QED
    BY <2>1, SeqMonotonic
<1>2. /\ kept \in Seq(Ids)
      /\ \A x : Holds(kept, x) => Holds(held, x)
      /\ Increasing(kept)
  <2>1. CASE Len(held) < depth
    BY <2>1 DEF Owed
  <2>2. CASE ~(Len(held) < depth)
    <3>1. held # <<>> /\ kept = Tail(held)
      BY <2>2, EmptySeq
    <3>2. Tail(held) \in Seq(Ids)
      BY <3>1, HeadTailProperties
    <3>3. \A x : Holds(Tail(held), x) => Holds(held, x)
      BY <3>1, InTail
    <3>4. Increasing(Tail(held))
      BY <1>1, <3>1, IncreasingTail DEF Owed
    <3> QED
      BY <3>1, <3>2, <3>3, <3>4
  <2> QED
    BY <2>1, <2>2
<1>3. KeepLast(held, depth, id) = new
  BY DEF KeepLast
<1> HIDE DEF kept
<1>4. new \in Seq(Ids)
  BY <1>2, AppendProperties
<1>5. \A x : Holds(new, x) <=> Holds(kept, x) \/ id = x
  BY <1>2, InAppend
<1>6. Increasing(new)
  <2>1. kept \in Seq(Nat)
    <3>1. Ids \subseteq Nat
      BY IdsAreMessages
    <3> QED
      BY <1>2, <3>1, SeqMonotonic
  <2>2. \A x : Holds(kept, x) => x < id
    BY <1>2 DEF Owed
  <2> QED
    BY <1>0, <1>2, <2>1, <2>2, IncreasingAppend
<1> HIDE DEF new
<1>7. Owed(owes \cup {id}, queue, new)
  BY <1>2, <1>5, <1>6 DEF Owed
<1> QED
  BY <1>3, <1>4, <1>7

(***************************************************************************)
(* The invoker hands the oldest request over, or loses it with its sender. *)
(***************************************************************************)
LEMMA OwedMoves ==
  ASSUME NEW owes \in SUBSET Ids, NEW queue \in Seq(Nat), NEW held \in Seq(Ids),
         Owed(owes, queue, held), held # <<>>
  PROVE  /\ Head(held) \in Ids
         /\ Tail(held) \in Seq(Ids)
         /\ Owed(owes, Append(queue, Head(held)), Tail(held))
         /\ Owed(owes, queue, Tail(held))
<1> DEFINE id == Head(held)
           rest == Tail(held)
           new == Append(queue, id)
<1>1. id \in Ids /\ rest \in Seq(Ids)
  BY HeadTailProperties
<1>2. id \in Nat /\ id # Terminate
  BY <1>1, IdsAreMessages
<1>3. held \in Seq(Nat)
  <2>1. Ids \subseteq Nat
    BY IdsAreMessages
  <2> QED
    BY <2>1, SeqMonotonic
<1>4. \A x : Holds(held, x) <=> id = x \/ Holds(rest, x)
  BY InTail
<1>5. Increasing(rest) /\ \A x : Holds(rest, x) /\ x # Terminate => id < x
  BY <1>2, <1>3, IncreasingTail DEF Owed
<1>6. \A x : Holds(rest, x) => x # Terminate
  BY <1>4, IdsAreMessages DEF Owed
<1> HIDE DEF id, rest
<1>7. \A x : Holds(new, x) <=> Holds(queue, x) \/ id = x
  BY <1>2, InAppend
<1>8. Increasing(new)
  <2>1. \A x : Holds(queue, x) /\ x # Terminate => x < id
    BY <1>4 DEF Owed
  <2> QED
    BY <1>2, <2>1, IncreasingAppend DEF Owed
<1> HIDE DEF new
<1>9. Owed(owes, new, rest)
  BY <1>4, <1>5, <1>6, <1>7, <1>8 DEF Owed
<1>10. Owed(owes, queue, rest)
  BY <1>4, <1>5 DEF Owed
<1> QED
  BY <1>1, <1>9, <1>10 DEF id, rest, new

(***************************************************************************)
(* The callback answers a request: nothing on the way is that request.     *)
(***************************************************************************)
LEMMA OwedPaid ==
  ASSUME NEW owes \in SUBSET Ids, NEW queue \in Seq(Nat), NEW held \in Seq(Ids),
         Owed(owes, queue, held), queue # <<>>, Head(queue) # Terminate
  PROVE  Owed(owes \ {Head(queue)}, Tail(queue), held)
<1> DEFINE id == Head(queue)
           rest == Tail(queue)
<1>1. \A x : Holds(queue, x) <=> id = x \/ Holds(rest, x)
  BY InTail
<1>2. Increasing(rest) /\ \A x : Holds(rest, x) /\ x # Terminate => id < x
  BY IncreasingTail DEF Owed
<1>3. id \in Nat
  BY HeadTailProperties
<1> HIDE DEF id, rest
<1>4. \A x : Holds(held, x) => id < x
  BY <1>1 DEF Owed, id
<1>5. Owed(owes \ {id}, rest, held)
  BY <1>1, <1>2, <1>3, <1>4 DEF Owed
<1> QED
  BY <1>5 DEF id, rest

\* The receiver is dropped, or the Terminate of the service queued.
LEMMA OwedEnds ==
  ASSUME NEW owes \in SUBSET Ids, NEW queue \in Seq(Nat), NEW held \in Seq(Ids),
         Owed(owes, queue, held)
  PROVE  Owed(owes, <<>>, held) /\ Owed(owes, Append(queue, Terminate), held)
<1> DEFINE t == Terminate
           new == Append(queue, t)
<1>1. t \in Nat
  BY DEF Terminate
<1>2. \A x : Holds(new, x) <=> Holds(queue, x) \/ t = x
  <2> HIDE DEF t
  <2> QED
    BY <1>1, InAppend
<1>3. Increasing(new)
  BY <1>1, IncreasingAppend DEF Owed
<1> HIDE DEF new
<1>4. Owed(owes, new, held)
  BY <1>2, <1>3 DEF Owed
<1>5. Owed(owes, <<>>, held)
  BY NothingQueued DEF Owed, Increasing
<1> QED
  BY <1>4, <1>5 DEF new

(***************************************************************************)
(* Seen as one sequence, the way is what AnswersOwed says of it.           *)
(***************************************************************************)
LEMMA OwedWay ==
  ASSUME NEW owes \in SUBSET Ids, NEW queue \in Seq(Nat), NEW held \in Seq(Ids),
         Owed(owes, queue, held)
  PROVE  LET way    == queue \o held
             places == {i \in DOMAIN way : way[i] # Terminate}
         IN  /\ \A i \in places : way[i] \in owes
             /\ \A i, j \in places : i < j => way[i] < way[j]
<1> DEFINE way == queue \o held
           n == Len(queue)
<1>1. /\ n \in Nat /\ Len(held) \in Nat
      /\ DOMAIN queue = 1..n /\ DOMAIN held = 1..Len(held)
  BY LenProperties
<1>2. /\ DOMAIN way = 1..(n + Len(held))
      /\ \A i \in 1..(n + Len(held)) : way[i] = IF i <= n THEN queue[i] ELSE held[i - n]
  <2>1. held \in Seq(Nat)
    <3>1. Ids \subseteq Nat
      BY IdsAreMessages
    <3> QED
      BY <3>1, SeqMonotonic
  <2> QED
    BY <2>1, ConcatProperties, LenProperties
<1> HIDE DEF way, n
<1>3. ASSUME NEW i \in DOMAIN way, way[i] # Terminate
      PROVE  /\ i \in Nat
             /\ i <= n => i \in DOMAIN queue /\ way[i] = queue[i] /\ Holds(queue, way[i])
             /\ i > n => i - n \in DOMAIN held /\ way[i] = held[i - n] /\ Holds(held, way[i])
  <2>1. CASE i <= n
    BY <1>1, <1>2, <2>1 DEF Holds
  <2>2. CASE i > n
    <3>1. i - n \in DOMAIN held /\ way[i] = held[i - n]
      BY <1>1, <1>2, <2>2
    <3> QED
      BY <1>1, <1>2, <2>2, <3>1 DEF Holds
  <2> QED
    BY <1>1, <1>2, <2>1, <2>2
<1>4. ASSUME NEW i \in DOMAIN way, way[i] # Terminate
      PROVE  way[i] \in owes
  BY <1>1, <1>3, <1>4 DEF Owed
<1>5. ASSUME NEW i \in DOMAIN way, NEW j \in DOMAIN way, i < j,
             way[i] # Terminate, way[j] # Terminate
      PROVE  way[i] < way[j]
  <2>1. CASE j <= n
    BY <1>1, <1>3, <1>5, <2>1 DEF Owed, Increasing
  <2>2. CASE i <= n /\ j > n
    BY <1>3, <1>5, <2>2 DEF Owed
  <2>3. CASE i > n
    <3>1. i - n < j - n /\ i - n \in DOMAIN held /\ j - n \in DOMAIN held
      BY <1>1, <1>3, <1>5, <2>3
    <3>2. way[i] = held[i - n] /\ way[j] = held[j - n]
      BY <1>1, <1>3, <1>5, <2>3
    <3> QED
      BY <1>5, <3>1, <3>2 DEF Owed, Increasing
  <2> QED
    BY <1>1, <1>3, <1>5, <2>1, <2>2, <2>3
<1> QED
  BY <1>4, <1>5 DEF way

---------------------------------------------------------------------------
(***************************************************************************)
(* The inductive invariant of Rpc: that of the client, and for each        *)
(* service its worker and the answers that it owes.                        *)
(***************************************************************************)
Owes(s) == {id \in Ids : s \in asked[id]}

ServiceTypes ==
  /\ requests \in [Servers -> Seq(Ids)]
  /\ stx \in [Servers -> BOOLEAN]
  /\ sworker \in [Servers -> Workers]

ServiceInv(s) ==
  /\ WorkerInv(sworker[s])
  /\ Owed(Owes(s), sworker[s].ch.queue, requests[s])

RpcInv ==
  /\ ClientInv
  /\ ServiceTypes
  /\ \A s \in Servers : ServiceInv(s)

\* What the invariant says of one service.
LEMMA ServiceFacts ==
  ASSUME RpcInv, NEW s \in Servers
  PROVE  /\ sworker[s] \in Workers
         /\ WorkerInv(sworker[s])
         /\ sworker[s].ch.queue \in Seq(Nat)
         /\ requests[s] \in Seq(Ids)
         /\ Owes(s) \in SUBSET Ids
         /\ Owed(Owes(s), sworker[s].ch.queue, requests[s])
<1>1. sworker[s] \in Workers /\ requests[s] \in Seq(Ids)
  BY DEF RpcInv, ServiceTypes
<1> QED
  BY <1>1, WorkerFields DEF RpcInv, ServiceInv, Owes

LEMMA RpcInitially == RpcInit => RpcInv
<1> SUFFICES ASSUME RpcInit
             PROVE  RpcInv
  OBVIOUS
<1>1. ClientInv
  BY ClientInitially DEF RpcInit
<1>2. ServiceTypes
  <2>1. requests \in [Servers -> Seq(Ids)]
    <3>1. <<>> \in Seq(Ids)
      OBVIOUS
    <3> QED
      BY <3>1 DEF RpcInit
  <2>2. stx \in [Servers -> BOOLEAN]
    BY DEF RpcInit
  <2>3. sworker \in [Servers -> Workers]
    BY NewWorkerOK DEF RpcInit
  <2> QED
    BY <2>1, <2>2, <2>3 DEF ServiceTypes
<1>3. ASSUME NEW s \in Servers
      PROVE  ServiceInv(s)
  <2>1. /\ sworker[s] = NewWorker
        /\ NewWorker.ch.queue = <<>>
        /\ requests[s] = <<>>
    BY DEF RpcInit, NewWorker, EmptyChannel
  <2>2. Owed(Owes(s), <<>>, <<>>)
    BY NothingQueued DEF Owed, Increasing
  <2> QED
    BY <2>1, <2>2, NewWorkerOK DEF ServiceInv
<1> QED
  BY <1>1, <1>2, <1>3 DEF RpcInv

(***************************************************************************)
(* A step that concerns one service at most leaves the others as they are. *)
(***************************************************************************)
LEMMA OneService ==
  ASSUME RpcInv, ClientInv', NEW s \in Servers,
         NEW held, NEW sender, NEW w,
         held \in Seq(Ids), sender \in BOOLEAN, w \in Workers, WorkerInv(w),
         requests' = [requests EXCEPT ![s] = held],
         stx' = [stx EXCEPT ![s] = sender],
         sworker' = [sworker EXCEPT ![s] = w],
         Owed(Owes(s)', w.ch.queue, held),
         \A t \in Servers \ {s} : Owes(t)' = Owes(t)
  PROVE  RpcInv'
<1>1. ServiceTypes'
  BY DEF RpcInv, ServiceTypes
<1>2. sworker'[s] = w /\ requests'[s] = held
  BY DEF RpcInv, ServiceTypes
<1>3. ServiceInv(s)'
  BY <1>2 DEF ServiceInv
<1>4. ASSUME NEW t \in Servers, t # s
      PROVE  ServiceInv(t)'
  <2>1. sworker'[t] = sworker[t] /\ requests'[t] = requests[t] /\ Owes(t)' = Owes(t)
    BY <1>4 DEF RpcInv, ServiceTypes
  <2> QED
    BY <2>1 DEF RpcInv, ServiceInv
<1> QED
  BY <1>1, <1>3, <1>4 DEF RpcInv

(***************************************************************************)
(* The request of a call that was not made yet is the latest of them all.  *)
(***************************************************************************)
LEMMA SendToServersKeeps ==
  ASSUME RpcInv, ClientInv', NEW id \in Ids, SendToServers(id)
  PROVE  RpcInv'
<1>1. /\ call[id] = "none"
      /\ asked' = [asked EXCEPT ![id] = Servers]
      /\ requests' = [s \in Servers |-> KeepLast(requests[s], RequestDepth, id)]
      /\ UNCHANGED <<stx, sworker>>
  BY DEF SendToServers, SendRequest
<1>2. ASSUME NEW s \in Servers
      PROVE  /\ Owes(s)' = Owes(s) \cup {id}
             /\ \A x \in Owes(s) : x < id
  <2>1. Owes(s)' = Owes(s) \cup {id}
    BY <1>1 DEF Owes, RpcInv, ClientInv, TypeOK
  <2>2. \A x \in Owes(s) : call[x] # "none" /\ x \in Ids
    BY DEF Owes, RpcInv, ClientInv, CallsInv
  <2>3. \A x \in Owes(s) : id \notin 1..x
    BY <1>1, <2>2 DEF RpcInv, ClientInv, CallsInv
  <2>4. \A x \in Owes(s) : x < id
    BY <2>2, <2>3, ClientAssumption DEF Ids
  <2> QED
    BY <2>1, <2>4
<1>3. ASSUME NEW s \in Servers
      PROVE  /\ requests'[s] \in Seq(Ids)
             /\ ServiceInv(s)'
  <2> DEFINE owes == Owes(s)
             queue == sworker[s].ch.queue
             held == requests[s]
             depth == RequestDepth
  <2>1. /\ owes \in SUBSET Ids /\ queue \in Seq(Nat) /\ held \in Seq(Ids)
        /\ Owed(owes, queue, held)
        /\ \A x \in owes : x < id
        /\ depth \in Nat \ {0}
    BY <1>2, ServiceFacts, RpcAssumption
  <2> HIDE DEF owes, queue, held, depth
  <2>2. /\ KeepLast(held, depth, id) \in Seq(Ids)
        /\ Owed(owes \cup {id}, queue, KeepLast(held, depth, id))
    BY <2>1, OwedGrows
  <2>3. requests'[s] = KeepLast(held, depth, id)
    BY <1>1 DEF held, depth
  <2>4. WorkerInv(sworker[s])
    BY ServiceFacts
  <2>5. Owed(Owes(s)', sworker'[s].ch.queue, requests'[s])
    BY <1>1, <1>2, <2>2, <2>3 DEF owes, queue
  <2> QED
    BY <1>1, <2>2, <2>3, <2>4, <2>5 DEF ServiceInv
<1>4. requests' \in [Servers -> Seq(Ids)]
  BY <1>1, <1>3
<1>5. ServiceTypes'
  BY <1>1, <1>4 DEF RpcInv, ServiceTypes
<1> QED
  BY <1>3, <1>5 DEF RpcInv

\* The executor of a server.
LEMMA InvokeServiceKeeps ==
  ASSUME RpcInv, ClientInv', NEW s \in Servers, InvokeService(s)
  PROVE  RpcInv'
<1> DEFINE w == sworker[s]
           held == requests[s]
           id == Head(held)
           next == IF Accepts(w.ch, "invoker") THEN Offered(w, id) ELSE w
           sender == IF Accepts(w.ch, "invoker") THEN stx[s] ELSE FALSE
<1>1. /\ w \in Workers /\ WorkerInv(w) /\ w.ch.queue \in Seq(Nat)
      /\ held \in Seq(Ids) /\ held # <<>>
      /\ Owes(s) \in SUBSET Ids
      /\ Owed(Owes(s), w.ch.queue, held)
  BY ServiceFacts DEF InvokeService
<1>2. /\ id \in Ids
      /\ Tail(held) \in Seq(Ids)
      /\ Owed(Owes(s), Append(w.ch.queue, id), Tail(held))
      /\ Owed(Owes(s), w.ch.queue, Tail(held))
  BY <1>1, OwedMoves
<1>3. \A t \in Servers : Owes(t)' = Owes(t)
  BY DEF InvokeService, vars, Owes
<1>4. /\ requests' = [requests EXCEPT ![s] = Tail(held)]
      /\ stx' = [stx EXCEPT ![s] = sender]
      /\ sworker' = [sworker EXCEPT ![s] = next]
  BY DEF InvokeService, RpcInv, ServiceTypes
<1>5. /\ next \in Workers /\ WorkerInv(next)
      /\ Owed(Owes(s)', next.ch.queue, Tail(held))
  <2>1. CASE Accepts(w.ch, "invoker")
    <3>1. id \in Nat \ {Terminate}
      BY <1>2, IdsAreMessages
    <3> HIDE DEF id, w
    <3>2. /\ Offered(w, id) \in Workers
          /\ WorkerInv(Offered(w, id))
          /\ Offered(w, id).ch.queue = Append(w.ch.queue, id)
      BY <1>1, <2>1, <3>1, OfferedOK
    <3> QED
      BY <1>2, <1>3, <2>1, <3>2
  <2>2. CASE ~Accepts(w.ch, "invoker")
    BY <1>1, <1>2, <1>3, <2>2
  <2> QED
    BY <2>1, <2>2
<1>6. sender \in BOOLEAN
  BY DEF RpcInv, ServiceTypes
<1> HIDE DEF w, held, id, next, sender
<1> QED
  BY <1>2, <1>3, <1>4, <1>5, <1>6, OneService

LEMMA DropServiceInvokerKeeps ==
  ASSUME RpcInv, ClientInv', NEW s \in Servers, DropServiceInvoker(s)
  PROVE  RpcInv'
<1>1. \A t \in Servers : Owes(t)' = Owes(t)
  BY DEF DropServiceInvoker, vars, Owes
<1>2. ServiceTypes'
  BY DEF RpcInv, ServiceTypes, DropServiceInvoker
<1>3. \A t \in Servers : ServiceInv(t)'
  BY <1>1 DEF RpcInv, ServiceInv, DropServiceInvoker
<1> QED
  BY <1>2, <1>3 DEF RpcInv

\* The handle of a service is dropped.
LEMMA DropServiceKeeps ==
  ASSUME RpcInv, ClientInv', NEW s \in Servers, DropService(s)
  PROVE  RpcInv'
<1> DEFINE w == sworker[s]
           next == OwnerDropped(w)
           held == requests[s]
           sender == stx[s]
<1>1. /\ w \in Workers /\ WorkerInv(w) /\ w.owner /\ w.ch.queue \in Seq(Nat)
      /\ held \in Seq(Ids)
      /\ Owes(s) \in SUBSET Ids
      /\ Owed(Owes(s), w.ch.queue, held)
  BY ServiceFacts DEF DropService
<1>2. /\ next \in Workers
      /\ WorkerInv(next)
      /\ \/ next.ch.queue = w.ch.queue
         \/ next.ch.queue = Append(w.ch.queue, Terminate)
  BY <1>1, OwnerDroppedOK
<1>3. \A t \in Servers : Owes(t)' = Owes(t)
  BY DEF DropService, vars, Owes
<1>4. /\ requests' = [requests EXCEPT ![s] = held]
      /\ stx' = [stx EXCEPT ![s] = sender]
      /\ sworker' = [sworker EXCEPT ![s] = next]
  BY DEF DropService, RpcInv, ServiceTypes
<1>5. sender \in BOOLEAN
  BY DEF RpcInv, ServiceTypes
<1> HIDE DEF w, held, sender, next
<1>6. Owed(Owes(s)', next.ch.queue, held)
  <2>1. Owed(Owes(s), Append(w.ch.queue, Terminate), held)
    BY <1>1, OwedEnds
  <2> QED
    BY <1>1, <1>2, <1>3, <2>1
<1> QED
  BY <1>1, <1>2, <1>3, <1>4, <1>5, <1>6, OneService

(***************************************************************************)
(* The task of a service.                                                  *)
(***************************************************************************)
LEMMA ServiceRespondsKeeps ==
  ASSUME RpcInv, ClientInv', NEW s \in Servers, NEW id \in Ids, ServiceResponds(s, id)
  PROVE  RpcInv'
<1> DEFINE w == sworker[s]
           next == [Received(w) EXCEPT !.task = "idle"]
           held == requests[s]
           sender == stx[s]
           queue == w.ch.queue
<1>1. /\ w \in Workers /\ WorkerInv(w) /\ CanReceive(w) /\ queue \in Seq(Nat)
      /\ held \in Seq(Ids)
      /\ Owes(s) \in SUBSET Ids
      /\ Owed(Owes(s), queue, held)
      /\ queue # <<>> /\ Head(queue) = id /\ id # Terminate
  BY ServiceFacts, IdsAreMessages DEF ServiceResponds, Request, CanReceive
<1>2. next \in Workers /\ WorkerInv(next) /\ next.ch.queue = Tail(queue)
  BY <1>1, Handled
<1>3. /\ requests' = [requests EXCEPT ![s] = held]
      /\ stx' = [stx EXCEPT ![s] = sender]
      /\ sworker' = [sworker EXCEPT ![s] = next]
  BY DEF ServiceResponds, RpcInv, ServiceTypes
<1>4. sender \in BOOLEAN
  BY DEF RpcInv, ServiceTypes
<1>5. asked' = [asked EXCEPT ![id] = @ \ {s}]
  BY DEF ServiceResponds, Respond
<1>6. Owes(s)' = Owes(s) \ {id} /\ \A t \in Servers \ {s} : Owes(t)' = Owes(t)
  BY <1>5 DEF Owes, RpcInv, ClientInv, TypeOK
<1> HIDE DEF w, held, sender, next, queue
<1>7. Owed(Owes(s) \ {id}, Tail(queue), held)
  BY <1>1, OwedPaid
<1>8. Owed(Owes(s)', next.ch.queue, held)
  BY <1>2, <1>6, <1>7
<1> QED
  BY <1>1, <1>2, <1>3, <1>4, <1>6, <1>8, OneService

\* send_response fails, or the task leaves its loop.
LEMMA ServiceEndsKeeps ==
  ASSUME RpcInv, ClientInv', NEW s \in Servers,
         ServiceStops(s) \/ \E id \in Ids : ServicePanics(s, id)
  PROVE  RpcInv'
<1> DEFINE w == sworker[s]
           next == TaskGone(Received(w))
           held == requests[s]
           sender == stx[s]
<1>1. /\ w \in Workers /\ WorkerInv(w) /\ CanReceive(w) /\ w.ch.queue \in Seq(Nat)
      /\ held \in Seq(Ids)
      /\ Owes(s) \in SUBSET Ids
      /\ Owed(Owes(s), w.ch.queue, held)
  BY ServiceFacts DEF ServiceStops, ServicePanics, Request
<1>2. next \in Workers /\ WorkerInv(next) /\ next.ch.queue = <<>>
  BY <1>1, Ended
<1>3. \A t \in Servers : Owes(t)' = Owes(t)
  BY DEF ServiceStops, ServicePanics, vars, Owes
<1>4. /\ requests' = [requests EXCEPT ![s] = held]
      /\ stx' = [stx EXCEPT ![s] = sender]
      /\ sworker' = [sworker EXCEPT ![s] = next]
  BY DEF ServiceStops, ServicePanics, RpcInv, ServiceTypes
<1>5. sender \in BOOLEAN
  BY DEF RpcInv, ServiceTypes
<1> HIDE DEF w, held, sender, next
<1>6. Owed(Owes(s)', next.ch.queue, held)
  BY <1>1, <1>2, <1>3, OwedEnds
<1> QED
  BY <1>1, <1>2, <1>3, <1>4, <1>5, <1>6, OneService

\* The client takes steps that leave the services alone, and what they owe.
LEMMA ClientStepKeeps ==
  ASSUME RpcInv, ClientInv', asked' = asked, UNCHANGED serviceVars
  PROVE  RpcInv'
<1>1. \A t \in Servers : Owes(t)' = Owes(t)
  BY DEF Owes
<1>2. ServiceTypes'
  BY DEF RpcInv, ServiceTypes, serviceVars
<1>3. \A t \in Servers : ServiceInv(t)'
  BY <1>1 DEF RpcInv, ServiceInv, serviceVars
<1> QED
  BY <1>2, <1>3 DEF RpcInv

LEMMA RpcKeeps ==
  ASSUME RpcInv, [RpcNext]_rpcVars
  PROVE  RpcInv'
<1>0. ClientInv'
  BY RpcStepIsClientStep, ClientKeeps DEF RpcInv
<1>1. CASE UNCHANGED rpcVars
  BY <1>0, <1>1, ClientStepKeeps DEF rpcVars, vars
<1>2. CASE ClientStep /\ UNCHANGED serviceVars
  <2>1. asked' = asked
    BY <1>2 DEF ClientStep, InsertPending, Return, ReturnResponse, ReturnError, Cancel, Callback, CallbackAnswers,
       CallbackFailsToSend, CallbackFindsNoKey, Invoke, DropInvoker, TaskStops, DropClient
  <2> QED
    BY <1>0, <1>2, <2>1, ClientStepKeeps
<1>3. ASSUME NEW id \in Ids, SendToServers(id)
      PROVE  RpcInv'
  BY <1>0, <1>3, SendToServersKeeps
<1>4. ASSUME NEW s \in Servers, InvokeService(s) \/ DropServiceInvoker(s) \/ DropService(s)
      PROVE  RpcInv'
  BY <1>0, <1>4, InvokeServiceKeeps, DropServiceInvokerKeeps, DropServiceKeeps
<1>5. ASSUME NEW s \in Servers, ServiceTask(s)
      PROVE  RpcInv'
  BY <1>0, <1>5, ServiceRespondsKeeps, ServiceEndsKeeps DEF ServiceTask
<1> QED
  BY <1>1, <1>2, <1>3, <1>4, <1>5 DEF RpcNext

LEMMA RpcInvariance == RpcSpec => []RpcInv
BY RpcInitially, RpcKeeps, PTL DEF RpcSpec

---------------------------------------------------------------------------
(***************************************************************************)
(* Rpc keeps its types.                                                    *)
(***************************************************************************)
THEOREM RpcTypeCorrect == RpcSpec => []RpcTypeOK
<1>1. RpcInv => RpcTypeOK
  BY DEF RpcInv, ClientInv, ServiceTypes, RpcTypeOK
<1> QED
  BY <1>1, RpcInvariance, PTL

(***************************************************************************)
(* A service owes an answer to what is on its way to the callback, in the  *)
(* order of the calls: no request is handed over twice, none after its     *)
(* answer (service/invoker.rs:56-89, service/mod.rs:58-61), whatever is    *)
(* forgotten, dropped or panics on the way.                                *)
(***************************************************************************)
THEOREM AnswersOwedAlways == RpcSpec => []AnswersOwed
<1>1. ASSUME RpcInv, NEW s \in Servers
      PROVE  LET way    == OnTheWay(s)
                 places == {i \in DOMAIN way : way[i] # Terminate}
             IN  /\ \A i \in places : s \in asked[way[i]]
                 /\ \A i, j \in places : i < j => way[i] < way[j]
  <2> DEFINE owes == Owes(s)
             queue == sworker[s].ch.queue
             held == requests[s]
             way == queue \o held
             places == {i \in DOMAIN way : way[i] # Terminate}
  <2>1. owes \in SUBSET Ids /\ queue \in Seq(Nat) /\ held \in Seq(Ids) /\ Owed(owes, queue, held)
    BY <1>1, ServiceFacts
  <2> HIDE DEF owes, queue, held
  <2>2. /\ \A i \in places : way[i] \in owes
        /\ \A i, j \in places : i < j => way[i] < way[j]
    BY <2>1, OwedWay
  <2>3. OnTheWay(s) = way
    BY DEF OnTheWay, queue, held
  <2> HIDE DEF way
  <2>4. \A i \in places : s \in asked[way[i]]
    BY <2>2 DEF owes, Owes
  <2> QED
    BY <2>2, <2>3, <2>4
<1>2. RpcInv => AnswersOwed
  BY <1>1 DEF AnswersOwed
<1> QED
  BY <1>2, RpcInvariance, PTL
==============================================================================
