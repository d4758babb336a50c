------------------------------- MODULE Client -------------------------------
(***************************************************************************)
(* client/mod.rs: Client::send_request and the callback of its worker meet *)
(* in a map of pending requests behind a mutex.  A request travels         *)
(*   send_request (rcl) -> servers -> rmw -> ClientInvoker in the executor *)
(*   -> worker -> callback -> oneshot channel -> send_request (await)      *)
(* and is identified by the sequence number that rcl gives it: 1, 2, ...   *)
(*                                                                         *)
(* send_request takes &mut self, so one call is in progress at a time; but *)
(* its future may be dropped at the await, as a timeout around it does.    *)
(***************************************************************************)
EXTENDS Worker, FiniteSets

CONSTANTS
  MaxRequests,   \* bound on the calls of send_request
  Servers,       \* the servers that offer the service
  Depth,         \* responses rmw keeps for the client
  MultiThread,   \* tasks of the Tokio runtime run on more than one thread
  MayCancel,     \* the user drops futures of send_request before their end
  Garbled        \* requests to which a response may hold text that is not UTF-8, as a
                 \* server in C or C++ may send it

ASSUME ClientAssumption ==
  /\ MaxRequests \in Nat
  /\ IsFiniteSet(Servers)
  /\ Depth \in Nat \ {0}
  /\ MultiThread \in BOOLEAN
  /\ MayCancel \in BOOLEAN
  /\ Garbled \subseteq Nat

Ids == 1..MaxRequests

VARIABLES
  call,      \* what became of the call of send_request with this number
  asked,     \* the servers that have yet to answer the request
  inbox,     \* responses that rmw holds for the client
  tx,        \* the invoker's Option<Sender> is Some
  worker,    \* the worker of the client
  pendings,  \* the keys of the map of pending requests
  answers,   \* requests whose oneshot channel holds the response
  poisoned   \* the mutex of the map is poisoned

vars == <<call, asked, inbox, tx, worker, pendings, answers, poisoned>>

Init ==
  /\ call = [id \in Ids |-> "none"]
  /\ asked = [id \in Ids |-> {}]
  /\ inbox = <<>>
  /\ tx = TRUE
  /\ worker = NewWorker
  /\ pendings = {}
  /\ answers = {}
  /\ poisoned = FALSE

InProgress == \E id \in Ids : call[id] \in {"sent", "awaiting"}

---------------------------------------------------------------------------
(***************************************************************************)
(* The user's task.                                                        *)
(***************************************************************************)
\* self.handle.send_request: rcl sends the request and numbers it.
SendRequest(id) ==
  /\ worker.owner /\ ~InProgress
  /\ call[id] = "none" /\ \A prev \in 1..(id - 1) : call[prev] # "none"
  /\ call' = [call EXCEPT ![id] = "sent"]
  /\ asked' = [asked EXCEPT ![id] = Servers]
  /\ UNCHANGED <<inbox, tx, worker, pendings, answers, poisoned>>

InsertNextNumber(id) ==   \* mutated form of InsertPending: off by one
  /\ call[id] = "sent"
  /\ IF poisoned
     THEN call' = [call EXCEPT ![id] = "panicked"] /\ UNCHANGED pendings
     ELSE call' = [call EXCEPT ![id] = "awaiting"] /\ pendings' = pendings \cup {id + 1}
  /\ UNCHANGED <<asked, inbox, tx, worker, answers, poisoned>>

\* self.pendings.lock().unwrap().insert(id, tx), then the await.
InsertPending(id) ==
  /\ call[id] = "sent"
  /\ IF poisoned
     THEN call' = [call EXCEPT ![id] = "panicked"] /\ UNCHANGED pendings
     ELSE call' = [call EXCEPT ![id] = "awaiting"] /\ pendings' = pendings \cup {id}
  /\ UNCHANGED <<asked, inbox, tx, worker, answers, poisoned>>

\* rx.await yields the response.
ReturnResponse(id) ==
  /\ call[id] = "awaiting" /\ id \in answers
  /\ call' = [call EXCEPT ![id] = "answered"]
  /\ UNCHANGED <<asked, inbox, tx, worker, pendings, answers, poisoned>>

\* rx.await fails: the callback took the sending end from the map and dropped it.
ReturnError(id) ==
  /\ call[id] = "awaiting" /\ id \notin answers /\ id \notin pendings
  /\ call' = [call EXCEPT ![id] = "failed"]
  /\ UNCHANGED <<asked, inbox, tx, worker, pendings, answers, poisoned>>

\* The future is dropped, and the receiving end of the oneshot with it.
Cancel(id) ==
  /\ MayCancel /\ call[id] = "awaiting"
  /\ call' = [call EXCEPT ![id] = "cancelled"]
  /\ UNCHANGED <<asked, inbox, tx, worker, pendings, answers, poisoned>>

DropClient ==
  /\ worker.owner /\ ~InProgress
  /\ worker' = OwnerDropped(worker)
  /\ UNCHANGED <<call, asked, inbox, tx, pendings, answers, poisoned>>

---------------------------------------------------------------------------
\* A server answers a request; rmw's history is KeepLast(Depth).
Respond(id, s) ==
  /\ s \in asked[id]
  /\ asked' = [asked EXCEPT ![id] = @ \ {s}]
  /\ inbox' = Append(IF Len(inbox) < Depth THEN inbox ELSE Tail(inbox), id)
  /\ UNCHANGED <<call, tx, worker, pendings, answers, poisoned>>

---------------------------------------------------------------------------
(***************************************************************************)
(* The executor thread: ClientInvoker::invoke.                             *)
(***************************************************************************)
Invoke ==
  /\ tx /\ inbox # <<>>
  /\ inbox' = Tail(inbox)
  /\ IF Accepts(worker.ch, "invoker")
     THEN worker' = Offered(worker, Head(inbox)) /\ UNCHANGED tx
     ELSE tx' = FALSE /\ UNCHANGED worker   \* stop(), or the executor fails
  /\ UNCHANGED <<call, asked, pendings, answers, poisoned>>

\* The executor ends and drops the invoker.
DropInvoker ==
  /\ tx
  /\ tx' = FALSE
  /\ UNCHANGED <<call, asked, inbox, worker, pendings, answers, poisoned>>

---------------------------------------------------------------------------
(***************************************************************************)
(* The worker's task.  Received and the callback are one step: the only    *)
(* state the callback shares is the map, which it holds locked throughout. *)
(* With a single thread no task runs between the sending of a request and  *)
(* the insertion of its number: there is no await between them.  The task  *)
(* never meets a poisoned mutex, since only its own panic poisons it.      *)
(* res.to_rust() is evaluated with the entry removed and the lock held: on *)
(* text that is not UTF-8 it panics there, and unwinding drops the sending *)
(* end of the oneshot channel.                                             *)
(***************************************************************************)
MayRun == MultiThread \/ \A id \in Ids : call[id] # "sent"

Response(id) == MayRun /\ CanReceive(worker) /\ Head(worker.ch.queue) = id

CallbackKeepsEntry(id) ==   \* mutated form: get instead of remove
  /\ Response(id)
  /\ id \in pendings /\ call[id] = "awaiting"
  /\ answers' = answers \cup {id}
  /\ worker' = [Received(worker) EXCEPT !.task = "idle"]
  /\ UNCHANGED <<call, asked, inbox, tx, pendings, poisoned>>

CallbackAnswers(id) ==
  /\ Response(id)
  /\ id \in pendings /\ call[id] = "awaiting"
  /\ pendings' = pendings \ {id}
  /\ answers' = answers \cup {id}
  /\ worker' = [Received(worker) EXCEPT !.task = "idle"]
  /\ UNCHANGED <<call, asked, inbox, tx, poisoned>>

\* res.to_rust() panics; or the receiving end is gone: "fail to send response via channel".
CallbackFailsToSend(id) ==
  /\ Response(id)
  /\ id \in pendings
  /\ id \in Garbled \/ call[id] # "awaiting"
  /\ pendings' = pendings \ {id}
  /\ worker' = TaskGone(Received(worker))
  /\ poisoned' = TRUE
  /\ UNCHANGED <<call, asked, inbox, tx, answers>>

\* "fail to find key".
CallbackFindsNoKey(id) ==
  /\ Response(id)
  /\ id \notin pendings
  /\ worker' = TaskGone(Received(worker))
  /\ poisoned' = TRUE
  /\ UNCHANGED <<call, asked, inbox, tx, pendings, answers>>

TaskStops ==
  /\ MayRun /\ CanReceive(worker) /\ Head(worker.ch.queue) = Terminate
  /\ worker' = TaskGone(Received(worker))
  /\ UNCHANGED <<call, asked, inbox, tx, pendings, answers, poisoned>>

---------------------------------------------------------------------------
Return(id) == ReturnResponse(id) \/ ReturnError(id)
Call(id) == SendRequest(id) \/ InsertPending(id) \/ Return(id) \/ Cancel(id)
Callback(id) == CallbackAnswers(id) \/ CallbackFailsToSend(id) \/ CallbackFindsNoKey(id)

Next ==
  \/ \E id \in Ids : Call(id) \/ Callback(id)
  \/ \E id \in Ids : \E s \in Servers : Respond(id, s)
  \/ Invoke \/ DropInvoker \/ TaskStops \/ DropClient

Spec == Init /\ [][Next]_vars

\* The executor takes what is ready as long as it runs, Tokio polls ready
\* tasks; servers owe no answer, the user no further step.
FairSpec ==
  /\ Spec
  /\ WF_vars(Invoke)
  /\ WF_vars(TaskStops \/ \E id \in Ids : Callback(id))
  /\ WF_vars(\E id \in Ids : InsertPending(id) \/ Return(id))

---------------------------------------------------------------------------
Calls == {"none", "sent", "awaiting", "answered", "failed", "cancelled", "panicked"}

TypeOK ==
  /\ call \in [Ids -> Calls]
  /\ asked \in [Ids -> SUBSET Servers]
  /\ inbox \in Seq(Ids)
  /\ tx \in BOOLEAN
  /\ worker \in Workers
  /\ pendings \in SUBSET Ids
  /\ answers \in SUBSET Ids
  /\ poisoned \in BOOLEAN

(***************************************************************************)
(* The map holds exactly the calls that wait for their response, apart     *)
(* from cancelled ones (client/mod.rs:57-60, 97): no waiting call is       *)
(* forgotten, but the one whose answer could not be read, which is about   *)
(* to fail, and no finished call leaves its entry behind.                  *)
(***************************************************************************)
PendingsExact ==
  /\ \A id \in Ids :
       call[id] = "awaiting" /\ id \notin answers => id \in pendings \/ (id \in Garbled /\ poisoned)
  /\ \A id \in pendings : call[id] \in {"awaiting", "cancelled"} /\ id \notin answers

(***************************************************************************)
(* The worker of a client panics, and the mutex is poisoned, only at a     *)
(* response that cannot be read as UTF-8 text, at one to a cancelled call, *)
(* at one that overtook the insertion of its number on another thread, or  *)
(* at the second answer to a call that two servers answer.  A program on a *)
(* current-thread runtime that never drops the future, with one server     *)
(* whose texts are UTF-8, meets no panic of client/mod.rs:57-65.           *)
(***************************************************************************)
BreaksWithCause ==
  [][~poisoned /\ poisoned' =>
       \E id \in Ids :
         /\ Response(id)
         /\ \/ id \in Garbled /\ id \in pendings
            \/ call[id] = "cancelled"
            \/ MultiThread /\ call[id] = "sent"
            \/ Cardinality(Servers) > 1 /\ id \in answers]_vars

\* The response to a call is in the worker's queue.
Queued(id) == \E i \in DOMAIN worker.ch.queue : worker.ch.queue[i] = id

(***************************************************************************)
(* What a panic of the callback asserts ("fail to find key in              *)
(* Client::process_requests", client/mod.rs:61): the response it is given  *)
(* belongs to a pending call.                                              *)
(***************************************************************************)
KeyIsFound ==
  \A id \in Ids : Response(id) => id \in pendings
==============================================================================
