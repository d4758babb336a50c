--------------------------------- MODULE Rpc ---------------------------------
(***************************************************************************)
(* A client and the services that answer it, end to end.  Client leaves    *)
(* the servers open: any of them may answer at any time or never.  Here    *)
(* they are the services of service/mod.rs, and a request travels          *)
(*   send_request -> rmw -> ServiceInvoker in the executor of the server   *)
(*   -> worker -> callback -> send_response -> rmw of the client           *)
(* before the answer takes the way that Client models.  A server in        *)
(* another language has an invoker, a queue and a callback of its own; it  *)
(* is only its texts that need not be UTF-8 (Garbled).                     *)
(***************************************************************************)
EXTENDS Client

CONSTANTS
  RequestDepth,   \* requests rmw keeps for a service
  Unsteady        \* servers that may drop their service or end their executor, and
                  \* for which rcl_send_response may fail

ASSUME RpcAssumption == RequestDepth \in Nat \ {0} /\ Unsteady \subseteq Servers

VARIABLES
  requests,   \* requests that rmw holds for a service
  stx,        \* its invoker's Option<Sender> is Some
  sworker     \* its worker

serviceVars == <<requests, stx, sworker>>
rpcVars == <<vars, serviceVars>>

RpcInit ==
  /\ Init
  /\ requests = [s \in Servers |-> <<>>]
  /\ stx = [s \in Servers |-> TRUE]
  /\ sworker = [s \in Servers |-> NewWorker]

KeepLast(queue, depth, m) == Append(IF Len(queue) < depth THEN queue ELSE Tail(queue), m)

\* Every service with the name of the client gets the request.
SendToServers(id) ==
  /\ SendRequest(id)
  /\ requests' = [s \in Servers |-> KeepLast(requests[s], RequestDepth, id)]
  /\ UNCHANGED <<stx, sworker>>

---------------------------------------------------------------------------
(***************************************************************************)
(* The executor of the server: ServiceInvoker::invoke.                     *)
(***************************************************************************)
InvokeServiceSwapped(s) ==   \* mutated form of InvokeService: the arms of the match
  /\ stx[s] /\ requests[s] # <<>>
  /\ requests' = [requests EXCEPT ![s] = Tail(@)]
  /\ stx' = [stx EXCEPT ![s] = ~Accepts(sworker[s].ch, "invoker")]
  /\ UNCHANGED <<vars, sworker>>

\* The sender is lost to stop(), or with the executor when the queue is full.
InvokeService(s) ==
  /\ stx[s] /\ requests[s] # <<>>
  /\ requests' = [requests EXCEPT ![s] = Tail(@)]
  /\ IF Accepts(sworker[s].ch, "invoker")
     THEN /\ sworker' = [sworker EXCEPT ![s] = Offered(@, Head(requests[s]))]
          /\ UNCHANGED stx
     ELSE stx' = [stx EXCEPT ![s] = FALSE] /\ UNCHANGED sworker
  /\ UNCHANGED vars

DropServiceInvoker(s) ==
  /\ s \in Unsteady /\ stx[s]
  /\ stx' = [stx EXCEPT ![s] = FALSE]
  /\ UNCHANGED <<vars, requests, sworker>>

---------------------------------------------------------------------------
(***************************************************************************)
(* The task of a service: the callback computes the response and sends it. *)
(***************************************************************************)
Request(s, id) == CanReceive(sworker[s]) /\ Head(sworker[s].ch.queue) = id

RespondsAgain(s, id) ==   \* mutated form of ServiceResponds: the request stays queued
  /\ Request(s, id)
  /\ Respond(id, s)
  /\ UNCHANGED serviceVars

ServiceResponds(s, id) ==
  /\ Request(s, id)
  /\ Respond(id, s)
  /\ sworker' = [sworker EXCEPT ![s] = [Received(@) EXCEPT !.task = "idle"]]
  /\ UNCHANGED <<requests, stx>>

\* The callback panics: to_rust() at a request that is not UTF-8 (node.rs:441),
\* or send_response(..).unwrap(); the client is not answered.
ServicePanics(s, id) ==
  /\ s \in Unsteady /\ Request(s, id)
  /\ sworker' = [sworker EXCEPT ![s] = TaskGone(Received(@))]
  /\ UNCHANGED <<vars, requests, stx>>

ServiceStops(s) ==
  /\ Request(s, Terminate)
  /\ sworker' = [sworker EXCEPT ![s] = TaskGone(Received(@))]
  /\ UNCHANGED <<vars, requests, stx>>

DropService(s) ==
  /\ s \in Unsteady /\ sworker[s].owner
  /\ sworker' = [sworker EXCEPT ![s] = OwnerDropped(@)]
  /\ UNCHANGED <<vars, requests, stx>>

---------------------------------------------------------------------------
ServiceTask(s) == ServiceStops(s) \/ \E id \in Ids : ServiceResponds(s, id) \/ ServicePanics(s, id)

ClientStep ==
  \/ \E id \in Ids : InsertPending(id) \/ Return(id) \/ Cancel(id) \/ Callback(id)
  \/ Invoke \/ DropInvoker \/ TaskStops \/ DropClient

RpcNext ==
  \/ ClientStep /\ UNCHANGED serviceVars
  \/ \E id \in Ids : SendToServers(id)
  \/ \E s \in Servers : InvokeService(s) \/ DropServiceInvoker(s) \/ DropService(s) \/ ServiceTask(s)

\* To the fairness of FairSpec, that of the server's executor and runtime.
RpcSpec ==
  /\ RpcInit /\ [][RpcNext]_rpcVars
  /\ WF_rpcVars(Invoke /\ UNCHANGED serviceVars)
  /\ WF_rpcVars((TaskStops \/ \E id \in Ids : Callback(id)) /\ UNCHANGED serviceVars)
  /\ WF_rpcVars((\E id \in Ids : InsertPending(id) \/ Return(id)) /\ UNCHANGED serviceVars)
  /\ \A s \in Servers : WF_rpcVars(InvokeService(s)) /\ WF_rpcVars(ServiceTask(s))

---------------------------------------------------------------------------
RpcTypeOK ==
  /\ TypeOK
  /\ requests \in [Servers -> Seq(Ids)]
  /\ stx \in [Servers -> BOOLEAN]
  /\ sworker \in [Servers -> Workers]

(***************************************************************************)
(* A service owes an answer to what is on its way to the callback, and to  *)
(* each of it once: no request is handed over twice, none after its answer *)
(* (service/invoker.rs:56-89, service/mod.rs:58-61).                       *)
(***************************************************************************)
OnTheWay(s) == sworker[s].ch.queue \o requests[s]

AnswersOwed ==
  \A s \in Servers :
    LET way    == OnTheWay(s)
        places == {i \in DOMAIN way : way[i] # Terminate}
    IN  /\ \A i \in places : s \in asked[way[i]]
        /\ \A i, j \in places : i < j => way[i] < way[j]

(***************************************************************************)
(* A call that waits returns, unless its future is dropped, the worker of  *)
(* the client has panicked, or no answer is on its way and none will come: *)
(* the executor of the client is gone, or every service was dropped, lost  *)
(* its executor or panicked.  No history, queue or late answer to an       *)
(* earlier call makes a request or its response get lost                   *)
(* (client/mod.rs:94-100).                                                 *)
(***************************************************************************)
Silent(s) == s \in Unsteady /\ (~stx[s] \/ sworker[s].task = "gone" \/ ~sworker[s].owner)

Lost(id) ==
  /\ ~Queued(id)
  /\ ~tx \/ \A s \in Servers : Silent(s)
  /\ tx => \A i \in DOMAIN inbox : inbox[i] # id

CallReturns ==
  \A id \in Ids :
    call[id] = "awaiting" ~> call[id] # "awaiting" \/ poisoned \/ Lost(id)
==============================================================================
