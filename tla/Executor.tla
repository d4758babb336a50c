------------------------------ MODULE Executor ------------------------------
(***************************************************************************)
(* A Node, the thread that runs its Executor, the workers of its entities  *)
(* and the Context, with the user's thread calling Node's methods.         *)
(*                                                                         *)
(*   node.rs      Node::new, create_*, wait and Drop                       *)
(*   executor.rs  Executor::spin and spin_some                             *)
(*   wait_set.rs  the wait set built anew for every round                  *)
(*   invoker.rs   (subscription, client, service), timer.rs: the invokers  *)
(*   worker.rs    the worker of every entity (module Worker)               *)
(*                                                                         *)
(* An entity is a subscription, a timer, a client or a service.  Messages  *)
(* are not told apart here (ReceiveWorker does that).                      *)
(***************************************************************************)
EXTENDS Worker, FiniteSets

CONSTANTS
  Subscriptions, Timers, Clients, Services,  \* the entities the user may create
  Spurious,     \* the entities rcl_wait may report ready without a message
  NodeBuffer,   \* mpsc::channel(10) in Node::new
  Depth,        \* messages rmw keeps for an entity that does not take them
  MaxArrivals   \* bound on the messages that arrive for one entity

Entities == Subscriptions \cup Timers \cup Clients \cup Services

\* A clock tells a timer is due, never spuriously: rcl computes it itself.
ASSUME EntitiesAssumption ==
  /\ Spurious \subseteq Entities \ Timers
  /\ "terminate" \notin Entities

ASSUME BoundsAssumption ==
  /\ NodeBuffer \in Nat
  /\ Depth \in Nat \ {0}
  /\ MaxArrivals \in Nat

VARIABLES
  valid,     \* rcl_context_is_valid
  node,      \* what the thread that owns the Node is doing with it
  panics,    \* panics of that thread: 1 it is unwinding, 2 the process aborted
  joined,    \* wait() took the JoinHandle out of Node.wait_thread
  handle,    \* the user's Subscription, Timer, Client or Service
  nodeCh,    \* the channel from Node to Executor
  pc,        \* where the executor thread is
  result,    \* what Executor::spin returned
  invokers,  \* the four Vecs of the Executor, merged in order of registration
  todo,      \* the entities of this round whose invoke() is still to come
  tx,        \* the invoker's Option<Sender> is Some
  inbox,     \* messages held by rmw; for a timer 1 when it is due
  arrived,   \* messages that arrived so far
  worker     \* the worker of the entity

userVars == <<valid, node, panics, joined, handle>>
spinVars == <<pc, result, invokers, todo>>
vars == <<userVars, nodeCh, spinVars, tx, inbox, arrived, worker>>

Init ==
  /\ valid = TRUE
  /\ node = "idle"
  /\ panics = 0
  /\ joined = FALSE
  /\ handle = [e \in Entities |-> "absent"]
  /\ nodeCh = EmptyChannel
  /\ pc = "check"
  /\ result = "none"
  /\ invokers = <<>>
  /\ todo = {}
  /\ tx = [e \in Entities |-> FALSE]
  /\ inbox = [e \in Entities |-> 0]
  /\ arrived = [e \in Entities |-> 0]
  /\ worker = [e \in Entities |-> NewWorker]

---------------------------------------------------------------------------
(***************************************************************************)
(* The user.  Node's methods take &mut self: one is in progress at a time. *)
(* expect() and unwrap() panic; a panic while unwinding aborts.            *)
(***************************************************************************)
Panic == panics' = panics + 1

Alive == panics < 2          \* the process
NodeAt(state) == Alive /\ node = state

\* The first half of create_*: Subscription::new and its like, which fail
\* without any effect once the context is shut down.
Create(e) ==
  /\ NodeAt("idle") /\ panics = 0 /\ valid
  /\ handle[e] = "absent"
  /\ handle' = [handle EXCEPT ![e] = "creating"]
  /\ tx' = [tx EXCEPT ![e] = TRUE]
  /\ node' = "registering"
  /\ UNCHANGED <<valid, panics, joined, nodeCh, spinVars, inbox, arrived, worker>>

\* The second half: the invoker is sent to the executor.  If that is refused,
\* expect() panics, which drops the new entity and its invoker.
Sent(e) ==
  /\ nodeCh' = Push(nodeCh, NodeBuffer, "node", e)
  /\ handle' = [handle EXCEPT ![e] = "held"]
  /\ UNCHANGED <<panics, tx, worker>>

SendPanics(e) ==
  /\ Panic
  /\ handle' = [handle EXCEPT ![e] = "dropped"]
  /\ tx' = [tx EXCEPT ![e] = FALSE]
  /\ worker' = [worker EXCEPT ![e] = OwnerDropped(@)]
  /\ UNCHANGED nodeCh

RegisterExpectsValid(e) ==   \* mutated form: the context is asserted valid too
  /\ NodeAt("registering")
  /\ handle[e] = "creating"
  /\ node' = "idle"
  /\ IF valid /\ Accepts(nodeCh, "node") THEN Sent(e) ELSE SendPanics(e)
  /\ UNCHANGED <<valid, joined, spinVars, inbox, arrived>>

Register(e) ==
  /\ NodeAt("registering")
  /\ handle[e] = "creating"
  /\ node' = "idle"
  /\ IF Accepts(nodeCh, "node") THEN Sent(e) ELSE SendPanics(e)
  /\ UNCHANGED <<valid, joined, spinVars, inbox, arrived>>

\* A handle may be dropped by any thread, at any time after its creation.
DropHandle(e) ==
  /\ Alive /\ handle[e] = "held"
  /\ handle' = [handle EXCEPT ![e] = "dropped"]
  /\ worker' = [worker EXCEPT ![e] = OwnerDropped(@)]
  /\ UNCHANGED <<valid, node, panics, joined, nodeCh, spinVars, tx, inbox, arrived>>

\* Context::shutdown by any thread.
Shutdown ==
  /\ Alive /\ valid
  /\ valid' = FALSE
  /\ UNCHANGED <<node, panics, joined, handle, nodeCh, spinVars, tx, inbox, arrived, worker>>

\* wait() takes the JoinHandle and joins; called again it does nothing.
Wait ==
  /\ NodeAt("idle") /\ panics = 0 /\ ~joined
  /\ node' = "waiting"
  /\ joined' = TRUE
  /\ UNCHANGED <<valid, panics, handle, nodeCh, spinVars, tx, inbox, arrived, worker>>

\* The thread ended; an Err it may have returned is dropped unseen.
WaitReturns ==
  /\ NodeAt("waiting") /\ pc = "exited"
  /\ node' = "idle"
  /\ UNCHANGED <<valid, panics, joined, handle, nodeCh, spinVars, tx, inbox, arrived, worker>>

\* Drop for Node sends Terminate, and joins unless wait() has done so.
DropNodeWithoutJoin ==   \* mutated form: the thread is left to itself
  /\ NodeAt("idle")
  /\ node' = "dropped"
  /\ IF Accepts(nodeCh, "node")
     THEN nodeCh' = Push(nodeCh, NodeBuffer, "node", "terminate") /\ UNCHANGED panics
     ELSE Panic /\ UNCHANGED nodeCh
  /\ UNCHANGED <<valid, joined, handle, spinVars, tx, inbox, arrived, worker>>

DropNodeWithoutTerminate ==   \* mutated form: nobody tells the executor
  /\ NodeAt("idle")
  /\ node' = IF joined THEN "dropped" ELSE "joining"
  /\ UNCHANGED <<valid, panics, joined, handle, nodeCh, spinVars, tx, inbox, arrived, worker>>

DropNode ==
  /\ NodeAt("idle")
  /\ IF Accepts(nodeCh, "node")
     THEN /\ nodeCh' = Push(nodeCh, NodeBuffer, "node", "terminate")
          /\ node' = IF joined THEN "dropped" ELSE "joining"
          /\ UNCHANGED panics
     ELSE /\ Panic
          /\ node' = "dropped"
          /\ UNCHANGED nodeCh
  /\ UNCHANGED <<valid, joined, handle, spinVars, tx, inbox, arrived, worker>>

\* thread.join().unwrap().unwrap() panics if Executor::spin returned Err.
JoinOnDrop ==
  /\ NodeAt("joining") /\ pc = "exited"
  /\ node' = "dropped"
  /\ IF result = "err" THEN Panic ELSE UNCHANGED panics
  /\ UNCHANGED <<valid, joined, handle, nodeCh, spinVars, tx, inbox, arrived, worker>>

---------------------------------------------------------------------------
(***************************************************************************)
(* rmw: a message arrives, or a timer becomes due.  A full history drops   *)
(* its oldest message; a timer that is due already stays due.              *)
(***************************************************************************)
Capacity(e) == IF e \in Timers THEN 1 ELSE Depth

Arrive(e) ==
  /\ Alive /\ handle[e] # "absent" /\ arrived[e] < MaxArrivals
  /\ arrived' = [arrived EXCEPT ![e] = @ + 1]
  /\ inbox' = [inbox EXCEPT ![e] = IF @ < Capacity(e) THEN @ + 1 ELSE @]
  /\ UNCHANGED <<userVars, nodeCh, spinVars, tx, worker>>

---------------------------------------------------------------------------
(***************************************************************************)
(* The executor thread: spin.                                              *)
(***************************************************************************)
At(label) == Alive /\ pc = label
Goto(label) == pc' = label /\ UNCHANGED result
Return(r) == pc' = "returning" /\ result' = r

\* while self.context.lock().unwrap().is_valid()
CheckContext ==
  /\ At("check")
  /\ IF valid THEN Goto("drain") ELSE Return("ok")
  /\ UNCHANGED <<userVars, nodeCh, invokers, todo, tx, inbox, arrived, worker>>

DrainAnything ==   \* mutated form: Terminate is kept like an invoker
  /\ At("drain")
  /\ nodeCh.queue # <<>>
  /\ invokers' = Append(invokers, Head(nodeCh.queue))
  /\ nodeCh' = Pop(nodeCh)
  /\ UNCHANGED <<userVars, pc, result, todo, tx, inbox, arrived, worker>>

DrainReplaces ==   \* mutated form: the Vec is replaced, not extended
  /\ At("drain")
  /\ nodeCh.queue # <<>> /\ Head(nodeCh.queue) # "terminate"
  /\ invokers' = <<Head(nodeCh.queue)>>
  /\ nodeCh' = Pop(nodeCh)
  /\ UNCHANGED <<userVars, pc, result, todo, tx, inbox, arrived, worker>>

\* try_next() returns Ok(Some(..)) with an invoker.
DrainInvoker ==
  /\ At("drain")
  /\ nodeCh.queue # <<>> /\ Head(nodeCh.queue) # "terminate"
  /\ invokers' = Append(invokers, Head(nodeCh.queue))
  /\ nodeCh' = Pop(nodeCh)
  /\ UNCHANGED <<userVars, pc, result, todo, tx, inbox, arrived, worker>>

\* Ok(Some(Terminate)): spin returns.
DrainTerminate ==
  /\ At("drain")
  /\ nodeCh.queue # <<>> /\ Head(nodeCh.queue) = "terminate"
  /\ nodeCh' = Pop(nodeCh)
  /\ Return("ok")
  /\ UNCHANGED <<userVars, invokers, todo, tx, inbox, arrived, worker>>

\* Ok(None): the Node is gone without a Terminate.  Err: nothing queued.
DrainEnds ==
  /\ At("drain")
  /\ nodeCh.queue = <<>>
  /\ IF node = "dropped" THEN Return("ok") ELSE Goto("build")
  /\ UNCHANGED <<userVars, nodeCh, invokers, todo, tx, inbox, arrived, worker>>

---------------------------------------------------------------------------
(***************************************************************************)
(* The executor thread: spin_some.  An Err other than RclTimeout and       *)
(* RclWaitSetEmpty ends spin.                                              *)
(***************************************************************************)
Registered == {e \in Entities : \E i \in DOMAIN invokers : invokers[i] = e}

\* A dropped Timer finalized its clock, which rcl still reads for the timer in
\* the executor: whatever rcl makes of that.
ClockGone(e) == e \in Timers /\ handle[e] = "dropped"

\* rcl_wait_set_init fails if the context was shut down since it was checked.
BuildWaitSet ==
  /\ At("build")
  /\ IF valid THEN Goto("wait") ELSE Return("err")
  /\ UNCHANGED <<userVars, nodeCh, invokers, todo, tx, inbox, arrived, worker>>

Ready == {e \in Registered : inbox[e] > 0 /\ ~ClockGone(e)}
PerhapsReady == {e \in Registered : e \in Spurious \/ ClockGone(e)}

WaitReady ==
  /\ At("wait")
  /\ \E more \in SUBSET PerhapsReady : todo' = Ready \cup more
  /\ todo' # {}
  /\ Goto("invoke")
  /\ UNCHANGED <<userVars, nodeCh, invokers, tx, inbox, arrived, worker>>

WaitForever ==   \* mutated form: rcl_wait is given no timeout
  /\ At("wait")
  /\ Registered = {}
  /\ Goto("check")
  /\ UNCHANGED <<userVars, nodeCh, invokers, todo, tx, inbox, arrived, worker>>

WaitEmptyFails ==   \* mutated form: RclWaitSetEmpty is an Err like others
  /\ At("wait")
  /\ Ready = {}
  /\ IF Registered = {} THEN Return("err") ELSE Goto("check")
  /\ UNCHANGED <<userVars, nodeCh, invokers, todo, tx, inbox, arrived, worker>>

\* RclTimeout after 50 ms, or RclWaitSetEmpty and 50 ms of sleep.
WaitTimeout ==
  /\ At("wait")
  /\ Ready = {}
  /\ Goto("check")
  /\ UNCHANGED <<userVars, nodeCh, invokers, todo, tx, inbox, arrived, worker>>

WaitFails ==
  /\ At("wait")
  /\ \E e \in Registered : ClockGone(e)
  /\ Return("err")
  /\ UNCHANGED <<userVars, nodeCh, invokers, todo, tx, inbox, arrived, worker>>

---------------------------------------------------------------------------
(***************************************************************************)
(* The ready invokers run: subscriptions, timers, clients, services, each  *)
(* kind in the order of its Vec.  The first Err skips all that follow.     *)
(***************************************************************************)
Rank(e) == CASE e \in Subscriptions -> 1
             [] e \in Timers        -> 2
             [] e \in Clients       -> 3
             [] e \in Services      -> 4

Precedes(e, f) ==
  \/ Rank(e) < Rank(f)
  \/ /\ Rank(e) = Rank(f)
     /\ \E i, j \in DOMAIN invokers : i < j /\ invokers[i] = e /\ invokers[j] = f

Turn(e) ==
  /\ At("invoke") /\ e \in todo
  /\ \A f \in todo \ {e} : Precedes(e, f)

Invoked(e) == todo' = todo \ {e} /\ UNCHANGED <<pc, result>>

\* rcl_take takes the oldest message; rcl_timer_call makes the timer not due.
Taken(e) == inbox' = [inbox EXCEPT ![e] = IF e \in Timers THEN 0 ELSE @ - 1]

HasMessage(e) == e \in Timers \/ inbox[e] > 0

\* A stopped invoker takes nothing; a timer is called first in any case.
InvokeStopped(e) ==
  /\ Turn(e) /\ ~tx[e]
  /\ Invoked(e)
  /\ IF e \in Timers THEN Taken(e) ELSE UNCHANGED inbox
  /\ UNCHANGED <<userVars, nodeCh, invokers, tx, arrived, worker>>

InvokeDelivers(e) ==
  /\ Turn(e) /\ tx[e] /\ HasMessage(e)
  /\ Accepts(worker[e].ch, "invoker")
  /\ Taken(e)
  /\ worker' = [worker EXCEPT ![e] = Offered(@, 1)]
  /\ Invoked(e)
  /\ UNCHANGED <<userVars, nodeCh, invokers, tx, arrived>>

InvokeStopsWhenRefused(e) ==   \* mutated form: a full queue counts too
  /\ Turn(e) /\ tx[e] /\ HasMessage(e)
  /\ ~Accepts(worker[e].ch, "invoker")
  /\ Taken(e)
  /\ tx' = [tx EXCEPT ![e] = FALSE]
  /\ Invoked(e)
  /\ UNCHANGED <<userVars, nodeCh, invokers, arrived, worker>>

\* Disconnected: stop().
InvokeStops(e) ==
  /\ Turn(e) /\ tx[e] /\ HasMessage(e)
  /\ IsDisconnected(worker[e].ch)
  /\ Taken(e)
  /\ tx' = [tx EXCEPT ![e] = FALSE]
  /\ Invoked(e)
  /\ UNCHANGED <<userVars, nodeCh, invokers, arrived, worker>>

\* Full: Err(MessageQueueIsFull); the message is lost.
InvokeFails(e) ==
  /\ Turn(e) /\ tx[e] /\ HasMessage(e)
  /\ IsFull(worker[e].ch, "invoker")
  /\ Taken(e)
  /\ Return("err")
  /\ UNCHANGED <<userVars, nodeCh, invokers, todo, tx, arrived, worker>>

InvokeFindsNothingEndsRound(e) ==   \* mutated form: the rest is skipped
  /\ Turn(e) /\ tx[e] /\ ~HasMessage(e)
  /\ todo' = {}
  /\ UNCHANGED <<pc, result>>
  /\ UNCHANGED <<userVars, nodeCh, invokers, tx, inbox, arrived, worker>>

\* Nothing to take.  Subscriptions and services recognize RCL_RET_*_TAKE_FAILED;
\* result_from_rcl_ret does not know the one of clients, which counts as Err.
InvokeTakesNothing(e) ==
  /\ Turn(e) /\ tx[e] /\ ~HasMessage(e)
  /\ IF e \in Clients
     THEN Return("err") /\ UNCHANGED todo
     ELSE Invoked(e)
  /\ UNCHANGED <<userVars, nodeCh, invokers, tx, inbox, arrived, worker>>

\* rcl_timer_call fails on the finalized clock.
InvokeTimerFails(e) ==
  /\ Turn(e) /\ ClockGone(e)
  /\ Return("err")
  /\ UNCHANGED <<userVars, nodeCh, invokers, todo, tx, inbox, arrived, worker>>

InvokeEnds ==
  /\ At("invoke") /\ todo = {}
  /\ Goto("check")
  /\ UNCHANGED <<userVars, nodeCh, invokers, todo, tx, inbox, arrived, worker>>

\* The closure of the thread ends: the Executor is dropped with its receiver
\* (and the invokers still queued there) and its invokers.
ThreadEnds ==
  /\ At("returning")
  /\ pc' = "exited"
  /\ nodeCh' = Close(nodeCh)
  /\ invokers' = <<>>
  /\ todo' = {}
  /\ tx' = [e \in Entities |-> tx[e] /\ handle[e] = "creating"]
  /\ UNCHANGED <<userVars, result, inbox, arrived, worker>>

---------------------------------------------------------------------------
(***************************************************************************)
(* The Tokio tasks of the workers.                                         *)
(***************************************************************************)
TaskReceives(e) ==
  /\ Alive /\ CanReceive(worker[e])
  /\ worker' = [worker EXCEPT ![e] = Received(@)]
  /\ UNCHANGED <<userVars, nodeCh, spinVars, tx, inbox, arrived>>

CallbackReturns(e) ==
  /\ Alive /\ worker[e].task = "handling"
  /\ worker' = [worker EXCEPT ![e].task = "idle"]
  /\ UNCHANGED <<userVars, nodeCh, spinVars, tx, inbox, arrived>>

\* The callback panics, or the task left its loop.
TaskEnds(e) ==
  /\ Alive /\ worker[e].task \in {"handling", "stopping"}
  /\ worker' = [worker EXCEPT ![e] = TaskGone(@)]
  /\ UNCHANGED <<userVars, nodeCh, spinVars, tx, inbox, arrived>>

---------------------------------------------------------------------------
Invoke(e) ==
  \/ InvokeStopped(e) \/ InvokeDelivers(e) \/ InvokeStops(e)
  \/ InvokeFails(e) \/ InvokeTakesNothing(e) \/ InvokeTimerFails(e)

Spin ==
  \/ CheckContext \/ DrainInvoker \/ DrainTerminate \/ DrainEnds
  \/ BuildWaitSet \/ WaitReady \/ WaitTimeout \/ WaitFails
  \/ (\E e \in Entities : Invoke(e)) \/ InvokeEnds \/ ThreadEnds

Task(e) == TaskReceives(e) \/ CallbackReturns(e) \/ TaskEnds(e)

NodeCall ==
  \/ \E e \in Entities : Create(e) \/ Register(e)
  \/ Wait \/ WaitReturns \/ DropNode \/ JoinOnDrop

Next ==
  \/ NodeCall \/ Spin \/ Shutdown
  \/ \E e \in Entities : DropHandle(e) \/ Arrive(e) \/ Task(e)

Spec == Init /\ [][Next]_vars

\* The operating system runs the executor thread and returns from a join, and
\* Tokio polls a ready task whose callback comes to an end.  The user owes no
\* step but to finish a create_* it is in; messages need not arrive.
Fairness ==
  /\ WF_vars(Spin)
  /\ WF_vars(WaitReturns \/ JoinOnDrop)
  /\ WF_vars(\E e \in Entities : Register(e))
  /\ \A e \in Entities : WF_vars(Task(e))

FairSpec == Spec /\ Fairness

---------------------------------------------------------------------------
TypeOK ==
  /\ valid \in BOOLEAN
  /\ node \in {"idle", "registering", "waiting", "joining", "dropped"}
  /\ panics \in 0..2
  /\ joined \in BOOLEAN
  /\ handle \in [Entities -> {"absent", "creating", "held", "dropped"}]
  /\ nodeCh \in Channels(Entities \cup {"terminate"}, {"node"})
  /\ pc \in {"check", "drain", "build", "wait", "invoke", "returning", "exited"}
  /\ result \in {"none", "ok", "err"}
  /\ invokers \in Seq(Entities)
  /\ todo \in SUBSET Entities
  /\ tx \in [Entities -> BOOLEAN]
  /\ inbox \in [Entities -> 0..Depth]
  /\ arrived \in [Entities -> 0..MaxArrivals]
  /\ worker \in [Entities -> Workers]

\* Every invoker the executor has or is about to get, and a Terminate, in order.
Line == invokers \o nodeCh.queue

(***************************************************************************)
(* No registration is lost or doubled on its way from a create_* that      *)
(* returned (node.rs:363-367) into the Vecs of the executor                *)
(* (executor.rs:45-55), whatever other threads do meanwhile.               *)
(***************************************************************************)
RegisteredOnce ==
  /\ \A i, j \in DOMAIN Line : Line[i] = Line[j] => i = j
  /\ pc # "exited" =>
       \A e \in Entities : handle[e] = "held" => \E i \in DOMAIN Line : Line[i] = e

(***************************************************************************)
(* stop() is for good (invoker.rs:34-36), so it must never hit an entity   *)
(* that is still in use: while the user holds the handle and the executor  *)
(* runs, the invoker keeps its sender unless the callback panicked.        *)
(***************************************************************************)
LiveEntityKeepsSender ==
  \A e \in Entities :
    handle[e] = "held" /\ pc # "exited" /\ worker[e].task # "gone" => tx[e]

(***************************************************************************)
(* spin fails only because the context was shut down between two steps of  *)
(* a round, a callback is more than WorkerBuffer messages behind, a timer  *)
(* outlived its clock, or rcl_wait reported a client in this round that    *)
(* has nothing to take when its turn comes (executor.rs:64-138).           *)
(***************************************************************************)
FailsWithCause ==
  [][result' = "err" /\ result # "err" =>
       \/ ~valid
       \/ \E e \in Entities : Len(worker[e].ch.queue) > WorkerBuffer
       \/ \E e \in Clients \cap Spurious : Turn(e) /\ inbox[e] = 0
       \/ \E e \in Timers : ClockGone(e)]_vars

(***************************************************************************)
(* Node's expect()s and unwrap()s (node.rs:367, 402, 424, 446, 502, 504)   *)
(* only panic once the executor is over, or when more than NodeBuffer      *)
(* messages wait to be drained.                                            *)
(***************************************************************************)
PanicsWithCause ==
  [][panics' > panics => ~nodeCh.open \/ Len(nodeCh.queue) > NodeBuffer]_vars

(***************************************************************************)
(* When Node::drop returns normally its thread is over: no invoker can run *)
(* or hold a sender any more (node.rs:498-507).                            *)
(***************************************************************************)
DroppedNodeIsQuiet ==
  node = "dropped" /\ panics = 0 =>
    pc = "exited" /\ invokers = <<>> /\ \A e \in Entities : ~tx[e]

\* Node::drop and Node::wait do not hang: Terminate ends the thread, and so
\* does the shutdown of the context, whatever the executor is doing.
DropReturns == node = "joining" ~> node = "dropped"
ShutdownEndsExecutor == ~valid /\ panics < 2 ~> pc = "exited" \/ panics = 2

(***************************************************************************)
(* A message for an entity in use is taken, registered yet or not, however *)
(* many other entities are ready, unless the executor ends or the callback *)
(* panicked.                                                               *)
(***************************************************************************)
MessagesTaken ==
  \A e \in Entities :
    handle[e] = "held" /\ inbox[e] > 0 ~>
      inbox[e] = 0 \/ handle[e] # "held" \/ pc = "exited" \/ ~tx[e] \/ panics = 2

---------------------------------------------------------------------------
(***************************************************************************)
(* What the code and its comments say of themselves, and the code does not *)
(* live up to.                                                             *)
(*                                                                         *)
(* "try_send should succeed" (node.rs:367 and its siblings): a running     *)
(* executor accepts every registration.                                    *)
(***************************************************************************)
RegistrationSucceeds ==
  node = "registering" /\ nodeCh.open => Accepts(nodeCh, "node")

\* "try_send should succeed" (node.rs:502): a node that has been waited for can
\* be dropped.
DropAfterWaitSucceeds ==
  node = "idle" /\ joined => Accepts(nodeCh, "node")

\* A client that rcl_wait wrongly reports ready is passed over with Ok(()), as
\* the comment at client/invoker.rs:64-67 says: with the context valid and all
\* workers idle, spin does not fail.
SpuriousClientIgnored ==
  valid /\ (\A e \in Entities : worker[e] = NewWorker /\ handle[e] # "dropped") =>
    result # "err"
==============================================================================
