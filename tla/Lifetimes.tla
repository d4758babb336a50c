------------------------------ MODULE Lifetimes ------------------------------
(***************************************************************************)
(* Who keeps which structure of rcl alive, and in which order they are     *)
(* finalized.  rcl wants every entity finalized before its node and every  *)
(* node before the context; rclrust gets that from reference counts:       *)
(*                                                                         *)
(*   context <- Context (user), Node, RclNode, Executor                    *)
(*   RclNode <- Node, RclPublisher, RclSubscription, RclClient, RclService *)
(*   entity  <- the user's object, its invoker, a service's callback       *)
(*                                                                         *)
(* A timer has neither: RclTimer points into its clock, which the user's   *)
(* Timer owns, and into the context, and counts on neither.                *)
(*                                                                         *)
(* Dropping the last reference runs the finalizer in the thread that drops *)
(* it.  The finalizer of a node locks the context, so that it panics when  *)
(* that mutex is poisoned, and aborts the process when its thread is       *)
(* already unwinding.                                                      *)
(***************************************************************************)
EXTENDS Naturals

CONSTANTS
  Nodes,      \* nodes of one context
  Entities,   \* publishers, subscriptions, clients, services and timers
  Choice,     \* the kinds that the user may make an entity of
  NodeOf      \* the node that an entity is created from

Kinds == {"publisher", "subscription", "client", "service", "timer"}

ASSUME LifetimesAssumption ==
  /\ Choice \in [Entities -> SUBSET Kinds]
  /\ NodeOf \in [Entities -> Nodes]

VARIABLES
  context,       \* RclContext: "valid", "shutdown" or "finalized"
  contextRefs,   \* holders of an Arc of the context
  poisoned,      \* the mutex of the context is poisoned
  node,          \* RclNode: "none", "live", "finalized" or "leaked"
  nodeRefs,      \* holders of an Arc of an RclNode
  owner,         \* the user's Node: "none", "alive", "joining", "dropped", "panicked"
  thread,        \* the executor's thread: "none", "running", "dropping", "ended"
  outcome,       \* what the thread returns: "ok", "err" or "panic"
  kind,          \* the kind of an entity, "none" before it is created
  handle,        \* RclPublisher, RclSubscription...: "none", "live", "finalized"
  handleRefs,    \* holders of an Arc of an entity
  invoker,       \* "none", "queued" in the channel, "registered", "dropped"
  clock,         \* the clock of a timer: "none", "live", "finalized"
  aborted        \* a panic while unwinding has aborted the process

contextVars == <<context, contextRefs>>
nodeVars == <<node, nodeRefs, aborted>>
handleVars == <<kind, handle, handleRefs>>
vars == <<context, contextRefs, poisoned, node, nodeRefs, owner, thread, outcome,
          kind, handle, handleRefs, invoker, clock, aborted>>

ContextRef == <<"Context", "user">>
NodeRef(n) == <<"Node", n>>
RclNodeRef(n) == <<"RclNode", n>>
ExecutorRef(n) == <<"Executor", n>>

Init ==
  /\ context = "valid" /\ contextRefs = {ContextRef} /\ poisoned = FALSE
  /\ node = [n \in Nodes |-> "none"] /\ nodeRefs = [n \in Nodes |-> {}]
  /\ owner = [n \in Nodes |-> "none"]
  /\ thread = [n \in Nodes |-> "none"] /\ outcome = [n \in Nodes |-> "ok"]
  /\ kind = [e \in Entities |-> "none"]
  /\ handle = [e \in Entities |-> "none"] /\ handleRefs = [e \in Entities |-> {}]
  /\ invoker = [e \in Entities |-> "none"] /\ clock = [e \in Entities |-> "none"]
  /\ aborted = FALSE

---------------------------------------------------------------------------
(***************************************************************************)
(* Dropping references.                                                    *)
(***************************************************************************)
ReleaseContext(refs) ==
  /\ contextRefs' = contextRefs \ refs
  /\ context' = IF contextRefs \ refs = {} THEN "finalized" ELSE context

\* The holder r of RclNode n drops its Arc, and then others of the context.
ReleaseNode(n, r, refs, unwinding) ==
  /\ nodeRefs' = [nodeRefs EXCEPT ![n] = @ \ {r}]
  /\ IF nodeRefs[n] \ {r} = {}
     THEN /\ node' = [node EXCEPT ![n] = IF poisoned THEN "leaked" ELSE "finalized"]
          /\ aborted' = (poisoned /\ unwinding)
          /\ ReleaseContext(refs \cup {RclNodeRef(n)})
     ELSE UNCHANGED <<node, aborted>> /\ ReleaseContext(refs)

EntityRef(e) == <<"entity", e>>

HoldsNode(e) == kind[e] # "timer"

ReleaseHandle(e, r, unwinding) ==
  /\ UNCHANGED kind
  /\ handleRefs' = [handleRefs EXCEPT ![e] = @ \ {r}]
  /\ IF handleRefs[e] \ {r} = {}
     THEN /\ handle' = [handle EXCEPT ![e] = "finalized"]
          /\ IF HoldsNode(e) THEN ReleaseNode(NodeOf[e], EntityRef(e), {}, unwinding)
                             ELSE UNCHANGED <<nodeVars, contextVars>>
     ELSE UNCHANGED <<handle, nodeVars, contextVars>>

---------------------------------------------------------------------------
(***************************************************************************)
(* The user.                                                               *)
(***************************************************************************)
\* Without the Context there is no way to a shutdown.
Shutdown ==
  /\ ~aborted
  /\ ContextRef \in contextRefs /\ context = "valid" /\ ~poisoned
  /\ context' = "shutdown"
  /\ UNCHANGED <<contextRefs, poisoned, nodeVars, owner, thread, outcome, handleVars,
                 invoker, clock>>

DropContext ==
  /\ ~aborted
  /\ ContextRef \in contextRefs
  /\ ReleaseContext({ContextRef})
  /\ UNCHANGED <<poisoned, nodeVars, owner, thread, outcome, handleVars, invoker, clock>>

\* Node::new, which leaves nothing behind when it fails.
CreateNode(n) ==
  /\ ~aborted
  /\ ContextRef \in contextRefs /\ context = "valid" /\ ~poisoned
  /\ owner[n] = "none"
  /\ contextRefs' = contextRefs \cup {NodeRef(n), RclNodeRef(n), ExecutorRef(n)}
  /\ node' = [node EXCEPT ![n] = "live"]
  /\ nodeRefs' = [nodeRefs EXCEPT ![n] = {NodeRef(n)}]
  /\ owner' = [owner EXCEPT ![n] = "alive"]
  /\ thread' = [thread EXCEPT ![n] = "running"]
  /\ UNCHANGED <<context, poisoned, outcome, handleVars, invoker, clock, aborted>>

\* A new entity, the holders of its Arc and what it holds.
Created(e, k, refs) ==
  /\ ~aborted
  /\ owner[NodeOf[e]] = "alive" /\ handle[e] = "none" /\ k \in Choice[e]
  /\ kind' = [kind EXCEPT ![e] = k]
  /\ handle' = [handle EXCEPT ![e] = "live"]
  /\ handleRefs' = [handleRefs EXCEPT ![e] = refs]
  /\ UNCHANGED <<contextVars, poisoned, node, owner, thread, outcome, aborted>>

TakesNode(e) == nodeRefs' = [nodeRefs EXCEPT ![NodeOf[e]] = @ \cup {EntityRef(e)}]

\* The invoker is sent to the executor.  With the channel closed the expect()
\* panics, and the new object, its invoker and its clock are dropped at once,
\* which leaves nothing.
Registers(e) ==
  /\ thread[NodeOf[e]] = "running"
  /\ invoker' = [invoker EXCEPT ![e] = "queued"]

CreatePublisher(e) ==
  /\ Created(e, "publisher", {"user"}) /\ TakesNode(e)
  /\ UNCHANGED <<invoker, clock>>

CreateSubscription(e) ==
  /\ Created(e, "subscription", {"user", "invoker"}) /\ TakesNode(e) /\ Registers(e)
  /\ UNCHANGED clock

CreateClient(e) ==
  /\ Created(e, "client", {"user", "invoker"}) /\ TakesNode(e) /\ Registers(e)
  /\ UNCHANGED clock

ServiceBorrowsNode(e) ==   \* mutated form of CreateService: a bare pointer to the node
  /\ Created(e, "service", {"user", "invoker", "callback"}) /\ Registers(e)
  /\ UNCHANGED <<nodeRefs, clock>>

\* The callback, which sends the responses, holds an Arc of its own.
CreateService(e) ==
  /\ Created(e, "service", {"user", "invoker", "callback"}) /\ TakesNode(e) /\ Registers(e)
  /\ UNCHANGED clock

TimerTakesNode(e) ==   \* mutated form of CreateTimer: the timer has an Arc of its node too
  /\ ~poisoned
  /\ Created(e, "timer", {"user", "invoker"}) /\ TakesNode(e) /\ Registers(e)
  /\ clock' = [clock EXCEPT ![e] = "live"]

\* node.context.lock().unwrap(); no Arc of the node is taken.
CreateTimer(e) ==
  /\ ~poisoned
  /\ Created(e, "timer", {"user", "invoker"}) /\ Registers(e)
  /\ clock' = [clock EXCEPT ![e] = "live"]
  /\ UNCHANGED nodeRefs

Create(e) ==
  CreatePublisher(e) \/ CreateSubscription(e) \/ CreateClient(e) \/ CreateService(e) \/ CreateTimer(e)

\* The period does not fit in an i64: RclTimer::new panics under the lock.
CreateTimerPanics(e) ==
  /\ ~aborted
  /\ owner[NodeOf[e]] = "alive" /\ handle[e] = "none" /\ "timer" \in Choice[e]
  /\ ~poisoned
  /\ poisoned' = TRUE
  /\ UNCHANGED <<contextVars, nodeVars, owner, thread, outcome, handleVars, invoker, clock>>

\* The first field of the user's object.
DropEntity(e) ==
  /\ ~aborted
  /\ "user" \in handleRefs[e]
  /\ ReleaseHandle(e, "user", FALSE)
  /\ UNCHANGED <<poisoned, owner, thread, outcome, invoker, clock>>

\* The second field of a Timer.
DropClock(e) ==
  /\ ~aborted
  /\ clock[e] = "live" /\ "user" \notin handleRefs[e]
  /\ clock' = [clock EXCEPT ![e] = "finalized"]
  /\ UNCHANGED <<contextVars, poisoned, nodeVars, owner, thread, outcome, handleVars, invoker>>

\* Node::drop: the message is sent, or the channel is closed and expect() panics.
SendTerminate(n) ==
  /\ ~aborted
  /\ owner[n] = "alive" /\ thread[n] = "running"
  /\ owner' = [owner EXCEPT ![n] = "joining"]
  /\ UNCHANGED <<contextVars, poisoned, nodeVars, thread, outcome, handleVars, invoker, clock>>

DropFields(n, end) ==
  /\ ~aborted
  /\ owner' = [owner EXCEPT ![n] = end]
  /\ ReleaseNode(n, NodeRef(n), {NodeRef(n)}, end = "panicked")
  /\ UNCHANGED <<poisoned, thread, outcome, handleVars, invoker, clock>>

SendFails(n) ==
  /\ owner[n] = "alive" /\ thread[n] \in {"dropping", "ended"}
  /\ DropFields(n, "panicked")

WithoutJoin(n) ==   \* mutated form of Join: the thread is detached
  /\ owner[n] = "joining"
  /\ DropFields(n, IF outcome[n] = "ok" THEN "dropped" ELSE "panicked")

\* thread.join().unwrap().unwrap().
Join(n) ==
  /\ owner[n] = "joining" /\ thread[n] = "ended"
  /\ DropFields(n, IF outcome[n] = "ok" THEN "dropped" ELSE "panicked")

---------------------------------------------------------------------------
(***************************************************************************)
(* The executor's thread.                                                  *)
(***************************************************************************)
Queued(n) == {e \in Entities : NodeOf[e] = n /\ invoker[e] = "queued"}
Held(n) == {e \in Entities : NodeOf[e] = n /\ invoker[e] \in {"queued", "registered"}}

Register(e) ==
  /\ ~aborted
  /\ thread[NodeOf[e]] = "running" /\ invoker[e] = "queued"
  /\ invoker' = [invoker EXCEPT ![e] = "registered"]
  /\ UNCHANGED <<contextVars, poisoned, nodeVars, owner, thread, outcome, handleVars, clock>>

StopsOnlyInvalid(n, result) ==   \* mutated form of MayStop: Terminate is passed over
  \/ result = "ok" /\ ~poisoned /\ context = "shutdown"
  \/ result = "err" /\ ~poisoned
  \/ result = "panic" /\ poisoned

\* The context is no longer valid, or Terminate, which comes after all
\* registrations; a failure of rcl (even to make an empty wait set) or of an
\* invoker; context.lock().unwrap().
MayStop(n, result) ==
  \/ /\ result = "ok" /\ ~poisoned
     /\ context = "shutdown" \/ (owner[n] = "joining" /\ Queued(n) = {})
  \/ result = "err" /\ ~poisoned
  \/ result = "panic" /\ poisoned

\* The first fields of the executor: its Arc of the context and the channel.
Stop(n, result) ==
  /\ ~aborted
  /\ thread[n] = "running" /\ MayStop(n, result)
  /\ thread' = [thread EXCEPT ![n] = "dropping"]
  /\ outcome' = [outcome EXCEPT ![n] = result]
  /\ ReleaseContext({ExecutorRef(n)})
  /\ UNCHANGED <<poisoned, nodeVars, owner, handleVars, invoker, clock>>

\* Messages left in the channel go first, then the lists.
DropInvoker(e) ==
  LET n == NodeOf[e]
  IN  /\ ~aborted
      /\ thread[n] = "dropping" /\ e \in Held(n)
      /\ invoker[e] = "registered" => Queued(n) = {}
      /\ invoker' = [invoker EXCEPT ![e] = "dropped"]
      /\ ReleaseHandle(e, "invoker", outcome[n] = "panic")
      /\ UNCHANGED <<poisoned, owner, thread, outcome, clock>>

EndThread(n) ==
  /\ ~aborted
  /\ thread[n] = "dropping" /\ Held(n) = {}
  /\ thread' = [thread EXCEPT ![n] = "ended"]
  /\ UNCHANGED <<contextVars, poisoned, nodeVars, owner, outcome, handleVars, invoker, clock>>

---------------------------------------------------------------------------
\* The task of a service's worker ends: at the Terminate of a dropped service,
\* by a panic of the callback, or with the runtime.  A panic unwinds.
EndTask(e, panics) ==
  /\ ~aborted
  /\ "callback" \in handleRefs[e]
  /\ ReleaseHandle(e, "callback", panics)
  /\ UNCHANGED <<poisoned, owner, thread, outcome, invoker, clock>>

---------------------------------------------------------------------------
User(e) == Create(e) \/ CreateTimerPanics(e) \/ DropEntity(e) \/ DropClock(e)
UserNode(n) == CreateNode(n) \/ SendTerminate(n) \/ SendFails(n) \/ Join(n)
Results == {"ok", "err", "panic"}

Next ==
  \/ Shutdown \/ DropContext
  \/ \E n \in Nodes : UserNode(n) \/ EndThread(n) \/ \E result \in Results : Stop(n, result)
  \/ \E e \in Entities : User(e) \/ Register(e) \/ DropInvoker(e)
  \/ \E e \in Entities, panics \in BOOLEAN : EndTask(e, panics)

Spec == Init /\ [][Next]_vars

\* A drop that has begun goes on, threads run but need not fail, and the task
\* of a dropped service meets its Terminate.
FairSpec ==
  /\ Spec
  /\ \A n \in Nodes :
       /\ WF_vars(Join(n))
       /\ WF_vars(EndThread(n) \/ Stop(n, "ok") \/ Stop(n, "panic"))
  /\ \A e \in Entities :
       /\ WF_vars(DropClock(e))
       /\ WF_vars(Register(e) \/ DropInvoker(e))
       /\ WF_vars("user" \notin handleRefs[e] /\ EndTask(e, FALSE))

---------------------------------------------------------------------------
ContextHolders ==
  {ContextRef} \cup {NodeRef(n) : n \in Nodes} \cup {RclNodeRef(n) : n \in Nodes}
               \cup {ExecutorRef(n) : n \in Nodes}

\* Who may hold a reference to e, by its kind.
Holders(e) ==
  {"user"} \cup (IF kind[e] = "publisher" THEN {} ELSE {"invoker"})
           \cup (IF kind[e] = "service" THEN {"callback"} ELSE {})

NodeHolders(n) ==
  {NodeRef(n)} \cup {EntityRef(e) : e \in {f \in Entities : NodeOf[f] = n /\ kind[f] # "timer"}}

TypeOK ==
  /\ context \in {"valid", "shutdown", "finalized"}
  /\ contextRefs \subseteq ContextHolders
  /\ poisoned \in BOOLEAN /\ aborted \in BOOLEAN
  /\ node \in [Nodes -> {"none", "live", "finalized", "leaked"}]
  /\ nodeRefs \in [Nodes -> SUBSET ({NodeRef(n) : n \in Nodes} \cup {EntityRef(e) : e \in Entities})]
  /\ \A n \in Nodes : nodeRefs[n] \subseteq NodeHolders(n)
  /\ owner \in [Nodes -> {"none", "alive", "joining", "dropped", "panicked"}]
  /\ thread \in [Nodes -> {"none", "running", "dropping", "ended"}]
  /\ outcome \in [Nodes -> Results]
  /\ kind \in [Entities -> Kinds \cup {"none"}]
  /\ handle \in [Entities -> {"none", "live", "finalized"}]
  /\ handleRefs \in [Entities -> SUBSET {"user", "invoker", "callback"}]
  /\ \A e \in Entities : handleRefs[e] \subseteq Holders(e)
  /\ invoker \in [Entities -> {"none", "queued", "registered", "dropped"}]
  /\ clock \in [Entities -> {"none", "live", "finalized"}]
  /\ \A e \in Entities : clock[e] # "none" => kind[e] = "timer"

(***************************************************************************)
(* The order that rcl asks for: an entity is finalized before its node,    *)
(* a node before the context, whichever of the user, the executors and the *)
(* tasks drops the last reference (publisher/rcl_wrapper.rs:133,           *)
(* node.rs:180, context.rs:102), and what the executor's lists or the user *)
(* may still use is not finalized.                                         *)
(***************************************************************************)
EntitiesBeforeNode ==
  \A e \in Entities :
    handle[e] = "live" /\ kind[e] # "timer" => node[NodeOf[e]] = "live"

NodesBeforeContext ==
  \A n \in Nodes : node[n] = "live" \/ thread[n] = "running" => context # "finalized"

InUseIsLive ==
  \A e \in Entities :
    invoker[e] \in {"queued", "registered"} \/ "user" \in handleRefs[e] => handle[e] = "live"

FinalizedInOrder == EntitiesBeforeNode /\ NodesBeforeContext /\ InUseIsLive

(***************************************************************************)
(* What a timer points to dies before it only in these cases.  The clock:  *)
(* the user dropped the Timer while the executor has its invoker, and the  *)
(* executor goes on using it (timer.rs:84-85, 113).  The context: the user *)
(* keeps a Timer beyond its node and its context, or Node::drop panicked   *)
(* at the closed channel and did not wait for the thread that is dropping  *)
(* its timers (node.rs:502).                                               *)
(***************************************************************************)
TimerDanglesWithCause ==
  \A e \in Entities :
    handle[e] = "live" /\ kind[e] = "timer" =>
      /\ clock[e] = "finalized" => "user" \notin handleRefs[e] /\ e \in Held(NodeOf[e])
      /\ context = "finalized" =>
           "user" \in handleRefs[e] \/ (owner[NodeOf[e]] = "panicked" /\ e \in Held(NodeOf[e]))

(***************************************************************************)
(* Once the user has let go of the context, of the nodes and of all        *)
(* entities, everything is finalized: no cycle of references, no closure   *)
(* and no thread keeps a part of rcl.  A poisoned context leaks nodes, and *)
(* may abort the process (node.rs:179).                                    *)
(***************************************************************************)
LetGo ==
  /\ ContextRef \notin contextRefs
  /\ \A n \in Nodes : owner[n] # "alive"
  /\ \A e \in Entities : "user" \notin handleRefs[e]

Gone ==
  /\ context = "finalized"
  /\ \A n \in Nodes : node[n] \in {"none", "finalized"} \cup (IF poisoned THEN {"leaked"} ELSE {})
  /\ \A e \in Entities : handle[e] # "live" /\ clock[e] # "live"

EverythingFinalized == LetGo ~> (Gone \/ aborted)
==============================================================================
