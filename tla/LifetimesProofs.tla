--------------------------- MODULE LifetimesProofs ---------------------------
(***************************************************************************)
(* Lifetimes for every number of nodes and entities of every kind: what    *)
(* its references keep alive, and in which order rcl sees the finalizers.  *)
(***************************************************************************)
EXTENDS Lifetimes, TLAPS

---------------------------------------------------------------------------
(***************************************************************************)
(* The inductive invariant.  FinalizedInOrder says what must not be        *)
(* finalized; it holds because of who holds what at every moment.          *)
(***************************************************************************)
\* A structure is finalized by the drop of its last reference, and then only.
ContextInv == context = "finalized" <=> contextRefs = {}

\* Who has a node holds its node and its context, and the executor's thread
\* lives as long as the owner waits for it.
NodeInv(n) ==
  /\ node[n] = "live" <=> nodeRefs[n] # {}
  /\ nodeRefs[n] # {} => RclNodeRef(n) \in contextRefs
  /\ owner[n] \in {"alive", "joining"} => NodeRef(n) \in nodeRefs[n] /\ NodeRef(n) \in contextRefs
  /\ owner[n] = "none" <=> thread[n] = "none"
  /\ owner[n] = "none" => nodeRefs[n] = {}
  /\ owner[n] = "dropped" => thread[n] = "ended"
  /\ thread[n] = "running" => ExecutorRef(n) \in contextRefs

\* A live entity holds its node; the executor holds the entity as long as it
\* has its invoker, which ends before the thread does.
EntityInv(e) ==
  /\ handle[e] = "live" <=> handleRefs[e] # {}
  /\ handle[e] = "none" <=> kind[e] = "none"
  /\ handle[e] # "none" => owner[NodeOf[e]] # "none"
  /\ EntityRef(e) \in nodeRefs[NodeOf[e]] <=> handle[e] = "live" /\ kind[e] # "timer"
  /\ invoker[e] \in {"queued", "registered"} <=> "invoker" \in handleRefs[e]
  /\ "invoker" \in handleRefs[e] => thread[NodeOf[e]] \in {"running", "dropping"}
  /\ clock[e] = "finalized" => "user" \notin handleRefs[e]

IInv ==
  /\ TypeOK
  /\ ContextInv
  /\ \A n \in Nodes : NodeInv(n)
  /\ \A e \in Entities : EntityInv(e)

---------------------------------------------------------------------------
(***************************************************************************)
(* Dropping references.                                                    *)
(***************************************************************************)
\* Holders of different kinds, or of different nodes, are different.
LEMMA RefsDiffer ==
  /\ \A n, m : NodeRef(n) # RclNodeRef(m) /\ NodeRef(n) # ExecutorRef(m) /\ RclNodeRef(n) # ExecutorRef(m)
  /\ \A n : ContextRef \notin {NodeRef(n), RclNodeRef(n), ExecutorRef(n)}
  /\ \A n, e : NodeRef(n) # EntityRef(e)
  /\ \A n, m : RclNodeRef(n) = RclNodeRef(m) => n = m
  /\ \A n, m : NodeRef(n) = NodeRef(m) => n = m
  /\ \A n, m : ExecutorRef(n) = ExecutorRef(m) => n = m
  /\ \A e, f : EntityRef(e) = EntityRef(f) => e = f
BY DEF NodeRef, RclNodeRef, ExecutorRef, ContextRef, EntityRef

\* The last reference finalizes the context.
LEMMA ReleaseContextOK ==
  ASSUME NEW refs, TypeOK, ContextInv, ReleaseContext(refs)
  PROVE  /\ contextRefs' = contextRefs \ refs
         /\ contextRefs' \subseteq ContextHolders
         /\ context' \in {"valid", "shutdown", "finalized"}
         /\ ContextInv'
BY DEF ReleaseContext, TypeOK, ContextInv

\* The last reference finalizes a node, or leaks it, and releases the context.
LEMMA ReleaseNodeOK ==
  ASSUME IInv, NEW n \in Nodes, NEW r, NEW refs, NEW unwinding \in BOOLEAN,
         ReleaseNode(n, r, refs, unwinding)
  PROVE  /\ nodeRefs' = [nodeRefs EXCEPT ![n] = @ \ {r}]
         /\ node' \in [Nodes -> {"none", "live", "finalized", "leaked"}]
         /\ \A m \in Nodes : node'[m] = "live" <=> nodeRefs'[m] # {}
         /\ contextRefs' = contextRefs \ (refs \cup (IF nodeRefs[n] \ {r} = {} THEN {RclNodeRef(n)} ELSE {}))
         /\ contextRefs' \subseteq ContextHolders
         /\ context' \in {"valid", "shutdown", "finalized"}
         /\ ContextInv'
         /\ aborted' \in BOOLEAN
<1>1. nodeRefs' = [nodeRefs EXCEPT ![n] = @ \ {r}]
  BY DEF ReleaseNode
<1>2. /\ node \in [Nodes -> {"none", "live", "finalized", "leaked"}]
      /\ DOMAIN nodeRefs = Nodes
      /\ \A m \in Nodes : node[m] = "live" <=> nodeRefs[m] # {}
  BY DEF IInv, TypeOK, NodeInv
<1>3. aborted' \in BOOLEAN
  BY DEF ReleaseNode, IInv, TypeOK
<1>4. CASE nodeRefs[n] \ {r} = {}
  <2>1. /\ node' = [node EXCEPT ![n] = IF poisoned THEN "leaked" ELSE "finalized"]
        /\ ReleaseContext(refs \cup {RclNodeRef(n)})
    BY <1>4 DEF ReleaseNode
  <2>2. /\ node' \in [Nodes -> {"none", "live", "finalized", "leaked"}]
        /\ \A m \in Nodes : node'[m] = "live" <=> nodeRefs'[m] # {}
    BY <1>1, <1>2, <1>4, <2>1
  <2> QED
    BY <1>1, <1>3, <1>4, <2>1, <2>2, ReleaseContextOK DEF IInv
<1>5. CASE nodeRefs[n] \ {r} # {}
  <2>1. node' = node /\ ReleaseContext(refs)
    BY <1>5 DEF ReleaseNode
  <2>2. \A m \in Nodes : node'[m] = "live" <=> nodeRefs'[m] # {}
    BY <1>1, <1>2, <1>5, <2>1
  <2> QED
    BY <1>1, <1>2, <1>3, <1>5, <2>1, <2>2, ReleaseContextOK DEF IInv
<1> QED
  BY <1>4, <1>5

\* What a holder of an entity leaves behind: the last one finalizes the
\* entity, which releases the node, which may release the context.
LEMMA ReleaseHandleOK ==
  ASSUME IInv, NEW e \in Entities, NEW r \in handleRefs[e], NEW unwinding \in BOOLEAN,
         ReleaseHandle(e, r, unwinding)
  PROVE  /\ kind' = kind
         /\ handleRefs' = [handleRefs EXCEPT ![e] = @ \ {r}]
         /\ handle' \in [Entities -> {"none", "live", "finalized"}]
         /\ \A f \in Entities : handle'[f] = "live" <=> handleRefs'[f] # {}
         /\ \A f \in Entities : handle'[f] = "none" <=> handle[f] = "none"
         /\ \A f \in Entities :
              EntityRef(f) \in nodeRefs'[NodeOf[f]] <=> handle'[f] = "live" /\ kind[f] # "timer"
         /\ nodeRefs' \in [Nodes -> SUBSET ({NodeRef(n) : n \in Nodes} \cup {EntityRef(f) : f \in Entities})]
         /\ \A n \in Nodes : nodeRefs'[n] \subseteq nodeRefs[n]
         /\ \A n \in Nodes : NodeRef(n) \in nodeRefs[n] => NodeRef(n) \in nodeRefs'[n]
         /\ node' \in [Nodes -> {"none", "live", "finalized", "leaked"}]
         /\ \A n \in Nodes : node'[n] = "live" <=> nodeRefs'[n] # {}
         /\ contextRefs' \subseteq ContextHolders
         /\ \A n \in Nodes : NodeRef(n) \in contextRefs => NodeRef(n) \in contextRefs'
         /\ \A n \in Nodes : ExecutorRef(n) \in contextRefs => ExecutorRef(n) \in contextRefs'
         /\ \A n \in Nodes : nodeRefs'[n] # {} => RclNodeRef(n) \in contextRefs'
         /\ context' \in {"valid", "shutdown", "finalized"}
         /\ ContextInv'
         /\ aborted' \in BOOLEAN
<1> DEFINE n == NodeOf[e]
<1>0. n \in Nodes
  BY LifetimesAssumption
<1>1. /\ kind' = kind
      /\ handleRefs' = [handleRefs EXCEPT ![e] = @ \ {r}]
  BY DEF ReleaseHandle
<1>2. /\ handle \in [Entities -> {"none", "live", "finalized"}]
      /\ DOMAIN handleRefs = Entities
      /\ \A f \in Entities : handle[f] = "live" <=> handleRefs[f] # {}
      /\ \A f \in Entities :
           EntityRef(f) \in nodeRefs[NodeOf[f]] <=> handle[f] = "live" /\ kind[f] # "timer"
      /\ handle[e] = "live"
  BY DEF IInv, TypeOK, EntityInv
<1>3. /\ nodeRefs \in [Nodes -> SUBSET ({NodeRef(m) : m \in Nodes} \cup {EntityRef(f) : f \in Entities})]
      /\ node \in [Nodes -> {"none", "live", "finalized", "leaked"}]
      /\ \A m \in Nodes : node[m] = "live" <=> nodeRefs[m] # {}
      /\ \A m \in Nodes : nodeRefs[m] # {} => RclNodeRef(m) \in contextRefs
      /\ contextRefs \subseteq ContextHolders
      /\ context \in {"valid", "shutdown", "finalized"} /\ ContextInv
      /\ aborted \in BOOLEAN
  BY DEF IInv, TypeOK, NodeInv
<1>4. CASE handleRefs[e] \ {r} # {}
  <2>1. handle' = handle /\ UNCHANGED <<nodeVars, contextVars>>
    BY <1>4 DEF ReleaseHandle
  <2>2. \A f \in Entities : handle'[f] = "live" <=> handleRefs'[f] # {}
    BY <1>1, <1>2, <1>4, <2>1
  <2>3. /\ nodeRefs' = nodeRefs /\ node' = node /\ contextRefs' = contextRefs
        /\ context' = context /\ aborted' = aborted
    BY <2>1 DEF nodeVars, contextVars
  <2>4. ContextInv'
    BY <1>3, <2>3 DEF ContextInv
  <2> QED
    BY <1>1, <1>2, <1>3, <2>1, <2>2, <2>3, <2>4
<1>5. CASE handleRefs[e] \ {r} = {}
  <2>1. handle' = [handle EXCEPT ![e] = "finalized"]
    BY <1>5 DEF ReleaseHandle
  <2>2. /\ handle' \in [Entities -> {"none", "live", "finalized"}]
        /\ \A f \in Entities : handle'[f] = "live" <=> handleRefs'[f] # {}
        /\ \A f \in Entities : handle'[f] = "none" <=> handle[f] = "none"
    BY <1>1, <1>2, <1>5, <2>1
  <2>3. CASE kind[e] = "timer"
    <3>1. /\ nodeRefs' = nodeRefs /\ node' = node /\ contextRefs' = contextRefs
          /\ context' = context /\ aborted' = aborted
      BY <1>5, <2>3 DEF ReleaseHandle, HoldsNode, nodeVars, contextVars
    <3>2. ContextInv'
      BY <1>3, <3>1 DEF ContextInv
    <3>3. \A f \in Entities :
            EntityRef(f) \in nodeRefs'[NodeOf[f]] <=> handle'[f] = "live" /\ kind[f] # "timer"
      BY <1>2, <2>1, <2>3, <3>1
    <3> QED
      BY <1>1, <1>3, <2>2, <3>1, <3>2, <3>3
  <2>4. CASE kind[e] # "timer"
    <3>1. ReleaseNode(n, EntityRef(e), {}, unwinding)
      BY <1>5, <2>4 DEF ReleaseHandle, HoldsNode
    <3> HIDE DEF n
    <3>2. /\ nodeRefs' = [nodeRefs EXCEPT ![n] = @ \ {EntityRef(e)}]
          /\ node' \in [Nodes -> {"none", "live", "finalized", "leaked"}]
          /\ \A m \in Nodes : node'[m] = "live" <=> nodeRefs'[m] # {}
          /\ contextRefs' = contextRefs \ ({} \cup (IF nodeRefs[n] \ {EntityRef(e)} = {} THEN {RclNodeRef(n)} ELSE {}))
          /\ contextRefs' \subseteq ContextHolders
          /\ context' \in {"valid", "shutdown", "finalized"}
          /\ ContextInv'
          /\ aborted' \in BOOLEAN
      BY <1>0, <3>1, ReleaseNodeOK
    <3>3. /\ nodeRefs' \in [Nodes -> SUBSET ({NodeRef(m) : m \in Nodes} \cup {EntityRef(f) : f \in Entities})]
          /\ \A m \in Nodes : nodeRefs'[m] \subseteq nodeRefs[m]
      BY <1>3, <3>2
    <3>4. \A m \in Nodes : NodeRef(m) \in nodeRefs[m] => NodeRef(m) \in nodeRefs'[m]
      BY <1>0, <1>3, <3>2, RefsDiffer
    <3>5. /\ \A m \in Nodes : NodeRef(m) \in contextRefs => NodeRef(m) \in contextRefs'
          /\ \A m \in Nodes : ExecutorRef(m) \in contextRefs => ExecutorRef(m) \in contextRefs'
      BY <3>2, RefsDiffer
    <3>6. \A m \in Nodes : nodeRefs'[m] # {} => RclNodeRef(m) \in contextRefs'
      BY <1>0, <1>3, <3>2, RefsDiffer
    <3>7. \A f \in Entities :
            EntityRef(f) \in nodeRefs'[NodeOf[f]] <=> handle'[f] = "live" /\ kind[f] # "timer"
      <4> SUFFICES ASSUME NEW f \in Entities
                   PROVE  EntityRef(f) \in nodeRefs'[NodeOf[f]] <=> handle'[f] = "live" /\ kind[f] # "timer"
        OBVIOUS
      <4>1. CASE f = e
        BY <1>0, <1>2, <1>3, <2>1, <3>2, <4>1 DEF n
      <4>2. CASE f # e
        <5>1. EntityRef(f) # EntityRef(e) /\ NodeOf[f] \in Nodes
          BY <4>2, RefsDiffer, LifetimesAssumption
        <5>2. EntityRef(f) \in nodeRefs'[NodeOf[f]] <=> EntityRef(f) \in nodeRefs[NodeOf[f]]
          BY <1>0, <1>3, <3>2, <5>1
        <5> QED
          BY <1>2, <2>1, <4>2, <5>2
      <4> QED
        BY <4>1, <4>2
    <3> QED
      BY <1>1, <2>2, <3>2, <3>3, <3>4, <3>5, <3>6, <3>7
  <2> QED
    BY <2>3, <2>4
<1> QED
  BY <1>4, <1>5

---------------------------------------------------------------------------
(***************************************************************************)
(* The initial states and the steps, one lemma per group of actions.       *)
(***************************************************************************)
LEMMA InitInvariant == Init => IInv
<1> SUFFICES ASSUME Init
             PROVE  IInv
  OBVIOUS
<1>1. TypeOK
  BY DEF Init, TypeOK, ContextHolders, Holders, NodeHolders, Results
<1>2. ContextInv
  BY DEF Init, ContextInv
<1>3. \A n \in Nodes : NodeInv(n)
  BY DEF Init, NodeInv
<1>4. \A e \in Entities : EntityInv(e)
  BY LifetimesAssumption DEF Init, EntityInv
<1> QED
  BY <1>1, <1>2, <1>3, <1>4 DEF IInv

\* The Context is shut down or dropped.
LEMMA ContextSteps ==
  ASSUME IInv, Shutdown \/ DropContext
  PROVE  IInv'
<1>1. UNCHANGED <<poisoned, nodeVars, owner, thread, outcome, handleVars, invoker, clock>>
  BY DEF Shutdown, DropContext
<1>2. /\ contextRefs' \subseteq ContextHolders /\ context' \in {"valid", "shutdown", "finalized"}
      /\ ContextInv'
      /\ \A x \in contextRefs \ {ContextRef} : x \in contextRefs'
  <2>1. CASE Shutdown
    BY <2>1 DEF Shutdown, IInv, TypeOK, ContextInv
  <2>2. CASE DropContext
    BY <2>2, ReleaseContextOK DEF DropContext, IInv
  <2> QED
    BY <2>1, <2>2
<1>3. TypeOK'
  BY <1>1, <1>2 DEF IInv, TypeOK, ContextHolders, Holders, NodeHolders, nodeVars, handleVars
<1>4. \A n \in Nodes : NodeInv(n)'
  BY <1>1, <1>2, RefsDiffer DEF IInv, NodeInv, nodeVars
<1>5. \A e \in Entities : EntityInv(e)'
  BY <1>1 DEF IInv, EntityInv, nodeVars, handleVars
<1> QED
  BY <1>2, <1>3, <1>4, <1>5 DEF IInv

\* Steps of the owner and of the thread that change no reference to a node or
\* to an entity.
LEMMA SendTerminateStep ==
  ASSUME IInv, NEW n \in Nodes, SendTerminate(n)
  PROVE  IInv'
<1>1. /\ owner[n] = "alive" /\ thread[n] = "running"
      /\ owner' = [owner EXCEPT ![n] = "joining"]
      /\ UNCHANGED <<contextVars, poisoned, nodeVars, thread, outcome, handleVars, invoker, clock>>
  BY DEF SendTerminate
<1>2. TypeOK'
  BY <1>1 DEF IInv, TypeOK, ContextHolders, Holders, NodeHolders, contextVars, nodeVars, handleVars
<1>3. ContextInv'
  BY <1>1 DEF IInv, ContextInv, contextVars
<1>4. owner \in [Nodes -> {"none", "alive", "joining", "dropped", "panicked"}]
  BY DEF IInv, TypeOK
<1>5. \A m \in Nodes : NodeInv(m)'
  BY <1>1, <1>4 DEF IInv, NodeInv, contextVars, nodeVars
<1>6. \A e \in Entities : EntityInv(e)'
  BY <1>1, <1>4, LifetimesAssumption DEF IInv, EntityInv, nodeVars, handleVars
<1> QED
  BY <1>2, <1>3, <1>5, <1>6 DEF IInv

LEMMA StopStep ==
  ASSUME IInv, NEW n \in Nodes, NEW result \in Results, Stop(n, result)
  PROVE  IInv'
<1>1. /\ thread[n] = "running"
      /\ thread' = [thread EXCEPT ![n] = "dropping"]
      /\ outcome' = [outcome EXCEPT ![n] = result]
      /\ ReleaseContext({ExecutorRef(n)})
      /\ UNCHANGED <<poisoned, nodeVars, owner, handleVars, invoker, clock>>
  BY DEF Stop
<1>2. /\ contextRefs' = contextRefs \ {ExecutorRef(n)}
      /\ contextRefs' \subseteq ContextHolders /\ context' \in {"valid", "shutdown", "finalized"}
      /\ ContextInv'
  BY <1>1, ReleaseContextOK DEF IInv
<1>3. TypeOK'
  BY <1>1, <1>2 DEF IInv, TypeOK, ContextHolders, Holders, NodeHolders, nodeVars, handleVars
<1>4. thread \in [Nodes -> {"none", "running", "dropping", "ended"}]
  BY DEF IInv, TypeOK
<1>5. \A m \in Nodes : NodeInv(m)'
  BY <1>1, <1>2, <1>4, RefsDiffer DEF IInv, NodeInv, nodeVars
<1>6. \A e \in Entities : EntityInv(e)'
  BY <1>1, <1>4, LifetimesAssumption DEF IInv, EntityInv, nodeVars, handleVars
<1> QED
  BY <1>2, <1>3, <1>5, <1>6 DEF IInv

LEMMA EndThreadStep ==
  ASSUME IInv, NEW n \in Nodes, EndThread(n)
  PROVE  IInv'
<1>1. /\ thread[n] = "dropping" /\ Held(n) = {}
      /\ thread' = [thread EXCEPT ![n] = "ended"]
      /\ UNCHANGED <<contextVars, poisoned, nodeVars, owner, outcome, handleVars, invoker, clock>>
  BY DEF EndThread
<1>2. TypeOK'
  BY <1>1 DEF IInv, TypeOK, ContextHolders, Holders, NodeHolders, contextVars, nodeVars, handleVars
<1>3. ContextInv'
  BY <1>1 DEF IInv, ContextInv, contextVars
<1>4. thread \in [Nodes -> {"none", "running", "dropping", "ended"}]
  BY DEF IInv, TypeOK
<1>5. \A m \in Nodes : NodeInv(m)'
  BY <1>1, <1>4 DEF IInv, NodeInv, contextVars, nodeVars
<1>6. \A e \in Entities : EntityInv(e)'
  BY <1>1, <1>4, LifetimesAssumption DEF IInv, EntityInv, nodeVars, handleVars, Held
<1> QED
  BY <1>2, <1>3, <1>5, <1>6 DEF IInv

\* Steps on one entity that drop no reference.
LEMMA EntitySteps ==
  ASSUME IInv, NEW e \in Entities, Register(e) \/ DropClock(e) \/ CreateTimerPanics(e)
  PROVE  IInv'
<1>1. /\ UNCHANGED <<contextVars, nodeVars, owner, thread, outcome, handleVars>>
      /\ poisoned' \in BOOLEAN
  BY DEF Register, DropClock, CreateTimerPanics, IInv, TypeOK
<1>2. /\ invoker \in [Entities -> {"none", "queued", "registered", "dropped"}]
      /\ clock \in [Entities -> {"none", "live", "finalized"}]
      /\ \A f \in Entities : clock[f] # "none" => kind[f] = "timer"
  BY DEF IInv, TypeOK
<1>3. /\ invoker' \in [Entities -> {"none", "queued", "registered", "dropped"}]
      /\ \A f \in Entities :
           invoker'[f] \in {"queued", "registered"} <=> invoker[f] \in {"queued", "registered"}
      /\ clock' \in [Entities -> {"none", "live", "finalized"}]
      /\ \A f \in Entities : clock'[f] # "none" => clock[f] # "none"
      /\ \A f \in Entities : clock'[f] = "finalized" =>
           clock[f] = "finalized" \/ "user" \notin handleRefs[f]
  BY <1>2 DEF Register, DropClock, CreateTimerPanics
<1>4. TypeOK'
  BY <1>1, <1>2, <1>3
  DEF IInv, TypeOK, ContextHolders, Holders, NodeHolders, contextVars, nodeVars, handleVars
<1>5. ContextInv'
  BY <1>1 DEF IInv, ContextInv, contextVars
<1>6. \A n \in Nodes : NodeInv(n)'
  BY <1>1 DEF IInv, NodeInv, contextVars, nodeVars
<1>7. \A f \in Entities : EntityInv(f)'
  BY <1>1, <1>3 DEF IInv, EntityInv, nodeVars, handleVars
<1> QED
  BY <1>4, <1>5, <1>6, <1>7 DEF IInv

\* One holder of an entity drops its Arc; the executor does so together with
\* the invoker.
LEMMA ReleaseSteps ==
  ASSUME IInv, NEW e \in Entities, NEW r \in handleRefs[e], NEW unwinding \in BOOLEAN,
         ReleaseHandle(e, r, unwinding),
         UNCHANGED <<poisoned, owner, thread, outcome, clock>>,
         invoker' = IF r = "invoker" THEN [invoker EXCEPT ![e] = "dropped"] ELSE invoker
  PROVE  IInv'
<1>1. /\ kind' = kind
      /\ handleRefs' = [handleRefs EXCEPT ![e] = @ \ {r}]
      /\ handle' \in [Entities -> {"none", "live", "finalized"}]
      /\ \A f \in Entities : handle'[f] = "live" <=> handleRefs'[f] # {}
      /\ \A f \in Entities : handle'[f] = "none" <=> handle[f] = "none"
      /\ \A f \in Entities :
           EntityRef(f) \in nodeRefs'[NodeOf[f]] <=> handle'[f] = "live" /\ kind[f] # "timer"
      /\ nodeRefs' \in [Nodes -> SUBSET ({NodeRef(n) : n \in Nodes} \cup {EntityRef(f) : f \in Entities})]
      /\ \A n \in Nodes : nodeRefs'[n] \subseteq nodeRefs[n]
      /\ \A n \in Nodes : NodeRef(n) \in nodeRefs[n] => NodeRef(n) \in nodeRefs'[n]
      /\ node' \in [Nodes -> {"none", "live", "finalized", "leaked"}]
      /\ \A n \in Nodes : node'[n] = "live" <=> nodeRefs'[n] # {}
      /\ contextRefs' \subseteq ContextHolders
      /\ \A n \in Nodes : NodeRef(n) \in contextRefs => NodeRef(n) \in contextRefs'
      /\ \A n \in Nodes : ExecutorRef(n) \in contextRefs => ExecutorRef(n) \in contextRefs'
      /\ \A n \in Nodes : nodeRefs'[n] # {} => RclNodeRef(n) \in contextRefs'
      /\ context' \in {"valid", "shutdown", "finalized"}
      /\ ContextInv'
      /\ aborted' \in BOOLEAN
  BY ReleaseHandleOK
<1>2. /\ invoker \in [Entities -> {"none", "queued", "registered", "dropped"}]
      /\ handleRefs \in [Entities -> SUBSET {"user", "invoker", "callback"}]
      /\ \A f \in Entities : handleRefs[f] \subseteq Holders(f)
      /\ \A n \in Nodes : nodeRefs[n] \subseteq NodeHolders(n)
  BY DEF IInv, TypeOK
<1>3. /\ handleRefs' \in [Entities -> SUBSET {"user", "invoker", "callback"}]
      /\ \A f \in Entities : handleRefs'[f] \subseteq handleRefs[f]
      /\ invoker' \in [Entities -> {"none", "queued", "registered", "dropped"}]
  BY <1>1, <1>2
<1>4. /\ \A f \in Entities : handleRefs'[f] \subseteq Holders(f)'
      /\ \A n \in Nodes : nodeRefs'[n] \subseteq NodeHolders(n)'
  BY <1>1, <1>2, <1>3 DEF Holders, NodeHolders
<1>5. ContextHolders' = ContextHolders
  BY DEF ContextHolders
<1>6. TypeOK'
  BY <1>1, <1>3, <1>4, <1>5 DEF IInv, TypeOK
<1>7. \A n \in Nodes : NodeInv(n)'
  BY <1>1 DEF IInv, NodeInv
<1>8. \A f \in Entities : invoker'[f] \in {"queued", "registered"} <=> "invoker" \in handleRefs'[f]
  BY <1>1, <1>2 DEF IInv, EntityInv
<1>9. \A f \in Entities : EntityInv(f)'
  BY <1>1, <1>3, <1>8 DEF IInv, EntityInv
<1> QED
  BY <1>1, <1>6, <1>7, <1>9 DEF IInv

\* DropEntity, DropInvoker and EndTask.
LEMMA DropSteps ==
  ASSUME IInv, NEW e \in Entities,
         DropEntity(e) \/ DropInvoker(e) \/ \E panics \in BOOLEAN : EndTask(e, panics)
  PROVE  IInv'
<1>1. CASE DropEntity(e)
  BY <1>1, ReleaseSteps DEF DropEntity
<1>2. CASE DropInvoker(e)
  <2>1. "invoker" \in handleRefs[e]
    BY <1>2 DEF DropInvoker, Held, IInv, EntityInv
  <2>2. /\ ReleaseHandle(e, "invoker", outcome[NodeOf[e]] = "panic")
        /\ UNCHANGED <<poisoned, owner, thread, outcome, clock>>
        /\ invoker' = [invoker EXCEPT ![e] = "dropped"]
    BY <1>2 DEF DropInvoker
  <2>3. (outcome[NodeOf[e]] = "panic") \in BOOLEAN
    OBVIOUS
  <2> QED
    BY <2>1, <2>2, <2>3, ReleaseSteps
<1>3. ASSUME NEW panics \in BOOLEAN, EndTask(e, panics)
      PROVE  IInv'
  BY <1>3, ReleaseSteps DEF EndTask
<1> QED
  BY <1>1, <1>2, <1>3

\* Drop for Node has dropped its fields, after a join or a panic.
LEMMA DropFieldsStep ==
  ASSUME IInv, NEW n \in Nodes, NEW end \in {"dropped", "panicked"}, DropFields(n, end),
         owner[n] \in {"alive", "joining"}, end = "dropped" => thread[n] = "ended"
  PROVE  IInv'
<1>1. /\ owner' = [owner EXCEPT ![n] = end]
      /\ ReleaseNode(n, NodeRef(n), {NodeRef(n)}, end = "panicked")
      /\ UNCHANGED <<poisoned, thread, outcome, handleVars, invoker, clock>>
  BY DEF DropFields
<1>2. /\ nodeRefs' = [nodeRefs EXCEPT ![n] = @ \ {NodeRef(n)}]
      /\ node' \in [Nodes -> {"none", "live", "finalized", "leaked"}]
      /\ \A m \in Nodes : node'[m] = "live" <=> nodeRefs'[m] # {}
      /\ contextRefs' = contextRefs \ ({NodeRef(n)} \cup
           (IF nodeRefs[n] \ {NodeRef(n)} = {} THEN {RclNodeRef(n)} ELSE {}))
      /\ contextRefs' \subseteq ContextHolders
      /\ context' \in {"valid", "shutdown", "finalized"}
      /\ ContextInv'
      /\ aborted' \in BOOLEAN
  <2>1. (end = "panicked") \in BOOLEAN
    OBVIOUS
  <2> QED
    BY <1>1, <2>1, ReleaseNodeOK
<1>3. /\ owner \in [Nodes -> {"none", "alive", "joining", "dropped", "panicked"}]
      /\ nodeRefs \in [Nodes -> SUBSET ({NodeRef(m) : m \in Nodes} \cup {EntityRef(f) : f \in Entities})]
      /\ \A m \in Nodes : nodeRefs[m] \subseteq NodeHolders(m)
  BY DEF IInv, TypeOK
<1>4. /\ nodeRefs' \in [Nodes -> SUBSET ({NodeRef(m) : m \in Nodes} \cup {EntityRef(f) : f \in Entities})]
      /\ \A m \in Nodes : nodeRefs'[m] \subseteq nodeRefs[m]
      /\ owner' \in [Nodes -> {"none", "alive", "joining", "dropped", "panicked"}]
  BY <1>1, <1>2, <1>3
<1>5. \A m \in Nodes : nodeRefs'[m] \subseteq NodeHolders(m)'
  BY <1>1, <1>3, <1>4 DEF NodeHolders, handleVars
<1>6. TypeOK'
  BY <1>1, <1>2, <1>4, <1>5 DEF IInv, TypeOK, ContextHolders, Holders, handleVars
<1>7. \A m \in Nodes : NodeInv(m)'
  <2> SUFFICES ASSUME NEW m \in Nodes
               PROVE  NodeInv(m)'
    OBVIOUS
  <2>1. CASE m = n
    BY <1>1, <1>2, <1>3, <2>1, RefsDiffer DEF IInv, NodeInv
  <2>2. CASE m # n
    BY <1>1, <1>2, <1>3, <2>2, RefsDiffer DEF IInv, NodeInv
  <2> QED
    BY <2>1, <2>2
<1>8. \A f \in Entities : EntityRef(f) \in nodeRefs'[NodeOf[f]] <=> EntityRef(f) \in nodeRefs[NodeOf[f]]
  BY <1>2, <1>3, RefsDiffer, LifetimesAssumption
<1>9. \A f \in Entities : EntityInv(f)'
  BY <1>1, <1>3, <1>8, LifetimesAssumption DEF IInv, EntityInv, handleVars
<1> QED
  BY <1>2, <1>6, <1>7, <1>9 DEF IInv

\* Context::create_node.
LEMMA CreateNodeStep ==
  ASSUME IInv, NEW n \in Nodes, CreateNode(n)
  PROVE  IInv'
<1>1. /\ owner[n] = "none" /\ context = "valid"
      /\ contextRefs' = contextRefs \cup {NodeRef(n), RclNodeRef(n), ExecutorRef(n)}
      /\ node' = [node EXCEPT ![n] = "live"]
      /\ nodeRefs' = [nodeRefs EXCEPT ![n] = {NodeRef(n)}]
      /\ owner' = [owner EXCEPT ![n] = "alive"]
      /\ thread' = [thread EXCEPT ![n] = "running"]
      /\ UNCHANGED <<context, poisoned, outcome, handleVars, invoker, clock, aborted>>
  BY DEF CreateNode
<1>2. /\ node \in [Nodes -> {"none", "live", "finalized", "leaked"}]
      /\ nodeRefs \in [Nodes -> SUBSET ({NodeRef(m) : m \in Nodes} \cup {EntityRef(f) : f \in Entities})]
      /\ \A m \in Nodes : nodeRefs[m] \subseteq NodeHolders(m)
      /\ owner \in [Nodes -> {"none", "alive", "joining", "dropped", "panicked"}]
      /\ thread \in [Nodes -> {"none", "running", "dropping", "ended"}]
      /\ contextRefs \subseteq ContextHolders
  BY DEF IInv, TypeOK
<1>3. /\ node' \in [Nodes -> {"none", "live", "finalized", "leaked"}]
      /\ nodeRefs' \in [Nodes -> SUBSET ({NodeRef(m) : m \in Nodes} \cup {EntityRef(f) : f \in Entities})]
      /\ owner' \in [Nodes -> {"none", "alive", "joining", "dropped", "panicked"}]
      /\ thread' \in [Nodes -> {"none", "running", "dropping", "ended"}]
      /\ contextRefs' \subseteq ContextHolders'
  BY <1>1, <1>2 DEF ContextHolders
<1>4. \A m \in Nodes : nodeRefs'[m] \subseteq NodeHolders(m)'
  BY <1>1, <1>2 DEF NodeHolders, handleVars
<1>5. TypeOK'
  BY <1>1, <1>3, <1>4 DEF IInv, TypeOK, Holders, handleVars
<1>6. ContextInv'
  BY <1>1 DEF IInv, ContextInv
<1>7. \A m \in Nodes : NodeInv(m)'
  BY <1>1, <1>2 DEF IInv, NodeInv
<1>8. nodeRefs[n] = {}
  BY <1>1 DEF IInv, NodeInv
<1>9. \A f \in Entities : EntityRef(f) \in nodeRefs'[NodeOf[f]] <=> EntityRef(f) \in nodeRefs[NodeOf[f]]
  BY <1>1, <1>2, <1>8, RefsDiffer, LifetimesAssumption
<1>10. \A f \in Entities : "invoker" \in handleRefs[f] => thread'[NodeOf[f]] \in {"running", "dropping"}
  BY <1>1, <1>2, LifetimesAssumption DEF IInv, EntityInv
<1>11. \A f \in Entities : handle[f] # "none" => owner'[NodeOf[f]] # "none"
  BY <1>1, <1>2, LifetimesAssumption DEF IInv, EntityInv
<1>12. \A f \in Entities : EntityInv(f)'
  BY <1>1, <1>9, <1>10, <1>11 DEF IInv, EntityInv, handleVars
<1> QED
  BY <1>5, <1>6, <1>7, <1>12 DEF IInv

\* An entity of kind k is created, refs being the holders of its Arc.
LEMMA CreatedStep ==
  ASSUME IInv, NEW e \in Entities, NEW k \in Kinds,
         NEW refs \in SUBSET {"user", "invoker", "callback"}, "user" \in refs,
         "invoker" \in refs => k # "publisher", "callback" \in refs => k = "service",
         Created(e, k, refs),
         IF k = "timer" THEN UNCHANGED nodeRefs ELSE TakesNode(e),
         IF "invoker" \in refs THEN Registers(e) ELSE UNCHANGED invoker,
         clock' = IF k = "timer" THEN [clock EXCEPT ![e] = "live"] ELSE clock
  PROVE  IInv'
<1> DEFINE n == NodeOf[e]
<1>0. n \in Nodes
  BY LifetimesAssumption
<1>1. /\ owner[n] = "alive" /\ handle[e] = "none"
      /\ kind' = [kind EXCEPT ![e] = k]
      /\ handle' = [handle EXCEPT ![e] = "live"]
      /\ handleRefs' = [handleRefs EXCEPT ![e] = refs]
      /\ UNCHANGED <<contextVars, poisoned, node, owner, thread, outcome, aborted>>
  BY DEF Created
<1>2. /\ kind \in [Entities -> Kinds \cup {"none"}]
      /\ handle \in [Entities -> {"none", "live", "finalized"}]
      /\ handleRefs \in [Entities -> SUBSET {"user", "invoker", "callback"}]
      /\ \A f \in Entities : handleRefs[f] \subseteq Holders(f)
      /\ nodeRefs \in [Nodes -> SUBSET ({NodeRef(m) : m \in Nodes} \cup {EntityRef(f) : f \in Entities})]
      /\ \A m \in Nodes : nodeRefs[m] \subseteq NodeHolders(m)
      /\ invoker \in [Entities -> {"none", "queued", "registered", "dropped"}]
      /\ clock \in [Entities -> {"none", "live", "finalized"}]
      /\ \A f \in Entities : clock[f] # "none" => kind[f] = "timer"
      /\ contextRefs \subseteq ContextHolders
  BY DEF IInv, TypeOK
<1>3. /\ kind[e] = "none" /\ handleRefs[e] = {} /\ EntityRef(e) \notin nodeRefs[n]
      /\ invoker[e] \notin {"queued", "registered"} /\ clock[e] = "none"
      /\ NodeRef(n) \in nodeRefs[n]
  BY <1>0, <1>1, <1>2 DEF IInv, EntityInv, NodeInv
<1> HIDE DEF n
<1>4. /\ nodeRefs' = [nodeRefs EXCEPT ![n] = IF k = "timer" THEN @ ELSE @ \cup {EntityRef(e)}]
      /\ invoker' = [invoker EXCEPT ![e] = IF "invoker" \in refs THEN "queued" ELSE @]
      /\ "invoker" \in refs => thread[n] = "running"
  BY <1>2 DEF TakesNode, Registers, n
<1>5. /\ kind' \in [Entities -> Kinds \cup {"none"}]
      /\ handle' \in [Entities -> {"none", "live", "finalized"}]
      /\ handleRefs' \in [Entities -> SUBSET {"user", "invoker", "callback"}]
      /\ nodeRefs' \in [Nodes -> SUBSET ({NodeRef(m) : m \in Nodes} \cup {EntityRef(f) : f \in Entities})]
      /\ invoker' \in [Entities -> {"none", "queued", "registered", "dropped"}]
      /\ clock' \in [Entities -> {"none", "live", "finalized"}]
  BY <1>0, <1>1, <1>2, <1>4
<1>6. \A f \in Entities : handleRefs'[f] \subseteq Holders(f)'
  <2> SUFFICES ASSUME NEW f \in Entities
               PROVE  handleRefs'[f] \subseteq Holders(f)'
    OBVIOUS
  <2>1. CASE f = e
    BY <1>1, <1>2, <2>1 DEF Holders
  <2>2. CASE f # e
    BY <1>1, <1>2, <2>2 DEF Holders
  <2> QED
    BY <2>1, <2>2
<1>7. \A f \in Entities : clock'[f] # "none" => kind'[f] = "timer"
  BY <1>1, <1>2, <1>3
<1>8. \A m \in Nodes : nodeRefs'[m] \subseteq NodeHolders(m)'
  <2> SUFFICES ASSUME NEW m \in Nodes, NEW x \in nodeRefs'[m]
               PROVE  x \in NodeHolders(m)'
    OBVIOUS
  <2>1. CASE x \in nodeRefs[m]
    <3>1. x = NodeRef(m) \/ \E f \in Entities : x = EntityRef(f) /\ NodeOf[f] = m /\ kind[f] # "timer"
      BY <1>2, <2>1 DEF NodeHolders
    <3>2. x # EntityRef(e) \/ m # n
      BY <1>3, <2>1
    <3> QED
      BY <1>1, <1>2, <3>1, <3>2 DEF NodeHolders, n
  <2>2. CASE x \notin nodeRefs[m]
    <3>1. m = n /\ k # "timer" /\ x = EntityRef(e)
      BY <1>0, <1>2, <1>4, <2>2
    <3> QED
      BY <1>1, <1>2, <3>1 DEF NodeHolders, n
  <2> QED
    BY <2>1, <2>2
<1>9. TypeOK'
  BY <1>1, <1>5, <1>6, <1>7, <1>8 DEF IInv, TypeOK, ContextHolders, contextVars
<1>10. ContextInv'
  BY <1>1 DEF IInv, ContextInv, contextVars
<1>11. \A m \in Nodes : NodeInv(m)'
  <2>1. \A m \in Nodes : /\ nodeRefs'[m] # {} <=> nodeRefs[m] # {}
                         /\ NodeRef(m) \in nodeRefs[m] => NodeRef(m) \in nodeRefs'[m]
    BY <1>0, <1>2, <1>3, <1>4
  <2> QED
    BY <1>1, <2>1 DEF IInv, NodeInv, contextVars
<1>12. \A f \in Entities :
         EntityRef(f) \in nodeRefs'[NodeOf[f]] <=> handle'[f] = "live" /\ kind'[f] # "timer"
  <2> SUFFICES ASSUME NEW f \in Entities
               PROVE  EntityRef(f) \in nodeRefs'[NodeOf[f]] <=> handle'[f] = "live" /\ kind'[f] # "timer"
    OBVIOUS
  <2>1. CASE f = e
    BY <1>0, <1>1, <1>2, <1>3, <1>4, <2>1 DEF n
  <2>2. CASE f # e
    <3>1. EntityRef(f) # EntityRef(e) /\ NodeOf[f] \in Nodes
      BY <2>2, RefsDiffer, LifetimesAssumption
    <3>2. EntityRef(f) \in nodeRefs'[NodeOf[f]] <=> EntityRef(f) \in nodeRefs[NodeOf[f]]
      BY <1>0, <1>2, <1>4, <3>1
    <3> QED
      BY <1>1, <1>2, <2>2, <3>2 DEF IInv, EntityInv
  <2> QED
    BY <2>1, <2>2
<1>13. \A f \in Entities : EntityInv(f)'
  <2> SUFFICES ASSUME NEW f \in Entities
               PROVE  EntityInv(f)'
    OBVIOUS
  <2>1. CASE f = e
    BY <1>0, <1>1, <1>2, <1>3, <1>4, <1>12, <2>1 DEF EntityInv, Kinds, n
  <2>2. CASE f # e
    BY <1>1, <1>2, <1>4, <1>12, <2>2 DEF IInv, EntityInv
  <2> QED
    BY <2>1, <2>2
<1> QED
  BY <1>9, <1>10, <1>11, <1>13 DEF IInv

\* The five kinds.
LEMMA CreateSteps ==
  ASSUME IInv, NEW e \in Entities, Create(e)
  PROVE  IInv'
<1>1. CASE CreatePublisher(e)
  BY <1>1, CreatedStep DEF CreatePublisher, Kinds
<1>2. CASE CreateSubscription(e)
  BY <1>2, CreatedStep DEF CreateSubscription, Kinds
<1>3. CASE CreateClient(e)
  BY <1>3, CreatedStep DEF CreateClient, Kinds
<1>4. CASE CreateService(e)
  BY <1>4, CreatedStep DEF CreateService, Kinds
<1>5. CASE CreateTimer(e)
  <2> DEFINE refs == {"user", "invoker"}
  <2>1. /\ Created(e, "timer", refs) /\ Registers(e) /\ UNCHANGED nodeRefs
        /\ clock' = [clock EXCEPT ![e] = "live"]
    BY <1>5 DEF CreateTimer
  <2>2. /\ "timer" \in Kinds /\ refs \in SUBSET {"user", "invoker", "callback"}
        /\ "user" \in refs /\ "invoker" \in refs /\ "callback" \notin refs
    BY DEF Kinds
  <2> HIDE DEF refs
  <2> QED
    BY <2>1, <2>2, CreatedStep
<1> QED
  BY <1>1, <1>2, <1>3, <1>4, <1>5 DEF Create

\* Every step keeps the invariant: one case per action.
LEMMA NextInvariant == IInv /\ [Next]_vars => IInv'
<1> SUFFICES ASSUME IInv, [Next]_vars
             PROVE  IInv'
  OBVIOUS
<1>1. CASE Shutdown \/ DropContext
  BY <1>1, ContextSteps
<1>2. ASSUME NEW n \in Nodes, UserNode(n)
      PROVE  IInv'
  <2>1. CASE CreateNode(n)
    BY <2>1, CreateNodeStep
  <2>2. CASE SendTerminate(n)
    BY <2>2, SendTerminateStep
  <2>3. CASE SendFails(n)
    BY <2>3, DropFieldsStep DEF SendFails
  <2>4. CASE Join(n)
    BY <2>4, DropFieldsStep DEF Join
  <2> QED
    BY <1>2, <2>1, <2>2, <2>3, <2>4 DEF UserNode
<1>3. ASSUME NEW n \in Nodes, EndThread(n)
      PROVE  IInv'
  BY <1>3, EndThreadStep
<1>4. ASSUME NEW n \in Nodes, NEW result \in Results, Stop(n, result)
      PROVE  IInv'
  BY <1>4, StopStep
<1>5. ASSUME NEW e \in Entities, User(e) \/ Register(e) \/ DropInvoker(e)
      PROVE  IInv'
  BY <1>5, CreateSteps, EntitySteps, DropSteps DEF User
<1>6. ASSUME NEW e \in Entities, NEW panics \in BOOLEAN, EndTask(e, panics)
      PROVE  IInv'
  BY <1>6, DropSteps
<1>7. CASE UNCHANGED vars
  <2>1. TypeOK'
    BY <1>7 DEF vars, IInv, TypeOK, ContextHolders, Holders, NodeHolders
  <2>2. ContextInv' /\ (\A n \in Nodes : NodeInv(n)') /\ (\A e \in Entities : EntityInv(e)')
    BY <1>7 DEF vars, IInv, ContextInv, NodeInv, EntityInv
  <2> QED
    BY <2>1, <2>2 DEF IInv
<1> QED
  BY <1>1, <1>2, <1>3, <1>4, <1>5, <1>6, <1>7 DEF Next

(***************************************************************************)
(* The invariant holds in every reachable state.                           *)
(***************************************************************************)
THEOREM Invariance == Spec => []IInv
BY InitInvariant, NextInvariant, PTL DEF Spec

---------------------------------------------------------------------------
(***************************************************************************)
(* Every variable keeps its type; in particular no timer ever holds its    *)
(* node, and only a service's callback holds its entity (timer.rs:21-44,   *)
(* service/mod.rs:39-68).                                                  *)
(***************************************************************************)
THEOREM TypeCorrect == Spec => []TypeOK
<1>1. IInv => TypeOK
  BY DEF IInv
<1> QED
  BY <1>1, Invariance, PTL

(***************************************************************************)
(* rcl sees every entity finalized before its node and every node before   *)
(* the context, whoever drops last, and nothing in use is finalized        *)
(* (publisher/rcl_wrapper.rs:133, node.rs:180, context.rs:102).            *)
(***************************************************************************)
THEOREM FinalizationInOrder == Spec => []FinalizedInOrder
<1>1. IInv => FinalizedInOrder
  <2> SUFFICES ASSUME IInv
               PROVE  FinalizedInOrder
    OBVIOUS
  <2>1. EntitiesBeforeNode
    BY LifetimesAssumption DEF EntitiesBeforeNode, IInv, EntityInv, NodeInv
  <2>2. NodesBeforeContext
    BY DEF NodesBeforeContext, IInv, NodeInv, ContextInv
  <2>3. InUseIsLive
    BY DEF InUseIsLive, IInv, EntityInv
  <2> QED
    BY <2>1, <2>2, <2>3 DEF FinalizedInOrder
<1> QED
  BY <1>1, Invariance, PTL

(***************************************************************************)
(* A timer outlives its clock only while the executor has it and the user  *)
(* has dropped the Timer, and the context only in the hands of the user or *)
(* of a thread that nobody joined (timer.rs:84-85, node.rs:502).           *)
(***************************************************************************)
THEOREM TimerDangling == Spec => []TimerDanglesWithCause
<1>1. IInv => TimerDanglesWithCause
  <2> SUFFICES ASSUME IInv, NEW e \in Entities, handle[e] = "live", kind[e] = "timer"
               PROVE  /\ clock[e] = "finalized" => "user" \notin handleRefs[e] /\ e \in Held(NodeOf[e])
                      /\ context = "finalized" =>
                           "user" \in handleRefs[e]
                             \/ (owner[NodeOf[e]] = "panicked" /\ e \in Held(NodeOf[e]))
    BY DEF TimerDanglesWithCause
  <2>1. "user" \notin handleRefs[e] => e \in Held(NodeOf[e])
    <3>1. handleRefs[e] # {} /\ handleRefs[e] \subseteq {"user", "invoker"}
      BY DEF IInv, TypeOK, EntityInv, Holders
    <3> QED
      BY <3>1 DEF IInv, EntityInv, Held
  <2>2. clock[e] = "finalized" => "user" \notin handleRefs[e]
    BY DEF IInv, EntityInv
  <2>3. ASSUME context = "finalized", e \in Held(NodeOf[e])
        PROVE  owner[NodeOf[e]] = "panicked"
    <3>1. contextRefs = {} /\ NodeOf[e] \in Nodes
      BY <2>3, LifetimesAssumption DEF IInv, ContextInv
    <3>2. owner[NodeOf[e]] \in {"none", "alive", "joining", "dropped", "panicked"}
      BY <3>1 DEF IInv, TypeOK
    <3>3. owner[NodeOf[e]] \notin {"alive", "joining"}
      BY <3>1 DEF IInv, NodeInv
    <3>4. thread[NodeOf[e]] \in {"running", "dropping"}
      BY <2>3 DEF IInv, EntityInv, Held
    <3>5. owner[NodeOf[e]] \notin {"none", "dropped"}
      BY <3>1, <3>4 DEF IInv, NodeInv
    <3> QED
      BY <3>2, <3>3, <3>5
  <2> QED
    BY <2>1, <2>2, <2>3
<1> QED
  BY <1>1, Invariance, PTL

==============================================================================
