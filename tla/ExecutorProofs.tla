--------------------------- MODULE ExecutorProofs ---------------------------
(***************************************************************************)
(* Executor for any entities, buffers, histories and numbers of messages:  *)
(* its safety properties and the causes of its failures and panics, from   *)
(* one inductive invariant.                                                *)
(***************************************************************************)
EXTENDS Executor, WorkerProofs

---------------------------------------------------------------------------
(***************************************************************************)
(* The inductive invariant, by what its parts are about.                   *)
(***************************************************************************)

\* The workers: the owner of each is the user's handle.
WorkersInv ==
  \A e \in Entities : WorkerInv(worker[e]) /\ (worker[e].owner <=> handle[e] # "dropped")

\* The channel of the node is open as long as its thread runs, and an executor
\* that is over has left nothing in it.
ChannelInv ==
  /\ WithinCapacity(nodeCh, NodeBuffer)
  /\ nodeCh.open <=> pc # "exited"
  /\ pc = "exited" => nodeCh.queue = <<>> /\ invokers = <<>>

\* One create_* is in progress at a time; its invoker has its sender still.
CreateInv ==
  /\ \A e \in Entities : handle[e] = "creating" => node = "registering" /\ tx[e]
  /\ \A e, f \in Entities : handle[e] = "creating" /\ handle[f] = "creating" => e = f

\* Who has joined the thread finds it over, and its invokers gone with it.
JoinInv ==
  /\ joined /\ node # "waiting" => pc = "exited"
  /\ node = "dropped" /\ panics = 0 => pc = "exited"
  /\ \A e \in Entities : pc = "exited" /\ tx[e] => handle[e] = "creating"

\* RegisteredOnce, and that an invoker is sent after its creation, Terminate
\* after every invoker.
LineInv ==
  /\ Distinct(Line)
  /\ \A e \in Entities : Holds(Line, e) => handle[e] \in {"held", "dropped"}
  /\ Holds(Line, "terminate") => node \in {"joining", "dropped"}
  /\ pc # "exited" => \A e \in Entities : handle[e] = "held" => Holds(Line, e)

\* An invoker whose turn is still to come was reported for a cause, and has it still.
RoundInv ==
  pc = "invoke" =>
    \A e \in todo :
      /\ handle[e] \in {"held", "dropped"}
      /\ inbox[e] > 0 \/ e \in Spurious \/ ClockGone(e)

IInv ==
  /\ TypeOK
  /\ WorkersInv
  /\ ChannelInv
  /\ CreateInv
  /\ JoinInv
  /\ LineInv
  /\ LiveEntityKeepsSender
  /\ RoundInv

---------------------------------------------------------------------------
(***************************************************************************)
(* What the types say of the line of invokers.                             *)
(***************************************************************************)
SpinMessages == Entities \cup {"terminate"}

LEMMA Types ==
  ASSUME TypeOK
  PROVE  /\ nodeCh \in Channels(SpinMessages, {"node"})
         /\ nodeCh.queue \in Seq(SpinMessages)
         /\ nodeCh.open \in BOOLEAN
         /\ invokers \in Seq(SpinMessages)
         /\ Line \in Seq(SpinMessages)
         /\ NodeBuffer \in Nat
<1>1. nodeCh \in Channels(SpinMessages, {"node"})
  BY DEF TypeOK, SpinMessages
<1>2. nodeCh.queue \in Seq(SpinMessages) /\ nodeCh.open \in BOOLEAN
  BY <1>1 DEF Channels
<1>3. invokers \in Seq(SpinMessages)
  <2>1. invokers \in Seq(Entities) /\ Entities \subseteq SpinMessages
    BY DEF TypeOK, SpinMessages
  <2> QED
    BY <2>1, SeqMonotonic
<1>4. Line \in Seq(SpinMessages)
  BY <1>2, <1>3, ConcatProperties DEF Line
<1> QED
  BY <1>1, <1>2, <1>3, <1>4, BoundsAssumption

\* A registered entity is in the line.
LEMMA RegisteredInLine ==
  ASSUME TypeOK, NEW e \in Registered
  PROVE  e \in Entities /\ Holds(Line, e)
<1>1. e \in Entities /\ Holds(invokers, e)
  BY DEF Registered, Holds
<1>2. Holds(Line, e)
  BY <1>1, Types, InConcat DEF Line
<1> QED
  BY <1>1, <1>2

(***************************************************************************)
(* What the node sends joins the line at its end.                          *)
(***************************************************************************)
LEMMA NodeSends ==
  ASSUME TypeOK, ChannelInv, NEW m \in SpinMessages, Accepts(nodeCh, "node"),
         nodeCh' = Push(nodeCh, NodeBuffer, "node", m), invokers' = invokers
  PROVE  /\ nodeCh' \in Channels(SpinMessages, {"node"})
         /\ nodeCh'.open = nodeCh.open
         /\ WithinCapacity(nodeCh', NodeBuffer)
         /\ Line' = Append(Line, m)
         /\ \A x : Holds(Line', x) <=> Holds(Line, x) \/ m = x
<1> DEFINE s == "node"
           S == {"node"}
           c == Push(nodeCh, NodeBuffer, s, m)
<1>1. /\ nodeCh \in Channels(SpinMessages, S)
      /\ s \in S
      /\ NodeBuffer \in Nat
      /\ Accepts(nodeCh, s)
      /\ WithinCapacity(nodeCh, NodeBuffer)
      /\ nodeCh' = c
  BY Types DEF ChannelInv
<1> HIDE DEF s, S
<1>2. /\ c \in Channels(SpinMessages, S)
      /\ c.queue = Append(nodeCh.queue, m)
      /\ c.open = nodeCh.open
  BY <1>1, PushType
<1>3. WithinCapacity(c, NodeBuffer)
  BY <1>1, PushWithinCapacity
<1> HIDE DEF c
<1>4. Line' = Append(Line, m)
  <2>1. invokers \in Seq(SpinMessages) /\ nodeCh.queue \in Seq(SpinMessages)
    BY Types
  <2>2. Append(invokers \o nodeCh.queue, m) = invokers \o Append(nodeCh.queue, m)
    BY <2>1, AppendToConcat, Zenon
  <2> QED
    BY <1>1, <1>2, <2>2 DEF Line
<1>5. \A x : Holds(Line', x) <=> Holds(Line, x) \/ m = x
  <2>1. Line \in Seq(SpinMessages)
    BY Types
  <2>2. \A x : Holds(Append(Line, m), x) <=> Holds(Line, x) \/ m = x
    BY <2>1, InAppend
  <2> QED
    BY <1>4, <2>2
<1> QED
  BY <1>1, <1>2, <1>3, <1>4, <1>5 DEF S

\* Taking a message leaves what the other entities have.
LEMMA TakenBounds ==
  ASSUME TypeOK, NEW e \in Entities, HasMessage(e), Taken(e)
  PROVE  /\ inbox' \in [Entities -> 0..Depth]
         /\ \A f \in Entities \ {e} : inbox'[f] = inbox[f]
<1>1. inbox \in [Entities -> 0..Depth] /\ Depth \in Nat \ {0}
  BY BoundsAssumption DEF TypeOK
<1>2. inbox' = [inbox EXCEPT ![e] = IF e \in Timers THEN 0 ELSE @ - 1]
  BY DEF Taken
<1>3. e \in Timers \/ inbox[e] > 0
  BY DEF HasMessage
<1> QED
  BY <1>1, <1>2, <1>3

---------------------------------------------------------------------------
\* The invariant holds when Node::new returns.
LEMMA InitInvariant == Init => IInv
<1> SUFFICES ASSUME Init PROVE IInv
  OBVIOUS
<1>1. NewWorker \in Workers /\ WorkerInv(NewWorker) /\ NewWorker.owner = TRUE
  BY NewWorkerOK DEF NewWorker
<1>2. EmptyChannel \in Channels(SpinMessages, {"node"}) /\ WithinCapacity(EmptyChannel, NodeBuffer)
  BY EmptyChannelOK, BoundsAssumption
<1>3. EmptyChannel.queue = <<>> /\ EmptyChannel.open = TRUE
  BY DEF EmptyChannel
<1>4. Line = <<>>
  BY <1>3 DEF Init, Line
<1>5. TypeOK
  <2>1. /\ nodeCh \in Channels(SpinMessages, {"node"})
        /\ worker \in [Entities -> Workers]
    BY <1>1, <1>2 DEF Init
  <2>2. /\ inbox \in [Entities -> 0..Depth]
        /\ arrived \in [Entities -> 0..MaxArrivals]
    BY BoundsAssumption DEF Init
  <2>3. /\ invokers \in Seq(Entities)
        /\ todo \in SUBSET Entities
        /\ tx \in [Entities -> BOOLEAN]
        /\ handle \in [Entities -> {"absent", "creating", "held", "dropped"}]
    BY DEF Init
  <2>4. /\ node \in {"idle", "registering", "waiting", "joining", "dropped"}
        /\ panics \in 0..2
        /\ pc \in {"check", "drain", "build", "wait", "invoke", "returning", "exited"}
        /\ result \in {"none", "ok", "err"}
    BY DEF Init
  <2>5. valid \in BOOLEAN /\ joined \in BOOLEAN
    BY DEF Init
  <2> QED
    BY <2>1, <2>2, <2>3, <2>4, <2>5 DEF TypeOK, SpinMessages
<1>6. WorkersInv
  BY <1>1 DEF Init, WorkersInv
<1>7. ChannelInv
  BY <1>2, <1>3 DEF Init, ChannelInv
<1>8. LineInv
  BY <1>4 DEF Init, LineInv, Distinct, Holds
<1>9. CreateInv /\ JoinInv /\ LiveEntityKeepsSender /\ RoundInv
  BY DEF Init, CreateInv, JoinInv, LiveEntityKeepsSender, RoundInv
<1> QED
  BY <1>5, <1>6, <1>7, <1>8, <1>9 DEF IInv

---------------------------------------------------------------------------
(***************************************************************************)
(* The user's steps.                                                       *)
(***************************************************************************)
LEMMA CreateInvariant ==
  ASSUME IInv, NEW e \in Entities, Create(e)
  PROVE  IInv'
<1> USE DEF IInv
<1>1. /\ node = "idle" /\ node' = "registering"
      /\ handle[e] = "absent"
      /\ handle' = [handle EXCEPT ![e] = "creating"]
      /\ tx' = [tx EXCEPT ![e] = TRUE]
      /\ UNCHANGED <<valid, panics, joined, nodeCh, pc, result, invokers, todo, inbox, arrived, worker>>
  BY DEF Create, NodeAt, spinVars
<1>2. Line' = Line
  BY <1>1 DEF Line
<1>3. TypeOK'
  BY <1>1 DEF TypeOK
<1>4. WorkersInv'
  BY <1>1 DEF WorkersInv, TypeOK
<1>5. ChannelInv'
  BY <1>1 DEF ChannelInv
<1>6. CreateInv'
  BY <1>1 DEF CreateInv, TypeOK
<1>7. JoinInv'
  BY <1>1 DEF JoinInv, TypeOK
<1>8. LineInv'
  BY <1>1, <1>2 DEF LineInv, TypeOK
<1>9. LiveEntityKeepsSender' /\ RoundInv'
  BY <1>1 DEF LiveEntityKeepsSender, RoundInv, ClockGone, TypeOK
<1> QED
  BY <1>3, <1>4, <1>5, <1>6, <1>7, <1>8, <1>9

\* An accepted registration: the entity joins the line, in which it was not.
LEMMA SentInvariant ==
  ASSUME IInv, NEW e \in Entities, Register(e), Accepts(nodeCh, "node")
  PROVE  IInv'
<1> USE DEF IInv
<1>1. /\ node = "registering" /\ node' = "idle"
      /\ handle[e] = "creating"
      /\ nodeCh' = Push(nodeCh, NodeBuffer, "node", e)
      /\ handle' = [handle EXCEPT ![e] = "held"]
      /\ UNCHANGED <<valid, panics, joined, pc, result, invokers, todo, tx, inbox, arrived, worker>>
  BY DEF Register, Sent, NodeAt, spinVars
<1>2. e \in SpinMessages /\ "terminate" # e
  BY EntitiesAssumption DEF SpinMessages
<1>3. /\ nodeCh' \in Channels(SpinMessages, {"node"})
      /\ nodeCh'.open = nodeCh.open
      /\ WithinCapacity(nodeCh', NodeBuffer)
      /\ Line' = Append(Line, e)
      /\ \A x : Holds(Line', x) <=> Holds(Line, x) \/ e = x
  BY <1>1, <1>2, NodeSends
<1>4. nodeCh.open
  BY DEF Accepts
<1>5. ~Holds(Line, e)
  BY <1>1 DEF LineInv
<1>6. TypeOK'
  BY <1>1, <1>3 DEF TypeOK, SpinMessages
<1>7. WorkersInv'
  BY <1>1 DEF WorkersInv, TypeOK
<1>8. ChannelInv'
  BY <1>1, <1>3, <1>4 DEF ChannelInv
<1>9. CreateInv'
  BY <1>1 DEF CreateInv, TypeOK
<1>10. JoinInv'
  BY <1>1, <1>4 DEF JoinInv, ChannelInv, TypeOK
<1>11. LineInv'
  <2>1. Distinct(Line')
    BY <1>2, <1>3, <1>5, Types, DistinctAppend DEF LineInv
  <2> QED
    BY <1>1, <1>2, <1>3, <2>1 DEF LineInv, TypeOK
<1>12. LiveEntityKeepsSender'
  BY <1>1 DEF LiveEntityKeepsSender, CreateInv, TypeOK
<1>13. RoundInv'
  BY <1>1 DEF RoundInv, ClockGone, TypeOK
<1> QED
  BY <1>6, <1>7, <1>8, <1>9, <1>10, <1>11, <1>12, <1>13

\* A refused registration: expect() panics and drops what was created.
LEMMA SendPanicsInvariant ==
  ASSUME IInv, NEW e \in Entities, Register(e), ~Accepts(nodeCh, "node")
  PROVE  IInv'
<1> USE DEF IInv
<1>1. /\ node = "registering" /\ node' = "idle"
      /\ panics < 2 /\ panics' = panics + 1
      /\ handle[e] = "creating"
      /\ handle' = [handle EXCEPT ![e] = "dropped"]
      /\ tx' = [tx EXCEPT ![e] = FALSE]
      /\ worker' = [worker EXCEPT ![e] = OwnerDropped(worker[e])]
      /\ UNCHANGED <<valid, joined, nodeCh, pc, result, invokers, todo, inbox, arrived>>
  BY DEF Register, SendPanics, Panic, NodeAt, Alive, spinVars
<1>2. /\ OwnerDropped(worker[e]) \in Workers
      /\ WorkerInv(OwnerDropped(worker[e]))
      /\ OwnerDropped(worker[e]).owner = FALSE
  <2>1. worker[e] \in Workers /\ WorkerInv(worker[e]) /\ worker[e].owner
    BY <1>1 DEF WorkersInv, TypeOK
  <2> QED
    BY <2>1, OwnerDroppedOK
<1>3. Line' = Line
  BY <1>1 DEF Line
<1>4. TypeOK'
  BY <1>1, <1>2 DEF TypeOK
<1>5. WorkersInv'
  BY <1>1, <1>2 DEF WorkersInv, TypeOK
<1>6. ChannelInv'
  BY <1>1 DEF ChannelInv
<1>7. CreateInv'
  BY <1>1 DEF CreateInv, TypeOK
<1>8. JoinInv'
  BY <1>1 DEF JoinInv, TypeOK
<1>9. LineInv'
  BY <1>1, <1>3 DEF LineInv, TypeOK
<1>10. LiveEntityKeepsSender'
  BY <1>1 DEF LiveEntityKeepsSender, TypeOK
<1>11. RoundInv'
  BY <1>1 DEF RoundInv, ClockGone, TypeOK
<1> QED
  BY <1>4, <1>5, <1>6, <1>7, <1>8, <1>9, <1>10, <1>11

LEMMA DropHandleInvariant ==
  ASSUME IInv, NEW e \in Entities, DropHandle(e)
  PROVE  IInv'
<1> USE DEF IInv
<1>1. /\ handle[e] = "held"
      /\ handle' = [handle EXCEPT ![e] = "dropped"]
      /\ worker' = [worker EXCEPT ![e] = OwnerDropped(worker[e])]
      /\ UNCHANGED <<valid, node, panics, joined, nodeCh, pc, result, invokers, todo, tx, inbox, arrived>>
  BY DEF DropHandle, spinVars
<1>2. /\ OwnerDropped(worker[e]) \in Workers
      /\ WorkerInv(OwnerDropped(worker[e]))
      /\ OwnerDropped(worker[e]).owner = FALSE
  <2>1. worker[e] \in Workers /\ WorkerInv(worker[e]) /\ worker[e].owner
    BY <1>1 DEF WorkersInv, TypeOK
  <2> QED
    BY <2>1, OwnerDroppedOK
<1>3. Line' = Line
  BY <1>1 DEF Line
<1>4. TypeOK'
  BY <1>1, <1>2 DEF TypeOK
<1>5. WorkersInv'
  BY <1>1, <1>2 DEF WorkersInv, TypeOK
<1>6. ChannelInv' /\ CreateInv' /\ JoinInv'
  BY <1>1 DEF ChannelInv, CreateInv, JoinInv, TypeOK
<1>7. LineInv'
  BY <1>1, <1>3 DEF LineInv, TypeOK
<1>8. LiveEntityKeepsSender'
  BY <1>1 DEF LiveEntityKeepsSender, TypeOK
<1>9. RoundInv'
  BY <1>1 DEF RoundInv, ClockGone, TypeOK
<1> QED
  BY <1>4, <1>5, <1>6, <1>7, <1>8, <1>9

\* Steps that only move the owner of the node, or shut the context down.
LEMMA ShutdownInvariant ==
  ASSUME IInv, Shutdown
  PROVE  IInv'
<1> USE DEF IInv
<1>1. /\ valid' = FALSE
      /\ UNCHANGED <<node, panics, joined, handle, nodeCh, pc, result, invokers, todo, tx,
                     inbox, arrived, worker>>
  BY DEF Shutdown, spinVars
<1>2. Line' = Line
  BY <1>1 DEF Line
<1>3. TypeOK'
  BY <1>1 DEF TypeOK
<1>4. WorkersInv' /\ ChannelInv' /\ CreateInv' /\ JoinInv'
  BY <1>1 DEF WorkersInv, ChannelInv, CreateInv, JoinInv
<1>5. LineInv'
  BY <1>1, <1>2 DEF LineInv
<1>6. LiveEntityKeepsSender' /\ RoundInv'
  BY <1>1 DEF LiveEntityKeepsSender, RoundInv, ClockGone
<1> QED
  BY <1>3, <1>4, <1>5, <1>6

LEMMA JoinsInvariant ==
  ASSUME IInv, Wait \/ WaitReturns \/ JoinOnDrop
  PROVE  IInv'
<1> USE DEF IInv
<1>1. UNCHANGED <<valid, handle, nodeCh, pc, result, invokers, todo, tx, inbox, arrived, worker>>
  BY DEF Wait, WaitReturns, JoinOnDrop, spinVars
<1>2. \/ /\ node = "idle" /\ node' = "waiting"
         /\ joined' = TRUE /\ panics' = panics
      \/ /\ node = "waiting" /\ node' = "idle"
         /\ pc = "exited"
         /\ joined' = joined /\ panics' = panics
      \/ /\ node = "joining" /\ node' = "dropped"
         /\ pc = "exited"
         /\ joined' = joined /\ panics < 2 /\ (panics' = panics \/ panics' = panics + 1)
  BY DEF Wait, WaitReturns, JoinOnDrop, NodeAt, Alive, Panic
<1>3. Line' = Line
  BY <1>1 DEF Line
<1>4. TypeOK'
  <2>1. panics' \in 0..2
    BY <1>2 DEF TypeOK
  <2>2. node' \in {"idle", "waiting", "dropped"}
    BY <1>2
  <2>3. joined' \in BOOLEAN
    BY <1>2 DEF TypeOK
  <2> QED
    BY <1>1, <2>1, <2>2, <2>3 DEF TypeOK
<1>5. WorkersInv' /\ ChannelInv'
  BY <1>1 DEF WorkersInv, ChannelInv
<1>6. CreateInv'
  BY <1>1, <1>2 DEF CreateInv
<1>7. JoinInv'
  BY <1>1, <1>2 DEF JoinInv
<1>8. LineInv'
  BY <1>1, <1>2, <1>3 DEF LineInv
<1>9. LiveEntityKeepsSender' /\ RoundInv'
  BY <1>1 DEF LiveEntityKeepsSender, RoundInv, ClockGone
<1> QED
  BY <1>4, <1>5, <1>6, <1>7, <1>8, <1>9

\* Terminate is the last that the node sends.
LEMMA DropNodeInvariant ==
  ASSUME IInv, DropNode
  PROVE  IInv'
<1> USE DEF IInv
<1>1. /\ node = "idle" /\ panics < 2
      /\ UNCHANGED <<valid, joined, handle, pc, result, invokers, todo, tx, inbox, arrived, worker>>
  BY DEF DropNode, NodeAt, Alive, spinVars
<1>2. \A e \in Entities : handle[e] # "creating"
  BY <1>1 DEF CreateInv
<1>3. WorkersInv'
  BY <1>1 DEF WorkersInv
<1>4. CreateInv'
  BY <1>1, <1>2 DEF CreateInv
<1>5. LiveEntityKeepsSender' /\ RoundInv'
  BY <1>1 DEF LiveEntityKeepsSender, RoundInv, ClockGone
<1>6. CASE Accepts(nodeCh, "node")
  <2>1. /\ nodeCh' = Push(nodeCh, NodeBuffer, "node", "terminate")
        /\ node' = IF joined THEN "dropped" ELSE "joining"
        /\ panics' = panics
    BY <1>6 DEF DropNode
  <2>2. /\ "terminate" \in SpinMessages
        /\ invokers' = invokers
        /\ nodeCh.open /\ pc # "exited"
    BY <1>1, <1>6 DEF ChannelInv, SpinMessages, Accepts
  <2>3. /\ nodeCh' \in Channels(SpinMessages, {"node"})
        /\ nodeCh'.open = nodeCh.open
        /\ WithinCapacity(nodeCh', NodeBuffer)
        /\ Line' = Append(Line, "terminate")
        /\ \A x : Holds(Line', x) <=> Holds(Line, x) \/ "terminate" = x
    BY <1>6, <2>1, <2>2, NodeSends
  <2>4. ~joined
    BY <1>1, <2>2 DEF JoinInv
  <2>5. TypeOK'
    BY <1>1, <2>1, <2>3 DEF TypeOK, SpinMessages
  <2>6. ChannelInv' /\ JoinInv'
    BY <1>1, <2>1, <2>2, <2>3, <2>4 DEF ChannelInv, JoinInv
  <2>7. LineInv'
    <3>1. ~Holds(Line, "terminate")
      BY <1>1 DEF LineInv
    <3>2. Distinct(Line')
      BY <2>2, <2>3, <3>1, Types, DistinctAppend DEF LineInv
    <3> QED
      BY <1>1, <2>1, <2>3, <2>4, <3>2, EntitiesAssumption DEF LineInv
  <2> QED
    BY <1>3, <1>4, <1>5, <2>5, <2>6, <2>7
<1>7. CASE ~Accepts(nodeCh, "node")
  <2>1. /\ nodeCh' = nodeCh
        /\ node' = "dropped"
        /\ panics' = panics + 1
    BY <1>7 DEF DropNode, Panic
  <2>2. Line' = Line
    BY <1>1, <2>1 DEF Line
  <2>3. TypeOK'
    BY <1>1, <2>1 DEF TypeOK
  <2>4. ChannelInv' /\ JoinInv'
    BY <1>1, <2>1 DEF ChannelInv, JoinInv, TypeOK
  <2>5. LineInv'
    BY <1>1, <2>1, <2>2 DEF LineInv
  <2> QED
    BY <1>3, <1>4, <1>5, <2>3, <2>4, <2>5
<1> QED
  BY <1>6, <1>7

LEMMA ArriveInvariant ==
  ASSUME IInv, NEW e \in Entities, Arrive(e)
  PROVE  IInv'
<1> USE DEF IInv
<1>1. /\ arrived[e] < MaxArrivals
      /\ arrived' = [arrived EXCEPT ![e] = @ + 1]
      /\ inbox' = [inbox EXCEPT ![e] = IF @ < Capacity(e) THEN @ + 1 ELSE @]
      /\ UNCHANGED <<valid, node, panics, joined, handle, nodeCh, pc, result, invokers, todo,
                     tx, worker>>
  BY DEF Arrive, userVars, spinVars
<1>2. Line' = Line
  BY <1>1 DEF Line
<1>3. Capacity(e) \in 1..Depth
  BY BoundsAssumption DEF Capacity
<1>4. TypeOK'
  BY <1>1, <1>3, BoundsAssumption DEF TypeOK
<1>5. WorkersInv' /\ ChannelInv' /\ CreateInv' /\ JoinInv'
  BY <1>1 DEF WorkersInv, ChannelInv, CreateInv, JoinInv
<1>6. LineInv'
  BY <1>1, <1>2 DEF LineInv
<1>7. LiveEntityKeepsSender'
  BY <1>1 DEF LiveEntityKeepsSender
<1>8. \A f \in Entities : inbox[f] > 0 => inbox'[f] > 0
  BY <1>1, BoundsAssumption DEF TypeOK
<1>9. RoundInv'
  BY <1>1, <1>8 DEF RoundInv, ClockGone, TypeOK
<1> QED
  BY <1>4, <1>5, <1>6, <1>7, <1>9

---------------------------------------------------------------------------
(***************************************************************************)
(* The executor's steps.  Most of them only move the thread on; what they  *)
(* have taken from rmw or left to do does not matter outside a round.      *)
(***************************************************************************)
LEMMA ThreadMoves ==
  ASSUME IInv,
         pc # "exited", pc' \in {"check", "drain", "build", "wait", "returning"},
         result' \in {"none", "ok", "err"},
         todo' \in SUBSET Entities, inbox' \in [Entities -> 0..Depth],
         UNCHANGED <<userVars, nodeCh, invokers, tx, arrived, worker>>
  PROVE  IInv'
<1> USE DEF IInv, userVars
<1>1. Line' = Line
  BY DEF Line
<1>2. TypeOK'
  BY DEF TypeOK
<1>3. WorkersInv' /\ ChannelInv' /\ CreateInv' /\ JoinInv'
  BY DEF WorkersInv, ChannelInv, CreateInv, JoinInv
<1>4. LineInv'
  BY <1>1 DEF LineInv
<1>5. LiveEntityKeepsSender' /\ RoundInv'
  BY DEF LiveEntityKeepsSender, RoundInv
<1> QED
  BY <1>2, <1>3, <1>4, <1>5

LEMMA DrainInvokerInvariant ==
  ASSUME IInv, DrainInvoker
  PROVE  IInv'
<1> USE DEF IInv
<1> DEFINE q == nodeCh.queue
<1>1. /\ pc = "drain"
      /\ q # <<>> /\ Head(q) # "terminate"
      /\ invokers' = Append(invokers, Head(q))
      /\ nodeCh' = Pop(nodeCh)
      /\ UNCHANGED <<valid, node, panics, joined, handle, pc, result, todo, tx, inbox, arrived, worker>>
  BY DEF DrainInvoker, At, userVars
<1>2. /\ nodeCh \in Channels(SpinMessages, {"node"})
      /\ nodeCh.queue # <<>>
      /\ NodeBuffer \in Nat
      /\ WithinCapacity(nodeCh, NodeBuffer)
  BY <1>1, Types DEF ChannelInv
<1>3. /\ nodeCh' \in Channels(SpinMessages, {"node"})
      /\ nodeCh'.queue = Tail(nodeCh.queue)
      /\ nodeCh'.open = nodeCh.open
      /\ Head(nodeCh.queue) \in SpinMessages
  BY <1>1, <1>2, PopType
<1>4. WithinCapacity(nodeCh', NodeBuffer)
  BY <1>1, <1>2, PopWithinCapacity
<1>5. Line' = Line
  <2>1. invokers \in Seq(SpinMessages) /\ nodeCh.queue \in Seq(SpinMessages)
    BY Types
  <2>2. invokers \o nodeCh.queue = Append(invokers, Head(nodeCh.queue)) \o Tail(nodeCh.queue)
    BY <1>2, <2>1, MoveHead, Zenon
  <2> QED
    BY <1>1, <1>3, <2>2 DEF Line
<1>6. TypeOK'
  <2>1. Head(q) \in Entities
    BY <1>1, <1>3 DEF SpinMessages
  <2>2. invokers' \in Seq(Entities)
    BY <1>1, <2>1 DEF TypeOK
  <2> QED
    BY <1>1, <1>3, <2>2 DEF TypeOK, SpinMessages
<1>7. WorkersInv' /\ ChannelInv' /\ CreateInv' /\ JoinInv'
  BY <1>1, <1>3, <1>4 DEF WorkersInv, ChannelInv, CreateInv, JoinInv
<1>8. LineInv'
  BY <1>1, <1>5 DEF LineInv
<1>9. LiveEntityKeepsSender' /\ RoundInv'
  BY <1>1 DEF LiveEntityKeepsSender, RoundInv
<1> QED
  BY <1>6, <1>7, <1>8, <1>9

LEMMA DrainTerminateInvariant ==
  ASSUME IInv, DrainTerminate
  PROVE  IInv'
<1> USE DEF IInv
<1>1. /\ pc = "drain" /\ pc' = "returning" /\ result' = "ok"
      /\ nodeCh.queue # <<>> /\ Head(nodeCh.queue) = "terminate"
      /\ nodeCh' = Pop(nodeCh)
      /\ UNCHANGED <<valid, node, panics, joined, handle, invokers, todo, tx, inbox, arrived, worker>>
  BY DEF DrainTerminate, At, Return, userVars
<1>2. /\ nodeCh \in Channels(SpinMessages, {"node"})
      /\ nodeCh.queue # <<>>
      /\ NodeBuffer \in Nat
      /\ WithinCapacity(nodeCh, NodeBuffer)
  BY <1>1, Types DEF ChannelInv
<1>3. /\ nodeCh' \in Channels(SpinMessages, {"node"})
      /\ nodeCh'.queue = Tail(nodeCh.queue)
      /\ nodeCh'.open = nodeCh.open
  BY <1>1, <1>2, PopType
<1>4. WithinCapacity(nodeCh', NodeBuffer)
  BY <1>1, <1>2, PopWithinCapacity
<1>5. Distinct(Line')
  <2>1. invokers \in Seq(SpinMessages) /\ nodeCh.queue \in Seq(SpinMessages)
    BY Types
  <2>2. Distinct(invokers \o Tail(nodeCh.queue))
    BY <1>2, <2>1, DistinctRemove DEF LineInv, Line
  <2> QED
    BY <1>1, <1>3, <2>2 DEF Line
<1>6. \A e \in Entities : Holds(Line', e) <=> Holds(Line, e)
  <2> SUFFICES ASSUME NEW e \in Entities
               PROVE  Holds(Line', e) <=> Holds(Line, e)
    OBVIOUS
  <2>1. /\ invokers \in Seq(SpinMessages)
        /\ nodeCh.queue \in Seq(SpinMessages)
        /\ Tail(nodeCh.queue) \in Seq(SpinMessages)
        /\ "terminate" # e
    BY <1>2, Types, EntitiesAssumption
  <2>2. Holds(nodeCh.queue, e) <=> Holds(Tail(nodeCh.queue), e)
    BY <1>1, <2>1, InTail
  <2>3. Holds(Line, e) <=> Holds(invokers, e) \/ Holds(nodeCh.queue, e)
    BY <2>1, InConcat DEF Line
  <2>4. Holds(invokers \o Tail(nodeCh.queue), e) <=> Holds(invokers, e) \/ Holds(Tail(nodeCh.queue), e)
    BY <2>1, InConcat
  <2> QED
    BY <1>1, <1>3, <2>2, <2>3, <2>4 DEF Line
<1>7. node \in {"joining", "dropped"}
  <2>1. invokers \in Seq(SpinMessages) /\ nodeCh.queue \in Seq(SpinMessages)
    BY Types
  <2>2. Holds(nodeCh.queue, "terminate")
    BY <1>1, <2>1, InTail
  <2>3. Holds(Line, "terminate")
    BY <2>1, <2>2, InConcat DEF Line
  <2> QED
    BY <2>3 DEF LineInv
<1>8. TypeOK'
  BY <1>1, <1>3 DEF TypeOK, SpinMessages
<1>9. WorkersInv' /\ ChannelInv' /\ CreateInv' /\ JoinInv'
  BY <1>1, <1>3, <1>4 DEF WorkersInv, ChannelInv, CreateInv, JoinInv
<1>10. LineInv'
  BY <1>1, <1>5, <1>6, <1>7 DEF LineInv
<1>11. LiveEntityKeepsSender' /\ RoundInv'
  BY <1>1 DEF LiveEntityKeepsSender, RoundInv
<1> QED
  BY <1>8, <1>9, <1>10, <1>11

\* CheckContext, DrainEnds, BuildWaitSet, the waits that start no round, and
\* the ends of a round.
LEMMA ThreadMovesInvariant ==
  ASSUME IInv,
         \/ CheckContext \/ DrainEnds \/ BuildWaitSet \/ WaitTimeout \/ WaitFails \/ InvokeEnds
         \/ \E e \in Entities : InvokeFails(e) \/ InvokeTimerFails(e)
         \/ \E e \in Entities : InvokeTakesNothing(e) /\ e \in Clients
  PROVE  IInv'
<1> USE DEF IInv
<1>1. inbox \in [Entities -> 0..Depth] /\ todo \in SUBSET Entities /\ result \in {"none", "ok", "err"}
  BY DEF TypeOK
<1>2. /\ pc # "exited" /\ pc' \in {"check", "drain", "build", "wait", "returning"}
      /\ result' \in {"none", "ok", "err"}
  BY <1>1 DEF CheckContext, DrainEnds, BuildWaitSet, WaitTimeout, WaitFails, InvokeEnds,
     InvokeFails, InvokeTimerFails, InvokeTakesNothing, Turn, At, Goto, Return
<1>3. UNCHANGED <<userVars, nodeCh, invokers, todo, tx, arrived, worker>>
  BY DEF CheckContext, DrainEnds, BuildWaitSet, WaitTimeout, WaitFails, InvokeEnds,
     InvokeFails, InvokeTimerFails, InvokeTakesNothing
<1>4. inbox' \in [Entities -> 0..Depth]
  <2>1. inbox' = inbox \/ \E e \in Entities : HasMessage(e) /\ Taken(e)
    BY DEF CheckContext, DrainEnds, BuildWaitSet, WaitTimeout, WaitFails, InvokeEnds,
       InvokeFails, InvokeTimerFails, InvokeTakesNothing
  <2> QED
    BY <1>1, <2>1, TakenBounds
<1> HIDE DEF IInv
<1> QED
  BY <1>1, <1>2, <1>3, <1>4, ThreadMoves

LEMMA WaitReadyInvariant ==
  ASSUME IInv, WaitReady
  PROVE  IInv'
<1> USE DEF IInv
<1>1. /\ pc = "wait" /\ pc' = "invoke"
      /\ todo' \in SUBSET (Ready \cup PerhapsReady)
      /\ UNCHANGED <<valid, node, panics, joined, handle, nodeCh, result, invokers, tx, inbox,
                     arrived, worker>>
  BY DEF WaitReady, At, Goto, userVars
<1>2. Line' = Line
  BY <1>1 DEF Line
<1>3. ASSUME NEW e \in todo'
      PROVE  /\ e \in Entities
             /\ handle[e] \in {"held", "dropped"}
             /\ inbox[e] > 0 \/ e \in Spurious \/ ClockGone(e)
  <2>1. /\ e \in Registered
        /\ inbox[e] > 0 \/ e \in Spurious \/ ClockGone(e)
    BY <1>1 DEF Ready, PerhapsReady
  <2>2. e \in Entities /\ Holds(Line, e)
    BY <2>1, RegisteredInLine
  <2> QED
    BY <2>1, <2>2 DEF LineInv
<1>4. TypeOK'
  BY <1>1, <1>3 DEF TypeOK
<1>5. WorkersInv' /\ ChannelInv' /\ CreateInv' /\ JoinInv'
  BY <1>1 DEF WorkersInv, ChannelInv, CreateInv, JoinInv
<1>6. LineInv'
  BY <1>1, <1>2 DEF LineInv
<1>7. LiveEntityKeepsSender'
  BY <1>1 DEF LiveEntityKeepsSender
<1>8. RoundInv'
  BY <1>1, <1>3 DEF RoundInv, ClockGone
<1> QED
  BY <1>4, <1>5, <1>6, <1>7, <1>8

(***************************************************************************)
(* An invoker that returns Ok: the round goes on without it.               *)
(***************************************************************************)
LEMMA RoundGoesOn ==
  ASSUME IInv, NEW e \in todo,
         pc = "invoke", todo' = todo \ {e},
         UNCHANGED <<userVars, nodeCh, pc, result, invokers, arrived>>,
         inbox' \in [Entities -> 0..Depth],
         \A f \in Entities \ {e} : inbox'[f] = inbox[f],
         worker' \in [Entities -> Workers],
         \A f \in Entities : /\ WorkerInv(worker'[f])
                             /\ worker'[f].owner = worker[f].owner
                             /\ worker'[f].task = worker[f].task,
         tx' \in [Entities -> BOOLEAN],
         \A f \in Entities : \/ tx'[f] = tx[f]
                             \/ f = e /\ ~tx'[f] /\ worker[f].task = "gone"
  PROVE  IInv'
<1> USE DEF IInv, userVars
<1>1. Line' = Line
  BY DEF Line
<1>2. e \in Entities /\ handle[e] # "creating"
  BY DEF TypeOK, RoundInv
<1>3. TypeOK'
  BY DEF TypeOK
<1>4. WorkersInv'
  BY DEF WorkersInv
<1>5. ChannelInv'
  BY DEF ChannelInv
<1>6. CreateInv'
  BY <1>2 DEF CreateInv
<1>7. JoinInv'
  BY DEF JoinInv
<1>8. LineInv'
  BY <1>1 DEF LineInv
<1>9. LiveEntityKeepsSender'
  BY DEF LiveEntityKeepsSender
<1>10. RoundInv'
  BY DEF RoundInv, ClockGone, TypeOK
<1> QED
  BY <1>3, <1>4, <1>5, <1>6, <1>7, <1>8, <1>9, <1>10

LEMMA InvokeStoppedInvariant ==
  ASSUME IInv, NEW e \in Entities, InvokeStopped(e)
  PROVE  IInv'
<1>1. /\ e \in todo /\ pc = "invoke" /\ todo' = todo \ {e}
      /\ UNCHANGED <<userVars, nodeCh, pc, result, invokers, arrived, tx, worker>>
  BY DEF InvokeStopped, Turn, At, Invoked
<1>2. inbox' \in [Entities -> 0..Depth] /\ \A f \in Entities \ {e} : inbox'[f] = inbox[f]
  <2>1. CASE e \in Timers
    <3>1. HasMessage(e) /\ Taken(e)
      BY <2>1 DEF InvokeStopped, HasMessage
    <3> QED
      BY <3>1, TakenBounds DEF IInv
  <2>2. CASE e \notin Timers
    BY <2>2 DEF InvokeStopped, IInv, TypeOK
  <2> QED
    BY <2>1, <2>2
<1>3. worker' \in [Entities -> Workers] /\ tx' \in [Entities -> BOOLEAN]
  BY <1>1 DEF IInv, TypeOK
<1>4. \A f \in Entities : /\ WorkerInv(worker'[f])
                          /\ worker'[f].owner = worker[f].owner
                          /\ worker'[f].task = worker[f].task
  BY <1>1 DEF IInv, WorkersInv
<1>5. \A f \in Entities : \/ tx'[f] = tx[f]
                          \/ f = e /\ ~tx'[f] /\ worker[f].task = "gone"
  BY <1>1
<1> QED
  BY <1>1, <1>2, <1>3, <1>4, <1>5, RoundGoesOn

LEMMA InvokeTakesNothingInvariant ==
  ASSUME IInv, NEW e \in Entities, InvokeTakesNothing(e), e \notin Clients
  PROVE  IInv'
<1>1. /\ e \in todo /\ pc = "invoke" /\ todo' = todo \ {e}
      /\ UNCHANGED <<userVars, nodeCh, pc, result, invokers, arrived, tx, inbox, worker>>
  BY DEF InvokeTakesNothing, Turn, At, Invoked
<1>2. inbox' \in [Entities -> 0..Depth] /\ \A f \in Entities \ {e} : inbox'[f] = inbox[f]
  BY <1>1 DEF IInv, TypeOK
<1>3. worker' \in [Entities -> Workers] /\ tx' \in [Entities -> BOOLEAN]
  BY <1>1 DEF IInv, TypeOK
<1>4. \A f \in Entities : /\ WorkerInv(worker'[f])
                          /\ worker'[f].owner = worker[f].owner
                          /\ worker'[f].task = worker[f].task
  BY <1>1 DEF IInv, WorkersInv
<1>5. \A f \in Entities : \/ tx'[f] = tx[f]
                          \/ f = e /\ ~tx'[f] /\ worker[f].task = "gone"
  BY <1>1
<1> QED
  BY <1>1, <1>2, <1>3, <1>4, <1>5, RoundGoesOn

LEMMA InvokeDeliversInvariant ==
  ASSUME IInv, NEW e \in Entities, InvokeDelivers(e)
  PROVE  IInv'
<1>1. /\ e \in todo /\ pc = "invoke" /\ todo' = todo \ {e}
      /\ UNCHANGED <<userVars, nodeCh, pc, result, invokers, arrived, tx>>
      /\ HasMessage(e) /\ Taken(e)
      /\ Accepts(worker[e].ch, "invoker")
      /\ worker' = [worker EXCEPT ![e] = Offered(worker[e], 1)]
  BY DEF InvokeDelivers, Turn, At, Invoked
<1>2. inbox' \in [Entities -> 0..Depth] /\ \A f \in Entities \ {e} : inbox'[f] = inbox[f]
  BY <1>1, TakenBounds DEF IInv
<1>3. /\ Offered(worker[e], 1) \in Workers
      /\ WorkerInv(Offered(worker[e], 1))
      /\ Offered(worker[e], 1).owner = worker[e].owner
      /\ Offered(worker[e], 1).task = worker[e].task
  <2>1. worker[e] \in Workers /\ WorkerInv(worker[e]) /\ 1 \in Nat \ {Terminate}
    BY DEF IInv, TypeOK, WorkersInv, Terminate
  <2> QED
    BY <1>1, <2>1, OfferedOK
<1>4. worker' \in [Entities -> Workers] /\ tx' \in [Entities -> BOOLEAN]
  BY <1>1, <1>3 DEF IInv, TypeOK
<1>5. \A f \in Entities : /\ WorkerInv(worker'[f])
                          /\ worker'[f].owner = worker[f].owner
                          /\ worker'[f].task = worker[f].task
  BY <1>1, <1>3 DEF IInv, TypeOK, WorkersInv
<1>6. \A f \in Entities : \/ tx'[f] = tx[f]
                          \/ f = e /\ ~tx'[f] /\ worker[f].task = "gone"
  BY <1>1
<1> QED
  BY <1>1, <1>2, <1>4, <1>5, <1>6, RoundGoesOn

\* stop() comes only when the task is gone.
LEMMA InvokeStopsInvariant ==
  ASSUME IInv, NEW e \in Entities, InvokeStops(e)
  PROVE  IInv'
<1>1. /\ e \in todo /\ pc = "invoke" /\ todo' = todo \ {e}
      /\ UNCHANGED <<userVars, nodeCh, pc, result, invokers, arrived, worker>>
      /\ HasMessage(e) /\ Taken(e)
      /\ ~worker[e].ch.open
      /\ tx' = [tx EXCEPT ![e] = FALSE]
  BY DEF InvokeStops, Turn, At, Invoked, IsDisconnected
<1>2. inbox' \in [Entities -> 0..Depth] /\ \A f \in Entities \ {e} : inbox'[f] = inbox[f]
  BY <1>1, TakenBounds DEF IInv
<1>3. worker[e].task = "gone"
  BY <1>1 DEF IInv, WorkersInv, WorkerInv
<1>4. worker' \in [Entities -> Workers] /\ tx' \in [Entities -> BOOLEAN]
  BY <1>1 DEF IInv, TypeOK
<1>5. \A f \in Entities : /\ WorkerInv(worker'[f])
                          /\ worker'[f].owner = worker[f].owner
                          /\ worker'[f].task = worker[f].task
  BY <1>1 DEF IInv, WorkersInv
<1>6. \A f \in Entities : \/ tx'[f] = tx[f]
                          \/ f = e /\ ~tx'[f] /\ worker[f].task = "gone"
  <2>1. tx \in [Entities -> BOOLEAN]
    BY DEF IInv, TypeOK
  <2>2. tx'[e] = FALSE /\ \A f \in Entities \ {e} : tx'[f] = tx[f]
    BY <1>1, <2>1
  <2> QED
    BY <1>3, <2>2, Zenon
<1> QED
  BY <1>1, <1>2, <1>4, <1>5, <1>6, RoundGoesOn

\* The end of the thread drops receiver and invokers.
LEMMA ThreadEndsInvariant ==
  ASSUME IInv, ThreadEnds
  PROVE  IInv'
<1> USE DEF IInv
<1>1. /\ pc' = "exited"
      /\ nodeCh' = Close(nodeCh)
      /\ invokers' = <<>>
      /\ todo' = {}
      /\ tx' = [e \in Entities |-> tx[e] /\ handle[e] = "creating"]
      /\ UNCHANGED <<valid, node, panics, joined, handle, result, inbox, arrived, worker>>
  BY DEF ThreadEnds, userVars
<1>2. /\ nodeCh' \in Channels(SpinMessages, {"node"})
      /\ WithinCapacity(nodeCh', NodeBuffer)
  BY <1>1, Types, CloseOK
<1>3. nodeCh'.queue = <<>> /\ nodeCh'.open = FALSE
  BY <1>1 DEF Close
<1>4. Line' = <<>>
  BY <1>1, <1>3 DEF Line
<1>5. TypeOK'
  <2>1. invokers' \in Seq(Entities) /\ tx' \in [Entities -> BOOLEAN]
    BY <1>1
  <2> QED
    BY <1>1, <1>2, <2>1 DEF TypeOK, SpinMessages
<1>6. WorkersInv'
  BY <1>1 DEF WorkersInv
<1>7. ChannelInv'
  BY <1>1, <1>2, <1>3 DEF ChannelInv
<1>8. CreateInv' /\ JoinInv'
  BY <1>1 DEF CreateInv, JoinInv, TypeOK
<1>9. LineInv'
  BY <1>1, <1>4 DEF LineInv, Distinct, Holds
<1>10. LiveEntityKeepsSender' /\ RoundInv'
  BY <1>1 DEF LiveEntityKeepsSender, RoundInv
<1> QED
  BY <1>5, <1>6, <1>7, <1>8, <1>9, <1>10

---------------------------------------------------------------------------
(***************************************************************************)
(* The steps of a task change its worker alone.                            *)
(***************************************************************************)
LEMMA TaskInvariant ==
  ASSUME IInv, NEW e \in Entities, Task(e)
  PROVE  IInv'
<1> USE DEF IInv
<1>1. worker[e] \in Workers /\ WorkerInv(worker[e])
  BY DEF TypeOK, WorkersInv
<1>2. \E w \in Workers :
        /\ worker' = [worker EXCEPT ![e] = w]
        /\ WorkerInv(w)
        /\ w.owner = worker[e].owner
        /\ worker[e].task = "gone" => w.task = "gone"
  <2>1. CASE TaskReceives(e)
    <3>1. CanReceive(worker[e]) /\ worker' = [worker EXCEPT ![e] = Received(worker[e])]
      BY <2>1 DEF TaskReceives
    <3>2. worker[e].task # "gone"
      BY <3>1 DEF CanReceive
    <3> QED
      BY <1>1, <3>1, <3>2, ReceivedOK
  <2>2. CASE CallbackReturns(e)
    <3>1. /\ worker[e].task = "handling"
          /\ worker' = [worker EXCEPT ![e] = [worker[e] EXCEPT !.task = "idle"]]
      BY <2>2 DEF CallbackReturns
    <3> QED
      BY <1>1, <3>1, ReturnedOK
  <2>3. CASE TaskEnds(e)
    <3>1. worker' = [worker EXCEPT ![e] = TaskGone(worker[e])]
      BY <2>3 DEF TaskEnds
    <3> QED
      BY <1>1, <3>1, TaskGoneOK
  <2> QED
    BY <2>1, <2>2, <2>3 DEF Task
<1>3. UNCHANGED <<valid, node, panics, joined, handle, nodeCh, pc, result, invokers, todo, tx,
                 inbox, arrived>>
  BY DEF Task, TaskReceives, CallbackReturns, TaskEnds, userVars, spinVars
<1>4. Line' = Line
  BY <1>3 DEF Line
<1>5. TypeOK'
  BY <1>2, <1>3 DEF TypeOK
<1>6. WorkersInv'
  BY <1>2, <1>3 DEF WorkersInv, TypeOK
<1>7. ChannelInv' /\ CreateInv' /\ JoinInv'
  BY <1>3 DEF ChannelInv, CreateInv, JoinInv
<1>8. LineInv'
  BY <1>3, <1>4 DEF LineInv
<1>9. LiveEntityKeepsSender'
  BY <1>2, <1>3 DEF LiveEntityKeepsSender, TypeOK
<1>10. RoundInv'
  BY <1>3 DEF RoundInv, ClockGone
<1> QED
  BY <1>5, <1>6, <1>7, <1>8, <1>9, <1>10
---------------------------------------------------------------------------
(***************************************************************************)
(* Every step keeps the invariant.                                         *)
(***************************************************************************)
LEMMA NextInvariant == IInv /\ [Next]_vars => IInv'
<1> SUFFICES ASSUME IInv, [Next]_vars
             PROVE  IInv'
  OBVIOUS
<1>1. CASE NodeCall
  <2>1. CASE \E e \in Entities : Create(e)
    BY <2>1, CreateInvariant
  <2>2. CASE \E e \in Entities : Register(e)
    BY <2>2, SentInvariant, SendPanicsInvariant
  <2>3. CASE Wait \/ WaitReturns \/ JoinOnDrop
    BY <2>3, JoinsInvariant
  <2>4. CASE DropNode
    BY <2>4, DropNodeInvariant
  <2> QED
    BY <1>1, <2>1, <2>2, <2>3, <2>4 DEF NodeCall
<1>2. CASE Spin
  <2>1. CASE CheckContext \/ DrainEnds \/ BuildWaitSet \/ WaitTimeout \/ WaitFails \/ InvokeEnds
    BY <2>1, ThreadMovesInvariant
  <2>2. CASE DrainInvoker
    BY <2>2, DrainInvokerInvariant
  <2>3. CASE DrainTerminate
    BY <2>3, DrainTerminateInvariant
  <2>4. CASE WaitReady
    BY <2>4, WaitReadyInvariant
  <2>5. ASSUME NEW e \in Entities, Invoke(e)
        PROVE  IInv'
    <3>1. CASE InvokeStopped(e)
      BY <3>1, InvokeStoppedInvariant
    <3>2. CASE InvokeDelivers(e)
      BY <3>2, InvokeDeliversInvariant
    <3>3. CASE InvokeStops(e)
      BY <3>3, InvokeStopsInvariant
    <3>4. CASE InvokeFails(e) \/ InvokeTimerFails(e)
      BY <3>4, ThreadMovesInvariant
    <3>5. CASE InvokeTakesNothing(e)
      BY <3>5, ThreadMovesInvariant, InvokeTakesNothingInvariant
    <3> QED
      BY <2>5, <3>1, <3>2, <3>3, <3>4, <3>5 DEF Invoke
  <2>6. CASE ThreadEnds
    BY <2>6, ThreadEndsInvariant
  <2> QED
    BY <1>2, <2>1, <2>2, <2>3, <2>4, <2>5, <2>6 DEF Spin
<1>3. CASE Shutdown
  BY <1>3, ShutdownInvariant
<1>4. CASE \E e \in Entities : DropHandle(e) \/ Arrive(e) \/ Task(e)
  BY <1>4, DropHandleInvariant, ArriveInvariant, TaskInvariant
<1>5. CASE UNCHANGED vars
  <2>1. UNCHANGED <<userVars, nodeCh, spinVars, tx, inbox, arrived, worker>> /\ Line' = Line
    BY <1>5 DEF vars, Line, spinVars
  <2>2. TypeOK'
    BY <2>1 DEF IInv, TypeOK, userVars, spinVars
  <2>3. WorkersInv' /\ ChannelInv' /\ CreateInv' /\ JoinInv'
    BY <2>1 DEF IInv, WorkersInv, ChannelInv, CreateInv, JoinInv, userVars, spinVars
  <2>4. LineInv' /\ LiveEntityKeepsSender' /\ RoundInv'
    BY <2>1 DEF IInv, LineInv, LiveEntityKeepsSender, RoundInv, ClockGone, userVars, spinVars
  <2> QED
    BY <2>2, <2>3, <2>4 DEF IInv
<1> QED
  BY <1>1, <1>2, <1>3, <1>4, <1>5 DEF Next

\* So it holds in every state of every behaviour.
LEMMA Invariance == Spec => []IInv
<1> QED
  BY InitInvariant, NextInvariant, PTL DEF Spec

---------------------------------------------------------------------------
(***************************************************************************)
(* Node, executor, channel, entities and workers stay in their types:      *)
(* above all, what the executor keeps are entities and never a Terminate.  *)
(***************************************************************************)
THEOREM TypeCorrect == Spec => []TypeOK
<1>1. IInv => TypeOK
  BY DEF IInv
<1> QED
  BY <1>1, Invariance, PTL

(***************************************************************************)
(* A registration that create_* has returned from (node.rs:363-367) is in  *)
(* the channel or in the executor's Vecs, once, as long as the thread      *)
(* runs, whatever the user, the context and the other threads do.          *)
(***************************************************************************)
THEOREM RegisteredOnceAlways == Spec => []RegisteredOnce
<1>1. IInv => RegisteredOnce
  BY DEF IInv, LineInv, RegisteredOnce, Distinct, Holds
<1> QED
  BY <1>1, Invariance, PTL

(***************************************************************************)
(* While the user holds the handle and the executor runs, the invoker      *)
(* keeps its sender unless the callback panicked: stop()                   *)
(* (subscription/invoker.rs:34-36) never hits an entity in use.            *)
(***************************************************************************)
THEOREM LiveEntityKeepsSenderAlways == Spec => []LiveEntityKeepsSender
<1>1. IInv => LiveEntityKeepsSender
  BY DEF IInv
<1> QED
  BY <1>1, Invariance, PTL

(***************************************************************************)
(* Once Node::drop has returned normally (node.rs:498-507) the thread is   *)
(* over and no invoker is left, in the executor or with a sender.          *)
(***************************************************************************)
THEOREM DroppedNodeIsQuietAlways == Spec => []DroppedNodeIsQuiet
<1>1. ASSUME IInv, node = "dropped", panics = 0
      PROVE  pc = "exited" /\ invokers = <<>> /\ \A e \in Entities : ~tx[e]
  <2>1. pc = "exited" /\ invokers = <<>>
    BY <1>1 DEF IInv, JoinInv, ChannelInv
  <2>2. \A e \in Entities : handle[e] # "creating"
    BY <1>1 DEF IInv, CreateInv
  <2> QED
    BY <1>1, <2>1, <2>2 DEF IInv, JoinInv
<1>2. IInv => DroppedNodeIsQuiet
  BY <1>1 DEF DroppedNodeIsQuiet
<1> QED
  BY <1>2, Invariance, PTL

---------------------------------------------------------------------------
(***************************************************************************)
(* spin returns an error (executor.rs:57-62) only for the causes listed:   *)
(* a shutdown in the middle of a round, a callback that is behind, a timer *)
(* without its clock, a client that rcl_wait reported in this round and    *)
(* that has nothing to take when its turn comes.                           *)
(***************************************************************************)
Failure ==
  \/ ~valid
  \/ \E e \in Entities : Len(worker[e].ch.queue) > WorkerBuffer
  \/ \E e \in Clients \cap Spurious : Turn(e) /\ inbox[e] = 0
  \/ \E e \in Timers : ClockGone(e)

LEMMA FailureStep ==
  ASSUME IInv, Next, result' = "err", result # "err"
  PROVE  Failure
<1>1. CASE BuildWaitSet
  BY <1>1 DEF BuildWaitSet, Goto, Failure
<1>2. CASE WaitFails
  BY <1>2 DEF WaitFails, ClockGone, Failure
<1>3. ASSUME NEW e \in Entities, InvokeFails(e)
      PROVE  Failure
  <2>1. /\ worker[e].ch \in Channels(Nat, WorkerSenders)
        /\ WithinCapacity(worker[e].ch, WorkerBuffer)
        /\ IsFull(worker[e].ch, "invoker")
    BY <1>3, WorkerFields DEF IInv, TypeOK, WorkersInv, WorkerInv, InvokeFails
  <2>2. "invoker" \in WorkerSenders /\ WorkerBuffer \in Nat
    BY WorkerBufferAssumption DEF WorkerSenders
  <2>3. Len(worker[e].ch.queue) > WorkerBuffer
    BY <2>1, <2>2, FullMeansBacklog
  <2> QED
    BY <2>3 DEF Failure
<1>4. ASSUME NEW e \in Entities, InvokeTakesNothing(e)
      PROVE  Failure
  <2>1. e \in Clients /\ Turn(e) /\ e \in todo /\ pc = "invoke"
    BY <1>4 DEF InvokeTakesNothing, Invoked, Turn, At
  <2>2. e \notin Timers /\ ~(inbox[e] > 0)
    BY <1>4 DEF InvokeTakesNothing, HasMessage
  <2>3. e \in Spurious
    BY <2>1, <2>2 DEF IInv, RoundInv, ClockGone
  <2>4. inbox[e] = 0
    BY <2>2, EntitiesAssumption, BoundsAssumption DEF IInv, TypeOK
  <2> QED
    BY <2>1, <2>3, <2>4 DEF Failure
<1>5. ASSUME NEW e \in Entities, InvokeTimerFails(e)
      PROVE  Failure
  BY <1>5 DEF InvokeTimerFails, ClockGone, Failure
<1>6. \/ BuildWaitSet \/ WaitFails
      \/ \E e \in Entities : InvokeFails(e) \/ InvokeTakesNothing(e) \/ InvokeTimerFails(e)
  <2>1. result' # result /\ result' # "ok"
    OBVIOUS
  <2>2. ~NodeCall /\ ~Shutdown /\ ~\E e \in Entities : DropHandle(e) \/ Arrive(e) \/ Task(e)
    BY <2>1 DEF NodeCall, Create, Register, Wait, WaitReturns, DropNode, JoinOnDrop, Shutdown,
       DropHandle, Arrive, Task, TaskReceives, CallbackReturns, TaskEnds, spinVars
  <2>3. Spin
    BY <2>2 DEF Next
  <2>4. ~CheckContext /\ ~DrainInvoker /\ ~DrainTerminate /\ ~DrainEnds /\ ~WaitReady
    BY <2>1 DEF CheckContext, DrainInvoker, DrainTerminate, DrainEnds, WaitReady, Goto, Return
  <2>5. ~WaitTimeout /\ ~InvokeEnds /\ ~ThreadEnds
    BY <2>1 DEF WaitTimeout, InvokeEnds, ThreadEnds, Goto
  <2>6. \A e \in Entities : ~InvokeStopped(e) /\ ~InvokeDelivers(e) /\ ~InvokeStops(e)
    BY <2>1 DEF InvokeStopped, InvokeDelivers, InvokeStops, Invoked
  <2> QED
    BY <2>3, <2>4, <2>5, <2>6 DEF Spin, Invoke
<1> QED
  BY <1>1, <1>2, <1>3, <1>4, <1>5, <1>6

THEOREM FailsWithCauseAlways == Spec => FailsWithCause
<1>1. IInv /\ [Next]_vars => [result' = "err" /\ result # "err" => Failure]_vars
  BY FailureStep
<1>2. Spec => [][result' = "err" /\ result # "err" => Failure]_vars
  BY <1>1, Invariance, PTL DEF Spec
<1> QED
  BY <1>2 DEF FailsWithCause, Failure

(***************************************************************************)
(* The expect()s and unwrap()s of Node (node.rs:367, 402, 424, 446, 502,   *)
(* 504) panic only when the executor is over or its channel has more than  *)
(* NodeBuffer messages to be drained.                                      *)
(***************************************************************************)
LEMMA PanicStep ==
  ASSUME IInv, Next, panics' > panics
  PROVE  ~nodeCh.open \/ Len(nodeCh.queue) > NodeBuffer
<1>1. ASSUME ~Accepts(nodeCh, "node")
      PROVE  ~nodeCh.open \/ Len(nodeCh.queue) > NodeBuffer
  <2>1. /\ nodeCh \in Channels(SpinMessages, {"node"})
        /\ NodeBuffer \in Nat
        /\ "node" \in {"node"}
        /\ WithinCapacity(nodeCh, NodeBuffer)
    BY Types DEF IInv, ChannelInv
  <2>2. ASSUME IsFull(nodeCh, "node")
        PROVE  Len(nodeCh.queue) > NodeBuffer
    BY <2>1, <2>2, FullMeansBacklog
  <2> QED
    BY <1>1, <2>2 DEF Accepts
<1>2. CASE \E e \in Entities : Register(e)
  BY <1>1, <1>2 DEF Register, Sent, IInv, TypeOK
<1>3. CASE DropNode
  BY <1>1, <1>3 DEF DropNode, IInv, TypeOK
<1>4. CASE JoinOnDrop
  BY <1>4 DEF JoinOnDrop, IInv, ChannelInv
<1>5. (\E e \in Entities : Register(e)) \/ DropNode \/ JoinOnDrop
  <2>1. panics' # panics
    BY DEF IInv, TypeOK
  <2>2. ~Spin
    BY <2>1 DEF Spin, CheckContext, DrainInvoker, DrainTerminate, DrainEnds, BuildWaitSet,
       WaitReady, WaitTimeout, WaitFails, Invoke, InvokeStopped, InvokeDelivers, InvokeStops,
       InvokeFails, InvokeTakesNothing, InvokeTimerFails, InvokeEnds, ThreadEnds, userVars
  <2>3. ~Shutdown /\ ~\E e \in Entities : DropHandle(e) \/ Arrive(e) \/ Task(e)
    BY <2>1 DEF Shutdown, DropHandle, Arrive, Task, TaskReceives, CallbackReturns, TaskEnds, userVars
  <2>4. ~Wait /\ ~WaitReturns /\ \A e \in Entities : ~Create(e)
    BY <2>1 DEF Wait, WaitReturns, Create
  <2> QED
    BY <2>2, <2>3, <2>4 DEF Next, NodeCall
<1> QED
  BY <1>2, <1>3, <1>4, <1>5

THEOREM PanicsWithCauseAlways == Spec => PanicsWithCause
<1>1. IInv /\ [Next]_vars =>
        [panics' > panics => ~nodeCh.open \/ Len(nodeCh.queue) > NodeBuffer]_vars
  BY PanicStep
<1> QED
  BY <1>1, Invariance, PTL DEF Spec, PanicsWithCause
=============================================================================
