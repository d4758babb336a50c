# A TLA+ model of rclrust

rclrust is a ROS 2 client library in Rust. Much of it passes values to the C
libraries rcl and rmw. Its own logic is in the way threads, tasks and channels
bring a message from rmw to a user's callback and an answer to a call; in the
reference counts that decide what is finalized and when; in the parameters of a
node; in the conversion of values between Rust and C; and in the macro that
generates message types. All of these are modelled here, model-checked with TLC
on small instances and, in part, proved with TLAPS for all of them.

Paths below are relative to `src/rclrust/src/` unless they say otherwise.

## The system

```
 user's thread or task          executor thread (one per Node)       Tokio tasks
 ---------------------          ------------------------------       -----------
 Node::create_* --- mpsc(10) --> spin: check context, drain,
 Node::drop     --- Terminate -> build wait set, rcl_wait (50 ms),
 Node::wait     <--- join ------ invoke what is ready
                                   |
                                   invoke(): take from rcl,
                                             try_send --- mpsc(10) --> callback(message)
 drop(Subscription, ...) ------- Terminate -----------------------> loop ends
 Client::send_request: rcl, map of pending requests <-- lock ------- callback of a client
 Context::shutdown: every spin of every node ends
```

What keeps what alive (`Arc`s; the last one dropped runs the finalizer of rcl):

```
 context <- Context (user), Node, RclNode, Executor
 RclNode <- Node, RclPublisher, RclSubscription, RclClient, RclService
 entity  <- the user's object, its invoker, a service's callback
 timer   -> clock and context, by bare pointers
```

### Inventory

| component | state it keeps | operations | hard behaviour | what makes it correct |
|---|---|---|---|---|
| channel (futures, external) | queue, parked senders, open | try_send, try_next, next, drop | a sender has a slot beyond the buffer; a closed channel refuses differently from a full one | bounded, first in first out |
| ReceiveWorker (`internal/worker.rs`) | sender, Tokio task | new, clone_tx, terminate, drop | full queue at termination, panicking callback | every accepted message runs once, in order; a dropped worker ends |
| invokers (`*/invoker.rs`, `timer.rs`) | handle of rcl, `Option<Sender>` | invoke, stop | spurious readiness, full and closed channel | gives up only with a cause |
| Executor (`executor.rs`, `wait_set.rs`) | context, receiver, four Vecs | spin, spin_some | shutdown in the middle of a round, first error ends the round | serves what is registered; ends when told |
| Node (`node.rs`) | rcl node, sender, JoinHandle, parameters | new, create_*, wait, drop | burst of registrations, drop after the thread ended, drop of the last reference by another thread | drop returns and leaves nothing running; finalized after its entities |
| Context (`context.rs`) | rcl context behind a mutex | new, is_valid, shutdown, drop | shutdown by any thread at any time, poisoning | ends all executors; finalized last |
| Subscription, Publisher, Service, Timer | rcl handle, worker (Timer: clock) | new, publish, drop, queries | dropped while the executor holds the invoker; the clock goes with the Timer | callbacks stop after the drop; nothing in use is finalized |
| Client (`client/mod.rs`) | rcl handle, worker, map of pending requests | send_request, wait_service | early, late, double and unreadable responses, cancellation, poisoned mutex | every call gets its own response |
| Parameters (`parameter/`) | map of parameters, overrides, behind a mutex | declare, has, get, set atomically | failure of one of several, limits of the numbers, undeclaring, poisoning | a failed call sets nothing; ranges hold |
| QoS, time, errors | - | conversions | carries, signs, unset and unmapped values | what was asked for arrives |
| message containers (`rclrust-msg`) | buffers on the heap of C | to_raw_ref, from_raw, drop | NUL and bytes that are not UTF-8, panics half-way | round trip; no leak, no double free |
| rclrust-msg-gen | - (compile time) | walk the prefixes; parse `.msg`, `.srv`, `.action`; emit types | overlays, ambiguous lines, literals out of range | the first prefix wins; each line is what the ROS grammar says |
| Logging, graph, options | - | wrappers of rcutils and rcl | - | - |
| rcl-sys | memory layout | C declarations | - | - |

`PROJECT.json` lists the same parts with what is modelled of each, and the
hazards of the code at the lines where they bite.

## Modules

| module | what it is | extends |
|---|---|---|
| `MpscChannel` | futures' bounded channel as a record, one operator per operation | |
| `Worker` | a ReceiveWorker as a record, one operator per operation | `MpscChannel` |
| `OrderedDelivery` | abstract specification: what a callback is promised | |
| `ReceiveWorker` | one worker with its invoker and its handle; numbered messages | `Worker` |
| `Executor` | Node, Context, executor thread, wait set, invokers and the workers of all entities; messages are only counted | `Worker` |
| `Client` | send_request, the map of pending requests, rmw, invoker, worker, callback; servers answer as they like | `Worker` |
| `Rpc` | `Client` composed with the services that answer it: their invokers, workers and callbacks | `Client` |
| `Lifetimes` | several nodes of one context and their entities: references, finalizers, threads | |
| `Parameters` | the parameters of a node, their overrides and range checks | |
| `MsgGen` | the generator: prefixes, packages, lines, types, literals, the types emitted | |
| `Interface` | values that cross to C: messages of the types emitted, QoS, time, return codes | `MsgGen` |
| `MC*` | the instances TLC checks | the module they name |
| `WorkerProofs` | lemmas on the operators of `MpscChannel` and `Worker` | `Worker` |
| `ReceiveWorkerProofs`, `ExecutorProofs`, `LifetimesProofs`, `ParametersProofs`, `InterfaceProofs` | theorems of the module they are named after | it, and the lemmas |
| `RpcProofs` | theorems of `Client` and of `Rpc` | `Rpc`, `WorkerProofs` |
| `MsgGenProofs` | the inductive invariant of `MsgGen`, one lemma for each of its actions; the theorems that follow are in `InterfaceProofs` | `MsgGen` |

Definitions called "mutated form" are not part of the model: each is a
plausible mistake in the definition after it, and TLC finds the property of a
run violated when it takes the definition's place. They show that the property
depends on the code.

### How state and actions correspond to the code

`MpscChannel`. A futures channel of buffer n accepts n messages, plus one per
sender: the message that outgrows the buffer is accepted and its sender parked.
Hence `mpsc::channel(10)` takes 11 registrations from a Node, and a worker's
queue up to 12 messages: 11 from the invoker and the Terminate.

`Worker`. `owner` is the existence of the ReceiveWorker, `task` the point where
the loop of `internal/worker.rs:26-35` is. Terminate is 0, messages are positive.

`ReceiveWorker`. The three outcomes of `try_send` in `invoke()` are
`InvokeDelivers`, `InvokeStops` (disconnected, `stop()`) and `InvokeFails`
(full). When it fails, or the executor ends otherwise, the invoker is dropped.
`log` and `handled` are history variables.

`Executor`. `pc` is the position of the executor thread: `check` (line 44),
`drain` (45-55), `build` (73-99), `wait` (101), `invoke` (103-125), `returning`
and `exited` (the closure of `node.rs:219-222` dropped the Executor). `node` is
what the thread that owns the Node does. `create_*` is two actions, because
entity and invoker exist before `try_send` and the executor, the context and
other threads act in between; a shutdown in that window leads to a panic, for instance.
`panics` counts panics of that thread; at 2 the process has aborted and
nothing moves. The four Vecs are one sequence, `invokers`: their order among
each other is fixed by `Rank`. The wait set is rebuilt in every round and holds
no state in between, so only what `rcl_wait` reports is modelled: all entities
that have messages, perhaps some spurious ones (`Spurious`), or the timeout.
A timer whose `Timer` was dropped has lost its clock (`ClockGone`): rcl may
report it, not report it or fail.

`Client`. `SendRequest` and `InsertPending` are separate, because other threads
run between lines 95 and 97; on a current-thread runtime (`MultiThread =
FALSE`) the worker's task does not, but the executor thread still does.
`Cancel` drops the future at its await. `pendings` are the keys of the map; the
sender in an entry is usable as long as its call still awaits. A panicking
callback holds the lock, so it poisons the mutex. `Garbled` are the requests that
may be answered with text that is not UTF-8: `to_rust` (line 62) panics with the
entry removed, and the call sees the sender gone (`ReturnError`). `asked` are the servers that
still owe an answer to a request; rmw keeps `Depth` responses.

`Rpc`. `SendToServers` is `SendRequest` with the request reaching the history of
every service of that name, which keeps `RequestDepth` of them (`KeepLast`).
`InvokeService` is `service/invoker.rs:56-89`; `ServiceResponds` and
`ServicePanics` are the callback of `service/mod.rs:55-62`, whose
`send_response().unwrap()`, or the `to_rust` of the request (`node.rs:441`),
panics for the services in `Unsteady`. Those may also
be dropped, or lose their executor; the other services are steady, so that a
call that does not return is not excused by them.

`Lifetimes`. The references to an `Arc` are the set of who holds one; dropping
the last one finalizes, in the thread that dropped it, and goes on to what the
structure held, as `Drop` and the drop order of fields do: `ReleaseHandle`,
`ReleaseNode`, `ReleaseContext`. `Drop for RclNode` (`node.rs:176-190`) locks
the context: on a poisoned mutex it panics and the node is `leaked`, and during
an unwinding the process aborts. A `Timer` drops its clock in a step of its own,
because threads run between the drops of two fields. `Stop` is the thread leaving
`spin`, `EndThread` the drop of the Executor and the end of the thread.

`Parameters`. One step per call: every operation holds one mutex from its first
line to its last. `Refuse`, `FailStaging`, `FailCheck`, `FailAssertion` and
`Succeed` are the ways out of `set_parameters_atomically`, in the order of the code; what a failed
check has added so far stays (`WithEntries`). `overflow_checks` tells debug
builds, where `v - from_value` panics, from release builds, where it wraps.
Integers run from `-Half` to `Half - 1`. A double is an infinity, NaN or a number
of a grid of `2 * MaxDouble + 1` points, `One` of which are 1.0 apart; a sum, a
distance, a quotient or a multiple of a step that goes beyond `MaxDouble` is an
infinity, with what the comparisons of `value.rs:180-198` make of it. On the grid
nothing is rounded. In f64 it is, so that the code may take a value for a step that
is off it by one rounding more than the tolerance, or reject one that is on it when
`v - from_value` loses digits. Nor does a product underflow: f64 has a tolerance of
zero for the smallest numbers. A value is a record of type,
payload, and whether there is a NaN in it, in the field of its type or in another
one; it need not be one of the known types, as `ParameterValue::new` takes any record.

`MsgGen`. A line is a record of what the parsers tell apart: blank, one word,
or type, name, `=` and value. Directories are read in any order
(`OpenPackage`), lines in theirs. `Emitted` is the set of types that the token
streams define, with members and defaults; literals are checked and converted by
`ValidateValue` and what it calls. Loops that filter or sort are stated by what
they leave, as `Pick` (the elements of a sequence at some of its positions) and
`Ordered`, and not by recursion: the order of a loop shows only where its first
failure ends it (`ParseMessage`) or where equal names meet (`SortByName`).

`Interface`. Values cross one at a time: a message is published from Rust or
from C and taken, a QoS profile is built and read back, a time is converted
and converted back, a return code becomes an error. `heap` are the live
buffers, each with the place in the message that it fills.

## Runs

| run | instance | states | what it shows |
|---|---|---|---|
| `ReceiveWorker` | buffer 2, 6 messages | 626 | order, no loss, single delivery; Terminate always gets through; the task of a dropped handle ends; refinement of `OrderedDelivery` |
| `Executor` | 1 timer, 1 client that may be spuriously ready, buffer 1 / 0, 2 arrivals each | 516 534 | registration, causes for which spin fails and the node panics, quiet after drop |
| `ExecutorLive` | 1 subscription, 1 service, 1 arrival each | 64 568 | drop and shutdown end the thread, messages are taken |
| `Rpc` | 2 calls, 2 services, cancellation, responses not UTF-8, multi-threaded | 72 497 | the map is exact, each request is answered once, causes of a panic, calls return |
| `Parameters` | 2 names, calls of up to 2, 23 values, 15 descriptors, numbers at their limits | 18 008 | ranges hold, what failed and successful calls leave, read-only, causes of poisoning |
| `Lifetimes` | 2 nodes, a timer, a registered entity, a publisher | 341 873 | order of finalizers, dangling timers, everything is finalized |
| `Interface` | 1 line of each form, 7 trees of prefixes, 1 package put to use | 6 419 | overlays, literals, references, round trips, the heap |
| `ExecutorBurst` | 3 entities, buffer 1 | - | *violated*: `create_*` panics |
| `ExecutorDrop` | 1 subscription | - | *violated*: drop after `wait()` panics |
| `ExecutorSpurious` | 1 client, spuriously ready | - | *violated*: the executor ends |
| `ClientEarly` | 1 server, multi-threaded | - | *violated*: response before its entry |
| `ParametersKeep` | as `Parameters` | - | *violated*: a set that undeclares |

Bounds, and why they are enough:

- `NodeBuffer = 1`, `WorkerBuffer` 0 or 2 instead of 10. What matters of a
  buffer is that it has room, is exactly full, and that the slots of the senders
  are used too. `NodeBuffer = 1` with two registrations and a Terminate, and
  `WorkerBuffer = 0` with two messages, reach all of this; the proofs about
  workers are for every buffer.
- `MaxMessages = 6` with buffer 2: more than the four places of the queue, so
  that it fills, is refused, drains and fills again.
- `MaxArrivals` 2: one message in the queue of the worker and one refused;
  `Depth = 1`: rmw overwrites. `Executor` has a timer and a client, the two kinds
  whose `invoke` can fail for more than a full queue: a clock that is gone, and a
  response that is not there. Subscriptions and services treat a failed take as
  nothing to do; `ExecutorLive` has one of each, to show that the first does not
  starve the second. `ExecutorSpurious` shows the client on its own.
- `Rpc`: `MaxRequests = 2`: a late answer to the first call can meet the second.
  Two servers: double answers. `Depth` and `RequestDepth` 1: the second request
  pushes the first one out, and so does an answer. One server is steady, one is not.
  `Garbled = {1, 2}`: the response to either call may be unreadable, the first or
  the second one, and need not be.
- `Lifetimes`: two nodes, because the finalizer of one needs the context that
  the other uses. The registered entity may be a subscription, a client or a
  service; only the kinds matter, of which there is one of each sort of
  reference (none of the executor, one, one and the callback, none of the node).
  The theorems are for any number.
- `Parameters`: `Declarations` and `Batches` are the calls that users make; of those
  with two entries the instance has the ones in which the entries meet each other, or
  different ends. "count" has values of each type, NaN and record that the paths of a
  call tell apart, "rate" the numbers. `Half = 8` has ranges that are wider than the
  signed type, and a step beyond it. `MaxDouble = 30`, `One = 2` and `Precision = 10`
  (the inverse of the relative tolerance) have values at an end and just outside it,
  within the tolerance and beyond, sums, distances, quotients and multiples that
  overflow and that do not. The theorems are for any calls, widths and values. `VIEW`
  leaves out the last call: the properties look at it in a step, and TLC checks every
  step it generates.
- `Interface`: `LineWorlds` has every type with every literal, as a member or a
  constant, one line per world; `TreeWorlds` are the packages that differ in
  what resolves and what is hidden; messages are sent for one package (`Sent`) that has every
  container: sequences of at most `MaxLen = 2` items, nested messages one level
  deep. `Second = 10` stands for 10^9 and `SecMin`, `SecMax`, `NsecMax` for the
  ranges of i32 and u32; `Nanos` has every sign, carry and overflow.

Deadlock is not checked in any run: a user who has dropped everything may stop,
and so may a process that aborted or a macro that is done.

Fairness. The executor thread is scheduled by the operating system and a join
returns when the thread is over: weak fairness of `Spin` and of
`WaitReturns \/ JoinOnDrop`. Tokio polls a ready task: weak fairness of each
`Task`, under the assumption that a callback comes to an end (a callback that
does not is the user's). A `create_*` in progress goes on. Nothing else is
assumed: users, servers and rmw owe no step. `rcl_wait` returns at the latest
at its timeout, which is part of `Spin`. `Rpc` adds the executor and the runtime of
the services. `Lifetimes` (`FairSpec`) assumes that a drop that has begun goes on
(`Join`, `DropClock`), that an executor thread ends once it has a reason other than
an error to (it need not fail), and drops its invokers, and that the task of a dropped service meets its Terminate,
which `TerminateIsQueued` and `DroppedTaskEnds` of `ReceiveWorker` justify.

## What the violated runs say

1. `ExecutorBurst`, `node.rs:367` (and 386, 402, 424, 446, 463): a running
   executor may be in `rcl_wait` or asleep for 50 ms; the twelfth entity that is
   created meanwhile makes `expect("try_send should succeed")` panic.
2. `ExecutorDrop`, `node.rs:502`: after a shutdown and `wait()` the
   executor's receiver is gone, and dropping the Node panics.
3. `ExecutorSpurious`, `client/invoker.rs:61-68`: the invoker of a client means
   to pass over a failed take, as those of subscriptions and services do, but
   `result_from_rcl_ret` (`error.rs:156-216`) never yields `RclClientTakeFailed`.
4. `ClientEarly`, `client/mod.rs:61, 95, 97`: the request is sent before its
   number is in the map.
5. `ParametersKeep`, `parameter/parameters.rs:183`: the filter of what to
   undeclare looks at the values from before the call. A parameter that was
   declared without a value is undeclared by the first call that sets it, and
   the call reports success; the test at lines 341-346 says that it is there.

`PanicsWithCause`, `FailsWithCause`, `BreaksWithCause` and `PoisonedWithCause`,
which pass, say that these and the other causes they name are the only ones. One
of them in `BreaksWithCause` is a call dropped at its await: it leaves an entry whose
receiver is gone, and a late response panics at `client/mod.rs:64`. Another is a
response that is not UTF-8: `to_rust` panics at line 62 in a program that does
nothing wrong. `PoisonedWithCause` has a value of an unknown type, at which
`get_type` (`value.rs:127`) panics in a batch of one.

Other passing properties carry exceptions that a reader should know, each a
behaviour of the code that the run reaches:

- `TimerDanglesWithCause`: rcl goes on using the clock of a `Timer` that was
  dropped (`timer.rs:84-85`), and a `Timer` outlives a context that nobody else holds.
- `EverythingFinalized`: a poisoned context leaks nodes or aborts the process.
- `FailedCallLeavesOnlyEntries`: a rejected call of several parameters may leave
  entries without a value for undeclared names. `get_parameter` reads them as
  before, `has_parameter` does not, and the next successful set of such a name
  undeclares it (the exception of `ReadsWhatWasSet`).
- `StoredInRange`: a range wider than the signed type and a step beyond it let
  integers in that are not on a step. Of doubles, what is within the tolerance of an
  end is accepted although it is outside, and so is everything whose sum with an end,
  distance from the lower end or quotient by the step overflows, and a number next
  to an infinite end. A NaN end bounds nothing, and a NaN is in every range without a step.
- `ConversionsFaithful`: a negative time of whole seconds has a nanosec of a
  full second (`time.rs:81`); some codes of rcl share a variant.
- `MessageRoundTrip`: a text with a NUL panics the publisher, one that is not
  UTF-8 the worker of the subscription.
- `GeneratorFaithful`, `ReferencesResolve`: default texts lose what follows a
  `#`; the macro panics for a line of one word; an overlay that has a part of a
  package hides the rest of it. Beside the panics that `PanicsWithCause` lists, the
  macro has two of its own: an unset `AMENT_PREFIX_PATH`
  (`src/rclrust-msg-gen/src/lib.rs:21`), which the model takes as given, and the
  unwrap of the error that names a file (`lib.rs:29`), which the model calls `failed`.

## Proofs

TLAPS proves of `ReceiveWorker`, for every `WorkerBuffer` and every
`MaxMessages` in Nat (assumptions `WorkerBufferAssumption`,
`MaxMessagesAssumption`):

| theorem | statement |
|---|---|
| `Invariance` | `Spec => []IInv` |
| `TypeCorrect` | `Spec => []TypeOK` |
| `QueueStaysBounded` | `Spec => []QueueBounded` |
| `DeliveryInOrder` | `Spec => []InOrderOnce` |
| `DeliveryWithoutLoss` | `Spec => []NothingLost` |
| `StoppingAtTerminate` | `Spec => []StopsAtTerminate` |
| `TerminateIsQueued` | `Spec => []TerminateQueued` |
| `GivingUpHasCause` | `Spec => GivesUpWithCause` |
| `DeliverySafety` | `Spec => Delivery!Init /\ [][Delivery!Next]_(Delivery!vars)` |

The argument. `TerminateQueued` is the surprising one: `terminate()` ignores the
result of `try_send`, yet a Terminate is never refused by a running task. It is
not inductive: it needs that the slot of the owner's sender is free until the
drop. `WorkerInv` (`WorkerProofs`) says so, together with `WithinCapacity`
(exactly the senders of the messages beyond the buffer are parked, none twice),
the channel being open exactly until the task is gone, and no Terminate being
queued before the drop. One lemma per operation of `Worker` shows that the
operation keeps it, resting on one lemma per operation of `MpscChannel`. `IInv` adds
the history: `log = handled \o queue` while the task is in its loop, and
`handled` a prefix of `log` ever after. `NextInvariant` has one case per action;
every theorem follows from it. For the refinement, `InvokeDelivers` and
`DropHandle` are `Submit`, `TaskReceives` is `Run` or, at a Terminate, `End`,
`CallbackPanics` is `End`, all others stutter.

TLAPS proves of `Executor`, for every set of entities of every kind, every
`NodeBuffer`, `WorkerBuffer`, `Depth` and `MaxArrivals`, and any `Spurious`
entities but timers (`EntitiesAssumption`, `BoundsAssumption`,
`WorkerBufferAssumption`):

| theorem | statement |
|---|---|
| `TypeCorrect` | `Spec => []TypeOK` |
| `RegisteredOnceAlways` | `Spec => []RegisteredOnce` |
| `LiveEntityKeepsSenderAlways` | `Spec => []LiveEntityKeepsSender` |
| `DroppedNodeIsQuietAlways` | `Spec => []DroppedNodeIsQuiet` |
| `FailsWithCauseAlways` | `Spec => FailsWithCause` |
| `PanicsWithCauseAlways` | `Spec => PanicsWithCause` |

Of these, only `LiveEntityKeepsSender` is part of the inductive invariant `IInv`
as it stands, and only because `WorkersInv` (`WorkerInv` for the worker of every
entity) shows that the channel of a held handle is open unless its callback
panicked. `RegisteredOnce` needs that an entity stands nowhere twice: not in the
channel of the node, not in the Vecs of the executor and not in both, nor in
either while its `create_*` is still before the `try_send` (`LineInv`,
`CreateInv`). `DroppedNodeIsQuiet` needs what a join in progress says of the
thread (`JoinInv`). `ChannelInv` is `WithinCapacity` of the node's channel and
that it is open exactly until the thread is over; from it follows that a
`try_send` that fails found the channel closed or more than full, which is
`PanicsWithCause`. `FailsWithCause` needs that an invoker whose turn is still to
come in a round has the cause for which `rcl_wait` reported it (`RoundInv`).

TLAPS proves of `Client` and `Rpc`, for every number of requests, every finite set
of servers and every `WorkerBuffer`, `Depth` and `RequestDepth`
(`ClientAssumption`, `RpcAssumption`):

| theorem | statement |
|---|---|
| `TypeCorrect` | `Spec => []TypeOK` |
| `PendingsExactAlways` | `Spec => []PendingsExact` |
| `BreaksWithCauseAlways` | `Spec => BreaksWithCause` |
| `KeyIsFoundWithCare` | `Spec => [](KeyIsFound /\ ~poisoned)`, if `~MultiThread`, `~MayCancel`, `Garbled = {}` and there is at most one server |
| `RpcImplementsClient` | `RpcSpec => Spec` |
| `ClientCorrectInRpc` | `RpcSpec => []PendingsExact /\ BreaksWithCause` |
| `RpcTypeCorrect` | `RpcSpec => []RpcTypeOK` |
| `AnswersOwedAlways` | `RpcSpec => []AnswersOwed` |

`Client` leaves open what the servers answer and when, so each step of `Rpc` is
one of `Client` or leaves the client alone (`RpcStepIsClientStep`), and
what is proved of the client is inherited. `PendingsExact` is about the map only,
but a response that is handled removes an entry: `CallsInv` says that calls are
made in order and that every response on its way is to a call that was made,
`StatesInv` what the state of a call says of the map and of the answers. With
them a panic has one of the four causes of `BreaksWithCause`.
`KeyIsFoundWithCare` is the other side of the run `ClientEarly`: a panic
needs another thread, a second server, a dropped future or text that is not UTF-8. It rests on
`AnsweredOnce`: a single server owes an answer, or the answer is in rmw, or in
the queue of the worker, or was handled, never two of these. `AnswersOwed`
is proved per service (`Owed`): the queue of its worker and the history of rmw each
have their requests in the order of the calls, those in the queue before those in
the history, and an answer is owed to all of them. A new request is the latest
one (`OwedGrows`), and an answer is given to the first of the queue only.

TLAPS proves of `Lifetimes`, for every set of nodes and of entities, whatever
kinds the user chooses from (`LifetimesAssumption`):

| theorem | statement |
|---|---|
| `Invariance` | `Spec => []IInv` |
| `TypeCorrect` | `Spec => []TypeOK` |
| `FinalizationInOrder` | `Spec => []FinalizedInOrder` |
| `TimerDangling` | `Spec => []TimerDanglesWithCause` |

`FinalizedInOrder` speaks of what is live and what is finalized, and a step
that drops a reference could break it from a state where somebody uses a
structure without holding it. `IInv` says who holds what: a structure is live exactly while it has a
holder (`ContextInv`, `NodeInv`, `EntityInv`), a live entity other than a timer
holds its node, a node with holders holds the context, the owner of a Node holds
both until the join is over, and the thread that has an invoker still runs or is
still dropping. `ReleaseContextOK`, `ReleaseNodeOK` and
`ReleaseHandleOK` say what a drop of one reference does and keeps; every action
that drops something cites them.

TLAPS proves of `Parameters`, for all names, values, descriptors and arguments,
any set of calls and every `Half`, `MaxDouble`, `One` and `Precision`
(`ParametersAssumption`; for the last two, `NumericAssumption`: what has the type
of a number is one):

| theorem | statement |
|---|---|
| `Invariance` | `Spec => []IInv` |
| `TypeCorrect` | `Spec => []TypeOK` |
| `FailuresLeaveOnlyEntries` | `Spec => FailedCallLeavesOnlyEntries` |
| `ReadsBack` | `Spec => ReadsWhatWasSet` |
| `ReadOnlyStays` | `Spec => ReadOnlyIsConstant` |
| `RangesHold` | `Spec => []StoredInRange` |
| `PoisonHasCause` | `Spec => PoisonedWithCause` |

`FailuresLeaveOnlyEntries` and `ReadOnlyStays` need no invariant: a failed check
leaves at most entries that read as not set (`EntriesReadNotSet`), of names that
stand before the one at fault, which is declared (`EntriesLeft`); a successful call
changes only names that it mentions, none of which is read-only
(`AssignsOnlyNamed`). `ReadsBack` needs that the last parameter of a name wins
(`LastWins`), and that what is assigned is a record (`IInv`, which says of a whole
entry what `TypeOK` leaves open for one with an override). That a last one exists
follows from `WFMin` and the well-foundedness of `<` on Nat (`HasLeast`,
`HasGreatest`). For `RangesHold` the invariant is that `check_range` accepts
every entry (`AllInRange`); what it accepts complies because a distance and a
step that fit are not changed by wrapping (`WrapFits`, `AcceptedInteger`), and
because the multiple of a step that a double is rounded to is half a step away at
the most (`RoundedIsNear`), so that it overflows only for the values that
`BeyondF64` names (`NearFits`, `AcceptedDouble`). For `PoisonHasCause`, a panic of
the check for a value of a known type means that the distance does not fit
(`PanicIsWide`).

TLAPS proves of `Interface`, and of `MsgGen` within it, for all prefixes, packages
and files (`MsgGenAssumption`: an index is a sequence of lines and a file a
sequence of lines of the grammar, with types that the grammar has), all texts,
sequences of every length, all times, every number and width of the
arguments of a QoS builder and every length of a second (`InterfaceAssumption`:
a nanosecond field holds a second, the durations of a program are those that
Rust can represent, and what stands before a NUL in a text is a text):

| theorem | statement |
|---|---|
| `TypeOKAlways` | `Spec => []TypeOK` |
| `FirstPrefixWinsAlways` | `Spec => []FirstPrefixWins` |
| `ReferencesResolveAlways` | `Spec => []ReferencesResolve` |
| `GeneratorFaithfulAlways` | `Spec => []GeneratorFaithful` |
| `HeapExactAlways` | `Spec => []HeapExact` |
| `MessageRoundTripAlways` | `Spec => []MessageRoundTrip` |
| `ConversionsFaithfulAlways` | `Spec => []ConversionsFaithful` |

The generator. `FirstPrefixWins` speaks of the time after the walk, so the
invariant `GenInv` has to say what the walk has done so far. `OriginInv`: each
package read comes from a prefix, later packages from no earlier prefix, and every
directory that is finished is among them, in whatever order `read_dir` gave them
(`Finished`). `PackageInv`: the open package holds the files of the lines of its
index read so far, each parsed. `ReadEntryInv` uses that one more line is one more
file (`PickOneMore`), `ClosePackageInv` that the prefixes of the packages stay
ascending. At the end, a stable sort and the removal of adjacent duplicates leave
each name once, with the first package that had it (`SortedOnce`, from `SortIs` and
`DedupIs`), which is the one of the least prefix that provides files
(`NotEmptyIs`, `WinnersAre`). The facts on sequences of any length rest on
`OrderedIs`: listing a finite set along a total order by counting how many come
no later is one to one, by cardinalities and without an induction.

`SourceInv` (each package is one that a prefix holds) survives the sort, and with
it each emitted type, member and constant is traced back to a line
(`EmittedIs`, `MemberIs`, `ConstantIs`). `ReferencesResolve` follows because a message that
some prefix holds and nobody emits must be behind an earlier prefix (`FirstHasIt`,
`NotFirst`); `GeneratorFaithful` because accepted literals are those declared
(`ValuesAre`, `SameValueIs`), and because a value that cannot be written is one
of those that `PanicsWithCause` names (`DefaultIsWritten`, `ConstantIsWritten`).

The values that cross. Of the generator only this matters: what its types are does
not change once a value crosses (`TypesStay`). The core is `RoundTrip`: `from_raw`
after `to_raw_ref` gives back every member, element and leaf, each text up to its
first NUL. It rests on what `Before` leaves of a text (`BeforeOK`) and on the
final NUL making no difference (`BeforeFinalNul`), the least index of a NUL
existing because `<` is well-founded on Nat (`LeastOf`). `MessageInv` carries
it through the life of a message: the wire holds what `to_raw_ref` made until it
is taken. That Rust never sends a character that makes the receiver panic is
`BadText`. `HeapExact` is inductive with the shape of `crossing` (`ShapeInv`),
because what a message, a RawRef and a Raw hold is disjoint (`Holders`). For
`TypeOK`, what `from_raw` returns is a value of the type that was sent
(`CutIsAValue`).
For QoS, every profile that a builder can reach is one (`PresetsOK`, `BuiltOK`)
and no duration the middleware shows for it makes the conversion panic
(`NoDurationPanics`, `SettledOK`). `TimeOK` compares the truncating division of
Rust with the floor, `DivModUnique` being what connects them.

Only model-checked:

- All liveness, which the prover cannot handle: `DroppedTaskEnds`, the fairness of
  `OrderedDelivery` in `ImplementsOrderedDelivery`, `DropReturns`,
  `ShutdownEndsExecutor`, `MessagesTaken`, `CallReturns`, `EverythingFinalized`.
  Every safety property of a passing run is also a theorem.
- The violated runs, which are counterexamples and need no proof.

## Not modelled

- The contents of messages in transit between threads, and names, except where
  control depends on them; `Interface` has the contents of one message.
- rcl, rmw and Tokio beyond what the code relies on. Creation in rcl succeeds or
  fails without effect; taking fails only for want of a message. A buffer of
  rcl that is null with size 0 is taken as empty.
- `wait()` and `wait_service()` blocking the only thread of a current-thread
  runtime; the busy loop of an executor whose invoker has stopped, which is a
  cost and not a state.
- The drop of a Node whose channel is full is in `Executor` only; `Lifetimes`
  has the closed channel.
- A batch of several parameters is only made inside the crate (`Node` sets one
  at a time), and undeclared ones are allowed in its tests only: some causes in
  `PoisonedWithCause` are out of reach of a user of this version.
- Of the generator, the text of the code: module names, escaping of keywords, the
  impls for C types. Known limits of its parsers that the grammar of `MsgGen`
  abstracts or reaches: `=` or `#` within a default text; the bound of
  `string<=n[]` is not checked (`parser/member.rs:50`), the bound of a wstring is
  counted in bytes of UTF-8 (`parser/literal.rs:116`), package names that start with
  the name of a basic type are rejected (`parser/types.rs:138`, `KeywordNames`), separators
  with a carriage return are not seen (`parser/service.rs:27`).
- Logging, graph queries, options: wrappers without state of their own. The
  declarations of `rcl-sys` beyond codes, histories and durations.

## Plan

Done: all modules above; proofs of every safety property that the runs check.

What is left: the safety part of liveness arguments that could be proved apart
(that a waiting `create_*`, join or call always has somebody who can end its wait),
and the options, should they ever decide anything.
