----------------------------- MODULE Interface -----------------------------
(***************************************************************************)
(* What crosses the border between Rust and C: the messages of the types   *)
(* the generator (MsgGen) emitted, with the containers of rclrust_msg's    *)
(* _core that hold their texts and sequences; the QoS profile of a         *)
(* publisher or subscription; points in time; and the return codes of rcl. *)
(* Values cross one at a time, once the types are generated.               *)
(*                                                                         *)
(* A text is a sequence of characters, of which "nul" ends a C string and  *)
(* "bad" is no UTF-8; a number or a truth value is a sequence of one item. *)
(* Named types nest one level deep (Sendable).                             *)
(***************************************************************************)
EXTENDS MsgGen

CONSTANTS
  UsedWorlds,                    \* the worlds whose types are put to use
  Texts, BasicValues, MaxLen,    \* leaves and lengths of the messages sent
  Depths, Durations, MaxCalls,   \* arguments and number of QoS builder calls
  Second, SecMin, SecMax,        \* S_TO_NS and the range of i32, scaled
  Nanos, NsecMax                 \* the times converted; the maximum of u32

ASSUME InterfaceAssumption ==
  /\ Second \in Nat \ {0} /\ SecMin \in Int /\ SecMin < 0 /\ SecMax \in Nat \ {0}
  /\ Nanos \subseteq Int /\ NsecMax \in Nat /\ NsecMax >= Second - 1
  /\ Texts \subseteq Seq({"c", "nul", "bad"})
  /\ \A t \in Texts : Before(t, "nul") \in Texts   \* cut short, a text is a text
  /\ MaxLen \in Nat /\ Depths \subseteq Nat
  /\ Durations \subseteq [sec: Nat, nsec: 0..(Second - 1)]   \* std::time::Duration

VARIABLES
  crossing,  \* the value that crosses and what has become of it
  heap,      \* the live buffers: who holds them, and the place they fill
  badFree    \* TRUE once something that is not on the heap was freed

vars == <<genVars, crossing, heap, badFree>>

None == [kind |-> "none"]
Idle == phase = "generated" /\ crossing = None /\ prefixes \in UsedWorlds
Become(c) == crossing' = c /\ UNCHANGED genVars

-----------------------------------------------------------------------------
(* Messages: a value per member, a sequence of them for the bracketed      *)
(* types, and a sequence of leaves where the element is another message.   *)

TypeAt(path) == CHOOSE d \in Emitted : d.path = path
Target(d, elem) == TypeAt(Path(d.path[1], elem))
Leafy(d) == \A m \in DOMAIN d.members :
               d.members[m].type.seq = "none" /\ ~Refers(d.members[m].type.elem)
Sendable(d) ==
  \A m \in DOMAIN d.members :
     LET elem == d.members[m].type.elem
     IN  Refers(elem) => /\ \E e \in Emitted : e.path = Path(d.path[1], elem)
                         /\ Leafy(Target(d, elem))

\* The leaf types of an element of member m: those of the other message, or
\* the element type alone.
LeafTypes(d, m) ==
  LET elem == d.members[m].type.elem
  IN  IF Refers(elem) THEN [j \in DOMAIN Target(d, elem).members |->
                              Target(d, elem).members[j].type.elem]
      ELSE <<elem>>
LeafValues(t) == IF t.kind = "string" THEN Texts ELSE BasicValues
ElemValues(d, m) ==
  LET types == LeafTypes(d, m)
  IN  {x \in [DOMAIN types -> BasicValues \cup Texts] :
          \A j \in DOMAIN types : x[j] \in LeafValues(types[j])}
\* The bound of a sequence binds neither the Rust Vec nor the raw message.
MemberValues(d, m) ==
  LET type == d.members[m].type
  IN  CASE type.seq = "none"  -> [1..1 -> ElemValues(d, m)]
        [] type.seq = "array" -> [1..type.size -> ElemValues(d, m)]
        [] OTHER -> UNION {[1..n -> ElemValues(d, m)] : n \in 0..MaxLen}
Values(d) ==
  {v \in [DOMAIN d.members -> UNION {MemberValues(d, m) : m \in DOMAIN d.members}] :
      \A m \in DOMAIN d.members : v[m] \in MemberValues(d, m)}

Sequence(d, m) == d.members[m].type.seq \notin {"none", "array"}

\* The places of the leaves of v: member, element, leaf.
Leaves(d, v) ==
  UNION {({m} \X DOMAIN v[m]) \X DOMAIN LeafTypes(d, m) : m \in DOMAIN v}
TextPlaces(d, v) ==
  {p \in Leaves(d, v) : LeafTypes(d, p[1][1])[p[2]].kind = "string"}
TextAt(v, p) == v[p[1][1]][p[1][2]][p[2]]
Narrow(d, p) == ~LeafTypes(d, p[1][1])[p[2]].wide

\* Every value a member holds, leaf by leaf, through F.
Mapped(d, v, F(_, _)) ==
  [m \in DOMAIN v |-> [i \in DOMAIN v[m] |->
     [j \in DOMAIN v[m][i] |-> F(LeafTypes(d, m)[j], v[m][i][j])]]]

\* OwnedFFIString and OwnedFFIWString: the characters and a final NUL
TextToC(t, x) ==
  IF t.kind = "string" THEN [size |-> Len(x), data |-> Append(x, "nul")] ELSE x
TextBySize(t, c) ==   \* mutated form of TextToRust: the size is trusted, not the NUL
  IF t.kind = "string" THEN SubSeq(c.data, 1, c.size) ELSE c

\* FFIString and FFIWString: up to the first NUL, whatever the size, unless
\* the size is 0
TextToRust(t, c) ==
  IF t.kind = "string" THEN IF c.size = 0 THEN <<>> ELSE Before(c.data, "nul") ELSE c

\* from_rust of a RawRef: scalars and arrays of basic types are copied,
\* arrays converted element by element, sequences become a pointer and two
\* sizes, with no data when they are empty.
ToRawRef(d, v) ==
  LET c == Mapped(d, v, TextToC)
  IN  [m \in DOMAIN v |->
         IF Sequence(d, m) THEN [size |-> Len(v[m]), capacity |-> Len(v[m]), data |-> c[m]]
         ELSE c[m]]
\* to_rust of a Raw
FromRaw(d, c) ==
  Mapped(d, [m \in DOMAIN c |-> IF Sequence(d, m) THEN SubSeq(c[m].data, 1, c[m].size)
                                ELSE c[m]], TextToRust)

\* CString::new and U16CString::new panic at a NUL inside the text.
ToRawRefPanics(d, v) ==
  \E p \in TextPlaces(d, v) : "nul" \in Range(TextAt(v, p))
\* CStr::to_str fails on what is not UTF-8; a U16String takes anything.
FromRawPanics(d, v) ==
  \E p \in TextPlaces(d, v) :
     Narrow(d, p) /\ "bad" \in Range(Before(TextAt(v, p), "nul"))

(* Buffers, named by their holder and the place they fill; <<<<m, 0>>, 0>> *)
(* is the array of elements of the sequence in member m.                   *)

Buffers(holder, places) == {holder} \X places
Arrays(d, v) == {<<<<m, 0>>, 0>> : m \in {n \in DOMAIN v : Sequence(d, n) /\ v[n] # <<>>}}
FilledTexts(d, v) == {p \in TextPlaces(d, v) : TextAt(v, p) # <<>>}

\* Strings and Vecs that are not empty
MessageBuffers(d, v) == Buffers("message", FilledTexts(d, v) \cup Arrays(d, v))

\* raw_ref_type_tokens: the container of a sequence in the RawRef
Container(type) == IF type.elem.kind = "basic" THEN "RefFFISeq" ELSE "OwnedFFISeq"
OwnArrays(d, v) ==
  {p \in Arrays(d, v) : Container(d.members[p[1][1]].type) = "OwnedFFISeq"}
\* from_rust: an owned container makes an array of its own (unless empty), a
\* borrowing one points to that of the Vec; every text is copied.
RawRefTakes(d, v) == Buffers("rawref", TextPlaces(d, v) \cup OwnArrays(d, v))
FreesBorrowed(d, v) ==   \* mutated form of RawRefFrees: RefFFISeq drops what it borrows
  Buffers("rawref", TextPlaces(d, v) \cup OwnArrays(d, v))
    \cup Buffers("message", Arrays(d, v) \ OwnArrays(d, v))

\* drop: Vec::from_raw_parts of each OwnedFFISeq, from_raw of each text;
\* RefFFISeq has no Drop
RawRefFrees(d, v) == Buffers("rawref", TextPlaces(d, v) \cup OwnArrays(d, v))

\* The C side fills a Raw: each text gets a buffer, even an empty one.
RawBuffers(d, v) == Buffers("raw", TextPlaces(d, v) \cup Arrays(d, v))

Free(from, freed) ==
  /\ heap' = from \ freed
  /\ badFree' = (badFree \/ ~(freed \subseteq from))

\* A Rust String holds no "bad" character.
RustValue(d, v) ==
  \A p \in TextPlaces(d, v) : Narrow(d, p) => "bad" \notin Range(TextAt(v, p))
\* The middleware refuses a sequence longer than its bound.
Refused(d, v) ==
  \E m \in DOMAIN v : d.members[m].type.seq = "bounded" /\ Len(v[m]) > d.members[m].type.size

\* A message is built and published: to_raw_ref, rcl_publish, and the drop of
\* the RawRef, which an unwinding drops too.
Publish(d, v) ==
  /\ Idle /\ Sendable(d) /\ RustValue(d, v)
  /\ LET status == IF ToRawRefPanics(d, v) THEN "panicked"
                   ELSE IF Refused(d, v) THEN "refused" ELSE "published"
     IN  Become([kind |-> "message", def |-> d, value |-> v, from |-> "rust",
                 live |-> TRUE, status |-> status,
                 wire |-> IF status = "published" THEN ToRawRef(d, v) ELSE <<>>,
                 got |-> <<>>])
  /\ Free(MessageBuffers(d, v) \cup RawRefTakes(d, v), RawRefFrees(d, v))

\* A message from a publisher in C or C++: any characters.
ForeignPublish(d, v) ==
  /\ Idle /\ Sendable(d) /\ ~Refused(d, v)
  /\ Become([kind |-> "message", def |-> d, value |-> v, from |-> "c",
             live |-> FALSE, status |-> "published", wire |-> ToRawRef(d, v),
             got |-> <<>>])
  /\ UNCHANGED <<heap, badFree>>

Message(status) == crossing.kind = "message" /\ crossing.status = status

\* The message published goes out of its scope, early or late.
DropMessage ==
  /\ crossing.kind = "message" /\ crossing.live
  /\ Become([crossing EXCEPT !.live = FALSE])
  /\ Free(heap, MessageBuffers(crossing.def, crossing.value))

\* take: a Raw set up by the init function of the type, filled by rcl_take
Take ==
  /\ Message("published")
  /\ Become([crossing EXCEPT !.status = "taken"])
  /\ heap' = heap \cup RawBuffers(crossing.def, crossing.value)
  /\ UNCHANGED badFree

\* from_raw on the worker's thread, and the fini function of the type when the
\* Raw is dropped, after the callback or by the unwinding
Deliver ==
  /\ Message("taken")
  /\ LET d == crossing.def
     IN  /\ Become(IF FromRawPanics(d, crossing.value)
                   THEN [crossing EXCEPT !.status = "panicked"]
                   ELSE [crossing EXCEPT !.status = "received", !.got = FromRaw(d, crossing.wire)])
         /\ Free(heap, RawBuffers(d, crossing.value))

-----------------------------------------------------------------------------
(* QoS profiles; deadline stands for the three durations, others for the   *)
(* policies that are copied either way.                                    *)

Zero == [sec |-> 0, nsec |-> 0]
Common == [history |-> "SystemDefault", depth |-> 0, deadline |-> Zero,
           others |-> "SystemDefault"]
KeepingLast(depth, others) ==
  [Common EXCEPT !.history = "KeepLast", !.depth = depth, !.others = others]
Presets == {Common, [Common EXCEPT !.history = "Unknown", !.others = "Unknown"],
            KeepingLast(5, "BestEffort"), KeepingLast(10, "Reliable"),
            KeepingLast(1000, "Reliable")}
Histories == {"SystemDefault", "KeepLast", "KeepAll", "Unknown"}

\* What one call of a builder method makes of a profile: the history, one of
\* the other policies, or one of the durations.
WithHistory(q) ==
  {[q EXCEPT !.history = h] : h \in Histories}
  \cup {[q EXCEPT !.history = "KeepLast", !.depth = n] : n \in Depths}
  \cup {[q EXCEPT !.history = "KeepAll", !.depth = 0]}
WithPolicy(q) == {[q EXCEPT !.others = p] : p \in {"BestEffort", "Reliable"}}
WithDuration(q) == {[q EXCEPT !.deadline = t] : t \in Durations}
Built(q) == WithHistory(q) \cup WithPolicy(q) \cup WithDuration(q)

\* from_rmw_time_t: the nanoseconds must be a u32; Duration::new carries
\* whole seconds of them.
DurationPanics(t) == t.nsec > NsecMax
FromRmwTime(t) == [sec |-> t.sec + t.nsec \div Second, nsec |-> t.nsec % Second]

\* From<&rmw_qos_profile_t>
FromRmw(r) ==
  [r EXCEPT !.history = IF r.history = "KeepAll" THEN "KeepAll" ELSE "KeepLast",
            !.depth = IF r.history = "KeepAll" THEN 0 ELSE r.depth,
            !.deadline = FromRmwTime(r.deadline)]

\* The middleware settles what was left to it: it knows no history "Unknown",
\* and shows an unset duration as unset or as its largest one.
Longest == [sec |-> SecMax, nsec |-> NsecMax]
Settled(r) ==
  {[r EXCEPT !.history = IF @ = "SystemDefault" THEN "KeepLast" ELSE @,
             !.others = IF @ = "SystemDefault" THEN "Reliable" ELSE @,
             !.depth = n, !.deadline = t] :
     n \in IF r.depth = 0 THEN {0, 1} ELSE {r.depth},
     t \in IF r.deadline = Zero THEN {Zero, Longest} ELSE {r.deadline}}

StartProfile ==
  /\ Idle
  /\ \E q \in Presets : Become([kind |-> "qos", asked |-> q, calls |-> 0,
                                    status |-> "building", actual |-> Common])
  /\ UNCHANGED <<heap, badFree>>
BuildProfile ==
  /\ crossing.kind = "qos" /\ crossing.status = "building" /\ crossing.calls < MaxCalls
  /\ \E q \in Built(crossing.asked) :
        Become([crossing EXCEPT !.asked = q, !.calls = @ + 1])
  /\ UNCHANGED <<heap, badFree>>
\* An entity is created with the profile, and its actual_qos read back; the
\* profile goes to C field by field.
CreateWithProfile ==
  /\ crossing.kind = "qos" /\ crossing.status = "building" /\ crossing.asked.history # "Unknown"
  /\ \E r \in Settled(crossing.asked) :
        Become([crossing EXCEPT !.status = IF DurationPanics(r.deadline)
                                           THEN "panicked" ELSE "created",
                                !.actual = FromRmw(r)])
  /\ UNCHANGED <<heap, badFree>>

-----------------------------------------------------------------------------
(* Time *)

Abs(n) == IF n < 0 THEN -n ELSE n
\* The division and the remainder of Rust truncate towards zero.
Quot(n) == IF n < 0 THEN -(Abs(n) \div Second) ELSE n \div Second
Rest(n) == IF n < 0 THEN -(Abs(n) % Second) ELSE n % Second

Truncated(n) == [sec |-> Quot(n), nsec |-> Rest(n)]   \* mutated form of ToRosMsg

ToRosMsg(n) == IF n >= 0 THEN [sec |-> Quot(n), nsec |-> Rest(n)]
               ELSE [sec |-> Quot(n) - 1, nsec |-> Rest(n) + Second]
\* try_into().unwrap() of both fields
ToRosMsgPanics(n) == ToRosMsg(n).sec \notin SecMin..SecMax
FromRosMsg(msg) == msg.sec * Second + msg.nsec

Stamp(n) ==
  /\ Idle
  /\ Become([kind |-> "time", nanos |-> n, msg |-> ToRosMsg(n), panics |-> ToRosMsgPanics(n),
             read |-> FromRosMsg(ToRosMsg(n))])
  /\ UNCHANGED <<heap, badFree>>

-----------------------------------------------------------------------------
(* Return codes: result_from_rcl_ret *)

Codes ==
  {"OK", "ERROR", "TIMEOUT", "BAD_ALLOC", "INVALID_ARGUMENT", "UNSUPPORTED", "ALREADY_INIT",
   "NOT_INIT", "MISMATCHED_RMW_ID", "TOPIC_NAME_INVALID", "SERVICE_NAME_INVALID",
   "UNKNOWN_SUBSTITUTION", "ALREADY_SHUTDOWN", "NODE_INVALID", "NODE_INVALID_NAME",
   "NODE_INVALID_NAMESPACE", "NODE_NAME_NON_EXISTENT", "PUBLISHER_INVALID",
   "SUBSCRIPTION_INVALID", "SUBSCRIPTION_TAKE_FAILED", "CLIENT_INVALID",
   "CLIENT_TAKE_FAILED", "SERVICE_INVALID", "SERVICE_TAKE_FAILED", "TIMER_INVALID",
   "TIMER_CANCELED", "WAIT_SET_INVALID", "WAIT_SET_EMPTY", "WAIT_SET_FULL",
   "INVALID_REMAP_RULE", "WRONG_LEXEME", "INVALID_ROS_ARGS", "INVALID_PARAM_RULE",
   "INVALID_LOG_LEVEL_RULE", "EVENT_INVALID", "EVENT_TAKE_FAILED",
   "LIFECYCLE_STATE_REGISTERED", "LIFECYCLE_STATE_NOT_REGISTERED"}
\* The codes the match has no arm for.
Unmatched == {"ERROR", "CLIENT_INVALID", "CLIENT_TAKE_FAILED",
              "LIFECYCLE_STATE_REGISTERED", "LIFECYCLE_STATE_NOT_REGISTERED"}
ErrorFor(code) ==
  CASE code \in Unmatched        -> "ERROR"
    [] code = "SERVICE_INVALID" -> "SERVICE_NAME_INVALID"
    [] OTHER                    -> code
\* explained: whether the failing call left an error state
Told(code, explained) ==
  IF code = "OK" THEN "OK" ELSE IF explained THEN ErrorFor(code) ELSE "RUNTIME_ERROR"

Return(code, explained) ==
  /\ Idle
  /\ Become([kind |-> "error", code |-> code, told |-> Told(code, explained)])
  /\ UNCHANGED <<heap, badFree>>

-----------------------------------------------------------------------------
Init == GenInit /\ crossing = None /\ heap = {} /\ badFree = FALSE

Generate == GenNext /\ UNCHANGED <<crossing, heap, badFree>>

Next ==
  \/ Generate
  \/ \E d \in Emitted : Idle /\ Sendable(d) /\ \E v \in Values(d) :
        Publish(d, v) \/ ForeignPublish(d, v)
  \/ DropMessage \/ Take \/ Deliver
  \/ StartProfile \/ BuildProfile \/ CreateWithProfile
  \/ \E n \in Nanos : Stamp(n)
  \/ \E code \in Codes, explained \in BOOLEAN : Return(code, explained)

Spec == Init /\ [][Next]_vars

-----------------------------------------------------------------------------
(* Properties *)

\* Every variable has its type.
TypeOK ==
  /\ GenTypeOK
  /\ crossing.kind \in {"none", "message", "qos", "time", "error"}
  /\ crossing # None => phase = "generated"
  /\ crossing.kind = "message" =>
       /\ crossing.status \in {"published", "refused", "taken", "received", "panicked"}
       /\ crossing.value \in Values(crossing.def)
       /\ crossing.status = "received" => crossing.got \in Values(crossing.def)
  /\ \A b \in heap : b[1] \in {"message", "raw"}
  /\ badFree \in BOOLEAN

\* A subscription's callback gets the message that was published, member by
\* member, from to_raw_ref through the middleware to from_raw; only a text
\* with a NUL inside, which C and C++ can send, ends at that NUL.  A NUL makes
\* the Rust publisher panic instead, and a narrow text that is not UTF-8 the
\* receiving worker; nothing else does.
MessageRoundTrip ==
  crossing.kind = "message" =>
    LET d == crossing.def
        v == crossing.value
        nul == \E p \in TextPlaces(d, v) : "nul" \in Range(TextAt(v, p))
    IN  /\ crossing.status = "received" =>
             /\ crossing.got = Mapped(d, v, LAMBDA t, x :
                   IF t.kind = "string" /\ crossing.from = "c" THEN Before(x, "nul") ELSE x)
             /\ \A p \in TextPlaces(d, crossing.got) :
                   Narrow(d, p) => "bad" \notin Range(TextAt(crossing.got, p))
        /\ crossing.status = "panicked" =>
             IF crossing.from = "rust" THEN nul
             ELSE \E p \in TextPlaces(d, v) : Narrow(d, p) /\ "bad" \in Range(TextAt(v, p))

\* No buffer is freed twice or by one who does not hold it, and none leaks:
\* the heap holds the buffers of the message while its owner has it and those
\* of the Raw between take and the end of the callback, on the panicking
\* paths too; the RawRef leaves nothing behind, though it shares the Vecs of
\* basic types with the message and copies everything else.
HeapExact ==
  /\ ~badFree
  /\ heap = IF crossing.kind # "message" THEN {}
            ELSE LET d == crossing.def
                 IN  (IF crossing.live THEN MessageBuffers(d, crossing.value) ELSE {})
                     \cup (IF crossing.status = "taken"
                           THEN RawBuffers(d, crossing.value) ELSE {})

\* actual_qos shows the profile the entity was asked for: the history unless
\* it was left to the system, the depth of a kept-last history unless 0, the
\* durations unless unset, to the nanosecond although the carry may move
\* seconds between the fields; and it does not panic.
QosFaithful ==
  crossing.kind = "qos" /\ crossing.status # "building" =>
    /\ crossing.status = "created"
    /\ LET asked == crossing.asked
           actual == crossing.actual
           Total(t) == t.sec * Second + t.nsec
       IN  /\ asked.history # "SystemDefault" => actual.history = asked.history
           /\ actual.history = "KeepLast" /\ asked.depth # 0 => actual.depth = asked.depth
           /\ actual.history = "KeepAll" => actual.depth = 0
           /\ asked.deadline # Zero => Total(actual.deadline) = Total(asked.deadline)
           /\ asked.deadline = Zero => Total(actual.deadline) \in {0, Total(Longest)}
           /\ actual.deadline.nsec < Second
           /\ asked.others # "SystemDefault" => actual.others = asked.others

\* A Time survives to_ros_msg and from_ros_msg, the nanoseconds of the message
\* being less than a second except for a negative whole number of seconds,
\* which gets a whole second of them; to_ros_msg panics exactly when the
\* seconds do not fit an i32.
TimeFaithful ==
  crossing.kind = "time" =>
    LET floor == (crossing.nanos - (crossing.nanos % Second)) \div Second
        whole == crossing.nanos < 0 /\ crossing.nanos % Second = 0
    IN  /\ crossing.panics <=> (IF whole THEN floor - 1 ELSE floor) \notin SecMin..SecMax
        /\ crossing.read = crossing.nanos
        /\ crossing.msg.nsec \in 0..Second
        /\ crossing.msg.nsec = Second <=> whole

\* A failure is never told as a success, nor as another failure than it is,
\* save the two that share a variant and those that become unspecified.
ErrorFaithful ==
  crossing.kind = "error" =>
    /\ crossing.told = "OK" <=> crossing.code = "OK"
    /\ crossing.told \notin {"RUNTIME_ERROR", "ERROR", crossing.code} =>
         crossing.code = "SERVICE_INVALID" /\ crossing.told = "SERVICE_NAME_INVALID"
    /\ crossing.told = "ERROR" =>
         crossing.code \in {"ERROR", "CLIENT_INVALID", "CLIENT_TAKE_FAILED",
                            "LIFECYCLE_STATE_REGISTERED", "LIFECYCLE_STATE_NOT_REGISTERED"}

ConversionsFaithful == QosFaithful /\ TimeFaithful /\ ErrorFaithful

=============================================================================
