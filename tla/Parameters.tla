----------------------------- MODULE Parameters -----------------------------
(***************************************************************************)
(* The parameters of a node: parameter/parameters.rs, behind one mutex     *)
(* that every operation holds from its first to its last line, so that     *)
(* each call is one step.  A panic in a call poisons the mutex, and every  *)
(* later call then panics at lock().unwrap().                              *)
(*                                                                         *)
(* A value is a record of a type, a payload, and whether a double in it is *)
(* NaN.  Only integers and doubles have payloads the code computes with.   *)
(* Integers run from -Half to Half - 1, as i64 does from -2^63 to 2^63 - 1.*)
(* Doubles are the infinities, NaN, and numbers of a grid, counted in      *)
(* units of which One make 1.0: arithmetic is exact on it, as long as it   *)
(* does not overflow beyond MaxDouble.                                     *)
(***************************************************************************)
EXTENDS Integers, Sequences, FiniteSets, SequencesExt

CONSTANTS
  Names,         \* the names of parameters
  EmptyName,     \* the empty string
  Values,        \* the values that callers and the command line give
  Descriptors,   \* the descriptors that callers declare parameters with
  ArgumentSets,  \* what rcl parses from the command line: see ToParameters
  Half,          \* half the number of integers, a power of two
  MaxDouble,     \* f64::MAX
  One,           \* 1.0
  Precision,     \* the inverse of the relative tolerance f64::EPSILON * 100
  Declarations,  \* the calls of declare_parameter that users make
  Batches        \* the calls of set_parameters_atomically

Param(name, value) == [name |-> name, value |-> value]
Given == {Param(name, value) : name \in Names \cup {EmptyName}, value \in Values}

Finite == -MaxDouble..MaxDouble
Inf == MaxDouble + 1
NaN == MaxDouble + 2
F64 == Finite \cup {Inf, -Inf, NaN}

ASSUME ParametersAssumption ==
  /\ EmptyName \notin Names
  /\ {Half, MaxDouble, One, Precision} \subseteq Nat \ {0}
  /\ Declarations \subseteq
       [param : Given, descriptor : Descriptors, ignore_override : BOOLEAN]
  /\ Batches \subseteq Seq(Given)
  /\ \A desc \in Descriptors :
       /\ desc.integer_range # <<>> =>
            Head(desc.integer_range) \in [from_value : Int, to_value : Int, step : 0..(2 * Half - 1)]
       /\ desc.floating_point_range # <<>> =>
            Head(desc.floating_point_range) \in [from_value : F64, to_value : F64, step : F64]

VARIABLES
  params,            \* Mutex<HashMap<String, ParameterInfo>>
  overrides,         \* parameter_overrides
  allow_undeclared,
  poisoned,          \* the mutex is poisoned
  overflow_checks,   \* the build panics on arithmetic overflow, as debug builds
  last               \* the last call and what came of it

vars == <<params, overrides, allow_undeclared, poisoned, overflow_checks, last>>

---------------------------------------------------------------------------
(***************************************************************************)
(* value.rs, type_.rs                                                      *)
(***************************************************************************)
\* The order of this sequence is that of the pointers that From<&rcl_variant_t>
\* looks at; the first one that is not null decides.
VariantFields == <<"Bool", "Integer", "Double", "String", "ByteArray",
                   "BoolArray", "IntegerArray", "DoubleArray", "StringArray">>

ParameterTypes == {"NotSet"} \cup {VariantFields[i] : i \in DOMAIN VariantFields}

\* What the constructors make; an array of doubles is NaN if it holds one.
\* ParameterValue::new takes any record: one with a type that is none, or a NaN
\* in a field that its type does not use.
Value(type, v) ==
  [type |-> type, v |-> v, nan |-> type \in {"Double", "DoubleArray"} /\ v = NaN]
NotSet == Value("NotSet", 0)

\* A variant of rcl is a function from the fields that are not null.
FromVariant(variant) ==
  LET set == {i \in DOMAIN VariantFields : VariantFields[i] \in DOMAIN variant}
  IN  IF set = {} THEN NotSet
      ELSE LET first == VariantFields[CHOOSE i \in set : \A j \in set : i <= j]
           IN  Value(first, variant[first])

IsInf(x) == x \in {Inf, -Inf}

\* Derived PartialEq of ParameterValue, over all fields: NaN differs from itself.
Equal(v, w) == v = w /\ ~v.nan

MaxInt == Half - 1
MinInt == -Half
Wrap(x) == ((x + Half) % (2 * Half)) - Half
Magnitude(x) == IF x < 0 THEN -x ELSE x

\* The branch of check_range that computes: the ends of a range are always
\* accepted, what is outside never.
Strictly(v, r) == r.from_value < v /\ v < r.to_value

StepFromZero(v, r) ==   \* mutated form of OnIntegerStep: steps counted from 0
  r.step # 0 => v % Magnitude(Wrap(r.step)) = 0

\* (v - from).rem_euclid(step as i64), wrapping in a release build.
OnIntegerStep(v, r) ==
  r.step # 0 => Wrap(v - r.from_value) % Magnitude(Wrap(r.step)) = 0

IntegerAccepts(v, r) ==
  \/ v \in {r.from_value, r.to_value}
  \/ Strictly(v, r) /\ OnIntegerStep(v, r)

\* The subtraction overflows in a checked build, MinInt % -1 in every build.
IntegerPanics(v, r) ==
  /\ v \notin {r.from_value, r.to_value} /\ Strictly(v, r) /\ r.step # 0
  /\ \/ overflow_checks /\ v - r.from_value # Wrap(v - r.from_value)
     \/ Wrap(v - r.from_value) = MinInt /\ Wrap(r.step) = -1

\* PartialOrd of f64: NaN is neither less nor greater.
Less(x, y) == NaN \notin {x, y} /\ x < y

Overflows(x) == Magnitude(x) > MaxDouble
Close(x, y) == Magnitude(x - y) * Precision <= Magnitude(x + y)

\* |x - y| <= EPSILON * |x + y| * 100.  A sum that overflows makes any two
\* numbers "equal", and so does an infinity with a number.
Near(x, y) ==
  /\ NaN \notin {x, y}
  /\ IF {x, y} \subseteq Finite THEN Overflows(x + y) \/ Close(x, y)
                             ELSE IsInf(x) # IsInf(y)

\* (d / step).round(), ties away from zero.
Rounded(d, step) ==
  LET k == (2 * Magnitude(d) + Magnitude(step)) \div (2 * Magnitude(step))
  IN  IF (d < 0) = (step < 0) THEN k ELSE -k

Nearest(v, r) == r.from_value + Rounded(v - r.from_value, r.step) * r.step

\* The distance from the lower end, or its quotient by the step, overflows.
StepOverflows(v, r) ==
  \/ Overflows(v - r.from_value)
  \/ Magnitude(v - r.from_value) * One > MaxDouble * Magnitude(r.step)

\* An overflow makes the nearest step an infinity, which "equals" v; an operand
\* that is no finite number makes it NaN.
OnDoubleStep(v, r) ==
  r.step # 0 =>
    /\ {v, r.from_value, r.step} \subseteq Finite
    /\ StepOverflows(v, r) \/ Overflows(Nearest(v, r)) \/ Near(v, Nearest(v, r))

Between(v, r) == ~Less(v, r.from_value) /\ ~Less(r.to_value, v)

DoubleAccepts(v, r) ==
  \/ Near(v, r.from_value) \/ Near(v, r.to_value)
  \/ Between(v, r) /\ OnDoubleStep(v, r)

\* check_range looks at the first range of the descriptor, if there is one.
InRange(value, desc) ==
  CASE value.type = "Integer" /\ desc.integer_range # <<>>
         -> IntegerAccepts(value.v, Head(desc.integer_range))
    [] value.type = "Double" /\ desc.floating_point_range # <<>>
         -> DoubleAccepts(value.v, Head(desc.floating_point_range))
    [] OTHER -> TRUE

\* get_type() unwraps the conversion of the type, before any range is looked at.
CheckPanics(value, desc) ==
  \/ value.type \notin ParameterTypes
  \/ /\ value.type = "Integer" /\ desc.integer_range # <<>>
     /\ IntegerPanics(value.v, Head(desc.integer_range))

Passes(value, desc) == ~CheckPanics(value, desc) /\ InRange(value, desc)

DefaultDescriptor ==
  [read_only |-> FALSE, integer_range |-> <<>>, floating_point_range |-> <<>>]

---------------------------------------------------------------------------
(***************************************************************************)
(* rcl_params.rs: the overrides of a node.  rcl hands over a sequence of   *)
(* blocks, one per node name of the command line and its files.            *)
(***************************************************************************)
Put(map, name, info) == [n \in DOMAIN map \cup {name} |-> IF n = name THEN info ELSE map[n]]
Drop(map, names) == [n \in DOMAIN map \ names |-> map[n]]

\* A node name without a leading slash gets one; "**" stands for every node.
ResolvedName(node) == [node EXCEPT !.rooted = TRUE]
MatchingNames == {[rooted |-> TRUE, name |-> n] : n \in {"**", "this"}}

Matches(blocks, i) == ResolvedName(blocks[i].node) \in MatchingNames

ToParameters(blocks) ==
  LET Insert(map, p) == Put(map, p.name, FromVariant(p.variant))
      matching == SelectSeq([i \in DOMAIN blocks |-> i], LAMBDA i : Matches(blocks, i))
  IN  FoldLeft(LAMBDA map, i : FoldLeft(Insert, map, blocks[i].params), <<>>, matching)

\* What the callers and the command line give to compute with are numbers.
IsNumeric(value) ==
  /\ value.type = "Integer" => value.v \in Int
  /\ value.type = "Double" => value.v \in F64 /\ (value.v = NaN => value.nan)

ASSUME NumericAssumption ==
  /\ \A value \in Values : IsNumeric(value)
  /\ \A blocks \in ArgumentSets :
       \A name \in DOMAIN ToParameters(blocks) : IsNumeric(ToParameters(blocks)[name])

\* A node that ignores the global arguments, or finds no parameters in them,
\* gets no blocks.
Init ==
  /\ params = <<>>
  /\ overrides \in {ToParameters(blocks) : blocks \in ArgumentSets}
  /\ allow_undeclared \in BOOLEAN
  /\ overflow_checks \in BOOLEAN
  /\ poisoned = FALSE
  /\ last = [op |-> "new", batch |-> <<>>, result |-> "ok",
             descriptor |-> DefaultDescriptor]

---------------------------------------------------------------------------
(***************************************************************************)
(* parameters.rs                                                           *)
(***************************************************************************)
HasParameter(name) == name \in DOMAIN params

Nothing == Value("None", 0)

\* None unless the parameter is set, or undeclared ones are allowed.
IsSet(name) == HasParameter(name) /\ params[name].value.type # "NotSet"

GetParameter(name) ==
  CASE IsSet(name)                      -> params[name].value
    [] ~IsSet(name) /\ allow_undeclared -> NotSet
    [] OTHER                            -> Nothing

Ended(op, batch, result, desc) ==
  last' = [op |-> op, batch |-> batch, result |-> result, descriptor |-> desc]

\* declare_parameter_common starts from the override, unless told not to.
InitialValue(name, default, ignore_override) ==
  IF ~ignore_override /\ name \in DOMAIN overrides THEN overrides[name] ELSE default

\* declare_parameter: the value is checked in a map of its own, so that
\* nothing is left behind by a failure.
Declare(name, default, desc, ignore_override) ==
  LET value == InitialValue(name, default, ignore_override)
      Call(result) == Ended("declare", <<Param(name, value)>>, result, desc)
  IN  /\ ~poisoned
      /\ \/ /\ name = EmptyName \/ HasParameter(name)
            /\ Call("error") /\ UNCHANGED <<params, poisoned>>
         \/ /\ name # EmptyName /\ ~HasParameter(name)
            /\ \/ /\ CheckPanics(value, desc)
                  /\ poisoned' = TRUE
                  /\ Call("panic") /\ UNCHANGED params
               \/ /\ ~CheckPanics(value, desc) /\ ~InRange(value, desc)
                  /\ Call("error") /\ UNCHANGED <<params, poisoned>>
               \/ /\ Passes(value, desc)
                  /\ params' = Put(params, name, [value |-> value, descriptor |-> desc])
                  /\ Call("ok") /\ UNCHANGED poisoned
      /\ UNCHANGED <<overrides, allow_undeclared, overflow_checks>>

MissingOnly(p) ==   \* mutated form of IsError: the empty name is let through
  ~HasParameter(p.name) /\ ~allow_undeclared

\* The first loop of set_parameters_atomically stops at the first of these.
IsError(p) == p.name = EmptyName \/ (~HasParameter(p.name) /\ ~allow_undeclared)
IsReadOnly(p) == HasParameter(p.name) /\ params[p.name].descriptor.read_only

ReadOnlyHead(batch) ==   \* mutated form of Refusals: only the first is looked at
  {i \in {1} : IsError(batch[i]) \/ IsReadOnly(batch[i])}

Refusals(batch) == {i \in DOMAIN batch : IsError(batch[i]) \/ IsReadOnly(batch[i])}

FirstOf(indices) == CHOOSE i \in indices : \A j \in indices : i <= j
LastOf(indices) == CHOOSE i \in indices : \A j \in indices : j <= i

AssignedSoFar(batch, n) ==   \* mutated form of WithEntries: one loop checks and assigns
  [name \in DOMAIN params \cup {batch[i].name : i \in 1..n} |->
     LET mine == {i \in 1..n : batch[i].name = name}
         old == IF HasParameter(name) THEN params[name]
                                      ELSE [value |-> NotSet, descriptor |-> DefaultDescriptor]
     IN  IF mine = {} THEN old ELSE [old EXCEPT !.value = batch[FirstOf(mine)].value]]

\* or_insert_with(Default::default): what the first n entries name is there.
WithEntries(batch, n) ==
  LET new == {batch[i].name : i \in 1..n} \ DOMAIN params
  IN  [name \in DOMAIN params \cup new |->
         IF name \in new THEN [value |-> NotSet, descriptor |-> DefaultDescriptor]
                        ELSE params[name]]

NamedIn(batch) == {batch[i].name : i \in DOMAIN batch}

FirstValue(batch, name) ==   \* mutated form of FinalValue: the first one wins
  batch[FirstOf({i \in DOMAIN batch : batch[i].name = name})].value

\* The value that the batch gives to a name of its own: the last one wins.
FinalValue(batch, name) == batch[LastOf({i \in DOMAIN batch : batch[i].name = name})].value

\* set_parameters_atomically_common: every check first, then every assignment.
\* The descriptor of a new entry has no range.
Failing(batch) ==
  {i \in DOMAIN batch : HasParameter(batch[i].name)
                          /\ ~Passes(batch[i].value, params[batch[i].name].descriptor)}

Assigned(batch) ==
  LET all == WithEntries(batch, Len(batch))
  IN  [name \in DOMAIN all |->
         IF name \in NamedIn(batch) THEN [all[name] EXCEPT !.value = FinalValue(batch, name)]
                                   ELSE all[name]]

NewlyUnset(batch) ==   \* mutated form of Undeclared: the new values are looked at
  {i \in DOMAIN batch : FinalValue(batch, batch[i].name).type = "NotSet"}

\* The filter looks at the values from before the assignments.
Undeclared(batch) ==
  {i \in DOMAIN batch : HasParameter(batch[i].name)
                          /\ params[batch[i].name].value.type = "NotSet"}

\* assert!(params.get(change_name).unwrap().value == change_info.value)
AssertionFails(batch) ==
  \E name \in NamedIn(batch) \ DOMAIN params :
    ~Equal(FinalValue(batch, name), FinalValue(batch, name))

\* The second removal of a name unwraps a None.
RemovedTwice(batch) ==
  {j \in Undeclared(batch) : \E i \in Undeclared(batch) :
                                i < j /\ batch[i].name = batch[j].name}

Removed(batch, n) == {batch[i].name : i \in {k \in Undeclared(batch) : k < n}}

\* What is not declared yet is staged with a descriptor that has no range, after
\* the refusals and before anything else: only an unknown type can panic there.
Unstageable(batch) ==
  {i \in DOMAIN batch : ~HasParameter(batch[i].name)
                          /\ CheckPanics(batch[i].value, DefaultDescriptor)}

Staged(batch) == Refusals(batch) = {} /\ Unstageable(batch) = {}

Refuse(batch) ==
  /\ Refusals(batch) # {}
  /\ Ended("set", batch,
           IF IsError(batch[FirstOf(Refusals(batch))]) THEN "error" ELSE "rejected", DefaultDescriptor)
  /\ UNCHANGED <<params, poisoned>>

FailStaging(batch) ==
  /\ Refusals(batch) = {} /\ Unstageable(batch) # {}
  /\ poisoned' = TRUE
  /\ Ended("set", batch, "panic", DefaultDescriptor)
  /\ UNCHANGED params

FailCheck(batch) ==
  /\ Staged(batch) /\ Failing(batch) # {}
  /\ LET k == FirstOf(Failing(batch))
         panics == CheckPanics(batch[k].value, params[batch[k].name].descriptor)
     IN  /\ params' = WithEntries(batch, k)
         /\ poisoned' = panics
         /\ Ended("set", batch, IF panics THEN "panic" ELSE "rejected", DefaultDescriptor)

FailAssertion(batch) ==
  /\ Staged(batch) /\ Failing(batch) = {}
  /\ \/ /\ AssertionFails(batch)
        /\ params' = Assigned(batch)
     \/ /\ ~AssertionFails(batch) /\ RemovedTwice(batch) # {}
        /\ params' = Drop(Assigned(batch), Removed(batch, FirstOf(RemovedTwice(batch))))
  /\ poisoned' = TRUE
  /\ Ended("set", batch, "panic", DefaultDescriptor)

Succeed(batch) ==
  /\ Staged(batch) /\ Failing(batch) = {}
  /\ ~AssertionFails(batch) /\ RemovedTwice(batch) = {}
  /\ params' = Drop(Assigned(batch), Removed(batch, Len(batch) + 1))
  /\ UNCHANGED poisoned
  /\ Ended("set", batch, "ok", DefaultDescriptor)

\* Node::set_parameter is a batch of one; only the crate itself gives more.
SetParametersAtomically(batch) ==
  /\ ~poisoned
  /\ \/ Refuse(batch) \/ FailStaging(batch) \/ FailCheck(batch)
     \/ FailAssertion(batch) \/ Succeed(batch)
  /\ UNCHANGED <<overrides, allow_undeclared, overflow_checks>>

\* self.parameters.lock().unwrap(), in every operation.
CallOnPoisoned ==
  /\ poisoned
  /\ Ended("any", <<>>, "panic", DefaultDescriptor)
  /\ UNCHANGED <<params, overrides, allow_undeclared, poisoned, overflow_checks>>

Next ==
  \/ \E d \in Declarations :
       Declare(d.param.name, d.param.value, d.descriptor, d.ignore_override)
  \/ \E batch \in Batches : SetParametersAtomically(batch)
  \/ CallOnPoisoned

Spec == Init /\ [][Next]_vars

---------------------------------------------------------------------------
Infos == [value : Values, descriptor : Descriptors \cup {DefaultDescriptor}]

\* The type of what is stored is known: get_parameter never panics at it.
TypeOK ==
  /\ DOMAIN params \subseteq Names
  /\ \A name \in DOMAIN params : params[name].value.type \in ParameterTypes
  /\ \A name \in DOMAIN params :
       \/ params[name] \in Infos
       \/ params[name] = [value |-> NotSet, descriptor |-> DefaultDescriptor]
       \/ /\ name \in DOMAIN overrides
          /\ params[name].value = overrides[name]
  /\ allow_undeclared \in BOOLEAN /\ overflow_checks \in BOOLEAN /\ poisoned \in BOOLEAN
  /\ last.result \in {"ok", "error", "rejected", "panic"}

(***************************************************************************)
(* A failed call sets nothing (parameters.rs:121-209): whatever parameter  *)
(* is at fault, and wherever it stands in the call, every name reads as    *)
(* before, and what was there keeps its value and descriptor.  It may      *)
(* leave something behind: where a check stops a call of several           *)
(* parameters, the undeclared names it came by have an entry without a     *)
(* value (217-222), which has_parameter shows (90) and the next successful *)
(* set of that name undeclares (183, 202).  An error, or a call of a       *)
(* single parameter, leaves no such entry.                                 *)
(***************************************************************************)
FailedCallLeavesOnlyEntries ==
  [][last'.result \in {"error", "rejected"} =>
       LET left == DOMAIN params' \ DOMAIN params
       IN  /\ \A name \in Names : GetParameter(name)' = GetParameter(name)
           /\ \A name \in DOMAIN params : name \in DOMAIN params' /\ params'[name] = params[name]
           /\ left # {} =>
                /\ allow_undeclared /\ last'.result = "rejected" /\ Len(last'.batch) > 1
                /\ \A name \in left :
                     /\ name \in NamedIn(last'.batch)
                     /\ params'[name] = [value |-> NotSet, descriptor |-> DefaultDescriptor]]_vars

(***************************************************************************)
(* After a successful call every parameter it names reads as the last      *)
(* value the call gives it, except that one that was declared and not set  *)
(* is gone (parameters.rs:178-203), and with it its descriptor.            *)
(***************************************************************************)
ReadsWhatWasSet ==
  [][last'.op = "set" /\ last'.result = "ok" =>
       \A i \in DOMAIN last'.batch :
         LET name == last'.batch[i].name
             overruled == \E j \in DOMAIN last'.batch : i < j /\ last'.batch[j].name = name
         IN  IF HasParameter(name) /\ ~IsSet(name)
             THEN name \notin DOMAIN params'
             ELSE ~overruled => params'[name].value = last'.batch[i].value]_vars

(***************************************************************************)
(* What is stored complies with the range of its descriptor, as a reader   *)
(* of the descriptor understands it: the ends, and what lies a multiple of *)
(* the step above the lower end; for doubles, up to the tolerance.         *)
(* value.rs:147-211 is only that good while, for integers, the distance    *)
(* from the lower end and the step fit in a signed integer, and while, for *)
(* doubles, nothing overflows.  A double is taken for an end if their sum  *)
(* overflows or one of the two is infinite; and for a step if the distance *)
(* or the quotient overflows, or twice the number and a step.  A NaN end   *)
(* bounds nothing, and a NaN is between any two ends.                      *)
(***************************************************************************)
OnStep(v, r) == r.step # 0 => (v - r.from_value) % Magnitude(r.step) = 0

Complies(v, r) == v \in {r.from_value, r.to_value} \/ (Strictly(v, r) /\ OnStep(v, r))

DoubleComplies(v, r) ==
  \/ \E end \in {r.from_value, r.to_value} : {v, end} \subseteq Finite /\ Close(v, end)
  \/ /\ Between(v, r)
     /\ \/ r.step = 0
        \/ /\ {v, r.from_value, r.step} \subseteq Finite
           /\ \E k \in Finite : Close(v, r.from_value + k * r.step)

BeyondF64(v, r) ==
  \/ \E end \in {r.from_value, r.to_value} :
       /\ NaN \notin {v, end}
       /\ IF {v, end} \subseteq Finite THEN Overflows(v + end) ELSE IsInf(v) # IsInf(end)
  \/ /\ Between(v, r) /\ {v, r.from_value, r.step} \subseteq Finite
     /\ StepOverflows(v, r) \/ Overflows(2 * Magnitude(v) + Magnitude(r.step))

StoredInRange ==
  \A name \in DOMAIN params :
    LET value == params[name].value
        desc == params[name].descriptor
    IN  /\ value.type = "Integer" /\ desc.integer_range # <<>> =>
             LET r == Head(desc.integer_range)
             IN  \/ Complies(value.v, r)
                 \/ /\ Strictly(value.v, r)
                    /\ (value.v - r.from_value > MaxInt \/ r.step > MaxInt)
        /\ value.type = "Double" /\ desc.floating_point_range # <<>> =>
             LET r == Head(desc.floating_point_range)
             IN  DoubleComplies(value.v, r) \/ BeyondF64(value.v, r)

(***************************************************************************)
(* A read-only parameter keeps the value it was declared with, whatever    *)
(* the position of its name in a call (parameters.rs:138-146).             *)
(***************************************************************************)
ReadOnlyIsConstant ==
  [][\A name \in DOMAIN params :
       params[name].descriptor.read_only =>
         name \in DOMAIN params' /\ params'[name] = params[name]]_vars

(***************************************************************************)
(* The mutex is poisoned, and the parameters of the node lost to all its   *)
(* users, only by a value of a type that is none (value.rs:127), by an     *)
(* integer range wider than the signed type (163), by a name that is not   *)
(* set and occurs twice in a call (parameters.rs:202), or by a value that  *)
(* holds a NaN, in an array or in a field its type does not use as well,   *)
(* for a parameter that nobody declared (197).  A node sets one declared   *)
(* parameter at a time: it meets only the first two.                       *)
(***************************************************************************)
WideRange(p, desc) ==
  /\ p.value.type = "Integer" /\ desc.integer_range # <<>>
  /\ p.value.v - Head(desc.integer_range).from_value > MaxInt

PoisonedWithCause ==
  [][~poisoned /\ poisoned' =>
       LET batch == last'.batch
       IN  \E i \in DOMAIN batch :
             LET name == batch[i].name
             IN  \/ batch[i].value.type \notin ParameterTypes
                 \/ WideRange(batch[i], IF HasParameter(name) THEN params[name].descriptor
                                                             ELSE last'.descriptor)
                 \/ /\ HasParameter(name) /\ ~IsSet(name)
                    /\ \E j \in DOMAIN batch \ {i} : batch[j].name = name
                 \/ /\ ~HasParameter(name) /\ allow_undeclared
                    /\ batch[i].value.nan]_vars

(***************************************************************************)
(* What the test at parameters.rs:341-346 says: after a successful call    *)
(* the parameter exists and has the value.  A declared parameter without   *)
(* a value is undeclared instead (parameters.rs:183).                      *)
(***************************************************************************)
SetKeepsDeclared ==
  [][last'.op = "set" /\ last'.result = "ok" /\ Len(last'.batch) = 1 =>
       LET p == last'.batch[1]
       IN  p.name \in DOMAIN params' /\ params'[p.name].value = p.value]_vars
==============================================================================
