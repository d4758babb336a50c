--------------------------- MODULE ParametersProofs ---------------------------
(***************************************************************************)
(* Parameters for all names, values, descriptors, widths of numbers and    *)
(* sizes of calls: a failed call leaves nothing but entries without a      *)
(* value, a successful one reads back, what is read-only stays, what is    *)
(* stored is in its range, and the mutex is poisoned for the causes listed *)
(* only.                                                                   *)
(***************************************************************************)
EXTENDS Parameters, TLAPS, WellFoundedInduction

---------------------------------------------------------------------------
(***************************************************************************)
(* A finite set of numbers has a least and a greatest one, because < is    *)
(* well-founded on Nat.  The relation stays hidden: it is made from an     *)
(* operator, which only Zenon takes.                                       *)
(***************************************************************************)
LEMMA HasLeast ==
  ASSUME NEW T, T \subseteq Nat, T # {}
  PROVE  \E i \in T : \A j \in T : i <= j
<1> DEFINE Before == OpToRel(<, Nat)
<1>1. IsWellFoundedOn(Before, Nat)
  BY NatLessThanWellFounded, Zenon
<1>2. ASSUME NEW a \in Nat, NEW b \in Nat, <<a, b>> \notin Before
      PROVE  ~(a < b)
  BY <1>2, Zenon DEF OpToRel
<1> HIDE DEF Before
<1>3. PICK i \in T : \A j \in T : <<j, i>> \notin Before
  BY <1>1, WFMin
<1>4. \A j \in T : ~(j < i)
  BY <1>2, <1>3
<1> QED
  BY <1>4

LEMMA HasGreatest ==
  ASSUME NEW n \in Nat, NEW S, S \subseteq 1..n, S # {}
  PROVE  \E i \in S : \A j \in S : j <= i
<1> DEFINE T == {n - i : i \in S}
<1>1. \A i \in S : i \in 1..n /\ n - i \in Nat
  <2>1. \A i \in S : i \in 1..n
    OBVIOUS
  <2> QED
    BY <2>1
<1>2. T \subseteq Nat /\ T # {}
  BY <1>1
<1>3. \A i \in S : n - i \in T
  OBVIOUS
<1>4. \A x \in T : \E i \in S : x = n - i
  OBVIOUS
<1> HIDE DEF T
<1>5. PICK x \in T : \A y \in T : x <= y
  BY <1>2, HasLeast
<1>6. PICK i \in S : x = n - i
  BY <1>4
<1>7. \A j \in S : n - i <= n - j
  BY <1>3, <1>5, <1>6
<1> QED
  BY <1>1, <1>7

---------------------------------------------------------------------------
\* The calls that Next makes are finite sequences of parameters.
LEMMA BatchDomain ==
  ASSUME NEW batch \in Batches
  PROVE  /\ Len(batch) \in Nat /\ DOMAIN batch = 1..Len(batch)
         /\ \A i \in DOMAIN batch : batch[i] \in Given
BY ParametersAssumption

\* So are its declarations of given parameters.
LEMMA DeclarationFields ==
  ASSUME NEW d \in Declarations
  PROVE  d.param \in Given /\ d.descriptor \in Descriptors /\ d.ignore_override \in BOOLEAN
BY ParametersAssumption

\* A parameter of a call has a name and one of the values that callers give.
LEMMA GivenFields ==
  ASSUME NEW p \in Given
  PROVE  p.name \in Names \cup {EmptyName} /\ p.value \in Values
BY DEF Given, Param

\* Some index of a nonempty set of them is the first.
LEMMA FirstIsOne ==
  ASSUME NEW batch \in Batches, NEW S, S \subseteq DOMAIN batch, S # {}
  PROVE  FirstOf(S) \in S
<1>1. S \subseteq Nat
  BY BatchDomain
<1> QED
  BY <1>1, HasLeast DEF FirstOf

\* Where a call stops at a range, what it has added reads as not set.
LEMMA EntriesReadNotSet ==
  ASSUME NEW batch, NEW k, params' = WithEntries(batch, k), allow_undeclared' = allow_undeclared,
         NEW name
  PROVE  GetParameter(name)' = GetParameter(name)
<1> DEFINE new == {batch[i].name : i \in 1..k} \ DOMAIN params
<1> HIDE DEF new
<1>1. params' = [m \in DOMAIN params \cup new |->
                   IF m \in new THEN [value |-> NotSet, descriptor |-> DefaultDescriptor]
                                ELSE params[m]]
  BY DEF WithEntries, new
<1>2. new \cap DOMAIN params = {}
  BY DEF new
<1>3. CASE name \in DOMAIN params
  <2>1. name \in DOMAIN params' /\ params'[name] = params[name]
    BY <1>1, <1>2, <1>3
  <2> QED
    BY <1>3, <2>1 DEF GetParameter, IsSet, HasParameter
<1>4. CASE name \in new
  <2>1. name \in DOMAIN params' /\ params'[name].value.type = "NotSet" /\ name \notin DOMAIN params
    BY <1>1, <1>2, <1>4 DEF NotSet, Value
  <2>2. ~IsSet(name) /\ ~IsSet(name)'
    BY <2>1 DEF IsSet, HasParameter
  <2> QED
    BY <2>2 DEF GetParameter
<1>5. CASE name \notin DOMAIN params /\ name \notin new
  <2>1. name \notin DOMAIN params'
    BY <1>1, <1>5
  <2>2. ~IsSet(name) /\ ~IsSet(name)'
    BY <1>5, <2>1 DEF IsSet, HasParameter
  <2> QED
    BY <2>2 DEF GetParameter
<1> QED
  BY <1>3, <1>4, <1>5

\* What it has added is of undeclared names that stand before the one at fault.
LEMMA EntriesLeft ==
  ASSUME NEW batch \in Batches, FailCheck(batch), last'.result # "panic",
         NEW name \in DOMAIN params' \ DOMAIN params
  PROVE  /\ allow_undeclared /\ last'.result = "rejected" /\ Len(last'.batch) > 1
         /\ name \in NamedIn(last'.batch)
         /\ params'[name] = [value |-> NotSet, descriptor |-> DefaultDescriptor]
<1> DEFINE k == FirstOf(Failing(batch))
           new == {batch[i].name : i \in 1..k} \ DOMAIN params
<1>1. k \in Failing(batch)
  <2>1. Failing(batch) # {} /\ Failing(batch) \subseteq DOMAIN batch
    BY DEF FailCheck, Failing
  <2> QED
    BY <2>1, FirstIsOne
<1>2. params' = WithEntries(batch, k) /\ last'.batch = batch /\ last'.result \in {"panic", "rejected"}
  BY DEF FailCheck, Ended
<1>3. params' = [m \in DOMAIN params \cup new |->
                   IF m \in new THEN [value |-> NotSet, descriptor |-> DefaultDescriptor]
                                ELSE params[m]]
  BY <1>2 DEF WithEntries
<1> HIDE DEF k
<1>4. PICK i \in 1..k : batch[i].name = name
  BY <1>3
<1>5. Len(batch) \in Nat /\ DOMAIN batch = 1..Len(batch) /\ k \in DOMAIN batch
  BY <1>1, BatchDomain DEF Failing
<1>6. i # k
  BY <1>1, <1>4 DEF Failing, HasParameter
<1>7. i \in DOMAIN batch /\ Len(batch) > 1
  BY <1>5, <1>6
<1>8. allow_undeclared
  BY <1>4, <1>7 DEF FailCheck, Staged, Refusals, IsError, HasParameter
<1>9. name \in new
  BY <1>4
<1>10. params'[name] = [value |-> NotSet, descriptor |-> DefaultDescriptor]
  BY <1>3, <1>9
<1> QED
  BY <1>2, <1>4, <1>7, <1>8, <1>10 DEF NamedIn

(***************************************************************************)
(* A failed call sets nothing, whatever its size and whichever of its      *)
(* parameters is at fault, and leaves nothing but entries without a value, *)
(* of undeclared names, in a call of several (parameters.rs:121-222).      *)
(***************************************************************************)
THEOREM FailuresLeaveOnlyEntries == Spec => FailedCallLeavesOnlyEntries
<1> DEFINE left == DOMAIN params' \ DOMAIN params
           Kept == /\ \A name \in Names : GetParameter(name)' = GetParameter(name)
                   /\ \A name \in DOMAIN params :
                        name \in DOMAIN params' /\ params'[name] = params[name]
           OnlyEntries ==
             /\ allow_undeclared /\ last'.result = "rejected" /\ Len(last'.batch) > 1
             /\ \A name \in left :
                  /\ name \in NamedIn(last'.batch)
                  /\ params'[name] = [value |-> NotSet, descriptor |-> DefaultDescriptor]
<1>1. ASSUME Next, last'.result \in {"error", "rejected"}
      PROVE  Kept /\ (left # {} => OnlyEntries)
  <2>1. CASE UNCHANGED <<params, allow_undeclared>>
    BY <2>1 DEF GetParameter, IsSet, HasParameter
  <2>2. ASSUME NEW p \in Given, NEW desc \in Descriptors, NEW ignore \in BOOLEAN,
               Declare(p.name, p.value, desc, ignore)
        PROVE  UNCHANGED <<params, allow_undeclared>>
    BY <1>1, <2>2 DEF Declare, Ended
  <2>3. ASSUME NEW batch \in Batches, SetParametersAtomically(batch)
        PROVE  UNCHANGED <<params, allow_undeclared>> \/ (Kept /\ (left # {} => OnlyEntries))
    <3>1. allow_undeclared' = allow_undeclared
      BY <2>3 DEF SetParametersAtomically
    <3>2. CASE Refuse(batch) \/ FailStaging(batch)
      BY <3>1, <3>2 DEF Refuse, FailStaging
    <3>3. CASE FailCheck(batch)
      <4>1. params' = WithEntries(batch, FirstOf(Failing(batch)))
        BY <3>3 DEF FailCheck
      <4>2. \A name \in Names : GetParameter(name)' = GetParameter(name)
        BY <3>1, <4>1, EntriesReadNotSet
      <4>3. \A name \in DOMAIN params : name \in DOMAIN params' /\ params'[name] = params[name]
        BY <4>1 DEF WithEntries
      <4>4. ASSUME NEW name \in left
            PROVE  /\ allow_undeclared /\ last'.result = "rejected" /\ Len(last'.batch) > 1
                   /\ name \in NamedIn(last'.batch)
                   /\ params'[name] = [value |-> NotSet, descriptor |-> DefaultDescriptor]
        BY <1>1, <3>3, EntriesLeft
      <4> QED
        BY <4>2, <4>3, <4>4
    <3>4. ~FailAssertion(batch) /\ ~Succeed(batch)
      BY <1>1 DEF FailAssertion, Succeed, Ended
    <3> QED
      BY <2>3, <3>2, <3>3, <3>4 DEF SetParametersAtomically
  <2>4. ~CallOnPoisoned
    BY <1>1 DEF CallOnPoisoned, Ended
  <2> QED
    BY DeclarationFields, <1>1, <2>1, <2>2, <2>3, <2>4 DEF Next
<1>2. [Next]_vars =>
        [last'.result \in {"error", "rejected"} => Kept /\ (left # {} => OnlyEntries)]_vars
  BY <1>1
<1> QED
  BY <1>2, PTL DEF Spec, FailedCallLeavesOnlyEntries

---------------------------------------------------------------------------
\* What a call that assigns leaves alone: the names that it does not mention.
LEMMA AssignsOnlyNamed ==
  ASSUME NEW batch \in Batches, NEW name \in DOMAIN params \ NamedIn(batch),
         NEW n, params' = Drop(Assigned(batch), Removed(batch, n)) \/ params' = Assigned(batch)
  PROVE  name \in DOMAIN params' /\ params'[name] = params[name]
<1> DEFINE all == WithEntries(batch, Len(batch))
           assigned == Assigned(batch)
           removed == Removed(batch, n)
<1>1. name \in DOMAIN all /\ all[name] = params[name]
  BY DEF WithEntries
<1> HIDE DEF all
<1>2. name \in DOMAIN assigned /\ assigned[name] = params[name]
  BY <1>1 DEF Assigned, all
<1>3. name \notin removed
  BY DEF Removed, Undeclared, NamedIn
<1> HIDE DEF assigned, removed
<1>4. params' = [m \in DOMAIN assigned \ removed |-> assigned[m]] \/ params' = assigned
  BY DEF Drop, assigned, removed
<1> QED
  BY <1>2, <1>3, <1>4

(***************************************************************************)
(* A read-only parameter keeps its value and its descriptor for ever,      *)
(* whatever calls name it (parameters.rs:138-146).                         *)
(***************************************************************************)
THEOREM ReadOnlyStays == Spec => ReadOnlyIsConstant
<1>1. ASSUME Next, NEW name \in DOMAIN params, params[name].descriptor.read_only
      PROVE  name \in DOMAIN params' /\ params'[name] = params[name]
  <2>1. ASSUME NEW p \in Given, NEW desc \in Descriptors, NEW ignore \in BOOLEAN,
               Declare(p.name, p.value, desc, ignore)
        PROVE  name \in DOMAIN params' /\ params'[name] = params[name]
    <3>1. CASE UNCHANGED params
      BY <1>1, <3>1
    <3>2. CASE /\ ~HasParameter(p.name)
               /\ \E info : params' = Put(params, p.name, info)
      BY <1>1, <3>2 DEF Put, HasParameter
    <3> QED
      BY <2>1, <3>1, <3>2 DEF Declare
  <2>2. ASSUME NEW batch \in Batches, SetParametersAtomically(batch)
        PROVE  name \in DOMAIN params' /\ params'[name] = params[name]
    <3>1. CASE Refuse(batch) \/ FailStaging(batch)
      BY <1>1, <3>1 DEF Refuse, FailStaging
    <3>2. CASE FailCheck(batch)
      <4>1. PICK k : params' = WithEntries(batch, k)
        BY <3>2 DEF FailCheck
      <4> QED
        BY <1>1, <4>1 DEF WithEntries
    <3>3. CASE FailAssertion(batch) \/ Succeed(batch)
      <4>1. Refusals(batch) = {}
        BY <3>3 DEF FailAssertion, Succeed, Staged
      <4>2. name \notin NamedIn(batch)
        BY <1>1, <4>1 DEF Refusals, NamedIn, IsReadOnly, HasParameter
      <4>3. \/ params' = Assigned(batch)
            \/ \E n : params' = Drop(Assigned(batch), Removed(batch, n))
        BY <3>3 DEF FailAssertion, Succeed
      <4> QED
        BY <1>1, <4>2, <4>3, AssignsOnlyNamed
    <3> QED
      BY <2>2, <3>1, <3>2, <3>3 DEF SetParametersAtomically
  <2>3. CASE CallOnPoisoned
    BY <1>1, <2>3 DEF CallOnPoisoned
  <2> QED
    BY DeclarationFields, <1>1, <2>1, <2>2, <2>3 DEF Next
<1>2. [Next]_vars =>
        [\A name \in DOMAIN params :
           params[name].descriptor.read_only =>
             name \in DOMAIN params' /\ params'[name] = params[name]]_vars
  BY <1>1
<1> QED
  BY <1>2, PTL DEF Spec, ReadOnlyIsConstant

---------------------------------------------------------------------------
(***************************************************************************)
(* The inductive invariant: TypeOK leaves the descriptor of a parameter    *)
(* that an override gave its value open; the whole record has its type.    *)
(***************************************************************************)
InfoOK(name, info) ==
  /\ info = [value |-> info.value, descriptor |-> info.descriptor]
  /\ info.descriptor \in Descriptors \cup {DefaultDescriptor}
  /\ info.value.type \in ParameterTypes
  /\ \/ info.value \in Values
     \/ info.value = NotSet /\ info.descriptor = DefaultDescriptor
     \/ name \in DOMAIN overrides /\ info.value = overrides[name]

ParamsOK ==
  /\ DOMAIN params \subseteq Names
  /\ \A name \in DOMAIN params : InfoOK(name, params[name])

FlagsOK ==
  /\ allow_undeclared \in BOOLEAN /\ overflow_checks \in BOOLEAN /\ poisoned \in BOOLEAN
  /\ last.result \in {"ok", "error", "rejected", "panic"}

IInv == ParamsOK /\ FlagsOK

\* The entries that a call adds while it checks have the type of the rest.
LEMMA EntriesOK ==
  ASSUME ParamsOK, NEW batch \in Batches, Refusals(batch) = {},
         NEW k \in Nat, k <= Len(batch)
  PROVE  /\ DOMAIN WithEntries(batch, k) \subseteq Names
         /\ \A name \in DOMAIN WithEntries(batch, k) : InfoOK(name, WithEntries(batch, k)[name])
<1> DEFINE new == {batch[i].name : i \in 1..k} \ DOMAIN params
<1>1. ASSUME NEW i \in 1..k
      PROVE  batch[i].name \in Names
  <2>1. i \in DOMAIN batch
    BY BatchDomain
  <2>2. batch[i].name # EmptyName
    BY <2>1 DEF Refusals, IsError
  <2> QED
    BY <2>1, <2>2, BatchDomain, GivenFields
<1>2. new \subseteq Names
  BY <1>1
<1>3. WithEntries(batch, k) =
        [name \in DOMAIN params \cup new |->
           IF name \in new THEN [value |-> NotSet, descriptor |-> DefaultDescriptor]
                          ELSE params[name]]
  BY DEF WithEntries
<1> HIDE DEF new
<1>4. ASSUME NEW name
      PROVE  InfoOK(name, [value |-> NotSet, descriptor |-> DefaultDescriptor])
  BY DEF InfoOK, NotSet, Value, ParameterTypes
<1>5. ASSUME NEW name \in DOMAIN params \cup new
      PROVE  InfoOK(name, WithEntries(batch, k)[name])
  <2>1. CASE name \in new
    BY <1>3, <1>4, <2>1
  <2>2. CASE name \notin new
    BY <1>3, <2>2 DEF ParamsOK
  <2> QED
    BY <2>1, <2>2
<1> QED
  BY <1>2, <1>3, <1>5 DEF ParamsOK

\* In a call, the last parameter of a name decides what it is assigned.
LEMMA LastWins ==
  ASSUME NEW batch \in Batches, NEW i \in DOMAIN batch,
         \A j \in DOMAIN batch : batch[j].name = batch[i].name => ~(i < j)
  PROVE  FinalValue(batch, batch[i].name) = batch[i].value
<1> DEFINE mine == {j \in DOMAIN batch : batch[j].name = batch[i].name}
<1>1. \A j \in mine : j \in Int /\ j <= i
  BY BatchDomain
<1>2. i \in mine /\ i \in Int
  BY BatchDomain
<1>3. \A j \in mine : (\A l \in mine : l <= j) => j = i
  BY <1>1, <1>2
<1> HIDE DEF mine
<1>4. LastOf(mine) = i
  BY <1>1, <1>2, <1>3 DEF LastOf
<1> QED
  BY <1>4 DEF FinalValue, mine

\* Every name of a call has a last parameter, which gives it its value.
LEMMA FinalIsOne ==
  ASSUME NEW batch \in Batches, NEW name \in NamedIn(batch)
  PROVE  \E i \in DOMAIN batch : batch[i].name = name /\ batch[i].value = FinalValue(batch, name)
<1> DEFINE mine == {i \in DOMAIN batch : batch[i].name = name}
<1>1. Len(batch) \in Nat /\ mine \subseteq 1..Len(batch) /\ mine # {}
  BY BatchDomain DEF NamedIn
<1>2. \E i \in mine : \A j \in mine : j <= i
  <2> HIDE DEF mine
  <2> QED
    BY <1>1, HasGreatest
<1>3. LastOf(mine) \in mine
  <2> HIDE DEF mine
  <2> QED
    BY <1>2 DEF LastOf
<1> QED
  BY <1>3 DEF FinalValue

LEMMA FinalIsGiven ==
  ASSUME NEW batch \in Batches, NEW name \in NamedIn(batch)
  PROVE  FinalValue(batch, name) \in Values
BY FinalIsOne, BatchDomain, GivenFields

\* The same holds once everything is assigned, and nothing undeclared is left.
LEMMA AssignedOK ==
  ASSUME ParamsOK, NEW batch \in Batches, Staged(batch), Failing(batch) = {}
  PROVE  /\ DOMAIN Assigned(batch) = DOMAIN WithEntries(batch, Len(batch))
         /\ DOMAIN Assigned(batch) \subseteq Names
         /\ \A name \in DOMAIN Assigned(batch) : InfoOK(name, Assigned(batch)[name])
         /\ \A name \in NamedIn(batch) \cap DOMAIN Assigned(batch) :
              Assigned(batch)[name].value = FinalValue(batch, name)
<1> DEFINE all == WithEntries(batch, Len(batch))
           set == Assigned(batch)
<1>1. /\ DOMAIN all \subseteq Names
      /\ \A name \in DOMAIN all : InfoOK(name, all[name])
  BY BatchDomain, EntriesOK DEF Staged
<1>2. set = [name \in DOMAIN all |->
               IF name \in NamedIn(batch) THEN [all[name] EXCEPT !.value = FinalValue(batch, name)]
                                         ELSE all[name]]
  BY DEF Assigned
<1> HIDE DEF all, set
<1>3. ASSUME NEW name \in DOMAIN all, name \in NamedIn(batch)
      PROVE  InfoOK(name, set[name]) /\ set[name].value = FinalValue(batch, name)
  <2> DEFINE v == FinalValue(batch, name)
  <2>1. v \in Values /\ v.type \in ParameterTypes
    <3>1. PICK i \in DOMAIN batch : batch[i].name = name /\ batch[i].value = v
      BY <1>3, FinalIsOne
    <3>2. HasParameter(name) => Passes(v, params[name].descriptor)
      BY <3>1 DEF Failing
    <3>3. ~HasParameter(name) => ~CheckPanics(v, DefaultDescriptor)
      BY <3>1 DEF Staged, Unstageable
    <3>4. v.type \in ParameterTypes
      BY <3>2, <3>3 DEF Passes, CheckPanics
    <3> QED
      BY <1>3, <3>4, FinalIsGiven
  <2>2. set[name] = [all[name] EXCEPT !.value = v]
    BY <1>2, <1>3
  <2> HIDE DEF v
  <2>3. set[name] = [value |-> v, descriptor |-> all[name].descriptor]
    BY <1>1, <2>2 DEF InfoOK
  <2>4. InfoOK(name, set[name]) /\ set[name].value = v
    BY <1>1, <2>1, <2>3 DEF InfoOK
  <2> QED
    BY <2>4 DEF v
<1>4. ASSUME NEW name \in DOMAIN all, name \notin NamedIn(batch)
      PROVE  InfoOK(name, set[name])
  BY <1>1, <1>2, <1>4
<1>5. DOMAIN set = DOMAIN all
  BY <1>2
<1> QED
  BY <1>1, <1>3, <1>4, <1>5 DEF all, set

LEMMA DropOK ==
  ASSUME NEW map, DOMAIN map \subseteq Names, \A name \in DOMAIN map : InfoOK(name, map[name]),
         NEW names, params' = Drop(map, names), overrides' = overrides
  PROVE  ParamsOK'
BY DEF Drop, ParamsOK, InfoOK

THEOREM Invariance == Spec => []IInv
<1>1. Init => IInv
  <2> SUFFICES ASSUME Init PROVE IInv
    OBVIOUS
  <2>1. DOMAIN params = {}
    BY DEF Init
  <2> QED
    BY <2>1 DEF Init, IInv, ParamsOK, FlagsOK
<1>2. IInv /\ [Next]_vars => IInv'
  <2> SUFFICES ASSUME IInv, [Next]_vars PROVE IInv'
    OBVIOUS
  <2>1. ASSUME NEW p \in Given, NEW desc \in Descriptors, NEW ignore \in BOOLEAN,
               Declare(p.name, p.value, desc, ignore)
        PROVE  IInv'
    <3>1. FlagsOK'
      <4>1. last'.result \in {"ok", "error", "panic"}
        BY <2>1 DEF Declare, Ended
      <4>2. poisoned' \in BOOLEAN
        <5>1. poisoned \in BOOLEAN
          BY DEF IInv, FlagsOK
        <5>2. poisoned' = TRUE \/ poisoned' = poisoned
          BY <2>1 DEF Declare
        <5> QED
          BY <5>1, <5>2
      <4>3. UNCHANGED <<allow_undeclared, overflow_checks>>
        BY <2>1 DEF Declare
      <4> QED
        BY <4>1, <4>2, <4>3 DEF IInv, FlagsOK
    <3>2. overrides' = overrides
      BY <2>1 DEF Declare
    <3>3. CASE UNCHANGED params
      BY <3>1, <3>2, <3>3 DEF IInv, ParamsOK, InfoOK
    <3>4. CASE /\ p.name # EmptyName
               /\ Passes(InitialValue(p.name, p.value, ignore), desc)
               /\ params' = Put(params, p.name,
                    [value |-> InitialValue(p.name, p.value, ignore), descriptor |-> desc])
      <4> DEFINE value == InitialValue(p.name, p.value, ignore)
                 info == [value |-> value, descriptor |-> desc]
      <4>1. value \in Values \/ (p.name \in DOMAIN overrides /\ value = overrides[p.name])
        BY GivenFields DEF InitialValue
      <4>2. value.type \in ParameterTypes
        BY <3>4 DEF Passes, CheckPanics
      <4> HIDE DEF value
      <4>3. InfoOK(p.name, info)
        BY <4>1, <4>2 DEF InfoOK
      <4> HIDE DEF info
      <4>4. /\ DOMAIN params' = DOMAIN params \cup {p.name}
            /\ \A n \in DOMAIN params' : params'[n] = IF n = p.name THEN info ELSE params[n]
        BY <3>4 DEF Put, info, value
      <4>5. \A n \in DOMAIN params' : InfoOK(n, params'[n])
        BY <4>3, <4>4 DEF IInv, ParamsOK
      <4>6. DOMAIN params' \subseteq Names
        BY <3>4, <4>4, GivenFields DEF IInv, ParamsOK
      <4> QED
        BY <3>1, <3>2, <4>5, <4>6 DEF IInv, ParamsOK, InfoOK
    <3> QED
      BY <2>1, <3>3, <3>4 DEF Declare
  <2>2. ASSUME NEW batch \in Batches, SetParametersAtomically(batch)
        PROVE  IInv'
    <3>1. overrides' = overrides
      BY <2>2 DEF SetParametersAtomically
    <3>2. CASE Refuse(batch)
      BY <2>2, <3>1, <3>2
         DEF SetParametersAtomically, Refuse, Ended, IInv, ParamsOK, InfoOK, FlagsOK
    <3>3. CASE FailStaging(batch)
      BY <2>2, <3>1, <3>3
         DEF SetParametersAtomically, FailStaging, Ended, IInv, ParamsOK, InfoOK, FlagsOK
    <3>4. CASE FailCheck(batch)
      <4> DEFINE k == FirstOf(Failing(batch))
      <4>1. k \in Nat /\ k <= Len(batch)
        <5>1. Failing(batch) # {} /\ Failing(batch) \subseteq DOMAIN batch
          BY <3>4 DEF FailCheck, Failing
        <5>2. k \in DOMAIN batch
          BY <5>1, FirstIsOne
        <5> QED
          BY <5>2, BatchDomain
      <4>2. params' = WithEntries(batch, k) /\ Refusals(batch) = {}
        BY <3>4 DEF FailCheck, Staged
      <4>3. FlagsOK'
        BY <2>2, <3>4 DEF SetParametersAtomically, FailCheck, CheckPanics, Ended, IInv, FlagsOK
      <4> HIDE DEF k
      <4> QED
        BY <3>1, <4>1, <4>2, <4>3, EntriesOK DEF IInv, ParamsOK, InfoOK
    <3>5. CASE FailAssertion(batch) \/ Succeed(batch)
      <4>1. FlagsOK'
        <5>1. last'.result \in {"ok", "panic"} /\ (poisoned' = TRUE \/ poisoned' = poisoned)
          BY <3>5 DEF FailAssertion, Succeed, Ended
        <5>2. UNCHANGED <<allow_undeclared, overflow_checks>>
          BY <2>2 DEF SetParametersAtomically
        <5> QED
          BY <5>1, <5>2 DEF IInv, FlagsOK
      <4>2. \/ params' = Assigned(batch)
            \/ \E names : params' = Drop(Assigned(batch), names)
        BY <3>5 DEF FailAssertion, Succeed
      <4>3. Staged(batch) /\ Failing(batch) = {}
        BY <3>5 DEF FailAssertion, Succeed
      <4> DEFINE set == Assigned(batch)
      <4>4. DOMAIN set \subseteq Names /\ \A name \in DOMAIN set : InfoOK(name, set[name])
        BY <4>3, AssignedOK DEF IInv
      <4> HIDE DEF set
      <4>5. CASE params' = set
        BY <3>1, <4>1, <4>4, <4>5 DEF IInv, ParamsOK, InfoOK
      <4>6. CASE \E names : params' = Drop(set, names)
        BY <3>1, <4>1, <4>4, <4>6, DropOK DEF IInv
      <4> QED
        BY <4>2, <4>5, <4>6 DEF set
    <3> QED
      BY <2>2, <3>2, <3>3, <3>4, <3>5 DEF SetParametersAtomically
  <2>3. CASE CallOnPoisoned
    BY <2>3 DEF CallOnPoisoned, Ended, IInv, ParamsOK, InfoOK, FlagsOK
  <2>4. CASE UNCHANGED vars
    BY <2>4 DEF vars, IInv, ParamsOK, InfoOK, FlagsOK
  <2> QED
    BY DeclarationFields, <2>1, <2>2, <2>3, <2>4 DEF Next
<1> QED
  BY <1>1, <1>2, PTL DEF Spec

(***************************************************************************)
(* Every variable keeps its type: no call, failed or not, leaves an entry  *)
(* without a name of its own, or with a value nobody gave.                 *)
(***************************************************************************)
THEOREM TypeCorrect == Spec => []TypeOK
<1>1. IInv => TypeOK
  BY DEF IInv, ParamsOK, FlagsOK, InfoOK, TypeOK, Infos
<1> QED
  BY <1>1, Invariance, PTL

(***************************************************************************)
(* What a successful call has set reads back, the last value of a name     *)
(* overruling the others, except for what was declared and not set         *)
(* (parameters.rs:178-203).                                                *)
(***************************************************************************)
THEOREM ReadsBack == Spec => ReadsWhatWasSet
<1>1. ASSUME IInv, Next, last'.op = "set", last'.result = "ok", NEW i \in DOMAIN last'.batch,
             NEW name, name = last'.batch[i].name
      PROVE  IF HasParameter(name) /\ ~IsSet(name)
             THEN name \notin DOMAIN params'
             ELSE ~(\E j \in DOMAIN last'.batch : i < j /\ last'.batch[j].name = name)
                    => params'[name].value = last'.batch[i].value
  <2>1. PICK batch \in Batches : SetParametersAtomically(batch)
    <3>1. ~CallOnPoisoned
      BY <1>1 DEF CallOnPoisoned, Ended
    <3>2. ASSUME NEW p \in Given, NEW desc \in Descriptors, NEW ignore \in BOOLEAN,
                 Declare(p.name, p.value, desc, ignore)
          PROVE  FALSE
      <4>1. last'.op = "declare"
        BY <3>2 DEF Declare, Ended
      <4> QED
        BY <1>1, <4>1
    <3> QED
      BY DeclarationFields, <1>1, <3>1, <3>2 DEF Next
  <2>2. Succeed(batch) /\ last'.batch = batch
    BY <1>1, <2>1
       DEF SetParametersAtomically, Refuse, FailStaging, FailCheck, FailAssertion, Succeed, Ended
  <2>3. params' = Drop(Assigned(batch), Removed(batch, Len(batch) + 1))
    BY <2>2 DEF Succeed
  <2>4. i \in DOMAIN batch /\ name = batch[i].name /\ i \in 1..Len(batch) /\ Len(batch) \in Nat
    BY <1>1, <2>2, BatchDomain
  <2>5. CASE HasParameter(name) /\ ~IsSet(name)
    <3>1. i \in Undeclared(batch)
      BY <2>4, <2>5 DEF Undeclared, IsSet
    <3>2. name \in Removed(batch, Len(batch) + 1)
      BY <2>4, <3>1 DEF Removed
    <3> QED
      BY <2>3, <2>5, <3>2 DEF Drop
  <2>6. CASE /\ ~(HasParameter(name) /\ ~IsSet(name))
             /\ ~\E j \in DOMAIN batch : i < j /\ batch[j].name = name
    <3>1. name \notin Removed(batch, Len(batch) + 1)
      BY <2>6 DEF Removed, Undeclared, IsSet
    <3>2. Staged(batch) /\ Failing(batch) = {}
      BY <2>2 DEF Succeed
    <3>3. name \in NamedIn(batch)
      BY <2>4 DEF NamedIn
    <3>4. name \in DOMAIN WithEntries(batch, Len(batch))
      BY <2>4 DEF WithEntries
    <3>5. /\ name \in DOMAIN Assigned(batch)
          /\ Assigned(batch)[name].value = FinalValue(batch, name)
      BY <1>1, <3>2, <3>3, <3>4, AssignedOK DEF IInv
    <3>6. FinalValue(batch, name) = batch[i].value
      BY <2>4, <2>6, LastWins
    <3>7. params'[name] = Assigned(batch)[name]
      BY <2>3, <3>1, <3>5 DEF Drop
    <3> QED
      BY <2>2, <2>6, <3>5, <3>6, <3>7
  <2> QED
    BY <2>2, <2>5, <2>6
<1>2. IInv /\ [Next]_vars =>
        [last'.op = "set" /\ last'.result = "ok" =>
           \A i \in DOMAIN last'.batch :
             LET name == last'.batch[i].name
                 overruled == \E j \in DOMAIN last'.batch : i < j /\ last'.batch[j].name = name
             IN  IF HasParameter(name) /\ ~IsSet(name)
                 THEN name \notin DOMAIN params'
                 ELSE ~overruled => params'[name].value = last'.batch[i].value]_vars
  BY <1>1
<1> QED
  BY <1>2, Invariance, PTL DEF Spec, ReadsWhatWasSet

---------------------------------------------------------------------------
(***************************************************************************)
(* Ranges.  Numbers are kept out of IInv: what is proved above holds       *)
(* whatever the values are.                                                *)
(***************************************************************************)
OverridesNumeric == \A name \in DOMAIN overrides : IsNumeric(overrides[name])

AllInRange == \A name \in DOMAIN params : InRange(params[name].value, params[name].descriptor)

LEMMA ModSmall ==
  ASSUME NEW n \in Nat \ {0}, NEW x \in 0..(n - 1)
  PROVE  x % n = x
OBVIOUS

\* A number that fits is not changed by wrapping.
LEMMA WrapFits ==
  ASSUME NEW x \in Nat, x <= MaxInt
  PROVE  Wrap(x) = x
<1>1. 2 * Half \in Nat \ {0} /\ x + Half \in 0..(2 * Half - 1)
  BY ParametersAssumption DEF MaxInt
<1>2. (x + Half) % (2 * Half) = x + Half
  BY <1>1, ModSmall
<1> QED
  BY <1>2, ParametersAssumption DEF Wrap

\* Only a distance that does not fit makes the check of a range panic, for a value
\* of a known type.
LEMMA PanicIsWide ==
  ASSUME NEW p, IsNumeric(p.value), NEW desc \in Descriptors \cup {DefaultDescriptor},
         CheckPanics(p.value, desc), p.value.type \in ParameterTypes
  PROVE  WideRange(p, desc)
<1> DEFINE r == Head(desc.integer_range)
           v == p.value.v
<1>1. p.value.type = "Integer" /\ desc.integer_range # <<>> /\ IntegerPanics(v, r)
  BY DEF CheckPanics
<1>2. desc \in Descriptors
  BY <1>1 DEF DefaultDescriptor
<1>3. v \in Int /\ r \in [from_value : Int, to_value : Int, step : 0..(2 * Half - 1)]
  BY <1>1, <1>2, ParametersAssumption DEF IsNumeric
<1> HIDE DEF r, v
<1>4. v - r.from_value \in Nat \ {0}
  BY <1>1, <1>3 DEF IntegerPanics, Strictly
<1>5. Wrap(v - r.from_value) # v - r.from_value
  BY <1>1, <1>4, ParametersAssumption DEF IntegerPanics, MinInt
<1>6. v - r.from_value > MaxInt
  BY <1>4, <1>5, WrapFits, ParametersAssumption DEF MaxInt
<1> QED
  BY <1>1, <1>6 DEF WideRange, r, v

\* What check_range accepts, for an integer and for a double.
LEMMA AcceptedInteger ==
  ASSUME NEW v \in Int, NEW r \in [from_value : Int, to_value : Int, step : 0..(2 * Half - 1)],
         IntegerAccepts(v, r)
  PROVE  \/ Complies(v, r)
         \/ Strictly(v, r) /\ (v - r.from_value > MaxInt \/ r.step > MaxInt)
<1>1. CASE v \in {r.from_value, r.to_value}
  BY <1>1 DEF Complies
<1>2. CASE /\ Strictly(v, r) /\ OnIntegerStep(v, r)
           /\ ~(v - r.from_value > MaxInt \/ r.step > MaxInt)
  <2>1. v - r.from_value \in Nat /\ v - r.from_value <= MaxInt /\ r.step \in Nat /\ r.step <= MaxInt
    BY <1>2, ParametersAssumption DEF Strictly, MaxInt
  <2>2. Wrap(v - r.from_value) = v - r.from_value /\ Wrap(r.step) = r.step
    BY <2>1, WrapFits
  <2>3. OnStep(v, r)
    BY <1>2, <2>2 DEF OnIntegerStep, OnStep
  <2> QED
    BY <1>2, <2>3 DEF Complies
<1> QED
  BY <1>1, <1>2 DEF IntegerAccepts

LEMMA DivisionBounds ==
  ASSUME NEW a \in Nat, NEW b \in Nat \ {0}
  PROVE  a \div b \in Nat /\ b * (a \div b) <= a /\ a < b * (a \div b) + b
OBVIOUS

\* The multiple of a step that is rounded to is half a step away at the most.
LEMMA RoundedIsNear ==
  ASSUME NEW d \in Int, NEW step \in Int \ {0}
  PROVE  /\ Rounded(d, step) \in Int
         /\ 2 * Magnitude(d - Rounded(d, step) * step) <= Magnitude(step)
         /\ Magnitude(d) <= MaxDouble * Magnitude(step) => Rounded(d, step) \in Finite
<1> DEFINE m == Magnitude(d)
           s == Magnitude(step)
           k == (2 * m + s) \div (2 * s)
<1>1. m \in Nat /\ s \in Nat \ {0}
  BY DEF Magnitude
<1>2. d = (IF d < 0 THEN -m ELSE m) /\ step = (IF step < 0 THEN -s ELSE s)
  BY DEF Magnitude
<1>3. Rounded(d, step) = IF (d < 0) = (step < 0) THEN k ELSE -k
  BY DEF Rounded
<1> HIDE DEF m, s
<1>4. k \in Nat /\ (2 * s) * k <= 2 * m + s /\ 2 * m + s < (2 * s) * k + 2 * s
  <2>1. 2 * m + s \in Nat /\ 2 * s \in Nat \ {0}
    BY <1>1
  <2> QED
    BY <2>1, DivisionBounds
<1> HIDE DEF k
<1>5. PICK ks \in Int : ks = k * s
  BY <1>1, <1>4
<1>6. 2 * ks <= 2 * m + s /\ 2 * m < 2 * ks + s
  BY <1>1, <1>4, <1>5
<1>7. Rounded(d, step) * step = IF d < 0 THEN -ks ELSE ks
  BY <1>1, <1>2, <1>3, <1>4, <1>5
<1>8. 2 * Magnitude(d - Rounded(d, step) * step) <= s
  BY <1>1, <1>2, <1>5, <1>6, <1>7 DEF Magnitude
<1>9. ASSUME m <= MaxDouble * s
      PROVE  k <= MaxDouble
  <2>1. SUFFICES ASSUME k >= MaxDouble + 1 PROVE FALSE
    BY <1>4, ParametersAssumption
  <2>2. ks >= (MaxDouble + 1) * s
    BY <1>1, <1>4, <1>5, <2>1, ParametersAssumption
  <2>3. (MaxDouble + 1) * s = MaxDouble * s + s
    BY <1>1, ParametersAssumption
  <2>4. PICK ms \in Int : ms = MaxDouble * s
    BY <1>1, ParametersAssumption
  <2> QED
    BY <1>1, <1>5, <1>6, <1>9, <2>2, <2>3, <2>4
<1>10. m <= MaxDouble * s => Rounded(d, step) \in Finite
  BY <1>3, <1>4, <1>9, ParametersAssumption DEF Finite
<1> QED
  BY <1>3, <1>4, <1>8, <1>10 DEF m, s

LEMMA NearFits ==
  ASSUME NEW v \in Int, NEW n \in Int, NEW step \in Int,
         2 * Magnitude(v - n) <= Magnitude(step), ~Overflows(2 * Magnitude(v) + Magnitude(step))
  PROVE  ~Overflows(n) /\ ~Overflows(v + n)
<1>1. \A x \in Int : Magnitude(x) \in Nat /\ x <= Magnitude(x) /\ -x <= Magnitude(x)
  BY DEF Magnitude
<1>2. \A x \in Int, b \in Nat : x <= b /\ -x <= b => Magnitude(x) <= b
  BY DEF Magnitude
<1>3. MaxDouble \in Nat
  BY ParametersAssumption
<1>4. 2 * Magnitude(v) + Magnitude(step) <= MaxDouble
  BY <1>1, <1>3 DEF Overflows, Magnitude
<1>5. /\ v <= Magnitude(v) /\ -v <= Magnitude(v)
      /\ v - n <= Magnitude(v - n) /\ -(v - n) <= Magnitude(v - n)
      /\ {Magnitude(v), Magnitude(v - n), Magnitude(step)} \subseteq Nat
  BY <1>1
<1>6. /\ n <= MaxDouble /\ -n <= MaxDouble
      /\ v + n <= MaxDouble /\ -(v + n) <= MaxDouble
  BY <1>3, <1>4, <1>5
<1>7. Magnitude(n) <= MaxDouble /\ Magnitude(v + n) <= MaxDouble
  BY <1>2, <1>3, <1>6
<1> QED
  BY <1>1, <1>3, <1>7 DEF Overflows

LEMMA AcceptedDouble ==
  ASSUME NEW v \in F64, NEW r \in [from_value : F64, to_value : F64, step : F64],
         DoubleAccepts(v, r)
  PROVE  DoubleComplies(v, r) \/ BeyondF64(v, r)
<1>1. CASE \E end \in {r.from_value, r.to_value} : Near(v, end)
  BY <1>1 DEF Near, DoubleComplies, BeyondF64
<1>2. CASE Between(v, r) /\ r.step = 0
  BY <1>2 DEF DoubleComplies
<1>3. CASE Between(v, r) /\ r.step # 0 /\ OnDoubleStep(v, r)
  <2> DEFINE d == v - r.from_value
             k == Rounded(d, r.step)
             n == r.from_value + k * r.step
  <2>1. /\ {v, r.from_value, r.step} \subseteq Finite
        /\ v \in Int /\ r.from_value \in Int /\ r.step \in Int \ {0}
    BY <1>3, ParametersAssumption DEF OnDoubleStep, Finite
  <2>2. SUFFICES ASSUME ~StepOverflows(v, r), ~Overflows(2 * Magnitude(v) + Magnitude(r.step))
                 PROVE  DoubleComplies(v, r)
    <3>1. StepOverflows(v, r) \/ Overflows(2 * Magnitude(v) + Magnitude(r.step)) => BeyondF64(v, r)
      BY <1>3, <2>1 DEF BeyondF64
    <3> QED
      BY <3>1
  <2>3. d \in Int /\ r.step \in Int \ {0} /\ v \in Int /\ r.from_value \in Int
    BY <2>1
  <2>4. Magnitude(d) <= MaxDouble * Magnitude(r.step)
    <3>1. Magnitude(d) \in Nat /\ Magnitude(r.step) \in Nat
      BY <2>3 DEF Magnitude
    <3>2. Magnitude(d) * One <= MaxDouble * Magnitude(r.step)
      BY <2>2, <3>1, ParametersAssumption DEF StepOverflows
    <3>3. Magnitude(d) <= Magnitude(d) * One
      <4> DEFINE m == Magnitude(d)
      <4> HIDE DEF m
      <4>1. m \in Nat => m <= m * One
        BY ParametersAssumption
      <4> QED
        BY <3>1, <4>1 DEF m
    <3>4. Magnitude(d) * One \in Int /\ MaxDouble * Magnitude(r.step) \in Int
      BY <3>1, ParametersAssumption
    <3> QED
      BY <3>1, <3>2, <3>3, <3>4
  <2>5. k \in Finite /\ k \in Int /\ 2 * Magnitude(d - k * r.step) <= Magnitude(r.step)
    BY <2>3, <2>4, RoundedIsNear
  <2>6. n = Nearest(v, r)
    BY DEF Nearest
  <2> HIDE DEF k
  <2>7. n \in Int /\ d - k * r.step = v - n
    BY <2>3, <2>5
  <2>8. 2 * Magnitude(v - n) <= Magnitude(r.step)
    BY <2>5, <2>7
  <2> HIDE DEF d, n
  <2>9. ~Overflows(n) /\ ~Overflows(v + n)
    BY <2>2, <2>3, <2>7, <2>8, NearFits
  <2>10. n \in Finite
    BY <2>7, <2>9, ParametersAssumption DEF Overflows, Magnitude, Finite
  <2>11. Close(v, n)
    BY <1>3, <2>1, <2>2, <2>6, <2>9, <2>10 DEF OnDoubleStep, Near
  <2> QED
    BY <1>3, <2>1, <2>5, <2>11 DEF DoubleComplies, n
<1> QED
  BY <1>1, <1>2, <1>3 DEF DoubleAccepts

LEMMA RangesKept == Spec => [](OverridesNumeric /\ AllInRange)
<1>1. Init => OverridesNumeric /\ AllInRange
  <2>1. Init => OverridesNumeric
    BY NumericAssumption DEF Init, OverridesNumeric
  <2>2. Init => DOMAIN params = {}
    BY DEF Init
  <2> QED
    BY <2>1, <2>2 DEF AllInRange
<1>2. ASSUME IInv, OverridesNumeric, AllInRange, [Next]_vars
      PROVE  OverridesNumeric' /\ AllInRange'
  <2>1. overrides' = overrides
    BY DeclarationFields, <1>2 DEF Next, vars, Declare, SetParametersAtomically, CallOnPoisoned
  <2>2. OverridesNumeric'
    BY <1>2, <2>1 DEF OverridesNumeric, IsNumeric
  <2>3. CASE UNCHANGED params
    BY <1>2, <2>2, <2>3 DEF AllInRange
  <2>4. ASSUME NEW p \in Given, NEW desc \in Descriptors, NEW ignore \in BOOLEAN,
               Declare(p.name, p.value, desc, ignore)
        PROVE  AllInRange'
    <3> DEFINE value == InitialValue(p.name, p.value, ignore)
    <3>1. CASE /\ params' = Put(params, p.name, [value |-> value, descriptor |-> desc])
               /\ InRange(value, desc)
      <4> HIDE DEF value
      <4> DEFINE info == [value |-> value, descriptor |-> desc]
      <4>1. InRange(info.value, info.descriptor)
        BY <3>1
      <4> HIDE DEF info
      <4>2. \A n \in DOMAIN params' :
              params'[n] = info \/ (n \in DOMAIN params /\ params'[n] = params[n])
        BY <3>1 DEF Put, info
      <4> QED
        BY <1>2, <4>1, <4>2 DEF AllInRange
    <3> QED
      BY <2>3, <2>4, <3>1 DEF Declare, Passes
  <2>5. ASSUME NEW batch \in Batches, SetParametersAtomically(batch)
        PROVE  AllInRange'
    <3> DEFINE Entry == [value |-> NotSet, descriptor |-> DefaultDescriptor]
    <3>1. \A v : InRange(v, DefaultDescriptor)
      BY DEF InRange, DefaultDescriptor
    <3>2. ASSUME NEW k, NEW n \in DOMAIN WithEntries(batch, k)
          PROVE  \/ n \in DOMAIN params /\ WithEntries(batch, k)[n] = params[n]
                 \/ n \notin DOMAIN params /\ WithEntries(batch, k)[n] = Entry
      BY DEF WithEntries
    <3>3. CASE Refuse(batch) \/ FailStaging(batch)
      BY <2>3, <3>3 DEF Refuse, FailStaging
    <3>4. CASE FailCheck(batch)
      <4>1. PICK k : params' = WithEntries(batch, k)
        BY <3>4 DEF FailCheck
      <4>2. InRange(Entry.value, Entry.descriptor)
        BY <3>1
      <4> HIDE DEF Entry
      <4> QED
        BY <1>2, <3>2, <4>1, <4>2 DEF AllInRange
    <3>5. CASE FailAssertion(batch) \/ Succeed(batch)
      <4> DEFINE set == Assigned(batch)
                 all == WithEntries(batch, Len(batch))
      <4>1. Staged(batch) /\ Failing(batch) = {}
        BY <3>5 DEF FailAssertion, Succeed
      <4>2. \A n \in DOMAIN set : set[n].descriptor = all[n].descriptor /\ n \in DOMAIN all
        <5> HIDE DEF all
        <5> QED
          BY DEF Assigned, all
      <4>3. \A n \in DOMAIN set : n \notin NamedIn(batch) => set[n] = all[n]
        BY DEF Assigned
      <4>4. \A n \in DOMAIN set : n \in NamedIn(batch) => set[n].value = FinalValue(batch, n)
        BY <1>2, <4>1, AssignedOK DEF IInv
      <4>5. ASSUME NEW n \in DOMAIN set
            PROVE  InRange(set[n].value, set[n].descriptor)
        <5>1. CASE n \notin NamedIn(batch)
          <6>1. InRange(Entry.value, Entry.descriptor)
            BY <3>1
          <6> HIDE DEF Entry, set, all
          <6> QED
            BY <1>2, <3>2, <4>2, <4>3, <4>5, <5>1, <6>1 DEF AllInRange, all
        <5>2. CASE n \in NamedIn(batch) /\ n \notin DOMAIN params
          <6>1. all[n].descriptor = DefaultDescriptor
            BY <3>2, <4>2, <5>2
          <6> QED
            BY <3>1, <4>2, <6>1
        <5>3. CASE n \in NamedIn(batch) /\ n \in DOMAIN params
          <6>1. PICK i \in DOMAIN batch : batch[i].name = n /\ batch[i].value = FinalValue(batch, n)
            BY <5>3, FinalIsOne
          <6>2. Passes(batch[i].value, params[n].descriptor)
            BY <4>1, <5>3, <6>1 DEF Failing, HasParameter
          <6>3. all[n].descriptor = params[n].descriptor
            BY <3>2, <4>2, <5>3
          <6> HIDE DEF set, all
          <6> QED
            BY <4>2, <4>4, <4>5, <5>3, <6>1, <6>2, <6>3 DEF Passes
        <5> QED
          BY <5>1, <5>2, <5>3
      <4>6. params' = set \/ \E names : params' = Drop(set, names)
        BY <3>5 DEF FailAssertion, Succeed
      <4> HIDE DEF set
      <4>7. \A n \in DOMAIN params' : n \in DOMAIN set /\ params'[n] = set[n]
        BY <4>6 DEF Drop
      <4> QED
        BY <4>5, <4>7 DEF AllInRange
    <3> QED
      BY <2>5, <3>3, <3>4, <3>5 DEF SetParametersAtomically
  <2>6. CASE CallOnPoisoned \/ UNCHANGED vars
    BY <2>3, <2>6 DEF CallOnPoisoned, vars
  <2> QED
    BY DeclarationFields, <1>2, <2>2, <2>4, <2>5, <2>6 DEF Next
<1> QED
  BY <1>1, <1>2, Invariance, PTL DEF Spec

(***************************************************************************)
(* Whatever the width of an integer, the values and the ranges are: what   *)
(* is stored complies with its range, but for distances and steps that do  *)
(* not fit in an integer, and doubles for which the arithmetic of the      *)
(* check overflows (value.rs:147-211).                                     *)
(***************************************************************************)
THEOREM RangesHold == Spec => []StoredInRange
<1>1. IInv /\ OverridesNumeric /\ AllInRange => StoredInRange
  <2> SUFFICES ASSUME IInv, OverridesNumeric, AllInRange, NEW name \in DOMAIN params
               PROVE  LET value == params[name].value
                          desc == params[name].descriptor
                      IN  /\ value.type = "Integer" /\ desc.integer_range # <<>> =>
                               LET r == Head(desc.integer_range)
                               IN  \/ Complies(value.v, r)
                                   \/ /\ Strictly(value.v, r)
                                      /\ (value.v - r.from_value > MaxInt \/ r.step > MaxInt)
                          /\ value.type = "Double" /\ desc.floating_point_range # <<>> =>
                               LET r == Head(desc.floating_point_range)
                               IN  DoubleComplies(value.v, r) \/ BeyondF64(value.v, r)
    BY DEF StoredInRange
  <2> DEFINE value == params[name].value
             desc == params[name].descriptor
  <2>1. IsNumeric(value)
    BY NumericAssumption DEF IInv, ParamsOK, InfoOK, OverridesNumeric, NotSet, Value, IsNumeric
  <2>2. desc \in Descriptors \cup {DefaultDescriptor} /\ InRange(value, desc)
    BY DEF IInv, ParamsOK, InfoOK, AllInRange
  <2> HIDE DEF value, desc
  <2>3. ASSUME value.type = "Integer", desc.integer_range # <<>>, NEW r, r = Head(desc.integer_range)
        PROVE  \/ Complies(value.v, r)
               \/ Strictly(value.v, r) /\ (value.v - r.from_value > MaxInt \/ r.step > MaxInt)
    <3>1. desc \in Descriptors
      BY <2>2, <2>3 DEF DefaultDescriptor
    <3>2. value.v \in Int /\ r \in [from_value : Int, to_value : Int, step : 0..(2 * Half - 1)]
      BY <2>1, <2>3, <3>1, ParametersAssumption DEF IsNumeric
    <3>3. IntegerAccepts(value.v, r)
      BY <2>2, <2>3 DEF InRange
    <3> QED
      BY <3>2, <3>3, AcceptedInteger
  <2>4. ASSUME value.type = "Double", desc.floating_point_range # <<>>,
               NEW r, r = Head(desc.floating_point_range)
        PROVE  DoubleComplies(value.v, r) \/ BeyondF64(value.v, r)
    <3>1. desc \in Descriptors
      BY <2>2, <2>4 DEF DefaultDescriptor
    <3>2. value.v \in F64 /\ r \in [from_value : F64, to_value : F64, step : F64]
      BY <2>1, <2>4, <3>1, ParametersAssumption DEF IsNumeric
    <3>3. DoubleAccepts(value.v, r)
      BY <2>2, <2>4 DEF InRange
    <3> QED
      BY <3>2, <3>3, AcceptedDouble
  <2> QED
    BY <2>3, <2>4 DEF value, desc
<1> QED
  BY <1>1, Invariance, RangesKept, PTL

(***************************************************************************)
(* Nothing else than the four causes listed poisons the mutex, whatever    *)
(* record a value is (value.rs:127 and 163, parameters.rs:197 and 202).    *)
(***************************************************************************)
THEOREM PoisonHasCause == Spec => PoisonedWithCause
<1> DEFINE Cause(batch, desc, i) ==
      LET name == batch[i].name
      IN  \/ batch[i].value.type \notin ParameterTypes
          \/ WideRange(batch[i], IF HasParameter(name) THEN params[name].descriptor ELSE desc)
          \/ /\ HasParameter(name) /\ ~IsSet(name)
             /\ \E j \in DOMAIN batch \ {i} : batch[j].name = name
          \/ /\ ~HasParameter(name) /\ allow_undeclared
             /\ batch[i].value.nan
<1>1. ASSUME IInv, OverridesNumeric, Next, ~poisoned, poisoned'
      PROVE  \E i \in DOMAIN last'.batch : Cause(last'.batch, last'.descriptor, i)
  <2>1. ASSUME NEW p \in Given, NEW desc \in Descriptors, NEW ignore \in BOOLEAN,
               Declare(p.name, p.value, desc, ignore)
        PROVE  \E i \in DOMAIN last'.batch : Cause(last'.batch, last'.descriptor, i)
    <3> DEFINE value == InitialValue(p.name, p.value, ignore)
    <3>1. /\ ~HasParameter(p.name) /\ CheckPanics(value, desc)
          /\ last'.batch = <<Param(p.name, value)>> /\ last'.descriptor = desc
      <4>1. ~UNCHANGED poisoned
        BY <1>1
      <4>2. ~HasParameter(p.name) /\ CheckPanics(value, desc)
        BY <2>1, <4>1, Zenon DEF Declare
      <4>3. last'.batch = <<Param(p.name, value)>> /\ last'.descriptor = desc
        BY <2>1 DEF Declare, Ended
      <4> QED
        BY <4>2, <4>3
    <3>2. IsNumeric(value)
      BY <1>1, GivenFields, NumericAssumption DEF InitialValue, OverridesNumeric
    <3> HIDE DEF value
    <3>3. value.type \notin ParameterTypes \/ WideRange(Param(p.name, value), desc)
      BY <3>1, <3>2, PanicIsWide DEF Param
    <3>4. 1 \in DOMAIN last'.batch /\ last'.batch[1] = Param(p.name, value)
      BY <3>1
    <3>5. Cause(last'.batch, last'.descriptor, 1)
      BY <3>1, <3>3, <3>4 DEF Param
    <3> QED
      BY <3>4, <3>5
  <2>2. ASSUME NEW batch \in Batches, SetParametersAtomically(batch)
        PROVE  \E i \in DOMAIN last'.batch : Cause(last'.batch, last'.descriptor, i)
    <3>1. last'.batch = batch
      BY <2>2 DEF SetParametersAtomically, Refuse, FailStaging, FailCheck, FailAssertion, Succeed,
                     Ended
    <3>2. CASE FailCheck(batch)
      <4> DEFINE k == FirstOf(Failing(batch))
      <4>1. k \in Failing(batch)
        BY <3>2, FirstIsOne DEF FailCheck, Failing
      <4>2. CheckPanics(batch[k].value, params[batch[k].name].descriptor)
        BY <1>1, <3>2 DEF FailCheck
      <4> HIDE DEF k
      <4>3. k \in DOMAIN batch /\ HasParameter(batch[k].name)
        BY <4>1 DEF Failing
      <4>4. IsNumeric(batch[k].value)
        BY <4>3, BatchDomain, GivenFields, NumericAssumption
      <4>5. params[batch[k].name].descriptor \in Descriptors \cup {DefaultDescriptor}
        BY <1>1, <4>3 DEF IInv, ParamsOK, InfoOK, HasParameter
      <4>6. \/ batch[k].value.type \notin ParameterTypes
            \/ WideRange(batch[k], params[batch[k].name].descriptor)
        BY <4>2, <4>4, <4>5, PanicIsWide
      <4> QED
        BY <3>1, <4>3, <4>6
    <3>3. CASE FailAssertion(batch) /\ AssertionFails(batch)
      <4>1. PICK name \in NamedIn(batch) \ DOMAIN params : FinalValue(batch, name).nan
        BY <3>3 DEF AssertionFails, Equal
      <4>2. PICK i \in DOMAIN batch : batch[i].name = name /\ batch[i].value = FinalValue(batch, name)
        BY <4>1, FinalIsOne
      <4>3. ~HasParameter(name) /\ allow_undeclared
        BY <3>3, <4>1, <4>2 DEF FailAssertion, Staged, Refusals, IsError, HasParameter
      <4>4. Cause(batch, last'.descriptor, i)
        BY <4>1, <4>2, <4>3
      <4> QED
        BY <3>1, <4>4
    <3>4. CASE FailAssertion(batch) /\ ~AssertionFails(batch)
      <4>1. PICK j \in Undeclared(batch), i \in Undeclared(batch) :
                   i < j /\ batch[i].name = batch[j].name
        BY <3>4 DEF FailAssertion, RemovedTwice
      <4>2. i \in DOMAIN batch /\ j \in DOMAIN batch \ {i}
        BY <4>1, BatchDomain DEF Undeclared
      <4>3. HasParameter(batch[i].name) /\ ~IsSet(batch[i].name)
        BY <4>1 DEF Undeclared, IsSet
      <4>4. Cause(batch, last'.descriptor, i)
        BY <4>1, <4>2, <4>3
      <4> QED
        BY <3>1, <4>2, <4>4
    <3>5. CASE FailStaging(batch)
      <4>1. PICK i \in DOMAIN batch : ~HasParameter(batch[i].name) /\ CheckPanics(batch[i].value, DefaultDescriptor)
        BY <3>5 DEF FailStaging, Unstageable
      <4>2. batch[i].value.type \notin ParameterTypes
        BY <4>1 DEF CheckPanics, DefaultDescriptor
      <4> QED
        BY <3>1, <4>2
    <3>6. ~Refuse(batch) /\ ~Succeed(batch)
      BY <1>1 DEF Refuse, Succeed
    <3> QED
      BY <2>2, <3>2, <3>3, <3>4, <3>5, <3>6 DEF SetParametersAtomically
  <2>3. ~CallOnPoisoned
    BY <1>1 DEF CallOnPoisoned
  <2> QED
    BY DeclarationFields, <1>1, <2>1, <2>2, <2>3 DEF Next
<1>2. IInv /\ OverridesNumeric /\ [Next]_vars =>
        [~poisoned /\ poisoned' =>
           \E i \in DOMAIN last'.batch : Cause(last'.batch, last'.descriptor, i)]_vars
  BY <1>1
<1> QED
  BY <1>2, Invariance, RangesKept, PTL DEF Spec, PoisonedWithCause

==============================================================================
