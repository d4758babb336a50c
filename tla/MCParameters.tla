---------------------------- MODULE MCParameters ----------------------------
(***************************************************************************)
(* Instance of Parameters for TLC: integers from -8 to 7, doubles from -30 *)
(* to 30, two parameters, calls of at most two of them.  "count" is        *)
(* overridden by the command line, once for every node and then for this   *)
(* one; with it go the values that a call treats differently.  "rate" has  *)
(* the values at the limits of a range, and the ranges.                    *)
(***************************************************************************)
EXTENDS Parameters

I(v) == Value("Integer", v)
D(v) == Value("Double", v)

\* A type that is none, and two NaNs outside of a double.
Odd == { Value("DoubleArray", NaN), [I(2) EXCEPT !.nan = TRUE], [NotSet EXCEPT !.type = "Unknown"] }
Plain == {NotSet, I(-3)}

\* The limits of integers and doubles, what is near an end without being it, and
\* what is not a number.
Numbers ==
  {I(v) : v \in {-8, -6, -3, 0, 7}}
    \cup {D(v) : v \in {-30, -20, -1, 0, 9, 10, 12, 13, 16, 20, 30, NaN, Inf, -Inf}}

MCValues == Odd \cup Plain \cup Numbers

Limits(from, to, step) == <<[from_value |-> from, to_value |-> to, step |-> step]>>
Bounded(ints, doubles) ==
  [read_only |-> FALSE, integer_range |-> ints, floating_point_range |-> doubles]

\* Of integers, ranges with a step, without one, wider than the signed type, and
\* with a step beyond it.  Of doubles, with and without a step, with ends at which
\* sums and distances overflow, with a step by which the quotient does, with ends
\* or a step that are no number.
Ranges ==
  { Bounded(Limits(-3, 3, 2), Limits(0, 10, 0)), Bounded(Limits(-3, 3, 0), Limits(0, 10, 5)),
    Bounded(Limits(-8, 7, 3), Limits(0, 20, 10)), Bounded(Limits(-6, 7, 15), Limits(0, 30, 1)) }
  \cup
  { Bounded(<<>>, r) : r \in
      { Limits(-30, 30, 7), Limits(0, 13, -10), Limits(NaN, 10, 0), Limits(0, NaN, 5),
        Limits(NaN, NaN, 1), Limits(0, Inf, 5), Limits(-Inf, Inf, 0), Limits(0, 20, NaN) } }

ReadOnly == [DefaultDescriptor EXCEPT !.read_only = TRUE]
Odds == Bounded(Limits(-3, 3, 2), <<>>)
MCDescriptors == {DefaultDescriptor, ReadOnly, Odds} \cup Ranges

Declaration(names, values, descriptors) ==
  [param : {Param(name, v) : name \in names, v \in values},
   descriptor : descriptors, ignore_override : BOOLEAN]

MCDeclarations ==
  Declaration({"count", ""}, Odd \cup Plain, {DefaultDescriptor, ReadOnly, Odds})
    \cup Declaration({"rate"}, {NotSet, I(7), D(0), D(20)}, {DefaultDescriptor} \cup Ranges)

\* Every call of one parameter, and those of two that differ in what becomes of them.
MCBatches ==
  {<<p>> : p \in {Param("rate", v) : v \in Numbers \cup {NotSet}}
                   \cup {Param(name, v) : name \in {"count", ""}, v \in Odd \cup Plain}}
    \cup {<<p, q>> : p, q \in {Param("count", v) : v \in Odd \cup Plain}
                               \cup {Param("rate", v) : v \in {I(-3), D(-1)}}}

Block(rooted, name, entries) ==
  [node |-> [rooted |-> rooted, name |-> name], params |-> entries]
Entry(name, variant) == [name |-> name, variant |-> variant]

MCArgumentSets ==
  { << Block(FALSE, "**", <<Entry("count", [Integer |-> 2])>>),
       Block(TRUE, "other", <<Entry("count", [String |-> 0])>>),
       Block(FALSE, "this", <<Entry("count", [Double |-> 1, Integer |-> 0])>>) >> }

\* The properties look at "last" after a step only: states that differ in
\* nothing else have the same successors.
WithoutLast == <<params, overrides, allow_undeclared, poisoned, overflow_checks>>
==============================================================================
