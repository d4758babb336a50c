---------------------------- MODULE MCInterface ----------------------------
EXTENDS Interface

(* Elements, types, literals and lines *)
B(t)      == [kind |-> "basic", of |-> t]
Str(w, n) == [kind |-> "string", wide |-> w, max |-> n]
Named(n)  == [kind |-> "named", name |-> n]
Other(p, n) == Reference(p, "msg", n, "")
Ty(e, s, n) == [elem |-> e, seq |-> s, size |-> n]
Num(n)    == [lit |-> "int", val |-> n]
Bool(n)   == [lit |-> "bool", val |-> n]
Float(f)  == [lit |-> "float", val |-> 1, finite |-> f]
Quoted(t) == [lit |-> "text", quoted |-> TRUE, chars |-> t]
List(s)   == [lit |-> "list", items |-> s]
Def(t, n, v) == [form |-> "def", type |-> t, name |-> n, upper |-> FALSE, eq |-> FALSE,
                 value |-> v]
Const(t, n, v) == [Def(t, n, v) EXCEPT !.upper = TRUE, !.eq = TRUE]
Blank == [form |-> "blank"]
Word  == [form |-> "word"]
File(ns, n, blocks) == [ns |-> ns, name |-> n, blocks |-> blocks]
Msg(n, lines) == File("msg", n, <<lines>>)

(* One line per world: every type with every literal, as member or constant *)
LineTypes ==
  {Ty(B("uint8"), "none", 0), Ty(B("int8"), "none", 0), Ty(B("int8"), "bounded", 1),
   Ty(B("bool"), "array", 2), Ty(B("float32"), "none", 0),
   Ty(Str(FALSE, Unbounded), "none", 0), Ty(Str(TRUE, 1), "none", 0),
   Ty(Str(FALSE, 1), "any", 0), Ty(Str(FALSE, Unbounded), "array", 2),
   Ty(Named("A"), "none", 0), Ty(B("byte"), "bounded without size", 0)}
LineLiterals ==
  {NoValue, Num(-128), Num(1), Num(255), Bool(1), Float(TRUE), Float(FALSE),
   Text(<<"c", "#">>), Quoted(<<"#", "c">>), Quoted(<<"c", "=">>), Quoted(<<" ", "c", "c">>),
   List(<<>>), List(<<Num(1)>>), List(<<Num(1), Num(128)>>), List(<<Num(0), Bool(1)>>),
   List(<<Text(<<"c", "c">>), Quoted(<<"c">>)>>)}
Lines == {Blank, Word} \cup
         {[Def(t, "x", v) EXCEPT !.upper = u, !.eq = e] :
            t \in LineTypes, v \in LineLiterals, u \in BOOLEAN, e \in BOOLEAN}
With(p, f) == [q \in {p} |-> f]
LineWorlds == {<<With("a", <<Msg("A", <<line>>)>>)>> : line \in Lines}

(* Packages in several prefixes, services and actions *)
Time == Msg("Time", <<Def(Plain(B("int32")), "sec", NoValue), Blank,
                      Def(Plain(B("uint32")), "nanosec", NoValue)>>)
Uuid == Msg("UUID", <<Def(Ty(B("uint8"), "array", 1), "uuid", NoValue)>>)
Field(e) == <<Def(Plain(e), "x", NoValue)>>
One == Msg("One", Field(B("uint8")))
Two == Msg("Two", Field(Str(FALSE, Unbounded)))
Action == File("action", "Go", <<Field(B("uint8")), <<>>, Field(B("bool"))>>)
Service(n) == File("srv", "Ask", <<Field(Named(n)), Field(Str(TRUE, Unbounded))>>)
Junk == [ns |-> "other", name |-> "x", blocks |-> <<>>]
Base == [q \in {"builtin_interfaces", "unique_identifier_msgs"} |->
           IF q = "builtin_interfaces" THEN <<Time>> ELSE <<Uuid>>]
TreeWorlds ==
  {<<With("a", <<Action, Junk>>), Base>>,
   <<With("a", <<Action>>)>>,
   <<With("a", <<One>>), [q \in {"a", "b"} |-> IF q = "a" THEN <<Two, One>>
                            ELSE <<Msg("B", Field(Other("a", "Two")))>>]>>,
   <<With("a", <<Junk>>), With("a", <<One, Two>>), With("a", <<Two>>)>>,
   <<[q \in {"libstatistics_collector", "b"} |->
        IF q = "b" THEN <<Msg("B", Field(Other("libstatistics_collector", "One")))>>
        ELSE <<One>>]>>,
   <<[q \in {"a", "b", "int8_msgs"} |->
        CASE q = "a" -> <<One>> [] q = "b" -> <<Service("One")>>
          [] OTHER -> <<Msg("B", Field(Other("int8_msgs", "One")))>>], Base>>,
   <<With("a", <<File("srv", "Ask", <<<<>>>>)>>)>>}

(* The messages that are sent *)
Sent == <<With("a", <<
   Msg("Inner", <<Def(Plain(B("int8")), "n", NoValue),
                  Def(Plain(Str(TRUE, Unbounded)), "w", NoValue)>>),
   Msg("Outer", <<Def(Ty(B("uint8"), "any", 0), "data", NoValue),
                  Def(Ty(Named("Inner"), "bounded", 1), "inner", NoValue)>>),
   Msg("Names", <<Def(Ty(Str(FALSE, Unbounded), "any", 0), "names", NoValue)>>),
   Msg("Pair", <<Def(Ty(Str(FALSE, 1), "array", 2), "pair", NoValue),
                 Def(Ty(B("bool"), "array", 1), "flag", NoValue)>>),
   Service("Inner")>>), Base>>
MCUsedWorlds == {Sent}
MCWorlds == LineWorlds \cup TreeWorlds \cup MCUsedWorlds
MCPackageOrder == <<"a", "b", "builtin_interfaces", "int8_msgs", "libstatistics_collector",
                    "unique_identifier_msgs">>
MCTexts == {<<>>, <<"c">>, <<"c", "nul">>, <<"nul", "bad">>, <<"bad">>}
MCBasicValues == {<<"0">>, <<"1">>}
MCDurations == {[sec |-> 0, nsec |-> 3], [sec |-> 2, nsec |-> 9]}
MCSecMin == -4
MCNanos == -55..55
=============================================================================
