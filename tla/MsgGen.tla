------------------------------- MODULE MsgGen -------------------------------
(***************************************************************************)
(* The procedural macro msg_include_all! of rclrust-msg-gen: it walks the  *)
(* prefixes of AMENT_PREFIX_PATH, parses the interface files of every      *)
(* package it finds there, and emits one Rust type per message.            *)
(*                                                                         *)
(* A file is a sequence of lines (a .srv or .action file: of blocks of     *)
(* lines), and a line is what the grammar tells apart:                     *)
(*   [form |-> "blank"]   nothing is left of it once the comment is cut    *)
(*   [form |-> "word"]    it holds no space                                *)
(*   [form |-> "def", type, name, upper, eq, value]                        *)
(*       a type, a name (in capitals or not), perhaps '=', perhaps a value *)
(* A type is an element type and the brackets after it; a value is a       *)
(* literal; a text is a sequence of characters, of which only the blank,   *)
(* '=' and '#' matter to the parser.                                       *)
(***************************************************************************)
EXTENDS Integers, Sequences, FiniteSets, SequencesExt

CONSTANTS
  Worlds,         \* the values of AMENT_PREFIX_PATH: sequences of prefixes,
                  \* each a function from packages to the lines of their index
  PackageOrder,   \* all package names, in the order sort_by_key gives them
  SkippedPackage, \* the package get_ros_msgs_each_package leaves out
  KeywordNames    \* packages whose name starts with the name of a basic type

IsSequence(s) == s \in Seq(Range(s))

VARIABLES
  prefixes,  \* the prefixes of this run, first to last
  prefix,    \* how many of them have been opened
  unread,    \* entries of the open directory read_dir has yet to return
  package,   \* the package being read: its name and items; <<>> if none
  packages,  \* the packages read so far; once sorted, those to emit
  phase      \* "scan", "parsed", "generated", "failed" (Err), "panicked"

genVars == <<prefixes, prefix, unread, package, packages, phase>>

-----------------------------------------------------------------------------
(* Literals *)

Bits == [int8 |-> 8, uint8 |-> 8, char |-> 8, byte |-> 8,
         int16 |-> 16, uint16 |-> 16, int32 |-> 32, uint32 |-> 32,
         int64 |-> 64, uint64 |-> 64]
Signed     == {"int8", "int16", "int32", "int64"}
FloatTypes == {"float32", "float64"}

\* The integers of a basic type.
IntRange(t) == IF t \in Signed THEN -(2^(Bits[t] - 1)) .. 2^(Bits[t] - 1) - 1
               ELSE 0 .. 2^Bits[t] - 1

NoValue   == [lit |-> "none"]
Text(t)   == [lit |-> "text", quoted |-> FALSE, chars |-> t]
Unbounded == -1

\* The items of a list, or the value itself.
Items(v) == IF v.lit = "list" THEN v.items ELSE <<v>>

Holds(v, c) == \E i \in DOMAIN Items(v) :
                  Items(v)[i].lit = "text" /\ c \in Range(Items(v)[i].chars)

\* What comes before the first c, without the blanks around it.
Trim(t) == LET shown == {i \in DOMAIN t : t[i] # " "}
           IN  IF shown = {} THEN <<>> ELSE SubSeq(t, Min(shown), Max(shown))
Before(t, c) == SubSeq(t, 1, Min({i \in DOMAIN t : t[i] = c} \cup {Len(t) + 1}) - 1)

\* The line is cut at its first '#', be it inside quotes.  A bare text keeps
\* what is before it; of a quoted one only the opening quote may be left,
\* which string_literal takes for an empty text; a list is left open.
CutComment(v) ==
  IF ~Holds(v, "#") THEN v
  ELSE IF v.lit = "list" THEN [lit |-> "broken"]
  ELSE LET kept == Trim(Before(v.chars, "#"))
       IN  IF v.quoted THEN IF kept = <<>> THEN Text(<<>>) ELSE [lit |-> "broken"]
           ELSE IF kept = <<>> THEN NoValue ELSE Text(kept)

\* A literal read as a text; one character stands for a number's digits.
Spelling(v) == IF v.lit = "text" THEN Trim(v.chars) ELSE <<"c">>

(* The parsers below return the set of their results: a singleton, or the  *)
(* empty set for an Err.                                                   *)

IntegerLiteral(t, v) == {w \in {v} : v.lit = "int" /\ v.val \in IntRange(t)}

BasicLiteral(t, v) ==
  IF t \in DOMAIN Bits THEN IntegerLiteral(t, v)
  ELSE IF t \in FloatTypes THEN {w \in {v} : v.lit \in {"int", "float"}}
  ELSE {[lit |-> "bool", val |-> w.val] :
           w \in {x \in {v} : v.lit = "bool" \/ (v.lit = "int" /\ v.val \in 0..1)}}

StringLiteral(max, v) ==
  {Text(t) : t \in {s \in {Spelling(v)} :
                       v.lit # "broken" /\ (max = Unbounded \/ Len(s) <= max)}}

\* nestable_type_default, and the scalar arms of validate_value
NestableDefault(elem, v) ==
  CASE elem.kind = "basic"  -> {<<w>> : w \in BasicLiteral(elem.of, v)}
    [] elem.kind = "string" -> {<<w>> : w \in StringLiteral(elem.max, v)}
    [] OTHER                -> {}

\* array_type_default: a list of at least one item; a text of it may have any
\* length, even when the element type bounds it
ArrayDefault(elem, v) ==
  LET Item(w) == CASE elem.kind = "basic"  -> BasicLiteral(elem.of, w)
                   [] elem.kind = "string" -> StringLiteral(Unbounded, w)
                   [] OTHER                -> {}
  IN  IF v.lit = "list" /\ v.items # <<>> /\ \A i \in DOMAIN v.items : Item(v.items[i]) # {}
      THEN {[i \in DOMAIN v.items |-> CHOOSE w \in Item(v.items[i]) : TRUE]}
      ELSE {}

ValidateDefault(type, v) ==
  CASE type.seq = "none"    -> NestableDefault(type.elem, v)
    [] type.seq = "array"   -> {d \in ArrayDefault(type.elem, v) : Len(d) = type.size}
    [] type.seq = "bounded" -> {d \in ArrayDefault(type.elem, v) : Len(d) <= type.size}
    [] OTHER                -> ArrayDefault(type.elem, v)

ValueOfAnyLength(type, v) ==   \* mutated form of ValidateValue: no length is looked at
  IF type.seq = "none" THEN NestableDefault(type.elem, v) ELSE ArrayDefault(type.elem, v)

\* The length of an array of texts is not looked at.
ValidateValue(type, v) ==
  IF type.seq = "none" THEN NestableDefault(type.elem, v)
  ELSE {d \in ArrayDefault(type.elem, v) :
           type.elem.kind = "string" \/ Len(d) = type.size}

-----------------------------------------------------------------------------
(* Lines and files *)

\* parse_member_type: "[<=]" names no size; and an element type that starts
\* like a basic type is taken for it, the rest of the word being an error
MemberTypeParses(type) ==
  /\ type.seq # "bounded without size"
  /\ type.elem.kind = "namespaced" => type.elem.package \notin KeywordNames

\* parse_constant_type: a basic type or an unbounded string, alone or in an
\* array of fixed size
ConstantTypeParses(type) ==
  /\ type.seq \in {"none", "array"}
  /\ type.elem.kind = "basic" \/ (type.elem.kind = "string" /\ type.elem.max = Unbounded)

\* A member without default has the default <<>>.
MemberDef(line, v) ==
  {[name |-> line.name, type |-> line.type, default |-> d] :
     d \in {e \in IF v = NoValue THEN {<<>>} ELSE ValidateDefault(line.type, v) :
               MemberTypeParses(line.type) /\ ~line.upper}}

ConstantDef(line, v) ==
  {[name |-> line.name, type |-> line.type, value |-> d] :
     d \in {e \in IF v = NoValue THEN {} ELSE ValidateValue(line.type, v) :
               ConstantTypeParses(line.type) /\ line.upper /\ line.eq}}

\* The elements of S in order; upTo[i] are those that come no later than i.
Ordered(S, upTo) ==
  [k \in 1..Cardinality(S) |-> CHOOSE i \in S : Cardinality(upTo[i]) = k]
Pick(s, kept) ==   \* the elements of s at the positions kept
  LET order == Ordered(kept, [i \in kept |-> {j \in kept : j <= i}])
  IN  [k \in DOMAIN order |-> s[order[k]]]

\* One turn of the loop of parse_message_string: any '=' after the first
\* space makes the line a constant; a line without space ends in a panic.
ParseLine(line) ==
  IF line.form = "blank" THEN [result |-> "nothing"]
  ELSE IF line.form = "word" THEN [result |-> "panicked"]
  ELSE LET v == CutComment(line.value)
           constant == line.eq \/ Holds(v, "=")
           defs == IF constant THEN ConstantDef(line, v) ELSE MemberDef(line, v)
       IN  IF defs = {} THEN [result |-> "failed"]
           ELSE [result |-> IF constant THEN "constant" ELSE "member",
                 def |-> CHOOSE d \in defs : TRUE]

\* The loop ends at the first turn that fails or panics.
MessageOf(turns) ==
  LET Results(these) == {i \in DOMAIN turns : turns[i].result \in these}
      Defs(kind) == Pick([i \in DOMAIN turns |-> turns[i].def], Results({kind}))
      bad == Results({"failed", "panicked"})
  IN  [outcome |-> IF bad = {} THEN "ok" ELSE turns[Min(bad)].result,
       members |-> Defs("member"), constants |-> Defs("constant")]
ParseMessage(lines) == MessageOf([i \in DOMAIN lines |-> ParseLine(lines[i])])

\* The messages a file must hold, by namespace.
Parts == [msg |-> <<"">>, srv |-> <<"Request", "Response">>,
          action |-> <<"Goal", "Result", "Feedback">>]

\* What a .msg, .srv or .action file can be: the basic types are those of the
\* grammar, and a type of another package is one of its messages.
IsDef(line) ==
  LET elem == line.type.elem
  IN  /\ line.value.lit = "list" => IsSequence(line.value.items)
      /\ \A i \in DOMAIN Items(line.value) :
           Items(line.value)[i].lit = "text" => IsSequence(Items(line.value)[i].chars)
      /\ elem.kind = "basic" => elem.of \in DOMAIN Bits \cup FloatTypes \cup {"bool"}
      /\ elem.kind = "namespaced" => elem.ns = "msg" /\ elem.part = ""
IsLine(line) == line.form \in {"blank", "word", "def"} /\ (line.form = "def" => IsDef(line))
IsFile(entry) ==
  /\ IsSequence(entry.blocks)
  /\ \A lines \in Range(entry.blocks) :
       IsSequence(lines) /\ \A line \in Range(lines) : IsLine(line)

ASSUME MsgGenAssumption ==
  /\ IsSequence(PackageOrder) /\ IsInjective(PackageOrder)
  /\ \A world \in Worlds :
       /\ IsSequence(world)
       /\ \A i \in DOMAIN world :
            /\ DOMAIN world[i] \subseteq Range(PackageOrder)
            /\ \A p \in DOMAIN world[i] :
                 /\ IsSequence(world[i][p])
                 /\ \A entry \in Range(world[i][p]) : entry.ns \in DOMAIN Parts => IsFile(entry)

\* parse_message_file, parse_service_file and parse_action_file: the blocks
\* in order, up to the first that does not parse
ParseFile(entry) ==
  LET parts == Parts[entry.ns]
      msgs == [i \in DOMAIN parts |-> ParseMessage(entry.blocks[i])]
      bad == {i \in DOMAIN msgs : msgs[i].outcome # "ok"}
  IN  IF Len(entry.blocks) # Len(parts)
      THEN [outcome |-> "failed", item |-> <<>>]
      ELSE [outcome |-> IF bad = {} THEN "ok" ELSE msgs[Min(bad)].outcome,
            item |-> [ns |-> entry.ns, name |-> entry.name, msgs |-> msgs]]

-----------------------------------------------------------------------------
(* What is emitted *)

Plain(elem) == [elem |-> elem, seq |-> "none", size |-> 0]
Member(name, elem) == [name |-> name, type |-> Plain(elem), default |-> <<>>]
Reference(p, ns, name, part) ==
  [kind |-> "namespaced", package |-> p, ns |-> ns, name |-> name, part |-> part]
UuidType == Reference("unique_identifier_msgs", "msg", "UUID", "")
TimeType == Reference("builtin_interfaces", "msg", "Time", "")
GoalId == Member("goal_id", UuidType)

PartsInMsg(p, name) ==   \* mutated form of ActionParts: the parts looked for among messages
  [SendGoalRequest   |-> <<GoalId, Member("goal", Reference(p, "msg", name, "Goal"))>>,
   GetResultResponse |-> <<Member("result", Reference(p, "msg", name, "Result"))>>,
   FeedbackMessage   |-> <<GoalId, Member("feedback", Reference(p, "msg", name, "Feedback"))>>]

\* The messages an action adds to those of its file: the requests and the
\* responses of its two services, and its feedback message.
ActionParts(p, name) ==
  [SendGoalRequest   |-> <<GoalId, Member("goal", Reference(p, "action", name, "Goal"))>>,
   SendGoalResponse  |-> <<Member("accepted", [kind |-> "basic", of |-> "bool"]),
                           Member("stamp", TimeType)>>,
   GetResultRequest  |-> <<GoalId>>,
   GetResultResponse |-> <<Member("status", [kind |-> "basic", of |-> "int8"]),
                           Member("result", Reference(p, "action", name, "Result"))>>,
   FeedbackMessage   |-> <<GoalId, Member("feedback", Reference(p, "action", name, "Feedback"))>>]

\* The types one item of package p is emitted as.
Definition(p, item, part, members, constants) ==
  [path |-> <<p, item.ns, item.name, part>>, members |-> members, constants |-> constants]
ItemTypes(p, item) ==
  {Definition(p, item, Parts[item.ns][i], item.msgs[i].members, item.msgs[i].constants) :
     i \in DOMAIN item.msgs}
  \cup IF item.ns # "action" THEN {}
       ELSE {Definition(p, item, part, ActionParts(p, item.name)[part], <<>>) :
               part \in DOMAIN ActionParts(p, item.name)}

Emitted == UNION {UNION {ItemTypes(pkg.name, item) : item \in Range(pkg.items)} :
                    pkg \in Range(packages)}

\* The path an element type of package p is written as, for those that name
\* another message.
Refers(elem) == elem.kind \in {"named", "namespaced"}
Path(p, elem) == IF elem.kind = "named" THEN <<p, "msg", elem.name, "">>
                 ELSE <<elem.package, elem.ns, elem.name, elem.part>>

\* value_tokens: the assertions on the number of values, and the one of
\* proc_macro2 that a float is finite
ValuesFit(type, values) ==
  /\ type.seq = "none"    => Len(values) = 1
  /\ type.seq = "array"   => Len(values) = type.size
  /\ type.seq = "bounded" => Len(values) <= type.size
  /\ \A i \in DOMAIN values : values[i].lit = "float" => values[i].finite

EmitPanics ==
  \E d \in Emitted :
     \/ \E i \in DOMAIN d.constants : ~ValuesFit(d.constants[i].type, d.constants[i].value)
     \/ \E i \in DOMAIN d.members :
           d.members[i].default # <<>> /\ ~ValuesFit(d.members[i].type, d.members[i].default)

-----------------------------------------------------------------------------
(* The walk over the prefixes *)

GenInit ==
  /\ prefixes \in Worlds
  /\ prefix = 0
  /\ unread = {}
  /\ package = <<>>
  /\ packages = <<>>
  /\ phase = "scan"

Between == phase = "scan" /\ package = <<>> /\ unread = {}

\* A prefix without index directory is one without packages.
OpenPrefix ==
  /\ Between /\ prefix < Len(prefixes)
  /\ prefix' = prefix + 1
  /\ unread' = DOMAIN prefixes[prefix']
  /\ UNCHANGED <<prefixes, package, packages, phase>>

OpenAnyPackage(p) ==   \* mutated form of OpenPackage: none is left out
  /\ phase = "scan" /\ package = <<>>
  /\ unread' = unread \ {p}
  /\ package' = [name |-> p, items |-> <<>>, next |-> 1]
  /\ UNCHANGED <<prefixes, prefix, packages, phase>>

\* read_dir returns the entries in any order.
OpenPackage(p) ==
  /\ phase = "scan" /\ package = <<>>
  /\ unread' = unread \ {p}
  /\ package' = IF p = SkippedPackage THEN <<>>
                ELSE [name |-> p, items |-> <<>>, next |-> 1]
  /\ UNCHANGED <<prefixes, prefix, packages, phase>>

Index == prefixes[prefix][package.name]

\* A line of the index that is not an .idl file of a known namespace is
\* passed over; the first file that does not parse ends it all.
ReadEntry ==
  /\ phase = "scan" /\ package # <<>> /\ package.next <= Len(Index)
  /\ LET entry == Index[package.next]
         known == entry.ns \in DOMAIN Parts
         file == ParseFile(entry)
     IN  /\ package' = [package EXCEPT !.next = @ + 1,
                          !.items = IF known /\ file.outcome = "ok"
                                    THEN Append(@, file.item) ELSE @]
         /\ phase' = IF known /\ file.outcome # "ok" THEN file.outcome ELSE phase
  /\ UNCHANGED <<prefixes, prefix, unread, packages>>

ClosePackage ==
  /\ phase = "scan" /\ package # <<>> /\ package.next > Len(Index)
  /\ packages' = Append(packages, [name |-> package.name, items |-> package.items])
  /\ package' = <<>>
  /\ UNCHANGED <<prefixes, prefix, unread, phase>>

\* sort_by_key is stable: of two packages of one name the first stays first.
Rank(p) == CHOOSE r \in DOMAIN PackageOrder : PackageOrder[r] = p
SortByName(s) ==
  LET NoLater(j, i) == \/ Rank(s[j].name) < Rank(s[i].name)
                       \/ s[j].name = s[i].name /\ j <= i
      order == Ordered(DOMAIN s, [i \in DOMAIN s |-> {j \in DOMAIN s : NoLater(j, i)}])
  IN  [k \in DOMAIN order |-> s[order[k]]]
KeepLastByName(s) ==   \* mutated form of DedupByName: a later prefix overrides
  Pick(s, {i \in DOMAIN s : i = Len(s) \/ s[i].name # s[i + 1].name})

\* dedup_by_key drops an element whose predecessor has its key.
DedupByName(s) == Pick(s, {i \in DOMAIN s : i = 1 \/ s[i].name # s[i - 1].name})

GetPackages ==
  /\ Between /\ prefix = Len(prefixes)
  /\ packages' = DedupByName(SortByName(
                   Pick(packages, {k \in DOMAIN packages : packages[k].items # <<>>})))
  /\ phase' = "parsed"
  /\ UNCHANGED <<prefixes, prefix, unread, package>>

\* token_stream of every package
Emit ==
  /\ phase = "parsed"
  /\ phase' = IF EmitPanics THEN "panicked" ELSE "generated"
  /\ UNCHANGED <<prefixes, prefix, unread, package, packages>>

GenNext ==
  \/ OpenPrefix
  \/ \E p \in unread : OpenPackage(p)
  \/ ReadEntry
  \/ ClosePackage
  \/ GetPackages
  \/ Emit

-----------------------------------------------------------------------------
(* Properties *)

GenTypeOK ==
  /\ prefixes \in Worlds
  /\ prefix \in 0..Len(prefixes)
  /\ prefix > 0 => unread \subseteq DOMAIN prefixes[prefix]
  /\ package # <<>> => package.name \in Range(PackageOrder) \ {SkippedPackage}
  /\ \A i \in DOMAIN packages : packages[i].name \in Range(PackageOrder)
  /\ phase \in {"scan", "parsed", "generated", "failed", "panicked"}

\* The lines of an index that name a file of a known namespace.
FilesOf(index) == {k \in DOMAIN index : index[k].ns \in DOMAIN Parts}

\* The files of package p in prefix i, in the order of its index.
FilesIn(i, p) ==
  IF p \in DOMAIN prefixes[i] \ {SkippedPackage}
  THEN Pick(prefixes[i][p], FilesOf(prefixes[i][p]))
  ELSE <<>>
Labels(s) == [k \in DOMAIN s |-> <<s[k].ns, s[k].name>>]
Providers(p) == {i \in DOMAIN prefixes : FilesIn(i, p) # <<>>}

\* Whatever the order in which read_dir returns the packages: each one that
\* has a file in some prefix is there once, sorted by name, with exactly the
\* files of the first prefix that has any (an empty package hides none).
\* get_packages: the filter, the stable sort and dedup together.
FirstPrefixWins ==
  phase \in {"parsed", "generated"} =>
    LET names == Pick(PackageOrder,
                      {r \in DOMAIN PackageOrder : Providers(PackageOrder[r]) # {}})
    IN  /\ [k \in DOMAIN packages |-> packages[k].name] = names
        /\ \A k \in DOMAIN packages :
              Labels(packages[k].items)
                = Labels(FilesIn(Min(Providers(names[k])), names[k]))

\* The lines of all the files read.
LinesRead ==
  UNION {UNION {Range(file.blocks[b]) : b \in DOMAIN file.blocks} :
           file \in UNION {Range(FilesIn(i, p)) : i \in DOMAIN prefixes, p \in Range(PackageOrder)}}
DefLines == {line \in LinesRead : line.form = "def"}

\* A path some member is written with, which no emitted type has, stands in a
\* file of which no prefix (or only the skipped package) holds the message, or
\* is one of the two that all actions need; or an earlier prefix holds the
\* package too without that message: the prefixes are merged by package, not
\* by message.  (The generated code does not compile.)
Defined(i, path) ==
  \E k \in DOMAIN FilesIn(i, path[1]) :
     LET f == FilesIn(i, path[1])[k]
     IN  f.ns = path[2] /\ f.name = path[3]
ReferencesResolve ==
  phase = "generated" =>
    \A d \in Emitted : \A m \in Range(d.members) :
      LET elem == m.type.elem
          path == Path(d.path[1], elem)
      IN  Refers(elem) /\ (\A e \in Emitted : e.path # path) =>
            \/ /\ \A k \in DOMAIN prefixes : ~Defined(k, path)
               /\ \/ elem \in {UuidType, TimeType}
                  \/ \E line \in DefLines : line.name = m.name /\ line.type.elem = elem
            \/ \E k \in Providers(path[1]) :
                  ~Defined(k, path) /\ \E l \in DOMAIN prefixes : l > k /\ Defined(l, path)

\* A parsed value against the literal the file has for it: a list given to a
\* scalar is one text.
Literals(type, v) == IF type.seq = "none" THEN <<v>> ELSE Items(v)
SameValue(elem, v, w) ==
  /\ elem.kind = "string" => w.chars = IF v.lit = "text" THEN v.chars ELSE Spelling(v)
  /\ elem.kind = "basic" => IF elem.of = "bool" THEN w.val = v.val ELSE w = v

\* As many values as the type takes, integers in its range, texts within its
\* bound; except that the texts of a list may be longer than their bound.
FitsItsType(m) ==
  LET elem == m.type.elem
  IN  /\ ValuesFit(m.type, m.default)
      /\ elem.kind = "basic" /\ elem.of \in DOMAIN Bits =>
           \A k \in DOMAIN m.default : m.default[k].val \in IntRange(elem.of)
      /\ elem.kind = "string" /\ elem.max # Unbounded =>
           \/ m.type.seq # "none"
           \/ \A k \in DOMAIN m.default : Len(m.default[k].chars) <= elem.max

\* The values some line declares; except that a text loses what follows a '#'
\* and the blanks at its ends.
Altered(v) == Holds(v, "#") \/ Holds(v, " ")
AsDeclared(m) ==
  \E line \in DefLines :
     /\ line.name = m.name /\ line.type = m.type
     /\ \/ /\ Len(Literals(m.type, line.value)) = Len(m.default)
           /\ \A k \in DOMAIN m.default :
                 SameValue(m.type.elem, Literals(m.type, line.value)[k], m.default[k])
        \/ Altered(line.value)

\* An emitted default is the declared one, of the declared type.
DefaultsFit ==
  phase = "generated" =>
    \A d \in Emitted : \A m \in Range(d.members) :
      m.default # <<>> => FitsItsType(m) /\ AsDeclared(m)

\* The macro panics (instead of naming the file it cannot parse) only for a
\* line without a space, for a constant array of texts whose size is not the
\* declared one, and for a float that is not finite.  (The error that names the
\* file, phase "failed", reaches the user as a panic too, that of the unwrap at
\* lib.rs:29; prefixes are given, or the expect at lib.rs:21 panics.)
PanicsWithCause ==
  phase = "panicked" =>
    \/ \E line \in LinesRead : line.form = "word"
    \/ \E line \in DefLines :
          \/ /\ line.upper /\ line.type.seq = "array" /\ line.type.elem.kind = "string"
             /\ line.value.lit = "list" /\ Len(line.value.items) # line.type.size
          \/ /\ line.type.elem.kind = "basic" /\ line.type.elem.of \in FloatTypes
             /\ \E k \in DOMAIN Items(line.value) :
                   Items(line.value)[k].lit = "float" /\ ~Items(line.value)[k].finite

GeneratorFaithful == DefaultsFit /\ PanicsWithCause

=============================================================================
