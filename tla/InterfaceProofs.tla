--------------------------- MODULE InterfaceProofs ---------------------------
(***************************************************************************)
(* Interface for any generated types, messages, texts, QoS profiles, times *)
(* and lengths of a second: no buffer leaks or is freed twice, and the     *)
(* conversions keep what they convert.  Of the generator this uses that    *)
(* its types do not change once a value crosses; its own theorems, which   *)
(* Interface inherits, are at the end.                                     *)
(***************************************************************************)
EXTENDS Interface, MsgGenProofs

---------------------------------------------------------------------------
(***************************************************************************)
(* Division with remainder.                                                *)
(***************************************************************************)
LEMMA DivMod ==
  ASSUME NEW n \in Int, NEW d \in Nat \ {0}
  PROVE  /\ n \div d \in Int /\ n % d \in 0..(d - 1)
         /\ n = (n \div d) * d + (n % d)
OBVIOUS

LEMMA DivModUnique ==
  ASSUME NEW n \in Int, NEW d \in Nat \ {0}, NEW q \in Int, NEW r \in 0..(d - 1), n = q * d + r
  PROVE  q = n \div d /\ r = n % d
<1> DEFINE a == n \div d
           b == n % d
<1>1. a \in Int /\ b \in 0..(d - 1) /\ n = a * d + b
  BY DivMod
<1> HIDE DEF a, b
<1>2. (q - a) * d = b - r
  BY <1>1
<1>3. b - r < d /\ b - r > -d
  BY <1>1
<1>4. q = a
  BY <1>1, <1>2, <1>3
<1> QED
  BY <1>1, <1>2, <1>4 DEF a, b

LEMMA DivNat ==
  ASSUME NEW n \in Nat, NEW d \in Nat \ {0}
  PROVE  n \div d \in Nat
<1> DEFINE a == n \div d
           b == n % d
<1>1. a \in Int /\ b \in 0..(d - 1) /\ n = a * d + b
  BY DivMod
<1> HIDE DEF a, b
<1>2. a >= 0
  BY <1>1
<1> QED
  BY <1>1, <1>2 DEF a

---------------------------------------------------------------------------
(***************************************************************************)
(* QoS profiles: what the builder can ask for, and what comes back.        *)
(***************************************************************************)
Times == [sec: Nat, nsec: Nat]
Policies == {"SystemDefault", "Unknown", "BestEffort", "Reliable"}
Profiles == [history: Histories, depth: Nat, deadline: Times, others: Policies]

\* A duration that the program set, or none.
SetTimes == {Zero} \cup Durations

LEMMA PresetsOK == \A q \in Presets : q \in Profiles /\ q.deadline \in SetTimes
<1> DEFINE unknown == [Common EXCEPT !.history = "Unknown", !.others = "Unknown"]
           Fits(q) == q \in Profiles /\ q.deadline \in SetTimes
<1>1. Zero \in Times /\ Zero \in SetTimes
  BY DEF Zero, Times, SetTimes
<1>2. Fits(Common)
  BY <1>1 DEF Common, Profiles, Histories, Policies
<1>3. Fits(unknown)
  BY <1>2 DEF Profiles, Histories, Policies
<1>4. ASSUME NEW n \in Nat, NEW p \in Policies
      PROVE  Fits(KeepingLast(n, p))
  BY <1>2 DEF KeepingLast, Profiles, Histories, Policies
<1>5. "BestEffort" \in Policies /\ "Reliable" \in Policies
  BY DEF Policies
<1>6. Fits(KeepingLast(5, "BestEffort"))
  BY <1>4, <1>5
<1>7. Fits(KeepingLast(10, "Reliable")) /\ Fits(KeepingLast(1000, "Reliable"))
  BY <1>4, <1>5
<1>8. Presets = {Common, unknown, KeepingLast(5, "BestEffort"), KeepingLast(10, "Reliable"),
                 KeepingLast(1000, "Reliable")}
  BY DEF Presets
<1> HIDE DEF Fits, unknown
<1>9. \A q \in Presets : Fits(q)
  BY <1>2, <1>3, <1>6, <1>7, <1>8
<1> QED
  BY <1>9 DEF Fits

\* Every call of the builder leaves a profile.
LEMMA BuiltOK ==
  ASSUME NEW q \in Profiles, q.deadline \in SetTimes, NEW r \in Built(q)
  PROVE  r \in Profiles /\ r.deadline \in SetTimes
<1>1. CASE r \in WithHistory(q)
  <2>1. Depths \subseteq Nat
    BY InterfaceAssumption
  <2>2. \/ \E h \in Histories : r = [q EXCEPT !.history = h]
        \/ \E n \in Depths : r = [q EXCEPT !.history = "KeepLast", !.depth = n]
        \/ r = [q EXCEPT !.history = "KeepAll", !.depth = 0]
    BY <1>1, Zenon DEF WithHistory
  <2>3. CASE \E h \in Histories : r = [q EXCEPT !.history = h]
    BY <2>3 DEF Profiles
  <2>4. CASE \E n \in Depths : r = [q EXCEPT !.history = "KeepLast", !.depth = n]
    BY <2>1, <2>4 DEF Profiles, Histories
  <2>5. CASE r = [q EXCEPT !.history = "KeepAll", !.depth = 0]
    BY <2>5 DEF Profiles, Histories
  <2> QED
    BY <2>2, <2>3, <2>4, <2>5
<1>2. CASE r \in WithPolicy(q)
  BY <1>2 DEF WithPolicy, Profiles, Policies
<1>3. CASE r \in WithDuration(q)
  <2>1. PICK t \in Durations : r = [q EXCEPT !.deadline = t]
    BY <1>3 DEF WithDuration
  <2>2. t \in Times
    BY InterfaceAssumption DEF Times
  <2> QED
    BY <2>1, <2>2 DEF Profiles, SetTimes
<1> QED
  BY <1>1, <1>2, <1>3 DEF Built

Total(t) == t.sec * Second + t.nsec

\* A duration comes back with the same number of nanoseconds, less than a
\* second of them apart.
LEMMA FromRmwTimeOK ==
  ASSUME NEW t \in Times
  PROVE  /\ FromRmwTime(t) \in Times
         /\ Total(FromRmwTime(t)) = Total(t)
         /\ FromRmwTime(t).nsec < Second
<1> DEFINE s == t.sec
           n == t.nsec
           a == n \div Second
           b == n % Second
<1>1. s \in Nat /\ n \in Nat /\ Second \in Nat \ {0}
  BY InterfaceAssumption DEF Times
<1>2. a \in Nat /\ b \in 0..(Second - 1) /\ n = a * Second + b
  <2> HIDE DEF n
  <2>1. n \in Int
    BY <1>1
  <2>2. b \in 0..(Second - 1) /\ n = a * Second + b
    BY <1>1, <2>1, DivMod
  <2>3. a \in Nat
    BY <1>1, DivNat
  <2> QED
    BY <2>2, <2>3
<1>3. FromRmwTime(t) = [sec |-> s + a, nsec |-> b]
  BY DEF FromRmwTime
<1> HIDE DEF s, n, a, b
<1>4. (s + a) * Second + b = s * Second + n
  BY <1>1, <1>2
<1> QED
  BY <1>1, <1>2, <1>3, <1>4 DEF Total, Times, s, n

(***************************************************************************)
(* Reading a duration that the middleware shows never panics: the ones a   *)
(* program sets have less than a second of nanoseconds, and the longest    *)
(* one as many as a u32 takes.                                             *)
(***************************************************************************)
LEMMA NoDurationPanics ==
  ASSUME NEW t, t \in SetTimes \/ t = Longest
  PROVE  t \in Times /\ ~DurationPanics(t)
<1>1. /\ NsecMax \in Nat /\ Second \in Nat \ {0} /\ NsecMax >= Second - 1
      /\ SecMax \in Nat
      /\ Durations \subseteq [sec: Nat, nsec: 0..(Second - 1)]
  BY InterfaceAssumption
<1>2. CASE t = Zero
  BY <1>1, <1>2 DEF Zero, Times, DurationPanics
<1>3. CASE t = Longest
  BY <1>1, <1>3 DEF Longest, Times, DurationPanics
<1>4. CASE t \in Durations
  BY <1>1, <1>4 DEF Times, DurationPanics
<1> QED
  BY <1>2, <1>3, <1>4 DEF SetTimes

\* What QosFaithful says of an entity created with the profile asked.
Shows(asked, actual) ==
  /\ asked.history # "SystemDefault" => actual.history = asked.history
  /\ actual.history = "KeepLast" /\ asked.depth # 0 => actual.depth = asked.depth
  /\ actual.history = "KeepAll" => actual.depth = 0
  /\ asked.deadline # Zero => Total(actual.deadline) = Total(asked.deadline)
  /\ asked.deadline = Zero => Total(actual.deadline) \in {0, Total(Longest)}
  /\ actual.deadline.nsec < Second
  /\ asked.others # "SystemDefault" => actual.others = asked.others

\* What the middleware settles, with names for its choices.
SettledDepths(q) == IF q.depth = 0 THEN {0, 1} ELSE {q.depth}
SettledTimes(q) == IF q.deadline = Zero THEN {Zero, Longest} ELSE {q.deadline}
SettledTo(q, n, t) ==
  [q EXCEPT !.history = IF @ = "SystemDefault" THEN "KeepLast" ELSE @,
            !.others = IF @ = "SystemDefault" THEN "Reliable" ELSE @,
            !.depth = n, !.deadline = t]

LEMMA SettledSet ==
  ASSUME NEW q
  PROVE  Settled(q) = {SettledTo(q, n, t) : n \in SettledDepths(q), t \in SettledTimes(q)}
BY SMT DEF Settled, SettledTo, SettledDepths, SettledTimes

LEMMA SettledOK ==
  ASSUME NEW q \in Profiles, q.deadline \in SetTimes, q.history # "Unknown",
         NEW r \in Settled(q)
  PROVE  /\ ~DurationPanics(r.deadline)
         /\ Shows(q, FromRmw(r))
<1>1. PICK n \in Nat, t \in Times :
        /\ r = [q EXCEPT !.history = IF @ = "SystemDefault" THEN "KeepLast" ELSE @,
                         !.others = IF @ = "SystemDefault" THEN "Reliable" ELSE @,
                         !.depth = n, !.deadline = t]
        /\ q.depth # 0 => n = q.depth
        /\ IF q.deadline = Zero THEN t \in {Zero, Longest} ELSE t = q.deadline
  <2>1. Zero \in Times /\ Longest \in Times /\ q.deadline \in Times
    BY NoDurationPanics DEF SetTimes
  <2>2. PICK n \in SettledDepths(q), t \in SettledTimes(q) : r = SettledTo(q, n, t)
    <3>1. r \in {SettledTo(q, n, t) : n \in SettledDepths(q), t \in SettledTimes(q)}
      BY SettledSet
    <3> QED
      BY <3>1
  <2>3. /\ n \in IF q.depth = 0 THEN {0, 1} ELSE {q.depth}
        /\ t \in IF q.deadline = Zero THEN {Zero, Longest} ELSE {q.deadline}
    BY <2>2 DEF SettledDepths, SettledTimes
  <2>4. n \in Nat /\ (q.depth # 0 => n = q.depth)
    BY <2>3 DEF Profiles
  <2>5. t \in Times /\ IF q.deadline = Zero THEN t \in {Zero, Longest} ELSE t = q.deadline
    BY <2>1, <2>3
  <2> QED
    BY <2>2, <2>4, <2>5 DEF SettledTo
<1>2. /\ r.history = IF q.history = "SystemDefault" THEN "KeepLast" ELSE q.history
      /\ r.others = IF q.others = "SystemDefault" THEN "Reliable" ELSE q.others
      /\ r.depth = n /\ r.deadline = t
      /\ r \in [history: Histories, depth: Nat, deadline: Times, others: Policies]
  BY <1>1 DEF Profiles, Histories, Policies
<1>3. t \in SetTimes \/ t = Longest
  BY <1>1 DEF SetTimes
<1>4. /\ FromRmw(r).history = IF r.history = "KeepAll" THEN "KeepAll" ELSE "KeepLast"
      /\ FromRmw(r).depth = IF r.history = "KeepAll" THEN 0 ELSE r.depth
      /\ FromRmw(r).deadline = FromRmwTime(t)
      /\ FromRmw(r).others = r.others
  BY <1>2 DEF FromRmw
<1>5. Total(Zero) = 0
  BY InterfaceAssumption DEF Total, Zero
<1>6. q.history \in {"SystemDefault", "KeepLast", "KeepAll"}
  BY DEF Profiles, Histories
<1>7. Total(FromRmwTime(t)) = Total(t) /\ FromRmwTime(t).nsec < Second
  BY FromRmwTimeOK
<1>8. ~DurationPanics(r.deadline)
  BY <1>2, <1>3, NoDurationPanics
<1>9. /\ q.deadline # Zero => Total(FromRmwTime(t)) = Total(q.deadline)
      /\ q.deadline = Zero => Total(FromRmwTime(t)) \in {0, Total(Longest)}
  BY <1>1, <1>5, <1>7
<1> QED
  BY <1>1, <1>2, <1>4, <1>6, <1>7, <1>8, <1>9 DEF Shows

---------------------------------------------------------------------------
(***************************************************************************)
(* Time: any whole number of nanoseconds.                                  *)
(***************************************************************************)
LEMMA TimeOK ==
  ASSUME NEW n \in Int
  PROVE  LET floor == (n - (n % Second)) \div Second
             whole == n < 0 /\ n % Second = 0
             msg == ToRosMsg(n)
         IN  /\ msg.sec = IF whole THEN floor - 1 ELSE floor
             /\ FromRosMsg(msg) = n
             /\ msg.nsec \in 0..Second
             /\ msg.nsec = Second <=> whole
<1> DEFINE d == Second
           a == n \div d
           b == n % d
           m == -n
           e == m \div d
           f == m % d
           floor == (n - (n % Second)) \div Second
           msg == ToRosMsg(n)
<1>1. d \in Nat \ {0} /\ m \in Int
  BY InterfaceAssumption
<1>2. /\ a \in Int /\ b \in 0..(d - 1) /\ n = a * d + b
      /\ e \in Int /\ f \in 0..(d - 1) /\ m = e * d + f
  BY <1>1, DivMod
<1>3. floor = a
  <2> HIDE DEF a, b
  <2>1. n - b \in Int /\ n - b = a * d + 0 /\ 0 \in 0..(d - 1)
    BY <1>1, <1>2
  <2>2. a = (n - b) \div d
    BY <1>1, <1>2, <2>1, DivModUnique
  <2> QED
    BY <2>2 DEF b
<1>4. CASE n >= 0
  <2>1. msg = [sec |-> a, nsec |-> b]
    BY <1>4 DEF ToRosMsg, Quot, Rest
  <2> HIDE DEF a, b, msg, floor
  <2>2. FromRosMsg(msg) = n
    BY <1>1, <1>2, <2>1 DEF FromRosMsg
  <2>3. msg.sec = floor /\ msg.nsec \in 0..d /\ msg.nsec # d
    BY <1>1, <1>2, <1>3, <2>1
  <2> QED
    BY <1>4, <2>2, <2>3 DEF msg, floor
<1>5. CASE n < 0
  <2>1. msg = [sec |-> -e - 1, nsec |-> -f + d]
    BY <1>5 DEF ToRosMsg, Quot, Rest, Abs
  <2>2. m = -n
    OBVIOUS
  <2> HIDE DEF a, b, e, f, m, msg, floor
  <2>3. FromRosMsg(msg) = (-e - 1) * d + (-f + d)
    BY <2>1 DEF FromRosMsg
  <2>4. (-e - 1) * d + (-f + d) = n
    BY <1>1, <1>2, <2>2
  <2>5. CASE f = 0
    <3>1. n = (-e) * d + 0 /\ -e \in Int /\ 0 \in 0..(d - 1)
      BY <1>1, <1>2, <2>2, <2>5
    <3>2. -e = a /\ 0 = b
      BY <1>1, <3>1, DivModUnique DEF a, b
    <3>3. msg.sec = floor - 1 /\ msg.nsec = d
      BY <1>1, <1>2, <1>3, <2>1, <2>5, <3>2
    <3> QED
      BY <1>1, <1>5, <2>3, <2>4, <3>2, <3>3 DEF msg, floor, b
  <2>6. CASE f # 0
    <3>1. n = (-e - 1) * d + (-f + d) /\ -e - 1 \in Int /\ -f + d \in 0..(d - 1)
      BY <1>1, <1>2, <2>4, <2>6
    <3>2. -e - 1 = a /\ -f + d = b
      BY <1>1, <3>1, DivModUnique DEF a, b
    <3>3. msg.sec = floor /\ msg.nsec = b /\ b # 0 /\ b \in 0..(d - 1)
      BY <1>1, <1>2, <1>3, <2>1, <2>6, <3>2
    <3> QED
      BY <1>1, <1>5, <2>3, <2>4, <3>3 DEF msg, floor, b
  <2> QED
    BY <1>2, <2>5, <2>6
<1> QED
  BY <1>4, <1>5

---------------------------------------------------------------------------
(***************************************************************************)
(* Return codes.                                                           *)
(***************************************************************************)
LEMMA ToldOK ==
  ASSUME NEW code \in Codes, NEW explained \in BOOLEAN
  PROVE  LET told == Told(code, explained)
         IN  /\ told = "OK" <=> code = "OK"
             /\ told \notin {"RUNTIME_ERROR", "ERROR", code} =>
                  code = "SERVICE_INVALID" /\ told = "SERVICE_NAME_INVALID"
             /\ told = "ERROR" => code \in Unmatched
<1>1. ErrorFor(code) = IF code \in Unmatched THEN "ERROR"
                       ELSE IF code = "SERVICE_INVALID" THEN "SERVICE_NAME_INVALID" ELSE code
  BY DEF ErrorFor, Unmatched
<1>2. "OK" \notin Unmatched /\ "ERROR" \in Unmatched /\ code # "RUNTIME_ERROR"
  BY DEF Unmatched, Codes
<1> QED
  BY <1>1, <1>2 DEF Told

---------------------------------------------------------------------------
(***************************************************************************)
(* Texts: what Before leaves of one, and that of the copy with the final   *)
(* NUL it leaves the same.                                                 *)
(***************************************************************************)
Characters == {"c", "nul", "bad"}

\* Where the first c of a text is, or the end.
Ends(t, c) == {i \in DOMAIN t : t[i] = c} \cup {Len(t) + 1}

LEMMA FirstEnd ==
  ASSUME NEW t \in Seq(Characters), NEW c
  PROVE  /\ Min(Ends(t, c)) \in 1..(Len(t) + 1)
         /\ Min(Ends(t, c)) \in Ends(t, c)
         /\ \A i \in 1..(Min(Ends(t, c)) - 1) : i \in DOMAIN t /\ t[i] # c
         /\ Before(t, c) = SubSeq(t, 1, Min(Ends(t, c)) - 1)
<1> DEFINE S == Ends(t, c)
           k == Min(S)
<1>1. Len(t) \in Nat /\ DOMAIN t = 1..Len(t)
  BY LenProperties
<1>2. S \in SUBSET Nat /\ S # {} /\ S \subseteq 1..(Len(t) + 1)
  BY <1>1 DEF Ends
<1> HIDE DEF S
<1>3. k \in S /\ \A y \in S : k <= y
  BY <1>2, LeastOf
<1>4. Before(t, c) = SubSeq(t, 1, k - 1)
  BY DEF Before, S, Ends
<1> HIDE DEF k
<1>5. ASSUME NEW i \in 1..(k - 1)
      PROVE  i \in DOMAIN t /\ t[i] # c
  <2>1. i \in DOMAIN t
    BY <1>1, <1>2, <1>3
  <2>2. i \notin S
    BY <1>2, <1>3
  <2> QED
    BY <2>1, <2>2 DEF S, Ends
<1> QED
  BY <1>2, <1>3, <1>4, <1>5 DEF S, k

LEMMA BeforeOK ==
  ASSUME NEW t \in Seq(Characters), NEW c
  PROVE  /\ Before(t, c) \in Seq(Characters)
         /\ \A x \in Range(Before(t, c)) : x \in Range(t)
         /\ c \notin Range(t) => Before(t, c) = t
<1> DEFINE k == Min(Ends(t, c))
           b == Before(t, c)
<1>1. /\ k \in 1..(Len(t) + 1) /\ k \in Ends(t, c)
      /\ \A i \in 1..(k - 1) : i \in DOMAIN t /\ t[i] # c
      /\ b = SubSeq(t, 1, k - 1)
  BY FirstEnd
<1>2. Len(t) \in Nat /\ DOMAIN t = 1..Len(t) /\ \A i \in 1..Len(t) : t[i] \in Characters
  BY LenProperties, ElementOfSeq
<1> HIDE DEF k, b
<1>3. /\ b \in Seq(Characters)
      /\ Len(b) = k - 1
      /\ \A i \in 1..(k - 1) : b[i] = t[i]
  <2>1. 1 \in Int /\ k - 1 \in Int /\ k - 1 <= Len(t) /\ \A i \in 1..(k - 1) : t[i] \in Characters
    BY <1>1, <1>2
  <2> DEFINE n == k - 1
  <2>2. n \in Int /\ \A i \in 1..n : t[i] \in Characters
    BY <2>1
  <2>3. b = SubSeq(t, 1, n)
    BY <1>1
  <2>4. n >= 0
    BY <1>1, <1>2
  <2> HIDE DEF n
  <2>5. /\ SubSeq(t, 1, n) \in Seq(Characters)
        /\ Len(SubSeq(t, 1, n)) = IF 1 <= n THEN n - 1 + 1 ELSE 0
        /\ \A i \in 1..(n - 1 + 1) : SubSeq(t, 1, n)[i] = t[1 + i - 1]
    BY <2>1, <2>2, SubSeqProperties
  <2>6. b \in Seq(Characters) /\ Len(b) = n /\ \A i \in 1..n : b[i] = t[i]
    BY <2>2, <2>3, <2>4, <2>5
  <2> QED
    BY <2>6 DEF n
<1>4. \A x \in Range(b) : x \in Range(t)
  <2>1. DOMAIN b = 1..(k - 1)
    BY <1>3, LenProperties
  <2> QED
    BY <1>1, <1>3, <2>1 DEF Range
<1>5. ASSUME c \notin Range(t)
      PROVE  b = t
  <2>1. k = Len(t) + 1
    BY <1>1, <1>5 DEF Ends, Range
  <2>2. b = SubSeq(t, 1, Len(t))
    BY <1>1, <1>2, <2>1
  <2> QED
    BY <2>2, SubSeqFull
<1> QED
  BY <1>3, <1>4, <1>5 DEF b

\* The final NUL makes no difference to where the text ends.
LEMMA BeforeFinalNul ==
  ASSUME NEW t \in Seq(Characters)
  PROVE  Before(Append(t, "nul"), "nul") = Before(t, "nul")
<1> DEFINE c == "nul"
           u == Append(t, c)
           k == Min(Ends(t, c))
           l == Min(Ends(u, c))
<1>1. /\ u \in Seq(Characters)
      /\ Len(u) = Len(t) + 1
      /\ Len(t) \in Nat
      /\ DOMAIN t = 1..Len(t)
      /\ DOMAIN u = 1..(Len(t) + 1)
      /\ \A i \in 1..Len(t) : u[i] = t[i]
      /\ u[Len(t) + 1] = c
  <2>1. c \in Characters
    BY DEF Characters
  <2> HIDE DEF c
  <2> QED
    BY <2>1, AppendProperties, LenProperties
<1> HIDE DEF c, u
<1>2. /\ k \in 1..(Len(t) + 1) /\ k \in Ends(t, c)
      /\ \A i \in 1..(k - 1) : i \in DOMAIN t /\ t[i] # c
      /\ Before(t, c) = SubSeq(t, 1, k - 1)
  BY FirstEnd
<1>3. /\ l \in 1..(Len(u) + 1) /\ l \in Ends(u, c)
      /\ \A i \in 1..(l - 1) : i \in DOMAIN u /\ u[i] # c
      /\ Before(u, c) = SubSeq(u, 1, l - 1)
  BY <1>1, FirstEnd
<1> HIDE DEF k, l
<1>4. l = k
  <2>1. u[k] = c /\ k \in Nat
    BY <1>1, <1>2 DEF Ends
  <2>2. ~(k < l)
    BY <1>1, <1>3, <2>1, <1>2
  <2>3. ~(l < k)
    <3>1. SUFFICES ASSUME l < k PROVE FALSE
      OBVIOUS
    <3>2. l \in 1..(k - 1) /\ l \in 1..Len(t)
      BY <1>1, <1>2, <1>3, <3>1
    <3>3. u[l] # c /\ l # Len(u) + 1
      BY <1>1, <1>2, <3>2
    <3> QED
      BY <1>3, <3>3 DEF Ends
  <2> QED
    BY <1>1, <1>2, <1>3, <2>2, <2>3
<1>5. u = t \o <<c>> /\ <<c>> \in Seq(Characters)
  <2>1. c \in Characters
    BY DEF Characters, c
  <2> QED
    BY <2>1, AppendIsConcat DEF u
<1>6. SubSeq(u, 1, k - 1) = SubSeq(t, 1, k - 1)
  <2>1. CASE k = 1
    <3>1. 1 \in Int /\ 0 \in Int /\ 0 < 1
      OBVIOUS
    <3>2. SubSeq(u, 1, 0) = <<>> /\ SubSeq(t, 1, 0) = <<>>
      BY <3>1, SubSeqEmpty
    <3> QED
      BY <2>1, <3>2
  <2>2. CASE k # 1
    <3> DEFINE n == k - 1
    <3>1. 1 \in 1..Len(t) /\ n \in 1..Len(t)
      BY <1>1, <1>2, <2>2
    <3> HIDE DEF n
    <3>2. SubSeq(t \o <<c>>, 1, n) = SubSeq(t, 1, n)
      BY <1>5, <3>1, SubSeqOfConcat1
    <3> QED
      BY <1>5, <3>2 DEF n
  <2> QED
    BY <2>1, <2>2
<1>7. Before(u, c) = Before(t, c)
  BY <1>2, <1>3, <1>4, <1>6
<1> QED
  BY <1>7 DEF u, c

\* A text and its C form, read back: it ends at the first NUL.
Cut(t, x) == IF t.kind = "string" THEN Before(x, "nul") ELSE x

LEMMA TextThere ==
  ASSUME NEW t, NEW x, t.kind = "string" => x \in Texts
  PROVE  TextToRust(t, TextToC(t, x)) = Cut(t, x)
<1>1. CASE t.kind = "string"
  <2>1. x \in Seq(Characters)
    BY <1>1, InterfaceAssumption DEF Characters
  <2>2. TextToC(t, x) = [size |-> Len(x), data |-> Append(x, "nul")]
    BY <1>1 DEF TextToC
  <2>3. CASE Len(x) = 0
    <3>1. x = <<>>
      BY <2>1, <2>3, EmptySeq
    <3>2. Before(x, "nul") = x
      <4>1. "nul" \notin Range(x)
        BY <3>1 DEF Range
      <4> QED
        BY <2>1, <4>1, BeforeOK
    <3> QED
      BY <1>1, <2>2, <2>3, <3>1, <3>2 DEF TextToRust, Cut
  <2>4. CASE Len(x) # 0
    BY <1>1, <2>1, <2>2, <2>4, BeforeFinalNul DEF TextToRust, Cut
  <2> QED
    BY <2>3, <2>4
<1>2. CASE t.kind # "string"
  BY <1>2 DEF TextToRust, TextToC, Cut
<1> QED
  BY <1>1, <1>2

---------------------------------------------------------------------------
(***************************************************************************)
(* Messages: the leaves of a value, and the value read back.               *)
(***************************************************************************)
LEMMA ValueShape ==
  ASSUME NEW d, NEW v \in Values(d), NEW m \in DOMAIN v
  PROVE  /\ \A i \in DOMAIN v[m] :
              /\ DOMAIN v[m][i] = DOMAIN LeafTypes(d, m)
              /\ \A j \in DOMAIN LeafTypes(d, m) :
                   LeafTypes(d, m)[j].kind = "string" => v[m][i][j] \in Texts
         /\ v[m] = [i \in DOMAIN v[m] |-> v[m][i]]
         /\ Sequence(d, m) => \E n \in Nat : DOMAIN v[m] = 1..n
<1>1. m \in DOMAIN d.members /\ v[m] \in MemberValues(d, m)
  BY DEF Values
<1>2. PICK I : v[m] \in [I -> ElemValues(d, m)] /\ (Sequence(d, m) => \E n \in Nat : I = 1..n)
  <2>1. CASE d.members[m].type.seq = "none"
    BY <1>1, <2>1 DEF MemberValues, Sequence
  <2>2. CASE d.members[m].type.seq = "array"
    BY <1>1, <2>2 DEF MemberValues, Sequence
  <2>3. CASE d.members[m].type.seq \notin {"none", "array"}
    <3>1. v[m] \in UNION {[1..n -> ElemValues(d, m)] : n \in 0..MaxLen}
      BY <1>1, <2>3 DEF MemberValues
    <3>2. PICK n \in 0..MaxLen : v[m] \in [1..n -> ElemValues(d, m)]
      BY <3>1
    <3>3. n \in Nat
      BY InterfaceAssumption
    <3> QED
      BY <3>2, <3>3
  <2> QED
    BY <2>1, <2>2, <2>3
<1>3. ASSUME NEW x \in ElemValues(d, m)
      PROVE  /\ DOMAIN x = DOMAIN LeafTypes(d, m)
             /\ \A j \in DOMAIN LeafTypes(d, m) :
                  LeafTypes(d, m)[j].kind = "string" => x[j] \in Texts
  BY DEF ElemValues, LeafValues
<1>4. \A i \in DOMAIN v[m] : v[m][i] \in ElemValues(d, m)
  BY <1>2
<1>5. v[m] = [i \in DOMAIN v[m] |-> v[m][i]]
  BY <1>2
<1>6. Sequence(d, m) => \E n \in Nat : DOMAIN v[m] = 1..n
  BY <1>2
<1> QED
  BY <1>3, <1>4, <1>5, <1>6

LEMMA TextPlaceIs ==
  ASSUME NEW d, NEW v, NEW p \in TextPlaces(d, v)
  PROVE  \E m \in DOMAIN v : \E i \in DOMAIN v[m] : \E j \in DOMAIN LeafTypes(d, m) :
            /\ p = <<<<m, i>>, j>>
            /\ LeafTypes(d, m)[j].kind = "string"
            /\ TextAt(v, p) = v[m][i][j]
            /\ Narrow(d, p) <=> ~LeafTypes(d, m)[j].wide
<1>1. p \in Leaves(d, v) /\ LeafTypes(d, p[1][1])[p[2]].kind = "string"
  BY DEF TextPlaces
<1>2. PICK m \in DOMAIN v : p \in ({m} \X DOMAIN v[m]) \X DOMAIN LeafTypes(d, m)
  BY <1>1 DEF Leaves
<1>3. PICK i \in DOMAIN v[m], j \in DOMAIN LeafTypes(d, m) : p = <<<<m, i>>, j>>
  <2>1. p[1] \in {m} \X DOMAIN v[m] /\ p[2] \in DOMAIN LeafTypes(d, m) /\ p = <<p[1], p[2]>>
    BY <1>2
  <2>2. p[1][1] = m /\ p[1][2] \in DOMAIN v[m] /\ p[1] = <<p[1][1], p[1][2]>>
    BY <2>1
  <2>3. p = <<<<m, p[1][2]>>, p[2]>>
    BY <2>1, <2>2
  <2> QED
    BY <2>1, <2>2, <2>3, Zenon
<1>4. p[1][1] = m /\ p[1][2] = i /\ p[2] = j
  BY <1>3
<1> QED
  BY <1>1, <1>3, <1>4 DEF TextAt, Narrow

LEMMA TextPlaceThere ==
  ASSUME NEW d, NEW v, NEW m \in DOMAIN v, NEW i \in DOMAIN v[m],
         NEW j \in DOMAIN LeafTypes(d, m), LeafTypes(d, m)[j].kind = "string"
  PROVE  /\ <<<<m, i>>, j>> \in TextPlaces(d, v)
         /\ TextAt(v, <<<<m, i>>, j>>) = v[m][i][j]
<1> DEFINE p == <<<<m, i>>, j>>
<1>1. p[1][1] = m /\ p[1][2] = i /\ p[2] = j
  OBVIOUS
<1>2. p \in ({m} \X DOMAIN v[m]) \X DOMAIN LeafTypes(d, m)
  OBVIOUS
<1> HIDE DEF p
<1>3. p \in Leaves(d, v)
  BY <1>2 DEF Leaves
<1>4. p \in TextPlaces(d, v) /\ TextAt(v, p) = v[m][i][j]
  BY <1>1, <1>3 DEF TextPlaces, TextAt
<1> QED
  BY <1>4 DEF p

\* The texts of a value are of the texts sent.
LEMMA TextsOfValue ==
  ASSUME NEW d, NEW v \in Values(d), NEW p \in TextPlaces(d, v)
  PROVE  TextAt(v, p) \in Seq(Characters)
<1>1. PICK m \in DOMAIN v : \E i \in DOMAIN v[m] : \E j \in DOMAIN LeafTypes(d, m) :
        LeafTypes(d, m)[j].kind = "string" /\ TextAt(v, p) = v[m][i][j]
  BY TextPlaceIs
<1>2. TextAt(v, p) \in Texts
  BY <1>1, ValueShape
<1> QED
  BY <1>2, InterfaceAssumption DEF Characters

\* from_raw after to_raw_ref: what was sent, each text up to its first NUL.
LEMMA RoundTrip ==
  ASSUME NEW d, NEW v \in Values(d)
  PROVE  FromRaw(d, ToRawRef(d, v)) = Mapped(d, v, Cut)
<1> DEFINE c == [m \in DOMAIN v |-> [i \in DOMAIN v[m] |->
                   [j \in DOMAIN v[m][i] |-> TextToC(LeafTypes(d, m)[j], v[m][i][j])]]]
           w == ToRawRef(d, v)
           u == [m \in DOMAIN w |-> IF Sequence(d, m) THEN SubSeq(w[m].data, 1, w[m].size)
                                    ELSE w[m]]
<1>1. w = [m \in DOMAIN v |->
             IF Sequence(d, m) THEN [size |-> Len(v[m]), capacity |-> Len(v[m]), data |-> c[m]]
             ELSE c[m]]
  BY DEF ToRawRef, Mapped
<1>2. FromRaw(d, w) = [m \in DOMAIN u |-> [i \in DOMAIN u[m] |->
                         [j \in DOMAIN u[m][i] |-> TextToRust(LeafTypes(d, m)[j], u[m][i][j])]]]
  BY DEF FromRaw, Mapped
<1>3. DOMAIN c = DOMAIN v /\ \A m \in DOMAIN v : DOMAIN c[m] = DOMAIN v[m]
  OBVIOUS
<1>4. u = c
  <2> HIDE DEF c, w
  <2>1. DOMAIN u = DOMAIN v
    BY <1>1
  <2>2. ASSUME NEW m \in DOMAIN v
        PROVE  u[m] = c[m]
    <3>1. CASE Sequence(d, m)
      <4>1. PICK n \in Nat : DOMAIN v[m] = 1..n
        BY <3>1, ValueShape
      <4>2. v[m] = [i \in 1..n |-> v[m][i]] /\ c[m] = [i \in 1..n |-> c[m][i]]
        <5>1. v[m] = [i \in 1..n |-> v[m][i]]
          BY <4>1, ValueShape
        <5>2. c[m] = [i \in 1..n |-> c[m][i]]
          BY <4>1 DEF c
        <5> QED
          BY <5>1, <5>2
      <4> DEFINE a == v[m]
                 b == c[m]
                 S == {a[i] : i \in 1..n} \cup {b[i] : i \in 1..n}
      <4> HIDE DEF a, b
      <4>3. a \in [1..n -> S] /\ b \in [1..n -> S]
        BY <4>2 DEF a, b
      <4> HIDE DEF S
      <4>4. a \in Seq(S) /\ b \in Seq(S) /\ Len(a) = n /\ Len(b) = n
        BY <4>3, SeqDef, LenProperties
      <4>5. SubSeq(b, 1, Len(a)) = b
        BY <4>4, SubSeqFull
      <4>6. w[m].data = b /\ w[m].size = Len(a)
        BY <1>1, <3>1 DEF a, b
      <4>7. u[m] = SubSeq(w[m].data, 1, w[m].size)
        BY <2>1, <3>1
      <4> QED
        BY <4>5, <4>6, <4>7 DEF b
    <3>2. CASE ~Sequence(d, m)
      BY <1>1, <3>2
    <3> QED
      BY <3>1, <3>2
  <2> HIDE DEF u
  <2>3. u = [m \in DOMAIN v |-> u[m]] /\ c = [m \in DOMAIN v |-> c[m]]
    BY <2>1 DEF u, c
  <2> QED
    BY <2>2, <2>3
<1>5. ASSUME NEW m \in DOMAIN v, NEW i \in DOMAIN v[m], NEW j \in DOMAIN v[m][i]
      PROVE  TextToRust(LeafTypes(d, m)[j], c[m][i][j]) = Cut(LeafTypes(d, m)[j], v[m][i][j])
  <2>1. c[m][i][j] = TextToC(LeafTypes(d, m)[j], v[m][i][j])
    OBVIOUS
  <2>2. LeafTypes(d, m)[j].kind = "string" => v[m][i][j] \in Texts
    BY ValueShape
  <2> QED
    BY <2>1, <2>2, TextThere
<1>6. \A m \in DOMAIN v : \A i \in DOMAIN v[m] : DOMAIN c[m][i] = DOMAIN v[m][i]
  OBVIOUS
<1> HIDE DEF c, u, w
<1>7. FromRaw(d, w) = [m \in DOMAIN v |-> [i \in DOMAIN v[m] |->
                         [j \in DOMAIN v[m][i] |-> Cut(LeafTypes(d, m)[j], v[m][i][j])]]]
  BY <1>2, <1>3, <1>4, <1>5, <1>6
<1>8. Mapped(d, v, Cut) = [m \in DOMAIN v |-> [i \in DOMAIN v[m] |->
                         [j \in DOMAIN v[m][i] |-> Cut(LeafTypes(d, m)[j], v[m][i][j])]]]
  BY DEF Mapped
<1> QED
  BY <1>7, <1>8 DEF w

\* What comes back of a text that a String of Rust held is what was sent.
LEMMA NoNulNoCut ==
  ASSUME NEW d, NEW v \in Values(d), ~ToRawRefPanics(d, v),
         NEW m \in DOMAIN v, NEW i \in DOMAIN v[m], NEW j \in DOMAIN LeafTypes(d, m)
  PROVE  Cut(LeafTypes(d, m)[j], v[m][i][j]) = v[m][i][j]
<1> DEFINE t == LeafTypes(d, m)[j]
           x == v[m][i][j]
           c == "nul"
           p == <<<<m, i>>, j>>
<1>1. CASE t.kind = "string"
  <2>1. p \in TextPlaces(d, v) /\ TextAt(v, p) = x
    BY <1>1, TextPlaceThere
  <2> HIDE DEF p
  <2>2. c \notin Range(x) /\ x \in Seq(Characters)
    BY <2>1, TextsOfValue DEF ToRawRefPanics, c
  <2>3. Cut(t, x) = Before(x, c)
    BY <1>1 DEF Cut
  <2> HIDE DEF t, x, c
  <2>4. Before(x, c) = x
    BY <2>2, BeforeOK
  <2> QED
    BY <2>3, <2>4 DEF t, x
<1>2. CASE t.kind # "string"
  BY <1>2 DEF Cut
<1> QED
  BY <1>1, <1>2

\* from_raw panics only at characters that are no UTF-8, which Rust never sends.
LEMMA BadText ==
  ASSUME NEW d, NEW v \in Values(d), FromRawPanics(d, v)
  PROVE  /\ \E p \in TextPlaces(d, v) : Narrow(d, p) /\ "bad" \in Range(TextAt(v, p))
         /\ ~RustValue(d, v)
<1> DEFINE c == "nul"
           b == "bad"
<1>1. PICK p \in TextPlaces(d, v) : Narrow(d, p) /\ b \in Range(Before(TextAt(v, p), c))
  BY DEF FromRawPanics
<1> DEFINE x == TextAt(v, p)
<1>2. x \in Seq(Characters)
  BY TextsOfValue
<1>3. b \in Range(x)
  <2> HIDE DEF b, c, x
  <2>1. b \in Range(Before(x, c))
    BY <1>1 DEF x
  <2> QED
    BY <1>2, <2>1, BeforeOK
<1> QED
  BY <1>1, <1>3 DEF RustValue

\* The places of the texts in the message that comes back, and its texts.
LEMMA TextsReceived ==
  ASSUME NEW d, NEW v \in Values(d), NEW g, g = Mapped(d, v, Cut), NEW p \in TextPlaces(d, g)
  PROVE  p \in TextPlaces(d, v) /\ TextAt(g, p) = Before(TextAt(v, p), "nul")
<1>1. g = [m \in DOMAIN v |-> [i \in DOMAIN v[m] |->
             [j \in DOMAIN v[m][i] |-> Cut(LeafTypes(d, m)[j], v[m][i][j])]]]
  BY DEF Mapped
<1>2. PICK m \in DOMAIN g : \E i \in DOMAIN g[m] : \E j \in DOMAIN LeafTypes(d, m) :
        /\ p = <<<<m, i>>, j>>
        /\ LeafTypes(d, m)[j].kind = "string"
        /\ TextAt(g, p) = g[m][i][j]
  BY TextPlaceIs
<1>3. PICK i \in DOMAIN g[m] : \E j \in DOMAIN LeafTypes(d, m) :
        /\ p = <<<<m, i>>, j>>
        /\ LeafTypes(d, m)[j].kind = "string"
        /\ TextAt(g, p) = g[m][i][j]
  BY <1>2
<1>4. PICK j \in DOMAIN LeafTypes(d, m) :
        /\ p = <<<<m, i>>, j>>
        /\ LeafTypes(d, m)[j].kind = "string"
        /\ TextAt(g, p) = g[m][i][j]
  BY <1>3
<1>5. m \in DOMAIN v /\ i \in DOMAIN v[m] /\ DOMAIN v[m][i] = DOMAIN LeafTypes(d, m)
  <2>1. m \in DOMAIN v /\ i \in DOMAIN v[m]
    BY <1>1
  <2> QED
    BY <2>1, ValueShape
<1>6. g[m][i][j] = Cut(LeafTypes(d, m)[j], v[m][i][j])
  BY <1>1, <1>5
<1>7. <<<<m, i>>, j>> \in TextPlaces(d, v) /\ TextAt(v, <<<<m, i>>, j>>) = v[m][i][j]
  BY <1>4, <1>5, TextPlaceThere
<1> QED
  BY <1>4, <1>6, <1>7 DEF Cut

---------------------------------------------------------------------------
(***************************************************************************)
(* The inductive invariant: values cross once the types are there, what    *)
(* crosses is a record of its kind, and a message is on the wire what was  *)
(* given to to_raw_ref.                                                    *)
(***************************************************************************)
PhaseInv == crossing # None => phase = "generated"

ShapeInv ==
  /\ crossing.kind = "message" =>
       crossing = [kind |-> "message", def |-> crossing.def, value |-> crossing.value,
                   from |-> crossing.from, live |-> crossing.live,
                   status |-> crossing.status, wire |-> crossing.wire, got |-> crossing.got]
  /\ crossing.kind = "qos" =>
       /\ crossing = [kind |-> "qos", asked |-> crossing.asked, calls |-> crossing.calls,
                      status |-> crossing.status, actual |-> crossing.actual]
       /\ crossing.asked \in Profiles
       /\ crossing.asked.deadline \in SetTimes

MessageInv ==
  crossing.kind = "message" =>
    LET d == crossing.def
        v == crossing.value
    IN  /\ v \in Values(d)
        /\ crossing.from \in {"rust", "c"}
        /\ crossing.from = "rust" => RustValue(d, v)
        /\ crossing.from = "rust" => (crossing.status = "panicked" <=> ToRawRefPanics(d, v))
        /\ crossing.from = "c" /\ crossing.status = "panicked" => FromRawPanics(d, v)
        /\ crossing.status \in {"published", "taken"} => crossing.wire = ToRawRef(d, v)
        /\ crossing.status = "received" =>
             crossing.got = FromRaw(d, ToRawRef(d, v)) /\ ~FromRawPanics(d, v)

IInv ==
  /\ PhaseInv
  /\ ShapeInv
  /\ MessageInv
  /\ HeapExact
  /\ ConversionsFaithful

\* What a message promises follows.
LEMMA RoundTripFollows ==
  ASSUME MessageInv
  PROVE  MessageRoundTrip
<1>1. SUFFICES ASSUME crossing.kind = "message"
               PROVE  MessageRoundTrip
  BY DEF MessageRoundTrip
<1> DEFINE d == crossing.def
           v == crossing.value
           g == crossing.got
<1>2. /\ v \in Values(d)
      /\ crossing.from \in {"rust", "c"}
      /\ crossing.from = "rust" => (crossing.status = "panicked" <=> ToRawRefPanics(d, v))
      /\ crossing.from = "c" /\ crossing.status = "panicked" => FromRawPanics(d, v)
      /\ crossing.status = "received" => g = FromRaw(d, ToRawRef(d, v)) /\ ~FromRawPanics(d, v)
  BY <1>1 DEF MessageInv
<1>3. ASSUME crossing.status = "received"
      PROVE  /\ g = Mapped(d, v, LAMBDA t, x :
                      IF t.kind = "string" /\ crossing.from = "c" THEN Before(x, "nul") ELSE x)
             /\ \A p \in TextPlaces(d, g) : Narrow(d, p) => "bad" \notin Range(TextAt(g, p))
  <2>1. g = Mapped(d, v, Cut) /\ ~FromRawPanics(d, v)
    BY <1>2, <1>3, RoundTrip
  <2>2. g = [m \in DOMAIN v |-> [i \in DOMAIN v[m] |->
               [j \in DOMAIN v[m][i] |-> Cut(LeafTypes(d, m)[j], v[m][i][j])]]]
    BY <2>1 DEF Mapped
  <2>3. ASSUME NEW m \in DOMAIN v, NEW i \in DOMAIN v[m], NEW j \in DOMAIN v[m][i]
        PROVE  Cut(LeafTypes(d, m)[j], v[m][i][j]) =
                 IF LeafTypes(d, m)[j].kind = "string" /\ crossing.from = "c"
                 THEN Before(v[m][i][j], "nul") ELSE v[m][i][j]
    <3>1. CASE crossing.from = "c"
      BY <3>1 DEF Cut
    <3>2. CASE crossing.from = "rust"
      <4>1. ~ToRawRefPanics(d, v) /\ crossing.from # "c"
        BY <1>2, <1>3, <3>2
      <4>2. j \in DOMAIN LeafTypes(d, m)
        BY <1>2, ValueShape
      <4> HIDE DEF d, v
      <4> QED
        BY <1>2, <4>1, <4>2, NoNulNoCut
    <3> QED
      BY <1>2, <3>1, <3>2
  <2>4. ASSUME NEW p \in TextPlaces(d, g), Narrow(d, p)
        PROVE  "bad" \notin Range(TextAt(g, p))
    <3> HIDE DEF d, v, g
    <3>1. p \in TextPlaces(d, v) /\ TextAt(g, p) = Before(TextAt(v, p), "nul")
      BY <1>2, <2>1, <2>4, TextsReceived
    <3> QED
      BY <2>1, <2>4, <3>1 DEF FromRawPanics
  <2> HIDE DEF d, v, g
  <2>5. g = [m \in DOMAIN v |-> [i \in DOMAIN v[m] |-> [j \in DOMAIN v[m][i] |->
               IF LeafTypes(d, m)[j].kind = "string" /\ crossing.from = "c"
               THEN Before(v[m][i][j], "nul") ELSE v[m][i][j]]]]
    BY <2>2, <2>3
  <2>6. g = Mapped(d, v, LAMBDA t, x :
                      IF t.kind = "string" /\ crossing.from = "c" THEN Before(x, "nul") ELSE x)
    BY <2>5 DEF Mapped
  <2> QED
    BY <2>4, <2>6
<1>4. ASSUME crossing.status = "panicked"
      PROVE  IF crossing.from = "rust"
             THEN \E p \in TextPlaces(d, v) : "nul" \in Range(TextAt(v, p))
             ELSE \E p \in TextPlaces(d, v) : Narrow(d, p) /\ "bad" \in Range(TextAt(v, p))
  <2>1. CASE crossing.from = "rust"
    BY <1>2, <1>4, <2>1 DEF ToRawRefPanics
  <2>2. CASE crossing.from = "c"
    <3>1. FromRawPanics(d, v)
      BY <1>2, <1>4, <2>2
    <3>2. \E p \in TextPlaces(d, v) : Narrow(d, p) /\ "bad" \in Range(TextAt(v, p))
      <4> HIDE DEF d, v
      <4> QED
        BY <1>2, <3>1, BadText
    <3> QED
      BY <2>2, <3>2
  <2> QED
    BY <1>2, <2>1, <2>2
<1> QED
  BY <1>3, <1>4 DEF MessageRoundTrip

---------------------------------------------------------------------------
(***************************************************************************)
(* Nothing emitted changes once a value crosses, so neither does what the  *)
(* types say of a value.                                                   *)
(***************************************************************************)
SameTypes ==
  \A d, v : /\ Values(d)' = Values(d)
            /\ MessageBuffers(d, v)' = MessageBuffers(d, v)
            /\ RawBuffers(d, v)' = RawBuffers(d, v)
            /\ RustValue(d, v)' = RustValue(d, v)
            /\ ToRawRefPanics(d, v)' = ToRawRefPanics(d, v)
            /\ FromRawPanics(d, v)' = FromRawPanics(d, v)
            /\ ToRawRef(d, v)' = ToRawRef(d, v)
            /\ FromRaw(d, v)' = FromRaw(d, v)

LEMMA TypesStay ==
  ASSUME packages' = packages
  PROVE  SameTypes
<1>1. Emitted' = Emitted
  BY DEF Emitted
<1>2. \A path : TypeAt(path)' = TypeAt(path)
  BY <1>1 DEF TypeAt
<1>3. \A d, elem : Target(d, elem)' = Target(d, elem)
  BY <1>2 DEF Target
<1>4. \A d, m : LeafTypes(d, m)' = LeafTypes(d, m)
  BY <1>3 DEF LeafTypes
<1>5. \A d, v : Leaves(d, v)' = Leaves(d, v)
  BY <1>4 DEF Leaves
<1>6. \A d, v : TextPlaces(d, v)' = TextPlaces(d, v)
  BY <1>4, <1>5 DEF TextPlaces
<1>7. \A d, v : FilledTexts(d, v)' = FilledTexts(d, v)
  BY <1>6 DEF FilledTexts
<1>8. \A d, v : MessageBuffers(d, v)' = MessageBuffers(d, v)
  BY <1>7 DEF MessageBuffers
<1>9. \A d, v : RawBuffers(d, v)' = RawBuffers(d, v)
  BY <1>6 DEF RawBuffers
<1>10. \A d, m : ElemValues(d, m)' = ElemValues(d, m)
  BY <1>4 DEF ElemValues
<1>11. \A d, m : MemberValues(d, m)' = MemberValues(d, m)
  BY <1>10 DEF MemberValues
<1>12. \A d : Values(d)' = Values(d)
  BY <1>11 DEF Values
<1>13. \A d, p : Narrow(d, p)' = Narrow(d, p)
  BY <1>4 DEF Narrow
<1>14. \A d, v : RustValue(d, v)' = RustValue(d, v)
  BY <1>6, <1>13 DEF RustValue
<1>15. \A d, v : ToRawRefPanics(d, v)' = ToRawRefPanics(d, v)
  BY <1>6 DEF ToRawRefPanics
<1>16. \A d, v : FromRawPanics(d, v)' = FromRawPanics(d, v)
  BY <1>6, <1>13 DEF FromRawPanics
<1>17. \A d, v : Mapped(d, v, TextToC)' = Mapped(d, v, TextToC)
  BY <1>4 DEF Mapped
<1>18. \A d, v : ToRawRef(d, v)' = ToRawRef(d, v)
  BY <1>17 DEF ToRawRef
<1>19. \A d, v : Mapped(d, v, TextToRust)' = Mapped(d, v, TextToRust)
  BY <1>4 DEF Mapped
<1>20. \A d, v : FromRaw(d, v)' = FromRaw(d, v)
  BY <1>19 DEF FromRaw
<1> QED
  BY <1>8, <1>9, <1>12, <1>14, <1>15, <1>16, <1>18, <1>20 DEF SameTypes

---------------------------------------------------------------------------
(***************************************************************************)
(* Every step keeps the invariant.                                         *)
(***************************************************************************)
LEMMA InitInv ==
  ASSUME Init
  PROVE  IInv
<1>1. crossing = None /\ heap = {} /\ badFree = FALSE /\ None.kind = "none"
  BY DEF Init, None
<1> QED
  BY <1>1 DEF IInv, PhaseInv, ShapeInv, MessageInv, HeapExact, ConversionsFaithful,
              QosFaithful, TimeFaithful, ErrorFaithful

\* Where nothing crosses, before and after, there is nothing to say.
LEMMA NothingCrosses ==
  ASSUME crossing' = None, heap' = {}, ~badFree'
  PROVE  IInv'
<1>1. crossing'.kind = "none"
  BY DEF None
<1>2. PhaseInv'
  BY DEF PhaseInv, None
<1> QED
  BY <1>1, <1>2 DEF IInv, ShapeInv, MessageInv, HeapExact, ConversionsFaithful,
                    QosFaithful, TimeFaithful, ErrorFaithful

\* The generator is done when a value crosses.
LEMMA GenerateInv ==
  ASSUME IInv, Generate
  PROVE  IInv'
<1>1. phase \in {"scan", "parsed"}
  <2>1. CASE OpenPrefix
    BY <2>1 DEF OpenPrefix, Between
  <2>2. CASE \E p \in unread : OpenPackage(p)
    BY <2>2 DEF OpenPackage
  <2>3. CASE ReadEntry
    BY <2>3 DEF ReadEntry
  <2>4. CASE ClosePackage
    BY <2>4 DEF ClosePackage
  <2>5. CASE GetPackages
    BY <2>5 DEF GetPackages, Between
  <2>6. CASE Emit
    BY <2>6 DEF Emit
  <2> QED
    BY <2>1, <2>2, <2>3, <2>4, <2>5, <2>6 DEF Generate, GenNext
<1>2. crossing = None
  BY <1>1 DEF IInv, PhaseInv
<1>3. heap = {} /\ ~badFree
  BY <1>2 DEF None, IInv, HeapExact
<1> QED
  BY <1>2, <1>3, NothingCrosses DEF Generate

\* What a value that starts to cross finds.
LEMMA Starting ==
  ASSUME IInv, Idle
  PROVE  crossing = None /\ phase = "generated" /\ heap = {} /\ ~badFree
BY DEF Idle, IInv, HeapExact, None

LEMMA StampInv ==
  ASSUME IInv, NEW n \in Nanos, Stamp(n)
  PROVE  IInv'
<1>1. phase = "generated" /\ heap = {} /\ ~badFree
  BY Starting DEF Stamp
<1>2. /\ crossing' = [kind |-> "time", nanos |-> n, msg |-> ToRosMsg(n),
                      panics |-> ToRosMsgPanics(n), read |-> FromRosMsg(ToRosMsg(n))]
      /\ phase' = phase /\ heap' = heap /\ badFree' = badFree
  BY DEF Stamp, Become, genVars
<1>3. n \in Int
  BY InterfaceAssumption
<1>4. TimeFaithful'
  <2> DEFINE msg == ToRosMsg(n)
             back == FromRosMsg(msg)
             floor == (n - (n % Second)) \div Second
             whole == n < 0 /\ n % Second = 0
  <2>1. /\ msg.sec = IF whole THEN floor - 1 ELSE floor
        /\ back = n
        /\ msg.nsec \in 0..Second
        /\ msg.nsec = Second <=> whole
    BY <1>3, TimeOK
  <2>2. ToRosMsgPanics(n) <=> msg.sec \notin SecMin..SecMax
    BY DEF ToRosMsgPanics
  <2>3. /\ crossing'.nanos = n /\ crossing'.msg = msg /\ crossing'.read = back
        /\ crossing'.panics = ToRosMsgPanics(n)
    BY <1>2
  <2> DEFINE out == ToRosMsgPanics(n)
  <2>4. /\ out <=> (IF whole THEN floor - 1 ELSE floor) \notin SecMin..SecMax
        /\ back = n
        /\ msg.nsec \in 0..Second
        /\ msg.nsec = Second <=> whole
    BY <2>1, <2>2
  <2> HIDE DEF msg, back, out
  <2>5. crossing'.panics <=> out
    BY <2>3 DEF out
  <2> QED
    BY <2>3, <2>4, <2>5 DEF TimeFaithful
<1>5. HeapExact' /\ PhaseInv' /\ ShapeInv' /\ MessageInv'
  BY <1>1, <1>2 DEF HeapExact, PhaseInv, ShapeInv, MessageInv
<1>6. QosFaithful' /\ ErrorFaithful'
  BY <1>2 DEF QosFaithful, ErrorFaithful
<1> QED
  BY <1>4, <1>5, <1>6 DEF IInv, ConversionsFaithful

LEMMA ReturnInv ==
  ASSUME IInv, NEW code \in Codes, NEW explained \in BOOLEAN, Return(code, explained)
  PROVE  IInv'
<1>1. phase = "generated" /\ heap = {} /\ ~badFree
  BY Starting DEF Return
<1>2. /\ crossing' = [kind |-> "error", code |-> code, told |-> Told(code, explained)]
      /\ phase' = phase /\ heap' = heap /\ badFree' = badFree
  BY DEF Return, Become, genVars
<1>3. ErrorFaithful'
  <2> DEFINE told == Told(code, explained)
  <2>1. /\ told = "OK" <=> code = "OK"
        /\ told \notin {"RUNTIME_ERROR", "ERROR", code} =>
             code = "SERVICE_INVALID" /\ told = "SERVICE_NAME_INVALID"
        /\ told = "ERROR" => code \in Unmatched
    BY ToldOK
  <2> HIDE DEF told
  <2>2. crossing'.code = code /\ crossing'.told = told
    BY <1>2 DEF told
  <2> QED
    BY <2>1, <2>2 DEF ErrorFaithful, Unmatched
<1>4. HeapExact' /\ PhaseInv' /\ ShapeInv' /\ MessageInv'
  BY <1>1, <1>2 DEF HeapExact, PhaseInv, ShapeInv, MessageInv
<1>5. QosFaithful' /\ TimeFaithful'
  BY <1>2 DEF QosFaithful, TimeFaithful
<1> QED
  BY <1>3, <1>4, <1>5 DEF IInv, ConversionsFaithful

\* A profile does not touch the heap.
LEMMA ProfileInv ==
  ASSUME IInv, StartProfile \/ BuildProfile \/ CreateWithProfile
  PROVE  IInv'
<1>1. /\ phase = "generated" /\ heap = {} /\ ~badFree
      /\ phase' = phase /\ heap' = heap /\ badFree' = badFree
  <2>1. CASE StartProfile
    <3>1. Idle /\ phase' = phase /\ heap' = heap /\ badFree' = badFree
      BY <2>1 DEF StartProfile, Become, genVars
    <3>2. phase = "generated" /\ heap = {} /\ ~badFree
      BY <3>1, Starting
    <3> QED
      BY <3>1, <3>2
  <2>2. CASE BuildProfile \/ CreateWithProfile
    <3>1. crossing.kind = "qos" /\ None.kind = "none"
      BY <2>2, Zenon DEF BuildProfile, CreateWithProfile, None
    <3>2. phase = "generated" /\ heap = {} /\ ~badFree
      BY <3>1 DEF IInv, PhaseInv, HeapExact
    <3> QED
      BY <2>2, <3>2 DEF BuildProfile, CreateWithProfile, Become, genVars
  <2> QED
    BY <2>1, <2>2
<1>2. /\ crossing' = [kind |-> "qos", asked |-> crossing'.asked, calls |-> crossing'.calls,
                      status |-> crossing'.status, actual |-> crossing'.actual]
      /\ crossing'.asked \in Profiles
      /\ crossing'.asked.deadline \in SetTimes
      /\ crossing'.status # "building" =>
           crossing'.status = "created" /\ Shows(crossing'.asked, crossing'.actual)
  <2>1. CASE StartProfile
    <3>1. PICK q \in Presets : crossing' = [kind |-> "qos", asked |-> q, calls |-> 0,
                                           status |-> "building", actual |-> Common]
      BY <2>1 DEF StartProfile, Become
    <3>2. q \in Profiles /\ q.deadline \in SetTimes
      BY PresetsOK
    <3> QED
      BY <3>1, <3>2
  <2>2. CASE BuildProfile
    <3>1. PICK q \in Built(crossing.asked) :
            crossing' = [crossing EXCEPT !.asked = q, !.calls = @ + 1]
      BY <2>2 DEF BuildProfile, Become
    <3>2. /\ crossing = [kind |-> "qos", asked |-> crossing.asked, calls |-> crossing.calls,
                         status |-> crossing.status, actual |-> crossing.actual]
          /\ crossing.status = "building"
          /\ crossing.asked \in Profiles /\ crossing.asked.deadline \in SetTimes
      BY <2>2 DEF BuildProfile, IInv, ShapeInv
    <3>3. q \in Profiles /\ q.deadline \in SetTimes
      BY <3>2, BuiltOK
    <3>4. crossing' = [kind |-> "qos", asked |-> q, calls |-> crossing.calls + 1,
                       status |-> "building", actual |-> crossing.actual]
      <4> DEFINE asked == crossing.asked
                 calls == crossing.calls
                 actual == crossing.actual
      <4>1. /\ crossing = [kind |-> "qos", asked |-> asked, calls |-> calls,
                           status |-> "building", actual |-> actual]
            /\ crossing' = [crossing EXCEPT !.asked = q, !.calls = calls + 1]
        BY <3>1, <3>2
      <4> HIDE DEF asked, calls, actual
      <4>2. crossing' = [kind |-> "qos", asked |-> q, calls |-> calls + 1,
                         status |-> "building", actual |-> actual]
        BY <4>1
      <4> QED
        BY <4>2 DEF calls, actual
    <3> QED
      BY <3>3, <3>4
  <2>3. CASE CreateWithProfile
    <3>1. PICK r \in Settled(crossing.asked) :
            crossing' = [crossing EXCEPT
                           !.status = IF DurationPanics(r.deadline) THEN "panicked" ELSE "created",
                           !.actual = FromRmw(r)]
      BY <2>3 DEF CreateWithProfile, Become
    <3>2. /\ crossing = [kind |-> "qos", asked |-> crossing.asked, calls |-> crossing.calls,
                         status |-> crossing.status, actual |-> crossing.actual]
          /\ crossing.asked \in Profiles /\ crossing.asked.deadline \in SetTimes
          /\ crossing.asked.history # "Unknown"
      BY <2>3 DEF CreateWithProfile, IInv, ShapeInv
    <3>3. ~DurationPanics(r.deadline) /\ Shows(crossing.asked, FromRmw(r))
      BY <3>2, SettledOK
    <3>4. crossing' = [kind |-> "qos", asked |-> crossing.asked, calls |-> crossing.calls,
                       status |-> "created", actual |-> FromRmw(r)]
      <4> DEFINE asked == crossing.asked
                 calls == crossing.calls
                 status == crossing.status
                 actual == crossing.actual
                 seen == FromRmw(r)
      <4>1. /\ crossing = [kind |-> "qos", asked |-> asked, calls |-> calls,
                           status |-> status, actual |-> actual]
            /\ crossing' = [crossing EXCEPT !.status = "created", !.actual = seen]
        BY <3>1, <3>2, <3>3
      <4> HIDE DEF asked, calls, status, actual, seen
      <4>2. crossing' = [kind |-> "qos", asked |-> asked, calls |-> calls,
                         status |-> "created", actual |-> seen]
        BY <4>1
      <4> QED
        BY <4>2 DEF asked, calls, seen
    <3> QED
      BY <3>2, <3>3, <3>4
  <2> QED
    BY <2>1, <2>2, <2>3
<1>3. crossing'.kind = "qos"
  BY <1>2
<1>4. QosFaithful'
  BY <1>2 DEF QosFaithful, Shows, Total
<1>5. HeapExact' /\ PhaseInv' /\ ShapeInv' /\ MessageInv'
  BY <1>1, <1>2, <1>3 DEF HeapExact, PhaseInv, ShapeInv, MessageInv
<1>6. TimeFaithful' /\ ErrorFaithful'
  BY <1>3 DEF TimeFaithful, ErrorFaithful
<1> QED
  BY <1>4, <1>5, <1>6 DEF IInv, ConversionsFaithful

(***************************************************************************)
(* The same of a message, of its parts and of the heap: an action that     *)
(* leaves this leaves the invariant.                                       *)
(***************************************************************************)
Fits(d, v, from, status, wire, got) ==
  /\ v \in Values(d)
  /\ from \in {"rust", "c"}
  /\ from = "rust" => RustValue(d, v)
  /\ from = "rust" => (status = "panicked" <=> ToRawRefPanics(d, v))
  /\ from = "c" /\ status = "panicked" => FromRawPanics(d, v)
  /\ status \in {"published", "taken"} => wire = ToRawRef(d, v)
  /\ status = "received" => got = FromRaw(d, ToRawRef(d, v)) /\ ~FromRawPanics(d, v)

Held(d, v, live, status) ==
  (IF live THEN MessageBuffers(d, v) ELSE {})
    \cup (IF status = "taken" THEN RawBuffers(d, v) ELSE {})

LEMMA MessageStep ==
  ASSUME phase = "generated", UNCHANGED genVars,
         NEW d, NEW v, NEW from, NEW live, NEW status, NEW wire, NEW got,
         crossing' = [kind |-> "message", def |-> d, value |-> v, from |-> from, live |-> live,
                      status |-> status, wire |-> wire, got |-> got],
         Fits(d, v, from, status, wire, got),
         heap' = Held(d, v, live, status), ~badFree'
  PROVE  IInv'
<1>1. /\ crossing'.kind = "message" /\ crossing'.def = d /\ crossing'.value = v
      /\ crossing'.from = from /\ crossing'.live = live /\ crossing'.status = status
      /\ crossing'.wire = wire /\ crossing'.got = got
  OBVIOUS
<1>2. SameTypes /\ phase' = "generated"
  BY TypesStay DEF genVars
<1>3. PhaseInv'
  BY <1>2 DEF PhaseInv
<1>4. ShapeInv'
  BY <1>1 DEF ShapeInv
<1>5. MessageInv'
  <2>1. /\ Values(d)' = Values(d)
        /\ RustValue(d, v)' = RustValue(d, v)
        /\ ToRawRefPanics(d, v)' = ToRawRefPanics(d, v)
        /\ FromRawPanics(d, v)' = FromRawPanics(d, v)
        /\ ToRawRef(d, v)' = ToRawRef(d, v)
        /\ FromRaw(d, ToRawRef(d, v))' = FromRaw(d, ToRawRef(d, v))
    <3>1. /\ Values(d)' = Values(d)
          /\ RustValue(d, v)' = RustValue(d, v)
          /\ ToRawRefPanics(d, v)' = ToRawRefPanics(d, v)
          /\ FromRawPanics(d, v)' = FromRawPanics(d, v)
          /\ ToRawRef(d, v)' = ToRawRef(d, v)
      BY <1>2 DEF SameTypes
    <3>2. \A w : FromRaw(d, w)' = FromRaw(d, w)
      BY <1>2 DEF SameTypes
    <3>3. FromRaw(d, ToRawRef(d, v))' = FromRaw(d, ToRawRef(d, v))
      BY <3>1, <3>2
    <3> QED
      BY <3>1, <3>3
  <2>2. Fits(d, v, from, status, wire, got)'
    BY <2>1 DEF Fits
  <2> QED
    BY <1>1, <2>2 DEF MessageInv, Fits
<1>6. HeapExact'
  <2>1. MessageBuffers(d, v)' = MessageBuffers(d, v) /\ RawBuffers(d, v)' = RawBuffers(d, v)
    BY <1>2 DEF SameTypes
  <2> QED
    BY <1>1, <2>1 DEF HeapExact, Held
<1>7. QosFaithful' /\ TimeFaithful' /\ ErrorFaithful'
  BY <1>1 DEF QosFaithful, TimeFaithful, ErrorFaithful
<1> QED
  BY <1>3, <1>4, <1>5, <1>6, <1>7 DEF IInv, ConversionsFaithful

\* Buffers of different holders are different.
LEMMA Holders ==
  ASSUME NEW d, NEW v
  PROVE  /\ MessageBuffers(d, v) \cap RawBuffers(d, v) = {}
         /\ MessageBuffers(d, v) \cap RawRefTakes(d, v) = {}
         /\ RawRefFrees(d, v) = RawRefTakes(d, v)
<1>1. "message" # "raw" /\ "message" # "rawref"
  OBVIOUS
<1>2. \A h, k, P, Q : h # k => Buffers(h, P) \cap Buffers(k, Q) = {}
  BY DEF Buffers
<1> QED
  BY <1>1, <1>2 DEF MessageBuffers, RawBuffers, RawRefTakes, RawRefFrees

LEMMA PublishInv ==
  ASSUME IInv, NEW d, NEW v \in Values(d), Publish(d, v)
  PROVE  IInv'
<1> DEFINE status == IF ToRawRefPanics(d, v) THEN "panicked"
                     ELSE IF Refused(d, v) THEN "refused" ELSE "published"
           wire == IF status = "published" THEN ToRawRef(d, v) ELSE <<>>
<1>1. Idle /\ RustValue(d, v) /\ UNCHANGED genVars
  BY DEF Publish, Become
<1>2. crossing' = [kind |-> "message", def |-> d, value |-> v, from |-> "rust",
                   live |-> TRUE, status |-> status, wire |-> wire, got |-> <<>>]
  BY Zenon DEF Publish, Become
<1>3. /\ heap' = (MessageBuffers(d, v) \cup RawRefTakes(d, v)) \ RawRefFrees(d, v)
      /\ badFree' = (badFree \/ ~(RawRefFrees(d, v)
                                   \subseteq MessageBuffers(d, v) \cup RawRefTakes(d, v)))
  BY Zenon DEF Publish, Free
<1>4. phase = "generated" /\ heap = {} /\ ~badFree
  BY <1>1, Starting
<1>5. status \in {"panicked", "refused", "published"}
      /\ (status = "panicked" <=> ToRawRefPanics(d, v))
  OBVIOUS
<1>6. status = "published" => wire = ToRawRef(d, v)
  OBVIOUS
<1> HIDE DEF status, wire
<1>7. Fits(d, v, "rust", status, wire, <<>>)
  BY <1>1, <1>5, <1>6 DEF Fits
<1>8. heap' = Held(d, v, TRUE, status)
  BY <1>3, <1>5, Holders DEF Held
<1>9. ~badFree'
  <2>1. RawRefFrees(d, v) \subseteq MessageBuffers(d, v) \cup RawRefTakes(d, v)
    BY Holders
  <2> QED
    BY <1>3, <1>4, <2>1
<1> QED
  BY <1>1, <1>2, <1>4, <1>7, <1>8, <1>9, MessageStep

LEMMA ForeignPublishInv ==
  ASSUME IInv, NEW d, NEW v \in Values(d), ForeignPublish(d, v)
  PROVE  IInv'
<1> DEFINE wire == ToRawRef(d, v)
<1>1. /\ Idle /\ UNCHANGED genVars
      /\ crossing' = [kind |-> "message", def |-> d, value |-> v, from |-> "c",
                      live |-> FALSE, status |-> "published", wire |-> wire, got |-> <<>>]
      /\ heap' = heap /\ badFree' = badFree
  BY DEF ForeignPublish, Become
<1>2. phase = "generated" /\ heap = {} /\ ~badFree
  BY <1>1, Starting
<1>3. Fits(d, v, "c", "published", wire, <<>>)
  BY DEF Fits
<1> HIDE DEF wire
<1>4. heap' = Held(d, v, FALSE, "published")
  BY <1>1, <1>2 DEF Held
<1>5. ~badFree'
  BY <1>1, <1>2
<1> QED
  BY <1>1, <1>2, <1>3, <1>4, <1>5, MessageStep

\* What there is of a message on its way.
LEMMA OnItsWay ==
  ASSUME IInv, crossing.kind = "message"
  PROVE  /\ phase = "generated" /\ ~badFree
         /\ crossing = [kind |-> "message", def |-> crossing.def, value |-> crossing.value,
                        from |-> crossing.from, live |-> crossing.live,
                        status |-> crossing.status, wire |-> crossing.wire,
                        got |-> crossing.got]
         /\ Fits(crossing.def, crossing.value, crossing.from, crossing.status, crossing.wire,
                 crossing.got)
         /\ heap = Held(crossing.def, crossing.value, crossing.live, crossing.status)
<1>1. None.kind = "none"
  BY DEF None
<1>2. phase = "generated"
  BY <1>1 DEF IInv, PhaseInv
<1>3. crossing = [kind |-> "message", def |-> crossing.def, value |-> crossing.value,
                  from |-> crossing.from, live |-> crossing.live,
                  status |-> crossing.status, wire |-> crossing.wire, got |-> crossing.got]
  BY DEF IInv, ShapeInv
<1>4. Fits(crossing.def, crossing.value, crossing.from, crossing.status, crossing.wire,
           crossing.got)
  BY DEF IInv, MessageInv, Fits
<1>5. ~badFree /\ heap = Held(crossing.def, crossing.value, crossing.live, crossing.status)
  BY DEF IInv, HeapExact, Held
<1> QED
  BY <1>2, <1>3, <1>4, <1>5

LEMMA DropMessageInv ==
  ASSUME IInv, DropMessage
  PROVE  IInv'
<1> DEFINE d == crossing.def
           v == crossing.value
           from == crossing.from
           live == crossing.live
           status == crossing.status
           wire == crossing.wire
           got == crossing.got
           gone == FALSE
<1>1. /\ crossing.kind = "message" /\ live /\ UNCHANGED genVars
      /\ crossing' = [crossing EXCEPT !.live = gone]
      /\ heap' = heap \ MessageBuffers(d, v)
      /\ badFree' = (badFree \/ ~(MessageBuffers(d, v) \subseteq heap))
  BY DEF DropMessage, Become, Free
<1>2. /\ phase = "generated" /\ ~badFree
      /\ crossing = [kind |-> "message", def |-> d, value |-> v, from |-> from, live |-> live,
                     status |-> status, wire |-> wire, got |-> got]
      /\ Fits(d, v, from, status, wire, got)
      /\ heap = Held(d, v, live, status)
  BY <1>1, OnItsWay
<1> HIDE DEF d, v, from, live, status, wire, got, gone
<1>3. crossing' = [kind |-> "message", def |-> d, value |-> v, from |-> from, live |-> gone,
                   status |-> status, wire |-> wire, got |-> got]
  BY <1>1, <1>2
<1>4. heap' = Held(d, v, gone, status)
  BY <1>1, <1>2, Holders DEF Held, gone
<1>5. ~badFree'
  <2>1. MessageBuffers(d, v) \subseteq heap
    BY <1>1, <1>2 DEF Held
  <2> QED
    BY <1>1, <1>2, <2>1
<1>6. phase = "generated" /\ UNCHANGED genVars /\ Fits(d, v, from, status, wire, got)
  BY <1>1, <1>2
<1> QED
  BY <1>3, <1>4, <1>5, <1>6, MessageStep

LEMMA TakeInv ==
  ASSUME IInv, Take
  PROVE  IInv'
<1> DEFINE d == crossing.def
           v == crossing.value
           from == crossing.from
           live == crossing.live
           wire == crossing.wire
           got == crossing.got
           status == crossing.status
<1>1. /\ crossing.kind = "message" /\ status = "published" /\ UNCHANGED genVars
      /\ crossing' = [crossing EXCEPT !.status = "taken"]
      /\ heap' = heap \cup RawBuffers(d, v)
      /\ badFree' = badFree
  BY DEF Take, Message, Become
<1>2. /\ phase = "generated" /\ ~badFree
      /\ crossing = [kind |-> "message", def |-> d, value |-> v, from |-> from, live |-> live,
                     status |-> status, wire |-> wire, got |-> got]
      /\ Fits(d, v, from, status, wire, got)
      /\ heap = Held(d, v, live, status)
  BY <1>1, OnItsWay
<1> HIDE DEF d, v, from, live, status, wire, got
<1>3. crossing' = [kind |-> "message", def |-> d, value |-> v, from |-> from, live |-> live,
                   status |-> "taken", wire |-> wire, got |-> got]
  BY <1>1, <1>2
<1>4. Fits(d, v, from, "taken", wire, got)
  BY <1>1, <1>2 DEF Fits
<1>5. heap' = Held(d, v, live, "taken")
  BY <1>1, <1>2 DEF Held
<1>6. ~badFree'
  BY <1>1, <1>2
<1> QED
  BY <1>1, <1>2, <1>3, <1>4, <1>5, <1>6, MessageStep

LEMMA DeliverInv ==
  ASSUME IInv, Deliver
  PROVE  IInv'
<1> DEFINE d == crossing.def
           v == crossing.value
           from == crossing.from
           live == crossing.live
           wire == crossing.wire
           got == crossing.got
           status == crossing.status
<1>1. /\ crossing.kind = "message" /\ status = "taken" /\ UNCHANGED genVars
      /\ crossing' = IF FromRawPanics(d, v) THEN [crossing EXCEPT !.status = "panicked"]
                     ELSE [crossing EXCEPT !.status = "received", !.got = FromRaw(d, wire)]
      /\ heap' = heap \ RawBuffers(d, v)
      /\ badFree' = (badFree \/ ~(RawBuffers(d, v) \subseteq heap))
  BY DEF Deliver, Message, Become, Free
<1>2. /\ phase = "generated" /\ ~badFree
      /\ crossing = [kind |-> "message", def |-> d, value |-> v, from |-> from, live |-> live,
                     status |-> status, wire |-> wire, got |-> got]
      /\ Fits(d, v, from, status, wire, got)
      /\ heap = Held(d, v, live, status)
  BY <1>1, OnItsWay
<1> HIDE DEF d, v, from, live, status, wire, got
<1>3. heap' = Held(d, v, live, "panicked") /\ heap' = Held(d, v, live, "received")
  BY <1>1, <1>2, Holders DEF Held
<1>4. ~badFree'
  <2>1. RawBuffers(d, v) \subseteq heap
    BY <1>1, <1>2 DEF Held
  <2> QED
    BY <1>1, <1>2, <2>1
<1>5. CASE FromRawPanics(d, v)
  <2>1. crossing' = [kind |-> "message", def |-> d, value |-> v, from |-> from, live |-> live,
                     status |-> "panicked", wire |-> wire, got |-> got]
    BY <1>1, <1>2, <1>5
  <2>2. from = "c"
    <3>1. v \in Values(d) /\ from \in {"rust", "c"} /\ (from = "rust" => RustValue(d, v))
      BY <1>2 DEF Fits
    <3> QED
      BY <1>5, <3>1, BadText
  <2>3. Fits(d, v, from, "panicked", wire, got)
    BY <1>2, <1>5, <2>2 DEF Fits
  <2> QED
    BY <1>1, <1>2, <1>3, <1>4, <2>1, <2>3, MessageStep
<1>6. CASE ~FromRawPanics(d, v)
  <2> DEFINE back == FromRaw(d, wire)
  <2>1. crossing' = [kind |-> "message", def |-> d, value |-> v, from |-> from, live |-> live,
                     status |-> "received", wire |-> wire, got |-> back]
    BY <1>1, <1>2, <1>6
  <2>2. Fits(d, v, from, "received", wire, back)
    BY <1>1, <1>2, <1>6 DEF Fits
  <2> HIDE DEF back
  <2> QED
    BY <1>1, <1>2, <1>3, <1>4, <2>1, <2>2, MessageStep
<1> QED
  BY <1>5, <1>6

LEMMA StutterInv ==
  ASSUME IInv, UNCHANGED vars
  PROVE  IInv'
<1>1. /\ UNCHANGED genVars /\ crossing' = crossing /\ heap' = heap /\ badFree' = badFree
  BY DEF vars
<1>2. CASE crossing.kind = "message"
  <2> DEFINE d == crossing.def
             v == crossing.value
             from == crossing.from
             live == crossing.live
             wire == crossing.wire
             got == crossing.got
             status == crossing.status
  <2>1. /\ phase = "generated" /\ ~badFree
        /\ crossing = [kind |-> "message", def |-> d, value |-> v, from |-> from, live |-> live,
                       status |-> status, wire |-> wire, got |-> got]
        /\ Fits(d, v, from, status, wire, got)
        /\ heap = Held(d, v, live, status)
    BY <1>2, OnItsWay
  <2> HIDE DEF d, v, from, live, status, wire, got
  <2>2. /\ crossing' = [kind |-> "message", def |-> d, value |-> v, from |-> from,
                        live |-> live, status |-> status, wire |-> wire, got |-> got]
        /\ heap' = Held(d, v, live, status)
    BY <1>1, <2>1
  <2>3. ~badFree'
    BY <1>1, <2>1
  <2> QED
    BY <1>1, <2>1, <2>2, <2>3, MessageStep
<1>3. CASE crossing.kind # "message"
  <2>1. phase' = phase
    BY <1>1 DEF genVars
  <2>2. PhaseInv' /\ ShapeInv'
    BY <1>1, <2>1 DEF IInv, PhaseInv, ShapeInv
  <2>3. MessageInv' /\ HeapExact'
    BY <1>1, <1>3 DEF IInv, MessageInv, HeapExact
  <2>4. ConversionsFaithful'
    BY <1>1 DEF IInv, ConversionsFaithful, QosFaithful, TimeFaithful, ErrorFaithful
  <2> QED
    BY <2>2, <2>3, <2>4 DEF IInv
<1> QED
  BY <1>2, <1>3

\* Once for every action of the specification.
LEMMA NextInv ==
  ASSUME IInv, [Next]_vars
  PROVE  IInv'
<1>1. CASE Generate
  BY <1>1, GenerateInv
<1>2. CASE \E d \in Emitted : Idle /\ Sendable(d) /\ \E v \in Values(d) :
              Publish(d, v) \/ ForeignPublish(d, v)
  BY <1>2, PublishInv, ForeignPublishInv
<1>3. CASE DropMessage
  BY <1>3, DropMessageInv
<1>4. CASE Take
  BY <1>4, TakeInv
<1>5. CASE Deliver
  BY <1>5, DeliverInv
<1>6. CASE StartProfile \/ BuildProfile \/ CreateWithProfile
  BY <1>6, ProfileInv
<1>7. CASE \E n \in Nanos : Stamp(n)
  BY <1>7, StampInv
<1>8. CASE \E code \in Codes, explained \in BOOLEAN : Return(code, explained)
  BY <1>8, ReturnInv
<1>9. CASE UNCHANGED vars
  BY <1>9, StutterInv
<1> QED
  BY <1>1, <1>2, <1>3, <1>4, <1>5, <1>6, <1>7, <1>8, <1>9 DEF Next

---------------------------------------------------------------------------
(***************************************************************************)
(* Types: what is received is a value of the type that was sent.           *)
(***************************************************************************)
LEMMA CutIsAValue ==
  ASSUME NEW d, NEW v \in Values(d)
  PROVE  Mapped(d, v, Cut) \in Values(d)
<1> DEFINE w == Mapped(d, v, Cut)
<1>1. /\ DOMAIN w = DOMAIN v /\ w = [m \in DOMAIN v |-> w[m]]
      /\ \A m \in DOMAIN v : w[m] = [i \in DOMAIN v[m] |->
           [j \in DOMAIN v[m][i] |-> Cut(LeafTypes(d, m)[j], v[m][i][j])]]
  BY DEF Mapped
<1> HIDE DEF w
<1>2. DOMAIN v = DOMAIN d.members /\ \A m \in DOMAIN v : v[m] \in MemberValues(d, m)
  BY DEF Values
<1>3. ASSUME NEW m, NEW x \in ElemValues(d, m)
      PROVE  [j \in DOMAIN x |-> Cut(LeafTypes(d, m)[j], x[j])] \in ElemValues(d, m)
  <2> DEFINE types == LeafTypes(d, m)
             y == [j \in DOMAIN x |-> Cut(types[j], x[j])]
  <2>1. DOMAIN x = DOMAIN types /\ \A j \in DOMAIN types : x[j] \in LeafValues(types[j])
    BY DEF ElemValues
  <2>2. ASSUME NEW j \in DOMAIN types
        PROVE  y[j] \in LeafValues(types[j])
    <3>1. y[j] = Cut(types[j], x[j])
      BY <2>1
    <3>2. CASE types[j].kind = "string"
      <4>1. x[j] \in Texts
        BY <2>1, <3>2 DEF LeafValues
      <4>2. Before(x[j], "nul") \in Texts
        BY <4>1, InterfaceAssumption
      <4> QED
        BY <3>1, <3>2, <4>2 DEF Cut, LeafValues
    <3>3. CASE types[j].kind # "string"
      BY <2>1, <3>1, <3>3 DEF Cut, LeafValues
    <3> QED
      BY <3>2, <3>3
  <2>3. \A j \in DOMAIN types : LeafValues(types[j]) \subseteq BasicValues \cup Texts
    BY DEF LeafValues
  <2>4. y \in [DOMAIN types -> BasicValues \cup Texts]
    BY <2>1, <2>2, <2>3
  <2> HIDE DEF y
  <2>5. y \in ElemValues(d, m)
    BY <2>2, <2>4 DEF ElemValues
  <2> QED
    BY <2>5 DEF y
<1>4. ASSUME NEW m \in DOMAIN v, NEW I, v[m] \in [I -> ElemValues(d, m)]
      PROVE  w[m] \in [I -> ElemValues(d, m)]
  <2>1. w[m] = [i \in I |-> [j \in DOMAIN v[m][i] |-> Cut(LeafTypes(d, m)[j], v[m][i][j])]]
    BY <1>1, <1>4
  <2>2. \A i \in I : [j \in DOMAIN v[m][i] |-> Cut(LeafTypes(d, m)[j], v[m][i][j])]
                     \in ElemValues(d, m)
    BY <1>3, <1>4
  <2> QED
    BY <2>1, <2>2
<1>5. ASSUME NEW m \in DOMAIN v
      PROVE  w[m] \in MemberValues(d, m)
  <2>1. CASE d.members[m].type.seq = "none"
    BY <1>2, <1>4, <2>1 DEF MemberValues
  <2>2. CASE d.members[m].type.seq = "array"
    BY <1>2, <1>4, <2>2 DEF MemberValues
  <2>3. CASE d.members[m].type.seq \notin {"none", "array"}
    <3>1. MemberValues(d, m) = UNION {[1..n -> ElemValues(d, m)] : n \in 0..MaxLen}
      BY <2>3 DEF MemberValues
    <3>2. PICK n \in 0..MaxLen : v[m] \in [1..n -> ElemValues(d, m)]
      BY <1>2, <3>1
    <3>3. w[m] \in [1..n -> ElemValues(d, m)]
      BY <1>4, <3>2
    <3> QED
      BY <3>1, <3>3
  <2> QED
    BY <2>1, <2>2, <2>3
<1>6. w \in [DOMAIN d.members -> UNION {MemberValues(d, m) : m \in DOMAIN d.members}]
  BY <1>1, <1>2, <1>5
<1>7. w \in Values(d)
  BY <1>1, <1>2, <1>5, <1>6 DEF Values
<1> QED
  BY <1>7 DEF w

\* What crosses is of one of the kinds, and a message in one of the states.
KindInv ==
  /\ crossing.kind \in {"none", "message", "qos", "time", "error"}
  /\ crossing.kind = "message" =>
       crossing.status \in {"published", "refused", "taken", "received", "panicked"}
  /\ badFree \in BOOLEAN

\* Whether a buffer was ever freed twice is a truth value.
LEMMA FreeIsBoolean ==
  ASSUME NEW from, NEW freed, Free(from, freed)
  PROVE  badFree' \in BOOLEAN
<1>1. badFree' = (badFree \/ ~(freed \subseteq from))
  BY Zenon DEF Free
<1> QED
  BY <1>1, Zenon

\* Every step keeps the kind and status of what crosses among those listed.
LEMMA KindNext ==
  ASSUME IInv, KindInv, [Next]_vars
  PROVE  KindInv'
<1>1. ShapeInv
  BY DEF IInv
<1>2. CASE Generate \/ UNCHANGED vars
  <2>1. crossing' = crossing /\ badFree' = badFree
    BY <1>2 DEF Generate, vars
  <2> QED
    BY <2>1, ZenonT(60) DEF KindInv
<1>3. CASE \E d \in Emitted : Idle /\ Sendable(d) /\ \E v \in Values(d) :
              Publish(d, v) \/ ForeignPublish(d, v)
  <2>1. PICK d \in Emitted : \E v \in Values(d) : Publish(d, v) \/ ForeignPublish(d, v)
    BY <1>3
  <2>2. PICK v \in Values(d) : Publish(d, v) \/ ForeignPublish(d, v)
    BY <2>1
  <2>3. CASE Publish(d, v)
    <3>1. crossing'.kind = "message" /\ crossing'.status \in {"published", "refused", "panicked"}
      BY <2>3 DEF Publish, Become
    <3>2. badFree' \in BOOLEAN
      BY <2>3, FreeIsBoolean DEF Publish
    <3> QED
      BY <3>1, <3>2, Zenon DEF KindInv
  <2>4. CASE ForeignPublish(d, v)
    <3>1. crossing'.kind = "message" /\ crossing'.status = "published"
      BY <2>4 DEF ForeignPublish, Become
    <3>2. badFree' = badFree
      BY <2>4 DEF ForeignPublish
    <3> QED
      BY <3>1, <3>2 DEF KindInv
  <2> QED
    BY <2>2, <2>3, <2>4
<1>4. CASE DropMessage
  BY <1>1, <1>4 DEF DropMessage, Become, Free, KindInv, ShapeInv
<1>5. CASE Take
  BY <1>1, <1>5 DEF Take, Message, Become, KindInv, ShapeInv
<1>6. CASE Deliver
  BY <1>1, <1>6 DEF Deliver, Message, Become, Free, KindInv, ShapeInv
<1>7. CASE StartProfile
  BY <1>7 DEF StartProfile, Become, KindInv
<1>8. CASE BuildProfile
  BY <1>1, <1>8 DEF BuildProfile, Become, KindInv, ShapeInv
<1>9. CASE CreateWithProfile
  BY <1>1, <1>9 DEF CreateWithProfile, Become, KindInv, ShapeInv
<1>10. CASE \E n \in Nanos : Stamp(n)
  BY <1>10 DEF Stamp, Become, KindInv
<1>11. CASE \E code \in Codes, explained \in BOOLEAN : Return(code, explained)
  BY <1>11 DEF Return, Become, KindInv
<1> QED
  BY <1>2, <1>3, <1>4, <1>5, <1>6, <1>7, <1>8, <1>9, <1>10, <1>11 DEF Next

\* TypeOK follows from the shape of what crosses and from the generator's types.
LEMMA TypesFollow ==
  ASSUME IInv, KindInv, GenInv
  PROVE  TypeOK
<1>1. ASSUME crossing.kind = "message", crossing.status = "received"
      PROVE  crossing.got \in Values(crossing.def)
  BY <1>1, RoundTrip, CutIsAValue DEF IInv, MessageInv
<1>2. \A b \in heap : b[1] \in {"message", "raw"}
  <2>1. \A holder, places : \A b \in Buffers(holder, places) : b[1] = holder
    BY DEF Buffers
  <2> QED
    BY <2>1 DEF IInv, HeapExact, MessageBuffers, RawBuffers
<1>3. crossing.kind = "message" => crossing.value \in Values(crossing.def)
  BY DEF IInv, MessageInv
<1> QED
  BY <1>1, <1>2, <1>3, TypesAre DEF IInv, PhaseInv, KindInv, TypeOK

\* The rest of the specification leaves the generator alone.
LEMMA GenStep ==
  ASSUME [Next]_vars
  PROVE  [GenNext]_genVars
BY DEF Next, vars, Generate, Publish, ForeignPublish, DropMessage, Take, Deliver, StartProfile,
       BuildProfile, CreateWithProfile, Stamp, Return, Become

---------------------------------------------------------------------------
(***************************************************************************)
(* The theorems.                                                           *)
(***************************************************************************)

\* The invariant holds throughout.
LEMMA Inductive == Spec => []IInv
BY InitInv, NextInv, PTL DEF Spec

\* Whatever is published, taken and delivered, from Rust or from C, and
\* wherever it panics, each buffer is freed once, by the one who holds it.
THEOREM HeapExactAlways == Spec => []HeapExact
<1>1. IInv => HeapExact
  BY DEF IInv
<1> QED
  BY <1>1, Inductive, PTL

\* The callback gets the message that was published, for messages of every
\* generated type, nested and with sequences of every length, and of texts of
\* every length, up to a NUL that C put inside a text; and the only panics are
\* those of to_raw_ref at a NUL and of from_raw at what is not UTF-8.
THEOREM MessageRoundTripAlways == Spec => []MessageRoundTrip
<1>1. IInv => MessageRoundTrip
  BY RoundTripFollows DEF IInv
<1> QED
  BY <1>1, Inductive, PTL

\* QoS profiles of every history, depth and duration come back as asked, every
\* point in time as it was, and every code as the error it stands for, for
\* every length of a second and every width of the fields.
THEOREM ConversionsFaithfulAlways == Spec => []ConversionsFaithful
<1>1. IInv => ConversionsFaithful
  BY DEF IInv
<1> QED
  BY <1>1, Inductive, PTL

\* The generator's invariant holds while values cross.
LEMMA GeneratorInductive == Spec => []GenInv
<1>1. Init => GenInv
  BY GenInitInv DEF Init
<1>2. GenInv /\ [Next]_vars => GenInv'
  BY GenStep, GenNextInv
<1> QED
  BY <1>1, <1>2, PTL DEF Spec

LEMMA KindInductive == Spec => []KindInv
<1>1. ASSUME Init PROVE KindInv
  <2>1. crossing = [kind |-> "none"] /\ badFree = FALSE
    BY <1>1 DEF Init, None
  <2>2. crossing.kind = "none"
    BY <2>1
  <2>3. badFree \in BOOLEAN
    BY <2>1
  <2> QED
    BY <2>2, <2>3 DEF KindInv
<1>2. IInv /\ KindInv /\ [Next]_vars => KindInv'
  BY KindNext
<1> QED
  BY <1>1, <1>2, Inductive, PTL DEF Spec

\* Type correctness: in particular what from_raw returns is a value of the
\* type that was published.
THEOREM TypeOKAlways == Spec => []TypeOK
<1>1. IInv /\ KindInv /\ GenInv => TypeOK
  BY TypesFollow
<1> QED
  BY <1>1, Inductive, KindInductive, GeneratorInductive, PTL

\* For every AMENT_PREFIX_PATH and every order in which read_dir returns the
\* directories: the packages emitted are those that some prefix has files of,
\* sorted, each of them once, with the files of the first such prefix.
THEOREM FirstPrefixWinsAlways == Spec => []FirstPrefixWins
<1>1. GenInv => FirstPrefixWins
  BY DEF GenInv
<1> QED
  BY <1>1, GeneratorInductive, PTL

\* For all files: a member that names a message nobody emits names one that no
\* prefix has, or that a prefix shadows; actions find their own parts.
THEOREM ReferencesResolveAlways == Spec => []ReferencesResolve
<1>1. GenInv => ReferencesResolve
  BY ReferencesAreFound
<1> QED
  BY <1>1, GeneratorInductive, PTL

\* For all lines: the defaults that are emitted are the declared ones, within
\* their types, and the macro panics for the named causes only.
THEOREM GeneratorFaithfulAlways == Spec => []GeneratorFaithful
<1>1. GenInv => GeneratorFaithful
  BY GeneratorIsFaithful
<1> QED
  BY <1>1, GeneratorInductive, PTL
=============================================================================
