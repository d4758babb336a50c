---------------------------- MODULE WorkerProofs ----------------------------
(***************************************************************************)
(* What every operation on a channel and on a worker keeps, whatever state *)
(* machine it is part of.  First the channel, for any messages, senders    *)
(* and buffer: its types, and WithinCapacity.  Then the worker: WorkerInv  *)
(* is the part of the invariants that is about one worker.                 *)
(* ReceiveWorkerProofs, ExecutorProofs and RpcProofs cite these lemmas, one *)
(* for each operation, instead of opening the operations.                  *)
(***************************************************************************)
EXTENDS Worker, SequenceTheorems, TLAPS

---------------------------------------------------------------------------
(***************************************************************************)
(* The channel.                                                            *)
(***************************************************************************)

Holds(seq, x) == \E i \in DOMAIN seq : seq[i] = x

(***************************************************************************)
(* What is in a sequence after Append and before Tail.                     *)
(***************************************************************************)
LEMMA InAppend ==
  ASSUME NEW S, NEW seq \in Seq(S), NEW e \in S, NEW x
  PROVE  Holds(Append(seq, e), x) <=> Holds(seq, x) \/ e = x
<1> DEFINE new == Append(seq, e)
<1>1. /\ Len(seq) \in Nat
      /\ DOMAIN seq = 1..Len(seq)
      /\ DOMAIN new = 1..(Len(seq) + 1)
      /\ \A i \in 1..Len(seq) : new[i] = seq[i]
      /\ new[Len(seq) + 1] = e
  BY AppendProperties
<1> HIDE DEF new
<1>2. Holds(new, x) <=> Holds(seq, x) \/ e = x
  BY <1>1 DEF Holds
<1> QED
  BY <1>2 DEF new

LEMMA InTail ==
  ASSUME NEW S, NEW seq \in Seq(S), seq # <<>>, NEW x
  PROVE  Holds(seq, x) <=> Head(seq) = x \/ Holds(Tail(seq), x)
<1> DEFINE rest == Tail(seq)
<1>1. /\ Len(seq) \in Nat \ {0}
      /\ DOMAIN seq = 1..Len(seq)
      /\ Len(rest) = Len(seq) - 1
      /\ DOMAIN rest = 1..Len(rest)
      /\ \A i \in 1..Len(rest) : rest[i] = seq[i + 1]
      /\ Head(seq) = seq[1]
  BY HeadTailProperties, EmptySeq
<1> HIDE DEF rest
<1>2. ASSUME NEW i \in DOMAIN seq, i # 1
      PROVE  i - 1 \in DOMAIN rest /\ rest[i - 1] = seq[i]
  <2>1. i - 1 \in 1..Len(rest) /\ (i - 1) + 1 = i
    BY <1>1, <1>2
  <2> QED
    BY <1>1, <2>1
<1>3. ASSUME NEW i \in DOMAIN rest
      PROVE  i + 1 \in DOMAIN seq /\ rest[i] = seq[i + 1]
  BY <1>1
<1>4. 1 \in DOMAIN seq
  BY <1>1
<1>5. Holds(seq, x) <=> Head(seq) = x \/ Holds(rest, x)
  BY <1>1, <1>2, <1>3, <1>4 DEF Holds
<1> QED
  BY <1>5 DEF rest

\* What is in either part is in the whole.
LEMMA InConcat ==
  ASSUME NEW S, NEW s \in Seq(S), NEW t \in Seq(S), NEW x
  PROVE  Holds(s \o t, x) <=> Holds(s, x) \/ Holds(t, x)
<1> DEFINE l == s \o t
<1>1. /\ Len(s) \in Nat /\ Len(t) \in Nat
      /\ DOMAIN s = 1..Len(s) /\ DOMAIN t = 1..Len(t)
      /\ DOMAIN l = 1..(Len(s) + Len(t))
      /\ \A i \in 1..(Len(s) + Len(t)) : l[i] = IF i <= Len(s) THEN s[i] ELSE t[i - Len(s)]
  BY ConcatProperties, LenProperties
<1> HIDE DEF l
<1>2. ASSUME NEW i \in DOMAIN t
      PROVE  i + Len(s) \in DOMAIN l /\ l[i + Len(s)] = t[i]
  BY <1>1
<1>3. ASSUME NEW i \in DOMAIN s
      PROVE  i \in DOMAIN l /\ l[i] = s[i]
  BY <1>1
<1>4. ASSUME NEW i \in DOMAIN l, i > Len(s)
      PROVE  i - Len(s) \in DOMAIN t /\ l[i] = t[i - Len(s)]
  BY <1>1, <1>4
<1>5. ASSUME NEW i \in DOMAIN l, l[i] = x
      PROVE  Holds(s, x) \/ Holds(t, x)
  <2>1. CASE i > Len(s)
    BY <1>4, <1>5, <2>1 DEF Holds
  <2>2. CASE ~(i > Len(s))
    <3>1. i \in DOMAIN s /\ l[i] = s[i]
      BY <1>1, <2>2
    <3> QED
      BY <1>5, <3>1 DEF Holds
  <2> QED
    BY <2>1, <2>2
<1>6. Holds(s, x) \/ Holds(t, x) => Holds(l, x)
  BY <1>2, <1>3 DEF Holds
<1>7. Holds(l, x) => Holds(s, x) \/ Holds(t, x)
  BY <1>5 DEF Holds
<1> QED
  BY <1>6, <1>7 DEF l

(***************************************************************************)
(* Two queues in a row, seen as one: what is sent goes to the end of both, *)
(* what moves from the second to the first stays where it is.              *)
(***************************************************************************)
LEMMA AppendToConcat ==
  ASSUME NEW S, NEW m \in S, NEW h \in Seq(S), NEW q \in Seq(S)
  PROVE  Append(h \o q, m) = h \o Append(q, m)
<1>1. h \o q \in Seq(S) /\ <<m>> \in Seq(S)
  BY ConcatProperties
<1>2. Append(h \o q, m) = (h \o q) \o <<m>>
  BY <1>1, AppendIsConcat
<1>3. h \o Append(q, m) = h \o (q \o <<m>>)
  BY AppendIsConcat
<1>4. (h \o q) \o <<m>> = h \o (q \o <<m>>)
  BY <1>1, ConcatAssociative
<1> QED
  BY <1>2, <1>3, <1>4

LEMMA MoveHead ==
  ASSUME NEW S, NEW h \in Seq(S), NEW q \in Seq(S), q # <<>>
  PROVE  h \o q = Append(h, Head(q)) \o Tail(q)
<1> DEFINE x == Head(q)
           t == Tail(q)
<1>1. x \in S /\ t \in Seq(S) /\ <<x>> \in Seq(S)
  BY HeadTailProperties
<1>2. q = <<x>> \o t
  BY <1>1
<1> HIDE DEF x, t
<1>3. Append(h, x) = h \o <<x>>
  BY <1>1, AppendIsConcat
<1>4. (h \o <<x>>) \o t = h \o (<<x>> \o t)
  BY <1>1, ConcatAssociative
<1>5. h \o q = Append(h, x) \o t
  BY <1>2, <1>3, <1>4
<1> QED
  BY <1>5 DEF x, t

(***************************************************************************)
(* Sequences in which nothing occurs twice: a newcomer at the end keeps    *)
(* them so, and so does the removal of an element anywhere.                *)
(***************************************************************************)
Distinct(seq) == \A i, j \in DOMAIN seq : seq[i] = seq[j] => i = j

LEMMA DistinctAppend ==
  ASSUME NEW S, NEW seq \in Seq(S), NEW e \in S, Distinct(seq), ~Holds(seq, e)
  PROVE  Distinct(Append(seq, e))
<1> DEFINE new == Append(seq, e)
<1>1. /\ Len(seq) \in Nat
      /\ DOMAIN seq = 1..Len(seq)
      /\ DOMAIN new = 1..(Len(seq) + 1)
      /\ \A i \in 1..Len(seq) : new[i] = seq[i]
      /\ new[Len(seq) + 1] = e
  BY AppendProperties
<1> HIDE DEF new
<1>2. ASSUME NEW i \in DOMAIN new
      PROVE  \/ i \in DOMAIN seq /\ new[i] = seq[i] /\ new[i] # e
             \/ i = Len(seq) + 1 /\ new[i] = e
  BY <1>1 DEF Holds
<1>3. Distinct(new)
  BY <1>2 DEF Distinct
<1> QED
  BY <1>3 DEF new

LEMMA DistinctTail ==
  ASSUME NEW S, NEW seq \in Seq(S), seq # <<>>, Distinct(seq)
  PROVE  Distinct(Tail(seq)) /\ ~Holds(Tail(seq), Head(seq))
<1> DEFINE rest == Tail(seq)
<1>1. /\ Len(seq) \in Nat \ {0}
      /\ DOMAIN seq = 1..Len(seq)
      /\ DOMAIN rest = 1..(Len(seq) - 1)
      /\ \A i \in 1..(Len(seq) - 1) : rest[i] = seq[i + 1]
      /\ Head(seq) = seq[1]
  BY HeadTailProperties, EmptySeq
<1> HIDE DEF rest
<1>2. ASSUME NEW i \in DOMAIN rest
      PROVE  i \in Nat \ {0} /\ i + 1 \in DOMAIN seq /\ rest[i] = seq[i + 1]
  BY <1>1
<1>3. Distinct(rest)
  BY <1>2 DEF Distinct
<1>4. ~Holds(rest, Head(seq))
  <2> SUFFICES ASSUME NEW i \in DOMAIN rest, rest[i] = Head(seq)
               PROVE  FALSE
    BY DEF Holds
  <2>1. i + 1 = 1
    BY <1>1, <1>2 DEF Distinct
  <2> QED
    BY <1>2, <2>1
<1> QED
  BY <1>3, <1>4 DEF rest

LEMMA DistinctRemove ==
  ASSUME NEW S, NEW s \in Seq(S), NEW t \in Seq(S), t # <<>>, Distinct(s \o t)
  PROVE  Distinct(s \o Tail(t))
<1> DEFINE old == s \o t
           new == s \o Tail(t)
           n == Len(s)
           was(i) == IF i <= n THEN i ELSE i + 1
<1>1. /\ Tail(t) \in Seq(S)
      /\ n \in Nat
      /\ Len(t) \in Nat \ {0}
      /\ Len(Tail(t)) = Len(t) - 1
      /\ \A i \in 1..(Len(t) - 1) : Tail(t)[i] = t[i + 1]
  BY HeadTailProperties, EmptySeq, LenProperties
<1>2. /\ DOMAIN old = 1..(n + Len(t))
      /\ \A i \in 1..(n + Len(t)) : old[i] = IF i <= n THEN s[i] ELSE t[i - n]
  BY <1>1, ConcatProperties, LenProperties
<1>3. /\ DOMAIN new = 1..(n + Len(Tail(t)))
      /\ \A i \in 1..(n + Len(Tail(t))) : new[i] = IF i <= n THEN s[i] ELSE Tail(t)[i - n]
  BY <1>1, ConcatProperties, LenProperties
<1> HIDE DEF old, new, n
<1>4. ASSUME NEW i \in DOMAIN new
      PROVE  i \in Nat /\ was(i) \in DOMAIN old /\ new[i] = old[was(i)]
  <2>1. CASE i <= n
    BY <1>1, <1>2, <1>3, <2>1
  <2>2. CASE ~(i <= n)
    <3>1. i - n \in 1..(Len(t) - 1) /\ (i + 1) - n = (i - n) + 1 /\ ~(i + 1 <= n)
      BY <1>1, <1>3, <2>2
    <3> QED
      BY <1>1, <1>2, <1>3, <2>2, <3>1
  <2> QED
    BY <2>1, <2>2
<1>5. ASSUME NEW i \in DOMAIN new, NEW j \in DOMAIN new, new[i] = new[j]
      PROVE  i = j
  <2>1. was(i) = was(j)
    BY <1>4, <1>5 DEF Distinct, old
  <2> QED
    BY <1>1, <1>4, <2>1
<1>6. Distinct(new)
  BY <1>5 DEF Distinct
<1> QED
  BY <1>6 DEF new

(***************************************************************************)
(* The empty channel of ReceiveWorker::new and Node::new is a channel      *)
(* within its capacity.                                                    *)
(***************************************************************************)
LEMMA EmptyChannelOK ==
  ASSUME NEW M, NEW S, NEW buffer \in Nat
  PROVE  /\ EmptyChannel \in Channels(M, S)
         /\ WithinCapacity(EmptyChannel, buffer)
BY DEF EmptyChannel, Channels, WithinCapacity

(***************************************************************************)
(* An accepted try_send adds its message at the end, and leaves the        *)
(* channel one of the same type.                                           *)
(***************************************************************************)
LEMMA PushType ==
  ASSUME NEW M, NEW S, NEW buffer \in Nat, NEW ch \in Channels(M, S),
         NEW s \in S, NEW m \in M
  PROVE  /\ Push(ch, buffer, s, m) \in Channels(M, S)
         /\ Push(ch, buffer, s, m).queue = Append(ch.queue, m)
         /\ Push(ch, buffer, s, m).parked =
              IF Len(ch.queue) < buffer THEN ch.parked ELSE Append(ch.parked, s)
         /\ Push(ch, buffer, s, m).open = ch.open
<1> DEFINE parked == IF Len(ch.queue) < buffer THEN ch.parked ELSE Append(ch.parked, s)
<1>1. ch \in [queue: Seq(M), parked: Seq(S), open: BOOLEAN]
  BY DEF Channels
<1>2. Append(ch.queue, m) \in Seq(M) /\ parked \in Seq(S)
  BY <1>1
<1>3. Push(ch, buffer, s, m) = [ch EXCEPT !.queue = Append(ch.queue, m), !.parked = parked]
  BY DEF Push
<1> HIDE DEF parked
<1>4. /\ Push(ch, buffer, s, m) \in [queue: Seq(M), parked: Seq(S), open: BOOLEAN]
      /\ Push(ch, buffer, s, m).queue = Append(ch.queue, m)
      /\ Push(ch, buffer, s, m).parked = parked
      /\ Push(ch, buffer, s, m).open = ch.open
  BY <1>1, <1>2, <1>3
<1> QED
  BY <1>4 DEF Channels, parked

(***************************************************************************)
(* An accepted try_send keeps the channel within its capacity.             *)
(***************************************************************************)
LEMMA PushWithinCapacity ==
  ASSUME NEW M, NEW S, NEW buffer \in Nat, NEW ch \in Channels(M, S),
         NEW s \in S, NEW m \in M,
         Accepts(ch, s), WithinCapacity(ch, buffer)
  PROVE  WithinCapacity(Push(ch, buffer, s, m), buffer)
<1> DEFINE new == Push(ch, buffer, s, m)
<1> HIDE DEF new
<1> SUFFICES WithinCapacity(new, buffer)
  BY DEF new
<1>1. /\ new.queue = Append(ch.queue, m)
      /\ new.parked = IF Len(ch.queue) < buffer THEN ch.parked ELSE Append(ch.parked, s)
  BY PushType DEF new
<1>2. /\ ch.queue \in Seq(M)
      /\ ch.parked \in Seq(S)
      /\ \A i \in DOMAIN ch.parked : ch.parked[i] # s
  BY DEF Channels, Accepts, IsFull
<1>3. Len(new.queue) = Len(ch.queue) + 1
  BY <1>1, <1>2, AppendProperties
<1>4. CASE Len(ch.queue) < buffer
  BY <1>1, <1>2, <1>3, <1>4 DEF WithinCapacity
<1>5. CASE ~(Len(ch.queue) < buffer)
  <2>1. new.parked = Append(ch.parked, s)
    BY <1>1, <1>5
  <2>2. /\ Len(new.parked) = Len(ch.parked) + 1
        /\ new.parked # <<>>
        /\ \A i \in 1..Len(ch.parked) : new.parked[i] = ch.parked[i]
        /\ new.parked[Len(ch.parked) + 1] = s
        /\ DOMAIN new.parked = 1..Len(new.parked)
        /\ DOMAIN ch.parked = 1..Len(ch.parked)
        /\ Len(ch.parked) \in Nat
    BY <2>1, <1>2, AppendProperties
  <2>3. \A i, j \in DOMAIN new.parked : new.parked[i] = new.parked[j] => i = j
    <3> SUFFICES ASSUME NEW i \in DOMAIN new.parked, NEW j \in DOMAIN new.parked,
                        new.parked[i] = new.parked[j]
                 PROVE  i = j
      OBVIOUS
    <3>1. \A k \in DOMAIN new.parked : k \in DOMAIN ch.parked \/ k = Len(ch.parked) + 1
      BY <2>2
    <3>2. CASE i \in DOMAIN ch.parked /\ j \in DOMAIN ch.parked
      <4>1. ch.parked[i] = ch.parked[j]
        BY <2>2, <3>2
      <4> QED
        BY <4>1, <3>2 DEF WithinCapacity
    <3>3. CASE i \in DOMAIN ch.parked /\ j = Len(ch.parked) + 1
      BY <1>2, <2>2, <3>3
    <3>4. CASE i = Len(ch.parked) + 1 /\ j \in DOMAIN ch.parked
      BY <1>2, <2>2, <3>4
    <3> QED
      BY <3>1, <3>2, <3>3, <3>4
  <2>4. Len(ch.queue) = buffer + Len(ch.parked)
    BY <1>2, <1>5 DEF WithinCapacity
  <2> QED
    BY <1>3, <2>2, <2>3, <2>4 DEF WithinCapacity
<1> QED
  BY <1>4, <1>5

(***************************************************************************)
(* Receiving takes the oldest message off.                                 *)
(***************************************************************************)
LEMMA PopType ==
  ASSUME NEW M, NEW S, NEW ch \in Channels(M, S), ch.queue # <<>>
  PROVE  /\ Pop(ch) \in Channels(M, S)
         /\ Pop(ch).queue = Tail(ch.queue)
         /\ Pop(ch).parked = IF ch.parked = <<>> THEN <<>> ELSE Tail(ch.parked)
         /\ Pop(ch).open = ch.open
         /\ Head(ch.queue) \in M
<1> DEFINE parked == IF ch.parked = <<>> THEN <<>> ELSE Tail(ch.parked)
<1>1. ch \in [queue: Seq(M), parked: Seq(S), open: BOOLEAN]
  BY DEF Channels
<1>2. Tail(ch.queue) \in Seq(M) /\ Head(ch.queue) \in M /\ parked \in Seq(S)
  BY <1>1
<1>3. Pop(ch) = [ch EXCEPT !.queue = Tail(ch.queue), !.parked = parked]
  BY <1>1 DEF Pop
<1> HIDE DEF parked
<1>4. /\ Pop(ch) \in [queue: Seq(M), parked: Seq(S), open: BOOLEAN]
      /\ Pop(ch).queue = Tail(ch.queue)
      /\ Pop(ch).parked = parked
      /\ Pop(ch).open = ch.open
  BY <1>1, <1>2, <1>3
<1> QED
  BY <1>2, <1>4 DEF Channels, parked

(***************************************************************************)
(* Receiving keeps the channel within its capacity: the sender that is     *)
(* unparked is owed exactly the room that the message leaves.              *)
(***************************************************************************)
LEMMA PopWithinCapacity ==
  ASSUME NEW M, NEW S, NEW buffer \in Nat, NEW ch \in Channels(M, S),
         ch.queue # <<>>, WithinCapacity(ch, buffer)
  PROVE  WithinCapacity(Pop(ch), buffer)
<1> DEFINE new == Pop(ch)
<1> HIDE DEF new
<1> SUFFICES WithinCapacity(new, buffer)
  BY DEF new
<1>1. /\ new.queue = Tail(ch.queue)
      /\ new.parked = IF ch.parked = <<>> THEN <<>> ELSE Tail(ch.parked)
  BY PopType DEF new
<1>2. /\ ch.queue \in Seq(M)
      /\ ch.parked \in Seq(S)
  BY DEF Channels
<1>3. Len(Tail(ch.queue)) = Len(ch.queue) - 1
  BY <1>2, HeadTailProperties
<1>4. CASE ch.parked = <<>>
  BY <1>1, <1>2, <1>3, <1>4 DEF WithinCapacity
<1>5. CASE ch.parked # <<>>
  <2> DEFINE rest == Tail(ch.parked)
  <2>1. /\ new.parked = rest
        /\ rest \in Seq(S)
        /\ Len(rest) = Len(ch.parked) - 1
        /\ \A i \in 1..Len(rest) : rest[i] = ch.parked[i + 1]
        /\ DOMAIN rest = 1..Len(rest)
        /\ DOMAIN ch.parked = 1..Len(ch.parked)
    BY <1>1, <1>2, <1>5, HeadTailProperties
  <2>2. \A i, j \in DOMAIN rest : rest[i] = rest[j] => i = j
    <3> SUFFICES ASSUME NEW i \in DOMAIN rest, NEW j \in DOMAIN rest, rest[i] = rest[j]
                 PROVE  i = j
      OBVIOUS
    <3>1. i + 1 \in DOMAIN ch.parked /\ j + 1 \in DOMAIN ch.parked
      BY <2>1
    <3>2. ch.parked[i + 1] = ch.parked[j + 1]
      BY <2>1
    <3>3. i + 1 = j + 1
      BY <3>1, <3>2 DEF WithinCapacity
    <3> QED
      BY <3>3, <2>1
  <2>3. Len(ch.queue) = buffer + Len(ch.parked)
    BY <1>5 DEF WithinCapacity
  <2> HIDE DEF rest
  <2>4. rest = <<>> <=> Len(rest) = 0
    BY <2>1, EmptySeq
  <2>5. Len(new.queue) = buffer + Len(rest)
    BY <1>1, <1>2, <1>3, <2>1, <2>3
  <2>6. new.parked = <<>> => Len(new.queue) <= buffer
    BY <2>1, <2>4, <2>5
  <2>7. \A i, j \in DOMAIN new.parked : new.parked[i] = new.parked[j] => i = j
    BY <2>1, <2>2
  <2> QED
    BY <2>1, <2>5, <2>6, <2>7 DEF WithinCapacity
<1> QED
  BY <1>4, <1>5

(***************************************************************************)
(* Dropping the receiver leaves an empty channel, within its capacity.     *)
(***************************************************************************)
LEMMA CloseOK ==
  ASSUME NEW M, NEW S, NEW buffer \in Nat, NEW ch \in Channels(M, S)
  PROVE  /\ Close(ch) \in Channels(M, S)
         /\ WithinCapacity(Close(ch), buffer)
BY DEF Close, Channels, WithinCapacity

(***************************************************************************)
(* A sender is refused as full only while more than buffer messages are    *)
(* queued: with no backlog, try_send on an open channel succeeds.          *)
(***************************************************************************)
LEMMA FullMeansBacklog ==
  ASSUME NEW M, NEW S, NEW buffer \in Nat, NEW ch \in Channels(M, S), NEW s \in S,
         WithinCapacity(ch, buffer), IsFull(ch, s)
  PROVE  Len(ch.queue) > buffer
<1>1. ch.parked \in Seq(S) /\ ch.parked # <<>>
  BY DEF IsFull, Channels
<1>2. Len(ch.parked) \in Nat \ {0}
  BY <1>1, EmptySeq
<1> QED
  BY <1>1, <1>2 DEF WithinCapacity

(***************************************************************************)
(* At most one message per sender is queued beyond the buffer: with two    *)
(* senders, as every worker has, no more than buffer + 2 messages.         *)
(***************************************************************************)
LEMMA TwoSenders ==
  ASSUME NEW M, NEW a, NEW b, NEW buffer \in Nat, NEW ch \in Channels(M, {a, b}),
         WithinCapacity(ch, buffer)
  PROVE  Len(ch.queue) <= buffer + 2
<1>1. ch.queue \in Seq(M) /\ ch.parked \in Seq({a, b})
  BY DEF Channels
<1>2. Len(ch.parked) <= 2
  <2> SUFFICES ASSUME Len(ch.parked) > 2
               PROVE  FALSE
    BY <1>1
  <2>1. {1, 2, 3} \subseteq DOMAIN ch.parked
    BY <1>1
  <2>2. \A i \in {1, 2, 3} : ch.parked[i] \in {a, b}
    BY <1>1, <2>1
  <2>3. /\ ch.parked[1] # ch.parked[2]
        /\ ch.parked[1] # ch.parked[3]
        /\ ch.parked[2] # ch.parked[3]
    BY <2>1 DEF WithinCapacity
  <2> QED
    BY <2>2, <2>3
<1> QED
  BY <1>1, <1>2 DEF WithinCapacity

---------------------------------------------------------------------------
(***************************************************************************)
(* The worker.                                                             *)
(***************************************************************************)

TerminateWaits(w) == Holds(w.ch.queue, Terminate)

Running(w) == w.task \in {"idle", "handling"}

(***************************************************************************)
(* The slot that futures keeps for the sender of the ReceiveWorker is      *)
(* still free while the ReceiveWorker exists, so its Terminate is accepted *)
(* however full the queue is; once it is queued it stays queued until the  *)
(* task takes it and leaves the loop.                                      *)
(***************************************************************************)
WorkerInv(w) ==
  /\ WithinCapacity(w.ch, WorkerBuffer)
  /\ w.ch.open <=> w.task # "gone"
  /\ w.task = "gone" => w.ch.queue = <<>> /\ w.ch.parked = <<>>
  /\ w.owner => w.task # "stopping" /\ ~IsFull(w.ch, "owner") /\ ~TerminateWaits(w)
  /\ ~w.owner /\ Running(w) => TerminateWaits(w)

\* The fields of a worker, one by one.
LEMMA WorkerFields ==
  ASSUME NEW w \in Workers
  PROVE  /\ w.ch \in Channels(Nat, WorkerSenders)
         /\ w.ch.queue \in Seq(Nat)
         /\ w.ch.parked \in Seq(WorkerSenders)
         /\ w.ch.open \in BOOLEAN
         /\ w.owner \in BOOLEAN
         /\ w.task \in TaskStates
BY DEF Workers, WorkerMessages, Channels

\* ReceiveWorker::new establishes the invariant of a worker.
LEMMA NewWorkerOK == NewWorker \in Workers /\ WorkerInv(NewWorker)
<1>1. /\ EmptyChannel \in Channels(Nat, WorkerSenders)
      /\ WithinCapacity(EmptyChannel, WorkerBuffer)
  BY EmptyChannelOK, WorkerBufferAssumption
<1>2. /\ NewWorker \in Workers
      /\ NewWorker.ch = EmptyChannel
      /\ NewWorker.owner = TRUE
      /\ NewWorker.task = "idle"
  BY <1>1 DEF NewWorker, Workers, WorkerMessages, TaskStates
<1>3. EmptyChannel.queue = <<>> /\ EmptyChannel.parked = <<>> /\ EmptyChannel.open
  BY DEF EmptyChannel
<1> QED
  BY <1>1, <1>2, <1>3 DEF WorkerInv, TerminateWaits, Holds, IsFull

(***************************************************************************)
(* An accepted message: subscription/invoker.rs:76 and its siblings.       *)
(***************************************************************************)
LEMMA OfferedOK ==
  ASSUME NEW w \in Workers, WorkerInv(w), Accepts(w.ch, "invoker"), NEW m \in Nat \ {Terminate}
  PROVE  /\ Offered(w, m) \in Workers
         /\ WorkerInv(Offered(w, m))
         /\ Offered(w, m).ch.queue = Append(w.ch.queue, m)
         /\ Offered(w, m).owner = w.owner
         /\ Offered(w, m).task = w.task
<1> DEFINE ch == w.ch
           q == w.ch.queue
           parked == w.ch.parked
           c == Push(ch, WorkerBuffer, "invoker", m)
           new == Offered(w, m)
<1>0. q \in Seq(Nat) /\ parked \in Seq(WorkerSenders) /\ m # Terminate
  BY WorkerFields
<1>1. /\ ch \in Channels(Nat, WorkerSenders)
      /\ "invoker" \in WorkerSenders
      /\ m \in Nat
      /\ WorkerBuffer \in Nat
      /\ Accepts(ch, "invoker")
      /\ WithinCapacity(ch, WorkerBuffer)
  BY WorkerFields, WorkerBufferAssumption DEF WorkerInv, WorkerSenders
<1>2. new = [w EXCEPT !.ch = c]
  BY DEF Offered
<1> HIDE DEF ch
<1>3. /\ c \in Channels(Nat, WorkerSenders)
      /\ c.queue = Append(ch.queue, m)
      /\ c.parked = IF Len(ch.queue) < WorkerBuffer
                    THEN ch.parked ELSE Append(ch.parked, "invoker")
      /\ c.open = ch.open
  BY <1>1, PushType
<1>4. WithinCapacity(c, WorkerBuffer)
  BY <1>1, PushWithinCapacity
<1> HIDE DEF c, new
<1>5. /\ new \in Workers
      /\ new.ch = c
      /\ new.owner = w.owner
      /\ new.task = w.task
  BY <1>2, <1>3 DEF Workers, WorkerMessages
<1>6. TerminateWaits(new) <=> TerminateWaits(w)
  <2>1. Holds(Append(q, m), Terminate) <=> Holds(q, Terminate) \/ m = Terminate
    BY <1>0, <1>1, InAppend
  <2> QED
    BY <1>0, <1>3, <1>5, <2>1 DEF TerminateWaits, ch
<1>7. IsFull(c, "owner") => IsFull(ch, "owner")
  <2>1. Holds(Append(parked, "invoker"), "owner") <=> Holds(parked, "owner")
    BY <1>0, <1>1, InAppend
  <2> QED
    BY <1>3, <2>1 DEF IsFull, Holds, ch
<1>8. w.task # "gone"
  BY DEF Accepts, WorkerInv
<1>9. WorkerInv(new)
  BY <1>3, <1>4, <1>5, <1>6, <1>7, <1>8 DEF WorkerInv, Running, ch
<1> QED
  BY <1>3, <1>5, <1>9 DEF new, ch

(***************************************************************************)
(* The drop of the ReceiveWorker (worker.rs:47-56): Terminate is accepted  *)
(* unless the task is gone, so the ignored result loses nothing.           *)
(***************************************************************************)
LEMMA OwnerDroppedOK ==
  ASSUME NEW w \in Workers, WorkerInv(w), w.owner
  PROVE  /\ OwnerDropped(w) \in Workers
         /\ WorkerInv(OwnerDropped(w))
         /\ OwnerDropped(w).owner = FALSE
         /\ OwnerDropped(w).task = w.task
         /\ Accepts(w.ch, "owner") <=> w.task # "gone"
         /\ OwnerDropped(w).ch.queue =
              IF w.task = "gone" THEN w.ch.queue ELSE Append(w.ch.queue, Terminate)
<1> DEFINE new == OwnerDropped(w)
<1>1. Accepts(w.ch, "owner") <=> w.task # "gone"
  BY DEF WorkerInv, Accepts
<1>2. CASE w.task = "gone"
  <2>1. new = [w EXCEPT !.owner = FALSE, !.ch = w.ch]
    BY <1>1, <1>2 DEF OwnerDropped
  <2> HIDE DEF new
  <2>2. new \in Workers /\ new.owner = FALSE /\ new.task = w.task /\ new.ch = w.ch
    BY <2>1 DEF Workers
  <2>3. WorkerInv(new)
    BY <1>2, <2>2 DEF WorkerInv, Running
  <2> QED
    BY <1>1, <1>2, <2>2, <2>3 DEF new
<1>3. CASE w.task # "gone"
  <2> DEFINE ch == w.ch
             q == w.ch.queue
             c == Push(ch, WorkerBuffer, "owner", Terminate)
  <2>0. q \in Seq(Nat)
    BY WorkerFields
  <2>1. /\ ch \in Channels(Nat, WorkerSenders)
        /\ "owner" \in WorkerSenders
        /\ Terminate \in Nat
        /\ WorkerBuffer \in Nat
        /\ Accepts(ch, "owner")
        /\ WithinCapacity(ch, WorkerBuffer)
    BY <1>1, <1>3, WorkerFields, WorkerBufferAssumption DEF WorkerInv, WorkerSenders, Terminate
  <2>2. new = [w EXCEPT !.owner = FALSE, !.ch = c]
    BY <1>1, <1>3 DEF OwnerDropped
  <2> HIDE DEF ch
  <2>3. /\ c \in Channels(Nat, WorkerSenders)
        /\ c.queue = Append(ch.queue, Terminate)
        /\ c.open = ch.open
    BY <2>1, PushType
  <2>4. WithinCapacity(c, WorkerBuffer)
    BY <2>1, PushWithinCapacity
  <2> HIDE DEF c, new
  <2>5. new \in Workers /\ new.owner = FALSE /\ new.task = w.task /\ new.ch = c
    BY <2>2, <2>3 DEF Workers, WorkerMessages
  <2>6. TerminateWaits(new)
    <3>1. Holds(Append(q, Terminate), Terminate)
      BY <2>0, <2>1, InAppend
    <3> QED
      BY <2>3, <2>5, <3>1 DEF TerminateWaits, ch
  <2>7. WorkerInv(new)
    BY <1>3, <2>3, <2>4, <2>5, <2>6 DEF WorkerInv, ch
  <2> QED
    BY <1>1, <1>3, <2>3, <2>5, <2>7 DEF new, ch
<1> QED
  BY <1>2, <1>3

(***************************************************************************)
(* rx.next() yields a message (worker.rs:27-32): a Terminate is only there *)
(* when the owner is gone, and it stays there until it is received.        *)
(***************************************************************************)
LEMMA ReceivedOK ==
  ASSUME NEW w \in Workers, WorkerInv(w), CanReceive(w)
  PROVE  /\ Received(w) \in Workers
         /\ WorkerInv(Received(w))
         /\ Received(w).owner = w.owner
         /\ Received(w).ch.queue = Tail(w.ch.queue)
         /\ Received(w).task =
              IF Head(w.ch.queue) = Terminate THEN "stopping" ELSE "handling"
         /\ Head(w.ch.queue) \in Nat
<1> DEFINE ch == w.ch
           q == w.ch.queue
           parked == w.ch.parked
           c == Pop(ch)
           new == Received(w)
<1>0. q \in Seq(Nat) /\ q # <<>> /\ parked \in Seq(WorkerSenders) /\ w.task = "idle"
  BY WorkerFields DEF CanReceive
<1>1. /\ ch \in Channels(Nat, WorkerSenders)
      /\ ch.queue # <<>>
      /\ WorkerBuffer \in Nat
      /\ WithinCapacity(ch, WorkerBuffer)
  BY WorkerFields, WorkerBufferAssumption DEF CanReceive, WorkerInv
<1>2. new = [w EXCEPT !.ch = c,
                      !.task = IF Head(q) = Terminate THEN "stopping" ELSE "handling"]
  BY DEF Received
<1> HIDE DEF ch
<1>3. /\ c \in Channels(Nat, WorkerSenders)
      /\ c.queue = Tail(ch.queue)
      /\ c.parked = IF ch.parked = <<>> THEN <<>> ELSE Tail(ch.parked)
      /\ c.open = ch.open
      /\ Head(ch.queue) \in Nat
  BY <1>1, PopType
<1>4. WithinCapacity(c, WorkerBuffer)
  BY <1>1, PopWithinCapacity
<1> HIDE DEF c, new
<1>5. /\ new \in Workers
      /\ new.ch = c
      /\ new.owner = w.owner
      /\ new.task = IF Head(q) = Terminate THEN "stopping" ELSE "handling"
  BY <1>2, <1>3 DEF Workers, WorkerMessages, TaskStates
<1>6. TerminateWaits(w) <=> Head(q) = Terminate \/ TerminateWaits(new)
  <2>1. Holds(q, Terminate) <=> Head(q) = Terminate \/ Holds(Tail(q), Terminate)
    BY <1>0, InTail
  <2> QED
    BY <1>3, <1>5, <2>1 DEF TerminateWaits, ch
<1>7. IsFull(c, "owner") => IsFull(ch, "owner")
  <2>1. parked # <<>> /\ Holds(Tail(parked), "owner") => Holds(parked, "owner")
    BY <1>0, InTail
  <2> QED
    BY <1>3, <2>1 DEF IsFull, Holds, ch
<1>8. WorkerInv(new)
  BY <1>0, <1>3, <1>4, <1>5, <1>6, <1>7 DEF WorkerInv, Running, ch
<1> QED
  BY <1>3, <1>5, <1>8 DEF new, ch

(***************************************************************************)
(* The callback comes back and the loop goes on.                           *)
(***************************************************************************)
LEMMA ReturnedOK ==
  ASSUME NEW w \in Workers, WorkerInv(w), w.task = "handling"
  PROVE  /\ [w EXCEPT !.task = "idle"] \in Workers
         /\ WorkerInv([w EXCEPT !.task = "idle"])
         /\ [w EXCEPT !.task = "idle"].ch = w.ch
         /\ [w EXCEPT !.task = "idle"].owner = w.owner
         /\ [w EXCEPT !.task = "idle"].task = "idle"
<1> DEFINE new == [w EXCEPT !.task = "idle"]
<1>1. new \in Workers /\ new.ch = w.ch /\ new.owner = w.owner /\ new.task = "idle"
  BY DEF Workers, TaskStates
<1> HIDE DEF new
<1>2. WorkerInv(new)
  BY <1>1 DEF WorkerInv, Running, TerminateWaits
<1> QED
  BY <1>1, <1>2 DEF new

(***************************************************************************)
(* The future is dropped, and the receiver with it.                        *)
(***************************************************************************)
LEMMA TaskGoneOK ==
  ASSUME NEW w \in Workers
  PROVE  /\ TaskGone(w) \in Workers
         /\ WorkerInv(TaskGone(w))
         /\ TaskGone(w).ch.queue = <<>>
         /\ TaskGone(w).owner = w.owner
         /\ TaskGone(w).task = "gone"
<1> DEFINE c == Close(w.ch)
           new == TaskGone(w)
<1>1. /\ c \in Channels(Nat, WorkerSenders)
      /\ WithinCapacity(c, WorkerBuffer)
  BY WorkerFields, CloseOK, WorkerBufferAssumption
<1>2. c.queue = <<>> /\ c.parked = <<>> /\ c.open = FALSE
  BY DEF Close
<1> HIDE DEF c
<1>3. new = [w EXCEPT !.ch = c, !.task = "gone"]
  BY DEF TaskGone, c
<1> HIDE DEF new
<1>4. new \in Workers /\ new.ch = c /\ new.owner = w.owner /\ new.task = "gone"
  BY <1>1, <1>3 DEF Workers, WorkerMessages, TaskStates
<1>5. WorkerInv(new)
  BY <1>1, <1>2, <1>4 DEF WorkerInv, Running, TerminateWaits, Holds, IsFull
<1> QED
  BY <1>2, <1>4, <1>5 DEF new
=============================================================================
