----------------------------- MODULE CliProofs -----------------------------
(***************************************************************************)
(* The streams of module Cli, for every buffer size and every number of    *)
(* trace lines and host calls: the output arrives in order, nothing is     *)
(* lost behind a status that hides it, and a failure is reported.          *)
(*                                                                         *)
(* The argument is about the writes and flushes still to do: a piece goes  *)
(* to a stream only when the other stream's buffer is empty by then.       *)
(***************************************************************************)
EXTENDS Cli, TLAPS, SequenceTheorems

-----------------------------------------------------------------------------
(* Sequences of writes and flushes. *)

\* Messages about an error go to stderr.
Ops == {o \in [op: {"put", "flush"}, to: Streams, error: BOOLEAN] :
            o.error => o.op = "put" /\ o.to = "stderr"}

IsPut(o, s) == o.op = "put" /\ o.to = s
IsFlush(o, s) == o.op = "flush" /\ o.to = s

\* The buffer of s is empty when operation i of ops is reached, the streams of c
\* being empty at first.
EmptyAt(ops, c, s, i) ==
    \/ s \in c /\ \A k \in 1 .. i - 1 : ~IsPut(ops[k], s)
    \/ \E j \in 1 .. i - 1 : IsFlush(ops[j], s) /\ \A k \in j + 1 .. i - 1 : ~IsPut(ops[k], s)

\* No piece goes to one stream while the other holds some.
Safe(ops, c) ==
    \A i \in 1 .. Len(ops) : \A s \in Streams : IsPut(ops[i], s) => EmptyAt(ops, c, Other(s), i)

\* The streams that are empty after ops.
Leaves(ops, c) == {s \in Streams : EmptyAt(ops, c, s, Len(ops) + 1)}

\* The same for a single operation.
After(o, c) == IF o.op = "put" THEN c \ {o.to} ELSE c \cup {o.to}

\* Begun with the streams of c empty, ops keep the order and leave those of d empty.
Keeps(ops, c, d) == ops \in Seq(Ops) /\ Safe(ops, c) /\ d \subseteq Leaves(ops, c)

-----------------------------------------------------------------------------
(* The inductive invariant. *)

Empties == {s \in Streams : buf[s] = <<>>}

\* What arrived, followed by what a stream holds.
line(s) == shown \o buf[s]

Increasing(q) == \A i, j \in 1 .. Len(q) : i < j => q[i] < q[j]
Below(q, n) == \A i \in 1 .. Len(q) : q[i] <= n
Count(n) == [i \in 1 .. n |-> i]

Has(q, T) == \E i \in 1 .. Len(q) : q[i] \in T

StreamType ==
    /\ buf \in [Streams -> Seq(Nat)] /\ shown \in Seq(Nat)
    /\ made \in Nat /\ lost \subseteq Streams

CliType == StreamType /\ todo \in Seq(Ops)

\* After a failed write or flush only the message is still written, on stderr.
Failing ==
    /\ at = "failed" => \A i \in 1 .. Len(todo) : todo[i].to = "stderr"
    /\ at = "done" => todo = <<>>

\* The order: of stderr always, of stdout until it is given up.
Ordered ==
    /\ at # "done" => Increasing(line("stderr")) /\ Below(line("stderr"), made)
    /\ at \notin {"failed", "done"} => Increasing(line("stdout")) /\ Below(line("stdout"), made)
    /\ InOrder

\* The writes and flushes to come keep the order.
Disciplined ==
    at \notin {"failed", "done"} =>
        /\ Empties # {} /\ Safe(todo, Empties)
        /\ at \in {"command", "load"} => todo = <<>> /\ Empties = Streams
        /\ at = "execute" /\ config.trace => "stdout" \in Leaves(todo, Empties)
        /\ at = "caught" => Len(todo) <= 1
        /\ at = "flushed" => Leaves(todo, Empties) = Streams

\* Until a stream fails, the pieces are all there.
Exact ==
    lost = {} /\ at # "done" =>
        \A s \in Streams : Other(s) \in Empties => line(s) = Count(made)

\* A stream that failed shows in the status.
Admitted ==
    /\ lost # {} => at = "failed" \/ status = "usage_or_io"
    /\ at = "failed" => lost # {}
    /\ at = "caught" => status = "usage_or_io"
    /\ status = "usage_or_io" => at \in {"caught", "flushed", "failed", "done"}

\* A message about a failure has arrived, is buffered or is next, and the flush
\* it needs is still to come.
Reported ==
    \/ "stderr" \in lost
    \/ Has(shown, told) \/ Has(buf["stderr"], told)
    \/ \E i \in 1 .. Len(todo) : todo[i].error
Announced ==
    /\ at \in {"failed", "userError", "caught"} => Reported
    /\ at = "flushed" /\ status = "usage_or_io" => Reported
    /\ at = "flushed" => \A i \in 1 .. Len(todo) : ~todo[i].error
    /\ at = "failed" => "stderr" \in lost \/ "stderr" \in Leaves(todo, Empties)

CliInv ==
    /\ CliType /\ Failing /\ Ordered /\ Disciplined /\ Exact /\ Admitted /\ Announced
    /\ NothingLost /\ FailureReported

-----------------------------------------------------------------------------
(* Sequences of writes and flushes: what their order guarantees. *)

LEMMA OtherFacts ==
    ASSUME NEW s \in Streams
    PROVE  /\ Other(s) \in Streams /\ Other(s) # s /\ Other(Other(s)) = s
           /\ \A t \in Streams : t = s \/ t = Other(s)
  BY DEF Other, Streams

\* The first operation done, the rest sees the streams it leaves empty.
LEMMA TailEmptyAt ==
    ASSUME NEW ops \in Seq(Ops), ops # <<>>, NEW c \in SUBSET Streams, NEW s \in Streams,
           NEW i \in 1 .. Len(ops), EmptyAt(ops, c, s, i + 1)
    PROVE  EmptyAt(Tail(ops), After(Head(ops), c), s, i)
<1> DEFINE t == Tail(ops)
           d == After(ops[1], c)
<1>1. Len(t) = Len(ops) - 1 /\ \A k \in 1 .. Len(t) : t[k] = ops[k + 1]
  BY HeadTailProperties
<1>2. ops[1] \in Ops /\ Head(ops) = ops[1]
  BY HeadTailProperties, ElementOfSeq
<1>3. \A k \in 1 .. i - 1 : t[k] = ops[k + 1]
  BY <1>1
<1> HIDE DEF t
<1>4. CASE \E j \in 1 .. i : IsFlush(ops[j], s) /\ \A k \in j + 1 .. i : ~IsPut(ops[k], s)
  <2>1. PICK j \in 1 .. i : IsFlush(ops[j], s) /\ \A k \in j + 1 .. i : ~IsPut(ops[k], s)
    BY <1>4
  <2>2. CASE j = 1
    <3>1. s \in d
      BY <2>1, <2>2, <1>2 DEF IsFlush, After
    <3>2. \A k \in 1 .. i - 1 : k + 1 \in 2 .. i
      OBVIOUS
    <3>3. \A k \in 1 .. i - 1 : ~IsPut(t[k], s)
      BY <2>1, <2>2, <1>3, <3>2
    <3> QED BY <3>1, <3>3, <1>2 DEF EmptyAt, t
  <2>3. CASE j # 1
    <3> DEFINE l == j - 1
    <3>1. l \in 1 .. i - 1 /\ \A k \in l + 1 .. i - 1 : k + 1 \in j + 1 .. i /\ k \in 1 .. i - 1
      BY <2>3
    <3>2. IsFlush(t[l], s)
      BY <2>1, <1>3, <3>1
    <3>3. \A k \in l + 1 .. i - 1 : ~IsPut(t[k], s)
      BY <2>1, <1>3, <3>1
    <3> HIDE DEF l
    <3> QED BY <3>1, <3>2, <3>3, <1>2 DEF EmptyAt, t
  <2> QED BY <2>2, <2>3
<1>5. CASE s \in c /\ \A k \in 1 .. i : ~IsPut(ops[k], s)
  <2>1. s \in d
    BY <1>5, <1>2 DEF IsPut, After
  <2>2. \A k \in 1 .. i - 1 : k + 1 \in 1 .. i
    OBVIOUS
  <2>3. \A k \in 1 .. i - 1 : ~IsPut(t[k], s)
    BY <1>5, <1>3, <2>2
  <2> QED BY <2>1, <2>3, <1>2 DEF EmptyAt, t
<1>6. i + 1 - 1 = i
  OBVIOUS
<1> QED BY <1>4, <1>5, <1>6 DEF EmptyAt

LEMMA TailLeaves ==
    ASSUME NEW ops \in Seq(Ops), ops # <<>>, NEW c \in SUBSET Streams
    PROVE  Leaves(ops, c) \subseteq Leaves(Tail(ops), After(Head(ops), c))
<1> SUFFICES ASSUME NEW s \in Leaves(ops, c)
             PROVE  s \in Leaves(Tail(ops), After(Head(ops), c))
  OBVIOUS
<1>1. s \in Streams /\ EmptyAt(ops, c, s, Len(ops) + 1)
  BY DEF Leaves
<1>2. Len(ops) \in 1 .. Len(ops) /\ Len(Tail(ops)) + 1 = Len(ops)
  BY HeadTailProperties, LenProperties, EmptySeq
<1>3. EmptyAt(Tail(ops), After(Head(ops), c), s, Len(ops))
  BY <1>1, <1>2, TailEmptyAt
<1> QED BY <1>1, <1>2, <1>3 DEF Leaves

LEMMA TailSafe ==
    ASSUME NEW ops \in Seq(Ops), ops # <<>>, NEW c \in SUBSET Streams, Safe(ops, c)
    PROVE  /\ Safe(Tail(ops), After(Head(ops), c))
           /\ Head(ops).op = "put" => Other(Head(ops).to) \in c
<1> DEFINE t == Tail(ops)
           d == After(Head(ops), c)
<1>1. Len(t) \in Nat /\ Len(t) = Len(ops) - 1 /\ \A k \in 1 .. Len(t) : t[k] = ops[k + 1]
  BY HeadTailProperties, LenProperties
<1>2. ops[1] \in Ops /\ Head(ops) = ops[1] /\ 1 \in 1 .. Len(ops)
  BY HeadTailProperties, ElementOfSeq, EmptySeq, LenProperties
<1>3. Safe(t, d)
  <2> SUFFICES ASSUME NEW i \in 1 .. Len(t), NEW s \in Streams, IsPut(t[i], s)
               PROVE  EmptyAt(t, d, Other(s), i)
    BY DEF Safe
  <2>1. i + 1 \in 1 .. Len(ops) /\ i \in 1 .. Len(ops) /\ t[i] = ops[i + 1]
    BY <1>1, LenProperties
  <2>2. EmptyAt(ops, c, Other(s), i + 1)
    BY <2>1 DEF Safe
  <2> QED BY <2>1, <2>2, TailEmptyAt, OtherFacts
<1>5. ASSUME Head(ops).op = "put" PROVE Other(Head(ops).to) \in c
  <2> DEFINE s == ops[1].to
  <2>1. s \in Streams /\ IsPut(ops[1], s)
    BY <1>2, <1>5 DEF Ops, IsPut
  <2> HIDE DEF s
  <2>2. EmptyAt(ops, c, Other(s), 1)
    BY <2>1, <1>2 DEF Safe
  <2>3. Other(s) \in c
    BY <2>2 DEF EmptyAt
  <2> QED BY <2>3, <1>2 DEF s
<1> QED BY <1>3, <1>5

\* More streams empty at first: no harm.
LEMMA MoreEmpty ==
    ASSUME NEW ops, NEW c, NEW d, c \subseteq d
    PROVE  /\ Safe(ops, c) => Safe(ops, d)
           /\ Leaves(ops, c) \subseteq Leaves(ops, d)
  BY DEF Safe, Leaves, EmptyAt

\* Nothing to do.
LEMMA NothingToDo ==
    ASSUME NEW c \in SUBSET Streams
    PROVE  Safe(<<>>, c) /\ Leaves(<<>>, c) = c
  BY DEF Safe, Leaves, EmptyAt

\* One sequence after another.
LEMMA ConcatEmptyAt ==
    ASSUME NEW a \in Seq(Ops), NEW b \in Seq(Ops), NEW c \in SUBSET Streams, NEW s \in Streams
    PROVE  /\ \A i \in 1 .. Len(a) : EmptyAt(a, c, s, i) => EmptyAt(a \o b, c, s, i)
           /\ \A i \in 1 .. Len(b) + 1 :
                EmptyAt(b, Leaves(a, c), s, i) => EmptyAt(a \o b, c, s, Len(a) + i)
<1> DEFINE q == a \o b
           n == Len(a)
           m == Len(b)
<1>1. /\ n \in Nat /\ m \in Nat /\ Len(q) = n + m
      /\ \A k \in 1 .. n : q[k] = a[k]
      /\ \A k \in 1 .. m : q[n + k] = b[k]
  BY ConcatProperties, LenProperties
<1> HIDE DEF q, n, m
<1>2. ASSUME NEW i \in 1 .. n, EmptyAt(a, c, s, i) PROVE EmptyAt(q, c, s, i)
  <2>1. \A k \in 1 .. i - 1 : q[k] = a[k]
    BY <1>1
  <2>2. CASE s \in c /\ \A k \in 1 .. i - 1 : ~IsPut(a[k], s)
    BY <2>1, <2>2 DEF EmptyAt
  <2>3. CASE \E j \in 1 .. i - 1 : IsFlush(a[j], s) /\ \A k \in j + 1 .. i - 1 : ~IsPut(a[k], s)
    <3>1. PICK j \in 1 .. i - 1 : IsFlush(a[j], s) /\ \A k \in j + 1 .. i - 1 : ~IsPut(a[k], s)
      BY <2>3
    <3>2. IsFlush(q[j], s) /\ \A k \in j + 1 .. i - 1 : ~IsPut(q[k], s)
      BY <2>1, <3>1
    <3> QED BY <3>2 DEF EmptyAt
  <2> QED BY <1>2, <2>2, <2>3 DEF EmptyAt
<1>3. ASSUME NEW i \in 1 .. m + 1, EmptyAt(b, Leaves(a, c), s, i) PROVE EmptyAt(q, c, s, n + i)
  <2>1. \A k \in n + 1 .. n + i - 1 : k - n \in 1 .. i - 1 /\ k - n \in 1 .. m
    BY <1>1
  <2>2. \A k \in n + 1 .. n + i - 1 : q[k] = b[k - n]
    <3> SUFFICES ASSUME NEW k \in n + 1 .. n + i - 1 PROVE q[k] = b[k - n]
      OBVIOUS
    <3>1. q[n + (k - n)] = b[k - n]
      BY <1>1, <2>1
    <3>2. n + (k - n) = k
      BY <1>1
    <3> QED BY <3>1, <3>2
  <2>3. CASE s \in Leaves(a, c) /\ \A k \in 1 .. i - 1 : ~IsPut(b[k], s)
    <3>1. \A k \in n + 1 .. n + i - 1 : ~IsPut(q[k], s)
      BY <2>1, <2>2, <2>3
    <3>2. EmptyAt(a, c, s, n + 1)
      BY <2>3 DEF Leaves, n
    <3>3. CASE s \in c /\ \A k \in 1 .. n : ~IsPut(a[k], s)
      <4>1. \A k \in 1 .. n + i - 1 : k \in 1 .. n \/ k \in n + 1 .. n + i - 1
        BY <1>1
      <4>2. \A k \in 1 .. n + i - 1 : ~IsPut(q[k], s)
        BY <4>1, <3>1, <3>3, <1>1
      <4> QED BY <4>2, <3>3, <1>1 DEF EmptyAt
    <3>4. CASE \E j \in 1 .. n : IsFlush(a[j], s) /\ \A k \in j + 1 .. n : ~IsPut(a[k], s)
      <4>1. PICK j \in 1 .. n : IsFlush(a[j], s) /\ \A k \in j + 1 .. n : ~IsPut(a[k], s)
        BY <3>4
      <4>2. \A k \in j + 1 .. n + i - 1 : (k \in j + 1 .. n /\ k \in 1 .. n) \/ k \in n + 1 .. n + i - 1
        BY <1>1
      <4>3. IsFlush(q[j], s) /\ j \in 1 .. n + i - 1
        BY <4>1, <1>1
      <4>4. \A k \in j + 1 .. n + i - 1 : ~IsPut(q[k], s)
        BY <4>1, <4>2, <3>1, <1>1
      <4> QED BY <4>3, <4>4, <1>1 DEF EmptyAt
    <3>5. n + 1 - 1 = n
      BY <1>1
    <3> QED BY <3>2, <3>3, <3>4, <3>5, <1>1 DEF EmptyAt
  <2>4. CASE \E j \in 1 .. i - 1 : IsFlush(b[j], s) /\ \A k \in j + 1 .. i - 1 : ~IsPut(b[k], s)
    <3>1. PICK j \in 1 .. i - 1 : IsFlush(b[j], s) /\ \A k \in j + 1 .. i - 1 : ~IsPut(b[k], s)
      BY <2>4
    <3> DEFINE l == n + j
    <3>2. l \in n + 1 .. n + i - 1 /\ l \in 1 .. n + i - 1 /\ l - n = j
      BY <1>1
    <3>3. \A k \in l + 1 .. n + i - 1 : k \in n + 1 .. n + i - 1 /\ k - n \in j + 1 .. i - 1
      BY <1>1
    <3> HIDE DEF l
    <3>4. IsFlush(q[l], s) /\ \A k \in l + 1 .. n + i - 1 : ~IsPut(q[k], s)
      BY <3>1, <3>2, <3>3, <2>2
    <3> QED BY <3>2, <3>4, <1>1 DEF EmptyAt
  <2> QED BY <1>3, <2>3, <2>4 DEF EmptyAt
<1> QED BY <1>2, <1>3 DEF q, n, m

LEMMA ConcatSafe ==
    ASSUME NEW a \in Seq(Ops), NEW b \in Seq(Ops), NEW c \in SUBSET Streams,
           Safe(a, c), Safe(b, Leaves(a, c))
    PROVE  a \o b \in Seq(Ops) /\ Safe(a \o b, c) /\ Leaves(b, Leaves(a, c)) \subseteq Leaves(a \o b, c)
<1> DEFINE q == a \o b
           n == Len(a)
           m == Len(b)
<1>1. /\ q \in Seq(Ops) /\ n \in Nat /\ m \in Nat /\ Len(q) = n + m
      /\ \A k \in 1 .. n : q[k] = a[k]
      /\ \A k \in 1 .. m : q[n + k] = b[k]
  BY ConcatProperties, LenProperties
<1> HIDE DEF q, n, m
<1>2. ASSUME NEW s \in Streams
      PROVE  /\ \A i \in 1 .. n : EmptyAt(a, c, s, i) => EmptyAt(q, c, s, i)
             /\ \A i \in 1 .. m + 1 : EmptyAt(b, Leaves(a, c), s, i) => EmptyAt(q, c, s, n + i)
  BY ConcatEmptyAt DEF q, n, m
<1>3. ASSUME NEW i \in 1 .. Len(q), NEW s \in Streams, IsPut(q[i], s)
      PROVE  EmptyAt(q, c, Other(s), i)
  <2>1. CASE i <= n
    <3>1. i \in 1 .. n /\ IsPut(a[i], s)
      BY <2>1, <1>1, <1>3
    <3>2. EmptyAt(a, c, Other(s), i)
      BY <3>1 DEF Safe, n
    <3> QED BY <3>1, <3>2, <1>2, OtherFacts
  <2>2. CASE i > n
    <3> DEFINE j == i - n
    <3>1. j \in 1 .. m /\ j \in 1 .. m + 1 /\ n + j = i
      BY <2>2, <1>1
    <3> HIDE DEF j
    <3>2. IsPut(b[j], s)
      BY <3>1, <1>1, <1>3
    <3>3. EmptyAt(b, Leaves(a, c), Other(s), j)
      BY <3>1, <3>2 DEF Safe, m
    <3> QED BY <3>1, <3>3, <1>2, OtherFacts
  <2> QED BY <2>1, <2>2, <1>1
<1>4. ASSUME NEW s \in Leaves(b, Leaves(a, c)) PROVE s \in Leaves(q, c)
  <2>1. s \in Streams /\ EmptyAt(b, Leaves(a, c), s, m + 1)
    BY <1>4 DEF Leaves, m
  <2>2. m + 1 \in 1 .. m + 1 /\ n + (m + 1) = Len(q) + 1
    BY <1>1
  <2>3. EmptyAt(q, c, s, n + (m + 1))
    BY <2>1, <2>2, <1>2
  <2> QED BY <2>1, <2>2, <2>3 DEF Leaves
<1> QED BY <1>1, <1>3, <1>4 DEF q, Safe

\* A single write, a single flush.
LEMMA OnePut ==
    ASSUME NEW o \in Ops, o.op = "put", NEW c \in SUBSET Streams, Other(o.to) \in c
    PROVE  <<o>> \in Seq(Ops) /\ Safe(<<o>>, c) /\ Other(o.to) \in Leaves(<<o>>, c)
<1>1. Len(<<o>>) = 1 /\ <<o>>[1] = o /\ <<o>> \in Seq(Ops) /\ o.to \in Streams
  BY DEF Ops
<1>2. \A s \in Streams : IsPut(o, s) => s = o.to
  BY DEF IsPut
<1>3. EmptyAt(<<o>>, c, Other(o.to), 1)
  BY DEF EmptyAt
<1>4. ~IsPut(o, Other(o.to))
  BY <1>1, OtherFacts DEF IsPut
<1>5. EmptyAt(<<o>>, c, Other(o.to), 2)
  BY <1>1, <1>4 DEF EmptyAt
<1> QED BY <1>1, <1>2, <1>3, <1>5, OtherFacts DEF Safe, Leaves

LEMMA OneFlush ==
    ASSUME NEW o \in Ops, o.op = "flush", NEW c \in SUBSET Streams
    PROVE  <<o>> \in Seq(Ops) /\ Safe(<<o>>, c) /\ c \cup {o.to} \subseteq Leaves(<<o>>, c)
<1>1. Len(<<o>>) = 1 /\ <<o>>[1] = o /\ <<o>> \in Seq(Ops) /\ o.to \in Streams
  BY DEF Ops
<1>2. \A s \in Streams : ~IsPut(o, s)
  BY DEF IsPut
<1>3. Safe(<<o>>, c)
  BY <1>1, <1>2 DEF Safe
<1>4. \A s \in c : EmptyAt(<<o>>, c, s, 2)
  BY <1>1, <1>2 DEF EmptyAt
<1>5. IsFlush(<<o>>[1], o.to) /\ 1 \in 1 .. 2 - 1 /\ \A k \in 2 .. 2 - 1 : FALSE
  BY <1>1 DEF IsFlush
<1>6. EmptyAt(<<o>>, c, o.to, 2)
  BY <1>5 DEF EmptyAt
<1> QED BY <1>1, <1>3, <1>4, <1>6 DEF Leaves

\* Any number of writes to one stream.
LEMMA ManyPuts ==
    ASSUME NEW s \in Streams, NEW n \in Nat, NEW c \in SUBSET Streams, Other(s) \in c
    PROVE  LET ops == [i \in 1 .. n |-> Put(s)]
           IN  ops \in Seq(Ops) /\ Safe(ops, c) /\ Other(s) \in Leaves(ops, c)
<1> DEFINE ops == [i \in 1 .. n |-> Put(s)]
<1>1. Put(s) \in Ops /\ ops \in Seq(Ops) /\ Len(ops) = n /\ \A i \in 1 .. n : ops[i] = Put(s)
  BY DEF Put, Ops
<1>2. \A t \in Streams : IsPut(Put(s), t) => t = s
  BY DEF IsPut, Put
<1> HIDE DEF ops
<1>3. ASSUME NEW i \in 1 .. n + 1 PROVE EmptyAt(ops, c, Other(s), i)
  <2>1. \A k \in 1 .. i - 1 : ~IsPut(ops[k], Other(s))
    BY <1>1, <1>2, OtherFacts
  <2> QED BY <2>1 DEF EmptyAt
<1>4. Safe(ops, c)
  BY <1>1, <1>2, <1>3 DEF Safe
<1>5. Other(s) \in Leaves(ops, c)
  BY <1>1, <1>3, OtherFacts DEF Leaves
<1> QED BY <1>1, <1>4, <1>5 DEF ops

-----------------------------------------------------------------------------
(* What the steps queue. *)

LEMMA OpsFacts ==
    ASSUME NEW s \in Streams
    PROVE  /\ Put(s) \in Ops /\ Put(s).op = "put" /\ Put(s).to = s /\ ~Put(s).error
           /\ Flush(s) \in Ops /\ Flush(s).op = "flush" /\ Flush(s).to = s /\ ~Flush(s).error
           /\ PutError("stderr") \in Ops /\ PutError("stderr").op = "put"
           /\ PutError("stderr").to = "stderr" /\ PutError("stderr").error
           /\ "stdout" \in Streams /\ "stderr" \in Streams
  BY DEF Put, Flush, PutError, Ops, Streams

LEMMA KeepsNothing ==
    ASSUME NEW c \in SUBSET Streams
    PROVE  Keeps(<<>>, c, c)
  BY NothingToDo DEF Keeps

LEMMA KeepsMore ==
    ASSUME NEW ops, NEW c, NEW d, NEW b, NEW e, Keeps(ops, c, d), c \subseteq b, e \subseteq d
    PROVE  Keeps(ops, b, e)
  BY MoreEmpty DEF Keeps

LEMMA KeepsConcat ==
    ASSUME NEW f, NEW g, NEW c \in SUBSET Streams, NEW d, NEW e, Keeps(f, c, d), Keeps(g, d, e)
    PROVE  Keeps(f \o g, c, e)
<1>1. Safe(g, Leaves(f, c)) /\ e \subseteq Leaves(g, Leaves(f, c))
  BY MoreEmpty DEF Keeps
<1>2. f \in Seq(Ops) /\ g \in Seq(Ops) /\ Safe(f, c)
  BY DEF Keeps
<1> QED BY <1>1, <1>2, ConcatSafe DEF Keeps

LEMMA KeepsPut ==
    ASSUME NEW s \in Streams
    PROVE  Keeps(<<Put(s)>>, {Other(s)}, {Other(s)})
  BY OnePut, OpsFacts, OtherFacts DEF Keeps

LEMMA KeepsError == Keeps(<<PutError("stderr")>>, {"stdout"}, {"stdout"})
<1>1. "stderr" \in Streams /\ Other("stderr") = "stdout" /\ "stdout" \in Streams
  BY DEF Streams, Other
<1> QED BY <1>1, OnePut, OpsFacts DEF Keeps

LEMMA KeepsFlush ==
    ASSUME NEW s \in Streams, NEW c \in SUBSET Streams
    PROVE  Keeps(<<Flush(s)>>, c, c \cup {s})
  BY OneFlush, OpsFacts DEF Keeps

LEMMA Pairs ==
    ASSUME NEW x \in Ops, NEW y \in Ops
    PROVE  <<x>> \o <<y>> = <<x, y>>
<1> DEFINE a == <<x>>
           b == <<y>>
           d == <<x, y>>
           q == a \o b
<1>1. /\ a \in Seq(Ops) /\ b \in Seq(Ops) /\ d \in Seq(Ops)
      /\ Len(a) = 1 /\ Len(b) = 1 /\ Len(d) = 2
      /\ a[1] = x /\ b[1] = y /\ d[1] = x /\ d[2] = y
  OBVIOUS
<1> HIDE DEF a, b, d
<1>2. /\ q \in Seq(Ops) /\ Len(q) = 1 + 1
      /\ \A i \in 1 .. 1 + 1 : q[i] = IF i <= 1 THEN a[i] ELSE b[i - 1]
  BY <1>1, ConcatProperties
<1> HIDE DEF q
<1>3. q[1] = x /\ q[2] = y /\ Len(q) = 2
  BY <1>1, <1>2
<1>4. q = d
  BY <1>1, <1>2, <1>3, SeqEqual
<1> QED BY <1>4 DEF a, b, d, q

LEMMA Triples ==
    ASSUME NEW x \in Ops, NEW y \in Ops, NEW z \in Ops
    PROVE  <<x>> \o <<y, z>> = <<x, y, z>>
<1> DEFINE a == <<x>>
           b == <<y, z>>
           d == <<x, y, z>>
           q == a \o b
<1>1. /\ a \in Seq(Ops) /\ b \in Seq(Ops) /\ d \in Seq(Ops)
      /\ Len(a) = 1 /\ Len(b) = 2 /\ Len(d) = 3
      /\ a[1] = x /\ b[1] = y /\ b[2] = z /\ d[1] = x /\ d[2] = y /\ d[3] = z
  OBVIOUS
<1> HIDE DEF a, b, d
<1>2. /\ q \in Seq(Ops) /\ Len(q) = 1 + 2
      /\ \A i \in 1 .. 1 + 2 : q[i] = IF i <= 1 THEN a[i] ELSE b[i - 1]
  <2>1. /\ q \in Seq(Ops) /\ Len(q) = Len(a) + Len(b)
        /\ \A i \in 1 .. Len(a) + Len(b) : q[i] = IF i <= Len(a) THEN a[i] ELSE b[i - Len(a)]
    BY <1>1, ConcatProperties
  <2> HIDE DEF q
  <2> QED BY <2>1, <1>1
<1> HIDE DEF q
<1>3. q[1] = x /\ q[2] = y /\ q[3] = z /\ Len(q) = 3
  BY <1>1, <1>2
<1>4. q = d
  BY <1>1, <1>2, <1>3, SeqEqual, SMTT(30)
<1> QED BY <1>4 DEF a, b, d, q

\* Lines for stderr, once stdout is empty.
LEMMA KeepsLines ==
    /\ Keeps(<<Put("stderr")>>, {"stdout"}, {"stdout"})
    /\ Keeps(<<Put("stderr"), Put("stderr")>>, {"stdout"}, {"stdout"})
    /\ Keeps(<<PutError("stderr"), Put("stderr")>>, {"stdout"}, {"stdout"})
<1>1. "stderr" \in Streams /\ Other("stderr") = "stdout" /\ {"stdout"} \in SUBSET Streams
  BY DEF Streams, Other
<1>2. Keeps(<<Put("stderr")>>, {"stdout"}, {"stdout"})
  BY <1>1, KeepsPut
<1>3. Keeps(<<Put("stderr")>> \o <<Put("stderr")>>, {"stdout"}, {"stdout"})
  BY <1>1, <1>2, KeepsConcat
<1>4. Keeps(<<PutError("stderr")>> \o <<Put("stderr")>>, {"stdout"}, {"stdout"})
  BY <1>1, <1>2, KeepsError, KeepsConcat
<1>5. <<Put("stderr")>> \o <<Put("stderr")>> = <<Put("stderr"), Put("stderr")>>
  BY <1>1, OpsFacts, Pairs
<1>6. <<PutError("stderr")>> \o <<Put("stderr")>> = <<PutError("stderr"), Put("stderr")>>
  BY <1>1, OpsFacts, Pairs
<1> QED BY <1>2, <1>3, <1>4, <1>5, <1>6

\* Output of the program itself, which needs the stderr of the start-up empty.
LEMMA KeepsOutput ==
    /\ Keeps(<<Put("stdout")>>, {"stderr"}, {"stderr"})
    /\ Keeps(<<Put("stdout"), Put("stdout")>>, {"stderr"}, {"stderr"})
<1>1. "stdout" \in Streams /\ Other("stdout") = "stderr" /\ {"stderr"} \in SUBSET Streams
  BY DEF Streams, Other
<1>2. Keeps(<<Put("stdout")>>, {"stderr"}, {"stderr"})
  BY <1>1, KeepsPut
<1>3. Keeps(<<Put("stdout")>> \o <<Put("stdout")>>, {"stderr"}, {"stderr"})
  BY <1>1, <1>2, KeepsConcat
<1>4. <<Put("stdout")>> \o <<Put("stdout")>> = <<Put("stdout"), Put("stdout")>>
  BY <1>1, OpsFacts, Pairs
<1> QED BY <1>2, <1>3, <1>4

\* A section needs nothing: it flushes stdout itself.
LEMMA KeepsSection ==
    ASSUME NEW lines, Keeps(lines, {"stdout"}, {"stdout"}), NEW c \in SUBSET Streams
    PROVE  Keeps(section(lines), c, {"stdout"})
<1> DEFINE blank == IF started THEN <<Put("stderr")>> ELSE <<>>
           first == <<Flush("stdout")>>
<1>1. "stdout" \in Streams /\ {"stdout"} \in SUBSET Streams
  BY DEF Streams
<1>2. Keeps(first, c, {"stdout"})
  <2>1. Keeps(first, c, c \cup {"stdout"})
    BY <1>1, KeepsFlush
  <2> QED BY <2>1, KeepsMore
<1>3. Keeps(blank, {"stdout"}, {"stdout"})
  BY <1>1, KeepsLines, KeepsNothing
<1> HIDE DEF blank, first
<1>4. Keeps(first \o blank, c, {"stdout"})
  BY <1>1, <1>2, <1>3, KeepsConcat
<1>5. Keeps((first \o blank) \o lines, c, {"stdout"})
  BY <1>1, <1>4, KeepsConcat
<1> QED BY <1>5 DEF section, first, blank

LEMMA KeepsHeader ==
    ASSUME NEW c \in SUBSET Streams
    PROVE  Keeps(header \o <<Flush("stderr")>>, c, Streams)
<1>1. "stderr" \in Streams /\ "stdout" \in Streams /\ {"stdout"} \in SUBSET Streams /\ Streams = {"stdout"} \cup {"stderr"}
  BY DEF Streams
<1>2. Keeps(header, c, {"stdout"})
  <2>1. CASE ~config.demo
    BY <2>1, KeepsSection, KeepsLines DEF header
  <2>2. CASE config.demo
    <3> DEFINE one == section(<<Put("stderr"), Put("stderr")>>)
               two == <<Put("stderr"), Put("stderr")>>
               three == <<Flush("stdout")>> \o two
    <3>1. Keeps(one, c, {"stdout"})
      BY KeepsSection, KeepsLines
    <3>2. Keeps(<<Flush("stdout")>>, {"stdout"}, {"stdout"})
      BY <1>1, KeepsFlush, KeepsMore
    <3>3. Keeps(three, {"stdout"}, {"stdout"})
      BY <1>1, <3>2, KeepsLines, KeepsConcat
    <3>4. three = <<Flush("stdout"), Put("stderr"), Put("stderr")>>
      BY <1>1, OpsFacts, Triples
    <3> HIDE DEF one, three
    <3>5. Keeps(one \o three, c, {"stdout"})
      BY <1>1, <3>1, <3>3, KeepsConcat
    <3> QED BY <2>2, <3>4, <3>5 DEF header, one
  <2> QED BY <2>1, <2>2
<1>3. Keeps(<<Flush("stderr")>>, {"stdout"}, Streams)
  BY <1>1, KeepsFlush
<1> QED BY <1>2, <1>3, KeepsConcat

\* The trace needs stdout empty, and leaves it so.
LEMMA KeepsTrace ==
    ASSUME NEW end, NEW n \in Nat, NEW c \in SUBSET Streams, config.trace => "stdout" \in c
    PROVE  Keeps(traceLines(end, n), c, {})
<1>1. CASE ~config.trace
  BY <1>1, KeepsNothing, KeepsMore DEF traceLines
<1>2. CASE config.trace
  <2> DEFINE m == n + (IF end \in {"ebreak", "ecall"} THEN 1 ELSE 0)
  <2>1. m \in Nat /\ traceLines(end, n) = [i \in 1 .. m |-> Put("stderr")]
    BY <1>2 DEF traceLines
  <2> HIDE DEF m
  <2>2. "stderr" \in Streams /\ Other("stderr") \in c
    BY <1>2 DEF Streams, Other
  <2> QED BY <2>1, <2>2, ManyPuts DEF Keeps
<1> QED BY <1>1, <1>2

\* The streams the next run needs empty.
Needed == IF config.trace THEN {"stdout"} ELSE {}

LEMMA KeepsResume ==
    ASSUME NEW c \in SUBSET Streams
    PROVE  Keeps(afterResume, c, Needed)
<1>1. CASE config.trace
  <2>1. "stdout" \in Streams
    BY DEF Streams
  <2>2. Keeps(<<Flush("stdout")>>, c, c \cup {"stdout"})
    BY <2>1, KeepsFlush
  <2>3. Keeps(<<Flush("stdout")>>, c, {"stdout"})
    BY <2>2, KeepsMore
  <2> QED BY <1>1, <2>3 DEF afterResume, Needed
<1>2. CASE ~config.trace
  <2>1. Keeps(<<>>, c, {})
    BY KeepsNothing, KeepsMore
  <2> QED BY <1>2, <2>1 DEF afterResume, Needed
<1> QED BY <1>1, <1>2

\* What follows a write on a stream: the other one is flushed first.
LEMMA KeepsHostCall ==
    ASSUME NEW s \in Streams, NEW c \in SUBSET Streams
    PROVE  /\ Keeps(flushOther(s) \o <<Put(s)>> \o afterResume, c, Needed)
           /\ Keeps(flushOther(s) \o afterResume, c, Needed)
<1> DEFINE d == {Other(s)}
           f == flushOther(s)
           g == f \o <<Put(s)>>
<1>1. d \in SUBSET Streams /\ Other(s) \in Streams
  BY OtherFacts
<1>2. Keeps(f, c, d)
  <2>1. Keeps(<<Flush(Other(s))>>, c, c \cup {Other(s)})
    BY <1>1, KeepsFlush
  <2> QED BY <2>1, KeepsMore DEF flushOther
<1> HIDE DEF f
<1>3. Keeps(g, c, d)
  BY <1>1, <1>2, KeepsPut, KeepsConcat
<1> HIDE DEF g
<1>4. Keeps(afterResume, d, Needed)
  BY <1>1, KeepsResume
<1> HIDE DEF d
<1>5. Keeps(g \o afterResume, c, Needed)
  BY <1>3, <1>4, KeepsConcat
<1>6. Keeps(f \o afterResume, c, Needed)
  BY <1>2, <1>4, KeepsConcat
<1> QED BY <1>5, <1>6 DEF f, g

\* The flushes at the end.
LEMMA KeepsFlushes ==
    ASSUME NEW c \in SUBSET Streams
    PROVE  Keeps(<<Flush("stdout"), Flush("stderr")>>, c, Streams)
<1>1. /\ "stdout" \in Streams /\ "stderr" \in Streams
      /\ c \cup {"stdout"} \in SUBSET Streams /\ Streams \subseteq (c \cup {"stdout"}) \cup {"stderr"}
  BY DEF Streams
<1>2. Keeps(<<Flush("stdout")>>, c, c \cup {"stdout"})
  BY <1>1, KeepsFlush
<1> DEFINE d == c \cup {"stdout"}
<1> HIDE DEF d
<1>3. Keeps(<<Flush("stderr")>>, d, d \cup {"stderr"})
  BY <1>1, KeepsFlush DEF d
<1>4. Keeps(<<Flush("stdout")>> \o <<Flush("stderr")>>, c, d \cup {"stderr"})
  BY <1>2, <1>3, KeepsConcat DEF d
<1>5. <<Flush("stdout")>> \o <<Flush("stderr")>> = <<Flush("stdout"), Flush("stderr")>>
  BY <1>1, OpsFacts, Pairs
<1> QED BY <1>1, <1>4, <1>5, KeepsMore DEF d

\* outputFailed() writes its message and flushes it, on stderr.
LEMMA OutputFailedFacts ==
    /\ outputFailed \in Seq(Ops) /\ Len(outputFailed) = 2
    /\ \A i \in 1 .. Len(outputFailed) : outputFailed[i].to = "stderr"
    /\ \E i \in 1 .. Len(outputFailed) : outputFailed[i].error
    /\ \A c : "stderr" \in Leaves(outputFailed, c)
<1> DEFINE x == PutError("stderr")
           y == Flush("stderr")
           q == <<x, y>>
<1>1. "stderr" \in Streams /\ x \in Ops /\ y \in Ops /\ x.to = "stderr" /\ x.error /\ y.to = "stderr" /\ y.op = "flush"
  BY OpsFacts DEF Streams
<1> HIDE DEF x, y
<1>2. q \in Seq(Ops) /\ Len(q) = 2 /\ q[1] = x /\ q[2] = y
  BY <1>1
<1> HIDE DEF q
<1>3. q = outputFailed
  BY DEF q, x, y, outputFailed
<1>4. IsFlush(q[2], "stderr") /\ 2 \in 1 .. 3 - 1 /\ \A k \in 2 + 1 .. 3 - 1 : FALSE
  BY <1>1, <1>2 DEF IsFlush
<1>5. \A c : EmptyAt(q, c, "stderr", 3)
  BY <1>4 DEF EmptyAt
<1>6. \A c : "stderr" \in Leaves(q, c)
  BY <1>1, <1>2, <1>5 DEF Leaves
<1>7. \A i \in 1 .. Len(q) : q[i].to = "stderr"
  BY <1>1, <1>2
<1>8. \E i \in 1 .. Len(q) : q[i].error
  BY <1>1, <1>2
<1> QED BY <1>2, <1>3, <1>6, <1>7, <1>8

-----------------------------------------------------------------------------
(* The pieces of a stream. *)

LEMMA Grows ==
    ASSUME NEW q \in Seq(Nat), NEW n \in Nat, Increasing(q), Below(q, n)
    PROVE  Increasing(Append(q, n + 1)) /\ Below(Append(q, n + 1), n + 1)
<1> DEFINE r == Append(q, n + 1)
<1>1. /\ Len(q) \in Nat /\ Len(r) = Len(q) + 1 /\ r[Len(q) + 1] = n + 1
      /\ \A i \in 1 .. Len(q) : r[i] = q[i] /\ q[i] \in Nat
  BY AppendProperties, LenProperties
<1> HIDE DEF r
<1>2. \A i \in 1 .. Len(r) : i \in 1 .. Len(q) \/ i = Len(q) + 1
  BY <1>1
<1>3. \A i \in 1 .. Len(q) : q[i] <= n
  BY DEF Below
<1>4. ASSUME NEW i \in 1 .. Len(r), NEW j \in 1 .. Len(r), i < j PROVE r[i] < r[j]
  <2>1. i \in 1 .. Len(q)
    BY <1>1, <1>4
  <2>2. CASE j \in 1 .. Len(q)
    BY <1>1, <1>4, <2>1, <2>2 DEF Increasing
  <2>3. CASE j = Len(q) + 1
    <3>1. q[i] \in Nat /\ q[i] <= n /\ r[i] = q[i] /\ r[j] = n + 1
      BY <1>1, <1>3, <2>1, <2>3
    <3> QED BY <3>1
  <2> QED BY <1>2, <2>2, <2>3
<1>5. ASSUME NEW i \in 1 .. Len(r) PROVE r[i] <= n + 1
  <2>1. CASE i \in 1 .. Len(q)
    <3>1. q[i] \in Nat /\ q[i] <= n /\ r[i] = q[i]
      BY <1>1, <1>3, <2>1
    <3> QED BY <3>1
  <2>2. CASE i = Len(q) + 1
    BY <1>1, <2>2
  <2> QED BY <1>2, <2>1, <2>2
<1> QED BY <1>4, <1>5 DEF Increasing, Below, r

LEMMA Prefix ==
    ASSUME NEW p \in Seq(Nat), NEW q \in Seq(Nat), NEW n
    PROVE  /\ Increasing(p \o q) => Increasing(p)
           /\ Below(p \o q, n) => Below(p, n)
<1> DEFINE r == p \o q
<1>1. /\ Len(p) \in Nat /\ Len(q) \in Nat /\ Len(r) = Len(p) + Len(q)
      /\ \A i \in 1 .. Len(p) : r[i] = p[i] /\ i \in 1 .. Len(r)
  BY ConcatProperties, LenProperties
<1> HIDE DEF r
<1> QED BY <1>1 DEF Increasing, Below, r

LEMMA BelowMore ==
    ASSUME NEW q \in Seq(Nat), NEW n \in Nat, NEW m \in Nat, n <= m, Below(q, n)
    PROVE  Below(q, m)
<1>1. \A i \in 1 .. Len(q) : q[i] \in Nat /\ q[i] <= n
  BY ElementOfSeq DEF Below
<1> QED BY <1>1 DEF Below

LEMMA CountGrows ==
    ASSUME NEW n \in Nat
    PROVE  Count(n) \in Seq(Nat) /\ Append(Count(n), n + 1) = Count(n + 1)
<1> DEFINE q == Count(n)
           r == Count(n + 1)
           a == Append(q, n + 1)
<1>1. /\ q \in Seq(Nat) /\ Len(q) = n /\ \A i \in 1 .. n : q[i] = i
      /\ r \in Seq(Nat) /\ Len(r) = n + 1 /\ \A i \in 1 .. n + 1 : r[i] = i
  BY DEF Count
<1> HIDE DEF q, r
<1>2. a \in Seq(Nat) /\ Len(a) = n + 1 /\ a[n + 1] = n + 1 /\ \A i \in 1 .. n : a[i] = q[i]
  BY <1>1, AppendProperties
<1> HIDE DEF a
<1>3. \A i \in 1 .. n + 1 : i \in 1 .. n \/ i = n + 1
  OBVIOUS
<1>4. \A i \in 1 .. n + 1 : a[i] = r[i]
  BY <1>1, <1>2, <1>3
<1>5. a = r
  BY <1>1, <1>2, <1>4, SeqEqual
<1> QED BY <1>1, <1>5 DEF a, q, r

LEMMA HasConcat ==
    ASSUME NEW p \in Seq(Nat), NEW q \in Seq(Nat), NEW T
    PROVE  Has(p \o q, T) <=> Has(p, T) \/ Has(q, T)
<1> DEFINE r == p \o q
           n == Len(p)
           m == Len(q)
<1>1. /\ n \in Nat /\ m \in Nat /\ Len(r) = n + m
      /\ \A i \in 1 .. n : r[i] = p[i] /\ i \in 1 .. n + m
      /\ \A i \in 1 .. m : r[n + i] = q[i] /\ n + i \in 1 .. n + m
  BY ConcatProperties, LenProperties
<1> HIDE DEF r, n, m
<1>2. Has(p, T) => Has(r, T)
  BY <1>1 DEF Has, n
<1>3. Has(q, T) => Has(r, T)
  BY <1>1 DEF Has, m
<1>4. ASSUME NEW i \in 1 .. n + m, r[i] \in T PROVE Has(p, T) \/ Has(q, T)
  <2>1. CASE i <= n
    <3>1. i \in 1 .. n /\ p[i] \in T
      BY <1>1, <1>4, <2>1
    <3> QED BY <3>1 DEF Has, n
  <2>2. CASE i > n
    <3> DEFINE j == i - n
    <3>1. j \in 1 .. m /\ n + j = i
      BY <1>1, <2>2
    <3> HIDE DEF j
    <3>2. q[j] \in T
      BY <1>1, <1>4, <3>1
    <3> QED BY <3>1, <3>2 DEF Has, m
  <2> QED BY <2>1, <2>2, <1>1
<1> QED BY <1>1, <1>2, <1>3, <1>4 DEF Has, r

LEMMA HasAppend ==
    ASSUME NEW q \in Seq(Nat), NEW n \in Nat, NEW T
    PROVE  /\ Has(q, T) => Has(Append(q, n), T)
           /\ n \in T => Has(Append(q, n), T)
<1> DEFINE r == Append(q, n)
<1>1. /\ Len(q) \in Nat /\ Len(r) = Len(q) + 1 /\ r[Len(q) + 1] = n
      /\ \A i \in 1 .. Len(q) : r[i] = q[i]
  BY AppendProperties, LenProperties
<1> HIDE DEF r
<1>2. Has(q, T) => Has(r, T)
  BY <1>1 DEF Has
<1>3. n \in T => Has(r, T)
  BY <1>1 DEF Has
<1> QED BY <1>2, <1>3 DEF r

LEMMA HasMore ==
    ASSUME NEW q, NEW T, NEW U, T \subseteq U, Has(q, T)
    PROVE  Has(q, U)
  BY DEF Has

-----------------------------------------------------------------------------
(* One write or flush. *)

LEMMA AppendAfter ==
    ASSUME NEW p \in Seq(Nat), NEW q \in Seq(Nat), NEW n \in Nat
    PROVE  p \o Append(q, n) = Append(p \o q, n)
<1>1. <<n>> \in Seq(Nat) /\ p \o q \in Seq(Nat)
  BY ConcatProperties
<1>2. Append(q, n) = q \o <<n>> /\ Append(p \o q, n) = (p \o q) \o <<n>>
  BY <1>1, AppendIsConcat
<1> QED BY <1>1, <1>2, ConcatAssociative

LEMMA DrainFacts ==
    ASSUME StreamType, NEW s \in Streams, NEW sent \in Seq(Nat), NEW kept \in Seq(Nat),
           Drain(s, sent, kept)
    PROVE  /\ buf' \in [Streams -> Seq(Nat)] /\ shown' \in Seq(Nat)
           /\ buf'[s] = kept /\ buf'[Other(s)] = buf[Other(s)]
           /\ shown' = shown \o sent
           /\ shown' \o buf'[s] = shown \o (sent \o kept)
<1>1. shown \in Seq(Nat) /\ shown' = shown \o sent /\ shown' \in Seq(Nat)
  BY ConcatProperties DEF StreamType, Drain
<1>2. buf' \in [Streams -> Seq(Nat)] /\ buf'[s] = kept /\ buf'[Other(s)] = buf[Other(s)]
  BY OtherFacts DEF StreamType, Drain
<1>3. (shown \o sent) \o kept = shown \o (sent \o kept)
  BY <1>1, ConcatAssociative, SMTT(30)
<1> QED BY <1>1, <1>2, <1>3

\* A write that succeeds adds the new piece to its stream's line, and a flush that
\* does sends all of the line; the other buffer stays as it is.
LEMMA SucceedsFacts ==
    ASSUME StreamType, NEW o \in Ops, Succeeds(o)
    PROVE  /\ StreamType' /\ lost' = lost /\ told \subseteq told'
           /\ buf'[Other(o.to)] = buf[Other(o.to)]
           /\ \E sent \in Seq(Nat) : shown' = shown \o sent
           /\ o.op = "flush" => /\ made' = made /\ buf'[o.to] = <<>> /\ shown' = line(o.to)
                                /\ shown' \o buf'[o.to] = line(o.to)
           /\ o.op = "put" => /\ made' = made + 1 /\ (o.error => made + 1 \in told')
                              /\ shown' \o buf'[o.to] = Append(line(o.to), made + 1)
<1> DEFINE s == o.to
           b == buf[s]
           x == made + 1
<1>1. s \in Streams /\ b \in Seq(Nat) /\ x \in Nat /\ shown \in Seq(Nat) /\ <<x>> \in Seq(Nat) /\ made \in Nat
  BY DEF Ops, StreamType
<1>2. Append(b, x) \in Seq(Nat) /\ Append(b, x) = b \o <<x>> /\ <<>> \in Seq(Nat)
  BY <1>1, AppendProperties, AppendIsConcat, EmptySeq, ZenonT(40)
<1>3. shown \o Append(b, x) = Append(shown \o b, x)
  BY <1>1, AppendAfter
<1>4. \A q \in Seq(Nat) : q \o <<>> = q /\ <<>> \o q = q
  BY ConcatEmptySeq
<1>5. /\ \/ o.op = "flush" /\ Drain(s, b, <<>>)
         \/ o.op = "put" /\ Drain(s, <<>>, Append(b, x))
         \/ o.op = "put" /\ Drain(s, Append(b, x), <<>>)
         \/ o.op = "put" /\ Drain(s, b, <<x>>)
      /\ lost' = lost /\ Made(o)
  BY DEF Succeeds, piece
<1>6. told \subseteq told' /\ made' \in Nat /\ (o.op = "flush" => made' = made)
  BY <1>1, <1>5 DEF Made, piece
<1>7. o.op = "put" => made' = made + 1 /\ (o.error => made + 1 \in told')
  BY <1>1, <1>5 DEF Made, piece
<1>8. line(s) = shown \o b
  BY DEF line
<1> HIDE DEF s, b, x
<1>9. CASE o.op = "flush" /\ Drain(s, b, <<>>)
  <2>1. /\ buf' \in [Streams -> Seq(Nat)] /\ shown' \in Seq(Nat)
        /\ buf'[s] = <<>> /\ buf'[Other(s)] = buf[Other(s)] /\ shown' = shown \o b
        /\ shown' \o buf'[s] = shown \o (b \o <<>>)
    BY <1>1, <1>2, <1>9, DrainFacts, ZenonT(40)
  <2>2. shown' \o buf'[s] = shown \o b
    BY <2>1, <1>1, <1>4
  <2> QED BY <1>1, <1>5, <1>6, <1>7, <1>8, <1>9, <2>1, <2>2 DEF StreamType, s
<1>10. ASSUME NEW sent \in Seq(Nat), NEW kept \in Seq(Nat), o.op = "put", Drain(s, sent, kept),
              sent \o kept = Append(b, x)
       PROVE  /\ StreamType' /\ shown' = shown \o sent /\ buf'[Other(s)] = buf[Other(s)]
              /\ shown' \o buf'[s] = Append(line(s), x)
  <2>1. /\ buf' \in [Streams -> Seq(Nat)] /\ shown' \in Seq(Nat)
        /\ buf'[Other(s)] = buf[Other(s)] /\ shown' = shown \o sent
        /\ shown' \o buf'[s] = shown \o (sent \o kept)
    BY <1>1, <1>10, DrainFacts, ZenonT(40)
  <2> QED BY <1>1, <1>3, <1>5, <1>6, <1>8, <1>10, <2>1 DEF StreamType
<1>11. CASE o.op = "put"
  <2>1. \E sent \in Seq(Nat), kept \in Seq(Nat) : Drain(s, sent, kept) /\ sent \o kept = Append(b, x)
    BY <1>1, <1>2, <1>4, <1>5, <1>11
  <2>2. PICK sent \in Seq(Nat), kept \in Seq(Nat) : Drain(s, sent, kept) /\ sent \o kept = Append(b, x)
    BY <2>1
  <2>3. /\ StreamType' /\ shown' = shown \o sent /\ buf'[Other(s)] = buf[Other(s)]
        /\ shown' \o buf'[s] = Append(line(s), x)
    BY <1>10, <1>11, <2>2
  <2> QED BY <1>5, <1>6, <1>7, <1>11, <2>3 DEF s, x
<1> QED BY <1>5, <1>9, <1>11

\* One that fails sends part of the buffer and keeps the rest.
LEMMA FailsFacts ==
    ASSUME StreamType, NEW o \in Ops, Fails(o)
    PROVE  /\ StreamType' /\ lost' = lost \cup {o.to} /\ told \subseteq told'
           /\ buf'[Other(o.to)] = buf[Other(o.to)]
           /\ \E sent \in Seq(Nat) : shown' = shown \o sent
           /\ o.op = "flush" => buf[o.to] # <<>>
           /\ made <= made' /\ shown' \o buf'[o.to] = line(o.to)
<1> DEFINE s == o.to
           b == buf[s]
<1>1. s \in Streams /\ b \in Seq(Nat) /\ shown \in Seq(Nat) /\ made \in Nat /\ Len(b) \in Nat
  BY LenProperties DEF Ops, StreamType
<1>2. PICK n \in 0 .. Len(b) : Drain(s, SubSeq(b, 1, n), SubSeq(b, n + 1, Len(b)))
  BY DEF Fails
<1>3. o.op = "flush" => b # <<>>
  BY DEF Fails
<1>4. lost' = lost \cup {s} /\ Made(o)
  BY DEF Fails
<1>5. told \subseteq told' /\ made' \in Nat /\ made <= made'
  BY <1>1, <1>4 DEF Made, piece
<1>6. line(s) = shown \o b
  BY DEF line
<1> HIDE DEF s, b
<1> DEFINE sent == SubSeq(b, 1, n)
           kept == SubSeq(b, n + 1, Len(b))
<1>7. sent \in Seq(Nat) /\ kept \in Seq(Nat) /\ sent \o kept = b
  <2> DEFINE m == Len(b)
             k == n + 1
  <2>1. m \in Int /\ k \in Int /\ n \in Int /\ \A i \in 1 .. m : b[i] \in Nat
    BY <1>1, ElementOfSeq
  <2>2. (\A i \in 1 .. n : b[i] \in Nat) /\ (\A i \in k .. m : b[i] \in Nat)
    BY <2>1, <1>1, <1>2
  <2>3. sent \in Seq(Nat)
    BY <2>1, <2>2, SubSeqProperties
  <2>4. SubSeq(b, k, m) \in Seq(Nat)
    <3> HIDE DEF m, k
    <3> QED BY <2>1, <2>2, SubSeqProperties
  <2>5. SubSeq(b, 1, n) \o SubSeq(b, n + 1, Len(b)) = SubSeq(b, 1, Len(b))
    <3>1. 1 \in 1 .. Len(b) + 1 /\ n \in 1 - 1 .. Len(b) /\ Len(b) \in n .. Len(b)
      BY <1>1, <1>2
    <3> QED BY <1>1, <3>1, ConcatAdjacentSubSeq
  <2>6. SubSeq(b, 1, Len(b)) = b
    BY <1>1, SubSeqFull
  <2> QED BY <2>3, <2>4, <2>5, <2>6
<1> HIDE DEF sent, kept
<1>8. Drain(s, sent, kept)
  BY <1>2 DEF sent, kept
<1>9. /\ buf' \in [Streams -> Seq(Nat)] /\ shown' \in Seq(Nat)
      /\ buf'[Other(s)] = buf[Other(s)] /\ shown' = shown \o sent
      /\ shown' \o buf'[s] = shown \o (sent \o kept)
  BY <1>1, <1>7, <1>8, DrainFacts
<1>10. shown' \o buf'[s] = line(s)
  BY <1>6, <1>7, <1>9
<1>11. StreamType'
  BY <1>1, <1>4, <1>5, <1>9 DEF StreamType
<1>12. \E q \in Seq(Nat) : shown' = shown \o q
  BY <1>7, <1>9
<1> QED BY <1>3, <1>4, <1>5, <1>9, <1>10, <1>11, <1>12 DEF s, b

\* The line of a stream after the other one has gone on, its own buffer empty.
LEMMA OtherLine ==
    ASSUME StreamType', NEW s \in Streams, NEW n, buf'[Other(s)] = <<>>,
           Increasing(shown' \o buf'[s]), Below(shown' \o buf'[s], n)
    PROVE  /\ shown' \o buf'[Other(s)] = shown'
           /\ Increasing(shown') /\ Below(shown', n)
<1>1. shown' \in Seq(Nat) /\ buf'[s] \in Seq(Nat)
  BY DEF StreamType
<1>2. shown' \o <<>> = shown'
  BY <1>1, ConcatEmptySeq
<1>3. Increasing(shown') /\ Below(shown', n)
  BY <1>1, Prefix
<1> QED BY <1>2, <1>3

LEMMA StreamFacts ==
    ASSUME StreamType
    PROVE  /\ \A s \in Streams : buf[s] \in Seq(Nat) /\ line(s) \in Seq(Nat)
           /\ shown \in Seq(Nat) /\ made \in Nat
           /\ "stderr" \in Streams /\ "stdout" \in Streams
           /\ Other("stderr") = "stdout" /\ Other("stdout") = "stderr"
  BY ConcatProperties DEF StreamType, line, Streams, Other

LEMMA HeadOp ==
    ASSUME CliType, todo # <<>>
    PROVE  /\ Head(todo) \in Ops /\ Head(todo) = todo[1] /\ 1 \in 1 .. Len(todo)
           /\ Tail(todo) \in Seq(Ops) /\ Len(Tail(todo)) = Len(todo) - 1 /\ Len(todo) \in Nat
           /\ \A i \in 1 .. Len(Tail(todo)) : Tail(todo)[i] = todo[i + 1] /\ i + 1 \in 1 .. Len(todo)
           /\ \A i \in 1 .. Len(todo) : i = 1 \/ (i - 1 \in 1 .. Len(Tail(todo)) /\ Tail(todo)[i - 1] = todo[i])
<1>1. todo \in Seq(Ops) /\ Len(todo) \in Nat /\ Len(todo) # 0
  BY LenProperties, EmptySeq DEF CliType
<1> DEFINE t == Tail(todo)
<1>2. /\ Head(todo) = todo[1] /\ t \in Seq(Ops) /\ Len(t) = Len(todo) - 1
      /\ \A i \in 1 .. Len(t) : t[i] = todo[i + 1]
  BY <1>1, HeadTailProperties
<1> HIDE DEF t
<1>3. todo[1] \in Ops
  BY <1>1, ElementOfSeq
<1>4. \A i \in 1 .. Len(t) : i + 1 \in 1 .. Len(todo)
  BY <1>1, <1>2
<1>5. ASSUME NEW i \in 1 .. Len(todo), i # 1 PROVE i - 1 \in 1 .. Len(t) /\ t[i - 1] = todo[i]
  <2> DEFINE j == i - 1
  <2>1. j \in 1 .. Len(t) /\ j + 1 = i
    BY <1>1, <1>2, <1>5
  <2> HIDE DEF j
  <2>2. t[j] = todo[i]
    BY <2>1, <1>2
  <2> QED BY <2>1, <2>2 DEF j
<1> QED BY <1>1, <1>2, <1>3, <1>4, <1>5 DEF t

\* What was reported stays so: a message that is written joins the line of stderr.
LEMMA ReportedStays ==
    ASSUME CliType, NEW o \in Ops, todo # <<>>, o = Head(todo), Succeeds(o), todo' = Tail(todo), Reported
    PROVE  Reported'
<1>1. StreamType
  BY DEF CliType
<1>2. /\ StreamType' /\ lost' = lost /\ told \subseteq told'
      /\ buf'[Other(o.to)] = buf[Other(o.to)]
      /\ \E sent \in Seq(Nat) : shown' = shown \o sent
      /\ o.op = "flush" => shown' \o buf'[o.to] = line(o.to)
      /\ o.op = "put" => /\ o.error => made + 1 \in told'
                         /\ shown' \o buf'[o.to] = Append(line(o.to), made + 1)
  BY <1>1, SucceedsFacts
<1>3. o.op \in {"put", "flush"} /\ o.to \in Streams /\ o.error \in BOOLEAN /\ (o.error => o.op = "put" /\ o.to = "stderr")
  BY DEF Ops
<1>4. /\ buf["stderr"] \in Seq(Nat) /\ shown \in Seq(Nat) /\ line("stderr") \in Seq(Nat) /\ made + 1 \in Nat
      /\ line("stderr") = shown \o buf["stderr"]
      /\ Other("stdout") = "stderr" /\ (o.to = "stdout" \/ o.to = "stderr")
  BY <1>1, <1>3, StreamFacts DEF line, Streams
<1>5. shown' \in Seq(Nat) /\ buf'["stderr"] \in Seq(Nat)
  BY <1>2, <1>4 DEF StreamType, Streams
<1>6. CASE "stderr" \in lost
  BY <1>2, <1>6 DEF Reported
<1>7. CASE Has(shown, told)
  <2>1. PICK sent \in Seq(Nat) : shown' = shown \o sent
    BY <1>2
  <2>2. Has(shown', told)
    BY <1>4, <1>7, <2>1, HasConcat
  <2> QED BY <1>2, <2>2, HasMore DEF Reported
<1>8. ASSUME o.to = "stderr", Has(shown' \o buf'["stderr"], told') PROVE Reported'
  <2>1. Has(shown', told') \/ Has(buf'["stderr"], told')
    BY <1>5, <1>8, HasConcat
  <2> QED BY <2>1 DEF Reported
<1>9. CASE Has(buf["stderr"], told)
  <2>1. CASE o.to = "stdout"
    <3>1. Has(buf'["stderr"], told')
      BY <1>2, <1>4, <1>9, <2>1, HasMore
    <3> QED BY <3>1 DEF Reported
  <2>2. CASE o.to = "stderr"
    <3>1. Has(line("stderr"), told')
      <4> DEFINE b == buf["stderr"]
      <4>1. Has(b, told) /\ b \in Seq(Nat) /\ line("stderr") = shown \o b
        BY <1>4, <1>9
      <4> HIDE DEF b
      <4>2. Has(line("stderr"), told)
        BY <1>4, <4>1, HasConcat
      <4> QED BY <1>2, <4>2, HasMore
    <3>2. Has(shown' \o buf'["stderr"], told')
      BY <1>2, <1>3, <1>4, <2>2, <3>1, HasAppend
    <3> QED BY <1>8, <2>2, <3>2
  <2> QED BY <1>4, <2>1, <2>2
<1>10. CASE \E i \in 1 .. Len(todo) : todo[i].error
  <2>1. PICK i \in 1 .. Len(todo) : todo[i].error
    BY <1>10
  <2>2. CASE i = 1
    <3>1. o.error
      BY <2>1, <2>2, HeadOp
    <3>2. Has(shown' \o buf'["stderr"], told')
      BY <1>2, <1>3, <1>4, <3>1, HasAppend
    <3> QED BY <1>3, <1>8, <3>1, <3>2
  <2>3. CASE i # 1
    <3>1. i - 1 \in 1 .. Len(todo') /\ todo'[i - 1].error
      BY <2>1, <2>3, HeadOp
    <3> QED BY <3>1 DEF Reported
  <2> QED BY <2>2, <2>3
<1> QED BY <1>6, <1>7, <1>9, <1>10 DEF Reported

-----------------------------------------------------------------------------
(* Steps that write or flush. *)

\* The streams that are empty after an operation that succeeds.
LEMMA EmptiesAfter ==
    ASSUME StreamType, NEW o \in Ops, Succeeds(o)
    PROVE  After(o, Empties) \subseteq Empties' /\ Empties \in SUBSET Streams
<1>1. /\ buf'[Other(o.to)] = buf[Other(o.to)]
      /\ o.op = "flush" => buf'[o.to] = <<>>
  BY SucceedsFacts
<1>2. o.to \in Streams /\ o.op \in {"put", "flush"}
  BY DEF Ops
<1>3. \A s \in Streams : s = o.to \/ s = Other(o.to)
  BY <1>2, OtherFacts
<1> QED BY <1>1, <1>2, <1>3 DEF After, Empties

LEMMA IoOrdered ==
    ASSUME CliInv, todo # <<>>, NEW o \in Ops, o = Head(todo), Succeeds(o), at' = at, todo' = Tail(todo)
    PROVE  Ordered' /\ Exact'
<1> DEFINE s == o.to
           t == Other(o.to)
<1>1. StreamType /\ at # "done" /\ (at = "failed" => s = "stderr")
  BY HeadOp DEF CliInv, CliType, Failing
<1>2. /\ StreamType' /\ lost' = lost
      /\ buf'[t] = buf[t]
      /\ o.op = "flush" => /\ made' = made /\ buf'[s] = <<>> /\ shown' = line(s)
                           /\ shown' \o buf'[s] = line(s)
      /\ o.op = "put" => made' = made + 1 /\ shown' \o buf'[s] = Append(line(s), made + 1)
  BY <1>1, SucceedsFacts
<1>3. o.op \in {"put", "flush"} /\ s \in Streams
  BY DEF Ops
<1>4. t \in Streams /\ t # s /\ t = Other(s) /\ Other(t) = s /\ \A u \in Streams : u = s \/ u = t
  BY <1>3, OtherFacts
<1>5. /\ buf[s] \in Seq(Nat) /\ buf[t] \in Seq(Nat) /\ line(s) \in Seq(Nat) /\ line(t) \in Seq(Nat)
      /\ shown \in Seq(Nat) /\ made \in Nat /\ (s = "stderr" \/ s = "stdout")
      /\ line(s) = shown \o buf[s] /\ line(t) = shown \o buf[t]
  BY <1>1, <1>3, <1>4, StreamFacts DEF line, Streams
<1>6. Increasing(line(s)) /\ Below(line(s), made)
  BY <1>1, <1>5 DEF CliInv, Ordered
<1>7. shown' \in Seq(Nat) /\ buf'[s] \in Seq(Nat) /\ made' \in Nat
  BY <1>2, <1>3 DEF StreamType
<1>8. o.op = "put" /\ at # "failed" => buf[t] = <<>>
  <2>1. at # "failed" => Safe(todo, Empties) /\ Empties \in SUBSET Streams /\ todo \in Seq(Ops)
    BY <1>1 DEF CliInv, Disciplined, CliType, Empties
  <2>2. o.op = "put" /\ at # "failed" => t \in Empties
    BY <2>1, TailSafe
  <2> QED BY <2>2 DEF Empties
<1>9. at # "failed" => buf[s] = <<>> \/ buf[t] = <<>>
  BY <1>1, <1>4 DEF CliInv, Disciplined, Empties
<1>10. shown \o <<>> = shown
  BY <1>5, ConcatEmptySeq
<1> HIDE DEF s, t
<1>11. Increasing(shown' \o buf'[s]) /\ Below(shown' \o buf'[s], made')
  <2>1. CASE o.op = "put"
    BY <1>2, <1>5, <1>6, <2>1, Grows
  <2>2. CASE o.op = "flush"
    BY <1>2, <1>6, <2>2
  <2> QED BY <1>3, <2>1, <2>2
<1>12. Increasing(shown')
  BY <1>7, <1>11, Prefix
\* An empty buffer beside one that went on, or nothing went on.
<1>13. CASE at # "failed" /\ ~(o.op = "flush" /\ buf[s] = <<>>)
  <2>1. buf'[t] = <<>>
    BY <1>2, <1>3, <1>8, <1>9, <1>13
  <2>2. shown' \o buf'[t] = shown' /\ Increasing(shown') /\ Below(shown', made')
    BY <1>2, <1>3, <1>4, <1>11, <2>1, OtherLine
  <2>3. Ordered'
    BY <1>4, <1>5, <1>11, <1>12, <2>2 DEF Ordered, line, InOrder, Increasing, Below, Streams
  <2>4. ASSUME lost = {} PROVE \A u \in Streams : Other(u) \in Empties' => shown' \o buf'[u] = Count(made')
    <3>1. t \in Empties
      BY <1>2, <1>4, <2>1 DEF Empties
    <3>2. line(s) = Count(made)
      BY <1>1, <1>3, <1>4, <2>4, <3>1 DEF CliInv, Exact
    <3>3. shown' \o buf'[s] = Count(made')
      BY <1>2, <1>3, <1>5, <3>2, CountGrows
    <3>4. buf'[s] = <<>> => shown' \o buf'[t] = Count(made')
      BY <2>1, <3>3
    <3> QED BY <1>4, <3>3, <3>4 DEF Empties
  <2>5. Exact'
    BY <1>2, <2>4 DEF Exact, line
  <2> QED BY <2>3, <2>5
<1>14. CASE at # "failed" /\ o.op = "flush" /\ buf[s] = <<>>
  <2>1. shown' = shown /\ made' = made /\ buf'[s] = buf[s] /\ buf'[t] = buf[t]
    BY <1>2, <1>5, <1>10, <1>14
  <2>2. \A u \in Streams : shown' \o buf'[u] = line(u) /\ buf'[u] = buf[u]
    BY <1>4, <2>1 DEF line
  <2>3. Ordered'
    <3>1. \A u \in Streams : Increasing(line(u)) /\ Below(line(u), made)
      BY <1>1, <1>14 DEF CliInv, Ordered, Streams
    <3>2. \A u \in Streams : Increasing(shown' \o buf'[u]) /\ Below(shown' \o buf'[u], made')
      BY <2>1, <2>2, <3>1
    <3> QED BY <1>12, <3>2 DEF Ordered, line, InOrder, Increasing, Below, Streams
  <2>4. Exact'
    <3>1. lost = {} => \A u \in Streams : Other(u) \in Empties => line(u) = Count(made)
      BY <1>1 DEF CliInv, Exact
    <3>2. Empties' = Empties
      BY <2>2 DEF Empties
    <3> QED BY <1>2, <2>1, <2>2, <3>1, <3>2 DEF Exact, line
  <2> QED BY <2>3, <2>4
<1>15. CASE at = "failed"
  <2>1. s = "stderr" /\ lost' # {}
    BY <1>1, <1>2, <1>15 DEF CliInv, Admitted
  <2> QED BY <1>11, <1>12, <1>15, <2>1 DEF Ordered, Exact, line, InOrder, Increasing, Below
<1> QED BY <1>13, <1>14, <1>15

LEMMA IoKeeps == CliInv /\ Io => CliInv'
<1> SUFFICES ASSUME CliInv, Io PROVE CliInv'
  OBVIOUS
<1>1. CliType /\ StreamType /\ todo # <<>> /\ todo \in Seq(Ops)
  BY DEF CliInv, CliType, Io
<1>2. PICK o \in Ops : o = Head(todo)
  BY <1>1, HeadOp
<1>3. Succeeds(o) /\ todo' = Tail(todo) /\ at' = at /\ status' = status /\ config' = config
  BY <1>2 DEF Io
<1>4. StreamType' /\ lost' = lost /\ buf'[Other(o.to)] = buf[Other(o.to)]
  BY <1>1, <1>3, SucceedsFacts
<1>5. CliType' /\ at # "done"
  BY <1>1, <1>3, <1>4, HeadOp DEF CliInv, CliType, Failing
<1>6. Failing'
  BY <1>1, <1>3, <1>5, HeadOp DEF CliInv, Failing
<1>7. Ordered' /\ Exact'
  BY <1>1, <1>2, <1>3, IoOrdered
<1>8. /\ After(o, Empties) \subseteq Empties' /\ Empties \in SUBSET Streams
      /\ Leaves(todo, Empties) \subseteq Leaves(todo', After(o, Empties))
      /\ Leaves(todo', After(o, Empties)) \subseteq Leaves(todo', Empties')
  BY <1>1, <1>2, <1>3, EmptiesAfter, TailLeaves, MoreEmpty
<1>9. Disciplined'
  <2> SUFFICES ASSUME at \notin {"failed", "done"} PROVE Disciplined'
    BY <1>3 DEF Disciplined
  <2>1. Safe(todo, Empties) /\ at \notin {"command", "load"}
    BY <1>1 DEF CliInv, Disciplined
  <2>2. Safe(todo', After(o, Empties)) /\ (o.op = "put" => Other(o.to) \in Empties)
    BY <1>1, <1>2, <1>3, <1>8, <2>1, TailSafe
  <2>3. Safe(todo', Empties')
    BY <1>8, <2>2, MoreEmpty
  <2>4. Empties' # {}
    <3>1. o.to \in Streams /\ o.op \in {"put", "flush"} /\ Other(o.to) \in Streams /\ Other(o.to) # o.to
      BY OtherFacts DEF Ops
    <3>2. After(o, Empties) # {}
      BY <2>2, <3>1 DEF After
    <3> QED BY <1>8, <3>2
  <2>5. at = "execute" /\ config.trace => "stdout" \in Leaves(todo', Empties')
    BY <1>8 DEF CliInv, Disciplined
  <2>6. at = "caught" => Len(todo') <= 1
    BY <1>1, <1>3, HeadOp DEF CliInv, Disciplined
  <2>7. at = "flushed" => Leaves(todo', Empties') = Streams
    <3>1. at = "flushed" => Leaves(todo, Empties) = Streams
      BY DEF CliInv, Disciplined
    <3>2. Leaves(todo', Empties') \subseteq Streams
      BY DEF Leaves
    <3> QED BY <1>8, <3>1, <3>2
  <2> QED BY <1>3, <2>1, <2>3, <2>4, <2>5, <2>6, <2>7 DEF Disciplined, Leaves, EmptyAt
<1>10. Admitted'
  BY <1>3, <1>4 DEF CliInv, Admitted
<1>11. Announced'
  <2>1. Reported => Reported'
    BY <1>1, <1>2, <1>3, ReportedStays
  <2>2. at = "failed" => "stderr" \in lost' \/ "stderr" \in Leaves(todo', Empties')
    BY <1>4, <1>8 DEF CliInv, Announced
  <2>3. at = "flushed" => \A i \in 1 .. Len(todo') : ~todo'[i].error
    BY <1>1, <1>3, HeadOp DEF CliInv, Announced
  <2>4. at \in {"failed", "userError", "caught"} => Reported
    BY DEF CliInv, Announced
  <2>5. at = "flushed" /\ status = "usage_or_io" => Reported
    BY DEF CliInv, Announced
  <2> QED BY <1>3, <2>1, <2>2, <2>3, <2>4, <2>5 DEF Announced, Leaves, EmptyAt
<1>12. NothingLost' /\ FailureReported'
  BY <1>3, <1>5 DEF NothingLost, FailureReported
<1> QED BY <1>5, <1>6, <1>7, <1>9, <1>10, <1>11, <1>12 DEF CliInv

\* The lines after a failure: the one that failed is what it was.
LEMMA FailsOrdered ==
    ASSUME CliInv, todo # <<>>, NEW o \in Ops, o = Head(todo), Fails(o)
    PROVE  /\ Increasing(shown') /\ Below(shown', made')
           /\ Increasing(shown' \o buf'["stderr"]) /\ Below(shown' \o buf'["stderr"], made')
           /\ at # "failed" => /\ Increasing(shown' \o buf'["stdout"]) /\ Below(shown' \o buf'["stdout"], made')
                               /\ Other(o.to) \in Empties'
<1> DEFINE s == o.to
           t == Other(o.to)
<1>1. StreamType /\ at # "done" /\ (at = "failed" => s = "stderr")
  BY HeadOp DEF CliInv, CliType, Failing
<1>2. /\ StreamType' /\ buf'[t] = buf[t] /\ (o.op = "flush" => buf[s] # <<>>)
      /\ made <= made' /\ shown' \o buf'[s] = line(s)
  BY <1>1, FailsFacts
<1>3. o.op \in {"put", "flush"} /\ s \in Streams
  BY DEF Ops
<1>4. t \in Streams /\ t # s /\ t = Other(s) /\ \A u \in Streams : u = s \/ u = t
  BY <1>3, OtherFacts
<1>5. line(s) \in Seq(Nat) /\ made \in Nat /\ (s = "stderr" \/ s = "stdout")
  BY <1>1, <1>3, StreamFacts DEF Streams
<1>6. shown' \in Seq(Nat) /\ buf'[s] \in Seq(Nat) /\ made' \in Nat
  BY <1>2, <1>3 DEF StreamType
<1>7. Increasing(line(s)) /\ Below(line(s), made)
  BY <1>1, <1>5 DEF CliInv, Ordered
<1>8. Below(line(s), made')
  BY <1>2, <1>5, <1>6, <1>7, BelowMore
<1>9. at # "failed" => buf[t] = <<>>
  <2>1. at # "failed" => Safe(todo, Empties) /\ Empties \in SUBSET Streams /\ todo \in Seq(Ops) /\ Empties # {}
    BY <1>1 DEF CliInv, Disciplined, CliType, Empties
  <2>2. o.op = "put" /\ at # "failed" => t \in Empties
    BY <2>1, TailSafe
  <2>3. o.op = "flush" /\ at # "failed" => t \in Empties
    BY <1>2, <1>4, <2>1 DEF Empties
  <2> QED BY <1>3, <2>2, <2>3 DEF Empties
<1> HIDE DEF s, t
<1>10. Increasing(shown' \o buf'[s]) /\ Below(shown' \o buf'[s], made')
  BY <1>2, <1>7, <1>8
<1>11. Increasing(shown') /\ Below(shown', made')
  BY <1>6, <1>10, Prefix
<1>12. at # "failed" => /\ Increasing(shown' \o buf'[t]) /\ Below(shown' \o buf'[t], made')
                        /\ t \in Empties'
  <2> SUFFICES ASSUME at # "failed"
               PROVE  Increasing(shown' \o buf'[t]) /\ Below(shown' \o buf'[t], made') /\ t \in Empties'
    OBVIOUS
  <2>1. buf'[t] = <<>>
    BY <1>2, <1>9
  <2>2. shown' \o buf'[t] = shown'
    BY <1>2, <1>3, <1>4, <1>10, <2>1, OtherLine
  <2> QED BY <1>4, <1>11, <2>1, <2>2 DEF Empties
<1>13. (s = "stderr" /\ t = "stdout") \/ (s = "stdout" /\ t = "stderr" /\ at # "failed")
  BY <1>1, <1>4, <1>5 DEF Other
<1> QED BY <1>10, <1>11, <1>12, <1>13 DEF t

LEMMA IoFailsKeeps == CliInv /\ IoFails => CliInv'
<1> SUFFICES ASSUME CliInv, IoFails PROVE CliInv'
  OBVIOUS
<1>1. CliType /\ StreamType /\ todo # <<>> /\ todo \in Seq(Ops)
  BY DEF CliInv, CliType, IoFails
<1>2. PICK o \in Ops : o = Head(todo)
  BY <1>1, HeadOp
<1>3. o.to \in Streams /\ (o.error => o.to = "stderr")
  BY DEF Ops
<1>4. /\ Fails(o) /\ config' = config
      /\ \/ at \in {"failed", "caught"} /\ Goto(at, Tail(todo)) /\ UNCHANGED status
         \/ at = "flushed" /\ flushFailed(o.to)
         \/ at \notin {"failed", "caught", "flushed"} /\ Goto("failed", outputFailed) /\ UNCHANGED status
  BY <1>2 DEF IoFails
<1>5. /\ StreamType' /\ lost' = lost \cup {o.to} /\ told \subseteq told'
      /\ buf'[Other(o.to)] = buf[Other(o.to)]
      /\ \E sent \in Seq(Nat) : shown' = shown \o sent
  BY <1>1, <1>4, FailsFacts
<1>6. /\ Increasing(shown') /\ Below(shown', made')
      /\ Increasing(shown' \o buf'["stderr"]) /\ Below(shown' \o buf'["stderr"], made')
      /\ at # "failed" => /\ Increasing(shown' \o buf'["stdout"]) /\ Below(shown' \o buf'["stdout"], made')
                          /\ Other(o.to) \in Empties'
  BY <1>1, <1>2, <1>4, FailsOrdered
<1>7. at # "done" /\ InOrder' /\ Exact'
  BY <1>1, <1>5, <1>6 DEF CliInv, Failing, InOrder, Increasing, Exact
<1>8. CASE Goto("failed", outputFailed) /\ UNCHANGED status
  <2>1. at' = "failed" /\ todo' = outputFailed /\ status' = status
    BY <1>8 DEF Goto
  <2>2. CliType' /\ Failing'
    BY <1>5, <2>1, OutputFailedFacts DEF CliType, Failing
  <2>3. Ordered' /\ Disciplined'
    BY <1>6, <1>7, <2>1 DEF Ordered, Disciplined, line
  <2>4. Admitted'
    BY <1>5, <2>1 DEF Admitted
  <2>5. Reported' /\ "stderr" \in Leaves(todo', Empties')
    BY <2>1, OutputFailedFacts DEF Reported
  <2>6. Announced'
    BY <2>1, <2>5 DEF Announced, Leaves, EmptyAt
  <2>7. NothingLost' /\ FailureReported'
    BY <2>1 DEF NothingLost, FailureReported
  <2> QED BY <1>7, <2>2, <2>3, <2>4, <2>6, <2>7 DEF CliInv
<1>9. CASE at = "failed" /\ Goto(at, Tail(todo)) /\ UNCHANGED status
  <2>1. at' = "failed" /\ todo' = Tail(todo) /\ status' = status /\ o.to = "stderr"
    BY <1>1, <1>2, <1>9, HeadOp DEF Goto, CliInv, Failing
  <2>2. CliType' /\ Failing'
    BY <1>1, <1>5, <1>9, <2>1, HeadOp DEF CliInv, CliType, Failing
  <2>3. Ordered' /\ Disciplined'
    BY <1>6, <1>7, <2>1 DEF Ordered, Disciplined, line
  <2>4. Admitted' /\ Announced'
    BY <1>5, <2>1 DEF Admitted, Announced, Reported
  <2>5. NothingLost' /\ FailureReported'
    BY <2>1 DEF NothingLost, FailureReported
  <2> QED BY <1>7, <2>2, <2>3, <2>4, <2>5 DEF CliInv
<1>10. CASE at = "caught" /\ Goto(at, Tail(todo)) /\ UNCHANGED status
  <2>1. at' = "caught" /\ todo' = Tail(todo) /\ status' = status /\ status = "usage_or_io"
    BY <1>10 DEF Goto, CliInv, Admitted
  <2>2. Len(todo) = 1 /\ todo' = <<>>
    <3>1. Len(todo) <= 1 /\ Len(todo) \in Nat /\ Len(Tail(todo)) = Len(todo) - 1 /\ Tail(todo) \in Seq(Ops) /\ 1 \in 1 .. Len(todo)
      BY <1>1, <1>10, HeadOp DEF CliInv, Disciplined
    <3>2. Len(todo) = 1 /\ Len(Tail(todo)) = 0
      BY <3>1
    <3> QED BY <2>1, <3>1, <3>2, EmptySeq
  <2>3. CliType' /\ Failing'
    BY <1>5, <2>1, <2>2, EmptySeq DEF CliType, Failing
  <2>4. Ordered'
    BY <1>6, <1>7, <1>10, <2>1 DEF Ordered, line
  <2>5. Disciplined'
    <3>1. Empties' # {} /\ Empties' \in SUBSET Streams
      BY <1>6, <1>10 DEF Empties
    <3>2. Safe(todo', Empties') /\ Len(todo') <= 1
      BY <2>2, <3>1, NothingToDo
    <3> QED BY <2>1, <3>1, <3>2 DEF Disciplined, Safe, EmptyAt
  <2>6. Admitted'
    BY <2>1 DEF Admitted
  <2>7. Reported'
    <3>1. Reported
      BY <1>10 DEF CliInv, Announced
    <3>2. CASE o.to = "stderr"
      BY <1>5, <3>2 DEF Reported
    <3>3. CASE o.to = "stdout"
      <4>1. ~o.error /\ Other("stdout") = "stderr" /\ \A i \in 1 .. Len(todo) : ~todo[i].error
        BY <1>1, <1>2, <1>3, <2>2, <3>3, HeadOp DEF Other
      <4>2. "stderr" \in lost \/ Has(shown, told) \/ Has(buf["stderr"], told)
        BY <3>1, <4>1 DEF Reported
      <4>3. shown \in Seq(Nat)
        BY <1>1 DEF StreamType
      <4>4. PICK sent \in Seq(Nat) : shown' = shown \o sent
        BY <1>5
      <4>5. Has(shown, told) => Has(shown', told)
        BY <4>3, <4>4, HasConcat
      <4>6. Has(shown, told) => Has(shown', told')
        BY <1>5, <4>5, HasMore
      <4>7. Has(buf["stderr"], told) => Has(buf'["stderr"], told')
        BY <1>5, <3>3, <4>1, HasMore
      <4> QED BY <1>5, <4>2, <4>6, <4>7 DEF Reported
    <3> QED BY <1>3, <3>2, <3>3 DEF Streams
  <2>8. Announced'
    BY <2>1, <2>7 DEF Announced
  <2>9. NothingLost' /\ FailureReported'
    BY <2>1 DEF NothingLost, FailureReported
  <2> QED BY <1>7, <2>3, <2>4, <2>5, <2>6, <2>8, <2>9 DEF CliInv
<1>11. CASE at = "flushed" /\ o.to = "stderr" /\ flushFailed(o.to)
  <2>1. at' = "done" /\ todo' = <<>> /\ status' = "usage_or_io" /\ "stderr" \in lost'
    BY <1>5, <1>11 DEF flushFailed, Goto
  <2>2. CliType' /\ Failing'
    BY <1>5, <2>1, EmptySeq DEF CliType, Failing
  <2> QED BY <1>7, <2>1, <2>2
        DEF CliInv, Ordered, Disciplined, Admitted, Announced, NothingLost, FailureReported
<1>12. CASE at = "flushed" /\ o.to = "stdout" /\ flushFailed(o.to)
  BY <1>8, <1>12 DEF flushFailed
<1> QED BY <1>3, <1>4, <1>8, <1>9, <1>10, <1>11, <1>12 DEF Streams

-----------------------------------------------------------------------------
(* Steps that decide what comes next. *)

Still == UNCHANGED <<config, buf, shown, made, told, lost>>

\* The streams stay as they are, and what is queued keeps the order.
LEMMA QuietStep ==
    ASSUME CliInv, Still, at \notin {"failed", "done"}, at' \notin {"failed", "done"},
           Keeps(todo', Empties, {}),
           at' \in {"command", "load"} => todo' = <<>> /\ Empties = Streams,
           at' = "execute" => Needed \subseteq Leaves(todo', Empties),
           at' = "caught" => Len(todo') <= 1,
           at' = "flushed" => Leaves(todo', Empties) = Streams,
           Admitted',
           at' \in {"userError", "caught"} => Reported',
           at' = "flushed" /\ status' = "usage_or_io" => Reported',
           at' = "flushed" => \A i \in 1 .. Len(todo') : ~todo'[i].error
    PROVE  CliInv'
<1>1. Empties' = Empties /\ config' = config /\ lost' = lost
  BY DEF Still, Empties
<1>2. CliType' /\ Failing'
  BY DEF CliInv, CliType, StreamType, Failing, Still, Keeps
<1>3. Ordered' /\ Exact'
  BY <1>1 DEF CliInv, Still, Ordered, Exact, InOrder, line, Increasing, Below
<1>4. Disciplined'
  <2>1. Empties # {} /\ Safe(todo', Empties)
    BY DEF CliInv, Disciplined, Keeps
  <2>2. at' = "execute" /\ config.trace => "stdout" \in Leaves(todo', Empties)
    BY DEF Needed
  <2> QED BY <1>1, <2>1, <2>2 DEF Disciplined, Leaves, Safe, EmptyAt
<1>5. Announced' /\ NothingLost' /\ FailureReported'
  BY DEF Announced, NothingLost, FailureReported
<1> QED BY <1>2, <1>3, <1>4, <1>5 DEF CliInv

\* Before the end no stream has failed, and the status is none of a failure.
LEMMA BeforeTheEnd ==
    ASSUME CliInv, at \notin {"caught", "flushed", "failed", "done"}
    PROVE  lost = {} /\ status # "usage_or_io" /\ Empties \in SUBSET Streams /\ Empties # {}
  BY DEF CliInv, Admitted, Disciplined, Empties

Middle == {"ok", "cycle_limit", "ebreak", "ecall", "fault", "stopped_ecall", "exit",
           "demo", "dump", "digest", "returned"}

\* On the way, the status is none of a failure.
LEMMA MiddleStep ==
    ASSUME CliInv, Still, at \notin {"caught", "flushed", "failed", "done"}, at' \in Middle,
           Keeps(todo', Empties, {}), status' = status \/ status' # "usage_or_io"
    PROVE  CliInv'
<1>1. lost = {} /\ status' # "usage_or_io" /\ lost' = lost
  BY BeforeTheEnd DEF Still
<1>2. /\ at' \notin {"failed", "done", "command", "load", "execute", "caught", "flushed", "userError"}
      /\ at \notin {"failed", "done"}
  BY DEF Middle
<1>3. Admitted'
  BY <1>1, <1>2 DEF Admitted
<1> QED BY <1>2, <1>3, QuietStep

\* Back to the machine.
LEMMA ResumeStep ==
    ASSUME CliInv, Still, at \notin {"caught", "flushed", "failed", "done"}, at' = "execute",
           Keeps(todo', Empties, Needed), status' = status
    PROVE  CliInv'
<1>1. lost = {} /\ status' # "usage_or_io" /\ lost' = lost
  BY BeforeTheEnd DEF Still
<1>2. Keeps(todo', Empties, {}) /\ Needed \subseteq Leaves(todo', Empties)
  BY DEF Keeps
<1>3. Admitted'
  BY <1>1 DEF Admitted
<1> QED BY <1>2, <1>3, QuietStep

\* An error that was reported.
LEMMA UserErrorStep ==
    ASSUME CliInv, Still, at \in {"command", "load"}, at' = "userError", status' = status,
           todo' = <<PutError("stderr")>> \/ todo' = <<PutError("stderr"), Put("stderr")>>
    PROVE  CliInv'
<1>1. lost = {} /\ status' # "usage_or_io" /\ lost' = lost
  BY BeforeTheEnd DEF Still
<1>2. Empties = Streams
  BY DEF CliInv, Disciplined
<1>3. Keeps(todo', Empties, {})
  <2>1. Keeps(todo', {"stdout"}, {"stdout"})
    BY KeepsError, KeepsLines
  <2> QED BY <1>2, <2>1, KeepsMore DEF Streams
<1>4. Reported'
  <2>1. Len(todo') >= 1 /\ todo'[1] = PutError("stderr")
    OBVIOUS
  <2>2. 1 \in 1 .. Len(todo') /\ todo'[1].error
    <3>1. Len(todo') \in Nat
      BY <1>3, LenProperties DEF Keeps
    <3> QED BY <2>1, <3>1 DEF PutError
  <2> QED BY <2>2 DEF Reported
<1>5. Admitted'
  BY <1>1 DEF Admitted
<1> QED BY <1>3, <1>4, <1>5, QuietStep

LEMMA CommandKeeps == CliInv /\ Command => CliInv'
<1> SUFFICES ASSUME CliInv, Command PROVE CliInv'
  OBVIOUS
<1>1. at = "command" /\ todo = <<>> /\ Still /\ status' = status /\ Empties = Streams
  BY DEF Command, Ready, Quiet, Still, CliInv, Disciplined
<1>2. CASE at' = "userError" /\ (todo' = <<PutError("stderr"), Put("stderr")>> \/ todo' = <<PutError("stderr")>>)
  BY <1>1, <1>2, UserErrorStep
<1>3. CASE at' = "ok" /\ todo' = <<Put("stdout")>>
  <2>1. Keeps(todo', Empties, {})
    BY <1>1, <1>3, KeepsOutput, KeepsMore DEF Streams
  <2> QED BY <1>1, <1>3, <2>1, MiddleStep DEF Middle
<1>4. CASE at' = "load" /\ todo' = <<>>
  <2>1. Keeps(todo', Empties, {})
    BY <1>1, <1>4, KeepsNothing, KeepsMore
  <2>2. Admitted'
    BY <1>1, <1>4, BeforeTheEnd DEF Admitted, Still
  <2> QED BY <1>1, <1>4, <2>1, <2>2, QuietStep
<1> QED BY <1>2, <1>3, <1>4 DEF Command, Goto

LEMMA OutOfMemoryKeeps == CliInv /\ OutOfMemory => CliInv'
<1> SUFFICES ASSUME CliInv, OutOfMemory PROVE CliInv'
  OBVIOUS
<1>1. /\ at = "load" /\ todo = <<>> /\ Still /\ status' = "usage_or_io" /\ Empties = Streams
      /\ at' = "caught" /\ todo' = <<PutError("stderr")>>
  BY DEF OutOfMemory, Ready, Quiet, Still, Goto, CliInv, Disciplined
<1>2. Keeps(todo', Empties, {}) /\ Len(todo') = 1 /\ todo'[1] = PutError("stderr")
  BY <1>1, KeepsError, KeepsMore DEF Streams
<1>3. Reported'
  <2>1. 1 \in 1 .. Len(todo') /\ todo'[1].error
    BY <1>2 DEF PutError
  <2> QED BY <2>1 DEF Reported
<1>4. Admitted' /\ Len(todo') <= 1
  BY <1>1, <1>2 DEF Admitted
<1> QED BY <1>1, <1>2, <1>3, <1>4, QuietStep

LEMMA RefusedKeeps == CliInv /\ Refused => CliInv'
  BY UserErrorStep DEF Refused, Ready, Goto, Quiet, Still

LEMMA ListingKeeps == CliInv /\ Listing => CliInv'
<1> SUFFICES ASSUME CliInv, Listing PROVE CliInv'
  OBVIOUS
<1>1. /\ at = "load" /\ Still /\ status' = status /\ Empties = Streams
      /\ at' = "ok" /\ todo' = <<Put("stdout"), Put("stdout")>>
  BY DEF Listing, Ready, Quiet, Still, Goto, CliInv, Disciplined
<1>2. Keeps(todo', Empties, {})
  BY <1>1, KeepsOutput, KeepsMore DEF Streams
<1> QED BY <1>1, <1>2, MiddleStep DEF Middle

LEMMA StartKeeps == CliInv /\ Start => CliInv'
<1> SUFFICES ASSUME CliInv, Start PROVE CliInv'
  OBVIOUS
<1>1. /\ at = "load" /\ Still /\ status' = status /\ Empties = Streams /\ at' = "execute"
      /\ todo' = IF config.quiet THEN <<>> ELSE header \o <<Flush("stderr")>>
  BY DEF Start, Ready, Quiet, Still, Goto, CliInv, Disciplined
<1>2. Keeps(todo', Streams, Streams)
  BY <1>1, KeepsHeader, KeepsNothing
<1>3. Needed \subseteq Streams
  BY DEF Needed, Streams
<1>4. Keeps(todo', Empties, Needed)
  BY <1>1, <1>2, <1>3, KeepsMore
<1> QED BY <1>1, <1>4, ResumeStep

LEMMA RunKeeps == CliInv /\ Run => CliInv'
<1> SUFFICES ASSUME CliInv, Run PROVE CliInv'
  OBVIOUS
<1>1. at = "execute" /\ todo = <<>> /\ Still /\ status' = status
  BY DEF Run, Ready, Quiet, Still
<1>2. PICK end \in {"cycle_limit", "ebreak", "ecall", "fault"}, n \in 0 .. MaxLines :
        at' = end /\ todo' = traceLines(end, n)
  BY DEF Run, Goto
<1>3. Empties \in SUBSET Streams /\ n \in Nat
  BY <1>1, BeforeTheEnd, CliAssumption
<1>4. config.trace => "stdout" \in Empties
  BY <1>1, <1>3, NothingToDo DEF CliInv, Disciplined
<1>5. Keeps(todo', Empties, {})
  BY <1>2, <1>3, <1>4, KeepsTrace
<1> QED BY <1>1, <1>2, <1>5, MiddleStep DEF Middle

LEMMA HostCallKeeps == CliInv /\ HostCall => CliInv'
<1> SUFFICES ASSUME CliInv, HostCall PROVE CliInv'
  OBVIOUS
<1>1. at = "ecall" /\ Still /\ status' = status
  BY DEF HostCall, Ready, Still
<1>2. Empties \in SUBSET Streams
  BY <1>1, BeforeTheEnd
<1>3. CASE \E s \in Streams : Goto("execute", flushOther(s) \o <<Put(s)>> \o afterResume)
                              \/ Goto("execute", flushOther(s) \o afterResume)
  BY <1>1, <1>2, <1>3, KeepsHostCall, ResumeStep DEF Goto
<1>4. CASE Goto("execute", afterResume)
  BY <1>1, <1>2, <1>4, KeepsResume, ResumeStep DEF Goto
<1>5. CASE Goto("stopped_ecall", <<>>) \/ Goto("exit", <<>>)
  <2>1. Keeps(<<>>, Empties, {})
    BY <1>2, KeepsNothing, KeepsMore
  <2> QED BY <1>1, <1>5, <2>1, MiddleStep DEF Goto, Middle
<1> QED BY <1>3, <1>4, <1>5 DEF HostCall

\* A section, or nothing.
LEMMA KeepsReport ==
    ASSUME NEW c \in SUBSET Streams
    PROVE  /\ Keeps(section(<<Put("stderr")>>), c, {})
           /\ Keeps(section(<<Put("stderr"), Put("stderr")>>), c, {})
           /\ Keeps(<<>>, c, {})
<1>1. /\ Keeps(section(<<Put("stderr")>>), c, {"stdout"})
      /\ Keeps(section(<<Put("stderr"), Put("stderr")>>), c, {"stdout"})
  BY KeepsSection, KeepsLines
<1> QED BY <1>1, KeepsNothing, KeepsMore

LEMMA StopKeeps == CliInv /\ Stop => CliInv'
<1> SUFFICES ASSUME CliInv, Stop PROVE CliInv'
  OBVIOUS
<1>1. PICK end \in {"ebreak", "stopped_ecall", "cycle_limit", "exit", "fault"} :
        /\ at = end /\ status' = stopStatus(end)
        /\ at' \in {"demo", "dump"}
        /\ todo' = section(<<Put("stderr"), Put("stderr")>>) \/ todo' = <<>>
  BY DEF Stop, Ready, Goto
<1>2. Still /\ status' # "usage_or_io"
  BY <1>1 DEF Stop, Quiet, Still, stopStatus
<1>3. Keeps(todo', Empties, {})
  BY <1>1, KeepsReport, BeforeTheEnd
<1> QED BY <1>1, <1>2, <1>3, MiddleStep DEF Middle

LEMMA DemoKeeps == CliInv /\ Demo => CliInv'
<1> SUFFICES ASSUME CliInv, Demo PROVE CliInv'
  OBVIOUS
<1>1. /\ at = "demo" /\ Still /\ status' = status /\ at' = "dump"
      /\ todo' = section(<<Put("stderr")>>) \/ todo' = <<>>
  BY DEF Demo, Ready, Goto, Quiet, Still
<1>2. Keeps(todo', Empties, {})
  BY <1>1, KeepsReport, BeforeTheEnd
<1> QED BY <1>1, <1>2, MiddleStep DEF Middle

LEMMA DumpKeeps == CliInv /\ Dump => CliInv'
<1> SUFFICES ASSUME CliInv, Dump PROVE CliInv'
  OBVIOUS
<1>1. /\ at = "dump" /\ Still /\ status' = status /\ at' = "digest"
      /\ todo' = section(<<Put("stderr"), Put("stderr")>>) \/ todo' = <<>>
  BY DEF Dump, Ready, Goto, Quiet, Still
<1>2. Keeps(todo', Empties, {})
  BY <1>1, KeepsReport, BeforeTheEnd
<1> QED BY <1>1, <1>2, MiddleStep DEF Middle

LEMMA DigestKeeps == CliInv /\ Digest => CliInv'
<1> SUFFICES ASSUME CliInv, Digest PROVE CliInv'
  OBVIOUS
<1>1. /\ at = "digest" /\ Still /\ status' = status /\ at' = "returned"
      /\ todo' = section(<<Put("stderr")>>) \/ todo' = <<>>
  BY DEF Digest, Ready, Goto, Quiet, Still
<1>2. Keeps(todo', Empties, {})
  BY <1>1, KeepsReport, BeforeTheEnd
<1> QED BY <1>1, <1>2, MiddleStep DEF Middle

\* The final flushes begin: what was reported so far stays reported.
LEMMA FlushAllKeeps == CliInv /\ FlushAll => CliInv'
<1> SUFFICES ASSUME CliInv, FlushAll PROVE CliInv'
  OBVIOUS
<1>1. /\ at' = "flushed" /\ todo' = <<Flush("stdout"), Flush("stderr")>> /\ Still /\ todo = <<>>
      /\ at \in {"ok", "userError", "caught", "returned"}
      /\ at = "ok" => status' = "ok"
      /\ at = "userError" => status' = "usage_or_io"
      /\ at \in {"caught", "returned"} => status' = status
  BY DEF FlushAll, Ready, Goto, Quiet, Still
<1>2. Empties \in SUBSET Streams
  BY DEF Empties
<1>3. Keeps(todo', Empties, Streams) /\ Leaves(todo', Empties) \subseteq Streams
  BY <1>1, <1>2, KeepsFlushes DEF Leaves
<1>4. Keeps(todo', Empties, {}) /\ Leaves(todo', Empties) = Streams
  BY <1>3 DEF Keeps
<1>5. \A i \in 1 .. Len(todo') : ~todo'[i].error
  <2>1. Len(todo') = 2 /\ ~todo'[1].error /\ ~todo'[2].error
    BY <1>1 DEF Flush
  <2> QED BY <2>1
<1>6. lost' = lost /\ (at \in {"ok", "userError", "returned"} => lost = {} /\ status # "usage_or_io")
  BY <1>1, BeforeTheEnd DEF Still
<1>7. at = "caught" => status = "usage_or_io"
  BY DEF CliInv, Admitted
<1>8. Admitted'
  BY <1>1, <1>6, <1>7 DEF Admitted
<1>9. status' = "usage_or_io" => Reported'
  <2> SUFFICES ASSUME status' = "usage_or_io" PROVE Reported'
    OBVIOUS
  <2>1. at \in {"userError", "caught"}
    BY <1>1, <1>6
  <2>2. "stderr" \in lost \/ Has(shown, told) \/ Has(buf["stderr"], told)
    BY <1>1, <2>1 DEF CliInv, Announced, Reported
  <2> QED BY <1>1, <2>2 DEF Reported, Still
<1> QED BY <1>1, <1>4, <1>5, <1>8, <1>9, QuietStep

-----------------------------------------------------------------------------
(* The end. *)

\* Nothing is left in a buffer when run() returns by itself.
LEMMA ExitKeeps == CliInv /\ Exit => CliInv'
<1> SUFFICES ASSUME CliInv, Exit PROVE CliInv'
  OBVIOUS
<1>1. /\ at = "flushed" /\ todo = <<>> /\ at' = "done" /\ todo' = <<>> /\ status' = status
      /\ Still
  BY DEF Exit, Ready, Goto, Quiet, Still
<1>2. CliType /\ StreamType /\ Empties = Streams
  <2>1. Leaves(<<>>, Empties) = Streams /\ Empties \in SUBSET Streams
    BY <1>1 DEF CliInv, Disciplined, Empties
  <2> QED BY <2>1, NothingToDo DEF CliInv, CliType
<1>3. /\ buf["stderr"] = <<>> /\ buf["stdout"] = <<>> /\ shown \in Seq(Nat)
      /\ line("stdout") = shown /\ Other("stdout") \in Empties /\ "stdout" \in Streams
  <2>1. shown \in Seq(Nat) /\ buf["stderr"] = <<>> /\ buf["stdout"] = <<>>
    BY <1>2 DEF Empties, Streams, StreamType
  <2>2. shown \o <<>> = shown
    BY <2>1, ConcatEmptySeq
  <2> QED BY <1>2, <2>1, <2>2 DEF line, Streams, Other
<1>4. status # "usage_or_io" => shown = Count(made)
  <2>1. status # "usage_or_io" => lost = {}
    BY <1>1 DEF CliInv, Admitted
  <2> QED BY <1>1, <1>3, <2>1 DEF CliInv, Exact
<1>5. status = "usage_or_io" => "stderr" \in lost \/ Has(shown, told)
  <2>1. status = "usage_or_io" => Reported
    BY <1>1 DEF CliInv, Announced
  <2>2. ~Has(buf["stderr"], told) /\ ~\E i \in 1 .. Len(todo) : todo[i].error
    BY <1>1, <1>3 DEF Has
  <2> QED BY <2>1, <2>2 DEF Reported
<1>6. NothingLost' /\ FailureReported'
  BY <1>1, <1>4, <1>5 DEF NothingLost, FailureReported, Still, Count, Has
<1>7. CliType' /\ Failing'
  BY <1>1, <1>2, EmptySeq DEF CliType, StreamType, Failing, Still
<1>8. Ordered' /\ Disciplined' /\ Exact' /\ Announced'
  BY <1>1 DEF CliInv, Ordered, InOrder, Disciplined, Exact, Announced, Still
<1>9. Admitted'
  BY <1>1 DEF CliInv, Admitted, Still
<1> QED BY <1>6, <1>7, <1>8, <1>9 DEF CliInv

LEMMA FailedKeeps == CliInv /\ Failed => CliInv'
<1> SUFFICES ASSUME CliInv, Failed PROVE CliInv'
  OBVIOUS
<1>1. /\ at = "failed" /\ todo = <<>> /\ at' = "done" /\ todo' = <<>> /\ status' = "usage_or_io"
      /\ Still
  BY DEF Failed, Ready, Goto, Quiet, Still
<1>2. CliType /\ StreamType /\ Reported
  BY <1>1 DEF CliInv, CliType, Announced
<1>3. "stderr" \in lost \/ buf["stderr"] = <<>>
  <2>1. "stderr" \in lost \/ "stderr" \in Leaves(<<>>, Empties)
    BY <1>1 DEF CliInv, Announced
  <2>2. Empties \in SUBSET Streams
    BY DEF Empties
  <2> QED BY <2>1, <2>2, NothingToDo DEF Empties
<1>4. "stderr" \in lost \/ Has(shown, told)
  BY <1>1, <1>2, <1>3 DEF Reported, Has
<1>5. NothingLost' /\ FailureReported'
  BY <1>1, <1>4 DEF NothingLost, FailureReported, Still, Has
<1>6. CliType' /\ Failing'
  BY <1>1, <1>2, EmptySeq DEF CliType, StreamType, Failing, Still
<1>7. Ordered' /\ Disciplined' /\ Exact' /\ Announced'
  BY <1>1 DEF CliInv, Ordered, InOrder, Disciplined, Exact, Announced, Still
<1>8. Admitted'
  BY <1>1 DEF CliInv, Admitted, Still
<1> QED BY <1>5, <1>6, <1>7, <1>8 DEF CliInv

LEMMA InitCliInv == CliInit => CliInv
<1> SUFFICES ASSUME CliInit PROVE CliInv
  OBVIOUS
<1>1. /\ at = "command" /\ todo = <<>> /\ buf = [s \in Streams |-> <<>>] /\ shown = <<>> /\ made = 0
      /\ status = NoStatus /\ told = {} /\ lost = {}
  BY DEF CliInit
<1>2. CliType /\ Failing
  BY <1>1, EmptySeq DEF CliType, StreamType, Failing
<1>3. Empties = Streams /\ Safe(todo, Empties)
  BY <1>1, NothingToDo DEF Empties
<1>4. \A s \in Streams : line(s) = <<>>
  BY <1>1 DEF line
<1>5. Ordered
  BY <1>1, <1>4 DEF Ordered, InOrder, Increasing, Below, Streams
<1>6. Disciplined
  BY <1>1, <1>3 DEF Disciplined, Streams
<1>7. Exact
  <2>1. Count(0) = <<>>
    <3>1. Count(0) \in Seq(Nat) /\ Len(Count(0)) = 0
      BY DEF Count
    <3> QED BY <3>1, EmptySeq
  <2> QED BY <1>1, <1>4, <2>1 DEF Exact
<1>8. Admitted /\ Announced /\ NothingLost /\ FailureReported
  BY <1>1 DEF Admitted, Announced, NothingLost, FailureReported, NoStatus
<1> QED BY <1>2, <1>5, <1>6, <1>7, <1>8 DEF CliInv

LEMMA NextCliInv == CliInv /\ [CliNext]_cliVars => CliInv'
<1> SUFFICES ASSUME CliInv, [CliNext]_cliVars PROVE CliInv'
  OBVIOUS
<1>1. CASE UNCHANGED cliVars
  <2>1. Empties' = Empties /\ (\A s \in Streams : line(s)' = line(s))
    BY <1>1 DEF cliVars, Empties, line
  <2>2. CliType' /\ Failing' /\ Admitted'
    BY <1>1 DEF cliVars, CliInv, CliType, StreamType, Failing, Admitted
  <2>3. Ordered' /\ Exact'
    BY <1>1, <2>1 DEF cliVars, CliInv, Ordered, Exact, InOrder, line
  <2>4. Disciplined'
    BY <1>1, <2>1 DEF cliVars, CliInv, Disciplined
  <2>5. Reported' <=> Reported
    BY <1>1 DEF cliVars, Reported
  <2>6. Announced'
    BY <1>1, <2>1, <2>5 DEF cliVars, CliInv, Announced
  <2>7. NothingLost' /\ FailureReported'
    BY <1>1 DEF cliVars, CliInv, NothingLost, FailureReported
  <2> QED BY <2>2, <2>3, <2>4, <2>6, <2>7 DEF CliInv
<1>2. CASE CliNext
  BY <1>2, IoKeeps, IoFailsKeeps, CommandKeeps, OutOfMemoryKeeps, RefusedKeeps, ListingKeeps,
     StartKeeps, RunKeeps, HostCallKeeps, StopKeeps, DemoKeeps, DumpKeeps, DigestKeeps,
     FlushAllKeeps, FailedKeeps, ExitKeeps DEF CliNext
<1> QED BY <1>1, <1>2

LEMMA CliAlways == CliSpec => []CliInv
  BY InitCliInv, NextCliInv, PTL DEF CliSpec

-----------------------------------------------------------------------------
(* Results. *)

\* For every buffer size, every choice of options and every write or flush that
\* fails, what Report, Trace and flushOther() write to the two streams arrives in
\* the order in which it was written.
THEOREM OutputArrivesInOrder == CliSpec => []InOrder
<1>1. CliInv => InOrder
  BY DEF CliInv, Ordered
<1> QED BY <1>1, CliAlways, PTL

\* When run() returns any status but usage_or_io, every piece of output written
\* to either stream has arrived.
THEOREM OutputNeverLost == CliSpec => []NothingLost
<1>1. CliInv => NothingLost
  BY DEF CliInv
<1> QED BY <1>1, CliAlways, PTL

\* When run() returns usage_or_io, a message about it has arrived on stderr,
\* unless stderr itself failed: that of parse(), of run()'s handler or of
\* outputFailed().
THEOREM FailuresAlwaysReported == CliSpec => []FailureReported
<1>1. CliInv => FailureReported
  BY DEF CliInv
<1> QED BY <1>1, CliAlways, PTL

=============================================================================
