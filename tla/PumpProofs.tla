----------------------------- MODULE PumpProofs -----------------------------
(***************************************************************************)
(* The safety properties of Pump, for every number of children, every size *)
(* of the buffers, the pipes and the file, and any set of mortal children. *)
(*                                                                         *)
(* The argument is the inductive invariant IInv of Pump: the ring buffers  *)
(* are sound, what select() found stays true until it is used, stdout, the *)
(* buffers and the pipes hold consecutive pieces of the file, the ends     *)
(* travel down the row in turn, and nothing is read before all children    *)
(* have started.                                                           *)
(***************************************************************************)
EXTENDS Pump, TLAPS

----------------------------------------------------------------------------
(* What readToBuffer and writeFromBuffer do to a ring buffer of any size,  *)
(* seen as the queue that it stands for                                    *)

\* The fields of a connection.
LEMMA Fields ==
  ASSUME NEW size \in Nat \ {0}, NEW c \in Connection(size)
  PROVE  /\ c = [size_buffer |-> c.size_buffer, buffer |-> c.buffer,
                 tail |-> c.tail, head |-> c.head, count |-> c.count]
         /\ c.size_buffer = size
         /\ c.buffer \in [0..(size - 1) -> Byte]
         /\ c.tail \in Nat /\ c.tail < size
         /\ c.head \in Nat /\ c.head < size
         /\ c.count \in Nat /\ c.count <= size
BY DEF Connection

\* A buffer with room has room at the tail, one with bytes has bytes at the
\* head; a span is never more than the whole room or all the bytes.
LEMMA Spans ==
  ASSUME NEW size \in Nat \ {0}, NEW c \in Connection(size), Sound(c)
  PROVE  /\ c.count < size => ReadSpan(c) \in 1..(size - c.count)
         /\ c.count > 0 => WriteSpan(c) \in 1..c.count
<1>1. /\ c.size_buffer = size
      /\ c.tail \in Nat /\ c.tail < size /\ c.head \in Nat /\ c.head < size
      /\ c.count \in Nat /\ c.count <= size
  BY Fields
<1>2. c.head + c.count = c.tail \/ c.head + c.count = c.tail + size
  BY <1>1 DEF Sound
<1> QED BY <1>1, <1>2 DEF ReadSpan, WriteSpan

\* A new connection is sound and empty.
LEMMA EmptyIs ==
  ASSUME NEW size \in Nat \ {0}, NEW zero \in Byte
  PROVE  /\ Empty(size, zero) \in Connection(size)
         /\ Sound(Empty(size, zero))
         /\ Empty(size, zero).count = 0
BY DEF Empty, Connection, Sound

\* Where a byte lies that is round the end of the buffer.
LEMMA Places ==
  ASSUME NEW size \in Nat, NEW head \in Nat, NEW tail \in Nat, NEW count \in Nat,
         NEW k \in Nat, 1 <= k, head + count = tail + size
  PROVE  /\ k <= count /\ head + k - 1 >= size =>
              head + k - 1 - size >= 0 /\ head + k - 1 - size < tail
OBVIOUS

\* A read appends its bytes to the queue and leaves what was in it.
LEMMA AfterReadIs ==
  ASSUME NEW size \in Nat \ {0}, NEW c \in Connection(size), Sound(c),
         c.count < size, NEW bytes \in Seq(Byte), Len(bytes) \in 1..ReadSpan(c),
         NEW d, d = AfterRead(c, bytes)
  PROVE  /\ d \in Connection(size) /\ Sound(d)
         /\ d.count = c.count + Len(bytes)
         /\ \A k \in 1..c.count : Content(d)[k] = Content(c)[k]
         /\ \A k \in 1..Len(bytes) : Content(d)[c.count + k] = bytes[k]
<1> DEFINE n == Len(bytes)
<1>1. /\ c.size_buffer = size /\ c.buffer \in [0..(size - 1) -> Byte]
      /\ c.tail \in Nat /\ c.tail < size /\ c.head \in Nat /\ c.head < size
      /\ c.count \in Nat /\ c.count <= size
  BY Fields
<1>0. /\ size \in Nat /\ size > 0
      /\ c.tail \in Nat /\ c.tail < size /\ c.head \in Nat /\ c.head < size
      /\ c.count \in Nat /\ c.count <= size
  BY <1>1
<1>2. c.head + c.count = c.tail \/ c.head + c.count = c.tail + size
  BY <1>1 DEF Sound
<1>3. ReadSpan(c) \in 1..(size - c.count)
  BY Spans
<1>4. n \in Nat /\ 1 <= n /\ n <= ReadSpan(c) /\ n <= size - c.count
  BY <1>0, <1>3
<1>5. c.tail + n <= size
  BY <1>1, <1>2, <1>4 DEF ReadSpan
<1>6. /\ d = [size_buffer |-> size, buffer |-> d.buffer, tail |-> d.tail,
              head |-> c.head, count |-> c.count + n]
      /\ d.size_buffer = size /\ d.head = c.head /\ d.count = c.count + n
      /\ d.tail = IF c.tail + n = size THEN 0 ELSE c.tail + n
      /\ d.buffer = [k \in 0..(size - 1) |->
                       IF k \in c.tail..(c.tail + n - 1)
                       THEN bytes[k - c.tail + 1] ELSE c.buffer[k]]
  BY <1>1 DEF AfterRead, Advance, Connection
<1> HIDE DEF n
<1>f. /\ d.head = c.head /\ d.count = c.count + n
      /\ d.tail = IF c.tail + n = size THEN 0 ELSE c.tail + n
  BY <1>6
<1>g. /\ d.head = c.head /\ d.count = c.count + n
      /\ (d.tail = 0 /\ c.tail + n = size) \/ (d.tail = c.tail + n /\ c.tail + n < size)
  BY <1>0, <1>4, <1>5, <1>f
<1>7. d.buffer \in [0..(size - 1) -> Byte]
  <2>1. ASSUME NEW k \in 0..(size - 1), k \in c.tail..(c.tail + n - 1)
        PROVE  bytes[k - c.tail + 1] \in Byte
    <3>1. k - c.tail + 1 \in 1..n
      BY <1>0, <1>4, <2>1
    <3> QED BY <3>1 DEF n
  <2>2. \A k \in 0..(size - 1) : c.buffer[k] \in Byte
    BY <1>1
  <2>3. \A k \in 0..(size - 1) :
          (IF k \in c.tail..(c.tail + n - 1)
           THEN bytes[k - c.tail + 1] ELSE c.buffer[k]) \in Byte
    BY <2>1, <2>2
  <2> QED BY <1>6, <2>3
<1>8. d.tail \in 0..(size - 1) /\ d.count \in 0..size
  BY SMTT(30), <1>0, <1>4, <1>g
<1>9. d \in Connection(size)
  BY <1>1, <1>6, <1>7, <1>8 DEF Connection
<1>10. d.head + d.count \in {d.tail, d.tail + d.size_buffer}
  <2>1. d.head + d.count = d.tail \/ d.head + d.count = d.tail + size
    <3>1. d.head + d.count = c.head + c.count + n
      BY <1>0, <1>4, <1>g
    <3>2. CASE d.tail = 0 /\ c.tail + n = size
      BY SMTT(30), <1>0, <1>2, <1>4, <3>1, <3>2
    <3>3. CASE d.tail = c.tail + n /\ c.tail + n < size
      BY <1>0, <1>2, <1>4, <3>1, <3>3
    <3> QED BY <1>g, <3>2, <3>3
  <2> QED BY <1>6, <2>1
<1>11. ASSUME NEW k \in 1..c.count
       PROVE  Content(d)[k] = Content(c)[k]
  <2>1. Content(c)[k] = c.buffer[Position(c, k)]
    BY DEF Content
  <2>2. Content(d)[k] = d.buffer[Position(d, k)]
    BY <1>1, <1>4, <1>6 DEF Content
  <2>3. Position(d, k) = Position(c, k)
    BY <1>1, <1>6 DEF Position
  <2>4. /\ Position(c, k) \in 0..(size - 1)
        /\ Position(c, k) < c.tail \/ Position(c, k) > c.tail + n - 1
    <3>1. \/ Position(c, k) = c.head + k - 1 /\ c.head + k - 1 < size
          \/ Position(c, k) = c.head + k - 1 - size /\ c.head + k - 1 >= size
      BY <1>0, <1>1 DEF Position
    <3>2. k \in Nat /\ 1 <= k /\ k <= c.count
      BY <1>0
    <3>3. CASE Position(c, k) = c.head + k - 1 /\ c.head + k - 1 < size
      <4>1. CASE c.head + c.count = c.tail
        BY <1>0, <1>4, <3>2, <3>3, <4>1
      <4>2. CASE c.head + c.count = c.tail + size
        BY SMTT(30), <1>0, <1>4, <3>2, <3>3, <4>2
      <4> QED BY <1>2, <4>1, <4>2
    <3>4. CASE Position(c, k) = c.head + k - 1 - size /\ c.head + k - 1 >= size
      <4>1. CASE c.head + c.count = c.tail
        BY <1>0, <1>4, <3>2, <3>4, <4>1
      <4>2. CASE c.head + c.count = c.tail + size
        <5>1. c.head + k - 1 - size >= 0 /\ c.head + k - 1 - size < c.tail
          BY <1>0, <1>4, <3>2, <3>4, <4>2, Places
        <5> QED BY <1>0, <1>4, <3>2, <3>4, <5>1
      <4> QED BY <1>2, <4>1, <4>2
    <3> QED BY <3>1, <3>3, <3>4
  <2>5. Position(c, k) \notin c.tail..(c.tail + n - 1)
    BY <1>0, <1>4, <2>4
  <2> QED BY <1>6, <2>1, <2>2, <2>3, <2>4, <2>5
<1>12. ASSUME NEW k \in 1..n
       PROVE  Content(d)[c.count + k] = bytes[k]
  <2>1. c.count + k \in 1..d.count
    BY <1>1, <1>4, <1>6
  <2>2. Content(d)[c.count + k] = d.buffer[Position(d, c.count + k)]
    BY <2>1 DEF Content
  <2>3. Position(d, c.count + k) = c.tail + k - 1
    <3>1. Position(d, c.count + k) =
            IF c.head + (c.count + k) - 1 < size THEN c.head + (c.count + k) - 1
            ELSE c.head + (c.count + k) - 1 - size
      BY <1>6 DEF Position
    <3>2. k \in Nat /\ 1 <= k /\ k <= n
      BY <1>4
    <3>3. CASE c.head + c.count = c.tail
      BY SMTT(30), <1>0, <1>4, <1>5, <3>1, <3>2, <3>3
    <3>4. CASE c.head + c.count = c.tail + size
      <4>1. c.head + (c.count + k) = (c.head + c.count) + k
        BY <1>0, <3>2
      <4>2. c.head + (c.count + k) = (c.tail + size) + k
        BY <3>4, <4>1
      <4>3. /\ (c.head + (c.count + k)) - 1 - size = c.tail + k - 1
            /\ (c.head + (c.count + k)) - 1 >= size
        BY <1>0, <3>2, <4>2
      <4> QED BY <1>0, <3>1, <3>2, <4>3
    <3> QED BY <1>2, <3>3, <3>4
  <2>4. /\ c.tail + k - 1 \in 0..(size - 1)
        /\ c.tail + k - 1 \in c.tail..(c.tail + n - 1)
        /\ (c.tail + k - 1) - c.tail + 1 = k
    BY SMTT(30), <1>0, <1>4, <1>5
  <2> QED BY <1>6, <2>2, <2>3, <2>4
<1> QED BY <1>6, <1>9, <1>10, <1>11, <1>12 DEF Sound, n

\* A write takes its bytes from the front of the queue.
LEMMA AfterWriteIs ==
  ASSUME NEW size \in Nat \ {0}, NEW c \in Connection(size), Sound(c),
         c.count > 0, NEW n \in 0..WriteSpan(c), NEW d, d = AfterWrite(c, n)
  PROVE  /\ d \in Connection(size) /\ Sound(d)
         /\ n \in Nat /\ n <= c.count /\ d.count = c.count - n
         /\ \A k \in 1..d.count : Content(d)[k] = Content(c)[k + n]
         /\ n = 0 => d = c
<1>1. /\ c.size_buffer = size /\ c.buffer \in [0..(size - 1) -> Byte]
      /\ c.tail \in Nat /\ c.tail < size /\ c.head \in Nat /\ c.head < size
      /\ c.count \in Nat /\ c.count <= size
  BY Fields
<1>2. c.head + c.count = c.tail \/ c.head + c.count = c.tail + size
  BY <1>1 DEF Sound
<1>3. WriteSpan(c) \in 1..c.count
  BY <1>1, Spans
<1>4. n \in Nat /\ n <= WriteSpan(c) /\ n <= c.count
  BY <1>1, <1>3
<1>5. c.head + n <= size
  BY <1>1, <1>2, <1>4 DEF WriteSpan
<1>6. /\ d = [size_buffer |-> size, buffer |-> c.buffer, tail |-> c.tail,
              head |-> d.head, count |-> c.count - n]
      /\ d.size_buffer = size /\ d.buffer = c.buffer /\ d.tail = c.tail
      /\ d.count = c.count - n
      /\ d.head = IF c.head + n = size THEN 0 ELSE c.head + n
  BY <1>1 DEF AfterWrite, Advance, Connection
<1>7. d.head \in 0..(size - 1) /\ d.count \in 0..size
  BY <1>1, <1>4, <1>5, <1>6
<1>8. d \in Connection(size)
  BY <1>1, <1>6, <1>7 DEF Connection
<1>9. d.head + d.count \in {d.tail, d.tail + d.size_buffer}
  <2>1. \/ d.head = 0 /\ c.head + n = size
        \/ d.head = c.head + n /\ c.head + n < size
    BY <1>1, <1>4, <1>5, <1>6
  <2>2. d.count = c.count - n
    BY <1>6
  <2>3. d.head + d.count = c.tail \/ d.head + d.count = c.tail + size
    <3>1. CASE d.head = 0 /\ c.head + n = size
      BY <1>1, <1>2, <1>4, <2>2, <3>1
    <3>2. CASE d.head = c.head + n /\ c.head + n < size
      BY <1>1, <1>2, <1>4, <2>2, <3>2
    <3> QED BY <2>1, <3>1, <3>2
  <2> QED BY <1>6, <2>3
<1>10. ASSUME NEW k \in 1..d.count
       PROVE  Content(d)[k] = Content(c)[k + n]
  <2>1. k + n \in 1..c.count
    BY <1>1, <1>4, <1>6
  <2>2. Content(c)[k + n] = c.buffer[Position(c, k + n)]
    BY <2>1 DEF Content
  <2>3. Content(d)[k] = c.buffer[Position(d, k)]
    BY <1>6 DEF Content
  <2>4. Position(d, k) = Position(c, k + n)
    BY SMTT(30), <1>1, <1>2, <1>4, <1>5, <1>6 DEF Position
  <2> QED BY <2>2, <2>3, <2>4
<1>11. n = 0 => d = c
  <2>1. n = 0 => d.head = c.head /\ d.count = c.count
    BY <1>1, <1>6
  <2> QED BY <1>1, <1>6, <2>1, Fields
<1> QED BY <1>4, <1>6, <1>8, <1>9, <1>10, <1>11 DEF Sound

\* write() is offered the front of the queue.
LEMMA OfferedIs ==
  ASSUME NEW size \in Nat \ {0}, NEW c \in Connection(size), Sound(c), c.count > 0
  PROVE  /\ Offered(c) \in Seq(Byte)
         /\ Len(Offered(c)) = WriteSpan(c)
         /\ \A k \in 1..WriteSpan(c) : Offered(c)[k] = Content(c)[k]
<1>1. /\ c.size_buffer = size /\ c.buffer \in [0..(size - 1) -> Byte]
      /\ c.tail \in Nat /\ c.tail < size /\ c.head \in Nat /\ c.head < size
      /\ c.count \in Nat /\ c.count <= size
  BY Fields
<1>2. c.head + c.count = c.tail \/ c.head + c.count = c.tail + size
  BY <1>1 DEF Sound
<1>3. WriteSpan(c) \in 1..c.count /\ WriteSpan(c) \in Nat
  BY <1>1, Spans
<1>4. c.head + WriteSpan(c) <= size
  BY <1>1, <1>2 DEF WriteSpan
<1>5. ASSUME NEW k \in 1..WriteSpan(c)
      PROVE  /\ c.head + k - 1 \in 0..(size - 1)
             /\ c.buffer[c.head + k - 1] \in Byte
             /\ c.buffer[c.head + k - 1] = Content(c)[k]
  <2>1. c.head + k - 1 \in 0..(size - 1) /\ k \in 1..c.count
    BY <1>1, <1>3, <1>4
  <2>2. Position(c, k) = c.head + k - 1
    BY <1>1, <2>1 DEF Position
  <2>3. Content(c)[k] = c.buffer[Position(c, k)]
    BY <2>1 DEF Content
  <2> QED BY <1>1, <2>1, <2>2, <2>3
<1>6. Offered(c) \in [1..WriteSpan(c) -> Byte]
  BY <1>5 DEF Offered
<1>7. Offered(c) \in Seq(Byte) /\ Len(Offered(c)) = WriteSpan(c)
  BY <1>3, <1>6
<1> QED BY <1>5, <1>7 DEF Offered

\* What a sound buffer holds are bytes.
LEMMA ContentIs ==
  ASSUME NEW size \in Nat \ {0}, NEW c \in Connection(size)
  PROVE  Content(c) \in Seq(Byte) /\ Len(Content(c)) = c.count
<1>1. /\ c.size_buffer = size /\ c.buffer \in [0..(size - 1) -> Byte]
      /\ c.head \in Nat /\ c.head < size
      /\ c.count \in Nat /\ c.count <= size
  BY Fields
<1>2. \A k \in 1..c.count : Position(c, k) \in 0..(size - 1)
  BY <1>1 DEF Position
<1>3. Content(c) \in [1..c.count -> Byte]
  BY <1>1, <1>2 DEF Content
<1> QED BY <1>1, <1>3

----------------------------------------------------------------------------
(* Sequences of consecutive bytes                                          *)

\* The two parts of a sequence that is cut after n elements.
LEMMA Cut ==
  ASSUME NEW S, NEW s \in Seq(S), NEW n \in 0..Len(s)
  PROVE  /\ SubSeq(s, 1, n) \in Seq(S) /\ Len(SubSeq(s, 1, n)) = n
         /\ \A k \in 1..n : SubSeq(s, 1, n)[k] = s[k]
         /\ SubSeq(s, n + 1, Len(s)) \in Seq(S)
         /\ Len(SubSeq(s, n + 1, Len(s))) = Len(s) - n
         /\ \A k \in 1..(Len(s) - n) : SubSeq(s, n + 1, Len(s))[k] = s[n + k]
OBVIOUS

LEMMA ConsecutiveCut ==
  ASSUME NEW S, NEW s \in Seq(S), NEW n \in 0..Len(s), NEW from \in Nat,
         Consecutive(s, from)
  PROVE  /\ Consecutive(SubSeq(s, 1, n), from)
         /\ Consecutive(SubSeq(s, n + 1, Len(s)), from + n)
<1>1. \A k \in 1..Len(s) : s[k] = from + k
  BY DEF Consecutive
<1>2. Len(s) \in Nat /\ n \in Nat /\ n <= Len(s)
  OBVIOUS
<1>3. ASSUME NEW k \in 1..n
      PROVE  SubSeq(s, 1, n)[k] = from + k
  <2>1. k \in 1..Len(s)
    BY <1>2
  <2> QED BY <1>1, <2>1, Cut
<1>4. ASSUME NEW k \in 1..(Len(s) - n)
      PROVE  SubSeq(s, n + 1, Len(s))[k] = (from + n) + k
  <2>1. n + k \in 1..Len(s) /\ from + (n + k) = (from + n) + k
    BY <1>2
  <2>2. SubSeq(s, n + 1, Len(s))[k] = s[n + k]
    BY Cut
  <2> QED BY <1>1, <2>1, <2>2
<1> QED BY <1>3, <1>4, Cut DEF Consecutive

LEMMA Joined ==
  ASSUME NEW S, NEW s \in Seq(S), NEW t \in Seq(S)
  PROVE  s \o t \in Seq(S) /\ Len(s \o t) = Len(s) + Len(t)
OBVIOUS

LEMMA ConsecutiveJoin ==
  ASSUME NEW S, NEW s \in Seq(S), NEW t \in Seq(S), NEW from \in Nat,
         Consecutive(s, from), Consecutive(t, from + Len(s))
  PROVE  Consecutive(s \o t, from)
<1>1. Len(s) \in Nat /\ Len(t) \in Nat /\ Len(s \o t) = Len(s) + Len(t)
  OBVIOUS
<1>2. ASSUME NEW k \in 1..(Len(s) + Len(t))
      PROVE  (s \o t)[k] = from + k
  <2>1. CASE k <= Len(s)
    BY <1>1, <2>1 DEF Consecutive
  <2>2. CASE k > Len(s)
    <3>1. k - Len(s) \in 1..Len(t)
      BY <1>1, <2>2
    <3>2. (s \o t)[k] = t[k - Len(s)]
      BY <1>1, <2>2
    <3>3. t[k - Len(s)] = (from + Len(s)) + (k - Len(s))
      BY <3>1 DEF Consecutive
    <3> QED BY <1>1, <3>2, <3>3
  <2> QED BY <1>1, <2>1, <2>2
<1> QED BY <1>1, <1>2 DEF Consecutive

----------------------------------------------------------------------------
(* Facts about the constants and the types                                 *)

LEMMA Constants ==
  /\ num_children \in Nat /\ num_children > 0
  /\ Final \in Children /\ Final = num_children - 1 /\ 0 \in Children
  /\ \A c \in Children : /\ c \in Nat /\ c <= Final /\ c < num_children
                         /\ SizeBuffer[c] \in Nat \ {0}
                         /\ c # Final => c + 1 \in Children
                         /\ c # 0 => c - 1 \in Children
  /\ \A c \in 0..Final : c \in Children
  /\ Length \in Nat /\ 0 \in Byte
BY ChildrenAssumption, SizeAssumption, ByteAssumption DEF Children, Final

LEMMA FileIs ==
  File \in Seq(Byte) /\ Len(File) = Length /\ Consecutive(File, 0)
<1>1. File \in [1..Length -> Byte]
  BY SizeAssumption, ByteAssumption DEF File
<1>2. File \in Seq(Byte) /\ Len(File) = Length
  BY <1>1, SizeAssumption
<1> QED BY <1>2, SizeAssumption DEF File, Consecutive

\* What the type invariant and the soundness of the rings say of one child.
LEMMA OneChild ==
  ASSUME TypeOK, RingsSound, NEW c \in Children
  PROVE  /\ child[c] \in {"none", "running", "finished", "dead"}
         /\ input[c] \in Seq(Byte) /\ Len(input[c]) \in Nat
         /\ output[c] \in Seq(Byte) /\ Len(output[c]) \in Nat
         /\ connectors[c] \in Connection(SizeBuffer[c])
         /\ Sound(connectors[c])
         /\ connectors[c].size_buffer = SizeBuffer[c]
         /\ connectors[c].count \in Nat
         /\ connectors[c].count <= SizeBuffer[c]
         /\ SizeBuffer[c] \in Nat \ {0}
         /\ Content(connectors[c]) \in Seq(Byte)
         /\ Len(Content(connectors[c])) = connectors[c].count
         /\ fd_in[c] \in BOOLEAN /\ passed[c] \in Nat
         /\ InOutput(c) \in Nat /\ InInput(c) \in Nat /\ InNext(c) \in Nat
<1>1. /\ child[c] \in {"none", "running", "finished", "dead"}
      /\ input[c] \in Seq(Byte) /\ Len(input[c]) \in Nat
      /\ output[c] \in Seq(Byte) /\ Len(output[c]) \in Nat
      /\ connectors[c] \in Connection(SizeBuffer[c])
      /\ fd_in[c] \in BOOLEAN /\ passed[c] \in Nat
  BY DEF TypeOK
<1>2. SizeBuffer[c] \in Nat \ {0}
  BY Constants
<1>3. /\ connectors[c].size_buffer = SizeBuffer[c] /\ connectors[c].count \in Nat
      /\ connectors[c].count <= SizeBuffer[c]
  BY <1>1, <1>2, Fields
<1>4. /\ Content(connectors[c]) \in Seq(Byte)
      /\ Len(Content(connectors[c])) = connectors[c].count
  BY <1>1, <1>2, ContentIs
<1>5. Sound(connectors[c])
  BY DEF RingsSound
<1>6. InOutput(c) \in Nat /\ InInput(c) \in Nat /\ InNext(c) \in Nat
  <2>1. /\ passed[c] \in Nat /\ connectors[c].count \in Nat
        /\ Len(output[c]) \in Nat /\ Len(input[c]) \in Nat
    BY <1>1, <1>3
  <2>2. InOutput(c) \in Nat
    BY <2>1 DEF InOutput
  <2>3. InInput(c) \in Nat
    BY <2>1, <2>2 DEF InInput
  <2>4. InNext(c) \in Nat
    BY <2>1, <2>3 DEF InNext
  <2> QED BY <2>2, <2>3, <2>4
<1> QED BY <1>1, <1>2, <1>3, <1>4, <1>5, <1>6

----------------------------------------------------------------------------
(* The invariant holds at the start                                        *)

LEMMA InitIInv ==
  ASSUME Init PROVE IInv
<1> USE DEF Init, Fresh
<1>1. ASSUME NEW c \in Children
      PROVE  /\ connectors[c] \in Connection(SizeBuffer[c])
             /\ Sound(connectors[c])
             /\ connectors[c].count = 0
  BY Constants, EmptyIs
<1>2. TypeOK
  <2>1. <<>> \in Seq(Byte) /\ File \in Seq(Byte)
    BY FileIs
  <2>2. input \in [Children -> Seq(Byte)] /\ output \in [Children -> Seq(Byte)]
    BY <2>1
  <2>3. index_of_finished \in 0..num_children /\ i \in Children
    BY Constants
  <2>4. stdout \in Seq(Byte) /\ passed \in [Children -> Nat]
    BY <2>1
  <2>5. DOMAIN connectors = Children
    OBVIOUS
  <2> QED BY <1>1, <2>2, <2>3, <2>4, <2>5 DEF TypeOK, Running, Starting
<1>3. RingsSound
  BY <1>1 DEF RingsSound
<1>4. ReadyStaysReady
  BY DEF ReadyStaysReady
<1>5. Stream
  <2>1. ASSUME NEW c \in Children
        PROVE  /\ Consecutive(Content(connectors[c]), passed[c])
               /\ Consecutive(output[c], InOutput(c))
               /\ Consecutive(input[c], InInput(c))
               /\ InNext(c) = IF c = 0 THEN Length ELSE passed[c - 1]
               /\ passed[c] <= Length
    <3>1. /\ passed[c] = 0 /\ InOutput(c) = 0 /\ InInput(c) = 0
          /\ InNext(c) = Len(input[c])
      BY <1>1, FileIs, Constants DEF InOutput, InInput, InNext
    <3>2. Len(Content(connectors[c])) = 0
      BY ZenonT(40), <1>1, Constants, ContentIs
    <3>3. Consecutive(Content(connectors[c]), passed[c]) /\ Consecutive(output[c], InOutput(c))
      BY <3>2 DEF Consecutive
    <3>4. CASE c = 0
      BY <3>1, <3>3, <3>4, FileIs, Constants
    <3>5. CASE c # 0
      <4>1. c - 1 \in Children /\ passed[c - 1] = 0 /\ input[c] = <<>>
        BY <3>5, Constants
      <4>2. Consecutive(input[c], InInput(c))
        BY <4>1 DEF Consecutive
      <4> QED BY <3>1, <3>3, <3>5, <4>1, <4>2, Constants
    <3> QED BY <3>4, <3>5
  <2>2. Consecutive(stdout, 0) /\ Len(stdout) = passed[Final]
    BY Constants DEF Consecutive
  <2> QED BY <2>1, <2>2 DEF Stream
<1>6. EndsTravel
  BY Constants DEF EndsTravel
<1>7. WhileAllLive
  BY Constants DEF WhileAllLive
<1>8. NothingRead
  BY DEF NothingRead
<1> QED BY <1>2, <1>3, <1>4, <1>5, <1>6, <1>7, <1>8 DEF IInv

----------------------------------------------------------------------------
(* Steps that leave the bytes where they are                               *)

LEMMA BytesStay ==
  ASSUME RingsSound, Stream, UNCHANGED <<connectors, pipes, stdout, passed>>
  PROVE  RingsSound' /\ Stream'
BY DEF RingsSound, Stream, pipes, InOutput, InInput, InNext

LEMMA FinishStep ==
  ASSUME IInv, NEW c \in Children, Finish(c) PROVE IInv'
<1> USE DEF Finish
<1>1. /\ child[c] = "running" /\ child' = [child EXCEPT ![c] = "finished"]
      /\ input[c] = <<>> /\ InputClosed(c)
  OBVIOUS
<1>2. TypeOK /\ RingsSound /\ ReadyStaysReady /\ Stream /\ EndsTravel /\ WhileAllLive
      /\ NothingRead
  BY DEF IInv
<1>3. child \in [Children -> {"none", "running", "finished", "dead"}]
  BY <1>2 DEF TypeOK
<1>4. \A d \in Children : child'[d] = IF d = c THEN "finished" ELSE child[d]
  BY <1>1, <1>3
<1>5. TypeOK'
  BY <1>1, <1>2, <1>3 DEF TypeOK, pipes, fds
<1>6. RingsSound' /\ Stream'
  BY <1>2, BytesStay
<1>7. ReadyStaysReady'
  <2>1. \A d \in Children : Readable(d) => Readable(d)'
    BY <1>4 DEF Readable, Ended, pipes
  <2>2. readfds \subseteq Children /\ writefds \subseteq Children
    BY <1>2 DEF TypeOK
  <2> QED BY <1>2, <2>1, <2>2 DEF ReadyStaysReady, ToRead, ToWrite, fds
<1>8. EndsTravel'
  BY <1>1, <1>2, <1>4 DEF EndsTravel, InputClosed, Ended, pipes
<1>9. WhileAllLive'
  <2>1. NobodyDied' => NobodyDied
    BY <1>1, <1>4 DEF NobodyDied
  <2> QED BY <1>2, <2>1 DEF WhileAllLive
<1>10. NothingRead'
  BY <1>1, <1>2 DEF NothingRead, Fresh
<1> QED BY <1>5, <1>6, <1>7, <1>8, <1>9, <1>10 DEF IInv

LEMMA DieStep ==
  ASSUME IInv, NEW c \in Children, Die(c) PROVE IInv'
<1> USE DEF Die
<1>1. child[c] = "running" /\ child' = [child EXCEPT ![c] = "dead"]
  OBVIOUS
<1>2. TypeOK /\ RingsSound /\ ReadyStaysReady /\ Stream /\ EndsTravel /\ WhileAllLive
      /\ NothingRead
  BY DEF IInv
<1>3. child \in [Children -> {"none", "running", "finished", "dead"}]
  BY <1>2 DEF TypeOK
<1>4. \A d \in Children : child'[d] = IF d = c THEN "dead" ELSE child[d]
  BY <1>1, <1>3
<1>5. TypeOK'
  BY <1>1, <1>2, <1>3 DEF TypeOK, pipes, fds
<1>6. RingsSound' /\ Stream'
  BY <1>2, BytesStay
<1>7. ReadyStaysReady'
  <2>1. \A d \in Children : Readable(d) => Readable(d)'
    BY <1>4 DEF Readable, Ended, pipes
  <2>2. readfds \subseteq Children /\ writefds \subseteq Children
    BY <1>2 DEF TypeOK
  <2> QED BY <1>2, <2>1, <2>2 DEF ReadyStaysReady, ToRead, ToWrite, fds
<1>8. EndsTravel'
  BY <1>1, <1>2, <1>4 DEF EndsTravel, InputClosed, Ended, pipes
<1>9. WhileAllLive'
  BY <1>4 DEF WhileAllLive, NobodyDied
<1>10. NothingRead'
  BY <1>1, <1>2 DEF NothingRead, Fresh
<1> QED BY <1>5, <1>6, <1>7, <1>8, <1>9, <1>10 DEF IInv

LEMMA SelectStep ==
  ASSUME IInv, Select PROVE IInv'
<1> USE DEF Select
<1>1. TypeOK /\ RingsSound /\ ReadyStaysReady /\ Stream /\ EndsTravel /\ WhileAllLive
      /\ NothingRead
  BY DEF IInv
<1>2. /\ index_of_finished \in Nat /\ index_of_finished < num_children
      /\ index_of_finished \in Children
  BY <1>1, Constants DEF TypeOK, EndsTravel, Children
<1>3. Remaining \subseteq Children
  BY <1>2, Constants DEF Remaining, Children
<1>4. TypeOK'
  BY <1>1, <1>2, <1>3 DEF TypeOK, pipes, Running, Starting
<1>5. RingsSound' /\ Stream'
  BY <1>1, BytesStay
<1>6. ReadyStaysReady'
  <2>1. \A c \in readfds' : /\ connectors[c].count < connectors[c].size_buffer
                            /\ fd_in[c] /\ Readable(c) /\ c \in Children
    BY <1>3
  <2>2. \A c \in Children : connectors[c].size_buffer = SizeBuffer[c]
    BY <1>1, OneChild
  <2>3. \A c \in Children : Readable(c)' = Readable(c)
    BY DEF Readable, Ended, pipes
  <2>4. \A c \in writefds' : connectors[c].count # 0
    OBVIOUS
  <2>5. ASSUME NEW c \in readfds'
        PROVE  connectors'[c].count < SizeBuffer[c] /\ fd_in'[c] /\ Readable(c)'
    BY <2>1, <2>2, <2>3
  <2>6. ASSUME NEW c \in writefds' PROVE connectors'[c].count # 0
    BY <2>4
  <2>7. index_of_finished' <= i'
    BY <1>2
  <2> QED BY <2>5, <2>6, <2>7 DEF ReadyStaysReady
<1>7. EndsTravel'
  BY <1>1 DEF EndsTravel, InputClosed, Ended, pipes
<1>8. WhileAllLive'
  BY <1>1 DEF WhileAllLive, NobodyDied
<1>9. NothingRead'
  BY DEF NothingRead, Starting
<1> QED BY <1>4, <1>5, <1>6, <1>7, <1>8, <1>9 DEF IInv

\* A connection that is done while no child has died is the next in turn, and
\* all of the file has gone through it.
LEMMA DoneInTurn ==
  ASSUME IInv, NobodyDied, NEW c \in Children, index_of_finished <= c,
         ~ fd_in[c], connectors[c].count = 0
  PROVE  c = index_of_finished /\ passed[c] = Length
<1>1. TypeOK /\ RingsSound /\ Stream /\ EndsTravel /\ WhileAllLive
      /\ NothingRead
  BY DEF IInv
<1>2. child[c] = "finished" /\ output[c] = <<>>
  BY <1>1 DEF EndsTravel, Ended, NobodyDied, TypeOK
<1>3. input[c] = <<>> /\ InputClosed(c)
  BY <1>1, <1>2 DEF EndsTravel
<1>4. index_of_finished \in Nat
  BY <1>1, Constants DEF TypeOK
<1>5. c = index_of_finished
  <2>1. c \in Nat
    BY Constants
  <2>2. c = 0 \/ c - 1 < index_of_finished
    BY <1>3 DEF InputClosed
  <2> QED BY <1>4, <2>1, <2>2
<1>6. InNext(c) = passed[c]
  <2>1. passed[c] \in Nat
    BY <1>1, OneChild
  <2>2. InOutput(c) = passed[c]
    BY <2>1 DEF InOutput
  <2>3. InInput(c) = passed[c]
    BY <1>2, <2>1, <2>2 DEF InInput
  <2> QED BY <1>3, <2>1, <2>3 DEF InNext
<1>7. passed[c] = IF c = 0 THEN Length ELSE passed[c - 1]
  BY <1>1, <1>6 DEF Stream
<1>8. CASE c # 0
  <2>1. c - 1 \in Children /\ c - 1 < index_of_finished
    BY <1>5, <1>8, Constants
  <2>2. passed[c - 1] = Length
    BY <1>1, <2>1 DEF WhileAllLive
  <2> QED BY <1>5, <1>7, <1>8, <2>2
<1> QED BY <1>5, <1>7, <1>8

LEMMA CheckFinishedStep ==
  ASSUME IInv, CheckFinished PROVE IInv'
<1> DEFINE done == ~ fd_in[i] /\ connectors[i].count = 0
<1>1. /\ pc = "check"
      /\ index_of_finished' = IF done /\ i = index_of_finished
                              THEN index_of_finished + 1 ELSE index_of_finished
      /\ pc' = IF done /\ i # index_of_finished THEN "failed"
               ELSE IF i < Final THEN "read"
               ELSE IF index_of_finished' = num_children THEN "succeeded"
               ELSE "select"
      /\ i' = IF i < Final THEN i + 1 ELSE i
      /\ UNCHANGED <<child, closed, pipes, connectors, fd_in, fds, stdout, passed>>
  BY DEF CheckFinished
<1> HIDE DEF done
<1>2. TypeOK /\ RingsSound /\ ReadyStaysReady /\ Stream /\ EndsTravel /\ WhileAllLive
      /\ NothingRead
  BY DEF IInv
<1>3. /\ i \in Children /\ i \in Nat /\ index_of_finished \in Nat
      /\ index_of_finished <= i /\ i <= Final /\ num_children \in Nat
      /\ Final \in Nat /\ Final + 1 = num_children
  BY <1>1, <1>2, Constants DEF TypeOK, ReadyStaysReady
<1>4. /\ index_of_finished' \in Nat /\ index_of_finished' <= i + 1
      /\ index_of_finished' <= num_children
  BY <1>1, <1>3
<1>5. i' \in Children
  BY <1>1, <1>3, Constants
<1>6. TypeOK'
  <2>1. pc' \in {"failed", "read", "succeeded", "select"}
    BY <1>1
  <2>2. index_of_finished' \in 0..num_children
    BY <1>3, <1>4
  <2> QED BY <1>1, <1>2, <1>5, <2>1, <2>2 DEF TypeOK, pipes, fds, Running, Starting
<1>7. RingsSound' /\ Stream'
  BY <1>1, <1>2, BytesStay
<1>8. ReadyStaysReady'
  <2>1. \A c \in Children : Readable(c)' = Readable(c)
    BY <1>1 DEF Readable, Ended, pipes
  <2>2. ASSUME NEW c \in Children, ToRead(c)' \/ ToWrite(c)'
        PROVE  ToRead(c) /\ ToWrite(c)
    <3>1. pc' = "read" /\ i' <= c
      BY <1>1, <2>2 DEF ToRead, ToWrite
    <3>2. i < Final
      BY <1>1, <3>1
    <3>3. i < c
      BY <1>1, <1>3, <3>1, <3>2, Constants
    <3> QED BY <1>1, <3>3 DEF ToRead, ToWrite
  <2>3. readfds \subseteq Children /\ writefds \subseteq Children
    BY <1>2 DEF TypeOK
  <2>4. pc' \in {"read", "write", "check"} => index_of_finished' <= i'
    BY <1>1, <1>3, <1>4
  <2>5. ASSUME NEW c \in readfds', ToRead(c)'
        PROVE  connectors'[c].count < SizeBuffer[c] /\ fd_in'[c] /\ Readable(c)'
    BY <1>1, <1>2, <2>1, <2>2, <2>3, <2>5 DEF ReadyStaysReady, fds
  <2>6. ASSUME NEW c \in writefds', ToWrite(c)' PROVE connectors'[c].count # 0
    BY <1>1, <1>2, <2>2, <2>3, <2>6 DEF ReadyStaysReady, fds
  <2> QED BY <2>4, <2>5, <2>6 DEF ReadyStaysReady
<1>9. EndsTravel'
  <2>1. ASSUME NEW c \in Children, InputClosed(c) PROVE InputClosed(c)'
    <3>1. c - 1 \in Int
      BY Constants
    <3> QED BY <1>1, <1>3, <2>1, <3>1 DEF InputClosed, Ended
  <2>2. ASSUME NEW c \in Children, c < index_of_finished'
        PROVE  ~ fd_in[c] /\ connectors[c].count = 0
    <3>1. CASE c < index_of_finished
      BY <1>2, <3>1 DEF EndsTravel
    <3>2. CASE ~ (c < index_of_finished)
      <4>1. c = i /\ done
        BY <1>1, <1>3, <2>2, <3>2, Constants
      <4> QED BY <4>1 DEF done
    <3> QED BY <3>1, <3>2
  <2>3. pc' = "succeeded" => index_of_finished' = num_children
    BY <1>1
  <2>4. pc' = "select" => index_of_finished' < num_children
    BY <1>1, <1>3, <1>4
  <2>5. \A c \in Children :
          /\ child'[c] = "finished" => input'[c] = <<>> /\ InputClosed(c)'
          /\ ~ fd_in'[c] => output'[c] = <<>> /\ Ended(c)'
          /\ c < index_of_finished' => ~ fd_in'[c] /\ connectors'[c].count = 0
    BY <1>1, <1>2, <2>1, <2>2 DEF EndsTravel, Ended, pipes
  <2> QED BY <2>3, <2>4, <2>5 DEF EndsTravel
<1>10. WhileAllLive'
  <2> SUFFICES ASSUME NobodyDied
               PROVE  /\ pc' \notin {"failed", "killed"}
                      /\ \A c \in Children : c < index_of_finished' => passed[c] = Length
    BY <1>1 DEF WhileAllLive, NobodyDied
  <2>1. done => i = index_of_finished /\ passed[i] = Length
    BY <1>3, DoneInTurn DEF done
  <2>2. pc' \notin {"failed", "killed"}
    BY <1>1, <2>1
  <2>3. ASSUME NEW c \in Children, c < index_of_finished'
        PROVE  passed[c] = Length
    <3>1. CASE c < index_of_finished
      BY <1>2, <3>1 DEF WhileAllLive
    <3>2. CASE ~ (c < index_of_finished)
      <4>1. c = i /\ done
        BY <1>1, <1>3, <2>3, <3>2, Constants
      <4> QED BY <2>1, <4>1
    <3> QED BY <3>1, <3>2
  <2> QED BY <2>2, <2>3
<1>11. NothingRead'
  BY <1>1 DEF NothingRead, Starting
<1> QED BY <1>6, <1>7, <1>8, <1>9, <1>10, <1>11 DEF IInv

LEMMA SpliceStep ==
  ASSUME IInv, NEW c \in Children, Splice(c) PROVE IInv'
<1>1. PICK n \in 1..Smaller(Block, Smaller(Len(input[c]), PipeSize - Len(output[c]))) :
        /\ input'  = [input EXCEPT ![c] = SubSeq(@, n + 1, Len(@))]
        /\ output' = [output EXCEPT ![c] = @ \o SubSeq(input[c], 1, n)]
  BY DEF Splice
<1>2. /\ child[c] = "running"
      /\ UNCHANGED <<child, closed, connectors, fd_in, index_of_finished, pc, i, fds, stdout,
                     passed>>
  BY DEF Splice
<1>3. TypeOK /\ RingsSound /\ ReadyStaysReady /\ Stream /\ EndsTravel /\ WhileAllLive
      /\ NothingRead
  BY DEF IInv
<1> DEFINE front == SubSeq(input[c], 1, n)
           rest  == SubSeq(input[c], n + 1, Len(input[c]))
<1>4. /\ input[c] \in Seq(Byte) /\ output[c] \in Seq(Byte)
      /\ Len(input[c]) \in Nat /\ Len(output[c]) \in Nat
      /\ InOutput(c) \in Nat /\ InInput(c) \in Nat
  BY <1>3, OneChild
<1>5. n \in Nat /\ n <= Len(input[c]) /\ 1 <= n
  <2>1. Block \in Nat /\ PipeSize \in Nat
    BY SizeAssumption
  <2> QED BY <1>4, <2>1 DEF Smaller
<1>6. n \in 0..Len(input[c])
  BY <1>4, <1>5
<1>7. /\ front \in Seq(Byte) /\ Len(front) = n
      /\ rest \in Seq(Byte) /\ Len(rest) = Len(input[c]) - n
  BY <1>4, <1>6, Cut
<1> HIDE DEF front, rest
<1>8. /\ input' = [input EXCEPT ![c] = rest]
      /\ output' = [output EXCEPT ![c] = output[c] \o front]
  BY <1>1 DEF front, rest
<1>9. /\ input \in [Children -> Seq(Byte)] /\ output \in [Children -> Seq(Byte)]
      /\ input' \in [Children -> Seq(Byte)] /\ output' \in [Children -> Seq(Byte)]
  <2>1. input \in [Children -> Seq(Byte)] /\ output \in [Children -> Seq(Byte)]
    BY <1>3 DEF TypeOK
  <2>2. output[c] \o front \in Seq(Byte)
    BY <1>4, <1>7
  <2> QED BY <1>7, <1>8, <2>1, <2>2
<1>10. /\ input'[c] = rest /\ output'[c] = output[c] \o front
       /\ \A d \in Children : d # c => input'[d] = input[d] /\ output'[d] = output[d]
  BY <1>8, <1>9
<1>11. Len(output[c] \o front) = Len(output[c]) + n
  <2>1. Len(output[c] \o front) = Len(output[c]) + Len(front)
    BY <1>4, <1>7, Joined
  <2> QED BY <1>7, <2>1
<1>12. TypeOK'
  BY <1>2, <1>3, <1>9 DEF TypeOK, fds
<1>13. RingsSound'
  BY <1>2, <1>3 DEF RingsSound
<1>14. ReadyStaysReady'
  <2>1. ASSUME NEW d \in Children, Readable(d) PROVE Readable(d)'
    <3>1. output[c] \o front # <<>>
      BY <1>4, <1>5, <1>11
    <3> QED BY <1>2, <1>10, <2>1, <3>1 DEF Readable, Ended
  <2>2. readfds \subseteq Children /\ writefds \subseteq Children
    BY <1>3 DEF TypeOK
  <2> QED BY <1>2, <1>3, <2>1, <2>2 DEF ReadyStaysReady, ToRead, ToWrite, fds
<1>15. Stream'
  <2>1. \A d \in Children : InOutput(d)' = InOutput(d)
    BY <1>2 DEF InOutput
  <2>2. InInput(c)' = InInput(c) + n /\ InNext(c)' = InNext(c)
    <3>1. InInput(c)' = InOutput(c) + (Len(output[c]) + n)
      BY <1>10, <1>11, <2>1 DEF InInput
    <3>2. InInput(c)' = InInput(c) + n
      BY <1>4, <1>5, <3>1 DEF InInput
    <3>3. InNext(c)' = (InInput(c) + n) + (Len(input[c]) - n)
      BY <1>7, <1>10, <3>2 DEF InNext
    <3>4. InNext(c)' = InInput(c) + Len(input[c])
      BY <1>4, <1>5, <3>3
    <3> QED BY <3>2, <3>4 DEF InNext
  <2>3. \A d \in Children : d # c => InInput(d)' = InInput(d) /\ InNext(d)' = InNext(d)
    BY <1>10, <2>1 DEF InInput, InNext
  <2>4. Consecutive(input[c], InInput(c)) /\ Consecutive(output[c], InOutput(c))
    BY <1>3 DEF Stream
  <2>5. Consecutive(front, InInput(c)) /\ Consecutive(rest, InInput(c) + n)
    BY <1>4, <1>6, <2>4, ConsecutiveCut DEF front, rest
  <2>6. Consecutive(output[c] \o front, InOutput(c))
    BY <1>4, <1>7, <2>4, <2>5, ConsecutiveJoin DEF InInput
  <2>7. ASSUME NEW d \in Children
        PROVE  /\ Consecutive(Content(connectors'[d]), passed'[d])
               /\ Consecutive(output'[d], InOutput(d)')
               /\ Consecutive(input'[d], InInput(d)')
               /\ InNext(d)' = IF d = 0 THEN Length ELSE passed'[d - 1]
               /\ passed'[d] <= Length
    <3>1. /\ Consecutive(Content(connectors[d]), passed[d])
          /\ Consecutive(output[d], InOutput(d))
          /\ Consecutive(input[d], InInput(d))
          /\ InNext(d) = IF d = 0 THEN Length ELSE passed[d - 1]
          /\ passed[d] <= Length
      BY <1>3 DEF Stream
    <3>2. CASE d = c
      BY <1>2, <1>10, <2>1, <2>2, <2>5, <2>6, <3>1, <3>2
    <3>3. CASE d # c
      BY <1>2, <1>10, <2>1, <2>3, <3>1, <3>3
    <3> QED BY <3>2, <3>3
  <2> QED BY <1>2, <1>3, <2>7 DEF Stream
<1>16. EndsTravel'
  BY <1>2, <1>3, <1>10 DEF EndsTravel, InputClosed, Ended
<1>17. WhileAllLive'
  BY <1>2, <1>3 DEF WhileAllLive, NobodyDied
<1>18. NothingRead'
  BY <1>2, <1>3 DEF NothingRead, Fresh
<1> QED BY <1>12, <1>13, <1>14, <1>15, <1>16, <1>17, <1>18 DEF IInv

----------------------------------------------------------------------------
(* readToBuffer                                                            *)

\* What readToBuffer relies on: select() was right about the connection.
LEMMA ReadIsReady ==
  ASSUME IInv, pc = "read", i \in readfds
  PROVE  /\ i \in Children /\ connectors[i].count < SizeBuffer[i]
         /\ fd_in[i] /\ Readable(i)
<1>1. TypeOK /\ ReadyStaysReady
  BY DEF IInv
<1>2. i \in Children /\ i <= i
  BY <1>1, Constants DEF TypeOK
<1>3. ToRead(i)
  BY <1>2 DEF ToRead
<1> QED BY <1>1, <1>2, <1>3 DEF ReadyStaysReady

\* What has to be shown of a step of readToBuffer in any case.
LEMMA AfterReading ==
  ASSUME IInv, pc = "read", pc' = "write",
         UNCHANGED <<child, closed, input, index_of_finished, i, fds, stdout, passed>>,
         \A c \in Children : c # i =>
           /\ connectors'[c] = connectors[c] /\ output'[c] = output[c]
           /\ fd_in'[c] = fd_in[c],
         connectors[i].count # 0 => connectors'[i].count # 0
  PROVE  ReadyStaysReady' /\ WhileAllLive'
<1>1. TypeOK /\ ReadyStaysReady /\ WhileAllLive
  BY DEF IInv
<1>2. i \in Children /\ readfds \subseteq Children /\ writefds \subseteq Children
  BY <1>1 DEF TypeOK
<1>3. ASSUME NEW c \in readfds', ToRead(c)'
      PROVE  connectors'[c].count < SizeBuffer[c] /\ fd_in'[c] /\ Readable(c)'
  <2>1. c \in Children /\ c \in readfds /\ i < c
    BY <1>2, <1>3 DEF ToRead, fds
  <2>2. c # i /\ i <= c
    <3>1. c \in Int
      BY <2>1, Constants
    <3>2. i \in Int
      BY <1>2, Constants
    <3> QED BY <2>1, <3>1, <3>2
  <2>3. connectors[c].count < SizeBuffer[c] /\ fd_in[c] /\ Readable(c)
    BY <1>1, <2>1, <2>2 DEF ReadyStaysReady, ToRead
  <2> QED BY <2>1, <2>2, <2>3 DEF Readable, Ended
<1>4. ASSUME NEW c \in writefds', ToWrite(c)'
      PROVE  connectors'[c].count # 0
  <2>1. c \in Children /\ c \in writefds /\ i <= c
    BY <1>2, <1>4 DEF ToWrite, fds
  <2>2. connectors[c].count # 0
    BY <1>1, <2>1 DEF ReadyStaysReady, ToWrite
  <2> QED BY <2>1, <2>2
<1>5. index_of_finished' <= i'
  BY <1>1 DEF ReadyStaysReady
<1>6. ReadyStaysReady'
  BY <1>3, <1>4, <1>5 DEF ReadyStaysReady
<1>7. WhileAllLive'
  BY <1>1 DEF WhileAllLive, NobodyDied
<1> QED BY <1>6, <1>7

\* The connection was not ready.
LEMMA NoRead ==
  ASSUME IInv, pc = "read", pc' = "write",
         UNCHANGED <<child, closed, pipes, connectors, fd_in, index_of_finished, i, fds,
                     stdout, passed>>
  PROVE  IInv'
<1>1. TypeOK /\ RingsSound /\ Stream /\ EndsTravel
  BY DEF IInv
<1>2. TypeOK'
  BY <1>1 DEF TypeOK, pipes, fds, Running, Starting
<1>3. RingsSound' /\ Stream'
  BY <1>1, BytesStay
<1>4. EndsTravel'
  BY <1>1 DEF EndsTravel, InputClosed, Ended, pipes
<1>5. ReadyStaysReady' /\ WhileAllLive'
  BY AfterReading DEF pipes
<1>6. NothingRead'
  BY DEF NothingRead, Starting
<1> QED BY <1>2, <1>3, <1>4, <1>5, <1>6 DEF IInv

\* read() returns 0: the connection sees the end of its input.
LEMMA ReadEnd ==
  ASSUME IInv, pc = "read", pc' = "write", i \in Children,
         output[i] = <<>>, Ended(i),
         fd_in' = [fd_in EXCEPT ![i] = FALSE],
         UNCHANGED <<child, closed, pipes, connectors, index_of_finished, i, fds, stdout,
                     passed>>
  PROVE  IInv'
<1>1. TypeOK /\ RingsSound /\ Stream /\ EndsTravel
  BY DEF IInv
<1>2. fd_in \in [Children -> BOOLEAN]
  BY <1>1 DEF TypeOK
<1>3. fd_in' \in [Children -> BOOLEAN]
  BY <1>2
<1>4. \A c \in Children : fd_in'[c] = IF c = i THEN FALSE ELSE fd_in[c]
  BY <1>2
<1>5. TypeOK'
  BY <1>1, <1>3 DEF TypeOK, pipes, fds, Running, Starting
<1>6. RingsSound' /\ Stream'
  BY <1>1, BytesStay
<1>7. EndsTravel'
  BY <1>1, <1>4 DEF EndsTravel, InputClosed, Ended, pipes
<1>8. ReadyStaysReady' /\ WhileAllLive'
  BY <1>4, AfterReading DEF pipes
<1>9. NothingRead'
  BY DEF NothingRead, Starting
<1> QED BY <1>5, <1>6, <1>7, <1>8, <1>9 DEF IInv

\* What read() delivers joins on to what is in the buffer.
LEMMA GivenToRing ==
  ASSUME NEW size \in Nat \ {0}, NEW ring \in Connection(size), Sound(ring),
         ring.count < size, NEW bytes \in Seq(Byte),
         Len(bytes) \in 1..ReadSpan(ring), NEW from \in Nat,
         Consecutive(Content(ring), from), Consecutive(bytes, from + ring.count)
  PROVE  /\ AfterRead(ring, bytes) \in Connection(size)
         /\ Sound(AfterRead(ring, bytes))
         /\ AfterRead(ring, bytes).count = ring.count + Len(bytes)
         /\ Consecutive(Content(AfterRead(ring, bytes)), from)
<1> DEFINE next == AfterRead(ring, bytes)
<1>0. next = AfterRead(ring, bytes)
  OBVIOUS
<1> HIDE DEF next
<1>1. /\ next \in Connection(size) /\ Sound(next)
      /\ next.count = ring.count + Len(bytes)
      /\ \A k \in 1..ring.count : Content(next)[k] = Content(ring)[k]
      /\ \A k \in 1..Len(bytes) : Content(next)[ring.count + k] = bytes[k]
  BY <1>0, AfterReadIs
<1>2. /\ Len(Content(next)) = ring.count + Len(bytes)
      /\ Len(Content(ring)) = ring.count
  BY <1>1, ContentIs
<1>3. ring.count \in Nat /\ Len(bytes) \in Nat
  BY Fields
<1>4. ASSUME NEW k \in 1..(ring.count + Len(bytes))
      PROVE  Content(next)[k] = from + k
  <2>1. CASE k <= ring.count
    <3>1. k \in 1..ring.count
      BY <1>3, <2>1
    <3>2. Content(ring)[k] = from + k
      BY <1>2, <3>1 DEF Consecutive
    <3> QED BY <1>1, <3>1, <3>2
  <2>2. CASE k > ring.count
    <3>1. /\ k - ring.count \in 1..Len(bytes)
          /\ ring.count + (k - ring.count) = k
      BY <1>3, <2>2
    <3>2. Content(next)[k] = bytes[k - ring.count]
      BY <1>1, <3>1
    <3>3. bytes[k - ring.count] = (from + ring.count) + (k - ring.count)
      BY <3>1 DEF Consecutive
    <3>4. (from + ring.count) + (k - ring.count) = from + k
      BY <1>3
    <3> QED BY <3>2, <3>3, <3>4
  <2> QED BY <1>3, <2>1, <2>2
<1>5. Consecutive(Content(next), from)
  BY <1>2, <1>4 DEF Consecutive
<1> QED BY <1>0, <1>1, <1>5

\* read() delivers n bytes.
LEMMA ReadBytes ==
  ASSUME IInv, pc = "read", pc' = "write", i \in Children,
         connectors[i].count < SizeBuffer[i], fd_in[i],
         NEW n \in 1..Smaller(ReadSpan(connectors[i]), Len(output[i])),
         connectors' = [connectors EXCEPT ![i] =
                          AfterRead(@, SubSeq(output[i], 1, n))],
         output' = [output EXCEPT ![i] = SubSeq(@, n + 1, Len(@))],
         UNCHANGED <<child, closed, input, fd_in, index_of_finished, i, fds, stdout, passed>>
  PROVE  IInv'
<1>1. TypeOK /\ RingsSound /\ Stream /\ EndsTravel
  BY DEF IInv
<1> DEFINE front == SubSeq(output[i], 1, n)
           rest  == SubSeq(output[i], n + 1, Len(output[i]))
           ring  == connectors[i]
           next  == AfterRead(ring, front)
<1>2. /\ output[i] \in Seq(Byte) /\ Len(output[i]) \in Nat
      /\ ring \in Connection(SizeBuffer[i]) /\ Sound(ring)
      /\ ring.count \in Nat /\ SizeBuffer[i] \in Nat \ {0}
      /\ Content(ring) \in Seq(Byte) /\ Len(Content(ring)) = ring.count
      /\ passed[i] \in Nat /\ InOutput(i) \in Nat /\ InInput(i) \in Nat
  BY <1>1, OneChild
<1>3. ReadSpan(ring) \in 1..(SizeBuffer[i] - ring.count) /\ ReadSpan(ring) \in Nat
  BY <1>2, Spans
<1>4. n \in Nat /\ 1 <= n /\ n <= ReadSpan(ring) /\ n <= Len(output[i])
  <2>1. n \in 1..Smaller(ReadSpan(ring), Len(output[i]))
    OBVIOUS
  <2> HIDE DEF ring
  <2> QED BY <1>2, <1>3, <2>1 DEF Smaller
<1>5. n \in 0..Len(output[i])
  BY <1>2, <1>4
<1>6. /\ front \in Seq(Byte) /\ Len(front) = n
      /\ rest \in Seq(Byte) /\ Len(rest) = Len(output[i]) - n
      /\ \A k \in 1..n : front[k] = output[i][k]
  BY ZenonT(40), <1>2, <1>5, Cut
<1> HIDE DEF front, rest
<1>7. Len(front) \in 1..ReadSpan(ring)
  BY <1>3, <1>4, <1>6
<1>8. /\ next \in Connection(SizeBuffer[i]) /\ Sound(next)
      /\ next.count = ring.count + Len(front)
      /\ Consecutive(Content(next), passed[i])
      /\ Consecutive(front, InOutput(i)) /\ Consecutive(rest, InOutput(i) + n)
  <2>1. /\ Consecutive(Content(ring), passed[i])
        /\ Consecutive(output[i], InOutput(i))
    BY <1>1 DEF Stream
  <2>2. Consecutive(front, InOutput(i)) /\ Consecutive(rest, InOutput(i) + n)
    BY <1>2, <1>5, <2>1, ConsecutiveCut DEF front, rest
  <2>3. ring.count < SizeBuffer[i] /\ InOutput(i) = passed[i] + ring.count
    BY DEF InOutput
  <2> HIDE DEF ring
  <2> QED BY <1>2, <1>6, <1>7, <2>1, <2>2, <2>3, GivenToRing
<1>9. /\ connectors' = [connectors EXCEPT ![i] = next]
      /\ output' = [output EXCEPT ![i] = rest]
  BY DEF front, rest
<1> HIDE DEF next
<1>10. output \in [Children -> Seq(Byte)] /\ output' \in [Children -> Seq(Byte)]
  BY <1>1, <1>6, <1>9 DEF TypeOK
<1>11. /\ output'[i] = rest
       /\ \A c \in Children : c # i => output'[c] = output[c]
  BY <1>9, <1>10
<1>12. /\ connectors'[i] = next
       /\ \A c \in Children : c # i => connectors'[c] = connectors[c]
  <2>1. i \in DOMAIN connectors /\ Children \subseteq DOMAIN connectors
    BY <1>1 DEF TypeOK
  <2> QED BY <1>9, <2>1
<1>13. TypeOK'
  BY <1>1, <1>8, <1>10, <1>12 DEF TypeOK, fds, Running, Starting
<1>14. RingsSound'
  BY <1>1, <1>8, <1>12 DEF RingsSound
<1>15. EndsTravel'
  <2>1. i \in Children => fd_in[i]
    OBVIOUS
  <2>2. ASSUME NEW c \in Children
        PROVE  /\ child'[c] = "finished" => input'[c] = <<>> /\ InputClosed(c)'
               /\ ~ fd_in'[c] => output'[c] = <<>> /\ Ended(c)'
               /\ c < index_of_finished' => ~ fd_in'[c] /\ connectors'[c].count = 0
    <3>1. CASE c = i
      BY <1>1, <2>1, <3>1 DEF EndsTravel, InputClosed, Ended
    <3>2. CASE c # i
      BY <1>1, <1>11, <1>12, <3>2 DEF EndsTravel, InputClosed, Ended
    <3> QED BY <3>1, <3>2
  <2> QED BY <2>2 DEF EndsTravel
<1>16. ReadyStaysReady' /\ WhileAllLive'
  <2>1. connectors'[i].count # 0
    BY <1>2, <1>4, <1>6, <1>8, <1>12
  <2> QED BY <1>11, <1>12, <2>1, AfterReading
<1>17. Stream'
  <2>1. /\ InOutput(i)' = InOutput(i) + n /\ InInput(i)' = InInput(i)
        /\ InNext(i)' = InNext(i)
    <3>1. InOutput(i)' = passed[i] + (ring.count + n)
      BY <1>6, <1>8, <1>12 DEF InOutput
    <3>2. InOutput(i)' = InOutput(i) + n
      BY <1>2, <1>4, <3>1 DEF InOutput
    <3>3. InInput(i)' = (InOutput(i) + n) + (Len(output[i]) - n)
      BY <1>6, <1>11, <3>2 DEF InInput
    <3>4. InInput(i)' = InOutput(i) + Len(output[i])
      BY <1>2, <1>4, <3>3
    <3> QED BY <3>2, <3>4 DEF InInput, InNext
  <2>2. ASSUME NEW c \in Children, c # i
        PROVE  InOutput(c)' = InOutput(c) /\ InInput(c)' = InInput(c) /\ InNext(c)' = InNext(c)
    <3>1. InOutput(c)' = InOutput(c)
      BY <1>12, <2>2 DEF InOutput
    <3>2. InInput(c)' = InInput(c)
      BY <1>11, <2>2, <3>1 DEF InInput
    <3> QED BY <3>1, <3>2 DEF InNext
  <2>3. ASSUME NEW c \in Children
        PROVE  /\ Consecutive(Content(connectors'[c]), passed'[c])
               /\ Consecutive(output'[c], InOutput(c)')
               /\ Consecutive(input'[c], InInput(c)')
               /\ InNext(c)' = IF c = 0 THEN Length ELSE passed'[c - 1]
               /\ passed'[c] <= Length
    <3>1. /\ Consecutive(Content(connectors[c]), passed[c])
          /\ Consecutive(output[c], InOutput(c))
          /\ Consecutive(input[c], InInput(c))
          /\ InNext(c) = IF c = 0 THEN Length ELSE passed[c - 1]
          /\ passed[c] <= Length
      BY <1>1 DEF Stream
    <3>2. CASE c = i
      BY <1>8, <1>11, <1>12, <2>1, <3>1, <3>2
    <3>3. CASE c # i
      BY <1>11, <1>12, <2>2, <3>1, <3>3
    <3> QED BY <3>2, <3>3
  <2> QED BY <1>1, <2>3 DEF Stream
<1>18. NothingRead'
  BY DEF NothingRead, Starting
<1> QED BY <1>13, <1>14, <1>15, <1>16, <1>17, <1>18 DEF IInv

LEMMA ReadToBufferStep ==
  ASSUME IInv, ReadToBuffer PROVE IInv'
<1> DEFINE most == Smaller(ReadSpan(connectors[i]), Len(output[i]))
<1>1. /\ pc = "read"
      /\ UNCHANGED <<child, closed, input, index_of_finished, i, fds, stdout, passed>>
  BY DEF ReadToBuffer
<1>2. CASE i \notin readfds
  <2>1. pc' = "write" /\ UNCHANGED <<output, connectors, fd_in>>
    BY <1>2 DEF ReadToBuffer
  <2> QED BY <1>1, <2>1, NoRead DEF pipes
<1>3. CASE i \in readfds
  <2>1. /\ i \in Children /\ connectors[i].count < SizeBuffer[i]
        /\ fd_in[i] /\ Readable(i)
    BY <1>1, <1>3, ReadIsReady
  <2>2. CASE most > 0
    <3>1. PICK n \in 1..most :
            /\ connectors' = [connectors EXCEPT ![i] =
                                AfterRead(@, SubSeq(output[i], 1, n))]
            /\ output' = [output EXCEPT ![i] = SubSeq(@, n + 1, Len(@))]
            /\ pc' = "write" /\ UNCHANGED fd_in
      BY <1>3, <2>2 DEF ReadToBuffer
    <3> QED BY <1>1, <2>1, <3>1, ReadBytes
  <2>3. CASE ~ (most > 0)
    <3>1. TypeOK /\ RingsSound
      BY DEF IInv
    <3>2. /\ connectors[i] \in Connection(SizeBuffer[i]) /\ Sound(connectors[i])
          /\ SizeBuffer[i] \in Nat \ {0} /\ connectors[i].count \in Nat
          /\ output[i] \in Seq(Byte) /\ Len(output[i]) \in Nat
      BY <2>1, <3>1, OneChild
    <3>3. ReadSpan(connectors[i]) \in 1..(SizeBuffer[i] - connectors[i].count)
      BY <2>1, <3>2, Spans
    <3>4. ReadSpan(connectors[i]) > 0
      BY <3>2, <3>3
    <3>5. Len(output[i]) = 0
      BY <2>3, <3>2, <3>4 DEF Smaller
    <3>6. output[i] = <<>>
      BY <3>2, <3>5
    <3>7. Ended(i)
      BY <2>1, <3>6 DEF Readable, Ended
    <3>8. /\ pc' = "write" /\ fd_in' = [fd_in EXCEPT ![i] = FALSE]
          /\ UNCHANGED <<output, connectors>>
      BY <1>3, <2>3, <3>7 DEF ReadToBuffer
    <3> QED BY <1>1, <2>1, <3>6, <3>7, <3>8, ReadEnd DEF pipes
  <2> QED BY <2>2, <2>3
<1> QED BY <1>2, <1>3

----------------------------------------------------------------------------
(* writeFromBuffer                                                         *)

\* What has to be shown of a step of writeFromBuffer in any case.
LEMMA AfterWriting ==
  ASSUME IInv, pc = "write", pc' = "check",
         UNCHANGED <<child, closed, output, fd_in, index_of_finished, i, fds>>,
         \A c \in Children : c # i => connectors'[c] = connectors[c],
         \A c \in Children : index_of_finished > c => passed'[c] = passed[c]
  PROVE  ReadyStaysReady' /\ WhileAllLive'
<1>1. TypeOK /\ ReadyStaysReady /\ WhileAllLive
  BY DEF IInv
<1>2. i \in Children /\ readfds \subseteq Children /\ writefds \subseteq Children
  BY <1>1 DEF TypeOK
<1>3. ASSUME NEW c \in readfds', ToRead(c)'
      PROVE  connectors'[c].count < SizeBuffer[c] /\ fd_in'[c] /\ Readable(c)'
  <2>1. c \in Children /\ c \in readfds /\ i < c
    BY <1>2, <1>3 DEF ToRead, fds
  <2>2. c # i
    BY <1>2, <2>1, Constants
  <2>3. connectors[c].count < SizeBuffer[c] /\ fd_in[c] /\ Readable(c)
    BY <1>1, <2>1 DEF ReadyStaysReady, ToRead
  <2> QED BY <2>1, <2>2, <2>3 DEF Readable, Ended
<1>4. ASSUME NEW c \in writefds', ToWrite(c)'
      PROVE  connectors'[c].count # 0
  <2>1. c \in Children /\ c \in writefds /\ i < c
    BY <1>2, <1>4 DEF ToWrite, fds
  <2>2. c # i /\ i <= c
    BY <1>2, <2>1, Constants
  <2>3. connectors[c].count # 0
    BY <1>1, <2>1, <2>2 DEF ReadyStaysReady, ToWrite
  <2> QED BY <2>1, <2>2, <2>3
<1>5. index_of_finished' <= i'
  BY <1>1 DEF ReadyStaysReady
<1>6. ReadyStaysReady'
  BY <1>3, <1>4, <1>5 DEF ReadyStaysReady
<1>7. WhileAllLive'
  <2>1. ASSUME NobodyDied, NEW c \in Children, c < index_of_finished
        PROVE  passed'[c] = Length
    <3>1. index_of_finished > c
      BY <1>1, <2>1, Constants DEF TypeOK
    <3> QED BY <1>1, <2>1, <3>1 DEF WhileAllLive
  <2> QED BY <1>1, <2>1 DEF WhileAllLive, NobodyDied
<1> QED BY <1>6, <1>7

\* The connection was not ready.
LEMMA NoWrite ==
  ASSUME IInv, pc = "write", pc' = "check",
         UNCHANGED <<child, closed, pipes, connectors, fd_in, index_of_finished, i, fds,
                     stdout, passed>>
  PROVE  IInv'
<1>1. TypeOK /\ RingsSound /\ Stream /\ EndsTravel
  BY DEF IInv
<1>2. TypeOK'
  BY <1>1 DEF TypeOK, pipes, fds, Running, Starting
<1>3. RingsSound' /\ Stream'
  BY <1>1, BytesStay
<1>4. EndsTravel'
  BY <1>1 DEF EndsTravel, InputClosed, Ended, pipes
<1>5. ReadyStaysReady' /\ WhileAllLive'
  BY AfterWriting DEF pipes
<1>6. NothingRead'
  BY DEF NothingRead, Starting
<1> QED BY <1>2, <1>3, <1>4, <1>5, <1>6 DEF IInv

\* SIGPIPE: the next child is not running, so it has died, for it would not have
\* finished before this connection did.
LEMMA WriteKills ==
  ASSUME IInv, pc = "write", pc' = "killed", i # Final, Ended(i + 1),
         UNCHANGED <<child, closed, pipes, connectors, fd_in, index_of_finished, i, fds,
                     stdout, passed>>
  PROVE  IInv'
<1>1. TypeOK /\ RingsSound /\ Stream /\ EndsTravel /\ ReadyStaysReady
  BY DEF IInv
<1>2. TypeOK'
  BY <1>1 DEF TypeOK, pipes, fds, Running, Starting
<1>3. RingsSound' /\ Stream'
  BY <1>1, BytesStay
<1>4. EndsTravel'
  BY <1>1 DEF EndsTravel, InputClosed, Ended, pipes
<1>5. ReadyStaysReady'
  BY DEF ReadyStaysReady, ToRead, ToWrite
<1>6. WhileAllLive'
  <2>1. /\ i \in Children /\ i + 1 \in Children /\ i \in Nat
        /\ index_of_finished \in Nat /\ index_of_finished <= i
    BY <1>1, Constants DEF TypeOK, ReadyStaysReady
  <2>2. ~ InputClosed(i + 1)
    BY <2>1 DEF InputClosed
  <2>3. child[i + 1] = "dead"
    BY <1>1, <2>1, <2>2 DEF EndsTravel, Ended, TypeOK
  <2> QED BY <2>1, <2>3 DEF WhileAllLive, NobodyDied
<1>7. NothingRead'
  BY DEF NothingRead, Starting
<1> QED BY <1>2, <1>3, <1>4, <1>5, <1>6, <1>7 DEF IInv

\* What write() takes is the front of the buffer, and the rest follows it.
LEMMA TakenFromRing ==
  ASSUME NEW size \in Nat \ {0}, NEW ring \in Connection(size), Sound(ring),
         ring.count > 0, NEW n \in 0..WriteSpan(ring), NEW from \in Nat,
         Consecutive(Content(ring), from)
  PROVE  /\ AfterWrite(ring, n) \in Connection(size)
         /\ Sound(AfterWrite(ring, n))
         /\ n \in Nat /\ n <= ring.count
         /\ AfterWrite(ring, n).count = ring.count - n
         /\ Consecutive(Content(AfterWrite(ring, n)), from + n)
         /\ SubSeq(Offered(ring), 1, n) \in Seq(Byte)
         /\ Len(SubSeq(Offered(ring), 1, n)) = n
         /\ Consecutive(SubSeq(Offered(ring), 1, n), from)
<1> DEFINE next == AfterWrite(ring, n)
<1>0. next = AfterWrite(ring, n)
  OBVIOUS
<1> HIDE DEF next
<1>1. /\ ring.count \in Nat /\ Len(Content(ring)) = ring.count
  BY Fields, ContentIs
<1>2. /\ next \in Connection(size) /\ Sound(next)
      /\ n \in Nat /\ n <= ring.count /\ next.count = ring.count - n
      /\ \A k \in 1..next.count : Content(next)[k] = Content(ring)[k + n]
  BY <1>0, AfterWriteIs
<1>3. Consecutive(Content(next), from + n)
  <2>1. Len(Content(next)) = ring.count - n
    BY <1>2, ContentIs
  <2>2. ASSUME NEW k \in 1..(ring.count - n)
        PROVE  Content(next)[k] = (from + n) + k
    <3>1. k + n \in 1..ring.count
      BY <1>1, <1>2
    <3>2. Content(ring)[k + n] = from + (k + n)
      BY <1>1, <3>1 DEF Consecutive
    <3>3. from + (k + n) = (from + n) + k
      BY <1>2
    <3> QED BY <1>2, <3>2, <3>3
  <2> QED BY <2>1, <2>2 DEF Consecutive
<1>4. /\ Offered(ring) \in Seq(Byte) /\ Len(Offered(ring)) = WriteSpan(ring)
      /\ \A k \in 1..WriteSpan(ring) : Offered(ring)[k] = Content(ring)[k]
  BY OfferedIs
<1>5. WriteSpan(ring) \in 1..ring.count
  BY <1>1, Spans
<1>6. Consecutive(Offered(ring), from)
  <2>1. ASSUME NEW k \in 1..WriteSpan(ring)
        PROVE  Offered(ring)[k] = from + k
    <3>1. k \in 1..ring.count
      BY <1>1, <1>5
    <3>2. Content(ring)[k] = from + k
      BY <1>1, <3>1 DEF Consecutive
    <3> QED BY <1>4, <3>2
  <2> QED BY <1>4, <2>1 DEF Consecutive
<1>7. n \in 0..Len(Offered(ring))
  BY <1>4
<1>8. /\ SubSeq(Offered(ring), 1, n) \in Seq(Byte)
      /\ Len(SubSeq(Offered(ring), 1, n)) = n
      /\ Consecutive(SubSeq(Offered(ring), 1, n), from)
  BY <1>4, <1>6, <1>7, Cut, ConsecutiveCut
<1> QED BY <1>0, <1>2, <1>3, <1>8

\* write() takes n bytes, n = 0 when it met EAGAIN.
LEMMA WriteBytes ==
  ASSUME IInv, pc = "write", pc' = "check", i \in Children,
         connectors[i].count # 0, index_of_finished <= i,
         i # Final => ~ Ended(i + 1),
         NEW n \in 0..WriteSpan(connectors[i]),
         connectors' = [connectors EXCEPT ![i] = AfterWrite(@, n)],
         passed' = [passed EXCEPT ![i] = @ + n],
         i = Final =>
           /\ stdout' = stdout \o SubSeq(Offered(connectors[i]), 1, n)
           /\ UNCHANGED input,
         i # Final =>
           /\ input' = [input EXCEPT ![i + 1] = @ \o SubSeq(Offered(connectors[i]), 1, n)]
           /\ UNCHANGED stdout,
         UNCHANGED <<child, closed, output, fd_in, index_of_finished, i, fds>>
  PROVE  IInv'
<1>1. TypeOK /\ RingsSound /\ Stream /\ EndsTravel
  BY DEF IInv
<1> DEFINE ring  == connectors[i]
           next  == AfterWrite(ring, n)
           front == SubSeq(Offered(ring), 1, n)
<1>2. /\ ring \in Connection(SizeBuffer[i]) /\ Sound(ring)
      /\ ring.count \in Nat /\ SizeBuffer[i] \in Nat \ {0}
      /\ Len(output[i]) \in Nat /\ Len(input[i]) \in Nat
      /\ passed[i] \in Nat /\ InOutput(i) \in Nat /\ InInput(i) \in Nat
  BY <1>1, OneChild
<1>3. Consecutive(Content(ring), passed[i])
  BY <1>1 DEF Stream
<1>4. /\ next \in Connection(SizeBuffer[i]) /\ Sound(next)
      /\ n \in Nat /\ n <= ring.count /\ next.count = ring.count - n
      /\ Consecutive(Content(next), passed[i] + n)
      /\ front \in Seq(Byte) /\ Len(front) = n /\ Consecutive(front, passed[i])
  <2>1. ring.count > 0 /\ n \in 0..WriteSpan(ring)
    BY <1>2
  <2> HIDE DEF ring
  <2> QED BY SMTT(30), <1>2, <1>3, <2>1, TakenFromRing
<1>5. /\ connectors' = [connectors EXCEPT ![i] = next]
      /\ i = Final => stdout' = stdout \o front /\ UNCHANGED input
      /\ i # Final => input' = [input EXCEPT ![i + 1] = @ \o front] /\ UNCHANGED stdout
  OBVIOUS
<1> HIDE DEF ring, next, front
<1>6. /\ connectors'[i] = next
      /\ \A c \in Children : c # i => connectors'[c] = connectors[c]
      /\ DOMAIN connectors' = Children
  <2>1. DOMAIN connectors = Children
    BY <1>1 DEF TypeOK
  <2> QED BY <1>5, <2>1
<1>7. /\ passed'[i] = passed[i] + n /\ passed' \in [Children -> Nat]
      /\ \A c \in Children : c # i => passed'[c] = passed[c]
  <2>1. passed \in [Children -> Nat]
    BY <1>1 DEF TypeOK
  <2>2. passed[i] + n \in Nat
    BY <1>2, <1>4
  <2> QED BY <2>1, <2>2
<1>8. i \in Nat /\ Final \in Children /\ (i # Final => i + 1 \in Children)
  BY Constants
<1>9. /\ input \in [Children -> Seq(Byte)] /\ stdout \in Seq(Byte)
      /\ input' \in [Children -> Seq(Byte)] /\ stdout' \in Seq(Byte)
  <2>1. input \in [Children -> Seq(Byte)] /\ stdout \in Seq(Byte)
    BY <1>1 DEF TypeOK
  <2>2. CASE i = Final
    <3>1. stdout \o front \in Seq(Byte)
      BY <1>4, <2>1, Joined
    <3> QED BY <1>5, <2>1, <2>2, <3>1
  <2>3. CASE i # Final
    <3>1. input[i + 1] \o front \in Seq(Byte)
      BY <1>4, <1>8, <2>1, <2>3, Joined
    <3> QED BY <1>5, <2>1, <2>3, <3>1
  <2> QED BY <2>1, <2>2, <2>3
<1>10. /\ i # Final => input'[i + 1] = input[i + 1] \o front
       /\ \A c \in Children : (i = Final \/ c # i + 1) => input'[c] = input[c]
  BY <1>5, <1>8, <1>9
<1>11. TypeOK'
  BY <1>1, <1>4, <1>6, <1>7, <1>9 DEF TypeOK, fds, Running, Starting
<1>12. RingsSound'
  BY <1>1, <1>4, <1>6 DEF RingsSound
<1>13. ReadyStaysReady' /\ WhileAllLive'
  <2>1. \A c \in Children : index_of_finished > c => passed'[c] = passed[c]
    <3>1. index_of_finished \in Nat
      BY <1>1, Constants DEF TypeOK
    <3>2. \A c \in Children : index_of_finished > c => c # i
      BY <1>8, <3>1, Constants
    <3> QED BY <1>7, <3>2
  <2> QED BY <1>6, <2>1, AfterWriting
<1>14. EndsTravel'
  <2>1. ASSUME NEW c \in Children
        PROVE  /\ child'[c] = "finished" => input'[c] = <<>> /\ InputClosed(c)'
               /\ ~ fd_in'[c] => output'[c] = <<>> /\ Ended(c)'
               /\ c < index_of_finished' => ~ fd_in'[c] /\ connectors'[c].count = 0
    <3>1. child'[c] = "finished" => input'[c] = <<>> /\ InputClosed(c)'
      BY <1>1, <1>10 DEF EndsTravel, InputClosed, Ended
    <3>2. ~ fd_in'[c] => output'[c] = <<>> /\ Ended(c)'
      BY <1>1 DEF EndsTravel, Ended
    <3>3. c < index_of_finished' => ~ fd_in'[c] /\ connectors'[c].count = 0
      <4>1. c < index_of_finished => c # i
        BY <1>1, <1>8, Constants DEF TypeOK
      <4> QED BY <1>1, <1>6, <4>1 DEF EndsTravel
    <3> QED BY <3>1, <3>2, <3>3
  <2> QED BY <2>1 DEF EndsTravel
<1>15. Stream'
  <2>1. \A c \in Children : InOutput(c)' = InOutput(c) /\ InInput(c)' = InInput(c)
    <3>1. ASSUME NEW c \in Children PROVE InOutput(c)' = InOutput(c)
      <4>1. CASE c = i
        <5>1. InOutput(i)' = (passed[i] + n) + (ring.count - n)
          BY <1>4, <1>6, <1>7 DEF InOutput
        <5>2. InOutput(i) = passed[i] + ring.count
          BY DEF InOutput, ring
        <5>3. (passed[i] + n) + (ring.count - n) = passed[i] + ring.count
          BY <1>2, <1>4
        <5> QED BY <4>1, <5>1, <5>2, <5>3
      <4>2. CASE c # i
        BY <1>6, <1>7, <4>2 DEF InOutput
      <4> QED BY <4>1, <4>2
    <3> QED BY <3>1 DEF InInput
  <2>2. ASSUME NEW c \in Children, i = Final \/ c # i + 1
        PROVE  InNext(c)' = InNext(c)
    BY <1>10, <2>1, <2>2 DEF InNext
  <2>3. ASSUME i # Final
        PROVE  /\ InNext(i + 1)' = passed'[i]
               /\ Consecutive(input'[i + 1], InInput(i + 1))
    <3>1. i + 1 \in Children /\ i + 1 # 0 /\ (i + 1) - 1 = i
      BY <1>8, <2>3
    <3>2. /\ input[i + 1] \in Seq(Byte) /\ Len(input[i + 1]) \in Nat
          /\ InInput(i + 1) \in Nat
      BY <1>1, <3>1, OneChild
    <3>3. /\ InNext(i + 1) = passed[i]
          /\ Consecutive(input[i + 1], InInput(i + 1))
      BY <1>1, <3>1 DEF Stream
    <3>4. InInput(i + 1) + Len(input[i + 1]) = passed[i]
      BY <3>3 DEF InNext
    <3>5. Consecutive(input[i + 1] \o front, InInput(i + 1))
      BY <1>4, <3>2, <3>3, <3>4, ConsecutiveJoin
    <3>6. Len(input[i + 1] \o front) = Len(input[i + 1]) + n
      BY ZenonT(40), <1>4, <3>2, Joined
    <3>7. InNext(i + 1)' = InInput(i + 1) + (Len(input[i + 1]) + n)
      BY <1>10, <2>1, <2>3, <3>1, <3>6 DEF InNext
    <3>8. InNext(i + 1)' = passed[i] + n
      BY <1>4, <3>2, <3>4, <3>7
    <3> QED BY <1>7, <1>10, <2>3, <3>5, <3>8
  <2>4. passed[i] + n <= Length
    <3>1. passed[i] + n <= InNext(i)
      <4>1. InOutput(i) = passed[i] + ring.count
        BY DEF InOutput, ring
      <4>2. InNext(i) = (InOutput(i) + Len(output[i])) + Len(input[i])
        BY DEF InNext, InInput
      <4>3. /\ passed[i] \in Nat /\ ring.count \in Nat /\ n \in Nat /\ n <= ring.count
            /\ Len(output[i]) \in Nat /\ Len(input[i]) \in Nat
        BY <1>2, <1>4
      <4> QED BY SMTT(30), <4>1, <4>2, <4>3
    <3>2. InNext(i) <= Length
      <4>1. InNext(i) = IF i = 0 THEN Length ELSE passed[i - 1]
        BY <1>1 DEF Stream
      <4>2. CASE i = 0
        BY <4>1, <4>2, Constants
      <4>3. CASE i # 0
        <5>1. i - 1 \in Children
          BY <4>3, Constants
        <5> QED BY <1>1, <4>1, <4>3, <5>1 DEF Stream
      <4> QED BY <4>2, <4>3
    <3>3. InNext(i) \in Nat /\ passed[i] + n \in Nat
      BY <1>1, <1>2, <1>4, OneChild
    <3> QED BY <3>1, <3>2, <3>3, Constants
  <2>5. ASSUME NEW c \in Children
        PROVE  /\ Consecutive(Content(connectors'[c]), passed'[c])
               /\ Consecutive(output'[c], InOutput(c)')
               /\ Consecutive(input'[c], InInput(c)')
               /\ InNext(c)' = IF c = 0 THEN Length ELSE passed'[c - 1]
               /\ passed'[c] <= Length
    <3>1. /\ Consecutive(Content(connectors[c]), passed[c])
          /\ Consecutive(output[c], InOutput(c))
          /\ Consecutive(input[c], InInput(c))
          /\ InNext(c) = IF c = 0 THEN Length ELSE passed[c - 1]
          /\ passed[c] <= Length
      BY <1>1 DEF Stream
    <3>2. Consecutive(Content(connectors'[c]), passed'[c])
      BY <1>4, <1>6, <1>7, <3>1
    <3>3. Consecutive(output'[c], InOutput(c)')
      BY <2>1, <3>1
    <3>4. passed'[c] <= Length
      BY <1>7, <2>4, <3>1
    <3>5. CASE i # Final /\ c = i + 1
      <4>1. c # 0 /\ c - 1 = i
        BY <1>8, <3>5
      <4> QED BY <2>1, <2>3, <3>2, <3>3, <3>4, <3>5, <4>1
    <3>6. CASE i = Final \/ c # i + 1
      <4>1. Consecutive(input'[c], InInput(c)')
        BY <1>10, <2>1, <3>1, <3>6
      <4>2. c # 0 => c - 1 \in Children /\ c - 1 # i
        BY <1>8, <3>6, Constants
      <4> QED BY <1>7, <2>2, <3>1, <3>2, <3>3, <3>4, <3>6, <4>1, <4>2
    <3> QED BY <3>5, <3>6
  <2>6. Consecutive(stdout', 0) /\ Len(stdout') = passed'[Final]
    <3>1. Consecutive(stdout, 0) /\ Len(stdout) = passed[Final]
      BY <1>1 DEF Stream
    <3>2. CASE i = Final
      <4>1. Consecutive(front, 0 + Len(stdout))
        BY <1>2, <1>4, <3>1, <3>2
      <4>2. Consecutive(stdout \o front, 0)
        BY <1>4, <1>9, <3>1, <4>1, ConsecutiveJoin
      <4>3. Len(stdout \o front) = Len(stdout) + n
        BY <1>4, <1>9, Joined
      <4> QED BY <1>5, <1>7, <3>1, <3>2, <4>2, <4>3
    <3>3. CASE i # Final
      BY <1>5, <1>7, <1>8, <3>1, <3>3
    <3> QED BY <3>2, <3>3
  <2> QED BY <2>5, <2>6 DEF Stream
<1>16. NothingRead'
  BY DEF NothingRead, Starting
<1> QED BY <1>11, <1>12, <1>13, <1>14, <1>15, <1>16 DEF IInv

LEMMA WriteFromBufferStep ==
  ASSUME IInv, WriteFromBuffer PROVE IInv'
<1>1. /\ pc = "write"
      /\ UNCHANGED <<child, closed, output, fd_in, index_of_finished, i, fds>>
  BY DEF WriteFromBuffer
<1>2. TypeOK /\ RingsSound /\ ReadyStaysReady
  BY DEF IInv
<1>3. /\ i \in Children /\ i \in Nat /\ i <= i /\ index_of_finished <= i
      /\ i # Final => i + 1 \in Children
  BY <1>1, <1>2, Constants DEF TypeOK, ReadyStaysReady
<1>4. CASE i \notin writefds
  <2>1. pc' = "check" /\ UNCHANGED <<input, connectors, stdout, passed>>
    BY <1>4 DEF WriteFromBuffer
  <2> QED BY <1>1, <2>1, NoWrite DEF pipes
<1>5. CASE i \in writefds /\ i # Final /\ Ended(i + 1)
  <2>1. pc' = "killed" /\ UNCHANGED <<input, connectors, stdout, passed>>
    BY <1>5 DEF WriteFromBuffer
  <2> QED BY <1>1, <1>5, <2>1, WriteKills DEF pipes
<1>6. CASE i \in writefds /\ ~ (i # Final /\ Ended(i + 1))
  <2> DEFINE most == IF i = Final THEN WriteSpan(connectors[i])
                     ELSE Smaller(WriteSpan(connectors[i]), PipeSize - Len(input[i + 1]))
  <2>1. PICK n \in (IF most > 0 THEN 1..most ELSE {0}) :
          /\ connectors' = [connectors EXCEPT ![i] = AfterWrite(@, n)]
          /\ passed' = [passed EXCEPT ![i] = @ + n]
          /\ IF i = Final
             THEN /\ stdout' = stdout \o SubSeq(Offered(connectors[i]), 1, n)
                  /\ UNCHANGED input
             ELSE /\ input' = [input EXCEPT ![i + 1] =
                                 @ \o SubSeq(Offered(connectors[i]), 1, n)]
                  /\ UNCHANGED stdout
          /\ pc' = "check"
    BY <1>6 DEF WriteFromBuffer
  <2>2. connectors[i].count # 0
    BY <1>1, <1>2, <1>3, <1>6 DEF ReadyStaysReady, ToWrite
  <2>3. WriteSpan(connectors[i]) \in Nat
    <3>1. /\ connectors[i] \in Connection(SizeBuffer[i]) /\ Sound(connectors[i])
          /\ SizeBuffer[i] \in Nat \ {0} /\ connectors[i].count \in Nat
      BY <1>2, <1>3, OneChild
    <3>2. WriteSpan(connectors[i]) \in 1..connectors[i].count
      BY <2>2, <3>1, Spans
    <3> QED BY <3>1, <3>2
  <2>4. n \in 0..WriteSpan(connectors[i])
    <3>1. CASE i = Final
      BY <2>3, <3>1
    <3>2. CASE i # Final
      <4>1. PipeSize - Len(input[i + 1]) \in Int
        BY <1>2, <1>3, <3>2, OneChild, SizeAssumption
      <4>2. most = Smaller(WriteSpan(connectors[i]), PipeSize - Len(input[i + 1]))
        BY <3>2
      <4>3. most \in Int /\ most <= WriteSpan(connectors[i])
        BY <2>3, <4>1, <4>2 DEF Smaller
      <4> HIDE DEF most
      <4> QED BY <2>3, <4>3
    <3> QED BY <3>1, <3>2
  <2> QED BY <1>1, <1>3, <1>6, <2>1, <2>2, <2>4, WriteBytes
<1> QED BY <1>4, <1>5, <1>6

----------------------------------------------------------------------------
(* The theorems                                                            *)

LEMMA StutterStep ==
  ASSUME IInv, UNCHANGED vars PROVE IInv'
<1>1. TypeOK /\ RingsSound /\ ReadyStaysReady /\ Stream /\ EndsTravel /\ WhileAllLive
      /\ NothingRead
  BY DEF IInv
<1>2. TypeOK'
  BY <1>1 DEF TypeOK, vars, pipes, fds
<1>3. RingsSound' /\ Stream'
  BY <1>1, BytesStay DEF vars
<1>4. ReadyStaysReady'
  BY <1>1 DEF ReadyStaysReady, ToRead, ToWrite, Readable, Ended, vars, pipes, fds
<1>5. EndsTravel'
  BY <1>1 DEF EndsTravel, InputClosed, Ended, vars, pipes
<1>6. WhileAllLive'
  BY <1>1 DEF WhileAllLive, NobodyDied, vars
<1>7. NothingRead'
  BY <1>1 DEF NothingRead, Fresh, vars
<1> QED BY <1>2, <1>3, <1>4, <1>5, <1>6, <1>7 DEF IInv

LEMMA CloseInheritedStep ==
  ASSUME IInv, NEW c \in Children, CloseInherited(c) PROVE IInv'
<1> USE DEF CloseInherited
<1>1. TypeOK /\ RingsSound /\ ReadyStaysReady /\ Stream /\ EndsTravel /\ WhileAllLive
      /\ NothingRead
  BY DEF IInv
<1>2. closed \in [Children -> Nat]
  BY <1>1 DEF TypeOK
<1>3. closed' \in [Children -> Nat]
  BY <1>2
<1>4. TypeOK'
  BY <1>1, <1>3 DEF TypeOK, pipes, fds
<1>5. RingsSound' /\ Stream'
  BY <1>1, BytesStay
<1>6. ReadyStaysReady'
  BY <1>1 DEF ReadyStaysReady, ToRead, ToWrite, Readable, Ended, pipes, fds
<1>7. EndsTravel'
  <2>1. ASSUME NEW d \in Children, NEW e \in Children, closed[d] > e
        PROVE  closed'[d] > e
    BY <1>2, <2>1, Constants
  <2>2. ASSUME NEW e \in Children, InputClosed(e) PROVE InputClosed(e)'
    BY <2>1, <2>2 DEF InputClosed, Ended
  <2> QED BY <1>1, <2>2 DEF EndsTravel, Ended, pipes
<1>8. WhileAllLive'
  BY <1>1 DEF WhileAllLive, NobodyDied
<1>9. NothingRead'
  BY <1>1 DEF NothingRead, Fresh
<1> QED BY <1>4, <1>5, <1>6, <1>7, <1>8, <1>9 DEF IInv

LEMMA ForkStep ==
  ASSUME IInv, Fork PROVE IInv'
<1> USE DEF Fork
<1>1. TypeOK /\ RingsSound /\ Stream /\ NothingRead
  BY DEF IInv
<1>2. child \in [Children -> {"none", "running", "finished", "dead"}]
  BY <1>1 DEF TypeOK
<1>3. /\ child' \in [Children -> {"none", "running", "finished", "dead"}]
      /\ \A c \in Children : child'[c] = "finished" => child[c] = "finished" /\ c # i
  BY <1>2
<1>4. /\ index_of_finished' = 0 /\ (\A c \in Children : fd_in'[c])
      /\ pc' \in Starting
  BY <1>1 DEF NothingRead, Starting
<1>5. i' \in Children
  BY <1>1, Constants DEF TypeOK
<1>6. TypeOK'
  BY <1>1, <1>3, <1>4, <1>5 DEF TypeOK, pipes, fds, Running
<1>7. RingsSound' /\ Stream'
  BY <1>1, BytesStay
<1>8. ReadyStaysReady'
  BY <1>4 DEF ReadyStaysReady, ToRead, ToWrite, Starting
<1>9. EndsTravel'
  <2>1. ASSUME NEW c \in Children, child'[c] = "finished"
        PROVE  (input[c] = <<>> /\ InputClosed(c))'
    <3>1. input[c] = <<>> /\ InputClosed(c)
      BY <1>1, <1>3, <2>1 DEF IInv, EndsTravel
    <3>2. c = 0
      BY <3>1, <1>1, <1>4, Constants DEF InputClosed, NothingRead, Starting
    <3> QED BY <3>1, <3>2 DEF InputClosed, pipes
  <2> QED BY <2>1, <1>4, Constants DEF EndsTravel, Starting
<1>10. WhileAllLive'
  BY <1>4, Constants DEF WhileAllLive, Starting
<1>11. NothingRead'
  BY <1>1, <1>4 DEF NothingRead, Fresh, Starting
<1> QED BY <1>6, <1>7, <1>8, <1>9, <1>10, <1>11 DEF IInv

LEMMA CreateConnectionsStep ==
  ASSUME IInv, CreateConnections PROVE IInv'
<1> USE DEF CreateConnections
<1>1. TypeOK /\ RingsSound /\ Stream /\ EndsTravel /\ NothingRead
  BY DEF IInv
<1>2. index_of_finished = 0 /\ connectors = Fresh /\ \A c \in Children : fd_in[c]
  BY <1>1 DEF NothingRead, Starting
<1>3. /\ connectors' = connectors /\ index_of_finished' = index_of_finished
      /\ fd_in' \in [Children -> BOOLEAN] /\ \A c \in Children : fd_in'[c]
  BY <1>2
<1>4. TypeOK'
  BY <1>1, <1>3 DEF TypeOK, pipes, fds, Running
<1>5. RingsSound' /\ Stream'
  BY <1>1, <1>3, BytesStay
<1>6. ReadyStaysReady'
  BY DEF ReadyStaysReady, ToRead, ToWrite
<1>7. EndsTravel'
  <2>1. \A c \in Children : InputClosed(c) => InputClosed(c)'
    BY <1>3 DEF InputClosed, Ended
  <2> QED BY <1>1, <1>2, <1>3, <2>1, Constants DEF EndsTravel, pipes
<1>8. WhileAllLive'
  BY <1>2, <1>3, Constants DEF WhileAllLive
<1>9. NothingRead'
  BY DEF NothingRead, Starting
<1> QED BY <1>4, <1>5, <1>6, <1>7, <1>8, <1>9 DEF IInv

LEMMA StartFailsStep ==
  ASSUME IInv, StartFails PROVE IInv'
<1> USE DEF StartFails
<1>1. TypeOK /\ RingsSound /\ Stream /\ EndsTravel /\ NothingRead
  BY DEF IInv
<1>2. TypeOK'
  BY <1>1 DEF TypeOK, pipes, fds
<1>3. RingsSound' /\ Stream'
  BY <1>1, BytesStay
<1>4. ReadyStaysReady'
  BY DEF ReadyStaysReady, ToRead, ToWrite
<1>5. EndsTravel'
  BY <1>1 DEF EndsTravel, InputClosed, Ended, pipes
<1>6. WhileAllLive'
  BY <1>1, Constants DEF WhileAllLive, NothingRead
<1>7. NothingRead'
  BY DEF NothingRead, Starting
<1> QED BY <1>2, <1>3, <1>4, <1>5, <1>6, <1>7 DEF IInv

LEMMA NextStep ==
  ASSUME IInv, [Next]_vars PROVE IInv'
<1>1. CASE UNCHANGED vars
  BY <1>1, StutterStep
<1>2. ASSUME NEW c \in Children, Splice(c) PROVE IInv'
  BY <1>2, SpliceStep
<1>3. ASSUME NEW c \in Children, Finish(c) PROVE IInv'
  BY <1>3, FinishStep
<1>4. ASSUME NEW c \in Children, Die(c) PROVE IInv'
  BY <1>4, DieStep
<1>5. CASE Select
  BY <1>5, SelectStep
<1>6. CASE ReadToBuffer
  BY <1>6, ReadToBufferStep
<1>7. CASE WriteFromBuffer
  BY <1>7, WriteFromBufferStep
<1>8. CASE CheckFinished
  BY <1>8, CheckFinishedStep
<1>9. ASSUME NEW c \in Children, CloseInherited(c) PROVE IInv'
  BY <1>9, CloseInheritedStep
<1>10. CASE Fork
  BY <1>10, ForkStep
<1>11. CASE CreateConnections
  BY <1>11, CreateConnectionsStep
<1>12. CASE StartFails
  BY <1>12, StartFailsStep
<1> QED BY <1>1, <1>2, <1>3, <1>4, <1>5, <1>6, <1>7, <1>8, <1>9, <1>10, <1>11, <1>12
        DEF Next, ChildStep, Parent

\* The inductive invariant holds in every reachable state of every instance.
THEOREM Invariance == Spec => []IInv
<1>1. Init => IInv
  BY InitIInv
<1>2. IInv /\ [Next]_vars => IInv'
  BY NextStep
<1> QED BY <1>1, <1>2, PTL DEF Spec

\* Every variable keeps its type; above all head, tail and count stay within
\* the array of createConnections.
THEOREM TypeCorrect == Spec => []TypeOK
<1>1. IInv => TypeOK
  BY DEF IInv
<1> QED BY <1>1, Invariance, PTL

\* What the parent prints is a prefix of the file, whoever dies.
THEOREM PrefixPrinted == Spec => []OutputIsPrefix
<1>1. ASSUME IInv PROVE OutputIsPrefix
  <2>1. TypeOK /\ Stream
    BY <1>1 DEF IInv
  <2>2. /\ stdout \in Seq(Byte) /\ Len(stdout) \in Nat /\ Consecutive(stdout, 0)
        /\ Len(stdout) = passed[Final]
    BY <2>1 DEF TypeOK, Stream
  <2>3. Len(stdout) <= Length
    BY <2>1, <2>2, Constants DEF Stream
  <2>4. Len(stdout) \in 0..Len(File)
    BY <2>2, <2>3, FileIs
  <2>5. /\ SubSeq(File, 1, Len(stdout)) \in Seq(Byte)
        /\ Len(SubSeq(File, 1, Len(stdout))) = Len(stdout)
        /\ \A k \in 1..Len(stdout) : SubSeq(File, 1, Len(stdout))[k] = File[k]
    BY <2>4, FileIs, Cut
  <2>6. ASSUME NEW k \in 1..Len(stdout)
        PROVE  stdout[k] = SubSeq(File, 1, Len(stdout))[k]
    <3>1. k \in 1..Length
      BY <2>2, <2>3, Constants
    <3>2. stdout[k] = 0 + k
      BY <2>2 DEF Consecutive
    <3> QED BY <2>5, <3>1, <3>2 DEF File
  <2>7. stdout = SubSeq(File, 1, Len(stdout))
    BY <2>2, <2>5, <2>6
  <2> QED BY <2>3, <2>7 DEF OutputIsPrefix
<1> QED BY <1>1, Invariance, PTL

\* Without a death there is no false alarm, no EAGAIN in a read and no SIGPIPE,
\* and the parent ends with the whole file printed.
THEOREM CleanRuns == Spec => []CleanRun
<1>1. ASSUME IInv, OutputIsPrefix, NobodyDied
      PROVE  /\ pc \notin {"failed", "killed"}
             /\ pc = "succeeded" => stdout = File
  <2>1. WhileAllLive /\ EndsTravel /\ Stream /\ TypeOK
    BY <1>1 DEF IInv
  <2>2. pc \notin {"failed", "killed"}
    BY <1>1, <2>1 DEF WhileAllLive
  <2>3. ASSUME pc = "succeeded" PROVE stdout = File
    <3>1. index_of_finished = num_children /\ Final < num_children
      BY <2>1, <2>3, Constants DEF EndsTravel
    <3>2. passed[Final] = Length
      BY <1>1, <2>1, <3>1, Constants DEF WhileAllLive
    <3>3. Len(stdout) = Length
      BY <2>1, <3>2 DEF Stream
    <3>4. stdout = SubSeq(File, 1, Len(File))
      BY <1>1, <3>3, FileIs DEF OutputIsPrefix
    <3>5. SubSeq(File, 1, Len(File)) = File
      BY FileIs
    <3> QED BY <3>4, <3>5
  <2> QED BY <2>2, <2>3
<1>2. IInv /\ OutputIsPrefix => CleanRun
  BY <1>1 DEF CleanRun
<1> QED BY <1>2, Invariance, PrefixPrinted, PTL

----------------------------------------------------------------------------
(* The ring buffers implement queues                                       *)

\* The queues that the connections stand for.
contents == [c \in Children |-> Content(connectors[c])]

\* After a read the queue is longer by what was read; it fits in the buffer.
LEMMA ReadPuts ==
  ASSUME NEW size \in Nat \ {0}, NEW ring \in Connection(size), Sound(ring),
         ring.count < size, NEW bytes \in Seq(Byte),
         Len(bytes) \in 1..ReadSpan(ring), NEW next, next = AfterRead(ring, bytes)
  PROVE  /\ Content(next) \in Seq(Byte)
         /\ Len(Content(ring)) <= Len(Content(next)) /\ Len(Content(next)) <= size
         /\ SubSeq(Content(next), 1, Len(Content(ring))) = Content(ring)
<1>1. /\ next \in Connection(size) /\ next.count = ring.count + Len(bytes)
      /\ \A k \in 1..ring.count : Content(next)[k] = Content(ring)[k]
  BY AfterReadIs
<1>2. /\ Content(next) \in Seq(Byte) /\ Len(Content(next)) = next.count
      /\ Content(ring) \in Seq(Byte) /\ Len(Content(ring)) = ring.count
  BY <1>1, ContentIs
<1>3. /\ ring.count \in Nat /\ next.count \in Nat /\ next.count <= size
  BY <1>1, Fields
<1>4. ring.count \in 0..Len(Content(next)) /\ ring.count <= next.count
  <2>1. Len(bytes) \in Nat
    OBVIOUS
  <2> QED BY <1>1, <1>2, <1>3, <2>1
<1>5. /\ SubSeq(Content(next), 1, ring.count) \in Seq(Byte)
      /\ Len(SubSeq(Content(next), 1, ring.count)) = ring.count
      /\ \A k \in 1..ring.count :
           SubSeq(Content(next), 1, ring.count)[k] = Content(next)[k]
  BY <1>2, <1>4, Cut
<1>6. SubSeq(Content(next), 1, ring.count) = Content(ring)
  BY <1>1, <1>2, <1>5
<1> QED BY <1>2, <1>3, <1>4, <1>6

\* After a write its bytes are gone from the front of the queue.
LEMMA WriteTakes ==
  ASSUME NEW size \in Nat \ {0}, NEW ring \in Connection(size), Sound(ring),
         ring.count > 0, NEW n \in 0..WriteSpan(ring), NEW next,
         next = AfterWrite(ring, n)
  PROVE  /\ n \in 0..Len(Content(ring))
         /\ Content(next) = SubSeq(Content(ring), n + 1, Len(Content(ring)))
         /\ n = 0 => next = ring
<1>1. /\ next \in Connection(size)
      /\ n \in Nat /\ n <= ring.count /\ next.count = ring.count - n
      /\ \A k \in 1..next.count : Content(next)[k] = Content(ring)[k + n]
      /\ n = 0 => next = ring
  BY AfterWriteIs
<1>2. /\ Content(next) \in Seq(Byte) /\ Len(Content(next)) = next.count
      /\ Content(ring) \in Seq(Byte) /\ Len(Content(ring)) = ring.count
      /\ ring.count \in Nat
  BY <1>1, ContentIs, Fields
<1>3. n \in 0..Len(Content(ring))
  BY <1>1, <1>2
<1> DEFINE rest == SubSeq(Content(ring), n + 1, Len(Content(ring)))
<1>4. /\ rest \in Seq(Byte) /\ Len(rest) = ring.count - n
      /\ \A k \in 1..(ring.count - n) : rest[k] = Content(ring)[n + k]
  BY <1>2, <1>3, Cut
<1> HIDE DEF rest
<1>5. ASSUME NEW k \in 1..(ring.count - n) PROVE Content(next)[k] = rest[k]
  <2>1. k + n = n + k
    BY <1>1
  <2> QED BY <1>1, <1>4, <2>1
<1>6. Content(next) = rest
  BY SMTT(30), <1>1, <1>2, <1>4, <1>5
<1> QED BY <1>1, <1>3, <1>6 DEF rest

LEMMA ReadToBufferPuts ==
  ASSUME IInv, ReadToBuffer
  PROVE  contents' = contents \/ Queues!Put(i)
<1>1. TypeOK /\ RingsSound /\ pc = "read"
  BY DEF IInv, ReadToBuffer
<1>2. CASE UNCHANGED connectors
  BY <1>2 DEF contents
<1>3. CASE i \in readfds /\ Smaller(ReadSpan(connectors[i]), Len(output[i])) > 0
  <2>1. i \in Children /\ connectors[i].count < SizeBuffer[i]
    BY <1>1, <1>3, ReadIsReady
  <2>2. PICK n \in 1..Smaller(ReadSpan(connectors[i]), Len(output[i])) :
          connectors' = [connectors EXCEPT ![i] =
                           AfterRead(@, SubSeq(output[i], 1, n))]
    BY <1>3 DEF ReadToBuffer
  <2> DEFINE ring  == connectors[i]
             bytes == SubSeq(output[i], 1, n)
             next  == AfterRead(ring, bytes)
  <2>3. /\ ring \in Connection(SizeBuffer[i]) /\ Sound(ring)
        /\ SizeBuffer[i] \in Nat \ {0} /\ ring.count \in Nat
        /\ output[i] \in Seq(Byte) /\ Len(output[i]) \in Nat
    BY <1>1, <2>1, OneChild
  <2>4. ReadSpan(ring) \in 1..(SizeBuffer[i] - ring.count) /\ ReadSpan(ring) \in Nat
    BY <2>1, <2>3, Spans
  <2>5. n \in 1..ReadSpan(ring) /\ n \in 0..Len(output[i])
    <3>1. n \in 1..Smaller(ReadSpan(ring), Len(output[i]))
      OBVIOUS
    <3> HIDE DEF ring
    <3> QED BY <2>3, <2>4, <3>1 DEF Smaller
  <2>6. bytes \in Seq(Byte) /\ Len(bytes) \in 1..ReadSpan(ring)
    BY <2>3, <2>5, Cut
  <2>7. next = AfterRead(ring, bytes) /\ ring.count < SizeBuffer[i]
    BY <2>1
  <2>8. connectors' = [connectors EXCEPT ![i] = next]
    BY <2>2
  <2>9. Content(ring) = contents[i]
    BY <2>1 DEF contents
  <2> HIDE DEF ring, bytes, next
  <2>10. /\ Content(next) \in Seq(Byte)
         /\ Len(Content(ring)) <= Len(Content(next))
         /\ Len(Content(next)) <= SizeBuffer[i]
         /\ SubSeq(Content(next), 1, Len(Content(ring))) = Content(ring)
    BY <2>3, <2>6, <2>7, ReadPuts
  <2>11. contents' = [contents EXCEPT ![i] = Content(next)]
    BY <1>1, <2>1, <2>8 DEF contents, TypeOK
  <2>12. contents'[i] = Content(next)
    BY <2>1, <2>11 DEF contents
  <2>13. Queues!Put(i)
    BY <2>9, <2>10, <2>11, <2>12 DEF Queues!Put, contents
  <2> QED BY <2>13
<1> QED BY <1>2, <1>3 DEF ReadToBuffer

LEMMA WriteFromBufferTakes ==
  ASSUME IInv, WriteFromBuffer
  PROVE  contents' = contents \/ Queues!Take(i)
<1>1. TypeOK /\ RingsSound /\ ReadyStaysReady /\ pc = "write"
  BY DEF IInv, WriteFromBuffer
<1>2. CASE UNCHANGED connectors
  BY <1>2 DEF contents
<1>3. CASE i \in writefds /\ ~ (i # Final /\ Ended(i + 1))
  <2> DEFINE most == IF i = Final THEN WriteSpan(connectors[i])
                     ELSE Smaller(WriteSpan(connectors[i]), PipeSize - Len(input[i + 1]))
  <2>1. i \in Children /\ i \in Nat /\ i <= i /\ (i # Final => i + 1 \in Children)
    BY <1>1, Constants DEF TypeOK
  <2>2. connectors[i].count # 0
    BY <1>1, <1>3, <2>1 DEF ReadyStaysReady, ToWrite
  <2>3. PICK n \in (IF most > 0 THEN 1..most ELSE {0}) :
          connectors' = [connectors EXCEPT ![i] = AfterWrite(@, n)]
    BY <1>3 DEF WriteFromBuffer
  <2> DEFINE ring == connectors[i]
             next == AfterWrite(ring, n)
  <2>4. /\ ring \in Connection(SizeBuffer[i]) /\ Sound(ring)
        /\ SizeBuffer[i] \in Nat \ {0} /\ ring.count \in Nat
    BY <1>1, <2>1, OneChild
  <2>5. ring.count > 0
    BY <2>2, <2>4
  <2>6. WriteSpan(ring) \in 1..ring.count /\ WriteSpan(ring) \in Nat
    BY <2>4, <2>5, Spans
  <2>7. n \in 0..WriteSpan(ring)
    <3>1. CASE i = Final
      BY <2>6, <3>1
    <3>2. CASE i # Final
      <4>1. PipeSize - Len(input[i + 1]) \in Int
        BY <1>1, <2>1, <3>2, OneChild, SizeAssumption
      <4>2. most = Smaller(WriteSpan(connectors[i]), PipeSize - Len(input[i + 1]))
        BY <3>2
      <4>3. most \in Int /\ most <= WriteSpan(connectors[i])
        BY <2>6, <4>1, <4>2 DEF Smaller
      <4> HIDE DEF most
      <4> QED BY <2>6, <4>3
    <3> QED BY <3>1, <3>2
  <2>8. next = AfterWrite(ring, n) /\ connectors' = [connectors EXCEPT ![i] = next]
    BY <2>3
  <2>9. Content(ring) = contents[i]
    BY <2>1 DEF contents
  <2>10. n = 0 \/ n \in 1..Len(Content(ring))
    <3> HIDE DEF ring, next
    <3>1. n \in 0..Len(Content(ring))
      BY <2>4, <2>5, <2>7, <2>8, WriteTakes
    <3> QED BY <3>1
  <2>11. /\ Content(next) = SubSeq(Content(ring), n + 1, Len(Content(ring)))
         /\ n = 0 => next = ring
    <3> HIDE DEF ring, next
    <3> QED BY <2>4, <2>5, <2>7, <2>8, WriteTakes
  <2>12. CASE n = 0
    <3>1. connectors' = [connectors EXCEPT ![i] = connectors[i]]
      BY <2>8, <2>11, <2>12
    <3>2. \A c \in Children : connectors'[c] = connectors[c]
      BY <1>1, <2>1, <3>1 DEF TypeOK
    <3> QED BY <3>2 DEF contents
  <2>13. CASE n \in 1..Len(Content(ring))
    <3> HIDE DEF ring, next
    <3>1. contents' = [contents EXCEPT ![i] = Content(next)]
      BY <1>1, <2>1, <2>8 DEF contents, TypeOK
    <3>2. contents' = [contents EXCEPT ![i] =
                         SubSeq(contents[i], n + 1, Len(contents[i]))]
      BY <2>9, <2>11, <3>1
    <3>3. n \in 1..Len(contents[i])
      BY <2>9, <2>13
    <3>4. Queues!Take(i)
      BY <3>2, <3>3 DEF Queues!Take, contents
    <3> QED BY <3>4
  <2> QED BY <2>10, <2>12, <2>13
<1> QED BY <1>2, <1>3 DEF WriteFromBuffer

\* Every connection, for every size of its buffer, behaves as a bounded queue of
\* bytes: the ring never mixes up, drops or doubles what is in it.
THEOREM RingsAreQueues == Spec => ImplementsByteQueues
<1>1. Init => Queues!Init
  <2>1. ASSUME Init, NEW c \in Children PROVE Content(connectors[c]) = <<>>
    <3>1. /\ connectors[c] \in Connection(SizeBuffer[c])
          /\ connectors[c].count = 0 /\ SizeBuffer[c] \in Nat \ {0}
      BY <2>1, Constants, EmptyIs DEF Init, Fresh
    <3>2. Content(connectors[c]) \in Seq(Byte) /\ Len(Content(connectors[c])) = 0
      BY <3>1, ContentIs
    <3> QED BY <3>2
  <2> QED BY <2>1 DEF Queues!Init
<1>2. IInv /\ [Next]_vars => [Queues!Next]_contents
  <2> SUFFICES ASSUME IInv, [Next]_vars PROVE [Queues!Next]_contents
    OBVIOUS
  <2>1. i \in Children
    BY DEF IInv, TypeOK
  <2>2. CASE ReadToBuffer
    BY <2>1, <2>2, ReadToBufferPuts DEF Queues!Next
  <2>3. CASE WriteFromBuffer
    BY <2>1, <2>3, WriteFromBufferTakes DEF Queues!Next
  <2>4. CASE UNCHANGED connectors
    BY <2>4 DEF contents
  <2>5. \/ ReadToBuffer \/ WriteFromBuffer \/ UNCHANGED connectors
    <3>1. CASE CreateConnections
      BY <3>1 DEF CreateConnections, IInv, NothingRead, Starting
    <3>2. CASE Parent /\ ~ CreateConnections
      BY <3>2 DEF Parent, Fork, Select, CheckFinished
    <3>3. CASE ~ Parent
      BY <3>3 DEF Next, ChildStep, CloseInherited, Splice, Finish, Die, StartFails, vars
    <3> QED BY <3>1, <3>2, <3>3
  <2> QED BY <2>2, <2>3, <2>4, <2>5
<1> QED BY <1>1, <1>2, Invariance, PTL
        DEF Spec, ImplementsByteQueues, Queues!Spec, contents
=============================================================================
