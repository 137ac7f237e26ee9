----------------------------- MODULE Connection -----------------------------
(***************************************************************************)
(* sem3/homework/task_5: struct Connection, a ring buffer between the pipe *)
(* from one child and the pipe to the next, and what one call of           *)
(* readToBuffer and writeFromBuffer makes of it.  The size of the buffer   *)
(* is the size of its array; a read or a write never wraps round the end.  *)
(***************************************************************************)
EXTENDS Integers, Sequences

CONSTANT Byte   \* what the buffers hold

Connection(size) ==
  [size_buffer: {size}, buffer: [0..(size - 1) -> Byte],
   tail: 0..(size - 1), head: 0..(size - 1), count: 0..size]

\* The empty connection of createConnections; calloc() zeroes the buffer.
Empty(size, zero) ==
  [size_buffer |-> size, buffer |-> [k \in 0..(size - 1) |-> zero],
   tail |-> 0, head |-> 0, count |-> 0]

\* Names with an underscore are slips a programmer could have made at the
\* definition that follows them; no action uses them.
ReadSpan_AlsoWhenEqual(c) ==
  IF c.head >= c.tail THEN c.head - c.tail ELSE c.size_buffer - c.tail

ReadSpan_ToTheEnd(c) == c.size_buffer - c.tail

\* The room that readToBuffer asks read() to fill, from tail on.
ReadSpan(c) ==
  IF c.head > c.tail THEN c.head - c.tail ELSE c.size_buffer - c.tail

\* The bytes that writeFromBuffer asks write() to take, from head on.
WriteSpan(c) ==
  IF c.head >= c.tail THEN c.size_buffer - c.head ELSE c.tail - c.head

Advance(c, position, n) ==
  IF position + n = c.size_buffer THEN 0 ELSE position + n

AfterRead_AtStart(c, bytes) ==
  [c EXCEPT
     !.buffer = [k \in DOMAIN @ |-> IF k < Len(bytes) THEN bytes[k + 1] ELSE @[k]],
     !.count = @ + Len(bytes),
     !.tail = Advance(c, @, Len(bytes))]

\* read() has delivered these bytes.
AfterRead(c, bytes) ==
  [c EXCEPT
     !.buffer = [k \in DOMAIN @ |-> IF k \in c.tail..(c.tail + Len(bytes) - 1)
                                    THEN bytes[k - c.tail + 1] ELSE @[k]],
     !.count = @ + Len(bytes),
     !.tail = Advance(c, @, Len(bytes))]

\* write() has taken n bytes.
AfterWrite(c, n) ==
  [c EXCEPT !.count = @ - n, !.head = Advance(c, @, n)]

\* The bytes that write() is offered.
Offered(c) == [k \in 1..WriteSpan(c) |-> c.buffer[c.head + k - 1]]

----------------------------------------------------------------------------
(* The queue of bytes that a connection stands for                         *)

Position(c, k) ==
  IF c.head + k - 1 < c.size_buffer THEN c.head + k - 1
                                    ELSE c.head + k - 1 - c.size_buffer

Content(c) == [k \in 1..c.count |-> c.buffer[Position(c, k)]]

\* head and tail agree with count; when they are equal only count tells an
\* empty buffer from a full one.
Sound(c) ==
  /\ c \in Connection(c.size_buffer)
  /\ c.head + c.count \in {c.tail, c.tail + c.size_buffer}
=============================================================================
