----------------------------- MODULE ByteQueues -----------------------------
(***************************************************************************)
(* What the connections of sem3/homework/task_5 promise: each is a queue   *)
(* of bounded length, filled at one end and emptied at the other.          *)
(***************************************************************************)
EXTENDS Naturals, Sequences

CONSTANTS Connections, Size, Byte

VARIABLE queue

Init == queue = [i \in Connections |-> <<>>]

\* One connection takes bytes in, or gives bytes away from its front.
Put(i) ==
  /\ queue' = [queue EXCEPT ![i] = queue'[i]]
  /\ Len(queue[i]) <= Len(queue'[i]) /\ Len(queue'[i]) <= Size[i]
  /\ queue'[i] \in Seq(Byte)
  /\ SubSeq(queue'[i], 1, Len(queue[i])) = queue[i]

Take(i) ==
  \E n \in 1..Len(queue[i]) :
    queue' = [queue EXCEPT ![i] = SubSeq(@, n + 1, Len(@))]

Next == \E i \in Connections : Put(i) \/ Take(i)

Spec == Init /\ [][Next]_queue
=============================================================================
