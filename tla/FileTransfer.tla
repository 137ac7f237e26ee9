---------------------------- MODULE FileTransfer ----------------------------
(***************************************************************************)
(* What sem3/homework/task_3 promises, with no semaphore, shared memory or *)
(* crash handling in sight: every reader is fed by at most one writer and  *)
(* every writer feeds at most one reader; a reader prints its writer's     *)
(* file in order, nothing lost and nothing repeated; and whoever reports   *)
(* success knows that the whole file was printed.                          *)
(***************************************************************************)
EXTENDS Naturals, Sequences

CONSTANTS
  Readers, Writers,
  Contents,     \* Contents[w]: the sequence of blocks that w has to deliver
  None

VARIABLES
  out,      \* out[r]: what r has printed
  feeder,   \* feeder[r]: the writer that feeds r
  status    \* status[p]: "running", "succeeded" or "failed"

vars == <<out, feeder, status>>

Procs == Readers \cup Writers

Printed(r, w) == feeder[r] = w /\ out[r] = Contents[w]

Init ==
  /\ out = [r \in Readers |-> <<>>]
  /\ feeder = [r \in Readers |-> None]
  /\ status = [p \in Procs |-> "running"]

Pair(r, w) ==
  /\ feeder[r] = None
  /\ \A q \in Readers : feeder[q] # w
  /\ status[r] = "running" /\ status[w] = "running"
  /\ feeder' = [feeder EXCEPT ![r] = w]
  /\ UNCHANGED <<out, status>>

Emit(r) ==
  /\ status[r] = "running"
  /\ feeder[r] # None
  /\ Len(out[r]) < Len(Contents[feeder[r]])
  /\ out' = [out EXCEPT ![r] = Append(@, Contents[feeder[r]][Len(@) + 1])]
  /\ UNCHANGED <<feeder, status>>

Succeed(p) ==
  /\ status[p] = "running"
  /\ \E r \in Readers, w \in Writers : p \in {r, w} /\ Printed(r, w)
  /\ status' = [status EXCEPT ![p] = "succeeded"]
  /\ UNCHANGED <<out, feeder>>

Fail(p) ==
  /\ status[p] = "running"
  /\ status' = [status EXCEPT ![p] = "failed"]
  /\ UNCHANGED <<out, feeder>>

Next ==
  \/ \E r \in Readers, w \in Writers : Pair(r, w)
  \/ \E r \in Readers : Emit(r)
  \/ \E p \in Procs : Succeed(p) \/ Fail(p)

Spec == Init /\ [][Next]_vars
=============================================================================
