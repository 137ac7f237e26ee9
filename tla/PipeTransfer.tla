---------------------------- MODULE PipeTransfer ----------------------------
(***************************************************************************)
(* What sem3/homework/task_1 promises, with no fifo, name or open() in     *)
(* sight: a writer feeds one reader at most, and no two the same; a reader *)
(* prints what its writer has sent, in order, nothing lost and nothing     *)
(* repeated.  Unlike the promise of task_3 (FileTransfer) a writer has     *)
(* done when all is sent, and a reader when its writer has ended, however, *)
(* and all that it had sent is printed.                                    *)
(***************************************************************************)
EXTENDS Naturals, Sequences

CONSTANTS
  Reader, Writer, NoReader,
  Blocks       \* the length of each writer's file in buffers

VARIABLES
  partner,     \* the reader that each writer feeds
  sent,        \* how many buffers of its file each writer has sent
  out,         \* what each reader has printed
  status       \* "running", "succeeded" or "failed"

vars == <<partner, sent, out, status>>

Process == Reader \cup Writer

Init ==
  /\ partner = [w \in Writer |-> NoReader]
  /\ sent = [w \in Writer |-> 0]
  /\ out = [r \in Reader |-> <<>>]
  /\ status = [p \in Process |-> "running"]

\* The reader may have ended already.
Pair(w, r) ==
  /\ status[w] = "running"
  /\ partner[w] = NoReader /\ \A v \in Writer : partner[v] # r
  /\ partner' = [partner EXCEPT ![w] = r]
  /\ UNCHANGED <<sent, out, status>>

Send(w) ==
  /\ status[w] = "running"
  /\ partner[w] # NoReader /\ sent[w] < Blocks[w]
  /\ sent' = [sent EXCEPT ![w] = @ + 1]
  /\ UNCHANGED <<partner, out, status>>

\* A reader may fail at once when it has printed a buffer.
Emit(r, w) ==
  /\ status[r] = "running"
  /\ partner[w] = r /\ Len(out[r]) < sent[w]
  /\ out' = [out EXCEPT ![r] = Append(@, <<w, Len(@) + 1>>)]
  /\ status' \in {status, [status EXCEPT ![r] = "failed"]}
  /\ UNCHANGED <<partner, sent>>

WriterSucceeds(w) ==
  /\ status[w] = "running"
  /\ partner[w] # NoReader /\ sent[w] = Blocks[w]
  /\ status' = [status EXCEPT ![w] = "succeeded"]
  /\ UNCHANGED <<partner, sent, out>>

ReaderSucceeds(r, w) ==
  /\ status[r] = "running"
  /\ partner[w] = r /\ status[w] # "running"
  /\ out[r] # <<>> /\ Len(out[r]) = sent[w]
  /\ status' = [status EXCEPT ![r] = "succeeded"]
  /\ UNCHANGED <<partner, sent, out>>

Fail(p) ==
  /\ status[p] = "running"
  /\ status' = [status EXCEPT ![p] = "failed"]
  /\ UNCHANGED <<partner, sent, out>>

Next ==
  \/ \E r \in Reader, w \in Writer : Pair(w, r) \/ Emit(r, w) \/ ReaderSucceeds(r, w)
  \/ \E w \in Writer : Send(w) \/ WriterSucceeds(w)
  \/ \E p \in Process : Fail(p)

Spec == Init /\ [][Next]_vars
=============================================================================
