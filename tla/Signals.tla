------------------------------- MODULE Signals -------------------------------
(***************************************************************************)
(* sem3/homework/task_4: a child sends a file to its parent bit by bit,    *)
(* SIGUSR1 for a zero and SIGUSR2 for a one, and waits for SIGUSR1 after   *)
(* every bit; the parent puts the bytes together and prints them.  SIGCHLD *)
(* tells the parent that the child has ended and, by prctl(), the child    *)
(* that the parent has.  The three signals are blocked but in sigsuspend() *)
(* and in the handlers.                                                    *)
(*                                                                         *)
(* Signals do not queue: one that is pending cannot become pending twice.  *)
(* sigsuspend() lets all pending ones in before it returns; the handler of *)
(* SIGCHLD runs first and never returns.  Until the parent has set         *)
(* SA_NOCLDSTOP a SIGCHLD also tells that the child was stopped or goes on.*)
(***************************************************************************)
EXTENDS Naturals, Sequences

CONSTANTS
  File,      \* the bytes of the text file, each a sequence of bits
  BITS,      \* bits of a char
  Mortal,    \* who may be killed: "parent", "child"
  Faults,    \* calls of the child that may fail: "open", "read"
  MaxStops   \* how often the child may be stopped (SIGSTOP)

Procs == {"parent", "child"}

Bytes == [1..BITS -> {0, 1}]

ASSUME ByteAssumption == BITS \in Nat \ {0} /\ File \in Seq(Bytes)

ASSUME FaultAssumption ==
  /\ Mortal \subseteq Procs /\ Faults \subseteq {"open", "read"}
  /\ MaxStops \in Nat

VARIABLES
  pc,            \* where each process is, or how it ended
  pending,       \* pending[p]: signals sent to p and not yet delivered
  pdeathsig,     \* the child has asked for a SIGCHLD when the parent ends
  number,        \* bytes that the child has read from the file
  i,             \* bits of the last of them that the parent has confirmed
  received_bit,  \* what the last handler in the parent has left
  finish_byte,   \* the bits of the byte that the parent is putting together
  out,           \* bytes that the parent has printed
  stopped,       \* the child is stopped
  stops,         \* how often it has been
  early          \* history: stopped or let go on before SA_NOCLDSTOP was set

sender == <<number, i>>
receiver == <<received_bit, finish_byte, out>>
stopping == <<stopped, stops, early>>
vars == <<pc, pending, pdeathsig, sender, receiver, stopping>>

Ended == {"succeeded", "failed", "killed"}

\* WIFEXITED
Exited == {"succeeded", "failed"}

----------------------------------------------------------------------------
(* Signals and ends                                                        *)

Goto(p, from, to) == pc[p] = from /\ pc' = [pc EXCEPT ![p] = to]

\* Names with an underscore are slips a programmer could have made at the
\* definition that follows them; no action uses them.
Blocked_WithoutChild == {"USR1", "USR2"}

\* The mask that both processes have outside sigsuspend().
Blocked == {"USR1", "USR2", "CHLD"}

\* childDie, before its wait(), in it, and after a bit has interrupted it.
InChildDie == {"child_die", "wait", "interrupted"}

\* childDie has the mask of the sigsuspend() that it interrupts, and its signal.
Mask(p) ==
  IF pc[p] = "suspend" THEN {} ELSE IF pc[p] \in InChildDie THEN {"CHLD"} ELSE Blocked

Deliverable(p) == pending[p] \ Mask(p)

\* kill() of a process that has ended has no effect.
Kill(p, s) ==
  pending' = IF pc[p] \in Ended THEN pending
             ELSE [pending EXCEPT ![p] = @ \cup {s}]

\* The kernel sends the one that is left a SIGCHLD.
End(p, how) ==
  /\ pc' = [pc EXCEPT ![p] = how]
  /\ IF p = "child" THEN Kill("parent", "CHLD")
     ELSE IF pdeathsig THEN Kill("child", "CHLD") ELSE UNCHANGED pending
  /\ UNCHANGED <<pdeathsig, sender, receiver, stopping>>

Die(p) ==
  /\ p \in Mortal
  /\ pc[p] \notin Ended
  /\ End(p, "killed")

----------------------------------------------------------------------------
(* The child                                                               *)

Alive == pc["child"] \notin Ended /\ ~ stopped

Prctl ==
  /\ Alive
  /\ Goto("child", "prctl", "getppid")
  /\ pdeathsig' = TRUE
  /\ UNCHANGED <<pending, sender, receiver, stopping>>

CheckParent_Not ==
  /\ Alive
  /\ pc["child"] = "getppid"
  /\ pc' = [pc EXCEPT !["child"] = "open"]
  /\ UNCHANGED <<pending, pdeathsig, sender, receiver, stopping>>

\* The parent may have ended before the child called prctl().
CheckParent ==
  /\ Alive
  /\ pc["child"] = "getppid"
  /\ IF pc["parent"] \in Ended THEN End("child", "failed")
     ELSE /\ pc' = [pc EXCEPT !["child"] = "open"]
          /\ UNCHANGED <<pending, pdeathsig, sender, receiver, stopping>>

Open ==
  /\ Alive
  /\ pc["child"] = "open"
  /\ \/ /\ pc' = [pc EXCEPT !["child"] = "read"]
        /\ UNCHANGED <<pending, pdeathsig, sender, receiver, stopping>>
     \/ "open" \in Faults /\ End("child", "failed")

ReadByte ==
  /\ Alive
  /\ number < Len(File)
  /\ Goto("child", "read", "send")
  /\ number' = number + 1 /\ i' = 0
  /\ UNCHANGED <<pending, pdeathsig, receiver, stopping>>

\* fread() returns 0 at the end of the file, and when it fails.
ReturnFromMain ==
  /\ Alive
  /\ pc["child"] = "read"
  /\ number = Len(File) \/ "read" \in Faults
  /\ End("child", "succeeded")

SendBit_LowestFirst ==
  /\ Alive
  /\ Goto("child", "send", "suspend")
  /\ Kill("parent", IF File[number][BITS - i] = 0 THEN "USR1" ELSE "USR2")
  /\ UNCHANGED <<pdeathsig, sender, receiver, stopping>>

SendBit_WithoutWaiting ==
  /\ Alive
  /\ pc["child"] = "send"
  /\ Kill("parent", IF File[number][i + 1] = 0 THEN "USR1" ELSE "USR2")
  /\ pc' = [pc EXCEPT !["child"] = IF i + 1 < BITS THEN "send" ELSE "read"]
  /\ i' = i + 1
  /\ UNCHANGED <<pdeathsig, number, receiver, stopping>>

\* bit_mask takes the highest bit first.
SendBit ==
  /\ Alive
  /\ Goto("child", "send", "suspend")
  /\ Kill("parent", IF File[number][i + 1] = 0 THEN "USR1" ELSE "USR2")
  /\ UNCHANGED <<pdeathsig, sender, receiver, stopping>>

\* A handler that returns ends sigsuspend(), and nothing else.
ChildReceiveBack ==
  /\ Alive
  /\ "USR1" \in Deliverable("child") /\ "CHLD" \notin Deliverable("child")
  /\ pending' = [pending EXCEPT !["child"] = @ \ {"USR1"}]
  /\ IF pc["child"] = "suspend"
     THEN /\ i' = i + 1
          /\ pc' = [pc EXCEPT !["child"] = IF i + 1 < BITS THEN "send" ELSE "read"]
     ELSE UNCHANGED <<i, pc>>
  /\ UNCHANGED <<pdeathsig, number, receiver, stopping>>

ParentDie ==
  /\ Alive
  /\ "CHLD" \in Deliverable("child")
  /\ End("child", "failed")

----------------------------------------------------------------------------
(* The parent                                                              *)

\* From here on SA_NOCLDSTOP holds; a SIGCHLD that is pending stays so.
InstallHandlers ==
  /\ Goto("parent", "handlers", "suspend")
  /\ UNCHANGED <<pending, pdeathsig, sender, receiver, stopping>>

\* receiveZero, receiveOne: a handler that returns ends sigsuspend(), and wait().
Receive(s, bit) ==
  /\ s \in Deliverable("parent") /\ "CHLD" \notin Deliverable("parent")
  /\ pending' = [pending EXCEPT !["parent"] = @ \ {"USR1", "USR2"}]
  /\ received_bit' = bit
  /\ pc' = [pc EXCEPT !["parent"] = IF @ = "suspend" THEN "store"
                                   ELSE IF @ = "wait" THEN "interrupted" ELSE @]
  /\ UNCHANGED <<pdeathsig, sender, finish_byte, out, stopping>>

StoreBit ==
  /\ Goto("parent", "store", "confirm")
  /\ finish_byte' = Append(finish_byte, received_bit)
  /\ UNCHANGED <<pending, pdeathsig, sender, received_bit, out, stopping>>

Confirm ==
  /\ Goto("parent", "confirm", IF Len(finish_byte) < BITS THEN "suspend" ELSE "write")
  /\ Kill("child", "USR1")
  /\ UNCHANGED <<pdeathsig, sender, receiver, stopping>>

WriteByte ==
  /\ Goto("parent", "write", "suspend")
  /\ out' = Append(out, finish_byte)
  /\ finish_byte' = <<>>
  /\ UNCHANGED <<pending, pdeathsig, sender, received_bit, stopping>>

\* The handlers of bits that came in with the SIGCHLD wait below childDie, for ever.
ChildDie ==
  /\ pc["parent"] \notin Ended \cup InChildDie
  /\ "CHLD" \in Deliverable("parent")
  /\ pc' = [pc EXCEPT !["parent"] = "child_die"]
  /\ pending' = [pending EXCEPT !["parent"] = @ \ Deliverable("parent")]
  /\ UNCHANGED <<pdeathsig, sender, receiver, stopping>>

Wait ==
  /\ Goto("parent", "child_die", "wait")
  /\ UNCHANGED <<pending, pdeathsig, sender, receiver, stopping>>

\* EINTR: CHECK ends the parent.
WaitFails ==
  /\ pc["parent"] = "interrupted"
  /\ End("parent", "failed")

\* wait() returns when the child has ended, not when it is stopped.
Reap ==
  /\ pc["parent"] = "wait"
  /\ pc["child"] \in Ended
  /\ End("parent", IF pc["child"] \in Exited THEN "succeeded" ELSE "failed")

----------------------------------------------------------------------------
(* Somebody stops the child and lets it go on                              *)

NoticeEarly == early' = (early \/ pc["parent"] = "handlers")

ReportStop_Always == Kill("parent", "CHLD") /\ NoticeEarly

\* SA_NOCLDSTOP: no SIGCHLD for that, once the handler is there.
ReportStop ==
  /\ IF pc["parent"] = "handlers" THEN Kill("parent", "CHLD") ELSE UNCHANGED pending
  /\ NoticeEarly

Stop ==
  /\ Alive
  /\ stops < MaxStops
  /\ stopped' = TRUE /\ stops' = stops + 1
  /\ ReportStop
  /\ UNCHANGED <<pc, pdeathsig, sender, receiver>>

Continue ==
  /\ stopped
  /\ stopped' = FALSE
  /\ ReportStop
  /\ UNCHANGED <<pc, pdeathsig, sender, receiver, stops>>

----------------------------------------------------------------------------
\* fork() has returned; the mask is set, the handlers are not.
Init ==
  /\ pc = [p \in Procs |-> IF p = "parent" THEN "handlers" ELSE "prctl"]
  /\ pending = [p \in Procs |-> {}]
  /\ pdeathsig = FALSE
  /\ number = 0 /\ i = 0
  /\ received_bit = 0 /\ finish_byte = <<>> /\ out = <<>>
  /\ stopped = FALSE /\ stops = 0 /\ early = FALSE

Child ==
  \/ Prctl \/ CheckParent \/ Open \/ ReadByte \/ ReturnFromMain \/ SendBit
  \/ ChildReceiveBack \/ ParentDie

Parent ==
  \/ InstallHandlers \/ Receive("USR1", 0) \/ Receive("USR2", 1)
  \/ StoreBit \/ Confirm \/ WriteByte \/ ChildDie \/ Wait \/ WaitFails \/ Reap

Next ==
  \/ Child \/ Parent
  \/ Stop \/ Continue
  \/ \E p \in Procs : Die(p)

Spec == Init /\ [][Next]_vars

\* Runnable processes are scheduled, and who stops the child lets it go on.
FairSpec == Spec /\ WF_vars(Child) /\ WF_vars(Parent) /\ WF_vars(Continue)

----------------------------------------------------------------------------
(* Properties                                                              *)

\* Type invariant.
TypeOK ==
  /\ pc \in [Procs -> Ended \cup InChildDie \cup
                {"prctl", "getppid", "open", "read", "send", "suspend",
                 "handlers", "store", "confirm", "write"}]
  /\ pending \in [Procs -> SUBSET {"USR1", "USR2", "CHLD"}]
  /\ pdeathsig \in BOOLEAN
  /\ number \in 0..Len(File) /\ i \in 0..BITS
  /\ received_bit \in {0, 1}
  /\ finish_byte \in Seq({0, 1}) /\ Len(finish_byte) <= BITS
  /\ out \in Seq(Bytes)
  /\ stopped \in BOOLEAN /\ stops \in 0..MaxStops /\ early \in BOOLEAN

\* The parent prints a prefix of the file and holds the first bits of the next
\* byte: no bit is lost, doubled or moved, whoever ends when.
OutputIsPrefix ==
  /\ Len(out) <= Len(File) /\ out = SubSeq(File, 1, Len(out))
  /\ finish_byte # <<>> =>
       /\ Len(out) < Len(File)
       /\ finish_byte = SubSeq(File[Len(out) + 1], 1, Len(finish_byte))

\* The bit that is sent and not stored: a pending signal, or received_bit.
InFlight ==
  IF "USR1" \in pending["parent"] THEN <<0>>
  ELSE IF "USR2" \in pending["parent"] THEN <<1>>
  ELSE IF pc["parent"] = "store" THEN <<received_bit>> ELSE <<>>

\* A parent that an early stop has led into childDie is of no more use.
Status(p) ==
  IF \/ pc[p] = "killed"
     \/ p = "child" /\ pc[p] = "failed"
     \/ p = "parent" /\ early /\ pc[p] \in InChildDie \cup Ended
    THEN "broken"
  ELSE IF pc[p] \in Ended \cup InChildDie THEN "finished" ELSE "up"

Channel == INSTANCE BitChannel
             WITH channel <- InFlight, status <- [p \in Procs |-> Status(p)]

\* Two kinds of signals that merge while they are pending, and one received_bit
\* for both handlers, are as good as a queue of bits (main.c:92-106, 137-151), as
\* long as no early stop breaks the parent.
ImplementsBitChannel == Channel!Spec

\* Signals do not queue, so none is sent to a process that has one of its kind
\* pending, nor a bit before the parent has stored the one before.
NothingCoalesces ==
  [][/\ SendBit => /\ pending["parent"] \cap {"USR1", "USR2"} = {}
                   /\ pc["parent"] # "store"
     /\ Confirm => "USR1" \notin pending["child"]]_vars

\* The last SIGCHLD overtakes no byte: the child may end while the parent has
\* yet to print, and the parent still prints all that the child has sent.
AllSentIsPrinted ==
  pc["parent"] = "succeeded" /\ pc["child"] = "succeeded" => Len(out) = number

\* childDie waits for a living child, which waits for a confirmation.
EachWaits ==
  /\ pc["parent"] = "wait" /\ Deliverable("parent") = {}
  /\ pc["child"] = "suspend" /\ Deliverable("child") = {}

\* Neither is left behind: whoever is killed or stopped, and even when the
\* parent ends before the child has called prctl(), both end, unless an early
\* stop makes each wait for the other.
BothEnd == <>((\A p \in Procs : pc[p] \in Ended) \/ (early /\ EachWaits))

Disturbed ==
  \/ \E p \in Procs : pc[p] = "killed"
  \/ pc["child"] = "failed"
  \/ pc["child"] = "succeeded" /\ number < Len(File)

\* Unless somebody is killed or a call fails the whole file is printed, however
\* often the child is stopped once SA_NOCLDSTOP is set: no signal is lost between
\* a kill() and the sigsuspend() that waits for it.
FileArrives == <>(out = File \/ Disturbed \/ early)

\* What SA_NOCLDSTOP is for (main.c:116 "Need to ignore SIGSTOP, SIGCONT and other
\* by SIGCHLD"): the whole file is printed whenever and however often the child
\* is stopped, if nobody is killed and no call of the child's fails.
StopsAreIgnored == <>(out = File \/ Disturbed)

\* What the exit status is for ("Child with text die!" and EXIT_FAILURE at
\* main.c:179): the parent reports success only when it has printed the file.
SuccessMeansPrinted == pc["parent"] = "succeeded" => out = File
=============================================================================
