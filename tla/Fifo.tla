-------------------------------- MODULE Fifo --------------------------------
(***************************************************************************)
(* sem3/homework/task_1: writers send their files to readers through named *)
(* pipes.  A reader writes the name of a fifo of its own into the common   *)
(* fifo; the writer that takes the name opens that fifo and writes its     *)
(* file to it.  Both ends of a reader's fifo are O_NONBLOCK, and the calls *)
(* of fcntl() that should change it do not: F_DUPFD and F_GETFD.  So a     *)
(* read() of an empty fifo returns 0 as long as it has no writer and fails *)
(* otherwise, and a write() to a full one fails.                           *)
(***************************************************************************)
EXTENDS Naturals, Sequences

CONSTANTS
  Reader, Writer, \* the processes of the two programs
  NoReader,
  Blocks,         \* the length of each writer's file in buffers
  Capacity,       \* of a fifo, in buffers
  Attempts,       \* NUMBERS_OF_ATTEMPTS
  Mortal,         \* the processes that may be killed
  Faults          \* calls that may fail: "mkfifo", "fcntl", "file"

ASSUME ProcessAssumption ==
  /\ Reader \cap Writer = {} /\ NoReader \notin Reader
  /\ Mortal \subseteq Reader \cup Writer

ASSUME NumberAssumption ==
  /\ Blocks \in [Writer -> Nat]
  /\ Capacity \in Nat \ {0} /\ Attempts \in Nat \ {0}

VARIABLES
  pc,        \* where each process is, or how it ended
  common,    \* the names in the common fifo
  fifo,      \* fifo[r]: the buffers in the fifo of r
  out,       \* what each reader has printed
  attempt,   \* the loop counter of waitResponse
  partner,   \* the name that a writer has read
  position   \* the buffers that a writer has read from its file

readers == <<out, attempt>>
writers == <<partner, position>>
vars == <<pc, common, fifo, readers, writers>>

Process == Reader \cup Writer
Ended == {"succeeded", "failed", "killed", "unconnected"}
Buffer == Writer \X Nat

Init ==
  /\ pc = [p \in Process |-> "off"]
  /\ common = <<>>
  /\ fifo = [r \in Reader |-> <<>>]
  /\ out = [r \in Reader |-> <<>>]
  /\ attempt = [r \in Reader |-> 0]
  /\ partner = [w \in Writer |-> NoReader]
  /\ position = [w \in Writer |-> 0]

\* Who has the common fifo open, or waits in open() for the other side.
Active(p) == pc[p] \notin Ended \cup {"off"}

Others(p) == IF p \in Reader THEN Writer ELSE Reader

\* The reader has its fifo open for reading.
Listens(r) == r \in Reader /\ pc[r] \in {"naming", "waiting", "reading"}

\* A writer has r's fifo open.
Connected(r) == \E w \in Writer : partner[w] = r /\ pc[w] \in {"reading", "writing"}

Goto(p, from, to) == pc[p] = from /\ pc' = [pc EXCEPT ![p] = to]

\* What is in a fifo is lost when nobody has it open any more.
End(p, state) ==
  /\ pc' = [pc EXCEPT ![p] = state]
  /\ common' = IF \E q \in Process \ {p} : Active(q) THEN common ELSE <<>>

Die(p) ==
  /\ p \in Mortal /\ Active(p)
  /\ End(p, "killed")
  /\ UNCHANGED <<fifo, readers, writers>>

\* createFifo fails.
CreateFifoFails(p) ==
  /\ "mkfifo" \in Faults
  /\ (pc[p] = "off" \/ (p \in Reader /\ pc[p] = "opened"))
  /\ End(p, "failed")
  /\ UNCHANGED <<fifo, readers, writers>>

\* open() of the common fifo waits for the other side, and wakes it.
OpenCommon(p) ==
  /\ pc[p] = "off"
  /\ pc' = IF \E q \in Others(p) : Active(q)
           THEN [q \in Process |->
                   IF q = p \/ (q \in Others(p) /\ pc[q] = "opening") THEN "opened" ELSE pc[q]]
           ELSE [pc EXCEPT ![p] = "opening"]
  /\ UNCHANGED <<common, fifo, readers, writers>>

----------------------------------------------------------------------------
(* Readers                                                                 *)

\* Names with an underscore are slips a programmer could have made at the
\* definition that follows them; no action uses them.
OpenFifo_AfterName(r) ==
  /\ \/ pc[r] = "opened" /\ common' = Append(common, r) /\ UNCHANGED pc
     \/ Goto(r, "opened", "naming") /\ UNCHANGED common
  /\ UNCHANGED <<fifo, readers, writers>>

OpenFifo(r) ==
  /\ Goto(r, "opened", "naming")
  /\ UNCHANGED <<common, fifo, readers, writers>>

\* The fifteen bytes of the name are written together.
WriteName(r) ==
  /\ \E w \in Writer : Active(w)
  /\ Goto(r, "naming", "waiting")
  /\ common' = Append(common, r)
  /\ UNCHANGED <<fifo, readers, writers>>

\* SIGPIPE
WriteNameKills(r) ==
  /\ pc[r] = "naming" /\ ~\E w \in Writer : Active(w)
  /\ End(r, "killed")
  /\ UNCHANGED <<fifo, readers, writers>>

PrintBuffer(r) ==
  /\ fifo[r] # <<>>
  /\ out' = [out EXCEPT ![r] = Append(@, Head(fifo[r]))]
  /\ fifo' = [fifo EXCEPT ![r] = Tail(@)]

WaitResponse(r) ==
  /\ attempt[r] < Attempts /\ Goto(r, "waiting", "reading")
  /\ PrintBuffer(r)
  /\ UNCHANGED <<common, attempt, writers>>

\* fcntl (fd, O_RDONLY) is F_DUPFD with an argument that nobody has set.
FcntlFails(r) ==
  /\ "fcntl" \in Faults
  /\ pc[r] = "waiting" /\ attempt[r] < Attempts
  /\ PrintBuffer(r)
  /\ End(r, "failed")
  /\ UNCHANGED <<attempt, writers>>

NextAttempt_Forever(r) ==
  /\ pc[r] = "waiting" /\ fifo[r] = <<>> /\ ~Connected(r)
  /\ UNCHANGED vars

\* Nobody has the fifo open for writing; sleep (1).
NextAttempt(r) ==
  /\ pc[r] = "waiting" /\ fifo[r] = <<>> /\ ~Connected(r)
  /\ attempt[r] < Attempts
  /\ attempt' = [attempt EXCEPT ![r] = @ + 1]
  /\ UNCHANGED <<pc, common, fifo, out, writers>>

\* "Can't connect to writer!"
GiveUp(r) ==
  /\ pc[r] = "waiting" /\ attempt[r] = Attempts
  /\ End(r, "unconnected")
  /\ UNCHANGED <<fifo, readers, writers>>

ReadFifo(r) ==
  /\ pc[r] = "reading"
  /\ PrintBuffer(r)
  /\ UNCHANGED <<pc, common, attempt, writers>>

\* EAGAIN: the writer is slower.
ReadAgain(r) ==
  /\ pc[r] \in {"waiting", "reading"}
  /\ fifo[r] = <<>> /\ Connected(r)
  /\ pc[r] = "waiting" => attempt[r] < Attempts
  /\ End(r, "failed")
  /\ UNCHANGED <<fifo, readers, writers>>

ReadEnd(r) ==
  /\ pc[r] = "reading" /\ fifo[r] = <<>> /\ ~Connected(r)
  /\ End(r, "succeeded")
  /\ UNCHANGED <<fifo, readers, writers>>

ReaderStep(r) ==
  \/ OpenFifo(r) \/ WriteName(r) \/ WriteNameKills(r)
  \/ WaitResponse(r) \/ FcntlFails(r) \/ NextAttempt(r) \/ GiveUp(r)
  \/ ReadFifo(r) \/ ReadAgain(r) \/ ReadEnd(r)

----------------------------------------------------------------------------
(* Writers                                                                 *)

ReadName_Left(w) ==
  /\ common # <<>> /\ Goto(w, "opened", "named")
  /\ partner' = [partner EXCEPT ![w] = Head(common)]
  /\ UNCHANGED <<common, fifo, readers, position>>

\* read() waits for a name as long as a reader has the common fifo open.
ReadName(w) ==
  /\ common # <<>> /\ Goto(w, "opened", "named")
  /\ partner' = [partner EXCEPT ![w] = Head(common)]
  /\ common' = Tail(common)
  /\ UNCHANGED <<fifo, readers, position>>

ReadNameFails(w) ==
  /\ common = <<>> /\ pc[w] = "opened"
  /\ ~\E r \in Reader : Active(r)
  /\ End(w, "failed")
  /\ UNCHANGED <<fifo, readers, writers>>

ConnectFifo(w) ==
  /\ Listens(partner[w]) /\ Goto(w, "named", "reading")
  /\ UNCHANGED <<common, fifo, readers, writers>>

\* ENXIO: the reader has ended.
ConnectFifoFails(w) ==
  /\ pc[w] = "named" /\ ~Listens(partner[w])
  /\ End(w, "failed")
  /\ UNCHANGED <<fifo, readers, writers>>

ReadFile(w) ==
  /\ position[w] < Blocks[w] /\ Goto(w, "reading", "writing")
  /\ position' = [position EXCEPT ![w] = @ + 1]
  /\ UNCHANGED <<common, fifo, readers, partner>>

\* At the end of the file a write() of 0 bytes does nothing.
ReadFileEnd(w) ==
  /\ pc[w] = "reading" /\ position[w] = Blocks[w]
  /\ End(w, "succeeded")
  /\ UNCHANGED <<fifo, readers, writers>>

\* open() of the text file is not checked, but read() fails then.
ReadFileFails(w) ==
  /\ "file" \in Faults /\ pc[w] = "reading"
  /\ End(w, "failed")
  /\ UNCHANGED <<fifo, readers, writers>>

WriteFifo_FullIsWritten(w) ==
  /\ Listens(partner[w]) /\ Goto(w, "writing", "reading")
  /\ fifo' = [fifo EXCEPT ![partner[w]] =
                IF Len(@) < Capacity THEN Append(@, <<w, position[w]>>) ELSE @]
  /\ UNCHANGED <<common, readers, writers>>

WriteFifo(w) ==
  /\ Listens(partner[w]) /\ Len(fifo[partner[w]]) < Capacity
  /\ Goto(w, "writing", "reading")
  /\ fifo' = [fifo EXCEPT ![partner[w]] = Append(@, <<w, position[w]>>)]
  /\ UNCHANGED <<common, readers, writers>>

\* EAGAIN: the reader is slower.
WriteFifoFails(w) ==
  /\ pc[w] = "writing"
  /\ Listens(partner[w]) /\ Len(fifo[partner[w]]) = Capacity
  /\ End(w, "failed")
  /\ UNCHANGED <<fifo, readers, writers>>

\* SIGPIPE comes before EPIPE could be looked at.
WriteFifoKills(w) ==
  /\ pc[w] = "writing" /\ ~Listens(partner[w])
  /\ End(w, "killed")
  /\ UNCHANGED <<fifo, readers, writers>>

WriterStep(w) ==
  \/ ReadName(w) \/ ReadNameFails(w) \/ ConnectFifo(w) \/ ConnectFifoFails(w)
  \/ ReadFile(w) \/ ReadFileEnd(w) \/ ReadFileFails(w)
  \/ WriteFifo(w) \/ WriteFifoFails(w) \/ WriteFifoKills(w)

Next ==
  \/ \E p \in Process : OpenCommon(p) \/ CreateFifoFails(p) \/ Die(p)
  \/ \E r \in Reader : ReaderStep(r)
  \/ \E w \in Writer : WriterStep(w)

Spec ==
  /\ Init /\ [][Next]_vars
  /\ \A r \in Reader : WF_vars(ReaderStep(r))
  /\ \A w \in Writer : WF_vars(WriterStep(w))

----------------------------------------------------------------------------
(* Properties                                                              *)

\* Every variable keeps to its set.
TypeOK ==
  /\ pc \in [Process -> {"off", "opening", "opened", "naming", "waiting", "named",
                         "reading", "writing"} \cup Ended]
  /\ common \in Seq(Reader)
  /\ fifo \in [Reader -> Seq(Buffer)] /\ out \in [Reader -> Seq(Buffer)]
  /\ attempt \in [Reader -> 0..Attempts]
  /\ partner \in [Writer -> Reader \cup {NoReader}]
  /\ position \in [Writer -> Nat]

\* The n buffers with which w's file begins.
FilePrefix(w, n) == [k \in 1..n |-> <<w, k>>]

\* A reader prints the beginning of one writer's file: no two writers get the
\* same name, and nothing is lost, doubled or mixed on the way.
OutputIsPrefix ==
  \A r \in Reader :
    \/ out[r] = <<>>
    \/ \E w \in Writer : partner[w] = r /\ out[r] = FilePrefix(w, Len(out[r]))

\* What the reader of each writer has got from it, in its fifo or printed.
Delivered(w) ==
  IF partner[w] \in Reader THEN Len(out[partner[w]]) + Len(fifo[partner[w]]) ELSE 0

Status(p) ==
  IF pc[p] \notin Ended THEN "running" ELSE IF pc[p] = "succeeded" THEN "succeeded" ELSE "failed"

Abs == INSTANCE PipeTransfer
         WITH sent <- [w \in Writer |-> Delivered(w)], status <- [p \in Process |-> Status(p)]

\* The names in the common fifo, the fifos of the readers and their ends that do
\* not block pass on what is sent, and both programs mean by success what the
\* abstract specification says.
ImplementsPipeTransfer == Abs!Spec

\* When both end with success the reader has printed the whole file; neither
\* success alone says so, for a writer may fail when the fifo is full, and a
\* reader when it is empty.
BothMeansWhole ==
  \A w \in Writer :
    (partner[w] \in Reader /\ pc[w] = "succeeded" /\ pc[partner[w]] = "succeeded")
      => out[partner[w]] = FilePrefix(w, Blocks[w])

\* A reader opens its fifo before it gives away the name: a writer finds it open
\* unless the reader has ended.
NameMeansListening ==
  \A r \in Reader :
    ((\E k \in 1..Len(common) : common[k] = r) \/ (\E w \in Writer : partner[w] = r))
      => (Listens(r) \/ pc[r] \in Ended)

\* Whoever has got past the common fifo ends, whatever the others do.
OpenedEnds ==
  \A p \in Process : pc[p] = "opened" ~> pc[p] \in Ended
=============================================================================
