-------------------------------- MODULE Pump --------------------------------
(***************************************************************************)
(* sem3/homework/task_5: a parent pumps a file through a row of children.  *)
(* Child 0 splices the file into a pipe, child i splices the pipe from the *)
(* parent into a pipe to the parent, and the parent moves the bytes from   *)
(* child i to child i + 1, from the last one to stdout, through a ring     *)
(* buffer for each, waiting in select().  A child may die at any moment.   *)
(*                                                                         *)
(* Fork by fork the parent starts the children.  A child inherits the      *)
(* parent's ends of the pipes of those before it; as long as it has not    *)
(* closed them they see no end of their input, whatever the parent does.   *)
(*                                                                         *)
(* The parent goes round: select(), then for every connection in turn the  *)
(* read, the write and the test for its end; the children run meanwhile.   *)
(* A step of the parent sees the descriptors that select() had found ready.*)
(***************************************************************************)
EXTENDS Connection

CONSTANTS
  num_children,
  SizeBuffer,   \* SizeBuffer[i]: getSizeBuffer (i, num_children)
  Length,       \* of the file
  PipeSize,     \* what a pipe holds
  Block,        \* SIZE_DATA_BLOCK
  Mortal        \* children that may be killed or hit a fatal error

ASSUME ChildrenAssumption == num_children \in Nat \ {0}

Children == 0..(num_children - 1)

Final == num_children - 1

ASSUME SizeAssumption ==
  /\ SizeBuffer \in [Children -> Nat \ {0}]
  /\ Length \in Nat /\ PipeSize \in Nat \ {0} /\ Block \in Nat \ {0}
  /\ Mortal \subseteq Children

\* A byte is its position in the file; 0 is what calloc() fills a buffer with.
ASSUME ByteAssumption == Byte = 0..Length

File == [k \in 1..Length |-> k]

VARIABLES
  child,              \* child[i]: "none", "running", "finished" or "dead"
  closed,             \* closed[i]: how many of those before it child i has cut off
  input,              \* input[i]: what child i can read, input[0] from the file
  output,             \* output[i]: the pipe from child i to the parent
  connectors,
  fd_in,              \* fd_in[i]: connection i has not seen the end of its input
  index_of_finished,
  pc,                 \* where the parent is, or how it ended
  i,                  \* the connection it is looking at
  readfds, writefds,  \* the connections whose fd_in, fd_out select() found ready
  stdout,
  passed              \* history: passed[i] bytes have left connection i

pipes == <<input, output>>
fds == <<readfds, writefds>>
vars == <<child, closed, pipes, connectors, fd_in, index_of_finished, pc, i, fds,
          stdout, passed>>

Smaller(m, n) == IF m < n THEN m ELSE n

Starting == {"fork", "create"}
Running == Starting \cup {"select", "read", "write", "check"}

Ended(c) == child[c] \in {"finished", "dead"}

----------------------------------------------------------------------------
(* main                                                                    *)

\* The two pipes and the process of child i.
Fork ==
  /\ pc = "fork"
  /\ child' = [child EXCEPT ![i] = "running"]
  /\ IF i < Final THEN i' = i + 1 /\ UNCHANGED pc ELSE i' = 0 /\ pc' = "create"
  /\ UNCHANGED <<closed, pipes, connectors, fd_in, index_of_finished, fds, stdout,
                 passed>>

Fresh == [c \in Children |-> Empty(SizeBuffer[c], 0)]

\* createConnections, and the locals of mainJobAsServer.
CreateConnections ==
  /\ pc = "create" /\ pc' = "select"
  /\ connectors' = Fresh
  /\ fd_in' = [c \in Children |-> TRUE]
  /\ index_of_finished' = 0
  /\ UNCHANGED <<child, closed, pipes, i, fds, stdout, passed>>

\* CHECK (-1) of pipe(), fork(), fcntl() or close(), or calloc() returns NULL.
StartFails ==
  /\ pc \in Starting /\ pc' = "unstarted"
  /\ UNCHANGED <<child, closed, pipes, connectors, fd_in, index_of_finished, i, fds,
                 stdout, passed>>

----------------------------------------------------------------------------
(* A child's loop                                                          *)

\* The ends of the pipe of one more child before it.
CloseInherited(c) ==
  /\ child[c] = "running" /\ closed[c] < c /\ pc \in Running
  /\ closed' = [closed EXCEPT ![c] = @ + 1]
  /\ UNCHANGED <<child, pipes, connectors, fd_in, index_of_finished, pc, i, fds,
                 stdout, passed>>

\* Names with an underscore are slips a programmer could have made at the
\* definition that follows them; no action uses them.
InputClosed_Inherited(c) ==
  c = 0 \/ (c - 1 < index_of_finished /\ \A d \in Children : d > c => Ended(d))

\* The parent closes a child's input when the connection before has finished;
\* the children after it have inherited it.
InputClosed(c) ==
  \/ c = 0
  \/ /\ c - 1 < index_of_finished
     /\ \A d \in Children : d > c => closed[d] > c \/ Ended(d)

Splice(c) ==
  /\ child[c] = "running" /\ closed[c] = c /\ pc \in Running
  /\ \E n \in 1..Smaller(Block,
                          Smaller(Len(input[c]), PipeSize - Len(output[c]))) :
       /\ input'  = [input EXCEPT ![c] = SubSeq(@, n + 1, Len(@))]
       /\ output' = [output EXCEPT ![c] = @ \o SubSeq(input[c], 1, n)]
  /\ UNCHANGED <<child, closed, connectors, fd_in, index_of_finished, pc, i, fds,
                 stdout, passed>>

\* splice() returns 0.
Finish(c) ==
  /\ child[c] = "running" /\ closed[c] = c /\ pc \in Running
  /\ input[c] = <<>> /\ InputClosed(c)
  /\ child' = [child EXCEPT ![c] = "finished"]
  /\ UNCHANGED <<closed, pipes, connectors, fd_in, index_of_finished, pc, i, fds,
                 stdout, passed>>

\* A signal, or CHECK (-1), or child 0 cannot open the file.
Die(c) ==
  /\ c \in Mortal /\ child[c] = "running" /\ pc \in Running
  /\ child' = [child EXCEPT ![c] = "dead"]
  /\ UNCHANGED <<closed, pipes, connectors, fd_in, index_of_finished, pc, i, fds,
                 stdout, passed>>

----------------------------------------------------------------------------
(* mainJobAsServer                                                         *)

Remaining == index_of_finished..Final

\* A pipe whose other end is closed is ready, too.
Readable(c) == output[c] # <<>> \/ Ended(c)

Writable(c) ==
  c = Final \/ Len(input[c + 1]) < PipeSize \/ Ended(c + 1)

Select ==
  /\ pc = "select"
  /\ readfds'  = {c \in Remaining :
                    /\ connectors[c].count < connectors[c].size_buffer
                    /\ fd_in[c] /\ Readable(c)}
  /\ writefds' = {c \in Remaining : connectors[c].count # 0 /\ Writable(c)}
  /\ readfds' \cup writefds' # {}
  /\ pc' = "read" /\ i' = index_of_finished
  /\ UNCHANGED <<child, closed, pipes, connectors, fd_in, index_of_finished, stdout,
                 passed>>

\* readToBuffer: read() returns 0 at the end of the input; it may return less
\* than it was asked for; without data, and no end, it fails with EAGAIN.
ReadToBuffer ==
  /\ pc = "read"
  /\ IF i \notin readfds
     THEN pc' = "write" /\ UNCHANGED <<output, connectors, fd_in>>
     ELSE LET most == Smaller(ReadSpan(connectors[i]), Len(output[i])) IN
       IF most > 0
       THEN \E n \in 1..most :
              /\ connectors' = [connectors EXCEPT ![i] =
                                  AfterRead(@, SubSeq(output[i], 1, n))]
              /\ output' = [output EXCEPT ![i] = SubSeq(@, n + 1, Len(@))]
              /\ pc' = "write"
              /\ UNCHANGED fd_in
       ELSE /\ IF Len(output[i]) = 0 /\ ~ Ended(i)
               THEN pc' = "failed" /\ UNCHANGED fd_in
               ELSE pc' = "write" /\ fd_in' = [fd_in EXCEPT ![i] = FALSE]
            /\ UNCHANGED <<output, connectors>>
  /\ UNCHANGED <<child, closed, input, index_of_finished, i, fds, stdout, passed>>

\* writeFromBuffer: write() may take less than it was offered, or nothing
\* (EAGAIN); writing to a dead child's pipe kills the parent (SIGPIPE).
WriteFromBuffer ==
  /\ pc = "write"
  /\ IF i \notin writefds
     THEN pc' = "check" /\ UNCHANGED <<input, connectors, stdout, passed>>
     ELSE IF i # Final /\ Ended(i + 1)
     THEN pc' = "killed" /\ UNCHANGED <<input, connectors, stdout, passed>>
     ELSE LET c == connectors[i]
              most == IF i = Final THEN WriteSpan(c)
                      ELSE Smaller(WriteSpan(c), PipeSize - Len(input[i + 1])) IN
       \E n \in (IF most > 0 THEN 1..most ELSE {0}) :
         /\ connectors' = [connectors EXCEPT ![i] = AfterWrite(@, n)]
         /\ passed' = [passed EXCEPT ![i] = @ + n]
         /\ IF i = Final
            THEN /\ stdout' = stdout \o SubSeq(Offered(c), 1, n)
                 /\ UNCHANGED input
            ELSE /\ input' = [input EXCEPT ![i + 1] = @ \o SubSeq(Offered(c), 1, n)]
                 /\ UNCHANGED stdout
         /\ pc' = "check"
  /\ UNCHANGED <<child, closed, output, fd_in, index_of_finished, i, fds>>

\* A connection is done when its input has ended and its buffer is empty; the
\* connections must finish in turn ("Child died while work!").
CheckFinished ==
  /\ pc = "check"
  /\ LET done == ~ fd_in[i] /\ connectors[i].count = 0 IN
       /\ index_of_finished' = IF done /\ i = index_of_finished
                               THEN index_of_finished + 1 ELSE index_of_finished
       /\ pc' = IF done /\ i # index_of_finished THEN "failed"
                ELSE IF i < Final THEN "read"
                ELSE IF index_of_finished' = num_children THEN "succeeded"
                ELSE "select"
  /\ i' = IF i < Final THEN i + 1 ELSE i
  /\ UNCHANGED <<child, closed, pipes, connectors, fd_in, fds, stdout, passed>>

----------------------------------------------------------------------------
Init ==
  /\ child = [c \in Children |-> "none"] /\ closed = [c \in Children |-> 0]
  /\ input = [c \in Children |-> IF c = 0 THEN File ELSE <<>>]
  /\ output = [c \in Children |-> <<>>]
  /\ connectors = Fresh
  /\ fd_in = [c \in Children |-> TRUE]
  /\ index_of_finished = 0
  /\ pc = "fork" /\ i = 0
  /\ readfds = {} /\ writefds = {}
  /\ stdout = <<>>
  /\ passed = [c \in Children |-> 0]

ChildStep(c) == CloseInherited(c) \/ Splice(c) \/ Finish(c)

Parent ==
  \/ Fork \/ CreateConnections
  \/ Select \/ ReadToBuffer \/ WriteFromBuffer \/ CheckFinished

Next ==
  \/ \E c \in Children : ChildStep(c) \/ Die(c)
  \/ Parent \/ StartFails

Spec == Init /\ [][Next]_vars

\* Runnable processes are scheduled; nothing obliges a child to die.
FairSpec == Spec /\ WF_vars(Parent) /\ \A c \in Children : WF_vars(ChildStep(c))

----------------------------------------------------------------------------
(* Properties                                                              *)

\* Type invariant.
TypeOK ==
  /\ child \in [Children -> {"none", "running", "finished", "dead"}]
  /\ closed \in [Children -> Nat]
  /\ input \in [Children -> Seq(Byte)] /\ output \in [Children -> Seq(Byte)]
  /\ DOMAIN connectors = Children
  /\ \A c \in Children : connectors[c] \in Connection(SizeBuffer[c])
  /\ fd_in \in [Children -> BOOLEAN]
  /\ index_of_finished \in 0..num_children
  /\ pc \in Running \cup {"succeeded", "failed", "killed", "unstarted"}
  /\ i \in Children
  /\ readfds \subseteq Children /\ writefds \subseteq Children
  /\ stdout \in Seq(Byte)
  /\ passed \in [Children -> Nat]

\* The parent prints a prefix of the file, whoever dies: nothing is lost,
\* doubled or reordered in front of a byte that arrives.
OutputIsPrefix == Len(stdout) <= Length /\ stdout = SubSeq(File, 1, Len(stdout))

NobodyDied == \A c \in Children : child[c] # "dead"

\* When no child dies the parent reports nothing ("Child died while work!" is
\* no false alarm), no read meets EAGAIN, no write meets SIGPIPE, and the end
\* means that the whole file was printed.
CleanRun ==
  NobodyDied =>
    /\ pc \notin {"failed", "killed"}
    /\ pc = "succeeded" => stdout = File

\* The parent ends, whoever dies and however full the pipes and the buffers
\* are: nobody waits for anybody for ever, least of all for an end that another
\* child has inherited.
ParentEnds == <>(pc \notin Running)

\* What src.c:92 ("Child died while work!") is for: the parent does not end as
\* if all was well when the death of a child has cost a part of the file.
DeathIsNoticed == pc = "succeeded" => stdout = File

\* The promise (ByteQueues) that the ring buffers implement.
Queues == INSTANCE ByteQueues WITH
            Connections <- Children,
            Size        <- SizeBuffer,
            queue       <- [c \in Children |-> Content(connectors[c])]

ImplementsByteQueues == Queues!Spec

----------------------------------------------------------------------------
(* The inductive invariant                                                 *)

\* head, tail and count of every ring buffer agree.
RingsSound == \A c \in Children : Sound(connectors[c])

\* Connections whose read or write is still to come in this round.
ToRead(c) ==
  \/ pc = "read" /\ i <= c
  \/ pc \in {"write", "check"} /\ i < c

ToWrite(c) ==
  \/ pc \in {"read", "write"} /\ i <= c
  \/ pc = "check" /\ i < c

\* What select() found out is still true when the parent relies on it.
ReadyStaysReady ==
  /\ \A c \in readfds : ToRead(c) =>
       connectors[c].count < SizeBuffer[c] /\ fd_in[c] /\ Readable(c)
  /\ \A c \in writefds : ToWrite(c) => connectors[c].count # 0
  /\ pc \in {"read", "write", "check"} => index_of_finished <= i

\* The bytes of a pipe or a buffer are consecutive bytes of the file.
Consecutive(bytes, from) == \A k \in 1..Len(bytes) : bytes[k] = from + k

\* Where in the file a connection's buffer and the pipes before it begin, and
\* where the last of them ends.
InOutput(c) == passed[c] + connectors[c].count
InInput(c)  == InOutput(c) + Len(output[c])
InNext(c)   == InInput(c) + Len(input[c])

\* Buffers and pipes follow each other without a gap, from stdout back to what
\* child 0 has not yet read.
Stream ==
  /\ \A c \in Children :
       /\ Consecutive(Content(connectors[c]), passed[c])
       /\ Consecutive(output[c], InOutput(c))
       /\ Consecutive(input[c], InInput(c))
       /\ InNext(c) = IF c = 0 THEN Length ELSE passed[c - 1]
       /\ passed[c] <= Length
  /\ Consecutive(stdout, 0) /\ Len(stdout) = passed[Final]

\* Ends travel down the row: a child finishes after the connection before it,
\* a connection sees an end after the child before it, with nothing left.
EndsTravel ==
  /\ \A c \in Children :
       /\ child[c] = "finished" => input[c] = <<>> /\ InputClosed(c)
       /\ ~ fd_in[c] => output[c] = <<>> /\ Ended(c)
       /\ c < index_of_finished => ~ fd_in[c] /\ connectors[c].count = 0
  /\ pc = "succeeded" => index_of_finished = num_children
  /\ pc = "select" => index_of_finished < num_children

\* Until a child dies the parent goes on, and the whole file has gone through
\* the connections that have finished.
WhileAllLive ==
  NobodyDied =>
    /\ pc \notin {"failed", "killed"}
    /\ \A c \in Children : c < index_of_finished => passed[c] = Length

\* createConnections begins with nothing read.
NothingRead ==
  pc \in Starting =>
    index_of_finished = 0 /\ connectors = Fresh /\ \A c \in Children : fd_in[c]

IInv ==
  /\ TypeOK /\ RingsSound /\ ReadyStaysReady /\ Stream /\ EndsTravel
  /\ WhileAllLive /\ NothingRead
=============================================================================
