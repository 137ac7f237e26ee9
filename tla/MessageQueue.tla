---------------------------- MODULE MessageQueue ----------------------------
(***************************************************************************)
(* sem3/homework/task_2/children.c: a parent and its N children pass a     *)
(* number through a System V message queue.  The parent sends 0; a child   *)
(* that receives a number prints it and sends the next, or removes the     *)
(* queue if the number is N; the parent takes one message and ends.        *)
(*                                                                         *)
(* The queue belongs to the system: it outlives the program, so messages   *)
(* and children may be left over when the program is started again.  A     *)
(* shell starts it again when the parent has ended, whatever became of the *)
(* children.  A process that waits in msgrcv() is served in its turn.      *)
(***************************************************************************)
EXTENDS Naturals, FiniteSets, Sequences

CONSTANTS
  MaxN,        \* bound on the argument N
  MaxRuns,     \* how often the program may be started
  ForkMayFail  \* fork() may fail

ASSUME BoundAssumption ==
  MaxN \in Nat /\ MaxRuns \in Nat \ {0} /\ ForkMayFail \in BOOLEAN

Run == 1..MaxRuns
Process == Run \X (0..MaxN)
Parent(r) == <<r, 0>>

VARIABLES
  runs,        \* how often the program has been started
  N,           \* the argument of each run
  i,           \* the loop counter of the last run's parent
  pc,          \* where each process is
  fd,          \* the queue that it has got
  number,      \* pack.number
  queue,       \* the queue that msgget() finds; those before have been removed
  msgs,        \* the numbers in it
  waiting,     \* who waits in msgrcv(), first come first
  out,         \* history: what the children have printed
  early,       \* history: who was in msgrcv(), or past it, before the parent
  interrupted  \* history: a run was interrupted

kernel == <<queue, msgs, waiting>>
history == <<out, early, interrupted>>
vars == <<runs, N, i, pc, fd, number, kernel, history>>

Ended == {"done", "failed", "killed"}

Init ==
  /\ runs = 0 /\ N = [r \in Run |-> 0] /\ i = 0
  /\ pc = [p \in Process |-> "none"]
  /\ fd = [p \in Process |-> 0] /\ number = [p \in Process |-> 0]
  /\ queue = 1 /\ msgs = <<>> /\ waiting = <<>>
  /\ out = <<>> /\ early = [r \in Run |-> {}] /\ interrupted = FALSE

\* fork() returned 0; without a child to fork, ret keeps its first value 0.
IsChild(p) == p[2] > 0 \/ N[p[1]] = 0

Processes(r) == {p \in Process : p[1] = r}

----------------------------------------------------------------------------
(* Start and end of a run                                                  *)

\* msgget() makes the queue or finds the one that is there.
Start ==
  /\ runs < MaxRuns
  /\ runs > 0 => pc[Parent(runs)] \in Ended
  /\ runs' = runs + 1 /\ i' = 0
  /\ \E n \in 0..MaxN :
       /\ N' = [N EXCEPT ![runs'] = n]
       /\ pc' = [pc EXCEPT ![Parent(runs')] = IF n = 0 THEN "receive" ELSE "fork"]
  /\ fd' = [fd EXCEPT ![Parent(runs')] = queue]
  /\ UNCHANGED <<number, kernel, history>>

\* What follows the loop once the last child is forked.
AfterFork(p) == IF i + 1 = N[p[1]] THEN "send" ELSE "fork"

Fork ==
  LET p == Parent(runs)
      child == <<runs, i + 1>>
  IN  /\ runs > 0 /\ pc[p] = "fork"
      /\ i' = i + 1
      /\ pc' = [pc EXCEPT ![p] = AfterFork(p), ![child] = "receive"]
      /\ fd' = [fd EXCEPT ![child] = fd[p]]
      /\ UNCHANGED <<runs, N, number, kernel, history>>

\* The result -1 is taken for a child's pid.
ForkFails ==
  LET p == Parent(runs)
  IN  /\ ForkMayFail /\ runs > 0 /\ pc[p] = "fork"
      /\ i' = i + 1
      /\ pc' = [pc EXCEPT ![p] = AfterFork(p)]
      /\ UNCHANGED <<runs, N, fd, number, kernel, history>>

\* Ctrl-C reaches the processes of the run as long as its parent is there.
Interrupt ==
  /\ runs > 0 /\ pc[Parent(runs)] \notin Ended
  /\ pc' = [p \in Process |->
              IF p[1] = runs /\ pc[p] \notin Ended \cup {"none"} THEN "killed" ELSE pc[p]]
  /\ waiting' = SelectSeq(waiting, LAMBDA p : p[1] # runs)
  /\ interrupted' = TRUE
  /\ UNCHANGED <<runs, N, i, fd, number, queue, msgs, out, early>>

----------------------------------------------------------------------------
(* receiveMsg and sendMsg                                                  *)

IsEarly(p) ==
  early' = IF p = Parent(p[1])
           THEN [early EXCEPT ![p[1]] = {c \in Processes(p[1]) : pc[c] \notin {"none", "receive"}}]
           ELSE early

\* msgrcv() finds a message, whatever its type.
ReceiveMsg(p) ==
  /\ pc[p] = "receive" /\ fd[p] = queue /\ msgs # <<>>
  /\ pc' = [pc EXCEPT ![p] = "got"]
  /\ number' = [number EXCEPT ![p] = Head(msgs)]
  /\ msgs' = Tail(msgs)
  /\ IsEarly(p)
  /\ UNCHANGED <<runs, N, i, fd, queue, waiting, out, interrupted>>

\* msgrcv() goes to sleep.
ReceiveMsgWaits(p) ==
  /\ pc[p] = "receive" /\ fd[p] = queue /\ msgs = <<>>
  /\ pc' = [pc EXCEPT ![p] = "waiting"]
  /\ waiting' = Append(waiting, p)
  /\ IsEarly(p)
  /\ UNCHANGED <<runs, N, i, fd, number, queue, msgs, out, interrupted>>

\* EIDRM or EINVAL: the queue has been removed.
MsgFails(p) ==
  /\ pc[p] \in {"receive", "send", "remove"} /\ fd[p] # queue
  /\ pc' = [pc EXCEPT ![p] = "failed"]
  /\ UNCHANGED <<runs, N, i, fd, number, kernel, history>>

\* msgsnd() gives the number to the first that waits.
SendMsg(p, n, next) ==
  /\ fd[p] = queue
  /\ IF waiting = <<>>
     THEN /\ msgs' = Append(msgs, n)
          /\ pc' = [pc EXCEPT ![p] = next]
          /\ UNCHANGED <<number, waiting>>
     ELSE /\ pc' = [pc EXCEPT ![p] = next, ![Head(waiting)] = "got"]
          /\ number' = [number EXCEPT ![Head(waiting)] = n]
          /\ waiting' = Tail(waiting)
          /\ UNCHANGED msgs
  /\ UNCHANGED <<runs, N, i, fd, queue, history>>

----------------------------------------------------------------------------
(* Processes                                                               *)

\* Names with an underscore are slips a programmer could have made at the
\* definition that follows them; no action uses them.
ParentSends_Again(p) ==
  /\ ~IsChild(p) /\ pc[p] = "send"
  /\ SendMsg(p, 0, "send")

ParentSends(p) ==
  /\ ~IsChild(p) /\ pc[p] = "send"
  /\ SendMsg(p, 0, "receive")

\* "Parent"
ParentPrints(p) ==
  /\ ~IsChild(p) /\ pc[p] = "got"
  /\ pc' = [pc EXCEPT ![p] = "done"]
  /\ UNCHANGED <<runs, N, i, fd, number, kernel, history>>

ChildPrints_NextNumber(p) ==
  /\ IsChild(p) /\ pc[p] = "got"
  /\ out' = Append(out, number[p] + 1)
  /\ pc' = [pc EXCEPT ![p] = IF number[p] # N[p[1]] THEN "send" ELSE "remove"]
  /\ UNCHANGED <<runs, N, i, fd, number, kernel, early, interrupted>>

ChildPrints(p) ==
  /\ IsChild(p) /\ pc[p] = "got"
  /\ out' = Append(out, number[p])
  /\ pc' = [pc EXCEPT ![p] = IF number[p] # N[p[1]] THEN "send" ELSE "remove"]
  /\ UNCHANGED <<runs, N, i, fd, number, kernel, early, interrupted>>

ChildSends_SameNumber(p) ==
  /\ IsChild(p) /\ pc[p] = "send"
  /\ SendMsg(p, number[p], "done")

ChildSends_Not(p) ==
  /\ IsChild(p) /\ pc[p] = "send"
  /\ pc' = [pc EXCEPT ![p] = "done"]
  /\ UNCHANGED <<runs, N, i, fd, number, kernel, history>>

ChildSends(p) ==
  /\ IsChild(p) /\ pc[p] = "send"
  /\ SendMsg(p, number[p] + 1, "done")

\* IPC_RMID wakes all that wait; they exit with EIDRM.
ChildRemoves(p) ==
  /\ IsChild(p) /\ pc[p] = "remove" /\ fd[p] = queue
  /\ queue' = queue + 1 /\ msgs' = <<>> /\ waiting' = <<>>
  /\ pc' = [q \in Process |->
              IF q = p THEN "done" ELSE IF pc[q] = "waiting" THEN "failed" ELSE pc[q]]
  /\ UNCHANGED <<runs, N, i, fd, number, history>>

Step(p) ==
  \/ ReceiveMsg(p) \/ ReceiveMsgWaits(p) \/ MsgFails(p)
  \/ ParentSends(p) \/ ParentPrints(p)
  \/ ChildPrints(p) \/ ChildSends(p) \/ ChildRemoves(p)

Next ==
  \/ Start \/ Fork \/ ForkFails \/ Interrupt
  \/ \E p \in Process : Step(p)

Spec ==
  /\ Init /\ [][Next]_vars
  /\ WF_vars(Fork) /\ \A p \in Process : WF_vars(Step(p))

----------------------------------------------------------------------------
(* Properties                                                              *)

\* Every variable keeps to its set.
TypeOK ==
  /\ runs \in 0..MaxRuns /\ N \in [Run -> 0..MaxN] /\ i \in 0..MaxN
  /\ pc \in [Process -> {"none", "fork", "receive", "waiting", "got", "send", "remove"}
                        \cup Ended]
  /\ fd \in [Process -> Nat] /\ number \in [Process -> Nat]
  /\ queue \in Nat /\ msgs \in Seq(Nat) /\ waiting \in Seq(Process)
  /\ out \in Seq(Nat) /\ early \in [Run -> SUBSET Process]
  /\ interrupted \in BOOLEAN

\* A process that has a number that it will pass on.
Holds(p) == pc[p] = "got" \/ (IsChild(p) /\ pc[p] = "send")

\* As long as no run was interrupted there is one number under way at most, in
\* the queue or with a process, also when children of an earlier run still wait.
OneNumber ==
  ~interrupted =>
    /\ Len(msgs) <= 1
    /\ msgs # <<>> => waiting = <<>> /\ \A p \in Process : ~Holds(p)
    /\ \A p, q \in Process : Holds(p) /\ Holds(q) => p = q

\* The children print in the order of the numbers: 0, once in a run, or one more
\* than the last.
PrintsInOrder ==
  ~interrupted =>
    /\ Cardinality({n \in 1..Len(out) : out[n] = 0}) <= runs
    /\ \A n \in 1..Len(out) : out[n] = 0 \/ (n > 1 /\ out[n] = out[n - 1] + 1)

\* In the first run, if nobody interrupts it, the parent's message has the number
\* of the children that have printed before, and those that came to msgrcv()
\* before the parent are among them; if it is less than N, the others wait for ever.
ParentCounts ==
  (~interrupted /\ runs = 1 /\ N[1] > 0 /\ pc[Parent(1)] \in {"got", "done"}) =>
    /\ number[Parent(1)] = Len(out)
    /\ \A c \in early[1] : pc[c] = "done"

\* The parent of the first run ends, unless it has no child.
ParentEnds == (runs = 1 /\ N[1] > 0) ~> pc[Parent(1)] \in Ended
=============================================================================
