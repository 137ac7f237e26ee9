------------------------------- MODULE Cluster -------------------------------
(***************************************************************************)
(* sem4/task_3: a manager splits an integral among workers on other        *)
(* machines.  It opens a TCP port, broadcasts one "Hello" by UDP, accepts  *)
(* num_computers connections, receives a number of threads from each,      *)
(* sends each its part of the interval and adds up what they send back.    *)
(* Every accept() and recv() of the manager gives up after 20 s; so a step *)
(* that waits may fail as long as there is nothing to receive.             *)
(*                                                                         *)
(* What a worker sends is a stream of three words of four bytes: its       *)
(* number of threads and the two halves of its result, a double.  The      *)
(* positions written[w] and read[w] stand for the stream.  Of the interval *)
(* only the division matters: a task is a range of units, one for each     *)
(* thread.  The calculation itself is one step (see Calculation).          *)
(***************************************************************************)
EXTENDS Integers, FiniteSets, Sequences, Functions

CONSTANTS
  Worker,      \* the worker processes
  Descriptor0, \* what a connection of the manager is before accept(): stdin
  NumPC,       \* num_computers, the manager's argument
  NumThread,   \* the argument of each worker
  Mortal,      \* the processes that may be killed, or a worker's calculation fail
  LinkMayFail  \* the workers whose network connection may be lost

Manager == Descriptor0

ASSUME NumAssumption ==
  /\ NumPC \in Nat \ {0}
  /\ NumThread \in [Worker -> Nat \ {0}]

ASSUME ProcessAssumption ==
  /\ Descriptor0 \notin Worker
  /\ Mortal \subseteq Worker \cup {Manager}
  /\ LinkMayFail \subseteq Worker

VARIABLES
  mpc,          \* the function that the manager is in
  i,            \* its loop counter, from 1
  fd,           \* connections[i].fd
  num_thread,   \* connections[i].num_thread
  all_threads, thread,  \* the locals of SplitSendWork
  results,      \* the words that made up the i-th result_worker
  before,       \* history: the threads of the connections before the i-th
  tcp_socket,   \* the manager's port
  backlog,      \* connections that wait for accept()
  wpc,          \* the function that each worker is in
  task,         \* its task_data
  down,         \* the task that is under way to a worker
  written, read,\* words that a worker has sent and the manager received
  wend, mend    \* what the manager and the worker see of the other side's end

slots == <<fd, num_thread, all_threads, thread, results, before>>
manager == <<mpc, i, slots>>
port == <<tcp_socket, backlog>>
workers == <<wpc, task>>
network == <<port, down, written, read, wend, mend>>
vars == <<manager, workers, network>>

Slot == 1..NumPC
ManagerEnded == {"printed", "failed", "killed"}
WorkerEnded == {"done", "failed"}

\* "none": not connected; "rst": the connection is broken and the next call
\* will say so; "gone": a call has said so.
End == {"none", "open", "fin", "rst", "gone"}

Word == 1..3
Result == {2, 3}

Task == [start : Nat, end : Nat, nan : BOOLEAN]
NoTask == [start |-> 0, end |-> 0, nan |-> FALSE]
Units(t) == t.start..(t.end - 1)

Init ==
  /\ mpc = "start" /\ i = 1
  /\ fd = [s \in Slot |-> Descriptor0]
  /\ num_thread = [s \in Slot |-> 0]
  /\ all_threads = 0 /\ thread = 0
  /\ results = [s \in Slot |-> {}]
  /\ before = [s \in Slot |-> 0]
  /\ tcp_socket = "none" /\ backlog = <<>>
  /\ wpc = [w \in Worker |-> "off"]
  /\ task = [w \in Worker |-> NoTask]
  /\ down = [w \in Worker |-> {}]
  /\ written = [w \in Worker |-> 0] /\ read = [w \in Worker |-> 0]
  /\ wend = [w \in Worker |-> "none"] /\ mend = [w \in Worker |-> "none"]

----------------------------------------------------------------------------
(* Ends of processes and connections                                       *)

\* RST may overtake data that has not arrived; a double is one segment.
Arrived(w) == {n \in {0, 1, 3} : read[w] <= n /\ n <= written[w]}

\* A socket that is closed with unread data resets the connection.
CloseOfWorker(w) ==
  IF wend[w] # "open" THEN wend[w] ELSE IF down[w] = {} THEN "fin" ELSE "rst"

CloseOfManager(w) ==
  IF mend[w] # "open" THEN mend[w]
  ELSE IF w \in Range(fd) /\ read[w] = written[w] THEN "fin" ELSE "rst"

EndManager(state) ==
  /\ mpc' = state
  /\ tcp_socket' = "closed" /\ backlog' = <<>>
  /\ mend' = [w \in Worker |-> CloseOfManager(w)]

EndWorker(w, state) ==
  /\ wpc' = [wpc EXCEPT ![w] = state]
  /\ wend' = [wend EXCEPT ![w] = CloseOfWorker(w)]

KillManager ==
  /\ Manager \in Mortal /\ mpc \notin ManagerEnded
  /\ EndManager("killed")
  /\ UNCHANGED <<i, slots, workers, down, written, read, wend>>

KillWorker(w) ==
  /\ w \in Mortal /\ wpc[w] \notin WorkerEnded \cup {"off"}
  /\ EndWorker(w, "failed")
  /\ \E n \in IF wend'[w] = "rst" THEN Arrived(w) ELSE {written[w]} :
       written' = [written EXCEPT ![w] = n]
  /\ UNCHANGED <<manager, task, port, down, read, mend>>

\* No answer to keepalive probes: both sides end up with ETIMEDOUT.
Break(end) == IF end = "open" THEN "rst" ELSE end

LoseLink(w) ==
  /\ w \in LinkMayFail
  /\ "open" \in {wend[w], mend[w]}
  /\ wend' = [wend EXCEPT ![w] = Break(@)]
  /\ mend' = [mend EXCEPT ![w] = Break(@)]
  /\ \E n \in Arrived(w) : written' = [written EXCEPT ![w] = n]
  /\ \E d \in {down[w], {}} : down' = [down EXCEPT ![w] = d]
  /\ UNCHANGED <<manager, workers, port, read>>

----------------------------------------------------------------------------
(* Manager                                                                 *)

\* The next connection, or the next function.
NextSlot(next) ==
  IF i < NumPC THEN i' = i + 1 /\ UNCHANGED mpc ELSE i' = 1 /\ mpc' = next

\* The words that recv() of n words takes.
Received(w, n) == {x \in Word : read[w] < x /\ x <= read[w] + n /\ x <= written[w]}

\* recv() returns data.
RecvData(w, n) ==
  /\ w \in Worker /\ read[w] < written[w]
  /\ read' = [read EXCEPT ![w] = @ + Cardinality(Received(w, n))]
  /\ UNCHANGED wend

\* recv() returns 0.
RecvEnd(w) ==
  /\ w \in Worker /\ read[w] = written[w] /\ wend[w] \in {"fin", "gone"}
  /\ UNCHANGED <<read, wend>>

\* Names with an underscore are slips a programmer could have made at the
\* definition that follows them; no action uses them.
RecvError_WithoutTimeOut(w) ==
  /\ w \in Worker => read[w] = written[w] /\ wend[w] = "rst"
  /\ wend' = IF w \in Worker THEN [wend EXCEPT ![w] = "gone"] ELSE wend
  /\ UNCHANGED read

\* recv() returns -1: not a socket, the time-out, or the connection is broken.
RecvError(w) ==
  /\ w \in Worker => read[w] = written[w] /\ wend[w] \in {"open", "rst"}
  /\ wend' = IF w \in Worker /\ wend[w] = "rst" THEN [wend EXCEPT ![w] = "gone"]
             ELSE wend
  /\ UNCHANGED read

StartTcpSocket ==
  /\ mpc = "start" /\ mpc' = "hello"
  /\ tcp_socket' \in {"open", "error"}
  /\ UNCHANGED <<i, slots, workers, backlog, down, written, read, wend, mend>>

\* A datagram reaches those who have bound their port, and of them any.
SendMessForTcpConnect ==
  /\ mpc = "hello" /\ mpc' = "accept"
  /\ \E S \in SUBSET {w \in Worker : wpc[w] = "bound"} :
       wpc' = [w \in Worker |-> IF w \in S THEN "greeted" ELSE wpc[w]]
  /\ UNCHANGED <<i, slots, task, network>>

Accept ==
  /\ mpc = "accept" /\ backlog # <<>>
  /\ fd' = [fd EXCEPT ![i] = Head(backlog)]
  /\ backlog' = Tail(backlog)
  /\ NextSlot("count")
  /\ UNCHANGED <<num_thread, all_threads, thread, results, before, workers,
                 tcp_socket, down, written, read, wend, mend>>

\* ListenTcpSocket returns -1, which main() ignores: no number of threads is
\* received.
AcceptFails ==
  /\ mpc = "accept" /\ backlog = <<>>
  /\ mpc' = "sum" /\ i' = 1
  /\ UNCHANGED <<slots, workers, network>>

ReceiveCount_OneByDefault ==
  /\ mpc = "count"
  /\ \/ /\ RecvData(fd[i], 1)
        /\ num_thread' = [num_thread EXCEPT ![i] = NumThread[fd[i]]]
        /\ NextSlot("sum")
     \/ RecvError(fd[i]) /\ NextSlot("sum") /\ num_thread' = [num_thread EXCEPT ![i] = 1]
     \/ RecvEnd(fd[i]) /\ mpc' = "sum" /\ i' = 1 /\ UNCHANGED num_thread
  /\ UNCHANGED <<fd, all_threads, thread, results, before, workers, port, down,
                 written, mend>>

\* An error leaves the number 0; the end of a worker leaves those after it 0.
ReceiveCount ==
  /\ mpc = "count"
  /\ \/ /\ RecvData(fd[i], 1)
        /\ num_thread' = [num_thread EXCEPT ![i] = NumThread[fd[i]]]
        /\ NextSlot("sum")
     \/ RecvError(fd[i]) /\ NextSlot("sum") /\ UNCHANGED num_thread
     \/ RecvEnd(fd[i]) /\ mpc' = "sum" /\ i' = 1 /\ UNCHANGED num_thread
  /\ UNCHANGED <<fd, all_threads, thread, results, before, workers, port, down,
                 written, mend>>

\* The first loop of SplitSendWork.
SumThreads ==
  /\ mpc = "sum"
  /\ before' = [before EXCEPT ![i] = all_threads]
  /\ all_threads' = all_threads + num_thread[i]
  /\ NextSlot("split")
  /\ UNCHANGED <<fd, num_thread, thread, results, workers, network>>

\* (end - start) / 0 is infinite, and 0 times that is not a number.
WorkTask ==
  [start |-> thread, end |-> thread + num_thread[i], nan |-> all_threads = 0]

SendWork_SameThread ==
  /\ mpc = "split"
  /\ \/ /\ fd[i] \in Worker /\ wend[fd[i]] \in {"open", "fin"}
        /\ down' = [down EXCEPT ![fd[i]] = {WorkTask}]
        /\ UNCHANGED wend
     \/ /\ fd[i] \in Worker /\ wend[fd[i]] = "rst"
        /\ wend' = [wend EXCEPT ![fd[i]] = "gone"]
        /\ UNCHANGED down
     \/ fd[i] \notin Worker /\ UNCHANGED <<down, wend>>
  /\ UNCHANGED thread
  /\ NextSlot("collect")
  /\ UNCHANGED <<fd, num_thread, all_threads, results, before, workers, port,
                 written, read, mend>>

\* The result of send() is compared with 1, so it never matters.  A connection
\* that has reported its end gives SIGPIPE.
SendWork ==
  /\ mpc = "split"
  /\ \/ /\ fd[i] \in Worker /\ wend[fd[i]] \in {"open", "fin"}
        /\ down' = [down EXCEPT ![fd[i]] = {WorkTask}]
        /\ UNCHANGED wend
     \/ /\ fd[i] \in Worker /\ wend[fd[i]] = "rst"
        /\ wend' = [wend EXCEPT ![fd[i]] = "gone"]
        /\ UNCHANGED down
     \/ fd[i] \notin Worker /\ UNCHANGED <<down, wend>>
  /\ thread' = thread + num_thread[i]
  /\ NextSlot("collect")
  /\ UNCHANGED <<fd, num_thread, all_threads, results, before, workers, port,
                 written, read, mend>>

SendWorkKills ==
  /\ mpc = "split" /\ fd[i] \in Worker /\ wend[fd[i]] = "gone"
  /\ EndManager("killed")
  /\ UNCHANGED <<i, slots, workers, down, written, read, wend>>

\* After an error result_worker is still 0 and the loop goes on.
ReceiveResult ==
  /\ mpc = "collect"
  /\ \/ /\ RecvData(fd[i], 2)
        /\ results' = [results EXCEPT ![i] = Received(fd[i], 2)]
     \/ RecvError(fd[i]) /\ UNCHANGED results
  /\ IF i < NumPC THEN i' = i + 1 /\ UNCHANGED <<mpc, port, mend>>
     ELSE i' = 1 /\ EndManager("printed")
  /\ UNCHANGED <<fd, num_thread, all_threads, thread, before, workers, down, written>>

ReceiveResultFails ==
  /\ mpc = "collect" /\ RecvEnd(fd[i])
  /\ EndManager("failed")
  /\ UNCHANGED <<i, slots, workers, down, written>>

ManagerStep ==
  \/ StartTcpSocket \/ SendMessForTcpConnect \/ Accept \/ AcceptFails
  \/ ReceiveCount \/ SumThreads \/ SendWork \/ SendWorkKills
  \/ ReceiveResult \/ ReceiveResultFails

----------------------------------------------------------------------------
(* Workers                                                                 *)

Goto(w, from, to) == wpc[w] = from /\ wpc' = [wpc EXCEPT ![w] = to]

BindUdp(w) == Goto(w, "off", "bound") /\ UNCHANGED <<manager, task, network>>

\* bind() fails, or the datagram is not "Hello": the address is -1, and nobody
\* looks whether connect() has failed.
ReceiveMessFails(w) ==
  /\ wpc[w] \in {"off", "bound"}
  /\ wpc' = [wpc EXCEPT ![w] = "stranded"]
  /\ UNCHANGED <<manager, task, network>>

SendTcpConnect(w) ==
  /\ tcp_socket = "open" /\ Goto(w, "greeted", "connected")
  /\ backlog' = Append(backlog, w)
  /\ wend' = [wend EXCEPT ![w] = "open"] /\ mend' = [mend EXCEPT ![w] = "open"]
  /\ UNCHANGED <<manager, task, tcp_socket, down, written, read>>

SendTcpConnectFails(w) ==
  /\ tcp_socket # "open" /\ Goto(w, "greeted", "refused")
  /\ UNCHANGED <<manager, task, network>>

SendWorkThreads(w) ==
  /\ mend[w] \in {"open", "fin"} /\ Goto(w, "connected", "waiting")
  /\ written' = [written EXCEPT ![w] = 1]
  /\ UNCHANGED <<manager, task, port, down, read, wend, mend>>

\* The connection was never made, or is broken.
SendWorkThreadsFails(w) ==
  /\ \/ wpc[w] \in {"stranded", "refused"}
     \/ wpc[w] = "connected" /\ mend[w] = "rst"
  /\ EndWorker(w, "failed")
  /\ UNCHANGED <<manager, task, port, down, written, read, mend>>

WaitWork(w) ==
  /\ \E t \in down[w] : task' = [task EXCEPT ![w] = t]
  /\ Goto(w, "waiting", "computing")
  /\ down' = [down EXCEPT ![w] = {}]
  /\ UNCHANGED <<manager, port, written, read, wend, mend>>

\* "Server shutdown!"
WaitWorkEnds(w) ==
  /\ wpc[w] = "waiting" /\ down[w] = {} /\ mend[w] = "fin"
  /\ EndWorker(w, "failed")
  /\ UNCHANGED <<manager, task, port, down, written, read, mend>>

WaitWorkFails_Again(w) ==
  /\ wpc[w] = "waiting" /\ down[w] = {} /\ mend[w] = "rst"
  /\ UNCHANGED vars

WaitWorkFails_AfterTimeOut(w) ==
  /\ down[w] = {} /\ mend[w] \in {"open", "rst"} /\ Goto(w, "waiting", "computing")
  /\ mend' = [mend EXCEPT ![w] = IF @ = "rst" THEN "gone" ELSE @]
  /\ UNCHANGED <<manager, task, port, down, written, read, wend>>

\* An error is printed and taken for the task {0, 0, 0}.
WaitWorkFails(w) ==
  /\ down[w] = {} /\ mend[w] = "rst" /\ Goto(w, "waiting", "computing")
  /\ mend' = [mend EXCEPT ![w] = "gone"]
  /\ UNCHANGED <<manager, task, port, down, written, read, wend>>

StartCalculation(w) ==
  /\ ~task[w].nan /\ Goto(w, "computing", "sending")
  /\ UNCHANGED <<manager, task, network>>

\* PrepareThreads refuses an interval that is not a number.
StartCalculationFails(w) ==
  /\ task[w].nan /\ wpc[w] = "computing"
  /\ EndWorker(w, "failed")
  /\ UNCHANGED <<manager, task, port, down, written, read, mend>>

SendResult(w) ==
  /\ wpc[w] = "sending" /\ mend[w] \in {"open", "fin"}
  /\ written' = [written EXCEPT ![w] = 3]
  /\ EndWorker(w, "done")
  /\ UNCHANGED <<manager, task, port, down, read, mend>>

\* An error, or SIGPIPE if WaitWork has had the error.
SendResultFails(w) ==
  /\ wpc[w] = "sending" /\ mend[w] \in {"rst", "gone"}
  /\ EndWorker(w, "failed")
  /\ UNCHANGED <<manager, task, port, down, written, read, mend>>

\* What follows once the manager's greeting has come.
WorkerStep(w) ==
  \/ SendTcpConnect(w) \/ SendTcpConnectFails(w)
  \/ SendWorkThreads(w) \/ SendWorkThreadsFails(w)
  \/ WaitWork(w) \/ WaitWorkEnds(w) \/ WaitWorkFails(w)
  \/ StartCalculation(w) \/ StartCalculationFails(w)
  \/ SendResult(w) \/ SendResultFails(w)

Next ==
  \/ ManagerStep
  \/ \E w \in Worker : BindUdp(w) \/ ReceiveMessFails(w) \/ WorkerStep(w)
  \/ KillManager
  \/ \E w \in Worker : KillWorker(w) \/ LoseLink(w)

\* The manager runs, and waits no longer than its time-outs; a worker may stop
\* or be as slow as it likes.
Spec == Init /\ [][Next]_vars /\ WF_vars(ManagerStep)

----------------------------------------------------------------------------
(* Properties                                                              *)

\* Every variable keeps to its set.
TypeOK ==
  /\ mpc \in {"start", "hello", "accept", "count", "sum", "split", "collect"}
             \cup ManagerEnded
  /\ i \in Slot
  /\ fd \in [Slot -> Worker \cup {Descriptor0}]
  /\ num_thread \in [Slot -> Nat] /\ before \in [Slot -> Nat]
  /\ all_threads \in Nat /\ thread \in Nat
  /\ results \in [Slot -> SUBSET Word]
  /\ tcp_socket \in {"none", "open", "error", "closed"} /\ backlog \in Seq(Worker)
  /\ wpc \in [Worker -> {"off", "bound", "stranded", "greeted", "refused", "connected",
                         "waiting", "computing", "sending"} \cup WorkerEnded]
  /\ task \in [Worker -> Task] /\ down \in [Worker -> SUBSET Task]
  /\ written \in [Worker -> {0, 1, 3}] /\ read \in [Worker -> 0..3]
  /\ wend \in [Worker -> End] /\ mend \in [Worker -> End]

\* The part of the interval that belongs to a connection.
Share(s) == [start |-> before[s], end |-> before[s] + num_thread[s], nan |-> all_threads = 0]

Answered(s) == results[s] = Result

\* SplitSendWork sends each connection its share, and the shares are disjoint
\* and cover the interval: every unit is in one.
SharesTile ==
  /\ mpc = "split" => WorkTask = Share(i)
  /\ mpc \in {"split", "collect", "printed"} =>
       \A u \in 0..(all_threads - 1) :
         \E s \in Slot : /\ u \in Units(Share(s))
                         /\ \A r \in Slot \ {s} : u \notin Units(Share(r))

\* A number of threads that comes too late is read as (half of) a result
\* (manager.c:159, 267), but only of a worker whose part is empty.
MisreadIsEmpty ==
  \A s \in Slot : results[s] \notin {{}, Result} => num_thread[s] = 0

\* No unit of the interval is in the printed sum twice, and if each worker that
\* has a part was heard of before the time-out, every unit is in it.  Workers
\* that were not counted in time, or that take an error for an empty task
\* (worker.c:191), do not harm it.
SumIsWhole ==
  mpc = "printed" =>
    \A u \in 0..(all_threads - 1) :
      LET adders == {s \in Slot : Answered(s) /\ u \in Units(task[fd[s]])}
      IN  /\ \A s, r \in adders : s = r
          /\ (\A s \in Slot : num_thread[s] > 0 => results[s] # {}) => adders # {}

\* Whatever workers and network do, the manager ends.
ManagerEnds == <>(mpc \in ManagerEnded)

\* A worker that runs and has heard the manager ends, also when it never gets a
\* task, when the others stop, and when its connection was not accepted.
GreetedEnds ==
  \A w \in Worker :
    WF_vars(WorkerStep(w)) => (wpc[w] = "greeted" ~> wpc[w] \in WorkerEnded)
=============================================================================
