--------------------------- MODULE ClusterProofs ---------------------------
(***************************************************************************)
(* The safety properties of Cluster, for any number of computers, workers  *)
(* and threads, whoever is killed and whichever connections are lost.  The *)
(* invariant says how the manager's loops divide the interval (Divided),   *)
(* that a connection is in one place (OnePlace), which words of a worker's *)
(* stream the manager has read (WordsRead), and that the result of a       *)
(* worker is the result of the task that its connection was given (Tasks). *)
(***************************************************************************)
EXTENDS Cluster, FiniteSetTheorems, TLAPS

Connected == {"connected", "waiting", "computing", "sending", "done", "failed"}

\* Before the first task is sent.
Uninformed == mpc \in {"start", "hello", "accept", "count", "sum"}

\* A worker is in the backlog or one connection of the manager, once.
OnePlace ==
  /\ \A a, b \in 1..Len(backlog) : backlog[a] = backlog[b] => a = b
  /\ \A a \in 1..Len(backlog) :
       /\ wpc[backlog[a]] \in Connected
       /\ \A s \in Slot : fd[s] # backlog[a]
  /\ \A s \in Slot : fd[s] \in Worker => wpc[fd[s]] \in Connected
  /\ \A s, r \in Slot : fd[s] = fd[r] /\ fd[s] \in Worker => s = r
  /\ mpc \in {"start", "hello"} => i = 1 /\ fd = [s \in Slot |-> Descriptor0]
  /\ mpc = "accept" => \A s \in Slot : s >= i => fd[s] = Descriptor0

\* The first n connections have the units 0..(all_threads - 1) among them, each
\* a range of its own that follows the one before.
Tiled(n) ==
  /\ \A s, r \in 1..n : s < r => before[s] + num_thread[s] <= before[r]
  /\ \A s \in 1..n : before[s] + num_thread[s] <= all_threads
  /\ \A u \in 0..(all_threads - 1) :
       \E s \in 1..n : before[s] <= u /\ u < before[s] + num_thread[s]
  /\ \A s \in 1..(n - 1) : before[s + 1] = before[s] + num_thread[s]
  /\ n >= 1 => before[1] = 0 /\ all_threads = before[n] + num_thread[n]

Divided ==
  /\ mpc \in {"start", "hello", "accept", "count"} => all_threads = 0
  /\ mpc = "sum" => Tiled(i - 1) /\ (i = 1 => all_threads = 0)
  /\ Uninformed => thread = 0
  /\ mpc \in {"split", "collect", "printed"} => Tiled(NumPC)
  /\ mpc = "split" => thread = before[i]

\* A connection whose number is known has had one word read.
WordsRead ==
  /\ \A w \in Worker : read[w] <= written[w]
  /\ mpc \in {"start", "hello", "accept"} => \A w \in Worker : read[w] = 0
  /\ mpc \in {"start", "hello", "accept"} => \A s \in Slot : num_thread[s] = 0
  /\ mpc = "count" =>
       \A s \in Slot : s >= i => /\ num_thread[s] = 0
                                 /\ fd[s] \in Worker => read[fd[s]] = 0
  /\ \A s \in Slot :
       /\ mpc \in {"count", "sum", "split"} \/ (mpc = "collect" /\ s >= i)
       /\ num_thread[s] # 0
       => fd[s] \in Worker /\ read[fd[s]] = 1

HasTask(w) == \E s \in Slot : fd[s] = w /\ task[w] = Share(s)

\* A worker that has been given its task, or has sent its result.
Informed(w) ==
  \/ wpc[w] \in {"computing", "sending"} /\ mend[w] # "gone"
  \/ written[w] = 3

Tasks ==
  /\ Uninformed => /\ \A w \in Worker : down[w] = {} /\ ~ Informed(w)
                   /\ \A s \in Slot : results[s] = {}
  /\ mpc = "split" => \A s \in Slot : results[s] = {}
  /\ mpc = "collect" => \A s \in Slot : s >= i => results[s] = {}
  /\ \A w \in Worker :
       /\ \A t \in down[w] : \E s \in Slot : fd[s] = w /\ t = Share(s)
       /\ Informed(w) => HasTask(w)
       /\ written[w] = 3 => wpc[w] \in WorkerEnded
  /\ \A s \in Slot : results[s] = Result =>
       fd[s] \in Worker /\ HasTask(fd[s]) /\ wpc[fd[s]] \in WorkerEnded

IInv == TypeOK /\ OnePlace /\ Divided /\ WordsRead /\ Tasks /\ MisreadIsEmpty
----------------------------------------------------------------------------
(* Words and ends                                                          *)

LEMMA EndTypes ==
  ASSUME TypeOK, NEW w \in Worker
  PROVE  /\ CloseOfWorker(w) \in End /\ CloseOfManager(w) \in End
         /\ CloseOfManager(w) = "gone" <=> mend[w] = "gone"
         /\ Break(wend[w]) \in End /\ Break(mend[w]) \in End
         /\ Break(mend[w]) = "gone" <=> mend[w] = "gone"
BY DEF TypeOK, CloseOfWorker, CloseOfManager, Break, End

\* recv() of n words takes the next n words, or those that there are.
LEMMA ReceivedIs ==
  ASSUME TypeOK, NEW w \in Worker, NEW n \in {1, 2}, read[w] < written[w]
  PROVE  /\ read[w] + Cardinality(Received(w, n)) \in 0..3
         /\ read[w] + Cardinality(Received(w, n)) <= written[w]
         /\ read[w] = 0 /\ n = 1 => Cardinality(Received(w, n)) = 1
         /\ read[w] = 1 /\ n = 2 => Received(w, n) = Result
         /\ Received(w, n) = Result => written[w] = 3
         /\ Received(w, n) \subseteq Word
<1>1. read[w] \in 0..3 /\ written[w] \in {0, 1, 3}
  BY DEF TypeOK
<1>2. Cardinality({1}) = 1 /\ Cardinality({2}) = 1 /\ Cardinality({3}) = 1
  BY FS_Singleton
<1>3. Cardinality({1, 2}) = 2 /\ Cardinality({2, 3}) = 2
  <2>1. IsFiniteSet({1}) /\ IsFiniteSet({2}) /\ {1, 2} = {1} \cup {2} /\ {2, 3} = {2} \cup {3}
    BY FS_Singleton
  <2> QED BY <1>2, <2>1, FS_AddElement
<1>4. \/ read[w] = 0 /\ (written[w] = 1 \/ n = 1) /\ Received(w, n) = {1}
      \/ read[w] = 0 /\ written[w] = 3 /\ n = 2 /\ Received(w, n) = {1, 2}
      \/ read[w] = 1 /\ written[w] = 3 /\ n = 1 /\ Received(w, n) = {2}
      \/ read[w] = 1 /\ written[w] = 3 /\ n = 2 /\ Received(w, n) = {2, 3}
      \/ read[w] = 2 /\ written[w] = 3 /\ Received(w, n) = {3}
  BY <1>1 DEF Received, Word
<1>5. {1} # Result /\ {1, 2} # Result /\ {2} # Result /\ {3} # Result
  BY DEF Result
<1> QED BY <1>1, <1>2, <1>3, <1>4, <1>5 DEF Result, Word

LEMMA InitIInv == ASSUME Init PROVE IInv
<1> USE NumAssumption, ProcessAssumption
<1>1. TypeOK
  BY DEF Init, TypeOK, Slot, Task, NoTask, End, ManagerEnded, WorkerEnded
<1>2. OnePlace
  BY DEF Init, OnePlace, Slot
<1>3. Divided /\ WordsRead
  BY DEF Init, Divided, WordsRead, Uninformed
<1>4. Tasks /\ MisreadIsEmpty
  BY DEF Init, Tasks, MisreadIsEmpty, Uninformed, Informed, Result
<1> QED BY <1>1, <1>2, <1>3, <1>4 DEF IInv

----------------------------------------------------------------------------
(* Steps that leave the manager's numbers and words alone                  *)

\* What the steps of workers and network have in common, and the manager's
\* before it accepts and when it ends without a sum.
ManagerGoesOn ==
  \/ mpc' = mpc /\ i' = i
  \/ mpc' \in {"killed", "failed"}
  \/ mpc \in {"start", "hello"} /\ mpc' \in {"hello", "accept"} /\ i' = i

WorkerGoesOn(w) ==
  /\ wpc[w] \in Connected => wpc'[w] \in Connected
  /\ read[w] <= written'[w]
  /\ down'[w] \subseteq down[w]
  /\ Informed(w)' => Informed(w) \/ task'[w] \in down[w]
  /\ task'[w] # task[w] => task'[w] \in down[w] /\ wpc[w] = "waiting"
  /\ written'[w] = 3 => wpc'[w] \in WorkerEnded
  /\ wpc[w] \in WorkerEnded => wpc'[w] \in WorkerEnded

LEMMA Frame ==
  ASSUME IInv, TypeOK', UNCHANGED <<slots, read>>, ManagerGoesOn,
         backlog' = backlog \/ backlog' = <<>>,
         \A w \in Worker : WorkerGoesOn(w)
  PROVE  IInv'
<1> USE DEF IInv
<1>1. UNCHANGED <<fd, num_thread, all_threads, thread, results, before, read>>
  BY DEF slots
<1>2. Uninformed' => Uninformed
  BY DEF Uninformed, ManagerGoesOn
<1>3. OnePlace'
  <2>1. /\ \A a, b \in 1..Len(backlog') : backlog'[a] = backlog'[b] => a = b
        /\ \A a \in 1..Len(backlog') :
             /\ wpc'[backlog'[a]] \in Connected
             /\ \A s \in Slot : fd[s] # backlog'[a]
    <3>1. CASE backlog' = backlog
      BY <3>1 DEF OnePlace, WorkerGoesOn, TypeOK
    <3>2. CASE backlog' = <<>>
      BY <3>2
    <3> QED BY <3>1, <3>2
  <2>2. \A s \in Slot : fd[s] \in Worker => wpc'[fd[s]] \in Connected
    BY DEF OnePlace, WorkerGoesOn
  <2>3. /\ mpc' \in {"start", "hello"} => i' = 1 /\ fd = [s \in Slot |-> Descriptor0]
        /\ mpc' = "accept" => \A s \in Slot : s >= i' => fd[s] = Descriptor0
    BY DEF OnePlace, ManagerGoesOn
  <2> QED BY <1>1, <2>1, <2>2, <2>3 DEF OnePlace
<1>4. Divided'
  <2>1. Tiled(NumPC)' = Tiled(NumPC) /\ Tiled(i - 1)' = Tiled(i' - 1)
    BY <1>1 DEF Tiled
  <2> QED BY <1>1, <1>2, <2>1 DEF Divided, ManagerGoesOn, Uninformed
<1>5. WordsRead'
  BY <1>1 DEF WordsRead, ManagerGoesOn, WorkerGoesOn
<1>6. \A s \in Slot : Share(s)' = Share(s)
  BY <1>1 DEF Share
<1>7. \A w \in Worker : HasTask(w)' <=> \E s \in Slot : fd[s] = w /\ task'[w] = Share(s)
  BY <1>1, <1>6 DEF HasTask
<1>8. \A w \in Worker : \A t \in down[w] : \E s \in Slot : fd[s] = w /\ t = Share(s)
  BY DEF Tasks
<1>9. \A w \in Worker : HasTask(w) => HasTask(w)'
  BY <1>7, <1>8 DEF HasTask, WorkerGoesOn
<1>10. Tasks'
  <2>1. Uninformed' => /\ \A w \in Worker : down'[w] = {} /\ ~ Informed(w)'
                       /\ \A s \in Slot : results[s] = {}
    BY <1>2 DEF Tasks, WorkerGoesOn
  <2>2. /\ mpc' = "split" => \A s \in Slot : results[s] = {}
        /\ mpc' = "collect" => \A s \in Slot : s >= i' => results[s] = {}
    BY DEF Tasks, ManagerGoesOn
  <2>3. ASSUME NEW w \in Worker
        PROVE  /\ \A t \in down'[w] : \E s \in Slot : fd[s] = w /\ t = Share(s)
               /\ Informed(w)' => HasTask(w)'
               /\ written'[w] = 3 => wpc'[w] \in WorkerEnded
    BY <1>7, <1>8, <1>9 DEF Tasks, WorkerGoesOn
  <2>4. ASSUME NEW s \in Slot, results[s] = Result
        PROVE  /\ fd[s] \in Worker /\ wpc'[fd[s]] \in WorkerEnded
               /\ \E r \in Slot : fd[r] = fd[s] /\ task'[fd[s]] = Share(r)
    <3> DEFINE w == fd[s]
    <3>1. w \in Worker /\ HasTask(w) /\ wpc[w] \in WorkerEnded
      BY <2>4 DEF Tasks
    <3> HIDE DEF w
    <3>2. wpc'[w] \in WorkerEnded /\ \E r \in Slot : fd[r] = w /\ task'[w] = Share(r)
      BY <1>7, <1>9, <3>1 DEF WorkerGoesOn
    <3> QED BY <3>1, <3>2 DEF w
  <2>5. \A s \in Slot : results'[s] = Result =>
          fd'[s] \in Worker /\ HasTask(fd[s])' /\ wpc'[fd'[s]] \in WorkerEnded
    BY <1>1, <1>6, <2>4 DEF HasTask
  <2> QED BY <1>1, <1>6, <2>1, <2>2, <2>3, <2>5 DEF Tasks
<1>11. MisreadIsEmpty'
  BY <1>1 DEF MisreadIsEmpty
<1> QED BY <1>3, <1>4, <1>5, <1>10, <1>11

LEMMA WordTypes ==
  ASSUME IInv, NEW w \in Worker
  PROVE  read[w] \in 0..3 /\ written[w] \in {0, 1, 3} /\ read[w] <= written[w]
BY DEF IInv, TypeOK, WordsRead

\* The manager goes on, and only one worker may do something.
LEMMA OneWorker ==
  ASSUME IInv, TypeOK', NEW w \in Worker, UNCHANGED <<manager, read, backlog>>,
         \A v \in Worker \ {w} : /\ wpc'[v] = wpc[v] /\ task'[v] = task[v]
                                 /\ down'[v] = down[v] /\ written'[v] = written[v]
                                 /\ mend'[v] = mend[v],
         WorkerGoesOn(w)
  PROVE  IInv'
<1>1. UNCHANGED <<slots, read>> /\ ManagerGoesOn
  BY DEF manager, ManagerGoesOn
<1>2. ASSUME NEW v \in Worker \ {w} PROVE WorkerGoesOn(v)
  BY DEF WorkerGoesOn, Informed, IInv, WordsRead, Tasks
<1> QED BY <1>1, <1>2, Frame

\* The steps of a worker that leave its stream and the network alone.
LEMMA MovesStep ==
  ASSUME IInv, NEW w \in Worker,
         \/ BindUdp(w) \/ ReceiveMessFails(w) \/ SendTcpConnectFails(w)
         \/ StartCalculation(w)
  PROVE  IInv'
<1>1. /\ UNCHANGED <<manager, task, tcp_socket, backlog, down, written, read, wend, mend>>
      /\ \E from, to : /\ wpc[w] = from /\ wpc' = [wpc EXCEPT ![w] = to]
                       /\ \/ /\ from \in {"off", "bound", "greeted"}
                             /\ to \in {"bound", "stranded", "refused"}
                          \/ from = "computing" /\ to = "sending"
  BY DEF BindUdp, ReceiveMessFails, SendTcpConnectFails, StartCalculation, Goto, network, port
<1>2. TypeOK'
  BY <1>1 DEF IInv, TypeOK, manager, slots
<1>3. WorkerGoesOn(w)
  BY <1>1 DEF WorkerGoesOn, Informed, IInv, TypeOK, WordsRead, Tasks, Connected, WorkerEnded
<1> QED BY <1>1, <1>2, <1>3, OneWorker DEF IInv, TypeOK

\* A worker that ends without sending.
LEMMA WorkerFailsStep ==
  ASSUME IInv, NEW w \in Worker,
         SendWorkThreadsFails(w) \/ WaitWorkEnds(w) \/ StartCalculationFails(w) \/ SendResultFails(w)
  PROVE  IInv'
<1>1. /\ EndWorker(w, "failed")
      /\ UNCHANGED <<manager, task, tcp_socket, backlog, down, written, read, mend>>
  BY DEF SendWorkThreadsFails, WaitWorkEnds, StartCalculationFails, SendResultFails, port
<1>2. TypeOK'
  BY <1>1, EndTypes DEF IInv, TypeOK, manager, slots, EndWorker, WorkerEnded
<1>3. WorkerGoesOn(w)
  BY <1>1 DEF WorkerGoesOn, Informed, IInv, TypeOK, WordsRead, Tasks, Connected, WorkerEnded, EndWorker
<1> QED BY <1>1, <1>2, <1>3, OneWorker DEF IInv, TypeOK, EndWorker

LEMMA SendWorkThreadsStep == ASSUME IInv, NEW w \in Worker, SendWorkThreads(w) PROVE IInv'
<1>1. /\ UNCHANGED <<manager, task, tcp_socket, backlog, down, read, wend, mend>>
      /\ wpc[w] = "connected" /\ wpc' = [wpc EXCEPT ![w] = "waiting"]
      /\ written' = [written EXCEPT ![w] = 1]
  BY DEF SendWorkThreads, Goto, port
<1>2. TypeOK'
  BY <1>1 DEF IInv, TypeOK, manager, slots
<1>3. read[w] <= 1
  <2>1. written[w] # 3
    BY <1>1 DEF IInv, Tasks, WorkerEnded
  <2> QED BY <2>1, WordTypes
<1>4. WorkerGoesOn(w)
  BY <1>1, <1>3 DEF WorkerGoesOn, Informed, IInv, TypeOK, Connected, WorkerEnded
<1> QED BY <1>1, <1>2, <1>4, OneWorker DEF IInv, TypeOK

\* A worker computes what was sent to it, or nothing when the connection is gone.
LEMMA WaitWorkStep == ASSUME IInv, NEW w \in Worker, WaitWork(w) PROVE IInv'
<1> PICK t \in down[w] : task' = [task EXCEPT ![w] = t]
  BY DEF WaitWork
<1>1. /\ UNCHANGED <<manager, tcp_socket, backlog, written, read, wend, mend>>
      /\ wpc[w] = "waiting" /\ wpc' = [wpc EXCEPT ![w] = "computing"]
      /\ down' = [down EXCEPT ![w] = {}]
  BY DEF WaitWork, Goto, port
<1>2. t \in Task
  BY DEF IInv, TypeOK
<1>3. TypeOK'
  BY <1>1, <1>2 DEF IInv, TypeOK, manager, slots
<1>4. WorkerGoesOn(w)
  <2>1. wpc'[w] = "computing" /\ down'[w] \subseteq down[w] /\ (Informed(w)' => Informed(w) \/ task'[w] \in down[w])
    BY <1>1 DEF Informed, IInv, TypeOK
  <2>2. read[w] <= written'[w] /\ (written'[w] = 3 => wpc[w] \in WorkerEnded)
    BY <1>1 DEF IInv, WordsRead, Tasks
  <2>3. task'[w] # task[w] => task'[w] \in down[w]
    BY <1>1 DEF IInv, TypeOK
  <2> QED BY <1>1, <2>1, <2>2, <2>3 DEF WorkerGoesOn, Informed, Connected, WorkerEnded
<1> QED BY <1>1, <1>3, <1>4, OneWorker DEF IInv, TypeOK

LEMMA WaitWorkFailsStep == ASSUME IInv, NEW w \in Worker, WaitWorkFails(w) PROVE IInv'
<1>1. /\ UNCHANGED <<manager, task, tcp_socket, backlog, down, written, read, wend>>
      /\ wpc[w] = "waiting" /\ wpc' = [wpc EXCEPT ![w] = "computing"]
      /\ mend' = [mend EXCEPT ![w] = "gone"]
  BY DEF WaitWorkFails, Goto, port
<1>2. TypeOK'
  BY <1>1 DEF IInv, TypeOK, manager, slots, End
<1>3. WorkerGoesOn(w)
  <2>1. wpc'[w] = "computing" /\ down'[w] \subseteq down[w] /\ (Informed(w)' => Informed(w))
    BY <1>1 DEF Informed, IInv, TypeOK
  <2>2. read[w] <= written'[w] /\ (written'[w] = 3 => wpc[w] \in WorkerEnded)
    BY <1>1 DEF IInv, WordsRead, Tasks
  <2>3. task'[w] # task[w] => task'[w] \in down[w]
    BY <1>1 DEF IInv, TypeOK
  <2> QED BY <1>1, <2>1, <2>2, <2>3 DEF WorkerGoesOn, Informed, Connected, WorkerEnded
<1> QED BY <1>1, <1>2, <1>3, OneWorker DEF IInv, TypeOK

\* Only a worker that has been given its task sends a result.
LEMMA SendResultStep == ASSUME IInv, NEW w \in Worker, SendResult(w) PROVE IInv'
<1>1. /\ UNCHANGED <<manager, task, tcp_socket, backlog, down, read, mend>>
      /\ wpc[w] = "sending" /\ mend[w] \in {"open", "fin"} /\ EndWorker(w, "done")
      /\ written' = [written EXCEPT ![w] = 3]
  BY DEF SendResult, port
<1>2. TypeOK'
  BY <1>1, EndTypes DEF IInv, TypeOK, manager, slots, EndWorker, WorkerEnded
<1>3. WorkerGoesOn(w)
  <2>1. wpc'[w] = "done" /\ written'[w] = 3
    BY <1>1 DEF IInv, TypeOK, EndWorker
  <2>2. Informed(w)
    BY <1>1 DEF Informed
  <2>3. read[w] <= 3
    BY WordTypes
  <2> QED BY <1>1, <2>1, <2>2, <2>3 DEF WorkerGoesOn, Connected, WorkerEnded
<1> QED BY <1>1, <1>2, <1>3, OneWorker DEF IInv, TypeOK, EndWorker

LEMMA KillWorkerStep == ASSUME IInv, NEW w \in Worker, KillWorker(w) PROVE IInv'
<1>1. /\ UNCHANGED <<manager, task, tcp_socket, backlog, down, read, mend>>
      /\ EndWorker(w, "failed")
      /\ \E n \in Arrived(w) \cup {written[w]} : written' = [written EXCEPT ![w] = n]
  BY DEF KillWorker, port
<1>2. PICK n \in Arrived(w) \cup {written[w]} : written' = [written EXCEPT ![w] = n]
  BY <1>1
<1>3. n \in {0, 1, 3} /\ n <= written[w] /\ read[w] <= n
  BY WordTypes DEF Arrived
<1>4. n = 3 => written[w] = 3
  BY <1>3, WordTypes
<1>5. TypeOK'
  BY <1>1, <1>2, <1>3, EndTypes DEF IInv, TypeOK, manager, slots, EndWorker, WorkerEnded
<1>6. WorkerGoesOn(w)
  BY <1>1, <1>2, <1>3, <1>4 DEF WorkerGoesOn, Informed, IInv, TypeOK, Connected, WorkerEnded, EndWorker
<1> QED BY <1>1, <1>2, <1>5, <1>6, OneWorker DEF IInv, TypeOK, EndWorker

LEMMA LoseLinkStep == ASSUME IInv, NEW w \in Worker, LoseLink(w) PROVE IInv'
<1>1. /\ UNCHANGED <<manager, task, wpc, tcp_socket, backlog, read>>
      /\ wend' = [wend EXCEPT ![w] = Break(wend[w])]
      /\ mend' = [mend EXCEPT ![w] = Break(mend[w])]
  BY DEF LoseLink, port, workers
<1>2. PICK n \in Arrived(w) : written' = [written EXCEPT ![w] = n]
  BY DEF LoseLink
<1>3. PICK d \in {down[w], {}} : down' = [down EXCEPT ![w] = d]
  BY DEF LoseLink
<1>4. n \in {0, 1, 3} /\ n <= written[w] /\ read[w] <= n
  BY DEF Arrived
<1>5. n = 3 => written[w] = 3
  BY <1>4, WordTypes
<1>6. TypeOK'
  BY <1>1, <1>2, <1>3, <1>4, EndTypes DEF IInv, TypeOK, manager, slots
<1>7. mend'[w] = "gone" <=> mend[w] = "gone"
  BY <1>1, EndTypes DEF IInv, TypeOK
<1>8. WorkerGoesOn(w)
  BY <1>1, <1>2, <1>3, <1>4, <1>5, <1>7 DEF WorkerGoesOn, Informed, IInv, TypeOK, Tasks
<1> QED BY <1>1, <1>2, <1>3, <1>6, <1>8, OneWorker DEF IInv, TypeOK

----------------------------------------------------------------------------
(* Steps of the manager                                                    *)

LEMMA Closes ==
  ASSUME IInv, EndManager("printed") \/ EndManager("killed") \/ EndManager("failed")
  PROVE  /\ mend' \in [Worker -> End] /\ tcp_socket' = "closed" /\ backlog' = <<>>
         /\ \A w \in Worker : mend'[w] = "gone" <=> mend[w] = "gone"
<1>1. mend' = [w \in Worker |-> CloseOfManager(w)] /\ tcp_socket' = "closed" /\ backlog' = <<>>
  BY DEF EndManager
<1> QED BY <1>1, EndTypes DEF IInv

\* The manager ends without a sum.
LEMMA ManagerFailsStep ==
  ASSUME IInv, KillManager \/ SendWorkKills \/ ReceiveResultFails
  PROVE  IInv'
<1>1. /\ EndManager("killed") \/ EndManager("failed")
      /\ UNCHANGED <<i, slots, wpc, task, down, written, read, wend>>
  BY DEF KillManager, SendWorkKills, ReceiveResultFails, workers, RecvEnd
<1>2. UNCHANGED <<fd, num_thread, all_threads, thread, results, before>>
  BY <1>1 DEF slots
<1>3. mpc' \in {"killed", "failed"}
  BY <1>1 DEF EndManager
<1>4. TypeOK'
  <2>1. mend' \in [Worker -> End] /\ tcp_socket' = "closed" /\ backlog' = <<>>
    BY <1>1, Closes
  <2> QED BY <1>1, <1>2, <1>3, <2>1 DEF IInv, TypeOK, ManagerEnded
<1>5. ASSUME NEW w \in Worker PROVE WorkerGoesOn(w)
  BY <1>1, Closes, WordTypes DEF WorkerGoesOn, Informed, IInv, Tasks
<1> QED BY <1>1, <1>3, <1>4, <1>5, Closes, Frame DEF ManagerGoesOn

LEMMA StartTcpSocketStep == ASSUME IInv, StartTcpSocket PROVE IInv'
<1>1. /\ UNCHANGED <<i, slots, wpc, task, backlog, down, written, read, wend, mend>>
      /\ mpc = "start" /\ mpc' = "hello" /\ tcp_socket' \in {"open", "error"}
  BY DEF StartTcpSocket, workers
<1>2. TypeOK'
  BY <1>1 DEF IInv, TypeOK, slots
<1>3. ASSUME NEW w \in Worker PROVE WorkerGoesOn(w)
  BY <1>1, WordTypes DEF WorkerGoesOn, Informed, IInv, Tasks
<1> QED BY <1>1, <1>2, <1>3, Frame DEF ManagerGoesOn

LEMMA HelloStep == ASSUME IInv, SendMessForTcpConnect PROVE IInv'
<1>1. /\ UNCHANGED <<i, slots, task, tcp_socket, backlog, down, written, read, wend, mend>>
      /\ mpc = "hello" /\ mpc' = "accept"
  BY DEF SendMessForTcpConnect, network, port
<1>2. PICK S \in SUBSET {w \in Worker : wpc[w] = "bound"} :
        wpc' = [w \in Worker |-> IF w \in S THEN "greeted" ELSE wpc[w]]
  BY DEF SendMessForTcpConnect
<1>3. TypeOK'
  BY <1>1, <1>2 DEF IInv, TypeOK, slots
<1>4. ASSUME NEW w \in Worker PROVE WorkerGoesOn(w)
  BY <1>1, <1>2, WordTypes DEF WorkerGoesOn, Informed, IInv, Tasks, Connected, WorkerEnded
<1> QED BY <1>1, <1>3, <1>4, Frame DEF ManagerGoesOn

\* The loop counter after NextSlot.
LEMMA NextSlotIs ==
  ASSUME TypeOK, NEW next, NextSlot(next)
  PROVE  /\ i \in 1..NumPC /\ NumPC \in Nat /\ NumPC >= 1 /\ i' \in Slot
         /\ \/ i < NumPC /\ i' = i + 1 /\ mpc' = mpc
            \/ i = NumPC /\ i' = 1 /\ mpc' = next
BY NumAssumption DEF NextSlot, TypeOK, Slot

LEMMA AcceptStep == ASSUME IInv, Accept PROVE IInv'
<1> USE DEF IInv
<1>1. /\ UNCHANGED <<num_thread, all_threads, thread, results, before, wpc, task,
                     tcp_socket, down, written, read, wend, mend>>
      /\ mpc = "accept" /\ backlog # <<>>
      /\ fd' = [fd EXCEPT ![i] = Head(backlog)] /\ backlog' = Tail(backlog)
      /\ NextSlot("count")
  BY DEF Accept, workers
<1>2. /\ i \in 1..NumPC /\ NumPC \in Nat /\ NumPC >= 1 /\ i' \in Slot
      /\ \/ i < NumPC /\ i' = i + 1 /\ mpc' = mpc
         \/ i = NumPC /\ i' = 1 /\ mpc' = "count"
  BY <1>1, NextSlotIs
<1> DEFINE w == Head(backlog)
<1>3. /\ w = backlog[1] /\ w \in Worker /\ Len(backlog) \in Nat /\ Len(backlog) >= 1
      /\ backlog' \in Seq(Worker) /\ Len(backlog') = Len(backlog) - 1
      /\ \A a \in 1..(Len(backlog) - 1) : backlog'[a] = backlog[a + 1]
  BY <1>1 DEF TypeOK
<1> HIDE DEF w
<1>4. TypeOK'
  BY <1>1, <1>2, <1>3 DEF TypeOK, Slot, w
<1>5. /\ wpc[w] \in Connected /\ \A s \in Slot : fd[s] # w
      /\ \A a \in 1..(Len(backlog) - 1) : backlog'[a] # w
  BY <1>3 DEF OnePlace
<1>6. OnePlace'
  <2>1. \A a, b \in 1..Len(backlog') : backlog'[a] = backlog'[b] => a = b
    BY SMTT(30), <1>3 DEF OnePlace
  <2>2. \A s \in Slot : fd'[s] = IF s = i THEN w ELSE fd[s]
    BY <1>1 DEF TypeOK, w
  <2>3. \A a \in 1..Len(backlog') :
          /\ wpc'[backlog'[a]] \in Connected
          /\ \A s \in Slot : fd'[s] # backlog'[a]
    BY <1>1, <1>3, <1>5, <2>2 DEF OnePlace
  <2>4. \A s \in Slot : fd'[s] \in Worker => wpc'[fd'[s]] \in Connected
    BY <1>1, <1>5, <2>2 DEF OnePlace
  <2>5. \A s, r \in Slot : fd'[s] = fd'[r] /\ fd'[s] \in Worker => s = r
    BY <1>5, <2>2 DEF OnePlace
  <2>6. mpc' = "accept" => \A s \in Slot : s >= i' => fd'[s] = Descriptor0
    BY <1>1, <1>2, <2>2 DEF OnePlace, Slot
  <2> QED BY <1>1, <1>2, <2>1, <2>3, <2>4, <2>5, <2>6 DEF OnePlace
<1>7. Divided'
  BY <1>1, <1>2 DEF Divided, Uninformed
<1>8. WordsRead'
  BY <1>1, <1>2 DEF WordsRead
<1>9. Tasks'
  BY <1>1, <1>2 DEF Tasks, Uninformed, Informed, Result
<1>10. MisreadIsEmpty'
  BY <1>1 DEF MisreadIsEmpty
<1> QED BY <1>4, <1>6, <1>7, <1>8, <1>9, <1>10

LEMMA AcceptFailsStep == ASSUME IInv, AcceptFails PROVE IInv'
<1> USE DEF IInv
<1>1. /\ UNCHANGED <<fd, num_thread, all_threads, thread, results, before, wpc, task,
                     tcp_socket, backlog, down, written, read, wend, mend>>
      /\ mpc = "accept" /\ mpc' = "sum" /\ i' = 1
  BY DEF AcceptFails, workers, slots, network, port
<1>2. TypeOK'
  BY <1>1, NumAssumption DEF TypeOK, Slot
<1>3. OnePlace'
  BY <1>1 DEF OnePlace
<1>4. Divided'
  BY <1>1 DEF Divided, Uninformed, Tiled
<1>5. WordsRead'
  BY <1>1 DEF WordsRead
<1>6. Tasks'
  BY <1>1 DEF Tasks, Uninformed, Informed, Result
<1>7. MisreadIsEmpty'
  BY <1>1 DEF MisreadIsEmpty
<1> QED BY <1>2, <1>3, <1>4, <1>5, <1>6, <1>7

LEMMA SendTcpConnectStep == ASSUME IInv, NEW w \in Worker, SendTcpConnect(w) PROVE IInv'
<1> USE DEF IInv
<1>1. /\ UNCHANGED <<mpc, i, fd, num_thread, all_threads, thread, results, before, task,
                     tcp_socket, down, written, read>>
      /\ wpc[w] = "greeted" /\ wpc' = [wpc EXCEPT ![w] = "connected"]
      /\ backlog' = Append(backlog, w)
      /\ wend' = [wend EXCEPT ![w] = "open"] /\ mend' = [mend EXCEPT ![w] = "open"]
  BY DEF SendTcpConnect, Goto, manager, slots
<1>2. TypeOK'
  BY <1>1 DEF TypeOK, End
<1>3. /\ \A a \in 1..Len(backlog) : backlog[a] # w
      /\ \A s \in Slot : fd[s] # w
  BY <1>1 DEF OnePlace, Connected
<1>4. OnePlace'
  <2>1. /\ Len(backlog') = Len(backlog) + 1 /\ backlog'[Len(backlog) + 1] = w
        /\ \A a \in 1..Len(backlog) : backlog'[a] = backlog[a]
        /\ Len(backlog) \in Nat
    BY <1>1 DEF TypeOK
  <2>2. /\ \A v \in Worker : wpc[v] \in Connected => wpc'[v] \in Connected
        /\ wpc'[w] \in Connected
    BY <1>1 DEF TypeOK, Connected
  <2>3. \A a, b \in 1..Len(backlog') : backlog'[a] = backlog'[b] => a = b
    BY <1>3, <2>1 DEF OnePlace
  <2>4. \A a \in 1..Len(backlog') :
          /\ wpc'[backlog'[a]] \in Connected
          /\ \A s \in Slot : fd[s] # backlog'[a]
    <3>1. \A a \in 1..Len(backlog) : backlog[a] \in Worker
      BY DEF TypeOK
    <3> QED BY <1>3, <2>1, <2>2, <3>1 DEF OnePlace
  <2> QED BY <1>1, <2>2, <2>3, <2>4 DEF OnePlace
<1>5. Divided'
  BY <1>1 DEF Divided, Uninformed, Tiled
<1>6. WordsRead'
  BY <1>1 DEF WordsRead
<1>7. Tasks'
  <2>1. \A v \in Worker : /\ Informed(v)' <=> Informed(v)
                          /\ wpc'[v] \in WorkerEnded <=> wpc[v] \in WorkerEnded
    BY <1>1 DEF Informed, TypeOK, WorkerEnded
  <2>2. \A v : HasTask(v)' <=> HasTask(v)
    BY <1>1 DEF HasTask, Share
  <2>3. \A s \in Slot : HasTask(fd[s])' <=> HasTask(fd[s])
    BY <1>1 DEF HasTask, Share
  <2>4. \A s : Share(s)' = Share(s)
    BY <1>1 DEF Share
  <2> QED BY <1>1, <2>1, <2>2, <2>3, <2>4 DEF Tasks, Uninformed
<1>8. MisreadIsEmpty'
  BY <1>1 DEF MisreadIsEmpty
<1> QED BY <1>2, <1>4, <1>5, <1>6, <1>7, <1>8

\* What a step of the manager that receives takes from a stream.
LEMMA RecvDataIs ==
  ASSUME IInv, NEW w, NEW n \in {1, 2}, RecvData(w, n)
  PROVE  /\ w \in Worker /\ read[w] < written[w] /\ wend' = wend
         /\ read' \in [Worker -> 0..3]
         /\ \A v \in Worker : v # w => read'[v] = read[v]
         /\ read'[w] <= written[w]
         /\ read[w] = 0 /\ n = 1 => read'[w] = 1
         /\ read[w] = 1 /\ n = 2 => Received(w, n) = Result
         /\ Received(w, n) = Result => written[w] = 3
         /\ Received(w, n) \subseteq Word
<1>1. /\ w \in Worker /\ read[w] < written[w] /\ wend' = wend
      /\ read' = [read EXCEPT ![w] = read[w] + Cardinality(Received(w, n))]
  BY DEF RecvData
<1>2. read \in [Worker -> 0..3]
  BY DEF IInv, TypeOK
<1>3. read'[w] = read[w] + Cardinality(Received(w, n))
  BY <1>1, <1>2
<1> QED BY <1>1, <1>2, <1>3, ReceivedIs DEF IInv

\* A recv() that fails takes nothing.
LEMMA RecvErrorIs ==
  ASSUME IInv, NEW w, RecvError(w)
  PROVE  read' = read /\ wend' \in [Worker -> End]
BY DEF RecvError, IInv, TypeOK, End

LEMMA ReceiveCountStep == ASSUME IInv, ReceiveCount PROVE IInv'
<1> USE DEF IInv
<1> DEFINE w == fd[i]
<1>1. /\ UNCHANGED <<fd, all_threads, thread, results, before, wpc, task, tcp_socket,
                     backlog, down, written, mend>>
      /\ mpc = "count"
      /\ \/ /\ RecvData(w, 1) /\ NextSlot("sum")
            /\ num_thread' = [num_thread EXCEPT ![i] = NumThread[w]]
         \/ RecvError(w) /\ NextSlot("sum") /\ num_thread' = num_thread
         \/ RecvEnd(w) /\ mpc' = "sum" /\ i' = 1 /\ num_thread' = num_thread
  BY DEF ReceiveCount, workers, port
<1>2. /\ i \in Slot /\ i' \in Slot /\ i \in 1..NumPC /\ NumPC \in Nat
      /\ (mpc' = "count" /\ i' = i + 1) \/ (mpc' = "sum" /\ i' = 1)
  <2>1. i \in Slot /\ 1 \in Slot /\ i \in 1..NumPC /\ NumPC \in Nat
    BY NumAssumption DEF TypeOK, Slot
  <2>2. CASE NextSlot("sum")
    BY <1>1, <2>1, <2>2, NextSlotIs
  <2> QED BY <1>1, <2>1, <2>2
<1>3. /\ read' \in [Worker -> 0..3] /\ wend' \in [Worker -> End]
      /\ \A v \in Worker : v # w => read'[v] = read[v]
      /\ \A v \in Worker : read'[v] <= written[v]
      /\ \/ w \in Worker /\ num_thread' = [num_thread EXCEPT ![i] = NumThread[w]]
            /\ (read[w] = 0 => read'[w] = 1)
         \/ read' = read /\ num_thread' = num_thread
  <2>1. read \in [Worker -> 0..3] /\ wend \in [Worker -> End]
    BY DEF TypeOK
  <2>2. CASE RecvData(w, 1) /\ num_thread' = [num_thread EXCEPT ![i] = NumThread[w]]
    BY <2>1, <2>2, RecvDataIs DEF WordsRead
  <2>3. CASE RecvError(w) /\ num_thread' = num_thread
    BY <2>1, <2>3, RecvErrorIs DEF WordsRead
  <2>4. CASE RecvEnd(w) /\ num_thread' = num_thread
    BY <2>1, <2>4 DEF RecvEnd, WordsRead
  <2> QED BY <1>1, <2>2, <2>3, <2>4
<1>4. TypeOK'
  <2>1. num_thread' \in [Slot -> Nat]
    BY <1>3, NumAssumption DEF TypeOK
  <2>2. mpc' \in {"count", "sum"}
    BY <1>2
  <2> QED BY <1>1, <1>2, <1>3, <2>1, <2>2 DEF TypeOK
<1>5. OnePlace'
  BY <1>1, <1>2 DEF OnePlace
<1>6. Divided'
  <2>1. thread = 0 /\ all_threads = 0
    BY <1>1 DEF Divided, Uninformed
  <2>2. CASE mpc' = "count"
    BY <1>1, <2>1, <2>2 DEF Divided, Uninformed
  <2>3. CASE mpc' = "sum"
    <3>1. i' = 1
      BY <1>2, <2>3
    <3>2. Tiled(i - 1)'
      BY <1>1, <2>1, <3>1 DEF Tiled
    <3> QED BY <1>1, <2>1, <2>3, <3>2 DEF Divided, Uninformed
  <2> QED BY <1>2, <2>2, <2>3
<1>7. WordsRead'
  <2>1. \A s \in Slot : s > i => num_thread'[s] = 0 /\ (fd[s] \in Worker => read'[fd[s]] = 0)
    <3>1. \A s \in Slot : s > i => num_thread'[s] = num_thread[s]
      BY <1>2, <1>3 DEF TypeOK, Slot
    <3>2. \A s \in Slot : s > i /\ fd[s] \in Worker => read'[fd[s]] = read[fd[s]]
      BY <1>2, <1>3 DEF OnePlace, Slot
    <3> QED BY <1>1, <1>2, <3>1, <3>2 DEF WordsRead, Slot
  <2>2. \A s \in Slot : num_thread'[s] # 0 => fd[s] \in Worker /\ read'[fd[s]] = 1
    <3>1. ASSUME NEW s \in Slot, s # i, num_thread'[s] # 0
          PROVE  fd[s] \in Worker /\ read'[fd[s]] = 1
      <4>1. num_thread'[s] = num_thread[s]
        BY <1>3, <3>1 DEF TypeOK
      <4>2. fd[s] \in Worker /\ read[fd[s]] = 1
        BY <1>1, <3>1, <4>1 DEF WordsRead
      <4>3. fd[s] # w
        BY <1>2, <3>1, <4>2 DEF OnePlace
      <4> QED BY <1>3, <4>2, <4>3
    <3>2. num_thread'[i] # 0 => fd[i] \in Worker /\ read'[fd[i]] = 1
      BY <1>1, <1>2, <1>3 DEF WordsRead, Slot
    <3> QED BY <3>1, <3>2
  <2> QED BY <1>1, <1>2, <1>3, <2>1, <2>2 DEF WordsRead, Slot
<1>8. Tasks'
  BY <1>1, <1>2 DEF Tasks, Uninformed, Informed, Result
<1>9. MisreadIsEmpty'
  BY <1>1 DEF MisreadIsEmpty, Tasks, Uninformed
<1> QED BY <1>4, <1>5, <1>6, <1>7, <1>8, <1>9

\* The ranges that are numbered one after the other do not overlap.
LEMMA SumThreadsStep == ASSUME IInv, SumThreads PROVE IInv'
<1> USE DEF IInv
<1>1. /\ UNCHANGED <<fd, num_thread, thread, results, wpc, task, tcp_socket,
                     backlog, down, written, read, wend, mend>>
      /\ mpc = "sum" /\ NextSlot("split")
      /\ before' = [before EXCEPT ![i] = all_threads]
      /\ all_threads' = all_threads + num_thread[i]
  BY DEF SumThreads, workers, network, port
<1>2. /\ i \in 1..NumPC /\ NumPC \in Nat /\ NumPC >= 1 /\ i' \in Slot
      /\ \/ i < NumPC /\ i' = i + 1 /\ mpc' = "sum"
         \/ i = NumPC /\ i' = 1 /\ mpc' = "split"
  BY <1>1, NextSlotIs
<1>3. /\ all_threads \in Nat /\ num_thread[i] \in Nat
      /\ \A s \in Slot : /\ num_thread[s] \in Nat /\ before[s] \in Nat
                         /\ before'[s] = IF s = i THEN all_threads ELSE before[s]
  BY <1>1, <1>2 DEF TypeOK, Slot
<1>4. TypeOK'
  <2>1. before' \in [Slot -> Nat] /\ all_threads' \in Nat
    BY <1>1, <1>3 DEF TypeOK
  <2> QED BY <1>1, <1>2, <2>1 DEF TypeOK
<1>5. OnePlace'
  BY <1>1, <1>2 DEF OnePlace
<1>6. Divided'
  <2> DEFINE b == before'
             all == all_threads'
  <2>1. Tiled(i - 1) /\ (i = 1 => all_threads = 0) /\ thread = 0
    BY <1>1 DEF Divided, Uninformed
  <2>2. /\ \A s, r \in 1..i : s < r => b[s] + num_thread[s] <= b[r]
        /\ \A s \in 1..i : b[s] + num_thread[s] <= all
    BY <1>1, <1>2, <1>3, <2>1 DEF Tiled, Slot
  <2>3. \A u \in 0..(all - 1) : \E s \in 1..i : b[s] <= u /\ u < b[s] + num_thread[s]
    <3>1. SUFFICES ASSUME NEW u \in 0..(all - 1)
                   PROVE  \E s \in 1..i : b[s] <= u /\ u < b[s] + num_thread[s]
      OBVIOUS
    <3>2. CASE u < all_threads
      <4>1. PICK s \in 1..(i - 1) : before[s] <= u /\ u < before[s] + num_thread[s]
        BY <1>2, <1>3, <2>1, <3>2 DEF Tiled
      <4>2. s \in 1..i /\ b[s] = before[s]
        BY <1>2, <1>3, <4>1 DEF Slot
      <4> QED BY <4>1, <4>2
    <3>3. CASE u >= all_threads
      <4>1. i \in 1..i /\ b[i] = all_threads /\ all = all_threads + num_thread[i]
        BY <1>1, <1>2, <1>3 DEF Slot
      <4>2. all_threads <= u /\ u < all_threads + num_thread[i]
        BY <1>3, <3>3, <4>1
      <4> QED BY <4>1, <4>2
    <3> QED BY <1>3, <3>2, <3>3
  <2>4. /\ \A s \in 1..(i - 1) : b[s + 1] = b[s] + num_thread[s]
        /\ b[1] = 0 /\ all = b[i] + num_thread[i]
    BY <1>1, <1>2, <1>3, <2>1 DEF Tiled, Slot
  <2>5. CASE mpc' = "sum"
    <3>1. i' - 1 = i
      BY <1>2, <2>5
    <3>2. Tiled(i - 1)'
      BY <1>1, <2>2, <2>3, <2>4, <3>1 DEF Tiled
    <3> QED BY <1>1, <1>2, <2>1, <2>5, <3>2 DEF Divided, Uninformed
  <2>6. CASE mpc' = "split"
    <3>1. i = NumPC /\ i' = 1
      BY <1>2, <2>6
    <3>2. Tiled(NumPC)'
      BY <1>1, <2>2, <2>3, <2>4, <3>1 DEF Tiled
    <3>3. thread' = b[i']
      BY <1>1, <2>1, <2>4, <3>1
    <3> QED BY <2>6, <3>2, <3>3 DEF Divided, Uninformed
  <2> QED BY <1>2, <2>5, <2>6
<1>7. WordsRead'
  BY <1>1, <1>2 DEF WordsRead
<1>8. Tasks'
  BY <1>1, <1>2 DEF Tasks, Uninformed, Informed, Result
<1>9. MisreadIsEmpty'
  BY <1>1 DEF MisreadIsEmpty
<1> QED BY <1>4, <1>5, <1>6, <1>7, <1>8, <1>9

\* Each connection is sent the range that was numbered for it.
LEMMA SendWorkStep == ASSUME IInv, SendWork PROVE IInv'
<1> USE DEF IInv
<1>1. /\ UNCHANGED <<fd, num_thread, all_threads, results, before, wpc, task, tcp_socket,
                     backlog, written, read, mend>>
      /\ mpc = "split" /\ NextSlot("collect") /\ thread' = thread + num_thread[i]
  BY DEF SendWork, workers, port
<1>2. /\ i \in 1..NumPC /\ NumPC \in Nat /\ NumPC >= 1 /\ i' \in Slot
      /\ \/ i < NumPC /\ i' = i + 1 /\ mpc' = "split"
         \/ i = NumPC /\ i' = 1 /\ mpc' = "collect"
  BY <1>1, NextSlotIs
<1>3. thread = before[i] /\ WorkTask = Share(i)
  BY <1>1 DEF Divided, WorkTask, Share
<1>4. WorkTask \in Task
  BY <1>2, <1>3 DEF Share, Task, TypeOK, Slot
<1>5. /\ down' = down \/ (fd[i] \in Worker /\ down' = [down EXCEPT ![fd[i]] = {WorkTask}])
      /\ wend' \in [Worker -> End]
  BY DEF SendWork, TypeOK, End
<1>6. TypeOK'
  <2>1. thread' \in Nat
    BY <1>1, <1>2 DEF TypeOK, Slot
  <2>2. down' \in [Worker -> SUBSET Task]
    <3>1. down \in [Worker -> SUBSET Task] /\ {WorkTask} \in SUBSET Task
      BY <1>4 DEF TypeOK
    <3> QED BY <1>5, <3>1
  <2> QED BY <1>1, <1>2, <1>5, <2>1, <2>2 DEF TypeOK
<1>7. OnePlace'
  BY <1>1, <1>2 DEF OnePlace
<1>8. Divided'
  <2>1. Tiled(NumPC) /\ Tiled(NumPC)' = Tiled(NumPC)
    BY <1>1 DEF Divided, Tiled
  <2>2. mpc' = "split" => thread' = before[i']
    BY <1>1, <1>2, <1>3, <2>1 DEF Tiled
  <2> QED BY <1>1, <1>2, <2>1, <2>2 DEF Divided, Uninformed
<1>9. WordsRead'
  BY <1>1, <1>2 DEF WordsRead
<1>10. \A s : Share(s)' = Share(s)
  BY <1>1 DEF Share
<1>11. Tasks'
  <2>1. ASSUME NEW w \in Worker, NEW t \in down'[w]
        PROVE  \E s \in Slot : fd[s] = w /\ t = Share(s)
    <3>1. down \in [Worker -> SUBSET Task] /\ i \in Slot
      BY <1>2 DEF TypeOK, Slot
    <3>2. t \in down[w] \/ (fd[i] = w /\ t = WorkTask)
      BY <1>5, <2>1, <3>1
    <3> QED BY <1>3, <3>1, <3>2 DEF Tasks
  <2>2. \A w : (Informed(w)' <=> Informed(w)) /\ (HasTask(w)' <=> HasTask(w))
    BY <1>1, <1>10 DEF Informed, HasTask
  <2>3. \A s \in Slot : HasTask(fd[s])' <=> HasTask(fd[s])
    BY <1>1, <1>10 DEF HasTask
  <2> QED BY <1>1, <1>2, <1>10, <2>1, <2>2, <2>3 DEF Tasks, Uninformed
<1>12. MisreadIsEmpty'
  BY <1>1 DEF MisreadIsEmpty
<1> QED BY <1>6, <1>7, <1>8, <1>9, <1>11, <1>12

\* A connection that has a part is read when one word of it has been taken, so
\* what comes next is the result.
LEMMA ReceiveResultStep == ASSUME IInv, ReceiveResult PROVE IInv'
<1> USE DEF IInv
<1> DEFINE w == fd[i]
<1>1. /\ UNCHANGED <<fd, num_thread, all_threads, thread, before, wpc, task, down, written>>
      /\ mpc = "collect"
      /\ \/ RecvData(w, 2) /\ results' = [results EXCEPT ![i] = Received(w, 2)]
         \/ RecvError(w) /\ results' = results
  BY DEF ReceiveResult, workers
<1>2. /\ i \in 1..NumPC /\ NumPC \in Nat /\ NumPC >= 1 /\ i' \in Slot
      /\ \/ i < NumPC /\ i' = i + 1 /\ mpc' = "collect"
         \/ i = NumPC /\ i' = 1 /\ mpc' = "printed"
  BY NumAssumption DEF ReceiveResult, TypeOK, Slot, EndManager
<1>3. /\ tcp_socket' \in {tcp_socket, "closed"} /\ (backlog' = backlog \/ backlog' = <<>>)
      /\ mend' \in [Worker -> End]
      /\ \A v \in Worker : mend'[v] = "gone" <=> mend[v] = "gone"
  <2>1. CASE UNCHANGED <<port, mend>>
    BY <2>1 DEF port, TypeOK
  <2>2. CASE EndManager("printed")
    BY <2>2, Closes
  <2> QED BY <2>1, <2>2 DEF ReceiveResult
<1>4. /\ read' \in [Worker -> 0..3] /\ wend' \in [Worker -> End]
      /\ \A v \in Worker : v # w => read'[v] = read[v]
      /\ \A v \in Worker : read'[v] <= written[v]
      /\ \/ /\ w \in Worker /\ results' = [results EXCEPT ![i] = Received(w, 2)]
            /\ Received(w, 2) \subseteq Word
            /\ read[w] = 1 => Received(w, 2) = Result
            /\ Received(w, 2) = Result => written[w] = 3
         \/ read' = read /\ results' = results
  <2>1. read \in [Worker -> 0..3] /\ wend \in [Worker -> End]
    BY DEF TypeOK
  <2>2. CASE RecvData(w, 2) /\ results' = [results EXCEPT ![i] = Received(w, 2)]
    BY <2>1, <2>2, RecvDataIs DEF WordsRead
  <2>3. CASE RecvError(w) /\ results' = results
    BY <2>1, <2>3, RecvErrorIs DEF WordsRead
  <2> QED BY <1>1, <2>2, <2>3
<1>5. \A s \in Slot : s # i => results'[s] = results[s]
  BY <1>4 DEF TypeOK
<1>6. TypeOK'
  <2>1. results' \in [Slot -> SUBSET Word]
    BY <1>4 DEF TypeOK
  <2>2. mpc' \in {"collect", "printed"} /\ backlog' \in Seq(Worker)
    <3>1. CASE backlog' = <<>>
      BY <1>2, <3>1
    <3>2. CASE backlog' = backlog
      BY <1>2, <3>2 DEF TypeOK
    <3> QED BY <1>3, <3>1, <3>2
  <2> QED BY <1>1, <1>2, <1>3, <1>4, <2>1, <2>2 DEF TypeOK, ManagerEnded
<1>7. OnePlace'
  <2>1. CASE backlog' = backlog
    BY <1>1, <1>2, <2>1 DEF OnePlace
  <2>2. CASE backlog' = <<>>
    BY <1>1, <1>2, <2>2 DEF OnePlace
  <2> QED BY <1>3, <2>1, <2>2
<1>8. Divided'
  <2>1. Tiled(NumPC)' = Tiled(NumPC)
    BY <1>1 DEF Tiled
  <2> QED BY <1>1, <1>2, <2>1 DEF Divided, Uninformed
<1>9. WordsRead'
  <2>1. ASSUME NEW s \in Slot, s > i, num_thread[s] # 0
        PROVE  fd[s] \in Worker /\ read'[fd[s]] = 1
    <3>1. fd[s] \in Worker /\ read[fd[s]] = 1
      BY <1>1, <1>2, <2>1 DEF WordsRead, Slot
    <3>2. fd[s] # w
      BY <1>2, <2>1, <3>1 DEF OnePlace, Slot
    <3> QED BY <1>4, <3>1, <3>2
  <2> QED BY <1>1, <1>2, <1>4, <2>1 DEF WordsRead, Slot
<1>10. \A s : Share(s)' = Share(s)
  BY <1>1 DEF Share
<1>11. /\ \A v \in Worker : Informed(v)' <=> Informed(v)
       /\ \A v : HasTask(v)' <=> HasTask(v)
       /\ \A s \in Slot : HasTask(fd[s])' <=> HasTask(fd[s])
  BY <1>1, <1>3, <1>10 DEF Informed, HasTask
<1>12. Tasks'
  <2>1. ASSUME NEW s \in Slot, results'[s] = Result
        PROVE  fd[s] \in Worker /\ HasTask(fd[s]) /\ wpc[fd[s]] \in WorkerEnded
    <3>1. CASE s # i
      BY <1>5, <2>1, <3>1 DEF Tasks
    <3>2. CASE s = i /\ results' = results
      BY <2>1, <3>2 DEF Tasks
    <3>3. CASE s = i /\ results' = [results EXCEPT ![i] = Received(w, 2)]
                /\ w \in Worker /\ (Received(w, 2) = Result => written[w] = 3)
      <4>1. written[w] = 3
        BY <2>1, <3>3 DEF TypeOK
      <4> QED BY <3>3, <4>1 DEF Tasks, Informed
    <3> QED BY <1>4, <3>1, <3>2, <3>3
  <2>2. mpc' = "collect" => \A s \in Slot : s >= i' => results'[s] = {}
    BY <1>1, <1>2, <1>5 DEF Tasks, Slot
  <2> QED BY <1>1, <1>2, <1>10, <1>11, <2>1, <2>2 DEF Tasks, Uninformed
<1>13. MisreadIsEmpty'
  <2>1. ASSUME NEW s \in Slot, results'[s] \notin {{}, Result}
        PROVE  num_thread[s] = 0
    <3>1. CASE s # i
      BY <1>5, <2>1, <3>1 DEF MisreadIsEmpty
    <3>2. CASE s = i /\ results' = results
      BY <2>1, <3>2 DEF MisreadIsEmpty
    <3>3. CASE s = i /\ results' = [results EXCEPT ![i] = Received(w, 2)]
                /\ (read[w] = 1 => Received(w, 2) = Result)
      <4>1. read[w] # 1
        BY <2>1, <3>3 DEF TypeOK
      <4>2. num_thread[i] # 0 => read[w] = 1
        BY <1>1, <1>2 DEF WordsRead, Slot
      <4> QED BY <3>3, <4>1, <4>2
    <3> QED BY <1>4, <3>1, <3>2, <3>3
  <2> QED BY <1>1, <2>1 DEF MisreadIsEmpty
<1> QED BY <1>6, <1>7, <1>8, <1>9, <1>12, <1>13

LEMMA StutterStep == ASSUME IInv, UNCHANGED vars PROVE IInv'
<1>1. /\ UNCHANGED <<slots, read, mpc, i, wpc, task, tcp_socket, backlog, down, written, wend, mend>>
      /\ UNCHANGED <<fd, num_thread, all_threads, thread, results, before>>
  BY DEF vars, manager, slots, workers, network, port
<1>2. TypeOK'
  BY <1>1 DEF IInv, TypeOK
<1>3. ASSUME NEW w \in Worker PROVE WorkerGoesOn(w)
  BY <1>1, WordTypes DEF WorkerGoesOn, Informed, IInv, Tasks
<1> QED BY <1>1, <1>2, <1>3, Frame DEF ManagerGoesOn

LEMMA StepIInv == ASSUME IInv, [Next]_vars PROVE IInv'
<1>1. CASE ManagerStep
  BY <1>1, StartTcpSocketStep, HelloStep, AcceptStep, AcceptFailsStep, ReceiveCountStep,
     SumThreadsStep, SendWorkStep, ManagerFailsStep, ReceiveResultStep DEF ManagerStep
<1>2. ASSUME NEW w \in Worker, BindUdp(w) \/ ReceiveMessFails(w) \/ WorkerStep(w) PROVE IInv'
  BY <1>2, MovesStep, WorkerFailsStep, SendTcpConnectStep, SendWorkThreadsStep, WaitWorkStep,
     WaitWorkFailsStep, SendResultStep DEF WorkerStep
<1>3. ASSUME NEW w \in Worker, KillWorker(w) \/ LoseLink(w) PROVE IInv'
  BY <1>3, KillWorkerStep, LoseLinkStep
<1>4. CASE KillManager
  BY <1>4, ManagerFailsStep
<1> QED BY <1>1, <1>2, <1>3, <1>4, StutterStep DEF Next

----------------------------------------------------------------------------

LEMMA Invariance == Spec => []IInv
BY InitIInv, StepIInv, PTL DEF Spec

\* Every variable keeps its type; the loops of the manager stay within its
\* connections and the streams within their three words.
THEOREM TypeCorrect == Spec => []TypeOK
BY Invariance, PTL DEF IInv

\* SplitSendWork gives every unit of the interval to one connection and sends
\* each connection its range, for any numbers of threads, 0 among them.
THEOREM SharesAlwaysTile == Spec => []SharesTile
<1>1. ASSUME IInv PROVE SharesTile
  <2>1. mpc = "split" => WorkTask = Share(i)
    BY <1>1 DEF IInv, Divided, WorkTask, Share
  <2>2. ASSUME mpc \in {"split", "collect", "printed"}, NEW u \in 0..(all_threads - 1)
        PROVE  \E s \in Slot : /\ u \in Units(Share(s))
                               /\ \A r \in Slot \ {s} : u \notin Units(Share(r))
    <3>1. /\ \A s \in Slot : before[s] \in Nat /\ num_thread[s] \in Nat
          /\ all_threads \in Nat /\ NumPC \in Nat
      BY <1>1, NumAssumption DEF IInv, TypeOK
    <3>2. Tiled(NumPC)
      BY <1>1, <2>2 DEF IInv, Divided
    <3>3. \A s \in Slot : u \in Units(Share(s)) <=> before[s] <= u /\ u < before[s] + num_thread[s]
      BY <3>1 DEF Units, Share
    <3>4. PICK s \in Slot : before[s] <= u /\ u < before[s] + num_thread[s]
      BY <3>2 DEF Tiled, Slot
    <3>5. ASSUME NEW r \in Slot \ {s} PROVE u \notin Units(Share(r))
      BY <3>1, <3>2, <3>3, <3>4 DEF Tiled, Slot
    <3> QED BY <3>3, <3>4, <3>5
  <2> QED BY <2>1, <2>2 DEF SharesTile
<1> QED BY <1>1, Invariance, PTL

\* A number of threads that is read as a result is only read from a worker whose
\* range is empty (manager.c:267).
THEOREM MisreadIsAlwaysEmpty == Spec => []MisreadIsEmpty
BY Invariance, PTL DEF IInv

\* The sum that is printed has no unit twice, and has every unit when each worker
\* that has a range was heard of in time.
THEOREM SumIsAlwaysWhole == Spec => []SumIsWhole
<1>1. ASSUME IInv PROVE SumIsWhole
  <2>1. SUFFICES ASSUME mpc = "printed", NEW u \in 0..(all_threads - 1)
        PROVE  LET adders == {s \in Slot : Answered(s) /\ u \in Units(task[fd[s]])}
               IN  /\ \A s, r \in adders : s = r
                   /\ (\A s \in Slot : num_thread[s] > 0 => results[s] # {}) => adders # {}
    BY DEF SumIsWhole
  <2> DEFINE adders == {s \in Slot : Answered(s) /\ u \in Units(task[fd[s]])}
  <2>2. /\ \A s \in Slot : before[s] \in Nat /\ num_thread[s] \in Nat
        /\ all_threads \in Nat /\ NumPC \in Nat
    BY <1>1, NumAssumption DEF IInv, TypeOK
  <2>3. Tiled(NumPC)
    BY <1>1, <2>1 DEF IInv, Divided
  <2>4. \A s \in Slot : Answered(s) => task[fd[s]] = Share(s)
    <3>1. SUFFICES ASSUME NEW s \in Slot, Answered(s) PROVE task[fd[s]] = Share(s)
      OBVIOUS
    <3>2. fd[s] \in Worker /\ HasTask(fd[s])
      BY <1>1, <3>1 DEF IInv, Tasks, Answered
    <3>3. PICK r \in Slot : fd[r] = fd[s] /\ task[fd[s]] = Share(r)
      BY <3>2 DEF HasTask
    <3>4. r = s
      BY <1>1, <3>2, <3>3 DEF IInv, OnePlace
    <3> QED BY <3>3, <3>4
  <2>5. \A s \in Slot : u \in Units(Share(s)) <=> before[s] <= u /\ u < before[s] + num_thread[s]
    BY <2>2 DEF Units, Share
  <2>6. ASSUME NEW s \in adders, NEW r \in adders PROVE s = r
    BY <2>2, <2>3, <2>4, <2>5, <2>6 DEF Tiled, Slot
  <2>7. ASSUME \A s \in Slot : num_thread[s] > 0 => results[s] # {}
        PROVE  adders # {}
    <3>1. PICK s \in Slot : before[s] <= u /\ u < before[s] + num_thread[s]
      BY <2>3 DEF Tiled, Slot
    <3>2. num_thread[s] > 0
      BY <2>2, <3>1
    <3>3. results[s] # {}
      BY <2>7, <3>2
    <3>4. Answered(s)
      BY <1>1, <3>2, <3>3 DEF IInv, MisreadIsEmpty, Answered
    <3>5. u \in Units(task[fd[s]])
      BY <2>4, <2>5, <3>1, <3>4
    <3> QED BY <3>4, <3>5
  <2> QED BY <2>6, <2>7
<1> QED BY <1>1, Invariance, PTL
=============================================================================
