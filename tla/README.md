# Verification of lunev

lunev is a collection of independent C programs: transfers of a file between
processes by every means that Unix offers (`sem3/homework/task_1` to `task_5`),
a binary tree library (`sem4/task_1`), and a numerical integration by threads
and by machines (`sem4/task_2`, `sem4/task_3`). This directory holds TLA+
models of them, the TLC configurations that check them and TLAPS proofs about
them. Every definition is translated from the C code; `PROJECT.json` gives the
lines for each. The programs share no code, so there is one specification for
each and nothing that composes them; composition happens within a program, of
processes through the kernel's objects.

## The system

| Component | State | Operations | What is hard |
|---|---|---|---|
| Shared memory transfer, `sem3/homework/task_3` | six System V semaphores with the kernel's SEM_UNDO adjustments, the buffer with its header, each process's position | every `semop()`, `semctl()`, access to the buffer; end of a process | any number of readers and writers start; each can die at any step; the semaphores and the buffer outlive them |
| Binary tree library, `sem4/task_1` | array of nodes, free list through `right`, root, counters | `createTree`, `delTree`, `changeNumberIncrease`, `addInTree`, `delInTreeByData`, `forEachTree` | long sequences of calls; order of the assignments in a deletion; allocations that fail |
| Pump, `sem3/homework/task_5` | a row of children and pipes, the ends each has inherited, a ring buffer for each, the parent's scan and its `select()` result | `fork()`, `createConnections`; `close()` and `splice()` in the children; `select()`, `readToBuffer`, `writeFromBuffer`, end of a connection in the parent | partial reads and writes, full pipes, ready sets that grow old, ends that travel down the row and are held by whoever inherited them, children that die |
| Transfer by signals, `sem3/homework/task_4` | pending and blocked signals, bit and byte in transit | `kill()`, `sigsuspend()`, handlers, `wait()` | signals do not queue; a signal may come before the wait for it; either process may end first |
| Transfer by named pipes, `sem3/homework/task_1` | the common fifo with the readers' names, a fifo for each reader | `open()`, `read()`, `write()`, five attempts with a sleep | non-blocking opens and EAGAIN; who gives up first |
| Message queue, `sem3/homework/task_2/children.c` | one System V queue, which outlives the program | `msgsnd()`, `msgrcv()`, removal | the parent receives any type and may take a child's message; children of an earlier run still wait |
| Threaded integration, `sem4/task_2`, `sem4/task_3/calc.c` | table of processors, aligned blocks with the threads' results | reading the topology, splitting, `pthread_create()`, `pthread_join()`, `free()` | extra threads that nobody joins; memory that nobody has set |
| Manager and workers, `sem4/task_3/manager.c`, `worker.c` | a port with its backlog, a connection for each worker, shares of the interval | greeting by UDP, `accept()`, number of threads, task, result | time-outs and errors taken for answers; late data read as something else |
| Lesson files, `sem3/*.c`, `sem3/lesson_3`, small tests | none | a system call or two | nothing |

The components interact only with the kernel and their own second halves:
reader and writer through semaphores and shared memory or through fifos, parent
and child through pipes, signals or a queue, manager and worker through sockets,
the tree with its caller through calls that do not overlap. The one component
inside another is the integration, which a worker calls; `Cluster` has it as one
step that succeeds or fails, for nothing else happens in the worker meanwhile.

What makes each correct:

* **Shared memory transfer**: the buffer is never used from both sides; a dead
  process leaves nothing behind that stops the next pair; success of either side
  means that the whole file was printed; nobody waits for the dead; if nobody
  fails, all readers or all writers are served.
* **Tree**: a sorted set of ints; no node both free and in use, parents and
  children that point at each other; an addition that fails changes nothing;
  every call returns.
* **Pump**: stdout is a prefix of the file, the whole of it unless a child died;
  the ring buffers are queues; the parent ends.
* **Signals**: stdout is a prefix of the file; no signal is merged with another;
  neither process outlives the other; an undisturbed file arrives. A stop of the
  child before the parent has set SA_NOCLDSTOP takes the last two away (finding 4).
* **Named pipes**: a reader prints the beginning of one writer's file, and all of
  it if both report success; a name that can be read belongs to a reader that
  listens; whoever has got past the common fifo ends.
* **Message queue**: one number is under way at most, and printed in order, even
  with children of an earlier run; the parent's message tells how many children
  were served; it comes.
* **Integration**: the table has every processor; blocks lie within their memory;
  the sum has what the threads asked for have added; none of them uses its block
  after it is freed.
* **Manager and workers**: the shares cover the interval once; what is misread as
  a result belongs to an empty share; no part is in the sum twice; manager and
  workers end.

`PROJECT.json` lists the hazards, each at its line, with the properties that
would notice it going wrong.

## Plan

Done, in this order: ShmTransfer with its abstraction FileTransfer; BinTree with
the walk; Connection, Pump, ByteQueues; Signals; Cluster; Calculation;
MessageQueue; Fifo; the pump's start; each with its proofs; then what the tree
answers and loses, and the abstractions IntSet, BitChannel and PipeTransfer. What
could follow: a receive of a task in parts, which `worker.c:190` does not provide for.

## Modules

Names with an underscore (`Connect_OfferWithoutUndo`) stand before the
definition they vary. They are slips that a programmer could have made there;
no action uses them. `PROJECT.json` ("mutants") names for every property the
slip that breaks it.

### Shared memory transfer

`ShmTransfer.tla`: `pc[p]` is the line a process is at; `sem`, `undo` and `shm`
are the kernel's and outlive every process; `out`, `last_num_bytes`, `loaded`
and `not_time_to_die` are the locals that matter. One action per `semop()`
(its operations are performed together or not at all), per `semctl()`, and per
access to the buffer, so loading a block and filling in its header are two
steps. `End` is what the kernel does when a process ends: every adjustment is
added at once, none below zero. `SetVal` also clears everybody's adjustments
of that semaphore. `Die` is enabled at every step of a process in `Mortal` and
stands both for a deadly signal and for each `exit (EXIT_FAILURE)` of
`semOperator` and its like. A block is the pair of its writer and its position;
its size is "full" or "short", since the programs only ask whether it is less
than `SIZE_DATA_PRIVATE_SHR_MEM`. `peer` is a history variable.

`FileTransfer.tla` is the promise: readers are fed by one writer each, print in
order, and success is reported only for a whole file. The refinement maps
`feeder` to `peer` and `status` to `pc`.

`ShmInductive.tla` holds the inductive invariant, `ShmProofs.tla` the proofs,
`MCShmTransfer.tla` the instances.

### Binary tree

`BinTree.tla`: the fields of `struct Tree` with their names. A call takes several
steps: a search moves a cursor one node a step, so that loops that do not end
are behaviours and not evaluation errors; what lies between two such loops is
one step. `CreateTree` covers `firstAlloc`, `IncreaseCapacity` covers
`fillDefaulValueNodes`, each with its failing allocations. `Unlinked`,
`EraseIndex` and `Erased` are `eraseIndex`, in the order of its assignments:
the deletions overwrite afterwards what it has reset, as the code does. `keys`
(what a set would hold), `chain` (the free list) and `damaged` (a deletion has
moved a subtree to the wrong side, or dropped one) are history variables.

`BinTreeWalk.tla` is the same tree seen as a set of ints: `forEachTree` as a
recursive function on the indexes, the properties that a user of the library
relies on (the walk is sorted, answers are right, nothing is lost but by a
refused duplicate), and the inductive invariant of a tree that no deletion has
damaged. `IntSet.tla` is the promise, as far as the code keeps it: one call at a
time, of which an addition may fail before it has memory; a deletion may be the
first to damage the set, and from then on deletions may lose other elements and
searches overlook one, but none appears that was not added. The refinement maps
`contents` to the data of the nodes that a walk visits, not to `keys`, and
`operation` to the step of the call. `BinTreeProofs.tla` has the proofs, `MCBinTree.tla` the instances.

### Pump

`Connection.tla` is `struct Connection` with the arithmetic of `readToBuffer`
and `writeFromBuffer` as operators on records. `Pump.tla` has the start (`Fork` for
one child after the other, `CreateConnections`, `StartFails`), the children
(`CloseInherited`, `Splice`, `Finish`, `Die`) and the parent's loop: `Select`, then for each
connection `ReadToBuffer`, `WriteFromBuffer` and `CheckFinished`, between any
two of which the children run. `readfds` and `writefds` are what `select()`
had found and may be out of date. Reads and writes are partial at will; a read
without data fails (EAGAIN), a write to a dead child's pipe kills the parent.
A byte is its position in the file. `ByteQueues.tla` is the promise of the ring
buffers: bounded queues. `passed` is a history variable. `closed[c]` says of how
many of the children before it child `c` has closed the pipes; `InputClosed(c)`,
that a child is at the end of its input, needs the parent's end closed and the
copy of every later child closed, too, or that child ended.

`PumpProofs.tla` has lemmas about the operators and the proofs, `MCPump.tla` the
instances.

### Signals

`Signals.tla`: `pending[p]` is a set, for standard signals do not queue.
`Deliverable` is the pending signals that the mask lets in: all of them in
`sigsuspend()`, all but SIGCHLD in `childDie`, which keeps the mask of the
`sigsuspend()` that it interrupts, and none elsewhere. A handler is an action; one
that returns also ends the `sigsuspend()`, or the `wait()`, that it interrupts.
The handlers of SIGCHLD do not return, and the kernel runs SIGCHLD's first, since
it stacks the frames of pending signals in ascending order: the frames of bits
that came in together with it lie below and are never reached (`ChildDie`). `End`
sends the SIGCHLD that `wait()` or `PR_SET_PDEATHSIG` provides. Start-up matters,
so the model begins at the return of `fork()`: the parent may end before `prctl()`.

`Stop` and `Continue` are SIGSTOP and SIGCONT to the child. From `main.c:118` on,
SA_NOCLDSTOP keeps them from raising SIGCHLD. Before, while the parent is at
"handlers", they do raise one (`ReportStop`); it is blocked, so it stays pending,
and installing a handler does not discard it. `early` is a history variable that
remembers that this has happened. The parent's three `sigaction()` calls are one
step (`InstallHandlers`), which stands for the first of them, since the other two
signals stay blocked until `sigsuspend()`. After an early stop `childDie` may run
while the child lives: if the first bit came in with the SIGCHLD, `wait()` waits
for a child that waits for an answer (`EachWaits`); if it comes later, its handler
ends `wait()` with EINTR, and `CHECK` the parent (`WaitFails`).

`BitChannel.tla` is the promise, without signals: the bits go through a queue
that loses, doubles and reorders none, a byte is printed when it has all its
bits, the child finishes after a whole number of bytes, all received, and the
parent only after the child. The refinement maps the queue to `InFlight`, the bit
that is pending in the parent or that a handler has just put into `received_bit`,
and `status` to `pc`, where every way to end is `finished` but a kill and the
child's failure; the parent's end cannot be told from success (finding 3). A
parent that an early stop has led into `childDie` is `broken`, as if it had been
killed: BitChannel promises nothing more of it, and what is under way is lost.
`SignalsProofs.tla` has the proofs, `MCSignals.tla` the instances.

### Manager and workers

`Cluster.tla`: `mpc` is the function that the manager is in and `i` the loop
counter there; `fd`, `num_thread` and `results` are the fields of
`connections[]`. One action per call of the manager: `StartTcpSocket`,
`SendMessForTcpConnect`, `Accept`, `ReceiveCount`, `SendWork`, `ReceiveResult`,
each with its failures, which `main()` partly ignores: after a failed `accept()`
the numbers of threads are not received (`AcceptFails`), a descriptor that was
never accepted stays 0, which is stdin. Every wait of the manager has a
time-out, so a wait without data may fail whenever it likes. One action per call
of a worker: its UDP socket, connect, number of threads, task, calculation,
result. The greeting reaches any subset of the workers that have bound their
port. A stream from a worker is three words (its number of threads, the two
halves of a double), so a late number can be taken for half of a result, which
is what `manager.c:267` does with it. `wend` and `mend` are what one side sees
of the end of the other: open, closed (`fin`), broken (`rst`), or broken and
reported (`gone`; the next `send()` is SIGPIPE). An interval is a range of
units, one for a thread. `before` is a history variable.

### Threaded integration

`Calculation.tla` is `StartCalculation`: `IdentifyingOneProcessor` is one round
of the loop that fills the table of processors from its start and from its
middle; then `AllocThreadsData`, `PrepareThreads`, `CreateThread`, `JoinThread`
(one round each), `FreeAlignMem`. A thread sets its affinity, adds its values
one by one and ends. All threads are there from the number of processors on, and
only those asked for are joined; the others go on with freed memory, so what
they read there may be anything and what they write is not followed. Addresses
are numbers, so `AlignedPoint` and the size of a block are the code's arithmetic.
A result is the number of values added to it; `found` is what `malloc()` left in
the field `result`, which nobody sets (`calc.c:211`).

### Message queue

`MessageQueue.tla`: a process is a pair of a run and a number, 0 for the parent.
`queue` tells the queue that `msgget()` finds from those removed before; `fd[p]`
is the one that a process has. `waiting` is the kernel's list of receivers:
`msgsnd()` hands the message to the first of them. `ChildRemoves` wakes them
all, and they fail. `Start` is the shell, which starts the next run once the
parent has ended, while children may be left; `Interrupt` is Ctrl-C. With an
argument of 0 the parent takes the child's branch (`IsChild`), since `ret` is
still 0. `out`, `early` and `interrupted` are history variables.

### Named pipes

`Fifo.tla`: `common` is the common fifo, a sequence of names, `fifo[r]` the one
of reader r. `OpenCommon` waits for the other side and wakes those who wait. The
calls of `fcntl()` in both programs pass `O_RDONLY` and `O_WRONLY` as commands,
which are F_DUPFD and F_GETFD; so both descriptors stay non-blocking, and a
reader that finds the fifo empty while a writer has it open fails (`ReadAgain`),
as does a writer that finds it full (`WriteFifoFails`). `NextAttempt` is the
loop with `sleep (1)`. What is in a fifo is lost when its last user ends, which
matters for the names (`End`).

`PipeTransfer.tla` is the promise, weaker than `FileTransfer.tla`: a writer
succeeds when it has sent all, whether or not the reader prints it, and a reader
when its writer has ended, however, and all that was sent is printed. It has
neither fifos nor names. The refinement maps `sent` to what the reader has in its
fifo and has printed (`Delivered`) and `status` to `pc`. `FifoProofs.tla` has the
proofs, `MCFifo.tla` the instances.

## Runs

| Run | Instance | States | What it shows |
|---|---|---|---|
| `shm` | 3 readers, 2 writers, files of 3 and 1 blocks, all mortal | 85,864 | exclusion, counters, recovery, success, sessions end, everyone is served, refinement of FileTransfer |
| `tree` | 4 keys with -1 among them, array of 2 that grows by 2 to 4 | 1,405,941 | free list, links, sorted walk, refinement of IntSet, what a failed addition loses, every call returns |
| `tree_delete` | 4 keys | violated | finding 1 |
| `pump` | 3 children, rings of 9, 3 and 1, pipes of 2, file of 5, all but the first mortal, a start that fails | 822,270 | prefix, clean runs, refinement of ByteQueues, the parent ends |
| `pump_death` | 2 children | violated | finding 2 |
| `signals` | 3 bytes of 8 bits, both mortal, failing calls, 2 stops, early ones too | 5,902 | all sent is printed, nothing merged, refinement of BitChannel; unless stopped early, both end and the file arrives |
| `signals_success` | the same, 1 stop | violated | finding 3 |
| `signals_stop` | the same, nobody killed, no failing call, 1 stop | violated | finding 4 |
| `cluster` | 2 connections, 2 workers of 1 and 2 threads, all mortal, both links may fail | 147,551 | shares, misreads, the sum, manager and workers end |
| `calculation` | every topology of 1 to 4 processors, 1 to 3 threads, three addresses, every failure | 290,973 | table, blocks, sum, freed memory, end |
| `message_queue` | 2 runs of 0 to 3 children, forks that fail, interrupts | 887,072 | one number, its order, what the parent's message says, that it comes |
| `fifo` | 2 readers, 2 writers, files of 3 and 1 buffers, fifos of 2, 2 attempts, one of each side mortal, failing calls | 56,912 | refinement of PipeTransfer, whole files, names, who has begun ends |

Why the bounds are enough. *shm*: three readers let a third one start while a
second waits and a first still owes adjustments; a file of three blocks has two
full ones, so the token goes round more than once, and a file of one block is
the boundary at which the first block is the short one; no symmetry, since
liveness and refinement are checked in the same run. *tree*: four nodes are
the least with a node of two children whose minimum has a right child, and the
array grows in between. *pump*: with three children there is a first, a middle
and a last connection; the ring of one unit is always empty or full, and a file
of five makes that of three wrap while it holds something; the first child stays
alive, for its death is to all the others the end of a shorter file
(`pump_death`, and the theorems, have it die). *signals*: the real
number of bits; the three bytes have every pair of neighbouring bits; of two stops
both, one or none can be early, and one alone raises two SIGCHLDs. *cluster*:
two connections are enough for one that is counted and one that is not, in both
orders; accepts that time out give the case of more workers, or fewer, than
connections that greeted; one worker's share is of one unit, the other's of two.
*calculation*: four processors have every kind of topology (none, some or all
cores shared, an odd number), three threads are fewer and more than processors;
the addresses are aligned to a line or not. *message_queue*: a second run meets
everything that a first can leave (the queue, a number in it, children that
wait), and three children allow two to wait behind a parent that has taken the
number. *fifo*: the file of three fits into no fifo, that of one is shorter than
one; two of each side allow names to be taken by the wrong writer.

`CHECK_DEADLOCK FALSE` where processes end: when all have ended, or the
remaining ones wait for a partner that was never started, nothing is left to
do; in `message_queue` also when children wait for a number that the parent has
taken, and in `cluster` when a worker waits for a greeting that was lost. The
tree's caller can always begin another call, so there deadlock is checked.

### Fairness

Weak fairness of each process (ShmTransfer, Pump, Signals, Fifo, MessageQueue)
or thread (Calculation): a runnable process is scheduled. Each blocking call of
ours becomes possible for good once it is possible (nobody else takes a paired
process's semaphore, a pipe that is ready stays so, a pending signal stays
pending, a receiver is served in turn), except GET-MUTEX, which competes;
`EveryoneServed` holds without strong fairness because the competitors are
finitely many and each runs once. In Fifo a user need not start a program, so
`OpenCommon` is not fair. In MessageQueue the shell need not start another run
(`Start`), and `Interrupt` is never fair. In Cluster only the manager is fair,
for it is the one whose waits all have time-outs; a worker may hang or compute
for ever. `GreetedEnds` says of each worker that it ends if that worker, and the
manager, run; the others need not. Dying and stopping are never fair; going on
after a stop is (`Continue`), as the one who stops a process is assumed to let
it go on. In BinTree the library's code runs on once called; the caller need
not call.

## Proofs

All are of the form `Spec => []Inv`, `Spec => [][A]_vars` or `Spec => Abs!Spec`,
for every value of the constants that satisfies the modules' ASSUMEs (any
readers and writers and files; any keys and capacities; any number of children
and any sizes of rings, pipes and file; any workers and connections; any machine
and number of threads; any number of children and runs). Each module has an
inductive invariant `IInv`, the proof that the initial states satisfy it, a lemma
for each action (or group of actions) that it is kept, and the theorems that
follow from it.

**`ShmProofs.tla`**. None of the safety properties is inductive. `IInv`
(ShmInductive) says who is registered in the three counters, what the kernel
still owes for each process, that FULL and EMPTY pass one token round and the
buffer belongs to whom the token's place says (`WriterTurn`, `ReaderTurn`), and
what each side relies on when its partner is gone (`ReaderData`, `WriterData`:
a reader past `checkAnotherProcessAlive` has a block that no other writer can
touch, since the next writer needs a new reader, who needs this one's end). The
proof that a step preserves it has a step for each action. From it follow
`TypeCorrect`, `Exclusion`, `AliveCounts`, `Recovery`, `Integrity`, `Success`,
`ShortLast` (an action property) and `Refinement` (`Spec => Abs!Spec`).

**`BinTreeProofs.tla`**. `IInv` adds to the types, the free list, the links and
acyclicity what a call in progress knows of its cursor (`CallSound`): only the
root, or a node that its parent refers to, can be under the cursor, so
`eraseIndex` finds the link to undo. From it follow `TypeCorrect`, `FreeList`,
`Linked`, `NoCycle` and `Cursors`. Acyclicity is stated over sets of nodes
(every non-empty set of used nodes has one without a child in the set), which
needs neither reachability nor recursion and survives the relinking of a
deletion by choosing the set anew. These theorems hold for damaged trees, too:
the deletions lose subtrees but never leave the array, never free a node twice
and never make a cycle.

The second half is about trees that are not `damaged`. `SearchTree` says of them
that the data below a node on its left are smaller and on its right greater
(`Ordered`), that no key lies in two nodes (`Distinct`), that the keys below the
root are those added and not deleted (`HoldsKeys`), and what the call in progress
knows: a search stands on the only path where its key can be (`OnPath`), the loop
for the minimum on that of the minimum (`MinIsBelow`). `Below(n)`, the subtree of a
node, is the intersection of the sets with `n` that no link leads out of, so that
"everything below" is proved by exhibiting such a set, without an induction. The
steps that change a link are placing a new node and the deletions; for these
it is shown which sets `Below` become, and that a deletion for which this
would break the order is one that sets `damaged`. It is `SearchOrder`; from it
follow the theorems on the library's answers:

* `RightAnswers`: a search that ends at `NO_VALUE` on the only path of its key has
  found that the key is absent; one that refuses a duplicate stands on it.
* `SortedWalks`: `GoRoundTree` is a recursion on children, well-founded by
  `Acyclic`, and so is the argument: the set of nodes whose walk is not the
  ascending sequence of what is below them has, if not empty, a member without
  a child in the set.
* `LostNodes`: a node in use that is not below the root can only come from
  `RefuseDuplicate`, which leaves the node it took from the free list in use.
* `TreeIsASet`, the refinement of IntSet, is again about damaged trees, too. There
  it needs that a call stands in the tree and deletes from it (`CallInTree`), that
  a node that is placed joins the nodes below the root (`Placed`), and that
  whatever a deletion links, it links a child of the node that leaves or nothing,
  so the nodes below the root get fewer (`Prunes`, `Loses`).

**`PumpProofs.tla`** begins with lemmas about the operators of Connection. `IInv`
says that head, tail and count agree (`RingsSound`), that what `select()` found is
still true of a connection whose turn has not come (`ReadyStaysReady`), that
buffers and pipes hold consecutive bytes of the file without a gap from stdout
back to the file (`Stream`), that ends travel down the row (`EndsTravel`,
`WhileAllLive`), and that the start is over before anything is read
(`NothingRead`). From it follow `TypeCorrect`, `PrefixPrinted`, `CleanRuns` and
the refinement `RingsAreQueues`.

**`SignalsProofs.tla`**. Child and parent alternate, and `IInv` says where the one
bit under way is: sent and pending (`BitPending`), taken by a handler
(`Received`), stored (`Stored`), or confirmed (`Confirmed`); in each case how far
the child's position is ahead of what the parent has printed and stored, and
that nothing else is pending. It is needed since a handler says nothing by
itself about the bits before it. From it follow `TypeCorrect`,
`PrefixIsPrinted`, `SentIsPrinted` and the action property `NothingIsMerged`, all of
which hold after early stops, too.
The refinement `SignalsAreAQueue` needs in addition that the parent has a SIGCHLD
only when the child has ended or after an early stop (`EndReported`, kept by stops
according to `StopFacts`); with `IInv` the queue is then the next bit of
the file or empty (`InFlightIs`), and there is one step for every action of the
child (`ChildMaps`) and of the parent (`ParentMaps`).

**`ClusterProofs.tla`**. `IInv`: a worker has one connection at most and is in the
backlog or in `fd`, not both (`OnePlace`); `before` is the running sum of the
numbers of threads, so the shares of lower connections end where those of higher
ones begin (`Divided`); which words have been read at each stage of a connection
(`WordsRead`); and that a task under way or taken is the share of the worker's
connection, or the empty one (`Tasks`). From it follow `TypeCorrect`,
`SharesAlwaysTile`, `MisreadIsAlwaysEmpty` and `SumIsAlwaysWhole`.

**`CalculationProofs.tla`**. `IInv` has what the table holds in every round
(`Table`), where the aligned address lies (`Memory`), which threads exist
(`Created`), what each has added (`Working`) and which were joined (`Joined`).
That the table stays inside its bounds is an argument of cardinality: at most two
processors share a core, so those that come second map one to one into the first
ones and are at most half. From it follow `TypeCorrect`, `TableIsAsDocumented`,
`BlocksAlwaysFit`, `SumIsAlwaysWhole` and `FreedIsAlwaysUnused`.

**`MessageQueueProofs.tla`**. `IInv` (as long as no run was interrupted): only the
runs that were started have processes, and all their parents but the last have
ended (`Started`); the processes of a run share the current queue or an older one
(`Queues`), who sleeps is in `waiting`, once (`Waits`), one number is
under way (`Token`), it is one more than the last one printed (`Order`), and in
the first run it counts the children that printed (`Counts`). From it follow
`NumberIsOne`, `PrintedInOrder` and `ParentHasCounted`. There is no theorem about
the types: what `Interrupt` leaves of `waiting` is a `SelectSeq`, of which the
provers know nothing.

**`FifoProofs.tla`**. `IInv`: each name is in the common fifo or with one writer,
once, and its reader has given it away (`Names`); what a reader has printed,
followed by what is in its fifo, is the beginning of its writer's file, and the
fifo of a reader that has succeeded is empty (`Stream`); together they are as
long as the writer's position says, and as the file when it has succeeded
(`Progress`), whence `BothMeansWhole`. From it follow
`TypeCorrect`, `PrefixIsPrinted`, `WholeWhenBothSucceed` and `NameIsAnswered`.
The refinement `FifosTransfer` needs in addition how far a process must have come
to have got a name, a byte or a partner (`Phases`); its steps are `ReaderMaps`,
`WriterMaps` and, for the reader's printing, `PrintMaps`.

`TypeOK` and `IInv` of each module, `Acyclic`, `CallSound` and `AnswersAreRight` of
the tree, `OutputIsPrefix` of ShmTransfer, Signals and Fifo, and `ShortBlockIsLast`
are proved and not checked by a run of their own; what a search answers is also
part of `ImplementsIntSet`, which a run checks.

Only model-checked: liveness (`SessionEnds`, `EveryoneServed`, `CallsReturn`,
`ParentEnds`, `BothEnd`, `FileArrives`, `ManagerEnds`, `GreetedEnds`,
`Terminates`, `OpenedEnds`), which no installed prover handles. Every safety
property of a passing run has a theorem.

## Findings

1. `tree.c:406`, `426`, `435-440`: a deletion can lose keys. An only child is
   linked on its own side rather than on the side of the deleted node, and the
   minimum that moves up leaves its right subtree behind. `test_tree.c` expects
   that an added key can be deleted; `tree_delete` shows additions and deletions
   after which it cannot. All other properties are stated for trees not yet
   damaged in this way, or hold regardless.
2. `src.c:92`: "Child died while work!" misses the death of a child whose
   predecessors have all finished, child 0 among them; the parent ends
   successfully with a truncated output (`pump_death`).
3. `main.c:173` of task_4: the parent takes any exit of the child for success,
   also `exit (EXIT_FAILURE)` when the file cannot be opened and the regular
   return after a read error (`signals_success`).
4. `main.c:118` of task_4: stops of the child are to be ignored (116), but
   SA_NOCLDSTOP is set only after `fork()`. A stop or its end before that leaves a
   SIGCHLD pending, and `childDie` runs while the child lives: parent and child
   wait for each other for ever, or the parent fails with EINTR, and the file is
   not printed (`signals_stop`).

Seen while modelling, without a run of their own. Of the first two a comment or a
message says otherwise; of the others the repository says nothing:

* A write to a child that has died kills the parent by SIGPIPE (`src.c:147`),
  before "Error in write!" (`src.c:158-163`) can be reported; the rest of the file
  is lost. `CleanRun` is about runs without a death, `ParentEnds` takes the kill for
  an end.
* The table of processors is not as `calc.h:32-35` describes it when cores of one
  and of two threads are in the same machine, the least of which has three cores
  and four processors; one processor may then be missing from it (`calc.c:178`).
  `TableAsDocumented` is about the order on the other machines, and the bounds on
  all.
* The manager goes on after an `accept()` that failed (`manager.c:66`), and
  counts a worker that is late as 0 (`manager.c:273`): it may print a part of the
  integral and succeed. `SumIsWhole` says when the sum is whole.
* `StartCalculation` joins only the threads asked for; those beyond them use
  freed memory and may end the process with a failure after the sum is known.
* The field `result` of a thread's block is never set: whatever `malloc()` found
  there is added to the integral.
* A reader prints "Can't connect to writer!" for an empty file (`task_1/reader.c:98`).
* The queue stays behind, and children may wait in it for ever, when the parent
  takes the number before the last child (`children.c:77`).
* An addition that refuses a duplicate loses the node that it had taken
  (`tree.c:145`); `OnlyDuplicatesAreLost` says that nothing else is lost.

## Not modelled

* `deleteResources` of `task_3/common.h`: nobody calls it.
* Creating semaphores and segment: their first creation zeroes them and the
  model begins after it.
* The pump's memory: a failing `calloc()` is a failing start, overcommitted memory
  is assumed to be there. `FD_ISSET` of descriptor -1 looks at descriptor 63,
  which exists only with thirty children, more than memory allows. A fork and
  the parent's calls around it are one step; when one of them fails the parent is
  gone, and what the children then do is not followed.
* `main.c` and `test_tree.c` of the tree are callers; any sequence of calls with
  a tree covers them. Calls on NULL return -1 and have no effect.
* `sem4/task_2/calc.c` is the same function as `sem4/task_3/calc.c` but for its
  parameters; the definitions are mapped to the latter. Cache lines of 40 bytes
  or less, where the blocks would overlap, and numbers of threads near INT_MAX
  are excluded by assumptions.
* A `recv()` of a task that returns a part of its 24 bytes; an overflow of the
  sum of the numbers of threads.
* The argument of `fcntl (fd, F_DUPFD)` in `task_1`, which nobody has set, is
  there only as a call that may fail. A buffer of a file is read and written as a
  unit; the number of a process, and with it the name of a fifo, is not given
  twice.
* An output that fails. "Printed" means handed to `write()`, which is taken to
  accept all of it: `task_3/reader.c:127` and `task_1/reader.c:61` and 91, which
  print the file (the latter two on stderr), ignore what it returns. In the pump a
  write to stdout may be partial or fail with EAGAIN, but another error of it, which
  ends the parent (`src.c:158-164`), is not modelled, nor is an error of the write
  of a byte in task_4 (`main.c:150`) other than as one more way for the parent to be
  killed.
* Messages on stderr, floating point, the lesson files.
