----------------------------- MODULE Calculation -----------------------------
(***************************************************************************)
(* StartCalculation of sem4/task_2 and sem4/task_3: reads the topology of  *)
(* the processors, gives every thread a block of aligned memory with its   *)
(* portion of the interval, creates at least as many threads as there are  *)
(* processors, joins those that were asked for, adds up their results and  *)
(* frees the blocks.  The other threads are there to keep all processors   *)
(* busy; nobody waits for them.                                            *)
(*                                                                         *)
(* The interval of a thread is a number of steps, and a result the number  *)
(* of values that were added to it.  The result of the calculation is kept *)
(* apart by thread.                                                        *)
(***************************************************************************)
EXTENDS Integers, FiniteSets

CONSTANTS
  MaxCpus,     \* bound on get_nprocs()
  MaxThreads,  \* bound on the argument num_threads
  Steps,       \* whole steps in the interval of a thread
  SizeLine,    \* coherency_line_size
  Addresses,   \* what malloc() may return
  Garbage,     \* what the fields result may be before anything is written
  Faults       \* what may go wrong, a subset of AllFaults

AllFaults == {"open", "read", "line", "malloc", "calloc", "nan", "create", "affinity"}

\* sizeof (thread_data_t) and sizeof (void*)
SizeType == 40
SizePointer == 8

\* The blocks overlap unless a cache line has room for thread_data_t.
ASSUME LineAssumption == SizeLine \in Nat /\ SizeLine > SizeType

ASSUME AddressAssumption ==
  \A a \in Addresses : a \in Nat \ {0} /\ (SizeLine - (a % SizeLine)) >= SizePointer

Thread == 0..(MaxThreads + MaxCpus - 1)

ASSUME BoundAssumption ==
  /\ MaxCpus \in Nat \ {0} /\ MaxThreads \in Nat \ {0} /\ Steps \in Nat
  /\ Garbage \subseteq [Thread -> Nat]
  /\ Faults \subseteq AllFaults

VARIABLES
  mpc,          \* the function that the main thread is in
  i,            \* its loop counter
  num_cpus, num_threads,
  main_core,    \* the first number in core_cpus_list of each processor
  cpu_sort, last_real, last_hyper,
  malloced,     \* what malloc() returned to AllocAlignMem
  array_threads,\* what AllocAlignMem returned, or 0
  size_block,
  freed,        \* FreeAlignMem has been called
  found,        \* history: result of each block when it was allocated
  result,       \* result of each block
  sum,          \* the local result of StartCalculation, by thread
  pc,           \* where each thread is
  limit, x      \* its steps and those that it has done

topology == <<num_cpus, num_threads, main_core>>
table == <<cpu_sort, last_real, last_hyper>>
memory == <<malloced, array_threads, size_block, found>>
threads == <<pc, limit, x>>
vars == <<mpc, i, topology, table, memory, freed, result, sum, threads>>

Cpu == 0..(num_cpus - 1)

\* An argument below 1 is refused.
GetNumber == 1..MaxThreads

num_all_threads == IF num_threads > num_cpus THEN num_threads ELSE num_cpus

Ended == {"succeeded", "failed", "killed"}

\* Where the processors that share a core with an earlier one begin.
FirstHyper(n) == (n - 1) \div 2 + 1

Init ==
  /\ mpc = "identify" /\ i = 0
  /\ num_cpus \in 1..MaxCpus
  /\ num_threads \in GetNumber
  /\ main_core \in [Cpu -> Cpu]
  \* The first of the processors of a core stands for it; two at most share one.
  /\ \A c \in Cpu : main_core[c] <= c /\ main_core[main_core[c]] = main_core[c]
  /\ \A b, c, d \in Cpu : b < c /\ c < d => ~(main_core[b] = main_core[c] /\ main_core[c] = main_core[d])
  /\ cpu_sort = [c \in Cpu |-> 0]
  /\ last_real = 0
  /\ last_hyper = FirstHyper(num_cpus)
  /\ malloced = 0 /\ array_threads = 0 /\ size_block = 0 /\ freed = FALSE
  /\ found = [t \in Thread |-> 0]
  /\ result = [t \in Thread |-> 0] /\ sum = [t \in Thread |-> 0]
  /\ pc = [t \in Thread |-> "none"]
  /\ limit = [t \in Thread |-> 0] /\ x = [t \in Thread |-> 0]

Running == mpc \notin Ended

----------------------------------------------------------------------------
(* The main thread                                                         *)

\* The next round of a loop of n rounds, or the next function.
Loop(n, next) ==
  IF i + 1 < n THEN i' = i + 1 /\ UNCHANGED mpc ELSE i' = 0 /\ mpc' = next

\* return ERROR
Return(from, fault) ==
  /\ mpc = from /\ fault \in Faults /\ mpc' = "error"
  /\ UNCHANGED <<i, topology, table, memory, freed, result, sum, threads>>

\* A NULL pointer that nobody has looked at.
Crash(from, fault) ==
  /\ mpc = from /\ fault \in Faults /\ mpc' = "killed"
  /\ UNCHANGED <<i, topology, table, memory, freed, result, sum, threads>>

IsReal(c) == main_core[c] = c

\* Names with an underscore are slips a programmer could have made at the
\* definition that follows them; no action uses them.
IdentifyingOneProcessor_HyperAtHalf ==
  /\ mpc = "identify"
  /\ IF IsReal(i)
     THEN /\ cpu_sort' = [cpu_sort EXCEPT ![last_real] = i]
          /\ last_real' = last_real + 1 /\ UNCHANGED last_hyper
     ELSE /\ cpu_sort' = [cpu_sort EXCEPT ![last_hyper - 1] = i]
          /\ last_hyper' = last_hyper + 1 /\ UNCHANGED last_real
  /\ Loop(num_cpus, "alloc")
  /\ UNCHANGED <<topology, memory, freed, result, sum, threads>>

IdentifyingOneProcessor ==
  /\ mpc = "identify"
  /\ IF IsReal(i)
     THEN /\ cpu_sort' = [cpu_sort EXCEPT ![last_real] = i]
          /\ last_real' = last_real + 1 /\ UNCHANGED last_hyper
     ELSE /\ cpu_sort' = [cpu_sort EXCEPT ![last_hyper] = i]
          /\ last_hyper' = last_hyper + 1 /\ UNCHANGED last_real
  /\ Loop(num_cpus, "alloc")
  /\ UNCHANGED <<topology, memory, freed, result, sum, threads>>

SizeBlock == IF SizeType \div SizeLine > 0 THEN SizeType \div SizeLine + 1 ELSE SizeLine

AlignedPoint_StaysIfAligned(a) == a + ((SizeLine - (a % SizeLine)) % SizeLine)

AlignedPoint(a) == a + SizeLine - (a % SizeLine)

\* Without the size of a line, or without memory, array_threads is NULL.  The
\* field result of a block is what malloc() found there.
AllocThreadsData ==
  /\ mpc = "alloc" /\ mpc' = "prepare"
  /\ \/ "line" \in Faults /\ UNCHANGED <<memory, result>>
     \/ /\ "malloc" \in Faults
        /\ size_block' = SizeBlock
        /\ UNCHANGED <<malloced, array_threads, found, result>>
     \/ /\ size_block' = SizeBlock
        /\ malloced' \in Addresses
        /\ array_threads' = AlignedPoint(malloced')
        /\ found' \in Garbage /\ result' = found'
  /\ UNCHANGED <<i, topology, table, freed, sum, threads>>

PrepareThreads ==
  /\ mpc = "prepare" /\ array_threads # 0 /\ mpc' = "create"
  /\ UNCHANGED <<i, topology, table, memory, freed, result, sum, threads>>

PrepareThreadsFails ==
  /\ mpc = "prepare" /\ array_threads = 0 /\ mpc' = "error"
  /\ UNCHANGED <<i, topology, table, memory, freed, result, sum, threads>>

CreateThread_ThenFree ==
  /\ mpc = "create"
  /\ pc' = [pc EXCEPT ![i] = "created"]
  /\ Loop(num_all_threads, "join")
  /\ freed' = (mpc' = "join")
  /\ UNCHANGED <<topology, table, memory, result, sum, limit, x>>

CreateThread ==
  /\ mpc = "create"
  /\ pc' = [pc EXCEPT ![i] = "created"]
  /\ Loop(num_all_threads, "join")
  /\ UNCHANGED <<topology, table, memory, freed, result, sum, limit, x>>

JoinThread_WithoutWaiting ==
  /\ mpc = "join"
  /\ sum' = [sum EXCEPT ![i] = result[i]]
  /\ Loop(num_threads, "free")
  /\ UNCHANGED <<topology, table, memory, freed, result, threads>>

\* pthread_join(), and the result of the thread is added.
JoinThread ==
  /\ mpc = "join" /\ pc[i] = "ended"
  /\ sum' = [sum EXCEPT ![i] = result[i]]
  /\ Loop(num_threads, "free")
  /\ UNCHANGED <<topology, table, memory, freed, result, threads>>

FreeAlignMem ==
  /\ mpc = "free" /\ mpc' = "returned"
  /\ freed' = TRUE
  /\ UNCHANGED <<i, topology, table, memory, result, sum, threads>>

\* The caller ends, and with it all threads.
Exit ==
  /\ \/ mpc = "returned" /\ mpc' = "succeeded"
     \/ mpc = "error" /\ mpc' = "failed"
  /\ UNCHANGED <<i, topology, table, memory, freed, result, sum, threads>>

MainThread ==
  \/ IdentifyingOneProcessor \/ AllocThreadsData
  \/ PrepareThreads \/ PrepareThreadsFails \/ CreateThread
  \/ JoinThread \/ FreeAlignMem \/ Exit

----------------------------------------------------------------------------
(* The other threads                                                       *)

\* pthread_setaffinity_np(), and the fields that are read before the loop.  In
\* freed memory they may be anything; the field result needs nobody's care.
SetAffinity(t) ==
  /\ Running /\ pc[t] = "created"
  /\ pc' = [pc EXCEPT ![t] = "bound"]
  /\ limit' \in {[limit EXCEPT ![t] = n] : n \in IF freed THEN 0..Steps ELSE {Steps}}
  /\ UNCHANGED <<mpc, i, topology, table, memory, freed, result, sum, x>>

\* exit (EXIT_FAILURE) ends the process.
SetAffinityFails(t) ==
  /\ Running /\ pc[t] = "created"
  /\ "affinity" \in Faults \/ freed
  /\ mpc' = "killed"
  /\ UNCHANGED <<i, topology, table, memory, freed, result, sum, threads>>

\* result += ...
AddTo(t) ==
  result' = IF freed THEN result ELSE [result EXCEPT ![t] = @ + 1]

AddStep_Again(t) ==
  /\ Running /\ pc[t] = "bound" /\ x[t] < limit[t]
  /\ UNCHANGED vars

AddStep(t) ==
  /\ Running /\ pc[t] = "bound" /\ x[t] < limit[t]
  /\ x' = [x EXCEPT ![t] = @ + 1]
  /\ AddTo(t)
  /\ UNCHANGED <<mpc, i, topology, table, memory, freed, sum, pc, limit>>

\* What is left of the interval.
AddRest(t) ==
  /\ Running /\ pc[t] = "bound" /\ x[t] = limit[t]
  /\ pc' = [pc EXCEPT ![t] = "ended"]
  /\ AddTo(t)
  /\ UNCHANGED <<mpc, i, topology, table, memory, freed, sum, limit, x>>

ThreadWork(t) == SetAffinity(t) \/ SetAffinityFails(t) \/ AddStep(t) \/ AddRest(t)

Next ==
  \/ MainThread
  \/ \E t \in Thread : ThreadWork(t)
  \/ Return("identify", "read") \/ Crash("identify", "open")
  \/ Crash("identify", "calloc") \/ Return("prepare", "calloc")
  \/ Return("prepare", "nan") \/ Return("create", "create")

Spec ==
  /\ Init /\ [][Next]_vars
  /\ WF_vars(MainThread) /\ \A t \in Thread : WF_vars(ThreadWork(t))

----------------------------------------------------------------------------
(* Properties                                                              *)

\* Every variable keeps to its set.
TypeOK ==
  /\ mpc \in {"identify", "alloc", "prepare", "create", "join", "free", "returned",
              "error"} \cup Ended
  /\ i \in Nat
  /\ num_cpus \in 1..MaxCpus /\ num_threads \in 1..MaxThreads
  /\ main_core \in [Cpu -> Cpu] /\ cpu_sort \in [Cpu -> Cpu]
  /\ last_real \in Nat /\ last_hyper \in Nat
  /\ malloced \in Nat /\ array_threads \in Nat /\ size_block \in Nat
  /\ freed \in BOOLEAN /\ found \in [Thread -> Nat]
  /\ result \in [Thread -> Nat] /\ sum \in [Thread -> Nat]
  /\ pc \in [Thread -> {"none", "created", "bound", "ended"}]
  /\ limit \in [Thread -> Nat] /\ x \in [Thread -> Nat]

\* The table of processors is written inside its bounds, whatever processors
\* share a core (calc.c:158, 164).  And calc.h:32-35, for machines of which no
\* two processors share a core, or as many as can (all but one, of an odd
\* number): the table has every processor once, so that each gets its share of
\* the threads, and those that share a core come after the middle.
TableAsDocumented ==
  LET real == {c \in Cpu : IsReal(c)}
  IN  /\ last_real <= num_cpus /\ last_hyper <= num_cpus
      /\ (/\ mpc \in {"alloc", "prepare", "create", "join"}
          /\ real = Cpu \/ Cardinality(real) = (num_cpus - 1) \div 2 + 1)
         => /\ \A c \in Cpu : \E k \in Cpu : cpu_sort[k] = c
            /\ real # Cpu => \A k \in Cpu : IsReal(cpu_sort[k]) <=> k <= (num_cpus - 1) \div 2

\* The aligned blocks, and before them the pointer for FreeAlignMem, lie in
\* what malloc() gave.
BlocksFit ==
  array_threads # 0 =>
    LET size == num_all_threads * size_block
    IN  /\ size_block >= SizeType
        /\ array_threads - SizePointer >= malloced
        /\ array_threads + size <= malloced + size + SizePointer \div 2 + SizeLine

\* The sum that is returned has all that the threads asked for have to add,
\* and nothing of the others.  What was in the fields result before adds to it,
\* for nobody sets them (calc.c:211); from a fresh heap that is zero.
SumIsWhole ==
  mpc \in {"free", "returned", "succeeded"} =>
    \A t \in Thread : sum[t] = IF t < num_threads THEN found[t] + Steps + 1 ELSE 0

\* When the blocks are freed, no thread that was asked for uses its block; with
\* num_threads >= num_cpus nobody does.  A thread beyond them may still run and
\* end the process from freed memory.
FreedIsUnused ==
  freed => \A t \in Thread : pc[t] \in {"created", "bound"} => num_threads <= t /\ t < num_cpus

\* The program ends.
Terminates == <>(mpc \in Ended)
=============================================================================
