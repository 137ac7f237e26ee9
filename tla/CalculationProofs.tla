-------------------------- MODULE CalculationProofs --------------------------
(***************************************************************************)
(* The safety properties of Calculation, for any number of processors,     *)
(* threads and steps and any placement of the blocks.  The invariant says  *)
(* where the loop of IdentifyingProcessors has put the first m processors  *)
(* (Identified), which threads there are (Created), what a thread has added*)
(* to its result (Working) and which of them are joined (Joined).          *)
(***************************************************************************)
EXTENDS Calculation, FiniteSetTheorems, TLAPS

Real(m) == {c \in 0..(m - 1) : IsReal(c)}
Hyper(m) == {c \in 0..(m - 1) : ~ IsReal(c)}

\* All cores have one processor, or all but one of an odd number have two.
Single == Real(num_cpus) = Cpu
Paired == Cardinality(Real(num_cpus)) = FirstHyper(num_cpus)

\* The first m processors are in the table.
Identified(m) ==
  /\ last_real = Cardinality(Real(m))
  /\ last_hyper = FirstHyper(num_cpus) + Cardinality(Hyper(m))
  /\ last_real + last_hyper = FirstHyper(num_cpus) + m
  /\ Single => \A k \in 0..(m - 1) : cpu_sort[k] = k
  /\ Paired =>
       /\ \A k \in 0..(last_real - 1) : IsReal(cpu_sort[k])
       /\ \A k \in FirstHyper(num_cpus)..(last_hyper - 1) : ~ IsReal(cpu_sort[k])
       /\ \A c \in Real(m) : \E k \in 0..(last_real - 1) : cpu_sort[k] = c
       /\ \A c \in Hyper(m) : \E k \in FirstHyper(num_cpus)..(last_hyper - 1) : cpu_sort[k] = c

Table ==
  /\ \A c \in Cpu : main_core[c] <= c /\ main_core[main_core[c]] = main_core[c]
  /\ \A b, c, d \in Cpu : b < c /\ c < d => ~(main_core[b] = main_core[c] /\ main_core[c] = main_core[d])
  /\ mpc = "identify" => i < num_cpus /\ Identified(i)
  /\ mpc # "identify" => \E m \in 0..num_cpus : Identified(m)
  /\ mpc \in {"alloc", "prepare", "create", "join"} => Identified(num_cpus)

Memory ==
  /\ array_threads # 0 =>
       malloced \in Addresses /\ array_threads = AlignedPoint(malloced) /\ size_block = SizeBlock
  /\ freed => mpc \in {"returned", "succeeded", "killed"}

Created ==
  /\ mpc \in {"identify", "alloc", "prepare"} => \A t \in Thread : pc[t] = "none"
  /\ mpc = "create" => i < num_all_threads /\ \A t \in Thread : t >= i => pc[t] = "none"
  /\ \A t \in Thread : pc[t] # "none" => t < num_all_threads
  /\ mpc \in {"alloc", "prepare", "free"} => i = 0

Working ==
  ~ freed =>
    \A t \in Thread :
      /\ pc[t] \in {"none", "created"} => x[t] = 0 /\ result[t] = found[t]
      /\ pc[t] = "bound" => limit[t] = Steps /\ x[t] <= Steps /\ result[t] = found[t] + x[t]
      /\ pc[t] = "ended" => result[t] = found[t] + Steps + 1

Joined ==
  /\ mpc \in {"identify", "alloc", "prepare", "create"} => \A t \in Thread : sum[t] = 0
  /\ mpc = "join" =>
       /\ i < num_threads
       /\ \A t \in Thread : IF t < i THEN pc[t] = "ended" /\ sum[t] = found[t] + Steps + 1
                            ELSE sum[t] = 0
  /\ mpc \in {"free", "returned", "succeeded"} =>
       \A t \in Thread : IF t < num_threads THEN pc[t] = "ended" /\ sum[t] = found[t] + Steps + 1
                         ELSE sum[t] = 0
  /\ freed => \A t \in Thread : t < num_threads => pc[t] = "ended"

IInv == TypeOK /\ Table /\ Memory /\ Created /\ Working /\ Joined
----------------------------------------------------------------------------
(* The table of processors                                                 *)

LEMMA RealAndHyper ==
  ASSUME NEW m \in Nat
  PROVE  /\ IsFiniteSet(Real(m)) /\ IsFiniteSet(Hyper(m))
         /\ Cardinality(Real(m)) \in Nat /\ Cardinality(Hyper(m)) \in Nat
<1>1. IsFiniteSet(0..(m - 1))
  BY FS_Interval
<1>2. Real(m) \subseteq 0..(m - 1) /\ Hyper(m) \subseteq 0..(m - 1)
  BY DEF Real, Hyper
<1>3. IsFiniteSet(Real(m)) /\ IsFiniteSet(Hyper(m))
  BY <1>1, <1>2, FS_Subset
<1> QED BY <1>3, FS_CardinalityType

\* The next processor is real or shares its core.
LEMMA NextProcessor ==
  ASSUME NEW m \in Nat
  PROVE  /\ IsReal(m) => /\ Real(m + 1) = Real(m) \cup {m} /\ Hyper(m + 1) = Hyper(m)
                         /\ Cardinality(Real(m + 1)) = Cardinality(Real(m)) + 1
         /\ ~ IsReal(m) => /\ Real(m + 1) = Real(m) /\ Hyper(m + 1) = Hyper(m) \cup {m}
                           /\ Cardinality(Hyper(m + 1)) = Cardinality(Hyper(m)) + 1
<1>1. m \notin Real(m) /\ m \notin Hyper(m)
  BY DEF Real, Hyper
<1>2. IsReal(m) => Real(m + 1) = Real(m) \cup {m} /\ Hyper(m + 1) = Hyper(m)
  BY DEF Real, Hyper
<1>3. ~ IsReal(m) => Real(m + 1) = Real(m) /\ Hyper(m + 1) = Hyper(m) \cup {m}
  BY DEF Real, Hyper
<1> QED BY <1>1, <1>2, <1>3, RealAndHyper, FS_AddElement

\* No more processors share a core with an earlier one than there are cores.
LEMMA HyperIsLess ==
  ASSUME TypeOK, Table, NEW m \in 0..num_cpus
  PROVE  Cardinality(Hyper(m)) <= Cardinality(Real(m))
<1> DEFINE f == [c \in Hyper(m) |-> main_core[c]]
<1>1. num_cpus \in Nat /\ m \in Nat /\ m <= num_cpus
  BY BoundAssumption DEF TypeOK
<1>2. ASSUME NEW c \in Hyper(m)
      PROVE  /\ c \in Cpu /\ c \in Nat /\ c < m /\ main_core[c] \in Cpu /\ main_core[c] \in Nat
             /\ main_core[c] < c /\ main_core[main_core[c]] = main_core[c]
  <2>1. c \in Cpu /\ c \in Nat /\ c < m /\ main_core[c] # c
    BY <1>1 DEF Hyper, IsReal, Cpu
  <2>2. main_core[c] \in Cpu /\ main_core[c] \in Nat
    BY <2>1 DEF TypeOK, Cpu
  <2> QED BY <2>1, <2>2 DEF Table
<1>3. f \in [Hyper(m) -> Real(m)]
  BY <1>1, <1>2 DEF Real, IsReal
<1>4. ASSUME NEW b \in Hyper(m), NEW d \in Hyper(m), b < d PROVE main_core[b] # main_core[d]
  BY <1>2, <1>4 DEF Table
<1>5. \A b, d \in Hyper(m) : f[b] = f[d] => b = d
  <2>1. \A b, d \in Hyper(m) : b < d \/ d < b \/ b = d
    BY <1>2
  <2> QED BY <1>4, <2>1
<1>6. f \in Injection(Hyper(m), Real(m))
  BY <1>3, <1>5 DEF Injection, IsInjective
<1> QED BY <1>1, <1>6, RealAndHyper, FS_Injection

\* The bounds of the two halves of the table.
LEMMA Bounds ==
  ASSUME TypeOK, Table, NEW m \in 0..num_cpus, Identified(m)
  PROVE  /\ last_real \in Nat /\ last_real <= m
         /\ last_hyper \in Nat /\ last_hyper <= num_cpus
         /\ FirstHyper(num_cpus) \in Nat /\ FirstHyper(num_cpus) <= num_cpus
         /\ last_hyper >= FirstHyper(num_cpus)
         /\ Paired => last_real <= FirstHyper(num_cpus)
<1> DEFINE r == Cardinality(Real(m))
           h == Cardinality(Hyper(m))
           first == FirstHyper(num_cpus)
<1>1. num_cpus \in Nat /\ num_cpus >= 1 /\ m \in Nat /\ m <= num_cpus
  BY BoundAssumption DEF TypeOK
<1>2. first \in Nat /\ first <= num_cpus /\ 2 * first >= num_cpus /\ 2 * first <= num_cpus + 1
  BY <1>1 DEF FirstHyper
<1>3. r \in Nat /\ h \in Nat /\ h <= r
  BY <1>1, RealAndHyper, HyperIsLess
<1>4. last_real = r /\ last_hyper = first + h /\ last_real + last_hyper = first + m
  BY DEF Identified
<1>5. ASSUME Paired PROVE last_real <= first
  <2>1. Real(m) \subseteq Real(num_cpus)
    BY <1>1 DEF Real
  <2>2. r <= Cardinality(Real(num_cpus))
    BY <1>1, <2>1, RealAndHyper, FS_Subset
  <2> QED BY <1>4, <1>5, <2>2 DEF Paired
<1> HIDE DEF r, h, first
<1>6. last_real \in Nat /\ last_real <= m /\ last_hyper \in Nat /\ last_hyper <= num_cpus
      /\ last_hyper >= first
  BY <1>1, <1>2, <1>3, <1>4
<1> QED BY <1>2, <1>5, <1>6 DEF first

\* The loop puts the next processor where the next of its kind belongs.
LEMMA NextIdentified ==
  ASSUME TypeOK, Table, IdentifyingOneProcessor
  PROVE  /\ i \in Cpu /\ cpu_sort' \in [Cpu -> Cpu]
         /\ last_real' \in Nat /\ last_hyper' \in Nat
         /\ \A m \in Nat : m = i + 1 => Identified(m)'
<1> DEFINE first == FirstHyper(num_cpus)
           Counted(m) ==
             /\ last_real' = Cardinality(Real(m))
             /\ last_hyper' = first + Cardinality(Hyper(m))
             /\ last_real' + last_hyper' = first + m
           Filled(m) ==
             /\ \A k \in 0..(last_real' - 1) : IsReal(cpu_sort'[k])
             /\ \A k \in first..(last_hyper' - 1) : ~ IsReal(cpu_sort'[k])
             /\ \A c \in Real(m) : \E k \in 0..(last_real' - 1) : cpu_sort'[k] = c
             /\ \A c \in Hyper(m) : \E k \in first..(last_hyper' - 1) : cpu_sort'[k] = c
<1>1. /\ mpc = "identify" /\ UNCHANGED <<num_cpus, main_core>>
      /\ IF IsReal(i)
         THEN /\ cpu_sort' = [cpu_sort EXCEPT ![last_real] = i]
              /\ last_real' = last_real + 1 /\ last_hyper' = last_hyper
         ELSE /\ cpu_sort' = [cpu_sort EXCEPT ![last_hyper] = i]
              /\ last_hyper' = last_hyper + 1 /\ last_real' = last_real
  BY DEF IdentifyingOneProcessor, topology
<1>2. i \in Nat /\ i < num_cpus /\ num_cpus \in Nat /\ i \in Cpu /\ Identified(i)
  BY <1>1, BoundAssumption DEF TypeOK, Table, Cpu
<1>3. /\ last_real \in Nat /\ last_real <= i /\ last_hyper \in Nat /\ last_hyper <= num_cpus
      /\ first \in Nat /\ first <= num_cpus /\ last_hyper >= first
      /\ Paired => last_real <= first
  BY <1>2, Bounds
<1>4. cpu_sort' \in [Cpu -> Cpu]
  BY <1>1, <1>2 DEF TypeOK
<1>5. \A m \in Nat : Real(m)' = Real(m) /\ Hyper(m)' = Hyper(m)
  BY <1>1 DEF Real, Hyper, IsReal
<1>6. /\ Single' <=> Single
      /\ Paired' <=> Paired
      /\ FirstHyper(num_cpus)' = first
  BY <1>1 DEF Single, Paired, Cpu, FirstHyper, Real, IsReal
<1>7. /\ last_real = Cardinality(Real(i)) /\ last_hyper = first + Cardinality(Hyper(i))
      /\ last_real + last_hyper = first + i
      /\ Single => \A k \in 0..(i - 1) : cpu_sort[k] = k
  BY <1>2 DEF Identified
<1>8. ASSUME IsReal(i)
      PROVE  /\ Single => \A k \in 0..i : cpu_sort'[k] = k
             /\ Paired => Filled(i + 1)
             /\ Counted(i + 1)
  <2>1. /\ Real(i + 1) = Real(i) \cup {i} /\ Hyper(i + 1) = Hyper(i)
        /\ Cardinality(Real(i + 1)) = Cardinality(Real(i)) + 1
    BY <1>2, <1>8, NextProcessor
  <2>2. last_real \in Cpu
    BY <1>2, <1>3 DEF Cpu
  <2>3. /\ cpu_sort'[last_real] = i /\ last_real' = last_real + 1 /\ last_hyper' = last_hyper
        /\ \A k \in Cpu : k # last_real => cpu_sort'[k] = cpu_sort[k]
    BY <1>1, <1>8, <2>2 DEF TypeOK
  <2>4. ASSUME Single PROVE \A k \in 0..i : cpu_sort'[k] = k
    <3>1. Real(i) = 0..(i - 1)
      BY <1>2, <2>4 DEF Single, Real, Cpu
    <3>2. last_real = i
      BY <1>2, <1>7, <3>1, FS_Interval
    <3> QED BY <1>2, <1>7, <2>3, <2>4, <3>2 DEF Cpu
  <2>5. ASSUME Paired
        PROVE  Filled(i + 1)
    <3>1. last_real < first
      <4>1. Real(i + 1) \subseteq Real(num_cpus)
        BY <1>2 DEF Real
      <4>2. Cardinality(Real(i + 1)) <= first
        BY <1>2, <2>5, <4>1, RealAndHyper, FS_Subset DEF Paired
      <4> QED BY <1>3, <1>7, <2>1, <4>2
    <3>2. /\ \A k \in 0..(last_real - 1) : k \in Cpu /\ k # last_real
          /\ \A k \in first..(last_hyper - 1) : k \in Cpu /\ k # last_real
      BY <1>2, <1>3, <3>1 DEF Cpu
    <3>3. /\ \A k \in 0..(last_real - 1) : IsReal(cpu_sort[k])
          /\ \A k \in first..(last_hyper - 1) : ~ IsReal(cpu_sort[k])
          /\ \A c \in Real(i) : \E k \in 0..(last_real - 1) : cpu_sort[k] = c
          /\ \A c \in Hyper(i) : \E k \in first..(last_hyper - 1) : cpu_sort[k] = c
      BY <1>2, <2>5 DEF Identified
    <3>4. \A k \in 0..(last_real' - 1) : k \in 0..(last_real - 1) \/ k = last_real
      BY <1>3, <2>3
    <3>5. 0..(last_real - 1) \subseteq 0..(last_real' - 1) /\ last_real \in 0..(last_real' - 1)
      BY <1>3, <2>3
    <3>6. \A k \in 0..(last_real' - 1) : IsReal(cpu_sort'[k])
      BY <1>8, <2>3, <3>2, <3>3, <3>4
    <3>7. \A c \in Real(i + 1) : \E k \in 0..(last_real' - 1) : cpu_sort'[k] = c
      BY <2>1, <2>3, <3>2, <3>3, <3>5
    <3> QED BY <2>1, <2>3, <3>2, <3>3, <3>6, <3>7
  <2>6. Counted(i + 1)
    BY <1>2, <1>3, <1>7, <2>1, <2>3
  <2> QED BY <2>4, <2>5, <2>6
<1>9. (Single => \A k \in 0..i : cpu_sort'[k] = k) /\ (Paired => Filled(i + 1)) /\ Counted(i + 1)
  <2> SUFFICES ASSUME ~ IsReal(i)
               PROVE  /\ Single => \A k \in 0..i : cpu_sort'[k] = k
                      /\ Paired => Filled(i + 1)
                      /\ Counted(i + 1)
    BY <1>8
  <2>1. /\ Hyper(i + 1) = Hyper(i) \cup {i} /\ Real(i + 1) = Real(i)
        /\ Cardinality(Hyper(i + 1)) = Cardinality(Hyper(i)) + 1
    BY <1>2, NextProcessor
  <2>2. last_hyper \in Cpu
    <3>1. i + 1 \in 0..num_cpus /\ i + 1 \in Nat
      BY <1>2
    <3>2. Cardinality(Hyper(i)) + 1 <= Cardinality(Real(i)) /\ Cardinality(Hyper(i)) \in Nat
      BY <1>2, <3>1, <2>1, HyperIsLess, RealAndHyper
    <3>3. 2 * first <= num_cpus + 1
      BY <1>2 DEF FirstHyper
    <3> HIDE DEF first
    <3> QED BY <1>2, <1>3, <1>7, <3>2, <3>3 DEF Cpu
  <2>3. /\ cpu_sort'[last_hyper] = i /\ last_hyper' = last_hyper + 1 /\ last_real' = last_real
        /\ \A k \in Cpu : k # last_hyper => cpu_sort'[k] = cpu_sort[k]
    BY <1>1, <2>2 DEF TypeOK
  <2>4. ~ Single
    BY <1>2 DEF Single, Real
  <2>5. ASSUME Paired PROVE Filled(i + 1)
    <3>1. last_real <= first
      BY <1>3, <2>5
    <3>2. /\ \A k \in 0..(last_real - 1) : k \in Cpu /\ k # last_hyper
          /\ \A k \in first..(last_hyper - 1) : k \in Cpu /\ k # last_hyper
      BY <1>2, <1>3, <3>1 DEF Cpu
    <3>3. /\ \A k \in 0..(last_real - 1) : IsReal(cpu_sort[k])
          /\ \A k \in first..(last_hyper - 1) : ~ IsReal(cpu_sort[k])
          /\ \A c \in Real(i) : \E k \in 0..(last_real - 1) : cpu_sort[k] = c
          /\ \A c \in Hyper(i) : \E k \in first..(last_hyper - 1) : cpu_sort[k] = c
      BY <1>2, <2>5 DEF Identified
    <3>4. \A k \in first..(last_hyper' - 1) : k \in first..(last_hyper - 1) \/ k = last_hyper
      BY <1>3, <2>3
    <3>5. first..(last_hyper - 1) \subseteq first..(last_hyper' - 1) /\ last_hyper \in first..(last_hyper' - 1)
      BY <1>3, <2>3
    <3>6. \A k \in first..(last_hyper' - 1) : ~ IsReal(cpu_sort'[k])
      BY <2>3, <3>2, <3>3, <3>4
    <3>7. \A c \in Hyper(i + 1) : \E k \in first..(last_hyper' - 1) : cpu_sort'[k] = c
      BY <2>1, <2>3, <3>2, <3>3, <3>5
    <3> QED BY <2>1, <2>3, <3>2, <3>3, <3>6, <3>7
  <2>6. Counted(i + 1)
    BY <1>2, <1>3, <1>7, <2>1, <2>3, RealAndHyper
  <2> QED BY <2>4, <2>5, <2>6
<1>10. ASSUME NEW m \in Nat, m = i + 1 PROVE Identified(m)'
  <2>1. m - 1 = i
    BY <1>2, <1>10
  <2> QED BY <1>1, <1>5, <1>6, <1>9, <1>10, <2>1 DEF Identified, IsReal
<1>11. last_real' \in Nat /\ last_hyper' \in Nat
  BY <1>1, <1>3
<1> QED BY <1>2, <1>4, <1>10, <1>11

\* Nothing but that loop changes the table.
LEMMA SameTable ==
  ASSUME Table, UNCHANGED <<topology, table>>,
         \/ mpc' = mpc /\ i' = i
         \/ mpc # "identify" /\ mpc' # "identify"
         \/ mpc' \in {"error", "killed"},
         mpc' \in {"alloc", "prepare", "create", "join"} =>
           mpc \in {"alloc", "prepare", "create", "join"},
         TypeOK
  PROVE  Table'
<1>1. UNCHANGED <<num_cpus, num_threads, main_core, cpu_sort, last_real, last_hyper>>
  BY DEF topology, table
<1>2. \A m : Identified(m)' <=> Identified(m)
  BY <1>1 DEF Identified, Single, Paired, Real, Hyper, IsReal, Cpu, FirstHyper
<1>3. Identified(i)' <=> Identified(i')
  BY <1>1 DEF Identified, Single, Paired, Real, Hyper, IsReal, Cpu, FirstHyper
<1>4. \E m \in 0..num_cpus : Identified(m)
  BY DEF Table, TypeOK
<1>5. mpc' = "identify" => i' < num_cpus' /\ Identified(i)'
  BY <1>1, <1>3 DEF Table
<1>6. \E m \in 0..num_cpus' : Identified(m)'
  BY <1>1, <1>2, <1>4
<1>7. mpc' \in {"alloc", "prepare", "create", "join"} => Identified(num_cpus)'
  BY <1>1, <1>2 DEF Table, Identified, Single, Paired, Real, Hyper, IsReal, Cpu, FirstHyper
<1>8. /\ \A c \in Cpu' : main_core'[c] <= c /\ main_core'[main_core'[c]] = main_core'[c]
      /\ \A b, c, d \in Cpu' : b < c /\ c < d =>
           ~(main_core'[b] = main_core'[c] /\ main_core'[c] = main_core'[d])
  BY <1>1 DEF Table, Cpu
<1> QED BY <1>5, <1>6, <1>7, <1>8 DEF Table

----------------------------------------------------------------------------
(* The steps                                                               *)

LEMMA Constants ==
  ASSUME TypeOK
  PROVE  /\ MaxCpus \in Nat /\ MaxThreads \in Nat /\ Steps \in Nat
         /\ num_cpus \in Nat /\ num_cpus >= 1 /\ num_threads \in Nat /\ num_threads >= 1
         /\ num_all_threads \in Nat /\ num_all_threads >= 1 /\ num_threads <= num_all_threads
         /\ num_all_threads - 1 \in Thread /\ i \in Nat
         /\ \A t \in Thread : t \in Nat
         /\ (num_all_threads = num_threads \/ num_all_threads = num_cpus)
BY BoundAssumption DEF TypeOK, num_all_threads, Thread

LEMMA InitIInv == ASSUME Init PROVE IInv
<1>1. num_cpus \in 1..MaxCpus /\ num_cpus \in Nat /\ num_cpus >= 1 /\ num_threads \in 1..MaxThreads
  BY BoundAssumption DEF Init, GetNumber
<1>2. FirstHyper(num_cpus) \in Nat
  BY <1>1 DEF FirstHyper
<1>3. TypeOK
  <2>1. cpu_sort \in [Cpu -> Cpu]
    BY <1>1 DEF Init, Cpu
  <2>2. mpc = "identify" /\ i = 0 /\ main_core \in [Cpu -> Cpu] /\ last_real = 0 /\ last_hyper = FirstHyper(num_cpus)
    BY DEF Init
  <2>3. malloced = 0 /\ array_threads = 0 /\ size_block = 0 /\ freed \in BOOLEAN
    BY DEF Init
  <2>4. /\ found \in [Thread -> Nat] /\ result \in [Thread -> Nat] /\ sum \in [Thread -> Nat]
        /\ limit \in [Thread -> Nat] /\ x \in [Thread -> Nat]
        /\ pc \in [Thread -> {"none", "created", "bound", "ended"}]
    BY DEF Init
  <2> QED BY <1>1, <1>2, <2>1, <2>2, <2>3, <2>4 DEF TypeOK
<1>4. Table
  <2>1. Real(0) = {} /\ Hyper(0) = {}
    BY DEF Real, Hyper
  <2>2. Identified(0)
    <3>1. last_real = 0 /\ last_hyper = FirstHyper(num_cpus)
      BY DEF Init
    <3>2. Cardinality(Real(0)) = 0 /\ Cardinality(Hyper(0)) = 0
      BY <2>1, FS_EmptySet
    <3>3. 0..(last_real - 1) = {} /\ FirstHyper(num_cpus)..(last_hyper - 1) = {} /\ 0..(0 - 1) = {}
      BY <1>2, <3>1
    <3> HIDE DEF Init
    <3> QED BY <1>2, <2>1, <3>1, <3>2, <3>3 DEF Identified
  <2> QED BY <1>1, <2>2 DEF Init, Table
<1>5. Memory /\ Created
  BY DEF Init, Memory, Created
<1>6. Working /\ Joined
  BY <1>3 DEF Init, Working, Joined, TypeOK
<1> QED BY <1>3, <1>4, <1>5, <1>6 DEF IInv

\* Loop is a for.
LEMMA LoopIs ==
  ASSUME i \in Nat, NEW n \in Nat, NEW next, Loop(n, next), i < n
  PROVE  \/ i + 1 < n /\ i' = i + 1 /\ mpc' = mpc
         \/ i + 1 = n /\ i' = 0 /\ mpc' = next
BY DEF Loop

LEMMA IdentifyStep == ASSUME IInv, IdentifyingOneProcessor PROVE IInv'
<1> USE DEF IInv
<1>1. /\ UNCHANGED <<num_cpus, num_threads, main_core, malloced, array_threads, size_block,
                     found, freed, result, sum, pc, limit, x>>
      /\ mpc = "identify" /\ Loop(num_cpus, "alloc")
  BY DEF IdentifyingOneProcessor, topology, memory, threads
<1>2. /\ i \in Cpu /\ cpu_sort' \in [Cpu -> Cpu] /\ last_real' \in Nat /\ last_hyper' \in Nat
      /\ \A m \in Nat : m = i + 1 => Identified(m)'
  BY NextIdentified
<1>3. /\ i \in Nat /\ i < num_cpus /\ num_cpus \in Nat
      /\ \/ i + 1 < num_cpus /\ i' = i + 1 /\ mpc' = "identify"
         \/ i + 1 = num_cpus /\ i' = 0 /\ mpc' = "alloc"
  BY <1>1, <1>2, LoopIs, Constants DEF Cpu
<1>4. TypeOK'
  <2>1. Cpu' = Cpu
    BY <1>1 DEF Cpu
  <2> QED BY <1>1, <1>2, <1>3, <2>1 DEF TypeOK
<1>5. Table'
  <2>1. /\ \A c \in Cpu' : main_core'[c] <= c /\ main_core'[main_core'[c]] = main_core'[c]
        /\ \A b, c, d \in Cpu' : b < c /\ c < d =>
             ~(main_core'[b] = main_core'[c] /\ main_core'[c] = main_core'[d])
    BY <1>1 DEF Table, Cpu
  <2>2. PICK m \in Nat : m = i + 1
    BY <1>3
  <2>3. Identified(m)'
    BY <1>2, <2>2
  <2>4. CASE mpc' = "identify"
    <3>1. i' = m /\ i' < num_cpus
      BY <1>3, <2>2, <2>4
    <3>2. Identified(i)'
      BY <2>3, <3>1 DEF Identified, Real, Hyper
    <3> QED BY <1>1, <2>1, <2>4, <3>1, <3>2 DEF Table
  <2>5. CASE mpc' = "alloc"
    <3>1. num_cpus' = m
      BY <1>1, <1>3, <2>2, <2>5
    <3>2. Identified(num_cpus)'
      BY <2>3, <3>1 DEF Identified, Real, Hyper
    <3>3. m \in 0..num_cpus'
      BY <3>1
    <3> QED BY <2>1, <2>3, <2>5, <3>2, <3>3 DEF Table
  <2> QED BY <1>3, <2>4, <2>5
<1>6. Memory' /\ Created'
  BY <1>1, <1>3 DEF Memory, Created, num_all_threads, AlignedPoint, SizeBlock
<1>7. Working' /\ Joined'
  BY <1>1, <1>3 DEF Working, Joined, Memory
<1> QED BY <1>4, <1>5, <1>6, <1>7

\* A step of the main thread that only goes on.
LEMMA GoesOnStep ==
  ASSUME IInv, UNCHANGED <<i, topology, table, memory, freed, result, sum, threads>>,
         \/ mpc' \in {"error", "killed"}
         \/ mpc = "prepare" /\ mpc' = "create"
         \/ mpc = "returned" /\ mpc' = "succeeded"
         \/ mpc = "error" /\ mpc' = "failed",
         mpc' = "error" => ~ freed
  PROVE  IInv'
<1> USE DEF IInv
<1>1. /\ UNCHANGED <<i, num_cpus, num_threads, main_core, cpu_sort, last_real, last_hyper, malloced,
                     array_threads, size_block, found, freed, result, sum, pc, limit, x>>
      /\ num_all_threads' = num_all_threads /\ Cpu' = Cpu
  BY DEF topology, table, memory, threads, num_all_threads, Cpu
<1>2. TypeOK'
  BY <1>1 DEF TypeOK, Ended
<1>3. Table'
  BY <1>1, SameTable
<1>4. Memory' /\ Created'
  BY <1>1, Constants DEF Memory, Created, AlignedPoint, SizeBlock
<1>5. Working' /\ Joined'
  BY <1>1 DEF Working, Joined
<1> QED BY <1>2, <1>3, <1>4, <1>5

LEMMA AllocStep == ASSUME IInv, AllocThreadsData PROVE IInv'
<1> USE DEF IInv
<1>1. /\ UNCHANGED <<i, num_cpus, num_threads, main_core, cpu_sort, last_real, last_hyper, freed,
                     sum, pc, limit, x>>
      /\ UNCHANGED <<topology, table>> /\ num_all_threads' = num_all_threads /\ Cpu' = Cpu
      /\ mpc = "alloc" /\ mpc' = "prepare" /\ ~ freed
      /\ \A t \in Thread : pc[t] = "none"
  BY DEF AllocThreadsData, topology, table, threads, num_all_threads, Cpu, Memory, Created
<1>2. SizeBlock \in Nat /\ \A a \in Addresses : a \in Nat /\ AlignedPoint(a) \in Nat
  BY LineAssumption, AddressAssumption DEF SizeBlock, AlignedPoint, SizeType
<1>3. /\ size_block' \in {size_block, SizeBlock}
      /\ \/ UNCHANGED <<malloced, array_threads, found, result>> /\ (array_threads # 0 => size_block' = SizeBlock)
         \/ /\ size_block' = SizeBlock /\ malloced' \in Addresses
            /\ array_threads' = AlignedPoint(malloced')
            /\ found' \in Garbage /\ result' = found'
  BY DEF AllocThreadsData, memory, Memory
<1>4. TypeOK'
  <2>1. malloced' \in Nat /\ array_threads' \in Nat /\ size_block' \in Nat
    BY <1>2, <1>3 DEF TypeOK
  <2>2. found' \in [Thread -> Nat] /\ result' \in [Thread -> Nat]
    BY <1>3, BoundAssumption DEF TypeOK
  <2> QED BY <1>1, <2>1, <2>2 DEF TypeOK
<1>5. Table'
  BY <1>1, SameTable
<1>6. Memory' /\ Created'
  BY <1>1, <1>3 DEF Memory, Created, AlignedPoint, SizeBlock
<1>7. Working' /\ Joined'
  BY <1>1, <1>3 DEF Working, Joined
<1> QED BY <1>4, <1>5, <1>6, <1>7

LEMMA CreateStep == ASSUME IInv, CreateThread PROVE IInv'
<1> USE DEF IInv
<1>1. /\ UNCHANGED <<num_cpus, num_threads, main_core, cpu_sort, last_real, last_hyper, malloced,
                     array_threads, size_block, found, freed, result, sum, limit, x>>
      /\ UNCHANGED <<topology, table>> /\ num_all_threads' = num_all_threads /\ Cpu' = Cpu
      /\ mpc = "create" /\ pc' = [pc EXCEPT ![i] = "created"] /\ Loop(num_all_threads, "join")
  BY DEF CreateThread, topology, table, memory, num_all_threads, Cpu
<1>2. /\ i \in Nat /\ i < num_all_threads /\ i \in Thread /\ pc[i] = "none" /\ ~ freed
      /\ \/ i + 1 < num_all_threads /\ i' = i + 1 /\ mpc' = "create"
         \/ i + 1 = num_all_threads /\ i' = 0 /\ mpc' = "join"
  <2>1. i \in Nat /\ i < num_all_threads /\ ~ freed
    BY <1>1 DEF TypeOK, Created, Memory
  <2>2. i \in Thread
    BY <2>1, Constants DEF Thread
  <2>3. pc[i] = "none"
    BY <1>1, <2>1, <2>2 DEF Created
  <2> QED BY <1>1, <2>1, <2>2, <2>3, Constants, LoopIs
<1>3. \A t \in Thread : pc'[t] = IF t = i THEN "created" ELSE pc[t]
  BY <1>1 DEF TypeOK
<1>4. TypeOK'
  BY <1>1, <1>2 DEF TypeOK
<1>5. Table'
  BY <1>1, <1>2, SameTable
<1>6. Memory' /\ Created'
  BY <1>1, <1>2, <1>3, Constants DEF Memory, Created, AlignedPoint, SizeBlock
<1>7. Working' /\ Joined'
  <2>1. \A t \in Thread : sum[t] = 0 /\ t \in Nat
    BY <1>1, Constants DEF Joined
  <2> QED BY <1>1, <1>2, <1>3, <2>1, Constants DEF Working, Joined
<1> QED BY <1>4, <1>5, <1>6, <1>7

\* The result of a thread that is joined is complete.
LEMMA JoinStep == ASSUME IInv, JoinThread PROVE IInv'
<1> USE DEF IInv
<1>1. /\ UNCHANGED <<num_cpus, num_threads, main_core, cpu_sort, last_real, last_hyper, malloced,
                     array_threads, size_block, found, freed, result, pc, limit, x>>
      /\ UNCHANGED <<topology, table>> /\ num_all_threads' = num_all_threads /\ Cpu' = Cpu
      /\ mpc = "join" /\ pc[i] = "ended" /\ sum' = [sum EXCEPT ![i] = result[i]]
      /\ Loop(num_threads, "free")
  BY DEF JoinThread, topology, table, memory, threads, num_all_threads, Cpu
<1>2. /\ i \in Nat /\ i < num_threads /\ i \in Thread /\ ~ freed
      /\ \/ i + 1 < num_threads /\ i' = i + 1 /\ mpc' = "join"
         \/ i + 1 = num_threads /\ i' = 0 /\ mpc' = "free"
  <2>1. i \in Nat /\ i < num_threads /\ ~ freed
    BY <1>1 DEF TypeOK, Joined, Memory
  <2>2. i \in Thread
    BY <2>1, Constants DEF Thread
  <2> QED BY <1>1, <2>1, <2>2, Constants, LoopIs
<1>3. /\ \A t \in Thread : sum'[t] = IF t = i THEN result[i] ELSE sum[t]
      /\ result[i] \in Nat /\ result[i] = found[i] + Steps + 1
  BY <1>1, <1>2 DEF TypeOK, Working
<1>4. TypeOK'
  BY <1>1, <1>2, <1>3 DEF TypeOK
<1>5. Table'
  BY <1>1, <1>2, SameTable
<1>6. Memory' /\ Created'
  BY <1>1, <1>2 DEF Memory, Created, AlignedPoint, SizeBlock
<1>7. Working'
  BY <1>1 DEF Working
<1>8. Joined'
  BY <1>1, <1>2, <1>3, Constants DEF Joined
<1> QED BY <1>4, <1>5, <1>6, <1>7, <1>8

LEMMA FreeStep == ASSUME IInv, FreeAlignMem PROVE IInv'
<1> USE DEF IInv
<1>1. /\ UNCHANGED <<i, num_cpus, num_threads, main_core, cpu_sort, last_real, last_hyper, malloced,
                     array_threads, size_block, found, result, sum, pc, limit, x>>
      /\ UNCHANGED <<topology, table>> /\ num_all_threads' = num_all_threads /\ Cpu' = Cpu
      /\ mpc = "free" /\ mpc' = "returned" /\ freed' = TRUE
  BY DEF FreeAlignMem, topology, table, memory, threads, num_all_threads, Cpu
<1>2. TypeOK'
  BY <1>1 DEF TypeOK
<1>3. Table'
  BY <1>1, SameTable
<1>4. Memory' /\ Created'
  BY <1>1 DEF Memory, Created, AlignedPoint, SizeBlock
<1>5. Working' /\ Joined'
  BY <1>1 DEF Working, Joined
<1> QED BY <1>2, <1>3, <1>4, <1>5

\* A thread adds only to its own result.
LEMMA ThreadStep ==
  ASSUME IInv, NEW t \in Thread, SetAffinity(t) \/ AddStep(t) \/ AddRest(t)
  PROVE  IInv'
<1> USE DEF IInv
<1>1. /\ UNCHANGED <<mpc, i, num_cpus, num_threads, main_core, cpu_sort, last_real, last_hyper,
                     malloced, array_threads, size_block, found, freed, sum>>
      /\ UNCHANGED <<topology, table>> /\ num_all_threads' = num_all_threads /\ Cpu' = Cpu
  BY DEF SetAffinity, AddStep, AddRest, topology, table, memory, num_all_threads, Cpu
<1>2. /\ pc[t] \in {"created", "bound"}
      /\ \A r \in Thread : r # t => /\ pc'[r] = pc[r] /\ limit'[r] = limit[r]
                                    /\ x'[r] = x[r] /\ result'[r] = result[r]
      /\ pc' \in [Thread -> {"none", "created", "bound", "ended"}]
      /\ limit' \in [Thread -> Nat] /\ x' \in [Thread -> Nat] /\ result' \in [Thread -> Nat]
      /\ pc'[t] \in {"bound", "ended"}
      /\ ~ freed =>
           \/ pc[t] = "created" /\ pc'[t] = "bound" /\ limit'[t] = Steps /\ x'[t] = x[t] /\ result'[t] = result[t]
           \/ /\ pc[t] = "bound" /\ pc'[t] = "bound" /\ x[t] < limit[t] /\ limit'[t] = limit[t]
              /\ x'[t] = x[t] + 1 /\ result'[t] = result[t] + 1
           \/ /\ pc[t] = "bound" /\ pc'[t] = "ended" /\ x[t] = limit[t]
              /\ result'[t] = result[t] + 1
  <2>0. /\ pc \in [Thread -> {"none", "created", "bound", "ended"}]
        /\ limit \in [Thread -> Nat] /\ x \in [Thread -> Nat] /\ result \in [Thread -> Nat]
        /\ Steps \in Nat
    BY BoundAssumption DEF TypeOK
  <2>1. CASE SetAffinity(t)
    <3>1. PICK n \in IF freed THEN 0..Steps ELSE {Steps} : limit' = [limit EXCEPT ![t] = n]
      BY <2>1 DEF SetAffinity
    <3>2. n \in Nat /\ (~ freed => n = Steps)
      BY <2>0, <3>1
    <3> QED BY <2>0, <2>1, <3>1, <3>2 DEF SetAffinity
  <2>2. CASE AddStep(t)
    BY <2>0, <2>2 DEF AddStep, AddTo
  <2>3. CASE AddRest(t)
    BY <2>0, <2>3 DEF AddRest, AddTo
  <2> QED BY <2>1, <2>2, <2>3
<1>3. TypeOK'
  BY <1>1, <1>2 DEF TypeOK
<1>4. Table'
  BY <1>1, SameTable
<1>5. Memory' /\ Created'
  BY <1>1, <1>2 DEF Memory, Created, AlignedPoint, SizeBlock
<1>6. Working'
  <2>1. Steps \in Nat /\ found[t] \in Nat /\ result[t] \in Nat /\ x[t] \in Nat
    BY BoundAssumption DEF TypeOK
  <2> QED BY <1>1, <1>2, <2>1 DEF Working
<1>7. Joined'
  BY <1>1, <1>2 DEF Joined
<1> QED BY <1>3, <1>4, <1>5, <1>6, <1>7

LEMMA StutterStep == ASSUME IInv, UNCHANGED vars PROVE IInv'
<1> USE DEF IInv
<1>1. /\ UNCHANGED <<mpc, i, num_cpus, num_threads, main_core, cpu_sort, last_real, last_hyper,
                     malloced, array_threads, size_block, found, freed, result, sum, pc, limit, x>>
      /\ UNCHANGED <<topology, table>> /\ num_all_threads' = num_all_threads /\ Cpu' = Cpu
  BY DEF vars, topology, table, memory, threads, num_all_threads, Cpu
<1>2. TypeOK'
  BY <1>1 DEF TypeOK
<1>3. Table'
  BY <1>1, SameTable
<1>4. Memory' /\ Created'
  BY <1>1 DEF Memory, Created, AlignedPoint, SizeBlock
<1>5. Working' /\ Joined'
  BY <1>1 DEF Working, Joined
<1> QED BY <1>2, <1>3, <1>4, <1>5

LEMMA StepIInv == ASSUME IInv, [Next]_vars PROVE IInv'
<1>1. CASE MainThread
  <2>1. CASE PrepareThreads \/ PrepareThreadsFails
    BY <2>1, GoesOnStep DEF PrepareThreads, PrepareThreadsFails, IInv, Memory
  <2>2. CASE Exit
    BY <2>2, GoesOnStep DEF Exit
  <2> QED BY <1>1, <2>1, <2>2, IdentifyStep, AllocStep, CreateStep, JoinStep, FreeStep DEF MainThread
<1>2. ASSUME NEW t \in Thread, ThreadWork(t) PROVE IInv'
  <2>1. CASE SetAffinityFails(t)
    BY <2>1, GoesOnStep DEF SetAffinityFails
  <2> QED BY <1>2, <2>1, ThreadStep DEF ThreadWork
<1>3. ASSUME NEW from \in {"identify", "prepare", "create"}, NEW fault,
             Return(from, fault) \/ Crash(from, fault)
      PROVE  IInv'
  <2>1. ~ freed
    BY <1>3 DEF Return, Crash, IInv, Memory
  <2> QED BY <1>3, <2>1, GoesOnStep DEF Return, Crash
<1> QED BY <1>1, <1>2, <1>3, StutterStep DEF Next

----------------------------------------------------------------------------

LEMMA Invariance == Spec => []IInv
BY InitIInv, StepIInv, PTL DEF Spec

\* Every variable keeps its type: cpu_sort has numbers of processors only and no
\* loop counter passes the end of an array.
THEOREM TypeCorrect == Spec => []TypeOK
BY Invariance, PTL DEF IInv

\* Whatever processors share a core, IdentifyingProcessors writes inside its
\* table, and on a machine whose cores are alike the table is what calc.h:32-35
\* says.
THEOREM TableIsAsDocumented == Spec => []TableAsDocumented
<1>1. ASSUME IInv PROVE TableAsDocumented
  <2> USE <1>1 DEF IInv
  <2> DEFINE real == {c \in Cpu : IsReal(c)}
             first == FirstHyper(num_cpus)
  <2>1. real = Real(num_cpus) /\ num_cpus \in Nat /\ num_cpus >= 1
    BY Constants DEF Real, Cpu
  <2>2. last_real <= num_cpus /\ last_hyper <= num_cpus
    <3>1. PICK m \in 0..num_cpus : Identified(m)
      BY DEF Table, TypeOK
    <3> QED BY <2>1, <3>1, Bounds
  <2>3. ASSUME mpc \in {"alloc", "prepare", "create", "join"},
               real = Cpu \/ Cardinality(real) = (num_cpus - 1) \div 2 + 1
        PROVE  /\ \A c \in Cpu : \E k \in Cpu : cpu_sort[k] = c
               /\ real # Cpu => \A k \in Cpu : IsReal(cpu_sort[k]) <=> k <= (num_cpus - 1) \div 2
    <3>1. Identified(num_cpus) /\ num_cpus \in 0..num_cpus
      BY <2>1, <2>3 DEF Table
    <3>2. CASE real = Cpu
      <4>1. \A k \in Cpu : cpu_sort[k] = k
        BY <2>1, <3>1, <3>2 DEF Identified, Single, Cpu
      <4> QED BY <3>2, <4>1
    <3>3. CASE real # Cpu
      <4>1. Paired
        BY <2>1, <2>3, <3>3 DEF Paired, FirstHyper
      <4>2. /\ last_real \in Nat /\ last_real <= num_cpus /\ last_hyper \in Nat
            /\ last_hyper <= num_cpus /\ first \in Nat /\ first <= num_cpus
        BY <2>1, <3>1, Bounds
      <4>3. last_real = first /\ last_hyper = num_cpus
        BY <2>1, <3>1, <4>1, <4>2 DEF Identified, Paired
      <4>4. \A k \in Cpu : \/ k \in 0..(last_real - 1) /\ k < first
                           \/ k \in first..(last_hyper - 1) /\ k >= first
        BY <2>1, <4>2, <4>3 DEF Cpu
      <4>5. 0..(last_real - 1) \subseteq Cpu /\ first..(last_hyper - 1) \subseteq Cpu
        BY <2>1, <4>2 DEF Cpu
      <4>6. /\ \A k \in 0..(last_real - 1) : IsReal(cpu_sort[k])
            /\ \A k \in first..(last_hyper - 1) : ~ IsReal(cpu_sort[k])
            /\ \A c \in Real(num_cpus) : \E k \in 0..(last_real - 1) : cpu_sort[k] = c
            /\ \A c \in Hyper(num_cpus) : \E k \in first..(last_hyper - 1) : cpu_sort[k] = c
        BY <3>1, <4>1 DEF Identified
      <4>7. \A c \in Cpu : c \in Real(num_cpus) \/ c \in Hyper(num_cpus)
        BY <2>1 DEF Cpu, Real, Hyper
      <4>8. \A c \in Cpu : \E k \in Cpu : cpu_sort[k] = c
        BY <4>5, <4>6, <4>7
      <4>9. \A k \in Cpu : IsReal(cpu_sort[k]) <=> k < first
        <5>1. \A k \in Cpu : k \in Nat
          BY <2>1 DEF Cpu
        <5> QED BY <4>2, <4>4, <4>6, <5>1
      <4>10. \A k \in Cpu : k < first <=> k <= (num_cpus - 1) \div 2
        <5>1. \A k \in Cpu : k \in Nat
          BY <2>1 DEF Cpu
        <5> QED BY <2>1, <5>1 DEF FirstHyper
      <4> QED BY <4>8, <4>9, <4>10
    <3> QED BY <3>2, <3>3
  <2> QED BY <2>2, <2>3 DEF TableAsDocumented
<1> QED BY <1>1, Invariance, PTL

\* The aligned blocks lie in what malloc() gave, with the pointer that
\* FreeAlignMem takes before them, wherever it lies.
THEOREM BlocksAlwaysFit == Spec => []BlocksFit
<1>1. ASSUME IInv PROVE BlocksFit
  <2>1. SUFFICES ASSUME array_threads # 0
        PROVE  /\ size_block >= SizeType
               /\ array_threads - SizePointer >= malloced
               /\ array_threads + num_all_threads * size_block <=
                    malloced + num_all_threads * size_block + SizePointer \div 2 + SizeLine
    BY DEF BlocksFit
  <2>2. /\ malloced \in Addresses /\ array_threads = AlignedPoint(malloced) /\ size_block = SizeBlock
        /\ malloced \in Nat /\ SizeLine - (malloced % SizeLine) >= SizePointer
    BY <1>1, <2>1, AddressAssumption DEF IInv, Memory
  <2>3. SizeLine \in Nat /\ SizeLine > 40
    BY LineAssumption DEF SizeType
  <2>4. size_block = SizeLine
    <3>1. 40 \div SizeLine = 0
      BY <2>3
    <3> QED BY <2>2, <3>1 DEF SizeBlock, SizeType
  <2>5. num_all_threads \in Nat /\ num_all_threads * size_block \in Int
    <3>1. num_all_threads \in Nat
      BY <1>1, Constants DEF IInv
    <3> QED BY <2>3, <2>4, <3>1
  <2> DEFINE size == num_all_threads * size_block
             over == malloced % SizeLine
  <2>6. over \in Nat /\ array_threads = malloced + SizeLine - over /\ size \in Int
    BY <2>2, <2>3, <2>5 DEF AlignedPoint
  <2>7. SizeLine - over >= 8
    BY <2>2 DEF SizePointer
  <2> HIDE DEF size, over
  <2>8. array_threads - 8 >= malloced
    BY <2>2, <2>3, <2>6, <2>7
  <2>9. array_threads + size <= malloced + size + 8 \div 2 + SizeLine
    BY <2>2, <2>3, <2>6
  <2> QED BY <2>3, <2>4, <2>8, <2>9 DEF size, SizeType, SizePointer
<1> QED BY <1>1, Invariance, PTL

\* The sum has what each thread that was asked for adds, and nothing else, in
\* whatever order the threads run.
THEOREM SumIsAlwaysWhole == Spec => []SumIsWhole
<1>1. ASSUME IInv PROVE SumIsWhole
  BY <1>1 DEF IInv, Joined, SumIsWhole
<1> QED BY <1>1, Invariance, PTL

\* Only threads beyond those that were asked for can be left when the blocks are
\* freed, and only if there are more processors than threads.
THEOREM FreedIsAlwaysUnused == Spec => []FreedIsUnused
<1>1. ASSUME IInv PROVE FreedIsUnused
  BY <1>1, Constants DEF IInv, Joined, Created, FreedIsUnused
<1> QED BY <1>1, Invariance, PTL
=============================================================================
