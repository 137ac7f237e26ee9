------------------------- MODULE MessageQueueProofs -------------------------
(***************************************************************************)
(* The safety properties of MessageQueue, for any number of children and   *)
(* any number of runs, none of which is interrupted.  The invariant follows*)
(* the number that is under way: it is in one place (Token), it is the     *)
(* number of the lines that have been printed since the run began (Order,  *)
(* Counts), and whoever came to msgrcv() before the parent is served before*)
(* it (Waits, Counts).                                                     *)
(***************************************************************************)
EXTENDS MessageQueue, FiniteSetTheorems, TLAPS

\* The parents end one after the other, and fork their children in order.
Started ==
  /\ \A p \in Process : p[1] > runs => pc[p] = "none"
  /\ runs = 0 => msgs = <<>> /\ waiting = <<>> /\ out = <<>>
  /\ \A r \in Run : r < runs => pc[Parent(r)] \in Ended
  /\ \A p \in Process : pc[p] = "fork" =>
       /\ p = Parent(runs) /\ i < N[runs]
       /\ \A k \in 1..MaxN : k > i => pc[<<runs, k>>] = "none"

\* The processes of a run have the same queue; who has failed has one that is
\* removed.
Queues ==
  /\ \A p \in Process : fd[p] <= queue
  /\ \A p \in Process : pc[p] # "none" => fd[p] = fd[Parent(p[1])]
  /\ \A p \in Process : pc[p] = "failed" => fd[p] # queue
  /\ \A p \in Process : pc[p] # "killed"

Waits ==
  /\ \A a, b \in 1..Len(waiting) : waiting[a] = waiting[b] => a = b
  /\ \A a \in 1..Len(waiting) : pc[waiting[a]] = "waiting" /\ fd[waiting[a]] = queue
  /\ \A p \in Process : pc[p] = "waiting" => \E a \in 1..Len(waiting) : waiting[a] = p
  /\ msgs # <<>> => waiting = <<>>

\* A process that has the number, or has just found that it is the last.
Busy(p) == Holds(p) \/ pc[p] = "remove"

\* The last run has not sent its number yet, or the number is gone.
Idle ==
  \/ runs = 0
  \/ N[runs] = 0
  \/ pc[Parent(runs)] \in Ended \cup {"fork", "send"}
  \/ fd[Parent(runs)] # queue

Token ==
  /\ Len(msgs) <= 1
  /\ msgs # <<>> => \A p \in Process : ~Busy(p)
  /\ \A p, q \in Process : Busy(p) /\ Busy(q) => p = q
  /\ Idle => msgs = <<>> /\ \A p \in Process : ~Busy(p)

\* n has been sent, and nobody has printed it.
Unprinted(n) ==
  \/ msgs # <<>> /\ msgs[1] = n
  \/ \E p \in Process : pc[p] = "got" /\ number[p] = n

Zeros == Cardinality({n \in 1..Len(out) : out[n] = 0})

Order ==
  /\ \A n \in 1..Len(out) : out[n] = 0 \/ (n > 1 /\ out[n] = out[n - 1] + 1)
  /\ \A n \in Nat : Unprinted(n) => n = 0 \/ (Len(out) > 0 /\ n = out[Len(out)] + 1)
  /\ \A p \in Process : IsChild(p) /\ pc[p] = "send" => Len(out) > 0 /\ number[p] = out[Len(out)]
  /\ Zeros <= runs
  /\ Unprinted(0) => Zeros < runs
  /\ runs > 0 /\ N[runs] > 0 /\ pc[Parent(runs)] \in {"fork", "send"} => Zeros < runs

\* p came to msgrcv() before q.
Before(p, q) == \E a, b \in 1..Len(waiting) : a < b /\ waiting[a] = p /\ waiting[b] = q

\* Those that came before the parent are served before it.
EarlyFirst ==
  pc[Parent(1)] = "waiting" =>
    \A c \in early[1] :
      /\ pc[c] \in {"waiting", "got", "send", "remove", "done", "failed"}
      /\ pc[c] = "waiting" => Before(c, Parent(1))

Counts ==
  runs = 1 /\ N[1] > 0 =>
    /\ \A n \in Nat : Unprinted(n) => n = Len(out)
    /\ \A p \in Process : IsChild(p) /\ pc[p] = "send" => number[p] + 1 = Len(out)
    /\ pc[Parent(1)] \in {"fork", "send"} => out = <<>>
    /\ pc[Parent(1)] = "done" => number[Parent(1)] = Len(out)
    /\ EarlyFirst
    /\ pc[Parent(1)] \in {"got", "done"} => \A c \in early[1] : pc[c] = "done"

Inv == TypeOK /\ Started /\ Queues /\ Waits /\ Token /\ Order /\ Counts
IInv == ~interrupted => Inv

----------------------------------------------------------------------------
(* Facts about processes                                                   *)

LEMMA ProcessFacts ==
  /\ \A p \in Process : p[1] \in Run /\ p[2] \in 0..MaxN /\ p = <<p[1], p[2]>>
  /\ \A r \in Run : Parent(r) \in Process /\ Parent(r)[1] = r /\ Parent(r)[2] = 0
  /\ \A p \in Process : p[2] = 0 => p = Parent(p[1])
  /\ \A r \in Run, k \in 0..MaxN : <<r, k>> \in Process /\ <<r, k>>[1] = r /\ <<r, k>>[2] = k
  /\ \A r \in Run : r \in Nat /\ r > 0
  /\ 1 \in Run
BY BoundAssumption DEF Process, Run, Parent

LEMMA Typed ==
  ASSUME TypeOK
  PROVE  /\ runs \in Nat /\ (runs > 0 => runs \in Run) /\ runs <= MaxRuns
         /\ i \in Nat /\ i <= MaxN /\ MaxN \in Nat /\ MaxRuns \in Nat
         /\ \A r \in Run : N[r] \in Nat /\ N[r] <= MaxN
         /\ \A p \in Process : fd[p] \in Nat /\ number[p] \in Nat
         /\ queue \in Nat
         /\ msgs \in Seq(Nat) /\ Len(msgs) \in Nat /\ out \in Seq(Nat) /\ Len(out) \in Nat
         /\ waiting \in Seq(Process) /\ Len(waiting) \in Nat
         /\ \A a \in 1..Len(waiting) : waiting[a] \in Process
         /\ \A a \in 1..Len(out) : out[a] \in Nat
BY BoundAssumption DEF TypeOK, Run

\* Only the last run's parent forks or sends.
LEMMA ParentIs ==
  ASSUME Inv, NEW p \in Process, ~IsChild(p), pc[p] \notin Ended \cup {"none"}
  PROVE  runs \in Run /\ p = Parent(runs) /\ N[runs] > 0
<1>1. p[2] = 0 /\ p = Parent(p[1]) /\ p[1] \in Run /\ N[p[1]] # 0 /\ p[1] \in Nat /\ p[1] > 0
  BY ProcessFacts, BoundAssumption DEF IsChild
<1>2. p[1] <= runs /\ ~(p[1] < runs)
  BY <1>1, Typed DEF Inv, Started
<1>3. p[1] = runs
  BY <1>1, <1>2, Typed DEF Inv
<1> QED BY <1>1, <1>3, Typed DEF Inv

LEMMA ZerosTyped ==
  ASSUME TypeOK PROVE Zeros \in Nat /\ IsFiniteSet({n \in 1..Len(out) : out[n] = 0})
<1>1. IsFiniteSet(1..Len(out))
  BY Typed, FS_Interval
<1>2. IsFiniteSet({n \in 1..Len(out) : out[n] = 0})
  BY <1>1, FS_Subset
<1> QED BY <1>2, FS_CardinalityType DEF Zeros

LEMMA InitIInv == ASSUME Init PROVE IInv
<1> SUFFICES Inv
  BY DEF IInv
<1>1. TypeOK
  <2>1. <<>> \in Seq(Nat) /\ <<>> \in Seq(Process) /\ 0 \in 0..MaxN /\ 0 \in 0..MaxRuns
    BY BoundAssumption
  <2> QED BY <2>1 DEF Init, TypeOK
<1>2. Started
  BY ProcessFacts DEF Init, Started
<1>3. Queues
  BY ProcessFacts DEF Init, Queues
<1>4. Waits
  BY DEF Init, Waits
<1>5. Token
  BY DEF Init, Token, Busy, Holds
<1>6. Order
  <2>1. {n \in 1..Len(out) : out[n] = 0} = {}
    BY DEF Init
  <2>2. Zeros = 0
    BY <2>1, FS_EmptySet DEF Zeros
  <2> QED BY <2>2 DEF Init, Order, Unprinted
<1>7. Counts
  BY DEF Init, Counts
<1> QED BY <1>1, <1>2, <1>3, <1>4, <1>5, <1>6, <1>7 DEF Inv

----------------------------------------------------------------------------
(* Steps that do not move the number                                       *)

NoNumber == msgs = <<>> /\ \A p \in Process : ~Busy(p)

LEMMA Quiet ==
  ASSUME Inv, UNCHANGED <<number, queue, msgs, out>>, runs' \in Nat, runs <= runs',
         \A p \in Process : Busy(p)' => Busy(p),
         \A p \in Process : pc'[p] = "got" => pc[p] = "got",
         \A p \in Process : IsChild(p)' /\ pc'[p] = "send" => IsChild(p) /\ pc[p] = "send",
         Idle' => Idle \/ NoNumber',
         runs' > 0 /\ N'[runs'] > 0 /\ pc'[Parent(runs')] \in {"fork", "send"} => Zeros < runs'
  PROVE  Token' /\ Order'
<1>1. Token'
  <2>1. Idle => NoNumber'
    BY DEF Inv, Token, NoNumber
  <2>2. Idle' => msgs' = <<>> /\ \A p \in Process : ~Busy(p)'
    BY <2>1 DEF NoNumber
  <2> QED BY <2>2 DEF Inv, Token
<1>2. Order'
  <2>1. Zeros' = Zeros /\ Zeros \in Nat /\ runs \in Nat
    BY ZerosTyped, Typed DEF Zeros, Inv
  <2>2. \A n : Unprinted(n)' => Unprinted(n)
    BY DEF Unprinted
  <2> QED BY <2>1, <2>2 DEF Inv, Order
<1> QED BY <1>1, <1>2

LEMMA StartStep ==
  ASSUME Inv, Start
  PROVE  Inv'
<1> USE DEF Inv
<1>1. PICK n \in 0..MaxN :
        /\ N' = [N EXCEPT ![runs'] = n]
        /\ pc' = [pc EXCEPT ![Parent(runs')] = IF n = 0 THEN "receive" ELSE "fork"]
  BY DEF Start
<1>2. /\ runs' = runs + 1 /\ runs' \in Run /\ runs \in Nat /\ i' = 0
      /\ fd' = [fd EXCEPT ![Parent(runs')] = queue] /\ n \in Nat
      /\ UNCHANGED <<number, queue, msgs, waiting, out, early, interrupted>>
  BY Typed, BoundAssumption DEF Start, Run, kernel, history
<1> DEFINE s == IF n = 0 THEN "receive" ELSE "fork"
<1>3. /\ \A p \in Process : pc'[p] = IF p = Parent(runs') THEN s ELSE pc[p]
      /\ \A p \in Process : fd'[p] = IF p = Parent(runs') THEN queue ELSE fd[p]
      /\ \A r \in Run : N'[r] = IF r = runs' THEN n ELSE N[r]
      /\ Parent(runs') \in Process /\ Parent(runs')[1] = runs'
  BY <1>1, <1>2, ProcessFacts DEF TypeOK
<1>4. /\ \A p \in Process : p[1] >= runs' => pc[p] = "none"
      /\ \A p \in Process : p[1] \in Nat
  BY <1>2, ProcessFacts DEF Started
<1>5. Idle /\ NoNumber
  BY <1>2, Typed DEF Start, Idle, Token, NoNumber, Ended
<1>6. \A p \in Process : p[1] # runs' => IsChild(p)' = IsChild(p)
  BY <1>3, ProcessFacts DEF IsChild
<1>7. /\ \A p \in Process : pc'[p] = "got" => pc[p] = "got" /\ p[1] # runs'
      /\ \A p \in Process : pc'[p] \in {"send", "remove"} => pc[p] = pc'[p] /\ p[1] # runs'
  BY <1>3, <1>4, <1>2
<1>8. \A p \in Process : Busy(p)' => Busy(p)
  BY <1>6, <1>7 DEF Busy, Holds
<1>9. TypeOK'
  <2>1. runs' \in 0..MaxRuns /\ i' \in 0..MaxN
    BY <1>2, BoundAssumption DEF Run
  <2> QED BY <1>1, <1>2, <2>1 DEF TypeOK
<1>10. Started'
  <2>1. \A p \in Process : p[1] > runs' => pc'[p] = "none"
    BY <1>2, <1>3, <1>4
  <2>2. \A r \in Run : r < runs' => pc'[Parent(r)] \in Ended
    <3> TAKE r \in Run
    <3> HAVE r < runs'
    <3>1. r < runs \/ (r = runs /\ runs > 0)
      BY <1>2, ProcessFacts
    <3>2. pc[Parent(r)] \in Ended
      BY <3>1 DEF Started, Start
    <3>3. Parent(r) # Parent(runs') /\ Parent(r) \in Process
      BY <1>2, ProcessFacts
    <3> QED BY <3>2, <3>3, <1>3
  <2>3. ASSUME NEW p \in Process, pc'[p] = "fork"
        PROVE  /\ p = Parent(runs') /\ i' < N'[runs']
               /\ \A k \in 1..MaxN : k > i' => pc'[<<runs', k>>] = "none"
    <3>1. p = Parent(runs') /\ n # 0
      <4>1. CASE p # Parent(runs')
        <5>1. pc[p] = "fork"
          BY <2>3, <4>1, <1>3
        <5>2. p = Parent(runs) /\ ~(p[1] > runs)
          BY <5>1 DEF Started
        <5>3. p[1] \in Nat /\ p[1] > 0
          BY ProcessFacts
        <5>4. runs > 0
          BY <5>2, <5>3, <1>2
        <5>5. pc[Parent(runs)] \in Ended
          BY <5>4 DEF Start
        <5> QED BY <5>1, <5>2, <5>5 DEF Ended
      <4>2. CASE p = Parent(runs')
        BY <2>3, <4>2, <1>3
      <4> QED BY <4>1, <4>2
    <3>2. \A k \in 1..MaxN : pc'[<<runs', k>>] = "none"
      <4> TAKE k \in 1..MaxN
      <4>1. <<runs', k>> \in Process /\ <<runs', k>>[1] = runs' /\ <<runs', k>>[2] = k /\ k # 0
        BY <1>2, ProcessFacts, BoundAssumption
      <4> QED BY <4>1, <1>2, <1>3, <1>4, ProcessFacts
    <3> QED BY <3>1, <3>2, <1>2, <1>3
  <2> QED BY <1>2, <2>1, <2>2, <2>3 DEF Started
<1>11. Queues'
  <2>1. \A p \in Process : fd'[p] <= queue'
    BY <1>2, <1>3, Typed DEF Queues
  <2>2. \A p \in Process : pc'[p] # "none" => fd'[p] = fd'[Parent(p[1])]
    <3> TAKE p \in Process
    <3>1. CASE p = Parent(runs')
      BY <3>1, <1>3
    <3>2. CASE p # Parent(runs') /\ pc'[p] # "none"
      <4>1. pc[p] # "none" /\ p[1] # runs' /\ fd[p] = fd[Parent(p[1])]
        BY <3>2, <1>2, <1>3, <1>4 DEF Queues
      <4>2. Parent(p[1]) \in Process /\ Parent(p[1]) # Parent(runs')
        BY <4>1, <1>2, ProcessFacts
      <4> QED BY <3>2, <4>1, <4>2, <1>3
    <3> QED BY <3>1, <3>2
  <2>3. \A p \in Process : (pc'[p] = "failed" => fd'[p] # queue') /\ pc'[p] # "killed"
    BY <1>2, <1>3 DEF Queues
  <2> QED BY <2>1, <2>2, <2>3 DEF Queues
<1>12. Waits'
  <2>1. pc[Parent(runs')] = "none"
    BY <1>3, <1>4, <1>2
  <2>2. \A a \in 1..Len(waiting) : waiting[a] \in Process /\ waiting[a] # Parent(runs')
    BY <2>1, Typed DEF Waits
  <2>3. \A a \in 1..Len(waiting) : pc'[waiting[a]] = "waiting" /\ fd'[waiting[a]] = queue
    BY <2>2, <1>3 DEF Waits
  <2>4. \A p \in Process : pc'[p] = "waiting" => pc[p] = "waiting"
    BY <1>3
  <2> QED BY <1>2, <2>3, <2>4 DEF Waits
<1>13. Token' /\ Order'
  <2>1. Zeros < runs'
    BY <1>2, ZerosTyped DEF Order
  <2>2. \A p \in Process : IsChild(p)' /\ pc'[p] = "send" => IsChild(p) /\ pc[p] = "send"
    BY <1>6, <1>7
  <2>3. runs <= runs' /\ runs' \in Nat
    BY <1>2
  <2> QED BY <1>2, <1>5, <1>7, <1>8, <2>1, <2>2, <2>3, Quiet
<1>14. Counts'
  <2> SUFFICES ASSUME runs' = 1, N'[1] > 0 PROVE Counts'
    BY DEF Counts
  <2>1. runs = 0 /\ out' = <<>> /\ msgs' = <<>>
    BY <1>2 DEF Started
  <2>2. n # 0 /\ pc'[Parent(1)] = "fork"
    BY <1>3, ProcessFacts
  <2>3. \A p \in Process : ~Busy(p)'
    BY <1>5, <1>8 DEF NoNumber
  <2>4. \A m : ~Unprinted(m)'
    BY <2>1, <2>3 DEF Unprinted, Busy, Holds
  <2> QED BY <2>1, <2>2, <2>3, <2>4 DEF Counts, EarlyFirst, Busy, Holds
<1> QED BY <1>9, <1>10, <1>11, <1>12, <1>13, <1>14

LEMMA QuietCounts ==
  ASSUME Inv, UNCHANGED <<runs, N, number, queue, msgs, out>>,
         \A p \in Process : pc'[p] = "got" => pc[p] = "got",
         \A p \in Process : pc'[p] = "send" => pc[p] = "send" \/ ~IsChild(p),
         pc'[Parent(1)] \in {"fork", "send"} => pc[Parent(1)] \in {"fork", "send"},
         pc'[Parent(1)] = "done" => pc[Parent(1)] \in {"done", "got"},
         runs = 1 /\ N[1] > 0 => EarlyFirst',
         pc'[Parent(1)] \in {"got", "done"} =>
           early' = early /\ \A p \in Process : pc[p] = "done" => pc'[p] = "done"
  PROVE  Counts'
<1> USE DEF Inv
<1> SUFFICES ASSUME runs = 1, N[1] > 0 PROVE Counts'
  BY DEF Counts
<1>1. \A n : Unprinted(n)' => Unprinted(n)
  BY DEF Unprinted
<1>2. \A p \in Process : IsChild(p)' = IsChild(p)
  BY DEF IsChild
<1>3. \A n \in Nat : Unprinted(n)' => n = Len(out')
  BY <1>1 DEF Counts
<1>4. \A p \in Process : IsChild(p)' /\ pc'[p] = "send" => number'[p] + 1 = Len(out')
  BY <1>2 DEF Counts
<1>5. pc'[Parent(1)] \in {"fork", "send"} => out' = <<>>
  BY DEF Counts
<1>6. pc'[Parent(1)] = "done" => number'[Parent(1)] = Len(out')
  <2>1. pc[Parent(1)] = "got" => Unprinted(number[Parent(1)]) /\ number[Parent(1)] \in Nat
    BY ProcessFacts, Typed DEF Unprinted
  <2> QED BY <2>1 DEF Counts
<1>7. pc'[Parent(1)] \in {"got", "done"} => \A c \in early'[1] : pc'[c] = "done"
  <2>1. early[1] \subseteq Process
    BY ProcessFacts DEF TypeOK
  <2>2. pc'[Parent(1)] \in {"got", "done"} => pc[Parent(1)] \in {"got", "done"}
    BY ProcessFacts
  <2> QED BY <2>1, <2>2 DEF Counts
<1> QED BY <1>3, <1>4, <1>5, <1>6, <1>7 DEF Counts, EarlyFirst

\* As long as the order of those that wait stays, those that may leave the
\* waiting are the early ones.
LEMMA EarlyStays ==
  ASSUME Inv, UNCHANGED <<waiting, early>>, runs = 1, N[1] > 0,
         pc'[Parent(1)] = "waiting" => pc[Parent(1)] = "waiting",
         \A p \in Process : pc'[p] = "waiting" => pc[p] = "waiting",
         \A p \in Process : pc[p] \in {"waiting", "got", "send", "remove", "done", "failed"}
                           => pc'[p] \in {"waiting", "got", "send", "remove", "done", "failed"}
  PROVE  EarlyFirst'
<1>1. early[1] \subseteq Process
  BY ProcessFacts DEF Inv, TypeOK
<1> QED BY <1>1 DEF Inv, Counts, EarlyFirst, Before

LEMMA ForkStep ==
  ASSUME Inv, Fork \/ ForkFails
  PROVE  Inv'
<1> USE DEF Inv
<1> DEFINE P == Parent(runs)
           s == IF i + 1 = N[runs] THEN "send" ELSE "fork"
<1>1. /\ runs \in Run /\ P \in Process /\ pc[P] = "fork" /\ i < N[runs] /\ i' = i + 1
      /\ N[runs] <= MaxN /\ P = <<runs, 0>> /\ runs \in Nat /\ runs > 0 /\ N[runs] \in Nat
      /\ \A k \in 1..MaxN : k > i => pc[<<runs, k>>] = "none"
      /\ i \in Nat /\ MaxN \in Nat
      /\ UNCHANGED <<runs, N, number, queue, msgs, waiting, out, early, interrupted>>
  BY Typed, ProcessFacts DEF Fork, ForkFails, Started, kernel, history, Parent
<1> HIDE DEF s
<1>2. PICK child \in Process : child = <<runs, i + 1>> /\ child # P /\ pc[child] = "none"
                              /\ child[2] > 0 /\ child[1] = runs
  <2>1. i + 1 \in 0..MaxN /\ i + 1 \in 1..MaxN /\ i + 1 > i /\ i + 1 # 0
    BY <1>1
  <2>2. /\ <<runs, i + 1>> \in Process /\ <<runs, i + 1>>[1] = runs
        /\ <<runs, i + 1>>[2] = i + 1 /\ pc[<<runs, i + 1>>] = "none"
    BY <1>1, <2>1, ProcessFacts
  <2> QED BY <1>1, <2>1, <2>2
<1>3. /\ pc'[P] = s /\ pc'[child] \in {"none", "receive"}
      /\ \A p \in Process : p # P /\ p # child => pc'[p] = pc[p]
      /\ fd'[child] \in {fd[child], fd[P]}
      /\ \A p \in Process : p # child => fd'[p] = fd[p]
      /\ pc'[child] = "receive" => fd'[child] = fd[P]
      /\ TypeOK'
      /\ fd' \in [Process -> Nat]
  <2>1. s \in {"send", "fork"} /\ fd[P] \in Nat
    BY <1>1, Typed DEF s
  <2>2. CASE Fork
    <3>1. pc' = [pc EXCEPT ![P] = s, ![child] = "receive"] /\ fd' = [fd EXCEPT ![child] = fd[P]]
      BY <2>2, <1>1, <1>2 DEF Fork, AfterFork, s
    <3>2. i' \in 0..MaxN
      BY <1>1
    <3> QED BY <3>1, <3>2, <2>1, <1>1, <1>2 DEF TypeOK
  <2>3. CASE ForkFails
    <3>1. pc' = [pc EXCEPT ![P] = s] /\ fd' = fd
      BY <2>3, <1>1, <1>2 DEF ForkFails, AfterFork, s
    <3>2. i' \in 0..MaxN
      BY <1>1
    <3> QED BY <3>1, <3>2, <2>1, <1>1, <1>2 DEF TypeOK
  <2> QED BY <2>2, <2>3
<1>4. s \in {"send", "fork"} /\ (s = "fork" => i' < N[runs])
  BY <1>1 DEF s
<1>5. ~IsChild(P) /\ \A p \in Process : IsChild(p)' = IsChild(p)
  BY <1>1, ProcessFacts DEF IsChild
<1>6. Idle
  BY <1>1 DEF Idle
<1>7. Started'
  <2>1. \A p \in Process : p[1] > runs => pc'[p] = "none"
    BY SMTT(30), <1>1, <1>2, <1>3, ProcessFacts DEF Started
  <2>2. \A r \in Run : r < runs => pc'[Parent(r)] \in Ended
    <3> TAKE r \in Run
    <3> HAVE r < runs
    <3>1. Parent(r) \in Process /\ Parent(r)[1] # runs /\ pc[Parent(r)] \in Ended
      BY ProcessFacts, <1>1 DEF Started
    <3> QED BY <3>1, <1>1, <1>2, <1>3, ProcessFacts
  <2>3. ASSUME NEW p \in Process, pc'[p] = "fork"
        PROVE  /\ p = Parent(runs) /\ i' < N[runs]
               /\ \A k \in 1..MaxN : k > i' => pc'[<<runs, k>>] = "none"
    <3>1. pc[p] = "fork" /\ p = P
      BY <2>3, <1>1, <1>3 DEF Started
    <3>2. i' < N[runs]
      BY <2>3, <3>1, <1>2, <1>3, <1>4
    <3>3. ASSUME NEW k \in 1..MaxN, k > i' PROVE pc'[<<runs, k>>] = "none"
      <4>1. k > i /\ k # i + 1 /\ k # 0 /\ k \in 0..MaxN
        BY <3>3, <1>1
      <4>2. <<runs, k>> \in Process /\ <<runs, k>> # P /\ <<runs, k>> # child
        BY <4>1, <1>1, <1>2, ProcessFacts
      <4> QED BY <4>1, <4>2, <1>1, <1>3
    <3> QED BY <3>1, <3>2, <3>3
  <2> QED BY <1>1, <2>1, <2>2, <2>3 DEF Started
<1>8. Queues'
  <2>1. \A p \in Process : fd'[p] <= queue
    BY <1>1, <1>3 DEF Queues
  <2>2. \A p \in Process : pc'[p] # "none" => fd'[p] = fd'[Parent(p[1])]
    <3> TAKE p \in Process
    <3> HAVE pc'[p] # "none"
    <3>1. Parent(p[1]) \in Process /\ Parent(p[1]) # child
      BY <1>2, ProcessFacts
    <3>2. fd'[Parent(p[1])] = fd[Parent(p[1])]
      BY <3>1, <1>3
    <3>3. CASE p = child
      BY <3>2, <3>3, <1>2, <1>3
    <3>4. CASE p # child
      <4>1. pc[p] # "none" /\ fd'[p] = fd[p]
        BY <3>4, <1>1, <1>3
      <4> QED BY <4>1, <3>2 DEF Queues
    <3> QED BY <3>3, <3>4
  <2>3. \A p \in Process : pc'[p] = "failed" => fd'[p] # queue
    BY <1>3, <1>4 DEF Queues
  <2>4. \A p \in Process : pc'[p] # "killed"
    BY <1>3, <1>4 DEF Queues
  <2> QED BY <1>1, <2>1, <2>2, <2>3, <2>4 DEF Queues
<1>9. Waits'
  <2>1. \A a \in 1..Len(waiting) : waiting[a] \in Process /\ waiting[a] # P /\ waiting[a] # child
    BY <1>1, <1>2, Typed DEF Waits
  <2>2. \A a \in 1..Len(waiting) : pc'[waiting[a]] = "waiting" /\ fd'[waiting[a]] = queue
    BY <2>1, <1>3 DEF Waits
  <2>3. \A p \in Process : pc'[p] = "waiting" => pc[p] = "waiting"
    BY <1>3, <1>4
  <2> QED BY SMTT(30), <1>1, <2>2, <2>3 DEF Waits
<1>10. Token' /\ Order'
  <2>1. /\ \A p \in Process : Busy(p)' => Busy(p)
        /\ \A p \in Process : pc'[p] = "got" => pc[p] = "got"
        /\ \A p \in Process : IsChild(p)' /\ pc'[p] = "send" => IsChild(p) /\ pc[p] = "send"
    BY <1>3, <1>4, <1>5 DEF Busy, Holds
  <2>2. Zeros < runs
    BY <1>1 DEF Order
  <2> QED BY <1>1, <1>6, <2>1, <2>2, Quiet
<1>11. Counts'
  <2>1. runs = 1 => Parent(1) = P
    BY DEF P
  <2> SUFFICES ASSUME runs = 1, N[1] > 0 PROVE Counts'
    BY <1>1 DEF Counts
  <2>2. pc'[Parent(1)] \in {"send", "fork"} /\ pc[Parent(1)] = "fork"
    BY <2>1, <1>1, <1>2, <1>3, <1>4
  <2>3. EarlyFirst'
    BY <2>2 DEF EarlyFirst
  <2>4. /\ \A p \in Process : pc'[p] = "got" => pc[p] = "got"
        /\ \A p \in Process : pc'[p] = "send" => pc[p] = "send" \/ ~IsChild(p)
    BY <1>3, <1>4, <1>5
  <2> QED BY <1>1, <2>2, <2>3, <2>4, QuietCounts
<1> QED BY <1>3, <1>7, <1>8, <1>9, <1>10, <1>11

\* Who takes a step belongs to a run that has begun.
LEMMA Alive ==
  ASSUME Inv, NEW p \in Process, pc[p] # "none"
  PROVE  runs \in Run /\ runs > 0
<1>1. ~(p[1] > runs) /\ p[1] \in Nat /\ p[1] > 0
  BY ProcessFacts DEF Inv, Started
<1> QED BY <1>1, Typed DEF Inv

\* A step of a process that is there starts and forks nobody.
LEMMA Frame ==
  ASSUME Inv, UNCHANGED <<runs, N, i, fd>>, runs > 0, queue' \in Nat, queue <= queue',
         \A p \in Process : pc[p] = "none" => pc'[p] = "none",
         \A p \in Process : pc'[p] = "none" => pc[p] = "none",
         \A p \in Process : pc[p] \in Ended => pc'[p] \in Ended,
         \A p \in Process : pc'[p] = "fork" => pc[p] = "fork",
         \A p \in Process : pc'[p] = "failed" => fd[p] # queue',
         \A p \in Process : pc'[p] # "killed"
  PROVE  Started' /\ Queues'
<1> USE DEF Inv
<1>1. Started'
  <2>1. \A r \in Run : r < runs => pc'[Parent(r)] \in Ended
    BY ProcessFacts DEF Started
  <2>2. ASSUME NEW p \in Process, pc'[p] = "fork"
        PROVE  /\ p = Parent(runs) /\ i < N[runs]
               /\ \A k \in 1..MaxN : k > i => pc'[<<runs, k>>] = "none"
    <3>1. /\ p = Parent(runs) /\ i < N[runs]
          /\ \A k \in 1..MaxN : k > i => pc[<<runs, k>>] = "none"
      BY <2>2 DEF Started
    <3>2. \A k \in 1..MaxN : <<runs, k>> \in Process
      <4> TAKE k \in 1..MaxN
      <4>1. k \in 0..MaxN /\ runs \in Run
        BY Typed
      <4> QED BY <4>1, ProcessFacts
    <3> QED BY <3>1, <3>2
  <2>3. runs \in Nat
    BY Typed
  <2> QED BY <2>1, <2>2, <2>3 DEF Started
<1>2. Queues'
  <2>1. \A p \in Process : fd'[p] <= queue'
    BY Typed DEF Queues
  <2>2. \A p \in Process : pc'[p] # "none" => fd'[p] = fd'[Parent(p[1])]
    BY DEF Queues
  <2> QED BY <2>1, <2>2 DEF Queues
<1> QED BY <1>1, <1>2

\* The same processes wait.
LEMMA SameWaits ==
  ASSUME Inv, UNCHANGED <<waiting, fd, queue>>, msgs' # <<>> => msgs # <<>>,
         \A p \in Process : pc'[p] = "waiting" <=> pc[p] = "waiting"
  PROVE  Waits'
<1>1. \A a \in 1..Len(waiting) : waiting[a] \in Process
  BY Typed DEF Inv
<1> QED BY <1>1 DEF Inv, Waits

LEMMA ReceiveMsgWaitsStep ==
  ASSUME Inv, NEW p \in Process, ReceiveMsgWaits(p)
  PROVE  Inv'
<1> USE DEF Inv
<1>1. /\ pc[p] = "receive" /\ fd[p] = queue /\ msgs = <<>>
      /\ \A q \in Process : pc'[q] = IF q = p THEN "waiting" ELSE pc[q]
      /\ waiting' = Append(waiting, p)
      /\ runs \in Run /\ runs > 0
      /\ UNCHANGED <<runs, N, i, fd, number, queue, msgs, out, interrupted>>
  BY Alive DEF ReceiveMsgWaits, TypeOK
<1>2. /\ Len(waiting) \in Nat /\ Len(waiting') = Len(waiting) + 1
      /\ waiting'[Len(waiting) + 1] = p
      /\ \A a \in 1..Len(waiting) : waiting'[a] = waiting[a] /\ waiting[a] \in Process
      /\ \A a \in 1..Len(waiting') : a \in 1..Len(waiting) \/ a = Len(waiting) + 1
      /\ \A a \in 1..Len(waiting) : waiting[a] # p
  BY <1>1, Typed DEF Waits
<1>3. TypeOK'
  <2>1. early' \in [Run -> SUBSET Process]
    BY DEF ReceiveMsgWaits, IsEarly, TypeOK, Processes
  <2>2. pc' \in [Process -> {"none", "fork", "receive", "waiting", "got", "send", "remove"}
                            \cup Ended]
    BY DEF ReceiveMsgWaits, TypeOK
  <2> QED BY <1>1, <2>1, <2>2 DEF TypeOK
<1>4. Started' /\ Queues'
  BY <1>1, Typed, Frame DEF Queues, Ended
<1>5. Waits'
  <2>1. \A a, b \in 1..Len(waiting') : waiting'[a] = waiting'[b] => a = b
    BY <1>2 DEF Waits
  <2>2. \A a \in 1..Len(waiting') : pc'[waiting'[a]] = "waiting" /\ fd[waiting'[a]] = queue
    BY <1>1, <1>2 DEF Waits
  <2>3. \A q \in Process : pc'[q] = "waiting" => \E a \in 1..Len(waiting') : waiting'[a] = q
    <3> TAKE q \in Process
    <3> HAVE pc'[q] = "waiting"
    <3>1. CASE q = p
      <4>1. Len(waiting) + 1 \in 1..Len(waiting')
        BY <1>2
      <4> QED BY <3>1, <4>1, <1>2
    <3>2. CASE q # p
      <4>1. PICK a \in 1..Len(waiting) : waiting[a] = q
        BY <3>2, <1>1 DEF Waits
      <4>2. a \in 1..Len(waiting')
        BY <1>2
      <4> QED BY <4>1, <4>2, <1>2
    <3> QED BY <3>1, <3>2
  <2> QED BY <1>1, <2>1, <2>2, <2>3 DEF Waits
<1>6. Token' /\ Order'
  <2>1. /\ \A q \in Process : Busy(q)' => Busy(q)
        /\ \A q \in Process : pc'[q] = "got" => pc[q] = "got"
        /\ \A q \in Process : IsChild(q)' /\ pc'[q] = "send" => IsChild(q) /\ pc[q] = "send"
    BY <1>1 DEF Busy, Holds, IsChild
  <2>2. pc'[Parent(runs)] \in Ended \cup {"fork", "send"} => pc'[Parent(runs)] = pc[Parent(runs)]
    BY <1>1, ProcessFacts DEF Ended
  <2>3. Idle' => Idle
    BY <1>1, <2>2 DEF Idle
  <2>4. runs \in Nat /\ (N[runs] > 0 /\ pc'[Parent(runs)] \in {"fork", "send"} => Zeros < runs)
    BY <1>1, <2>2, Typed DEF Order
  <2> QED BY <1>1, <2>1, <2>3, <2>4, Quiet
<1>7. Counts'
  <2> DEFINE P == Parent(1)
  <2>0. P \in Process
    BY ProcessFacts
  <2>1. ASSUME runs = 1, N[1] > 0 PROVE EarlyFirst'
    <3> SUFFICES ASSUME pc'[P] = "waiting", NEW c \in early'[1]
                 PROVE  /\ pc'[c] \in {"waiting", "got", "send", "remove", "done", "failed"}
                        /\ pc'[c] = "waiting" => Before(c, P)'
      BY DEF EarlyFirst
    <3>1. c \in Process
      BY <1>3, ProcessFacts DEF TypeOK
    <3>2. CASE p = P
      <4>1. early' = [early EXCEPT ![1] = {q \in Processes(1) : pc[q] \notin {"none", "receive"}}]
        BY <3>2, ProcessFacts DEF ReceiveMsgWaits, IsEarly
      <4>2. pc[c] \notin {"none", "receive"}
        BY <4>1, ProcessFacts DEF TypeOK
      <4>3. c # p /\ pc'[c] = pc[c]
        BY <4>2, <3>1, <1>1
      <4>4. pc[c] # "fork" /\ pc[c] # "killed"
        BY <4>3, <3>1, <3>2, <2>1 DEF Started, Queues
      <4>5. pc[c] \in {"waiting", "got", "send", "remove", "done", "failed"}
        BY <4>2, <4>4, <3>1 DEF TypeOK, Ended
      <4>6. ASSUME pc[c] = "waiting" PROVE Before(c, P)'
        <5>1. PICK a \in 1..Len(waiting) : waiting[a] = c
          BY <4>6, <3>1 DEF Waits
        <5>2. a \in 1..Len(waiting') /\ Len(waiting) + 1 \in 1..Len(waiting') /\ a < Len(waiting) + 1
          BY <1>2
        <5> QED BY <5>1, <5>2, <1>2, <3>2 DEF Before
      <4> QED BY <4>3, <4>5, <4>6
    <3>3. CASE p # P
      <4>1. early' = early /\ pc[P] = "waiting"
        <5>1. p[1] = 1
          BY <1>1, <2>1, ProcessFacts DEF Started, Run
        <5> QED BY <5>1, <3>3, <2>0, <1>1 DEF ReceiveMsgWaits, IsEarly
      <4>2. /\ pc[c] \in {"waiting", "got", "send", "remove", "done", "failed"}
            /\ pc[c] = "waiting" => Before(c, P)
        BY <4>1, <2>1 DEF Counts, EarlyFirst
      <4>3. c # p /\ pc'[c] = pc[c]
        BY <4>2, <3>1, <1>1
      <4>4. Before(c, P) => Before(c, P)'
        <5> SUFFICES ASSUME NEW a \in 1..Len(waiting), NEW b \in 1..Len(waiting),
                            a < b, waiting[a] = c, waiting[b] = P
                     PROVE  Before(c, P)'
          BY DEF Before
        <5>1. a \in 1..Len(waiting') /\ b \in 1..Len(waiting')
          BY <1>2
        <5> QED BY <5>1, <1>2 DEF Before
      <4> QED BY <4>2, <4>3, <4>4
    <3> QED BY <3>2, <3>3
  <2>2. pc'[P] \in {"got", "done", "fork", "send"} => p # P
    BY <1>1, <2>0
  <2>3. runs = 1 => p[1] = 1
    BY <1>1, ProcessFacts DEF Started, Run
  <2>4. runs = 1 /\ p # P => early' = early
    BY <2>3, <1>1 DEF ReceiveMsgWaits, IsEarly
  <2>5. /\ \A q \in Process : pc'[q] = "got" => pc[q] = "got"
        /\ \A q \in Process : pc'[q] = "send" => pc[q] = "send"
        /\ \A q \in Process : pc[q] = "done" => pc'[q] = "done"
    BY <1>1
  <2> SUFFICES ASSUME runs = 1, N[1] > 0 PROVE Counts'
    BY <1>1 DEF Counts
  <2> QED BY <1>1, <2>0, <2>1, <2>2, <2>4, <2>5, QuietCounts
<1> QED BY <1>3, <1>4, <1>5, <1>6, <1>7

LEMMA MsgFailsStep ==
  ASSUME Inv, NEW p \in Process, MsgFails(p)
  PROVE  Inv'
<1> USE DEF Inv
<1>1. /\ pc[p] \in {"receive", "send", "remove"} /\ fd[p] # queue
      /\ \A q \in Process : pc'[q] = IF q = p THEN "failed" ELSE pc[q]
      /\ runs \in Run /\ runs > 0
      /\ UNCHANGED <<runs, N, i, fd, number, queue, msgs, waiting, out, early, interrupted>>
  BY Alive DEF MsgFails, kernel, history, TypeOK
<1>2. TypeOK'
  BY <1>1 DEF MsgFails, TypeOK, Ended
<1>3. Started' /\ Queues'
  <2>1. queue' \in Nat /\ queue <= queue'
    BY <1>1, Typed
  <2>2. \A q \in Process : (pc'[q] = "failed" => fd[q] # queue') /\ pc'[q] # "killed"
    BY <1>1 DEF Queues
  <2>3. \A q \in Process : pc[q] \in Ended => pc'[q] \in Ended
    BY <1>1 DEF Ended
  <2> QED BY <1>1, <2>1, <2>2, <2>3, Frame
<1>4. Waits'
  BY <1>1, SameWaits
<1>5. Token' /\ Order'
  <2>1. /\ \A q \in Process : Busy(q)' => Busy(q)
        /\ \A q \in Process : pc'[q] = "got" => pc[q] = "got"
        /\ \A q \in Process : IsChild(q)' /\ pc'[q] = "send" => IsChild(q) /\ pc[q] = "send"
    BY <1>1 DEF Busy, Holds, IsChild
  <2>2. Idle' => Idle
    BY <1>1, ProcessFacts DEF Idle
  <2>3. runs \in Nat /\ (N[runs] > 0 /\ pc'[Parent(runs)] \in {"fork", "send"} => Zeros < runs)
    BY <1>1, ProcessFacts, Typed DEF Order
  <2> QED BY <1>1, <2>1, <2>2, <2>3, Quiet
<1>6. Counts'
  <2> SUFFICES ASSUME runs = 1, N[1] > 0 PROVE Counts'
    BY <1>1 DEF Counts
  <2>1. EarlyFirst'
    BY <1>1, ProcessFacts, EarlyStays
  <2> QED BY <1>1, <2>1, ProcessFacts, QuietCounts
<1> QED BY <1>2, <1>3, <1>4, <1>5, <1>6

LEMMA ParentPrintsStep ==
  ASSUME Inv, NEW p \in Process, ParentPrints(p)
  PROVE  Inv'
<1> USE DEF Inv
<1>1. /\ pc[p] = "got" /\ ~IsChild(p)
      /\ \A q \in Process : pc'[q] = IF q = p THEN "done" ELSE pc[q]
      /\ runs \in Run /\ runs > 0
      /\ UNCHANGED <<runs, N, i, fd, number, queue, msgs, waiting, out, early, interrupted>>
  BY Alive DEF ParentPrints, kernel, history, TypeOK
<1>2. TypeOK'
  BY <1>1 DEF ParentPrints, TypeOK, Ended
<1>3. Started' /\ Queues'
  <2>1. queue' \in Nat /\ queue <= queue'
    BY <1>1, Typed
  <2>2. \A q \in Process : (pc'[q] = "failed" => fd[q] # queue') /\ pc'[q] # "killed"
    BY <1>1 DEF Queues
  <2>3. \A q \in Process : pc[q] \in Ended => pc'[q] \in Ended
    BY <1>1 DEF Ended
  <2> QED BY <1>1, <2>1, <2>2, <2>3, Frame
<1>4. Waits'
  BY <1>1, SameWaits
<1>p. p = Parent(runs)
  BY <1>1, ParentIs DEF Ended
<1>5. Token' /\ Order'
  <2>1. /\ \A q \in Process : Busy(q)' => Busy(q) /\ q # p
        /\ \A q \in Process : pc'[q] = "got" => pc[q] = "got"
        /\ \A q \in Process : IsChild(q)' /\ pc'[q] = "send" => IsChild(q) /\ pc[q] = "send"
    BY <1>1 DEF Busy, Holds, IsChild
  <2>2. Busy(p)
    BY <1>1 DEF Busy, Holds
  <2>3. msgs' = <<>> /\ \A q \in Process : ~Busy(q)'
    BY <1>1, <2>1, <2>2 DEF Token
  <2>4. runs \in Nat /\ pc'[Parent(runs)] \notin {"fork", "send"}
    BY <1>1, <1>p, Typed
  <2> QED BY <1>1, <2>1, <2>3, <2>4, Quiet DEF NoNumber
<1>6. Counts'
  <2> SUFFICES ASSUME runs = 1, N[1] > 0 PROVE Counts'
    BY <1>1 DEF Counts
  <2>1. EarlyFirst'
    BY <1>1, <1>p DEF EarlyFirst
  <2> QED BY <1>1, <1>p, <2>1, ProcessFacts, QuietCounts
<1> QED BY <1>2, <1>3, <1>4, <1>5, <1>6

----------------------------------------------------------------------------
(* Steps that move the number                                              *)

LEMMA ReceiveMsgStep ==
  ASSUME Inv, NEW p \in Process, ReceiveMsg(p)
  PROVE  Inv'
<1> USE DEF Inv
<1>1. /\ pc[p] = "receive" /\ fd[p] = queue /\ msgs # <<>> /\ waiting = <<>>
      /\ \A q \in Process : pc'[q] = IF q = p THEN "got" ELSE pc[q]
      /\ \A q \in Process : number'[q] = IF q = p THEN msgs[1] ELSE number[q]
      /\ runs \in Run /\ runs > 0 /\ runs \in Nat
      /\ UNCHANGED <<runs, N, i, fd, queue, waiting, out, interrupted>>
  BY SMTT(30), Alive, Typed DEF ReceiveMsg, TypeOK, Waits
<1>2. Len(msgs) = 1 /\ msgs[1] \in Nat /\ msgs' = <<>>
  <2>1. Len(msgs) = 1 /\ msgs \in Seq(Nat)
    <3>1. msgs \in Seq(Nat) /\ Len(msgs) \in Nat
      BY Typed
    <3>2. Len(msgs) # 0
      BY <3>1, <1>1
    <3>3. Len(msgs) <= 1
      BY DEF Token
    <3> DEFINE n == Len(msgs)
    <3>4. n \in Nat /\ n # 0 /\ n <= 1
      BY <3>1, <3>2, <3>3
    <3> HIDE DEF n
    <3>5. n = 1
      BY <3>4
    <3> QED BY <3>1, <3>5 DEF n
  <2> QED BY <2>1 DEF ReceiveMsg
<1>3. ~Idle /\ \A q \in Process : ~Busy(q)
  BY <1>1 DEF Token
<1>4. TypeOK'
  <2>1. early' \in [Run -> SUBSET Process]
    BY DEF ReceiveMsg, IsEarly, TypeOK, Processes
  <2>2. pc' \in [Process -> {"none", "fork", "receive", "waiting", "got", "send", "remove"}
                            \cup Ended]
    BY DEF ReceiveMsg, TypeOK
  <2>3. number' = [number EXCEPT ![p] = msgs[1]]
    BY <1>1 DEF ReceiveMsg
  <2> QED BY <1>1, <1>2, <2>1, <2>2, <2>3 DEF TypeOK
<1>5. Started' /\ Queues'
  <2>1. queue' \in Nat /\ queue <= queue'
    BY <1>1, Typed
  <2>2. \A q \in Process : (pc'[q] = "failed" => fd[q] # queue') /\ pc'[q] # "killed"
    BY <1>1 DEF Queues
  <2>3. \A q \in Process : pc[q] \in Ended => pc'[q] \in Ended
    BY <1>1 DEF Ended
  <2> QED BY <1>1, <2>1, <2>2, <2>3, Frame
<1>6. Waits'
  BY <1>1, <1>2, SameWaits
<1>7. /\ \A q \in Process : Busy(q)' => q = p
      /\ \A q \in Process : IsChild(q)' = IsChild(q)
  BY <1>1, <1>3 DEF Busy, Holds, IsChild
<1>8. ~Idle'
  BY <1>1, <1>3, ProcessFacts DEF Idle, Ended
<1>9. Token'
  BY <1>2, <1>7, <1>8 DEF Token
<1>10. \A n : Unprinted(n)' => Unprinted(n)
  BY <1>1, <1>2, <1>3 DEF Unprinted, Busy, Holds
<1>11. Order'
  <2>1. \A q \in Process : ~(IsChild(q)' /\ pc'[q] = "send")
    BY <1>1, <1>3, <1>7 DEF Busy, Holds
  <2>2. N[runs] > 0 /\ pc'[Parent(runs)] \in {"fork", "send"} => Zeros < runs
    BY <1>1, ProcessFacts DEF Order
  <2>3. Zeros' = Zeros
    BY <1>1 DEF Zeros
  <2> QED BY <1>1, <1>10, <2>1, <2>2, <2>3 DEF Order
<1>12. Counts'
  <2> DEFINE P == Parent(1)
  <2> SUFFICES ASSUME runs = 1, N[1] > 0 PROVE Counts'
    BY <1>1 DEF Counts
  <2>0. P \in Process /\ ~IsChild(P) /\ Parent(runs) = P
    BY ProcessFacts DEF IsChild
  <2>1. EarlyFirst'
    BY <1>1, <2>0 DEF EarlyFirst, Waits
  <2>2. pc[P] \notin {"fork", "send", "got", "done"}
    BY <1>3, <2>0 DEF Idle, Busy, Holds, Ended
  <2>3. ASSUME pc'[P] \in {"got", "done"}, NEW c \in early'[1] PROVE pc'[c] = "done"
    <3>1. p = P
      BY <2>2, <2>3, <2>0, <1>1
    <3>2. early' = [early EXCEPT ![1] = {q \in Processes(1) : pc[q] \notin {"none", "receive"}}]
      BY <3>1, ProcessFacts DEF ReceiveMsg, IsEarly
    <3>3. c \in Process /\ pc[c] \notin {"none", "receive"} /\ c[1] = 1
      BY <3>2, ProcessFacts DEF TypeOK, Processes
    <3>4. c # p /\ pc'[c] = pc[c]
      BY <3>3, <1>1
    <3>5. pc[c] # "fork" /\ pc[c] # "killed" /\ pc[c] # "waiting"
      BY <3>3, <3>4, <3>1, <1>1 DEF Started, Queues, Waits
    <3>6. pc[c] # "failed"
      BY <3>1, <3>3, <1>1 DEF Queues
    <3>7. pc[c] \notin {"got", "send", "remove"}
      <4>1. pc[c] \notin {"got", "remove"}
        BY <3>3, <1>3 DEF Busy, Holds
      <4>2. pc[c] = "send" => IsChild(c)
        BY <3>3, <3>4, <3>1, <2>0, ParentIs DEF Ended
      <4> QED BY <4>1, <4>2, <3>3, <1>3 DEF Busy, Holds
    <3> QED BY <3>3, <3>4, <3>5, <3>6, <3>7 DEF TypeOK, Ended
  <2>4. \A q \in Process : ~(IsChild(q)' /\ pc'[q] = "send")
    BY <1>1, <1>3, <1>7 DEF Busy, Holds
  <2>5. pc'[P] \notin {"fork", "send", "done"}
    BY <2>0, <2>2, <1>1
  <2> QED BY <1>1, <1>10, <2>0, <2>1, <2>3, <2>4, <2>5 DEF Counts
<1> QED BY <1>4, <1>5, <1>6, <1>9, <1>11, <1>12

\* The number goes from p to the queue, or to the first that waits.
LEMMA SendStep ==
  ASSUME Inv, NEW p \in Process, NEW n \in Nat, NEW next \in {"receive", "done"},
         SendMsg(p, n, next), pc[p] = "send", msgs = <<>>,
         \A q \in Process : q # p => ~Busy(q),
         \/ ~IsChild(p) /\ next = "receive"
         \/ IsChild(p) /\ next = "done" /\ ~Idle,
         n = 0 \/ (Len(out) > 0 /\ n = out[Len(out)] + 1),
         n = 0 => Zeros < runs,
         runs = 1 /\ N[1] > 0 => n = Len(out)
  PROVE  Inv'
<1> USE DEF Inv
<1>1. /\ fd[p] = queue /\ runs \in Run /\ runs > 0 /\ runs \in Nat
      /\ UNCHANGED <<runs, N, i, fd, queue, out, early, interrupted>>
  BY Alive, Typed DEF SendMsg, history
\* Who waits in front, or nobody.
<1>2. \E woken \in SUBSET Process :
        /\ \A q \in woken : pc[q] = "waiting" /\ waiting # <<>> /\ q = waiting[1]
        /\ woken = {} => waiting = <<>> /\ msgs' = <<n>> /\ waiting' = <<>>
        /\ woken # {} => waiting # <<>> /\ msgs' = <<>> /\ waiting' = Tail(waiting)
        /\ \A q \in Process : pc'[q] = IF q \in woken THEN "got" ELSE IF q = p THEN next ELSE pc[q]
        /\ \A q \in Process : number'[q] = IF q \in woken THEN n ELSE number[q]
        /\ TypeOK'
  <2>1. CASE waiting = <<>>
    <3>1. /\ msgs' = Append(msgs, n) /\ pc' = [pc EXCEPT ![p] = next]
          /\ number' = number /\ waiting' = waiting
      BY <2>1 DEF SendMsg
    <3>2. msgs' = <<n>> /\ msgs' \in Seq(Nat)
      BY <3>1
    <3>3. TypeOK'
      BY <3>1, <3>2, <1>1 DEF TypeOK, Ended
    <3>4. \A q \in Process : pc'[q] = IF q = p THEN next ELSE pc[q]
      BY <3>1 DEF TypeOK
    <3> WITNESS {} \in SUBSET Process
    <3> QED BY <2>1, <3>1, <3>2, <3>3, <3>4
  <2>2. CASE waiting # <<>>
    <3> DEFINE h == waiting[1]
    <3>1. h \in Process /\ pc[h] = "waiting" /\ h = Head(waiting) /\ Tail(waiting) \in Seq(Process)
      BY <2>2, Typed DEF Waits
    <3>2. /\ msgs' = msgs /\ pc' = [pc EXCEPT ![p] = next, ![h] = "got"]
          /\ number' = [number EXCEPT ![h] = n] /\ waiting' = Tail(waiting)
      BY <2>2, <3>1 DEF SendMsg
    <3>3. h # p
      BY <3>1
    <3>4. TypeOK'
      BY <3>1, <3>2, <1>1 DEF TypeOK, Ended
    <3>5. /\ \A q \in Process : pc'[q] = IF q = h THEN "got" ELSE IF q = p THEN next ELSE pc[q]
          /\ \A q \in Process : number'[q] = IF q = h THEN n ELSE number[q]
      BY <3>1, <3>2, <3>3 DEF TypeOK
    <3> HIDE DEF h
    <3>6. {h} \in SUBSET Process
      BY <3>1
    <3>7. \A q \in {h} : pc[q] = "waiting" /\ q = waiting[1]
      BY <3>1 DEF h
    <3>8. msgs' = <<>> /\ waiting' = Tail(waiting)
      BY <3>2
    <3> QED BY <2>2, <3>4, <3>5, <3>6, <3>7, <3>8
  <2> QED BY <2>1, <2>2
<1>3. PICK woken \in SUBSET Process :
        /\ \A q \in woken : pc[q] = "waiting" /\ waiting # <<>> /\ q = waiting[1]
        /\ woken = {} => waiting = <<>> /\ msgs' = <<n>> /\ waiting' = <<>>
        /\ woken # {} => waiting # <<>> /\ msgs' = <<>> /\ waiting' = Tail(waiting)
        /\ \A q \in Process : pc'[q] = IF q \in woken THEN "got" ELSE IF q = p THEN next ELSE pc[q]
        /\ \A q \in Process : number'[q] = IF q \in woken THEN n ELSE number[q]
        /\ TypeOK'
  BY <1>2
<1>4. p \notin woken
  BY <1>3
<1>5. Started' /\ Queues'
  <2>1. queue' \in Nat /\ queue <= queue'
    BY <1>1, Typed
  <2>2. \A q \in Process : (pc'[q] = "failed" => fd[q] # queue') /\ pc'[q] # "killed"
    BY <1>1, <1>3 DEF Queues
  <2>3. \A q \in Process : pc[q] \in Ended => pc'[q] \in Ended
    BY <1>3 DEF Ended
  <2>4. /\ \A q \in Process : pc[q] = "none" => pc'[q] = "none"
        /\ \A q \in Process : pc'[q] = "none" => pc[q] = "none"
        /\ \A q \in Process : pc'[q] = "fork" => pc[q] = "fork"
    BY <1>3
  <2> QED BY <1>1, <2>1, <2>2, <2>3, <2>4, Frame
<1>6. woken # {} =>
        /\ Len(waiting) \in Nat /\ Len(waiting) > 0 /\ Len(waiting') = Len(waiting) - 1
        /\ \A a \in 1..Len(waiting') : waiting'[a] = waiting[a + 1] /\ a + 1 \in 1..Len(waiting)
        /\ 1 \in 1..Len(waiting) /\ waiting[1] \in woken
        /\ \A a \in 1..Len(waiting) : waiting[a] \in Process
  <2> SUFFICES ASSUME woken # {}
               PROVE  /\ Len(waiting) \in Nat /\ Len(waiting) > 0
                      /\ Len(waiting') = Len(waiting) - 1
                      /\ \A a \in 1..Len(waiting') :
                           waiting'[a] = waiting[a + 1] /\ a + 1 \in 1..Len(waiting)
                      /\ 1 \in 1..Len(waiting) /\ waiting[1] \in woken
                      /\ \A a \in 1..Len(waiting) : waiting[a] \in Process
    OBVIOUS
  <2>1. waiting # <<>> /\ waiting' = Tail(waiting) /\ waiting[1] \in woken
    BY <1>3
  <2>2. waiting \in Seq(Process) /\ Len(waiting) \in Nat
    BY Typed
  <2>3. Len(waiting) > 0
    BY <2>1, <2>2
  <2>4. Len(waiting') = Len(waiting) - 1
    BY <2>1, <2>2, <2>3
  <2>5. \A a \in 1..Len(waiting') :
          waiting'[a] = waiting[a + 1] /\ a + 1 \in 1..Len(waiting)
    BY <2>1, <2>2, <2>3, <2>4
  <2>6. 1 \in 1..Len(waiting)
    BY <2>2, <2>3
  <2> QED BY <2>1, <2>2, <2>3, <2>4, <2>5, <2>6
<1>7. Waits'
  <2>1. CASE woken = {}
    BY <2>1, <1>3 DEF Waits
  <2>2. CASE woken # {}
    <3>1. \A a, b \in 1..Len(waiting') : waiting'[a] = waiting'[b] => a = b
      <4> TAKE a, b \in 1..Len(waiting')
      <4> HAVE waiting'[a] = waiting'[b]
      <4>1. a + 1 = b + 1
        BY <2>2, <1>6 DEF Waits
      <4> QED BY <4>1, <2>2, <1>6
    <3>2. ASSUME NEW a \in 1..Len(waiting')
          PROVE  pc'[waiting'[a]] = "waiting" /\ fd[waiting'[a]] = queue
      <4>1. /\ waiting'[a] = waiting[a + 1] /\ a + 1 \in 1..Len(waiting) /\ a + 1 # 1
            /\ waiting[a + 1] \in Process
        BY <2>2, <1>6
      <4>2. waiting[a + 1] # waiting[1]
        BY <2>2, <4>1, <1>6 DEF Waits
      <4>3. pc[waiting[a + 1]] = "waiting" /\ fd[waiting[a + 1]] = queue
        BY <4>1 DEF Waits
      <4>4. waiting[a + 1] \notin woken /\ waiting[a + 1] # p
        BY <4>2, <4>3, <1>3
      <4> QED BY <4>1, <4>3, <4>4, <1>3
    <3>3. ASSUME NEW q \in Process, pc'[q] = "waiting"
          PROVE  \E a \in 1..Len(waiting') : waiting'[a] = q
      <4>1. pc[q] = "waiting" /\ q \notin woken
        BY <3>3, <1>3
      <4>2. PICK a \in 1..Len(waiting) : waiting[a] = q
        BY <4>1 DEF Waits
      <4>3. a # 1
        BY <4>1, <4>2, <2>2, <1>6
      <4>4. a - 1 \in 1..Len(waiting') /\ (a - 1) + 1 = a
        BY <4>3, <2>2, <1>6
      <4> QED BY <4>2, <4>4, <2>2, <1>6
    <3> QED BY <2>2, <3>1, <3>2, <3>3, <1>1, <1>3 DEF Waits
  <2> QED BY <2>1, <2>2
<1>8. /\ \A q \in Process : IsChild(q)' = IsChild(q)
      /\ \A q \in Process : Busy(q)' => q \in woken
      /\ \A q \in Process : q \in woken => q = waiting[1]
  BY <1>1, <1>3, <1>4 DEF Busy, Holds, IsChild
<1>9. ~Idle'
  <2>1. CASE ~IsChild(p) /\ next = "receive"
    <3>1. p = Parent(runs) /\ N[runs] > 0
      BY <2>1, ParentIs DEF Ended
    <3>2. pc'[p] = "receive" /\ fd'[p] = queue'
      BY <2>1, <1>1, <1>3, <1>4
    <3> QED BY <3>1, <3>2, <1>1 DEF Idle, Ended
  <2>2. CASE IsChild(p) /\ ~Idle
    <3>1. Parent(runs) # p
      <4>1. p = Parent(runs) => N[runs] = 0
        BY <2>2, <1>1, ProcessFacts DEF IsChild
      <4> QED BY <4>1, <2>2 DEF Idle
    <3>2. pc'[Parent(runs)] \in {"got", pc[Parent(runs)]}
      BY <3>1, <1>1, <1>3, ProcessFacts
    <3> QED BY <2>2, <3>2, <1>1 DEF Idle, Ended
  <2> QED BY <2>1, <2>2
<1>10. Token'
  <2>1. Len(msgs') <= 1 /\ (msgs' # <<>> => woken = {})
    <3>1. CASE woken = {}
      <4>1. msgs' = <<n>>
        BY <3>1, <1>3
      <4> QED BY <3>1, <4>1
    <3>2. CASE woken # {}
      <4>1. msgs' = <<>>
        BY <3>2, <1>3
      <4> QED BY <4>1
    <3> QED BY <3>1, <3>2
  <2> QED BY <2>1, <1>8, <1>9 DEF Token
<1>11. \A m : Unprinted(m)' => m = n
  <2> TAKE m
  <2> HAVE Unprinted(m)'
  <2>1. CASE msgs' # <<>> /\ msgs'[1] = m
    BY <2>1, <1>3
  <2>2. ASSUME NEW q \in Process, pc'[q] = "got", number'[q] = m PROVE m = n
    <3>1. q \in woken
      BY <2>2, <1>8 DEF Busy, Holds
    <3> QED BY <2>2, <3>1, <1>3
  <2> QED BY <2>1, <2>2 DEF Unprinted
<1>12. \A q \in Process : ~(IsChild(q)' /\ pc'[q] = "send")
  BY <1>3, <1>8 DEF Busy, Holds
<1>13. pc'[Parent(runs)] \notin {"fork", "send", "done"}
  BY <1>1, <1>9 DEF Idle, Ended
<1>14. Order'
  <2>1. Zeros' = Zeros
    BY <1>1 DEF Zeros
  <2> QED BY <1>1, <1>11, <1>12, <1>13, <2>1 DEF Order
<1>15. Counts'
  <2> DEFINE P == Parent(1)
  <2> SUFFICES ASSUME runs = 1, N[1] > 0 PROVE Counts'
    BY <1>1 DEF Counts
  <2>0. P \in Process /\ ~IsChild(P) /\ Parent(runs) = P /\ early[1] \subseteq Process
    BY SMTT(30), ProcessFacts DEF IsChild, TypeOK
  <2>1. ASSUME pc'[P] = "waiting", NEW c \in early[1]
        PROVE  /\ pc'[c] \in {"waiting", "got", "send", "remove", "done", "failed"}
               /\ pc'[c] = "waiting" => Before(c, P)'
    <3>1. pc[P] = "waiting" /\ P \notin woken /\ c \in Process
      BY <2>0, <2>1, <1>3
    <3>2. /\ pc[c] \in {"waiting", "got", "send", "remove", "done", "failed"}
          /\ pc[c] = "waiting" => Before(c, P)
      BY <3>1, <2>1 DEF Counts, EarlyFirst
    <3>3. c = p => next = "done"
      <4>1. p = P \/ IsChild(p)
        BY <2>0, ParentIs DEF Ended
      <4> QED BY <4>1, <3>1
    <3>4. pc'[c] \in {"waiting", "got", "send", "remove", "done", "failed"}
      BY <3>1, <3>2, <3>3, <1>3
    <3>5. ASSUME pc'[c] = "waiting" PROVE Before(c, P)'
      <4>1. pc[c] = "waiting" /\ c \notin woken
        BY <3>1, <3>5, <1>3
      <4>2. PICK a, b \in 1..Len(waiting) : a < b /\ waiting[a] = c /\ waiting[b] = P
        BY <3>2, <4>1 DEF Before
      <4>3. woken # {}
        BY <4>2, <1>3
      <4>4. a # 1
        BY <4>1, <4>2, <4>3, <1>6
      <4>5. /\ a - 1 \in 1..Len(waiting') /\ b - 1 \in 1..Len(waiting') /\ a - 1 < b - 1
            /\ (a - 1) + 1 = a /\ (b - 1) + 1 = b
        BY <4>2, <4>3, <4>4, <1>6
      <4>6. waiting'[a - 1] = c /\ waiting'[b - 1] = P
        BY <4>2, <4>3, <4>5, <1>6
      <4> QED BY <4>5, <4>6 DEF Before
    <3> QED BY <3>4, <3>5
  <2>2. ASSUME pc'[P] \in {"got", "done"}, NEW c \in early[1] PROVE pc'[c] = "done"
    <3>1. pc'[P] = "got"
      BY <2>0, <2>2, <1>13
    <3>2. P \in woken
      BY <2>0, <3>1, <1>8 DEF Busy, Holds
    <3>3. pc[P] = "waiting" /\ P = waiting[1] /\ woken # {} /\ P # p
      BY <3>2, <1>3, <1>4
    <3>4. /\ pc[c] \in {"waiting", "got", "send", "remove", "done", "failed"}
          /\ pc[c] = "waiting" => Before(c, P)
      BY <3>3, <2>2 DEF Counts, EarlyFirst
    <3>5. c \in Process
      BY <2>0
    <3>6. pc[c] # "waiting"
      <4> SUFFICES ASSUME NEW a \in 1..Len(waiting), NEW b \in 1..Len(waiting),
                          a < b, waiting[b] = P
                   PROVE  FALSE
        BY <3>4 DEF Before
      <4>1. b = 1
        BY <3>3, <1>6 DEF Waits
      <4> QED BY <4>1
    <3>7. pc[c] # "failed"
      <4>1. fd[P] = queue
        BY <3>3, <1>6 DEF Waits
      <4>2. c[1] = 1 \/ pc[c] = "none"
        BY <3>5, ProcessFacts, <1>1 DEF Started, Run
      <4> QED BY <4>1, <4>2, <3>5 DEF Queues
    <3>8. c # p => pc[c] = "done"
      <4>1. c # p => pc[c] \notin {"got", "remove"} /\ ~(IsChild(c) /\ pc[c] = "send")
        BY <3>5 DEF Busy, Holds
      <4>2. pc[c] = "send" => IsChild(c)
        BY <3>3, <3>5, <2>0, ParentIs DEF Ended
      <4> QED BY <4>1, <4>2, <3>4, <3>6, <3>7
    <3>9. next = "done"
      BY <3>3, <2>0, ParentIs DEF Ended
    <3> QED BY <3>3, <3>5, <3>6, <3>8, <3>9, <1>3
  <2>3. EarlyFirst'
    BY <2>1, <1>1 DEF EarlyFirst
  <2>4. \A m \in Nat : Unprinted(m)' => m = Len(out')
    BY <1>1, <1>11
  <2> QED BY <1>1, <1>12, <1>13, <2>0, <2>2, <2>3, <2>4 DEF Counts
<1> QED BY <1>3, <1>5, <1>7, <1>10, <1>14, <1>15

LEMMA ParentSendsStep ==
  ASSUME Inv, NEW p \in Process, ParentSends(p)
  PROVE  Inv'
<1> USE DEF Inv
<1>1. pc[p] = "send" /\ ~IsChild(p) /\ SendMsg(p, 0, "receive")
  BY DEF ParentSends
<1>2. runs \in Run /\ p = Parent(runs) /\ N[runs] > 0 /\ runs > 0
  BY <1>1, ParentIs, ProcessFacts DEF Ended
<1>3. msgs = <<>> /\ \A q \in Process : ~Busy(q)
  BY <1>1, <1>2 DEF Token, Idle
<1>4. Zeros < runs
  BY <1>1, <1>2 DEF Order
<1>5. runs = 1 /\ N[1] > 0 => 0 = Len(out)
  BY <1>1, <1>2 DEF Counts
<1>6. 0 \in Nat
  OBVIOUS
<1> QED BY <1>1, <1>3, <1>4, <1>5, <1>6, SendStep

LEMMA ChildSendsStep ==
  ASSUME Inv, NEW p \in Process, ChildSends(p)
  PROVE  Inv'
<1> USE DEF Inv
<1>1. pc[p] = "send" /\ IsChild(p) /\ SendMsg(p, number[p] + 1, "done")
  BY DEF ChildSends
<1>2. Busy(p) /\ number[p] \in Nat /\ number[p] + 1 \in Nat /\ number[p] + 1 # 0
  BY <1>1, Typed DEF Busy, Holds
<1>3. msgs = <<>> /\ ~Idle /\ \A q \in Process : q # p => ~Busy(q)
  BY <1>2 DEF Token
<1>4. Len(out) > 0 /\ number[p] = out[Len(out)]
  BY <1>1 DEF Order
<1>5. runs = 1 /\ N[1] > 0 => number[p] + 1 = Len(out)
  BY <1>1 DEF Counts
<1> QED BY <1>1, <1>2, <1>3, <1>4, <1>5, SendStep

LEMMA ChildPrintsStep ==
  ASSUME Inv, NEW p \in Process, ChildPrints(p)
  PROVE  Inv'
<1> USE DEF Inv
<1>1. PICK s \in {"send", "remove"} : \A q \in Process : pc'[q] = IF q = p THEN s ELSE pc[q]
  BY DEF ChildPrints, TypeOK
<1>2. /\ pc[p] = "got" /\ IsChild(p) /\ out' = Append(out, number[p])
      /\ runs \in Run /\ runs > 0 /\ runs \in Nat /\ number[p] \in Nat
      /\ UNCHANGED <<runs, N, i, fd, number, queue, msgs, waiting, early, interrupted>>
  BY Alive, Typed DEF ChildPrints, kernel
<1>3. /\ Busy(p) /\ ~Idle /\ msgs = <<>> /\ \A q \in Process : q # p => ~Busy(q)
      /\ \A q \in Process : IsChild(q)' = IsChild(q)
  BY <1>2 DEF Token, Busy, Holds, IsChild
<1>4. /\ Len(out) \in Nat /\ Len(out') = Len(out) + 1 /\ out'[Len(out) + 1] = number[p]
      /\ \A k \in 1..Len(out) : out'[k] = out[k]
      /\ \A k \in 1..Len(out') : k \in 1..Len(out) \/ k = Len(out) + 1
  BY <1>2, Typed
<1>5. TypeOK'
  <2>1. out' \in Seq(Nat)
    BY <1>2, Typed
  <2>2. pc' \in [Process -> {"none", "fork", "receive", "waiting", "got", "send", "remove"}
                            \cup Ended]
    BY DEF ChildPrints, TypeOK
  <2> QED BY <1>2, <2>1, <2>2 DEF TypeOK
<1>6. Started' /\ Queues'
  <2>1. queue' \in Nat /\ queue <= queue'
    BY <1>2, Typed
  <2>2. \A q \in Process : (pc'[q] = "failed" => fd[q] # queue') /\ pc'[q] # "killed"
    BY <1>1, <1>2 DEF Queues
  <2>3. \A q \in Process : pc[q] \in Ended => pc'[q] \in Ended
    BY <1>1, <1>2 DEF Ended
  <2> QED BY <1>1, <1>2, <2>1, <2>2, <2>3, Frame
<1>7. Waits'
  BY <1>1, <1>2, SameWaits
<1>8. Parent(runs) \in Process /\ Parent(runs) # p /\ pc'[Parent(runs)] = pc[Parent(runs)]
  <2>1. Parent(runs) \in Process /\ (p = Parent(runs) => N[runs] = 0)
    BY <1>2, ProcessFacts DEF IsChild
  <2> QED BY <2>1, <1>1, <1>3 DEF Idle
<1>9. ~Idle'
  BY <1>2, <1>3, <1>8 DEF Idle
<1>10. Token'
  <2>1. \A q \in Process : Busy(q)' => q = p
    BY <1>1, <1>3 DEF Busy, Holds
  <2> QED BY <1>2, <1>3, <1>9, <2>1 DEF Token
<1>11. \A m : ~Unprinted(m)'
  BY <1>1, <1>2, <1>3 DEF Unprinted, Busy, Holds
<1>12. /\ number[p] = 0 \/ (Len(out) > 0 /\ number[p] = out[Len(out)] + 1)
       /\ number[p] = 0 => Zeros < runs
  <2>1. Unprinted(number[p])
    BY <1>2 DEF Unprinted
  <2> QED BY <1>2, <2>1 DEF Order
<1>13. Zeros' <= runs
  <2> DEFINE S == {k \in 1..Len(out) : out[k] = 0}
  <2>1. IsFiniteSet(S) /\ Zeros = Cardinality(S) /\ Zeros \in Nat
    BY ZerosTyped DEF Zeros
  <2>2. CASE number[p] = 0
    <3>1. {k \in 1..Len(out') : out'[k] = 0} = S \cup {Len(out) + 1}
      BY <2>2, <1>4
    <3>2. Len(out) + 1 \notin S
      BY <1>4
    <3>3. Cardinality(S \cup {Len(out) + 1}) = Cardinality(S) + 1
      BY <2>1, <3>2, FS_AddElement
    <3>4. Zeros' = Zeros + 1
      BY <2>1, <3>1, <3>3 DEF Zeros
    <3> QED BY <2>1, <2>2, <3>4, <1>2, <1>12
  <2>3. CASE number[p] # 0
    <3>1. {k \in 1..Len(out') : out'[k] = 0} = S
      BY <2>3, <1>4
    <3>2. Zeros' = Zeros
      BY <3>1 DEF Zeros
    <3> QED BY <3>2 DEF Order
  <2> QED BY <2>2, <2>3
<1>14. Order'
  <2>1. \A k \in 1..Len(out') : out'[k] = 0 \/ (k > 1 /\ out'[k] = out'[k - 1] + 1)
    <3> TAKE k \in 1..Len(out')
    <3>1. CASE k = Len(out) + 1
      <4>1. Len(out) > 0 => Len(out) \in 1..Len(out) /\ k - 1 = Len(out) /\ k > 1
        BY <3>1, <1>4
      <4> QED BY <3>1, <4>1, <1>4, <1>12
    <3>2. CASE k \in 1..Len(out)
      <4>1. out[k] = 0 \/ (k > 1 /\ out[k] = out[k - 1] + 1)
        BY <3>2 DEF Order
      <4>2. k > 1 => k - 1 \in 1..Len(out)
        BY <3>2, <1>4
      <4> QED BY <4>1, <4>2, <3>2, <1>4
    <3> QED BY <3>1, <3>2, <1>4
  <2>2. ASSUME NEW q \in Process, IsChild(q)', pc'[q] = "send"
        PROVE  Len(out') > 0 /\ number'[q] = out'[Len(out')]
    <3>1. q = p
      BY <2>2, <1>1, <1>3 DEF Busy, Holds
    <3> QED BY <3>1, <1>2, <1>4
  <2>3. pc'[Parent(runs)] \notin {"fork", "send"}
    BY <1>3, <1>8 DEF Idle
  <2> QED BY <2>1, <2>2, <2>3, <1>2, <1>11, <1>13 DEF Order
<1>15. Counts'
  <2> SUFFICES ASSUME runs = 1, N[1] > 0 PROVE Counts'
    BY <1>2 DEF Counts
  <2>1. EarlyFirst'
    BY <1>1, <1>2, <1>8, EarlyStays
  <2>2. pc'[Parent(1)] \notin {"fork", "send", "done", "got"}
    BY <1>3, <1>8 DEF Idle, Busy, Holds, Ended
  <2>3. ASSUME NEW q \in Process, IsChild(q)', pc'[q] = "send" PROVE number'[q] + 1 = Len(out')
    <3>1. q = p
      BY <2>3, <1>1, <1>3 DEF Busy, Holds
    <3>2. Unprinted(number[p])
      BY <1>2 DEF Unprinted
    <3>3. number[p] = Len(out)
      BY <3>2, <1>2 DEF Counts
    <3> QED BY <3>1, <3>3, <1>2, <1>4
  <2> QED BY <2>1, <2>2, <2>3, <1>11 DEF Counts
<1> QED BY <1>5, <1>6, <1>7, <1>10, <1>14, <1>15

LEMMA ChildRemovesStep ==
  ASSUME Inv, NEW p \in Process, ChildRemoves(p)
  PROVE  Inv'
<1> USE DEF Inv
<1>1. /\ pc[p] = "remove" /\ IsChild(p) /\ queue' = queue + 1 /\ msgs' = <<>> /\ waiting' = <<>>
      /\ pc' = [q \in Process |->
                  IF q = p THEN "done" ELSE IF pc[q] = "waiting" THEN "failed" ELSE pc[q]]
      /\ queue \in Nat /\ runs \in Run /\ runs > 0 /\ runs \in Nat
      /\ UNCHANGED <<runs, N, i, fd, number, out, early, interrupted>>
  BY Alive, Typed DEF ChildRemoves, history
<1>2. Busy(p) /\ ~Idle /\ \A q \in Process : q # p => ~Busy(q)
  BY <1>1 DEF Token, Busy
<1>3. TypeOK'
  BY <1>1 DEF TypeOK, Ended
<1>4. Started' /\ Queues'
  <2>1. queue' \in Nat /\ queue <= queue' /\ \A q \in Process : fd[q] # queue'
    BY <1>1, Typed DEF Queues
  <2>2. \A q \in Process : pc'[q] # "killed"
    BY <1>1 DEF Queues
  <2>3. \A q \in Process : pc[q] \in Ended => pc'[q] \in Ended
    BY <1>1 DEF Ended
  <2> QED BY <1>1, <2>1, <2>2, <2>3, Frame
<1>5. Waits'
  BY <1>1 DEF Waits
<1>6. \A q \in Process : ~Busy(q)'
  BY <1>1, <1>2 DEF Busy, Holds, IsChild
<1>7. Token'
  BY <1>1, <1>6 DEF Token
<1>8. \A m : ~Unprinted(m)'
  BY <1>1, <1>6 DEF Unprinted, Busy, Holds
<1>9. pc'[Parent(runs)] \in {"fork", "send"} => pc[Parent(runs)] \in {"fork", "send"}
  BY <1>1, ProcessFacts
<1>10. Order'
  <2>1. Zeros' = Zeros
    BY <1>1 DEF Zeros
  <2> QED BY <1>1, <1>6, <1>8, <1>9, <2>1 DEF Order, Busy, Holds
<1>11. Counts'
  <2> SUFFICES ASSUME runs = 1, N[1] > 0 PROVE Counts'
    BY <1>1 DEF Counts
  <2>1. EarlyFirst'
    BY <1>1, ProcessFacts DEF EarlyFirst
  <2>2. pc'[Parent(1)] \notin {"fork", "send", "done", "got"}
    <3>1. Parent(1) \in Process /\ Parent(1) # p
      BY <1>1, ProcessFacts DEF IsChild
    <3>2. pc[Parent(1)] \notin {"fork", "send", "done", "got"}
      BY <3>1, <1>2 DEF Idle, Busy, Holds, Ended
    <3> QED BY <3>1, <3>2, <1>1
  <2> QED BY <2>1, <2>2, <1>6, <1>8 DEF Counts, Busy, Holds
<1> QED BY <1>3, <1>4, <1>5, <1>7, <1>10, <1>11

----------------------------------------------------------------------------
(* The properties                                                          *)

LEMMA StepIInv == ASSUME IInv, [Next]_vars PROVE IInv'
<1> SUFFICES ASSUME ~interrupted' PROVE Inv'
  BY DEF IInv
<1>1. CASE UNCHANGED vars
  <2>1. ~interrupted /\ Inv
    BY <1>1 DEF IInv, vars, history
  <2>2. Zeros' = Zeros
    BY <1>1 DEF Zeros, vars, history
  <2>3. TypeOK'
    BY <1>1, <2>1 DEF Inv, TypeOK, vars, kernel, history
  <2>4. Started' /\ Queues'
    BY <1>1, <2>1 DEF Inv, Started, Queues, vars, kernel, history
  <2>5. Waits' /\ Token'
    BY <1>1, <2>1 DEF Inv, Waits, Token, Idle, Busy, Holds, IsChild, vars, kernel, history
  <2>6. Order'
    BY <1>1, <2>1, <2>2 DEF Inv, Order, Unprinted, IsChild, vars, kernel, history
  <2>7. Counts'
    BY <1>1, <2>1 DEF Inv, Counts, Unprinted, EarlyFirst, Before, IsChild, vars, kernel, history
  <2> QED BY <2>3, <2>4, <2>5, <2>6, <2>7 DEF Inv
<1>2. CASE Start
  BY <1>2, StartStep DEF IInv, Start, history
<1>3. CASE Fork \/ ForkFails
  BY <1>3, ForkStep DEF IInv, Fork, ForkFails, history
<1>4. CASE Interrupt
  BY <1>4 DEF Interrupt
<1>5. ASSUME NEW p \in Process, Step(p) PROVE Inv'
  <2>1. Inv
    BY <1>5 DEF IInv, Step, ReceiveMsg, ReceiveMsgWaits, MsgFails, ParentSends, ParentPrints,
                ChildPrints, ChildSends, ChildRemoves, SendMsg, history
  <2> QED BY <1>5, <2>1, ReceiveMsgStep, ReceiveMsgWaitsStep, MsgFailsStep, ParentSendsStep,
             ParentPrintsStep, ChildPrintsStep, ChildSendsStep, ChildRemovesStep DEF Step
<1> QED BY <1>1, <1>2, <1>3, <1>4, <1>5 DEF Next

LEMMA Invariance == Spec => []IInv
BY InitIInv, StepIInv, PTL DEF Spec

\* The number is in the queue, or with one process, or gone.
THEOREM NumberIsOne == Spec => []OneNumber
<1>1. IInv => OneNumber
  BY DEF IInv, Inv, Waits, Token, Busy, OneNumber
<1> QED BY <1>1, Invariance, PTL

\* The lines of the children count up from 0, and begin again at most once in
\* every run.
THEOREM PrintedInOrder == Spec => []PrintsInOrder
<1>1. IInv => PrintsInOrder
  BY DEF IInv, Inv, Order, Zeros, PrintsInOrder
<1> QED BY <1>1, Invariance, PTL

\* The parent of the first run learns how many children have printed, and those
\* that came to msgrcv() before it are among them.
THEOREM ParentHasCounted == Spec => []ParentCounts
<1>1. ASSUME IInv PROVE ParentCounts
  <2> SUFFICES ASSUME ~interrupted, runs = 1, N[1] > 0, pc[Parent(1)] \in {"got", "done"}
               PROVE  /\ number[Parent(1)] = Len(out)
                      /\ \A c \in early[1] : pc[c] = "done"
    BY DEF ParentCounts
  <2>1. Inv /\ Counts
    BY <1>1 DEF IInv, Inv
  <2>2. pc[Parent(1)] = "got" => Unprinted(number[Parent(1)]) /\ number[Parent(1)] \in Nat
    BY <2>1, ProcessFacts, Typed DEF Unprinted, Inv
  <2> QED BY <2>1, <2>2 DEF Counts
<1> QED BY <1>1, Invariance, PTL
=============================================================================
