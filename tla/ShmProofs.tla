----------------------------- MODULE ShmProofs -----------------------------
(***************************************************************************)
(* Proofs about ShmTransfer for any number of readers and writers, files   *)
(* of any length and any set of mortal processes.                          *)
(***************************************************************************)
EXTENDS ShmInductive, TLAPS

----------------------------------------------------------------------------
(* Type correctness                                                        *)

TypePc ==
  /\ pc \in [Procs -> ReaderPcs \cup WriterPcs]
  /\ \A r \in Readers : pc[r] \in ReaderPcs
  /\ \A w \in Writers : pc[w] \in WriterPcs

\* A step that moves one process to a place of its program keeps pc typed.
LEMMA TypeMove ==
  ASSUME TypeOK, NEW p \in Procs, NEW to, pc' = [pc EXCEPT ![p] = to],
         p \in Readers => to \in ReaderPcs, p \in Writers => to \in WriterPcs
  PROVE  TypePc'
BY DEF TypeOK, TypePc, Procs

\* Nobody is both a reader and a writer.
LEMMA Disjoint == \A r \in Readers, w \in Writers : r # w /\ r \in Procs /\ w \in Procs
BY ProcAssumption DEF Procs

LEMMA TypeReset ==
  ASSUME undo \in [Procs -> [Sems -> Int]], NEW s \in Sems, NEW v, SetVal(s, v)
  PROVE  undo' \in [Procs -> [Sems -> Int]]
<1>1. \A f \in [Sems -> Int] : [f EXCEPT ![s] = 0] \in [Sems -> Int] OBVIOUS
<1> QED BY <1>1 DEF SetVal

LEMMA TypeReader ==
  ASSUME TypeOK, NEW r \in Readers, ReaderStep(r), ~ CheckAlive(r), ~ Exit(r)
  PROVE  TypeOK'
<1> USE Disjoint
<1>s. sem \in [Sems -> Nat] /\ undo \in [Procs -> [Sems -> Int]] /\ r \in Procs
  BY DEF TypeOK, Procs
<1>d. /\ shm \in [data: {<<>>} \cup (Writers \X (Nat \ {0})),
                  byte_used: {"full", "short"}, success_end: {0, 1}]
      /\ out \in [Readers -> Seq([data: {<<>>} \cup (Writers \X (Nat \ {0})),
                                  byte_used: {"full", "short"}])]
      /\ last_num_bytes \in [Readers -> {"full", "short"}]
  BY DEF TypeOK
<1>1. CASE ReaderGetMutex(r)
  <2>1. TypePc' BY <1>1, <1>s, TypeMove DEF ReaderGetMutex, Goto, ReaderPcs
  <2>2. sem' \in [Sems -> Nat] BY <1>1, <1>s DEF ReaderGetMutex, Sems
  <2>3. undo' \in [Procs -> [Sems -> Int]] BY <1>1, <1>s DEF ReaderGetMutex, Sems
  <2> QED BY <1>1, <2>1, <2>2, <2>3 DEF ReaderGetMutex, TypeOK, TypePc
<1>2. CASE InitFull(r)
  <2>1. TypePc' BY <1>2, <1>s, TypeMove DEF InitFull, Goto, ReaderPcs
  <2>2. sem' \in [Sems -> Nat] BY <1>2, <1>s DEF InitFull, SetVal
  <2>3. undo' \in [Procs -> [Sems -> Int]] BY <1>2, <1>s, TypeReset DEF InitFull, Sems
  <2> QED BY <1>2, <2>1, <2>2, <2>3 DEF InitFull, TypeOK, TypePc
<1>3. CASE InitEmpty(r)
  <2>1. TypePc' BY <1>3, <1>s, TypeMove DEF InitEmpty, Goto, ReaderPcs
  <2>2. sem' \in [Sems -> Nat] BY <1>3, <1>s DEF InitEmpty, SetVal
  <2>3. undo' \in [Procs -> [Sems -> Int]] BY <1>3, <1>s, TypeReset DEF InitEmpty, Sems
  <2> QED BY <1>3, <2>1, <2>2, <2>3 DEF InitEmpty, TypeOK, TypePc
<1>4. CASE Connect(r)
  <2>1. TypePc' BY <1>4, <1>s, TypeMove DEF Connect, Goto, ReaderPcs
  <2>2. sem' \in [Sems -> Nat] BY <1>4, <1>s DEF Connect, Sems
  <2>3. undo' \in [Procs -> [Sems -> Int]] BY <1>4, <1>s DEF Connect, Sems
  <2> QED BY <1>4, <2>1, <2>2, <2>3 DEF Connect, TypeOK, TypePc
<1>5. CASE WaitFull(r)
  <2>1. TypePc' BY <1>5, <1>s, TypeMove DEF WaitFull, Goto, ReaderPcs
  <2>2. sem' \in [Sems -> Nat] BY <1>5, <1>s DEF WaitFull, Sems
  <2> QED BY <1>5, <2>1, <2>2 DEF WaitFull, TypeOK, TypePc
<1>6. CASE Upload(r)
  <2>1. TypePc' BY <1>6, <1>s, TypeMove DEF Upload, Goto, ReaderPcs
  <2>2. [data |-> shm.data, byte_used |-> shm.byte_used]
          \in [data: {<<>>} \cup (Writers \X (Nat \ {0})), byte_used: {"full", "short"}]
    BY <1>d
  <2>3. out' \in [Readers -> Seq([data: {<<>>} \cup (Writers \X (Nat \ {0})),
                                  byte_used: {"full", "short"}])]
    <3> DEFINE B == [data: {<<>>} \cup (Writers \X (Nat \ {0})), byte_used: {"full", "short"}]
               b == [data |-> shm.data, byte_used |-> shm.byte_used]
    <3>1. out \in [Readers -> Seq(B)] /\ b \in B BY <1>d, <2>2
    <3>2. out' = [out EXCEPT ![r] = Append(@, b)] BY <1>6 DEF Upload
    <3> HIDE DEF B, b
    <3>3. Append(out[r], b) \in Seq(B) BY <3>1
    <3>4. out' \in [Readers -> Seq(B)] BY <3>1, <3>2, <3>3
    <3> QED BY <3>4 DEF B
  <2>4. last_num_bytes' \in [Readers -> {"full", "short"}] BY <1>6, <1>d DEF Upload
  <2> QED BY <1>6, <2>1, <2>3, <2>4 DEF Upload, TypeOK, TypePc
<1>7. CASE MarkSuccess(r)
  <2>1. TypePc' BY <1>7, <1>s, TypeMove DEF MarkSuccess, Goto, ReaderPcs
  <2>2. shm' \in [data: {<<>>} \cup (Writers \X (Nat \ {0})),
                  byte_used: {"full", "short"}, success_end: {0, 1}]
    BY <1>7, <1>d DEF MarkSuccess
  <2> QED BY <1>7, <2>1, <2>2 DEF MarkSuccess, TypeOK, TypePc
<1>8. CASE PostEmpty(r)
  <2>1. TypePc' BY <1>8, <1>s, TypeMove DEF PostEmpty, Goto, ReaderPcs
  <2>2. sem' \in [Sems -> Nat] BY <1>8, <1>s DEF PostEmpty, Sems
  <2> QED BY <1>8, <2>1, <2>2 DEF PostEmpty, TypeOK, TypePc
<1>9. CASE ReaderRelease(r)
  <2>1. TypePc' BY <1>9, <1>s, TypeMove DEF ReaderRelease, Goto, ReaderPcs
  <2>2. sem' \in [Sems -> Nat] BY <1>9, <1>s DEF ReaderRelease, Sems
  <2>3. undo' \in [Procs -> [Sems -> Int]] BY <1>9, <1>s DEF ReaderRelease, Sems
  <2> QED BY <1>9, <2>1, <2>2, <2>3 DEF ReaderRelease, TypeOK, TypePc
<1> QED
  BY <1>1, <1>2, <1>3, <1>4, <1>5, <1>6, <1>7, <1>8, <1>9 DEF ReaderStep

LEMMA TypeWriter ==
  ASSUME TypeOK, NEW w \in Writers, WriterStep(w), ~ CheckAlive(w), ~ Exit(w)
  PROVE  TypeOK'
<1> USE Disjoint
<1>s. sem \in [Sems -> Nat] /\ undo \in [Procs -> [Sems -> Int]] /\ w \in Procs
  BY DEF TypeOK, Procs
<1>d. /\ shm \in [data: {<<>>} \cup (Writers \X (Nat \ {0})),
                  byte_used: {"full", "short"}, success_end: {0, 1}]
      /\ loaded \in [Writers -> Nat]
      /\ not_time_to_die \in [Writers -> {0, 1}]
      /\ peer \in [Readers -> Writers \cup {None}]
  BY DEF TypeOK
<1>1. CASE WriterGetMutex(w)
  <2>1. TypePc' BY <1>1, <1>s, TypeMove DEF WriterGetMutex, Goto, WriterPcs
  <2>2. sem' \in [Sems -> Nat] BY <1>1, <1>s DEF WriterGetMutex, Sems
  <2>3. undo' \in [Procs -> [Sems -> Int]] BY <1>1, <1>s DEF WriterGetMutex, Sems
  <2>4. peer' \in [Readers -> Writers \cup {None}] BY <1>1, <1>d DEF WriterGetMutex
  <2> QED BY <1>1, <2>1, <2>2, <2>3, <2>4 DEF WriterGetMutex, TypeOK, TypePc
<1>2. CASE WaitEmpty(w)
  <2>1. TypePc' BY <1>2, <1>s, TypeMove DEF WaitEmpty, Goto, WriterPcs
  <2>2. sem' \in [Sems -> Nat] BY <1>2, <1>s DEF WaitEmpty, Sems
  <2> QED BY <1>2, <2>1, <2>2 DEF WaitEmpty, TypeOK, TypePc
<1>3. CASE TestSuccess(w)
  <2>1. TypePc' BY <1>3, <1>s, TypeMove DEF TestSuccess, Goto, WriterPcs
  <2> QED BY <1>3, <2>1 DEF TestSuccess, TypeOK, TypePc
<1>4. CASE Load(w)
  <2>1. TypePc' BY <1>4, <1>s, TypeMove DEF Load, Goto, WriterPcs
  <2>2. loaded[w] + 1 \in Nat \ {0} BY <1>d
  <2>3. <<w, loaded[w] + 1>> \in Writers \X (Nat \ {0}) BY <2>2
  <2>4. shm' = [data |-> <<w, loaded[w] + 1>>, byte_used |-> shm.byte_used,
                success_end |-> shm.success_end]
    BY <1>4, <1>d DEF Load
  <2>5. shm' \in [data: {<<>>} \cup (Writers \X (Nat \ {0})),
                  byte_used: {"full", "short"}, success_end: {0, 1}]
    BY <1>d, <2>3, <2>4
  <2>6. loaded' \in [Writers -> Nat] BY <1>4, <1>d DEF Load
  <2> QED BY <1>4, <2>1, <2>5, <2>6 DEF Load, TypeOK, TypePc
<1>5. CASE FillHeader(w)
  <2>1. TypePc' BY <1>5, <1>s, TypeMove DEF FillHeader, Goto, WriterPcs
  <2>2. Block(w, loaded[w]).byte_used \in {"full", "short"} BY DEF Block
  <2>3. shm' \in [data: {<<>>} \cup (Writers \X (Nat \ {0})),
                  byte_used: {"full", "short"}, success_end: {0, 1}]
    BY <1>5, <1>d, <2>2 DEF FillHeader
  <2> QED BY <1>5, <2>1, <2>3 DEF FillHeader, TypeOK, TypePc
<1>6. CASE PostFull(w)
  <2>1. TypePc' BY <1>6, <1>s, TypeMove DEF PostFull, Goto, WriterPcs
  <2>2. sem' \in [Sems -> Nat] BY <1>6, <1>s DEF PostFull, Sems
  <2>3. not_time_to_die' \in [Writers -> {0, 1}] BY <1>6, <1>d DEF PostFull
  <2> QED BY <1>6, <2>1, <2>2, <2>3 DEF PostFull, TypeOK, TypePc
<1>7. CASE WriterRelease(w)
  <2>1. TypePc' BY <1>7, <1>s, TypeMove DEF WriterRelease, Goto, WriterPcs
  <2>2. sem' \in [Sems -> Nat] BY <1>7, <1>s DEF WriterRelease, Sems
  <2>3. undo' \in [Procs -> [Sems -> Int]] BY <1>7, <1>s DEF WriterRelease, Sems
  <2> QED BY <1>7, <2>1, <2>2, <2>3 DEF WriterRelease, TypeOK, TypePc
<1> QED
  BY <1>1, <1>2, <1>3, <1>4, <1>5, <1>6, <1>7 DEF WriterStep

LEMMA TypeCheck == ASSUME TypeOK, NEW p \in Procs, CheckAlive(p) PROVE TypeOK'
<1>1. TypePc' BY TypeMove, Disjoint DEF CheckAlive, Goto, ReaderPcs, WriterPcs, Procs
<1> QED BY <1>1 DEF CheckAlive, TypeOK, TypePc

LEMMA TypeEnd ==
  ASSUME TypeOK, NEW p \in Procs, NEW status \in Ended, End(p, status) PROVE TypeOK'
<1>1. TypePc' BY TypeMove DEF End, ReaderPcs, WriterPcs
<1>2. sem' \in [Sems -> Nat] BY DEF End, Clamp, TypeOK
<1>3. undo' \in [Procs -> [Sems -> Int]] BY DEF End, NoUndo, TypeOK
<1> QED BY <1>1, <1>2, <1>3 DEF End, TypeOK, TypePc

\* Whatever the number of processes and the files, the variables keep the types
\* the semaphore set, the segment and the programs' locals have.
THEOREM TypeCorrect == Spec => []TypeOK
<1>1. Init => TypeOK
  <2> SUFFICES ASSUME Init PROVE TypeOK OBVIOUS
  <2>1. undo \in [Procs -> [Sems -> Int]] BY DEF Init, NoUndo
  <2>2. out \in [Readers -> Seq([data: {<<>>} \cup (Writers \X (Nat \ {0})),
                                 byte_used: {"full", "short"}])]
    BY DEF Init
  <2> QED BY <2>1, <2>2, Disjoint DEF Init, TypeOK, ReaderPcs, WriterPcs, Procs
<1>2. TypeOK /\ [Next]_vars => TypeOK'
  <2> SUFFICES ASSUME TypeOK, [Next]_vars PROVE TypeOK' OBVIOUS
  <2>1. CASE \E r \in Readers : ReaderStep(r)
    BY <2>1, TypeReader, TypeCheck, TypeEnd DEF Exit, Procs, Ended
  <2>2. CASE \E w \in Writers : WriterStep(w)
    BY <2>2, TypeWriter, TypeCheck, TypeEnd DEF Exit, Procs, Ended
  <2>3. CASE \E p \in Procs : Die(p)
    BY <2>3, TypeEnd DEF Die, Ended
  <2>4. CASE UNCHANGED vars BY <2>4 DEF vars, TypeOK
  <2> QED BY <2>1, <2>2, <2>3, <2>4 DEF Next
<1> QED BY <1>1, <1>2, PTL DEF Spec

----------------------------------------------------------------------------
(* The inductive invariant: steps inside a session                         *)

Inner == {"full", "check", "upload", "mark", "post", "release", "abort",
          "empty", "test", "load", "fill"}

\* A step that keeps its process inside the session, the registration counters
\* and all adjustments keeps what concerns them.
LEMMA SessionFrame ==
  ASSUME IInv, NEW p \in Procs, pc[p] \in Inner, NEW to \in Inner,
         pc' = [pc EXCEPT ![p] = to], UNCHANGED <<undo, peer>>,
         \A s \in Sems \ {SEM_FULL, SEM_EMPTY} : sem'[s] = sem[s]
  PROVE  /\ Registered' /\ Offered' /\ Peers'
         /\ \A r \in Readers : OwedByReader(r)' /\ Fresh(r)'
         /\ \A w \in Writers : OwedByWriter(w)'
         /\ \A q \in Procs : (Attached(q)' <=> Attached(q)) /\ (Connected(q)' <=> Connected(q))
<1>1. \A q \in Procs : pc'[q] = (IF q = p THEN to ELSE pc[q])
  BY DEF IInv, TypeOK
<1>2. \A q \in Procs : (Attached(q)' <=> Attached(q)) /\ (Connected(q)' <=> Connected(q))
  BY <1>1 DEF Attached, Connected, Inner, Ended
<1>3. \A s \in {SEM_HAVE_READER, SEM_HAVE_WRITER, SEM_ALIVE, SEM_CONNECT} : sem'[s] = sem[s]
  BY DEF Sems, SEM_HAVE_READER, SEM_HAVE_WRITER, SEM_ALIVE, SEM_CONNECT, SEM_FULL, SEM_EMPTY
<1>4. Registered'
  BY <1>2, <1>3 DEF IInv, Registered, Procs
<1>5. Offered' BY <1>2, <1>3 DEF IInv, Offered, Procs
<1>6. Peers'
  BY <1>1, Disjoint DEF IInv, TypeOK, Peers, Inner
<1>7. \A r \in Readers : OwedByReader(r)'
  BY <1>2, Disjoint DEF IInv, OwedByReader, Procs
<1>8. \A w \in Writers : OwedByWriter(w)'
  BY <1>2, Disjoint DEF IInv, OwedByWriter, Procs
<1>9. \A r \in Readers : Fresh(r)'
  BY <1>1, <1>2, Disjoint DEF IInv, Fresh, Procs, Inner
<1> QED BY <1>2, <1>4, <1>5, <1>6, <1>7, <1>8, <1>9

\* Who is in a session with whom.
LEMMA Mates ==
  ASSUME IInv, NEW r \in Readers, Attached(r)
  PROVE  /\ \A q \in Readers : q # r => ~ Attached(q)
         /\ \A w \in Writers : Attached(w) =>
              peer[r] = w /\ Connected(r) /\ (WriterTurn(r, w) \/ ReaderTurn(r, w))
BY DEF IInv, Registered, Turns

LEMMA MoveFacts ==
  ASSUME TypeOK, NEW p \in Procs, NEW from, NEW to, Goto(p, from, to)
  PROVE  /\ pc[p] = from /\ pc' = [pc EXCEPT ![p] = to]
         /\ \A q \in Procs : pc'[q] = (IF q = p THEN to ELSE pc[q])
BY DEF Goto, TypeOK

\* A reader's step that leaves the buffer and the outputs alone takes nothing
\* from the writers.
LEMMA WriterFrame ==
  ASSUME IInv, NEW r \in Readers, NEW to, pc' = [pc EXCEPT ![r] = to],
         UNCHANGED <<shm, out, loaded, not_time_to_die, peer>>
  PROVE  \A w \in Writers : WriterData(w)'
<1>1. \A w \in Writers : pc'[w] = pc[w] BY Disjoint DEF IInv, TypeOK
<1> QED BY <1>1 DEF IInv, WriterData, Attached

LEMMA WaitFullInv ==
  ASSUME IInv, TypeOK', NEW r \in Readers, WaitFull(r) PROVE IInv'
<1>1. /\ pc[r] = "full" /\ pc' = [pc EXCEPT ![r] = "check"]
      /\ \A q \in Procs : pc'[q] = (IF q = r THEN "check" ELSE pc[q])
  BY MoveFacts DEF WaitFull, Procs, IInv
<1>2. /\ sem[SEM_FULL] >= 1 /\ sem'[SEM_FULL] = sem[SEM_FULL] - 1
      /\ \A s \in Sems \ {SEM_FULL} : sem'[s] = sem[s]
  BY DEF WaitFull, IInv, TypeOK, Sems
<1>3. UNCHANGED <<undo, shm, out, last_num_bytes, loaded, not_time_to_die, peer>>
  BY DEF WaitFull
<1>4. /\ Registered' /\ Offered' /\ Peers'
      /\ \A q \in Readers : OwedByReader(q)' /\ Fresh(q)'
      /\ \A w \in Writers : OwedByWriter(w)'
      /\ \A q \in Procs : (Attached(q)' <=> Attached(q)) /\ (Connected(q)' <=> Connected(q))
  BY <1>1, <1>2, <1>3, SessionFrame DEF Inner, Procs
<1>5. Attached(r) BY <1>1 DEF Attached, Ended
<1>6. \A q \in Readers : Offering(q)'
  BY <1>1, <1>2, <1>3, <1>4, <1>5, Mates DEF IInv, Offering, Procs, Attached, Connected, Ended
<1>7. OutputIsPrefix' BY <1>3 DEF IInv, OutputIsPrefix
<1>8. Turns'
  <2> SUFFICES ASSUME NEW w \in Writers, Attached(w) PROVE ReaderTurn(r, w)'
    BY <1>4, <1>5, Mates DEF Turns, Procs
  <2>1. ReaderTurn(r, w) /\ sem[SEM_EMPTY] = sem'[SEM_EMPTY]
    BY <1>2, <1>5, Mates DEF WriterTurn, Sems, SEM_FULL, SEM_EMPTY
  <2> QED BY <2>1, <1>1, <1>2, <1>3, Disjoint DEF ReaderTurn, Holds
<1>9. \A q \in Readers : ReaderData(q)'
  BY <1>1, <1>3 DEF IInv, ReaderData, Procs
<1>10. \A w \in Writers : WriterData(w)' BY <1>1, <1>3, WriterFrame
<1> QED BY <1>4, <1>6, <1>7, <1>8, <1>9, <1>10 DEF IInv

\* The sequence of blocks grows one block at a time.
LEMMA PrefixGrows ==
  ASSUME NEW w \in Writers, NEW n \in Nat
  PROVE  /\ Len(Prefix(w, n)) = n
         /\ Append(Prefix(w, n), Block(w, n + 1)) = Prefix(w, n + 1)
BY DEF Prefix

LEMMA LastPositive == \A w \in Writers : Last(w) \in Nat /\ Last(w) > 0
BY FileAssumption DEF Last

\* While a writer is attached, every attached reader is its own and connected.
LEMMA WriterMates ==
  ASSUME IInv, NEW w \in Writers, Attached(w)
  PROVE  /\ \A v \in Writers : v # w => ~ Attached(v)
         /\ \A q \in Readers : Attached(q) =>
              peer[q] = w /\ Connected(q) /\ (WriterTurn(q, w) \/ ReaderTurn(q, w))
BY DEF IInv, Registered, Turns

LEMMA CheckAliveReaderInv ==
  ASSUME IInv, TypeOK', NEW r \in Readers, CheckAlive(r) PROVE IInv'
<1> DEFINE to == IF sem[SEM_ALIVE] = 1 THEN "abort" ELSE "upload"
<1>1. /\ pc[r] = "check" /\ pc' = [pc EXCEPT ![r] = to]
      /\ \A q \in Procs : pc'[q] = (IF q = r THEN to ELSE pc[q])
  BY MoveFacts DEF CheckAlive, Procs, IInv
<1>2. UNCHANGED <<sem, undo, shm, out, last_num_bytes, loaded, not_time_to_die, peer>>
  BY DEF CheckAlive
<1>3. /\ Registered' /\ Offered' /\ Peers'
      /\ \A q \in Readers : OwedByReader(q)' /\ Fresh(q)'
      /\ \A v \in Writers : OwedByWriter(v)'
      /\ \A q \in Procs : (Attached(q)' <=> Attached(q)) /\ (Connected(q)' <=> Connected(q))
  BY <1>1, <1>2, SessionFrame DEF Inner, Procs
<1>4. Attached(r) BY <1>1 DEF Attached, Ended
<1>7. Turns' /\ ReaderData(r)'
  <2>1. CASE sem[SEM_ALIVE] = 1
    <3>1. \A w \in Writers : ~ Attached(w)
      BY <1>4, <2>1 DEF IInv, Registered
    <3>2. Turns' BY <1>3, <3>1 DEF Turns, Procs
    <3>3. ReaderData(r)' BY <1>1, <2>1 DEF ReaderData, Procs
    <3> QED BY <3>2, <3>3
  <2>2. CASE sem[SEM_ALIVE] # 1
    <3>1. PICK w \in Writers : Attached(w)
      BY <1>4, <2>2 DEF IInv, Registered
    <3>2. ReaderTurn(r, w) /\ peer[r] = w
      BY <3>1, <1>1, <1>4, Mates DEF WriterTurn
    <3>3. ReaderTurn(r, w)'
      BY <3>2, <1>1, <1>2, <2>2, Disjoint DEF ReaderTurn, Holds
    <3>4. Turns' BY <1>3, <1>4, <3>1, <3>3, Mates, WriterMates DEF Turns, Procs
    <3>5. ReaderData(r)'
      BY <3>2, <1>1, <1>2, <2>2, ProcAssumption DEF ReaderData, ReaderTurn, Holds, Procs
    <3> QED BY <3>4, <3>5
  <2> QED BY <2>1, <2>2
<1>8. \A q \in Readers : ReaderData(q)'
  BY <1>1, <1>2, <1>7 DEF IInv, ReaderData, Procs
<1>9. \A q \in Readers : Offering(q)'
  BY <1>1, <1>2, <1>3, <1>4, Mates DEF IInv, Offering, Procs, Attached, Connected, Ended
<1>10. OutputIsPrefix' BY <1>2 DEF IInv, OutputIsPrefix
<1>11. \A w \in Writers : WriterData(w)' BY <1>1, <1>2, WriterFrame
<1> QED BY <1>3, <1>7, <1>8, <1>9, <1>10, <1>11 DEF IInv

LEMMA UploadInv ==
  ASSUME IInv, TypeOK', NEW r \in Readers, Upload(r) PROVE IInv'
<1>1. /\ pc[r] = "upload" /\ pc' = [pc EXCEPT ![r] = "mark"]
      /\ \A q \in Procs : pc'[q] = (IF q = r THEN "mark" ELSE pc[q])
  BY MoveFacts DEF Upload, Procs, IInv
<1>2. UNCHANGED <<sem, undo, shm, loaded, not_time_to_die, peer>> BY DEF Upload
<1>3. /\ Registered' /\ Offered' /\ Peers'
      /\ \A q \in Readers : OwedByReader(q)' /\ Fresh(q)'
      /\ \A v \in Writers : OwedByWriter(v)'
      /\ \A q \in Procs : (Attached(q)' <=> Attached(q)) /\ (Connected(q)' <=> Connected(q))
  BY <1>1, <1>2, SessionFrame DEF Inner, Procs
<1>4. Attached(r) BY <1>1 DEF Attached, Ended
<1> DEFINE n == Len(out[r])  w == peer[r]
<1>5. /\ w \in Writers /\ n \in Nat /\ n < Last(w)
      /\ out[r] = Prefix(w, n)
      /\ shm.data = Block(w, n + 1).data /\ shm.byte_used = Block(w, n + 1).byte_used
  BY <1>1 DEF IInv, TypeOK, ReaderData, OutputIsPrefix
<1>6. out'[r] = Prefix(w, n + 1) /\ Len(out'[r]) = n + 1
      /\ \A q \in Readers : q # r => out'[q] = out[q]
  <2>1. Block(w, n + 1) = [data |-> shm.data, byte_used |-> shm.byte_used]
    BY <1>5 DEF Block
  <2>2. out' = [out EXCEPT ![r] = Append(@, Block(w, n + 1))] BY <2>1 DEF Upload
  <2>3. out'[r] = Append(Prefix(w, n), Block(w, n + 1))
        /\ \A q \in Readers : q # r => out'[q] = out[q]
    BY <2>2, <1>5 DEF IInv, TypeOK
  <2>4. out'[r] = Prefix(w, n + 1) BY <2>3, <1>5, PrefixGrows
  <2>5. n + 1 \in Nat BY <1>5
  <2>6. Len(Prefix(w, n + 1)) = n + 1 BY <1>5, <2>5, PrefixGrows
  <2> QED BY <2>3, <2>4, <2>6
<1>7. /\ last_num_bytes'[r] = Block(w, n + 1).byte_used
      /\ \A q \in Readers : q # r => last_num_bytes'[q] = last_num_bytes[q]
  BY <1>5 DEF Upload, IInv, TypeOK
<1>8. \A q \in Readers : Offering(q)'
  BY <1>1, <1>2, <1>3, <1>4, <1>5, Mates, ProcAssumption
     DEF IInv, Offering, Procs, Attached, Connected, Ended
<1>9. OutputIsPrefix'
  BY <1>2, <1>5, <1>6, LastPositive, ProcAssumption DEF IInv, OutputIsPrefix, Procs
<1>10. Turns'
  <2> SUFFICES ASSUME NEW v \in Writers, Attached(v) PROVE ReaderTurn(r, v)'
    BY <1>3, <1>4, Mates DEF Turns, Procs
  <2>1. ReaderTurn(r, v) /\ v = w BY <1>1, <1>4, Mates DEF WriterTurn
  <2> QED BY <2>1, <1>1, <1>2, <1>5, <1>6, Disjoint DEF ReaderTurn, Holds
<1>11. \A q \in Readers : ReaderData(q)'
  <2>1. ReaderData(r)' BY <1>1, <1>2, <1>5, <1>6, <1>7, ProcAssumption DEF ReaderData, Procs
  <2>2. \A q \in Readers : q # r => ReaderData(q)'
    <3> SUFFICES ASSUME NEW q \in Readers, q # r PROVE ReaderData(q)' OBVIOUS
    <3>1. ReaderData(q) BY DEF IInv
    <3> QED BY <3>1, <1>1, <1>2, <1>6, <1>7 DEF ReaderData, Procs
  <2> QED BY <2>1, <2>2
<1>12. \A v \in Writers : WriterData(v)'
  <2> SUFFICES ASSUME NEW v \in Writers PROVE WriterData(v)' OBVIOUS
  <2>1. (\E q \in Readers : peer[q] = v /\ Len(out[q]) = Last(v)) =>
        (\E q \in Readers : peer'[q] = v /\ Len(out'[q]) = Last(v))
    BY <1>2, <1>5, <1>6
  <2>2. pc'[v] = pc[v] BY <1>1, Disjoint
  <2> QED BY <2>1, <2>2, <1>2 DEF IInv, WriterData, Attached
<1> QED BY <1>3, <1>8, <1>9, <1>10, <1>11, <1>12 DEF IInv

LEMMA MarkSuccessInv ==
  ASSUME IInv, TypeOK', NEW r \in Readers, MarkSuccess(r) PROVE IInv'
<1>1. /\ pc[r] = "mark" /\ pc' = [pc EXCEPT ![r] = "post"]
      /\ \A q \in Procs : pc'[q] = (IF q = r THEN "post" ELSE pc[q])
  BY MoveFacts DEF MarkSuccess, Procs, IInv
<1>2. UNCHANGED <<sem, undo, out, last_num_bytes, loaded, not_time_to_die, peer>>
  BY DEF MarkSuccess
<1>3. /\ Registered' /\ Offered' /\ Peers'
      /\ \A q \in Readers : OwedByReader(q)' /\ Fresh(q)'
      /\ \A v \in Writers : OwedByWriter(v)'
      /\ \A q \in Procs : (Attached(q)' <=> Attached(q)) /\ (Connected(q)' <=> Connected(q))
  BY <1>1, <1>2, SessionFrame DEF Inner, Procs
<1>4. Attached(r) BY <1>1 DEF Attached, Ended
<1> DEFINE n == Len(out[r])  w == peer[r]
<1>5. /\ w \in Writers /\ n \in Nat /\ n <= Last(w)
      /\ last_num_bytes[r] = Block(w, n).byte_used
  BY <1>1 DEF IInv, TypeOK, ReaderData, OutputIsPrefix
<1>6. /\ n = Last(w) => shm'.success_end = 1
      /\ n # Last(w) => shm' = shm
      /\ shm'.data = shm.data /\ shm'.byte_used = shm.byte_used
  BY <1>5, LastPositive DEF MarkSuccess, Block, IInv, TypeOK
<1>7. \A q \in Readers : Offering(q)'
  BY <1>1, <1>2, <1>3, <1>4, <1>5, Mates, ProcAssumption
     DEF IInv, Offering, Procs, Attached, Connected, Ended
<1>8. OutputIsPrefix' BY <1>2 DEF IInv, OutputIsPrefix
<1>9. \A v \in Writers : Attached(v) => ReaderTurn(r, v) /\ v = w
  BY <1>1, <1>4, Mates DEF WriterTurn
<1>10. Turns'
  <2> SUFFICES ASSUME NEW v \in Writers, Attached(v) PROVE ReaderTurn(r, v)'
    BY <1>3, <1>4, Mates DEF Turns, Procs
  <2> QED BY <1>9, <1>1, <1>2, <1>6, Disjoint DEF ReaderTurn
<1>11. \A q \in Readers : ReaderData(q)'
  BY <1>1, <1>2, <1>4, <1>5, Mates DEF IInv, ReaderData, Procs, Attached, Ended
<1>12. \A v \in Writers : WriterData(v)'
  <2> SUFFICES ASSUME NEW v \in Writers PROVE WriterData(v)' OBVIOUS
  <2>1. pc'[v] = pc[v] BY <1>1, Disjoint
  <2>2. CASE Attached(v)
    <3>1. pc[v] = "empty" /\ v = w BY <2>2, <1>9 DEF ReaderTurn
    <3>2. WriterData(v) BY DEF IInv
    <3>3. peer'[r] = v /\ Len(out'[r]) = n BY <3>1, <1>2
    <3>4. not_time_to_die[v] = 0 /\ shm'.success_end = 1 =>
            \E q \in Readers : peer'[q] = v /\ Len(out'[q]) = Last(v)
      <4>1. CASE n = Last(w) BY <4>1, <3>1, <3>3
      <4>2. CASE n # Last(w) BY <4>2, <3>2, <2>2, <1>2, <1>6 DEF WriterData
      <4> QED BY <4>1, <4>2
    <3> QED BY <3>1, <3>2, <3>4, <2>1, <1>2 DEF WriterData
  <2>3. CASE ~ Attached(v)
    BY <2>3, <2>1, <1>2 DEF IInv, WriterData, Attached, Ended
  <2> QED BY <2>2, <2>3
<1> QED BY <1>3, <1>7, <1>8, <1>10, <1>11, <1>12 DEF IInv

LEMMA PostEmptyInv ==
  ASSUME IInv, TypeOK', NEW r \in Readers, PostEmpty(r) PROVE IInv'
<1> DEFINE to == IF last_num_bytes[r] = "short" THEN "release" ELSE "full"
<1>1. /\ pc[r] = "post" /\ pc' = [pc EXCEPT ![r] = to]
      /\ \A q \in Procs : pc'[q] = (IF q = r THEN to ELSE pc[q])
  BY MoveFacts DEF PostEmpty, Procs, IInv
<1>2. UNCHANGED <<undo, shm, out, last_num_bytes, loaded, not_time_to_die, peer>>
  BY DEF PostEmpty
<1>3. /\ sem'[SEM_EMPTY] = sem[SEM_EMPTY] + 1
      /\ \A s \in Sems \ {SEM_EMPTY} : sem'[s] = sem[s]
  BY DEF PostEmpty, IInv, TypeOK, Sems
<1>4. /\ Registered' /\ Offered' /\ Peers'
      /\ \A q \in Readers : OwedByReader(q)' /\ Fresh(q)'
      /\ \A v \in Writers : OwedByWriter(v)'
      /\ \A q \in Procs : (Attached(q)' <=> Attached(q)) /\ (Connected(q)' <=> Connected(q))
  BY <1>1, <1>2, <1>3, SessionFrame DEF Inner, Procs
<1>5. Attached(r) BY <1>1 DEF Attached, Ended
<1> DEFINE n == Len(out[r])  w == peer[r]
<1>6. /\ w \in Writers /\ n \in Nat /\ n <= Last(w)
      /\ last_num_bytes[r] = Block(w, n).byte_used
  BY <1>1 DEF IInv, TypeOK, ReaderData, OutputIsPrefix
<1>7. to = (IF n = Last(w) THEN "release" ELSE "full")
  BY <1>6, LastPositive DEF Block
<1>8. \A q \in Readers : Offering(q)'
  BY <1>1, <1>2, <1>4, <1>5, <1>6, Mates, ProcAssumption
     DEF IInv, Offering, Procs, Attached, Connected, Ended
<1>9. OutputIsPrefix' BY <1>2 DEF IInv, OutputIsPrefix
<1>10. Turns'
  <2> SUFFICES ASSUME NEW v \in Writers, Attached(v) PROVE WriterTurn(r, v)'
    BY <1>4, <1>5, Mates DEF Turns, Procs
  <2>1. ReaderTurn(r, v) /\ v = w BY <1>1, <1>5, Mates DEF WriterTurn
  <2>2. sem'[SEM_FULL] = 0 /\ sem'[SEM_EMPTY] = 1
    BY <2>1, <1>1, <1>3 DEF ReaderTurn, Sems, SEM_FULL, SEM_EMPTY
  <2>3. pc'[v] = "empty" /\ pc'[r] = to /\ loaded'[v] = n
    BY <2>1, <1>1, <1>2, Disjoint DEF ReaderTurn
  <2> QED BY <2>1, <2>2, <2>3, <1>1, <1>2, <1>7 DEF ReaderTurn, WriterTurn
<1>11. \A q \in Readers : ReaderData(q)'
  BY <1>1, <1>2, <1>6, <1>7, ProcAssumption DEF IInv, ReaderData, Procs
<1>12. \A v \in Writers : WriterData(v)' BY <1>1, <1>2, WriterFrame
<1> QED BY <1>4, <1>8, <1>9, <1>10, <1>11, <1>12 DEF IInv

\* While a writer is attached nobody is offering or about to offer.
LEMMA NoOffer ==
  ASSUME IInv, NEW w \in Writers, Attached(w), NEW q \in Readers
  PROVE  /\ pc[q] \notin {"setempty", "connect"}
         /\ ~ (Connected(q) /\ peer[q] = None)
BY WriterMates, ProcAssumption DEF Attached, Connected, Ended, Procs

\* A writer's inner step that leaves the outputs alone takes nothing from the
\* readers: none of them is between its check and the end of its turn.
LEMMA ReaderFrame ==
  ASSUME IInv, NEW w \in Writers, pc[w] \in Inner \ {"empty"}, NEW to,
         pc' = [pc EXCEPT ![w] = to], UNCHANGED <<out, last_num_bytes, peer>>
  PROVE  \A q \in Readers : ReaderData(q)'
<1>1. \A q \in Readers : pc'[q] = pc[q] BY Disjoint DEF IInv, TypeOK
<1>2. Attached(w) BY DEF Attached, Inner, Ended
<1>3. \A q \in Readers : pc[q] \notin {"upload", "mark", "post"}
  BY <1>2, WriterMates DEF ReaderTurn, WriterTurn, Attached, Ended
<1> QED BY <1>1, <1>3 DEF IInv, ReaderData

LEMMA OfferFrame ==
  ASSUME IInv, NEW w \in Writers, Attached(w), NEW to \in Inner,
         pc' = [pc EXCEPT ![w] = to], UNCHANGED peer
  PROVE  \A q \in Readers : Offering(q)'
<1>1. \A q \in Readers : pc'[q] = pc[q] BY Disjoint DEF IInv, TypeOK
<1> QED BY <1>1, NoOffer DEF Offering, Connected, Attached

LEMMA WaitEmptyInv ==
  ASSUME IInv, TypeOK', NEW w \in Writers, WaitEmpty(w) PROVE IInv'
<1>1. /\ pc[w] = "empty" /\ pc' = [pc EXCEPT ![w] = "test"]
      /\ \A q \in Procs : pc'[q] = (IF q = w THEN "test" ELSE pc[q])
  BY MoveFacts DEF WaitEmpty, Procs, IInv
<1>2. UNCHANGED <<undo, shm, out, last_num_bytes, loaded, not_time_to_die, peer>>
  BY DEF WaitEmpty
<1>3. /\ sem[SEM_EMPTY] >= 1 /\ sem'[SEM_EMPTY] = sem[SEM_EMPTY] - 1
      /\ \A s \in Sems \ {SEM_EMPTY} : sem'[s] = sem[s]
  BY DEF WaitEmpty, IInv, TypeOK, Sems
<1>4. /\ Registered' /\ Offered' /\ Peers'
      /\ \A q \in Readers : OwedByReader(q)' /\ Fresh(q)'
      /\ \A v \in Writers : OwedByWriter(v)'
      /\ \A q \in Procs : (Attached(q)' <=> Attached(q)) /\ (Connected(q)' <=> Connected(q))
  BY <1>1, <1>2, <1>3, SessionFrame DEF Inner, Procs
<1>5. Attached(w) BY <1>1 DEF Attached, Ended
<1>6. \A q \in Readers : Offering(q)' BY <1>1, <1>2, <1>5, OfferFrame DEF Inner
<1>7. OutputIsPrefix' BY <1>2 DEF IInv, OutputIsPrefix
<1>8. Turns'
  <2> SUFFICES ASSUME NEW r \in Readers, Attached(r) PROVE WriterTurn(r, w)'
    BY <1>4, <1>5, WriterMates DEF Turns, Procs
  <2>1. WriterTurn(r, w) BY <1>3, <1>5, WriterMates DEF ReaderTurn
  <2>2. sem'[SEM_FULL] = 0 /\ sem'[SEM_EMPTY] = 0
    BY <2>1, <1>1, <1>3 DEF WriterTurn, Sems, SEM_FULL, SEM_EMPTY
  <2>3. pc'[r] = pc[r] /\ pc'[w] = "test" BY <1>1, Disjoint
  <2> QED BY <2>1, <2>2, <2>3, <1>1, <1>2 DEF WriterTurn
<1>9. \A q \in Readers : ReaderData(q)'
  BY <1>1, <1>2, Disjoint DEF IInv, ReaderData, Procs
<1>10. \A v \in Writers : WriterData(v)'
  BY <1>1, <1>2, <1>4 DEF IInv, WriterData, Procs
<1> QED BY <1>4, <1>6, <1>7, <1>8, <1>9, <1>10 DEF IInv

LEMMA TestSuccessInv ==
  ASSUME IInv, TypeOK', NEW w \in Writers, TestSuccess(w) PROVE IInv'
<1> DEFINE to == IF not_time_to_die[w] = 0 /\ shm.success_end = 1
                 THEN "release" ELSE "check"
<1>1. /\ pc[w] = "test" /\ pc' = [pc EXCEPT ![w] = to]
      /\ \A q \in Procs : pc'[q] = (IF q = w THEN to ELSE pc[q])
  BY MoveFacts DEF TestSuccess, Procs, IInv
<1>2. UNCHANGED <<sem, undo, shm, out, last_num_bytes, loaded, not_time_to_die, peer>>
  BY DEF TestSuccess
<1>4. /\ Registered' /\ Offered' /\ Peers'
      /\ \A q \in Readers : OwedByReader(q)' /\ Fresh(q)'
      /\ \A v \in Writers : OwedByWriter(v)'
      /\ \A q \in Procs : (Attached(q)' <=> Attached(q)) /\ (Connected(q)' <=> Connected(q))
  BY <1>1, <1>2, SessionFrame DEF Inner, Procs
<1>5. Attached(w) BY <1>1 DEF Attached, Ended
<1>6. \A q \in Readers : Offering(q)' BY <1>1, <1>2, <1>5, OfferFrame DEF Inner
<1>7. OutputIsPrefix' BY <1>2 DEF IInv, OutputIsPrefix
<1>8. Turns'
  <2> SUFFICES ASSUME NEW r \in Readers, Attached(r) PROVE WriterTurn(r, w)'
    BY <1>4, <1>5, WriterMates DEF Turns, Procs
  <2>1. WriterTurn(r, w) BY <1>1, <1>5, WriterMates DEF ReaderTurn
  <2>2. to = (IF Len(out[r]) = Last(w) THEN "release" ELSE "check")
    BY <2>1, <1>1 DEF WriterTurn
  <2>3. pc'[r] = pc[r] /\ pc'[w] = to BY <1>1, Disjoint
  <2> QED BY <2>1, <2>2, <2>3, <1>1, <1>2 DEF WriterTurn
<1>9. \A q \in Readers : ReaderData(q)'
  BY <1>1, <1>2, <1>5, ReaderFrame DEF Inner
<1>10. \A v \in Writers : WriterData(v)'
  BY <1>1, <1>2, <1>4, <1>5 DEF IInv, WriterData, Procs
<1> QED BY <1>4, <1>6, <1>7, <1>8, <1>9, <1>10 DEF IInv

LEMMA CheckAliveWriterInv ==
  ASSUME IInv, TypeOK', NEW w \in Writers, CheckAlive(w) PROVE IInv'
<1> DEFINE to == IF sem[SEM_ALIVE] = 1 THEN "abort" ELSE "load"
<1>1. /\ pc[w] = "check" /\ pc' = [pc EXCEPT ![w] = to]
      /\ \A q \in Procs : pc'[q] = (IF q = w THEN to ELSE pc[q])
  <2>1. Goto(w, "check", to) BY Disjoint DEF CheckAlive
  <2> QED BY <2>1, MoveFacts DEF Procs, IInv
<1>2. UNCHANGED <<sem, undo, shm, out, last_num_bytes, loaded, not_time_to_die, peer>>
  BY DEF CheckAlive
<1>4. /\ Registered' /\ Offered' /\ Peers'
      /\ \A q \in Readers : OwedByReader(q)' /\ Fresh(q)'
      /\ \A v \in Writers : OwedByWriter(v)'
      /\ \A q \in Procs : (Attached(q)' <=> Attached(q)) /\ (Connected(q)' <=> Connected(q))
  BY <1>1, <1>2, SessionFrame DEF Inner, Procs
<1>5. Attached(w) BY <1>1 DEF Attached, Ended
<1>6. \A q \in Readers : Offering(q)' BY <1>1, <1>2, <1>5, OfferFrame DEF Inner
<1>7. OutputIsPrefix' BY <1>2 DEF IInv, OutputIsPrefix
<1>8. \A r \in Readers : Attached(r) => WriterTurn(r, w)
  BY <1>1, <1>5, WriterMates DEF ReaderTurn
<1>9. to = "load" <=> \E r \in Readers : Attached(r)
  BY <1>5 DEF IInv, Registered
<1>10. Turns'
  <2> SUFFICES ASSUME NEW r \in Readers, Attached(r) PROVE WriterTurn(r, w)'
    BY <1>4, <1>5, WriterMates DEF Turns, Procs
  <2>1. WriterTurn(r, w) /\ to = "load" BY <1>8, <1>9
  <2>2. pc'[r] = pc[r] /\ pc'[w] = "load" BY <1>1, <2>1, Disjoint
  <2> QED BY <2>1, <2>2, <1>1, <1>2 DEF WriterTurn
<1>11. \A q \in Readers : ReaderData(q)'
  BY <1>1, <1>2, <1>5, ReaderFrame DEF Inner
<1>12. \A v \in Writers : WriterData(v)'
  <2>1. to = "load" => not_time_to_die[w] = 1 BY <1>1, <1>8, <1>9 DEF WriterTurn
  <2> QED BY <2>1, <1>1, <1>2, <1>4, <1>5 DEF IInv, WriterData, Procs
<1> QED BY <1>4, <1>6, <1>7, <1>10, <1>11, <1>12 DEF IInv

LEMMA LoadInv ==
  ASSUME IInv, TypeOK', NEW w \in Writers, Load(w) PROVE IInv'
<1>1. /\ pc[w] = "load" /\ pc' = [pc EXCEPT ![w] = "fill"]
      /\ \A q \in Procs : pc'[q] = (IF q = w THEN "fill" ELSE pc[q])
  BY MoveFacts DEF Load, Procs, IInv
<1>2. UNCHANGED <<sem, undo, out, last_num_bytes, not_time_to_die, peer>>
  BY DEF Load
<1>3. /\ \A v \in Writers : loaded'[v] = (IF v = w THEN loaded[w] + 1 ELSE loaded[v])
      /\ shm'.data = <<w, loaded[w] + 1>> /\ shm'.success_end = shm.success_end
      /\ loaded[w] \in Nat
  BY DEF Load, IInv, TypeOK
<1>4. /\ Registered' /\ Offered' /\ Peers'
      /\ \A q \in Readers : OwedByReader(q)' /\ Fresh(q)'
      /\ \A v \in Writers : OwedByWriter(v)'
      /\ \A q \in Procs : (Attached(q)' <=> Attached(q)) /\ (Connected(q)' <=> Connected(q))
  BY <1>1, <1>2, SessionFrame DEF Inner, Procs
<1>5. Attached(w) BY <1>1 DEF Attached, Ended
<1>6. \A q \in Readers : Offering(q)' BY <1>1, <1>2, <1>5, OfferFrame DEF Inner
<1>7. OutputIsPrefix' BY <1>2 DEF IInv, OutputIsPrefix
<1>8. Turns'
  <2> SUFFICES ASSUME NEW r \in Readers, Attached(r) PROVE WriterTurn(r, w)'
    BY <1>4, <1>5, WriterMates DEF Turns, Procs
  <2>1. WriterTurn(r, w) BY <1>1, <1>5, WriterMates DEF ReaderTurn
  <2>2. pc'[r] = pc[r] /\ pc'[w] = "fill" BY <1>1, Disjoint
  <2> QED BY <2>1, <2>2, <1>1, <1>2, <1>3 DEF WriterTurn
<1>9. \A q \in Readers : ReaderData(q)'
  BY <1>1, <1>2, <1>5, ReaderFrame DEF Inner
<1>10. \A v \in Writers : WriterData(v)'
  <2>1. WriterData(w)'
    <3>1. WriterData(w) /\ not_time_to_die[w] = 1 /\ loaded[w] # Last(w)
      BY <1>1 DEF IInv, WriterData
    <3> QED BY <3>1, <1>1, <1>2, <1>3, LastPositive DEF WriterData, Procs
  <2>2. \A v \in Writers : v # w => WriterData(v)'
    BY <1>1, <1>2, <1>3, <1>4, <1>5 DEF IInv, WriterData, Procs
  <2> QED BY <2>1, <2>2
<1> QED BY <1>4, <1>6, <1>7, <1>8, <1>9, <1>10 DEF IInv

LEMMA FillHeaderInv ==
  ASSUME IInv, TypeOK', NEW w \in Writers, FillHeader(w) PROVE IInv'
<1>1. /\ pc[w] = "fill" /\ pc' = [pc EXCEPT ![w] = "post"]
      /\ \A q \in Procs : pc'[q] = (IF q = w THEN "post" ELSE pc[q])
  BY MoveFacts DEF FillHeader, Procs, IInv
<1>2. UNCHANGED <<sem, undo, out, last_num_bytes, loaded, not_time_to_die, peer>>
  BY DEF FillHeader
<1>3. /\ shm'.byte_used = Block(w, loaded[w]).byte_used
      /\ shm'.success_end = 0 /\ shm'.data = shm.data
  BY DEF FillHeader, IInv, TypeOK
<1>4. /\ Registered' /\ Offered' /\ Peers'
      /\ \A q \in Readers : OwedByReader(q)' /\ Fresh(q)'
      /\ \A v \in Writers : OwedByWriter(v)'
      /\ \A q \in Procs : (Attached(q)' <=> Attached(q)) /\ (Connected(q)' <=> Connected(q))
  BY <1>1, <1>2, SessionFrame DEF Inner, Procs
<1>5. Attached(w) BY <1>1 DEF Attached, Ended
<1>6. \A q \in Readers : Offering(q)' BY <1>1, <1>2, <1>5, OfferFrame DEF Inner
<1>7. OutputIsPrefix' BY <1>2 DEF IInv, OutputIsPrefix
<1>8. Turns'
  <2> SUFFICES ASSUME NEW r \in Readers, Attached(r) PROVE WriterTurn(r, w)'
    BY <1>4, <1>5, WriterMates DEF Turns, Procs
  <2>1. WriterTurn(r, w) BY <1>1, <1>5, WriterMates DEF ReaderTurn
  <2>2. pc'[r] = pc[r] /\ pc'[w] = "post" BY <1>1, Disjoint
  <2> QED BY <2>1, <2>2, <1>1, <1>2, <1>3 DEF WriterTurn, Holds, Block
<1>9. \A q \in Readers : ReaderData(q)'
  BY <1>1, <1>2, <1>5, ReaderFrame DEF Inner
<1>10. \A v \in Writers : WriterData(v)'
  BY <1>1, <1>2, <1>3, <1>4, <1>5 DEF IInv, WriterData, Procs
<1> QED BY <1>4, <1>6, <1>7, <1>8, <1>9, <1>10 DEF IInv

LEMMA PostFullInv ==
  ASSUME IInv, TypeOK', NEW w \in Writers, PostFull(w) PROVE IInv'
<1>1. /\ pc[w] = "post" /\ pc' = [pc EXCEPT ![w] = "empty"]
      /\ \A q \in Procs : pc'[q] = (IF q = w THEN "empty" ELSE pc[q])
  BY MoveFacts DEF PostFull, Procs, IInv
<1>2. UNCHANGED <<undo, shm, out, last_num_bytes, loaded, peer>>
  BY DEF PostFull
<1>3. /\ sem'[SEM_FULL] = sem[SEM_FULL] + 1
      /\ \A s \in Sems \ {SEM_FULL} : sem'[s] = sem[s]
  BY DEF PostFull, IInv, TypeOK, Sems
<1>4. /\ Registered' /\ Offered' /\ Peers'
      /\ \A q \in Readers : OwedByReader(q)' /\ Fresh(q)'
      /\ \A v \in Writers : OwedByWriter(v)'
      /\ \A q \in Procs : (Attached(q)' <=> Attached(q)) /\ (Connected(q)' <=> Connected(q))
  BY <1>1, <1>2, <1>3, SessionFrame DEF Inner, Procs
<1>5. Attached(w) BY <1>1 DEF Attached, Ended
<1>6. \A q \in Readers : Offering(q)' BY <1>1, <1>2, <1>5, OfferFrame DEF Inner
<1>7. OutputIsPrefix' BY <1>2 DEF IInv, OutputIsPrefix
<1>8. /\ WriterData(w) /\ loaded[w] \in Nat /\ loaded[w] <= Last(w)
      /\ not_time_to_die[w] = 1 /\ shm.success_end = 0
  BY <1>1 DEF IInv, WriterData, TypeOK
<1>9. /\ not_time_to_die'[w] = (IF loaded[w] = Last(w) THEN 0 ELSE 1)
      /\ \A v \in Writers : v # w => not_time_to_die'[v] = not_time_to_die[v]
  BY <1>8, LastPositive DEF PostFull, Block, IInv, TypeOK
<1>10. Turns'
  <2> SUFFICES ASSUME NEW r \in Readers, Attached(r) PROVE ReaderTurn(r, w)'
    BY <1>4, <1>5, WriterMates DEF Turns, Procs
  <2>1. WriterTurn(r, w) BY <1>1, <1>5, WriterMates DEF ReaderTurn
  <2>2. pc'[r] = "full" /\ pc'[w] = "empty" /\ Len(out[r]) \in Nat
    BY <2>1, <1>1, Disjoint DEF WriterTurn, IInv, TypeOK
  <2>3. sem'[SEM_FULL] = 1 /\ sem'[SEM_EMPTY] = 0
    BY <2>1, <1>1, <1>3 DEF WriterTurn, Sems, SEM_FULL, SEM_EMPTY
  <2> QED BY <2>1, <2>2, <2>3, <1>1, <1>2, <1>8, <1>9, LastPositive, Disjoint DEF WriterTurn, ReaderTurn, Holds
<1>11. \A q \in Readers : ReaderData(q)'
  BY <1>1, <1>2, <1>5, ReaderFrame DEF Inner
<1>12. \A v \in Writers : WriterData(v)'
  <2>1. WriterData(w)' BY <1>1, <1>2, <1>8, <1>9 DEF WriterData, Procs
  <2>2. \A v \in Writers : v # w => WriterData(v)'
    BY <1>1, <1>2, <1>4, <1>9 DEF IInv, WriterData, Procs
  <2> QED BY <2>1, <2>2
<1> QED BY <1>4, <1>6, <1>7, <1>10, <1>11, <1>12 DEF IInv

----------------------------------------------------------------------------
(* The inductive invariant: steps that open and close a session            *)

\* What the semaphores say when nobody is attached.
LEMMA Idle ==
  ASSUME IInv, sem[SEM_ALIVE] = 0
  PROVE  /\ \A p \in Procs : ~ Attached(p)
         /\ sem[SEM_HAVE_READER] = 0 /\ sem[SEM_HAVE_WRITER] = 0 /\ sem[SEM_CONNECT] = 0
BY DEF IInv, Registered, Offered, Connected, Procs

\* A step of a reader that leaves out the writer, the buffer and the outputs
\* takes nothing from what the two programs rely on.
LEMMA DataFrame ==
  ASSUME IInv, NEW r \in Readers, NEW to,
         to \notin {"upload", "mark", "post", "release", "succeeded"},
         to = "exit" => pc[r] = "release",
         pc' = [pc EXCEPT ![r] = to],
         UNCHANGED <<shm, out, last_num_bytes, loaded, not_time_to_die, peer>>
  PROVE  /\ OutputIsPrefix'
         /\ \A q \in Readers : ReaderData(q)'
         /\ \A w \in Writers : WriterData(w)'
<1>1. \A q \in Procs : pc'[q] = (IF q = r THEN to ELSE pc[q]) BY DEF IInv, TypeOK
<1>2. OutputIsPrefix' BY DEF IInv, OutputIsPrefix
<1>3. \A q \in Readers : ReaderData(q)' BY <1>1 DEF IInv, ReaderData, Procs
<1>4. \A w \in Writers : WriterData(w)' BY WriterFrame
<1> QED BY <1>2, <1>3, <1>4

LEMMA ReaderGetMutexInv ==
  ASSUME IInv, TypeOK', NEW r \in Readers, ReaderGetMutex(r) PROVE IInv'
<1>1. /\ pc[r] = "mutex" /\ pc' = [pc EXCEPT ![r] = "setfull"]
      /\ \A q \in Procs : pc'[q] = (IF q = r THEN "setfull" ELSE pc[q])
  BY MoveFacts DEF ReaderGetMutex, Procs, IInv
<1>2. UNCHANGED <<shm, out, last_num_bytes, loaded, not_time_to_die, peer>>
  BY DEF ReaderGetMutex
<1>3. /\ \A p \in Procs : ~ Attached(p)
      /\ sem[SEM_HAVE_READER] = 0 /\ sem[SEM_HAVE_WRITER] = 0
      /\ sem[SEM_CONNECT] = 0 /\ sem[SEM_ALIVE] = 0
  BY Idle DEF ReaderGetMutex
<1>4. /\ sem'[SEM_HAVE_READER] = 1 /\ sem'[SEM_ALIVE] = 1
      /\ sem'[SEM_HAVE_WRITER] = 0 /\ sem'[SEM_CONNECT] = 0
  BY <1>3 DEF ReaderGetMutex, IInv, TypeOK, Sems, SEM_HAVE_READER, SEM_ALIVE,
              SEM_HAVE_WRITER, SEM_CONNECT
<1>5. /\ \A p \in Procs : p # r => undo'[p] = undo[p]
      /\ undo'[r][SEM_HAVE_READER] = undo[r][SEM_HAVE_READER] - 1
      /\ undo'[r][SEM_ALIVE] = undo[r][SEM_ALIVE] - 1
      /\ undo'[r][SEM_HAVE_WRITER] = undo[r][SEM_HAVE_WRITER]
      /\ undo'[r][SEM_CONNECT] = undo[r][SEM_CONNECT]
      /\ undo'[r][SEM_FULL] = undo[r][SEM_FULL]
  BY DEF ReaderGetMutex, IInv, TypeOK, Procs, Sems, SEM_HAVE_READER, SEM_ALIVE,
         SEM_HAVE_WRITER, SEM_CONNECT, SEM_FULL
<1>6. /\ \A p \in Procs : Attached(p)' <=> p = r
      /\ \A p \in Procs : ~ Connected(p) /\ ~ Connected(p)'
  BY <1>1, <1>3 DEF Attached, Connected, Ended, Procs
<1>7. Registered' /\ Offered'
  BY <1>4, <1>6, Disjoint DEF Registered, Offered, Procs
<1>8. Peers' BY <1>1, <1>2, Disjoint DEF IInv, TypeOK, Peers
<1>9. \A q \in Readers : OwedByReader(q)'
  BY <1>3, <1>5, <1>6 DEF IInv, OwedByReader, Procs
<1>10. \A w \in Writers : OwedByWriter(w)'
  BY <1>3, <1>5, <1>6, Disjoint DEF IInv, OwedByWriter, Procs
<1>11. \A q \in Readers : Fresh(q)' /\ Offering(q)'
  BY <1>1, <1>6 DEF Fresh, Offering, Procs, Attached, Ended
<1>12. Turns' BY <1>6, Disjoint DEF Turns, Procs
<1>13. OutputIsPrefix' /\ (\A q \in Readers : ReaderData(q)')
       /\ (\A w \in Writers : WriterData(w)')
  BY <1>1, <1>2, DataFrame
<1> QED BY <1>7, <1>8, <1>9, <1>10, <1>11, <1>12, <1>13 DEF IInv

\* Before it connects, an attached reader is alone.
LEMMA Alone ==
  ASSUME IInv, NEW r \in Readers, pc[r] \in {"setfull", "setempty", "connect"}
  PROVE  /\ Attached(r) /\ ~ Connected(r) /\ peer[r] = None
         /\ \A p \in Procs : Attached(p) => p = r
         /\ \A p \in Readers : ~ Connected(p)
         /\ sem[SEM_CONNECT] = 0
<1>1. Attached(r) /\ ~ Connected(r) BY DEF Attached, Connected, Ended
<1>2. \A p \in Procs : Attached(p) => p = r BY <1>1 DEF IInv, Registered, Procs
<1>3. \A p \in Readers : ~ Connected(p) BY <1>1, <1>2 DEF Connected, Procs
<1> QED BY <1>1, <1>2, <1>3 DEF IInv, Offered, Peers

LEMMA InitFullInv ==
  ASSUME IInv, TypeOK', NEW r \in Readers, InitFull(r) PROVE IInv'
<1>1. /\ pc[r] = "setfull" /\ pc' = [pc EXCEPT ![r] = "setempty"]
      /\ \A q \in Procs : pc'[q] = (IF q = r THEN "setempty" ELSE pc[q])
  BY MoveFacts DEF InitFull, Procs, IInv
<1>2. UNCHANGED <<shm, out, last_num_bytes, loaded, not_time_to_die, peer>>
  BY DEF InitFull
<1>3. /\ sem'[SEM_FULL] = 0
      /\ sem'[SEM_HAVE_READER] = sem[SEM_HAVE_READER]
      /\ sem'[SEM_HAVE_WRITER] = sem[SEM_HAVE_WRITER]
      /\ sem'[SEM_CONNECT] = sem[SEM_CONNECT] /\ sem'[SEM_ALIVE] = sem[SEM_ALIVE]
  BY DEF InitFull, SetVal, IInv, TypeOK, Sems, SEM_HAVE_READER, SEM_ALIVE,
         SEM_HAVE_WRITER, SEM_CONNECT, SEM_FULL
<1>4. \A p \in Procs :
        /\ undo'[p][SEM_FULL] = 0
        /\ \A s \in {SEM_HAVE_READER, SEM_HAVE_WRITER, SEM_CONNECT, SEM_ALIVE, SEM_EMPTY} :
             undo'[p][s] = undo[p][s]
  BY DEF InitFull, SetVal, IInv, TypeOK, Sems, SEM_HAVE_READER, SEM_ALIVE,
         SEM_HAVE_WRITER, SEM_CONNECT, SEM_FULL, SEM_EMPTY
<1>5. \A p \in Procs : (Attached(p)' <=> Attached(p)) /\ (Connected(p)' <=> Connected(p))
  BY <1>1 DEF Attached, Connected, Ended
<1>6. Registered' /\ Offered'
  BY <1>2, <1>3, <1>5 DEF IInv, Registered, Offered, Procs
<1>7. Peers' BY <1>1, <1>2, Disjoint DEF IInv, TypeOK, Peers
<1>8. \A q \in Readers : OwedByReader(q)'
  BY <1>4, <1>5 DEF IInv, OwedByReader, Procs
<1>9. \A w \in Writers : OwedByWriter(w)'
  BY <1>4, <1>5 DEF IInv, OwedByWriter, Procs
<1>10. \A q \in Readers : Fresh(q)' /\ Offering(q)'
  BY <1>1, <1>3, <1>4, <1>5, Alone DEF Fresh, Offering, Procs, Attached, Ended
<1>11. Turns' BY <1>1, <1>5, Alone, Disjoint DEF Turns, Procs
<1>12. OutputIsPrefix' /\ (\A q \in Readers : ReaderData(q)')
       /\ (\A w \in Writers : WriterData(w)')
  BY <1>1, <1>2, DataFrame
<1> QED BY <1>6, <1>7, <1>8, <1>9, <1>10, <1>11, <1>12 DEF IInv

LEMMA InitEmptyInv ==
  ASSUME IInv, TypeOK', NEW r \in Readers, InitEmpty(r) PROVE IInv'
<1>1. /\ pc[r] = "setempty" /\ pc' = [pc EXCEPT ![r] = "connect"]
      /\ \A q \in Procs : pc'[q] = (IF q = r THEN "connect" ELSE pc[q])
  BY MoveFacts DEF InitEmpty, Procs, IInv
<1>2. UNCHANGED <<shm, out, last_num_bytes, loaded, not_time_to_die, peer>>
  BY DEF InitEmpty
<1>3. /\ sem'[SEM_EMPTY] = 1 /\ sem'[SEM_FULL] = sem[SEM_FULL]
      /\ sem'[SEM_HAVE_READER] = sem[SEM_HAVE_READER]
      /\ sem'[SEM_HAVE_WRITER] = sem[SEM_HAVE_WRITER]
      /\ sem'[SEM_CONNECT] = sem[SEM_CONNECT] /\ sem'[SEM_ALIVE] = sem[SEM_ALIVE]
  BY DEF InitEmpty, SetVal, IInv, TypeOK, Sems, SEM_HAVE_READER, SEM_ALIVE,
         SEM_HAVE_WRITER, SEM_CONNECT, SEM_FULL, SEM_EMPTY
<1>4. \A p \in Procs :
        /\ undo'[p][SEM_EMPTY] = 0
        /\ \A s \in {SEM_HAVE_READER, SEM_HAVE_WRITER, SEM_CONNECT, SEM_ALIVE, SEM_FULL} :
             undo'[p][s] = undo[p][s]
  BY DEF InitEmpty, SetVal, IInv, TypeOK, Sems, SEM_HAVE_READER, SEM_ALIVE,
         SEM_HAVE_WRITER, SEM_CONNECT, SEM_FULL, SEM_EMPTY
<1>5. \A p \in Procs : (Attached(p)' <=> Attached(p)) /\ (Connected(p)' <=> Connected(p))
  BY <1>1 DEF Attached, Connected, Ended
<1>6. Registered' /\ Offered'
  BY <1>2, <1>3, <1>5 DEF IInv, Registered, Offered, Procs
<1>7. Peers' BY <1>1, <1>2, Disjoint DEF IInv, TypeOK, Peers
<1>8. \A q \in Readers : OwedByReader(q)'
  BY <1>4, <1>5 DEF IInv, OwedByReader, Procs
<1>9. \A w \in Writers : OwedByWriter(w)'
  BY <1>4, <1>5 DEF IInv, OwedByWriter, Procs
<1>10. \A q \in Readers : Fresh(q)' /\ Offering(q)'
  <2>1. \A q \in Readers : q # r => ~ Attached(q)' /\ pc'[q] # "connect"
    BY <1>1, <1>5, Alone DEF Procs, Attached, Ended
  <2>2. Fresh(r) /\ Offering(r) /\ Attached(r) BY <1>1, Alone DEF IInv
  <2>3. Fresh(r)' BY <2>2, <1>1, <1>2, <1>4, <1>5, Disjoint DEF Fresh, Procs
  <2>4. Offering(r)' BY <2>2, <1>1, <1>3, <1>5, Alone DEF Offering, Procs
  <2> QED BY <2>1, <2>3, <2>4 DEF Fresh, Offering, Connected
<1>11. Turns' BY <1>1, <1>5, Alone, Disjoint DEF Turns, Procs
<1>12. OutputIsPrefix' /\ (\A q \in Readers : ReaderData(q)')
       /\ (\A w \in Writers : WriterData(w)')
  BY <1>1, <1>2, DataFrame
<1> QED BY <1>6, <1>7, <1>8, <1>9, <1>10, <1>11, <1>12 DEF IInv

LEMMA ConnectInv ==
  ASSUME IInv, TypeOK', NEW r \in Readers, Connect(r) PROVE IInv'
<1>1. /\ pc[r] = "connect" /\ pc' = [pc EXCEPT ![r] = "full"]
      /\ \A q \in Procs : pc'[q] = (IF q = r THEN "full" ELSE pc[q])
  BY MoveFacts DEF Connect, Procs, IInv
<1>2. UNCHANGED <<shm, out, last_num_bytes, loaded, not_time_to_die, peer>>
  BY DEF Connect
<1>3. /\ sem'[SEM_CONNECT] = 1
      /\ sem'[SEM_HAVE_READER] = sem[SEM_HAVE_READER]
      /\ sem'[SEM_HAVE_WRITER] = sem[SEM_HAVE_WRITER]
      /\ sem'[SEM_ALIVE] = sem[SEM_ALIVE]
      /\ sem'[SEM_FULL] = sem[SEM_FULL] /\ sem'[SEM_EMPTY] = sem[SEM_EMPTY]
  <2>1. sem[SEM_CONNECT] = 0 /\ sem \in [Sems -> Nat] BY <1>1, Alone DEF IInv, TypeOK
  <2>2. sem' = [sem EXCEPT ![SEM_CONNECT] = 1] BY <2>1 DEF Connect
  <2> QED
    BY <2>1, <2>2 DEF Sems, SEM_HAVE_READER, SEM_ALIVE, SEM_HAVE_WRITER, SEM_CONNECT,
                      SEM_FULL, SEM_EMPTY
<1>4. /\ \A p \in Procs : p # r => undo'[p] = undo[p]
      /\ undo'[r][SEM_CONNECT] = undo[r][SEM_CONNECT] - 1
      /\ undo'[r][SEM_HAVE_READER] = undo[r][SEM_HAVE_READER]
      /\ undo'[r][SEM_HAVE_WRITER] = undo[r][SEM_HAVE_WRITER]
      /\ undo'[r][SEM_ALIVE] = undo[r][SEM_ALIVE]
      /\ undo'[r][SEM_FULL] = undo[r][SEM_FULL]
  BY ZenonT(40) DEF Connect, IInv, TypeOK, Procs, Sems, SEM_HAVE_READER, SEM_ALIVE,
         SEM_HAVE_WRITER, SEM_CONNECT, SEM_FULL, SEM_EMPTY
<1>5. /\ \A p \in Procs : Attached(p)' <=> Attached(p)
      /\ Connected(r)' /\ \A p \in Procs : p # r => (Connected(p)' <=> Connected(p))
  BY <1>1 DEF Attached, Connected, Ended, Procs
<1>6. /\ Attached(r) /\ ~ Connected(r) /\ peer[r] = None
      /\ \A p \in Procs : Attached(p) => p = r
  BY <1>1, Alone
<1>7. Registered'
  BY <1>2, <1>3, <1>5, <1>6, Disjoint DEF IInv, Registered, Procs
<1>8. Offered' BY <1>2, <1>3, <1>5, <1>6 DEF Offered
<1>9. Peers' BY <1>1, <1>2, Disjoint DEF IInv, TypeOK, Peers
<1>10. \A q \in Readers : OwedByReader(q)'
  BY <1>4, <1>5, <1>6 DEF IInv, OwedByReader, Procs
<1>11. \A w \in Writers : OwedByWriter(w)'
  BY <1>4, <1>5, Disjoint DEF IInv, OwedByWriter, Procs
<1>12. \A q \in Readers : Fresh(q)' /\ Offering(q)'
  <2>1. \A q \in Readers : q # r => ~ Attached(q)' /\ pc'[q] # "connect"
    BY <1>1, <1>5, <1>6 DEF Procs, Attached, Ended
  <2>2. Fresh(r) /\ Offering(r) BY DEF IInv
  <2>3. Fresh(r)' BY <2>2, <1>1, <1>2, <1>4, <1>5, <1>6, Disjoint DEF Fresh, Procs
  <2>4. Offering(r)' BY <2>2, <1>1, <1>2, <1>3, <1>5, <1>6 DEF Offering, Procs
  <2> QED BY <2>1, <2>3, <2>4 DEF Fresh, Offering, Connected
<1>13. Turns' BY <1>5, <1>6, Disjoint DEF Turns, Procs
<1>14. OutputIsPrefix' /\ (\A q \in Readers : ReaderData(q)')
       /\ (\A w \in Writers : WriterData(w)')
  BY <1>1, <1>2, DataFrame
<1> QED BY <1>7, <1>8, <1>9, <1>10, <1>11, <1>12, <1>13, <1>14 DEF IInv

LEMMA ReaderReleaseInv ==
  ASSUME IInv, TypeOK', NEW r \in Readers, ReaderRelease(r) PROVE IInv'
<1>1. /\ pc[r] = "release" /\ pc' = [pc EXCEPT ![r] = "exit"]
      /\ \A q \in Procs : pc'[q] = (IF q = r THEN "exit" ELSE pc[q])
  BY MoveFacts DEF ReaderRelease, Procs, IInv
<1>2. UNCHANGED <<shm, out, last_num_bytes, loaded, not_time_to_die, peer>>
  BY DEF ReaderRelease
<1>3. /\ sem'[SEM_HAVE_READER] = sem[SEM_HAVE_READER] - 1
      /\ sem'[SEM_ALIVE] = sem[SEM_ALIVE] - 1
      /\ \A s \in {SEM_HAVE_WRITER, SEM_CONNECT, SEM_FULL, SEM_EMPTY} : sem'[s] = sem[s]
  BY DEF ReaderRelease, IInv, TypeOK, Sems, SEM_HAVE_READER, SEM_ALIVE,
         SEM_HAVE_WRITER, SEM_CONNECT, SEM_FULL, SEM_EMPTY
<1>4. /\ \A p \in Procs : p # r => undo'[p] = undo[p]
      /\ undo'[r][SEM_CONNECT] = undo[r][SEM_CONNECT] + 1
      /\ undo'[r][SEM_HAVE_READER] = undo[r][SEM_HAVE_READER] + 1
      /\ undo'[r][SEM_ALIVE] = undo[r][SEM_ALIVE] + 1
      /\ undo'[r][SEM_HAVE_WRITER] = undo[r][SEM_HAVE_WRITER]
      /\ undo'[r][SEM_FULL] = undo[r][SEM_FULL]
  BY ZenonT(40) DEF ReaderRelease, IInv, TypeOK, Procs, Sems, SEM_HAVE_READER, SEM_ALIVE,
         SEM_HAVE_WRITER, SEM_CONNECT, SEM_FULL, SEM_EMPTY
<1>5. /\ Attached(r) /\ Connected(r) /\ ~ Attached(r)' /\ ~ Connected(r)'
      /\ \A p \in Procs : p # r =>
           (Attached(p)' <=> Attached(p)) /\ (Connected(p)' <=> Connected(p))
  BY <1>1 DEF Attached, Connected, Ended, Procs
<1>6. \A q \in Readers : ~ Attached(q)' /\ ~ Connected(q)'
  BY <1>5, Mates DEF Procs, Connected
<1>7. Registered'
  BY <1>2, <1>3, <1>5, <1>6, Disjoint DEF IInv, Registered, Procs
<1>8. Offered'
  <2>1. ReaderData(r) BY DEF IInv
  <2>2. peer[r] # None BY <2>1, <1>1 DEF ReaderData
  <2>3. sem[SEM_CONNECT] = 0 BY <2>2, <1>5, Mates DEF IInv, Offered, Connected
  <2> QED BY <2>3, <1>3 DEF Offered
<1>9. Peers' BY <1>1, <1>2, Disjoint DEF IInv, TypeOK, Peers
<1>10. \A q \in Readers : OwedByReader(q)'
  BY <1>4, <1>5 DEF IInv, OwedByReader, Procs
<1>11. \A w \in Writers : OwedByWriter(w)'
  BY <1>4, <1>5, Disjoint DEF IInv, OwedByWriter, Procs
<1>12. \A q \in Readers : Fresh(q)' /\ Offering(q)'
  BY <1>6 DEF Fresh, Offering, Attached, Ended
<1>13. Turns' BY <1>6 DEF Turns
<1>14. OutputIsPrefix' /\ (\A q \in Readers : ReaderData(q)')
       /\ (\A w \in Writers : WriterData(w)')
  BY <1>1, <1>2, DataFrame
<1> QED BY <1>7, <1>8, <1>9, <1>10, <1>11, <1>12, <1>13, <1>14 DEF IInv

LEMMA WriterGetMutexInv ==
  ASSUME IInv, TypeOK', NEW w \in Writers, WriterGetMutex(w) PROVE IInv'
<1>1. /\ pc[w] = "mutex" /\ pc' = [pc EXCEPT ![w] = "empty"]
      /\ \A q \in Procs : pc'[q] = (IF q = w THEN "empty" ELSE pc[q])
  BY MoveFacts DEF WriterGetMutex, Procs, IInv
<1>2. UNCHANGED <<shm, out, last_num_bytes, loaded, not_time_to_die>>
  BY DEF WriterGetMutex
<1>3. sem[SEM_HAVE_WRITER] = 0 /\ sem[SEM_CONNECT] = 1
  BY DEF WriterGetMutex, IInv, Offered
<1>4. \A v \in Writers : ~ Attached(v) BY <1>3 DEF IInv, Registered
<1>5. PICK r \in Readers : Connected(r) /\ peer[r] = None BY <1>3 DEF IInv, Offered
<1>6. /\ Attached(r) /\ pc[r] = "full" /\ sem[SEM_FULL] = 0 /\ sem[SEM_EMPTY] = 1
      /\ \A q \in Readers : q # r => ~ Attached(q) /\ ~ Connected(q)
  <2>1. Attached(r) /\ Offering(r) BY <1>5 DEF Connected, IInv
  <2> QED BY <2>1, <1>5, Mates DEF Offering, Connected
<1>7. /\ sem'[SEM_HAVE_WRITER] = 1 /\ sem'[SEM_CONNECT] = 0
      /\ sem'[SEM_ALIVE] = sem[SEM_ALIVE] + 1
      /\ sem'[SEM_HAVE_READER] = sem[SEM_HAVE_READER]
      /\ sem'[SEM_FULL] = 0 /\ sem'[SEM_EMPTY] = 1
  <2>1. sem' = [sem EXCEPT ![SEM_HAVE_WRITER] = 1, ![SEM_CONNECT] = 0, ![SEM_ALIVE] = @ + 1]
    BY <1>3 DEF WriterGetMutex, SEM_HAVE_WRITER, SEM_CONNECT, SEM_ALIVE
  <2> QED BY <2>1, <1>6 DEF IInv, TypeOK, Sems, SEM_HAVE_READER, SEM_ALIVE,
         SEM_HAVE_WRITER, SEM_CONNECT, SEM_FULL, SEM_EMPTY
<1>8. /\ \A p \in Procs : p # w => undo'[p] = undo[p]
      /\ undo'[w][SEM_HAVE_WRITER] = undo[w][SEM_HAVE_WRITER] - 1
      /\ undo'[w][SEM_ALIVE] = undo[w][SEM_ALIVE] - 1
      /\ undo'[w][SEM_CONNECT] = undo[w][SEM_CONNECT]
      /\ undo'[w][SEM_HAVE_READER] = undo[w][SEM_HAVE_READER]
      /\ undo'[w][SEM_EMPTY] = undo[w][SEM_EMPTY]
  <2>1. undo \in [Procs -> [Sems -> Int]] /\ w \in Procs BY Disjoint DEF IInv, TypeOK, Procs
  <2>2. undo' = [undo EXCEPT ![w] = [undo[w] EXCEPT
                   ![SEM_HAVE_WRITER] = @ - 1, ![SEM_FULL] = @ + 1, ![SEM_ALIVE] = @ - 1]]
    BY <2>1 DEF WriterGetMutex, Sems, SEM_HAVE_WRITER, SEM_FULL, SEM_ALIVE
  <2> QED BY <2>1, <2>2 DEF Sems, SEM_HAVE_READER, SEM_ALIVE,
         SEM_HAVE_WRITER, SEM_CONNECT, SEM_FULL, SEM_EMPTY
<1>9. /\ peer'[r] = w
      /\ \A q \in Readers : q # r => peer'[q] = peer[q] /\ peer[q] # w
  <2>1. \A q \in Readers : peer'[q] = (IF q = r THEN w ELSE peer[q])
    BY <1>5, <1>6 DEF WriterGetMutex
  <2>2. \A q \in Readers : peer[q] # w
    BY <1>1, ProcAssumption DEF IInv, Peers, Procs
  <2> QED BY <2>1, <2>2
<1>10. /\ \A p \in Procs : Attached(p)' <=> (Attached(p) \/ p = w)
       /\ \A q \in Readers : Connected(q)' <=> Connected(q)
       /\ \A q \in Readers : pc'[q] = pc[q]
  BY <1>1, Disjoint DEF Attached, Connected, Ended, Procs
<1>11. Registered'
  <2>1. sem[SEM_HAVE_READER] = 1 /\ sem[SEM_ALIVE] = 1
    BY <1>3, <1>6 DEF IInv, Registered
  <2> QED BY <2>1, <1>4, <1>5, <1>6, <1>7, <1>9, <1>10, Disjoint DEF Registered, Procs
<1>12. Offered' BY <1>7 DEF Offered
<1>13. Peers'
  <2>1. \A q \in Readers : pc'[q] \in {"mutex", "setfull", "setempty", "connect"} => peer'[q] = None
    BY <1>6, <1>9, <1>10 DEF IInv, Peers
  <2>2. \A q \in Readers : peer'[q] # None => pc'[peer'[q]] # "mutex"
    <3>1. \A q \in Readers : peer[q] \in Writers \cup {None} BY DEF IInv, TypeOK
    <3>2. pc'[w] = "empty" BY <1>1, Disjoint DEF Procs
    <3>3. \A q \in Readers : peer[q] # None => pc'[peer[q]] # "mutex"
      BY <3>1, <1>1 DEF IInv, Peers, Procs
    <3> QED BY <3>2, <3>3, <1>9
  <2>3. \A p, q \in Readers : peer'[p] = peer'[q] /\ peer'[q] # None => p = q
    BY <1>9 DEF IInv, Peers
  <2> QED BY <2>1, <2>2, <2>3 DEF Peers
<1>14. \A q \in Readers : OwedByReader(q)'
  BY <1>8, <1>10, Disjoint DEF IInv, OwedByReader, Procs
<1>15. \A v \in Writers : OwedByWriter(v)'
  BY <1>4, <1>8, <1>10, Disjoint DEF IInv, OwedByWriter, Procs
<1>16. \A q \in Readers : Fresh(q)' /\ Offering(q)'
  <2>1. \A q \in Readers : q # r => ~ Attached(q)' /\ pc'[q] # "connect" /\ ~ Connected(q)'
    BY <1>6, <1>10, Disjoint DEF Procs, Attached, Ended
  <2>2. Fresh(r) /\ pc[r] = "full" /\ Attached(r) BY <1>6 DEF IInv
  <2>3. \A v \in Writers : v # w => undo'[v][SEM_FULL] = 0
    BY <2>2, <1>4, <1>5, <1>8, ProcAssumption DEF Fresh, Procs
  <2>4. \A q \in Readers \ {r} : undo'[q][SEM_EMPTY] = 0
    BY <2>2, <1>8, Disjoint DEF Fresh, Procs
  <2>5. Fresh(r)' BY <2>3, <2>4, <1>9 DEF Fresh
  <2>6. Offering(r)' BY <1>6, <1>9, <1>10, ProcAssumption DEF Offering, Procs
  <2> QED BY <2>1, <2>5, <2>6 DEF Fresh, Offering
<1>17. out[r] = <<>> /\ WriterData(w) /\ loaded[w] = 0 /\ not_time_to_die[w] = 1
  BY <1>1, <1>5 DEF IInv, OutputIsPrefix, WriterData
<1>18. Turns'
  <2> SUFFICES WriterTurn(r, w)'
    BY <1>4, <1>6, <1>10, Disjoint DEF Turns, Procs
  <2>1. Len(out'[r]) = 0 BY <1>2, <1>17
  <2>2. pc'[r] = "full" /\ pc'[w] = "empty" BY <1>1, <1>6, <1>10, Disjoint
  <2> QED BY <2>1, <2>2, <1>2, <1>7, <1>17, LastPositive DEF WriterTurn
<1>19. OutputIsPrefix'
  <2>1. \A q \in Readers : q # r => peer'[q] = peer[q] /\ out'[q] = out[q] BY <1>2, <1>9
  <2>2. out'[r] = Prefix(w, 0) BY <1>2, <1>17 DEF Prefix
  <2>3. Len(out'[r]) = 0 BY <1>2, <1>17
  <2> QED BY <2>1, <2>2, <2>3, <1>9, LastPositive, ProcAssumption
          DEF IInv, OutputIsPrefix, Procs
<1>20. \A q \in Readers : ReaderData(q)'
  BY <1>2, <1>6, <1>9, <1>10 DEF IInv, ReaderData
<1>21. \A v \in Writers : WriterData(v)'
  <2>1. WriterData(w)' BY <1>1, <1>2, <1>17, LastPositive, Disjoint DEF WriterData
  <2>2. ASSUME NEW v \in Writers, v # w PROVE WriterData(v)'
    <3>1. WriterData(v) /\ pc'[v] = pc[v] /\ (Attached(v)' <=> Attached(v))
      BY <2>2, <1>1, <1>10, Disjoint DEF IInv
    <3>2. (\E q \in Readers : peer[q] = v /\ Len(out[q]) = Last(v)) =>
          (\E q \in Readers : peer'[q] = v /\ Len(out'[q]) = Last(v))
      BY <1>2, <1>5, <1>9, ProcAssumption DEF Procs
    <3> QED BY <3>1, <3>2, <1>2 DEF WriterData
  <2> QED BY <2>1, <2>2
<1> QED BY <1>11, <1>12, <1>13, <1>14, <1>15, <1>16, <1>18, <1>19, <1>20, <1>21 DEF IInv

LEMMA WriterReleaseInv ==
  ASSUME IInv, TypeOK', NEW w \in Writers, WriterRelease(w) PROVE IInv'
<1>1. /\ pc[w] = "release" /\ pc' = [pc EXCEPT ![w] = "exit"]
      /\ \A q \in Procs : pc'[q] = (IF q = w THEN "exit" ELSE pc[q])
  BY MoveFacts DEF WriterRelease, Procs, IInv
<1>2. UNCHANGED <<shm, out, last_num_bytes, loaded, not_time_to_die, peer>>
  BY DEF WriterRelease
<1>3. /\ sem'[SEM_HAVE_WRITER] = sem[SEM_HAVE_WRITER] - 1
      /\ sem'[SEM_ALIVE] = sem[SEM_ALIVE] - 1
      /\ sem'[SEM_HAVE_READER] = sem[SEM_HAVE_READER]
      /\ sem'[SEM_CONNECT] = sem[SEM_CONNECT]
  BY DEF WriterRelease, IInv, TypeOK, Sems, SEM_HAVE_READER, SEM_ALIVE,
         SEM_HAVE_WRITER, SEM_CONNECT, SEM_FULL, SEM_EMPTY
<1>4. /\ \A p \in Procs : p # w => undo'[p] = undo[p]
      /\ undo'[w][SEM_HAVE_WRITER] = undo[w][SEM_HAVE_WRITER] + 1
      /\ undo'[w][SEM_ALIVE] = undo[w][SEM_ALIVE] + 1
      /\ undo'[w][SEM_CONNECT] = undo[w][SEM_CONNECT]
      /\ undo'[w][SEM_HAVE_READER] = undo[w][SEM_HAVE_READER]
      /\ undo'[w][SEM_EMPTY] = undo[w][SEM_EMPTY]
  BY ZenonT(40) DEF WriterRelease, IInv, TypeOK, Procs, Sems, SEM_HAVE_READER, SEM_ALIVE,
         SEM_HAVE_WRITER, SEM_CONNECT, SEM_FULL, SEM_EMPTY
<1>5. /\ Attached(w) /\ ~ Attached(w)'
      /\ \A p \in Procs : p # w => (Attached(p)' <=> Attached(p))
      /\ \A q \in Readers : Connected(q)' <=> Connected(q)
      /\ \A q \in Readers : pc'[q] = pc[q]
  BY <1>1, Disjoint DEF Attached, Connected, Ended, Procs
<1>6. \A v \in Writers : ~ Attached(v)' BY <1>5, WriterMates DEF Procs
<1>7. Registered' BY <1>2, <1>3, <1>5, <1>6, Disjoint DEF IInv, Registered, Procs
<1>8. Offered' BY <1>2, <1>3, <1>5 DEF IInv, Offered
<1>9. Peers' BY <1>1, <1>2, Disjoint DEF IInv, TypeOK, Peers
<1>10. \A q \in Readers : OwedByReader(q)'
  BY <1>4, <1>5, Disjoint DEF IInv, OwedByReader, Procs
<1>11. \A v \in Writers : OwedByWriter(v)'
  BY <1>4, <1>5 DEF IInv, OwedByWriter, Procs
<1>12. \A q \in Readers : Fresh(q)'
  <2> SUFFICES ASSUME NEW q \in Readers, Attached(q) PROVE Fresh(q)'
    BY <1>5, Disjoint DEF Fresh, Procs
  <2>1. Fresh(q) /\ peer[q] = w BY <1>5, WriterMates DEF IInv
  <2> QED BY <2>1, <1>2, <1>4, <1>5, Disjoint DEF Fresh, Procs
<1>13. \A q \in Readers : Offering(q)' BY <1>2, <1>5, NoOffer, Disjoint DEF Offering, Procs
<1>14. Turns' BY <1>6 DEF Turns
<1>15. OutputIsPrefix' BY <1>2 DEF IInv, OutputIsPrefix
<1>16. \A q \in Readers : ReaderData(q)' BY <1>1, <1>2, ReaderFrame DEF Inner
<1>17. \A v \in Writers : WriterData(v)'
  BY <1>1, <1>2, <1>5 DEF IInv, WriterData, Procs
<1> QED BY <1>7, <1>8, <1>9, <1>10, <1>11, <1>12, <1>13, <1>14, <1>15, <1>16, <1>17 DEF IInv

\* What a process leaves behind when it ends.
LEMMA EndFacts ==
  ASSUME IInv, NEW p \in Procs, NEW status \in Ended, End(p, status)
  PROVE  /\ \A q \in Procs : pc'[q] = (IF q = p THEN status ELSE pc[q])
         /\ \A s \in Sems : /\ sem'[s] = Clamp(sem[s] + undo[p][s])
                            /\ sem[s] \in Nat /\ undo[p][s] \in Int
                            /\ undo'[p][s] = 0
         /\ \A q \in Procs : q # p => undo'[q] = undo[q]
         /\ ~ Attached(p)' /\ ~ Connected(p)'
         /\ \A q \in Procs : q # p =>
              (Attached(q)' <=> Attached(q)) /\ (Connected(q)' <=> Connected(q))
         /\ SEM_HAVE_READER \in Sems /\ SEM_HAVE_WRITER \in Sems /\ SEM_ALIVE \in Sems
         /\ SEM_CONNECT \in Sems /\ SEM_FULL \in Sems /\ SEM_EMPTY \in Sems
<1>1. \A q \in Procs : pc'[q] = (IF q = p THEN status ELSE pc[q]) BY DEF End, IInv, TypeOK
<1>2. /\ \A s \in Sems : /\ sem'[s] = Clamp(sem[s] + undo[p][s])
                         /\ sem[s] \in Nat /\ undo[p][s] \in Int
                         /\ undo'[p][s] = 0
      /\ \A q \in Procs : q # p => undo'[q] = undo[q]
  BY DEF End, IInv, TypeOK, NoUndo
<1> QED BY <1>1, <1>2 DEF Attached, Connected, Ended, Sems

LEMMA EndReaderInv ==
  ASSUME IInv, TypeOK', NEW r \in Readers, NEW status \in Ended, End(r, status),
         status = "succeeded" => pc[r] = "exit"
  PROVE  IInv'
<1> DEFINE new(s) == Clamp(sem[s] + undo[r][s])
<1>1. /\ \A q \in Procs : pc'[q] = (IF q = r THEN status ELSE pc[q])
      /\ \A s \in Sems : sem'[s] = new(s) /\ sem[s] \in Nat /\ undo'[r][s] = 0
      /\ \A q \in Procs : q # r => undo'[q] = undo[q]
      /\ ~ Attached(r)' /\ ~ Connected(r)'
      /\ \A q \in Procs : q # r =>
           (Attached(q)' <=> Attached(q)) /\ (Connected(q)' <=> Connected(q))
      /\ SEM_HAVE_READER \in Sems /\ SEM_HAVE_WRITER \in Sems /\ SEM_ALIVE \in Sems
      /\ SEM_CONNECT \in Sems /\ SEM_FULL \in Sems /\ SEM_EMPTY \in Sems
  BY EndFacts DEF Procs
<1>2. UNCHANGED <<shm, out, last_num_bytes, loaded, not_time_to_die, peer>> BY DEF End
<1>3. OwedByReader(r) BY DEF IInv
<1>4. /\ sem'[SEM_HAVE_WRITER] = sem[SEM_HAVE_WRITER]
      /\ sem'[SEM_FULL] = sem[SEM_FULL]
  BY <1>1, <1>3 DEF OwedByReader, Clamp
<1>5. Attached(r) =>
        /\ sem'[SEM_HAVE_READER] = 0 /\ sem'[SEM_ALIVE] = sem[SEM_HAVE_WRITER]
        /\ sem'[SEM_CONNECT] = 0
        /\ \A q \in Readers : ~ Attached(q)'
  <2> SUFFICES ASSUME Attached(r)
               PROVE  /\ sem'[SEM_HAVE_READER] = 0 /\ sem'[SEM_ALIVE] = sem[SEM_HAVE_WRITER]
                      /\ sem'[SEM_CONNECT] = 0
                      /\ \A q \in Readers : ~ Attached(q)'
    OBVIOUS
  <2>1. sem[SEM_HAVE_READER] = 1 /\ sem[SEM_ALIVE] = 1 + sem[SEM_HAVE_WRITER]
    BY DEF IInv, Registered
  <2>2. sem'[SEM_HAVE_READER] = 0 /\ sem'[SEM_ALIVE] = sem[SEM_HAVE_WRITER]
    BY <2>1, <1>1, <1>3 DEF OwedByReader, Clamp
  <2>3. sem[SEM_CONNECT] = 0 \/ (sem[SEM_CONNECT] = 1 /\ Connected(r))
    BY Mates DEF IInv, Offered, Connected
  <2>4. sem'[SEM_CONNECT] = 0 BY <2>3, <1>1, <1>3 DEF OwedByReader, Clamp
  <2> QED BY <2>2, <2>4, <1>1, Mates DEF Procs
<1>6. ~ Attached(r) =>
        /\ sem'[SEM_HAVE_READER] = sem[SEM_HAVE_READER]
        /\ sem'[SEM_ALIVE] = sem[SEM_ALIVE] /\ sem'[SEM_CONNECT] = sem[SEM_CONNECT]
        /\ \A q \in Procs : Attached(q)' <=> Attached(q)
        /\ \A q \in Readers : Connected(q)' <=> Connected(q)
        /\ \A q \in Readers : Attached(q) /\ pc[q] \notin {"setfull", "setempty"} =>
             sem'[SEM_EMPTY] = sem[SEM_EMPTY]
  <2> SUFFICES ASSUME ~ Attached(r)
               PROVE  /\ sem'[SEM_HAVE_READER] = sem[SEM_HAVE_READER]
                      /\ sem'[SEM_ALIVE] = sem[SEM_ALIVE]
                      /\ sem'[SEM_CONNECT] = sem[SEM_CONNECT]
                      /\ \A q \in Procs : Attached(q)' <=> Attached(q)
                      /\ \A q \in Readers : Connected(q)' <=> Connected(q)
                      /\ \A q \in Readers :
                           Attached(q) /\ pc[q] \notin {"setfull", "setempty"} =>
                             sem'[SEM_EMPTY] = sem[SEM_EMPTY]
    OBVIOUS
  <2>1. ~ Connected(r) BY DEF Connected
  <2>2. /\ sem'[SEM_HAVE_READER] = sem[SEM_HAVE_READER]
        /\ sem'[SEM_ALIVE] = sem[SEM_ALIVE] /\ sem'[SEM_CONNECT] = sem[SEM_CONNECT]
    BY <2>1, <1>1, <1>3 DEF OwedByReader, Clamp
  <2>3. ASSUME NEW q \in Readers, Attached(q), pc[q] \notin {"setfull", "setempty"}
        PROVE  sem'[SEM_EMPTY] = sem[SEM_EMPTY]
    <3>1. undo[r][SEM_EMPTY] = 0 BY <2>3 DEF IInv, Fresh
    <3> QED BY <3>1, <1>1 DEF Clamp
  <2> QED BY <2>1, <2>2, <2>3, <1>1 DEF Procs
<1>7. Registered'
  <2>1. CASE Attached(r)
    BY <2>1, <1>1, <1>4, <1>5, Disjoint DEF IInv, Registered, Procs
  <2>2. CASE ~ Attached(r)
    BY <2>2, <1>2, <1>4, <1>6 DEF IInv, Registered, Procs
  <2> QED BY <2>1, <2>2
<1>8. Offered'
  <2>1. CASE Attached(r) BY <2>1, <1>5 DEF Offered
  <2>2. CASE ~ Attached(r) BY <2>2, <1>2, <1>6 DEF IInv, Offered
  <2> QED BY <2>1, <2>2
<1>9. Peers'
  <2>1. \A q \in Readers : pc'[q] \in {"mutex", "setfull", "setempty", "connect"} => peer'[q] = None
    BY <1>1, <1>2 DEF IInv, Peers, Ended, Procs
  <2>2. \A q \in Readers : peer'[q] # None => pc'[peer'[q]] # "mutex"
    BY <1>1, <1>2, Disjoint DEF IInv, TypeOK, Peers, Procs
  <2> QED BY <2>1, <2>2, <1>2 DEF IInv, Peers
<1>10. \A q \in Readers : OwedByReader(q)'
  BY <1>1 DEF IInv, OwedByReader, Procs
<1>11. \A w \in Writers : OwedByWriter(w)'
  BY <1>1, Disjoint DEF IInv, OwedByWriter, Procs
<1>12. \A q \in Readers : Fresh(q)'
  BY <1>1, <1>2, Disjoint DEF IInv, Fresh, Procs, Attached, Ended
<1>13. \A q \in Readers : Offering(q)'
  <2> SUFFICES ASSUME NEW q \in Readers, q # r, Attached(q) PROVE Offering(q)'
    BY <1>1 DEF Offering, Connected, Procs, Attached, Ended
  <2>1. ~ Attached(r) BY <1>1, <1>5 DEF Procs
  <2> QED BY <2>1, <1>1, <1>2, <1>4, <1>6 DEF IInv, Offering, Procs
<1>14. Turns'
  <2> SUFFICES ASSUME NEW q \in Readers, NEW w \in Writers, Attached(q)', Attached(w)'
               PROVE  (WriterTurn(q, w) \/ ReaderTurn(q, w))'
    BY DEF Turns
  <2>1. q # r /\ ~ Attached(r) BY <1>1, <1>5
  <2>2. Attached(q) /\ Attached(w) BY <2>1, <1>6 DEF Procs
  <2>3. WriterTurn(q, w) \/ ReaderTurn(q, w) BY <2>2 DEF IInv, Turns
  <2>4. Connected(q) BY <2>2 DEF IInv, Registered
  <2>5. sem'[SEM_EMPTY] = sem[SEM_EMPTY] BY <2>1, <2>2, <2>4, <1>6 DEF Connected
  <2>6. pc'[q] = pc[q] /\ pc'[w] = pc[w] BY <2>1, <1>1, Disjoint
  <2>7. WriterTurn(q, w) => WriterTurn(q, w)'
    BY <2>5, <2>6, <1>2, <1>4 DEF WriterTurn, Holds
  <2>8. ReaderTurn(q, w) => ReaderTurn(q, w)'
    BY <2>5, <2>6, <1>2, <1>4 DEF ReaderTurn, Holds
  <2> QED BY <2>3, <2>7, <2>8
<1>15. OutputIsPrefix' BY <1>2 DEF IInv, OutputIsPrefix
<1>16. \A q \in Readers : ReaderData(q)'
  BY <1>1, <1>2 DEF IInv, ReaderData, Ended, Procs
<1>17. \A w \in Writers : WriterData(w)'
  BY <1>1, <1>2, Disjoint DEF IInv, WriterData, Procs
<1> QED BY <1>7, <1>8, <1>9, <1>10, <1>11, <1>12, <1>13, <1>14, <1>15, <1>16, <1>17 DEF IInv

LEMMA EndWriterInv ==
  ASSUME IInv, TypeOK', NEW w \in Writers, NEW status \in Ended, End(w, status),
         status = "succeeded" => pc[w] = "exit"
  PROVE  IInv'
<1> DEFINE new(s) == Clamp(sem[s] + undo[w][s])
<1>1. /\ \A q \in Procs : pc'[q] = (IF q = w THEN status ELSE pc[q])
      /\ \A s \in Sems : sem'[s] = new(s) /\ sem[s] \in Nat /\ undo'[w][s] = 0
      /\ \A q \in Procs : q # w => undo'[q] = undo[q]
      /\ ~ Attached(w)'
      /\ \A q \in Procs : q # w =>
           (Attached(q)' <=> Attached(q)) /\ (Connected(q)' <=> Connected(q))
      /\ SEM_HAVE_READER \in Sems /\ SEM_HAVE_WRITER \in Sems /\ SEM_ALIVE \in Sems
      /\ SEM_CONNECT \in Sems /\ SEM_FULL \in Sems /\ SEM_EMPTY \in Sems
  BY EndFacts DEF Procs
<1>2. UNCHANGED <<shm, out, last_num_bytes, loaded, not_time_to_die, peer>> BY DEF End
<1>3. OwedByWriter(w) BY DEF IInv
<1>4. /\ sem'[SEM_HAVE_READER] = sem[SEM_HAVE_READER]
      /\ sem'[SEM_CONNECT] = sem[SEM_CONNECT] /\ sem'[SEM_EMPTY] = sem[SEM_EMPTY]
  BY <1>1, <1>3 DEF OwedByWriter, Clamp
<1>5. \A q \in Readers : /\ pc'[q] = pc[q] /\ undo'[q] = undo[q]
                        /\ (Attached(q)' <=> Attached(q))
                        /\ (Connected(q)' <=> Connected(q))
  BY <1>1, Disjoint
<1>6. Attached(w) =>
        /\ sem'[SEM_HAVE_WRITER] = 0 /\ sem'[SEM_ALIVE] = sem[SEM_HAVE_READER]
        /\ \A v \in Writers : ~ Attached(v)'
  <2> SUFFICES ASSUME Attached(w)
               PROVE  /\ sem'[SEM_HAVE_WRITER] = 0 /\ sem'[SEM_ALIVE] = sem[SEM_HAVE_READER]
                      /\ \A v \in Writers : ~ Attached(v)'
    OBVIOUS
  <2>1. sem[SEM_HAVE_WRITER] = 1 /\ sem[SEM_ALIVE] = sem[SEM_HAVE_READER] + 1
    BY DEF IInv, Registered
  <2>2. sem'[SEM_HAVE_WRITER] = 0 /\ sem'[SEM_ALIVE] = sem[SEM_HAVE_READER]
    BY <2>1, <1>1, <1>3 DEF OwedByWriter, Clamp
  <2> QED BY <2>2, <1>1, WriterMates DEF Procs
<1>7. ~ Attached(w) =>
        /\ sem'[SEM_HAVE_WRITER] = sem[SEM_HAVE_WRITER] /\ sem'[SEM_ALIVE] = sem[SEM_ALIVE]
        /\ \A v \in Writers : Attached(v)' <=> Attached(v)
  BY <1>1, <1>3 DEF OwedByWriter, Clamp, Procs
<1>8. ASSUME NEW q \in Readers, Attached(q), pc[q] # "setfull", peer[q] # w, ~ Attached(w)
      PROVE  sem'[SEM_FULL] = sem[SEM_FULL]
  <2>1. undo[w][SEM_FULL] = 0 BY <1>8 DEF IInv, Fresh
  <2> QED BY <2>1, <1>1 DEF Clamp
<1>9. Registered'
  <2>1. CASE Attached(w)
    BY <2>1, <1>4, <1>5, <1>6 DEF IInv, Registered
  <2>2. CASE ~ Attached(w)
    BY <2>2, <1>2, <1>4, <1>5, <1>7 DEF IInv, Registered
  <2> QED BY <2>1, <2>2
<1>10. Offered' BY <1>2, <1>4, <1>5 DEF IInv, Offered
<1>11. Peers'
  <2>1. \A q \in Readers : peer'[q] # None => pc'[peer'[q]] # "mutex"
    <3>1. \A q \in Readers : peer[q] \in Writers \cup {None} BY DEF IInv, TypeOK
    <3>2. \A q \in Readers : peer[q] # None => pc[peer[q]] # "mutex" BY DEF IInv, Peers
    <3>3. \A v \in Writers : pc[v] # "mutex" => pc'[v] # "mutex" BY <1>1 DEF Procs, Ended
    <3> QED BY <3>1, <3>2, <3>3, <1>2
  <2> QED BY <2>1, <1>2, <1>5 DEF IInv, Peers
<1>12. \A q \in Readers : OwedByReader(q)' BY <1>5 DEF IInv, OwedByReader
<1>13. \A v \in Writers : OwedByWriter(v)' BY <1>1 DEF IInv, OwedByWriter, Procs
<1>14. \A q \in Readers : Fresh(q)'
  BY <1>1, <1>2, <1>5 DEF IInv, Fresh, Procs
<1>15. \A q \in Readers : Offering(q)'
  <2> SUFFICES ASSUME NEW q \in Readers PROVE Offering(q)' OBVIOUS
  <2>1. CASE Attached(w)
    BY <2>1, <1>2, <1>5, NoOffer DEF Offering
  <2>2. CASE ~ Attached(w)
    <3>1. Offering(q) /\ (pc[q] \in {"setempty", "connect"} => peer[q] = None)
      BY DEF IInv, Peers
    <3>2. /\ pc[q] = "connect" => Attached(q)
          /\ Connected(q) => Attached(q) /\ pc[q] # "setfull"
      BY DEF Connected, Attached, Ended
    <3>3. pc'[q] = pc[q] /\ peer'[q] = peer[q] /\ w # None
      BY <1>2, <1>5, ProcAssumption DEF Procs
    <3>4. peer[q] = None /\ Attached(q) /\ pc[q] # "setfull" => sem'[SEM_FULL] = sem[SEM_FULL]
      BY <2>2, <3>3, <1>8
    <3> QED BY <3>1, <3>2, <3>3, <3>4, <1>4, <1>5 DEF Offering
  <2> QED BY <2>1, <2>2
<1>16. Turns'
  <2> SUFFICES ASSUME NEW q \in Readers, NEW v \in Writers, Attached(q)', Attached(v)'
               PROVE  (WriterTurn(q, v) \/ ReaderTurn(q, v))'
    BY DEF Turns
  <2>1. v # w /\ ~ Attached(w) BY <1>1, <1>6
  <2>2. Attached(q) /\ Attached(v) BY <2>1, <1>5, <1>7
  <2>3. WriterTurn(q, v) \/ ReaderTurn(q, v) BY <2>2 DEF IInv, Turns
  <2>4. Connected(q) /\ peer[q] = v BY <2>2 DEF IInv, Registered
  <2>5. sem'[SEM_FULL] = sem[SEM_FULL] BY <2>1, <2>2, <2>4, <1>8 DEF Connected
  <2>6. pc'[q] = pc[q] /\ pc'[v] = pc[v] BY <2>1, <1>1, Disjoint
  <2>7. WriterTurn(q, v) => WriterTurn(q, v)'
    BY <2>5, <2>6, <1>2, <1>4 DEF WriterTurn, Holds
  <2>8. ReaderTurn(q, v) => ReaderTurn(q, v)'
    BY <2>5, <2>6, <1>2, <1>4 DEF ReaderTurn, Holds
  <2> QED BY <2>3, <2>7, <2>8
<1>17. OutputIsPrefix' BY <1>2 DEF IInv, OutputIsPrefix
<1>18. \A q \in Readers : ReaderData(q)' BY <1>2, <1>5 DEF IInv, ReaderData
<1>19. \A v \in Writers : WriterData(v)'
  BY <1>1, <1>2 DEF IInv, WriterData, Ended, Procs
<1> QED BY <1>9, <1>10, <1>11, <1>12, <1>13, <1>14, <1>15, <1>16, <1>17, <1>18, <1>19 DEF IInv

----------------------------------------------------------------------------
(* The theorems                                                            *)

LEMMA IInvInit == ASSUME Init, TypeOK PROVE IInv
<1>1. \A p \in Procs : pc[p] = "mutex" /\ ~ Attached(p) /\ ~ Connected(p)
  BY DEF Init, Attached, Connected, Ended
<1>2. \A s \in Sems : sem[s] = 0 /\ \A p \in Procs : undo[p][s] = 0 BY DEF Init, NoUndo
<1>3. Registered /\ Offered
  BY <1>1, <1>2 DEF Registered, Offered, Procs, Sems
<1>4. Peers /\ OutputIsPrefix /\ Turns
  BY <1>1, Disjoint DEF Init, Peers, OutputIsPrefix, Turns
<1>5. \A r \in Readers : OwedByReader(r) BY <1>1, <1>2 DEF OwedByReader, Sems, Procs
<1>6. \A r \in Readers : Fresh(r) /\ Offering(r) /\ ReaderData(r)
  BY <1>1 DEF Fresh, Offering, ReaderData, Procs
<1>7. \A w \in Writers : OwedByWriter(w) BY <1>1, <1>2 DEF OwedByWriter, Sems, Procs
<1>8. \A w \in Writers : WriterData(w)
  BY <1>1, LastPositive DEF WriterData, Init, Procs
<1> QED BY <1>3, <1>4, <1>5, <1>6, <1>7, <1>8 DEF IInv

LEMMA IInvNext == ASSUME IInv, TypeOK', [Next]_vars PROVE IInv'
<1>1. ASSUME NEW r \in Readers, ReaderStep(r) PROVE IInv'
  <2>1. CASE Exit(r)
    BY <2>1, EndReaderInv DEF Exit, Ended
  <2>2. CASE ~ Exit(r)
    BY <1>1, <2>2, ReaderGetMutexInv, InitFullInv, InitEmptyInv, ConnectInv, WaitFullInv,
       CheckAliveReaderInv, UploadInv, MarkSuccessInv, PostEmptyInv, ReaderReleaseInv
       DEF ReaderStep
  <2> QED BY <2>1, <2>2
<1>2. ASSUME NEW w \in Writers, WriterStep(w) PROVE IInv'
  <2>1. CASE Exit(w)
    BY <2>1, EndWriterInv DEF Exit, Ended
  <2>2. CASE ~ Exit(w)
    BY <1>2, <2>2, WriterGetMutexInv, WaitEmptyInv, TestSuccessInv, CheckAliveWriterInv,
       LoadInv, FillHeaderInv, PostFullInv, WriterReleaseInv
       DEF WriterStep
  <2> QED BY <2>1, <2>2
<1>3. ASSUME NEW p \in Procs, Die(p) PROVE IInv'
  BY <1>3, EndReaderInv, EndWriterInv DEF Die, Procs, Ended
<1>4. CASE UNCHANGED vars
  <2> USE <1>4 DEF vars
  <2>1. \A p \in Procs : (Attached(p)' <=> Attached(p)) /\ (Connected(p)' <=> Connected(p))
    BY DEF Attached, Connected
  <2>2. Registered' /\ Offered' /\ Peers'
    BY <2>1 DEF IInv, Registered, Offered, Peers, Procs
  <2>3. \A r \in Readers : OwedByReader(r)' /\ Fresh(r)' /\ Offering(r)' /\ ReaderData(r)'
    BY <2>1 DEF IInv, OwedByReader, Fresh, Offering, ReaderData, Procs
  <2>4. \A w \in Writers : OwedByWriter(w)' /\ WriterData(w)'
    BY <2>1 DEF IInv, OwedByWriter, WriterData, Procs
  <2>5. OutputIsPrefix' BY DEF IInv, OutputIsPrefix
  <2>6. Turns' BY <2>1 DEF IInv, Turns, WriterTurn, ReaderTurn, Holds, Procs
  <2> QED BY <2>2, <2>3, <2>4, <2>5, <2>6 DEF IInv
<1> QED BY <1>1, <1>2, <1>3, <1>4 DEF Next

\* The inductive invariant holds for any number of readers and writers, any
\* files and any set of mortal processes.
THEOREM Invariance == Spec => []IInv
<1>1. Init /\ TypeOK => IInv BY IInvInit
<1>2. IInv /\ TypeOK' /\ [Next]_vars => IInv' BY IInvNext
<1> QED BY <1>1, <1>2, TypeCorrect, PTL DEF Spec

\* reader.c and writer.c never use the buffer at the same time, although no
\* mutex guards it and the kernel changes FULL and EMPTY when somebody dies.
THEOREM Exclusion == Spec => []BufferExclusion
<1>1. IInv => BufferExclusion
  <2> SUFFICES ASSUME IInv, NEW r \in Readers, NEW w \in Writers,
                      pc[r] \in {"upload", "mark"}, pc[w] \in {"test", "load", "fill"}
               PROVE  FALSE
    BY DEF BufferExclusion
  <2>1. Attached(r) /\ Attached(w) BY DEF Attached, Ended
  <2>2. WriterTurn(r, w) \/ ReaderTurn(r, w) BY <2>1, Mates
  <2> QED BY <2>2 DEF WriterTurn, ReaderTurn
<1> QED BY <1>1, Invariance, PTL

\* SEM_ALIVE, which checkAnotherProcessAlive reads, counts the attached
\* processes, of which there is at most one of each kind.
THEOREM AliveCounts == Spec => []AliveCountsPair
<1>1. IInv => AliveCountsPair BY DEF IInv, Registered, AliveCountsPair
<1> QED BY <1>1, Invariance, PTL

\* However a session ended, SEM_UNDO leaves the counters as the next one needs.
THEOREM Recovery == Spec => []SemaphoresRecover
<1>1. IInv => SemaphoresRecover
  BY DEF IInv, Registered, Offered, SemaphoresRecover, Procs, Connected
<1> QED BY <1>1, Invariance, PTL

\* A reader prints a prefix of its own writer's file, whoever dies when.
THEOREM Integrity == Spec => []OutputIsPrefix
<1>1. IInv => OutputIsPrefix BY DEF IInv
<1> QED BY <1>1, Invariance, PTL

\* A process that leaves its loop the regular way knows the file is printed.
THEOREM Success == Spec => []SuccessMeansPrinted
<1>1. IInv => SuccessMeansPrinted
  <2> SUFFICES ASSUME IInv PROVE SuccessMeansPrinted OBVIOUS
  <2>1. \A r \in Readers, w \in Writers :
          peer[r] = w /\ Len(out[r]) = Last(w) => out[r] = File(w)
    BY ProcAssumption DEF IInv, OutputIsPrefix, File, Procs
  <2>2. \A r \in Readers : pc[r] \in {"release", "exit", "succeeded"} =>
          peer[r] # None /\ out[r] = File(peer[r])
    BY <2>1 DEF IInv, TypeOK, ReaderData
  <2>3. \A w \in Writers : pc[w] \in {"release", "exit", "succeeded"} =>
          \E r \in Readers : peer[r] = w /\ out[r] = File(w)
    BY <2>1 DEF IInv, WriterData
  <2> QED BY <2>2, <2>3 DEF SuccessMeansPrinted
<1> QED BY <1>1, Invariance, PTL

\* writer.c:153 "It's need to go out in next turn of the cycle": no step fills
\* the buffer for a writer that has loaded its short block.
THEOREM ShortLast == Spec => ShortBlockIsLast
<1> DEFINE Quiet == \A w \in Writers : not_time_to_die[w] = 0 => loaded'[w] = loaded[w]
<1>1. IInv /\ [Next]_vars => [Quiet]_vars
  <2> SUFFICES ASSUME IInv, Next PROVE Quiet OBVIOUS
  <2>1. ASSUME NEW w \in Writers, Load(w) PROVE Quiet
    <3>1. not_time_to_die[w] = 1 BY <2>1 DEF IInv, WriterData, Load, Goto
    <3>2. \A v \in Writers : v # w => loaded'[v] = loaded[v] BY <2>1 DEF Load, IInv, TypeOK
    <3> QED BY <3>1, <3>2
  <2>2. CASE loaded' = loaded BY <2>2
  <2>3. loaded' = loaded \/ \E w \in Writers : Load(w)
    BY DEF Next, ReaderStep, WriterStep, ReaderGetMutex, InitFull, InitEmpty, Connect,
       WaitFull, Upload, MarkSuccess, PostEmpty, ReaderRelease, WriterGetMutex, WaitEmpty,
       TestSuccess, FillHeader, PostFull, WriterRelease, CheckAlive, Exit, Die, End
  <2> QED BY <2>1, <2>2, <2>3
<1> QED BY <1>1, Invariance, PTL DEF Spec, ShortBlockIsLast

\* The protocol of semaphores, shared memory and SEM_UNDO implements the
\* abstract FileTransfer: joining is Pair, uploading a block is Emit, ending
\* is Succeed or Fail, and every other step is invisible.
THEOREM Refinement == Spec => ImplementsFileTransfer
<1> DEFINE contents == [w \in Writers |-> File(w)]
           status   == [p \in Procs |-> IF pc[p] \in Ended THEN pc[p] ELSE "running"]
<1>1. Init => Abs!Init
  BY Disjoint DEF Init, Abs!Init, Abs!Procs, Procs, Ended
<1>2. IInv /\ IInv' /\ [Next]_vars => [Abs!Next]_(Abs!vars)
  <2> SUFFICES ASSUME IInv, IInv', [Next]_vars PROVE [Abs!Next]_(Abs!vars) OBVIOUS
  <2>1. ASSUME NEW w \in Writers, WriterGetMutex(w) PROVE Abs!Next
    <3>1. pc[w] = "mutex" /\ sem[SEM_CONNECT] = 1
      BY <2>1 DEF WriterGetMutex, Goto, IInv, Offered
    <3>2. PICK r \in Readers : Connected(r) /\ peer[r] = None BY <3>1 DEF IInv, Offered
    <3>3. \A q \in Readers : q # r => ~ Connected(q)
      BY <3>2, Mates DEF Connected
    <3>4. \A q \in Readers : peer[q] # w
      BY <3>1, ProcAssumption DEF IInv, Peers, Procs
    <3>5. peer' = [peer EXCEPT ![r] = w] BY ZenonT(40), <2>1, <3>2, <3>3 DEF WriterGetMutex, IInv, TypeOK
    <3>6. status[r] = "running" /\ status[w] = "running"
      BY <3>1, <3>2, Disjoint DEF Connected, Attached, Ended
    <3>7. status' = status /\ out' = out
      <4>1. \A p \in Procs : pc'[p] = (IF p = w THEN "empty" ELSE pc[p])
        BY <2>1, MoveFacts, Disjoint DEF WriterGetMutex, IInv, Procs
      <4> QED BY <2>1, <3>1, <4>1 DEF WriterGetMutex, Ended
    <3> QED BY <3>2, <3>4, <3>5, <3>6, <3>7 DEF Abs!Next, Abs!Pair
  <2>2. ASSUME NEW r \in Readers, Upload(r) PROVE Abs!Next
    <3> DEFINE n == Len(out[r])  w == peer[r]
    <3>1. /\ pc[r] = "upload" /\ w \in Writers /\ n \in Nat /\ n < Last(w) /\ w # None
          /\ shm.data = Block(w, n + 1).data /\ shm.byte_used = Block(w, n + 1).byte_used
      BY <2>2, ProcAssumption DEF Upload, Goto, IInv, TypeOK, ReaderData, Procs
    <3>2. Block(w, n + 1) = [data |-> shm.data, byte_used |-> shm.byte_used]
      BY <3>1 DEF Block
    <3>3. Last(w) \in Nat BY <3>1, LastPositive
    <3>4. Len(contents[w]) = Last(w) /\ contents[w][n + 1] = Block(w, n + 1)
      BY <3>1, <3>3 DEF File, Prefix
    <3>5. out' = [out EXCEPT ![r] = Append(@, contents[w][n + 1])]
      BY <2>2, <3>2, <3>4 DEF Upload
    <3>6. status[r] = "running" BY <3>1, Disjoint DEF Ended
    <3>7. status' = status /\ peer' = peer
      <4>1. \A p \in Procs : pc'[p] = (IF p = r THEN "mark" ELSE pc[p])
        BY <2>2, MoveFacts, Disjoint DEF Upload, IInv, Procs
      <4> QED BY <2>2, <3>1, <4>1 DEF Upload, Ended
    <3> HIDE DEF contents, status
    <3>8. Abs!Emit(r) BY <3>1, <3>4, <3>5, <3>6, <3>7 DEF Abs!Emit, contents, status
    <3> QED BY <3>8 DEF Abs!Next
  <2>3. ASSUME NEW p \in Procs, NEW to \in Ended, pc[p] \notin Ended, End(p, to),
               to = "succeeded" => pc[p] = "exit"
        PROVE  Abs!Next
    <3>1. status[p] = "running" BY <2>3
    <3>2. status' = [status EXCEPT ![p] = to]
      <4>1. \A q \in Procs : pc'[q] = (IF q = p THEN to ELSE pc[q])
        BY <2>3, EndFacts
      <4> QED BY <4>1
    <3>3. UNCHANGED <<out, peer>> BY <2>3 DEF End
    <3>4. CASE to = "failed"
      <4>1. Abs!Fail(p) BY <3>1, <3>2, <3>3, <3>4 DEF Abs!Fail
      <4> QED BY <4>1 DEF Abs!Next, Abs!Procs, Procs
    <3>5. CASE to = "succeeded"
      <4>1. \E r \in Readers, w \in Writers :
              p \in {r, w} /\ peer[r] = w /\ Len(out[r]) = Last(w)
        <5>1. CASE p \in Readers
          <6>1. ReaderData(p) /\ pc[p] = "exit" /\ peer[p] \in Writers \cup {None}
            BY <2>3, <3>5, <5>1 DEF IInv, TypeOK
          <6> QED BY <6>1, <5>1 DEF ReaderData
        <5>2. CASE p \in Writers
          BY <2>3, <3>5, <5>2 DEF IInv, WriterData
        <5> QED BY <5>1, <5>2 DEF Procs
      <4>2. PICK r \in Readers, w \in Writers :
              p \in {r, w} /\ peer[r] = w /\ out[r] = contents[w]
        BY <4>1, ProcAssumption DEF IInv, OutputIsPrefix, File, Procs
      <4>3. Abs!Printed(r, w) BY <4>2 DEF Abs!Printed
      <4>4. Abs!Succeed(p) BY <3>1, <3>2, <3>3, <3>5, <4>2, <4>3 DEF Abs!Succeed
      <4> QED BY <4>4 DEF Abs!Next, Abs!Procs, Procs
    <3> QED BY <3>4, <3>5 DEF Ended
  <2>4. ASSUME UNCHANGED <<out, peer>>, NEW p \in Procs, NEW from, NEW to,
               Goto(p, from, to), from \notin Ended, to \notin Ended
        PROVE  UNCHANGED Abs!vars
    <3>1. /\ pc[p] = from
          /\ \A q \in Procs : pc'[q] = (IF q = p THEN to ELSE pc[q])
      BY <2>4, MoveFacts DEF IInv
    <3>2. status' = status BY <3>1, <2>4
    <3> QED BY <3>2, <2>4 DEF Abs!vars
  <2>5. ASSUME NEW p \in Procs, Exit(p) \/ Die(p) PROVE Abs!Next
    BY <2>3, <2>5 DEF Exit, Die, Ended
  <2>6. ASSUME NEW p \in Procs, CheckAlive(p) PROVE UNCHANGED Abs!vars
    <3> DEFINE to == IF sem[SEM_ALIVE] = 1 THEN "abort"
                     ELSE IF p \in Readers THEN "upload" ELSE "load"
    <3>1. Goto(p, "check", to) /\ UNCHANGED <<out, peer>> BY <2>6 DEF CheckAlive
    <3>2. to \notin Ended BY DEF Ended
    <3> QED BY <2>4, <3>1, <3>2 DEF Ended
  <2>7. ASSUME NEW r \in Readers, ReaderStep(r) PROVE Abs!Next \/ UNCHANGED Abs!vars
    <3>1. r \in Procs BY Disjoint DEF Procs
    <3>2. CASE PostEmpty(r)
      <4>1. PICK to \in {"release", "full"} : Goto(r, "post", to)
        BY <3>2 DEF PostEmpty
      <4> QED BY <2>4, <3>1, <3>2, <4>1 DEF PostEmpty, Ended
    <3>3. CASE ReaderGetMutex(r) \/ InitFull(r) \/ InitEmpty(r) \/ Connect(r)
      BY <2>4, <3>1, <3>3 DEF ReaderGetMutex, InitFull, InitEmpty, Connect, Ended
    <3>4. CASE WaitFull(r) \/ MarkSuccess(r) \/ ReaderRelease(r)
      BY <2>4, <3>1, <3>4 DEF WaitFull, MarkSuccess, ReaderRelease, Ended
    <3> QED BY <2>2, <2>5, <2>6, <2>7, <3>1, <3>2, <3>3, <3>4 DEF ReaderStep
  <2>8. ASSUME NEW w \in Writers, WriterStep(w) PROVE Abs!Next \/ UNCHANGED Abs!vars
    <3>1. w \in Procs BY Disjoint DEF Procs
    <3>2. CASE TestSuccess(w)
      <4>1. PICK to \in {"release", "check"} : Goto(w, "test", to)
        BY <3>2 DEF TestSuccess
      <4> QED BY <2>4, <3>1, <3>2, <4>1 DEF TestSuccess, Ended
    <3>3. CASE WaitEmpty(w) \/ Load(w) \/ FillHeader(w)
      BY <2>4, <3>1, <3>3 DEF WaitEmpty, Load, FillHeader, Ended
    <3>4. CASE PostFull(w) \/ WriterRelease(w)
      BY <2>4, <3>1, <3>4 DEF PostFull, WriterRelease, Ended
    <3> QED BY <2>1, <2>5, <2>6, <2>8, <3>1, <3>2, <3>3, <3>4 DEF WriterStep
  <2>9. CASE UNCHANGED vars BY <2>9 DEF vars, Abs!vars
  <2> QED BY <2>5, <2>7, <2>8, <2>9 DEF Next
<1> QED BY <1>1, <1>2, Invariance, PTL DEF Spec, ImplementsFileTransfer, Abs!Spec
=============================================================================
