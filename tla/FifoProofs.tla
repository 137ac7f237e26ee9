----------------------------- MODULE FifoProofs -----------------------------
(***************************************************************************)
(* The safety properties of Fifo, for any number of readers and writers,   *)
(* any files and any capacity of a fifo.  The invariant says that a name is*)
(* in one place (Names), that a fifo holds what its only writer has sent   *)
(* after what its reader has printed (Stream), and how far a writer is     *)
(* with its file (Progress).                                               *)
(***************************************************************************)
EXTENDS Fifo, TLAPS

\* The reader has given away its name.
Told(r) == pc[r] \in {"waiting", "reading"} \cup Ended

Names ==
  /\ \A a, b \in 1..Len(common) : common[a] = common[b] => a = b
  /\ \A a \in 1..Len(common) : Told(common[a]) /\ \A w \in Writer : partner[w] # common[a]
  /\ \A w \in Writer : partner[w] \in Reader => Told(partner[w])
  /\ \A w, v \in Writer : partner[w] = partner[v] /\ partner[w] \in Reader => w = v

\* What r has printed and what is in its fifo are the file of w from the start.
IsStream(r, w) ==
  /\ \A k \in 1..Len(out[r]) : out[r][k] = <<w, k>>
  /\ \A k \in 1..Len(fifo[r]) : fifo[r][k] = <<w, Len(out[r]) + k>>

Stream ==
  \A r \in Reader :
    /\ (\A w \in Writer : partner[w] # r) => fifo[r] = <<>> /\ out[r] = <<>>
    /\ \A w \in Writer : partner[w] = r => IsStream(r, w)
    /\ pc[r] = "succeeded" => fifo[r] = <<>>

Sent(r) == Len(out[r]) + Len(fifo[r])

Progress ==
  \A w \in Writer :
    /\ position[w] <= Blocks[w]
    /\ pc[w] \in {"off", "opening", "opened"} => partner[w] = NoReader /\ position[w] = 0
    /\ pc[w] \in {"named", "reading", "writing"} => partner[w] \in Reader
    /\ partner[w] \in Reader =>
         /\ pc[w] = "named" => position[w] = 0 /\ Sent(partner[w]) = 0
         /\ pc[w] = "reading" => Sent(partner[w]) = position[w]
         /\ pc[w] = "writing" => Sent(partner[w]) + 1 = position[w]
         /\ pc[w] = "succeeded" => Sent(partner[w]) = Blocks[w]

IInv == TypeOK /\ Names /\ Stream /\ Progress

LEMMA Processes ==
  ASSUME TypeOK
  PROVE  /\ \A r \in Reader : r \in Process /\ r \notin Writer /\ r # NoReader
         /\ \A w \in Writer : w \in Process /\ w \notin Reader
         /\ \A r \in Reader : /\ fifo[r] \in Seq(Buffer) /\ out[r] \in Seq(Buffer)
                              /\ Len(out[r]) \in Nat /\ Len(fifo[r]) \in Nat
         /\ \A w \in Writer : position[w] \in Nat /\ Blocks[w] \in Nat
         /\ Len(common) \in Nat /\ \A a \in 1..Len(common) : common[a] \in Reader
BY ProcessAssumption, NumberAssumption DEF TypeOK, Process

LEMMA InitIInv == ASSUME Init PROVE IInv
<1>1. TypeOK
  <2>1. <<>> \in Seq(Buffer) /\ <<>> \in Seq(Reader) /\ 0 \in 0..Attempts
    BY NumberAssumption
  <2>2. pc \in [Process -> {"off"}] /\ attempt \in [Reader -> {0}]
    BY DEF Init
  <2> QED BY <2>1, <2>2 DEF Init, TypeOK
<1>2. Names
  BY ProcessAssumption DEF Init, Names
<1>3. Stream
  BY ProcessAssumption DEF Init, Stream, IsStream, Process
<1>4. Progress
  BY ProcessAssumption, NumberAssumption DEF Init, Progress, Process
<1> QED BY <1>1, <1>2, <1>3, <1>4 DEF IInv

----------------------------------------------------------------------------
(* Steps that move no name and no buffer                                   *)

ReaderGoesOn(r) ==
  /\ Told(r) => Told(r)'
  /\ pc'[r] = "succeeded" => fifo[r] = <<>>

WriterGoesOn(w) ==
  \/ pc'[w] = pc[w]
  \/ pc'[w] \in {"failed", "killed"}
  \/ pc[w] \in {"off", "opening"} /\ pc'[w] \in {"opening", "opened"}
  \/ pc[w] = "named" /\ pc'[w] = "reading"
  \/ pc[w] = "reading" /\ pc'[w] = "succeeded" /\ position[w] = Blocks[w]

LEMMA Frame ==
  ASSUME IInv, UNCHANGED <<fifo, out, partner, position>>,
         common' = common \/ common' = <<>>,
         pc' \in [Process -> {"off", "opening", "opened", "naming", "waiting", "named",
                              "reading", "writing"} \cup Ended],
         attempt' \in [Reader -> 0..Attempts],
         \A r \in Reader : ReaderGoesOn(r),
         \A w \in Writer : WriterGoesOn(w)
  PROVE  IInv'
<1> USE DEF IInv
<1>1. TypeOK'
  <2>1. common' \in Seq(Reader)
    <3>1. CASE common' = <<>>
      BY <3>1
    <3>2. CASE common' = common
      BY <3>2 DEF TypeOK
    <3> QED BY <3>1, <3>2
  <2> QED BY <2>1 DEF TypeOK
<1>2. Names'
  <2>1. \A w \in Writer : partner[w] \in Reader => Told(partner[w])'
    BY DEF Names, ReaderGoesOn, Told
  <2>2. CASE common' = common
    <3>1. \A a \in 1..Len(common) : Told(common[a])'
      BY <2>2, Processes DEF Names, ReaderGoesOn, Told
    <3> QED BY <2>1, <2>2, <3>1 DEF Names
  <2>3. CASE common' = <<>>
    BY <2>1, <2>3 DEF Names
  <2> QED BY <2>2, <2>3
<1>3. Stream'
  BY DEF Stream, IsStream, ReaderGoesOn
<1>4. Progress'
  BY DEF Progress, Sent, WriterGoesOn
<1> QED BY <1>1, <1>2, <1>3, <1>4

\* One process goes on or ends.
LEMMA OneStep ==
  ASSUME IInv, NEW p \in Process,
         NEW state \in {"opening", "opened", "naming", "reading"} \cup Ended,
         pc' = [pc EXCEPT ![p] = state], common' = common \/ common' = <<>>,
         attempt' \in [Reader -> 0..Attempts],
         UNCHANGED <<fifo, out, partner, position>>,
         p \in Reader => /\ Told(p) => state \in Ended
                         /\ state = "succeeded" => fifo[p] = <<>>,
         p \in Writer => \/ state \in {"failed", "killed"}
                         \/ pc[p] = "off" /\ state = "opening"
                         \/ pc[p] = "named" /\ state = "reading"
                         \/ pc[p] = "reading" /\ state = "succeeded" /\ position[p] = Blocks[p]
  PROVE  IInv'
<1>1. pc' \in [Process -> {"off", "opening", "opened", "naming", "waiting", "named",
                           "reading", "writing"} \cup Ended]
  BY DEF IInv, TypeOK
<1>2. \A q \in Process : pc'[q] = IF q = p THEN state ELSE pc[q]
  BY DEF IInv, TypeOK
<1>3. ASSUME NEW r \in Reader PROVE ReaderGoesOn(r)
  BY <1>2, Processes DEF ReaderGoesOn, Told, IInv, Stream
<1>4. ASSUME NEW w \in Writer PROVE WriterGoesOn(w)
  BY <1>2, Processes DEF WriterGoesOn, IInv
<1> QED BY <1>1, <1>3, <1>4, Frame

LEMMA EndsStep ==
  ASSUME IInv, NEW p \in Process, NEW state \in Ended, End(p, state),
         UNCHANGED <<fifo, readers, writers>>,
         p \in Reader => (state = "succeeded" => fifo[p] = <<>>),
         p \in Writer => \/ state \in {"failed", "killed"}
                         \/ pc[p] = "reading" /\ state = "succeeded" /\ position[p] = Blocks[p]
  PROVE  IInv'
<1>1. /\ pc' = [pc EXCEPT ![p] = state] /\ (common' = common \/ common' = <<>>)
      /\ UNCHANGED <<fifo, out, partner, position>> /\ attempt' \in [Reader -> 0..Attempts]
  BY DEF End, readers, writers, IInv, TypeOK
<1> QED BY <1>1, OneStep

LEMMA ProcessStep ==
  ASSUME IInv, NEW p \in Process, OpenCommon(p) \/ CreateFifoFails(p) \/ Die(p)
  PROVE  IInv'
<1>1. CASE CreateFifoFails(p) \/ Die(p)
  BY <1>1, EndsStep DEF CreateFifoFails, Die, Ended
<1>2. CASE OpenCommon(p)
  <2>1. /\ UNCHANGED <<common, fifo, out, partner, position>> /\ attempt' \in [Reader -> 0..Attempts]
    BY <1>2 DEF OpenCommon, readers, writers, IInv, TypeOK
  <2>2. /\ pc' \in [Process -> {"off", "opening", "opened", "naming", "waiting", "named",
                                "reading", "writing"} \cup Ended]
        /\ \A q \in Process : \/ pc'[q] = pc[q]
                              \/ pc[q] \in {"off", "opening"} /\ pc'[q] \in {"opening", "opened"}
    <3>1. pc[p] = "off" /\ pc \in [Process -> {"off", "opening", "opened", "naming", "waiting",
                                               "named", "reading", "writing"} \cup Ended]
      BY <1>2 DEF OpenCommon, IInv, TypeOK
    <3>2. CASE pc' = [q \in Process |->
                   IF q = p \/ (q \in Others(p) /\ pc[q] = "opening") THEN "opened" ELSE pc[q]]
      BY <3>1, <3>2
    <3>3. CASE pc' = [pc EXCEPT ![p] = "opening"]
      BY <3>1, <3>3
    <3> QED BY <1>2, <3>2, <3>3 DEF OpenCommon
  <2>3. ASSUME NEW r \in Reader PROVE ReaderGoesOn(r)
    BY <2>2, Processes DEF ReaderGoesOn, Told, IInv, Stream, Ended
  <2>4. ASSUME NEW w \in Writer PROVE WriterGoesOn(w)
    BY <2>2, Processes DEF WriterGoesOn, IInv
  <2> QED BY <2>1, <2>2, <2>3, <2>4, Frame
<1> QED BY <1>1, <1>2

----------------------------------------------------------------------------
(* The steps of readers                                                    *)

LEMMA ReaderPlain ==
  ASSUME IInv, NEW r \in Reader,
         \/ OpenFifo(r) \/ WriteNameKills(r) \/ NextAttempt(r) \/ GiveUp(r)
         \/ ReadAgain(r) \/ ReadEnd(r)
  PROVE  IInv'
<1>0. r \in Process /\ r \notin Writer
  BY Processes DEF IInv
<1>1. CASE OpenFifo(r)
  <2>1. attempt' \in [Reader -> 0..Attempts] /\ ~Told(r)
    BY <1>1 DEF OpenFifo, Goto, readers, Told, Ended, IInv, TypeOK
  <2> QED BY <1>0, <1>1, <2>1, OneStep DEF OpenFifo, Goto, readers, writers, Ended
<1>2. CASE WriteNameKills(r) \/ GiveUp(r) \/ ReadAgain(r) \/ ReadEnd(r)
  <2>1. PICK state \in Ended : End(r, state) /\ (state = "succeeded" => fifo[r] = <<>>)
    BY <1>2 DEF WriteNameKills, GiveUp, ReadAgain, ReadEnd, Ended
  <2> QED BY <1>0, <1>2, <2>1, EndsStep DEF WriteNameKills, GiveUp, ReadAgain, ReadEnd
<1>3. CASE NextAttempt(r)
  <2>1. attempt' \in [Reader -> 0..Attempts]
    BY <1>3, NumberAssumption DEF NextAttempt, IInv, TypeOK
  <2>2. \A q \in Reader : ReaderGoesOn(q)
    BY <1>3 DEF NextAttempt, ReaderGoesOn, Told, IInv, Stream
  <2>3. \A w \in Writer : WriterGoesOn(w)
    BY <1>3 DEF NextAttempt, WriterGoesOn
  <2>4. pc' \in [Process -> {"off", "opening", "opened", "naming", "waiting", "named",
                             "reading", "writing"} \cup Ended]
    BY <1>3 DEF NextAttempt, IInv, TypeOK
  <2> QED BY <1>3, <2>1, <2>2, <2>3, <2>4, Frame DEF NextAttempt, writers
<1> QED BY <1>1, <1>2, <1>3

LEMMA WriteNameStep ==
  ASSUME IInv, NEW r \in Reader, WriteName(r)
  PROVE  IInv'
<1> USE DEF IInv
<1>0. /\ r \in Process /\ r \notin Writer /\ ~Told(r) /\ pc[r] = "naming"
      /\ \A q \in Process : pc'[q] = IF q = r THEN "waiting" ELSE pc[q]
      /\ common' = Append(common, r)
      /\ UNCHANGED <<fifo, out, attempt, partner, position>>
  BY Processes DEF WriteName, Goto, Told, Ended, readers, writers, TypeOK
<1>1. TypeOK'
  BY <1>0 DEF WriteName, Goto, TypeOK
<1>2. Names'
  <2>1. \A q \in Reader : Told(q) => Told(q)'
    BY <1>0, Processes DEF Told
  <2>2. /\ Len(common) \in Nat /\ Len(common') = Len(common) + 1 /\ common'[Len(common')] = r
        /\ \A a \in 1..Len(common) : common'[a] = common[a] /\ common[a] \in Reader
    BY <1>0, Processes DEF TypeOK
  <2>3. \A a \in 1..Len(common') : a \in 1..Len(common) \/ a = Len(common')
    BY <2>2
  <2>4. /\ \A a \in 1..Len(common) : common[a] # r
        /\ \A w \in Writer : partner[w] # r
    BY <1>0 DEF Names
  <2>5. \A a, b \in 1..Len(common') : common'[a] = common'[b] => a = b
    BY <2>2, <2>3, <2>4 DEF Names
  <2>6. Told(r)'
    BY <1>0 DEF Told
  <2>7. \A a \in 1..Len(common') :
          Told(common[a])' /\ \A w \in Writer : partner'[w] # common'[a]
    <3> TAKE a \in 1..Len(common')
    <3>1. CASE a \in 1..Len(common)
      <4>1. Told(common[a]) /\ \A w \in Writer : partner[w] # common[a]
        BY <3>1 DEF Names
      <4>2. common'[a] = common[a] /\ common[a] \in Reader
        BY <3>1, <2>2
      <4>3. common[a] \in Process /\ common[a] # r
        BY <4>2, <3>1, <2>4, Processes
      <4>4. pc'[common'[a]] = pc[common[a]]
        BY <4>2, <4>3, <1>0
      <4> QED BY <4>1, <4>2, <4>4, <1>0 DEF Told
    <3>2. CASE a = Len(common')
      BY <3>2, <2>2, <2>4, <1>0 DEF Told
    <3> QED BY <3>1, <3>2, <2>3
  <2>8. \A w \in Writer : partner[w] \in Reader => Told(partner[w])
    BY DEF Names
  <2>9. \A w \in Writer : partner'[w] \in Reader => Told(partner[w])'
    BY <2>1, <2>8, <1>0 DEF Told
  <2>10. \A w, v \in Writer : partner'[w] = partner'[v] /\ partner'[w] \in Reader => w = v
    BY <1>0 DEF Names
  <2> QED BY <2>5, <2>7, <2>9, <2>10 DEF Names
<1>3. Stream'
  BY <1>0, Processes DEF Stream, IsStream
<1>4. Progress'
  <2>1. \A w \in Writer : pc'[w] = pc[w]
    BY <1>0, Processes
  <2> QED BY <1>0, <2>1 DEF Progress, Sent
<1> QED BY <1>1, <1>2, <1>3, <1>4

\* A buffer goes from the fifo of r to its output.
LEMMA PrintStep ==
  ASSUME IInv, NEW r \in Reader, PrintBuffer(r), NEW state \in {"reading", "failed"},
         Told(r), common' = common \/ common' = <<>>,
         pc' = [pc EXCEPT ![r] = state],
         UNCHANGED <<attempt, partner, position>>
  PROVE  IInv'
<1> USE DEF IInv
<1>0. /\ r \in Process /\ r \notin Writer
      /\ \A q \in Process : pc'[q] = IF q = r THEN state ELSE pc[q]
      /\ \A w \in Writer : pc'[w] = pc[w]
  BY Processes DEF TypeOK
<1>f. /\ fifo[r] \in Seq(Buffer) /\ out[r] \in Seq(Buffer) /\ fifo[r] # <<>>
      /\ Len(fifo[r]) \in Nat /\ Len(fifo[r]) > 0 /\ Len(out[r]) \in Nat
  BY Processes DEF PrintBuffer
<1>o. /\ fifo' \in [Reader -> Seq(Buffer)] /\ out' \in [Reader -> Seq(Buffer)]
      /\ \A q \in Reader : q # r => fifo'[q] = fifo[q] /\ out'[q] = out[q]
      /\ fifo'[r] = Tail(fifo[r]) /\ out'[r] = Append(out[r], Head(fifo[r]))
  BY <1>f DEF PrintBuffer, TypeOK
<1>t. /\ Len(fifo'[r]) = Len(fifo[r]) - 1 /\ Len(out'[r]) = Len(out[r]) + 1
      /\ \A k \in 1..Len(fifo'[r]) : fifo'[r][k] = fifo[r][k + 1]
      /\ \A k \in 1..Len(out'[r]) :
           out'[r][k] = IF k = Len(out[r]) + 1 THEN fifo[r][1] ELSE out[r][k]
  BY <1>f, <1>o
<1>1. TypeOK'
  <2>1. common' \in Seq(Reader)
    <3>1. CASE common' = <<>>
      BY <3>1
    <3>2. CASE common' = common
      BY <3>2 DEF TypeOK
    <3> QED BY <3>1, <3>2
  <2> QED BY <1>o, <2>1 DEF TypeOK, Ended
<1>2. Names'
  <2>1. \A q \in Reader : pc[q] \in {"waiting", "reading"} \cup Ended
                            => pc'[q] \in {"waiting", "reading"} \cup Ended
    BY <1>0, Processes DEF Ended
  <2>2. \A w \in Writer : partner[w] \in Reader => Told(partner[w])'
    BY <2>1 DEF Names, Told
  <2>3. CASE common' = common
    <3>1. \A a \in 1..Len(common) : Told(common[a])'
      BY <2>1, <2>3, Processes DEF Names, Told, TypeOK
    <3> QED BY <2>2, <2>3, <3>1 DEF Names
  <2>4. CASE common' = <<>>
    BY <2>2, <2>4 DEF Names
  <2> QED BY <2>3, <2>4
<1>s. \A q \in Reader : q # r => (pc'[q] = pc[q])
  BY <1>0, Processes
<1>3. Stream'
  <2> SUFFICES ASSUME NEW q \in Reader
               PROVE  /\ (\A w \in Writer : partner[w] # q) => fifo'[q] = <<>> /\ out'[q] = <<>>
                      /\ \A w \in Writer : partner[w] = q => IsStream(q, w)'
                      /\ pc'[q] = "succeeded" => fifo'[q] = <<>>
    BY DEF Stream
  <2>1. CASE q # r
    <3>1. fifo'[q] = fifo[q] /\ out'[q] = out[q] /\ pc'[q] = pc[q]
      BY <2>1, <1>o, <1>s
    <3>2. /\ (\A w \in Writer : partner[w] # q) => fifo[q] = <<>> /\ out[q] = <<>>
          /\ \A w \in Writer : partner[w] = q => IsStream(q, w)
          /\ pc[q] = "succeeded" => fifo[q] = <<>>
      BY DEF Stream
    <3>3. \A w \in Writer : IsStream(q, w) => IsStream(q, w)'
      BY <3>1 DEF IsStream
    <3> QED BY <3>1, <3>2, <3>3
  <2>2. CASE q = r
    <3>1. ~ \A w \in Writer : partner[w] # r
      BY <1>f DEF Stream
    <3>2. ASSUME NEW w \in Writer, partner[w] = r PROVE IsStream(r, w)'
      <4> DEFINE n == Len(out[r])
                 m == Len(fifo[r])
                 nn == Len(out'[r])
                 mm == Len(fifo'[r])
      <4>1. /\ n \in Nat /\ m \in Nat /\ m > 0 /\ nn = n + 1 /\ mm = m - 1
            /\ \A k \in 1..mm : fifo'[r][k] = fifo[r][k + 1]
            /\ \A k \in 1..nn : out'[r][k] = IF k = n + 1 THEN fifo[r][1] ELSE out[r][k]
        BY <1>f, <1>t
      <4>2. IsStream(r, w)
        BY <3>2 DEF Stream
      <4>3. /\ \A k \in 1..n : out[r][k] = <<w, k>>
            /\ \A k \in 1..m : fifo[r][k] = <<w, n + k>>
        BY <4>2 DEF IsStream
      <4> HIDE DEF n, m, nn, mm
      <4>4. ASSUME NEW k \in 1..nn PROVE out'[r][k] = <<w, k>>
        BY <4>1, <4>3
      <4>5. ASSUME NEW k \in 1..mm PROVE fifo'[r][k] = <<w, nn + k>>
        <5>1. k + 1 \in 1..m /\ n + (k + 1) = nn + k
          BY <4>1
        <5> QED BY <4>1, <4>3, <5>1
      <4> QED BY <4>4, <4>5 DEF IsStream, nn, mm
    <3>3. pc'[r] # "succeeded"
      BY <1>0
    <3> QED BY <2>2, <3>1, <3>2, <3>3
  <2> QED BY <2>1, <2>2
<1>4. Progress'
  <2>1. Sent(r)' = Sent(r) /\ \A q \in Reader : q # r => Sent(q)' = Sent(q)
    <3> DEFINE n == Len(out[r])
               m == Len(fifo[r])
               nn == Len(out'[r])
               mm == Len(fifo'[r])
    <3>1. n \in Nat /\ m \in Nat /\ nn = n + 1 /\ mm = m - 1
      BY <1>f, <1>t
    <3> HIDE DEF n, m, nn, mm
    <3>2. nn + mm = n + m
      BY <3>1
    <3>3. Len(out'[r]) + Len(fifo'[r]) = Len(out[r]) + Len(fifo[r])
      BY <3>2 DEF n, m, nn, mm
    <3> QED BY <3>3, <1>o DEF Sent
  <2>2. \A w \in Writer : partner[w] \in Reader => Sent(partner[w])' = Sent(partner[w])
    BY <2>1
  <2> SUFFICES ASSUME NEW v \in Writer
               PROVE  /\ position'[v] <= Blocks[v]
                      /\ pc'[v] \in {"off", "opening", "opened"}
                           => partner'[v] = NoReader /\ position'[v] = 0
                      /\ pc'[v] \in {"named", "reading", "writing"} => partner'[v] \in Reader
                      /\ partner'[v] \in Reader =>
                           /\ pc'[v] = "named" => position'[v] = 0 /\ Sent(partner[v])' = 0
                           /\ pc'[v] = "reading" => Sent(partner[v])' = position'[v]
                           /\ pc'[v] = "writing" => Sent(partner[v])' + 1 = position'[v]
                           /\ pc'[v] = "succeeded" => Sent(partner[v])' = Blocks[v]
    BY DEF Progress
  <2> QED BY <1>0, <2>2 DEF Progress
<1> QED BY <1>1, <1>2, <1>3, <1>4

LEMMA ReaderPrints ==
  ASSUME IInv, NEW r \in Reader, WaitResponse(r) \/ FcntlFails(r) \/ ReadFifo(r)
  PROVE  IInv'
<1>1. CASE WaitResponse(r)
  BY <1>1, PrintStep DEF WaitResponse, Goto, Told, writers
<1>2. CASE FcntlFails(r)
  <2>1. Told(r) /\ (common' = common \/ common' = <<>>) /\ pc' = [pc EXCEPT ![r] = "failed"]
    BY <1>2 DEF FcntlFails, End, Told
  <2> QED BY <1>2, <2>1, PrintStep DEF FcntlFails, writers
<1>3. CASE ReadFifo(r)
  <2>1. Told(r) /\ pc' = [pc EXCEPT ![r] = "reading"]
    BY <1>3, Processes DEF ReadFifo, Told, IInv, TypeOK
  <2> QED BY <1>3, <2>1, PrintStep DEF ReadFifo, writers
<1> QED BY <1>1, <1>2, <1>3

----------------------------------------------------------------------------
(* The steps of writers                                                    *)

LEMMA WriterPlain ==
  ASSUME IInv, NEW w \in Writer,
         \/ ReadNameFails(w) \/ ConnectFifo(w) \/ ConnectFifoFails(w)
         \/ ReadFileEnd(w) \/ ReadFileFails(w) \/ WriteFifoFails(w) \/ WriteFifoKills(w)
  PROVE  IInv'
<1>0. w \in Process /\ w \notin Reader
  BY Processes DEF IInv
<1>1. CASE ConnectFifo(w)
  <2>1. attempt' \in [Reader -> 0..Attempts]
    BY <1>1 DEF ConnectFifo, readers, IInv, TypeOK
  <2> QED BY <1>0, <1>1, <2>1, OneStep DEF ConnectFifo, Goto, readers, writers
<1>2. CASE ReadFileEnd(w)
  BY <1>0, <1>2, EndsStep DEF ReadFileEnd, Ended
<1>3. CASE \/ ReadNameFails(w) \/ ConnectFifoFails(w) \/ ReadFileFails(w)
           \/ WriteFifoFails(w) \/ WriteFifoKills(w)
  <2>1. PICK state \in {"failed", "killed"} : End(w, state)
    BY <1>3 DEF ReadNameFails, ConnectFifoFails, ReadFileFails, WriteFifoFails, WriteFifoKills
  <2> QED BY <1>0, <1>3, <2>1, EndsStep
          DEF ReadNameFails, ConnectFifoFails, ReadFileFails, WriteFifoFails, WriteFifoKills, Ended
<1> QED BY <1>1, <1>2, <1>3

\* The name leaves the common fifo; its reader has got nothing so far.
LEMMA ReadNameStep ==
  ASSUME IInv, NEW w \in Writer, ReadName(w)
  PROVE  IInv'
<1> USE DEF IInv
<1>h. PICK r \in Reader : r = Head(common)
  BY Processes DEF ReadName, TypeOK
<1>0. /\ w \in Process /\ w \notin Reader /\ pc[w] = "opened" /\ common \in Seq(Reader)
      /\ \A q \in Process : pc'[q] = IF q = w THEN "named" ELSE pc[q]
      /\ common # <<>> /\ common' = Tail(common)
      /\ \A v \in Writer : partner'[v] = IF v = w THEN r ELSE partner[v]
      /\ UNCHANGED <<fifo, out, attempt, position>>
  BY <1>h, Processes DEF ReadName, Goto, readers, TypeOK
<1>r. /\ r \in Reader /\ r = common[1] /\ 1 \in 1..Len(common) /\ Len(common) \in Nat
      /\ Len(common') = Len(common) - 1 /\ common' \in Seq(Reader)
      /\ \A a \in 1..Len(common') : /\ common'[a] = common[a + 1] /\ a + 1 \in 1..Len(common)
                                    /\ common'[a] \in Reader
  BY <1>h, <1>0
<1>p. /\ \A q \in Reader : pc'[q] = pc[q] /\ q # NoReader
      /\ partner[w] = NoReader /\ position[w] = 0
  BY <1>0, Processes DEF Progress
<1>n. /\ Told(r) /\ \A v \in Writer : partner[v] # r
  BY <1>r DEF Names
<1>1. TypeOK'
  BY <1>0, <1>r DEF ReadName, Goto, TypeOK
<1>2. Names'
  <2>1. \A a, b \in 1..Len(common') : common'[a] = common'[b] => a = b
    <3> TAKE a, b \in 1..Len(common')
    <3> HAVE common'[a] = common'[b]
    <3>1. a + 1 = b + 1
      BY <1>r DEF Names
    <3> QED BY <3>1, <1>r
  <2>2. \A a \in 1..Len(common') :
          Told(common[a])' /\ \A v \in Writer : partner'[v] # common'[a]
    <3> TAKE a \in 1..Len(common')
    <3>1. /\ common'[a] = common[a + 1] /\ a + 1 \in 1..Len(common) /\ common'[a] \in Reader
          /\ a + 1 # 1
      BY <1>r
    <3>2. /\ Told(common[a + 1]) /\ \A v \in Writer : partner[v] # common[a + 1]
          /\ common[a + 1] # r
      BY <3>1, <1>r DEF Names
    <3> QED BY <3>1, <3>2, <1>p, <1>0 DEF Told
  <2>3. \A v \in Writer : partner'[v] \in Reader => Told(partner[v])'
    <3> TAKE v \in Writer
    <3>1. CASE v = w
      BY <3>1, <1>0, <1>n, <1>p, <1>r DEF Told
    <3>2. CASE v # w
      <4>1. partner[v] \in Reader => Told(partner[v])
        BY DEF Names
      <4> QED BY <3>2, <4>1, <1>0, <1>p DEF Told
    <3> QED BY <3>1, <3>2
  <2>4. \A u, v \in Writer : partner'[u] = partner'[v] /\ partner'[u] \in Reader => u = v
    BY <1>0, <1>n DEF Names
  <2> QED BY <2>1, <2>2, <2>3, <2>4 DEF Names
<1>3. Stream'
  <2> SUFFICES ASSUME NEW q \in Reader
               PROVE  /\ (\A v \in Writer : partner'[v] # q) => fifo'[q] = <<>> /\ out'[q] = <<>>
                      /\ \A v \in Writer : partner'[v] = q => IsStream(q, v)'
                      /\ pc'[q] = "succeeded" => fifo'[q] = <<>>
    BY DEF Stream
  <2>1. CASE q # r
    <3>1. \A v \in Writer : partner[v] = q <=> partner'[v] = q
      BY <2>1, <1>0, <1>p
    <3>2. \A v \in Writer : IsStream(q, v) => IsStream(q, v)'
      BY <1>0 DEF IsStream
    <3> QED BY <3>1, <3>2, <1>0, <1>p DEF Stream
  <2>2. CASE q = r
    <3>1. fifo[r] = <<>> /\ out[r] = <<>>
      BY <1>n, <1>r DEF Stream
    <3>2. IsStream(r, w)'
      BY <3>1, <1>0 DEF IsStream
    <3> QED BY <2>2, <3>1, <3>2, <1>0, <1>n
  <2> QED BY <2>1, <2>2
<1>4. Progress'
  <2>1. Sent(r)' = 0 /\ \A q \in Reader : Sent(q)' = Sent(q)
    <3>1. fifo[r] = <<>> /\ out[r] = <<>>
      BY <1>n, <1>r DEF Stream
    <3>2. Len(out'[r]) = 0 /\ Len(fifo'[r]) = 0
      BY <3>1, <1>0
    <3>3. Sent(r)' = 0
      BY <3>2 DEF Sent
    <3> QED BY <3>3, <1>0 DEF Sent
  <2>2. ASSUME NEW v \in Writer, v # w
        PROVE  pc'[v] = pc[v] /\ partner'[v] = partner[v]
    BY <2>2, <1>0, Processes
  <2>3. pc'[w] = "named" /\ partner'[w] = r /\ position'[w] = 0 /\ position[w] <= Blocks[w]
    BY <1>0, <1>p DEF Progress
  <2> SUFFICES ASSUME NEW v \in Writer
               PROVE  /\ position'[v] <= Blocks[v]
                      /\ pc'[v] \in {"off", "opening", "opened"}
                           => partner'[v] = NoReader /\ position'[v] = 0
                      /\ pc'[v] \in {"named", "reading", "writing"} => partner'[v] \in Reader
                      /\ partner'[v] \in Reader =>
                           /\ pc'[v] = "named" => position'[v] = 0 /\ Sent(partner[v])' = 0
                           /\ pc'[v] = "reading" => Sent(partner[v])' = position'[v]
                           /\ pc'[v] = "writing" => Sent(partner[v])' + 1 = position'[v]
                           /\ pc'[v] = "succeeded" => Sent(partner[v])' = Blocks[v]
    BY DEF Progress
  <2>4. CASE v = w
    BY <2>4, <2>1, <2>3, <1>r, <1>0 DEF Sent
  <2>5. CASE v # w
    <3>1. partner[v] \in Reader => Sent(partner[v])' = Sent(partner[v])
      BY <2>1, <2>2, <2>5, <1>0 DEF Sent
    <3> QED BY <2>5, <2>2, <3>1, <1>0 DEF Progress
  <2> QED BY <2>4, <2>5
<1> QED BY <1>1, <1>2, <1>3, <1>4

LEMMA ReadFileStep ==
  ASSUME IInv, NEW w \in Writer, ReadFile(w)
  PROVE  IInv'
<1> USE DEF IInv
<1>0. /\ w \in Process /\ pc[w] = "reading" /\ position[w] < Blocks[w]
      /\ \A q \in Process : pc'[q] = IF q = w THEN "writing" ELSE pc[q]
      /\ \A q \in Reader : pc'[q] = pc[q]
      /\ \A v \in Writer : position'[v] = IF v = w THEN position[w] + 1 ELSE position[v]
      /\ UNCHANGED <<common, fifo, out, attempt, partner>>
  BY Processes DEF ReadFile, Goto, readers, TypeOK
<1>1. TypeOK'
  BY <1>0 DEF ReadFile, Goto, TypeOK
<1>2. Names'
  <2>1. \A q \in Reader : Told(q) => Told(q)'
    BY <1>0 DEF Told
  <2>2. \A a \in 1..Len(common) : Told(common[a])'
    <3> TAKE a \in 1..Len(common)
    <3>1. common[a] \in Reader /\ Told(common[a])
      BY Processes DEF Names
    <3> QED BY <2>1, <3>1, <1>0 DEF Told
  <2>3. \A v \in Writer : partner[v] \in Reader => Told(partner[v])'
    BY <2>1, <1>0 DEF Names, Told
  <2> QED BY <2>2, <2>3, <1>0 DEF Names
<1>3. Stream'
  BY <1>0 DEF Stream, IsStream
<1>4. Progress'
  <2>1. partner[w] \in Reader /\ Sent(partner[w]) = position[w]
    BY <1>0 DEF Progress
  <2>2. position[w] + 1 <= Blocks[w]
    BY <1>0, Processes
  <2>3. \A v \in Writer : partner[v] \in Reader => Sent(partner[v])' = Sent(partner[v])
    BY <1>0 DEF Sent
  <2>4. \A v \in Writer : v # w => pc'[v] = pc[v] /\ position'[v] = position[v]
    BY <1>0, Processes
  <2>5. pc'[w] = "writing" /\ position'[w] = position[w] + 1
    BY <1>0
  <2> SUFFICES ASSUME NEW v \in Writer
               PROVE  /\ position'[v] <= Blocks[v]
                      /\ pc'[v] \in {"off", "opening", "opened"}
                           => partner'[v] = NoReader /\ position'[v] = 0
                      /\ pc'[v] \in {"named", "reading", "writing"} => partner'[v] \in Reader
                      /\ partner'[v] \in Reader =>
                           /\ pc'[v] = "named" => position'[v] = 0 /\ Sent(partner[v])' = 0
                           /\ pc'[v] = "reading" => Sent(partner[v])' = position'[v]
                           /\ pc'[v] = "writing" => Sent(partner[v])' + 1 = position'[v]
                           /\ pc'[v] = "succeeded" => Sent(partner[v])' = Blocks[v]
    BY DEF Progress
  <2>6. CASE v = w
    BY <2>6, <2>1, <2>2, <2>3, <2>5, <1>0
  <2>7. CASE v # w
    BY <2>7, <2>3, <2>4, <1>0 DEF Progress
  <2> QED BY <2>6, <2>7
<1> QED BY <1>1, <1>2, <1>3, <1>4

LEMMA WriteFifoStep ==
  ASSUME IInv, NEW w \in Writer, WriteFifo(w)
  PROVE  IInv'
<1> USE DEF IInv
<1>h. PICK r \in Reader : r = partner[w]
  BY DEF WriteFifo, Listens
<1>0. /\ w \in Process /\ pc[w] = "writing"
      /\ \A q \in Process : pc'[q] = IF q = w THEN "reading" ELSE pc[q]
      /\ \A q \in Reader : pc'[q] = pc[q]
      /\ pc[r] \in {"naming", "waiting", "reading"}
      /\ UNCHANGED <<common, out, attempt, partner, position>>
  BY <1>h, Processes DEF WriteFifo, Goto, Listens, readers, writers, TypeOK
<1>b. /\ Sent(r) + 1 = position[w] /\ \A v \in Writer : partner[v] = r => v = w
      /\ <<w, position[w]>> \in Buffer
  BY <1>0, <1>h, Processes DEF Progress, Names, Buffer
<1>f. /\ fifo[r] \in Seq(Buffer) /\ Len(fifo[r]) \in Nat /\ Len(out[r]) \in Nat
      /\ position[w] \in Nat
  BY Processes
<1>o. /\ fifo' \in [Reader -> Seq(Buffer)]
      /\ \A q \in Reader : q # r => fifo'[q] = fifo[q]
      /\ fifo'[r] = Append(fifo[r], <<w, position[w]>>)
  BY <1>h, <1>b, <1>f DEF WriteFifo, TypeOK
<1>t. /\ Len(fifo'[r]) = Len(fifo[r]) + 1
      /\ \A k \in 1..Len(fifo'[r]) :
           fifo'[r][k] = IF k = Len(fifo[r]) + 1 THEN <<w, position[w]>> ELSE fifo[r][k]
  BY <1>f, <1>o
<1>1. TypeOK'
  BY <1>0, <1>o DEF WriteFifo, Goto, TypeOK
<1>2. Names'
  <2>1. \A q \in Reader : Told(q) => Told(q)'
    BY <1>0 DEF Told
  <2>2. \A a \in 1..Len(common) : Told(common[a])'
    <3> TAKE a \in 1..Len(common)
    <3>1. common[a] \in Reader /\ Told(common[a])
      BY Processes DEF Names
    <3> QED BY <2>1, <3>1, <1>0 DEF Told
  <2>3. \A v \in Writer : partner[v] \in Reader => Told(partner[v])'
    BY <2>1, <1>0 DEF Names, Told
  <2> QED BY <2>2, <2>3, <1>0 DEF Names
<1>3. Stream'
  <2> SUFFICES ASSUME NEW q \in Reader
               PROVE  /\ (\A v \in Writer : partner'[v] # q) => fifo'[q] = <<>> /\ out'[q] = <<>>
                      /\ \A v \in Writer : partner'[v] = q => IsStream(q, v)'
                      /\ pc'[q] = "succeeded" => fifo'[q] = <<>>
    BY DEF Stream
  <2>1. CASE q # r
    <3>1. fifo'[q] = fifo[q] /\ out'[q] = out[q] /\ pc'[q] = pc[q] /\ partner' = partner
      BY <2>1, <1>o, <1>0
    <3>2. \A v \in Writer : IsStream(q, v) => IsStream(q, v)'
      BY <3>1 DEF IsStream
    <3> QED BY <3>1, <3>2 DEF Stream
  <2>2. CASE q = r
    <3> DEFINE n == Len(out[r])
               m == Len(fifo[r])
               mm == Len(fifo'[r])
    <3>1. IsStream(r, w)
      BY <1>h DEF Stream
    <3>2. /\ n \in Nat /\ m \in Nat /\ mm = m + 1 /\ n + m + 1 = position[w]
          /\ \A k \in 1..mm :
               fifo'[r][k] = IF k = m + 1 THEN <<w, position[w]>> ELSE fifo[r][k]
          /\ \A k \in 1..m : fifo[r][k] = <<w, n + k>>
          /\ \A k \in 1..n : out[r][k] = <<w, k>>
      BY <1>f, <1>t, <1>b, <3>1 DEF Sent, IsStream
    <3> HIDE DEF n, m, mm
    <3>3. ASSUME NEW k \in 1..mm PROVE fifo'[r][k] = <<w, n + k>>
      BY <3>2
    <3>4. \A k \in 1..Len(out'[r]) : out'[r][k] = <<w, k>>
      BY <3>2, <1>0 DEF n
    <3>5. \A k \in 1..Len(fifo'[r]) : fifo'[r][k] = <<w, Len(out'[r]) + k>>
      BY <3>3, <1>0 DEF n, mm
    <3>6. IsStream(r, w)'
      BY <3>4, <3>5 DEF IsStream
    <3> QED BY <2>2, <3>6, <1>h, <1>b, <1>0
  <2> QED BY <2>1, <2>2
<1>4. Progress'
  <2>1. Len(fifo'[r]) = Len(fifo[r]) + 1 /\ Len(out'[r]) = Len(out[r])
    BY <1>t, <1>0
  <2>2. Len(out[r]) + Len(fifo[r]) + 1 = position[w]
    BY <1>b DEF Sent
  <2>3. Sent(r)' = position[w]
    <3> DEFINE n == Len(out[r])
               m == Len(fifo[r])
               mm == Len(fifo'[r])
    <3>1. n \in Nat /\ m \in Nat /\ mm = m + 1 /\ n + m + 1 = position[w]
      BY <2>1, <2>2, <1>f
    <3> HIDE DEF n, m, mm
    <3>2. n + mm = position[w]
      BY <3>1
    <3> QED BY <2>1, <3>2 DEF Sent, n, mm
  <2>4. ASSUME NEW v \in Writer, v # w, partner[v] \in Reader
        PROVE  Sent(partner[v])' = Sent(partner[v])
    BY <2>4, <1>h, <1>b, <1>o, <1>0 DEF Sent
  <2>5. ASSUME NEW v \in Writer, v # w PROVE pc'[v] = pc[v]
    BY <2>5, <1>0, Processes
  <2>6. pc'[w] = "reading" /\ partner'[w] = r /\ position'[w] = position[w]
    BY <1>0, <1>h
  <2> SUFFICES ASSUME NEW v \in Writer
               PROVE  /\ position'[v] <= Blocks[v]
                      /\ pc'[v] \in {"off", "opening", "opened"}
                           => partner'[v] = NoReader /\ position'[v] = 0
                      /\ pc'[v] \in {"named", "reading", "writing"} => partner'[v] \in Reader
                      /\ partner'[v] \in Reader =>
                           /\ pc'[v] = "named" => position'[v] = 0 /\ Sent(partner[v])' = 0
                           /\ pc'[v] = "reading" => Sent(partner[v])' = position'[v]
                           /\ pc'[v] = "writing" => Sent(partner[v])' + 1 = position'[v]
                           /\ pc'[v] = "succeeded" => Sent(partner[v])' = Blocks[v]
    BY DEF Progress
  <2>7. CASE v = w
    BY <2>7, <2>3, <2>6, <1>0, <1>h DEF Progress, Sent
  <2>8. CASE v # w
    <3>1. partner[v] \in Reader => Sent(partner[v])' = Sent(partner[v])
      BY <2>4, <2>8
    <3> QED BY <2>5, <2>8, <3>1, <1>0 DEF Progress
  <2> QED BY <2>7, <2>8
<1> QED BY <1>1, <1>2, <1>3, <1>4

----------------------------------------------------------------------------
(* The properties                                                          *)

LEMMA StepIInv == ASSUME IInv, [Next]_vars PROVE IInv'
<1>1. CASE UNCHANGED vars
  BY <1>1 DEF vars, readers, writers, IInv, TypeOK, Names, Told, Stream, IsStream, Progress, Sent
<1>2. ASSUME NEW p \in Process, OpenCommon(p) \/ CreateFifoFails(p) \/ Die(p) PROVE IInv'
  BY <1>2, ProcessStep
<1>3. ASSUME NEW r \in Reader, ReaderStep(r) PROVE IInv'
  BY <1>3, ReaderPlain, WriteNameStep, ReaderPrints DEF ReaderStep
<1>4. ASSUME NEW w \in Writer, WriterStep(w) PROVE IInv'
  BY <1>4, WriterPlain, ReadNameStep, ReadFileStep, WriteFifoStep DEF WriterStep
<1> QED BY <1>1, <1>2, <1>3, <1>4 DEF Next

LEMMA Invariance == Spec => []IInv
BY InitIInv, StepIInv, PTL DEF Spec

\* Every variable of the two programs and of the fifos keeps to its set.
THEOREM TypeCorrect == Spec => []TypeOK
<1>1. IInv => TypeOK
  BY DEF IInv
<1> QED BY <1>1, Invariance, PTL

LEMMA Extensional ==
  ASSUME NEW S, NEW s \in Seq(S), NEW w, \A k \in 1..Len(s) : s[k] = <<w, k>>
  PROVE  s = FilePrefix(w, Len(s))
<1>1. s = [k \in 1..Len(s) |-> s[k]]
  OBVIOUS
<1>2. [k \in 1..Len(s) |-> s[k]] = [k \in 1..Len(s) |-> <<w, k>>]
  OBVIOUS
<1> QED BY <1>1, <1>2 DEF FilePrefix

\* What a reader has printed is the beginning of the file of the one writer
\* that has read its name.
THEOREM PrefixIsPrinted == Spec => []OutputIsPrefix
<1>1. ASSUME IInv PROVE OutputIsPrefix
  <2> SUFFICES ASSUME NEW r \in Reader, out[r] # <<>>
               PROVE  \E w \in Writer : partner[w] = r /\ out[r] = FilePrefix(w, Len(out[r]))
    BY DEF OutputIsPrefix
  <2>1. PICK w \in Writer : partner[w] = r
    BY <1>1 DEF IInv, Stream
  <2>2. \A k \in 1..Len(out[r]) : out[r][k] = <<w, k>>
    BY <1>1, <2>1 DEF IInv, Stream, IsStream
  <2>3. out[r] \in Seq(Buffer)
    BY <1>1, Processes DEF IInv
  <2>4. out[r] = FilePrefix(w, Len(out[r]))
    BY <2>2, <2>3, Extensional
  <2> QED BY <2>1, <2>4
<1> QED BY <1>1, Invariance, PTL

\* A reader and its writer that both end with success have moved all of the
\* file: the fifo is empty and the writer was at the end of its file.
THEOREM WholeWhenBothSucceed == Spec => []BothMeansWhole
<1>1. ASSUME IInv PROVE BothMeansWhole
  <2> SUFFICES ASSUME NEW w \in Writer, NEW r \in Reader, partner[w] = r,
                      pc[w] = "succeeded", pc[r] = "succeeded"
               PROVE  out[r] = FilePrefix(w, Blocks[w])
    BY DEF BothMeansWhole
  <2>1. fifo[r] = <<>> /\ IsStream(r, w) /\ Sent(r) = Blocks[w]
    BY <1>1 DEF IInv, Stream, Progress, Sent
  <2>2. out[r] \in Seq(Buffer) /\ Len(out[r]) \in Nat
    BY <1>1, Processes DEF IInv
  <2>3. Len(out[r]) = Blocks[w]
    BY <2>1, <2>2 DEF Sent
  <2> QED BY <2>1, <2>2, <2>3, Extensional DEF IsStream
<1> QED BY <1>1, Invariance, PTL

\* The fifo of a reader whose name is under way has the reader at its other
\* end, or the reader has ended.
THEOREM NameIsAnswered == Spec => []NameMeansListening
<1>1. ASSUME IInv PROVE NameMeansListening
  <2> SUFFICES ASSUME NEW r \in Reader,
                      (\E k \in 1..Len(common) : common[k] = r) \/ (\E w \in Writer : partner[w] = r)
               PROVE  Listens(r) \/ pc[r] \in Ended
    BY DEF NameMeansListening
  <2>1. Told(r)
    BY <1>1 DEF IInv, Names
  <2> QED BY <2>1 DEF Told, Listens
<1> QED BY <1>1, Invariance, PTL
----------------------------------------------------------------------------
(* The fifos implement the abstract transfer                               *)

\* Who reads its own fifo has got something; what only readers do, no writer does.
Phases ==
  /\ \A r \in Reader : pc[r] = "reading" => out[r] # <<>>
  /\ \A w \in Writer : pc[w] \notin {"naming", "waiting"}

LEMMA PrintFacts ==
  ASSUME TypeOK, NEW r \in Reader, PrintBuffer(r)
  PROVE  /\ out'[r] # <<>>
         /\ \A q \in Reader : q # r => out'[q] = out[q] /\ fifo'[q] = fifo[q]
         /\ out'[r] = Append(out[r], fifo[r][1])
         /\ Len(out'[r]) = Len(out[r]) + 1 /\ Len(fifo'[r]) + 1 = Len(fifo[r])
<1>1. fifo[r] \in Seq(Buffer) /\ out[r] \in Seq(Buffer) /\ fifo[r] # <<>>
  BY DEF TypeOK, PrintBuffer
<1>2. /\ out'[r] = Append(out[r], Head(fifo[r])) /\ fifo'[r] = Tail(fifo[r])
      /\ \A q \in Reader : q # r => out'[q] = out[q] /\ fifo'[q] = fifo[q]
  BY DEF TypeOK, PrintBuffer
<1>3. Head(fifo[r]) = fifo[r][1] /\ Len(Tail(fifo[r])) + 1 = Len(fifo[r])
  BY <1>1
<1>4. fifo[r][1] \in Buffer
  BY <1>1
<1>5. Len(out'[r]) = Len(out[r]) + 1 /\ out'[r] # <<>>
  BY <1>1, <1>2, <1>3, <1>4
<1> QED BY <1>2, <1>3, <1>5

LEMMA PhasesKept ==
  ASSUME TypeOK, Phases, out' = out \/ \E r \in Reader : PrintBuffer(r),
         \A w \in Writer : pc'[w] = pc[w] \/ pc'[w] \notin {"naming", "waiting"},
         \A r \in Reader : pc'[r] = pc[r] \/ pc'[r] # "reading" \/ out'[r] # <<>>
  PROVE  Phases'
<1>1. \A r \in Reader : out[r] # <<>> => out'[r] # <<>>
  BY PrintFacts
<1> QED BY <1>1 DEF Phases

LEMMA PhasesStep == ASSUME IInv, Phases, [Next]_vars PROVE Phases'
<1>1. TypeOK /\ pc = [q \in Process |-> pc[q]] /\ DOMAIN pc = Process
  BY DEF IInv, TypeOK
<1>2. CASE UNCHANGED vars
  BY <1>2 DEF vars, readers, Phases
<1>3. ASSUME NEW p \in Process, OpenCommon(p) \/ CreateFifoFails(p) \/ Die(p) PROVE Phases'
  <2>1. out' = out
    BY <1>3 DEF OpenCommon, CreateFifoFails, Die, readers
  <2>2. \A q \in Process : pc'[q] = pc[q] \/ pc'[q] \in {"opening", "opened"} \cup Ended
    BY <1>1, <1>3 DEF OpenCommon, CreateFifoFails, Die, End, Ended
  <2> QED BY <1>1, <2>1, <2>2, PhasesKept, Processes DEF Ended
<1>4. ASSUME NEW r \in Reader, ReaderStep(r) PROVE Phases'
  <2>1. \A w \in Writer : pc'[w] = pc[w]
    <3>1. \E state : pc' = [pc EXCEPT ![r] = state] \/ pc' = pc
      BY <1>4 DEF ReaderStep, OpenFifo, WriteName, WriteNameKills, WaitResponse, FcntlFails,
                  NextAttempt, GiveUp, ReadFifo, ReadAgain, ReadEnd, End, Goto
    <3> QED BY <1>1, <3>1, Processes
  <2>2. CASE WaitResponse(r) \/ FcntlFails(r) \/ ReadFifo(r)
    <3>1. PrintBuffer(r)
      BY <2>2 DEF WaitResponse, FcntlFails, ReadFifo
    <3>2. \A q \in Reader : q # r => pc'[q] = pc[q]
      BY <1>1, <2>2, Processes DEF WaitResponse, FcntlFails, ReadFifo, End, Goto
    <3> QED BY <1>1, <2>1, <3>1, <3>2, PhasesKept, PrintFacts
  <2>3. CASE ~ (WaitResponse(r) \/ FcntlFails(r) \/ ReadFifo(r))
    <3>1. out' = out
      BY <1>4, <2>3 DEF ReaderStep, OpenFifo, WriteName, WriteNameKills, NextAttempt,
                        GiveUp, ReadAgain, ReadEnd, readers
    <3>2. \A q \in Reader : pc'[q] = pc[q] \/ pc'[q] # "reading"
      BY <1>1, <1>4, <2>3, Processes DEF ReaderStep, OpenFifo, WriteName, WriteNameKills,
                        NextAttempt, GiveUp, ReadAgain, ReadEnd, End, Goto
    <3> QED BY <1>1, <2>1, <3>1, <3>2, PhasesKept
  <2> QED BY <2>2, <2>3
<1>5. ASSUME NEW w \in Writer, WriterStep(w) PROVE Phases'
  <2>1. out' = out
    BY <1>5 DEF WriterStep, ReadName, ReadNameFails, ConnectFifo, ConnectFifoFails, ReadFile,
                ReadFileEnd, ReadFileFails, WriteFifo, WriteFifoFails, WriteFifoKills, readers
  <2>2. \E state \in {"named", "reading", "writing"} \cup Ended : pc' = [pc EXCEPT ![w] = state]
    BY <1>5 DEF WriterStep, ReadName, ReadNameFails, ConnectFifo, ConnectFifoFails, ReadFile,
                ReadFileEnd, ReadFileFails, WriteFifo, WriteFifoFails, WriteFifoKills,
                End, Goto, Ended
  <2>3. /\ \A v \in Writer : pc'[v] = pc[v] \/ pc'[v] \notin {"naming", "waiting"}
        /\ \A r \in Reader : pc'[r] = pc[r]
    BY <1>1, <2>2, Processes DEF Ended
  <2> QED BY <1>1, <2>1, <2>3, PhasesKept
<1> QED BY <1>2, <1>3, <1>4, <1>5 DEF Next

AbsSent == [w \in Writer |-> Delivered(w)]
AbsStatus == [p \in Process |-> Status(p)]

\* Steps that the abstract transfer does not show, and ends without success.
LEMMA Unseen ==
  ASSUME UNCHANGED <<fifo, out, partner>>, \A p \in Process : Status(p)' = Status(p)
  PROVE  UNCHANGED Abs!vars
BY DEF Abs!vars, Delivered

LEMMA Moves ==
  ASSUME TypeOK, NEW p \in Process, NEW state, pc' = [pc EXCEPT ![p] = state],
         UNCHANGED <<fifo, out, partner>>, pc[p] \notin Ended, state \notin Ended
  PROVE  UNCHANGED Abs!vars
<1>1. \A q \in Process : Status(q)' = Status(q)
  BY DEF TypeOK, Status
<1> QED BY <1>1, Unseen

LEMMA EndStatus ==
  ASSUME TypeOK, NEW p \in Process, NEW state \in Ended, End(p, state), pc[p] \notin Ended
  PROVE  /\ AbsStatus[p] = "running"
         /\ AbsStatus' = [AbsStatus EXCEPT ![p] =
                            IF state = "succeeded" THEN "succeeded" ELSE "failed"]
<1>1. pc = [q \in Process |-> pc[q]] /\ DOMAIN pc = Process /\ pc' = [pc EXCEPT ![p] = state]
  BY DEF TypeOK, End
<1> QED BY <1>1 DEF AbsStatus, Status

LEMMA Fails ==
  ASSUME TypeOK, NEW p \in Process, NEW state \in Ended, End(p, state), pc[p] \notin Ended,
         state # "succeeded", UNCHANGED <<fifo, out, partner>>
  PROVE  Abs!Next
<1>1. Abs!Fail(p)
  BY EndStatus DEF Abs!Fail, AbsStatus, Delivered
<1> QED BY <1>1 DEF Abs!Next, Abs!Process, Process

\* A buffer that is printed is the next one of the writer's file.
LEMMA PrintMaps ==
  ASSUME IInv, NEW r \in Reader, PrintBuffer(r), UNCHANGED partner, pc[r] \notin Ended,
         NEW state \in {"reading", "failed"}, pc' = [pc EXCEPT ![r] = state]
  PROVE  Abs!Next
<1>1. TypeOK /\ fifo[r] # <<>> /\ r \in Process
  BY Processes DEF IInv, PrintBuffer
<1>2. PICK w \in Writer : partner[w] = r
  BY <1>1 DEF IInv, Stream
<1>3. /\ Len(out[r]) \in Nat /\ Len(fifo[r]) \in Nat /\ Len(out'[r]) \in Nat /\ Len(fifo'[r]) \in Nat
      /\ Len(out'[r]) = Len(out[r]) + 1 /\ Len(fifo'[r]) + 1 = Len(fifo[r])
  <2>1. fifo[r] \in Seq(Buffer) /\ out[r] \in Seq(Buffer)
    BY <1>1, Processes
  <2>2. out'[r] = Append(out[r], Head(fifo[r])) /\ fifo'[r] = Tail(fifo[r])
    BY <1>1 DEF TypeOK, PrintBuffer
  <2> QED BY <1>1, <2>1, <2>2
<1>4. fifo[r][1] = <<w, Len(out[r]) + 1>>
  BY <1>1, <1>2, <1>3 DEF IInv, Stream, IsStream
<1>5. out' = [out EXCEPT ![r] = Append(@, <<w, Len(@) + 1>>)]
  <2>1. Head(fifo[r]) = fifo[r][1]
    BY <1>1, Processes
  <2> QED BY <1>4, <2>1 DEF PrintBuffer
<1>6. ASSUME NEW v \in Writer PROVE Delivered(v)' = Delivered(v)
  <2>1. CASE partner[v] = r
    <3> DEFINE a == Len(out[r])
               b == Len(fifo[r])
               aa == Len(out'[r])
               bb == Len(fifo'[r])
    <3>1. a \in Nat /\ b \in Nat /\ aa \in Nat /\ bb \in Nat /\ aa = a + 1 /\ bb + 1 = b
      BY <1>3
    <3> HIDE DEF a, b, aa, bb
    <3>2. aa + bb = a + b
      BY <3>1
    <3> QED BY <2>1, <3>2 DEF Delivered, a, b, aa, bb
  <2>2. CASE partner[v] # r
    BY <1>1, <2>2, PrintFacts DEF Delivered
  <2> QED BY <2>1, <2>2
<1>7. AbsSent' = AbsSent /\ Len(out[r]) < AbsSent[w]
  <2> DEFINE a == Len(out[r])
             b == Len(fifo[r])
  <2>1. a \in Nat /\ b \in Nat /\ b # 0
    BY <1>3
  <2>2. AbsSent[w] = a + b
    BY <1>2 DEF AbsSent, Delivered
  <2> HIDE DEF a, b
  <2>3. a < AbsSent[w]
    BY <2>1, <2>2
  <2> QED BY <1>6, <2>3 DEF AbsSent, a
<1>8. /\ AbsStatus[r] = "running"
      /\ AbsStatus' \in {AbsStatus, [AbsStatus EXCEPT ![r] = "failed"]}
  <2>1. pc = [q \in Process |-> pc[q]] /\ DOMAIN pc = Process
    BY <1>1 DEF TypeOK
  <2>2. CASE state = "reading"
    <3>1. AbsStatus' = AbsStatus
      BY <1>1, <2>1, <2>2 DEF AbsStatus, Status, Ended
    <3> QED BY <1>1, <3>1 DEF AbsStatus, Status
  <2>3. CASE state = "failed"
    <3>1. AbsStatus' = [AbsStatus EXCEPT ![r] = "failed"]
      BY <1>1, <2>1, <2>3 DEF AbsStatus, Status, Ended
    <3> QED BY <1>1, <3>1 DEF AbsStatus, Status
  <2> QED BY <2>2, <2>3
<1>9. Abs!Emit(r, w)
  BY <1>2, <1>5, <1>7, <1>8 DEF Abs!Emit, AbsSent, AbsStatus
<1> QED BY <1>9 DEF Abs!Next

LEMMA ReaderMaps ==
  ASSUME IInv, Phases, NEW r \in Reader, ReaderStep(r)
  PROVE  Abs!Next \/ UNCHANGED Abs!vars
<1>1. TypeOK /\ r \in Process
  BY Processes DEF IInv
<1>2. CASE OpenFifo(r) \/ WriteName(r)
  BY <1>1, <1>2, Moves DEF OpenFifo, WriteName, Goto, readers, writers, Ended
<1>3. CASE NextAttempt(r)
  <2>1. \A p \in Process : Status(p)' = Status(p)
    BY <1>3 DEF NextAttempt, Status
  <2> QED BY <1>3, <2>1, Unseen DEF NextAttempt, writers
<1>4. CASE WriteNameKills(r) \/ GiveUp(r) \/ ReadAgain(r)
  <2>1. /\ \E state \in Ended : state # "succeeded" /\ End(r, state)
        /\ pc[r] \notin Ended /\ UNCHANGED <<fifo, out, partner>>
    BY <1>4 DEF WriteNameKills, GiveUp, ReadAgain, readers, writers, Ended
  <2> QED BY <1>1, <2>1, Fails
<1>5. CASE WaitResponse(r) \/ ReadFifo(r)
  <2>1. /\ PrintBuffer(r) /\ pc[r] \notin Ended /\ UNCHANGED partner
        /\ pc' = [pc EXCEPT ![r] = "reading"]
    BY <1>1, <1>5 DEF WaitResponse, ReadFifo, Goto, writers, Ended, TypeOK
  <2> QED BY <2>1, PrintMaps
<1>6. CASE FcntlFails(r)
  <2>1. /\ PrintBuffer(r) /\ pc[r] \notin Ended /\ UNCHANGED partner
        /\ pc' = [pc EXCEPT ![r] = "failed"]
    BY <1>6 DEF FcntlFails, End, writers, Ended
  <2> QED BY <2>1, PrintMaps
<1>7. CASE ReadEnd(r)
  <2>1. /\ pc[r] = "reading" /\ fifo[r] = <<>> /\ ~ Connected(r) /\ End(r, "succeeded")
        /\ UNCHANGED <<fifo, out, partner>>
    BY <1>7 DEF ReadEnd, readers, writers
  <2>2. out[r] # <<>> /\ out[r] \in Seq(Buffer) /\ Len(out[r]) \in Nat
    BY <1>1, <2>1, Processes DEF Phases
  <2>3. PICK w \in Writer : partner[w] = r
    BY <2>2 DEF IInv, Stream
  <2>4. Len(<<>>) = 0 /\ Len(out[r]) > 0
    BY <2>2
  <2>5. Delivered(w) = Len(out[r]) /\ Sent(r) > 0
    <3> DEFINE a == Len(out[r])
               b == Len(fifo[r])
    <3>1. a \in Nat /\ a > 0 /\ b = 0
      BY <2>1, <2>2, <2>4
    <3>2. Delivered(w) = a + b /\ Sent(r) = a + b
      BY <2>3 DEF Delivered, Sent
    <3> HIDE DEF a, b
    <3>3. Delivered(w) = a /\ Sent(r) > 0
      BY <3>1, <3>2
    <3> QED BY <3>3 DEF a
  <2>6. pc[w] \in Ended /\ w \in Process
    <3>1. pc[w] \notin {"off", "opening", "opened"}
      BY <2>3, ProcessAssumption DEF IInv, Progress
    <3>2. pc[w] # "named"
      BY <2>3, <2>5 DEF IInv, Progress
    <3>3. pc[w] \notin {"naming", "waiting", "reading", "writing"}
      BY <2>1, <2>3 DEF Phases, Connected
    <3>4. w \in Process
      BY <1>1, Processes
    <3> QED BY <1>1, <3>1, <3>2, <3>3, <3>4 DEF TypeOK
  <2>7. AbsStatus[w] # "running" /\ AbsSent[w] = Len(out[r]) /\ AbsSent' = AbsSent
    BY <2>1, <2>5, <2>6 DEF AbsStatus, Status, AbsSent, Delivered
  <2>8. AbsStatus[r] = "running" /\ AbsStatus' = [AbsStatus EXCEPT ![r] = "succeeded"]
    BY <1>1, <2>1, EndStatus DEF Ended
  <2>9. Abs!ReaderSucceeds(r, w)
    BY <2>1, <2>2, <2>3, <2>7, <2>8 DEF Abs!ReaderSucceeds, AbsSent, AbsStatus
  <2> QED BY <2>9 DEF Abs!Next
<1> QED BY <1>2, <1>3, <1>4, <1>5, <1>6, <1>7 DEF ReaderStep

LEMMA WriterMaps ==
  ASSUME IInv, NEW w \in Writer, WriterStep(w)
  PROVE  Abs!Next \/ UNCHANGED Abs!vars
<1>1. TypeOK /\ w \in Process /\ pc = [q \in Process |-> pc[q]] /\ DOMAIN pc = Process
  BY Processes DEF IInv, TypeOK
<1>2. CASE ConnectFifo(w) \/ ReadFile(w)
  BY <1>1, <1>2, Moves DEF ConnectFifo, ReadFile, Goto, readers, writers, Ended
<1>3. CASE \/ ReadNameFails(w) \/ ConnectFifoFails(w) \/ ReadFileFails(w)
           \/ WriteFifoFails(w) \/ WriteFifoKills(w)
  <2>1. /\ \E state \in Ended : state # "succeeded" /\ End(w, state)
        /\ pc[w] \notin Ended /\ UNCHANGED <<fifo, out, partner>>
    BY <1>3 DEF ReadNameFails, ConnectFifoFails, ReadFileFails, WriteFifoFails,
                WriteFifoKills, readers, writers, Ended
  <2> QED BY <1>1, <2>1, Fails
<1>4. CASE ReadName(w)
  <2> DEFINE r == Head(common)
  <2>1. /\ common # <<>> /\ pc[w] = "opened" /\ pc' = [pc EXCEPT ![w] = "named"]
        /\ partner' = [partner EXCEPT ![w] = r] /\ UNCHANGED <<fifo, out>>
    BY <1>4 DEF ReadName, Goto, readers
  <2>2. r = common[1] /\ 1 \in 1..Len(common) /\ r \in Reader
    BY <1>1, <2>1 DEF TypeOK
  <2>3. /\ \A v \in Writer : partner[v] # r
        /\ partner[w] = NoReader
    BY <2>1, <2>2 DEF IInv, Names, Progress
  <2>4. AbsStatus[w] = "running" /\ AbsStatus' = AbsStatus
    BY <1>1, <2>1 DEF AbsStatus, Status, Ended
  <2>5. ASSUME NEW v \in Writer PROVE Delivered(v)' = Delivered(v)
    <3>1. CASE v = w
      <4>1. fifo[r] = <<>> /\ out[r] = <<>>
        BY <2>2, <2>3 DEF IInv, Stream
      <4>2. Len(<<>>) + Len(<<>>) = 0
        OBVIOUS
      <4> QED BY <1>1, <2>1, <2>2, <2>3, <3>1, <4>1, <4>2, ProcessAssumption DEF Delivered, TypeOK
    <3>2. CASE v # w
      BY <1>1, <2>1, <3>2 DEF Delivered, TypeOK
    <3> QED BY <3>1, <3>2
  <2>6. AbsSent' = AbsSent
    BY <2>5 DEF AbsSent
  <2> HIDE DEF r
  <2>7. Abs!Pair(w, r)
    BY <2>1, <2>3, <2>4, <2>6 DEF Abs!Pair, AbsSent, AbsStatus
  <2> QED BY <2>2, <2>7 DEF Abs!Next
<1>5. CASE WriteFifo(w)
  <2> DEFINE r == partner[w]
  <2>1. /\ pc[w] = "writing" /\ pc' = [pc EXCEPT ![w] = "reading"]
        /\ r \in Reader /\ fifo' = [fifo EXCEPT ![r] = Append(@, <<w, position[w]>>)]
        /\ UNCHANGED <<out, partner>>
    BY <1>5 DEF WriteFifo, Goto, Listens, readers, writers
  <2>2. /\ Len(out[r]) + Len(fifo[r]) + 1 = position[w] /\ position[w] <= Blocks[w]
        /\ \A v \in Writer : partner[v] = r => v = w
    BY <2>1 DEF IInv, Progress, Names, Sent
  <2>3. Len(out[r]) \in Nat /\ Len(fifo[r]) \in Nat /\ Blocks[w] \in Nat /\ position[w] \in Nat
    BY <1>1, <2>1, Processes
  <2>4. Len(fifo'[r]) = Len(fifo[r]) + 1
    BY <1>1, <2>1 DEF TypeOK
  <2>5. AbsSent'[w] = AbsSent[w] + 1 /\ AbsSent[w] < Blocks[w]
    <3> DEFINE a == Len(out[r])
               b == Len(fifo[r])
               bb == Len(fifo'[r])
    <3>1. /\ a \in Nat /\ b \in Nat /\ bb = b + 1
          /\ a + b + 1 = position[w] /\ position[w] <= Blocks[w]
      BY <2>2, <2>3, <2>4
    <3>2. AbsSent[w] = a + b /\ AbsSent'[w] = a + bb
      BY <2>1 DEF AbsSent, Delivered
    <3> HIDE DEF a, b, bb
    <3> QED BY <2>3, <3>1, <3>2
  <2>6. ASSUME NEW v \in Writer, v # w PROVE Delivered(v)' = Delivered(v)
    BY <1>1, <2>1, <2>2, <2>6 DEF Delivered, TypeOK
  <2>7. AbsSent' = [AbsSent EXCEPT ![w] = @ + 1]
    BY <2>5, <2>6 DEF AbsSent
  <2>8. AbsStatus[w] = "running" /\ AbsStatus' = AbsStatus
    BY <1>1, <2>1 DEF AbsStatus, Status, Ended
  <2>9. partner[w] # NoReader
    BY <1>1, <2>1, Processes
  <2>10. Abs!Send(w)
    BY <2>1, <2>5, <2>7, <2>8, <2>9 DEF Abs!Send, AbsSent, AbsStatus
  <2> QED BY <2>10 DEF Abs!Next
<1>6. CASE ReadFileEnd(w)
  <2>1. /\ pc[w] = "reading" /\ position[w] = Blocks[w] /\ End(w, "succeeded")
        /\ UNCHANGED <<fifo, out, partner>>
    BY <1>6 DEF ReadFileEnd, readers, writers
  <2>2. AbsSent[w] = Blocks[w] /\ partner[w] # NoReader /\ AbsSent' = AbsSent
    BY <1>1, <2>1, Processes DEF IInv, Progress, AbsSent, Delivered, Sent
  <2>3. AbsStatus[w] = "running" /\ AbsStatus' = [AbsStatus EXCEPT ![w] = "succeeded"]
    BY <1>1, <2>1, EndStatus DEF Ended
  <2>4. Abs!WriterSucceeds(w)
    BY <2>1, <2>2, <2>3 DEF Abs!WriterSucceeds, AbsSent, AbsStatus
  <2> QED BY <2>4 DEF Abs!Next
<1> QED BY <1>2, <1>3, <1>4, <1>5, <1>6 DEF WriterStep

\* The common fifo hands every name to one writer, the fifos of the readers pass
\* on what is written although neither end blocks, and the two programs report
\* success as the abstract transfer does, whoever is killed and whatever fails.
THEOREM FifosTransfer == Spec => ImplementsPipeTransfer
<1>1. Init => Abs!Init /\ Phases
  <2> SUFFICES ASSUME Init PROVE Abs!Init /\ Phases
    OBVIOUS
  <2>1. \A p \in Process : pc[p] = "off"
    BY DEF Init
  <2>2. [p \in Process |-> Status(p)] = [p \in Reader \cup Writer |-> "running"]
    BY <2>1 DEF Status, Ended, Process
  <2>3. [w \in Writer |-> Delivered(w)] = [w \in Writer |-> 0]
    BY ProcessAssumption DEF Init, Delivered
  <2>4. Phases
    BY <2>1 DEF Phases, Process
  <2> QED BY <2>2, <2>3, <2>4 DEF Init, Abs!Init, Abs!Process
<1>2. IInv /\ Phases /\ [Next]_vars => [Abs!Next]_(Abs!vars)
  <2> SUFFICES ASSUME IInv, Phases, [Next]_vars
               PROVE  Abs!Next \/ UNCHANGED Abs!vars
    OBVIOUS
  <2>1. TypeOK
    BY DEF IInv
  <2>2. CASE UNCHANGED vars
    <3>1. UNCHANGED <<fifo, out, partner>> /\ \A p \in Process : Status(p)' = Status(p)
      BY <2>2 DEF vars, readers, writers, Status
    <3> QED BY <3>1, Unseen
  <2>3. ASSUME NEW p \in Process, CreateFifoFails(p) \/ Die(p) PROVE Abs!Next
    <3>1. /\ \E state \in Ended : state # "succeeded" /\ End(p, state)
          /\ pc[p] \notin Ended /\ UNCHANGED <<fifo, out, partner>>
      BY <2>3 DEF CreateFifoFails, Die, Active, readers, writers, Ended
    <3> QED BY <2>1, <3>1, Fails
  <2>4. ASSUME NEW p \in Process, OpenCommon(p) PROVE UNCHANGED Abs!vars
    <3>1. UNCHANGED <<fifo, out, partner>> /\ pc[p] = "off"
      BY <2>4 DEF OpenCommon, readers, writers
    <3>2. \A q \in Process :
            pc'[q] = pc[q] \/ (pc[q] \in {"off", "opening"} /\ pc'[q] \in {"opening", "opened"})
      BY <2>1, <2>4, <3>1 DEF OpenCommon, TypeOK
    <3>3. \A q \in Process : Status(q)' = Status(q)
      BY <3>2 DEF Status, Ended
    <3> QED BY <3>1, <3>3, Unseen
  <2> QED BY <2>2, <2>3, <2>4, ReaderMaps, WriterMaps DEF Next
<1> QED BY <1>1, <1>2, PhasesStep, Invariance, PTL DEF Spec, ImplementsPipeTransfer, Abs!Spec
=============================================================================
