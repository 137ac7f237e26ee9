---------------------------- MODULE ShmTransfer ----------------------------
(***************************************************************************)
(* sem3/homework/task_3: any number of readers and writers are started;    *)
(* one of each kind pairs up at a time and moves a file, block by block,   *)
(* through one shared memory buffer.  They synchronise with a System V set *)
(* of six semaphores whose SEM_UNDO adjustments are applied by the kernel  *)
(* when a process ends, however it ends: that is the program's whole crash *)
(* handling.  A process may die between any two steps.                     *)
(*                                                                         *)
(* A semop() call is one step: the kernel performs all its operations or   *)
(* blocks, so its guard is that they can all be performed in order.        *)
(* Every access to the buffer is a step of its own.                        *)
(***************************************************************************)
EXTENDS Integers, Sequences

CONSTANTS
  Readers,   \* processes that run reader.c, each once
  Writers,   \* processes that run writer.c, each once
  NumFull,   \* NumFull[w]: full blocks of w's file; a short one follows them
  Mortal,    \* processes that may be killed or hit a fatal error
  None       \* no process

Procs == Readers \cup Writers

ASSUME ProcAssumption ==
  /\ Readers \cap Writers = {}
  /\ Mortal \subseteq Procs
  /\ None \notin Procs

ASSUME FileAssumption == NumFull \in [Writers -> Nat]

SEM_CONNECT     == "CONNECT"
SEM_HAVE_WRITER == "HAVE_WRITER"
SEM_HAVE_READER == "HAVE_READER"
SEM_FULL        == "FULL"
SEM_EMPTY       == "EMPTY"
SEM_ALIVE       == "ALIVE"

Sems == {SEM_CONNECT, SEM_HAVE_WRITER, SEM_HAVE_READER,
         SEM_FULL, SEM_EMPTY, SEM_ALIVE}

VARIABLES
  pc,              \* where each process is
  sem,             \* semaphore values; they outlive every process
  undo,            \* undo[p][s]: what the kernel adds to s when p ends
  shm,             \* struct shr_buffer; it outlives every process too
  out,             \* out[r]: blocks that r has written to its stdout
  last_num_bytes,  \* r's local: size of the last block it uploaded
  loaded,          \* loaded[w]: blocks w has read from its file
  not_time_to_die, \* w's local: 0 once it has loaded its last block
  peer             \* history: the writer that joined r

vars == <<pc, sem, undo, shm, out, last_num_bytes, loaded, not_time_to_die, peer>>

----------------------------------------------------------------------------
(* Files.  A block is identified by its file and position; its size is     *)
(* SIZE_DATA_PRIVATE_SHR_MEM ("full") or less ("short").  read() of a      *)
(* regular file is short exactly at its end, so the last block is the only *)
(* short one; it may be empty.                                             *)

Last(w) == NumFull[w] + 1

Block(w, k) == [data      |-> <<w, k>>,
                byte_used |-> IF k < Last(w) THEN "full" ELSE "short"]

Prefix(w, n) == [k \in 1..n |-> Block(w, k)]

File(w) == Prefix(w, Last(w))

----------------------------------------------------------------------------
(* Processes                                                               *)

Ended == {"succeeded", "failed"}

\* Between GET-MUTEX and the last semop(), or ending with SEM_UNDO pending.
Attached(p) == pc[p] \notin Ended \cup {"mutex", "exit"}

\* A reader that a writer can join or has joined.
Connected(r) == Attached(r) /\ pc[r] \notin {"setfull", "setempty", "connect"}

Goto(p, from, to) == pc[p] = from /\ pc' = [pc EXCEPT ![p] = to]

NoUndo == [s \in Sems |-> 0]

\* The kernel never lets an adjustment drive a semaphore below zero.
Clamp(n) == IF n < 0 THEN 0 ELSE n

\* semctl (SETVAL) also discards every process's adjustment of that semaphore.
SetVal(s, v) ==
  /\ sem'  = [sem EXCEPT ![s] = v]
  /\ undo' = [p \in Procs |-> [undo[p] EXCEPT ![s] = 0]]

----------------------------------------------------------------------------
(* reader.c                                                                *)

\* Names with an underscore are slips a programmer could have made at the
\* definition that follows them; no action uses them.
ReaderGetMutex_AliveWithoutUndo(r) ==
  /\ sem[SEM_HAVE_READER] = 0
  /\ sem[SEM_ALIVE] = 0
  /\ Goto(r, "mutex", "setfull")
  /\ sem'  = [sem EXCEPT ![SEM_HAVE_READER] = @ + 1, ![SEM_ALIVE] = @ + 1]
  /\ undo' = [undo EXCEPT ![r][SEM_HAVE_READER] = @ - 1]
  /\ UNCHANGED <<shm, out, last_num_bytes, loaded, not_time_to_die, peer>>

ReaderGetMutex(r) ==
  /\ sem[SEM_HAVE_READER] = 0
  /\ sem[SEM_ALIVE] = 0
  /\ Goto(r, "mutex", "setfull")
  /\ sem'  = [sem EXCEPT ![SEM_HAVE_READER] = @ + 1, ![SEM_ALIVE] = @ + 1]
  /\ undo' = [undo EXCEPT ![r][SEM_HAVE_READER] = @ - 1, ![r][SEM_ALIVE] = @ - 1]
  /\ UNCHANGED <<shm, out, last_num_bytes, loaded, not_time_to_die, peer>>

InitFull_NoReset(r) ==
  /\ Goto(r, "setfull", "setempty")
  /\ UNCHANGED <<sem, undo, shm, out, last_num_bytes, loaded, not_time_to_die, peer>>

InitFull(r) ==
  /\ Goto(r, "setfull", "setempty")
  /\ SetVal(SEM_FULL, 0)
  /\ UNCHANGED <<shm, out, last_num_bytes, loaded, not_time_to_die, peer>>

InitEmpty(r) ==
  /\ Goto(r, "setempty", "connect")
  /\ SetVal(SEM_EMPTY, 1)
  /\ UNCHANGED <<shm, out, last_num_bytes, loaded, not_time_to_die, peer>>

Connect_OfferWithoutUndo(r) ==
  /\ sem[SEM_EMPTY] >= 1
  /\ Goto(r, "connect", "full")
  /\ sem'  = [sem EXCEPT ![SEM_CONNECT] = @ + 1]
  /\ undo' = [undo EXCEPT ![r][SEM_EMPTY] = @ + 1]
  /\ UNCHANGED <<shm, out, last_num_bytes, loaded, not_time_to_die, peer>>

\* EMPTY goes down with SEM_UNDO and up without: the value stays, but when the
\* reader ends EMPTY is raised and a writer blocked on it wakes up.
Connect(r) ==
  /\ sem[SEM_EMPTY] >= 1
  /\ Goto(r, "connect", "full")
  /\ sem'  = [sem EXCEPT ![SEM_CONNECT] = @ + 1]
  /\ undo' = [undo EXCEPT ![r][SEM_EMPTY] = @ + 1, ![r][SEM_CONNECT] = @ - 1]
  /\ UNCHANGED <<shm, out, last_num_bytes, loaded, not_time_to_die, peer>>

WaitFull(r) ==
  /\ sem[SEM_FULL] >= 1
  /\ Goto(r, "full", "check")
  /\ sem' = [sem EXCEPT ![SEM_FULL] = @ - 1]
  /\ UNCHANGED <<undo, shm, out, last_num_bytes, loaded, not_time_to_die, peer>>

Upload(r) ==
  /\ Goto(r, "upload", "mark")
  /\ out' = [out EXCEPT ![r] = Append(@, [data      |-> shm.data,
                                          byte_used |-> shm.byte_used])]
  /\ last_num_bytes' = [last_num_bytes EXCEPT ![r] = shm.byte_used]
  /\ UNCHANGED <<sem, undo, shm, loaded, not_time_to_die, peer>>

MarkSuccess(r) ==
  /\ Goto(r, "mark", "post")
  /\ shm' = IF last_num_bytes[r] = "short" THEN [shm EXCEPT !.success_end = 1]
                                           ELSE shm
  /\ UNCHANGED <<sem, undo, out, last_num_bytes, loaded, not_time_to_die, peer>>

PostEmpty(r) ==
  /\ Goto(r, "post", IF last_num_bytes[r] = "short" THEN "release" ELSE "full")
  /\ sem' = [sem EXCEPT ![SEM_EMPTY] = @ + 1]
  /\ UNCHANGED <<undo, shm, out, last_num_bytes, loaded, not_time_to_die, peer>>

ReaderRelease_AliveWithoutUndo(r) ==
  /\ sem[SEM_ALIVE] >= 1
  /\ sem[SEM_HAVE_READER] >= 1
  /\ Goto(r, "release", "exit")
  /\ sem'  = [sem EXCEPT ![SEM_ALIVE] = @ - 1, ![SEM_HAVE_READER] = @ - 1]
  /\ undo' = [undo EXCEPT ![r][SEM_CONNECT] = @ + 1, ![r][SEM_HAVE_READER] = @ + 1]
  /\ UNCHANGED <<shm, out, last_num_bytes, loaded, not_time_to_die, peer>>

\* CONNECT goes up and, with SEM_UNDO, down: only the adjustment changes.
ReaderRelease(r) ==
  /\ sem[SEM_ALIVE] >= 1
  /\ sem[SEM_HAVE_READER] >= 1
  /\ Goto(r, "release", "exit")
  /\ sem'  = [sem EXCEPT ![SEM_ALIVE] = @ - 1, ![SEM_HAVE_READER] = @ - 1]
  /\ undo' = [undo EXCEPT ![r][SEM_CONNECT] = @ + 1, ![r][SEM_ALIVE] = @ + 1,
                          ![r][SEM_HAVE_READER] = @ + 1]
  /\ UNCHANGED <<shm, out, last_num_bytes, loaded, not_time_to_die, peer>>

----------------------------------------------------------------------------
(* writer.c                                                                *)

WriterGetMutex_FullWithoutUndo(w) ==
  /\ sem[SEM_HAVE_WRITER] = 0
  /\ sem[SEM_HAVE_READER] >= 1
  /\ sem[SEM_CONNECT] >= 1
  /\ Goto(w, "mutex", "empty")
  /\ sem'  = [sem EXCEPT ![SEM_HAVE_WRITER] = @ + 1, ![SEM_CONNECT] = @ - 1,
                         ![SEM_ALIVE] = @ + 1]
  /\ undo' = [undo EXCEPT ![w][SEM_HAVE_WRITER] = @ - 1, ![w][SEM_ALIVE] = @ - 1]
  /\ peer' = [r \in Readers |-> IF Connected(r) THEN w ELSE peer[r]]
  /\ UNCHANGED <<shm, out, last_num_bytes, loaded, not_time_to_die>>

\* One semop(): no other writer, a reader, an offer to connect (taken without
\* SEM_UNDO), and FULL to be raised when this writer ends.
WriterGetMutex(w) ==
  /\ sem[SEM_HAVE_WRITER] = 0
  /\ sem[SEM_HAVE_READER] >= 1
  /\ sem[SEM_CONNECT] >= 1
  /\ Goto(w, "mutex", "empty")
  /\ sem'  = [sem EXCEPT ![SEM_HAVE_WRITER] = @ + 1, ![SEM_CONNECT] = @ - 1,
                         ![SEM_ALIVE] = @ + 1]
  /\ undo' = [undo EXCEPT ![w][SEM_HAVE_WRITER] = @ - 1, ![w][SEM_FULL] = @ + 1,
                          ![w][SEM_ALIVE] = @ - 1]
  /\ peer' = [r \in Readers |-> IF Connected(r) THEN w ELSE peer[r]]
  /\ UNCHANGED <<shm, out, last_num_bytes, loaded, not_time_to_die>>

WaitEmpty(w) ==
  /\ sem[SEM_EMPTY] >= 1
  /\ Goto(w, "empty", "test")
  /\ sem' = [sem EXCEPT ![SEM_EMPTY] = @ - 1]
  /\ UNCHANGED <<undo, shm, out, last_num_bytes, loaded, not_time_to_die, peer>>

TestSuccess_Unconfirmed(w) ==
  /\ Goto(w, "test", IF not_time_to_die[w] = 0 THEN "release" ELSE "check")
  /\ UNCHANGED <<sem, undo, shm, out, last_num_bytes, loaded, not_time_to_die, peer>>

TestSuccess(w) ==
  /\ Goto(w, "test", IF not_time_to_die[w] = 0 /\ shm.success_end = 1
                     THEN "release" ELSE "check")
  /\ UNCHANGED <<sem, undo, shm, out, last_num_bytes, loaded, not_time_to_die, peer>>

Load(w) ==
  /\ Goto(w, "load", "fill")
  /\ loaded' = [loaded EXCEPT ![w] = @ + 1]
  /\ shm' = [shm EXCEPT !.data = <<w, loaded[w] + 1>>]
  /\ UNCHANGED <<sem, undo, out, last_num_bytes, not_time_to_die, peer>>

FillHeader_KeepsSuccess(w) ==
  /\ Goto(w, "fill", "post")
  /\ shm' = [shm EXCEPT !.byte_used = Block(w, loaded[w]).byte_used]
  /\ UNCHANGED <<sem, undo, out, last_num_bytes, loaded, not_time_to_die, peer>>

FillHeader(w) ==
  /\ Goto(w, "fill", "post")
  /\ shm' = [shm EXCEPT !.byte_used = Block(w, loaded[w]).byte_used,
                        !.success_end = 0]
  /\ UNCHANGED <<sem, undo, out, last_num_bytes, loaded, not_time_to_die, peer>>

PostFull(w) ==
  /\ Goto(w, "post", "empty")
  /\ sem' = [sem EXCEPT ![SEM_FULL] = @ + 1]
  /\ not_time_to_die' = [not_time_to_die EXCEPT
       ![w] = IF Block(w, loaded[w]).byte_used = "short" THEN 0 ELSE @]
  /\ UNCHANGED <<undo, shm, out, last_num_bytes, loaded, peer>>

WriterRelease(w) ==
  /\ sem[SEM_ALIVE] >= 1
  /\ sem[SEM_HAVE_WRITER] >= 1
  /\ Goto(w, "release", "exit")
  /\ sem'  = [sem EXCEPT ![SEM_ALIVE] = @ - 1, ![SEM_HAVE_WRITER] = @ - 1]
  /\ undo' = [undo EXCEPT ![w][SEM_ALIVE] = @ + 1, ![w][SEM_HAVE_WRITER] = @ + 1]
  /\ UNCHANGED <<shm, out, last_num_bytes, loaded, not_time_to_die, peer>>

----------------------------------------------------------------------------
(* Both programs                                                           *)

\* checkAnotherProcessAlive: a count of 1 means that only the caller is left.
CheckAlive(p) ==
  /\ Goto(p, "check", IF sem[SEM_ALIVE] = 1 THEN "abort"
                      ELSE IF p \in Readers THEN "upload" ELSE "load")
  /\ UNCHANGED <<sem, undo, shm, out, last_num_bytes, loaded, not_time_to_die, peer>>

\* The kernel adds a process's adjustments in one step when the process ends.
End(p, status) ==
  /\ pc'   = [pc EXCEPT ![p] = status]
  /\ sem'  = [s \in Sems |-> Clamp(sem[s] + undo[p][s])]
  /\ undo' = [undo EXCEPT ![p] = NoUndo]
  /\ UNCHANGED <<shm, out, last_num_bytes, loaded, not_time_to_die, peer>>

Exit(p) ==
  \/ pc[p] = "exit"  /\ End(p, "succeeded")
  \/ pc[p] = "abort" /\ End(p, "failed")

\* A signal, or one of the calls whose failure ends in exit (EXIT_FAILURE).
Die(p) ==
  /\ p \in Mortal
  /\ pc[p] \notin Ended
  /\ End(p, "failed")

----------------------------------------------------------------------------
\* The semaphore set and the segment as semget() and shmget() create them:
\* Linux zeroes both.
Init ==
  /\ pc = [p \in Procs |-> "mutex"]
  /\ sem = [s \in Sems |-> 0]
  /\ undo = [p \in Procs |-> NoUndo]
  /\ shm = [data |-> <<>>, byte_used |-> "short", success_end |-> 0]
  /\ out = [r \in Readers |-> <<>>]
  /\ last_num_bytes = [r \in Readers |-> "short"]
  /\ loaded = [w \in Writers |-> 0]
  /\ not_time_to_die = [w \in Writers |-> 1]
  /\ peer = [r \in Readers |-> None]

ReaderStep(r) ==
  \/ ReaderGetMutex(r) \/ InitFull(r) \/ InitEmpty(r) \/ Connect(r)
  \/ WaitFull(r) \/ CheckAlive(r) \/ Upload(r) \/ MarkSuccess(r)
  \/ PostEmpty(r) \/ ReaderRelease(r) \/ Exit(r)

WriterStep(w) ==
  \/ WriterGetMutex(w) \/ WaitEmpty(w) \/ TestSuccess(w) \/ CheckAlive(w)
  \/ Load(w) \/ FillHeader(w) \/ PostFull(w) \/ WriterRelease(w) \/ Exit(w)

Next ==
  \/ \E r \in Readers : ReaderStep(r)
  \/ \E w \in Writers : WriterStep(w)
  \/ \E p \in Procs : Die(p)

Spec == Init /\ [][Next]_vars

\* A runnable process is eventually scheduled; nothing obliges one to die.
Fairness ==
  /\ \A r \in Readers : WF_vars(ReaderStep(r))
  /\ \A w \in Writers : WF_vars(WriterStep(w))

FairSpec == Spec /\ Fairness

----------------------------------------------------------------------------
(* Properties                                                              *)

ReaderPcs == {"mutex", "setfull", "setempty", "connect", "full", "check",
              "upload", "mark", "post", "release", "abort", "exit"} \cup Ended

WriterPcs == {"mutex", "empty", "test", "check", "load", "fill", "post",
              "release", "abort", "exit"} \cup Ended

\* Type invariant.
TypeOK ==
  /\ pc \in [Procs -> ReaderPcs \cup WriterPcs]
  /\ \A r \in Readers : pc[r] \in ReaderPcs
  /\ \A w \in Writers : pc[w] \in WriterPcs
  /\ sem \in [Sems -> Nat]
  /\ undo \in [Procs -> [Sems -> Int]]
  /\ shm \in [data: {<<>>} \cup (Writers \X (Nat \ {0})),
              byte_used: {"full", "short"}, success_end: {0, 1}]
  /\ out \in [Readers -> Seq([data: {<<>>} \cup (Writers \X (Nat \ {0})),
                              byte_used: {"full", "short"}])]
  /\ last_num_bytes \in [Readers -> {"full", "short"}]
  /\ loaded \in [Writers -> Nat]
  /\ not_time_to_die \in [Writers -> {0, 1}]
  /\ peer \in [Readers -> Writers \cup {None}]

\* FULL and EMPTY keep the two programs apart although they are not a mutex,
\* are raised by the kernel when a process dies, and are reset by every new
\* reader: no reader uses the buffer while a writer does.
BufferExclusion ==
  \A r \in Readers, w \in Writers :
    ~ (pc[r] \in {"upload", "mark"} /\ pc[w] \in {"test", "load", "fill"})

\* One reader and one writer at a time, and SEM_ALIVE counts them, which is
\* what checkAnotherProcessAlive relies on.
AliveCountsPair ==
  /\ \A p, q \in Readers : Attached(p) /\ Attached(q) => p = q
  /\ \A p, q \in Writers : Attached(p) /\ Attached(q) => p = q
  /\ sem[SEM_ALIVE] = (IF \E r \in Readers : Attached(r) THEN 1 ELSE 0)
                    + (IF \E w \in Writers : Attached(w) THEN 1 ELSE 0)

\* However the processes of a session ended, SEM_UNDO leaves behind exactly
\* what the next session needs: nobody is registered and no offer is pending.
SemaphoresRecover ==
  (\A p \in Procs : ~ Attached(p)) =>
    \A s \in {SEM_CONNECT, SEM_HAVE_READER, SEM_HAVE_WRITER, SEM_ALIVE} : sem[s] = 0

\* A reader prints a prefix of its own writer's file, in order and with the
\* right sizes, whoever died in the middle of filling or emptying the buffer.
OutputIsPrefix ==
  \A r \in Readers :
    IF peer[r] = None THEN out[r] = <<>>
    ELSE Len(out[r]) <= Last(peer[r]) /\ out[r] = Prefix(peer[r], Len(out[r]))

\* Leaving the loop the regular way means that the whole file was printed:
\* reader.c:133 "We said, that transfer was successful".
SuccessMeansPrinted ==
  /\ \A r \in Readers : pc[r] \in {"release", "exit", "succeeded"} =>
       peer[r] # None /\ out[r] = File(peer[r])
  /\ \A w \in Writers : pc[w] \in {"release", "exit", "succeeded"} =>
       \E r \in Readers : peer[r] = w /\ out[r] = File(w)

\* writer.c:153 "It's need to go out in next turn of the cycle": once a writer
\* has loaded its short block it never fills the buffer again.
ShortBlockIsLast ==
  [][\A w \in Writers : not_time_to_die[w] = 0 => loaded'[w] = loaded[w]]_vars

\* Neither side is left waiting for the other: once a reader and a writer are
\* paired both end, even when one of them dies at the worst moment.
SessionEnds ==
  \A r \in Readers, w \in Writers :
    (Attached(r) /\ Attached(w)) ~> (pc[r] \in Ended /\ pc[w] \in Ended)

\* Nobody gives up unless somebody else has failed, and as long as nobody fails
\* all readers are served in the end, or all writers if they are fewer.
EveryoneServed ==
  /\ [](\A p \in Procs : pc[p] = "abort" => \E q \in Procs : pc[q] = "failed")
  /\ <>(\/ \E p \in Procs : pc[p] = "failed"
        \/ \A r \in Readers : pc[r] = "succeeded"
        \/ \A w \in Writers : pc[w] = "succeeded")

\* The promise (FileTransfer) that this protocol implements.
Abs == INSTANCE FileTransfer WITH
         Contents <- [w \in Writers |-> File(w)],
         feeder   <- peer,
         status   <- [p \in Procs |-> IF pc[p] \in Ended THEN pc[p] ELSE "running"]

ImplementsFileTransfer == Abs!Spec
=============================================================================
