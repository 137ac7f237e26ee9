---------------------------- MODULE ShmInductive ----------------------------
(***************************************************************************)
(* An inductive invariant of ShmTransfer.  The safety properties are not   *)
(* inductive: they hold because of where the one token that FULL and EMPTY *)
(* pass around is, because of which adjustments the kernel still owes, and *)
(* because a session cannot start before SEM_ALIVE is back to zero.        *)
(***************************************************************************)
EXTENDS ShmTransfer

\* SEM_HAVE_READER, SEM_HAVE_WRITER and SEM_ALIVE say who is attached, and a
\* reader and a writer that are attached together are paired.
Registered ==
  /\ \A p, q \in Readers : Attached(p) /\ Attached(q) => p = q
  /\ \A p, q \in Writers : Attached(p) /\ Attached(q) => p = q
  /\ sem[SEM_HAVE_READER] \in {0, 1}
  /\ sem[SEM_HAVE_READER] = 1 <=> \E r \in Readers : Attached(r)
  /\ sem[SEM_HAVE_WRITER] \in {0, 1}
  /\ sem[SEM_HAVE_WRITER] = 1 <=> \E w \in Writers : Attached(w)
  /\ sem[SEM_ALIVE] = sem[SEM_HAVE_READER] + sem[SEM_HAVE_WRITER]
  /\ \A r \in Readers, w \in Writers :
       Attached(r) /\ Attached(w) => Connected(r) /\ peer[r] = w

\* What the kernel will do to the registration counters when a process ends.
OwedByReader(r) ==
  /\ undo[r][SEM_HAVE_READER] = (IF Attached(r) THEN -1 ELSE 0)
  /\ undo[r][SEM_ALIVE]       = (IF Attached(r) THEN -1 ELSE 0)
  /\ undo[r][SEM_CONNECT]     = (IF Connected(r) THEN -1 ELSE 0)
  /\ undo[r][SEM_HAVE_WRITER] = 0
  /\ undo[r][SEM_FULL]        = 0

OwedByWriter(w) ==
  /\ undo[w][SEM_HAVE_WRITER] = (IF Attached(w) THEN -1 ELSE 0)
  /\ undo[w][SEM_ALIVE]       = (IF Attached(w) THEN -1 ELSE 0)
  /\ undo[w][SEM_CONNECT]     = 0
  /\ undo[w][SEM_HAVE_READER] = 0
  /\ undo[w][SEM_EMPTY]       = 0

\* Once the reader has reset FULL and EMPTY, nobody outside its session still
\* owes them an adjustment.
Fresh(r) ==
  /\ Attached(r) /\ pc[r] # "setfull" =>
       \A w \in Writers : ~ Attached(w) /\ w # peer[r] => undo[w][SEM_FULL] = 0
  /\ Attached(r) /\ pc[r] \notin {"setfull", "setempty"} =>
       \A q \in Readers \ {r} : undo[q][SEM_EMPTY] = 0

\* CONNECT is up exactly while a connected reader waits for its writer.
Offered ==
  /\ sem[SEM_CONNECT] \in {0, 1}
  /\ sem[SEM_CONNECT] = 1 => \E r \in Readers : Connected(r) /\ peer[r] = None

Offering(r) ==
  /\ Attached(r) /\ pc[r] \in {"setempty", "connect"} => sem[SEM_FULL] = 0
  /\ pc[r] = "connect" => sem[SEM_EMPTY] = 1
  /\ Connected(r) /\ peer[r] = None =>
       /\ pc[r] = "full" /\ sem[SEM_CONNECT] = 1
       /\ sem[SEM_FULL] = 0 /\ sem[SEM_EMPTY] = 1

\* The history of who joined whom.
Peers ==
  /\ \A r \in Readers :
       pc[r] \in {"mutex", "setfull", "setempty", "connect"} => peer[r] = None
  /\ \A r \in Readers : peer[r] # None => pc[peer[r]] # "mutex"
  /\ \A q, r \in Readers : peer[q] = peer[r] /\ peer[r] # None => q = r

\* The buffer holds the k-th block of w, header included.
Holds(w, k) ==
  /\ shm.data = Block(w, k).data
  /\ shm.byte_used = Block(w, k).byte_used
  /\ shm.success_end = 0

\* The buffer is the writer's: it has the token, or the token is in EMPTY.
WriterTurn(r, w) ==
  LET n == Len(out[r]) IN
  /\ sem[SEM_FULL] = 0
  /\ pc[r] = (IF n = Last(w) THEN "release" ELSE "full")
  /\ sem[SEM_EMPTY] = (IF pc[w] = "empty" THEN 1 ELSE 0)
  /\ pc[w] \in {"empty", "test", "check", "load"} =>
       /\ loaded[w] = n
       /\ not_time_to_die[w] = (IF n = Last(w) THEN 0 ELSE 1)
       /\ n = Last(w) => shm.success_end = 1
  /\ pc[w] \in {"check", "load"} => n # Last(w)
  /\ pc[w] = "fill" => loaded[w] = n + 1 /\ n # Last(w) /\ shm.data = <<w, n + 1>>
  /\ pc[w] = "post" => loaded[w] = n + 1 /\ n # Last(w) /\ Holds(w, n + 1)
  /\ pc[w] = "release" => n = Last(w)
  /\ pc[w] # "abort"

\* The buffer is the reader's: it has the token, or the token is in FULL.
ReaderTurn(r, w) ==
  LET n == Len(out[r]) IN
  /\ sem[SEM_EMPTY] = 0
  /\ pc[w] = "empty"
  /\ not_time_to_die[w] = (IF loaded[w] = Last(w) THEN 0 ELSE 1)
  /\ sem[SEM_FULL] = (IF pc[r] = "full" THEN 1 ELSE 0)
  /\ pc[r] \in {"full", "check", "upload", "mark", "post"}
  /\ pc[r] \in {"full", "check", "upload"} =>
       loaded[w] = n + 1 /\ n < Last(w) /\ Holds(w, n + 1)
  /\ pc[r] \in {"mark", "post"} => loaded[w] = n /\ n > 0
  /\ pc[r] = "post" => (n = Last(w) => shm.success_end = 1)

Turns ==
  \A r \in Readers, w \in Writers :
    Attached(r) /\ Attached(w) => WriterTurn(r, w) \/ ReaderTurn(r, w)

\* What a reader relies on whether or not its writer is still there.
ReaderData(r) ==
  LET n == Len(out[r]) IN
  /\ pc[r] = "upload" =>
       /\ peer[r] # None /\ n < Last(peer[r])
       /\ shm.data = Block(peer[r], n + 1).data
       /\ shm.byte_used = Block(peer[r], n + 1).byte_used
  /\ pc[r] \in {"mark", "post"} =>
       peer[r] # None /\ last_num_bytes[r] = Block(peer[r], n).byte_used
  /\ pc[r] \in {"release", "exit", "succeeded"} => peer[r] # None /\ n = Last(peer[r])

\* What a writer relies on whether or not its reader is still there.
WriterData(w) ==
  /\ loaded[w] <= Last(w)
  /\ not_time_to_die[w] = 0 => loaded[w] = Last(w)
  /\ pc[w] = "mutex" => loaded[w] = 0 /\ not_time_to_die[w] = 1
  /\ pc[w] \in {"empty", "test", "check", "load"} =>
       not_time_to_die[w] = (IF loaded[w] = Last(w) THEN 0 ELSE 1)
  /\ pc[w] \in {"load", "fill", "post"} => not_time_to_die[w] = 1
  /\ pc[w] \in {"fill", "post"} => loaded[w] > 0
  /\ pc[w] = "post" => shm.success_end = 0
  /\ Attached(w) /\ not_time_to_die[w] = 0 /\ shm.success_end = 1 =>
       \E r \in Readers : peer[r] = w /\ Len(out[r]) = Last(w)
  /\ pc[w] \in {"release", "exit", "succeeded"} =>
       \E r \in Readers : peer[r] = w /\ Len(out[r]) = Last(w)

\* The inductive invariant.
IInv ==
  /\ TypeOK
  /\ Registered
  /\ \A r \in Readers : OwedByReader(r) /\ Fresh(r) /\ Offering(r)
  /\ \A w \in Writers : OwedByWriter(w)
  /\ Offered
  /\ Peers
  /\ OutputIsPrefix
  /\ Turns
  /\ \A r \in Readers : ReaderData(r)
  /\ \A w \in Writers : WriterData(w)
=============================================================================
