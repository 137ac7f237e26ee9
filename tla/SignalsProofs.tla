--------------------------- MODULE SignalsProofs ---------------------------
(***************************************************************************)
(* The safety properties of Signals, for every file, every number of bits  *)
(* in a byte and any number of stops.  The invariant says where a bit can  *)
(* be: at most one is under way, as a signal that is pending in the parent,*)
(* as the parent's received_bit, as a bit that is stored and not confirmed,*)
(* or as a confirmation that is pending in the child.                      *)
(***************************************************************************)
EXTENDS Signals, TLAPS

BitSignals == {"USR1", "USR2"}

\* The parent has exactly the bits that the child knows to be confirmed.  A
\* byte that is complete may be out, or not yet.
Level ==
  \/ Len(out) + 1 = number /\ Len(finish_byte) = i
  \/ i = BITS /\ Len(out) = number /\ Len(finish_byte) = 0
  \/ i = 0 /\ Len(out) + 2 = number /\ Len(finish_byte) = BITS
  \/ number = 0 /\ i = 0 /\ Len(out) = 0 /\ Len(finish_byte) = 0

\* The parent has one bit more.
Ahead ==
  \/ Len(out) + 1 = number /\ Len(finish_byte) = i + 1
  \/ i + 1 = BITS /\ Len(out) = number /\ Len(finish_byte) = 0

\* The child has a bit that is not confirmed.
Sending == number >= 1 /\ i < BITS

ChildPlace ==
  /\ pc["child"] \in {"prctl", "getppid", "open"} => number = 0 /\ i = 0
  /\ pc["child"] \in {"read", "succeeded"} => number = 0 \/ i = BITS
  /\ pc["child"] \in {"send", "suspend"} => Sending
  /\ pc["child"] \in {"prctl", "getppid", "open", "read", "succeeded", "send"} => Level
  /\ pc["child"] \notin {"handlers", "store", "confirm", "write"} \cup InChildDie

ParentPlace ==
  /\ pc["parent"] \in {"handlers", "suspend", "store", "succeeded", "failed"} \cup InChildDie
       => Len(finish_byte) < BITS
  /\ pc["parent"] = "write" => Len(finish_byte) = BITS
  /\ pc["parent"] \notin {"prctl", "getppid", "open", "read", "send"}

\* The child waits for a confirmation, or did when it ended.
Waiting == pc["child"] \in {"suspend", "failed", "killed"} /\ Sending

BitPending ==
  pending["parent"] \cap BitSignals # {} =>
    /\ Waiting /\ Level
    /\ pending["parent"] \cap BitSignals = {IF File[number][i + 1] = 0 THEN "USR1" ELSE "USR2"}
    /\ pc["parent"] \notin {"store", "confirm"} /\ "USR1" \notin pending["child"]

BitReceived ==
  pc["parent"] = "store" =>
    /\ Waiting /\ Level
    /\ received_bit = File[number][i + 1] /\ "USR1" \notin pending["child"]

BitStored ==
  pc["parent"] = "confirm" =>
    /\ Waiting /\ Ahead
    /\ Len(finish_byte) = i + 1 /\ "USR1" \notin pending["child"]

BitConfirmed == "USR1" \in pending["child"] => Waiting /\ Ahead

Content ==
  /\ \A k \in 1..Len(out) : out[k] = File[k]
  /\ \A k \in 1..Len(finish_byte) : finish_byte[k] = File[Len(out) + 1][k]

IInv ==
  /\ TypeOK
  /\ ChildPlace /\ ParentPlace
  /\ Level \/ Ahead
  /\ BitPending /\ BitReceived /\ BitStored /\ BitConfirmed
  /\ Content

----------------------------------------------------------------------------

LEMMA TypeFacts ==
  ASSUME TypeOK
  PROVE  /\ number \in Nat /\ number <= Len(File) /\ i \in Nat /\ i <= BITS
         /\ BITS \in Nat /\ BITS > 0 /\ File \in Seq(Bytes) /\ Len(File) \in Nat
         /\ Len(out) \in Nat /\ Len(finish_byte) \in Nat /\ Len(finish_byte) <= BITS
         /\ pc = [p \in Procs |-> pc[p]] /\ DOMAIN pc = Procs
         /\ pending = [p \in Procs |-> pending[p]] /\ DOMAIN pending = Procs
BY ByteAssumption DEF TypeOK

\* What is true when the child and the parent have just been forked.
LEMMA InitIInv == ASSUME Init PROVE IInv
<1>1. TypeOK
  <2>1. /\ pc \in [Procs -> {"handlers", "prctl"}]
        /\ pending \in [Procs -> SUBSET {"USR1", "USR2", "CHLD"}]
    BY DEF Init
  <2>2. Len(File) \in Nat /\ BITS \in Nat /\ MaxStops \in Nat
    BY ByteAssumption, FaultAssumption
  <2>3. finish_byte \in Seq({0, 1}) /\ Len(finish_byte) = 0 /\ out \in Seq(Bytes)
    BY DEF Init
  <2>4. number \in 0..Len(File) /\ i \in 0..BITS /\ stops \in 0..MaxStops
    BY <2>2 DEF Init
  <2>5. Len(finish_byte) <= BITS /\ received_bit \in {0, 1}
    BY <2>2, <2>3 DEF Init
  <2>6. pdeathsig \in BOOLEAN /\ stopped \in BOOLEAN /\ early \in BOOLEAN
    BY DEF Init
  <2> QED BY <2>1, <2>3, <2>4, <2>5, <2>6 DEF TypeOK
<1>2. ChildPlace /\ ParentPlace
  BY ByteAssumption DEF Init, ChildPlace, ParentPlace, InChildDie, Procs, Level
<1>3. Level /\ BitPending /\ BitReceived /\ BitStored /\ BitConfirmed
  BY DEF Init, Level, BitPending, BitReceived, BitStored, BitConfirmed, Procs
<1>4. Content
  BY DEF Init, Content
<1> QED BY <1>1, <1>2, <1>3, <1>4 DEF IInv

\* A signal that is sent makes nothing else pending.
LEMMA KillType ==
  ASSUME TypeOK, NEW p \in Procs, NEW s \in {"USR1", "USR2", "CHLD"}, Kill(p, s)
  PROVE  /\ pending' \in [Procs -> SUBSET {"USR1", "USR2", "CHLD"}]
         /\ \A q \in Procs : q # p => pending'[q] = pending[q]
         /\ pending'[p] = IF pc[p] \in Ended THEN pending[p] ELSE pending[p] \cup {s}
BY DEF TypeOK, Kill

LEMMA EndChild ==
  ASSUME IInv, NEW how \in Ended, pc["child"] \notin Ended, End("child", how),
         how = "succeeded" => pc["child"] = "read"
  PROVE  IInv'
<1> USE DEF IInv
<1>1. /\ pc'["child"] = how /\ pc'["parent"] = pc["parent"] /\ pc' \in [Procs -> Ended \cup {pc["parent"]}]
      /\ UNCHANGED <<pdeathsig, number, i, received_bit, finish_byte, out, stopped, stops, early>>
  BY DEF End, TypeOK, Procs, sender, receiver, stopping
<1>2. /\ pending' \in [Procs -> SUBSET {"USR1", "USR2", "CHLD"}]
      /\ pending'["child"] = pending["child"]
      /\ pending'["parent"] \cap BitSignals = pending["parent"] \cap BitSignals
  <2>1. Kill("parent", "CHLD")
    BY DEF End
  <2> QED BY <2>1, KillType DEF BitSignals, Procs
<1>3. TypeOK'
  BY <1>1, <1>2 DEF TypeOK, Procs
<1>4. (Level \/ Ahead)' /\ (Level => Level') /\ (Ahead => Ahead') /\ (Sending => Sending')
  BY <1>1 DEF Level, Ahead, Sending
<1>5. ChildPlace' /\ ParentPlace'
  BY <1>1, <1>4 DEF ChildPlace, ParentPlace, InChildDie, Ended
<1>6. Waiting => Waiting'
  BY <1>1, <1>4 DEF Waiting, Ended, ChildPlace
<1>7. BitPending' /\ BitReceived' /\ BitStored' /\ BitConfirmed'
  BY <1>1, <1>2, <1>4, <1>6 DEF BitPending, BitReceived, BitStored, BitConfirmed, BitSignals
<1>8. Content'
  BY <1>1 DEF Content
<1> QED BY <1>3, <1>4, <1>5, <1>7, <1>8

LEMMA EndParent ==
  ASSUME IInv, NEW how \in Ended, pc["parent"] \notin Ended, End("parent", how),
         how # "killed" => pc["parent"] \in InChildDie
  PROVE  IInv'
<1> USE DEF IInv
<1>1. /\ pc'["parent"] = how /\ pc'["child"] = pc["child"] /\ pc' = [pc EXCEPT !["parent"] = how]
      /\ UNCHANGED <<pdeathsig, number, i, received_bit, finish_byte, out, stopped, stops, early>>
  BY DEF End, TypeOK, Procs, sender, receiver, stopping
<1>2. /\ pending' \in [Procs -> SUBSET {"USR1", "USR2", "CHLD"}]
      /\ pending'["parent"] = pending["parent"]
      /\ "USR1" \in pending'["child"] <=> "USR1" \in pending["child"]
  <2>1. Kill("child", "CHLD") \/ UNCHANGED pending
    BY DEF End
  <2> QED BY <2>1, KillType DEF TypeOK, Procs
<1>3. TypeOK'
  BY <1>1, <1>2 DEF TypeOK, Procs
<1>4. (Level \/ Ahead)' /\ (Level => Level') /\ (Ahead => Ahead') /\ (Waiting => Waiting')
  BY <1>1 DEF Level, Ahead, Waiting, Sending
<1>5. ChildPlace' /\ ParentPlace'
  BY <1>1, <1>4 DEF ChildPlace, ParentPlace, InChildDie, Ended, Sending
<1>6. BitPending' /\ BitReceived' /\ BitStored' /\ BitConfirmed'
  BY <1>1, <1>2, <1>4 DEF BitPending, BitReceived, BitStored, BitConfirmed, Ended
<1>7. Content'
  BY <1>1 DEF Content
<1> QED BY <1>3, <1>4, <1>5, <1>6, <1>7

\* A step of one process that neither sends a signal nor takes a bit; childDie may
\* keep one from its handler.
LEMMA QuietStep ==
  ASSUME IInv, NEW p \in Procs,
         NEW to \in {"getppid", "open", "read", "suspend"} \cup InChildDie,
         pc' = [pc EXCEPT ![p] = to],
         IF p = "child" THEN /\ to \in {"getppid", "open", "read"}
                             /\ UNCHANGED received_bit
                             /\ pc[p] \in {"prctl", "getppid", "open"}
                        ELSE /\ to \in {"suspend"} \cup InChildDie
                             /\ pc[p] \in {"handlers", "suspend"} \cup InChildDie,
         pending' \in [Procs -> SUBSET {"USR1", "USR2", "CHLD"}],
         pending'["child"] \cap BitSignals = pending["child"] \cap BitSignals,
         pending'["parent"] \cap BitSignals \in {{}, pending["parent"] \cap BitSignals},
         pdeathsig' \in BOOLEAN, received_bit' \in {0, 1},
         UNCHANGED <<number, i, finish_byte, out, stopped, stops, early>>
  PROVE  IInv'
<1> USE DEF IInv
<1>1. pc'[p] = to /\ \A q \in Procs : q # p => pc'[q] = pc[q]
  BY DEF TypeOK
<1>2. TypeOK'
  BY <1>1 DEF TypeOK, Procs
<1>3. (Level \/ Ahead)' /\ (Level => Level') /\ (Ahead => Ahead') /\ (Sending => Sending')
  BY DEF Level, Ahead, Sending
<1>4. ChildPlace' /\ ParentPlace'
  BY <1>1, <1>3 DEF ChildPlace, ParentPlace, InChildDie, Procs
<1>5. Waiting => Waiting'
  BY <1>1, <1>3 DEF Waiting, Procs
<1>6. "USR1" \in pending'["child"] <=> "USR1" \in pending["child"]
  BY DEF BitSignals
<1>7. pc'["parent"] \notin {"store", "confirm"} \/ UNCHANGED <<pc["parent"], received_bit>>
  BY <1>1 DEF Procs, InChildDie
<1>8. BitPending' /\ BitReceived' /\ BitStored' /\ BitConfirmed'
  BY <1>1, <1>3, <1>5, <1>6, <1>7 DEF BitPending, BitReceived, BitStored, BitConfirmed, Procs
<1>9. Content'
  BY DEF Content
<1> QED BY <1>2, <1>3, <1>4, <1>8, <1>9

\* The next byte: the child goes on only when all its bits are confirmed.
LEMMA ReadByteStep == ASSUME IInv, ReadByte PROVE IInv'
<1> USE DEF IInv
<1>1. /\ pc' = [pc EXCEPT !["child"] = "send"] /\ pc["child"] = "read"
      /\ pc'["child"] = "send" /\ pc'["parent"] = pc["parent"]
      /\ number' = number + 1 /\ i' = 0 /\ number < Len(File)
      /\ UNCHANGED <<pending, pdeathsig, received_bit, finish_byte, out, stopped, stops, early>>
  BY DEF ReadByte, Goto, TypeOK, Procs, receiver, stopping
<1>2. TypeOK'
  BY <1>1, TypeFacts DEF TypeOK, Procs
<1>3. Level' /\ Sending'
  BY <1>1, TypeFacts DEF Level, Sending, ChildPlace
<1>4. ChildPlace' /\ ParentPlace'
  BY <1>1, <1>3 DEF ChildPlace, ParentPlace, InChildDie
<1>5. ~ Waiting
  BY <1>1 DEF Waiting
<1>6. BitPending' /\ BitReceived' /\ BitStored' /\ BitConfirmed'
  BY <1>1, <1>5 DEF BitPending, BitReceived, BitStored, BitConfirmed
<1>7. Content'
  BY <1>1 DEF Content
<1> QED BY <1>2, <1>3, <1>4, <1>6, <1>7

\* The child sends a bit when no other is under way.
LEMMA SendBitStep ==
  ASSUME IInv, SendBit
  PROVE  /\ IInv'
         /\ pending["parent"] \cap BitSignals = {} /\ pc["parent"] # "store"
<1> USE DEF IInv
<1> DEFINE s == IF File[number][i + 1] = 0 THEN "USR1" ELSE "USR2"
<1>1. /\ pc' = [pc EXCEPT !["child"] = "suspend"] /\ pc["child"] = "send"
      /\ pc'["child"] = "suspend" /\ pc'["parent"] = pc["parent"]
      /\ Kill("parent", s)
      /\ UNCHANGED <<pdeathsig, number, i, received_bit, finish_byte, out, stopped, stops, early>>
  BY DEF SendBit, Goto, TypeOK, Procs, sender, receiver, stopping
<1>2. /\ pending' \in [Procs -> SUBSET {"USR1", "USR2", "CHLD"}]
      /\ pending'["child"] = pending["child"]
      /\ pending'["parent"] = pending["parent"] \/ pending'["parent"] = pending["parent"] \cup {s}
  BY <1>1, KillType DEF Procs
<1>3. ~ Waiting
  BY <1>1 DEF Waiting
<1>4. /\ pending["parent"] \cap BitSignals = {}
      /\ pc["parent"] \notin {"store", "confirm"} /\ "USR1" \notin pending["child"]
  BY <1>3 DEF BitPending, BitReceived, BitStored, BitConfirmed
<1>5. TypeOK'
  BY <1>1, <1>2 DEF TypeOK, Procs
<1>6. Level' /\ Sending'
  BY <1>1 DEF Level, Sending, ChildPlace
<1>7. ChildPlace' /\ ParentPlace' /\ Waiting'
  BY <1>1, <1>6 DEF ChildPlace, ParentPlace, InChildDie, Waiting
<1>8. pending'["parent"] \cap BitSignals \in {{}, {s}}
  BY <1>2, <1>4 DEF BitSignals
<1>9. BitPending'
  <2>1. s = IF File'[number'][i' + 1] = 0 THEN "USR1" ELSE "USR2"
    BY <1>1
  <2> QED BY <1>1, <1>2, <1>4, <1>6, <1>7, <1>8, <2>1 DEF BitPending
<1>10. BitReceived' /\ BitStored' /\ BitConfirmed'
  BY <1>1, <1>2, <1>4 DEF BitReceived, BitStored, BitConfirmed
<1>11. Content'
  BY <1>1 DEF Content
<1> QED BY <1>4, <1>5, <1>6, <1>7, <1>9, <1>10, <1>11

\* A confirmation brings the child level with the parent again.
LEMMA ChildReceiveBackStep == ASSUME IInv, ChildReceiveBack PROVE IInv'
<1> USE DEF IInv
<1>1. "USR1" \in pending["child"] /\ "USR1" \in Deliverable("child")
  BY DEF ChildReceiveBack, Deliverable
<1>2. pc["child"] = "suspend"
  BY <1>1 DEF ChildPlace, ChildReceiveBack, Deliverable, Mask, Blocked
<1>3. /\ pc' = [pc EXCEPT !["child"] = IF i + 1 < BITS THEN "send" ELSE "read"]
      /\ pc'["child"] = (IF i + 1 < BITS THEN "send" ELSE "read") /\ pc'["parent"] = pc["parent"]
      /\ i' = i + 1
      /\ pending' = [pending EXCEPT !["child"] = @ \ {"USR1"}]
      /\ UNCHANGED <<pdeathsig, number, received_bit, finish_byte, out, stopped, stops, early>>
  BY <1>2 DEF ChildReceiveBack, TypeOK, Procs, receiver, stopping
<1>4. /\ pending' \in [Procs -> SUBSET {"USR1", "USR2", "CHLD"}]
      /\ "USR1" \notin pending'["child"] /\ pending'["parent"] = pending["parent"]
  BY <1>3 DEF TypeOK, Procs
<1>5. Waiting /\ Ahead
  BY <1>1 DEF BitConfirmed
<1>6. /\ pending["parent"] \cap BitSignals = {}
      /\ pc["parent"] \notin {"store", "confirm"}
  BY <1>1, <1>5, TypeFacts DEF BitPending, BitReceived, BitStored
<1>7. TypeOK'
  BY <1>3, <1>4, <1>5, TypeFacts DEF TypeOK, Procs, Waiting, Sending
<1>8. Level'
  BY <1>3, <1>5, TypeFacts DEF Ahead, Level, Waiting, Sending
<1>9. ChildPlace' /\ ParentPlace'
  BY <1>3, <1>5, <1>8, TypeFacts DEF ChildPlace, ParentPlace, InChildDie, Waiting, Sending
<1>10. BitPending' /\ BitReceived' /\ BitStored' /\ BitConfirmed'
  BY <1>3, <1>4, <1>6 DEF BitPending, BitReceived, BitStored, BitConfirmed
<1>11. Content'
  BY <1>3 DEF Content
<1> QED BY <1>7, <1>8, <1>9, <1>10, <1>11

\* A bit that comes to childDie goes no further than received_bit.
LEMMA ReceiveInChildDie ==
  ASSUME IInv, NEW s \in BitSignals, NEW bit \in {0, 1}, Receive(s, bit),
         pc["parent"] \in InChildDie
  PROVE  IInv'
<1> DEFINE to == IF pc["parent"] = "wait" THEN "interrupted" ELSE pc["parent"]
<1>1. pc' = [pc EXCEPT !["parent"] = to] /\ to \in InChildDie
  BY DEF Receive, InChildDie, IInv, TypeOK
<1>2. /\ pending' = [pending EXCEPT !["parent"] = @ \ {"USR1", "USR2"}] /\ received_bit' = bit
      /\ UNCHANGED <<pdeathsig, number, i, finish_byte, out, stopped, stops, early>>
  BY DEF Receive, sender, stopping
<1>3. /\ pending' \in [Procs -> SUBSET {"USR1", "USR2", "CHLD"}]
      /\ pending'["child"] = pending["child"] /\ pending'["parent"] \cap BitSignals = {}
  BY <1>2 DEF IInv, TypeOK, Procs, BitSignals
<1>4. pdeathsig' \in BOOLEAN /\ "parent" \in Procs /\ "parent" # "child"
  BY <1>2 DEF IInv, TypeOK, Procs
<1> QED BY <1>1, <1>2, <1>3, <1>4, QuietStep

\* The parent has the bit that was pending, whichever handler ran.
LEMMA ReceiveStep ==
  ASSUME IInv, NEW s \in BitSignals, NEW bit \in {0, 1}, (s = "USR1") <=> (bit = 0),
         Receive(s, bit), pc["parent"] \notin InChildDie
  PROVE  IInv'
<1> USE DEF IInv
<1>1. s \in pending["parent"] /\ pc["parent"] = "suspend"
  BY DEF Receive, Deliverable, Mask, InChildDie, Blocked, BitSignals
<1>2. /\ pc' = [pc EXCEPT !["parent"] = "store"]
      /\ pc'["parent"] = "store" /\ pc'["child"] = pc["child"]
      /\ received_bit' = bit
      /\ pending' = [pending EXCEPT !["parent"] = @ \ {"USR1", "USR2"}]
      /\ UNCHANGED <<pdeathsig, number, i, finish_byte, out, stopped, stops, early>>
  BY <1>1 DEF Receive, TypeOK, Procs, sender, stopping
<1>3. /\ pending' \in [Procs -> SUBSET {"USR1", "USR2", "CHLD"}]
      /\ pending'["child"] = pending["child"] /\ pending'["parent"] \cap BitSignals = {}
  BY <1>2 DEF TypeOK, Procs, BitSignals
<1>4. /\ Waiting /\ Level /\ "USR1" \notin pending["child"]
      /\ s = IF File[number][i + 1] = 0 THEN "USR1" ELSE "USR2"
  BY <1>1 DEF BitPending
<1>5. File[number][i + 1] \in {0, 1}
  <2>1. File[number] \in Bytes /\ i + 1 \in 1..BITS
    BY <1>4, TypeFacts DEF Waiting, Sending
  <2> QED BY <2>1 DEF Bytes
<1>6. TypeOK'
  BY <1>2, <1>3 DEF TypeOK, Procs
<1>7. Level' /\ Waiting'
  BY <1>2, <1>4 DEF Level, Waiting, Sending
<1>8. ChildPlace' /\ ParentPlace'
  BY <1>1, <1>2, <1>7 DEF ChildPlace, ParentPlace, InChildDie, Sending
<1>9. BitReceived'
  BY <1>2, <1>3, <1>4, <1>5, <1>7 DEF BitReceived
<1>10. BitPending' /\ BitStored' /\ BitConfirmed'
  BY <1>2, <1>3, <1>4 DEF BitPending, BitStored, BitConfirmed
<1>11. Content'
  BY <1>2 DEF Content
<1> QED BY <1>6, <1>7, <1>8, <1>9, <1>10, <1>11

\* The bit goes to the end of the byte that the parent puts together.
LEMMA StoreBitStep == ASSUME IInv, StoreBit PROVE IInv'
<1> USE DEF IInv
<1>1. /\ pc' = [pc EXCEPT !["parent"] = "confirm"] /\ pc["parent"] = "store"
      /\ pc'["parent"] = "confirm" /\ pc'["child"] = pc["child"]
      /\ finish_byte' = Append(finish_byte, received_bit)
      /\ UNCHANGED <<pending, pdeathsig, number, i, received_bit, out, stopped, stops, early>>
  BY DEF StoreBit, Goto, TypeOK, Procs, sender, stopping
<1>2. /\ Waiting /\ Level /\ "USR1" \notin pending["child"]
      /\ received_bit = File[number][i + 1]
  BY <1>1 DEF BitReceived
<1>3. Len(finish_byte) < BITS
  BY <1>1 DEF ParentPlace
<1>4. /\ finish_byte' \in Seq({0, 1}) /\ Len(finish_byte') = Len(finish_byte) + 1
      /\ \A k \in 1..Len(finish_byte) : finish_byte'[k] = finish_byte[k]
      /\ finish_byte'[Len(finish_byte) + 1] = received_bit
  BY <1>1 DEF TypeOK
<1>5. TypeOK'
  BY <1>1, <1>3, <1>4, TypeFacts DEF TypeOK, Procs
<1>6. /\ Ahead' /\ Waiting' /\ Len(finish_byte') = i + 1
      /\ Len(finish_byte) = i /\ Len(out) + 1 = number
  BY <1>1, <1>2, <1>3, <1>4, TypeFacts DEF Level, Ahead, Waiting, Sending
<1>7. ChildPlace' /\ ParentPlace'
  BY <1>1, <1>2, <1>6 DEF ChildPlace, ParentPlace, InChildDie, Waiting, Sending
<1>8. pending["parent"] \cap BitSignals = {}
  BY <1>1 DEF BitPending
<1>9. BitPending' /\ BitReceived' /\ BitStored' /\ BitConfirmed'
  BY <1>1, <1>2, <1>6, <1>8 DEF BitPending, BitReceived, BitStored, BitConfirmed
<1>10. Content'
  <2>1. \A k \in 1..(i + 1) : finish_byte'[k] = File[number][k]
    BY <1>2, <1>4, <1>6, TypeFacts DEF Content
  <2> QED BY <1>1, <1>6, <2>1 DEF Content
<1> QED BY <1>5, <1>6, <1>7, <1>9, <1>10

\* The parent confirms a bit when no other confirmation is under way.
LEMMA ConfirmStep ==
  ASSUME IInv, Confirm
  PROVE  IInv' /\ "USR1" \notin pending["child"]
<1> USE DEF IInv
<1> DEFINE to == IF Len(finish_byte) < BITS THEN "suspend" ELSE "write"
<1>1. /\ pc' = [pc EXCEPT !["parent"] = to] /\ pc["parent"] = "confirm"
      /\ pc'["parent"] = to /\ pc'["child"] = pc["child"]
      /\ Kill("child", "USR1")
      /\ UNCHANGED <<pdeathsig, number, i, received_bit, finish_byte, out, stopped, stops, early>>
  BY DEF Confirm, Goto, TypeOK, Procs, sender, receiver, stopping
<1>2. /\ pending' \in [Procs -> SUBSET {"USR1", "USR2", "CHLD"}]
      /\ pending'["parent"] = pending["parent"]
  BY <1>1, KillType DEF Procs
<1>3. /\ Waiting /\ Ahead /\ Len(finish_byte) = i + 1 /\ "USR1" \notin pending["child"]
      /\ pending["parent"] \cap BitSignals = {}
  BY <1>1 DEF BitStored, BitPending
<1>4. TypeOK'
  BY <1>1, <1>2 DEF TypeOK, Procs
<1>5. Ahead' /\ Waiting'
  BY <1>1, <1>3 DEF Ahead, Waiting, Sending
<1>6. ChildPlace' /\ ParentPlace'
  BY <1>1, <1>3, <1>5, TypeFacts DEF ChildPlace, ParentPlace, InChildDie, Waiting, Sending
<1>7. BitPending' /\ BitReceived' /\ BitStored' /\ BitConfirmed'
  BY <1>1, <1>2, <1>3, <1>5 DEF BitPending, BitReceived, BitStored, BitConfirmed
<1>8. Content'
  BY <1>1 DEF Content
<1> QED BY <1>3, <1>4, <1>5, <1>6, <1>7, <1>8

\* A byte that is complete is printed, and the next one begins.
LEMMA WriteByteStep == ASSUME IInv, WriteByte PROVE IInv'
<1> USE DEF IInv
<1>1. /\ pc' = [pc EXCEPT !["parent"] = "suspend"] /\ pc["parent"] = "write"
      /\ pc'["parent"] = "suspend" /\ pc'["child"] = pc["child"]
      /\ out' = Append(out, finish_byte) /\ finish_byte' = <<>>
      /\ UNCHANGED <<pending, pdeathsig, number, i, received_bit, stopped, stops, early>>
  BY DEF WriteByte, Goto, TypeOK, Procs, sender, stopping
<1>2. Len(finish_byte) = BITS
  BY <1>1 DEF ParentPlace
<1>3. finish_byte \in Bytes
  BY <1>2 DEF TypeOK, Bytes
<1>4. /\ out' \in Seq(Bytes) /\ Len(out') = Len(out) + 1
      /\ \A k \in 1..Len(out) : out'[k] = out[k]
      /\ out'[Len(out) + 1] = finish_byte
      /\ finish_byte' \in Seq({0, 1}) /\ Len(finish_byte') = 0
  BY <1>1, <1>3 DEF TypeOK
<1>5. TypeOK'
  BY <1>1, <1>4, TypeFacts DEF TypeOK, Procs
<1>6. (Level => Level') /\ (Ahead => Ahead') /\ Len(out) < Len(File)
  BY <1>1, <1>2, <1>4, TypeFacts DEF Level, Ahead
<1>7. ChildPlace' /\ ParentPlace' /\ (Waiting => Waiting')
  BY <1>1, <1>4, <1>6, TypeFacts DEF ChildPlace, ParentPlace, InChildDie, Waiting, Sending
<1>8. BitPending' /\ BitReceived' /\ BitStored' /\ BitConfirmed'
  BY <1>1, <1>6, <1>7 DEF BitPending, BitReceived, BitStored, BitConfirmed
<1>9. Content'
  <2>1. finish_byte = File[Len(out) + 1]
    BY <1>2, <1>3, <1>6, TypeFacts DEF Content, Bytes
  <2> QED BY SMTT(30), <1>4, <2>1, TypeFacts DEF Content
<1> QED BY <1>5, <1>6, <1>7, <1>8, <1>9
----------------------------------------------------------------------------
(* Whoever ends, or moves without a bit                                    *)

LEMMA CheckParentStep == ASSUME IInv, CheckParent PROVE IInv'
<1>1. CASE pc["parent"] \in Ended
  BY <1>1, EndChild DEF CheckParent, Ended, Alive
<1>2. CASE pc["parent"] \notin Ended
  <2>1. pc["child"] = "getppid" /\ pc' = [pc EXCEPT !["child"] = "open"]
    BY <1>2 DEF CheckParent
  <2>2. UNCHANGED <<pending, pdeathsig, number, i, received_bit, finish_byte, out, stopped, stops, early>>
    BY <1>2 DEF CheckParent, sender, receiver, stopping
  <2> QED BY <2>1, <2>2, QuietStep DEF IInv, TypeOK, Procs
<1> QED BY <1>1, <1>2

LEMMA OpenStep == ASSUME IInv, Open PROVE IInv'
<1>1. CASE End("child", "failed")
  BY <1>1, EndChild DEF Open, Alive, Ended
<1>2. CASE ~ End("child", "failed")
  <2>1. pc["child"] = "open" /\ pc' = [pc EXCEPT !["child"] = "read"]
    BY <1>2 DEF Open
  <2>2. UNCHANGED <<pending, pdeathsig, number, i, received_bit, finish_byte, out, stopped, stops, early>>
    BY <1>2 DEF Open, sender, receiver, stopping
  <2> QED BY <2>1, <2>2, QuietStep DEF IInv, TypeOK, Procs
<1> QED BY <1>1, <1>2

LEMMA PrctlStep == ASSUME IInv, Prctl PROVE IInv'
<1>1. pc["child"] = "prctl" /\ pc' = [pc EXCEPT !["child"] = "getppid"] /\ pdeathsig' \in BOOLEAN
  BY DEF Prctl, Goto
<1>2. UNCHANGED <<pending, number, i, received_bit, finish_byte, out, stopped, stops, early>>
  BY DEF Prctl, sender, receiver, stopping
<1> QED BY <1>1, <1>2, QuietStep DEF IInv, TypeOK, Procs

LEMMA InstallHandlersStep == ASSUME IInv, InstallHandlers PROVE IInv'
<1>1. pc["parent"] = "handlers" /\ pc' = [pc EXCEPT !["parent"] = "suspend"]
  BY DEF InstallHandlers, Goto
<1>2. UNCHANGED <<pending, pdeathsig, number, i, received_bit, finish_byte, out, stopped, stops, early>>
  BY DEF InstallHandlers, sender, receiver, stopping
<1> QED BY <1>1, <1>2, QuietStep DEF IInv, TypeOK, Procs

LEMMA ChildDieStep == ASSUME IInv, ChildDie PROVE IInv'
<1>1. pc["parent"] = "suspend" /\ pc' = [pc EXCEPT !["parent"] = "child_die"]
  BY DEF ChildDie, Deliverable, Mask, InChildDie, Blocked
<1>2. /\ pending' \in [Procs -> SUBSET {"USR1", "USR2", "CHLD"}]
      /\ pending'["child"] = pending["child"] /\ pending'["parent"] = {}
  BY <1>1 DEF ChildDie, IInv, TypeOK, Procs, Deliverable, Mask
<1>3. UNCHANGED <<pdeathsig, number, i, received_bit, finish_byte, out, stopped, stops, early>>
  BY DEF ChildDie, sender, receiver, stopping
<1> QED BY <1>1, <1>2, <1>3, QuietStep DEF IInv, TypeOK, Procs, InChildDie

LEMMA WaitStep == ASSUME IInv, Wait PROVE IInv'
<1>1. pc["parent"] = "child_die" /\ pc' = [pc EXCEPT !["parent"] = "wait"]
  BY DEF Wait, Goto
<1>2. UNCHANGED <<pending, pdeathsig, number, i, received_bit, finish_byte, out, stopped, stops, early>>
  BY DEF Wait, sender, receiver, stopping
<1> QED BY <1>1, <1>2, QuietStep DEF IInv, TypeOK, Procs, InChildDie

LEMMA WaitFailsStep == ASSUME IInv, WaitFails PROVE IInv'
BY EndParent DEF WaitFails, Ended, InChildDie

LEMMA ReapStep == ASSUME IInv, Reap PROVE IInv'
BY EndParent DEF Reap, Ended, InChildDie

LEMMA DieStep == ASSUME IInv, NEW p \in Procs, Die(p) PROVE IInv'
BY EndParent, EndChild DEF Die, Ended, Procs

\* What a stop or a continue of the child does: it may leave a SIGCHLD.
LEMMA StopFacts ==
  ASSUME TypeOK, Stop \/ Continue \/ UNCHANGED vars
  PROVE  /\ UNCHANGED <<pc, pdeathsig, number, i, received_bit, finish_byte, out>>
         /\ pending' \in [Procs -> SUBSET {"USR1", "USR2", "CHLD"}]
         /\ pending'["child"] = pending["child"]
         /\ pending'["parent"] \cap BitSignals = pending["parent"] \cap BitSignals
         /\ \/ UNCHANGED <<pending, early>>
            \/ pc["parent"] = "handlers" /\ early'
<1>1. UNCHANGED <<pc, pdeathsig, number, i, received_bit, finish_byte, out>>
  BY DEF Stop, Continue, vars, sender, receiver
<1>2. CASE UNCHANGED vars
  BY <1>1, <1>2 DEF TypeOK, vars, stopping
<1>3. CASE ReportStop
  <2>1. CASE pc["parent"] = "handlers"
    <3>1. Kill("parent", "CHLD") /\ early' = TRUE
      BY <1>3, <2>1 DEF ReportStop, NoticeEarly
    <3>2. /\ pending' \in [Procs -> SUBSET {"USR1", "USR2", "CHLD"}]
          /\ pending'["child"] = pending["child"]
          /\ pending'["parent"] \in {pending["parent"], pending["parent"] \cup {"CHLD"}}
      BY <3>1, KillType DEF Procs
    <3> QED BY <1>1, <2>1, <3>1, <3>2 DEF BitSignals
  <2>2. CASE pc["parent"] # "handlers"
    <3>1. UNCHANGED pending /\ early' = early
      BY <1>3, <2>2 DEF ReportStop, NoticeEarly, TypeOK
    <3> QED BY <1>1, <3>1 DEF TypeOK
  <2> QED BY <2>1, <2>2
<1> QED BY <1>2, <1>3 DEF Stop, Continue

LEMMA StopStep == ASSUME IInv, Stop \/ Continue \/ UNCHANGED vars PROVE IInv'
<1>1. TypeOK
  BY DEF IInv
<1>2. /\ UNCHANGED <<pc, pdeathsig, number, i, received_bit, finish_byte, out>>
      /\ pending' \in [Procs -> SUBSET {"USR1", "USR2", "CHLD"}]
      /\ pending'["child"] = pending["child"]
      /\ pending'["parent"] \cap BitSignals = pending["parent"] \cap BitSignals
      /\ early' \in BOOLEAN
  <2>1. early' = early \/ early' = TRUE
    BY DEF Stop, Continue, ReportStop, NoticeEarly, vars, stopping, IInv, TypeOK
  <2> QED BY <1>1, <2>1, StopFacts DEF TypeOK
<1>3. TypeOK'
  <2>1. stopped' \in BOOLEAN
    BY <1>1 DEF Stop, Continue, vars, stopping, TypeOK
  <2>2. stops \in 0..MaxStops /\ MaxStops \in Nat
    BY <1>1, FaultAssumption DEF TypeOK
  <2>3. stops' = stops \/ (stops < MaxStops /\ stops' = stops + 1)
    BY DEF Stop, Continue, vars, stopping
  <2>4. stops' \in 0..MaxStops
    BY <2>2, <2>3
  <2> QED BY <1>1, <1>2, <2>1, <2>4 DEF TypeOK
<1>4. /\ (ChildPlace /\ ParentPlace)' /\ (Level \/ Ahead)'
      /\ (BitPending /\ BitReceived /\ BitStored /\ BitConfirmed)'
  BY <1>2 DEF IInv, ChildPlace, ParentPlace, InChildDie, Level, Ahead, Waiting, Sending,
     BitPending, BitReceived, BitStored, BitConfirmed
<1>5. Content'
  BY <1>2 DEF IInv, Content
<1> QED BY <1>3, <1>4, <1>5 DEF IInv

LEMMA StepIInv == ASSUME IInv, [Next]_vars PROVE IInv'
<1>1. CASE Child
  <2>1. CASE ReturnFromMain
    BY <2>1, EndChild DEF ReturnFromMain, Ended
  <2>2. CASE ParentDie
    BY <2>2, EndChild DEF ParentDie, Alive, Ended
  <2> QED BY <1>1, <2>1, <2>2, PrctlStep, CheckParentStep, OpenStep, ReadByteStep,
             SendBitStep, ChildReceiveBackStep DEF Child
<1>2. CASE Parent
  <2>1. CASE Receive("USR1", 0)
    BY <2>1, ReceiveStep, ReceiveInChildDie DEF BitSignals
  <2>2. CASE Receive("USR2", 1)
    BY <2>2, ReceiveStep, ReceiveInChildDie DEF BitSignals
  <2> QED BY <1>2, <2>1, <2>2, InstallHandlersStep, StoreBitStep, ConfirmStep,
             WriteByteStep, ChildDieStep, WaitStep, WaitFailsStep, ReapStep DEF Parent
<1>3. CASE \E p \in Procs : Die(p)
  BY <1>3, DieStep
<1> QED BY <1>1, <1>2, <1>3, StopStep DEF Next

----------------------------------------------------------------------------

LEMMA Invariance == Spec => []IInv
BY InitIInv, StepIInv, PTL DEF Spec

\* Every variable keeps its type, whatever the file: bits never leave the byte
\* that is put together (finish_byte and bit_mask of main.c).
THEOREM TypeCorrect == Spec => []TypeOK
BY Invariance, PTL DEF IInv

\* Whoever is killed or stopped, and whenever, the parent has printed a prefix of
\* the file and holds the first bits of the next byte.
THEOREM PrefixIsPrinted == Spec => []OutputIsPrefix
<1>1. ASSUME IInv PROVE OutputIsPrefix
  <2>1. Len(out) <= Len(File) /\ (finish_byte # <<>> => Len(out) < Len(File))
    <3>1. finish_byte # <<>> => Len(finish_byte) > 0
      BY <1>1 DEF IInv, TypeOK
    <3>2. Level \/ Ahead
      BY <1>1 DEF IInv
    <3> QED BY <1>1, <3>1, <3>2, TypeFacts DEF IInv, Level, Ahead
  <2>2. out \in Seq(Bytes) /\ File \in Seq(Bytes)
    BY <1>1, ByteAssumption DEF IInv, TypeOK
  <2>3. out = SubSeq(File, 1, Len(out))
    BY <1>1, <2>1, <2>2 DEF IInv, Content
  <2>4. ASSUME finish_byte # <<>>
        PROVE  finish_byte = SubSeq(File[Len(out) + 1], 1, Len(finish_byte))
    <3>1. File[Len(out) + 1] \in [1..BITS -> {0, 1}]
      BY <2>1, <2>2, <2>4 DEF Bytes
    <3>2. File[Len(out) + 1] \in Seq({0, 1}) /\ Len(File[Len(out) + 1]) = BITS
      BY <3>1, ByteAssumption
    <3> QED BY <1>1, <3>2, TypeFacts DEF IInv, Content, TypeOK
  <2> QED BY <2>1, <2>3, <2>4 DEF OutputIsPrefix
<1> QED BY <1>1, Invariance, PTL

\* When both have ended well the parent has printed every byte that the child has
\* read, although the SIGCHLD of the child's end overtakes other signals.
THEOREM SentIsPrinted == Spec => []AllSentIsPrinted
<1>1. ASSUME IInv PROVE AllSentIsPrinted
  <2>1. SUFFICES ASSUME pc["parent"] = "succeeded", pc["child"] = "succeeded"
                 PROVE  Len(out) = number
    BY DEF AllSentIsPrinted
  <2>2. Level /\ (number = 0 \/ i = BITS) /\ Len(finish_byte) < BITS
    BY <1>1, <2>1 DEF IInv, ChildPlace, ParentPlace, InChildDie
  <2> QED BY <1>1, <2>2, TypeFacts DEF IInv, Level
<1> QED BY <1>1, Invariance, PTL

\* No signal that carries a bit or a confirmation is sent while one of its kind
\* is pending, so none is lost to the kernel's merging of signals.
THEOREM NothingIsMerged == Spec => NothingCoalesces
<1>1. ASSUME IInv, [Next]_vars
      PROVE  [/\ SendBit => /\ pending["parent"] \cap {"USR1", "USR2"} = {}
                            /\ pc["parent"] # "store"
              /\ Confirm => "USR1" \notin pending["child"]]_vars
  BY <1>1, SendBitStep, ConfirmStep DEF BitSignals
<1> QED BY <1>1, Invariance, PTL DEF Spec, NothingCoalesces
----------------------------------------------------------------------------
(* Signals are as good as a queue                                          *)

\* The parent hears of the child's end only after it, and no bit comes then, unless
\* a SIGCHLD tells of an early stop.
EndReported ==
  /\ "CHLD" \in pending["parent"] \/ pc["parent"] \in InChildDie
       => pc["child"] \in Ended \/ early
  /\ pc["parent"] \in InChildDie => pending["parent"] \cap BitSignals = {} \/ early

LEMMA EndReportedStep ==
  ASSUME IInv, EndReported, [Next]_vars PROVE EndReported'
<1> USE DEF EndReported
<1>1. /\ pc \in [Procs -> Ended \cup InChildDie \cup
                   {"prctl", "getppid", "open", "read", "send", "suspend",
                    "handlers", "store", "confirm", "write"}]
      /\ pending \in [Procs -> SUBSET {"USR1", "USR2", "CHLD"}]
  BY DEF IInv, TypeOK
<1>2. ASSUME NEW how \in Ended, End("child", how) PROVE EndReported'
  <2>1. /\ pc'["child"] \in Ended /\ pc'["parent"] = pc["parent"]
        /\ pending'["parent"] \cap BitSignals = pending["parent"] \cap BitSignals /\ early' = early
    BY <1>1, <1>2 DEF End, Kill, Procs, stopping, BitSignals
  <2> QED BY <2>1
<1>3. ASSUME NEW how \in Ended, End("parent", how) PROVE EndReported'
  <2>1. pc' = [pc EXCEPT !["parent"] = how] /\ how \notin InChildDie /\ early' = early
    BY <1>3 DEF End, Ended, InChildDie, stopping
  <2>2. pending'["parent"] = pending["parent"]
    <3>1. UNCHANGED pending \/ Kill("child", "CHLD")
      BY <1>3 DEF End
    <3> QED BY <1>1, <3>1 DEF Kill, Procs
  <2> QED BY <1>1, <2>1, <2>2 DEF Procs
\* No other step of the two makes a SIGCHLD pending or undoes the child's end.
<1>4. ASSUME "CHLD" \in pending'["parent"] => "CHLD" \in pending["parent"],
             pc["child"] \in Ended => pc'["child"] \in Ended, early' = early,
             pc'["parent"] \in InChildDie =>
               \/ /\ pc["parent"] \in InChildDie
                  /\ pending'["parent"] \cap BitSignals \subseteq pending["parent"] \cap BitSignals
               \/ /\ "CHLD" \in pending["parent"]
                  /\ pending'["parent"] \cap BitSignals = {}
      PROVE  EndReported'
  BY <1>4
<1>5. CASE Child
  <2>1. CASE Prctl \/ ReadByte
    BY <1>1, <1>4, <2>1 DEF Prctl, ReadByte, Goto, Alive, Procs, stopping
  <2>2. CASE CheckParent
    BY <1>1, <1>2, <1>4, <2>2 DEF CheckParent, Alive, Procs, Ended, stopping
  <2>3. CASE Open
    BY <1>1, <1>2, <1>4, <2>3 DEF Open, Alive, Procs, Ended, stopping
  <2>4. CASE ReturnFromMain \/ ParentDie
    BY <1>2, <2>4 DEF ReturnFromMain, ParentDie, Ended
  <2>5. CASE SendBit
    <3>1. /\ pc["child"] \notin Ended /\ pc'["parent"] = pc["parent"] /\ early' = early
          /\ "CHLD" \in pending'["parent"] => "CHLD" \in pending["parent"]
      BY <1>1, <2>5 DEF SendBit, Goto, Kill, Alive, Procs, stopping
    <3> QED BY <3>1
  <2>6. CASE ChildReceiveBack
    BY <1>1, <1>4, <2>6 DEF ChildReceiveBack, Alive, Procs, stopping
  <2> QED BY <1>5, <2>1, <2>2, <2>3, <2>4, <2>5, <2>6 DEF Child
<1>6. CASE Parent
  <2>1. CASE InstallHandlers \/ StoreBit \/ WriteByte \/ Wait
    BY <1>1, <1>4, <2>1 DEF InstallHandlers, StoreBit, WriteByte, Wait, Goto, Procs,
       stopping, InChildDie
  <2>2. CASE Receive("USR1", 0) \/ Receive("USR2", 1)
    <3>1. /\ pc'["child"] = pc["child"] /\ early' = early
          /\ pc'["parent"] \in InChildDie => pc["parent"] \in InChildDie
          /\ pending'["parent"] = pending["parent"] \ BitSignals
      BY <1>1, <2>2 DEF Receive, Procs, stopping, BitSignals, InChildDie
    <3> QED BY <3>1 DEF BitSignals
  <2>3. CASE Confirm
    BY <1>1, <1>4, <2>3 DEF Confirm, Goto, Kill, Procs, stopping, InChildDie
  <2>4. CASE ChildDie
    BY <1>1, <1>4, <2>4 DEF ChildDie, Deliverable, Mask, Blocked, BitSignals, Procs,
       stopping, InChildDie, IInv, ParentPlace
  <2>5. CASE WaitFails \/ Reap
    BY <1>3, <2>5 DEF WaitFails, Reap, Ended
  <2> QED BY <1>6, <2>1, <2>2, <2>3, <2>4, <2>5 DEF Parent
<1>7. CASE Stop \/ Continue \/ UNCHANGED vars
  <2>1. /\ UNCHANGED pc
        /\ pending'["parent"] \cap BitSignals = pending["parent"] \cap BitSignals
        /\ \/ UNCHANGED <<pending, early>>
           \/ early'
    BY <1>7, StopFacts DEF IInv
  <2> QED BY <2>1
<1>8. CASE \E p \in Procs : Die(p)
  BY <1>2, <1>3, <1>8 DEF Die, Ended, Procs
<1> QED BY <1>5, <1>6, <1>7, <1>8 DEF Next

\* What the abstract channel holds is the bit that the child has sent and the
\* parent has not stored.
BitIsInFlight == pending["parent"] \cap BitSignals # {} \/ pc["parent"] = "store"

InFlightKnown == InFlight = IF BitIsInFlight THEN <<File[number][i + 1]>> ELSE <<>>

LEMMA InFlightIs == IInv => InFlightKnown
<1> SUFFICES ASSUME IInv PROVE InFlightKnown
  OBVIOUS
<1>1. ASSUME Waiting PROVE File[number][i + 1] \in {0, 1}
  <2>1. File[number] \in Bytes /\ i + 1 \in 1..BITS
    BY <1>1, TypeFacts DEF IInv, Waiting, Sending
  <2> QED BY <2>1 DEF Bytes
<1>2. CASE pending["parent"] \cap BitSignals # {}
  BY <1>1, <1>2 DEF IInv, BitPending, InFlight, BitSignals, InFlightKnown, BitIsInFlight
<1>3. CASE pending["parent"] \cap BitSignals = {}
  BY <1>3 DEF IInv, BitReceived, InFlight, BitSignals, InFlightKnown, BitIsInFlight
<1> QED BY <1>2, <1>3

LEMMA InFlightIsThen == IInv' => InFlightKnown'
BY InFlightIs, PTL

\* Nothing is under way when the child does not wait for a confirmation.
LEMMA NothingInFlight == ASSUME IInv, ~ Waiting PROVE InFlight = <<>>
BY InFlightIs DEF IInv, BitPending, BitReceived, InFlightKnown, BitIsInFlight

\* The child sends the bit that the parent lacks.
LEMMA NextIsSent ==
  ASSUME IInv, Level, Sending
  PROVE  Channel!NextBit = File[number][i + 1] /\ Channel!Arrived < Len(File)
BY TypeFacts DEF IInv, Level, Sending, Channel!NextBit, Channel!Arrived, Channel!Complete

Statuses == [p \in Procs |-> Status(p)]

\* Steps that the channel does not show.
LEMMA Unseen ==
  ASSUME InFlight' = InFlight, UNCHANGED <<finish_byte, out>>,
         \A p \in Procs : Status(p)' = Status(p)
  PROVE  UNCHANGED Channel!vars
BY DEF Channel!vars, Statuses

LEMMA BreakMaps ==
  ASSUME IInv, NEW p \in Procs, NEW how \in {"failed", "killed"}, End(p, how),
         p = "parent" => how = "killed"
  PROVE  Channel!Next
<1>1. /\ pc = [q \in Procs |-> pc[q]] /\ DOMAIN pc = Procs
      /\ pending \in [Procs -> SUBSET {"USR1", "USR2", "CHLD"}]
  BY TypeFacts DEF IInv, TypeOK
<1>2. pc' = [pc EXCEPT ![p] = how] /\ UNCHANGED <<received_bit, finish_byte, out, early>>
  BY DEF End, receiver, stopping
<1>3. pending'["parent"] \cap BitSignals = pending["parent"] \cap BitSignals
  BY <1>1 DEF End, Kill, Procs, BitSignals
<1>4. Statuses' = [Statuses EXCEPT ![p] = "broken"]
  BY <1>1, <1>2 DEF Statuses, Status, Procs, Ended, InChildDie
<1>5. InFlight' = InFlight \/ (p = "parent" /\ InFlight' = <<>>)
  BY <1>1, <1>2, <1>3 DEF InFlight, BitSignals, Procs, IInv, BitReceived, BitPending
<1> QED BY <1>2, <1>4, <1>5 DEF Channel!Next, Channel!Break, Procs, Statuses

LEMMA ChildMaps ==
  ASSUME IInv, IInv', Child
  PROVE  Channel!Next \/ UNCHANGED Channel!vars
<1>1. /\ pc = [q \in Procs |-> pc[q]] /\ DOMAIN pc = Procs
      /\ pending \in [Procs -> SUBSET {"USR1", "USR2", "CHLD"}]
  BY TypeFacts DEF IInv, TypeOK
\* The child goes on, and the parent's signals stay as they are.
<1>2. ASSUME NEW to \in {"getppid", "open", "read", "send"},
             pc["child"] \notin Ended,
             pc' = [pc EXCEPT !["child"] = to],
             pending'["parent"] = pending["parent"],
             UNCHANGED <<received_bit, finish_byte, out, early>>
      PROVE  UNCHANGED Channel!vars
  <2>1. InFlight' = InFlight
    BY <1>1, <1>2 DEF InFlight, Procs
  <2>2. \A p \in Procs : Status(p)' = Status(p)
    BY <1>1, <1>2 DEF Status, Procs, Ended, InChildDie, IInv, ChildPlace
  <2> QED BY <1>2, <2>1, <2>2, Unseen
<1>3. ASSUME NEW how \in {"failed", "killed"}, End("child", how)
      PROVE  Channel!Next
  BY <1>3, BreakMaps DEF Procs
<1>4. CASE Prctl
  BY <1>1, <1>2, <1>4 DEF Prctl, Goto, Alive, receiver, stopping
<1>5. CASE CheckParent
  BY <1>1, <1>2, <1>3, <1>5 DEF CheckParent, Alive, receiver, stopping, Ended
<1>6. CASE Open
  BY <1>1, <1>2, <1>3, <1>6 DEF Open, Alive, receiver, stopping, Ended
<1>7. CASE ReadByte
  BY <1>1, <1>2, <1>7 DEF ReadByte, Goto, Alive, receiver, stopping
<1>8. CASE ReturnFromMain
  <2>1. /\ pc["child"] = "read" /\ pc' = [pc EXCEPT !["child"] = "succeeded"]
        /\ UNCHANGED <<finish_byte, out, early>>
    BY <1>8 DEF ReturnFromMain, End, receiver, stopping
  <2>2. InFlight = <<>> /\ InFlight' = <<>>
    <3>1. InFlight = <<>>
      BY <2>1, NothingInFlight DEF Waiting
    <3>2. UNCHANGED received_bit /\ pending'["parent"] \cap BitSignals = pending["parent"] \cap BitSignals
      BY <1>1, <1>8 DEF ReturnFromMain, End, Kill, receiver, Procs, BitSignals
    <3>3. InFlight' = InFlight
      BY <1>1, <2>1, <3>2 DEF InFlight, Procs, BitSignals
    <3> QED BY <3>1, <3>3
  <2>3. Level /\ (number = 0 \/ i = BITS)
    BY <2>1 DEF IInv, ChildPlace
  <2>4. Channel!Complete \/ finish_byte = <<>>
    <3>1. Len(finish_byte) = 0 => finish_byte = <<>>
      BY DEF IInv, TypeOK
    <3> QED BY <2>3, <3>1, TypeFacts DEF IInv, Level, Channel!Complete
  <2>5. Statuses["child"] = "up" /\ Statuses' = [Statuses EXCEPT !["child"] = "finished"]
    BY <1>1, <2>1 DEF Statuses, Status, Procs, Ended, InChildDie
  <2>6. Channel!ChildFinishes
    BY <2>1, <2>2, <2>4, <2>5 DEF Channel!ChildFinishes, Statuses
  <2> QED BY <2>6 DEF Channel!Next
<1>9. CASE SendBit
  <2>1. /\ pc["child"] = "send" /\ pc' = [pc EXCEPT !["child"] = "suspend"]
        /\ Kill("parent", IF File[number][i + 1] = 0 THEN "USR1" ELSE "USR2")
        /\ UNCHANGED <<number, i, received_bit, finish_byte, out, early>>
    BY <1>9 DEF SendBit, Goto, sender, receiver, stopping
  <2>2. UNCHANGED Statuses
    BY <1>1, <2>1 DEF Statuses, Status, Procs, Ended, InChildDie
  <2>3. CASE pc["parent"] \in Ended
    <3>1. InFlight' = InFlight
      BY <1>1, <2>1, <2>3 DEF InFlight, Kill, Procs
    <3> QED BY <2>1, <2>2, <3>1 DEF Channel!vars, Statuses
  <2>4. CASE pc["parent"] \notin Ended
    <3>1. InFlight = <<>>
      BY <2>1, NothingInFlight DEF Waiting
    <3>2. pending'["parent"] \cap BitSignals # {}
      BY <1>1, <2>1, <2>4 DEF Kill, Procs, BitSignals
    <3>3. InFlight' = <<File[number][i + 1]>>
      BY <2>1, <3>2, InFlightIsThen DEF InFlightKnown, BitIsInFlight
    <3>4. Channel!NextBit = File[number][i + 1] /\ Channel!Arrived < Len(File)
      BY <2>1, NextIsSent DEF IInv, ChildPlace
    <3>5. InFlight' = Append(InFlight, Channel!NextBit)
      BY <3>1, <3>3, <3>4
    <3>6. Statuses["child"] = "up"
      BY <2>1 DEF Statuses, Status, Procs, Ended, InChildDie
    <3>7. Channel!Send
      BY <2>1, <2>2, <3>1, <3>4, <3>5, <3>6 DEF Channel!Send, Statuses
    <3> QED BY <3>7 DEF Channel!Next
  <2> QED BY <2>3, <2>4
<1>10. CASE ChildReceiveBack
  <2>1. pc["child"] = "suspend"
    BY <1>10 DEF IInv, ChildPlace, ChildReceiveBack, Deliverable, Mask, Blocked
  <2>2. \E to \in {"send", "read"} : pc' = [pc EXCEPT !["child"] = to]
    BY <1>10, <2>1 DEF ChildReceiveBack
  <2>3. pending'["parent"] = pending["parent"] /\ UNCHANGED <<received_bit, finish_byte, out, early>>
    BY <1>1, <1>10 DEF ChildReceiveBack, Procs, receiver, stopping
  <2> QED BY <1>2, <2>1, <2>2, <2>3 DEF Ended
<1>11. CASE ParentDie
  BY <1>3, <1>11 DEF ParentDie
<1> QED BY <1>4, <1>5, <1>6, <1>7, <1>8, <1>9, <1>10, <1>11, Zenon DEF Child

LEMMA ParentMaps ==
  ASSUME IInv, IInv', EndReported, Parent
  PROVE  Channel!Next \/ UNCHANGED Channel!vars
<1>1. /\ pc = [q \in Procs |-> pc[q]] /\ DOMAIN pc = Procs
      /\ pending \in [Procs -> SUBSET {"USR1", "USR2", "CHLD"}]
  BY TypeFacts DEF IInv, TypeOK
<1>2. ASSUME NEW to \in {"suspend", "store", "confirm", "write"},
             pc["parent"] \notin Ended \cup InChildDie,
             pc' = [pc EXCEPT !["parent"] = to], UNCHANGED early
      PROVE  UNCHANGED Statuses /\ Statuses["parent"] = "up" /\ \A p \in Procs : Status(p)' = Status(p)
  BY <1>1, <1>2 DEF Statuses, Status, Procs, Ended, InChildDie
<1>3. CASE InstallHandlers
  <2>1. /\ pc["parent"] = "handlers" /\ pc' = [pc EXCEPT !["parent"] = "suspend"]
        /\ UNCHANGED <<pending, received_bit, finish_byte, out, early>>
    BY <1>3 DEF InstallHandlers, Goto, receiver, stopping
  <2>2. InFlight' = InFlight
    BY <1>1, <2>1 DEF InFlight, Procs
  <2> QED BY <1>2, <2>1, <2>2, Unseen DEF Ended, InChildDie
<1>4. ASSUME NEW s \in BitSignals, NEW bit, Receive(s, bit)
      PROVE  Channel!Next \/ UNCHANGED Channel!vars
  <2>1. /\ s \in pending["parent"] /\ UNCHANGED <<number, i, finish_byte, out, early>>
        /\ pending'["parent"] = pending["parent"] \ {"USR1", "USR2"}
    BY <1>1, <1>4 DEF Receive, Deliverable, sender, stopping, Procs
  <2>2. CASE pc["parent"] \notin InChildDie
    <3>1. pc["parent"] = "suspend"
      BY <1>4, <2>2 DEF Receive, Deliverable, Mask, Blocked, BitSignals
    <3>2. pc' = [pc EXCEPT !["parent"] = "store"]
      BY <1>4, <3>1 DEF Receive
    <3>3. InFlight' = InFlight
      BY <1>1, <2>1, <3>1, <3>2, InFlightIs, InFlightIsThen DEF Procs, InFlightKnown, BitIsInFlight
    <3> QED BY <1>2, <2>1, <3>1, <3>2, <3>3, Unseen DEF Ended, InChildDie
\* The parent is of no use any more, and the bit is lost.
  <2>3. CASE pc["parent"] \in InChildDie
    <3>1. early
      BY <2>1, <2>3 DEF EndReported
    <3>2. \E to \in InChildDie : pc' = [pc EXCEPT !["parent"] = to]
      BY <1>1, <1>4, <2>3 DEF Receive, InChildDie
    <3>3. InFlight' = <<>>
      BY <1>1, <2>1, <3>2 DEF InFlight, InChildDie, Procs
    <3>4. Statuses' = Statuses /\ Statuses["parent"] = "broken"
      BY <1>1, <2>1, <2>3, <3>1, <3>2 DEF Statuses, Status, Procs, Ended, InChildDie
    <3>5. Statuses' = [Statuses EXCEPT !["parent"] = "broken"]
      BY <3>4 DEF Statuses
    <3>6. Channel!Break("parent")
      BY <2>1, <3>3, <3>5 DEF Channel!Break, Statuses
    <3> QED BY <3>6 DEF Channel!Next
  <2> QED BY <2>2, <2>3
<1>5. CASE StoreBit
  <2>1. /\ pc["parent"] = "store" /\ pc' = [pc EXCEPT !["parent"] = "confirm"]
        /\ finish_byte' = Append(finish_byte, received_bit)
        /\ UNCHANGED <<pending, number, i, out, early>>
    BY <1>5 DEF StoreBit, Goto, sender, stopping
  <2>2. pending["parent"] \cap BitSignals = {} /\ received_bit = File[number][i + 1]
    BY <2>1 DEF IInv, BitPending, BitReceived
  <2>3. InFlight = <<received_bit>> /\ InFlight' = <<>>
    BY <1>1, <2>1, <2>2, InFlightIs, InFlightIsThen DEF Procs, InFlightKnown, BitIsInFlight
  <2>4. ~ Channel!Complete
    BY <2>1, TypeFacts DEF IInv, ParentPlace, Channel!Complete
  <2>5. UNCHANGED Statuses /\ Statuses["parent"] = "up"
    BY <1>2, <2>1 DEF Ended, InChildDie
  <2>6. /\ InFlight # <<>> /\ InFlight' = Tail(InFlight)
        /\ finish_byte' = Append(finish_byte, Head(InFlight))
    BY <2>1, <2>3
  <2>7. Channel!Store
    BY <2>1, <2>4, <2>5, <2>6 DEF Channel!Store, Statuses
  <2> QED BY <2>7 DEF Channel!Next
<1>6. CASE Confirm
  <2>1. /\ pc["parent"] = "confirm"
        /\ \E to \in {"suspend", "write"} : pc' = [pc EXCEPT !["parent"] = to]
        /\ UNCHANGED <<received_bit, finish_byte, out, early>>
    BY <1>6 DEF Confirm, Goto, receiver, stopping
  <2>2. pending'["parent"] = pending["parent"]
    BY <1>1, <1>6 DEF Confirm, Kill, Procs
  <2>3. InFlight' = InFlight
    BY <1>1, <2>1, <2>2 DEF InFlight, Procs
  <2>4. \A p \in Procs : Status(p)' = Status(p)
    BY <1>2, <2>1 DEF Ended, InChildDie
  <2> QED BY <2>1, <2>3, <2>4, Unseen
<1>7. CASE WriteByte
  <2>1. /\ pc["parent"] = "write" /\ pc' = [pc EXCEPT !["parent"] = "suspend"]
        /\ out' = Append(out, finish_byte) /\ finish_byte' = <<>>
        /\ UNCHANGED <<pending, received_bit, early>>
    BY <1>7 DEF WriteByte, Goto, stopping
  <2>2. Channel!Complete
    BY <2>1 DEF IInv, ParentPlace, Channel!Complete
  <2>3. InFlight' = InFlight
    BY <1>1, <2>1 DEF InFlight, Procs
  <2>4. UNCHANGED Statuses /\ Statuses["parent"] = "up"
    BY <1>2, <2>1 DEF Ended, InChildDie
  <2>5. Channel!PrintByte
    BY <2>1, <2>2, <2>3, <2>4 DEF Channel!PrintByte, Statuses
  <2> QED BY <2>5 DEF Channel!Next
<1>8. CASE ChildDie
  <2>1. /\ pc["parent"] = "suspend" /\ pc' = [pc EXCEPT !["parent"] = "child_die"]
        /\ "CHLD" \in pending["parent"] /\ pending'["parent"] = {}
        /\ UNCHANGED <<received_bit, finish_byte, out, early>>
    BY <1>1, <1>8 DEF ChildDie, Deliverable, Mask, InChildDie, Blocked, receiver, stopping,
       Procs, IInv, ParentPlace
  <2>2. InFlight' = <<>>
    BY <1>1, <2>1 DEF InFlight, Procs
  <2>3. CASE early
    <3>1. Statuses' = [Statuses EXCEPT !["parent"] = "broken"]
      BY <1>1, <2>1, <2>3 DEF Statuses, Status, Procs, Ended, InChildDie
    <3>2. Channel!Break("parent")
      BY <2>1, <2>2, <3>1 DEF Channel!Break, Statuses
    <3> QED BY <3>2 DEF Channel!Next
  <2>4. CASE ~ early
    <3>1. pc["child"] \in Ended
      BY <2>1, <2>4 DEF EndReported
    <3>2. /\ Statuses["parent"] = "up" /\ Statuses["child"] # "up"
          /\ Statuses' = [Statuses EXCEPT !["parent"] = "finished"]
      BY <1>1, <2>1, <2>4, <3>1 DEF Statuses, Status, Procs, Ended, InChildDie
    <3>3. ASSUME Statuses["child"] = "finished" PROVE InFlight = <<>> /\ finish_byte = <<>>
      <4>1. pc["child"] = "succeeded"
        BY <3>1, <3>3 DEF Statuses, Status, Procs, Ended
      <4>2. Level /\ (number = 0 \/ i = BITS) /\ Len(finish_byte) < BITS
        BY <2>1, <4>1 DEF IInv, ChildPlace, ParentPlace
      <4>3. Len(finish_byte) = 0
        BY <4>2, TypeFacts DEF IInv, Level
      <4>4. finish_byte = <<>>
        BY <4>3 DEF IInv, TypeOK
      <4> QED BY <4>1, <4>4, NothingInFlight DEF Waiting
    <3>4. Channel!ParentFinishes
      BY <2>1, <2>2, <3>2, <3>3 DEF Channel!ParentFinishes, Statuses
    <3> QED BY <3>4 DEF Channel!Next
  <2> QED BY <2>3, <2>4
\* What becomes of a parent that is in childDie does not show.
<1>9. CASE Wait \/ WaitFails \/ Reap
  <2>1. \/ /\ pc' = [pc EXCEPT !["parent"] = "wait"] /\ UNCHANGED pending
        \/ \E how \in {"succeeded", "failed"} : End("parent", how)
    BY <1>9 DEF Wait, WaitFails, Reap, Goto
  <2>2. pc["parent"] \in InChildDie /\ UNCHANGED <<received_bit, finish_byte, out, early>>
    BY <1>9 DEF Wait, WaitFails, Reap, Goto, InChildDie, End, receiver, stopping
  <2>3. \E to \in {"wait", "succeeded", "failed"} : pc' = [pc EXCEPT !["parent"] = to]
    BY <2>1 DEF End
  <2>4. pending'["parent"] = pending["parent"]
    <3>1. UNCHANGED pending \/ Kill("child", "CHLD")
      BY <2>1 DEF End
    <3> QED BY <1>1, <3>1 DEF Kill, Procs
  <2>5. InFlight' = InFlight
    BY <1>1, <2>2, <2>3, <2>4 DEF InFlight, Procs, InChildDie
  <2>6. \A p \in Procs : Status(p)' = Status(p)
    BY <1>1, <2>2, <2>3 DEF Status, Procs, Ended, InChildDie
  <2> QED BY <2>2, <2>5, <2>6, Unseen
<1> QED BY <1>3, <1>4, <1>5, <1>6, <1>7, <1>8, <1>9 DEF Parent, BitSignals

\* Two kinds of signals that merge while they are pending, one variable for both
\* handlers and the answers of the parent (main.c:92-106, 137-151) implement a
\* queue of bits: nothing is lost, doubled or reordered, whoever is killed or
\* stopped, and the parent leaves a child that has finished with nothing unprinted,
\* as long as no stop before SA_NOCLDSTOP is set (main.c:118) leads it into childDie.
THEOREM SignalsAreAQueue == Spec => ImplementsBitChannel
<1>1. Init => Channel!Init /\ EndReported
  <2> SUFFICES ASSUME Init PROVE Channel!Init /\ EndReported
    OBVIOUS
  <2>1. InFlight = <<>> /\ finish_byte = <<>> /\ out = <<>> /\ EndReported
    BY DEF Init, InFlight, EndReported, Procs, InChildDie
  <2>2. [p \in Procs |-> Status(p)] = [p \in {"parent", "child"} |-> "up"]
    BY DEF Init, Status, Procs, Ended, InChildDie
  <2> QED BY <2>1, <2>2 DEF Channel!Init
<1>2. IInv /\ IInv' /\ EndReported /\ [Next]_vars => [Channel!Next]_(Channel!vars)
  <2> SUFFICES ASSUME IInv, IInv', EndReported, [Next]_vars
               PROVE  Channel!Next \/ UNCHANGED Channel!vars
    OBVIOUS
  <2>1. CASE Stop \/ Continue \/ UNCHANGED vars
    <3>1. /\ UNCHANGED <<pc, received_bit, finish_byte, out>>
          /\ pending'["parent"] \cap BitSignals = pending["parent"] \cap BitSignals
          /\ early' = early \/ pc["parent"] = "handlers"
      BY <2>1, StopFacts DEF IInv
    <3>2. InFlight' = InFlight /\ \A p \in Procs : Status(p)' = Status(p)
      BY <3>1 DEF InFlight, Status, BitSignals, Ended, InChildDie
    <3> QED BY <3>1, <3>2, Unseen
  <2>2. CASE \E p \in Procs : Die(p)
    BY <2>2, BreakMaps DEF Die
  <2> QED BY <2>1, <2>2, ChildMaps, ParentMaps DEF Next
<1> QED BY <1>1, <1>2, EndReportedStep, Invariance, PTL DEF Spec, ImplementsBitChannel, Channel!Spec
=============================================================================
