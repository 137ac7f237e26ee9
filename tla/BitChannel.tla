------------------------------ MODULE BitChannel ------------------------------
(***************************************************************************)
(* What sem3/homework/task_4 promises, with no signal, mask or handler in  *)
(* sight: the bits of the file go from the child to the parent through a   *)
(* queue, one at a time, that loses, doubles and reorders none; the parent *)
(* prints a byte when it has all its bits; and it leaves only when the     *)
(* child has ended, after a child that has finished with nothing left to   *)
(* print.                                                                  *)
(***************************************************************************)
EXTENDS Naturals, Sequences

CONSTANTS
  File,      \* the bytes to send, each a sequence of bits
  BITS       \* bits of a byte

VARIABLES
  channel,      \* the bits that are sent and not stored
  finish_byte,  \* the bits that the parent has of a byte it has not printed
  out,          \* the bytes that it has printed
  status        \* "up", "finished" or "broken": of the child and of the parent

vars == <<channel, finish_byte, out, status>>

Complete == Len(finish_byte) = BITS

\* How many bytes the parent has all bits of.
Arrived == IF Complete THEN Len(out) + 1 ELSE Len(out)

\* The first bit of the file that the parent does not have.
NextBit ==
  File[Arrived + 1][IF Complete THEN 1 ELSE Len(finish_byte) + 1]

Init ==
  /\ channel = <<>> /\ finish_byte = <<>> /\ out = <<>>
  /\ status = [p \in {"parent", "child"} |-> "up"]

Send ==
  /\ status["child"] = "up"
  /\ channel = <<>> /\ Arrived < Len(File)
  /\ channel' = Append(channel, NextBit)
  /\ UNCHANGED <<finish_byte, out, status>>

Store ==
  /\ status["parent"] = "up"
  /\ channel # <<>> /\ ~ Complete
  /\ channel' = Tail(channel)
  /\ finish_byte' = Append(finish_byte, Head(channel))
  /\ UNCHANGED <<out, status>>

PrintByte ==
  /\ status["parent"] = "up"
  /\ Complete
  /\ out' = Append(out, finish_byte) /\ finish_byte' = <<>>
  /\ UNCHANGED <<channel, status>>

\* After a whole number of bytes, all received.
ChildFinishes ==
  /\ status["child"] = "up"
  /\ channel = <<>> /\ (Complete \/ finish_byte = <<>>)
  /\ status' = [status EXCEPT !["child"] = "finished"]
  /\ UNCHANGED <<channel, finish_byte, out>>

ParentFinishes ==
  /\ status["parent"] = "up" /\ status["child"] # "up"
  /\ status["child"] = "finished" => channel = <<>> /\ finish_byte = <<>>
  /\ status' = [status EXCEPT !["parent"] = "finished"]
  /\ channel' = <<>>
  /\ UNCHANGED <<finish_byte, out>>

\* What is under way to a parent that is broken is lost.
Break(p) ==
  /\ status' = [status EXCEPT ![p] = "broken"]
  /\ channel' = channel \/ (p = "parent" /\ channel' = <<>>)
  /\ UNCHANGED <<finish_byte, out>>

Next ==
  \/ Send \/ Store \/ PrintByte \/ ChildFinishes \/ ParentFinishes
  \/ \E p \in {"parent", "child"} : Break(p)

Spec == Init /\ [][Next]_vars
=============================================================================
