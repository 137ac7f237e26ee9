------------------------------- MODULE IntSet -------------------------------
(***************************************************************************)
(* What sem4/task_1/tree.c keeps of the promise to be a set of ints, with  *)
(* no node, link or free list in sight.  One call at a time; an addition   *)
(* may fail for want of memory only before it has found its place; and     *)
(* from the first deletion that is not clean, `damaged', a deletion may    *)
(* lose other elements, a search overlook one, and one be there twice, but *)
(* nothing appears that nobody added.                                      *)
(***************************************************************************)
EXTENDS Integers

CONSTANTS
  Keys,        \* the ints that the caller uses
  NO_VALUE     \* no key

VARIABLES
  live,        \* there is a set
  contents,    \* its elements
  operation,   \* of the call in progress: "idle", "allocate", "add", "delete"
  key,         \* its argument
  ret,         \* what the last call returned; 0 while one is in progress
  damaged

vars == <<live, operation, key, ret, damaged, contents>>

Init ==
  /\ live = FALSE /\ contents = {} /\ damaged = FALSE
  /\ operation = "idle" /\ key = NO_VALUE /\ ret = 0

Between == operation = "idle" /\ UNCHANGED <<operation, key>>

Create ==
  /\ Between /\ ~ live
  /\ live' \in BOOLEAN /\ contents' = {} /\ damaged' = FALSE
  /\ UNCHANGED ret

Destroy ==
  /\ Between /\ live
  /\ live' = FALSE /\ contents' = {} /\ damaged' = FALSE
  /\ ret' = 0

\* The set says no to an increase, or to a deletion when it is empty.
Configure ==
  /\ Between /\ live
  /\ ret' \in {0, -1}
  /\ UNCHANGED <<live, contents, damaged>>

DeleteNothing ==
  /\ Between /\ live
  /\ contents = {} /\ ret' = -1
  /\ UNCHANGED <<live, contents, damaged>>

Begin(op, k) ==
  /\ operation = "idle" /\ live
  /\ operation' = op /\ key' = k
  /\ ret' = 0
  /\ UNCHANGED <<live, contents, damaged>>

Allocate ==
  /\ operation = "allocate" /\ operation' = "add"
  /\ UNCHANGED <<live, contents, key, ret, damaged>>

Return(op, v) ==
  /\ operation = op
  /\ operation' = "idle" /\ key' = NO_VALUE /\ ret' = v
  /\ UNCHANGED live

AllocationFails == Return("allocate", -1) /\ UNCHANGED <<contents, damaged>>

Add ==
  /\ Return("add", 0)
  /\ damaged \/ key \notin contents
  /\ contents' = contents \cup {key}
  /\ UNCHANGED damaged

Refuse ==
  /\ Return("add", -1)
  /\ key \in contents
  /\ UNCHANGED <<contents, damaged>>

Delete ==
  /\ Return("delete", 0)
  /\ key \in contents
  /\ contents' = contents \ {key}
  /\ UNCHANGED damaged

\* The deletion that damages the set, and those that follow.
DeleteAndLose ==
  /\ Return("delete", 0)
  /\ key \in contents
  /\ damaged' /\ contents' \subseteq contents

Miss ==
  /\ Return("delete", -1)
  /\ damaged \/ key \notin contents
  /\ UNCHANGED <<contents, damaged>>

Next ==
  \/ Create \/ Destroy \/ Configure \/ DeleteNothing
  \/ \E k \in Keys, op \in {"allocate", "add", "delete"} : Begin(op, k)
  \/ Allocate \/ AllocationFails
  \/ Add \/ Refuse \/ Delete \/ DeleteAndLose \/ Miss

Spec == Init /\ [][Next]_vars
=============================================================================
