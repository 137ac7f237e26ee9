--------------------------- MODULE MCMessageQueue ---------------------------
(* Instances of MessageQueue.                                               *)
EXTENDS MessageQueue
=============================================================================
