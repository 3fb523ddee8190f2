--------------------------- MODULE MCQueuedSession ---------------------------
(* QueuedSession on small instances. *)
EXTENDS QueuedSession
===============================================================================
