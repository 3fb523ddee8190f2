----------------------------- MODULE MCPiSession -----------------------------
(* PiSession on small instances. *)
EXTENDS PiSession

Interrupted == \E i \in Interrupts : intr[i].phase # "unused"

(* The bounds of the run with interrupts.  Once the inactivity budget ran  *)
(* out it stops where the caller closes the session, the pipe breaks or    *)
(* the child exits: what happens then is in the other run, without         *)
(* interrupts.  A wall meets neither an interrupt nor a stall.             *)
Focused ==
  /\ stalled => ~dead /\ closer = "none" /\ ~wireClosed
  /\ limitSeen \/ stderr.wall # "none" => ~Interrupted /\ ~stalled
==============================================================================
