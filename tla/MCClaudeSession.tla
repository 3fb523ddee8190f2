--------------------------- MODULE MCClaudeSession ---------------------------
(* ClaudeSession on two kinds of session: many inputs and native runs with  *)
(* no fault, which merge, reorder or ignore them; and one input with two    *)
(* permission requests, an inactivity budget, a pipe that breaks and walls. *)
EXTENDS ClaudeSession

MCScopes == {
  [sends |-> 3, runs |-> 3, requests |-> 0, stall |-> FALSE, breaks |-> FALSE, walls |-> FALSE],
  [sends |-> 1, runs |-> 2, requests |-> 2, stall |-> TRUE, breaks |-> TRUE, walls |-> TRUE] }
===============================================================================
