--------------------------- MODULE MCJsonSession ---------------------------
(* JsonSession for TLC: many commands; turns with questions and a consumer *)
(* that can die; and, alone, the one whose program never ends.             *)
EXTENDS JsonSession

MCScopes == {
  [commands |-> 2, turns |-> 0, dies |-> FALSE, breaks |-> FALSE],
  [commands |-> 1, turns |-> 1, dies |-> TRUE, breaks |-> TRUE] }
MCGone == {[commands |-> 0, turns |-> 1, dies |-> TRUE, breaks |-> FALSE]}
============================================================================
