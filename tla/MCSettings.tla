------------------------------ MODULE MCSettings ------------------------------
(* SettingsSequencer with two models, only one of which can run high, on    *)
(* either harness.  A model written by an op whose effort the harness then  *)
(* refuses is what README's section on disagreements is about: the run with *)
(* refusals is pi's.                                                        *)
EXTENDS SettingsSequencer
CONSTANTS big, small, low, high
MCLadder == [m \in {big, small} |-> IF m = big THEN {low, high} ELSE {low}]
Ask(m, e) == [model |-> m, effort |-> e]
MCAsks == {Ask(small, "none"), Ask("none", high), Ask(big, low), Ask(small, high), Ask("unknown", "none")}
MCHarnesses == [claude |-> [ops |-> 3, rejects |-> FALSE, breaks |-> FALSE],
                pi |-> [ops |-> 2, rejects |-> TRUE, breaks |-> TRUE]]
===============================================================================
