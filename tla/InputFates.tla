------------------------------ MODULE InputFates ------------------------------
(***************************************************************************)
(* What a session whose harness queues inputs promises about an input: it  *)
(* waits, and then exactly one thing becomes of it, for good.              *)
(*                                                                         *)
(*   - opened:  a turn carries its id;                                     *)
(*   - refused: a write failed, or the harness said no;                    *)
(*   - joined:  it was merged into a turn that carries another id or none, *)
(*              and gets no turn of its own;                               *)
(*   - dropped: the session ended first, and said so;                      *)
(*   - lost:    the session ended first, and nothing names the input.      *)
(***************************************************************************)
EXTENDS Integers

CONSTANTS
  MaxSends,   \* inputs the caller sends, at most
  Refusable,  \* whether the harness can refuse an input it was given
  Losable     \* whether the session can lose one it told the caller of

VARIABLES
  fate,     \* what became of each input
  named,    \* the inputs the harness said a run of its answers
  turns,    \* turns shown to the caller so far
  over      \* the session has ended

Sends == 1 .. MaxSends
Fates == {"unsent", "refused", "waiting", "opened", "joined", "dropped", "lost"}

Init == fate = [s \in Sends |-> "unsent"] /\ named = {} /\ turns = 0 /\ over = FALSE

Becomes(s, new) ==
  \/ new = fate[s]
  \/ fate[s] = "unsent" /\ new \in {"waiting", "refused", "opened"} /\ ~over
  \/ fate[s] = "waiting" /\ new = "opened" /\ ~over
  \/ fate[s] = "waiting" /\ new = "joined" /\ s \in named' /\ ~over
  \/ fate[s] = "waiting" /\ new = "refused" /\ Refusable /\ ~over
  \/ fate[s] = "waiting" /\ new = "dropped" /\ over'
  \/ fate[s] = "waiting" /\ new = "lost" /\ Losable /\ over'

Opens == {s \in Sends : fate[s] # "opened" /\ fate'[s] = "opened"}
Joins == {s \in Sends : fate[s] # "joined" /\ fate'[s] = "joined"}

(* A turn shown to the caller carries one input's id or none; an input is  *)
(* merged only when the harness named it, into a turn that was shown.      *)
Next ==
  /\ fate' \in [Sends -> Fates]
  /\ \A s \in Sends : Becomes(s, fate'[s])
  /\ named \subseteq named' /\ named' \subseteq Sends
  /\ turns' \in turns .. (turns + 1)
  /\ \A s, r \in Opens : s = r
  /\ Opens # {} => turns' = turns + 1
  /\ Joins # {} => turns' > 0
  /\ over => over'
  /\ over' => \A s \in Sends : fate'[s] # "waiting"

Spec == Init /\ [][Next]_<<fate, named, turns, over>>
===============================================================================
