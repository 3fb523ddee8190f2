----------------------------- MODULE SendContract -----------------------------
(***************************************************************************)
(* What a receipt-gated session promises its caller about sends, with no   *)
(* word of turns, gates or holds: a stop-and-wait wire.                    *)
(*                                                                         *)
(*   - sends reach the harness in the order of the calls, each at most     *)
(*     once, and none before every earlier one on the wire is settled;     *)
(*   - each send is settled once, and only a send that was on the wire is  *)
(*     reported started;                                                   *)
(*   - a settled send is never put on the wire.                            *)
(***************************************************************************)
EXTENDS Integers, Sequences

CONSTANT MaxSends  \* sends the caller makes, at most

VARIABLES
  calls,    \* sends made so far
  wire,     \* the sends put on the wire, in order
  receipt   \* what each send was told

Sends == 1 .. MaxSends
OnWire(s) == \E i \in 1 .. Len(wire) : wire[i] = s

Init ==
  /\ calls = 0
  /\ wire = <<>>
  /\ receipt = [s \in Sends |-> "none"]

(* The caller makes at most one call in a step. *)
Calls == calls' = calls \/ (calls < MaxSends /\ calls' = calls + 1)

(* Receipts only go from none to settled, and only for sends that were     *)
(* made.                                                                   *)
Settles ==
  /\ receipt' \in [Sends -> {"none", "started", "rejected"}]
  /\ \A s \in Sends : receipt'[s] # receipt[s] =>
       /\ receipt[s] = "none" /\ s <= calls'
       /\ receipt'[s] = "started" => OnWire(s)

(* The next send goes out when the wire is quiet. *)
Delivers ==
  \/ wire' = wire
  \/ \E s \in Sends :
       /\ s <= calls' /\ receipt'[s] = "none"
       /\ \A w \in Sends : OnWire(w) => w < s /\ receipt'[w] # "none"
       /\ wire' = Append(wire, s)

Next == Calls /\ Settles /\ Delivers

Spec == Init /\ [][Next]_<<calls, wire, receipt>>
===============================================================================
