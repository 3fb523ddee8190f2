---- MODULE MCApprovalTurn ----
(* ApprovalTurn for TLC. *)
EXTENDS ApprovalTurn

Twist(b) == IF b THEN 1 ELSE 0

(* A behaviour is followed until it has met two of these at once, or its   *)
(* hard deadline passed over a request: stall over requests is followed.   *)
(* Requests and decisions are interchangeable, so the first comes first.   *)
First(S) == CHOOSE x \in S : TRUE
Focused ==
  /\ \A d \in Decisions : recorded[d] # NoRecord => recorded[First(Decisions)] # NoRecord
  /\ \A r \in Requests : request[r] # "unseen" => request[First(Requests)] # "unseen"
  /\ \A r \in Requests : offers[r] # {} => "deny" \in offers[r]
  /\ DeadlineArmed /\ gen = "open" /\ deadline = "off" => Seen = {}
  /\ Twist(credential) + Twist(text # "none") + Twist(files # {})
       + Twist(Cardinality(Seen) > 1) + Twist(\A d \in Decisions : recorded[d] # NoRecord)
       + Twist(stderr = "ended" /\ exit = "running")
       + Twist(decider = "ended" /\ exit = "running") + Twist(kill = "kill")
       + Twist(Exited /\ ~closing) + Twist(cancelled) + Twist(failure = "timeout") <= 1
====
