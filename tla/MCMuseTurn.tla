---- MODULE MCMuseTurn ----
(* MuseTurn for TLC.  A turn without an observer reads all kinds of records
   under both budgets; an observed one reads its identity and nothing that the
   observer does not see. *)
EXTENDS MuseTurn

Plain(kinds) == [kind : kinds, class : {"native"}]

SomeRecords ==
  Plain({"identity", "message", "delimiter", "asking", "garbled", "wall", "overflow"})
    \cup [kind : {"failure", "provisional"}, class : {"task"}]

SomeBudgets == {{"stall", "deadline"}, {"deadline"}, {}}

SelfResolving == [r \in Requests |-> 2]

(* Nothing has happened yet to a turn that just started. *)
Fresh == stage = "streaming" /\ exit = "running" /\ reads = 0 /\ ~Stopped

Quiet == \A r \in Requests : pending[r] = "clear"

Focused ==
  IF observed
  THEN /\ stall = "off" /\ ~inputFailed /\ ~aborted
       /\ decode = [FreshDecode EXCEPT !.identity = decode.identity]
       /\ reads <= 1
       /\ \A s \in Streams : pump[s] # "failed"
       /\ Gone => IF kill = "none" THEN exit = "zero" /\ Quiet ELSE exit = "signal"
       /\ finished > 0 \/ ~view.enabled =>
            deadline = "off" /\ dog = "none" /\ Len(helpers) = 1 /\ Quiet
  ELSE /\ ~decode.identity
       /\ inputFailed \/ (\E s \in Streams : pump[s] = "failed") => reads <= 1
       /\ Fresh => stall = "armed" /\ deadline = "armed"
====
