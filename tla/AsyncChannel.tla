---------------------------- MODULE AsyncChannel ----------------------------
(* The channel between a session's pumps and the reader of a turn: one     *)
(* consumer, producers that await their push, and two water marks.  A step *)
(* is one synchronous segment of JavaScript: what a call or a resumed      *)
(* iterator does before it yields, awaits or returns.                      *)
EXTENDS Naturals, Sequences, FiniteSets

CONSTANTS
  HighWater,   \* past this size a push blocks
  LowWater,    \* below this size the blocked pushes are released
  Producers,   \* the callers of push, each with one push outstanding
  MaxPushes    \* pushes per producer

ASSUME MarksAssumption == HighWater \in Nat /\ LowWater \in 1 .. (HighWater + 1)
ASSUME ProducersAssumption == IsFiniteSet(Producers) /\ MaxPushes \in Nat

VARIABLES
  items,      \* pushed and not yielded
  closed,
  pressure,   \* backpressureEnabled
  blocked,    \* producers whose push has not resolved (producerWaiters)
  consumer,   \* the iterator: "out" in the consumer's hands, "asleep",
              \* "woken" with its wake resolved, "returned"
  pushes,     \* calls made by each producer
  accepted,   \* history: every item that entered the channel, in order
  yielded     \* history: every item the consumer got, in order

channelVars == <<items, closed, pressure, blocked, consumer, pushes, accepted, yielded>>

Accepted == Producers \X (1 .. MaxPushes)
Consumer == {"out", "asleep", "woken", "returned"}

ChannelInit ==
  /\ items = <<>>
  /\ closed = FALSE
  /\ pressure = TRUE
  /\ blocked = {}
  /\ consumer = "out"
  /\ pushes = [p \in Producers |-> 0]
  /\ accepted = <<>>
  /\ yielded = <<>>

(* Mutant: nobody is woken. *)
Wake_Nobody == UNCHANGED consumer

Wake == consumer' = IF consumer = "asleep" THEN "woken" ELSE consumer

(* Mutant: the size is compared before the push is counted.                *)
Full_Before == pressure /\ Len(items) > HighWater

Full == pressure /\ Len(items) + 1 > HighWater

(* push on an open channel *)
Push(p) ==
  /\ ~closed /\ p \notin blocked /\ pushes[p] < MaxPushes
  /\ pushes' = [pushes EXCEPT ![p] = @ + 1]
  /\ items' = Append(items, <<p, pushes[p] + 1>>)
  /\ accepted' = Append(accepted, <<p, pushes[p] + 1>>)
  /\ Wake
  /\ blocked' = IF Full THEN blocked \cup {p} ELSE blocked
  /\ UNCHANGED <<closed, pressure, yielded>>

(* push on a closed channel: a silent no-op *)
PushLate(p) ==
  /\ closed /\ pushes[p] < MaxPushes
  /\ pushes' = [pushes EXCEPT ![p] = @ + 1]
  /\ UNCHANGED <<items, closed, pressure, blocked, consumer, accepted, yielded>>

(* close: also again, when closed already *)
Close ==
  /\ closed' = TRUE
  /\ Wake
  /\ blocked' = {}
  /\ UNCHANGED <<items, pressure, pushes, accepted, yielded>>

ReleaseBackpressure ==
  /\ pressure' = FALSE
  /\ blocked' = {}
  /\ UNCHANGED <<items, closed, consumer, pushes, accepted, yielded>>

Iterating == consumer \in {"out", "woken"}

(* size < lowWater, the item taken *)
Low == Len(items) - 1 < LowWater

(* The iterator, run by the consumer's next() or by its wake: it yields,   *)
(* returns or sleeps.                                                      *)
Yield ==
  /\ Iterating /\ items # <<>>
  /\ items' = Tail(items)
  /\ yielded' = Append(yielded, Head(items))
  /\ blocked' = IF Low THEN {} ELSE blocked
  /\ consumer' = "out"
  /\ UNCHANGED <<closed, pressure, pushes, accepted>>

Return ==
  /\ Iterating /\ items = <<>> /\ closed
  /\ consumer' = "returned"
  /\ UNCHANGED <<items, closed, pressure, blocked, pushes, accepted, yielded>>

Sleep ==
  /\ Iterating /\ items = <<>> /\ ~closed
  /\ consumer' = "asleep"
  /\ UNCHANGED <<items, closed, pressure, blocked, pushes, accepted, yielded>>

Iterate == Yield \/ Return \/ Sleep

ChannelNext ==
  \/ \E p \in Producers : Push(p) \/ PushLate(p)
  \/ Close \/ ReleaseBackpressure
  \/ Iterate

ChannelSpec == ChannelInit /\ [][ChannelNext]_channelVars

---------------------------------------------------------------------------
(* Properties *)

(* Every variable has its type. *)
TypeOK ==
  /\ items \in Seq(Accepted)
  /\ closed \in BOOLEAN
  /\ pressure \in BOOLEAN
  /\ blocked \in SUBSET Producers
  /\ consumer \in Consumer
  /\ pushes \in [Producers -> 0 .. MaxPushes]
  /\ accepted \in Seq(Accepted)
  /\ yielded \in Seq(Accepted)

(* An iterator that sleeps has nothing to yield and nothing to end for:    *)
(* whatever arrives while it decides to sleep wakes it.                    *)
NoLostWakeup == consumer = "asleep" => items = <<>> /\ ~closed

(* A producer is blocked only behind items the consumer has yet to take,   *)
(* so producers and consumer never wait on each other.                     *)
BlockedBehindItems ==
  blocked # {} => Len(items) >= LowWater /\ consumer # "asleep" /\ ~closed /\ pressure

(* The buffer is bounded: past the high mark only producers that now wait  *)
(* have added an item.                                                     *)
Bounded == pressure /\ ~closed => Len(items) <= HighWater + Cardinality(blocked)

(* Producers never wait for a consumer that waits for them, and the buffer *)
(* holds at most one item past the high mark for each producer that waits. *)
Backpressure == BlockedBehindItems /\ Bounded

(* Items come out in the order they went in, none lost or repeated, also   *)
(* those still buffered when the channel closes.                           *)
InOrder == accepted = yielded \o items

(* The consumer returns only after every accepted item was yielded.        *)
ReturnsDrained == consumer = "returned" => yielded = accepted

(* A consumer that keeps asking gets every push unblocked, and the end of  *)
(* a closed channel.                                                       *)
ProducersResume == \A p \in Producers : p \in blocked ~> p \notin blocked
ClosedReturns == closed ~> consumer = "returned"

(* Nobody waits for ever on a channel whose consumer reads. *)
ChannelProgress == ProducersResume /\ ClosedReturns
============================================================================
