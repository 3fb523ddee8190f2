----------------------------- MODULE MuseWatch -----------------------------
(* The approval observer of a muse turn, watchMuseApprovals of
   execution/muse-approvals.ts, with the compaction fold it carries
   (interpretation/muse-compaction.ts).

   `muse exec` does not print the native requests that wait for a person, so
   hcn polls them through a helper process of its own.  A helper that does not
   start is replaced; answers come, come late, or are unreadable; and the
   observer tells its turn at most once that something pends ("task"), that
   the pending set cannot be read ("transport"), or that the helper speaks a
   protocol hcn does not ("native").

   Nothing of the turn is here: a step that reports sets watch.report, and
   MuseTurn makes the turn's step of it.                                     *)
EXTENDS Naturals, Sequences, FiniteSets

CONSTANTS
  Requests,                  \* the identities native requests may have
  AutoPolls,                 \* a request's autoResolutionMs in polls, 0: none
  APPROVAL_STUCK_POLLS,
  AUTO_RESOLVE_MARGIN_POLLS,
  MAX_AUTO_RESOLVE_POLLS,
  MAX_UNREADABLE_POLLS,
  HELPER_START_ATTEMPTS,
  MaxCompactions             \* bound: compactions the native session finishes

ASSUME WatchAssumption ==
  /\ IsFiniteSet(Requests) /\ AutoPolls \in [Requests -> Nat]
  /\ {APPROVAL_STUCK_POLLS, MAX_AUTO_RESOLVE_POLLS, MAX_UNREADABLE_POLLS,
      HELPER_START_ATTEMPTS} \subseteq Nat \ {0}
  /\ AUTO_RESOLVE_MARGIN_POLLS \in Nat /\ MaxCompactions \in Nat

VARIABLES
  watch,     \* the observer's state, one record
  helpers,   \* every helper spawned, oldest first; the last is the current one
  seen,      \* how many polls in a row each request was seen in
  view,      \* the compaction fold: enabled, inFlight, cursor, reported
  pending,   \* the native side: what waits, and whether anything answers it
  finished,  \* the native side: compactions finished, in the view's order
  stretch,   \* history: readable samples in a row that held each request
  found      \* history: the compactions handed to the turn, in order

watchVars == <<watch, helpers, seen, view, pending, finished, stretch, found>>
native == <<pending, finished>>
history == <<stretch, found>>

Reports == {"task", "transport", "native"}

Watch == [state : {"off", "on", "closed"}, report : {"no"} \cup Reports,
          initialized : BOOLEAN, streak : 0 .. MAX_UNREADABLE_POLLS,
          timer : {"off", "reply", "next"},
          asked : {"none", "initialize", "poll"}]

(* "held": the native judge will decide it; "stuck": it never does;
   "escalated": only a person can (judgeEscalated, a sandbox escalation). *)
Pending == {"clear", "held", "stuck", "escalated"}

WatchTypeOK ==
  /\ watch \in Watch
  /\ helpers \in Seq({"up", "retired", "gone"})
  /\ Len(helpers) <= HELPER_START_ATTEMPTS
  /\ seen \in [Requests -> Nat] /\ stretch \in [Requests -> Nat]
  /\ view \in [enabled : BOOLEAN, inFlight : BOOLEAN,
               cursor : 0 .. MaxCompactions, reported : SUBSET (1 .. MaxCompactions)]
  /\ pending \in [Requests -> Pending]
  /\ finished \in 0 .. MaxCompactions
  /\ found \in Seq(1 .. MaxCompactions)

WatchInit ==
  /\ watch = [state |-> "off", report |-> "no", initialized |-> FALSE,
              streak |-> 0, timer |-> "off", asked |-> "none"]
  /\ helpers = <<>>
  /\ seen = [r \in Requests |-> 0] /\ stretch = [r \in Requests |-> 0]
  /\ view = [enabled |-> TRUE, inFlight |-> FALSE, cursor |-> 0, reported |-> {}]
  /\ pending = [r \in Requests |-> "clear"]
  /\ finished = 0 /\ found = <<>>

-----------------------------------------------------------------------------
(* What the observer does with its record. *)

Observing == watch.state = "on" /\ watch.report = "no"
HelperUp == helpers # <<>> /\ helpers[Len(helpers)] = "up"

Smaller(m, n) == IF m <= n THEN m ELSE n

(* requiredPollsFor: a request that resolves itself is given its own deadline
   and a margin, and never less than the stuck window. *)
RequiredPolls(r) ==
  LET own == AutoPolls[r] + AUTO_RESOLVE_MARGIN_POLLS
  IN  IF AutoPolls[r] = 0 \/ own <= APPROVAL_STUCK_POLLS
      THEN APPROVAL_STUCK_POLLS
      ELSE Smaller(MAX_AUTO_RESOLVE_POLLS, own)

(* Once it has reported, nothing it reads counts any more. *)
Reported(w, class) == [w EXCEPT !.report = class, !.timer = "off", !.asked = "none"]

(* Mutant: the skipped sample arms no next poll. *)
Skipped_Idle(w) ==
  LET counted == [w EXCEPT !.streak = @ + 1, !.timer = "off"]
  IN  IF counted.streak >= MAX_UNREADABLE_POLLS
      THEN Reported(counted, "transport")
      ELSE counted

(* unreadable: the sample is skipped and the next poll armed, or it was one
   too many. *)
Skipped(w) ==
  LET counted == [w EXCEPT !.streak = @ + 1]
  IN  IF counted.streak >= MAX_UNREADABLE_POLLS
      THEN Reported(counted, "transport")
      ELSE [counted EXCEPT !.timer = "next"]

(* request: written under a new id, so no earlier answer counts any more, or
   not written, one more unreadable sample. *)
Asking(w, what, up) ==
  {Skipped([w EXCEPT !.asked = "none"])}
    \cup IF up THEN {[w EXCEPT !.asked = what, !.timer = "reply"]} ELSE {}

(* pollView: one page in flight at most, asked for beside the poll. *)
ViewPolled ==
  \/ view' = view
  \/ /\ HelperUp /\ view.enabled /\ ~view.inFlight /\ watch'.report = "no"
     /\ view' = [view EXCEPT !.inFlight = TRUE]

Poll(w) ==
  /\ watch' \in Asking(w, "poll", HelperUp)
  /\ ViewPolled

-----------------------------------------------------------------------------
(* Helpers *)

(* spawnHelper, then init: a spawn that throws is a verdict at once. *)
SpawnHelper(w, others) ==
  \/ /\ watch' = Reported(w, "transport")
     /\ helpers' = others
  \/ /\ helpers' = Append(others, "up")
     /\ watch' \in Asking(w, "initialize", TRUE)

WatchBegins ==
  /\ watch.state = "off"
  /\ SpawnHelper([watch EXCEPT !.state = "on"], helpers)
  /\ UNCHANGED <<seen, view, native, history>>

LastRetired(hs) ==
  [i \in DOMAIN hs |-> IF i = Len(hs) /\ hs[i] = "up" THEN "retired" ELSE hs[i]]

(* startAttemptFailed: the helper is stopped and its output disposed of, and a
   fresh one gets a start budget of its own, up to HELPER_START_ATTEMPTS. *)
StartAttemptFails(hs) ==
  LET again == [watch EXCEPT !.streak = 0]
  IN  IF Len(hs) < HELPER_START_ATTEMPTS
      THEN SpawnHelper(again, LastRetired(hs))
      ELSE watch' = Reported(again, "transport") /\ helpers' = hs

(* gone: before the handshake a start failed, after it nobody can observe. *)
Lost(hs) ==
  IF watch.initialized
  THEN watch' = Reported(watch, "transport") /\ helpers' = hs
  ELSE StartAttemptFails(hs)

HelperExits ==
  /\ HelperUp
  /\ LET hs == [helpers EXCEPT ![Len(helpers)] = "gone"]
     IN  IF Observing THEN Lost(hs) ELSE watch' = watch /\ helpers' = hs
  /\ UNCHANGED <<seen, view, native, history>>

(* One of its pipes is lost and the helper runs on. *)
PipeLost ==
  /\ HelperUp /\ Observing
  /\ Lost(helpers)
  /\ UNCHANGED <<seen, view, native, history>>

(* A helper that was stopped ends.  A line its disposal cut is one unreadable
   sample of whoever observes now. *)
RetiredEnds ==
  /\ \E i \in DOMAIN helpers :
        /\ helpers[i] = "retired"
        /\ helpers' = [helpers EXCEPT ![i] = "gone"]
  /\ watch' = watch \/ (Observing /\ watch' = Skipped(watch))
  /\ UNCHANGED <<seen, view, native, history>>

-----------------------------------------------------------------------------
(* Answers *)

(* The handshake is answered: `initialized` is written, then the first poll. *)
InitializeAnswered ==
  /\ Observing /\ HelperUp /\ watch.asked = "initialize"
  /\ LET up == [watch EXCEPT !.asked = "none", !.initialized = TRUE, !.streak = 0]
     IN  \/ Poll(up)
         \/ watch' = Skipped(up) /\ UNCHANGED view
  /\ UNCHANGED <<helpers, seen, native, history>>

Held == {r \in Requests : pending[r] # "clear"}

(* Mutant: a cleared identity keeps its count. *)
Tracked_NeverForgets == [r \in Requests |-> IF r \in Held THEN seen[r] + 1 ELSE seen[r]]

(* track, after the reconciliation: a cleared identity is forgotten. *)
Tracked == [r \in Requests |-> IF r \in Held THEN seen[r] + 1 ELSE 0]

(* A poll is answered with the pending set: a request seen long enough, or
   one that only a person can answer, is reported. *)
SampleRead ==
  /\ Observing /\ HelperUp /\ watch.asked = "poll"
  /\ seen' = Tracked
  /\ stretch' = [r \in Requests |-> IF r \in Held THEN stretch[r] + 1 ELSE 0]
  /\ LET read == [watch EXCEPT !.asked = "none", !.streak = 0, !.timer = "next"]
     IN  watch' = IF \E r \in Held : \/ pending[r] = "escalated"
                                     \/ seen'[r] >= RequiredPolls(r)
                  THEN Reported(read, "task")
                  ELSE read
  /\ UNCHANGED <<helpers, view, native, found>>

(* The answer is an error or no sample: an unknown method, or a refused
   handshake, is a protocol hcn does not speak; anything else one skip. *)
BadAnswer ==
  /\ Observing /\ HelperUp /\ watch.asked # "none"
  /\ LET answered == [watch EXCEPT !.asked = "none"]
     IN  watch' \in {Reported(answered, "native"), Skipped(answered)}
  /\ UNCHANGED <<helpers, seen, view, native, history>>

(* A line that is no answer, oversized or not JSON: also one skip, and what
   was asked may still be answered. *)
JunkLine ==
  /\ Observing /\ HelperUp
  /\ watch' = Skipped(watch)
  /\ UNCHANGED <<helpers, seen, view, native, history>>

(* The one timer: no answer in time, or the next request is due. *)
TimerFires ==
  /\ Observing /\ watch.timer # "off"
  /\ IF watch.timer = "reply"
     THEN IF watch.initialized
          THEN watch' = Skipped(watch) /\ UNCHANGED <<helpers, view>>
          ELSE StartAttemptFails(helpers) /\ UNCHANGED view
     ELSE /\ UNCHANGED helpers
          /\ IF watch.initialized
             THEN Poll(watch)
             ELSE watch' \in Asking(watch, "initialize", HelperUp) /\ UNCHANGED view
  /\ UNCHANGED <<seen, native, history>>

-----------------------------------------------------------------------------
(* The compaction fold *)

(* What a page that starts there holds and no page held before. *)
Unreported(from) == {i \in 1 .. finished : i > from /\ i \notin view.reported}

(* A page lists what it holds in the order it finished. *)
InOrder(S) ==
  LET places == 1 .. Cardinality(S)
  IN  CHOOSE s \in [places -> S] : \A i, j \in places : i < j => s[i] < s[j]

(* receiveView: a page holds the compactions finished after some point no
   later than the cursor, and may name no next cursor. *)
PageRead(from) ==
  /\ Observing /\ HelperUp /\ view.inFlight
  /\ from <= view.cursor
  /\ found' = found \o InOrder(Unreported(from))
  /\ \E cursor \in {view.cursor, finished} :
       view' = [view EXCEPT !.inFlight = FALSE, !.cursor = cursor,
                            !.reported = @ \cup Unreported(from)]
  /\ UNCHANGED <<watch, helpers, seen, native, stretch>>

(* No page: an unknown method turns the fold off, anything else, or no answer
   in its own time, is asked again with the next poll. *)
PageFails ==
  /\ watch.state = "on" /\ view.inFlight
  /\ view' \in {[view EXCEPT !.inFlight = FALSE]}
       \cup IF Observing /\ HelperUp
            THEN {[view EXCEPT !.inFlight = FALSE, !.enabled = FALSE]} ELSE {}
  /\ UNCHANGED <<watch, helpers, seen, native, history>>

-----------------------------------------------------------------------------
(* close: every helper is stopped and its output disposed of. *)
WatchCloses ==
  /\ watch.state = "on"
  /\ watch' = [watch EXCEPT !.state = "closed", !.timer = "off",
                            !.asked = "none"]
  /\ helpers' = [i \in DOMAIN helpers |->
                   IF helpers[i] = "up" THEN "retired" ELSE helpers[i]]
  /\ view' = [view EXCEPT !.inFlight = FALSE]
  /\ UNCHANGED <<seen, native, history>>

(* What close's promise waits for. *)
Reaped == \A i \in DOMAIN helpers : helpers[i] = "gone"

-----------------------------------------------------------------------------
(* The native session *)

Raise(r) ==
  /\ pending[r] = "clear"
  /\ \E how \in Pending \ {"clear"} : pending' = [pending EXCEPT ![r] = how]
  /\ UNCHANGED <<watch, helpers, seen, view, finished, history>>

Resolve(r) ==
  /\ pending[r] = "held"
  /\ \E how \in {"clear", "escalated"} : pending' = [pending EXCEPT ![r] = how]
  /\ UNCHANGED <<watch, helpers, seen, view, finished, history>>

Compact ==
  /\ finished < MaxCompactions
  /\ finished' = finished + 1
  /\ UNCHANGED <<watch, helpers, seen, view, pending, history>>

(* A step of the observer: something it waits for happens. *)
WatchStep ==
  \/ HelperExits
  \/ PipeLost
  \/ RetiredEnds
  \/ InitializeAnswered
  \/ SampleRead
  \/ BadAnswer
  \/ JunkLine
  \/ TimerFires
  \/ \E from \in 0 .. MaxCompactions : PageRead(from)
  \/ PageFails

NativeStep == (\E r \in Requests : Raise(r) \/ Resolve(r)) \/ Compact

-----------------------------------------------------------------------------
(* A turn is stopped for a request only on evidence: one that only a person
   can answer, or one that every sample of its own full window held. *)
StopsOnEvidence ==
  watch.report = "task" =>
    \E r \in Requests :
      pending[r] = "escalated" \/ stretch[r] >= RequiredPolls(r)

(* Each compaction is handed to the turn once, in the order they finished. *)
CompactionsOnce == found = InOrder(view.reported)

(* An observer that has not reported has a timer running, whatever its helpers
   did: the turn it watches cannot hang on it. *)
NeverIdle == Observing => watch.timer # "off"

(* What the observer tells its turn is true, and it never stops looking. *)
WatchTruthful == StopsOnEvidence /\ CompactionsOnce /\ NeverIdle
=============================================================================
