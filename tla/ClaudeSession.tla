---------------------------- MODULE ClaudeSession ----------------------------
(***************************************************************************)
(* The persistent session runner (execution/open-session.ts) on claude's   *)
(* stream-json input, with the approval tracker                            *)
(* (execution/session-approval-tracker.ts).                                *)
(*                                                                         *)
(* claude sends no receipts.  Every input carries a uuid, and the records  *)
(* of a native run name the uuids the run answers: a busy input can join   *)
(* the running turn, run later, or wait while background output runs.  A   *)
(* turn is private until a record names its input, and output that no      *)
(* record attributed gets an untagged turn.                                *)
(*                                                                         *)
(* A record is read, and handled to its end, in one step: the pump waiting *)
(* on a slow consumer is the subject of PiSession.                         *)
(***************************************************************************)
EXTENDS Integers, Sequences, FiniteSets

CONSTANTS
  MaxSends,       \* bound: inputs the caller sends
  MaxRuns,        \* bound: native runs
  MaxOutputs,     \* bound: output records and permission requests of a native run
  MaxRequests,    \* bound: permission requests; none without --native-approvals
  PendingCap,     \* NATIVE_APPROVAL_LIMITS.pending
  Scopes          \* the sessions run: options, faults, and bounds of their own

ASSUME BoundsAssumption ==
  /\ MaxSends \in Nat /\ MaxRuns \in Nat /\ MaxOutputs \in Nat
  /\ MaxRequests \in Nat /\ PendingCap \in Nat \ {0}
ASSUME ScopesAssumption ==
  Scopes \subseteq [sends : 0 .. MaxSends, runs : 0 .. MaxRuns, requests : 0 .. MaxRequests,
                    stall : BOOLEAN, breaks : BOOLEAN, walls : BOOLEAN]

Sends == 1 .. MaxSends        \* an input is named by its place in call order
Runs == 1 .. MaxRuns
Requests == 1 .. MaxRequests

VARIABLES
  scope,      \* which of Scopes this session is
  sent,       \* inputs sent so far
  refused,    \* inputs whose write failed
  dropped,    \* inputs reported dead with the session
  board,      \* the turns, and the inputs waiting for one
  ask,        \* the approval tracker's view of each request
  replied,    \* native replies written for each request
  closing,    \* no more calls are accepted
  closer,     \* where close() stands
  signal,     \* the strongest signal sent to the child
  stalled,    \* the stall clock ended a turn
  dead,       \* the child exited
  finalized,  \* finalize ran
  inbox,      \* claude: inputs it has not taken up
  run,        \* claude: the run going on, no = 0 when idle; left bounds its output
  begun,      \* claude: runs begun so far
  inputs,     \* claude: the inputs each run answers
  attested    \* history: the inputs that some record read so far named

approvals == <<ask, replied>>
life == <<closing, closer, signal, stalled, dead, finalized>>
native == <<inbox, run, begun, inputs, attested>>
vars == <<scope, sent, refused, dropped, board, approvals, life, native>>

StallArmed == scope.stall       \* the session has an inactivity budget (--stall)
PipeBreakable == scope.breaks   \* the stdin pipe can break under the session
Walls == scope.walls            \* stderr can show a wall

---------------------------------------------------------------------------
(* Types and initial state *)

(* A turn on the turns iterable: its channel, its input's id, the runs     *)
(* whose output it carries.                                                *)
PublicTurn == [no : Nat, opener : Sends \cup {0}, runs : SUBSET Runs]

(* turn, opener: activeTurn and activeTurnOpener; pending: pendingTurns;   *)
(* watched, paused: the supervisor's turnOpen and inactivityPaused.        *)
Board == [turn : Nat, opener : Sends \cup {0}, count : Nat, pending : Seq(Sends),
          turns : Seq(PublicTurn), watched : BOOLEAN, paused : BOOLEAN]

Request == [state : {"unasked", "waiting", "answered", "cleared", "denied"}, turn : Nat]
Idle == [no |-> 0, named |-> FALSE, left |-> 0]
Run == [no : Runs \cup {0}, named : BOOLEAN, left : 0 .. MaxOutputs]

Init ==
  /\ scope \in Scopes
  /\ sent = 0
  /\ refused = {}
  /\ dropped = {}
  /\ board = [turn |-> 0, opener |-> 0, count |-> 0, pending |-> <<>>, turns |-> <<>>,
              watched |-> FALSE, paused |-> FALSE]
  /\ ask = [r \in Requests |-> [state |-> "unasked", turn |-> 0]]
  /\ replied = [r \in Requests |-> 0]
  /\ closing = FALSE
  /\ closer = "none"
  /\ signal = "none"
  /\ stalled = FALSE
  /\ dead = FALSE
  /\ finalized = FALSE
  /\ inbox = {}
  /\ run = Idle
  /\ begun = 0
  /\ inputs = [n \in Runs |-> {}]
  /\ attested = {}

Closed == dead \/ closing
Waiting(a) == {r \in Requests : a[r].state = "waiting"}
BlockedOnApproval == \E r \in Waiting(ask) : ask[r].turn = board.turn

---------------------------------------------------------------------------
(* The turns: each operator is the board after a call *)

Shown(b) == \E i \in 1 .. Len(b.turns) : b.turns[i].no = b.turn
Private(b) == b.turn # 0 /\ ~Shown(b)
Public(b) == b.turn # 0 /\ Shown(b)

(* publishTurn *)
Published(b) ==
  IF Private(b)
  THEN [b EXCEPT !.turns = Append(@, [no |-> b.turn, opener |-> b.opener, runs |-> {}])]
  ELSE b

(* startTurn: provisional for an input, public for native output. *)
Started(b, s) ==
  LET c == [b EXCEPT !.turn = b.count + 1, !.count = @ + 1, !.opener = s,
                     !.watched = TRUE, !.paused = FALSE]
  IN IF s = 0 THEN Published(c) ELSE c

(* q without the inputs of S, in order. *)
Without(q, S) ==
  LET kept[n \in 0 .. Len(q)] ==
        IF n = 0 THEN <<>>
        ELSE IF q[n] \in S THEN kept[n - 1] ELSE Append(kept[n - 1], q[n])
  IN kept[Len(q)]

BackInFront(b) == IF b.opener = 0 THEN b.pending ELSE <<b.opener>> \o b.pending

(* Mutant: the input held for the turn is forgotten. *)
Untagged_Lost(b) ==
  IF Private(b) THEN Published([b EXCEPT !.opener = 0]) ELSE b

(* Mutant: uncorrelated output opens the turn of the input held for it. *)
Untagged_Tagged(b) == Published(b)

(* publishUntagged: the input held for the turn waits on. *)
Untagged(b) ==
  IF Private(b) THEN Published([b EXCEPT !.pending = BackInFront(b), !.opener = 0]) ELSE b

(* The first waiting input that S names; 0 if none. *)
FirstNamed(q, S) == IF Without(q, Sends \ S) = <<>> THEN 0 ELSE Head(Without(q, Sends \ S))

(* correlateInputUuids, on a record that names S. *)
Correlated(b, S) ==
  LET chosen == FirstNamed(b.pending, S)
      rest(q) == Without(q, S)
  IN IF Private(b) /\ b.opener \in S
       THEN Published([b EXCEPT !.pending = rest(@)])
     ELSE IF Private(b) /\ chosen # 0
       THEN Published([b EXCEPT !.pending = rest(BackInFront(b)), !.opener = chosen])
     ELSE IF Public(b) THEN [b EXCEPT !.pending = rest(@)]
     ELSE IF b.turn = 0 /\ ~Closed /\ chosen # 0
       THEN Published(Started([b EXCEPT !.pending = rest(@)], chosen))
     ELSE b

(* routeEvent and turn-end: output nobody was named for gets an untagged   *)
(* turn of its own.                                                        *)
ForOutput(b) == IF b.turn = 0 /\ ~Closed THEN Started(b, 0) ELSE Untagged(b)

(* The output of run n lands in the active turn. *)
Landed(b, n) ==
  IF Public(b) THEN [b EXCEPT !.turns[Len(b.turns)].runs = @ \cup {n}] ELSE b

(* endTurn; the requests waiting on the turn are cleared by the caller. *)
Over(b) == [Published(b) EXCEPT !.turn = 0, !.opener = 0, !.watched = FALSE]

---------------------------------------------------------------------------
(* The approval tracker *)

(* Mutant: the clock resumes whatever is still waiting. *)
Synced_Resume(b, a) == [b EXCEPT !.paused = FALSE]

(* syncStall: the clock is paused while any request waits. *)
Synced(b, a) == [b EXCEPT !.paused = Waiting(a) # {}]

Cleared(a, S) == [r \in Requests |-> IF r \in S THEN [a[r] EXCEPT !.state = "cleared"] ELSE a[r]]
OnTurn(a, n) == {r \in Waiting(a) : a[r].turn = n}

(* endTurn: the requests waiting on the turn lose their answer right. *)
EndTurn(b) ==
  IF b.turn = 0 THEN board' = b /\ UNCHANGED ask
  ELSE LET a == Cleared(ask, OnTurn(ask, b.turn))
       IN /\ ask' = a
          /\ board' = Over(IF OnTurn(ask, b.turn) = {} THEN b ELSE Synced(b, a))

---------------------------------------------------------------------------
(* Closing *)

Ended(c) == c # "none" /\ c # "draining" /\ c # "woken"
Woken(c) == IF c = "draining" THEN "woken" ELSE c
Escalated == IF signal = "none" /\ ~dead THEN "term" ELSE signal

(* A broken stdin shuts the session and signals the child. *)
Breaks == PipeBreakable /\ closing' = TRUE /\ signal' = Escalated

(* The turn is over: a close waiting on it is woken. *)
Settles(b) == EndTurn(b) /\ closer' = IF b.turn # 0 THEN Woken(closer) ELSE closer

(* close: draining, or (an abandoned session) not. *)
Close(drain) ==
  /\ ~closing /\ ~finalized
  /\ closing' = TRUE
  /\ closer' = IF drain /\ ~dead /\ board.turn # 0 /\ ~BlockedOnApproval
               THEN "draining" ELSE "ended"
  /\ UNCHANGED <<scope, sent, refused, dropped, board, approvals, signal, stalled, dead, finalized, native>>

DrainOver == dead \/ board.turn = 0 \/ BlockedOnApproval

(* The woken close looks again, and ends stdin. *)
DrainCheck ==
  /\ closer = "woken"
  /\ closer' = IF DrainOver THEN "ended" ELSE "draining"
  /\ UNCHANGED <<scope, sent, refused, dropped, board, approvals, closing, signal, stalled, dead,
                 finalized, native>>

CloseGrace ==
  /\ closer = "ended" /\ ~dead
  /\ signal = "none" /\ signal' = "term"
  /\ UNCHANGED <<scope, sent, refused, dropped, board, approvals, closing, closer, stalled, dead,
                 finalized, native>>

KillGrace ==
  /\ signal = "term" /\ ~dead /\ signal' = "kill"
  /\ UNCHANGED <<scope, sent, refused, dropped, board, approvals, closing, closer, stalled, dead,
                 finalized, native>>

(* Awake: the microtasks of a woken close run before anything else. *)
Awake == closer # "woken" /\ ~finalized

---------------------------------------------------------------------------
(* The host *)

(* send: an idle input opens a private turn, a busy one waits. *)
Send(s) ==
  /\ Awake /\ ~Closed
  /\ s = sent + 1 /\ s <= scope.sends /\ sent' = s
  /\ \/ /\ inbox' = inbox \cup {s}
        /\ board' = IF board.turn = 0 THEN Started(board, s)
                    ELSE [board EXCEPT !.pending = Append(@, s)]
        /\ UNCHANGED <<refused, closing, signal>>
     \/ /\ Breaks
        /\ refused' = refused \cup {s}
        /\ board' = Published(board)
        /\ UNCHANGED inbox
  /\ UNCHANGED <<scope, dropped, approvals, closer, stalled, dead, finalized, run, begun, inputs, attested>>

(* answerApproval: consumed before its write, so never retried.  A request *)
(* that is not waiting, or a closed session, is told so and changes nothing. *)
Decide(r) ==
  /\ Awake /\ ~Closed
  /\ ask[r].state = "waiting"
  /\ ask' = [ask EXCEPT ![r].state = "answered"]
  /\ \/ /\ replied' = [replied EXCEPT ![r] = @ + 1]
        /\ board' = Synced(board, ask')
        /\ UNCHANGED <<closing, signal>>
     \/ /\ Breaks
        /\ board' = Synced(Published(board), ask')
        /\ UNCHANGED replied
  /\ UNCHANGED <<scope, sent, refused, dropped, closer, stalled, dead, finalized, native>>

---------------------------------------------------------------------------
(* The harness *)

Going == Awake /\ run.no # 0
HostStill == UNCHANGED <<scope, sent, refused, dropped, closing, signal, stalled, dead, finalized>>

(* A run takes up some inputs, or none: background output. *)
RunStarts(S) ==
  /\ Awake /\ run.no = 0 /\ begun < scope.runs
  /\ begun' = begun + 1
  /\ run' = [no |-> begun', named |-> FALSE, left |-> MaxOutputs]
  /\ inputs' = [inputs EXCEPT ![begun'] = S]
  /\ inbox' = inbox \ S
  /\ HostStill
  /\ UNCHANGED <<board, approvals, closer, attested>>

(* A queued input joins the run. *)
Joins(S) ==
  /\ Going /\ S # {}
  /\ inputs' = [inputs EXCEPT ![run.no] = @ \cup S]
  /\ inbox' = inbox \ S
  /\ HostStill
  /\ UNCHANGED <<board, approvals, closer, run, begun, attested>>

(* The first record of a run that answers inputs names them; inner frames  *)
(* omit them, and a run that answers none names none.                      *)
Names(naming) ==
  /\ naming => inputs[run.no] # {}
  /\ ~naming => run.named \/ inputs[run.no] = {}
  /\ attested' = IF naming THEN attested \cup inputs[run.no] ELSE attested
After(naming) == IF naming THEN Correlated(board, inputs[run.no]) ELSE board

(* system init, status: names the run's inputs and shows no output. *)
InitRead ==
  /\ Going /\ Names(TRUE)
  /\ board' = After(TRUE)
  /\ run' = [run EXCEPT !.named = TRUE]
  /\ HostStill
  /\ UNCHANGED <<approvals, closer, inbox, begun, inputs>>

OutputRead(naming) ==
  /\ Going /\ run.left > 0 /\ Names(naming)
  /\ board' = Landed(ForOutput(After(naming)), run.no)
  /\ run' = [run EXCEPT !.named = @ \/ naming, !.left = @ - 1]
  /\ HostStill
  /\ UNCHANGED <<approvals, closer, inbox, begun, inputs>>

(* turn-end: the result names every input of the run. *)
ResultRead ==
  /\ Going
  /\ LET naming == inputs[run.no] # {}
     IN Names(naming) /\ Settles(ForOutput(After(naming)))
  /\ run' = Idle
  /\ HostStill
  /\ UNCHANGED <<replied, inbox, begun, inputs>>

---------------------------------------------------------------------------
(* Permission requests of the run *)

Known(r) == ask[r].state \in {"waiting", "answered"}

(* approval-request: a request opens a turn like any output, waits, and    *)
(* wakes a draining close; one past the cap is denied.                     *)
Offered(r) ==
  LET b == Landed(ForOutput(board), run.no)
      full == Cardinality(Waiting(ask)) >= PendingCap
  IN \/ /\ ~full
        /\ ask' = [ask EXCEPT ![r] = [state |-> "waiting", turn |-> b.turn]]
        /\ board' = Synced(b, ask')
        /\ UNCHANGED <<replied, closing, signal>>
     \/ /\ full
        /\ ask' = [ask EXCEPT ![r].state = "denied"]
        /\ board' = b
        /\ \/ replied' = [replied EXCEPT ![r] = @ + 1] /\ UNCHANGED <<closing, signal>>
           \/ Breaks /\ UNCHANGED replied

(* Mutant: the request does not wake a draining close. *)
OfferWakes_Nobody == UNCHANGED closer

OfferWakes == closer' = Woken(closer)

RequestRead(r) ==
  /\ Going /\ run.left > 0 /\ Names(FALSE)
  /\ run' = [run EXCEPT !.left = @ - 1]
  /\ r <= scope.requests
  /\ \/ ask[r].state = "unasked" /\ (r > 1 => ask[r - 1].state # "unasked")
     \/ ask[r].state \in {"waiting", "answered"}   \* the child repeats itself
  /\ \/ /\ ~Known(r) /\ Offered(r)
     \/ /\ Known(r) /\ UNCHANGED <<ask, board, replied, closing, signal>>
  /\ OfferWakes
  /\ UNCHANGED <<scope, sent, refused, dropped, stalled, dead, finalized, inbox, begun, inputs>>

(* approval-cancelled: the child gave its request up. *)
CancelRead(r) ==
  /\ Going /\ ask[r].state = "waiting"
  /\ ask' = Cleared(ask, {r})
  /\ board' = Synced(board, ask')
  /\ HostStill
  /\ UNCHANGED <<replied, closer, native>>

---------------------------------------------------------------------------
(* Timers, pipes and the process *)

(* A wall on stderr: an error of the session, owed to the turn. *)
WallRead ==
  /\ Awake /\ Walls
  /\ board' = Published(board)
  /\ UNCHANGED <<scope, sent, refused, dropped, approvals, life, native>>

(* onStall *)
Stall ==
  /\ Awake
  /\ StallArmed /\ board.watched /\ ~board.paused
  /\ stalled' = TRUE
  /\ Settles(board)
  /\ signal' = Escalated
  /\ UNCHANGED <<scope, sent, refused, dropped, replied, closing, dead, finalized, native>>

(* The pipe breaks with no write in progress. *)
InputError ==
  /\ Awake /\ ~Closed /\ Breaks
  /\ ask' = Cleared(ask, Waiting(ask))
  /\ board' = Synced(Published(board), ask')
  /\ UNCHANGED <<scope, sent, refused, dropped, replied, closer, stalled, dead, finalized, native>>

Exited ==
  /\ Awake /\ ~dead
  /\ dead' = TRUE
  /\ board' = [board EXCEPT !.watched = FALSE]
  /\ closer' = Woken(closer)
  /\ UNCHANGED <<scope, sent, refused, dropped, approvals, closing, signal, stalled, finalized, native>>

(* finalize: the requests still waiting are cleared, the inputs still      *)
(* waiting are reported dropped, and the open turn ends.                   *)
Finalize ==
  /\ Awake /\ dead
  /\ finalized' = TRUE
  /\ ask' = Cleared(ask, Waiting(ask))
  /\ dropped' = {board.pending[i] : i \in 1 .. Len(board.pending)}
  /\ board' = [Over(Synced(board, ask')) EXCEPT !.pending = <<>>]
  /\ UNCHANGED <<scope, sent, refused, replied, closing, closer, signal, stalled, dead, native>>

Done == finalized /\ UNCHANGED vars

---------------------------------------------------------------------------
(* The specification *)

Native ==
  \/ \E S \in SUBSET inbox : RunStarts(S) \/ Joins(S)
  \/ InitRead \/ ResultRead
  \/ \E naming \in BOOLEAN : OutputRead(naming)
  \/ \E r \in Requests : RequestRead(r) \/ CancelRead(r)

Next ==
  \/ \E s \in Sends : Send(s)
  \/ \E r \in Requests : Decide(r)
  \/ \E drain \in BOOLEAN : Close(drain)
  \/ DrainCheck \/ CloseGrace \/ KillGrace
  \/ Native \/ WallRead
  \/ Stall \/ InputError \/ Exited \/ Finalize \/ Done

Spec == Init /\ [][Next]_vars

(* Timers fire, a killed child exits, and finalize follows the exit.       *)
(* Nothing is assumed of the harness or the host.                          *)
FairSpec ==
  /\ Spec
  /\ WF_vars(DrainCheck) /\ WF_vars(CloseGrace) /\ WF_vars(KillGrace) /\ WF_vars(Stall)
  /\ WF_vars(signal = "kill" /\ Exited) /\ WF_vars(Finalize)

---------------------------------------------------------------------------
(* Properties *)

(* Every variable keeps its type. *)
TypeOK ==
  /\ scope \in Scopes
  /\ sent \in 0 .. MaxSends
  /\ refused \subseteq Sends
  /\ dropped \subseteq Sends
  /\ board \in Board
  /\ ask \in [Requests -> Request]
  /\ replied \in [Requests -> Nat]
  /\ closer \in {"none", "draining", "woken", "ended"}
  /\ signal \in {"none", "term", "kill"}
  /\ {closing, stalled, dead, finalized} \subseteq BOOLEAN
  /\ inbox \subseteq Sends
  /\ run \in Run
  /\ begun \in 0 .. MaxRuns
  /\ inputs \in [Runs -> SUBSET Sends]
  /\ attested \subseteq Sends

(* A turn that carries an input's id carries the output of runs that       *)
(* answer it: background output, or another input's run, never lands in a  *)
(* caller's turn.  (An error the session meets by itself, a wall or a pipe *)
(* that broke, publishes a private turn with its input's id before the     *)
(* harness says whose output comes next.)                                  *)
OutputBelongs ==
  ~Walls /\ ~PipeBreakable =>
    \A i \in 1 .. Len(board.turns) :
      LET t == board.turns[i] IN t.opener # 0 => \A n \in t.runs : t.opener \in inputs[n]

PendingSet == {board.pending[i] : i \in 1 .. Len(board.pending)}
Openers == {board.turns[i].opener : i \in 1 .. Len(board.turns)}

(* What became of an input, as InputFates tells it. *)
Fate(s) ==
  IF s > sent THEN "unsent"
  ELSE IF s \in refused THEN "refused"
  ELSE IF s \in dropped THEN "dropped"
  ELSE IF s \in PendingSet \/ (s = board.opener /\ Private(board)) THEN "waiting"
  ELSE IF s \in Openers THEN "opened"
  ELSE "joined"

Promise == INSTANCE InputFates
  WITH fate <- [s \in Sends |-> Fate(s)], named <- attested, turns <- Len(board.turns), over <- finalized,
       Refusable <- FALSE, Losable <- FALSE

(* Each accepted input waits, and then opens one turn, joins a turn, or is *)
(* reported dropped: never two of them, never none, never back again.      *)
ImplementsFates == Promise!Spec

(* A request waits on the live turn, so that its cleared event lands in    *)
(* that turn, ahead of its done; one raised with no turn open waits only   *)
(* in a session that is ending.                                            *)
WaitsOnLiveTurn ==
  \A r \in Waiting(ask) : ask[r].turn = board.turn \/ (ask[r].turn = 0 /\ Closed)

(* A human is deciding, so quiet is not inactivity; and it is again once   *)
(* nothing waits.                                                          *)
PausedWhileWaiting == board.watched => (board.paused <=> Waiting(ask) # {})

(* A request gets one native reply at most, however often the child asks   *)
(* and the host answers; an answered one gets its reply unless the pipe    *)
(* broke.                                                                  *)
OneReply ==
  \A r \in Requests :
    /\ replied[r] <= (IF ask[r].state \in {"answered", "denied"} THEN 1 ELSE 0)
    /\ ask[r].state \in {"answered", "denied"} /\ replied[r] = 0 => PipeBreakable /\ closing

(* What the tracker owes the host, the child and the stall clock. *)
ApprovalsInv == WaitsOnLiveTurn /\ PausedWhileWaiting /\ OneReply

(* A draining close lets the turn finish: stdin does not end under the run *)
(* of the live turn's own input, unless it waits for a decision that can   *)
(* no longer come.                                                         *)
DrainLetsTurnFinish ==
  [][closer = "woken" /\ closer' = "ended" /\ run.no # 0 /\ board.opener \in inputs[run.no] =>
       dead \/ BlockedOnApproval]_vars

(* Closing or abandoning a session ends it, waiting requests or not.  (With *)
(* no inactivity budget a harness that says nothing hangs the close.)      *)
CloseEnds == StallArmed => (closing ~> finalized)

(* A close ends the session, and no sooner than its turn. *)
ClosesCleanly == DrainLetsTurnFinish /\ CloseEnds
===============================================================================
