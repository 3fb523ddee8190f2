----------------------------- MODULE PiSession -----------------------------
(***************************************************************************)
(* The persistent session runner (execution/open-session.ts) on the        *)
(* pi-rpc-prompt input: one harness process, many turns.                   *)
(*                                                                         *)
(* The caller sends inputs and interrupts; pi answers each written send    *)
(* with a receipt, runs at most one native run, and settles it.  hcn keeps *)
(* at most one unanswered send on the wire (the gate), holds the others,   *)
(* opens a provisional turn for an idle send, and owes every accepted send *)
(* exactly one receipt and every public turn exactly one `done`.           *)
(*                                                                         *)
(* JavaScript runs a handler to completion, so an action is one handler,   *)
(* cut only where the code awaits.  A handler waits on the channel of a    *)
(* turn whose consumer is slow; meanwhile callers, timers and the process  *)
(* go on, and the handler reads the session's state again when it resumes. *)
(***************************************************************************)
EXTENDS Integers, Sequences, FiniteSets

CONSTANTS
  MaxSends,       \* bound: sends the caller makes
  MaxInterrupts,  \* bound: interrupts the caller makes
  StallArmed,     \* whether the session has an inactivity budget (--stall)
  PipeBreakable,  \* whether the stdin pipe can break under the session
  Walls,          \* the walls the harness can print: limit, or error (auth, trust)
  ExitCodes       \* how the child can exit

ASSUME SendsAssumption == MaxSends \in Nat
ASSUME InterruptsAssumption == MaxInterrupts \in Nat
ASSUME EnvironmentAssumption ==
  /\ StallArmed \in BOOLEAN
  /\ PipeBreakable \in BOOLEAN
  /\ Walls \subseteq {"limit", "error"}
  /\ ExitCodes \subseteq {"zero", "nonzero", "signal"}

Sends == 1 .. MaxSends            \* a send is named by its token, in call order
Interrupts == 1 .. MaxInterrupts

VARIABLES
  sent,        \* sends accepted so far
  outcome,     \* what each send's promise resolved to
  awaiting,    \* awaitingReceipt: sends a native answer or the close can settle
  held,        \* heldSends: accepted, not yet written, oldest first
  gate,        \* gatedInFlight: the send on the wire, 0 when the wire is free
  written,     \* the sends written to the harness's stdin, in order
  turn,        \* the active turn, provisional or public
  turnCount,   \* turns opened so far; a turn's number is its channel's identity
  ended,       \* history: the turns that are over
  parked,      \* preTurnEvents holds a failure for the next published turn
  intr,        \* the interrupts and what became of them
  closing,     \* no more calls are accepted
  closer,      \* where close() stands
  wireClosed,  \* nothing more may be written
  stalled,     \* the stall clock ended a turn
  limitSeen,   \* a limit wall was seen in this session
  signal,      \* the strongest signal sent to the child
  exit,        \* how the child exited, as the exited handler saw it
  cause,       \* the session's cause, once finalize ran
  pump,        \* the stdout pump: reading, or suspended inside a handler
  stderr,      \* the stderr pump: reading, or suspended inside a wall
  answer,      \* the harness: what it answered to each send
  nrun         \* the harness: the send whose native run is going, 0 when idle

sends == <<sent, outcome, awaiting, held, gate, written>>
turns == <<turn, turnCount, ended, parked>>
life == <<closing, closer, wireClosed, stalled, limitSeen, signal, exit, cause>>
native == <<answer, nrun>>
pumps == <<pump, stderr>>
vars == <<sends, turns, intr, life, pumps, native>>

---------------------------------------------------------------------------
(* Types and initial state *)

Outcomes == {"none", "started", "native-rejected", "closed", "write-failed"}
Faults == {"error", "failure", "limit"}
Causes == {"clean", "failed", "limit", "crash", "stall", "killed"}
Settlements == {"natural", "aborted", "refused", "handled", "stall", "death"}
Answers == {"none", "started", "queued", "handled", "failed"}
Fates == {"none", "interrupted", "not-active"}
InterruptReceipts == Fates \cup {"native-rejected", "closed", "write-failed"}

(* `armed` is the stall clock of the turn: beginTurn arms it and the       *)
(* process exit disarms it.                                                *)
Turn == [no : Nat, opener : Sends \cup {0}, accepted : BOOLEAN, published : BOOLEAN,
         faults : SUBSET Faults, armed : BOOLEAN]

NoTurn == [no |-> 0, opener |-> 0, accepted |-> FALSE, published |-> FALSE,
           faults |-> {}, armed |-> FALSE]

EndedTurn == [no : Nat, opener : Sends \cup {0}, faults : SUBSET Faults,
              cause : Causes \cup {"retired"}, by : Settlements]

Interrupt == [phase : {"unused", "asked", "bound", "over"}, target : Nat,
              seen : Fates, receipt : InterruptReceipts]

Reading == [at |-> "reading", on |-> 0, send |-> 0, aborted |-> FALSE]
Pump == [at : {"reading", "passing", "refusing", "refused", "settling", "settled"},
         on : Nat, send : Sends \cup {0}, aborted : BOOLEAN]

Scanning == [wall |-> "none", on |-> 0]

Init ==
  /\ sent = 0
  /\ outcome = [s \in Sends |-> "none"]
  /\ awaiting = {}
  /\ held = <<>>
  /\ gate = 0
  /\ written = <<>>
  /\ turn = NoTurn
  /\ turnCount = 0
  /\ ended = {}
  /\ parked = FALSE
  /\ intr = [i \in Interrupts |->
               [phase |-> "unused", target |-> 0, seen |-> "none", receipt |-> "none"]]
  /\ closing = FALSE
  /\ closer = "none"
  /\ wireClosed = FALSE
  /\ stalled = FALSE
  /\ limitSeen = FALSE
  /\ signal = "none"
  /\ exit = "none"
  /\ cause = "none"
  /\ pump = Reading
  /\ stderr = Scanning
  /\ answer = [s \in Sends |-> "none"]
  /\ nrun = 0

dead == exit # "none"
finalized == cause # "none"
Live == turn.no # 0
Written(s) == \E i \in 1 .. Len(written) : written[i] = s

(* A producer suspended on a channel that has closed is released at once:  *)
(* its continuation is a microtask, ahead of every caller, timer and       *)
(* process event.                                                          *)
Released == \/ pump.on # 0 /\ pump.on # turn.no
            \/ stderr.on # 0 /\ stderr.on # turn.no
Quiet == ~Released /\ ~finalized

(* A record is read only by a pump that is not suspended. *)
Listening == pump = Reading /\ ~finalized

---------------------------------------------------------------------------
(* The turn: publishTurn, routeEvent, startTurn, endTurn as functions of a *)
(* turn, so that a handler can end one turn and open the next.             *)

Publish(t) ==
  IF t.no = 0 \/ t.published THEN t
  ELSE [t EXCEPT !.published = TRUE,
                 !.faults = IF parked THEN @ \cup {"failure"} ELSE @]

(* An error or a failure observed while a turn is live is owed to it. *)
Blame(t, faults) ==
  IF t.no = 0 THEN t ELSE [Publish(t) EXCEPT !.faults = @ \cup faults]

(* startTurn, provisional; an open turn takes a send as a steer instead. *)
NewTurn(s) == [no |-> turnCount + 1, opener |-> s, accepted |-> FALSE,
               published |-> FALSE, faults |-> {}, armed |-> TRUE]
OpenFor(s, t) == IF t.no = 0 THEN NewTurn(s) ELSE t

Verdict(base, faults) ==
  IF base = "clean" /\ "failure" \in faults THEN "failed" ELSE base

(* endTurn publishes first: only a handled input retires a turn unseen. *)
Over(t, base, by) ==
  LET p == Publish(t) IN
  [no |-> p.no, opener |-> p.opener, faults |-> p.faults,
   cause |-> Verdict(base, p.faults), by |-> by]

Retired(t) ==
  [no |-> t.no, opener |-> t.opener, faults |-> t.faults,
   cause |-> "retired", by |-> "handled"]

Ends(t, base, by) == ended' = IF t.no = 0 THEN ended ELSE ended \cup {Over(t, base, by)}

(* A native settlement: a limit wall seen in the turn decides its cause. *)
SettledBase(t) == IF "limit" \in t.faults THEN "limit" ELSE "clean"

(* clearActiveTurn releases a close() waiting on the turn. *)
Waken(c) == IF c = "waiting" THEN "woken" ELSE c

(* The failures parked between turns leave with the next published turn. *)
Flushed == \/ turn'.published /\ ~(turn.published /\ turn'.no = turn.no)
           \/ \E e \in ended' \ ended : e.cause # "retired" /\ ~(turn.published /\ e.no = turn.no)
TurnsMoved == /\ turnCount' = IF turn'.no > turnCount THEN turn'.no ELSE turnCount
              /\ parked' = (parked /\ ~Flushed)

---------------------------------------------------------------------------
(* The wire *)

Escalated == IF signal = "none" /\ ~dead THEN "term" ELSE signal

(* A broken stdin pipe: no more calls, no more writes, end the child. *)
PipeBreaks ==
  /\ PipeBreakable
  /\ closing' = TRUE
  /\ wireClosed' = TRUE
  /\ signal' = Escalated

PipeHolds == UNCHANGED <<closing, wireClosed, signal>>

(* A promise keeps the first value it resolves to. *)
Settle(f, s, v) == [f EXCEPT ![s] = IF @ = "none" THEN v ELSE @]

(* The wire is free: write the oldest hold.  `t` is the turn the handler   *)
(* leaves, `result` and `left` its receipts; busyness is read now.         *)
WriteNextHold(t, result, left) ==
  \/ /\ dead \/ wireClosed \/ held = <<>>
     /\ gate' = 0
     /\ turn' = t
     /\ outcome' = result
     /\ awaiting' = left
     /\ PipeHolds
     /\ UNCHANGED <<held, written>>
  \/ /\ ~dead /\ ~wireClosed /\ held # <<>>
     /\ gate' = Head(held)
     /\ held' = Tail(held)
     /\ \/ /\ written' = Append(written, Head(held))
           /\ turn' = OpenFor(Head(held), t)
           /\ outcome' = result
           /\ awaiting' = left
           /\ PipeHolds
        \/ /\ turn' = Blame(t, {"error"})
           /\ outcome' = Settle(result, Head(held), "write-failed")
           /\ awaiting' = left \ {Head(held)}
           /\ PipeBreaks
           /\ UNCHANGED written

(* Mutant: the wire is freed and the oldest hold is left behind. *)
FreeGate_NoHold(s, t, result, left) ==
  /\ gate' = IF s # 0 /\ s = gate THEN 0 ELSE gate
  /\ turn' = t
  /\ outcome' = result
  /\ awaiting' = left
  /\ PipeHolds
  /\ UNCHANGED <<held, written>>

(* Only the answer to the gated send frees the wire. *)
FreeGate(s, t, result, left) ==
  \/ s # 0 /\ s = gate /\ WriteNextHold(t, result, left)
  \/ /\ s = 0 \/ s # gate
     /\ turn' = t
     /\ outcome' = result
     /\ awaiting' = left
     /\ PipeHolds
     /\ UNCHANGED <<gate, held, written>>

---------------------------------------------------------------------------
(* Mutant: a settlement decides every interrupt, whatever its target. *)
Observed_AnyTarget(t, fate) ==
  [i \in Interrupts |->
    IF t.no = 0 THEN intr[i]
    ELSE IF intr[i].phase = "bound"
      THEN [intr[i] EXCEPT !.phase = "over", !.receipt = fate]
    ELSE IF intr[i].phase = "asked" /\ intr[i].seen = "none"
      THEN [intr[i] EXCEPT !.seen = fate]
    ELSE intr[i]]

(* observeSettlement: turn t settled.  An accepted interrupt of t is over; *)
(* an unanswered one keeps the first outcome for its answer.               *)
Observed(t, fate) ==
  [i \in Interrupts |->
    IF t.no = 0 \/ intr[i].target # t.no THEN intr[i]
    ELSE IF intr[i].phase = "bound"
      THEN [intr[i] EXCEPT !.phase = "over", !.receipt = fate]
    ELSE IF intr[i].phase = "asked" /\ intr[i].seen = "none"
      THEN [intr[i] EXCEPT !.seen = fate]
    ELSE intr[i]]

(* settleInterrupt *)
Concluded(i, receipt) == [intr EXCEPT ![i] = [@ EXCEPT !.phase = "over", !.receipt = receipt]]

---------------------------------------------------------------------------
(* The caller *)

(* send(): refused once closing or dead, held while the gate is taken,     *)
(* else written; an idle send opens a provisional turn.                    *)
Accept(s) == ~dead /\ ~closing /\ s = sent + 1 /\ sent' = s

(* Mutant: a hold registers its receipt only when it is written. *)
SendHeld_Unregistered(s) ==
  /\ Quiet /\ Accept(s)
  /\ gate # 0 \/ held # <<>>
  /\ held' = Append(held, s)
  /\ UNCHANGED <<outcome, awaiting, gate, written, turns, intr, life, pumps, native>>

SendHeld(s) ==
  /\ Quiet /\ Accept(s)
  /\ gate # 0 \/ held # <<>>
  /\ held' = Append(held, s)
  /\ awaiting' = awaiting \cup {s}
  /\ UNCHANGED <<outcome, gate, written, turns, intr, life, pumps, native>>

(* Mutant: a send is written whether or not the wire is free. *)
SendWritten_Ungated(s) ==
  /\ Quiet /\ Accept(s)
  /\ awaiting' = awaiting \cup {s}
  /\ written' = Append(written, s)
  /\ gate' = s
  /\ turn' = OpenFor(s, turn)
  /\ ended' = ended
  /\ TurnsMoved
  /\ UNCHANGED <<outcome, held, intr, life, pumps, native>>

SendWritten(s) ==
  /\ Quiet /\ Accept(s)
  /\ gate = 0 /\ held = <<>>
  /\ awaiting' = awaiting \cup {s}
  /\ written' = Append(written, s)
  /\ gate' = s
  /\ turn' = OpenFor(s, turn)
  /\ ended' = ended
  /\ TurnsMoved
  /\ UNCHANGED <<outcome, held, intr, life, pumps, native>>

SendFails(s) ==
  /\ Quiet /\ Accept(s)
  /\ gate = 0 /\ held = <<>>
  /\ outcome' = [outcome EXCEPT ![s] = "write-failed"]
  /\ turn' = Blame(turn, {"error"})
  /\ ended' = ended
  /\ TurnsMoved
  /\ PipeBreaks
  /\ UNCHANGED <<awaiting, held, gate, written, intr,
                 closer, stalled, limitSeen, exit, cause, pumps, native>>

(* interrupt(): bound to the turn live now, before the write. *)
Interrupting(i) == /\ Quiet /\ ~dead /\ ~closing
                   /\ intr[i].phase = "unused"
                   /\ \A j \in 1 .. (i - 1) : intr[j].phase # "unused"

InterruptWritten(i) ==
  /\ Interrupting(i)
  /\ intr' = [intr EXCEPT ![i] = [@ EXCEPT !.phase = "asked", !.target = turn.no]]
  /\ UNCHANGED <<sends, turns, life, pumps, native>>

InterruptFails(i) ==
  /\ Interrupting(i)
  /\ intr' = Concluded(i, "write-failed")
  /\ turn' = Blame(turn, {"error"})
  /\ ended' = ended
  /\ TurnsMoved
  /\ PipeBreaks
  /\ UNCHANGED <<sends, closer, stalled, limitSeen, exit, cause, pumps, native>>

(* close(): a draining close waits for the open turn, looking again each   *)
(* time it is woken, and then ends stdin.                                  *)
DrainOrEnd ==
  \/ /\ ~dead /\ Live
     /\ closer' = "waiting"
     /\ UNCHANGED wireClosed
  \/ /\ dead \/ ~Live
     /\ closer' = "drained"
     /\ wireClosed' = TRUE

Close ==
  /\ Quiet /\ ~closing
  /\ closing' = TRUE
  /\ DrainOrEnd
  /\ UNCHANGED <<sends, turns, intr, stalled, limitSeen, signal, exit, cause, pumps, native>>

(* Mutant: a woken close does not look at the turn again. *)
DrainCheck_Once ==
  /\ ~finalized /\ closer = "woken"
  /\ closer' = "drained"
  /\ wireClosed' = TRUE
  /\ UNCHANGED <<sends, turns, intr, closing, stalled, limitSeen, signal, exit, cause,
                 pumps, native>>

DrainCheck ==
  /\ ~finalized /\ closer = "woken"
  /\ DrainOrEnd
  /\ UNCHANGED <<sends, turns, intr, closing, stalled, limitSeen, signal, exit, cause,
                 pumps, native>>

(* Breaking out of the turns iterable: nobody is left to drain for. *)
Abandon ==
  /\ Quiet /\ ~closing /\ ~dead
  /\ closing' = TRUE
  /\ closer' = "abandoned"
  /\ wireClosed' = TRUE
  /\ UNCHANGED <<sends, turns, intr, stalled, limitSeen, signal, exit, cause, pumps, native>>

---------------------------------------------------------------------------
(* The stdout pump: one handler per native record *)

(* pi answers a written send once: it starts a run when idle, or joins the *)
(* run; the receipt of an input that joined one can follow its settlement. *)
Opened(s) == turn.opener = s \/ \E e \in ended : e.opener = s

NativeReceipt(s, disposition) ==
  /\ Written(s) /\ answer[s] = "none"
  /\ \/ /\ disposition = "started" /\ nrun = 0
        /\ nrun' = s
     \/ /\ disposition = "queued" /\ (nrun # 0 \/ ~Opened(s))
        /\ UNCHANGED nrun
  /\ answer' = [answer EXCEPT ![s] = disposition]

(* Mutant: any receipt with no turn open opens one. *)
ReceiptRead_QueuedOpens(s, disposition) ==
  /\ Listening /\ NativeReceipt(s, disposition) /\ s \in awaiting
  /\ LET shown == IF s = turn.opener THEN Publish(turn) ELSE turn
         open == IF shown.no = 0 THEN Publish(NewTurn(s)) ELSE shown
         known == [open EXCEPT !.accepted = @ \/ s = open.opener]
     IN FreeGate(s, known, Settle(outcome, s, "started"), awaiting \ {s})
  /\ ended' = ended
  /\ TurnsMoved
  /\ UNCHANGED <<sent, intr, closer, stalled, limitSeen, exit, cause, pumps>>

(* A receipt with disposition started or queued: the run this send opened  *)
(* is real.  With no turn open, a started send opens a public one.         *)
ReceiptRead(s, disposition) ==
  /\ Listening /\ NativeReceipt(s, disposition) /\ s \in awaiting
  /\ LET shown == IF s = turn.opener THEN Publish(turn) ELSE turn
         open == IF shown.no = 0 /\ disposition # "queued" THEN Publish(NewTurn(s)) ELSE shown
         known == [open EXCEPT !.accepted = @ \/ s = open.opener]
     IN FreeGate(s, known, Settle(outcome, s, "started"), awaiting \ {s})
  /\ ended' = ended
  /\ TurnsMoved
  /\ UNCHANGED <<sent, intr, closer, stalled, limitSeen, exit, cause, pumps>>

(* A handled receipt: pi consumed the input with no run.  The turn it held *)
(* retires unseen, or ends clean if it is already public.                  *)
HandledRead(s) ==
  /\ Listening /\ Written(s) /\ answer[s] = "none"
  /\ answer' = [answer EXCEPT ![s] = "handled"]
  /\ s \in awaiting
  /\ LET opened == Live /\ turn.opener = s /\ ~turn.accepted
     IN /\ FreeGate(s, IF opened THEN NoTurn ELSE turn,
                    Settle(outcome, s, "started"), awaiting \ {s})
        /\ ended' = IF ~opened THEN ended
                    ELSE ended \cup {IF turn.published THEN Over(turn, "clean", "handled")
                                     ELSE Retired(turn)}
        /\ intr' = IF opened THEN Observed(turn, "not-active") ELSE intr
        /\ closer' = IF opened THEN Waken(closer) ELSE closer
  /\ TurnsMoved
  /\ UNCHANGED <<sent, stalled, limitSeen, exit, cause, pumps, nrun>>

(* A refused prompt, or an error answering no send (s = 0).  A refusal of  *)
(* the send that opened the turn, before its receipt, is the turn's        *)
(* outcome; any other is an error in whatever is live.  The handler then   *)
(* waits on that turn's channel.                                           *)
RefusalRead(s) ==
  /\ Listening
  /\ s = 0 \/ (s \in Sends /\ Written(s))
  /\ answer' = IF s # 0 /\ answer[s] = "none" THEN [answer EXCEPT ![s] = "failed"] ELSE answer
  /\ outcome' = IF s # 0 THEN Settle(outcome, s, "native-rejected") ELSE outcome
  /\ awaiting' = awaiting \ {s}
  /\ turn' = Blame(turn, {"error"})
  /\ ended' = ended
  /\ TurnsMoved
  /\ LET refusesOpener == Live /\ s = turn.opener /\ ~turn.accepted
     IN pump' = [at |-> IF refusesOpener THEN "refusing" ELSE "passing",
                 on |-> turn.no, send |-> s, aborted |-> FALSE]
  /\ UNCHANGED <<sent, held, gate, written, intr, life, nrun, stderr>>

RefusalPassed ==
  /\ pump.at = "passing" /\ ~finalized
  /\ pump' = Reading
  /\ FreeGate(pump.send, turn, outcome, awaiting)
  /\ ended' = ended
  /\ TurnsMoved
  /\ UNCHANGED <<sent, intr, closer, stalled, limitSeen, exit, cause, native, stderr>>

(* The error event went through: the failure it stands for is pushed to    *)
(* the turn live now, or parked for the next one.                          *)
FailurePushed ==
  /\ pump.at \in {"refusing", "settling"} /\ ~finalized
  /\ turn' = Blame(turn, {"failure"})
  /\ ended' = ended
  /\ turnCount' = turnCount
  /\ parked' = ~Live
  /\ pump' = [pump EXCEPT !.at = IF @ = "refusing" THEN "refused" ELSE "settled", !.on = turn.no]
  /\ UNCHANGED <<sends, intr, life, native, stderr>>

RefusalEnds ==
  /\ pump.at = "refused" /\ ~finalized
  /\ pump' = Reading
  /\ Ends(turn, "clean", "refused")
  /\ intr' = Observed(turn, "not-active")
  /\ closer' = IF Live THEN Waken(closer) ELSE closer
  /\ FreeGate(pump.send, NoTurn, outcome, awaiting)
  /\ TurnsMoved
  /\ UNCHANGED <<sent, stalled, limitSeen, exit, cause, native, stderr>>

(* Run output publishes the provisional turn; an output that changes       *)
(* nothing is a stutter.                                                   *)
OutputRead ==
  /\ Listening /\ nrun # 0
  /\ turn' = Publish(turn)
  /\ turn' # turn
  /\ ended' = ended
  /\ TurnsMoved
  /\ UNCHANGED <<sends, intr, life, pumps, native>>

(* A wall on stderr is two events, each awaited on its own: a limit and     *)
(* the failure it stands for, or (auth, trust) a failure and its error.    *)
WallRead(wall) ==
  /\ ~Released /\ ~finalized /\ stderr = Scanning
  /\ stderr' = [wall |-> wall, on |-> turn.no]
  /\ turn' = IF wall # "limit" THEN Blame(turn, {"failure"})
             ELSE IF Live THEN [turn EXCEPT !.faults = @ \cup {"limit"}] ELSE turn
  /\ limitSeen' = (limitSeen \/ wall = "limit")
  /\ ended' = ended
  /\ turnCount' = turnCount
  /\ parked' = IF wall = "limit" THEN parked ELSE ~Live
  /\ UNCHANGED <<sends, intr, closing, closer, wireClosed, stalled, signal, exit, cause,
                 pump, native>>

WallPassed ==
  /\ stderr.wall # "none" /\ ~finalized
  /\ stderr' = Scanning
  /\ turn' = Blame(turn, {IF stderr.wall = "limit" THEN "failure" ELSE "error"})
  /\ ended' = ended
  /\ turnCount' = turnCount
  /\ parked' = (~Live /\ (parked \/ stderr.wall = "limit"))
  /\ UNCHANGED <<sends, intr, life, pump, native>>

Fate(aborted) == IF aborted THEN "interrupted" ELSE "not-active"

(* The end of the active turn on a native settlement. *)
TurnSettles(aborted) ==
  /\ turn' = NoTurn
  /\ Ends(turn, SettledBase(turn), IF aborted THEN "aborted" ELSE "natural")
  /\ intr' = Observed(turn, Fate(aborted))
  /\ closer' = IF Live THEN Waken(closer) ELSE closer
  /\ TurnsMoved

(* agent_settled with nothing held against the turn ends it at once. *)
SettlementRead(aborted) ==
  /\ Listening /\ nrun # 0 /\ nrun' = 0
  /\ aborted => \E i \in Interrupts : intr[i].phase # "unused"
  /\ TurnSettles(aborted)
  /\ UNCHANGED <<sends, closing, wireClosed, stalled, limitSeen, signal, exit, cause,
                 pumps, answer>>

(* agent_settled with a held error (a provisional terminal error, or an    *)
(* overflow, which is a failure already): its events are awaited first.    *)
SettlementHeld(aborted, evidence) ==
  /\ Listening /\ nrun # 0 /\ nrun' = 0
  /\ aborted => \E i \in Interrupts : intr[i].phase # "unused"
  /\ turn' = Blame(turn, {evidence})
  /\ ended' = ended
  /\ turnCount' = turnCount
  /\ parked' = (~Live /\ (parked \/ evidence = "failure"))
  /\ pump' = [at |-> IF evidence = "failure" THEN "settled" ELSE "settling",
              on |-> turn.no, send |-> 0, aborted |-> aborted]
  /\ UNCHANGED <<sends, intr, life, answer, stderr>>

SettlementEnds ==
  /\ pump.at = "settled" /\ ~finalized
  /\ pump' = Reading
  /\ TurnSettles(pump.aborted)
  /\ UNCHANGED <<sends, closing, wireClosed, stalled, limitSeen, signal, exit, cause,
                 native, stderr>>

(* The answer to an interrupt: accepted, it waits for its target's own     *)
(* settlement, or takes the one that came first.                           *)
InterruptAnswered(i, accepted) ==
  /\ Listening
  /\ intr[i].phase \in {"asked", "bound"}
  /\ \/ /\ ~accepted
        /\ intr' = Concluded(i, "native-rejected")
     \/ /\ accepted /\ intr[i].phase = "bound"
        /\ UNCHANGED intr
     \/ /\ accepted /\ intr[i].phase = "asked" /\ intr[i].target = 0
        /\ intr' = Concluded(i, "not-active")
     \/ /\ accepted /\ intr[i].phase = "asked" /\ intr[i].target # 0
        /\ intr' = IF intr[i].seen # "none" THEN Concluded(i, intr[i].seen)
                   ELSE [intr EXCEPT ![i].phase = "bound"]
  /\ UNCHANGED <<sends, turns, life, pumps, native>>

---------------------------------------------------------------------------
(* Timers and the process *)

(* The stall clock: the live turn is owed its failure and its done before  *)
(* the child is ended.                                                     *)
Stall ==
  /\ StallArmed /\ Quiet /\ Live /\ turn.armed
  /\ stalled' = TRUE
  /\ turn' = NoTurn
  /\ Ends(Blame(turn, {"failure"}), "stall", "stall")
  /\ TurnsMoved
  /\ closer' = Waken(closer)
  /\ signal' = Escalated
  /\ UNCHANGED <<sends, intr, closing, wireClosed, limitSeen, exit, cause, pumps, native>>

(* A child that outlives stdin's end, then SIGTERM. *)
CloseGrace ==
  /\ Quiet /\ closer \in {"drained", "abandoned"} /\ ~dead
  /\ closer' = "graced"
  /\ signal' = Escalated
  /\ UNCHANGED <<sends, turns, intr, closing, wireClosed, stalled, limitSeen, exit, cause,
                 pumps, native>>

KillGrace ==
  /\ Quiet /\ signal = "term" /\ ~dead
  /\ signal' = "kill"
  /\ UNCHANGED <<sends, turns, intr, closing, closer, wireClosed, stalled, limitSeen,
                 exit, cause, pumps, native>>

(* The stdin pipe broke with no write in progress. *)
InputError ==
  /\ Quiet /\ ~dead /\ ~closing
  /\ turn' = Blame(turn, {"error"})
  /\ ended' = ended
  /\ TurnsMoved
  /\ PipeBreaks
  /\ UNCHANGED <<sends, intr, closer, stalled, limitSeen, exit, cause, pumps, native>>

(* The exited handler: wake a waiting close, settle the supervisor.  The   *)
(* output still in the pipes is read until finalize.                       *)
Exited(code) ==
  /\ Quiet /\ ~dead
  /\ exit' = code
  /\ closer' = Waken(closer)
  /\ turn' = [turn EXCEPT !.armed = FALSE]
  /\ UNCHANGED <<sends, turnCount, ended, parked, intr, closing, wireClosed, stalled,
                 limitSeen, signal, cause, pumps, native>>

BaseCause ==
  CASE stalled -> "stall"
    [] ~stalled /\ limitSeen -> "limit"
    [] ~stalled /\ ~limitSeen /\ exit = "zero" -> "clean"
    [] ~stalled /\ ~limitSeen /\ exit = "signal" -> "killed"
    [] ~stalled /\ ~limitSeen /\ exit = "nonzero" -> "crash"

(* finalize, once the pumps are done: every receipt still owed is settled, *)
(* and a turn still open ends with the session's cause.  `late` is what    *)
(* finalize itself holds against it: an unsettled error or the tail.       *)
Finalize(late) ==
  /\ dead /\ Listening /\ stderr = Scanning
  /\ (exit = "nonzero" /\ ~stalled /\ ~limitSeen) => late = {"failure"}
  /\ cause' = BaseCause
  /\ outcome' = [s \in Sends |-> IF s \in awaiting THEN "closed" ELSE outcome[s]]
  /\ awaiting' = {}
  /\ held' = <<>>
  /\ gate' = 0
  /\ intr' = [i \in Interrupts |->
       IF intr[i].phase \in {"asked", "bound"}
       THEN [intr[i] EXCEPT !.phase = "over", !.receipt = "closed"] ELSE intr[i]]
  /\ turn' = NoTurn
  /\ Ends(Blame(turn, late), BaseCause, "death")
  /\ TurnsMoved
  /\ closer' = IF Live THEN Waken(closer) ELSE closer
  /\ UNCHANGED <<sent, written, closing, wireClosed, stalled, limitSeen, signal, exit,
                 pumps, native>>

Done == finalized /\ UNCHANGED vars

---------------------------------------------------------------------------
(* The specification *)

Caller ==
  \/ \E s \in Sends : SendHeld(s) \/ SendWritten(s) \/ SendFails(s)
  \/ \E i \in Interrupts : InterruptWritten(i) \/ InterruptFails(i)
  \/ Close \/ Abandon

Harness ==
  \/ \E s \in Sends : \/ \E d \in {"started", "queued"} : ReceiptRead(s, d)
                      \/ HandledRead(s)
  \/ \E s \in Sends \cup {0} : RefusalRead(s)
  \/ OutputRead
  \/ \E w \in Walls : WallRead(w)
  \/ \E aborted \in BOOLEAN : \/ SettlementRead(aborted)
                              \/ \E e \in {"error", "failure"} : SettlementHeld(aborted, e)
  \/ \E i \in Interrupts, accepted \in BOOLEAN : InterruptAnswered(i, accepted)

PumpResumes == RefusalPassed \/ FailurePushed \/ RefusalEnds \/ SettlementEnds \/ WallPassed

Process ==
  \/ Stall \/ CloseGrace \/ KillGrace \/ InputError \/ DrainCheck
  \/ \E code \in ExitCodes : Exited(code)
  \/ \E late \in {{}, {"failure"}} : Finalize(late)

Next == Caller \/ Harness \/ PumpResumes \/ Process \/ Done

Spec == Init /\ [][Next]_vars
(* Timers fire, microtasks run, a killed child exits, and finalize follows *)
(* the exit: after it the pipes hold finite output and the pipe grace cuts *)
(* them, so the pump is free again and again and then done.  The stall     *)
(* clock counts as a timer only for a harness that falls silent: one that  *)
(* prints for ever is never stalled.  Nothing is assumed of the caller, of *)
(* pi, or of the consumer draining a channel.                              *)
TimersFair ==
  /\ WF_vars(DrainCheck)
  /\ WF_vars(CloseGrace)
  /\ WF_vars(KillGrace)
  /\ WF_vars(Stall)
  /\ WF_vars(signal = "kill" /\ Exited("signal"))
  /\ WF_vars((dead \/ Released) /\ PumpResumes)
  /\ SF_vars(Finalize({"failure"}))

FairSpec == Spec /\ TimersFair

AnswerRead(s) == \/ \E d \in {"started", "queued"} : ReceiptRead(s, d)
                 \/ HandledRead(s)
                 \/ answer[s] = "none" /\ RefusalRead(s)

(* A consumer that drains its turns, and a harness that answers every      *)
(* prompt it reads.                                                        *)
Responsive == WF_vars(PumpResumes) /\ \A s \in Sends : SF_vars(AnswerRead(s))

---------------------------------------------------------------------------
(* Properties *)

(* Every variable keeps its type. *)
TypeOK ==
  /\ sent \in 0 .. MaxSends
  /\ outcome \in [Sends -> Outcomes]
  /\ awaiting \subseteq Sends
  /\ held \in Seq(Sends)
  /\ gate \in Sends \cup {0}
  /\ written \in Seq(Sends)
  /\ turn \in Turn
  /\ turnCount \in Nat
  /\ ended \subseteq EndedTurn
  /\ parked \in BOOLEAN
  /\ intr \in [Interrupts -> Interrupt]
  /\ closing \in BOOLEAN
  /\ closer \in {"none", "waiting", "woken", "drained", "abandoned", "graced"}
  /\ wireClosed \in BOOLEAN
  /\ stalled \in BOOLEAN
  /\ limitSeen \in BOOLEAN
  /\ signal \in {"none", "term", "kill"}
  /\ exit \in {"none", "zero", "nonzero", "signal"}
  /\ cause \in Causes \cup {"none"}
  /\ pump \in Pump
  /\ stderr \in [wall : {"none"} \cup Walls, on : Nat]
  /\ answer \in [Sends -> Answers]
  /\ nrun \in Sends \cup {0}

(* pi handles rpc commands asynchronously, so two unanswered sends race:   *)
(* at most one send is written and unanswered, and it holds the gate.      *)
OneOnWire == \A s \in awaiting : Written(s) => s = gate

(* The holds and the direct writes leave in the order of the calls. *)
WireInCallOrder ==
  \A i, j \in DOMAIN written : i < j => written[i] < written[j]

(* No hold is stranded: while the wire can carry it, an answer that frees  *)
(* the gate is still to come, or is being handled.                         *)
HoldsWaitOnGate ==
  held # <<>> /\ ~dead /\ ~wireClosed =>
    gate \in awaiting \/ (pump # Reading /\ pump.send = gate)

(* Every accepted send is owed exactly one receipt: it is unresolved while *)
(* registered, and the close resolves what is left.                        *)
EverySendOwed ==
  /\ \A s \in Sends : /\ s \in awaiting <=> (s <= sent /\ outcome[s] = "none")
                      /\ s > sent => outcome[s] = "none"
  /\ finalized => awaiting = {}

(* The inductive invariant of the wire: the ledger above, the gate, and    *)
(* what holds them together: the holds are registered, later than anything *)
(* written, in order; the gate is taken while anything is held; and the    *)
(* pump settles a refused send before it waits.                            *)
CallOrder ==
  /\ WireInCallOrder
  /\ \A i, j \in DOMAIN held : i < j => held[i] < held[j]
  /\ \A i \in DOMAIN written, j \in DOMAIN held : written[i] < held[j]
  /\ \A i \in DOMAIN written : written[i] <= sent
  /\ \A j \in DOMAIN held : held[j] \in awaiting

PumpOwesNoReceipt ==
  /\ pump.send \notin awaiting /\ pump.send <= sent
  /\ pump.at \notin {"passing", "refusing", "refused"} => pump.send = 0

GateServed ==
  ~dead /\ ~wireClosed =>
    /\ held # <<>> => gate # 0
    /\ gate # 0 => gate \in awaiting \/ pump.send = gate

WireInv == EverySendOwed /\ OneOnWire /\ CallOrder /\ PumpOwesNoReceipt /\ GateServed

PublicTurns == {[no |-> e.no, opener |-> e.opener] : e \in {x \in ended : x.cause # "retired"}}
               \cup (IF turn.published THEN {[no |-> turn.no, opener |-> turn.opener]} ELSE {})

(* A send's id tags at most one public turn, and none when pi queued it:   *)
(* queued input and late receipts create no phantom turn.                  *)
NoPhantomTurn ==
  /\ \A p, q \in PublicTurns : p.opener = q.opener => p.no = q.no
  /\ \A p \in PublicTurns : answer[p.opener] # "queued"

(* An input pi handled with no run leaves no public turn, unless an error  *)
(* or a failure was observed while it was waiting.                         *)
HandledStaysPrivate ==
  \A e \in ended : answer[e.opener] = "handled" /\ e.cause # "retired" => e.faults # {}

(* hcn ends a turn on its own account only by stall or death: otherwise    *)
(* the native run its send opened is over.                                 *)
TurnOutlivesRun == \A e \in ended : e.by \notin {"stall", "death"} => nrun # e.opener

(* The turns a caller sees are those of the native runs.  (Once a stall    *)
(* ended a turn, its run goes on until the process is killed, and its      *)
(* receipts, or those of the sends it queues, open and end turns again.)   *)
TurnsInv == stalled \/ (NoPhantomTurn /\ TurnOutlivesRun /\ HandledStaysPrivate)

(* The inductive invariant of the turns, while no stall has ended one: a   *)
(* send opens one turn; a native run has a turn to show in; a turn whose   *)
(* opener has no receipt yet meets no run, and its opener is on the wire   *)
(* or being refused; the opener of a turn that is over was answered, and   *)
(* its run is over too.                                                    *)
OpensOnce ==
  /\ ~Live => turn = NoTurn
  /\ Live => turn.opener # 0
  /\ \A e \in ended : e.opener # 0 /\ e.opener # turn.opener
  /\ \A e, f \in ended : e.opener = f.opener => e = f

AnswersWritten ==
  /\ \A s \in Sends : answer[s] # "none" => Written(s)
  /\ nrun # 0 => answer[nrun] = "started" /\ (Live \/ finalized)

Refusing == Live /\ pump.at \in {"refusing", "refused"} /\ pump.send = turn.opener

Provisional ==
  Live /\ ~turn.accepted =>
    /\ nrun = 0 /\ Written(turn.opener)
    /\ turn.published => turn.faults # {}
    /\ \/ answer[turn.opener] = "none" /\ turn.opener \in awaiting
       \/ answer[turn.opener] = "failed" /\ Refusing

Accepted == Live /\ turn.accepted => answer[turn.opener] = "started"

PumpOwnsTurn ==
  /\ pump.at \in {"refusing", "refused"} => Refusing /\ ~turn.accepted
  /\ pump.at \in {"settling", "settled"} => Live /\ turn.accepted /\ nrun = 0

EndedForGood ==
  \A e \in ended :
    /\ IF e.by = "death" THEN finalized ELSE answer[e.opener] # "none" /\ nrun # e.opener
    /\ answer[e.opener] # "queued"
    /\ answer[e.opener] = "handled" /\ e.cause # "retired" => e.faults # {}

TurnsFollowRuns ==
  stalled \/ (/\ OpensOnce /\ AnswersWritten /\ Provisional /\ Accepted
              /\ PumpOwnsTurn /\ EndedForGood)

TargetEnded(i, how) == \E e \in ended : e.no = intr[i].target /\ e.by \in how

(* An interrupt's outcome, told or held for its answer, is its own         *)
(* target's settlement, never another turn's.                              *)
InterruptFate ==
  \A i \in Interrupts : \A fate \in {intr[i].seen, intr[i].receipt} :
    /\ fate = "interrupted" => TargetEnded(i, {"aborted"})
    /\ fate = "not-active" => intr[i].target = 0
                              \/ TargetEnded(i, {"natural", "refused", "handled"})

(* In an open session an accepted interrupt waits for a settlement that    *)
(* can still come: its target is live, or a stall is ending the session.   *)
BoundInterruptWatched ==
  \A i \in Interrupts : intr[i].phase = "bound" /\ ~dead /\ closer = "none" =>
    intr[i].target = turn.no \/ stalled

(* The inductive invariant of the interrupts: one without an outcome has   *)
(* its target live, whatever the caller and the process do.                *)
Unsettled(i) == intr[i].phase = "bound" \/ (intr[i].phase = "asked" /\ intr[i].seen = "none")
TargetsLive ==
  \A i \in Interrupts :
    /\ intr[i].phase = "unused" => intr[i].seen = "none" /\ intr[i].receipt = "none"
    /\ intr[i].phase = "bound" => intr[i].target # 0
    /\ Unsettled(i) /\ intr[i].target # 0 => intr[i].target = turn.no \/ stalled

InterruptsFollowTurns == InterruptFate /\ TargetsLive

(* An interrupt takes its own target's settlement, which it can wait for. *)
InterruptInv == InterruptFate /\ BoundInterruptWatched

(* A draining close lets the turn finish (issue #99): stdin does not end   *)
(* under a native run, nor under a prompt the harness has not answered.    *)
DrainLetsTurnFinish ==
  [][closer # "drained" /\ closer' = "drained" =>
       \/ dead \/ stalled
       \/ nrun = 0 /\ (Live => answer[turn.opener] # "none")]_vars

(* The contract of the session's sends (SendContract): `told` is what a    *)
(* caller learns of a send, the reasons of a rejection set aside.          *)
Told(o) == IF o \in {"none", "started"} THEN o ELSE "rejected"
Contract == INSTANCE SendContract
  WITH calls <- sent, wire <- written, receipt <- [s \in Sends |-> Told(outcome[s])]

(* The gate, the holds and the sweep of finalize implement a stop-and-wait *)
(* wire with one receipt per send.                                         *)
ImplementsContract == Contract!Spec

(* Closing or abandoning a session ends it. *)
CloseEnds == closing ~> finalized

(* Where the harness answers and the turns are drained, a hold leaves: it  *)
(* is written, or its receipt says why not.                                *)
HoldsLeave ==
  Responsive =>
    \A s \in Sends : (s \in awaiting /\ ~Written(s)) ~> (Written(s) \/ outcome[s] # "none")

(* A session makes progress: it ends once closed, and serves its holds.     *)
SessionProgress == CloseEnds /\ HoldsLeave
============================================================================
