---------------------------- MODULE QueuedSession ----------------------------
(***************************************************************************)
(* The persistent session runner (execution/open-session.ts) on codex,     *)
(* popeye and antigravity.                                                 *)
(*                                                                         *)
(* These kinds keep the queue of inputs themselves.  codex and popeye mint *)
(* the session id: what the caller sends before it is known is buffered.   *)
(* codex answers every request, opens hcn's turn by that answer, and is    *)
(* steered while it runs; popeye and antigravity run their inputs in       *)
(* order, so hcn opens the turn of the oldest when the one before it ends, *)
(* and popeye can refuse one by its id.                                    *)
(*                                                                         *)
(* Commands and records wait in the pipes, so either side can act on what  *)
(* the other has not read yet.  A record is handled to its end in one      *)
(* step: a slow consumer is the subject of PiSession.                      *)
(***************************************************************************)
EXTENDS Integers, SequencesExt, SessionWire

CONSTANTS
  SessionKinds,   \* the input kinds to run
  MaxSends,       \* bound: inputs the caller sends
  StallArmed,     \* whether the session has an inactivity budget (--stall)
  PipeBreakable   \* whether the stdin pipe can break under the session

ASSUME QueuedAssumption ==
  /\ SessionKinds \subseteq {"codex", "popeye", "antigravity"}
  /\ MaxSends \in Nat
  /\ StallArmed \in BOOLEAN /\ PipeBreakable \in BOOLEAN

Sends == 1 .. MaxSends   \* an input is named by its place in call order
Runs == 1 .. MaxSends    \* bound: a run answers at least one input

VARIABLES
  kind,       \* the session's input kind
  sent,       \* inputs sent so far
  identity,   \* whether the harness announced its session id
  buffered,   \* popeyePending: inputs waiting for the identity
  awaiting,   \* awaitingReceipt: inputs whose receipt is owed
  told,       \* what a send reported, or its receipt
  board,      \* the turns, and the inputs waiting for one
  failure,    \* sessionFailure: the harness refused the session
  closing,    \* no more calls are accepted
  closer,     \* where close() stands
  eof,        \* the child's stdin ended
  signal,     \* the strongest signal sent to the child
  stalled,    \* the stall clock ended a turn
  exit,       \* how the child exited
  cause,      \* the cause the session closed with
  stdin,      \* commands the harness has not read
  stdout,     \* records hcn has not read
  run,        \* the harness: the run going on; said once it has shown output
  begun,      \* the harness: runs begun so far
  inputs,     \* the harness: the inputs each run answers
  refused,    \* history: inputs refused by a write or by the harness
  lost,       \* history: inputs written to a pipe nobody reads any more
  dropped     \* history: inputs reported dead with the session

sends == <<kind, sent, identity, buffered, awaiting, told>>
life == <<closing, closer, eof, signal, stalled, exit, cause>>
native == <<run, begun, inputs>>
history == <<refused, lost, dropped>>
vars == <<sends, board, failure, life, stdin, stdout, native, history>>

---------------------------------------------------------------------------
(* Types and initial state *)

PublicTurn == [no : Nat, opener : Sends, runs : SUBSET Runs, failed : BOOLEAN]

(* turn, opener, accepted: activeTurn, its opener, and whether the harness *)
(* accepted it; steer: activeNativeTurnId, 0 unknown; pending:             *)
(* pendingTurns; parked: preTurnEvents.                                    *)
Board == [turn : Nat, opener : Sends \cup {0}, accepted : BOOLEAN, steer : Runs \cup {0},
          pending : Seq(Sends), turns : Seq(PublicTurn), watched : BOOLEAN,
          parked : [runs : SUBSET Runs, failed : BOOLEAN]]
Nothing == [runs |-> {}, failed |-> FALSE]
Idle == [no |-> 0, said |-> FALSE]

Init ==
  /\ kind \in SessionKinds
  /\ sent = 0 /\ identity = FALSE /\ buffered = <<>> /\ awaiting = {}
  /\ told = [s \in Sends |-> "none"]
  /\ board = [turn |-> 0, opener |-> 0, accepted |-> FALSE, steer |-> 0, pending |-> <<>>,
              turns |-> <<>>, watched |-> FALSE, parked |-> Nothing]
  /\ failure = FALSE
  /\ closing = FALSE /\ closer = "none" /\ eof = FALSE /\ signal = "none" /\ stalled = FALSE
  /\ exit = "none" /\ cause = "none"
  /\ stdin = IdentityProbe(kind, FALSE)
  /\ stdout = <<>>
  /\ run = Idle /\ begun = 0 /\ inputs = [n \in Runs |-> {}]
  /\ refused = {} /\ lost = {} /\ dropped = {}

Dead == exit # "none"
Closed == Dead \/ closing
Finalized == cause # "none"
Members(q) == {q[i] : i \in 1 .. Len(q)}

---------------------------------------------------------------------------
(* The turns: each operator is the board after a call *)

Current(b) == Len(b.turns)

(* startTurn and publishTurn: what was parked between turns flushes into   *)
(* the new one.                                                            *)
Started(b, s) ==
  [b EXCEPT !.turn = Current(b) + 1, !.opener = s, !.accepted = FALSE, !.watched = TRUE,
     !.parked = Nothing,
     !.turns = Append(@, [no |-> Current(b) + 1, opener |-> s, runs |-> b.parked.runs,
                          failed |-> b.parked.failed])]

(* routeEvent: into the open turn, or parked for the next. *)
Routed(b, n) ==
  IF b.turn # 0 THEN [b EXCEPT !.turns[Current(b)].runs = @ \cup {n}]
  ELSE [b EXCEPT !.parked.runs = @ \cup {n}]

(* pushFailure *)
Failed(b) ==
  IF b.turn # 0 THEN [b EXCEPT !.turns[Current(b)].failed = TRUE]
  ELSE [b EXCEPT !.parked.failed = TRUE]

(* clearActiveTurn *)
Cleared(b) ==
  [b EXCEPT !.turn = 0, !.opener = 0, !.accepted = FALSE, !.steer = 0, !.watched = FALSE]

(* endTurn: the oldest waiting input's turn opens next. *)
Over(b) ==
  LET c == Cleared(b) IN
  IF b.turn = 0 THEN b
  ELSE IF Closed \/ c.pending = <<>> THEN c
  ELSE Started([c EXCEPT !.pending = Tail(@)], Head(c.pending))

---------------------------------------------------------------------------
(* Closing *)

Woken(c) == IF c = "draining" THEN "woken" ELSE c
Escalated == IF signal = "none" /\ ~Dead THEN "term" ELSE signal
Awake == closer # "woken" /\ ~Finalized

(* close: it waits for the open turn, or ends stdin. *)
DrainOrEnd(drain) ==
  IF drain /\ ~Dead /\ board.turn # 0 THEN closer' = "draining" /\ UNCHANGED eof
  ELSE closer' = "ended" /\ eof' = TRUE

(* close, or (drain FALSE) the caller left the turns iterable. *)
Close(drain) ==
  /\ ~closing /\ ~Finalized /\ (~drain => ~Dead)
  /\ closing' = TRUE
  /\ DrainOrEnd(drain)
  /\ UNCHANGED <<sends, board, failure, signal, stalled, exit, cause, stdin, stdout, native, history>>

DrainCheck ==
  /\ closer = "woken"
  /\ DrainOrEnd(TRUE)
  /\ UNCHANGED <<sends, board, failure, closing, signal, stalled, exit, cause, stdin, stdout,
                 native, history>>

CloseGrace ==
  /\ closer = "ended" /\ ~Dead /\ signal = "none" /\ signal' = "term"
  /\ UNCHANGED <<sends, board, failure, closing, closer, eof, stalled, exit, cause, stdin, stdout,
                 native, history>>

KillGrace ==
  /\ signal = "term" /\ ~Dead /\ signal' = "kill"
  /\ UNCHANGED <<sends, board, failure, closing, closer, eof, stalled, exit, cause, stdin, stdout,
                 native, history>>

(* Mutant: the end of a turn wakes nobody. *)
Wakes_Nobody(b) == UNCHANGED closer

(* A turn that ended wakes the close waiting on it. *)
Wakes(b) == closer' = IF board.turn # 0 /\ b.turn # board.turn THEN Woken(closer) ELSE closer
Settles(b) == board' = b /\ Wakes(b)

---------------------------------------------------------------------------
(* The host *)

(* The command of each input, written busy or idle; a pipe whose stdin     *)
(* ended takes the write and drops it.                                     *)
CommandOf(s, busy) == EncodeSend(kind, s, busy, "none", board.steer)
Writes(cs) == stdin' = IF eof THEN stdin ELSE stdin \o cs
Drops(S) == lost' = IF eof THEN lost \cup S ELSE lost

(* A broken stdin ends the session. *)
Breaks == PipeBreakable /\ closing' = TRUE /\ signal' = Escalated

(* send: before the identity is known, and after. *)
Buffer(s) ==
  /\ BuffersBeforeIdentity(kind) /\ ~identity
  /\ buffered' = Append(buffered, s)
  /\ IF HasNativeReceipts(kind) THEN awaiting' = awaiting \cup {s} /\ UNCHANGED told
     ELSE told' = [told EXCEPT ![s] = "started"] /\ UNCHANGED awaiting
  /\ UNCHANGED <<board, stdin, refused, lost, closing, signal>>

Written(s) ==
  LET busy == board.turn # 0 IN
  /\ Writes(<<CommandOf(s, busy)>>) /\ Drops({s})
  /\ IF HasNativeReceipts(kind)
     THEN awaiting' = awaiting \cup {s} /\ UNCHANGED <<told, board>>
     ELSE /\ told' = [told EXCEPT ![s] = "started"] /\ UNCHANGED awaiting
          /\ board' = IF busy THEN [board EXCEPT !.pending = Append(@, s)] ELSE Started(board, s)
  /\ UNCHANGED <<buffered, refused, closing, signal>>

WriteFails(s) ==
  /\ Breaks
  /\ told' = [told EXCEPT ![s] = "write-failed"]
  /\ refused' = refused \cup {s}
  /\ UNCHANGED <<buffered, awaiting, board, stdin, lost>>

Send(s) ==
  /\ Awake /\ ~Closed
  /\ s = sent + 1 /\ sent' = s
  /\ \/ Buffer(s)
     \/ ~(BuffersBeforeIdentity(kind) /\ ~identity) /\ (Written(s) \/ WriteFails(s))
  /\ UNCHANGED <<kind, identity, failure, closer, eof, stalled, exit, cause, stdout, native, dropped>>

---------------------------------------------------------------------------
(* The records *)

Reads == Awake /\ stdout # <<>> /\ stdout' = Tail(stdout)
Meant == Decode(kind, Head(stdout))
NativeStill == UNCHANGED native

(* Mutant: the flush forgets that an earlier input opened a turn. *)
Flushed_AllOpen(b) ==
  IF kind = "codex" \/ buffered = <<>> THEN b
  ELSE [Started(b, buffered[Len(buffered)]) EXCEPT !.pending = @ \o SubSeq(buffered, 1, Len(buffered) - 1)]

(* flushPreIdentity on a prompt wire: the first opens a turn, the others   *)
(* wait; busyness is read again for each.                                  *)
Flushed(b) ==
  IF kind = "codex" \/ buffered = <<>> THEN b
  ELSE IF b.turn # 0 THEN [b EXCEPT !.pending = @ \o buffered]
  ELSE [Started(b, Head(buffered)) EXCEPT !.pending = @ \o Tail(buffered)]

(* announceIdentity: the buffered inputs are written with the id bound.    *)
(* Where the pipe breaks under them, codex's are rejected; popeye's, told  *)
(* started, are not named by anything any more.                            *)
IdentityRead ==
  /\ Reads /\ Meant.kind = "identity" /\ ~identity
  /\ identity' = TRUE
  /\ buffered' = <<>>
  /\ \/ /\ Writes([i \in 1 .. Len(buffered) |-> CommandOf(buffered[i], i > 1 /\ kind # "codex")])
        /\ Drops(Members(buffered))
        /\ board' = Flushed(board)
        /\ UNCHANGED <<awaiting, told, refused, closing, signal>>
     \/ /\ buffered # <<>> /\ Breaks
        /\ awaiting' = awaiting \ Members(buffered)
        /\ told' = [s \in Sends |-> IF s \in awaiting \cap Members(buffered) THEN "write-failed" ELSE told[s]]
        /\ refused' = refused \cup (awaiting \cap Members(buffered))
        /\ lost' = lost \cup (Members(buffered) \ awaiting)
        /\ UNCHANGED <<board, stdin>>
  /\ NativeStill
  /\ UNCHANGED <<kind, sent, failure, closer, eof, stalled, exit, cause, dropped>>

(* probe-failed: the harness refused the session; codex's buffered inputs  *)
(* are rejected, popeye's wait for the turn that carries the failure.      *)
ProbeFailedRead ==
  /\ Reads /\ Meant.kind = "probe-failed"
  /\ failure' = TRUE
  /\ board' = Failed(board)
  /\ IF kind = "codex"
     THEN /\ told' = [s \in Sends |-> IF s \in Members(buffered) THEN "native-rejected" ELSE told[s]]
          /\ awaiting' = awaiting \ Members(buffered)
          /\ refused' = refused \cup Members(buffered)
          /\ buffered' = <<>>
     ELSE UNCHANGED <<told, awaiting, refused, buffered>>
  /\ IF closing THEN UNCHANGED <<closing, closer, eof>>
     ELSE closing' = TRUE /\ closer' = "ended" /\ eof' = TRUE
  /\ NativeStill
  /\ UNCHANGED <<kind, sent, identity, signal, stalled, exit, cause, stdin, lost, dropped>>

(* command-accepted: with no turn open the receipt opens one. *)
Accepted(b, s) ==
  LET c == IF b.turn = 0 THEN Started(b, s) ELSE b
  IN [c EXCEPT !.accepted = @ \/ c.opener = s]

AcceptedRead ==
  /\ Reads /\ Meant.kind = "command-accepted"
  /\ LET s == Meant.token
         b == [board EXCEPT !.steer = IF Meant.run # 0 THEN Meant.run ELSE @]
     IN IF s \in awaiting
        THEN /\ board' = Accepted(b, s)
             /\ told' = [told EXCEPT ![s] = "started"]
             /\ awaiting' = awaiting \ {s}
        ELSE board' = b /\ UNCHANGED <<told, awaiting>>
  /\ NativeStill
  /\ UNCHANGED <<kind, sent, identity, buffered, failure, life, stdin, history>>

(* indexOf and splice *)
Unopened(b, s) ==
  IF s \in Members(b.pending)
  THEN [b EXCEPT !.pending = RemoveAt(@, CHOOSE i \in 1 .. Len(@) : @[i] = s)] ELSE b

(* Mutant: a refused prompt waits on. *)
CommandFailed_Waits(b, s) ==
  IF b.turn # 0 /\ b.opener = s /\ ~b.accepted THEN Over(Failed(b)) ELSE b

(* command-failed: the refused input waits no more; one that opened the    *)
(* turn and was not accepted ends it.                                      *)
CommandFailed(b, s) ==
  LET c == Unopened(b, s)
  IN IF c.turn # 0 /\ c.opener = s /\ ~c.accepted THEN Over(Failed(c)) ELSE c

CommandFailedRead ==
  /\ Reads /\ Meant.kind = "command-failed"
  /\ LET s == Meant.token IN
     /\ Settles(CommandFailed(board, s))
     /\ told' = IF s \in awaiting THEN [told EXCEPT ![s] = "native-rejected"] ELSE told
     /\ awaiting' = awaiting \ {s}
     /\ refused' = IF s \in awaiting \cup Members(board.pending) THEN refused \cup {s} ELSE refused
  /\ NativeStill
  /\ UNCHANGED <<kind, sent, identity, buffered, failure, closing, eof, signal, stalled, exit, cause,
                 stdin, lost, dropped>>

TurnEndRead ==
  /\ Reads /\ Meant.kind = "turn-end"
  /\ Settles(Over(board))
  /\ NativeStill
  /\ UNCHANGED <<sends, failure, closing, eof, signal, stalled, exit, cause, stdin, history>>

ContentRead ==
  /\ Reads /\ Meant.kind \in {"content", "ignored"}
  /\ board' = IF Meant.kind = "content" THEN Routed(board, Head(stdout).run) ELSE board
  /\ NativeStill
  /\ UNCHANGED <<sends, failure, life, stdin, history>>

---------------------------------------------------------------------------
(* The harness *)

Alive == Awake /\ ~Dead
Prints(r) == stdout' = Append(stdout, r)
HcnStill == UNCHANGED <<sends, board, failure, life, history>>

(* The probe is answered, or refused. *)
AnswerProbe(ok) ==
  /\ Alive /\ stdin # <<>> /\ Head(stdin).mark \in {"identity", "initialize"}
  /\ stdin' = Tail(stdin) /\ Prints(AnswerTo(Head(stdin), ok))
  /\ HcnStill /\ NativeStill

(* An input begins a run: codex says so. *)
Begin ==
  /\ Alive /\ stdin # <<>> /\ run = Idle
  /\ Head(stdin).what \in {"turn/start", "prompt", "user"}
  /\ begun' = begun + 1
  /\ run' = [no |-> begun', said |-> FALSE]
  /\ inputs' = [inputs EXCEPT ![begun'] = {Head(stdin).token}]
  /\ stdin' = Tail(stdin)
  /\ IF kind = "codex" THEN Prints([AnswerTo(Head(stdin), TRUE) EXCEPT !.run = begun'])
     ELSE UNCHANGED stdout
  /\ HcnStill

(* codex: an input joins the run it names; a second start can join too. *)
Join ==
  /\ Alive /\ kind = "codex" /\ stdin # <<>> /\ run # Idle
  /\ \/ Head(stdin).what = "turn/steer" /\ Head(stdin).expected = run.no
     \/ Head(stdin).what = "turn/start"
  /\ inputs' = [inputs EXCEPT ![run.no] = @ \cup {Head(stdin).token}]
  /\ stdin' = Tail(stdin)
  /\ Prints([AnswerTo(Head(stdin), TRUE) EXCEPT !.run = run.no])
  /\ HcnStill
  /\ UNCHANGED <<run, begun>>

(* codex answers in order; popeye refuses any prompt of its queue. *)
Refuse(i) ==
  /\ Alive /\ i \in 1 .. Len(stdin) /\ stdin[i].mark = "send"
  /\ kind = "codex" => i = 1
  /\ stdin' = RemoveAt(stdin, i) /\ Prints(AnswerTo(stdin[i], FALSE))
  /\ HcnStill /\ NativeStill

Show ==
  /\ Alive /\ run # Idle /\ ~run.said
  /\ run' = [run EXCEPT !.said = TRUE]
  /\ Prints([Record("notification", "message") EXCEPT !.run = run.no])
  /\ HcnStill
  /\ UNCHANGED <<stdin, begun, inputs>>

End(failed) ==
  /\ Alive /\ run # Idle
  /\ run' = Idle
  /\ Prints([EndOf(kind, failed) EXCEPT !.run = run.no])
  /\ HcnStill
  /\ UNCHANGED <<stdin, begun, inputs>>

---------------------------------------------------------------------------
(* Timers, pipes and the process *)

Stall ==
  /\ Awake /\ StallArmed /\ board.watched
  /\ stalled' = TRUE
  /\ Settles(Over(Failed(board)))
  /\ signal' = Escalated
  /\ UNCHANGED <<sends, failure, closing, eof, exit, cause, stdin, stdout, native, history>>

InputError ==
  /\ Awake /\ ~Closed /\ Breaks
  /\ UNCHANGED <<sends, board, failure, closer, eof, stalled, exit, cause, stdin, stdout, native, history>>

Exited(code) ==
  /\ Alive
  /\ exit' = code
  /\ board' = [board EXCEPT !.watched = FALSE]
  /\ closer' = Woken(closer)
  /\ UNCHANGED <<sends, failure, closing, eof, signal, stalled, cause, stdin, stdout, native, history>>

CauseOf ==
  IF stalled THEN "stall"
  ELSE IF exit = "signal" THEN "killed"
  ELSE IF exit = "nonzero" THEN "crash"
  ELSE IF failure THEN "failed" ELSE "clean"

(* finalize: popeye told its buffered inputs started, so the first gets a  *)
(* turn to carry what happened.                                            *)
LastTurn(b) ==
  IF kind = "popeye" /\ buffered # <<>> /\ b.turn = 0 THEN Started(b, Head(buffered)) ELSE b

(* finalize, once the output is read: receipts are settled, the inputs     *)
(* still waiting are reported, and the open turn ends.                     *)
Finalize ==
  /\ Awake /\ Dead /\ stdout = <<>>
  /\ cause' = CauseOf
  /\ told' = [s \in Sends |-> IF s \in awaiting THEN "closed" ELSE told[s]]
  /\ awaiting' = {}
  /\ buffered' = <<>>
  /\ board' = [Cleared(LastTurn(board)) EXCEPT !.pending = <<>>]
  /\ dropped' = awaiting \cup Members(board.pending)
                \cup (Members(buffered) \ {LastTurn(board).opener})
  /\ UNCHANGED <<kind, sent, identity, failure, closing, closer, eof, signal, stalled, exit, stdin,
                 stdout, native, refused, lost>>

Done == Finalized /\ UNCHANGED vars

---------------------------------------------------------------------------
(* The specification *)

RecordRead ==
  IdentityRead \/ ProbeFailedRead \/ AcceptedRead \/ CommandFailedRead \/ TurnEndRead \/ ContentRead

Native ==
  \/ \E ok \in BOOLEAN : AnswerProbe(ok) \/ End(~ok)
  \/ \E i \in 1 .. Len(stdin) : Refuse(i)
  \/ Begin \/ Join \/ Show

Next ==
  \/ \E s \in Sends : Send(s)
  \/ \E drain \in BOOLEAN : Close(drain)
  \/ DrainCheck \/ CloseGrace \/ KillGrace
  \/ RecordRead \/ Native
  \/ Stall \/ InputError
  \/ \E code \in {"zero", "nonzero", "signal"} : Exited(code)
  \/ Finalize \/ Done

Spec == Init /\ [][Next]_vars

(* Timers fire, a killed child exits, what is in its pipe is read, and     *)
(* finalize follows.  Nothing is assumed of the harness or the host.       *)
FairSpec ==
  /\ Spec
  /\ WF_vars(DrainCheck) /\ WF_vars(CloseGrace) /\ WF_vars(KillGrace) /\ WF_vars(Stall)
  /\ WF_vars(signal = "kill" /\ Exited("signal"))
  /\ WF_vars(Dead /\ RecordRead) /\ WF_vars(Finalize)

---------------------------------------------------------------------------
(* Properties *)

(* Every variable keeps its type. *)
TypeOK ==
  /\ kind \in SessionKinds /\ sent \in 0 .. MaxSends /\ identity \in BOOLEAN
  /\ buffered \in Seq(Sends) /\ awaiting \subseteq Sends
  /\ told \in [Sends -> {"none", "started", "native-rejected", "write-failed", "closed"}]
  /\ board \in Board
  /\ {failure, closing, eof, stalled} \subseteq BOOLEAN
  /\ closer \in {"none", "draining", "woken", "ended"}
  /\ signal \in {"none", "term", "kill"}
  /\ exit \in {"none", "zero", "nonzero", "signal"}
  /\ run \in [no : Runs \cup {0}, said : BOOLEAN]
  /\ inputs \in [Runs -> SUBSET Sends]

(* The turn of an input carries the output of the runs that answer it and  *)
(* of no other, though nothing on the stream says whose output it is.      *)
(* After a stall the harness may run on while the next input's turn is     *)
(* open, and its output lands there.                                       *)
OutputBelongs ==
  ~stalled => \A i \in 1 .. Len(board.turns) :
    \A n \in board.turns[i].runs : board.turns[i].opener \in inputs[n]

Unread(s) == \E i \in 1 .. Len(stdin) : stdin[i].mark \in {"send", "none"} /\ stdin[i].token = s
Running(s) == run # Idle /\ s \in inputs[run.no]
EndInPipe(s) ==
  \E i \in 1 .. Len(stdout) : LET m == Decode(kind, stdout[i]) IN
    \/ m.kind = "turn-end" /\ s \in inputs[stdout[i].run]
    \/ m.kind = "command-failed" /\ m.token = s

(* No phantom turn: in a session that has not stalled an open turn can end *)
(* by itself.  Its input is still to be read, or runs, or its end is in    *)
(* the pipe; a refused open or a steered input leaves no turn behind.  The *)
(* exception is a buffered input that was flushed after stdin ended.       *)
TurnBacked ==
  board.turn # 0 /\ ~Dead /\ ~stalled /\ board.opener \notin lost =>
    Unread(board.opener) \/ Running(board.opener) \/ EndInPipe(board.opener)

(* A session the harness refused to open never closes clean, and the       *)
(* inputs sent to it hear of it: codex's are rejected, and popeye's first  *)
(* gets a turn that carries the failure.                                   *)
RefusedOpenTold ==
  Finalized /\ failure =>
    /\ cause # "clean"
    /\ kind = "codex" => \A s \in 1 .. sent : told[s] \notin {"none", "started"}
    /\ kind = "popeye" /\ sent > 0 /\ 1 \notin refused =>
         board.turns # <<>> /\ board.turns[1].opener = 1 /\ board.turns[1].failed

Openers == {board.turns[i].opener : i \in 1 .. Len(board.turns)}

(* popeye's inputs whose flush nobody reads, told started: those of a flush *)
(* that broke are named no more, the others have a turn or wait for one.    *)
Astray == IF kind = "popeye" /\ PipeBreakable THEN lost ELSE {}

(* What became of an input, as InputFates tells it. *)
Fate(s) ==
  IF s > sent THEN "unsent"
  ELSE IF s \in Openers THEN "opened"
  ELSE IF s \in refused THEN "refused"
  ELSE IF s \in dropped THEN "dropped"
  ELSE IF s \in Astray /\ Finalized THEN "lost"
  ELSE IF s \in awaiting \cup Astray \cup Members(buffered) \cup Members(board.pending) THEN "waiting"
  ELSE "joined"

(* codex answers an input by naming the run that took it. *)
Named == {s \in Sends : kind = "codex" /\ told[s] = "started"}

Promise == INSTANCE InputFates
  WITH fate <- [s \in Sends |-> Fate(s)], named <- Named, turns <- Len(board.turns),
       over <- Finalized, Refusable <- TRUE, Losable <- PipeBreakable

(* Each accepted input waits, and then opens one turn, joins a turn the    *)
(* harness named it in, is refused, or is reported dropped; only where the *)
(* pipe breaks can one be lost, named by nothing: popeye's, in the flush.  *)
ImplementsFates == Promise!Spec

(* Closing, abandoning or refusing a session ends it. *)
CloseEnds == closing ~> Finalized

(* Every turn is its input's: its output, the end it waits for, and, where *)
(* the harness refused the session, the word of it.                        *)
TurnsAttributed == OutputBelongs /\ TurnBacked /\ RefusedOpenTold
===============================================================================
