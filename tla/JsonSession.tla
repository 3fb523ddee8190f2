---------------------------- MODULE JsonSession ----------------------------
(* The machine session surface, runJsonSession: commands come in on stdin, *)
(* events go out on stdout.  Two pumps and the receipts of the commands    *)
(* share one serialized writer; the session handle behind them is          *)
(* external.  It may answer, open turns, or end at any point, and once it  *)
(* is closing it settles everything it owes.                               *)
EXTENDS Naturals, Sequences

CONSTANTS
  MaxCommands,   \* lines the consumer writes
  MaxTurns,      \* turns the session opens
  Scopes         \* the consumers: their own bounds, and the faults they meet

ASSUME BoundsAssumption == MaxCommands \in Nat /\ MaxTurns \in Nat
ASSUME ScopesAssumption ==
  Scopes \subseteq [commands : 0 .. MaxCommands, turns : 0 .. MaxTurns, dies : BOOLEAN, breaks : BOOLEAN]

Commands == 1 .. MaxCommands      \* a command is named by its position
Ops == {"send", "answer", "interrupt", "approval", "settings", "malformed"}

VARIABLES
  scope,     \* which of Scopes this consumer is
  op,        \* what each command read so far was
  verdict,   \* what became of it; "owed" while its receipt is out
  chain,     \* dispositionChain: the dispositions not emitted yet, in order
  stdin,     \* the command pump, "reading" or "done"
  broke,     \* stdinError
  pump,      \* the turn pump: "idle", "turn" inside one, "done"
  taken,     \* turns taken so far
  question,  \* the turn lastQuestion comes from, 0 if none
  awaiting,  \* awaitingAnswer
  queue,     \* the writer's chain: lines emitted and not done with
  parked,    \* the head of queue is written and waits for a drain
  out,       \* the lines written
  pipe,      \* the consumer's read end, "open" or "broken"
  gone,      \* consumerGone
  closing,   \* handle.close was called
  over,      \* the session ended
  stage      \* where the body of runJsonSession stands

input == <<op, verdict, stdin, broke>>
turns == <<pump, taken, question, awaiting>>
writer == <<parked, out, pipe, gone>>
session == <<closing, over>>
vars == <<scope, input, chain, turns, queue, writer, session, stage>>

ReadEndDies == scope.dies      \* the consumer can stop reading
StreamBreaks == scope.breaks   \* the command stream can fail

Kinds == {"session", "turn", "question", "done", "awaiting-input", "disposition", "requested",
          "interruption", "approval-disposition", "settings", "unconfirmed", "error", "closed"}
Emitters == {"main", "input", "turns", "chain", "receipt"}

(* of is the command a line answers, or the turn it belongs to.            *)
Line(kind, of, by) == [kind |-> kind, of |-> of, by |-> by]

(* emit; whoever awaits its line is busy until the writer is done with it. *)
Emit(lines) == queue' = queue \o lines
Busy(by) == \E i \in 1 .. Len(queue) : queue[i].by = by

Init ==
  /\ scope \in Scopes
  /\ op = [c \in Commands |-> "unread"]
  /\ verdict = [c \in Commands |-> "none"]
  /\ chain = <<>>
  /\ stdin = "reading" /\ broke = FALSE
  /\ pump = "idle" /\ taken = 0 /\ question = 0 /\ awaiting = FALSE
  /\ queue = <<Line("session", 0, "main")>> /\ parked = FALSE /\ out = <<>>
  /\ pipe = "open" /\ gone = FALSE
  /\ closing = FALSE /\ over = FALSE
  /\ stage = "starting"

---------------------------------------------------------------------------
(* The writer *)

(* The writer takes the next line: written, written with the pipe full, or *)
(* skipped because the consumer is known to be gone.  A line written into  *)
(* a pipe that just broke is lost, and can report a full pipe too.         *)
Write ==
  /\ queue # <<>> /\ ~parked
  /\ out' = IF gone \/ pipe = "broken" THEN out ELSE Append(out, Head(queue))
  /\ \/ queue' = Tail(queue) /\ UNCHANGED parked
     \/ ~gone /\ parked' = TRUE /\ UNCHANGED queue
  /\ UNCHANGED <<scope, input, chain, turns, pipe, gone, session, stage>>

(* The pipe drained; a broken one never does. *)
Drain ==
  /\ parked /\ pipe = "open"
  /\ parked' = FALSE
  /\ queue' = Tail(queue)
  /\ UNCHANGED <<scope, input, chain, turns, out, pipe, gone, session, stage>>

ReadEndCloses ==
  /\ ReadEndDies /\ pipe = "open"
  /\ pipe' = "broken"
  /\ UNCHANGED <<scope, input, chain, turns, queue, parked, out, gone, session, stage>>

(* The EPIPE listener: a write failed. *)
PipeError ==
  /\ pipe = "broken" /\ ~gone
  /\ gone' = TRUE
  /\ closing' = TRUE
  /\ UNCHANGED <<scope, input, chain, turns, queue, parked, out, pipe, over, stage>>

---------------------------------------------------------------------------
(* The command pump *)

Reading == stage \notin {"starting", "exiting", "exited"} /\ stdin = "reading" /\ ~Busy("input")

(* Mutant: a refusal known at once overtakes the dispositions in flight. *)
AnswerCommand_Direct(c, v) ==
  IF v # "owed"
  THEN Emit(<<Line("disposition", c, "input")>>) /\ UNCHANGED chain
  ELSE chain' = Append(chain, c) /\ UNCHANGED queue

(* answerCommand: a disposition known at once leaves at once unless one is *)
(* in flight; every other one waits for its receipt and its turn.          *)
AnswerCommand(c, v) ==
  IF v # "owed" /\ chain = <<>>
  THEN Emit(<<Line("disposition", c, "input")>>) /\ UNCHANGED chain
  ELSE chain' = Append(chain, c) /\ UNCHANGED queue

(* What the handle's send returns or throws: "accepted" has no receipt.    *)
SendVerdicts == IF closing \/ over THEN {"closed"} ELSE {"accepted", "rejected", "owed"}

SendRead(c, o) ==
  /\ o = "send" \/ awaiting
  /\ \E v \in SendVerdicts :
       verdict' = [verdict EXCEPT ![c] = v] /\ AnswerCommand(c, v)

(* An answer with no open question is refused here. *)
AnswerRefused(c, o) ==
  /\ o = "answer" /\ ~awaiting
  /\ verdict' = [verdict EXCEPT ![c] = "no-question"]
  /\ AnswerCommand(c, "no-question")

InterruptRead(c) ==
  /\ UNCHANGED chain
  /\ \/ /\ verdict' = [verdict EXCEPT ![c] = "rejected"]
        /\ Emit(<<Line("interruption", c, "input")>>)
     \/ /\ ~closing /\ ~over
        /\ verdict' = [verdict EXCEPT ![c] = "owed"]
        /\ Emit(<<Line("requested", c, "input")>>)

DirectRead(c, kind) ==
  /\ verdict' = [verdict EXCEPT ![c] = "settled"]
  /\ Emit(<<Line(kind, c, "input")>>)
  /\ UNCHANGED chain

SettingsRead(c) == verdict' = [verdict EXCEPT ![c] = "owed"] /\ UNCHANGED <<queue, chain>>

Ready(c) == \A d \in 1 .. (c - 1) : op[d] # "unread"

CommandRead(c, o) ==
  /\ Reading /\ c <= scope.commands /\ op[c] = "unread" /\ Ready(c)
  /\ op' = [op EXCEPT ![c] = o]
  /\ \/ o \in {"send", "answer"} /\ (SendRead(c, o) \/ AnswerRefused(c, o))
     \/ o = "interrupt" /\ InterruptRead(c)
     \/ o = "approval" /\ DirectRead(c, "approval-disposition")
     \/ o = "settings" /\ SettingsRead(c)
     \/ o = "malformed" /\ DirectRead(c, "error")
  /\ UNCHANGED <<scope, stdin, broke, turns, writer, session, stage>>

(* A close command or the end of stdin. *)
InputEnds ==
  /\ Reading
  /\ stdin' = "done"
  /\ UNCHANGED <<scope, op, verdict, broke, chain, turns, queue, writer, session, stage>>

(* The command stream fails. *)
InputFails ==
  /\ StreamBreaks /\ Reading
  /\ stdin' = "done"
  /\ broke' = TRUE
  /\ UNCHANGED <<scope, op, verdict, chain, turns, queue, writer, session, stage>>

---------------------------------------------------------------------------
(* Dispositions in order, and the receipts that are not dispositions *)

InChain(c) == \E i \in 1 .. Len(chain) : chain[i] = c

(* The session settles the receipt of a send. *)
SendSettles(c) ==
  /\ verdict[c] = "owed" /\ InChain(c)
  /\ verdict' = [verdict EXCEPT ![c] = "settled"]
  /\ UNCHANGED <<scope, op, stdin, broke, chain, turns, queue, writer, session, stage>>

(* A disposition waits for its receipt and for the one before it. *)
Leaves(c) == chain # <<>> /\ c = Head(chain) /\ verdict[c] # "owed" /\ ~Busy("chain")

DispositionLeaves(c) ==
  /\ Leaves(c)
  /\ chain' = Tail(chain)
  /\ Emit(<<Line("disposition", c, "chain")>>)
  /\ UNCHANGED <<scope, input, turns, writer, session, stage>>

Announced(c) == \A i \in 1 .. Len(queue) : queue[i] # Line("requested", c, "input")

(* A receipt whose readback failed carries a diagnostic right behind it. *)
SettingsLines(c) ==
  {<<Line("settings", c, "receipt")>>,
   <<Line("settings", c, "receipt"), Line("unconfirmed", c, "receipt")>>}

(* An interrupt's settlement or a settings receipt. *)
ReceiptSettles(c) ==
  /\ verdict[c] = "owed" /\ ~InChain(c) /\ Announced(c)
  /\ verdict' = [verdict EXCEPT ![c] = "settled"]
  /\ \/ op[c] = "interrupt" /\ Emit(<<Line("interruption", c, "receipt")>>)
     \/ op[c] = "settings" /\ \E lines \in SettingsLines(c) : Emit(lines)
  /\ UNCHANGED <<scope, op, stdin, broke, chain, turns, writer, session, stage>>

---------------------------------------------------------------------------
(* The turn pump *)

Pumping == stage # "starting" /\ ~Busy("turns")

(* A new turn, the session's own included, closes an open question. *)
TurnTaken ==
  /\ Pumping /\ pump = "idle" /\ taken < scope.turns
  /\ pump' = "turn"
  /\ taken' = taken + 1
  /\ awaiting' = FALSE
  /\ Emit(<<Line("turn", taken + 1, "turns")>>)
  /\ UNCHANGED <<scope, input, chain, question, writer, session, stage>>

QuestionTaken ==
  /\ Pumping /\ pump = "turn" /\ question # taken
  /\ question' = taken
  /\ Emit(<<Line("question", taken, "turns")>>)
  /\ UNCHANGED <<scope, input, chain, pump, taken, awaiting, writer, session, stage>>

(* Mutant: the answer state is not brought up to date. *)
Awaited_Stale(kind) == FALSE

Awaited(kind) == kind = "awaiting-input"

(* The turn's done; the answer state changes before the line leaves. *)
DoneTaken(kind) ==
  /\ Pumping /\ pump = "turn"
  /\ kind = "awaiting-input" => question = taken
  /\ pump' = "idle"
  /\ awaiting' = Awaited(kind)
  /\ Emit(<<Line(kind, taken, "turns")>>)
  /\ UNCHANGED <<scope, input, chain, taken, question, writer, session, stage>>

TurnsEnd ==
  /\ Pumping /\ pump = "idle" /\ over
  /\ pump' = "done"
  /\ UNCHANGED <<scope, input, chain, taken, question, awaiting, queue, writer, session, stage>>

---------------------------------------------------------------------------
(* The session, and the body of runJsonSession *)

(* The session ends: it was closed, or its process died. *)
SessionEnds ==
  /\ ~over
  /\ over' = TRUE
  /\ UNCHANGED <<scope, input, chain, turns, queue, writer, closing, stage>>

Step(from, to) == stage = from /\ stage' = to

Starts ==
  /\ Step("starting", "running") /\ ~Busy("main")
  /\ UNCHANGED <<scope, input, chain, turns, queue, writer, session>>

(* Whichever pump ends first drives the close. *)
Race ==
  /\ Step("running", "closing")
  /\ stdin = "done" \/ pump = "done"
  /\ closing' = TRUE
  /\ UNCHANGED <<scope, input, chain, turns, queue, writer, over>>

(* close() came back: stop reading commands. *)
Closed ==
  /\ Step("closing", "draining") /\ over
  /\ UNCHANGED <<scope, input, chain, turns, queue, writer, session>>

(* Mutant: readline is left open. *)
InputStops_Never == FALSE

(* readline closed; lines it had buffered may have been read before.       *)
InputStops ==
  /\ stage = "draining" /\ Reading
  /\ stdin' = "done"
  /\ UNCHANGED <<scope, op, verdict, broke, chain, turns, queue, writer, session, stage>>

(* Everything owed has been settled and written. *)
Settled ==
  /\ chain = <<>> /\ ~Busy("chain")
  /\ \A c \in Commands : verdict[c] # "owed"
  /\ ~Busy("receipt")

(* The inputs the session reports lost, oldest first: accepted, without a  *)
(* receipt.                                                                *)
Accepted == {c \in Commands : verdict[c] = "accepted"}
Oldest(n) ==
  {f \in [1 .. n -> Accepted] : \A i, j \in 1 .. n : i < j => f[i] < f[j]}
Lost(f) == [i \in DOMAIN f |-> Line("disposition", f[i], "main")]

Final ==
  /\ Step("draining", "exiting")
  /\ stdin = "done" /\ pump = "done" /\ ~Busy("input") /\ ~Busy("turns")
  /\ Settled
  /\ \E n \in 0 .. MaxCommands : \E f \in Oldest(n) :
       Emit((IF broke THEN <<Line("error", 0, "main")>> ELSE <<>>)
            \o Lost(f) \o <<Line("closed", 0, "main")>>)
  /\ UNCHANGED <<scope, input, chain, turns, writer, session>>

Exit ==
  /\ Step("exiting", "exited") /\ queue = <<>>
  /\ UNCHANGED <<scope, input, chain, turns, queue, writer, session>>

Done == stage = "exited" /\ UNCHANGED vars

---------------------------------------------------------------------------
(* The specification *)

Consumer == ReadEndCloses \/ InputEnds \/ InputFails \/ \E c \in Commands, o \in Ops : CommandRead(c, o)
Writer == Write \/ Drain \/ PipeError
Receipts == \E c \in Commands : SendSettles(c) \/ DispositionLeaves(c) \/ ReceiptSettles(c)
Turns == TurnTaken \/ QuestionTaken \/ TurnsEnd \/ \E kind \in {"done", "awaiting-input"} : DoneTaken(kind)
Body == Starts \/ Race \/ Closed \/ InputStops \/ Final \/ Exit

Next == Consumer \/ Writer \/ Receipts \/ Turns \/ SessionEnds \/ Body \/ Done

Spec == Init /\ [][Next]_vars

(* The program's own steps happen; an open pipe drains because its reader  *)
(* reads; a closing session ends, its turns end, and what it owes settles. *)
(* A session that is not closing owes no answer.                           *)
FairSpec ==
  /\ Spec
  /\ WF_vars(Write) /\ WF_vars(Drain) /\ WF_vars(PipeError)
  /\ \A c \in Commands :
       /\ WF_vars(DispositionLeaves(c))
       /\ WF_vars((closing \/ over) /\ SendSettles(c))
       /\ WF_vars((closing \/ over) /\ ReceiptSettles(c))
  /\ WF_vars(over /\ DoneTaken("done")) /\ WF_vars(TurnsEnd)
  /\ WF_vars(closing /\ SessionEnds)
  /\ WF_vars(Starts) /\ WF_vars(Race) /\ WF_vars(Closed)
  /\ WF_vars(InputStops) /\ WF_vars(Final) /\ WF_vars(Exit)

---------------------------------------------------------------------------
(* Properties *)

LineType == [kind : Kinds, of : 0 .. (MaxCommands + MaxTurns), by : Emitters]

(* Every variable has its type. *)
TypeOK ==
  /\ scope \in Scopes
  /\ op \in [Commands -> Ops \cup {"unread"}]
  /\ verdict \in [Commands -> {"none", "owed", "accepted", "rejected", "closed", "no-question", "settled"}]
  /\ chain \in Seq(Commands)
  /\ stdin \in {"reading", "done"} /\ broke \in BOOLEAN
  /\ pump \in {"idle", "turn", "done"}
  /\ taken \in 0 .. MaxTurns /\ question \in 0 .. MaxTurns /\ awaiting \in BOOLEAN
  /\ queue \in Seq(LineType) /\ out \in Seq(LineType)
  /\ (parked => queue # <<>>)
  /\ pipe \in {"open", "broken"} /\ {gone, closing, over, parked} \subseteq BOOLEAN
  /\ stage \in {"starting", "running", "closing", "draining", "exiting", "exited"}

(* A disposition answers its command; the ones of the close report a loss. *)
Disposed(l) == l.kind = "disposition" /\ l.by # "main"

(* Every send and answer gets its disposition in command order, however    *)
(* late its receipt and whatever is known at once behind it.               *)
DispositionsInOrder ==
  \A i, j \in 1 .. Len(out) :
    i < j /\ Disposed(out[i]) /\ Disposed(out[j]) => out[i].of < out[j].of

Answer(o) ==
  CASE o \in {"send", "answer"} -> "disposition" [] o = "interrupt" -> "interruption"
    [] o = "approval" -> "approval-disposition" [] o = "settings" -> "settings"
    [] o = "malformed" -> "error"

(* The terminal line is the last one, and by then every command that was   *)
(* read has its answer.                                                    *)
ClosedIsLast ==
  \A i \in 1 .. Len(out) : out[i].kind = "closed" =>
    /\ i = Len(out)
    /\ \A c \in Commands : op[c] # "unread" =>
         \E j \in 1 .. Len(out) : out[j].kind = Answer(op[c]) /\ out[j].of = c

(* The diagnostic of an unconfirmed settings receipt follows the receipt   *)
(* with no other line between, whoever else writes meanwhile.              *)
DiagnosticFollowsReceipt ==
  \A i \in 1 .. Len(out) : out[i].kind = "unconfirmed" =>
    i > 1 /\ out[i - 1].kind = "settings" /\ out[i - 1].of = out[i].of

(* What a consumer may rely on in the lines it reads. *)
LinesInOrder == DispositionsInOrder /\ ClosedIsLast /\ DiagnosticFollowsReceipt

(* The consumer has read that the last turn taken waits for an answer. *)
QuestionShown ==
  \E i \in 1 .. Len(out) : out[i].kind = "awaiting-input" /\ out[i].of = taken

(* A consumer that answers the moment it reads the done line is never told *)
(* that no question is open.                                               *)
AnswerHeard ==
  [][\A c \in Commands : verdict'[c] = "no-question" /\ verdict[c] = "none" => ~QuestionShown]_vars

(* Once the commands end or the session dies the program writes what it    *)
(* owes and exits, although a receipt may stay out until the close; and a  *)
(* close or the end of stdin is read behind sends whose receipts stay out, *)
(* so a consumer that ends its input, and goes on reading, sees the end.   *)
EndsInOrder ==
  /\ (stdin = "done" \/ over) ~> (stage = "exited" \/ pipe = "broken")
  /\ WF_vars(InputEnds) => <>(stage = "exited" \/ pipe = "broken")

(* A consumer that stops reading ends the session and the program.         *)
GoneExits == gone ~> (stage = "exited")
============================================================================
