----------------------------- MODULE StreamTurn -----------------------------
(* The one-shot turn runner, streamTurn of execution/stream-turn.ts, with the
   supervisor it composes (execution/supervisor.ts), the decode state it
   threads (execution/decode.ts) and the reduction of its failures
   (execution/failure.ts).

   A turn is one process.  Its two output streams are pumped concurrently
   while a stall clock, a deadline, an abort signal, an approval observer, the
   prompt's stdin and the process's own exit each may decide how it ended.
   After the exit and both pumps the channel closes, and the generator
   derives one verdict, `done`, from what those left behind.

   A failure is its class.  The channel is AsyncChannel's: here it is the set
   of failure classes the consumer has been, or while it keeps reading will
   be, told.  Records are what decodeLine makes of them; only the kinds that
   can change a verdict are read.                                            *)
EXTENDS Naturals, Sequences, SequencesExt

CONSTANTS
  StdoutRecords,   \* what the harness may print, a set of [kind, class]
  StderrRecords,   \* what the stderr scan may find in a line
  MaxRecords,      \* bound: records read from both streams
  Budgets,         \* the budgets turns are given, sets of "stall" and "deadline"
  StdinPrompt,     \* the prompt travels over the child's stdin
  Observed         \* the harness has an approval observer (muse)

(* "limit" stands for the three walls; no turn ends in "internal". *)
Classes == {"auth", "limit", "unavailable", "trust-refused", "budget", "task",
            "timeout", "transport", "native", "rejected"}

Kinds == {"identity", "message", "asking", "garbled", "delimiter", "wall",
          "failure", "terminal", "provisional", "overflow"}

StderrKinds == {"wall", "auth", "trust", "credential", "overflow"}

ASSUME RecordsAssumption ==
  /\ StdoutRecords \subseteq [kind : Kinds, class : Classes]
  /\ StderrRecords \subseteq StderrKinds
  /\ MaxRecords \in Nat
  /\ Budgets \subseteq SUBSET {"stall", "deadline"}
  /\ {StdinPrompt, Observed} \subseteq BOOLEAN

VARIABLES
  stage,       \* where the generator is
  exit,        \* the process: none yet, running, or how it ended; "missing" is
               \* the async ENOENT
  aborted,     \* killedByAbort
  dog,         \* killedByWatchdog and watchdogReason
  blocked,     \* approvalBlocked and blockingFailure
  stall,       \* the supervisor's stall clock; "spent" fired, turn still open
  deadline,    \* the wall-clock deadline
  kill,        \* the escalation: the last signal sent
  grace,       \* the clock on pipes still open after the exit
  pump,        \* what each stream's pump is doing
  disposed,    \* disposeOutput was called
  decode,      \* DecodeState, and what the supervisor retains of the output
  inputFailed, \* the prompt could not be written
  failures,    \* the turn's failures, oldest first
  told,        \* history: the failure classes the consumer is told of
  closed,      \* the channel is closed
  completion,  \* done.completion
  startupFailed, \* the harness is not installed, and nothing else failed
  verdict,     \* the `done` event
  reads,       \* records read
  unanswered   \* history: a discarded record or a claimed error that no later
               \* assistant message superseded

clocks == <<stall, deadline, kill, grace>>
stops == <<aborted, dog, blocked>>
output == <<pump, disposed, decode, inputFailed, reads, unanswered>>
record == <<failures, told, closed>>
ending == <<stage, completion, startupFailed, verdict>>
vars == <<exit, clocks, stops, output, record, ending>>

Streams == {"stdout", "stderr"}
OpenStages == {"streaming", "credential", "fallback", "stopped", "verdict", "judged"}
Causes == {"none", "clean", "awaiting-input", "limit", "killed", "stall",
           "crash", "failed"}
NoVerdict == [cause |-> "none", failure |-> "none"]

DecodeState ==
  [identity : BOOLEAN, limit : BOOLEAN, delivered : BOOLEAN,
   delimited : BOOLEAN, claim : Classes \cup {"none"},
   lost : SUBSET {"pending", "superseded"},
   text : {"none", "message", "asking", "garbled"},
   credential : BOOLEAN, cut : BOOLEAN]

FreshDecode ==
  [identity |-> FALSE, limit |-> FALSE, delivered |-> FALSE,
   delimited |-> FALSE, claim |-> "none", lost |-> {}, text |-> "none",
   credential |-> FALSE, cut |-> FALSE]

Init ==
  /\ stage = "starting"
  /\ exit = "none"
  /\ aborted = FALSE /\ dog = "none" /\ blocked = "no"
  /\ stall = "off" /\ deadline = "off" /\ kill = "none" /\ grace = "off"
  /\ pump = [s \in Streams |-> "reading"]
  /\ disposed = FALSE
  /\ decode = FreshDecode
  /\ inputFailed = FALSE
  /\ failures = <<>> /\ told = {} /\ closed = FALSE
  /\ completion = "none" /\ startupFailed = FALSE /\ verdict = NoVerdict
  /\ reads = 0 /\ unanswered = FALSE

-----------------------------------------------------------------------------
(* Failures and their reduction *)

Rank == [c \in Classes |->
  CASE c \in {"native", "rejected"} -> 0
    [] c = "auth" -> 1
    [] c \in {"limit", "unavailable", "trust-refused"} -> 2
    [] c \in {"budget", "task", "timeout"} -> 3
    [] c = "transport" -> 4]

(* A failure that repeats the one before it is not recorded.  Messages are left
   out, so two failures of one class in a row are one: neither the reduction
   nor `told` can tell. *)
Added(fs, c) == IF fs # <<>> /\ fs[Len(fs)] = c THEN fs ELSE Append(fs, c)

(* Mutant: the last failure wins. *)
Strongest_Last(fs) == fs[Len(fs)]

(* reduceFailures: the strongest class, the earliest of equals. *)
Strongest(fs) ==
  LET Wins(i, j) == \/ Rank[fs[i]] < Rank[fs[j]]
                    \/ Rank[fs[i]] = Rank[fs[j]] /\ i <= j
  IN  fs[CHOOSE i \in DOMAIN fs : \A j \in DOMAIN fs : Wins(i, j)]

(* pushFailure: recorded for the verdict, told unless the channel is closed. *)
Fail(c) ==
  /\ failures' = Added(failures, c)
  /\ told' = IF closed THEN told ELSE told \cup {c}
  /\ UNCHANGED closed

FailIf(condition, c) == IF condition THEN Fail(c) ELSE UNCHANGED record

(* A failure yielded after the channel closed goes straight to the consumer. *)
Yield(c) ==
  /\ failures' = Append(failures, c)
  /\ told' = told \cup {c}
  /\ UNCHANGED closed

Gone == exit \notin {"none", "running"}

Cancelled == stage \in {"left", "returned"}

(* A stop the caller or hcn's own deadline asked for. *)
Stopping == aborted \/ dog = "deadline"

(* superviseTermination.escalate: no signal once the exit settled it, none
   while an escalation is pending. *)
Escalate ==
  kill' = IF exit = "running" /\ kill # "term" THEN "term" ELSE kill

-----------------------------------------------------------------------------
(* The start of the turn *)

(* An invalid environment, or options with no argv: refused, nothing runs. *)
Refuse ==
  /\ stage = "starting"
  /\ Yield("rejected")
  /\ verdict' = [cause |-> "failed", failure |-> "rejected"]
  /\ stage' = "returned"
  /\ UNCHANGED <<exit, clocks, stops, output, completion, startupFailed>>

(* spawn threw: a transport failure, not a crash. *)
SpawnThrows ==
  /\ stage = "starting"
  /\ Yield("transport")
  /\ verdict' = [cause |-> "failed", failure |-> "transport"]
  /\ stage' = "returned"
  /\ UNCHANGED <<exit, clocks, stops, output, completion, startupFailed>>

(* The process runs.  A signal aborted already escalates before the budgets
   are armed, each if it was asked for. *)
Spawn ==
  /\ stage = "starting"
  /\ stage' = "streaming"
  /\ aborted' \in BOOLEAN
  /\ kill' = IF aborted' THEN "term" ELSE "none"
  /\ \E asked \in Budgets :
        /\ stall' = IF "stall" \in asked THEN "armed" ELSE "off"
        /\ deadline' = IF "deadline" \in asked THEN "armed" ELSE "off"
  /\ exit' = "running"
  /\ UNCHANGED <<dog, blocked, grace, output, record, completion,
                 startupFailed, verdict>>

-----------------------------------------------------------------------------
(* Reasons to stop *)

(* onAbort: the listener lives until the generator's finally, but what it sets
   no longer matters to a verdict once formed. *)
Abort ==
  /\ stage \in OpenStages \ {"judged"}
  /\ ~aborted
  /\ aborted' = TRUE
  /\ Escalate
  /\ UNCHANGED <<exit, dog, blocked, stall, deadline, grace, output, record, ending>>

(* The stall clock: onStall disarms the deadline, then escalation begins.  The
   turn stays open, so later output arms the clock again. *)
StallFires ==
  /\ stall = "armed"
  /\ stall' = "spent"
  /\ dog' = "inactivity"
  /\ deadline' = "off"
  /\ Escalate
  /\ UNCHANGED <<exit, aborted, blocked, grace, output, record, ending>>

(* Mutant: the supervisor's turn stays open. *)
DeadlineFires_Open ==
  /\ deadline = "armed"
  /\ deadline' = "off"
  /\ dog' = "deadline"
  /\ Escalate
  /\ UNCHANGED <<exit, aborted, blocked, stall, grace, output, record, ending>>

(* The deadline closes the supervisor's turn, so nothing arms a stall again. *)
DeadlineFires ==
  /\ deadline = "armed"
  /\ deadline' = "off"
  /\ dog' = "deadline"
  /\ stall' = "off"
  /\ Escalate
  /\ UNCHANGED <<exit, aborted, blocked, grace, output, record, ending>>

(* stopForApproval: something pends that nobody can answer ("task"), the
   pending set cannot be read ("transport"), or the observer's protocol is not
   the one hcn speaks ("native"). *)
ApprovalStop(c) ==
  /\ Observed /\ decode.identity
  /\ blocked = "no" /\ exit = "running" /\ ~Cancelled
  /\ ~aborted /\ dog = "none"
  /\ blocked' = c
  /\ Fail(c)
  /\ stall' = "off" /\ deadline' = "off"
  /\ Escalate
  /\ UNCHANGED <<exit, aborted, dog, grace, output, ending>>

(* failInput: the prompt did not reach the child. *)
InputFails ==
  /\ StdinPrompt
  /\ ~inputFailed /\ ~Cancelled /\ exit = "running"
  /\ inputFailed' = TRUE
  /\ Fail("transport")
  /\ Escalate
  /\ UNCHANGED <<exit, stops, stall, deadline, grace, pump, disposed, decode,
                 reads, unanswered, ending>>

(* SIGKILL follows a SIGTERM the child survived. *)
KillFires ==
  /\ kill = "term" /\ exit = "running"
  /\ kill' = "kill"
  /\ UNCHANGED <<exit, stops, stall, deadline, grace, output, record, ending>>

(* Mutant: the pipes are waited for without a limit. *)
Exits_NoGrace(how) ==
  /\ exit = "running"
  /\ how = "missing" => reads = 0
  /\ exit' = how
  /\ stall' = "off" /\ deadline' = "off"
  /\ UNCHANGED <<kill, grace, stops, output, record, ending>>

(* The process is gone: supervisor settled, deadline disarmed, and a grace
   for pipes a grandchild still holds, unless the turn was given up. *)
Exits(how) ==
  /\ exit = "running"
  /\ how = "missing" => reads = 0
  /\ exit' = how
  /\ stall' = "off" /\ deadline' = "off"
  /\ grace' = IF Cancelled THEN grace ELSE "armed"
  /\ UNCHANGED <<kill, stops, output, record, ending>>

GraceFires ==
  /\ grace = "armed"
  /\ grace' = "fired"
  /\ disposed' = TRUE
  /\ UNCHANGED <<exit, stall, deadline, kill, stops, pump, decode, inputFailed,
                 reads, unanswered, record, ending>>

-----------------------------------------------------------------------------
(* The pumps *)

(* sup.rearm: any output restarts the inactivity budget of an open turn. *)
Rearmed == stall' = IF stall = "spent" THEN "armed" ELSE stall

Reading(s) ==
  /\ pump[s] = "reading" /\ ~Cancelled
  /\ exit \notin {"none", "missing"}
  /\ reads < MaxRecords
  /\ reads' = reads + 1
  /\ Rearmed
  /\ UNCHANGED <<exit, deadline, kill, grace, stops, pump, disposed, inputFailed, ending>>

(* An assistant message supersedes what came before it: the claimed error is
   withdrawn, the discarded records become evidence of a recovery. *)
ReadMessage(r) ==
  /\ r.kind \in {"message", "asking", "garbled"}
  /\ decode' = [decode EXCEPT !.delivered = TRUE, !.claim = "none",
                              !.text = r.kind,
                              !.lost = IF @ = {} THEN {} ELSE {"superseded"}]
  /\ unanswered' = FALSE
  /\ UNCHANGED record

(* The harness's own success delimiter, void while an error is claimed. *)
ReadDelimiter(r) ==
  /\ r.kind = "delimiter"
  /\ decode' = [decode EXCEPT !.delimited = @ \/ decode.claim = "none"]
  /\ UNCHANGED <<unanswered, record>>

(* A wall in plain output counts whatever stops the turn. *)
ReadWall(r) ==
  /\ r.kind = "wall"
  /\ decode' = [decode EXCEPT !.limit = TRUE]
  /\ Fail("limit")
  /\ UNCHANGED unanswered

(* A failure record or a terminal error is the harness's own cancellation when
   a known cause stops the turn, and is dropped.  A limit among the terminal
   errors is a wall. *)
ReadFailure(r) ==
  /\ r.kind \in {"failure", "terminal"}
  /\ FailIf(~Stopping, r.class)
  /\ decode' = [decode EXCEPT
       !.limit = @ \/ (r.kind = "terminal" /\ r.class = "limit" /\ ~Stopping)]
  /\ UNCHANGED unanswered

(* A terminal error the harness may still retry out of: its verdict waits. *)
ReadProvisional(r) ==
  /\ r.kind = "provisional"
  /\ decode' = [decode EXCEPT !.claim = r.class]
  /\ unanswered' = TRUE
  /\ UNCHANGED record

(* noteStdoutOverflow: a discarded record is held as evidence. *)
ReadOverflow(r) ==
  /\ r.kind = "overflow"
  /\ decode' = [decode EXCEPT !.lost = @ \cup {"pending"}]
  /\ unanswered' = TRUE
  /\ UNCHANGED record

(* startApprovalWatch begins at the first identity. *)
ReadIdentity(r) ==
  /\ r.kind = "identity"
  /\ decode' = [decode EXCEPT !.identity = TRUE]
  /\ UNCHANGED <<unanswered, record>>

ReadStdout(r) ==
  /\ Reading("stdout")
  /\ \/ ReadMessage(r)
     \/ ReadDelimiter(r)
     \/ ReadWall(r)
     \/ ReadFailure(r)
     \/ ReadProvisional(r)
     \/ ReadOverflow(r)
     \/ ReadIdentity(r)

(* stderrLine: a wall, an auth or trust refusal fails the turn at once; a
   credential-access line waits for the exit code; a discarded line waits for
   the end of the stream. *)
ReadStderr(k) ==
  /\ Reading("stderr")
  /\ CASE k = "wall" -> Fail("limit")
       [] k = "auth" -> Fail("auth")
       [] k = "trust" -> Fail("trust-refused")
       [] OTHER -> UNCHANGED record
  /\ decode' = [decode EXCEPT !.limit = @ \/ k = "wall",
                              !.credential = @ \/ k = "credential",
                              !.cut = @ \/ k = "overflow"]
  /\ UNCHANGED unanswered

(* Mutant: what the stream left open is dropped with the stream. *)
SettleStdout_Dropped ==
  /\ decode' = [decode EXCEPT !.lost = {}, !.claim = "none"]
  /\ UNCHANGED record

(* settleOverflows, then settleProvisionalError: what no message superseded is
   the turn's verdict; a superseded overflow only warns when the delimiter
   came.  Either is dropped when a known cause stops the turn. *)
SettleStdout ==
  LET lost == \/ "pending" \in decode.lost
              \/ "superseded" \in decode.lost /\ ~decode.delimited
      lostClass == IF lost THEN {"transport"} ELSE {}
      claimClass == {decode.claim} \ {"none"}
      first == IF lost THEN Added(failures, "transport") ELSE failures
  IN  /\ decode' = [decode EXCEPT !.lost = {}, !.claim = "none",
                      !.limit = @ \/ (~Stopping /\ decode.claim = "limit")]
      /\ IF Stopping
         THEN UNCHANGED record
         ELSE /\ failures' = IF claimClass = {} THEN first
                                                ELSE Added(first, decode.claim)
              /\ told' = IF closed THEN told ELSE told \cup lostClass \cup claimClass
              /\ UNCHANGED closed

SettleStderr ==
  /\ FailIf(decode.cut, "transport")
  /\ decode' = [decode EXCEPT !.cut = FALSE]

(* A stream ends: the child closed it, or disposal settled its last read.  The
   adapter's stderr ends only after the exit or the disposal. *)
PumpEnds(s) ==
  /\ exit # "none" /\ pump[s] = "reading"
  /\ s = "stderr" => Gone \/ disposed
  /\ pump' = [pump EXCEPT ![s] = "settled"]
  /\ IF Cancelled
     THEN UNCHANGED <<decode, record>>
     ELSE IF s = "stdout" THEN SettleStdout ELSE SettleStderr
  /\ UNCHANGED <<exit, clocks, stops, disposed, inputFailed, reads, unanswered, ending>>

(* A read failed: reported, the process stopped; its stream stays open until
   the process is gone. *)
PumpBreaks(s) ==
  /\ exit # "none" /\ pump[s] = "reading" /\ ~disposed
  /\ pump' = [pump EXCEPT ![s] = "failed"]
  /\ Fail("transport")
  /\ Escalate
  /\ UNCHANGED <<exit, stops, stall, deadline, grace, disposed, decode, inputFailed,
                 reads, unanswered, ending>>

PumpRecovers(s) ==
  /\ pump[s] = "failed" /\ Gone
  /\ pump' = [pump EXCEPT ![s] = "settled"]
  /\ disposed' = TRUE
  /\ UNCHANGED <<exit, clocks, stops, decode, inputFailed, reads, unanswered,
                 record, ending>>

Drained == Gone /\ \A s \in Streams : pump[s] = "settled"

(* sup.close, then queue.close: a malformed question fails the turn. *)
Close ==
  /\ stage = "streaming" /\ ~closed /\ Drained
  /\ failures' = IF decode.text = "garbled" THEN Added(failures, "task") ELSE failures
  /\ told' = IF decode.text = "garbled" THEN told \cup {"task"} ELSE told
  /\ closed' = TRUE
  /\ UNCHANGED <<exit, clocks, stops, output, ending>>

-----------------------------------------------------------------------------
(* The verdict, step by step: each failure found is yielded, and the caller
   may abort or leave while it is.  Where a step yields nothing, an abort after
   it might as well have come before it. *)

After(from, to) ==
  /\ stage = from
  /\ stage' = to
  /\ UNCHANGED <<exit, clocks, stops, output, verdict>>

YieldIf(condition, c) == IF condition THEN Yield(c) ELSE UNCHANGED record

(* The channel is drained.  A harness that is not installed is a transport
   failure, unless another explains the turn already. *)
Startup ==
  /\ closed
  /\ After("streaming", "credential")
  /\ startupFailed' = (exit = "missing" /\ failures = <<>>)
  /\ YieldIf(startupFailed', "transport")
  /\ UNCHANGED completion

(* The credential-access observation, now that the exit code is known. *)
Credential ==
  /\ After("credential", "fallback")
  /\ YieldIf(/\ ~startupFailed /\ ~aborted /\ dog = "none"
             /\ decode.credential /\ exit \in {"nonzero", "missing"},
             "auth")
  /\ UNCHANGED <<completion, startupFailed>>

(* done.completion is what the output proved; a nonzero exit nothing else
   explains is read off the stderr tail. *)
Fallback ==
  /\ After("fallback", "stopped")
  /\ completion' = IF decode.delimited /\ failures = <<>> THEN "native-terminal"
                   ELSE IF decode.delivered THEN "message-delivered" ELSE "none"
  /\ IF /\ ~startupFailed /\ ~aborted /\ dog = "none"
        /\ failures = <<>> /\ exit \in {"nonzero", "missing"} /\ ~decode.limit
     THEN \E c \in IF completion' = "native-terminal" THEN {"native"}
                   ELSE {"transport", "unavailable", "trust-refused", "native"} : Yield(c)
     ELSE UNCHANGED record
  /\ UNCHANGED startupFailed

(* hcn's own stop: a deadline always says so, a stall only where nothing else
   failed. *)
StopFailure ==
  /\ After("stopped", "verdict")
  /\ IF dog = "deadline" /\ ~aborted
     THEN Yield("timeout")
     ELSE YieldIf(dog = "inactivity" /\ ~aborted /\ failures = <<>>, "transport")
  /\ UNCHANGED <<completion, startupFailed>>

Reduced ==
  CASE aborted -> "none"
    [] ~aborted /\ dog = "deadline" -> "timeout"
    [] ~aborted /\ dog # "deadline" /\ blocked # "no" -> blocked
    [] OTHER -> IF failures = <<>> THEN "none" ELSE Strongest(failures)

(* The cause before failures are weighed. *)
RawCause ==
  IF decode.limit THEN "limit"
  ELSE IF aborted THEN "killed"
  ELSE IF dog # "none" /\ exit # "zero"
       THEN IF dog = "deadline" THEN "killed" ELSE "stall"
  ELSE CASE exit = "zero" -> IF decode.text = "asking" THEN "awaiting-input" ELSE "clean"
         [] exit = "signal" -> "killed"
         [] OTHER -> IF startupFailed THEN "failed" ELSE "crash"

Cause ==
  IF \/ blocked # "no" /\ ~aborted
     \/ RawCause = "clean" /\ Reduced # "none"
     \/ RawCause = "crash" /\ Reduced \notin {"none", "native"}
  THEN "failed"
  ELSE RawCause

Judge ==
  /\ stage = "verdict"
  /\ stage' = "judged"
  /\ verdict' = [cause |-> Cause, failure |-> Reduced]
  /\ UNCHANGED <<exit, clocks, stops, output, record, completion, startupFailed>>

(* `done`, after the error that shows the tail; the finally has nothing left to
   wait for. *)
Deliver ==
  /\ stage = "judged"
  /\ stage' = "returned"
  /\ grace' = "off"
  /\ UNCHANGED <<exit, stall, deadline, kill, stops, output, record, completion,
                 startupFailed, verdict>>

(* The consumer breaks off: the finally stops the child, closes the channel
   and disposes of the output... *)
Leave ==
  /\ stage \in OpenStages
  /\ stage' = "left"
  /\ closed' = TRUE
  /\ stall' = "off" /\ deadline' = "off"
  /\ Escalate
  /\ disposed' = TRUE
  /\ verdict' = NoVerdict
  /\ UNCHANGED <<exit, stops, grace, pump, decode, inputFailed, reads, unanswered,
                 failures, told, completion, startupFailed>>

(* ...and returns when the process and both pumps are done. *)
Return ==
  /\ stage = "left" /\ Drained
  /\ stage' = "returned"
  /\ grace' = "off"
  /\ UNCHANGED <<exit, stall, deadline, kill, stops, output, record, completion,
                 startupFailed, verdict>>

-----------------------------------------------------------------------------
Start == Refuse \/ SpawnThrows \/ Spawn

Pumps ==
  \/ \E r \in StdoutRecords : ReadStdout(r)
  \/ \E k \in StderrRecords : ReadStderr(k)
  \/ \E s \in Streams : PumpEnds(s) \/ PumpBreaks(s) \/ PumpRecovers(s)

OwnStop ==
  \/ Abort
  \/ StallFires
  \/ DeadlineFires
  \/ InputFails
  \/ KillFires
  \/ \E how \in {"zero", "nonzero", "signal", "missing"} : Exits(how)
  \/ GraceFires

Stop == OwnStop \/ \E c \in {"task", "transport", "native"} : ApprovalStop(c)

Verdict ==
  \/ Close
  \/ Startup
  \/ Credential
  \/ Fallback
  \/ StopFailure
  \/ Judge

Finish ==
  \/ Verdict
  \/ Deliver
  \/ Leave
  \/ Return

Next == Start \/ Pumps \/ Stop \/ Finish

Spec == Init /\ [][Next]_vars

(* The runtime's promises: a set timer fires, SIGKILL ends a process, disposed
   output ends.  The consumer's: it keeps asking for the next event, or
   leaves.  Nothing makes the harness write, close a pipe or exit. *)
TimersFair ==
  /\ WF_vars(StallFires) /\ WF_vars(DeadlineFires)
  /\ WF_vars(KillFires) /\ WF_vars(GraceFires)

ChildFair ==
  /\ WF_vars(kill = "kill" /\ Exits("signal"))
  /\ \A s \in Streams : WF_vars(disposed /\ PumpEnds(s)) /\ WF_vars(PumpRecovers(s))

-----------------------------------------------------------------------------
(* Type correctness of everything a turn keeps. *)
TypeOK ==
  /\ stage \in OpenStages \cup {"starting", "left", "returned"}
  /\ exit \in {"none", "running", "zero", "nonzero", "signal", "missing"}
  /\ aborted \in BOOLEAN /\ dog \in {"none", "inactivity", "deadline"}
  /\ blocked \in {"no", "task", "transport", "native"}
  /\ stall \in {"off", "armed", "spent"} /\ deadline \in {"off", "armed"}
  /\ kill \in {"none", "term", "kill"} /\ grace \in {"off", "armed", "fired"}
  /\ pump \in [Streams -> {"reading", "failed", "settled"}]
  /\ disposed \in BOOLEAN /\ inputFailed \in BOOLEAN
  /\ decode \in DecodeState
  /\ failures \in Seq(Classes) /\ told \in SUBSET Classes
  /\ closed \in BOOLEAN /\ startupFailed \in BOOLEAN
  /\ completion \in {"none", "native-terminal", "message-delivered"}
  /\ verdict \in [cause : Causes, failure : Classes \cup {"none"}]
  /\ reads \in Nat /\ unanswered \in BOOLEAN

Delivered == stage = "returned" /\ verdict # NoVerdict

(* The verdict weighs exactly what the consumer was told: a failure nobody was
   shown decides nothing, and none that was shown is forgotten.  Unless a stop
   the caller or hcn asked for owns it, done.failure is at least as strong as
   every failure on the stream. *)
VerdictFollowsStream ==
  Delivered =>
    /\ Range(failures) = told
    /\ verdict.failure # "none" => verdict.failure \in told
    /\ ~aborted /\ dog # "deadline" /\ blocked = "no" =>
         \A c \in told : /\ verdict.failure # "none"
                         /\ Rank[verdict.failure] <= Rank[c]

(* A clean turn is one whose process exited zero on its own, with no failure
   or wall on its streams, no prompt lost on the way in, and no discarded
   record or claimed error left that a later message did not supersede. *)
CleanIsClean ==
  Delivered /\ verdict.cause = "clean" =>
    /\ exit = "zero" /\ ~aborted /\ dog = "none" /\ blocked = "no"
    /\ told = {} /\ ~decode.limit /\ ~inputFailed
    /\ ~unanswered

(* The reason a turn was stopped is decided once: a watchdog's reason stands,
   an approval stop and a watchdog exclude each other in either order, and
   once the process is gone neither comes and no signal is sent. *)
StopsOnce ==
  [][ /\ dog # "none" => dog' = dog /\ blocked' = blocked
      /\ blocked # "no" => blocked' = blocked /\ dog' = dog
      /\ Gone => <<dog, blocked, kill>>' = <<dog, blocked, kill>> ]_vars

(* Something stops the turn: an abort, a budget, an approval nobody can
   answer, a consumer that left, or the process's own exit with a grandchild
   still holding its pipes. *)
Stopped == aborted \/ dog # "none" \/ blocked # "no" \/ Gone \/ stage = "left"

=============================================================================
