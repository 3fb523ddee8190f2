----------------------------- MODULE RunCommand -----------------------------
(***************************************************************************)
(* hcn run (src/cli/run.ts, resume-guard.ts, signal-target.ts,             *)
(* observer.ts, output-errors.ts): the plan, the check that a session to   *)
(* resume is there, the turn's events on their way to stdout and to the    *)
(* observer, signals, a broken output, and the exit code.  And hcn session *)
(* up to the spawn of its process, from where JsonSession goes on.         *)
(*                                                                         *)
(* The turn itself is StreamTurn's; here it is a source of events that may *)
(* refuse before it spawns, fail to spawn, spawn, report and end with      *)
(* done, or throw.  A line of output is the kind of its event: "event"     *)
(* stands for all that are neither droppable nor the last.                 *)
(* Once the run is under way its options no longer matter: what is kept of *)
(* the call is the harness and what the run reads.                         *)
(***************************************************************************)
EXTENDS SessionPlan

CONSTANTS MaxEvents,      \* events a turn reports before its done
          Observing       \* {TRUE}, {FALSE} or both: is HCN_OBSERVER set?

ASSUME RunAssumption == MaxEvents \in Nat

VARIABLES run,       \* "planning", "guard", "streaming", "open" or "over"
          turn,      \* the runner: spawned, child, store, events, cause
          out,       \* events written to stdout
          observer,  \* the observer's stream: mode and log
          sig,       \* interrupted, what the child was told, output broken or gone
          exit       \* hcn's exit code, or -1 while it runs

runVars == << run, turn, out, observer, sig, exit >>
vars == << planVars, runVars >>

ExitClean == 0
ExitFailure == 1
ExitRefusal == 2

Causes == {"clean", "awaiting-input", "failed", "interrupted"}
CauseExit(cause) ==
  IF cause \in {"clean", "awaiting-input"} THEN ExitClean ELSE ExitFailure

NoTurn == [spawned |-> FALSE, child |-> "none", missing |-> FALSE,
           verified |-> FALSE, events |-> 0, cause |-> "none"]

Init ==
  /\ PlanInit
  /\ run = "planning" /\ turn = NoTurn /\ out = <<>> /\ exit = -1
  /\ observer = [mode |-> "off", log |-> <<>>]
  /\ sig = [interrupted |-> FALSE, told |-> {}, broken |-> FALSE, gone |-> FALSE]

Planning ==
  /\ run = "planning"
  /\ \/ PlanNext
     \/ SessionPlanNext
  /\ UNCHANGED runVars

-----------------------------------------------------------------------------
(* The observer: one stream, from the first spawn to the first done.       *)

\* Kinds a consumer may miss; an observer is not sent them.
Droppable == {"token"}

\* The records that may tell an event: one of more than 1 MiB is replaced.
Records(kind) == {kind, "skipped"}

Watched(o, kind, record) ==
  IF o.mode # "live" \/ kind \in Droppable THEN o
  ELSE [mode |-> IF kind = "done" THEN "ended" ELSE "live",
        log |-> Append(o.log, record)]

Launched(o) ==
  IF o.mode = "waiting" THEN [mode |-> "live", log |-> << "started" >>] ELSE o
ObserverEnds(o) == IF o.mode \in {"live", "waiting"} THEN [o EXCEPT !.mode = "ended"] ELSE o

\* The stream fails silently at any time: the observer died, or its pipe is
\* full past the cap.
ObserverFails ==
  /\ observer.mode = "live"
  /\ observer' = [observer EXCEPT !.mode = "failed"]
  /\ UNCHANGED << planVars, run, turn, out, sig, exit >>

Approvals == Tagged("native-approvals")

-----------------------------------------------------------------------------
(* Leaving.                                                                *)

Over(code, o) ==
  /\ run' = "over" /\ exit' = code /\ observer' = ObserverEnds(o)

\* The last line of a JSON stream.
Terminal == IF IsSession THEN "closed" ELSE "done"

\* refuse: a JSON stream is owed its pair, and the exit code is 2.
RefuseWith(o) ==
  /\ out' = IF Tagged("json") THEN out \o << "failure", Terminal >> ELSE out
  /\ Over(ExitRefusal, o)

PlanRefused ==
  /\ run = "planning" /\ stage = "refused"
  /\ RefuseWith(observer)
  /\ UNCHANGED << planVars, turn, sig >>

\* What the run still reads of the call.
Kept == [call EXCEPT !.args = <<>>, !.user = <<>>, !.project = <<>>,
                     !.shape = @ \intersect {"json", "native-approvals"},
                     !.env = "unset", !.inherited = FALSE]

Planned ==
  /\ run = "planning" /\ stage = "planned" /\ ~IsSession
  /\ run' = "guard"
  /\ call' = Kept /\ stage' = "run" /\ plan' = NoPlan /\ effects' = <<>>
  /\ UNCHANGED << issue, turn, out, observer, sig, exit >>

(* A session's process is spawned and its handle is handed over, or the    *)
(* spawn throws: a transport failure, not a refusal.                       *)
OpenSession ==
  /\ run = "planning" /\ stage = "planned" /\ IsSession
  /\ turn' = [turn EXCEPT !.spawned = TRUE, !.child = "alive"]
  /\ run' = "open"
  /\ UNCHANGED << planVars, out, observer, sig, exit >>

SessionSpawnThrows ==
  /\ run = "planning" /\ stage = "planned" /\ IsSession
  /\ out' = IF Tagged("json") THEN out \o << "failure", Terminal >> ELSE out
  /\ Over(ExitFailure, observer)
  /\ UNCHANGED << planVars, turn, sig >>

(* A harness that creates a session for an unknown id would silently start *)
(* a blank one: the store is searched first, where its path is known.      *)
ResumeGuard ==
  /\ run = "guard"
  /\ \E store \in IF call.resume # "" /\ CreatesMissing(call.h)
                  THEN {"found", "missing", "unknown"} ELSE {"skipped"} :
       /\ turn' = [turn EXCEPT !.missing = store = "missing",
                               !.verified = store = "found"]
       /\ IF store = "missing"
          THEN RefuseWith(observer)
          ELSE /\ \E on \in Observing :
                    observer' = [observer EXCEPT !.mode = IF on THEN "waiting" ELSE "off"]
               /\ run' = "streaming" /\ UNCHANGED << out, exit >>
  /\ UNCHANGED << planVars, sig >>

-----------------------------------------------------------------------------
(* The turn's events.                                                      *)

LastOut == IF out = <<>> THEN "none" ELSE out[Len(out)]
Ended == turn.events > MaxEvents
Streaming == run = "streaming" /\ ~Ended

\* The runner refuses before it spawns anything.  It throws nothing: its
\* failure and its done come through the loop, as of a turn that failed.
TurnRefuses ==
  /\ Streaming /\ turn.child = "none"
  /\ turn' = [turn EXCEPT !.child = "never"]
  /\ UNCHANGED << planVars, run, out, observer, sig, exit >>

\* The first spawn is the harness's: signals go to it, and the observer
\* starts with it.
Spawn ==
  /\ Streaming /\ turn.child = "none"
  /\ turn' = [turn EXCEPT !.spawned = TRUE, !.child = "alive"]
  /\ observer' = Launched(observer)
  /\ UNCHANGED << planVars, run, out, sig, exit >>

\* The spawn throws after the observer's start; the runner reports an error,
\* a failure and a done of its own.
SpawnThrows ==
  /\ Streaming /\ turn.child = "none"
  /\ turn' = [turn EXCEPT !.spawned = TRUE, !.child = "never"]
  /\ observer' = Launched(observer)
  /\ UNCHANGED << planVars, run, out, sig, exit >>

\* Mutant: a turn that already ended is given a second end.
Transport_Again ==
  \E failure \in Records("failure"), done \in Records("done") :
    /\ out' = IF Tagged("json") /\ ~sig.broken
              THEN Append(Append(out, "failure"), "done") ELSE out
    /\ Over(ExitFailure, Watched(Watched(observer, "failure", failure), "done", done))

\* An exception leaves a failure and a done behind unless a done is out.
Transport ==
  \E failure \in Records("failure"), done \in Records("done") :
    LET ended == LastOut = "done"
        seen  == Watched(Watched(observer, "failure", failure), "done", done)
    IN  /\ out' = IF Tagged("json") /\ ~ended /\ ~sig.broken
                  THEN Append(Append(out, "failure"), "done") ELSE out
        /\ Over(ExitFailure, IF ended THEN observer ELSE seen)

\* What is left of the turn once its loop was left.
Stopped == [turn EXCEPT !.child = IF @ = "alive" THEN "gone" ELSE @]

\* The turn throws, even after its done was written.
TurnThrows ==
  /\ run = "streaming" /\ turn.child \in {"alive", "gone"}
  /\ turn' = Stopped
  /\ Transport
  /\ UNCHANGED << planVars, sig >>

\* A line of output, told to the observer first.
Line(kind) ==
  /\ out' = Append(out, kind)
  /\ \E record \in Records(kind) : observer' = Watched(observer, kind, record)
  /\ UNCHANGED run

\* One event reaches the loop.  A broken output of an approval turn throws
\* there; the loop leaves, and the runner's cleanup stops the child.
Event(kind) ==
  /\ Streaming /\ turn.child \in {"alive", "never"}
  /\ turn.events < MaxEvents
  /\ IF sig.broken
     THEN turn' = Stopped /\ Transport
     ELSE /\ turn' = [turn EXCEPT !.events = @ + 1]
          /\ Line(kind) /\ UNCHANGED exit
  /\ UNCHANGED << planVars, sig >>

\* The turn's last event.  A turn that was told to stop may still have
\* finished first, so any cause can follow a signal; one that never came to
\* be has failed, and has said so before.
Done(cause) ==
  /\ Streaming /\ turn.child \in {"alive", "never"}
  /\ turn.child = "never" => cause = "failed" /\ "event" \in Range(out)
  /\ IF sig.broken
     THEN turn' = Stopped /\ Transport
     ELSE /\ turn' = [Stopped EXCEPT !.events = MaxEvents + 1, !.cause = cause]
          /\ Line("done") /\ exit' = CauseExit(cause)
  /\ UNCHANGED << planVars, sig >>

\* After the loop: an interrupted run never reports success.
Finish ==
  /\ run = "streaming" /\ Ended
  /\ Over(IF sig.interrupted /\ exit = ExitClean THEN ExitFailure ELSE exit, observer)
  /\ UNCHANGED << planVars, turn, out, sig >>

-----------------------------------------------------------------------------
(* Signals, and an output that breaks.                                     *)

\* Only the first signal counts.  A child that is not there yet is not
\* told; the abort reaches it when it is spawned.
Signal ==
  /\ run = "streaming" /\ ~sig.interrupted
  /\ sig' = [sig EXCEPT !.interrupted = TRUE,
               !.told = IF turn.child \in {"alive", "gone"}
                        THEN @ \union {"SIGTERM"} ELSE @]
  /\ UNCHANGED << planVars, run, turn, out, observer, exit >>

\* The grace period runs out while the run still streams.
Escalate ==
  /\ run = "streaming" /\ sig.interrupted /\ "SIGKILL" \notin sig.told
  /\ turn.child = "alive"
  /\ sig' = [sig EXCEPT !.told = @ \union {"SIGKILL"}]
  /\ UNCHANGED << planVars, run, turn, out, observer, exit >>

\* Standard output's reader is gone.  An approval turn owns the error and
\* aborts; any other run leaves at once and reports success.
OutputBreaks ==
  /\ run = "streaming" /\ ~sig.broken /\ out # <<>>
  /\ IF Approvals
     THEN sig' = [sig EXCEPT !.broken = TRUE] /\ UNCHANGED << run, exit >>
     ELSE /\ sig' = [sig EXCEPT !.gone = TRUE] /\ run' = "over"
          /\ exit' = ExitClean
  /\ UNCHANGED << planVars, turn, out, observer >>

RunNext ==
  \/ PlanRefused \/ Planned \/ ResumeGuard \/ OpenSession \/ SessionSpawnThrows
  \/ TurnRefuses \/ Spawn \/ SpawnThrows \/ TurnThrows
  \/ \E kind \in Droppable \union {"event"} : Event(kind)
  \/ \E cause \in Causes : Done(cause)
  \/ Finish \/ Signal \/ Escalate \/ OutputBreaks \/ ObserverFails

Next == Planning \/ RunNext

Spec == Init /\ [][Next]_vars

-----------------------------------------------------------------------------
(* Properties.                                                             *)

\* The exit code tells the truth of a run whose output was read to the end:
\* 2 means that nothing was started and nothing but the refusal was written,
\* 0 that a done was written of a turn nobody interrupted.  A plan asks the
\* harness last: one refused after its probe lacks an extension's option.
ExitTellsTruth ==
  run = "over" /\ ~sig.gone =>
    /\ exit = ExitRefusal => ~turn.spawned /\ Range(out) \subseteq {"failure", Terminal}
    /\ exit = ExitClean =>
         LastOut = "done" /\ turn.cause \in {"clean", "awaiting-input"} /\ ~sig.interrupted
    /\ Tagged("json") /\ ~sig.broken => LastOut = Terminal
    /\ stage = "refused" /\ "probe" \in Range(effects)
         => issue = "extension-option-unavailable"

\* A line's place among those an observer is sent.
Place(lines, i) == Cardinality({j \in 1 .. i : lines[j] \notin Droppable})

\* After its start a log has the lines that are not droppable, in their
\* order, each by its record or by the mark of one too large.
Tells(log, lines) ==
  /\ Len(log) = 1 + Place(lines, Len(lines))
  /\ \A i \in 1 .. Len(lines) :
       lines[i] \notin Droppable => log[1 + Place(lines, i)] \in Records(lines[i])

\* The observer is told the run from its start to exactly one end: each line
\* the caller read that is not droppable, and none else, and it is never left
\* without the record, or the mark, of the done.
ObserverSeesRun ==
  LET log == observer.log IN
  log # <<>> =>
    /\ log[1] = "started" /\ turn.spawned
    /\ \A i \in 1 .. Len(log) - 1 : log[i] # "done"
    /\ ~sig.broken /\ Tagged("json") /\ observer.mode # "failed" => Tells(log, out)
    /\ observer.mode = "ended" /\ ~sig.gone => log[Len(log)] \in Records("done")

(* What the exit code, the lines and the observer tell of one run agree.   *)
RunTold == ExitTellsTruth /\ ObserverSeesRun
=============================================================================
