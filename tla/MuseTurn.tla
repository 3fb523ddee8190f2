----------------------------- MODULE MuseTurn -----------------------------
(* A one-shot turn and the approval observer it owns: streamTurn of
   execution/stream-turn.ts starts the observer at the first identity, is
   stopped by its report, and reaps its helpers before it returns.  Turns of
   every other harness are here too, without an observer.                    *)
EXTENDS StreamTurn, MuseWatch

VARIABLE observed   \* the harness has an approval observer (muse)

bothVars == <<vars, watchVars>>
museVars == <<bothVars, observed>>

MuseInit == Init /\ WatchInit /\ observed \in {FALSE, Observed}

-----------------------------------------------------------------------------
(* What makes the turn ignore a stop for an approval, or start no observer. *)
StopIgnored == \/ blocked # "no" \/ Gone \/ Cancelled \/ aborted
               \/ dog # "none"

(* startApprovalWatch runs after the identity was pushed; until then the
   output pump waits for it. *)
ToObserve ==
  /\ observed /\ decode.identity /\ watch.state = "off"
  /\ blocked = "no" /\ ~Gone /\ ~Cancelled /\ ~aborted

(* stopForApproval, called by the observer's step. *)
StopForApproval ==
  IF watch'.report # watch.report /\ ~StopIgnored
  THEN ApprovalStop(watch'.report)
  ELSE UNCHANGED vars

ObserverBegins ==
  /\ ToObserve
  /\ WatchBegins
  /\ StopForApproval

ObserverSteps ==
  /\ WatchStep
  /\ StopForApproval

(* The native run raises, decides and compacts while it lives; what it does
   once the observer has reported or closed, nobody reads. *)
NativeSteps ==
  /\ observed /\ exit = "running"
  /\ watch.report = "no" /\ watch.state # "closed"
  /\ NativeStep
  /\ UNCHANGED vars

CloseIfWatching == IF watch.state = "on" THEN WatchCloses ELSE UNCHANGED watchVars

(* The consumer took `done`: the finally closes the observer first... *)
ObserverCloses ==
  /\ stage = "judged"
  /\ WatchCloses
  /\ UNCHANGED vars

(* ...and returns when its helpers are drained. *)
DeliverReaped ==
  /\ watch.state # "on" /\ Reaped
  /\ Deliver
  /\ UNCHANGED watchVars

LeaveWatching ==
  /\ Leave
  /\ CloseIfWatching

ReturnReaped ==
  /\ Reaped
  /\ Return
  /\ UNCHANGED watchVars

-----------------------------------------------------------------------------
MusePumps ==
  /\ ~ToObserve
  /\ Pumps
  /\ UNCHANGED watchVars

(* The turn's own reasons to stop, and its verdict. *)
TurnStops ==
  /\ OwnStop
  /\ UNCHANGED watchVars

TurnFinishes ==
  /\ Verdict
  /\ UNCHANGED watchVars

TurnStarts ==
  /\ Start
  /\ UNCHANGED watchVars

MuseNext ==
  /\ \/ TurnStarts
     \/ MusePumps
     \/ TurnStops
     \/ TurnFinishes
     \/ ObserverBegins
     \/ ObserverSteps
     \/ NativeSteps
     \/ ObserverCloses
     \/ DeliverReaped
     \/ LeaveWatching
     \/ ReturnReaped
  /\ UNCHANGED observed

MuseSpec == MuseInit /\ [][MuseNext]_museVars
(* The observer's timers fire, a helper that was stopped ends, and the runner
   goes on; the turn's own timers and child are StreamTurn's.  Nothing makes a
   helper answer, or the native session decide. *)
ObserverFair ==
  /\ WF_bothVars(ObserverBegins)
  /\ WF_bothVars(TimerFires /\ StopForApproval)
  /\ WF_bothVars(RetiredEnds /\ StopForApproval)

RunnerFair == WF_bothVars(TurnFinishes \/ ObserverCloses \/ DeliverReaped \/ ReturnReaped)

MuseFairSpec == MuseSpec /\ TimersFair /\ ChildFair /\ ObserverFair /\ RunnerFair

-----------------------------------------------------------------------------
(* A request nobody will ever decide waits, and the observer is on. *)
Stuck ==
  /\ watch.state = "on"
  /\ \E r \in Requests : pending[r] \in {"stuck", "escalated"}

(* Whatever stops a turn ends it, helpers and all, and a muse turn waiting on a
   request that nobody will decide is stopped, whether its helper answers,
   answers badly, hangs or dies. *)
StopEnds == Stopped \/ Stuck ~> stage = "returned" /\ Reaped
=============================================================================
