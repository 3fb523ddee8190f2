----------------------------- MODULE ApprovalTurn -----------------------------
(***************************************************************************)
(* One response with native approvals (execution/native-approval-turn.ts): *)
(* codex's app-server resumes a session, takes one prompt and asks its     *)
(* caller for permission while it runs.                                    *)
(*                                                                         *)
(* Three pumps run at once: the native protocol on stdout, stderr, and the *)
(* caller's decisions on hcn's own stdin.  The protocol goes through four  *)
(* stages, each but the last under a deadline.  Anything hcn cannot answer *)
(* or understand stops the turn, once, for one reason.                     *)
(*                                                                         *)
(* An action is a handler, cut where it awaits the consumer and reads the  *)
(* turn's state afterwards.                                                *)
(***************************************************************************)
EXTENDS Naturals, Sequences, FiniteSets, SequencesExt

CONSTANTS
  Requests,       \* the native requests codex can raise, by native id
  Decisions,      \* the decision ids the caller can use
  Items,          \* the file changes codex can announce
  ChoiceIds,      \* the decisions a caller can name, of those hcn knows
  PendingCap,     \* NATIVE_APPROVAL_LIMITS.pending
  IdentityCap,    \* NATIVE_APPROVAL_LIMITS.identities
  StallArmed,     \* a stall budget was asked for
  DeadlineArmed   \* a wall-clock budget was asked for

ASSUME RequestsAssumption ==
  /\ IsFiniteSet(Requests) /\ IsFiniteSet(Decisions) /\ IsFiniteSet(Items)
  /\ ChoiceIds \subseteq {"once", "session", "turn", "deny", "cancel", "rule"}
ASSUME CapsAssumption == PendingCap \in Nat /\ IdentityCap \in Nat
ASSUME BudgetsAssumption == StallArmed \in BOOLEAN /\ DeadlineArmed \in BOOLEAN

VARIABLES
  gen,         \* the generator: "starting", "open", "finishing", "returned",
               \* or "left" by its consumer
  stage,       \* how far the protocol is
  exit,        \* the process: none yet, running, or how it ended
  closing,     \* no more records, decisions or stops count
  completed,   \* codex ended the turn
  cancelled,   \* the caller aborted, or codex reports an interruption
  failure,     \* the turn's failure, a class; "inactivity" is a task failure
               \* hcn's stall clock decided
  prompt,      \* promptSubmission
  delivered,   \* history: the prompt was written to the child
  request,     \* what became of each native request
  offers,      \* the choices each request offers
  buffer,      \* beforeAck: what codex said before it acknowledged the turn
  files,       \* fileItems: the file changes in progress
  recorded,    \* decisionsById
  responses,   \* history: native answers written for each request
  answers,     \* history: the dispositions given, but for conflicts
  pump,        \* the stdout pump: reading, or where it awaits the consumer
  stderr,      \* the stderr pump
  decider,     \* the decisions pump
  timer,       \* the protocol deadline, or the grace after completion
  stall,       \* the supervisor's inactivity clock
  deadline,    \* the hard deadline
  kill,        \* the escalation: the last signal sent
  credential,  \* the supervisor holds a credential diagnostic
  text,        \* the question in the last assistant message
  verdict      \* the `done` event

stops == <<closing, failure, kill>>
asks == <<request, offers, buffer, files>>
decided == <<recorded, responses, answers>>
clocks == <<timer, stall, deadline>>
pumps == <<pump, stderr, decider>>
ending == <<gen, completed, cancelled, credential, text, verdict>>
vars == <<stage, exit, prompt, delivered, stops, asks, decided, clocks, pumps, ending>>

Stages == {"initialize", "resume", "turn-start", "running"}
Whose == {"ours", "other-turn", "other-session"}
Failures == {"none", "task", "timeout", "inactivity", "limit", "auth", "transport", "native"}
Disposition == [request : Requests, choice : ChoiceIds, status : {"sent", "rejected"}]
NoRecord == [request |-> "none", choice |-> "none", status |-> "none"]
NoVerdict == [cause |-> "none", failure |-> "none", prompt |-> "none"]

Undecided == {r \in Requests : request[r] = "open"}
Pending == {r \in Requests : request[r] \in {"open", "decided"}}
Seen == {r \in Requests : request[r] # "unseen"}
Exited == exit \notin {"none", "running"}

----------------------------------------------------------------------------
(* What beforeAck holds: a request, a file change shown or ended. *)
Entry == [kind : {"request", "file", "ended"}, of : Requests \cup Items, whose : Whose]
FileItem(item, whose) == [kind |-> "file", of |-> item, whose |-> whose]

(* What a native record says (interpretation/native-approvals.ts) *)

Asking == {"command", "fileChange", "permissions", "userInput", "elicitation"}
Notices == {"resolved", "file-started", "file-completed", "agent-message",
            "turn-completed", "usage", "content", "error", "unknown"}

(* A record: its method, or the operation a reply is for; whether it has an  *)
(* id, that is, wants an answer; whether its parameters are ones hcn knows.  *)
NativeRecords == [method : Asking \cup Notices, id : BOOLEAN, known : BOOLEAN]

(* decodeApprovalProtocol: whatever wants an answer is a request or          *)
(* unsupported; only a notice can be ignored.                                *)
Decoded(r) ==
  IF r.id
  THEN IF ~r.known \/ r.method \notin {"command", "permissions", "fileChange"} THEN "unsupported"
       ELSE IF r.method = "fileChange" THEN "file-request" ELSE "request"
  ELSE IF r.method \in Asking THEN "unsupported"
  ELSE IF r.method = "unknown" THEN "ignored"
  ELSE IF r.known THEN r.method
  ELSE IF r.method \in {"agent-message", "content"} THEN "ignored" ELSE "unsupported"

(* What a request offers: a command what codex listed, all of it known and    *)
(* distinct; the others what hcn itself offers.                               *)
Offered ==
  [command |-> {c \in SUBSET (ChoiceIds \ {"turn"}) : c # {}},
   permissions |-> {ChoiceIds \cap {"turn", "session", "deny"}},
   fileChange |-> {ChoiceIds \cap {"once", "session", "deny", "cancel"}}]

Shows(kinds) == {r \in NativeRecords : Decoded(r) \in kinds}

----------------------------------------------------------------------------
Init ==
  /\ gen = "starting" /\ stage = "initialize" /\ exit = "none"
  /\ closing = FALSE /\ completed = FALSE /\ cancelled = FALSE
  /\ failure = "none"
  /\ prompt = "not-submitted" /\ delivered = FALSE
  /\ request = [r \in Requests |-> "unseen"]
  /\ offers = [r \in Requests |-> {}]
  /\ buffer = <<>> /\ files = {}
  /\ recorded = [d \in Decisions |-> NoRecord]
  /\ responses = [r \in Requests |-> 0] /\ answers = {}
  /\ pump = "reading" /\ stderr = "reading" /\ decider = "reading"
  /\ timer = "off" /\ stall = "off" /\ deadline = "off"
  /\ kill = "none" /\ credential = FALSE /\ text = "none"
  /\ verdict = NoVerdict

(* escalate: no signal once settled, none while an escalation is pending. *)
Escalate == kill' = IF exit = "running" /\ kill # "term" THEN "term" ELSE kill

(* stop: only the first counts.  Whatever is read later is not acted on. *)
Stop(class) ==
  IF closing THEN UNCHANGED stops
  ELSE /\ closing' = TRUE
       /\ failure' = class
       /\ Escalate

(* Mutant: paused while a request is pending, decided or not. *)
Waits_Pending(undecided) ==
  IF stage # "running" \/ closing \/ stall = "off" THEN stall
  ELSE IF Pending # {} THEN "paused" ELSE "armed"

(* updateWait: paused while a request waits for its caller. *)
Waits(undecided) ==
  IF stage # "running" \/ closing \/ stall = "off" THEN stall
  ELSE IF undecided # {} THEN "paused" ELSE "armed"

----------------------------------------------------------------------------
(* The start *)

(* Aborted before it began: the verdict is killed, nothing ran.  Refused by  *)
(* the plan, or the spawn threw: evidence that no prompt was submitted.      *)
Unstarted ==
  /\ gen = "starting"
  /\ \/ verdict' = [cause |-> "killed", failure |-> "none", prompt |-> "none"]
     \/ \E class \in {"rejected", "transport"} :
          verdict' = [cause |-> "failed", failure |-> class, prompt |-> "not-submitted"]
  /\ gen' = "returned"
  /\ UNCHANGED <<stage, exit, prompt, delivered, closing, failure, kill,
                 asks, decided, clocks, pumps, completed, cancelled, credential, text>>

(* The process runs, the initialize request is written, its deadline set.   *)
Spawn ==
  /\ gen = "starting"
  /\ gen' = "open" /\ exit' = "running"
  /\ timer' = "protocol"
  /\ deadline' = IF DeadlineArmed THEN "armed" ELSE "off"
  /\ UNCHANGED <<stage, prompt, delivered, stops, asks, decided, stall, pumps,
                 completed, cancelled, credential, text, verdict>>

----------------------------------------------------------------------------
(* The native protocol *)

Reading == gen = "open" /\ exit # "none" /\ pump = "reading"

(* A reply to an operation of another stage, a failed one, settings other than *)
(* those saved, or garbage.  After the exit only the reply to the prompt and   *)
(* garbage are looked at.                                                      *)
BadReply ==
  /\ Reading /\ ~closing
  /\ Stop("task")
  /\ UNCHANGED <<stage, exit, prompt, delivered, asks, decided, clocks, pumps, ending>>

InitializeReply ==
  /\ Reading /\ ~closing /\ ~Exited
  /\ stage = "initialize"
  /\ stage' = "resume"
  /\ timer' = "protocol"
  /\ UNCHANGED <<exit, prompt, delivered, stops, asks, decided, stall, deadline,
                 pumps, ending>>

(* The session is resumed with the settings that were saved: the identity is  *)
(* shown first.                                                               *)
ResumeReply ==
  /\ Reading /\ ~closing /\ ~Exited
  /\ stage = "resume"
  /\ pump' = "identity"
  /\ UNCHANGED <<stage, exit, prompt, delivered, stops, asks, decided, clocks,
                 stderr, decider, ending>>

(* Mutant: what happened while the identity was shown is not looked at. *)
IdentityShown_Blind ==
  /\ gen = "open" /\ pump = "identity"
  /\ pump' = "reading"
  /\ stage' = "turn-start" /\ prompt' = "submission-unknown"
  /\ delivered' = (exit = "running" /\ ~closing) /\ timer' = "protocol"
  /\ UNCHANGED <<exit, stops, asks, decided, stall, deadline, stderr, decider, ending>>

(* The prompt is submitted unless the turn closed or the process ended while  *)
(* the consumer took the identity.  What cannot be written stops the turn.    *)
IdentityShown ==
  /\ gen = "open" /\ pump = "identity"
  /\ pump' = "reading"
  /\ IF closing \/ Exited
     THEN UNCHANGED <<stage, prompt, delivered, stops, timer>>
     ELSE /\ stage' = "turn-start" /\ prompt' = "submission-unknown"
          /\ timer' = "protocol"
          /\ \/ delivered' = TRUE /\ UNCHANGED stops
             \/ delivered' \in BOOLEAN /\ Stop("task")
  /\ UNCHANGED <<exit, asks, decided, stall, deadline, stderr, decider, ending>>

(* A request the caller never hears of: the turn refuses it, or the process   *)
(* that raised it is gone and waits for nothing.                              *)
Lost == IF Exited THEN "orphaned" ELSE "dropped"

(* beforeAck is emptied: what was not shown by then never is. *)
Forgotten ==
  [r \in Requests |-> IF request[r] = "buffered" THEN Lost ELSE request[r]]

(* The turn is acknowledged: file changes announced before are shown, then    *)
(* what was buffered, and the supervisor's turn begins, without a diagnostic   *)
(* held before.  A process that is gone has nobody to answer.                 *)
StartReply ==
  /\ Reading /\ ~closing
  /\ stage = "turn-start"
  /\ stage' = "running" /\ prompt' = "acknowledged"
  /\ timer' = IF Exited THEN timer ELSE "off"
  /\ stall' = IF StallArmed /\ ~Exited THEN "armed" ELSE stall
  /\ pump' = IF Exited THEN pump ELSE "replaying"
  /\ IF Exited
     THEN /\ buffer' = <<>>
          /\ request' = Forgotten
     ELSE /\ buffer' = SetToSeq(files) \o buffer
          /\ UNCHANGED request
  /\ credential' = (Exited /\ credential)
  /\ UNCHANGED <<exit, delivered, stops, offers, files, decided, deadline, stderr, decider,
                 gen, completed, cancelled, text, verdict>>

(* publishRequest: shown to the caller, and the inactivity clock pauses. *)
Publish(r, whose) ==
  IF closing \/ Exited
  THEN /\ request' = [request EXCEPT ![r] = Lost]
       /\ UNCHANGED <<stops, stall>>
  ELSE IF stage # "running" \/ whose # "ours" \/ Cardinality(Pending) >= PendingCap
  THEN /\ Stop("task")
       /\ request' = [request EXCEPT ![r] = "dropped"]
       /\ UNCHANGED stall
  ELSE /\ request' = [request EXCEPT ![r] = "open"]
       /\ stall' = Waits(Undecided \cup {r})
       /\ UNCHANGED stops

(* What codex said before the acknowledgement, oldest first.  The consumer is *)
(* awaited between two of them, so a decision or a stop can come in between.  *)
Replay ==
  /\ gen = "open" /\ pump = "replaying"
  /\ IF closing \/ buffer = <<>>
     THEN /\ pump' = "reading" /\ buffer' = <<>>
          /\ request' = Forgotten
          /\ UNCHANGED <<stops, stall>>
     ELSE /\ buffer' = Tail(buffer) /\ UNCHANGED pump
          /\ IF Head(buffer).kind = "request"
             THEN Publish(Head(buffer).of, Head(buffer).whose)
             ELSE /\ IF Head(buffer).whose = "ours" THEN UNCHANGED stops
                     ELSE Stop("task")
                  /\ UNCHANGED <<request, stall>>
  /\ UNCHANGED <<stage, exit, prompt, delivered, offers, files, decided, timer,
                 deadline, stderr, decider, ending>>

(* receiveProposal: a native id is used once in the life of the process.     *)
(* Before the acknowledgement a request waits, within its bound.             *)
Receive(r, offer, whose) ==
  IF Exited THEN UNCHANGED <<request, offers, buffer, stall, stops>>
  ELSE IF r \in Seen \/ Cardinality(Seen) >= IdentityCap
  THEN /\ Stop("task")
       /\ UNCHANGED <<request, offers, buffer, stall>>
  ELSE /\ offers' = [offers EXCEPT ![r] = offer]
       /\ IF stage # "turn-start"
          THEN Publish(r, whose) /\ UNCHANGED buffer
          ELSE /\ UNCHANGED stall
               /\ IF Len(buffer) >= PendingCap
                  THEN /\ Stop("task")
                       /\ request' = [request EXCEPT ![r] = "dropped"]
                       /\ UNCHANGED buffer
                  ELSE /\ buffer' = Append(buffer, [kind |-> "request", of |-> r, whose |-> whose])
                       /\ request' = [request EXCEPT ![r] = "buffered"]
                       /\ UNCHANGED stops

(* A request for a command or a permission.  Its details are complete, and a *)
(* command's decisions all known, or it is unsupported.                      *)
ReadRequest ==
  \E r \in Requests, rec \in Shows({"request"}), whose \in Whose :
    /\ Reading /\ ~closing
    /\ \E offer \in Offered[rec.method] : Receive(r, offer, whose)
    /\ UNCHANGED <<stage, exit, prompt, delivered, files, decided, timer, deadline,
                   pumps, ending>>

(* assembleFileApproval: a request names a file change in progress, whose     *)
(* patch it shows.                                                            *)
ReadFileRequest ==
  \E r \in Requests, item \in Items, whose \in Whose :
    /\ Reading /\ ~closing
    /\ IF FileItem(item, whose) \in files
       THEN \E offer \in Offered.fileChange : Receive(r, offer, whose)
       ELSE /\ Stop("task")
            /\ UNCHANGED <<request, offers, buffer, stall>>
    /\ UNCHANGED <<stage, exit, prompt, delivered, files, decided, timer, deadline,
                   pumps, ending>>

(* A file change begins. *)
ReadFileItem ==
  \E item \in Items, whose \in Whose :
    /\ Reading /\ ~closing
    /\ LET entry == FileItem(item, whose) IN
       IF \/ stage \notin {"turn-start", "running"} \/ whose = "other-session"
          \/ stage = "running" /\ whose # "ours"
          \/ entry \in files \/ Cardinality(files) >= PendingCap
       THEN Stop("task") /\ UNCHANGED files
       ELSE files' = files \cup {entry} /\ UNCHANGED stops
    /\ UNCHANGED <<stage, exit, prompt, delivered, request, offers, buffer, decided,
                   clocks, pumps, ending>>

(* A file change ends: no later request can show it. *)
ReadFileItemEnded ==
  \E item \in Items, whose \in Whose :
    /\ Reading /\ ~closing
    /\ IF whose = "other-session" \/ (stage = "running" /\ whose # "ours")
       THEN Stop("task") /\ UNCHANGED <<files, buffer>>
       ELSE /\ files' = files \ {FileItem(item, whose)}
            /\ IF stage # "turn-start" THEN UNCHANGED <<stops, buffer>>
               ELSE IF Len(buffer) >= PendingCap
               THEN Stop("task") /\ UNCHANGED buffer
               ELSE /\ buffer' = Append(buffer, [kind |-> "ended", of |-> item, whose |-> whose])
                    /\ UNCHANGED stops
    /\ UNCHANGED <<stage, exit, prompt, delivered, request, offers, decided, clocks,
                   pumps, ending>>

(* A request is taken out of beforeAck. *)
Asks(b, r) == b.kind = "request" /\ b.of = r
Unasked(q, r) == RemoveFirstMatch(q, LAMBDA b : Asks(b, r))

(* codex no longer waits for an answer: a request shown is cleared, one still *)
(* buffered is never shown.  Nothing to do for one hcn does not know.         *)
ReadCleared ==
  \E r \in Requests, whose \in {"ours", "other-session"} :
    /\ Reading /\ ~closing
    /\ IF whose # "ours"
       THEN Stop("task") /\ UNCHANGED <<request, buffer, stall>>
       ELSE /\ buffer' = Unasked(buffer, r)
            /\ request' = [request EXCEPT ![r] =
                 CASE @ \in {"open", "decided"} -> "cleared"
                   [] @ = "buffered" -> "withdrawn"
                   [] OTHER -> @]
            /\ stall' = Waits(Undecided \ {r})
            /\ UNCHANGED stops
    /\ UNCHANGED <<stage, exit, prompt, delivered, offers, files, decided, timer,
                   deadline, pumps, ending>>

(* Output of the turn: content of another turn stops it, a terminal error     *)
(* fails it.                                                                  *)
ReadContent ==
  \E rec \in Shows({"agent-message", "content", "error"}), mine \in BOOLEAN :
    /\ Reading /\ ~closing
    /\ LET ours == mine /\ stage = "running" IN
       /\ text' \in IF ours /\ Decoded(rec) = "agent-message"
                    THEN {"none", "asking", "garbled"} ELSE {text}
       /\ IF ~ours THEN Stop("task")
          ELSE IF Decoded(rec) = "error" THEN Stop("task")
          ELSE UNCHANGED stops
    /\ UNCHANGED <<stage, exit, prompt, delivered, asks, decided, clocks, pumps,
                   gen, completed, cancelled, credential, verdict>>

(* What hcn does not understand stops the turn, a notice that only passes by  *)
(* does not.  A request among them goes unanswered.                           *)
ReadOther ==
  \E rec \in Shows({"unsupported", "ignored", "usage"}) :
    /\ Reading /\ ~closing
    /\ IF Decoded(rec) = "unsupported" THEN Stop("task")
       ELSE UNCHANGED stops
    /\ IF rec.id
       THEN \E r \in Requests \ Seen : request' = [request EXCEPT ![r] = "dropped"]
       ELSE UNCHANGED request
    /\ UNCHANGED <<stage, exit, prompt, delivered, offers, buffer, files, decided, clocks,
                   pumps, ending>>

(* codex ends the turn.  Its decision channel closes, the requests still out  *)
(* are cleared one by one, and the process gets a grace to exit.              *)
ReadComplete ==
  /\ Reading /\ ~closing
  /\ \/ /\ stage = "running"
        /\ completed' = TRUE /\ cancelled' \in BOOLEAN
        /\ closing' = TRUE
        /\ stall' = "off" /\ pump' = "clearing"
        /\ UNCHANGED <<failure, kill>>
     \/ /\ Stop("task")
        /\ UNCHANGED <<completed, cancelled, stall, pump>>
  /\ UNCHANGED <<stage, exit, prompt, delivered, asks, decided, timer, deadline,
                 stderr, decider, gen, credential, text, verdict>>

(* Mutant: no grace follows. *)
ClearNext_NoGrace ==
  /\ gen = "open" /\ pump = "clearing"
  /\ IF Pending = {} THEN pump' = "reading" /\ UNCHANGED request
     ELSE (\E r \in Pending : request' = [request EXCEPT ![r] = "cleared"]) /\ UNCHANGED pump
  /\ UNCHANGED <<timer, stage, exit, prompt, delivered, stops, offers, buffer, files,
                 decided, stall, deadline, stderr, decider, ending>>

(* The requests still out are cleared one by one; then the process has a grace. *)
ClearNext ==
  /\ gen = "open" /\ pump = "clearing"
  /\ IF Pending = {}
     THEN pump' = "reading" /\ timer' = "exit" /\ UNCHANGED request
     ELSE /\ \E r \in Pending : request' = [request EXCEPT ![r] = "cleared"]
          /\ UNCHANGED <<pump, timer>>
  /\ UNCHANGED <<stage, exit, prompt, delivered, stops, offers, buffer, files,
                 decided, stall, deadline, stderr, decider, ending>>

Native ==
  \/ BadReply \/ InitializeReply \/ ResumeReply
  \/ IdentityShown \/ StartReply \/ Replay
  \/ ReadRequest \/ ReadFileRequest \/ ReadFileItem \/ ReadFileItemEnded
  \/ ReadCleared \/ ReadContent \/ ReadOther \/ ReadComplete \/ ClearNext

----------------------------------------------------------------------------
(* The caller's decisions *)

Answer(d, r, c, status) == answers' = answers \cup {[id |-> d, of |-> r, choice |-> c, status |-> status]}

Record(d, r, c, status) ==
  recorded' = [recorded EXCEPT ![d] = [request |-> r, choice |-> c, status |-> status]]

Deciding == gen = "open" /\ exit # "none" /\ decider = "reading"

(* A decision id seen before gives its disposition again, or conflicts. *)
Repeated(d, r, c) ==
  /\ Deciding /\ recorded[d] # NoRecord
  /\ IF recorded[d].request = r /\ recorded[d].choice = c
     THEN Answer(d, r, c, recorded[d].status)
     ELSE UNCHANGED answers
  /\ UNCHANGED <<stage, exit, prompt, delivered, stops, asks, recorded, responses,
                 clocks, pumps, ending>>

(* A decision for a request that does not wait, or a choice not offered. *)
Unavailable(d, r, c) ==
  /\ Deciding /\ recorded[d] = NoRecord
  /\ Cardinality({e \in Decisions : recorded[e] # NoRecord}) < IdentityCap
  /\ closing \/ Exited \/ request[r] # "open" \/ c \notin offers[r]
  /\ Answer(d, r, c, "rejected") /\ Record(d, r, c, "rejected")
  /\ UNCHANGED <<stage, exit, prompt, delivered, stops, asks, responses, clocks,
                 pumps, ending>>

(* Mutant: the request is marked decided after its answer is written. *)
Decide_Late(d, r, c) ==
  /\ Deciding /\ recorded[d] = NoRecord
  /\ Cardinality({e \in Decisions : recorded[e] # NoRecord}) < IdentityCap
  /\ ~closing /\ ~Exited /\ request[r] = "open" /\ c \in offers[r]
  /\ responses' = [responses EXCEPT ![r] = @ + 1]
  /\ Answer(d, r, c, "sent") /\ Record(d, r, c, "sent")
  /\ UNCHANGED <<stall, request, stops, stage, exit, prompt, delivered, offers,
                 buffer, files, timer, deadline, pumps, ending>>

(* The decision is consumed, then written: an uncertain delivery is never     *)
(* retried.  A write that fails stops the turn and leaves no disposition.     *)
Decide(d, r, c) ==
  /\ Deciding /\ recorded[d] = NoRecord
  /\ Cardinality({e \in Decisions : recorded[e] # NoRecord}) < IdentityCap
  /\ ~closing /\ ~Exited /\ request[r] = "open" /\ c \in offers[r]
  /\ request' = [request EXCEPT ![r] = "decided"]
  /\ responses' = [responses EXCEPT ![r] = @ + 1]
  /\ \/ /\ stall' = Waits(Undecided \ {r})
        /\ Answer(d, r, c, "sent") /\ Record(d, r, c, "sent")
        /\ UNCHANGED stops
     \/ /\ Stop("task")
        /\ UNCHANGED <<stall, recorded, answers>>
  /\ UNCHANGED <<stage, exit, prompt, delivered, offers, buffer, files, timer,
                 deadline, pumps, ending>>

(* The bound on recorded decisions, a frame too long or not UTF-8. *)
DecisionsBreak ==
  /\ Deciding
  /\ \/ Cardinality({e \in Decisions : recorded[e] # NoRecord}) >= IdentityCap /\ UNCHANGED decider
     \/ decider' = "ended"
  /\ Stop("task")
  /\ UNCHANGED <<stage, exit, prompt, delivered, asks, decided, clocks, pump, stderr, ending>>

(* The channel ends: by the caller, which ends the turn, or by its close. *)
DecisionsEnd ==
  /\ gen = "open" /\ exit # "none" /\ decider = "reading"
  /\ decider' = "ended"
  /\ IF Exited THEN UNCHANGED stops ELSE Stop("task")
  /\ UNCHANGED <<stage, exit, prompt, delivered, asks, decided, clocks, pump, stderr, ending>>

Caller ==
  \/ \E d \in Decisions, r \in Requests, c \in ChoiceIds :
       Repeated(d, r, c) \/ Unavailable(d, r, c) \/ Decide(d, r, c)
  \/ DecisionsBreak \/ DecisionsEnd

----------------------------------------------------------------------------
(* Clocks, stderr, abort, exit *)

(* The caller aborts: whatever is decided later, the turn was cancelled. *)
Abort ==
  /\ gen = "open" /\ ~closing /\ ~Exited
  /\ cancelled' = TRUE /\ closing' = TRUE
  /\ Escalate
  /\ UNCHANGED <<stage, exit, prompt, delivered, failure, asks, decided, clocks,
                 pumps, gen, completed, credential, text, verdict>>

Running == gen \in {"open", "left"} /\ exit = "running"

ProtocolTimeout ==
  /\ Running /\ timer = "protocol" /\ timer' = "off"
  /\ Stop("task")
  /\ UNCHANGED <<stage, exit, prompt, delivered, asks, decided, stall, deadline, pumps, ending>>

(* The grace after a completed turn. *)
ExitGrace ==
  /\ Running /\ timer = "exit" /\ timer' = "off"
  /\ Escalate
  /\ UNCHANGED <<stage, exit, prompt, delivered, closing, failure, asks,
                 decided, stall, deadline, pumps, ending>>

HardDeadline ==
  /\ gen = "open" /\ deadline = "armed" /\ deadline' = "off"
  /\ Stop("timeout")
  /\ UNCHANGED <<stage, exit, prompt, delivered, asks, decided, timer, stall, pumps, ending>>

Stall ==
  /\ Running /\ stall = "armed" /\ stall' = "off"
  /\ Stop("inactivity")
  /\ UNCHANGED <<stage, exit, prompt, delivered, asks, decided, timer, deadline, pumps, ending>>

KillGrace ==
  /\ Running /\ kill = "term" /\ kill' = "kill"
  /\ UNCHANGED <<stage, exit, prompt, delivered, closing, failure, asks,
                 decided, clocks, pumps, ending>>

(* A wall on stderr fails the turn, whatever closed it; a credential line is  *)
(* judged at the end.                                                         *)
StderrWall(class) ==
  /\ gen = "open" /\ exit # "none" /\ stderr = "reading"
  /\ failure' = IF failure = "none" THEN class ELSE failure
  /\ closing' = TRUE
  /\ IF closing THEN UNCHANGED kill ELSE Escalate
  /\ UNCHANGED <<stage, exit, prompt, delivered, asks, decided, clocks, pumps, ending>>

StderrCredential ==
  /\ gen = "open" /\ exit # "none" /\ stderr = "reading"
  /\ credential' = TRUE
  /\ UNCHANGED <<stage, exit, prompt, delivered, stops, asks, decided, clocks, pumps,
                 gen, completed, cancelled, text, verdict>>

(* The write side of the child's stdin breaks, also after it exited. *)
InputError ==
  /\ gen \in {"open", "finishing"} /\ exit # "none" /\ ~closing
  /\ Stop("task")
  /\ UNCHANGED <<stage, exit, prompt, delivered, asks, decided, clocks, pumps, ending>>

(* The process is gone: no more signals, clocks or decisions, and its output  *)
(* is disposed of.  The hard deadline stays armed until the pumps have ended. *)
Exit(how) ==
  /\ Running
  /\ how = "missing" => stage = "initialize"
  /\ exit' = how
  /\ timer' = "off" /\ stall' = "off"
  /\ UNCHANGED <<stage, prompt, delivered, closing, failure, kill, asks, decided,
                 deadline, pumps, ending>>

(* A stream ends, disposed of after the exit or closed by the child; one that *)
(* breaks, or outgrows its frame, stops the turn.                             *)
StdoutEnds ==
  /\ Reading /\ pump' = "ended"
  /\ UNCHANGED stops \/ Stop("task")
  /\ UNCHANGED <<stage, exit, prompt, delivered, asks, decided, clocks, stderr, decider, ending>>

StderrEnds ==
  /\ gen = "open" /\ exit # "none" /\ stderr = "reading" /\ stderr' = "ended"
  /\ UNCHANGED stops \/ Stop("task")
  /\ UNCHANGED <<stage, exit, prompt, delivered, asks, decided, clocks, pump, decider, ending>>

----------------------------------------------------------------------------
(* The verdict *)

(* All pumps are done.  A binary that is not there is a transport failure;    *)
(* the credential diagnostic is weighed, and outranks what else failed, unless *)
(* the caller, the deadline or the stall clock owns the end.                  *)
Finish ==
  /\ gen = "open" /\ Exited
  /\ pump = "ended" /\ stderr = "ended" /\ decider = "ended"
  /\ gen' = "finishing" /\ deadline' = "off"
  /\ credential' = FALSE
  /\ LET missing == exit = "missing" /\ failure = "none"
         owned == cancelled \/ failure = "timeout" \/ failure = "inactivity" IN
     IF missing THEN failure' = "transport"
     ELSE IF credential /\ exit = "nonzero" /\ ~owned
     THEN failure' = "auth"
     ELSE UNCHANGED failure
  /\ UNCHANGED <<stage, exit, prompt, delivered, closing, kill, asks, decided,
                 timer, stall, pumps, completed, cancelled, text, verdict>>

(* Requests still out are cleared. *)
ClearLeft ==
  /\ gen = "finishing" /\ verdict = NoVerdict
  /\ \E r \in Pending : request' = [request EXCEPT ![r] = "cleared"]
  /\ UNCHANGED <<stage, exit, prompt, delivered, stops, offers, buffer, files, decided,
                 clocks, pumps, ending>>

(* What the turn's end makes of a failure: a question that does not parse, a  *)
(* completed turn whose process failed, a process that ended too early.       *)
Judged ==
  LET garbled == completed /\ failure = "none" /\ exit = "zero" /\ text = "garbled" IN
  IF garbled THEN "task"
  ELSE IF failure # "none" \/ cancelled THEN failure
  ELSE IF completed THEN IF exit = "nonzero" THEN "native" ELSE "none"
  ELSE IF exit = "nonzero" THEN "native" ELSE "task"

(* Mutant: an interrupted turn that ends well is a success. *)
Cause_Interrupted ==
  IF completed /\ Judged = "none" /\ exit = "zero" THEN
         IF text = "asking" THEN "awaiting-input" ELSE "clean"
  ELSE IF cancelled \/ Judged = "timeout" THEN "killed"
  ELSE "failed"

Cause ==
  CASE cancelled \/ Judged = "timeout" -> "killed"
    [] ~cancelled /\ completed /\ Judged = "none" /\ exit = "zero" ->
         IF text = "asking" THEN "awaiting-input" ELSE "clean"
    [] OTHER -> "failed"

Conclude ==
  /\ gen = "finishing" /\ Pending = {}
  /\ gen' = "returned"
  /\ failure' = Judged
  /\ verdict' = [cause |-> Cause, failure |-> Judged,
                 prompt |-> IF Judged = "none" THEN "none" ELSE prompt]
  /\ UNCHANGED <<stage, exit, prompt, delivered, closing, kill, asks,
                 decided, clocks, pumps, completed, cancelled, credential, text>>

(* The consumer leaves: the turn is stopped and its process waited for. *)
Leave ==
  /\ gen \in {"open", "finishing"} /\ exit # "none"
  /\ gen' = "left" /\ closing' = TRUE
  /\ Escalate
  /\ UNCHANGED <<stage, exit, prompt, delivered, failure, asks, decided, clocks,
                 pumps, completed, cancelled, credential, text, verdict>>

Runtime ==
  \/ Abort \/ ProtocolTimeout \/ ExitGrace \/ HardDeadline \/ Stall \/ KillGrace
  \/ \E class \in {"limit", "auth"} : StderrWall(class)
  \/ StderrCredential \/ InputError
  \/ \E how \in {"zero", "nonzero", "signal", "missing"} : Exit(how)
  \/ StdoutEnds \/ StderrEnds

Over == gen \in {"returned", "left"} /\ exit # "running" /\ UNCHANGED vars

Next ==
  \/ Unstarted \/ Spawn \/ Native \/ Caller \/ Runtime
  \/ Finish \/ ClearLeft \/ Conclude \/ Leave \/ Over

Spec == Init /\ [][Next]_vars

(* Timers fire, a killed process exits, disposed streams and closed channels  *)
(* end, and the consumer takes what it is offered or leaves.                  *)
FairSpec ==
  /\ Spec
  /\ WF_vars(Unstarted \/ Spawn)
  /\ WF_vars(ProtocolTimeout \/ ExitGrace) /\ WF_vars(HardDeadline) /\ WF_vars(Stall)
  /\ WF_vars(KillGrace \/ (kill = "kill" /\ Exit("signal")))
  /\ WF_vars(IdentityShown \/ Replay \/ ClearNext)
  /\ WF_vars(\/ Exited /\ (StdoutEnds \/ StderrEnds)
             \/ (closing \/ Exited) /\ DecisionsEnd
             \/ Finish \/ ClearLeft \/ Conclude)

----------------------------------------------------------------------------
(* Properties *)

TurnTypes ==
  /\ gen \in {"starting", "open", "finishing", "returned", "left"}
  /\ stage \in Stages
  /\ exit \in {"none", "running", "zero", "nonzero", "signal", "missing"}
  /\ closing \in BOOLEAN /\ completed \in BOOLEAN /\ cancelled \in BOOLEAN
  /\ failure \in Failures
  /\ prompt \in {"not-submitted", "submission-unknown", "acknowledged"}
  /\ delivered \in BOOLEAN
  /\ pump \in {"reading", "identity", "replaying", "clearing", "ended"}
  /\ stderr \in {"reading", "ended"} /\ decider \in {"reading", "ended"}
  /\ timer \in {"off", "protocol", "exit"}
  /\ stall \in {"off", "armed", "paused"} /\ deadline \in {"off", "armed"}
  /\ kill \in {"none", "term", "kill"}
  /\ credential \in BOOLEAN
  /\ text \in {"none", "asking", "garbled"}

AskTypes ==
  /\ request \in [Requests -> {"unseen", "buffered", "open", "decided", "cleared",
                              "withdrawn", "dropped", "orphaned"}]
  /\ offers \in [Requests -> SUBSET ChoiceIds]
  /\ buffer \in Seq(Entry)
  /\ files \subseteq {FileItem(i, w) : i \in Items, w \in Whose} /\ IsFiniteSet(files)

AnswerTypes ==
  /\ recorded \in [Decisions -> Disposition \cup {NoRecord}]
  /\ responses \in [Requests -> Nat]
  /\ answers \subseteq [id : Decisions, of : Requests, choice : ChoiceIds,
                        status : {"sent", "rejected"}]

VerdictType ==
  verdict \in [cause : {"none", "killed", "failed", "clean", "awaiting-input"},
              failure : Failures \cup {"rejected"},
              prompt : {"none", "not-submitted", "submission-unknown", "acknowledged"}]

(* Every variable keeps its type. *)
TypeOK == TurnTypes /\ AskTypes /\ AnswerTypes /\ VerdictType

(* A native request is answered at most once, whatever decisions repeat,      *)
(* conflict, fail half-way or race its clearing; one decision is told "sent"  *)
(* of it at most, a choice it offered; and a decision that is repeated is     *)
(* told the same again (docs/reference.md:1231).                              *)
OneAnswer ==
  /\ \A r \in Requests : responses[r] <= 1
  /\ \A a \in answers : a.status = "sent" => responses[a.of] = 1 /\ a.choice \in offers[a.of]
  /\ \A a, b \in answers :
       /\ a.status = "sent" /\ b.status = "sent" /\ a.of = b.of => a = b
       /\ a.id = b.id /\ a.of = b.of /\ a.choice = b.choice => a = b

(* The evidence a failure carries about the prompt never understates it: what *)
(* is reported as not submitted may be sent again, so it never reached the    *)
(* child, and what is reported acknowledged did (docs/reference.md:1258).     *)
PromptEvidence ==
  /\ prompt = "not-submitted" \/ verdict.prompt = "not-submitted" => ~delivered
  /\ prompt = "acknowledged" => delivered

(* codex never waits for an answer hcn has forgotten: a request it raised is  *)
(* with the caller, answered or taken back, or the turn is being stopped, or  *)
(* codex is gone.  By the end the caller has heard of every request it was    *)
(* shown.                                                                     *)
RequestsSettled ==
  /\ \A r \in Requests : /\ request[r] = "dropped" => closing
                         /\ request[r] = "orphaned" => Exited
  /\ pump = "reading" /\ stage = "running" /\ ~closing
       => \A r \in Requests : request[r] # "buffered"
  /\ gen = "returned" => Pending = {}

(* Waiting for a human never counts as silence, and silence always counts     *)
(* otherwise: in an open turn the clock is paused exactly while a request     *)
(* waits for its decision.                                                    *)
PausedWhileWaiting ==
  StallArmed /\ gen = "open" /\ stage = "running" /\ exit = "running" /\ ~closing
    => stall = IF Undecided # {} THEN "paused" ELSE "armed"

(* A clean verdict means the prompt was answered: codex ended the turn, its    *)
(* process exited zero, nobody aborted, no wall was read, and no request was   *)
(* refused while codex could wait for it: each was answered, cleared or taken  *)
(* back, or codex was gone before it could be shown.                           *)
CleanIsClean ==
  verdict.cause \in {"clean", "awaiting-input"} =>
    /\ delivered /\ completed /\ ~cancelled /\ exit = "zero"
    /\ failure = "none" /\ text # "garbled"
    /\ \A r \in Requests : request[r] \notin {"buffered", "open", "decided", "dropped"}

(* A request waits for its decision and nothing else does. *)
RequestsInv == RequestsSettled /\ PausedWhileWaiting

(* The inductive invariant: before the process runs nothing has happened;  *)
(* the stage says what became of the prompt, and where the pump may be;    *)
(* a request is known by where the pump is, and what waits in beforeAck;   *)
(* a decision recorded is the one answered.                                *)
Begun ==
  gen = "starting" =>
    /\ exit = "none" /\ stage = "initialize" /\ ~delivered
    /\ \A r \in Requests : request[r] = "unseen"

Staged ==
  /\ prompt = "not-submitted" <=> stage \in {"initialize", "resume"}
  /\ prompt = "acknowledged" <=> stage = "running"
  /\ delivered => stage \in {"turn-start", "running"}
  /\ stage = "turn-start" => delivered \/ closing
  /\ stage = "running" => delivered
  /\ pump = "identity" => stage = "resume"
  /\ pump = "replaying" => stage = "running"
  /\ pump = "clearing" => closing
  /\ completed => stage = "running"

Named(q) == {q[i].of : i \in {j \in 1 .. Len(q) : q[j].kind = "request"}}
Once(q) ==
  \A i, j \in 1 .. Len(q) :
    q[i].kind = "request" /\ q[j].kind = "request" /\ q[i].of = q[j].of => i = j
Buffered == {r \in Requests : request[r] = "buffered"}
Asked ==
  /\ Pending # {} => stage = "running"
  /\ Buffered # {} => stage = "turn-start" \/ pump = "replaying"
  /\ Named(buffer) = Buffered /\ Once(buffer)

Answered ==
  /\ \A r \in Requests : responses[r] = 0 \/
       (responses[r] = 1 /\ request[r] \in {"decided", "cleared"})
  /\ \A d \in Decisions : recorded[d] # NoRecord =>
       [id |-> d, of |-> recorded[d].request, choice |-> recorded[d].choice,
        status |-> recorded[d].status] \in answers
  /\ \A a \in answers :
       recorded[a.id] = [request |-> a.of, choice |-> a.choice, status |-> a.status]

(* What ends a turn early spoils it, and what is refused ends it.             *)
Spoiled == failure # "none" \/ cancelled \/ gen = "left"
Spoils ==
  /\ closing => Spoiled \/ completed
  /\ completed => closing /\ pump # "replaying"
  /\ \A r \in Requests : request[r] = "dropped" => Spoiled

Verdict ==
  /\ gen # "returned" => verdict = NoVerdict
  /\ CleanIsClean

ApprovalInv ==
  /\ TypeOK /\ Begun /\ Staged /\ Asked /\ Answered /\ OneAnswer
  /\ PromptEvidence /\ RequestsInv /\ Spoils /\ Verdict

(* Nothing codex does, or leaves undone, keeps the turn from ending: one     *)
(* that is stopped or completed ends, and a stage codex does not acknowledge *)
(* does not last.                                                            *)
Ended == gen = "returned" \/ (gen = "left" /\ exit # "running")
TurnEnds ==
  closing \/ (gen = "open" /\ stage # "running") ~> Ended \/ (stage = "running" /\ ~closing)
===============================================================================
