-------------------------- MODULE SettingsSequencer --------------------------
(***************************************************************************)
(* The settings sequencer of a persistent session                          *)
(* (execution/session-settings-sequencer.ts) and the session state it      *)
(* shares: a host changes the model or the effort of a running claude or   *)
(* pi process.                                                             *)
(*                                                                         *)
(* One op is on the wire at a time; its native writes follow one another.  *)
(* On claude they are the model and then the effort; on pi a catalog read, *)
(* the model, the effort, and a readback of the effective state.  The      *)
(* other ops wait in arrival order and are validated when they take the    *)
(* wire.  Every op is owed exactly one receipt.                            *)
(***************************************************************************)
EXTENDS Integers, Sequences, FiniteSets

CONSTANTS
  MaxOps,         \* bound: ops the host submits
  Harnesses,      \* the harnesses run: each one's own bound on ops, and its faults
  Asks,           \* bound: what the host may ask for
  Models,         \* the models the harness knows
  Efforts,        \* the effort words
  Ladder,         \* the efforts of each model
  Spawned         \* the model the session started with

ASSUME OpsAssumption == MaxOps \in Nat
ASSUME ModelsAssumption ==
  /\ Spawned \in Models
  /\ Ladder \in [Models -> SUBSET Efforts]
  /\ {"none", "unknown"} \cap (Models \cup Efforts) = {}
ASSUME HarnessesAssumption ==
  /\ DOMAIN Harnesses \in SUBSET {"claude", "pi"}
  /\ \A h \in DOMAIN Harnesses :
       Harnesses[h] \in [ops : 0 .. MaxOps, rejects : BOOLEAN, breaks : BOOLEAN]

Ops == 1 .. MaxOps   \* an op is named by its place in the order of the calls

VARIABLES
  harness,    \* the harness of this session
  submitted,  \* ops submitted so far
  request,    \* what each op asks for
  queue,      \* queued: ops waiting for the wire, oldest first
  op,         \* inFlight: the op on the wire
  receipts,   \* what each op's promise resolved to
  log,        \* the ops in the order their receipts left
  current,    \* settingsModel: the model later efforts are validated against
  wire,       \* native writes not yet answered
  answered,   \* native writes already answered; a duplicate can follow
  lost,       \* native writes made after stdin ended or the child died
  runs,       \* the harness: the model it runs
  thinks,     \* the harness: the effort it runs
  closing,    \* the session accepts no more calls
  ended,      \* the session's stdin is over: closed or broken
  dead,       \* the child exited
  finalized   \* finalize ran

ledger == <<submitted, request, queue, receipts, log, current>>
native == <<wire, answered, lost, runs, thinks>>
session == <<harness, closing, ended, dead, finalized>>
vars == <<ledger, op, native, session>>

Pi == harness = "pi"
MostOps == Harnesses[harness].ops

(* Whether the harness can refuse a native write. *)
NativeRejects == Harnesses[harness].rejects

(* Whether the stdin pipe can break. *)
PipeBreakable == Harnesses[harness].breaks

---------------------------------------------------------------------------
(* Types and initial state *)

Parts == {"catalog", "model", "effort", "state"}
Request == [model : Models \cup {"unknown", "none"}, effort : Efforts \cup {"none"}]
ASSUME AsksAssumption ==
  /\ Asks \subseteq Request
  /\ [model |-> "none", effort |-> "none"] \notin Asks
Reasons == {"none", "invalid-model", "invalid-effort", "native-rejected", "closed", "write-failed"}
Receipt == [state : {"none", "applied", "rejected"}, reason : Reasons,
            model : Models \cup {"none"}, effort : Efforts \cup {"none"},
            unconfirmed : SUBSET {"model", "effort"}]

(* `model` is the one to write: the catalog resolves it on pi. *)
Entry == [no : Ops \cup {0}, phase : Parts \cup {"none"},
          model : Models \cup {"unknown", "none"}, effort : Efforts \cup {"none"},
          modelApplied : BOOLEAN, effortApplied : BOOLEAN]
NoOp == [no |-> 0, phase |-> "none", model |-> "none", effort |-> "none",
         modelApplied |-> FALSE, effortApplied |-> FALSE]

Owed == [state |-> "none", reason |-> "none", model |-> "none", effort |-> "none",
         unconfirmed |-> {}]
Rejected(reason) == [Owed EXCEPT !.state = "rejected", !.reason = reason]

Command == [op : Ops, part : Parts, value : Models \cup Efforts \cup {"none"}]

Init ==
  /\ harness \in DOMAIN Harnesses
  /\ submitted = 0
  /\ request = [o \in Ops |-> [model |-> "none", effort |-> "none"]]
  /\ queue = <<>>
  /\ op = NoOp
  /\ receipts = [o \in Ops |-> Owed]
  /\ log = <<>>
  /\ current = Spawned
  /\ wire = {}
  /\ answered = {}
  /\ lost = {}
  /\ runs = Spawned
  /\ thinks \in Ladder[Spawned]
  /\ closing = FALSE
  /\ ended = FALSE
  /\ dead = FALSE
  /\ finalized = FALSE

Closed == dead \/ closing

---------------------------------------------------------------------------
(* Validation and receipts *)

LadderOf(m) == IF m \in Models THEN Ladder[m] ELSE Efforts

(* validateSessionSettings: claude's model must be known, pi's is resolved *)
(* by the catalog; the effort is one of the resulting model's ladder.      *)
Invalid(ask, model) ==
  IF ~Pi /\ ask.model = "unknown" THEN "invalid-model"
  ELSE IF /\ ask.effort # "none"
          /\ ask.effort \notin LadderOf(IF ask.model # "none" THEN ask.model ELSE model)
    THEN "invalid-effort"
  ELSE "none"

(* appliedFields before the readback: what the acknowledged writes changed. *)
AppliedModel(e) == IF e.modelApplied THEN e.model ELSE "none"
AppliedEffort(e) == IF e.effortApplied THEN e.effort ELSE "none"

Partial(e, reason) ==
  [Rejected(reason) EXCEPT !.model = AppliedModel(e), !.effort = AppliedEffort(e)]

Applied(e) ==
  [Owed EXCEPT !.state = "applied", !.model = AppliedModel(e), !.effort = AppliedEffort(e)]

(* Mutant: the readback's gaps are filled from the request. *)
Readback_Requested(e, fields) ==
  [Owed EXCEPT !.state = "applied",
     !.model = IF "model" \in fields THEN runs ELSE AppliedModel(e),
     !.effort = IF "effort" \in fields THEN thinks ELSE AppliedEffort(e)]

(* readbackReceipt: pi's effective state, and what was written but not     *)
(* read back.                                                              *)
Readback(e, fields) ==
  [Owed EXCEPT !.state = "applied",
     !.model = IF "model" \in fields THEN runs ELSE "none",
     !.effort = IF "effort" \in fields THEN thinks ELSE "none",
     !.unconfirmed = {f \in {"model", "effort"} \ fields :
                        (f = "model" /\ e.modelApplied) \/ (f = "effort" /\ e.effortApplied)}]

---------------------------------------------------------------------------
(* Starting an op, and draining the queue behind a settled one *)

Started(o) ==
  [no |-> o, model |-> request'[o].model, effort |-> request'[o].effort,
   modelApplied |-> FALSE, effortApplied |-> FALSE,
   phase |-> IF request'[o].model = "none" THEN "effort" ELSE IF Pi THEN "catalog" ELSE "model"]

CommandOf(e) ==
  [op |-> e.no, part |-> e.phase,
   value |-> IF e.phase = "model" THEN e.model
             ELSE IF e.phase = "effort" THEN e.effort ELSE "none"]

(* A write into an ended stdin, or to a dead child, does not fail: it is lost. *)
Write(e, sentWire) ==
  IF ended \/ dead THEN wire' = sentWire /\ lost' = lost \cup {CommandOf(e)}
  ELSE wire' = sentWire \cup {CommandOf(e)} /\ lost' = lost

NoWrite(sentWire) == wire' = sentWire /\ lost' = lost

Breaks == PipeBreakable /\ closing' = TRUE /\ ended' = TRUE
Holds == UNCHANGED <<closing, ended>>

(* The first op of q that validates against `model`; Len(q) + 1 if none.   *)
FirstValid(q, model) ==
  CHOOSE k \in 1 .. (Len(q) + 1) :
    /\ k <= Len(q) => Invalid(request'[q[k]], model) = "none"
    /\ \A j \in 1 .. (k - 1) : Invalid(request'[q[j]], model) # "none"

Within(q, o) == \E j \in 1 .. Len(q) : q[j] = o
Place(q, o) == CHOOSE j \in 1 .. Len(q) : q[j] = o

(* The receipts of q when its ops before place k are invalid, the one at k *)
(* is left to `at`, and those behind it are closed.                        *)
DrainedReceipts(rec, q, k, model, at) ==
  [o \in Ops |->
    IF ~Within(q, o) THEN rec[o]
    ELSE IF Place(q, o) < k THEN Rejected(Invalid(request'[o], model))
    ELSE IF Place(q, o) = k THEN at
    ELSE Rejected("closed")]

(* Mutant: one invalid op ends the drain; those behind it stay queued. *)
Drain_Once(rec, left, q, model, shut, sentWire) ==
  \/ /\ q = <<>> \/ shut
     /\ op' = NoOp /\ queue' = <<>> /\ log' = left \o q
     /\ receipts' = [o \in Ops |-> IF Within(q, o) THEN Rejected("closed") ELSE rec[o]]
     /\ NoWrite(sentWire) /\ Holds
  \/ /\ q # <<>> /\ ~shut /\ Invalid(request'[q[1]], model) # "none"
     /\ op' = NoOp /\ queue' = Tail(q) /\ log' = Append(left, q[1])
     /\ receipts' = [rec EXCEPT ![q[1]] = Rejected(Invalid(request'[q[1]], model))]
     /\ NoWrite(sentWire) /\ Holds
  \/ /\ q # <<>> /\ ~shut /\ Invalid(request'[q[1]], model) = "none"
     /\ op' = Started(q[1]) /\ queue' = Tail(q) /\ log' = left /\ receipts' = rec
     /\ Write(Started(q[1]), sentWire) /\ Holds

(* The wire is free: the ops of q are started, or settled, until one takes *)
(* the wire or none remain.  `shut`: the session accepts nothing more.     *)
Drain(rec, left, q, model, shut, sentWire) ==
  LET k == FirstValid(q, model)
      before == SubSeq(q, 1, k - 1)
  IN \/ /\ shut
        /\ op' = NoOp /\ queue' = <<>> /\ log' = left \o q
        /\ receipts' = [o \in Ops |-> IF Within(q, o) THEN Rejected("closed") ELSE rec[o]]
        /\ NoWrite(sentWire)
        /\ Holds
     \/ /\ ~shut /\ k > Len(q)
        /\ op' = NoOp /\ queue' = <<>> /\ log' = left \o q
        /\ receipts' = DrainedReceipts(rec, q, k, model, Owed)
        /\ NoWrite(sentWire)
        /\ Holds
     \/ /\ ~shut /\ k <= Len(q)
        /\ op' = Started(q[k]) /\ queue' = SubSeq(q, k + 1, Len(q)) /\ log' = left \o before
        /\ receipts' = [o \in Ops |-> IF Within(before, o)
                                      THEN Rejected(Invalid(request'[o], model)) ELSE rec[o]]
        /\ Write(Started(q[k]), sentWire)
        /\ Holds
     \/ /\ ~shut /\ k <= Len(q)
        /\ op' = NoOp /\ queue' = <<>> /\ log' = left \o q
        /\ receipts' = DrainedReceipts(rec, q, k, model, Rejected("write-failed"))
        /\ NoWrite(sentWire)
        /\ Breaks

(* settleInFlight: the applied model is current, and the receipt left,     *)
(* before the queue drains.                                                *)
Settle(receipt, model, sentWire) ==
  /\ current' = model
  /\ Drain([receipts EXCEPT ![op.no] = receipt], Append(log, op.no), queue, current', Closed, sentWire)

LeavesModel(m) == IF m = "none" THEN current ELSE m

(* writeStep: the op's next native write.  A broken pipe shuts the session *)
(* and settles the op, and with it everything behind it.                   *)
WriteStep(e, sentWire) ==
  \/ /\ op' = e /\ Write(e, sentWire)
     /\ Holds
     /\ UNCHANGED <<queue, receipts, log, current>>
  \/ /\ op' = NoOp /\ queue' = <<>> /\ current' = current
     /\ log' = Append(log, e.no) \o queue
     /\ receipts' = [o \in Ops |->
          IF o = e.no THEN Partial(e, "write-failed")
          ELSE IF Within(queue, o) THEN Rejected("closed") ELSE receipts[o]]
     /\ NoWrite(sentWire)
     /\ Breaks

---------------------------------------------------------------------------
(* The host *)

Enqueued(o) == Append(queue, o)

WireFree == op = NoOp

(* submit: refused when closed, queued behind an op in flight, else started. *)
Submit(o, ask) ==
  /\ o = submitted + 1 /\ o <= MostOps
  /\ submitted' = o
  /\ request' = [request EXCEPT ![o] = ask]
  /\ \/ /\ Closed
        /\ receipts' = [receipts EXCEPT ![o] = Rejected("closed")]
        /\ log' = Append(log, o)
        /\ UNCHANGED <<queue, op, wire, lost, closing, ended>>
     \/ /\ ~Closed /\ ~WireFree
        /\ queue' = Enqueued(o)
        /\ UNCHANGED <<receipts, log, op, wire, lost, closing, ended>>
     \/ /\ ~Closed /\ WireFree
        /\ Drain(receipts, log, <<o>>, current, FALSE, wire)
  /\ UNCHANGED <<current, answered, runs, thinks, harness, dead, finalized>>

---------------------------------------------------------------------------
(* The harness *)

(* pi clamps an effort its model cannot run; claude takes the word. *)
Clamped(e, model) == IF ~Pi \/ e \in Ladder[model] THEN {e} ELSE Ladder[model]

(* An answer settles only the op whose token and outstanding part it names. *)
Names(c) == c.op = op.no /\ c.part = op.phase

(* A native command is carried out and answered; or its answer comes again. *)
Answers(c, ok) ==
  /\ ~finalized
  /\ ~ok => NativeRejects
  /\ \/ /\ c \in wire
        /\ answered' = answered \cup {c}
        /\ \/ /\ ok /\ c.part = "model" /\ runs' = c.value
              /\ thinks' \in (IF Pi THEN Clamped(thinks, c.value) ELSE {thinks})
           \/ /\ ok /\ c.part = "effort" /\ runs' = runs
              /\ thinks' \in Clamped(c.value, runs)
           \/ /\ ~ok \/ c.part \in {"catalog", "state"}
              /\ UNCHANGED <<runs, thinks>>
     \/ /\ c \in answered
        /\ UNCHANGED <<answered, runs, thinks>>

Rest == UNCHANGED <<submitted, request, harness, dead, finalized>>

(* onAnswered, the catalog of pi: the selector resolves, with a level of   *)
(* its own perhaps, or the op is invalid.                                  *)
CatalogRead(c, found, level) ==
  /\ Rest
  /\ Answers(c, TRUE) /\ Names(c) /\ c.part = "catalog"
  /\ \/ /\ found = "none"
        /\ Settle(Rejected("invalid-model"), current, wire \ {c})
     \/ /\ found # "none"
        /\ WriteStep([op EXCEPT !.model = found, !.phase = "model",
                        !.effort = IF @ = "none" THEN level ELSE @], wire \ {c})

ModelRead(c) ==
  /\ Rest
  /\ Answers(c, TRUE) /\ Names(c) /\ c.part = "model"
  /\ LET e == [op EXCEPT !.modelApplied = TRUE,
                 !.phase = IF op.effort # "none" THEN "effort"
                           ELSE IF Pi THEN "state" ELSE "none"]
     IN \/ /\ e.phase # "none" /\ WriteStep(e, wire \ {c})
        \/ /\ e.phase = "none" /\ Settle(Applied(e), LeavesModel(AppliedModel(e)), wire \ {c})

EffortRead(c) ==
  /\ Rest
  /\ Answers(c, TRUE) /\ Names(c) /\ c.part = "effort"
  /\ LET e == [op EXCEPT !.effortApplied = TRUE, !.phase = IF Pi THEN "state" ELSE "none"]
     IN \/ /\ Pi /\ WriteStep(e, wire \ {c})
        \/ /\ ~Pi /\ Settle(Applied(e), LeavesModel(AppliedModel(e)), wire \ {c})

(* The readback carries the fields it can; a failed one carries none.      *)
StateRead(c, fields) ==
  /\ Rest
  /\ \E ok \in BOOLEAN : Answers(c, ok) /\ (fields # {} => ok)
  /\ Names(c) /\ c.part = "state"
  /\ Settle(Readback(op, fields),
            LeavesModel(IF "model" \in fields THEN runs ELSE AppliedModel(op)), wire \ {c})

(* A native failure of a write rejects the op, with what was applied.      *)
RejectionRead(c) ==
  /\ Rest
  /\ Answers(c, FALSE) /\ Names(c) /\ c.part # "state"
  /\ Settle(Partial(op, "native-rejected"), current, wire \ {c})

(* Any other answer is ignored. *)
AnswerIgnored(c) ==
  /\ Rest
  /\ c \in wire /\ ~Names(c)
  /\ \E ok \in BOOLEAN : Answers(c, ok)
  /\ wire' = wire \ {c}
  /\ UNCHANGED <<op, queue, receipts, log, current, lost, closing, ended>>

---------------------------------------------------------------------------
(* The session *)

(* close(), an abandoned session, or a broken write of another command:    *)
(* nothing more is accepted.                                               *)
Close ==
  /\ ~closing /\ closing' = TRUE
  /\ UNCHANGED <<ledger, op, native, harness, ended, dead, finalized>>

EndStdin ==
  /\ closing /\ ~ended /\ ended' = TRUE
  /\ UNCHANGED <<ledger, op, native, harness, closing, dead, finalized>>

(* Mutant: only the op in flight is settled. *)
SweepAll_InFlight(reason) ==
  /\ op' = NoOp /\ queue' = queue
  /\ log' = IF op = NoOp THEN log ELSE Append(log, op.no)
  /\ receipts' = [o \in Ops |-> IF o = op.no THEN Partial(op, reason) ELSE receipts[o]]

(* Every op still owed is settled: the queued ones first, then the one in  *)
(* flight, with what was applied (closeAll, writeFailedAll).               *)
SweepAll(reason) ==
  /\ op' = NoOp /\ queue' = <<>>
  /\ log' = IF op = NoOp THEN log \o queue ELSE Append(log \o queue, op.no)
  /\ receipts' = [o \in Ops |->
       IF Within(queue, o) THEN Rejected(reason)
       ELSE IF o = op.no THEN Partial(op, reason) ELSE receipts[o]]

(* The stdin pipe breaks with no write in progress. *)
InputError ==
  /\ PipeBreakable /\ ~Closed
  /\ closing' = TRUE /\ ended' = TRUE
  /\ SweepAll("write-failed")
  /\ UNCHANGED <<submitted, request, current, native, harness, dead, finalized>>

Exited ==
  /\ ~dead /\ dead' = TRUE
  /\ UNCHANGED <<ledger, op, native, harness, closing, ended, finalized>>

Finalize ==
  /\ dead /\ ~finalized /\ finalized' = TRUE
  /\ SweepAll("closed")
  /\ UNCHANGED <<submitted, request, current, native, harness, closing, ended, dead>>

Done == finalized /\ submitted = MostOps /\ UNCHANGED vars

---------------------------------------------------------------------------
(* The specification *)

NativeAnswer(c) ==
  \/ \E found \in Models \cup {"none"}, level \in Efforts \cup {"none"} : CatalogRead(c, found, level)
  \/ ModelRead(c) \/ EffortRead(c) \/ RejectionRead(c) \/ AnswerIgnored(c)
  \/ \E fields \in SUBSET {"model", "effort"} : StateRead(c, fields)

Next ==
  \/ \E o \in Ops, ask \in Asks : Submit(o, ask)
  \/ \E c \in wire \cup answered : NativeAnswer(c)
  \/ Close \/ EndStdin \/ InputError \/ Exited \/ Finalize \/ Done

Spec == Init /\ [][Next]_vars

(* The harness answers every command it reads; it exits, or is killed,     *)
(* once stdin has ended, and finalize follows the exit.  Nothing is        *)
(* assumed of the host, nor that a closing session ends its stdin.         *)
FairSpec ==
  /\ Spec
  /\ WF_vars(\E c \in wire : NativeAnswer(c))
  /\ WF_vars((ended /\ Exited) \/ Finalize)

---------------------------------------------------------------------------
(* Properties *)

(* Every variable keeps its type. *)
TypeOK ==
  /\ harness \in DOMAIN Harnesses
  /\ submitted \in 0 .. MostOps
  /\ request \in [Ops -> Request]
  /\ queue \in Seq(Ops)
  /\ op \in Entry
  /\ receipts \in [Ops -> Receipt]
  /\ log \in Seq(Ops)
  /\ current \in Models
  /\ wire \subseteq Command
  /\ answered \subseteq Command
  /\ lost \subseteq Command
  /\ runs \in Models
  /\ thinks \in Efforts
  /\ {closing, ended, dead, finalized} \subseteq BOOLEAN

Queued(o) == Within(queue, o)
Logged(o) == Within(log, o)

(* A submitted op waits, is in flight, or its one receipt has left. *)
OneReceiptEach ==
  /\ \A o \in Ops : /\ Logged(o) <=> receipts[o].state # "none"
                    /\ o <= submitted => Logged(o) \/ Queued(o) \/ op.no = o
                    /\ Queued(o) => ~Logged(o) /\ op.no # o
                    /\ op.no = o => ~Logged(o)
  /\ \A i, j \in 1 .. Len(log) : log[i] = log[j] => i = j
  /\ finalized => queue = <<>> /\ op = NoOp

(* pi answers commands asynchronously, so two model writes on the wire     *)
(* could apply out of order: one native write is outstanding, that of the  *)
(* op in flight, while the session is open.                                *)
OneWriteOutstanding ==
  /\ \A c, d \in wire : c = d
  /\ ~Closed => \A c \in wire : Names(c)
  /\ op # NoOp => \E c \in wire \cup lost : Names(c)

(* Every op is owed exactly one receipt, whatever happens next, one write  *)
(* at a time; while the session is open the host reads receipts in the     *)
(* order of its calls, none skipped.                                       *)
SettlementsInv ==
  /\ OneReceiptEach
  /\ OneWriteOutstanding
  /\ ~Closed => \A i \in 1 .. Len(log) : log[i] = i

(* An applied receipt reports what the harness runs when it leaves: pi     *)
(* clamps silently, and an earlier op's late answer proves nothing.        *)
AppliedIsEffective ==
  [][\A o \in Ops : receipts[o].state = "none" /\ receipts'[o].state = "applied" =>
       receipts'[o].model \in {"none", runs'} /\ receipts'[o].effort \in {"none", thinks'}]_vars

(* Where no native write is refused, an effort-only op is validated, when  *)
(* it takes the wire, against the model the session actually runs.  (With  *)
(* a refusal it need not be: README, "Disagreements".)                     *)
LadderFollowsSession ==
  [][~NativeRejects =>
       \A c \in wire' \ wire : c.part = "effort" /\ request'[c.op].model = "none" =>
         c.value \in Ladder[runs']]_vars

(* Every op is settled while the harness answers: no queued op is stranded *)
(* behind one that settled without taking the wire.                        *)
OpsSettle ==
  (\E o \in 1 .. submitted : receipts[o].state = "none")
    ~> \A o \in 1 .. submitted : receipts[o].state # "none"

(* What a receipt reports and what a write is checked against is what the  *)
(* harness runs, not what was asked.                                       *)
EffectiveSettings == AppliedIsEffective /\ LadderFollowsSession
==============================================================================
