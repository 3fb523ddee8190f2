----------------------------- MODULE SessionWire -----------------------------
(***************************************************************************)
(* The wire of a persistent session (interpretation/session-input.ts): the *)
(* commands hcn writes on the five input kinds, and the one meaning the    *)
(* runner gives each record it reads back.                                 *)
(*                                                                         *)
(* A JSON id is a mark, which says what hcn wrote it for, and a token; a   *)
(* native record keeps the fields the decoder looks at.                    *)
(***************************************************************************)
EXTENDS Integers, Sequences

InputKinds == {"claude", "pi", "codex", "popeye", "antigravity"}
Marks == {"identity", "initialize", "send", "interrupt", "setting", "other", "none"}
Deliveries == {"none", "queue", "steer"}

---------------------------------------------------------------------------
(* What the kinds differ in *)

HasNativeReceipts(k) == k \in {"pi", "codex"}
BuffersBeforeIdentity(k) == k \in {"popeye", "codex"}
GatesOnReceipt(k) == k = "pi"
CorrelatesByInputUuid(k) == k = "claude"
PublishesOnRunEvidence(k) == k = "pi"
MintsIdentity(k) == k \in {"pi", "codex", "popeye"}

---------------------------------------------------------------------------
(* Commands *)

Refused == [what |-> "refused"]
Command(what, mark, token) == [what |-> what, mark |-> mark, token |-> token, expected |-> 0]

(* encodeIdentityProbe: what one spawn writes to learn its session id. *)
IdentityProbe(k, resume) ==
  CASE k = "popeye" -> <<Command("create", "identity", 0)>>
    [] k = "pi" -> <<Command("get_state", "identity", 0)>>
    [] k = "codex" -> <<Command("initialize", "initialize", 0),
                        Command(IF resume THEN "thread/resume" ELSE "thread/start", "identity", 0)>>
    [] OTHER -> <<>>

(* encodeSessionInput: a delivery the kind has no word for is refused       *)
(* before anything is written.  codex steers the turn it names (0: none).  *)
EncodeSend(k, token, busy, delivery, running) ==
  CASE k = "claude" -> Command(IF delivery = "queue" THEN "later"
                               ELSE IF delivery = "steer" THEN "next" ELSE "user", "none", token)
    [] k = "pi" -> Command(IF delivery = "queue" THEN "followUp"
                           ELSE IF delivery = "steer" \/ busy THEN "steer" ELSE "prompt", "send", token)
    [] k = "codex" /\ delivery # "queue" ->
         IF busy THEN [Command("turn/steer", "send", token) EXCEPT !.expected = running]
         ELSE Command("turn/start", "send", token)
    [] k = "popeye" /\ delivery = "none" -> Command("prompt", "send", token)
    [] k = "antigravity" /\ delivery = "none" -> Command("user", "none", token)
    [] OTHER -> Refused

(* encodeSessionInterrupt *)
EncodeInterrupt(k, token) ==
  IF k = "pi" THEN Command("abort", "interrupt", token)
  ELSE IF k = "claude" THEN Command("interrupt", "interrupt", token)
  ELSE Refused

---------------------------------------------------------------------------
(* Records *)

(* What decodeSessionRecord returns: the kind, the token it settles, and   *)
(* what else the kind carries.                                             *)
Meaning(kind) == [kind |-> kind, token |-> 0, ok |-> TRUE, run |-> 0, failed |-> FALSE,
                  aborted |-> FALSE, disposition |-> "none"]
Settling(kind, r) == [Meaning(kind) EXCEPT !.token = r.token]
Failing(r) ==
  IF r.mark = "send" THEN [Settling("command-failed", r) EXCEPT !.ok = FALSE]
  ELSE [Meaning("command-failed") EXCEPT !.ok = FALSE]
ProbeFailed == [Meaning("probe-failed") EXCEPT !.ok = FALSE]
Announced(r) == IF r.session # 0 THEN Meaning("identity") ELSE ProbeFailed
TurnEnd(failed, aborted) ==
  [Meaning("turn-end") EXCEPT !.failed = failed, !.aborted = aborted]
Answering(kind, r) == [Settling(kind, r) EXCEPT !.ok = r.ok]

(* matchesTurnEnd: every field the descriptor's turnEnd names agrees. *)
EndsTurn(k, r) ==
  r.what = CASE k = "claude" -> "result" [] k = "pi" -> "agent_settled"
             [] k = "codex" -> "turn/completed" [] k = "antigravity" -> "result"
             [] OTHER -> "never"

DecodeCodex(r) ==
  IF r.shape = "notification" THEN
    IF EndsTurn("codex", r) THEN TurnEnd(r.status \in {"failed", "interrupted"}, FALSE)
    ELSE Meaning("content")
  ELSE IF ~r.ok THEN IF r.mark = "identity" THEN ProbeFailed ELSE Failing(r)
  ELSE IF r.mark = "identity" THEN Announced(r)
  ELSE IF r.mark = "send" THEN [Settling("command-accepted", r) EXCEPT !.run = r.run]
  ELSE Meaning("ignored")

(* A settings answer settles only the part its id names. *)
Setting(r) == IF r.part = r.what THEN Answering("settings-answered", r) ELSE Meaning("ignored")

DecodePi(r) ==
  IF r.shape # "response" THEN
    IF EndsTurn("pi", r) THEN TurnEnd(FALSE, r.status = "aborted") ELSE Meaning("content")
  ELSE IF r.mark = "identity" /\ r.ok THEN Announced(r)
  ELSE IF r.mark = "interrupt" /\ r.what = "abort" THEN Answering("interrupt-answered", r)
  ELSE IF r.mark = "setting" THEN Setting(r)
  ELSE IF r.mark = "send" /\ r.ok /\ r.what = "prompt"
    THEN [Settling("command-accepted", r) EXCEPT !.disposition = r.status]
  ELSE IF ~r.ok THEN Failing(r)
  ELSE Meaning("ignored")

(* A prompt's response is the settled snapshot: the turn ends in it. *)
DecodePopeye(r) ==
  IF r.shape = "response" /\ ~r.ok THEN IF r.mark = "identity" THEN ProbeFailed ELSE Failing(r)
  ELSE IF r.shape = "response" /\ r.mark = "identity" THEN Announced(r)
  ELSE IF r.shape = "response" THEN TurnEnd(r.status \in {"error", "aborted"}, FALSE)
  ELSE Meaning("content")

(* control_request, control_cancel_request, control_response, result. *)
DecodeClaude(r) ==
  CASE r.shape = "request" ->
         IF r.what = "can_use_tool" THEN Settling("approval-request", r) ELSE Meaning("ignored")
    [] r.shape = "cancel" -> Settling("approval-cancelled", r)
    [] r.shape = "response" ->
         IF r.mark = "interrupt" THEN Answering("interrupt-answered", r)
         ELSE IF r.mark = "setting" THEN Answering("settings-answered", r)
         ELSE Meaning("ignored")
    [] OTHER ->
         IF ~EndsTurn("claude", r) THEN Meaning("content")
         ELSE IF r.status = "aborted" THEN TurnEnd(FALSE, TRUE)
         ELSE TurnEnd(r.status = "failed", FALSE)

DecodeAntigravity(r) ==
  IF EndsTurn("antigravity", r) THEN TurnEnd(r.status # "completed", FALSE) ELSE Meaning("content")

(* decodeSessionRecord *)
Decode(k, r) ==
  CASE k = "codex" -> DecodeCodex(r) [] k = "pi" -> DecodePi(r) [] k = "popeye" -> DecodePopeye(r)
    [] k = "claude" -> DecodeClaude(r) [] OTHER -> DecodeAntigravity(r)

(* readInterruptAdvertisement: claude's init alone says whether the running *)
(* process takes interrupts.                                               *)
Advertises(k, r) ==
  IF k = "claude" /\ r.what = "init" THEN {r.status = "interrupt_receipt_v1"} ELSE {}

---------------------------------------------------------------------------
(* The harnesses: the record each writes *)

Record(shape, what) ==
  [shape |-> shape, what |-> what, mark |-> "none", token |-> 0, part |-> "none", ok |-> TRUE,
   session |-> 0, run |-> 0, status |-> "none"]

(* The answer to a command that carried an id, as the harness means it. *)
AnswerTo(c, ok) ==
  [Record("response", c.what) EXCEPT !.mark = c.mark, !.token = c.token, !.ok = ok,
     !.session = IF ok THEN 1 ELSE 0, !.part = IF c.mark = "setting" THEN c.what ELSE "none"]

(* A record that ends a run, and one that shows its output. *)
EndOf(k, failed) ==
  [Record(IF k = "popeye" THEN "response" ELSE "notification",
          CASE k = "codex" -> "turn/completed" [] k = "pi" -> "agent_settled"
            [] k = "popeye" -> "prompt" [] OTHER -> "result")
     EXCEPT !.mark = IF k = "popeye" THEN "send" ELSE "none",
            !.status = IF failed THEN (IF k = "popeye" THEN "error" ELSE "failed") ELSE "completed"]
===============================================================================
