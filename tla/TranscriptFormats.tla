-------------------------- MODULE TranscriptFormats --------------------------
(***************************************************************************)
(* The saved conversations of the seven harnesses as their readers take    *)
(* them: which files are refused, who the conversation is, and what each   *)
(* saved line says once it is normalised.                                  *)
(*                                                                         *)
(* A saved line is abstract: what happened (event), its number in the      *)
(* file's own numbering (id), whose it is (conv), the tool call it makes   *)
(* or answers (call) and, on a header, the saved prefix it continues       *)
(* (base). What a harness writes for an event is the table Native.         *)
(***************************************************************************)
EXTENDS Integers, Sequences, FiniteSets, TLC, SequencesExt, FiniteSetsExt

NoBase == [conv |-> "", offset |-> 0, ordinal |-> 0]

Header(conv, id, base) ==
  [event |-> "header", id |-> id, conv |-> conv, call |-> 0, base |-> base]

Entry(event, conv, id) ==
  [event |-> event, id |-> id, conv |-> conv, base |-> NoBase,
   call |-> IF event = "call" THEN id ELSE IF event = "result" THEN id - 1 ELSE 0]

(***************************************************************************)
(* What a harness writes for an event (external).                          *)
(***************************************************************************)
Form(type, kind, role, blocks) ==
  [type |-> type, kind |-> kind, role |-> role, blocks |-> blocks]

Blank == Form("", "", "", {})

Native(h, event) ==
  CASE h = "pi" ->
         ( "prompt" :> Form("message", "", "user", {"text"})
        @@ "reply" :> Form("message", "", "assistant", {"thinking", "text"})
        @@ "call" :> Form("message", "", "assistant", {"toolCall"})
        @@ "result" :> Form("message", "", "toolResult", {"text"})
        @@ "compaction" :> Form("compaction", "", "", {"summary"})
        @@ "settings" :> Form("model_change", "", "", {}) )[event]
    [] h = "popeye" ->
         ( "prompt" :> Form("entry", "message", "user", {"text"})
        @@ "reply" :> Form("entry", "message", "assistant", {"text"})
        @@ "call" :> Form("entry", "message", "assistant", {"toolCall"})
        @@ "result" :> Form("entry", "message", "toolResult", {"text"})
        @@ "compaction" :> Form("entry", "compaction", "", {"summary"})
        @@ "settings" :> Form("record", "", "", {}) )[event]
    [] h = "claude" ->
         ( "prompt" :> Form("user", "", "", {"text"})
        @@ "reply" :> Form("assistant", "", "", {"thinking", "text"})
        @@ "call" :> Form("assistant", "", "", {"tool_use"})
        @@ "result" :> Form("user", "", "", {"tool_result"})
        @@ "compaction" :> Form("system", "compact_boundary", "", {"text"})
        @@ "settings" :> Form("last-prompt", "", "", {}) )[event]
    [] h = "codex" ->
         ( "prompt" :> Form("response_item", "message", "user", {"text"})
        @@ "reply" :> Form("response_item", "message", "assistant", {"text"})
        @@ "call" :> Form("response_item", "function_call", "", {"call"})
        @@ "result" :> Form("response_item", "function_call_output", "", {"call"})
        @@ "compaction" :> Form("compacted", "", "", {})
        @@ "settings" :> Form("turn_context", "", "", {}) )[event]
    [] h = "muse" ->
         ( "prompt" :> Form("runtime.session", "started", "", {"text"})
        @@ "reply" :> Form("runtime.session", "assistant_message_committed", "", {"text"})
        @@ "call" :> Form("runtime.session", "assistant_tool_calls_committed", "", {"call"})
        @@ "result" :> Form("runtime.session", "tool_results_committed", "", {"call"})
        @@ "compaction" :> Form("runtime.session", "compacted", "", {})
        @@ "settings" :> Form("runtime.settings", "", "", {}) )[event]
    [] h = "cursor" ->
         ( "prompt" :> Form("", "", "user", {"text"})
        @@ "reply" :> Form("", "", "assistant", {"reasoning", "text"})
        @@ "call" :> Form("", "", "assistant", {"tool-call"})
        @@ "result" :> Form("", "", "tool", {"tool-result"})
        @@ "compaction" :> Form("", "", "system", {"text"})
        @@ "settings" :> Form("", "", "system", {"text"}) )[event]
    [] h = "antigravity" ->
         ( "prompt" :> Form("USER_INPUT", "", "", {"text"})
        @@ "reply" :> Form("PLANNER_RESPONSE", "", "", {"thinking", "text"})
        @@ "call" :> Form("PLANNER_RESPONSE", "", "", {"call"})
        @@ "result" :> Form("GENERIC", "", "", {"output"})
        @@ "compaction" :> Form("CHECKPOINT", "", "", {})
        @@ "settings" :> Form("SYSTEM_MESSAGE", "", "", {"text"}) )[event]

(***************************************************************************)
(* How each reader names the parts of a line, what kind of record it is    *)
(* and who speaks.                                                         *)
(***************************************************************************)
PiPart(block) ==
  CASE block = "toolCall" -> "tool-call"
    [] block \in {"text", "thinking", "image"} -> block
    [] block = "summary" -> "text"
    [] OTHER -> "unknown"

PiKind(n) ==
  IF n.role = "toolResult" THEN "tool-result"
  ELSE IF n.type = "message" THEN "message"
  ELSE IF n.type = "compaction" THEN "compaction"
  ELSE IF n.type = "branch_summary" THEN "branch-summary"
  ELSE IF n.type \in {"custom", "custom_message"} THEN "custom"
  ELSE IF n.type \in {"model_change", "thinking_level_change", "label", "session_info"} THEN
         "metadata"
  ELSE "unknown"

PiRole(n) ==
  IF n.role = "toolResult" THEN "tool"
  ELSE IF n.role \in {"user", "assistant", "system"} THEN n.role
  ELSE IF n.type = "message" THEN "unknown"
  ELSE "none"

PopeyePart(block) == IF block = "toolCall" THEN "tool-call" ELSE "text"

PopeyeKind(n) ==
  IF n.type = "record" THEN "metadata"
  ELSE IF n.kind = "compaction" THEN "compaction"
  ELSE IF n.kind = "session_root" THEN "metadata"
  ELSE IF n.role = "toolResult" THEN "tool-result"
  ELSE IF n.kind = "message" THEN "message"
  ELSE "unknown"

PopeyeRole(n) ==
  CASE n.role = "toolResult" -> "tool"
    [] n.role \in {"user", "assistant", "system"} -> n.role
    [] n.role = "" -> "none"
    [] OTHER -> "unknown"

ClaudePart(block) ==
  CASE block = "tool_use" -> "tool-call"
    [] block = "tool_result" -> "tool-result"
    [] block \in {"text", "thinking", "image"} -> block
    [] OTHER -> "unknown"

ClaudeSpeaks(n) == n.type \in {"user", "assistant"}
ClaudeOnlyResults(n) == n.blocks # {} /\ \A b \in n.blocks : ClaudePart(b) = "tool-result"

ClaudeKind(n) ==
  IF n.type = "system" /\ n.kind = "compact_boundary" THEN "compaction"
  ELSE IF ClaudeOnlyResults(n) THEN "tool-result"
  ELSE IF ClaudeSpeaks(n) \/ n.type = "system" THEN "message"
  ELSE "unknown"

ClaudeRole(n) ==
  IF n.type = "system" THEN "system"
  ELSE IF ClaudeOnlyResults(n) THEN "tool"
  ELSE IF ClaudeSpeaks(n) THEN n.type
  ELSE "none"

CodexCalls == {"function_call", "custom_tool_call"}
CodexResults == {"function_call_output", "custom_tool_call_output"}

CodexPart(n, block) ==
  IF n.kind \in CodexCalls THEN "tool-call"
  ELSE IF n.kind \in CodexResults THEN "tool-result"
  ELSE IF block = "text" THEN "text"
  ELSE "unknown"

CodexKind(n) ==
  CASE n.kind \in CodexResults -> "tool-result"
    [] n.type = "response_item" /\ n.kind = "message" -> "message"
    [] n.type = "compacted" -> "compaction"
    [] OTHER -> "unknown"

CodexRole(n) ==
  CASE n.kind \in CodexResults -> "tool"
    [] n.role \in {"user", "assistant", "system"} -> n.role
    [] n.role = "developer" -> "custom"
    [] n.role = "" -> "none"
    [] OTHER -> "unknown"

MuseUser == {"started", "user_prompt_display", "inbox_item_queued"}
MuseResults ==
  {"tool_result", "tool_result_batch_committed", "tool_results_committed",
   "tool_result_committed"}

MusePart(n) ==
  CASE n.kind = "assistant_tool_calls_committed" -> "tool-call"
    [] n.kind \in MuseResults -> "tool-result"
    [] OTHER -> "text"

MuseKind(n) ==
  CASE n.kind \in MuseResults -> "tool-result"
    [] n.kind \in MuseUser \union {"assistant_message_committed",
                                   "assistant_tool_calls_committed"} -> "message"
    [] OTHER -> "unknown"

MuseRole(n) ==
  CASE n.kind \in MuseResults -> "tool"
    [] n.kind \in MuseUser -> "user"
    [] n.kind \in {"assistant_message_committed", "assistant_tool_calls_committed"} ->
         "assistant"
    [] OTHER -> "none"

CursorPart(block) ==
  CASE block \in {"text", "image", "tool-call", "tool-result"} -> block
    [] block \in {"reasoning", "redacted-reasoning"} -> "thinking"
    [] block = "file" -> "file-reference"
    [] OTHER -> "unknown"

CursorKind(n) == IF n.role = "tool" THEN "tool-result" ELSE "message"

CursorRole(n) ==
  IF n.role \in {"user", "assistant", "system", "tool"} THEN n.role ELSE "unknown"

AntigravityPart(n, block) ==
  IF n.type = "GENERIC" THEN "tool-result"
  ELSE IF block = "call" THEN "tool-call"
  ELSE block

AntigravityRole(n) ==
  CASE n.type = "USER_INPUT" -> "user"
    [] n.type = "SYSTEM_MESSAGE" -> "system"
    [] n.type = "PLANNER_RESPONSE" -> "assistant"
    [] n.type = "GENERIC" -> "tool"
    [] OTHER -> "none"

AntigravityKind(n) ==
  IF n.type = "GENERIC" THEN "tool-result"
  ELSE IF AntigravityRole(n) # "none" THEN "message"
  ELSE "unknown"

PartOf(h, n, block) ==
  CASE h = "pi" -> PiPart(block)
    [] h = "popeye" -> PopeyePart(block)
    [] h = "claude" -> ClaudePart(block)
    [] h = "codex" -> CodexPart(n, block)
    [] h = "muse" -> MusePart(n)
    [] h = "cursor" -> CursorPart(block)
    [] h = "antigravity" -> AntigravityPart(n, block)

KindOf(h, n) ==
  CASE h = "pi" -> PiKind(n)
    [] h = "popeye" -> PopeyeKind(n)
    [] h = "claude" -> ClaudeKind(n)
    [] h = "codex" -> CodexKind(n)
    [] h = "muse" -> MuseKind(n)
    [] h = "cursor" -> CursorKind(n)
    [] h = "antigravity" -> AntigravityKind(n)

RoleOf(h, n) ==
  CASE h = "pi" -> PiRole(n)
    [] h = "popeye" -> PopeyeRole(n)
    [] h = "claude" -> ClaudeRole(n)
    [] h = "codex" -> CodexRole(n)
    [] h = "muse" -> MuseRole(n)
    [] h = "cursor" -> CursorRole(n)
    [] h = "antigravity" -> AntigravityRole(n)

\* Antigravity's step log names no tool call.
NamesCalls(h) == h # "antigravity"

(* A normalised record: the calls its parts make, and the call its         *)
(* relation says it answers. Pi and popeye relate a result by a field of   *)
(* the message, the others by the part itself.                             *)
Record(h, line) ==
  LET n == Native(h, line.event)
      parts == {PartOf(h, n, b) : b \in n.blocks}
  IN [line |-> line, kind |-> KindOf(h, n), role |-> RoleOf(h, n), parts |-> parts,
      makes |-> IF "tool-call" \in parts /\ NamesCalls(h) THEN {line.call} ELSE {},
      answers |->
        IF NamesCalls(h)
             /\ \/ "tool-result" \in parts
                \/ h \in {"pi", "popeye"} /\ line.event = "result"
        THEN {line.call} ELSE {}]

(***************************************************************************)
(* Which files a reader takes. Pi, popeye, codex and the framed cursor     *)
(* store open with a line that says whose the conversation is and is no    *)
(* entry of it; claude and muse say it on every line; antigravity says it  *)
(* in the path.                                                            *)
(***************************************************************************)
Headed(h) == h \in {"pi", "popeye", "codex", "cursor"}

Conversation(h, lines, name) ==
  IF h = "antigravity" THEN name
  ELSE IF lines = << >> THEN ""
  ELSE lines[1].conv

Entries(h, lines) == IF Headed(h) THEN Tail(lines) ELSE lines

\* The number the first line of a file must carry where lines are numbered.
FirstNumber(h, lines) ==
  IF h = "codex" THEN lines[1].base.ordinal ELSE 0

\* What the reader refuses line i for, "" for nothing.
Offence(h, lines, i) ==
  LET line == lines[i]
      repeated == \E j \in 1 .. (i - 1) : lines[j].event # "header" /\ lines[j].id = line.id
  IN IF line.event = "header" THEN
            IF Headed(h) /\ i = 1 THEN ""
            ELSE IF h = "codex" THEN "guarantee-unmet" ELSE "source-malformed"
     ELSE IF Headed(h) /\ i = 1 THEN "source-malformed"
     ELSE IF h = "codex" /\ line.id # FirstNumber(h, lines) + i - 1 THEN "guarantee-unmet"
     ELSE IF h = "antigravity" /\ line.id # i - 1 THEN "guarantee-unmet"
     ELSE IF h = "muse" /\ i > 1 /\ line.id <= lines[i - 1].id THEN "source-malformed"
     ELSE IF h \in {"claude", "muse"} /\ line.conv # lines[1].conv THEN
            "source-identity-mismatch"
     ELSE IF h = "popeye" /\ line.conv # lines[1].conv THEN "source-malformed"
     ELSE IF h \in {"pi", "popeye", "claude", "muse"} /\ repeated THEN "source-malformed"
     ELSE ""

\* Why a file is refused, "" when it is taken: its first bad line, or that
\* nothing in it says whose it is.
Refusal(h, lines) ==
  LET bad == {i \in DOMAIN lines : Offence(h, lines, i) # ""}
  IN IF lines = << >> /\ h # "antigravity" THEN "source-malformed"
     ELSE IF bad # {} THEN Offence(h, lines, Min(bad))
     ELSE ""

\* The saved prefix a codex rollout continues, and whether the prefix ends
\* where its header says.
Base(h, lines) == IF h = "codex" THEN lines[1].base ELSE NoBase
PrefixFits(lines, base) == lines[Len(lines)].id + 1 = base.ordinal

(* The entry the harness saved as selected: the last one for pi and        *)
(* popeye, the one claude's settings line names; the others say nothing.   *)
Branch(h, entries) ==
  CASE h \in {"pi", "popeye"} /\ entries # << >> -> entries[Len(entries)].id
    [] h = "claude" /\ \E i \in DOMAIN entries : entries[i].event = "settings" ->
         entries[Max({i \in DOMAIN entries : entries[i].event = "settings"})].id - 1
    [] OTHER -> -1

(***************************************************************************)
(* Cursor's store: the messages it holds, the message lists that were ever *)
(* a conversation (roots), and the latest one. The store is read only when *)
(* the latest list is there whole and every earlier list is a prefix of it.*)
(***************************************************************************)
FrameRefusal(db) ==
  IF db.latest \notin db.roots THEN "source-malformed"
  ELSE IF \E r \in db.roots : ~ (ToSet(r) \subseteq db.messages) THEN "source-malformed"
  ELSE IF \E r \in db.roots : ~ IsPrefix(r, db.latest) THEN "guarantee-unmet"
  ELSE ""

FrameCursorStore(conv, db) == << Header(conv, 0, NoBase) >> \o db.latest
=============================================================================
