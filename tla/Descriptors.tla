---------------------------- MODULE Descriptors ----------------------------
(***************************************************************************)
(* What hcn knows of each coding harness (src/knowledge): the options a    *)
(* turn may set, how each is spelled when a session is launched and when   *)
(* it is resumed, the tools it has and how a grant restricts them, and     *)
(* which conversations it can continue.  Flags are kept where two options  *)
(* can meet on one flag; wording, versions, matchers and model names are   *)
(* represented by one member each.                                         *)
(***************************************************************************)
EXTENDS Integers, Sequences, FiniteSets, TLC

HarnessNames ==
  {"claude", "codex", "pi", "muse", "cursor", "antigravity", "popeye"}

\* The turn options, in the order they are rendered.
TurnOptionKeys ==
  << "isolation", "effort", "sandbox", "contextWindow", "provider",
     "discovery", "write", "shell", "memory", "maxSteps", "systemPrompt",
     "appendSystemPrompt", "access", "extensions", "agent" >>

DiscoveryFacets == {"tools", "instructionFiles", "extensions", "skills"}

CanonicalTools ==
  {"read", "write", "edit", "shell", "grep", "glob", "list",
   "web-fetch", "web-search", "subagent", "skill"}

-----------------------------------------------------------------------------
(* A render says how a value reaches the harness.  A token is a flag with  *)
(* the set of values it carries; a flag that takes none carries {}.        *)

Tok(flag, vals) == [flag |-> flag, vals |-> vals]
Bare(flag) == Tok(flag, {})

Flags(tokens) == [kind |-> "list", flag |-> "", extra |-> tokens]
Value(flag) == [kind |-> "value", flag |-> flag, extra |-> <<>>]
ValueWith(flag, extra) == [kind |-> "value", flag |-> flag, extra |-> extra]
EnvVar(name) == [kind |-> "env", flag |-> name, extra |-> <<>>]
Settings(extra) == [kind |-> "settings", flag |-> "--settings", extra |-> extra]
Never == [kind |-> "never", flag |-> "", extra |-> <<>>]

\* tokensFor: the tokens a render gives a value.
TokensFor(render, vals) ==
  CASE render.kind = "value" -> Append(render.extra, Tok(render.flag, vals))
    [] render.kind = "list"  -> render.extra
    [] OTHER                 -> <<>>

OptionSpec(kind, render) ==
  [kind |-> kind, launch |-> render, resume |-> render, after |-> FALSE,
   vals |-> {}, min |-> 0, max |-> 0, default |-> "", probe |-> FALSE]

IntegerSpec(min, max, render) ==
  [OptionSpec("integer", render) EXCEPT !.min = min, !.max = max]

\* resolveRender: a spec may be spelled otherwise, or not at all, on resume.
ResolveRender(spec, phase) ==
  IF phase = "launch" THEN spec.launch ELSE spec.resume

-----------------------------------------------------------------------------
(* The access presets: through a render, through the tool list, or nothing *)

AccessSpec(read, write, claims) ==
  [read |-> read, write |-> write, claims |-> claims]
ThroughTools == [how |-> "tools"]
NoRestriction == [how |-> "nothing"]
Through(render, vals, after) ==
  [how |-> "render", launch |-> render, resume |-> render, vals |-> vals,
   after |-> after]

SandboxPreset(mode) ==
  [Through(Value("--sandbox"), {mode}, FALSE)
     EXCEPT !.resume = Value("-c sandbox_mode")]

AccessOf ==
  [claude |-> AccessSpec(
     Through(ValueWith("--tools", << Tok("--permission-mode", {"dontAsk"}),
                                     Tok("--disallowedTools", {"mcp"}) >>),
             {"Read", "Grep", "Glob", "WebFetch", "WebSearch"}, TRUE),
     Through(Settings(<< Tok("--permission-mode", {"acceptEdits"}) >>),
             {"sandbox"}, FALSE), ""),
   codex |-> AccessSpec(SandboxPreset("read-only"),
                        SandboxPreset("workspace-write"), "sandbox"),
   pi |-> AccessSpec(ThroughTools, NoRestriction, ""),
   muse |-> AccessSpec(
     Through(Flags(<< Bare("--disable-write"), Bare("--disable-shell") >>),
             {}, FALSE), NoRestriction, ""),
   cursor |-> AccessSpec(
     Through(Flags(<< Tok("--mode", {"ask"}), Tok("--sandbox", {"enabled"}) >>),
             {}, FALSE),
     Through(Flags(<< Bare("--force") >>), {}, FALSE), ""),
   popeye |-> AccessSpec(ThroughTools, NoRestriction, "")]

\* The facets of what the harness discovers by itself, by their off switch.
DiscoveryOf ==
  [claude |-> [extensions |-> << Tok("--setting-sources", {"project"}) >>,
               skills |-> << Bare("--disable-slash-commands") >>],
   pi |-> [tools |-> << Bare("-nt") >>, instructionFiles |-> << Bare("-nc") >>,
           extensions |-> << Bare("-ne") >>, skills |-> << Bare("-ns") >>]]

-----------------------------------------------------------------------------
(* The options each harness can express, one record per harness.           *)

ClaudeOptions ==
  [contextWindow |-> IntegerSpec(100000, 1000000, Value("--autocompact")),
   isolation |-> [OptionSpec("enum",
       Flags(<< Bare("--bare"), Tok("--tools", {}),
                Tok("--disallowedTools", {"mcp"}),
                Bare("--strict-mcp-config") >>))
       EXCEPT !.vals = {"tool-free"}, !.resume = Never],
   effort |-> OptionSpec("effort", Value("--effort")),
   systemPrompt |-> OptionSpec("text",
       ValueWith("--system-prompt",
                 << Bare("--exclude-dynamic-system-prompt-sections") >>)),
   appendSystemPrompt |-> OptionSpec("text", Value("--append-system-prompt")),
   agent |-> OptionSpec("selector", Value("--agent")),
   memory |-> OptionSpec("toggle", EnvVar("CLAUDE_CODE_DISABLE_AUTO_MEMORY"))]

CodexOptions ==
  [contextWindow |-> IntegerSpec(1, 272000, Value("-c model_context_window")),
   effort |-> OptionSpec("effort", Value("-c model_reasoning_effort")),
   systemPrompt |-> OptionSpec("text", Value("-c instructions")),
   sandbox |-> [OptionSpec("enum", Value("--sandbox"))
       EXCEPT !.vals = {"read-only", "workspace-write", "danger-full-access"},
              !.resume = Value("-c sandbox_mode"),
              !.default = "workspace-write"],
   memory |-> OptionSpec("toggle", Flags(<< Tok("--disable", {"memories"}) >>))]

PiOptions ==
  [effort |-> OptionSpec("effort", Value("--thinking")),
   provider |-> OptionSpec("selector", Value("--provider")),
   agent |-> [OptionSpec("selector", Value("--agent")) EXCEPT !.probe = TRUE],
   systemPrompt |-> OptionSpec("text", Value("--system-prompt")),
   appendSystemPrompt |-> OptionSpec("text", Value("--append-system-prompt")),
   extensions |-> OptionSpec("paths", Value("-e")),
   memory |-> OptionSpec("toggle", Flags(<<>>))]

MuseOptions ==
  [effort |-> OptionSpec("effort", Value("--reasoning-effort")),
   write |-> OptionSpec("toggle", Flags(<< Bare("--disable-write") >>)),
   shell |-> OptionSpec("toggle", Flags(<< Bare("--disable-shell") >>)),
   maxSteps |-> IntegerSpec(1, 10000, Value("--max-model-steps"))]

CursorOptions == [effort |-> OptionSpec("in-model", Flags(<<>>))]

AntigravityOptions ==
  [agent |-> [OptionSpec("selector", Value("--agent")) EXCEPT !.after = TRUE],
   effort |-> [OptionSpec("effort", Value("--effort")) EXCEPT !.after = TRUE],
   sandbox |-> [OptionSpec("enum", Flags(<< Bare("--sandbox") >>))
                  EXCEPT !.after = TRUE, !.vals = {"workspace-write"}]]

PopeyeOptions ==
  [effort |-> OptionSpec("effort", Value("--effort")),
   systemPrompt |-> OptionSpec("text", Value("--system-prompt")),
   appendSystemPrompt |-> OptionSpec("text", Value("--append-system-prompt")),
   contextWindow |-> IntegerSpec(1, 10000000, Value("--context-window")),
   agent |-> OptionSpec("selector", Value("--agent")),
   memory |-> OptionSpec("toggle", Flags(<<>>))]

OptionsOf ==
  [claude |-> ClaudeOptions, codex |-> CodexOptions, pi |-> PiOptions,
   muse |-> MuseOptions, cursor |-> CursorOptions,
   antigravity |-> AntigravityOptions, popeye |-> PopeyeOptions]

\* Whether the harness declares an option at all, the two tables included.
Declares(h, key) ==
  CASE key = "access"    -> h \in DOMAIN AccessOf
    [] key = "discovery" -> h \in DOMAIN DiscoveryOf
    [] OTHER             -> key \in DOMAIN OptionsOf[h]

-----------------------------------------------------------------------------
(* Tools: the harness's own name for each canonical tool, or the category  *)
(* that switches it.  "Monitor" stands for Claude's tools that have no     *)
(* canonical name.                                                         *)

BuiltinsOf ==
  [claude |-> [read |-> "Read", write |-> "Write", edit |-> "Edit",
               shell |-> "Bash", grep |-> "Grep", glob |-> "Glob",
               subagent |-> "Task", skill |-> "Skill"]
              @@ ("web-fetch" :> "WebFetch" @@ "web-search" :> "WebSearch"),
   pi |-> [read |-> "read", shell |-> "bash", edit |-> "edit",
           write |-> "write", grep |-> "grep", glob |-> "find", list |-> "ls"],
   popeye |-> [read |-> "read", grep |-> "grep", glob |-> "glob",
               list |-> "list"]
              @@ ("web-fetch" :> "web-fetch" @@ "web-search" :> "web-search")]

Unnamed == [claude |-> {"Monitor"}]

CategoriesOf ==
  [muse |-> [c \in {"write", "edit", "shell", "web-fetch", "web-search"} |->
               CASE c \in {"write", "edit"} -> "write"
                 [] c = "shell" -> "shell"
                 [] OTHER -> "web"]]

CategorySwitch ==
  [write |-> "--disable-write", shell |-> "--disable-shell",
   web |-> "--disable-web-tools"]

DenySemantics ==
  [claude |-> "remove-from-set", pi |-> "remove-from-set",
   popeye |-> "remove-from-set", muse |-> "policy-gate",
   antigravity |-> "policy-gate", codex |-> "no-lists", cursor |-> "no-lists"]

IncludeFlag ==
  [claude |-> "--allowedTools", pi |-> "--tools", popeye |-> "--tools"]
ExcludeFlag ==
  [claude |-> "--disallowedTools", pi |-> "--exclude-tools",
   popeye |-> "--exclude-tools"]

\* The include flag of pi and popeye restricts; Claude's only pre-approves.
IncludeIsStrict(h) == h \in {"pi", "popeye"}

SkillsVia ==
  [claude |-> "settings", codex |-> "config", pi |-> "load"]

-----------------------------------------------------------------------------
(* Models, efforts, unattended runs, settings scopes and continuation.     *)

\* One curated model per harness, and whether others are let through.
CuratedModel ==
  [claude |-> "opus", codex |-> "gpt", pi |-> "glm", muse |-> "spark",
   cursor |-> "grok-low", antigravity |-> "gemini", popeye |-> "fake"]
Extensible(h) == h \in {"pi", "antigravity", "popeye"}

\* A family of Cursor models takes its effort in the model's own name: the
\* stem "grok" has a slug for each of its efforts, a slug pins its effort,
\* and "auto" has none.
EffortSlugs == [grok |-> [low |-> "grok-low", high |-> "grok-high"]]
PinnedEffort ==
  "grok-low" :> "low" @@ "grok-high" :> "high" @@ "grok-low-fast" :> "low"
CursorModels == DOMAIN PinnedEffort \union {"auto"}

Efforts ==
  [h \in HarnessNames |->
     CASE h = "muse"        -> {"low", "medium", "high", "ultra"}
       [] h \in {"antigravity", "popeye"} -> {"low", "medium", "high"}
       [] OTHER             -> {"low", "medium", "high", "max"}]

AutonomyFlag ==
  [claude |-> "--dangerously-skip-permissions", codex |-> "--yolo",
   muse |-> "--yolo", cursor |-> "--force",
   antigravity |-> "--dangerously-skip-permissions"]

SettingScopes == [claude |-> {"user", "project", "local"}]
DefaultScopes == [claude |-> {"project"}]

\* How a harness names the session to continue, whether it can continue its
\* most recent one, and what it does with an id it does not know.
ResumeFlag ==
  [claude |-> "--resume", codex |-> "resume", pi |-> "--session-id",
   muse |-> "--session-id", cursor |-> "--resume",
   antigravity |-> "--conversation", popeye |-> "--resume"]
ResumeLastFlag ==
  [claude |-> "--continue", codex |-> "--last", pi |-> "--continue",
   cursor |-> "--continue", antigravity |-> "--continue"]
CreatesMissing(h) == h \in {"muse", "cursor", "pi"}

\* Persistent sessions: who has them, how an id names a fresh session and
\* how it resumes one, and which carry permissions and approval requests.
SessionHarnesses == {"claude", "codex", "pi", "antigravity", "popeye"}
SessionIdFlag == [claude |-> "--session-id", pi |-> "--session-id"]
SessionResumeFlag ==
  [claude |-> "--resume", pi |-> "--session-id",
   antigravity |-> "--conversation", popeye |-> "--resume"]
SessionModelFlag(h) == IF h = "codex" THEN "-c model" ELSE "--model"
SessionPermissions == {"claude", "pi"}
SessionApprovals == [claude |-> << Tok("--permission-prompt-tool", {"stdio"}) >>]

\* Only Claude can take a long prompt on its standard input.
PromptOnStdin(h, long) == h = "claude" /\ long

\* Where a saved session's own settings can be read, and who can answer
\* native approval requests in a turn.
NativeSettingsSource ==
  [h \in HarnessNames |->
     CASE h = "codex" -> "codex-rollout-v1"
       [] h = "pi"    -> "pi-session-v1"
       [] OTHER       -> "none"]
NativeApprovals(h) == h = "codex"

=============================================================================
