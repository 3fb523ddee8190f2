------------------------------ MODULE TurnArgv ------------------------------
(***************************************************************************)
(* How the options of a turn become a command line (src/interpretation:    *)
(* argv.ts, turn-options.ts, tool-selection.ts, tool-vocabulary.ts,        *)
(* skills-selection.ts, isolation.ts, inline-settings.ts, vocabulary.ts).  *)
(*                                                                         *)
(* The options are a function o from the keys that were set to their       *)
(* values.  Each rule is a pair of operators: the issue it refuses with    *)
(* ("none" when it does not) and the token groups it renders.  Groups that *)
(* are equal are emitted once by the code, so a command line is a record   *)
(* of sets of groups; the order inside a group is kept.                    *)
(***************************************************************************)
EXTENDS Descriptors, SequencesExt

Given(o, key) == key \in DOMAIN o

\* Options in layers: each is what the first layer that has it says.
Layers(fs) ==
  [k \in UNION {DOMAIN fs[i] : i \in DOMAIN fs} |->
     fs[Min({i \in DOMAIN fs : k \in DOMAIN fs[i]})][k]]
Only(key, v) == [k \in {key} |-> v]

\* The first issue a sequence of checks finds.
FirstIssue(issues) ==
  LET found == {i \in DOMAIN issues : issues[i] # "none"}
  IN  IF found = {} THEN "none" ELSE issues[Min(found)]

IssueIf(condition, issue) == IF condition THEN issue ELSE "none"

-----------------------------------------------------------------------------
(* Isolation owns these dimensions of a turn.                              *)

IsolationOverrides ==
  {"tools", "excludeTools", "skills", "access", "autonomy", "discovery"}

\* assertIsolationCombination: an explicit competing choice is refused.
IsolationIssue(o) ==
  IssueIf(/\ Given(o, "isolation")
          /\ \/ \E key \in (IsolationOverrides \ {"autonomy"})
                             \union {"skillNames", "passthrough"} :
                   Given(o, key)
             \/ Given(o, "autonomy") /\ o.autonomy,
          "mutually-exclusive-options")

-----------------------------------------------------------------------------
(* Tools.  A name is canonical, or "native:x", which passes x through.     *)

NativeSelectors == "native:lint" :> "lint" @@ "native:Bash" :> "Bash"
IsNative(name) == name \in DOMAIN NativeSelectors

\* A tool map gives a harness native names for canonical ones.
MapOf(o, h) ==
  IF Given(o, "toolMap") /\ h \in DOMAIN o.toolMap THEN o.toolMap[h] ELSE <<>>
Builtins(h) == IF h \in DOMAIN BuiltinsOf THEN BuiltinsOf[h] ELSE <<>>
Categories(h) == IF h \in DOMAIN CategoriesOf THEN CategoriesOf[h] ELSE <<>>

AllCanonical(extra) == CanonicalTools \union extra

HasCounterpart(h, o, c) ==
  c \in DOMAIN MapOf(o, h) \union DOMAIN Builtins(h) \union DOMAIN Categories(h)

\* nativeFor: the tool map wins, then the built-in; a category has no name.
NativeNames(h, o, canonical) ==
  {Layers(<< MapOf(o, h), Builtins(h) >>)[c] :
     c \in canonical \intersect (DOMAIN MapOf(o, h) \union DOMAIN Builtins(h))}

Canonical(names) == {n \in names : ~IsNative(n)}
Passed(names) == {NativeSelectors[n] : n \in {m \in names : IsNative(m)}}
KnownTools(h) ==
  Range(Builtins(h)) \union (IF h \in DOMAIN Unnamed THEN Unnamed[h] ELSE {})

\* renderToolSelection's refusals, for an allowlist (include) and for a
\* complement (exclude).
NamesIssue(h, o, names) ==
  FirstIssue(<<
    IssueIf(~(Canonical(names) \subseteq AllCanonical(DOMAIN MapOf(o, h))),
            "unknown-tool-name"),
    IssueIf(\E c \in Canonical(names) : ~HasCounterpart(h, o, c),
            "unsupported-option") >>)

ToolIssue(h, o) ==
  LET semantics == DenySemantics[h] IN
  IF Given(o, "tools") /\ Given(o, "excludeTools") THEN "mutually-exclusive-options"
  ELSE IF ~Given(o, "tools") /\ ~Given(o, "excludeTools") THEN "none"
  ELSE IF semantics = "no-lists" THEN "unsupported-option"
  ELSE IF Given(o, "tools") THEN
         IF semantics = "remove-from-set" /\ o.tools = {} /\ IncludeIsStrict(h)
         THEN "invalid-tool-grant" ELSE NamesIssue(h, o, o.tools)
  ELSE
         FirstIssue(<< NamesIssue(h, o, o.excludeTools),
                       IssueIf(/\ semantics = "remove-from-set"
                               /\ IncludeIsStrict(h)
                               /\ Passed(o.excludeTools) # {},
                               "unknown-tool-name") >>)

\* A policy gate can only switch whole categories off.
GateTokens(h, o) ==
  LET touched == {Categories(h)[c] : c \in Canonical(
                    IF Given(o, "tools") THEN o.tools ELSE o.excludeTools)
                    \intersect DOMAIN Categories(h)}
      off == IF Given(o, "tools") THEN Range(Categories(h)) \ touched ELSE touched
  IN  SetToSeq({Bare(CategorySwitch[cat]) : cat \in off})

IncludeTokens(h, o) ==
  LET mapped == NativeNames(h, o, Canonical(o.tools)) IN
  IF IncludeIsStrict(h)
  THEN << Tok(IncludeFlag[h], mapped \union Passed(o.tools)) >>
  ELSE IF o.tools = {}
  THEN << Tok(ExcludeFlag[h], KnownTools(h)) >>
  ELSE << Tok(IncludeFlag[h], mapped \union Passed(o.tools)),
          Tok(ExcludeFlag[h], KnownTools(h) \ mapped) >>

ExcludeTokens(h, o) ==
  LET mapped == NativeNames(h, o, Canonical(o.excludeTools)) IN
  IF IncludeIsStrict(h)
  THEN << Tok(IncludeFlag[h], Range(Builtins(h)) \ mapped) >>
  ELSE << Tok(ExcludeFlag[h], mapped \union Passed(o.excludeTools)) >>

\* renderToolSelection's tokens.
ToolTokens(h, o) ==
  IF ~Given(o, "tools") /\ ~Given(o, "excludeTools") THEN <<>>
  ELSE IF DenySemantics[h] = "policy-gate" THEN GateTokens(h, o)
  ELSE IF Given(o, "tools") THEN IncludeTokens(h, o)
  ELSE ExcludeTokens(h, o)

-----------------------------------------------------------------------------
(* The turn options, key by key (renderTurnOptions).                       *)

OffFacets(o) == IF Given(o, "discovery") THEN o.discovery ELSE {}

DiscoveryIssue(h, o) ==
  IF OffFacets(o) = {} THEN "none"
  ELSE IF h \notin DOMAIN DiscoveryOf THEN "unsupported-option"
  ELSE IF ~(OffFacets(o) \subseteq DOMAIN DiscoveryOf[h]) THEN "unsupported-option-facet"
  ELSE "none"

AccessValues == {"read", "write"}
ReadPreset == {"read", "grep", "glob", "list", "web-fetch", "web-search"}

AccessIssue(h, o) ==
  IF ~Given(o, "access") THEN "none"
  ELSE IF h \notin DOMAIN AccessOf THEN "unsupported-option"
  ELSE IF o.access \notin AccessValues THEN "invalid-option-value"
  ELSE "none"

\* The option an access preset takes over (Codex: the sandbox).
Claimed(h) == IF h \in DOMAIN AccessOf THEN AccessOf[h].claims ELSE ""

\* Selectors and prompts that the grammar accepts; paths must be absolute.
CleanSelectors == {"zai", "helper", "mystery"}
AbsolutePaths == {"/ext", "/gone"}

Legal(h, spec, v) ==
  CASE spec.kind \in {"effort", "in-model"} -> v \in Efforts[h]
    [] spec.kind = "enum"     -> v \in spec.vals
    [] spec.kind = "text"     -> v # ""
    [] spec.kind = "paths"    -> v # {} /\ v \subseteq AbsolutePaths
    [] spec.kind = "selector" -> v \in CleanSelectors
    [] spec.kind = "integer"  -> v \in spec.min .. spec.max
    [] OTHER                  -> TRUE

OptionIssue(h, o, phase, key) ==
  IF key = "discovery" THEN DiscoveryIssue(h, o)
  ELSE IF key = "access" THEN AccessIssue(h, o)
  ELSE IF ~Given(o, key) THEN "none"
  ELSE IF key \notin DOMAIN OptionsOf[h] THEN "unsupported-option"
  ELSE
         LET spec == OptionsOf[h][key] IN
         IF ResolveRender(spec, phase) = Never THEN "unsupported-on-resume"
         ELSE IF Legal(h, spec, o[key]) THEN "none"
         ELSE IF spec.kind \in {"effort", "in-model"} THEN "unknown-effort"
         ELSE "invalid-option-value"

\* The values a token carries are strings.
ValuesOf(spec, v) == IF spec.kind = "integer" THEN {ToString(v)} ELSE {v}

AccessGroups(h, o, phase) ==
  LET preset == AccessOf[h][o.access]
      granted == {c \in ReadPreset : HasCounterpart(h, o, c)}
      render == IF phase = "launch" THEN preset.launch ELSE preset.resume
  IN  CASE preset.how = "nothing" -> {}
        [] preset.how = "tools" ->
             IF o.access # "read" \/ "tools" \in OffFacets(o) \/ granted = {}
             THEN {}
             ELSE {ToolTokens(h, Layers(<< Only("tools", granted),
                    Only("toolMap", IF Given(o, "toolMap") THEN o.toolMap ELSE <<>>) >>))}
        [] OTHER ->
             IF /\ Given(o, "autonomy") /\ o.autonomy
                /\ h \in DOMAIN AutonomyFlag
                /\ render = Flags(<< Bare(AutonomyFlag[h]) >>)
             THEN {}
             ELSE {IF render.kind = "settings" THEN render.extra
                   ELSE TokensFor(render, preset.vals)}

\* An option that was not set renders its own default, on a launch only, and
\* not when an access preset took it over.
DefaultGroups(h, o, phase, key) ==
  IF /\ key \in DOMAIN OptionsOf[h]
     /\ OptionsOf[h][key].default # ""
     /\ phase = "launch"
     /\ ~(key = Claimed(h) /\ Given(o, "access"))
  THEN {TokensFor(OptionsOf[h][key].launch, {OptionsOf[h][key].default})}
  ELSE {}

OptionGroups(h, o, phase, key) ==
  IF key = "discovery" THEN
         IF OffFacets(o) = {} THEN {} ELSE {DiscoveryOf[h][f] : f \in OffFacets(o)}
  ELSE IF key = "access" THEN
         IF Given(o, "access") THEN AccessGroups(h, o, phase) ELSE {}
  ELSE IF ~Given(o, key) THEN DefaultGroups(h, o, phase, key)
  ELSE
         LET spec == OptionsOf[h][key]
             render == ResolveRender(spec, phase)
         IN  IF spec.kind = "toggle" THEN
                    IF o[key] THEN {} ELSE {TokensFor(render, {})}
             ELSE IF spec.kind = "paths" THEN {TokensFor(render, {p}) : p \in o[key]}
             ELSE {TokensFor(render, ValuesOf(spec, o[key]))}

\* Some options follow the prompt.
AfterPrompt(h, o, key) ==
  IF key = "access"
  THEN /\ Given(o, "access") /\ h \in DOMAIN AccessOf
       /\ o.access \in AccessValues
       /\ LET preset == AccessOf[h][o.access] IN
          preset.how = "tools" \/ (preset.how = "render" /\ preset.after)
  ELSE key \in DOMAIN OptionsOf[h] /\ OptionsOf[h][key].after

PlacedKeys(h, o, after) ==
  {key \in Range(TurnOptionKeys) : AfterPrompt(h, o, key) = after}

\* The keys are looked at in their order.
KeysIssue(h, o, phase, keys) ==
  FirstIssue([i \in DOMAIN TurnOptionKeys |->
                IF TurnOptionKeys[i] \in keys
                THEN OptionIssue(h, o, phase, TurnOptionKeys[i]) ELSE "none"])

PlacedIssue(h, o, phase, after) == KeysIssue(h, o, phase, PlacedKeys(h, o, after))

PlacedGroups(h, o, phase, after) ==
  (UNION {OptionGroups(h, o, phase, key) : key \in PlacedKeys(h, o, after)}) \ {<<>>}

\* buildTurnEnv: Claude's memory is switched off in the environment.
TurnEnv(h, o) ==
  IF /\ Given(o, "memory") /\ "memory" \in DOMAIN OptionsOf[h] /\ ~o.memory
     /\ OptionsOf[h].memory.launch.kind = "env"
  THEN {OptionsOf[h].memory.launch.flag} ELSE {}

-----------------------------------------------------------------------------
(* The tail of a turn: prompt, model, unattended flag, tools, skills,      *)
(* settings scopes and the one merged settings object.                     *)

ModelIssue(h, o) ==
  IssueIf(/\ Given(o, "model")
          /\ ~(\/ o.model = CuratedModel[h]
               \/ h = "cursor" /\ o.model \in CursorModels
               \/ Extensible(h) /\ o.model \in CleanSelectors),
          "unknown-model")

AutonomyIssue(h, o) ==
  IssueIf(Given(o, "autonomy") /\ o.autonomy /\ h \notin DOMAIN AutonomyFlag,
          "no-autonomy-mode")

SkillsIssue(h, o) ==
  IssueIf(Given(o, "skills") /\ h \notin DOMAIN SkillsVia, "unsupported-option")

\* assertCleanPrompt: only an explicit prompt may look like a flag; one that
\* travels on standard input is not checked.
PromptIssue(h, o) ==
  IssueIf(/\ ~PromptOnStdin(h, o.prompt.long)
          /\ o.prompt.dashed /\ ~o.prompt.explicit,
          "prompt-flag-injection")

TailIssue(h, o) ==
  FirstIssue(<< PromptIssue(h, o), ModelIssue(h, o), AutonomyIssue(h, o),
                ToolIssue(h, o), SkillsIssue(h, o) >>)

\* Pi loads the picks with discovery off; Codex and Claude turn the rest off.
SkillTokens(h, o) ==
  CASE SkillsVia[h] = "load"   -> << Bare("-ns"), Tok("--skill", o.skills) >>
    [] SkillsVia[h] = "config" -> << Tok("-c skills.config", o.skills) >>
    [] OTHER                   -> <<>>

SettingsKeys(h, o) ==
  (IF Given(o, "skills") /\ SkillsVia[h] = "settings" THEN {"skills"} ELSE {})
  \union
  (IF /\ Given(o, "access") /\ h \in DOMAIN AccessOf
      /\ AccessOf[h][o.access].how = "render"
      /\ AccessOf[h][o.access].launch.kind = "settings"
   THEN AccessOf[h][o.access].vals ELSE {})

TailGroups(h, o) ==
  (IF Given(o, "model") THEN {<< Tok("--model", {o.model}) >>} ELSE {})
  \union (IF Given(o, "autonomy") /\ o.autonomy
          THEN {<< Bare(AutonomyFlag[h]) >>} ELSE {})
  \union {ToolTokens(h, o)}
  \union (IF Given(o, "skills") THEN {SkillTokens(h, o)} ELSE {})
  \union (IF Given(o, "settingSources")
          THEN {<< Tok("--setting-sources", o.settingSources) >>} ELSE {})
  \union (IF SettingsKeys(h, o) # {}
          THEN {<< Tok("--settings", SettingsKeys(h, o)) >>} ELSE {})

-----------------------------------------------------------------------------
(* The whole command line (buildSpawnArgv).                                *)

\* The command line that continues nothing yet, and its parts.
PhaseOf(o) == IF Given(o, "resume") \/ Given(o, "resumeLast") THEN "resume" ELSE "launch"

TurnIssue(h, o, phase) ==
  FirstIssue(<< PlacedIssue(h, o, phase, FALSE),
                PlacedIssue(h, o, phase, TRUE), TailIssue(h, o) >>)

\* assertAccessExclusivity: an access preset stands alone.  `set` holds the
\* keys that count as chosen.
AccessAloneIssue(h, o, set) ==
  IssueIf(/\ Given(o, "access")
          /\ {"tools", "excludeTools", Claimed(h)} \intersect set # {},
          "mutually-exclusive-options")

\* validateSettingSources: known scopes, at least one.
ScopesIssue(h, o) ==
  IF ~Given(o, "settingSources") THEN "none"
  ELSE IF h \notin DOMAIN SettingScopes THEN "unsupported-option"
  ELSE IF o.settingSources = {} \/ ~(o.settingSources \subseteq SettingScopes[h]) THEN
         "invalid-option-value"
  ELSE "none"

\* Mutant: the scopes are checked, their meeting with the facet is not.
SettingSourcesIssue_Alone(h, o) == ScopesIssue(h, o)

\* assertSettingSourcesCombination: Claude spells the extensions facet with
\* the very same flag.
SettingSourcesIssue(h, o) ==
  FirstIssue(<< ScopesIssue(h, o),
                IssueIf(Given(o, "settingSources") /\ "extensions" \in OffFacets(o),
                        "mutually-exclusive-options") >>)

UsableIds == {"s1", "s2"}

SpawnIssue(h, o) ==
  FirstIssue(<<
    IsolationIssue(o),
    SettingSourcesIssue(h, o),
    IssueIf(Given(o, "resume") /\ Given(o, "resumeLast"),
            "mutually-exclusive-options"),
    IssueIf(Given(o, "resumeLast") /\ h \notin DOMAIN ResumeLastFlag,
            "unsupported-option"),
    IssueIf(Given(o, "resume") /\ o.resume \notin UsableIds,
            "invalid-option-value"),
    IF PhaseOf(o) = "resume" THEN AccessAloneIssue(h, o, DOMAIN o) ELSE "none",
    TurnIssue(h, o, PhaseOf(o)) >>)

\* How the line continues a session; Claude forks its most recent one.
ContinueGroup(h, o) ==
  IF Given(o, "resume") THEN << Tok(ResumeFlag[h], {o.resume}) >>
  ELSE IF Given(o, "resumeLast") THEN
         Append(IF h = "claude" THEN << Bare("--fork-session") >> ELSE <<>>,
                Bare(ResumeLastFlag[h]))
  ELSE <<>>

\* A saved Codex session's own settings, restated; Pi restores them itself.
VerifiedGroups(h, saved) ==
  IF saved /\ h = "codex"
  THEN {<< Tok("--model", {"saved"}) >>,
        << Tok("-c model_reasoning_effort", {"saved"}) >>,
        << Tok("-c model_provider", {"saved"}) >>}
  ELSE {}

SpawnArgv(h, o, saved) ==
  LET phase == PhaseOf(o) IN
  [continue |-> ContinueGroup(h, o),
   before   |-> PlacedGroups(h, o, phase, FALSE),
   verified |-> VerifiedGroups(h, saved),
   prompt   |-> IF PromptOnStdin(h, o.prompt.long) THEN "stdin"
                ELSE IF saved /\ h = "pi" THEN "after-separator"
                ELSE "inline",
   tail     |-> TailGroups(h, o) \ {<<>>},
   after    |-> PlacedGroups(h, o, phase, TRUE),
   passthrough |-> Given(o, "passthrough"),
   env      |-> TurnEnv(h, o)]

NoArgv ==
  [continue |-> <<>>, before |-> {}, verified |-> {}, prompt |-> "none",
   tail |-> {}, after |-> {}, passthrough |-> FALSE, env |-> {}]

Groups(argv) ==
  argv.before \union argv.verified \union argv.tail \union argv.after
    \union ({argv.continue} \ {<<>>})
Tokens(argv) == UNION {Range(group) : group \in Groups(argv)}

=============================================================================
