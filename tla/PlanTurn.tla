------------------------------ MODULE PlanTurn ------------------------------
(***************************************************************************)
(* From a command line to the command line hcn spawns (src/cli/            *)
(* plan-turn.ts, args.ts, config.ts, extension-gate.ts and                 *)
(* src/execution/verified-native-settings.ts, native-approval-plan.ts).    *)
(*                                                                         *)
(* One action per stage, in the code's order.  A stage refuses with its    *)
(* first issue or hands on; between two stages the world may answer as it  *)
(* likes: a prompt file that is gone, an inspector that cannot read, a     *)
(* probe that finds nothing.  `effects` lists what the plan has touched    *)
(* outside its own arguments, in order.                                    *)
(***************************************************************************)
EXTENDS ResolveOptions

CONSTANTS Samples,   \* groups of samples, one sample for each call tried
          CallOf(_)  \* its command line, config files and environment

\* A call is of a harness hcn knows, and what it continues is no option.
ASSUME CallsAssumption ==
  \A group \in DOMAIN Samples : \A sample \in Samples[group] :
    LET c == CallOf(sample) IN
    /\ {"command", "shape", "args", "user", "project", "env", "inherited"} \subseteq DOMAIN c
    /\ c.h \in HarnessNames
    /\ "resume" \notin DOMAIN c.args
    /\ "passthrough" \in DOMAIN c.args => c.args.passthrough = TRUE

VARIABLES call,     \* the call being planned; it never changes
          stage,    \* the stage to run next, or "refused" or "planned"
          issue,    \* why the call was refused
          plan,     \* options, argv and launch directory, once they exist
          effects   \* what was read, inspected or probed so far

planVars == << call, stage, issue, plan, effects >>

NoPlan == [options |-> <<>>, argv |-> NoArgv, dir |-> "unset",
           unrenderable |-> {}, inspected |-> "not", store |-> "not"]

PlanInit ==
  /\ \E group \in DOMAIN Samples : \E sample \in Samples[group] : call = CallOf(sample)
  /\ stage = IF call.command = "session" THEN "session" ELSE "parse"
  /\ issue = "none" /\ plan = NoPlan /\ effects = <<>>

Tagged(tag) == tag \in call.shape
Resuming == call.resume # "" \/ call.last

\* Every stage either refuses with an issue or hands the plan on.
Stage(from, to, found, next, touched) ==
  /\ stage = from
  /\ issue' = found
  /\ stage' = IF found = "none" THEN to ELSE "refused"
  /\ plan' = IF found = "none" THEN next ELSE plan
  /\ effects' = effects \o touched
  /\ UNCHANGED call

InvalidIf(condition) == IssueIf(condition, "invalid-option-value")
ExclusiveIf(condition) == IssueIf(condition, "mutually-exclusive-options")

-----------------------------------------------------------------------------
(* The flags.  A bare prompt that looks like a short flag is refused       *)
(* before the parser can take it for one.                                  *)

PromptSources == call.shape \intersect {"positional", "--prompt", "--prompt-file"}
ExplicitPrompt == PromptSources \intersect {"--prompt", "--prompt-file"} # {}

InjectionIssue ==
  IssueIf(Tagged("dashed") /\ Tagged("positional") /\ ~ExplicitPrompt,
          "prompt-flag-injection")

FlagsIssue ==
  InvalidIf(\/ Tagged("unknown-flag")
            \/ Tagged("dashed") /\ Tagged("positional")
            \/ Tagged("memory-twice")
            \/ Tagged("fingerprint") /\ Tagged("session-mode")
            \/ /\ Tagged("native-approvals")
               /\ \/ ~Tagged("json") \/ ~Tagged("fingerprint")
                  \/ Tagged("--prompt-file") /\ Tagged("stdin")
            \/ Tagged("two-positionals")
            \/ Tagged("separator") /\ ~Given(call.args, "passthrough"))

Parse ==
  Stage("parse", "prompt", FirstIssue(<< InjectionIssue, FlagsIssue >>), plan, <<>>)

(* Exactly one source gives the prompt. *)
ReadPrompt ==
  \E found \in IF Tagged("--prompt-file") THEN BOOLEAN ELSE {TRUE} :
    LET one == Cardinality(PromptSources) = 1 IN
    Stage("prompt", "options", InvalidIf(~one \/ ~found), plan,
          IF one /\ Tagged("--prompt-file")
          THEN << IF Tagged("stdin") THEN "stdin" ELSE "prompt-file" >> ELSE <<>>)

(* Values that are wrong whatever the harness, and combinations with the   *)
(* continuation of a session.                                              *)

ContinuationIssue ==
  LET h == call.h IN
  FirstIssue(<<
    ExclusiveIf(Tagged("two-ids")),
    ExclusiveIf(call.last /\ call.resume # ""),
    InvalidIf(Tagged("bad-env")),
    IsolationIssue(call.args),
    IssueIf(call.last /\ h \notin DOMAIN ResumeLastFlag, "unsupported-option"),
    InvalidIf(call.last /\ (Tagged("native-approvals") \/ Tagged("fingerprint"))),
    InvalidIf(/\ Given(call.args, "skillNames") /\ Tagged("fingerprint")
              /\ NativeSettingsSource[h] = "pi-session-v1") >>)

ParseOptions == Stage("options", "skills", ContinuationIssue, plan, <<>>)

(* Skill names resolve against the caller's registry; none is no selection *)
RegistrySkills == {"review", "plan"}

SkillNames == IF Given(call.args, "skillNames") THEN call.args.skillNames ELSE {}
SkillNamesIssue == InvalidIf(~(SkillNames \subseteq RegistrySkills))

ResolveSkills ==
  LET names == SkillNames
      args == Without(call.args, {"skillNames", "timeout", "passthrough"})
  IN  Stage("skills", "files", SkillNamesIssue,
            [plan EXCEPT !.options =
               IF names = {} THEN args ELSE Layers(<< args, Only("skills", names) >>)],
            IF names = {} THEN <<>> ELSE << "registry" >>)

(* An extension is a regular file that is there now. *)
RegularFiles == {"/ext"}

CheckExtensions ==
  LET paths == IF Given(call.args, "extensions") THEN call.args.extensions ELSE {} IN
  Stage("files", "config", InvalidIf(~(paths \subseteq RegularFiles)), plan,
        IF paths = {} THEN <<>> ELSE << "extension files" >>)

(* Both config files load on every call, and either may be refused. *)
Listable(h) == h \in DOMAIN IncludeFlag \/ h \in DOMAIN CategoriesOf

\* A harness with categories takes entries for those only.
ToolMapFits(map) ==
  \A h \in DOMAIN map :
    Listable(h) /\ (h \in DOMAIN CategoriesOf => DOMAIN map[h] \subseteq DOMAIN CategoriesOf[h])

ConfigKeys ==
  {"effort", "model", "provider", "sandbox", "contextWindow", "tools",
   "excludeTools", "autonomy", "write", "shell", "memory", "maxSteps",
   "toolsets", "timeout", "questions", "systemPrompt", "appendSystemPrompt",
   "toolMap", "access", "claudeConfigDir"}

ConfigIssue(tier, project) ==
  InvalidIf(\/ ~(DOMAIN tier \subseteq ConfigKeys)
            \/ project /\ Given(tier, "claudeConfigDir")
            \/ Given(tier, "toolMap") /\ ~ToolMapFits(tier.toolMap)
            \/ Given(tier, "access") /\ tier.access \notin AccessValues)

ConfigFilesIssue ==
  FirstIssue(<< ConfigIssue(call.user, FALSE), ConfigIssue(call.project, TRUE),
                InvalidIf(Tagged("broken-config")) >>)

LoadConfig == Stage("config", "resolve", ConfigFilesIssue, plan, << "config" >>)

(* The tiers resolve on a launch only.  A resume keeps its own arguments,  *)
(* with the merged tool map beside an explicit grant.                      *)
Grants == {"tools", "excludeTools", "access"}

ResolveTiers ==
  LET args == plan.options
      dir == LaunchDir(call.h, call.user, call.inherited, call.env)
      withMap == IF Grants \intersect DOMAIN args = {} THEN args
                 ELSE Layers(<< args, ToolMapOption(call.user, call.project) >>)
  IN  Stage("resolve", "model",
            IF Resuming THEN "none"
            ELSE ResolveIssue(call.h, args, call.user, call.project),
            [plan EXCEPT
               !.options = IF Resuming THEN withMap
                           ELSE Resolved(call.h, args, call.user, call.project),
               !.unrenderable = IF Resuming THEN {} ELSE
                                Unrenderable(call.h, args, call.user, call.project),
               !.dir = dir],
            <<>>)

(* On Cursor an argument's effort becomes part of the model's name. *)
ResolveModel ==
  LET options == plan.options
      model == IF Given(options, "model") THEN options.model ELSE ""
      effort == IF Given(call.args, "effort") THEN call.args.effort ELSE ""
      applies == call.h = "cursor" /\ (model # "" \/ effort # "")
  IN  Stage("model", "argv",
            IF applies THEN EffortSlugIssue(model, effort) ELSE "none",
            IF applies
            THEN [plan EXCEPT !.options =
                    Layers(<< Only("model", EffortSlug(model, effort)), options >>)]
            ELSE plan,
            <<>>)

-----------------------------------------------------------------------------
(* The command line itself.  Saved settings are read again here; what an   *)
(* inspector answers decides, and nothing it said earlier counts.          *)

Inspections ==
  {"unavailable", "other-target", "changed", "user-reviewed", "auto-reviewed"}

\* What the harness is asked to run with: options plus the continuation.
Composed ==
  Layers(<<
    plan.options,
    Only("prompt", [long |-> Tagged("long"), dashed |-> Tagged("dashed"),
                    explicit |-> ExplicitPrompt]),
    IF call.resume # "" THEN Only("resume", call.resume) ELSE <<>>,
    IF call.last THEN Only("resumeLast", TRUE) ELSE <<>>,
    IF Given(call.args, "passthrough") THEN Only("passthrough", TRUE) ELSE <<>> >>)

\* What may ride beside a fingerprint; Pi restores everything by itself.
BesidePi == {"prompt", "questions", "toolMap", "extensions", "resume"}
BesideApprovals == {"prompt", "resume", "questions"}

FingerprintIssue(o) ==
  InvalidIf(\/ NativeSettingsSource[call.h] = "none"
            \/ ~Given(o, "resume") \/ Tagged("no-cwd")
            \/ Given(o, "resume") /\ o.resume \notin UsableIds
            \/ {"model", "effort", "provider", "passthrough"} \intersect DOMAIN o # {}
            \/ call.h = "pi" /\ ~(DOMAIN o \subseteq BesidePi))

\* Mutant: the fingerprint is not compared again.
InspectionIssue_Stale(answer) ==
  IssueIf(answer \in {"unavailable", "other-target"}, "native-settings-unavailable")

InspectionIssue(answer) ==
  CASE answer \in {"unavailable", "other-target"} -> "native-settings-unavailable"
    [] answer = "changed" -> "native-settings-changed"
    [] OTHER -> "none"

ApprovalsIssue(o) ==
  InvalidIf(~NativeApprovals(call.h) \/ ~(DOMAIN o \subseteq BesideApprovals))

\* A plan that restates or restores a session's saved settings.
BuildFromSettings(o, answer) ==
  LET early == FirstIssue(<<
                 IF Tagged("native-approvals") THEN ApprovalsIssue(o) ELSE "none",
                 FingerprintIssue(o) >>)
      late == FirstIssue(<<
                InspectionIssue(answer),
                IF Tagged("native-approvals")
                THEN IssueIf(answer # "user-reviewed", "native-settings-unavailable")
                ELSE SpawnIssue(call.h, o) >>)
  IN  Stage("argv", "probe", FirstIssue(<< early, late >>),
            [plan EXCEPT
               !.options = o,
               !.inspected = answer,
               !.argv = IF Tagged("native-approvals") THEN NoArgv
                        ELSE SpawnArgv(call.h, o, TRUE)],
            IF early = "none" THEN << "inspect" >> ELSE <<>>)

BuildArgv ==
  IF Tagged("fingerprint")
  THEN \E answer \in Inspections : BuildFromSettings(Composed, answer)
  ELSE Stage("argv", "probe", SpawnIssue(call.h, Composed),
             [plan EXCEPT !.options = Composed,
                          !.argv = SpawnArgv(call.h, Composed, FALSE)],
             <<>>)

(* Last of all, an option an extension provides is asked of the installed  *)
(* harness.                                                                *)
Probed ==
  {key \in DOMAIN OptionsOf[call.h] :
     OptionsOf[call.h][key].probe /\ Given(plan.options, key)}

ProbeOptions ==
  \E present \in IF Probed = {} THEN {TRUE} ELSE BOOLEAN :
    Stage("probe", "planned", IssueIf(~present, "extension-option-unavailable"),
          plan, IF Probed = {} THEN <<>> ELSE << "probe" >>)

PlanNext ==
  \/ Parse \/ ReadPrompt \/ ParseOptions \/ ResolveSkills \/ CheckExtensions
  \/ LoadConfig \/ ResolveTiers \/ ResolveModel \/ BuildArgv \/ ProbeOptions

-----------------------------------------------------------------------------
(* Properties of a planned call.                                           *)

IsPlanned == stage = "planned"
AccessFromFile ==
  /\ Given(plan.options, "access") /\ ~Given(call.args, "access")

\* Flags that a harness takes once for each thing it is told.
Repeatable == {"-e", "--disable"}

\* A harness is never told two different things by one flag, whichever tiers
\* the options came from.  A preset that a config file chose is the
\* exception (see the README): it comes beside what it should stand for.
FlagOnce ==
  IsPlanned /\ ~AccessFromFile =>
    \A s, t \in Tokens(plan.argv) :
      s.flag = t.flag /\ s.flag \notin Repeatable => s = t

\* The built-in tools a command line leaves the harness, under each way of
\* restricting them.
ValuesGiven(flag) == UNION {t.vals : t \in {u \in Tokens(plan.argv) : u.flag = flag}}
FlagGiven(flag) == \E t \in Tokens(plan.argv) : t.flag = flag
Usable ==
  LET h == call.h IN
  CASE h = "claude" ->
         (IF FlagGiven("--tools") THEN ValuesGiven("--tools")
          ELSE KnownTools(h) \union ValuesGiven("--allowedTools"))
           \ ValuesGiven("--disallowedTools")
    [] h \in {"pi", "popeye"} ->
         IF FlagGiven("--tools") THEN ValuesGiven("--tools")
         ELSE IF FlagGiven("-nt") THEN {} ELSE KnownTools(h)
    [] OTHER -> {}

Allowed(names) == NativeNames(call.h, plan.options, Canonical(names)) \union Passed(names)

\* A launched turn can use no tool that the project's list leaves out, and
\* a turn that was given a list no tool outside it, whatever else was set.
GrantsHold ==
  IsPlanned /\ ~AccessFromFile =>
    /\ Given(plan.options, "tools") => Usable \subseteq Allowed(plan.options.tools)
    /\ Given(call.project, "tools") /\ ~Resuming /\ ~Given(call.args, "isolation")
       /\ call.command = "run"
         => Usable \subseteq Allowed(call.project.tools)
    /\ Given(call.args, "isolation") => Usable \subseteq {}

\* A resumed turn is asked for what its own arguments say and nothing else:
\* no config file and no profile value reaches it.  On a launch an argument
\* is never replaced by a lower tier.  The timeout is hcn's own, no option.
TiersKeepTheirPlace ==
  IsPlanned /\ call.command = "run" =>
    /\ \A key \in (DOMAIN call.args \ {"timeout"}) \intersect DOMAIN plan.options :
         \/ plan.options[key] = call.args[key]
         \/ key = "model" /\ call.h = "cursor"
         \/ key = "tools" /\ ~Resuming
    /\ Resuming =>
         DOMAIN plan.options \subseteq
           DOMAIN call.args \union {"prompt", "resume", "resumeLast"}
             \union (IF Given(call.args, "skillNames") THEN {"skills"} ELSE {})
             \union (IF Grants \intersect DOMAIN call.args # {} THEN {"toolMap"} ELSE {})
             \union (IF call.h = "cursor" /\ Given(call.args, "effort")
                     THEN {"model"} ELSE {})

\* A plan that a fingerprint binds names one saved session that was read
\* again and found unchanged, restates nothing but what was saved, and takes
\* approvals only where the session's own reviewer is the user.
SettingsBound ==
  IsPlanned /\ Tagged("fingerprint") =>
    /\ call.resume \in UsableIds /\ ~call.last
    /\ plan.inspected \in {"user-reviewed", "auto-reviewed"}
    /\ \A flag \in {"--model", "-c model_reasoning_effort", "-c model_provider"} :
         ValuesGiven(flag) \subseteq {"saved"}
    /\ Tagged("native-approvals") =>
         plan.inspected = "user-reviewed" /\ plan.argv = NoArgv
=============================================================================
