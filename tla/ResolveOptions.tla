--------------------------- MODULE ResolveOptions ---------------------------
(***************************************************************************)
(* Which tier decides each option of a turn: the arguments, the project's  *)
(* config file, the user's, hcn's own profile, or the harness              *)
(* (src/interpretation/resolve-options.ts, the toolMap merge of            *)
(* tool-vocabulary.ts, the effort slugs of vocabulary.ts, the profile of   *)
(* knowledge/profile.ts and the launch environment of cli).                *)
(*                                                                         *)
(* A tier is a function from the keys it sets to their values.             *)
(***************************************************************************)
EXTENDS TurnArgv

\* DEFAULT_TURN_PROFILE, and the values of it that emit nothing anyway.
Profile ==
  [effort |-> "medium", sandbox |-> "workspace-write", contextWindow |-> 272000,
   discovery |-> {}, autonomy |-> FALSE, write |-> TRUE, shell |-> TRUE,
   memory |-> FALSE, tools |-> "all-known"]
ProfileKeys == DOMAIN Profile
EmitsNothing == {"autonomy", "discovery", "write", "shell", "tools"}

\* PROFILE_DEFAULT_DEFERRALS: left to the harness.
Defers(h, key) == h = "claude" /\ key = "contextWindow"

\* Whether a profile value can be said to the harness at all.
Expressible(h, key) ==
  CASE key \in {"contextWindow", "effort", "sandbox", "memory"} ->
         key \in DOMAIN OptionsOf[h]
    [] key = "tools" -> h \in DOMAIN IncludeFlag
    [] OTHER -> TRUE

\* The two config files: the project's keys replace the user's, whole.
ConfigOf(user, project) == Layers(<< project, user >>)

\* What a config file carries that is not a turn option.
NotOptions == {"toolsets", "toolMap", "claudeConfigDir"}

Without(f, keys) == [k \in DOMAIN f \ keys |-> f[k]]

\* The config keys that count: isolation owns some dimensions outright.
Heeded(args, user, project) ==
  Without(ConfigOf(user, project),
          IF Given(args, "isolation") THEN IsolationOverrides ELSE {})

-----------------------------------------------------------------------------
(* Tool maps and named tool sets.                                          *)

MergedToolMap(user, project) ==
  LET u == IF Given(user, "toolMap") THEN user.toolMap ELSE <<>>
      p == IF Given(project, "toolMap") THEN project.toolMap ELSE <<>>
      of(map, h) == IF h \in DOMAIN map THEN map[h] ELSE <<>>
  IN  [h \in DOMAIN u \union DOMAIN p |-> Layers(<< of(p, h), of(u, h) >>)]

ToolMapOption(user, project) ==
  LET merged == MergedToolMap(user, project) IN
  IF DOMAIN merged = {} THEN <<>> ELSE Only("toolMap", merged)

Toolsets(user, project) ==
  Layers(<< IF Given(project, "toolsets") THEN project.toolsets ELSE <<>>,
            IF Given(user, "toolsets") THEN user.toolsets ELSE <<>> >>)

\* A single name that is a tool set stands for its members.
Expanded(args, user, project) ==
  LET sets == Toolsets(user, project) IN
  IF Given(args, "tools") /\ \E n \in DOMAIN sets : args.tools = {n}
  THEN [args EXCEPT !.tools = sets[CHOOSE n \in DOMAIN sets : args.tools = {n}]]
  ELSE args

\* Every list a config file names is checked, whether it is used or not.
ListsIssue(user, project) ==
  LET known == AllCanonical(UNION {DOMAIN MergedToolMap(user, project)[h] :
                              h \in DOMAIN MergedToolMap(user, project)})
      lists == (IF Given(project, "tools") THEN {project.tools} ELSE {})
                 \union (IF Given(user, "tools") THEN {user.tools} ELSE {})
                 \union Range(Toolsets(user, project))
  IN  IssueIf(\E list \in lists : ~(Canonical(list) \subseteq known),
              "unknown-tool-name")

\* The project's own tools cap what an argument may grant.
FloorIssue(args, project) ==
  IssueIf(/\ Given(project, "tools") /\ Given(args, "tools")
          /\ ~(args.tools \subseteq project.tools),
          "invalid-tool-grant")

-----------------------------------------------------------------------------
(* resolveEffectiveOptions, for a launch.                                  *)

\* Whether the profile's own value of a key reaches the harness: nothing
\* above it set the key, and the harness can be told.
ProfileApplies(h, args, config, key) ==
  /\ key \notin EmitsNothing
  /\ ~Given(args, key) /\ ~Given(config, key)
  /\ ~Defers(h, key) /\ Expressible(h, key)
  /\ ~(key = Claimed(h) /\ Given(args, "access"))
  /\ ~(key = "effort" /\ h = "cursor")

\* A harness that takes its effort in the model's name heeds only an
\* argument; a config key of the profile's is taken otherwise.
ConfigApplies(h, args, config, key) ==
  /\ ~Given(args, key)
  /\ ~(key = "effort" /\ h = "cursor")

\* Mutant: a file is asked before the arguments.
Resolved_FilesFirst(h, args, user, project) ==
  LET a == Expanded(args, user, project)
      config == Without(Heeded(a, user, project), NotOptions)
  IN  Layers(<<
        config, a,
        [key \in {k \in ProfileKeys : ProfileApplies(h, a, config, k)} |-> Profile[key]],
        ToolMapOption(user, project) >>)

Resolved(h, args, user, project) ==
  LET a == Expanded(args, user, project)
      config == Without(Heeded(a, user, project), NotOptions)
  IN  Layers(<<
        a,
        [key \in {k \in DOMAIN config : ConfigApplies(h, a, config, k)} |-> config[key]],
        [key \in {k \in ProfileKeys : ProfileApplies(h, a, config, k)} |-> Profile[key]],
        ToolMapOption(user, project) >>)

\* Dimensions asked for by a tier below the arguments that the harness
\* cannot express: reported, never refused.
Unrenderable(h, args, user, project) ==
  LET config == Heeded(args, user, project) IN
  {key \in ProfileKeys :
     /\ ~Given(args, key)
     /\ \/ key = "effort" /\ h = "cursor"
        \/ /\ ~Given(config, key) /\ ~Defers(h, key)
           /\ ~Expressible(h, key)
     /\ ~(Given(args, "isolation") /\ key \in IsolationOverrides)}

\* The order of the refusals is the code's; exclusivity looks at the access
\* of the arguments, against what any tier set.
ResolveIssue(h, args, user, project) ==
  LET a == Expanded(args, user, project)
      config == Heeded(args, user, project)
      resolved == Resolved(h, args, user, project)
  IN  FirstIssue(<<
        IsolationIssue(args),
        IssueIf(Given(a, "access") /\ a.access \notin AccessValues,
                "invalid-option-value"),
        AccessAloneIssue(h, a, DOMAIN a \union DOMAIN config),
        ListsIssue(user, project),
        FloorIssue(a, project),
        IssueIf(Given(resolved, "access") /\ h \notin DOMAIN AccessOf,
                "unsupported-option") >>)

-----------------------------------------------------------------------------
(* What hcn keeps for itself, on every path.                               *)

\* resolveLaunchEnvironment: Claude's configuration directory, when neither
\* the caller's environment nor an --env entry has one.
LaunchDir(h, user, inherited, callEnv) ==
  IF callEnv # "unset" THEN callEnv
  ELSE IF /\ h = "claude" /\ Given(user, "claudeConfigDir") /\ ~inherited
  THEN user.claudeConfigDir ELSE "unset"

\* resolveEffortSlug: on Cursor the model's own name carries the effort.
EffortSlugIssue(model, effort) ==
  LET stem == model \in DOMAIN EffortSlugs
      slug == model \in CursorModels
  IN  IF model = "" THEN IssueIf(effort # "", "unknown-effort")
      ELSE IF ~stem /\ ~slug THEN "unknown-model"
      ELSE IF effort = "" THEN IssueIf(stem, "unknown-model")
      ELSE IF effort \notin Efforts["cursor"] THEN "unknown-effort"
      ELSE IF stem THEN IssueIf(effort \notin DOMAIN EffortSlugs[model], "unknown-effort")
      ELSE IF model \in DOMAIN PinnedEffort THEN
             IssueIf(PinnedEffort[model] # effort, "invalid-option-value")
      ELSE "unknown-effort"

EffortSlug(model, effort) ==
  IF model \in DOMAIN EffortSlugs THEN EffortSlugs[model][effort] ELSE model

=============================================================================
