----------------------------- MODULE SessionPlan -----------------------------
(***************************************************************************)
(* From the command line of hcn session to the command line it spawns      *)
(* (src/cli/session.ts, buildSessionArgv of src/interpretation/argv.ts).   *)
(*                                                                         *)
(* The stages are those of a run where the code shares them.  A session    *)
(* reads fewer options, takes no profile value and no tool floor, decides  *)
(* from the store whether it resumes, and renders its options once, for    *)
(* all the turns to come, in the grammar of a resume.                      *)
(***************************************************************************)
EXTENDS PlanTurn

IsSession == call.command = "session"
NamesResume == call.resume # "" /\ ~Tagged("--session-id")

-----------------------------------------------------------------------------
(* buildSessionArgv.                                                       *)

SessionPermissionKeys == {"tools", "excludeTools", "autonomy", "access", "discovery"}
SessionOptionKeys == {"effort", "provider", "agent", "contextWindow"}

RenderedIssue(h, o, keys) == KeysIssue(h, o, "resume", keys)

RenderedGroups(h, o, keys) ==
  UNION {OptionGroups(h, o, "resume", key) : key \in keys}

\* renderSessionPermissions: only Pi's and Claude's sessions carry any.
SessionPermissionsIssue(h, o) ==
  IF SessionPermissionKeys \intersect DOMAIN o = {} THEN "none"
  ELSE FirstIssue(<<
         IssueIf(h \notin SessionPermissions, "unsupported-option"),
         AccessAloneIssue(h, o, DOMAIN o), AutonomyIssue(h, o), ToolIssue(h, o),
         RenderedIssue(h, o, {"access", "discovery"}) >>)

SessionIssue(h, o) ==
  FirstIssue(<<
    ScopesIssue(h, o), SessionPermissionsIssue(h, o),
    ModelIssue(h, o), RenderedIssue(h, o, SessionOptionKeys),
    SkillsIssue(h, o),
    IssueIf(Given(o, "nativeApprovals") /\ h \notin DOMAIN SessionApprovals,
            "unsupported-option") >>)

\* A fresh session is named where the harness lets the caller do that; Codex
\* chooses between the two in its protocol.
SessionIdGroup(h, o) ==
  LET flag == IF o.isResume THEN SessionResumeFlag ELSE SessionIdFlag
  IN  IF h \in DOMAIN flag THEN << Tok(flag[h], {o.sessionId}) >> ELSE <<>>

ScopesOf(h, o) ==
  IF Given(o, "settingSources") THEN o.settingSources ELSE DefaultScopes[h]

\* What TailGroups renders of a turn and a session does not: the model's flag
\* and the scopes, which a session states always.
SessionTail(h, o) ==
  TailGroups(h, Without(o, {"model", "settingSources"}))
  \union (IF Given(o, "model") THEN {<< Tok(SessionModelFlag(h), {o.model}) >>} ELSE {})
  \union (IF h \in DOMAIN SettingScopes
          THEN {<< Tok("--setting-sources", ScopesOf(h, o)) >>} ELSE {})
  \union (IF Given(o, "nativeApprovals") THEN {SessionApprovals[h]} ELSE {})

SessionArgv(h, o) ==
  [NoArgv EXCEPT
     !.continue = SessionIdGroup(h, o),
     !.before   = RenderedGroups(h, o, SessionOptionKeys) \ {<<>>},
     !.tail     = (SessionTail(h, o) \union RenderedGroups(h, o, {"access", "discovery"}))
                    \ {<<>>},
     !.env      = TurnEnv(h, o)]

-----------------------------------------------------------------------------
(* The stages.                                                             *)

\* Options of a run that no session renders are refused in both polarities.
RunOnly == {"write", "shell", "sandbox"}

SessionFlagsIssue ==
  LET h == call.h
      approvals == Tagged("native-approvals")
  IN  FirstIssue(<<
        InvalidIf(Given(call.args, "passthrough")),
        IssueIf(h \notin SessionHarnesses, "no-session-mode"),
        InvalidIf(\/ Tagged("unknown-flag") \/ Tagged("memory-twice")
                  \/ Tagged("dashed") /\ Tagged("positional")
                  \/ Tagged("fingerprint")),
        InvalidIf(approvals /\ ~Tagged("json")),
        IssueIf(approvals /\ h \notin DOMAIN SessionApprovals, "unsupported-option"),
        InvalidIf(call.last),
        InvalidIf(RunOnly \intersect DOMAIN call.args # {}),
        InvalidIf(call.env # "unset" \/ Tagged("bad-env")),
        InvalidIf(Given(call.args, "isolation")) >>)

SessionFlags == Stage("session", "session skills", SessionFlagsIssue, plan, <<>>)

SessionSkills ==
  LET names == SkillNames IN
  Stage("session skills", "session id", SkillNamesIssue,
        [plan EXCEPT !.options = IF names = {} THEN <<>> ELSE Only("skills", names)],
        IF names = {} THEN <<>> ELSE << "registry" >>)

\* One id, of the shape of the harness's own.
SessionId ==
  Stage("session id", "session config",
        FirstIssue(<< ExclusiveIf(Tagged("two-ids")),
                      InvalidIf(call.resume \notin UsableIds \union {""}) >>),
        plan, <<>>)

SessionConfig ==
  Stage("session config", "session options", ConfigFilesIssue, plan, << "config" >>)

\* What the command reads of its arguments; everything else that parses is
\* left alone.  Of the discovery facets a session knows the tools.
SessionArgs ==
  LET taken == SessionOptionKeys \union SessionPermissionKeys
                 \union {"model", "settingSources", "questions"}
      facets == OffFacets(call.args) \intersect {"tools"}
  IN  Without(call.args, (DOMAIN call.args \ taken)
                           \union (IF facets = {} THEN {"discovery"} ELSE {}))

Narrowed(args) ==
  IF Given(args, "discovery") THEN [args EXCEPT !.discovery = {"tools"}] ELSE args

\* resolveSessionMemory: off unless a tier says otherwise.
SessionMemory ==
  LET config == ConfigOf(call.user, call.project) IN
  IF Given(call.args, "memory") THEN call.args.memory
  ELSE IF Given(config, "memory") THEN config.memory ELSE FALSE

SessionOptions ==
  LET args == Narrowed(SessionArgs)
      granted == SessionPermissionKeys \intersect DOMAIN args # {}
  IN  Stage("session options", "session store", "none",
            [plan EXCEPT
               !.options = Layers(<<
                 plan.options, args,
                 IF granted THEN ToolMapOption(call.user, call.project) ELSE <<>>,
                 IF "memory" \in DOMAIN OptionsOf[call.h]
                 THEN Only("memory", SessionMemory) ELSE <<>>,
                 IF Tagged("native-approvals")
                 THEN Only("nativeApprovals", TRUE) ELSE <<>> >>),
               !.dir = LaunchDir(call.h, call.user, call.inherited, "unset")],
            <<>>)

\* The store decides whether an id is resumed or names a fresh session; to
\* resume by name what the store does not have is refused.
SessionStore ==
  \E store \in IF call.resume = "" THEN {"skipped"} ELSE {"found", "missing"} :
    Stage("session store", "session argv",
          InvalidIf(NamesResume /\ store = "missing"),
          [plan EXCEPT
             !.store = store,
             !.options = Layers(<< @, Only("isResume", store = "found"),
               Only("sessionId", IF call.resume = "" THEN "minted" ELSE call.resume) >>)],
          IF store = "skipped" THEN <<>> ELSE << "store" >>)

BuildSession ==
  Stage("session argv", "probe",
        FirstIssue(<< InvalidIf(Tagged("bad-stall")),
                      SessionIssue(call.h, plan.options) >>),
        [plan EXCEPT !.argv = SessionArgv(call.h, plan.options)], <<>>)

SessionPlanNext ==
  \/ SessionFlags \/ SessionSkills \/ SessionId \/ SessionConfig
  \/ SessionOptions \/ SessionStore \/ BuildSession

-----------------------------------------------------------------------------
(* Properties of a planned session.                                        *)

\* Of the config files only the tool map, the memory and Claude's directory
\* reach a session, and of the run's own options none: what its spawn states
\* is what the caller said.
SessionKeepsToArguments ==
  IsPlanned /\ IsSession =>
    /\ \A key \in DOMAIN plan.options
                    \ {"toolMap", "memory", "skills", "isResume", "sessionId",
                       "nativeApprovals", "discovery"} :
         Given(call.args, key) /\ plan.options[key] = call.args[key]
    /\ Given(plan.options, "discovery") => "tools" \in OffFacets(call.args)
    /\ ~FlagGiven("--sandbox") /\ ~FlagGiven("-c sandbox_mode")

\* A caller that names a session to resume gets that session; an id that
\* restores one is told only for a session the store has.
ResumesWhatItNames ==
  IsPlanned /\ IsSession =>
    /\ NamesResume => plan.store = "found" /\ plan.options.sessionId = call.resume
    /\ \A t \in Range(plan.argv.continue) :
         /\ t.vals = {IF call.resume = "" THEN "minted" ELSE call.resume}
         /\ t.flag = SessionResumeFlag[call.h] /\ call.h # "pi" => plan.store = "found"

(* What a turn or a session may use, what it is asked for and which         *)
(* conversation it continues come from the tier that may say so.           *)
PolicyHolds ==
  /\ GrantsHold /\ TiersKeepTheirPlace
  /\ SessionKeepsToArguments /\ ResumesWhatItNames
=============================================================================
