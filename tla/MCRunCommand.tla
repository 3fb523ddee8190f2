---------------------------- MODULE MCRunCommand ----------------------------
(* Calls with at most two options from anywhere, and calls without options *)
(* on every shape of command line.                                         *)
EXTENDS RunCommand

CONSTANT MCHarnesses  \* the harnesses called

\* A pick is an option and a value for it; a tier is a set of picks.
Pick(key, val) == [key |-> key, val |-> val]
Tier(picks) ==
  [key \in {p.key : p \in picks} |-> (CHOOSE p \in picks : p.key = key).val]

ArgPicks ==
  << Pick("effort", "high"), Pick("effort", "ultra"),
     Pick("sandbox", "read-only"), Pick("sandbox", "workspace-write"),
     Pick("contextWindow", 200000), Pick("contextWindow", 5000000),
     Pick("provider", "zai"), Pick("discovery", {"tools"}),
     Pick("discovery", {"extensions", "skills"}), Pick("write", FALSE),
     Pick("memory", TRUE), Pick("maxSteps", 5), Pick("systemPrompt", "brief"),
     Pick("access", "read"), Pick("access", "write"), Pick("access", "all"),
     Pick("extensions", {"/ext"}), Pick("extensions", {"/gone"}),
     Pick("agent", "helper"), Pick("tools", {"read"}),
     Pick("tools", {"read", "shell"}), Pick("tools", {"safe"}),
     Pick("tools", {"native:lint"}), Pick("excludeTools", {"shell"}),
     Pick("autonomy", TRUE), Pick("skillNames", {"review"}),
     Pick("skillNames", {"nope"}), Pick("settingSources", {"user"}),
     Pick("model", "grok"), Pick("model", "opus"), Pick("model", "mystery"),
     Pick("isolation", "tool-free"), Pick("passthrough", TRUE) >>

FilePicks ==
  << Pick("effort", "high"), Pick("sandbox", "danger-full-access"),
     Pick("contextWindow", 300000), Pick("provider", "zai"),
     Pick("memory", TRUE), Pick("access", "read"), Pick("tools", {"read", "grep"}),
     Pick("excludeTools", {"write"}), Pick("autonomy", TRUE),
     Pick("model", "opus"), Pick("model", "grok"),
     Pick("toolsets", [safe |-> {"read", "glob"}]),
     Pick("toolMap", [pi |-> [list |-> "dir"]]),
     Pick("toolMap", [codex |-> [list |-> "dir"]]),
     Pick("systemPrompt", "house rules"), Pick("write", FALSE),
     Pick("isolation", "tool-free"), Pick("claudeConfigDir", "/claude") >>

\* What a user's own file adds to the arguments and the project's file.
UserPicks ==
  << Pick("effort", "low"), Pick("sandbox", "danger-full-access"),
     Pick("access", "read"), Pick("tools", {"read", "grep"}),
     Pick("model", "opus"), Pick("toolsets", [safe |-> {"shell"}]),
     Pick("toolMap", [pi |-> [list |-> "tree"]]),
     Pick("claudeConfigDir", "/claude") >>

\* The picks of all tiers in one list; 0 picks nothing.
Pool == [i \in DOMAIN ArgPicks |-> << "arg", ArgPicks[i] >>]
          \o [i \in DOMAIN FilePicks |-> << "project", FilePicks[i] >>]
          \o [i \in DOMAIN UserPicks |-> << "user", UserPicks[i] >>]
Picks == 0 .. Len(Pool)

\* Two picks of one tier and key make no call.
Compatible(i, j) ==
  i = 0 \/ j = 0 \/ Pool[i][1] # Pool[j][1] \/ Pool[i][2].key # Pool[j][2].key

TierOf(i, j, tier) ==
  Tier({Pool[n][2] : n \in {m \in {i, j} \ {0} : Pool[m][1] = tier}})

Continuations == {<< "", FALSE >>, << "s1", FALSE >>, << "", TRUE >>}

\* A sample: harness, two picks, continuation, shape of the command line and
\* environment; a command line of hcn session is told by a tag.
Sample(h, i, j, k, shape, env, inherited) ==
  << h, i, j, k, shape, env, inherited >>

MCCallOf(s) ==
  [h |-> s[1], args |-> TierOf(s[2], s[3], "arg"),
   user |-> TierOf(s[2], s[3], "user"), project |-> TierOf(s[2], s[3], "project"),
   resume |-> s[4][1], last |-> s[4][2], shape |-> s[5], env |-> s[6],
   inherited |-> s[7],
   command |-> IF "hcn session" \in s[5] THEN "session" ELSE "run"]

PickPairs == {q \in Picks \X Picks : q[1] < q[2] /\ Compatible(q[1], q[2])}

\* Every pair of options of one harness, launched and continued.
OptionSamples(h) ==
  {Sample(h, p[1], p[2], k, {"positional", "json"}, "unset", FALSE) :
     k \in Continuations, p \in PickPairs}

Sources ==
  {{}, {"positional"}, {"--prompt"}, {"--prompt-file"},
   {"--prompt-file", "stdin"}, {"positional", "--prompt"}}
Quirks ==
  {{}} \union {{q} : q \in
     {"dashed", "long", "unknown-flag", "memory-twice", "session-mode",
      "two-positionals", "separator", "two-ids", "bad-env", "broken-config",
      "no-cwd"}}
Bindings ==
  {{}, {"json"}, {"fingerprint"}, {"native-approvals"}, {"json", "native-approvals"},
   {"json", "fingerprint", "native-approvals"}}

\* The harnesses that tell the shapes of a command line apart.
Shaped == {"claude", "codex", "pi"}

ShapeSamples(h) ==
  {Sample(h, 0, 0, k, s \union q \union b, "unset", FALSE) :
     s \in Sources, q \in Quirks, b \in Bindings,
     k \in Continuations \union {<< "bad", FALSE >>, << "s1", TRUE >>}}

\* Saved settings beside one option from anywhere.
SettingsSamples(h) ==
  {Sample(h, 0, i, << "s1", FALSE >>, {"positional"} \union b, "unset", FALSE) :
     i \in Picks, b \in {{"fingerprint"}, {"json", "fingerprint", "native-approvals"}}}

\* The launch environment beside everything that could set it.
EnvironmentSamples(h) ==
  {Sample(h, 0, i, k, {"positional"}, env, inherited) :
     i \in {n \in Picks : n # 0 => Pool[n][2].key = "claudeConfigDir"},
     k \in Continuations, env \in {"unset", "", "/other"}, inherited \in BOOLEAN}

\* The same of hcn session: every pair of options of a fresh session and of
\* one to resume, every option under both names for an id and with approvals
\* armed, and every odd command line.
SessionOptionSamples(h) ==
  {Sample(h, p[1], p[2], k, {"hcn session"}, "unset", FALSE) :
     k \in {<< "", FALSE >>, << "s1", FALSE >>}, p \in PickPairs}

SessionResumeSamples(h) ==
  {Sample(h, 0, i, << "s1", FALSE >>, {"hcn session", "json"} \union b, "unset", FALSE) :
     i \in Picks, b \in {{}, {"--session-id"}, {"native-approvals"}}}

SessionShapeSamples(h) ==
  {Sample(h, 0, 0, k, {"hcn session"} \union q \union b, env, FALSE) :
     q \in Quirks \union {{"bad-stall"}, {"positional", "dashed"}},
     b \in {{}, {"json"}, {"fingerprint"}, {"json", "native-approvals"}},
     env \in {"unset", "/other"}, k \in Continuations \union {<< "bad", FALSE >>}}

\* The kinds of samples, and the harnesses each kind is of interest for.
Kinds ==
  [options |-> HarnessNames, shapes |-> Shaped, settings |-> Shaped,
   environment |-> {"claude", "pi"}]
  @@ ("session options" :> SessionHarnesses @@ "session resumes" :> HarnessNames
      @@ "session shapes" :> Shaped \union (HarnessNames \ SessionHarnesses))

SamplesOf(kind, h) ==
  CASE kind = "options"         -> OptionSamples(h)
    [] kind = "shapes"          -> ShapeSamples(h)
    [] kind = "settings"        -> SettingsSamples(h)
    [] kind = "environment"     -> EnvironmentSamples(h)
    [] kind = "session options" -> SessionOptionSamples(h)
    [] kind = "session resumes" -> SessionResumeSamples(h)
    [] kind = "session shapes"  -> SessionShapeSamples(h)

MCSamples ==
  [group \in {g \in (DOMAIN Kinds) \X MCHarnesses : g[2] \in Kinds[g[1]]} |->
     SamplesOf(group[1], group[2])]

=============================================================================
