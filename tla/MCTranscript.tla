---------------------------- MODULE MCTranscript ----------------------------
(* A transcript command on a store that changes under it: a chain of reads *)
(* or a listing, of every harness.                                         *)
EXTENDS TranscriptRead, TranscriptList

CONSTANT MCCommands  \* the commands called

MCScript == << "prompt", "call", "result", "settings", "reply", "compaction" >>

Main == << "first", "child", "jsonl" >>
Twin == << "second", "child", "jsonl" >>
ParentAt(place) == << place, "parent", "jsonl" >>

\* A conversation of n entries from the script.
Said(conv, from, n) ==
  [i \in 1 .. n |-> Entry(MCScript[i], conv, from + i - 1)]
Saved(harness, n) ==
  IF Headed(harness) THEN << Header("child", 0, NoBase) >> \o Said("child", 1, n)
  ELSE Said("child", 0, n)

NoDb == [latest |-> << >>, roots |-> {}, messages |-> {}]
Store(harness, paths, files) ==
  [h |-> harness, names |-> paths, files |-> files, db |-> NoDb,
   appends |-> 2, edits |-> 1]

Plain(harness, n) == Store(harness, Main :> 1, 1 :> Saved(harness, n))
Quiet(store, halves) == [store EXCEPT !.appends = halves, !.edits = 0]
Double(harness) ==
  Store(harness, Main :> 1 @@ Twin :> 2, 1 :> Saved(harness, 2) @@ 2 :> << >>)

\* A codex rollout on top of another: its base said right and wrong.
Bases ==
  {[conv |-> "parent", offset |-> o[1], ordinal |-> o[2]] : o \in {<<6, 3>>, <<6, 4>>, <<5, 3>>}}
    \union {[conv |-> "child", offset |-> 2, ordinal |-> 1]}
Continuing(base) ==
  Store("codex", Main :> 1 @@ ParentAt("second") :> 2,
        1 :> << Header("child", base.ordinal, base),
                Entry("reply", "child", base.ordinal + 1) >>
     @@ 2 :> << Header("parent", 0, NoBase) >> \o Said("parent", 1, 2))

Chat ==
  LET list == Said("child", 1, 2) IN
  [h |-> "cursor", names |-> Main :> 1, files |-> 1 :> Said("child", 1, 1),
   appends |-> 2, edits |-> 1, db |-> [latest |-> list, roots |-> {list}, messages |-> ToSet(list)]]

Harnesses == {"pi", "popeye", "claude", "muse", "antigravity", "codex", "cursor"}

MCStores ==
  {Plain(x, 2) : x \in {"pi", "claude", "codex"}}
    \union {[Quiet(Plain("pi", 2), 0) EXCEPT !.edits = 3]}
    \union {Quiet(Plain(x, 3), 2) : x \in {"popeye", "muse", "antigravity"}}
    \union {Quiet(Plain(x, 6), 0) : x \in Harnesses \ {"cursor"}}
    \union {Quiet(Double(x), 1) : x \in {"pi", "claude"}}
    \union {Quiet(Continuing(b), 0) : b \in Bases}
    \union {[Continuing(CHOOSE b \in Bases : b.offset = 6 /\ b.ordinal = 3)
                EXCEPT !.appends = 0], Chat}

MCRequests ==
  {[h |-> x, by |-> "id", limit |-> 1, interrupts |-> x \notin {"codex", "claude", "cursor"}] :
     x \in Harnesses}
    \union {[h |-> "claude", by |-> "file", limit |-> 0, interrupts |-> FALSE]}

Listing(harness, places, index, window, scoped, limit, interrupts) ==
  [h |-> harness, places |-> places, index |-> index, window |-> window,
   workspace |-> scoped, limit |-> limit, interrupts |-> interrupts]
NoIndex == [w \in Walks |-> "undeclared"]
Alone == 1 :> << "first", "second" >> @@ 2 :> << >>
Both == 1 :> << "first" >> @@ 2 :> << "second" >>

MCListings ==
  {Listing("codex", Alone, NoIndex, window, FALSE, 0, FALSE) : window \in BOOLEAN}
    \union {Listing(x, Both, NoIndex, FALSE, ws, limit, TRUE) :
              x \in {"pi", "claude"}, ws \in BOOLEAN, limit \in {0}}
    \union {Listing("antigravity", Both, 1 :> index @@ 2 :> "undeclared", FALSE, FALSE, 0, TRUE) :
              index \in {"there", "busy", "missing"}}

\* One command runs; the other is as if over.
ReadIdle ==
  /\ request = [by |-> "id", limit |-> 0, interrupts |-> FALSE, since |-> None]
  /\ walk = [place |-> 1, found |-> {}] /\ current = Capture(Main, 0)
  /\ captured = << >> /\ held = << >> /\ helper = "none" /\ workspace = FALSE
  /\ issue = "" /\ result = NoResult /\ lines = 0 /\ exit = -1
  /\ at = "idle" /\ aborted = FALSE /\ reads = MaxReads /\ taken = << >> /\ instants = {} /\ restored = FALSE
ListIdle ==
  /\ listing = [h |-> "none"] /\ walks = << >>
  /\ task = << >> /\ free = OpenSources /\ waiting = << >> /\ rows = {}
  /\ unreadable = << >> /\ stopped = FALSE /\ listed = "idle"
  /\ shown = << >> /\ fresh = {} /\ steady = {}

Init ==
  /\ StoreInit
  /\ \/ "read" \in MCCommands /\ ReadInit /\ ListIdle
     \/ "list" \in MCCommands /\ ListInit /\ ReadIdle

Next ==
  \/ at # "idle" /\ (Reads \/ Disturbs) /\ UNCHANGED listVars
  \/ listed # "idle" /\ (Lists \/ DisturbsList) /\ UNCHANGED readVars

vars == << storeVars, readVars, listVars >>
Spec ==
  /\ Init /\ [][Next]_vars
  /\ WF_vars(at # "idle" /\ ReadGoesOn /\ UNCHANGED listVars)
  /\ WF_vars(listed # "idle" /\ ListGoesOn /\ UNCHANGED readVars)

(* A read always comes to its end and a listing to its: the helper, a      *)
(* close or another task's slot may hang or fail, the command does not.    *)
CommandEnds == []<>(at \in {"idle", "done"} /\ listed # "running")

=============================================================================
