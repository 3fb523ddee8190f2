# harness-cli-normalizer in TLA+

TLA+ models of the parts of `hcn` whose correctness depends on the order of
events or on many options meeting, the TLC configurations that check them, and
TLAPS proofs of the results that matter most. Paths are relative to the
repository (`src/src/...`).

To check, in this directory: `tlc -workers 2 -config MCPi.cfg MCPiSession` (and
each run of section 5 likewise), `tlapm PiSessionProofs.tla` for the proofs.

## 1. Inventory

`hcn` runs coding-agent CLIs ("harnesses": claude, codex, pi, muse, cursor,
antigravity, popeye) behind one interface. Its layers are *knowledge* (tables
about each harness), *interpretation* (pure functions: options to argv, records
to events), *execution* (processes, streams, timers) and *cli*. The code is
single-threaded JavaScript: a handler runs to its next `await`, and callers,
native records, timers and process events interleave at the awaits.

### Modelled

**Session runner** (`execution/open-session.ts`), one process, many turns.
- State: the active turn (provisional or public), the receipts owed
  (`awaitingReceipt`), the sends held back and the one on the wire
  (`heldSends`, `gatedInFlight`), the inputs that wait (`pendingTurns`,
  `preIdentitySends`), interrupts and their answers, how the session closes, what
  the process and its pipes do.
- Operations: `send`, `interrupt`, `close`, one handler per native record, the
  stall clock, the escalation timers, the exit, `finalize`.
- Interactions: the handlers push into the turn's channel and wait on a slow
  consumer; the supervisor's clocks, the approval tracker and the settings
  sequencer share its stdin and its end.
- Hard: answers to sends, settlements, interrupts and closes come in any order;
  a handler resumes after the turn it was about ended; the process dies with
  sends written, held and queued. Five input kinds, each told differently whose
  turn it is: pi by receipts, claude by the uuids of a run, codex by the answer to
  a request, popeye and antigravity by nothing but the order.
- Correct when: each send gets one receipt, in order on the wire; a turn is shown
  for each native run and no other, with the output of its own input; a close lets
  the turn finish and then ends.

**Settings sequencer** (`execution/session-settings-sequencer.ts`).
- State: the op on the wire with its step, the queue, the tracked model.
- Operations: `submit`, `onAnswered`, the drain, `closeAll`.
- Hard: native answers can be repeated, late or refused half-way; an op can
  settle during the drain; validation must use the state the previous op left.
- Correct when: one receipt each, one native write outstanding, `applied` tells
  what the harness runs, every op settles.

**Approval tracker** (`execution/session-approval-tracker.ts`).
- State: pending requests, decided ones, the pause of the stall clock.
- Operations: a native request, a decision, a cancellation, the end of a turn.
- Hard: requests are repeated or exceed the cap, turns end under them.
- Correct when: one native reply per request, waiting requests have a live turn,
  and the clock is paused exactly while something waits.

**Machine session surface** (`cli/session-json.ts`), `hcn session --json`.
- State: the command pump, the turn pump, the chain of dispositions, the
  serialized writer parked on a full pipe, the question awaiting an answer.
- Hard: receipts settle out of order; either pump can end first; the consumer
  can go away while a line waits.
- Correct when: every command is answered in order before the terminal line, and
  the program ends.

**Turn channel, line assembly, output pump** (`execution/channel.ts`, `lines.ts`,
the pumps of `stream-turn.ts` and `open-session.ts`).
- State: a buffer with two water marks and its waiting producers; the bytes of an
  unfinished line; the events kept until the harness has said who it is.
- Operations: push, close, release, the iterator's steps; a chunk, a line, an event.
- Hard: lost wake-ups, two waits on each other, chunks torn inside a character or
  where a line passes its bound.
- Correct when: lines and events come out whole, once, first in first out, in
  bounded space, and nobody waits for ever.

**One-shot turn runner and supervisor** (`execution/stream-turn.ts`,
`supervisor.ts`, `decode.ts`, `failure.ts`).
- State: the two pumps, the clocks, the reason to stop, the failures recorded and
  shown, the errors a harness may still take back, the verdict.
- Operations: refuse, spawn, a record from either stream, stall, deadline, abort,
  approval stop, escalation, exit, pipe grace, the steps that form the verdict.
- Hard: several clocks and the exit race; failures come from two streams and from
  steps after the channel closed; pipes outlive the process.
- Correct when: one reason to stop, a verdict that agrees with the stream, no
  clean verdict over a loss, and every stop ends the turn.

**Muse approval observer** (`execution/muse-approvals.ts`,
`interpretation/muse-compaction.ts`), a helper process beside a muse turn.
- State: the helper and its replacement, the handshake, the poll outstanding, how
  long each request has been pending, unreadable samples, compactions told.
- Operations: start, replace, answer, poll, time out, report, close.
- Hard: the helper hangs, dies, answers late or badly; its report races the turn.
- Correct when: it reports only what was held long enough, each compaction once,
  and never leaves the turn without a timer or a helper behind it.

**Native approval turn** (`execution/native-approval-turn.ts` and the readers
`interpretation/native-approvals.ts` and its neighbours), codex's app-server.
- State: the protocol stage, buffered and shown requests, file changes in progress,
  decisions recorded, the stop, the evidence about the prompt, the clocks.
- Operations: each reply and notice, a decision, every clock, the exit, the verdict.
- Hard: three pumps and a consumer in between; a decision races a clear, a stop and
  a failed write; the prompt must not be sent into a turn that was stopped.
- Correct when: one answer per request, honest evidence, a clock paused exactly while
  a human is asked, a clean verdict over nothing pending, and an end.

**Options, plan and run** (`knowledge/*`, `interpretation/resolve-options.ts`,
`argv.ts` and the rule modules, `cli/plan-turn.ts`, `session.ts`, `run.ts`,
`observer.ts`, `output-errors.ts`, `verified-native-settings.ts`).
- State: the call, the stage of the plan, the options with their tiers, the command
  line; then the turn's events, the signals, the output, the observer.
- Operations: one per stage of the plan; an event, a signal, a broken output, a
  failing observer, the end.
- Hard: thirty options, four tiers and seven harnesses; settings read twice; an exit
  code set from several sides.
- Correct when: a harness is told nothing twice, a call is never widened by a lower
  tier, what was verified is what is bound, and the exit code tells what happened.

**Transcripts** (`execution/transcript/*`, `interpretation/transcript/*`).
- State: the store, which the harness keeps changing; the capture, the helper that
  clones an index, the bookmark; the walks and their shared slots.
- Operations: a directory, a stat, a chunk, a check, a record, a line; the harness's
  appends, rewrites, moves, checkpoints.
- Hard: everything read can change before it is checked; helpers hang; records share
  ids and places.
- Correct when: what is told complete is one moment's content, a continuation
  neither skips nor repeats, and the command ends.

### Not modelled

| Component | Why |
|---|---|
| Process adapter (`execution/node-deps.ts`) | Node's child processes and pipes: the models take what its interface promises (an exit; reads end after a disposal) |
| Record interpretation | pure readers of seven JSON dialects: data; the models keep what a record does to a turn |
| Context and model inspection | probes that spawn a harness once and read one answer |
| Interactive launch | hands over the terminal; the wait is the operating system's |
| The prompt of `hcn session` without `--json` | a loop over a terminal; two of its faults are in section 8 |
| Ledger | one line appended, best effort |
| Help and rendering, hashes | text; standard algorithms |

A component that is modelled leaves some of it out; PROJECT.json says what, and so
do the paragraphs of section 3.

## 2. Plan

Done, in this order: the session runner on pi and its contract; the settings
sequencer, claude's sessions and the machine surface; the channel and the one-shot
turn; the muse observer; the native approval turn; the queued kinds; options, plan
and run; transcripts; line assembly and output pump.

Composition: `SendContract` and `InputFates` are abstract specifications of the
session runner, implemented by `PiSession`, and by `ClaudeSession` and
`QueuedSession`; `JsonSession` takes a session handle that promises what they
state. `MuseTurn` composes `StreamTurn` with `MuseWatch`, `OutputPump` composes
`AsyncChannel` with `LineBuffer`, `RunCommand` stands on `SessionPlan`, `PlanTurn`,
`ResolveOptions`, `TurnArgv` and `Descriptors`, and `MCTranscript` runs
`TranscriptRead` and `TranscriptList` on one `TranscriptStore`.

Left, all of it proof: the invariants section 7 lists as only model-checked.
## 3. Modules

| Module | Models |
|---|---|
| `SendContract` | abstract: a stop-and-wait wire with one receipt per send |
| `PiSession` | the session runner on pi's input, where each send gets a receipt |
| `InputFates` | abstract: an input waits, then opens a turn, joins one, is refused, dropped or, where it may be, lost, once |
| `ClaudeSession` | the session runner on claude's input, with the approval tracker |
| `SessionWire` | the commands and answers of the five input kinds |
| `QueuedSession` | the session runner on codex, popeye and antigravity |
| `SettingsSequencer` | the settings sequencer and the session state it shares |
| `JsonSession` | the machine session surface |
| `AsyncChannel` | the turn channel |
| `LineBuffer`, `OutputPump` | line assembly and the pump of an output stream |
| `StreamTurn` | the one-shot turn and its supervisor |
| `MuseWatch`, `MuseTurn` | the approval observer; the turn that owns it |
| `ApprovalTurn` | the native approval turn |
| `Descriptors`, `TurnArgv`, `ResolveOptions` | tables, rules and tiers of the options |
| `PlanTurn`, `SessionPlan`, `RunCommand` | the plan of a turn, of a session, and `hcn run` |
| `TranscriptFormats`, `TranscriptStore`, `TranscriptRead`, `TranscriptList` | saved conversations, the store, reading and listing it |
| `MC*` | instances for TLC |
| `*Proofs` | theorems and proofs |

An action is one handler, cut only where the code awaits. Sends, inputs,
commands and ops are named by their place in call order.

**PiSession.** The caller's actions are `Send`, `Interrupt` and `Close`; the
harness's are the records pi prints (receipts, refusals, run starts and
settlements, compaction, identity, walls). `pump` says where a record's handler
waits on a turn's channel, and `PumpResumes` takes it up again with the state it
finds then. "Released" names a producer whose channel closed: a microtask, so
it goes on before any caller or timer. `turn` is the active turn, `ended` the
history of finished ones, `gate`, `held` and `awaiting` are the code's.
Left out: question detection at a turn's end, refusals by delivery mode,
approvals and settings on the same stdin, the identity probe, the bound of the
buffer before a turn, walls on stdout.

**ClaudeSession.** No receipts: the records of a run name the uuids it answers.
`board` holds the shown turn, the private one and the inputs that wait. A record
is handled in one step (waiting pumps are PiSession's subject). `ask` is the
tracker's view of a request, `replied` counts native replies. `scope` says which
kind of session a behaviour is: one with many runs and no fault, or one with
requests and every fault. Left out: interrupts (PiSession's code), the cap on
remembered answers, the choices and their encoding, question detection, requests
repeated after the cap denied them or the turn cleared them.

**QueuedSession.** `stdin` and `stdout` are the pipes with what is in them, so hcn
and the harness act on what the other has not read yet; `inputs` is the history of
which sends a native run answers. `buffered` are the sends before the identity,
`board` the pending turns, the open one and those shown. Left out: antigravity's
settings and approvals on the same stdin, question detection, walls on stdout.

**SettingsSequencer.** The harness is abstract: it applies, clamps, refuses,
repeats or loses a native write. `lost` marks writes made after stdin ended or
the child died. pi's model selector is abstracted to its outcome.

**JsonSession.** The session handle and the consumer's read end are external. A
line carries its emitter, so that a pump awaiting its own line is known
(`Busy`). Left out: which lines are malformed, payloads, exit codes other than
whether there is one, a `send` that throws anything but `SessionClosedError`.

**AsyncChannel, LineBuffer, OutputPump.** A step of the channel is one synchronous
segment: a push, a close, a release, what the iterator does before it yields or
sleeps. Producers await their pushes, as the pumps do. A byte is a character, the
lead of a longer one or a continuation; the pump reads any tearing of a stream.

**StreamTurn.** A failure is its class. The channel is the set `told` of failure
classes the consumer is shown. A turn's end is several steps, in the code's
order: `Startup`, `Credential`, `Fallback`, `StopFailure`, `Judge`, `Deliver`,
and the consumer may leave or abort between them. Provisional errors and line
overflows wait in `decode` and are judged when stdout ends. Left out: the buffer
before the identity (OutputPump's), warnings, logs, the patterns that classify a
line.

**MuseWatch, MuseTurn.** A helper is a record of its handshake; the samples of a
poll are what the view says of each request. A step of the observer that reports
sets `watch.report`, and MuseTurn makes it the turn's `ApprovalStop`. A request is
reduced to whether only a person can answer it and how long it may wait.

**ApprovalTurn.** `stage` is the protocol's, `pump` where the reader of stdout
awaits the consumer (the identity, the replay of what was buffered, the clearing at
the end). `request` says what became of each native id; `answers` and `responses`
are histories of what the caller and codex were told. A buffered request that
`StartReply` forgets is `dropped`, or `orphaned` when codex had already exited: only
the latter can be followed by a clean verdict. Left out: the texts; native
ids are not used again for another request.

**Options to command line.** Options are a function from the keys that were set;
a rule is an issue it refuses with and the token groups it renders; a command line
is a record of sets of groups. Names, texts and versions are one representative
each. **PlanTurn** goes through the code's stages with the call in `call`, and
between two of them the world answers as it likes (a file gone, a probe without an
answer). **SessionPlan** does so for `hcn session`. **RunCommand** goes on with the
turn as a source of events. A refusal of the turn before its spawn and a spawn that
fails reach it as a failure and a done through the same loop (exit code 1); only what
a plan or a turn throws ends with 2. The observer is sent no droppable event
(`Droppable`, here `token`), and a record above its bound as `skipped`
(`Records`). Left out: the resume picker, interactive launch,
streaming granularity, wording.

**Transcripts.** A saved line is its event, its number, its conversation and the
call it makes or answers; `Native` gives what a harness writes for it. The store
changes by half lines, so a torn record is a real state. **TranscriptRead** is the
capture with its chunks and checks, the fold, the bookmark; **TranscriptList** the
walks with their slots. Left out: sqlite, JSON and times as text, codex's and
cursor's relations between files, the headless filter, the choice of the method.

**Instances that cut.** `MCPiSession!Focused`: after a stall a behaviour is followed
until the session closes, the pipe breaks or the child exits (`pi_live` has the
rest), and walls meet neither an interrupt nor a stall. `MCApprovalTurn!Focused`: one
out-of-the-way event at a time, because pairs of them do not interact, and requests
and decisions come in one order, because they are interchangeable.
`MCMuseTurn!Focused`: an observed turn reads its identity and nothing that the
observer does not see, an unobserved one never reads an identity, which only starts
an observer. `MCClaudeSession` and `MCJsonSession` put two kinds of session into one
run, `MCSettings` pi's faults and claude's queue. `MCRunCommand` samples calls:
every pair of options from any tier on every harness, launched and continued;
every shape of command line; saved settings; environments; `hcn session` likewise.
`MCTranscript` runs one command at a time, since nothing is shared between them.

## 4. Fairness

Nothing is ever assumed of a caller, nor that a harness writes, answers, closes
a pipe or exits, except where a premise or a line below says so.

- Timers that are set fire (`DrainCheck`, `CloseGrace`, `KillGrace`, `Stall`,
  `DeadlineFires`, `ProtocolTimeout`, the observer's polls, ...): Node's event loop.
  The stall clock counts as fair only where the harness falls silent: weak fairness
  lets one that prints keep rearming it.
- SIGKILL ends a process, a disposed pipe stops reading, and what a dead child left
  in its pipe is read: the operating system and `node-deps.ts`.
- `finalize` follows the exit; strong fairness in PiSession because the pump is
  free again and again, after an exit, until the pipes' finite rest is read.
- The runners' own steps in StreamTurn, MuseTurn and ApprovalTurn: the consumer of
  an async generator asks for the next event or leaves; that it does neither is a
  program that stopped reading. A decision channel that was closed ends.
- JsonSession: its own steps; a pipe that is open drains; a session that is
  closing ends and settles what it owes, which `ClosesCleanly` and its like of the
  session models show. A session that is not closing owes nothing.
- SettingsSequencer: the harness answers what it reads, and exits once stdin
  ended (or is killed by the timers modelled in the session).
- OutputPump: the consumer keeps asking. Transcripts: the reader's and the walks'
  own steps (`ReadGoesOn`, `ListGoesOn`), a helper's deadline among them.
- `HoldsLeave` has `Responsive` as its premise, in the formula itself: the
  consumer drains its turns and the harness answers every prompt it reads.

## 5. Runs

Distinct states in parentheses.

| Run | What it shows |
|---|---|
| `pi` (810k) | Two sends and an interrupt, refusals, a stall clock, a pipe that breaks, walls, an exit at any point. `WireInv`: one receipt per send, at most one unanswered on the wire, call order, no hold without an answer to come. `TurnsInv`: turns follow native runs. `InterruptInv`: an interrupt's outcome is its own target's. `ImplementsContract`: refinement of `SendContract`. |
| `pi_live` (219k) | A draining close never cuts off a run or an unanswered prompt (`DrainLetsTurnFinish`); a close ends the session and holds leave (`SessionProgress`). |
| `settings` (207k) | pi with two ops, refusals and a breaking pipe; claude with three ops queued: `SettlementsInv` (one receipt, one write at a time, call order), `EffectiveSettings` (`applied` is what runs, efforts are judged by the model in force), `OpsSettle`. |
| `claude` (210k) | Three inputs against three runs that merge, reorder or ignore them; one input with two requests, a cap of one and every fault. `OutputBelongs`, `ApprovalsInv`, `ImplementsFates` (refinement of `InputFates`), `ClosesCleanly`. |
| `queued` (67k) | codex, popeye and antigravity with two inputs, buffered, steered, refused, stalled, cut off: `TurnsAttributed`, `ImplementsFates`, `CloseEnds`. |
| `json` (130k) | Two commands behind a writer that parks; a command against a turn with a question and a consumer that dies: `LinesInOrder`, `AnswerHeard`, `EndsInOrder`. |
| `json_gone` (1.4k) | A violation of `GoneExits`: see section 8. |
| `channel` (56k) | Eleven streams in every tearing, beside a second producer: `OutputWhole`, `Backpressure`, `ChannelProgress`. |
| `turn` (379k) | A turn with two records of any kind and every clock, or one with an observer: `VerdictFollowsStream`, `CleanIsClean`, `StopsOnce`, `WatchTruthful`, `StopEnds`. |
| `approval` (1146k) | Two requests under a cap of one shown, two decisions of two choices, so that one request is decided twice, the same and differently; a file change, every clock: `OneAnswer`, `PromptEvidence`, `RequestsInv`, `CleanIsClean`, `TurnEnds`. |
| `run` (722k) | `hcn run` from arguments to exit code and `hcn session` to its spawn: `FlagOnce`, `PolicyHolds`, `SettingsBound`, `RunTold`. |
| `store` (530k) | Chains of reads, or a listing over two stores with one slot, on a store that changes: `ReadTruthful`, `ConversationExact`, `ListComplete`, `CommandEnds`. |

**Bounds, and why they are enough.** Two sends give every relation the gate
knows: one on the wire, one held behind it, one queued by pi into the run of the
other; orders of three or more rest on the theorems, which hold for every
`MaxSends`. One interrupt meets a live turn, a later turn and none. Three
settings ops make one wait behind one that turns out invalid in the drain. Two
requests with a cap of one put one at the cap and one past it. Three inputs let a run
merge two and leave one. Two commands let a refusal known at once meet a receipt
in flight. `turn` reads two records: each pair of a failure with
anything that could overrule it. Its kinds are identity, message, a question, a
garbled line, a delimiter, a wall, an overflow, a final and a provisional
failure, and a credential failure on stderr; the other kinds of stderr line and
the terminal record are covered by the theorems, which hold for any set of
records. One native request, held for one poll or until its own deadline of two,
meets every answer of a helper and of its one replacement. `channel` has lines
below, at and above a bound of three with a head of two. `run` takes every pair of
options because a rule relates two. `store` lets two half lines, or one edit, come
between any two steps of two reads, and on pi three edits, so that a file can be
changed in place and put back. `run` has two events: one told and one not, or skipped.

Deadlock is checked where the instance ends in a step of its own (`Done`, `Over`).
It is off in `json`, `json_gone`, `turn`, `channel`, `run` and `store`, where the
instance may really stop: a harness may hang with nobody closing it, a consumer may
have gone, a stream is finite, a plan ends.

Restrictions stated in properties: `TurnsInv` is about sessions that have not
stalled, `OutputBelongs` of claude about sessions without walls and breaking pipes,
`FlagOnce` leaves out an `access` preset from a file, the ladder is checked without
native refusals, `TurnBacked` without lost inputs, and `ReadTruthful` without bytes put
back under an unsnapshotted read (`restored`): otherwise the code does what
section 8 says.

## 6. Proofs

For every value of the constants, from the assumptions named in the modules
(counts are naturals, flags are Boolean, the low mark is at least 1 and at most
one above the high mark, sets of actors are finite where the code counts them).
Counts, caps, sets of records, of requests and of polls are arbitrary.

**PiSessionProofs.** `TypeCorrect`, then `WireCorrect`: `WireInv` is inductive
relative to `TypeOK`. What a reader wants is `EverySendOwed`, `OneOnWire`, the
call order and `HoldsWaitOnGate`; to be inductive they need that held sends are
registered and later than anything written (`CallOrder`), that the record
handler being suspended has settled its send before it waits
(`PumpOwesNoReceipt`), and that the gate is taken while anything is held and
freed only by an answer still to come or being handled (`GateServed`). The
step lemmas go by who acts (`WireCaller`, `WireHarness`, `WirePump`,
`WireProcess`); what frees the wire is one lemma, `WireFreed`. The corollaries are
`ReceiptsOwed`, `WireOrdered`, `HoldsServed`. `SessionImplementsContract` is the
refinement: each step is summarised as `SendsStep`, and that is a contract step
or a stutter.

The turns: `TurnsFollowRuns` is inductive relative to the types and `WireInv`, and is
claimed until a stall ends a turn, as `TurnsInv` is. A send opens one turn
(`OpensOnce`); a native run has a turn to show in (`AnswersWritten`); a turn whose
opener has no receipt meets no run, and its opener is on the wire or being refused
(`Provisional`); an accepted opener was started (`Accepted`); a suspended handler
owns the turn it will end (`PumpOwnsTurn`); the opener of a turn that is over was
answered and its run is over (`EndedForGood`). The crux is that pi hears one send at
a time: by `OneOnWire` the unanswered send it answers is the opener of the turn that
waits (`OnlyOpenerUnanswered`), so its receipt can end no other. Most steps only
touch a turn (`Touched`) and keep all of it (`TurnsKept`); handlers that end a turn
and free the gate go through `EndedOneMore`, `TurnFreed` and `TurnsHandedOn`. From it
`TurnsCorrect` and `DrainWaits`, an action property. The interrupts need
`TargetsLive`: one without an outcome has its target live. `FollowsIn` states this
and `InterruptFate` of one interrupt, so that `InterruptsKept`, `InterruptsObserved`
and `InterruptMoved` cover all steps; from it `InterruptsCorrect`. TLC checked these
inductive invariants on the instance of `pi` first.

**ClaudeSessionProofs.** `ClaudeInvariant` is the types and: turns shown are
numbered, an input is kept in one place (`Good`); a run answers inputs that were
sent (`Inputs`) and the one that goes on is the live turn's or background
(`RunInv`); the output of a shown turn is its input's (`Belongs`); a waiting request
has the live turn, the clock is paused with it, one reply (`Waits`,
`PausedWhileWaiting`, `OneReply`). Lemmas say what each board operation moves
(`Moves`, `Fresh`, `Tuned`) and how a record composes them. From it `OutputStaysHome`
and `ApprovalsHandled`. `SessionTellsFates` is the refinement of `InputFates`:
every step shifts inputs between places, sends one, or ends. `Without`, a recursive
function on sequences, is handled by a least counterexample (`WFMin`).

**QueuedSessionProofs.** `QueuedInv` relates what hcn keeps to what is still in the
two pipes. `Pipe` is stdout as hcn will decode it, so an invariant can say what the
records under way will be taken for. The harness starts runs in the order of the
inputs (`Ran`, `ToRead`), prints each run's records before the next one's and none
after its end (`InOrder`, `Ended`), and refuses only inputs no run takes (`Refusals`).
popeye and antigravity: every input hcn holds a turn for is still due, in a pipe or
in the run that goes on, and nothing under way is for an input not held (`Queued`,
`Serves`); codex: every answer under way owes a receipt, the open turn belongs to the
oldest run that has not ended, and a later run answers its first input before it
shows anything (`Steered`, `Introduced`). Both are claimed until a stall ends a turn.
A step of the harness is a move between the pipes, a step of hcn takes one record
off; the lemmas go by pipe operation (printing, reading, writing) and by board
operation. From the invariant `QueuedAttribution`. `QueuedTellsFates` is the
refinement of `InputFates`: every step leaves the fates alone (`Rests`), shifts
inputs between places (`Shifts`), sends one (`Sending`) or ends the session
(`Finishes`), and each of the four is a step of the promise or a stutter. The fate
"lost" is that of popeye's flushed inputs nobody reads (`Astray`) which the end does not
name: without a pipe that breaks, and on the other kinds, each input is told of. TLC
checked the invariant and the four forms with two and three inputs first.

**SettingsSequencerProofs.** `SequencerInvariant`: the op on the wire and the queue
are the consecutive calls not yet settled (`Line`, `Owing`), the receipts left in
order while the session is open (`InOrder`), what is on the wire names the op and
its part (`OnWire`), the part fits what was asked (`Shape`), and the tracked model
runs (`Effective`). The drain is a loop: `DrainDoes` says it settles a prefix of the
queue and then starts the next op or empties it. From it `ReceiptsSettled` and
`SettingsAreEffective`.

**SurfaceProofs, the lines of a session.** `SessionInvariant` is about `History`, the
lines out with those still queued: each command read has its answer there or is in the chain (`Reads`,
`Chained`), the answers are in order, a receipt's diagnostic is behind it, `closed`
is last, a shown question is the last turn's (`Spoken`), and the phases close one
after the other (`Closing`). One lemma, `Emission`, says what a step that emits does
to `History`. From it `LinesAreInOrder` and `AnswersAreHeard`.

**SurfaceProofs, a listing.** `ListsComplete` is of `ListSpec`, the listing and the
harness's writes, for any store, slots and prefix sizes of which the largest fits a
conversation's first line. `ListInv`: who waits for a slot is in line once (`InLine`);
a walk reads its index, its directories, then what it found (`WalkInOrder`); what was
asked for and touched by nobody is found when its directory is read, keeps its file
and its size, and has its row when its task is over (`OnItsWay`); the list is put
together when nothing is left (`ListEnds`). A slot given up may start any task in line,
so every step of a task is first shown to move that task and at most one waiting
other (`TaskMoves`).

**CommandProofs, the channel.** `ConsumerCorrect`: a sleeping iterator has nothing to
yield and nothing to end for, order is kept, it returns when all is out. The
strengthening says that a returned iterator left an empty, closed channel.
`ProducersCorrect`: the invariant `Backpressure` is inductive with the types; the
sizes rest on the cardinality theorems of the library.

**CommandProofs, a run.** `RunIsTold`: nothing is written or started while the plan is
made (`NothingDone`), the probe is the last thing a plan does, so that only its own
refusal follows it (`ProbedLast`); a turn under way has written events and at most one
`done` behind them, which agrees with its cause and exit code, and the observer has
been told each event it is sent, in order and as itself or as skipped, and the done, or
events alone once it failed (`Streams`, `Reads`). Exit code 2 says that nothing was
spawned; a probe may have preceded it only for an extension option the CLI turns out
not to have, or a resume refused on what the probe showed. TLC checked
`ListInv` and `RunInv` on the instances of `store` and `run` first.

**CommandProofs, a plan a fingerprint binds.** `SettingsAreBound`: no tier names a
session to continue (`TiersResumeNothing`), so what the fingerprint's check sees under
`resume` is the call's own id (`ComposedResumes`); a sequence of checks that finds
nothing passed each of them (`NothingFound`), so neither a latest session nor a model,
an effort or a provider is left among the options; and then every group of tokens of
Codex's and Pi's resume states the saved value or none (`RestoredArgv`, which goes
through the tables of both). `BoundInv` carries this from stage to stage; TLC checked it
on the instance of `run` first. The proof needs of a call that its harness is known and
that its arguments hold no key `resume` (`CallsAssumption`): `parseArgs` keeps what to
continue apart from the options. Of the config files nothing is assumed, a key that is
not one of `KNOWN_KEYS` is refused (`ConfigIssue`).

**CommandProofs, who may say what.** `PolicyIsKept`, for every table of calls. The options
of a planned call are a function of the call: `PlannedInv` says at each stage how they
are layered (`Own`, `Tiered`, `Slugged`, `Continuing`; `SessionTiered`, `SessionFull`) and
which checks they passed; TLC checked it on the instance of `run` first. Three parts follow
from what a layer keeps of the ones above it (`OfTwo` to `OfFive`, `LaunchedHas`,
`SessionFullHas`): `TiersHold`, `ResumesHold` and half of `SessionHolds`. The rest is about
tokens. For every harness and option key, a lemma says which tokens that key can put on a
command line (`ClaudeTold` to `PopeyeTold`, `DiscoveryTold`, `AccessTold`); the rows of the
option tables are read once (`ClaudeRows` to `PopeyeRows`). From it no session is told a
sandbox (`SessionTold`, `SessionTailTold`), and a turn or a session is granted tools by its
own list alone (`SpawnGrants`, `SessionGrants`): an access preset never comes with one,
because every path refuses the two together, and isolation takes all away
(`IsolationUses`). On a launch the list is the argument's, capped by the project's, or the
project's own (`LaunchFloor`).

**CommandProofs, what a flag says.** `FlagsAreHeard`, also from `PlannedInv`. For every
flag there is one thing it can carry, a function of the harness, the options and the
session continued: `Spelled` for plain flags, `Configured` for the entries of codex's
configuration. Every token of a call is shown to carry
just that, piece by piece: an option (`OptionHeard`), a preset (`AccessHeard`), the tools
(`ToolsHeard`), the tail (`TailHeard`, `SessionTailHeard`), a continued session
(`ContinueHeard`) and the saved settings restated on a resume (`SavedHeard`), which are
restated only where the options leave them unsaid (`Unstated`). It takes that no choice
competes with a preset, with isolation or with the scopes of claude's settings (`Clean`); the checks
of each path give that (`TurnIsClean`, `SessionIsClean`, `LaunchAlone`). The flags a
harness takes once per thing, `-e` and `--disable`, and a preset from a config file are
left out, as in the property.

**TurnProofs, the turn.** `TurnTyped`; then `TurnInv`, whose parts are: nothing
happens before the spawn (`NotBegun`); the verdict is formed over a finished
process (`AfterDrain`); no clock runs on that could stop a turn twice (`Clocks`);
what is recorded is what is shown (`Recorded`); whatever went wrong and was not
taken back is recorded or will be when the stream ends (`Accounted`); the verdict
is the one the final state gives (`Settled`). From it `OneReasonToStop`,
`VerdictIsWhatWasShown` and `CleanTurnIsClean`. That a reduction picks a
strongest failure (`StrongestWins`) uses well-foundedness of the ranks.

**TurnProofs, the observer.** `ObservedTurnIsATurn`: a muse turn with its observer is a
behaviour of `StreamTurn`, so its theorems hold of the composed module
(`ObservedVerdict`, `ObservedCleanTurn`, `ObservedReason`). `ObserverTruthful` is the
observer's own invariant, for any requests and polls. `StoppedForTheReason` joins
the two: a turn stopped for an approval was stopped for what was reported.

**ApprovalTurnProofs.** `ApprovalInv` is the types and: the stage of the protocol
says what is known of the prompt (`Staged`); the requests the code has yet to show
are those in its buffer, once each, and a shown one that waits belongs to a running
turn (`Asked`); codex is answered once, and a decision's receipt is the one recorded
for it (`Answered`, `OneAnswer`); the clock is paused while a person is awaited
(`RequestsInv`); the cause fits the evidence (`Verdict`). The buffer's lemmas say
what appending, replaying and clearing do to the requests it names. `Goes` and
`Onward` say what any step does to the turn and to the requests, so that the
histories are preserved once for all actions. From it `AnsweredOnce`,
`EvidenceHolds`, `RequestsHeld` and `CleanHolds`.

In every module a choice where more than one guard may hold is an IF chain in the
order of the code: a CASE whose guards overlap leaves the choice open, which TLC's
runs do not show and a proof does.

## 7. Only model-checked

All liveness (`SessionProgress`, `OpsSettle`,
`ClosesCleanly`, `CloseEnds`, `EndsInOrder`, `ChannelProgress`, `StopEnds`, `TurnEnds`,
`CommandEnds`): fairness is outside the prover.

`ConversationExact` and `OutputWhole` say what folds, selections and recursive definitions compute (`FoldSeq`, `SelectSeq`, torn
characters) over tables, which needs induction over data.

`ReadTruthful` is about reads under which no byte changed in place is put back
(`restored`), unless a clone is read: a capture is compared with the file a second
time, chunk by chunk, and its times are not looked at, so rewrites that undo each other
between the looks show both passes the same mixture (TLC finds it with three, without
the restriction). `docs/transcripts.md:80` says the checks are no snapshot against
such writers.

`GoneExits` is violated.

## 8. Disagreements with the documentation

**A run shows it.** `json_gone`: a line that fills the pipe parks the writer until
`drain`. If the consumer goes away first, no drain comes, the pumps and the end of
`runJsonSession` wait for it, and the program does not exit. The comment at
`src/src/cli/session-json.ts:204-205` and `src/docs/reference.md:763-765` say
that the session closes and exits 1.

**Met while modelling, no run.** Sessions:

- `open-session.ts:1654`: records read after the exit can open a turn and arm the
  stall clock of a dead process; its cause then says stall (comment 1652-1653).
- `open-session.ts:1696`: without `--stall`, a draining close waits for ever on a
  harness that never answers (comments 1683-1685).
- `open-session.ts:1229`: a receipt read after a stall ended its turn opens a
  second turn (`docs/reference.md:723-724`); on the queued kinds the next input's
  turn opens while the stalled run goes on, and its output lands there.
- `open-session.ts:1507`: a send delivered but unanswered is rejected as closed;
  claude's inputs at 954 likewise (`docs/reference.md:714-715`).
- `open-session.ts:916`: input pushed back is offered behind newer input (comment 913).
- `open-session.ts:1002`: an error observed locally (a wall, a broken pipe) shows a
  private turn before the harness said whose run comes next; background output then
  lands in it (comment 997-999).
- `open-session.ts:896-907`: on popeye and antigravity a session that closes with an
  accepted send queued does not promote it; its output is parked and dropped
  (contrast comment 1667-1673).
- `open-session.ts:1090-1116`: on codex and popeye a close before the identity ends
  stdin at once, and the buffered sends are written to the ended pipe
  (`docs/reference.md`, "One send, then close"); a popeye send whose flush throws was
  told started and is named by no event.
- `open-session.ts:369-372`: a codex session never gets memory switched off:
  `buildSessionArgv` takes no `memory`, though `hcn session` prints it as off by
  profile (`docs/reference.md:617-620`).
- `session-settings-sequencer.ts:206-210`: after a partial rejection the model that did
  change is not tracked (comments 206-209, 262-268, `open-session.ts:512-514`); `:402`
  sweeps queued ops before the one in flight (212-213); `:254` writes after stdin ended
  (`open-session.ts:1702-1704`).
- `session-json.ts:461`: an input acknowledged as started and lost with the session
  gets a second disposition (`docs/reference.md:697-698`).
- `cli/session.ts:694-704`: the end of input, or a signal, at the answer menu loops
  for ever (contrast comments 660 and 675).
- `cli/args.ts:499-586`: `hcn session` parses and ignores `--system-prompt`,
  `--extension`, `--max-steps`, `--timeout`, `--prompt`, positionals and others
  (`session.ts:38-39`), and does not refuse `--setting-sources` beside
  `--no-extensions` (`docs/reference.md:40`).

Turns:

- `stream-turn.ts:781`: a limit read while an aborted or timed-out turn shuts down
  makes the cause `limit` (comment 547-549); a question asked by a turn that then
  timed out with exit 0 gives `awaiting-input` with a failure (789-791, 807).
- `muse-approvals.ts`, `unreadable()` and `receive()`: before `initialized`, an
  unreadable line of a helper clears the start timer and sends `initialize` again
  under a new id. `:56-62`, `:411-414`: the wait for a request with
  `autoResolutionMs` is capped at 300 polls, and an escalated one reports at once
  (`docs/reference.md:602-603` says never before its deadline plus a margin).
- `interpretation/transcript/codex.ts:176-187`, `:206`: codex tool calls are told as kind
  "unknown" with a null role.

Options and run:

- `resolve-options.ts:272-283`, `:343-469`: `access` from a configuration file
  escapes the exclusions and the tier it should yield to: on codex `--sandbox` is
  rendered twice, with two values (`docs/reference.md:343`).
- `plan-turn.ts:389-418`: the project's floor of tools is not enforced when a session
  is resumed (`docs/reference.md:215-217`).
- antigravity takes `--tools ""` and `native:x` and renders nothing (documented for
  claude, pi and popeye). `--memory --no-memory` is refused as an unknown flag. The
  tables that look for a prompt given as an option's value miss `--system-prompt`,
  `--append-system-prompt`, `--skills` and `--timeout`.
- `output-errors.ts`: `hcn run | head` exits 0 at once, also after an interrupt, and
  leaves the child running.

Transcripts:

- `transcript/list.ts:102-145`: a missing index of antigravity makes the helper exit
  3, an error without `code`, so the walk fails instead of being empty (comment 136);
  the siblings of the index are not checked again after the clone.
