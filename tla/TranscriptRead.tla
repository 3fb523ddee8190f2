--------------------------- MODULE TranscriptRead ---------------------------
(***************************************************************************)
(* "hcn transcript read": one conversation captured from its store, checked*)
(* and written out as a source line, records and a result line, and the    *)
(* reads that continue from its bookmark. The store keeps changing while   *)
(* the reader awaits the file system, the snapshot helper or its output.   *)
(***************************************************************************)
EXTENDS TranscriptStore

CONSTANTS
  Requests,     \* the first requests made: [h, by, limit, interrupts]
  MaxReads,     \* reads of one chain, at most
  Chunk,        \* bytes one file read returns, at most (1 MiB)
  HelperEnds,   \* how the snapshot helper may end besides cloning
  MayStick      \* whether closing a file may fail or hang

None == << >>

VARIABLES
  at,          \* the step of readTranscript the reader is in
  request,     \* [by, limit, interrupts, since]
  walk,        \* [place, found]: the directories listed, the paths seen
  current,     \* the source being captured
  captured,    \* the sources captured, the requested one first
  held,        \* the files opened, each open, stuck, closed or failed
  helper,      \* the snapshot helper
  workspace,   \* whether the snapshot's temporary directory exists
  aborted,
  issue,
  result,      \* the result being put together
  lines,       \* lines written
  exit,        \* the exit code, -1 before
  reads,       \* reads begun
  taken,       \* what a consumer following the bookmarks has
  instants,    \* what the store said at each instant of this read
  restored     \* whether a write in place put back what the read had seen change

readVars ==
  << at, request, walk, current, captured, held, helper, workspace, aborted, issue,
     result, lines, exit, reads, taken, instants, restored >>

Snapshots == h \in {"claude", "muse", "cursor", "antigravity"}
Ancestry == h = "codex"
QuietSiblings == h # "cursor" \/ log = NoLog   \* no write-ahead log beside it

NoResult == [status |-> "failed", records |-> << >>, bookmark |-> None, more |-> FALSE,
             branch |-> -1, input |-> "absent"]
Capture(path, cutoff) ==
  [path |-> path, cutoff |-> cutoff, file |-> Nothing, size |-> 0, bytes |-> << >>,
   checked |-> 0, named |-> Nothing, namedSize |-> 0]

ReadsStart(req) ==
  /\ request' = req /\ walk' = [place |-> 1, found |-> {}]
  /\ current' = Capture(<< "first", "child", "jsonl" >>, 0)
  /\ captured' = << >> /\ held' = << >> /\ helper' = "none" /\ workspace' = FALSE
  /\ issue' = "" /\ result' = [NoResult EXCEPT !.input =
                                 IF req.since = None THEN "absent" ELSE "not-checked"]
  /\ lines' = 0 /\ exit' = -1
  /\ at' = IF req.by = "file" THEN "before" ELSE "resolve"

Fail(why) == issue' = why /\ at' = "cleanup"

Goes(step) == at' = step /\ issue' = issue

\* checkAbort: the step goes on unless the caller interrupted.
Unless(step) == IF aborted THEN Fail("interrupted") ELSE Goes(step)

(***************************************************************************)
(* nativeResolver. An id is looked for in one directory after another;     *)
(* antigravity's names its path. A lineage lists the directories once.     *)
(***************************************************************************)
Order == << "first", "second" >>
Matches(id, paths) == {p \in paths : p[2] = id}

\* Resolved to a path, or why not.
Choose(id, paths) ==
  CASE Cardinality(Matches(id, paths)) > 1 -> Fail("source-ambiguous") /\ UNCHANGED current
    [] Matches(id, paths) = {} -> Fail("source-not-found") /\ UNCHANGED current
    [] OTHER -> /\ current' = Capture(CHOOSE p \in Matches(id, paths) : TRUE, 0)
                /\ Goes("before")

Locate ==
  /\ at = "resolve" /\ h = "antigravity"
  /\ Goes("before")
  /\ UNCHANGED << request, walk, current, captured, held, helper, workspace, result,
                  lines, exit, reads >>

ListPlace ==
  /\ at = "resolve" /\ h # "antigravity" /\ walk.place <= Len(Order)
  /\ LET listed == {p \in Named : p[1] = Order[walk.place]}
         found == walk.found \union listed
     IN /\ walk' = [place |-> walk.place + 1, found |-> found]
        /\ IF aborted /\ listed # {} THEN Fail("interrupted") /\ UNCHANGED current
           ELSE IF ~Ancestry /\ Cardinality(Matches("child", found)) > 1
             THEN Fail("source-ambiguous") /\ UNCHANGED current
           ELSE IF walk.place = Len(Order) THEN Choose("child", found)
           ELSE Goes("resolve") /\ UNCHANGED current
  /\ UNCHANGED << request, captured, held, helper, workspace, result, lines, exit, reads >>

(***************************************************************************)
(* captureSource.                                                          *)
(***************************************************************************)
CheckBefore ==
  /\ at = "before"
  /\ IF current.path[3] = "zst" \/ ~QuietSiblings THEN Fail("guarantee-unmet")
     ELSE Goes(IF Snapshots THEN "mkdtemp" ELSE "open")
  /\ UNCHANGED << request, walk, current, captured, held, helper, workspace, result,
                  lines, exit, reads >>

Open ==
  /\ at = "open"
  /\ IF names[current.path] = Nothing
       THEN Fail("source-not-found") /\ UNCHANGED << current, held >>
       ELSE /\ current' = [current EXCEPT !.file = names[current.path]]
            /\ held' = Append(held, "open")
            /\ Unless("stat")
  /\ UNCHANGED << request, walk, captured, helper, workspace, result, lines, exit, reads >>

\* The helper is started in a directory of its own.
StartClone ==
  /\ at = "mkdtemp"
  /\ IF aborted THEN Fail("interrupted") /\ UNCHANGED << helper, workspace >>
     ELSE \/ helper' = "running" /\ workspace' = TRUE /\ Goes("clone")
          \/ /\ "unavailable" \in HelperEnds
             /\ Fail("guarantee-unmet") /\ UNCHANGED << helper, workspace >>
  /\ UNCHANGED << request, walk, current, captured, held, result, lines, exit, reads >>

\* The helper clones the file at one instant (external), or cannot.
HelperClones ==
  /\ helper = "running"
  /\ IF names[current.path] = Nothing
       THEN helper' = "exit-3" /\ UNCHANGED current
       ELSE /\ current' = [current EXCEPT !.bytes =
                             IF h = "cursor" THEN db ELSE contents[names[current.path]]]
            /\ helper' = "exit-0"
  /\ UNCHANGED << at, issue, request, walk, captured, held, workspace, result, lines,
                  exit, reads >>

HelperFails ==
  /\ helper = "running"
  /\ \E code \in HelperEnds \ {"unavailable"} : helper' = code
  /\ UNCHANGED << at, issue, request, walk, current, captured, held, workspace, result,
                  lines, exit, reads >>

HelperDies ==
  /\ helper = "killed" /\ helper' = "gone"
  /\ UNCHANGED << at, issue, request, walk, current, captured, held, workspace, result,
                  lines, exit, reads >>

Exited == helper \in {"exit-0", "exit-1", "exit-3", "exit-4", "gone"}

CloneEnds ==
  /\ at = "clone" /\ Exited
  /\ IF helper = "exit-0" THEN held' = Append(held, "open") /\ Unless("stat") /\ UNCHANGED workspace
     ELSE /\ Fail(CASE helper = "exit-3" -> "source-not-found"
                    [] helper = "exit-4" -> "source-inaccessible"
                    [] OTHER -> "guarantee-unmet")
          /\ workspace' = FALSE /\ UNCHANGED held
  /\ UNCHANGED << request, walk, current, captured, helper, result, lines, exit, reads >>

\* The acquisition timer or the caller gives up on the helper: it is killed,
\* and its end awaited for the cleanup time.
GiveUpClone(why) ==
  /\ at = "clone" /\ issue' = why /\ at' = "reap"
  /\ helper' = IF Exited THEN helper ELSE "killed"
  /\ UNCHANGED << request, walk, current, captured, held, workspace, result, lines, exit,
                  reads >>
AcquisitionTimeout == GiveUpClone("native-read-failed")
InterruptClone == aborted /\ GiveUpClone("interrupted")

\* It ended, or the cleanup timer ran out; the directory goes either way.
Reap ==
  /\ at = "reap"
  /\ workspace' = FALSE /\ at' = "cleanup"
  /\ UNCHANGED << issue, request, walk, current, captured, held, helper, result, lines,
                  exit, reads >>

Stat ==
  /\ at = "stat"
  /\ LET size == Len(contents[current.file])
         wanted == IF current.cutoff = 0 THEN size ELSE current.cutoff
     IN IF Snapshots THEN Goes("after") /\ UNCHANGED current
        ELSE IF current.cutoff > size THEN Fail("guarantee-unmet") /\ UNCHANGED current
        ELSE /\ current' = [current EXCEPT !.size = size, !.cutoff = wanted]
             /\ Goes("fetch")
  /\ UNCHANGED << request, walk, captured, held, helper, workspace, result, lines, exit,
                  reads >>

\* A piece of the file from an offset, at most Chunk long.
Piece(file, from, upto) ==
  SubSeq(contents[file], from + 1,
         Min({from + Chunk, upto, Len(contents[file])}))

Fetch ==
  /\ at = "fetch"
  /\ LET piece == Piece(current.file, Len(current.bytes), current.cutoff)
         bytes == current.bytes \o piece
     IN IF Len(bytes) = current.cutoff
          THEN current' = [current EXCEPT !.bytes = bytes] /\ Goes("recheck")
          ELSE IF piece = << >> THEN Fail("source-changed") /\ UNCHANGED current
          ELSE current' = [current EXCEPT !.bytes = bytes] /\ Goes("fetch")
  /\ UNCHANGED << request, walk, captured, held, helper, workspace, result, lines, exit,
                  reads >>

(***************************************************************************)
(* verifySource: the bytes are compared with the file again, then what its *)
(* name and what its handle mean is looked at.                             *)
(***************************************************************************)
Same(c, piece) == piece = SubSeq(c.bytes, c.checked + 1, Min({c.checked + Chunk, Len(c.bytes)}))

\* Mutant: the bytes are not compared again.
Recheck_Blind ==
  /\ at \in {"recheck", "recheck-all"} /\ Unless(IF at = "recheck" THEN "name" ELSE "name-all")
  /\ UNCHANGED << request, walk, current, captured, held, helper, workspace, result, lines,
                  exit, reads >>

Recheck ==
  /\ at \in {"recheck", "recheck-all"}
  /\ LET piece == Piece(current.file, current.checked, Len(current.bytes))
         checked == current.checked + Chunk
     IN IF current.checked < Len(current.bytes) /\ ~Same(current, piece)
          THEN Fail("source-changed") /\ UNCHANGED current
          ELSE /\ current' = [current EXCEPT !.checked = checked]
               /\ Unless(IF checked < Len(current.bytes) THEN at
                         ELSE IF at = "recheck" THEN "name" ELSE "name-all")
  /\ UNCHANGED << request, walk, captured, held, helper, workspace, result, lines, exit,
                  reads >>

LookUpName ==
  /\ at \in {"name", "name-all"}
  /\ LET file == names[current.path] IN
     IF file = Nothing THEN Fail("source-changed") /\ UNCHANGED current
     ELSE /\ current' = [current EXCEPT !.named = file, !.namedSize = Len(contents[file])]
          /\ Goes(IF at = "name" THEN "handle" ELSE "handle-all")
  /\ UNCHANGED << request, walk, captured, held, helper, workspace, result, lines, exit,
                  reads >>

Replaced(c) ==
  \/ Len(contents[c.file]) < c.size
  \/ c.namedSize < Len(c.bytes)
  \/ c.named # c.file

\* The sources, oldest first, once the lineage is whole.
Lineage == Reverse(captured)

LookUpHandle ==
  /\ at = "handle"
  /\ IF Replaced(current) THEN Fail("source-changed") ELSE Unless("after")
  /\ UNCHANGED << request, walk, current, captured, held, helper, workspace, result,
                  lines, exit, reads >>

\* In the second round the sources are checked one after another.
LookUpHandleAgain ==
  /\ at = "handle-all"
  /\ LET rest == {i \in DOMAIN Lineage : i > walk.place} IN
     IF Replaced(current) THEN Fail("source-changed") /\ UNCHANGED << current, walk >>
     ELSE IF aborted THEN Fail("interrupted") /\ UNCHANGED << current, walk >>
     ELSE IF rest = {} THEN Goes("finish") /\ UNCHANGED << current, walk >>
     ELSE /\ walk' = [walk EXCEPT !.place = Min(rest)]
          /\ current' = [Lineage[Min(rest)].source EXCEPT !.checked = 0]
          /\ Goes("recheck-all")
  /\ UNCHANGED << request, captured, held, helper, workspace, result, lines, exit, reads >>

(***************************************************************************)
(* The rest of captureSource, and captureSources: framing, parsing, and    *)
(* the base a codex rollout continues.                                     *)
(***************************************************************************)
Framed(c) == IF h = "cursor" THEN Bytes(FrameCursorStore(c.path[2], c.bytes)) ELSE c.bytes

\* Why a captured source is refused; base is what led to it, if anything.
Refused(c, base) ==
  LET bytes == Framed(c)
      said == Lines(bytes)
      conv == Conversation(h, said, c.path[2])
  IN IF h = "cursor" /\ FrameRefusal(c.bytes) # "" THEN FrameRefusal(c.bytes)
     ELSE IF base # NoBase /\ CompleteBytes(bytes) # base.offset THEN "guarantee-unmet"
     ELSE IF Refusal(h, said) # "" THEN Refusal(h, said)
     ELSE IF base = NoBase /\ request.by = "id" /\ conv # "child" THEN "source-identity-mismatch"
     ELSE IF base # NoBase /\ conv # base.conv THEN "source-identity-mismatch"
     ELSE IF base # NoBase /\ ~PrefixFits(said, base) THEN "guarantee-unmet"
     ELSE ""

\* The base the capture in hand was made for.
SoughtBase ==
  IF captured = << >> THEN NoBase ELSE Base(h, captured[Len(captured)].lines)

Source(c) ==
  LET bytes == Framed(c)
      said == Lines(bytes)
  IN [source |-> c, bytes |-> bytes, lines |-> said,
      conv |-> Conversation(h, said, c.path[2]), entries |-> Entries(h, said)]

FollowBase(sources) ==
  LET base == Base(h, sources[Len(sources)].lines)
      matches == Matches(base.conv, walk.found)
  IN IF base = NoBase
       THEN IF Len(sources) > 1
              THEN /\ walk' = [walk EXCEPT !.place = 1]
                   /\ current' = [sources[Len(sources)].source EXCEPT !.checked = 0]
                   /\ Goes("recheck-all")
              ELSE Goes("finish") /\ UNCHANGED << current, walk >>
       ELSE IF \E i \in DOMAIN sources : sources[i].conv = base.conv
         THEN Fail("guarantee-unmet") /\ UNCHANGED << current, walk >>
       ELSE IF Cardinality(matches) # 1
         THEN /\ Fail(IF matches = {} THEN "source-not-found" ELSE "source-ambiguous")
              /\ UNCHANGED << current, walk >>
       ELSE /\ current' = Capture(CHOOSE p \in matches : TRUE, base.offset)
            /\ Goes("before") /\ UNCHANGED walk

CheckAfter ==
  /\ at = "after"
  /\ LET why == Refused(current, SoughtBase) IN
     IF ~QuietSiblings THEN Fail("guarantee-unmet") /\ UNCHANGED << captured, current, walk >>
     ELSE IF aborted THEN Fail("interrupted") /\ UNCHANGED << captured, current, walk >>
     ELSE IF why # "" THEN Fail(why) /\ UNCHANGED << captured, current, walk >>
     ELSE /\ captured' = Append(captured, Source(current))
          /\ FollowBase(Append(captured, Source(current)))
  /\ UNCHANGED << request, held, helper, workspace, result, lines, exit, reads >>

(***************************************************************************)
(* The result: the bookmark given is checked against the bytes read, the   *)
(* entries after it are taken up to the limit, and the next bookmark says  *)
(* how far that went.                                                      *)
(***************************************************************************)
SumUp(numbers) == FoldLeft(+, 0, numbers)

AllEntries(sources) ==
  FlattenSeq([i \in DOMAIN sources |->
    [j \in DOMAIN sources[i].entries |-> [entry |-> sources[i].entries[j], source |-> i]]])

\* Where the n-th entry of a source begins, its complete end after the last.
OffsetOf(source, n) ==
  IF n < Len(source.entries) THEN 2 * (n + (IF Headed(h) THEN 1 ELSE 0))
  ELSE CompleteBytes(source.bytes)

\* How many of the first count entries are in each source.
Consumed(sources, count) ==
  [i \in DOMAIN sources |->
     LET before == SumUp([j \in 1 .. (i - 1) |-> Len(sources[j].entries)])
     IN Max({0, Min({count - before, Len(sources[i].entries)})})]

Boundaries(sources, count) ==
  [i \in DOMAIN sources |-> OffsetOf(sources[i], Consumed(sources, count)[i])]

\* The digest of a prefix is taken to be the prefix itself.
DigestThrough(sources, count) ==
  [i \in DOMAIN sources |->
     [conv |-> sources[i].conv, boundary |-> Boundaries(sources, count)[i],
      bytes |-> SubSeq(sources[i].bytes, 1, Boundaries(sources, count)[i])]]

Bookmark(sources, count) ==
  [conv |-> sources[Len(sources)].conv, entries |-> count,
   offset |-> SumUp(Boundaries(sources, count)), digest |-> DigestThrough(sources, count)]

\* Mutant: only how far the bookmark went is looked at.
Continues_Extent(bookmark, sources) ==
  /\ bookmark.conv = sources[Len(sources)].conv
  /\ bookmark.entries <= Len(AllEntries(sources))
  /\ bookmark.offset = SumUp(Boundaries(sources, bookmark.entries))

Continues(bookmark, sources) ==
  /\ bookmark.conv = sources[Len(sources)].conv
  /\ bookmark.entries <= Len(AllEntries(sources))
  /\ bookmark.offset = SumUp(Boundaries(sources, bookmark.entries))
  /\ bookmark.digest = DigestThrough(sources, bookmark.entries)

Finish ==
  /\ at = "finish"
  /\ LET all == AllEntries(Lineage)
         start == IF request.since = None THEN 0 ELSE request.since.entries
         end == IF request.limit = 0 THEN Len(all) ELSE Min({Len(all), start + request.limit})
     IN IF request.since # None /\ ~Continues(request.since, Lineage)
          THEN /\ result' = [result EXCEPT !.input = "invalid"]
               /\ Fail("fresh-read-required")
          ELSE /\ result' =
                    [status |-> "complete", bookmark |-> Bookmark(Lineage, end),
                     records |-> [i \in 1 .. (end - start) |->
                                    Record(h, all[start + i].entry)],
                     more |-> end < Len(all), branch |-> Branch(h, captured[1].entries),
                     input |-> IF request.since = None THEN "absent" ELSE "verified"]
               /\ Goes("cleanup")
  /\ UNCHANGED << request, walk, current, captured, held, helper, workspace, lines, exit,
                  reads >>

(***************************************************************************)
(* Cleanup: every file is closed, a snapshot's directory with it, within   *)
(* the cleanup time; then what the caller did meanwhile is looked at.      *)
(***************************************************************************)
CloseFile(i) ==
  /\ at = "cleanup" /\ i \in DOMAIN held /\ held[i] = "open"
  /\ \/ held' = [held EXCEPT ![i] = "closed"] /\ workspace' = FALSE
     \/ /\ MayStick /\ held' = [held EXCEPT ![i] = "failed"]
        /\ UNCHANGED workspace
  /\ UNCHANGED << at, issue, request, walk, current, captured, helper, result, lines, exit,
                  reads >>

Failed(why) ==
  issue' = why /\ result' = [result EXCEPT !.status = "failed", !.bookmark = None]

\* Cleanup over, with or without everything closed.
Closed(clean) ==
  LET cleaned == IF clean \/ issue # "" THEN issue ELSE "cleanup-failed"
      final == IF aborted THEN "interrupted" ELSE cleaned
  IN /\ IF final # "" THEN Failed(final) ELSE UNCHANGED << issue, result >>
     /\ at' = "write"
     /\ UNCHANGED << request, walk, current, captured, held, helper, workspace, lines, exit,
                     reads >>

CleanupEnds ==
  /\ at = "cleanup" /\ \A i \in DOMAIN held : held[i] # "open"
  /\ Closed(\A i \in DOMAIN held : held[i] = "closed")

CleanupTimeout ==
  /\ at = "cleanup" /\ MayStick /\ \E i \in DOMAIN held : held[i] = "open"
  /\ Closed(FALSE)

(***************************************************************************)
(* The lines are written one after another; an interruption not yet        *)
(* reported stops them.                                                    *)
(***************************************************************************)
Total == Len(result.records) + 2

\* What the caller of the command then has.
Delivered ==
  /\ exit' = IF issue = "" /\ ~aborted THEN 0 ELSE 1
  /\ taken' = IF exit' = 0 THEN taken \o result.records
              ELSE IF issue = "fresh-read-required" THEN << >> ELSE taken

WriteLine ==
  /\ at = "write"
  /\ IF lines > 0 /\ aborted /\ issue # "interrupted"
       THEN at' = "done" /\ exit' = 1 /\ UNCHANGED << taken, issue, lines >>
       ELSE /\ lines' = lines + 1 /\ UNCHANGED issue
            /\ IF lines' = Total THEN at' = "done" /\ Delivered
               ELSE at' = "write" /\ UNCHANGED << exit, taken >>
  /\ UNCHANGED << request, walk, current, captured, held, helper, workspace, result, reads >>

Interrupt ==
  /\ request.interrupts /\ ~aborted /\ at # "done" /\ aborted' = TRUE

(***************************************************************************)
(* The consumer reads on from the bookmark, or, told to, from the start.   *)
(***************************************************************************)
ReadOn ==
  /\ at = "done" /\ reads < MaxReads
  /\ \E limit \in {0, 1} :
       ReadsStart([by |-> request.by, limit |-> limit, interrupts |-> FALSE,
                   since |-> IF exit = 0 THEN result.bookmark
                             ELSE IF issue = "fresh-read-required" THEN None
                             ELSE request.since])
  /\ aborted' = FALSE /\ reads' = reads + 1

ReadInit ==
  \E r \in Requests :
    /\ r.h = h
    /\ request = [by |-> r.by, limit |-> r.limit, interrupts |-> r.interrupts, since |-> None]
    /\ walk = [place |-> 1, found |-> {}]
    /\ current = Capture(<< "first", "child", "jsonl" >>, 0)
    /\ captured = << >> /\ held = << >> /\ helper = "none" /\ workspace = FALSE
    /\ issue = "" /\ result = NoResult /\ lines = 0 /\ exit = -1
    /\ at = IF r.by = "file" THEN "before" ELSE "resolve"
    /\ aborted = FALSE /\ reads = 1 /\ taken = << >> /\ instants = {View}
    /\ restored = FALSE

ReaderSteps ==
  \/ Locate \/ ListPlace \/ CheckBefore \/ Open \/ StartClone \/ CloneEnds
  \/ AcquisitionTimeout \/ InterruptClone \/ Reap \/ Stat \/ Fetch \/ Recheck
  \/ LookUpName \/ LookUpHandle \/ LookUpHandleAgain \/ CheckAfter \/ Finish
  \/ CleanupEnds \/ CleanupTimeout

HelperSteps == HelperClones \/ HelperFails \/ HelperDies

Closes == \E i \in DOMAIN held : CloseFile(i)

\* What the reader goes on doing by itself; the helper and a close may hang.
ReadGoesOn ==
  \/ ReaderSteps /\ UNCHANGED << aborted, taken, instants, restored, storeVars >>
  \/ WriteLine /\ UNCHANGED << aborted, instants, restored, storeVars >>

Reads ==
  \/ ReadGoesOn
  \/ (HelperSteps \/ Closes) /\ UNCHANGED << aborted, taken, instants, restored, storeVars >>
  \/ /\ Interrupt
     /\ UNCHANGED << at, request, walk, current, captured, held, helper, workspace, issue,
                     result, lines, exit, reads, taken, instants, restored, storeVars >>
  \/ ReadOn /\ instants' = {View} /\ restored' = FALSE /\ UNCHANGED << taken, storeVars >>

\* A file changed in place, to hold again what the read saw there before.
Restores ==
  \E p \in Named : names'[p] = names[p] /\
    LET was == contents[names[p]]
        now == contents'[names[p]]
    IN \E i \in DOMAIN now :
         /\ i \in DOMAIN was => now[i] # was[i]
         /\ \E seen \in instants : \E q \in DOMAIN seen : i \in DOMAIN seen[q] /\ seen[q][i] = now[i]

\* The store changes under the read. What happens to it once the sources are
\* captured is as if it happened after the read, and after the last read
\* nothing does.
Disturbs ==
  /\ at \notin {"finish", "cleanup", "write"} /\ (at = "done" => reads < MaxReads)
  /\ Writes
  /\ IF at = "done" THEN UNCHANGED << instants, restored >>
     ELSE instants' = instants \union {View'} /\ restored' = (restored \/ Restores)
  /\ UNCHANGED << at, request, walk, current, captured, held, helper, workspace, aborted,
                  issue, result, lines, exit, reads, taken >>

(***************************************************************************)
(* Properties.                                                             *)
(***************************************************************************)
Told == result.status = "complete"

(* A read that is told complete is one view of the store: at some instant  *)
(* of the read every source was found where it was read, holding what was  *)
(* read of it, whatever the harness wrote, replaced, moved or checkpointed *)
(* meanwhile. Where the file is read itself, not a clone of it, this holds *)
(* only of writers that do not change bytes in place and put them back     *)
(* between two looks at them: the checks are no snapshot.                  *)
ReadIsView ==
  Told /\ (restored => Snapshots) => \E seen \in instants : \A i \in DOMAIN captured :
            /\ captured[i].source.path \in DOMAIN seen
            /\ IsPrefix(captured[i].bytes, seen[captured[i].source.path])

(* A consumer that follows the bookmarks, and starts afresh when told to,  *)
(* has after each read the first entries of the conversation as it is then *)
(* read: none twice, none skipped, none of a conversation since rewritten; *)
(* and the entry told selected is one of that conversation.                *)
ContinuationExact ==
  at = "done" /\ exit = 0 =>
    /\ Len(taken) = result.bookmark.entries
    /\ [i \in DOMAIN taken |-> taken[i].line] =
         [i \in 1 .. result.bookmark.entries |-> AllEntries(Lineage)[i].entry]
    /\ result.branch # -1 =>
         \E i \in DOMAIN AllEntries(Lineage) : AllEntries(Lineage)[i].entry.id = result.branch

(* The command exits 0 only when it wrote every line it had, and left no   *)
(* file open, no snapshot directory and no snapshot helper behind.         *)
CleanExit ==
  exit = 0 =>
    /\ ~workspace /\ helper \notin {"running", "killed"}
    /\ \A i \in DOMAIN held : held[i] = "closed"
    /\ Told /\ lines = Len(result.records) + 2

(* Whatever the harness, a prompt is told as a message of the user, a      *)
(* reply as one of the assistant, and a tool's result as one, of the tool, *)
(* answering a call an earlier record of the conversation makes. (A call   *)
(* is a record of no kind and nobody's for codex, so nothing is said of    *)
(* that.)                                                                  *)
SpeaksAlike ==
  at = "done" => \A i \in DOMAIN taken :
    LET said == taken[i] IN
    CASE said.line.event = "prompt" -> said.kind = "message" /\ said.role = "user"
      [] said.line.event = "reply" -> said.kind = "message" /\ said.role = "assistant"
      [] said.line.event = "call" -> "tool-call" \in said.parts
      [] said.line.event = "result" ->
           /\ said.kind = "tool-result" /\ said.role = "tool"
           /\ NamesCalls(h) => said.answers # {}
           /\ said.answers \subseteq UNION {taken[j].makes : j \in 1 .. (i - 1)}
      [] OTHER -> TRUE

(* A read that ends well says what the store held, unless what was changed *)
(* under it was put back meanwhile, and leaves nothing behind.             *)
ReadTruthful == ReadIsView /\ CleanExit

(* The records told are those of the conversation, each in its role.       *)
ConversationExact == ContinuationExact /\ SpeaksAlike
=============================================================================
