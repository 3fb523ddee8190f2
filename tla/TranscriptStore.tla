--------------------------- MODULE TranscriptStore ---------------------------
(***************************************************************************)
(* A harness's store of saved conversations, and the harness writing in it *)
(* while hcn reads: lines appended a half at a time, files rewritten in    *)
(* place, replaced, moved, compressed or removed, and for cursor commits   *)
(* that wait in a write-ahead log until a checkpoint copies them a page at *)
(* a time. All of it is the harness's doing (external); hcn only reads.    *)
(***************************************************************************)
EXTENDS TranscriptFormats

CONSTANTS
  Stores,      \* the stores hcn may find: [h, names, files, db, appends, edits]
  Script,      \* what happens in a conversation, in order
  MaxAppends,  \* half lines appended, commits made, at most
  MaxEdits     \* files rewritten, replaced, moved or removed, at most

Nothing == 0
Places == {"first", "second"}      \* the directories an id is looked for in
Conversations == {"child", "parent"}
Endings == {"jsonl", "zst"}
Paths == Places \X Conversations \X Endings
Files == 1 .. 4                    \* the identities of files
NoLog == [latest |-> << >>, roots |-> {}, messages |-> {}]
Pages == {"latest", "roots", "messages"}

ASSUME StoresAssumption ==
  \A s \in Stores :
    /\ \A p \in DOMAIN s.names : s.names[p] \in Files
    /\ \A f \in DOMAIN s.files : s.files[f] \in Seq(Range(s.files[f]))

VARIABLES
  h,         \* the harness
  names,     \* path -> the file it names, Nothing for none
  contents,  \* file -> its bytes, half a line each
  db,        \* cursor: the main file
  log,       \* cursor: the commit waiting in the write-ahead log
  copied,    \* cursor: the pages of it a checkpoint copied
  appends,
  edits

storeVars == << h, names, contents, db, log, copied, appends, edits >>

Bytes(lines) == [i \in 1 .. (2 * Len(lines)) |-> << lines[(i + 1) \div 2], 2 - (i % 2) >>]

CompleteBytes(bytes) == 2 * (Len(bytes) \div 2)
Lines(bytes) == [i \in 1 .. (Len(bytes) \div 2) |-> bytes[2 * i][1]]

StoreInit ==
  \E s \in Stores :
    /\ h = s.h
    /\ names = [p \in Paths |-> IF p \in DOMAIN s.names THEN s.names[p] ELSE Nothing]
    /\ contents = [f \in Files |-> IF f \in DOMAIN s.files THEN Bytes(s.files[f]) ELSE << >>]
    /\ db = s.db /\ log = NoLog /\ copied = {}
    /\ appends = MaxAppends - s.appends /\ edits = MaxEdits - s.edits

\* The line a harness writes next.
NextLine(f) ==
  LET lines == Lines(contents[f])
      n == Len(lines) - (IF Headed(h) THEN 1 ELSE 0)
  IN IF lines # << >> THEN Entry(Script[n + 1], lines[1].conv, lines[Len(lines)].id + 1)
     ELSE IF Headed(h) THEN Header("child", 0, NoBase)
     ELSE Entry(Script[1], "child", 0)

AppendHalf(f) ==
  LET bytes == contents[f] IN
  /\ appends < MaxAppends /\ h # "cursor"
  /\ \E p \in Paths : names[p] = f /\ p[3] = "jsonl"
  /\ Len(bytes) \div 2 < Len(Script)
  /\ contents' = [contents EXCEPT ![f] =
       Append(bytes, IF Len(bytes) % 2 = 1 THEN << bytes[Len(bytes)][1], 2 >>
                     ELSE << NextLine(f), 1 >>)]
  /\ appends' = appends + 1
  /\ UNCHANGED << h, names, db, log, copied, edits >>

\* The same conversation said anew: every entry replaced, or all but one gone.
Rewritten(f) ==
  LET lines == Lines(contents[f])
      kept == IF Headed(h) THEN 1 ELSE 0
      anew == [i \in DOMAIN lines |->
                 IF i <= kept THEN lines[i]
                 ELSE [lines[i] EXCEPT !.event = IF @ = "prompt" THEN "reply"
                                                 ELSE IF @ = "reply" THEN "prompt" ELSE @]]
  IN {Bytes(anew), Bytes(SubSeq(anew, 1, Min({kept + 1, Len(anew)})))}

Named == {p \in Paths : names[p] # Nothing}
FreeFiles == {f \in Files : contents[f] = << >> /\ \A p \in Paths : names[p] # f}

Rewrite(p) ==
  /\ edits < MaxEdits /\ h # "cursor" /\ p \in Named
  /\ \E bytes \in Rewritten(names[p]) : contents' = [contents EXCEPT ![names[p]] = bytes]
  /\ edits' = edits + 1
  /\ UNCHANGED << h, names, db, log, copied, appends >>

Replace(p) ==
  /\ edits < MaxEdits /\ h # "cursor" /\ p \in Named /\ FreeFiles # {}
  /\ LET f == CHOOSE f \in FreeFiles : TRUE IN
     /\ \E bytes \in Rewritten(names[p]) : contents' = [contents EXCEPT ![f] = bytes]
     /\ names' = [names EXCEPT ![p] = f]
  /\ edits' = edits + 1
  /\ UNCHANGED << h, db, log, copied, appends >>

Delete(p) ==
  /\ edits < MaxEdits /\ p \in Named
  /\ names' = [names EXCEPT ![p] = Nothing]
  /\ edits' = edits + 1
  /\ UNCHANGED << h, contents, db, log, copied, appends >>

\* Codex archives a rollout, or takes it back, and may compress it.
Move(p, q) ==
  /\ edits < MaxEdits /\ h = "codex" /\ p \in Named /\ names[q] = Nothing
  /\ p[2] = q[2] /\ p # q /\ p[3] = "jsonl"
  /\ names' = [names EXCEPT ![p] = Nothing, ![q] = names[p]]
  /\ edits' = edits + 1
  /\ UNCHANGED << h, contents, db, log, copied, appends >>

\* What is committed: what the log holds, or else the main file.
Committed == IF log # NoLog THEN log ELSE db

\* The next message joins the conversation, or replaces its last one.
Commit ==
  /\ appends < MaxAppends /\ h = "cursor" /\ log = NoLog
  /\ Len(db.latest) < Len(Script)
  /\ \E kept \in {Len(db.latest), Len(db.latest) - 1} :
       LET id == Cardinality(db.messages) + 1
           said == Entry(Script[kept + 1], "child", id)
           list == Append(SubSeq(db.latest, 1, kept),
                     [said EXCEPT !.call = IF said.event = "result" THEN db.latest[kept].call
                                           ELSE @])
       IN /\ kept < Len(db.latest) => edits < MaxEdits
          /\ log' = [latest |-> list, roots |-> db.roots \union {list},
                     messages |-> db.messages \union ToSet(list)]
          /\ edits' = IF kept < Len(db.latest) THEN edits + 1 ELSE edits
  /\ appends' = appends + 1 /\ copied' = {}
  /\ UNCHANGED << h, names, contents, db >>

CopyPage(page) ==
  /\ log # NoLog /\ page \notin copied
  /\ db' = [db EXCEPT ![page] = log[page]]
  /\ copied' = copied \union {page}
  /\ UNCHANGED << h, names, contents, log, appends, edits >>

ResetLog ==
  /\ log # NoLog /\ copied = Pages
  /\ log' = NoLog /\ copied' = {}
  /\ UNCHANGED << h, names, contents, db, appends, edits >>

Writes ==
  \/ \E f \in Files : AppendHalf(f)
  \/ \E p \in Paths : Rewrite(p) \/ Replace(p) \/ Delete(p)
  \/ \E p, q \in Paths : Move(p, q)
  \/ Commit \/ ResetLog
  \/ \E page \in Pages : CopyPage(page)

\* What the store says at an instant: the bytes every name leads to.
View ==
  [p \in Named |->
     IF h = "cursor" THEN Bytes(FrameCursorStore("child", Committed))
     ELSE contents[names[p]]]
=============================================================================
