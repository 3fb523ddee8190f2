--------------------------- MODULE TranscriptList ---------------------------
(***************************************************************************)
(* "hcn transcript ls": the stores of several harnesses walked at once,    *)
(* every candidate's markers read within one budget of open sources, the   *)
(* rows put together when the last walk is over.                           *)
(***************************************************************************)
EXTENDS TranscriptStore

CONSTANTS
  Walks,        \* the walks of a call, one per harness listed
  Listings,     \* the calls: [h, places, index, window, limit]
  OpenSources,  \* sources open at once over all walks
  PrefixBytes,  \* bytes a candidate is first read for
  MaxPrefix     \* bytes it is read for, at most

\* A conversation's first line fits the largest prefix.
ASSUME ListAssumption ==
  /\ IsFiniteSet(Walks) /\ OpenSources \in Nat /\ PrefixBytes \in Nat
  /\ MaxPrefix \in Nat /\ MaxPrefix >= 2
  /\ \A l \in Listings : l.places \in [Walks -> Seq(Places)] /\ l.limit \in Nat

VARIABLES
  listing,      \* the call
  walks,        \* walk -> [at, place, tasks]
  task,         \* candidate or index -> how far it is
  free,         \* slots nobody holds
  waiting,      \* tasks waiting for a slot, in order
  rows,         \* the rows found
  unreadable,   \* walk -> sources it could not read
  stopped,      \* the caller interrupted
  listed,       \* "running", then "complete", "partial" or "interrupted"
  shown,        \* the rows printed
  fresh,        \* files written since the listing began
  steady        \* paths nobody touched since the listing began

listVars ==
  << listing, walks, task, free, waiting, rows, unreadable, stopped, listed, shown, fresh,
     steady >>

IndexFile == << "", "index", "" >>
Index(w) == << w, IndexFile >>
Tasks == {Index(w) : w \in Walks} \union (Walks \X Paths)
Idle == [at |-> "idle", file |-> Nothing, size |-> 0, want |-> 0, stamp |-> FALSE]
Walking == {w \in Walks : listing.places[w] # << >>}

ListInit ==
  /\ \E l \in Listings : l.h = h /\ listing = l
  /\ walks = [w \in Walks |-> [at |-> "index", place |-> 1]]
  /\ task = [t \in Tasks |-> Idle]
  /\ free = OpenSources /\ waiting = << >> /\ rows = {}
  /\ unreadable = [w \in Walks |-> 0]
  /\ stopped = FALSE /\ listed = "running" /\ shown = << >>
  /\ fresh = {} /\ steady = Paths

Running == listed = "running"

(***************************************************************************)
(* openBudget: a task takes a free slot or waits; one that ends hands its  *)
(* slot to the next in line.                                               *)
(***************************************************************************)
\* The tasks ask in order; what they hold afterwards.
Granted(ts) == SubSeq(ts, 1, Min({free, Len(ts)}))
Waiting(ts) == SubSeq(ts, Min({free, Len(ts)}) + 1, Len(ts))

Ask(ts) ==
  /\ free' = free - Len(Granted(ts))
  /\ waiting' = waiting \o Waiting(ts)
  /\ task' = [t \in Tasks |->
       IF t \in ToSet(Granted(ts)) THEN [Idle EXCEPT !.at = "first"]
       ELSE IF t \in ToSet(Waiting(ts)) THEN [Idle EXCEPT !.at = "queued"]
       ELSE task[t]]

\* Mutant: the slot is freed, the next in line not told.
Release_Forgets(t) ==
  task' = [task EXCEPT ![t].at = "over"] /\ free' = free + 1 /\ UNCHANGED waiting

\* Task t is over, for better or worse.
Release(t) ==
  IF waiting # << >>
    THEN /\ task' = [task EXCEPT ![t].at = "over", ![Head(waiting)].at = "first"]
         /\ waiting' = Tail(waiting) /\ UNCHANGED free
    ELSE /\ task' = [task EXCEPT ![t].at = "over"]
         /\ free' = free + 1 /\ UNCHANGED waiting

Steps(t, to) == task' = [task EXCEPT ![t].at = to] /\ UNCHANGED << free, waiting >>

(***************************************************************************)
(* listHarness: the index, where the store has one, then the directories,  *)
(* then all candidates at once.                                            *)
(***************************************************************************)
AskIndex(w) ==
  /\ walks[w].at = "index" /\ task[Index(w)].at = "idle" /\ w \in Walking
  /\ Ask(<< Index(w) >>)
  /\ UNCHANGED << listing, walks, rows, unreadable, stopped, listed, shown >>

\* captureIndex: a log beside the index fails the walk; a store whose index
\* needs no snapshot may have none yet, one whose index is cloned may not.
CaptureIndex(w) ==
  LET fails == listing.index[w] \in {"busy", "missing"} IN
  /\ task[Index(w)].at = "first"
  /\ Release(Index(w))
  /\ walks' = [walks EXCEPT ![w].at = IF fails THEN "failed"
                                      ELSE IF stopped THEN "interrupted" ELSE "walk"]
  /\ UNCHANGED << listing, rows, unreadable, stopped, listed, shown >>

\* The candidates found in one directory; an interruption is noticed only
\* where there is something to see.
WalkPlace(w) ==
  LET here == {p \in Named : p[1] = listing.places[w][walks[w].place]}
      last == walks[w].place = Len(listing.places[w])
      found == {t \in Tasks : t[1] = w /\ task[t].at = "found"}
                 \union ({w} \X here)
  IN
  /\ walks[w].at = "walk"
  /\ IF stopped /\ here # {}
       THEN walks' = [walks EXCEPT ![w].at = "interrupted"] /\ UNCHANGED << task, free, waiting >>
       ELSE /\ walks' = [walks EXCEPT ![w].place = @ + 1,
                                      ![w].at = IF last THEN "read" ELSE "walk"]
            /\ IF last THEN Ask(SetToSeq(found))
               ELSE /\ task' = [t \in Tasks |->
                                  IF t \in found THEN [Idle EXCEPT !.at = "found"] ELSE task[t]]
                    /\ UNCHANGED << free, waiting >>
  /\ UNCHANGED << listing, rows, unreadable, stopped, listed, shown >>

(***************************************************************************)
(* One candidate: its stat, the window, its markers in growing prefixes.   *)
(***************************************************************************)
Candidates == {t \in Tasks : t[2] # IndexFile}
SkipsLater == UNCHANGED << listing, walks, rows, unreadable, stopped, listed, shown >>

Drop(t) == Release(t) /\ UNCHANGED << listing, walks, rows, unreadable, stopped, listed, shown >>

Miss(t) ==
  /\ Release(t) /\ unreadable' = [unreadable EXCEPT ![t[1]] = @ + 1]
  /\ UNCHANGED << listing, walks, rows, stopped, listed, shown >>

StatCandidate(t) ==
  /\ task[t].at = "first" /\ t \in Candidates
  /\ LET file == names[t[2]] IN
     IF stopped
       THEN /\ Release(t)
            /\ walks' = [walks EXCEPT ![t[1]].at = "interrupted"]
            /\ UNCHANGED << listing, rows, unreadable, stopped, listed, shown >>
       ELSE IF file = Nothing THEN Miss(t)
       ELSE IF listing.window /\ file \notin fresh THEN Drop(t)
       ELSE /\ task' = [task EXCEPT ![t].at = "open", ![t].stamp = file \in fresh]
            /\ UNCHANGED << free, waiting >> /\ SkipsLater

OpenCandidate(t) ==
  /\ task[t].at = "open"
  /\ LET file == names[t[2]] IN
     IF file = Nothing THEN Miss(t)
     ELSE /\ task' = [task EXCEPT ![t] =
                [@ EXCEPT !.at = "read", !.file = file, !.size = Len(contents[file]),
                          !.want = Min({Len(contents[file]), PrefixBytes})]]
          /\ UNCHANGED << free, waiting >> /\ SkipsLater

\* Whether a prefix holds the session's own marker, its first line, and what
\* a listing does with a source that has none: pi and popeye skip it.
Marked(bytes) == Len(bytes) >= 2
SkipsUnmarked == h \in {"pi", "popeye"}

\* Mutant: the first prefix is the only one.
ReadMarkers_Once(t) ==
  /\ task[t].at = "read"
  /\ LET c == task[t]
         bytes == SubSeq(contents[c.file], 1, Min({c.want, Len(contents[c.file])}))
     IN IF Marked(bytes) \/ ~SkipsUnmarked
          THEN /\ rows' = rows \union {[walk |-> t[1], path |-> t[2], marked |-> Marked(bytes)]}
               /\ Release(t)
               /\ UNCHANGED << listing, walks, unreadable, stopped, listed, shown >>
          ELSE Drop(t)

ReadMarkers(t) ==
  /\ task[t].at = "read"
  /\ LET c == task[t]
         bytes == SubSeq(contents[c.file], 1, Min({c.want, Len(contents[c.file])}))
         final == c.want >= c.size \/ c.want >= MaxPrefix
     IN IF Marked(bytes) \/ (final /\ ~SkipsUnmarked)
          THEN /\ rows' = rows \union {[walk |-> t[1], path |-> t[2], marked |-> Marked(bytes)]}
               /\ Release(t)
               /\ UNCHANGED << listing, walks, unreadable, stopped, listed, shown >>
          ELSE IF final THEN Drop(t)
          ELSE /\ task' = [task EXCEPT ![t].want =
                             Min({c.size, MaxPrefix, Max({c.want * 8, PrefixBytes + 1})})]
               /\ UNCHANGED << free, waiting >> /\ SkipsLater

(***************************************************************************)
(* A walk is over when its last candidate is; the call, when every walk is.*)
(***************************************************************************)
WalkOver(w) ==
  \/ w \notin Walking
  \/ walks[w].at \in {"failed", "interrupted"}
  \/ walks[w].at = "read" /\ \A t \in Candidates : t[1] = w => task[t].at \in {"idle", "over"}

Interrupted == \E w \in Walks : walks[w].at = "interrupted"

\* The rows of the walks that were listed; another workspace's are left out.
Reported == {r \in rows : walks[r.walk].at = "read" /\ (listing.workspace => r.marked)}

ListOver ==
  /\ Running /\ \A w \in Walks : WalkOver(w)
  /\ listed' = IF Interrupted THEN "interrupted"
               ELSE IF \E w \in Walks : walks[w].at = "failed" \/ w \notin Walking THEN "partial"
               ELSE "complete"
  /\ shown' = IF Interrupted THEN << >>
              ELSE LET all == SetToSeq(Reported)
                   IN SubSeq(all, 1, IF listing.limit = 0 THEN Len(all)
                                     ELSE Min({listing.limit, Len(all)}))
  /\ UNCHANGED << listing, walks, task, free, waiting, rows, unreadable, stopped >>

InterruptList ==
  /\ Running /\ ~stopped /\ listing.interrupts /\ stopped' = TRUE
  /\ UNCHANGED << listing, walks, task, free, waiting, rows, unreadable, listed, shown >>

ListSteps ==
  \/ \E w \in Walks : AskIndex(w) \/ CaptureIndex(w) \/ WalkPlace(w)
  \/ \E t \in Tasks : StatCandidate(t) \/ OpenCandidate(t) \/ ReadMarkers(t)
  \/ ListOver

ListGoesOn == ListSteps /\ UNCHANGED << fresh, steady, storeVars >>

Lists == ListGoesOn \/ (InterruptList /\ UNCHANGED << fresh, steady, storeVars >>)

\* The store changes under the listing.
Touched ==
  {p \in Paths : names'[p] # names[p] \/ (names[p] # Nothing
                   /\ contents'[names[p]] # contents[names[p]])}

DisturbsList ==
  /\ Running /\ Writes
  /\ fresh' = fresh \union {f \in Files : contents'[f] # contents[f]}
  /\ steady' = steady \ Touched
  /\ UNCHANGED << listing, walks, task, free, waiting, rows, unreadable, stopped, listed, shown >>

ListSpec == StoreInit /\ ListInit /\ [][Lists \/ DisturbsList]_<< storeVars, listVars >>

(***************************************************************************)
(* Properties.                                                             *)
(***************************************************************************)
(* A listing told complete names every conversation of the store that      *)
(* nobody touched while it ran and that its call asks for, and no row is   *)
(* of a walk that failed; one that was interrupted tells nothing.          *)
ListComplete ==
  /\ listed = "complete" /\ listing.limit = 0 =>
       \A w \in Walks, p \in steady :
         /\ names[p] # Nothing /\ p[1] \in ToSet(listing.places[w])
         /\ listing.window => names[p] \in fresh
         /\ Marked(contents[names[p]])
         => [walk |-> w, path |-> p, marked |-> TRUE] \in ToSet(shown)
  /\ \A i \in DOMAIN shown : walks[shown[i].walk].at = "read"
  /\ listed = "interrupted" => shown = << >>
=============================================================================
