----------------------------- MODULE OutputPump -----------------------------
(* One output stream on its way to the consumer: chunks as the pipe tore    *)
(* them, lines as LineBuffer cuts them, the events of a line pushed one by  *)
(* one into the channel (pumpStdout of execution/stream-turn.ts, the stdout *)
(* pump of execution/open-session.ts), and, beside it, the pump of stderr,  *)
(* which pushes what it likes.  A control channel is read the same way, by  *)
(* ControlLines (execution/native-approval-turn.ts).                        *)
(*                                                                         *)
(* Until the harness has said who it is, tokens and progress wait in a      *)
(* small buffer, and the identity is pushed before them.                    *)
EXTENDS AsyncChannel, LineBuffer

CONSTANTS
  Streams,     \* what a harness may write: sequences of bytes
  BufferCap,   \* BUFFER_CAP: early events kept until the identity
  MaxStderr,   \* bound: events pushed by the other pump
  EventOf(_)   \* the event of a line, "none" where it has none

ASSUME PumpAssumption ==
  /\ {"stdout", "stderr"} = Producers
  /\ BufferCap \in Nat \ {0} /\ MaxStderr \in 0 .. MaxPushes

VARIABLES
  framing,     \* "output" read into lines, or "control" read into frames
  stream,      \* the bytes written
  at,          \* how many of them were read
  buffer,      \* what the LineBuffer keeps between chunks, or ControlLines
  got,         \* history: every item or frame so far
  todo,        \* the items of this chunk still to handle, by their place
  out,         \* the events of this item still to push
  early,       \* droppableBuffer
  identified,  \* identitySeen
  overflows,   \* reports that wait for the end of the stream
  pump,        \* "reading", "flushing", "settling", "ended", "failed"
  fault,       \* why a control channel ended, "none" while it has not
  cancelled,   \* the consumer left
  sent         \* history: the events pushed, in order

pumpVars == <<framing, stream, at, buffer, got, todo, out, early, identified,
              overflows, pump, fault, cancelled, sent>>
allVars == <<channelVars, pumpVars>>

PumpInit ==
  /\ ChannelInit
  /\ framing \in {"output", "control"} /\ stream \in Streams /\ at = 0
  /\ buffer = IF framing = "output" THEN [held |-> <<>>, line |-> EmptyLine] ELSE NoFrame
  /\ got = <<>> /\ todo = <<>> /\ out = <<>> /\ early = <<>>
  /\ identified = FALSE /\ overflows = <<>>
  /\ pump = "reading" /\ fault = "none" /\ cancelled = FALSE /\ sent = <<>>

---------------------------------------------------------------------------
(* The pump handles an item to its end before it looks at the next.         *)
Free == todo = <<>> /\ out = <<>> /\ "stdout" \notin blocked
Places(from, list) == [i \in DOMAIN list |-> from + i]

ReadChunk(n) ==
  /\ pump = "reading" /\ framing = "output" /\ Free /\ ~cancelled
  /\ at + n <= Len(stream)
  /\ LET read == PushItems(buffer, SubSeq(stream, at + 1, at + n))
     IN  /\ buffer' = read.buffer
         /\ got' = got \o read.items
         /\ todo' = Places(Len(got), read.items)
  /\ at' = at + n
  /\ UNCHANGED <<channelVars, framing, stream, out, early, identified, overflows,
                 pump, fault, cancelled, sent>>

(* A chunk that finds the consumer gone, or the end of the stream.  The     *)
(* open line counts as one unless the consumer left.                        *)
StreamEnds ==
  /\ pump = "reading" /\ framing = "output" /\ Free
  /\ cancelled \/ at = Len(stream)
  /\ LET rest == IF cancelled THEN <<>> ELSE FlushItems(buffer)
     IN  got' = got \o rest /\ todo' = Places(Len(got), rest)
  /\ pump' = "flushing"
  /\ UNCHANGED <<channelVars, framing, stream, at, buffer, out, early, identified,
                 overflows, fault, cancelled, sent>>

Event(kind, place) == [kind |-> kind, place |-> place]
Droppable(kind) == kind = "token"

(* handleEvent: what is pushed for an event, and what then waits.           *)
Handle(e) ==
  IF identified THEN out' = <<e>> /\ UNCHANGED <<early, identified>>
  ELSE IF e.kind = "identity"
  THEN out' = <<e>> \o early /\ early' = <<>> /\ identified' = TRUE
  ELSE IF Droppable(e.kind)
  THEN /\ early' = Append(IF Len(early) >= BufferCap THEN Tail(early) ELSE early, e)
       /\ UNCHANGED <<out, identified>>
  ELSE out' = early \o <<e>> /\ early' = <<>> /\ UNCHANGED identified

HandleItem ==
  /\ todo # <<>> /\ out = <<>> /\ "stdout" \notin blocked
  /\ todo' = Tail(todo)
  /\ LET place == Head(todo)
         item == got[place]
     IN  IF item.kind = "overflow"
         THEN IF EventOf(item.head) = "echo"
              THEN Handle(Event("warning", place)) /\ UNCHANGED overflows
              ELSE /\ overflows' = Append(overflows, Event("failure", place))
                   /\ UNCHANGED <<out, early, identified>>
         ELSE IF EventOf(item.text) \in {"none", "echo"}
         THEN UNCHANGED <<out, early, identified, overflows>>
         ELSE Handle(Event(EventOf(item.text), place)) /\ UNCHANGED overflows
  /\ UNCHANGED <<channelVars, framing, stream, at, buffer, got, pump, fault, cancelled, sent>>

PushEvent ==
  /\ out # <<>>
  /\ Push("stdout") \/ PushLate("stdout")
  /\ out' = Tail(out) /\ sent' = Append(sent, Head(out))
  /\ UNCHANGED <<framing, stream, at, buffer, got, todo, early, identified,
                 overflows, pump, fault, cancelled>>

(* Early events that no identity followed, then, to a consumer that is      *)
(* there, the lines that were lost.                                         *)
Settle ==
  /\ pump = "flushing" /\ Free
  /\ out' = early \o IF cancelled THEN <<>> ELSE overflows
  /\ early' = <<>> /\ overflows' = <<>>
  /\ pump' = "settling"
  /\ UNCHANGED <<channelVars, framing, stream, at, buffer, got, todo, identified,
                 fault, cancelled, sent>>

PumpReturns ==
  /\ pump = "settling" /\ Free
  /\ pump' = "ended"
  /\ UNCHANGED <<channelVars, framing, stream, at, buffer, got, todo, out, early,
                 identified, overflows, fault, cancelled, sent>>

(* A chunk of a control channel: its frames, up to what ends the channel.   *)
ReadFrames(n) ==
  /\ pump = "reading" /\ framing = "control"
  /\ at + n <= Len(stream)
  /\ LET read == PushFrames(buffer, SubSeq(stream, at + 1, at + n))
     IN  /\ buffer' = read.frame
         /\ got' = got \o read.frames
         /\ fault' = read.error
         /\ pump' = IF read.error = "none" THEN pump ELSE "failed"
  /\ at' = at + n
  /\ UNCHANGED <<channelVars, framing, stream, todo, out, early, identified, overflows,
                 cancelled, sent>>

---------------------------------------------------------------------------
(* The turn closes the channel when both pumps are over. *)
TurnCloses ==
  /\ pump = "ended" /\ "stderr" \notin blocked /\ ~closed
  /\ Close
  /\ UNCHANGED pumpVars

(* The consumer leaves between two events, and with it the iterator. *)
Leaves ==
  /\ consumer = "out" /\ ~cancelled
  /\ cancelled' = TRUE
  /\ closed' = TRUE /\ blocked' = {} /\ consumer' = "returned"
  /\ UNCHANGED <<items, pressure, pushes, accepted, yielded>>
  /\ UNCHANGED <<framing, stream, at, buffer, got, todo, out, early, identified,
                 overflows, pump, fault, sent>>

Pumps ==
  \/ \E n \in 1 .. Len(stream) : ReadChunk(n) \/ ReadFrames(n)
  \/ StreamEnds \/ HandleItem \/ PushEvent \/ Settle \/ PumpReturns

ChannelSteps ==
  /\ framing = "output"
  /\ \/ pushes["stderr"] < MaxStderr /\ (Push("stderr") \/ PushLate("stderr"))
     \/ ReleaseBackpressure
     \/ Iterate
  /\ UNCHANGED pumpVars

PumpNext == Pumps \/ TurnCloses \/ (framing = "output" /\ Leaves) \/ ChannelSteps

PumpSpec == PumpInit /\ [][PumpNext]_allVars

(* The consumer keeps asking until it leaves. *)
PumpFairSpec == PumpSpec /\ WF_allVars(Iterate /\ UNCHANGED pumpVars)

---------------------------------------------------------------------------
(* However the pipe tore the stream, also inside a character, each line     *)
(* comes out whole and once; a line past the limit as one report of its     *)
(* true size; a control channel's frames are exact up to what ends it.      *)
Framed ==
  IF framing = "control" THEN FramesOf(SubSeq(stream, 1, at), got, fault)
  ELSE pump = "reading" \/ ~cancelled =>
         got = ItemsOf(SubSeq(stream, 1, at), pump # "reading")

KindAt(i) == LET item == got[i] IN
  IF item.kind = "line" THEN EventOf(item.text)
  ELSE IF EventOf(item.head) = "echo" THEN "warning" ELSE "failure"

(* An event nobody may miss, or one that was not pushed out of the buffer   *)
(* of early ones: no identity came before it, and a buffer's worth of its   *)
(* like came after it before anything else.                                 *)
Passing(i) == KindAt(i) \in {"token", "none", "failure"} \/ (got[i].kind = "line" /\ KindAt(i) = "echo")
Kept(i) ==
  \/ ~Droppable(KindAt(i))
  \/ \E j \in 1 .. i - 1 : KindAt(j) = "identity"
  \/ LET after == {j \in i + 1 .. Len(got) : \A k \in i .. j : Passing(k)}
     IN  Cardinality({j \in after : Droppable(KindAt(j))}) < BufferCap

Telling(i) == KindAt(i) \notin {"none", "echo"}

(* What a stream that was read to its end gave the consumer: every event    *)
(* but early ones the buffer had no room for, once, in the order written,   *)
(* but that the identity overtakes the early ones and lost lines are told   *)
(* at the end.                                                              *)
Delivered ==
  framing = "output" /\ pump = "ended" /\ ~cancelled =>
    /\ {sent[x].place : x \in DOMAIN sent} = {i \in DOMAIN got : Telling(i) /\ Kept(i)}
    /\ \A x, y \in DOMAIN sent : x < y =>
         \/ sent[x].place < sent[y].place
         \/ sent[x].kind = "identity" /\ Droppable(sent[y].kind)
              /\ \A k \in sent[y].place .. sent[x].place - 1 : Passing(k)
         \/ sent[y].kind = "failure"

(* The consumer gets what the pump pushed, from the first, without a gap.   *)
Taken ==
  LET mine == SelectSeq(yielded, LAMBDA e : e[1] = "stdout")
  IN  \A k \in DOMAIN mine : mine[k] = <<"stdout", k>>

OutputWhole == Framed /\ Delivered /\ Taken
=============================================================================
