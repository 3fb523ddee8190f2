----------------------------- MODULE LineBuffer -----------------------------
(* Line assembly for process streams (execution/lines.ts): chunks are torn  *)
(* at any byte, lines are cut at newlines only, and a line past the limit   *)
(* is discarded and reported once, with its size and its own start.         *)
(*                                                                         *)
(* A byte is an ASCII character, the lead of a longer character, or a       *)
(* continuation; a decoded text is a sequence of UTF-16 code units.         *)
EXTENDS Naturals, Sequences, SequencesExt

CONSTANTS
  Limit,    \* the line bound: units of a line, bytes of a control frame
  HeadMax   \* LINE_HEAD_MAX: units of a discarded line that are kept

ASSUME HeadAssumption == Limit \in Nat /\ HeadMax \in 1 .. Limit

Newline == "newline"
Spaces == {"space"}

(* The bytes of a character by its lead, and its code units.                *)
Width == [lead2 |-> 2, lead4 |-> 4]
Units == [lead2 |-> <<"two">>, lead4 |-> <<"high", "low">>]

---------------------------------------------------------------------------
(* TextDecoder: bytes that are no character decode to one U+FFFD, "bad".    *)

DecodeFresh(text, b) ==
  IF b \in DOMAIN Width THEN [text |-> text, held |-> <<b>>]
  ELSE [text |-> Append(text, IF b = "cont" THEN "bad" ELSE b), held |-> <<>>]

DecodeByte(d, b) ==
  IF d.held = <<>> THEN DecodeFresh(d.text, b)
  ELSE IF b # "cont" THEN DecodeFresh(Append(d.text, "bad"), b)
  ELSE IF Len(d.held) + 1 < Width[d.held[1]] THEN [d EXCEPT !.held = Append(@, b)]
  ELSE [text |-> d.text \o Units[d.held[1]], held |-> <<>>]

(* Mutant: the decoder does not stream, a torn character is bad at once.    *)
Decode_Torn(held, bytes) ==
  LET d == FoldLeft(DecodeByte, [text |-> <<>>, held |-> held], bytes)
  IN  IF d.held = <<>> THEN d ELSE [text |-> Append(d.text, "bad"), held |-> <<>>]

(* A chunk decoded after the bytes of a character that were held back.      *)
Decode(held, bytes) == FoldLeft(DecodeByte, [text |-> <<>>, held |-> held], bytes)

(* A text's pieces between newlines, the last one open.                     *)
Pieces(text) ==
  FoldLeft(LAMBDA ps, u : IF u = Newline THEN Append(ps, <<>>)
                          ELSE [ps EXCEPT ![Len(ps)] = Append(@, u)],
           << <<>> >>, text)

(* utf8Length: a surrogate pair is four bytes, a unit of one alone three.   *)
UnitBytes(text, i) ==
  IF text[i] = "high" /\ i < Len(text) /\ text[i + 1] = "low" THEN 4
  ELSE IF text[i] = "low" /\ i > 1 /\ text[i - 1] = "high" THEN 0
  ELSE IF text[i] \in {"high", "low", "bad"} THEN 3
  ELSE IF text[i] = "two" THEN 2
  ELSE 1
Utf8Length(text) ==
  FoldLeft(+, 0, [i \in DOMAIN text |-> UnitBytes(text, i)])

Start(text, n) == SubSeq(text, 1, IF Len(text) < n THEN Len(text) ELSE n)
IsBlank(text) == \A i \in DOMAIN text : text[i] \in Spaces

Whole(text) == [kind |-> "line", text |-> text]
Overflow(characters, bytes, head) ==
  [kind |-> "overflow", characters |-> characters, bytes |-> bytes, head |-> head]

---------------------------------------------------------------------------
(* LineBuffer *)

EmptyLine ==
  [pending |-> <<>>, discarding |-> FALSE, characters |-> 0, bytes |-> 0, head |-> <<>>]

(* append: the open line grows by a piece, or flips to discard.             *)
Grown(line, piece) ==
  IF line.discarding
  THEN [line EXCEPT !.characters = @ + Len(piece), !.bytes = @ + Utf8Length(piece)]
  ELSE IF Len(line.pending) + Len(piece) > Limit
  THEN [pending |-> <<>>, discarding |-> TRUE,
        characters |-> Len(line.pending) + Len(piece),
        bytes |-> Utf8Length(line.pending) + Utf8Length(piece),
        head |-> LET start == Start(line.pending, HeadMax)
                 IN  start \o Start(piece, HeadMax - Len(start))]
  ELSE [line EXCEPT !.pending = @ \o piece]

(* What a line gives when it ends: the line, its report, or, blank, nothing. *)
Given(line) ==
  IF line.discarding THEN <<Overflow(line.characters, line.bytes, line.head)>>
  ELSE IF IsBlank(line.pending) THEN <<>> ELSE <<Whole(line.pending)>>

(* ingest: every newline ends the open line.                                *)
Ingest(line, text) ==
  LET pieces == Pieces(text)
  IN  FoldLeft(LAMBDA a, piece : [items |-> a.items \o Given(a.line),
                                  line |-> Grown(EmptyLine, piece)],
               [items |-> <<>>, line |-> Grown(line, Head(pieces))],
               Tail(pieces))

(* pushItems: a chunk's items, and what the buffer keeps.                   *)
PushItems(buffer, chunk) ==
  LET d == Decode(buffer.held, chunk)
      a == Ingest(buffer.line, d.text)
  IN  [items |-> a.items, buffer |-> [held |-> d.held, line |-> a.line]]

(* flushItems: the stream closed in the middle of a line.                   *)
FlushItems(buffer) ==
  Given(IF buffer.held = <<>> THEN buffer.line ELSE Grown(buffer.line, <<"bad">>))

(* What the items of a stream are, however it was torn.                     *)
ItemsOf(bytes, ended) ==
  LET d == Decode(<<>>, bytes)
      pieces == Pieces(IF ended /\ d.held # <<>> THEN Append(d.text, "bad") ELSE d.text)
      Item(text) == IF Len(text) > Limit
                    THEN <<Overflow(Len(text), Utf8Length(text), Start(text, HeadMax))>>
                    ELSE IF IsBlank(text) THEN <<>> ELSE <<Whole(text)>>
      lines == IF ended THEN pieces ELSE Front(pieces)
  IN  FlattenSeq([i \in DOMAIN lines |-> Item(lines[i])])

---------------------------------------------------------------------------
(* ControlLines: a frame past the limit, its newline included, or a byte    *)
(* that is no character ends the channel.                                   *)

NoFrame == [held |-> <<>>, pending |-> <<>>, bytes |-> 0]

(* A run of bytes up to a newline, that one included, or to the chunk's end. *)
Segments(chunk) ==
  LET pieces == Pieces(chunk)
      lines == [i \in 1 .. Len(pieces) - 1 |-> Append(pieces[i], Newline)]
  IN  IF Last(pieces) = <<>> THEN lines ELSE Append(lines, Last(pieces))

ControlSegment(c, segment) ==
  LET bytes == c.frame.bytes + Len(segment)
      d == Decode(c.frame.held, segment)
      text == c.frame.pending \o d.text
  IN  IF c.error # "none" THEN c
      ELSE IF bytes > Limit THEN [c EXCEPT !.error = "frame-too-large"]
      ELSE IF Contains(d.text, "bad") THEN [c EXCEPT !.error = "invalid-utf8"]
      ELSE IF Last(segment) = Newline
      THEN [c EXCEPT !.frames = Append(@, Front(text)), !.frame = NoFrame]
      ELSE [c EXCEPT !.frame = [held |-> d.held, pending |-> text, bytes |-> bytes]]

(* push: the frames of a chunk, what is kept, and what ended the channel.   *)
PushFrames(frame, chunk) ==
  FoldLeft(ControlSegment, [frames |-> <<>>, frame |-> frame, error |-> "none"],
           Segments(chunk))

(* What is wrong with a run of bytes, a whole frame or the start of one.    *)
Faulty(segment) ==
  (IF Len(segment) > Limit THEN {"frame-too-large"} ELSE {})
    \cup IF Contains(Decode(<<>>, segment).text, "bad") THEN {"invalid-utf8"} ELSE {}

(* What the frames of a stream are, and what may end it, however torn.      *)
FramesOf(bytes, frames, error) ==
  LET segments == Segments(bytes)
      sound == SelectInSeq(segments, LAMBDA s : Faulty(s) # {})
      good == IF sound = 0 THEN segments ELSE SubSeq(segments, 1, sound - 1)
      lines == SelectSeq(good, LAMBDA s : Last(s) = Newline)
  IN  /\ frames = [i \in DOMAIN lines |-> Front(Decode(<<>>, lines[i]).text)]
      /\ IF sound = 0 THEN error = "none" ELSE error \in Faulty(segments[sound])
=============================================================================
