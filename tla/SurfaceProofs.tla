---------------------------- MODULE SurfaceProofs ----------------------------
(***************************************************************************)
(* What is proved of the two surfaces a program reads: of the lines a      *)
(* session writes, for every number of commands and turns and every        *)
(* consumer, that they answer the commands in order and that the terminal  *)
(* line comes last, behind every answer; of a listing of transcripts, for  *)
(* every store, every call and every number of slots, that it is complete  *)
(* when it says so.                                                        *)
(***************************************************************************)
EXTENDS JsonSession, TranscriptList, FiniteSetTheorems, SequenceTheorems, NaturalsInduction,
        WellFoundedInduction, TLAPS

-----------------------------------------------------------------------------
(* The inductive invariant *)

(* The lines emitted and not lost: those written, and, while the pipe is
   open, those the writer holds behind them.  A parked line is written. *)
Pending == IF parked THEN Tail(queue) ELSE queue
History == IF pipe = "open" THEN out \o Pending ELSE out

Has(s, kind, c) == \E i \in 1 .. Len(s) : s[i].kind = kind /\ s[i].of = c

Ordered(s) ==
  \A i, j \in 1 .. Len(s) : i < j /\ Disposed(s[i]) /\ Disposed(s[j]) => s[i].of < s[j].of

Paired(s) ==
  \A i \in 1 .. Len(s) : s[i].kind = "unconfirmed" =>
    i > 1 /\ s[i - 1].kind = "settings" /\ s[i - 1].of = s[i].of

Ends(s) ==
  \A i \in 1 .. Len(s) : s[i].kind = "closed" =>
    /\ i = Len(s) /\ stage \in {"exiting", "exited"}
    /\ \A c \in Commands : op[c] # "unread" => Has(s, Answer(op[c]), c)

(* A disposition that left is that of a command read, before all in chain. *)
Behind(s) ==
  \A i \in 1 .. Len(s) : Disposed(s[i]) =>
    /\ s[i].of \in Commands /\ op[s[i].of] # "unread"
    /\ \A j \in 1 .. Len(chain) : s[i].of < chain[j]

(* The state of the open question is that of the last done emitted. *)
Questions(s) ==
  \A i \in 1 .. Len(s) : s[i].kind = "awaiting-input" =>
    /\ s[i].of <= taken
    /\ s[i].of = taken => awaiting /\ pump # "turn"

Answered(c) == Has(History, Answer(op[c]), c) \/ verdict[c] = "owed" \/ InChain(c)

Reads ==
  /\ \A c, d \in Commands : op[c] # "unread" /\ d < c => op[d] # "unread"
  /\ pipe = "open" => \A c \in Commands : op[c] # "unread" => Answered(c)

Chained ==
  /\ \A i \in 1 .. Len(chain) : op[chain[i]] \in {"send", "answer"}
  /\ \A i, j \in 1 .. Len(chain) : i < j => chain[i] < chain[j]

Closing ==
  /\ stage \in {"exiting", "exited"} =>
       /\ stdin = "done" /\ pump = "done" /\ chain = <<>>
       /\ \A c \in Commands : verdict[c] # "owed"
  /\ gone => pipe = "broken"

Spoken(s) == Ordered(s) /\ Paired(s) /\ Ends(s) /\ Behind(s) /\ Questions(s)

JsonInv == TypeOK /\ Reads /\ Chained /\ Closing /\ Spoken(History)

-----------------------------------------------------------------------------
(* Lines and histories *)

LEMMA LineTyped ==
  ASSUME NEW kind \in Kinds, NEW of \in 0 .. (MaxCommands + MaxTurns), NEW by \in Emitters
  PROVE  /\ Line(kind, of, by) \in LineType
         /\ Line(kind, of, by).kind = kind /\ Line(kind, of, by).of = of
         /\ Line(kind, of, by).by = by
  BY DEF Line, LineType

LEMMA Numbers ==
  /\ MaxCommands \in Nat /\ MaxTurns \in Nat
  /\ \A c \in Commands : c \in 0 .. (MaxCommands + MaxTurns) /\ c \in Nat
  /\ \A t \in 0 .. MaxTurns : t \in 0 .. (MaxCommands + MaxTurns)
  BY BoundsAssumption DEF Commands

LEMMA Joined ==
  ASSUME NEW s \in Seq(LineType), NEW lines \in Seq(LineType)
  PROVE  /\ s \o lines \in Seq(LineType) /\ Len(s \o lines) = Len(s) + Len(lines)
         /\ Len(s) \in Nat /\ Len(lines) \in Nat
         /\ \A i \in 1 .. Len(s) : i \in 1 .. Len(s \o lines) /\ (s \o lines)[i] = s[i]
         /\ \A i \in 1 .. Len(lines) :
              Len(s) + i \in 1 .. Len(s \o lines) /\ (s \o lines)[Len(s) + i] = lines[i]
         /\ \A i \in 1 .. Len(s \o lines) :
              i \in 1 .. Len(s) \/ \E j \in 1 .. Len(lines) : i = Len(s) + j
  <1>1. /\ s \o lines \in Seq(LineType) /\ Len(s \o lines) = Len(s) + Len(lines)
        /\ Len(s) \in Nat /\ Len(lines) \in Nat
        /\ \A i \in 1 .. Len(s) + Len(lines) :
             (s \o lines)[i] = IF i <= Len(s) THEN s[i] ELSE lines[i - Len(s)]
    BY ConcatProperties
  <1>2. ASSUME NEW i \in 1 .. Len(s)
        PROVE  i \in 1 .. Len(s \o lines) /\ (s \o lines)[i] = s[i]
    BY <1>1
  <1>3. ASSUME NEW i \in 1 .. Len(lines)
        PROVE  Len(s) + i \in 1 .. Len(s \o lines) /\ (s \o lines)[Len(s) + i] = lines[i]
    <2>1. /\ Len(s) + i \in 1 .. Len(s) + Len(lines) /\ ~(Len(s) + i <= Len(s))
          /\ Len(s) + i - Len(s) = i
      BY <1>1
    <2> QED BY <1>1, <2>1
  <1>4. ASSUME NEW i \in 1 .. Len(s \o lines), i \notin 1 .. Len(s)
        PROVE  \E j \in 1 .. Len(lines) : i = Len(s) + j
    <2>1. i - Len(s) \in 1 .. Len(lines) /\ i = Len(s) + (i - Len(s))
      BY <1>1, <1>4
    <2> QED BY <2>1
  <1> QED BY <1>1, <1>2, <1>3, <1>4

LEMMA HistoryTyped ==
  ASSUME TypeOK
  PROVE  /\ out \in Seq(LineType) /\ queue \in Seq(LineType) /\ Pending \in Seq(LineType)
         /\ History \in Seq(LineType) /\ Len(History) \in Nat /\ Len(out) \in Nat
         /\ Len(out) <= Len(History) /\ \A i \in 1 .. Len(out) : History[i] = out[i]
  <1>1. out \in Seq(LineType) /\ queue \in Seq(LineType) /\ (parked => queue # <<>>)
    BY DEF TypeOK
  <1>2. Pending \in Seq(LineType)
    BY <1>1 DEF Pending
  <1>3. CASE pipe = "open"
    <2>1. /\ Len(out \o Pending) = Len(out) + Len(Pending) /\ Len(out) \in Nat
          /\ Len(Pending) \in Nat /\ out \o Pending \in Seq(LineType)
          /\ \A i \in 1 .. Len(out) : (out \o Pending)[i] = out[i]
      BY <1>1, <1>2, Joined
    <2> QED BY <1>1, <1>2, <1>3, <2>1 DEF History
  <1>4. CASE pipe # "open"
    BY <1>1, <1>2, <1>4 DEF History
  <1> QED BY <1>3, <1>4

(* What an emission does to the lines. *)
LEMMA Emission ==
  ASSUME TypeOK, NEW lines \in Seq(LineType), Emit(lines), UNCHANGED <<out, parked, pipe>>
  PROVE  /\ queue' \in Seq(LineType) /\ (parked' => queue' # <<>>)
         /\ History' = IF pipe = "open" THEN History \o lines ELSE History
  <1>1. out \in Seq(LineType) /\ queue \in Seq(LineType) /\ (parked => queue # <<>>)
        /\ Pending \in Seq(LineType)
    BY HistoryTyped DEF TypeOK
  <1>2. queue' = queue \o lines /\ queue' \in Seq(LineType)
    BY <1>1 DEF Emit
  <1>3. CASE parked
    <2>1. queue' # <<>> /\ Tail(queue') = Tail(queue) \o lines
      BY <1>1, <1>2, <1>3
    <2>2. Tail(queue) \in Seq(LineType) /\ out \in Seq(LineType) /\ lines \in Seq(LineType)
      BY <1>1, <1>3
    <2>3. (out \o Tail(queue)) \o lines = out \o (Tail(queue) \o lines)
      BY ONLY <2>2, ConcatAssociative
    <2> QED BY <1>2, <1>3, <2>1, <2>3 DEF History, Pending
  <1>4. CASE ~parked
    <2>1. (out \o queue) \o lines = out \o (queue \o lines)
      BY <1>1
    <2> QED BY <1>2, <1>4, <2>1 DEF History, Pending
  <1> QED BY <1>3, <1>4

(* The lines a step emits, before the terminal one, follow those emitted. *)
Fits(lines) ==
  /\ \A i \in 1 .. Len(lines) : lines[i].kind # "closed"
  /\ \A i \in 1 .. Len(lines) : Disposed(lines[i]) =>
       /\ lines[i].of \in Commands /\ op'[lines[i].of] # "unread"
       /\ \A j \in 1 .. Len(chain') : lines[i].of < chain'[j]
       /\ \A j \in 1 .. Len(History) : Disposed(History[j]) => History[j].of < lines[i].of
  /\ \A i, j \in 1 .. Len(lines) : Disposed(lines[i]) /\ Disposed(lines[j]) => i = j
  /\ \A i \in 1 .. Len(lines) : lines[i].kind = "unconfirmed" =>
       i > 1 /\ lines[i - 1].kind = "settings" /\ lines[i - 1].of = lines[i].of
  /\ \A i \in 1 .. Len(lines) : lines[i].kind = "awaiting-input" =>
       lines[i].of <= taken' /\ awaiting' /\ pump' # "turn"

(* The lines emitted before still stand as the step leaves the session. *)
Stands ==
  /\ \A i \in 1 .. Len(History) : Disposed(History[i]) =>
       /\ History[i].of \in Commands /\ op'[History[i].of] # "unread"
       /\ \A j \in 1 .. Len(chain') : History[i].of < chain'[j]
  /\ \A i \in 1 .. Len(History) : History[i].kind = "awaiting-input" =>
       /\ History[i].of <= taken'
       /\ History[i].of = taken' => awaiting' /\ pump' # "turn"

LEMMA SpokenGrows ==
  ASSUME TypeOK, NEW lines \in Seq(LineType), Emit(lines), UNCHANGED <<out, parked, pipe>>,
         stage \notin {"exiting", "exited"}, Spoken(History), Fits(lines), Stands
  PROVE  Spoken(History)'
  <1> DEFINE s == History
             t == History \o lines
  <1>1. s \in Seq(LineType)
    BY HistoryTyped
  <1>2. /\ t \in Seq(LineType) /\ Len(t) = Len(s) + Len(lines)
        /\ Len(s) \in Nat /\ Len(lines) \in Nat
        /\ \A i \in 1 .. Len(s) : i \in 1 .. Len(t) /\ t[i] = s[i]
        /\ \A i \in 1 .. Len(lines) : Len(s) + i \in 1 .. Len(t) /\ t[Len(s) + i] = lines[i]
        /\ \A i \in 1 .. Len(t) :
             i \in 1 .. Len(s) \/ \E j \in 1 .. Len(lines) : i = Len(s) + j
    BY <1>1, Joined
  <1>3. History' = IF pipe = "open" THEN t ELSE s
    BY Emission
  <1>4. \A i \in 1 .. Len(s) : s[i].kind # "closed"
    BY DEF Spoken, Ends
  <1>5. Ordered(s) /\ Paired(s)
    BY DEF Spoken
  <1> HIDE DEF s, t
  <1>6. CASE pipe # "open"
    <2>1. Ends(s)'
      BY <1>3, <1>4, <1>6 DEF Ends, s
    <2>2. Ordered(s)' /\ Paired(s)' /\ Behind(s)' /\ Questions(s)'
      BY <1>3, <1>5, <1>6 DEF Ordered, Paired, Behind, Questions, Stands, s
    <2> QED BY <2>1, <2>2 DEF Spoken, s
  <1>7. CASE pipe = "open"
    <2>1. History' = t
      BY <1>3, <1>7
    <2>2. ASSUME NEW i \in 1 .. Len(t) PROVE t[i].kind # "closed"
      <3>1. CASE i \in 1 .. Len(s)
        BY <1>2, <1>4, <3>1
      <3>2. CASE i \notin 1 .. Len(s)
        <4>1. PICK k \in 1 .. Len(lines) : i = Len(s) + k
          BY <1>2, <3>2
        <4>2. t[i] = lines[k]
          BY <1>2, <4>1
        <4> QED BY <4>2 DEF Fits
      <3> QED BY <3>1, <3>2
    <2>3. Ordered(t)
      <3> SUFFICES ASSUME NEW i \in 1 .. Len(t), NEW j \in 1 .. Len(t), i < j,
                          Disposed(t[i]), Disposed(t[j])
                   PROVE  t[i].of < t[j].of
        BY DEF Ordered
      <3>1. CASE i \in 1 .. Len(s) /\ j \in 1 .. Len(s)
        BY <1>2, <1>5, <3>1 DEF Ordered
      <3>2. CASE i \in 1 .. Len(s) /\ j \notin 1 .. Len(s)
        <4>1. PICK k \in 1 .. Len(lines) : j = Len(s) + k
          BY <1>2, <3>2
        <4> QED BY <1>2, <3>2, <4>1 DEF Fits, s
      <3>3. CASE i \notin 1 .. Len(s)
        <4>1. PICK k \in 1 .. Len(lines) : i = Len(s) + k
          BY <1>2, <3>3
        <4>2. j \notin 1 .. Len(s)
          BY <1>2, <4>1
        <4>3. PICK l \in 1 .. Len(lines) : j = Len(s) + l
          BY <1>2, <4>2
        <4>4. k = l
          BY <1>2, <4>1, <4>3 DEF Fits
        <4> QED BY <1>2, <4>1, <4>3, <4>4
      <3> QED BY <3>1, <3>2, <3>3
    <2>4. Paired(t)
      <3> SUFFICES ASSUME NEW i \in 1 .. Len(t), t[i].kind = "unconfirmed"
                   PROVE  i > 1 /\ t[i - 1].kind = "settings" /\ t[i - 1].of = t[i].of
        BY DEF Paired
      <3>1. CASE i \in 1 .. Len(s)
        <4>1. i > 1 /\ s[i - 1].kind = "settings" /\ s[i - 1].of = s[i].of /\ t[i] = s[i]
          BY <1>2, <1>5, <3>1 DEF Paired
        <4>2. i - 1 \in 1 .. Len(s)
          BY <1>2, <3>1, <4>1
        <4> QED BY <1>2, <4>1, <4>2
      <3>2. CASE i \notin 1 .. Len(s)
        <4>1. PICK k \in 1 .. Len(lines) : i = Len(s) + k
          BY <1>2, <3>2
        <4>2. /\ t[i] = lines[k] /\ k > 1
              /\ lines[k - 1].kind = "settings" /\ lines[k - 1].of = lines[k].of
          BY <1>2, <4>1 DEF Fits
        <4>3. k - 1 \in 1 .. Len(lines) /\ i - 1 = Len(s) + (k - 1) /\ i > 1
          BY <1>2, <4>1, <4>2
        <4> QED BY <1>2, <4>2, <4>3
      <3> QED BY <3>1, <3>2
    <2>5. Behind(History)'
      <3> SUFFICES ASSUME NEW i \in 1 .. Len(t), Disposed(t[i])
                   PROVE  /\ t[i].of \in Commands /\ op'[t[i].of] # "unread"
                          /\ \A j \in 1 .. Len(chain') : t[i].of < chain'[j]
        BY <2>1 DEF Behind
      <3>1. CASE i \in 1 .. Len(s)
        BY <1>2, <3>1 DEF Stands, s
      <3>2. CASE i \notin 1 .. Len(s)
        <4>1. PICK k \in 1 .. Len(lines) : i = Len(s) + k
          BY <1>2, <3>2
        <4>2. t[i] = lines[k]
          BY <1>2, <4>1
        <4> QED BY <4>2 DEF Fits
      <3> QED BY <3>1, <3>2
    <2>6. Questions(History)'
      <3> SUFFICES ASSUME NEW i \in 1 .. Len(t), t[i].kind = "awaiting-input"
                   PROVE  /\ t[i].of <= taken'
                          /\ t[i].of = taken' => awaiting' /\ pump' # "turn"
        BY <2>1 DEF Questions
      <3>1. CASE i \in 1 .. Len(s)
        BY <1>2, <3>1 DEF Stands, s
      <3>2. CASE i \notin 1 .. Len(s)
        <4>1. PICK k \in 1 .. Len(lines) : i = Len(s) + k
          BY <1>2, <3>2
        <4>2. t[i] = lines[k]
          BY <1>2, <4>1
        <4> QED BY <4>2 DEF Fits
      <3> QED BY <3>1, <3>2
    <2>7. Ordered(History)' /\ Paired(History)' /\ Ends(History)'
      BY <2>1, <2>2, <2>3, <2>4 DEF Ordered, Paired, Ends
    <2> QED BY <2>5, <2>6, <2>7 DEF Spoken
  <1> QED BY <1>6, <1>7

(* What was answered stays answered. *)
LEMMA HasGrows ==
  ASSUME NEW s \in Seq(LineType), NEW lines \in Seq(LineType), NEW kind, NEW c,
         Has(s, kind, c) \/ Has(lines, kind, c)
  PROVE  Has(s \o lines, kind, c)
  <1>1. CASE Has(s, kind, c)
    <2>1. PICK i \in 1 .. Len(s) : s[i].kind = kind /\ s[i].of = c
      BY <1>1 DEF Has
    <2>2. i \in 1 .. Len(s \o lines) /\ (s \o lines)[i] = s[i]
      BY Joined
    <2> QED BY <2>1, <2>2 DEF Has
  <1>2. CASE Has(lines, kind, c)
    <2>1. PICK i \in 1 .. Len(lines) : lines[i].kind = kind /\ lines[i].of = c
      BY <1>2 DEF Has
    <2>2. Len(s) + i \in 1 .. Len(s \o lines) /\ (s \o lines)[Len(s) + i] = lines[i]
      BY Joined
    <2> QED BY <2>1, <2>2 DEF Has
  <1> QED BY <1>1, <1>2

(* A step before the terminal line, whatever it emits. *)
LEMMA EmitKeeps ==
  ASSUME JsonInv, NEW lines \in Seq(LineType), Emit(lines),
         UNCHANGED <<scope, stdin, broke, out, parked, pipe, gone, closing, over, stage>>,
         stage \notin {"exiting", "exited"}, Fits(lines), Stands,
         op' \in [Commands -> Ops \cup {"unread"}],
         verdict' \in [Commands -> {"none", "owed", "accepted", "rejected", "closed",
                                    "no-question", "settled"}],
         chain' \in Seq(Commands), pump' \in {"idle", "turn", "done"},
         taken' \in 0 .. MaxTurns, question' \in 0 .. MaxTurns, awaiting' \in BOOLEAN,
         \A c, d \in Commands : op'[c] # "unread" /\ d < c => op'[d] # "unread",
         Chained',
         \A c \in Commands : op'[c] # "unread" =>
           \/ op'[c] = op[c] /\ Has(History, Answer(op[c]), c)
           \/ Has(lines, Answer(op'[c]), c) \/ verdict'[c] = "owed" \/ InChain(c)'
           \/ pipe # "open"
  PROVE  JsonInv'
  <1>0. TypeOK /\ Spoken(History) /\ Closing
    BY DEF JsonInv
  <1>1. queue' \in Seq(LineType) /\ (parked' => queue' # <<>>)
        /\ History \in Seq(LineType)
        /\ History' = IF pipe = "open" THEN History \o lines ELSE History
    BY <1>0, Emission, HistoryTyped
  <1>2. TypeOK'
    BY <1>0, <1>1 DEF TypeOK
  <1>3. Spoken(History)'
    BY <1>0, SpokenGrows
  <1>4. Closing'
    BY <1>0 DEF Closing
  <1>5. Reads'
    <2>1. ASSUME NEW c \in Commands, op'[c] # "unread", pipe = "open" PROVE Answered(c)'
      <3>1. CASE verdict'[c] = "owed" \/ InChain(c)'
        BY <3>1 DEF Answered
      <3>2. CASE op'[c] = op[c] /\ Has(History, Answer(op[c]), c)
        <4>1. Has(History \o lines, Answer(op[c]), c)
          BY <1>1, <3>2, HasGrows
        <4>2. Has(History, Answer(op[c]), c)' /\ Answer(op[c])' = Answer(op'[c])
          BY <1>1, <2>1, <3>2, <4>1 DEF Has, Answer
        <4> QED BY <4>2 DEF Answered
      <3>3. CASE Has(lines, Answer(op'[c]), c)
        <4>1. Has(History \o lines, Answer(op'[c]), c)
          BY <1>1, <3>3, HasGrows
        <4>2. Has(History, Answer(op[c]), c)'
          BY <1>1, <2>1, <4>1 DEF Has, Answer
        <4> QED BY <4>2 DEF Answered
      <3> QED BY <2>1, <3>1, <3>2, <3>3
    <2> QED BY <2>1 DEF Reads
  <1> QED BY <1>2, <1>3, <1>4, <1>5 DEF JsonInv

LEMMA EmptyEmission ==
  ASSUME TypeOK, queue' = queue
  PROVE  Emit(<<>>) /\ <<>> \in Seq(LineType) /\ Len(<<>>) = 0
  <1>1. queue \in Seq(LineType)
    BY DEF TypeOK
  <1>2. queue \o <<>> = queue
    BY <1>1
  <1> QED BY <1>2 DEF Emit

LEMMA OneLine ==
  ASSUME NEW l \in LineType
  PROVE  <<l>> \in Seq(LineType) /\ Len(<<l>>) = 1 /\ <<l>>[1] = l
         /\ \A i \in 1 .. Len(<<l>>) : i = 1
  OBVIOUS

-----------------------------------------------------------------------------
(* The command pump *)

Verdicts == {"none", "owed", "accepted", "rejected", "closed", "no-question", "settled"}

LEMMA CommandKeeps ==
  ASSUME JsonInv, NEW c \in Commands, NEW o \in Ops, NEW v \in Verdicts,
         Reading, op[c] = "unread", Ready(c),
         op' = [op EXCEPT ![c] = o], verdict' = [verdict EXCEPT ![c] = v],
         UNCHANGED <<scope, stdin, broke, turns, writer, session, stage>>,
         NEW lines \in Seq(LineType), Emit(lines),
         chain' = chain \/ (chain' = Append(chain, c) /\ o \in {"send", "answer"}),
         \/ lines = <<>>
         \/ \E kind \in {"disposition", "interruption", "approval-disposition", "error",
                         "requested"} :
              lines = <<Line(kind, c, "input")>> /\ (kind = "disposition" => chain' = <<>>),
         Has(lines, Answer(o), c) \/ v = "owed" \/ chain' = Append(chain, c)
  PROVE  JsonInv'
  <1>0. /\ TypeOK /\ Reads /\ Chained /\ Closing /\ Spoken(History)
        /\ op \in [Commands -> Ops \cup {"unread"}] /\ verdict \in [Commands -> Verdicts]
        /\ chain \in Seq(Commands)
    BY DEF JsonInv, TypeOK, Verdicts
  <1>1. /\ op' \in [Commands -> Ops \cup {"unread"}] /\ op'[c] = o /\ o # "unread"
        /\ \A d \in Commands : d # c => op'[d] = op[d]
        /\ \A d \in Commands : op[d] # "unread" => d # c /\ op'[d] = op[d]
        /\ verdict' \in [Commands -> Verdicts] /\ verdict'[c] = v
        /\ \A d \in Commands : d # c => verdict'[d] = verdict[d]
    BY <1>0 DEF Ops
  <1>2. ASSUME NEW d \in Commands, op[d] # "unread" PROVE d < c
    <2>1. ~ (c < d) /\ d # c
      BY <1>0, <1>2 DEF Reads
    <2> QED BY <2>1, Numbers
  <1>3. \A i \in 1 .. Len(History) : Disposed(History[i]) =>
          /\ History[i].of \in Commands /\ op[History[i].of] # "unread" /\ History[i].of < c
          /\ \A j \in 1 .. Len(chain) : History[i].of < chain[j]
    BY <1>0, <1>2 DEF Spoken, Behind
  <1>4. \A i \in 1 .. Len(chain) : chain[i] \in Commands /\ chain[i] < c /\ op'[chain[i]] = op[chain[i]]
                                   /\ op[chain[i]] \in {"send", "answer"}
    <2>1. ASSUME NEW i \in 1 .. Len(chain)
          PROVE  chain[i] \in Commands /\ op[chain[i]] \in {"send", "answer"}
      BY <1>0 DEF Chained
    <2>2. ASSUME NEW i \in 1 .. Len(chain)
          PROVE  chain[i] < c /\ op'[chain[i]] = op[chain[i]]
      BY <1>1, <1>2, <2>1
    <2> QED BY <2>1, <2>2
  <1>5. /\ chain' \in Seq(Commands)
        /\ \A i \in 1 .. Len(chain') :
             \/ i \in 1 .. Len(chain) /\ chain'[i] = chain[i]
             \/ i = Len(chain) + 1 /\ chain'[i] = c /\ o \in {"send", "answer"}
        /\ \A i \in 1 .. Len(chain) : i \in 1 .. Len(chain') /\ chain'[i] = chain[i]
        /\ chain' = Append(chain, c) => Len(chain) + 1 \in 1 .. Len(chain')
                                        /\ chain'[Len(chain) + 1] = c
        /\ Len(chain) \in Nat
    <2>1. Len(chain) \in Nat
      BY <1>0
    <2>2. CASE chain' = chain
      <3>1. Len(Append(chain, c)) = Len(chain) + 1 /\ chain' # Append(chain, c)
        BY <1>0, <2>1, <2>2
      <3> QED BY <1>0, <2>1, <2>2, <3>1
    <2>3. CASE chain' = Append(chain, c) /\ o \in {"send", "answer"}
      <3>1. /\ chain' \in Seq(Commands) /\ Len(chain') = Len(chain) + 1
            /\ \A i \in 1 .. Len(chain) : chain'[i] = chain[i]
            /\ chain'[Len(chain) + 1] = c
        BY <1>0, <2>3, AppendProperties
      <3> QED BY <2>1, <2>3, <3>1
    <2> QED BY <2>2, <2>3
  <1>6. Chained'
    <2>1. ASSUME NEW i \in 1 .. Len(chain') PROVE op'[chain'[i]] \in {"send", "answer"}
      BY <1>1, <1>4, <1>5
    <2>2. ASSUME NEW i \in 1 .. Len(chain'), NEW j \in 1 .. Len(chain'), i < j
          PROVE  chain'[i] < chain'[j]
      <3>1. i \in 1 .. Len(chain) /\ chain'[i] = chain[i]
        BY <1>5, <2>2
      <3>2. CASE j \in 1 .. Len(chain) /\ chain'[j] = chain[j]
        BY <1>0, <2>2, <3>1, <3>2 DEF Chained
      <3>3. CASE chain'[j] = c
        BY <1>4, <3>1, <3>3
      <3> QED BY <1>5, <3>2, <3>3
    <2> QED BY <2>1, <2>2 DEF Chained
  <1>7. \A d, e \in Commands : op'[d] # "unread" /\ e < d => op'[e] # "unread"
    <2> SUFFICES ASSUME NEW d \in Commands, NEW e \in Commands, op'[d] # "unread", e < d
                 PROVE  op'[e] # "unread"
      OBVIOUS
    <2>1. CASE d = c
      <3>1. e \in 1 .. (c - 1)
        BY <2>1, Numbers DEF Commands
      <3> QED BY <1>1, <3>1 DEF Ready
    <2>2. CASE d # c
      BY <1>0, <1>1, <2>2 DEF Reads
    <2> QED BY <2>1, <2>2
  <1>8. Fits(lines)
    <2>1. CASE lines = <<>>
      BY <2>1 DEF Fits
    <2>2. ASSUME NEW kind \in {"disposition", "interruption", "approval-disposition", "error",
                               "requested"},
                 lines = <<Line(kind, c, "input")>>, kind = "disposition" => chain' = <<>>
          PROVE  Fits(lines)
      <3>1. /\ Len(lines) = 1 /\ lines[1].kind = kind /\ lines[1].of = c
            /\ \A i \in 1 .. Len(lines) : i = 1
        BY <2>2 DEF Line
      <3>2. kind = "disposition" => Len(chain') = 0
        BY <2>2
      <3>3. \A i \in 1 .. Len(lines) : Disposed(lines[i]) =>
               /\ lines[i].of \in Commands /\ op'[lines[i].of] # "unread"
               /\ \A j \in 1 .. Len(chain') : lines[i].of < chain'[j]
               /\ \A j \in 1 .. Len(History) : Disposed(History[j]) => History[j].of < lines[i].of
        BY <1>1, <1>3, <3>1, <3>2 DEF Disposed
      <3> QED BY <3>1, <3>3 DEF Fits
    <2> QED BY <2>1, <2>2
  <1>9. Stands
    <2>1. ASSUME NEW i \in 1 .. Len(History), Disposed(History[i])
          PROVE  /\ History[i].of \in Commands /\ op'[History[i].of] # "unread"
                 /\ \A j \in 1 .. Len(chain') : History[i].of < chain'[j]
      BY <1>1, <1>3, <1>5, <2>1
    <2>2. taken' = taken /\ awaiting' = awaiting /\ pump' = pump
      BY DEF turns
    <2> QED BY <1>0, <2>1, <2>2 DEF Stands, Spoken, Questions
  <1>10. ASSUME NEW d \in Commands, op'[d] # "unread"
         PROVE  \/ op'[d] = op[d] /\ Has(History, Answer(op[d]), d)
                \/ Has(lines, Answer(op'[d]), d) \/ verdict'[d] = "owed" \/ InChain(d)'
                \/ pipe # "open"
    <2>1. CASE d = c
      BY <1>1, <1>5, <2>1 DEF InChain
    <2>2. CASE d # c /\ pipe = "open"
      <3>1. op'[d] = op[d] /\ verdict'[d] = verdict[d] /\ Answered(d)
        BY <1>0, <1>1, <1>10, <2>2 DEF Reads
      <3>2. InChain(d) => InChain(d)'
        BY <1>5 DEF InChain
      <3> QED BY <3>1, <3>2 DEF Answered
    <2> QED BY <2>1, <2>2
  <1>11. /\ stage \notin {"exiting", "exited"}
         /\ UNCHANGED <<scope, stdin, broke, out, parked, pipe, gone, closing, over, stage>>
         /\ pump' \in {"idle", "turn", "done"} /\ taken' \in 0 .. MaxTurns
         /\ question' \in 0 .. MaxTurns /\ awaiting' \in BOOLEAN
    BY <1>0 DEF Reading, turns, writer, session, TypeOK
  <1>12. verdict' \in [Commands -> {"none", "owed", "accepted", "rejected", "closed",
                                    "no-question", "settled"}]
    BY <1>1 DEF Verdicts
  <1> QED BY <1>1, <1>5, <1>6, <1>7, <1>8, <1>9, <1>10, <1>11, <1>12, EmitKeeps

LEMMA CommandStep ==
  ASSUME JsonInv, NEW c \in Commands, NEW o \in Ops, CommandRead(c, o)
  PROVE  JsonInv'
  <1>0. /\ Reading /\ op[c] = "unread" /\ Ready(c) /\ op' = [op EXCEPT ![c] = o]
        /\ UNCHANGED <<scope, stdin, broke, turns, writer, session, stage>>
    BY DEF CommandRead
  <1>1. TypeOK /\ c \in 0 .. (MaxCommands + MaxTurns) /\ chain \in Seq(Commands)
        /\ queue \in Seq(LineType)
    BY Numbers DEF JsonInv, TypeOK
  <1>2. ASSUME NEW kind \in {"disposition", "interruption", "approval-disposition", "error",
                             "requested"}
        PROVE  /\ <<Line(kind, c, "input")>> \in Seq(LineType)
               /\ Has(<<Line(kind, c, "input")>>, kind, c)
    <2>1. Line(kind, c, "input") \in LineType
      BY <1>1, LineTyped DEF Kinds, Emitters
    <2>2. /\ Len(<<Line(kind, c, "input")>>) = 1
          /\ <<Line(kind, c, "input")>>[1].kind = kind /\ <<Line(kind, c, "input")>>[1].of = c
      BY DEF Line
    <2>3. 1 \in 1 .. Len(<<Line(kind, c, "input")>>)
      BY <2>2
    <2> QED BY <2>1, <2>2, <2>3 DEF Has
  <1>3. ASSUME NEW v \in Verdicts, verdict' = [verdict EXCEPT ![c] = v],
               chain' = Append(chain, c), queue' = queue, o \in {"send", "answer"}
        PROVE  JsonInv'
    <2>1. Emit(<<>>) /\ <<>> \in Seq(LineType)
      BY <1>1, <1>3, EmptyEmission
    <2> QED BY <1>0, <1>3, <2>1, CommandKeeps
  <1>4. ASSUME NEW v \in Verdicts, verdict' = [verdict EXCEPT ![c] = v], o \in {"send", "answer"},
               AnswerCommand(c, v)
        PROVE  JsonInv'
    <2>1. CASE /\ v # "owed" /\ chain = <<>> /\ Emit(<<Line("disposition", c, "input")>>)
               /\ chain' = chain
      <3>1. Answer(o) = "disposition"
        BY <1>4 DEF Answer
      <3>2. /\ <<Line("disposition", c, "input")>> \in Seq(LineType)
            /\ Has(<<Line("disposition", c, "input")>>, Answer(o), c)
        BY <1>2, <3>1
      <3> QED BY <1>0, <1>4, <2>1, <3>2, CommandKeeps
    <2>2. CASE chain' = Append(chain, c) /\ queue' = queue
      BY <1>3, <1>4, <2>2
    <2> QED BY <1>4, <2>1, <2>2 DEF AnswerCommand
  <1>5. CASE o \in {"send", "answer"} /\ (SendRead(c, o) \/ AnswerRefused(c, o))
    <2>1. PICK v \in Verdicts : verdict' = [verdict EXCEPT ![c] = v] /\ AnswerCommand(c, v)
      BY <1>5 DEF SendRead, SendVerdicts, AnswerRefused, Verdicts
    <2> QED BY <1>4, <1>5, <2>1
  <1>6. ASSUME NEW v \in Verdicts, verdict' = [verdict EXCEPT ![c] = v], chain' = chain,
               NEW kind \in {"interruption", "approval-disposition", "error", "requested"},
               Emit(<<Line(kind, c, "input")>>), kind = Answer(o) \/ v = "owed"
        PROVE  JsonInv'
    <2>1. /\ <<Line(kind, c, "input")>> \in Seq(LineType)
          /\ Has(<<Line(kind, c, "input")>>, kind, c)
      BY <1>2
    <2>2. \E k \in {"disposition", "interruption", "approval-disposition", "error", "requested"} :
            /\ <<Line(kind, c, "input")>> = <<Line(k, c, "input")>>
            /\ k = "disposition" => chain' = <<>>
      BY <1>6
    <2>3. Has(<<Line(kind, c, "input")>>, Answer(o), c) \/ v = "owed"
      BY <1>6, <2>1
    <2> HIDE <1>2
    <2> QED BY <1>0, <1>6, <2>1, <2>2, <2>3, CommandKeeps
  <1>7. CASE o = "interrupt" /\ InterruptRead(c)
    <2>1. Answer(o) = "interruption" /\ "rejected" \in Verdicts /\ "owed" \in Verdicts
      BY <1>7 DEF Answer, Verdicts
    <2>2. CASE /\ verdict' = [verdict EXCEPT ![c] = "rejected"]
               /\ Emit(<<Line("interruption", c, "input")>>)
      BY <1>6, <1>7, <2>1, <2>2 DEF InterruptRead
    <2>3. CASE /\ verdict' = [verdict EXCEPT ![c] = "owed"]
               /\ Emit(<<Line("requested", c, "input")>>)
      BY <1>6, <1>7, <2>1, <2>3 DEF InterruptRead
    <2> QED BY <1>7, <2>2, <2>3 DEF InterruptRead
  <1>8. CASE \/ o = "approval" /\ DirectRead(c, "approval-disposition")
             \/ o = "malformed" /\ DirectRead(c, "error")
    <2>1. /\ o = "approval" => Answer(o) = "approval-disposition"
          /\ o = "malformed" => Answer(o) = "error"
          /\ "settled" \in Verdicts
      BY DEF Answer, Verdicts
    <2> QED BY <1>6, <1>8, <2>1 DEF DirectRead
  <1>9. CASE o = "settings" /\ SettingsRead(c)
    <2>1. /\ Emit(<<>>) /\ <<>> \in Seq(LineType) /\ chain' = chain
          /\ verdict' = [verdict EXCEPT ![c] = "owed"] /\ "owed" \in Verdicts
      BY <1>1, <1>9, EmptyEmission DEF SettingsRead, Verdicts
    <2> QED BY <1>0, <2>1, CommandKeeps
  <1> QED BY <1>5, <1>7, <1>8, <1>9 DEF CommandRead

-----------------------------------------------------------------------------
(* Receipts *)

(* A step of the receipts or the turns: no command is read by it. *)
LEMMA SettledKeeps ==
  ASSUME JsonInv, NEW lines \in Seq(LineType), Emit(lines), Fits(lines), Stands,
         UNCHANGED <<scope, op, stdin, broke, writer, session, stage>>,
         stage \notin {"exiting", "exited"},
         verdict' \in [Commands -> Verdicts], chain' \in Seq(Commands),
         pump' \in {"idle", "turn", "done"}, taken' \in 0 .. MaxTurns,
         question' \in 0 .. MaxTurns, awaiting' \in BOOLEAN, Chained',
         \A c \in Commands :
           \/ (verdict[c] = "owed" => verdict'[c] = "owed") /\ (InChain(c) => InChain(c)')
           \/ Has(lines, Answer(op[c]), c) \/ InChain(c)'
  PROVE  JsonInv'
  <1>1. TypeOK /\ Reads
    BY DEF JsonInv
  <1>2. ASSUME NEW c \in Commands, op'[c] # "unread"
        PROVE  \/ op'[c] = op[c] /\ Has(History, Answer(op[c]), c)
               \/ Has(lines, Answer(op'[c]), c) \/ verdict'[c] = "owed" \/ InChain(c)'
               \/ pipe # "open"
    <2>1. op' = op /\ op'[c] = op[c]
      OBVIOUS
    <2>2. pipe = "open" => Answered(c)
      BY <1>1, <1>2, <2>1 DEF Reads
    <2>3. CASE (verdict[c] = "owed" => verdict'[c] = "owed") /\ (InChain(c) => InChain(c)')
      BY <2>1, <2>2, <2>3 DEF Answered
    <2>4. CASE Has(lines, Answer(op[c]), c) \/ InChain(c)'
      BY <2>1, <2>4
    <2> QED BY <2>3, <2>4
  <1>3. \A c, d \in Commands : op'[c] # "unread" /\ d < c => op'[d] # "unread"
    BY <1>1 DEF Reads
  <1>4. op' \in [Commands -> Ops \cup {"unread"}]
    BY <1>1 DEF TypeOK
  <1>5. /\ UNCHANGED <<scope, stdin, broke, out, parked, pipe, gone, closing, over, stage>>
        /\ verdict' \in [Commands -> {"none", "owed", "accepted", "rejected", "closed",
                                      "no-question", "settled"}]
    BY DEF writer, session, Verdicts
  <1> QED BY <1>2, <1>3, <1>4, <1>5, EmitKeeps

LEMMA SendSettlesStep ==
  ASSUME JsonInv, NEW c \in Commands, SendSettles(c)
  PROVE  JsonInv'
  <1>0. TypeOK /\ Chained /\ Closing /\ Spoken(History)
    BY DEF JsonInv
  <1>1. /\ verdict[c] = "owed" /\ InChain(c) /\ verdict' = [verdict EXCEPT ![c] = "settled"]
        /\ UNCHANGED <<scope, op, stdin, broke, chain, turns, queue, writer, session, stage>>
    BY DEF SendSettles
  <1>2. stage \notin {"exiting", "exited"}
    BY <1>0, <1>1 DEF Closing
  <1>3. Emit(<<>>) /\ <<>> \in Seq(LineType) /\ Fits(<<>>)
    BY <1>0, <1>1, EmptyEmission DEF Fits
  <1>4. Stands
    BY <1>0, <1>1 DEF Stands, Spoken, Behind, Questions, turns
  <1>5. verdict' \in [Commands -> Verdicts] /\ \A d \in Commands : d # c => verdict'[d] = verdict[d]
    BY <1>0, <1>1 DEF TypeOK, Verdicts
  <1>6. /\ chain' \in Seq(Commands) /\ pump' \in {"idle", "turn", "done"} /\ taken' \in 0 .. MaxTurns
        /\ question' \in 0 .. MaxTurns /\ awaiting' \in BOOLEAN
        /\ \A d \in Commands : InChain(d) => InChain(d)'
    BY <1>0, <1>1 DEF TypeOK, turns, InChain
  <1>7. Chained'
    BY <1>0, <1>1 DEF Chained
  <1>8. \A d \in Commands :
          ((verdict[d] = "owed" => verdict'[d] = "owed") /\ (InChain(d) => InChain(d)'))
          \/ Has(<<>>, Answer(op[d]), d) \/ InChain(d)'
    BY <1>1, <1>5, <1>6
  <1> QED BY <1>1, <1>2, <1>3, <1>4, <1>5, <1>6, <1>7, <1>8, SettledKeeps

LEMMA DispositionStep ==
  ASSUME JsonInv, NEW c \in Commands, DispositionLeaves(c)
  PROVE  JsonInv'
  <1> DEFINE lines == <<Line("disposition", c, "chain")>>
  <1>0. /\ TypeOK /\ Chained /\ Closing /\ Spoken(History) /\ chain \in Seq(Commands)
        /\ c \in 0 .. (MaxCommands + MaxTurns)
    BY Numbers DEF JsonInv, TypeOK
  <1>1. /\ chain # <<>> /\ c = Head(chain) /\ chain' = Tail(chain) /\ Emit(lines)
        /\ UNCHANGED <<scope, input, turns, writer, session, stage>>
    BY DEF DispositionLeaves, Leaves
  <1>2. Line("disposition", c, "chain") \in LineType
    BY <1>0, LineTyped DEF Kinds, Emitters
  <1>3. /\ lines \in Seq(LineType) /\ Len(lines) = 1 /\ lines[1] = Line("disposition", c, "chain")
        /\ \A i \in 1 .. Len(lines) : i = 1
    BY <1>2, OneLine
  <1> HIDE DEF lines
  <1>4. /\ chain' \in Seq(Commands) /\ Len(chain') = Len(chain) - 1 /\ Len(chain) \in Nat
        /\ Len(chain) > 0 /\ c = chain[1]
        /\ \A i \in 1 .. Len(chain') : i + 1 \in 1 .. Len(chain) /\ chain'[i] = chain[i + 1]
        /\ \A i \in 1 .. Len(chain) : i = 1 \/ (i - 1 \in 1 .. Len(chain') /\ chain'[i - 1] = chain[i])
    <2>1. /\ chain' \in Seq(Commands) /\ Len(chain') = Len(chain) - 1 /\ Len(chain) \in Nat
          /\ Len(chain) > 0 /\ c = chain[1]
      BY <1>0, <1>1, EmptySeq
    <2>2. ASSUME NEW i \in 1 .. Len(chain')
          PROVE  i + 1 \in 1 .. Len(chain) /\ chain'[i] = chain[i + 1]
      BY <1>0, <1>1, <2>1
    <2>3. ASSUME NEW i \in 1 .. Len(chain), i # 1
          PROVE  i - 1 \in 1 .. Len(chain') /\ chain'[i - 1] = chain[i]
      <3>1. i - 1 \in 1 .. Len(chain') /\ i - 1 + 1 = i
        BY <2>1, <2>3
      <3> QED BY <2>2, <3>1
    <2> QED BY <2>1, <2>2, <2>3
  <1>5. Chained' /\ \A j \in 1 .. Len(chain') : c < chain'[j]
    <2>1. ASSUME NEW i \in 1 .. Len(chain') PROVE op'[chain'[i]] \in {"send", "answer"}
      BY <1>0, <1>1, <1>4 DEF Chained, input
    <2>2. ASSUME NEW i \in 1 .. Len(chain'), NEW j \in 1 .. Len(chain'), i < j
          PROVE  chain'[i] < chain'[j]
      <3>1. i + 1 \in 1 .. Len(chain) /\ j + 1 \in 1 .. Len(chain) /\ i + 1 < j + 1
        BY <1>4, <2>2
      <3>2. chain[i + 1] < chain[j + 1]
        BY <1>0, <3>1 DEF Chained
      <3> QED BY <1>4, <3>2
    <2>3. ASSUME NEW j \in 1 .. Len(chain') PROVE c < chain'[j]
      <3>1. 1 \in 1 .. Len(chain) /\ j + 1 \in 1 .. Len(chain) /\ 1 < j + 1
        BY <1>4
      <3>2. chain[1] < chain[j + 1]
        BY <1>0, <3>1 DEF Chained
      <3> QED BY <1>4, <3>2
    <2> QED BY <2>1, <2>2, <2>3 DEF Chained
  <1>6. op[c] \in {"send", "answer"} /\ Answer(op[c]) = "disposition" /\ op' = op
    <2>1. 1 \in 1 .. Len(chain)
      BY <1>4
    <2>2. op[c] \in {"send", "answer"}
      BY <1>0, <1>4, <2>1 DEF Chained
    <2> QED BY <1>1, <2>2 DEF Answer, input
  <1>7. \A i \in 1 .. Len(History) : Disposed(History[i]) =>
          /\ History[i].of \in Commands /\ op[History[i].of] # "unread"
          /\ \A j \in 1 .. Len(chain) : History[i].of < chain[j]
    BY <1>0 DEF Spoken, Behind
  <1>8. Fits(lines)
    <2>1. /\ lines[1].kind = "disposition" /\ lines[1].of = c
      BY <1>3 DEF Line
    <2>2. \A j \in 1 .. Len(History) : Disposed(History[j]) => History[j].of < c
      <3>1. 1 \in 1 .. Len(chain)
        BY <1>4
      <3> QED BY <1>4, <1>7, <3>1
    <2> QED BY <1>3, <1>5, <1>6, <2>1, <2>2 DEF Fits
  <1>9. Stands
    <2>1. taken' = taken /\ awaiting' = awaiting /\ pump' = pump
      BY <1>1 DEF turns
    <2>2. ASSUME NEW i \in 1 .. Len(History), Disposed(History[i])
          PROVE  \A j \in 1 .. Len(chain') : History[i].of < chain'[j]
      BY <1>4, <1>7, <2>2
    <2> QED BY <1>0, <1>6, <1>7, <2>1, <2>2 DEF Stands, Spoken, Questions
  <1>10. stage \notin {"exiting", "exited"}
    BY <1>0, <1>1 DEF Closing
  <1>11. /\ UNCHANGED <<scope, op, stdin, broke, writer, session, stage>>
         /\ verdict' \in [Commands -> Verdicts] /\ pump' \in {"idle", "turn", "done"}
         /\ taken' \in 0 .. MaxTurns /\ question' \in 0 .. MaxTurns /\ awaiting' \in BOOLEAN
    BY <1>0, <1>1 DEF input, turns, TypeOK, Verdicts
  <1>12. ASSUME NEW d \in Commands
         PROVE  \/ (verdict[d] = "owed" => verdict'[d] = "owed") /\ (InChain(d) => InChain(d)')
                \/ Has(lines, Answer(op[d]), d) \/ InChain(d)'
    <2>1. CASE d = c
      <3>1. 1 \in 1 .. Len(lines) /\ lines[1].kind = "disposition" /\ lines[1].of = c
        BY <1>3 DEF Line
      <3> QED BY <1>6, <2>1, <3>1 DEF Has
    <2>2. CASE d # c
      <3>1. verdict'[d] = verdict[d]
        BY <1>1 DEF input
      <3>2. InChain(d) => InChain(d)'
        BY <1>4, <2>2 DEF InChain
      <3> QED BY <3>1, <3>2
    <2> QED BY <2>1, <2>2
  <1> QED BY <1>1, <1>3, <1>4, <1>5, <1>8, <1>9, <1>10, <1>11, <1>12, SettledKeeps

LEMMA ReceiptStep ==
  ASSUME JsonInv, NEW c \in Commands, ReceiptSettles(c)
  PROVE  JsonInv'
  <1>0. /\ TypeOK /\ Chained /\ Closing /\ Spoken(History)
        /\ c \in 0 .. (MaxCommands + MaxTurns)
    BY Numbers DEF JsonInv
  <1>1. /\ verdict[c] = "owed" /\ verdict' = [verdict EXCEPT ![c] = "settled"]
        /\ \/ op[c] = "interrupt" /\ Emit(<<Line("interruption", c, "receipt")>>)
           \/ op[c] = "settings" /\ \E lines \in SettingsLines(c) : Emit(lines)
        /\ UNCHANGED <<scope, op, stdin, broke, chain, turns, writer, session, stage>>
    BY DEF ReceiptSettles
  <1>2. stage \notin {"exiting", "exited"}
    BY <1>0, <1>1 DEF Closing
  <1>3. Stands
    BY <1>0, <1>1 DEF Stands, Spoken, Behind, Questions, turns
  <1>4. verdict' \in [Commands -> Verdicts] /\ \A d \in Commands : d # c => verdict'[d] = verdict[d]
    BY <1>0, <1>1 DEF TypeOK, Verdicts
  <1>5. /\ chain' \in Seq(Commands) /\ pump' \in {"idle", "turn", "done"} /\ taken' \in 0 .. MaxTurns
        /\ question' \in 0 .. MaxTurns /\ awaiting' \in BOOLEAN
        /\ \A d \in Commands : InChain(d) => InChain(d)'
    BY <1>0, <1>1 DEF TypeOK, turns, InChain
  <1>6. Chained'
    BY <1>0, <1>1 DEF Chained
  <1>7. ASSUME NEW lines \in Seq(LineType), Emit(lines), Fits(lines), Has(lines, Answer(op[c]), c)
        PROVE  JsonInv'
    <2>1. \A d \in Commands :
            \/ (verdict[d] = "owed" => verdict'[d] = "owed") /\ (InChain(d) => InChain(d)')
            \/ Has(lines, Answer(op[d]), d) \/ InChain(d)'
      BY <1>4, <1>5, <1>7
    <2> QED BY <1>1, <1>2, <1>3, <1>4, <1>5, <1>6, <1>7, <2>1, SettledKeeps
  <1>8. /\ Line("interruption", c, "receipt") \in LineType
        /\ Line("settings", c, "receipt") \in LineType
        /\ Line("unconfirmed", c, "receipt") \in LineType
    BY <1>0, LineTyped DEF Kinds, Emitters
  <1>9. ASSUME NEW kind \in {"interruption", "settings"}, Answer(op[c]) = kind,
               Emit(<<Line(kind, c, "receipt")>>)
        PROVE  JsonInv'
    <2> DEFINE lines == <<Line(kind, c, "receipt")>>
    <2>1. /\ lines \in Seq(LineType) /\ Len(lines) = 1 /\ lines[1] = Line(kind, c, "receipt")
          /\ \A i \in 1 .. Len(lines) : i = 1
      BY <1>8
    <2> HIDE DEF lines
    <2>2. lines[1].kind = kind /\ lines[1].of = c /\ 1 \in 1 .. Len(lines)
      BY <2>1 DEF Line
    <2>3. Fits(lines)
      BY <2>1, <2>2 DEF Fits, Disposed
    <2>4. Has(lines, Answer(op[c]), c)
      BY <1>9, <2>2 DEF Has
    <2> QED BY <1>7, <1>9, <2>1, <2>3, <2>4 DEF lines
  <1>10. CASE op[c] = "interrupt" /\ Emit(<<Line("interruption", c, "receipt")>>)
    <2>1. Answer(op[c]) = "interruption"
      BY <1>10 DEF Answer
    <2> QED BY <1>9, <1>10, <2>1
  <1>11. CASE op[c] = "settings" /\ Emit(<<Line("settings", c, "receipt")>>)
    <2>1. Answer(op[c]) = "settings"
      BY <1>11 DEF Answer
    <2> QED BY <1>9, <1>11, <2>1
  <1>12. CASE /\ op[c] = "settings"
              /\ Emit(<<Line("settings", c, "receipt"), Line("unconfirmed", c, "receipt")>>)
    <2> DEFINE lines == <<Line("settings", c, "receipt"), Line("unconfirmed", c, "receipt")>>
    <2>1. /\ lines \in Seq(LineType) /\ Len(lines) = 2
          /\ lines[1] = Line("settings", c, "receipt")
          /\ lines[2] = Line("unconfirmed", c, "receipt")
          /\ \A i \in 1 .. Len(lines) : i = 1 \/ i = 2
      BY <1>8
    <2>2. Answer(op[c]) = "settings"
      BY <1>12 DEF Answer
    <2> HIDE DEF lines
    <2>3. /\ lines[1].kind = "settings" /\ lines[1].of = c /\ 1 \in 1 .. Len(lines)
          /\ lines[2].kind = "unconfirmed" /\ lines[2].of = c
      BY <2>1 DEF Line
    <2>4. Fits(lines)
      <3>1. \A i \in 1 .. Len(lines) : lines[i].kind \in {"settings", "unconfirmed"}
        BY <2>1, <2>3
      <3>2. \A i \in 1 .. Len(lines) : lines[i].kind = "unconfirmed" =>
               i > 1 /\ lines[i - 1].kind = "settings" /\ lines[i - 1].of = lines[i].of
        <4> SUFFICES ASSUME NEW i \in 1 .. Len(lines), lines[i].kind = "unconfirmed"
                     PROVE  i > 1 /\ lines[i - 1].kind = "settings" /\ lines[i - 1].of = lines[i].of
          OBVIOUS
        <4>1. i = 2 /\ i - 1 = 1
          BY <2>1, <2>3
        <4> QED BY <2>3, <4>1
      <3> QED BY <3>1, <3>2 DEF Fits, Disposed
    <2>5. Has(lines, Answer(op[c]), c)
      BY <2>2, <2>3 DEF Has
    <2> QED BY <1>7, <1>12, <2>1, <2>4, <2>5 DEF lines
  <1> QED BY <1>1, <1>10, <1>11, <1>12 DEF SettingsLines

-----------------------------------------------------------------------------
(* The turn pump *)

LEMMA TurnKeeps ==
  ASSUME JsonInv, NEW lines \in Seq(LineType), Emit(lines),
         UNCHANGED <<scope, input, chain, writer, session, stage>>, pump # "done",
         pump' \in {"idle", "turn", "done"}, taken' \in 0 .. MaxTurns, question' \in 0 .. MaxTurns,
         awaiting' \in BOOLEAN,
         \A i \in 1 .. Len(lines) : lines[i].kind \in {"turn", "question", "done", "awaiting-input"},
         \A i \in 1 .. Len(lines) : lines[i].kind = "awaiting-input" =>
           lines[i].of <= taken' /\ awaiting' /\ pump' # "turn",
         \A t \in 0 .. taken : /\ t <= taken'
                               /\ t = taken' /\ (t = taken => awaiting /\ pump # "turn")
                                    => awaiting' /\ pump' # "turn"
  PROVE  JsonInv'
  <1>0. /\ TypeOK /\ Chained /\ Closing /\ Spoken(History) /\ History \in Seq(LineType)
        /\ taken \in Nat
    BY HistoryTyped, Numbers DEF JsonInv, TypeOK
  <1>1. Fits(lines)
    BY DEF Fits, Disposed
  <1>2. Stands
    <2>1. ASSUME NEW i \in 1 .. Len(History), History[i].kind = "awaiting-input"
          PROVE  /\ History[i].of <= taken'
                 /\ History[i].of = taken' => awaiting' /\ pump' # "turn"
      <3>1. /\ History[i].of <= taken
            /\ History[i].of = taken => awaiting /\ pump # "turn"
        BY <1>0, <2>1 DEF Spoken, Questions
      <3>2. History[i].of \in Nat
        <4>1. History[i] \in LineType
          BY <1>0
        <4>2. History[i].of \in 0 .. (MaxCommands + MaxTurns)
          BY <4>1 DEF LineType
        <4> QED BY <4>2, Numbers
      <3>3. History[i].of \in 0 .. taken
        BY <1>0, <3>1, <3>2
      <3> QED BY <3>1, <3>3
    <2>2. op' = op /\ chain' = chain
      BY DEF input
    <2> QED BY <1>0, <2>1, <2>2 DEF Stands, Spoken, Behind
  <1>3. stage \notin {"exiting", "exited"}
    BY <1>0 DEF Closing
  <1>4. /\ UNCHANGED <<scope, op, stdin, broke, writer, session, stage>>
        /\ verdict' \in [Commands -> Verdicts] /\ chain' \in Seq(Commands) /\ Chained'
    BY <1>0 DEF input, TypeOK, Verdicts, Chained
  <1>5. \A c \in Commands : (verdict[c] = "owed" => verdict'[c] = "owed") /\ (InChain(c) => InChain(c)')
    BY DEF input, InChain
  <1> QED BY <1>1, <1>2, <1>3, <1>4, <1>5, SettledKeeps

LEMMA TurnStep ==
  ASSUME JsonInv, Turns
  PROVE  JsonInv'
  <1>0. /\ TypeOK /\ MaxTurns \in Nat /\ MaxCommands \in Nat /\ taken \in 0 .. MaxTurns
        /\ question \in 0 .. MaxTurns /\ awaiting \in BOOLEAN /\ pump \in {"idle", "turn", "done"}
        /\ scope.turns \in 0 .. MaxTurns
    BY Numbers, ScopesAssumption DEF JsonInv, TypeOK
  <1>1. ASSUME NEW kind \in {"turn", "question", "done", "awaiting-input"}, NEW t \in 0 .. MaxTurns
        PROVE  /\ <<Line(kind, t, "turns")>> \in Seq(LineType)
               /\ Len(<<Line(kind, t, "turns")>>) = 1
               /\ <<Line(kind, t, "turns")>>[1].kind = kind /\ <<Line(kind, t, "turns")>>[1].of = t
               /\ \A i \in 1 .. Len(<<Line(kind, t, "turns")>>) : i = 1
    <2>1. t \in 0 .. (MaxCommands + MaxTurns)
      BY Numbers
    <2>2. Line(kind, t, "turns") \in LineType /\ Line(kind, t, "turns").kind = kind
          /\ Line(kind, t, "turns").of = t
      BY <2>1, LineTyped DEF Kinds, Emitters
    <2> QED BY <2>2
  <1>2. CASE TurnTaken
    <2> DEFINE lines == <<Line("turn", taken + 1, "turns")>>
    <2>1. /\ pump = "idle" /\ taken' = taken + 1 /\ pump' = "turn" /\ awaiting' = FALSE
          /\ question' = question /\ Emit(lines) /\ taken + 1 \in 0 .. MaxTurns
          /\ UNCHANGED <<scope, input, chain, writer, session, stage>>
      BY <1>0, <1>2 DEF TurnTaken
    <2>2. /\ lines \in Seq(LineType) /\ \A i \in 1 .. Len(lines) : lines[i].kind = "turn"
      BY <1>1, <2>1
    <2> HIDE DEF lines
    <2>3. \A t \in 0 .. taken : t <= taken' /\ t # taken'
      BY <1>0, <2>1
    <2> QED BY <1>0, <2>1, <2>2, <2>3, TurnKeeps
  <1>3. CASE QuestionTaken
    <2> DEFINE lines == <<Line("question", taken, "turns")>>
    <2>1. /\ pump = "turn" /\ taken' = taken /\ pump' = pump /\ awaiting' = awaiting
          /\ question' = taken /\ Emit(lines)
          /\ UNCHANGED <<scope, input, chain, writer, session, stage>>
      BY <1>0, <1>3 DEF QuestionTaken
    <2>2. /\ lines \in Seq(LineType) /\ \A i \in 1 .. Len(lines) : lines[i].kind = "question"
      BY <1>0, <1>1
    <2> HIDE DEF lines
    <2>3. \A t \in 0 .. taken : t <= taken'
      BY <1>0, <2>1
    <2> QED BY <1>0, <2>1, <2>2, <2>3, TurnKeeps
  <1>4. ASSUME NEW kind \in {"done", "awaiting-input"}, DoneTaken(kind) PROVE JsonInv'
    <2> DEFINE lines == <<Line(kind, taken, "turns")>>
    <2>1. /\ pump = "turn" /\ taken' = taken /\ pump' = "idle" /\ awaiting' = (kind = "awaiting-input")
          /\ question' = question /\ Emit(lines)
          /\ UNCHANGED <<scope, input, chain, writer, session, stage>>
      BY <1>0, <1>4 DEF DoneTaken, Awaited
    <2>2. /\ lines \in Seq(LineType)
          /\ \A i \in 1 .. Len(lines) : lines[i].kind = kind /\ lines[i].of = taken
      BY <1>0, <1>1
    <2> HIDE DEF lines
    <2>3. \A t \in 0 .. taken : t <= taken'
      BY <1>0, <2>1
    <2>4. taken <= taken'
      BY <1>0, <2>1
    <2> QED BY <1>0, <2>1, <2>2, <2>3, <2>4, TurnKeeps
  <1>5. CASE TurnsEnd
    <2>1. /\ pump = "idle" /\ taken' = taken /\ pump' = "done" /\ awaiting' = awaiting
          /\ question' = question /\ queue' = queue
          /\ UNCHANGED <<scope, input, chain, writer, session, stage>>
      BY <1>5 DEF TurnsEnd
    <2>2. Emit(<<>>) /\ <<>> \in Seq(LineType)
      BY <1>0, <2>1, EmptyEmission
    <2>3. \A t \in 0 .. taken : t <= taken'
      BY <1>0, <2>1
    <2>4. \A i \in 1 .. Len(<<>>) : FALSE
      OBVIOUS
    <2> QED BY <1>0, <2>1, <2>2, <2>3, <2>4, TurnKeeps
  <1> QED BY <1>2, <1>3, <1>4, <1>5 DEF Turns

-----------------------------------------------------------------------------
(* The writer *)

(* A step that neither emits nor answers. *)
LEMMA QuietKeeps ==
  ASSUME JsonInv, UNCHANGED <<scope, op, verdict, chain, turns>>, History' = History, TypeOK',
         stdin = "done" => stdin' = "done", gone' => pipe' = "broken",
         pipe' = "open" => pipe = "open",
         stage' \in {"exiting", "exited"} <=> stage \in {"exiting", "exited"}
  PROVE  JsonInv'
  <1>0. TypeOK /\ Reads /\ Chained /\ Closing /\ Spoken(History)
    BY DEF JsonInv
  <1>1. pump' = pump /\ taken' = taken /\ awaiting' = awaiting
    BY DEF turns
  <1>2. Chained' /\ Closing'
    BY <1>0, <1>1 DEF Chained, Closing
  <1>3. Ordered(History)' /\ Paired(History)' /\ Behind(History)' /\ Questions(History)'
    BY <1>0, <1>1 DEF Spoken, Ordered, Paired, Behind, Questions
  <1>4. ASSUME NEW c \in Commands, NEW kind PROVE Has(History, kind, c)' <=> Has(History, kind, c)
    BY DEF Has
  <1>5. \A c \in Commands : Answer(op[c])' = Answer(op[c])
    BY DEF Answer
  <1>6. Ends(History)'
    <2>1. ASSUME NEW i \in 1 .. Len(History), History[i].kind = "closed"
          PROVE  /\ i = Len(History) /\ stage' \in {"exiting", "exited"}
                 /\ \A c \in Commands : op'[c] # "unread" => Has(History, Answer(op[c]), c)'
      BY <1>0, <1>4, <2>1 DEF Spoken, Ends
    <2> QED BY <1>5, <2>1 DEF Ends
  <1>7. Reads'
    <2>1. \A c \in Commands : Answered(c) => Answered(c)'
      BY <1>4, <1>5 DEF Answered, InChain
    <2> QED BY <1>0, <2>1 DEF Reads
  <1> QED BY <1>2, <1>3, <1>6, <1>7 DEF JsonInv, Spoken

LEMMA WriteStep ==
  ASSUME JsonInv, Write
  PROVE  JsonInv'
  <1>0. /\ TypeOK /\ Closing /\ queue \in Seq(LineType) /\ out \in Seq(LineType)
        /\ pipe \in {"open", "broken"} /\ parked = FALSE /\ gone \in BOOLEAN
    BY DEF JsonInv, TypeOK, Write
  <1>1. /\ queue # <<>>
        /\ out' = IF gone \/ pipe = "broken" THEN out ELSE Append(out, Head(queue))
        /\ \/ queue' = Tail(queue) /\ parked' = parked
           \/ ~gone /\ parked' = TRUE /\ queue' = queue
        /\ UNCHANGED <<scope, input, chain, turns, pipe, gone, session, stage>>
    BY DEF Write
  <1>2. /\ Tail(queue) \in Seq(LineType) /\ Head(queue) \in LineType
        /\ Append(out, Head(queue)) \in Seq(LineType)
        /\ Append(out, Head(queue)) \o Tail(queue) = out \o queue
    BY <1>0, <1>1
  <1>3. /\ queue' \in Seq(LineType) /\ out' \in Seq(LineType) /\ parked' \in BOOLEAN
        /\ (parked' => queue' # <<>>)
        /\ (IF parked' THEN Tail(queue') ELSE queue') = Tail(queue)
    BY <1>0, <1>1, <1>2
  <1>4. History' = History
    BY <1>0, <1>1, <1>2, <1>3 DEF History, Pending, Closing
  <1>5. TypeOK'
    BY <1>0, <1>1, <1>3 DEF TypeOK, input, turns, session
  <1> QED BY <1>0, <1>1, <1>4, <1>5, QuietKeeps DEF input, Closing

LEMMA DrainStep ==
  ASSUME JsonInv, Drain
  PROVE  JsonInv'
  <1>0. TypeOK /\ Closing /\ queue \in Seq(LineType)
    BY DEF JsonInv, TypeOK
  <1>1. /\ parked = TRUE /\ pipe = "open" /\ parked' = FALSE /\ queue' = Tail(queue)
        /\ UNCHANGED <<scope, input, chain, turns, out, pipe, gone, session, stage>>
    BY <1>0 DEF Drain, TypeOK
  <1>2. queue' \in Seq(LineType) /\ queue # <<>>
    BY <1>0, <1>1 DEF TypeOK
  <1>3. History' = History
    BY <1>1 DEF History, Pending
  <1>4. TypeOK'
    BY <1>0, <1>1, <1>2 DEF TypeOK, input, turns, session
  <1> QED BY <1>0, <1>1, <1>3, <1>4, QuietKeeps DEF input, Closing

(* What holds of the lines emitted holds of those the consumer reads. *)
LEMMA SpokenSoFar ==
  ASSUME JsonInv
  PROVE  Spoken(out)
  <1>0. /\ Spoken(History) /\ Len(History) \in Nat /\ Len(out) \in Nat
        /\ Len(out) <= Len(History) /\ \A i \in 1 .. Len(out) : History[i] = out[i]
    BY HistoryTyped DEF JsonInv
  <1>1. \A i \in 1 .. Len(out) : i \in 1 .. Len(History)
    BY <1>0
  <1>2. Ordered(out) /\ Behind(out) /\ Questions(out)
    BY <1>0, <1>1 DEF Spoken, Ordered, Behind, Questions
  <1>3. Paired(out)
    <2> SUFFICES ASSUME NEW i \in 1 .. Len(out), out[i].kind = "unconfirmed"
                 PROVE  i > 1 /\ out[i - 1].kind = "settings" /\ out[i - 1].of = out[i].of
      BY DEF Paired
    <2>1. i > 1 /\ History[i - 1].kind = "settings" /\ History[i - 1].of = History[i].of
      BY <1>0, <1>1 DEF Spoken, Paired
    <2>2. i - 1 \in 1 .. Len(out)
      BY <1>0, <2>1
    <2> QED BY <1>0, <2>1, <2>2
  <1>4. Ends(out)
    <2> SUFFICES ASSUME NEW i \in 1 .. Len(out), out[i].kind = "closed"
                 PROVE  /\ i = Len(out) /\ stage \in {"exiting", "exited"}
                        /\ \A c \in Commands : op[c] # "unread" => Has(out, Answer(op[c]), c)
      BY DEF Ends
    <2>1. /\ i = Len(History) /\ stage \in {"exiting", "exited"}
          /\ \A c \in Commands : op[c] # "unread" => Has(History, Answer(op[c]), c)
      BY <1>0, <1>1 DEF Spoken, Ends
    <2>2. Len(out) = Len(History)
      BY <1>0, <2>1
    <2>3. ASSUME NEW c \in Commands, NEW kind, Has(History, kind, c) PROVE Has(out, kind, c)
      BY <1>0, <2>2, <2>3 DEF Has
    <2> QED BY <2>1, <2>2, <2>3
  <1> QED BY <1>2, <1>3, <1>4 DEF Spoken

LEMMA BreakStep ==
  ASSUME JsonInv, ReadEndCloses
  PROVE  JsonInv'
  <1>0. TypeOK /\ Reads /\ Chained /\ Closing /\ Spoken(out)
    BY SpokenSoFar DEF JsonInv
  <1>1. /\ pipe' = "broken"
        /\ UNCHANGED <<scope, op, verdict, chain, pump, taken, question, awaiting, stdin, broke>>
        /\ UNCHANGED <<queue, parked, out, gone, closing, over, stage>>
    BY DEF ReadEndCloses, input, turns, session
  <1>2. TypeOK'
    BY <1>0, <1>1 DEF TypeOK
  <1>3. Reads' /\ Chained' /\ Closing'
    BY <1>0, <1>1 DEF Reads, Chained, Closing
  <1>4. Spoken(History)'
    <2>1. History' = out
      BY <1>1 DEF History
    <2>2. Ends(out) /\ Ordered(out) /\ Paired(out) /\ Behind(out) /\ Questions(out)
      BY <1>0 DEF Spoken
    <2>3. \A c \in Commands : \A kind : Has(out, kind, c)' <=> Has(out, kind, c)
      BY <1>1 DEF Has
    <2>4. \A c \in Commands : Answer(op[c])' = Answer(op[c])
      BY <1>1 DEF Answer
    <2>5. ASSUME NEW i \in 1 .. Len(out), out[i].kind = "closed"
          PROVE  /\ i = Len(out) /\ stage' \in {"exiting", "exited"}
                 /\ \A c \in Commands : op'[c] # "unread" => Has(out, Answer(op[c]), c)'
      BY <1>1, <2>2, <2>3, <2>4, <2>5 DEF Ends
    <2>6. Ends(out)'
      BY <1>1, <2>5 DEF Ends
    <2>7. Ordered(out)' /\ Paired(out)' /\ Behind(out)' /\ Questions(out)'
      BY <1>1, <2>2 DEF Ordered, Paired, Behind, Questions
    <2>8. Spoken(out)'
      BY <2>6, <2>7 DEF Spoken
    <2> QED BY <1>1, <2>1, <2>8
  <1> QED BY <1>2, <1>3, <1>4 DEF JsonInv

-----------------------------------------------------------------------------
(* The ends of the input, of the session and of the program *)

LEMMA QuietStep ==
  ASSUME JsonInv,
         \/ PipeError \/ InputEnds \/ InputFails \/ SessionEnds \/ Starts \/ Race \/ Closed
         \/ InputStops \/ Exit \/ UNCHANGED vars
  PROVE  JsonInv'
  <1>0. /\ TypeOK /\ Closing
    BY DEF JsonInv
  <1>1. UNCHANGED <<scope, op, verdict, chain, turns, queue, parked, out, pipe>>
    BY DEF PipeError, InputEnds, InputFails, SessionEnds, Starts, Race, Closed, InputStops, Exit,
           vars, input, writer
  <1>2. History' = History
    BY <1>1 DEF History, Pending
  <1>3. /\ stdin' \in {"reading", "done"} /\ broke' \in BOOLEAN
        /\ stdin = "done" => stdin' = "done"
    BY <1>0 DEF PipeError, InputEnds, InputFails, SessionEnds, Starts, Race, Closed, InputStops,
           Exit, vars, input, TypeOK
  <1>4. /\ closing' \in BOOLEAN /\ over' \in BOOLEAN
    BY <1>0 DEF PipeError, InputEnds, InputFails, SessionEnds, Starts, Race, Closed, InputStops,
           Exit, vars, session, TypeOK
  <1>9. \/ gone' = TRUE /\ pipe = "broken" /\ pipe' = pipe
        \/ gone' = gone /\ pipe' = pipe
    BY DEF PipeError, InputEnds, InputFails, SessionEnds, Starts, Race, Closed, InputStops, Exit,
           vars, writer
  <1>5. gone' \in BOOLEAN /\ (gone' => pipe' = "broken")
    <2>1. gone \in BOOLEAN /\ (gone => pipe = "broken")
      BY <1>0 DEF TypeOK, Closing
    <2>2. CASE gone' = TRUE /\ pipe = "broken" /\ pipe' = pipe
      BY <2>2
    <2>3. CASE gone' = gone /\ pipe' = pipe
      BY <2>1, <2>3
    <2> QED BY <1>9, <2>2, <2>3
  <1>6. /\ stage' \in {"starting", "running", "closing", "draining", "exiting", "exited"}
        /\ stage' \in {"exiting", "exited"} <=> stage \in {"exiting", "exited"}
    BY <1>0 DEF PipeError, InputEnds, InputFails, SessionEnds, Starts, Race, Closed, InputStops,
           Exit, vars, Step, TypeOK
  <1>7. TypeOK'
    BY <1>0, <1>1, <1>3, <1>4, <1>5, <1>6 DEF TypeOK, turns
  <1> QED BY <1>1, <1>2, <1>3, <1>5, <1>6, <1>7, QuietKeeps

(* The lines of the close: the losses, and the terminal line behind them. *)
Farewell(f) ==
  (IF broke THEN <<Line("error", 0, "main")>> ELSE <<>>)
  \o Lost(f) \o <<Line("closed", 0, "main")>>

LEMMA FarewellLines ==
  ASSUME NEW n \in 0 .. MaxCommands, NEW f \in Oldest(n)
  PROVE  /\ Farewell(f) \in Seq(LineType) /\ Len(Farewell(f)) \in Nat /\ Len(Farewell(f)) > 0
         /\ \A i \in 1 .. Len(Farewell(f)) :
              /\ Farewell(f)[i].by = "main"
              /\ Farewell(f)[i].kind \in {"error", "disposition", "closed"}
              /\ Farewell(f)[i].kind = "closed" => i = Len(Farewell(f))
  <1> DEFINE err == IF broke THEN <<Line("error", 0, "main")>> ELSE <<>>
             lost == Lost(f)
             top == err \o lost
             last == <<Line("closed", 0, "main")>>
  <1>0. /\ MaxCommands \in Nat /\ n \in Nat /\ 0 \in 0 .. (MaxCommands + MaxTurns)
        /\ DOMAIN f = 1 .. n /\ \A i \in 1 .. n : f[i] \in Commands
    BY Numbers, BoundsAssumption DEF Oldest, Accepted
  <1>1. /\ Line("error", 0, "main") \in LineType /\ Line("closed", 0, "main") \in LineType
        /\ Line("error", 0, "main").kind = "error" /\ Line("error", 0, "main").by = "main"
        /\ Line("closed", 0, "main").kind = "closed" /\ Line("closed", 0, "main").by = "main"
    BY <1>0, LineTyped DEF Kinds, Emitters
  <1>2. ASSUME NEW i \in 1 .. n
        PROVE  /\ Line("disposition", f[i], "main") \in LineType
               /\ Line("disposition", f[i], "main").kind = "disposition"
               /\ Line("disposition", f[i], "main").by = "main"
    <2>1. f[i] \in 0 .. (MaxCommands + MaxTurns)
      BY <1>0, Numbers
    <2> QED BY <2>1, LineTyped DEF Kinds, Emitters
  <1>3. /\ err \in Seq(LineType)
        /\ \A i \in 1 .. Len(err) : err[i].kind = "error" /\ err[i].by = "main"
    <2>1. CASE broke
      BY <1>1, <2>1
    <2>2. CASE ~broke
      BY <2>2
    <2> QED BY <2>1, <2>2
  <1>4. /\ lost \in Seq(LineType)
        /\ \A i \in 1 .. Len(lost) : lost[i].kind = "disposition" /\ lost[i].by = "main"
    <2>1. lost = [i \in 1 .. n |-> Line("disposition", f[i], "main")]
      BY <1>0 DEF Lost
    <2>2. lost \in Seq(LineType) /\ Len(lost) = n
      BY <1>0, <1>2, <2>1
    <2> QED BY <1>2, <2>1, <2>2
  <1>5. /\ last \in Seq(LineType) /\ Len(last) = 1
        /\ last[1].kind = "closed" /\ last[1].by = "main"
    BY <1>1
  <1> HIDE DEF err, lost
  <1>6. /\ top \in Seq(LineType) /\ Len(top) \in Nat
        /\ \A i \in 1 .. Len(top) : top[i].kind \in {"error", "disposition"} /\ top[i].by = "main"
    <2>1. top \in Seq(LineType) /\ Len(top) \in Nat
      BY <1>3, <1>4, Joined
    <2>2. ASSUME NEW i \in 1 .. Len(top)
          PROVE  top[i].kind \in {"error", "disposition"} /\ top[i].by = "main"
      <3>1. CASE i \in 1 .. Len(err)
        <4>1. top[i] = err[i]
          BY <1>3, <1>4, <3>1, Joined
        <4> QED BY <1>3, <3>1, <4>1
      <3>2. CASE i \notin 1 .. Len(err)
        <4>1. PICK j \in 1 .. Len(lost) : i = Len(err) + j
          BY <1>3, <1>4, <3>2, Joined
        <4>2. top[i] = lost[j]
          BY <1>3, <1>4, <4>1, Joined
        <4> QED BY <1>4, <4>2
      <3> QED BY <3>1, <3>2
    <2> QED BY <2>1, <2>2
  <1> HIDE DEF top, last
  <1>7. Farewell(f) = top \o last
    BY DEF Farewell, top, last, err, lost
  <1>8. /\ top \o last \in Seq(LineType) /\ Len(top \o last) = Len(top) + 1
        /\ \A i \in 1 .. Len(top) : (top \o last)[i] = top[i]
        /\ (top \o last)[Len(top) + 1] = last[1]
        /\ \A i \in 1 .. Len(top \o last) : i \in 1 .. Len(top) \/ i = Len(top) + 1
    <2>1. 1 \in 1 .. Len(last) /\ \A j \in 1 .. Len(last) : j = 1
      BY <1>5
    <2>2. top \in Seq(LineType) /\ last \in Seq(LineType)
      BY <1>5, <1>6
    <2>3. /\ top \o last \in Seq(LineType) /\ Len(top \o last) = Len(top) + Len(last)
          /\ \A i \in 1 .. Len(top) : (top \o last)[i] = top[i]
          /\ \A i \in 1 .. Len(last) : (top \o last)[Len(top) + i] = last[i]
          /\ \A i \in 1 .. Len(top \o last) :
               i \in 1 .. Len(top) \/ \E j \in 1 .. Len(last) : i = Len(top) + j
      BY ONLY <2>2, Joined
    <2>4. (top \o last)[Len(top) + 1] = last[1]
      BY ONLY <2>1, <2>3
    <2>5. \A i \in 1 .. Len(top \o last) : i \in 1 .. Len(top) \/ i = Len(top) + 1
      BY ONLY <2>1, <2>3
    <2> QED BY <1>5, <2>3, <2>4, <2>5
  <1>9. ASSUME NEW i \in 1 .. Len(top \o last)
        PROVE  /\ (top \o last)[i].by = "main"
               /\ (top \o last)[i].kind \in {"error", "disposition", "closed"}
               /\ (top \o last)[i].kind = "closed" => i = Len(top \o last)
    <2>1. CASE i \in 1 .. Len(top)
      BY <1>6, <1>8, <2>1
    <2>2. CASE i = Len(top) + 1
      BY <1>5, <1>8, <2>2
    <2> QED BY <1>8, <2>1, <2>2
  <1> QED BY <1>6, <1>7, <1>8, <1>9

LEMMA FinalStep ==
  ASSUME JsonInv, Final
  PROVE  JsonInv'
  <1>0. /\ TypeOK /\ Reads /\ Chained /\ Closing /\ Spoken(History) /\ History \in Seq(LineType)
    BY HistoryTyped DEF JsonInv
  <1>a. PICK n \in 0 .. MaxCommands : \E f \in Oldest(n) : Emit(Farewell(f))
    BY DEF Final, Farewell
  <1>1. PICK f \in Oldest(n) : Emit(Farewell(f))
    BY <1>a
  <1> DEFINE s == History
             lines == Farewell(f)
             t == s \o lines
  <1>2. /\ lines \in Seq(LineType) /\ Len(lines) \in Nat /\ Len(lines) > 0
        /\ \A i \in 1 .. Len(lines) :
             /\ lines[i].by = "main" /\ lines[i].kind \in {"error", "disposition", "closed"}
             /\ lines[i].kind = "closed" => i = Len(lines)
    BY FarewellLines
  <1>3. /\ UNCHANGED <<scope, op, verdict, chain, pump, taken, question, awaiting, stdin, broke>>
        /\ UNCHANGED <<parked, out, pipe, gone, closing, over>>
        /\ stage = "draining" /\ stage' = "exiting" /\ stdin = "done" /\ pump = "done"
        /\ chain = <<>> /\ \A c \in Commands : verdict[c] # "owed"
    BY DEF Final, Step, Settled, input, turns, writer, session
  <1> HIDE DEF lines
  <1>4. Emit(lines)
    BY <1>1 DEF lines
  <1>5. /\ queue' \in Seq(LineType) /\ (parked' => queue' # <<>>)
        /\ History' = IF pipe = "open" THEN t ELSE s
    BY <1>0, <1>2, <1>3, <1>4, Emission
  <1>6. TypeOK'
    BY <1>0, <1>3, <1>5 DEF TypeOK
  <1>7. Chained' /\ Closing'
    BY <1>0, <1>3 DEF Chained, Closing
  <1>8. \A c \in Commands : Answer(op[c])' = Answer(op[c])
    BY <1>3 DEF Answer
  <1>9. \A c \in Commands : pipe = "open" /\ op[c] # "unread" => Has(s, Answer(op[c]), c)
    BY <1>0, <1>3 DEF Reads, Answered, InChain
  <1>10. /\ t \in Seq(LineType) /\ Len(t) = Len(s) + Len(lines)
         /\ Len(s) \in Nat /\ Len(lines) \in Nat
         /\ \A i \in 1 .. Len(s) : i \in 1 .. Len(t) /\ t[i] = s[i]
         /\ \A i \in 1 .. Len(lines) : Len(s) + i \in 1 .. Len(t) /\ t[Len(s) + i] = lines[i]
         /\ \A i \in 1 .. Len(t) :
              i \in 1 .. Len(s) \/ \E j \in 1 .. Len(lines) : i = Len(s) + j
    BY <1>0, <1>2, Joined
  <1>11. /\ \A i \in 1 .. Len(s) : s[i].kind # "closed"
         /\ Ordered(s) /\ Paired(s) /\ Behind(s) /\ Questions(s)
    BY <1>0, <1>3 DEF Spoken, Ends
  <1> HIDE DEF s, t
  (* The lines of the close are no answers, and no later line is theirs. *)
  <1>12. ASSUME NEW i \in 1 .. Len(t), i \notin 1 .. Len(s)
         PROVE  /\ ~Disposed(t[i]) /\ t[i].kind \notin {"unconfirmed", "awaiting-input"}
                /\ t[i].kind = "closed" => i = Len(t)
    <2>1. PICK k \in 1 .. Len(lines) : i = Len(s) + k
      BY <1>10, <1>12
    <2>2. t[i] = lines[k]
      BY <1>10, <2>1
    <2>3. /\ t[i].by = "main" /\ t[i].kind \in {"error", "disposition", "closed"}
          /\ t[i].kind = "closed" => k = Len(lines)
      BY <1>2, <2>2
    <2>4. k = Len(lines) => i = Len(t)
      BY <1>10, <2>1
    <2> QED BY <2>3, <2>4 DEF Disposed
  <1>13. CASE pipe # "open"
    <2>1. Ends(s)'
      BY <1>3, <1>5, <1>11, <1>13 DEF Ends, s
    <2>2. Ordered(s)' /\ Paired(s)' /\ Behind(s)' /\ Questions(s)'
      BY <1>3, <1>5, <1>11, <1>13 DEF Ordered, Paired, Behind, Questions, s
    <2>3. Spoken(History)'
      BY <2>1, <2>2 DEF Spoken, s
    <2>4. Reads'
      BY <1>0, <1>3, <1>13 DEF Reads
    <2> QED BY <1>6, <1>7, <2>3, <2>4 DEF JsonInv
  <1>14. CASE pipe = "open"
    <2>1. History' = t
      BY <1>5, <1>14
    <2>2. ASSUME NEW c \in Commands, op[c] # "unread"
          PROVE  Has(t, Answer(op[c]), c)
      <3>1. Has(s, Answer(op[c]), c)
        BY <1>9, <1>14, <2>2
      <3> QED BY <1>0, <1>2, <3>1, HasGrows DEF s, t
    <2>3. ASSUME NEW c \in Commands, op'[c] # "unread"
          PROVE  Has(History, Answer(op[c]), c)'
      BY <1>3, <1>8, <2>1, <2>2, <2>3 DEF Has
    <2>4. Reads'
      BY <1>0, <1>3, <2>3 DEF Reads, Answered
    <2>5. Ends(History)'
      <3>1. ASSUME NEW i \in 1 .. Len(t), t[i].kind = "closed" PROVE i = Len(t)
        BY <1>10, <1>11, <1>12, <3>1
      <3> QED BY <1>3, <2>1, <2>3, <3>1 DEF Ends
    <2>6. Ordered(t)
      <3> SUFFICES ASSUME NEW i \in 1 .. Len(t), NEW j \in 1 .. Len(t), i < j,
                          Disposed(t[i]), Disposed(t[j])
                   PROVE  t[i].of < t[j].of
        BY DEF Ordered
      <3>1. i \in 1 .. Len(s) /\ j \in 1 .. Len(s)
        BY <1>12
      <3> QED BY <1>10, <1>11, <3>1 DEF Ordered
    <2>7. Paired(t)
      <3> SUFFICES ASSUME NEW i \in 1 .. Len(t), t[i].kind = "unconfirmed"
                   PROVE  i > 1 /\ t[i - 1].kind = "settings" /\ t[i - 1].of = t[i].of
        BY DEF Paired
      <3>1. i \in 1 .. Len(s)
        BY <1>12
      <3>2. i > 1 /\ s[i - 1].kind = "settings" /\ s[i - 1].of = s[i].of
        BY <1>10, <1>11, <3>1 DEF Paired
      <3>3. i - 1 \in 1 .. Len(s)
        BY <1>10, <3>1, <3>2
      <3> QED BY <1>10, <3>1, <3>2, <3>3
    <2>8. Behind(t) /\ Questions(t)
      <3>1. Behind(t)
        BY <1>10, <1>11, <1>12 DEF Behind
      <3>2. Questions(t)
        BY <1>10, <1>11, <1>12 DEF Questions
      <3> QED BY <3>1, <3>2
    <2>9. Ordered(History)' /\ Paired(History)' /\ Behind(History)' /\ Questions(History)'
      <3>1. Ordered(History)' /\ Paired(History)'
        BY <2>1, <2>6, <2>7 DEF Ordered, Paired
      <3>2. Behind(History)' /\ Questions(History)'
        BY <1>3, <2>1, <2>8 DEF Behind, Questions
      <3> QED BY <3>1, <3>2
    <2> QED BY <1>6, <1>7, <2>4, <2>5, <2>9 DEF JsonInv, Spoken
  <1> QED BY <1>13, <1>14

-----------------------------------------------------------------------------
(* The theorems *)

LEMMA JsonInit ==
  ASSUME Init
  PROVE  JsonInv
  <1>1. /\ Line("session", 0, "main") \in LineType
        /\ Line("session", 0, "main").kind = "session"
    <2>1. 0 \in 0 .. (MaxCommands + MaxTurns)
      BY BoundsAssumption
    <2> QED BY <2>1, LineTyped DEF Kinds, Emitters
  <1>2. TypeOK
    <2>1. chain \in Seq(Commands) /\ out \in Seq(LineType) /\ queue \in Seq(LineType)
      BY <1>1 DEF Init
    <2>2. taken \in 0 .. MaxTurns /\ question \in 0 .. MaxTurns
      BY BoundsAssumption DEF Init
    <2> QED BY <2>1, <2>2 DEF Init, TypeOK
  <1>3. History = <<Line("session", 0, "main")>>
    BY DEF Init, History, Pending
  <1>4. /\ Len(History) = 1 /\ History[1].kind = "session"
        /\ \A i \in 1 .. Len(History) : i = 1
    BY <1>1, <1>3
  <1>5. Spoken(History)
    BY <1>4 DEF Spoken, Ordered, Paired, Ends, Behind, Questions, Disposed
  <1>6. Reads /\ Chained /\ Closing
    BY DEF Init, Reads, Chained, Closing
  <1> QED BY <1>2, <1>5, <1>6 DEF JsonInv

LEMMA JsonNext ==
  ASSUME JsonInv, [Next]_vars
  PROVE  JsonInv'
  <1>1. CASE Consumer
    BY <1>1, BreakStep, QuietStep, CommandStep DEF Consumer
  <1>2. CASE Writer
    BY <1>2, WriteStep, DrainStep, QuietStep DEF Writer
  <1>3. CASE Receipts
    BY <1>3, SendSettlesStep, DispositionStep, ReceiptStep DEF Receipts
  <1>4. CASE Turns
    BY <1>4, TurnStep
  <1>5. CASE SessionEnds
    BY <1>5, QuietStep
  <1>6. CASE Body
    BY <1>6, QuietStep, FinalStep DEF Body
  <1>7. CASE Done \/ UNCHANGED vars
    BY <1>7, QuietStep DEF Done
  <1> QED BY <1>1, <1>2, <1>3, <1>4, <1>5, <1>6, <1>7 DEF Next

(* The lines emitted by the two pumps, the disposition chain, the receipts  *)
(* and the close keep their order and their pairs, and the state they were  *)
(* emitted from stays behind them.                                          *)
THEOREM SessionInvariant == Spec => []JsonInv
  BY JsonInit, JsonNext, PTL DEF Spec

(* runJsonSession's lines: the dispositions in command order, the terminal  *)
(* line last and behind every answer, a diagnostic behind its receipt.      *)
THEOREM LinesAreInOrder == Spec => []LinesInOrder
  <1>1. JsonInv => LinesInOrder
    <2> SUFFICES ASSUME JsonInv PROVE LinesInOrder
      OBVIOUS
    <2>1. Ordered(out) /\ Paired(out) /\ Ends(out)
      BY SpokenSoFar DEF Spoken
    <2> QED BY <2>1 DEF LinesInOrder, DispositionsInOrder, DiagnosticFollowsReceipt, ClosedIsLast,
                 Ordered, Paired, Ends, Has
  <1> QED BY <1>1, SessionInvariant, PTL

(* A consumer that answers the done line it has read is never refused for   *)
(* want of a question.                                                      *)
THEOREM AnswersAreHeard == Spec => AnswerHeard
  <1>1. ASSUME JsonInv, [Next]_vars, NEW c \in Commands, verdict'[c] = "no-question",
               verdict[c] = "none"
        PROVE  ~QuestionShown
    <2>1. TypeOK /\ Questions(out)
      BY <1>1, SpokenSoFar DEF JsonInv, Spoken
    <2>2. ~awaiting
      <3>1. PICK d \in Commands, o \in Ops : CommandRead(d, o)
        BY <1>1, <2>1 DEF Next, Consumer, Writer, Receipts, Turns, Body, Done, vars, input, TypeOK,
           ReadEndCloses, InputEnds, InputFails, Write, Drain, PipeError, SendSettles,
           DispositionLeaves, ReceiptSettles, TurnTaken, QuestionTaken, TurnsEnd, DoneTaken,
           SessionEnds, Starts, Race, Closed, InputStops, Final, Exit
      <3>2. verdict \in [Commands -> Verdicts]
        BY <2>1 DEF TypeOK, Verdicts
      <3>3. ASSUME NEW v, verdict' = [verdict EXCEPT ![d] = v] PROVE v = "no-question"
        BY <1>1, <3>2, <3>3
      <3>4. \/ o \in {"send", "answer"} /\ (SendRead(d, o) \/ AnswerRefused(d, o))
            \/ InterruptRead(d) \/ DirectRead(d, "approval-disposition") \/ SettingsRead(d)
            \/ DirectRead(d, "error")
        BY <3>1 DEF CommandRead
      <3>5. ~InterruptRead(d) /\ ~SettingsRead(d)
        BY <3>3 DEF InterruptRead, SettingsRead
      <3>6. ~DirectRead(d, "approval-disposition") /\ ~DirectRead(d, "error")
        BY <3>3 DEF DirectRead
      <3>7. ~SendRead(d, o)
        BY <3>3 DEF SendRead, SendVerdicts
      <3> QED BY <3>4, <3>5, <3>6, <3>7 DEF AnswerRefused
    <2> QED BY <2>1, <2>2 DEF Questions, QuestionShown
  <1>2. JsonInv /\ [Next]_vars =>
          [\A c \in Commands : verdict'[c] = "no-question" /\ verdict[c] = "none" => ~QuestionShown]_vars
    BY <1>1
  <1> QED BY <1>2, SessionInvariant, PTL DEF Spec, AnswerHeard

-----------------------------------------------------------------------------
(* A set in some order                                                     *)

LEMMA MinOfTwo ==
  ASSUME NEW a \in Int, NEW b \in Int
  PROVE  /\ Min({a, b}) \in {a, b} /\ Min({a, b}) <= a /\ Min({a, b}) <= b
  <1>1. \E x \in {a, b} : \A y \in {a, b} : x =< y
    <2>1. CASE a <= b
      BY <2>1
    <2>2. CASE b <= a
      BY <2>2
    <2> QED BY <2>1, <2>2
  <1>2. Min({a, b}) \in {a, b} /\ \A y \in {a, b} : Min({a, b}) =< y
    BY <1>1 DEF Min
  <1> QED BY <1>2

Once(q) == \A i, j \in 1 .. Len(q) : q[i] = q[j] => i = j

(* A finite set is put in order: each member comes once.                   *)
LEMMA InSomeOrder ==
  ASSUME NEW S, IsFiniteSet(S)
  PROVE  /\ SetToSeq(S) \in Seq(S) /\ Once(SetToSeq(S)) /\ ToSet(SetToSeq(S)) = S
  <1> DEFINE n == Cardinality(S)
             q == SetToSeq(S)
  <1>1. n \in Nat /\ ExistsBijection(1 .. n, S)
    BY FS_CardinalityType
  <1>2. \E f \in [1 .. n -> S] : IsInjective(f)
    BY <1>1 DEF ExistsBijection, Bijection, Injection, IsInjective
  <1>3. q \in [1 .. n -> S] /\ IsInjective(q)
    BY <1>2 DEF SetToSeq
  <1>4. IsFiniteSet(1 .. n) /\ Cardinality(1 .. n) = n
    BY <1>1, FS_Interval
  <1>5. q \in Injection(1 .. n, S)
    BY <1>3 DEF Injection, IsInjective
  <1>6. q \in Surjection(1 .. n, S)
    BY <1>4, <1>5, FS_Injection
  <1> HIDE DEF n, q
  <1>7. q \in Seq(S) /\ Len(q) = n
    BY <1>1, <1>3
  <1>8. \A x \in S : \E i \in 1 .. n : q[i] = x
    BY <1>6 DEF Surjection
  <1>9. ToSet(q) = S
    BY <1>3, <1>8 DEF ToSet
  <1>10. Once(q)
    BY <1>3, <1>7 DEF Once, IsInjective
  <1> QED BY <1>7, <1>9, <1>10 DEF q

LEMMA PairFinite ==
  ASSUME NEW a, NEW b
  PROVE  IsFiniteSet({a, b})
  <1>1. IsFiniteSet({a}) /\ IsFiniteSet({b})
    BY FS_Singleton
  <1>2. {a, b} = {a} \cup {b}
    OBVIOUS
  <1>3. IsFiniteSet({a} \cup {b})
    BY <1>1, FS_Union
  <1> QED BY <1>2, <1>3

LEMMA PathsFinite == IsFiniteSet(Paths) /\ IsFiniteSet(Tasks)
  <1> DEFINE D == (Places \X Conversations) \X Endings
             f == [t \in D |-> << t[1][1], t[1][2], t[2] >>]
  <1>1. IsFiniteSet(Places) /\ IsFiniteSet(Conversations) /\ IsFiniteSet(Endings)
    BY PairFinite DEF Places, Conversations, Endings
  <1>2. IsFiniteSet(D)
    BY <1>1, FS_Product
  <1>3. f \in Surjection(D, Paths)
    <2>1. f \in [D -> Paths]
      BY DEF Paths
    <2>2. ASSUME NEW p \in Paths PROVE \E t \in D : f[t] = p
      <3>1. << << p[1], p[2] >>, p[3] >> \in D
        BY DEF Paths
      <3>2. f[<< << p[1], p[2] >>, p[3] >>] = p
        BY <3>1 DEF Paths
      <3> QED BY <3>1, <3>2
    <2> QED BY <2>1, <2>2 DEF Surjection
  <1>4. IsFiniteSet(Paths)
    BY <1>2, <1>3, FS_Surjection
  <1>5. IsFiniteSet(Walks \X {IndexFile}) /\ IsFiniteSet(Walks \X Paths)
    <2>1. IsFiniteSet({IndexFile}) /\ IsFiniteSet(Walks)
      BY FS_Singleton, ListAssumption
    <2> QED BY <1>4, <2>1, FS_Product
  <1>6. Tasks \subseteq (Walks \X {IndexFile}) \cup (Walks \X Paths)
    BY DEF Tasks, Index
  <1>7. IsFiniteSet((Walks \X {IndexFile}) \cup (Walks \X Paths))
    BY <1>5, FS_Union
  <1> QED BY <1>4, <1>6, <1>7, FS_Subset

-----------------------------------------------------------------------------
(* The store under a listing                                               *)

Sequence(s) == s \in Seq(Range(s))
StoreTypes == /\ names \in [Paths -> Files \cup {Nothing}]
              /\ DOMAIN contents = Files /\ \A f \in Files : Sequence(contents[f])

LEMMA ASequence ==
  ASSUME NEW S, NEW s \in Seq(S)
  PROVE  Sequence(s)
  BY DEF Sequence, Range

LEMMA TwiceAsLong ==
  ASSUME NEW q, Len(q) \in Nat
  PROVE  Sequence(Bytes(q))
  <1> DEFINE n == 2 * Len(q)
             g == [i \in 1 .. n |-> << q[(i + 1) \div 2], 2 - (i % 2) >>]
  <1>1. n \in Nat /\ Bytes(q) = g
    BY DEF Bytes
  <1>2. g \in [1 .. n -> Range(g)]
    BY DEF Range
  <1> HIDE DEF n, g
  <1>3. g \in Seq(Range(g))
    BY <1>1, <1>2
  <1> QED BY <1>1, <1>3 DEF Sequence

LEMMA SaidAnew ==
  ASSUME StoreTypes, NEW f \in Files, NEW bytes \in Rewritten(f)
  PROVE  Sequence(bytes)
  <1> DEFINE lines == Lines(contents[f])
             kept == IF Headed(h) THEN 1 ELSE 0
             anew == [i \in DOMAIN lines |->
                        IF i <= kept THEN lines[i]
                        ELSE [lines[i] EXCEPT !.event = IF @ = "prompt" THEN "reply"
                                                        ELSE IF @ = "reply" THEN "prompt" ELSE @]]
             n == Len(contents[f]) \div 2
             least == Min({kept + 1, Len(anew)})
  <1>1. n \in Nat
    <2>1. contents[f] \in Seq(Range(contents[f]))
      BY DEF StoreTypes, Sequence
    <2>2. Len(contents[f]) \in Nat
      BY <2>1
    <2>3. \A k \in Nat : k \div 2 \in Nat
      OBVIOUS
    <2> QED BY <2>2, <2>3 DEF n
  <1>2. DOMAIN lines = 1 .. n
    BY DEF Lines
  <1>3. DOMAIN anew = 1 .. n
    BY <1>2
  <1>4. bytes \in {Bytes(anew), Bytes(SubSeq(anew, 1, least))}
    BY DEF Rewritten
  <1> HIDE DEF lines, anew, n
  <1>5. anew \in [1 .. n -> Range(anew)]
    <2>1. anew = [i \in DOMAIN anew |-> anew[i]]
      BY DEF anew
    <2> QED BY <1>3, <2>1 DEF Range
  <1>6. anew \in Seq(Range(anew)) /\ Len(anew) = n
    BY <1>1, <1>5
  <1>7. kept \in {0, 1}
    OBVIOUS
  <1> HIDE DEF kept
  <1>8. /\ least \in {kept + 1, Len(anew)}
        /\ least <= Len(anew)
    <2>1. kept + 1 \in Int /\ Len(anew) \in Int
      BY <1>1, <1>6, <1>7
    <2> QED BY <2>1, MinOfTwo
  <1> HIDE DEF least
  <1>9. Len(SubSeq(anew, 1, least)) \in Nat
    BY <1>1, <1>6, <1>7, <1>8
  <1> QED BY <1>1, <1>4, <1>6, <1>9, TwiceAsLong

(* The harness keeps the store what it is, whatever it writes in it.       *)
LEMMA WritesTyped ==
  ASSUME StoreTypes, Writes
  PROVE  StoreTypes'
  <1> USE DEF StoreTypes
  <1>1. ASSUME NEW f \in Files, AppendHalf(f) PROVE StoreTypes'
    <2>1. PICK x : contents' = [contents EXCEPT ![f] = Append(contents[f], x)]
      BY <1>1 DEF AppendHalf
    <2>2. contents[f] \in Seq(Range(contents[f]) \cup {x})
      <3>1. contents[f] \in Seq(Range(contents[f]))
        BY DEF Sequence
      <3> QED BY <3>1
    <2>3. Append(contents[f], x) \in Seq(Range(contents[f]) \cup {x})
      BY <2>2
    <2>4. Sequence(Append(contents[f], x))
      BY <2>3, ASequence
    <2> QED BY <2>1, <2>4, <1>1 DEF AppendHalf
  <1>2. ASSUME NEW p \in Paths, Rewrite(p) PROVE StoreTypes'
    <2>1. names[p] \in Files
      BY <1>2 DEF Rewrite, Named
    <2>2. PICK bytes \in Rewritten(names[p]) : contents' = [contents EXCEPT ![names[p]] = bytes]
      BY <1>2 DEF Rewrite
    <2>3. Sequence(bytes)
      BY <2>1, SaidAnew
    <2> QED BY <2>1, <2>2, <2>3, <1>2 DEF Rewrite
  <1>3. ASSUME NEW p \in Paths, Replace(p) PROVE StoreTypes'
    <2>1. names[p] \in Files
      BY <1>3 DEF Replace, Named
    <2> DEFINE f == CHOOSE f \in FreeFiles : TRUE
    <2>2. f \in Files
      BY <1>3 DEF Replace, FreeFiles
    <2>3. PICK bytes \in Rewritten(names[p]) : contents' = [contents EXCEPT ![f] = bytes]
      BY <1>3 DEF Replace
    <2>4. Sequence(bytes)
      BY <2>1, SaidAnew
    <2>5. names' = [names EXCEPT ![p] = f]
      BY <1>3 DEF Replace
    <2> HIDE DEF f
    <2> QED BY <2>2, <2>3, <2>4, <2>5
  <1>4. ASSUME NEW p \in Paths, Delete(p) PROVE StoreTypes'
    BY <1>4 DEF Delete, Nothing
  <1>5. ASSUME NEW p \in Paths, NEW q \in Paths, Move(p, q) PROVE StoreTypes'
    BY <1>5 DEF Move
  <1>6. CASE Commit
    BY <1>6 DEF Commit
  <1>7. CASE ResetLog
    BY <1>7 DEF ResetLog
  <1>8. ASSUME NEW page \in Pages, CopyPage(page) PROVE StoreTypes'
    BY <1>8 DEF CopyPage
  <1> QED BY <1>1, <1>2, <1>3, <1>4, <1>5, <1>6, <1>7, <1>8 DEF Writes

LEMMA StoreInitTyped == StoreInit => StoreTypes
  <1> SUFFICES ASSUME StoreInit PROVE StoreTypes
    OBVIOUS
  <1>1. PICK s \in Stores :
          /\ names = [p \in Paths |-> IF p \in DOMAIN s.names THEN s.names[p] ELSE Nothing]
          /\ contents = [f \in Files |-> IF f \in DOMAIN s.files THEN Bytes(s.files[f]) ELSE << >>]
    BY DEF StoreInit
  <1>2. /\ \A p \in DOMAIN s.names : s.names[p] \in Files
        /\ \A f \in DOMAIN s.files : s.files[f] \in Seq(Range(s.files[f]))
    BY <1>1, StoresAssumption
  <1>3. ASSUME NEW f \in Files PROVE Sequence(contents[f])
    <2>1. CASE f \in DOMAIN s.files
      <3>1. Len(s.files[f]) \in Nat
        BY <1>2, <2>1
      <3> QED BY <1>1, <2>1, <3>1, TwiceAsLong
    <2>2. CASE f \notin DOMAIN s.files
      <3>1. << >> \in Seq({})
        OBVIOUS
      <3> QED BY <1>1, <2>2, <3>1, ASequence
    <2> QED BY <2>1, <2>2
  <1> QED BY <1>1, <1>2, <1>3 DEF StoreTypes

-----------------------------------------------------------------------------
(* What a listing keeps at all times                                       *)

TaskStages == {"idle", "found", "queued", "first", "open", "read", "over"}
OneTask == [at : TaskStages, file : Files \cup {Nothing}, size : Nat, want : Nat,
            stamp : BOOLEAN]
WalkStages == {"index", "walk", "read", "failed", "interrupted"}
OneWalk == [at : WalkStages, place : Nat \ {0}]

ListTypes ==
  /\ StoreTypes /\ listing \in Listings
  /\ walks \in [Walks -> OneWalk] /\ task \in [Tasks -> OneTask]
  /\ free \in Nat /\ waiting \in Seq(Tasks)
  /\ steady \subseteq Paths
  /\ IsFiniteSet(rows) /\ \A r \in rows : r.walk \in Walks

(* The line for a slot holds the tasks that wait, each once.               *)
InLine == /\ Once(waiting)
          /\ \A i \in 1 .. Len(waiting) : task[waiting[i]].at = "queued"

(* A walk reads its index, then its directories, then all it found.        *)
WalkInOrder(w) ==
  /\ walks[w].at = "index" =>
       /\ walks[w].place = 1 /\ task[Index(w)].at \in {"idle", "queued", "first"}
       /\ task[Index(w)].at # "idle" => w \in Walking
  /\ walks[w].at # "index" => w \in Walking /\ task[Index(w)].at = "over"
  /\ walks[w].at = "walk" => walks[w].place <= Len(listing.places[w])
  /\ walks[w].at = "read" => walks[w].place > Len(listing.places[w])
  /\ \A p \in Paths :
       /\ walks[w].at \in {"index", "failed"} => task[<< w, p >>].at = "idle"
       /\ walks[w].at = "walk" => task[<< w, p >>].at \in {"idle", "found"}
       /\ walks[w].at = "read" => task[<< w, p >>].at # "found"

(* What the call asks for and nobody touched since it began.               *)
Wanted(w, p) ==
  /\ p \in steady /\ names[p] # Nothing
  /\ listing.window => names[p] \in fresh
  /\ Marked(contents[names[p]])
LookedIn(w, p) ==
  \E i \in 1 .. Len(listing.places[w]) : i < walks[w].place /\ p[1] = listing.places[w][i]

(* It is on its way to its row from the moment its directory is read.      *)
OnItsWay(w, p) ==
  LET t == task[<< w, p >>] IN
  Wanted(w, p) /\ LookedIn(w, p) =>
    /\ walks[w].at = "walk" => t.at = "found"
    /\ walks[w].at = "read" =>
         /\ t.at # "idle"
         /\ t.at = "read" => t.file = names[p] /\ t.size = Len(contents[names[p]])
         /\ t.at = "over" => [walk |-> w, path |-> p, marked |-> TRUE] \in rows

(* The list is put together when nothing is left to do.                    *)
ListEnds ==
  /\ listed \in {"running", "complete", "partial", "interrupted"}
  /\ listed \in {"running", "interrupted"} => shown = << >>
  /\ listed \in {"complete", "partial"} =>
       \A w \in Walks : WalkOver(w) /\ walks[w].at # "interrupted"
  /\ \A i \in DOMAIN shown : walks[shown[i].walk].at = "read"
  /\ listed = "complete" =>
       /\ \A w \in Walks : w \in Walking /\ walks[w].at = "read"
       /\ listing.limit = 0 =>
            \A r \in rows : r.marked /\ walks[r.walk].at = "read" => r \in ToSet(shown)

ListInv ==
  /\ ListTypes /\ InLine
  /\ \A w \in Walks : WalkInOrder(w) /\ \A p \in Paths : OnItsWay(w, p)
  /\ ListEnds

LEMMA NotAPath == IndexFile \notin Paths
  <1>1. "" \notin Places
    BY DEF Places
  <1>2. \A p \in Paths : p[1] \in Places
    BY DEF Paths
  <1>3. IndexFile[1] = ""
    BY DEF IndexFile
  <1> QED BY <1>1, <1>2, <1>3

LEMMA TasksAre ==
  /\ \A w \in Walks : Index(w) \in Tasks /\ Index(w)[1] = w /\ Index(w)[2] = IndexFile
  /\ \A w \in Walks, p \in Paths :
       /\ << w, p >> \in Tasks /\ << w, p >> \in Candidates
       /\ << w, p >>[1] = w /\ << w, p >>[2] = p
       /\ \A v \in Walks : << w, p >> # Index(v)
  /\ \A t \in Tasks : /\ t[1] \in Walks
                      /\ \/ t = Index(t[1]) /\ t[2] = IndexFile /\ t \notin Candidates
                         \/ t[2] \in Paths /\ t = << t[1], t[2] >> /\ t \in Candidates
  BY NotAPath DEF Tasks, Index, Candidates

LEMMA AskEffect ==
  ASSUME ListTypes, InLine, NEW ts \in Seq(Tasks), Once(ts),
         \A i \in 1 .. Len(ts) : task[ts[i]].at # "queued", Ask(ts)
  PROVE  /\ free' \in Nat /\ waiting' \in Seq(Tasks) /\ task' \in [Tasks -> OneTask]
         /\ InLine'
         /\ \A u \in Tasks : IF u \in ToSet(ts) THEN task'[u].at \in {"queued", "first"}
                             ELSE task'[u] = task[u]
  <1> DEFINE m == Min({free, Len(ts)})
             g == Granted(ts)
             r == Waiting(ts)
  <1>1. free \in Nat /\ waiting \in Seq(Tasks) /\ task \in [Tasks -> OneTask]
    BY DEF ListTypes
  <1>2. m \in Nat /\ m <= free /\ m <= Len(ts)
    <2>1. m \in {free, Len(ts)} /\ m <= free /\ m <= Len(ts)
      <3>1. free \in Int /\ Len(ts) \in Int
        BY <1>1
      <3> QED BY <3>1, MinOfTwo
    <2> HIDE DEF m
    <2> QED BY <1>1, <2>1
  <1>3. g = SubSeq(ts, 1, m) /\ r = SubSeq(ts, m + 1, Len(ts))
    BY DEF Granted, Waiting
  <1> HIDE DEF m, g, r
  <1>4. g \in Seq(Tasks) /\ Len(g) = m /\ \A i \in 1 .. m : g[i] = ts[i]
    BY <1>2, <1>3
  <1>5. /\ r \in Seq(Tasks) /\ Len(r) = Len(ts) - m
        /\ \A i \in 1 .. (Len(ts) - m) : r[i] = ts[m + i]
    BY <1>2, <1>3
  <1>6. /\ ToSet(g) = {ts[i] : i \in 1 .. m}
        /\ ToSet(r) = {ts[i] : i \in (m + 1) .. Len(ts)}
        /\ ToSet(ts) = {ts[i] : i \in 1 .. Len(ts)}
    <2>1. ToSet(g) = {ts[i] : i \in 1 .. m}
      BY <1>2, <1>4 DEF ToSet
    <2>2. \A i \in (m + 1) .. Len(ts) : i - m \in 1 .. Len(r) /\ r[i - m] = ts[i]
      BY <1>2, <1>5
    <2>3. \A i \in 1 .. Len(r) : m + i \in (m + 1) .. Len(ts)
      BY <1>2, <1>5
    <2>4. DOMAIN r = 1 .. Len(r)
      BY <1>5
    <2>5. ToSet(r) = {ts[i] : i \in (m + 1) .. Len(ts)}
      BY <1>5, <2>2, <2>3, <2>4 DEF ToSet
    <2>6. ToSet(ts) = {ts[i] : i \in 1 .. Len(ts)}
      BY DEF ToSet
    <2> QED BY <2>1, <2>5, <2>6
  <1>7. ToSet(ts) = ToSet(g) \cup ToSet(r)
    BY <1>2, <1>6
  <1>8. \A i \in 1 .. Len(r) : r[i] \notin ToSet(g)
    BY <1>2, <1>5, <1>6 DEF Once
  <1>9. /\ free' = free - Len(g) /\ waiting' = waiting \o r
        /\ task' = [t \in Tasks |->
             IF t \in ToSet(g) THEN [Idle EXCEPT !.at = "first"]
             ELSE IF t \in ToSet(r) THEN [Idle EXCEPT !.at = "queued"]
             ELSE task[t]]
    BY DEF Ask, g, r
  <1>10. /\ [Idle EXCEPT !.at = "first"] \in OneTask
         /\ [Idle EXCEPT !.at = "queued"] \in OneTask
         /\ [Idle EXCEPT !.at = "first"].at = "first"
         /\ [Idle EXCEPT !.at = "queued"].at = "queued"
    BY DEF Idle, OneTask, TaskStages
  <1> DEFINE a == [Idle EXCEPT !.at = "first"]
             b == [Idle EXCEPT !.at = "queued"]
  <1>11. /\ a \in OneTask /\ b \in OneTask /\ a.at = "first" /\ b.at = "queued"
         /\ task' = [t \in Tasks |-> IF t \in ToSet(g) THEN a
                                     ELSE IF t \in ToSet(r) THEN b ELSE task[t]]
    BY <1>9, <1>10
  <1> HIDE DEF a, b
  <1>12. free' \in Nat /\ waiting' \in Seq(Tasks)
    BY <1>1, <1>2, <1>4, <1>5, <1>9
  <1>13. task' \in [Tasks -> OneTask]
    BY <1>1, <1>11
  <1>14. \A u \in Tasks : IF u \in ToSet(ts) THEN task'[u].at \in {"queued", "first"}
                          ELSE task'[u] = task[u]
    BY <1>7, <1>11
  <1>15. InLine'
    <2>1. Len(waiting') = Len(waiting) + Len(r)
      <3>1. r \in Seq(Tasks) /\ waiting \in Seq(Tasks)
        BY <1>1, <1>5
      <3> QED BY <1>9, <3>1
    <2>2. ASSUME NEW i \in 1 .. Len(waiting) PROVE waiting'[i] = waiting[i]
      <3>1. r \in Seq(Tasks) /\ waiting \in Seq(Tasks)
        BY <1>1, <1>5
      <3>2. Len(waiting) \in Nat /\ Len(r) \in Nat /\ i \in 1 .. (Len(waiting) + Len(r))
        BY <3>1
      <3>3. (waiting \o r)[i] = waiting[i]
        BY <3>1, <3>2
      <3> QED BY <1>9, <3>3
    <2>3. ASSUME NEW i \in 1 .. Len(r) PROVE waiting'[Len(waiting) + i] = r[i]
      <3>1. r \in Seq(Tasks) /\ waiting \in Seq(Tasks)
        BY <1>1, <1>5
      <3>2. Len(waiting) \in Nat /\ Len(r) \in Nat /\ Len(waiting) + i \in 1 .. (Len(waiting) + Len(r))
        BY <3>1
      <3>3. (waiting \o r)[Len(waiting) + i] = r[(Len(waiting) + i) - Len(waiting)]
        BY <3>1, <3>2
      <3>4. (Len(waiting) + i) - Len(waiting) = i
        BY <3>2
      <3> QED BY <1>9, <3>3, <3>4
    <2>4. \A i \in 1 .. Len(waiting') :
            \/ i \in 1 .. Len(waiting)
            \/ i - Len(waiting) \in 1 .. Len(r) /\ i = Len(waiting) + (i - Len(waiting))
      BY <1>1, <1>5, <2>1
    <2>5. \A i \in 1 .. Len(waiting) : waiting[i] \in Tasks /\ waiting[i] \notin ToSet(ts)
      BY <1>1, <1>6 DEF InLine
    <2>6. \A i \in 1 .. Len(r) : r[i] \in Tasks /\ r[i] \in ToSet(ts) /\ r[i] \in ToSet(r)
      <3>1. DOMAIN r = 1 .. Len(r)
        BY <1>5
      <3>2. \A i \in 1 .. Len(r) : r[i] \in Tasks /\ r[i] \in ToSet(r)
        BY <1>5, <3>1 DEF ToSet
      <3> QED BY <1>7, <3>2
    <2>7. ASSUME NEW i \in 1 .. Len(waiting') PROVE task'[waiting'[i]].at = "queued"
      <3>1. CASE i \in 1 .. Len(waiting)
        BY <1>14, <2>2, <2>5, <3>1 DEF InLine
      <3>2. CASE i - Len(waiting) \in 1 .. Len(r) /\ i = Len(waiting) + (i - Len(waiting))
        <4>1. waiting'[i] = r[i - Len(waiting)]
          BY <2>3, <3>2
        <4> QED BY <1>8, <1>11, <2>6, <3>2, <4>1
      <3> QED BY <2>4, <3>1, <3>2
    <2>8. Once(r)
      BY <1>2, <1>5 DEF Once
    <2>9. ASSUME NEW i \in 1 .. Len(waiting'), NEW j \in 1 .. Len(waiting'), waiting'[i] = waiting'[j]
          PROVE  i = j
      <3>1. CASE i \in 1 .. Len(waiting) /\ j \in 1 .. Len(waiting)
        BY <2>2, <2>9, <3>1 DEF InLine, Once
      <3>2. CASE i \in 1 .. Len(waiting) /\ j - Len(waiting) \in 1 .. Len(r)
                   /\ j = Len(waiting) + (j - Len(waiting))
        <4>1. waiting'[j] = r[j - Len(waiting)]
          BY <2>3, <3>2
        <4> QED BY <2>2, <2>5, <2>6, <2>9, <3>2, <4>1
      <3>3. CASE j \in 1 .. Len(waiting) /\ i - Len(waiting) \in 1 .. Len(r)
                   /\ i = Len(waiting) + (i - Len(waiting))
        <4>1. waiting'[i] = r[i - Len(waiting)]
          BY <2>3, <3>3
        <4> QED BY <2>2, <2>5, <2>6, <2>9, <3>3, <4>1
      <3>4. CASE /\ i - Len(waiting) \in 1 .. Len(r) /\ i = Len(waiting) + (i - Len(waiting))
                 /\ j - Len(waiting) \in 1 .. Len(r) /\ j = Len(waiting) + (j - Len(waiting))
        <4>1. r[i - Len(waiting)] = r[j - Len(waiting)]
          BY <2>3, <2>9, <3>4
        <4>2. i - Len(waiting) = j - Len(waiting)
          BY <2>8, <3>4, <4>1 DEF Once
        <4> QED BY <3>4, <4>2
      <3> QED BY <2>4, <3>1, <3>2, <3>3, <3>4
    <2> QED BY <2>7, <2>9 DEF InLine, Once
  <1> QED BY <1>12, <1>13, <1>14, <1>15

LEMMA ReleaseEffect ==
  ASSUME ListTypes, InLine, NEW t \in Tasks, task[t].at # "queued", Release(t)
  PROVE  /\ free' \in Nat /\ waiting' \in Seq(Tasks) /\ task' \in [Tasks -> OneTask]
         /\ InLine'
         /\ task'[t] = [task[t] EXCEPT !.at = "over"]
         /\ \A u \in Tasks \ {t} :
              \/ task'[u] = task[u]
              \/ task[u].at = "queued" /\ task'[u] = [task[u] EXCEPT !.at = "first"]
  <1>1. free \in Nat /\ waiting \in Seq(Tasks) /\ task \in [Tasks -> OneTask]
    BY DEF ListTypes
  <1>2. \A u \in Tasks : /\ [task[u] EXCEPT !.at = "over"] \in OneTask
                         /\ [task[u] EXCEPT !.at = "first"] \in OneTask
    BY <1>1 DEF OneTask, TaskStages
  <1>3. CASE waiting = << >>
    <2>1. /\ task' = [task EXCEPT ![t] = [task[t] EXCEPT !.at = "over"]]
          /\ free' = free + 1 /\ waiting' = waiting
      BY <1>3 DEF Release
    <2>2. task' \in [Tasks -> OneTask]
      BY <1>1, <1>2, <2>1
    <2>3. InLine'
      BY <1>3, <2>1 DEF InLine, Once
    <2> QED BY <1>1, <2>1, <2>2, <2>3
  <1>4. CASE waiting # << >>
    <2> DEFINE u == Head(waiting)
               finished == [task[t] EXCEPT !.at = "over"]
               first == [task[u] EXCEPT !.at = "first"]
    <2>1. /\ u \in Tasks /\ u = waiting[1] /\ task[u].at = "queued"
          /\ Len(waiting) \in Nat /\ Len(waiting) >= 1
      BY <1>1, <1>4 DEF InLine
    <2>2. u # t
      BY <2>1
    <2>3. /\ task' = [[task EXCEPT ![t] = finished] EXCEPT ![u] = first]
          /\ waiting' = Tail(waiting) /\ free' = free
      BY <1>1, <1>4, <2>2 DEF Release
    <2>4. finished \in OneTask /\ first \in OneTask
      BY <1>2, <2>1
    <2>5. finished = [task[t] EXCEPT !.at = "over"] /\ first = [task[u] EXCEPT !.at = "first"]
      OBVIOUS
    <2> HIDE DEF u, finished, first
    <2>6. /\ task' \in [Tasks -> OneTask] /\ task'[t] = finished /\ task'[u] = first
          /\ \A v \in Tasks : v # t /\ v # u => task'[v] = task[v]
      BY <1>1, <2>1, <2>2, <2>3, <2>4
    <2>7. waiting' \in Seq(Tasks) /\ Len(waiting') = Len(waiting) - 1
          /\ \A i \in 1 .. Len(waiting') : waiting'[i] = waiting[i + 1] /\ i + 1 \in 1 .. Len(waiting)
      BY <1>1, <1>4, <2>1, <2>3
    <2>8. ASSUME NEW i \in 1 .. Len(waiting') PROVE task'[waiting'[i]].at = "queued"
      <3>1. waiting[i + 1] # u /\ waiting[i + 1] # t /\ waiting[i + 1] \in Tasks
        BY <1>1, <2>1, <2>7 DEF InLine, Once
      <3> QED BY <2>6, <2>7, <3>1 DEF InLine
    <2>9. ASSUME NEW i \in 1 .. Len(waiting'), NEW j \in 1 .. Len(waiting'), waiting'[i] = waiting'[j]
          PROVE  i = j
      <3>1. waiting[i + 1] = waiting[j + 1] /\ i + 1 \in 1 .. Len(waiting) /\ j + 1 \in 1 .. Len(waiting)
        BY <2>7, <2>9
      <3>2. i + 1 = j + 1
        BY <3>1 DEF InLine, Once
      <3> QED BY <3>2
    <2>10. InLine'
      BY <2>8, <2>9 DEF InLine, Once
    <2> QED BY <1>1, <2>1, <2>3, <2>5, <2>6, <2>7, <2>10
  <1> QED BY <1>3, <1>4

(* The tasks of a walk that goes on move forward.                          *)
Onward(u) ==
  \/ task'[u].at = task[u].at
  \/ task[u].at = "queued" /\ task'[u].at = "first"
  \/ /\ u \in Candidates /\ task[u].at \in {"first", "open", "read"}
     /\ task'[u].at \in {"open", "read", "over"}
WalkGoesOn(w) ==
  \/ walks'[w] = walks[w]
  \/ /\ walks[w].at \in {"read", "interrupted"}
     /\ walks'[w] = [walks[w] EXCEPT !.at = "interrupted"]

LEMMA WalkKept ==
  ASSUME ListTypes, NEW w \in Walks, WalkInOrder(w), WalkGoesOn(w), listing' = listing,
         \A u \in Tasks : u[1] = w => Onward(u)
  PROVE  WalkInOrder(w)'
  <1>1. /\ Index(w) \in Tasks /\ Index(w)[1] = w /\ Index(w) \notin Candidates
        /\ \A p \in Paths : << w, p >> \in Tasks /\ << w, p >>[1] = w
    BY TasksAre
  <1>2. /\ walks[w] \in OneWalk
        /\ [walks[w] EXCEPT !.at = "interrupted"].at = "interrupted"
    BY DEF ListTypes, OneWalk
  <1>3. /\ \/ task'[Index(w)].at = task[Index(w)].at
           \/ task[Index(w)].at = "queued" /\ task'[Index(w)].at = "first"
        /\ \A p \in Paths : Onward(<< w, p >>)
    BY <1>1 DEF Onward
  <1>4. CASE walks'[w] = walks[w]
    BY <1>3, <1>4 DEF WalkInOrder, Walking, Onward
  <1>5. CASE /\ walks[w].at \in {"read", "interrupted"}
             /\ walks'[w] = [walks[w] EXCEPT !.at = "interrupted"]
    BY <1>2, <1>3, <1>5 DEF WalkInOrder, Walking
  <1> QED BY <1>4, <1>5 DEF WalkGoesOn

StoreStill == UNCHANGED << listing, names, contents, fresh, steady >>

LEMMA WantedStill ==
  ASSUME StoreStill, NEW w, NEW p
  PROVE  Wanted(w, p)' <=> Wanted(w, p)
  BY DEF StoreStill, Wanted, Marked

LEMMA LookedStill ==
  ASSUME ListTypes, listing' = listing, NEW w \in Walks, WalkGoesOn(w), NEW p
  PROVE  LookedIn(w, p)' <=> LookedIn(w, p)
  <1>1. walks'[w].place = walks[w].place
    BY DEF WalkGoesOn, ListTypes, OneWalk
  <1> QED BY <1>1 DEF LookedIn

LEMMA WayKept ==
  ASSUME ListTypes, StoreStill, rows \subseteq rows', NEW w \in Walks, NEW p \in Paths,
         WalkGoesOn(w), OnItsWay(w, p),
         \/ task'[<< w, p >>] = task[<< w, p >>]
         \/ task[<< w, p >>].at = "queued" /\ task'[<< w, p >>].at = "first"
  PROVE  OnItsWay(w, p)'
  <1>1. /\ Wanted(w, p)' <=> Wanted(w, p)
        /\ LookedIn(w, p)' <=> LookedIn(w, p)
    BY WantedStill, LookedStill DEF StoreStill
  <1>2. \/ walks'[w].at = walks[w].at
        \/ walks'[w].at = "interrupted"
    BY DEF WalkGoesOn, ListTypes, OneWalk
  <1>3. CASE walks'[w].at = "interrupted"
    BY <1>3 DEF OnItsWay
  <1>4. CASE walks'[w].at = walks[w].at /\ task'[<< w, p >>] = task[<< w, p >>]
    BY <1>1, <1>4 DEF OnItsWay, StoreStill
  <1>5. CASE /\ walks'[w].at = walks[w].at
             /\ task[<< w, p >>].at = "queued" /\ task'[<< w, p >>].at = "first"
    BY <1>1, <1>5 DEF OnItsWay
  <1> QED BY <1>2, <1>3, <1>4, <1>5

(* While a task is under way or a walk has work, the listing is not told.  *)
LEMMA NotTold ==
  ASSUME ListInv, NEW t \in Tasks, task[t].at \notin {"idle", "over"}
  PROVE  listed \in {"running", "interrupted"}
  <1> SUFFICES ASSUME listed \in {"complete", "partial"} PROVE FALSE
    BY DEF ListInv, ListEnds
  <1> DEFINE w == t[1]
  <1>1. /\ w \in Walks
        /\ \/ t = Index(w)
           \/ t[2] \in Paths /\ t = << w, t[2] >> /\ t \in Candidates
    BY TasksAre
  <1>2. WalkOver(w) /\ walks[w].at # "interrupted" /\ WalkInOrder(w)
    BY <1>1 DEF ListInv, ListEnds
  <1>3. walks[w].at \in WalkStages
    BY <1>1 DEF ListInv, ListTypes, OneWalk
  <1>4. CASE t = Index(w)
    BY <1>2, <1>4 DEF WalkInOrder, WalkOver
  <1>5. CASE t[2] \in Paths /\ t = << w, t[2] >> /\ t \in Candidates
    <2>1. walks[w].at \in {"index", "failed"} => task[t].at = "idle"
      BY <1>2, <1>5 DEF WalkInOrder
    <2>2. walks[w].at = "read" => task[t].at \in {"idle", "over"}
      BY <1>2, <1>5 DEF WalkOver, WalkInOrder
    <2>3. walks[w].at # "walk"
      BY <1>2 DEF WalkInOrder, WalkOver
    <2> QED BY <1>2, <1>3, <2>1, <2>2, <2>3 DEF WalkStages
  <1> QED BY <1>1, <1>4, <1>5

LEMMA NotToldWalk ==
  ASSUME ListInv, NEW w \in Walks, w \in Walking, walks[w].at \in {"index", "walk"}
  PROVE  listed \in {"running", "interrupted"}
  BY DEF ListInv, ListEnds, WalkOver

LEMMA EndsKept ==
  ASSUME ListEnds, listed \in {"running", "interrupted"}, UNCHANGED << listed, shown >>
  PROVE  ListEnds'
  <1>1. shown' = << >> /\ listed' \in {"running", "interrupted"}
    BY DEF ListEnds
  <1>2. DOMAIN shown' = {}
    BY <1>1
  <1> QED BY <1>1, <1>2 DEF ListEnds

LEMMA ListStarts == StoreInit /\ ListInit => ListInv
  <1> SUFFICES ASSUME StoreInit, ListInit PROVE ListInv
    OBVIOUS
  <1> DEFINE one == [at |-> "index", place |-> 1]
  <1>1. /\ listing \in Listings /\ walks = [w \in Walks |-> one]
        /\ task = [t \in Tasks |-> Idle] /\ free = OpenSources /\ waiting = << >> /\ rows = {}
        /\ listed = "running" /\ shown = << >> /\ steady = Paths
    BY DEF ListInit
  <1>2. Idle \in OneTask /\ Idle.at = "idle"
    BY DEF Idle, OneTask, TaskStages
  <1>3. one \in OneWalk /\ one.at = "index" /\ one.place = 1
    BY DEF OneWalk, WalkStages
  <1> HIDE DEF one
  <1>4. << >> \in Seq(Tasks) /\ Len(<< >>) = 0 /\ DOMAIN << >> = {}
    OBVIOUS
  <1>5. IsFiniteSet(rows)
    BY <1>1, FS_EmptySet
  <1>6. ListTypes
    BY <1>1, <1>2, <1>3, <1>4, <1>5, StoreInitTyped, ListAssumption DEF ListTypes
  <1>7. InLine
    BY <1>1, <1>4 DEF InLine, Once
  <1>8. ASSUME NEW w \in Walks, NEW p \in Paths PROVE OnItsWay(w, p)
    <2>1. walks[w].at = "index" /\ walks[w].place = 1
      BY <1>1, <1>3
    <2> QED BY <2>1 DEF OnItsWay
  <1>9. ASSUME NEW w \in Walks PROVE WalkInOrder(w)
    <2>1. Index(w) \in Tasks /\ \A p \in Paths : << w, p >> \in Tasks
      BY TasksAre
    <2> QED BY <1>1, <1>2, <1>3, <2>1 DEF WalkInOrder
  <1>10. ListEnds
    BY <1>1, <1>4 DEF ListEnds
  <1> QED BY <1>6, <1>7, <1>8, <1>9, <1>10 DEF ListInv

Still == UNCHANGED << fresh, steady, storeVars >>

LEMMA StillStore ==
  ASSUME Still, listing' = listing
  PROVE  StoreStill /\ (StoreTypes => StoreTypes')
  BY DEF Still, StoreStill, storeVars, StoreTypes

LEMMA AskIndexKeeps ==
  ASSUME ListInv, Still, NEW w \in Walks, AskIndex(w)
  PROVE  ListInv'
  <1> DEFINE ts == << Index(w) >>
  <1>1. /\ walks[w].at = "index" /\ task[Index(w)].at = "idle" /\ w \in Walking /\ Ask(ts)
        /\ UNCHANGED << listing, walks, rows, unreadable, stopped, listed, shown >>
    BY DEF AskIndex
  <1>2. /\ ListTypes /\ InLine /\ ListEnds
        /\ \A v \in Walks : WalkInOrder(v)
        /\ \A v \in Walks, p \in Paths : OnItsWay(v, p)
    BY DEF ListInv
  <1>3. Index(w) \in Tasks
    BY TasksAre
  <1>4. ts \in Seq(Tasks) /\ Len(ts) = 1 /\ ts[1] = Index(w) /\ ToSet(ts) = {Index(w)}
    BY <1>3 DEF ToSet
  <1> HIDE DEF ts
  <1>5. Once(ts) /\ \A i \in 1 .. Len(ts) : task[ts[i]].at # "queued"
    BY <1>1, <1>4 DEF Once
  <1>6. /\ free' \in Nat /\ waiting' \in Seq(Tasks) /\ task' \in [Tasks -> OneTask] /\ InLine'
        /\ \A u \in Tasks : IF u \in ToSet(ts) THEN task'[u].at \in {"queued", "first"}
                            ELSE task'[u] = task[u]
    BY <1>1, <1>2, <1>4, <1>5, AskEffect
  <1>7. StoreStill /\ StoreTypes'
    BY <1>1, <1>2, StillStore DEF ListTypes
  <1>8. ListTypes'
    BY <1>1, <1>2, <1>6, <1>7 DEF ListTypes, StoreStill
  <1>9. \A v \in Walks, p \in Paths : << v, p >> \in Tasks /\ task'[<< v, p >>] = task[<< v, p >>]
    <2> SUFFICES ASSUME NEW v \in Walks, NEW p \in Paths
                 PROVE  << v, p >> \in Tasks /\ task'[<< v, p >>] = task[<< v, p >>]
      OBVIOUS
    <2>1. << v, p >> \in Tasks /\ << v, p >> # Index(w)
      BY TasksAre
    <2>2. << v, p >> \notin ToSet(ts)
      BY <1>4, <2>1
    <2> QED BY <1>6, <2>1, <2>2
  <1>10. \A v \in Walks : WalkGoesOn(v)
    BY <1>1 DEF WalkGoesOn
  <1>11. ASSUME NEW v \in Walks, NEW p \in Paths PROVE OnItsWay(v, p)'
    BY <1>1, <1>2, <1>7, <1>9, <1>10, WayKept
  <1>12. ASSUME NEW v \in Walks PROVE WalkInOrder(v)'
    <2>1. CASE v = w
      <3>1. WalkInOrder(w) /\ task'[Index(w)].at \in {"queued", "first"}
        BY <1>2, <1>3, <1>4, <1>6
      <3> QED BY <1>1, <1>9, <2>1, <3>1 DEF WalkInOrder, Walking
    <2>2. CASE v # w
      <3>1. \A u \in Tasks : u[1] = v => Onward(u)
        BY <1>4, <1>6, <2>2, TasksAre DEF Onward
      <3> QED BY <1>1, <1>2, <1>10, <3>1, WalkKept
    <2> QED BY <2>1, <2>2
  <1>13. ListEnds'
    BY <1>1, <1>2, NotToldWalk, EndsKept
  <1> QED BY <1>6, <1>8, <1>11, <1>12, <1>13 DEF ListInv

LEMMA CaptureIndexKeeps ==
  ASSUME ListInv, Still, NEW w \in Walks, CaptureIndex(w)
  PROVE  ListInv'
  <1> DEFINE t == Index(w)
             to == IF listing.index[w] \in {"busy", "missing"} THEN "failed"
                   ELSE IF stopped THEN "interrupted" ELSE "walk"
             one == [walks[w] EXCEPT !.at = to]
  <1>1. /\ task[t].at = "first" /\ Release(t) /\ walks' = [walks EXCEPT ![w] = one]
        /\ UNCHANGED << listing, rows, unreadable, stopped, listed, shown >>
    BY DEF CaptureIndex
  <1>2. /\ ListTypes /\ InLine /\ ListEnds
        /\ \A v \in Walks : WalkInOrder(v)
        /\ \A v \in Walks, p \in Paths : OnItsWay(v, p)
    BY DEF ListInv
  <1>3. t \in Tasks /\ to \in {"failed", "interrupted", "walk"}
    BY TasksAre
  <1>4. walks[w].at = "index" /\ walks[w].place = 1 /\ w \in Walking
        /\ \A p \in Paths : task[<< w, p >>].at = "idle"
    BY <1>1, <1>2 DEF WalkInOrder
  <1>5. one \in OneWalk /\ one.at = to /\ one.place = 1
    <2>1. walks[w] \in OneWalk
      BY <1>2 DEF ListTypes
    <2> HIDE DEF to
    <2> QED BY <1>3, <1>4, <2>1 DEF OneWalk, WalkStages
  <1> HIDE DEF to, one
  <1>6. walks' \in [Walks -> OneWalk] /\ walks'[w] = one /\ \A v \in Walks \ {w} : walks'[v] = walks[v]
    BY <1>1, <1>2, <1>5 DEF ListTypes
  <1>7. /\ free' \in Nat /\ waiting' \in Seq(Tasks) /\ task' \in [Tasks -> OneTask] /\ InLine'
        /\ task'[t] = [task[t] EXCEPT !.at = "over"]
        /\ \A u \in Tasks \ {t} :
             \/ task'[u] = task[u]
             \/ task[u].at = "queued" /\ task'[u] = [task[u] EXCEPT !.at = "first"]
    BY <1>1, <1>2, <1>3, ReleaseEffect
  <1>8. /\ task[t] \in OneTask
        /\ \A u \in Tasks : task[u] \in OneTask
    BY <1>2, <1>3 DEF ListTypes
  <1>9. /\ task'[t].at = "over"
        /\ \A u \in Tasks \ {t} :
             \/ task'[u] = task[u]
             \/ task[u].at = "queued" /\ task'[u].at = "first"
    BY <1>7, <1>8 DEF OneTask
  <1>10. StoreStill /\ StoreTypes'
    BY <1>1, <1>2, StillStore DEF ListTypes
  <1>11. ListTypes'
    BY <1>1, <1>2, <1>6, <1>7, <1>10 DEF ListTypes, StoreStill
  <1>12. \A p \in Paths : << w, p >> \in Tasks \ {t}
    BY TasksAre
  <1>13. ASSUME NEW v \in Walks, NEW p \in Paths PROVE OnItsWay(v, p)'
    <2>1. CASE v = w
      <3>1. ~LookedIn(v, p)'
        BY <1>5, <1>6, <2>1 DEF LookedIn
      <3> QED BY <3>1 DEF OnItsWay
    <2>2. CASE v # w
      <3>1. WalkGoesOn(v)
        BY <1>6, <2>2 DEF WalkGoesOn
      <3>2. << v, p >> \in Tasks \ {t}
        BY TasksAre
      <3> QED BY <1>1, <1>2, <1>9, <1>10, <3>1, <3>2, WayKept
    <2> QED BY <2>1, <2>2
  <1>14. ASSUME NEW v \in Walks PROVE WalkInOrder(v)'
    <2>1. CASE v = w
      <3>1. Len(listing.places[w]) \in Nat /\ Len(listing.places[w]) >= 1
        <4>1. listing.places[w] \in Seq(Places) /\ listing.places[w] # << >>
          BY <1>2, <1>4, ListAssumption DEF ListTypes, Walking
        <4> QED BY <4>1
      <3>2. \A p \in Paths : task'[<< w, p >>].at = "idle"
        BY <1>4, <1>9, <1>12
      <3>3. listing' = listing /\ (w \in Walking)'
        BY <1>1, <1>4 DEF Walking
      <3> QED BY <1>3, <1>5, <1>6, <1>9, <2>1, <3>1, <3>2, <3>3 DEF WalkInOrder
    <2>2. CASE v # w
      <3>1. \A u \in Tasks : u[1] = v => Onward(u)
        BY <1>9, <2>2, TasksAre DEF Onward
      <3>2. WalkGoesOn(v)
        BY <1>6, <2>2 DEF WalkGoesOn
      <3> QED BY <1>1, <1>2, <3>1, <3>2, WalkKept
    <2> QED BY <2>1, <2>2
  <1>15. ListEnds'
    BY <1>1, <1>2, <1>4, NotToldWalk, EndsKept
  <1> QED BY <1>7, <1>11, <1>13, <1>14, <1>15 DEF ListInv

LEMMA WalkPlaceKeeps ==
  ASSUME ListInv, Still, NEW w \in Walks, WalkPlace(w)
  PROVE  ListInv'
  <1> DEFINE here == {p \in Named : p[1] = listing.places[w][walks[w].place]}
             last == walks[w].place = Len(listing.places[w])
             found == {t \in Tasks : t[1] = w /\ task[t].at = "found"} \cup ({w} \X here)
             halted == [walks[w] EXCEPT !.at = "interrupted"]
             moved == [walks[w] EXCEPT !.place = @ + 1, !.at = IF last THEN "read" ELSE "walk"]
  <1>1. /\ walks[w].at = "walk"
        /\ IF stopped /\ here # {}
           THEN walks' = [walks EXCEPT ![w] = halted] /\ UNCHANGED << task, free, waiting >>
           ELSE /\ walks' = [walks EXCEPT ![w] = moved]
                /\ IF last THEN Ask(SetToSeq(found))
                   ELSE /\ task' = [t \in Tasks |->
                                     IF t \in found THEN [Idle EXCEPT !.at = "found"]
                                     ELSE task[t]]
                        /\ UNCHANGED << free, waiting >>
        /\ UNCHANGED << listing, rows, unreadable, stopped, listed, shown >>
    <2>1. [walks EXCEPT ![w].place = @ + 1, ![w].at = IF last THEN "read" ELSE "walk"]
            = [walks EXCEPT ![w] = moved]
      BY DEF ListInv, ListTypes, OneWalk
    <2> QED BY <2>1 DEF WalkPlace
  <1>2. /\ ListTypes /\ InLine /\ ListEnds
        /\ \A v \in Walks : WalkInOrder(v)
        /\ \A v \in Walks, p \in Paths : OnItsWay(v, p)
    BY DEF ListInv
  <1>3. walks[w] \in OneWalk /\ \A t \in Tasks : task[t] \in OneTask
    BY <1>2 DEF ListTypes
  <1>4. /\ w \in Walking /\ task[Index(w)].at = "over"
        /\ walks[w].place <= Len(listing.places[w])
        /\ \A p \in Paths : task[<< w, p >>].at \in {"idle", "found"}
    BY <1>1, <1>2 DEF WalkInOrder
  <1>5. walks[w].place \in Nat \ {0} /\ Len(listing.places[w]) \in Nat
    <2>1. listing.places[w] \in Seq(Places)
      BY <1>2, ListAssumption DEF ListTypes
    <2>2. Len(listing.places[w]) \in Nat
      BY <2>1
    <2> QED BY <1>3, <2>2 DEF OneWalk
  <1>6. StoreStill /\ StoreTypes'
    BY <1>1, <1>2, StillStore DEF ListTypes
  <1>7. ListEnds'
    BY <1>1, <1>2, <1>4, NotToldWalk, EndsKept
  <1>8. /\ halted \in OneWalk /\ halted.at = "interrupted"
        /\ moved \in OneWalk /\ moved.place = walks[w].place + 1
        /\ moved.at = IF last THEN "read" ELSE "walk"
    <2>1. halted \in OneWalk /\ halted.at = "interrupted"
      BY <1>3 DEF OneWalk, WalkStages
    <2> DEFINE to == IF last THEN "read" ELSE "walk"
               n == walks[w].place + 1
    <2>2. to \in WalkStages /\ n \in Nat \ {0}
      BY <1>5 DEF WalkStages
    <2>3. moved = [[walks[w] EXCEPT !.place = n] EXCEPT !.at = to]
      OBVIOUS
    <2> HIDE DEF to, n, moved
    <2>4. moved \in OneWalk /\ moved.place = n /\ moved.at = to
      BY <1>3, <2>2, <2>3 DEF OneWalk
    <2> QED BY <2>1, <2>4 DEF to, n
  <1>9. here \subseteq Paths
    BY DEF Named
  <1>10. found \subseteq Tasks /\ \A t \in found : t[1] = w /\ task[t].at \in {"idle", "found"}
    <2>1. \A p \in here : /\ << w, p >> \in Tasks /\ << w, p >>[1] = w
                          /\ task[<< w, p >>].at \in {"idle", "found"}
      BY <1>4, <1>9, TasksAre
    <2> QED BY <2>1
  <1> HIDE DEF halted, moved
  <1>11. CASE stopped /\ here # {}
    <2>1. /\ walks' = [walks EXCEPT ![w] = halted] /\ UNCHANGED << task, free, waiting >>
      BY <1>1, <1>11
    <2> HIDE DEF here, last, found
    <2>2. /\ walks' \in [Walks -> OneWalk] /\ walks'[w] = halted
          /\ \A v \in Walks \ {w} : walks'[v] = walks[v]
      BY <1>2, <1>8, <2>1 DEF ListTypes
    <2>3. ListTypes' /\ InLine'
      BY <1>1, <1>2, <1>6, <2>1, <2>2 DEF ListTypes, InLine, StoreStill
    <2>4. ASSUME NEW v \in Walks, NEW p \in Paths PROVE OnItsWay(v, p)'
      <3>1. CASE v = w
        BY <1>8, <2>2, <3>1 DEF OnItsWay
      <3>2. CASE v # w
        BY <1>1, <1>2, <1>6, <2>1, <2>2, <3>2, WayKept DEF WalkGoesOn
      <3> QED BY <3>1, <3>2
    <2>5. ASSUME NEW v \in Walks PROVE WalkInOrder(v)'
      <3>1. CASE v = w
        BY <1>1, <1>4, <1>8, <2>1, <2>2, <3>1 DEF WalkInOrder, Walking
      <3>2. CASE v # w
        BY <1>1, <1>2, <2>1, <2>2, <3>2, WalkKept DEF WalkGoesOn, Onward
      <3> QED BY <3>1, <3>2
    <2> QED BY <1>7, <2>3, <2>4, <2>5 DEF ListInv
  <1>12. CASE ~(stopped /\ here # {})
    <2>1. /\ walks' = [walks EXCEPT ![w] = moved]
          /\ IF last THEN Ask(SetToSeq(found))
             ELSE /\ task' = [t \in Tasks |->
                               IF t \in found THEN [Idle EXCEPT !.at = "found"] ELSE task[t]]
                  /\ UNCHANGED << free, waiting >>
      BY <1>1, <1>12
    <2>2. /\ walks' \in [Walks -> OneWalk] /\ walks'[w] = moved
          /\ \A v \in Walks \ {w} : walks'[v] = walks[v]
      BY <1>2, <1>8, <2>1 DEF ListTypes
    <2>3. /\ free' \in Nat /\ waiting' \in Seq(Tasks) /\ task' \in [Tasks -> OneTask] /\ InLine'
          /\ \A u \in Tasks \ found : task'[u] = task[u]
          /\ \A u \in found : IF last THEN task'[u].at \in {"queued", "first"}
                              ELSE task'[u].at = "found"
      <3>1. CASE last
        <4> DEFINE ts == SetToSeq(found)
        <4>1. IsFiniteSet(found)
          BY <1>10, PathsFinite, FS_Subset
        <4>2. ts \in Seq(found) /\ Once(ts) /\ ToSet(ts) = found
          <5> HIDE DEF found
          <5> QED BY <4>1, InSomeOrder
        <4>3. Ask(ts)
          BY <2>1, <3>1
        <4> HIDE DEF ts
        <4>4. \A i \in 1 .. Len(ts) : ts[i] \in found
          BY <4>2
        <4>5. \A i \in 1 .. Len(ts) : task[ts[i]].at # "queued"
          <5> HIDE DEF found
          <5> QED BY <1>10, <4>4
        <4>6. ts \in Seq(Tasks)
          <5> HIDE DEF found
          <5> QED BY <1>10, <4>2
        <4>7. /\ free' \in Nat /\ waiting' \in Seq(Tasks) /\ task' \in [Tasks -> OneTask] /\ InLine'
              /\ \A u \in Tasks : IF u \in ToSet(ts) THEN task'[u].at \in {"queued", "first"}
                                  ELSE task'[u] = task[u]
          BY <1>2, <4>2, <4>3, <4>5, <4>6, AskEffect
        <4> HIDE DEF found, last, here
        <4> QED BY <1>10, <3>1, <4>2, <4>7
      <3>2. CASE ~last
        <4> DEFINE a == [Idle EXCEPT !.at = "found"]
        <4>1. a \in OneTask /\ a.at = "found"
          BY DEF Idle, OneTask, TaskStages
        <4>2. /\ task' = [t \in Tasks |-> IF t \in found THEN a ELSE task[t]]
              /\ UNCHANGED << free, waiting >>
          BY <2>1, <3>2
        <4> HIDE DEF a, found, last, here
        <4>3. task' \in [Tasks -> OneTask] /\ free' \in Nat /\ waiting' \in Seq(Tasks)
          BY <1>2, <4>1, <4>2 DEF ListTypes
        <4>4. /\ \A u \in Tasks \ found : task'[u] = task[u]
              /\ \A u \in found : task'[u].at = "found"
          BY <1>10, <4>1, <4>2
        <4>5. \A i \in 1 .. Len(waiting) : waiting[i] \in Tasks /\ waiting[i] \notin found
          BY <1>2, <1>10 DEF ListTypes, InLine
        <4>6. InLine'
          BY <1>2, <4>2, <4>4, <4>5 DEF InLine
        <4> QED BY <3>2, <4>3, <4>4, <4>6
      <3> QED BY <3>1, <3>2
    <2>4. ListTypes'
      <3> HIDE DEF here, last, found
      <3> QED BY <1>1, <1>2, <1>6, <2>2, <2>3 DEF ListTypes, StoreStill
    <2>5. \A v \in Walks \ {w}, p \in Paths : << v, p >> \in Tasks \ found
      <3> SUFFICES ASSUME NEW v \in Walks \ {w}, NEW p \in Paths PROVE << v, p >> \in Tasks \ found
        OBVIOUS
      <3>1. << v, p >> \in Tasks /\ << v, p >>[1] = v
        BY TasksAre
      <3> HIDE DEF found
      <3> QED BY <1>10, <3>1
    <2>6. Index(w) \in Tasks \ found
      <3>1. Index(w) \in Tasks /\ task[Index(w)].at = "over"
        BY <1>4, TasksAre
      <3> HIDE DEF found
      <3> QED BY <1>10, <3>1
    <2>7. ASSUME NEW v \in Walks, NEW p \in Paths PROVE OnItsWay(v, p)'
      <3>1. CASE v = w
        <4> SUFFICES ASSUME Wanted(w, p)', LookedIn(w, p)'
                     PROVE  /\ walks'[w].at = "walk" => task'[<< w, p >>].at = "found"
                            /\ walks'[w].at = "read" => task'[<< w, p >>].at \in {"queued", "first"}
          <5> HIDE DEF here, last, found
          <5> QED BY <3>1 DEF OnItsWay
        <4>1. Wanted(w, p)
          BY <1>6, WantedStill
        <4>2. PICK i \in 1 .. Len(listing.places[w]) :
                i < walks[w].place + 1 /\ p[1] = listing.places[w][i]
          <5>1. listing' = listing /\ walks'[w].place = walks[w].place + 1
            BY <1>1, <1>8, <2>2
          <5> HIDE DEF here, last, found
          <5> QED BY <5>1 DEF LookedIn
        <4>3. CASE i < walks[w].place
          <5>1. LookedIn(w, p)
            BY <4>2, <4>3 DEF LookedIn
          <5>2. << w, p >> \in found
            <6>1. task[<< w, p >>].at = "found"
              BY <1>1, <1>2, <4>1, <5>1 DEF OnItsWay
            <6>2. << w, p >> \in Tasks /\ << w, p >>[1] = w
              BY TasksAre
            <6> QED BY <6>1, <6>2
          <5> HIDE DEF here, found
          <5> QED BY <1>8, <2>2, <2>3, <5>2
        <4>4. CASE ~(i < walks[w].place)
          <5>1. i = walks[w].place
            BY <1>5, <4>2, <4>4
          <5>2. p \in here
            BY <4>1, <4>2, <5>1 DEF Wanted, Named
          <5>3. << w, p >> \in found
            BY <5>2
          <5> HIDE DEF here, found
          <5> QED BY <1>8, <2>2, <2>3, <5>3
        <4> QED BY <4>3, <4>4
      <3>2. CASE v # w
        <4>1. task'[<< v, p >>] = task[<< v, p >>]
          BY <2>3, <2>5, <3>2
        <4>2. WalkGoesOn(v)
          BY <2>2, <3>2 DEF WalkGoesOn
        <4> HIDE DEF here, last, found
        <4> QED BY <1>1, <1>2, <1>6, <4>1, <4>2, WayKept
      <3> QED BY <3>1, <3>2
    <2>8. ASSUME NEW v \in Walks PROVE WalkInOrder(v)'
      <3>1. CASE v = w
        <4>1. task'[Index(w)].at = "over" /\ listing' = listing /\ (w \in Walking)'
          BY <1>1, <1>4, <2>3, <2>6 DEF Walking
        <4>2. ASSUME NEW p \in Paths
              PROVE  IF last THEN task'[<< w, p >>].at # "found"
                     ELSE task'[<< w, p >>].at \in {"idle", "found"}
          <5>1. << w, p >> \in Tasks /\ << w, p >>[1] = w
            BY TasksAre
          <5>2. << w, p >> \notin found => task[<< w, p >>].at = "idle"
            BY <1>4, <5>1
          <5> HIDE DEF here, found, last
          <5> QED BY <2>3, <5>1, <5>2
        <4>3. last => walks'[w].place > Len(listing.places[w])
          BY <1>5, <1>8, <2>2
        <4>4. ~last => walks'[w].place <= Len(listing.places[w])
          BY <1>4, <1>5, <1>8, <2>2
        <4>5. walks'[w].at = IF last THEN "read" ELSE "walk"
          BY <1>8, <2>2
        <4> HIDE DEF here, found, last
        <4> QED BY <3>1, <4>1, <4>2, <4>3, <4>4, <4>5 DEF WalkInOrder
      <3>2. CASE v # w
        <4>1. \A u \in Tasks : u[1] = v => Onward(u)
          <5> HIDE DEF here, found, last
          <5> QED BY <1>10, <2>3, <3>2 DEF Onward
        <4>2. WalkGoesOn(v)
          BY <2>2, <3>2 DEF WalkGoesOn
        <4> HIDE DEF here, found, last
        <4> QED BY <1>1, <1>2, <4>1, <4>2, WalkKept
      <3> QED BY <3>1, <3>2
    <2> QED BY <1>7, <2>3, <2>4, <2>7, <2>8 DEF ListInv
  <1> QED BY <1>11, <1>12

(* One candidate moves on; whatever it leaves, the rest stands.            *)
LEMMA TaskMoves ==
  ASSUME ListInv, StoreStill, UNCHANGED << listed, shown >>, rows \subseteq rows',
         ListTypes', InLine',
         NEW t \in Tasks, t \in Candidates, task[t].at \in {"first", "open", "read"},
         task'[t].at \in {"open", "read", "over"},
         \A u \in Tasks \ {t} : \/ task'[u] = task[u]
                                \/ task[u].at = "queued" /\ task'[u].at = "first",
         \A w \in Walks : w # t[1] => walks'[w] = walks[w],
         WalkGoesOn(t[1]), OnItsWay(t[1], t[2])'
  PROVE  ListInv'
  <1>1. /\ ListTypes /\ InLine /\ ListEnds
        /\ \A v \in Walks : WalkInOrder(v)
        /\ \A v \in Walks, p \in Paths : OnItsWay(v, p)
    BY DEF ListInv
  <1>2. t[1] \in Walks /\ t[2] \in Paths /\ t = << t[1], t[2] >>
    BY TasksAre
  <1>3. \A v \in Walks : WalkGoesOn(v)
    BY DEF WalkGoesOn
  <1>4. ListEnds'
    BY <1>1, NotTold, EndsKept
  <1>5. \A u \in Tasks : Onward(u)
    BY DEF Onward
  <1>6. \A v \in Walks : WalkInOrder(v)'
    BY <1>1, <1>3, <1>5, WalkKept DEF StoreStill
  <1>7. ASSUME NEW v \in Walks, NEW p \in Paths PROVE OnItsWay(v, p)'
    <2>1. CASE << v, p >> = t
      <3>1. v = t[1] /\ p = t[2]
        BY <1>2, <2>1
      <3> QED BY <3>1
    <2>2. CASE << v, p >> # t
      <3>1. << v, p >> \in Tasks \ {t}
        BY <2>2, TasksAre
      <3> QED BY <1>1, <1>3, <3>1, WayKept
    <2> QED BY <2>1, <2>2
  <1> QED BY <1>4, <1>6, <1>7 DEF ListInv

(* A candidate is over once it has its row, or was none to be told of.     *)
LEMMA CandidateOver ==
  ASSUME ListInv, Still, UNCHANGED << listing, listed, shown >>, rows \subseteq rows',
         IsFiniteSet(rows'), \A r \in rows' : r.walk \in Walks,
         NEW t \in Tasks, t \in Candidates, task[t].at \in {"first", "open", "read"}, Release(t),
         walks' \in [Walks -> OneWalk],
         \A w \in Walks : w # t[1] => walks'[w] = walks[w], WalkGoesOn(t[1]),
         Wanted(t[1], t[2]) /\ LookedIn(t[1], t[2]) /\ walks'[t[1]].at = "read"
           => [walk |-> t[1], path |-> t[2], marked |-> TRUE] \in rows'
  PROVE  ListInv'
  <1>1. ListTypes /\ InLine /\ t[1] \in Walks /\ t[2] \in Paths /\ t = << t[1], t[2] >>
    BY TasksAre DEF ListInv
  <1>2. /\ free' \in Nat /\ waiting' \in Seq(Tasks) /\ task' \in [Tasks -> OneTask] /\ InLine'
        /\ task'[t] = [task[t] EXCEPT !.at = "over"]
        /\ \A u \in Tasks \ {t} :
             \/ task'[u] = task[u]
             \/ task[u].at = "queued" /\ task'[u] = [task[u] EXCEPT !.at = "first"]
    BY <1>1, ReleaseEffect
  <1>3. \A u \in Tasks : task[u] \in OneTask
    BY <1>1 DEF ListTypes
  <1>4. /\ task'[t].at = "over"
        /\ \A u \in Tasks \ {t} :
             \/ task'[u] = task[u]
             \/ task[u].at = "queued" /\ task'[u].at = "first"
    BY <1>2, <1>3 DEF OneTask
  <1>5. StoreStill /\ StoreTypes'
    BY <1>1, StillStore DEF ListTypes
  <1>6. ListTypes'
    BY <1>1, <1>2, <1>5 DEF ListTypes, StoreStill
  <1>7. OnItsWay(t[1], t[2])'
    <2>1. /\ Wanted(t[1], t[2])' <=> Wanted(t[1], t[2])
          /\ LookedIn(t[1], t[2])' <=> LookedIn(t[1], t[2])
      BY <1>1, <1>5, WantedStill, LookedStill
    <2>2. walks'[t[1]].at # "walk"
      <3>1. walks[t[1]].at # "walk"
        <4>1. WalkInOrder(t[1])
          BY <1>1 DEF ListInv
        <4> QED BY <1>1, <4>1 DEF WalkInOrder
      <3> QED BY <1>1, <3>1 DEF WalkGoesOn, ListTypes, OneWalk
    <2> QED BY <1>1, <1>4, <2>1, <2>2 DEF OnItsWay
  <1> QED BY <1>2, <1>4, <1>5, <1>6, <1>7, TaskMoves

(* A candidate that goes on keeps its slot.                                *)
LEMMA CandidateGoesOn ==
  ASSUME ListInv, Still, UNCHANGED << listing, walks, rows, listed, shown, free, waiting >>,
         NEW t \in Tasks, t \in Candidates, task[t].at \in {"first", "open", "read"},
         NEW to \in OneTask, task' = [task EXCEPT ![t] = to], to.at \in {"open", "read"},
         to.at = "read" /\ Wanted(t[1], t[2]) /\ OnItsWay(t[1], t[2])
             /\ LookedIn(t[1], t[2]) /\ walks[t[1]].at = "read"
           => to.file = names[t[2]] /\ to.size = Len(contents[names[t[2]]])
  PROVE  ListInv'
  <1>1. ListTypes /\ InLine /\ t[1] \in Walks /\ t[2] \in Paths /\ t = << t[1], t[2] >>
    BY TasksAre DEF ListInv
  <1>2. /\ task' \in [Tasks -> OneTask] /\ task'[t] = to
        /\ \A u \in Tasks \ {t} : task'[u] = task[u]
    BY <1>1 DEF ListTypes
  <1>3. StoreStill /\ StoreTypes'
    BY <1>1, StillStore DEF ListTypes
  <1>4. ListTypes'
    BY <1>1, <1>2, <1>3 DEF ListTypes, StoreStill
  <1>5. InLine'
    <2>1. \A i \in 1 .. Len(waiting) : waiting[i] \in Tasks \ {t}
      BY <1>1 DEF ListTypes, InLine
    <2> QED BY <1>1, <1>2, <2>1 DEF InLine
  <1>6. \A v \in Walks : WalkGoesOn(v)
    BY DEF WalkGoesOn
  <1>7. OnItsWay(t[1], t[2])'
    <2>1. /\ Wanted(t[1], t[2])' <=> Wanted(t[1], t[2])
          /\ LookedIn(t[1], t[2])' <=> LookedIn(t[1], t[2])
      BY <1>1, <1>3, <1>6, WantedStill, LookedStill
    <2>2. WalkInOrder(t[1]) /\ OnItsWay(t[1], t[2])
      BY <1>1 DEF ListInv
    <2>3. walks'[t[1]].at # "walk"
      BY <1>1, <2>2 DEF WalkInOrder
    <2>4. names' = names /\ contents' = contents
      BY <1>3 DEF StoreStill
    <2> QED BY <1>1, <1>2, <2>1, <2>2, <2>3, <2>4 DEF OnItsWay
  <1>8. /\ rows \subseteq rows' /\ UNCHANGED << listed, shown >>
        /\ task'[t].at \in {"open", "read", "over"}
        /\ \A w \in Walks : w # t[1] => walks'[w] = walks[w]
        /\ WalkGoesOn(t[1])
    BY <1>1, <1>2, <1>6
  <1> QED BY <1>2, <1>3, <1>4, <1>5, <1>7, <1>8, TaskMoves

LEMMA StatKeeps ==
  ASSUME ListInv, Still, NEW t \in Tasks, StatCandidate(t)
  PROVE  ListInv'
  <1> DEFINE file == names[t[2]]
             w == t[1]
             opened == [task[t] EXCEPT !.at = "open", !.stamp = file \in fresh]
  <1>1. /\ task[t].at = "first" /\ t \in Candidates
        /\ IF stopped
           THEN /\ Release(t)
                /\ walks' = [walks EXCEPT ![w].at = "interrupted"]
                /\ UNCHANGED << listing, rows, unreadable, stopped, listed, shown >>
           ELSE IF file = Nothing THEN Miss(t)
           ELSE IF listing.window /\ file \notin fresh THEN Drop(t)
           ELSE /\ task' = [task EXCEPT ![t].at = "open", ![t].stamp = file \in fresh]
                /\ UNCHANGED << free, waiting >> /\ SkipsLater
    BY DEF StatCandidate
  <1>2. ListTypes /\ w \in Walks /\ t[2] \in Paths /\ t = << w, t[2] >>
    BY <1>1, TasksAre DEF ListInv
  <1>3. walks \in [Walks -> OneWalk] /\ task[t] \in OneTask /\ task \in [Tasks -> OneTask]
        /\ IsFiniteSet(rows) /\ \A r \in rows : r.walk \in Walks
    BY <1>2 DEF ListTypes
  <1>4. CASE stopped
    <2> DEFINE halted == [walks[w] EXCEPT !.at = "interrupted"]
    <2>1. walks' = [walks EXCEPT ![w] = halted] /\ Release(t)
          /\ UNCHANGED << listing, rows, unreadable, stopped, listed, shown >>
      BY <1>1, <1>4
    <2>2. halted \in OneWalk /\ halted.at = "interrupted"
      BY <1>2, <1>3 DEF OneWalk, WalkStages
    <2>3. walks[w].at \in {"read", "interrupted"}
      <3>1. WalkInOrder(w) /\ walks[w].at \in WalkStages
        BY <1>2, <1>3 DEF ListInv, OneWalk
      <3>2. task[<< w, t[2] >>].at = "first"
        BY <1>1, <1>2
      <3> QED BY <1>2, <3>1, <3>2 DEF WalkInOrder, WalkStages
    <2>4. walks'[w] = halted
      BY <1>2, <1>3, <2>1
    <2>5. WalkGoesOn(w)
      BY <2>3, <2>4 DEF WalkGoesOn
    <2> HIDE DEF halted, w, file
    <2>6. walks' \in [Walks -> OneWalk] /\ walks'[w].at # "read"
          /\ \A v \in Walks : v # w => walks'[v] = walks[v]
      BY <1>2, <1>3, <2>1, <2>2, <2>4
    <2>7. UNCHANGED << listing, listed, shown >> /\ rows \subseteq rows'
          /\ IsFiniteSet(rows') /\ \A r \in rows' : r.walk \in Walks
      BY <1>3, <2>1
    <2> QED BY <1>1, <2>1, <2>5, <2>6, <2>7, CandidateOver DEF w
  <1>5. CASE ~stopped /\ (file = Nothing \/ (listing.window /\ file \notin fresh))
    <2>1. Release(t) /\ UNCHANGED << listing, walks, rows, listed, shown >>
      BY <1>1, <1>5 DEF Miss, Drop
    <2>2. ~Wanted(w, t[2])
      BY <1>5 DEF Wanted
    <2>3. /\ UNCHANGED << listing, listed, shown >> /\ rows \subseteq rows'
          /\ IsFiniteSet(rows') /\ \A r \in rows' : r.walk \in Walks
          /\ walks' \in [Walks -> OneWalk] /\ WalkGoesOn(w)
          /\ \A v \in Walks : v # w => walks'[v] = walks[v]
      BY <1>3, <2>1 DEF WalkGoesOn
    <2> QED BY <1>1, <2>1, <2>2, <2>3, CandidateOver
  <1>6. CASE ~stopped /\ file # Nothing /\ ~(listing.window /\ file \notin fresh)
    <2>1. /\ task' = [task EXCEPT ![t] = opened]
          /\ UNCHANGED << listing, walks, rows, listed, shown, free, waiting >>
      BY <1>1, <1>3, <1>6 DEF SkipsLater
    <2> DEFINE inner == [task[t] EXCEPT !.at = "open"]
               stamp == file \in fresh
    <2>2. inner \in OneTask /\ inner.at = "open"
      BY <1>3 DEF OneTask, TaskStages
    <2>3. opened = [inner EXCEPT !.stamp = stamp]
      OBVIOUS
    <2>4. stamp \in BOOLEAN
      OBVIOUS
    <2> HIDE DEF inner, stamp, opened, file, w
    <2>5. opened \in OneTask /\ opened.at = "open"
      BY <2>2, <2>3, <2>4 DEF OneTask
    <2> QED BY <1>1, <2>1, <2>5, CandidateGoesOn DEF w
  <1> QED BY <1>4, <1>5, <1>6

LEMMA OpenKeeps ==
  ASSUME ListInv, Still, NEW t \in Tasks, OpenCandidate(t)
  PROVE  ListInv'
  <1> DEFINE file == names[t[2]]
             w == t[1]
             size == Len(contents[file])
             want == Min({size, PrefixBytes})
             opened == [task[t] EXCEPT !.at = "read", !.file = file, !.size = size, !.want = want]
  <1>1. /\ task[t].at = "open"
        /\ IF file = Nothing THEN Miss(t)
           ELSE /\ task' = [task EXCEPT ![t] = opened]
                /\ UNCHANGED << free, waiting >> /\ SkipsLater
    BY DEF OpenCandidate
  <1>2. ListTypes /\ w \in Walks /\ WalkInOrder(w)
    BY TasksAre DEF ListInv
  <1>3. t # Index(w)
    BY <1>1, <1>2 DEF WalkInOrder
  <1>4. t \in Candidates /\ t[2] \in Paths /\ t = << w, t[2] >>
    BY <1>3, TasksAre
  <1>5. walks \in [Walks -> OneWalk] /\ task[t] \in OneTask /\ task \in [Tasks -> OneTask]
        /\ IsFiniteSet(rows) /\ \A r \in rows : r.walk \in Walks
    BY <1>2 DEF ListTypes
  <1>6. CASE file = Nothing
    <2>1. Release(t) /\ UNCHANGED << listing, walks, rows, listed, shown >>
      BY <1>1, <1>6 DEF Miss
    <2>2. ~Wanted(w, t[2])
      BY <1>6 DEF Wanted
    <2>3. /\ UNCHANGED << listing, listed, shown >> /\ rows \subseteq rows'
          /\ IsFiniteSet(rows') /\ \A r \in rows' : r.walk \in Walks
          /\ walks' \in [Walks -> OneWalk] /\ WalkGoesOn(w)
          /\ \A v \in Walks : v # w => walks'[v] = walks[v]
      BY <1>5, <2>1 DEF WalkGoesOn
    <2> QED BY <1>1, <1>4, <2>1, <2>2, <2>3, CandidateOver
  <1>7. CASE file # Nothing
    <2>1. /\ task' = [task EXCEPT ![t] = opened]
          /\ UNCHANGED << listing, walks, rows, listed, shown, free, waiting >>
      BY <1>1, <1>7 DEF SkipsLater
    <2>2. file \in Files
      BY <1>2, <1>4, <1>7 DEF ListTypes, StoreTypes
    <2>3. size \in Nat
      <3>1. contents[file] \in Seq(Range(contents[file]))
        BY <1>2, <2>2 DEF ListTypes, StoreTypes, Sequence
      <3> QED BY <3>1
    <2>4. want \in Nat
      <3>1. size \in Int /\ PrefixBytes \in Int
        BY <2>3, ListAssumption
      <3> HIDE DEF size
      <3>2. want \in {size, PrefixBytes}
        BY <3>1, MinOfTwo
      <3> QED BY <2>3, <3>2, ListAssumption
    <2> DEFINE inner == [task[t] EXCEPT !.at = "read", !.file = file]
    <2>5. opened = [inner EXCEPT !.size = size, !.want = want]
      OBVIOUS
    <2> HIDE DEF want, size, opened
    <2>6. inner \in OneTask /\ inner.at = "read" /\ inner.file = file
      BY <1>5, <2>2 DEF OneTask, TaskStages
    <2> HIDE DEF inner
    <2>7. opened \in OneTask /\ opened.at = "read" /\ opened.file = file /\ opened.size = size
      BY <2>3, <2>4, <2>5, <2>6 DEF OneTask
    <2>8. opened.file = names[t[2]] /\ opened.size = Len(contents[names[t[2]]])
      BY <2>7 DEF size
    <2> HIDE DEF file, w
    <2> QED BY <1>1, <1>4, <2>1, <2>7, <2>8, CandidateGoesOn
  <1> QED BY <1>6, <1>7

LEMMA MaxOfTwo ==
  ASSUME NEW a \in Int, NEW b \in Int
  PROVE  Max({a, b}) \in {a, b}
  <1>1. \E x \in {a, b} : \A y \in {a, b} : x >= y
    <2>1. CASE a >= b
      BY <2>1
    <2>2. CASE b >= a
      BY <2>2
    <2> QED BY <2>1, <2>2
  <1> QED BY <1>1 DEF Max

LEMMA MinOfThree ==
  ASSUME NEW a \in Int, NEW b \in Int, NEW c \in Int
  PROVE  Min({a, b, c}) \in {a, b, c}
  <1>1. \E x \in {a, b, c} : \A y \in {a, b, c} : x =< y
    <2>1. CASE a <= b /\ a <= c
      BY <2>1
    <2>2. CASE b <= a /\ b <= c
      BY <2>2
    <2>3. CASE c <= a /\ c <= b
      BY <2>3
    <2> QED BY <2>1, <2>2, <2>3
  <1> QED BY <1>1 DEF Min

(* The last prefix of a file that did not change holds its first line.     *)
LEMMA LastPrefix ==
  ASSUME NEW s, Sequence(s), Len(s) >= 2, NEW want \in Nat, want >= Len(s) \/ want >= MaxPrefix
  PROVE  Marked(SubSeq(s, 1, Min({want, Len(s)})))
  <1> DEFINE m == Min({want, Len(s)})
  <1>1. Len(s) \in Nat /\ s \in Seq(Range(s))
    BY DEF Sequence
  <1>2. m \in {want, Len(s)} /\ m <= Len(s)
    <2>1. want \in Int /\ Len(s) \in Int
      BY <1>1
    <2> QED BY <2>1, MinOfTwo
  <1>3. want >= 2
    BY <1>1, ListAssumption
  <1> HIDE DEF m
  <1>4. m \in Nat /\ m >= 2
    BY <1>1, <1>2, <1>3
  <1>5. Len(SubSeq(s, 1, m)) = m
    BY <1>1, <1>2, <1>4
  <1> QED BY <1>4, <1>5 DEF Marked, m

LEMMA ReadKeeps ==
  ASSUME ListInv, Still, NEW t \in Tasks, ReadMarkers(t)
  PROVE  ListInv'
  <1> DEFINE w == t[1]
             c == task[t]
             bytes == SubSeq(contents[c.file], 1, Min({c.want, Len(contents[c.file])}))
             final == c.want >= c.size \/ c.want >= MaxPrefix
             row == [walk |-> w, path |-> t[2], marked |-> Marked(bytes)]
             want == Min({c.size, MaxPrefix, Max({c.want * 8, PrefixBytes + 1})})
             more == [c EXCEPT !.want = want]
  <1>1. /\ c.at = "read"
        /\ IF Marked(bytes) \/ (final /\ ~SkipsUnmarked)
           THEN /\ rows' = rows \cup {row} /\ Release(t)
                /\ UNCHANGED << listing, walks, listed, shown >>
           ELSE IF final THEN Release(t) /\ UNCHANGED << listing, walks, rows, listed, shown >>
           ELSE /\ task' = [task EXCEPT ![t] = more]
                /\ UNCHANGED << listing, walks, rows, listed, shown, free, waiting >>
    BY DEF ReadMarkers, Drop, SkipsLater
  <1>2. ListTypes /\ w \in Walks /\ WalkInOrder(w)
    BY TasksAre DEF ListInv
  <1>3. t # Index(w)
    BY <1>1, <1>2 DEF WalkInOrder
  <1>4. t \in Candidates /\ t[2] \in Paths /\ t = << w, t[2] >>
    BY <1>3, TasksAre
  <1>5. walks \in [Walks -> OneWalk] /\ c \in OneTask /\ task \in [Tasks -> OneTask]
        /\ IsFiniteSet(rows) /\ \A r \in rows : r.walk \in Walks
    BY <1>2 DEF ListTypes
  <1>6. c.want \in Nat /\ c.size \in Nat
    BY <1>5 DEF OneTask
  <1>7. OnItsWay(w, t[2])
    BY <1>2, <1>4 DEF ListInv
  <1>8. \A v \in Walks : WalkGoesOn(v) \/ walks' # walks
    BY DEF WalkGoesOn
  <1>9. ASSUME Wanted(w, t[2]), LookedIn(w, t[2]), walks[w].at = "read", final
        PROVE  Marked(bytes)
    <2>1. c.file = names[t[2]] /\ c.size = Len(contents[c.file])
      BY <1>1, <1>4, <1>7, <1>9 DEF OnItsWay
    <2>2. c.file \in Files /\ Len(contents[c.file]) >= 2
      BY <1>2, <1>4, <1>9, <2>1 DEF Wanted, Marked, ListTypes, StoreTypes
    <2>3. Sequence(contents[c.file])
      BY <1>2, <2>2 DEF ListTypes, StoreTypes
    <2>4. c.want >= Len(contents[c.file]) \/ c.want >= MaxPrefix
      BY <1>9, <2>1
    <2> HIDE DEF c
    <2> QED BY <1>6, <2>2, <2>3, <2>4, LastPrefix
  <1>10. CASE Marked(bytes) \/ (final /\ ~SkipsUnmarked)
    <2>1. rows' = rows \cup {row} /\ Release(t) /\ UNCHANGED << listing, walks, listed, shown >>
      BY <1>1, <1>10
    <2>2. IsFiniteSet(rows') /\ \A r \in rows' : r.walk \in Walks
      <3>1. IsFiniteSet({row}) /\ row.walk = w
        BY FS_Singleton
      <3> HIDE DEF row
      <3> QED BY <1>2, <1>5, <2>1, <3>1, FS_Union
    <2>3. /\ UNCHANGED << listing, listed, shown >> /\ rows \subseteq rows'
          /\ walks' \in [Walks -> OneWalk] /\ WalkGoesOn(w) /\ walks' = walks
          /\ \A v \in Walks : v # w => walks'[v] = walks[v]
      BY <1>2, <1>5, <1>8, <2>1
    <2>4. Wanted(w, t[2]) /\ LookedIn(w, t[2]) /\ walks'[w].at = "read"
            => [walk |-> w, path |-> t[2], marked |-> TRUE] \in rows'
      <3> SUFFICES ASSUME Wanted(w, t[2]), LookedIn(w, t[2]), walks'[w].at = "read"
                   PROVE  [walk |-> w, path |-> t[2], marked |-> TRUE] \in rows'
        OBVIOUS
      <3>1. Marked(bytes)
        <4> HIDE DEF w, bytes, final
        <4> QED BY <1>9, <1>10, <2>3
      <3> HIDE DEF bytes
      <3>2. row = [walk |-> w, path |-> t[2], marked |-> TRUE]
        BY <3>1 DEF Marked
      <3> HIDE DEF row
      <3> QED BY <2>1, <3>2
    <2> HIDE DEF w, bytes, final, row, want
    <2> QED BY <1>1, <1>4, <2>1, <2>2, <2>3, <2>4, CandidateOver DEF w
  <1>11. CASE ~(Marked(bytes) \/ (final /\ ~SkipsUnmarked)) /\ final
    <2>1. Release(t) /\ UNCHANGED << listing, walks, rows, listed, shown >>
      <3> HIDE DEF bytes, final, row, want, more
      <3> QED BY <1>1, <1>11
    <2>2. /\ UNCHANGED << listing, listed, shown >> /\ rows \subseteq rows'
          /\ IsFiniteSet(rows') /\ \A r \in rows' : r.walk \in Walks
          /\ walks' \in [Walks -> OneWalk] /\ WalkGoesOn(w) /\ walks' = walks
          /\ \A v \in Walks : v # w => walks'[v] = walks[v]
      BY <1>2, <1>5, <1>8, <2>1
    <2>3. ~(Wanted(w, t[2]) /\ LookedIn(w, t[2]) /\ walks'[w].at = "read")
      <3> HIDE DEF w, bytes, final
      <3> QED BY <1>9, <1>11, <2>2
    <2> HIDE DEF w, bytes, final, row, want
    <2> QED BY <1>1, <1>4, <2>1, <2>2, <2>3, CandidateOver DEF w
  <1>12. CASE ~(Marked(bytes) \/ (final /\ ~SkipsUnmarked)) /\ ~final
    <2>1. /\ task' = [task EXCEPT ![t] = more]
          /\ UNCHANGED << listing, walks, rows, listed, shown, free, waiting >>
      <3> HIDE DEF bytes, final, row, want, more
      <3> QED BY <1>1, <1>12
    <2>2. want \in Nat
      <3> DEFINE a == c.want * 8
                 b == PrefixBytes + 1
                 most == Max({a, b})
                 size == c.size
      <3>1. a \in Nat /\ b \in Nat /\ size \in Nat /\ MaxPrefix \in Nat
        BY <1>6, ListAssumption
      <3> HIDE DEF a, b, size
      <3>2. most \in {a, b}
        <4>1. a \in Int /\ b \in Int
          BY <3>1
        <4> QED BY <4>1, MaxOfTwo
      <3> HIDE DEF most
      <3>3. Min({size, MaxPrefix, most}) \in {size, MaxPrefix, most}
        <4>1. size \in Int /\ MaxPrefix \in Int /\ most \in Int
          BY <3>1, <3>2
        <4> QED BY <4>1, MinOfThree
      <3>4. Min({size, MaxPrefix, most}) \in Nat
        BY <3>1, <3>2, <3>3
      <3> QED BY <3>4 DEF size, most, a, b
    <2> HIDE DEF want
    <2>3. more \in OneTask /\ more.at = "read" /\ more.file = c.file /\ more.size = c.size
      BY <1>1, <1>5, <2>2 DEF OneTask
    <2>4. Wanted(w, t[2]) /\ OnItsWay(w, t[2]) /\ LookedIn(w, t[2]) /\ walks[w].at = "read"
            => more.file = names[t[2]] /\ more.size = Len(contents[names[t[2]]])
      BY <1>1, <1>4, <2>3 DEF OnItsWay
    <2>5. c.at \in {"first", "open", "read"} /\ more.at \in {"open", "read"}
      BY <1>1, <2>3
    <2> HIDE DEF w, bytes, final, row, more
    <2> QED BY <1>4, <2>1, <2>3, <2>4, <2>5, CandidateGoesOn DEF w
  <1> HIDE DEF bytes, final
  <1> QED BY <1>10, <1>11, <1>12

LEMMA ListOverKeeps ==
  ASSUME ListInv, Still, ListOver
  PROVE  ListInv'
  <1> DEFINE all == SetToSeq(Reported)
             n == IF listing.limit = 0 THEN Len(all) ELSE Min({listing.limit, Len(all)})
  <1>1. /\ Running /\ \A w \in Walks : WalkOver(w)
        /\ listed' = IF Interrupted THEN "interrupted"
                     ELSE IF \E w \in Walks : walks[w].at = "failed" \/ w \notin Walking
                          THEN "partial" ELSE "complete"
        /\ shown' = IF Interrupted THEN << >> ELSE SubSeq(all, 1, n)
        /\ UNCHANGED << listing, walks, task, free, waiting, rows, unreadable, stopped >>
    BY DEF ListOver
  <1>2. /\ ListTypes /\ InLine /\ ListEnds
        /\ \A v \in Walks : WalkInOrder(v)
        /\ \A v \in Walks, p \in Paths : OnItsWay(v, p)
    BY DEF ListInv
  <1>3. StoreStill /\ StoreTypes'
    BY <1>1, <1>2, StillStore DEF ListTypes
  <1>4. ListTypes' /\ InLine'
    BY <1>1, <1>2, <1>3 DEF ListTypes, InLine, StoreStill
  <1>5. ASSUME NEW v \in Walks PROVE WalkInOrder(v)'
    BY <1>1, <1>2 DEF WalkInOrder, Walking
  <1>6. ASSUME NEW v \in Walks, NEW p \in Paths PROVE OnItsWay(v, p)'
    BY <1>1, <1>2, <1>3, WayKept DEF WalkGoesOn
  <1>7. IsFiniteSet(Reported) /\ \A r \in Reported : r \in rows /\ walks[r.walk].at = "read"
    <2>1. Reported \subseteq rows /\ IsFiniteSet(rows)
      BY <1>2 DEF Reported, ListTypes
    <2>2. IsFiniteSet(Reported)
      BY <2>1, FS_Subset
    <2> QED BY <2>2 DEF Reported
  <1>8. all \in Seq(Reported) /\ ToSet(all) = Reported
    <2>1. SetToSeq(Reported) \in Seq(Reported) /\ ToSet(SetToSeq(Reported)) = Reported
      BY <1>7, InSomeOrder
    <2> QED BY <2>1
  <1> HIDE DEF all
  <1>9. Len(all) \in Nat /\ listing.limit \in Nat
    BY <1>2, <1>8, ListAssumption DEF ListTypes
  <1>10. n \in Nat /\ n <= Len(all) /\ (listing.limit = 0 => n = Len(all))
    <2>1. CASE listing.limit = 0
      BY <1>9, <2>1
    <2>2. CASE listing.limit # 0
      <3>1. listing.limit \in Int /\ Len(all) \in Int
        BY <1>9
      <3>2. /\ Min({listing.limit, Len(all)}) \in {listing.limit, Len(all)}
            /\ Min({listing.limit, Len(all)}) <= Len(all)
        BY <3>1, MinOfTwo
      <3> QED BY <1>9, <2>2, <3>2
    <2> QED BY <2>1, <2>2
  <1> HIDE DEF n
  <1>11. /\ Len(SubSeq(all, 1, n)) = n /\ DOMAIN SubSeq(all, 1, n) = 1 .. n
         /\ \A i \in 1 .. n : SubSeq(all, 1, n)[i] = all[i] /\ all[i] \in Reported
    BY <1>8, <1>9, <1>10
  <1>12. CASE Interrupted
    <2>1. shown' = << >> /\ listed' = "interrupted" /\ DOMAIN << >> = {}
      BY <1>1, <1>12
    <2>2. ListEnds'
      BY <2>1 DEF ListEnds
    <2> QED BY <1>4, <1>5, <1>6, <2>2 DEF ListInv
  <1>13. CASE ~Interrupted
    <2>1. shown' = SubSeq(all, 1, n) /\ listed' \in {"partial", "complete"}
      BY <1>1, <1>13
    <2>2. \A w \in Walks : (WalkOver(w) /\ walks[w].at # "interrupted")'
      BY <1>1, <1>13 DEF Interrupted, WalkOver, Walking
    <2>3. \A i \in DOMAIN shown' : walks'[shown'[i].walk].at = "read"
      BY <1>1, <1>7, <1>11, <2>1
    <2>4. ASSUME listed' = "complete", NEW w \in Walks
          PROVE  (w \in Walking)' /\ walks'[w].at = "read"
      <3>1. w \in Walking /\ walks[w].at # "failed" /\ WalkOver(w) /\ walks[w].at # "interrupted"
        BY <1>1, <1>13, <2>4 DEF Interrupted
      <3>2. walks[w].at = "read"
        BY <3>1 DEF WalkOver
      <3> QED BY <1>1, <3>1, <3>2 DEF Walking
    <2>5. ASSUME listed' = "complete", listing'.limit = 0, NEW r \in rows', r.marked,
                 walks'[r.walk].at = "read"
          PROVE  r \in ToSet(shown')
      <3>1. r \in Reported
        BY <1>1, <2>5 DEF Reported
      <3>2. n = Len(all)
        BY <1>1, <1>10, <2>5
      <3>3. PICK i \in DOMAIN all : all[i] = r
        BY <1>8, <3>1 DEF ToSet
      <3>4. i \in 1 .. n
        BY <1>8, <3>2, <3>3
      <3>5. i \in DOMAIN shown' /\ shown'[i] = r
        BY <1>11, <2>1, <3>3, <3>4
      <3> QED BY <3>5 DEF ToSet
    <2>6. ListEnds'
      BY <2>1, <2>2, <2>3, <2>4, <2>5 DEF ListEnds
    <2> QED BY <1>4, <1>5, <1>6, <2>6 DEF ListInv
  <1> QED BY <1>12, <1>13

(* What nobody touched is as it was.                                       *)
LEMMA DisturbsKeeps ==
  ASSUME ListInv, DisturbsList
  PROVE  ListInv'
  <1>1. /\ Running /\ Writes
        /\ fresh' = fresh \cup {f \in Files : contents'[f] # contents[f]}
        /\ steady' = steady \ Touched
        /\ UNCHANGED << listing, walks, task, free, waiting, rows, unreadable, stopped, listed,
                        shown >>
    BY DEF DisturbsList
  <1>2. /\ ListTypes /\ InLine /\ ListEnds
        /\ \A v \in Walks : WalkInOrder(v)
        /\ \A v \in Walks, p \in Paths : OnItsWay(v, p)
    BY DEF ListInv
  <1>3. StoreTypes'
    BY <1>1, <1>2, WritesTyped DEF ListTypes
  <1>4. ListTypes'
    BY <1>1, <1>2, <1>3 DEF ListTypes
  <1>5. InLine' /\ ListEnds'
    <2>1. InLine'
      BY <1>1, <1>2 DEF InLine
    <2>2. listed \in {"running", "interrupted"} /\ UNCHANGED << listed, shown >>
      BY <1>1 DEF Running
    <2> QED BY <1>2, <2>1, <2>2, EndsKept
  <1>6. ASSUME NEW v \in Walks PROVE WalkInOrder(v)'
    BY <1>1, <1>2 DEF WalkInOrder, Walking
  <1>7. ASSUME NEW v \in Walks, NEW p \in Paths PROVE OnItsWay(v, p)'
    <2> SUFFICES ASSUME Wanted(v, p)' PROVE OnItsWay(v, p)'
      BY DEF OnItsWay
    <2>1. p \in steady /\ p \notin Touched /\ names'[p] # Nothing
      BY <1>1 DEF Wanted
    <2>2. names'[p] = names[p] /\ contents'[names[p]] = contents[names[p]]
      BY <2>1 DEF Touched
    <2>3. names[p] \in fresh' => names[p] \in fresh
      BY <1>1, <2>2
    <2>4. Wanted(v, p)
      BY <1>1, <2>1, <2>2, <2>3 DEF Wanted
    <2>5. LookedIn(v, p)' => LookedIn(v, p)
      BY <1>1 DEF LookedIn
    <2> QED BY <1>1, <1>2, <2>2, <2>4, <2>5 DEF OnItsWay
  <1> QED BY <1>4, <1>5, <1>6, <1>7 DEF ListInv

LEMMA ListStepKeeps ==
  ASSUME ListInv, [Lists \/ DisturbsList]_<< storeVars, listVars >>
  PROVE  ListInv'
  <1>1. ASSUME ListGoesOn PROVE ListInv'
    <2>1. Still
      BY <1>1 DEF ListGoesOn, Still
    <2> QED BY <1>1, <2>1, AskIndexKeeps, CaptureIndexKeeps, WalkPlaceKeeps, StatKeeps,
               OpenKeeps, ReadKeeps, ListOverKeeps DEF ListGoesOn, ListSteps
  <1>2. CASE /\ \/ InterruptList /\ Still
                \/ UNCHANGED << storeVars, listVars >>
    <2>1. UNCHANGED << listing, walks, task, free, waiting, rows, unreadable, listed, shown,
                       fresh, steady, names, contents >>
      BY <1>2 DEF InterruptList, Still, storeVars, listVars
    <2>2. ListTypes' /\ InLine' /\ ListEnds'
      BY <2>1 DEF ListInv, ListTypes, StoreTypes, InLine, ListEnds, WalkOver, Walking
    <2>3. \A v \in Walks : WalkInOrder(v)'
      BY <2>1 DEF ListInv, WalkInOrder, Walking
    <2>4. \A v \in Walks, p \in Paths : OnItsWay(v, p)'
      BY <2>1 DEF ListInv, OnItsWay, Wanted, LookedIn
    <2> QED BY <2>2, <2>3, <2>4 DEF ListInv
  <1> QED BY <1>1, <1>2, DisturbsKeeps DEF Lists, Still

LEMMA ListTells == ListInv => ListComplete
  <1> SUFFICES ASSUME ListInv PROVE ListComplete
    OBVIOUS
  <1>1. ASSUME listed = "complete", listing.limit = 0, NEW w \in Walks, NEW p \in steady,
               names[p] # Nothing, p[1] \in ToSet(listing.places[w]),
               listing.window => names[p] \in fresh, Marked(contents[names[p]])
        PROVE  [walk |-> w, path |-> p, marked |-> TRUE] \in ToSet(shown)
    <2> DEFINE r == [walk |-> w, path |-> p, marked |-> TRUE]
    <2>1. p \in Paths /\ WalkInOrder(w) /\ OnItsWay(w, p) /\ WalkOver(w)
          /\ walks[w].at = "read" /\ w \in Walking
      BY <1>1 DEF ListInv, ListTypes, ListEnds
    <2>2. listing.places[w] \in Seq(Places)
      BY ListAssumption DEF ListInv, ListTypes
    <2>3. PICK i \in 1 .. Len(listing.places[w]) : p[1] = listing.places[w][i]
      BY <1>1, <2>2 DEF ToSet
    <2>4. i < walks[w].place
      <3>1. walks[w].place \in Nat /\ Len(listing.places[w]) \in Nat
        BY <2>2 DEF ListInv, ListTypes, OneWalk
      <3> QED BY <2>1, <2>3, <3>1 DEF WalkInOrder
    <2>5. Wanted(w, p) /\ LookedIn(w, p)
      BY <1>1, <2>3, <2>4 DEF Wanted, LookedIn
    <2>6. task[<< w, p >>].at \in {"idle", "over"}
      <3>1. << w, p >> \in Candidates /\ << w, p >>[1] = w
        BY <2>1, TasksAre
      <3> QED BY <2>1, <3>1 DEF WalkOver
    <2>7. r \in rows
      BY <2>1, <2>5, <2>6 DEF OnItsWay
    <2>8. r.marked /\ walks[r.walk].at = "read"
      BY <2>1
    <2> HIDE DEF r
    <2>9. r \in ToSet(shown)
      BY <1>1, <2>7, <2>8 DEF ListInv, ListEnds
    <2> QED BY <2>9 DEF r
  <1>2. /\ \A i \in DOMAIN shown : walks[shown[i].walk].at = "read"
        /\ listed = "interrupted" => shown = << >>
    BY DEF ListInv, ListEnds
  <1> QED BY <1>1, <1>2 DEF ListComplete

(* A listing told complete leaves no conversation out that it asks for and *)
(* nobody touched, whatever the stores hold and however many harnesses are *)
(* walked at once, slots there are and changes the harnesses make.         *)
THEOREM ListsComplete == ListSpec => []ListComplete
  <1>1. StoreInit /\ ListInit => ListInv
    BY ListStarts
  <1>2. ListInv /\ [Lists \/ DisturbsList]_<< storeVars, listVars >> => ListInv'
    BY ListStepKeeps
  <1>3. ListInv => ListComplete
    BY ListTells
  <1> QED BY <1>1, <1>2, <1>3, PTL DEF ListSpec

=============================================================================
