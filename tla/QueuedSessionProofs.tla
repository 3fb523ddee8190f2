------------------------ MODULE QueuedSessionProofs ------------------------
(* What holds of a session of codex, popeye or antigravity for any number   *)
(* of inputs: whose turn the output lands in, that an open turn can end,    *)
(* and what becomes of each input.                                          *)
EXTENDS QueuedSession, SequenceTheorems, TLAPS

-----------------------------------------------------------------------------
(* The pipes *)

(* What a command can be: a probe, or an input of the kind's shape. *)
ProbesOf(k) ==
  [what : {"create", "initialize", "thread/start"},
   mark : IF k = "codex" THEN {"identity", "initialize"} ELSE IF k = "popeye" THEN {"identity"} ELSE {},
   token : {0}, expected : {0}]
InputsOf(k) ==
  [what : IF k = "codex" THEN {"turn/start", "turn/steer"}
          ELSE IF k = "popeye" THEN {"prompt"} ELSE {"user"},
   mark : {IF k = "antigravity" THEN "none" ELSE "send"},
   token : Sends, expected : Runs \cup {0}]
CommandsOf(k) == ProbesOf(k) \cup InputsOf(k)
Whats == {"create", "initialize", "thread/start", "turn/start", "turn/steer", "prompt", "user",
          "message", "turn/completed", "result"}
Records == [shape : {"response", "notification"}, what : Whats,
            mark : {"identity", "initialize", "send", "none"}, token : Sends \cup {0},
            part : {"none"}, ok : BOOLEAN, session : {0, 1}, run : Runs \cup {0},
            status : {"none", "completed", "failed", "error"}]

(* A record as hcn understands it. *)
Says == [kind : {"identity", "probe-failed", "ignored", "command-accepted", "command-failed",
                 "content", "turn-end"}, token : Sends \cup {0}, run : Runs \cup {0}]
Said(k, r) == [kind |-> Decode(k, r).kind, token |-> Decode(k, r).token, run |-> r.run]
PipeOf(k, q) == [i \in 1 .. Len(q) |-> Said(k, q[i])]
Pipe == PipeOf(kind, stdout)

IsInput(c) == c.mark \in {"send", "none"}
Announces(w) == w.kind \in {"identity", "probe-failed"}
OfRun(w) == w.kind \in {"command-accepted", "content", "turn-end"}
Ends(w) == w.kind = "turn-end"
Accepts(w) == w.kind = "command-accepted"
Fails(w) == w.kind = "command-failed" /\ w.token # 0

-----------------------------------------------------------------------------
(* The invariant *)

(* Everything the session keeps, and what is in its pipes, has its type. *)
Types == /\ TypeOK
         /\ stdin \in Seq(CommandsOf(kind))
         /\ stdout \in Seq(Records) /\ Pipe \in Seq(Says)
         /\ begun \in 0 .. MaxSends
         /\ cause \in {"none", "stall", "killed", "crash", "failed", "clean"}
         /\ refused \subseteq Sends /\ lost \subseteq Sends /\ dropped \subseteq Sends

(* How the session ends. *)
Ending == /\ eof \/ closer # "none" => closing
          /\ Finalized => /\ Dead /\ board.turn = 0 /\ board.pending = <<>>
                          /\ buffered = <<>> /\ awaiting = {}

(* The turn that is open is the last one shown. *)
Boarded(b) == /\ b.turn \in {0, Len(b.turns)}
              /\ b.turn = 0 <=> b.opener = 0
              /\ b.turn # 0 => b.turns # <<>> /\ b.turns[Len(b.turns)].opener = b.opener
OpenersOf(b) == {b.turns[i].opener : i \in 1 .. Len(b.turns)}

(* Where an input can be. *)
Placed(b, n, S) == Members(b.pending) \cup OpenersOf(b) \cup S \subseteq 1 .. n
Places ==
  /\ Placed(board, sent, awaiting \cup lost \cup dropped \cup refused \cup Members(buffered))
  /\ \A s \in Sends : s > sent => told[s] = "none"
  /\ \A s \in awaiting : kind = "codex" /\ told[s] = "none" /\ s \notin refused
  /\ \A s \in Members(buffered) \cup Members(board.pending) : s \notin refused
  /\ identity \/ ~BuffersBeforeIdentity(kind) => buffered = <<>>
  /\ kind = "codex" => board.pending = <<>> /\ Members(buffered) \subseteq awaiting

(* The session is asked for its id once, and told it, or refused, once. *)
OneAsk(c) == \A i, j \in 1 .. Len(c) : c[i].mark = "identity" /\ c[j].mark = "identity" => i = j
OneWord(p) == \A i, j \in 1 .. Len(p) : Announces(p[i]) /\ Announces(p[j]) => i = j
NoAsk(c) == \A i \in 1 .. Len(c) : c[i].mark # "identity"
NoWord(p) == \A i \in 1 .. Len(p) : ~ Announces(p[i])
Asked(k, known, c, p) ==
  /\ OneAsk(c) /\ OneWord(p) /\ (NoAsk(c) \/ NoWord(p))
  /\ known \/ k = "antigravity" => NoAsk(c) /\ NoWord(p)
AskedOnce == Asked(kind, identity \/ failure, stdin, Pipe)

(* Before the id is known nothing is written, runs or is answered but the  *)
(* probe, and what was sent waits.                                         *)
NoInput(c) == \A i \in 1 .. Len(c) : ~ IsInput(c[i])
Quiet(p) == \A i \in 1 .. Len(p) : ~ OfRun(p[i]) /\ ~ Fails(p[i])
Unannounced ==
  BuffersBeforeIdentity(kind) /\ ~identity =>
    /\ begun = 0 /\ run = Idle /\ lost = {} /\ board.parked.runs = {}
    /\ NoInput(stdin) /\ Quiet(Pipe)
    /\ ~Finalized => /\ board.turn = 0 /\ board.turns = <<>> /\ board.pending = <<>>
                     /\ kind = "popeye" \/ ~failure => buffered = [i \in 1 .. sent |-> i]

(* What a refused session leaves. *)
Refusal ==
  failure =>
    /\ ~identity /\ closing /\ kind # "antigravity"
    /\ kind = "codex" => /\ buffered = <<>> /\ awaiting = {}
                         /\ \A s \in 1 .. sent : told[s] = "native-rejected"
    /\ kind = "popeye" /\ ~Finalized => board.parked.failed

(* The runs: each has inputs of its own, in order. *)
Ran(k, n, r, b, ins) ==
  /\ r.no \in {0, b} /\ (r.no = 0 => r = Idle)
  /\ \A m \in Runs : (ins[m] = {} <=> m > b) /\ \A x \in ins[m] : x >= m /\ x <= n
  /\ \A l, m \in Runs : l < m => \A x \in ins[l], y \in ins[m] : x < y
  /\ k # "codex" => \A m \in Runs : \A x, y \in ins[m] : x = y

(* What the harness has still to read was sent after all it has read. *)
After(t, n, b, ins) == t > b /\ t <= n /\ \A m \in Runs : \A x \in ins[m] : x < t
ToRead(c, n, b, ins) ==
  /\ \A i \in 1 .. Len(c) : IsInput(c[i]) => After(c[i].token, n, b, ins)
  /\ \A i, j \in 1 .. Len(c) : i < j /\ IsInput(c[i]) /\ IsInput(c[j]) => c[i].token < c[j].token

(* What hcn has still to read: records of runs that began, in the order    *)
(* they ran, and none of a run after its end;                              *)
RunsKnown(p, b) == \A i \in 1 .. Len(p) : OfRun(p[i]) => p[i].run \in 1 .. b
Follows(v, w) == OfRun(v) /\ OfRun(w) => v.run <= w.run /\ (Ends(v) => v.run # w.run)
InOrder(p) == \A i, j \in 1 .. Len(p) : i < j => Follows(p[i], p[j])
Ended(p, r) == \A i \in 1 .. Len(p) : Ends(p[i]) => p[i].run # r.no
(* refusals of inputs that no run takes or will;                           *)
Refuses(t, c, ins) == /\ \A m \in Runs : t \notin ins[m]
                      /\ \A j \in 1 .. Len(c) : IsInput(c[j]) => c[j].token # t
Refusals(c, p, ins) == \A i \in 1 .. Len(p) : Fails(p[i]) => Refuses(p[i].token, c, ins)
RefusedSent(p, n) == \A i \in 1 .. Len(p) : Fails(p[i]) => p[i].token <= n
Behind(v, w, ins) == OfRun(v) /\ Fails(w) => \A x \in ins[v.run] : x < w.token
Overtaken(k, p, ins) ==
  k # "codex" => \A i, j \in 1 .. Len(p) : i < j => Behind(p[i], p[j], ins)
(* and answers to inputs of a run that goes on, or whose end follows.      *)
EndIn(p, n) == \E j \in 1 .. Len(p) : Ends(p[j]) /\ p[j].run = n
Receipt(k, w, p, r, ins) == k = "codex" /\ w.token \in ins[w.run] /\ (w.run = r.no \/ EndIn(p, w.run))
Receipts(k, p, r, ins) == \A i \in 1 .. Len(p) : Accepts(p[i]) => Receipt(k, p[i], p, r, ins)
InTurn(p) == \A i, j \in 1 .. Len(p) : i < j /\ Accepts(p[i]) /\ Accepts(p[j]) => p[i].token < p[j].token

ToHear(k, c, p, r, b, ins) ==
  /\ RunsKnown(p, b) /\ InOrder(p) /\ Ended(p, r) /\ Refusals(c, p, ins) /\ Overtaken(k, p, ins)
  /\ Receipts(k, p, r, ins) /\ InTurn(p)

Harness ==
  /\ Ran(kind, sent, run, begun, inputs) /\ ToRead(stdin, sent, begun, inputs)
  /\ ToHear(kind, stdin, Pipe, run, begun, inputs) /\ RefusedSent(Pipe, sent)

(* A flush after stdin ended reached nobody, and nothing does any more. *)
Losing == lost # {} => closing /\ begun = 0 /\ NoInput(stdin)

(* popeye and antigravity: the inputs hcn holds a turn for, or will.  Each *)
(* is still due, and the harness has nothing for any other.                *)
Held(b) == Members(b.pending) \cup (IF b.turn = 0 THEN {} ELSE {b.opener})
Due(s, c, p, r, ins) ==
  \/ \E i \in 1 .. Len(c) : IsInput(c[i]) /\ c[i].token = s
  \/ r.no # 0 /\ s \in ins[r.no]
  \/ \E i \in 1 .. Len(p) : Ends(p[i]) /\ s \in ins[p[i].run]
  \/ \E i \in 1 .. Len(p) : Fails(p[i]) /\ p[i].token = s
InLine(b) ==
  /\ ~b.accepted
  /\ \A i \in 1 .. Len(b.pending) : b.opener < b.pending[i]
  /\ \A i, j \in 1 .. Len(b.pending) : i < j => b.pending[i] < b.pending[j]
Serves(H, c, p, r, ins) ==
  /\ \A i \in 1 .. Len(c) : IsInput(c[i]) => c[i].token \in H
  /\ r.no # 0 => ins[r.no] \subseteq H
  /\ \A i \in 1 .. Len(p) : OfRun(p[i]) => ins[p[i].run] \subseteq H
Queued ==
  kind # "codex" /\ ~Finalized =>
    /\ InLine(board)
    /\ ~Closed /\ board.turn = 0 => board.pending = <<>>
    /\ ~stalled =>
         /\ board.parked.runs # {} => Closed
         /\ board.turn # 0 => \A s \in Held(board) : s \in lost \/ Due(s, stdin, Pipe, run, inputs)
         /\ board.turn # 0 \/ ~Closed => Serves(Held(board), stdin, Pipe, run, inputs)

(* codex: what can still be answered owes its receipt; and the turn open   *)
(* is the oldest run's that has not ended, while a later run answers the   *)
(* input that begins it before it shows anything.                          *)
Owing(A, c, p) ==
  /\ \A i \in 1 .. Len(c) : IsInput(c[i]) => c[i].token \in A
  /\ \A i \in 1 .. Len(p) : Accepts(p[i]) => p[i].token \in A
Covers(o, n, ins) == o # 0 /\ o \in ins[n]
Oldest(o, p, r, ins) == \E n \in Runs :
  /\ o \in ins[n]
  /\ \A i \in 1 .. Len(p) : OfRun(p[i]) => p[i].run >= n
  /\ n = r.no \/ EndIn(p, n)
AnsweredBy(i, p, n) == \E j \in 1 .. i : Accepts(p[j]) /\ p[j].run = n
Introduced(o, p, r, ins) ==
  /\ r.no # 0 /\ ~Covers(o, r.no, ins) => AnsweredBy(Len(p), p, r.no)
  /\ \A i \in 1 .. Len(p) : OfRun(p[i]) /\ ~Covers(o, p[i].run, ins) => AnsweredBy(i, p, p[i].run)
Steered ==
  kind = "codex" /\ ~Finalized =>
    /\ Owing(awaiting, stdin, Pipe)
    /\ ~stalled =>
         /\ board.parked.runs = {}
         /\ board.turn # 0 => Oldest(board.opener, Pipe, run, inputs)
         /\ Introduced(board.opener, Pipe, run, inputs)

QueuedInv ==
  /\ Types /\ Ending /\ Boarded(board) /\ Places /\ AskedOnce /\ Unannounced /\ Refusal
  /\ Harness /\ Losing /\ Queued /\ Steered /\ OutputBelongs /\ RefusedOpenTold

-----------------------------------------------------------------------------
(* Sequences *)

(* d is c without its i-th element. *)
Skip(i, j) == IF j < i THEN j ELSE j + 1
Cut(d, c, i) == Len(d) + 1 = Len(c) /\ \A j \in 1 .. Len(d) : d[j] = c[Skip(i, j)]

(* What a cut leaves was there, in the same order, and nothing else went. *)
Kept(d, c, i) ==
  /\ \A j \in 1 .. Len(d) : Skip(i, j) \in 1 .. Len(c) /\ Skip(i, j) # i /\ d[j] = c[Skip(i, j)]
  /\ \A j, k \in 1 .. Len(d) : j < k => Skip(i, j) < Skip(i, k)
  /\ \A m \in 1 .. Len(c) : m # i => \E j \in 1 .. Len(d) : Skip(i, j) = m /\ d[j] = c[m]

LEMMA CutKeeps ==
  ASSUME NEW S, NEW c \in Seq(S), NEW d \in Seq(S), NEW i \in 1 .. Len(c), Cut(d, c, i)
  PROVE  Kept(d, c, i)
  <1>1. Len(c) \in Nat /\ Len(d) \in Nat /\ Len(d) = Len(c) - 1
    BY DEF Cut
  <1>2. \A j \in 1 .. Len(d) : Skip(i, j) \in 1 .. Len(c) /\ Skip(i, j) # i /\ d[j] = c[Skip(i, j)]
    BY <1>1 DEF Cut, Skip
  <1>3. \A j, k \in 1 .. Len(d) : j < k => Skip(i, j) < Skip(i, k)
    BY <1>1 DEF Skip
  <1>4. ASSUME NEW m \in 1 .. Len(c), m # i
        PROVE  \E j \in 1 .. Len(d) : Skip(i, j) = m /\ d[j] = c[m]
    <2>1. CASE m < i
      <3>1. m \in 1 .. Len(d) /\ Skip(i, m) = m
        BY <1>1, <2>1 DEF Skip
      <3> QED BY <3>1, <1>2
    <2>2. CASE ~ (m < i)
      <3>1. m - 1 \in 1 .. Len(d) /\ Skip(i, m - 1) = m
        BY <1>1, <1>4, <2>2 DEF Skip
      <3> QED BY <3>1, <1>2
    <2> QED BY <2>1, <2>2
  <1> QED BY <1>2, <1>3, <1>4 DEF Kept

(* Reading the first element, and taking one out of the middle, are cuts. *)
LEMMA TailCuts ==
  ASSUME NEW S, NEW c \in Seq(S), c # <<>>
  PROVE  /\ Tail(c) \in Seq(S) /\ Kept(Tail(c), c, 1) /\ 1 \in 1 .. Len(c)
         /\ Head(c) = c[1] /\ c[1] \in S
  <1>1. /\ Tail(c) \in Seq(S) /\ Cut(Tail(c), c, 1) /\ 1 \in 1 .. Len(c)
        /\ Head(c) = c[1] /\ c[1] \in S
    BY DEF Cut, Skip
  <1> QED BY <1>1, CutKeeps

LEMMA RemoveCuts ==
  ASSUME NEW S, NEW c \in Seq(S), NEW i \in 1 .. Len(c)
  PROVE  RemoveAt(c, i) \in Seq(S) /\ Kept(RemoveAt(c, i), c, i)
  <1> DEFINE u == SubSeq(c, 1, i - 1)
             v == SubSeq(c, i + 1, Len(c))
  <1>1. u \in Seq(S) /\ Len(u) = i - 1 /\ \A j \in 1 .. i - 1 : u[j] = c[j]
    OBVIOUS
  <1>2. v \in Seq(S) /\ Len(v) = Len(c) - i /\ \A j \in 1 .. Len(c) - i : v[j] = c[i + j]
    OBVIOUS
  <1>3. RemoveAt(c, i) = u \o v
    BY DEF RemoveAt
  <1> HIDE DEF u, v
  <1>4. u \o v \in Seq(S) /\ Len(u \o v) = Len(c) - 1
    <2>0. u \in Seq(S) /\ v \in Seq(S)
      BY <1>1, <1>2
    <2>1. u \o v \in Seq(S)
      BY <2>0
    <2>2. Len(u \o v) = Len(u) + Len(v)
      BY <2>0
    <2>3. Len(c) \in Nat /\ i \in Int
      OBVIOUS
    <2> QED BY <1>1, <1>2, <2>1, <2>2, <2>3
  <1>5. \A j \in 1 .. Len(c) - 1 : (u \o v)[j] = c[Skip(i, j)]
    <2> SUFFICES ASSUME NEW j \in 1 .. Len(c) - 1 PROVE (u \o v)[j] = c[Skip(i, j)]
      OBVIOUS
    <2>1. CASE j < i
      BY <1>1, <1>2, <2>1 DEF Skip
    <2>2. CASE ~ (j < i)
      <3>1. (u \o v)[j] = v[j - (i - 1)] /\ j - (i - 1) \in 1 .. Len(c) - i
        BY <1>1, <1>2, <2>2
      <3>2. v[j - (i - 1)] = c[i + (j - (i - 1))] /\ i + (j - (i - 1)) = j + 1
        BY <3>1, <1>2
      <3> QED BY <3>1, <3>2, <2>2 DEF Skip
    <2> QED BY <2>1, <2>2
  <1>6. Cut(u \o v, c, i)
    BY <1>4, <1>5 DEF Cut
  <1> QED BY <1>3, <1>4, <1>6, CutKeeps

LEMMA Appended ==
  ASSUME NEW S, NEW q \in Seq(S), NEW w \in S
  PROVE  /\ Append(q, w) \in Seq(S) /\ Len(Append(q, w)) = Len(q) + 1 /\ Len(q) \in Nat
         /\ \A i \in 1 .. Len(q) : Append(q, w)[i] = q[i]
         /\ Append(q, w)[Len(q) + 1] = w
  OBVIOUS

LEMMA Joined ==
  ASSUME NEW S, NEW q \in Seq(S), NEW u \in Seq(S)
  PROVE  /\ q \o u \in Seq(S) /\ Len(q \o u) = Len(q) + Len(u) /\ Len(q) \in Nat /\ Len(u) \in Nat
         /\ \A i \in 1 .. Len(q) : (q \o u)[i] = q[i]
         /\ \A i \in 1 .. Len(u) : (q \o u)[Len(q) + i] = u[i]
         /\ \A i \in 1 .. Len(q \o u) : i <= Len(q) \/ (i - Len(q) \in 1 .. Len(u) /\ (q \o u)[i] = u[i - Len(q)])
  OBVIOUS

(* The members of a sequence that changed. *)
LEMMA MembersTyped ==
  ASSUME NEW S, NEW q \in Seq(S)
  PROVE  /\ Members(q) \subseteq S
         /\ \A i \in 1 .. Len(q) : q[i] \in Members(q)
         /\ \A s \in Members(q) : \E i \in 1 .. Len(q) : q[i] = s
         /\ Members(<<>>) = {}
         /\ Members(q) = {} => q = <<>>
  <1>1. \A i \in 1 .. Len(q) : q[i] \in S
    OBVIOUS
  <1>2. Members(q) = {} => q = <<>>
    <2>1. q # <<>> => 1 \in 1 .. Len(q)
      OBVIOUS
    <2> QED BY <2>1 DEF Members
  <1>3. Members(<<>>) = {}
    <2>1. 1 .. Len(<<>>) = {}
      OBVIOUS
    <2> QED BY <2>1 DEF Members
  <1> QED BY <1>1, <1>2, <1>3 DEF Members

LEMMA MembersAppend ==
  ASSUME NEW S, NEW q \in Seq(S), NEW w \in S
  PROVE  Members(Append(q, w)) = Members(q) \cup {w}
  <1> DEFINE v == Append(q, w)
  <1>1. /\ Len(v) = Len(q) + 1 /\ Len(q) \in Nat /\ v[Len(q) + 1] = w
        /\ \A i \in 1 .. Len(q) : v[i] = q[i]
    BY Appended
  <1> HIDE DEF v
  <1>2. Members(v) = Members(q) \cup {w}
    BY <1>1 DEF Members
  <1> QED BY <1>2 DEF v

LEMMA MembersJoin ==
  ASSUME NEW S, NEW q \in Seq(S), NEW u \in Seq(S)
  PROVE  Members(q \o u) = Members(q) \cup Members(u)
  <1> DEFINE v == q \o u
  <1>1. /\ Len(v) = Len(q) + Len(u) /\ Len(q) \in Nat /\ Len(u) \in Nat
        /\ \A i \in 1 .. Len(q) : v[i] = q[i]
        /\ \A i \in 1 .. Len(u) : v[Len(q) + i] = u[i]
        /\ \A i \in 1 .. Len(v) : i <= Len(q) \/ (i - Len(q) \in 1 .. Len(u) /\ v[i] = u[i - Len(q)])
    BY Joined
  <1> HIDE DEF v
  <1>2. ASSUME NEW i \in 1 .. Len(v) PROVE v[i] \in Members(q) \cup Members(u)
    BY <1>1 DEF Members
  <1>3. ASSUME NEW i \in 1 .. Len(q) PROVE q[i] \in Members(v)
    <2>1. i \in 1 .. Len(v)
      BY <1>1
    <2> QED BY <1>1, <2>1 DEF Members
  <1>4. ASSUME NEW i \in 1 .. Len(u) PROVE u[i] \in Members(v)
    <2>1. Len(q) + i \in 1 .. Len(v)
      BY <1>1
    <2> QED BY <1>1, <2>1 DEF Members
  <1>5. Members(v) = Members(q) \cup Members(u)
    BY <1>2, <1>3, <1>4 DEF Members
  <1> QED BY <1>5 DEF v

LEMMA MembersCut ==
  ASSUME NEW c, NEW d, NEW i \in 1 .. Len(c), Kept(d, c, i)
  PROVE  Members(d) \subseteq Members(c) /\ Members(c) \subseteq Members(d) \cup {c[i]}
  <1>1. Kept(d, c, i)
    OBVIOUS
  <1>2. ASSUME NEW j \in 1 .. Len(d) PROVE d[j] \in Members(c)
    BY <1>1 DEF Members, Kept
  <1>3. ASSUME NEW m \in 1 .. Len(c) PROVE c[m] \in Members(d) \cup {c[i]}
    <2>1. CASE m = i
      BY <2>1
    <2>2. CASE m # i
      <3>1. PICK j \in 1 .. Len(d) : d[j] = c[m]
        BY <1>1, <2>2 DEF Kept
      <3> QED BY <3>1 DEF Members
    <2> QED BY <2>1, <2>2
  <1> QED BY <1>2, <1>3 DEF Members

(* e is q and then w. *)
Extended(e, q, w) ==
  /\ Len(q) \in Nat /\ Len(e) = Len(q) + 1 /\ e[Len(q) + 1] = w
  /\ \A i \in 1 .. Len(q) : i \in 1 .. Len(e) /\ e[i] = q[i]
  /\ \A i \in 1 .. Len(e) : i \in 1 .. Len(q) \/ i = Len(q) + 1

LEMMA AppendExtends ==
  ASSUME NEW S, NEW q \in Seq(S), NEW w \in S
  PROVE  Append(q, w) \in Seq(S) /\ Extended(Append(q, w), q, w)
  <1> DEFINE e == Append(q, w)
  <1>1. /\ e \in Seq(S) /\ Len(e) = Len(q) + 1 /\ Len(q) \in Nat /\ e[Len(q) + 1] = w
        /\ \A i \in 1 .. Len(q) : e[i] = q[i]
    BY Appended
  <1> HIDE DEF e
  <1>2. Extended(e, q, w)
    BY <1>1 DEF Extended
  <1> QED BY <1>1, <1>2 DEF e

-----------------------------------------------------------------------------
(* The harness: what is to be read of it, and by it *)

Going == [no : Runs \cup {0}, said : BOOLEAN]

LEMMA InputToken ==
  ASSUME NEW k, NEW c \in Seq(CommandsOf(k)), NEW i \in 1 .. Len(c)
  PROVE  /\ c[i] \in CommandsOf(k) /\ c[i].token \in Sends \cup {0}
         /\ IsInput(c[i]) => c[i] \in InputsOf(k) /\ c[i].token \in Sends
         /\ ~ IsInput(c[i]) => c[i] \in ProbesOf(k) /\ c[i].token = 0
  <1>1. c[i] \in CommandsOf(k)
    OBVIOUS
  <1>2. \A x \in ProbesOf(k) : ~ IsInput(x) /\ x.token = 0
    BY DEF ProbesOf, IsInput
  <1>3. \A x \in InputsOf(k) : IsInput(x) /\ x.token \in Sends
    BY DEF InputsOf, IsInput
  <1> QED BY <1>1, <1>2, <1>3 DEF CommandsOf

LEMMA SaysTyped ==
  ASSUME NEW p \in Seq(Says), NEW i \in 1 .. Len(p)
  PROVE  p[i] \in Says /\ p[i].run \in Runs \cup {0} /\ p[i].token \in Sends \cup {0}
         /\ (Fails(p[i]) => p[i].token \in Sends)
  <1>1. p[i] \in Says
    OBVIOUS
  <1> QED BY <1>1 DEF Says, Fails

LEMMA KindsApart ==
  ASSUME NEW w
  PROVE  /\ Ends(w) => OfRun(w) /\ ~ Accepts(w) /\ ~ Fails(w) /\ ~ Announces(w)
         /\ Accepts(w) => OfRun(w) /\ ~ Fails(w) /\ ~ Announces(w)
         /\ Fails(w) => ~ OfRun(w) /\ ~ Announces(w)
         /\ Announces(w) => ~ OfRun(w)
  BY DEF Ends, OfRun, Accepts, Fails, Announces

(* A command fewer. *)
LEMMA ReadFewer ==
  ASSUME NEW k, NEW c \in Seq(CommandsOf(k)), NEW d \in Seq(CommandsOf(k)),
         NEW i \in 1 .. Len(c), Kept(d, c, i), NEW n, NEW b, NEW ins, ToRead(c, n, b, ins)
  PROVE  ToRead(d, n, b, ins)
  <1>1. ASSUME NEW j \in 1 .. Len(d), IsInput(d[j]) PROVE After(d[j].token, n, b, ins)
    BY <1>1 DEF Kept, ToRead
  <1>2. ASSUME NEW j \in 1 .. Len(d), NEW l \in 1 .. Len(d), j < l, IsInput(d[j]), IsInput(d[l])
        PROVE  d[j].token < d[l].token
    BY <1>2 DEF Kept, ToRead
  <1> QED BY <1>1, <1>2 DEF ToRead

LEMMA TokensApart ==
  ASSUME NEW k, NEW c \in Seq(CommandsOf(k)), NEW d \in Seq(CommandsOf(k)),
         NEW i \in 1 .. Len(c), Kept(d, c, i), NEW n, NEW b, NEW ins, ToRead(c, n, b, ins),
         IsInput(c[i]), NEW j \in 1 .. Len(d), IsInput(d[j])
  PROVE  d[j].token # c[i].token /\ (i = 1 => c[i].token < d[j].token)
  <1>1. PICK m \in 1 .. Len(c) : m = Skip(i, j) /\ m # i /\ d[j] = c[m]
    BY DEF Kept
  <1>2. c[i].token \in Sends /\ c[m].token \in Sends
    BY InputToken, <1>1
  <1>3. CASE m < i
    <2>1. c[m].token < c[i].token /\ i # 1
      BY <1>1, <1>3 DEF ToRead
    <2> QED BY <2>1, <1>1, <1>2 DEF Sends
  <1>4. CASE i < m
    BY <1>1, <1>2, <1>4 DEF ToRead, Sends
  <1> QED BY <1>1, <1>3, <1>4

LEMMA RefusesFewer ==
  ASSUME NEW c, NEW d, NEW i \in 1 .. Len(c), Kept(d, c, i),
         NEW p, NEW ins, Refusals(c, p, ins)
  PROVE  Refusals(d, p, ins)
  BY DEF Kept, Refusals, Refuses

(* A record fewer: hcn read the oldest. *)
LEMMA HearFewer ==
  ASSUME NEW p \in Seq(Says), NEW q \in Seq(Says), p # <<>>, Kept(q, p, 1),
         NEW k, NEW c, NEW r, NEW b, NEW ins, ToHear(k, c, p, r, b, ins)
  PROVE  ToHear(k, c, q, r, b, ins)
  <1>1. RunsKnown(q, b) /\ Ended(q, r) /\ Refusals(c, q, ins)
    <2>1. RunsKnown(q, b)
      BY DEF Kept, ToHear, RunsKnown
    <2>2. Ended(q, r)
      BY DEF Kept, ToHear, Ended
    <2>3. Refusals(c, q, ins)
      BY DEF Kept, ToHear, Refusals
    <2> QED BY <2>1, <2>2, <2>3
  <1>2. InOrder(q)
    BY DEF Kept, ToHear, InOrder
  <1>3. Overtaken(k, q, ins)
    BY DEF Kept, ToHear, Overtaken
  <1>4. InTurn(q)
    BY DEF Kept, ToHear, InTurn
  <1>5. ASSUME NEW i \in 1 .. Len(q), Accepts(q[i]) PROVE Receipt(k, q[i], q, r, ins)
    <2>1. PICK m \in 1 .. Len(p) : m = Skip(1, i) /\ m # 1 /\ q[i] = p[m]
      BY DEF Kept
    <2>2. Receipt(k, p[m], p, r, ins)
      BY <2>1, <1>5 DEF ToHear, Receipts
    <2>3. ASSUME EndIn(p, p[m].run) PROVE EndIn(q, p[m].run)
      <3>1. PICK j \in 1 .. Len(p) : Ends(p[j]) /\ p[j].run = p[m].run
        BY <2>3 DEF EndIn
      <3>2. j # 1
        <4>1. 1 \in 1 .. Len(p) /\ 1 < m
          BY <2>1
        <4>2. Follows(p[1], p[m])
          BY <4>1 DEF ToHear, InOrder
        <4>3. OfRun(p[m]) /\ OfRun(p[j])
          BY <2>1, <3>1, <1>5, KindsApart
        <4> QED BY <4>2, <4>3, <3>1 DEF Follows
      <3>3. \E l \in 1 .. Len(q) : q[l] = p[j]
        BY <3>2 DEF Kept
      <3> QED BY <3>1, <3>3 DEF EndIn
    <2> QED BY <2>1, <2>2, <2>3 DEF Receipt
  <1> QED BY <1>1, <1>2, <1>3, <1>4, <1>5 DEF ToHear, Receipts

(* A record more. *)
LEMMA HearMore ==
  ASSUME NEW p \in Seq(Says), NEW q \in Seq(Says), NEW w \in Says, Extended(q, p, w),
         NEW k, NEW c, NEW r, NEW b, NEW ins, ToHear(k, c, p, r, b, ins),
         OfRun(w) => w.run \in 1 .. b /\ \A i \in 1 .. Len(p) : Follows(p[i], w),
         Ends(w) => w.run # r.no,
         Fails(w) => Refuses(w.token, c, ins),
         k # "codex" => \A i \in 1 .. Len(p) : Behind(p[i], w, ins),
         Accepts(w) => /\ k = "codex" /\ w.token \in ins[w.run] /\ w.run = r.no
                       /\ \A i \in 1 .. Len(p) : Accepts(p[i]) => p[i].token < w.token
  PROVE  ToHear(k, c, q, r, b, ins)
  <1>1. RunsKnown(q, b) /\ Ended(q, r) /\ Refusals(c, q, ins)
    BY DEF Extended, ToHear, RunsKnown, Ended, Refusals
  <1>2. ASSUME NEW i \in 1 .. Len(q), NEW j \in 1 .. Len(q), i < j
        PROVE  i \in 1 .. Len(p) /\ q[i] = p[i] /\ ((j \in 1 .. Len(p) /\ q[j] = p[j]) \/ q[j] = w)
    BY <1>2 DEF Extended
  <1>3. InOrder(q)
    <2> SUFFICES ASSUME NEW i \in 1 .. Len(q), NEW j \in 1 .. Len(q), i < j PROVE Follows(q[i], q[j])
      BY DEF InOrder
    <2>1. i \in 1 .. Len(p) /\ q[i] = p[i] /\ ((j \in 1 .. Len(p) /\ q[j] = p[j]) \/ q[j] = w)
      BY <1>2
    <2>2. \A v : ~ OfRun(w) => Follows(v, w)
      BY DEF Follows
    <2>3. j \in 1 .. Len(p) => Follows(p[i], p[j])
      BY <2>1 DEF ToHear, InOrder
    <2> QED BY <2>1, <2>2, <2>3
  <1>4. Overtaken(k, q, ins)
    <2> SUFFICES ASSUME k # "codex", NEW i \in 1 .. Len(q), NEW j \in 1 .. Len(q), i < j
                 PROVE  Behind(q[i], q[j], ins)
      BY DEF Overtaken
    <2>1. i \in 1 .. Len(p) /\ q[i] = p[i] /\ ((j \in 1 .. Len(p) /\ q[j] = p[j]) \/ q[j] = w)
      BY <1>2
    <2>2. j \in 1 .. Len(p) => Behind(p[i], p[j], ins)
      BY <2>1 DEF ToHear, Overtaken
    <2> QED BY <2>1, <2>2
  <1>5. InTurn(q)
    <2> SUFFICES ASSUME NEW i \in 1 .. Len(q), NEW j \in 1 .. Len(q), i < j, Accepts(q[i]), Accepts(q[j])
                 PROVE  q[i].token < q[j].token
      BY DEF InTurn
    <2>1. i \in 1 .. Len(p) /\ q[i] = p[i] /\ ((j \in 1 .. Len(p) /\ q[j] = p[j]) \/ q[j] = w)
      BY <1>2
    <2>2. j \in 1 .. Len(p) /\ Accepts(p[i]) /\ Accepts(p[j]) => p[i].token < p[j].token
      BY <2>1 DEF ToHear, InTurn
    <2> QED BY <2>1, <2>2
  <1>6. Receipts(k, q, r, ins)
    <2>1. \A m : EndIn(p, m) => EndIn(q, m)
      BY DEF EndIn, Extended
    <2>2. ASSUME NEW i \in 1 .. Len(q), Accepts(q[i]) PROVE Receipt(k, q[i], q, r, ins)
      <3>1. CASE i \in 1 .. Len(p)
        <4>1. q[i] = p[i]
          BY <3>1 DEF Extended
        <4>2. Receipt(k, p[i], p, r, ins)
          BY <2>2, <3>1, <4>1 DEF ToHear, Receipts
        <4> QED BY <4>1, <4>2, <2>1 DEF Receipt
      <3>2. CASE q[i] = w
        BY <2>2, <3>2 DEF Receipt
      <3> QED BY <3>1, <3>2 DEF Extended
    <2> QED BY <2>2 DEF Receipts
  <1> QED BY <1>1, <1>3, <1>4, <1>5, <1>6 DEF ToHear

(* An input begins a run. *)
Opened(r, new, ins, b, t) == r = [no |-> b + 1, said |-> FALSE] /\ new = [ins EXCEPT ![b + 1] = {t}]
Earlier(p, b, new, ins) ==
  \A i \in 1 .. Len(p) : OfRun(p[i]) => p[i].run \in 1 .. b /\ new[p[i].run] = ins[p[i].run]

LEMMA RunBegins ==
  ASSUME NEW k, NEW c \in Seq(CommandsOf(k)), NEW d \in Seq(CommandsOf(k)), c # <<>>, Kept(d, c, 1),
         IsInput(c[1]), NEW n \in 0 .. MaxSends, NEW b \in 0 .. MaxSends,
         NEW ins \in [Runs -> SUBSET Sends], NEW p \in Seq(Says),
         Ran(k, n, Idle, b, ins), ToRead(c, n, b, ins), ToHear(k, c, p, Idle, b, ins),
         NEW r, NEW new, Opened(r, new, ins, b, c[1].token)
  PROVE  /\ b + 1 \in Runs /\ b + 1 \in 0 .. MaxSends /\ new \in [Runs -> SUBSET Sends] /\ r \in Going
         /\ Ran(k, n, r, b + 1, new) /\ ToRead(d, n, b + 1, new) /\ ToHear(k, d, p, r, b + 1, new)
         /\ Earlier(p, b, new, ins)
  <1> DEFINE t == c[1].token
  <1>1. 1 \in 1 .. Len(c)
    OBVIOUS
  <1>2. t \in Sends /\ After(t, n, b, ins)
    BY <1>1, InputToken DEF ToRead
  <1>3. \A j \in 1 .. Len(d) : IsInput(d[j]) => d[j].token \in Sends /\ t < d[j].token
    BY <1>1, TokensApart, InputToken
  <1>4. ToRead(d, n, b, ins)
    BY <1>1, ReadFewer
  <1> HIDE DEF t
  <1>5. new = [ins EXCEPT ![b + 1] = {t}] /\ r = [no |-> b + 1, said |-> FALSE]
    BY DEF t, Opened
  <1>6. b + 1 \in Runs /\ b + 1 \in 0 .. MaxSends
    BY <1>2, QueuedAssumption DEF After, Runs, Sends
  <1>7. /\ new \in [Runs -> SUBSET Sends] /\ new[b + 1] = {t}
        /\ \A m \in Runs : m # b + 1 => new[m] = ins[m]
    BY <1>2, <1>5, <1>6
  <1>8. /\ \A m \in Runs : (ins[m] = {} <=> m > b) /\ \A x \in ins[m] : x >= m /\ x <= n
        /\ \A l, m \in Runs : l < m => \A x \in ins[l], y \in ins[m] : x < y
        /\ k # "codex" => \A m \in Runs : \A x, y \in ins[m] : x = y
    BY DEF Ran
  <1>9. \A m \in Runs : \A x \in ins[m] : x \in Sends /\ x < t
    BY <1>2 DEF After
  <1>10. Ran(k, n, r, b + 1, new)
    <2>1. r.no = b + 1 /\ r.no # 0
      BY <1>5, <1>6 DEF Runs
    <2>2. \A m \in Runs : (new[m] = {} <=> m > b + 1) /\ \A x \in new[m] : x >= m /\ x <= n
      <3> SUFFICES ASSUME NEW m \in Runs
                   PROVE  (new[m] = {} <=> m > b + 1) /\ \A x \in new[m] : x >= m /\ x <= n
        OBVIOUS
      <3>1. CASE m = b + 1
        <4>1. t >= m /\ t <= n /\ ~ (m > b + 1)
          BY <3>1, <1>2, <1>6 DEF After, Sends, Runs
        <4> QED BY <4>1, <3>1, <1>7
      <3>2. CASE m # b + 1
        BY <3>2, <1>7, <1>8 DEF Runs
      <3> QED BY <3>1, <3>2
    <2>3. \A l, m \in Runs : l < m => \A x \in new[l], y \in new[m] : x < y
      <3> SUFFICES ASSUME NEW l \in Runs, NEW m \in Runs, l < m PROVE \A x \in new[l], y \in new[m] : x < y
        OBVIOUS
      <3>1. CASE m = b + 1
        <4>1. l # b + 1
          BY <3>1 DEF Runs
        <4>2. new[l] = ins[l] /\ new[m] = {t}
          BY <4>1, <3>1, <1>7
        <4> QED BY <4>2, <1>9
      <3>2. CASE m # b + 1 /\ l # b + 1
        BY <3>2, <1>7, <1>8
      <3>3. CASE l = b + 1
        <4>1. m # b + 1 /\ m > b
          BY <3>3 DEF Runs
        <4> QED BY <4>1, <1>7, <1>8
      <3> QED BY <3>1, <3>2, <3>3
    <2>4. k # "codex" => \A m \in Runs : \A x, y \in new[m] : x = y
      BY <1>7, <1>8
    <2> QED BY <2>1, <2>2, <2>3, <2>4 DEF Ran
  <1>11. ToRead(d, n, b + 1, new)
    <2>1. ASSUME NEW j \in 1 .. Len(d), IsInput(d[j]) PROVE After(d[j].token, n, b + 1, new)
      <3>1. d[j].token \in Sends /\ t < d[j].token /\ After(d[j].token, n, b, ins)
        BY <2>1, <1>3, <1>4 DEF ToRead
      <3>2. d[j].token > b + 1
        BY <3>1, <1>2 DEF After, Sends
      <3>3. \A m \in Runs : \A x \in new[m] : x < d[j].token
        BY <3>1, <1>7 DEF After
      <3> QED BY <3>1, <3>2, <3>3 DEF After
    <2> QED BY <2>1, <1>4 DEF ToRead
  <1>12. \A i \in 1 .. Len(p) : OfRun(p[i]) => p[i].run \in 1 .. b /\ p[i].run \in Runs /\ p[i].run # b + 1
                                              /\ new[p[i].run] = ins[p[i].run]
    <2> SUFFICES ASSUME NEW i \in 1 .. Len(p), OfRun(p[i])
                 PROVE  p[i].run \in 1 .. b /\ p[i].run \in Runs /\ p[i].run # b + 1 /\ new[p[i].run] = ins[p[i].run]
      OBVIOUS
    <2>1. p[i].run \in 1 .. b
      BY DEF ToHear, RunsKnown
    <2>2. p[i].run \in Runs /\ p[i].run # b + 1
      BY <2>1, QueuedAssumption DEF Runs
    <2> QED BY <2>1, <2>2, <1>7
  <1>13. ToHear(k, d, p, r, b + 1, new)
    <2>1. RunsKnown(p, b + 1)
      BY <1>12 DEF RunsKnown
    <2>2. InOrder(p) /\ InTurn(p)
      BY DEF ToHear
    <2>3. Ended(p, r)
      BY <1>5, <1>12, KindsApart DEF Ended
    <2>4. Refusals(d, p, new)
      <3> SUFFICES ASSUME NEW i \in 1 .. Len(p), Fails(p[i]) PROVE Refuses(p[i].token, d, new)
        BY DEF Refusals
      <3>1. Refuses(p[i].token, d, ins) /\ p[i].token # t
        <4>1. Refusals(d, p, ins)
          BY <1>1, RefusesFewer DEF ToHear
        <4>2. p[i].token # t
          BY <1>1 DEF ToHear, Refusals, Refuses, t
        <4> QED BY <4>1, <4>2 DEF Refusals
      <3> QED BY <3>1, <1>7 DEF Refuses
    <2>5. Overtaken(k, p, new)
      BY <1>12 DEF ToHear, Overtaken, Behind
    <2>6. ASSUME NEW i \in 1 .. Len(p), Accepts(p[i]) PROVE Receipt(k, p[i], p, r, new)
      <3>1. Receipt(k, p[i], p, Idle, ins) /\ OfRun(p[i])
        BY <2>6, KindsApart DEF ToHear, Receipts
      <3>2. p[i].run # Idle.no
        BY <3>1, <1>12 DEF Idle
      <3> QED BY <3>1, <3>2, <1>5, <1>12 DEF Receipt
    <2> QED BY <2>1, <2>2, <2>3, <2>4, <2>5, <2>6 DEF ToHear, Receipts
  <1>14. r \in Going
    BY <1>5, <1>6 DEF Going
  <1> QED BY <1>6, <1>7, <1>10, <1>11, <1>12, <1>13, <1>14 DEF Earlier

(* codex takes an input into the run going on. *)
Taken(new, ins, r, t) == new = [ins EXCEPT ![r.no] = @ \cup {t}]
Wider(new, ins) == \A m \in Runs : ins[m] \subseteq new[m]

LEMMA RunJoined ==
  ASSUME NEW c \in Seq(CommandsOf("codex")), NEW d \in Seq(CommandsOf("codex")), c # <<>>, Kept(d, c, 1),
         IsInput(c[1]), NEW n \in 0 .. MaxSends, NEW b \in 0 .. MaxSends,
         NEW ins \in [Runs -> SUBSET Sends], NEW p \in Seq(Says), NEW r \in Going, r.no # 0,
         Ran("codex", n, r, b, ins), ToRead(c, n, b, ins), ToHear("codex", c, p, r, b, ins),
         NEW new, Taken(new, ins, r, c[1].token)
  PROVE  /\ new \in [Runs -> SUBSET Sends]
         /\ Ran("codex", n, r, b, new) /\ ToRead(d, n, b, new) /\ ToHear("codex", d, p, r, b, new)
         /\ Wider(new, ins)
  <1> DEFINE t == c[1].token
  <1>1. 1 \in 1 .. Len(c)
    OBVIOUS
  <1>2. t \in Sends /\ After(t, n, b, ins)
    BY <1>1, InputToken DEF ToRead
  <1>3. \A j \in 1 .. Len(d) : IsInput(d[j]) => d[j].token \in Sends /\ t < d[j].token
    BY <1>1, TokensApart, InputToken
  <1>4. ToRead(d, n, b, ins)
    BY <1>1, ReadFewer
  <1> HIDE DEF t
  <1>5. new = [ins EXCEPT ![r.no] = @ \cup {t}]
    BY DEF t, Taken
  <1>6. r.no \in Runs /\ r.no = b
    BY DEF Going, Ran
  <1>7. /\ new \in [Runs -> SUBSET Sends] /\ new[b] = ins[b] \cup {t}
        /\ \A m \in Runs : m # b => new[m] = ins[m]
    BY <1>2, <1>5, <1>6
  <1>8. /\ \A m \in Runs : (ins[m] = {} <=> m > b) /\ \A x \in ins[m] : x >= m /\ x <= n
        /\ \A l, m \in Runs : l < m => \A x \in ins[l], y \in ins[m] : x < y
    BY DEF Ran
  <1>9. \A m \in Runs : \A x \in ins[m] : x \in Sends /\ x < t
    BY <1>2 DEF After
  <1>10. Ran("codex", n, r, b, new)
    <2>1. \A m \in Runs : (new[m] = {} <=> m > b) /\ \A x \in new[m] : x >= m /\ x <= n
      <3> SUFFICES ASSUME NEW m \in Runs
                   PROVE  (new[m] = {} <=> m > b) /\ \A x \in new[m] : x >= m /\ x <= n
        OBVIOUS
      <3>1. CASE m = b
        <4>1. t >= m /\ t <= n /\ ~ (m > b)
          BY <3>1, <1>2, <1>6 DEF After, Sends, Runs
        <4> QED BY <4>1, <3>1, <1>7, <1>8
      <3>2. CASE m # b
        BY <3>2, <1>7, <1>8
      <3> QED BY <3>1, <3>2
    <2>2. \A l, m \in Runs : l < m => \A x \in new[l], y \in new[m] : x < y
      <3> SUFFICES ASSUME NEW l \in Runs, NEW m \in Runs, l < m PROVE \A x \in new[l], y \in new[m] : x < y
        OBVIOUS
      <3>1. CASE m = b
        <4>1. l # b
          BY <3>1 DEF Runs
        <4> QED BY <4>1, <3>1, <1>7, <1>8, <1>9
      <3>2. CASE m # b /\ l # b
        BY <3>2, <1>7, <1>8
      <3>3. CASE l = b
        <4>1. m # b /\ m > b
          BY <3>3 DEF Runs
        <4> QED BY <4>1, <1>7, <1>8
      <3> QED BY <3>1, <3>2, <3>3
    <2> QED BY <2>1, <2>2 DEF Ran
  <1>11. ToRead(d, n, b, new)
    <2>1. ASSUME NEW j \in 1 .. Len(d), IsInput(d[j]) PROVE After(d[j].token, n, b, new)
      <3>1. d[j].token \in Sends /\ t < d[j].token /\ After(d[j].token, n, b, ins)
        BY <2>1, <1>3, <1>4 DEF ToRead
      <3>2. \A m \in Runs : \A x \in new[m] : x < d[j].token
        BY <3>1, <1>7 DEF After
      <3> QED BY <3>1, <3>2 DEF After
    <2> QED BY <2>1, <1>4 DEF ToRead
  <1>12. \A m \in Runs : ins[m] \subseteq new[m]
    BY <1>7
  <1>13. ToHear("codex", d, p, r, b, new)
    <2>1. RunsKnown(p, b) /\ InOrder(p) /\ InTurn(p) /\ Ended(p, r)
      BY DEF ToHear
    <2>2. Refusals(d, p, new)
      <3> SUFFICES ASSUME NEW i \in 1 .. Len(p), Fails(p[i]) PROVE Refuses(p[i].token, d, new)
        BY DEF Refusals
      <3>1. Refuses(p[i].token, d, ins) /\ p[i].token # t
        <4>1. Refusals(d, p, ins)
          BY <1>1, RefusesFewer DEF ToHear
        <4>2. p[i].token # t
          BY <1>1 DEF ToHear, Refusals, Refuses, t
        <4> QED BY <4>1, <4>2 DEF Refusals
      <3> QED BY <3>1, <1>7 DEF Refuses
    <2>3. Overtaken("codex", p, new)
      BY DEF Overtaken
    <2>4. ASSUME NEW i \in 1 .. Len(p), Accepts(p[i]) PROVE Receipt("codex", p[i], p, r, new)
      <3>1. Receipt("codex", p[i], p, r, ins) /\ OfRun(p[i])
        BY <2>4, KindsApart DEF ToHear, Receipts
      <3>2. p[i].run \in 1 .. b
        BY <3>1 DEF ToHear, RunsKnown
      <3>3. p[i].run \in Runs
        BY <3>2, QueuedAssumption DEF Runs
      <3> QED BY <3>1, <3>3, <1>12 DEF Receipt
    <2> QED BY <2>1, <2>2, <2>3, <2>4 DEF ToHear, Receipts
  <1> QED BY <1>7, <1>10, <1>11, <1>12, <1>13 DEF Wider

(* A run ends. *)
LEMMA RunEnds ==
  ASSUME NEW k, NEW c, NEW n, NEW b \in 0 .. MaxSends, NEW ins, NEW r \in Going, r.no # 0,
         NEW p \in Seq(Says), NEW q \in Seq(Says), NEW w \in Says, Extended(q, p, w),
         Ends(w), w.run = r.no, Ran(k, n, r, b, ins), ToHear(k, c, p, r, b, ins)
  PROVE  Ran(k, n, Idle, b, ins) /\ ToHear(k, c, q, Idle, b, ins)
  <1>1. r.no = b /\ r.no \in Runs /\ b \in 1 .. b
    BY DEF Going, Ran, Runs
  <1>2. Ran(k, n, Idle, b, ins)
    BY DEF Ran, Idle
  <1>3. OfRun(w) /\ ~ Accepts(w) /\ ~ Fails(w)
    BY KindsApart
  <1>4. Extended(q, p, w) /\ ToHear(k, c, p, r, b, ins)
    OBVIOUS
  <1>5. RunsKnown(q, b)
    BY <1>1, <1>4 DEF Extended, ToHear, RunsKnown
  <1>6. Ended(q, Idle)
    <2>1. \A i \in 1 .. Len(q) : Ends(q[i]) => q[i].run \in 1 .. b
      BY <1>5, KindsApart DEF RunsKnown
    <2> QED BY <2>1 DEF Ended, Idle
  <1>7. ASSUME NEW i \in 1 .. Len(q), NEW j \in 1 .. Len(q), i < j
        PROVE  i \in 1 .. Len(p) /\ q[i] = p[i] /\ ((j \in 1 .. Len(p) /\ q[j] = p[j]) \/ q[j] = w)
    BY <1>7, <1>4 DEF Extended
  <1>8. InOrder(q)
    <2> SUFFICES ASSUME NEW i \in 1 .. Len(q), NEW j \in 1 .. Len(q), i < j PROVE Follows(q[i], q[j])
      BY DEF InOrder
    <2>1. i \in 1 .. Len(p) /\ q[i] = p[i] /\ ((j \in 1 .. Len(p) /\ q[j] = p[j]) \/ q[j] = w)
      BY <1>7
    <2>2. CASE j \in 1 .. Len(p) /\ q[j] = p[j]
      BY <2>1, <2>2, <1>4 DEF ToHear, InOrder
    <2>3. CASE q[j] = w
      <3>1. OfRun(p[i]) => p[i].run \in 1 .. b
        BY <2>1 DEF ToHear, RunsKnown
      <3>2. Ends(p[i]) => p[i].run # r.no
        BY <2>1 DEF ToHear, Ended
      <3> QED BY <2>1, <2>3, <3>1, <3>2, <1>1 DEF Follows
    <2> QED BY <2>1, <2>2, <2>3
  <1>9. Refusals(c, q, ins)
    BY <1>3, <1>4 DEF Extended, ToHear, Refusals
  <1>10. Overtaken(k, q, ins)
    <2> SUFFICES ASSUME k # "codex", NEW i \in 1 .. Len(q), NEW j \in 1 .. Len(q), i < j
                 PROVE  Behind(q[i], q[j], ins)
      BY DEF Overtaken
    <2>1. i \in 1 .. Len(p) /\ q[i] = p[i] /\ ((j \in 1 .. Len(p) /\ q[j] = p[j]) \/ q[j] = w)
      BY <1>7
    <2>2. j \in 1 .. Len(p) => Behind(p[i], p[j], ins)
      BY <2>1 DEF ToHear, Overtaken
    <2> QED BY <2>1, <2>2, <1>3 DEF Behind
  <1>11. InTurn(q)
    <2> SUFFICES ASSUME NEW i \in 1 .. Len(q), NEW j \in 1 .. Len(q), i < j, Accepts(q[i]), Accepts(q[j])
                 PROVE  q[i].token < q[j].token
      BY DEF InTurn
    <2>1. i \in 1 .. Len(p) /\ q[i] = p[i] /\ ((j \in 1 .. Len(p) /\ q[j] = p[j]) \/ q[j] = w)
      BY <1>7
    <2> QED BY <2>1, <1>3 DEF ToHear, InTurn
  <1>12. ASSUME NEW i \in 1 .. Len(q), Accepts(q[i]) PROVE Receipt(k, q[i], q, Idle, ins)
    <2>1. i \in 1 .. Len(p) /\ q[i] = p[i]
      BY <1>3, <1>4, <1>12 DEF Extended
    <2>2. Receipt(k, p[i], p, r, ins)
      BY <2>1, <1>12 DEF ToHear, Receipts
    <2>3. \A m : EndIn(p, m) \/ m = r.no => EndIn(q, m)
      BY <1>4 DEF EndIn, Extended
    <2> QED BY <2>1, <2>2, <2>3 DEF Receipt
  <1> QED BY <1>2, <1>5, <1>6, <1>8, <1>9, <1>10, <1>11, <1>12 DEF ToHear, Receipts

(* More is sent. *)
LEMMA ReadMore ==
  ASSUME NEW k, NEW c \in Seq(CommandsOf(k)), NEW d \in Seq(CommandsOf(k)), NEW w, Extended(d, c, w),
         NEW n \in 0 .. MaxSends, NEW m \in 0 .. MaxSends, n <= m, NEW b \in 0 .. MaxSends,
         NEW ins \in [Runs -> SUBSET Sends], ToRead(c, n, b, ins),
         IsInput(w) => After(w.token, m, b, ins) /\ n < w.token
  PROVE  ToRead(d, m, b, ins)
  <1>1. \A j \in 1 .. Len(c) : IsInput(c[j]) => c[j].token \in Sends /\ After(c[j].token, n, b, ins)
    BY InputToken DEF ToRead
  <1>2. ASSUME NEW j \in 1 .. Len(d), IsInput(d[j]) PROVE After(d[j].token, m, b, ins)
    <2>1. CASE j \in 1 .. Len(c)
      <3>1. d[j] = c[j]
        BY <2>1 DEF Extended
      <3>2. c[j].token \in Sends /\ After(c[j].token, n, b, ins)
        BY <1>1, <1>2, <2>1, <3>1
      <3> QED BY <3>1, <3>2 DEF After, Sends
    <2>2. CASE j = Len(c) + 1
      BY <1>2, <2>2 DEF Extended
    <2> QED BY <2>1, <2>2 DEF Extended
  <1>3. ASSUME NEW i \in 1 .. Len(d), NEW j \in 1 .. Len(d), i < j, IsInput(d[i]), IsInput(d[j])
        PROVE  d[i].token < d[j].token
    <2>1. i \in 1 .. Len(c) /\ d[i] = c[i]
      BY <1>3 DEF Extended
    <2>2. CASE j \in 1 .. Len(c)
      <3>1. d[j] = c[j]
        BY <2>2 DEF Extended
      <3> QED BY <2>1, <2>2, <3>1, <1>3 DEF ToRead
    <2>3. CASE j = Len(c) + 1
      <3>1. d[j] = w /\ w.token > n
        BY <2>3, <1>3, InputToken DEF Extended
      <3>2. d[i].token \in Sends /\ d[i].token <= n
        BY <2>1, <1>1, <1>3 DEF After
      <3>3. w.token \in Sends
        BY <1>3, <3>1, InputToken
      <3> QED BY <3>1, <3>2, <3>3 DEF Sends
    <2> QED BY <2>2, <2>3 DEF Extended
  <1> QED BY <1>2, <1>3 DEF ToRead

LEMMA RanMore ==
  ASSUME NEW k, NEW r, NEW b, NEW n \in 0 .. MaxSends, NEW m \in 0 .. MaxSends, n <= m,
         NEW ins \in [Runs -> SUBSET Sends], Ran(k, n, r, b, ins)
  PROVE  Ran(k, m, r, b, ins)
  <1>1. \A l \in Runs : \A x \in ins[l] : x \in Sends /\ x <= n
    BY DEF Ran
  <1>2. \A l \in Runs : \A x \in ins[l] : x <= m
    BY <1>1 DEF Sends
  <1> QED BY <1>2 DEF Ran

LEMMA HearMoreRead ==
  ASSUME NEW k, NEW c \in Seq(CommandsOf(k)), NEW d \in Seq(CommandsOf(k)),
         NEW w, Extended(d, c, w), NEW p \in Seq(Says),
         NEW r, NEW b, NEW ins, ToHear(k, c, p, r, b, ins),
         IsInput(w) => \A i \in 1 .. Len(p) : Fails(p[i]) => p[i].token # w.token
  PROVE  ToHear(k, d, p, r, b, ins)
  <1>1. Refusals(d, p, ins)
    <2> SUFFICES ASSUME NEW i \in 1 .. Len(p), Fails(p[i]), NEW j \in 1 .. Len(d), IsInput(d[j])
                 PROVE  d[j].token # p[i].token
      BY DEF ToHear, Refusals, Refuses
    <2>1. CASE j \in 1 .. Len(c)
      <3>1. d[j] = c[j]
        BY <2>1 DEF Extended
      <3> QED BY <2>1, <3>1 DEF ToHear, Refusals, Refuses
    <2>2. CASE j = Len(c) + 1
      BY <2>2 DEF Extended
    <2> QED BY <2>1, <2>2 DEF Extended
  <1> QED BY <1>1 DEF ToHear

-----------------------------------------------------------------------------
(* What hcn makes of each record the harness writes *)

Word(kd, t, n) == [kind |-> kd, token |-> t, run |-> n]
Answers == {"identity", "probe-failed", "ignored", "command-failed"}

LEMMA WordTyped ==
  ASSUME NEW kd \in {"identity", "probe-failed", "ignored", "command-accepted", "command-failed",
                     "content", "turn-end"}, NEW t \in Sends \cup {0}, NEW n \in Runs \cup {0}
  PROVE  Word(kd, t, n) \in Says
  BY DEF Word, Says

LEMMA RecordTyped ==
  ASSUME NEW s \in {"response", "notification"}, NEW w \in Whats
  PROVE  /\ Record(s, w) \in Records
         /\ Record(s, w).shape = s /\ Record(s, w).what = w /\ Record(s, w).mark = "none"
         /\ Record(s, w).token = 0 /\ Record(s, w).part = "none" /\ Record(s, w).ok
         /\ Record(s, w).session = 0 /\ Record(s, w).run = 0 /\ Record(s, w).status = "none"
  BY DEF Record, Records

LEMMA AnswerTyped ==
  ASSUME NEW c, c.what \in Whats, c.token \in Sends \cup {0}, c.mark \in {"identity", "initialize", "send"},
         NEW ok \in BOOLEAN
  PROVE  LET r == AnswerTo(c, ok) IN
         /\ r \in Records
         /\ r.shape = "response" /\ r.mark = c.mark /\ r.token = c.token /\ r.ok = ok /\ r.run = 0
         /\ (ok => r.session = 1)
  <1> DEFINE u == Record("response", c.what)
             e == IF ok THEN 1 ELSE 0
  <1>1. u \in Records /\ u.shape = "response" /\ u.part = "none" /\ u.run = 0
    BY RecordTyped
  <1>2. AnswerTo(c, ok) = [u EXCEPT !.mark = c.mark, !.token = c.token, !.ok = ok, !.session = e, !.part = "none"]
    BY DEF AnswerTo
  <1>3. e \in {0, 1} /\ (ok => e = 1)
    OBVIOUS
  <1> HIDE DEF u, e
  <1> DEFINE r == [u EXCEPT !.mark = c.mark, !.token = c.token, !.ok = ok, !.session = e, !.part = "none"]
  <1>4. r \in Records
    BY <1>1, <1>3 DEF Records
  <1>5. /\ r.shape = "response" /\ r.mark = c.mark /\ r.token = c.token /\ r.ok = ok /\ r.run = 0
        /\ (ok => r.session = 1)
    BY <1>1, <1>3 DEF Records
  <1> QED BY <1>2, <1>4, <1>5

LEMMA ProbeAnswered ==
  ASSUME NEW k \in {"codex", "popeye", "antigravity"}, NEW c \in ProbesOf(k), NEW ok \in BOOLEAN
  PROVE  /\ AnswerTo(c, ok) \in Records
         /\ \E kd \in Answers : /\ Said(k, AnswerTo(c, ok)) = Word(kd, 0, 0)
                                /\ kd \in {"identity", "probe-failed"} <=> c.mark = "identity"
  <1> DEFINE r == AnswerTo(c, ok)
  <1>1. /\ c.what \in Whats /\ c.token = 0 /\ c.mark \in {"identity", "initialize"}
        /\ k = "codex" \/ (k = "popeye" /\ c.mark = "identity")
    BY DEF ProbesOf, Whats
  <1>3. /\ r \in Records
        /\ r.shape = "response" /\ r.mark = c.mark /\ r.ok = ok /\ r.token = 0 /\ r.run = 0
        /\ (ok => r.session = 1)
    BY <1>1, AnswerTyped
  <1> HIDE DEF r
  <1>4. r.shape = "response" /\ r.mark = c.mark /\ r.ok = ok /\ r.token = 0 /\ r.run = 0
        /\ (ok => r.session = 1)
    BY <1>3
  <1>5. CASE c.mark = "identity"
    <2>1. Decode(k, r) = IF ok THEN Meaning("identity") ELSE ProbeFailed
      BY <1>1, <1>4, <1>5 DEF Decode, DecodeCodex, DecodePopeye, Announced
    <2>2. \E kd \in {"identity", "probe-failed"} : Said(k, r) = Word(kd, 0, 0)
      BY <2>1, <1>4 DEF Said, Word, Meaning, ProbeFailed
    <2> QED BY <2>2, <1>3, <1>5 DEF r, Answers
  <1>6. CASE c.mark # "identity"
    <2>1. Decode(k, r) = IF ok THEN Meaning("ignored") ELSE [Meaning("command-failed") EXCEPT !.ok = FALSE]
      BY <1>1, <1>4, <1>6 DEF Decode, DecodeCodex, Failing
    <2>2. \E kd \in {"ignored", "command-failed"} : Said(k, r) = Word(kd, 0, 0)
      BY <2>1, <1>4 DEF Said, Word, Meaning
    <2> QED BY <2>2, <1>3, <1>6 DEF r, Answers
  <1> QED BY <1>5, <1>6

LEMMA InputAccepted ==
  ASSUME NEW c \in InputsOf("codex"), NEW n \in Runs
  PROVE  LET r == [AnswerTo(c, TRUE) EXCEPT !.run = n] IN
         r \in Records /\ Said("codex", r) = Word("command-accepted", c.token, n)
  <1> DEFINE r == [AnswerTo(c, TRUE) EXCEPT !.run = n]
  <1>1. c.what \in Whats /\ c.token \in Sends /\ c.mark = "send"
    BY DEF InputsOf, Whats
  <1> DEFINE u == AnswerTo(c, TRUE)
  <1>2. /\ u \in Records /\ u.shape = "response" /\ u.mark = "send" /\ u.token = c.token /\ u.ok = TRUE
    BY <1>1, AnswerTyped
  <1> HIDE DEF u
  <1>3. /\ r \in Records /\ r.shape = "response" /\ r.mark = "send" /\ r.token = c.token /\ r.ok = TRUE
        /\ r.run = n
    BY <1>2 DEF Records, u
  <1> HIDE DEF r
  <1>4. Decode("codex", r) = [Settling("command-accepted", r) EXCEPT !.run = r.run]
    BY <1>3 DEF Decode, DecodeCodex
  <1>5. Said("codex", r) = Word("command-accepted", c.token, n)
    BY <1>3, <1>4 DEF Said, Word, Settling, Meaning
  <1> QED BY <1>3, <1>5 DEF r

LEMMA InputRefused ==
  ASSUME NEW k \in {"codex", "popeye"}, NEW c \in InputsOf(k)
  PROVE  /\ AnswerTo(c, FALSE) \in Records
         /\ Said(k, AnswerTo(c, FALSE)) = Word("command-failed", c.token, 0)
  <1> DEFINE r == AnswerTo(c, FALSE)
  <1>1. c.what \in Whats /\ c.token \in Sends /\ c.mark = "send"
    BY DEF InputsOf, Whats
  <1>3. /\ r \in Records /\ r.shape = "response" /\ r.mark = "send" /\ r.token = c.token /\ r.ok = FALSE
        /\ r.run = 0
    BY <1>1, AnswerTyped
  <1> HIDE DEF r
  <1>4. Decode(k, r) = [Settling("command-failed", r) EXCEPT !.ok = FALSE]
    BY <1>3 DEF Decode, DecodeCodex, DecodePopeye, Failing
  <1>5. Said(k, r) = Word("command-failed", c.token, 0)
    BY <1>3, <1>4 DEF Said, Word, Settling, Meaning
  <1> QED BY <1>3, <1>5 DEF r

LEMMA OutputShown ==
  ASSUME NEW k \in {"codex", "popeye", "antigravity"}, NEW n \in Runs
  PROVE  LET r == [Record("notification", "message") EXCEPT !.run = n] IN
         r \in Records /\ Said(k, r) = Word("content", 0, n)
  <1> DEFINE r == [Record("notification", "message") EXCEPT !.run = n]
             u == Record("notification", "message")
  <1>1. u \in Records /\ u.shape = "notification" /\ u.what = "message"
    BY RecordTyped DEF Whats
  <1> HIDE DEF u
  <1>2. r \in Records /\ r.shape = "notification" /\ r.what = "message" /\ r.run = n
    BY <1>1 DEF Records, u
  <1> HIDE DEF r
  <1>3. Decode(k, r) = Meaning("content")
    <2>1. ~ EndsTurn("codex", r) /\ ~ EndsTurn("antigravity", r)
      BY <1>2 DEF EndsTurn
    <2> QED BY <1>2, <2>1 DEF Decode, DecodeCodex, DecodePopeye, DecodeAntigravity
  <1>4. Said(k, r) = Word("content", 0, n)
    BY <1>2, <1>3 DEF Said, Word, Meaning
  <1> QED BY <1>2, <1>4 DEF r

LEMMA RunEnded ==
  ASSUME NEW k \in {"codex", "popeye", "antigravity"}, NEW n \in Runs, NEW failed \in BOOLEAN
  PROVE  LET r == [EndOf(k, failed) EXCEPT !.run = n] IN
         r \in Records /\ Said(k, r) = Word("turn-end", 0, n)
  <1> DEFINE r == [EndOf(k, failed) EXCEPT !.run = n]
             shape == IF k = "popeye" THEN "response" ELSE "notification"
             what == IF k = "codex" THEN "turn/completed" ELSE IF k = "popeye" THEN "prompt" ELSE "result"
             mark == IF k = "popeye" THEN "send" ELSE "none"
             status == IF failed THEN (IF k = "popeye" THEN "error" ELSE "failed") ELSE "completed"
             u == Record(shape, what)
  <1>0. shape \in {"response", "notification"} /\ what \in Whats
    BY DEF Whats
  <1> HIDE DEF shape, what
  <1>1. u \in Records /\ u.shape = shape /\ u.what = what /\ u.ok /\ u.part = "none"
    <2>1. \A a \in {"response", "notification"}, z \in Whats :
            Record(a, z) \in Records /\ Record(a, z).shape = a /\ Record(a, z).what = z
            /\ Record(a, z).ok /\ Record(a, z).part = "none"
      BY RecordTyped
    <2> QED BY <1>0, <2>1
  <1>2. mark \in {"send", "none"} /\ status \in {"completed", "failed", "error"}
    OBVIOUS
  <1>3. EndOf(k, failed) = [u EXCEPT !.mark = mark, !.status = status]
    BY DEF EndOf, shape, what
  <1> HIDE DEF u, mark, status
  <1> DEFINE v == [u EXCEPT !.mark = mark, !.status = status]
  <1>4. v \in Records /\ v.shape = shape /\ v.what = what /\ v.ok /\ v.mark = mark
    BY <1>1, <1>2 DEF Records
  <1>5. r = [v EXCEPT !.run = n]
    BY <1>3
  <1> HIDE DEF v
  <1>6. /\ r \in Records /\ r.shape = shape /\ r.what = what /\ r.ok /\ r.mark = mark
        /\ r.run = n
    BY <1>4, <1>5 DEF Records
  <1> HIDE DEF r
  <1>7. Decode(k, r) \in {TurnEnd(TRUE, FALSE), TurnEnd(FALSE, FALSE)}
    <2>1. CASE k = "codex"
      <3>1. EndsTurn("codex", r) /\ r.shape = "notification"
        BY <2>1, <1>6 DEF EndsTurn, shape, what
      <3>2. Decode(k, r) = TurnEnd(r.status \in {"failed", "interrupted"}, FALSE)
        BY <2>1, <3>1 DEF Decode, DecodeCodex
      <3> DEFINE e == r.status \in {"failed", "interrupted"}
      <3>3. e \in BOOLEAN /\ Decode(k, r) = TurnEnd(e, FALSE)
        BY <3>2
      <3> HIDE DEF e
      <3> QED BY <3>3
    <2>2. CASE k = "popeye"
      <3>1. Decode(k, r) = TurnEnd(r.status \in {"error", "aborted"}, FALSE)
        BY <2>2, <1>6 DEF Decode, DecodePopeye, mark, shape, what
      <3> DEFINE e == r.status \in {"error", "aborted"}
      <3>3. e \in BOOLEAN /\ Decode(k, r) = TurnEnd(e, FALSE)
        BY <3>1
      <3> HIDE DEF e
      <3> QED BY <3>3
    <2>3. CASE k = "antigravity"
      <3>1. EndsTurn("antigravity", r)
        BY <2>3, <1>6 DEF EndsTurn, shape, what
      <3>2. Decode(k, r) = TurnEnd(r.status # "completed", FALSE)
        BY <2>3, <3>1 DEF Decode, DecodeAntigravity
      <3> QED BY <3>2
    <2> QED BY <2>1, <2>2, <2>3
  <1>8. Said(k, r) = Word("turn-end", 0, n)
    BY <1>6, <1>7 DEF Said, Word, TurnEnd, Meaning
  <1> QED BY <1>6, <1>8 DEF r

(* The pipe as hcn understands it follows the pipe. *)
LEMMA PipeReads ==
  ASSUME NEW k, NEW q \in Seq(Records), q # <<>>, PipeOf(k, q) \in Seq(Says)
  PROVE  /\ Tail(q) \in Seq(Records) /\ PipeOf(k, Tail(q)) \in Seq(Says)
         /\ Kept(PipeOf(k, Tail(q)), PipeOf(k, q), 1)
         /\ PipeOf(k, q) # <<>> /\ 1 \in 1 .. Len(PipeOf(k, q)) /\ PipeOf(k, q)[1] = Said(k, Head(q))
         /\ PipeOf(k, q)[1] \in Says /\ Len(PipeOf(k, q)) = Len(q)
  <1> DEFINE p == PipeOf(k, q)
             u == Tail(q)
             v == PipeOf(k, u)
  <1>1. /\ u \in Seq(Records) /\ Len(u) + 1 = Len(q) /\ Len(u) \in Nat /\ Len(q) \in Nat /\ Head(q) = q[1]
        /\ \A i \in 1 .. Len(u) : u[i] = q[i + 1]
    OBVIOUS
  <1> HIDE DEF u
  <1>2. p = [i \in 1 .. Len(q) |-> Said(k, q[i])] /\ v = [i \in 1 .. Len(u) |-> Said(k, u[i])]
    BY DEF PipeOf
  <1>3. p \in Seq(Says)
    OBVIOUS
  <1> HIDE DEF p, v
  <1>4. Len(p) = Len(q) /\ DOMAIN p = 1 .. Len(q)
    BY <1>1, <1>2, <1>3
  <1>5. \A i \in 1 .. Len(u) : i + 1 \in 1 .. Len(q) /\ v[i] = p[i + 1] /\ p[i + 1] \in Says
    BY <1>1, <1>2, <1>3, <1>4
  <1>6. v \in Seq(Says) /\ Len(v) = Len(u)
    <2>1. v = [i \in 1 .. Len(u) |-> v[i]] /\ \A i \in 1 .. Len(u) : v[i] \in Says
      BY <1>2, <1>5
    <2>2. v \in [1 .. Len(u) -> Says]
      BY <2>1
    <2>3. \A f \in [1 .. Len(u) -> Says] : f \in Seq(Says) /\ Len(f) = Len(u)
      BY <1>1
    <2> QED BY <2>2, <2>3
  <1>7. Cut(v, p, 1)
    BY <1>1, <1>4, <1>5, <1>6 DEF Cut, Skip
  <1>8. 1 \in 1 .. Len(p)
    BY <1>1, <1>4
  <1>9. Kept(v, p, 1)
    BY <1>3, <1>6, <1>7, <1>8, CutKeeps
  <1>10. p # <<>> /\ p[1] = Said(k, Head(q)) /\ p[1] \in Says
    BY <1>1, <1>2, <1>3, <1>4, <1>8
  <1> QED BY <1>1, <1>4, <1>6, <1>8, <1>9, <1>10 DEF p, u, v

LEMMA PipePrints ==
  ASSUME NEW k, NEW q \in Seq(Records), PipeOf(k, q) \in Seq(Says), NEW r \in Records,
         Said(k, r) \in Says
  PROVE  /\ Append(q, r) \in Seq(Records) /\ PipeOf(k, Append(q, r)) \in Seq(Says)
         /\ Extended(PipeOf(k, Append(q, r)), PipeOf(k, q), Said(k, r))
  <1> DEFINE p == PipeOf(k, q)
             u == Append(q, r)
             v == PipeOf(k, u)
  <1>1. /\ u \in Seq(Records) /\ Len(u) = Len(q) + 1 /\ Len(q) \in Nat /\ Len(u) \in Nat
        /\ u[Len(q) + 1] = r /\ \A i \in 1 .. Len(q) : u[i] = q[i]
    OBVIOUS
  <1> HIDE DEF u
  <1>2. p = [i \in 1 .. Len(q) |-> Said(k, q[i])] /\ v = [i \in 1 .. Len(u) |-> Said(k, u[i])]
    BY DEF PipeOf
  <1>3. p \in Seq(Says)
    OBVIOUS
  <1> HIDE DEF p, v
  <1>4. Len(p) = Len(q) /\ DOMAIN p = 1 .. Len(q)
    BY <1>1, <1>2, <1>3
  <1>5. \A i \in 1 .. Len(q) : v[i] = p[i] /\ p[i] \in Says
    BY <1>1, <1>2, <1>3, <1>4
  <1>6. v[Len(q) + 1] = Said(k, r)
    BY <1>1, <1>2
  <1>7. \A i \in 1 .. Len(u) : v[i] \in Says
    BY <1>1, <1>5, <1>6
  <1>8. v \in Seq(Says) /\ Len(v) = Len(u)
    <2>1. v \in [1 .. Len(u) -> Says]
      BY <1>2, <1>7
    <2>2. \A f \in [1 .. Len(u) -> Says] : f \in Seq(Says) /\ Len(f) = Len(u)
      BY <1>1
    <2> QED BY <2>1, <2>2
  <1>9. Extended(v, p, Said(k, r))
    BY <1>1, <1>4, <1>5, <1>6, <1>8 DEF Extended
  <1> QED BY <1>1, <1>8, <1>9 DEF p, u, v

-----------------------------------------------------------------------------
(* What the turns rest on, as the harness goes on *)

Grown(q, p) == \A i \in 1 .. Len(p) : i \in 1 .. Len(q) /\ q[i] = p[i]

LEMMA ExtendedGrown ==
  ASSUME NEW p, NEW q, NEW w, Extended(q, p, w)
  PROVE  Grown(q, p) /\ Grown(p, p)
  BY DEF Extended, Grown

(* What is due stays due while nothing of it is read. *)
LEMMA DueKept ==
  ASSUME NEW c, NEW p, NEW r, NEW ins, NEW d, NEW q, NEW e, NEW new,
         \A i \in 1 .. Len(c) : IsInput(c[i]) => Due(c[i].token, d, q, e, new),
         r.no # 0 => \A s \in ins[r.no] : Due(s, d, q, e, new),
         Grown(q, p), \A i \in 1 .. Len(p) : Ends(p[i]) => ins[p[i].run] \subseteq new[p[i].run],
         NEW s, Due(s, c, p, r, ins)
  PROVE  Due(s, d, q, e, new)
  <1>1. CASE \E i \in 1 .. Len(c) : IsInput(c[i]) /\ c[i].token = s
    BY <1>1
  <1>2. CASE r.no # 0 /\ s \in ins[r.no]
    BY <1>2
  <1>3. CASE \E i \in 1 .. Len(p) : Ends(p[i]) /\ s \in ins[p[i].run]
    <2>1. \E i \in 1 .. Len(q) : Ends(q[i]) /\ s \in new[q[i].run]
      BY <1>3 DEF Grown
    <2> QED BY <2>1 DEF Due
  <1>4. CASE \E i \in 1 .. Len(p) : Fails(p[i]) /\ p[i].token = s
    <2>1. \E i \in 1 .. Len(q) : Fails(q[i]) /\ q[i].token = s
      BY <1>4 DEF Grown
    <2> QED BY <2>1 DEF Due
  <1> QED BY <1>1, <1>2, <1>3, <1>4 DEF Due

(* The commands and records that stay are as they were. *)
LEMMA ServesKept ==
  ASSUME NEW H, NEW c, NEW p, NEW r, NEW ins, Serves(H, c, p, r, ins),
         NEW i \in 1 .. Len(c), NEW d, Kept(d, c, i)
  PROVE  Serves(H, d, p, r, ins)
  BY DEF Serves, Kept

LEMMA ServesMore ==
  ASSUME NEW H, NEW c, NEW p, NEW r, NEW ins, Serves(H, c, p, r, ins),
         NEW q, NEW w, Extended(q, p, w), OfRun(w) => ins[w.run] \subseteq H
  PROVE  Serves(H, c, q, r, ins)
  BY DEF Serves, Extended

LEMMA OwingKept ==
  ASSUME NEW A, NEW c, NEW p, Owing(A, c, p), NEW i \in 1 .. Len(c), NEW d, Kept(d, c, i)
  PROVE  Owing(A, d, p) /\ (IsInput(c[i]) => c[i].token \in A)
  BY DEF Owing, Kept

LEMMA OwingMore ==
  ASSUME NEW A, NEW c, NEW p, Owing(A, c, p), NEW q, NEW w, Extended(q, p, w),
         Accepts(w) => w.token \in A
  PROVE  Owing(A, c, q)
  BY DEF Owing, Extended

LEMMA EndInMore ==
  ASSUME NEW p, NEW q, Grown(q, p), NEW n, EndIn(p, n)
  PROVE  EndIn(q, n)
  BY DEF EndIn, Grown

LEMMA AnsweredMore ==
  ASSUME NEW p, Len(p) \in Nat, NEW q, Len(q) \in Nat, Grown(q, p), NEW i \in 0 .. Len(p), NEW n,
         AnsweredBy(i, p, n), NEW j \in 0 .. Len(q), i <= j
  PROVE  AnsweredBy(i, q, n) /\ AnsweredBy(j, q, n)
  <1>1. PICK l \in 1 .. i : Accepts(p[l]) /\ p[l].run = n
    BY DEF AnsweredBy
  <1>2. l \in 1 .. Len(p) /\ l \in 1 .. j
    BY <1>1
  <1>3. Accepts(q[l]) /\ q[l].run = n
    BY <1>1, <1>2 DEF Grown
  <1> QED BY <1>2, <1>3 DEF AnsweredBy

(* The oldest run stays the oldest when a record of a run that is not      *)
(* older joins the pipe.                                                   *)
LEMMA OldestMore ==
  ASSUME NEW o, NEW p, NEW r, NEW ins, Oldest(o, p, r, ins),
         NEW q, NEW w, Extended(q, p, w),
         \A n \in Runs : o \in ins[n] /\ OfRun(w) => w.run >= n
  PROVE  Oldest(o, q, r, ins)
  <1>1. PICK n \in Runs : /\ o \in ins[n]
                          /\ \A i \in 1 .. Len(p) : OfRun(p[i]) => p[i].run >= n
                          /\ n = r.no \/ EndIn(p, n)
    BY DEF Oldest
  <1>2. \A i \in 1 .. Len(q) : OfRun(q[i]) => q[i].run >= n
    BY <1>1 DEF Extended
  <1>3. EndIn(p, n) => EndIn(q, n)
    BY EndInMore, ExtendedGrown
  <1> QED BY <1>1, <1>2, <1>3 DEF Oldest

(* A record of a run that is covered, or answered before, or answers. *)
LEMMA IntroducedMore ==
  ASSUME NEW o, NEW p \in Seq(Says), NEW r, NEW ins, Introduced(o, p, r, ins),
         NEW q \in Seq(Says), NEW w, Extended(q, p, w),
         OfRun(w) => \/ Covers(o, w.run, ins) \/ Accepts(w) \/ AnsweredBy(Len(p), p, w.run)
  PROVE  Introduced(o, q, r, ins)
  <1>1. Grown(q, p) /\ Len(p) \in Nat /\ Len(q) \in Nat /\ Len(q) = Len(p) + 1
    BY ExtendedGrown DEF Extended
  <1>2. ASSUME r.no # 0, ~Covers(o, r.no, ins) PROVE AnsweredBy(Len(q), q, r.no)
    <2>1. AnsweredBy(Len(p), p, r.no)
      BY <1>2 DEF Introduced
    <2> QED BY <1>1, <2>1, AnsweredMore
  <1>3. ASSUME NEW i \in 1 .. Len(q), OfRun(q[i]), ~Covers(o, q[i].run, ins)
        PROVE  AnsweredBy(i, q, q[i].run)
    <2>1. CASE i \in 1 .. Len(p)
      <3>1. q[i] = p[i]
        BY <2>1 DEF Extended
      <3>2. AnsweredBy(i, p, p[i].run)
        BY <1>3, <2>1, <3>1 DEF Introduced
      <3>3. i \in 0 .. Len(p) /\ i \in 0 .. Len(q) /\ i <= i
        BY <1>1, <2>1
      <3> QED BY <1>1, <3>1, <3>2, <3>3, AnsweredMore
    <2>2. CASE i = Len(p) + 1
      <3>1. q[i] = w /\ i \in 1 .. i
        BY <2>2, <1>1 DEF Extended
      <3>2. CASE Accepts(w)
        BY <3>1, <3>2 DEF AnsweredBy
      <3>3. CASE AnsweredBy(Len(p), p, w.run)
        <4>1. Len(p) \in 0 .. Len(p) /\ i \in 0 .. Len(q) /\ Len(p) <= i
          BY <1>1, <2>2
        <4> QED BY <1>1, <3>1, <3>3, <4>1, AnsweredMore
      <3> QED BY <1>3, <3>1, <3>2, <3>3
    <2> QED BY <2>1, <2>2 DEF Extended
  <1> QED BY <1>2, <1>3 DEF Introduced

-----------------------------------------------------------------------------
(* What every step can count on *)

Kinds == {"codex", "popeye", "antigravity"}

LEMMA Sized == MaxSends \in Nat /\ Runs = Sends /\ \A n \in Sends : n \in Nat /\ n # 0
  BY QueuedAssumption DEF Runs, Sends

LEMMA Given ==
  ASSUME QueuedInv
  PROVE  /\ kind \in Kinds /\ kind \in SessionKinds /\ sent \in 0 .. MaxSends /\ begun \in 0 .. MaxSends
         /\ inputs \in [Runs -> SUBSET Sends] /\ run \in Going
         /\ stdin \in Seq(CommandsOf(kind)) /\ stdout \in Seq(Records) /\ Pipe \in Seq(Says)
         /\ buffered \in Seq(Sends) /\ board \in Board /\ awaiting \subseteq Sends
         /\ told \in [Sends -> {"none", "started", "native-rejected", "write-failed", "closed"}]
         /\ Len(Pipe) = Len(stdout)
         /\ \A i \in 1 .. Len(stdout) : Pipe[i] = Said(kind, stdout[i])
  <1>1. kind \in Kinds
    BY QueuedAssumption DEF QueuedInv, Types, TypeOK, Kinds
  <1>2. Len(Pipe) = Len(stdout) /\ \A i \in 1 .. Len(stdout) : Pipe[i] = Said(kind, stdout[i])
    <2>1. stdout \in Seq(Records) /\ Pipe \in Seq(Says)
      BY DEF QueuedInv, Types
    <2>2. Pipe = [i \in 1 .. Len(stdout) |-> Said(kind, stdout[i])]
      BY DEF Pipe, PipeOf
    <2>3. DOMAIN Pipe = 1 .. Len(Pipe) /\ Len(Pipe) \in Nat /\ Len(stdout) \in Nat
      BY <2>1
    <2>4. DOMAIN Pipe = 1 .. Len(stdout)
      BY <2>2
    <2>5. Len(Pipe) = Len(stdout)
      BY <2>3, <2>4
    <2> QED BY <2>2, <2>5
  <1> QED BY <1>1, <1>2 DEF QueuedInv, Types, TypeOK, Going

(* A step of the harness leaves hcn's own state alone. *)
LEMMA HcnRests ==
  ASSUME QueuedInv, HcnStill
  PROVE  /\ kind' = kind /\ sent' = sent /\ identity' = identity /\ buffered' = buffered
         /\ awaiting' = awaiting /\ told' = told /\ board' = board /\ failure' = failure
         /\ closing' = closing /\ closer' = closer /\ eof' = eof /\ signal' = signal
         /\ stalled' = stalled /\ exit' = exit /\ cause' = cause
         /\ refused' = refused /\ lost' = lost /\ dropped' = dropped
         /\ Ending' /\ Boarded(board)' /\ Places' /\ Refusal' /\ RefusedOpenTold'
         /\ (Finalized' <=> Finalized) /\ (Closed' <=> Closed)
  <1>1. /\ kind' = kind /\ sent' = sent /\ identity' = identity /\ buffered' = buffered
        /\ awaiting' = awaiting /\ told' = told /\ board' = board /\ failure' = failure
        /\ closing' = closing /\ closer' = closer /\ eof' = eof /\ signal' = signal
        /\ stalled' = stalled /\ exit' = exit /\ cause' = cause
        /\ refused' = refused /\ lost' = lost /\ dropped' = dropped
    BY DEF HcnStill, sends, life, history
  <1>2. Ending' /\ Boarded(board)'
    BY <1>1 DEF QueuedInv, Ending, Boarded, Finalized, Dead
  <1>3. Places'
    BY <1>1 DEF QueuedInv, Places
  <1>4. Refusal'
    BY <1>1 DEF QueuedInv, Refusal, Finalized
  <1>5. RefusedOpenTold'
    BY <1>1 DEF QueuedInv, RefusedOpenTold, Finalized
  <1> QED BY <1>1, <1>2, <1>3, <1>4, <1>5 DEF Finalized, Closed, Dead

(* What a step of the harness has to keep. *)
LEMMA HarnessSteps ==
  ASSUME QueuedInv, HcnStill, ~Finalized,
         stdin' \in Seq(CommandsOf(kind)), stdout' \in Seq(Records), PipeOf(kind, stdout') \in Seq(Says),
         run' \in Going, begun' \in 0 .. MaxSends, inputs' \in [Runs -> SUBSET Sends],
         Asked(kind, identity \/ failure, stdin', PipeOf(kind, stdout')),
         Ran(kind, sent, run', begun', inputs'), ToRead(stdin', sent, begun', inputs'),
         ToHear(kind, stdin', PipeOf(kind, stdout'), run', begun', inputs'),
         RefusedSent(PipeOf(kind, stdout'), sent),
         BuffersBeforeIdentity(kind) /\ ~identity =>
           begun' = 0 /\ run' = Idle /\ NoInput(stdin') /\ Quiet(PipeOf(kind, stdout')),
         lost # {} => begun' = 0 /\ NoInput(stdin'),
         kind # "codex" =>
           /\ \A s \in Sends : Due(s, stdin, Pipe, run, inputs) => Due(s, stdin', PipeOf(kind, stdout'), run', inputs')
           /\ Serves(Held(board), stdin, Pipe, run, inputs)
                => Serves(Held(board), stdin', PipeOf(kind, stdout'), run', inputs'),
         kind = "codex" => Owing(awaiting, stdin', PipeOf(kind, stdout')),
         kind = "codex" =>
           /\ board.turn # 0 /\ Oldest(board.opener, Pipe, run, inputs)
                => Oldest(board.opener, PipeOf(kind, stdout'), run', inputs')
           /\ Introduced(board.opener, Pipe, run, inputs)
                => Introduced(board.opener, PipeOf(kind, stdout'), run', inputs'),
         \A n \in Runs : inputs[n] \subseteq inputs'[n]
  PROVE  QueuedInv'
  <1> DEFINE p == PipeOf(kind, stdout')
  <1>1. /\ kind' = kind /\ sent' = sent /\ identity' = identity /\ buffered' = buffered
        /\ awaiting' = awaiting /\ told' = told /\ board' = board /\ failure' = failure
        /\ closing' = closing /\ closer' = closer /\ eof' = eof /\ signal' = signal
        /\ stalled' = stalled /\ exit' = exit /\ cause' = cause
        /\ refused' = refused /\ lost' = lost /\ dropped' = dropped
        /\ Ending' /\ Boarded(board)' /\ Places' /\ Refusal' /\ RefusedOpenTold'
        /\ (Finalized' <=> Finalized) /\ (Closed' <=> Closed)
    BY HcnRests
  <1>2. Pipe' = p
    BY <1>1 DEF Pipe
  <1> HIDE DEF p
  <1>3. Types'
    <2>1. TypeOK'
      BY <1>1 DEF QueuedInv, Types, TypeOK, Going
    <2> QED BY <1>1, <1>2, <2>1 DEF QueuedInv, Types, p
  <1>4. AskedOnce'
    BY <1>1, <1>2 DEF AskedOnce, p
  <1>5. Unannounced'
    BY <1>1, <1>2 DEF QueuedInv, Unannounced, p
  <1>6. Harness'
    BY <1>1, <1>2 DEF Harness, p
  <1>7. Losing'
    BY <1>1 DEF QueuedInv, Losing
  <1>8. Queued'
    <2> SUFFICES ASSUME kind # "codex" PROVE Queued'
      BY <1>1 DEF Queued
    <2>1. \A s \in Held(board) : s \in Sends
      <3>1. board.opener \in Sends \cup {0} /\ board.pending \in Seq(Sends)
        BY Given DEF Board
      <3>2. board.turn # 0 => board.opener # 0
        BY DEF QueuedInv, Boarded
      <3> QED BY <3>1, <3>2, MembersTyped DEF Held
    <2>2. /\ InLine(board) /\ (~Closed /\ board.turn = 0 => board.pending = <<>>)
          /\ ~stalled =>
             /\ board.parked.runs # {} => Closed
             /\ board.turn # 0 => \A s \in Held(board) : s \in lost \/ Due(s, stdin, Pipe, run, inputs)
             /\ board.turn # 0 \/ ~Closed => Serves(Held(board), stdin, Pipe, run, inputs)
      BY DEF QueuedInv, Queued
    <2>3. ~stalled /\ board.turn # 0 => \A s \in Held(board) : s \in lost \/ Due(s, stdin', p, run', inputs')
      BY <2>1, <2>2 DEF p
    <2>4. ~stalled /\ (board.turn # 0 \/ ~Closed) => Serves(Held(board), stdin', p, run', inputs')
      BY <2>2 DEF p
    <2> QED BY <1>1, <1>2, <2>2, <2>3, <2>4 DEF Queued
  <1>9. Steered'
    BY <1>1, <1>2 DEF QueuedInv, Steered, p
  <1>10. OutputBelongs'
    <2>1. \A i \in 1 .. Len(board.turns) : board.turns[i].runs \subseteq Runs
      <3>1. board.turns \in Seq(PublicTurn)
        BY Given DEF Board
      <3>2. \A i \in 1 .. Len(board.turns) : board.turns[i] \in PublicTurn
        BY <3>1
      <3> QED BY <3>2 DEF PublicTurn
    <2> QED BY <1>1, <2>1 DEF QueuedInv, OutputBelongs
  <1> QED BY <1>1, <1>3, <1>4, <1>5, <1>6, <1>7, <1>8, <1>9, <1>10 DEF QueuedInv

(* The probe's question and its answer. *)
LEMMA AskedFewer ==
  ASSUME NEW k, NEW x, NEW c, NEW p, Asked(k, x, c, p), NEW i \in 1 .. Len(c), NEW d, Kept(d, c, i)
  PROVE  Asked(k, x, d, p)
  <1>1. OneAsk(d)
    <2> SUFFICES ASSUME NEW l \in 1 .. Len(d), NEW m \in 1 .. Len(d), l # m,
                        d[l].mark = "identity", d[m].mark = "identity"
                 PROVE  FALSE
      BY DEF OneAsk
    <2>1. Skip(i, l) = Skip(i, m)
      BY DEF Asked, OneAsk, Kept
    <2>2. l < m \/ m < l
      OBVIOUS
    <2>3. Skip(i, l) \in 1 .. Len(c) /\ Skip(i, m) \in 1 .. Len(c)
      BY DEF Kept
    <2> QED BY <2>1, <2>2, <2>3 DEF Kept
  <1>2. NoAsk(c) => NoAsk(d)
    BY DEF NoAsk, Kept
  <1> QED BY <1>1, <1>2 DEF Asked

LEMMA AskedMore ==
  ASSUME NEW k, NEW x, NEW c, NEW p, Asked(k, x, c, p), NEW q, NEW w, Extended(q, p, w), ~ Announces(w)
  PROVE  Asked(k, x, c, q)
  <1>1. OneWord(q)
    BY DEF Asked, OneWord, Extended
  <1>2. NoWord(p) => NoWord(q)
    BY DEF NoWord, Extended
  <1> QED BY <1>1, <1>2 DEF Asked

LEMMA AskAnswered ==
  ASSUME NEW k, NEW x, NEW c, NEW p, Asked(k, x, c, p), 1 \in 1 .. Len(c), c[1].mark = "identity",
         NEW d, Kept(d, c, 1), NEW q, NEW w, Extended(q, p, w)
  PROVE  Asked(k, x, d, q)
  <1>1. ~ NoAsk(c)
    BY DEF NoAsk
  <1>2. NoWord(p) /\ OneAsk(c) /\ ~x /\ k # "antigravity"
    BY <1>1 DEF Asked
  <1>3. NoAsk(d)
    BY <1>2 DEF NoAsk, OneAsk, Kept
  <1>4. OneAsk(d)
    BY <1>3 DEF NoAsk, OneAsk
  <1>5. OneWord(q)
    BY <1>2 DEF NoWord, OneWord, Extended
  <1> QED BY <1>2, <1>3, <1>4, <1>5 DEF Asked

LEMMA NoInputFewer ==
  ASSUME NEW c, NEW i \in 1 .. Len(c), NEW d, Kept(d, c, i), NoInput(c)
  PROVE  NoInput(d)
  BY DEF NoInput, Kept

LEMMA QuietMore ==
  ASSUME NEW p, NEW q, NEW w, Extended(q, p, w), Quiet(p), ~ OfRun(w), ~ Fails(w)
  PROVE  Quiet(q)
  BY DEF Quiet, Extended

LEMMA SentMore ==
  ASSUME QueuedInv, NEW q, NEW w, Extended(q, Pipe, w), Fails(w) => w.token <= sent
  PROVE  RefusedSent(q, sent)
  <1>1. RefusedSent(Pipe, sent)
    BY DEF QueuedInv, Harness
  <1> QED BY <1>1 DEF RefusedSent, Extended

LEMMA HarnessReads ==
  ASSUME QueuedInv, stdin # <<>>
  PROVE  /\ Tail(stdin) \in Seq(CommandsOf(kind)) /\ Kept(Tail(stdin), stdin, 1)
         /\ Head(stdin) = stdin[1] /\ 1 \in 1 .. Len(stdin) /\ stdin[1] \in CommandsOf(kind)
         /\ stdin[1].token \in Sends \cup {0}
         /\ IsInput(stdin[1]) => stdin[1] \in InputsOf(kind) /\ stdin[1].token \in Sends
         /\ ~ IsInput(stdin[1]) => stdin[1] \in ProbesOf(kind) /\ stdin[1].token = 0
  <1>1. stdin \in Seq(CommandsOf(kind))
    BY Given
  <1>2. /\ Tail(stdin) \in Seq(CommandsOf(kind)) /\ Kept(Tail(stdin), stdin, 1)
        /\ Head(stdin) = stdin[1] /\ 1 \in 1 .. Len(stdin) /\ stdin[1] \in CommandsOf(kind)
    BY <1>1, TailCuts
  <1> QED BY <1>1, <1>2, InputToken

LEMMA HarnessPrints ==
  ASSUME QueuedInv, NEW r \in Records, Said(kind, r) \in Says
  PROVE  /\ Append(stdout, r) \in Seq(Records) /\ PipeOf(kind, Append(stdout, r)) \in Seq(Says)
         /\ Extended(PipeOf(kind, Append(stdout, r)), Pipe, Said(kind, r))
  <1>1. stdout \in Seq(Records) /\ PipeOf(kind, stdout) \in Seq(Says)
    BY Given DEF Pipe
  <1> QED BY <1>1, PipePrints DEF Pipe

(* The harness answers the probe, or refuses it. *)
LEMMA ProbeStep ==
  ASSUME QueuedInv, NEW ok \in BOOLEAN, AnswerProbe(ok)
  PROVE  QueuedInv'
  <1> DEFINE r == AnswerTo(stdin[1], ok)
             q == PipeOf(kind, stdout')
  <1>1. /\ stdin # <<>> /\ Head(stdin).mark \in {"identity", "initialize"} /\ stdin' = Tail(stdin)
        /\ stdout' = Append(stdout, AnswerTo(Head(stdin), ok)) /\ HcnStill /\ ~Finalized
        /\ run' = run /\ begun' = begun /\ inputs' = inputs
    BY DEF AnswerProbe, Prints, NativeStill, native, Alive, Awake
  <1>2. /\ stdin' \in Seq(CommandsOf(kind)) /\ Kept(stdin', stdin, 1) /\ 1 \in 1 .. Len(stdin)
        /\ Head(stdin) = stdin[1] /\ stdin[1] \in ProbesOf(kind) /\ ~ IsInput(stdin[1])
    <2>1. ~ IsInput(Head(stdin))
      BY <1>1 DEF IsInput
    <2> QED BY <1>1, <2>1, HarnessReads
  <1>3. r \in Records
    <2>1. kind \in {"codex", "popeye", "antigravity"}
      BY Given DEF Kinds
    <2> QED BY <1>2, <2>1, ProbeAnswered
  <1>4. PICK kd \in Answers : /\ Said(kind, r) = Word(kd, 0, 0)
                              /\ kd \in {"identity", "probe-failed"} <=> stdin[1].mark = "identity"
    <2>1. kind \in {"codex", "popeye", "antigravity"}
      BY Given DEF Kinds
    <2> QED BY <1>2, <2>1, ProbeAnswered
  <1> HIDE DEF r
  <1> DEFINE w == Word(kd, 0, 0)
  <1>5. /\ w \in Says /\ ~ OfRun(w) /\ ~ Fails(w) /\ ~ Ends(w) /\ ~ Accepts(w)
        /\ Announces(w) <=> stdin[1].mark = "identity"
    <2>1. w \in Says
      BY WordTyped DEF Answers
    <2>2. w.kind = kd /\ w.token = 0
      BY DEF Word
    <2> QED BY <1>4, <2>1, <2>2 DEF Answers, OfRun, Fails, Ends, Accepts, Announces
  <1> HIDE DEF w
  <1>6. stdout' \in Seq(Records) /\ q \in Seq(Says) /\ Extended(q, Pipe, w)
    <2>1. stdout' = Append(stdout, r) /\ Said(kind, r) = w /\ w \in Says
      BY <1>1, <1>2, <1>4, <1>5 DEF r, w
    <2> QED BY <2>1, <1>3, HarnessPrints
  <1> HIDE DEF q
  <1>7. /\ Pipe \in Seq(Says) /\ stdin \in Seq(CommandsOf(kind)) /\ run \in Going /\ begun \in 0 .. MaxSends
        /\ inputs \in [Runs -> SUBSET Sends]
    BY Given
  <1>8. Asked(kind, identity \/ failure, stdin', q)
    <2>1. Asked(kind, identity \/ failure, stdin, Pipe)
      BY DEF QueuedInv, AskedOnce
    <2>2. CASE stdin[1].mark = "identity"
      BY <2>1, <2>2, <1>2, <1>6, AskAnswered
    <2>3. CASE stdin[1].mark # "identity"
      <3>1. Asked(kind, identity \/ failure, stdin', Pipe)
        BY <2>1, <1>2, AskedFewer
      <3> QED BY <3>1, <2>3, <1>5, <1>6, AskedMore
    <2> QED BY <2>2, <2>3
  <1>9. /\ Ran(kind, sent, run, begun, inputs) /\ ToRead(stdin, sent, begun, inputs)
        /\ ToHear(kind, stdin, Pipe, run, begun, inputs)
    BY DEF QueuedInv, Harness
  <1>10. ToRead(stdin', sent, begun, inputs)
    BY <1>2, <1>7, <1>9, ReadFewer
  <1>11. ToHear(kind, stdin', q, run, begun, inputs)
    <2>1. ToHear(kind, stdin', Pipe, run, begun, inputs)
      BY <1>2, <1>9, RefusesFewer DEF ToHear
    <2> QED BY <2>1, <1>5, <1>6, <1>7, HearMore DEF Behind
  <1>12. BuffersBeforeIdentity(kind) /\ ~identity =>
           begun = 0 /\ run = Idle /\ NoInput(stdin') /\ Quiet(q)
    <2> SUFFICES ASSUME BuffersBeforeIdentity(kind), ~identity
                 PROVE  begun = 0 /\ run = Idle /\ NoInput(stdin') /\ Quiet(q)
      OBVIOUS
    <2>1. begun = 0 /\ run = Idle /\ NoInput(stdin) /\ Quiet(Pipe)
      BY DEF QueuedInv, Unannounced
    <2> QED BY <2>1, <1>2, <1>5, <1>6, NoInputFewer, QuietMore
  <1>13. lost # {} => begun = 0 /\ NoInput(stdin')
    BY <1>2, NoInputFewer DEF QueuedInv, Losing
  <1>14. Grown(q, Pipe)
    BY <1>6, ExtendedGrown
  <1>15. \A s \in Sends : Due(s, stdin, Pipe, run, inputs) => Due(s, stdin', q, run, inputs)
    <2>1. \A i \in 1 .. Len(stdin) : IsInput(stdin[i]) => Due(stdin[i].token, stdin', q, run, inputs)
      BY <1>2 DEF Kept, Due
    <2>2. run.no # 0 => \A s \in inputs[run.no] : Due(s, stdin', q, run, inputs)
      BY DEF Due
    <2>3. \A i \in 1 .. Len(Pipe) : Ends(Pipe[i]) => inputs[Pipe[i].run] \subseteq inputs[Pipe[i].run]
      OBVIOUS
    <2> QED BY <2>1, <2>2, <2>3, <1>14, DueKept
  <1>16. Serves(Held(board), stdin, Pipe, run, inputs) => Serves(Held(board), stdin', q, run, inputs)
    BY <1>2, <1>5, <1>6, ServesKept, ServesMore
  <1>17. kind = "codex" => Owing(awaiting, stdin', q)
    <2>1. kind = "codex" => Owing(awaiting, stdin, Pipe)
      BY <1>1 DEF QueuedInv, Steered
    <2> QED BY <2>1, <1>2, <1>5, <1>6, OwingKept, OwingMore
  <1>18. Oldest(board.opener, Pipe, run, inputs) => Oldest(board.opener, q, run, inputs)
    BY <1>5, <1>6, OldestMore
  <1>19. Introduced(board.opener, Pipe, run, inputs) => Introduced(board.opener, q, run, inputs)
    BY <1>5, <1>6, <1>7, IntroducedMore
  <1>20. \A n \in Runs : inputs[n] \subseteq inputs'[n]
    BY <1>1
  <1>21. RefusedSent(q, sent)
    BY <1>5, <1>6, SentMore
  <1> QED BY <1>21, <1>1, <1>2, <1>6, <1>7, <1>8, <1>9, <1>10, <1>11, <1>12, <1>13, <1>15, <1>16, <1>17, <1>18,
             <1>19, <1>20, HarnessSteps DEF q

(* An input in the harness's pipe was written with the id known, and not   *)
(* by a flush that reached nobody.                                         *)
LEMMA InputWritten ==
  ASSUME QueuedInv, NEW i \in 1 .. Len(stdin), IsInput(stdin[i])
  PROVE  ~ (BuffersBeforeIdentity(kind) /\ ~identity) /\ lost = {}
  BY DEF QueuedInv, Unannounced, Losing, NoInput

LEMMA RunGoing ==
  ASSUME QueuedInv, run # Idle
  PROVE  /\ run.no \in Runs /\ run.no = begun /\ run.no # 0 /\ begun # 0
         /\ ~ (BuffersBeforeIdentity(kind) /\ ~identity) /\ lost = {}
  <1>1. run \in Going /\ begun \in 0 .. MaxSends
    BY Given
  <1>2. run.no \in {0, begun} /\ (run.no = 0 => run = Idle)
    BY DEF QueuedInv, Harness, Ran
  <1>3. run.no \in Runs /\ run.no = begun /\ begun # 0
    BY <1>1, <1>2 DEF Going
  <1> QED BY <1>2, <1>3 DEF QueuedInv, Unannounced, Losing

(* An input begins a run, which codex says. *)
LEMMA BeginStep ==
  ASSUME QueuedInv, Begin
  PROVE  QueuedInv'
  <1> DEFINE t == stdin[1].token
             q == PipeOf(kind, stdout')
             w == Word("command-accepted", t, begun + 1)
  <1>1. /\ stdin # <<>> /\ run = Idle /\ Head(stdin).what \in {"turn/start", "prompt", "user"}
        /\ begun' = begun + 1 /\ run' = [no |-> begun', said |-> FALSE]
        /\ inputs' = [inputs EXCEPT ![begun'] = {Head(stdin).token}] /\ stdin' = Tail(stdin)
        /\ HcnStill /\ ~Finalized
        /\ IF kind = "codex" THEN stdout' = Append(stdout, [AnswerTo(Head(stdin), TRUE) EXCEPT !.run = begun'])
           ELSE stdout' = stdout
    BY DEF Begin, Prints, Alive, Awake
  <1>2. /\ stdin' \in Seq(CommandsOf(kind)) /\ Kept(stdin', stdin, 1) /\ 1 \in 1 .. Len(stdin)
        /\ Head(stdin) = stdin[1] /\ IsInput(stdin[1]) /\ stdin[1] \in InputsOf(kind) /\ t \in Sends
    <2>1. stdin[1] = Head(stdin) /\ (~ IsInput(stdin[1]) => stdin[1] \in ProbesOf(kind))
      BY <1>1, HarnessReads
    <2>2. IsInput(stdin[1])
      BY <1>1, <2>1 DEF ProbesOf
    <2> QED BY <1>1, <2>2, HarnessReads
  <1>3. /\ Pipe \in Seq(Says) /\ stdin \in Seq(CommandsOf(kind)) /\ begun \in 0 .. MaxSends
        /\ inputs \in [Runs -> SUBSET Sends] /\ sent \in 0 .. MaxSends /\ kind \in Kinds
        /\ stdout \in Seq(Records)
    BY Given
  <1>4. /\ Ran(kind, sent, Idle, begun, inputs) /\ ToRead(stdin, sent, begun, inputs)
        /\ ToHear(kind, stdin, Pipe, Idle, begun, inputs)
    BY <1>1 DEF QueuedInv, Harness
  <1>5. run' = [no |-> begun + 1, said |-> FALSE] /\ inputs' = [inputs EXCEPT ![begun + 1] = {stdin[1].token}]
    BY <1>1, <1>2
  <1>6. /\ begun + 1 \in Runs /\ begun + 1 \in 0 .. MaxSends /\ inputs' \in [Runs -> SUBSET Sends]
        /\ run' \in Going
        /\ Ran(kind, sent, run', begun + 1, inputs') /\ ToRead(stdin', sent, begun + 1, inputs')
        /\ ToHear(kind, stdin', Pipe, run', begun + 1, inputs')
        /\ Earlier(Pipe, begun, inputs', inputs)
    <2>1. Opened(run', inputs', inputs, begun, stdin[1].token)
      BY <1>5 DEF Opened
    <2>2. stdin # <<>> /\ stdin' \in Seq(CommandsOf(kind)) /\ Kept(stdin', stdin, 1) /\ IsInput(stdin[1])
      BY <1>1, <1>2
    <2> QED BY <2>1, <2>2, <1>3, <1>4, RunBegins
  <1>7. /\ inputs'[begun + 1] = {t} /\ run'.no = begun + 1 /\ begun + 1 # 0
        /\ \A m \in Runs : m # begun + 1 => inputs'[m] = inputs[m]
    BY <1>3, <1>5, <1>6
  <1>8. \A m \in Runs : inputs[m] \subseteq inputs'[m]
    <2>1. inputs[begun + 1] = {}
      BY <1>3, <1>4, <1>6 DEF Ran
    <2> QED BY <2>1, <1>7
  <1>9. w \in Says /\ Accepts(w) /\ OfRun(w) /\ ~ Fails(w) /\ ~ Ends(w) /\ ~ Announces(w)
        /\ w.token = t /\ w.run = begun + 1
    <2>1. w \in Says
      BY <1>2, <1>6, WordTyped
    <2> QED BY <2>1 DEF Word, Accepts, OfRun, Fails, Ends, Announces
  <1> HIDE DEF w
  <1>10. IF kind = "codex" THEN stdout' \in Seq(Records) /\ q \in Seq(Says) /\ Extended(q, Pipe, w)
         ELSE stdout' \in Seq(Records) /\ q = Pipe
    <2>1. CASE kind = "codex"
      <3> DEFINE r == [AnswerTo(stdin[1], TRUE) EXCEPT !.run = begun + 1]
      <3>1. r \in Records /\ Said(kind, r) = w
        BY <1>2, <1>6, <2>1, InputAccepted DEF w
      <3>2. stdout' = Append(stdout, r)
        BY <1>1, <1>2, <2>1
      <3> HIDE DEF r
      <3> QED BY <3>1, <3>2, <1>9, <2>1, HarnessPrints
    <2>2. CASE kind # "codex"
      BY <1>1, <1>3, <2>2 DEF Pipe
    <2> QED BY <2>1, <2>2
  <1> HIDE DEF q
  <1>11. q \in Seq(Says) /\ stdout' \in Seq(Records) /\ Grown(q, Pipe)
    <2>1. Grown(Pipe, Pipe)
      BY DEF Grown
    <2> QED BY <1>3, <1>10, <2>1, ExtendedGrown
  <1>12. ~ (BuffersBeforeIdentity(kind) /\ ~identity) /\ lost = {}
    BY <1>2, InputWritten
  <1>13. Asked(kind, identity \/ failure, stdin', q)
    <2>1. Asked(kind, identity \/ failure, stdin', Pipe)
      BY <1>2, AskedFewer DEF QueuedInv, AskedOnce
    <2> QED BY <2>1, <1>9, <1>10, AskedMore
  <1>14. ToHear(kind, stdin', q, run', begun + 1, inputs')
    <2>1. CASE kind # "codex"
      BY <1>6, <1>10, <2>1
    <2>2. CASE kind = "codex"
      <3>1. Extended(q, Pipe, w)
        BY <1>10, <2>2
      <3>2. w.run \in 1 .. begun + 1
        BY <1>3, <1>9
      <3>3. ASSUME NEW i \in 1 .. Len(Pipe) PROVE Follows(Pipe[i], w)
        <4>1. OfRun(Pipe[i]) => Pipe[i].run \in 1 .. begun
          BY <1>6 DEF Earlier
        <4> QED BY <4>1, <1>3, <1>9 DEF Follows
      <3>4. ASSUME NEW i \in 1 .. Len(Pipe), Accepts(Pipe[i]) PROVE Pipe[i].token < w.token
        <4>1. Pipe[i].token \in inputs[Pipe[i].run] /\ Pipe[i].run \in Runs
          <5>1. Pipe[i].token \in inputs[Pipe[i].run] /\ OfRun(Pipe[i])
            BY <3>4, <1>4, KindsApart DEF ToHear, Receipts, Receipt
          <5>2. Pipe[i].run \in 1 .. begun
            BY <5>1, <1>6 DEF Earlier
          <5> QED BY <5>1, <5>2, <1>3, Sized DEF Runs
        <4>2. After(t, sent, begun, inputs)
          BY <1>2, <1>4 DEF ToRead
        <4> QED BY <4>1, <4>2, <1>9 DEF After
      <3>5. w.token \in inputs'[w.run] /\ w.run = run'.no
        BY <1>7, <1>9
      <3> QED BY <2>2, <3>1, <3>2, <3>3, <3>4, <3>5, <1>3, <1>6, <1>9, <1>11, HearMore
    <2> QED BY <2>1, <2>2
  <1>15. kind # "codex" =>
           /\ \A s \in Sends : Due(s, stdin, Pipe, run, inputs) => Due(s, stdin', q, run', inputs')
           /\ Serves(Held(board), stdin, Pipe, run, inputs) => Serves(Held(board), stdin', q, run', inputs')
    <2> SUFFICES ASSUME kind # "codex"
                 PROVE  /\ \A s \in Sends : Due(s, stdin, Pipe, run, inputs) => Due(s, stdin', q, run', inputs')
                        /\ Serves(Held(board), stdin, Pipe, run, inputs)
                             => Serves(Held(board), stdin', q, run', inputs')
      OBVIOUS
    <2>1. Due(t, stdin', q, run', inputs')
      BY <1>7 DEF Due
    <2>2. ASSUME NEW i \in 1 .. Len(stdin), IsInput(stdin[i]) PROVE Due(stdin[i].token, stdin', q, run', inputs')
      <3>1. CASE i = 1
        BY <2>1, <3>1
      <3>2. CASE i # 1
        BY <1>2, <2>2, <3>2 DEF Kept, Due
      <3> QED BY <3>1, <3>2
    <2>3. \A i \in 1 .. Len(Pipe) : Ends(Pipe[i]) => inputs[Pipe[i].run] \subseteq inputs'[Pipe[i].run]
      BY <1>6, KindsApart DEF Earlier
    <2>4. run.no = 0
      BY <1>1 DEF Idle
    <2>5. \A s \in Sends : Due(s, stdin, Pipe, run, inputs) => Due(s, stdin', q, run', inputs')
      BY <1>11, <2>2, <2>3, <2>4, DueKept
    <2>6. ASSUME Serves(Held(board), stdin, Pipe, run, inputs)
          PROVE  Serves(Held(board), stdin', q, run', inputs')
      <3>1. t \in Held(board)
        BY <1>2, <2>6 DEF Serves
      <3>2. \A i \in 1 .. Len(stdin') : IsInput(stdin'[i]) => stdin'[i].token \in Held(board)
        BY <1>2, <2>6 DEF Serves, Kept
      <3>3. \A i \in 1 .. Len(Pipe) : OfRun(Pipe[i]) => inputs'[Pipe[i].run] \subseteq Held(board)
        BY <1>6, <2>6 DEF Serves, Earlier
      <3> QED BY <3>1, <3>2, <3>3, <1>7, <1>10 DEF Serves
    <2> QED BY <2>5, <2>6
  <1>16. kind = "codex" => Owing(awaiting, stdin', q)
    <2> SUFFICES ASSUME kind = "codex" PROVE Owing(awaiting, stdin', q)
      OBVIOUS
    <2>1. Owing(awaiting, stdin, Pipe)
      BY <1>1 DEF QueuedInv, Steered
    <2>2. Owing(awaiting, stdin', Pipe) /\ t \in awaiting
      BY <2>1, <1>2, OwingKept
    <2> QED BY <2>2, <1>9, <1>10, OwingMore
  <1>17. kind = "codex" =>
           /\ Oldest(board.opener, Pipe, run, inputs) => Oldest(board.opener, q, run', inputs')
           /\ Introduced(board.opener, Pipe, run, inputs) => Introduced(board.opener, q, run', inputs')
    <2> SUFFICES ASSUME kind = "codex"
                 PROVE  /\ Oldest(board.opener, Pipe, run, inputs) => Oldest(board.opener, q, run', inputs')
                        /\ Introduced(board.opener, Pipe, run, inputs) => Introduced(board.opener, q, run', inputs')
      OBVIOUS
    <2>1. Extended(q, Pipe, w)
      BY <1>10
    <2>2. ASSUME Oldest(board.opener, Pipe, run, inputs) PROVE Oldest(board.opener, q, run', inputs')
      <3>1. PICK n \in Runs : /\ board.opener \in inputs[n]
                              /\ \A i \in 1 .. Len(Pipe) : OfRun(Pipe[i]) => Pipe[i].run >= n
                              /\ n = run.no \/ EndIn(Pipe, n)
        BY <2>2 DEF Oldest
      <3>2. n # run.no
        BY <1>1, Sized DEF Idle
      <3>3. EndIn(q, n)
        BY <3>1, <3>2, <1>11, EndInMore
      <3>4. n <= begun
        BY <3>1, <1>3, <1>4, Sized DEF Ran
      <3>5. \A i \in 1 .. Len(q) : OfRun(q[i]) => q[i].run >= n
        BY <3>1, <3>4, <2>1, <1>3, <1>9, Sized DEF Extended
      <3> QED BY <3>1, <3>3, <3>5, <1>8 DEF Oldest
    <2>3. ASSUME Introduced(board.opener, Pipe, run, inputs) PROVE Introduced(board.opener, q, run', inputs')
      <3>1. Introduced(board.opener, Pipe, Idle, inputs')
        BY <2>3, <1>6 DEF Earlier, Introduced, Covers, Idle
      <3>2. Introduced(board.opener, q, Idle, inputs')
        BY <3>1, <2>1, <1>3, <1>9, <1>11, IntroducedMore
      <3>3. AnsweredBy(Len(q), q, run'.no)
        <4>1. q[Len(q)] = w /\ Len(q) \in 1 .. Len(q)
          BY <2>1 DEF Extended
        <4> QED BY <4>1, <1>7, <1>9 DEF AnsweredBy
      <3> QED BY <3>2, <3>3 DEF Introduced
    <2> QED BY <2>2, <2>3
  <1>18. RefusedSent(q, sent)
    <2>1. RefusedSent(Pipe, sent)
      BY DEF QueuedInv, Harness
    <2> QED BY <2>1, <1>9, <1>10, SentMore
  <1> QED BY <1>18, <1>1, <1>2, <1>6, <1>8, <1>11, <1>12, <1>13, <1>14, <1>15, <1>16, <1>17, HarnessSteps DEF q


(* codex takes an input into the run that goes on, and says so. *)
LEMMA JoinStep ==
  ASSUME QueuedInv, Join
  PROVE  QueuedInv'
  <1> DEFINE t == stdin[1].token
             q == PipeOf(kind, stdout')
             w == Word("command-accepted", t, run.no)
  <1>1. /\ kind = "codex" /\ stdin # <<>> /\ run # Idle /\ Head(stdin).what \in {"turn/start", "turn/steer"}
        /\ inputs' = [inputs EXCEPT ![run.no] = @ \cup {Head(stdin).token}] /\ stdin' = Tail(stdin)
        /\ stdout' = Append(stdout, [AnswerTo(Head(stdin), TRUE) EXCEPT !.run = run.no])
        /\ HcnStill /\ ~Finalized /\ run' = run /\ begun' = begun
    BY DEF Join, Prints, Alive, Awake
  <1>2. /\ stdin' \in Seq(CommandsOf(kind)) /\ Kept(stdin', stdin, 1) /\ 1 \in 1 .. Len(stdin)
        /\ Head(stdin) = stdin[1] /\ IsInput(stdin[1]) /\ stdin[1] \in InputsOf(kind) /\ t \in Sends
    <2>1. stdin[1] = Head(stdin) /\ (~ IsInput(stdin[1]) => stdin[1] \in ProbesOf(kind))
      BY <1>1, HarnessReads
    <2>2. IsInput(stdin[1])
      BY <1>1, <2>1 DEF ProbesOf
    <2> QED BY <1>1, <2>2, HarnessReads
  <1>3. /\ Pipe \in Seq(Says) /\ stdin \in Seq(CommandsOf(kind)) /\ begun \in 0 .. MaxSends
        /\ inputs \in [Runs -> SUBSET Sends] /\ sent \in 0 .. MaxSends /\ kind \in Kinds
        /\ stdout \in Seq(Records) /\ run \in Going
    BY Given
  <1>4. /\ Ran("codex", sent, run, begun, inputs) /\ ToRead(stdin, sent, begun, inputs)
        /\ ToHear("codex", stdin, Pipe, run, begun, inputs)
    BY <1>1 DEF QueuedInv, Harness
  <1>5. /\ run.no \in Runs /\ run.no = begun /\ run.no # 0
        /\ ~ (BuffersBeforeIdentity(kind) /\ ~identity) /\ lost = {}
    BY <1>1, RunGoing
  <1>6. /\ inputs' \in [Runs -> SUBSET Sends]
        /\ Ran("codex", sent, run, begun, inputs') /\ ToRead(stdin', sent, begun, inputs')
        /\ ToHear("codex", stdin', Pipe, run, begun, inputs')
        /\ Wider(inputs', inputs)
    <2>1. /\ stdin # <<>> /\ stdin' \in Seq(CommandsOf("codex")) /\ Kept(stdin', stdin, 1) /\ IsInput(stdin[1])
          /\ stdin \in Seq(CommandsOf("codex"))
      BY <1>1, <1>2, <1>3
    <2>2. Taken(inputs', inputs, run, stdin[1].token)
      BY <1>1, <1>2 DEF Taken
    <2> QED BY <2>1, <2>2, <1>3, <1>4, <1>5, RunJoined
  <1>7. t \in inputs'[run.no]
    BY <1>1, <1>2, <1>3, <1>5
  <1>8. w \in Says /\ Accepts(w) /\ OfRun(w) /\ ~ Fails(w) /\ ~ Ends(w) /\ ~ Announces(w)
        /\ w.token = t /\ w.run = run.no
    <2>1. w \in Says
      BY <1>2, <1>5, WordTyped
    <2> QED BY <2>1 DEF Word, Accepts, OfRun, Fails, Ends, Announces
  <1>9. stdout' \in Seq(Records) /\ q \in Seq(Says) /\ Extended(q, Pipe, w)
    <2> DEFINE r == [AnswerTo(stdin[1], TRUE) EXCEPT !.run = run.no]
    <2>1. r \in Records /\ Said(kind, r) = w
      BY <1>1, <1>2, <1>5, InputAccepted
    <2>2. stdout' = Append(stdout, r)
      BY <1>1, <1>2
    <2> HIDE DEF r, w
    <2> QED BY <2>1, <2>2, <1>8, HarnessPrints
  <1> HIDE DEF w, q
  <1>10. Asked(kind, identity \/ failure, stdin', q)
    <2>1. Asked(kind, identity \/ failure, stdin', Pipe)
      BY <1>2, AskedFewer DEF QueuedInv, AskedOnce
    <2> QED BY <2>1, <1>8, <1>9, AskedMore
  <1>11. ToHear("codex", stdin', q, run, begun, inputs')
    <2>1. w.run \in 1 .. begun
      BY <1>3, <1>5, <1>8 DEF Runs
    <2>2. ASSUME NEW i \in 1 .. Len(Pipe) PROVE Follows(Pipe[i], w)
      <3>1. OfRun(Pipe[i]) => Pipe[i].run \in 1 .. begun
        BY <1>4 DEF ToHear, RunsKnown
      <3>2. Ends(Pipe[i]) => Pipe[i].run # run.no
        BY <1>4 DEF ToHear, Ended
      <3> QED BY <3>1, <3>2, <1>3, <1>5, <1>8 DEF Follows
    <2>3. ASSUME NEW i \in 1 .. Len(Pipe), Accepts(Pipe[i]) PROVE Pipe[i].token < w.token
      <3>1. Pipe[i].token \in inputs[Pipe[i].run] /\ OfRun(Pipe[i])
        BY <2>3, <1>4, KindsApart DEF ToHear, Receipts, Receipt
      <3>2. Pipe[i].run \in 1 .. begun
        BY <3>1, <1>4 DEF ToHear, RunsKnown
      <3>3. Pipe[i].run \in Runs
        BY <3>2, <1>3, Sized DEF Runs
      <3>4. After(t, sent, begun, inputs)
        BY <1>2, <1>4 DEF ToRead
      <3> QED BY <3>1, <3>3, <3>4, <1>8 DEF After
    <2>4. w.token \in inputs'[w.run] /\ w.run = run.no
      BY <1>7, <1>8
    <2> QED BY <2>1, <2>2, <2>3, <2>4, <1>3, <1>6, <1>8, <1>9, HearMore
  <1>12. Owing(awaiting, stdin', q)
    <2>1. Owing(awaiting, stdin, Pipe)
      BY <1>1 DEF QueuedInv, Steered
    <2>2. Owing(awaiting, stdin', Pipe) /\ t \in awaiting
      BY <2>1, <1>2, OwingKept
    <2> QED BY <2>2, <1>8, <1>9, OwingMore
  <1>13. ASSUME Oldest(board.opener, Pipe, run, inputs) PROVE Oldest(board.opener, q, run, inputs')
    <2>1. PICK n \in Runs : /\ board.opener \in inputs[n]
                            /\ \A i \in 1 .. Len(Pipe) : OfRun(Pipe[i]) => Pipe[i].run >= n
                            /\ n = run.no \/ EndIn(Pipe, n)
      BY <1>13 DEF Oldest
    <2>2. n = run.no \/ EndIn(q, n)
      <3>1. Grown(q, Pipe)
        BY <1>9, ExtendedGrown
      <3> QED BY <2>1, <3>1, EndInMore
    <2>3. n <= run.no
      BY <2>1, <1>3, <1>4, <1>5, Sized DEF Ran
    <2>4. \A i \in 1 .. Len(q) : OfRun(q[i]) => q[i].run >= n
      BY <2>1, <2>3, <1>3, <1>8, <1>9, Sized DEF Extended
    <2>5. board.opener \in inputs'[n]
      BY <2>1, <1>6 DEF Wider
    <2> QED BY <2>2, <2>4, <2>5 DEF Oldest
  <1>14. ASSUME Introduced(board.opener, Pipe, run, inputs) PROVE Introduced(board.opener, q, run, inputs')
    <2>1. Introduced(board.opener, Pipe, run, inputs')
      <3>1. \A n \in Runs : Covers(board.opener, n, inputs) => Covers(board.opener, n, inputs')
        BY <1>6 DEF Covers, Wider
      <3>2. \A i \in 1 .. Len(Pipe) : OfRun(Pipe[i]) => Pipe[i].run \in Runs
        <4>1. \A i \in 1 .. Len(Pipe) : OfRun(Pipe[i]) => Pipe[i].run \in 1 .. begun
          BY <1>4 DEF ToHear, RunsKnown
        <4> QED BY <4>1, <1>3, Sized DEF Runs
      <3> QED BY <3>1, <3>2, <1>5, <1>14 DEF Introduced
    <2> QED BY <2>1, <1>3, <1>8, <1>9, IntroducedMore
  <1>15. RefusedSent(q, sent)
    BY <1>8, <1>9, SentMore
  <1> QED BY <1>15, <1>1, <1>2, <1>3, <1>5, <1>6, <1>9, <1>10, <1>11, <1>12, <1>13, <1>14, HarnessSteps DEF q, Wider

(* What the invariant says of the run going on is said by its number. *)
LEMMA RunAlike ==
  ASSUME NEW r, NEW e, e.no = r.no, NEW k, NEW c, NEW p, NEW b, NEW ins, NEW o
  PROVE  /\ ToHear(k, c, p, r, b, ins) => ToHear(k, c, p, e, b, ins)
         /\ \A s : Due(s, c, p, r, ins) => Due(s, c, p, e, ins)
         /\ \A H : Serves(H, c, p, r, ins) => Serves(H, c, p, e, ins)
         /\ Oldest(o, p, r, ins) => Oldest(o, p, e, ins)
         /\ Introduced(o, p, r, ins) => Introduced(o, p, e, ins)
  <1>1. ToHear(k, c, p, r, b, ins) => ToHear(k, c, p, e, b, ins)
    <2>1. Ended(p, r) => Ended(p, e)
      BY DEF Ended
    <2>2. Receipts(k, p, r, ins) => Receipts(k, p, e, ins)
      BY DEF Receipts, Receipt
    <2> QED BY <2>1, <2>2 DEF ToHear
  <1>2. \A s : Due(s, c, p, r, ins) => Due(s, c, p, e, ins)
    BY DEF Due
  <1>3. \A H : Serves(H, c, p, r, ins) => Serves(H, c, p, e, ins)
    BY DEF Serves
  <1>4. Oldest(o, p, r, ins) => Oldest(o, p, e, ins)
    BY DEF Oldest
  <1>5. Introduced(o, p, r, ins) => Introduced(o, p, e, ins)
    BY DEF Introduced
  <1> QED BY <1>1, <1>2, <1>3, <1>4, <1>5

(* The run going on shows output. *)
LEMMA ShowStep ==
  ASSUME QueuedInv, Show
  PROVE  QueuedInv'
  <1> DEFINE q == PipeOf(kind, stdout')
             w == Word("content", 0, run.no)
  <1>1. /\ run # Idle /\ run' = [run EXCEPT !.said = TRUE]
        /\ stdout' = Append(stdout, [Record("notification", "message") EXCEPT !.run = run.no])
        /\ HcnStill /\ ~Finalized /\ stdin' = stdin /\ begun' = begun /\ inputs' = inputs
    BY DEF Show, Prints, Alive, Awake
  <1>2. /\ Pipe \in Seq(Says) /\ stdin \in Seq(CommandsOf(kind)) /\ begun \in 0 .. MaxSends
        /\ inputs \in [Runs -> SUBSET Sends] /\ sent \in 0 .. MaxSends /\ kind \in Kinds
        /\ stdout \in Seq(Records) /\ run \in Going
    BY Given
  <1>3. /\ run.no \in Runs /\ run.no = begun /\ run.no # 0
        /\ ~ (BuffersBeforeIdentity(kind) /\ ~identity) /\ lost = {}
    BY <1>1, RunGoing
  <1>4. run' \in Going /\ run'.no = run.no
    BY <1>1, <1>2 DEF Going
  <1>5. w \in Says /\ OfRun(w) /\ ~ Accepts(w) /\ ~ Fails(w) /\ ~ Ends(w) /\ ~ Announces(w) /\ w.run = run.no
    <2>1. w \in Says
      BY <1>3, WordTyped
    <2> QED BY <2>1 DEF Word, Accepts, OfRun, Fails, Ends, Announces
  <1>6. stdout' \in Seq(Records) /\ q \in Seq(Says) /\ Extended(q, Pipe, w)
    <2> DEFINE r == [Record("notification", "message") EXCEPT !.run = run.no]
    <2>1. r \in Records /\ Said(kind, r) = w
      BY <1>2, <1>3, OutputShown DEF Kinds
    <2>2. stdout' = Append(stdout, r)
      BY <1>1
    <2> HIDE DEF r, w
    <2> QED BY <2>1, <2>2, <1>5, HarnessPrints
  <1> HIDE DEF w, q
  <1>7. Asked(kind, identity \/ failure, stdin, q)
    <2>1. Asked(kind, identity \/ failure, stdin, Pipe)
      BY DEF QueuedInv, AskedOnce
    <2> QED BY <2>1, <1>5, <1>6, AskedMore
  <1>8. /\ Ran(kind, sent, run, begun, inputs) /\ ToRead(stdin, sent, begun, inputs)
        /\ ToHear(kind, stdin, Pipe, run, begun, inputs)
    BY DEF QueuedInv, Harness
  <1>9. Ran(kind, sent, run', begun, inputs)
    BY <1>3, <1>4, <1>8 DEF Ran
  <1>10. ToHear(kind, stdin, q, run', begun, inputs)
    <2>1. ToHear(kind, stdin, Pipe, run', begun, inputs)
      BY <1>4, <1>8, RunAlike
    <2>2. w.run \in 1 .. begun
      BY <1>2, <1>3, <1>5 DEF Runs
    <2>3. ASSUME NEW i \in 1 .. Len(Pipe) PROVE Follows(Pipe[i], w) /\ Behind(Pipe[i], w, inputs)
      <3>1. OfRun(Pipe[i]) => Pipe[i].run \in 1 .. begun
        BY <1>8 DEF ToHear, RunsKnown
      <3>2. Ends(Pipe[i]) => Pipe[i].run # run.no
        BY <1>8 DEF ToHear, Ended
      <3> QED BY <3>1, <3>2, <1>2, <1>3, <1>5 DEF Follows, Behind
    <2> QED BY <2>1, <2>2, <2>3, <1>2, <1>5, <1>6, HearMore
  <1>11. Grown(q, Pipe)
    BY <1>6, ExtendedGrown
  <1>12. kind # "codex" =>
           /\ \A s \in Sends : Due(s, stdin, Pipe, run, inputs) => Due(s, stdin, q, run', inputs)
           /\ Serves(Held(board), stdin, Pipe, run, inputs) => Serves(Held(board), stdin, q, run', inputs)
    <2>1. \A i \in 1 .. Len(stdin) : IsInput(stdin[i]) => Due(stdin[i].token, stdin, q, run', inputs)
      BY DEF Due
    <2>2. run.no # 0 => \A s \in inputs[run.no] : Due(s, stdin, q, run', inputs)
      BY <1>4 DEF Due
    <2>3. \A i \in 1 .. Len(Pipe) : Ends(Pipe[i]) => inputs[Pipe[i].run] \subseteq inputs[Pipe[i].run]
      OBVIOUS
    <2>4. \A s \in Sends : Due(s, stdin, Pipe, run, inputs) => Due(s, stdin, q, run', inputs)
      BY <2>1, <2>2, <2>3, <1>11, DueKept
    <2>5. ASSUME Serves(Held(board), stdin, Pipe, run, inputs)
          PROVE  Serves(Held(board), stdin, q, run', inputs)
      <3>1. inputs[w.run] \subseteq Held(board)
        BY <2>5, <1>3, <1>5 DEF Serves
      <3>2. Serves(Held(board), stdin, q, run, inputs)
        BY <2>5, <3>1, <1>6, ServesMore
      <3> QED BY <3>2, <1>4, RunAlike
    <2> QED BY <2>4, <2>5
  <1>13. kind = "codex" => Owing(awaiting, stdin, q)
    BY <1>1, <1>5, <1>6, OwingMore DEF QueuedInv, Steered
  <1>14. ASSUME Oldest(board.opener, Pipe, run, inputs) PROVE Oldest(board.opener, q, run', inputs)
    <2>1. \A n \in Runs : board.opener \in inputs[n] => n <= run.no
      BY <1>2, <1>3, <1>8, Sized DEF Ran
    <2>2. Oldest(board.opener, q, run, inputs)
      BY <2>1, <1>14, <1>5, <1>6, Sized, OldestMore
    <2> QED BY <2>2, <1>4, RunAlike
  <1>15. ASSUME Introduced(board.opener, Pipe, run, inputs) PROVE Introduced(board.opener, q, run', inputs)
    <2>1. Covers(board.opener, w.run, inputs) \/ AnsweredBy(Len(Pipe), Pipe, w.run)
      BY <1>15, <1>3, <1>5 DEF Introduced
    <2>2. Introduced(board.opener, q, run, inputs)
      BY <2>1, <1>15, <1>2, <1>5, <1>6, IntroducedMore
    <2> QED BY <2>2, <1>4, RunAlike
  <1>16. RefusedSent(q, sent)
    BY <1>5, <1>6, SentMore
  <1> QED BY <1>16, <1>1, <1>2, <1>3, <1>4, <1>6, <1>7, <1>8, <1>9, <1>10, <1>12, <1>13, <1>14, <1>15, HarnessSteps DEF q

(* The run going on ends, and says so. *)
LEMMA EndStep ==
  ASSUME QueuedInv, NEW failed \in BOOLEAN, End(failed)
  PROVE  QueuedInv'
  <1> DEFINE q == PipeOf(kind, stdout')
             w == Word("turn-end", 0, run.no)
  <1>1. /\ run # Idle /\ run' = Idle /\ stdout' = Append(stdout, [EndOf(kind, failed) EXCEPT !.run = run.no])
        /\ HcnStill /\ ~Finalized /\ stdin' = stdin /\ begun' = begun /\ inputs' = inputs
    BY DEF End, Prints, Alive, Awake
  <1>2. /\ Pipe \in Seq(Says) /\ stdin \in Seq(CommandsOf(kind)) /\ begun \in 0 .. MaxSends
        /\ inputs \in [Runs -> SUBSET Sends] /\ sent \in 0 .. MaxSends /\ kind \in Kinds
        /\ stdout \in Seq(Records) /\ run \in Going
    BY Given
  <1>3. /\ run.no \in Runs /\ run.no = begun /\ run.no # 0
        /\ ~ (BuffersBeforeIdentity(kind) /\ ~identity) /\ lost = {}
    BY <1>1, RunGoing
  <1>4. Idle \in Going /\ Idle.no = 0
    BY DEF Going, Idle
  <1>5. w \in Says /\ OfRun(w) /\ ~ Accepts(w) /\ ~ Fails(w) /\ Ends(w) /\ ~ Announces(w) /\ w.run = run.no
    <2>1. w \in Says
      BY <1>3, WordTyped
    <2> QED BY <2>1 DEF Word, Accepts, OfRun, Fails, Ends, Announces
  <1>6. stdout' \in Seq(Records) /\ q \in Seq(Says) /\ Extended(q, Pipe, w)
    <2> DEFINE r == [EndOf(kind, failed) EXCEPT !.run = run.no]
    <2>1. r \in Records /\ Said(kind, r) = w
      BY <1>2, <1>3, RunEnded DEF Kinds
    <2>2. stdout' = Append(stdout, r)
      BY <1>1
    <2> HIDE DEF r, w
    <2> QED BY <2>1, <2>2, <1>5, HarnessPrints
  <1> HIDE DEF w, q
  <1>7. Asked(kind, identity \/ failure, stdin, q)
    <2>1. Asked(kind, identity \/ failure, stdin, Pipe)
      BY DEF QueuedInv, AskedOnce
    <2> QED BY <2>1, <1>5, <1>6, AskedMore
  <1>8. /\ Ran(kind, sent, run, begun, inputs) /\ ToRead(stdin, sent, begun, inputs)
        /\ ToHear(kind, stdin, Pipe, run, begun, inputs)
    BY DEF QueuedInv, Harness
  <1>9. Ran(kind, sent, Idle, begun, inputs) /\ ToHear(kind, stdin, q, Idle, begun, inputs)
    BY <1>2, <1>3, <1>5, <1>6, <1>8, RunEnds
  <1>10. Grown(q, Pipe) /\ Len(q) \in 1 .. Len(q) /\ q[Len(q)] = w
    <2>1. Len(q) \in 1 .. Len(q) /\ q[Len(q)] = w
      BY <1>6 DEF Extended
    <2> QED BY <2>1, <1>6, ExtendedGrown
  <1>11. kind # "codex" =>
           /\ \A s \in Sends : Due(s, stdin, Pipe, run, inputs) => Due(s, stdin, q, Idle, inputs)
           /\ Serves(Held(board), stdin, Pipe, run, inputs) => Serves(Held(board), stdin, q, Idle, inputs)
    <2>1. \A i \in 1 .. Len(stdin) : IsInput(stdin[i]) => Due(stdin[i].token, stdin, q, Idle, inputs)
      BY DEF Due
    <2>2. run.no # 0 => \A s \in inputs[run.no] : Due(s, stdin, q, Idle, inputs)
      BY <1>5, <1>10 DEF Due
    <2>3. \A i \in 1 .. Len(Pipe) : Ends(Pipe[i]) => inputs[Pipe[i].run] \subseteq inputs[Pipe[i].run]
      OBVIOUS
    <2>4. \A s \in Sends : Due(s, stdin, Pipe, run, inputs) => Due(s, stdin, q, Idle, inputs)
      BY <2>1, <2>2, <2>3, <1>10, DueKept
    <2>5. ASSUME Serves(Held(board), stdin, Pipe, run, inputs)
          PROVE  Serves(Held(board), stdin, q, Idle, inputs)
      <3>1. inputs[w.run] \subseteq Held(board)
        BY <2>5, <1>3, <1>5 DEF Serves
      <3>2. Serves(Held(board), stdin, q, run, inputs)
        BY <2>5, <3>1, <1>6, ServesMore
      <3> QED BY <3>2, <1>4 DEF Serves
    <2> QED BY <2>4, <2>5
  <1>12. kind = "codex" => Owing(awaiting, stdin, q)
    BY <1>1, <1>5, <1>6, OwingMore DEF QueuedInv, Steered
  <1>13. ASSUME Oldest(board.opener, Pipe, run, inputs) PROVE Oldest(board.opener, q, Idle, inputs)
    <2>1. \A n \in Runs : board.opener \in inputs[n] => n <= run.no
      BY <1>2, <1>3, <1>8, Sized DEF Ran
    <2>2. Oldest(board.opener, q, run, inputs)
      BY <2>1, <1>13, <1>5, <1>6, Sized, OldestMore
    <2>3. EndIn(q, run.no)
      BY <1>5, <1>10 DEF EndIn
    <2> QED BY <2>2, <2>3 DEF Oldest
  <1>14. ASSUME Introduced(board.opener, Pipe, run, inputs) PROVE Introduced(board.opener, q, Idle, inputs)
    <2>1. Covers(board.opener, w.run, inputs) \/ AnsweredBy(Len(Pipe), Pipe, w.run)
      BY <1>14, <1>3, <1>5 DEF Introduced
    <2>2. Introduced(board.opener, q, run, inputs)
      BY <2>1, <1>14, <1>2, <1>5, <1>6, IntroducedMore
    <2> QED BY <2>2, <1>4 DEF Introduced
  <1>15. RefusedSent(q, sent)
    BY <1>5, <1>6, SentMore
  <1> QED BY <1>15, <1>1, <1>2, <1>3, <1>4, <1>6, <1>7, <1>8, <1>9, <1>11, <1>12, <1>13, <1>14, HarnessSteps DEF q

(* codex and popeye refuse an input. *)
LEMMA RefuseStep ==
  ASSUME QueuedInv, NEW i \in 1 .. Len(stdin), Refuse(i)
  PROVE  QueuedInv'
  <1> DEFINE t == stdin[i].token
             q == PipeOf(kind, stdout')
             w == Word("command-failed", t, 0)
  <1>1. /\ stdin[i].mark = "send" /\ stdin' = RemoveAt(stdin, i)
        /\ stdout' = Append(stdout, AnswerTo(stdin[i], FALSE))
        /\ HcnStill /\ ~Finalized /\ run' = run /\ begun' = begun /\ inputs' = inputs
    BY DEF Refuse, Prints, NativeStill, native, Alive, Awake
  <1>2. /\ Pipe \in Seq(Says) /\ stdin \in Seq(CommandsOf(kind)) /\ begun \in 0 .. MaxSends
        /\ inputs \in [Runs -> SUBSET Sends] /\ sent \in 0 .. MaxSends /\ kind \in Kinds
        /\ stdout \in Seq(Records) /\ run \in Going
    BY Given
  <1>3. stdin' \in Seq(CommandsOf(kind)) /\ Kept(stdin', stdin, i)
    BY <1>1, <1>2, RemoveCuts
  <1>4. IsInput(stdin[i]) /\ stdin[i] \in InputsOf(kind) /\ t \in Sends /\ kind \in {"codex", "popeye"}
    <2>1. IsInput(stdin[i])
      BY <1>1 DEF IsInput
    <2>2. stdin[i] \in InputsOf(kind) /\ t \in Sends
      BY <2>1, <1>2, InputToken
    <2> QED BY <1>1, <1>2, <2>1, <2>2 DEF InputsOf, Kinds
  <1>5. ~ (BuffersBeforeIdentity(kind) /\ ~identity) /\ lost = {}
    BY <1>4, InputWritten
  <1>6. w \in Says /\ ~ OfRun(w) /\ ~ Accepts(w) /\ Fails(w) /\ ~ Ends(w) /\ ~ Announces(w) /\ w.token = t
    <2>1. w \in Says
      BY <1>4, WordTyped
    <2>2. t # 0
      BY <1>4, Sized
    <2> QED BY <2>1, <2>2 DEF Word, Accepts, OfRun, Fails, Ends, Announces
  <1>7. stdout' \in Seq(Records) /\ q \in Seq(Says) /\ Extended(q, Pipe, w)
    <2> DEFINE r == AnswerTo(stdin[i], FALSE)
    <2>1. r \in Records /\ Said(kind, r) = w
      BY <1>4, InputRefused
    <2>2. stdout' = Append(stdout, r)
      BY <1>1
    <2> HIDE DEF r, w
    <2> QED BY <2>1, <2>2, <1>6, HarnessPrints
  <1> HIDE DEF w, q
  <1>8. Asked(kind, identity \/ failure, stdin', q)
    <2>1. Asked(kind, identity \/ failure, stdin', Pipe)
      BY <1>3, AskedFewer DEF QueuedInv, AskedOnce
    <2> QED BY <2>1, <1>6, <1>7, AskedMore
  <1>9. /\ Ran(kind, sent, run, begun, inputs) /\ ToRead(stdin, sent, begun, inputs)
        /\ ToHear(kind, stdin, Pipe, run, begun, inputs)
    BY DEF QueuedInv, Harness
  <1>10. ToRead(stdin', sent, begun, inputs)
    BY <1>2, <1>3, <1>9, ReadFewer
  <1>11. After(t, sent, begun, inputs)
    BY <1>4, <1>9 DEF ToRead
  <1>12. ToHear(kind, stdin', q, run, begun, inputs)
    <2>1. ToHear(kind, stdin', Pipe, run, begun, inputs)
      BY <1>3, <1>9, RefusesFewer DEF ToHear
    <2>2. Refuses(t, stdin', inputs)
      <3>1. \A m \in Runs : t \notin inputs[m]
        BY <1>4, <1>11, Sized DEF After
      <3>2. \A j \in 1 .. Len(stdin') : IsInput(stdin'[j]) => stdin'[j].token # t
        BY <1>2, <1>3, <1>4, <1>9, TokensApart
      <3> QED BY <3>1, <3>2 DEF Refuses
    <2>3. ASSUME NEW j \in 1 .. Len(Pipe) PROVE Behind(Pipe[j], w, inputs)
      <3>1. OfRun(Pipe[j]) => Pipe[j].run \in Runs
        <4>1. OfRun(Pipe[j]) => Pipe[j].run \in 1 .. begun
          BY <1>9 DEF ToHear, RunsKnown
        <4> QED BY <4>1, <1>2, Sized DEF Runs
      <3> QED BY <3>1, <1>6, <1>11 DEF Behind, After
    <2> QED BY <2>1, <2>2, <2>3, <1>2, <1>6, <1>7, HearMore
  <1>13. Grown(q, Pipe) /\ Len(q) \in 1 .. Len(q) /\ q[Len(q)] = w
    <2>1. Len(q) \in 1 .. Len(q) /\ q[Len(q)] = w
      BY <1>7 DEF Extended
    <2> QED BY <2>1, <1>7, ExtendedGrown
  <1>14. kind # "codex" =>
           /\ \A s \in Sends : Due(s, stdin, Pipe, run, inputs) => Due(s, stdin', q, run, inputs)
           /\ Serves(Held(board), stdin, Pipe, run, inputs) => Serves(Held(board), stdin', q, run, inputs)
    <2>1. ASSUME NEW j \in 1 .. Len(stdin), IsInput(stdin[j]) PROVE Due(stdin[j].token, stdin', q, run, inputs)
      <3>1. CASE j = i
        BY <3>1, <1>6, <1>13 DEF Due
      <3>2. CASE j # i
        BY <2>1, <3>2, <1>3 DEF Kept, Due
      <3> QED BY <3>1, <3>2
    <2>2. run.no # 0 => \A s \in inputs[run.no] : Due(s, stdin', q, run, inputs)
      BY DEF Due
    <2>3. \A j \in 1 .. Len(Pipe) : Ends(Pipe[j]) => inputs[Pipe[j].run] \subseteq inputs[Pipe[j].run]
      OBVIOUS
    <2>4. \A s \in Sends : Due(s, stdin, Pipe, run, inputs) => Due(s, stdin', q, run, inputs)
      BY <2>1, <2>2, <2>3, <1>13, DueKept
    <2>5. Serves(Held(board), stdin, Pipe, run, inputs) => Serves(Held(board), stdin', q, run, inputs)
      BY <1>3, <1>6, <1>7, ServesKept, ServesMore
    <2> QED BY <2>4, <2>5
  <1>15. kind = "codex" => Owing(awaiting, stdin', q)
    <2>1. kind = "codex" => Owing(awaiting, stdin, Pipe)
      BY <1>1 DEF QueuedInv, Steered
    <2> QED BY <2>1, <1>3, <1>6, <1>7, OwingKept, OwingMore
  <1>16. Oldest(board.opener, Pipe, run, inputs) => Oldest(board.opener, q, run, inputs)
    BY <1>6, <1>7, OldestMore
  <1>17. Introduced(board.opener, Pipe, run, inputs) => Introduced(board.opener, q, run, inputs)
    BY <1>2, <1>6, <1>7, IntroducedMore
  <1>18. \A n \in Runs : inputs[n] \subseteq inputs'[n]
    BY <1>1
  <1>19. RefusedSent(q, sent)
    BY <1>6, <1>7, <1>11, SentMore DEF After
  <1> QED BY <1>19, <1>1, <1>2, <1>3, <1>5, <1>7, <1>8, <1>9, <1>10, <1>12, <1>14, <1>15, <1>16, <1>17, <1>18,
             HarnessSteps DEF q

-----------------------------------------------------------------------------
(* The timers, the pipe and the process *)

(* Boards with the same turns. *)
Alike(c, b) ==
  /\ c \in Board /\ c.turn = b.turn /\ c.opener = b.opener /\ c.accepted = b.accepted
  /\ c.pending = b.pending /\ c.turns = b.turns /\ c.parked = b.parked

LEMMA BoardTyped ==
  ASSUME NEW b \in Board
  PROVE  /\ b.turn \in Nat /\ b.opener \in Sends \cup {0} /\ b.accepted \in BOOLEAN /\ b.steer \in Runs \cup {0}
         /\ b.pending \in Seq(Sends) /\ b.turns \in Seq(PublicTurn) /\ b.watched \in BOOLEAN
         /\ b.parked \in [runs : SUBSET Runs, failed : BOOLEAN]
         /\ b.parked.runs \subseteq Runs /\ b.parked.failed \in BOOLEAN
         /\ Len(b.turns) \in Nat /\ Len(b.pending) \in Nat
         /\ \A i \in 1 .. Len(b.turns) : b.turns[i] \in PublicTurn /\ b.turns[i].opener \in Sends
                                         /\ b.turns[i].runs \subseteq Runs
         /\ \A i \in 1 .. Len(b.pending) : b.pending[i] \in Sends
  <1>1. /\ b.turn \in Nat /\ b.opener \in Sends \cup {0} /\ b.accepted \in BOOLEAN /\ b.steer \in Runs \cup {0}
        /\ b.pending \in Seq(Sends) /\ b.turns \in Seq(PublicTurn) /\ b.watched \in BOOLEAN
        /\ b.parked \in [runs : SUBSET Runs, failed : BOOLEAN]
    BY DEF Board
  <1>2. \A i \in 1 .. Len(b.turns) : b.turns[i] \in PublicTurn /\ b.turns[i].opener \in Sends
                                     /\ b.turns[i].runs \subseteq Runs
    <2>1. \A i \in 1 .. Len(b.turns) : b.turns[i] \in PublicTurn
      BY <1>1
    <2> QED BY <2>1 DEF PublicTurn
  <1>3. Len(b.turns) \in Nat /\ Len(b.pending) \in Nat /\ \A i \in 1 .. Len(b.pending) : b.pending[i] \in Sends
    BY <1>1
  <1>4. b.parked.runs \subseteq Runs /\ b.parked.failed \in BOOLEAN
    BY <1>1
  <1> QED BY <1>1, <1>2, <1>3, <1>4

(* A step that leaves the turns, the inputs and the pipes alone. *)
LEMMA LifeSteps ==
  ASSUME QueuedInv, UNCHANGED <<sends, failure, stdin, stdout, native, history, cause>>,
         Alike(board', board), closing => closing', Dead => Dead', stalled' = stalled,
         eof' \/ closer' # "none" => closing', closing' \in BOOLEAN, eof' \in BOOLEAN,
         closer' \in {"none", "draining", "woken", "ended"}, signal' \in {"none", "term", "kill"},
         exit' \in {"none", "zero", "nonzero", "signal"}
  PROVE  QueuedInv'
  <1>1. /\ kind' = kind /\ sent' = sent /\ identity' = identity /\ buffered' = buffered
        /\ awaiting' = awaiting /\ told' = told /\ failure' = failure /\ cause' = cause
        /\ stdin' = stdin /\ stdout' = stdout /\ run' = run /\ begun' = begun /\ inputs' = inputs
        /\ refused' = refused /\ lost' = lost /\ dropped' = dropped
    BY DEF sends, native, history
  <1>2. /\ board'.turn = board.turn /\ board'.opener = board.opener /\ board'.accepted = board.accepted
        /\ board'.pending = board.pending /\ board'.turns = board.turns /\ board'.parked = board.parked
        /\ board' \in Board
    BY DEF Alike
  <1>3. Pipe' = Pipe
    BY <1>1 DEF Pipe
  <1>4. (Finalized' <=> Finalized) /\ (Closed => Closed')
    BY <1>1 DEF Finalized, Closed, Dead
  <1>5. Types'
    <2>1. TypeOK'
      BY <1>1, <1>2 DEF QueuedInv, Types, TypeOK
    <2> QED BY <1>1, <1>3, <2>1 DEF QueuedInv, Types
  <1>6. Ending'
    BY <1>1, <1>2, <1>4 DEF QueuedInv, Ending
  <1>7. Boarded(board)'
    BY <1>2 DEF QueuedInv, Boarded
  <1>8. Places'
    <2>1. Placed(board, sent, awaiting \cup lost \cup dropped \cup refused \cup Members(buffered))'
      BY <1>1, <1>2 DEF QueuedInv, Places, Placed, OpenersOf
    <2> QED BY <2>1, <1>1, <1>2 DEF QueuedInv, Places
  <1>9. AskedOnce' /\ Harness' /\ Losing'
    <2>1. AskedOnce' /\ Harness'
      BY <1>1, <1>3 DEF QueuedInv, AskedOnce, Harness
    <2> QED BY <2>1, <1>1 DEF QueuedInv, Losing
  <1>10. Unannounced'
    BY <1>1, <1>2, <1>3, <1>4 DEF QueuedInv, Unannounced
  <1>11. Refusal'
    BY <1>1, <1>2, <1>4 DEF QueuedInv, Refusal
  <1>12. Queued'
    <2>1. Held(board') = Held(board) /\ (InLine(board) => InLine(board'))
      BY <1>2 DEF Held, InLine
    <2> QED BY <2>1, <1>1, <1>2, <1>3, <1>4 DEF QueuedInv, Queued
  <1>13. Steered'
    BY <1>1, <1>2, <1>3, <1>4 DEF QueuedInv, Steered
  <1>14. OutputBelongs'
    BY <1>1, <1>2 DEF QueuedInv, OutputBelongs
  <1>15. RefusedOpenTold'
    BY <1>1, <1>2, <1>4 DEF QueuedInv, RefusedOpenTold
  <1> QED BY <1>5, <1>6, <1>7, <1>8, <1>9, <1>10, <1>11, <1>12, <1>13, <1>14, <1>15 DEF QueuedInv

LEMMA LifeTyped ==
  ASSUME QueuedInv
  PROVE  /\ closing \in BOOLEAN /\ eof \in BOOLEAN /\ stalled \in BOOLEAN
         /\ closer \in {"none", "draining", "woken", "ended"} /\ signal \in {"none", "term", "kill"}
         /\ exit \in {"none", "zero", "nonzero", "signal"} /\ board \in Board
         /\ (eof \/ closer # "none" => closing) /\ Alike(board, board)
  BY DEF QueuedInv, Types, TypeOK, Ending, Alike

LEMMA CloseStep ==
  ASSUME QueuedInv, NEW drain \in BOOLEAN, Close(drain)
  PROVE  QueuedInv'
  <1>1. /\ closing' = TRUE /\ board' = board /\ signal' = signal /\ stalled' = stalled /\ exit' = exit
        /\ UNCHANGED <<sends, failure, stdin, stdout, native, history, cause>>
    BY DEF Close
  <1>2. closer' \in {"draining", "ended"} /\ eof' \in BOOLEAN
    BY LifeTyped DEF Close, DrainOrEnd
  <1> QED BY <1>1, <1>2, LifeTyped, LifeSteps DEF Dead

LEMMA DrainCheckStep ==
  ASSUME QueuedInv, DrainCheck
  PROVE  QueuedInv'
  <1>1. /\ closing' = closing /\ board' = board /\ signal' = signal /\ stalled' = stalled /\ exit' = exit
        /\ UNCHANGED <<sends, failure, stdin, stdout, native, history, cause>> /\ closing
    BY LifeTyped DEF DrainCheck
  <1>2. closer' \in {"draining", "ended"} /\ eof' \in BOOLEAN
    BY LifeTyped DEF DrainCheck, DrainOrEnd
  <1> QED BY <1>1, <1>2, LifeTyped, LifeSteps DEF Dead

LEMMA SignalStep ==
  ASSUME QueuedInv, CloseGrace \/ KillGrace
  PROVE  QueuedInv'
  <1>1. /\ closing' = closing /\ closer' = closer /\ eof' = eof /\ board' = board /\ stalled' = stalled
        /\ exit' = exit /\ signal' \in {"term", "kill"}
        /\ UNCHANGED <<sends, failure, stdin, stdout, native, history, cause>>
    BY DEF CloseGrace, KillGrace
  <1> QED BY <1>1, LifeTyped, LifeSteps DEF Dead

LEMMA InputErrorStep ==
  ASSUME QueuedInv, InputError
  PROVE  QueuedInv'
  <1>1. /\ closing' = TRUE /\ closer' = closer /\ eof' = eof /\ board' = board /\ stalled' = stalled
        /\ exit' = exit /\ signal' = Escalated
        /\ UNCHANGED <<sends, failure, stdin, stdout, native, history, cause>>
    BY DEF InputError, Breaks
  <1>2. Escalated \in {"none", "term", "kill"}
    BY LifeTyped DEF Escalated
  <1> QED BY <1>1, <1>2, LifeTyped, LifeSteps DEF Dead

LEMMA ExitedStep ==
  ASSUME QueuedInv, NEW code \in {"zero", "nonzero", "signal"}, Exited(code)
  PROVE  QueuedInv'
  <1>1. /\ closing' = closing /\ closer' = Woken(closer) /\ eof' = eof
        /\ board' = [board EXCEPT !.watched = FALSE] /\ stalled' = stalled /\ exit' = code /\ signal' = signal
        /\ UNCHANGED <<sends, failure, stdin, stdout, native, history, cause>>
    BY DEF Exited
  <1>2. Alike(board', board)
    BY <1>1, LifeTyped DEF Board, Alike
  <1>3. Woken(closer) \in {"none", "draining", "woken", "ended"} /\ (Woken(closer) # "none" => closer # "none")
    BY LifeTyped DEF Woken
  <1>4. code # "none"
    OBVIOUS
  <1> QED BY <1>1, <1>2, <1>3, <1>4, LifeTyped, LifeSteps DEF Dead

-----------------------------------------------------------------------------
(* An input is sent *)

LEMMA CommandTyped ==
  ASSUME NEW k \in Kinds, NEW s \in Sends, NEW busy \in BOOLEAN, NEW n \in Runs \cup {0}
  PROVE  LET c == EncodeSend(k, s, busy, "none", n) IN
         c \in InputsOf(k) /\ c \in CommandsOf(k) /\ c.token = s /\ IsInput(c) /\ c.mark # "identity"
  <1> DEFINE c == EncodeSend(k, s, busy, "none", n)
  <1>1. CASE k = "codex"
    <2>1. c = [what |-> IF busy THEN "turn/steer" ELSE "turn/start", mark |-> "send", token |-> s,
               expected |-> IF busy THEN n ELSE 0]
      BY <1>1 DEF EncodeSend, Command
    <2> QED BY <2>1, <1>1 DEF InputsOf, CommandsOf, IsInput
  <1>2. CASE k = "popeye"
    <2>1. c = [what |-> "prompt", mark |-> "send", token |-> s, expected |-> 0]
      BY <1>2 DEF EncodeSend, Command
    <2> QED BY <2>1, <1>2 DEF InputsOf, CommandsOf, IsInput
  <1>3. CASE k = "antigravity"
    <2>1. c = [what |-> "user", mark |-> "none", token |-> s, expected |-> 0]
      BY <1>3 DEF EncodeSend, Command
    <2> QED BY <2>1, <1>3 DEF InputsOf, CommandsOf, IsInput
  <1> QED BY <1>1, <1>2, <1>3 DEF Kinds

LEMMA OneMore ==
  ASSUME NEW S, NEW q \in Seq(S), NEW w \in S
  PROVE  q \o <<w>> \in Seq(S) /\ Extended(q \o <<w>>, q, w)
  <1>1. q \o <<w>> = Append(q, w)
    BY AppendIsConcat
  <1> QED BY <1>1, AppendExtends

(* The inputs sent so far, in order. *)
Counted(n) == [i \in 1 .. n |-> i]

LEMMA CountMore ==
  ASSUME NEW n \in Nat
  PROVE  /\ Append(Counted(n), n + 1) = Counted(n + 1) /\ Members(Counted(n)) = 1 .. n
         /\ Counted(n) \in Seq(1 .. n) /\ Len(Counted(n)) = n /\ \A i \in 1 .. n : Counted(n)[i] = i
  <1>1. Counted(n) \in Seq(1 .. n) /\ Len(Counted(n)) = n /\ \A i \in 1 .. n : Counted(n)[i] = i
    BY DEF Counted
  <1>2. Members(Counted(n)) = 1 .. n
    BY <1>1 DEF Members
  <1>3. Append(Counted(n), n + 1) = Counted(n + 1)
    BY DEF Counted
  <1> QED BY <1>1, <1>2, <1>3

LEMMA ReadLonger ==
  ASSUME NEW k, NEW c \in Seq(CommandsOf(k)), NEW n \in 0 .. MaxSends, NEW m \in 0 .. MaxSends, n <= m,
         NEW b, NEW ins, ToRead(c, n, b, ins)
  PROVE  ToRead(c, m, b, ins)
  <1>1. ASSUME NEW i \in 1 .. Len(c), IsInput(c[i]) PROVE After(c[i].token, m, b, ins)
    <2>1. c[i].token \in Sends /\ After(c[i].token, n, b, ins)
      BY <1>1, InputToken DEF ToRead
    <2> QED BY <2>1, Sized DEF After
  <1> QED BY <1>1 DEF ToRead

LEMMA PlacedMore ==
  ASSUME NEW b, NEW n \in Nat, NEW m \in Nat, n <= m, NEW S, NEW T, Placed(b, n, S), T \subseteq S \cup 1 .. m
  PROVE  Placed(b, m, T)
  BY DEF Placed

(* The next input is new to everything. *)
LEMMA SendFresh ==
  ASSUME QueuedInv, NEW s \in Sends, Awake, ~Closed, s = sent + 1
  PROVE  /\ sent \in Nat /\ sent \in 0 .. MaxSends /\ s \in 0 .. MaxSends /\ sent <= s /\ s \in 1 .. s
         /\ ~Finalized /\ ~failure /\ ~closing /\ ~eof /\ closer = "none"
         /\ s \notin Members(board.pending) \cup OpenersOf(board) \cup awaiting \cup lost \cup dropped
                     \cup refused \cup Members(buffered)
         /\ told[s] = "none" /\ \A x \in Sends : x > s => told[x] = "none"
         /\ Ran(kind, s, run, begun, inputs) /\ After(s, s, begun, inputs) /\ ToRead(stdin, s, begun, inputs)
         /\ RefusedSent(Pipe, s) /\ \A i \in 1 .. Len(Pipe) : Fails(Pipe[i]) => Pipe[i].token # s
  <1>1. /\ sent \in 0 .. MaxSends /\ inputs \in [Runs -> SUBSET Sends] /\ begun \in 0 .. MaxSends
        /\ stdin \in Seq(CommandsOf(kind)) /\ Pipe \in Seq(Says)
    BY Given
  <1>2. sent \in Nat /\ s \in 0 .. MaxSends /\ sent <= s /\ s \in 1 .. s
    BY <1>1, Sized DEF Sends
  <1>3. ~Finalized /\ ~closing
    BY DEF Awake, Closed
  <1>4. ~failure /\ ~eof /\ closer = "none"
    BY <1>3 DEF QueuedInv, Refusal, Ending
  <1>5. s \notin Members(board.pending) \cup OpenersOf(board) \cup awaiting \cup lost \cup dropped
                     \cup refused \cup Members(buffered)
    <2>1. s \notin 1 .. sent
      BY <1>2
    <2>2. Members(board.pending) \cup OpenersOf(board) \cup
            (awaiting \cup lost \cup dropped \cup refused \cup Members(buffered)) \subseteq 1 .. sent
      BY DEF QueuedInv, Places, Placed
    <2> QED BY <2>1, <2>2
  <1>6. told[s] = "none" /\ \A x \in Sends : x > s => told[x] = "none"
    <2>1. \A x \in Sends : x > sent => told[x] = "none"
      BY DEF QueuedInv, Places
    <2> QED BY <2>1, <1>2, Sized
  <1>7. Ran(kind, sent, run, begun, inputs) /\ ToRead(stdin, sent, begun, inputs) /\ RefusedSent(Pipe, sent)
    BY DEF QueuedInv, Harness
  <1>8. Ran(kind, s, run, begun, inputs)
    BY <1>1, <1>2, <1>7, RanMore
  <1>9. After(s, s, begun, inputs)
    <2>1. \A m \in Runs : \A x \in inputs[m] : x < s /\ x \in Sends
      BY <1>1, <1>2, <1>7, Sized DEF Ran
    <2>2. begun < s
      <3>1. CASE begun = 0
        BY <3>1, <1>2
      <3>2. CASE begun # 0
        <4>1. begun \in Runs
          BY <3>2, <1>1 DEF Runs
        <4>2. inputs[begun] # {}
          BY <4>1, <1>1, <1>7 DEF Ran
        <4>3. PICK x \in inputs[begun] : TRUE
          BY <4>2
        <4>4. x >= begun /\ x < s /\ x \in Sends
          BY <4>1, <4>3, <2>1, <1>7 DEF Ran
        <4> QED BY <4>4, <1>1, Sized
      <3> QED BY <3>1, <3>2
    <2> QED BY <2>1, <2>2, <1>1, <1>2 DEF After
  <1>10. ToRead(stdin, s, begun, inputs)
    BY <1>1, <1>2, <1>7, ReadLonger
  <1>11. RefusedSent(Pipe, s) /\ \A i \in 1 .. Len(Pipe) : Fails(Pipe[i]) => Pipe[i].token # s
    <2>1. \A i \in 1 .. Len(Pipe) : Fails(Pipe[i]) => Pipe[i].token \in Sends /\ Pipe[i].token <= sent
      BY <1>1, <1>7, SaysTyped DEF RefusedSent
    <2>2. \A t \in Sends : t <= sent => t <= s /\ t # s
      BY <1>2, Sized
    <2>3. \A i \in 1 .. Len(Pipe) : Fails(Pipe[i]) => Pipe[i].token <= s /\ Pipe[i].token # s
      BY <2>1, <2>2
    <2> QED BY <2>3 DEF RefusedSent
  <1> QED BY <1>1, <1>2, <1>3, <1>4, <1>5, <1>6, <1>8, <1>9, <1>10, <1>11

(* What every send leaves alone. *)
LEMMA SendKeeps ==
  ASSUME QueuedInv, NEW s \in Sends, Send(s)
  PROVE  /\ Awake /\ ~Closed /\ s = sent + 1 /\ sent' = s
         /\ kind' = kind /\ identity' = identity /\ failure' = failure /\ closer' = closer /\ eof' = eof
         /\ stalled' = stalled /\ exit' = exit /\ cause' = cause /\ stdout' = stdout /\ dropped' = dropped
         /\ run' = run /\ begun' = begun /\ inputs' = inputs
         /\ Pipe' = Pipe /\ ~Finalized' /\ (Closed' <=> closing') /\ Refusal' /\ RefusedOpenTold'
         /\ (closing' \in BOOLEAN => Ending')
  <1>1. /\ Awake /\ ~Closed /\ s = sent + 1 /\ sent' = s
        /\ kind' = kind /\ identity' = identity /\ failure' = failure /\ closer' = closer /\ eof' = eof
        /\ stalled' = stalled /\ exit' = exit /\ cause' = cause /\ stdout' = stdout /\ dropped' = dropped
        /\ run' = run /\ begun' = begun /\ inputs' = inputs
    BY DEF Send, native
  <1>2. ~Finalized /\ ~failure /\ ~eof /\ closer = "none"
    BY <1>1, SendFresh
  <1>3. ~Finalized' /\ (Closed' <=> closing')
    BY <1>1, <1>2 DEF Finalized, Closed, Dead
  <1>4. Refusal' /\ RefusedOpenTold'
    BY <1>1, <1>2, <1>3 DEF Refusal, RefusedOpenTold
  <1>5. Ending'
    BY <1>1, <1>2, <1>3 DEF Ending
  <1>6. Pipe' = Pipe
    BY <1>1 DEF Pipe
  <1> QED BY <1>1, <1>3, <1>4, <1>5, <1>6

LEMMA BufferStep ==
  ASSUME QueuedInv, NEW s \in Sends, Send(s), Buffer(s)
  PROVE  QueuedInv'
  <1>1. /\ Awake /\ ~Closed /\ s = sent + 1 /\ sent' = s
        /\ kind' = kind /\ identity' = identity /\ failure' = failure /\ closer' = closer /\ eof' = eof
        /\ stalled' = stalled /\ exit' = exit /\ cause' = cause /\ stdout' = stdout /\ dropped' = dropped
        /\ run' = run /\ begun' = begun /\ inputs' = inputs
        /\ Pipe' = Pipe /\ ~Finalized' /\ (Closed' <=> closing') /\ Refusal' /\ RefusedOpenTold'
        /\ (closing' \in BOOLEAN => Ending')
    BY SendKeeps
  <1>2. /\ sent \in Nat /\ sent <= s /\ s \in 0 .. MaxSends /\ s \in 1 .. s /\ ~Finalized /\ ~failure
        /\ s \notin Members(board.pending) \cup OpenersOf(board) \cup awaiting \cup lost \cup dropped
                     \cup refused \cup Members(buffered)
        /\ told[s] = "none" /\ \A x \in Sends : x > s => told[x] = "none"
        /\ Ran(kind, s, run, begun, inputs) /\ ToRead(stdin, s, begun, inputs) /\ RefusedSent(Pipe, s)
    BY <1>1, SendFresh
  <1>3. /\ BuffersBeforeIdentity(kind) /\ ~identity /\ buffered' = Append(buffered, s)
        /\ IF kind = "codex" THEN awaiting' = awaiting \cup {s} /\ told' = told
           ELSE told' = [told EXCEPT ![s] = "started"] /\ awaiting' = awaiting
        /\ board' = board /\ stdin' = stdin /\ refused' = refused /\ lost' = lost /\ closing' = closing
        /\ signal' = signal
    BY Given DEF Buffer, HasNativeReceipts, Kinds
  <1>4. /\ buffered \in Seq(Sends) /\ awaiting \subseteq Sends /\ closing \in BOOLEAN
        /\ told \in [Sends -> {"none", "started", "native-rejected", "write-failed", "closed"}]
    BY Given, LifeTyped
  <1>5. /\ buffered' \in Seq(Sends) /\ Members(buffered') = Members(buffered) \cup {s}
    BY <1>3, <1>4, Appended, MembersAppend
  <1>6. /\ awaiting' \subseteq Sends /\ awaiting \subseteq awaiting' /\ awaiting' \subseteq awaiting \cup {s}
        /\ told' \in [Sends -> {"none", "started", "native-rejected", "write-failed", "closed"}]
        /\ \A x \in Sends : x # s \/ kind = "codex" => told'[x] = told[x]
    BY <1>3, <1>4
  <1>7. Types'
    <2>1. TypeOK'
      BY <1>1, <1>2, <1>3, <1>5, <1>6 DEF QueuedInv, Types, TypeOK
    <2> QED BY <1>1, <1>3, <2>1 DEF QueuedInv, Types
  <1>8. Boarded(board)' /\ AskedOnce' /\ Losing'
    BY <1>1, <1>3 DEF QueuedInv, AskedOnce, Losing
  <1>9. Places'
    <2>1. Placed(board, sent, awaiting \cup lost \cup dropped \cup refused \cup Members(buffered))
      BY DEF QueuedInv, Places
    <2> DEFINE T == awaiting' \cup lost \cup dropped \cup refused \cup Members(buffered')
               A == awaiting \cup lost \cup dropped \cup refused \cup Members(buffered)
    <2>2. T \subseteq A \cup 1 .. s /\ Placed(board, sent, A) /\ s \in Nat
      BY <1>2, <1>5, <1>6, <2>1, Sized
    <2> HIDE DEF T, A
    <2>3. Placed(board, s, T)
      BY <1>2, <2>2, PlacedMore
    <2>4. Placed(board, sent, awaiting \cup lost \cup dropped \cup refused \cup Members(buffered))'
      BY <2>3, <1>1, <1>3 DEF T
    <2>5. \A x \in Sends : x > s => told'[x] = "none"
      BY <1>2, <1>6, Sized
    <2>6. \A x \in awaiting' : kind = "codex" /\ told'[x] = "none" /\ x \notin refused
      <3>1. \A x \in awaiting : kind = "codex" /\ told[x] = "none" /\ x \notin refused
        BY DEF QueuedInv, Places
      <3> QED BY <3>1, <1>2, <1>3, <1>4, <1>6
    <2>7. \A x \in Members(buffered') \cup Members(board.pending) : x \notin refused
      BY <1>2, <1>5 DEF QueuedInv, Places
    <2>8. kind = "codex" => board.pending = <<>> /\ Members(buffered') \subseteq awaiting'
      BY <1>3, <1>5 DEF QueuedInv, Places
    <2> QED BY <2>4, <2>5, <2>6, <2>7, <2>8, <1>1, <1>3 DEF Places
  <1>10. Unannounced'
    <2>1. buffered = Counted(sent)
      <3>1. kind = "popeye" \/ ~failure => buffered = [i \in 1 .. sent |-> i]
        BY <1>2, <1>3 DEF QueuedInv, Unannounced
      <3> QED BY <3>1, <1>2 DEF Counted
    <2>2. buffered' = Counted(s)
      BY <1>1, <1>2, <1>3, <2>1, CountMore
    <2> QED BY <2>2, <1>1, <1>2, <1>3 DEF QueuedInv, Unannounced, Counted
  <1>11. Harness'
    BY <1>1, <1>2, <1>3 DEF QueuedInv, Harness
  <1>12. Queued'
    BY <1>1, <1>2, <1>3 DEF QueuedInv, Queued, Closed, Dead
  <1>13. Steered'
    <2>1. Owing(awaiting, stdin, Pipe) => Owing(awaiting', stdin, Pipe)
      BY <1>6 DEF Owing
    <2> QED BY <2>1, <1>1, <1>2, <1>3 DEF QueuedInv, Steered
  <1>14. OutputBelongs'
    BY <1>1, <1>3 DEF QueuedInv, OutputBelongs
  <1> QED BY <1>1, <1>3, <1>4, <1>7, <1>8, <1>9, <1>10, <1>11, <1>12, <1>13, <1>14 DEF QueuedInv

LEMMA WriteFailsStep ==
  ASSUME QueuedInv, NEW s \in Sends, Send(s), WriteFails(s), ~ (BuffersBeforeIdentity(kind) /\ ~identity)
  PROVE  QueuedInv'
  <1>1. /\ Awake /\ ~Closed /\ s = sent + 1 /\ sent' = s
        /\ kind' = kind /\ identity' = identity /\ failure' = failure /\ closer' = closer /\ eof' = eof
        /\ stalled' = stalled /\ exit' = exit /\ cause' = cause /\ stdout' = stdout /\ dropped' = dropped
        /\ run' = run /\ begun' = begun /\ inputs' = inputs
        /\ Pipe' = Pipe /\ ~Finalized' /\ (Closed' <=> closing') /\ Refusal' /\ RefusedOpenTold'
        /\ (closing' \in BOOLEAN => Ending')
    BY SendKeeps
  <1>2. /\ sent \in Nat /\ sent <= s /\ s \in 0 .. MaxSends /\ s \in 1 .. s /\ ~Finalized /\ ~failure
        /\ s \notin Members(board.pending) \cup OpenersOf(board) \cup awaiting \cup lost \cup dropped
                     \cup refused \cup Members(buffered)
        /\ told[s] = "none" /\ \A x \in Sends : x > s => told[x] = "none"
        /\ Ran(kind, s, run, begun, inputs) /\ ToRead(stdin, s, begun, inputs) /\ RefusedSent(Pipe, s)
    BY <1>1, SendFresh
  <1>3. /\ closing' = TRUE /\ signal' = Escalated /\ told' = [told EXCEPT ![s] = "write-failed"]
        /\ refused' = refused \cup {s} /\ buffered' = buffered /\ awaiting' = awaiting /\ board' = board
        /\ stdin' = stdin /\ lost' = lost
    BY DEF WriteFails, Breaks
  <1>4. /\ told \in [Sends -> {"none", "started", "native-rejected", "write-failed", "closed"}]
        /\ Escalated \in {"none", "term", "kill"}
    BY Given, LifeTyped DEF Escalated
  <1>5. /\ told' \in [Sends -> {"none", "started", "native-rejected", "write-failed", "closed"}]
        /\ \A x \in Sends : x # s => told'[x] = told[x]
    BY <1>3, <1>4
  <1>6. Types'
    <2>1. TypeOK'
      BY <1>1, <1>2, <1>3, <1>4, <1>5 DEF QueuedInv, Types, TypeOK
    <2> QED BY <1>1, <1>3, <2>1 DEF QueuedInv, Types
  <1>7. Boarded(board)' /\ AskedOnce' /\ Losing'
    BY <1>1, <1>3 DEF QueuedInv, AskedOnce, Losing
  <1>8. Places'
    <2>1. Placed(board, sent, awaiting \cup lost \cup dropped \cup refused \cup Members(buffered))
      BY DEF QueuedInv, Places
    <2> DEFINE T == awaiting \cup lost \cup dropped \cup refused' \cup Members(buffered)
               A == awaiting \cup lost \cup dropped \cup refused \cup Members(buffered)
    <2>2. T \subseteq A \cup 1 .. s /\ Placed(board, sent, A) /\ s \in Nat
      BY <1>2, <1>3, <2>1, Sized
    <2> HIDE DEF T, A
    <2>3. Placed(board, s, T)
      BY <1>2, <2>2, PlacedMore
    <2>4. Placed(board, sent, awaiting \cup lost \cup dropped \cup refused \cup Members(buffered))'
      BY <2>3, <1>1, <1>3 DEF T
    <2>5. \A x \in Sends : x > s => told'[x] = "none"
      BY <1>2, <1>5, Sized
    <2>6. \A x \in awaiting : kind = "codex" /\ told'[x] = "none" /\ x \notin refused'
      <3>1. \A x \in awaiting : kind = "codex" /\ told[x] = "none" /\ x \notin refused /\ x \in Sends
        BY Given DEF QueuedInv, Places
      <3> QED BY <3>1, <1>2, <1>3, <1>5
    <2>7. \A x \in Members(buffered) \cup Members(board.pending) : x \notin refused'
      BY <1>2, <1>3 DEF QueuedInv, Places
    <2> QED BY <2>4, <2>5, <2>6, <2>7, <1>1, <1>3 DEF QueuedInv, Places
  <1>9. Unannounced'
    BY <1>1 DEF Unannounced
  <1>10. Harness'
    BY <1>1, <1>2, <1>3 DEF QueuedInv, Harness
  <1>11. Queued'
    BY <1>1, <1>2, <1>3 DEF QueuedInv, Queued, Closed
  <1>12. Steered'
    BY <1>1, <1>2, <1>3 DEF QueuedInv, Steered
  <1>13. OutputBelongs'
    BY <1>1, <1>3 DEF QueuedInv, OutputBelongs
  <1> QED BY <1>1, <1>3, <1>6, <1>7, <1>8, <1>9, <1>10, <1>11, <1>12, <1>13 DEF QueuedInv

-----------------------------------------------------------------------------
(* The board *)

(* The output of each of these turns is of a run that answers its input. *)
Belong(ts, ins) == \A i \in 1 .. Len(ts) : \A n \in ts[i].runs : ts[i].opener \in ins[n]

LEMMA Belongs == OutputBelongs <=> (~stalled => Belong(board.turns, inputs))
  BY DEF OutputBelongs, Belong

(* The turns of c are those of b, but for what failed. *)
Recounts(c, b) ==
  /\ Len(c.turns) = Len(b.turns)
  /\ \A i \in 1 .. Len(b.turns) : c.turns[i].opener = b.turns[i].opener /\ c.turns[i].runs = b.turns[i].runs

(* The turns after a step: one more at most, and none takes another's id. *)
Shown(c, b) ==
  /\ Len(b.turns) \in Nat /\ Len(c.turns) \in {Len(b.turns), Len(b.turns) + 1}
  /\ \A i \in 1 .. Len(b.turns) : i \in 1 .. Len(c.turns) /\ c.turns[i].opener = b.turns[i].opener

LEMMA RecountsKeep ==
  ASSUME NEW b, NEW c, Recounts(c, b), NEW ins
  PROVE  OpenersOf(c) = OpenersOf(b) /\ (Belong(b.turns, ins) => Belong(c.turns, ins))
  BY DEF Recounts, OpenersOf, Belong

(* A turn more, for s. *)
Opens(c, b, s) ==
  /\ c.turn = Len(b.turns) + 1 /\ c.turn # 0 /\ c.opener = s /\ ~c.accepted /\ c.parked = Nothing
  /\ Len(c.turns) = Len(b.turns) + 1
  /\ \A i \in 1 .. Len(b.turns) : i \in 1 .. Len(c.turns) /\ c.turns[i] = b.turns[i]
  /\ \A i \in 1 .. Len(c.turns) : i \in 1 .. Len(b.turns) \/ i = Len(b.turns) + 1
  /\ c.turns[Len(b.turns) + 1].opener = s /\ c.turns[Len(b.turns) + 1].runs = b.parked.runs
  /\ c.turns[Len(b.turns) + 1].failed = b.parked.failed

LEMMA OpensKeep ==
  ASSUME NEW b \in Board, NEW s \in Sends, NEW c, Opens(c, b, s)
  PROVE  OpenersOf(c) = OpenersOf(b) \cup {s} /\ Boarded(c) /\ c.parked.runs = {} /\ ~c.parked.failed
  <1>1. Len(b.turns) \in Nat
    BY BoardTyped
  <1>2. OpenersOf(c) = OpenersOf(b) \cup {s}
    <2>1. \A i \in 1 .. Len(c.turns) : c.turns[i].opener \in OpenersOf(b) \cup {s}
      BY DEF Opens, OpenersOf
    <2>2. \A i \in 1 .. Len(b.turns) : b.turns[i].opener \in OpenersOf(c)
      BY DEF Opens, OpenersOf
    <2>3. Len(b.turns) + 1 \in 1 .. Len(c.turns)
      BY <1>1 DEF Opens
    <2>4. s \in OpenersOf(c)
      BY <2>3 DEF Opens, OpenersOf
    <2> QED BY <2>1, <2>2, <2>4 DEF OpenersOf
  <1>3. Boarded(c)
    <2>1. c.turns # <<>>
      BY <1>1 DEF Opens
    <2> QED BY <2>1, Sized DEF Opens, Boarded
  <1>4. c.parked.runs = {} /\ ~c.parked.failed
    BY DEF Opens, Nothing
  <1> QED BY <1>2, <1>3, <1>4

LEMMA OpensBelong ==
  ASSUME NEW b, NEW s, NEW c, Opens(c, b, s), b.parked.runs = {}, NEW ins, Belong(b.turns, ins)
  PROVE  Belong(c.turns, ins)
  BY DEF Opens, Belong

LEMMA StartedOpens ==
  ASSUME NEW b \in Board, NEW s \in Sends
  PROVE  Started(b, s) \in Board /\ Opens(Started(b, s), b, s) /\ Started(b, s).pending = b.pending
         /\ Started(b, s).steer = b.steer
  <1> DEFINE c == Started(b, s)
             n == Len(b.turns) + 1
             u == [no |-> n, opener |-> s, runs |-> b.parked.runs, failed |-> b.parked.failed]
             ts == Append(b.turns, u)
  <1>1. /\ b.turns \in Seq(PublicTurn) /\ b.parked.runs \subseteq Runs /\ b.parked.failed \in BOOLEAN
        /\ Len(b.turns) \in Nat
    BY BoardTyped
  <1>2. u \in PublicTurn /\ n \in Nat /\ n # 0
    BY <1>1 DEF PublicTurn
  <1>3. /\ u.opener = s /\ u.runs = b.parked.runs /\ u.failed = b.parked.failed
    OBVIOUS
  <1>4. c = [b EXCEPT !.turn = n, !.opener = s, !.accepted = FALSE, !.watched = TRUE, !.parked = Nothing, !.turns = ts]
    BY DEF Started, Current
  <1> HIDE DEF u, n, c
  <1>5. ts \in Seq(PublicTurn) /\ Extended(ts, b.turns, u)
    BY <1>1, <1>2, AppendExtends
  <1> HIDE DEF ts
  <1>6. Nothing \in [runs : SUBSET Runs, failed : BOOLEAN]
    BY DEF Nothing
  <1>7. /\ c \in Board /\ c.turn = n /\ c.opener = s /\ c.accepted = FALSE /\ c.parked = Nothing
        /\ c.turns = ts /\ c.pending = b.pending /\ c.steer = b.steer
    <2> HIDE DEF Nothing
    <2> QED BY <1>2, <1>4, <1>5, <1>6 DEF Board
  <1>8. Opens(c, b, s)
    BY <1>1, <1>2, <1>3, <1>5, <1>7 DEF Opens, Extended, n
  <1> QED BY <1>7, <1>8 DEF c

LEMMA ClearedBoard ==
  ASSUME NEW b \in Board
  PROVE  LET c == Cleared(b) IN
         /\ c \in Board /\ c.turn = 0 /\ c.opener = 0 /\ ~c.accepted /\ c.pending = b.pending
         /\ c.turns = b.turns /\ c.parked = b.parked /\ c.steer = 0 /\ Boarded(c)
         /\ OpenersOf(c) = OpenersOf(b) /\ Held(c) = Members(b.pending)
  <1> DEFINE c == Cleared(b)
  <1>1. /\ c \in Board /\ c.turn = 0 /\ c.opener = 0 /\ ~c.accepted /\ c.pending = b.pending
        /\ c.turns = b.turns /\ c.parked = b.parked /\ c.steer = 0
    BY DEF Cleared, Board
  <1> HIDE DEF c
  <1>2. Boarded(c) /\ OpenersOf(c) = OpenersOf(b) /\ Held(c) = Members(b.pending)
    BY <1>1 DEF Boarded, OpenersOf, Held
  <1> QED BY <1>1, <1>2 DEF c

LEMMA FailedBoard ==
  ASSUME NEW b \in Board, Boarded(b)
  PROVE  LET c == Failed(b) IN
         /\ c \in Board /\ c.turn = b.turn /\ c.opener = b.opener /\ c.accepted = b.accepted
         /\ c.pending = b.pending /\ c.parked.runs = b.parked.runs /\ Recounts(c, b) /\ Boarded(c)
         /\ c.steer = b.steer
         /\ b.turn = 0 => c.parked.failed /\ c.turns = b.turns
  <1> DEFINE c == Failed(b)
  <1>1. CASE b.turn # 0
    <2> DEFINE n == Len(b.turns)
               v == [b.turns[n] EXCEPT !.failed = TRUE]
               ts == [b.turns EXCEPT ![n] = v]
    <2>1. b.turns \in Seq(PublicTurn) /\ n \in 1 .. n /\ n \in Nat
      <3>1. b.turns \in Seq(PublicTurn) /\ b.turns # <<>> /\ Len(b.turns) \in Nat
        BY <1>1, BoardTyped DEF Boarded
      <3> QED BY <3>1
    <2>2. v \in PublicTurn /\ v.opener = b.turns[n].opener /\ v.runs = b.turns[n].runs
      <3>1. b.turns[n] \in PublicTurn
        BY <2>1
      <3> HIDE DEF n
      <3> QED BY <3>1 DEF PublicTurn
    <2> HIDE DEF n, v
    <2>3. /\ ts \in Seq(PublicTurn) /\ Len(ts) = Len(b.turns)
          /\ \A i \in 1 .. Len(b.turns) : ts[i].opener = b.turns[i].opener /\ ts[i].runs = b.turns[i].runs
      <3>1. n \in 1 .. Len(b.turns)
        BY <2>1 DEF n
      <3>2. ts \in Seq(PublicTurn) /\ Len(ts) = Len(b.turns)
        BY <2>1, <2>2, <3>1
      <3>3. \A i \in 1 .. Len(b.turns) : ts[i] = IF i = n THEN v ELSE b.turns[i]
        BY <2>1, <3>1
      <3> QED BY <2>2, <3>2, <3>3
    <2> HIDE DEF ts
    <2>4. c = [b EXCEPT !.turns = ts]
      BY <1>1 DEF Failed, Current, ts, n, v, Board
    <2>5. /\ c \in Board /\ c.turn = b.turn /\ c.opener = b.opener /\ c.accepted = b.accepted
          /\ c.pending = b.pending /\ c.parked.runs = b.parked.runs /\ c.turns = ts /\ c.steer = b.steer
      BY <2>3, <2>4 DEF Board
    <2> HIDE DEF c
    <2>6. Recounts(c, b)
      BY <2>3, <2>5 DEF Recounts
    <2>7. Boarded(c)
      BY <1>1, <2>1, <2>3, <2>5 DEF Boarded, n
    <2> QED BY <1>1, <2>5, <2>6, <2>7 DEF c
  <1>2. CASE b.turn = 0
    <2> DEFINE u == [b.parked EXCEPT !.failed = TRUE]
    <2>1. u \in [runs : SUBSET Runs, failed : BOOLEAN] /\ u.runs = b.parked.runs /\ u.failed
      BY BoardTyped
    <2> HIDE DEF u
    <2>2. c = [b EXCEPT !.parked = u]
      BY <1>2 DEF Failed, u, Board
    <2>3. /\ c \in Board /\ c.turn = b.turn /\ c.opener = b.opener /\ c.accepted = b.accepted
          /\ c.pending = b.pending /\ c.parked = u /\ c.turns = b.turns /\ c.steer = b.steer
      BY <2>1, <2>2 DEF Board
    <2> HIDE DEF c
    <2>4. Recounts(c, b) /\ Boarded(c)
      BY <2>3 DEF Recounts, Boarded
    <2> QED BY <1>2, <2>1, <2>3, <2>4 DEF c
  <1> QED BY <1>1, <1>2

LEMMA RoutedBoard ==
  ASSUME NEW b \in Board, Boarded(b), NEW n \in Runs
  PROVE  LET c == Routed(b, n) IN
         /\ c \in Board /\ c.turn = b.turn /\ c.opener = b.opener /\ c.accepted = b.accepted
         /\ c.pending = b.pending /\ Boarded(c) /\ OpenersOf(c) = OpenersOf(b) /\ c.steer = b.steer
         /\ \A ins : Belong(b.turns, ins) /\ (b.turn # 0 => b.opener \in ins[n]) => Belong(c.turns, ins)
         /\ b.turn # 0 => c.parked = b.parked
         /\ c.parked.failed = b.parked.failed
         /\ Shown(c, b) /\ Len(c.turns) = Len(b.turns)
  <1> DEFINE c == Routed(b, n)
  <1>1. CASE b.turn # 0
    <2> DEFINE m == Len(b.turns)
               v == [b.turns[m] EXCEPT !.runs = @ \cup {n}]
               ts == [b.turns EXCEPT ![m] = v]
    <2>1. b.turns \in Seq(PublicTurn) /\ m \in 1 .. m /\ m \in Nat /\ b.turns[m].opener = b.opener
      <3>1. b.turns \in Seq(PublicTurn) /\ b.turns # <<>> /\ Len(b.turns) \in Nat
        BY <1>1, BoardTyped DEF Boarded
      <3> QED BY <1>1, <3>1 DEF Boarded
    <2>2. v \in PublicTurn /\ v.opener = b.turns[m].opener /\ v.runs = b.turns[m].runs \cup {n}
      <3>1. b.turns[m] \in PublicTurn
        BY <2>1
      <3> HIDE DEF m
      <3> QED BY <3>1 DEF PublicTurn
    <2>3. m \in 1 .. Len(b.turns)
      BY <2>1
    <2> HIDE DEF m, v
    <2>4. ts \in Seq(PublicTurn) /\ Len(ts) = Len(b.turns)
      BY <2>1, <2>2, <2>3
    <2>5. \A i \in 1 .. Len(b.turns) :
            ts[i].opener = b.turns[i].opener /\ ts[i].runs = IF i = m THEN b.turns[i].runs \cup {n} ELSE b.turns[i].runs
      <3>1. \A i \in 1 .. Len(b.turns) : ts[i] = IF i = m THEN v ELSE b.turns[i]
        BY <2>1, <2>3
      <3> HIDE DEF ts
      <3> QED BY <2>2, <3>1
    <2> HIDE DEF ts
    <2>6. c = [b EXCEPT !.turns = ts]
      BY <1>1 DEF Routed, Current, ts, m, v, Board
    <2>7. /\ c \in Board /\ c.turn = b.turn /\ c.opener = b.opener /\ c.accepted = b.accepted
          /\ c.pending = b.pending /\ c.parked = b.parked /\ c.turns = ts /\ c.steer = b.steer
      BY <2>4, <2>6 DEF Board
    <2> HIDE DEF c
    <2>8. OpenersOf(c) = OpenersOf(b)
      BY <2>4, <2>5, <2>7 DEF OpenersOf
    <2>9. Boarded(c)
      BY <1>1, <2>1, <2>3, <2>4, <2>5, <2>7 DEF Boarded, m
    <2>10. ASSUME NEW ins, Belong(b.turns, ins), b.opener \in ins[n] PROVE Belong(c.turns, ins)
      <3> SUFFICES ASSUME NEW i \in 1 .. Len(b.turns), NEW x \in ts[i].runs PROVE ts[i].opener \in ins[x]
        BY <2>4, <2>7 DEF Belong
      <3>1. CASE x \in b.turns[i].runs
        BY <3>1, <2>5, <2>10 DEF Belong
      <3>2. CASE x \notin b.turns[i].runs
        <4>1. i = m /\ x = n
          BY <3>2, <2>5
        <4> QED BY <4>1, <2>1, <2>5, <2>10
      <3> QED BY <3>1, <3>2
    <2>11. Shown(c, b) /\ Len(c.turns) = Len(b.turns)
      BY <2>1, <2>4, <2>5, <2>7, BoardTyped DEF Shown
    <2> QED BY <1>1, <2>7, <2>8, <2>9, <2>10, <2>11 DEF c
  <1>2. CASE b.turn = 0
    <2> DEFINE u == [b.parked EXCEPT !.runs = @ \cup {n}]
    <2>1. u \in [runs : SUBSET Runs, failed : BOOLEAN] /\ u.failed = b.parked.failed
      <3>1. b.parked \in [runs : SUBSET Runs, failed : BOOLEAN]
        BY BoardTyped
      <3> QED BY <3>1
    <2> HIDE DEF u
    <2>2. c = [b EXCEPT !.parked = u]
      BY <1>2 DEF Routed, u, Board
    <2>3. /\ c \in Board /\ c.turn = b.turn /\ c.opener = b.opener /\ c.accepted = b.accepted
          /\ c.pending = b.pending /\ c.parked = u /\ c.turns = b.turns /\ c.steer = b.steer
      BY <2>1, <2>2 DEF Board
    <2> HIDE DEF c
    <2>4. Boarded(c) /\ OpenersOf(c) = OpenersOf(b)
      BY <2>3 DEF OpenersOf, Boarded
    <2>5. Shown(c, b) /\ Len(c.turns) = Len(b.turns)
      BY <2>3, BoardTyped DEF Shown
    <2> QED BY <1>2, <2>1, <2>3, <2>4, <2>5 DEF c
  <1> QED BY <1>1, <1>2

-----------------------------------------------------------------------------
(* An input is written *)

LEMMA WrittenPipes ==
  ASSUME QueuedInv, NEW s \in Sends, Send(s), Written(s), ~ (BuffersBeforeIdentity(kind) /\ ~identity)
  PROVE  LET c == CommandOf(s, board.turn # 0) IN
         /\ stdin' \in Seq(CommandsOf(kind)) /\ Extended(stdin', stdin, c) /\ IsInput(c) /\ c.token = s
         /\ lost' = lost /\ lost = {} /\ buffered = <<>>
         /\ buffered' = buffered /\ refused' = refused /\ closing' = closing /\ signal' = signal
         /\ AskedOnce' /\ Harness' /\ Losing' /\ Unannounced'
  <1> DEFINE c == CommandOf(s, board.turn # 0)
  <1>1. /\ Awake /\ ~Closed /\ s = sent + 1 /\ sent' = s /\ kind' = kind /\ identity' = identity
        /\ failure' = failure /\ eof' = eof /\ Pipe' = Pipe /\ run' = run /\ begun' = begun /\ inputs' = inputs
    BY SendKeeps
  <1>2. /\ sent \in 0 .. MaxSends /\ s \in 0 .. MaxSends /\ sent <= s /\ ~eof /\ ~closing
        /\ Ran(kind, s, run, begun, inputs) /\ After(s, s, begun, inputs) /\ RefusedSent(Pipe, s)
        /\ \A i \in 1 .. Len(Pipe) : Fails(Pipe[i]) => Pipe[i].token # s
    BY <1>1, SendFresh
  <1>3. /\ stdin' = stdin \o <<c>> /\ lost' = lost
        /\ buffered' = buffered /\ refused' = refused /\ closing' = closing /\ signal' = signal
    BY <1>2 DEF Written, Writes, Drops
  <1>4. lost = {} /\ buffered = <<>>
    BY <1>2 DEF QueuedInv, Losing, Places
  <1>5. /\ stdin \in Seq(CommandsOf(kind)) /\ Pipe \in Seq(Says) /\ begun \in 0 .. MaxSends
        /\ inputs \in [Runs -> SUBSET Sends] /\ kind \in Kinds /\ board.steer \in Runs \cup {0}
    BY Given, BoardTyped
  <1>6. c \in CommandsOf(kind) /\ c.token = s /\ IsInput(c) /\ c.mark # "identity"
    <2> DEFINE busy == board.turn # 0
    <2>1. busy \in BOOLEAN
      OBVIOUS
    <2> HIDE DEF busy
    <2> DEFINE e == EncodeSend(kind, s, busy, "none", board.steer)
    <2>2. e \in CommandsOf(kind) /\ e.token = s /\ IsInput(e) /\ e.mark # "identity"
      BY <2>1, <1>5, CommandTyped
    <2>3. c = e
      BY DEF CommandOf, busy
    <2> HIDE DEF e, c
    <2> QED BY <2>2, <2>3
  <1> HIDE DEF c
  <1>7. stdin' \in Seq(CommandsOf(kind)) /\ Extended(stdin', stdin, c)
    BY <1>3, <1>5, <1>6, OneMore
  <1>8. AskedOnce'
    <2>1. Asked(kind, identity \/ failure, stdin, Pipe)
      BY DEF QueuedInv, AskedOnce
    <2>2. OneAsk(stdin')
      BY <2>1, <1>6, <1>7 DEF Asked, OneAsk, Extended
    <2>3. NoAsk(stdin) => NoAsk(stdin')
      BY <1>6, <1>7 DEF NoAsk, Extended
    <2> QED BY <2>1, <2>2, <2>3, <1>1 DEF AskedOnce, Asked
  <1>9. Harness'
    <2>1. ToRead(stdin, sent, begun, inputs) /\ ToHear(kind, stdin, Pipe, run, begun, inputs)
      BY DEF QueuedInv, Harness
    <2>2. ToRead(stdin', s, begun, inputs)
      <3>1. sent < s
        BY <1>1, <1>2
      <3> QED BY <2>1, <3>1, <1>2, <1>5, <1>6, <1>7, ReadMore
    <2>3. ToHear(kind, stdin', Pipe, run, begun, inputs)
      BY <2>1, <1>2, <1>5, <1>6, <1>7, HearMoreRead
    <2> QED BY <2>2, <2>3, <1>1, <1>2 DEF Harness
  <1>10. Losing' /\ Unannounced'
    BY <1>1, <1>3, <1>4 DEF Losing, Unannounced
  <1> QED BY <1>3, <1>4, <1>6, <1>7, <1>8, <1>9, <1>10 DEF c

(* codex owes an answer. *)
LEMMA AskedOfStep ==
  ASSUME QueuedInv, NEW s \in Sends, Send(s), Written(s), ~ (BuffersBeforeIdentity(kind) /\ ~identity),
         kind = "codex"
  PROVE  QueuedInv'
  <1> DEFINE c == CommandOf(s, board.turn # 0)
  <1>1. /\ Awake /\ ~Closed /\ s = sent + 1 /\ sent' = s
        /\ kind' = kind /\ identity' = identity /\ failure' = failure /\ closer' = closer /\ eof' = eof
        /\ stalled' = stalled /\ exit' = exit /\ cause' = cause /\ stdout' = stdout /\ dropped' = dropped
        /\ run' = run /\ begun' = begun /\ inputs' = inputs
        /\ Pipe' = Pipe /\ ~Finalized' /\ (Closed' <=> closing') /\ Refusal' /\ RefusedOpenTold'
        /\ (closing' \in BOOLEAN => Ending')
    BY SendKeeps
  <1>2. /\ sent \in Nat /\ sent <= s /\ s \in 0 .. MaxSends /\ s \in 1 .. s /\ ~Finalized /\ ~failure
        /\ s \notin Members(board.pending) \cup OpenersOf(board) \cup awaiting \cup lost \cup dropped
                     \cup refused \cup Members(buffered)
        /\ told[s] = "none" /\ \A x \in Sends : x > s => told[x] = "none"
    BY <1>1, SendFresh
  <1>3. /\ stdin' \in Seq(CommandsOf(kind)) /\ Extended(stdin', stdin, c) /\ IsInput(c) /\ c.token = s
        /\ lost' = lost /\ lost = {} /\ buffered = <<>>
        /\ buffered' = buffered /\ refused' = refused /\ closing' = closing /\ signal' = signal
        /\ AskedOnce' /\ Harness' /\ Losing' /\ Unannounced'
    BY WrittenPipes
  <1> HIDE DEF c
  <1>4. awaiting' = awaiting \cup {s} /\ told' = told /\ board' = board
    BY DEF Written, HasNativeReceipts
  <1>5. Types'
    <2>1. TypeOK'
      BY <1>1, <1>2, <1>3, <1>4 DEF QueuedInv, Types, TypeOK
    <2> QED BY <1>1, <1>3, <2>1 DEF QueuedInv, Types
  <1>6. Boarded(board)'
    BY <1>4 DEF QueuedInv
  <1>7. Places'
    <2> DEFINE T == awaiting' \cup lost \cup dropped \cup refused \cup Members(buffered)
               A == awaiting \cup lost \cup dropped \cup refused \cup Members(buffered)
    <2>1. Placed(board, sent, A)
      BY DEF QueuedInv, Places
    <2>2. T \subseteq A \cup 1 .. s /\ s \in Nat
      BY <1>2, <1>4, Sized
    <2> HIDE DEF T, A
    <2>3. Placed(board, s, T)
      BY <1>2, <2>1, <2>2, PlacedMore
    <2>4. Placed(board, sent, awaiting \cup lost \cup dropped \cup refused \cup Members(buffered))'
      BY <2>3, <1>1, <1>3, <1>4 DEF T
    <2>5. \A x \in awaiting' : kind = "codex" /\ told[x] = "none" /\ x \notin refused
      <3>1. \A x \in awaiting : kind = "codex" /\ told[x] = "none" /\ x \notin refused
        BY DEF QueuedInv, Places
      <3> QED BY <3>1, <1>2, <1>4
    <2>6. \A x \in Sends : x > s => told'[x] = "none"
      BY <1>2, <1>4
    <2> QED BY <2>4, <2>5, <2>6, <1>1, <1>3, <1>4 DEF QueuedInv, Places
  <1>8. Queued'
    BY <1>1 DEF Queued
  <1>9. Steered'
    <2>1. /\ Owing(awaiting, stdin, Pipe)
          /\ ~stalled =>
               /\ board.parked.runs = {}
               /\ board.turn # 0 => Oldest(board.opener, Pipe, run, inputs)
               /\ Introduced(board.opener, Pipe, run, inputs)
      BY <1>2 DEF QueuedInv, Steered
    <2>2. Owing(awaiting', stdin', Pipe)
      BY <2>1, <1>3, <1>4 DEF Owing, Extended
    <2> QED BY <2>1, <2>2, <1>1, <1>4 DEF Steered
  <1>10. OutputBelongs'
    BY <1>1, <1>4 DEF QueuedInv, OutputBelongs
  <1> QED BY <1>1, <1>3, <1>5, <1>6, <1>7, <1>8, <1>9, <1>10, LifeTyped DEF QueuedInv

(* popeye and antigravity run it in its place. *)
LEMMA HeldTyped ==
  ASSUME QueuedInv
  PROVE  \A s \in Held(board) : s \in Sends /\ s \in 1 .. sent
  <1>1. board.opener \in Sends \cup {0} /\ board.pending \in Seq(Sends) /\ Boarded(board)
    BY Given, BoardTyped DEF QueuedInv
  <1>2. \A s \in Held(board) : s \in Sends
    BY <1>1, MembersTyped DEF Held, Boarded
  <1>3. Members(board.pending) \cup OpenersOf(board) \subseteq 1 .. sent
    BY DEF QueuedInv, Places, Placed
  <1>4. board.turn # 0 => board.opener \in OpenersOf(board)
    <2>1. Len(board.turns) \in Nat
      BY Given, BoardTyped
    <2>2. board.turn # 0 => Len(board.turns) \in 1 .. Len(board.turns)
      BY <1>1, <2>1 DEF Boarded
    <2> QED BY <2>2, <1>1 DEF Boarded, OpenersOf
  <1> QED BY <1>2, <1>3, <1>4 DEF Held

LEMMA InPlaceStep ==
  ASSUME QueuedInv, NEW s \in Sends, Send(s), Written(s), ~ (BuffersBeforeIdentity(kind) /\ ~identity),
         kind # "codex"
  PROVE  QueuedInv'
  <1> DEFINE c == CommandOf(s, board.turn # 0)
  <1>1. /\ Awake /\ ~Closed /\ s = sent + 1 /\ sent' = s
        /\ kind' = kind /\ identity' = identity /\ failure' = failure /\ closer' = closer /\ eof' = eof
        /\ stalled' = stalled /\ exit' = exit /\ cause' = cause /\ stdout' = stdout /\ dropped' = dropped
        /\ run' = run /\ begun' = begun /\ inputs' = inputs
        /\ Pipe' = Pipe /\ ~Finalized' /\ (Closed' <=> closing') /\ Refusal' /\ RefusedOpenTold'
        /\ (closing' \in BOOLEAN => Ending')
    BY SendKeeps
  <1>2. /\ sent \in Nat /\ sent <= s /\ s \in 0 .. MaxSends /\ s \in 1 .. s /\ ~Finalized /\ ~failure /\ ~closing
        /\ s \notin Members(board.pending) \cup OpenersOf(board) \cup awaiting \cup lost \cup dropped
                     \cup refused \cup Members(buffered)
        /\ told[s] = "none" /\ \A x \in Sends : x > s => told[x] = "none"
    BY <1>1, SendFresh
  <1>3. /\ stdin' \in Seq(CommandsOf(kind)) /\ Extended(stdin', stdin, c) /\ IsInput(c) /\ c.token = s
        /\ lost' = lost /\ lost = {} /\ buffered = <<>>
        /\ buffered' = buffered /\ refused' = refused /\ closing' = closing /\ signal' = signal
        /\ AskedOnce' /\ Harness' /\ Losing' /\ Unannounced'
    BY WrittenPipes
  <1> HIDE DEF c
  <1>4. /\ kind \in Kinds /\ board \in Board /\ Boarded(board)
        /\ told \in [Sends -> {"none", "started", "native-rejected", "write-failed", "closed"}]
    BY Given DEF QueuedInv
  <1>5. /\ awaiting' = awaiting /\ told' = [told EXCEPT ![s] = "started"]
        /\ board' = IF board.turn # 0 THEN [board EXCEPT !.pending = Append(@, s)] ELSE Started(board, s)
    BY <1>4 DEF Written, HasNativeReceipts, Kinds
  <1>6. awaiting = {}
    BY DEF QueuedInv, Places
  <1>7. /\ told' \in [Sends -> {"none", "started", "native-rejected", "write-failed", "closed"}]
        /\ \A x \in Sends : x # s => told'[x] = told[x]
    BY <1>4, <1>5
  <1>8. /\ InLine(board) /\ (board.turn = 0 => board.pending = <<>>)
        /\ ~stalled => /\ board.parked.runs = {}
                       /\ board.turn # 0 => \A x \in Held(board) : Due(x, stdin, Pipe, run, inputs)
                       /\ Serves(Held(board), stdin, Pipe, run, inputs)
    <2>1. kind # "codex" /\ ~Finalized /\ ~Closed /\ lost = {}
      BY <1>1, <1>2, <1>3
    <2> QED BY <2>1 DEF QueuedInv, Queued
  <1>9. board.pending \in Seq(Sends) /\ \A x \in Held(board) : x < s /\ x \in Sends
    <2>1. board.pending \in Seq(Sends)
      BY <1>4, BoardTyped
    <2> QED BY <2>1, <1>1, <1>2, HeldTyped
  <1>10. /\ board' \in Board /\ Boarded(board') /\ board'.turn # 0 /\ InLine(board')
         /\ Held(board') = Held(board) \cup {s}
         /\ Members(board'.pending) \cup OpenersOf(board') \subseteq Members(board.pending) \cup OpenersOf(board) \cup {s}
         /\ Members(board'.pending) \subseteq Members(board.pending) \cup {s}
         /\ ~stalled => Belong(board'.turns, inputs) /\ board'.parked.runs = {}
    <2>0. ~stalled => Belong(board.turns, inputs)
      BY Belongs DEF QueuedInv
    <2>1. CASE board.turn # 0
      <3> DEFINE q == Append(board.pending, s)
      <3>1. /\ q \in Seq(Sends) /\ Members(q) = Members(board.pending) \cup {s}
            /\ Extended(q, board.pending, s)
        BY <1>9, AppendExtends, MembersAppend
      <3> HIDE DEF q
      <3>2. board' = [board EXCEPT !.pending = q]
        BY <2>1, <1>5 DEF q
      <3>3. /\ board' \in Board /\ board'.turn = board.turn /\ board'.opener = board.opener
            /\ board'.accepted = board.accepted /\ board'.pending = q /\ board'.turns = board.turns
            /\ board'.parked = board.parked
        BY <3>1, <3>2, <1>4 DEF Board
      <3>4. Boarded(board') /\ OpenersOf(board') = OpenersOf(board) /\ Held(board') = Held(board) \cup {s}
        BY <2>1, <3>1, <3>3, <1>4 DEF Boarded, OpenersOf, Held
      <3>5. InLine(board')
        <4>1. /\ ~board.accepted
              /\ \A i \in 1 .. Len(board.pending) : board.opener < board.pending[i]
              /\ \A i, j \in 1 .. Len(board.pending) : i < j => board.pending[i] < board.pending[j]
          BY <1>8 DEF InLine
        <4>2. board.opener < s /\ \A i \in 1 .. Len(board.pending) : board.pending[i] < s
          BY <2>1, <1>9, MembersTyped DEF Held
        <4>3. \A i \in 1 .. Len(q) : board.opener < q[i]
          BY <4>1, <4>2, <3>1 DEF Extended
        <4>4. ASSUME NEW i \in 1 .. Len(q), NEW j \in 1 .. Len(q), i < j PROVE q[i] < q[j]
          <5>1. i \in 1 .. Len(board.pending) /\ q[i] = board.pending[i]
            BY <4>4, <3>1 DEF Extended
          <5>2. (j \in 1 .. Len(board.pending) /\ q[j] = board.pending[j]) \/ q[j] = s
            BY <3>1 DEF Extended
          <5> QED BY <5>1, <5>2, <4>1, <4>2, <4>4
        <4> QED BY <4>1, <4>3, <4>4, <3>3 DEF InLine
      <3> QED BY <2>0, <2>1, <3>1, <3>3, <3>4, <3>5, <1>8
    <2>2. CASE board.turn = 0
      <3>1. board' = Started(board, s)
        BY <2>2, <1>5
      <3>2. board' \in Board /\ Opens(board', board, s) /\ board'.pending = <<>>
        BY <3>1, <2>2, <1>4, <1>8, StartedOpens
      <3>3. /\ OpenersOf(board') = OpenersOf(board) \cup {s} /\ Boarded(board') /\ board'.parked.runs = {}
            /\ Belong(board.turns, inputs) /\ board.parked.runs = {} => Belong(board'.turns, inputs)
        BY <3>2, <1>4, OpensKeep, OpensBelong
      <3>4. Held(board') = {s} /\ Held(board) = {} /\ Members(board'.pending) = {}
        BY <2>2, <3>2, <1>8 DEF Held, Opens, Members
      <3>5. InLine(board')
        BY <3>2 DEF InLine, Opens
      <3> QED BY <2>0, <3>2, <3>3, <3>4, <3>5, <1>8 DEF Opens
    <2> QED BY <2>1, <2>2
  <1>11. Types'
    <2>1. TypeOK'
      BY <1>1, <1>2, <1>3, <1>5, <1>7, <1>10 DEF QueuedInv, Types, TypeOK
    <2> QED BY <1>1, <1>3, <2>1 DEF QueuedInv, Types
  <1>12. Places'
    <2>1. Members(board.pending) \cup OpenersOf(board) \cup
            (awaiting \cup lost \cup dropped \cup refused \cup Members(buffered)) \subseteq 1 .. sent
      BY DEF QueuedInv, Places, Placed
    <2>2. 1 .. sent \subseteq 1 .. s /\ {s} \subseteq 1 .. s
      BY <1>2, Sized
    <2> DEFINE T == awaiting \cup lost \cup dropped \cup refused \cup Members(buffered)
    <2>3. Placed(board', s, T)
      <3>1. T \subseteq 1 .. s
        BY <2>1, <2>2
      <3>2. Members(board'.pending) \cup OpenersOf(board') \subseteq 1 .. s
        BY <2>1, <2>2, <1>10
      <3> HIDE DEF T
      <3> QED BY <3>1, <3>2 DEF Placed
    <2>6. Placed(board, sent, awaiting \cup lost \cup dropped \cup refused \cup Members(buffered))'
      BY <2>3, <1>1, <1>3, <1>5
    <2>4. \A x \in Sends : x > s => told'[x] = "none"
      BY <1>2, <1>7, Sized
    <2>5. \A x \in Members(buffered) \cup Members(board'.pending) : x \notin refused
      BY <1>2, <1>10 DEF QueuedInv, Places
    <2> QED BY <2>6, <2>4, <2>5, <1>1, <1>3, <1>5, <1>6 DEF QueuedInv, Places
  <1>13. Queued'
    <2>1. ASSUME ~stalled
          PROVE  /\ \A x \in Held(board') : Due(x, stdin', Pipe, run, inputs)
                 /\ Serves(Held(board'), stdin', Pipe, run, inputs)
      <3>1. Due(s, stdin', Pipe, run, inputs)
        <4>1. Len(stdin') \in 1 .. Len(stdin') /\ stdin'[Len(stdin')] = c
          BY <1>3 DEF Extended
        <4> QED BY <4>1, <1>3 DEF Due
      <3>2. ASSUME NEW x \in Held(board) PROVE Due(x, stdin', Pipe, run, inputs)
        <4>1. board.turn # 0
          BY <3>2, <1>8 DEF Held, Members
        <4>2. Due(x, stdin, Pipe, run, inputs)
          BY <4>1, <2>1, <1>8
        <4>3. ASSUME NEW i \in 1 .. Len(stdin), IsInput(stdin[i]) PROVE Due(stdin[i].token, stdin', Pipe, run, inputs)
          BY <4>3, <1>3 DEF Extended, Due
        <4>4. run.no # 0 => \A y \in inputs[run.no] : Due(y, stdin', Pipe, run, inputs)
          BY DEF Due
        <4>5. Grown(Pipe, Pipe)
          BY DEF Grown
        <4> QED BY <4>2, <4>3, <4>4, <4>5, DueKept
      <3>3. Serves(Held(board'), stdin', Pipe, run, inputs)
        <4>1. Serves(Held(board), stdin, Pipe, run, inputs)
          BY <2>1, <1>8
        <4>2. \A i \in 1 .. Len(stdin') : IsInput(stdin'[i]) => stdin'[i].token \in Held(board')
          BY <4>1, <1>3, <1>10 DEF Serves, Extended
        <4> QED BY <4>1, <4>2, <1>10 DEF Serves
      <3> QED BY <3>1, <3>2, <3>3, <1>10
    <2> QED BY <2>1, <1>1, <1>10 DEF Queued
  <1>14. Steered'
    BY <1>1 DEF Steered
  <1>15. OutputBelongs'
    BY <1>1, <1>10 DEF OutputBelongs, Belong
  <1> QED BY <1>1, <1>2, <1>3, <1>10, <1>11, <1>12, <1>13, <1>14, <1>15, LifeTyped DEF QueuedInv

LEMMA SendStep ==
  ASSUME QueuedInv, NEW s \in Sends, Send(s)
  PROVE  QueuedInv'
  <1>1. CASE Buffer(s)
    BY <1>1, BufferStep
  <1>2. CASE ~ (BuffersBeforeIdentity(kind) /\ ~identity) /\ Written(s)
    BY <1>2, AskedOfStep, InPlaceStep
  <1>3. CASE ~ (BuffersBeforeIdentity(kind) /\ ~identity) /\ WriteFails(s)
    BY <1>3, WriteFailsStep
  <1> QED BY <1>1, <1>2, <1>3 DEF Send

-----------------------------------------------------------------------------
(* hcn reads a record *)

First == Pipe[1]
Rest == PipeOf(kind, Tail(stdout))

LEMMA ReadFacts ==
  ASSUME QueuedInv, Reads
  PROVE  /\ Awake /\ ~Finalized /\ stdout # <<>> /\ 1 \in 1 .. Len(Pipe) /\ Pipe # <<>>
         /\ First \in Says /\ First.run \in Runs \cup {0} /\ First.token \in Sends \cup {0}
         /\ Meant.kind = First.kind /\ Meant.token = First.token /\ Head(stdout).run = First.run
         /\ stdout' = Tail(stdout) /\ stdout' \in Seq(Records) /\ Rest \in Seq(Says) /\ Kept(Rest, Pipe, 1)
         /\ PipeOf(kind, stdout') = Rest
  <1>1. Awake /\ ~Finalized /\ stdout # <<>> /\ stdout' = Tail(stdout)
    BY DEF Reads, Awake
  <1>2. stdout \in Seq(Records) /\ PipeOf(kind, stdout) \in Seq(Says)
    BY Given DEF Pipe
  <1>3. /\ Tail(stdout) \in Seq(Records) /\ Rest \in Seq(Says)
        /\ Kept(Rest, Pipe, 1) /\ Pipe # <<>> /\ 1 \in 1 .. Len(Pipe) /\ First = Said(kind, Head(stdout))
        /\ First \in Says
    BY <1>1, <1>2, PipeReads DEF Pipe, First, Rest
  <1>4. First.run \in Runs \cup {0} /\ First.token \in Sends \cup {0}
    BY <1>3 DEF Says
  <1>5. Meant.kind = First.kind /\ Meant.token = First.token /\ Head(stdout).run = First.run
    BY <1>3 DEF Meant, Said
  <1> QED BY <1>1, <1>3, <1>4, <1>5 DEF Rest

LEMMA ReadRest ==
  ASSUME QueuedInv, Reads
  PROVE  /\ ToHear(kind, stdin, Rest, run, begun, inputs) /\ RefusedSent(Rest, sent)
         /\ Asked(kind, identity \/ failure, stdin, Rest)
         /\ Announces(First) => ~identity /\ ~failure /\ kind # "antigravity" /\ NoAsk(stdin) /\ NoWord(Rest)
         /\ Quiet(Pipe) => Quiet(Rest) /\ ~ OfRun(First) /\ ~ Fails(First)
         /\ kind = "codex" => Owing(awaiting, stdin, Rest)
  <1>1. /\ ~Finalized /\ 1 \in 1 .. Len(Pipe) /\ Pipe # <<>> /\ Rest \in Seq(Says) /\ Kept(Rest, Pipe, 1)
        /\ Pipe \in Seq(Says)
    BY ReadFacts, Given
  <1>2. ToHear(kind, stdin, Pipe, run, begun, inputs) /\ RefusedSent(Pipe, sent)
    BY DEF QueuedInv, Harness
  <1>3. ToHear(kind, stdin, Rest, run, begun, inputs)
    BY <1>1, <1>2, HearFewer
  <1>4. RefusedSent(Rest, sent)
    BY <1>1, <1>2 DEF RefusedSent, Kept
  <1>5. Asked(kind, identity \/ failure, stdin, Pipe)
    BY DEF QueuedInv, AskedOnce
  <1>6. OneWord(Rest) /\ (Announces(First) => NoWord(Rest))
    <2>1. OneWord(Pipe)
      BY <1>5 DEF Asked
    <2>2. ASSUME NEW i \in 1 .. Len(Rest), NEW j \in 1 .. Len(Rest), Announces(Rest[i]), Announces(Rest[j])
          PROVE  i = j
      <3>1. Skip(1, i) = Skip(1, j)
        BY <2>1, <2>2, <1>1 DEF OneWord, Kept
      <3>2. Skip(1, i) \in 1 .. Len(Pipe) /\ Skip(1, j) \in 1 .. Len(Pipe) /\ (i < j \/ j < i \/ i = j)
        BY <1>1 DEF Kept
      <3> QED BY <3>1, <3>2, <1>1 DEF Kept
    <2>3. ASSUME NEW i \in 1 .. Len(Rest), Announces(Rest[i]), Announces(First) PROVE FALSE
      <3>1. Skip(1, i) \in 1 .. Len(Pipe) /\ Skip(1, i) # 1 /\ Rest[i] = Pipe[Skip(1, i)]
        BY <1>1 DEF Kept
      <3> QED BY <2>1, <2>3, <3>1, <1>1 DEF OneWord, First
    <2> QED BY <2>2, <2>3 DEF OneWord, NoWord
  <1>7. NoWord(Pipe) => NoWord(Rest)
    BY <1>1 DEF NoWord, Kept
  <1>8. Asked(kind, identity \/ failure, stdin, Rest)
    BY <1>5, <1>6, <1>7 DEF Asked
  <1>9. Announces(First) => ~identity /\ ~failure /\ kind # "antigravity" /\ NoAsk(stdin)
    <2>1. Announces(First) => ~ NoWord(Pipe)
      BY <1>1 DEF NoWord, First
    <2> QED BY <2>1, <1>5 DEF Asked
  <1>10. Quiet(Pipe) => Quiet(Rest) /\ ~ OfRun(First) /\ ~ Fails(First)
    BY <1>1 DEF Quiet, Kept, First
  <1>11. kind = "codex" => Owing(awaiting, stdin, Rest)
    <2>1. kind = "codex" => Owing(awaiting, stdin, Pipe)
      BY <1>1 DEF QueuedInv, Steered
    <2> QED BY <2>1, <1>1 DEF Owing, Kept
  <1> QED BY <1>3, <1>4, <1>6, <1>8, <1>9, <1>10, <1>11

(* What reading does to the pipes. *)
LEMMA ReadSteps ==
  ASSUME QueuedInv, Reads, NativeStill, stdin' = stdin, kind' = kind, sent' = sent, identity' = identity,
         failure' = failure \/ Announces(First)
  PROVE  /\ stdout' \in Seq(Records) /\ Pipe' = Rest /\ Pipe' \in Seq(Says)
         /\ run' = run /\ begun' = begun /\ inputs' = inputs
         /\ AskedOnce' /\ Harness'
         /\ (lost' = lost /\ (closing => closing') => Losing')
  <1>1. run' = run /\ begun' = begun /\ inputs' = inputs
    BY DEF NativeStill, native
  <1>2. stdout' \in Seq(Records) /\ PipeOf(kind, stdout') = Rest /\ Rest \in Seq(Says)
    BY ReadFacts
  <1>3. Pipe' = Rest
    BY <1>2 DEF Pipe
  <1>4. AskedOnce'
    <2>1. /\ Asked(kind, identity \/ failure, stdin, Rest)
          /\ Announces(First) => NoAsk(stdin) /\ NoWord(Rest)
      BY ReadRest
    <2>2. Asked(kind, identity \/ failure', stdin, Rest)
      <3>1. CASE failure' = failure
        BY <2>1, <3>1
      <3>2. CASE Announces(First)
        BY <2>1, <3>2 DEF Asked
      <3> QED BY <3>1, <3>2
    <2> QED BY <2>2, <1>3 DEF AskedOnce
  <1>5. Harness'
    <2>1. ToHear(kind, stdin, Rest, run, begun, inputs) /\ RefusedSent(Rest, sent)
      BY ReadRest
    <2> QED BY <2>1, <1>1, <1>3 DEF QueuedInv, Harness
  <1>6. lost' = lost /\ (closing => closing') => Losing'
    BY <1>1 DEF QueuedInv, Losing
  <1> QED BY <1>1, <1>2, <1>3, <1>4, <1>5, <1>6

LEMMA DueFewer ==
  ASSUME NEW c, NEW p, 1 \in 1 .. Len(p), NEW r, NEW ins, NEW q, Kept(q, p, 1), NEW s, Due(s, c, p, r, ins)
  PROVE  \/ Due(s, c, q, r, ins)
         \/ Ends(p[1]) /\ s \in ins[p[1].run]
         \/ Fails(p[1]) /\ p[1].token = s
  <1>1. CASE \E i \in 1 .. Len(p) : Ends(p[i]) /\ s \in ins[p[i].run]
    BY <1>1 DEF Kept, Due
  <1>2. CASE \E i \in 1 .. Len(p) : Fails(p[i]) /\ p[i].token = s
    BY <1>2 DEF Kept, Due
  <1>3. CASE \E i \in 1 .. Len(c) : IsInput(c[i]) /\ c[i].token = s
    BY <1>3 DEF Due
  <1>4. CASE r.no # 0 /\ s \in ins[r.no]
    BY <1>4 DEF Due
  <1> QED BY <1>1, <1>2, <1>3, <1>4 DEF Due

LEMMA ServesFewer ==
  ASSUME NEW H, NEW c, NEW p, 1 \in 1 .. Len(p), NEW r, NEW ins, NEW q, Kept(q, p, 1), Serves(H, c, p, r, ins)
  PROVE  Serves(H, c, q, r, ins) /\ (OfRun(p[1]) => ins[p[1].run] \subseteq H)
  BY DEF Serves, Kept

(* On the kinds that run in order, what is still due is not before the     *)
(* input of the record read first.                                         *)
LEMMA DueOrder ==
  ASSUME NEW k, k # "codex", NEW n, NEW b \in 0 .. MaxSends, NEW c, NEW p \in Seq(Says), 1 \in 1 .. Len(p),
         NEW r \in Going, NEW ins \in [Runs -> SUBSET Sends],
         Ran(k, n, r, b, ins), ToRead(c, n, b, ins), ToHear(k, c, p, r, b, ins),
         OfRun(p[1]), NEW x \in ins[p[1].run], NEW s \in Sends, Due(s, c, p, r, ins)
  PROVE  p[1].run \in Runs /\ x \in Sends /\ x <= s
  <1> DEFINE m == p[1].run
  <1>1. m \in 1 .. b /\ m \in Runs
    <2>1. m \in 1 .. b
      BY DEF ToHear, RunsKnown
    <2> QED BY <2>1, Sized DEF Runs
  <1>2. x \in Sends
    BY <1>1
  <1>3. /\ \A l, j \in Runs : l < j => \A y \in ins[l], z \in ins[j] : y < z
        /\ \A j \in Runs : \A y, z \in ins[j] : y = z
    BY DEF Ran
  <1>4. ASSUME NEW j \in Runs, m <= j, s \in ins[j] PROVE x <= s
    <2>1. CASE m < j
      BY <2>1, <1>1, <1>2, <1>3, <1>4, Sized
    <2>2. CASE m = j
      BY <2>2, <1>2, <1>3, <1>4, Sized
    <2> QED BY <2>1, <2>2, <1>1, <1>4, Sized
  <1>5. CASE \E i \in 1 .. Len(c) : IsInput(c[i]) /\ c[i].token = s
    BY <1>1, <1>2, <1>5, Sized DEF ToRead, After
  <1>6. CASE r.no # 0 /\ s \in ins[r.no]
    <2>1. r.no = b /\ r.no \in Runs
      BY <1>6 DEF Ran, Going
    <2> QED BY <2>1, <1>1, <1>4, <1>6
  <1>7. CASE \E i \in 1 .. Len(p) : Ends(p[i]) /\ s \in ins[p[i].run]
    <2>1. PICK i \in 1 .. Len(p) : Ends(p[i]) /\ s \in ins[p[i].run]
      BY <1>7
    <2>2. OfRun(p[i]) /\ p[i].run \in 1 .. b /\ p[i].run \in Runs
      <3>1. OfRun(p[i])
        BY <2>1, KindsApart
      <3>2. p[i].run \in 1 .. b
        BY <3>1 DEF ToHear, RunsKnown
      <3> QED BY <3>1, <3>2, Sized DEF Runs
    <2>3. m <= p[i].run
      <3>1. CASE i = 1
        BY <3>1, <1>1
      <3>2. CASE i # 1
        <4>1. 1 < i
          BY <3>2
        <4> QED BY <4>1, <2>2 DEF ToHear, InOrder, Follows
      <3> QED BY <3>1, <3>2
    <2> QED BY <2>1, <2>2, <2>3, <1>1, <1>2, <1>4
  <1>8. CASE \E i \in 1 .. Len(p) : Fails(p[i]) /\ p[i].token = s
    <2>1. PICK i \in 1 .. Len(p) : Fails(p[i]) /\ p[i].token = s
      BY <1>8
    <2>2. 1 < i
      BY <2>1, KindsApart
    <2>3. Behind(p[1], p[i], ins)
      BY <2>2 DEF ToHear, Overtaken
    <2>4. x < s
      BY <2>1, <2>3 DEF Behind
    <2> QED BY <2>4, <1>1, <1>2, Sized
  <1> QED BY <1>1, <1>2, <1>5, <1>6, <1>7, <1>8 DEF Due

LEMMA OldestFewer ==
  ASSUME NEW o, NEW p, 1 \in 1 .. Len(p), NEW r, NEW ins, NEW q, Kept(q, p, 1), ~ Ends(p[1]),
         Oldest(o, p, r, ins)
  PROVE  Oldest(o, q, r, ins)
  <1>1. PICK n \in Runs : /\ o \in ins[n]
                          /\ \A i \in 1 .. Len(p) : OfRun(p[i]) => p[i].run >= n
                          /\ n = r.no \/ EndIn(p, n)
    BY DEF Oldest
  <1>2. \A i \in 1 .. Len(q) : OfRun(q[i]) => q[i].run >= n
    BY <1>1 DEF Kept
  <1>3. n = r.no \/ EndIn(q, n)
    BY <1>1 DEF Kept, EndIn
  <1> QED BY <1>1, <1>2, <1>3 DEF Oldest

(* An answer in a pipe that lost its first record, which was another. *)
LEMMA AnsweredFewer ==
  ASSUME NEW p \in Seq(Says), 1 \in 1 .. Len(p), NEW q \in Seq(Says), Kept(q, p, 1), NEW n,
         ~ (Accepts(p[1]) /\ p[1].run = n)
  PROVE  /\ AnsweredBy(Len(p), p, n) => AnsweredBy(Len(q), q, n)
         /\ \A i \in 1 .. Len(q) : AnsweredBy(Skip(1, i), p, n) => AnsweredBy(i, q, n)
  <1>1. Len(p) \in Nat /\ Len(q) \in Nat
    OBVIOUS
  <1>2. ASSUME NEW j \in 1 .. Len(p), Accepts(p[j]), p[j].run = n
        PROVE  \E m \in 1 .. Len(q) : m + 1 = j /\ Accepts(q[m]) /\ q[m].run = n
    <2>1. j # 1
      BY <1>2
    <2>2. PICK m \in 1 .. Len(q) : Skip(1, m) = j /\ q[m] = p[j]
      BY <2>1 DEF Kept
    <2>3. m + 1 = j
      BY <2>2, <1>1 DEF Skip
    <2> QED BY <2>2, <2>3, <1>2
  <1>3. AnsweredBy(Len(p), p, n) => AnsweredBy(Len(q), q, n)
    BY <1>2 DEF AnsweredBy
  <1>4. ASSUME NEW i \in 1 .. Len(q), AnsweredBy(Skip(1, i), p, n) PROVE AnsweredBy(i, q, n)
    <2>1. Skip(1, i) = i + 1 /\ i + 1 \in 1 .. Len(p)
      BY <1>1 DEF Skip, Kept
    <2>2. PICK j \in 1 .. i + 1 : Accepts(p[j]) /\ p[j].run = n
      BY <1>4, <2>1 DEF AnsweredBy
    <2>3. j \in 1 .. Len(p)
      BY <2>1, <2>2, <1>1
    <2>4. PICK m \in 1 .. Len(q) : m + 1 = j /\ Accepts(q[m]) /\ q[m].run = n
      BY <2>2, <2>3, <1>2
    <2>5. m \in 1 .. i
      BY <2>2, <2>4, <1>1
    <2> QED BY <2>4, <2>5 DEF AnsweredBy
  <1> QED BY <1>3, <1>4

(* The turn's input is o and becomes u: a run that answers o and not u is  *)
(* over, and hcn reads no answer of another that it needs.                 *)
LEMMA IntroducedRest ==
  ASSUME NEW o, NEW u, NEW p \in Seq(Says), 1 \in 1 .. Len(p), NEW r, NEW ins, NEW q \in Seq(Says), Kept(q, p, 1),
         Introduced(o, p, r, ins),
         r.no # 0 /\ ~ Covers(u, r.no, ins) => ~ Covers(o, r.no, ins) /\ ~ (Accepts(p[1]) /\ p[1].run = r.no),
         \A i \in 1 .. Len(p) : i # 1 /\ OfRun(p[i]) /\ ~ Covers(u, p[i].run, ins) =>
           ~ Covers(o, p[i].run, ins) /\ ~ (Accepts(p[1]) /\ p[1].run = p[i].run)
  PROVE  Introduced(u, q, r, ins)
  <1>1. r.no # 0 /\ ~ Covers(u, r.no, ins) => AnsweredBy(Len(q), q, r.no)
    BY AnsweredFewer DEF Introduced
  <1>2. ASSUME NEW i \in 1 .. Len(q), OfRun(q[i]), ~ Covers(u, q[i].run, ins)
        PROVE  AnsweredBy(i, q, q[i].run)
    <2>1. Skip(1, i) \in 1 .. Len(p) /\ Skip(1, i) # 1 /\ q[i] = p[Skip(1, i)]
      BY DEF Kept
    <2>2. ~ Covers(o, q[i].run, ins) /\ ~ (Accepts(p[1]) /\ p[1].run = q[i].run)
      BY <1>2, <2>1
    <2>3. AnsweredBy(Skip(1, i), p, q[i].run)
      BY <1>2, <2>1, <2>2 DEF Introduced
    <2> QED BY <2>2, <2>3, AnsweredFewer
  <1> QED BY <1>1, <1>2 DEF Introduced

LEMMA IntroducedFewer ==
  ASSUME NEW o, NEW p \in Seq(Says), 1 \in 1 .. Len(p), NEW r, NEW ins, NEW q \in Seq(Says), Kept(q, p, 1),
         Introduced(o, p, r, ins), ~ Accepts(p[1])
  PROVE  Introduced(o, q, r, ins)
  BY IntroducedRest

(* The output at hand is the open turn's. *)
LEMMA HeadsOwn ==
  ASSUME QueuedInv, kind # "codex", ~stalled, ~Finalized, 1 \in 1 .. Len(Pipe), OfRun(First)
  PROVE  /\ First.run \in Runs /\ lost = {}
         /\ board.turn # 0 => inputs[First.run] = {board.opener}
         /\ board.turn = 0 => Closed
  <1>1. /\ sent \in 0 .. MaxSends /\ begun \in 0 .. MaxSends /\ Pipe \in Seq(Says) /\ run \in Going
        /\ inputs \in [Runs -> SUBSET Sends] /\ board \in Board
    BY Given
  <1>2. /\ Ran(kind, sent, run, begun, inputs) /\ ToRead(stdin, sent, begun, inputs)
        /\ ToHear(kind, stdin, Pipe, run, begun, inputs)
    BY DEF QueuedInv, Harness
  <1>3. First.run \in 1 .. begun /\ First.run \in Runs
    <2>1. First.run \in 1 .. begun
      BY <1>2 DEF ToHear, RunsKnown, First
    <2> QED BY <2>1, <1>1, Sized DEF Runs
  <1>4. inputs[First.run] # {} /\ lost = {}
    <2>1. ~ (First.run > begun) /\ begun # 0
      BY <1>1, <1>3
    <2> QED BY <2>1, <1>2, <1>3 DEF Ran, QueuedInv, Losing
  <1>5. /\ InLine(board) /\ (~Closed /\ board.turn = 0 => board.pending = <<>>)
        /\ board.turn # 0 => \A s \in Held(board) : s \in lost \/ Due(s, stdin, Pipe, run, inputs)
        /\ board.turn # 0 \/ ~Closed => Serves(Held(board), stdin, Pipe, run, inputs)
    BY DEF QueuedInv, Queued
  <1>6. board.turn # 0 \/ ~Closed => inputs[First.run] \subseteq Held(board)
    BY <1>5 DEF Serves, First
  <1>7. board.turn = 0 => Closed
    <2>1. board.turn = 0 /\ ~Closed => Held(board) = {}
      BY <1>5 DEF Held, Members
    <2> QED BY <2>1, <1>4, <1>6
  <1>8. ASSUME board.turn # 0 PROVE inputs[First.run] = {board.opener}
    <2> DEFINE o == board.opener
    <2>1. o \in Held(board) /\ o \in Sends /\ Due(o, stdin, Pipe, run, inputs)
      BY <1>4, <1>5, <1>8, HeldTyped DEF Held
    <2>2. ASSUME NEW x \in inputs[First.run] PROVE x = o
      <3>1. x \in Sends /\ x <= o
        <4>1. OfRun(Pipe[1]) /\ x \in inputs[Pipe[1].run]
          BY <2>2 DEF First
        <4> HIDE DEF o
        <4> QED BY <4>1, <2>1, <1>1, <1>2, DueOrder
      <3>2. x \in Held(board)
        BY <1>6, <1>8
      <3>3. x \in Members(board.pending) => o < x
        <4>1. board.pending \in Seq(Sends)
          BY <1>1, BoardTyped
        <4> QED BY <4>1, <1>5, MembersTyped DEF InLine
      <3> QED BY <2>1, <3>1, <3>2, <3>3, <1>8, Sized DEF Held
    <2> QED BY <2>2, <1>4
  <1> QED BY <1>3, <1>4, <1>7, <1>8

LEMMA HeadsAnswered ==
  ASSUME QueuedInv, kind = "codex", ~stalled, ~Finalized, 1 \in 1 .. Len(Pipe), OfRun(First), ~ Accepts(First)
  PROVE  First.run \in Runs /\ First.run \in 1 .. begun /\ board.turn # 0 /\ board.opener \in inputs[First.run]
  <1>1. First.run \in 1 .. begun /\ First.run \in Runs
    <2>1. First.run \in 1 .. begun
      BY DEF QueuedInv, Harness, ToHear, RunsKnown, First
    <2> QED BY <2>1, Given, Sized DEF Runs
  <1>2. Introduced(board.opener, Pipe, run, inputs)
    BY DEF QueuedInv, Steered
  <1>3. Covers(board.opener, First.run, inputs)
    <2>1. ASSUME ~ Covers(board.opener, First.run, inputs) PROVE FALSE
      <3>1. AnsweredBy(1, Pipe, First.run)
        BY <2>1, <1>2 DEF Introduced, First
      <3> QED BY <3>1 DEF AnsweredBy, First
    <2> QED BY <2>1
  <1>4. board.turn # 0
    BY <1>3 DEF Covers, QueuedInv, Boarded
  <1> QED BY <1>1, <1>3, <1>4 DEF Covers

(* A record of no consequence, or output for the open turn. *)
LEMMA OutputStep ==
  ASSUME QueuedInv, Reads, ~ Ends(First), ~ Fails(First), ~ Accepts(First), NativeStill,
         UNCHANGED <<sends, failure, life, stdin, history>>,
         board' = IF OfRun(First) THEN Routed(board, First.run) ELSE board
  PROVE  QueuedInv'
  <1>1. /\ Reads /\ NativeStill /\ ~ Ends(First) /\ ~ Fails(First) /\ ~ Accepts(First)
        /\ UNCHANGED <<sends, failure, life, stdin, history>>
        /\ board' = IF OfRun(First) THEN Routed(board, First.run) ELSE board
    OBVIOUS
  <1>2. /\ kind' = kind /\ sent' = sent /\ identity' = identity /\ buffered' = buffered
        /\ awaiting' = awaiting /\ told' = told /\ failure' = failure /\ stdin' = stdin
        /\ closing' = closing /\ closer' = closer /\ eof' = eof /\ signal' = signal
        /\ stalled' = stalled /\ exit' = exit /\ cause' = cause
        /\ refused' = refused /\ lost' = lost /\ dropped' = dropped
    BY <1>1 DEF sends, life, history
  <1>3. /\ ~Finalized /\ 1 \in 1 .. Len(Pipe)
        /\ Kept(Rest, Pipe, 1) /\ First.run \in Runs \cup {0}
    BY <1>1, ReadFacts
  <1>4. /\ stdout' \in Seq(Records) /\ Pipe' = Rest /\ Pipe' \in Seq(Says)
        /\ run' = run /\ begun' = begun /\ inputs' = inputs /\ AskedOnce' /\ Harness' /\ Losing'
    BY <1>1, <1>2, ReadSteps
  <1>5. ~ Ends(First) /\ ~ Fails(First) /\ ~ Accepts(First)
    BY <1>1
  <1>6. (Finalized' <=> Finalized) /\ (Closed' <=> Closed)
    BY <1>2 DEF Finalized, Closed, Dead
  <1>7. OfRun(First) => First.run \in Runs
    <2>1. OfRun(First) => First.run \in 1 .. begun
      BY <1>3 DEF QueuedInv, Harness, ToHear, RunsKnown, First
    <2> QED BY <2>1, Given, Sized DEF Runs
  <1>8. board \in Board /\ Boarded(board)
    BY Given DEF QueuedInv
  <1>9. OfRun(First) /\ ~stalled =>
          /\ board.turn # 0 => board.opener \in inputs[First.run]
          /\ board.turn = 0 => Closed /\ kind # "codex"
    BY <1>3, <1>5, HeadsOwn, HeadsAnswered
  <1>10. /\ board' \in Board /\ Boarded(board') /\ board'.turn = board.turn /\ board'.opener = board.opener
         /\ board'.accepted = board.accepted /\ board'.pending = board.pending
         /\ OpenersOf(board') = OpenersOf(board) /\ board'.parked.failed = board.parked.failed
         /\ board.turn # 0 \/ ~ OfRun(First) => board'.parked = board.parked
         /\ ~ OfRun(First) => board' = board
         /\ ~stalled => Belong(board'.turns, inputs)
    <2>1. ~stalled => Belong(board.turns, inputs)
      BY Belongs DEF QueuedInv
    <2>2. CASE OfRun(First)
      <3>1. board' = Routed(board, First.run)
        BY <2>2, <1>1
      <3> QED BY <2>1, <2>2, <3>1, <1>7, <1>8, <1>9, RoutedBoard
    <2>3. CASE ~ OfRun(First)
      <3>1. board' = board
        BY <2>3, <1>1
      <3> QED BY <2>1, <2>3, <3>1, <1>8
    <2> QED BY <2>2, <2>3
  <1>11. Types'
    <2>1. TypeOK'
      BY <1>2, <1>4, <1>10 DEF QueuedInv, Types, TypeOK
    <2> QED BY <1>2, <1>4, <2>1 DEF QueuedInv, Types
  <1>12. Ending' /\ RefusedOpenTold' /\ Refusal'
    <2>1. Ending'
      BY <1>2, <1>3, <1>6 DEF QueuedInv, Ending
    <2>2. RefusedOpenTold'
      BY <1>3, <1>6 DEF RefusedOpenTold
    <2>3. Refusal'
      BY <1>2, <1>3, <1>6, <1>10 DEF QueuedInv, Refusal
    <2> QED BY <2>1, <2>2, <2>3
  <1>13. Places'
    <2>1. Placed(board, sent, awaiting \cup lost \cup dropped \cup refused \cup Members(buffered))'
      BY <1>2, <1>10 DEF QueuedInv, Places, Placed
    <2> QED BY <2>1, <1>2, <1>10 DEF QueuedInv, Places
  <1>14. Unannounced'
    <2> SUFFICES ASSUME BuffersBeforeIdentity(kind), ~identity PROVE Unannounced'
      BY <1>2 DEF Unannounced
    <2>1. Quiet(Pipe)
      BY DEF QueuedInv, Unannounced
    <2>2. Quiet(Rest) /\ ~ OfRun(First)
      BY <2>1, <1>1, ReadRest
    <2>3. board' = board
      BY <2>2, <1>10
    <2> QED BY <2>2, <2>3, <1>2, <1>3, <1>4, <1>6 DEF QueuedInv, Unannounced
  <1>15. Queued'
    <2> SUFFICES ASSUME kind # "codex" PROVE Queued'
      BY <1>2 DEF Queued
    <2>1. /\ InLine(board) /\ (~Closed /\ board.turn = 0 => board.pending = <<>>)
          /\ ~stalled =>
             /\ board.parked.runs # {} => Closed
             /\ board.turn # 0 => \A s \in Held(board) : s \in lost \/ Due(s, stdin, Pipe, run, inputs)
             /\ board.turn # 0 \/ ~Closed => Serves(Held(board), stdin, Pipe, run, inputs)
      BY <1>3 DEF QueuedInv, Queued
    <2>2. InLine(board') /\ Held(board') = Held(board)
      BY <2>1, <1>10 DEF InLine, Held
    <2>3. \A s \in Sends : Due(s, stdin, Pipe, run, inputs) => Due(s, stdin, Rest, run, inputs)
      BY <1>3, <1>5, DueFewer DEF First
    <2>4. Serves(Held(board), stdin, Pipe, run, inputs) => Serves(Held(board), stdin, Rest, run, inputs)
      BY <1>3, ServesFewer
    <2>5. ~stalled /\ board.turn # 0 => \A s \in Held(board) : s \in lost \/ Due(s, stdin, Rest, run, inputs)
      BY <2>1, <2>3, HeldTyped
    <2>6. ~stalled /\ board'.parked.runs # {} => Closed
      BY <2>1, <1>9, <1>10
    <2> QED BY <2>1, <2>2, <2>4, <2>5, <2>6, <1>2, <1>4, <1>6, <1>10 DEF Queued
  <1>16. Steered'
    <2> SUFFICES ASSUME kind = "codex" PROVE Steered'
      BY <1>2 DEF Steered
    <2>1. Owing(awaiting, stdin, Rest)
      BY <1>1, ReadRest
    <2>2. ASSUME ~stalled
          PROVE  /\ board'.parked.runs = {}
                 /\ board.turn # 0 => Oldest(board.opener, Rest, run, inputs)
                 /\ Introduced(board.opener, Rest, run, inputs)
      <3>1. /\ board.parked.runs = {}
            /\ board.turn # 0 => Oldest(board.opener, Pipe, run, inputs)
            /\ Introduced(board.opener, Pipe, run, inputs)
        BY <2>2, <1>3 DEF QueuedInv, Steered
      <3>2. board'.parked.runs = {}
        BY <2>2, <3>1, <1>9, <1>10
      <3>3. Oldest(board.opener, Pipe, run, inputs) => Oldest(board.opener, Rest, run, inputs)
        BY <1>3, <1>5, OldestFewer DEF First
      <3>4. Introduced(board.opener, Rest, run, inputs)
        BY <3>1, <1>3, <1>5, Given, ReadFacts, <1>1, IntroducedFewer DEF First
      <3> QED BY <3>1, <3>2, <3>3, <3>4
    <2> QED BY <2>1, <2>2, <1>2, <1>4, <1>10 DEF Steered
  <1>17. OutputBelongs'
    BY <1>2, <1>4, <1>10 DEF OutputBelongs, Belong
  <1> QED BY <1>4, <1>10, <1>11, <1>12, <1>13, <1>14, <1>15, <1>16, <1>17 DEF QueuedInv

LEMMA ContentStep ==
  ASSUME QueuedInv, ContentRead
  PROVE  QueuedInv'
  <1>1. /\ Reads /\ Meant.kind \in {"content", "ignored"} /\ NativeStill
        /\ UNCHANGED <<sends, failure, life, stdin, history>>
        /\ board' = IF Meant.kind = "content" THEN Routed(board, Head(stdout).run) ELSE board
    BY DEF ContentRead
  <1>2. Meant.kind = First.kind /\ Head(stdout).run = First.run
    BY <1>1, ReadFacts
  <1>3. /\ ~ Ends(First) /\ ~ Fails(First) /\ ~ Accepts(First)
        /\ OfRun(First) <=> Meant.kind = "content"
    BY <1>1, <1>2 DEF Ends, Fails, Accepts, OfRun
  <1> QED BY <1>1, <1>2, <1>3, OutputStep

-----------------------------------------------------------------------------
(* A turn ends *)

LEMMA RunsApart ==
  ASSUME NEW k, NEW n, NEW r, NEW b, NEW ins \in [Runs -> SUBSET Sends], Ran(k, n, r, b, ins),
         NEW l \in Runs, NEW m \in Runs, l # m, NEW x \in ins[l]
  PROVE  x \notin ins[m]
  <1>1. /\ \A i, j \in Runs : i < j => \A y \in ins[i], z \in ins[j] : y < z
        /\ l \in Nat /\ m \in Nat
    BY Sized DEF Ran
  <1>2. x \in Sends /\ x \in Nat
    BY Sized
  <1> SUFFICES ASSUME x \in ins[m] PROVE FALSE
    OBVIOUS
  <1>3. CASE l < m
    BY <1>1, <1>2, <1>3
  <1>4. CASE m < l
    BY <1>1, <1>2, <1>4
  <1> QED BY <1>1, <1>3, <1>4

LEMMA RunKnown ==
  ASSUME NEW k, NEW c, NEW p, NEW r, NEW b \in 0 .. MaxSends, NEW ins, ToHear(k, c, p, r, b, ins),
         NEW i \in 1 .. Len(p), OfRun(p[i])
  PROVE  p[i].run \in 1 .. b /\ p[i].run \in Runs
  <1>1. p[i].run \in 1 .. b
    BY DEF ToHear, RunsKnown
  <1> QED BY <1>1, Sized DEF Runs

(* An ended run was the last word of its inputs, and so is a refusal. *)
LEMMA ServesEnded ==
  ASSUME NEW k, NEW n, NEW b \in 0 .. MaxSends, NEW c, NEW p \in Seq(Says), 1 \in 1 .. Len(p),
         NEW r \in Going, NEW ins \in [Runs -> SUBSET Sends], NEW q, Kept(q, p, 1),
         Ran(k, n, r, b, ins), ToRead(c, n, b, ins), ToHear(k, c, p, r, b, ins),
         Ends(p[1]), NEW o \in ins[p[1].run], NEW H, Serves(H, c, p, r, ins)
  PROVE  Serves(H \ {o}, c, q, r, ins)
  <1> DEFINE m == p[1].run
  <1>1. OfRun(p[1]) /\ m \in Runs /\ m # r.no
    <2>1. OfRun(p[1]) /\ m # r.no
      BY KindsApart DEF ToHear, Ended
    <2> QED BY <2>1, RunKnown
  <1>2. o \in Sends
    BY <1>1
  <1>3. \A l \in Runs : l # m => o \notin ins[l]
    BY <1>1, RunsApart
  <1>4. \A i \in 1 .. Len(c) : IsInput(c[i]) => c[i].token \in H \ {o}
    <2>1. \A i \in 1 .. Len(c) : IsInput(c[i]) => o < c[i].token
      BY <1>1 DEF ToRead, After
    <2> QED BY <2>1, <1>2, Sized DEF Serves
  <1>5. r.no # 0 => ins[r.no] \subseteq H \ {o}
    BY <1>1, <1>3 DEF Serves, Going
  <1>6. ASSUME NEW i \in 1 .. Len(q), OfRun(q[i]) PROVE ins[q[i].run] \subseteq H \ {o}
    <2>1. Skip(1, i) \in 1 .. Len(p) /\ 1 < Skip(1, i) /\ q[i] = p[Skip(1, i)]
      <3>1. Skip(1, i) \in 1 .. Len(p) /\ Skip(1, i) # 1 /\ q[i] = p[Skip(1, i)]
        BY DEF Kept
      <3> QED BY <3>1
    <2>2. Follows(p[1], p[Skip(1, i)])
      BY <2>1 DEF ToHear, InOrder
    <2>3. q[i].run \in Runs /\ q[i].run # m
      BY <2>1, <2>2, <1>1, <1>6, RunKnown DEF Follows
    <2>4. ins[q[i].run] \subseteq H
      BY <2>1, <1>6 DEF Serves
    <2> QED BY <2>3, <2>4, <1>3
  <1> QED BY <1>4, <1>5, <1>6 DEF Serves

LEMMA ServesRefused ==
  ASSUME NEW k, NEW b \in 0 .. MaxSends, NEW c, NEW p \in Seq(Says), 1 \in 1 .. Len(p),
         NEW r \in Going, NEW ins \in [Runs -> SUBSET Sends], NEW q, Kept(q, p, 1),
         ToHear(k, c, p, r, b, ins), Fails(p[1]), NEW H, Serves(H, c, p, r, ins)
  PROVE  Serves(H \ {p[1].token}, c, q, r, ins)
  <1>1. Refuses(p[1].token, c, ins)
    BY DEF ToHear, Refusals
  <1>2. \A i \in 1 .. Len(c) : IsInput(c[i]) => c[i].token \in H \ {p[1].token}
    BY <1>1 DEF Serves, Refuses
  <1>3. r.no # 0 => ins[r.no] \subseteq H \ {p[1].token}
    BY <1>1 DEF Serves, Refuses, Going
  <1>4. ASSUME NEW i \in 1 .. Len(q), OfRun(q[i]) PROVE ins[q[i].run] \subseteq H \ {p[1].token}
    <2>1. Skip(1, i) \in 1 .. Len(p) /\ q[i] = p[Skip(1, i)]
      BY DEF Kept
    <2>2. q[i].run \in Runs
      BY <2>1, <1>4, RunKnown
    <2> QED BY <2>1, <2>2, <1>1, <1>4 DEF Serves, Refuses
  <1> QED BY <1>2, <1>3, <1>4 DEF Serves

(* What the end of the turn leaves on the board. *)
StillBelong(c, b) ==
  \A ins : Belong(b.turns, ins) /\ (b.parked.runs # {} => Closed) => Belong(c.turns, ins)
Moves(c, b) ==
  /\ c \in Board /\ Boarded(c)
  /\ OpenersOf(c) \subseteq OpenersOf(b) \cup Members(b.pending) /\ OpenersOf(b) \subseteq OpenersOf(c)
  /\ Members(c.pending) \subseteq Members(b.pending)
  /\ c.parked.runs \subseteq b.parked.runs
  /\ b.turn = 0 => c = b
  /\ b.turn # 0 => Held(c) = Members(b.pending)
  /\ b.turn # 0 /\ c.turn = 0 => (Closed \/ c.pending = <<>>) /\ c.opener = 0
  /\ InLine(b) => InLine(c)
  /\ b.pending = <<>> => c.pending = <<>> /\ c.parked = b.parked /\ (b.turn # 0 => c.turn = 0)
  /\ StillBelong(c, b)

LEMMA OverMoves ==
  ASSUME NEW b \in Board, Boarded(b), NEW c, c = Over(b)
  PROVE  Moves(c, b)
  <1> DEFINE d == Cleared(b)
  <1>1. /\ d \in Board /\ d.turn = 0 /\ d.opener = 0 /\ ~d.accepted /\ d.pending = b.pending
        /\ d.turns = b.turns /\ d.parked = b.parked /\ Boarded(d)
        /\ OpenersOf(d) = OpenersOf(b) /\ Held(d) = Members(b.pending)
    BY ClearedBoard
  <1> HIDE DEF d
  <1>2. b.pending \in Seq(Sends) /\ \A i \in 1 .. Len(b.pending) : b.pending[i] \in Sends
    BY BoardTyped
  <1>3. CASE b.turn = 0
    <2>1. c = b
      BY <1>3 DEF Over
    <2>2. StillBelong(b, b)
      BY DEF StillBelong
    <2> QED BY <2>1, <2>2, <1>3 DEF Moves
  <1>4. CASE b.turn # 0 /\ (Closed \/ d.pending = <<>>)
    <2>1. c = d
      BY <1>4 DEF Over, d
    <2>2. InLine(b) => InLine(d)
      BY <1>1, <1>2, Sized DEF InLine
    <2>3. StillBelong(d, b)
      BY <1>1 DEF StillBelong
    <2>4. Moves(d, b)
      BY <2>2, <2>3, <1>1, <1>4 DEF Moves
    <2> QED BY <2>1, <2>4
  <1>5. CASE b.turn # 0 /\ ~Closed /\ d.pending # <<>>
    <2> DEFINE p == b.pending
               t == Tail(p)
               e == [d EXCEPT !.pending = t]
    <2>1. /\ t \in Seq(Sends) /\ Kept(t, p, 1) /\ 1 \in 1 .. Len(p) /\ Head(p) = p[1] /\ p[1] \in Sends
      BY <1>1, <1>2, <1>5, TailCuts
    <2>2. c = Started(e, p[1])
      BY <2>1, <1>1, <1>5 DEF Over, d
    <2> HIDE DEF t
    <2>3. /\ e \in Board /\ e.turn = d.turn /\ e.opener = d.opener /\ e.pending = t /\ e.turns = d.turns
          /\ e.parked = d.parked
      BY <2>1, <1>1 DEF Board
    <2> HIDE DEF e
    <2>4. c \in Board /\ Opens(c, e, p[1]) /\ c.pending = t
      BY <2>1, <2>2, <2>3, StartedOpens
    <2>5. /\ OpenersOf(c) = OpenersOf(e) \cup {p[1]} /\ Boarded(c) /\ c.parked.runs = {}
      BY <2>1, <2>3, <2>4, OpensKeep
    <2>6. OpenersOf(e) = OpenersOf(b)
      BY <2>3, <1>1 DEF OpenersOf
    <2>7. Members(t) \subseteq Members(p) /\ Members(p) \subseteq Members(t) \cup {p[1]} /\ p[1] \in Members(p)
      BY <2>1, <1>2, MembersCut, MembersTyped
    <2>8. Held(c) = Members(t) \cup {p[1]} /\ c.turn # 0
      BY <2>4 DEF Held, Opens
    <2>9. ASSUME InLine(b) PROVE InLine(c)
      <3>1. /\ ~c.accepted /\ c.opener = p[1] /\ c.pending = t
        BY <2>4 DEF Opens
      <3>2. \A i, j \in 1 .. Len(p) : i < j => p[i] < p[j]
        BY <2>9 DEF InLine
      <3>3. \A i \in 1 .. Len(t) : p[1] < t[i]
        <4> SUFFICES ASSUME NEW i \in 1 .. Len(t) PROVE p[1] < t[i]
          OBVIOUS
        <4>1. Skip(1, i) \in 1 .. Len(p) /\ Skip(1, i) # 1 /\ t[i] = p[Skip(1, i)]
          BY <2>1 DEF Kept
        <4>2. 1 < Skip(1, i)
          BY <4>1
        <4> QED BY <4>1, <4>2, <2>1, <3>2
      <3>4. \A i, j \in 1 .. Len(t) : i < j => t[i] < t[j]
        BY <2>1, <3>2 DEF Kept
      <3> QED BY <3>1, <3>3, <3>4 DEF InLine
    <2>10. StillBelong(c, b)
      <3>1. ASSUME NEW ins, Belong(b.turns, ins), b.parked.runs = {} PROVE Belong(c.turns, ins)
        <4>1. Belong(e.turns, ins) /\ e.parked.runs = {}
          BY <3>1, <2>3, <1>1
        <4> QED BY <4>1, <2>4, OpensBelong
      <3> QED BY <3>1, <1>5 DEF StillBelong
    <2>11. b.pending # <<>>
      BY <1>1, <1>5
    <2>12. Members(c.pending) \subseteq Members(b.pending) /\ Held(c) = Members(b.pending)
      BY <2>4, <2>7, <2>8
    <2>13. OpenersOf(c) \subseteq OpenersOf(b) \cup Members(b.pending) /\ OpenersOf(b) \subseteq OpenersOf(c)
      BY <2>5, <2>6, <2>7
    <2>14. c.parked.runs \subseteq b.parked.runs
      BY <2>5
    <2> QED BY <2>4, <2>5, <2>8, <2>9, <2>10, <2>11, <2>12, <2>13, <2>14, <1>5 DEF Moves
  <1> QED BY <1>3, <1>4, <1>5

(* Waking the close leaves it closing. *)
LEMMA WakesTyped ==
  ASSUME QueuedInv, NEW b, Wakes(b)
  PROVE  closer' \in {"none", "draining", "woken", "ended"} /\ (closer' # "none" => closer # "none")
  BY LifeTyped DEF Wakes, Woken

LEMMA RunsAnswered ==
  ASSUME QueuedInv, 1 \in 1 .. Len(Pipe), OfRun(First) \/ Fails(First)
  PROVE  ~failure /\ (BuffersBeforeIdentity(kind) => identity)
  <1>1. BuffersBeforeIdentity(kind) /\ ~identity => Quiet(Pipe)
    BY DEF QueuedInv, Unannounced
  <1>2. ~ Quiet(Pipe)
    BY DEF Quiet, First
  <1>3. failure => ~identity /\ BuffersBeforeIdentity(kind)
    BY Given DEF QueuedInv, Refusal, BuffersBeforeIdentity, Kinds
  <1> QED BY <1>1, <1>2, <1>3

LEMMA TurnEndStep ==
  ASSUME QueuedInv, TurnEndRead
  PROVE  QueuedInv'
  <1>1. /\ Reads /\ Meant.kind = "turn-end" /\ NativeStill /\ board' = Over(board) /\ Wakes(Over(board))
        /\ UNCHANGED <<sends, failure, closing, eof, signal, stalled, exit, cause, stdin, history>>
    BY DEF TurnEndRead, Settles
  <1>2. /\ kind' = kind /\ sent' = sent /\ identity' = identity /\ buffered' = buffered
        /\ awaiting' = awaiting /\ told' = told /\ failure' = failure /\ stdin' = stdin
        /\ closing' = closing /\ eof' = eof /\ signal' = signal
        /\ stalled' = stalled /\ exit' = exit /\ cause' = cause
        /\ refused' = refused /\ lost' = lost /\ dropped' = dropped
    BY <1>1 DEF sends, history
  <1>3. /\ ~Finalized /\ 1 \in 1 .. Len(Pipe) /\ Meant.kind = First.kind /\ Kept(Rest, Pipe, 1)
        /\ Rest \in Seq(Says)
    BY <1>1, ReadFacts
  <1>4. /\ stdout' \in Seq(Records) /\ Pipe' = Rest /\ Pipe' \in Seq(Says)
        /\ run' = run /\ begun' = begun /\ inputs' = inputs /\ AskedOnce' /\ Harness' /\ Losing'
    BY <1>1, <1>2, ReadSteps
  <1>5. Ends(First) /\ OfRun(First) /\ ~ Fails(First) /\ ~ Accepts(First)
    BY <1>1, <1>3 DEF Ends, Fails, Accepts, OfRun
  <1>6. (Finalized' <=> Finalized) /\ (Closed' <=> Closed)
    BY <1>2 DEF Finalized, Closed, Dead
  <1>7. ~failure /\ (BuffersBeforeIdentity(kind) => identity)
    BY <1>3, <1>5, RunsAnswered
  <1>8. board \in Board /\ Boarded(board) /\ Moves(board', board)
    BY <1>1, Given, OverMoves DEF QueuedInv
  <1>9. /\ board' \in Board /\ Boarded(board')
        /\ OpenersOf(board') \subseteq OpenersOf(board) \cup Members(board.pending)
        /\ Members(board'.pending) \subseteq Members(board.pending)
        /\ board'.parked.runs \subseteq board.parked.runs
        /\ board.turn = 0 => board' = board
        /\ board.turn # 0 => Held(board') = Members(board.pending)
        /\ board.turn # 0 /\ board'.turn = 0 => Closed \/ board'.pending = <<>>
        /\ InLine(board) => InLine(board')
        /\ board.pending = <<>> => board'.pending = <<>> /\ (board.turn # 0 => board'.turn = 0)
    BY <1>8 DEF Moves
  <1>10. /\ closer' \in {"none", "draining", "woken", "ended"} /\ (closer' # "none" => closer # "none")
    BY <1>1, WakesTyped
  <1>11. Types'
    <2>1. TypeOK'
      BY <1>2, <1>4, <1>9, <1>10 DEF QueuedInv, Types, TypeOK
    <2> QED BY <1>2, <1>4, <2>1 DEF QueuedInv, Types
  <1>12. Ending' /\ RefusedOpenTold' /\ Refusal' /\ Unannounced'
    <2>1. Ending'
      BY <1>2, <1>3, <1>6, <1>10 DEF QueuedInv, Ending
    <2>2. RefusedOpenTold' /\ Refusal' /\ Unannounced'
      BY <1>2, <1>7 DEF RefusedOpenTold, Refusal, Unannounced
    <2> QED BY <2>1, <2>2
  <1>13. Places'
    <2>1. Placed(board, sent, awaiting \cup lost \cup dropped \cup refused \cup Members(buffered))'
      BY <1>2, <1>9 DEF QueuedInv, Places, Placed
    <2> QED BY <2>1, <1>2, <1>9 DEF QueuedInv, Places
  <1>14. kind # "codex" =>
           /\ InLine(board) /\ (~Closed /\ board.turn = 0 => board.pending = <<>>)
           /\ ~stalled =>
              /\ board.parked.runs # {} => Closed
              /\ board.turn # 0 => \A s \in Held(board) : s \in lost \/ Due(s, stdin, Pipe, run, inputs)
              /\ board.turn # 0 \/ ~Closed => Serves(Held(board), stdin, Pipe, run, inputs)
    BY <1>3 DEF QueuedInv, Queued
  <1>15. /\ Ran(kind, sent, run, begun, inputs) /\ ToRead(stdin, sent, begun, inputs)
         /\ ToHear(kind, stdin, Pipe, run, begun, inputs) /\ run \in Going /\ Pipe \in Seq(Says)
         /\ inputs \in [Runs -> SUBSET Sends] /\ begun \in 0 .. MaxSends /\ board.pending \in Seq(Sends)
    BY Given, BoardTyped DEF QueuedInv, Harness
  <1>16. Queued'
    <2> SUFFICES ASSUME kind # "codex" PROVE Queued'
      BY <1>2 DEF Queued
    <2>1. InLine(board') /\ (~Closed /\ board'.turn = 0 => board'.pending = <<>>)
      BY <1>9, <1>14
    <2>2. ASSUME ~stalled, board.turn # 0
          PROVE  /\ \A s \in Held(board') : s \in lost \/ Due(s, stdin, Rest, run, inputs)
                 /\ Serves(Held(board'), stdin, Rest, run, inputs)
      <3> DEFINE o == board.opener
      <3>1. inputs[First.run] = {o} /\ Held(board') = Members(board.pending)
        BY <2>2, <1>3, <1>5, <1>9, HeadsOwn
      <3>2. o \notin Members(board.pending) /\ o \in Held(board) /\ Held(board') = Held(board) \ {o}
        <4>1. \A i \in 1 .. Len(board.pending) : o < board.pending[i]
          BY <1>14 DEF InLine
        <4>2. o \in Nat
          BY <1>8, BoardTyped, Sized
        <4>3. o \notin Members(board.pending)
          BY <4>1, <4>2 DEF Members
        <4> QED BY <2>2, <3>1, <4>3 DEF Held
      <3>3. ASSUME NEW s \in Held(board') PROVE s \in lost \/ Due(s, stdin, Rest, run, inputs)
        <4>1. s \in Held(board) /\ s # o
          BY <3>2, <3>3
        <4>2. s \in lost \/ Due(s, stdin, Pipe, run, inputs)
          BY <2>2, <4>1, <1>14
        <4> QED BY <4>1, <4>2, <3>1, <1>3, <1>5, DueFewer DEF First
      <3>4. Serves(Held(board), stdin, Pipe, run, inputs)
        BY <2>2, <1>14
      <3>5. o \in inputs[Pipe[1].run] /\ Ends(Pipe[1])
        BY <3>1, <1>5 DEF First
      <3> HIDE DEF o
      <3>6. Serves(Held(board) \ {o}, stdin, Rest, run, inputs)
        BY <3>4, <3>5, <1>3, <1>15, ServesEnded
      <3> QED BY <3>2, <3>3, <3>6
    <2>3. ASSUME ~stalled, board.turn = 0 PROVE board' = board /\ Closed
      BY <2>3, <1>3, <1>5, <1>9, HeadsOwn
    <2>4. ~stalled /\ board'.parked.runs # {} => Closed
      BY <1>9, <1>14
    <2> QED BY <2>1, <2>2, <2>3, <2>4, <1>2, <1>4, <1>6 DEF Queued
  <1>17. Steered'
    <2> SUFFICES ASSUME kind = "codex" PROVE Steered'
      BY <1>2 DEF Steered
    <2>1. Owing(awaiting, stdin, Rest)
      BY <1>1, ReadRest
    <2>2. ASSUME ~stalled
          PROVE  board'.parked.runs = {} /\ board'.turn = 0 /\ Introduced(board'.opener, Rest, run, inputs)
      <3> DEFINE o == board.opener
      <3>1. board.parked.runs = {} /\ Introduced(o, Pipe, run, inputs) /\ board.pending = <<>>
        BY <2>2, <1>3 DEF QueuedInv, Steered, Places
      <3>2. First.run \in Runs /\ board.turn # 0 /\ o \in inputs[First.run]
        BY <2>2, <1>3, <1>5, HeadsAnswered
      <3>3. board'.turn = 0 /\ board'.opener = 0 /\ board'.parked.runs = {}
        BY <3>1, <3>2, <1>9 DEF Boarded
      <3> HIDE DEF o
      <3>4. ASSUME NEW n \in Runs, n # First.run PROVE ~ Covers(o, n, inputs)
        BY <3>2, <3>4, <1>15, RunsApart DEF Covers
      <3>5. run.no # 0 => ~ Covers(o, run.no, inputs)
        <4>1. First.run # run.no
          BY <1>3, <1>5, <1>15 DEF ToHear, Ended, First
        <4> QED BY <4>1, <3>4, <1>15 DEF Going
      <3>6. ASSUME NEW i \in 1 .. Len(Pipe), i # 1, OfRun(Pipe[i]) PROVE ~ Covers(o, Pipe[i].run, inputs)
        <4>1. 1 < i
          BY <3>6, <1>3
        <4>2. Pipe[i].run # First.run
          BY <4>1, <3>6, <1>3, <1>5, <1>15 DEF ToHear, InOrder, Follows, First
        <4>3. Pipe[i].run \in Runs
          BY <3>6, <1>15, RunKnown
        <4> QED BY <4>2, <4>3, <3>4
      <3>7. ~ Accepts(Pipe[1])
        BY <1>5 DEF First
      <3>8. Introduced(0, Rest, run, inputs)
        BY <3>1, <3>5, <3>6, <3>7, <1>3, <1>15, IntroducedRest
      <3> QED BY <3>3, <3>8
    <2> QED BY <2>1, <2>2, <1>2, <1>4 DEF Steered
  <1>18. OutputBelongs'
    <2> SUFFICES ASSUME ~stalled PROVE Belong(board'.turns, inputs)
      BY <1>2, <1>4 DEF OutputBelongs, Belong
    <2>1. Belong(board.turns, inputs)
      BY Belongs DEF QueuedInv
    <2>2. board.parked.runs # {} => Closed
      BY <1>3, <1>14 DEF QueuedInv, Steered
    <2> QED BY <2>1, <2>2, <1>8 DEF Moves, StillBelong
  <1> QED BY <1>4, <1>9, <1>11, <1>12, <1>13, <1>16, <1>17, <1>18 DEF QueuedInv

-----------------------------------------------------------------------------
(* The harness refuses an input *)

LEMMA UnopenedBoard ==
  ASSUME NEW b \in Board, Boarded(b), NEW s
  PROVE  LET c == Unopened(b, s) IN
         /\ c \in Board /\ c.turn = b.turn /\ c.opener = b.opener /\ c.accepted = b.accepted
         /\ c.turns = b.turns /\ c.parked = b.parked /\ c.steer = b.steer /\ Boarded(c)
         /\ Members(c.pending) \subseteq Members(b.pending)
         /\ s \notin Members(b.pending) => c = b
         /\ InLine(b) => InLine(c) /\ Members(c.pending) = Members(b.pending) \ {s}
  <1> DEFINE c == Unopened(b, s)
             p == b.pending
  <1>1. p \in Seq(Sends) /\ \A i \in 1 .. Len(p) : p[i] \in Sends
    BY BoardTyped
  <1>2. CASE s \notin Members(p)
    <2>1. c = b
      BY <1>2 DEF Unopened
    <2> HIDE DEF c
    <2> QED BY <2>1, <1>2 DEF c
  <1>3. CASE s \in Members(p)
    <2> DEFINE n == CHOOSE i \in 1 .. Len(p) : p[i] = s
               q == RemoveAt(p, n)
    <2>1. n \in 1 .. Len(p) /\ p[n] = s
      BY <1>3 DEF Members
    <2>2. c = [b EXCEPT !.pending = q]
      BY <1>3 DEF Unopened, Board
    <2> HIDE DEF n
    <2>3. q \in Seq(Sends) /\ Kept(q, p, n)
      BY <1>1, <2>1, RemoveCuts
    <2> HIDE DEF q, c
    <2>4. /\ c \in Board /\ c.turn = b.turn /\ c.opener = b.opener /\ c.accepted = b.accepted
          /\ c.turns = b.turns /\ c.parked = b.parked /\ c.steer = b.steer /\ c.pending = q
      BY <2>2, <2>3 DEF Board
    <2>5. Boarded(c)
      BY <2>4 DEF Boarded
    <2>6. Members(q) \subseteq Members(p) /\ Members(p) \subseteq Members(q) \cup {s}
      BY <2>1, <2>3, MembersCut
    <2>7. ASSUME InLine(b) PROVE InLine(c) /\ Members(q) = Members(p) \ {s}
      <3>1. /\ ~b.accepted /\ \A i \in 1 .. Len(p) : b.opener < p[i]
            /\ \A i, j \in 1 .. Len(p) : i < j => p[i] < p[j]
        BY <2>7 DEF InLine
      <3>2. \A i \in 1 .. Len(q) : b.opener < q[i]
        BY <3>1, <2>3 DEF Kept
      <3>3. \A i, j \in 1 .. Len(q) : i < j => q[i] < q[j]
        BY <3>1, <2>3 DEF Kept
      <3>4. InLine(c)
        BY <3>1, <3>2, <3>3, <2>4 DEF InLine
      <3>5. ASSUME NEW i \in 1 .. Len(q) PROVE q[i] # s
        <4>1. Skip(n, i) \in 1 .. Len(p) /\ Skip(n, i) # n /\ q[i] = p[Skip(n, i)]
          BY <2>3 DEF Kept
        <4>2. q[i] < s \/ s < q[i]
          BY <4>1, <3>1, <2>1
        <4>3. q[i] \in Nat /\ s \in Nat
          BY <4>1, <2>1, <1>1, Sized
        <4> QED BY <4>2, <4>3
      <3>6. s \notin Members(q)
        BY <3>5 DEF Members
      <3> QED BY <3>4, <3>6, <2>6
    <2> QED BY <1>3, <2>4, <2>5, <2>6, <2>7 DEF c
  <1> QED BY <1>2, <1>3

(* What a refusal leaves on the board. *)
Yields(c, b, s) ==
  /\ c \in Board /\ Boarded(c)
  /\ OpenersOf(c) \subseteq OpenersOf(b) \cup Members(b.pending)
  /\ Members(c.pending) \subseteq Members(b.pending)
  /\ c.parked.runs \subseteq b.parked.runs
  /\ b.turn = 0 => c.turn = 0
  /\ c = b \/ s \in Members(b.pending) \/ (b.turn # 0 /\ b.opener = s)
  /\ InLine(b) => /\ InLine(c) /\ Held(c) = Held(b) \ {s} /\ s \notin Members(c.pending)
                  /\ (~Closed /\ b.turn = 0 => b.pending = <<>>) =>
                       (~Closed /\ c.turn = 0 => c.pending = <<>>)
  /\ StillBelong(c, b)

LEMMA RefusalYields ==
  ASSUME NEW b \in Board, Boarded(b), NEW s \in Sends, NEW c, c = CommandFailed(b, s)
  PROVE  Yields(c, b, s)
  <1> DEFINE d == Unopened(b, s)
             e == Failed(d)
             u == d.turn # 0 /\ d.opener = s /\ ~d.accepted
  <1>1. /\ d \in Board /\ d.turn = b.turn /\ d.opener = b.opener /\ d.accepted = b.accepted
        /\ d.turns = b.turns /\ d.parked = b.parked /\ Boarded(d)
        /\ Members(d.pending) \subseteq Members(b.pending)
        /\ s \notin Members(b.pending) => d = b
        /\ InLine(b) => InLine(d) /\ Members(d.pending) = Members(b.pending) \ {s}
    BY UnopenedBoard
  <1>2. IF u THEN c = Over(e) ELSE c = d
    BY DEF CommandFailed
  <1> HIDE DEF d
  <1>3. OpenersOf(d) = OpenersOf(b)
    BY <1>1 DEF OpenersOf
  <1>4. CASE ~u
    <2>1. c = d
      BY <1>2, <1>4
    <2>2. ASSUME InLine(b)
          PROVE  /\ InLine(c) /\ Held(c) = Held(b) \ {s} /\ s \notin Members(c.pending)
                 /\ (~Closed /\ b.turn = 0 => b.pending = <<>>) => (~Closed /\ c.turn = 0 => c.pending = <<>>)
      <3>1. InLine(d) /\ Members(d.pending) = Members(b.pending) \ {s} /\ ~d.accepted
        BY <2>2, <1>1 DEF InLine
      <3>2. Held(d) = Held(b) \ {s}
        BY <3>1, <1>1, <1>4 DEF Held
      <3>3. b.pending = <<>> => d.pending = <<>>
        <4>1. d.pending \in Seq(Sends) /\ b.pending \in Seq(Sends)
          BY <1>1, BoardTyped
        <4>2. b.pending = <<>> => Members(d.pending) = {}
          BY <4>1, <1>1, MembersTyped
        <4> QED BY <4>1, <4>2, MembersTyped
      <3> QED BY <2>1, <3>1, <3>2, <3>3, <1>1
    <2>3. StillBelong(c, b)
      BY <2>1, <1>1 DEF StillBelong
    <2>4. c = b \/ s \in Members(b.pending)
      BY <2>1, <1>1
    <2> QED BY <2>1, <2>2, <2>3, <2>4, <1>1, <1>3 DEF Yields
  <1>5. CASE u
    <2>1. c = Over(e)
      BY <1>2, <1>5
    <2>2. /\ e \in Board /\ e.turn = d.turn /\ e.opener = d.opener /\ e.accepted = d.accepted
          /\ e.pending = d.pending /\ e.parked.runs = d.parked.runs /\ Recounts(e, d) /\ Boarded(e)
      BY <1>1, FailedBoard
    <2> HIDE DEF e
    <2>3. OpenersOf(e) = OpenersOf(b)
      BY <2>2, <1>3, RecountsKeep
    <2>4. Moves(c, e)
      BY <2>1, <2>2, OverMoves
    <2>5. ASSUME InLine(b)
          PROVE  /\ InLine(c) /\ Held(c) = Held(b) \ {s} /\ s \notin Members(c.pending)
                 /\ ~Closed /\ c.turn = 0 => c.pending = <<>>
      <3>1. InLine(d) /\ Members(d.pending) = Members(b.pending) \ {s}
        BY <2>5, <1>1
      <3>2. InLine(e)
        BY <3>1, <2>2 DEF InLine
      <3>3. /\ InLine(c) /\ Held(c) = Members(d.pending) /\ Members(c.pending) \subseteq Members(d.pending)
            /\ c.turn = 0 => Closed \/ c.pending = <<>>
        BY <3>2, <2>2, <2>4, <1>5 DEF Moves
      <3>4. Held(b) = Members(b.pending) \cup {s}
        BY <1>1, <1>5 DEF Held
      <3> QED BY <3>1, <3>3, <3>4
    <2>6. StillBelong(c, b)
      <3>1. ASSUME NEW ins, Belong(b.turns, ins) PROVE Belong(e.turns, ins)
        BY <3>1, <1>1, <2>2, RecountsKeep
      <3> QED BY <3>1, <2>2, <2>4, <1>1 DEF Moves, StillBelong
    <2>7. /\ c \in Board /\ Boarded(c) /\ OpenersOf(c) \subseteq OpenersOf(b) \cup Members(b.pending)
          /\ Members(c.pending) \subseteq Members(b.pending) /\ c.parked.runs \subseteq b.parked.runs
          /\ b.turn # 0 /\ b.opener = s
      BY <1>1, <1>5, <2>2, <2>3, <2>4 DEF Moves
    <2> QED BY <2>5, <2>6, <2>7 DEF Yields
  <1> QED BY <1>4, <1>5

LEMMA CommandFailedStep ==
  ASSUME QueuedInv, CommandFailedRead
  PROVE  QueuedInv'
  <1> DEFINE s == First.token
  <1>1. /\ Reads /\ Meant.kind = "command-failed" /\ NativeStill
        /\ board' = CommandFailed(board, Meant.token) /\ Wakes(CommandFailed(board, Meant.token))
        /\ told' = IF Meant.token \in awaiting THEN [told EXCEPT ![Meant.token] = "native-rejected"] ELSE told
        /\ awaiting' = awaiting \ {Meant.token}
        /\ refused' = IF Meant.token \in awaiting \cup Members(board.pending) THEN refused \cup {Meant.token} ELSE refused
        /\ UNCHANGED <<kind, sent, identity, buffered, failure, closing, eof, signal, stalled, exit, cause,
                       stdin, lost, dropped>>
    BY DEF CommandFailedRead, Settles
  <1>2. /\ kind' = kind /\ sent' = sent /\ identity' = identity /\ buffered' = buffered
        /\ failure' = failure /\ stdin' = stdin
        /\ closing' = closing /\ eof' = eof /\ signal' = signal
        /\ stalled' = stalled /\ exit' = exit /\ cause' = cause
        /\ lost' = lost /\ dropped' = dropped
    BY <1>1
  <1>3. /\ ~Finalized /\ 1 \in 1 .. Len(Pipe) /\ Meant.kind = First.kind /\ Meant.token = s /\ Kept(Rest, Pipe, 1)
        /\ Rest \in Seq(Says) /\ s \in Sends \cup {0}
    BY <1>1, ReadFacts
  <1>4. ~ Ends(First) /\ ~ OfRun(First) /\ ~ Accepts(First) /\ (Fails(First) <=> s # 0)
    BY <1>1, <1>3 DEF Ends, Fails, Accepts, OfRun
  <1>5. board \in Board /\ Boarded(board) /\ board.pending \in Seq(Sends)
    BY Given, BoardTyped DEF QueuedInv
  <1>6. CASE s = 0
    <2>1. s \notin Members(board.pending) /\ s \notin awaiting
      BY <1>5, <1>6, MembersTyped, Given, Sized
    <2>2. board' = board
      <3>1. Unopened(board, s) = board
        BY <2>1 DEF Unopened
      <3>2. ~ (board.turn # 0 /\ board.opener = s)
        BY <1>5, <1>6 DEF Boarded
      <3> QED BY <3>1, <3>2, <1>1, <1>3 DEF CommandFailed
    <2>3. closer' = closer
      BY <2>2, <1>1 DEF Wakes
    <2>4. told' = told /\ awaiting' = awaiting /\ refused' = refused
      BY <2>1, <1>1, <1>3
    <2>5. UNCHANGED <<sends, failure, life, stdin, history>>
      BY <2>3, <2>4, <1>2 DEF sends, life, history
    <2> QED BY <2>2, <2>5, <1>1, <1>4, <1>6, OutputStep
  <1>7. CASE s # 0
    <2>1. s \in Sends /\ Fails(First) /\ Fails(Pipe[1]) /\ Pipe[1].token = s
      BY <1>3, <1>4, <1>7 DEF First
    <2> HIDE DEF s
    <2>2. /\ board' = CommandFailed(board, s) /\ Wakes(CommandFailed(board, s))
          /\ told' = IF s \in awaiting THEN [told EXCEPT ![s] = "native-rejected"] ELSE told
          /\ awaiting' = awaiting \ {s}
          /\ refused' = IF s \in awaiting \cup Members(board.pending) THEN refused \cup {s} ELSE refused
      BY <1>1, <1>3
    <2>3. Yields(board', board, s)
      BY <2>1, <2>2, <1>5, RefusalYields
    <2>4. /\ board' \in Board /\ Boarded(board')
          /\ OpenersOf(board') \subseteq OpenersOf(board) \cup Members(board.pending)
          /\ Members(board'.pending) \subseteq Members(board.pending)
          /\ board'.parked.runs \subseteq board.parked.runs
          /\ board.turn = 0 => board'.turn = 0
          /\ board' = board \/ s \in Members(board.pending) \/ (board.turn # 0 /\ board.opener = s)
      BY <2>3 DEF Yields
    <2>5. /\ stdout' \in Seq(Records) /\ Pipe' = Rest /\ Pipe' \in Seq(Says)
          /\ run' = run /\ begun' = begun /\ inputs' = inputs /\ AskedOnce' /\ Harness' /\ Losing'
      BY <1>1, <1>2, ReadSteps
    <2>6. (Finalized' <=> Finalized) /\ (Closed' <=> Closed)
      BY <1>2 DEF Finalized, Closed, Dead
    <2>7. ~failure /\ (BuffersBeforeIdentity(kind) => identity)
      BY <1>3, <2>1, RunsAnswered
    <2>8. buffered = <<>> /\ Members(buffered) = {}
      <3>1. buffered = <<>>
        BY <2>7 DEF QueuedInv, Places
      <3> QED BY <3>1 DEF Members
    <2>9. closer' \in {"none", "draining", "woken", "ended"} /\ (closer' # "none" => closer # "none")
      BY <2>2, WakesTyped
    <2>10. /\ told' \in [Sends -> {"none", "started", "native-rejected", "write-failed", "closed"}]
           /\ \A x \in Sends : x # s => told'[x] = told[x]
      BY <2>1, <2>2, Given
    <2>11. Types'
      <3>1. TypeOK'
        BY <1>2, <2>2, <2>4, <2>5, <2>9, <2>10 DEF QueuedInv, Types, TypeOK
      <3>2. refused' \subseteq Sends
        BY <2>1, <2>2 DEF QueuedInv, Types
      <3> QED BY <1>2, <2>5, <3>1, <3>2 DEF QueuedInv, Types
    <2>12. Ending' /\ RefusedOpenTold' /\ Refusal' /\ Unannounced'
      <3>1. Ending'
        BY <1>2, <1>3, <2>6, <2>9 DEF QueuedInv, Ending
      <3>2. RefusedOpenTold' /\ Refusal' /\ Unannounced'
        BY <1>2, <2>7 DEF RefusedOpenTold, Refusal, Unannounced
      <3> QED BY <3>1, <3>2
    <2>13. kind # "codex" =>
             /\ InLine(board) /\ (~Closed /\ board.turn = 0 => board.pending = <<>>)
             /\ ~stalled =>
                /\ board.parked.runs # {} => Closed
                /\ board.turn # 0 => \A x \in Held(board) : x \in lost \/ Due(x, stdin, Pipe, run, inputs)
                /\ board.turn # 0 \/ ~Closed => Serves(Held(board), stdin, Pipe, run, inputs)
      BY <1>3 DEF QueuedInv, Queued
    <2>14. kind # "codex" =>
             /\ InLine(board') /\ Held(board') = Held(board) \ {s} /\ s \notin Members(board'.pending)
             /\ ~Closed /\ board'.turn = 0 => board'.pending = <<>>
      BY <2>3, <2>13 DEF Yields
    <2>15. kind = "codex" => board.pending = <<>> /\ Members(board.pending) = {} /\ board'.pending = <<>>
      <3>1. kind = "codex" => board.pending = <<>>
        BY DEF QueuedInv, Places
      <3>2. board'.pending \in Seq(Sends)
        BY <2>4, BoardTyped
      <3>3. Members(board'.pending) = {} => board'.pending = <<>>
        BY <3>2, MembersTyped
      <3>4. Members(<<>>) = {}
        BY DEF Members
      <3> QED BY <3>1, <3>3, <3>4, <2>4
    <2>16. sent \in Nat /\ s \in 1 .. sent
      <3>1. s <= sent
        BY <1>3, <2>1 DEF QueuedInv, Harness, RefusedSent
      <3>2. sent \in 0 .. MaxSends /\ s \in 1 .. MaxSends
        BY <2>1, Given DEF Sends
      <3> QED BY <3>1, <3>2, Sized
    <2>17. Places'
      <3> DEFINE T == awaiting \cup lost \cup dropped \cup refused \cup Members(buffered)
                 U == awaiting' \cup lost \cup dropped \cup refused' \cup Members(buffered)
      <3>1. Placed(board, sent, T)
        BY DEF QueuedInv, Places
      <3>2. U \subseteq T \cup 1 .. sent
        BY <2>2, <2>16
      <3> HIDE DEF T
      <3>3. U \subseteq 1 .. sent
        BY <3>1, <3>2 DEF Placed
      <3> HIDE DEF U
      <3>4. Placed(board', sent, U)
        BY <3>1, <3>3, <2>4 DEF Placed
      <3>5. Placed(board, sent, awaiting \cup lost \cup dropped \cup refused \cup Members(buffered))'
        BY <3>4, <1>2 DEF U
      <3>6. \A x \in Sends : x > sent => told'[x] = "none"
        <4>1. \A x \in Sends : x > sent => told[x] = "none" /\ x # s
          BY <2>16, Sized DEF QueuedInv, Places
        <4> QED BY <4>1, <2>10
      <3>7. \A x \in awaiting' : kind = "codex" /\ told'[x] = "none" /\ x \notin refused'
        <4>1. \A x \in awaiting : x \in Sends /\ kind = "codex" /\ told[x] = "none" /\ x \notin refused
          BY Given DEF QueuedInv, Places
        <4> QED BY <4>1, <2>2, <2>10
      <3>8. \A x \in Members(buffered) \cup Members(board'.pending) : x \notin refused'
        <4>1. \A x \in Members(board.pending) : x \notin refused
          BY DEF QueuedInv, Places
        <4>2. \A x \in Members(board'.pending) : x \notin refused /\ x # s
          BY <4>1, <2>4, <2>14, <2>15
        <4> QED BY <4>2, <2>2, <2>8
      <3> QED BY <3>5, <3>6, <3>7, <3>8, <1>2, <2>8, <2>15 DEF Places
    <2>18. /\ ToHear(kind, stdin, Pipe, run, begun, inputs) /\ run \in Going /\ Pipe \in Seq(Says)
           /\ inputs \in [Runs -> SUBSET Sends] /\ begun \in 0 .. MaxSends
           /\ Refuses(s, stdin, inputs)
      <3>1. ToHear(kind, stdin, Pipe, run, begun, inputs)
        BY DEF QueuedInv, Harness
      <3>2. Refuses(s, stdin, inputs)
        BY <3>1, <2>1, <1>3 DEF ToHear, Refusals
      <3> QED BY <3>1, <3>2, Given
    <2>19. Queued'
      <3> SUFFICES ASSUME kind # "codex" PROVE Queued'
        BY <1>2 DEF Queued
      <3>1. ASSUME ~stalled, board'.turn # 0, NEW x \in Held(board')
            PROVE  x \in lost \/ Due(x, stdin, Rest, run, inputs)
        <4>1. x \in Held(board) /\ x # s /\ board.turn # 0
          BY <3>1, <2>4, <2>14
        <4>2. x \in lost \/ Due(x, stdin, Pipe, run, inputs)
          BY <4>1, <3>1, <2>13
        <4>3. ~ Ends(Pipe[1])
          BY <1>4 DEF First
        <4> QED BY <4>1, <4>2, <4>3, <1>3, <2>1, DueFewer
      <3>2. ASSUME ~stalled, board'.turn # 0 \/ ~Closed
            PROVE  Serves(Held(board'), stdin, Rest, run, inputs)
        <4>1. Serves(Held(board), stdin, Pipe, run, inputs)
          BY <3>2, <2>4, <2>13
        <4>2. Serves(Held(board) \ {s}, stdin, Rest, run, inputs)
          BY <4>1, <1>3, <2>1, <2>18, ServesRefused
        <4> QED BY <4>2, <2>14
      <3>3. ~stalled /\ board'.parked.runs # {} => Closed
        BY <2>4, <2>13
      <3> QED BY <3>1, <3>2, <3>3, <1>2, <2>5, <2>6, <2>14 DEF Queued
    <2>20. Steered'
      <3> SUFFICES ASSUME kind = "codex" PROVE Steered'
        BY <1>2 DEF Steered
      <3>1. Owing(awaiting \ {s}, stdin, Rest)
        <4>1. Owing(awaiting, stdin, Rest) /\ ToHear(kind, stdin, Rest, run, begun, inputs)
          BY <1>1, ReadRest
        <4>2. \A i \in 1 .. Len(stdin) : IsInput(stdin[i]) => stdin[i].token # s
          BY <2>18 DEF Refuses
        <4>3. ASSUME NEW i \in 1 .. Len(Rest), Accepts(Rest[i]) PROVE Rest[i].token # s
          <5>1. Rest[i].token \in inputs[Rest[i].run]
            BY <4>1, <4>3 DEF ToHear, Receipts, Receipt
          <5>2. Rest[i].run \in Runs
            BY <4>1, <4>3, <1>3, <2>18, RunKnown, KindsApart
          <5> QED BY <5>1, <5>2, <2>18 DEF Refuses
        <4> QED BY <4>1, <4>2, <4>3 DEF Owing
      <3>2. ASSUME ~stalled
            PROVE  /\ board' = board /\ board.parked.runs = {}
                   /\ board.turn # 0 => Oldest(board.opener, Rest, run, inputs)
                   /\ Introduced(board.opener, Rest, run, inputs)
        <4>1. /\ board.parked.runs = {}
              /\ board.turn # 0 => Oldest(board.opener, Pipe, run, inputs)
              /\ Introduced(board.opener, Pipe, run, inputs)
          BY <3>2, <1>3 DEF QueuedInv, Steered
        <4>2. board.turn # 0 => board.opener # s
          BY <4>1, <2>18 DEF Oldest, Refuses
        <4>3. board' = board
          BY <4>2, <2>4, <2>15
        <4>4. ~ Ends(Pipe[1]) /\ ~ Accepts(Pipe[1])
          BY <1>4 DEF First
        <4>5. Oldest(board.opener, Pipe, run, inputs) => Oldest(board.opener, Rest, run, inputs)
          BY <4>4, <1>3, OldestFewer
        <4>6. Introduced(board.opener, Rest, run, inputs)
          BY <4>1, <4>4, <1>3, <2>18, IntroducedFewer
        <4> QED BY <4>1, <4>3, <4>5, <4>6
      <3> QED BY <3>1, <3>2, <1>2, <2>2, <2>5 DEF Steered
    <2>21. OutputBelongs'
      <3> SUFFICES ASSUME ~stalled PROVE Belong(board'.turns, inputs)
        BY <1>2, <2>5 DEF OutputBelongs, Belong
      <3>1. Belong(board.turns, inputs)
        BY Belongs DEF QueuedInv
      <3>2. board.parked.runs # {} => Closed
        BY <1>3, <2>13 DEF QueuedInv, Steered
      <3> QED BY <3>1, <3>2, <2>3 DEF Yields, StillBelong
    <2> QED BY <2>4, <2>5, <2>11, <2>12, <2>17, <2>19, <2>20, <2>21 DEF QueuedInv
  <1> QED BY <1>6, <1>7

-----------------------------------------------------------------------------
(* codex answers an input *)

(* What an answer leaves on the board. *)
Takes(c, b, s) ==
  /\ c \in Board /\ Boarded(c) /\ c.pending = b.pending /\ c.turn # 0
  /\ OpenersOf(c) \subseteq OpenersOf(b) \cup {s}
  /\ b.turn # 0 => c.turn = b.turn /\ c.opener = b.opener /\ c.turns = b.turns /\ c.parked = b.parked
  /\ b.turn = 0 => Opens([c EXCEPT !.accepted = FALSE], b, s) /\ c.opener = s /\ c.parked.runs = {}

LEMMA AcceptTakes ==
  ASSUME NEW b \in Board, Boarded(b), NEW s \in Sends, NEW v \in Runs \cup {0},
         NEW c, c = Accepted([b EXCEPT !.steer = v], s)
  PROVE  Takes(c, b, s) /\ (b.parked.runs = {} => \A ins : Belong(b.turns, ins) => Belong(c.turns, ins))
  <1> DEFINE d == [b EXCEPT !.steer = v]
             e == IF d.turn = 0 THEN Started(d, s) ELSE d
             g == e.accepted \/ e.opener = s
  <1>1. /\ d \in Board /\ d.turn = b.turn /\ d.opener = b.opener /\ d.pending = b.pending
        /\ d.turns = b.turns /\ d.parked = b.parked
    BY DEF Board
  <1>2. c = [e EXCEPT !.accepted = g]
    BY DEF Accepted
  <1> HIDE DEF d
  <1>3. Boarded(d)
    BY <1>1 DEF Boarded
  <1>4. OpenersOf(d) = OpenersOf(b)
    BY <1>1 DEF OpenersOf
  <1>5. d.turn = 0 => /\ e \in Board /\ Opens(e, d, s) /\ e.pending = d.pending
                      /\ OpenersOf(e) = OpenersOf(d) \cup {s} /\ Boarded(e) /\ e.parked.runs = {}
    BY <1>1, StartedOpens, OpensKeep
  <1>6. d.turn # 0 => e = d
    OBVIOUS
  <1> HIDE DEF e
  <1>7. e \in Board
    BY <1>1, <1>5, <1>6
  <1>8. g \in BOOLEAN
    BY <1>7, BoardTyped DEF g
  <1> HIDE DEF g
  <1>9. /\ c \in Board /\ c.turn = e.turn /\ c.opener = e.opener /\ c.pending = e.pending
        /\ c.turns = e.turns /\ c.parked = e.parked
    BY <1>2, <1>7, <1>8 DEF Board
  <1>10. Boarded(c) /\ OpenersOf(c) = OpenersOf(e)
    <2>1. Boarded(e)
      BY <1>3, <1>5, <1>6
    <2> QED BY <2>1, <1>9 DEF Boarded, OpenersOf
  <1>11. CASE b.turn # 0
    BY <1>1, <1>4, <1>6, <1>9, <1>10, <1>11 DEF Takes
  <1>12. CASE b.turn = 0
    <2>1. Opens(e, d, s) /\ e.pending = d.pending /\ e.parked.runs = {} /\ OpenersOf(e) = OpenersOf(d) \cup {s}
      BY <1>1, <1>5, <1>12
    <2> DEFINE u == [c EXCEPT !.accepted = FALSE]
    <2>2. /\ u.turn = c.turn /\ u.opener = c.opener /\ ~u.accepted /\ u.parked = c.parked /\ u.turns = c.turns
      BY <1>9 DEF Board
    <2> HIDE DEF u
    <2>3. Opens(u, b, s)
      BY <2>1, <2>2, <1>1, <1>9 DEF Opens
    <2>4. c.turn # 0 /\ c.opener = s
      BY <2>1, <1>9 DEF Opens
    <2>5. Takes(c, b, s)
      BY <2>1, <2>3, <2>4, <1>1, <1>4, <1>9, <1>10, <1>12 DEF Takes, u
    <2>6. ASSUME b.parked.runs = {}, NEW ins, Belong(b.turns, ins) PROVE Belong(c.turns, ins)
      BY <2>2, <2>3, <2>6, OpensBelong
    <2> QED BY <2>5, <2>6
  <1> QED BY <1>11, <1>12

LEMMA OldestHead ==
  ASSUME NEW k, NEW c, NEW n, NEW p \in Seq(Says), 1 \in 1 .. Len(p), NEW r \in Going,
         NEW b \in 0 .. MaxSends, NEW ins, Ran(k, n, r, b, ins), ToHear(k, c, p, r, b, ins),
         OfRun(p[1]), ~ Ends(p[1]), NEW o, Oldest(o, p, r, ins)
  PROVE  o \in ins[p[1].run]
  <1>1. PICK m \in Runs : /\ o \in ins[m]
                          /\ \A i \in 1 .. Len(p) : OfRun(p[i]) => p[i].run >= m
                          /\ m = r.no \/ EndIn(p, m)
    BY DEF Oldest
  <1>2. p[1].run \in 1 .. b /\ p[1].run >= m /\ m \in Nat
    BY <1>1, RunKnown, Sized
  <1>3. CASE m = r.no
    <2>1. m = b
      BY <1>1, <1>3, Sized DEF Ran
    <2>2. p[1].run = m
      BY <2>1, <1>2
    <2> QED BY <2>2, <1>1
  <1>4. CASE EndIn(p, m)
    <2>1. PICK j \in 1 .. Len(p) : Ends(p[j]) /\ p[j].run = m
      BY <1>4 DEF EndIn
    <2>2. 1 < j /\ OfRun(p[j])
      <3>1. j # 1
        BY <2>1
      <3> QED BY <3>1, <2>1, KindsApart
    <2>3. p[1].run <= m
      BY <2>1, <2>2 DEF ToHear, InOrder, Follows
    <2>4. p[1].run = m
      BY <2>3, <1>2
    <2> QED BY <2>4, <1>1
  <1> QED BY <1>1, <1>3, <1>4

LEMMA AnswersKnown ==
  ASSUME QueuedInv, Reads, Meant.kind = "command-accepted"
  PROVE  /\ kind = "codex" /\ First.run \in Runs /\ First.token \in Sends /\ First.token \in inputs[First.run]
         /\ First.token \in awaiting /\ Accepts(Pipe[1]) /\ OfRun(Pipe[1]) /\ ~ Ends(Pipe[1])
         /\ Meant.run \in Runs \cup {0}
  <1>1. /\ ~Finalized /\ 1 \in 1 .. Len(Pipe) /\ Meant.kind = First.kind /\ Head(stdout).run = First.run
        /\ Pipe \in Seq(Says)
    BY ReadFacts, Given
  <1>2. Accepts(Pipe[1]) /\ OfRun(Pipe[1]) /\ ~ Ends(Pipe[1])
    BY <1>1 DEF Accepts, OfRun, Ends, First
  <1>3. ToHear(kind, stdin, Pipe, run, begun, inputs) /\ begun \in 0 .. MaxSends
    BY Given DEF QueuedInv, Harness
  <1>4. First.run \in Runs
    BY <1>1, <1>2, <1>3, RunKnown DEF First
  <1>5. kind = "codex" /\ First.token \in inputs[First.run]
    BY <1>1, <1>2, <1>3 DEF ToHear, Receipts, Receipt, First
  <1>6. First.token \in Sends
    BY <1>4, <1>5, Given
  <1>7. First.token \in awaiting
    BY <1>1, <1>2, <1>5 DEF QueuedInv, Steered, Owing, First
  <1>8. Meant.run \in {0, Head(stdout).run}
    BY <1>5 DEF Meant, Decode, DecodeCodex, Meaning, Settling, Failing, ProbeFailed, Announced, TurnEnd
  <1> QED BY <1>1, <1>2, <1>4, <1>5, <1>6, <1>7, <1>8

LEMMA AcceptedStep ==
  ASSUME QueuedInv, AcceptedRead
  PROVE  QueuedInv'
  <1> DEFINE s == First.token
  <1>1. /\ Reads /\ Meant.kind = "command-accepted" /\ NativeStill
        /\ UNCHANGED <<kind, sent, identity, buffered, failure, life, stdin, history>>
    BY DEF AcceptedRead
  <1>2. /\ kind = "codex" /\ First.run \in Runs /\ s \in Sends /\ s \in inputs[First.run]
        /\ s \in awaiting /\ Accepts(Pipe[1]) /\ OfRun(Pipe[1]) /\ ~ Ends(Pipe[1])
        /\ Meant.run \in Runs \cup {0}
    BY <1>1, AnswersKnown
  <1>3. /\ kind' = kind /\ sent' = sent /\ identity' = identity /\ buffered' = buffered
        /\ failure' = failure /\ stdin' = stdin
        /\ closing' = closing /\ closer' = closer /\ eof' = eof /\ signal' = signal
        /\ stalled' = stalled /\ exit' = exit /\ cause' = cause
        /\ refused' = refused /\ lost' = lost /\ dropped' = dropped
    BY <1>1 DEF life, history
  <1>4. /\ ~Finalized /\ 1 \in 1 .. Len(Pipe) /\ Meant.token = s /\ Kept(Rest, Pipe, 1)
        /\ Rest \in Seq(Says) /\ Pipe \in Seq(Says)
    BY <1>1, ReadFacts, Given
  <1>5. /\ stdout' \in Seq(Records) /\ Pipe' = Rest /\ Pipe' \in Seq(Says)
        /\ run' = run /\ begun' = begun /\ inputs' = inputs /\ AskedOnce' /\ Harness' /\ Losing'
    BY <1>1, <1>3, ReadSteps
  <1>6. board \in Board /\ Boarded(board)
    BY Given DEF QueuedInv
  <1>7. Takes(board', board, s) /\ (board.parked.runs = {} => \A ins : Belong(board.turns, ins) => Belong(board'.turns, ins))
    <2> DEFINE v == IF Meant.run # 0 THEN Meant.run ELSE board.steer
    <2>1. board' = Accepted([board EXCEPT !.steer = v], s)
      BY <1>2, <1>4 DEF AcceptedRead
    <2>2. v \in Runs \cup {0}
      BY <1>2, <1>6, BoardTyped
    <2> HIDE DEF v
    <2> QED BY <2>1, <2>2, <1>2, <1>6, AcceptTakes
  <1>8. told' = [told EXCEPT ![s] = "started"] /\ awaiting' = awaiting \ {s}
    BY <1>2, <1>4 DEF AcceptedRead
  <1> HIDE DEF s
  <1>9. /\ board' \in Board /\ Boarded(board') /\ board'.pending = board.pending
        /\ OpenersOf(board') \subseteq OpenersOf(board) \cup {s}
        /\ board.turn # 0 => board'.opener = board.opener /\ board'.parked = board.parked
        /\ board.turn = 0 => board'.opener = s /\ board'.parked.runs = {}
    BY <1>7 DEF Takes
  <1>10. ~failure /\ (BuffersBeforeIdentity(kind) => identity) /\ buffered = <<>> /\ Members(buffered) = {}
    <2>1. ~failure /\ (BuffersBeforeIdentity(kind) => identity)
      BY <1>2, <1>4, RunsAnswered DEF First
    <2>2. buffered = <<>>
      BY <2>1 DEF QueuedInv, Places
    <2> QED BY <2>1, <2>2 DEF Members
  <1>11. /\ told' \in [Sends -> {"none", "started", "native-rejected", "write-failed", "closed"}]
         /\ \A x \in Sends : x # s => told'[x] = told[x]
    BY <1>2, <1>8, Given
  <1>12. Types'
    <2>1. TypeOK'
      BY <1>3, <1>5, <1>8, <1>9, <1>11 DEF QueuedInv, Types, TypeOK
    <2> QED BY <1>3, <1>5, <2>1 DEF QueuedInv, Types
  <1>13. Ending' /\ RefusedOpenTold' /\ Refusal' /\ Unannounced' /\ Queued'
    <2>1. ~Finalized'
      BY <1>3, <1>4 DEF Finalized
    <2> QED BY <2>1, <1>2, <1>3, <1>10 DEF QueuedInv, Ending, RefusedOpenTold, Refusal, Unannounced, Queued
  <1>14. s \in 1 .. sent
    BY <1>2 DEF QueuedInv, Places, Placed
  <1>15. Places'
    <2>1. Placed(board, sent, awaiting \cup lost \cup dropped \cup refused \cup Members(buffered))'
      BY <1>3, <1>8, <1>9, <1>14 DEF QueuedInv, Places, Placed
    <2>2. \A x \in Sends : x > sent => told'[x] = "none"
      <3>1. \A x \in Sends : x > sent => x # s /\ told[x] = "none"
        BY <1>14, Given, Sized DEF QueuedInv, Places
      <3> QED BY <3>1, <1>11
    <2>3. \A x \in awaiting' : kind = "codex" /\ told'[x] = "none" /\ x \notin refused
      <3>1. \A x \in awaiting : x \in Sends /\ kind = "codex" /\ told[x] = "none" /\ x \notin refused
        BY Given DEF QueuedInv, Places
      <3> QED BY <3>1, <1>8, <1>11
    <2>4. \A x \in Members(buffered) \cup Members(board'.pending) : x \notin refused
      BY <1>9 DEF QueuedInv, Places
    <2> QED BY <2>1, <2>2, <2>3, <2>4, <1>3, <1>9, <1>10 DEF QueuedInv, Places
  <1>16. /\ ToHear(kind, stdin, Pipe, run, begun, inputs) /\ run \in Going
         /\ Ran(kind, sent, run, begun, inputs) /\ ToRead(stdin, sent, begun, inputs)
         /\ inputs \in [Runs -> SUBSET Sends] /\ begun \in 0 .. MaxSends /\ stdin \in Seq(CommandsOf(kind))
    BY Given DEF QueuedInv, Harness
  <1>17. Pipe[1].token = s /\ Pipe[1].run \in Runs /\ s \in inputs[Pipe[1].run] /\ s # 0 /\ s \in Nat
    BY <1>2, Sized DEF First, s
  <1>18. Owing(awaiting', stdin, Rest)
    <2>1. Owing(awaiting, stdin, Rest)
      BY <1>1, <1>2, ReadRest
    <2>2. ASSUME NEW i \in 1 .. Len(stdin), IsInput(stdin[i]) PROVE stdin[i].token # s
      <3>1. s < stdin[i].token
        BY <2>2, <1>16, <1>17 DEF ToRead, After
      <3> QED BY <3>1, <1>17
    <2>3. ASSUME NEW i \in 1 .. Len(Rest), Accepts(Rest[i]) PROVE Rest[i].token # s
      <3>1. Skip(1, i) \in 1 .. Len(Pipe) /\ Skip(1, i) # 1 /\ Rest[i] = Pipe[Skip(1, i)]
        BY <1>4 DEF Kept
      <3>2. 1 < Skip(1, i)
        BY <3>1
      <3>3. s < Rest[i].token
        BY <2>3, <3>1, <3>2, <1>2, <1>4, <1>16, <1>17 DEF ToHear, InTurn
      <3> QED BY <3>3, <1>17
    <2> QED BY <2>1, <2>2, <2>3, <1>8 DEF Owing
  <1>19. ASSUME ~stalled
         PROVE  /\ board.parked.runs = {} /\ board'.parked.runs = {}
                /\ Oldest(board'.opener, Rest, run, inputs) /\ Introduced(board'.opener, Rest, run, inputs)
    <2> DEFINE o == board.opener
    <2>1. /\ board.parked.runs = {} /\ Introduced(o, Pipe, run, inputs)
          /\ board.turn # 0 => Oldest(o, Pipe, run, inputs)
      BY <1>2, <1>4, <1>19 DEF QueuedInv, Steered
    <2>2. CASE board.turn # 0
      <3>1. board'.opener = o /\ board'.parked.runs = {} /\ o # 0
        BY <2>1, <2>2, <1>6, <1>9 DEF Boarded
      <3> HIDE DEF o
      <3>2. Oldest(o, Pipe, run, inputs)
        BY <2>1, <2>2
      <3>3. Oldest(o, Rest, run, inputs)
        BY <3>2, <1>2, <1>4, OldestFewer
      <3>4. Covers(o, Pipe[1].run, inputs)
        BY <3>1, <3>2, <1>2, <1>4, <1>16, OldestHead DEF Covers
      <3>5. Introduced(o, Rest, run, inputs)
        BY <3>4, <2>1, <1>4, IntroducedRest
      <3> QED BY <3>1, <3>3, <3>5, <2>1
    <2>3. CASE board.turn = 0
      <3>1. board'.opener = s /\ board'.parked.runs = {} /\ o = 0
        BY <2>3, <1>6, <1>9 DEF Boarded
      <3> HIDE DEF o
      <3> DEFINE n == Pipe[1].run
      <3>2. Oldest(s, Rest, run, inputs)
        <4>1. \A i \in 1 .. Len(Rest) : OfRun(Rest[i]) => Rest[i].run >= n
          <5> SUFFICES ASSUME NEW i \in 1 .. Len(Rest), OfRun(Rest[i]) PROVE Rest[i].run >= n
            OBVIOUS
          <5>1. Skip(1, i) \in 1 .. Len(Pipe) /\ Skip(1, i) # 1 /\ Rest[i] = Pipe[Skip(1, i)]
            BY <1>4 DEF Kept
          <5>2. 1 < Skip(1, i)
            BY <5>1
          <5>3. n <= Rest[i].run /\ Rest[i].run \in Runs
            BY <5>1, <5>2, <1>2, <1>4, <1>16, RunKnown DEF ToHear, InOrder, Follows
          <5> QED BY <5>3, <1>17, Sized
        <4>2. n = run.no \/ EndIn(Rest, n)
          <5>1. n = run.no \/ EndIn(Pipe, n)
            BY <1>2, <1>4, <1>16 DEF ToHear, Receipts, Receipt
          <5> QED BY <5>1, <1>2, <1>4 DEF EndIn, Kept
        <4> QED BY <4>1, <4>2, <1>17 DEF Oldest
      <3>3. \A m : ~ Covers(o, m, inputs)
        BY <3>1 DEF Covers
      <3>4. Covers(s, n, inputs)
        BY <1>17 DEF Covers
      <3>5. Introduced(s, Rest, run, inputs)
        BY <3>3, <3>4, <2>1, <1>4, IntroducedRest
      <3> QED BY <3>1, <3>2, <3>5, <2>1
    <2> QED BY <2>2, <2>3
  <1>20. Steered'
    BY <1>3, <1>5, <1>18, <1>19 DEF Steered
  <1>21. OutputBelongs'
    <2> SUFFICES ASSUME ~stalled PROVE Belong(board'.turns, inputs)
      BY <1>3, <1>5 DEF OutputBelongs, Belong
    <2>1. Belong(board.turns, inputs)
      BY Belongs DEF QueuedInv
    <2> QED BY <2>1, <1>7, <1>19
  <1> QED BY <1>5, <1>9, <1>12, <1>13, <1>15, <1>20, <1>21 DEF QueuedInv

-----------------------------------------------------------------------------
(* The harness refuses the session *)

LEMMA Waiting ==
  ASSUME QueuedInv, Reads, Announces(First)
  PROVE  /\ ~identity /\ ~failure /\ kind # "antigravity" /\ BuffersBeforeIdentity(kind) /\ ~Finalized
         /\ begun = 0 /\ run = Idle /\ run.no = 0 /\ lost = {} /\ board.parked.runs = {}
         /\ NoInput(stdin) /\ Quiet(Pipe) /\ Quiet(Rest) /\ NoAsk(stdin) /\ NoWord(Rest)
         /\ board.turn = 0 /\ board.turns = <<>> /\ board.pending = <<>> /\ board.opener = 0
         /\ buffered = Counted(sent) /\ Members(buffered) = 1 .. sent /\ Len(buffered) = sent /\ sent \in Nat
         /\ \A i \in 1 .. sent : buffered[i] = i
  <1>1. /\ ~identity /\ ~failure /\ kind # "antigravity" /\ NoAsk(stdin) /\ NoWord(Rest)
        /\ (Quiet(Pipe) => Quiet(Rest)) /\ ~Finalized
    BY ReadRest, ReadFacts
  <1>2. BuffersBeforeIdentity(kind)
    BY <1>1, Given DEF Kinds, BuffersBeforeIdentity
  <1>3. /\ begun = 0 /\ run = Idle /\ lost = {} /\ board.parked.runs = {} /\ NoInput(stdin) /\ Quiet(Pipe)
        /\ board.turn = 0 /\ board.turns = <<>> /\ board.pending = <<>> /\ buffered = Counted(sent)
    BY <1>1, <1>2 DEF QueuedInv, Unannounced, Counted
  <1>4. sent \in Nat
    BY Given, Sized
  <1>5. Members(buffered) = 1 .. sent /\ Len(buffered) = sent /\ \A i \in 1 .. sent : buffered[i] = i
    BY <1>3, <1>4, CountMore
  <1>6. board.opener = 0 /\ run.no = 0
    BY <1>3 DEF QueuedInv, Boarded, Idle
  <1> QED BY <1>1, <1>2, <1>3, <1>4, <1>5, <1>6

LEMMA QuietRest ==
  ASSUME NEW c, NEW p, NoInput(c), Quiet(p), NEW A, NEW o, NEW r, r.no = 0, NEW ins
  PROVE  Owing(A, c, p) /\ Introduced(o, p, r, ins)
  BY KindsApart DEF NoInput, Quiet, Owing, Introduced

LEMMA ProbeFailedStep ==
  ASSUME QueuedInv, ProbeFailedRead
  PROVE  QueuedInv'
  <1>1. /\ Reads /\ Meant.kind = "probe-failed" /\ NativeStill /\ failure' = TRUE /\ board' = Failed(board)
        /\ UNCHANGED <<kind, sent, identity, signal, stalled, exit, cause, stdin, lost, dropped>>
    BY DEF ProbeFailedRead
  <1>2. /\ kind' = kind /\ sent' = sent /\ identity' = identity /\ stdin' = stdin /\ signal' = signal
        /\ stalled' = stalled /\ exit' = exit /\ cause' = cause /\ lost' = lost /\ dropped' = dropped
    BY <1>1
  <1>3. Announces(First)
    BY <1>1, ReadFacts DEF Announces
  <1>4. /\ ~identity /\ ~failure /\ kind # "antigravity" /\ BuffersBeforeIdentity(kind) /\ ~Finalized
        /\ begun = 0 /\ run = Idle /\ run.no = 0 /\ lost = {} /\ board.parked.runs = {}
        /\ NoInput(stdin) /\ Quiet(Rest)
        /\ board.turn = 0 /\ board.turns = <<>> /\ board.pending = <<>> /\ board.opener = 0
        /\ buffered = Counted(sent) /\ Members(buffered) = 1 .. sent /\ sent \in Nat
    BY <1>1, <1>3, Waiting
  <1>5. /\ closing' = TRUE /\ closer' \in {"none", "draining", "woken", "ended"} /\ eof' \in BOOLEAN
    BY LifeTyped DEF ProbeFailedRead
  <1>6. /\ stdout' \in Seq(Records) /\ Pipe' = Rest /\ Pipe' \in Seq(Says)
        /\ run' = run /\ begun' = begun /\ inputs' = inputs /\ AskedOnce' /\ Harness' /\ Losing'
    BY <1>1, <1>2, <1>3, <1>5, ReadSteps
  <1>7. /\ board' \in Board /\ board'.turn = 0 /\ board'.opener = 0 /\ board'.accepted = board.accepted
        /\ board'.pending = <<>> /\ board'.parked.runs = {} /\ Boarded(board')
        /\ board'.parked.failed /\ board'.turns = <<>>
    <2>1. board \in Board /\ Boarded(board)
      BY Given DEF QueuedInv
    <2> QED BY <2>1, <1>1, <1>4, FailedBoard
  <1>8. kind = "codex" =>
          /\ told' = [s \in Sends |-> IF s \in 1 .. sent THEN "native-rejected" ELSE told[s]]
          /\ awaiting' = {} /\ refused' = refused \cup 1 .. sent /\ buffered' = <<>>
    <2>1. awaiting \subseteq 1 .. sent
      BY DEF QueuedInv, Places, Placed
    <2> QED BY <2>1, <1>4 DEF ProbeFailedRead
  <1>9. kind # "codex" => told' = told /\ awaiting' = awaiting /\ refused' = refused /\ buffered' = buffered
    BY DEF ProbeFailedRead
  <1>10. 1 .. sent \subseteq Sends
    BY Given, Sized DEF Sends
  <1>11. Types'
    <2>1. /\ told' \in [Sends -> {"none", "started", "native-rejected", "write-failed", "closed"}]
          /\ awaiting' \subseteq Sends /\ refused' \subseteq Sends /\ buffered' \in Seq(Sends)
      <3>1. <<>> \in Seq(Sends)
        OBVIOUS
      <3>2. refused \subseteq Sends
        BY DEF QueuedInv, Types
      <3> QED BY <3>1, <3>2, <1>8, <1>9, <1>10, Given
    <2>2. TypeOK'
      BY <1>1, <1>2, <1>5, <1>6, <1>7, <2>1 DEF QueuedInv, Types, TypeOK
    <2> QED BY <1>2, <1>6, <2>1, <2>2 DEF QueuedInv, Types
  <1>12. Ending' /\ RefusedOpenTold' /\ Queued' /\ ~Finalized'
    <2>1. ~Finalized' /\ Closed'
      BY <1>2, <1>4, <1>5 DEF Finalized, Closed
    <2>2. kind # "codex" => InLine(board')
      <3>1. kind # "codex" => InLine(board)
        BY <1>4 DEF QueuedInv, Queued
      <3> QED BY <3>1, <1>4, <1>7 DEF InLine
    <2>3. Ending' /\ RefusedOpenTold'
      BY <2>1, <1>5 DEF Ending, RefusedOpenTold
    <2>4. Queued'
      BY <2>1, <2>2, <1>2, <1>7 DEF Queued
    <2> QED BY <2>1, <2>3, <2>4
  <1>13. Places'
    <2>1. Members(board'.pending) = {} /\ OpenersOf(board') = {}
      BY <1>7 DEF Members, OpenersOf
    <2> DEFINE T == awaiting \cup lost \cup dropped \cup refused \cup Members(buffered)
               U == awaiting' \cup lost \cup dropped \cup refused' \cup Members(buffered')
    <2>2. T \subseteq 1 .. sent
      BY DEF QueuedInv, Places, Placed
    <2>3. Members(<<>>) = {}
      BY DEF Members
    <2>4. U \subseteq 1 .. sent
      BY <2>2, <2>3, <1>8, <1>9
    <2> HIDE DEF T, U
    <2>5. Placed(board', sent, U)
      BY <2>1, <2>4 DEF Placed
    <2>6. Placed(board, sent, awaiting \cup lost \cup dropped \cup refused \cup Members(buffered))'
      BY <2>5, <1>2 DEF U
    <2>7. \A s \in Sends : s > sent => told'[s] = "none"
      <3>1. \A s \in Sends : s > sent => told[s] = "none" /\ s \notin 1 .. sent
        BY <1>4, Sized DEF QueuedInv, Places
      <3> QED BY <3>1, <1>8, <1>9
    <2>8. CASE kind = "codex"
      BY <2>1, <2>3, <2>6, <2>7, <2>8, <1>2, <1>4, <1>7, <1>8 DEF Places
    <2>9. CASE kind # "codex"
      BY <2>1, <2>6, <2>7, <2>9, <1>2, <1>7, <1>9 DEF QueuedInv, Places
    <2> QED BY <2>8, <2>9
  <1>14. Unannounced'
    <2>1. kind' = "popeye" \/ ~failure' => buffered' = [i \in 1 .. sent' |-> i]
      BY <1>1, <1>2, <1>4, <1>9 DEF Counted
    <2> QED BY <2>1, <1>2, <1>4, <1>6, <1>7 DEF Unannounced
  <1>15. Refusal'
    <2>1. kind = "codex" => \A s \in 1 .. sent : told'[s] = "native-rejected"
      BY <1>8, <1>10
    <2> QED BY <2>1, <1>2, <1>4, <1>5, <1>7, <1>8 DEF Refusal
  <1>16. Steered'
    <2>1. Owing(awaiting', stdin, Rest) /\ Introduced(board'.opener, Rest, run, inputs)
      BY <1>4, QuietRest
    <2> QED BY <2>1, <1>2, <1>6, <1>7 DEF Steered
  <1>17. OutputBelongs'
    BY <1>7 DEF OutputBelongs
  <1> QED BY <1>6, <1>7, <1>11, <1>12, <1>13, <1>14, <1>15, <1>16, <1>17 DEF QueuedInv

-----------------------------------------------------------------------------
(* The harness announces the id, and what waited for it is written *)

(* The inputs of d are those from 1 to n, in order. *)
Wrote(d, n) ==
  /\ \A i \in 1 .. Len(d) : IsInput(d[i]) => d[i].token \in 1 .. n
  /\ \A i, j \in 1 .. Len(d) : i < j /\ IsInput(d[i]) /\ IsInput(d[j]) => d[i].token < d[j].token
  /\ \A t \in 1 .. n : \E i \in 1 .. Len(d) : IsInput(d[i]) /\ d[i].token = t

(* Two sequences in one. *)
Joins(d, c, u) ==
  /\ Len(d) = Len(c) + Len(u) /\ Len(c) \in Nat /\ \A i \in 1 .. Len(c) : d[i] = c[i]
  /\ \A i \in 1 .. Len(u) : d[Len(c) + i] = u[i]
  /\ \A i \in 1 .. Len(d) : i <= Len(c) \/ (i - Len(c) \in 1 .. Len(u) /\ d[i] = u[i - Len(c)])

LEMMA JoinJoins ==
  ASSUME NEW S, NEW q \in Seq(S), NEW u \in Seq(S)
  PROVE  q \o u \in Seq(S) /\ Joins(q \o u, q, u)
  <1> DEFINE v == q \o u
  <1>1. v \in Seq(S)
    BY Joined
  <1>2. /\ Len(v) = Len(q) + Len(u) /\ Len(q) \in Nat
        /\ \A i \in 1 .. Len(q) : v[i] = q[i]
        /\ \A i \in 1 .. Len(u) : v[Len(q) + i] = u[i]
        /\ \A i \in 1 .. Len(v) : i <= Len(q) \/ (i - Len(q) \in 1 .. Len(u) /\ v[i] = u[i - Len(q)])
    BY Joined
  <1> HIDE DEF v
  <1>3. Joins(v, q, u)
    BY <1>2 DEF Joins
  <1> QED BY <1>1, <1>3 DEF v

LEMMA FlushWrites ==
  ASSUME NEW k, NEW c \in Seq(CommandsOf(k)), NoInput(c), NoAsk(c), NEW n \in Nat,
         NEW u \in Seq(CommandsOf(k)), Len(u) = n,
         \A i \in 1 .. n : IsInput(u[i]) /\ u[i].token = i /\ u[i].mark # "identity"
  PROVE  c \o u \in Seq(CommandsOf(k)) /\ Wrote(c \o u, n) /\ NoAsk(c \o u)
  <1> DEFINE d == c \o u
             l == Len(c)
  <1>1. /\ d \in Seq(CommandsOf(k)) /\ Len(d) = l + n /\ l \in Nat
        /\ \A i \in 1 .. l : d[i] = c[i]
        /\ \A i \in 1 .. n : d[l + i] = u[i]
        /\ \A i \in 1 .. Len(d) : i <= l \/ (i - l \in 1 .. n /\ d[i] = u[i - l])
    <2>1. d \in Seq(CommandsOf(k)) /\ Joins(d, c, u)
      BY JoinJoins
    <2> HIDE DEF d
    <2> QED BY <2>1 DEF Joins
  <1> HIDE DEF d, l
  <1>2. ASSUME NEW i \in 1 .. Len(d)
        PROVE  \/ i \in 1 .. l /\ ~ IsInput(d[i]) /\ d[i].mark # "identity"
               \/ i - l \in 1 .. n /\ IsInput(d[i]) /\ d[i].token = i - l /\ d[i].mark # "identity"
    <2>1. CASE i <= l
      <3>1. i \in 1 .. l
        BY <1>1, <2>1
      <3> QED BY <3>1, <1>1 DEF NoInput, NoAsk, l
    <2>2. CASE ~ (i <= l)
      BY <2>2, <1>1
    <2> QED BY <2>1, <2>2
  <1>3. \A i \in 1 .. Len(d) : IsInput(d[i]) => d[i].token \in 1 .. n
    BY <1>2
  <1>4. ASSUME NEW i \in 1 .. Len(d), NEW j \in 1 .. Len(d), i < j, IsInput(d[i]), IsInput(d[j])
        PROVE  d[i].token < d[j].token
    <2>1. d[i].token = i - l /\ d[j].token = j - l
      BY <1>2, <1>4
    <2> QED BY <2>1, <1>1, <1>4
  <1>5. ASSUME NEW t \in 1 .. n PROVE \E i \in 1 .. Len(d) : IsInput(d[i]) /\ d[i].token = t
    <2>1. l + t \in 1 .. Len(d)
      BY <1>1
    <2> QED BY <2>1, <1>1
  <1>6. NoAsk(d)
    BY <1>2 DEF NoAsk
  <1> QED BY <1>1, <1>3, <1>4, <1>5, <1>6 DEF Wrote, d

(* What the flush leaves has to keep what follows. *)
LEMMA AnnounceStep ==
  ASSUME QueuedInv, Reads, Announces(First), NativeStill, identity' = TRUE, buffered' = <<>>,
         UNCHANGED <<kind, sent, failure, closer, eof, stalled, exit, cause, dropped>>,
         stdin' \in Seq(CommandsOf(kind)), NoAsk(stdin'), NoInput(stdin') \/ Wrote(stdin', sent),
         lost' \subseteq 1 .. sent, lost' # {} => closing' /\ NoInput(stdin'),
         closing => closing', closing' \in BOOLEAN, signal' \in {"none", "term", "kill"},
         awaiting' \subseteq awaiting, refused' \subseteq refused \cup 1 .. sent,
         told' \in [Sends -> {"none", "started", "native-rejected", "write-failed", "closed"}],
         \A s \in Sends : s \notin refused' \/ s \in refused \/ s \notin awaiting',
         \A s \in Sends : s > sent \/ s \in awaiting' => told'[s] = told[s],
         board' \in Board, Boarded(board'), Members(board'.pending) \cup OpenersOf(board') \subseteq 1 .. sent,
         \A s \in Members(board'.pending) : s \notin refused',
         board'.parked.runs = {}, Belong(board'.turns, inputs),
         kind = "codex" =>
           board'.turn = 0 /\ board'.pending = <<>> /\ (NoInput(stdin') \/ 1 .. sent \subseteq awaiting'),
         kind # "codex" =>
           /\ InLine(board') /\ (board'.turn = 0 => board'.pending = <<>>)
           /\ Held(board') \subseteq lost' \/ Wrote(stdin', sent)
           /\ Held(board') = 1 .. sent \/ (board'.turn = 0 /\ closing')
  PROVE  QueuedInv'
  <1>1. /\ kind' = kind /\ sent' = sent /\ failure' = failure /\ closer' = closer /\ eof' = eof
        /\ stalled' = stalled /\ exit' = exit /\ cause' = cause /\ dropped' = dropped
        /\ run' = run /\ begun' = begun /\ inputs' = inputs
    BY DEF NativeStill, native
  <1>2. /\ ~failure /\ ~Finalized /\ begun = 0 /\ run = Idle /\ run.no = 0 /\ NoInput(stdin)
        /\ Quiet(Rest) /\ NoWord(Rest) /\ sent \in Nat /\ kind # "antigravity"
    BY Waiting
  <1>3. stdout' \in Seq(Records) /\ Pipe' = Rest /\ Pipe' \in Seq(Says)
    <2>1. stdout' \in Seq(Records) /\ PipeOf(kind, stdout') = Rest /\ Rest \in Seq(Says)
      BY ReadFacts
    <2> QED BY <2>1, <1>1 DEF Pipe
  <1>4. ~Finalized' /\ (Closed => Closed') /\ (closing' => Closed')
    BY <1>1, <1>2 DEF Finalized, Closed, Dead
  <1>5. Types'
    <2>1. <<>> \in Seq(Sends) /\ 1 .. sent \subseteq Sends /\ refused \subseteq Sends
      BY Given, Sized DEF Sends, QueuedInv, Types
    <2>2. awaiting' \subseteq Sends /\ refused' \subseteq Sends /\ lost' \subseteq Sends
      BY <2>1, Given
    <2>3. TypeOK'
      BY <1>1, <2>1, <2>2 DEF QueuedInv, Types, TypeOK
    <2> QED BY <1>1, <1>3, <2>2, <2>3 DEF QueuedInv, Types
  <1>6. Ending' /\ RefusedOpenTold' /\ Refusal' /\ Unannounced'
    <2>1. Ending'
      BY <1>1, <1>4 DEF QueuedInv, Ending
    <2> QED BY <2>1, <1>1, <1>2 DEF RefusedOpenTold, Refusal, Unannounced
  <1>7. Places'
    <2> DEFINE T == awaiting \cup lost \cup dropped \cup refused \cup Members(buffered)
               U == awaiting' \cup lost' \cup dropped \cup refused' \cup Members(buffered')
    <2>1. Members(<<>>) = {}
      BY DEF Members
    <2>2. T \subseteq 1 .. sent
      BY DEF QueuedInv, Places, Placed
    <2>3. U \subseteq 1 .. sent
      BY <2>1, <2>2
    <2> HIDE DEF T, U
    <2>4. Placed(board', sent, U)
      BY <2>3 DEF Placed
    <2>5. Placed(board, sent, awaiting \cup lost \cup dropped \cup refused \cup Members(buffered))'
      BY <2>4, <1>1 DEF U
    <2>6. \A s \in Sends : s > sent => told'[s] = "none"
      BY DEF QueuedInv, Places
    <2>7. \A s \in awaiting' : kind = "codex" /\ told'[s] = "none" /\ s \notin refused'
      <3>1. \A s \in awaiting : s \in Sends /\ kind = "codex" /\ told[s] = "none" /\ s \notin refused
        BY Given DEF QueuedInv, Places
      <3> QED BY <3>1
    <2> QED BY <2>1, <2>5, <2>6, <2>7, <1>1 DEF Places
  <1>8. AskedOnce'
    <2>1. OneAsk(stdin') /\ OneWord(Rest)
      BY <1>2 DEF OneAsk, OneWord, NoAsk, NoWord
    <2> QED BY <2>1, <1>1, <1>2, <1>3 DEF AskedOnce, Asked
  <1>9. ToRead(stdin', sent, begun, inputs)
    <2>1. Ran(kind, sent, run, begun, inputs)
      BY DEF QueuedInv, Harness
    <2>2. \A m \in Runs : inputs[m] = {}
      BY <2>1, <1>2, Sized DEF Ran
    <2>3. \A t \in 1 .. sent : After(t, sent, begun, inputs)
      BY <2>2, <1>2 DEF After
    <2> QED BY <2>3 DEF ToRead, Wrote, NoInput
  <1>10. Harness'
    <2>1. ToHear(kind, stdin, Rest, run, begun, inputs) /\ RefusedSent(Rest, sent)
      BY ReadRest
    <2>2. ToHear(kind, stdin', Rest, run, begun, inputs)
      BY <2>1, <1>2 DEF ToHear, Refusals, Quiet
    <2> QED BY <2>1, <2>2, <1>1, <1>3, <1>9 DEF QueuedInv, Harness
  <1>11. Losing'
    BY <1>1, <1>2 DEF Losing
  <1>12. Queued'
    <2> SUFFICES ASSUME kind # "codex" PROVE Queued'
      BY <1>1 DEF Queued
    <2>1. ASSUME NEW s \in Held(board'), board'.turn # 0 PROVE s \in lost' \/ Due(s, stdin', Rest, run, inputs)
      <3>1. s \in 1 .. sent
        BY <2>1
      <3> QED BY <3>1, <2>1 DEF Wrote, Due
    <2>2. ASSUME board'.turn # 0 \/ ~Closed' PROVE Serves(Held(board'), stdin', Rest, run, inputs)
      <3>1. Held(board') = 1 .. sent
        BY <2>2, <1>4
      <3>2. \A i \in 1 .. Len(stdin') : IsInput(stdin'[i]) => stdin'[i].token \in 1 .. sent
        BY DEF Wrote, NoInput
      <3>3. \A i \in 1 .. Len(Rest) : ~ OfRun(Rest[i])
        BY <1>2 DEF Quiet
      <3> QED BY <3>1, <3>2, <3>3, <1>2 DEF Serves
    <2> QED BY <2>1, <2>2, <1>1, <1>3 DEF Queued
  <1>13. Steered'
    <2> SUFFICES ASSUME kind = "codex" PROVE Steered'
      BY <1>1 DEF Steered
    <2>1. /\ \A i \in 1 .. Len(Rest) : ~ Accepts(Rest[i]) /\ ~ OfRun(Rest[i])
      BY <1>2, KindsApart DEF Quiet
    <2>2. Owing(awaiting', stdin', Rest)
      BY <2>1 DEF Owing, NoInput, Wrote
    <2>3. Introduced(board'.opener, Rest, run, inputs)
      BY <2>1, <1>2 DEF Introduced
    <2> QED BY <2>2, <2>3, <1>1, <1>3 DEF Steered
  <1>14. OutputBelongs'
    BY <1>1 DEF OutputBelongs, Belong
  <1> QED BY <1>3, <1>5, <1>6, <1>7, <1>8, <1>10, <1>11, <1>12, <1>13, <1>14 DEF QueuedInv

LEMMA FlushedBoard ==
  ASSUME QueuedInv, Reads, Announces(First), NEW c, c = Flushed(board)
  PROVE  /\ c \in Board /\ Boarded(c) /\ c.parked.runs = {} /\ Belong(c.turns, inputs)
         /\ Members(c.pending) \cup OpenersOf(c) \subseteq 1 .. sent
         /\ Members(c.pending) \subseteq Members(buffered)
         /\ kind = "codex" => c = board
         /\ kind # "codex" => InLine(c) /\ Held(c) = 1 .. sent /\ (c.turn = 0 => c.pending = <<>>)
  <1>1. /\ board.parked.runs = {} /\ board.turn = 0 /\ board.turns = <<>> /\ board.pending = <<>>
        /\ board.opener = 0 /\ ~Finalized /\ sent \in Nat
        /\ Members(buffered) = 1 .. sent /\ Len(buffered) = sent /\ \A i \in 1 .. sent : buffered[i] = i
    BY Waiting
  <1>2. board \in Board /\ Boarded(board) /\ buffered \in Seq(Sends)
    BY Given DEF QueuedInv
  <1>3. Members(<<>>) = {} /\ OpenersOf(board) = {} /\ Belong(board.turns, inputs)
    BY <1>1 DEF Members, OpenersOf, Belong
  <1>4. kind # "codex" => InLine(board)
    BY <1>1 DEF QueuedInv, Queued
  <1>5. CASE kind = "codex" \/ buffered = <<>>
    <2>1. c = board
      BY <1>5 DEF Flushed
    <2>2. kind # "codex" => sent = 0
      BY <1>1, <1>5
    <2>3. Held(board) = {} /\ 1 .. 0 = {}
      BY <1>1, <1>3 DEF Held
    <2> QED BY <2>1, <2>2, <2>3, <1>1, <1>2, <1>3, <1>4
  <1>6. CASE kind # "codex" /\ buffered # <<>>
    <2> DEFINE t == Tail(buffered)
               e == Started(board, 1)
    <2>1. /\ t \in Seq(Sends) /\ Kept(t, buffered, 1) /\ 1 \in 1 .. sent /\ 1 \in Sends
          /\ Head(buffered) = 1
      <3>1. /\ t \in Seq(Sends) /\ Kept(t, buffered, 1) /\ 1 \in 1 .. Len(buffered)
            /\ Head(buffered) = buffered[1] /\ buffered[1] \in Sends
        BY <1>2, <1>6, TailCuts
      <3> QED BY <3>1, <1>1
    <2>2. /\ e \in Board /\ Opens(e, board, 1) /\ e.pending = <<>>
      BY <2>1, <1>1, <1>2, StartedOpens
    <2>3. c = [e EXCEPT !.pending = <<>> \o t]
      BY <2>1, <2>2, <1>1, <1>6 DEF Flushed, Board
    <2>4. <<>> \o t = t
      BY <2>1
    <2> HIDE DEF t, e
    <2>5. c = [e EXCEPT !.pending = t]
      BY <2>3, <2>4
    <2>6. /\ c \in Board /\ c.turn = e.turn /\ c.opener = e.opener /\ c.accepted = e.accepted
          /\ c.pending = t /\ c.turns = e.turns /\ c.parked = e.parked
      BY <2>1, <2>2, <2>5 DEF Board
    <2>7. OpenersOf(e) = {1} /\ Boarded(e) /\ e.parked.runs = {} /\ Belong(e.turns, inputs)
      <3>1. OpenersOf(e) = OpenersOf(board) \cup {1} /\ Boarded(e) /\ e.parked.runs = {}
        BY <2>1, <2>2, <1>2, OpensKeep
      <3>2. Belong(e.turns, inputs)
        BY <2>2, <1>1, <1>3, OpensBelong
      <3> QED BY <3>1, <3>2, <1>3
    <2>8. Boarded(c) /\ OpenersOf(c) = {1} /\ c.parked.runs = {} /\ Belong(c.turns, inputs)
      BY <2>6, <2>7 DEF Boarded, OpenersOf
    <2>9. Members(t) \subseteq 1 .. sent /\ 1 .. sent \subseteq Members(t) \cup {1}
      <3>1. 1 \in 1 .. Len(buffered) /\ buffered[1] = 1
        BY <2>1, <1>1
      <3> QED BY <3>1, <2>1, <1>1, MembersCut
    <2>10. ~c.accepted /\ c.opener = 1 /\ c.turn # 0
      BY <2>2, <2>6 DEF Opens
    <2>11. \A i \in 1 .. Len(t) : Skip(1, i) \in 1 .. sent /\ Skip(1, i) # 1 /\ t[i] = Skip(1, i)
      BY <2>1, <1>1 DEF Kept
    <2>12. \A i \in 1 .. Len(t) : 1 < t[i]
      <3> SUFFICES ASSUME NEW i \in 1 .. Len(t) PROVE 1 < t[i]
        OBVIOUS
      <3>1. Skip(1, i) \in 1 .. sent /\ Skip(1, i) # 1 /\ t[i] = Skip(1, i)
        BY <2>11
      <3> QED BY <3>1, <1>1
    <2>13. \A i, j \in 1 .. Len(t) : i < j => t[i] < t[j]
      BY <2>1, <2>11 DEF Kept
    <2>14. InLine(c)
      BY <2>6, <2>10, <2>12, <2>13 DEF InLine
    <2>15. Held(c) = 1 .. sent
      BY <2>1, <2>6, <2>9, <2>10 DEF Held
    <2> QED BY <2>1, <2>6, <2>8, <2>9, <2>10, <2>14, <2>15, <1>1, <1>6
  <1> QED BY <1>5, <1>6

LEMMA IdentityStep ==
  ASSUME QueuedInv, IdentityRead
  PROVE  QueuedInv'
  <1> DEFINE u == [i \in 1 .. Len(buffered) |-> CommandOf(buffered[i], i > 1 /\ kind # "codex")]
  <1>1. /\ Reads /\ Meant.kind = "identity" /\ NativeStill /\ identity' = TRUE /\ buffered' = <<>>
        /\ UNCHANGED <<kind, sent, failure, closer, eof, stalled, exit, cause, dropped>>
        /\ \/ /\ Writes(u) /\ Drops(Members(buffered)) /\ board' = Flushed(board)
              /\ UNCHANGED <<awaiting, told, refused, closing, signal>>
           \/ /\ buffered # <<>> /\ Breaks
              /\ awaiting' = awaiting \ Members(buffered)
              /\ told' = [s \in Sends |-> IF s \in awaiting \cap Members(buffered) THEN "write-failed" ELSE told[s]]
              /\ refused' = refused \cup (awaiting \cap Members(buffered))
              /\ lost' = lost \cup (Members(buffered) \ awaiting)
              /\ UNCHANGED <<board, stdin>>
    BY DEF IdentityRead
  <1>2. Announces(First)
    BY <1>1, ReadFacts DEF Announces
  <1>3. /\ kind # "antigravity" /\ kind \in Kinds /\ ~Finalized /\ lost = {} /\ begun = 0 /\ board.parked.runs = {}
        /\ NoInput(stdin) /\ NoAsk(stdin) /\ board.turn = 0 /\ board.turns = <<>> /\ board.pending = <<>>
        /\ Members(buffered) = 1 .. sent /\ Len(buffered) = sent /\ \A i \in 1 .. sent : buffered[i] = i
        /\ sent \in Nat
    BY <1>1, <1>2, Waiting, Given
  <1>4. /\ board \in Board /\ Boarded(board) /\ stdin \in Seq(CommandsOf(kind)) /\ buffered \in Seq(Sends)
        /\ told \in [Sends -> {"none", "started", "native-rejected", "write-failed", "closed"}]
        /\ awaiting \subseteq Sends /\ 1 .. sent \subseteq Sends
    BY Given, Sized DEF QueuedInv, Sends
  <1>5. /\ awaiting \subseteq 1 .. sent /\ refused \subseteq 1 .. sent
        /\ \A s \in awaiting : kind = "codex" /\ s \notin refused
        /\ \A s \in 1 .. sent : s \notin refused
        /\ kind = "codex" => 1 .. sent \subseteq awaiting
    BY <1>3 DEF QueuedInv, Places, Placed
  <1>6. /\ closing \in BOOLEAN /\ signal \in {"none", "term", "kill"} /\ (eof => closing)
    BY LifeTyped
  <1>7. /\ u \in Seq(CommandsOf(kind)) /\ Len(u) = sent
        /\ \A i \in 1 .. sent : IsInput(u[i]) /\ u[i].token = i /\ u[i].mark # "identity"
    <2>1. ASSUME NEW i \in 1 .. sent
          PROVE  LET c == CommandOf(buffered[i], i > 1 /\ kind # "codex") IN
                 c \in CommandsOf(kind) /\ IsInput(c) /\ c.token = i /\ c.mark # "identity"
      <3> DEFINE busy == i > 1 /\ kind # "codex"
                 n == board.steer
      <3>1. busy \in BOOLEAN /\ n \in Runs \cup {0} /\ i \in Sends
        BY <1>4, BoardTyped
      <3> HIDE DEF busy, n
      <3> DEFINE e == EncodeSend(kind, i, busy, "none", n)
      <3>2. e \in CommandsOf(kind) /\ e.token = i /\ IsInput(e) /\ e.mark # "identity"
        BY <3>1, <1>3, CommandTyped
      <3>3. CommandOf(buffered[i], i > 1 /\ kind # "codex") = e
        BY <1>3 DEF CommandOf, busy, n
      <3> HIDE DEF e
      <3> QED BY <3>2, <3>3
    <2> DEFINE f(i) == CommandOf(buffered[i], i > 1 /\ kind # "codex")
    <2>2. u = [i \in 1 .. sent |-> f(i)]
      BY <1>3
    <2>3. \A i \in 1 .. sent : f(i) \in CommandsOf(kind) /\ IsInput(f(i)) /\ f(i).token = i /\ f(i).mark # "identity"
      BY <2>1
    <2> HIDE DEF u, f
    <2> QED BY <2>2, <2>3, <1>3
  <1> HIDE DEF u
  <1>8. /\ Members(board.pending) = {} /\ OpenersOf(board) = {} /\ Belong(board.turns, inputs)
        /\ kind # "codex" => InLine(board)
    BY <1>3 DEF Members, OpenersOf, Belong, QueuedInv, Queued
  <1>9. CASE /\ Writes(u) /\ Drops(Members(buffered)) /\ board' = Flushed(board)
             /\ UNCHANGED <<awaiting, told, refused, closing, signal>>
    <2>1. /\ board' \in Board /\ Boarded(board') /\ board'.parked.runs = {} /\ Belong(board'.turns, inputs)
          /\ Members(board'.pending) \cup OpenersOf(board') \subseteq 1 .. sent
          /\ Members(board'.pending) \subseteq Members(buffered)
          /\ kind = "codex" => board' = board
          /\ kind # "codex" => InLine(board') /\ Held(board') = 1 .. sent /\ (board'.turn = 0 => board'.pending = <<>>)
      BY <1>1, <1>2, <1>9, FlushedBoard
    <2>2. awaiting' = awaiting /\ told' = told /\ refused' = refused /\ closing' = closing /\ signal' = signal
      BY <1>9
    <2>3. \A s \in Members(board'.pending) : s \notin refused'
      BY <2>1, <2>2, <1>3, <1>5
    <2>4. CASE eof
      <3>1. stdin' = stdin /\ lost' = 1 .. sent /\ closing
        BY <2>4, <1>3, <1>6, <1>9 DEF Writes, Drops
      <3> QED BY <3>1, <2>1, <2>2, <2>3, <1>1, <1>2, <1>3, <1>4, <1>5, <1>6, AnnounceStep
    <2>5. CASE ~eof
      <3>1. stdin' = stdin \o u /\ lost' = {}
        BY <2>5, <1>3, <1>9 DEF Writes, Drops
      <3>2. stdin' \in Seq(CommandsOf(kind)) /\ Wrote(stdin', sent) /\ NoAsk(stdin')
        BY <3>1, <1>3, <1>4, <1>7, FlushWrites
      <3> QED BY <3>1, <3>2, <2>1, <2>2, <2>3, <1>1, <1>2, <1>3, <1>4, <1>5, <1>6, AnnounceStep
    <2> QED BY <2>4, <2>5
  <1>10. CASE /\ buffered # <<>> /\ Breaks
              /\ awaiting' = awaiting \ Members(buffered)
              /\ told' = [s \in Sends |-> IF s \in awaiting \cap Members(buffered) THEN "write-failed" ELSE told[s]]
              /\ refused' = refused \cup (awaiting \cap Members(buffered))
              /\ lost' = lost \cup (Members(buffered) \ awaiting)
              /\ UNCHANGED <<board, stdin>>
    <2>1. board' = board /\ stdin' = stdin /\ awaiting' = {} /\ closing' = TRUE /\ signal' = Escalated
      BY <1>3, <1>5, <1>10 DEF Breaks
    <2>2. refused' \subseteq refused \cup 1 .. sent /\ lost' \subseteq 1 .. sent
      BY <1>3, <1>10
    <2>3. /\ told' \in [Sends -> {"none", "started", "native-rejected", "write-failed", "closed"}]
          /\ \A s \in Sends : s > sent => told'[s] = told[s]
      <3>1. \A s \in Sends : s > sent => s \notin 1 .. sent
        BY <1>3, Sized
      <3> QED BY <3>1, <1>3, <1>4, <1>10
    <2>4. signal' \in {"none", "term", "kill"}
      BY <2>1, <1>6 DEF Escalated
    <2>5. Held(board) = {}
      BY <1>3, <1>8 DEF Held
    <2> QED BY <2>1, <2>2, <2>3, <2>4, <2>5, <1>1, <1>2, <1>3, <1>4, <1>8, AnnounceStep
  <1> QED BY <1>1, <1>9, <1>10

-----------------------------------------------------------------------------
(* The stall clock, and the end of the session *)

LEMMA StallStep ==
  ASSUME QueuedInv, Stall
  PROVE  QueuedInv'
  <1> DEFINE e == Failed(board)
  <1>1. /\ Awake /\ stalled' = TRUE /\ board' = Over(e) /\ Wakes(Over(e)) /\ signal' = Escalated
        /\ UNCHANGED <<sends, failure, closing, eof, exit, cause, stdin, stdout, native, history>>
    BY DEF Stall, Settles
  <1>2. /\ kind' = kind /\ sent' = sent /\ identity' = identity /\ buffered' = buffered
        /\ awaiting' = awaiting /\ told' = told /\ failure' = failure /\ stdin' = stdin /\ stdout' = stdout
        /\ closing' = closing /\ eof' = eof /\ exit' = exit /\ cause' = cause
        /\ run' = run /\ begun' = begun /\ inputs' = inputs
        /\ refused' = refused /\ lost' = lost /\ dropped' = dropped
    BY <1>1 DEF sends, native, history
  <1>3. Pipe' = Pipe /\ ~Finalized /\ (Finalized' <=> Finalized) /\ (Closed' <=> Closed)
    BY <1>1, <1>2 DEF Pipe, Finalized, Closed, Dead, Awake
  <1>4. board \in Board /\ Boarded(board)
    BY Given DEF QueuedInv
  <1>5. /\ e \in Board /\ e.turn = board.turn /\ e.opener = board.opener /\ e.accepted = board.accepted
        /\ e.pending = board.pending /\ e.parked.runs = board.parked.runs /\ Recounts(e, board) /\ Boarded(e)
        /\ board.turn = 0 => e.parked.failed /\ e.turns = board.turns
    BY <1>4, FailedBoard
  <1> HIDE DEF e
  <1>6. OpenersOf(e) = OpenersOf(board)
    BY <1>5, RecountsKeep
  <1>7. Moves(board', e)
    BY <1>1, <1>5, OverMoves
  <1>8. /\ board' \in Board /\ Boarded(board')
        /\ OpenersOf(board') \subseteq OpenersOf(board) \cup Members(board.pending)
        /\ Members(board'.pending) \subseteq Members(board.pending)
        /\ board'.parked.runs \subseteq board.parked.runs
        /\ board.turn = 0 => board' = e
        /\ board.turn # 0 /\ board'.turn = 0 => Closed \/ board'.pending = <<>>
        /\ InLine(board) => InLine(board')
        /\ board.pending = <<>> => board'.pending = <<>>
    <2>1. InLine(board) => InLine(e)
      BY <1>5 DEF InLine
    <2> QED BY <2>1, <1>5, <1>6, <1>7 DEF Moves
  <1>9. /\ closer' \in {"none", "draining", "woken", "ended"} /\ (closer' # "none" => closer # "none")
        /\ signal' \in {"none", "term", "kill"}
    <2>1. Escalated \in {"none", "term", "kill"}
      BY LifeTyped DEF Escalated
    <2> QED BY <2>1, <1>1, WakesTyped
  <1>10. Types'
    <2>1. TypeOK'
      BY <1>1, <1>2, <1>8, <1>9 DEF QueuedInv, Types, TypeOK
    <2> QED BY <1>2, <1>3, <2>1 DEF QueuedInv, Types
  <1>11. Ending' /\ RefusedOpenTold'
    BY <1>2, <1>3, <1>9 DEF QueuedInv, Ending, RefusedOpenTold
  <1>12. Places'
    <2>1. Placed(board, sent, awaiting \cup lost \cup dropped \cup refused \cup Members(buffered))'
      BY <1>2, <1>8 DEF QueuedInv, Places, Placed
    <2> QED BY <2>1, <1>2, <1>8 DEF QueuedInv, Places
  <1>13. BuffersBeforeIdentity(kind) /\ ~identity => board.turn = 0 /\ board.turns = <<>> /\ board.pending = <<>>
    BY <1>3 DEF QueuedInv, Unannounced
  <1>14. Unannounced'
    BY <1>2, <1>3, <1>5, <1>8, <1>13 DEF QueuedInv, Unannounced
  <1>15. Refusal'
    <2>1. failure => board.turn = 0
      BY <1>13, Given DEF QueuedInv, Refusal, BuffersBeforeIdentity, Kinds
    <2> QED BY <2>1, <1>2, <1>5, <1>8 DEF QueuedInv, Refusal
  <1>16. AskedOnce' /\ Harness' /\ Losing'
    <2>1. AskedOnce' /\ Harness'
      BY <1>2, <1>3 DEF QueuedInv, AskedOnce, Harness
    <2> QED BY <2>1, <1>2 DEF QueuedInv, Losing
  <1>17. Queued'
    <2>1. kind # "codex" => InLine(board) /\ (~Closed /\ board.turn = 0 => board.pending = <<>>)
      BY <1>3 DEF QueuedInv, Queued
    <2>2. kind # "codex" => InLine(board') /\ (~Closed /\ board'.turn = 0 => board'.pending = <<>>)
      BY <2>1, <1>8
    <2> QED BY <2>2, <1>1, <1>2, <1>3 DEF Queued
  <1>18. Steered'
    <2>1. kind = "codex" => Owing(awaiting, stdin, Pipe)
      BY <1>3 DEF QueuedInv, Steered
    <2> QED BY <2>1, <1>1, <1>2, <1>3 DEF Steered
  <1>19. OutputBelongs'
    BY <1>1 DEF OutputBelongs
  <1> QED BY <1>8, <1>10, <1>11, <1>12, <1>14, <1>15, <1>16, <1>17, <1>18, <1>19 DEF QueuedInv

LEMMA LastBoard ==
  ASSUME QueuedInv, ~Finalized, NEW c, c = LastTurn(board)
  PROVE  /\ c \in Board /\ Boarded(c) /\ OpenersOf(c) \subseteq OpenersOf(board) \cup Members(buffered)
         /\ OpenersOf(board) \subseteq OpenersOf(c) /\ c.parked.runs \subseteq board.parked.runs
         /\ c.turn # 0 => c.opener \in OpenersOf(c)
         /\ ~stalled => Belong(c.turns, inputs)
         /\ kind = "popeye" /\ failure /\ sent > 0 =>
              c.turns # <<>> /\ c.turns[1].opener = 1 /\ c.turns[1].failed
  <1>1. board \in Board /\ Boarded(board) /\ buffered \in Seq(Sends)
    BY Given DEF QueuedInv
  <1>2. ~stalled => Belong(board.turns, inputs)
    BY Belongs DEF QueuedInv
  <1>3. kind = "popeye" /\ buffered # <<>> =>
          /\ ~identity /\ BuffersBeforeIdentity(kind) /\ board.parked.runs = {} /\ board.turn = 0 /\ board.turns = <<>>
          /\ buffered = Counted(sent)
    BY DEF QueuedInv, Places, Unannounced, BuffersBeforeIdentity, Counted
  <1>4. kind = "popeye" /\ failure /\ sent > 0 => buffered # <<>> /\ board.parked.failed
    <2>1. kind = "popeye" /\ failure => ~identity /\ board.parked.failed
      BY DEF QueuedInv, Refusal
    <2>2. kind = "popeye" /\ failure => buffered = Counted(sent)
      BY <2>1 DEF QueuedInv, Unannounced, BuffersBeforeIdentity, Counted
    <2>3. sent \in Nat /\ Len(Counted(sent)) = sent
      BY Given, Sized, CountMore
    <2> QED BY <2>1, <2>2, <2>3
  <1>5. ASSUME NEW b \in Board, Boarded(b), b.turn # 0 PROVE b.opener \in OpenersOf(b)
    <2>1. Len(b.turns) \in Nat /\ b.turns # <<>> /\ b.turns[Len(b.turns)].opener = b.opener
      BY <1>5, BoardTyped DEF Boarded
    <2>2. Len(b.turns) \in 1 .. Len(b.turns)
      BY <2>1, <1>5, BoardTyped
    <2> QED BY <2>1, <2>2 DEF OpenersOf
  <1>6. CASE kind = "popeye" /\ buffered # <<>> /\ board.turn = 0
    <2>1. Head(buffered) \in Members(buffered) /\ Head(buffered) \in Sends /\ Head(buffered) = buffered[1]
          /\ 1 \in 1 .. Len(buffered)
      BY <1>1, <1>6, TailCuts, MembersTyped
    <2> DEFINE h == Head(buffered)
    <2>2. c = Started(board, h)
      BY <1>6 DEF LastTurn
    <2> HIDE DEF h
    <2>3. c \in Board /\ Opens(c, board, h)
      BY <2>1, <2>2, <1>1, StartedOpens DEF h
    <2>4. OpenersOf(c) = OpenersOf(board) \cup {h} /\ Boarded(c) /\ c.parked.runs = {}
      BY <2>1, <2>3, <1>1, OpensKeep DEF h
    <2>5. ~stalled => Belong(c.turns, inputs)
      BY <2>3, <1>2, <1>3, <1>6, OpensBelong
    <2>6. h = 1
      <3>1. sent \in Nat /\ buffered = Counted(sent)
        BY <1>3, <1>6, Given
      <3>2. Len(Counted(sent)) = sent /\ \A i \in 1 .. sent : Counted(sent)[i] = i
        BY <3>1, CountMore
      <3> QED BY <2>1, <3>1, <3>2 DEF h
    <2>7. failure /\ sent > 0 => c.turns # <<>> /\ c.turns[1].opener = 1 /\ c.turns[1].failed
      <3>1. Len(board.turns) = 0
        BY <1>3, <1>6
      <3>2. Len(c.turns) = 1 /\ c.turns[1].opener = 1 /\ c.turns[1].failed = board.parked.failed
        BY <2>3, <2>6, <3>1 DEF Opens
      <3> QED BY <3>2, <1>4, <1>6
    <2> QED BY <2>1, <2>3, <2>4, <2>5, <2>7, <1>5 DEF h
  <1>7. CASE ~ (kind = "popeye" /\ buffered # <<>> /\ board.turn = 0)
    <2>1. c = board
      BY <1>7 DEF LastTurn
    <2> QED BY <2>1, <1>1, <1>2, <1>3, <1>4, <1>5, <1>7
  <1> QED BY <1>6, <1>7

LEMMA FinalizeStep ==
  ASSUME QueuedInv, Finalize
  PROVE  QueuedInv'
  <1> DEFINE b == LastTurn(board)
             d == Cleared(b)
  <1>1. /\ Awake /\ Dead /\ stdout = <<>> /\ cause' = CauseOf
        /\ told' = [s \in Sends |-> IF s \in awaiting THEN "closed" ELSE told[s]]
        /\ awaiting' = {} /\ buffered' = <<>> /\ board' = [d EXCEPT !.pending = <<>>]
        /\ dropped' = awaiting \cup Members(board.pending) \cup (Members(buffered) \ {b.opener})
        /\ UNCHANGED <<kind, sent, identity, failure, closing, closer, eof, signal, stalled, exit, stdin,
                       stdout, native, refused, lost>>
    BY DEF Finalize
  <1>2. /\ kind' = kind /\ sent' = sent /\ identity' = identity /\ failure' = failure /\ closing' = closing
        /\ closer' = closer /\ eof' = eof /\ signal' = signal /\ stalled' = stalled /\ exit' = exit
        /\ stdin' = stdin /\ stdout' = stdout /\ run' = run /\ begun' = begun /\ inputs' = inputs
        /\ refused' = refused /\ lost' = lost
    BY <1>1 DEF native
  <1>3. ~Finalized /\ Pipe' = Pipe
    BY <1>1, <1>2 DEF Awake, Pipe
  <1>4. /\ cause' \in {"stall", "killed", "crash", "failed", "clean"} /\ Finalized'
        /\ failure => cause' # "clean"
    BY <1>1 DEF CauseOf, Finalized
  <1>5. /\ b \in Board /\ Boarded(b) /\ OpenersOf(b) \subseteq OpenersOf(board) \cup Members(buffered)
        /\ b.parked.runs \subseteq board.parked.runs
        /\ ~stalled => Belong(b.turns, inputs)
        /\ kind = "popeye" /\ failure /\ sent > 0 =>
             b.turns # <<>> /\ b.turns[1].opener = 1 /\ b.turns[1].failed
    BY <1>3, LastBoard
  <1> HIDE DEF b
  <1>6. /\ d \in Board /\ d.turn = 0 /\ d.opener = 0 /\ d.turns = b.turns /\ d.parked = b.parked
        /\ OpenersOf(d) = OpenersOf(b)
    BY <1>5, ClearedBoard
  <1> HIDE DEF d
  <1>7. /\ board' \in Board /\ board'.turn = 0 /\ board'.opener = 0 /\ board'.turns = b.turns
        /\ board'.parked = b.parked /\ board'.pending = <<>>
    <2>1. <<>> \in Seq(Sends)
      OBVIOUS
    <2> QED BY <2>1, <1>1, <1>6 DEF Board
  <1>8. Boarded(board') /\ OpenersOf(board') = OpenersOf(b) /\ Members(board'.pending) = {}
    BY <1>7 DEF Boarded, OpenersOf, Members
  <1>9. awaiting \subseteq Sends /\ 1 .. sent \subseteq Sends /\ sent \in Nat
    BY Given, Sized DEF Sends
  <1>10. Members(board.pending) \cup OpenersOf(board) \cup
           (awaiting \cup lost \cup dropped \cup refused \cup Members(buffered)) \subseteq 1 .. sent
    BY DEF QueuedInv, Places, Placed
  <1>11. dropped' \subseteq 1 .. sent
    BY <1>1, <1>10
  <1>12. Types'
    <2>1. told' \in [Sends -> {"none", "started", "native-rejected", "write-failed", "closed"}]
      BY <1>1, Given
    <2>2. <<>> \in Seq(Sends) /\ {} \subseteq Sends
      OBVIOUS
    <2>3. TypeOK'
      BY <1>1, <1>2, <1>7, <2>1, <2>2 DEF QueuedInv, Types, TypeOK
    <2>4. dropped' \subseteq Sends
      BY <1>9, <1>11
    <2> QED BY <1>2, <1>3, <1>4, <2>3, <2>4 DEF QueuedInv, Types
  <1>13. Ending'
    BY <1>1, <1>2, <1>7 DEF QueuedInv, Ending, Dead
  <1>14. Places'
    <2>1. Members(<<>>) = {}
      BY DEF Members
    <2> DEFINE U == awaiting' \cup lost \cup dropped' \cup refused \cup Members(buffered')
    <2>2. U \subseteq 1 .. sent
      BY <2>1, <1>1, <1>10, <1>11
    <2> HIDE DEF U
    <2>3. Placed(board', sent, U)
      BY <2>2, <1>5, <1>8, <1>10 DEF Placed
    <2>4. Placed(board, sent, awaiting \cup lost \cup dropped \cup refused \cup Members(buffered))'
      BY <2>3, <1>2 DEF U
    <2>5. \A s \in Sends : s > sent => told'[s] = "none"
      <3>1. \A s \in Sends : s > sent => told[s] = "none" /\ s \notin awaiting
        BY <1>9, <1>10, Sized DEF QueuedInv, Places
      <3> QED BY <3>1, <1>1
    <2> QED BY <2>1, <2>4, <2>5, <1>1, <1>2, <1>7, <1>8 DEF Places
  <1>15. AskedOnce' /\ Harness' /\ Losing'
    <2>1. AskedOnce' /\ Harness'
      BY <1>2, <1>3 DEF QueuedInv, AskedOnce, Harness
    <2> QED BY <2>1, <1>2 DEF QueuedInv, Losing
  <1>16. Unannounced'
    BY <1>2, <1>3, <1>4, <1>5, <1>7 DEF QueuedInv, Unannounced
  <1>17. failure /\ kind = "codex" => \A s \in 1 .. sent : told'[s] = "native-rejected"
    <2>1. failure /\ kind = "codex" => awaiting = {} /\ \A s \in 1 .. sent : told[s] = "native-rejected"
      BY DEF QueuedInv, Refusal
    <2> QED BY <2>1, <1>1, <1>9
  <1>18. Refusal'
    BY <1>1, <1>2, <1>4, <1>17 DEF QueuedInv, Refusal
  <1>19. Queued' /\ Steered'
    BY <1>4 DEF Queued, Steered
  <1>20. OutputBelongs'
    BY <1>2, <1>5, <1>7 DEF OutputBelongs, Belong
  <1>21. RefusedOpenTold'
    BY <1>2, <1>4, <1>5, <1>7, <1>17 DEF RefusedOpenTold
  <1> QED BY <1>8, <1>12, <1>13, <1>14, <1>15, <1>16, <1>18, <1>19, <1>20, <1>21 DEF QueuedInv

-----------------------------------------------------------------------------
(* Every session *)

LEMMA ProbeAsks ==
  ASSUME NEW k \in Kinds, NEW c, c = IdentityProbe(k, FALSE)
  PROVE  c \in Seq(CommandsOf(k)) /\ NoInput(c) /\ OneAsk(c) /\ (k = "antigravity" => NoAsk(c))
  <1>1. CASE k = "codex"
    <2> DEFINE u == [what |-> "initialize", mark |-> "initialize", token |-> 0, expected |-> 0]
               v == [what |-> "thread/start", mark |-> "identity", token |-> 0, expected |-> 0]
    <2>1. c = <<u, v>>
      BY <1>1 DEF IdentityProbe, Command
    <2>2. /\ u \in CommandsOf(k) /\ v \in CommandsOf(k) /\ ~ IsInput(u) /\ ~ IsInput(v)
          /\ u.mark # "identity"
      BY <1>1 DEF CommandsOf, ProbesOf, IsInput
    <2> HIDE DEF u, v
    <2> DEFINE S == CommandsOf(k)
    <2>3. /\ c \in Seq(CommandsOf(k)) /\ Len(c) = 2 /\ c[1] = u /\ c[2] = v
      <3>1. u \in S /\ v \in S
        BY <2>2
      <3> HIDE DEF S
      <3>2. <<u, v>> \in Seq(S) /\ Len(<<u, v>>) = 2 /\ <<u, v>>[1] = u /\ <<u, v>>[2] = v
        BY <3>1
      <3> QED BY <3>2, <2>1 DEF S
    <2>4. \A i \in 1 .. Len(c) : i = 1 \/ i = 2
      <3> DEFINE l == Len(c)
      <3>1. l = 2
        BY <2>3
      <3> HIDE DEF l
      <3>2. \A i \in 1 .. l : i = 1 \/ i = 2
        BY <3>1
      <3> QED BY <3>2 DEF l
    <2>5. NoInput(c)
      BY <2>2, <2>3, <2>4 DEF NoInput
    <2>6. OneAsk(c)
      BY <2>2, <2>3, <2>4 DEF OneAsk
    <2> QED BY <2>3, <2>5, <2>6, <1>1
  <1>2. CASE k = "popeye"
    <2> DEFINE u == [what |-> "create", mark |-> "identity", token |-> 0, expected |-> 0]
    <2>1. c = <<u>>
      BY <1>2 DEF IdentityProbe, Command
    <2>2. u \in CommandsOf(k) /\ ~ IsInput(u)
      BY <1>2 DEF CommandsOf, ProbesOf, IsInput
    <2> HIDE DEF u
    <2> DEFINE S == CommandsOf(k)
    <2>3. /\ c \in Seq(CommandsOf(k)) /\ Len(c) = 1 /\ c[1] = u
      <3>1. u \in S
        BY <2>2
      <3> HIDE DEF S
      <3>2. <<u>> \in Seq(S) /\ Len(<<u>>) = 1 /\ <<u>>[1] = u
        BY <3>1
      <3> QED BY <3>2, <2>1 DEF S
    <2>4. \A i \in 1 .. Len(c) : i = 1
      <3> DEFINE l == Len(c)
      <3>1. l = 1
        BY <2>3
      <3> HIDE DEF l
      <3>2. \A i \in 1 .. l : i = 1
        BY <3>1
      <3> QED BY <3>2 DEF l
    <2>5. NoInput(c)
      BY <2>2, <2>3, <2>4 DEF NoInput
    <2>6. OneAsk(c)
      BY <2>4 DEF OneAsk
    <2> QED BY <2>3, <2>5, <2>6, <1>2
  <1>3. CASE k = "antigravity"
    <2>1. c = <<>>
      BY <1>3 DEF IdentityProbe
    <2> DEFINE S == CommandsOf(k)
    <2> HIDE DEF S
    <2>2. <<>> \in Seq(S) /\ Len(<<>>) = 0
      OBVIOUS
    <2>3. c \in Seq(CommandsOf(k))
      BY <2>1, <2>2 DEF S
    <2>4. \A i \in 1 .. Len(c) : FALSE
      <3> DEFINE l == Len(c)
      <3>1. l = 0
        BY <2>1, <2>2
      <3> HIDE DEF l
      <3>2. \A i \in 1 .. l : FALSE
        BY <3>1
      <3> QED BY <3>2 DEF l
    <2> QED BY <2>3, <2>4 DEF NoInput, OneAsk, NoAsk
  <1> QED BY <1>1, <1>2, <1>3 DEF Kinds

LEMMA QueuedInit == Init => QueuedInv
  <1> SUFFICES ASSUME Init PROVE QueuedInv
    OBVIOUS
  <1> DEFINE b == board
  <1>1. /\ kind \in SessionKinds /\ sent = 0 /\ identity = FALSE /\ buffered = <<>> /\ awaiting = {}
        /\ told = [s \in Sends |-> "none"] /\ failure = FALSE /\ closing = FALSE /\ closer = "none"
        /\ eof = FALSE /\ signal = "none" /\ stalled = FALSE /\ exit = "none" /\ cause = "none"
        /\ stdin = IdentityProbe(kind, FALSE) /\ stdout = <<>> /\ run = Idle /\ begun = 0
        /\ inputs = [n \in Runs |-> {}] /\ refused = {} /\ lost = {} /\ dropped = {}
    BY DEF Init
  <1>2. board = [turn |-> 0, opener |-> 0, accepted |-> FALSE, steer |-> 0, pending |-> <<>>,
                 turns |-> <<>>, watched |-> FALSE, parked |-> [runs |-> {}, failed |-> FALSE]]
    BY DEF Init, Nothing
  <1>3. /\ board \in Board /\ board.turn = 0 /\ board.opener = 0 /\ ~board.accepted /\ board.pending = <<>>
        /\ board.turns = <<>> /\ board.parked.runs = {}
    <2>1. [runs |-> {}, failed |-> FALSE] \in [runs : SUBSET Runs, failed : BOOLEAN]
      OBVIOUS
    <2>2. <<>> \in Seq(Sends) /\ <<>> \in Seq(PublicTurn)
      OBVIOUS
    <2> QED BY <1>2, <2>1, <2>2 DEF Board
  <1>4. kind \in Kinds
    BY <1>1, QueuedAssumption DEF Kinds
  <1>5. /\ stdin \in Seq(CommandsOf(kind)) /\ NoInput(stdin) /\ OneAsk(stdin)
        /\ kind = "antigravity" => NoAsk(stdin)
    BY <1>1, <1>4, ProbeAsks
  <1>6. Pipe \in Seq(Says) /\ Len(Pipe) = 0
    <2>1. Pipe = <<>>
      BY <1>1 DEF Pipe, PipeOf
    <2> QED BY <2>1
  <1>7. run = [no |-> 0, said |-> FALSE] /\ run.no = 0
    BY <1>1 DEF Idle
  <1>8. Members(<<>>) = {} /\ Members(board.pending) = {} /\ OpenersOf(board) = {}
    BY <1>3 DEF Members, OpenersOf
  <1>9. Types
    <2>1. told \in [Sends -> {"none", "started", "native-rejected", "write-failed", "closed"}]
          /\ inputs \in [Runs -> SUBSET Sends] /\ run \in [no : Runs \cup {0}, said : BOOLEAN]
          /\ sent \in 0 .. MaxSends /\ begun \in 0 .. MaxSends /\ buffered \in Seq(Sends)
      BY <1>1, <1>7, Sized
    <2>2. TypeOK
      BY <1>1, <1>3, <2>1 DEF TypeOK
    <2>3. stdout \in Seq(Records)
      BY <1>1
    <2> QED BY <1>1, <1>5, <1>6, <2>1, <2>2, <2>3 DEF Types
  <1>10. Ending /\ Boarded(board) /\ Refusal /\ Losing /\ RefusedOpenTold /\ OutputBelongs
    BY <1>1, <1>3 DEF Ending, Boarded, Refusal, Losing, RefusedOpenTold, OutputBelongs, Finalized
  <1>11. Places
    <2>1. Placed(board, sent, awaiting \cup lost \cup dropped \cup refused \cup Members(buffered))
      BY <1>1, <1>8 DEF Placed
    <2> QED BY <2>1, <1>1, <1>3, <1>8 DEF Places
  <1>12. AskedOnce
    <2>1. OneWord(Pipe) /\ NoWord(Pipe)
      BY <1>6 DEF OneWord, NoWord
    <2> QED BY <2>1, <1>1, <1>5 DEF AskedOnce, Asked
  <1>13. Unannounced
    <2>1. buffered = [i \in 1 .. sent |-> i]
      BY <1>1
    <2>2. Quiet(Pipe)
      BY <1>6 DEF Quiet
    <2> QED BY <2>1, <2>2, <1>1, <1>3, <1>5 DEF Unannounced
  <1>14. Harness
    <2>1. Ran(kind, sent, run, begun, inputs)
      BY <1>1, <1>7, Sized DEF Ran, Idle
    <2>2. ToRead(stdin, sent, begun, inputs)
      BY <1>5 DEF ToRead, NoInput
    <2>3. ToHear(kind, stdin, Pipe, run, begun, inputs) /\ RefusedSent(Pipe, sent)
      BY <1>6 DEF ToHear, RunsKnown, InOrder, Ended, Refusals, Overtaken, Receipts, InTurn, RefusedSent
    <2> QED BY <2>1, <2>2, <2>3 DEF Harness
  <1>15. Queued
    <2>1. InLine(board)
      BY <1>3 DEF InLine
    <2>2. Serves(Held(board), stdin, Pipe, run, inputs)
      BY <1>5, <1>6, <1>7 DEF Serves, NoInput
    <2> QED BY <2>1, <2>2, <1>3 DEF Queued
  <1>16. Steered
    <2>1. Owing(awaiting, stdin, Pipe) /\ Introduced(board.opener, Pipe, run, inputs)
      BY <1>5, <1>6, <1>7 DEF Owing, Introduced, NoInput
    <2> QED BY <2>1, <1>3 DEF Steered
  <1> QED BY <1>9, <1>10, <1>11, <1>12, <1>13, <1>14, <1>15, <1>16 DEF QueuedInv

LEMMA StutterStep ==
  ASSUME QueuedInv, UNCHANGED vars
  PROVE  QueuedInv'
  <1>1. /\ UNCHANGED <<sends, failure, stdin, stdout, native, history, cause>> /\ board' = board
        /\ closing' = closing /\ closer' = closer /\ eof' = eof /\ signal' = signal /\ stalled' = stalled
        /\ exit' = exit
    BY DEF vars, life
  <1> QED BY <1>1, LifeTyped, LifeSteps DEF Dead

LEMMA QueuedNext == QueuedInv /\ [Next]_vars => QueuedInv'
  <1> SUFFICES ASSUME QueuedInv, [Next]_vars PROVE QueuedInv'
    OBVIOUS
  <1>1. CASE \E s \in Sends : Send(s)
    BY <1>1, SendStep
  <1>2. CASE \E drain \in BOOLEAN : Close(drain)
    BY <1>2, CloseStep
  <1>3. CASE DrainCheck \/ CloseGrace \/ KillGrace
    BY <1>3, DrainCheckStep, SignalStep
  <1>4. CASE RecordRead
    BY <1>4, IdentityStep, ProbeFailedStep, AcceptedStep, CommandFailedStep, TurnEndStep, ContentStep
       DEF RecordRead
  <1>5. CASE Native
    <2>1. CASE \E ok \in BOOLEAN : AnswerProbe(ok) \/ End(~ok)
      <3>1. PICK ok \in BOOLEAN : AnswerProbe(ok) \/ End(~ok)
        BY <2>1
      <3> DEFINE failed == ~ok
      <3>2. failed \in BOOLEAN
        OBVIOUS
      <3>3. AnswerProbe(ok) \/ End(failed)
        BY <3>1
      <3> HIDE DEF failed
      <3> QED BY <3>2, <3>3, ProbeStep, EndStep
    <2>2. CASE \E i \in 1 .. Len(stdin) : Refuse(i)
      BY <2>2, RefuseStep
    <2>3. CASE Begin \/ Join \/ Show
      BY <2>3, BeginStep, JoinStep, ShowStep
    <2> QED BY <1>5, <2>1, <2>2, <2>3 DEF Native
  <1>6. CASE Stall \/ InputError
    BY <1>6, StallStep, InputErrorStep
  <1>7. CASE \E code \in {"zero", "nonzero", "signal"} : Exited(code)
    BY <1>7, ExitedStep
  <1>8. CASE Finalize
    BY <1>8, FinalizeStep
  <1>9. CASE Done \/ UNCHANGED vars
    BY <1>9, StutterStep DEF Done
  <1> QED BY <1>1, <1>2, <1>3, <1>4, <1>5, <1>6, <1>7, <1>8, <1>9 DEF Next

(* In every session of any length the invariant holds.                      *)
THEOREM QueuedInvariant == Spec => []QueuedInv
  <1>1. Init => QueuedInv
    BY QueuedInit
  <1>2. QueuedInv /\ [Next]_vars => QueuedInv'
    BY QueuedNext
  <1> QED BY <1>1, <1>2, PTL DEF Spec

(* Every variable of the session keeps its type.                            *)
THEOREM QueuedTypes == Spec => []TypeOK
  <1>1. QueuedInv => TypeOK
    BY DEF QueuedInv, Types
  <1> QED BY <1>1, QueuedInvariant, PTL

LEMMA OpenTurnEnds == QueuedInv => TurnBacked
  <1> SUFFICES ASSUME QueuedInv, board.turn # 0, ~Dead, ~stalled, board.opener \notin lost
               PROVE  Unread(board.opener) \/ Running(board.opener) \/ EndInPipe(board.opener)
    BY DEF TurnBacked
  <1> DEFINE o == board.opener
  <1>1. ~Finalized
    BY DEF QueuedInv, Ending
  <1>2. /\ Len(Pipe) = Len(stdout) /\ \A i \in 1 .. Len(stdout) : Pipe[i] = Said(kind, stdout[i])
        /\ o \in Sends /\ o # 0
    <2>1. board \in Board /\ Boarded(board)
      BY Given DEF QueuedInv
    <2> QED BY <2>1, Given, BoardTyped, Sized DEF Boarded
  <1> HIDE DEF o
  <1>3. Due(o, stdin, Pipe, run, inputs)
    <2>1. CASE kind = "codex"
      <3>1. Oldest(o, Pipe, run, inputs)
        BY <2>1, <1>1 DEF QueuedInv, Steered, o
      <3>2. PICK n \in Runs : o \in inputs[n] /\ (n = run.no \/ EndIn(Pipe, n))
        BY <3>1 DEF Oldest
      <3>3. n # 0
        BY Sized
      <3> QED BY <3>2, <3>3 DEF Due, EndIn
    <2>2. CASE kind # "codex"
      BY <2>2, <1>1 DEF QueuedInv, Queued, Held, o
    <2> QED BY <2>1, <2>2
  <1>4. CASE \E i \in 1 .. Len(stdin) : IsInput(stdin[i]) /\ stdin[i].token = o
    BY <1>4 DEF IsInput, Unread, o
  <1>5. CASE run.no # 0 /\ o \in inputs[run.no]
    BY <1>5 DEF Running, Idle, o
  <1>6. CASE \E i \in 1 .. Len(Pipe) : Ends(Pipe[i]) /\ o \in inputs[Pipe[i].run]
    <2>1. PICK i \in 1 .. Len(stdout) : Ends(Said(kind, stdout[i])) /\ o \in inputs[Said(kind, stdout[i]).run]
      BY <1>6, <1>2
    <2>2. Decode(kind, stdout[i]).kind = "turn-end" /\ o \in inputs[stdout[i].run]
      BY <2>1 DEF Ends, Said
    <2> QED BY <2>2 DEF EndInPipe, o
  <1>7. CASE \E i \in 1 .. Len(Pipe) : Fails(Pipe[i]) /\ Pipe[i].token = o
    <2>1. PICK i \in 1 .. Len(stdout) : Fails(Said(kind, stdout[i])) /\ Said(kind, stdout[i]).token = o
      BY <1>7, <1>2
    <2>2. Decode(kind, stdout[i]).kind = "command-failed" /\ Decode(kind, stdout[i]).token = o
      BY <2>1 DEF Fails, Said
    <2> QED BY <2>2 DEF EndInPipe, o
  <1> QED BY <1>3, <1>4, <1>5, <1>6, <1>7 DEF Due

(* Every turn is its input's, in every session: its output is that of the   *)
(* runs that answer its input, an open turn can still end by itself, and a  *)
(* refused session tells its inputs.                                        *)
THEOREM QueuedAttribution == Spec => []TurnsAttributed
  <1>1. QueuedInv => TurnsAttributed
    BY OpenTurnEnds DEF TurnsAttributed, QueuedInv
  <1> QED BY <1>1, QueuedInvariant, PTL

-----------------------------------------------------------------------------
(* What becomes of each input *)

(* The inputs that wait, those whose flush nobody reads among them. *)
Waits == awaiting \cup Members(buffered) \cup Members(board.pending)
Waiters == Waits \cup Astray
(* The inputs that ended with the session, and that only its end drops any. *)
Forgotten == IF Finalized THEN Astray ELSE {}
Gone == dropped \cup Forgotten
DroppedLast == dropped # {} => Finalized

(* A step that tells of no input; *)
Rests ==
  /\ UNCHANGED <<kind, sent, buffered, awaiting, told, refused, lost, dropped, cause>>
  /\ Shown(board', board) /\ Len(board'.turns) = Len(board.turns) /\ board'.pending = board.pending
(* one that tells what becomes of those that wait; *)
Told(s) == s \in Waiters' \cup OpenersOf(board') \cup refused' \/ (s \in Named' /\ board'.turns # <<>>)
Shifts ==
  /\ ~Finalized /\ UNCHANGED <<kind, sent, dropped, cause>>
  /\ Shown(board', board) /\ OpenersOf(board') \subseteq OpenersOf(board) \cup Waits
  /\ refused \subseteq refused' /\ refused' \subseteq refused \cup Waits
  /\ Waiters' \subseteq Waiters /\ \A s \in Waiters : Told(s)
  /\ Named \subseteq Named'
(* a send; *)
Sending(x) ==
  /\ ~Finalized /\ UNCHANGED <<kind, dropped, cause>> /\ x = sent + 1 /\ sent' = x
  /\ Shown(board', board) /\ OpenersOf(board') \subseteq OpenersOf(board) \cup {x}
  /\ refused \subseteq refused' /\ refused' \subseteq refused \cup {x}
  /\ Waiters \subseteq Waiters' /\ Waiters' \subseteq Waiters \cup {x}
  /\ x \in Waiters' \cup OpenersOf(board') \cup refused'
  /\ Named \subseteq Named'
(* and the end of the session. *)
Finishes ==
  /\ ~Finalized /\ Finalized' /\ UNCHANGED <<kind, sent, refused>>
  /\ Shown(board', board) /\ OpenersOf(board') \subseteq OpenersOf(board) \cup Waits
  /\ Gone' \subseteq Waiters /\ Waiters \subseteq OpenersOf(board') \cup Gone' /\ Waiters' \subseteq Gone'
  /\ Named \subseteq Named'

(* The fate of an input, from what the session keeps of it. *)
FateOf(s, n, o, r, d, e, w) ==
  IF s > n THEN "unsent"
  ELSE IF s \in o THEN "opened"
  ELSE IF s \in r THEN "refused"
  ELSE IF s \in d THEN "dropped"
  ELSE IF s \in e THEN "lost"
  ELSE IF s \in w THEN "waiting"
  ELSE "joined"

LEMMA FateIs ==
  \A s \in Sends : Fate(s) = FateOf(s, sent, OpenersOf(board), refused, dropped, Forgotten, Waiters)
  BY DEF Fate, FateOf, Openers, OpenersOf, Forgotten, Waiters, Waits

LEMMA FateWillBe ==
  \A s \in Sends : Fate(s)' = FateOf(s, sent', OpenersOf(board'), refused', dropped', Forgotten', Waiters')
  BY DEF Fate, FateOf, Openers, OpenersOf, Forgotten, Waiters, Waits

LEMMA NamedIs == Named = {s \in Sends : kind = "codex" /\ told[s] = "started"}
  BY DEF Named, Fate

LEMMA NamedWillBe == Named' = {s \in Sends : kind' = "codex" /\ told'[s] = "started"}
  BY DEF Named, Fate, Sends

(* What becomes of an input that waits, of one that is sent, and at the end. *)
LEMMA FateShifts ==
  ASSUME NEW s, NEW n, NEW o, NEW r, NEW w, NEW u, NEW q, NEW v,
         o \subseteq u, u \subseteq o \cup (w \ r), r \subseteq q, q \subseteq r \cup w, v \subseteq w
  PROVE  LET f == FateOf(s, n, o, r, {}, {}, w)
             g == FateOf(s, n, u, q, {}, {}, v) IN
         \/ g = f
         \/ f = "waiting" /\ g \in {"opened", "refused"}
         \/ f = "waiting" /\ g = "joined" /\ s \in w /\ s \notin u \cup q \cup v
  BY DEF FateOf

LEMMA FateSent ==
  ASSUME NEW s \in Nat, NEW n \in Nat, NEW x \in Nat, x = n + 1,
         NEW o, NEW r, NEW w, NEW u, NEW q, NEW v,
         o \subseteq u, u \subseteq o \cup {x}, r \subseteq q, q \subseteq r \cup {x},
         w \subseteq v, v \subseteq w \cup {x}, x \in u \cup q \cup v
  PROVE  LET f == FateOf(s, n, o, r, {}, {}, w)
             g == FateOf(s, x, u, q, {}, {}, v) IN
         g = f \/ (f = "unsent" /\ g \in {"waiting", "refused", "opened"})
  <1>1. CASE s = x
    <2>1. s > n /\ ~ (s > x)
      BY <1>1
    <2> QED BY <2>1, <1>1 DEF FateOf
  <1>2. CASE s # x
    <2>1. s > n <=> s > x
      BY <1>2
    <2> QED BY <2>1, <1>2 DEF FateOf
  <1> QED BY <1>1, <1>2

LEMMA FateEnds ==
  ASSUME NEW s, NEW n, NEW o, NEW r, NEW w, NEW u, NEW d, NEW e, NEW v,
         o \subseteq u, u \subseteq o \cup (w \ r), d \cup e \subseteq w, w \subseteq u \cup d \cup e,
         v \subseteq d \cup e
  PROVE  LET f == FateOf(s, n, o, r, {}, {}, w)
             g == FateOf(s, n, u, r, d, e, v) IN
         \/ g = f /\ g # "waiting"
         \/ f = "waiting" /\ g \in {"opened", "dropped"}
         \/ f = "waiting" /\ g = "lost" /\ s \in e
  BY DEF FateOf

LEMMA ShownCounts ==
  ASSUME NEW b, NEW c, Shown(c, b)
  PROVE  /\ Len(c.turns) \in Len(b.turns) .. (Len(b.turns) + 1)
         /\ OpenersOf(b) \subseteq OpenersOf(c)
         /\ \A s, r \in OpenersOf(c) \ OpenersOf(b) : s = r
         /\ OpenersOf(c) \ OpenersOf(b) # {} => Len(c.turns) = Len(b.turns) + 1
  <1> DEFINE m == Len(b.turns)
             k == Len(c.turns)
  <1>1. /\ m \in Nat /\ k \in {m, m + 1}
        /\ \A i \in 1 .. m : i \in 1 .. k /\ c.turns[i].opener = b.turns[i].opener
        /\ OpenersOf(b) = {b.turns[i].opener : i \in 1 .. m}
        /\ OpenersOf(c) = {c.turns[i].opener : i \in 1 .. k}
    BY DEF Shown, OpenersOf
  <1> HIDE DEF m, k
  <1>2. ASSUME NEW s \in OpenersOf(c) \ OpenersOf(b)
        PROVE  k = m + 1 /\ s = c.turns[k].opener
    <2>1. PICK i \in 1 .. k : s = c.turns[i].opener
      BY <1>1
    <2>2. i \notin 1 .. m
      BY <1>1, <2>1
    <2> QED BY <1>1, <2>1, <2>2
  <1>3. OpenersOf(b) \subseteq OpenersOf(c)
    BY <1>1
  <1>4. k \in m .. (m + 1)
    BY <1>1
  <1>5. \A s, r \in OpenersOf(c) \ OpenersOf(b) : s = r
    BY <1>2
  <1>6. OpenersOf(c) \ OpenersOf(b) # {} => k = m + 1
    BY <1>2
  <1> QED BY <1>3, <1>4, <1>5, <1>6 DEF m, k

LEMMA ShownAlike ==
  ASSUME NEW b, NEW c, Shown(c, b), Len(c.turns) = Len(b.turns)
  PROVE  OpenersOf(c) = OpenersOf(b)
  BY DEF Shown, OpenersOf

(* A step as InputFates sees it. *)
Becoming(s) ==
  \/ Fate(s)' = Fate(s)
  \/ Fate(s) = "unsent" /\ Fate(s)' \in {"waiting", "refused", "opened"} /\ ~Finalized
  \/ Fate(s) = "waiting" /\ Fate(s)' \in {"opened", "refused"} /\ ~Finalized
  \/ Fate(s) = "waiting" /\ Fate(s)' = "joined" /\ s \in Named' /\ board'.turns # <<>> /\ ~Finalized
  \/ Fate(s) = "waiting" /\ Fate(s)' = "dropped" /\ Finalized'
  \/ Fate(s) = "waiting" /\ Fate(s)' = "lost" /\ PipeBreakable /\ Finalized'

Steps ==
  /\ \A s \in Sends : Becoming(s)
  /\ Named \subseteq Named' /\ Shown(board', board)
  /\ \A s \in Sends : Fate(s) # "opened" /\ Fate(s)' = "opened" => s \in OpenersOf(board') \ OpenersOf(board)
  /\ Finalized => Finalized'
  /\ Finalized' => \A s \in Sends : Fate(s)' # "waiting"

LEMMA StepsPromised ==
  ASSUME Steps, board' \in Board
  PROVE  Promise!Next
  <1>1. Promise!Sends = Sends
    BY DEF Promise!Sends, Sends
  <1>2. ASSUME NEW s \in Sends
        PROVE  Fate(s)' \in {"unsent", "refused", "dropped", "lost", "waiting", "opened", "joined"}
    BY FateWillBe DEF FateOf
  <1>3. [s \in Sends |-> Fate(s)]' \in [Promise!Sends -> Promise!Fates]
    BY <1>1, <1>2 DEF Promise!Fates
  <1>4. \A s \in Promise!Sends : Promise!Becomes(s, [q \in Sends |-> Fate(q)]'[s])
    <2> SUFFICES ASSUME NEW s \in Sends PROVE Promise!Becomes(s, Fate(s)')
      BY <1>1
    <2>1. Becoming(s)
      BY DEF Steps
    <2> QED BY <2>1 DEF Becoming, Promise!Becomes
  <1>5. Named \subseteq Named' /\ Named' \subseteq Promise!Sends
    <2>1. Named \subseteq Named'
      BY DEF Steps
    <2>2. Named' \subseteq Sends
      BY NamedWillBe
    <2> QED BY <1>1, <2>1, <2>2
  <1>6. /\ Len(board'.turns) \in Len(board.turns) .. (Len(board.turns) + 1)
        /\ \A s, r \in OpenersOf(board') \ OpenersOf(board) : s = r
        /\ OpenersOf(board') \ OpenersOf(board) # {} => Len(board'.turns) = Len(board.turns) + 1
    BY ShownCounts DEF Steps
  <1>7. Promise!Opens \subseteq OpenersOf(board') \ OpenersOf(board)
    <2>1. ASSUME NEW s \in Sends, Fate(s) # "opened", Fate(s)' = "opened"
          PROVE  s \in OpenersOf(board') \ OpenersOf(board)
      BY <2>1 DEF Steps
    <2> QED BY <1>1, <2>1 DEF Promise!Opens
  <1>8. Promise!Joins # {} => Len(board'.turns) > 0
    <2>1. ASSUME NEW s \in Sends, Fate(s) # "joined", Fate(s)' = "joined"
          PROVE  Len(board'.turns) > 0
      <3>1. Becoming(s)
        BY DEF Steps
      <3>2. board'.turns # <<>>
        BY <2>1, <3>1 DEF Becoming
      <3>3. board'.turns \in Seq(PublicTurn)
        BY BoardTyped
      <3> QED BY <3>2, <3>3
    <2> QED BY <1>1, <2>1 DEF Promise!Joins
  <1>9. Finalized => Finalized'
    BY DEF Steps
  <1>10. Finalized' => \A s \in Promise!Sends : [q \in Sends |-> Fate(q)]'[s] # "waiting"
    BY <1>1 DEF Steps
  <1>11. \A s, r \in Promise!Opens : s = r
    BY <1>6, <1>7
  <1>12. Promise!Opens # {} => Len(board'.turns) = Len(board.turns) + 1
    BY <1>6, <1>7
  <1> QED
    BY <1>3, <1>4, <1>5, <1>6, <1>8, <1>9, <1>10, <1>11, <1>12 DEF Promise!Next

(* What the invariant says of the inputs that wait. *)
LEMMA WaitingKept ==
  ASSUME QueuedInv, DroppedLast
  PROVE  /\ Waits \cap refused = {}
         /\ ~Finalized => dropped = {} /\ Forgotten = {}
         /\ Finalized => Waits = {} /\ Waiters \subseteq Forgotten
         /\ sent \in Nat
  <1>1. Waits \cap refused = {}
    BY DEF QueuedInv, Places, Waits
  <1>2. ~Finalized => dropped = {} /\ Forgotten = {}
    BY DEF Forgotten, DroppedLast
  <1>3. Finalized => Waits = {}
    BY MembersTyped, Given DEF QueuedInv, Ending, Waits, Members
  <1>4. Finalized => Astray \subseteq Forgotten
    BY DEF Forgotten
  <1>5. sent \in Nat
    BY Given, Sized
  <1> QED BY <1>1, <1>2, <1>3, <1>4, <1>5 DEF Waiters

LEMMA RestsPromised ==
  ASSUME QueuedInv, DroppedLast, Rests
  PROVE  Steps
  <1>1. /\ OpenersOf(board') = OpenersOf(board) /\ Forgotten' = Forgotten /\ Waiters' = Waiters /\ Named' = Named
        /\ sent' = sent /\ refused' = refused /\ dropped' = dropped
        /\ (Finalized' <=> Finalized) /\ Shown(board', board)
    BY ShownAlike, NamedIs, NamedWillBe DEF Rests, Forgotten, Astray, Waiters, Waits, Finalized
  <1>2. \A s \in Sends : Fate(s)' = Fate(s)
    BY <1>1, FateIs, FateWillBe
  <1>3. Finalized => \A s \in Sends : Fate(s) # "waiting"
    BY FateIs, WaitingKept DEF FateOf
  <1> QED BY <1>1, <1>2, <1>3 DEF Steps, Becoming

LEMMA ShiftsPromised ==
  ASSUME QueuedInv, DroppedLast, Shifts
  PROVE  Steps
  <1>1. /\ ~Finalized /\ ~Finalized' /\ sent' = sent /\ dropped' = dropped /\ Shown(board', board)
        /\ dropped = {} /\ Forgotten = {} /\ Forgotten' = {} /\ Waits \cap refused = {} /\ Named \subseteq Named'
    <2>1. ~Finalized /\ ~Finalized' /\ sent' = sent /\ dropped' = dropped
      BY DEF Shifts, Finalized
    <2>2. dropped = {} /\ Forgotten = {} /\ Waits \cap refused = {}
      BY <2>1, WaitingKept
    <2>3. Forgotten' = {}
      BY <2>1 DEF Forgotten
    <2> QED BY <2>1, <2>2, <2>3 DEF Shifts
  <1>2. /\ OpenersOf(board) \subseteq OpenersOf(board')
        /\ OpenersOf(board') \subseteq OpenersOf(board) \cup (Waiters \ refused)
        /\ refused \subseteq refused' /\ refused' \subseteq refused \cup Waiters /\ Waiters' \subseteq Waiters
    BY <1>1, ShownCounts DEF Shifts, Waiters
  <1>3. ASSUME NEW s \in Sends
        PROVE  /\ Becoming(s)
               /\ Fate(s) # "opened" /\ Fate(s)' = "opened" => s \in OpenersOf(board') \ OpenersOf(board)
    <2> DEFINE f == FateOf(s, sent, OpenersOf(board), refused, {}, {}, Waiters)
               g == FateOf(s, sent, OpenersOf(board'), refused', {}, {}, Waiters')
    <2>1. \/ g = f
          \/ f = "waiting" /\ g \in {"opened", "refused"}
          \/ f = "waiting" /\ g = "joined" /\ s \in Waiters /\ s \notin OpenersOf(board') \cup refused' \cup Waiters'
      BY <1>2, FateShifts
    <2>2. Fate(s) = f /\ Fate(s)' = g
      BY <1>1, FateIs, FateWillBe
    <2>3. f # "opened" /\ g = "opened" => s \in OpenersOf(board') \ OpenersOf(board)
      BY DEF FateOf
    <2> HIDE DEF f, g
    <2>4. s \in Waiters => Told(s)
      BY DEF Shifts
    <2>5. Becoming(s)
      BY <2>1, <2>2, <2>4, <1>1 DEF Becoming, Told
    <2> QED BY <2>2, <2>3, <2>5
  <1> QED BY <1>1, <1>3 DEF Steps

LEMMA SendingPromised ==
  ASSUME QueuedInv, DroppedLast, NEW x \in Sends, Sending(x)
  PROVE  Steps
  <1>1. /\ ~Finalized /\ ~Finalized' /\ sent' = x /\ x = sent + 1 /\ sent \in Nat /\ x \in Nat
        /\ Shown(board', board) /\ dropped = {} /\ dropped' = {} /\ Forgotten = {} /\ Forgotten' = {} /\ Named \subseteq Named'
    <2>1. ~Finalized /\ ~Finalized' /\ sent' = x /\ x = sent + 1 /\ dropped' = dropped
      BY DEF Sending, Finalized
    <2>2. dropped = {} /\ Forgotten = {} /\ sent \in Nat
      BY <2>1, WaitingKept
    <2>3. Forgotten' = {}
      BY <2>1 DEF Forgotten
    <2> QED BY <2>1, <2>2, <2>3 DEF Sending
  <1>2. /\ OpenersOf(board) \subseteq OpenersOf(board') /\ OpenersOf(board') \subseteq OpenersOf(board) \cup {x}
        /\ refused \subseteq refused' /\ refused' \subseteq refused \cup {x}
        /\ Waiters \subseteq Waiters' /\ Waiters' \subseteq Waiters \cup {x}
        /\ x \in OpenersOf(board') \cup refused' \cup Waiters'
    BY <1>1, ShownCounts DEF Sending
  <1>3. ASSUME NEW s \in Sends
        PROVE  /\ Becoming(s)
               /\ Fate(s) # "opened" /\ Fate(s)' = "opened" => s \in OpenersOf(board') \ OpenersOf(board)
    <2> DEFINE f == FateOf(s, sent, OpenersOf(board), refused, {}, {}, Waiters)
               g == FateOf(s, x, OpenersOf(board'), refused', {}, {}, Waiters')
    <2>0. s \in Nat
      BY Sized
    <2>1. g = f \/ (f = "unsent" /\ g \in {"waiting", "refused", "opened"})
      BY <2>0, <1>1, <1>2, FateSent
    <2>2. Fate(s) = f /\ Fate(s)' = g
      BY <1>1, FateIs, FateWillBe
    <2>3. f # "opened" /\ g = "opened" => s \in OpenersOf(board')
      BY DEF FateOf
    <2>4. f # "opened" /\ g = "opened" => s \notin OpenersOf(board)
      <3>1. s \in OpenersOf(board) => s <= sent
        <4>1. OpenersOf(board) \subseteq 1 .. sent
          BY DEF QueuedInv, Places, Placed
        <4> QED BY <4>1
      <3>2. s <= sent => ~ (s > sent)
        BY <2>0, <1>1
      <3> QED BY <3>1, <3>2 DEF FateOf
    <2> HIDE DEF f, g
    <2>5. Becoming(s)
      BY <2>1, <2>2, <1>1 DEF Becoming
    <2> QED BY <2>2, <2>3, <2>4, <2>5
  <1> QED BY <1>1, <1>3 DEF Steps

LEMMA FinishPromised ==
  ASSUME QueuedInv, DroppedLast, Finishes
  PROVE  Steps
  <1>1. /\ ~Finalized /\ Finalized' /\ sent' = sent /\ refused' = refused /\ Shown(board', board)
        /\ dropped = {} /\ Forgotten = {} /\ Waits \cap refused = {} /\ Named \subseteq Named'
    BY WaitingKept DEF Finishes
  <1>2. /\ OpenersOf(board) \subseteq OpenersOf(board')
        /\ OpenersOf(board') \subseteq OpenersOf(board) \cup (Waiters \ refused)
        /\ Gone' \subseteq Waiters /\ Waiters \subseteq OpenersOf(board') \cup Gone' /\ Waiters' \subseteq Gone'
    BY <1>1, ShownCounts DEF Finishes, Waiters
  <1>3. ASSUME NEW s \in Sends
        PROVE  /\ Becoming(s) /\ Fate(s)' # "waiting"
               /\ Fate(s) # "opened" /\ Fate(s)' = "opened" => s \in OpenersOf(board') \ OpenersOf(board)
    <2> DEFINE f == FateOf(s, sent, OpenersOf(board), refused, {}, {}, Waiters)
               g == FateOf(s, sent, OpenersOf(board'), refused, dropped', Forgotten', Waiters')
    <2>1. \/ g = f /\ g # "waiting"
          \/ f = "waiting" /\ g \in {"opened", "dropped"}
          \/ f = "waiting" /\ g = "lost" /\ s \in Forgotten'
      BY <1>2, FateEnds DEF Gone
    <2>2. Fate(s) = f /\ Fate(s)' = g
      BY <1>1, FateIs, FateWillBe
    <2>3. f # "opened" /\ g = "opened" => s \in OpenersOf(board') \ OpenersOf(board)
      BY DEF FateOf
    <2> HIDE DEF f, g
    <2>4. s \in Forgotten' => PipeBreakable
      BY DEF Forgotten, Astray
    <2>5. Becoming(s)
      BY <2>1, <2>2, <2>4, <1>1 DEF Becoming
    <2> QED BY <2>1, <2>2, <2>3, <2>5
  <1> QED BY <1>1, <1>3 DEF Steps

(* What each move of the board shows, and leaves waiting. *)
LEMMA OpensShows ==
  ASSUME NEW b \in Board, NEW s \in Sends, NEW c, Opens(c, b, s)
  PROVE  Shown(c, b) /\ OpenersOf(c) = OpenersOf(b) \cup {s} /\ c.turns # <<>>
  <1>1. Len(b.turns) \in Nat
    BY BoardTyped
  <1>2. Shown(c, b)
    BY <1>1 DEF Opens, Shown
  <1>3. Len(c.turns) # 0
    BY <1>1 DEF Opens
  <1> QED BY <1>2, <1>3, OpensKeep

LEMMA RecountsShows ==
  ASSUME NEW b \in Board, NEW c, Recounts(c, b)
  PROVE  Shown(c, b) /\ Len(c.turns) = Len(b.turns) /\ \A d : Shown(d, c) => Shown(d, b)
  <1>1. Len(b.turns) \in Nat
    BY BoardTyped
  <1> QED BY <1>1 DEF Recounts, Shown

LEMMA OverShows ==
  ASSUME NEW b \in Board, Boarded(b), NEW c, c = Over(b)
  PROVE  Shown(c, b) /\ Members(b.pending) \subseteq Members(c.pending) \cup OpenersOf(c)
  <1> DEFINE d == Cleared(b)
  <1>1. d \in Board /\ d.pending = b.pending /\ d.turns = b.turns
    BY ClearedBoard
  <1> HIDE DEF d
  <1>2. Shown(b, b) /\ Shown(d, b)
    BY <1>1, BoardTyped DEF Shown
  <1>3. CASE b.turn = 0
    BY <1>2, <1>3 DEF Over
  <1>4. CASE b.turn # 0 /\ (Closed \/ d.pending = <<>>)
    BY <1>1, <1>2, <1>4 DEF Over, d
  <1>5. CASE b.turn # 0 /\ ~Closed /\ d.pending # <<>>
    <2> DEFINE p == b.pending
               t == Tail(p)
               e == [d EXCEPT !.pending = t]
    <2>1. /\ t \in Seq(Sends) /\ Kept(t, p, 1) /\ 1 \in 1 .. Len(p) /\ Head(p) = p[1] /\ p[1] \in Sends
      BY <1>1, <1>5, BoardTyped, TailCuts
    <2>2. c = Started(e, p[1])
      BY <2>1, <1>1, <1>5 DEF Over, d
    <2> HIDE DEF t
    <2>3. e \in Board /\ e.pending = t /\ e.turns = d.turns
      BY <2>1, <1>1 DEF Board
    <2> HIDE DEF e
    <2>4. Opens(c, e, p[1]) /\ c.pending = t
      BY <2>1, <2>2, <2>3, StartedOpens
    <2>5. Shown(c, e) /\ OpenersOf(c) = OpenersOf(e) \cup {p[1]}
      BY <2>1, <2>3, <2>4, OpensShows
    <2>6. Shown(c, b)
      BY <2>3, <2>5, <1>1 DEF Shown
    <2>7. Members(p) \subseteq Members(t) \cup {p[1]}
      BY <2>1, MembersCut
    <2> QED BY <2>4, <2>5, <2>6, <2>7
  <1> QED BY <1>3, <1>4, <1>5

LEMMA RefusalShows ==
  ASSUME NEW b \in Board, Boarded(b), NEW s \in Sends, NEW c, c = CommandFailed(b, s)
  PROVE  /\ Shown(c, b) /\ OpenersOf(c) \subseteq OpenersOf(b) \cup Members(b.pending)
         /\ Members(c.pending) \subseteq Members(b.pending)
         /\ Members(b.pending) \subseteq Members(c.pending) \cup OpenersOf(c) \cup {s}
  <1> DEFINE d == Unopened(b, s)
             e == Failed(d)
             u == d.turn # 0 /\ d.opener = s /\ ~d.accepted
  <1>1. d \in Board /\ d.turns = b.turns /\ Boarded(d)
    BY UnopenedBoard
  <1>2. IF u THEN c = Over(e) ELSE c = d
    BY DEF CommandFailed
  <1>3. Members(b.pending) \subseteq Members(d.pending) \cup {s}
    <2> DEFINE p == b.pending
    <2>1. p \in Seq(Sends)
      BY BoardTyped
    <2>2. CASE s \notin Members(p)
      BY <2>2, UnopenedBoard
    <2>3. CASE s \in Members(p)
      <3> DEFINE n == CHOOSE i \in 1 .. Len(p) : p[i] = s
                 q == RemoveAt(p, n)
      <3>1. n \in 1 .. Len(p) /\ p[n] = s
        BY <2>3 DEF Members
      <3>2. d = [b EXCEPT !.pending = q]
        BY <2>3 DEF Unopened, Board
      <3> HIDE DEF n
      <3>3. q \in Seq(Sends) /\ Kept(q, p, n)
        BY <2>1, <3>1, RemoveCuts
      <3> HIDE DEF q, d
      <3>4. d.pending = q
        BY <3>2, <3>3 DEF Board
      <3> QED BY <3>1, <3>3, <3>4, MembersCut
    <2> QED BY <2>2, <2>3
  <1> HIDE DEF d
  <1>4. CASE ~u
    <2>1. c = d
      BY <1>2, <1>4
    <2>2. Shown(d, b)
      BY <1>1, BoardTyped DEF Shown
    <2> QED BY <2>1, <2>2, <1>3, RefusalYields DEF Yields
  <1>5. CASE u
    <2>1. c = Over(e)
      BY <1>2, <1>5
    <2>2. e \in Board /\ e.pending = d.pending /\ Recounts(e, d) /\ Boarded(e)
      BY <1>1, FailedBoard
    <2> HIDE DEF e
    <2>3. Shown(c, e) /\ Members(e.pending) \subseteq Members(c.pending) \cup OpenersOf(c)
      BY <2>1, <2>2, OverShows
    <2>4. Shown(c, d)
      BY <2>2, <2>3, <1>1, RecountsShows
    <2>5. Shown(c, b)
      BY <2>4, <1>1 DEF Shown
    <2> QED BY <2>2, <2>3, <2>5, <1>3, RefusalYields DEF Yields
  <1> QED BY <1>4, <1>5

LEMMA TakesShows ==
  ASSUME NEW b \in Board, Boarded(b), NEW s \in Sends, NEW c, Takes(c, b, s)
  PROVE  /\ Shown(c, b) /\ c.turns # <<>> /\ c.pending = b.pending
         /\ OpenersOf(c) \subseteq OpenersOf(b) \cup {s}
  <1>1. CASE b.turn # 0
    BY <1>1, BoardTyped DEF Takes, Shown, Boarded
  <1>2. CASE b.turn = 0
    <2> DEFINE u == [c EXCEPT !.accepted = FALSE]
    <2>1. u.turns = c.turns
      BY DEF Takes, Board
    <2>2. Opens(u, b, s) /\ c.pending = b.pending /\ OpenersOf(c) \subseteq OpenersOf(b) \cup {s}
      BY <1>2 DEF Takes
    <2> HIDE DEF u
    <2>3. Shown(u, b) /\ u.turns # <<>>
      BY <2>2, OpensShows
    <2> QED BY <2>1, <2>2, <2>3 DEF Shown
  <1> QED BY <1>1, <1>2

LEMMA FlushShows ==
  ASSUME QueuedInv, Reads, Announces(First), NEW c, c = Flushed(board), kind # "codex"
  PROVE  /\ Shown(c, board) /\ OpenersOf(c) \subseteq OpenersOf(board) \cup Members(buffered)
         /\ Members(buffered) \subseteq Members(c.pending) \cup OpenersOf(c)
         /\ Members(c.pending) \subseteq Members(buffered)
  <1>1. /\ c \in Board /\ Boarded(c) /\ Held(c) = 1 .. sent /\ Members(c.pending) \subseteq Members(buffered)
        /\ OpenersOf(c) \subseteq 1 .. sent
    BY FlushedBoard
  <1>2. /\ board.turn = 0 /\ Members(buffered) = 1 .. sent /\ Len(buffered) = sent
        /\ \A i \in 1 .. sent : buffered[i] = i
    BY Waiting
  <1>3. c.turn # 0 => c.opener \in OpenersOf(c)
    <2> SUFFICES ASSUME c.turn # 0 PROVE c.opener \in OpenersOf(c)
      OBVIOUS
    <2>1. Len(c.turns) \in Nat /\ c.turns # <<>> /\ c.turns[Len(c.turns)].opener = c.opener
          /\ c.turns \in Seq(PublicTurn)
      BY <1>1, BoardTyped DEF Boarded
    <2>2. Len(c.turns) \in 1 .. Len(c.turns)
      BY <2>1
    <2> QED BY <2>1, <2>2 DEF OpenersOf
  <1>4. Members(buffered) \subseteq Members(c.pending) \cup OpenersOf(c)
    BY <1>1, <1>2, <1>3 DEF Held
  <1>5. Shown(c, board)
    <2>1. board \in Board /\ buffered \in Seq(Sends)
      BY Given
    <2>2. CASE buffered = <<>>
      BY <2>1, <2>2, BoardTyped DEF Flushed, Shown
    <2>3. CASE buffered # <<>>
      <3> DEFINE h == Head(buffered)
                 e == Started(board, h)
                 q == e.pending \o Tail(buffered)
      <3>1. h \in Sends
        BY <2>1, <2>3, TailCuts
      <3>2. e \in Board /\ Opens(e, board, h)
        BY <2>1, <3>1, StartedOpens
      <3>3. c = [e EXCEPT !.pending = q]
        BY <2>3, <3>2, <1>2 DEF Flushed, Board
      <3>4. Shown(e, board)
        BY <2>1, <3>1, <3>2, OpensShows
      <3> HIDE DEF e, q
      <3>5. c.turns = e.turns
        BY <3>2, <3>3 DEF Board
      <3> QED BY <3>4, <3>5 DEF Shown
    <2> QED BY <2>2, <2>3
  <1> QED BY <1>1, <1>2, <1>4, <1>5

LEMMA LastShows ==
  ASSUME QueuedInv, ~Finalized, NEW c, c = LastTurn(board)
  PROVE  /\ Shown(c, board) /\ OpenersOf(c) \subseteq OpenersOf(board) \cup Members(buffered)
         /\ c.opener # 0 => c.opener \in OpenersOf(c)
  <1>1. board \in Board /\ buffered \in Seq(Sends)
    BY Given
  <1>2. /\ c \in Board /\ Boarded(c) /\ OpenersOf(c) \subseteq OpenersOf(board) \cup Members(buffered)
        /\ c.turn # 0 => c.opener \in OpenersOf(c)
    BY LastBoard
  <1>3. c.opener # 0 => c.opener \in OpenersOf(c)
    BY <1>2 DEF Boarded
  <1>4. Shown(c, board)
    <2>1. CASE kind = "popeye" /\ buffered # <<>> /\ board.turn = 0
      <3> DEFINE h == Head(buffered)
      <3>1. h \in Sends
        BY <2>1, <1>1, TailCuts
      <3>2. Opens(c, board, h)
        BY <2>1, <3>1, <1>1, StartedOpens DEF LastTurn
      <3> QED BY <3>1, <3>2, <1>1, OpensShows
    <2>2. CASE ~ (kind = "popeye" /\ buffered # <<>> /\ board.turn = 0)
      BY <2>2, <1>1, BoardTyped DEF LastTurn, Shown
    <2> QED BY <2>1, <2>2
  <1> QED BY <1>2, <1>3, <1>4

(* Every step of the session is one of these. *)
LEMMA RestSteps ==
  ASSUME QueuedInv, UNCHANGED <<sends, history, cause>>, Shown(board', board),
         Len(board'.turns) = Len(board.turns), board'.pending = board.pending
  PROVE  Rests
  BY DEF Rests, sends, history

LEMMA ShownSelf ==
  ASSUME QueuedInv
  PROVE  Shown(board, board)
  BY Given, BoardTyped DEF Shown

LEMMA StillSteps ==
  ASSUME QueuedInv, UNCHANGED <<sends, history, cause>>, board' = board
  PROVE  Rests
  BY ShownSelf, RestSteps

LEMMA LifeRests ==
  ASSUME QueuedInv,
         (\E drain \in BOOLEAN : Close(drain)) \/ DrainCheck \/ CloseGrace \/ KillGrace \/ InputError
         \/ Native \/ UNCHANGED vars
  PROVE  Rests
  <1>1. UNCHANGED <<sends, history, cause>> /\ board' = board
    <2>1. CASE \E drain \in BOOLEAN : Close(drain)
      BY <2>1 DEF Close
    <2>2. CASE DrainCheck \/ CloseGrace \/ KillGrace \/ InputError
      BY <2>2 DEF DrainCheck, CloseGrace, KillGrace, InputError
    <2>3. CASE Native
      <3>1. HcnStill
        BY <2>3 DEF Native, AnswerProbe, End, Refuse, Begin, Join, Show
      <3> QED BY <3>1 DEF HcnStill, life
    <2>4. CASE UNCHANGED vars
      BY <2>4 DEF vars, life
    <2> QED BY <2>1, <2>2, <2>3, <2>4
  <1> QED BY <1>1, StillSteps

LEMMA ExitedRests ==
  ASSUME QueuedInv, NEW code, Exited(code)
  PROVE  Rests
  <1>1. UNCHANGED <<sends, history, cause>> /\ board' = [board EXCEPT !.watched = FALSE]
    BY DEF Exited
  <1>2. board'.turns = board.turns /\ board'.pending = board.pending
    BY <1>1, Given DEF Board
  <1>3. Shown(board', board)
    BY <1>2, ShownSelf DEF Shown
  <1> QED BY <1>1, <1>2, <1>3, RestSteps

LEMMA ContentRests ==
  ASSUME QueuedInv, ContentRead
  PROVE  Rests
  <1>1. /\ Reads /\ Meant.kind \in {"content", "ignored"}
        /\ UNCHANGED <<sends, history, cause>>
        /\ board' = IF Meant.kind = "content" THEN Routed(board, Head(stdout).run) ELSE board
    BY DEF ContentRead, life
  <1>2. CASE Meant.kind # "content"
    BY <1>1, <1>2, StillSteps
  <1>3. CASE Meant.kind = "content"
    <2>1. Head(stdout).run = First.run /\ OfRun(First) /\ 1 \in 1 .. Len(Pipe)
      BY <1>1, <1>3, ReadFacts DEF OfRun
    <2>2. First.run \in Runs
      BY <2>1, Given, RunKnown DEF QueuedInv, Harness, First
    <2>3. board \in Board /\ Boarded(board)
      BY Given DEF QueuedInv
    <2>4. /\ Shown(board', board) /\ Len(board'.turns) = Len(board.turns)
          /\ board'.pending = board.pending
      BY <1>1, <1>3, <2>1, <2>2, <2>3, RoutedBoard
    <2> QED BY <1>1, <2>4, RestSteps
  <1> QED BY <1>2, <1>3

(* The end of a turn, and the stall that forces it. *)
LEMMA OverShifts ==
  ASSUME QueuedInv, ~Finalized, UNCHANGED <<sends, history, cause>>,
         NEW b \in Board, Boarded(b), Recounts(b, board), b.pending = board.pending, board' = Over(b)
  PROVE  Shifts
  <1>1. board \in Board
    BY Given
  <1>2. Shown(board', b) /\ Members(b.pending) \subseteq Members(board'.pending) \cup OpenersOf(board')
    BY OverShows
  <1>3. Shown(board', board)
    BY <1>1, <1>2, RecountsShows
  <1>4. /\ OpenersOf(board') \subseteq OpenersOf(board) \cup Members(board.pending)
        /\ Members(board'.pending) \subseteq Members(board.pending)
    BY OverMoves, RecountsKeep DEF Moves
  <1>5. /\ kind' = kind /\ sent' = sent /\ buffered' = buffered /\ awaiting' = awaiting /\ told' = told
        /\ refused' = refused /\ lost' = lost /\ dropped' = dropped /\ cause' = cause
    BY DEF sends, history
  <1>6. Named' = Named
    BY <1>5, NamedIs, NamedWillBe
  <1>7. Waits = awaiting \cup Members(buffered) \cup Members(board.pending)
        /\ Waiters = Waits \cup Astray
        /\ Waiters' = awaiting \cup Members(buffered) \cup Members(board'.pending) \cup Astray
    BY <1>5 DEF Waits, Waiters, Astray
  <1>8. \A s \in Waiters : Told(s)
    BY <1>2, <1>7 DEF Told
  <1>9. OpenersOf(board') \subseteq OpenersOf(board) \cup Waits /\ Waiters' \subseteq Waiters
    BY <1>4, <1>7
  <1> QED BY <1>3, <1>5, <1>6, <1>8, <1>9 DEF Shifts

LEMMA TurnEndShifts ==
  ASSUME QueuedInv, TurnEndRead \/ Stall
  PROVE  Shifts
  <1>1. board \in Board /\ Boarded(board)
    BY Given DEF QueuedInv
  <1>2. CASE TurnEndRead
    <2>1. ~Finalized /\ UNCHANGED <<sends, history, cause>> /\ board' = Over(board)
      BY <1>2 DEF TurnEndRead, Reads, Awake, Settles
    <2>2. Recounts(board, board)
      BY DEF Recounts
    <2> QED BY <1>1, <2>1, <2>2, OverShifts
  <1>3. CASE Stall
    <2> DEFINE e == Failed(board)
    <2>1. ~Finalized /\ UNCHANGED <<sends, history, cause>> /\ board' = Over(e)
      BY <1>3 DEF Stall, Awake, Settles
    <2>2. e \in Board /\ Boarded(e) /\ Recounts(e, board) /\ e.pending = board.pending
      BY <1>1, FailedBoard
    <2> HIDE DEF e
    <2> QED BY <2>1, <2>2, OverShifts
  <1> QED BY <1>2, <1>3

(* A receipt: its input opens a turn, or joined the one that is open. *)
LEMMA AcceptedShifts ==
  ASSUME QueuedInv, AcceptedRead
  PROVE  Shifts
  <1> DEFINE s == First.token
  <1>1. /\ Reads /\ Meant.kind = "command-accepted"
        /\ UNCHANGED <<kind, sent, buffered, cause, refused, lost, dropped>>
    BY DEF AcceptedRead, life, history
  <1>2. /\ kind = "codex" /\ s \in Sends /\ s \in awaiting /\ Meant.run \in Runs \cup {0}
        /\ Meant.token = s /\ ~Finalized
    BY <1>1, AnswersKnown, ReadFacts
  <1>3. board \in Board /\ Boarded(board)
    BY Given DEF QueuedInv
  <1>4. Takes(board', board, s)
    <2> DEFINE v == IF Meant.run # 0 THEN Meant.run ELSE board.steer
    <2>1. board' = Accepted([board EXCEPT !.steer = v], s)
      BY <1>2 DEF AcceptedRead
    <2>2. v \in Runs \cup {0}
      BY <1>2, <1>3, BoardTyped
    <2> HIDE DEF v
    <2> QED BY <2>1, <2>2, <1>2, <1>3, AcceptTakes
  <1>5. told' = [told EXCEPT ![s] = "started"] /\ awaiting' = awaiting \ {s}
    BY <1>2 DEF AcceptedRead
  <1>6. told'[s] = "started" /\ \A x \in Sends : told[x] = "started" => told'[x] = "started"
    BY <1>2, <1>5, Given
  <1> HIDE DEF s
  <1>7. /\ Shown(board', board) /\ board'.turns # <<>> /\ board'.pending = board.pending
        /\ OpenersOf(board') \subseteq OpenersOf(board) \cup {s}
    BY <1>2, <1>3, <1>4, TakesShows
  <1>8. s \in Named' /\ Named \subseteq Named'
    <2>1. kind' = "codex"
      BY <1>1, <1>2
    <2> QED BY <2>1, <1>2, <1>6, NamedIs, NamedWillBe
  <1>9. /\ Waits = awaiting \cup Members(buffered) \cup Members(board.pending)
        /\ Waiters = Waits \cup Astray
        /\ Waiters' = (awaiting \ {s}) \cup Members(buffered) \cup Members(board.pending) \cup Astray
    BY <1>1, <1>5, <1>7 DEF Waits, Waiters, Astray
  <1>10. \A x \in Waiters : Told(x)
    BY <1>7, <1>8, <1>9 DEF Told
  <1>11. OpenersOf(board') \subseteq OpenersOf(board) \cup Waits /\ Waiters' \subseteq Waiters
    BY <1>2, <1>7, <1>9
  <1>12. refused' = refused
    BY <1>1
  <1> QED BY <1>1, <1>2, <1>7, <1>8, <1>10, <1>11, <1>12 DEF Shifts

(* A refusal: its input is refused where it waited. *)
LEMMA CommandFailedShifts ==
  ASSUME QueuedInv, CommandFailedRead
  PROVE  Shifts
  <1> DEFINE s == Meant.token
  <1>1. /\ Reads /\ board' = CommandFailed(board, s)
        /\ told' = IF s \in awaiting THEN [told EXCEPT ![s] = "native-rejected"] ELSE told
        /\ awaiting' = awaiting \ {s}
        /\ refused' = IF s \in awaiting \cup Members(board.pending) THEN refused \cup {s} ELSE refused
        /\ UNCHANGED <<kind, sent, buffered, cause, lost, dropped>>
    BY DEF CommandFailedRead, Settles
  <1>2. /\ board \in Board /\ Boarded(board) /\ ~Finalized /\ s \in Sends \cup {0} /\ awaiting \subseteq Sends
        /\ told \in [Sends -> {"none", "started", "native-rejected", "write-failed", "closed"}]
        /\ Members(board.pending) \subseteq Sends
    <2>1. board \in Board /\ Boarded(board) /\ awaiting \subseteq Sends
          /\ told \in [Sends -> {"none", "started", "native-rejected", "write-failed", "closed"}]
      BY Given DEF QueuedInv
    <2>2. Members(board.pending) \subseteq Sends
      BY <2>1, BoardTyped, MembersTyped
    <2> QED BY <2>1, <2>2, <1>1, ReadFacts
  <1>3. \A x \in Sends : told[x] = "started" => told'[x] = "started"
    <2>1. \A x \in awaiting : told[x] = "none"
      BY DEF QueuedInv, Places
    <2> QED BY <2>1, <1>1, <1>2
  <1> HIDE DEF s
  <1>4. Named \subseteq Named'
    <2>1. kind' = kind
      BY <1>1
    <2> QED BY <2>1, <1>3, NamedIs, NamedWillBe
  <1>5. /\ Shown(board', board) /\ OpenersOf(board') \subseteq OpenersOf(board) \cup Members(board.pending)
        /\ Members(board'.pending) \subseteq Members(board.pending)
        /\ Members(board.pending) \subseteq Members(board'.pending) \cup OpenersOf(board') \cup {s}
    <2>1. CASE s \in Sends
      BY <2>1, <1>1, <1>2, RefusalShows
    <2>2. CASE s \notin Sends
      <3>1. s = 0 /\ s \notin Members(board.pending)
        BY <2>2, <1>2
      <3>2. board.turn # 0 => board.opener # 0
        BY <1>2 DEF Boarded
      <3>3. board' = board
        BY <3>1, <3>2, <1>1 DEF CommandFailed, Unopened
      <3> QED BY <3>3, ShownSelf
    <2> QED BY <2>1, <2>2
  <1>6. /\ Waits = awaiting \cup Members(buffered) \cup Members(board.pending)
        /\ Waiters = Waits \cup Astray
        /\ Waiters' = (awaiting \ {s}) \cup Members(buffered) \cup Members(board'.pending) \cup Astray
    BY <1>1 DEF Waits, Waiters, Astray
  <1>7. /\ refused \subseteq refused' /\ refused' \subseteq refused \cup Waits
        /\ s \in awaiting \cup Members(board.pending) => s \in refused'
    BY <1>1, <1>6
  <1>8. \A x \in Waiters : Told(x)
    BY <1>5, <1>6, <1>7 DEF Told
  <1>9. OpenersOf(board') \subseteq OpenersOf(board) \cup Waits /\ Waiters' \subseteq Waiters
    BY <1>5, <1>6
  <1>10. kind' = kind /\ sent' = sent /\ dropped' = dropped /\ cause' = cause
    BY <1>1
  <1> QED BY <1>2, <1>4, <1>5, <1>7, <1>8, <1>9, <1>10 DEF Shifts

(* The session is refused: codex's buffered inputs with it. *)
LEMMA ProbeFailedShifts ==
  ASSUME QueuedInv, ProbeFailedRead
  PROVE  Shifts
  <1>1. /\ Reads /\ Meant.kind = "probe-failed" /\ board' = Failed(board)
        /\ kind' = kind /\ sent' = sent /\ cause' = cause /\ lost' = lost /\ dropped' = dropped
    BY DEF ProbeFailedRead
  <1>2. ~Finalized /\ board \in Board /\ Boarded(board)
    BY <1>1, ReadFacts, Given DEF QueuedInv
  <1>3. Recounts(board', board) /\ board'.pending = board.pending
    BY <1>1, <1>2, FailedBoard
  <1>4. Shown(board', board) /\ OpenersOf(board') = OpenersOf(board)
    BY <1>2, <1>3, RecountsShows, RecountsKeep
  <1>5. /\ Waits = awaiting \cup Members(buffered) \cup Members(board.pending)
        /\ Waiters = Waits \cup Astray
        /\ Waiters' = awaiting' \cup Members(buffered') \cup Members(board.pending) \cup Astray
    BY <1>1, <1>3 DEF Waits, Waiters, Astray
  <1>6. CASE kind = "codex"
    <2>1. /\ told' = [s \in Sends |-> IF s \in Members(buffered) THEN "native-rejected" ELSE told[s]]
          /\ awaiting' = awaiting \ Members(buffered) /\ refused' = refused \cup Members(buffered)
          /\ buffered' = <<>>
      BY <1>6 DEF ProbeFailedRead
    <2>2. Members(buffered) \subseteq awaiting /\ \A s \in awaiting : told[s] = "none"
      BY <1>6 DEF QueuedInv, Places
    <2>3. Members(buffered') = {}
      BY <2>1 DEF Members
    <2>4. \A s \in Sends : told[s] = "started" => told'[s] = "started"
      BY <2>1, <2>2
    <2>5. Named \subseteq Named'
      BY <2>4, <1>1, NamedIs, NamedWillBe
    <2>6. /\ refused \subseteq refused' /\ refused' \subseteq refused \cup Waits /\ Waiters' \subseteq Waiters
          /\ OpenersOf(board') \subseteq OpenersOf(board) \cup Waits
      BY <2>1, <2>3, <1>4, <1>5
    <2>7. \A s \in Waiters : Told(s)
      BY <2>1, <2>3, <1>5 DEF Told
    <2> QED BY <2>5, <2>6, <2>7, <1>1, <1>2, <1>4 DEF Shifts
  <1>7. CASE kind # "codex"
    <2>1. told' = told /\ awaiting' = awaiting /\ refused' = refused /\ buffered' = buffered
      BY <1>7 DEF ProbeFailedRead
    <2>2. Named' = Named
      BY <2>1, <1>1, NamedIs, NamedWillBe
    <2>3. \A s \in Waiters : Told(s)
      BY <2>1, <1>5 DEF Told
    <2>4. /\ refused \subseteq refused' /\ refused' \subseteq refused \cup Waits /\ Waiters' \subseteq Waiters
          /\ OpenersOf(board') \subseteq OpenersOf(board) \cup Waits
      BY <2>1, <1>4, <1>5
    <2> QED BY <2>2, <2>3, <2>4, <1>1, <1>2, <1>4 DEF Shifts
  <1> QED BY <1>6, <1>7

(* The id is known: the buffered inputs are written, or the pipe breaks. *)
LEMMA IdentityShifts ==
  ASSUME QueuedInv, IdentityRead
  PROVE  Shifts
  <1>1. /\ Reads /\ Meant.kind = "identity" /\ buffered' = <<>>
        /\ kind' = kind /\ sent' = sent /\ cause' = cause /\ dropped' = dropped
        /\ \/ /\ Drops(Members(buffered)) /\ board' = Flushed(board)
              /\ awaiting' = awaiting /\ told' = told /\ refused' = refused
           \/ /\ PipeBreakable
              /\ awaiting' = awaiting \ Members(buffered)
              /\ told' = [s \in Sends |-> IF s \in awaiting \cap Members(buffered) THEN "write-failed" ELSE told[s]]
              /\ refused' = refused \cup (awaiting \cap Members(buffered))
              /\ lost' = lost \cup (Members(buffered) \ awaiting)
              /\ board' = board
    BY DEF IdentityRead, Breaks
  <1>2. ~Finalized /\ Announces(First)
    BY <1>1, ReadFacts DEF Announces
  <1>3. board.pending = <<>> /\ Members(buffered') = {} /\ Members(board.pending) = {}
    <2>1. board.pending = <<>>
      BY <1>1, <1>2, Waiting
    <2> QED BY <2>1, <1>1 DEF Members
  <1>4. /\ kind = "codex" => Members(buffered) \subseteq awaiting
        /\ kind # "codex" => kind = "popeye"
    BY <1>1, <1>2, Waiting, Given DEF QueuedInv, Places, Kinds
  <1>5. /\ Waits = awaiting \cup Members(buffered)
        /\ Waiters = Waits \cup Astray
        /\ Waiters' = awaiting' \cup Members(board'.pending) \cup Astray'
    BY <1>3 DEF Waits, Waiters
  <1>6. CASE /\ Drops(Members(buffered)) /\ board' = Flushed(board)
             /\ awaiting' = awaiting /\ told' = told /\ refused' = refused
    <2>1. Astray \subseteq Astray' /\ Astray' \subseteq Astray \cup Members(buffered)
      BY <1>1, <1>6 DEF Drops, Astray
    <2>2. /\ Shown(board', board) /\ OpenersOf(board') \subseteq OpenersOf(board) \cup Members(buffered)
          /\ Members(buffered) \subseteq Members(board'.pending) \cup OpenersOf(board') \cup awaiting
          /\ Members(board'.pending) \subseteq Members(buffered)
      <3>1. CASE kind = "codex"
        <4>1. board' = board
          BY <3>1, <1>6 DEF Flushed
        <4> QED BY <4>1, <3>1, <1>3, <1>4, ShownSelf
      <3>2. CASE kind # "codex"
        <4>1. /\ Shown(board', board) /\ OpenersOf(board') \subseteq OpenersOf(board) \cup Members(buffered)
              /\ Members(buffered) \subseteq Members(board'.pending) \cup OpenersOf(board')
              /\ Members(board'.pending) \subseteq Members(buffered)
          BY <3>2, <1>1, <1>2, <1>6, FlushShows
        <4> QED BY <4>1
      <3> QED BY <3>1, <3>2
    <2>3. Named' = Named
      BY <1>1, <1>6, NamedIs, NamedWillBe
    <2>4. \A s \in Waiters : Told(s)
      BY <2>1, <2>2, <1>5, <1>6 DEF Told
    <2>5. /\ refused \subseteq refused' /\ refused' \subseteq refused \cup Waits /\ Waiters' \subseteq Waiters
          /\ OpenersOf(board') \subseteq OpenersOf(board) \cup Waits
      BY <2>1, <2>2, <1>5, <1>6
    <2> QED BY <2>2, <2>3, <2>4, <2>5, <1>1, <1>2 DEF Shifts
  <1>7. CASE /\ PipeBreakable
             /\ awaiting' = awaiting \ Members(buffered)
             /\ told' = [s \in Sends |-> IF s \in awaiting \cap Members(buffered) THEN "write-failed" ELSE told[s]]
             /\ refused' = refused \cup (awaiting \cap Members(buffered))
             /\ lost' = lost \cup (Members(buffered) \ awaiting)
             /\ board' = board
    <2>1. \A s \in awaiting : told[s] = "none"
      BY DEF QueuedInv, Places
    <2>2. \A s \in Sends : told[s] = "started" => told'[s] = "started"
      BY <2>1, <1>7
    <2>3. Named \subseteq Named'
      BY <2>2, <1>1, NamedIs, NamedWillBe
    <2>4. Astray' = Astray \cup (Members(buffered) \ awaiting)
      BY <1>1, <1>4, <1>7 DEF Astray
    <2>5. \A s \in Waiters : Told(s)
      BY <2>4, <1>3, <1>5, <1>7 DEF Told
    <2>6. /\ refused \subseteq refused' /\ refused' \subseteq refused \cup Waits /\ Waiters' \subseteq Waiters
          /\ OpenersOf(board') \subseteq OpenersOf(board) \cup Waits
      BY <2>4, <1>3, <1>5, <1>7
    <2>7. Shown(board', board)
      BY <1>7, ShownSelf
    <2> QED BY <2>3, <2>5, <2>6, <2>7, <1>1, <1>2 DEF Shifts
  <1> QED BY <1>1, <1>6, <1>7

(* A send: its input waits, opens a turn, or is refused. *)
LEMMA SendSends ==
  ASSUME QueuedInv, NEW x \in Sends, Send(x)
  PROVE  Sending(x)
  <1>1. /\ Awake /\ ~Closed /\ x = sent + 1 /\ sent' = x /\ kind' = kind /\ cause' = cause /\ dropped' = dropped
    BY SendKeeps
  <1>2. /\ ~Finalized /\ told[x] = "none"
        /\ x \notin Members(board.pending) \cup OpenersOf(board) \cup awaiting \cup lost \cup dropped
                     \cup refused \cup Members(buffered)
    BY <1>1, SendFresh
  <1>3. /\ board \in Board /\ board.pending \in Seq(Sends) /\ buffered \in Seq(Sends) /\ Shown(board, board)
        /\ told \in [Sends -> {"none", "started", "native-rejected", "write-failed", "closed"}]
    BY Given, BoardTyped, ShownSelf
  <1>4. ASSUME \A s \in Sends : told[s] = "started" => told'[s] = "started"
        PROVE  Named \subseteq Named'
    BY <1>1, <1>4, NamedIs, NamedWillBe
  <1>5. /\ Waits = awaiting \cup Members(buffered) \cup Members(board.pending)
        /\ Waiters = Waits \cup Astray
        /\ Waiters' = awaiting' \cup Members(buffered') \cup Members(board'.pending) \cup Astray'
    BY DEF Waits, Waiters
  <1>6. CASE Buffer(x)
    <2>1. /\ buffered' = Append(buffered, x) /\ board' = board /\ refused' = refused /\ lost' = lost
          /\ \/ awaiting' = awaiting \cup {x} /\ told' = told
             \/ awaiting' = awaiting /\ told' = [told EXCEPT ![x] = "started"]
          /\ Astray' = Astray
      BY <1>1, <1>6 DEF Buffer, Astray
    <2>2. Members(buffered') = Members(buffered) \cup {x}
      BY <2>1, <1>3, MembersAppend
    <2>3. \A s \in Sends : told[s] = "started" => told'[s] = "started"
      BY <2>1, <1>3
    <2>4. Waiters \subseteq Waiters' /\ Waiters' \subseteq Waiters \cup {x} /\ x \in Waiters'
      BY <2>1, <2>2, <1>5
    <2> QED BY <2>1, <2>3, <2>4, <1>1, <1>2, <1>3, <1>4 DEF Sending
  <1>7. CASE WriteFails(x)
    <2>1. /\ told' = [told EXCEPT ![x] = "write-failed"] /\ refused' = refused \cup {x}
          /\ buffered' = buffered /\ awaiting' = awaiting /\ board' = board /\ Astray' = Astray
      BY <1>1, <1>7 DEF WriteFails, Astray
    <2>2. \A s \in Sends : told[s] = "started" => told'[s] = "started"
      BY <2>1, <1>2, <1>3
    <2>3. Waiters' = Waiters
      BY <2>1, <1>5
    <2> QED BY <2>1, <2>2, <2>3, <1>1, <1>2, <1>3, <1>4 DEF Sending
  <1>8. CASE Written(x)
    <2>1. /\ buffered' = buffered /\ refused' = refused /\ Astray \subseteq Astray' /\ Astray' \subseteq Astray \cup {x}
          /\ \/ awaiting' = awaiting \cup {x} /\ told' = told /\ board' = board
             \/ /\ told' = [told EXCEPT ![x] = "started"] /\ awaiting' = awaiting
                /\ board' = IF board.turn # 0 THEN [board EXCEPT !.pending = Append(@, x)] ELSE Started(board, x)
      BY <1>1, <1>8 DEF Written, Drops, Astray
    <2>2. \A s \in Sends : told[s] = "started" => told'[s] = "started"
      BY <2>1, <1>3
    <2>3. CASE awaiting' = awaiting \cup {x} /\ board' = board
      <3>1. Waiters \subseteq Waiters' /\ Waiters' \subseteq Waiters \cup {x} /\ x \in Waiters'
        BY <2>1, <2>3, <1>5
      <3> QED BY <2>1, <2>2, <2>3, <3>1, <1>1, <1>2, <1>3, <1>4 DEF Sending
    <2>4. CASE awaiting' = awaiting /\ board.turn # 0 /\ board' = [board EXCEPT !.pending = Append(@, x)]
      <3> DEFINE q == Append(board.pending, x)
      <3>1. q \in Seq(Sends) /\ Members(q) = Members(board.pending) \cup {x}
        BY <1>3, Appended, MembersAppend
      <3>2. board' = [board EXCEPT !.pending = q]
        BY <2>4, <1>3 DEF Board
      <3> HIDE DEF q
      <3>3. board'.pending = q /\ board'.turns = board.turns
        BY <3>1, <3>2, <1>3 DEF Board
      <3>4. Shown(board', board) /\ OpenersOf(board') = OpenersOf(board)
        BY <3>3, <1>3 DEF Shown, OpenersOf
      <3>5. Waiters \subseteq Waiters' /\ Waiters' \subseteq Waiters \cup {x} /\ x \in Waiters'
        BY <2>1, <2>4, <3>1, <3>3, <1>5
      <3> QED BY <2>1, <2>2, <3>4, <3>5, <1>1, <1>2, <1>4 DEF Sending
    <2>5. CASE awaiting' = awaiting /\ board.turn = 0 /\ board' = Started(board, x)
      <3>1. Opens(board', board, x) /\ board'.pending = board.pending
        BY <2>5, <1>3, StartedOpens
      <3>2. Shown(board', board) /\ OpenersOf(board') = OpenersOf(board) \cup {x}
        BY <3>1, <1>3, OpensShows
      <3>3. Waiters \subseteq Waiters' /\ Waiters' \subseteq Waiters \cup {x}
        BY <2>1, <2>5, <3>1, <1>5
      <3> QED BY <2>1, <2>2, <3>2, <3>3, <1>1, <1>2, <1>4 DEF Sending
    <2> QED BY <2>1, <2>3, <2>4, <2>5
  <1> QED BY <1>6, <1>7, <1>8 DEF Send

LEMMA FinalizeFinishes ==
  ASSUME QueuedInv, Finalize
  PROVE  Finishes
  <1> DEFINE b == LastTurn(board)
             d == Cleared(b)
  <1>1. /\ Awake /\ cause' = CauseOf
        /\ told' = [s \in Sends |-> IF s \in awaiting THEN "closed" ELSE told[s]]
        /\ awaiting' = {} /\ buffered' = <<>> /\ board' = [d EXCEPT !.pending = <<>>]
        /\ dropped' = awaiting \cup Members(board.pending) \cup (Members(buffered) \ {b.opener})
        /\ kind' = kind /\ sent' = sent /\ refused' = refused /\ lost' = lost
    BY DEF Finalize
  <1>2. ~Finalized /\ Finalized'
    BY <1>1 DEF Awake, Finalized, CauseOf
  <1>3. /\ b \in Board /\ Shown(b, board) /\ OpenersOf(b) \subseteq OpenersOf(board) \cup Members(buffered)
        /\ b.opener # 0 => b.opener \in OpenersOf(b)
    BY <1>2, LastBoard, LastShows
  <1> HIDE DEF b
  <1>4. d \in Board /\ d.turns = b.turns
    BY <1>3, ClearedBoard
  <1> HIDE DEF d
  <1>5. board'.turns = b.turns /\ board'.pending = <<>>
    BY <1>1, <1>4 DEF Board
  <1>6. Shown(board', board) /\ OpenersOf(board') = OpenersOf(b)
    BY <1>3, <1>5 DEF Shown, OpenersOf
  <1>7. \A s \in Members(buffered) : s # 0
    BY Given, MembersTyped, Sized
  <1>8. Members(buffered') = {} /\ Members(board'.pending) = {}
    BY <1>1, <1>5 DEF Members
  <1>9. /\ Waits = awaiting \cup Members(buffered) \cup Members(board.pending)
        /\ Waiters = Waits \cup Astray /\ Waiters' = Astray /\ Gone' = dropped' \cup Astray
    BY <1>1, <1>2, <1>8 DEF Waits, Waiters, Gone, Forgotten, Astray
  <1>10. Gone' \subseteq Waiters /\ Waiters \subseteq OpenersOf(board') \cup Gone' /\ Waiters' \subseteq Gone'
    BY <1>1, <1>3, <1>6, <1>7, <1>9
  <1>11. OpenersOf(board') \subseteq OpenersOf(board) \cup Waits
    BY <1>3, <1>6, <1>9
  <1>12. Named \subseteq Named'
    <2>1. \A s \in awaiting : told[s] = "none"
      BY DEF QueuedInv, Places
    <2>2. \A s \in Sends : told[s] = "started" => told'[s] = "started"
      BY <2>1, <1>1
    <2> QED BY <2>2, <1>1, NamedIs, NamedWillBe
  <1> QED BY <1>1, <1>2, <1>6, <1>10, <1>11, <1>12 DEF Finishes

LEMMA QueuedSteps ==
  ASSUME QueuedInv, DroppedLast, [Next]_vars
  PROVE  Steps /\ DroppedLast'
  <1>1. CASE Rests
    <2>1. DroppedLast'
      BY <1>1 DEF Rests, DroppedLast, Finalized
    <2> QED BY <2>1, <1>1, RestsPromised
  <1>2. CASE Shifts
    <2>1. DroppedLast'
      BY <1>2 DEF Shifts, DroppedLast, Finalized
    <2> QED BY <2>1, <1>2, ShiftsPromised
  <1>3. CASE \E x \in Sends : Send(x)
    <2>1. PICK x \in Sends : Send(x)
      BY <1>3
    <2>2. Sending(x)
      BY <2>1, SendSends
    <2>3. DroppedLast'
      BY <2>2 DEF Sending, DroppedLast, Finalized
    <2> QED BY <2>2, <2>3, SendingPromised
  <1>4. CASE Finalize
    <2>1. Finishes
      BY <1>4, FinalizeFinishes
    <2>2. DroppedLast'
      BY <2>1 DEF Finishes, DroppedLast
    <2> QED BY <2>1, <2>2, FinishPromised
  <1>5. CASE (\E drain \in BOOLEAN : Close(drain)) \/ DrainCheck \/ CloseGrace \/ KillGrace \/ InputError \/ Native
    BY <1>1, <1>5, LifeRests
  <1>6. CASE RecordRead
    BY <1>1, <1>2, <1>6, IdentityShifts, ProbeFailedShifts, AcceptedShifts, CommandFailedShifts,
       TurnEndShifts, ContentRests DEF RecordRead
  <1>7. CASE Stall
    BY <1>2, <1>7, TurnEndShifts
  <1>8. CASE \E code \in {"zero", "nonzero", "signal"} : Exited(code)
    BY <1>1, <1>8, ExitedRests
  <1>9. CASE Done \/ UNCHANGED vars
    BY <1>1, <1>9, LifeRests DEF Done
  <1> QED BY <1>3, <1>4, <1>5, <1>6, <1>7, <1>8, <1>9 DEF Next

(* Each input a caller hands over becomes exactly one of what InputFates    *)
(* names, for good: it waits, and then one turn carries its id, the run     *)
(* that codex named takes it into an open turn, it is refused, or the end   *)
(* of the session says it was dropped.                                      *)
THEOREM QueuedTellsFates == Spec => ImplementsFates
  <1>1. Init => Promise!Init /\ DroppedLast
    <2> SUFFICES ASSUME Init PROVE Promise!Init /\ DroppedLast
      OBVIOUS
    <2>1. \A s \in Sends : Fate(s) = "unsent"
      <3>1. \A s \in Sends : s > sent
        BY QueuedAssumption DEF Init, Sends
      <3> QED BY <3>1 DEF Fate
    <2>2. board.turns = <<>> /\ ~Finalized /\ dropped = {}
      BY DEF Init, Finalized
    <2>3. Named = {}
      BY NamedIs DEF Init
    <2> QED BY <2>1, <2>2, <2>3 DEF Promise!Init, Promise!Sends, Sends, DroppedLast
  <1>2. QueuedInv /\ DroppedLast /\ [Next]_vars => DroppedLast'
    BY QueuedSteps
  <1>3. QueuedInv /\ QueuedInv' /\ DroppedLast /\ [Next]_vars => Promise!Next
    <2>1. QueuedInv => board \in Board
      BY Given
    <2>2. QueuedInv' => (board \in Board)'
      BY <2>1, PTL
    <2>3. Board' = Board
      BY DEF Board, PublicTurn, Sends, Runs
    <2> QED BY <2>2, <2>3, QueuedSteps, StepsPromised
  <1> QED BY <1>1, <1>2, <1>3, QueuedInvariant, PTL DEF Spec, ImplementsFates, Promise!Spec
=============================================================================
