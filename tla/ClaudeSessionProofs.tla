------------------------ MODULE ClaudeSessionProofs ------------------------
(* What holds of a claude session for every number of inputs, runs and      *)
(* requests: one fate for each input, output where it belongs, one reply    *)
(* for each permission request, and a stall clock that waits for a human.   *)
EXTENDS ClaudeSession, SequenceTheorems, NaturalsInduction, WellFoundedInduction, TLAPS

-----------------------------------------------------------------------------
(* The inductive invariant *)

Elements(q) == {q[i] : i \in 1 .. Len(q)}
Distinct(q) == \A i, j \in 1 .. Len(q) : q[i] = q[j] => i = j

(* The inputs that wait: those pending, and the one a private turn holds. *)
Held(b) == Elements(b.pending) \cup (IF Private(b) THEN {b.opener} ELSE {})
Shows(b) == {b.turns[i].opener : i \in 1 .. Len(b.turns)}

(* Turns are numbered as they start, and only the last can be the live one. *)
Numbered(b) ==
  /\ b.turn <= b.count
  /\ \A i \in 1 .. Len(b.turns) : b.turns[i].no \in 1 .. b.count
  /\ \A i \in 1 .. Len(b.turns) :
       b.turns[i].no = b.turn => i = Len(b.turns) /\ b.turns[i].opener = b.opener
  /\ b.turn = 0 => b.opener = 0 /\ ~b.watched
  /\ Private(b) => b.opener # 0

(* An input waits in one place, and before a turn shows its id. *)
Kept(b) ==
  /\ Distinct(b.pending)
  /\ \A s \in Held(b) : s \notin Shows(b)
  /\ Private(b) => b.opener \notin Elements(b.pending)

Good(b) == b \in Board /\ Numbered(b) /\ Kept(b)

(* The inputs on the board were sent and written. *)
Inputs ==
  /\ \A s \in Held(board) \cup (Shows(board) \ {0}) : s \in 1 .. sent /\ s \notin refused
  /\ refused \subseteq 1 .. sent
  /\ \A s \in dropped : finalized /\ s \in 1 .. sent /\ s \notin refused /\ s \notin Shows(board)
  /\ finalized => dead /\ Held(board) = {} /\ board.turn = 0

RunInv ==
  /\ run.no <= begun
  /\ \A i \in 1 .. Len(board.turns) : board.turns[i].runs \subseteq 1 .. begun

Owned(b, ins) ==
  \A i \in 1 .. Len(b.turns) :
    b.turns[i].opener # 0 => \A n \in b.turns[i].runs : b.turns[i].opener \in ins[n]

(* A live turn shown with an input's id is that of the run going on. *)
Belongs ==
  ~Walls /\ ~PipeBreakable =>
    /\ Owned(board, inputs)
    /\ Public(board) /\ board.opener # 0 => run.no # 0 /\ board.opener \in inputs[run.no]

Waits ==
  \A r \in Waiting(ask) :
    (ask[r].turn = board.turn /\ board.turn # 0) \/ (ask[r].turn = 0 /\ Closed)

ClaudeInv ==
  /\ TypeOK /\ Good(board) /\ Inputs /\ RunInv /\ Belongs
  /\ Waits /\ PausedWhileWaiting /\ OneReply

-----------------------------------------------------------------------------
(* Sequences of inputs *)

LEMMA Least ==
  ASSUME NEW T, T \subseteq Nat, T # {}
  PROVE  \E n \in T : \A k \in T : n <= k
  <1>1. PICK n \in T : \A k \in T : ~ (<<k, n>> \in OpToRel(<, Nat))
    BY NatLessThanWellFounded, WFMin
  <1>2. ASSUME NEW k \in T PROVE n <= k
    <2>1. ~ (<<k, n>> \in OpToRel(<, Nat))
      BY <1>1
    <2>2. k \in Nat /\ n \in Nat
      OBVIOUS
    <2>3. ~ (k < n)
      BY <2>1, <2>2 DEF OpToRel
    <2> QED BY <2>2, <2>3
  <1> QED BY <1>2

(* g holds what is kept of the first inputs of q, one more at each step. *)
Keeps(g, q, S, n) ==
  g = [m \in 0 .. n |-> IF m = 0 THEN <<>>
                        ELSE IF q[m] \in S THEN g[m - 1] ELSE Append(g[m - 1], q[m])]

LEMMA KeptExists ==
  ASSUME NEW T, NEW q \in Seq(T), NEW S
  PROVE  \E g : Keeps(g, q, S, Len(q))
  <1> DEFINE Bad == {n \in Nat : n <= Len(q) /\ ~ \E g : Keeps(g, q, S, n)}
  <1>1. Len(q) \in Nat
    OBVIOUS
  <1>2. SUFFICES ASSUME Bad # {} PROVE FALSE
    BY <1>1
  <1>3. PICK n \in Bad : \A k \in Bad : n <= k
    BY <1>2, Least
  <1>4. n \in Nat /\ n <= Len(q) /\ ~ \E g : Keeps(g, q, S, n)
    OBVIOUS
  <1>5. n # 0
    <2>1. SUFFICES ASSUME n = 0 PROVE \E g : Keeps(g, q, S, n)
      BY <1>4
    <2> DEFINE h == [m \in 0 .. 0 |-> <<>>]
    <2>2. Keeps(h, q, S, 0)
      BY DEF Keeps
    <2> QED BY <2>1, <2>2
  <1>6. PICK g : Keeps(g, q, S, n - 1)
    <2>1. n - 1 \in Nat /\ n - 1 <= Len(q) /\ ~(n <= n - 1)
      BY <1>1, <1>4, <1>5
    <2> QED BY <1>3, <2>1
  <1> DEFINE h == [m \in 0 .. n |->
                     IF m = n THEN (IF q[n] \in S THEN g[n - 1] ELSE Append(g[n - 1], q[n])) ELSE g[m]]
  <1>7. ASSUME NEW m \in 0 .. n
        PROVE  h[m] = IF m = 0 THEN <<>>
                      ELSE IF q[m] \in S THEN h[m - 1] ELSE Append(h[m - 1], q[m])
    <2>1. CASE m = n
      <3>1. n - 1 \in 0 .. n /\ n - 1 # n
        BY <1>4, <1>5
      <3> QED BY <1>5, <2>1, <3>1
    <2>2. CASE m = 0
      <3>1. h[m] = g[m] /\ 0 \in 0 .. (n - 1)
        BY <1>4, <1>5, <2>2
      <3>2. g[0] = <<>>
        BY <1>6, <3>1 DEF Keeps
      <3> QED BY <2>2, <3>1, <3>2
    <2>3. CASE m # n /\ m # 0
      <3>1. m \in 0 .. (n - 1) /\ m - 1 \in 0 .. n /\ m - 1 # n
        BY <1>4, <2>3
      <3>2. h[m] = g[m] /\ h[m - 1] = g[m - 1]
        BY <2>3, <3>1
      <3>3. g[m] = IF q[m] \in S THEN g[m - 1] ELSE Append(g[m - 1], q[m])
        BY <1>6, <2>3, <3>1 DEF Keeps
      <3> QED BY <2>3, <3>2, <3>3
    <2> QED BY <2>1, <2>2, <2>3
  <1>8. Keeps(h, q, S, n)
    <2> DEFINE e == [m \in 0 .. n |-> IF m = 0 THEN <<>>
                        ELSE IF q[m] \in S THEN h[m - 1] ELSE Append(h[m - 1], q[m])]
    <2>1. \A m \in 0 .. n : h[m] = e[m]
      BY <1>7
    <2>2. h = e
      BY <2>1
    <2> QED BY <2>2 DEF Keeps
  <1> QED BY <1>4, <1>8

LEMMA Filtered ==
  ASSUME NEW T, NEW q \in Seq(T), NEW S
  PROVE  /\ Without(q, S) \in Seq(T)
         /\ Elements(Without(q, S)) = Elements(q) \ S
         /\ Distinct(q) => Distinct(Without(q, S))
  <1> DEFINE kept == CHOOSE g : Keeps(g, q, S, Len(q))
             First(n) == {q[i] : i \in 1 .. n}
             Fine(n) == /\ kept[n] \in Seq(T) /\ Elements(kept[n]) = First(n) \ S
                        /\ Distinct(q) => Distinct(kept[n])
             Bad == {n \in Nat : n <= Len(q) /\ ~Fine(n)}
  <1>1. Len(q) \in Nat /\ \A i \in 1 .. Len(q) : q[i] \in T
    OBVIOUS
  <1>2. Keeps(kept, q, S, Len(q))
    BY KeptExists
  <1>3. Without(q, S) = kept[Len(q)]
    BY DEF Without, Keeps
  <1> HIDE DEF kept
  <1>4. kept[0] = <<>>
    <2>1. 0 \in 0 .. Len(q)
      BY <1>1
    <2> QED BY <1>2, <2>1 DEF Keeps
  <1>5. ASSUME NEW n \in 1 .. Len(q)
        PROVE  kept[n] = IF q[n] \in S THEN kept[n - 1] ELSE Append(kept[n - 1], q[n])
    <2>1. n \in 0 .. Len(q) /\ n # 0
      BY <1>1
    <2> QED BY <1>2, <2>1 DEF Keeps
  <1>6. Bad = {}
    <2> SUFFICES ASSUME Bad # {} PROVE FALSE
      OBVIOUS
    <2>1. PICK n \in Bad : \A k \in Bad : n <= k
      BY Least
    <2>2. n \in Nat /\ n <= Len(q) /\ ~Fine(n)
      OBVIOUS
    <2>3. n # 0
      <3>1. First(0) = {} /\ <<>> \in Seq(T) /\ Elements(<<>>) = {} /\ Distinct(<<>>)
        BY DEF Elements, Distinct
      <3>2. Fine(0)
        BY <1>4, <3>1
      <3> QED BY <2>2, <3>2
    <2>4. n \in 1 .. Len(q) /\ n - 1 \in Nat /\ n - 1 <= Len(q) /\ ~(n <= n - 1)
      BY <1>1, <2>2, <2>3
    <2>5. Fine(n - 1)
      BY <2>1, <2>4
    <2> DEFINE r == kept[n - 1]
               x == q[n]
    <2>6. r \in Seq(T) /\ Elements(r) = First(n - 1) \ S /\ (Distinct(q) => Distinct(r)) /\ x \in T
      BY <1>1, <2>4, <2>5
    <2>7. First(n) = First(n - 1) \cup {x}
      <3>1. \A i \in 1 .. n : i \in 1 .. (n - 1) \/ i = n
        BY <2>4
      <3>2. \A i \in 1 .. (n - 1) : i \in 1 .. n
        BY <2>4
      <3>3. n \in 1 .. n
        BY <2>4
      <3> QED BY <3>1, <3>2, <3>3
    <2>8. kept[n] = IF x \in S THEN r ELSE Append(r, x)
      BY <1>5, <2>4
    <2>9. Distinct(q) => x \notin First(n - 1)
      <3>1. \A i \in 1 .. (n - 1) : i \in 1 .. Len(q) /\ i # n
        BY <1>1, <2>4
      <3> QED BY <2>4, <3>1 DEF Distinct
    <2> HIDE DEF r, x, First
    <2>10. CASE x \in S
      <3>1. kept[n] = r /\ First(n) \ S = First(n - 1) \ S
        BY <2>7, <2>8, <2>10
      <3> QED BY <2>2, <2>6, <3>1
    <2>11. CASE x \notin S
      <3> DEFINE a == Append(r, x)
      <3>1. /\ a \in Seq(T) /\ Len(a) = Len(r) + 1 /\ a[Len(r) + 1] = x /\ Len(r) \in Nat
            /\ \A i \in 1 .. Len(r) : a[i] = r[i]
        BY <2>6
      <3> HIDE DEF a
      <3>2. \A i \in 1 .. Len(a) : i \in 1 .. Len(r) \/ i = Len(r) + 1
        BY <3>1
      <3>3. \A i \in 1 .. Len(r) : i \in 1 .. Len(a)
        BY <3>1
      <3>4. Len(r) + 1 \in 1 .. Len(a)
        BY <3>1
      <3>5. Elements(a) = Elements(r) \cup {x}
        BY <3>1, <3>2, <3>3, <3>4 DEF Elements
      <3>6. Elements(a) = First(n) \ S
        BY <2>6, <2>7, <2>11, <3>5
      <3>7. Distinct(q) => x \notin Elements(r)
        BY <2>6, <2>9
      <3>8. Distinct(q) => Distinct(a)
        <4> SUFFICES ASSUME Distinct(q), NEW i \in 1 .. Len(a), NEW j \in 1 .. Len(a), a[i] = a[j]
                     PROVE  i = j
          BY DEF Distinct
        <4>1. \A k \in 1 .. Len(r) : r[k] # x
          BY <3>7 DEF Elements
        <4>2. CASE i \in 1 .. Len(r) /\ j \in 1 .. Len(r)
          BY <2>6, <3>1, <4>2 DEF Distinct
        <4>3. CASE i = Len(r) + 1
          BY <3>1, <3>2, <4>1, <4>3
        <4>4. CASE j = Len(r) + 1
          BY <3>1, <3>2, <4>1, <4>4
        <4> QED BY <3>2, <4>2, <4>3, <4>4
      <3>9. kept[n] = a
        BY <2>8, <2>11 DEF a
      <3> QED BY <2>2, <3>1, <3>6, <3>8, <3>9
    <2> QED BY <2>10, <2>11
  <1>7. Fine(Len(q))
    <2> HIDE DEF Fine
    <2>1. Len(q) <= Len(q) /\ Len(q) \notin Bad
      BY <1>1, <1>6
    <2> QED BY <1>1, <2>1
  <1>8. First(Len(q)) = Elements(q)
    BY DEF Elements
  <1> QED BY <1>3, <1>7, <1>8

-----------------------------------------------------------------------------
(* Steps of the board *)

(* From b to d, where a record named S: each input that no longer waits was *)
(* named, or has its turn; a turn shown at most, for an input that waited   *)
(* or for none.                                                             *)
Moves(b, d, S) ==
  /\ Good(d)
  /\ Len(d.turns) \in {Len(b.turns), Len(b.turns) + 1}
  /\ \A i \in 1 .. Len(b.turns) : d.turns[i].opener = b.turns[i].opener
  /\ Held(d) \subseteq Held(b)
  /\ \A s \in Held(b) : s \in Held(d) \/ (s \in S /\ Len(d.turns) > 0) \/ s \in Shows(d)
  /\ Len(d.turns) > Len(b.turns) => d.turns[Len(d.turns)].opener \in Held(b) \cup {0}

(* The turns b showed carry what they carried, and a new one nothing yet. *)
Fresh(b, c) ==
  \A i \in 1 .. Len(c.turns) :
    (i \in 1 .. Len(b.turns) /\ c.turns[i] = b.turns[i]) \/ c.turns[i].runs = {}

(* The stall clock runs on, or starts with a turn. *)
Tuned(b, c) ==
  \/ c.turn = b.turn /\ c.watched = b.watched /\ c.paused = b.paused
  \/ b.turn = 0 /\ ~Closed /\ c.turn # 0 /\ c.paused = FALSE

(* Only an input that was named gets its turn. *)
Tagged(b, c, S) ==
  Public(c) /\ c.opener # 0 => c.opener \in S \/ (Public(b) /\ c.opener = b.opener)

LEMMA BoardParts ==
  ASSUME NEW b \in Board
  PROVE  /\ b.turn \in Nat /\ b.opener \in Sends \cup {0} /\ b.count \in Nat
         /\ b.pending \in Seq(Sends) /\ b.turns \in Seq(PublicTurn)
         /\ b.watched \in BOOLEAN /\ b.paused \in BOOLEAN
         /\ Len(b.turns) \in Nat /\ Len(b.pending) \in Nat
         /\ 0 \notin Sends /\ Elements(b.pending) \subseteq Sends
         /\ \A i \in 1 .. Len(b.turns) :
              /\ b.turns[i].no \in Nat /\ b.turns[i].opener \in Sends \cup {0}
              /\ b.turns[i].runs \subseteq Runs
  <1>1. /\ b.turn \in Nat /\ b.opener \in Sends \cup {0} /\ b.count \in Nat
        /\ b.pending \in Seq(Sends) /\ b.turns \in Seq(PublicTurn)
        /\ b.watched \in BOOLEAN /\ b.paused \in BOOLEAN
    BY DEF Board
  <1>2. Elements(b.pending) \subseteq Sends
    BY <1>1 DEF Elements
  <1>3. ASSUME NEW i \in 1 .. Len(b.turns)
        PROVE  /\ b.turns[i].no \in Nat /\ b.turns[i].opener \in Sends \cup {0}
               /\ b.turns[i].runs \subseteq Runs
    <2>1. b.turns[i] \in PublicTurn
      BY <1>1
    <2> QED BY <2>1 DEF PublicTurn
  <1> QED BY <1>1, <1>2, <1>3 DEF Sends

(* A turn shown: the one that was private, or one started for it. *)
LEMMA Showing ==
  ASSUME NEW b, Good(b), NEW c \in Board, NEW S,
         c.turn # 0, c.turn <= c.count, b.count <= c.count,
         \A i \in 1 .. Len(b.turns) : b.turns[i].no # c.turn,
         c.turns = Append(b.turns, [no |-> c.turn, opener |-> c.opener, runs |-> {}]),
         Distinct(c.pending), c.opener \in Held(b) \cup {0}, c.opener \notin Elements(c.pending),
         Elements(c.pending) \subseteq Held(b),
         \A s \in Held(b) : s \in Elements(c.pending) \/ s = c.opener \/ s \in S
  PROVE  Moves(b, c, S) /\ Public(c) /\ Fresh(b, c)
  <1> DEFINE t == [no |-> c.turn, opener |-> c.opener, runs |-> {}]
             n == Len(b.turns)
  <1>1. b \in Board /\ Numbered(b) /\ Kept(b)
    BY DEF Good
  <1>2. /\ b.turns \in Seq(PublicTurn) /\ n \in Nat /\ c.turns \in Seq(PublicTurn)
        /\ c.turn \in Nat /\ c.count \in Nat /\ b.count \in Nat
        /\ \A i \in 1 .. n : b.turns[i].no \in Nat
    BY <1>1, BoardParts
  <1>3. /\ Len(c.turns) = n + 1 /\ c.turns[n + 1] = t
        /\ \A i \in 1 .. n : c.turns[i] = b.turns[i]
    BY <1>2
  <1>4. t.no = c.turn /\ t.opener = c.opener /\ t.runs = {}
    OBVIOUS
  <1> HIDE DEF t, n
  <1>5. /\ \A i \in 1 .. Len(c.turns) : i \in 1 .. n \/ i = n + 1
        /\ \A i \in 1 .. n : i \in 1 .. Len(c.turns)
        /\ n + 1 \in 1 .. Len(c.turns)
    BY <1>2, <1>3
  <1>6. Public(c)
    BY <1>3, <1>4, <1>5 DEF Public, Shown
  <1>7. Numbered(c)
    <2>1. \A i \in 1 .. Len(c.turns) : c.turns[i].no \in 1 .. c.count
      <3>1. c.turn \in 1 .. c.count
        BY <1>2
      <3>2. \A i \in 1 .. n : b.turns[i].no \in 1 .. c.count
        BY <1>1, <1>2 DEF Numbered, n
      <3> QED BY <1>3, <1>4, <1>5, <3>1, <3>2
    <2>2. \A i \in 1 .. Len(c.turns) :
            c.turns[i].no = c.turn => i = Len(c.turns) /\ c.turns[i].opener = c.opener
      BY <1>3, <1>4, <1>5 DEF n
    <2> QED BY <1>6, <2>1, <2>2 DEF Numbered, Public, Private
  <1>8. Held(c) = Elements(c.pending)
    BY <1>6 DEF Held, Public, Private
  <1>9. Shows(c) = Shows(b) \cup {c.opener}
    BY <1>3, <1>4, <1>5 DEF Shows, n
  <1>10. Kept(c)
    <2>1. \A s \in Held(c) : s \notin Shows(c)
      BY <1>1, <1>8, <1>9 DEF Kept
    <2> QED BY <1>6, <2>1 DEF Kept, Public, Private
  <1>11. Good(c)
    BY <1>7, <1>10 DEF Good
  <1>12. Moves(b, c, S)
    <2>1. Len(c.turns) > 0 /\ Len(c.turns) \in {Len(b.turns), Len(b.turns) + 1}
      BY <1>2, <1>3 DEF n
    <2>2. \A i \in 1 .. Len(b.turns) : c.turns[i].opener = b.turns[i].opener
      BY <1>3 DEF n
    <2>3. \A s \in Held(b) : s \in Held(c) \/ (s \in S /\ Len(c.turns) > 0) \/ s \in Shows(c)
      BY <1>8, <1>9, <2>1
    <2>4. c.turns[Len(c.turns)].opener \in Held(b) \cup {0}
      BY <1>3, <1>4
    <2> QED BY <1>8, <1>11, <2>1, <2>2, <2>3, <2>4 DEF Moves
  <1>13. Fresh(b, c)
    BY <1>3, <1>4, <1>5 DEF Fresh, n
  <1> QED BY <1>6, <1>12, <1>13

(* No turn shown: inputs that were named leave. *)
LEMMA Standing ==
  ASSUME NEW b, Good(b), NEW c \in Board, NEW S,
         c.turns = b.turns, c.turn = b.turn, c.opener = b.opener, c.count = b.count,
         c.watched => b.watched, Distinct(c.pending),
         Elements(c.pending) \subseteq Elements(b.pending),
         \A s \in Elements(b.pending) : s \in Elements(c.pending) \/ (s \in S /\ Len(b.turns) > 0)
  PROVE  Moves(b, c, S) /\ Fresh(b, c) /\ (Public(c) <=> Public(b)) /\ (Private(c) <=> Private(b))
  <1>1. b \in Board /\ Numbered(b) /\ Kept(b)
    BY DEF Good
  <1>2. (Public(c) <=> Public(b)) /\ (Private(c) <=> Private(b)) /\ Shows(c) = Shows(b)
    BY DEF Public, Private, Shown, Shows
  <1>3. Held(c) \subseteq Held(b)
    BY <1>2 DEF Held
  <1>4. Numbered(c) /\ Kept(c)
    <2>1. Numbered(c)
      BY <1>1, <1>2 DEF Numbered
    <2>2. Kept(c)
      BY <1>1, <1>2, <1>3 DEF Kept
    <2> QED BY <2>1, <2>2
  <1>5. \A s \in Held(b) : s \in Held(c) \/ (s \in S /\ Len(c.turns) > 0)
    BY <1>2 DEF Held
  <1>6. Len(c.turns) \in {Len(b.turns), Len(b.turns) + 1} /\ ~(Len(c.turns) > Len(b.turns))
    BY <1>1, BoardParts
  <1>7. Moves(b, c, S)
    BY <1>3, <1>4, <1>5, <1>6 DEF Moves, Good
  <1>8. Fresh(b, c)
    BY DEF Fresh
  <1> QED BY <1>2, <1>7, <1>8

(* The live turn changes, ends, or takes output: what was shown stands. *)
Still(c, d) ==
  /\ d \in Board /\ d.pending = c.pending /\ d.count = c.count
  /\ Len(d.turns) = Len(c.turns)
  /\ \A i \in 1 .. Len(c.turns) : d.turns[i].no = c.turns[i].no /\ d.turns[i].opener = c.turns[i].opener
  /\ \/ d.turn = c.turn /\ d.opener = c.opener /\ (d.watched => c.watched)
     \/ d.turn = 0 /\ d.opener = 0 /\ ~d.watched /\ ~Private(c)

LEMMA StillMoves ==
  ASSUME NEW b, NEW c, NEW d, NEW S, Moves(b, c, S), Still(c, d)
  PROVE  Moves(b, d, S) /\ Held(d) = Held(c) /\ Shows(d) = Shows(c)
  <1>1. Good(c) /\ c \in Board /\ Numbered(c) /\ Kept(c)
    BY DEF Moves, Good
  <1>2. d \in Board /\ d.pending = c.pending /\ d.count = c.count /\ Len(d.turns) = Len(c.turns)
    BY DEF Still
  <1>3. \A i \in 1 .. Len(c.turns) : d.turns[i].no = c.turns[i].no /\ d.turns[i].opener = c.turns[i].opener
    BY DEF Still
  <1>4. Shows(d) = Shows(c)
    BY <1>2, <1>3 DEF Shows
  <1>5. CASE d.turn = c.turn /\ d.opener = c.opener /\ (d.watched => c.watched)
    <2>1. (Shown(d) <=> Shown(c)) /\ (Private(d) <=> Private(c))
      BY <1>2, <1>3, <1>5 DEF Private, Shown
    <2>2. Held(d) = Held(c)
      BY <1>2, <1>5, <2>1 DEF Held
    <2>3. Numbered(d)
      BY <1>1, <1>2, <1>3, <1>5, <2>1 DEF Numbered
    <2>4. Kept(d)
      BY <1>1, <1>2, <1>4, <1>5, <2>1, <2>2 DEF Kept
    <2>5. Good(d)
      BY <1>2, <2>3, <2>4 DEF Good
    <2> QED BY <1>2, <1>3, <1>4, <2>2, <2>5 DEF Moves
  <1>6. CASE d.turn = 0 /\ d.opener = 0 /\ ~d.watched /\ ~Private(c)
    <2>1. ~Private(d)
      BY <1>6 DEF Private
    <2>2. Held(d) = Held(c)
      BY <1>2, <1>6, <2>1 DEF Held
    <2>3. c.turn \in Nat /\ c.count \in Nat /\ \A i \in 1 .. Len(c.turns) : c.turns[i].no # 0
      BY <1>1, BoardParts DEF Numbered
    <2>4. Numbered(d)
      BY <1>1, <1>2, <1>3, <1>6, <2>1, <2>3 DEF Numbered
    <2>5. Kept(d)
      BY <1>1, <1>2, <1>4, <2>1, <2>2 DEF Kept
    <2>6. Good(d)
      BY <1>2, <2>4, <2>5 DEF Good
    <2> QED BY <1>2, <1>3, <1>4, <2>2, <2>6 DEF Moves
  <1> QED BY <1>5, <1>6 DEF Still

LEMMA NoMove ==
  ASSUME NEW b, Good(b), NEW S
  PROVE  Moves(b, b, S) /\ Fresh(b, b) /\ Tuned(b, b)
  <1>1. b \in Board /\ Kept(b)
    BY DEF Good
  <1>2. Len(b.turns) \in {Len(b.turns), Len(b.turns) + 1} /\ ~(Len(b.turns) > Len(b.turns))
    BY <1>1, BoardParts
  <1> QED BY <1>2 DEF Moves, Fresh, Tuned

LEMMA Named ==
  ASSUME NEW b, NEW c, NEW S, Moves(b, c, {})
  PROVE  Moves(b, c, S)
  BY DEF Moves

LEMMA PublishedMoves ==
  ASSUME NEW b, Good(b)
  PROVE  /\ Moves(b, Published(b), {}) /\ Fresh(b, Published(b)) /\ Tuned(b, Published(b))
         /\ Published(b).turn = b.turn /\ Published(b).opener = b.opener
         /\ ~Private(Published(b)) /\ (Public(b) => Published(b) = b)
         /\ Published(b).pending = b.pending
  <1> DEFINE c == Published(b)
             t == [no |-> b.turn, opener |-> b.opener, runs |-> {}]
  <1>1. b \in Board /\ Numbered(b) /\ Kept(b)
    BY DEF Good
  <1>2. CASE Private(b)
    <2>1. c = [b EXCEPT !.turns = Append(@, t)]
      BY <1>2 DEF Published
    <2>2. t \in PublicTurn
      BY <1>1, BoardParts DEF PublicTurn
    <2>3. /\ c.turns = Append(b.turns, t) /\ c.turn = b.turn /\ c.opener = b.opener /\ c.count = b.count
          /\ c.pending = b.pending /\ c.watched = b.watched /\ c.paused = b.paused
      BY <1>1, <2>1 DEF Board
    <2>4. c \in Board
      <3>1. Append(b.turns, t) \in Seq(PublicTurn)
        BY <1>1, <2>2, BoardParts
      <3> QED BY <1>1, <2>1, <3>1 DEF Board
    <2> HIDE DEF c
    <2>5. b.turn # 0 /\ \A i \in 1 .. Len(b.turns) : b.turns[i].no # c.turn
      BY <1>2, <2>3 DEF Private, Shown
    <2>6. /\ c.turn <= c.count /\ b.count <= c.count /\ Distinct(c.pending)
          /\ c.opener \in Held(b) \cup {0} /\ c.opener \notin Elements(c.pending)
          /\ Elements(c.pending) \subseteq Held(b)
          /\ \A s \in Held(b) : s \in Elements(c.pending) \/ s = c.opener \/ s \in {}
      BY <1>1, <1>2, <2>3, BoardParts DEF Numbered, Kept, Held
    <2>7. Moves(b, c, {}) /\ Public(c) /\ Fresh(b, c)
      BY <2>3, <2>4, <2>5, <2>6, Showing
    <2>8. Tuned(b, c)
      BY <2>3 DEF Tuned
    <2> QED BY <1>2, <2>3, <2>7, <2>8 DEF Public, Private, c
  <1>3. CASE ~Private(b)
    <2>1. c = b
      BY <1>3 DEF Published
    <2> QED BY <1>3, <2>1, NoMove
  <1> QED BY <1>2, <1>3

LEMMA InFront ==
  ASSUME NEW b, Good(b), Private(b)
  PROVE  /\ BackInFront(b) \in Seq(Sends) /\ Elements(BackInFront(b)) = Held(b)
         /\ Distinct(BackInFront(b))
  <1> DEFINE p == b.pending
             q == <<b.opener>> \o p
  <1>1. /\ p \in Seq(Sends) /\ b.opener \in Sends /\ b.opener \notin Elements(p) /\ Distinct(p)
        /\ Len(p) \in Nat
    BY BoardParts DEF Good, Numbered, Kept
  <1>2. BackInFront(b) = q
    BY DEF BackInFront, Good, Numbered
  <1>3. /\ q \in Seq(Sends) /\ Len(q) = Len(p) + 1 /\ q[1] = b.opener
        /\ \A i \in 2 .. Len(p) + 1 : q[i] = p[i - 1]
    BY <1>1
  <1> HIDE DEF p, q
  <1>4. /\ \A i \in 1 .. Len(q) : i = 1 \/ i \in 2 .. Len(p) + 1
        /\ \A i \in 2 .. Len(p) + 1 : i - 1 \in 1 .. Len(p)
        /\ \A i \in 1 .. Len(p) : i + 1 \in 2 .. Len(p) + 1 /\ i + 1 \in 1 .. Len(q) /\ i + 1 - 1 = i
        /\ 1 \in 1 .. Len(q)
    BY <1>1, <1>3
  <1>5. Elements(q) = Elements(p) \cup {b.opener}
    <2>1. ASSUME NEW s \in Elements(q) PROVE s \in Elements(p) \cup {b.opener}
      <3>1. PICK i \in 1 .. Len(q) : s = q[i]
        BY DEF Elements
      <3> QED BY <1>3, <1>4, <3>1 DEF Elements
    <2>2. ASSUME NEW s \in Elements(p) PROVE s \in Elements(q)
      <3>1. PICK i \in 1 .. Len(p) : s = p[i]
        BY DEF Elements
      <3>2. q[i + 1] = p[i] /\ i + 1 \in 1 .. Len(q)
        BY <1>3, <1>4
      <3> QED BY <3>1, <3>2 DEF Elements
    <2>3. b.opener \in Elements(q)
      BY <1>3, <1>4 DEF Elements
    <2> QED BY <2>1, <2>2, <2>3
  <1>6. Distinct(q)
    <2> SUFFICES ASSUME NEW i \in 1 .. Len(q), NEW j \in 1 .. Len(q), q[i] = q[j] PROVE i = j
      BY DEF Distinct
    <2>1. \A k \in 2 .. Len(p) + 1 : q[k] \in Elements(p) /\ q[k] # b.opener
      BY <1>1, <1>3, <1>4 DEF Elements
    <2>2. CASE i = 1 \/ j = 1
      BY <1>3, <1>4, <2>1, <2>2
    <2>3. CASE i # 1 /\ j # 1
      <3>1. p[i - 1] = p[j - 1] /\ i - 1 \in 1 .. Len(p) /\ j - 1 \in 1 .. Len(p)
        BY <1>3, <1>4, <2>3
      <3>2. i - 1 = j - 1
        BY <1>1, <3>1 DEF Distinct
      <3> QED BY <3>2
    <2> QED BY <2>2, <2>3
  <1>7. Held(b) = Elements(p) \cup {b.opener}
    BY DEF Held, p
  <1> QED BY <1>2, <1>3, <1>5, <1>6, <1>7

LEMMA UntaggedMoves ==
  ASSUME NEW b, Good(b)
  PROVE  /\ Moves(b, Untagged(b), {}) /\ Fresh(b, Untagged(b)) /\ Tuned(b, Untagged(b))
         /\ Untagged(b).turn = b.turn /\ ~Private(Untagged(b))
         /\ (Public(b) => Untagged(b) = b) /\ (Private(b) => Untagged(b).opener = 0)
  <1>1. b \in Board /\ Numbered(b) /\ Kept(b)
    BY DEF Good
  <1>2. CASE Private(b)
    <2> DEFINE a == [b EXCEPT !.pending = BackInFront(b), !.opener = 0]
               c == Untagged(b)
               t == [no |-> b.turn, opener |-> 0, runs |-> {}]
    <2>1. /\ BackInFront(b) \in Seq(Sends) /\ Elements(BackInFront(b)) = Held(b)
          /\ Distinct(BackInFront(b))
      BY <1>2, InFront
    <2>2. /\ a \in Board /\ a.turn = b.turn /\ a.turns = b.turns /\ a.opener = 0 /\ a.count = b.count
          /\ a.pending = BackInFront(b) /\ a.watched = b.watched /\ a.paused = b.paused
      BY <1>1, <2>1 DEF Board
    <2> HIDE DEF a
    <2>3. Private(a) /\ c = [a EXCEPT !.turns = Append(@, t)]
      BY <1>2, <2>2 DEF Untagged, Published, Private, Shown, a
    <2>4. t \in PublicTurn /\ b.turn \in Nat
      BY <1>1, BoardParts DEF PublicTurn
    <2>5. /\ c.turns = Append(b.turns, t) /\ c.turn = b.turn /\ c.opener = 0 /\ c.count = b.count
          /\ c.pending = BackInFront(b) /\ c.watched = b.watched /\ c.paused = b.paused
      BY <2>2, <2>3 DEF Board
    <2>6. c \in Board
      <3>1. Append(b.turns, t) \in Seq(PublicTurn)
        BY <1>1, <2>4, BoardParts
      <3> QED BY <2>2, <2>3, <3>1 DEF Board
    <2> HIDE DEF c
    <2>7. c.turn # 0 /\ \A i \in 1 .. Len(b.turns) : b.turns[i].no # c.turn
      BY <1>2, <2>5 DEF Private, Shown
    <2>8. /\ c.turn <= c.count /\ b.count <= c.count /\ Distinct(c.pending)
          /\ c.opener \in Held(b) \cup {0} /\ c.opener \notin Elements(c.pending)
          /\ Elements(c.pending) \subseteq Held(b)
          /\ \A s \in Held(b) : s \in Elements(c.pending) \/ s = c.opener \/ s \in {}
      <3>1. Held(b) \subseteq Sends /\ 0 \notin Sends
        BY <1>1, <1>2, BoardParts DEF Held, Numbered
      <3> QED BY <1>1, <2>1, <2>5, <3>1, BoardParts DEF Numbered
    <2>9. Moves(b, c, {}) /\ Public(c) /\ Fresh(b, c)
      BY <2>5, <2>6, <2>7, <2>8, Showing
    <2>10. Tuned(b, c)
      BY <2>5 DEF Tuned
    <2> QED BY <1>2, <2>5, <2>9, <2>10 DEF Public, Private, c
  <1>3. CASE ~Private(b)
    <2>1. Untagged(b) = b
      BY <1>3 DEF Untagged
    <2> QED BY <1>3, <2>1, NoMove
  <1> QED BY <1>2, <1>3

(* A turn started and shown at once, for an input that waited or for none. *)
Opening(b, q, o) ==
  [turn |-> b.count + 1, opener |-> o, count |-> b.count + 1, pending |-> q, turns |-> b.turns,
   watched |-> TRUE, paused |-> FALSE]

LEMMA SameBoard ==
  ASSUME NEW b \in Board, NEW c \in Board, b.turn = c.turn, b.opener = c.opener, b.count = c.count,
         b.pending = c.pending, b.turns = c.turns, b.watched = c.watched, b.paused = c.paused
  PROVE  b = c
  <1>1. b = [turn |-> b.turn, opener |-> b.opener, count |-> b.count, pending |-> b.pending,
             turns |-> b.turns, watched |-> b.watched, paused |-> b.paused]
    BY DEF Board
  <1>2. c = [turn |-> c.turn, opener |-> c.opener, count |-> c.count, pending |-> c.pending,
             turns |-> c.turns, watched |-> c.watched, paused |-> c.paused]
    BY DEF Board
  <1> QED BY <1>1, <1>2

Starting(x, o) ==
  [x EXCEPT !.turn = x.count + 1, !.count = @ + 1, !.opener = o, !.watched = TRUE, !.paused = FALSE]

LEMMA OpeningStarts ==
  ASSUME NEW b \in Board, NEW q \in Seq(Sends), NEW o \in Sends \cup {0}, NEW x,
         x = [b EXCEPT !.pending = q]
  PROVE  Starting(x, o) = Opening(b, q, o) /\ Opening(b, q, o) \in Board
  <1> DEFINE e == [x EXCEPT !.turn = x.count + 1, !.count = @ + 1, !.opener = o,
                            !.watched = TRUE, !.paused = FALSE]
  <1>1. x \in Board /\ x.pending = q /\ x.count = b.count /\ x.turns = b.turns /\ b.count \in Nat
    BY DEF Board
  <1>2. /\ e \in Board /\ e.turn = b.count + 1 /\ e.count = b.count + 1 /\ e.opener = o
        /\ e.pending = q /\ e.turns = b.turns /\ e.watched = TRUE /\ e.paused = FALSE
    <2> DEFINE k == x.count + 1
    <2>1. k \in Nat /\ k = b.count + 1 /\ x \in Board
      BY <1>1
    <2>2. e = [x EXCEPT !.turn = k, !.count = k, !.opener = o, !.watched = TRUE, !.paused = FALSE]
      OBVIOUS
    <2> HIDE DEF k, e
    <2>3. e \in Board
      BY <2>1, <2>2 DEF Board
    <2>4. /\ e.turn = k /\ e.count = k /\ e.opener = o /\ e.watched = TRUE /\ e.paused = FALSE
          /\ e.pending = x.pending /\ e.turns = x.turns
      BY <2>1, <2>2 DEF Board
    <2> QED BY <1>1, <2>1, <2>3, <2>4
  <1>3. Opening(b, q, o) \in Board
    BY <1>1, BoardParts DEF Board, Opening
  <1> HIDE DEF e
  <1>4. e = Opening(b, q, o)
    BY <1>2, <1>3, SameBoard DEF Opening
  <1> QED BY <1>3, <1>4 DEF e, Starting

LEMMA OpenedMoves ==
  ASSUME NEW b, Good(b), b.turn = 0, ~Closed, NEW S, NEW q \in Seq(Sends), Distinct(q),
         NEW o \in Held(b) \cup {0}, o \notin Elements(q), Elements(q) \subseteq Held(b),
         \A s \in Held(b) : s \in Elements(q) \/ s = o \/ s \in S,
         NEW d, d = Published(Opening(b, q, o))
  PROVE  /\ Moves(b, d, S) /\ Fresh(b, d) /\ Tuned(b, d) /\ Public(d) /\ d.opener = o
         /\ d.turn # 0
  <1> DEFINE c == Opening(b, q, o)
             t == [no |-> c.turn, opener |-> c.opener, runs |-> {}]
  <1>1. b \in Board /\ Numbered(b) /\ Kept(b) /\ b.count \in Nat /\ b.turns \in Seq(PublicTurn)
    BY BoardParts DEF Good
  <1>2. o \in Sends \cup {0}
    BY <1>1, BoardParts DEF Held, Private
  <1>3. /\ c \in Board /\ c.turn = b.count + 1 /\ c.count = b.count + 1 /\ c.opener = o
        /\ c.pending = q /\ c.turns = b.turns /\ c.watched = TRUE /\ c.paused = FALSE
    <2>1. c \in Board
      BY <1>1, <1>2, OpeningStarts
    <2> QED BY <2>1 DEF Opening
  <1> HIDE DEF c
  <1>4. c.turn # 0 /\ \A i \in 1 .. Len(b.turns) : b.turns[i].no # c.turn
    BY <1>1, <1>3 DEF Numbered
  <1>5. Private(c)
    BY <1>3, <1>4 DEF Private, Shown
  <1>6. d = [c EXCEPT !.turns = Append(@, t)]
    BY <1>5 DEF Published, c
  <1>7. t \in PublicTurn /\ Append(b.turns, t) \in Seq(PublicTurn)
    BY <1>1, <1>2, <1>3 DEF PublicTurn
  <1>8. /\ d \in Board /\ d.turns = Append(b.turns, t) /\ d.turn = c.turn /\ d.count = c.count
        /\ d.opener = o /\ d.pending = q /\ d.watched = TRUE /\ d.paused = FALSE
    <2> DEFINE ts == Append(b.turns, t)
    <2>1. ts \in Seq(PublicTurn) /\ ts = Append(c.turns, t)
      BY <1>3, <1>7
    <2> HIDE DEF ts
    <2>2. c \in Board /\ d = [c EXCEPT !.turns = ts]
      BY <1>3, <1>6, <2>1
    <2>3. d \in Board /\ d.turns = ts
      BY ONLY <2>1, <2>2 DEF Board
    <2>4. /\ d.turn = c.turn /\ d.count = c.count /\ d.opener = c.opener /\ d.pending = c.pending
          /\ d.watched = c.watched /\ d.paused = c.paused
      BY ONLY <2>2 DEF Board
    <2> QED BY <1>3, <2>3, <2>4 DEF ts
  <1>9. d.turns = Append(b.turns, [no |-> d.turn, opener |-> d.opener, runs |-> {}])
    BY <1>3, <1>8
  <1>10. d.turn # 0 /\ d.turn <= d.count /\ b.count <= d.count
    BY <1>1, <1>3, <1>8
  <1>11. Moves(b, d, S) /\ Public(d) /\ Fresh(b, d)
    <2>1. /\ Good(b) /\ d \in Board /\ d.turn # 0 /\ d.turn <= d.count /\ b.count <= d.count
          /\ \A i \in 1 .. Len(b.turns) : b.turns[i].no # d.turn
      BY <1>4, <1>8, <1>10
    <2>2. /\ Distinct(d.pending) /\ d.opener \in Held(b) \cup {0} /\ d.opener \notin Elements(d.pending)
          /\ Elements(d.pending) \subseteq Held(b)
          /\ \A s \in Held(b) : s \in Elements(d.pending) \/ s = d.opener \/ s \in S
      BY <1>8
    <2> QED BY ONLY <1>9, <2>1, <2>2, Showing
  <1>12. Tuned(b, d)
    BY <1>10, <1>8 DEF Tuned
  <1> QED BY <1>8, <1>10, <1>11, <1>12

LEMMA ForOutputMoves ==
  ASSUME NEW b, Good(b)
  PROVE  /\ Moves(b, ForOutput(b), {}) /\ Fresh(b, ForOutput(b)) /\ Tuned(b, ForOutput(b))
         /\ Tagged(b, ForOutput(b), {}) /\ ~Private(ForOutput(b))
         /\ (Public(b) => ForOutput(b) = b) /\ (~Closed => Public(ForOutput(b)))
  <1> DEFINE d == ForOutput(b)
  <1>0. b \in Board /\ Distinct(b.pending) /\ b.pending \in Seq(Sends) /\ Elements(b.pending) \subseteq Sends
        /\ 0 \notin Sends
    BY BoardParts DEF Good, Kept
  <1>1. CASE b.turn = 0 /\ ~Closed
    <2>1. [b EXCEPT !.pending = b.pending] = b
      BY <1>0 DEF Board
    <2>2. d = Published(Opening(b, b.pending, 0))
      <3>1. b = [b EXCEPT !.pending = b.pending]
        BY <2>1
      <3>2. Starting(b, 0) = Opening(b, b.pending, 0)
        <4>1. b \in Board /\ b.pending \in Seq(Sends) /\ 0 \in Sends \cup {0}
          BY <1>0
        <4> QED BY ONLY <3>1, <4>1, OpeningStarts
      <3> QED BY <1>1, <3>2 DEF ForOutput, Started, Starting
    <2>3. Held(b) = Elements(b.pending)
      BY <1>1 DEF Held, Private
    <2>4. /\ 0 \in Held(b) \cup {0} /\ 0 \notin Elements(b.pending) /\ Elements(b.pending) \subseteq Held(b)
          /\ \A s \in Held(b) : s \in Elements(b.pending) \/ s = 0 \/ s \in {}
      BY <1>0, <2>3
    <2> HIDE DEF d
    <2>5. /\ Moves(b, d, {}) /\ Fresh(b, d) /\ Tuned(b, d) /\ Public(d) /\ d.opener = 0
      <3>1. Good(b) /\ b.turn = 0 /\ ~Closed /\ b.pending \in Seq(Sends) /\ Distinct(b.pending)
        BY <1>0, <1>1
      <3> QED BY ONLY <2>2, <2>4, <3>1, OpenedMoves
    <2>6. ~Private(d) /\ ~Public(b) /\ Tagged(b, d, {})
      BY <1>1, <2>5 DEF Private, Public, Tagged
    <2> QED BY <2>5, <2>6 DEF d
  <1>2. CASE ~(b.turn = 0 /\ ~Closed)
    <2>1. d = Untagged(b)
      BY <1>2 DEF ForOutput
    <2>2. /\ Moves(b, d, {}) /\ Fresh(b, d) /\ Tuned(b, d) /\ d.turn = b.turn /\ ~Private(d)
          /\ (Public(b) => d = b) /\ (Private(b) => d.opener = 0)
      BY <2>1, UntaggedMoves
    <2>3. Public(d) => Public(b) \/ Private(b)
      BY <2>2 DEF Public, Private
    <2>4. ~Closed => Public(d)
      BY <1>2, <2>2 DEF Public, Private
    <2>5. Tagged(b, d, {})
      BY <2>2, <2>3 DEF Tagged
    <2> QED BY <2>2, <2>4, <2>5
  <1> QED BY <1>1, <1>2

(* The input a record names first is one of those that wait. *)
LEMMA FirstOfNamed ==
  ASSUME NEW q \in Seq(Sends), NEW S \in SUBSET Sends, FirstNamed(q, S) # 0
  PROVE  FirstNamed(q, S) \in Elements(q) /\ FirstNamed(q, S) \in S
  <1> DEFINE w == Without(q, Sends \ S)
  <1>1. w \in Seq(Sends) /\ Elements(w) = Elements(q) \ (Sends \ S)
    BY Filtered
  <1>2. w # <<>> /\ FirstNamed(q, S) = Head(w)
    BY DEF FirstNamed
  <1>3. Head(w) \in Elements(w) /\ Head(w) \in Sends
    <2>1. Head(w) = w[1] /\ 1 \in 1 .. Len(w)
      BY <1>1, <1>2
    <2> QED BY <1>1, <1>2, <2>1 DEF Elements
  <1> QED BY <1>1, <1>2, <1>3

LEMMA CorrelatedMoves ==
  ASSUME NEW b, Good(b), NEW S \in SUBSET Sends
  PROVE  /\ Moves(b, Correlated(b, S), S) /\ Fresh(b, Correlated(b, S))
         /\ Tuned(b, Correlated(b, S)) /\ Tagged(b, Correlated(b, S), S)
         /\ (Public(Correlated(b, S)) \/ Correlated(b, S) = b)
  <1> DEFINE d == Correlated(b, S)
             p == b.pending
             chosen == FirstNamed(p, S)
             rest == Without(p, S)
  <1>1. /\ b \in Board /\ Numbered(b) /\ Kept(b) /\ p \in Seq(Sends) /\ Distinct(p)
        /\ Elements(p) \subseteq Sends /\ 0 \notin Sends /\ 0 \notin S
    BY BoardParts DEF Good, Kept
  <1>2. /\ rest \in Seq(Sends) /\ Elements(rest) = Elements(p) \ S /\ Distinct(rest)
    BY <1>1, Filtered
  <1>3. chosen # 0 => chosen \in Elements(p) /\ chosen \in S
    BY <1>1, FirstOfNamed
  <1> HIDE DEF chosen, rest
  <1>4. CASE Private(b) /\ b.opener \in S
    <2> DEFINE a == [b EXCEPT !.pending = rest]
               t == [no |-> a.turn, opener |-> a.opener, runs |-> {}]
    <2>1. /\ a \in Board /\ a.turn = b.turn /\ a.turns = b.turns /\ a.opener = b.opener
          /\ a.count = b.count /\ a.pending = rest /\ a.watched = b.watched /\ a.paused = b.paused
      BY <1>1, <1>2 DEF Board
    <2> HIDE DEF a
    <2>2. Private(a) /\ d = [a EXCEPT !.turns = Append(@, t)]
      BY <1>4, <2>1 DEF Correlated, Published, Private, Shown, a, rest
    <2>3. t \in PublicTurn /\ Append(b.turns, t) \in Seq(PublicTurn)
      <3>1. /\ b.turn \in Nat /\ b.opener \in Sends \cup {0} /\ b.turns \in Seq(PublicTurn)
        BY <1>1, BoardParts
      <3>2. t \in PublicTurn
        BY <3>1, <2>1 DEF PublicTurn
      <3> QED BY <3>1, <3>2
    <2>4. /\ d \in Board /\ d.turns = Append(b.turns, t) /\ d.turn = b.turn /\ d.opener = b.opener
          /\ d.count = b.count /\ d.pending = rest /\ d.watched = b.watched /\ d.paused = b.paused
      BY <2>1, <2>2, <2>3 DEF Board
    <2>5. d.turns = Append(b.turns, [no |-> d.turn, opener |-> d.opener, runs |-> {}])
      BY <2>1, <2>4
    <2> HIDE DEF d, t
    <2>6. /\ Good(b) /\ d \in Board /\ d.turn # 0 /\ d.turn <= d.count /\ b.count <= d.count
          /\ \A i \in 1 .. Len(b.turns) : b.turns[i].no # d.turn
      BY <1>1, <1>4, <2>4, BoardParts DEF Private, Shown, Numbered
    <2>7. /\ Distinct(d.pending) /\ d.opener \in Held(b) \cup {0} /\ d.opener \notin Elements(d.pending)
          /\ Elements(d.pending) \subseteq Held(b)
          /\ \A s \in Held(b) : s \in Elements(d.pending) \/ s = d.opener \/ s \in S
      BY <1>1, <1>2, <1>4, <2>4 DEF Held
    <2>8. Moves(b, d, S) /\ Public(d) /\ Fresh(b, d)
      BY ONLY <2>5, <2>6, <2>7, Showing
    <2>9. Tuned(b, d) /\ Tagged(b, d, S)
      BY <1>4, <2>4 DEF Tuned, Tagged
    <2> QED BY <2>8, <2>9 DEF d
  <1>5. CASE Private(b) /\ b.opener \notin S /\ chosen # 0
    <2> DEFINE back == Without(BackInFront(b), S)
               a == [b EXCEPT !.pending = back, !.opener = chosen]
               t == [no |-> a.turn, opener |-> a.opener, runs |-> {}]
    <2>0. /\ back \in Seq(Sends) /\ Elements(back) = Held(b) \ S /\ Distinct(back)
      BY <1>5, InFront, Filtered
    <2>1. chosen \in Sends /\ chosen \in S /\ chosen \in Held(b)
      BY <1>1, <1>3, <1>5 DEF Held
    <2> HIDE DEF back
    <2>2. /\ a \in Board /\ a.turn = b.turn /\ a.turns = b.turns /\ a.opener = chosen
          /\ a.count = b.count /\ a.pending = back /\ a.watched = b.watched /\ a.paused = b.paused
      BY <1>1, <2>0, <2>1 DEF Board
    <2> HIDE DEF a
    <2>3. Private(a) /\ d = [a EXCEPT !.turns = Append(@, t)]
      BY <1>5, <2>2 DEF Correlated, Published, Private, Shown, a, back, chosen
    <2>4. t \in PublicTurn /\ Append(b.turns, t) \in Seq(PublicTurn)
      <3>1. /\ b.turn \in Nat /\ b.opener \in Sends \cup {0} /\ b.turns \in Seq(PublicTurn)
        BY <1>1, BoardParts
      <3>2. t \in PublicTurn
        BY <3>1, <2>1, <2>2 DEF PublicTurn
      <3> QED BY <3>1, <3>2
    <2>5. /\ d \in Board /\ d.turns = Append(b.turns, t) /\ d.turn = b.turn /\ d.opener = chosen
          /\ d.count = b.count /\ d.pending = back /\ d.watched = b.watched /\ d.paused = b.paused
      BY <2>2, <2>3, <2>4 DEF Board
    <2>6. d.turns = Append(b.turns, [no |-> d.turn, opener |-> d.opener, runs |-> {}])
      BY <2>2, <2>5
    <2> HIDE DEF d, t
    <2>7. /\ Good(b) /\ d \in Board /\ d.turn # 0 /\ d.turn <= d.count /\ b.count <= d.count
          /\ \A i \in 1 .. Len(b.turns) : b.turns[i].no # d.turn
      BY <1>1, <1>5, <2>5, BoardParts DEF Private, Shown, Numbered
    <2>8. /\ Distinct(d.pending) /\ d.opener \in Held(b) \cup {0} /\ d.opener \notin Elements(d.pending)
          /\ Elements(d.pending) \subseteq Held(b)
          /\ \A s \in Held(b) : s \in Elements(d.pending) \/ s = d.opener \/ s \in S
      BY <2>0, <2>1, <2>5
    <2>9. Moves(b, d, S) /\ Public(d) /\ Fresh(b, d)
      BY ONLY <2>6, <2>7, <2>8, Showing
    <2>10. Tuned(b, d) /\ Tagged(b, d, S)
      BY <2>1, <2>5 DEF Tuned, Tagged
    <2> QED BY <2>9, <2>10 DEF d
  <1>6. CASE Public(b)
    <2>1. ~Private(b) /\ d = [b EXCEPT !.pending = rest]
      BY <1>6 DEF Correlated, Public, Private, rest
    <2>2. /\ d \in Board /\ d.turn = b.turn /\ d.turns = b.turns /\ d.opener = b.opener
          /\ d.count = b.count /\ d.pending = rest /\ d.watched = b.watched /\ d.paused = b.paused
      BY <1>1, <1>2, <2>1 DEF Board
    <2>3. Len(b.turns) > 0
      BY <1>1, <1>6, BoardParts DEF Public, Shown
    <2> HIDE DEF d
    <2>4. /\ Good(b) /\ d \in Board /\ Distinct(d.pending) /\ (d.watched => b.watched)
          /\ Elements(d.pending) \subseteq Elements(b.pending)
          /\ \A s \in Elements(b.pending) : s \in Elements(d.pending) \/ (s \in S /\ Len(b.turns) > 0)
      BY <1>1, <1>2, <2>2, <2>3
    <2>5. Moves(b, d, S) /\ Fresh(b, d) /\ (Public(d) <=> Public(b))
      BY <2>2, <2>4, Standing
    <2>6. Tuned(b, d) /\ Tagged(b, d, S)
      BY <1>6, <2>2 DEF Tuned, Tagged
    <2> QED BY <1>6, <2>5, <2>6 DEF d
  <1>7. CASE b.turn = 0 /\ ~Closed /\ chosen # 0
    <2> DEFINE x == [b EXCEPT !.pending = rest]
    <2>1. chosen \in Sends /\ chosen \in S /\ chosen \in Held(b) /\ Held(b) = Elements(p)
      BY <1>1, <1>3, <1>7 DEF Held, Private
    <2>2. Starting(x, chosen) = Opening(b, rest, chosen)
      BY <1>1, <1>2, <2>1, OpeningStarts
    <2>3. ~Private(b) /\ ~Public(b)
      BY <1>7 DEF Private, Public
    <2>4. Started(x, chosen) = Starting(x, chosen)
      BY <1>7 DEF Started, Starting
    <2> HIDE DEF x
    <2>5. d = Published(Opening(b, rest, chosen))
      BY <1>7, <2>2, <2>3, <2>4 DEF Correlated, x, rest, chosen
    <2>6. /\ Good(b) /\ b.turn = 0 /\ ~Closed /\ rest \in Seq(Sends) /\ Distinct(rest)
          /\ chosen \in Held(b) \cup {0} /\ chosen \notin Elements(rest) /\ Elements(rest) \subseteq Held(b)
          /\ \A s \in Held(b) : s \in Elements(rest) \/ s = chosen \/ s \in S
      BY <1>2, <1>7, <2>1
    <2> HIDE DEF d
    <2>7. /\ Moves(b, d, S) /\ Fresh(b, d) /\ Tuned(b, d) /\ Public(d) /\ d.opener = chosen
      BY ONLY <2>5, <2>6, OpenedMoves
    <2> QED BY <2>1, <2>7 DEF Tagged, d
  <1>8. CASE /\ ~(Private(b) /\ b.opener \in S) /\ ~(Private(b) /\ b.opener \notin S /\ chosen # 0)
             /\ ~Public(b) /\ ~(b.turn = 0 /\ ~Closed /\ chosen # 0)
    <2>1. d = b
      BY <1>8 DEF Correlated, chosen, rest
    <2> QED BY <1>8, <2>1, NoMove DEF Tagged
  <1> QED BY <1>4, <1>5, <1>6, <1>7, <1>8

LEMMA LandedStill ==
  ASSUME NEW c, Good(c), NEW n \in Runs
  PROVE  /\ Still(c, Landed(c, n)) /\ Landed(c, n).turn = c.turn /\ Landed(c, n).opener = c.opener
         /\ Landed(c, n).watched = c.watched /\ Landed(c, n).paused = c.paused
         /\ (Public(Landed(c, n)) <=> Public(c))
         /\ \A i \in 1 .. Len(c.turns) :
              \/ Landed(c, n).turns[i].runs = c.turns[i].runs
              \/ /\ Public(c) /\ c.turns[i].no = c.turn
                 /\ Landed(c, n).turns[i].runs = c.turns[i].runs \cup {n}
  <1> DEFINE d == Landed(c, n)
  <1>1. c \in Board /\ Numbered(c)
    BY DEF Good
  <1>2. CASE Public(c)
    <2> DEFINE l == Len(c.turns)
               e == [c.turns[l] EXCEPT !.runs = @ \cup {n}]
               ts == [c.turns EXCEPT ![l] = e]
    <2>1. PICK k \in 1 .. Len(c.turns) : c.turns[k].no = c.turn
      BY <1>2 DEF Public, Shown
    <2>2. k = l /\ l \in 1 .. Len(c.turns) /\ c.turns[l].no = c.turn
      BY <1>1, <2>1 DEF Numbered
    <2>3. c.turns \in Seq(PublicTurn) /\ c.turns[l] \in PublicTurn
      BY <1>1, <2>2, BoardParts
    <2>4. /\ e \in PublicTurn /\ e.no = c.turns[l].no /\ e.opener = c.turns[l].opener
          /\ e.runs = c.turns[l].runs \cup {n}
      BY <2>3 DEF PublicTurn
    <2>5. d = [c EXCEPT !.turns = ts]
      BY <1>2 DEF Landed
    <2> HIDE DEF e
    <2>6. /\ ts \in Seq(PublicTurn) /\ Len(ts) = Len(c.turns) /\ ts[l] = e
          /\ \A i \in 1 .. Len(c.turns) : i # l => ts[i] = c.turns[i]
      BY <2>2, <2>3, <2>4
    <2> HIDE DEF ts
    <2>7. /\ d \in Board /\ d.turns = ts /\ d.turn = c.turn /\ d.opener = c.opener /\ d.count = c.count
          /\ d.pending = c.pending /\ d.watched = c.watched /\ d.paused = c.paused
      BY <1>1, <2>5, <2>6 DEF Board
    <2> HIDE DEF d
    <2>8. \A i \in 1 .. Len(c.turns) : d.turns[i].no = c.turns[i].no /\ d.turns[i].opener = c.turns[i].opener
      BY <2>4, <2>6, <2>7
    <2>9. Still(c, d)
      BY <2>6, <2>7, <2>8 DEF Still
    <2>10. Public(d) <=> Public(c)
      BY <2>6, <2>7, <2>8 DEF Public, Shown
    <2>11. \A i \in 1 .. Len(c.turns) :
              \/ d.turns[i].runs = c.turns[i].runs
              \/ /\ Public(c) /\ c.turns[i].no = c.turn
                 /\ d.turns[i].runs = c.turns[i].runs \cup {n}
      BY <1>2, <2>2, <2>4, <2>6, <2>7
    <2> QED BY <2>7, <2>9, <2>10, <2>11 DEF d
  <1>3. CASE ~Public(c)
    <2>1. d = c
      BY <1>3 DEF Landed
    <2> QED BY <1>1, <2>1 DEF Still
  <1> QED BY <1>2, <1>3

LEMMA OverStill ==
  ASSUME NEW c, Good(c), ~Private(c)
  PROVE  /\ Still(c, Over(c)) /\ Over(c).turn = 0 /\ Over(c).opener = 0 /\ ~Over(c).watched
         /\ Over(c).turns = c.turns /\ Over(c).pending = c.pending /\ Over(c).paused = c.paused
  <1> DEFINE d == Over(c)
  <1>1. c \in Board /\ Published(c) = c
    BY DEF Good, Published
  <1>2. d = [c EXCEPT !.turn = 0, !.opener = 0, !.watched = FALSE]
    BY <1>1 DEF Over
  <1>3. /\ d \in Board /\ d.turns = c.turns /\ d.turn = 0 /\ d.opener = 0 /\ d.count = c.count
        /\ d.pending = c.pending /\ d.watched = FALSE /\ d.paused = c.paused
    <2>1. 0 \in Nat /\ 0 \in Sends \cup {0} /\ FALSE \in BOOLEAN
      OBVIOUS
    <2> HIDE DEF d
    <2>2. d \in Board
      BY <1>1, <1>2, <2>1 DEF Board
    <2>3. d.turn = 0 /\ d.opener = 0 /\ d.watched = FALSE
      BY <1>1, <1>2 DEF Board
    <2>4. d.turns = c.turns /\ d.count = c.count /\ d.pending = c.pending /\ d.paused = c.paused
      BY <1>1, <1>2 DEF Board
    <2> QED BY <2>2, <2>3, <2>4
  <1> QED BY <1>3 DEF Still

LEMMA SyncedStill ==
  ASSUME NEW c, Good(c), NEW a
  PROVE  /\ Still(c, Synced(c, a)) /\ Synced(c, a).turns = c.turns /\ Synced(c, a).opener = c.opener
         /\ Synced(c, a).turn = c.turn /\ Synced(c, a).watched = c.watched
         /\ Synced(c, a).paused = (Waiting(a) # {}) /\ Synced(c, a).pending = c.pending
         /\ (Public(Synced(c, a)) <=> Public(c)) /\ (Private(Synced(c, a)) <=> Private(c))
  <1> DEFINE d == Synced(c, a)
             w == Waiting(a) # {}
  <1>1. c \in Board /\ d = [c EXCEPT !.paused = w] /\ w \in BOOLEAN
    BY DEF Good, Synced
  <1> HIDE DEF w
  <1>2. /\ d \in Board /\ d.turns = c.turns /\ d.turn = c.turn /\ d.opener = c.opener
        /\ d.count = c.count /\ d.pending = c.pending /\ d.watched = c.watched /\ d.paused = w
    BY <1>1 DEF Board
  <1> HIDE DEF d
  <1>3. (Public(d) <=> Public(c)) /\ (Private(d) <=> Private(c))
    BY <1>2 DEF Public, Private, Shown
  <1> QED BY <1>2, <1>3 DEF Still, d, w

(* A turn that ends is shown first. *)
LEMMA OverMoves ==
  ASSUME NEW b, Good(b)
  PROVE  /\ Moves(b, Over(b), {}) /\ Fresh(b, Over(b)) /\ Over(b).turn = 0 /\ Over(b).opener = 0
         /\ ~Over(b).watched /\ Over(b).pending = b.pending
         /\ Over(b).turns = Published(b).turns
  <1> DEFINE c == Published(b)
  <1>1. Moves(b, c, {}) /\ Fresh(b, c) /\ ~Private(c) /\ Good(c) /\ c.pending = b.pending
    BY PublishedMoves DEF Moves
  <1>2. Over(b) = Over(c)
    BY <1>1 DEF Over, Published
  <1> HIDE DEF c
  <1>3. /\ Still(c, Over(c)) /\ Over(c).turn = 0 /\ Over(c).opener = 0 /\ ~Over(c).watched
        /\ Over(c).turns = c.turns /\ Over(c).pending = c.pending
    BY <1>1, OverStill
  <1>4. Moves(b, Over(c), {})
    BY <1>1, <1>3, StillMoves
  <1>5. Fresh(b, Over(c))
    BY <1>1, <1>3 DEF Fresh
  <1> QED BY <1>1, <1>2, <1>3, <1>4, <1>5 DEF c

(* The board as a record of the run leaves it, before the output lands. *)
NamedBy(naming) == IF naming THEN inputs[run.no] ELSE {}

LEMMA AfterMoves ==
  ASSUME ClaudeInv, run.no # 0, NEW naming \in BOOLEAN
  PROVE  /\ NamedBy(naming) \in SUBSET Sends /\ run.no \in Runs
         /\ Moves(board, After(naming), NamedBy(naming)) /\ Fresh(board, After(naming))
         /\ Tuned(board, After(naming)) /\ Tagged(board, After(naming), NamedBy(naming))
         /\ (Public(After(naming)) \/ After(naming) = board) /\ Good(After(naming))
  <1>1. Good(board) /\ run.no \in Runs /\ inputs[run.no] \in SUBSET Sends
    BY DEF ClaudeInv, TypeOK, Run
  <1>2. CASE naming
    BY <1>1, <1>2, CorrelatedMoves DEF After, NamedBy, Moves
  <1>3. CASE ~naming
    BY <1>1, <1>3, NoMove DEF After, NamedBy, Tagged
  <1> QED BY <1>2, <1>3

LEMMA RecordMoves ==
  ASSUME ClaudeInv, run.no # 0, NEW naming \in BOOLEAN,
         NEW d, d = ForOutput(After(naming))
  PROVE  /\ Moves(board, d, NamedBy(naming)) /\ Fresh(board, d)
         /\ Tuned(board, d) /\ Tagged(board, d, NamedBy(naming)) /\ ~Private(d) /\ Good(d)
         /\ (~Closed => Public(d))
  <1> DEFINE c == After(naming)
             S == NamedBy(naming)
  <1>1. /\ Moves(board, c, S) /\ Fresh(board, c) /\ Tuned(board, c) /\ Tagged(board, c, S)
        /\ (Public(c) \/ c = board) /\ Good(c)
    BY AfterMoves
  <1>2. /\ Moves(c, d, {}) /\ Fresh(c, d) /\ Tuned(c, d)
        /\ Tagged(c, d, {}) /\ ~Private(d) /\ Good(d)
        /\ (Public(c) => d = c) /\ (~Closed => Public(d))
    BY <1>1, ForOutputMoves DEF Moves
  <1> HIDE DEF c, S
  <1>3. CASE Public(c)
    BY <1>1, <1>2, <1>3 DEF S
  <1>4. CASE c = board
    <2>1. Moves(board, d, S)
      BY <1>2, <1>4, Named
    <2>2. Tagged(board, d, S)
      BY <1>2, <1>4 DEF Tagged
    <2> QED BY <1>2, <1>4, <2>1, <2>2 DEF S
  <1> QED BY <1>1, <1>3, <1>4

-----------------------------------------------------------------------------
(* What a step has to show for each part of the invariant *)

(* A step that sends nothing and does not end the session. *)
Shifts ==
  /\ UNCHANGED <<sent, refused, dropped, finalized>>
  /\ attested \subseteq attested' /\ attested' \subseteq Sends
  /\ \/ board' = board
     \/ ~finalized /\ \E S \in SUBSET Sends : S \subseteq attested' /\ Moves(board, board', S)

LEMMA MovesShow ==
  ASSUME NEW b, NEW d, NEW S, Good(b), Moves(b, d, S)
  PROVE  /\ Shows(b) \subseteq Shows(d) /\ Shows(d) \subseteq Shows(b) \cup Held(b) \cup {0}
         /\ Held(d) \subseteq Held(b)
  <1>1. /\ Len(b.turns) \in Nat /\ Len(d.turns) \in Nat
        /\ Len(d.turns) \in {Len(b.turns), Len(b.turns) + 1}
        /\ \A i \in 1 .. Len(b.turns) : d.turns[i].opener = b.turns[i].opener
        /\ Len(d.turns) > Len(b.turns) => d.turns[Len(d.turns)].opener \in Held(b) \cup {0}
    BY BoardParts DEF Moves, Good
  <1>2. \A i \in 1 .. Len(b.turns) : i \in 1 .. Len(d.turns)
    BY <1>1
  <1>3. \A i \in 1 .. Len(d.turns) :
          i \in 1 .. Len(b.turns) \/ (i = Len(d.turns) /\ Len(d.turns) > Len(b.turns))
    BY <1>1
  <1>4. Shows(b) \subseteq Shows(d)
    BY <1>1, <1>2 DEF Shows
  <1>5. Shows(d) \subseteq Shows(b) \cup Held(b) \cup {0}
    BY <1>1, <1>3 DEF Shows
  <1> QED BY <1>4, <1>5 DEF Moves

LEMMA InputsKeep ==
  ASSUME ClaudeInv, Shifts, dead => dead'
  PROVE  Good(board)' /\ Inputs'
  <1>1. Good(board) /\ Inputs
    BY DEF ClaudeInv
  <1>2. UNCHANGED <<sent, refused, dropped, finalized>>
    BY DEF Shifts
  <1>3. CASE board' = board
    BY <1>1, <1>2, <1>3 DEF Inputs, Good, Numbered, Kept, Held, Shows, Private, Shown
  <1>4. CASE ~finalized /\ board' # board
    <2>1. PICK S \in SUBSET Sends : Moves(board, board', S)
      BY <1>4 DEF Shifts
    <2>2. /\ Shows(board') \subseteq Shows(board) \cup Held(board) \cup {0}
          /\ Held(board') \subseteq Held(board)
      BY <1>1, <2>1, MovesShow
    <2>3. Good(board')
      BY <2>1 DEF Moves
    <2>4. Inputs'
      BY <1>1, <1>2, <1>4, <2>2 DEF Inputs
    <2> QED BY <2>3, <2>4
  <1> QED BY <1>3, <1>4 DEF Shifts

(* The turns show the output of runs begun, and of the input's own runs. *)
LEMMA RunsKeep ==
  ASSUME ClaudeInv, NEW c, NEW S, Moves(board, c, S), Fresh(board, c),
         Len(board'.turns) = Len(c.turns),
         \A i \in 1 .. Len(c.turns) :
           /\ board'.turns[i].opener = c.turns[i].opener
           /\ \/ board'.turns[i].runs = c.turns[i].runs
              \/ /\ Public(c) /\ c.turns[i].no = c.turn /\ run.no # 0
                 /\ board'.turns[i].runs = c.turns[i].runs \cup {run.no}
                 /\ ~Walls /\ ~PipeBreakable /\ c.opener # 0 => c.opener \in inputs[run.no],
         UNCHANGED <<scope, begun, inputs>>, run'.no \in {run.no, 0},
         ~Walls /\ ~PipeBreakable /\ Public(board') /\ board'.opener # 0 =>
           run'.no # 0 /\ board'.opener \in inputs[run.no]
  PROVE  RunInv' /\ Belongs'
  <1>1. /\ RunInv /\ Belongs /\ run.no \in Nat /\ begun \in Nat /\ Good(c) /\ inputs \in [Runs -> SUBSET Sends]
    BY DEF ClaudeInv, TypeOK, Run, Runs, Moves
  <1>2. /\ \A i \in 1 .. Len(c.turns) :
             (i \in 1 .. Len(board.turns) /\ c.turns[i] = board.turns[i]) \/ c.turns[i].runs = {}
        /\ \A i \in 1 .. Len(c.turns) : c.turns[i].no = c.turn => c.turns[i].opener = c.opener
    BY <1>1 DEF Fresh, Good, Numbered
  <1>3. RunInv'
    <2>1. run'.no <= begun'
      BY <1>1 DEF RunInv
    <2>2. run.no # 0 => run.no \in 1 .. begun
      BY <1>1 DEF RunInv
    <2>3. ASSUME NEW i \in 1 .. Len(c.turns) PROVE c.turns[i].runs \subseteq 1 .. begun
      BY <1>1, <1>2 DEF RunInv
    <2>4. ASSUME NEW i \in 1 .. Len(c.turns) PROVE board'.turns[i].runs \subseteq 1 .. begun
      BY <2>2, <2>3
    <2> QED BY <2>1, <2>4 DEF RunInv
  <1>4. Belongs'
    <2> SUFFICES ASSUME ~Walls, ~PipeBreakable
                 PROVE  /\ Owned(board', inputs)
                        /\ Public(board') /\ board'.opener # 0 =>
                             run'.no # 0 /\ board'.opener \in inputs[run'.no]
      BY DEF Belongs, Walls, PipeBreakable, Owned, Public, Shown
    <2>1. Owned(c, inputs)
      BY <1>1, <1>2 DEF Belongs, Owned
    <2>2. Owned(board', inputs)
      <3> SUFFICES ASSUME NEW i \in 1 .. Len(c.turns), board'.turns[i].opener # 0,
                          NEW n \in board'.turns[i].runs
                   PROVE  board'.turns[i].opener \in inputs[n]
        BY DEF Owned
      <3>1. CASE n \in c.turns[i].runs
        BY <2>1, <3>1 DEF Owned
      <3>2. CASE n \notin c.turns[i].runs
        BY <1>2, <3>2
      <3> QED BY <3>1, <3>2
    <2>3. Public(board') /\ board'.opener # 0 => run'.no # 0 /\ board'.opener \in inputs[run'.no]
      OBVIOUS
    <2> QED BY <2>2, <2>3
  <1> QED BY <1>3, <1>4

(* Requests are waited for as before, and the clock runs as before. *)
LEMMA WaitsKeep ==
  ASSUME ClaudeInv, UNCHANGED <<ask, replied, scope>>, closing => closing', dead => dead',
         \/ /\ board'.turn = board.turn
            /\ board'.watched => board.watched /\ board'.paused = board.paused
         \/ board.turn = 0 /\ ~Closed /\ board'.turn # 0 /\ board'.paused = FALSE
  PROVE  Waits' /\ PausedWhileWaiting' /\ OneReply'
  <1>1. Waits /\ PausedWhileWaiting /\ OneReply
    BY DEF ClaudeInv
  <1>2. Closed => Closed'
    BY DEF Closed
  <1>3. OneReply'
    BY <1>1 DEF OneReply, PipeBreakable
  <1>4. Waiting(ask)' = Waiting(ask)
    BY DEF Waiting
  <1>5. CASE /\ board'.turn = board.turn
             /\ board'.watched => board.watched /\ board'.paused = board.paused
    <2>1. Waits'
      BY <1>1, <1>2, <1>4, <1>5 DEF Waits
    <2>2. PausedWhileWaiting'
      BY <1>1, <1>4, <1>5 DEF PausedWhileWaiting
    <2> QED BY <1>3, <2>1, <2>2
  <1>6. CASE board.turn = 0 /\ ~Closed /\ board'.turn # 0 /\ board'.paused = FALSE
    <2>1. Waiting(ask) = {}
      BY <1>1, <1>6 DEF Waits
    <2> QED BY <1>3, <1>4, <1>6, <2>1 DEF Waits, PausedWhileWaiting
  <1> QED BY <1>5, <1>6

-----------------------------------------------------------------------------
(* The host and the process *)

LEMMA QuietStep ==
  ASSUME ClaudeInv,
         (\E drain \in BOOLEAN : Close(drain)) \/ DrainCheck \/ CloseGrace \/ KillGrace \/ UNCHANGED vars
  PROVE  ClaudeInv' /\ Shifts
  <1>0. TypeOK /\ Good(board) /\ Inputs /\ RunInv /\ Belongs
    BY DEF ClaudeInv
  <1>1. /\ UNCHANGED <<scope, sent, refused, dropped, board, ask, replied, stalled, dead, finalized>>
        /\ UNCHANGED <<inbox, run, begun, inputs, attested>>
    BY DEF Close, DrainCheck, CloseGrace, KillGrace, vars, approvals, life, native
  <1>2. /\ closing' \in BOOLEAN /\ (closing => closing')
        /\ closer' \in {"none", "draining", "woken", "ended"} /\ signal' \in {"none", "term", "kill"}
    <2>1. /\ closing \in BOOLEAN /\ closer \in {"none", "draining", "woken", "ended"}
          /\ signal \in {"none", "term", "kill"}
      BY <1>0 DEF TypeOK
    <2>2. closing' = TRUE \/ closing' = closing
      BY DEF Close, DrainCheck, CloseGrace, KillGrace, vars, life
    <2>3. closer' = closer \/ closer' \in {"draining", "ended"}
      BY DEF Close, DrainCheck, CloseGrace, KillGrace, vars, life
    <2>4. signal' = signal \/ signal' \in {"term", "kill"}
      BY DEF Close, DrainCheck, CloseGrace, KillGrace, vars, life
    <2> QED BY <2>1, <2>2, <2>3, <2>4
  <1>3. TypeOK'
    BY <1>0, <1>1, <1>2 DEF TypeOK
  <1>4. Shifts
    BY <1>0, <1>1 DEF Shifts, TypeOK
  <1>5. Good(board)' /\ Inputs'
    BY <1>1, <1>4, InputsKeep
  <1>6. RunInv' /\ Belongs'
    BY <1>0, <1>1 DEF RunInv, Belongs, Owned, Public, Shown, Walls, PipeBreakable
  <1>7. Waits' /\ PausedWhileWaiting' /\ OneReply'
    BY <1>1, <1>2, WaitsKeep
  <1> QED BY <1>3, <1>4, <1>5, <1>6, <1>7 DEF ClaudeInv

(* A run begins, or takes up more inputs. *)
LEMMA RunStep ==
  ASSUME ClaudeInv, NEW S \in SUBSET inbox, RunStarts(S) \/ Joins(S)
  PROVE  ClaudeInv' /\ Shifts
  <1>0. /\ TypeOK /\ Good(board) /\ Inputs /\ RunInv /\ Belongs /\ S \subseteq Sends
        /\ begun \in Nat /\ run \in Run /\ scope.runs \in 0 .. MaxRuns /\ MaxRuns \in Nat
        /\ inputs \in [Runs -> SUBSET Sends] /\ MaxOutputs \in Nat
    BY BoundsAssumption, ScopesAssumption DEF ClaudeInv, TypeOK
  <1>1. /\ UNCHANGED <<scope, sent, refused, dropped, board, ask, replied, stalled, dead, finalized>>
        /\ UNCHANGED <<closing, closer, signal, attested>> /\ inbox' = inbox \ S
    BY DEF RunStarts, Joins, HostStill, approvals
  <1>2. Shifts
    BY <1>0, <1>1 DEF Shifts, TypeOK
  <1>3. Good(board)' /\ Inputs'
    BY <1>1, <1>2, InputsKeep
  <1>4. Waits' /\ PausedWhileWaiting' /\ OneReply'
    BY <1>1, WaitsKeep
  <1>5. CASE RunStarts(S)
    <2>1. /\ run.no = 0 /\ begun' = begun + 1 /\ begun' \in 1 .. MaxRuns
          /\ run' = [no |-> begun', named |-> FALSE, left |-> MaxOutputs]
          /\ inputs' = [inputs EXCEPT ![begun'] = S]
      BY <1>0, <1>5 DEF RunStarts
    <2>2. begun' \in Runs /\ inputs' \in [Runs -> SUBSET Sends] /\ run'.no = begun'
      BY <1>0, <2>1 DEF Runs
    <2>3. run' \in Run
      BY <1>0, <2>1, <2>2 DEF Run
    <2>4. TypeOK'
      BY <1>0, <1>1, <2>1, <2>2, <2>3 DEF TypeOK
    <2>5. RunInv'
      <3>1. \A n \in 1 .. begun : n \in 1 .. begun'
        BY <1>0, <2>1
      <3> QED BY <1>0, <1>1, <2>1, <2>2, <3>1 DEF RunInv
    <2>6. ASSUME NEW n \in 1 .. begun PROVE inputs'[n] = inputs[n]
      <3>1. n # begun' /\ n \in Runs
        BY <1>0, <2>1, <2>6 DEF Runs
      <3> QED BY <1>0, <2>1, <3>1
    <2>7. ASSUME ~Walls, ~PipeBreakable PROVE Owned(board', inputs')
      <3>1. Owned(board, inputs)
        BY <1>0, <2>7 DEF Belongs
      <3> SUFFICES ASSUME NEW i \in 1 .. Len(board.turns), board.turns[i].opener # 0,
                          NEW n \in board.turns[i].runs
                   PROVE  board.turns[i].opener \in inputs'[n]
        BY <1>1 DEF Owned
      <3>2. n \in 1 .. begun
        BY <1>0 DEF RunInv
      <3> QED BY <2>6, <3>1, <3>2 DEF Owned
    <2>8. ~Walls /\ ~PipeBreakable => ~(Public(board) /\ board.opener # 0)
      BY <1>0, <2>1 DEF Belongs
    <2>9. Belongs'
      BY <1>1, <2>7, <2>8 DEF Belongs, Walls, PipeBreakable, Public, Shown
    <2> QED BY <1>2, <1>3, <1>4, <2>4, <2>5, <2>9 DEF ClaudeInv
  <1>6. CASE Joins(S)
    <2>1. /\ run.no # 0 /\ inputs' = [inputs EXCEPT ![run.no] = @ \cup S] /\ UNCHANGED <<run, begun>>
      BY <1>6 DEF Joins, Going
    <2>2. run.no \in Runs /\ inputs' \in [Runs -> SUBSET Sends]
          /\ \A n \in Runs : inputs[n] \subseteq inputs'[n]
      BY <1>0, <2>1 DEF Run
    <2>3. TypeOK'
      BY <1>0, <1>1, <2>1, <2>2 DEF TypeOK
    <2>4. RunInv'
      BY <1>0, <1>1, <2>1 DEF RunInv
    <2>5. ASSUME ~Walls, ~PipeBreakable PROVE Owned(board', inputs')
      <3>1. Owned(board, inputs)
        BY <1>0, <2>5 DEF Belongs
      <3> SUFFICES ASSUME NEW i \in 1 .. Len(board.turns), board.turns[i].opener # 0,
                          NEW n \in board.turns[i].runs
                   PROVE  board.turns[i].opener \in inputs'[n]
        BY <1>1 DEF Owned
      <3>2. n \in Runs
        BY <1>0, BoardParts DEF Good
      <3>3. board.turns[i].opener \in inputs[n]
        BY <3>1 DEF Owned
      <3> QED BY <2>2, <3>2, <3>3
    <2>6. ASSUME ~Walls, ~PipeBreakable, Public(board), board.opener # 0
          PROVE  board.opener \in inputs'[run.no]
      BY <1>0, <2>2, <2>6 DEF Belongs
    <2>7. Belongs'
      BY <1>1, <2>1, <2>5, <2>6 DEF Belongs, Walls, PipeBreakable, Public, Shown
    <2> QED BY <1>2, <1>3, <1>4, <2>3, <2>4, <2>7 DEF ClaudeInv
  <1> QED BY <1>5, <1>6

LEMMA WallStep ==
  ASSUME ClaudeInv, WallRead
  PROVE  ClaudeInv' /\ Shifts
  <1>0. TypeOK /\ Good(board)
    BY DEF ClaudeInv
  <1>1. /\ UNCHANGED <<scope, sent, refused, dropped, ask, replied, closing, closer, signal>>
        /\ UNCHANGED <<stalled, dead, finalized, inbox, run, begun, inputs, attested>>
        /\ ~finalized /\ Walls /\ board' = Published(board)
    BY DEF WallRead, Awake, approvals, life, native
  <1>2. Moves(board, board', {}) /\ Fresh(board, board') /\ Tuned(board, board')
    BY <1>0, <1>1, PublishedMoves
  <1>3. Shifts
    BY <1>0, <1>1, <1>2 DEF Shifts, TypeOK
  <1>4. Good(board)' /\ Inputs'
    BY <1>1, <1>3, InputsKeep
  <1>5. TypeOK'
    BY <1>0, <1>1, <1>4 DEF TypeOK, Good
  <1>6. RunInv' /\ Belongs'
    BY <1>1, <1>2, RunsKeep
  <1>7. Waits' /\ PausedWhileWaiting' /\ OneReply'
    BY <1>1, <1>2, WaitsKeep DEF Tuned
  <1> QED BY <1>3, <1>4, <1>5, <1>6, <1>7 DEF ClaudeInv

LEMMA ExitStep ==
  ASSUME ClaudeInv, Exited
  PROVE  ClaudeInv' /\ Shifts
  <1>0. TypeOK /\ Good(board) /\ RunInv /\ Belongs /\ board \in Board
    BY DEF ClaudeInv, TypeOK
  <1>1. /\ UNCHANGED <<scope, sent, refused, dropped, ask, replied, closing, signal>>
        /\ UNCHANGED <<stalled, finalized, inbox, run, begun, inputs, attested>>
        /\ ~finalized /\ dead' = TRUE /\ board' = [board EXCEPT !.watched = FALSE]
        /\ closer' = Woken(closer)
    BY DEF Exited, Awake, approvals, life, native
  <1>2. /\ board' \in Board /\ board'.turns = board.turns /\ board'.turn = board.turn
        /\ board'.opener = board.opener /\ board'.count = board.count /\ board'.pending = board.pending
        /\ board'.watched = FALSE /\ board'.paused = board.paused
    BY <1>0, <1>1 DEF Board
  <1>3. Moves(board, board', {})
    <2>1. Moves(board, board, {})
      BY <1>0, NoMove
    <2>2. Still(board, board')
      BY <1>2 DEF Still
    <2> QED BY <2>1, <2>2, StillMoves
  <1>4. Shifts
    BY <1>0, <1>1, <1>3 DEF Shifts, TypeOK
  <1>5. Good(board)' /\ Inputs'
    BY <1>1, <1>4, InputsKeep
  <1>6. closer' \in {"none", "draining", "woken", "ended"}
    BY <1>0, <1>1 DEF Woken, TypeOK
  <1>7. TypeOK'
    BY <1>0, <1>1, <1>2, <1>6 DEF TypeOK
  <1>8. RunInv' /\ Belongs'
    BY <1>0, <1>1, <1>2 DEF RunInv, Belongs, Owned, Public, Shown, Walls, PipeBreakable
  <1>9. Waits' /\ PausedWhileWaiting' /\ OneReply'
    BY <1>1, <1>2, WaitsKeep
  <1> QED BY <1>4, <1>5, <1>7, <1>8, <1>9 DEF ClaudeInv

(* An input sent: held by a private turn, behind the others, or refused. *)
Sending(s) ==
  /\ ~finalized /\ s \in Sends /\ s = sent + 1 /\ sent' = s
  /\ UNCHANGED <<dropped, finalized, attested>>
  /\ \/ /\ refused' = refused /\ Held(board') = Held(board) \cup {s} /\ board'.turns = board.turns
     \/ /\ refused' = refused \cup {s} /\ Moves(board, board', {})

LEMMA SendStep ==
  ASSUME ClaudeInv, NEW s \in Sends, Send(s)
  PROVE  ClaudeInv' /\ Sending(s)
  <1>0. /\ TypeOK /\ Good(board) /\ Inputs /\ RunInv /\ Belongs /\ board \in Board /\ Numbered(board)
        /\ Kept(board) /\ sent \in Nat /\ s \in Nat /\ s # 0 /\ 0 \notin Sends
        /\ scope.sends \in 0 .. MaxSends /\ MaxSends \in Nat /\ MaxSends >= scope.sends
    BY BoundsAssumption, ScopesAssumption DEF ClaudeInv, TypeOK, Good, Sends
  <1>1. /\ UNCHANGED <<scope, dropped, ask, replied, closer, stalled, dead, finalized, run, begun, inputs,
                       attested>>
        /\ ~finalized /\ ~Closed /\ s = sent + 1 /\ s <= scope.sends /\ sent' = s
    BY DEF Send, Awake, approvals
  <1>2. /\ s \notin Held(board) /\ s \notin Shows(board) /\ s \notin refused /\ dropped = {}
        /\ \A x \in 1 .. sent : x \in 1 .. sent' /\ x # s
    BY <1>0, <1>1 DEF Inputs
  <1>3. sent' \in 0 .. MaxSends
    BY <1>0, <1>1
  (* The part that the three ways share. *)
  <1>4. ASSUME Good(board'), closing' \in BOOLEAN, closing => closing', signal' \in {"none", "term", "kill"},
               refused' \in {refused, refused \cup {s}}, inbox' \in {inbox, inbox \cup {s}},
               Held(board') \cup (Shows(board') \ {0}) \subseteq
                 Held(board) \cup (Shows(board) \ {0}) \cup {s},
               refused' = refused \cup {s} => s \notin Held(board') \cup (Shows(board') \ {0})
        PROVE  TypeOK' /\ Good(board)' /\ Inputs'
    <2>1. TypeOK'
      BY <1>0, <1>1, <1>3, <1>4 DEF TypeOK, Good
    <2>2. Inputs'
      BY <1>0, <1>1, <1>2, <1>4 DEF Inputs
    <2> QED BY <1>4, <2>1, <2>2
  <1>5. CASE inbox' = inbox \cup {s} /\ board.turn = 0 /\ board' = Started(board, s)
             /\ UNCHANGED <<refused, closing, signal>>
    <2>1. board' = [board EXCEPT !.turn = board.count + 1, !.count = @ + 1, !.opener = s,
                                 !.watched = TRUE, !.paused = FALSE]
      BY <1>0, <1>5 DEF Started
    <2>2. /\ board' = Opening(board, board.pending, s) /\ board' \in Board
      <3>1. board = [board EXCEPT !.pending = board.pending]
        BY <1>0 DEF Board
      <3>2. board \in Board /\ board.pending \in Seq(Sends) /\ s \in Sends \cup {0}
        BY <1>0, BoardParts
      <3>3. Starting(board, s) = Opening(board, board.pending, s) /\ Opening(board, board.pending, s) \in Board
        BY ONLY <3>1, <3>2, OpeningStarts
      <3> QED BY <2>1, <3>3 DEF Starting
    <2>3. /\ board'.turn = board.count + 1 /\ board'.count = board.count + 1 /\ board'.opener = s
          /\ board'.pending = board.pending /\ board'.turns = board.turns /\ board'.paused = FALSE
      BY <2>2 DEF Opening
    <2>4. board.count \in Nat /\ board.pending \in Seq(Sends)
      BY <1>0, BoardParts
    <2>5. Private(board') /\ ~Public(board') /\ board'.turn # 0
      BY <1>0, <2>3, <2>4 DEF Private, Public, Shown, Numbered
    <2>6. Held(board') = Held(board) \cup {s} /\ Shows(board') = Shows(board)
      BY <1>5, <2>3, <2>5 DEF Held, Private, Shows
    <2>7. Good(board')
      <3>1. Numbered(board')
        BY <1>0, <2>3, <2>4, <2>5 DEF Numbered
      <3>2. Kept(board')
        <4>1. s \notin Elements(board.pending)
          BY <1>2 DEF Held
        <4> QED BY <1>0, <1>2, <2>3, <2>6, <4>1 DEF Kept
      <3> QED BY <2>2, <3>1, <3>2 DEF Good
    <2>8. TypeOK' /\ Good(board)' /\ Inputs'
      <3>1. closing \in BOOLEAN /\ signal \in {"none", "term", "kill"} /\ refused # refused \cup {s}
        BY <1>0, <1>2 DEF TypeOK
      <3> QED BY <1>4, <1>5, <2>6, <2>7, <3>1
    <2>9. RunInv' /\ Belongs'
      BY <1>0, <1>1, <2>3, <2>5 DEF RunInv, Belongs, Owned, Public, Walls, PipeBreakable
    <2>10. Waits' /\ PausedWhileWaiting' /\ OneReply'
      BY <1>1, <1>5, <2>3, <2>5, WaitsKeep
    <2>11. Sending(s)
      BY <1>1, <1>5, <2>3, <2>6 DEF Sending
    <2> QED BY <2>8, <2>9, <2>10, <2>11 DEF ClaudeInv
  <1>6. CASE inbox' = inbox \cup {s} /\ board.turn # 0
             /\ board' = [board EXCEPT !.pending = Append(@, s)]
             /\ UNCHANGED <<refused, closing, signal>>
    <2> DEFINE p == board.pending
               q == Append(p, s)
    <2>1. /\ p \in Seq(Sends) /\ q \in Seq(Sends) /\ Len(q) = Len(p) + 1 /\ q[Len(p) + 1] = s
          /\ Len(p) \in Nat /\ \A i \in 1 .. Len(p) : q[i] = p[i]
      BY <1>0, BoardParts
    <2>2. /\ board' \in Board /\ board'.pending = q /\ board'.turn = board.turn
          /\ board'.opener = board.opener /\ board'.count = board.count /\ board'.turns = board.turns
          /\ board'.watched = board.watched /\ board'.paused = board.paused
      BY <1>0, <1>6, <2>1 DEF Board
    <2> HIDE DEF p, q
    <2>3. /\ \A i \in 1 .. Len(q) : i \in 1 .. Len(p) \/ i = Len(p) + 1
          /\ \A i \in 1 .. Len(p) : i \in 1 .. Len(q)
          /\ Len(p) + 1 \in 1 .. Len(q)
      BY <2>1
    <2>4. Elements(q) = Elements(p) \cup {s}
      BY <2>1, <2>3 DEF Elements
    <2>5. s \notin Elements(p) /\ Distinct(p)
      BY <1>0, <1>2 DEF Held, Kept, p
    <2>6. Distinct(q)
      <3> SUFFICES ASSUME NEW i \in 1 .. Len(q), NEW j \in 1 .. Len(q), q[i] = q[j] PROVE i = j
        BY DEF Distinct
      <3>1. \A k \in 1 .. Len(p) : p[k] # s
        BY <2>5 DEF Elements
      <3> QED BY <2>1, <2>3, <2>5, <3>1 DEF Distinct
    <2>7. (Private(board') <=> Private(board)) /\ (Public(board') <=> Public(board))
      BY <2>2 DEF Private, Public, Shown
    <2>8. Held(board') = Held(board) \cup {s} /\ Shows(board') = Shows(board)
      BY <2>2, <2>4, <2>7 DEF Held, Shows, p
    <2>9. Good(board')
      <3>1. Numbered(board')
        BY <1>0, <2>2, <2>7 DEF Numbered
      <3>2. Kept(board')
        <4>1. Private(board) => board.opener # s
          BY <1>2 DEF Held
        <4>2. Private(board) => board.opener \notin Elements(p)
          BY <1>0 DEF Kept, p
        <4> QED BY <1>0, <1>2, <2>2, <2>4, <2>6, <2>7, <2>8, <4>1, <4>2 DEF Kept
      <3> QED BY <2>2, <3>1, <3>2 DEF Good
    <2>10. TypeOK' /\ Good(board)' /\ Inputs'
      <3>1. closing \in BOOLEAN /\ signal \in {"none", "term", "kill"} /\ refused # refused \cup {s}
        BY <1>0, <1>2 DEF TypeOK
      <3> QED BY <1>4, <1>6, <2>8, <2>9, <3>1
    <2>11. RunInv' /\ Belongs'
      BY <1>0, <1>1, <2>2, <2>7 DEF RunInv, Belongs, Owned, Walls, PipeBreakable
    <2>12. Waits' /\ PausedWhileWaiting' /\ OneReply'
      BY <1>1, <1>6, <2>2, WaitsKeep
    <2>13. Sending(s)
      BY <1>1, <1>6, <2>2, <2>8 DEF Sending
    <2> QED BY <2>10, <2>11, <2>12, <2>13 DEF ClaudeInv
  <1>7. CASE Breaks /\ refused' = refused \cup {s} /\ board' = Published(board) /\ UNCHANGED inbox
    <2>1. Moves(board, board', {}) /\ Fresh(board, board') /\ Tuned(board, board')
      BY <1>0, <1>7, PublishedMoves
    <2>2. /\ Shows(board') \subseteq Shows(board) \cup Held(board) \cup {0}
          /\ Held(board') \subseteq Held(board) /\ Good(board')
      BY <1>0, <2>1, MovesShow DEF Moves
    <2>3. PipeBreakable /\ closing' = TRUE /\ signal' \in {"none", "term", "kill"}
      BY <1>0, <1>7 DEF Breaks, Escalated, TypeOK
    <2>4. TypeOK' /\ Good(board)' /\ Inputs'
      <3>1. s \notin Held(board') \cup (Shows(board') \ {0})
        BY <1>2, <2>2
      <3>2. closing' \in BOOLEAN /\ (closing => closing')
        BY <2>3
      <3> QED BY <1>4, <1>7, <2>2, <2>3, <3>1, <3>2
    <2>5. RunInv' /\ Belongs'
      BY <1>1, <2>1, <2>3, RunsKeep
    <2>6. Waits' /\ PausedWhileWaiting' /\ OneReply'
      BY <1>1, <2>1, <2>3, WaitsKeep DEF Tuned
    <2>7. Sending(s)
      BY <1>1, <1>7, <2>1 DEF Sending
    <2> QED BY <2>4, <2>5, <2>6, <2>7 DEF ClaudeInv
  <1> QED BY <1>5, <1>6, <1>7 DEF Send

-----------------------------------------------------------------------------
(* The requests *)

LEMMA ClearedKeeps ==
  ASSUME ClaudeInv, NEW T, T \subseteq Waiting(ask), ask' = Cleared(ask, T),
         UNCHANGED <<replied, scope>>, closing => closing'
  PROVE  /\ ask' \in [Requests -> Request] /\ OneReply' /\ Waiting(ask') = Waiting(ask) \ T
         /\ \A r \in Requests : ask'[r].turn = ask[r].turn
  <1>0. ask \in [Requests -> Request] /\ OneReply /\ Waiting(ask) \subseteq Requests
    BY DEF ClaudeInv, TypeOK, Waiting
  <1>1. ASSUME NEW r \in Requests
        PROVE  /\ ask'[r] \in Request /\ ask'[r].turn = ask[r].turn
               /\ ask'[r].state = IF r \in T THEN "cleared" ELSE ask[r].state
    <2>1. ask[r] \in Request /\ ask'[r] = IF r \in T THEN [ask[r] EXCEPT !.state = "cleared"] ELSE ask[r]
      BY <1>0 DEF Cleared
    <2> QED BY <2>1 DEF Request
  <1>2. ask' \in [Requests -> Request]
    <2>1. ask' = [r \in Requests |-> ask'[r]]
      BY DEF Cleared
    <2> QED BY <1>1, <2>1
  <1>3. \A r \in T : ask[r].state = "waiting"
    BY DEF Waiting
  <1>4. OneReply'
    BY <1>0, <1>1, <1>3 DEF OneReply, PipeBreakable
  <1>5. Waiting(ask') = Waiting(ask) \ T
    BY <1>1 DEF Waiting
  <1> QED BY <1>1, <1>2, <1>4, <1>5

(* endTurn, on the live turn or on one the record just showed. *)
LEMMA EndTurnKeeps ==
  ASSUME ClaudeInv, NEW b, NEW S, Moves(board, b, S), Fresh(board, b), Tuned(board, b),
         b = board \/ ~Private(b), EndTurn(b), UNCHANGED <<replied, scope>>,
         closing => closing', dead => dead'
  PROVE  /\ Moves(board, board', S) /\ Fresh(board, board') /\ ~Public(board')
         /\ ask' \in [Requests -> Request] /\ Waits' /\ PausedWhileWaiting' /\ OneReply'
  <1>1. Good(b) /\ TypeOK /\ Waits /\ OneReply /\ (Closed => Closed')
    BY DEF Closed, ClaudeInv, Moves
  <1>2. CASE b.turn = 0
    <2>1. board' = b /\ ask' = ask
      BY <1>2 DEF EndTurn
    <2>2. board.turn = 0 /\ ~Public(board') /\ ~b.watched
      BY <1>1, <1>2, <2>1 DEF Tuned, Public, Good, Numbered
    <2>3. Waits' /\ PausedWhileWaiting' /\ OneReply'
      BY <1>2, <2>1, <2>2, WaitsKeep
    <2> QED BY <1>1, <2>1, <2>2, <2>3 DEF TypeOK
  <1>3. CASE b.turn # 0
    <2> DEFINE T == OnTurn(ask, b.turn)
               a == Cleared(ask, T)
               x == IF T = {} THEN b ELSE Synced(b, a)
    <2>1. ask' = a /\ board' = Over(x)
      BY <1>3 DEF EndTurn
    <2>2. T \subseteq Waiting(ask)
      BY DEF OnTurn
    <2>3. /\ ask' \in [Requests -> Request] /\ OneReply' /\ Waiting(ask') = Waiting(ask) \ T
          /\ \A r \in Requests : ask'[r].turn = ask[r].turn
      BY <2>1, <2>2, ClearedKeeps
    <2>4. /\ Good(x) /\ x.turns = b.turns /\ Held(x) = Held(b) /\ (Private(x) <=> Private(b))
          /\ x.pending = b.pending /\ x.count = b.count
      <3>1. CASE x = b
        BY <1>1, <3>1
      <3>2. CASE x = Synced(b, a)
        <4>1. /\ Still(b, x) /\ x.turns = b.turns /\ (Private(x) <=> Private(b)) /\ x.pending = b.pending
              /\ x.count = b.count
          BY <1>1, <3>2, SyncedStill DEF Still
        <4>2. Moves(b, b, S)
          BY <1>1, NoMove
        <4>3. Moves(b, x, S) /\ Held(x) = Held(b)
          BY <4>1, <4>2, StillMoves
        <4> QED BY <4>1, <4>3 DEF Moves
      <3> QED BY <3>1, <3>2
    <2> HIDE DEF x, a
    <2>5. /\ Moves(x, Over(x), {}) /\ Fresh(x, Over(x)) /\ Over(x).turn = 0 /\ Over(x).opener = 0
          /\ ~Over(x).watched /\ Over(x).pending = x.pending
      BY <2>4, OverMoves
    <2>6. Moves(board, board', S) /\ Fresh(board, board')
      <3>1. CASE b = board
        <4>1. Moves(b, board', {})
          BY <2>1, <2>4, <2>5 DEF Moves
        <4>2. Fresh(b, board')
          BY <2>1, <2>4, <2>5 DEF Fresh
        <4> QED BY <3>1, <4>1, <4>2, Named
      <3>2. CASE ~Private(b)
        <4>1. /\ Still(x, board') /\ board'.turns = x.turns
          BY <2>1, <2>4, <3>2, OverStill
        <4>2. Still(b, board')
          BY <2>1, <2>4, <2>5, <3>2, <4>1 DEF Still
        <4>3. Moves(board, board', S)
          BY <4>2, StillMoves
        <4>4. Fresh(board, board')
          BY <2>4, <4>1 DEF Fresh
        <4> QED BY <4>3, <4>4
      <3> QED BY <3>1, <3>2
    <2>7. board'.turn = 0 /\ ~board'.watched /\ ~Public(board')
      BY <2>1, <2>5 DEF Public
    <2>8. PausedWhileWaiting'
      BY <2>7 DEF PausedWhileWaiting
    <2>9. Waits'
      <3> SUFFICES ASSUME NEW r \in Waiting(ask') PROVE ask'[r].turn = 0 /\ Closed'
        BY DEF Waits, Waiting
      <3>1. r \in Waiting(ask) /\ r \notin T /\ ask'[r].turn = ask[r].turn
        BY <2>3 DEF Waiting
      <3>2. ask[r].turn # b.turn
        BY <3>1 DEF OnTurn
      <3>3. (ask[r].turn = board.turn /\ board.turn # 0) \/ (ask[r].turn = 0 /\ Closed)
        BY <1>1, <3>1 DEF Waits
      <3>4. b.turn = board.turn \/ (board.turn = 0 /\ ~Closed)
        BY DEF Tuned
      <3> QED BY <1>1, <3>1, <3>2, <3>3, <3>4
    <2> QED BY <2>3, <2>6, <2>7, <2>8, <2>9
  <1> QED BY <1>2, <1>3

-----------------------------------------------------------------------------
(* The records of the run *)

(* Whoever a record named got the turn, or had it from this run. *)
LEMMA TagBelongs ==
  ASSUME ClaudeInv, NEW naming \in BOOLEAN, run.no # 0, NEW c, Tagged(board, c, NamedBy(naming)),
         ~Walls, ~PipeBreakable, Public(c), c.opener # 0
  PROVE  c.opener \in inputs[run.no]
  <1>1. c.opener \in NamedBy(naming) \/ (Public(board) /\ c.opener = board.opener)
    BY DEF Tagged
  <1>2. CASE c.opener \in NamedBy(naming)
    BY <1>2 DEF NamedBy
  <1>3. CASE Public(board) /\ c.opener = board.opener
    BY <1>3 DEF ClaudeInv, Belongs
  <1> QED BY <1>1, <1>2, <1>3

LEMMA NamesTold ==
  ASSUME ClaudeInv, run.no # 0, NEW naming \in BOOLEAN, Names(naming)
  PROVE  /\ NamedBy(naming) \in SUBSET Sends /\ NamedBy(naming) \subseteq attested'
         /\ attested \subseteq attested' /\ attested' \subseteq Sends
  <1>1. attested \subseteq Sends /\ NamedBy(naming) \in SUBSET Sends
    BY AfterMoves DEF ClaudeInv, TypeOK
  <1> QED BY <1>1 DEF Names, NamedBy

LEMMA InitStep ==
  ASSUME ClaudeInv, InitRead
  PROVE  ClaudeInv' /\ Shifts
  <1>0. TypeOK /\ Good(board)
    BY DEF ClaudeInv
  <1>1. /\ UNCHANGED <<scope, sent, refused, dropped, ask, replied, closing, closer, signal>>
        /\ UNCHANGED <<stalled, dead, finalized, inbox, begun, inputs>>
        /\ ~finalized /\ run.no # 0 /\ Names(TRUE) /\ board' = After(TRUE)
        /\ run' = [run EXCEPT !.named = TRUE]
    BY DEF InitRead, Going, Awake, HostStill, approvals
  <1> DEFINE S == NamedBy(TRUE)
  <1>2. /\ Moves(board, board', S) /\ Fresh(board, board')
        /\ Tuned(board, board') /\ Tagged(board, board', S)
    BY <1>1, AfterMoves
  <1>3. S \in SUBSET Sends /\ S \subseteq attested' /\ attested \subseteq attested' /\ attested' \subseteq Sends
    BY <1>1, NamesTold
  <1>4. run' \in Run /\ run'.no = run.no
    BY <1>0, <1>1 DEF TypeOK, Run
  <1>5. ~Walls /\ ~PipeBreakable /\ Public(board') /\ board'.opener # 0 =>
          board'.opener \in inputs[run.no]
    BY <1>1, <1>2, TagBelongs
  <1> HIDE DEF S
  <1>6. Shifts
    BY <1>0, <1>1, <1>2, <1>3 DEF Shifts
  <1>7. Good(board)' /\ Inputs'
    BY <1>1, <1>6, InputsKeep
  <1>8. TypeOK'
    BY <1>0, <1>1, <1>3, <1>4, <1>7 DEF TypeOK, Good
  <1>9. RunInv' /\ Belongs'
    BY <1>1, <1>2, <1>4, <1>5, RunsKeep
  <1>10. Waits' /\ PausedWhileWaiting' /\ OneReply'
    BY <1>1, <1>2, WaitsKeep DEF Tuned
  <1> QED BY <1>6, <1>7, <1>8, <1>9, <1>10 DEF ClaudeInv

(* Output, of a record or a request, lands in the turn it was given. *)
LEMMA LandedMoves ==
  ASSUME ClaudeInv, run.no # 0, NEW naming \in BOOLEAN, NEW d, d = ForOutput(After(naming)),
         NEW e, e = Landed(d, run.no)
  PROVE  /\ Moves(board, e, NamedBy(naming)) /\ Tuned(board, e) /\ ~Private(e) /\ Good(e)
         /\ (~Closed => Public(e)) /\ (Public(e) <=> Public(d)) /\ e.opener = d.opener
         /\ Moves(board, d, NamedBy(naming)) /\ Fresh(board, d)
         /\ Len(e.turns) = Len(d.turns)
         /\ \A i \in 1 .. Len(d.turns) :
              /\ e.turns[i].opener = d.turns[i].opener
              /\ \/ e.turns[i].runs = d.turns[i].runs
                 \/ /\ Public(d) /\ d.turns[i].no = d.turn /\ run.no # 0
                    /\ e.turns[i].runs = d.turns[i].runs \cup {run.no}
                    /\ ~Walls /\ ~PipeBreakable /\ d.opener # 0 => d.opener \in inputs[run.no]
         /\ ~Walls /\ ~PipeBreakable /\ Public(e) /\ e.opener # 0 => e.opener \in inputs[run.no]
  <1>1. /\ Moves(board, d, NamedBy(naming)) /\ Fresh(board, d)
        /\ Tuned(board, d) /\ Tagged(board, d, NamedBy(naming)) /\ ~Private(d) /\ Good(d)
        /\ (~Closed => Public(d))
    BY RecordMoves
  <1>2. run.no \in Runs
    BY AfterMoves
  <1>3. /\ Still(d, e) /\ e.turn = d.turn /\ e.opener = d.opener
        /\ e.watched = d.watched /\ e.paused = d.paused
        /\ (Public(e) <=> Public(d))
        /\ \A i \in 1 .. Len(d.turns) :
             \/ e.turns[i].runs = d.turns[i].runs
             \/ /\ Public(d) /\ d.turns[i].no = d.turn
                /\ e.turns[i].runs = d.turns[i].runs \cup {run.no}
    BY <1>1, <1>2, LandedStill
  <1>4. Moves(board, e, NamedBy(naming)) /\ Good(e)
    <2>1. Moves(board, d, NamedBy(naming)) /\ Still(d, e)
      BY <1>1, <1>3
    <2>2. Moves(board, e, NamedBy(naming))
      BY ONLY <2>1, StillMoves
    <2> QED BY <2>2 DEF Moves
  <1>5. Tuned(board, e)
    BY <1>1, <1>3 DEF Tuned
  <1>6. ~Private(e)
    BY <1>1, <1>3 DEF Private, Public
  <1>7. Len(e.turns) = Len(d.turns) /\ \A i \in 1 .. Len(d.turns) : e.turns[i].opener = d.turns[i].opener
    BY <1>3 DEF Still
  <1>8. ~Walls /\ ~PipeBreakable /\ Public(d) /\ d.opener # 0 => d.opener \in inputs[run.no]
    BY <1>1, TagBelongs
  <1> QED BY <1>1, <1>3, <1>4, <1>5, <1>6, <1>7, <1>8

LEMMA OutputStep ==
  ASSUME ClaudeInv, NEW naming \in BOOLEAN, OutputRead(naming)
  PROVE  ClaudeInv' /\ Shifts
  <1>0. TypeOK /\ Good(board) /\ MaxOutputs \in Nat
    BY BoundsAssumption DEF ClaudeInv
  <1>1. /\ UNCHANGED <<scope, sent, refused, dropped, ask, replied, closing, closer, signal>>
        /\ UNCHANGED <<stalled, dead, finalized, inbox, begun, inputs>>
        /\ ~finalized /\ run.no # 0 /\ run.left > 0 /\ Names(naming)
        /\ board' = Landed(ForOutput(After(naming)), run.no)
        /\ run' = [run EXCEPT !.named = @ \/ naming, !.left = @ - 1]
    BY DEF OutputRead, Going, Awake, HostStill, approvals
  <1> DEFINE S == NamedBy(naming)
             d == ForOutput(After(naming))
  <1>2. S \in SUBSET Sends /\ S \subseteq attested' /\ attested \subseteq attested' /\ attested' \subseteq Sends
    BY <1>1, NamesTold
  <1>3. run' \in Run /\ run'.no = run.no
    <2>1. run.left - 1 \in 0 .. MaxOutputs /\ (run.named \/ naming) \in BOOLEAN
      BY <1>0, <1>1 DEF TypeOK, Run
    <2> QED BY <1>0, <1>1, <2>1 DEF TypeOK, Run
  <1>4. /\ Moves(board, board', S) /\ Tuned(board, board')
        /\ Moves(board, d, S) /\ Fresh(board, d) /\ Len(board'.turns) = Len(d.turns)
        /\ \A i \in 1 .. Len(d.turns) :
              /\ board'.turns[i].opener = d.turns[i].opener
              /\ \/ board'.turns[i].runs = d.turns[i].runs
                 \/ /\ Public(d) /\ d.turns[i].no = d.turn /\ run.no # 0
                    /\ board'.turns[i].runs = d.turns[i].runs \cup {run.no}
                    /\ ~Walls /\ ~PipeBreakable /\ d.opener # 0 => d.opener \in inputs[run.no]
        /\ ~Walls /\ ~PipeBreakable /\ Public(board') /\ board'.opener # 0 =>
             board'.opener \in inputs[run.no]
    BY <1>1, LandedMoves
  <1> HIDE DEF S, d
  <1>5. Shifts
    BY <1>1, <1>2, <1>4 DEF Shifts
  <1>6. Good(board)' /\ Inputs'
    BY <1>1, <1>5, InputsKeep
  <1>7. TypeOK'
    BY <1>0, <1>1, <1>2, <1>3, <1>6 DEF TypeOK, Good
  <1>8. RunInv' /\ Belongs'
    BY <1>1, <1>3, <1>4, RunsKeep
  <1>9. Waits' /\ PausedWhileWaiting' /\ OneReply'
    BY <1>1, <1>4, WaitsKeep DEF Tuned
  <1> QED BY <1>5, <1>6, <1>7, <1>8, <1>9 DEF ClaudeInv

LEMMA SettlesCloser ==
  ASSUME ClaudeInv, NEW b, Settles(b)
  PROVE  EndTurn(b) /\ closer' \in {"none", "draining", "woken", "ended"}
  BY DEF Settles, Woken, ClaudeInv, TypeOK

LEMMA ResultStep ==
  ASSUME ClaudeInv, ResultRead
  PROVE  ClaudeInv' /\ Shifts
  <1> DEFINE naming == inputs[run.no] # {}
  <1>0. TypeOK /\ Good(board) /\ MaxOutputs \in Nat /\ naming \in BOOLEAN
    BY BoundsAssumption DEF ClaudeInv
  <1>1. /\ UNCHANGED <<scope, sent, refused, dropped, replied, closing, signal>>
        /\ UNCHANGED <<stalled, dead, finalized, inbox, begun, inputs>>
        /\ ~finalized /\ run.no # 0 /\ Names(naming)
        /\ Settles(ForOutput(After(naming))) /\ run' = Idle
    BY DEF ResultRead, Going, Awake, HostStill
  <1> HIDE DEF naming
  <1> DEFINE S == NamedBy(naming)
             d == ForOutput(After(naming))
  <1>2. S \in SUBSET Sends /\ S \subseteq attested' /\ attested \subseteq attested' /\ attested' \subseteq Sends
    BY <1>0, <1>1, NamesTold
  <1>3. run' \in Run /\ run'.no = 0
    BY <1>0, <1>1 DEF Idle, Run
  <1>4. /\ Moves(board, d, S) /\ Fresh(board, d) /\ Tuned(board, d) /\ ~Private(d)
    BY <1>0, <1>1, RecordMoves
  <1>5. EndTurn(d) /\ closer' \in {"none", "draining", "woken", "ended"}
    BY <1>1, SettlesCloser
  <1> HIDE DEF S, d
  <1>6. /\ Moves(board, board', S) /\ Fresh(board, board') /\ ~Public(board')
        /\ ask' \in [Requests -> Request] /\ Waits' /\ PausedWhileWaiting' /\ OneReply'
    BY <1>1, <1>4, <1>5, EndTurnKeeps
  <1>7. Shifts
    BY <1>1, <1>2, <1>6 DEF Shifts
  <1>8. Good(board)' /\ Inputs'
    BY <1>1, <1>7, InputsKeep
  <1>9. TypeOK'
    BY <1>0, <1>1, <1>2, <1>3, <1>5, <1>6, <1>8 DEF TypeOK, Good
  <1>10. RunInv' /\ Belongs'
    BY <1>1, <1>3, <1>6, RunsKeep
  <1> QED BY <1>6, <1>7, <1>8, <1>9, <1>10 DEF ClaudeInv

LEMMA StallStep ==
  ASSUME ClaudeInv, Stall
  PROVE  ClaudeInv' /\ Shifts
  <1>0. TypeOK /\ Good(board) /\ Belongs
    BY DEF ClaudeInv
  <1>1. /\ UNCHANGED <<scope, sent, refused, dropped, replied, closing, dead, finalized>>
        /\ UNCHANGED <<inbox, run, begun, inputs, attested>>
        /\ ~finalized /\ stalled' = TRUE /\ Settles(board) /\ signal' = Escalated
    BY DEF Stall, Awake, native
  <1>2. Moves(board, board, {}) /\ Fresh(board, board) /\ Tuned(board, board)
    BY <1>0, NoMove
  <1>3. EndTurn(board) /\ closer' \in {"none", "draining", "woken", "ended"}
    BY <1>1, SettlesCloser
  <1>4. /\ Moves(board, board', {}) /\ Fresh(board, board') /\ ~Public(board')
        /\ ask' \in [Requests -> Request] /\ Waits' /\ PausedWhileWaiting' /\ OneReply'
    BY <1>1, <1>2, <1>3, EndTurnKeeps
  <1>5. Shifts
    BY <1>0, <1>1, <1>4 DEF Shifts, TypeOK
  <1>6. Good(board)' /\ Inputs'
    BY <1>1, <1>5, InputsKeep
  <1>7. signal' \in {"none", "term", "kill"}
    BY <1>0, <1>1 DEF Escalated, TypeOK
  <1>8. TypeOK'
    BY <1>0, <1>1, <1>3, <1>4, <1>6, <1>7 DEF TypeOK, Good
  <1>9. RunInv' /\ Belongs'
    BY <1>1, <1>4, RunsKeep
  <1> QED BY <1>4, <1>5, <1>6, <1>8, <1>9 DEF ClaudeInv

-----------------------------------------------------------------------------
(* Requests are decided, given up, or lost with the pipe *)

(* The tracker goes on with fewer requests waiting, and tunes the clock.    *)
LEMMA SyncStep ==
  ASSUME ClaudeInv, NEW c, c = board \/ (c = Published(board) /\ PipeBreakable),
         board' = Synced(c, ask'), ~finalized,
         UNCHANGED <<scope, sent, refused, dropped, stalled, dead, finalized>>,
         UNCHANGED <<inbox, run, begun, inputs, attested>>, closing => closing',
         Waiting(ask') \subseteq Waiting(ask),
         \A r \in Waiting(ask') : ask'[r].turn = ask[r].turn
  PROVE  /\ Good(board)' /\ Inputs' /\ RunInv' /\ Belongs'
         /\ Waits' /\ PausedWhileWaiting' /\ Shifts
  <1>1. TypeOK /\ Good(board) /\ RunInv /\ Belongs /\ Waits /\ PausedWhileWaiting
    BY DEF ClaudeInv
  <1>2. /\ Moves(board, c, {}) /\ Fresh(board, c) /\ c.turn = board.turn
        /\ c.opener = board.opener /\ Good(c) /\ (~PipeBreakable => c = board)
    BY <1>1, NoMove, PublishedMoves DEF Moves
  <1>3. c.watched = board.watched
    <2>1. CASE c = board
      BY <2>1
    <2>2. CASE c = Published(board)
      BY <1>1, <2>2 DEF Published, Good, Board
    <2> QED BY <2>1, <2>2
  <1>4. /\ Still(c, board') /\ board'.turns = c.turns /\ board'.opener = c.opener
        /\ board'.turn = c.turn /\ board'.watched = c.watched
        /\ board'.paused = (Waiting(ask') # {})
        /\ (Public(board') <=> Public(c))
    BY <1>2, SyncedStill
  <1>5. Moves(board, board', {})
    BY ONLY <1>2, <1>4, StillMoves
  <1>6. Fresh(board, board')
    BY <1>2, <1>4 DEF Fresh
  <1>7. Shifts
    BY <1>1, <1>5 DEF Shifts, TypeOK
  <1>8. Good(board)' /\ Inputs'
    BY <1>7, InputsKeep
  <1>9. RunInv' /\ Belongs'
    <2>1. ~Walls /\ ~PipeBreakable /\ Public(board') /\ board'.opener # 0 =>
            run'.no # 0 /\ board'.opener \in inputs[run.no]
      BY <1>1, <1>2, <1>4 DEF Belongs
    <2> QED BY <1>5, <1>6, <2>1, RunsKeep
  <1>10. Waits'
    BY <1>1, <1>2, <1>4 DEF Waits, Closed
  <1>11. PausedWhileWaiting'
    BY <1>4 DEF PausedWhileWaiting
  <1> QED BY <1>7, <1>8, <1>9, <1>10, <1>11

LEMMA DecideStep ==
  ASSUME ClaudeInv, NEW r \in Requests, Decide(r)
  PROVE  ClaudeInv' /\ Shifts
  <1>0. TypeOK /\ Good(board) /\ OneReply
    BY DEF ClaudeInv
  <1>1. /\ UNCHANGED <<scope, sent, refused, dropped, closer, stalled, dead, finalized>>
        /\ UNCHANGED <<inbox, run, begun, inputs, attested>>
        /\ ~finalized /\ ask[r].state = "waiting"
        /\ ask' = [ask EXCEPT ![r].state = "answered"]
    BY DEF Decide, Awake, native
  <1>2. \/ /\ replied' = [replied EXCEPT ![r] = @ + 1] /\ board' = Synced(board, ask')
           /\ UNCHANGED <<closing, signal>>
        \/ /\ PipeBreakable /\ closing' = TRUE /\ signal' = Escalated
           /\ board' = Synced(Published(board), ask') /\ UNCHANGED replied
    BY DEF Decide, Breaks
  <1>3. /\ ask \in [Requests -> Request] /\ replied \in [Requests -> Nat]
        /\ signal \in {"none", "term", "kill"} /\ closing \in BOOLEAN
    BY <1>0 DEF TypeOK
  <1>4. /\ ask' \in [Requests -> Request] /\ ask'[r].state = "answered"
        /\ \A q \in Requests : q # r => ask'[q] = ask[q]
    BY <1>1, <1>3 DEF Request
  <1>5. /\ Waiting(ask') \subseteq Waiting(ask)
        /\ \A q \in Waiting(ask') : ask'[q].turn = ask[q].turn
    BY <1>4 DEF Waiting
  <1>6. (closing => closing') /\ closing' \in BOOLEAN /\ signal' \in {"none", "term", "kill"}
    BY <1>2, <1>3 DEF Escalated
  <1>7. /\ Good(board)' /\ Inputs' /\ RunInv' /\ Belongs'
        /\ Waits' /\ PausedWhileWaiting' /\ Shifts
    <2>1. CASE board' = Synced(board, ask')
      BY <1>1, <1>5, <1>6, <2>1, SyncStep
    <2>2. CASE PipeBreakable /\ board' = Synced(Published(board), ask')
      BY <1>1, <1>5, <1>6, <2>2, SyncStep
    <2> QED BY <1>2, <2>1, <2>2
  <1>8. /\ replied' \in [Requests -> Nat] /\ \A q \in Requests : q # r => replied'[q] = replied[q]
        /\ replied[r] = 0
        /\ \/ replied'[r] = 1
           \/ PipeBreakable /\ closing' = TRUE /\ replied'[r] = 0
    <2>1. replied[r] <= 0 /\ replied[r] \in Nat
      BY <1>0, <1>1, <1>3 DEF OneReply
    <2> QED BY <1>2, <1>3, <2>1
  <1>9. OneReply'
    <2> SUFFICES ASSUME NEW q \in Requests
                 PROVE  /\ replied'[q] <= (IF ask'[q].state \in {"answered", "denied"} THEN 1 ELSE 0)
                        /\ ask'[q].state \in {"answered", "denied"} /\ replied'[q] = 0 =>
                             PipeBreakable /\ closing'
      BY <1>1 DEF OneReply, PipeBreakable
    <2>1. CASE q = r
      BY <1>4, <1>8, <2>1
    <2>2. CASE q # r
      BY <1>0, <1>4, <1>6, <1>8, <2>2 DEF OneReply
    <2> QED BY <2>1, <2>2
  <1>10. TypeOK'
    BY <1>0, <1>1, <1>4, <1>6, <1>7, <1>8 DEF TypeOK, Good
  <1> QED BY <1>7, <1>9, <1>10 DEF ClaudeInv

LEMMA CancelStep ==
  ASSUME ClaudeInv, NEW r \in Requests, CancelRead(r)
  PROVE  ClaudeInv' /\ Shifts
  <1> DEFINE T == {r}
  <1>0. TypeOK
    BY DEF ClaudeInv
  <1>1. /\ UNCHANGED <<scope, sent, refused, dropped, closing, signal, closer, stalled, dead, finalized>>
        /\ UNCHANGED <<inbox, run, begun, inputs, attested, replied>>
        /\ ~finalized /\ T \subseteq Waiting(ask)
        /\ ask' = Cleared(ask, T) /\ board' = Synced(board, ask')
    BY DEF CancelRead, Going, Awake, HostStill, native, Waiting
  <1> HIDE DEF T
  <1>2. /\ ask' \in [Requests -> Request] /\ OneReply' /\ Waiting(ask') = Waiting(ask) \ T
        /\ \A q \in Requests : ask'[q].turn = ask[q].turn
    <2>1. (closing => closing') /\ UNCHANGED <<replied, scope>>
      BY <1>1
    <2> QED BY ONLY <1>1, <2>1, ClaudeInv, ClearedKeeps
  <1>3. /\ Waiting(ask') \subseteq Waiting(ask)
        /\ \A q \in Waiting(ask') : ask'[q].turn = ask[q].turn
    BY <1>2 DEF Waiting
  <1>4. /\ Good(board)' /\ Inputs' /\ RunInv' /\ Belongs'
        /\ Waits' /\ PausedWhileWaiting' /\ Shifts
    BY <1>1, <1>3, SyncStep
  <1>5. TypeOK'
    BY <1>0, <1>1, <1>2, <1>4 DEF TypeOK, Good
  <1> QED BY <1>2, <1>4, <1>5 DEF ClaudeInv

LEMMA InputErrorStep ==
  ASSUME ClaudeInv, InputError
  PROVE  ClaudeInv' /\ Shifts
  <1>0. TypeOK
    BY DEF ClaudeInv
  <1>1. /\ UNCHANGED <<scope, sent, refused, dropped, closer, stalled, dead, finalized>>
        /\ UNCHANGED <<inbox, run, begun, inputs, attested, replied>>
        /\ ~finalized /\ PipeBreakable /\ closing' = TRUE /\ signal' = Escalated
        /\ ask' = Cleared(ask, Waiting(ask)) /\ board' = Synced(Published(board), ask')
    BY DEF InputError, Awake, Breaks, native
  <1>2. /\ ask' \in [Requests -> Request] /\ OneReply' /\ Waiting(ask') = Waiting(ask) \ Waiting(ask)
        /\ \A q \in Requests : ask'[q].turn = ask[q].turn
    <2>1. (closing => closing') /\ UNCHANGED <<replied, scope>>
      BY <1>1
    <2> QED BY ONLY <1>1, <2>1, ClaudeInv, ClearedKeeps
  <1>3. /\ Waiting(ask') \subseteq Waiting(ask)
        /\ \A q \in Waiting(ask') : ask'[q].turn = ask[q].turn
    BY <1>2
  <1>4. /\ Good(board)' /\ Inputs' /\ RunInv' /\ Belongs'
        /\ Waits' /\ PausedWhileWaiting' /\ Shifts
    BY <1>1, <1>3, SyncStep
  <1>5. signal' \in {"none", "term", "kill"}
    BY <1>0, <1>1 DEF Escalated, TypeOK
  <1>6. TypeOK'
    BY <1>0, <1>1, <1>2, <1>4, <1>5 DEF TypeOK, Good
  <1> QED BY <1>2, <1>4, <1>6 DEF ClaudeInv

(* A request is raised on the live turn, or on one it opens. *)
LEMMA RequestStep ==
  ASSUME ClaudeInv, NEW r \in Requests, RequestRead(r)
  PROVE  ClaudeInv' /\ Shifts
  <1>0. TypeOK /\ Good(board) /\ MaxOutputs \in Nat /\ OneReply /\ Belongs /\ Waits /\ PausedWhileWaiting
    BY BoundsAssumption DEF ClaudeInv
  <1>1. /\ UNCHANGED <<scope, sent, refused, dropped, stalled, dead, finalized, inbox, begun, inputs>>
        /\ ~finalized /\ run.no # 0 /\ run.left > 0 /\ attested' = attested
        /\ run' = [run EXCEPT !.left = @ - 1] /\ closer' = Woken(closer)
    BY DEF RequestRead, Going, Awake, OfferWakes, Names
  <1>2. \/ UNCHANGED <<ask, board, replied, closing, signal>>
        \/ ask[r].state = "unasked" /\ Offered(r)
    BY DEF RequestRead, Known
  <1>3. run' \in Run /\ run'.no = run.no
    <2>1. run.left - 1 \in 0 .. MaxOutputs
      BY <1>0, <1>1 DEF TypeOK, Run
    <2> QED BY <1>0, <1>1, <2>1 DEF TypeOK, Run
  <1>4. /\ closer' \in {"none", "draining", "woken", "ended"} /\ attested \subseteq Sends
        /\ ask \in [Requests -> Request] /\ replied \in [Requests -> Nat]
        /\ closing \in BOOLEAN /\ signal \in {"none", "term", "kill"}
    BY <1>0, <1>1 DEF TypeOK, Woken
  <1>5. CASE UNCHANGED <<ask, board, replied, closing, signal>>
    <2>1. Shifts
      BY <1>1, <1>4, <1>5 DEF Shifts
    <2>2. Good(board)' /\ Inputs'
      BY <1>1, <2>1, InputsKeep
    <2>3. RunInv' /\ Belongs'
      <3>1. Moves(board, board, {}) /\ Fresh(board, board)
        BY <1>0, NoMove
      <3>2. ~Walls /\ ~PipeBreakable /\ Public(board') /\ board'.opener # 0 =>
              run'.no # 0 /\ board'.opener \in inputs[run.no]
        BY <1>0, <1>3, <1>5 DEF Belongs
      <3> QED BY <1>1, <1>3, <1>5, <3>1, <3>2, RunsKeep
    <2>4. Waits' /\ PausedWhileWaiting' /\ OneReply'
      BY <1>1, <1>5, WaitsKeep
    <2>5. TypeOK'
      BY <1>0, <1>1, <1>3, <1>4, <1>5 DEF TypeOK
    <2> QED BY <2>1, <2>2, <2>3, <2>4, <2>5 DEF ClaudeInv
  <1>6. CASE ask[r].state = "unasked" /\ Offered(r)
    <2> DEFINE naming == FALSE
               d == ForOutput(After(naming))
               e == Landed(d, run.no)
               full == Cardinality(Waiting(ask)) >= PendingCap
    <2>0. /\ naming \in BOOLEAN /\ After(naming) = board /\ NamedBy(naming) = {} /\ run.no # 0
          /\ d = ForOutput(After(naming)) /\ e = Landed(d, run.no)
      BY <1>1 DEF After, NamedBy
    <2> HIDE DEF naming, d, e
    <2>1. /\ Moves(board, e, NamedBy(naming)) /\ Tuned(board, e) /\ Good(e) /\ (~Closed => Public(e))
          /\ Moves(board, d, NamedBy(naming)) /\ Fresh(board, d) /\ Len(e.turns) = Len(d.turns)
          /\ \A i \in 1 .. Len(d.turns) :
                /\ e.turns[i].opener = d.turns[i].opener
                /\ \/ e.turns[i].runs = d.turns[i].runs
                   \/ /\ Public(d) /\ d.turns[i].no = d.turn /\ run.no # 0
                      /\ e.turns[i].runs = d.turns[i].runs \cup {run.no}
                      /\ ~Walls /\ ~PipeBreakable /\ d.opener # 0 => d.opener \in inputs[run.no]
          /\ ~Walls /\ ~PipeBreakable /\ Public(e) /\ e.opener # 0 => e.opener \in inputs[run.no]
      <3>1. Moves(board, e, NamedBy(naming)) /\ Tuned(board, e)
        BY ONLY ClaudeInv, <2>0, LandedMoves
      <3>2. Good(e) /\ (~Closed => Public(e))
        BY ONLY ClaudeInv, <2>0, LandedMoves
      <3>3. Moves(board, d, NamedBy(naming)) /\ Fresh(board, d)
        BY ONLY ClaudeInv, <2>0, RecordMoves
      <3>4. ASSUME NEW i \in 1 .. Len(d.turns)
            PROVE /\ e.turns[i].opener = d.turns[i].opener
                /\ \/ e.turns[i].runs = d.turns[i].runs
                   \/ /\ Public(d) /\ d.turns[i].no = d.turn /\ run.no # 0
                      /\ e.turns[i].runs = d.turns[i].runs \cup {run.no}
                      /\ ~Walls /\ ~PipeBreakable /\ d.opener # 0 => d.opener \in inputs[run.no]
        BY ONLY ClaudeInv, <2>0, <3>4, LandedMoves
      <3>5. ~Walls /\ ~PipeBreakable /\ Public(e) /\ e.opener # 0 => e.opener \in inputs[run.no]
        BY ONLY ClaudeInv, <2>0, LandedMoves
      <3>6. Len(e.turns) = Len(d.turns)
        BY ONLY ClaudeInv, <2>0, LandedMoves
      <3> QED BY <3>1, <3>2, <3>3, <3>4, <3>5, <3>6
    <2>2. \/ /\ ~full
             /\ ask' = [ask EXCEPT ![r] = [state |-> "waiting", turn |-> e.turn]]
             /\ board' = Synced(e, ask') /\ UNCHANGED <<replied, closing, signal>>
          \/ /\ ask' = [ask EXCEPT ![r].state = "denied"] /\ board' = e
             /\ \/ replied' = [replied EXCEPT ![r] = @ + 1] /\ UNCHANGED <<closing, signal>>
                \/ PipeBreakable /\ closing' = TRUE /\ signal' = Escalated /\ UNCHANGED replied
      BY <1>6, <2>0 DEF Offered, Breaks, d
    <2>3. NamedBy(naming) = {} /\ e.turn \in Nat /\ replied[r] = 0
      <3>1. replied[r] <= 0 /\ replied[r] \in Nat
        BY <1>0, <1>4, <1>6 DEF OneReply
      <3> QED BY <2>0, <2>1, <3>1, BoardParts DEF Good
    <2>4. /\ closing' \in BOOLEAN /\ (closing => closing') /\ signal' \in {"none", "term", "kill"}
          /\ replied' \in [Requests -> Nat] /\ ask' \in [Requests -> Request]
          /\ (Closed => Closed')
          /\ \/ ask'[r].state = "waiting" /\ ask'[r].turn = e.turn /\ replied'[r] = 0
             \/ ask'[r].state = "denied" /\ replied'[r] = 1
             \/ ask'[r].state = "denied" /\ replied'[r] = 0 /\ PipeBreakable /\ closing'
          /\ \A q \in Requests : q # r => ask'[q] = ask[q] /\ replied'[q] = replied[q]
      <3>1. CASE /\ ask' = [ask EXCEPT ![r] = [state |-> "waiting", turn |-> e.turn]]
                 /\ UNCHANGED <<replied, closing, signal>>
        BY <1>1, <1>4, <2>3, <3>1 DEF Closed, Request
      <3>2. CASE /\ ask' = [ask EXCEPT ![r].state = "denied"]
                 /\ replied' = [replied EXCEPT ![r] = @ + 1] /\ UNCHANGED <<closing, signal>>
        BY <1>1, <1>4, <2>3, <3>2 DEF Closed, Request
      <3>3. CASE /\ ask' = [ask EXCEPT ![r].state = "denied"]
                 /\ PipeBreakable /\ closing' = TRUE /\ signal' = Escalated /\ UNCHANGED replied
        BY <1>1, <1>4, <2>3, <3>3 DEF Closed, Request, Escalated
      <3> QED BY <2>2, <3>1, <3>2, <3>3
    <2>5. /\ Moves(board, board', {}) /\ Len(board'.turns) = Len(d.turns) /\ board'.turns = e.turns
          /\ (Public(board') <=> Public(e)) /\ board'.opener = e.opener /\ board'.turn = e.turn
          /\ board'.watched = e.watched
      <3>1. CASE board' = Synced(e, ask')
        <4>1. /\ Still(e, board') /\ board'.turns = e.turns /\ board'.opener = e.opener
              /\ board'.turn = e.turn /\ (Public(board') <=> Public(e)) /\ board'.watched = e.watched
          BY <2>1, <3>1, SyncedStill
        <4>2. Moves(board, board', NamedBy(naming))
          BY ONLY <2>1, <4>1, StillMoves
        <4> QED BY <2>1, <2>3, <4>1, <4>2
      <3>2. CASE board' = e
        BY <2>1, <2>3, <3>2
      <3> QED BY <2>2, <3>1, <3>2
    <2>6. Shifts
      BY <1>1, <1>4, <2>5 DEF Shifts
    <2>7. Good(board)' /\ Inputs'
      BY <1>1, <2>6, InputsKeep
    <2>8. RunInv' /\ Belongs'
      <3>1. ~Walls /\ ~PipeBreakable /\ Public(board') /\ board'.opener # 0 =>
              run'.no # 0 /\ board'.opener \in inputs[run.no]
        BY <1>1, <1>3, <2>1, <2>5
      <3> QED BY <1>1, <1>3, <2>1, <2>5, <3>1, RunsKeep
    <2>9. ~Closed => e.turn # 0
      BY <2>1 DEF Public
    <2>10. Waits'
      <3> SUFFICES ASSUME NEW q \in Waiting(ask')
                   PROVE  (ask'[q].turn = board'.turn /\ board'.turn # 0) \/ (ask'[q].turn = 0 /\ Closed')
        BY DEF Waits
      <3>1. CASE q = r
        <4>1. ask'[r].turn = e.turn
          BY <2>4, <3>1 DEF Waiting
        <4> QED BY <2>4, <2>5, <2>9, <3>1, <4>1
      <3>2. CASE q # r
        <4>1. q \in Waiting(ask) /\ ask'[q] = ask[q]
          BY <2>4, <3>2 DEF Waiting
        <4>2. (ask[q].turn = board.turn /\ board.turn # 0) \/ (ask[q].turn = 0 /\ Closed)
          BY <1>0, <4>1 DEF Waits
        <4>3. board.turn # 0 => e.turn = board.turn
          BY <2>1 DEF Tuned
        <4> QED BY <2>4, <2>5, <4>1, <4>2, <4>3
      <3> QED BY <3>1, <3>2
    <2>11. PausedWhileWaiting'
      <3>1. CASE board' = Synced(e, ask')
        BY <2>1, <3>1, SyncedStill DEF PausedWhileWaiting
      <3>2. CASE board' = e /\ ask' = [ask EXCEPT ![r].state = "denied"]
        <4>1. Waiting(ask') = Waiting(ask)
          BY <1>4, <1>6, <3>2 DEF Waiting
        <4>2. board.turn = 0 /\ ~Closed => Waiting(ask) = {}
          BY <1>0 DEF Waits
        <4> QED BY <1>0, <2>1, <3>2, <4>1, <4>2 DEF PausedWhileWaiting, Tuned
      <3> QED BY <2>2, <3>1, <3>2
    <2>12. OneReply'
      <3> SUFFICES ASSUME NEW q \in Requests
                   PROVE  /\ replied'[q] <= (IF ask'[q].state \in {"answered", "denied"} THEN 1 ELSE 0)
                          /\ ask'[q].state \in {"answered", "denied"} /\ replied'[q] = 0 =>
                               PipeBreakable /\ closing'
        BY <1>1 DEF OneReply, PipeBreakable
      <3>1. CASE q = r
        BY <2>4, <3>1
      <3>2. CASE q # r
        BY <1>0, <2>4, <3>2 DEF OneReply
      <3> QED BY <3>1, <3>2
    <2>13. TypeOK'
      BY <1>0, <1>1, <1>3, <1>4, <2>4, <2>7 DEF TypeOK, Good
    <2> QED BY <2>6, <2>7, <2>8, <2>10, <2>11, <2>12, <2>13 DEF ClaudeInv
  <1> QED BY <1>2, <1>5, <1>6

-----------------------------------------------------------------------------
(* The end of the session *)

(* What waits is dropped, after the live turn was shown. *)
Ending ==
  /\ UNCHANGED <<sent, refused, attested>> /\ finalized' = TRUE /\ ~finalized
  /\ Held(board') = {} /\ dropped = {}
  /\ \E o : Moves(board, o, {}) /\ board'.turns = o.turns /\ dropped' = Held(o)

LEMMA FinalizeStep ==
  ASSUME ClaudeInv, Finalize
  PROVE  ClaudeInv' /\ Ending
  <1>0. TypeOK /\ Good(board) /\ Inputs /\ OneReply
    BY DEF ClaudeInv
  <1>1. /\ UNCHANGED <<scope, sent, refused, replied, closing, closer, signal, stalled, dead>>
        /\ UNCHANGED <<inbox, run, begun, inputs, attested>>
        /\ ~finalized /\ finalized' = TRUE /\ dead
        /\ ask' = Cleared(ask, Waiting(ask)) /\ dropped' = Elements(board.pending)
        /\ board' = [Over(Synced(board, ask')) EXCEPT !.pending = <<>>]
    BY DEF Finalize, Awake, native, Elements
  <1>2. /\ ask' \in [Requests -> Request] /\ OneReply' /\ Waiting(ask') = Waiting(ask) \ Waiting(ask)
        /\ \A q \in Requests : ask'[q].turn = ask[q].turn
    <2>1. (closing => closing') /\ UNCHANGED <<replied, scope>>
      BY <1>1
    <2> QED BY ONLY <1>1, <2>1, ClaudeInv, ClearedKeeps
  <1> DEFINE c == Synced(board, ask')
             o == Over(c)
  <1>3. Still(board, c) /\ c.turns = board.turns /\ c.pending = board.pending
    BY <1>0, SyncedStill
  <1>4. Moves(board, board, {})
    BY <1>0, NoMove
  <1>5. Moves(board, c, {}) /\ Held(c) = Held(board) /\ Shows(c) = Shows(board)
    BY ONLY <1>3, <1>4, StillMoves
  <1>6. Good(c)
    BY <1>5 DEF Moves
  <1>7. /\ Moves(c, o, {}) /\ Fresh(c, o) /\ o.turn = 0 /\ o.opener = 0
        /\ ~o.watched /\ o.pending = c.pending
    BY <1>6, OverMoves
  <1> HIDE DEF o
  <1>8. Moves(board, o, {}) /\ Fresh(board, o)
    <2>1. Fresh(board, o)
      BY <1>3, <1>7 DEF Fresh
    <2> QED BY <1>3, <1>5, <1>7, <2>1 DEF Moves
  <1>9. Good(o) /\ o \in Board /\ Numbered(o) /\ Kept(o)
    BY <1>7 DEF Moves, Good
  <1>10. board' = [o EXCEPT !.pending = <<>>]
    BY <1>1 DEF o
  <1> HIDE DEF c
  <1>11. <<>> \in Seq(Sends) /\ Len(<<>>) = 0
    OBVIOUS
  <1>12. /\ board' \in Board /\ board'.turn = 0 /\ board'.opener = 0 /\ ~board'.watched
         /\ board'.turns = o.turns /\ board'.count = o.count /\ board'.pending = <<>>
    BY <1>7, <1>9, <1>10, <1>11 DEF Board
  <1>13. Elements(board'.pending) = {} /\ Distinct(board'.pending) /\ ~Private(board') /\ ~Public(board')
    BY <1>11, <1>12 DEF Elements, Distinct, Private, Public
  <1>14. Held(board') = {}
    BY <1>13 DEF Held
  <1>15. Held(o) = Elements(board.pending)
    BY <1>3, <1>7 DEF Held, Private
  <1>16. Shows(board') = Shows(o)
    BY <1>12 DEF Shows
  <1>17. Good(board')
    <2>1. Numbered(board')
      BY <1>7, <1>9, <1>12, <1>13 DEF Numbered
    <2>2. Kept(board')
      BY <1>13, <1>14 DEF Kept
    <2> QED BY <1>12, <2>1, <2>2 DEF Good
  <1>18. dropped = {}
    BY <1>0, <1>1 DEF Inputs
  <1>19. Ending
    BY <1>1, <1>8, <1>12, <1>14, <1>15, <1>18 DEF Ending
  <1>20. Inputs'
    <2>1. Shows(o) \subseteq Shows(board) \cup Held(board) \cup {0} /\ Held(o) \subseteq Held(board)
      BY <1>0, <1>8, MovesShow
    <2>2. \A s \in dropped' : s \in 1 .. sent /\ s \notin refused /\ s \notin Shows(board')
      BY <1>0, <1>1, <1>9, <1>15, <1>16, <2>1 DEF Inputs, Kept
    <2>3. \A s \in Held(board') \cup (Shows(board') \ {0}) : s \in 1 .. sent /\ s \notin refused
      BY <1>0, <1>14, <1>16, <2>1 DEF Inputs
    <2> QED BY <1>0, <1>1, <1>12, <1>14, <2>2, <2>3 DEF Inputs
  <1>21. RunInv' /\ Belongs'
    <2>1. Fresh(board, board')
      BY <1>8, <1>12 DEF Fresh
    <2>2. Len(board'.turns) = Len(o.turns) /\ run'.no \in {run.no, 0} /\ UNCHANGED <<scope, begun, inputs>>
      BY <1>1, <1>12
    <2> QED BY <1>8, <1>12, <1>13, <2>2, RunsKeep
  <1>22. Waits' /\ PausedWhileWaiting'
    BY <1>2, <1>12 DEF Waits, PausedWhileWaiting
  <1>23. dropped' \subseteq Sends
    BY <1>0, <1>1, BoardParts DEF Good
  <1>24. TypeOK'
    BY <1>0, <1>1, <1>2, <1>12, <1>23 DEF TypeOK
  <1> QED BY <1>2, <1>17, <1>19, <1>20, <1>21, <1>22, <1>24 DEF ClaudeInv

-----------------------------------------------------------------------------
(* The invariant *)

LEMMA ClaudeInit == Init => ClaudeInv
  <1> SUFFICES ASSUME Init PROVE ClaudeInv
    OBVIOUS
  <1>1. /\ scope \in Scopes /\ sent = 0 /\ refused = {} /\ dropped = {} /\ closing = FALSE
        /\ closer = "none" /\ signal = "none" /\ stalled = FALSE /\ dead = FALSE /\ finalized = FALSE
        /\ inbox = {} /\ run = Idle /\ begun = 0 /\ attested = {}
        /\ inputs = [n \in Runs |-> {}] /\ replied = [r \in Requests |-> 0]
        /\ ask = [r \in Requests |-> [state |-> "unasked", turn |-> 0]]
        /\ board = [turn |-> 0, opener |-> 0, count |-> 0, pending |-> <<>>, turns |-> <<>>,
                    watched |-> FALSE, paused |-> FALSE]
        /\ MaxSends \in Nat /\ MaxRuns \in Nat /\ MaxOutputs \in Nat
    BY BoundsAssumption DEF Init
  <1>2. <<>> \in Seq(Sends) /\ <<>> \in Seq(PublicTurn) /\ Len(<<>>) = 0
    OBVIOUS
  <1>3. /\ board \in Board /\ board.turn = 0 /\ board.opener = 0 /\ board.count = 0
        /\ board.pending = <<>> /\ board.turns = <<>> /\ ~board.watched
    BY <1>1, <1>2 DEF Board
  <1>4. run \in Run /\ run.no = 0
    BY <1>1 DEF Idle, Run
  <1>5. ask \in [Requests -> Request] /\ Waiting(ask) = {}
    BY <1>1 DEF Request, Waiting
  <1>6. inputs \in [Runs -> SUBSET Sends] /\ replied \in [Requests -> Nat]
    BY <1>1
  <1>7. sent \in 0 .. MaxSends /\ begun \in 0 .. MaxRuns
    BY <1>1
  <1>8. TypeOK
    BY <1>1, <1>3, <1>4, <1>5, <1>6, <1>7 DEF TypeOK
  <1>9. Held(board) = {} /\ Shows(board) = {} /\ ~Private(board) /\ ~Public(board)
    BY <1>2, <1>3 DEF Held, Elements, Shows, Private, Public
  <1>10. Good(board)
    BY <1>2, <1>3, <1>9 DEF Good, Numbered, Kept, Distinct
  <1>11. Inputs /\ RunInv /\ Belongs
    BY <1>1, <1>2, <1>3, <1>4, <1>9 DEF Inputs, RunInv, Belongs, Owned
  <1>12. Waits /\ PausedWhileWaiting
    BY <1>3, <1>5 DEF Waits, PausedWhileWaiting
  <1>13. OneReply
    BY <1>1 DEF OneReply
  <1> QED BY <1>8, <1>10, <1>11, <1>12, <1>13 DEF ClaudeInv

(* Every step keeps the invariant, and is one of three to an input. *)
LEMMA ClaudeNext ==
  ASSUME ClaudeInv, [Next]_vars
  PROVE  ClaudeInv' /\ (Shifts \/ (\E s \in Sends : Sending(s)) \/ Ending)
  <1>1. CASE \E s \in Sends : Send(s)
    BY <1>1, SendStep
  <1>2. CASE \E r \in Requests : Decide(r)
    BY <1>2, DecideStep
  <1>3. CASE (\E drain \in BOOLEAN : Close(drain)) \/ DrainCheck \/ CloseGrace \/ KillGrace
             \/ UNCHANGED vars
    BY <1>3, QuietStep
  <1>4. CASE \E S \in SUBSET inbox : RunStarts(S) \/ Joins(S)
    BY <1>4, RunStep
  <1>5. CASE InitRead
    BY <1>5, InitStep
  <1>6. CASE ResultRead
    BY <1>6, ResultStep
  <1>7. CASE \E naming \in BOOLEAN : OutputRead(naming)
    BY <1>7, OutputStep
  <1>8. CASE \E r \in Requests : RequestRead(r)
    BY <1>8, RequestStep
  <1>9. CASE \E r \in Requests : CancelRead(r)
    BY <1>9, CancelStep
  <1>10. CASE WallRead
    BY <1>10, WallStep
  <1>11. CASE Stall
    BY <1>11, StallStep
  <1>12. CASE InputError
    BY <1>12, InputErrorStep
  <1>13. CASE Exited
    BY <1>13, ExitStep
  <1>14. CASE Finalize
    BY <1>14, FinalizeStep
  <1> QED
    BY <1>1, <1>2, <1>3, <1>4, <1>5, <1>6, <1>7, <1>8, <1>9, <1>10, <1>11, <1>12, <1>13, <1>14
    DEF Next, Native, Done

(* Whatever the bounds, the sessions run and the order of the calls: an     *)
(* input waits in one place, a shown turn is numbered and owned, and the    *)
(* tracker, the clock and the live turn agree.                              *)
THEOREM ClaudeInvariant == Spec => []ClaudeInv
  <1>1. Init => ClaudeInv
    BY ClaudeInit
  <1>2. ClaudeInv /\ [Next]_vars => ClaudeInv'
    BY ClaudeNext
  <1> QED BY <1>1, <1>2, PTL DEF Spec

(* A turn that carries an input's id carries only the output of runs that   *)
(* answer the input (correlateInputUuids, publishUntagged, routeEvent).     *)
THEOREM OutputStaysHome == Spec => []OutputBelongs
  <1>1. ClaudeInv => OutputBelongs
    BY DEF ClaudeInv, Belongs, Owned, OutputBelongs
  <1> QED BY <1>1, ClaudeInvariant, PTL

(* A request that waits has the live turn, one reply at most, and a stall   *)
(* clock that stands still for it (createSessionApprovalTracker).           *)
THEOREM ApprovalsHandled == Spec => []ApprovalsInv
  <1>1. ClaudeInv => ApprovalsInv
    BY DEF ClaudeInv, Waits, WaitsOnLiveTurn, ApprovalsInv
  <1> QED BY <1>1, ClaudeInvariant, PTL

-----------------------------------------------------------------------------
(* The fates of the inputs *)

(* What the invariant says of an input's fate. *)
Fated(s) ==
  /\ Fate(s) \in {"unsent", "refused", "dropped", "waiting", "opened", "joined"}
  /\ Fate(s) = "unsent" <=> s > sent
  /\ Fate(s) = "refused" <=> s \in refused
  /\ Fate(s) = "dropped" <=> s \in dropped
  /\ Fate(s) = "waiting" <=> s \in Held(board)
  /\ Fate(s) = "opened" <=> s \in Shows(board)

LEMMA FateIs == ClaudeInv => \A s \in Sends : Fated(s)
  <1> SUFFICES ASSUME ClaudeInv, NEW s \in Sends PROVE Fated(s)
    OBVIOUS
  <1>1. Inputs /\ Kept(board) /\ sent \in Nat /\ s \in Nat /\ s # 0
    BY BoundsAssumption DEF ClaudeInv, TypeOK, Good, Sends
  <1>2. s \in Held(board) <=> s \in PendingSet \/ (s = board.opener /\ Private(board))
    BY DEF Held, PendingSet, Elements
  <1>3. s \in Shows(board) <=> s \in Openers
    BY DEF Shows, Openers
  <1>4. /\ s \in refused => ~(s > sent)
        /\ s \in dropped => ~(s > sent) /\ s \notin refused /\ s \notin Shows(board) /\ s \notin Held(board)
        /\ s \in Held(board) => ~(s > sent) /\ s \notin refused /\ s \notin Shows(board)
        /\ s \in Shows(board) => ~(s > sent) /\ s \notin refused
    BY <1>1 DEF Inputs, Kept
  <1> QED BY <1>2, <1>3, <1>4 DEF Fate, Fated

LEMMA FateWillBe == ClaudeInv' => \A s \in Sends : Fated(s)'
  <1>1. ClaudeInv => \A s \in Sends : Fated(s)
    BY FateIs
  <1>2. ClaudeInv' => (\A s \in Sends : Fated(s))'
    BY <1>1, PTL
  <1> QED BY <1>2

(* A step as InputFates sees it. *)
Becoming(s) ==
  \/ Fate(s)' = Fate(s)
  \/ Fate(s) = "unsent" /\ Fate(s)' \in {"waiting", "refused", "opened"} /\ ~finalized
  \/ Fate(s) = "waiting" /\ Fate(s)' = "opened" /\ ~finalized
  \/ Fate(s) = "waiting" /\ Fate(s)' = "joined" /\ s \in attested' /\ ~finalized
  \/ Fate(s) = "waiting" /\ Fate(s)' = "dropped" /\ finalized'

Steps ==
  /\ \A s \in Sends : Becoming(s)
  /\ attested \subseteq attested'
  /\ Len(board'.turns) \in Len(board.turns) .. (Len(board.turns) + 1)
  /\ \A s, r \in Sends : s \in Shows(board') \ Shows(board) /\ r \in Shows(board') \ Shows(board) => s = r
  /\ \A s \in Sends : s \in Shows(board') \ Shows(board) => Len(board'.turns) = Len(board.turns) + 1
  /\ \A s \in Sends : Fate(s) # "joined" /\ Fate(s)' = "joined" => Len(board'.turns) > 0
  /\ finalized => finalized'

LEMMA StepsPromised ==
  ASSUME ClaudeInv, ClaudeInv', Steps
  PROVE  Promise!Next
  <1>1. ASSUME NEW s \in Sends
        PROVE  /\ Fate(s)' \in {"unsent", "refused", "dropped", "waiting", "opened", "joined"}
               /\ Fate(s)' = "waiting" <=> s \in Held(board')
               /\ Fate(s)' = "opened" <=> s \in Shows(board')
    BY FateWillBe DEF Fated
  <1>2. ASSUME NEW s \in Sends
        PROVE  Fate(s) = "opened" <=> s \in Shows(board)
    BY FateIs DEF Fated
  <1>3. Promise!Sends = Sends
    BY DEF Promise!Sends, Sends
  <1>4. [s \in Sends |-> Fate(s)]' \in [Promise!Sends -> Promise!Fates]
    BY <1>1, <1>3 DEF Promise!Fates
  <1>5. \A s \in Promise!Sends : Promise!Becomes(s, [q \in Sends |-> Fate(q)]'[s])
    <2> SUFFICES ASSUME NEW s \in Sends PROVE Promise!Becomes(s, Fate(s)')
      BY <1>3
    <2>1. Becoming(s)
      BY DEF Steps
    <2> QED BY <2>1 DEF Becoming, Promise!Becomes
  <1>6. attested \subseteq attested' /\ attested' \subseteq Promise!Sends
    BY <1>3 DEF Steps, ClaudeInv, TypeOK
  <1>7. \A s, r \in Promise!Opens : s = r
    BY <1>1, <1>2, <1>3 DEF Promise!Opens, Steps
  <1>8. Promise!Opens # {} => Len(board'.turns) = Len(board.turns) + 1
    BY <1>1, <1>2, <1>3 DEF Promise!Opens, Steps
  <1>9. Promise!Joins # {} => Len(board'.turns) > 0
    BY <1>3 DEF Promise!Joins, Steps
  <1>10. finalized' => \A s \in Promise!Sends : [q \in Sends |-> Fate(q)]'[s] # "waiting"
    <2>1. finalized' => Held(board') = {}
      BY DEF ClaudeInv, Inputs
    <2> QED BY <1>1, <1>3, <2>1
  <1> QED
    BY <1>4, <1>5, <1>6, <1>7, <1>8, <1>9, <1>10 DEF Promise!Next, Steps

(* The turns of a board after a move: one more at most, with one new id. *)
LEMMA MovesCount ==
  ASSUME NEW b, NEW d, NEW S, Good(b), Moves(b, d, S)
  PROVE  /\ Len(d.turns) \in Len(b.turns) .. (Len(b.turns) + 1)
         /\ \A s, r \in Shows(d) \ Shows(b) : s = r
         /\ Shows(d) \ Shows(b) # {} => Len(d.turns) = Len(b.turns) + 1
  <1>1. /\ Len(b.turns) \in Nat
        /\ Len(d.turns) \in {Len(b.turns), Len(b.turns) + 1}
        /\ \A i \in 1 .. Len(b.turns) : d.turns[i].opener = b.turns[i].opener
    BY BoardParts DEF Moves, Good
  <1>2. ASSUME NEW s \in Shows(d) \ Shows(b)
        PROVE  Len(d.turns) = Len(b.turns) + 1 /\ s = d.turns[Len(d.turns)].opener
    <2>1. PICK i \in 1 .. Len(d.turns) : s = d.turns[i].opener
      BY DEF Shows
    <2>2. i \notin 1 .. Len(b.turns)
      BY <1>1, <2>1 DEF Shows
    <2> QED BY <1>1, <2>1, <2>2
  <1> QED BY <1>1, <1>2

LEMMA ShiftsPromised ==
  ASSUME ClaudeInv, ClaudeInv', Shifts
  PROVE  Steps
  <1>1. /\ UNCHANGED <<sent, refused, dropped, finalized>> /\ attested \subseteq attested'
        /\ Good(board) /\ Len(board.turns) \in Nat
    BY BoardParts DEF Shifts, ClaudeInv, Good
  <1>2. ASSUME NEW s \in Sends
        PROVE  /\ Fate(s) \in {"unsent", "refused", "dropped", "waiting", "opened", "joined"}
               /\ Fate(s) = "unsent" <=> s > sent
               /\ Fate(s) = "refused" <=> s \in refused
               /\ Fate(s) = "dropped" <=> s \in dropped
               /\ Fate(s) = "waiting" <=> s \in Held(board)
               /\ Fate(s) = "opened" <=> s \in Shows(board)
    BY FateIs DEF Fated
  <1>3. ASSUME NEW s \in Sends
        PROVE  /\ Fate(s)' \in {"unsent", "refused", "dropped", "waiting", "opened", "joined"}
               /\ Fate(s)' = "unsent" <=> s > sent
               /\ Fate(s)' = "refused" <=> s \in refused
               /\ Fate(s)' = "dropped" <=> s \in dropped
               /\ Fate(s)' = "waiting" <=> s \in Held(board')
               /\ Fate(s)' = "opened" <=> s \in Shows(board')
    BY <1>1, FateWillBe DEF Fated
  <1>4. CASE board' = board
    <2>1. Held(board') = Held(board) /\ Shows(board') = Shows(board)
      BY <1>4
    <2>2. \A s \in Sends : Fate(s)' = Fate(s)
      BY <1>2, <1>3, <2>1
    <2> QED BY <1>1, <1>4, <2>1, <2>2 DEF Steps, Becoming
  <1>5. CASE board' # board
    <2>1. PICK S \in SUBSET Sends : ~finalized /\ S \subseteq attested' /\ Moves(board, board', S)
      BY <1>5 DEF Shifts
    <2>2. /\ Shows(board) \subseteq Shows(board') /\ Held(board') \subseteq Held(board)
          /\ Shows(board') \subseteq Shows(board) \cup Held(board) \cup {0}
      BY <1>1, <2>1, MovesShow
    <2>3. \A s \in Held(board) :
            s \in Held(board') \/ (s \in S /\ Len(board'.turns) > 0) \/ s \in Shows(board')
      BY <2>1 DEF Moves
    <2>4. /\ Len(board'.turns) \in Len(board.turns) .. (Len(board.turns) + 1)
          /\ \A s, r \in Shows(board') \ Shows(board) : s = r
          /\ Shows(board') \ Shows(board) # {} => Len(board'.turns) = Len(board.turns) + 1
      BY <1>1, <2>1, MovesCount
    <2>5. ASSUME NEW s \in Sends
          PROVE  /\ Becoming(s)
                 /\ Fate(s) # "joined" /\ Fate(s)' = "joined" => Len(board'.turns) > 0
      <3>0. s # 0
        BY DEF Sends
      <3>1. CASE s \in Held(board)
        BY <1>2, <1>3, <2>1, <2>3, <3>1 DEF Becoming
      <3>2. CASE s \notin Held(board)
        <4>1. s \in Shows(board') <=> s \in Shows(board)
          BY <2>2, <3>0, <3>2
        <4>2. Fate(s)' = Fate(s)
          BY <1>2, <1>3, <2>2, <3>2, <4>1
        <4> QED BY <4>2 DEF Becoming
      <3> QED BY <3>1, <3>2
    <2> QED BY <1>1, <2>4, <2>5 DEF Steps
  <1> QED BY <1>4, <1>5

LEMMA SendingPromised ==
  ASSUME ClaudeInv, ClaudeInv', NEW x \in Sends, Sending(x)
  PROVE  Steps
  <1>1. /\ ~finalized /\ x = sent + 1 /\ sent' = x /\ UNCHANGED <<dropped, finalized, attested>>
        /\ Good(board) /\ Len(board.turns) \in Nat /\ sent \in Nat /\ Inputs
    BY BoardParts, BoundsAssumption DEF Sending, ClaudeInv, Good, TypeOK
  <1>2. ASSUME NEW s \in Sends
        PROVE  /\ Fate(s) \in {"unsent", "refused", "dropped", "waiting", "opened", "joined"}
               /\ Fate(s) = "unsent" <=> s > sent
               /\ Fate(s) = "refused" <=> s \in refused
               /\ Fate(s) = "dropped" <=> s \in dropped
               /\ Fate(s) = "waiting" <=> s \in Held(board)
               /\ Fate(s) = "opened" <=> s \in Shows(board)
    BY FateIs DEF Fated
  <1>3. ASSUME NEW s \in Sends
        PROVE  /\ Fate(s)' \in {"unsent", "refused", "dropped", "waiting", "opened", "joined"}
               /\ Fate(s)' = "unsent" <=> s > sent'
               /\ Fate(s)' = "refused" <=> s \in refused'
               /\ Fate(s)' = "dropped" <=> s \in dropped
               /\ Fate(s)' = "waiting" <=> s \in Held(board')
               /\ Fate(s)' = "opened" <=> s \in Shows(board')
    BY <1>1, FateWillBe DEF Fated
  <1>4. Fate(x) = "unsent" /\ \A s \in Sends : s # x => (s > sent' <=> s > sent)
    <2>1. x > sent
      BY <1>1
    <2>2. \A s \in Sends : s # x => (s > sent' <=> s > sent)
      BY <1>1 DEF Sends
    <2> QED BY <1>2, <2>1, <2>2
  <1>5. CASE refused' = refused /\ Held(board') = Held(board) \cup {x} /\ board'.turns = board.turns
    <2>1. Shows(board') = Shows(board)
      BY <1>5 DEF Shows
    <2>2. Fate(x)' = "waiting"
      BY <1>3, <1>5
    <2>3. \A s \in Sends : s # x => Fate(s)' = Fate(s)
      BY <1>2, <1>3, <1>4, <1>5, <2>1
    <2>4. \A s \in Sends : Becoming(s) /\ (Fate(s)' = "joined" => Fate(s) = "joined")
      BY <1>1, <1>4, <2>2, <2>3 DEF Becoming
    <2> QED BY <1>1, <1>5, <2>1, <2>4 DEF Steps
  <1>6. CASE refused' = refused \cup {x} /\ Moves(board, board', {})
    <2>1. /\ Shows(board) \subseteq Shows(board') /\ Held(board') \subseteq Held(board)
          /\ Shows(board') \subseteq Shows(board) \cup Held(board) \cup {0}
      BY <1>1, <1>6, MovesShow
    <2>2. \A s \in Held(board) : s \in Held(board') \/ s \in Shows(board')
      BY <1>6 DEF Moves
    <2>3. /\ Len(board'.turns) \in Len(board.turns) .. (Len(board.turns) + 1)
          /\ \A s, r \in Shows(board') \ Shows(board) : s = r
          /\ Shows(board') \ Shows(board) # {} => Len(board'.turns) = Len(board.turns) + 1
      BY <1>1, <1>6, MovesCount
    <2>4. Fate(x)' = "refused"
      BY <1>3, <1>6
    <2>5. ASSUME NEW s \in Sends, s # x
          PROVE  Becoming(s) /\ (Fate(s)' = "joined" => Fate(s) = "joined")
      <3>0. s # 0
        BY DEF Sends
      <3>1. CASE s \in Held(board)
        BY <1>1, <1>2, <1>3, <2>2, <3>1 DEF Becoming
      <3>2. CASE s \notin Held(board)
        <4>1. s \in Shows(board') <=> s \in Shows(board)
          BY <2>1, <3>0, <3>2
        <4>2. Fate(s)' = Fate(s)
          BY <1>2, <1>3, <1>4, <1>6, <2>1, <2>5, <3>2, <4>1
        <4> QED BY <4>2 DEF Becoming
      <3> QED BY <3>1, <3>2
    <2>6. \A s \in Sends : Becoming(s) /\ (Fate(s)' = "joined" => Fate(s) = "joined")
      BY <1>1, <1>4, <2>4, <2>5 DEF Becoming
    <2> QED BY <1>1, <2>3, <2>6 DEF Steps
  <1> QED BY <1>5, <1>6 DEF Sending

LEMMA EndingPromised ==
  ASSUME ClaudeInv, ClaudeInv', Ending
  PROVE  Steps
  <1>1. /\ UNCHANGED <<sent, refused, attested>> /\ finalized' = TRUE /\ ~finalized
        /\ Held(board') = {} /\ dropped = {}
        /\ Good(board) /\ Len(board.turns) \in Nat
    BY BoardParts DEF Ending, ClaudeInv, Good
  <1>2. PICK o : Moves(board, o, {}) /\ board'.turns = o.turns /\ dropped' = Held(o)
    BY DEF Ending
  <1>3. ASSUME NEW s \in Sends
        PROVE  /\ Fate(s) \in {"unsent", "refused", "dropped", "waiting", "opened", "joined"}
               /\ Fate(s) = "unsent" <=> s > sent
               /\ Fate(s) = "refused" <=> s \in refused
               /\ Fate(s) = "dropped" <=> s \in dropped
               /\ Fate(s) = "waiting" <=> s \in Held(board)
               /\ Fate(s) = "opened" <=> s \in Shows(board)
    BY FateIs DEF Fated
  <1>4. ASSUME NEW s \in Sends
        PROVE  /\ Fate(s)' \in {"unsent", "refused", "dropped", "waiting", "opened", "joined"}
               /\ Fate(s)' = "unsent" <=> s > sent
               /\ Fate(s)' = "refused" <=> s \in refused
               /\ Fate(s)' = "dropped" <=> s \in dropped'
               /\ Fate(s)' = "waiting" <=> s \in Held(board')
               /\ Fate(s)' = "opened" <=> s \in Shows(board')
    BY <1>1, FateWillBe DEF Fated
  <1>5. Shows(board') = Shows(o)
    BY <1>2 DEF Shows
  <1>6. /\ Shows(board) \subseteq Shows(o) /\ Held(o) \subseteq Held(board)
        /\ Shows(o) \subseteq Shows(board) \cup Held(board) \cup {0}
    BY <1>1, <1>2, MovesShow
  <1>7. \A s \in Held(board) : s \in Held(o) \/ s \in Shows(o)
    BY <1>2 DEF Moves
  <1>8. /\ Len(o.turns) \in Len(board.turns) .. (Len(board.turns) + 1)
        /\ \A s, r \in Shows(o) \ Shows(board) : s = r
        /\ Shows(o) \ Shows(board) # {} => Len(o.turns) = Len(board.turns) + 1
    BY <1>1, <1>2, MovesCount
  <1>9. ASSUME NEW s \in Sends
        PROVE  Becoming(s) /\ (Fate(s)' = "joined" => Fate(s) = "joined")
    <2>0. s # 0
      BY DEF Sends
    <2>1. CASE s \in Held(board)
      <3>1. Fate(s) = "waiting" /\ Fate(s)' \in {"dropped", "opened"}
        BY <1>2, <1>3, <1>4, <1>5, <1>7, <2>1
      <3> QED BY <1>1, <3>1 DEF Becoming
    <2>2. CASE s \notin Held(board)
      <3>1. (s \in Shows(board') <=> s \in Shows(board)) /\ s \notin dropped'
        BY <1>2, <1>5, <1>6, <2>0, <2>2
      <3>2. Fate(s)' = Fate(s)
        BY <1>1, <1>3, <1>4, <2>2, <3>1
      <3> QED BY <3>2 DEF Becoming
    <2> QED BY <2>1, <2>2
  <1> QED BY <1>1, <1>2, <1>5, <1>8, <1>9 DEF Steps

(* Each input a caller hands over becomes exactly one of what InputFates    *)
(* names, for good: the accepted one waits, and then a turn carries its id, *)
(* or a turn took it in, or the end of the session says it was dropped.     *)
THEOREM SessionTellsFates == Spec => ImplementsFates
  <1>1. Init => Promise!Init
    <2> SUFFICES ASSUME Init PROVE Promise!Init
      OBVIOUS
    <2>1. \A s \in Sends : Fate(s) = "unsent"
      <3>1. \A s \in Sends : s > sent
        BY BoundsAssumption DEF Init, Sends
      <3> QED BY <3>1 DEF Fate
    <2>2. board.turns = <<>> /\ attested = {} /\ finalized = FALSE
      BY DEF Init
    <2> QED BY <2>1, <2>2 DEF Promise!Init, Promise!Sends, Sends
  <1>2. ClaudeInv /\ ClaudeInv' /\ [Next]_vars => Promise!Next
    BY ClaudeNext, ShiftsPromised, SendingPromised, EndingPromised, StepsPromised
  <1> QED BY <1>1, <1>2, ClaudeInvariant, PTL DEF Spec, ImplementsFates, Promise!Spec

=============================================================================
