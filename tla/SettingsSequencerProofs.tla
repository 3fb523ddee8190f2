---------------------- MODULE SettingsSequencerProofs ----------------------
(* What holds of the settings sequencer for every number of ops, every      *)
(* ladder and either harness: each op gets one receipt, in order while the  *)
(* session is open, and what a receipt reports is what the harness runs.    *)
EXTENDS SettingsSequencer, WellFoundedInduction, SequenceTheorems, TLAPS

-----------------------------------------------------------------------------
(* The inductive invariant *)

(* The op in flight and those behind it, in the order of their calls. *)
Waiting == IF op = NoOp THEN {} ELSE op.no .. op.no + Len(queue)

Line ==
  /\ op = NoOp => queue = <<>>
  /\ op # NoOp => op.no \in 1 .. submitted /\ op.no + Len(queue) <= submitted
  /\ op.no = 0 => op = NoOp
  /\ queue = [i \in 1 .. Len(queue) |-> op.no + i]
  /\ \A o \in 1 .. submitted : request[o] \in Asks

Owing ==
  /\ \A o \in Ops : receipts[o].state # "none" <=> o \in (1 .. submitted) \ Waiting
  /\ \A o \in Ops : Within(log, o) <=> receipts[o].state # "none"
  /\ \A i, j \in 1 .. Len(log) : log[i] = log[j] => i = j
  /\ finalized => dead /\ op = NoOp

(* While the session is open the receipts left in the order of the calls. *)
InOrder ==
  ~Closed => /\ \A i \in 1 .. Len(log) : log[i] = i
             /\ op = NoOp => Len(log) = submitted
             /\ op # NoOp => Len(log) = op.no - 1 /\ op.no + Len(queue) = submitted

PhaseRank == [p \in Parts |-> CASE p = "catalog" -> 1 [] p = "model" -> 2
                                [] p = "effort" -> 3 [] p = "state" -> 4]

OnWire ==
  /\ op = NoOp /\ ~Closed => wire = {}
  /\ \A c, d \in wire : c = d
  /\ \A c \in wire : c.op \in 1 .. submitted
  /\ op # NoOp => /\ op.phase \in Parts
                  /\ \A c \in wire : c = CommandOf(op)
                  /\ CommandOf(op) \in wire \cup lost
  /\ \A c \in answered :
       receipts[c.op].state = "none" =>
         op # NoOp /\ c.op = op.no /\ PhaseRank[c.part] < PhaseRank[op.phase]

(* What is written is a model or an effort the harness knows. *)
Writable(c) == /\ c.part = "model" => c.value \in Models
               /\ c.part = "effort" => c.value \in Efforts

(* What an op on the wire has come to. *)
ShapeOf(e) ==
  /\ e.phase \in Parts /\ Writable(CommandOf(e))
  /\ e.phase \in {"catalog", "model"} => request[e.no].model # "none"
  /\ e.phase = "model" \/ e.modelApplied => e.model \in Models
  /\ e.phase = "effort" \/ e.effortApplied => e.effort \in Efforts
  /\ e.phase \in {"catalog", "state"} => Pi
  /\ e.effortApplied => e.phase = "state"
  /\ e.modelApplied => e.phase \in {"effort", "state"}

Shape ==
  /\ \A c \in wire \cup answered : Writable(c)
  /\ op # NoOp => ShapeOf(op)

Effective ==
  /\ op.modelApplied => runs = op.model
  /\ ~NativeRejects /\ ~Closed /\ ~op.modelApplied => current = runs

SeqInv == TypeOK /\ Line /\ Owing /\ InOrder /\ OnWire /\ Shape /\ Effective

-----------------------------------------------------------------------------
(* The drain *)

(* Ops whose numbers follow a. *)
Run(a, n) == [i \in 1 .. n |-> a + i]

(* What a drain of the n ops after a does: k of them are rejected, in order,
   and then none is left, or the next takes the wire. *)
Emptied(sentWire) == op' = NoOp /\ queue' = <<>> /\ wire' = sentWire /\ lost' = lost

Begun(o, n, model, sentWire) ==
  /\ op' = Started(o) /\ queue' = Run(o, n) /\ Write(Started(o), sentWire)
  /\ Invalid(request'[o], model) = "none" /\ UNCHANGED <<closing, ended>>

Drained(rec, left, a, n, model, shut, sentWire) ==
  \E k \in 0 .. n :
    /\ log' = left \o Run(a, k)
    /\ receipts' \in [Ops -> Receipt]
    /\ \A o \in Ops : IF o \in (a + 1) .. (a + k) THEN receipts'[o].state = "rejected"
                                                ELSE receipts'[o] = rec[o]
    /\ \/ UNCHANGED <<closing, ended>>
       \/ closing' = TRUE /\ ended' = TRUE
    /\ \/ k = n /\ Emptied(sentWire)
       \/ k < n /\ ~shut /\ Begun(a + k + 1, n - k - 1, model, sentWire)

(* A nonempty set of naturals has a least element. *)
LEMMA Least ==
  ASSUME NEW T, T \subseteq Nat, T # {}
  PROVE  \E n \in T : \A k \in T : n <= k
  <1>1. PICK n \in T : \A k \in T : ~ (<<k, n>> \in OpToRel(<, Nat))
    BY NatLessThanWellFounded, WFMin
  <1>2. ASSUME NEW k \in T PROVE n <= k
    <2>1. ~ (<<k, n>> \in OpToRel(<, Nat))
      BY <1>1
    <2>2. k \in Nat /\ n \in Nat
      OBVIOUS
    <2>3. ~ (k < n)
      BY <2>1, <2>2 DEF OpToRel
    <2> QED BY <2>2, <2>3
  <1> QED BY <1>2

(* The op the drain stops at, if it stops at one. *)
LEMMA FirstValidFound ==
  ASSUME NEW q \in Seq(Ops), NEW model
  PROVE  /\ FirstValid(q, model) \in 1 .. Len(q) + 1
         /\ FirstValid(q, model) <= Len(q) =>
              Invalid(request'[q[FirstValid(q, model)]], model) = "none"
         /\ \A j \in 1 .. FirstValid(q, model) - 1 : Invalid(request'[q[j]], model) # "none"
  <1> DEFINE Bad(j) == Invalid(request'[q[j]], model) # "none"
             Valid == {k \in 1 .. Len(q) + 1 : k <= Len(q) => ~Bad(k)}
             First(k) == /\ k <= Len(q) => ~Bad(k)
                         /\ \A j \in 1 .. (k - 1) : Bad(j)
  <1>1. Len(q) + 1 \in Valid /\ Valid \subseteq Nat /\ Len(q) \in Nat
    OBVIOUS
  <1>2. PICK k \in Valid : \A j \in Valid : k <= j
    BY <1>1, Least
  <1>3. k \in 1 .. Len(q) + 1 /\ First(k)
    <2>1. k \in 1 .. Len(q) + 1 /\ (k <= Len(q) => ~Bad(k))
      OBVIOUS
    <2>2. ASSUME NEW j \in 1 .. (k - 1), ~Bad(j) PROVE FALSE
      <3>1. j \in 1 .. Len(q) + 1 /\ j < k
        BY <2>1
      <3>2. j \in Valid
        BY <2>2, <3>1
      <3> QED BY <1>2, <2>1, <3>1, <3>2
    <2> QED BY <2>1, <2>2
  <1>4. FirstValid(q, model) = CHOOSE x \in 1 .. Len(q) + 1 : First(x)
    BY DEF FirstValid
  <1>5. FirstValid(q, model) \in 1 .. Len(q) + 1 /\ First(FirstValid(q, model))
    <2> HIDE DEF First
    <2> QED BY <1>3, <1>4
  <1> QED BY <1>5

LEMMA InvalidReason ==
  ASSUME NEW ask \in Request, NEW m
  PROVE  Invalid(ask, m) \in Reasons
  BY DEF Invalid, Reasons

LEMMA RejectedTyped ==
  ASSUME NEW r \in Reasons
  PROVE  Rejected(r) \in Receipt /\ Rejected(r).state = "rejected"
  BY DEF Rejected, Owed, Receipt, Reasons

LEMMA RunFacts ==
  ASSUME NEW a \in Nat, NEW n \in Nat, a + n <= MaxOps
  PROVE  /\ Run(a, n) \in Seq(Ops) /\ Len(Run(a, n)) = n
         /\ \A i \in 1 .. n : Run(a, n)[i] = a + i
         /\ \A o \in Ops : Within(Run(a, n), o) <=> o \in (a + 1) .. (a + n)
         /\ \A o \in Ops : Within(Run(a, n), o) =>
              /\ Place(Run(a, n), o) \in 1 .. n
              /\ Run(a, n)[Place(Run(a, n), o)] = o
         /\ \A k \in 0 .. n : SubSeq(Run(a, n), 1, k) = Run(a, k)
         /\ \A k \in 1 .. n : SubSeq(Run(a, n), k + 1, n) = Run(a + k, n - k)
  <1>0. MaxOps \in Nat
    BY OpsAssumption
  <1>1. Run(a, n) \in Seq(Ops) /\ Len(Run(a, n)) = n /\ \A i \in 1 .. n : Run(a, n)[i] = a + i
    BY <1>0 DEF Run, Ops
  <1>2. ASSUME NEW o \in Ops PROVE Within(Run(a, n), o) <=> o \in (a + 1) .. (a + n)
    <2>1. ASSUME o \in (a + 1) .. (a + n) PROVE Within(Run(a, n), o)
      <3>1. o - a \in 1 .. n /\ Run(a, n)[o - a] = o
        BY <1>1, <2>1
      <3> QED BY <1>1, <3>1 DEF Within
    <2>2. ASSUME Within(Run(a, n), o) PROVE o \in (a + 1) .. (a + n)
      BY <1>1, <2>2 DEF Within
    <2> QED BY <2>1, <2>2
  <1>3. ASSUME NEW o \in Ops, Within(Run(a, n), o)
        PROVE  Place(Run(a, n), o) \in 1 .. n /\ Run(a, n)[Place(Run(a, n), o)] = o
    BY <1>1, <1>3 DEF Within, Place
  <1>4. ASSUME NEW k \in 0 .. n PROVE SubSeq(Run(a, n), 1, k) = Run(a, k)
    BY <1>1 DEF Run
  <1>5. ASSUME NEW k \in 1 .. n PROVE SubSeq(Run(a, n), k + 1, n) = Run(a + k, n - k)
    BY <1>1 DEF Run
  <1> QED BY <1>1, <1>2, <1>3, <1>4, <1>5

LEMMA DrainDoes ==
  ASSUME NEW a \in Nat, NEW n \in Nat, a + n <= MaxOps, NEW rec \in [Ops -> Receipt], NEW left,
         NEW model, NEW shut \in BOOLEAN, NEW sentWire, request' \in [Ops -> Request],
         Drain(rec, left, Run(a, n), model, shut, sentWire)
  PROVE  Drained(rec, left, a, n, model, shut, sentWire)
  <1> DEFINE q == Run(a, n)
             k == FirstValid(q, model)
  <1> HIDE DEF q
  <1>1. /\ q \in Seq(Ops) /\ Len(q) = n /\ \A i \in 1 .. n : q[i] = a + i
        /\ \A o \in Ops : Within(q, o) <=> o \in (a + 1) .. (a + n)
        /\ \A o \in Ops : Within(q, o) => Place(q, o) \in 1 .. n /\ q[Place(q, o)] = o
        /\ \A j \in 0 .. n : SubSeq(q, 1, j) = Run(a, j)
        /\ \A j \in 1 .. n : SubSeq(q, j + 1, n) = Run(a + j, n - j)
    BY RunFacts DEF q
  <1>2. /\ k \in 1 .. n + 1
        /\ k <= n => Invalid(request'[q[k]], model) = "none"
        /\ \A j \in 1 .. k - 1 : Invalid(request'[q[j]], model) # "none"
    BY <1>1, FirstValidFound
  <1>3. \A o \in Ops : Rejected(Invalid(request'[o], model)) \in Receipt
                       /\ Rejected(Invalid(request'[o], model)).state = "rejected"
    BY InvalidReason, RejectedTyped
  <1>4. /\ Rejected("closed") \in Receipt /\ Rejected("closed").state = "rejected"
        /\ Rejected("write-failed") \in Receipt /\ Rejected("write-failed").state = "rejected"
    BY RejectedTyped DEF Reasons
  <1> HIDE DEF k
  <1>5. CASE /\ op' = NoOp /\ queue' = <<>> /\ log' = left \o q /\ NoWrite(sentWire)
             /\ \/ Holds
                \/ Breaks
             /\ receipts' \in [Ops -> Receipt]
             /\ \A o \in Ops : IF Within(q, o) THEN receipts'[o].state = "rejected"
                                              ELSE receipts'[o] = rec[o]
    <2>1. n \in 0 .. n /\ n = n /\ log' = left \o Run(a, n)
      BY <1>5 DEF q
    <2>2. Emptied(sentWire)
      BY <1>5 DEF Emptied, NoWrite
    <2>3. UNCHANGED <<closing, ended>> \/ (closing' = TRUE /\ ended' = TRUE)
      BY <1>5 DEF Holds, Breaks
    <2>4. \A o \in Ops : IF o \in (a + 1) .. (a + n) THEN receipts'[o].state = "rejected"
                                                    ELSE receipts'[o] = rec[o]
      BY <1>1, <1>5
    <2> QED BY <1>5, <2>1, <2>2, <2>3, <2>4 DEF Drained
  <1>6. CASE /\ shut
             /\ op' = NoOp /\ queue' = <<>> /\ log' = left \o q
             /\ receipts' = [o \in Ops |-> IF Within(q, o) THEN Rejected("closed") ELSE rec[o]]
             /\ NoWrite(sentWire)
             /\ Holds
    BY <1>4, <1>5, <1>6
  <1>7. CASE /\ ~shut /\ k > Len(q)
             /\ op' = NoOp /\ queue' = <<>> /\ log' = left \o q
             /\ receipts' = DrainedReceipts(rec, q, k, model, Owed)
             /\ NoWrite(sentWire)
             /\ Holds
    <2>1. ASSUME NEW o \in Ops
          PROVE  receipts'[o] = IF Within(q, o) THEN Rejected(Invalid(request'[o], model))
                                                ELSE rec[o]
      BY <1>1, <1>2, <1>7 DEF DrainedReceipts
    <2>2. receipts' = [o \in Ops |-> receipts'[o]]
      BY <1>7 DEF DrainedReceipts
    <2> QED BY <1>3, <1>5, <1>7, <2>1, <2>2
  <1>8. CASE /\ ~shut /\ k <= Len(q)
             /\ op' = Started(q[k]) /\ queue' = SubSeq(q, k + 1, Len(q))
             /\ log' = left \o SubSeq(q, 1, k - 1)
             /\ receipts' = [o \in Ops |-> IF Within(SubSeq(q, 1, k - 1), o)
                                           THEN Rejected(Invalid(request'[o], model)) ELSE rec[o]]
             /\ Write(Started(q[k]), sentWire)
             /\ Holds
    <2>1. k - 1 \in 0 .. n /\ k \in 1 .. n /\ q[k] = a + (k - 1) + 1 /\ k - 1 < n
          /\ n - k = n - (k - 1) - 1 /\ a + k = a + (k - 1) + 1
      BY <1>1, <1>2, <1>8
    <2>2. SubSeq(q, 1, k - 1) = Run(a, k - 1) /\ SubSeq(q, k + 1, n) = Run(a + k, n - k)
      BY <1>1, <2>1
    <2>3. \A o \in Ops : Within(Run(a, k - 1), o) <=> o \in (a + 1) .. (a + (k - 1))
      <3>1. k - 1 \in Nat /\ a + (k - 1) <= MaxOps
        BY <2>1, OpsAssumption
      <3> QED BY <3>1, RunFacts
    <2>4. receipts' \in [Ops -> Receipt]
      BY <1>3, <1>8
    <2>5. \A o \in Ops : IF o \in (a + 1) .. (a + (k - 1)) THEN receipts'[o].state = "rejected"
                                                           ELSE receipts'[o] = rec[o]
      BY <1>3, <1>8, <2>2, <2>3
    <2>6. Begun(a + (k - 1) + 1, n - (k - 1) - 1, model, sentWire)
      BY <1>1, <1>2, <1>8, <2>1, <2>2 DEF Begun, Holds
    <2>7. log' = left \o Run(a, k - 1) /\ UNCHANGED <<closing, ended>>
      BY <1>8, <2>2 DEF Holds
    <2> DEFINE d == k - 1
    <2>8. d \in 0 .. n /\ d < n /\ ~shut
      BY <1>8, <2>1
    <2>9. Begun(a + d + 1, n - d - 1, model, sentWire) /\ log' = left \o Run(a, d)
      BY <2>6, <2>7
    <2>10. \A o \in Ops : IF o \in (a + 1) .. (a + d) THEN receipts'[o].state = "rejected"
                                                     ELSE receipts'[o] = rec[o]
      BY <2>5
    <2> HIDE DEF d
    <2> QED BY <2>4, <2>7, <2>8, <2>9, <2>10 DEF Drained
  <1>9. CASE /\ ~shut /\ k <= Len(q)
             /\ op' = NoOp /\ queue' = <<>> /\ log' = left \o q
             /\ receipts' = DrainedReceipts(rec, q, k, model, Rejected("write-failed"))
             /\ NoWrite(sentWire)
             /\ Breaks
    <2>1. ASSUME NEW o \in Ops
          PROVE  /\ receipts'[o] \in Receipt
                 /\ IF Within(q, o) THEN receipts'[o].state = "rejected"
                                    ELSE receipts'[o] = rec[o]
      BY <1>1, <1>2, <1>3, <1>4, <1>9 DEF DrainedReceipts
    <2>2. receipts' = [o \in Ops |-> receipts'[o]]
      BY <1>9 DEF DrainedReceipts
    <2> QED BY <1>5, <1>9, <2>1, <2>2
  <1> QED BY <1>6, <1>7, <1>8, <1>9 DEF Drain, k, q

-----------------------------------------------------------------------------
(* What a drain leaves *)

LEMMA Bounds ==
  ASSUME TypeOK
  PROVE  /\ MostOps \in Nat /\ MostOps <= MaxOps /\ MaxOps \in Nat /\ Ops = 1 .. MaxOps
         /\ NativeRejects \in BOOLEAN /\ submitted \in 0 .. MostOps /\ Pi \in BOOLEAN
  <1>1. harness \in DOMAIN Harnesses /\ submitted \in 0 .. MostOps
    BY DEF TypeOK
  <1>2. Harnesses[harness] \in [ops : 0 .. MaxOps, rejects : BOOLEAN, breaks : BOOLEAN]
    BY <1>1, HarnessesAssumption
  <1> QED BY <1>1, <1>2, OpsAssumption DEF MostOps, NativeRejects, Ops, Pi

(* An op that takes the wire asks for what may be written. *)
LEMMA StartedShape ==
  ASSUME Pi \in BOOLEAN, request' \in [Ops -> Request], NEW o \in Ops, request'[o] \in Asks,
         NEW model, Invalid(request'[o], model) = "none"
  PROVE  /\ Started(o) \in Entry /\ Started(o).no = o /\ Started(o) # NoOp
         /\ Started(o).phase \in Parts /\ ~Started(o).modelApplied /\ ~Started(o).effortApplied
         /\ Started(o).phase \in {"catalog", "model"} => request'[o].model # "none"
         /\ Started(o).phase = "model" => Started(o).model \in Models
         /\ Started(o).phase = "effort" => Started(o).effort \in Efforts
         /\ Started(o).phase = "catalog" => Pi
         /\ Started(o).phase # "state"
         /\ CommandOf(Started(o)) \in Command /\ Writable(CommandOf(Started(o)))
         /\ CommandOf(Started(o)).op = o
  <1> DEFINE ask == request'[o]
             e == Started(o)
  <1>1. /\ ask \in Request /\ ask \in Asks /\ o # 0
        /\ ask.model \in Models \cup {"unknown", "none"} /\ ask.effort \in Efforts \cup {"none"}
    BY OpsAssumption DEF Request, Ops
  <1>2. ask.model # "none" \/ ask.effort # "none"
    <2>1. ask = [model |-> ask.model, effort |-> ask.effort]
      BY <1>1 DEF Request
    <2> QED BY <1>1, <2>1, AsksAssumption
  <1>3. ~Pi => ask.model # "unknown"
    BY DEF Invalid
  <1>4. /\ e.no = o /\ e.model = ask.model /\ e.effort = ask.effort
        /\ e.modelApplied = FALSE /\ e.effortApplied = FALSE
        /\ e.phase = IF ask.model = "none" THEN "effort" ELSE IF Pi THEN "catalog" ELSE "model"
    BY DEF Started
  <1>5. e \in Entry
    BY <1>1 DEF Started, Entry, Parts
  <1>6. e # NoOp
    BY <1>1, <1>4 DEF NoOp
  <1>7. /\ e.phase = "model" => e.model \in Models
        /\ e.phase = "effort" => e.effort \in Efforts
        /\ e.phase \in {"effort", "catalog", "model"} /\ (e.phase = "catalog" => Pi)
        /\ e.phase \in {"catalog", "model"} => ask.model # "none"
    BY <1>1, <1>2, <1>3, <1>4
  <1> HIDE DEF e, ask
  <1>8. /\ CommandOf(e) = [op |-> o, part |-> e.phase,
                           value |-> IF e.phase = "model" THEN e.model
                                     ELSE IF e.phase = "effort" THEN e.effort ELSE "none"]
    BY <1>4 DEF CommandOf
  <1>9. CommandOf(e) \in Command /\ Writable(CommandOf(e)) /\ CommandOf(e).op = o
    BY <1>7, <1>8 DEF Command, Writable, Parts
  <1> QED BY <1>4, <1>5, <1>6, <1>7, <1>9 DEF e, ask, Parts

(* The receipts that left, after a drain. *)
LEMMA LogGrows ==
  ASSUME NEW a \in Nat, NEW k \in Nat, a + k <= MaxOps, NEW left \in Seq(Ops),
         \A o \in (a + 1) .. (a + k) : ~Within(left, o),
         \A i, j \in 1 .. Len(left) : left[i] = left[j] => i = j
  PROVE  /\ left \o Run(a, k) \in Seq(Ops) /\ Len(left \o Run(a, k)) = Len(left) + k
         /\ \A o \in Ops : Within(left \o Run(a, k), o)
                             <=> Within(left, o) \/ o \in (a + 1) .. (a + k)
         /\ \A i, j \in 1 .. Len(left \o Run(a, k)) :
              (left \o Run(a, k))[i] = (left \o Run(a, k))[j] => i = j
         /\ \A i \in 1 .. Len(left \o Run(a, k)) :
              (left \o Run(a, k))[i] = IF i <= Len(left) THEN left[i] ELSE a + (i - Len(left))
  <1> DEFINE r == Run(a, k)
             s == left \o r
  <1>0. Len(left) \in Nat /\ \A i \in 1 .. Len(left) : left[i] \in Ops
    OBVIOUS
  <1>1. r \in Seq(Ops) /\ Len(r) = k /\ \A i \in 1 .. k : r[i] = a + i
    BY RunFacts
  <1> HIDE DEF r
  <1>2. s \in Seq(Ops) /\ Len(s) = Len(left) + k
    <2>1. left \in Seq(Ops)
      OBVIOUS
    <2> QED BY ONLY <1>1, <2>1, ConcatProperties DEF s
  <1>3. ASSUME NEW i \in 1 .. Len(s)
        PROVE  s[i] = IF i <= Len(left) THEN left[i] ELSE a + (i - Len(left))
    <2>1. CASE i <= Len(left)
      BY <1>1, <1>2, <2>1
    <2>2. CASE i > Len(left)
      <3>1. i - Len(left) \in 1 .. k
        BY <1>0, <1>2, <2>2
      <3> QED BY <1>0, <1>1, <1>2, <2>2, <3>1
    <2> QED BY <1>0, <1>2, <2>1, <2>2
  <1> HIDE DEF s
  <1>4. ASSUME NEW o \in Ops
        PROVE  Within(s, o) <=> Within(left, o) \/ o \in (a + 1) .. (a + k)
    <2>1. ASSUME Within(s, o) PROVE Within(left, o) \/ o \in (a + 1) .. (a + k)
      <3>1. PICK i \in 1 .. Len(s) : s[i] = o
        BY <2>1 DEF Within
      <3>2. CASE i <= Len(left)
        BY <1>0, <1>3, <3>1, <3>2 DEF Within
      <3>3. CASE i > Len(left)
        BY <1>0, <1>2, <1>3, <3>1, <3>3
      <3> QED BY <1>0, <1>2, <3>2, <3>3
    <2>2. ASSUME Within(left, o) PROVE Within(s, o)
      <3>1. PICK i \in 1 .. Len(left) : left[i] = o
        BY <2>2 DEF Within
      <3>2. i \in 1 .. Len(s) /\ s[i] = o
        BY <1>0, <1>2, <1>3, <3>1
      <3> QED BY <3>2 DEF Within
    <2>3. ASSUME o \in (a + 1) .. (a + k) PROVE Within(s, o)
      <3> DEFINE i == o - a + Len(left)
      <3>1. i \in 1 .. Len(s) /\ ~(i <= Len(left)) /\ a + (i - Len(left)) = o
        BY <1>0, <1>2, <2>3
      <3>2. s[i] = o
        BY ONLY <1>3, <3>1
      <3> QED BY <3>1, <3>2 DEF Within
    <2> QED BY <2>1, <2>2, <2>3
  <1>5. ASSUME NEW i \in 1 .. Len(s), NEW j \in 1 .. Len(s), s[i] = s[j], i < j PROVE FALSE
    <2>1. CASE j <= Len(left)
      BY <1>0, <1>3, <1>5, <2>1
    <2>2. CASE i <= Len(left) /\ j > Len(left)
      <3>1. s[i] = left[i] /\ s[j] \in (a + 1) .. (a + k) /\ i \in 1 .. Len(left)
        BY <1>0, <1>2, <1>3, <2>2
      <3>2. Within(left, s[j])
        BY <1>5, <3>1 DEF Within
      <3> QED BY <3>1, <3>2
    <2>3. CASE i > Len(left)
      BY <1>0, <1>2, <1>3, <1>5, <2>3
    <2> QED BY <1>0, <1>2, <1>5, <2>1, <2>2, <2>3
  <1>6. \A i, j \in 1 .. Len(s) : s[i] = s[j] => i = j
    <2>1. Len(s) \in Nat
      BY <1>0, <1>2
    <2> QED BY <1>5, <2>1
  <1> QED BY <1>2, <1>3, <1>4, <1>6 DEF s, r

(* What has happened when the drain begins: the ops after a are owed their
   receipts, all others submitted have theirs, and nothing is on the wire. *)
Ready(rec, left, a, n, shut) ==
  /\ a \in Nat /\ n \in Nat /\ a + n <= submitted'
  /\ rec \in [Ops -> Receipt] /\ left \in Seq(Ops) /\ shut = Closed
  /\ \A o \in Ops : rec[o].state # "none" <=> o \in (1 .. submitted') \ ((a + 1) .. (a + n))
  /\ \A o \in Ops : Within(left, o) <=> rec[o].state # "none"
  /\ \A i, j \in 1 .. Len(left) : left[i] = left[j] => i = j
  /\ ~shut => /\ \A i \in 1 .. Len(left) : left[i] = i
              /\ Len(left) = a /\ a + n = submitted'
  /\ ~finalized /\ UNCHANGED <<harness, dead, finalized>>
  /\ submitted' \in 0 .. MostOps /\ request' \in [Ops -> Request]
  /\ \A o \in 1 .. submitted' : request'[o] \in Asks

(* What the harness has answered, and runs, when it does. *)
Answered(rec, model, shut) ==
  /\ answered' \subseteq Command
  /\ \A c \in answered' : Writable(c) /\ rec[c.op].state # "none"
  /\ runs' \in Models /\ thinks' \in Efforts /\ current' = model /\ model \in Models
  /\ ~NativeRejects /\ ~shut => model = runs'

LEMMA DrainKeeps ==
  ASSUME TypeOK, NEW a, NEW n, NEW rec, NEW left, NEW model, NEW shut \in BOOLEAN,
         Ready(rec, left, a, n, shut), Answered(rec, model, shut),
         Drain(rec, left, Run(a, n), model, shut, {})
  PROVE  SeqInv'
  <1>0. /\ MostOps \in Nat /\ MostOps <= MaxOps /\ MaxOps \in Nat /\ Ops = 1 .. MaxOps
        /\ a \in Nat /\ n \in Nat /\ submitted' \in Nat /\ a + n <= submitted'
        /\ submitted' <= MaxOps /\ a + n <= MaxOps /\ Pi \in BOOLEAN /\ NativeRejects \in BOOLEAN
    BY Bounds DEF Ready
  <1>1. Drained(rec, left, a, n, model, shut, {})
    BY <1>0, DrainDoes DEF Ready
  <1>2. PICK k \in 0 .. n :
          /\ log' = left \o Run(a, k)
          /\ receipts' \in [Ops -> Receipt]
          /\ \A o \in Ops : IF o \in (a + 1) .. (a + k) THEN receipts'[o].state = "rejected"
                                                      ELSE receipts'[o] = rec[o]
          /\ \/ UNCHANGED <<closing, ended>>
             \/ closing' = TRUE /\ ended' = TRUE
          /\ \/ k = n /\ Emptied({})
             \/ k < n /\ ~shut /\ Begun(a + k + 1, n - k - 1, model, {})
    BY <1>1 DEF Drained
  <1>3. /\ Closed => Closed'
        /\ {closing', ended', dead', finalized'} \subseteq BOOLEAN /\ ~finalized'
        /\ harness' = harness /\ harness \in DOMAIN Harnesses
        /\ Pi' = Pi /\ MostOps' = MostOps /\ NativeRejects' = NativeRejects
    <2>1. /\ closing \in BOOLEAN /\ ended \in BOOLEAN /\ dead \in BOOLEAN
          /\ harness \in DOMAIN Harnesses /\ harness' = harness
          /\ dead' = dead /\ finalized' = finalized /\ ~finalized /\ finalized \in BOOLEAN
      BY DEF TypeOK, Ready
    <2>2. Pi' = Pi /\ MostOps' = MostOps /\ NativeRejects' = NativeRejects
      BY <2>1 DEF Pi, MostOps, NativeRejects
    <2>3. CASE UNCHANGED <<closing, ended>>
      BY <2>1, <2>2, <2>3 DEF Closed
    <2>4. CASE closing' = TRUE /\ ended' = TRUE
      BY <2>1, <2>2, <2>4 DEF Closed
    <2> QED BY <1>2, <2>3, <2>4
  <1>4. /\ log' \in Seq(Ops) /\ Len(log') = Len(left) + k /\ Len(left) \in Nat
        /\ \A o \in Ops : Within(log', o) <=> Within(left, o) \/ o \in (a + 1) .. (a + k)
        /\ \A i, j \in 1 .. Len(log') : log'[i] = log'[j] => i = j
        /\ \A i \in 1 .. Len(log') :
             log'[i] = IF i <= Len(left) THEN left[i] ELSE a + (i - Len(left))
    <2>1. ASSUME NEW o \in (a + 1) .. (a + k) PROVE ~Within(left, o)
      <3>1. o \in Ops /\ o \in (a + 1) .. (a + n)
        BY <1>0
      <3> QED BY <3>1 DEF Ready
    <2>2. left \in Seq(Ops) /\ \A i, j \in 1 .. Len(left) : left[i] = left[j] => i = j
      BY DEF Ready
    <2>3. a + k <= MaxOps /\ k \in Nat /\ a \in Nat
      BY <1>0
    <2>4. Len(left) \in Nat /\ log' = left \o Run(a, k)
      BY <1>2, <2>2
    <2> DEFINE grown == left \o Run(a, k)
    <2>5. /\ grown \in Seq(Ops) /\ Len(grown) = Len(left) + k
          /\ \A o \in Ops : Within(grown, o) <=> Within(left, o) \/ o \in (a + 1) .. (a + k)
          /\ \A i, j \in 1 .. Len(grown) : grown[i] = grown[j] => i = j
          /\ \A i \in 1 .. Len(grown) :
               grown[i] = IF i <= Len(left) THEN left[i] ELSE a + (i - Len(left))
      BY ONLY <2>1, <2>2, <2>3, LogGrows
    <2> HIDE DEF grown
    <2>6. log' = grown
      BY <2>4 DEF grown
    <2> QED BY ONLY <2>4, <2>5, <2>6
  <1>5. \A o \in Ops : receipts'[o].state # "none"
                         <=> o \in (1 .. submitted') \ ((a + k + 1) .. (a + n))
    <2> SUFFICES ASSUME NEW o \in Ops
                 PROVE  receipts'[o].state # "none"
                          <=> o \in (1 .. submitted') \ ((a + k + 1) .. (a + n))
      OBVIOUS
    <2>1. CASE o \in (a + 1) .. (a + k)
      BY <1>0, <1>2, <2>1
    <2>2. CASE o \notin (a + 1) .. (a + k)
      <3>1. receipts'[o] = rec[o]
        BY <1>2, <2>2
      <3>2. rec[o].state # "none" <=> o \in (1 .. submitted') \ ((a + 1) .. (a + n))
        BY DEF Ready
      <3> QED BY <1>0, <2>2, <3>1, <3>2
    <2> QED BY <2>1, <2>2
  <1>6. \A o \in Ops : Within(log', o) <=> receipts'[o].state # "none"
    <2> SUFFICES ASSUME NEW o \in Ops
                 PROVE  Within(log', o) <=> receipts'[o].state # "none"
      OBVIOUS
    <2>1. CASE o \in (a + 1) .. (a + k)
      BY <1>2, <1>4, <2>1
    <2>2. CASE o \notin (a + 1) .. (a + k)
      BY <1>2, <1>4, <2>2 DEF Ready
    <2> QED BY <2>1, <2>2
  <1>7. ~Closed' => /\ \A i \in 1 .. Len(log') : log'[i] = i
                    /\ Len(log') = a + k /\ a + n = submitted'
    <2> SUFFICES ASSUME ~Closed' PROVE /\ \A i \in 1 .. Len(log') : log'[i] = i
                                       /\ Len(log') = a + k /\ a + n = submitted'
      OBVIOUS
    <2>1. /\ \A i \in 1 .. Len(left) : left[i] = i
          /\ Len(left) = a /\ a + n = submitted'
      BY <1>3 DEF Ready
    <2> QED BY <1>0, <1>4, <2>1
  <1>8. /\ answered' \subseteq Command
        /\ \A c \in answered' : Writable(c) /\ receipts'[c.op].state # "none"
    BY <1>2 DEF Answered, Command
  <1>9. /\ runs' \in Models /\ thinks' \in Efforts /\ current' \in Models
        /\ ~NativeRejects' /\ ~Closed' => current' = runs'
    BY <1>3 DEF Answered, Ready
  <1>10. CASE k = n /\ Emptied({})
    <2>0. op' = NoOp /\ queue' = <<>> /\ wire' = {} /\ lost' = lost /\ Waiting' = {}
      BY <1>10 DEF Emptied, Waiting
    <2>1. TypeOK'
      <3>1. op' \in Entry
        BY <2>0 DEF NoOp, Entry
      <3> QED BY <1>2, <1>3, <1>4, <1>8, <1>9, <2>0, <3>1 DEF TypeOK, Ready
    <2>2. Line'
      BY <2>0 DEF Line, NoOp, Ready
    <2>3. Owing'
      <3>1. (a + k + 1) .. (a + n) = {}
        BY <1>0, <1>10
      <3> QED BY <1>3, <1>4, <1>5, <1>6, <2>0, <3>1 DEF Owing
    <2>4. InOrder'
      BY <1>0, <1>7, <1>10, <2>0 DEF InOrder
    <2>5. OnWire'
      BY <1>8, <2>0 DEF OnWire
    <2>6. Shape'
      BY <1>8, <2>0 DEF Shape
    <2>7. Effective'
      BY <1>9, <2>0 DEF Effective, NoOp
    <2> QED BY <2>1, <2>2, <2>3, <2>4, <2>5, <2>6, <2>7 DEF SeqInv
  <1>11. CASE k < n /\ ~shut /\ Begun(a + k + 1, n - k - 1, model, {})
    <2> DEFINE o == a + k + 1
               e == Started(o)
    <2>0. /\ o \in Ops /\ o \in 1 .. submitted' /\ n - k - 1 \in Nat /\ o + (n - k - 1) = a + n
          /\ o + (n - k - 1) <= MaxOps /\ o \in Nat
      BY <1>0, <1>11
    <2>1. /\ op' = e /\ queue' = Run(o, n - k - 1) /\ Write(e, {})
          /\ Invalid(request'[o], model) = "none" /\ request'[o] \in Asks
          /\ UNCHANGED <<closing, ended>>
      BY <1>11, <2>0 DEF Begun, Ready
    <2>2. /\ e \in Entry /\ e.no = o /\ e # NoOp
          /\ e.phase \in Parts /\ ~e.modelApplied /\ ~e.effortApplied
          /\ e.phase \in {"catalog", "model"} => request'[o].model # "none"
          /\ e.phase = "model" => e.model \in Models
          /\ e.phase = "effort" => e.effort \in Efforts
          /\ e.phase = "catalog" => Pi
          /\ e.phase # "state"
          /\ CommandOf(e) \in Command /\ Writable(CommandOf(e)) /\ CommandOf(e).op = o
      BY <1>0, <2>0, <2>1, StartedShape DEF Ready
    <2> HIDE DEF o, e
    <2>3. /\ Run(o, n - k - 1) \in Seq(Ops) /\ Len(Run(o, n - k - 1)) = n - k - 1
      BY <2>0, RunFacts
    <2>4. wire' \subseteq {CommandOf(e)} /\ CommandOf(e) \in wire' \cup lost' /\ lost' \subseteq Command
      BY <2>1, <2>2 DEF Write, TypeOK
    <2>5. Waiting' = o .. a + n
      BY <2>0, <2>1, <2>2, <2>3 DEF Waiting
    <2>6. CommandOf(op') = CommandOf(op)'
      BY DEF CommandOf
    <2>7. TypeOK'
      BY <1>2, <1>3, <1>4, <1>8, <1>9, <2>1, <2>2, <2>3, <2>4 DEF TypeOK, Ready
    <2>8. Line'
      <3>1. queue' = [i \in 1 .. Len(queue') |-> op'.no + i]
        BY <2>1, <2>2, <2>3 DEF Run
      <3>2. op'.no # 0 /\ op' # NoOp /\ op'.no \in 1 .. submitted'
            /\ op'.no + Len(queue') <= submitted'
        BY <1>0, <2>0, <2>1, <2>2, <2>3
      <3> QED BY <3>1, <3>2 DEF Line, Ready
    <2>9. Owing'
      <3>1. Waiting' = (a + k + 1) .. (a + n)
        BY <2>5 DEF o
      <3> QED BY <1>3, <1>4, <1>5, <1>6, <3>1 DEF Owing
    <2>10. InOrder'
      <3>1. Len(queue') = n - k - 1 /\ op'.no = a + k + 1 /\ op' # NoOp
        BY <2>1, <2>2, <2>3 DEF o
      <3> QED BY <1>0, <1>7, <3>1 DEF InOrder
    <2>11. OnWire'
      <3>1. o \in 1 .. submitted'
        BY <2>0
      <3> QED BY <1>8, <2>1, <2>2, <2>4, <2>6, <3>1 DEF OnWire
    <2>12. Shape'
      <3>1. ShapeOf(op)'
        BY <1>3, <2>1, <2>2, <2>6 DEF ShapeOf, Writable
      <3>2. \A c \in wire' \cup answered' : Writable(c)
        BY <1>8, <2>2, <2>4
      <3> QED BY <3>1, <3>2 DEF Shape, Writable
    <2>13. Effective'
      BY <1>9, <2>1, <2>2 DEF Effective
    <2> QED BY <2>7, <2>8, <2>9, <2>10, <2>11, <2>12, <2>13 DEF SeqInv
  <1> QED BY <1>2, <1>10, <1>11

(* The receipts that left, after one more. *)
LEMMA LogOne ==
  ASSUME NEW o \in Ops, NEW left \in Seq(Ops), ~Within(left, o),
         \A i, j \in 1 .. Len(left) : left[i] = left[j] => i = j
  PROVE  /\ Append(left, o) \in Seq(Ops) /\ Len(Append(left, o)) = Len(left) + 1
         /\ \A p \in Ops : Within(Append(left, o), p) <=> Within(left, p) \/ p = o
         /\ \A i, j \in 1 .. Len(Append(left, o)) :
              Append(left, o)[i] = Append(left, o)[j] => i = j
         /\ \A i \in 1 .. Len(Append(left, o)) :
              Append(left, o)[i] = IF i <= Len(left) THEN left[i] ELSE o
  <1>1. o - 1 \in Nat /\ 1 \in Nat /\ o - 1 + 1 <= MaxOps /\ (o - 1 + 1) .. (o - 1 + 1) = {o}
    BY OpsAssumption DEF Ops
  <1>2. Run(o - 1, 1) = <<o>>
    BY <1>1 DEF Run
  <1>3. left \o <<o>> = Append(left, o)
    OBVIOUS
  <1>4. \A p \in (o - 1 + 1) .. (o - 1 + 1) : ~Within(left, p)
    BY <1>1
  <1>5. /\ left \o Run(o - 1, 1) \in Seq(Ops) /\ Len(left \o Run(o - 1, 1)) = Len(left) + 1
        /\ \A p \in Ops : Within(left \o Run(o - 1, 1), p)
                             <=> Within(left, p) \/ p \in (o - 1 + 1) .. (o - 1 + 1)
        /\ \A i, j \in 1 .. Len(left \o Run(o - 1, 1)) :
              (left \o Run(o - 1, 1))[i] = (left \o Run(o - 1, 1))[j] => i = j
        /\ \A i \in 1 .. Len(left \o Run(o - 1, 1)) :
              (left \o Run(o - 1, 1))[i]
                = IF i <= Len(left) THEN left[i] ELSE o - 1 + (i - Len(left))
    BY <1>1, <1>4, LogGrows
  <1>6. \A i \in 1 .. Len(left) + 1 : i <= Len(left) \/ o - 1 + (i - Len(left)) = o
    BY <1>1
  <1> QED BY <1>1, <1>2, <1>3, <1>5, <1>6

LEMMA SettleKeeps ==
  ASSUME SeqInv, op # NoOp, ~finalized, Rest, NEW c \in wire, answered' = answered \cup {c},
         runs' \in Models, thinks' \in Efforts, NEW receipt \in Receipt, receipt.state # "none",
         NEW model \in Models, ~NativeRejects /\ ~Closed => model = runs',
         Settle(receipt, model, wire \ {c})
  PROVE  SeqInv'
  <1> DEFINE rec == [receipts EXCEPT ![op.no] = receipt]
             left == Append(log, op.no)
             n == Len(queue)
  <1>0. TypeOK /\ Line /\ Owing /\ InOrder /\ OnWire /\ Shape /\ MaxOps \in Nat
        /\ MostOps \in Nat /\ MostOps <= MaxOps /\ submitted \in 0 .. MostOps
        /\ receipts \in [Ops -> Receipt] /\ log \in Seq(Ops) /\ Closed \in BOOLEAN
    BY Bounds DEF SeqInv, TypeOK, Closed
  <1>1. /\ op.no \in 1 .. submitted /\ op.no + n <= submitted /\ n \in Nat /\ op.no \in Ops
        /\ queue = Run(op.no, n) /\ Waiting = op.no .. op.no + n
    BY <1>0 DEF Line, Run, TypeOK, Waiting, Ops
  <1>2. wire \ {c} = {} /\ c = CommandOf(op) /\ c.op = op.no
    BY <1>0 DEF OnWire, CommandOf
  <1>3. receipts[op.no].state = "none" /\ ~Within(log, op.no)
    BY <1>0, <1>1 DEF Owing
  <1>4. /\ left \in Seq(Ops) /\ Len(left) = Len(log) + 1
        /\ \A o \in Ops : Within(left, o) <=> Within(log, o) \/ o = op.no
        /\ \A i, j \in 1 .. Len(left) : left[i] = left[j] => i = j
        /\ \A i \in 1 .. Len(left) : left[i] = IF i <= Len(log) THEN log[i] ELSE op.no
    BY <1>0, <1>1, <1>3, LogOne DEF Owing
  <1>5. rec \in [Ops -> Receipt] /\ \A o \in Ops : rec[o] = IF o = op.no THEN receipt ELSE receipts[o]
    BY <1>0, <1>1
  <1> HIDE DEF rec, left, n
  <1>6. \A o \in Ops : rec[o].state # "none"
                         <=> o \in (1 .. submitted) \ ((op.no + 1) .. (op.no + n))
    <2> SUFFICES ASSUME NEW o \in Ops
                 PROVE  rec[o].state # "none"
                          <=> o \in (1 .. submitted) \ ((op.no + 1) .. (op.no + n))
      OBVIOUS
    <2>1. receipts[o].state # "none" <=> o \in (1 .. submitted) \ (op.no .. op.no + n)
      BY <1>0, <1>1 DEF Owing
    <2>2. o \in Nat
      BY DEF Ops
    <2>3. CASE o = op.no
      BY <1>1, <1>5, <2>2, <2>3
    <2>4. CASE o # op.no
      BY <1>1, <1>5, <2>1, <2>2, <2>4
    <2> QED BY <2>3, <2>4
  <1>7. \A o \in Ops : Within(left, o) <=> rec[o].state # "none"
    BY <1>0, <1>4, <1>5 DEF Owing
  <1>8. ~Closed => /\ \A i \in 1 .. Len(left) : left[i] = i
                   /\ Len(left) = op.no /\ op.no + n = submitted
    <2> SUFFICES ASSUME ~Closed PROVE /\ \A i \in 1 .. Len(left) : left[i] = i
                                      /\ Len(left) = op.no /\ op.no + n = submitted
      OBVIOUS
    <2>1. /\ \A i \in 1 .. Len(log) : log[i] = i
          /\ Len(log) = op.no - 1 /\ op.no + n = submitted
      BY <1>0 DEF InOrder, n
    <2>2. op.no \in Nat /\ Len(log) \in Nat /\ Len(left) = op.no
      BY <1>0, <1>1, <1>4, <2>1 DEF Ops
    <2>3. ASSUME NEW i \in 1 .. Len(left) PROVE left[i] = i
      <3>1. i \in Nat /\ Len(left) = Len(log) + 1
        BY <1>4, <2>2
      <3>2. CASE i <= Len(log)
        BY <1>4, <2>1, <2>2, <3>1, <3>2
      <3>3. CASE ~(i <= Len(log))
        <4>1. i = op.no
          BY <2>2, <3>1, <3>3
        <4> QED BY <1>4, <3>3, <4>1
      <3> QED BY <3>2, <3>3
    <2> QED BY <2>1, <2>2, <2>3
  <1>9. submitted' = submitted /\ request' = request /\ UNCHANGED <<harness, dead, finalized>>
    BY DEF Rest
  <1>10. Ready(rec, left, op.no, n, Closed)
    BY <1>0, <1>1, <1>4, <1>5, <1>6, <1>7, <1>8, <1>9 DEF Ready, TypeOK, Line
  <1>11. Answered(rec, model, Closed)
    <2>1. answered' \subseteq Command
      BY <1>0 DEF TypeOK
    <2>2. ASSUME NEW d \in answered' PROVE Writable(d) /\ rec[d.op].state # "none"
      <3>1. d.op \in Ops
        BY <2>1 DEF Command
      <3>2. Writable(d)
        BY <1>0 DEF Shape
      <3>3. CASE d.op = op.no
        BY <1>1, <1>5, <3>2, <3>3
      <3>4. CASE d.op # op.no
        BY <1>0, <1>2, <1>5, <3>1, <3>2, <3>4 DEF OnWire
      <3> QED BY <3>3, <3>4
    <2>3. current' = model
      BY DEF Settle
    <2> QED BY <2>1, <2>2, <2>3 DEF Answered
  <1>12. Drain(rec, left, Run(op.no, n), model, Closed, {})
    BY <1>1, <1>2 DEF Settle, rec, left
  <1> QED BY <1>0, <1>10, <1>11, <1>12, DrainKeeps

-----------------------------------------------------------------------------
(* Every op owed is settled at once *)

LEMMA SweptKeeps ==
  ASSUME SeqInv, UNCHANGED <<submitted, request, harness, current, lost>>,
         op' = NoOp, queue' = <<>>, wire' \subseteq wire,
         answered' \subseteq answered \cup wire,
         runs' \in Models, thinks' \in Efforts, Closed',
         closing' \in BOOLEAN, ended' \in BOOLEAN, dead' \in BOOLEAN, finalized' \in BOOLEAN,
         finalized' => dead',
         receipts' \in [Ops -> Receipt],
         \A o \in Ops : receipts'[o].state # "none" <=> o \in 1 .. submitted,
         log' \in Seq(Ops), \A o \in Ops : Within(log', o) <=> o \in 1 .. submitted,
         \A i, j \in 1 .. Len(log') : log'[i] = log'[j] => i = j
  PROVE  SeqInv'
  <1>0. TypeOK /\ Line /\ Owing /\ OnWire /\ Shape /\ MaxOps \in Nat
        /\ MostOps \in Nat /\ MostOps <= MaxOps /\ submitted \in 0 .. MostOps
    BY Bounds DEF SeqInv
  <1>1. wire' \subseteq Command /\ answered' \subseteq Command /\ lost' \subseteq Command
    BY <1>0 DEF TypeOK
  <1>2. TypeOK'
    <2>1. op' \in Entry /\ queue' \in Seq(Ops)
      BY DEF NoOp, Entry
    <2>2. MostOps' = MostOps
      BY DEF MostOps
    <2> QED BY <1>0, <1>1, <2>1, <2>2 DEF TypeOK
  <1>3. Line' /\ InOrder' /\ Effective'
    BY <1>0 DEF Line, InOrder, Effective, NoOp
  <1>4. Owing'
    <2>1. Waiting' = {}
      BY DEF Waiting
    <2> QED BY <2>1 DEF Owing
  <1>5. OnWire'
    <2>1. (\A c, d \in wire' : c = d) /\ \A c \in wire' : c.op \in 1 .. submitted
      BY <1>0 DEF OnWire
    <2>2. ASSUME NEW c \in answered' PROVE receipts'[c.op].state # "none"
      <3>1. c.op \in Ops
        BY <1>1 DEF Command
      <3>2. c.op \in 1 .. submitted
        <4>1. CASE c \in wire
          BY <1>0, <4>1 DEF OnWire
        <4>2. CASE c \in answered /\ receipts[c.op].state # "none"
          BY <1>0, <3>1, <4>2 DEF Owing
        <4>3. CASE c \in answered /\ receipts[c.op].state = "none"
          BY <1>0, <4>3 DEF OnWire, Line
        <4> QED BY <4>1, <4>2, <4>3
      <3> QED BY <3>1, <3>2
    <2> QED BY <2>1, <2>2 DEF OnWire
  <1>6. Shape'
    BY <1>0 DEF Shape, Writable
  <1> QED BY <1>2, <1>3, <1>4, <1>5, <1>6 DEF SeqInv

LEMMA PartialTyped ==
  ASSUME NEW e \in Entry, NEW r \in Reasons,
         e.modelApplied => e.model \in Models, e.effortApplied => e.effort \in Efforts
  PROVE  Partial(e, r) \in Receipt /\ Partial(e, r).state = "rejected"
  <1>1. AppliedModel(e) \in Models \cup {"none"} /\ AppliedEffort(e) \in Efforts \cup {"none"}
    BY DEF AppliedModel, AppliedEffort
  <1>2. Rejected(r) \in Receipt /\ Rejected(r).state = "rejected"
    BY RejectedTyped
  <1> QED BY <1>1, <1>2 DEF Partial, Receipt

(* The receipts that leave when every op owed is settled, the op in flight
   before the ones behind it or after them. *)
LEMMA SweptLog ==
  ASSUME SeqInv, NEW s,
         \/ op = NoOp /\ s = log
         \/ op = NoOp /\ s = log \o queue
         \/ op # NoOp /\ s = Append(log, op.no) \o queue
         \/ op # NoOp /\ s = Append(log \o queue, op.no)
  PROVE  /\ s \in Seq(Ops) /\ \A o \in Ops : Within(s, o) <=> o \in 1 .. submitted
         /\ \A i, j \in 1 .. Len(s) : s[i] = s[j] => i = j
  <1>0. /\ TypeOK /\ Line /\ Owing /\ log \in Seq(Ops) /\ MaxOps \in Nat /\ Ops = 1 .. MaxOps
        /\ submitted \in Nat /\ submitted <= MaxOps
    BY Bounds DEF SeqInv, TypeOK
  <1>1. /\ \A o \in Ops : Within(log, o) <=> o \in (1 .. submitted) \ Waiting
        /\ \A i, j \in 1 .. Len(log) : log[i] = log[j] => i = j
    BY <1>0 DEF Owing
  <1>2. CASE op = NoOp
    <2>1. s = log /\ Waiting = {}
      BY <1>0, <1>2 DEF Line, Waiting
    <2> QED BY <1>0, <1>1, <2>1
  <1>3. CASE op # NoOp
    <2> DEFINE a == op.no
               n == Len(queue)
    <2>1. /\ a \in 1 .. submitted /\ a + n <= submitted /\ n \in Nat /\ a \in Ops /\ a \in Nat
          /\ queue = Run(a, n) /\ Waiting = a .. a + n /\ a + n <= MaxOps
      BY <1>0, <1>3 DEF Line, Run, TypeOK, Waiting
    <2> HIDE DEF a, n
    <2>2. ~Within(log, a) /\ \A o \in (a + 1) .. (a + n) : ~Within(log, o)
      BY <1>0, <1>1, <2>1
    <2>5. \A o \in Ops : o \in 1 .. submitted
                           <=> Within(log, o) \/ o = a \/ o \in (a + 1) .. (a + n)
      <3> SUFFICES ASSUME NEW o \in Ops
                   PROVE  o \in 1 .. submitted
                            <=> Within(log, o) \/ o = a \/ o \in (a + 1) .. (a + n)
        OBVIOUS
      <3>1. o \in Nat /\ (o \in a .. a + n <=> o = a \/ o \in (a + 1) .. (a + n))
        BY <1>0, <2>1
      <3>2. o \in a .. a + n => o \in 1 .. submitted
        BY <1>0, <2>1, <3>1
      <3>3. Within(log, o) <=> o \in 1 .. submitted /\ o \notin a .. a + n
        BY <1>1, <2>1
      <3> QED BY <3>1, <3>2, <3>3
    <2>3. ASSUME s = Append(log, a) \o queue
          PROVE  /\ s \in Seq(Ops) /\ \A o \in Ops : Within(s, o) <=> o \in 1 .. submitted
                 /\ \A i, j \in 1 .. Len(s) : s[i] = s[j] => i = j
      <3> DEFINE left == Append(log, a)
      <3>1. /\ left \in Seq(Ops) /\ \A o \in Ops : Within(left, o) <=> Within(log, o) \/ o = a
            /\ \A i, j \in 1 .. Len(left) : left[i] = left[j] => i = j
        BY <1>0, <1>1, <2>1, <2>2, LogOne
      <3> HIDE DEF left
      <3>2. \A o \in (a + 1) .. (a + n) : ~Within(left, o)
        BY <1>0, <2>1, <2>2, <3>1
      <3>3. /\ left \o Run(a, n) \in Seq(Ops)
            /\ \A o \in Ops : Within(left \o Run(a, n), o)
                                <=> Within(left, o) \/ o \in (a + 1) .. (a + n)
            /\ \A i, j \in 1 .. Len(left \o Run(a, n)) :
                 (left \o Run(a, n))[i] = (left \o Run(a, n))[j] => i = j
        BY <2>1, <3>1, <3>2, LogGrows
      <3>4. s = left \o Run(a, n)
        BY <2>1, <2>3 DEF left
      <3>5. \A o \in Ops : Within(s, o) <=> o \in 1 .. submitted
        BY <2>5, <3>1, <3>3, <3>4
      <3> QED BY <3>3, <3>4, <3>5
    <2>4. ASSUME s = Append(log \o queue, a)
          PROVE  /\ s \in Seq(Ops) /\ \A o \in Ops : Within(s, o) <=> o \in 1 .. submitted
                 /\ \A i, j \in 1 .. Len(s) : s[i] = s[j] => i = j
      <3> DEFINE left == log \o Run(a, n)
      <3>1. /\ left \in Seq(Ops)
            /\ \A o \in Ops : Within(left, o) <=> Within(log, o) \/ o \in (a + 1) .. (a + n)
            /\ \A i, j \in 1 .. Len(left) : left[i] = left[j] => i = j
        BY <1>0, <1>1, <2>1, <2>2, LogGrows
      <3> HIDE DEF left
      <3>2. ~Within(left, a)
        BY <2>1, <2>2, <3>1
      <3>3. /\ Append(left, a) \in Seq(Ops)
            /\ \A o \in Ops : Within(Append(left, a), o) <=> Within(left, o) \/ o = a
            /\ \A i, j \in 1 .. Len(Append(left, a)) :
                 Append(left, a)[i] = Append(left, a)[j] => i = j
        BY <2>1, <3>1, <3>2, LogOne
      <3>4. s = Append(left, a)
        BY <2>1, <2>4 DEF left
      <3>5. \A o \in Ops : Within(s, o) <=> o \in 1 .. submitted
        BY <2>5, <3>1, <3>3, <3>4
      <3> QED BY <3>3, <3>4, <3>5
    <2> QED BY <1>3, <2>3, <2>4 DEF a
  <1> QED BY <1>2, <1>3

LEMMA SweptReceipts ==
  ASSUME SeqInv, NEW e \in Entry, NEW r \in Reasons, NEW s \in Reasons, e.no = op.no,
         op # NoOp => /\ e.modelApplied => e.model \in Models
                      /\ e.effortApplied => e.effort \in Efforts,
         receipts' = [o \in Ops |-> IF Within(queue, o) THEN Rejected(s)
                                    ELSE IF o = op.no THEN Partial(e, r) ELSE receipts[o]]
  PROVE  /\ receipts' \in [Ops -> Receipt]
         /\ \A o \in Ops : receipts'[o].state # "none" <=> o \in 1 .. submitted
  <1>0. /\ TypeOK /\ Line /\ Owing /\ MaxOps \in Nat /\ Ops = 1 .. MaxOps
        /\ submitted \in Nat /\ submitted <= MaxOps /\ receipts \in [Ops -> Receipt]
    BY Bounds DEF SeqInv, TypeOK
  <1>1. Rejected(s) \in Receipt /\ Rejected(s).state # "none"
    BY RejectedTyped
  <1>2. \A o \in Ops : receipts[o].state # "none" <=> o \in (1 .. submitted) \ Waiting
    BY <1>0 DEF Owing
  <1>3. CASE op = NoOp
    <2>1. \A o \in Ops : ~Within(queue, o) /\ o # op.no
      BY <1>0, <1>3 DEF Line, Within, NoOp
    <2>2. receipts' = receipts /\ Waiting = {}
      BY <1>0, <1>3, <2>1 DEF Waiting
    <2> QED BY <1>0, <1>2, <2>2
  <1>4. CASE op # NoOp
    <2>1. /\ op.no \in 1 .. submitted /\ op.no + Len(queue) <= submitted /\ Len(queue) \in Nat
          /\ queue = Run(op.no, Len(queue)) /\ Waiting = op.no .. op.no + Len(queue)
      <3>1. queue \in Seq(Ops) /\ Len(queue) \in Nat
        BY <1>0 DEF TypeOK
      <3>2. /\ op.no \in 1 .. submitted /\ op.no + Len(queue) <= submitted
            /\ queue = [i \in 1 .. Len(queue) |-> op.no + i]
        BY <1>0, <1>4 DEF Line
      <3>3. queue = Run(op.no, Len(queue))
        BY <3>2 DEF Run
      <3> QED BY <1>4, <3>1, <3>2, <3>3 DEF Waiting
    <2>2. \A o \in Ops : Within(queue, o) <=> o \in (op.no + 1) .. (op.no + Len(queue))
      <3>1. op.no \in Nat /\ op.no + Len(queue) <= MaxOps
        BY <1>0, <2>1
      <3>2. \A o \in Ops : Within(Run(op.no, Len(queue)), o)
                             <=> o \in (op.no + 1) .. (op.no + Len(queue))
        BY <2>1, <3>1, RunFacts
      <3> QED BY <2>1, <3>2
    <2>3. Partial(e, r) \in Receipt /\ Partial(e, r).state # "none"
      BY <1>4, PartialTyped
    <2>4. ASSUME NEW o \in Ops
          PROVE  /\ receipts'[o] \in Receipt
                 /\ receipts'[o].state # "none" <=> o \in 1 .. submitted
      <3>1. o \in Nat /\ op.no \in Nat
        BY <1>0, <2>1
      <3>2. CASE o \in (op.no + 1) .. (op.no + Len(queue))
        BY <1>0, <1>1, <2>1, <2>2, <3>1, <3>2
      <3>3. CASE o = op.no
        BY <1>0, <2>1, <2>2, <2>3, <3>1, <3>3
      <3>4. CASE o \notin op.no .. op.no + Len(queue)
        BY <1>0, <1>2, <2>1, <2>2, <3>1, <3>4
      <3> QED BY <2>1, <3>1, <3>2, <3>3, <3>4
    <2>5. receipts' = [o \in Ops |-> receipts'[o]]
      OBVIOUS
    <2> QED BY <2>4, <2>5
  <1> QED BY <1>3, <1>4

-----------------------------------------------------------------------------
(* The next write of the op in flight *)

LEMMA Ranks ==
  /\ PhaseRank \in [Parts -> 1 .. 4]
  /\ PhaseRank["catalog"] = 1 /\ PhaseRank["model"] = 2
  /\ PhaseRank["effort"] = 3 /\ PhaseRank["state"] = 4
  BY DEF PhaseRank, Parts

LEMMA WriteKeeps ==
  ASSUME SeqInv, op # NoOp, ~finalized, Rest, NEW c \in wire, answered' = answered \cup {c},
         runs' \in Models, thinks' \in Efforts,
         NEW e \in Entry, e.no = op.no, PhaseRank[op.phase] < PhaseRank[e.phase], ShapeOf(e),
         e.modelApplied => runs' = e.model,
         ~NativeRejects /\ ~Closed /\ ~e.modelApplied => current = runs',
         WriteStep(e, wire \ {c})
  PROVE  SeqInv'
  <1>0. TypeOK /\ Line /\ Owing /\ InOrder /\ OnWire /\ Shape
    BY DEF SeqInv
  <1>1. /\ wire \ {c} = {} /\ c = CommandOf(op) /\ c.op = op.no /\ c.part = op.phase
        /\ op.phase \in Parts
    BY <1>0 DEF OnWire, CommandOf
  <1>2. /\ op.no \in 1 .. submitted /\ submitted \in 0 .. MostOps /\ MostOps \in Nat
        /\ MostOps <= MaxOps /\ MaxOps \in Nat /\ Ops = 1 .. MaxOps
    BY <1>0, Bounds DEF Line
  <1>3. op.no \in Ops /\ e.no \in Ops /\ e # NoOp
    BY <1>2 DEF NoOp
  <1>4. /\ harness' = harness /\ submitted' = submitted /\ request' = request
        /\ dead' = dead /\ finalized' = finalized
        /\ MostOps' = MostOps /\ Pi' = Pi /\ NativeRejects' = NativeRejects
    BY DEF Rest, MostOps, Pi, NativeRejects
  <1>5. CASE /\ op' = e /\ Write(e, wire \ {c})
             /\ Holds
             /\ UNCHANGED <<queue, receipts, log, current>>
    <2>1. CommandOf(e) \in Command /\ CommandOf(e).op = op.no
      <3>1. e.phase \in Parts /\ Writable(CommandOf(e))
        BY DEF ShapeOf
      <3>2. CommandOf(e).value \in Models \cup Efforts \cup {"none"}
        BY <3>1 DEF CommandOf, Writable
      <3> QED BY <1>3, <3>1, <3>2 DEF CommandOf, Command
    <2>2. wire' \subseteq {CommandOf(e)} /\ CommandOf(e) \in wire' \cup lost' /\ lost' \subseteq Command
      BY <1>0, <1>1, <1>5, <2>1 DEF Write, TypeOK
    <2>3. closing' = closing /\ ended' = ended /\ Closed' = Closed /\ op' # NoOp
      BY <1>3, <1>4, <1>5 DEF Holds, Closed
    <2>4. TypeOK'
      BY <1>0, <1>4, <1>5, <2>1, <2>2, <2>3 DEF TypeOK
    <2>5. Line'
      BY <1>0, <1>3, <1>4, <1>5, <2>3 DEF Line, Ops
    <2>6. Owing'
      <3>1. Waiting' = Waiting
        BY <1>5, <2>3 DEF Waiting
      <3> QED BY <1>0, <1>4, <1>5, <3>1 DEF Owing
    <2>7. InOrder'
      BY <1>0, <1>4, <1>5, <2>3 DEF InOrder
    <2>8. OnWire'
      <3>1. CommandOf(op)' = CommandOf(e)
        BY <1>5 DEF CommandOf
      <3>2. ASSUME NEW d \in answered', receipts'[d.op].state = "none"
            PROVE  d.op = op.no /\ PhaseRank[d.part] < PhaseRank[e.phase]
        <4>1. d \in Command
          BY <1>0 DEF TypeOK
        <4>2. /\ PhaseRank[d.part] \in 1 .. 4 /\ PhaseRank[op.phase] \in 1 .. 4
              /\ PhaseRank[e.phase] \in 1 .. 4
          BY <1>1, <4>1, Ranks DEF Command, ShapeOf
        <4>3. CASE d = c
          BY <1>1, <4>3
        <4>4. CASE d \in answered
          <5>1. d.op = op.no /\ PhaseRank[d.part] < PhaseRank[op.phase]
            BY <1>0, <1>5, <3>2, <4>4 DEF OnWire
          <5> QED BY <4>2, <5>1
        <4> QED BY <4>3, <4>4
      <3>3. e.phase \in Parts
        BY DEF ShapeOf
      <3> QED BY <1>2, <1>4, <1>5, <2>1, <2>2, <2>3, <3>1, <3>2, <3>3 DEF OnWire
    <2>9. Shape'
      <3>1. ShapeOf(op)'
        BY <1>4, <1>5 DEF ShapeOf, CommandOf, Writable
      <3>2. \A d \in wire' \cup answered' : Writable(d)
        BY <1>0, <2>2 DEF Shape, ShapeOf
      <3> QED BY <3>1, <3>2 DEF Shape, Writable
    <2>10. Effective'
      BY <1>4, <1>5, <2>3 DEF Effective
    <2> QED BY <2>4, <2>5, <2>6, <2>7, <2>8, <2>9, <2>10 DEF SeqInv
  <1>6. CASE /\ op' = NoOp /\ queue' = <<>> /\ current' = current
             /\ log' = Append(log, e.no) \o queue
             /\ receipts' = [o \in Ops |->
                  IF o = e.no THEN Partial(e, "write-failed")
                  ELSE IF Within(queue, o) THEN Rejected("closed") ELSE receipts[o]]
             /\ NoWrite(wire \ {c})
             /\ Breaks
    <2>1. /\ log' \in Seq(Ops) /\ \A o \in Ops : Within(log', o) <=> o \in 1 .. submitted
          /\ \A i, j \in 1 .. Len(log') : log'[i] = log'[j] => i = j
      BY <1>6, SweptLog
    <2>2. /\ receipts' \in [Ops -> Receipt]
          /\ \A o \in Ops : receipts'[o].state # "none" <=> o \in 1 .. submitted
      <3>1. ~Within(queue, op.no)
        <4>1. /\ \A i \in 1 .. Len(queue) : queue[i] = op.no + i
              /\ Len(queue) \in Nat /\ op.no \in Nat
          BY <1>0, <1>2 DEF Line, TypeOK
        <4> QED BY <4>1 DEF Within
      <3>2. receipts' = [o \in Ops |-> IF Within(queue, o) THEN Rejected("closed")
                                       ELSE IF o = op.no THEN Partial(e, "write-failed")
                                       ELSE receipts[o]]
        BY <1>6, <3>1
      <3>3. /\ "closed" \in Reasons /\ "write-failed" \in Reasons
            /\ e.modelApplied => e.model \in Models
            /\ e.effortApplied => e.effort \in Efforts
        BY DEF Reasons, ShapeOf
      <3> QED BY <3>2, <3>3, SweptReceipts
    <2>3. /\ wire' \subseteq wire /\ lost' = lost /\ closing' = TRUE /\ ended' = TRUE
          /\ closing' \in BOOLEAN /\ ended' \in BOOLEAN /\ Closed'
      BY <1>6 DEF NoWrite, Breaks, Closed
    <2>4. dead' \in BOOLEAN /\ finalized' \in BOOLEAN /\ (finalized' => dead')
      BY <1>0, <1>4 DEF TypeOK
    <2>5. answered' \subseteq answered \cup wire
      OBVIOUS
    <2> QED BY <1>4, <1>6, <2>1, <2>2, <2>3, <2>4, <2>5, SweptKeeps
  <1> QED BY <1>5, <1>6 DEF WriteStep

-----------------------------------------------------------------------------
(* The harness *)

(* The answer that names the op in flight is the first to its native write:
   a duplicate names a part the op has left. *)
LEMMA NamedAnswer ==
  ASSUME SeqInv, NEW c \in wire \cup answered, NEW ok \in BOOLEAN, Answers(c, ok), Names(c)
  PROVE  /\ op # NoOp /\ c \in wire /\ c = CommandOf(op) /\ c.part = op.phase
         /\ answered' = answered \cup {c} /\ ~finalized
         /\ runs' \in Models /\ thinks' \in Efforts
         /\ IF ok /\ c.part = "model" THEN runs' = op.model ELSE runs' = runs
         /\ ok /\ c.part = "effort" /\ ~Pi => thinks' = op.effort
         /\ ok \/ NativeRejects
  <1>0. TypeOK /\ Line /\ Owing /\ OnWire /\ Shape /\ Ops = 1 .. MaxOps /\ MaxOps \in Nat
        /\ submitted \in 0 .. MostOps /\ MostOps \in Nat /\ MostOps <= MaxOps
    BY Bounds DEF SeqInv
  <1>1. c \in Command /\ c.op \in Ops /\ c.op = op.no /\ c.part = op.phase /\ c.part \in Parts
    BY <1>0 DEF TypeOK, Command, Names
  <1>2. op # NoOp
    BY <1>0, <1>1 DEF NoOp
  <1>3. c \notin answered
    <2> SUFFICES ASSUME c \in answered PROVE FALSE
      OBVIOUS
    <2>1. op.no \in Waiting
      <3>1. Len(queue) \in Nat /\ op.no \in Nat
        BY <1>0, <1>1 DEF TypeOK
      <3> QED BY <1>2, <3>1 DEF Waiting
    <2>2. receipts[c.op].state = "none"
      BY <1>0, <1>1, <2>1 DEF Owing
    <2>3. PhaseRank[c.part] < PhaseRank[op.phase]
      BY <1>0, <2>2 DEF OnWire
    <2>4. PhaseRank[c.part] \in 1 .. 4
      BY <1>1, Ranks
    <2> QED BY <1>1, <2>3, <2>4
  <1>4. c \in wire /\ c = CommandOf(op) /\ answered' = answered \cup {c}
    BY <1>0, <1>2, <1>3 DEF OnWire, Answers
  <1>5. /\ ~finalized /\ (ok \/ NativeRejects)
        /\ \/ /\ ok /\ c.part = "model" /\ runs' = c.value
              /\ thinks' \in (IF Pi THEN Clamped(thinks, c.value) ELSE {thinks})
           \/ /\ ok /\ c.part = "effort" /\ runs' = runs
              /\ thinks' \in Clamped(c.value, runs)
           \/ /\ ~ok \/ c.part \in {"catalog", "state"}
              /\ UNCHANGED <<runs, thinks>>
    BY <1>3 DEF Answers
  <1>6. /\ c.part = "model" => c.value \in Models /\ c.value = op.model
        /\ c.part = "effort" => c.value \in Efforts /\ c.value = op.effort
    <2>1. Writable(c)
      BY <1>0, <1>4 DEF Shape
    <2> QED BY <1>1, <1>4, <2>1 DEF Writable, CommandOf
  <1>7. runs \in Models /\ thinks \in Efforts
    BY <1>0 DEF TypeOK
  <1>8. ASSUME NEW w \in Efforts, NEW m \in Models PROVE Clamped(w, m) \subseteq Efforts
    BY ModelsAssumption DEF Clamped
  <1>9. CASE /\ ok /\ c.part = "model" /\ runs' = c.value
             /\ thinks' \in (IF Pi THEN Clamped(thinks, c.value) ELSE {thinks})
    <2>1. thinks' \in Efforts
      BY <1>6, <1>7, <1>8, <1>9
    <2> QED BY <1>1, <1>2, <1>4, <1>5, <1>6, <1>9, <2>1
  <1>10. CASE /\ ok /\ c.part = "effort" /\ runs' = runs
              /\ thinks' \in Clamped(c.value, runs)
    <2>1. thinks' \in Efforts
      BY <1>6, <1>7, <1>8, <1>10
    <2>2. ~Pi => thinks' = op.effort
      BY <1>6, <1>10 DEF Clamped
    <2> QED BY <1>1, <1>2, <1>4, <1>5, <1>7, <1>10, <2>1, <2>2
  <1>11. CASE /\ ~ok \/ c.part \in {"catalog", "state"}
              /\ UNCHANGED <<runs, thinks>>
    BY <1>1, <1>2, <1>4, <1>5, <1>7, <1>11
  <1> QED BY <1>5, <1>9, <1>10, <1>11

(* What the op in flight holds, for the answers. *)
LEMMA OpFacts ==
  ASSUME SeqInv, op # NoOp
  PROVE  /\ op \in Entry /\ ShapeOf(op) /\ op.no \in Ops /\ op.phase \in Parts
         /\ op.modelApplied \in BOOLEAN /\ op.effortApplied \in BOOLEAN
         /\ op.modelApplied => op.model \in Models /\ runs = op.model
         /\ op.effortApplied => op.effort \in Efforts
         /\ ~NativeRejects /\ ~Closed /\ ~op.modelApplied => current = runs
         /\ current \in Models /\ runs \in Models /\ thinks \in Efforts
         /\ "none" \notin Models /\ "none" \notin Efforts /\ "unknown" \notin Models
         /\ Pi \in BOOLEAN /\ NativeRejects \in BOOLEAN
  <1>1. TypeOK /\ Line /\ Shape /\ Effective
    BY DEF SeqInv
  <1>2. ShapeOf(op) /\ op \in Entry /\ op.no \in 1 .. submitted
    BY <1>1 DEF Shape, TypeOK, Line
  <1>3. op.no \in Ops
    BY <1>1, <1>2, Bounds
  <1>4. "none" \notin Models /\ "none" \notin Efforts /\ "unknown" \notin Models
    BY ModelsAssumption
  <1> QED BY <1>1, <1>2, <1>3, <1>4, Bounds DEF ShapeOf, Entry, Effective, TypeOK

LEMMA CatalogStep ==
  ASSUME SeqInv, NEW c \in wire \cup answered, NEW found \in Models \cup {"none"},
         NEW level \in Efforts \cup {"none"}, CatalogRead(c, found, level)
  PROVE  SeqInv'
  <1>0. Rest /\ Answers(c, TRUE) /\ Names(c) /\ c.part = "catalog"
    BY DEF CatalogRead
  <1>1. /\ op # NoOp /\ c \in wire /\ op.phase = "catalog" /\ ~finalized
        /\ answered' = answered \cup {c} /\ runs' = runs
        /\ runs' \in Models /\ thinks' \in Efforts
    BY <1>0, NamedAnswer
  <1>2. /\ op \in Entry /\ ShapeOf(op) /\ ~op.modelApplied /\ ~op.effortApplied
        /\ op.modelApplied = FALSE /\ op.effortApplied = FALSE
        /\ (~NativeRejects /\ ~Closed => current = runs) /\ current \in Models
    BY <1>1, OpFacts DEF ShapeOf
  <1>3. CASE found = "none"
    <2>1. Settle(Rejected("invalid-model"), current, wire \ {c})
      BY <1>3 DEF CatalogRead
    <2>2. /\ Rejected("invalid-model") \in Receipt
          /\ Rejected("invalid-model").state = "rejected"
      BY RejectedTyped DEF Reasons
    <2> QED BY <1>0, <1>1, <1>2, <2>1, <2>2, SettleKeeps
  <1>4. CASE found # "none"
    <2> DEFINE e == [op EXCEPT !.model = found, !.phase = "model",
                       !.effort = IF @ = "none" THEN level ELSE @]
    <2>1. WriteStep(e, wire \ {c})
      BY <1>4 DEF CatalogRead
    <2>2. found \in Models /\ op.effort \in Efforts \cup {"none"}
      BY <1>2, <1>4 DEF Entry
    <2>3. /\ e \in Entry /\ e.no = op.no /\ e.model = found /\ e.phase = "model"
          /\ e.modelApplied = FALSE /\ e.effortApplied = FALSE
      BY <1>2, <2>2 DEF Entry, Parts
    <2> HIDE DEF e
    <2>4. ShapeOf(e)
      <3>1. Writable(CommandOf(e))
        BY <2>2, <2>3 DEF Writable, CommandOf
      <3>2. request[op.no].model # "none"
        BY <1>1, <1>2 DEF ShapeOf
      <3> QED BY <2>2, <2>3, <3>1, <3>2 DEF ShapeOf, Parts
    <2>5. PhaseRank[op.phase] < PhaseRank[e.phase]
      BY <1>1, <2>3, Ranks
    <2> QED BY <1>0, <1>1, <1>2, <2>1, <2>3, <2>4, <2>5, WriteKeeps
  <1> QED BY <1>3, <1>4

LEMMA ModelStep ==
  ASSUME SeqInv, NEW c \in wire \cup answered, ModelRead(c)
  PROVE  SeqInv'
  <1> DEFINE e == [op EXCEPT !.modelApplied = TRUE,
                     !.phase = IF op.effort # "none" THEN "effort"
                               ELSE IF Pi THEN "state" ELSE "none"]
  <1>0. /\ Rest /\ Answers(c, TRUE) /\ Names(c) /\ c.part = "model"
        /\ \/ e.phase # "none" /\ WriteStep(e, wire \ {c})
           \/ e.phase = "none" /\ Settle(Applied(e), LeavesModel(AppliedModel(e)), wire \ {c})
    BY DEF ModelRead
  <1>1. /\ op # NoOp /\ c \in wire /\ op.phase = "model" /\ ~finalized
        /\ answered' = answered \cup {c} /\ runs' = op.model
        /\ runs' \in Models /\ thinks' \in Efforts
    BY <1>0, NamedAnswer
  <1>2. /\ op \in Entry /\ ShapeOf(op) /\ op.effortApplied = FALSE /\ op.model \in Models
        /\ op.effort \in Efforts \cup {"none"} /\ Pi \in BOOLEAN /\ "none" \notin Models
    BY <1>1, OpFacts DEF ShapeOf, Entry
  <1>3. /\ e.no = op.no /\ e.model = op.model /\ e.effort = op.effort
        /\ e.phase = IF op.effort # "none" THEN "effort" ELSE IF Pi THEN "state" ELSE "none"
        /\ e.modelApplied = TRUE /\ e.effortApplied = FALSE /\ e \in Entry
    BY <1>2 DEF Entry, Parts
  <1> HIDE DEF e
  <1>4. CASE e.phase # "none" /\ WriteStep(e, wire \ {c})
    <2>1. ShapeOf(e)
      <3>1. Writable(CommandOf(e))
        BY <1>2, <1>3 DEF Writable, CommandOf
      <3> QED BY <1>2, <1>3, <1>4, <3>1 DEF ShapeOf, Parts
    <2>2. PhaseRank[op.phase] < PhaseRank[e.phase]
      BY <1>1, <1>3, <1>4, Ranks
    <2> QED BY <1>0, <1>1, <1>3, <1>4, <2>1, <2>2, WriteKeeps
  <1>5. CASE e.phase = "none" /\ Settle(Applied(e), LeavesModel(AppliedModel(e)), wire \ {c})
    <2>1. LeavesModel(AppliedModel(e)) = runs'
      BY <1>1, <1>2, <1>3 DEF LeavesModel, AppliedModel
    <2>2. Applied(e) \in Receipt /\ Applied(e).state = "applied"
      BY <1>2, <1>3 DEF Applied, Receipt, Owed, AppliedModel, AppliedEffort, Reasons
    <2> QED BY <1>0, <1>1, <1>5, <2>1, <2>2, SettleKeeps
  <1> QED BY <1>0, <1>4, <1>5

LEMMA EffortStep ==
  ASSUME SeqInv, NEW c \in wire \cup answered, EffortRead(c)
  PROVE  SeqInv'
  <1> DEFINE e == [op EXCEPT !.effortApplied = TRUE, !.phase = IF Pi THEN "state" ELSE "none"]
  <1>0. /\ Rest /\ Answers(c, TRUE) /\ Names(c) /\ c.part = "effort"
        /\ \/ Pi /\ WriteStep(e, wire \ {c})
           \/ ~Pi /\ Settle(Applied(e), LeavesModel(AppliedModel(e)), wire \ {c})
    BY DEF EffortRead
  <1>1. /\ op # NoOp /\ c \in wire /\ op.phase = "effort" /\ ~finalized
        /\ answered' = answered \cup {c} /\ runs' = runs
        /\ runs' \in Models /\ thinks' \in Efforts
    BY <1>0, NamedAnswer
  <1>2. /\ op \in Entry /\ ShapeOf(op) /\ op.effort \in Efforts /\ op.modelApplied \in BOOLEAN
        /\ Pi \in BOOLEAN /\ "none" \notin Models /\ current \in Models
        /\ op.modelApplied => op.model \in Models /\ runs = op.model
        /\ ~NativeRejects /\ ~Closed /\ ~op.modelApplied => current = runs
    BY <1>1, OpFacts DEF ShapeOf
  <1>3. /\ e.no = op.no /\ e.model = op.model /\ e.effort = op.effort
        /\ e.phase = (IF Pi THEN "state" ELSE "none")
        /\ e.modelApplied = op.modelApplied /\ e.effortApplied = TRUE /\ e \in Entry
    BY <1>2 DEF Entry, Parts
  <1> HIDE DEF e
  <1>4. CASE Pi /\ WriteStep(e, wire \ {c})
    <2>1. ShapeOf(e)
      <3>1. Writable(CommandOf(e))
        BY <1>3, <1>4 DEF Writable, CommandOf
      <3> QED BY <1>2, <1>3, <1>4, <3>1 DEF ShapeOf, Parts
    <2>2. PhaseRank[op.phase] < PhaseRank[e.phase]
      BY <1>1, <1>3, <1>4, Ranks
    <2> QED BY <1>0, <1>1, <1>2, <1>3, <1>4, <2>1, <2>2, WriteKeeps
  <1>5. CASE ~Pi /\ Settle(Applied(e), LeavesModel(AppliedModel(e)), wire \ {c})
    <2>1. /\ LeavesModel(AppliedModel(e)) \in Models
          /\ ~NativeRejects /\ ~Closed => LeavesModel(AppliedModel(e)) = runs'
      <3>1. CASE op.modelApplied
        BY <1>1, <1>2, <1>3, <3>1 DEF LeavesModel, AppliedModel
      <3>2. CASE ~op.modelApplied
        BY <1>1, <1>2, <1>3, <3>2 DEF LeavesModel, AppliedModel
      <3> QED BY <3>1, <3>2
    <2>2. Applied(e) \in Receipt /\ Applied(e).state = "applied"
      BY <1>2, <1>3 DEF Applied, Receipt, Owed, AppliedModel, AppliedEffort, Reasons
    <2> QED BY <1>0, <1>1, <1>5, <2>1, <2>2, SettleKeeps
  <1> QED BY <1>0, <1>4, <1>5

LEMMA StateStep ==
  ASSUME SeqInv, NEW c \in wire \cup answered, NEW fields \in SUBSET {"model", "effort"},
         StateRead(c, fields)
  PROVE  SeqInv'
  <1>0. PICK ok \in BOOLEAN :
          /\ Rest /\ Answers(c, ok) /\ Names(c) /\ c.part = "state"
          /\ Settle(Readback(op, fields),
                    LeavesModel(IF "model" \in fields THEN runs ELSE AppliedModel(op)), wire \ {c})
    BY DEF StateRead
  <1>1. /\ op # NoOp /\ c \in wire /\ op.phase = "state" /\ ~finalized
        /\ answered' = answered \cup {c} /\ runs' = runs
        /\ runs' \in Models /\ thinks' \in Efforts
    BY <1>0, NamedAnswer
  <1>2. /\ op.modelApplied \in BOOLEAN /\ runs \in Models /\ thinks \in Efforts
        /\ "none" \notin Models /\ current \in Models
        /\ op.modelApplied => op.model \in Models /\ runs = op.model
        /\ ~NativeRejects /\ ~Closed /\ ~op.modelApplied => current = runs
    BY <1>1, OpFacts
  <1>3. /\ LeavesModel(IF "model" \in fields THEN runs ELSE AppliedModel(op)) \in Models
        /\ ~NativeRejects /\ ~Closed =>
             LeavesModel(IF "model" \in fields THEN runs ELSE AppliedModel(op)) = runs'
    <2>1. CASE op.modelApplied
      BY <1>1, <1>2, <2>1 DEF LeavesModel, AppliedModel
    <2>2. CASE ~op.modelApplied
      BY <1>1, <1>2, <2>2 DEF LeavesModel, AppliedModel
    <2> QED BY <1>2, <2>1, <2>2
  <1>4. Readback(op, fields) \in Receipt /\ Readback(op, fields).state = "applied"
    BY <1>2 DEF Readback, Receipt, Owed, Reasons
  <1> QED BY <1>0, <1>1, <1>3, <1>4, SettleKeeps

LEMMA RejectionStep ==
  ASSUME SeqInv, NEW c \in wire \cup answered, RejectionRead(c)
  PROVE  SeqInv'
  <1>0. /\ Rest /\ Answers(c, FALSE) /\ Names(c)
        /\ Settle(Partial(op, "native-rejected"), current, wire \ {c})
    BY DEF RejectionRead
  <1>1. /\ op # NoOp /\ c \in wire /\ ~finalized /\ NativeRejects
        /\ answered' = answered \cup {c} /\ runs' \in Models /\ thinks' \in Efforts
    BY <1>0, NamedAnswer
  <1>2. /\ op \in Entry /\ current \in Models /\ "native-rejected" \in Reasons
        /\ op.modelApplied => op.model \in Models
        /\ op.effortApplied => op.effort \in Efforts
    BY <1>1, OpFacts DEF Reasons
  <1>3. Partial(op, "native-rejected") \in Receipt
        /\ Partial(op, "native-rejected").state = "rejected"
    BY <1>2, PartialTyped
  <1> QED BY <1>0, <1>1, <1>2, <1>3, SettleKeeps

(* Only a write no op waits for any more is ignored: after a sweep. *)
LEMMA IgnoredStep ==
  ASSUME SeqInv, NEW c \in wire \cup answered, AnswerIgnored(c)
  PROVE  SeqInv'
  <1>0. PICK ok \in BOOLEAN :
          /\ Rest /\ c \in wire /\ ~Names(c) /\ Answers(c, ok) /\ wire' = wire \ {c}
          /\ UNCHANGED <<op, queue, receipts, log, current, lost, closing, ended>>
    BY DEF AnswerIgnored
  <1>1. TypeOK /\ Line /\ Owing /\ OnWire /\ Shape
    BY DEF SeqInv
  <1>2. op = NoOp
    BY <1>0, <1>1 DEF OnWire, Names, CommandOf
  <1>3. Closed /\ queue = <<>> /\ Waiting = {}
    BY <1>0, <1>1, <1>2 DEF OnWire, Line, Waiting
  <1>4. c \in Command /\ Writable(c) /\ runs \in Models /\ thinks \in Efforts
    BY <1>0, <1>1 DEF Shape, TypeOK
  <1>5. answered' \subseteq answered \cup wire /\ runs' \in Models /\ thinks' \in Efforts
    <2>1. ASSUME NEW w \in Efforts, NEW m \in Models PROVE Clamped(w, m) \subseteq Efforts
      BY ModelsAssumption DEF Clamped
    <2>2. CASE UNCHANGED <<answered, runs, thinks>>
      BY <1>4, <2>2
    <2>3. CASE /\ answered' = answered \cup {c} /\ c.part = "model" /\ runs' = c.value
               /\ thinks' \in (IF Pi THEN Clamped(thinks, c.value) ELSE {thinks})
      BY <1>0, <1>4, <2>1, <2>3 DEF Writable
    <2>4. CASE /\ answered' = answered \cup {c} /\ c.part = "effort" /\ runs' = runs
               /\ thinks' \in Clamped(c.value, runs)
      BY <1>0, <1>4, <2>1, <2>4 DEF Writable
    <2>5. CASE answered' = answered \cup {c} /\ UNCHANGED <<runs, thinks>>
      BY <1>0, <1>4, <2>5
    <2> QED BY <1>0, <2>2, <2>3, <2>4, <2>5 DEF Answers
  <1>6. /\ \A o \in Ops : receipts'[o].state # "none" <=> o \in 1 .. submitted
        /\ \A o \in Ops : Within(log', o) <=> o \in 1 .. submitted
        /\ \A i, j \in 1 .. Len(log') : log'[i] = log'[j] => i = j
    BY <1>0, <1>1, <1>3 DEF Owing
  <1>7. /\ op' = NoOp /\ queue' = <<>> /\ wire' \subseteq wire /\ Closed'
        /\ closing' \in BOOLEAN /\ ended' \in BOOLEAN /\ dead' \in BOOLEAN
        /\ finalized' \in BOOLEAN /\ (finalized' => dead')
        /\ receipts' \in [Ops -> Receipt] /\ log' \in Seq(Ops)
    BY <1>0, <1>1, <1>2, <1>3 DEF Rest, TypeOK, Owing, Closed
  <1> QED BY <1>0, <1>5, <1>6, <1>7, SweptKeeps DEF Rest

-----------------------------------------------------------------------------
(* The host and the session *)

LEMMA SubmitStep ==
  ASSUME SeqInv, NEW o \in Ops, NEW ask \in Asks, Submit(o, ask)
  PROVE  SeqInv'
  <1>0. /\ TypeOK /\ Line /\ Owing /\ InOrder /\ OnWire /\ Shape /\ Effective
        /\ MostOps \in Nat /\ MostOps <= MaxOps /\ MaxOps \in Nat /\ Ops = 1 .. MaxOps
        /\ submitted \in 0 .. MostOps /\ log \in Seq(Ops) /\ queue \in Seq(Ops)
        /\ receipts \in [Ops -> Receipt] /\ request \in [Ops -> Request]
    BY Bounds DEF SeqInv, TypeOK
  <1>1. /\ o = submitted + 1 /\ o <= MostOps /\ submitted' = o
        /\ request' = [request EXCEPT ![o] = ask]
        /\ UNCHANGED <<current, answered, runs, thinks, harness, dead, finalized>>
    BY DEF Submit
  <1>2. /\ request' \in [Ops -> Request] /\ \A p \in 1 .. submitted' : request'[p] \in Asks
        /\ \A p \in 1 .. submitted : request'[p] = request[p]
    <2>1. ask \in Request
      BY AsksAssumption
    <2>2. request' \in [Ops -> Request]
      BY <1>0, <1>1, <2>1
    <2>3. ASSUME NEW p \in 1 .. submitted PROVE request'[p] = request[p] /\ request[p] \in Asks
      BY <1>0, <1>1 DEF Line
    <2>4. ASSUME NEW p \in 1 .. submitted' PROVE request'[p] \in Asks
      <3>1. CASE p = o
        BY <1>0, <1>1, <3>1
      <3>2. CASE p # o
        BY <1>0, <1>1, <2>3, <3>2
      <3> QED BY <3>1, <3>2
    <2> QED BY <2>2, <2>3, <2>4
  <1>3. receipts[o].state = "none" /\ ~Within(log, o)
    BY <1>0, <1>1 DEF Owing
  <1>4. /\ MostOps' = MostOps /\ Pi' = Pi /\ NativeRejects' = NativeRejects
        /\ submitted' \in 0 .. MostOps
    BY <1>0, <1>1 DEF MostOps, Pi, NativeRejects
  <1>5. op # NoOp => ShapeOf(op)' \/ op' # op
    <2> SUFFICES ASSUME op # NoOp, op' = op PROVE ShapeOf(op)'
      OBVIOUS
    <2>1. ShapeOf(op) /\ op.no \in 1 .. submitted
      BY <1>0 DEF Shape, Line
    <2>2. request'[op.no] = request[op.no]
      BY <1>2, <2>1
    <2> QED BY <1>4, <2>1, <2>2 DEF ShapeOf, CommandOf, Writable
  <1>6. CASE /\ Closed
             /\ receipts' = [receipts EXCEPT ![o] = Rejected("closed")]
             /\ log' = Append(log, o)
             /\ UNCHANGED <<queue, op, wire, lost, closing, ended>>
    <2>1. Rejected("closed") \in Receipt /\ Rejected("closed").state = "rejected"
      BY RejectedTyped DEF Reasons
    <2>2. /\ receipts' \in [Ops -> Receipt] /\ receipts'[o].state # "none"
          /\ \A p \in Ops : p # o => receipts'[p] = receipts[p]
      BY <1>0, <1>6, <2>1
    <2>3. /\ log' \in Seq(Ops) /\ \A p \in Ops : Within(log', p) <=> Within(log, p) \/ p = o
          /\ \A i, j \in 1 .. Len(log') : log'[i] = log'[j] => i = j
      <3>1. log \in Seq(Ops) /\ ~Within(log, o) /\ o \in Ops
        BY <1>0, <1>3 DEF Owing, TypeOK
      <3>2. \A i, j \in 1 .. Len(log) : log[i] = log[j] => i = j
        BY <1>0 DEF Owing
      <3>3. log' = Append(log, o)
        BY <1>6
      <3> QED BY ONLY <3>1, <3>2, <3>3, LogOne
    <2>4. Closed' /\ Waiting' = Waiting
      BY <1>1, <1>6 DEF Closed, Waiting
    <2>5. TypeOK'
      BY <1>0, <1>1, <1>2, <1>4, <1>6, <2>2, <2>3 DEF TypeOK
    <2>6. Line'
      BY <1>0, <1>1, <1>2, <1>6 DEF Line
    <2>7. Owing'
      <3>1. o \notin Waiting
        <4>1. Len(queue) \in Nat
          BY <1>0
        <4> QED BY <1>0, <1>1, <4>1 DEF Waiting, Line
      <3>2. ASSUME NEW p \in Ops
            PROVE  receipts'[p].state # "none" <=> p \in (1 .. submitted') \ Waiting
        <4>1. CASE p = o
          BY <1>0, <1>1, <2>2, <3>1, <4>1
        <4>2. CASE p # o
          BY <1>0, <1>1, <2>2, <4>2 DEF Owing
        <4> QED BY <4>1, <4>2
      <3>3. ASSUME NEW p \in Ops PROVE Within(log', p) <=> receipts'[p].state # "none"
        <4>1. CASE p = o
          BY <2>2, <2>3, <4>1
        <4>2. CASE p # o
          BY <1>0, <2>2, <2>3, <4>2 DEF Owing
        <4> QED BY <4>1, <4>2
      <3>4. finalized' => dead' /\ op' = NoOp
        BY <1>0, <1>1, <1>6 DEF Owing
      <3> QED BY <2>3, <2>4, <3>2, <3>3, <3>4 DEF Owing
    <2>8. InOrder' /\ Effective'
      BY <1>0, <1>1, <1>6, <2>4 DEF InOrder, Effective
    <2>9. OnWire'
      <3>1. CommandOf(op)' = CommandOf(op)
        BY <1>6 DEF CommandOf
      <3>2. ASSUME NEW c \in answered', receipts'[c.op].state = "none"
            PROVE  op # NoOp /\ c.op = op.no /\ PhaseRank[c.part] < PhaseRank[op.phase]
        <4>1. c.op \in Ops /\ c \in answered
          BY <1>0, <1>1 DEF TypeOK, Command
        <4>2. receipts[c.op].state = "none"
          BY <1>3, <2>2, <3>2, <4>1
        <4> QED BY <1>0, <4>1, <4>2 DEF OnWire
      <3>3. \A c \in wire' : c.op \in 1 .. submitted'
        BY <1>0, <1>1, <1>6 DEF OnWire
      <3> QED BY <1>0, <1>1, <1>6, <2>4, <3>1, <3>2, <3>3 DEF OnWire
    <2>10. Shape'
      BY <1>0, <1>1, <1>5, <1>6 DEF Shape, Writable
    <2> QED BY <2>5, <2>6, <2>7, <2>8, <2>9, <2>10 DEF SeqInv
  <1>7. CASE /\ ~Closed /\ ~WireFree
             /\ queue' = Enqueued(o)
             /\ UNCHANGED <<receipts, log, op, wire, lost, closing, ended>>
    <2>1. /\ op # NoOp /\ queue' = Append(queue, o) /\ op.no \in Nat
          /\ o = op.no + Len(queue) + 1 /\ Len(queue) \in Nat
      BY <1>0, <1>1, <1>7 DEF WireFree, Enqueued, InOrder, Line
    <2>2. /\ queue' \in Seq(Ops) /\ Len(queue') = Len(queue) + 1
          /\ queue' = [i \in 1 .. Len(queue') |-> op.no + i]
      <3>1. queue' \in Seq(Ops) /\ Len(queue') = Len(queue) + 1
        BY <1>0, <2>1
      <3>2. ASSUME NEW i \in 1 .. Len(queue') PROVE queue'[i] = op.no + i
        <4>1. CASE i = Len(queue) + 1
          <5>1. queue'[Len(queue) + 1] = o
            BY ONLY <1>0, <2>1, AppendProperties
          <5> QED BY <2>1, <4>1, <5>1
        <4>2. CASE i # Len(queue) + 1
          <5>1. i \in 1 .. Len(queue)
            BY <2>1, <3>1, <4>2
          <5>2. queue'[i] = queue[i]
            BY <1>0, <2>1, <5>1
          <5>3. queue[i] = op.no + i
            BY <1>0, <5>1 DEF Line
          <5> QED BY <5>2, <5>3
        <4> QED BY <4>1, <4>2
      <3>3. queue' = [i \in 1 .. Len(queue') |-> queue'[i]]
        BY <3>1
      <3> QED BY <3>1, <3>2, <3>3
    <2>3. Closed' = Closed /\ Waiting' = op.no .. op.no + Len(queue) + 1
          /\ Waiting = op.no .. op.no + Len(queue)
      BY <1>1, <1>7, <2>1, <2>2 DEF Closed, Waiting
    <2>4. TypeOK'
      BY <1>0, <1>1, <1>2, <1>4, <1>7, <2>2 DEF TypeOK
    <2>5. Line'
      <3>1. op'.no \in 1 .. submitted' /\ op'.no + Len(queue') <= submitted'
        <4>1. op' = op /\ submitted' = op.no + Len(queue) + 1 /\ op.no # 0
          BY <1>0, <1>1, <1>7, <2>1 DEF Line
        <4> QED BY ONLY <2>1, <2>2, <4>1
      <3> QED BY <1>0, <1>2, <1>7, <2>1, <2>2, <3>1 DEF Line
    <2>6. Owing'
      <3>1. ASSUME NEW p \in Ops
            PROVE  p \in (1 .. submitted') \ Waiting' <=> p \in (1 .. submitted) \ Waiting
        BY <1>0, <1>1, <2>1, <2>3
      <3>2. finalized' => dead' /\ op' = NoOp
        BY <1>0, <1>1, <1>7 DEF Owing
      <3> QED BY <1>0, <1>7, <3>1, <3>2 DEF Owing
    <2>7. InOrder'
      <3>1. (\A i \in 1 .. Len(log) : log[i] = i) /\ Len(log) = op.no - 1
            /\ op.no + Len(queue) = submitted
        BY <1>0, <1>7, <2>1 DEF InOrder
      <3>2. log' = log /\ op' = op /\ submitted' = op.no + Len(queue')
        BY <1>1, <1>7, <2>1, <2>2, <3>1
      <3> QED BY ONLY <2>1, <3>1, <3>2 DEF InOrder
    <2>8. OnWire'
      <3>1. CommandOf(op)' = CommandOf(op)
        BY <1>7 DEF CommandOf
      <3>2. \A c \in wire' : c.op \in 1 .. submitted'
        BY <1>0, <1>1, <1>7 DEF OnWire
      <3> QED BY <1>0, <1>1, <1>7, <2>1, <3>1, <3>2 DEF OnWire
    <2>9. Shape'
      BY <1>0, <1>1, <1>5, <1>7 DEF Shape, Writable
    <2>10. Effective'
      BY <1>0, <1>1, <1>4, <1>7, <2>3 DEF Effective
    <2> QED BY <2>4, <2>5, <2>6, <2>7, <2>8, <2>9, <2>10 DEF SeqInv
  <1>8. CASE ~Closed /\ WireFree /\ Drain(receipts, log, <<o>>, current, FALSE, wire)
    <2>1. /\ op = NoOp /\ wire = {} /\ Closed = FALSE /\ ~finalized /\ Waiting = {}
          /\ Len(log) = submitted /\ \A i \in 1 .. Len(log) : log[i] = i
      BY <1>0, <1>8 DEF WireFree, OnWire, InOrder, Owing, Waiting, Closed, TypeOK
    <2>2. Run(submitted, 1) = <<o>>
      BY <1>0, <1>1 DEF Run
    <2>3. /\ submitted + 1 = o
          /\ \A p \in Ops : receipts[p].state # "none"
                              <=> p \in (1 .. submitted') \ ((submitted + 1) .. (submitted + 1))
      <3>1. ASSUME NEW p \in Ops
            PROVE  receipts[p].state # "none"
                     <=> p \in (1 .. submitted') \ ((submitted + 1) .. (submitted + 1))
        <4>1. receipts[p].state # "none" <=> p \in 1 .. submitted
          BY <1>0, <2>1 DEF Owing
        <4> QED BY <1>0, <1>1, <4>1
      <3> QED BY <1>1, <3>1
    <2>4. Ready(receipts, log, submitted, 1, FALSE)
      BY <1>0, <1>1, <1>2, <1>4, <2>1, <2>3 DEF Ready, Owing
    <2>5. Answered(receipts, current, FALSE)
      <3>1. ASSUME NEW c \in answered' PROVE Writable(c) /\ receipts[c.op].state # "none"
        BY <1>0, <1>1, <2>1 DEF Shape, OnWire
      <3>2. ~NativeRejects => current = runs
        BY <1>0, <2>1 DEF Effective, NoOp
      <3> QED BY <1>0, <1>1, <3>1, <3>2 DEF Answered, TypeOK
    <2>6. Drain(receipts, log, Run(submitted, 1), current, FALSE, {})
      BY <1>8, <2>1, <2>2
    <2> QED BY <1>0, <2>4, <2>5, <2>6, DrainKeeps
  <1> QED BY <1>6, <1>7, <1>8 DEF Submit

LEMMA SweepStep ==
  ASSUME SeqInv, NEW reason \in Reasons, SweepAll(reason),
         UNCHANGED <<submitted, request, current, native, harness>>, Closed',
         closing' \in BOOLEAN, ended' \in BOOLEAN, dead' \in BOOLEAN, finalized' \in BOOLEAN,
         finalized' => dead'
  PROVE  SeqInv'
  <1>0. TypeOK /\ Line
    BY DEF SeqInv
  <1>1. /\ log' \in Seq(Ops) /\ \A o \in Ops : Within(log', o) <=> o \in 1 .. submitted
        /\ \A i, j \in 1 .. Len(log') : log'[i] = log'[j] => i = j
    <2>1. CASE op = NoOp /\ log' = log \o queue
      BY <2>1, SweptLog
    <2>2. CASE op # NoOp /\ log' = Append(log \o queue, op.no)
      BY <2>2, SweptLog
    <2> QED BY <2>1, <2>2 DEF SweepAll
  <1>2. /\ receipts' \in [Ops -> Receipt]
        /\ \A o \in Ops : receipts'[o].state # "none" <=> o \in 1 .. submitted
    <2>1. receipts' = [o \in Ops |-> IF Within(queue, o) THEN Rejected(reason)
                                     ELSE IF o = op.no THEN Partial(op, reason) ELSE receipts[o]]
      BY DEF SweepAll
    <2>2. op \in Entry
      BY <1>0 DEF TypeOK
    <2>3. op # NoOp => /\ op.modelApplied => op.model \in Models
                       /\ op.effortApplied => op.effort \in Efforts
      BY OpFacts
    <2> QED BY <2>1, <2>2, <2>3, SweptReceipts
  <1>3. /\ wire' = wire /\ answered' = answered /\ lost' = lost
        /\ runs' \in Models /\ thinks' \in Efforts /\ op' = NoOp /\ queue' = <<>>
    BY <1>0 DEF native, TypeOK, SweepAll
  <1> QED BY <1>1, <1>2, <1>3, SweptKeeps

(* A step that leaves the ledger, the wire and the harness alone. *)
LEMMA AloneStep ==
  ASSUME SeqInv, UNCHANGED <<ledger, op, native, harness, finalized>>, Closed => Closed',
         closing' \in BOOLEAN, ended' \in BOOLEAN, dead' \in BOOLEAN, dead => dead'
  PROVE  SeqInv'
  <1>0. /\ TypeOK /\ Line /\ Owing /\ InOrder /\ OnWire /\ Shape /\ Effective
    BY DEF SeqInv
  <1>1. /\ submitted' = submitted /\ request' = request /\ queue' = queue /\ op' = op
        /\ receipts' = receipts /\ log' = log /\ current' = current /\ wire' = wire
        /\ answered' = answered /\ lost' = lost /\ runs' = runs /\ thinks' = thinks
        /\ harness' = harness /\ finalized' = finalized
        /\ Pi' = Pi /\ MostOps' = MostOps /\ NativeRejects' = NativeRejects
        /\ Waiting' = Waiting /\ CommandOf(op)' = CommandOf(op)
    BY DEF ledger, native, Pi, MostOps, NativeRejects, Waiting, CommandOf
  <1>2. TypeOK'
    BY <1>0, <1>1 DEF TypeOK
  <1>3. Line' /\ InOrder' /\ Effective'
    BY <1>0, <1>1 DEF Line, InOrder, Effective
  <1>4. Owing'
    BY <1>0, <1>1 DEF Owing
  <1>5. OnWire'
    BY <1>0, <1>1 DEF OnWire
  <1>6. Shape'
    <2>1. ShapeOf(op) => ShapeOf(op)'
      BY <1>1 DEF ShapeOf, Writable
    <2> QED BY <1>0, <1>1, <2>1 DEF Shape, Writable
  <1> QED BY <1>2, <1>3, <1>4, <1>5, <1>6 DEF SeqInv

-----------------------------------------------------------------------------
(* The theorems *)

LEMMA InitOk == Init => SeqInv
  <1> SUFFICES ASSUME Init PROVE SeqInv
    OBVIOUS
  <1>0. harness \in DOMAIN Harnesses /\ MostOps \in Nat
    <2>1. harness \in DOMAIN Harnesses
      BY DEF Init
    <2>2. Harnesses[harness] \in [ops : 0 .. MaxOps, rejects : BOOLEAN, breaks : BOOLEAN]
      BY <2>1, HarnessesAssumption
    <2> QED BY <2>1, <2>2, OpsAssumption DEF MostOps
  <1>1. TypeOK
    <2>1. [model |-> "none", effort |-> "none"] \in Request
      BY DEF Request
    <2>2. Owed \in Receipt /\ NoOp \in Entry
      BY DEF Owed, Receipt, Reasons, NoOp, Entry
    <2>3. Spawned \in Models /\ thinks \in Efforts
      BY ModelsAssumption DEF Init
    <2>4. <<>> \in Seq(Ops)
      OBVIOUS
    <2>5. request \in [Ops -> Request]
      BY <2>1 DEF Init
    <2>6. receipts \in [Ops -> Receipt] /\ op \in Entry
      BY <2>2 DEF Init
    <2>7. queue \in Seq(Ops) /\ log \in Seq(Ops)
      BY <2>4 DEF Init
    <2>8. submitted \in 0 .. MostOps /\ current \in Models /\ runs \in Models
      BY <1>0, <2>3 DEF Init
    <2>9. wire = {} /\ answered = {} /\ lost = {} /\ closing = FALSE /\ ended = FALSE
          /\ dead = FALSE /\ finalized = FALSE
      BY DEF Init
    <2> QED BY <1>0, <2>3, <2>5, <2>6, <2>7, <2>8, <2>9 DEF TypeOK
  <1>2. Line /\ InOrder
    BY DEF Init, Line, InOrder, NoOp
  <1>3. Owing
    <2>1. Waiting = {}
      BY DEF Init, Waiting
    <2> QED BY <2>1 DEF Init, Owing, Within, Owed
  <1>4. OnWire /\ Shape
    BY DEF Init, OnWire, Shape
  <1>5. Effective
    BY DEF Init, Effective, NoOp
  <1> QED BY <1>1, <1>2, <1>3, <1>4, <1>5 DEF SeqInv

LEMMA StepOk ==
  ASSUME SeqInv, [Next]_vars
  PROVE  SeqInv'
  <1>0. /\ closing \in BOOLEAN /\ ended \in BOOLEAN /\ dead \in BOOLEAN /\ finalized \in BOOLEAN
        /\ finalized => dead
    BY DEF SeqInv, TypeOK, Owing
  <1>1. ASSUME NEW o \in Ops, NEW ask \in Asks, Submit(o, ask) PROVE SeqInv'
    BY <1>1, SubmitStep
  <1>2. ASSUME NEW c \in wire \cup answered, NativeAnswer(c) PROVE SeqInv'
    BY <1>2, CatalogStep, ModelStep, EffortStep, RejectionStep, IgnoredStep, StateStep
    DEF NativeAnswer
  <1>3. CASE Close
    BY <1>0, <1>3, AloneStep DEF Close, Closed
  <1>4. CASE EndStdin
    BY <1>0, <1>4, AloneStep DEF EndStdin, Closed
  <1>5. CASE InputError
    <2>1. /\ Closed' /\ closing' \in BOOLEAN /\ ended' \in BOOLEAN /\ dead' \in BOOLEAN
          /\ finalized' \in BOOLEAN /\ (finalized' => dead')
          /\ UNCHANGED <<submitted, request, current, native, harness>>
          /\ SweepAll("write-failed") /\ "write-failed" \in Reasons
      BY <1>0, <1>5 DEF InputError, Closed, Reasons
    <2> QED BY <2>1, SweepStep
  <1>6. CASE Exited
    BY <1>0, <1>6, AloneStep DEF Exited, Closed
  <1>7. CASE Finalize
    <2>1. /\ Closed' /\ closing' \in BOOLEAN /\ ended' \in BOOLEAN /\ dead' \in BOOLEAN
          /\ finalized' \in BOOLEAN /\ (finalized' => dead')
          /\ UNCHANGED <<submitted, request, current, native, harness>>
          /\ SweepAll("closed") /\ "closed" \in Reasons
      BY <1>0, <1>7 DEF Finalize, Closed, Reasons
    <2> QED BY <2>1, SweepStep
  <1>8. CASE UNCHANGED vars
    BY <1>0, <1>8, AloneStep DEF vars, session, Closed
  <1>9. CASE Done
    BY <1>8, <1>9 DEF Done
  <1> QED BY <1>1, <1>2, <1>3, <1>4, <1>5, <1>6, <1>7, <1>8, <1>9 DEF Next

(* The ledger, the wire and the harness agree, for every number of ops,
   ladder and harness. *)
THEOREM SequencerInvariant == Spec => []SeqInv
  <1>1. Init => SeqInv
    BY InitOk
  <1>2. SeqInv /\ [Next]_vars => SeqInv'
    BY StepOk
  <1> QED BY <1>1, <1>2, PTL DEF Spec

(* One receipt each, one native write at a time, and while the session is
   open the receipts in the order of the calls. *)
THEOREM ReceiptsSettled == Spec => []SettlementsInv
  <1>1. SeqInv => SettlementsInv
    <2> SUFFICES ASSUME SeqInv PROVE SettlementsInv
      OBVIOUS
    <2>0. /\ TypeOK /\ Line /\ Owing /\ InOrder /\ OnWire /\ Ops = 1 .. MaxOps /\ MaxOps \in Nat
          /\ submitted \in Nat /\ submitted <= MaxOps
      BY Bounds DEF SeqInv
    <2>1. ASSUME NEW o \in Ops
          PROVE  /\ Logged(o) <=> receipts[o].state # "none"
                 /\ o <= submitted => Logged(o) \/ Queued(o) \/ op.no = o
                 /\ Queued(o) => ~Logged(o) /\ op.no # o
                 /\ op.no = o => ~Logged(o)
      <3>1. (Logged(o) <=> receipts[o].state # "none")
            /\ (receipts[o].state # "none" <=> o \in (1 .. submitted) \ Waiting) /\ o \in 1 .. MaxOps
        BY <2>0 DEF Owing, Logged
      <3>2. CASE op = NoOp
        <4>1. Waiting = {} /\ ~Queued(o) /\ op.no # o
          BY <2>0, <3>1, <3>2 DEF Waiting, Line, Queued, Within, NoOp
        <4> QED BY <3>1, <4>1
      <3>3. CASE op # NoOp
        <4>1. /\ op.no \in 1 .. submitted /\ Len(queue) \in Nat
              /\ op.no + Len(queue) <= submitted /\ Waiting = op.no .. op.no + Len(queue)
              /\ queue = Run(op.no, Len(queue))
          <5>1. Len(queue) \in Nat
            BY <2>0 DEF TypeOK
          <5> QED BY <2>0, <3>3, <5>1 DEF Line, Waiting, Run
        <4>2. Queued(o) <=> o \in (op.no + 1) .. (op.no + Len(queue))
          <5>1. op.no \in Nat /\ op.no + Len(queue) <= MaxOps
            BY <2>0, <4>1
          <5>2. Within(Run(op.no, Len(queue)), o) <=> o \in (op.no + 1) .. (op.no + Len(queue))
            BY <4>1, <5>1, RunFacts
          <5> QED BY <4>1, <5>2 DEF Queued
        <4>3. o \in Waiting <=> o = op.no \/ Queued(o)
          BY <2>0, <4>1, <4>2, <3>1
        <4>4. Queued(o) => op.no # o
          BY <2>0, <4>1, <4>2
        <4> QED BY <3>1, <4>3, <4>4
      <3> QED BY <3>2, <3>3
    <2>2. finalized => queue = <<>> /\ op = NoOp
      BY <2>0 DEF Owing, Line
    <2>3. OneReceiptEach
      BY <2>0, <2>1, <2>2 DEF OneReceiptEach, Owing
    <2>4. OneWriteOutstanding
      BY <2>0 DEF OneWriteOutstanding, OnWire, Names, CommandOf
    <2> QED BY <2>0, <2>3, <2>4 DEF SettlementsInv, InOrder
  <1> QED BY <1>1, SequencerInvariant, PTL

-----------------------------------------------------------------------------
(* What receipts report and writes are checked against *)

AsksOf(a, n) == \A o \in (a + 1) .. (a + n) : request'[o] \in Asks

(* A drain reports nothing applied of itself, and checks against the model. *)
DrainTells(rec, model, shut, sentWire) ==
  /\ \A o \in Ops : receipts'[o].state = "applied" => receipts'[o] = rec[o]
  /\ \A c \in wire' \ sentWire : c.part = "effort" /\ request'[c.op].model = "none" =>
       ~shut /\ c.value \in Ladder[model]

LEMMA DrainSays ==
  ASSUME Pi \in BOOLEAN, NEW a \in Nat, NEW n \in Nat, a + n <= MaxOps, NEW rec \in [Ops -> Receipt],
         NEW left, NEW model \in Models, NEW shut \in BOOLEAN, NEW sentWire,
         request' \in [Ops -> Request], AsksOf(a, n),
         Drain(rec, left, Run(a, n), model, shut, sentWire)
  PROVE  DrainTells(rec, model, shut, sentWire)
  <1>1. Drained(rec, left, a, n, model, shut, sentWire)
    BY DrainDoes
  <1>2. PICK k \in 0 .. n :
          /\ \A o \in Ops : IF o \in (a + 1) .. (a + k) THEN receipts'[o].state = "rejected"
                                                      ELSE receipts'[o] = rec[o]
          /\ \/ k = n /\ Emptied(sentWire)
             \/ k < n /\ ~shut /\ Begun(a + k + 1, n - k - 1, model, sentWire)
    BY <1>1 DEF Drained
  <1>3. ASSUME NEW c \in wire' \ sentWire, c.part = "effort", request'[c.op].model = "none"
        PROVE  ~shut /\ c.value \in Ladder[model]
    <2>1. k < n /\ ~shut /\ Begun(a + k + 1, n - k - 1, model, sentWire)
      BY <1>2, <1>3 DEF Emptied
    <2> DEFINE o == a + k + 1
    <2>2. o \in Ops /\ o \in (a + 1) .. (a + n)
      BY <2>1, OpsAssumption DEF Ops
    <2>3. Begun(o, n - k - 1, model, sentWire)
      BY <2>1
    <2> HIDE DEF o
    <2>4. /\ c = CommandOf(Started(o)) /\ Invalid(request'[o], model) = "none"
          /\ request'[o] \in Asks
      BY <1>3, <2>2, <2>3 DEF Begun, Write, AsksOf
    <2>5. c.op = o /\ Started(o).phase = "effort" /\ c.value = request'[o].effort
      BY <1>3, <2>4 DEF CommandOf, Started
    <2>6. c.value \in Efforts /\ c.value # "none"
      <3>1. Writable(c)
        BY <2>2, <2>4, StartedShape
      <3> QED BY <1>3, <3>1, ModelsAssumption DEF Writable
    <2>7. c.value \in LadderOf(model)
      BY <1>3, <2>4, <2>5, <2>6 DEF Invalid
    <2> QED BY <2>1, <2>7 DEF LadderOf
  <1> QED BY <1>2, <1>3 DEF DrainTells

(* What a step reports and writes that an action property looks at. *)
Reports(o) == receipts[o].state = "none" /\ receipts'[o].state = "applied"
ChecksEffort(c) == c.part = "effort" /\ request'[c.op].model = "none"

LEMMA SettleSays ==
  ASSUME SeqInv, op # NoOp, Rest, NEW c \in wire, NEW receipt \in Receipt,
         NEW model \in Models, Settle(receipt, model, wire \ {c})
  PROVE  /\ \A o \in Ops : Reports(o) => receipts'[o] = receipt /\ receipt.state = "applied"
         /\ \A d \in wire' \ wire : ChecksEffort(d) => ~Closed /\ d.value \in Ladder[model]
  <1> DEFINE rec == [receipts EXCEPT ![op.no] = receipt]
             left == Append(log, op.no)
             n == Len(queue)
  <1>0. /\ TypeOK /\ Line /\ OnWire /\ MaxOps \in Nat /\ Ops = 1 .. MaxOps
        /\ submitted \in Nat /\ submitted <= MaxOps /\ Pi \in BOOLEAN
        /\ receipts \in [Ops -> Receipt] /\ Closed \in BOOLEAN
    BY Bounds DEF SeqInv, TypeOK, Closed
  <1>1. /\ op.no \in 1 .. submitted /\ op.no + n <= submitted /\ n \in Nat
        /\ queue = Run(op.no, n) /\ op.no \in Ops /\ op.no \in Nat /\ op.no + n <= MaxOps
    <2>1. n \in Nat
      BY <1>0 DEF TypeOK
    <2> QED BY <1>0, <2>1 DEF Line, Run
  <1>2. wire \ {c} = {} /\ wire = {c}
    BY <1>0 DEF OnWire
  <1>3. rec \in [Ops -> Receipt] /\ \A o \in Ops : rec[o] = IF o = op.no THEN receipt ELSE receipts[o]
    BY <1>0, <1>1
  <1>4. request' \in [Ops -> Request] /\ \A o \in (op.no + 1) .. (op.no + n) : request'[o] \in Asks
    BY <1>0, <1>1 DEF Rest, Line, TypeOK
  <1>5. Drain(rec, left, Run(op.no, n), model, Closed, wire \ {c})
    BY <1>1 DEF Settle
  <1> HIDE DEF rec, left, n
  <1>6. /\ \A o \in Ops : receipts'[o].state = "applied" => receipts'[o] = rec[o]
        /\ \A d \in wire' \ (wire \ {c}) : d.part = "effort" /\ request'[d.op].model = "none" =>
             ~Closed /\ d.value \in Ladder[model]
    <2>1. /\ Pi \in BOOLEAN /\ op.no \in Nat /\ n \in Nat /\ op.no + n <= MaxOps
          /\ rec \in [Ops -> Receipt] /\ model \in Models /\ Closed \in BOOLEAN
          /\ request' \in [Ops -> Request]
          /\ AsksOf(op.no, n)
      BY <1>0, <1>1, <1>3, <1>4 DEF AsksOf
    <2>2. DrainTells(rec, model, Closed, wire \ {c})
      BY ONLY <1>5, <2>1, DrainSays
    <2> QED BY <2>2 DEF DrainTells
  <1> QED BY <1>2, <1>3, <1>6 DEF Reports, ChecksEffort

(* Nothing is reported applied by a next write, and what it writes is that
   of the op on the wire. *)
LEMMA WriteSays ==
  ASSUME SeqInv, NEW c, NEW e \in Entry, e.modelApplied \in BOOLEAN, WriteStep(e, wire \ {c})
  PROVE  /\ \A o \in Ops : ~Reports(o)
         /\ \A d \in wire' \ wire : d = CommandOf(e)
  <1>1. Partial(e, "write-failed").state = "rejected" /\ Rejected("closed").state = "rejected"
    BY DEF Partial, Rejected, Owed
  <1>2. CASE /\ op' = e /\ Write(e, wire \ {c})
             /\ UNCHANGED <<queue, receipts, log, current>>
    BY <1>2 DEF Reports, Write
  <1>3. CASE /\ receipts' = [o \in Ops |->
                  IF o = e.no THEN Partial(e, "write-failed")
                  ELSE IF Within(queue, o) THEN Rejected("closed") ELSE receipts[o]]
             /\ NoWrite(wire \ {c})
    BY <1>1, <1>3 DEF Reports, NoWrite
  <1> QED BY <1>2, <1>3 DEF WriteStep

Told == \A o \in Ops : Reports(o) =>
          receipts'[o].model \in {"none", runs'} /\ receipts'[o].effort \in {"none", thinks'}
Checked == ~NativeRejects => \A c \in wire' \ wire : ChecksEffort(c) => c.value \in Ladder[runs']

LEMMA CatalogSays ==
  ASSUME SeqInv, NEW c \in wire \cup answered, NEW found \in Models \cup {"none"},
         NEW level \in Efforts \cup {"none"}, CatalogRead(c, found, level)
  PROVE  Told /\ Checked
  <1>0. Rest /\ Answers(c, TRUE) /\ Names(c) /\ c.part = "catalog"
    BY DEF CatalogRead
  <1>1. op # NoOp /\ c \in wire /\ op.phase = "catalog" /\ runs' = runs
    BY <1>0, NamedAnswer
  <1>2. /\ op \in Entry /\ op.modelApplied = FALSE /\ current \in Models
        /\ (~NativeRejects /\ ~Closed => current = runs)
    BY <1>1, OpFacts DEF ShapeOf
  <1>3. CASE found = "none"
    <2>1. Settle(Rejected("invalid-model"), current, wire \ {c})
      BY <1>3 DEF CatalogRead
    <2>2. /\ Rejected("invalid-model") \in Receipt
          /\ Rejected("invalid-model").state = "rejected"
      BY RejectedTyped DEF Reasons
    <2>3. /\ \A o \in Ops : ~Reports(o)
          /\ \A d \in wire' \ wire : ChecksEffort(d) => ~Closed /\ d.value \in Ladder[current]
      BY <1>0, <1>1, <1>2, <2>1, <2>2, SettleSays
    <2> QED BY <1>1, <1>2, <2>3 DEF Told, Checked
  <1>4. CASE found # "none"
    <2> DEFINE e == [op EXCEPT !.model = found, !.phase = "model",
                       !.effort = IF @ = "none" THEN level ELSE @]
    <2>1. WriteStep(e, wire \ {c})
      BY <1>4 DEF CatalogRead
    <2>2. found \in Models /\ op.effort \in Efforts \cup {"none"}
      BY <1>2, <1>4 DEF Entry
    <2>3. e \in Entry /\ e.phase = "model" /\ e.modelApplied \in BOOLEAN
      BY <1>2, <2>2 DEF Entry, Parts
    <2> HIDE DEF e
    <2>4. (\A o \in Ops : ~Reports(o)) /\ \A d \in wire' \ wire : d = CommandOf(e)
      BY <2>1, <2>3, WriteSays
    <2> QED BY <2>3, <2>4 DEF Told, Checked, ChecksEffort, CommandOf
  <1> QED BY <1>3, <1>4

LEMMA ModelSays ==
  ASSUME SeqInv, NEW c \in wire \cup answered, ModelRead(c)
  PROVE  Told /\ Checked
  <1> DEFINE e == [op EXCEPT !.modelApplied = TRUE,
                     !.phase = IF op.effort # "none" THEN "effort"
                               ELSE IF Pi THEN "state" ELSE "none"]
  <1>0. /\ Rest /\ Answers(c, TRUE) /\ Names(c) /\ c.part = "model"
        /\ \/ e.phase # "none" /\ WriteStep(e, wire \ {c})
           \/ e.phase = "none" /\ Settle(Applied(e), LeavesModel(AppliedModel(e)), wire \ {c})
    BY DEF ModelRead
  <1>1. op # NoOp /\ c \in wire /\ op.phase = "model" /\ runs' = op.model
    BY <1>0, NamedAnswer
  <1>2. /\ op \in Entry /\ op.effortApplied = FALSE /\ op.model \in Models
        /\ op.effort \in Efforts \cup {"none"} /\ Pi \in BOOLEAN /\ "none" \notin Models
        /\ request[op.no].model # "none"
    BY <1>1, OpFacts DEF ShapeOf, Entry
  <1>3. /\ e.no = op.no /\ e.model = op.model /\ e.modelApplied = TRUE /\ e.modelApplied \in BOOLEAN
        /\ e.effortApplied = FALSE /\ e \in Entry
    BY <1>2 DEF Entry, Parts
  <1> HIDE DEF e
  <1>4. CASE WriteStep(e, wire \ {c})
    <2>1. (\A o \in Ops : ~Reports(o)) /\ \A d \in wire' \ wire : d = CommandOf(e)
      BY <1>3, <1>4, WriteSays
    <2>2. \A d \in wire' \ wire : ~ChecksEffort(d)
      BY <1>0, <1>2, <1>3, <2>1 DEF ChecksEffort, CommandOf, Rest
    <2> QED BY <2>1, <2>2 DEF Told, Checked
  <1>5. CASE Settle(Applied(e), LeavesModel(AppliedModel(e)), wire \ {c})
    <2>1. LeavesModel(AppliedModel(e)) = runs' /\ runs' \in Models
      BY <1>1, <1>2, <1>3 DEF LeavesModel, AppliedModel
    <2>2. /\ Applied(e) \in Receipt /\ Applied(e).model = runs' /\ Applied(e).effort = "none"
      BY <1>1, <1>2, <1>3 DEF Applied, Receipt, Owed, AppliedModel, AppliedEffort, Reasons
    <2>3. /\ \A o \in Ops : Reports(o) => receipts'[o] = Applied(e)
          /\ \A d \in wire' \ wire : ChecksEffort(d) => ~Closed /\ d.value \in Ladder[runs']
      BY <1>0, <1>1, <1>5, <2>1, <2>2, SettleSays
    <2> QED BY <2>2, <2>3 DEF Told, Checked
  <1> QED BY <1>0, <1>4, <1>5

LEMMA EffortSays ==
  ASSUME SeqInv, NEW c \in wire \cup answered, EffortRead(c)
  PROVE  Told /\ Checked
  <1> DEFINE e == [op EXCEPT !.effortApplied = TRUE, !.phase = IF Pi THEN "state" ELSE "none"]
  <1>0. /\ Rest /\ Answers(c, TRUE) /\ Names(c) /\ c.part = "effort"
        /\ \/ Pi /\ WriteStep(e, wire \ {c})
           \/ ~Pi /\ Settle(Applied(e), LeavesModel(AppliedModel(e)), wire \ {c})
    BY DEF EffortRead
  <1>1. /\ op # NoOp /\ c \in wire /\ op.phase = "effort" /\ runs' = runs
        /\ ~Pi => thinks' = op.effort
    BY <1>0, NamedAnswer
  <1>2. /\ op \in Entry /\ op.effort \in Efforts /\ op.modelApplied \in BOOLEAN
        /\ Pi \in BOOLEAN /\ "none" \notin Models /\ current \in Models
        /\ op.modelApplied => op.model \in Models /\ runs = op.model
        /\ ~NativeRejects /\ ~Closed /\ ~op.modelApplied => current = runs
    BY <1>1, OpFacts DEF ShapeOf
  <1>3. /\ e.no = op.no /\ e.model = op.model /\ e.effort = op.effort
        /\ e.phase = (IF Pi THEN "state" ELSE "none")
        /\ e.modelApplied = op.modelApplied /\ e.effortApplied = TRUE /\ e \in Entry
    BY <1>2 DEF Entry, Parts
  <1> HIDE DEF e
  <1>4. CASE Pi /\ WriteStep(e, wire \ {c})
    <2>1. (\A o \in Ops : ~Reports(o)) /\ \A d \in wire' \ wire : d = CommandOf(e)
      BY <1>2, <1>3, <1>4, WriteSays
    <2> QED BY <1>3, <1>4, <2>1 DEF Told, Checked, ChecksEffort, CommandOf
  <1>5. CASE ~Pi /\ Settle(Applied(e), LeavesModel(AppliedModel(e)), wire \ {c})
    <2>1. /\ LeavesModel(AppliedModel(e)) \in Models
          /\ ~NativeRejects /\ ~Closed => LeavesModel(AppliedModel(e)) = runs'
      <3>1. CASE op.modelApplied
        BY <1>1, <1>2, <1>3, <3>1 DEF LeavesModel, AppliedModel
      <3>2. CASE ~op.modelApplied
        BY <1>1, <1>2, <1>3, <3>2 DEF LeavesModel, AppliedModel
      <3> QED BY <3>1, <3>2
    <2>2. /\ Applied(e) \in Receipt /\ Applied(e).model \in {"none", runs'}
          /\ Applied(e).effort = thinks'
      <3>1. AppliedModel(e) \in {"none", runs'} /\ AppliedModel(e) \in Models \cup {"none"}
        BY <1>1, <1>2, <1>3 DEF AppliedModel
      <3>2. AppliedEffort(e) = op.effort /\ op.effort = thinks'
        BY <1>1, <1>3, <1>5 DEF AppliedEffort
      <3> QED BY <1>2, <3>1, <3>2 DEF Applied, Receipt, Owed, Reasons
    <2>3. /\ \A o \in Ops : Reports(o) => receipts'[o] = Applied(e)
          /\ \A d \in wire' \ wire : ChecksEffort(d) =>
               ~Closed /\ d.value \in Ladder[LeavesModel(AppliedModel(e))]
      BY <1>0, <1>1, <1>5, <2>1, <2>2, SettleSays
    <2> QED BY <2>1, <2>2, <2>3 DEF Told, Checked
  <1> QED BY <1>0, <1>4, <1>5

LEMMA StateSays ==
  ASSUME SeqInv, NEW c \in wire \cup answered, NEW fields \in SUBSET {"model", "effort"},
         StateRead(c, fields)
  PROVE  Told /\ Checked
  <1> DEFINE left == LeavesModel(IF "model" \in fields THEN runs ELSE AppliedModel(op))
  <1>0. PICK ok \in BOOLEAN :
          /\ Rest /\ Answers(c, ok) /\ Names(c) /\ c.part = "state"
          /\ Settle(Readback(op, fields), left, wire \ {c})
    BY DEF StateRead
  <1>1. /\ op # NoOp /\ c \in wire /\ op.phase = "state" /\ runs' = runs /\ thinks' = thinks
    BY <1>0, NamedAnswer DEF Answers
  <1>2. /\ op.modelApplied \in BOOLEAN /\ runs \in Models /\ thinks \in Efforts
        /\ "none" \notin Models /\ current \in Models
        /\ op.modelApplied => op.model \in Models /\ runs = op.model
        /\ ~NativeRejects /\ ~Closed /\ ~op.modelApplied => current = runs
    BY <1>1, OpFacts
  <1>3. left \in Models /\ (~NativeRejects /\ ~Closed => left = runs')
    <2>1. CASE op.modelApplied
      BY <1>1, <1>2, <2>1 DEF LeavesModel, AppliedModel
    <2>2. CASE ~op.modelApplied
      BY <1>1, <1>2, <2>2 DEF LeavesModel, AppliedModel
    <2> QED BY <1>2, <2>1, <2>2
  <1> HIDE DEF left
  <1>4. /\ Readback(op, fields) \in Receipt /\ Readback(op, fields).model \in {"none", runs'}
        /\ Readback(op, fields).effort \in {"none", thinks'}
    BY <1>1, <1>2 DEF Readback, Receipt, Owed, Reasons
  <1>5. /\ \A o \in Ops : Reports(o) => receipts'[o] = Readback(op, fields)
        /\ \A d \in wire' \ wire : ChecksEffort(d) => ~Closed /\ d.value \in Ladder[left]
    BY <1>0, <1>1, <1>3, <1>4, SettleSays
  <1> QED BY <1>3, <1>4, <1>5 DEF Told, Checked

LEMMA RejectionSays ==
  ASSUME SeqInv, NEW c \in wire \cup answered, RejectionRead(c)
  PROVE  Told /\ Checked
  <1>0. /\ Rest /\ Answers(c, FALSE) /\ Names(c)
        /\ Settle(Partial(op, "native-rejected"), current, wire \ {c})
    BY DEF RejectionRead
  <1>1. op # NoOp /\ c \in wire /\ NativeRejects
    BY <1>0, NamedAnswer
  <1>2. /\ op \in Entry /\ current \in Models /\ "native-rejected" \in Reasons
        /\ op.modelApplied => op.model \in Models
        /\ op.effortApplied => op.effort \in Efforts
    BY <1>1, OpFacts DEF Reasons
  <1>3. Partial(op, "native-rejected") \in Receipt
        /\ Partial(op, "native-rejected").state = "rejected"
    BY <1>2, PartialTyped
  <1>4. \A o \in Ops : ~Reports(o)
    BY <1>0, <1>1, <1>2, <1>3, SettleSays
  <1> QED BY <1>1, <1>4 DEF Told, Checked

LEMMA SubmitSays ==
  ASSUME SeqInv, NEW o \in Ops, NEW ask \in Asks, Submit(o, ask)
  PROVE  Told /\ Checked
  <1>0. /\ TypeOK /\ OnWire /\ Effective /\ Pi \in BOOLEAN /\ o \in Ops
        /\ MaxOps \in Nat /\ Ops = 1 .. MaxOps /\ submitted \in Nat
        /\ receipts \in [Ops -> Receipt] /\ request \in [Ops -> Request] /\ current \in Models
    BY Bounds DEF SeqInv, TypeOK
  <1>1. /\ o = submitted + 1 /\ request' = [request EXCEPT ![o] = ask] /\ runs' = runs
    BY DEF Submit
  <1>2. CASE /\ receipts' = [receipts EXCEPT ![o] = Rejected("closed")] /\ wire' = wire
    BY <1>0, <1>2 DEF Told, Checked, Reports, Rejected, Owed
  <1>3. CASE receipts' = receipts /\ wire' = wire
    BY <1>3 DEF Told, Checked, Reports
  <1>4. CASE ~Closed /\ WireFree /\ Drain(receipts, log, <<o>>, current, FALSE, wire)
    <2>1. Run(submitted, 1) = <<o>>
      BY <1>0, <1>1 DEF Run
    <2>2. /\ request' \in [Ops -> Request]
          /\ \A p \in (submitted + 1) .. (submitted + 1) : request'[p] \in Asks
          /\ submitted + 1 <= MaxOps
      BY <1>0, <1>1, AsksAssumption
    <2>3. Drain(receipts, log, Run(submitted, 1), current, FALSE, wire)
      BY <1>4, <2>1
    <2>4. /\ \A p \in Ops : receipts'[p].state = "applied" => receipts'[p] = receipts[p]
          /\ \A d \in wire' \ wire : d.part = "effort" /\ request'[d.op].model = "none" =>
               d.value \in Ladder[current]
      <3>1. /\ Pi \in BOOLEAN /\ submitted \in Nat /\ 1 \in Nat /\ submitted + 1 <= MaxOps
            /\ receipts \in [Ops -> Receipt] /\ current \in Models /\ FALSE \in BOOLEAN
            /\ request' \in [Ops -> Request]
            /\ AsksOf(submitted, 1)
        BY <1>0, <2>2 DEF AsksOf
      <3>2. DrainTells(receipts, current, FALSE, wire)
        BY ONLY <2>3, <3>1, DrainSays
      <3> QED BY <3>2 DEF DrainTells
    <2>5. ~NativeRejects => current = runs'
      BY <1>0, <1>1, <1>4 DEF Effective, WireFree, NoOp
    <2> QED BY <2>4, <2>5 DEF Told, Checked, Reports, ChecksEffort
  <1> QED BY <1>2, <1>3, <1>4 DEF Submit

LEMMA StepSays ==
  ASSUME SeqInv, [Next]_vars
  PROVE  Told /\ Checked
  <1>1. ASSUME NEW o \in Ops, NEW ask \in Asks, Submit(o, ask) PROVE Told /\ Checked
    BY <1>1, SubmitSays
  <1>2. ASSUME NEW c \in wire \cup answered, NativeAnswer(c) PROVE Told /\ Checked
    <2>1. CASE AnswerIgnored(c)
      BY <2>1 DEF AnswerIgnored, Told, Checked, Reports
    <2> QED BY <1>2, <2>1, CatalogSays, ModelSays, EffortSays, RejectionSays, StateSays
        DEF NativeAnswer
  <1>3. CASE UNCHANGED <<receipts, wire>>
    BY <1>3 DEF Told, Checked, Reports
  <1>4. ASSUME NEW reason, SweepAll(reason), wire' = wire PROVE Told /\ Checked
    <2>1. Partial(op, reason).state = "rejected" /\ Rejected(reason).state = "rejected"
      BY DEF Partial, Rejected, Owed
    <2> QED BY <1>4, <2>1 DEF SweepAll, Told, Checked, Reports
  <1>5. CASE InputError
    BY <1>4, <1>5 DEF InputError, native
  <1>6. CASE Finalize
    BY <1>4, <1>6 DEF Finalize, native
  <1>7. CASE Close \/ EndStdin \/ Exited \/ Done \/ UNCHANGED vars
    BY <1>3, <1>7 DEF Close, EndStdin, Exited, Done, vars, ledger, native
  <1> QED BY <1>1, <1>2, <1>5, <1>6, <1>7 DEF Next

(* A receipt that says applied reports what the harness runs when it leaves,
   and an effort is written only for the model the session runs. *)
THEOREM SettingsAreEffective == Spec => EffectiveSettings
  <1>1. SeqInv /\ [Next]_vars =>
          [\A o \in Ops : receipts[o].state = "none" /\ receipts'[o].state = "applied" =>
             receipts'[o].model \in {"none", runs'} /\ receipts'[o].effort \in {"none", thinks'}]_vars
    BY StepSays DEF Told, Reports
  <1>2. SeqInv /\ [Next]_vars =>
          [~NativeRejects =>
             \A c \in wire' \ wire : c.part = "effort" /\ request'[c.op].model = "none" =>
               c.value \in Ladder[runs']]_vars
    BY StepSays DEF Checked, ChecksEffort
  <1> QED BY <1>1, <1>2, SequencerInvariant, PTL
      DEF Spec, EffectiveSettings, AppliedIsEffective, LadderFollowsSession

=============================================================================
