------------------------- MODULE ApprovalTurnProofs -------------------------
(* What holds of a turn with native approvals for every set of requests,    *)
(* decisions and file changes and every bound: one answer for each request, *)
(* a stall clock that waits for a human, evidence of the prompt that never  *)
(* understates it, and a clean verdict that means one.                      *)
EXTENDS ApprovalTurn, SequenceTheorems, FiniteSetTheorems, WellFoundedInduction, TLAPS

(* A nonempty set of naturals has a least element. *)
LEMMA Least ==
  ASSUME NEW T, T \subseteq Nat, T # {}
  PROVE  \E n \in T : \A k \in T : n <= k
  <1>1. PICK n \in T : \A k \in T : ~ (<<k, n>> \in OpToRel(<, Nat))
    BY NatLessThanWellFounded, WFMin
  <1>2. ASSUME NEW k \in T PROVE n <= k
    <2>1. ~ (<<k, n>> \in OpToRel(<, Nat))
      BY <1>1
    <2>2. k \in Nat /\ n \in Nat
      OBVIOUS
    <2>3. ~ (k < n)
      BY <2>1, <2>2 DEF OpToRel
    <2> QED BY <2>2, <2>3
  <1> QED BY <1>2
-----------------------------------------------------------------------------
(* beforeAck: the requests it names, each once. *)

LEMMA Emptied == <<>> \in Seq(Entry) /\ Named(<<>>) = {} /\ Once(<<>>)
  BY DEF Named, Once

(* One more entry. *)
LEMMA Appended ==
  ASSUME NEW q \in Seq(Entry), NEW b \in Entry, Once(q),
         b.kind = "request" => b.of \notin Named(q)
  PROVE  /\ Append(q, b) \in Seq(Entry) /\ Once(Append(q, b))
         /\ Named(Append(q, b)) = IF b.kind = "request" THEN Named(q) \cup {b.of} ELSE Named(q)
  <1> DEFINE p == Append(q, b)
  <1>1. /\ p \in Seq(Entry) /\ Len(q) \in Nat /\ Len(p) = Len(q) + 1 /\ p[Len(q) + 1] = b
        /\ \A i \in 1 .. Len(q) : p[i] = q[i]
    BY AppendProperties
  <1> HIDE DEF p
  <1>2. /\ \A i \in 1 .. Len(p) : i \in 1 .. Len(q) \/ i = Len(q) + 1
        /\ \A i \in 1 .. Len(q) : i \in 1 .. Len(p)
        /\ Len(q) + 1 \in 1 .. Len(p)
    BY <1>1
  <1>3. \A i \in 1 .. Len(q) : q[i].kind = "request" => q[i].of \in Named(q)
    BY DEF Named
  <1>4. Once(p)
    <2> SUFFICES ASSUME NEW i \in 1 .. Len(p), NEW j \in 1 .. Len(p),
                        p[i].kind = "request", p[j].kind = "request", p[i].of = p[j].of
                 PROVE  i = j
      BY DEF Once
    <2>1. CASE i \in 1 .. Len(q) /\ j \in 1 .. Len(q)
      BY <1>1, <2>1 DEF Once
    <2>2. CASE i = Len(q) + 1 /\ j \in 1 .. Len(q)
      BY <1>1, <1>3, <2>2
    <2>3. CASE i \in 1 .. Len(q) /\ j = Len(q) + 1
      BY <1>1, <1>3, <2>3
    <2> QED BY <1>2, <2>1, <2>2, <2>3
  <1>5. Named(p) = IF b.kind = "request" THEN Named(q) \cup {b.of} ELSE Named(q)
    <2>1. ASSUME NEW x \in Named(p)
          PROVE  x \in Named(q) \/ (b.kind = "request" /\ x = b.of)
      <3>1. PICK i \in 1 .. Len(p) : p[i].kind = "request" /\ x = p[i].of
        BY DEF Named
      <3> QED BY <1>1, <1>2, <1>3, <3>1
    <2>2. ASSUME NEW x \in Named(q) PROVE x \in Named(p)
      <3>1. PICK i \in 1 .. Len(q) : q[i].kind = "request" /\ x = q[i].of
        BY DEF Named
      <3>2. i \in 1 .. Len(p) /\ p[i] = q[i]
        BY <1>1, <1>2
      <3> QED BY <3>1, <3>2 DEF Named
    <2>3. b.kind = "request" => b.of \in Named(p)
      BY <1>1, <1>2 DEF Named
    <2> QED BY <2>1, <2>2, <2>3
  <1> QED BY <1>1, <1>4, <1>5 DEF p

(* The entries of p are those of q but for the one at k. *)
LEMMA Dropped ==
  ASSUME NEW q \in Seq(Entry), NEW k \in 1 .. Len(q), Once(q), NEW p \in Seq(Entry),
         Len(p) = Len(q) - 1, \A i \in 1 .. Len(p) : p[i] = IF i < k THEN q[i] ELSE q[i + 1]
  PROVE  /\ Once(p)
         /\ Named(p) = IF q[k].kind = "request" THEN Named(q) \ {q[k].of} ELSE Named(q)
  <1> DEFINE at(i) == IF i < k THEN i ELSE i + 1
  <1>1. Len(q) \in Nat /\ Len(p) \in Nat /\ k \in Nat
    OBVIOUS
  <1>2. \A i \in 1 .. Len(p) : at(i) \in 1 .. Len(q) /\ at(i) # k /\ p[i] = q[at(i)]
    BY <1>1
  <1>3. \A i, j \in 1 .. Len(p) : at(i) = at(j) => i = j
    BY <1>1
  <1>4. \A j \in 1 .. Len(q) : j # k => \E i \in 1 .. Len(p) : at(i) = j
    <2> SUFFICES ASSUME NEW j \in 1 .. Len(q), j # k PROVE \E i \in 1 .. Len(p) : at(i) = j
      OBVIOUS
    <2>1. CASE j < k
      <3>1. j \in 1 .. Len(p) /\ at(j) = j
        BY <1>1, <2>1
      <3> QED BY <3>1
    <2>2. CASE ~(j < k)
      <3>1. j - 1 \in 1 .. Len(p) /\ at(j - 1) = j
        BY <1>1, <2>2
      <3> QED BY <3>1
    <2> QED BY <2>1, <2>2
  <1> HIDE DEF at
  <1>5. Once(p)
    <2> SUFFICES ASSUME NEW i \in 1 .. Len(p), NEW j \in 1 .. Len(p),
                        p[i].kind = "request", p[j].kind = "request", p[i].of = p[j].of
                 PROVE  i = j
      BY DEF Once
    <2>1. at(i) = at(j)
      BY <1>2 DEF Once
    <2> QED BY <1>3, <2>1
  <1>6. ASSUME NEW x \in Named(p)
        PROVE  x \in Named(q) /\ (q[k].kind = "request" => x # q[k].of)
    <2>1. PICK i \in 1 .. Len(p) : p[i].kind = "request" /\ x = p[i].of
      BY DEF Named
    <2>2. at(i) \in 1 .. Len(q) /\ at(i) # k /\ p[i] = q[at(i)]
      BY <1>2
    <2>3. x \in Named(q)
      BY <2>1, <2>2 DEF Named
    <2> QED BY <2>1, <2>2, <2>3 DEF Once
  <1>7. ASSUME NEW x \in Named(q), q[k].kind = "request" => x # q[k].of PROVE x \in Named(p)
    <2>1. PICK j \in 1 .. Len(q) : q[j].kind = "request" /\ x = q[j].of
      BY DEF Named
    <2>2. j # k
      BY <1>7, <2>1
    <2>3. PICK i \in 1 .. Len(p) : at(i) = j
      BY <1>4, <2>2
    <2>4. p[i] = q[j]
      BY <1>2, <2>3
    <2> QED BY <2>1, <2>4 DEF Named
  <1> QED BY <1>5, <1>6, <1>7

(* The oldest entry is taken. *)
LEMMA Replayed ==
  ASSUME NEW q \in Seq(Entry), q # <<>>, Once(q)
  PROVE  /\ Head(q) \in Entry /\ Tail(q) \in Seq(Entry) /\ Once(Tail(q))
         /\ Head(q).kind = "request" => Head(q).of \in Named(q)
         /\ Named(Tail(q)) = IF Head(q).kind = "request" THEN Named(q) \ {Head(q).of} ELSE Named(q)
  <1>1. /\ Len(q) \in Nat /\ 1 \in 1 .. Len(q) /\ Head(q) = q[1]
    OBVIOUS
  <1> DEFINE p == Tail(q)
  <1>2. /\ Head(q) \in Entry /\ p \in Seq(Entry) /\ Len(p) = Len(q) - 1
        /\ \A i \in 1 .. Len(p) : p[i] = q[i + 1]
    BY HeadTailProperties
  <1> HIDE DEF p
  <1>3. \A i \in 1 .. Len(p) : p[i] = IF i < 1 THEN q[i] ELSE q[i + 1]
    BY <1>2
  <1>4. Once(p) /\ Named(p) = IF q[1].kind = "request" THEN Named(q) \ {q[1].of} ELSE Named(q)
    BY <1>1, <1>2, <1>3, Dropped
  <1>5. q[1].kind = "request" => q[1].of \in Named(q)
    BY <1>1 DEF Named
  <1> QED BY <1>1, <1>2, <1>4, <1>5 DEF p

(* A request is taken out, wherever it is. *)
LEMMA Unbuffered ==
  ASSUME NEW q \in Seq(Entry), NEW r, Once(q)
  PROVE  /\ Unasked(q, r) \in Seq(Entry) /\ Once(Unasked(q, r))
         /\ Named(Unasked(q, r)) = Named(q) \ {r}
  <1> DEFINE I == {i \in 1 .. Len(q) : Asks(q[i], r)}
  <1>0. Len(q) \in Nat /\ \A i \in 1 .. Len(q) : q[i] \in Entry
    OBVIOUS
  <1>1. CASE I = {}
    <2>1. Unasked(q, r) = q
      BY <1>1 DEF Unasked, RemoveFirstMatch
    <2>2. r \notin Named(q)
      BY <1>1 DEF Named, Asks
    <2> QED BY <2>1, <2>2
  <1>2. CASE I # {}
    <2> DEFINE k == Min(I)
    <2>1. k \in I
      <3>1. I \subseteq Nat
        OBVIOUS
      <3>2. \E n \in I : \A j \in I : n <= j
        BY <1>2, <3>1, Least
      <3> QED BY <3>2 DEF Min
    <2>2. Unasked(q, r) = RemoveAt(q, k)
      BY <1>2 DEF Unasked, RemoveFirstMatch, SelectInSeq
    <2> HIDE DEF k
    <2> DEFINE left == SubSeq(q, 1, k - 1)
               right == SubSeq(q, k + 1, Len(q))
               p == left \o right
    <2>3. k \in 1 .. Len(q) /\ q[k].kind = "request" /\ q[k].of = r
      BY <2>1 DEF Asks
    <2>4. /\ left \in Seq(Entry) /\ Len(left) = k - 1
          /\ \A i \in 1 .. k - 1 : left[i] = q[i]
      <3>1. \A i \in 1 .. k - 1 : q[i] \in Entry
        BY <1>0, <2>3
      <3>2. 1 \in Int /\ k - 1 \in Int /\ k \in Nat /\ k >= 1
        BY <2>3
      <3>3. /\ left \in Seq(Entry)
            /\ Len(left) = IF 1 <= k - 1 THEN (k - 1) - 1 + 1 ELSE 0
            /\ \A i \in 1 .. (k - 1) - 1 + 1 : left[i] = q[1 + i - 1]
        BY <3>1, <3>2, SubSeqProperties
      <3> HIDE DEF left
      <3> QED BY <3>2, <3>3
    <2>5. /\ right \in Seq(Entry) /\ Len(right) = Len(q) - k
          /\ \A i \in 1 .. Len(q) - k : right[i] = q[k + i]
      <3>1. \A i \in k + 1 .. Len(q) : q[i] \in Entry
        BY <1>0, <2>3
      <3>2. k + 1 \in Int /\ Len(q) \in Int /\ k \in Nat /\ k <= Len(q)
        BY <1>0, <2>3
      <3>3. /\ right \in Seq(Entry)
            /\ Len(right) = IF k + 1 <= Len(q) THEN Len(q) - (k + 1) + 1 ELSE 0
            /\ \A i \in 1 .. Len(q) - (k + 1) + 1 : right[i] = q[k + 1 + i - 1]
        BY <3>1, <3>2, SubSeqProperties
      <3> HIDE DEF right
      <3>4. k + 1 <= Len(q) \/ k = Len(q)
        BY <3>2
      <3>5. Len(right) = Len(q) - k
        BY <1>0, <3>2, <3>3, <3>4
      <3>6. \A i \in 1 .. Len(q) - k : i \in 1 .. Len(q) - (k + 1) + 1 /\ k + 1 + i - 1 = k + i
        BY <1>0, <3>2
      <3> QED BY <3>3, <3>5, <3>6
    <2> HIDE DEF left, right
    <2>6. /\ p \in Seq(Entry) /\ Len(p) = Len(left) + Len(right)
          /\ \A i \in 1 .. Len(left) + Len(right) : p[i] =
               IF i <= Len(left) THEN left[i] ELSE right[i - Len(left)]
      BY <2>4, <2>5, ConcatProperties
    <2> HIDE DEF p
    <2>7. Len(p) = Len(q) - 1 /\ \A i \in 1 .. Len(p) : p[i] = IF i < k THEN q[i] ELSE q[i + 1]
      <3>1. k \in Nat /\ k >= 1 /\ k <= Len(q) /\ Len(p) = Len(q) - 1
        BY <1>0, <2>3, <2>4, <2>5, <2>6
      <3>2. ASSUME NEW i \in 1 .. Len(p) PROVE p[i] = IF i < k THEN q[i] ELSE q[i + 1]
        <4>1. CASE i < k
          <5>1. i \in 1 .. k - 1 /\ i <= Len(left) /\ i \in 1 .. Len(left) + Len(right)
            BY <1>0, <2>4, <2>5, <3>1, <4>1
          <5> QED BY <2>4, <2>6, <4>1, <5>1
        <4>2. CASE ~(i < k)
          <5>1. /\ ~(i <= Len(left)) /\ i \in 1 .. Len(left) + Len(right)
                /\ i - Len(left) \in 1 .. Len(q) - k /\ k + (i - Len(left)) = i + 1
            BY <1>0, <2>4, <2>5, <3>1, <4>2
          <5>2. p[i] = right[i - Len(left)]
            BY <2>6, <5>1
          <5>3. right[i - Len(left)] = q[k + (i - Len(left))]
            BY <2>5, <5>1
          <5> QED BY <4>2, <5>1, <5>2, <5>3
        <4> QED BY <4>1, <4>2
      <3> QED BY <3>1, <3>2
    <2>8. Once(p) /\ Named(p) = IF q[k].kind = "request" THEN Named(q) \ {q[k].of} ELSE Named(q)
      BY <2>3, <2>6, <2>7, Dropped
    <2>9. Unasked(q, r) = p
      BY <2>2 DEF RemoveAt, p, left, right
    <2> QED BY <2>3, <2>6, <2>8, <2>9
  <1> QED BY <1>1, <1>2

(* The file changes in progress come first. *)
LEMMA Announced ==
  ASSUME NEW F, F \subseteq {FileItem(i, w) : i \in Items, w \in Whose}, IsFiniteSet(F),
         NEW q \in Seq(Entry), Once(q)
  PROVE  /\ SetToSeq(F) \o q \in Seq(Entry) /\ Once(SetToSeq(F) \o q)
         /\ Named(SetToSeq(F) \o q) = Named(q)
  <1> DEFINE n == Cardinality(F)
             shown == SetToSeq(F)
             p == shown \o q
  <1>1. n \in Nat /\ ExistsBijection(1 .. n, F)
    BY FS_CardinalityType
  <1> HIDE DEF n
  <1>2. shown \in [1 .. n -> F]
    <2>1. PICK f : f \in Bijection(1 .. n, F)
      BY <1>1 DEF ExistsBijection
    <2>2. f \in [1 .. n -> F] /\ IsInjective(f)
      BY <2>1 DEF Bijection, Injection
    <2>3. \E g \in [1 .. n -> F] : IsInjective(g)
      BY <2>2
    <2>4. shown = CHOOSE g \in [1 .. n -> F] : IsInjective(g)
      BY DEF SetToSeq, n
    <2> QED BY <2>3, <2>4
  <1> HIDE DEF shown
  <1>3. \A x \in F : x \in Entry /\ x.kind = "file"
    BY DEF FileItem, Entry
  <1>4. shown \in Seq(Entry) /\ Len(shown) = n
    BY <1>1, <1>2, <1>3
  <1>5. \A i \in 1 .. n : shown[i].kind = "file"
    BY <1>2, <1>3
  <1>6. /\ p \in Seq(Entry) /\ Len(p) = n + Len(q) /\ Len(q) \in Nat
        /\ \A i \in 1 .. n + Len(q) : p[i] = IF i <= n THEN shown[i] ELSE q[i - n]
    <2>1. /\ p \in Seq(Entry) /\ Len(p) = Len(shown) + Len(q)
          /\ \A i \in 1 .. Len(shown) + Len(q) :
               p[i] = IF i <= Len(shown) THEN shown[i] ELSE q[i - Len(shown)]
      BY <1>4, ConcatProperties
    <2> HIDE DEF p
    <2> QED BY <1>4, <2>1
  <1> HIDE DEF p
  <1>7. ASSUME NEW i \in 1 .. Len(p), p[i].kind = "request"
        PROVE  i - n \in 1 .. Len(q) /\ p[i] = q[i - n]
    <2>1. CASE i <= n
      <3>1. i \in 1 .. n /\ p[i] = shown[i]
        BY <1>1, <1>6, <2>1
      <3> QED BY <1>5, <1>7, <3>1
    <2>2. CASE ~(i <= n)
      BY <1>1, <1>6, <2>2
    <2> QED BY <2>1, <2>2
  <1>8. ASSUME NEW j \in 1 .. Len(q) PROVE j + n \in 1 .. Len(p) /\ p[j + n] = q[j]
    <2>1. j + n \in 1 .. Len(p) /\ ~(j + n <= n) /\ (j + n) - n = j
      BY <1>1, <1>6
    <2>2. p[j + n] = q[(j + n) - n]
      BY <1>6, <2>1
    <2> QED BY <2>1, <2>2
  <1>9. Once(p)
    <2> SUFFICES ASSUME NEW i \in 1 .. Len(p), NEW j \in 1 .. Len(p),
                        p[i].kind = "request", p[j].kind = "request", p[i].of = p[j].of
                 PROVE  i = j
      BY DEF Once
    <2>1. i - n \in 1 .. Len(q) /\ p[i] = q[i - n] /\ j - n \in 1 .. Len(q) /\ p[j] = q[j - n]
      BY <1>7
    <2>2. i - n = j - n
      BY <2>1 DEF Once
    <2> QED BY <1>1, <2>2
  <1>10. Named(p) = Named(q)
    <2>1. ASSUME NEW x \in Named(p) PROVE x \in Named(q)
      <3>1. PICK i \in 1 .. Len(p) : p[i].kind = "request" /\ x = p[i].of
        BY DEF Named
      <3>2. i - n \in 1 .. Len(q) /\ q[i - n].kind = "request" /\ x = q[i - n].of
        BY <1>7, <3>1
      <3> QED BY <3>2 DEF Named
    <2>2. ASSUME NEW x \in Named(q) PROVE x \in Named(p)
      <3>1. PICK j \in 1 .. Len(q) : q[j].kind = "request" /\ x = q[j].of
        BY DEF Named
      <3>2. j + n \in 1 .. Len(p) /\ p[j + n].kind = "request" /\ x = p[j + n].of
        BY <1>8, <3>1
      <3> QED BY <3>2 DEF Named
    <2> QED BY <2>1, <2>2
  <1> QED BY <1>6, <1>9, <1>10 DEF p, shown

-----------------------------------------------------------------------------
(* The types *)

LEMMA TypeInit == Init => TypeOK
  <1> SUFFICES ASSUME Init PROVE TypeOK
    OBVIOUS
  <1>1. TurnTypes
    BY DEF Init, TurnTypes, Stages, Failures
  <1>2. AskTypes
    BY Emptied, FS_EmptySet DEF Init, AskTypes
  <1>3. AnswerTypes
    BY DEF Init, AnswerTypes
  <1>4. VerdictType
    BY DEF Init, VerdictType, NoVerdict, Failures
  <1> QED BY <1>1, <1>2, <1>3, <1>4 DEF TypeOK

LEMMA StopType ==
  ASSUME TurnTypes, NEW c \in Failures, Stop(c)
  PROVE  closing' \in BOOLEAN /\ failure' \in Failures /\ kill' \in {"none", "term", "kill"}
  BY DEF TurnTypes, Stop, stops, Escalate

LEMMA FailuresAre ==
  {"task", "timeout", "inactivity", "limit", "auth", "transport", "native", "none"} \subseteq Failures
  BY DEF Failures

LEMMA WaitsType ==
  ASSUME NEW S, stall \in {"off", "armed", "paused"}
  PROVE  Waits(S) \in {"off", "armed", "paused"}
  BY DEF Waits

LEMMA PublishType ==
  ASSUME TurnTypes, NEW r, NEW whose, Publish(r, whose)
  PROVE  /\ closing' \in BOOLEAN /\ failure' \in Failures /\ kill' \in {"none", "term", "kill"}
         /\ stall' \in {"off", "armed", "paused"}
  BY StopType, FailuresAre, WaitsType DEF Publish, TurnTypes, stops

LEMMA ReceiveType ==
  ASSUME TurnTypes, NEW r, NEW offer, NEW whose, Receive(r, offer, whose)
  PROVE  /\ closing' \in BOOLEAN /\ failure' \in Failures /\ kill' \in {"none", "term", "kill"}
         /\ stall' \in {"off", "armed", "paused"}
  BY StopType, FailuresAre, PublishType DEF Receive, TurnTypes, stops

LEMMA TurnTypesStart == TurnTypes /\ (Unstarted \/ Spawn) => TurnTypes'
  <1> SUFFICES ASSUME TurnTypes, Unstarted \/ Spawn PROVE TurnTypes'
    OBVIOUS
  <1>1. CASE Unstarted
    BY <1>1 DEF TurnTypes, Unstarted, clocks, pumps
  <1>2. CASE Spawn
    BY <1>2 DEF TurnTypes, Spawn, stops, pumps
  <1> QED BY <1>1, <1>2

LEMMA TurnTypesNative == TurnTypes /\ Native => TurnTypes'
  <1> SUFFICES ASSUME TurnTypes, Native PROVE TurnTypes'
    OBVIOUS
  <1> USE FailuresAre
  <1>1. CASE BadReply
    BY <1>1, StopType DEF TurnTypes, BadReply, clocks, pumps, ending
  <1>2. CASE InitializeReply
    BY <1>2 DEF TurnTypes, InitializeReply, Stages, stops, pumps, ending
  <1>3. CASE ResumeReply
    BY <1>3 DEF TurnTypes, ResumeReply, stops, clocks, ending
  <1>4. CASE IdentityShown
    <2>1. CASE closing \/ Exited
      BY <1>4, <2>1 DEF TurnTypes, IdentityShown, stops, ending
    <2>2. CASE ~(closing \/ Exited)
      <3>1. /\ stage' = "turn-start" /\ prompt' = "submission-unknown" /\ timer' = "protocol"
            /\ delivered' \in BOOLEAN
            /\ UNCHANGED stops \/ Stop("task")
        BY <1>4, <2>2 DEF IdentityShown
      <3>2. closing' \in BOOLEAN /\ failure' \in Failures /\ kill' \in {"none", "term", "kill"}
        BY <3>1, StopType DEF TurnTypes, stops
      <3> QED BY <1>4, <3>1, <3>2 DEF TurnTypes, IdentityShown, Stages, ending
    <2> QED BY <2>1, <2>2
  <1>5. CASE StartReply
    BY <1>5 DEF TurnTypes, StartReply, Stages, stops, ending
  <1>6. CASE Replay
    <2>1. CASE closing \/ buffer = <<>>
      BY <1>6, <2>1 DEF TurnTypes, Replay, stops, ending
    <2>2. CASE ~(closing \/ buffer = <<>>)
      BY <1>6, <2>2, StopType, PublishType DEF TurnTypes, Replay, stops, ending
    <2> QED BY <2>1, <2>2
  <1>7. CASE ReadRequest
    BY <1>7, ReceiveType DEF TurnTypes, ReadRequest, pumps, ending
  <1>8. CASE ReadFileRequest
    BY <1>8, ReceiveType, StopType DEF TurnTypes, ReadFileRequest, pumps, ending
  <1>9. CASE ReadFileItem
    BY <1>9, StopType DEF TurnTypes, ReadFileItem, stops, clocks, pumps, ending
  <1>10. CASE ReadFileItemEnded
    BY <1>10, StopType DEF TurnTypes, ReadFileItemEnded, stops, clocks, pumps, ending
  <1>11. CASE ReadCleared
    BY <1>11, StopType, WaitsType DEF TurnTypes, ReadCleared, stops, pumps, ending
  <1>12. CASE ReadContent
    BY <1>12, StopType DEF TurnTypes, ReadContent, stops, clocks, pumps
  <1>13. CASE ReadOther
    BY <1>13, StopType DEF TurnTypes, ReadOther, stops, clocks, pumps, ending
  <1>14. CASE ReadComplete
    <2>1. CASE Stop("task") /\ UNCHANGED <<completed, cancelled, stall, pump>>
      BY <1>14, <2>1, StopType DEF TurnTypes, ReadComplete
    <2>2. CASE completed' = TRUE /\ cancelled' \in BOOLEAN /\ closing' = TRUE
               /\ stall' = "off" /\ pump' = "clearing" /\ UNCHANGED <<failure, kill>>
      BY <1>14, <2>2 DEF TurnTypes, ReadComplete
    <2> QED BY <1>14, <2>1, <2>2 DEF ReadComplete
  <1>15. CASE ClearNext
    BY <1>15 DEF TurnTypes, ClearNext, stops, ending
  <1> QED BY <1>1, <1>2, <1>3, <1>4, <1>5, <1>6, <1>7, <1>8, <1>9, <1>10, <1>11, <1>12,
             <1>13, <1>14, <1>15 DEF Native

LEMMA TurnTypesCaller == TurnTypes /\ Caller => TurnTypes'
  <1> SUFFICES ASSUME TurnTypes, Caller PROVE TurnTypes'
    OBVIOUS
  <1> USE FailuresAre
  <1>1. ASSUME NEW d, NEW r, NEW c, Repeated(d, r, c) PROVE TurnTypes'
    BY <1>1 DEF TurnTypes, Repeated, stops, clocks, pumps, ending
  <1>2. ASSUME NEW d, NEW r, NEW c, Unavailable(d, r, c) PROVE TurnTypes'
    BY <1>2 DEF TurnTypes, Unavailable, stops, clocks, pumps, ending
  <1>3. ASSUME NEW d, NEW r, NEW c, Decide(d, r, c) PROVE TurnTypes'
    BY <1>3, StopType, WaitsType DEF TurnTypes, Decide, stops, pumps, ending
  <1>4. CASE DecisionsBreak
    BY <1>4, StopType DEF TurnTypes, DecisionsBreak, clocks, ending
  <1>5. CASE DecisionsEnd
    BY <1>5, StopType DEF TurnTypes, DecisionsEnd, stops, clocks, ending
  <1> QED BY <1>1, <1>2, <1>3, <1>4, <1>5 DEF Caller

LEMMA TurnTypesRuntime == TurnTypes /\ Runtime => TurnTypes'
  <1> SUFFICES ASSUME TurnTypes, Runtime PROVE TurnTypes'
    OBVIOUS
  <1> USE FailuresAre
  <1>1. CASE Abort
    BY <1>1 DEF TurnTypes, Abort, Escalate, clocks, pumps
  <1>2. CASE ProtocolTimeout
    BY <1>2, StopType DEF TurnTypes, ProtocolTimeout, pumps, ending
  <1>3. CASE ExitGrace
    BY <1>3 DEF TurnTypes, ExitGrace, Escalate, pumps, ending
  <1>4. CASE HardDeadline
    BY <1>4, StopType DEF TurnTypes, HardDeadline, pumps, ending
  <1>5. CASE Stall
    BY <1>5, StopType DEF TurnTypes, Stall, pumps, ending
  <1>6. CASE KillGrace
    BY <1>6 DEF TurnTypes, KillGrace, clocks, pumps, ending
  <1>7. ASSUME NEW class \in {"limit", "auth"}, StderrWall(class) PROVE TurnTypes'
    BY <1>7 DEF TurnTypes, StderrWall, Escalate, clocks, pumps, ending
  <1>8. CASE StderrCredential
    BY <1>8 DEF TurnTypes, StderrCredential, stops, clocks, pumps
  <1>9. CASE InputError
    BY <1>9, StopType DEF TurnTypes, InputError, clocks, pumps, ending
  <1>10. ASSUME NEW how \in {"zero", "nonzero", "signal", "missing"}, Exit(how)
         PROVE  TurnTypes'
    BY <1>10 DEF TurnTypes, Exit, pumps, ending
  <1>11. CASE StdoutEnds
    BY <1>11, StopType DEF TurnTypes, StdoutEnds, stops, clocks, ending
  <1>12. CASE StderrEnds
    BY <1>12, StopType DEF TurnTypes, StderrEnds, stops, clocks, ending
  <1> QED BY <1>1, <1>2, <1>3, <1>4, <1>5, <1>6, <1>7, <1>8, <1>9, <1>10, <1>11, <1>12
          DEF Runtime

LEMMA TurnTypesEnd ==
  TurnTypes /\ (Finish \/ ClearLeft \/ Conclude \/ Leave \/ Over) => TurnTypes'
  <1> SUFFICES ASSUME TurnTypes, Finish \/ ClearLeft \/ Conclude \/ Leave \/ Over
               PROVE  TurnTypes'
    OBVIOUS
  <1> USE FailuresAre
  <1>1. CASE Finish
    <2>1. failure' \in Failures
      BY <1>1 DEF TurnTypes, Finish
    <2>2. /\ gen' = "finishing" /\ deadline' = "off" /\ credential' \in BOOLEAN
          /\ exit' = exit /\ pump' = pump /\ stderr' = stderr /\ decider' = decider
          /\ UNCHANGED <<stage, exit, prompt, delivered, closing, kill, timer, stall, pumps,
                         completed, cancelled, text>>
      BY <1>1 DEF Finish, pumps
    <2> QED BY <2>1, <2>2 DEF TurnTypes, pumps
  <1>2. CASE ClearLeft
    BY <1>2 DEF TurnTypes, ClearLeft, stops, clocks, pumps, ending
  <1>3. CASE Conclude
    BY <1>3 DEF TurnTypes, Conclude, Judged, clocks, pumps
  <1>4. CASE Leave
    BY <1>4 DEF TurnTypes, Leave, Escalate, clocks, pumps
  <1>5. CASE Over
    BY <1>5 DEF TurnTypes, Over, vars, stops, clocks, pumps, ending
  <1> QED BY <1>1, <1>2, <1>3, <1>4, <1>5
-----------------------------------------------------------------------------
-----------------------------------------------------------------------------
(* Where the protocol is *)

LEMMA StopCloses ==
  ASSUME TurnTypes, NEW c, Stop(c)
  PROVE  closing' = TRUE
  BY DEF TurnTypes, Stop, stops

LEMMA PublishCloses ==
  ASSUME TurnTypes, NEW r, NEW whose, Publish(r, whose)
  PROVE  closing => closing'
  BY StopCloses DEF Publish, stops

LEMMA ReceiveCloses ==
  ASSUME TurnTypes, NEW r, NEW offer, NEW whose, Receive(r, offer, whose)
  PROVE  closing => closing'
  BY StopCloses, PublishCloses DEF Receive, stops

LEMMA StagedStart == TurnTypes /\ Staged /\ (Unstarted \/ Spawn) => Staged'
  <1> SUFFICES ASSUME TurnTypes, Staged, Unstarted \/ Spawn PROVE Staged'
    OBVIOUS
  <1>1. CASE Unstarted
    BY <1>1 DEF TurnTypes, Staged, Stages, Unstarted, asks, decided, clocks, pumps
  <1>2. CASE Spawn
    BY <1>2 DEF TurnTypes, Staged, Stages, Spawn, stops, asks, decided, pumps
  <1> QED BY <1>1, <1>2

LEMMA StagedNative == TurnTypes /\ Staged /\ Native => Staged'
  <1> SUFFICES ASSUME TurnTypes, Staged, Native PROVE Staged'
    OBVIOUS
  <1>1. CASE BadReply
    BY <1>1, StopCloses, PublishCloses, ReceiveCloses DEF TurnTypes, Staged, Stages,
      Reading, BadReply, asks, decided, clocks, pumps, ending
  <1>2. CASE InitializeReply
    BY <1>2, StopCloses, PublishCloses, ReceiveCloses DEF TurnTypes, Staged, Stages,
      Reading, InitializeReply, stops, asks, decided, pumps, ending
  <1>3. CASE ResumeReply
    BY <1>3, StopCloses, PublishCloses, ReceiveCloses DEF TurnTypes, Staged, Stages,
      Reading, ResumeReply, stops, asks, decided, clocks, ending
  <1>4. CASE IdentityShown
    BY <1>4, StopCloses, PublishCloses, ReceiveCloses DEF TurnTypes, Staged, Stages,
      Reading, IdentityShown, stops, asks, decided, ending
  <1>5. CASE StartReply
    BY <1>5, StopCloses, PublishCloses, ReceiveCloses DEF TurnTypes, Staged, Stages,
      Reading, StartReply, stops, decided, ending
  <1>6. CASE Replay
    BY <1>6, StopCloses, PublishCloses, ReceiveCloses DEF TurnTypes, Staged, Stages,
      Reading, Replay, stops, decided, ending
  <1>7. CASE ReadRequest
    BY <1>7, StopCloses, PublishCloses, ReceiveCloses DEF TurnTypes, Staged, Stages,
      Reading, ReadRequest, decided, pumps, ending
  <1>8. CASE ReadFileRequest
    BY <1>8, StopCloses, PublishCloses, ReceiveCloses DEF TurnTypes, Staged, Stages,
      Reading, ReadFileRequest, decided, pumps, ending
  <1>9. CASE ReadFileItem
    BY <1>9, StopCloses, PublishCloses, ReceiveCloses DEF TurnTypes, Staged, Stages,
      Reading, ReadFileItem, stops, decided, clocks, pumps, ending
  <1>10. CASE ReadFileItemEnded
    BY <1>10, StopCloses, PublishCloses, ReceiveCloses DEF TurnTypes, Staged, Stages,
      Reading, ReadFileItemEnded, stops, decided, clocks, pumps, ending
  <1>11. CASE ReadCleared
    BY <1>11, StopCloses, PublishCloses, ReceiveCloses DEF TurnTypes, Staged, Stages,
      Reading, ReadCleared, stops, decided, pumps, ending
  <1>12. CASE ReadContent
    BY <1>12, StopCloses, PublishCloses, ReceiveCloses DEF TurnTypes, Staged, Stages,
      Reading, ReadContent, stops, asks, decided, clocks, pumps
  <1>13. CASE ReadOther
    BY <1>13, StopCloses, PublishCloses, ReceiveCloses DEF TurnTypes, Staged, Stages,
      Reading, ReadOther, stops, decided, clocks, pumps, ending
  <1>14. CASE ReadComplete
    BY <1>14, StopCloses, PublishCloses, ReceiveCloses DEF TurnTypes, Staged, Stages,
      Reading, ReadComplete, stops, asks, decided
  <1>15. CASE ClearNext
    BY <1>15, StopCloses, PublishCloses, ReceiveCloses DEF TurnTypes, Staged, Stages,
      Reading, ClearNext, stops, decided, ending
  <1> QED BY <1>1, <1>2, <1>3, <1>4, <1>5, <1>6, <1>7, <1>8, <1>9, <1>10, <1>11,
  <1>12, <1>13, <1>14, <1>15 DEF Native

LEMMA StagedCaller == TurnTypes /\ Staged /\ Caller => Staged'
  <1> SUFFICES ASSUME TurnTypes, Staged, Caller PROVE Staged'
    OBVIOUS
  <1>1. ASSUME NEW d \in Decisions, NEW r \in Requests, NEW c \in ChoiceIds, Repeated(d, r, c)
        PROVE  Staged'
    BY <1>1, StopCloses, PublishCloses, ReceiveCloses DEF TurnTypes, Staged, Stages,
      Repeated, stops, asks, clocks, pumps, ending
  <1>2. ASSUME NEW d \in Decisions, NEW r \in Requests, NEW c \in ChoiceIds, Unavailable(d, r, c)
        PROVE  Staged'
    BY <1>2, StopCloses, PublishCloses, ReceiveCloses DEF TurnTypes, Staged, Stages,
      Unavailable, stops, asks, clocks, pumps, ending
  <1>3. ASSUME NEW d \in Decisions, NEW r \in Requests, NEW c \in ChoiceIds, Decide(d, r, c)
        PROVE  Staged'
    BY <1>3, StopCloses, PublishCloses, ReceiveCloses DEF TurnTypes, Staged, Stages,
      Decide, stops, pumps, ending
  <1>4. CASE DecisionsBreak
    BY <1>4, StopCloses, PublishCloses, ReceiveCloses DEF TurnTypes, Staged, Stages,
      DecisionsBreak, asks, decided, clocks, ending
  <1>5. CASE DecisionsEnd
    BY <1>5, StopCloses, PublishCloses, ReceiveCloses DEF TurnTypes, Staged, Stages,
      DecisionsEnd, stops, asks, decided, clocks, ending
  <1> QED BY <1>1, <1>2, <1>3, <1>4, <1>5 DEF Caller

LEMMA StagedRuntime == TurnTypes /\ Staged /\ Runtime => Staged'
  <1> SUFFICES ASSUME TurnTypes, Staged, Runtime PROVE Staged'
    OBVIOUS
  <1>1. CASE Abort
    BY <1>1, StopCloses, PublishCloses, ReceiveCloses DEF TurnTypes, Staged, Stages,
      Reading, Abort, asks, decided, clocks, pumps
  <1>2. CASE ProtocolTimeout
    BY <1>2, StopCloses, PublishCloses, ReceiveCloses DEF TurnTypes, Staged, Stages,
      Reading, ProtocolTimeout, asks, decided, pumps, ending
  <1>3. CASE ExitGrace
    BY <1>3, StopCloses, PublishCloses, ReceiveCloses DEF TurnTypes, Staged, Stages,
      Reading, ExitGrace, asks, decided, pumps, ending
  <1>4. CASE HardDeadline
    BY <1>4, StopCloses, PublishCloses, ReceiveCloses DEF TurnTypes, Staged, Stages,
      Reading, HardDeadline, asks, decided, pumps, ending
  <1>5. CASE Stall
    BY <1>5, StopCloses, PublishCloses, ReceiveCloses DEF TurnTypes, Staged, Stages,
      Reading, Stall, asks, decided, pumps, ending
  <1>6. CASE KillGrace
    BY <1>6, StopCloses, PublishCloses, ReceiveCloses DEF TurnTypes, Staged, Stages,
      Reading, KillGrace, asks, decided, clocks, pumps, ending
  <1>7. ASSUME NEW class \in {"limit", "auth"}, StderrWall(class) PROVE Staged'
    BY <1>7, StopCloses, PublishCloses, ReceiveCloses DEF TurnTypes, Staged, Stages,
      Reading, StderrWall, asks, decided, clocks, pumps, ending
  <1>8. CASE StderrCredential
    BY <1>8, StopCloses, PublishCloses, ReceiveCloses DEF TurnTypes, Staged, Stages,
      Reading, StderrCredential, stops, asks, decided, clocks, pumps
  <1>9. CASE InputError
    BY <1>9, StopCloses, PublishCloses, ReceiveCloses DEF TurnTypes, Staged, Stages,
      Reading, InputError, asks, decided, clocks, pumps, ending
  <1>10. ASSUME NEW how \in {"zero", "nonzero", "signal", "missing"}, Exit(how)
         PROVE  Staged'
    BY <1>10, StopCloses, PublishCloses, ReceiveCloses DEF TurnTypes, Staged, Stages,
      Reading, Exit, asks, decided, pumps, ending
  <1>11. CASE StdoutEnds
    <2>1. closing => closing'
      BY <1>11, StopCloses DEF StdoutEnds, stops
    <2> QED BY <1>11, <2>1 DEF Staged, StdoutEnds, Reading, ending
  <1>12. CASE StderrEnds
    <2>1. closing => closing'
      BY <1>12, StopCloses DEF StderrEnds, stops
    <2> QED BY <1>12, <2>1 DEF Staged, StderrEnds, Reading, ending
  <1> QED BY <1>1, <1>2, <1>3, <1>4, <1>5, <1>6, <1>7, <1>8, <1>9, <1>10, <1>11, <1>12
  DEF Runtime

LEMMA StagedEnd ==
  TurnTypes /\ Staged /\ (Finish \/ ClearLeft \/ Conclude \/ Leave \/ Over) => Staged'
  <1> SUFFICES ASSUME TurnTypes, Staged, Finish \/ ClearLeft \/ Conclude \/ Leave \/ Over
               PROVE  Staged'
    OBVIOUS
  <1>1. CASE Finish
    BY <1>1, StopCloses, PublishCloses, ReceiveCloses DEF TurnTypes, Staged, Stages,
      Finish, asks, decided, pumps
  <1>2. CASE ClearLeft
    BY <1>2, StopCloses, PublishCloses, ReceiveCloses DEF TurnTypes, Staged, Stages,
      ClearLeft, stops, decided, clocks, pumps, ending
  <1>3. CASE Conclude
    BY <1>3, StopCloses, PublishCloses, ReceiveCloses DEF TurnTypes, Staged, Stages,
      Conclude, asks, decided, clocks, pumps
  <1>4. CASE Leave
    BY <1>4, StopCloses, PublishCloses, ReceiveCloses DEF TurnTypes, Staged, Stages,
      Leave, asks, decided, clocks, pumps
  <1>5. CASE Over
    BY <1>5, StopCloses, PublishCloses, ReceiveCloses DEF TurnTypes, Staged, Stages,
      Over, vars, stops, asks, decided, clocks, pumps, ending
  <1> QED BY <1>1, <1>2, <1>3, <1>4, <1>5

-----------------------------------------------------------------------------
(* The requests *)

(* What is known of the requests, and of those that wait in beforeAck. *)
AskInv == AskTypes /\ Asked

(* What became of one request changes, if any. *)
OnlyOf(r) ==
  /\ request' \in [Requests -> {"unseen", "buffered", "open", "decided", "cleared",
                               "withdrawn", "dropped", "orphaned"}]
  /\ \A s \in Requests : s # r => request'[s] = request[s]

LEMMA LostIs == Lost \in {"dropped", "orphaned"}
  BY DEF Lost

(* What a change of one request makes of the sets of requests. *)
LEMMA Moved ==
  ASSUME AskTypes, NEW r \in Requests,
         NEW v \in {"unseen", "buffered", "open", "decided", "cleared", "withdrawn", "dropped", "orphaned"},
         request' = [request EXCEPT ![r] = v]
  PROVE  OnlyOf(r) /\ request'[r] = v
  BY DEF AskTypes, OnlyOf

LEMMA MovedSets ==
  ASSUME NEW r \in Requests, OnlyOf(r)
  PROVE  /\ Buffered' = IF request'[r] = "buffered" THEN Buffered \cup {r} ELSE Buffered \ {r}
         /\ Pending' = IF request'[r] \in {"open", "decided"} THEN Pending \cup {r} ELSE Pending \ {r}
         /\ Undecided' = IF request'[r] = "open" THEN Undecided \cup {r} ELSE Undecided \ {r}
  <1>1. Buffered' = {s \in Requests : request'[s] = "buffered"}
    BY DEF Buffered
  <1>2. Pending' = {s \in Requests : request'[s] \in {"open", "decided"}}
    BY DEF Pending
  <1>3. Undecided' = {s \in Requests : request'[s] = "open"}
    BY DEF Undecided
  <1>4. \A s \in Requests : s # r => request'[s] = request[s]
    BY DEF OnlyOf
  <1>5. Buffered' = IF request'[r] = "buffered" THEN Buffered \cup {r} ELSE Buffered \ {r}
    BY <1>1, <1>4 DEF Buffered
  <1>6. Pending' = IF request'[r] \in {"open", "decided"} THEN Pending \cup {r} ELSE Pending \ {r}
    BY <1>2, <1>4 DEF Pending
  <1>7. Undecided' = IF request'[r] = "open" THEN Undecided \cup {r} ELSE Undecided \ {r}
    BY <1>3, <1>4 DEF Undecided
  <1> QED BY <1>5, <1>6, <1>7

(* beforeAck is emptied. *)
LEMMA ForgottenSets ==
  ASSUME AskTypes, request' = Forgotten
  PROVE  /\ request' \in [Requests -> {"unseen", "buffered", "open", "decided", "cleared",
                                      "withdrawn", "dropped", "orphaned"}]
         /\ Buffered' = {} /\ Pending' = Pending /\ Undecided' = Undecided
         /\ \A r \in Requests : request'[r] = IF r \in Buffered THEN Lost ELSE request[r]
  <1>1. \A r \in Requests : request'[r] = IF request[r] = "buffered" THEN Lost ELSE request[r]
    BY DEF Forgotten
  <1>2. request' \in [Requests -> {"unseen", "buffered", "open", "decided", "cleared",
                                  "withdrawn", "dropped", "orphaned"}]
    BY LostIs DEF Forgotten, AskTypes
  <1>3. Buffered' = {s \in Requests : request'[s] = "buffered"}
    BY DEF Buffered
  <1>4. Pending' = {s \in Requests : request'[s] \in {"open", "decided"}}
    BY DEF Pending
  <1>5. Undecided' = {s \in Requests : request'[s] = "open"}
    BY DEF Undecided
  <1>6. Buffered' = {}
    BY LostIs, <1>1, <1>3
  <1>7. Pending' = Pending
    BY LostIs, <1>1, <1>4 DEF Pending
  <1>8. Undecided' = Undecided
    BY LostIs, <1>1, <1>5 DEF Undecided
  <1>9. \A r \in Requests : request'[r] = IF r \in Buffered THEN Lost ELSE request[r]
    BY <1>1 DEF Buffered
  <1> QED BY <1>2, <1>6, <1>7, <1>8, <1>9

(* The requests do not change, nor does the stage they belong to. *)
LEMMA AsksKept ==
  ASSUME AskInv, UNCHANGED asks,
         stage \in {"turn-start", "running"} => stage' = stage,
         pump = "replaying" => pump' = "replaying"
  PROVE  AskInv'
  <1>1. request' = request /\ offers' = offers /\ buffer' = buffer /\ files' = files
    BY DEF asks
  <1>2. AskTypes'
    BY <1>1 DEF AskInv, AskTypes
  <1>3. Pending' = Pending /\ Buffered' = Buffered
    BY <1>1 DEF Pending, Buffered
  <1>4. Asked'
    BY <1>1, <1>3 DEF AskInv, Asked
  <1> QED BY <1>2, <1>4 DEF AskInv

(* publishRequest: shown to the caller, or dropped with the turn. *)
LEMMA PublishMoves ==
  ASSUME TurnTypes, AskTypes, NEW r \in Requests, NEW whose, Publish(r, whose)
  PROVE  /\ OnlyOf(r)
         /\ \/ request'[r] = "open" /\ stage = "running" /\ ~closing /\ ~Exited
               /\ stall' = Waits(Undecided \cup {r})
            \/ request'[r] = Lost /\ (closing' \/ Exited)
  <1>1. CASE closing \/ Exited
    <2>1. request' = [request EXCEPT ![r] = Lost] /\ closing' = closing
      BY <1>1 DEF Publish, stops
    <2> QED BY <1>1, <2>1, Moved, LostIs
  <1>2. CASE /\ ~(closing \/ Exited)
             /\ stage # "running" \/ whose # "ours" \/ Cardinality(Pending) >= PendingCap
    <2>1. request' = [request EXCEPT ![r] = Lost] /\ Stop("task") /\ Lost = "dropped"
      BY <1>2 DEF Publish, Lost
    <2> QED BY <2>1, StopCloses, Moved
  <1>3. CASE /\ ~(closing \/ Exited)
             /\ ~(stage # "running" \/ whose # "ours" \/ Cardinality(Pending) >= PendingCap)
    <2>1. request' = [request EXCEPT ![r] = "open"] /\ stall' = Waits(Undecided \cup {r})
      BY <1>3 DEF Publish
    <2> QED BY <1>3, <2>1, Moved
  <1> QED BY <1>1, <1>2, <1>3

(* receiveProposal: a new request is shown, waits for the acknowledgement, *)
(* or is dropped with the turn.                                            *)
LEMMA ReceiveMoves ==
  ASSUME TurnTypes, AskInv, NEW r \in Requests, NEW offer \in SUBSET ChoiceIds,
         NEW whose \in Whose, Receive(r, offer, whose)
  PROVE  \/ UNCHANGED <<request, offers, buffer, stall>> /\ (closing => closing')
         \/ /\ request[r] = "unseen" /\ OnlyOf(r) /\ offers' = [offers EXCEPT ![r] = offer]
            /\ \/ request'[r] = "open" /\ stage = "running" /\ ~closing /\ ~Exited
                  /\ stall' = Waits(Undecided \cup {r}) /\ buffer' = buffer
               \/ request'[r] = Lost /\ (closing' \/ Exited) /\ buffer' = buffer
               \/ /\ request'[r] = "buffered" /\ stage = "turn-start" /\ stall' = stall
                  /\ buffer' \in Seq(Entry) /\ Once(buffer') /\ Named(buffer') = Named(buffer) \cup {r}
  <1>1. CASE Exited
    BY <1>1, ReceiveCloses DEF Receive
  <1>2. CASE ~Exited /\ (r \in Seen \/ Cardinality(Seen) >= IdentityCap)
    BY <1>2, StopCloses DEF Receive
  <1>3. CASE ~Exited /\ ~(r \in Seen \/ Cardinality(Seen) >= IdentityCap)
    <2>1. request[r] = "unseen" /\ offers' = [offers EXCEPT ![r] = offer]
      BY <1>3 DEF Receive, Seen
    <2>2. CASE stage # "turn-start"
      <3>1. Publish(r, whose) /\ buffer' = buffer
        BY <1>3, <2>2 DEF Receive
      <3> QED BY <2>1, <3>1, PublishMoves DEF AskInv
    <2>3. CASE stage = "turn-start" /\ Len(buffer) >= PendingCap
      <3>1. Stop("task") /\ request' = [request EXCEPT ![r] = Lost] /\ buffer' = buffer
        BY <1>3, <2>3 DEF Receive, Lost
      <3>2. OnlyOf(r) /\ request'[r] = Lost
        BY <3>1, Moved, LostIs DEF AskInv
      <3> QED BY <2>1, <3>1, <3>2, StopCloses
    <2>4. CASE stage = "turn-start" /\ ~(Len(buffer) >= PendingCap)
      <3> DEFINE b == [kind |-> "request", of |-> r, whose |-> whose]
      <3>1. /\ buffer' = Append(buffer, b) /\ request' = [request EXCEPT ![r] = "buffered"]
            /\ stall' = stall
        BY <1>3, <2>4 DEF Receive
      <3>2. OnlyOf(r) /\ request'[r] = "buffered"
        BY <3>1, Moved DEF AskInv
      <3>3. b \in Entry /\ b.kind = "request" /\ b.of = r
        BY DEF Entry
      <3>4. r \notin Named(buffer) /\ Once(buffer) /\ buffer \in Seq(Entry)
        BY <2>1 DEF AskInv, AskTypes, Asked, Buffered
      <3> HIDE DEF b
      <3>5. /\ Append(buffer, b) \in Seq(Entry) /\ Once(Append(buffer, b))
            /\ Named(Append(buffer, b)) = Named(buffer) \cup {r}
        BY <3>3, <3>4, Appended
      <3> QED BY <2>1, <2>4, <3>1, <3>2, <3>5
    <2> QED BY <2>2, <2>3, <2>4
  <1> QED BY <1>1, <1>2, <1>3

(* Every step keeps what is known of the requests. *)

(* A new request is accounted for. *)
LEMMA ReceiveKeeps ==
  ASSUME TurnTypes, AskInv, NEW r \in Requests, NEW offer \in SUBSET ChoiceIds,
         NEW whose \in Whose, Receive(r, offer, whose),
         UNCHANGED <<stage, pump, files>>
  PROVE  AskInv'
  <1>1. CASE UNCHANGED <<request, offers, buffer, stall>>
    BY <1>1, AsksKept DEF asks
  <1>2. CASE ~ UNCHANGED <<request, offers, buffer, stall>>
    <2>1. /\ request[r] = "unseen" /\ OnlyOf(r) /\ offers' = [offers EXCEPT ![r] = offer]
          /\ \/ request'[r] = "open" /\ stage = "running" /\ buffer' = buffer
             \/ request'[r] \in {"dropped", "orphaned"} /\ buffer' = buffer
             \/ /\ request'[r] = "buffered" /\ stage = "turn-start"
                /\ buffer' \in Seq(Entry) /\ Once(buffer') /\ Named(buffer') = Named(buffer) \cup {r}
      BY <1>2, ReceiveMoves, LostIs
    <2>2. AskTypes'
      BY <2>1 DEF AskInv, AskTypes, OnlyOf
    <2>3. r \notin Buffered /\ r \notin Pending
      BY <2>1 DEF Buffered, Pending
    <2>4. /\ Buffered' = IF request'[r] = "buffered" THEN Buffered \cup {r} ELSE Buffered \ {r}
          /\ Pending' = IF request'[r] \in {"open", "decided"} THEN Pending \cup {r} ELSE Pending \ {r}
      BY <2>1, MovedSets
    <2>5. Asked'
      <3>1. CASE request'[r] = "open" /\ stage = "running" /\ buffer' = buffer
        BY <2>3, <2>4, <3>1 DEF AskInv, Asked
      <3>2. CASE request'[r] \in {"dropped", "orphaned"} /\ buffer' = buffer
        BY <2>3, <2>4, <3>2 DEF AskInv, Asked
      <3>3. CASE /\ request'[r] = "buffered" /\ stage = "turn-start" /\ buffer' \in Seq(Entry)
                 /\ Once(buffer') /\ Named(buffer') = Named(buffer) \cup {r}
        BY <2>3, <2>4, <3>3 DEF AskInv, Asked
      <3> QED BY <2>1, <3>1, <3>2, <3>3
    <2> QED BY <2>2, <2>5 DEF AskInv
  <1> QED BY <1>1, <1>2

(* A request leaves the caller: it was pending and no longer waits. *)
LEMMA TakenKeeps ==
  ASSUME AskInv, NEW r \in Pending, NEW v \in {"decided", "cleared"},
         request' = [request EXCEPT ![r] = v], UNCHANGED <<offers, buffer, files, stage>>,
         pump = "replaying" => pump' = "replaying"
  PROVE  AskInv'
  <1>1. r \in Requests /\ request[r] \in {"open", "decided"}
    BY DEF Pending
  <1>2. OnlyOf(r) /\ request'[r] = v
    BY <1>1, Moved DEF AskInv
  <1>3. r \notin Buffered
    BY <1>1 DEF Buffered
  <1>4. /\ Buffered' = Buffered \ {r}
        /\ Pending' = IF v \in {"open", "decided"} THEN Pending \cup {r} ELSE Pending \ {r}
    BY <1>1, <1>2, MovedSets
  <1>5. Asked'
    BY <1>3, <1>4 DEF AskInv, Asked
  <1>6. AskTypes'
    BY <1>2 DEF AskInv, AskTypes, OnlyOf
  <1> QED BY <1>5, <1>6 DEF AskInv

(* What a request offers are choices hcn knows. *)
LEMMA OfferTyped ==
  ASSUME NEW rec \in Shows({"request"}), NEW offer \in Offered[rec.method]
  PROVE  offer \in SUBSET ChoiceIds
  <1>1. rec \in NativeRecords /\ Decoded(rec) = "request"
    BY DEF Shows
  <1>2. rec.method \in {"command", "permissions"}
    BY <1>1 DEF Decoded, NativeRecords, Asking, Notices
  <1> QED BY <1>2 DEF Offered

LEMMA AsksStart == TurnTypes /\ Staged /\ AskInv /\ (Unstarted \/ Spawn) => AskInv'
  <1> SUFFICES ASSUME TurnTypes, Staged, AskInv, Unstarted \/ Spawn PROVE AskInv'
    OBVIOUS
  <1>1. CASE Unstarted
    BY <1>1, AsksKept DEF Staged, Stages, Unstarted, asks, decided, clocks, pumps
  <1>2. CASE Spawn
    BY <1>2, AsksKept DEF Staged, Stages, Spawn, stops, asks, decided, pumps
  <1> QED BY <1>1, <1>2

LEMMA AsksNative == TurnTypes /\ Staged /\ AskInv /\ Native => AskInv'
  <1> SUFFICES ASSUME TurnTypes, Staged, AskInv, Native PROVE AskInv'
    OBVIOUS
  <1>1. CASE BadReply
    BY <1>1, AsksKept DEF Staged, Stages, Reading, BadReply, asks, decided, clocks,
      pumps, ending
  <1>2. CASE InitializeReply
    BY <1>2, AsksKept DEF Staged, Stages, Reading, InitializeReply, stops, asks,
      decided, pumps, ending
  <1>3. CASE ResumeReply
    BY <1>3, AsksKept DEF Staged, Stages, Reading, ResumeReply, stops, asks, decided,
      clocks, ending
  <1>4. CASE IdentityShown
    BY <1>4, AsksKept DEF Staged, Stages, Reading, IdentityShown, stops, asks,
      decided, ending
  <1>5. CASE StartReply
    <2>1. /\ stage = "turn-start" /\ pump = "reading" /\ stage' = "running"
          /\ offers' = offers /\ files' = files
      BY <1>5 DEF StartReply, Reading
    <2>2. buffer \in Seq(Entry) /\ Once(buffer) /\ Named(buffer) = Buffered /\ Pending = {}
          /\ files \subseteq {FileItem(i, w) : i \in Items, w \in Whose} /\ IsFiniteSet(files)
      BY <2>1 DEF AskInv, AskTypes, Asked
    <2>3. CASE Exited
      <3>1. buffer' = <<>> /\ request' = Forgotten
        BY <1>5, <2>3 DEF StartReply
      <3>2. AskTypes'
        BY <2>1, <3>1, ForgottenSets, Emptied DEF AskInv, AskTypes
      <3>3. Asked'
        BY <2>1, <2>2, <3>1, ForgottenSets, Emptied DEF AskInv, Asked
      <3> QED BY <3>2, <3>3 DEF AskInv
    <2>4. CASE ~Exited
      <3>1. buffer' = SetToSeq(files) \o buffer /\ request' = request /\ pump' = "replaying"
        BY <1>5, <2>4 DEF StartReply
      <3>2. buffer' \in Seq(Entry) /\ Once(buffer') /\ Named(buffer') = Named(buffer)
        BY <2>2, <3>1, Announced
      <3>3. AskTypes'
        BY <2>1, <3>1, <3>2 DEF AskInv, AskTypes
      <3>4. Pending' = Pending /\ Buffered' = Buffered
        BY <3>1 DEF Pending, Buffered
      <3>5. Asked'
        BY <2>1, <2>2, <3>1, <3>2, <3>4 DEF Asked
      <3> QED BY <3>3, <3>5 DEF AskInv
    <2> QED BY <2>3, <2>4
  <1>6. CASE Replay
    <2>1. /\ pump = "replaying" /\ stage = "running" /\ stage' = stage
          /\ offers' = offers /\ files' = files
      BY <1>6 DEF Replay, Staged
    <2>2. buffer \in Seq(Entry) /\ Once(buffer) /\ Named(buffer) = Buffered
      BY DEF AskInv, AskTypes, Asked
    <2>3. CASE closing \/ buffer = <<>>
      <3>1. buffer' = <<>> /\ request' = Forgotten
        BY <1>6, <2>3 DEF Replay
      <3>2. AskTypes'
        BY <2>1, <3>1, ForgottenSets, Emptied DEF AskInv, AskTypes
      <3>3. Asked'
        BY <2>1, <2>2, <3>1, ForgottenSets, Emptied DEF AskInv, Asked
      <3> QED BY <3>2, <3>3 DEF AskInv
    <2>4. CASE ~(closing \/ buffer = <<>>)
      <3>1. buffer' = Tail(buffer) /\ pump' = pump
        BY <1>6, <2>4 DEF Replay
      <3>2. /\ buffer' \in Seq(Entry) /\ Once(buffer')
            /\ Head(buffer).kind = "request" => Head(buffer).of \in Named(buffer)
            /\ Named(buffer') = IF Head(buffer).kind = "request" THEN Named(buffer) \ {Head(buffer).of}
                                ELSE Named(buffer)
        BY <2>2, <2>4, <3>1, Replayed
      <3>3. CASE Head(buffer).kind = "request"
        <4> DEFINE r == Head(buffer).of
        <4>1. r \in Requests
          BY <2>2, <3>2, <3>3 DEF Buffered
        <4>2. Publish(r, Head(buffer).whose)
          BY <1>6, <2>4, <3>3 DEF Replay
        <4> HIDE DEF r
        <4>3. OnlyOf(r) /\ request'[r] \in {"open", "dropped", "orphaned"}
          BY <4>1, <4>2, PublishMoves, LostIs DEF AskInv
        <4>4. Buffered' = Buffered \ {r}
          BY <4>1, <4>3, MovedSets
        <4>5. AskTypes'
          BY <2>1, <3>2, <4>3 DEF AskInv, AskTypes, OnlyOf
        <4>6. Asked'
          BY <2>1, <2>2, <3>1, <3>2, <3>3, <4>4 DEF Asked, r
        <4> QED BY <4>5, <4>6 DEF AskInv
      <3>4. CASE Head(buffer).kind # "request"
        <4>1. request' = request
          BY <1>6, <2>4, <3>4 DEF Replay
        <4>2. Pending' = Pending /\ Buffered' = Buffered
          BY <4>1 DEF Pending, Buffered
        <4>3. AskTypes'
          BY <2>1, <3>2, <4>1 DEF AskInv, AskTypes
        <4>4. Asked'
          BY <2>1, <2>2, <3>1, <3>2, <3>4, <4>2 DEF Asked
        <4> QED BY <4>3, <4>4 DEF AskInv
      <3> QED BY <3>3, <3>4
    <2> QED BY <2>3, <2>4
  <1>7. CASE ReadRequest
    <2>1. PICK r \in Requests, rec \in Shows({"request"}), whose \in Whose :
            \E offer \in Offered[rec.method] : Receive(r, offer, whose)
      BY <1>7 DEF ReadRequest
    <2>2. PICK offer \in Offered[rec.method] : Receive(r, offer, whose)
      BY <2>1
    <2>3. offer \in SUBSET ChoiceIds
      BY <2>1, <2>2, OfferTyped
    <2>4. UNCHANGED <<stage, pump, files>>
      BY <1>7 DEF ReadRequest, pumps
    <2> QED BY <2>2, <2>3, <2>4, ReceiveKeeps
  <1>8. CASE ReadFileRequest
    <2>1. PICK r \in Requests, item \in Items, whose \in Whose :
            IF FileItem(item, whose) \in files
            THEN \E offer \in Offered.fileChange : Receive(r, offer, whose)
            ELSE Stop("task") /\ UNCHANGED <<request, offers, buffer, stall>>
      BY <1>8 DEF ReadFileRequest
    <2>2. UNCHANGED <<stage, pump, files>>
      BY <1>8 DEF ReadFileRequest, pumps
    <2>3. CASE FileItem(item, whose) \in files
      <3>1. PICK offer \in Offered.fileChange : Receive(r, offer, whose)
        BY <2>1, <2>3
      <3>2. offer \in SUBSET ChoiceIds
        BY <3>1 DEF Offered
      <3> QED BY <2>2, <3>1, <3>2, ReceiveKeeps
    <2>4. CASE FileItem(item, whose) \notin files
      BY <2>1, <2>2, <2>4, AsksKept DEF asks
    <2> QED BY <2>3, <2>4
  <1>9. CASE ReadFileItem
    <2>1. PICK item \in Items, whose \in Whose :
            files' = files \/ files' = files \cup {FileItem(item, whose)}
      BY <1>9 DEF ReadFileItem
    <2>2. UNCHANGED <<stage, pump, request, offers, buffer>>
      BY <1>9 DEF ReadFileItem, pumps
    <2> DEFINE x == FileItem(item, whose)
    <2>3. AskTypes'
      <3>1. files \subseteq {FileItem(i, w) : i \in Items, w \in Whose} /\ IsFiniteSet(files)
        BY DEF AskInv, AskTypes
      <3>2. x \in {FileItem(i, w) : i \in Items, w \in Whose} /\ (files' = files \/ files' = files \cup {x})
        BY <2>1
      <3> HIDE DEF x
      <3>3. IsFiniteSet(files \cup {x})
        BY <3>1, FS_AddElement
      <3>4. files' \subseteq {FileItem(i, w) : i \in Items, w \in Whose} /\ IsFiniteSet(files')
        BY <3>1, <3>2, <3>3
      <3> QED BY <2>2, <3>4 DEF AskInv, AskTypes
    <2>4. Pending' = Pending /\ Buffered' = Buffered
      BY <2>2 DEF Pending, Buffered
    <2>5. Asked'
      BY <2>2, <2>4 DEF AskInv, Asked
    <2> QED BY <2>3, <2>5 DEF AskInv
  <1>10. CASE ReadFileItemEnded
    <2>1. PICK item \in Items, whose \in Whose :
            /\ files' = files \/ files' = files \ {FileItem(item, whose)}
            /\ \/ buffer' = buffer
               \/ buffer' = Append(buffer, [kind |-> "ended", of |-> item, whose |-> whose])
      BY <1>10 DEF ReadFileItemEnded
    <2>2. UNCHANGED <<stage, pump, request, offers>>
      BY <1>10 DEF ReadFileItemEnded, pumps
    <2>3. buffer \in Seq(Entry) /\ Once(buffer) /\ Named(buffer) = Buffered
      BY DEF AskInv, AskTypes, Asked
    <2> DEFINE b == [kind |-> "ended", of |-> item, whose |-> whose]
    <2>4. b \in Entry /\ b.kind # "request"
      BY DEF Entry
    <2>5. buffer' = buffer \/ buffer' = Append(buffer, b)
      BY <2>1
    <2> HIDE DEF b
    <2>6. buffer' \in Seq(Entry) /\ Once(buffer') /\ Named(buffer') = Named(buffer)
      BY <2>3, <2>4, <2>5, Appended
    <2>7. files' \subseteq {FileItem(i, w) : i \in Items, w \in Whose} /\ IsFiniteSet(files')
      BY <2>1, FS_RemoveElement DEF AskInv, AskTypes
    <2>8. AskTypes'
      BY <2>2, <2>6, <2>7 DEF AskInv, AskTypes
    <2>9. Pending' = Pending /\ Buffered' = Buffered
      BY <2>2 DEF Pending, Buffered
    <2>10. Asked'
      BY <2>2, <2>3, <2>6, <2>9 DEF AskInv, Asked
    <2> QED BY <2>8, <2>10 DEF AskInv
  <1>11. CASE ReadCleared
    <2>1. PICK r \in Requests :
            \/ UNCHANGED <<request, buffer>>
            \/ /\ buffer' = Unasked(buffer, r)
               /\ request' = [request EXCEPT ![r] =
                    CASE request[r] \in {"open", "decided"} -> "cleared"
                      [] request[r] = "buffered" -> "withdrawn"
                      [] OTHER -> request[r]]
      BY <1>11 DEF ReadCleared
    <2>2. UNCHANGED <<stage, pump, offers, files>>
      BY <1>11 DEF ReadCleared, pumps
    <2>3. CASE UNCHANGED <<request, buffer>>
      BY <2>2, <2>3, AsksKept DEF asks
    <2>4. CASE ~ UNCHANGED <<request, buffer>>
      <3> DEFINE v == CASE request[r] \in {"open", "decided"} -> "cleared"
                        [] request[r] = "buffered" -> "withdrawn"
                        [] OTHER -> request[r]
      <3>1. buffer' = Unasked(buffer, r) /\ request' = [request EXCEPT ![r] = v]
        BY <2>1, <2>4 DEF AskInv, AskTypes
      <3>2. v \in {"unseen", "cleared", "withdrawn", "dropped", "orphaned"}
        <4>1. request[r] \in {"unseen", "buffered", "open", "decided", "cleared",
                              "withdrawn", "dropped", "orphaned"}
          BY DEF AskInv, AskTypes
        <4> QED BY <4>1
      <3> HIDE DEF v
      <3>3. OnlyOf(r) /\ request'[r] = v
        BY <3>1, <3>2, Moved DEF AskInv
      <3>4. Buffered' = Buffered \ {r} /\ Pending' = Pending \ {r}
        BY <3>2, <3>3, MovedSets
      <3>5. /\ buffer' \in Seq(Entry) /\ Once(buffer') /\ Named(buffer') = Named(buffer) \ {r}
        BY <3>1, Unbuffered DEF AskInv, AskTypes, Asked
      <3>6. AskTypes'
        BY <2>2, <3>3, <3>5 DEF AskInv, AskTypes, OnlyOf
      <3>7. Asked'
        BY <2>2, <3>4, <3>5 DEF AskInv, Asked
      <3> QED BY <3>6, <3>7 DEF AskInv
    <2> QED BY <2>3, <2>4
  <1>12. CASE ReadContent
    BY <1>12, AsksKept DEF Staged, Stages, Reading, ReadContent, stops, asks, decided,
      clocks, pumps
  <1>13. CASE ReadOther
    <2>1. UNCHANGED <<stage, pump, offers, buffer, files>>
      BY <1>13 DEF ReadOther, pumps
    <2>2. CASE request' = request
      BY <2>1, <2>2, AsksKept DEF asks
    <2>3. CASE request' # request
      <3>1. PICK r \in Requests \ Seen : request' = [request EXCEPT ![r] = "dropped"]
        BY <1>13, <2>3 DEF ReadOther
      <3>2. request[r] = "unseen"
        BY <3>1 DEF Seen
      <3>3. OnlyOf(r) /\ request'[r] = "dropped"
        BY <3>1, Moved DEF AskInv
      <3>4. Buffered' = Buffered \ {r} /\ Pending' = Pending \ {r} /\ r \notin Buffered
        BY <3>2, <3>3, MovedSets DEF Buffered
      <3>5. AskTypes'
        BY <2>1, <3>3 DEF AskInv, AskTypes, OnlyOf
      <3>6. Asked'
        BY <2>1, <3>4 DEF AskInv, Asked
      <3> QED BY <3>5, <3>6 DEF AskInv
    <2> QED BY <2>2, <2>3
  <1>14. CASE ReadComplete
    BY <1>14, AsksKept DEF Staged, Stages, Reading, ReadComplete, stops, asks, decided
  <1>15. CASE ClearNext
    <2>1. UNCHANGED <<stage, offers, buffer, files>> /\ pump = "clearing"
      BY <1>15 DEF ClearNext
    <2>2. CASE Pending = {}
      BY <1>15, <2>1, <2>2, AsksKept DEF ClearNext, asks
    <2>3. CASE Pending # {}
      <3>1. PICK r \in Pending : request' = [request EXCEPT ![r] = "cleared"]
        BY <1>15, <2>3 DEF ClearNext
      <3> QED BY <2>1, <3>1, TakenKeeps
    <2> QED BY <2>2, <2>3
  <1> QED BY <1>1, <1>2, <1>3, <1>4, <1>5, <1>6, <1>7, <1>8, <1>9, <1>10, <1>11,
  <1>12, <1>13, <1>14, <1>15 DEF Native

LEMMA AsksCaller == TurnTypes /\ Staged /\ AskInv /\ Caller => AskInv'
  <1> SUFFICES ASSUME TurnTypes, Staged, AskInv, Caller PROVE AskInv'
    OBVIOUS
  <1>1. ASSUME NEW d \in Decisions, NEW r \in Requests, NEW c \in ChoiceIds, Repeated(d, r, c)
        PROVE  AskInv'
    BY <1>1, AsksKept DEF Staged, Stages, Repeated, stops, asks, clocks, pumps, ending
  <1>2. ASSUME NEW d \in Decisions, NEW r \in Requests, NEW c \in ChoiceIds, Unavailable(d, r, c)
        PROVE  AskInv'
    BY <1>2, AsksKept DEF Staged, Stages, Unavailable, stops, asks, clocks, pumps,
      ending
  <1>3. ASSUME NEW d \in Decisions, NEW r \in Requests, NEW c \in ChoiceIds, Decide(d, r, c)
        PROVE  AskInv'
    <2>1. r \in Pending
      BY <1>3 DEF Decide, Pending
    <2>2. /\ request' = [request EXCEPT ![r] = "decided"]
          /\ UNCHANGED <<stage, pump, offers, buffer, files>>
      BY <1>3 DEF Decide, pumps
    <2> QED BY <2>1, <2>2, TakenKeeps
  <1>4. CASE DecisionsBreak
    BY <1>4, AsksKept DEF Staged, Stages, DecisionsBreak, asks, decided, clocks,
      ending
  <1>5. CASE DecisionsEnd
    BY <1>5, AsksKept DEF Staged, Stages, DecisionsEnd, stops, asks, decided, clocks,
      ending
  <1> QED BY <1>1, <1>2, <1>3, <1>4, <1>5 DEF Caller

LEMMA AsksRuntime == TurnTypes /\ Staged /\ AskInv /\ Runtime => AskInv'
  <1> SUFFICES ASSUME TurnTypes, Staged, AskInv, Runtime PROVE AskInv'
    OBVIOUS
  <1>1. CASE Abort
    BY <1>1, AsksKept DEF Staged, Stages, Reading, Abort, asks, decided, clocks, pumps
  <1>2. CASE ProtocolTimeout
    BY <1>2, AsksKept DEF Staged, Stages, Reading, ProtocolTimeout, asks, decided,
      pumps, ending
  <1>3. CASE ExitGrace
    BY <1>3, AsksKept DEF Staged, Stages, Reading, ExitGrace, asks, decided, pumps,
      ending
  <1>4. CASE HardDeadline
    BY <1>4, AsksKept DEF Staged, Stages, Reading, HardDeadline, asks, decided, pumps,
      ending
  <1>5. CASE Stall
    BY <1>5, AsksKept DEF Staged, Stages, Reading, Stall, asks, decided, pumps, ending
  <1>6. CASE KillGrace
    BY <1>6, AsksKept DEF Staged, Stages, Reading, KillGrace, asks, decided, clocks,
      pumps, ending
  <1>7. ASSUME NEW class \in {"limit", "auth"}, StderrWall(class) PROVE AskInv'
    BY <1>7, AsksKept DEF Staged, Stages, Reading, StderrWall, asks, decided, clocks,
      pumps, ending
  <1>8. CASE StderrCredential
    BY <1>8, AsksKept DEF Staged, Stages, Reading, StderrCredential, stops, asks,
      decided, clocks, pumps
  <1>9. CASE InputError
    BY <1>9, AsksKept DEF Staged, Stages, Reading, InputError, asks, decided, clocks,
      pumps, ending
  <1>10. ASSUME NEW how \in {"zero", "nonzero", "signal", "missing"}, Exit(how)
         PROVE  AskInv'
    BY <1>10, AsksKept DEF Staged, Stages, Reading, Exit, asks, decided, pumps, ending
  <1>11. CASE StdoutEnds
    BY <1>11, AsksKept DEF Staged, Stages, Reading, StdoutEnds, stops, asks, decided,
      clocks, ending
  <1>12. CASE StderrEnds
    BY <1>12, AsksKept DEF Staged, Stages, Reading, StderrEnds, stops, asks, decided,
      clocks, ending
  <1> QED BY <1>1, <1>2, <1>3, <1>4, <1>5, <1>6, <1>7, <1>8, <1>9, <1>10, <1>11, <1>12
  DEF Runtime

LEMMA AsksEnd ==
  TurnTypes /\ Staged /\ AskInv /\ (Finish \/ ClearLeft \/ Conclude \/ Leave \/ Over)
    => AskInv'
  <1> SUFFICES ASSUME TurnTypes, Staged, AskInv, Finish \/ ClearLeft \/ Conclude \/ Leave \/ Over
               PROVE  AskInv'
    OBVIOUS
  <1>1. CASE Finish
    BY <1>1, AsksKept DEF Staged, Stages, Finish, asks, decided, pumps
  <1>2. CASE ClearLeft
    <2>1. UNCHANGED <<stage, pump, offers, buffer, files>>
      BY <1>2 DEF ClearLeft, pumps
    <2>2. PICK r \in Pending : request' = [request EXCEPT ![r] = "cleared"]
      BY <1>2 DEF ClearLeft
    <2> QED BY <2>1, <2>2, TakenKeeps
  <1>3. CASE Conclude
    BY <1>3, AsksKept DEF Staged, Stages, Conclude, asks, decided, clocks, pumps
  <1>4. CASE Leave
    BY <1>4, AsksKept DEF Staged, Stages, Leave, asks, decided, clocks, pumps
  <1>5. CASE Over
    BY <1>5, AsksKept DEF Staged, Stages, Over, vars, stops, asks, decided, clocks,
      pumps, ending
  <1> QED BY <1>1, <1>2, <1>3, <1>4, <1>5

-----------------------------------------------------------------------------
(* What no step takes back *)

(* Between its spawn and its verdict a turn stays between them, what closed *)
(* it stays, and its process does not come back.                            *)
Goes ==
  /\ gen \notin {"starting", "returned"} /\ gen' \notin {"starting", "returned"}
  /\ verdict' = verdict
  /\ closing => closing'
  /\ Exited => Exited'

(* A request is dropped by a turn that is stopped, not by one completed.   *)
Drops == closing' /\ completed' = completed /\ (closing => pump = "replaying")

(* A request answered stays so, an offer made stands, and a request is    *)
(* dropped only with the turn, or left by a process that is gone.         *)
Onward ==
  /\ \A r \in Requests : request[r] \in {"decided", "cleared"} => request'[r] \in {"decided", "cleared"}
  /\ \A r \in Requests : request[r] # "unseen" => offers'[r] = offers[r]
  /\ \A r \in Requests : request'[r] = "dropped" => request[r] = "dropped" \/ Drops
  /\ \A r \in Requests : request'[r] = "orphaned" => request[r] = "orphaned" \/ Exited

LEMMA GoesNative == TurnTypes /\ Native => Goes
  <1> SUFFICES ASSUME TurnTypes, Native PROVE Goes
    OBVIOUS
  <1>1. CASE BadReply
    BY <1>1, StopCloses, PublishCloses, ReceiveCloses DEF Goes, Exited, Running,
      Reading, BadReply, asks, decided, clocks, pumps, ending
  <1>2. CASE InitializeReply
    BY <1>2, StopCloses, PublishCloses, ReceiveCloses DEF Goes, Exited, Running,
      Reading, InitializeReply, stops, asks, decided, pumps, ending
  <1>3. CASE ResumeReply
    BY <1>3, StopCloses, PublishCloses, ReceiveCloses DEF Goes, Exited, Running,
      Reading, ResumeReply, stops, asks, decided, clocks, ending
  <1>4. CASE IdentityShown
    BY <1>4, StopCloses, PublishCloses, ReceiveCloses DEF Goes, Exited, Running,
      Reading, IdentityShown, stops, asks, decided, ending
  <1>5. CASE StartReply
    BY <1>5, StopCloses, PublishCloses, ReceiveCloses DEF Goes, Exited, Running,
      Reading, StartReply, stops, decided, ending
  <1>6. CASE Replay
    BY <1>6, StopCloses, PublishCloses, ReceiveCloses DEF Goes, Exited, Running,
      Reading, Replay, stops, decided, ending
  <1>7. CASE ReadRequest
    BY <1>7, StopCloses, PublishCloses, ReceiveCloses DEF Goes, Exited, Running,
      Reading, ReadRequest, decided, pumps, ending
  <1>8. CASE ReadFileRequest
    BY <1>8, StopCloses, PublishCloses, ReceiveCloses DEF Goes, Exited, Running,
      Reading, ReadFileRequest, decided, pumps, ending
  <1>9. CASE ReadFileItem
    BY <1>9, StopCloses, PublishCloses, ReceiveCloses DEF Goes, Exited, Running,
      Reading, ReadFileItem, stops, decided, clocks, pumps, ending
  <1>10. CASE ReadFileItemEnded
    BY <1>10, StopCloses, PublishCloses, ReceiveCloses DEF Goes, Exited, Running,
      Reading, ReadFileItemEnded, stops, decided, clocks, pumps, ending
  <1>11. CASE ReadCleared
    BY <1>11, StopCloses, PublishCloses, ReceiveCloses DEF Goes, Exited, Running,
      Reading, ReadCleared, stops, decided, pumps, ending
  <1>12. CASE ReadContent
    BY <1>12, StopCloses, PublishCloses, ReceiveCloses DEF Goes, Exited, Running,
      Reading, ReadContent, stops, asks, decided, clocks, pumps
  <1>13. CASE ReadOther
    BY <1>13, StopCloses, PublishCloses, ReceiveCloses DEF Goes, Exited, Running,
      Reading, ReadOther, stops, decided, clocks, pumps, ending
  <1>14. CASE ReadComplete
    BY <1>14, StopCloses, PublishCloses, ReceiveCloses DEF Goes, Exited, Running,
      Reading, ReadComplete, stops, asks, decided
  <1>15. CASE ClearNext
    BY <1>15, StopCloses, PublishCloses, ReceiveCloses DEF Goes, Exited, Running,
      Reading, ClearNext, stops, decided, ending
  <1> QED BY <1>1, <1>2, <1>3, <1>4, <1>5, <1>6, <1>7, <1>8, <1>9, <1>10, <1>11,
  <1>12, <1>13, <1>14, <1>15 DEF Native

LEMMA GoesCaller == TurnTypes /\ Caller => Goes
  <1> SUFFICES ASSUME TurnTypes, Caller PROVE Goes
    OBVIOUS
  <1>1. ASSUME NEW d \in Decisions, NEW r \in Requests, NEW c \in ChoiceIds, Repeated(d, r, c)
        PROVE  Goes
    BY <1>1, StopCloses, PublishCloses, ReceiveCloses DEF Goes, Exited, Running,
      Deciding, Repeated, stops, asks, clocks, pumps, ending
  <1>2. ASSUME NEW d \in Decisions, NEW r \in Requests, NEW c \in ChoiceIds, Unavailable(d, r, c)
        PROVE  Goes
    BY <1>2, StopCloses, PublishCloses, ReceiveCloses DEF Goes, Exited, Running,
      Deciding, Unavailable, stops, asks, clocks, pumps, ending
  <1>3. ASSUME NEW d \in Decisions, NEW r \in Requests, NEW c \in ChoiceIds, Decide(d, r, c)
        PROVE  Goes
    BY <1>3, StopCloses, PublishCloses, ReceiveCloses DEF Goes, Exited, Running,
      Deciding, Decide, stops, pumps, ending
  <1>4. CASE DecisionsBreak
    BY <1>4, StopCloses, PublishCloses, ReceiveCloses DEF Goes, Exited, Running,
      Deciding, DecisionsBreak, asks, decided, clocks, ending
  <1>5. CASE DecisionsEnd
    BY <1>5, StopCloses, PublishCloses, ReceiveCloses DEF Goes, Exited, Running,
      Deciding, DecisionsEnd, stops, asks, decided, clocks, ending
  <1> QED BY <1>1, <1>2, <1>3, <1>4, <1>5 DEF Caller

LEMMA GoesRuntime == TurnTypes /\ Runtime => Goes
  <1> SUFFICES ASSUME TurnTypes, Runtime PROVE Goes
    OBVIOUS
  <1>1. CASE Abort
    BY <1>1, StopCloses, PublishCloses, ReceiveCloses DEF Goes, Exited, Running,
      Reading, Abort, asks, decided, clocks, pumps
  <1>2. CASE ProtocolTimeout
    BY <1>2, StopCloses, PublishCloses, ReceiveCloses DEF Goes, Exited, Running,
      Reading, ProtocolTimeout, asks, decided, pumps, ending
  <1>3. CASE ExitGrace
    BY <1>3, StopCloses, PublishCloses, ReceiveCloses DEF Goes, Exited, Running,
      Reading, ExitGrace, asks, decided, pumps, ending
  <1>4. CASE HardDeadline
    BY <1>4, StopCloses, PublishCloses, ReceiveCloses DEF Goes, Exited, Running,
      Reading, HardDeadline, asks, decided, pumps, ending
  <1>5. CASE Stall
    BY <1>5, StopCloses, PublishCloses, ReceiveCloses DEF Goes, Exited, Running,
      Reading, Stall, asks, decided, pumps, ending
  <1>6. CASE KillGrace
    BY <1>6, StopCloses, PublishCloses, ReceiveCloses DEF Goes, Exited, Running,
      Reading, KillGrace, asks, decided, clocks, pumps, ending
  <1>7. ASSUME NEW class \in {"limit", "auth"}, StderrWall(class) PROVE Goes
    BY <1>7, StopCloses, PublishCloses, ReceiveCloses DEF Goes, Exited, Running,
      Reading, StderrWall, asks, decided, clocks, pumps, ending
  <1>8. CASE StderrCredential
    BY <1>8, StopCloses, PublishCloses, ReceiveCloses DEF Goes, Exited, Running,
      Reading, StderrCredential, stops, asks, decided, clocks, pumps
  <1>9. CASE InputError
    BY <1>9, StopCloses, PublishCloses, ReceiveCloses DEF Goes, Exited, Running,
      Reading, InputError, asks, decided, clocks, pumps, ending
  <1>10. ASSUME NEW how \in {"zero", "nonzero", "signal", "missing"}, Exit(how) PROVE Goes
    BY <1>10, StopCloses, PublishCloses, ReceiveCloses DEF Goes, Exited, Running,
      Reading, Exit, asks, decided, pumps, ending
  <1>11. CASE StdoutEnds
    <2>1. closing => closing'
      BY <1>11, StopCloses DEF StdoutEnds, stops
    <2> QED BY <1>11, <2>1 DEF Goes, Exited, Running, Reading, StdoutEnds, ending
  <1>12. CASE StderrEnds
    <2>1. closing => closing'
      BY <1>12, StopCloses DEF StderrEnds, stops
    <2> QED BY <1>12, <2>1 DEF Goes, Exited, Running, Reading, StderrEnds, ending
  <1> QED BY <1>1, <1>2, <1>3, <1>4, <1>5, <1>6, <1>7, <1>8, <1>9, <1>10, <1>11, <1>12
  DEF Runtime

LEMMA GoesEnd == TurnTypes /\ (Finish \/ ClearLeft \/ Leave) => Goes
  <1> SUFFICES ASSUME TurnTypes, Finish \/ ClearLeft \/ Leave PROVE Goes
    OBVIOUS
  <1>1. CASE Finish
    BY <1>1, StopCloses, PublishCloses, ReceiveCloses DEF Goes, Exited, Running,
      Finish, asks, decided, pumps
  <1>2. CASE ClearLeft
    BY <1>2, StopCloses, PublishCloses, ReceiveCloses DEF Goes, Exited, Running,
      ClearLeft, stops, decided, clocks, pumps, ending
  <1>3. CASE Leave
    BY <1>3, StopCloses, PublishCloses, ReceiveCloses DEF Goes, Exited, Running,
      Leave, asks, decided, clocks, pumps
  <1> QED BY <1>1, <1>2, <1>3

(* The same, action by action. *)
LEMMA OnwardKept == UNCHANGED asks => Onward
  BY DEF Onward, asks

(* Of what hcn passes by nothing wants an answer. *)
LEMMA WantsAnswer ==
  ASSUME NEW rec \in Shows({"unsupported", "ignored", "usage"}), rec.id
  PROVE  Decoded(rec) = "unsupported"
  BY DEF Shows, Decoded

LEMMA OnwardOne ==
  ASSUME NEW r \in Requests, OnlyOf(r), offers' = offers,
         request[r] \in {"decided", "cleared"} => request'[r] \in {"decided", "cleared"},
         request'[r] = "dropped" => request[r] = "dropped" \/ Drops,
         request'[r] = "orphaned" => request[r] = "orphaned" \/ Exited
  PROVE  Onward
  BY DEF Onward, OnlyOf

LEMMA OnwardReceive ==
  ASSUME TurnTypes, AskInv, NEW r \in Requests, NEW offer \in SUBSET ChoiceIds,
         NEW whose \in Whose, Receive(r, offer, whose),
         ~closing, completed' = completed
  PROVE  Onward
  <1>1. CASE UNCHANGED <<request, offers, buffer, stall>>
    BY <1>1 DEF Onward
  <1>2. CASE ~ UNCHANGED <<request, offers, buffer, stall>>
    <2>1. /\ request[r] = "unseen" /\ OnlyOf(r) /\ offers' = [offers EXCEPT ![r] = offer]
          /\ request'[r] = "dropped" => closing'
          /\ request'[r] = "orphaned" => Exited
      BY <1>2, ReceiveMoves DEF Lost
    <2>2. \A s \in Requests : s # r => request'[s] = request[s] /\ offers'[s] = offers[s]
      BY <2>1 DEF OnlyOf, AskInv, AskTypes
    <2> QED BY <2>1, <2>2 DEF Onward, Drops
  <1> QED BY <1>1, <1>2

(* A request that was pending is decided or cleared. *)
LEMMA OnwardTaken ==
  ASSUME AskInv, NEW r \in Pending, NEW v \in {"decided", "cleared"},
         request' = [request EXCEPT ![r] = v], offers' = offers
  PROVE  Onward
  <1>1. r \in Requests
    BY DEF Pending
  <1>2. OnlyOf(r) /\ request'[r] = v
    BY <1>1, Moved DEF AskInv
  <1> QED BY <1>1, <1>2, OnwardOne

LEMMA OnwardStart == TurnTypes /\ AskInv /\ (Unstarted \/ Spawn) => Onward
  <1> SUFFICES ASSUME TurnTypes, AskInv, Unstarted \/ Spawn PROVE Onward
    OBVIOUS
  <1>1. CASE Unstarted
    BY <1>1, OnwardKept DEF Unstarted
  <1>2. CASE Spawn
    BY <1>2, OnwardKept DEF Spawn
  <1> QED BY <1>1, <1>2

LEMMA OnwardNative == TurnTypes /\ AskInv /\ Native => Onward
  <1> SUFFICES ASSUME TurnTypes, AskInv, Native PROVE Onward
    OBVIOUS
  <1>1. CASE BadReply
    BY <1>1, OnwardKept DEF BadReply
  <1>2. CASE InitializeReply
    BY <1>2, OnwardKept DEF InitializeReply
  <1>3. CASE ResumeReply
    BY <1>3, OnwardKept DEF ResumeReply
  <1>4. CASE IdentityShown
    BY <1>4, OnwardKept DEF IdentityShown
  <1>5. CASE StartReply
    <2>1. offers' = offers
      BY <1>5 DEF StartReply
    <2>2. CASE Exited
      <3>1. request' = Forgotten
        BY <1>5, <2>2 DEF StartReply
      <3> QED BY <2>1, <2>2, <3>1, ForgottenSets DEF Onward, AskInv, Buffered, Lost
    <2>3. CASE ~Exited
      BY <1>5, <2>3 DEF StartReply, Onward
    <2> QED BY <2>2, <2>3
  <1>6. CASE Replay
    <2>1. offers' = offers /\ completed' = completed /\ pump = "replaying"
      BY <1>6 DEF Replay, ending
    <2>2. CASE closing \/ buffer = <<>>
      <3>1. request' = Forgotten /\ closing' = closing
        BY <1>6, <2>2 DEF Replay, stops
      <3>2. buffer = <<>> => Buffered = {}
        BY Emptied DEF AskInv, Asked
      <3> QED BY <2>1, <2>2, <3>1, <3>2, ForgottenSets DEF Onward, AskInv, Buffered, Lost, Drops
    <2>3. CASE ~(closing \/ buffer = <<>>) /\ Head(buffer).kind = "request"
      <3> DEFINE r == Head(buffer).of
      <3>1. Publish(r, Head(buffer).whose)
        BY <1>6, <2>3 DEF Replay
      <3>2. r \in Buffered
        BY <2>3, Replayed DEF AskInv, AskTypes, Asked
      <3> HIDE DEF r
      <3>3. r \in Requests /\ request[r] = "buffered"
        BY <3>2 DEF Buffered
      <3>4. /\ OnlyOf(r) /\ (request'[r] = "dropped" => Drops)
            /\ request'[r] = "orphaned" => Exited
        BY <2>1, <3>1, <3>3, PublishMoves DEF AskInv, Lost, Drops
      <3> QED BY <2>1, <3>3, <3>4, OnwardOne
    <2>4. CASE ~(closing \/ buffer = <<>>) /\ Head(buffer).kind # "request"
      BY <1>6, <2>1, <2>4 DEF Replay, Onward
    <2> QED BY <2>2, <2>3, <2>4
  <1>7. CASE ReadRequest
    <2>1. PICK r \in Requests, rec \in Shows({"request"}), whose \in Whose :
            \E offer \in Offered[rec.method] : Receive(r, offer, whose)
      BY <1>7 DEF ReadRequest
    <2>2. PICK offer \in Offered[rec.method] : Receive(r, offer, whose)
      BY <2>1
    <2>3. offer \in SUBSET ChoiceIds /\ ~closing /\ completed' = completed
      BY <1>7, <2>1, <2>2, OfferTyped DEF ReadRequest, ending
    <2> QED BY <2>2, <2>3, OnwardReceive
  <1>8. CASE ReadFileRequest
    <2>1. PICK r \in Requests, item \in Items, whose \in Whose :
            IF FileItem(item, whose) \in files
            THEN \E offer \in Offered.fileChange : Receive(r, offer, whose)
            ELSE Stop("task") /\ UNCHANGED <<request, offers, buffer, stall>>
      BY <1>8 DEF ReadFileRequest
    <2>2. CASE FileItem(item, whose) \in files
      <3>1. PICK offer \in Offered.fileChange : Receive(r, offer, whose)
        BY <2>1, <2>2
      <3>2. offer \in SUBSET ChoiceIds /\ ~closing /\ completed' = completed
        BY <1>8, <3>1 DEF Offered, ReadFileRequest, ending
      <3> QED BY <3>1, <3>2, OnwardReceive
    <2>3. CASE FileItem(item, whose) \notin files
      BY <2>1, <2>3 DEF Onward
    <2> QED BY <2>2, <2>3
  <1>9. CASE ReadFileItem
    BY <1>9 DEF Onward, ReadFileItem
  <1>10. CASE ReadFileItemEnded
    BY <1>10 DEF Onward, ReadFileItemEnded
  <1>11. CASE ReadCleared
    <2>1. PICK r \in Requests :
            \/ UNCHANGED request
            \/ request' = [request EXCEPT ![r] =
                    CASE request[r] \in {"open", "decided"} -> "cleared"
                      [] request[r] = "buffered" -> "withdrawn"
                      [] OTHER -> request[r]]
      BY <1>11 DEF ReadCleared
    <2>2. offers' = offers
      BY <1>11 DEF ReadCleared
    <2>3. CASE UNCHANGED request
      BY <2>2, <2>3 DEF Onward
    <2>4. CASE ~ UNCHANGED request
      <3> DEFINE v == CASE request[r] \in {"open", "decided"} -> "cleared"
                        [] request[r] = "buffered" -> "withdrawn"
                        [] OTHER -> request[r]
      <3>1. request' = [request EXCEPT ![r] = v]
        BY <2>1, <2>4
      <3>2. /\ v \in {"unseen", "cleared", "withdrawn", "dropped", "orphaned"}
            /\ request[r] \in {"decided", "cleared"} => v = "cleared"
            /\ v \in {"dropped", "orphaned"} => request[r] = v
        <4>1. request[r] \in {"unseen", "buffered", "open", "decided", "cleared",
                              "withdrawn", "dropped", "orphaned"}
          BY DEF AskInv, AskTypes
        <4> QED BY <4>1
      <3> HIDE DEF v
      <3>3. OnlyOf(r) /\ request'[r] = v
        BY <3>1, <3>2, Moved DEF AskInv
      <3> QED BY <2>2, <3>2, <3>3, OnwardOne
    <2> QED BY <2>3, <2>4
  <1>12. CASE ReadContent
    BY <1>12, OnwardKept DEF ReadContent
  <1>13. CASE ReadOther
    <2>1. offers' = offers /\ ~closing /\ completed' = completed
      BY <1>13 DEF ReadOther, ending
    <2>2. PICK rec \in Shows({"unsupported", "ignored", "usage"}) :
            /\ IF Decoded(rec) = "unsupported" THEN Stop("task") ELSE UNCHANGED stops
            /\ IF rec.id
               THEN \E r \in Requests \ Seen : request' = [request EXCEPT ![r] = "dropped"]
               ELSE UNCHANGED request
      BY <1>13 DEF ReadOther
    <2>3. CASE ~rec.id
      BY <2>1, <2>2, <2>3 DEF Onward
    <2>4. CASE rec.id
      <3>1. Decoded(rec) = "unsupported"
        BY <2>4, WantsAnswer
      <3>2. closing' = TRUE
        BY <2>2, <3>1, StopCloses
      <3>3. PICK r \in Requests \ Seen : request' = [request EXCEPT ![r] = "dropped"]
        BY <2>2, <2>4
      <3>4. request[r] = "unseen"
        BY <3>3 DEF Seen
      <3>5. OnlyOf(r) /\ request'[r] = "dropped"
        BY <3>3, Moved DEF AskInv
      <3> QED BY <2>1, <3>2, <3>4, <3>5, OnwardOne DEF Drops
    <2> QED BY <2>3, <2>4
  <1>14. CASE ReadComplete
    BY <1>14, OnwardKept DEF ReadComplete
  <1>15. CASE ClearNext
    <2>1. offers' = offers
      BY <1>15 DEF ClearNext
    <2>2. CASE Pending = {}
      BY <1>15, <2>1, <2>2 DEF ClearNext, Onward
    <2>3. CASE Pending # {}
      <3>1. PICK r \in Pending : request' = [request EXCEPT ![r] = "cleared"]
        BY <1>15, <2>3 DEF ClearNext
      <3> QED BY <2>1, <3>1, OnwardTaken
    <2> QED BY <2>2, <2>3
  <1> QED BY <1>1, <1>2, <1>3, <1>4, <1>5, <1>6, <1>7, <1>8, <1>9, <1>10, <1>11,
  <1>12, <1>13, <1>14, <1>15 DEF Native

LEMMA OnwardCaller == TurnTypes /\ AskInv /\ Caller => Onward
  <1> SUFFICES ASSUME TurnTypes, AskInv, Caller PROVE Onward
    OBVIOUS
  <1>1. ASSUME NEW d \in Decisions, NEW r \in Requests, NEW c \in ChoiceIds, Repeated(d, r, c)
        PROVE  Onward
    BY <1>1, OnwardKept DEF Repeated
  <1>2. ASSUME NEW d \in Decisions, NEW r \in Requests, NEW c \in ChoiceIds, Unavailable(d, r, c)
        PROVE  Onward
    BY <1>2, OnwardKept DEF Unavailable
  <1>3. ASSUME NEW d \in Decisions, NEW r \in Requests, NEW c \in ChoiceIds, Decide(d, r, c)
        PROVE  Onward
    <2>1. r \in Pending
      BY <1>3 DEF Decide, Pending
    <2>2. request' = [request EXCEPT ![r] = "decided"] /\ offers' = offers
      BY <1>3 DEF Decide
    <2> QED BY <2>1, <2>2, OnwardTaken
  <1>4. CASE DecisionsBreak
    BY <1>4, OnwardKept DEF DecisionsBreak
  <1>5. CASE DecisionsEnd
    BY <1>5, OnwardKept DEF DecisionsEnd
  <1> QED BY <1>1, <1>2, <1>3, <1>4, <1>5 DEF Caller

LEMMA OnwardRuntime == TurnTypes /\ AskInv /\ Runtime => Onward
  <1> SUFFICES ASSUME TurnTypes, AskInv, Runtime PROVE Onward
    OBVIOUS
  <1>1. CASE Abort
    BY <1>1, OnwardKept DEF Abort
  <1>2. CASE ProtocolTimeout
    BY <1>2, OnwardKept DEF ProtocolTimeout
  <1>3. CASE ExitGrace
    BY <1>3, OnwardKept DEF ExitGrace
  <1>4. CASE HardDeadline
    BY <1>4, OnwardKept DEF HardDeadline
  <1>5. CASE Stall
    BY <1>5, OnwardKept DEF Stall
  <1>6. CASE KillGrace
    BY <1>6, OnwardKept DEF KillGrace
  <1>7. ASSUME NEW class \in {"limit", "auth"}, StderrWall(class) PROVE Onward
    BY <1>7, OnwardKept DEF StderrWall
  <1>8. CASE StderrCredential
    BY <1>8, OnwardKept DEF StderrCredential
  <1>9. CASE InputError
    BY <1>9, OnwardKept DEF InputError
  <1>10. ASSUME NEW how \in {"zero", "nonzero", "signal", "missing"}, Exit(how) PROVE Onward
    BY <1>10, OnwardKept DEF Exit
  <1>11. CASE StdoutEnds
    BY <1>11, OnwardKept DEF StdoutEnds
  <1>12. CASE StderrEnds
    BY <1>12, OnwardKept DEF StderrEnds
  <1> QED BY <1>1, <1>2, <1>3, <1>4, <1>5, <1>6, <1>7, <1>8, <1>9, <1>10, <1>11, <1>12
  DEF Runtime

LEMMA OnwardEnd ==
  TurnTypes /\ AskInv /\ (Finish \/ ClearLeft \/ Conclude \/ Leave \/ Over) => Onward
  <1> SUFFICES ASSUME TurnTypes, AskInv, Finish \/ ClearLeft \/ Conclude \/ Leave \/ Over
               PROVE  Onward
    OBVIOUS
  <1>1. CASE Finish
    BY <1>1, OnwardKept DEF Finish
  <1>2. CASE ClearLeft
    <2>1. offers' = offers
      BY <1>2 DEF ClearLeft
    <2>2. PICK r \in Pending : request' = [request EXCEPT ![r] = "cleared"]
      BY <1>2 DEF ClearLeft
    <2> QED BY <2>1, <2>2, OnwardTaken
  <1>3. CASE Conclude
    BY <1>3, OnwardKept DEF Conclude
  <1>4. CASE Leave
    BY <1>4, OnwardKept DEF Leave
  <1>5. CASE Over
    BY <1>5, OnwardKept DEF Over, vars
  <1> QED BY <1>1, <1>2, <1>3, <1>4, <1>5

-----------------------------------------------------------------------------
(* The answers *)

(* What is known of the decisions and of the answers they got. *)
AnswerInv == AnswerTypes /\ Answered /\ OneAnswer

(* Without a decision, what was answered stands. *)
LEMMA AnswersKept ==
  ASSUME AnswerInv, Onward, UNCHANGED decided
  PROVE  AnswerInv'
  <1>1. recorded' = recorded /\ responses' = responses /\ answers' = answers
    BY DEF decided
  <1>2. AnswerTypes'
    BY <1>1 DEF AnswerInv, AnswerTypes
  <1>3. Answered'
    BY <1>1 DEF AnswerInv, Answered, Onward
  <1>4. ASSUME NEW a \in answers, a.status = "sent"
        PROVE  responses[a.of] = 1 /\ a.choice \in offers'[a.of]
    <2>1. a.of \in Requests /\ responses[a.of] = 1 /\ a.choice \in offers[a.of]
      BY <1>4 DEF AnswerInv, AnswerTypes, OneAnswer
    <2>2. request[a.of] \in {"decided", "cleared"}
      BY <2>1 DEF AnswerInv, Answered
    <2>3. offers'[a.of] = offers[a.of]
      BY <2>1, <2>2 DEF Onward
    <2> QED BY <2>1, <2>3
  <1>5. OneAnswer'
    <2>1. \A a, b \in answers :
            /\ a.status = "sent" /\ b.status = "sent" /\ a.of = b.of => a = b
            /\ a.id = b.id /\ a.of = b.of /\ a.choice = b.choice => a = b
      BY DEF AnswerInv, OneAnswer
    <2>2. \A r \in Requests : responses[r] <= 1
      BY DEF AnswerInv, OneAnswer
    <2>3. OneAnswer' <=> /\ \A r \in Requests : responses[r] <= 1
                         /\ \A a \in answers : a.status = "sent" =>
                              responses[a.of] = 1 /\ a.choice \in offers'[a.of]
                         /\ \A a, b \in answers :
                              /\ a.status = "sent" /\ b.status = "sent" /\ a.of = b.of => a = b
                              /\ a.id = b.id /\ a.of = b.of /\ a.choice = b.choice => a = b
      BY <1>1 DEF OneAnswer
    <2> QED BY <1>4, <2>1, <2>2, <2>3
  <1> QED BY <1>2, <1>3, <1>5 DEF AnswerInv

(* A decision id that is used for the first time gets its one disposition. *)
LEMMA AnswerAdded ==
  ASSUME AnswerInv, NEW d \in Decisions, NEW r \in Requests, NEW c \in ChoiceIds,
         NEW status \in {"sent", "rejected"}, recorded[d] = NoRecord,
         Answer(d, r, c, status), Record(d, r, c, status)
  PROVE  \E x \in [id : {d}, of : {r}, choice : {c}, status : {status}] :
           /\ answers' = answers \cup {x}
           /\ \A a \in answers : a.id # d
           /\ recorded' \in [Decisions -> Disposition \cup {NoRecord}]
           /\ answers' \subseteq [id : Decisions, of : Requests, choice : ChoiceIds,
                                  status : {"sent", "rejected"}]
           /\ \A e \in Decisions : recorded'[e] # NoRecord =>
                [id |-> e, of |-> recorded'[e].request, choice |-> recorded'[e].choice,
                 status |-> recorded'[e].status] \in answers'
           /\ \A a \in answers' :
                recorded'[a.id] = [request |-> a.of, choice |-> a.choice, status |-> a.status]
  <1> DEFINE x == [id |-> d, of |-> r, choice |-> c, status |-> status]
             v == [request |-> r, choice |-> c, status |-> status]
  <1>1. answers' = answers \cup {x} /\ recorded' = [recorded EXCEPT ![d] = v]
    BY DEF Answer, Record
  <1>2. /\ x \in [id : {d}, of : {r}, choice : {c}, status : {status}]
        /\ x.id = d /\ x.of = r /\ x.choice = c /\ x.status = status
    OBVIOUS
  <1>3. v \in Disposition /\ v.request = r /\ v.choice = c /\ v.status = status
    BY DEF Disposition
  <1>4. x = [id |-> d, of |-> v.request, choice |-> v.choice, status |-> v.status]
        /\ v = [request |-> x.of, choice |-> x.choice, status |-> x.status]
    OBVIOUS
  <1>5. x \in [id : Decisions, of : Requests, choice : ChoiceIds, status : {"sent", "rejected"}]
    OBVIOUS
  <1> HIDE DEF x, v
  <1>6. recorded \in [Decisions -> Disposition \cup {NoRecord}]
        /\ answers \subseteq [id : Decisions, of : Requests, choice : ChoiceIds,
                              status : {"sent", "rejected"}]
    BY DEF AnswerInv, AnswerTypes
  <1>7. ASSUME NEW a \in answers PROVE a.id \in Decisions /\ a.id # d
    <2>1. a.id \in Decisions /\ a.status \in {"sent", "rejected"}
      BY <1>6
    <2>2. recorded[a.id] = [request |-> a.of, choice |-> a.choice, status |-> a.status]
      BY DEF AnswerInv, Answered
    <2>3. recorded[a.id].status # NoRecord.status
      BY <2>1, <2>2 DEF NoRecord
    <2> QED BY <2>1, <2>3
  <1>8. recorded' \in [Decisions -> Disposition \cup {NoRecord}] /\ recorded'[d] = v
        /\ \A e \in Decisions : e # d => recorded'[e] = recorded[e]
    BY <1>1, <1>3, <1>6
  <1>9. ASSUME NEW e \in Decisions, recorded'[e] # NoRecord
        PROVE  [id |-> e, of |-> recorded'[e].request, choice |-> recorded'[e].choice,
                status |-> recorded'[e].status] \in answers'
    <2>1. CASE e = d
      BY <1>1, <1>4, <1>8, <2>1
    <2>2. CASE e # d
      <3>1. recorded'[e] = recorded[e]
        BY <1>8, <2>2
      <3>2. [id |-> e, of |-> recorded[e].request, choice |-> recorded[e].choice,
             status |-> recorded[e].status] \in answers
        BY <1>9, <3>1 DEF AnswerInv, Answered
      <3> QED BY <1>1, <3>1, <3>2
    <2> QED BY <2>1, <2>2
  <1>10. ASSUME NEW a \in answers'
         PROVE  recorded'[a.id] = [request |-> a.of, choice |-> a.choice, status |-> a.status]
    <2>1. CASE a = x
      BY <1>2, <1>4, <1>8, <2>1
    <2>2. CASE a # x
      <3>1. a \in answers
        BY <1>1, <2>2
      <3>2. recorded[a.id] = [request |-> a.of, choice |-> a.choice, status |-> a.status]
        BY <3>1 DEF AnswerInv, Answered
      <3> QED BY <1>7, <1>8, <3>1, <3>2
    <2> QED BY <2>1, <2>2
  <1> QED BY <1>1, <1>2, <1>5, <1>6, <1>7, <1>8, <1>9, <1>10

(* A repeated decision gets its disposition again. *)
LEMMA AnswersRepeated ==
  ASSUME AnswerInv, NEW d \in Decisions, NEW r \in Requests, NEW c \in ChoiceIds, Repeated(d, r, c)
  PROVE  AnswerInv'
  <1>1. UNCHANGED asks /\ recorded' = recorded /\ responses' = responses
    BY DEF Repeated
  <1>2. answers' = answers
    <2>1. CASE recorded[d].request = r /\ recorded[d].choice = c
      <3>1. [id |-> d, of |-> r, choice |-> c, status |-> recorded[d].status] \in answers
        BY <2>1 DEF Repeated, AnswerInv, Answered
      <3> QED BY <2>1, <3>1 DEF Repeated, Answer
    <2>2. CASE ~(recorded[d].request = r /\ recorded[d].choice = c)
      BY <2>2 DEF Repeated
    <2> QED BY <2>1, <2>2
  <1> QED BY <1>1, <1>2, OnwardKept, AnswersKept DEF decided

(* A decision that comes too late, or was not offered, is rejected. *)
LEMMA AnswersUnavailable ==
  ASSUME AnswerInv, NEW d \in Decisions, NEW r \in Requests, NEW c \in ChoiceIds, Unavailable(d, r, c)
  PROVE  AnswerInv'
  <1>1. /\ recorded[d] = NoRecord /\ Answer(d, r, c, "rejected") /\ Record(d, r, c, "rejected")
        /\ request' = request /\ offers' = offers /\ responses' = responses
    BY DEF Unavailable, asks
  <1>2. PICK x \in [id : {d}, of : {r}, choice : {c}, status : {"rejected"}] :
           /\ answers' = answers \cup {x}
           /\ \A a \in answers : a.id # d
           /\ recorded' \in [Decisions -> Disposition \cup {NoRecord}]
           /\ answers' \subseteq [id : Decisions, of : Requests, choice : ChoiceIds,
                                  status : {"sent", "rejected"}]
           /\ \A e \in Decisions : recorded'[e] # NoRecord =>
                [id |-> e, of |-> recorded'[e].request, choice |-> recorded'[e].choice,
                 status |-> recorded'[e].status] \in answers'
           /\ \A a \in answers' :
                recorded'[a.id] = [request |-> a.of, choice |-> a.choice, status |-> a.status]
    BY <1>1, AnswerAdded
  <1>3. x.id = d /\ x.status = "rejected"
    OBVIOUS
  <1>4. AnswerTypes'
    BY <1>1, <1>2 DEF AnswerInv, AnswerTypes
  <1>5. Answered'
    BY <1>1, <1>2 DEF AnswerInv, Answered
  <1>6. ASSUME NEW a \in answers', a.status = "sent" PROVE a \in answers
    BY <1>2, <1>3, <1>6
  <1>7. OneAnswer'
    <2>1. \A s \in Requests : responses'[s] <= 1
      BY <1>1 DEF AnswerInv, OneAnswer
    <2>2. \A a \in answers' : a.status = "sent" => responses'[a.of] = 1 /\ a.choice \in offers'[a.of]
      BY <1>1, <1>6 DEF AnswerInv, OneAnswer
    <2>3. \A a, b \in answers' : a.status = "sent" /\ b.status = "sent" /\ a.of = b.of => a = b
      BY <1>6 DEF AnswerInv, OneAnswer
    <2>4. \A a, b \in answers' : a.id = b.id /\ a.of = b.of /\ a.choice = b.choice => a = b
      BY <1>2, <1>3 DEF AnswerInv, OneAnswer
    <2> QED BY <2>1, <2>2, <2>3, <2>4 DEF OneAnswer
  <1> QED BY <1>4, <1>5, <1>7 DEF AnswerInv

(* A decision is consumed, then written. *)
LEMMA AnswersDecide ==
  ASSUME AskInv, AnswerInv, NEW d \in Decisions, NEW r \in Requests, NEW c \in ChoiceIds,
         Decide(d, r, c)
  PROVE  AnswerInv'
  <1>1. /\ recorded[d] = NoRecord /\ request[r] = "open" /\ c \in offers[r]
        /\ request' = [request EXCEPT ![r] = "decided"] /\ offers' = offers
        /\ responses' = [responses EXCEPT ![r] = @ + 1]
    BY DEF Decide
  <1>2. responses \in [Requests -> Nat] /\ responses[r] = 0
    BY <1>1 DEF AnswerInv, AnswerTypes, Answered
  <1>3. /\ responses' \in [Requests -> Nat] /\ responses'[r] = 1
        /\ \A s \in Requests : s # r => responses'[s] = responses[s]
    BY <1>1, <1>2
  <1>4. OnlyOf(r) /\ request'[r] = "decided"
    BY <1>1, Moved DEF AskInv
  <1>5. \A s \in Requests : responses'[s] = 0 \/
          (responses'[s] = 1 /\ request'[s] \in {"decided", "cleared"})
    BY <1>3, <1>4 DEF OnlyOf, AnswerInv, Answered
  <1>6. \A s \in Requests : responses'[s] <= 1
    BY <1>5
  <1>7. ASSUME NEW a \in answers, a.status = "sent"
        PROVE  a.of # r /\ responses'[a.of] = 1 /\ a.choice \in offers'[a.of]
    <2>1. a.of \in Requests /\ responses[a.of] = 1 /\ a.choice \in offers[a.of]
      BY <1>7 DEF AnswerInv, AnswerTypes, OneAnswer
    <2> QED BY <1>1, <1>2, <1>3, <2>1
  <1>8. CASE recorded' = recorded /\ answers' = answers
    <2>1. AnswerTypes'
      BY <1>3, <1>8 DEF AnswerInv, AnswerTypes
    <2>2. Answered'
      BY <1>5, <1>8 DEF AnswerInv, Answered
    <2>3. \A a, b \in answers' :
            /\ a.status = "sent" /\ b.status = "sent" /\ a.of = b.of => a = b
            /\ a.id = b.id /\ a.of = b.of /\ a.choice = b.choice => a = b
      BY <1>8 DEF AnswerInv, OneAnswer
    <2>4. OneAnswer'
      BY <1>6, <1>7, <1>8, <2>3 DEF OneAnswer
    <2> QED BY <2>1, <2>2, <2>4 DEF AnswerInv
  <1>9. CASE Answer(d, r, c, "sent") /\ Record(d, r, c, "sent")
    <2>1. PICK x \in [id : {d}, of : {r}, choice : {c}, status : {"sent"}] :
           /\ answers' = answers \cup {x}
           /\ \A a \in answers : a.id # d
           /\ recorded' \in [Decisions -> Disposition \cup {NoRecord}]
           /\ answers' \subseteq [id : Decisions, of : Requests, choice : ChoiceIds,
                                  status : {"sent", "rejected"}]
           /\ \A e \in Decisions : recorded'[e] # NoRecord =>
                [id |-> e, of |-> recorded'[e].request, choice |-> recorded'[e].choice,
                 status |-> recorded'[e].status] \in answers'
           /\ \A a \in answers' :
                recorded'[a.id] = [request |-> a.of, choice |-> a.choice, status |-> a.status]
      BY <1>1, <1>9, AnswerAdded
    <2>2. x.id = d /\ x.of = r /\ x.choice = c /\ x.status = "sent"
      OBVIOUS
    <2>3. AnswerTypes'
      BY <1>3, <2>1 DEF AnswerTypes
    <2>4. Answered'
      BY <1>5, <2>1 DEF Answered
    <2>5. \A a \in answers' : a.status = "sent" => responses'[a.of] = 1 /\ a.choice \in offers'[a.of]
      BY <1>1, <1>3, <1>7, <2>1, <2>2
    <2>6. \A a, b \in answers' : a.status = "sent" /\ b.status = "sent" /\ a.of = b.of => a = b
      BY <1>7, <2>1, <2>2 DEF AnswerInv, OneAnswer
    <2>7. \A a, b \in answers' : a.id = b.id /\ a.of = b.of /\ a.choice = b.choice => a = b
      BY <2>1, <2>2 DEF AnswerInv, OneAnswer
    <2>8. OneAnswer'
      BY <1>6, <2>5, <2>6, <2>7 DEF OneAnswer
    <2> QED BY <2>3, <2>4, <2>8 DEF AnswerInv
  <1> QED BY <1>8, <1>9 DEF Decide

-----------------------------------------------------------------------------
(* The stall clock *)

(* A step that touches no request leaves the clock, or closes the turn; one *)
(* that does sets the clock by the requests it leaves waiting.              *)
LEMMA PausedKept ==
  ASSUME PausedWhileWaiting,
         gen' = "open" => gen = "open", stage' = "running" => stage = "running",
         exit' = "running" => exit = "running",
         closing' \/ (closing' = closing /\ stall' = stall /\ Undecided' = Undecided)
  PROVE  PausedWhileWaiting'
  BY DEF PausedWhileWaiting

LEMMA PausedWaits ==
  ASSUME PausedWhileWaiting,
         gen' = gen, stage' = stage, exit' = exit, closing' = closing,
         stall' = Waits(Undecided')
  PROVE  PausedWhileWaiting'
  BY DEF PausedWhileWaiting, Waits

LEMMA PausedReceive ==
  ASSUME TurnTypes, AskInv, PausedWhileWaiting, NEW r \in Requests, NEW offer \in SUBSET ChoiceIds,
         NEW whose \in Whose, Receive(r, offer, whose), gen' = gen, stage' = stage, exit' = exit,
         UNCHANGED stops \/ closing'
  PROVE  PausedWhileWaiting'
  <1>1. CASE closing'
    BY <1>1, PausedKept
  <1>2. CASE UNCHANGED stops /\ UNCHANGED <<request, offers, buffer, stall>>
    <2>1. Undecided' = Undecided /\ closing' = closing
      BY <1>2 DEF Undecided, stops
    <2> QED BY <1>2, <2>1, PausedKept
  <1>3. CASE ~closing' /\ UNCHANGED stops /\ ~ UNCHANGED <<request, offers, buffer, stall>>
    <2>1. closing' = closing
      BY <1>3 DEF stops
    <2>2. /\ request[r] = "unseen" /\ OnlyOf(r)
          /\ \/ request'[r] = "open" /\ stall' = Waits(Undecided \cup {r})
             \/ request'[r] = Lost /\ Exited
             \/ request'[r] = "buffered" /\ stall' = stall
      BY <1>3, ReceiveMoves
    <2>3. Undecided' = IF request'[r] = "open" THEN Undecided \cup {r} ELSE Undecided \ {r}
      BY <2>2, MovedSets
    <2>4. r \notin Undecided
      BY <2>2 DEF Undecided
    <2>5. CASE request'[r] = "open"
      BY <2>1, <2>2, <2>3, <2>5, PausedWaits, LostIs
    <2>6. CASE request'[r] = Lost /\ Exited
      BY <2>6 DEF PausedWhileWaiting, Exited
    <2>7. CASE request'[r] = "buffered" /\ stall' = stall
      <3>1. Undecided' = Undecided
        BY <2>3, <2>4, <2>7
      <3> QED BY <2>1, <2>7, <3>1, PausedKept
    <2> QED BY <2>2, <2>5, <2>6, <2>7
  <1> QED BY <1>1, <1>2, <1>3

(* Whether what a handler calls stops the turn. *)
LEMMA StopOrNot ==
  ASSUME TurnTypes
  PROVE  /\ \A r, whose : Publish(r, whose) => UNCHANGED stops \/ (Stop("task") /\ closing' = TRUE)
         /\ \A r, offer, whose : Receive(r, offer, whose)
              => UNCHANGED stops \/ (Stop("task") /\ closing' = TRUE)
  BY StopCloses DEF Publish, Receive

LEMMA PausedStart ==
  TurnTypes /\ Staged /\ AskInv /\ PausedWhileWaiting /\ Begun /\ (Unstarted \/ Spawn)
    => PausedWhileWaiting'
  <1> SUFFICES ASSUME TurnTypes, Staged, AskInv, PausedWhileWaiting, Begun, Unstarted \/ Spawn
               PROVE  PausedWhileWaiting'
    OBVIOUS
  <1>1. CASE Unstarted
    BY <1>1 DEF PausedWhileWaiting, Unstarted
  <1>2. CASE Spawn
    <2>1. stage' # "running"
      BY <1>2 DEF Spawn, Begun
    <2> QED BY <2>1 DEF PausedWhileWaiting
  <1> QED BY <1>1, <1>2

LEMMA PausedNative ==
  TurnTypes /\ Staged /\ AskInv /\ PausedWhileWaiting /\ Native => PausedWhileWaiting'
  <1> SUFFICES ASSUME TurnTypes, Staged, AskInv, PausedWhileWaiting, Native
               PROVE  PausedWhileWaiting'
    OBVIOUS
  <1>1. CASE BadReply
    BY <1>1, PausedKept, StopCloses DEF Undecided, asks, Reading, BadReply, asks,
      decided, clocks, pumps, ending
  <1>2. CASE InitializeReply
    BY <1>2, PausedKept, StopCloses DEF Undecided, asks, Reading, InitializeReply,
      stops, asks, decided, pumps, ending
  <1>3. CASE ResumeReply
    BY <1>3, PausedKept, StopCloses DEF Undecided, asks, Reading, ResumeReply, stops,
      asks, decided, clocks, ending
  <1>4. CASE IdentityShown
    <2>1. stage' # "running" /\ gen' = gen
      BY <1>4 DEF IdentityShown, Staged, ending
    <2> QED BY <2>1 DEF PausedWhileWaiting
  <1>5. CASE StartReply
    <2>1. /\ stage = "turn-start" /\ exit' = exit
          /\ stall' = IF StallArmed /\ ~Exited THEN "armed" ELSE stall
      BY <1>5 DEF StartReply
    <2>2. CASE Exited
      BY <2>1, <2>2 DEF PausedWhileWaiting, Exited
    <2>3. CASE ~Exited
      <3>1. Undecided = {}
        BY <2>1 DEF AskInv, Asked, Pending, Undecided
      <3>2. Undecided' = Undecided
        BY <1>5, <2>3 DEF StartReply, Undecided
      <3> QED BY <2>1, <2>3, <3>1, <3>2 DEF PausedWhileWaiting
    <2> QED BY <2>2, <2>3
  <1>6. CASE Replay
    <2>1. gen' = gen /\ stage' = stage /\ exit' = exit
      BY <1>6 DEF Replay, ending
    <2>2. CASE closing \/ buffer = <<>>
      <3>1. request' = Forgotten /\ closing' = closing /\ stall' = stall
        BY <1>6, <2>2 DEF Replay, stops
      <3>2. Undecided' = Undecided
        BY <3>1, ForgottenSets DEF AskInv
      <3> QED BY <2>1, <3>1, <3>2, PausedKept
    <2>3. CASE ~(closing \/ buffer = <<>>) /\ Head(buffer).kind = "request"
      <3> DEFINE r == Head(buffer).of
      <3>1. Publish(r, Head(buffer).whose)
        BY <1>6, <2>3 DEF Replay
      <3>2. r \in Buffered
        BY <2>3, Replayed DEF AskInv, AskTypes, Asked
      <3>3. UNCHANGED stops \/ closing' = TRUE
        BY <3>1, StopOrNot
      <3> HIDE DEF r
      <3>4. r \in Requests /\ request[r] = "buffered"
        BY <3>2 DEF Buffered
      <3>5. /\ OnlyOf(r)
            /\ \/ request'[r] = "open" /\ stall' = Waits(Undecided \cup {r})
               \/ request'[r] = Lost /\ (closing' \/ Exited)
        BY <3>1, <3>4, PublishMoves DEF AskInv
      <3>6. Undecided' = IF request'[r] = "open" THEN Undecided \cup {r} ELSE Undecided \ {r}
        BY <3>4, <3>5, MovedSets
      <3>7. CASE closing' = TRUE
        BY <2>1, <3>7, PausedKept
      <3>8. CASE UNCHANGED stops /\ request'[r] = "open"
        <4>1. closing' = closing
          BY <3>8 DEF stops
        <4> QED BY <2>1, <3>5, <3>6, <3>8, <4>1, PausedWaits, LostIs
      <3>9. CASE Exited
        BY <2>1, <3>9 DEF PausedWhileWaiting, Exited
      <3> QED BY <3>3, <3>5, <3>7, <3>8, <3>9
    <2>4. CASE ~(closing \/ buffer = <<>>) /\ Head(buffer).kind # "request"
      <3>1. /\ request' = request /\ stall' = stall
            /\ closing' = TRUE \/ closing' = closing
        BY <1>6, <2>4, StopCloses DEF Replay, stops
      <3>2. Undecided' = Undecided
        BY <3>1 DEF Undecided
      <3> QED BY <2>1, <3>1, <3>2, PausedKept
    <2> QED BY <2>2, <2>3, <2>4
  <1>7. CASE ReadRequest
    <2>1. PICK r \in Requests, rec \in Shows({"request"}), whose \in Whose :
            \E offer \in Offered[rec.method] : Receive(r, offer, whose)
      BY <1>7 DEF ReadRequest
    <2>2. PICK offer \in Offered[rec.method] : Receive(r, offer, whose)
      BY <2>1
    <2>3. offer \in SUBSET ChoiceIds
      BY <2>1, <2>2, OfferTyped
    <2>4. gen' = gen /\ stage' = stage /\ exit' = exit
      BY <1>7 DEF ReadRequest, ending
    <2>5. UNCHANGED stops \/ closing'
      BY <2>2, StopOrNot
    <2> QED BY <2>2, <2>3, <2>4, <2>5, PausedReceive
  <1>8. CASE ReadFileRequest
    <2>1. PICK r \in Requests, item \in Items, whose \in Whose :
            IF FileItem(item, whose) \in files
            THEN \E offer \in Offered.fileChange : Receive(r, offer, whose)
            ELSE Stop("task") /\ UNCHANGED <<request, offers, buffer, stall>>
      BY <1>8 DEF ReadFileRequest
    <2>2. gen' = gen /\ stage' = stage /\ exit' = exit
      BY <1>8 DEF ReadFileRequest, ending
    <2>3. CASE FileItem(item, whose) \in files
      <3>1. PICK offer \in Offered.fileChange : Receive(r, offer, whose)
        BY <2>1, <2>3
      <3>2. offer \in SUBSET ChoiceIds
        BY <3>1 DEF Offered
      <3>3. UNCHANGED stops \/ closing'
        BY <3>1, StopOrNot
      <3> QED BY <2>2, <3>1, <3>2, <3>3, PausedReceive
    <2>4. CASE FileItem(item, whose) \notin files
      <3>1. closing' = TRUE
        BY <2>1, <2>4, StopCloses
      <3> QED BY <2>2, <3>1, PausedKept
    <2> QED BY <2>3, <2>4
  <1>9. CASE ReadFileItem
    <2>1. closing' = TRUE \/ closing' = closing
      BY <1>9, StopCloses DEF ReadFileItem, stops
    <2> QED BY <1>9, <2>1, PausedKept DEF ReadFileItem, Undecided, ending, clocks
  <1>10. CASE ReadFileItemEnded
    <2>1. closing' = TRUE \/ closing' = closing
      BY <1>10, StopCloses DEF ReadFileItemEnded, stops
    <2> QED BY <1>10, <2>1, PausedKept DEF ReadFileItemEnded, Undecided, ending, clocks
  <1>11. CASE ReadCleared
    <2>1. PICK r \in Requests :
            \/ Stop("task")
            \/ /\ UNCHANGED stops /\ stall' = Waits(Undecided \ {r})
               /\ request' = [request EXCEPT ![r] =
                    CASE request[r] \in {"open", "decided"} -> "cleared"
                      [] request[r] = "buffered" -> "withdrawn"
                      [] OTHER -> request[r]]
      BY <1>11 DEF ReadCleared
    <2>2. gen' = gen /\ stage' = stage /\ exit' = exit
      BY <1>11 DEF ReadCleared, ending
    <2>3. CASE Stop("task")
      <3>1. closing' = TRUE
        BY <2>3, StopCloses
      <3> QED BY <2>2, <3>1, PausedKept
    <2>4. CASE ~Stop("task")
      <3> DEFINE v == CASE request[r] \in {"open", "decided"} -> "cleared"
                        [] request[r] = "buffered" -> "withdrawn"
                        [] OTHER -> request[r]
      <3>1. /\ request' = [request EXCEPT ![r] = v]
            /\ closing' = closing /\ stall' = Waits(Undecided \ {r})
        BY <2>1, <2>4 DEF stops
      <3>2. v \in {"unseen", "cleared", "withdrawn", "dropped", "orphaned"}
        <4>1. request[r] \in {"unseen", "buffered", "open", "decided", "cleared",
                              "withdrawn", "dropped", "orphaned"}
          BY DEF AskInv, AskTypes
        <4> QED BY <4>1
      <3> HIDE DEF v
      <3>3. OnlyOf(r) /\ request'[r] = v
        BY <3>1, <3>2, Moved DEF AskInv
      <3>4. Undecided' = Undecided \ {r}
        BY <3>2, <3>3, MovedSets
      <3> QED BY <2>2, <3>1, <3>4, PausedWaits
    <2> QED BY <2>3, <2>4
  <1>12. CASE ReadContent
    <2>1. closing' = TRUE \/ closing' = closing
      BY <1>12, StopCloses DEF ReadContent, stops
    <2> QED BY <1>12, <2>1, PausedKept DEF ReadContent, Undecided, asks, clocks, pumps
  <1>13. CASE ReadOther
    <2>1. gen' = gen /\ stage' = stage /\ exit' = exit /\ stall' = stall
      BY <1>13 DEF ReadOther, ending, clocks
    <2>2. PICK rec \in Shows({"unsupported", "ignored", "usage"}) :
            /\ IF Decoded(rec) = "unsupported" THEN Stop("task") ELSE UNCHANGED stops
            /\ rec.id \/ UNCHANGED request
      BY <1>13 DEF ReadOther
    <2>3. CASE rec.id
      <3>1. closing' = TRUE
        BY <2>2, <2>3, WantsAnswer, StopCloses
      <3> QED BY <2>1, <3>1, PausedKept
    <2>4. CASE ~rec.id
      <3>1. Undecided' = Undecided /\ (closing' = TRUE \/ closing' = closing)
        BY <2>2, <2>4, StopCloses DEF Undecided, stops
      <3> QED BY <2>1, <3>1, PausedKept
    <2> QED BY <2>3, <2>4
  <1>14. CASE ReadComplete
    BY <1>14, PausedKept, StopCloses DEF Undecided, asks, Reading, ReadComplete,
      stops, asks, decided
  <1>15. CASE ClearNext
    <2>1. closing' = closing /\ closing /\ UNCHANGED <<stage, exit>> /\ gen' = gen
      BY <1>15 DEF ClearNext, Staged, stops, ending
    <2> QED BY <2>1, PausedKept
  <1> QED BY <1>1, <1>2, <1>3, <1>4, <1>5, <1>6, <1>7, <1>8, <1>9, <1>10, <1>11,
  <1>12, <1>13, <1>14, <1>15 DEF Native

LEMMA PausedCaller ==
  TurnTypes /\ Staged /\ AskInv /\ PausedWhileWaiting /\ Caller => PausedWhileWaiting'
  <1> SUFFICES ASSUME TurnTypes, Staged, AskInv, PausedWhileWaiting, Caller
               PROVE  PausedWhileWaiting'
    OBVIOUS
  <1>1. ASSUME NEW d \in Decisions, NEW r \in Requests, NEW c \in ChoiceIds, Repeated(d, r, c)
        PROVE  PausedWhileWaiting'
    BY <1>1, PausedKept, StopCloses DEF Undecided, asks, Repeated, stops, asks,
      clocks, pumps, ending
  <1>2. ASSUME NEW d \in Decisions, NEW r \in Requests, NEW c \in ChoiceIds, Unavailable(d, r, c)
        PROVE  PausedWhileWaiting'
    BY <1>2, PausedKept, StopCloses DEF Undecided, asks, Unavailable, stops, asks,
      clocks, pumps, ending
  <1>3. ASSUME NEW d \in Decisions, NEW r \in Requests, NEW c \in ChoiceIds, Decide(d, r, c)
        PROVE  PausedWhileWaiting'
    <2>1. gen' = gen /\ stage' = stage /\ exit' = exit
      BY <1>3 DEF Decide, ending
    <2>2. request' = [request EXCEPT ![r] = "decided"]
      BY <1>3 DEF Decide
    <2>3. OnlyOf(r) /\ request'[r] = "decided"
      BY <2>2, Moved DEF AskInv
    <2>4. Undecided' = Undecided \ {r}
      BY <2>3, MovedSets
    <2>5. closing' = TRUE \/ (closing' = closing /\ stall' = Waits(Undecided \ {r}))
      BY <1>3, StopCloses DEF Decide, stops
    <2>6. CASE closing' = TRUE
      BY <2>1, <2>6, PausedKept
    <2>7. CASE closing' = closing /\ stall' = Waits(Undecided \ {r})
      BY <2>1, <2>4, <2>7, PausedWaits
    <2> QED BY <2>5, <2>6, <2>7
  <1>4. CASE DecisionsBreak
    BY <1>4, PausedKept, StopCloses DEF Undecided, asks, DecisionsBreak, asks,
      decided, clocks, ending
  <1>5. CASE DecisionsEnd
    <2>1. closing' = TRUE \/ closing' = closing
      BY <1>5, StopCloses DEF DecisionsEnd, stops
    <2> QED BY <1>5, <2>1, PausedKept DEF DecisionsEnd, Undecided, asks, clocks, ending
  <1> QED BY <1>1, <1>2, <1>3, <1>4, <1>5 DEF Caller

LEMMA PausedRuntime ==
  TurnTypes /\ Staged /\ AskInv /\ PausedWhileWaiting /\ Runtime => PausedWhileWaiting'
  <1> SUFFICES ASSUME TurnTypes, Staged, AskInv, PausedWhileWaiting, Runtime
               PROVE  PausedWhileWaiting'
    OBVIOUS
  <1>1. CASE Abort
    BY <1>1, PausedKept, StopCloses DEF Undecided, asks, Reading, Abort, asks,
      decided, clocks, pumps
  <1>2. CASE ProtocolTimeout
    BY <1>2, PausedKept, StopCloses DEF Undecided, asks, Reading, ProtocolTimeout,
      asks, decided, pumps, ending
  <1>3. CASE ExitGrace
    BY <1>3, PausedKept, StopCloses DEF Undecided, asks, Reading, ExitGrace, asks,
      decided, pumps, ending
  <1>4. CASE HardDeadline
    BY <1>4, PausedKept, StopCloses DEF Undecided, asks, Reading, HardDeadline, asks,
      decided, pumps, ending
  <1>5. CASE Stall
    BY <1>5, PausedKept, StopCloses DEF Undecided, asks, Reading, Stall, asks,
      decided, pumps, ending
  <1>6. CASE KillGrace
    BY <1>6, PausedKept, StopCloses DEF Undecided, asks, Reading, KillGrace, asks,
      decided, clocks, pumps, ending
  <1>7. ASSUME NEW class \in {"limit", "auth"}, StderrWall(class) PROVE PausedWhileWaiting'
    BY <1>7, PausedKept, StopCloses DEF Undecided, asks, Reading, StderrWall, asks,
      decided, clocks, pumps, ending
  <1>8. CASE StderrCredential
    BY <1>8, PausedKept, StopCloses DEF Undecided, asks, Reading, StderrCredential,
      stops, asks, decided, clocks, pumps
  <1>9. CASE InputError
    BY <1>9, PausedKept, StopCloses DEF Undecided, asks, Reading, InputError, asks,
      decided, clocks, pumps, ending
  <1>10. ASSUME NEW how \in {"zero", "nonzero", "signal", "missing"}, Exit(how)
         PROVE  PausedWhileWaiting'
    BY <1>10 DEF PausedWhileWaiting, Exit
  <1>11. CASE StdoutEnds
    <2>1. closing' = TRUE \/ closing' = closing
      BY <1>11, StopCloses DEF StdoutEnds, stops
    <2> QED BY <1>11, <2>1, PausedKept DEF StdoutEnds, Undecided, asks, clocks, ending
  <1>12. CASE StderrEnds
    <2>1. closing' = TRUE \/ closing' = closing
      BY <1>12, StopCloses DEF StderrEnds, stops
    <2> QED BY <1>12, <2>1, PausedKept DEF StderrEnds, Undecided, asks, clocks, ending
  <1> QED BY <1>1, <1>2, <1>3, <1>4, <1>5, <1>6, <1>7, <1>8, <1>9, <1>10, <1>11, <1>12
  DEF Runtime

LEMMA PausedEnd ==
  TurnTypes /\ Staged /\ AskInv /\ PausedWhileWaiting /\ (Finish \/ ClearLeft \/ Conclude \/ Leave \/ Over)
    => PausedWhileWaiting'
  <1> SUFFICES ASSUME TurnTypes, Staged, AskInv, PausedWhileWaiting, Finish \/ ClearLeft \/ Conclude \/ Leave \/ Over
               PROVE  PausedWhileWaiting'
    OBVIOUS
  <1>1. CASE Finish
    BY <1>1, PausedKept, StopCloses DEF Undecided, asks, Finish, asks, decided, pumps
  <1>2. CASE ClearLeft
    BY <1>2 DEF ClearLeft, PausedWhileWaiting, ending
  <1>3. CASE Conclude
    BY <1>3, PausedKept, StopCloses DEF Undecided, asks, Conclude, asks, decided,
      clocks, pumps
  <1>4. CASE Leave
    BY <1>4, PausedKept, StopCloses DEF Undecided, asks, Leave, asks, decided, clocks,
      pumps
  <1>5. CASE Over
    BY <1>5, PausedKept, StopCloses DEF Undecided, asks, Over, vars, stops, asks,
      decided, clocks, pumps, ending
  <1> QED BY <1>1, <1>2, <1>3, <1>4, <1>5

-----------------------------------------------------------------------------
(* The verdict *)

(* What the end of a turn says is said once, and true. *)
Told ==
  /\ VerdictType /\ Verdict
  /\ verdict.prompt = "not-submitted" => ~delivered
  /\ gen = "returned" => Pending = {}

(* No request is dropped but with a turn that is spoilt. *)
Forgone ==
  \A r \in Requests : /\ request[r] = "dropped" => closing /\ Spoiled
                      /\ request[r] = "orphaned" => Exited

(* A turn that closed was completed or spoilt, and completed in its stage.  *)
Owed ==
  /\ closing => Spoiled \/ completed
  /\ completed => closing /\ pump # "replaying"
SpoilsOn == Owed' /\ (closing /\ Spoiled => Spoiled')

(* The parts of the invariant a step is shown to keep. *)
Parts == /\ TurnTypes /\ Staged /\ AskInv /\ AnswerInv /\ PausedWhileWaiting
         /\ Begun /\ Told /\ Forgone /\ Owed

LEMMA PartsAreAll == Parts <=> ApprovalInv
  <1>1. ASSUME Parts PROVE ApprovalInv
    <2>1. TypeOK
      BY <1>1 DEF Parts, TypeOK, AskInv, AnswerInv, Told
    <2>2. PromptEvidence
      BY <1>1 DEF Parts, PromptEvidence, Staged, Told, TurnTypes
    <2>3. RequestsSettled
      <3>1. pump = "reading" /\ stage = "running" => Buffered = {}
        BY <1>1 DEF Parts, AskInv, Asked
      <3> QED BY <1>1, <3>1 DEF Parts, Told, Forgone, RequestsSettled, Buffered
    <2>4. Spoils
      BY <1>1 DEF Parts, Owed, Forgone, Spoils
    <2> QED BY <1>1, <2>1, <2>2, <2>3, <2>4 DEF Parts, ApprovalInv, AskInv, AnswerInv, Told, RequestsInv
  <1>2. ASSUME ApprovalInv PROVE Parts
    BY <1>2 DEF ApprovalInv, Parts, TypeOK, AskInv, AnswerInv, Told, Forgone, RequestsInv,
       RequestsSettled, PromptEvidence, Spoils, Owed
  <1> QED BY <1>1, <1>2

LEMMA ToldGoes == Told /\ Goes => Told'
  <1> SUFFICES ASSUME Told, Goes PROVE Told'
    OBVIOUS
  <1>1. verdict' = NoVerdict /\ verdict' = verdict /\ gen' # "returned"
    BY DEF Told, Verdict, Goes
  <1>2. verdict'.cause = "none" /\ verdict'.prompt = "none"
    BY <1>1 DEF NoVerdict
  <1>3. VerdictType'
    BY <1>1 DEF Told, VerdictType
  <1>4. Verdict'
    BY <1>1, <1>2 DEF Verdict, CleanIsClean
  <1> QED BY <1>1, <1>2, <1>3, <1>4 DEF Told

LEMMA ToldUnstarted == Begun /\ AskTypes /\ Unstarted => Told'
  <1> SUFFICES ASSUME Begun, AskTypes, Unstarted PROVE Told'
    OBVIOUS
  <1>1. /\ \A r \in Requests : request[r] = "unseen"
        /\ ~delivered /\ delivered' = delivered /\ request' = request /\ gen' = "returned"
    BY DEF Begun, Unstarted, asks
  <1>2. Pending' = {}
    BY <1>1 DEF Pending
  <1>3. \/ verdict' = [cause |-> "killed", failure |-> "none", prompt |-> "none"]
        \/ \E class \in {"rejected", "transport"} :
             verdict' = [cause |-> "failed", failure |-> class, prompt |-> "not-submitted"]
    BY DEF Unstarted
  <1>4. VerdictType' /\ verdict'.cause \in {"killed", "failed"}
    BY <1>3 DEF VerdictType, Failures
  <1>5. Verdict'
    BY <1>1, <1>4 DEF Verdict, CleanIsClean
  <1> QED BY <1>1, <1>2, <1>4, <1>5 DEF Told

LEMMA ToldConclude ==
  ASSUME TurnTypes, Staged, AskInv, Forgone, Owed, Conclude
  PROVE  Told'
  <1>1. /\ Pending = {} /\ request' = request /\ gen' = "returned" /\ failure' = Judged
        /\ verdict' = [cause |-> Cause, failure |-> Judged,
                       prompt |-> IF Judged = "none" THEN "none" ELSE prompt]
        /\ UNCHANGED <<exit, delivered, completed, cancelled, text>>
    BY DEF Conclude, asks
  <1>2. Judged \in Failures
    BY FailuresAre DEF Judged, TurnTypes
  <1>3. Cause \in {"killed", "failed", "clean", "awaiting-input"}
    BY DEF Cause
  <1>4. /\ verdict'.cause = Cause
        /\ verdict'.prompt = IF Judged = "none" THEN "none" ELSE prompt
    BY <1>1
  <1>5. VerdictType'
    BY <1>1, <1>2, <1>3 DEF VerdictType, TurnTypes
  <1>6. Pending' = {}
    BY <1>1 DEF Pending
  <1>7. CleanIsClean'
    <2> SUFFICES ASSUME Cause \in {"clean", "awaiting-input"} PROVE CleanIsClean'
      BY <1>4 DEF CleanIsClean
    <2>1. ~cancelled /\ completed /\ Judged = "none" /\ exit = "zero"
      BY DEF Cause
    <2>2. failure = "none" /\ text # "garbled"
      BY <2>1 DEF Judged
    <2>3. delivered
      BY <2>1 DEF Staged
    <2>4. \A r \in Requests : request[r] \notin {"open", "decided", "dropped"}
      BY <1>1, <2>1, <2>2 DEF Pending, Forgone, Spoiled, Conclude
    <2>5. \A r \in Requests : request[r] # "buffered"
      BY <2>1 DEF AskInv, Asked, Buffered, Owed, Staged
    <2> QED BY <1>1, <2>1, <2>2, <2>3, <2>4, <2>5 DEF CleanIsClean
  <1>8. Verdict'
    BY <1>1, <1>7 DEF Verdict
  <1>9. verdict'.prompt = "not-submitted" => ~delivered'
    BY <1>1, <1>4 DEF Staged, TurnTypes
  <1> QED BY <1>5, <1>6, <1>8, <1>9 DEF Told

LEMMA ForgoneKept ==
  ASSUME Forgone, Owed, Onward, SpoilsOn, closing => closing', Exited => Exited'
  PROVE  Forgone'
  <1>1. Drops => closing' /\ Spoiled'
    BY DEF Drops, Owed, SpoilsOn
  <1> QED BY <1>1 DEF Forgone, Onward, SpoilsOn

(* What stops a turn spoils it; what leaves it alone leaves it as it was. *)
LEMMA StopSpoils ==
  ASSUME TurnTypes, Owed,
         \/ UNCHANGED <<closing, failure>>
         \/ \E c \in {"task", "timeout", "inactivity"} : Stop(c),
         gen = "left" => gen' = "left", UNCHANGED <<completed, cancelled>>,
         pump' = "replaying" => pump = "replaying" \/ ~closing
  PROVE  SpoilsOn
  BY DEF TurnTypes, Owed, SpoilsOn, Spoiled, Stop, stops

LEMMA SpoilsStart == TurnTypes /\ Owed /\ (Unstarted \/ Spawn) => SpoilsOn
  BY StopSpoils DEF Unstarted, Spawn, stops, pumps

LEMMA SpoilsNative == TurnTypes /\ Owed /\ Native => SpoilsOn
  <1> SUFFICES ASSUME TurnTypes, Owed, Native PROVE SpoilsOn
    OBVIOUS
  <1>1. CASE BadReply \/ InitializeReply \/ ResumeReply \/ IdentityShown \/ StartReply
    BY <1>1, StopSpoils DEF BadReply, InitializeReply, ResumeReply, IdentityShown, StartReply,
       ending, pumps, stops, Reading
  <1>2. CASE Replay
    <2>1. UNCHANGED stops \/ Stop("task")
      BY <1>2, StopOrNot DEF Replay
    <2> QED BY <1>2, <2>1, StopSpoils DEF Replay, ending, stops
  <1>3. CASE ReadRequest \/ ReadFileRequest
    <2>1. UNCHANGED stops \/ Stop("task")
      BY <1>3, StopOrNot DEF ReadRequest, ReadFileRequest
    <2> QED BY <1>3, <2>1, StopSpoils DEF ReadRequest, ReadFileRequest, ending, stops, pumps
  <1>4. CASE ReadFileItem \/ ReadFileItemEnded \/ ReadCleared
    BY <1>4, StopSpoils DEF ReadFileItem, ReadFileItemEnded, ReadCleared, ending, stops, pumps
  <1>5. CASE ReadContent \/ ReadOther \/ ClearNext
    BY <1>5, StopSpoils DEF ReadContent, ReadOther, ClearNext, ending, stops, pumps
  <1>6. CASE ReadComplete
    BY <1>6, StopSpoils DEF ReadComplete, stops, Owed, SpoilsOn, Spoiled
  <1> QED BY <1>1, <1>2, <1>3, <1>4, <1>5, <1>6 DEF Native

LEMMA SpoilsCaller == TurnTypes /\ Owed /\ Caller => SpoilsOn
  <1> SUFFICES ASSUME TurnTypes, Owed, Caller PROVE SpoilsOn
    OBVIOUS
  <1>1. CASE DecisionsBreak \/ DecisionsEnd
    BY <1>1, StopSpoils DEF DecisionsBreak, DecisionsEnd, ending, stops
  <1>2. ASSUME NEW d \in Decisions, NEW r \in Requests, NEW c \in ChoiceIds,
               Repeated(d, r, c) \/ Unavailable(d, r, c) \/ Decide(d, r, c)
        PROVE  SpoilsOn
    BY <1>2, StopSpoils DEF Repeated, Unavailable, Decide, ending, stops, pumps
  <1> QED BY <1>1, <1>2 DEF Caller

LEMMA SpoilsRuntime == TurnTypes /\ Owed /\ Runtime => SpoilsOn
  <1> SUFFICES ASSUME TurnTypes, Owed, Runtime PROVE SpoilsOn
    OBVIOUS
  <1>1. CASE Abort \/ \E class \in {"limit", "auth"} : StderrWall(class)
    BY <1>1 DEF Abort, StderrWall, Owed, SpoilsOn, Spoiled, ending, pumps
  <1>2. CASE ProtocolTimeout \/ ExitGrace \/ HardDeadline \/ Stall \/ KillGrace
    BY <1>2, StopSpoils DEF ProtocolTimeout, ExitGrace, HardDeadline, Stall, KillGrace, ending, pumps
  <1>3. CASE StderrCredential \/ InputError \/ StdoutEnds \/ StderrEnds
    BY <1>3, StopSpoils DEF StderrCredential, InputError, StdoutEnds, StderrEnds, ending, pumps, stops
  <1>4. CASE \E how \in {"zero", "nonzero", "signal", "missing"} : Exit(how)
    BY <1>4, StopSpoils DEF Exit, ending, pumps
  <1> QED BY <1>1, <1>2, <1>3, <1>4 DEF Runtime

LEMMA SpoilsEnd ==
  TurnTypes /\ Owed /\ (Finish \/ ClearLeft \/ Conclude \/ Leave) => SpoilsOn
  <1> SUFFICES ASSUME TurnTypes, Owed, Finish \/ ClearLeft \/ Conclude \/ Leave PROVE SpoilsOn
    OBVIOUS
  <1>1. CASE Finish \/ Leave
    BY <1>1 DEF Finish, Leave, Owed, SpoilsOn, Spoiled, pumps
  <1>2. CASE ClearLeft
    BY <1>2, StopSpoils DEF ClearLeft, ending, pumps, stops
  <1>3. CASE Conclude
    BY <1>3 DEF Conclude, Judged, Owed, SpoilsOn, Spoiled, pumps
  <1> QED BY <1>1, <1>2, <1>3

-----------------------------------------------------------------------------
(* The theorems *)

LEMMA PartsInit == Init => Parts
  <1> SUFFICES ASSUME Init PROVE Parts
    OBVIOUS
  <1>1. TypeOK
    BY TypeInit
  <1>2. /\ \A r \in Requests : request[r] = "unseen" /\ responses[r] = 0
        /\ \A d \in Decisions : recorded[d] = NoRecord
        /\ answers = {} /\ buffer = <<>>
    BY DEF Init
  <1>3. Pending = {} /\ Buffered = {}
    BY <1>2 DEF Pending, Buffered
  <1>4. Staged
    BY DEF Init, Staged
  <1>5. Asked
    BY <1>2, <1>3, Emptied DEF Asked
  <1>6. Answered /\ OneAnswer
    BY <1>2 DEF Answered, OneAnswer
  <1>7. PausedWhileWaiting /\ Begun /\ Forgone /\ Owed
    BY <1>2 DEF Init, PausedWhileWaiting, Begun, Forgone, Owed
  <1>8. gen = "starting" /\ verdict = NoVerdict /\ verdict.cause = "none" /\ verdict.prompt = "none"
    BY DEF Init, NoVerdict
  <1>9. Verdict
    BY <1>8 DEF Verdict, CleanIsClean
  <1>10. Told
    BY <1>1, <1>3, <1>8, <1>9 DEF Told, TypeOK
  <1> QED BY <1>1, <1>4, <1>5, <1>6, <1>7, <1>10 DEF Parts, TypeOK, AskInv, AnswerInv

(* What runs between the spawn and the verdict. *)
LEMMA PartsGo ==
  ASSUME Parts, TurnTypes', Staged', AskInv', PausedWhileWaiting', AnswerInv', Goes, Onward, SpoilsOn
  PROVE  Parts'
  <1>1. Begun'
    BY DEF Goes, Begun
  <1>2. Told'
    BY ToldGoes DEF Parts
  <1>3. Forgone'
    BY ForgoneKept DEF Parts, Goes
  <1> QED BY <1>1, <1>2, <1>3 DEF Parts, SpoilsOn

LEMMA PartsStep == Parts /\ [Next]_vars => Parts'
  <1> SUFFICES ASSUME Parts, [Next]_vars PROVE Parts'
    OBVIOUS
  <1>0. TurnTypes /\ Staged /\ AskInv /\ AnswerInv /\ PausedWhileWaiting /\ Begun /\ Told /\ Forgone /\ Owed
    BY DEF Parts
  <1>1. CASE Unstarted
    <2>1. TurnTypes' /\ Staged' /\ AskInv' /\ PausedWhileWaiting' /\ Onward /\ SpoilsOn
      BY <1>0, <1>1, TurnTypesStart, StagedStart, AsksStart, PausedStart, OnwardStart, SpoilsStart
    <2>2. AnswerInv'
      BY <1>0, <1>1, <2>1, AnswersKept DEF Unstarted
    <2>3. Told'
      BY <1>0, <1>1, ToldUnstarted DEF AskInv
    <2>4. Begun'
      BY <1>1 DEF Unstarted, Begun
    <2>5. Forgone'
      BY <1>0, <1>1, <2>1, ForgoneKept DEF Unstarted, Exited
    <2> QED BY <2>1, <2>2, <2>3, <2>4, <2>5 DEF Parts, SpoilsOn
  <1>2. CASE Spawn
    <2>1. TurnTypes' /\ Staged' /\ AskInv' /\ PausedWhileWaiting' /\ Onward /\ SpoilsOn
      BY <1>0, <1>2, TurnTypesStart, StagedStart, AsksStart, PausedStart, OnwardStart, SpoilsStart
    <2>2. AnswerInv'
      BY <1>0, <1>2, <2>1, AnswersKept DEF Spawn
    <2>3. /\ gen' = "open" /\ verdict' = verdict /\ verdict = NoVerdict
          /\ closing' = closing /\ ~Exited
      BY <1>0, <1>2 DEF Spawn, Told, Verdict, Begun, Exited, stops
    <2>4. Told'
      <3>1. verdict'.cause = "none" /\ verdict'.prompt = "none"
        BY <2>3 DEF NoVerdict
      <3>2. VerdictType'
        BY <1>0, <2>3 DEF Told, VerdictType
      <3>3. Verdict'
        BY <2>3, <3>1 DEF Verdict, CleanIsClean
      <3> QED BY <2>3, <3>1, <3>2, <3>3 DEF Told
    <2>5. Begun'
      BY <2>3 DEF Begun
    <2>6. Forgone'
      BY <1>0, <2>1, <2>3, ForgoneKept
    <2> QED BY <2>1, <2>2, <2>4, <2>5, <2>6 DEF Parts, SpoilsOn
  <1>3. CASE Native
    <2>1. TurnTypes' /\ Staged' /\ AskInv' /\ PausedWhileWaiting' /\ Onward /\ SpoilsOn /\ Goes
      BY <1>0, <1>3, TurnTypesNative, StagedNative, AsksNative, PausedNative, OnwardNative, SpoilsNative, GoesNative
    <2>2. UNCHANGED decided
      BY <1>3 DEF Native, BadReply, InitializeReply, ResumeReply, IdentityShown, StartReply, Replay,
         ReadRequest, ReadFileRequest, ReadFileItem, ReadFileItemEnded, ReadCleared, ReadContent,
         ReadOther, ReadComplete, ClearNext
    <2>3. AnswerInv'
      BY <1>0, <2>1, <2>2, AnswersKept
    <2> QED BY <2>1, <2>3, PartsGo
  <1>4. CASE Caller
    <2>1. TurnTypes' /\ Staged' /\ AskInv' /\ PausedWhileWaiting' /\ Onward /\ SpoilsOn /\ Goes
      BY <1>0, <1>4, TurnTypesCaller, StagedCaller, AsksCaller, PausedCaller, OnwardCaller, SpoilsCaller, GoesCaller
    <2>2. CASE DecisionsBreak \/ DecisionsEnd
      <3>1. UNCHANGED decided
        BY <2>2 DEF DecisionsBreak, DecisionsEnd
      <3> QED BY <1>0, <2>1, <3>1, AnswersKept, PartsGo
    <2>3. ASSUME NEW d \in Decisions, NEW r \in Requests, NEW c \in ChoiceIds,
                 Repeated(d, r, c) \/ Unavailable(d, r, c) \/ Decide(d, r, c)
          PROVE  AnswerInv'
      BY <1>0, <2>3, AnswersRepeated, AnswersUnavailable, AnswersDecide
    <2>4. AnswerInv'
      BY <1>0, <1>4, <2>1, <2>2, <2>3, AnswersKept DEF Caller, DecisionsBreak, DecisionsEnd
    <2> QED BY <2>1, <2>4, PartsGo
  <1>5. CASE Runtime
    <2>1. TurnTypes' /\ Staged' /\ AskInv' /\ PausedWhileWaiting' /\ Onward /\ SpoilsOn /\ Goes
      BY <1>0, <1>5, TurnTypesRuntime, StagedRuntime, AsksRuntime, PausedRuntime, OnwardRuntime, SpoilsRuntime,
         GoesRuntime
    <2>2. UNCHANGED decided
      BY <1>5 DEF Runtime, Abort, ProtocolTimeout, ExitGrace, HardDeadline, Stall, KillGrace,
         StderrWall, StderrCredential, InputError, Exit, StdoutEnds, StderrEnds
    <2>3. AnswerInv'
      BY <1>0, <2>1, <2>2, AnswersKept
    <2> QED BY <2>1, <2>3, PartsGo
  <1>6. CASE Finish \/ ClearLeft \/ Leave
    <2>1. TurnTypes' /\ Staged' /\ AskInv' /\ PausedWhileWaiting' /\ Onward /\ SpoilsOn /\ Goes
      BY <1>0, <1>6, TurnTypesEnd, StagedEnd, AsksEnd, PausedEnd, OnwardEnd, SpoilsEnd, GoesEnd
    <2>2. AnswerInv'
      BY <1>0, <1>6, <2>1, AnswersKept DEF Finish, ClearLeft, Leave
    <2> QED BY <2>1, <2>2, PartsGo
  <1>7. CASE Conclude
    <2>1. TurnTypes' /\ Staged' /\ AskInv' /\ PausedWhileWaiting' /\ Onward /\ SpoilsOn
      BY <1>0, <1>7, TurnTypesEnd, StagedEnd, AsksEnd, PausedEnd, OnwardEnd, SpoilsEnd
    <2>2. AnswerInv'
      BY <1>0, <1>7, <2>1, AnswersKept DEF Conclude
    <2>3. Told'
      BY <1>0, <1>7, ToldConclude
    <2>4. Begun'
      BY <1>7 DEF Conclude, Begun
    <2>5. Forgone'
      BY <1>0, <1>7, <2>1, ForgoneKept DEF Conclude, Exited
    <2> QED BY <2>1, <2>2, <2>3, <2>4, <2>5 DEF Parts, SpoilsOn
  <1>8. CASE UNCHANGED vars
    <2>1. UNCHANGED <<gen, stage, exit, closing, completed, cancelled, failure, prompt, delivered>>
          /\ UNCHANGED <<request, offers, buffer, files, recorded, responses, answers>>
          /\ UNCHANGED <<pump, stderr, decider, timer, stall, deadline, kill, credential, text, verdict>>
      BY <1>8 DEF vars, stops, asks, decided, clocks, pumps, ending
    <2>2. TurnTypes'
      BY <1>0, <2>1 DEF TurnTypes
    <2>3. AskInv' /\ Onward /\ SpoilsOn
      BY <1>0, <1>8, <2>1, AsksKept, OnwardKept, StopSpoils DEF vars
    <2>4. AnswerInv'
      BY <1>0, <1>8, <2>3, AnswersKept DEF vars
    <2>5. Staged' /\ Begun'
      BY <1>0, <2>1 DEF Staged, Begun
    <2>6. PausedWhileWaiting'
      <3>1. Undecided' = Undecided
        BY <2>1 DEF Undecided
      <3> QED BY <1>0, <2>1, <3>1, PausedKept
    <2>7. Told'
      <3>1. Pending' = Pending
        BY <2>1 DEF Pending
      <3>2. VerdictType'
        BY <1>0, <2>1 DEF Told, VerdictType
      <3>3. Verdict'
        BY <1>0, <2>1 DEF Told, Verdict, CleanIsClean
      <3> QED BY <1>0, <2>1, <3>1, <3>2, <3>3 DEF Told
    <2>8. Forgone'
      BY <1>0, <2>1, <2>3, ForgoneKept DEF Exited
    <2> QED BY <2>2, <2>3, <2>4, <2>5, <2>6, <2>7, <2>8 DEF Parts, SpoilsOn
  <1> QED BY <1>1, <1>2, <1>3, <1>4, <1>5, <1>6, <1>7, <1>8 DEF Next, Over

(* The inductive invariant of the approval turn: where the protocol is, what *)
(* became of each request, the answers, the clock and the verdict.           *)
THEOREM ApprovalCorrect == Spec => []ApprovalInv
  <1>1. Spec => []Parts
    BY PartsInit, PartsStep, PTL DEF Spec
  <1> QED BY <1>1, PartsAreAll, PTL

(* Every variable keeps its type. *)
THEOREM TypeCorrect == Spec => []TypeOK
  <1>1. ApprovalInv => TypeOK
    BY DEF ApprovalInv
  <1> QED BY <1>1, ApprovalCorrect, PTL

(* A native request is answered at most once, by one decision the caller is *)
(* told was sent, whatever is repeated, conflicts or fails half-way.        *)
THEOREM AnsweredOnce == Spec => []OneAnswer
  <1>1. ApprovalInv => OneAnswer
    BY DEF ApprovalInv
  <1> QED BY <1>1, ApprovalCorrect, PTL

(* What a turn reports of its prompt never understates it. *)
THEOREM EvidenceHolds == Spec => []PromptEvidence
  <1>1. ApprovalInv => PromptEvidence
    BY DEF ApprovalInv
  <1> QED BY <1>1, ApprovalCorrect, PTL

(* No request is forgotten in an open turn, and the stall clock is paused   *)
(* exactly while one waits for a human.                                     *)
THEOREM RequestsHeld == Spec => []RequestsInv
  <1>1. ApprovalInv => RequestsInv
    BY DEF ApprovalInv
  <1> QED BY <1>1, ApprovalCorrect, PTL

(* A clean verdict is that of a prompt that was delivered and answered. *)
THEOREM CleanHolds == Spec => []CleanIsClean
  <1>1. ApprovalInv => CleanIsClean
    BY DEF ApprovalInv, Verdict
  <1> QED BY <1>1, ApprovalCorrect, PTL
=============================================================================
