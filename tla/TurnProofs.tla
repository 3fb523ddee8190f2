----------------------------- MODULE TurnProofs -----------------------------
(* What holds of a one-shot turn for every set of records, every number of  *)
(* them, and whatever clocks, prompt and observer it runs with; and, from   *)
(* there, of a turn and its approval observer for every set of native       *)
(* requests and every patience: the observed turn is still StreamTurn's     *)
(* turn, and what the observer tells it is true.                            *)
EXTENDS MuseTurn, WellFoundedInduction, SequenceTheorems, FiniteSetTheorems, TLAPS

-----------------------------------------------------------------------------
(* The reduction of failures *)

(* Every class has a rank. *)
LEMMA RankTyped == \A c \in Classes : Rank[c] \in 0 .. 4
  BY DEF Rank, Classes

(* A nonempty set of naturals has a least element. *)
LEMMA Least ==
  ASSUME NEW T, T \subseteq Nat, T # {}
  PROVE  \E n \in T : \A k \in T : n <= k
  <1>1. PICK n \in T : \A k \in T : ~ (<<k, n>> \in OpToRel(<, Nat))
    BY NatLessThanWellFounded, WFMin
  <1>2. ASSUME NEW k \in T PROVE n <= k
    <2>1. ~ (<<k, n>> \in OpToRel(<, Nat))
      BY <1>1
    <2>2. k \in Nat /\ n \in Nat
      OBVIOUS
    <2>3. ~ (k < n)
      BY <2>1, <2>2 DEF OpToRel
    <2> QED BY <2>2, <2>3
  <1> QED BY <1>2

(* The failure a turn reports is one of its failures, and none is stronger. *)
LEMMA StrongestWins ==
  ASSUME NEW fs \in Seq(Classes), fs # <<>>
  PROVE  /\ Strongest(fs) \in Range(fs)
         /\ \A c \in Range(fs) : Rank[Strongest(fs)] <= Rank[c]
  <1> DEFINE Ranks == {Rank[fs[i]] : i \in DOMAIN fs}
             Wins(i, j) == \/ Rank[fs[i]] < Rank[fs[j]]
                           \/ Rank[fs[i]] = Rank[fs[j]] /\ i <= j
  <1>1. DOMAIN fs = 1 .. Len(fs) /\ Len(fs) \in Nat /\ 1 \in DOMAIN fs
    OBVIOUS
  <1>2. \A i \in DOMAIN fs : fs[i] \in Classes /\ Rank[fs[i]] \in Nat
    BY <1>1, RankTyped
  <1>3. PICK r \in Ranks : \A k \in Ranks : r <= k
    <2>1. Ranks \subseteq Nat /\ Ranks # {}
      BY <1>1, <1>2
    <2> QED BY ONLY <2>1, Least
  <1>4. PICK i \in DOMAIN fs : Rank[fs[i]] = r /\
          \A j \in DOMAIN fs : Rank[fs[j]] = r => i <= j
    <2> DEFINE Equals == {j \in DOMAIN fs : Rank[fs[j]] = r}
    <2>1. Equals \subseteq Nat /\ Equals # {}
      BY <1>1, <1>3
    <2>2. PICK i \in Equals : \A j \in Equals : i <= j
      BY <2>1, Least
    <2> QED BY <2>2
  <1>5. ASSUME NEW j \in DOMAIN fs PROVE Wins(i, j)
    <2>1. i \in Nat /\ j \in Nat /\ r \in Nat /\ Rank[fs[j]] \in Nat
      BY <1>1, <1>2
    <2>2. Rank[fs[j]] \in Ranks
      OBVIOUS
    <2>3. r <= Rank[fs[j]]
      BY <2>2, <1>3
    <2>4. CASE Rank[fs[j]] = r
      BY <2>4, <1>4
    <2>5. CASE Rank[fs[j]] # r
      BY <2>1, <2>3, <2>5, <1>4
    <2> QED BY <2>4, <2>5
  <1> DEFINE k == CHOOSE x \in DOMAIN fs : \A j \in DOMAIN fs : Wins(x, j)
  <1>6. /\ k \in DOMAIN fs /\ \A j \in DOMAIN fs : Wins(k, j)
        /\ Strongest(fs) = fs[k]
    <2> HIDE DEF Wins
    <2>1. \E x \in DOMAIN fs : \A j \in DOMAIN fs : Wins(x, j)
      BY <1>5
    <2>2. k \in DOMAIN fs /\ \A j \in DOMAIN fs : Wins(k, j)
      BY <2>1
    <2>3. Strongest(fs) = fs[k]
      BY DEF Strongest, Wins
    <2> QED BY <2>2, <2>3
  <1> HIDE DEF k
  <1>7. \A j \in DOMAIN fs : Rank[fs[k]] <= Rank[fs[j]]
    BY <1>6, <1>2, <1>1
  <1>8. Range(fs) = {fs[j] : j \in DOMAIN fs}
    BY DEF Range
  <1> QED BY <1>6, <1>7, <1>8

(* One more failure. *)
LEMMA AppendedClass ==
  ASSUME NEW fs \in Seq(Classes), NEW c \in Classes
  PROVE  /\ Append(fs, c) \in Seq(Classes)
         /\ Append(fs, c) # <<>>
         /\ Range(Append(fs, c)) = Range(fs) \cup {c}
  <1> DEFINE gs == Append(fs, c)
  <1>1. gs \in Seq(Classes) /\ Len(gs) = Len(fs) + 1 /\ Len(fs) \in Nat /\ gs # <<>>
    OBVIOUS
  <1>2. \A i \in 1 .. Len(gs) : gs[i] = IF i <= Len(fs) THEN fs[i] ELSE c
    BY <1>1
  <1>3. DOMAIN gs = 1 .. Len(gs) /\ DOMAIN fs = 1 .. Len(fs)
    BY <1>1
  <1>4. Range(gs) = {gs[i] : i \in 1 .. Len(gs)} /\ Range(fs) = {fs[i] : i \in 1 .. Len(fs)}
    BY <1>3 DEF Range
  <1>5. Range(gs) \subseteq Range(fs) \cup {c}
    BY <1>1, <1>2, <1>4
  <1>6. Range(fs) \cup {c} \subseteq Range(gs)
    <2>1. ASSUME NEW i \in 1 .. Len(fs) PROVE fs[i] \in Range(gs)
      <3>1. i \in 1 .. Len(gs) /\ gs[i] = fs[i]
        BY <1>1, <1>2
      <3> QED BY <3>1, <1>4
    <2>2. c \in Range(gs)
      <3>1. Len(gs) \in 1 .. Len(gs) /\ gs[Len(gs)] = c
        BY <1>1, <1>2
      <3> QED BY <3>1, <1>4
    <2> QED BY <2>1, <2>2, <1>4
  <1> QED BY <1>1, <1>5, <1>6

(* pushFailure's sequence: typed, not empty, and holding the failure. *)
LEMMA AddedClass ==
  ASSUME NEW fs \in Seq(Classes), NEW c \in Classes
  PROVE  /\ Added(fs, c) \in Seq(Classes)
         /\ Added(fs, c) # <<>>
         /\ Range(Added(fs, c)) = Range(fs) \cup {c}
  <1>1. CASE fs # <<>> /\ fs[Len(fs)] = c
    <2>1. Len(fs) \in DOMAIN fs
      BY <1>1
    <2>2. c \in Range(fs)
      BY <1>1, <2>1 DEF Range
    <2> QED BY <1>1, <2>2 DEF Added
  <1>2. CASE ~(fs # <<>> /\ fs[Len(fs)] = c)
    BY <1>2, AppendedClass DEF Added
  <1> QED BY <1>1, <1>2

(* pushFailure: a typed record, and one the consumer agrees with. *)
LEMMA FailKeeps ==
  ASSUME TypeOK, NEW c \in Classes, Fail(c)
  PROVE  /\ failures' \in Seq(Classes) /\ failures' # <<>>
         /\ told' \in SUBSET Classes /\ told \subseteq told' /\ closed' = closed
         /\ ~closed => c \in told'
         /\ ~closed /\ Range(failures) = told => Range(failures') = told'
  <1>1. failures \in Seq(Classes) /\ told \in SUBSET Classes /\ closed \in BOOLEAN
    BY DEF TypeOK
  <1>2. failures' = Added(failures, c) /\ closed' = closed
    BY DEF Fail
  <1>3. failures' \in Seq(Classes) /\ failures' # <<>>
        /\ Range(failures') = Range(failures) \cup {c}
    BY <1>1, <1>2, AddedClass
  <1>4. told' = IF closed THEN told ELSE told \cup {c}
    BY DEF Fail
  <1> QED BY <1>1, <1>2, <1>3, <1>4

(* A failure found after the channel closed: the same. *)
LEMMA YieldKeeps ==
  ASSUME TypeOK, NEW c \in Classes, Yield(c)
  PROVE  /\ failures' \in Seq(Classes) /\ failures' # <<>>
         /\ told' \in SUBSET Classes /\ told \subseteq told' /\ closed' = closed
         /\ c \in told'
         /\ Range(failures) = told => Range(failures') = told'
  <1>1. failures \in Seq(Classes) /\ told \in SUBSET Classes
    BY DEF TypeOK
  <1>2. failures' = Append(failures, c) /\ told' = told \cup {c} /\ closed' = closed
    BY DEF Yield
  <1>3. failures' \in Seq(Classes) /\ failures' # <<>>
        /\ Range(failures') = Range(failures) \cup {c}
    BY <1>1, <1>2, AppendedClass
  <1> QED BY <1>1, <1>2, <1>3

(* The failure done reports is a class, or none. *)
LEMMA ReducedTyped == TypeOK => Reduced \in Classes \cup {"none"}
  <1> SUFFICES ASSUME TypeOK PROVE Reduced \in Classes \cup {"none"}
    OBVIOUS
  <1>1. failures \in Seq(Classes) /\ blocked \in {"no", "task", "transport", "native"}
        /\ aborted \in BOOLEAN
    BY DEF TypeOK
  <1>2. {"task", "transport", "native", "timeout"} \subseteq Classes
    BY DEF Classes
  <1>3. ASSUME failures # <<>> PROVE Strongest(failures) \in Classes
    <2>1. Strongest(failures) \in Range(failures)
      BY <1>1, <1>3, StrongestWins
    <2>2. Range(failures) \subseteq Classes
      BY <1>1 DEF Range
    <2> QED BY <2>1, <2>2
  <1>4. CASE aborted
    BY <1>4 DEF Reduced
  <1>5. CASE ~aborted /\ dog = "deadline"
    BY <1>5, <1>2 DEF Reduced
  <1>6. CASE ~aborted /\ dog # "deadline" /\ blocked # "no"
    BY <1>6, <1>1, <1>2 DEF Reduced
  <1>7. CASE ~aborted /\ dog # "deadline" /\ blocked = "no"
    BY <1>7, <1>3 DEF Reduced
  <1> QED BY <1>4, <1>5, <1>6, <1>7

-----------------------------------------------------------------------------
(* Types *)

LEMMA RecordTyped ==
  ASSUME TypeOK, NEW c \in Classes, Fail(c) \/ Yield(c) \/ UNCHANGED record
  PROVE  failures' \in Seq(Classes) /\ told' \in SUBSET Classes /\ closed' \in BOOLEAN
  <1>1. failures \in Seq(Classes) /\ told \in SUBSET Classes /\ closed \in BOOLEAN
    BY DEF TypeOK
  <1>2. CASE UNCHANGED record
    BY <1>1, <1>2 DEF record
  <1> QED BY <1>1, <1>2, FailKeeps, YieldKeeps

LEMMA StartTyped == TypeOK /\ Start => TypeOK'
  <1> SUFFICES ASSUME TypeOK, Start PROVE TypeOK'
    OBVIOUS
  <1>0. "rejected" \in Classes /\ "transport" \in Classes
    BY DEF Classes
  <1>1. CASE Refuse
    <2>1. failures' \in Seq(Classes) /\ told' \in SUBSET Classes /\ closed' \in BOOLEAN
      BY <1>0, <1>1, RecordTyped DEF Refuse
    <2> QED BY <1>0, <1>1, <2>1 DEF TypeOK, Refuse, clocks, stops, output, Causes
  <1>2. CASE SpawnThrows
    <2>1. failures' \in Seq(Classes) /\ told' \in SUBSET Classes /\ closed' \in BOOLEAN
      BY <1>0, <1>2, RecordTyped DEF SpawnThrows
    <2> QED BY <1>0, <1>2, <2>1 DEF TypeOK, SpawnThrows, clocks, stops, output, Causes
  <1>3. CASE Spawn
    BY <1>3 DEF TypeOK, Spawn, output, record, OpenStages
  <1> QED BY <1>1, <1>2, <1>3 DEF Start

LEMMA StopTyped == TypeOK /\ Stop => TypeOK'
  <1> SUFFICES ASSUME TypeOK, Stop PROVE TypeOK'
    OBVIOUS
  <1>0. {"task", "transport", "native"} \subseteq Classes
    BY DEF Classes
  <1>1. CASE Abort
    BY <1>1 DEF TypeOK, Abort, Escalate, output, record, ending
  <1>2. CASE StallFires
    BY <1>2 DEF TypeOK, StallFires, Escalate, output, record, ending
  <1>3. CASE DeadlineFires
    BY <1>3 DEF TypeOK, DeadlineFires, Escalate, output, record, ending
  <1>4. ASSUME NEW c \in {"task", "transport", "native"}, ApprovalStop(c) PROVE TypeOK'
    <2>1. failures' \in Seq(Classes) /\ told' \in SUBSET Classes /\ closed' \in BOOLEAN
      BY <1>0, <1>4, RecordTyped DEF ApprovalStop
    <2> QED BY <1>4, <2>1 DEF TypeOK, ApprovalStop, Escalate, output, ending
  <1>5. CASE InputFails
    <2>1. failures' \in Seq(Classes) /\ told' \in SUBSET Classes /\ closed' \in BOOLEAN
      BY <1>0, <1>5, RecordTyped DEF InputFails
    <2> QED BY <1>5, <2>1 DEF TypeOK, InputFails, Escalate, stops, ending
  <1>6. CASE KillFires
    BY <1>6 DEF TypeOK, KillFires, stops, output, record, ending
  <1>7. ASSUME NEW how \in {"zero", "nonzero", "signal", "missing"}, Exits(how)
        PROVE  TypeOK'
    BY <1>7 DEF TypeOK, Exits, stops, output, record, ending
  <1>8. CASE GraceFires
    BY <1>8 DEF TypeOK, GraceFires, stops, record, ending
  <1> QED BY <1>1, <1>2, <1>3, <1>4, <1>5, <1>6, <1>7, <1>8 DEF Stop, OwnStop

(* What a record of stdout leaves in the decode state and the failures. *)
LEMMA StdoutRecordTyped ==
  ASSUME TypeOK, NEW r \in StdoutRecords, ReadStdout(r)
  PROVE  /\ decode' \in DecodeState
         /\ failures' \in Seq(Classes) /\ told' \in SUBSET Classes
         /\ closed' \in BOOLEAN /\ unanswered' \in BOOLEAN
  <1>0. r \in [kind : Kinds, class : Classes] /\ "limit" \in Classes /\ unanswered \in BOOLEAN
        /\ decode \in DecodeState
    BY RecordsAssumption DEF Classes, TypeOK
  <1>1. CASE ReadMessage(r)
    <2>1. UNCHANGED record
      BY <1>1 DEF ReadMessage
    <2>2. failures' \in Seq(Classes) /\ told' \in SUBSET Classes /\ closed' \in BOOLEAN
      BY <1>0, <2>1, RecordTyped
    <2> QED BY <1>0, <1>1, <2>2 DEF ReadMessage, DecodeState
  <1>2. CASE ReadDelimiter(r)
    <2>1. UNCHANGED record
      BY <1>2 DEF ReadDelimiter
    <2>2. failures' \in Seq(Classes) /\ told' \in SUBSET Classes /\ closed' \in BOOLEAN
      BY <1>0, <2>1, RecordTyped
    <2> QED BY <1>0, <1>2, <2>2 DEF ReadDelimiter, DecodeState
  <1>3. CASE ReadWall(r)
    <2>2. failures' \in Seq(Classes) /\ told' \in SUBSET Classes /\ closed' \in BOOLEAN
      BY <1>0, <1>3, RecordTyped DEF ReadWall
    <2> QED BY <1>0, <1>3, <2>2 DEF ReadWall, DecodeState
  <1>4. CASE ReadFailure(r)
    <2>1. r.class \in Classes
      BY <1>0
    <2>2. Fail(r.class) \/ UNCHANGED record
      BY <1>4 DEF ReadFailure, FailIf
    <2>3. failures' \in Seq(Classes) /\ told' \in SUBSET Classes /\ closed' \in BOOLEAN
      BY <2>1, <2>2, RecordTyped
    <2>4. aborted \in BOOLEAN
      BY DEF TypeOK
    <2> QED BY <1>0, <1>4, <2>3, <2>4 DEF ReadFailure, Stopping, DecodeState
  <1>5. CASE ReadProvisional(r)
    <2>1. UNCHANGED record
      BY <1>5 DEF ReadProvisional
    <2>2. failures' \in Seq(Classes) /\ told' \in SUBSET Classes /\ closed' \in BOOLEAN
      BY <1>0, <2>1, RecordTyped
    <2> QED BY <1>0, <1>5, <2>2 DEF ReadProvisional, DecodeState
  <1>6. CASE ReadOverflow(r)
    <2>1. UNCHANGED record
      BY <1>6 DEF ReadOverflow
    <2>2. failures' \in Seq(Classes) /\ told' \in SUBSET Classes /\ closed' \in BOOLEAN
      BY <1>0, <2>1, RecordTyped
    <2> QED BY <1>0, <1>6, <2>2 DEF ReadOverflow, DecodeState
  <1>7. CASE ReadIdentity(r)
    <2>1. UNCHANGED record
      BY <1>7 DEF ReadIdentity
    <2>2. failures' \in Seq(Classes) /\ told' \in SUBSET Classes /\ closed' \in BOOLEAN
      BY <1>0, <2>1, RecordTyped
    <2> QED BY <1>0, <1>7, <2>2 DEF ReadIdentity, DecodeState
  <1> QED BY <1>1, <1>2, <1>3, <1>4, <1>5, <1>6, <1>7 DEF ReadStdout

LEMMA StderrLineTyped ==
  ASSUME TypeOK, NEW k \in StderrRecords, ReadStderr(k)
  PROVE  /\ decode' \in DecodeState
         /\ failures' \in Seq(Classes) /\ told' \in SUBSET Classes
         /\ closed' \in BOOLEAN /\ unanswered' \in BOOLEAN
  <1>1. {"limit", "auth", "trust-refused"} \subseteq Classes
    BY DEF Classes
  <1>2. Fail("limit") \/ Fail("auth") \/ Fail("trust-refused") \/ UNCHANGED record
    BY DEF ReadStderr
  <1>3. failures' \in Seq(Classes) /\ told' \in SUBSET Classes /\ closed' \in BOOLEAN
    BY <1>1, <1>2, RecordTyped
  <1>4. decode \in DecodeState /\ unanswered \in BOOLEAN
    BY DEF TypeOK
  <1> DEFINE limit == decode.limit \/ k = "wall"
             credential == decode.credential \/ k = "credential"
             cut == decode.cut \/ k = "overflow"
  <1>5. decode' = [decode EXCEPT !.limit = limit, !.credential = credential, !.cut = cut]
        /\ unanswered' = unanswered
    BY DEF ReadStderr
  <1>6. limit \in BOOLEAN /\ credential \in BOOLEAN /\ cut \in BOOLEAN
    BY <1>4 DEF DecodeState
  <1> HIDE DEF limit, credential, cut
  <1>7. decode' \in DecodeState
    BY ONLY <1>4, <1>5, <1>6 DEF DecodeState
  <1> QED BY <1>3, <1>4, <1>5, <1>7

(* What the end of a stream leaves there. *)
LEMMA SettleTyped ==
  ASSUME TypeOK, SettleStdout \/ SettleStderr
  PROVE  /\ decode' \in DecodeState
         /\ failures' \in Seq(Classes) /\ told' \in SUBSET Classes
         /\ closed' \in BOOLEAN
  <1>0. /\ decode \in DecodeState /\ failures \in Seq(Classes) /\ told \in SUBSET Classes
        /\ closed \in BOOLEAN /\ aborted \in BOOLEAN /\ "transport" \in Classes
    BY DEF TypeOK, Classes
  <1>1. CASE SettleStdout
    <2>1. decode' \in DecodeState
      BY <1>0, <1>1 DEF SettleStdout, DecodeState, Stopping
    <2>2. CASE Stopping
      BY <1>0, <1>1, <2>1, <2>2 DEF SettleStdout, record
    <2>3. CASE ~Stopping
      <3> DEFINE lost == \/ "pending" \in decode.lost
                         \/ "superseded" \in decode.lost /\ ~decode.delimited
                 first == IF lost THEN Added(failures, "transport") ELSE failures
      <3>1. first \in Seq(Classes)
        BY <1>0, AddedClass
      <3>2. decode.claim \in Classes \cup {"none"}
        BY <1>0 DEF DecodeState
      <3>3. /\ failures' = IF {decode.claim} \ {"none"} = {} THEN first
                           ELSE Added(first, decode.claim)
            /\ told' = IF closed THEN told
                       ELSE told \cup (IF lost THEN {"transport"} ELSE {})
                                 \cup ({decode.claim} \ {"none"})
            /\ closed' = closed
        BY <1>1, <2>3 DEF SettleStdout
      <3>4. failures' \in Seq(Classes)
        BY <3>1, <3>2, <3>3, AddedClass
      <3>5. told' \in SUBSET Classes
        BY <1>0, <3>2, <3>3
      <3> QED BY <1>0, <2>1, <3>3, <3>4, <3>5
    <2> QED BY <2>2, <2>3
  <1>2. CASE SettleStderr
    <2>1. Fail("transport") \/ UNCHANGED record
      BY <1>2 DEF SettleStderr, FailIf
    <2>2. failures' \in Seq(Classes) /\ told' \in SUBSET Classes /\ closed' \in BOOLEAN
      BY <1>0, <2>1, RecordTyped
    <2>3. decode' \in DecodeState
      BY <1>0, <1>2 DEF SettleStderr, DecodeState
    <2> QED BY <2>2, <2>3
  <1> QED BY <1>1, <1>2

LEMMA PumpsTyped == TypeOK /\ Pumps => TypeOK'
  <1> SUFFICES ASSUME TypeOK, Pumps PROVE TypeOK'
    OBVIOUS
  <1>1. ASSUME NEW r \in StdoutRecords, ReadStdout(r) PROVE TypeOK'
    <2>1. Reading("stdout")
      BY <1>1 DEF ReadStdout
    <2>2. /\ decode' \in DecodeState
          /\ failures' \in Seq(Classes) /\ told' \in SUBSET Classes
          /\ closed' \in BOOLEAN /\ unanswered' \in BOOLEAN
      BY <1>1, StdoutRecordTyped
    <2> QED BY <2>1, <2>2 DEF TypeOK, Reading, Rearmed, stops, ending
  <1>2. ASSUME NEW k \in StderrRecords, ReadStderr(k) PROVE TypeOK'
    <2>1. Reading("stderr")
      BY <1>2 DEF ReadStderr
    <2>2. /\ decode' \in DecodeState
          /\ failures' \in Seq(Classes) /\ told' \in SUBSET Classes
          /\ closed' \in BOOLEAN /\ unanswered' \in BOOLEAN
      BY <1>2, StderrLineTyped
    <2> QED BY <2>1, <2>2 DEF TypeOK, Reading, Rearmed, stops, ending
  <1>3. ASSUME NEW s \in Streams, PumpEnds(s) PROVE TypeOK'
    <2>1. /\ decode' \in DecodeState
          /\ failures' \in Seq(Classes) /\ told' \in SUBSET Classes
          /\ closed' \in BOOLEAN
      <3>1. CASE UNCHANGED <<decode, record>>
        BY <3>1 DEF TypeOK, record
      <3>2. CASE SettleStdout \/ SettleStderr
        BY <3>2, SettleTyped
      <3> QED BY <1>3, <3>1, <3>2 DEF PumpEnds
    <2>2. pump' \in [Streams -> {"reading", "failed", "settled"}]
      BY <1>3 DEF TypeOK, PumpEnds
    <2> QED BY <1>3, <2>1, <2>2 DEF TypeOK, PumpEnds, clocks, stops, ending
  <1>4. ASSUME NEW s \in Streams, PumpBreaks(s) PROVE TypeOK'
    <2>1. "transport" \in Classes
      BY DEF Classes
    <2>2. failures' \in Seq(Classes) /\ told' \in SUBSET Classes /\ closed' \in BOOLEAN
      BY <1>4, <2>1, RecordTyped DEF PumpBreaks
    <2>3. pump' \in [Streams -> {"reading", "failed", "settled"}]
      BY <1>4 DEF TypeOK, PumpBreaks
    <2> QED BY <1>4, <2>2, <2>3 DEF TypeOK, PumpBreaks, Escalate, stops, ending
  <1>5. ASSUME NEW s \in Streams, PumpRecovers(s) PROVE TypeOK'
    <2>1. pump' \in [Streams -> {"reading", "failed", "settled"}]
      BY <1>5 DEF TypeOK, PumpRecovers
    <2> QED BY <1>5, <2>1 DEF TypeOK, PumpRecovers, clocks, stops, record, ending
  <1> QED BY <1>1, <1>2, <1>3, <1>4, <1>5 DEF Pumps

(* The cause a turn ends with is one of the causes. *)
LEMMA CauseTyped == Cause \in Causes
  <1>1. RawCause \in Causes
    BY DEF RawCause, Causes
  <1> QED BY <1>1 DEF Cause, Causes

LEMMA FinishTyped == TypeOK /\ Finish => TypeOK'
  <1> SUFFICES ASSUME TypeOK, Finish PROVE TypeOK'
    OBVIOUS
  <1>0. {"task", "auth", "transport", "timeout", "unavailable", "trust-refused",
         "native"} \subseteq Classes
    BY DEF Classes
  <1>1. CASE Close
    <2>1. failures \in Seq(Classes) /\ told \in SUBSET Classes
      BY DEF TypeOK
    <2>2. failures' \in Seq(Classes)
      BY <1>0, <1>1, <2>1, AddedClass DEF Close
    <2>3. told' \in SUBSET Classes
      BY <1>0, <1>1, <2>1 DEF Close
    <2> QED BY <1>1, <2>2, <2>3 DEF TypeOK, Close, clocks, stops, output, ending
  <1>2. CASE Startup
    <2>1. Yield("transport") \/ UNCHANGED record
      BY <1>2 DEF Startup, YieldIf
    <2>2. failures' \in Seq(Classes) /\ told' \in SUBSET Classes /\ closed' \in BOOLEAN
      BY <1>0, <2>1, RecordTyped
    <2> QED BY <1>2, <2>2
            DEF TypeOK, Startup, After, clocks, stops, output, OpenStages
  <1>3. CASE Credential
    <2>1. Yield("auth") \/ UNCHANGED record
      BY <1>3 DEF Credential, YieldIf
    <2>2. failures' \in Seq(Classes) /\ told' \in SUBSET Classes /\ closed' \in BOOLEAN
      BY <1>0, <2>1, RecordTyped
    <2> QED BY <1>3, <2>2
            DEF TypeOK, Credential, After, clocks, stops, output, OpenStages
  <1>4. CASE Fallback
    <2>1. (\E c \in Classes : Yield(c)) \/ UNCHANGED record
      BY <1>0, <1>4 DEF Fallback
    <2>2. failures' \in Seq(Classes) /\ told' \in SUBSET Classes /\ closed' \in BOOLEAN
      BY <1>0, <2>1, RecordTyped
    <2>3. completion' \in {"none", "native-terminal", "message-delivered"}
      BY <1>4 DEF Fallback
    <2> QED BY <1>4, <2>2, <2>3
            DEF TypeOK, Fallback, After, clocks, stops, output, OpenStages
  <1>5. CASE StopFailure
    <2>1. Yield("timeout") \/ Yield("transport") \/ UNCHANGED record
      BY <1>5 DEF StopFailure, YieldIf
    <2>2. failures' \in Seq(Classes) /\ told' \in SUBSET Classes /\ closed' \in BOOLEAN
      BY <1>0, <2>1, RecordTyped
    <2> QED BY <1>5, <2>2
            DEF TypeOK, StopFailure, After, clocks, stops, output, OpenStages
  <1>6. CASE Judge
    <2>1. verdict' \in [cause : Causes, failure : Classes \cup {"none"}]
      BY <1>6, CauseTyped, ReducedTyped DEF Judge
    <2> QED BY <1>6, <2>1
            DEF TypeOK, Judge, clocks, stops, output, record, OpenStages
  <1>7. CASE Deliver
    BY <1>7 DEF TypeOK, Deliver, stops, output, record
  <1>8. CASE Leave
    BY <1>8 DEF TypeOK, Leave, Escalate, stops, NoVerdict, Causes
  <1>9. CASE Return
    BY <1>9 DEF TypeOK, Return, stops, output, record
  <1> QED BY <1>1, <1>2, <1>3, <1>4, <1>5, <1>6, <1>7, <1>8, <1>9 DEF Finish, Verdict

LEMMA TypeInit == Init => TypeOK
  <1> SUFFICES ASSUME Init PROVE TypeOK
    OBVIOUS
  <1>1. failures \in Seq(Classes) /\ told \in SUBSET Classes
    BY DEF Init
  <1>2. pump \in [Streams -> {"reading", "failed", "settled"}]
    BY DEF Init
  <1>3. verdict \in [cause : Causes, failure : Classes \cup {"none"}]
    BY DEF Init, NoVerdict, Causes
  <1>4. decode \in DecodeState
    BY DEF Init, FreshDecode, DecodeState
  <1> QED BY <1>1, <1>2, <1>3, <1>4 DEF Init, TypeOK

LEMMA TypeStep == TypeOK /\ [Next]_vars => TypeOK'
  <1> SUFFICES ASSUME TypeOK, [Next]_vars PROVE TypeOK'
    OBVIOUS
  <1>1. CASE UNCHANGED vars
    BY <1>1 DEF TypeOK, vars, clocks, stops, output, record, ending
  <1> QED BY <1>1, StartTyped, PumpsTyped, StopTyped, FinishTyped DEF Next

(* Everything a turn keeps has its type, whatever it reads. *)
THEOREM TurnTyped == Spec => []TypeOK
  BY TypeInit, TypeStep, PTL DEF Spec

-----------------------------------------------------------------------------
(* The invariant that keeps a verdict honest *)

(* Before the spawn nothing has happened; a turn refused there has returned
   with the failure it showed. *)
NotBegun ==
  /\ stage = "starting" => exit = "none"
  /\ exit = "none" =>
       /\ ~aborted /\ dog = "none" /\ blocked = "no" /\ ~closed
       /\ stall = "off" /\ deadline = "off" /\ grace = "off"
       /\ ~inputFailed /\ ~unanswered /\ stage \in {"starting", "returned"}
       /\ stage = "starting" => failures = <<>> /\ told = {}
       /\ stage = "returned" =>
            /\ verdict.cause = "failed" /\ verdict.failure \in Classes
            /\ failures = <<verdict.failure>> /\ told = {verdict.failure}

(* The channel closes, and the generator goes on, over a finished process. *)
AfterDrain ==
  /\ closed /\ stage # "left" => Drained
  /\ stage \in OpenStages \ {"streaming"} => closed
  /\ stage = "returned" /\ exit # "none" => Drained

(* No clock runs that could stop a turn twice. *)
Clocks ==
  /\ Gone => stall = "off" /\ deadline = "off"
  /\ blocked # "no" => stall = "off" /\ deadline = "off"
  /\ dog = "deadline" => stall = "off" /\ deadline = "off"
  /\ dog = "inactivity" => deadline = "off"

(* The turn still has, or has delivered, a verdict; it was given up when the
   consumer left. *)
Live == stage \in OpenStages \/ (Delivered /\ exit # "none")
Judging == stage \in {"verdict", "judged"} \/ (Delivered /\ exit # "none")
Judged == stage = "judged" \/ (Delivered /\ exit # "none")

(* What the runner records is what it tells. *)
Recorded ==
  /\ Live => Range(failures) = told
  /\ stage = "left" => verdict = NoVerdict
  /\ blocked # "no" => blocked \in told
  /\ Judging /\ dog = "deadline" /\ ~aborted => "timeout" \in told
  /\ Judging /\ dog = "inactivity" /\ ~aborted => failures # <<>>

(* What went wrong and was not taken back is recorded, or will be when the
   stream ends, unless a stop owns the turn. *)
Accounted ==
  /\ inputFailed \/ pump["stdout"] = "failed" => failures # <<>>
  /\ Live /\ unanswered =>
       \/ failures # <<>> \/ Stopping
       \/ pump["stdout"] # "settled"
            /\ (decode.claim # "none" \/ "pending" \in decode.lost)

(* The verdict is the one the final state gives. *)
Settled == Judged => verdict = [cause |-> Cause, failure |-> Reduced]

TurnInv == TypeOK /\ NotBegun /\ AfterDrain /\ Clocks /\ Recorded /\ Accounted /\ Settled

LEMMA BegunStep == TypeOK /\ NotBegun /\ [Next]_vars => NotBegun'
  <1> SUFFICES ASSUME TypeOK, NotBegun, [Next]_vars PROVE NotBegun'
    OBVIOUS
  <1>1. CASE UNCHANGED vars
    BY <1>1 DEF NotBegun, vars, clocks, stops, output, record, ending
  <1>2. CASE Start
    <2>1. CASE Refuse
      BY <2>1 DEF NotBegun, Refuse, Yield, clocks, stops, output, Classes
    <2>2. CASE SpawnThrows
      BY <2>2 DEF NotBegun, SpawnThrows, Yield, clocks, stops, output, Classes
    <2>3. CASE Spawn
      BY <2>3 DEF NotBegun, Spawn
    <2> QED BY <1>2, <2>1, <2>2, <2>3 DEF Start
  <1>3. CASE Pumps
    <2>1. exit # "none" /\ UNCHANGED <<exit, stage>>
      BY <1>3 DEF Pumps, ReadStdout, ReadStderr, Reading, PumpEnds, PumpBreaks,
                  PumpRecovers, Gone, ending
    <2> QED BY <2>1 DEF NotBegun
  <1>4. CASE Stop
    <2>1. CASE Abort
      BY <2>1 DEF NotBegun, Abort, OpenStages, ending
    <2>2. CASE StallFires
      BY <2>2 DEF NotBegun, StallFires, ending
    <2>3. CASE DeadlineFires
      BY <2>3 DEF NotBegun, DeadlineFires, ending
    <2>4. CASE \E c \in {"task", "transport", "native"} : ApprovalStop(c)
      BY <2>4 DEF NotBegun, ApprovalStop, ending
    <2>5. CASE InputFails
      BY <2>5 DEF NotBegun, InputFails, ending
    <2>6. CASE KillFires
      BY <2>6 DEF NotBegun, KillFires, ending
    <2>7. CASE \E how \in {"zero", "nonzero", "signal", "missing"} : Exits(how)
      BY <2>7 DEF NotBegun, Exits, ending
    <2>8. CASE GraceFires
      BY <2>8 DEF NotBegun, GraceFires, ending
    <2> QED BY <1>4, <2>1, <2>2, <2>3, <2>4, <2>5, <2>6, <2>7, <2>8 DEF Stop, OwnStop
  <1>5. CASE Finish
    <2>1. exit # "none"
      BY <1>5 DEF NotBegun, Finish, Verdict, Close, Startup, Credential, Fallback, StopFailure,
                  Judge, Deliver, Leave, Return, After, Drained, Gone, OpenStages
    <2>2. exit' = exit /\ stage' # "starting"
      BY <1>5 DEF Finish, Verdict, Close, Startup, Credential, Fallback, StopFailure,
                  Judge, Deliver, Leave, Return, After, ending
    <2> QED BY <2>1, <2>2 DEF NotBegun
  <1> QED BY <1>1, <1>2, <1>3, <1>4, <1>5 DEF Next

(* A process that ended stays ended, and so do its streams. *)
LEMMA GoneStays ==
  ASSUME NotBegun, [Next]_vars
  PROVE  /\ Gone => exit' = exit
         /\ Drained => Drained'
  <1>1. CASE UNCHANGED vars
    BY <1>1 DEF Gone, Drained, vars, output
  <1>2. CASE Start
    BY <1>2 DEF NotBegun, Start, Refuse, SpawnThrows, Spawn, Gone, Drained
  <1>3. CASE Pumps
    <2>1. exit' = exit
      BY <1>3 DEF Pumps, ReadStdout, ReadStderr, Reading, PumpEnds, PumpBreaks, PumpRecovers
    <2>2. ASSUME Drained PROVE FALSE \/ pump' = pump
      <3>1. CASE \/ \E r \in StdoutRecords : ReadStdout(r)
                 \/ \E k \in StderrRecords : ReadStderr(k)
        BY <3>1 DEF ReadStdout, ReadStderr, Reading
      <3>2. CASE \E s \in Streams : PumpEnds(s) \/ PumpBreaks(s) \/ PumpRecovers(s)
        BY <2>2, <3>2 DEF PumpEnds, PumpBreaks, PumpRecovers, Drained
      <3> QED BY <1>3, <3>1, <3>2 DEF Pumps
    <2> QED BY <2>1, <2>2 DEF Gone, Drained
  <1>4. CASE Stop
    <2>1. pump' = pump
      BY <1>4 DEF Stop, OwnStop, Abort, StallFires, DeadlineFires, ApprovalStop, InputFails,
                  KillFires, Exits, GraceFires, output
    <2>2. Gone => exit' = exit
      BY <1>4 DEF Stop, OwnStop, Abort, StallFires, DeadlineFires, ApprovalStop, InputFails,
                  KillFires, Exits, GraceFires, Gone
    <2> QED BY <2>1, <2>2 DEF Gone, Drained
  <1>5. CASE Finish
    <2>1. exit' = exit /\ pump' = pump
      BY <1>5 DEF Finish, Verdict, Close, Startup, Credential, Fallback, StopFailure,
                  Judge, Deliver, Leave, Return, After, output
    <2> QED BY <2>1 DEF Gone, Drained
  <1> QED BY <1>1, <1>2, <1>3, <1>4, <1>5 DEF Next

(* Only the end of the output closes the channel, or a consumer that leaves. *)
LEMMA DrainStep == NotBegun /\ AfterDrain /\ [Next]_vars => AfterDrain'
  <1> SUFFICES ASSUME NotBegun, AfterDrain, [Next]_vars PROVE AfterDrain'
    OBVIOUS
  <1>0. Drained => Drained'
    BY GoneStays
  <1>1. CASE UNCHANGED vars
    BY <1>0, <1>1 DEF AfterDrain, vars, record, ending
  <1>2. CASE Start
    BY <1>2, <1>0
       DEF NotBegun, AfterDrain, Start, Refuse, SpawnThrows, Spawn, Yield, record, OpenStages
  <1>3. CASE Pumps
    <2>1. UNCHANGED <<closed, stage, exit>>
      BY <1>3 DEF Pumps, ReadStdout, ReadMessage, ReadDelimiter, ReadWall, ReadFailure,
                  ReadProvisional, ReadOverflow, ReadIdentity, ReadStderr, Reading, PumpEnds,
                  SettleStdout, SettleStderr, PumpBreaks, PumpRecovers, Fail, FailIf,
                  record, ending
    <2> QED BY <1>0, <2>1 DEF AfterDrain
  <1>4. CASE Stop
    <2>1. UNCHANGED <<closed, stage>>
      BY <1>4 DEF Stop, OwnStop, Abort, StallFires, DeadlineFires, ApprovalStop, InputFails,
                  KillFires, Exits, GraceFires, Fail, record, ending
    <2>2. exit # "none" => exit' # "none"
      BY <1>4 DEF Stop, OwnStop, Abort, StallFires, DeadlineFires, ApprovalStop, InputFails,
                  KillFires, Exits, GraceFires
    <2>3. exit = "none" => exit' = "none"
      BY <1>4 DEF Stop, OwnStop, Abort, StallFires, DeadlineFires, ApprovalStop, InputFails,
                  KillFires, Exits, GraceFires
    <2> QED BY <1>0, <2>1, <2>2, <2>3 DEF AfterDrain
  <1>5. CASE Finish
    <2>1. CASE Close
      BY <1>0, <2>1 DEF AfterDrain, Close, ending, OpenStages
    <2>2. CASE Startup \/ Credential \/ Fallback \/ StopFailure
      <3>1. closed' = closed
        BY <2>2 DEF Startup, Credential, Fallback, StopFailure, YieldIf, Yield, record
      <3>2. closed
        BY <2>2 DEF Startup, Credential, Fallback, StopFailure, After, AfterDrain, OpenStages
      <3>3. stage # "left" /\ stage' \in OpenStages
        BY <2>2 DEF Startup, Credential, Fallback, StopFailure, After, OpenStages
      <3> QED BY <1>0, <3>1, <3>2, <3>3 DEF AfterDrain, OpenStages
    <2>3. CASE Judge
      BY <1>0, <2>3 DEF AfterDrain, Judge, record, OpenStages
    <2>4. CASE Deliver
      BY <1>0, <2>4 DEF AfterDrain, Deliver, record, OpenStages
    <2>5. CASE Leave
      BY <2>5 DEF AfterDrain, Leave, OpenStages
    <2>6. CASE Return
      BY <1>0, <2>6 DEF AfterDrain, Return, OpenStages
    <2> QED BY <1>5, <2>1, <2>2, <2>3, <2>4, <2>5, <2>6 DEF Finish, Verdict
  <1> QED BY <1>1, <1>2, <1>3, <1>4, <1>5 DEF Next

(* A clock that fired, a stop that came and the end of the process leave no
   clock running. *)
LEMMA ClocksStep == NotBegun /\ Clocks /\ [Next]_vars => Clocks'
  <1> SUFFICES ASSUME NotBegun, Clocks, [Next]_vars PROVE Clocks'
    OBVIOUS
  <1>1. CASE UNCHANGED vars
    BY <1>1 DEF Clocks, Gone, vars, clocks, stops
  <1>2. CASE Start
    BY <1>2 DEF NotBegun, Clocks, Start, Refuse, SpawnThrows, Spawn, Gone, clocks, stops
  <1>3. CASE Pumps
    <2>1. UNCHANGED <<exit, dog, blocked, deadline>>
      BY <1>3 DEF Pumps, ReadStdout, ReadStderr, Reading, PumpEnds, PumpBreaks,
                  PumpRecovers, clocks, stops
    <2>2. stall = "off" => stall' = "off"
      BY <1>3 DEF Pumps, ReadStdout, ReadStderr, Reading, Rearmed, PumpEnds, PumpBreaks,
                  PumpRecovers, clocks
    <2> QED BY <2>1, <2>2 DEF Clocks, Gone
  <1>4. CASE Stop
    BY <1>4 DEF Clocks, Stop, OwnStop, Abort, StallFires, DeadlineFires, ApprovalStop, InputFails,
                KillFires, Exits, GraceFires, Gone, stops
  <1>5. CASE Finish
    <2>1. UNCHANGED <<exit, dog, blocked>>
      BY <1>5 DEF Finish, Verdict, Close, Startup, Credential, Fallback, StopFailure,
                  Judge, Deliver, Leave, Return, After, stops
    <2>2. (stall = "off" => stall' = "off") /\ (deadline = "off" => deadline' = "off")
      BY <1>5 DEF Finish, Verdict, Close, Startup, Credential, Fallback, StopFailure,
                  Judge, Deliver, Leave, Return, After, clocks
    <2> QED BY <2>1, <2>2 DEF Clocks, Gone
  <1> QED BY <1>1, <1>2, <1>3, <1>4, <1>5 DEF Next

(* One step never gives a turn a second reason to stop. *)
LEMMA OneReason ==
  ASSUME TypeOK, NotBegun, Clocks, [Next]_vars
  PROVE  /\ dog # "none" => dog' = dog /\ blocked' = blocked
         /\ blocked # "no" => blocked' = blocked /\ dog' = dog
         /\ Gone => <<dog, blocked, kill>>' = <<dog, blocked, kill>>
  <1>1. CASE UNCHANGED vars
    BY <1>1 DEF vars, clocks, stops
  <1>2. CASE Start
    BY <1>2 DEF NotBegun, Start, Refuse, SpawnThrows, Spawn, Gone, clocks, stops
  <1>3. CASE Pumps
    BY <1>3 DEF Pumps, ReadStdout, ReadStderr, Reading, PumpEnds, PumpBreaks,
                PumpRecovers, Escalate, Gone, clocks, stops
  <1>4. CASE Stop
    <2>1. CASE Abort \/ InputFails \/ KillFires
      BY <2>1 DEF Abort, InputFails, KillFires, Escalate, Gone, stops
    <2>2. CASE StallFires \/ DeadlineFires
      BY <2>2 DEF TypeOK, Clocks, StallFires, DeadlineFires, Gone
    <2>3. CASE \E c \in {"task", "transport", "native"} : ApprovalStop(c)
      BY <2>3 DEF ApprovalStop, Gone
    <2>4. CASE \E how \in {"zero", "nonzero", "signal", "missing"} : Exits(how)
      BY <2>4 DEF Exits, Gone, stops
    <2>5. CASE GraceFires
      BY <2>5 DEF GraceFires, stops
    <2> QED BY <1>4, <2>1, <2>2, <2>3, <2>4, <2>5 DEF Stop, OwnStop
  <1>5. CASE Finish
    BY <1>5 DEF Finish, Verdict, Close, Startup, Credential, Fallback, StopFailure,
                Judge, Deliver, Leave, Return, After, Escalate, Gone, clocks, stops
  <1> QED BY <1>1, <1>2, <1>3, <1>4, <1>5 DEF Next

(* What a step does to the record of failures: nothing, or what Fail does. *)
LEMMA RecordKeeps ==
  ASSUME TypeOK, NEW c \in Classes, Fail(c) \/ UNCHANGED record
  PROVE  /\ told \subseteq told'
         /\ failures # <<>> => failures' # <<>>
         /\ ~closed /\ Range(failures) = told => Range(failures') = told'
  <1>1. CASE UNCHANGED record
    BY <1>1 DEF record
  <1> QED BY <1>1, FailKeeps

LEMMA YieldedKeeps ==
  ASSUME TypeOK, NEW c \in Classes, Yield(c) \/ UNCHANGED record
  PROVE  /\ told \subseteq told'
         /\ failures # <<>> => failures' # <<>>
         /\ Range(failures) = told => Range(failures') = told'
  <1>1. CASE UNCHANGED record
    BY <1>1 DEF record
  <1> QED BY <1>1, YieldKeeps

(* The same of the end of stdout; and what no message took back is recorded,
   unless a known cause stops the turn. *)
LEMMA SettleKeeps ==
  ASSUME TypeOK, SettleStdout
  PROVE  /\ told \subseteq told'
         /\ failures # <<>> => failures' # <<>>
         /\ ~closed /\ Range(failures) = told => Range(failures') = told'
         /\ ~Stopping /\ (decode.claim # "none" \/ "pending" \in decode.lost)
              => failures' # <<>>
  <1>0. /\ decode \in DecodeState /\ failures \in Seq(Classes) /\ told \in SUBSET Classes
        /\ closed \in BOOLEAN /\ aborted \in BOOLEAN /\ "transport" \in Classes
    BY DEF TypeOK, Classes
  <1>1. CASE Stopping
    BY <1>1 DEF SettleStdout, record
  <1>2. CASE ~Stopping
    <2> DEFINE lost == \/ "pending" \in decode.lost
                       \/ "superseded" \in decode.lost /\ ~decode.delimited
               first == IF lost THEN Added(failures, "transport") ELSE failures
               lostClass == IF lost THEN {"transport"} ELSE {}
    <2>1. /\ first \in Seq(Classes) /\ Range(first) = Range(failures) \cup lostClass
          /\ lost \/ failures # <<>> => first # <<>>
      BY <1>0, AddedClass
    <2>2. decode.claim \in Classes \cup {"none"} /\ "none" \notin Classes
      BY <1>0 DEF DecodeState, Classes
    <2>3. /\ failures' = IF {decode.claim} \ {"none"} = {} THEN first
                         ELSE Added(first, decode.claim)
          /\ told' = IF closed THEN told
                     ELSE told \cup lostClass \cup ({decode.claim} \ {"none"})
      BY <1>2 DEF SettleStdout
    <2> HIDE DEF first, lostClass
    <2>4. CASE decode.claim = "none"
      BY <2>1, <2>3, <2>4
    <2>5. CASE decode.claim # "none"
      <3>1. /\ failures' = Added(first, decode.claim) /\ decode.claim \in Classes
        BY <2>2, <2>3, <2>5
      <3>2. failures' # <<>> /\ Range(failures') = Range(first) \cup {decode.claim}
        BY <2>1, <3>1, AddedClass
      <3>3. {decode.claim} \ {"none"} = {decode.claim}
        BY <2>5
      <3> QED BY <2>1, <2>3, <3>2, <3>3
    <2> QED BY <2>4, <2>5
  <1> QED BY <1>1, <1>2

(* While a stream is read or the process runs, the channel is open. *)
LEMMA StillOpen ==
  ASSUME TypeOK, AfterDrain, stage # "left",
         exit = "running" \/ \E s \in Streams : pump[s] = "reading"
  PROVE  ~closed
  BY DEF AfterDrain, Drained, Gone

(* Every step of a turn still going keeps the record and the consumer's
   picture of it alike. *)
LEMMA RecordGrows ==
  ASSUME TypeOK, NotBegun, AfterDrain, [Next]_vars
  PROVE  /\ told \subseteq told'
         /\ failures # <<>> => failures' # <<>>
         /\ stage # "left" /\ stage' # "left" /\ Range(failures) = told
              => Range(failures') = told'
  <1>0. {"task", "auth", "transport", "timeout", "unavailable", "trust-refused", "limit",
         "native", "rejected"} \subseteq Classes
    BY DEF Classes
  <1>1. CASE UNCHANGED vars
    BY <1>1 DEF vars, record
  <1>2. CASE Start
    <2>1. Yield("rejected") \/ Yield("transport") \/ UNCHANGED record
      BY <1>2 DEF Start, Refuse, SpawnThrows, Spawn
    <2> QED BY <1>0, <2>1, YieldedKeeps
  <1>3. CASE Pumps
    <2>1. ASSUME NEW r \in StdoutRecords, ReadStdout(r)
          PROVE  Fail("limit") \/ Fail(r.class) \/ UNCHANGED record
      BY <2>1 DEF ReadStdout, ReadMessage, ReadDelimiter, ReadWall, ReadFailure, FailIf,
                  ReadProvisional, ReadOverflow, ReadIdentity
    <2>2. CASE \E r \in StdoutRecords : ReadStdout(r)
      <3>1. PICK r \in StdoutRecords : ReadStdout(r)
        BY <2>2
      <3>2. r.class \in Classes /\ ~closed
        BY <3>1, StillOpen, RecordsAssumption DEF ReadStdout, Reading, Cancelled, Streams
      <3> QED BY <1>0, <2>1, <3>1, <3>2, RecordKeeps
    <2>3. CASE \E k \in StderrRecords : ReadStderr(k)
      <3>1. Fail("limit") \/ Fail("auth") \/ Fail("trust-refused") \/ UNCHANGED record
        BY <2>3 DEF ReadStderr
      <3>2. ~closed
        BY <2>3, StillOpen DEF ReadStderr, Reading, Cancelled, Streams
      <3> QED BY <1>0, <3>1, <3>2, RecordKeeps
    <2>4. ASSUME NEW s \in Streams, PumpEnds(s)
          PROVE  SettleStdout \/ Fail("transport") \/ UNCHANGED record
      BY <2>4 DEF PumpEnds, SettleStderr, FailIf, record
    <2>5. CASE \E s \in Streams : PumpEnds(s)
      <3>1. stage # "left" => ~closed
        BY <2>5, StillOpen DEF PumpEnds
      <3> QED BY <1>0, <2>4, <2>5, <3>1, RecordKeeps, SettleKeeps
    <2>6. CASE \E s \in Streams : PumpBreaks(s)
      <3>1. stage # "left" => ~closed
        BY <2>6, StillOpen DEF PumpBreaks
      <3>2. Fail("transport")
        BY <2>6 DEF PumpBreaks
      <3> QED BY <1>0, <3>1, <3>2, RecordKeeps
    <2>7. CASE \E s \in Streams : PumpRecovers(s)
      BY <2>7 DEF PumpRecovers, record
    <2> QED BY <1>3, <2>2, <2>3, <2>5, <2>6, <2>7 DEF Pumps
  <1>4. CASE Stop
    <2>1. CASE \E c \in {"task", "transport", "native"} : ApprovalStop(c)
      <3>1. PICK c \in {"task", "transport", "native"} : ApprovalStop(c)
        BY <2>1
      <3>2. Fail(c) /\ c \in Classes /\ ~closed
        BY <1>0, <3>1, StillOpen DEF ApprovalStop, Cancelled
      <3> QED BY <3>2, RecordKeeps
    <2>2. CASE InputFails
      <3>1. Fail("transport") /\ ~closed
        BY <2>2, StillOpen DEF InputFails, Cancelled
      <3> QED BY <1>0, <3>1, RecordKeeps
    <2>3. CASE ~ (InputFails \/ \E c \in {"task", "transport", "native"} : ApprovalStop(c))
      BY <1>4, <2>3 DEF Stop, OwnStop, Abort, StallFires, DeadlineFires, KillFires, Exits, GraceFires,
                        record
    <2> QED BY <2>1, <2>2, <2>3
  <1>5. CASE Finish
    <2>1. CASE Close
      <3>1. failures \in Seq(Classes)
        BY DEF TypeOK
      <3>2. \/ failures' = Added(failures, "task") /\ told' = told \cup {"task"}
            \/ failures' = failures /\ told' = told
        BY <2>1 DEF Close
      <3> QED BY <1>0, <3>1, <3>2, AddedClass
    <2>2. CASE Startup \/ Credential \/ StopFailure
      <3>1. \/ Yield("transport") \/ Yield("auth") \/ Yield("timeout") \/ UNCHANGED record
        BY <2>2 DEF Startup, Credential, StopFailure, YieldIf
      <3> QED BY <1>0, <3>1, YieldedKeeps
    <2>3. CASE Fallback
      <3>1. (\E c \in Classes : Yield(c)) \/ UNCHANGED record
        BY <1>0, <2>3 DEF Fallback
      <3> QED BY <1>0, <3>1, YieldedKeeps
    <2>4. CASE Judge \/ Deliver \/ Leave \/ Return
      BY <2>4 DEF Judge, Deliver, Leave, Return, record
    <2> QED BY <1>5, <2>1, <2>2, <2>3, <2>4 DEF Finish, Verdict
  <1> QED BY <1>1, <1>2, <1>3, <1>4, <1>5 DEF Next

(* What stops a turn is never taken back. *)
LEMMA StopsStay ==
  ASSUME TypeOK, NotBegun, Clocks, [Next]_vars
  PROVE  (aborted => aborted') /\ (Stopping => Stopping')
  <1>1. aborted => aborted'
    BY DEF NotBegun, Next, Start, Refuse, SpawnThrows, Spawn, Pumps, ReadStdout, ReadStderr,
           Reading, PumpEnds, PumpBreaks, PumpRecovers, Stop, OwnStop, Abort, StallFires,
           DeadlineFires, ApprovalStop, InputFails, KillFires, Exits, GraceFires, Finish, Verdict,
           Close, Startup, Credential, Fallback, StopFailure, Judge, Deliver, Leave, Return,
           After, vars, stops
  <1> QED BY <1>1, OneReason DEF Stopping

(* How a step enters the last stages. *)
LEMMA StageMoves ==
  ASSUME TypeOK, NotBegun, AfterDrain, Recorded, [Next]_vars
  PROVE  /\ Live' => Live \/ (stage = "starting" /\ Spawn)
         /\ Judging' => Judging \/ StopFailure
         /\ Judged' => Judged \/ Judge
         /\ stage' = "left" => verdict' = NoVerdict
  <1>1. CASE UNCHANGED vars
    BY <1>1 DEF Recorded, Live, Judging, Judged, Delivered, vars, ending
  <1>2. CASE Start
    BY <1>2 DEF NotBegun, Start, Refuse, SpawnThrows, Spawn, Live, Judging, Judged,
                Delivered, OpenStages
  <1>3. CASE Pumps \/ Stop
    <2>1. UNCHANGED <<stage, verdict>>
      BY <1>3 DEF Pumps, ReadStdout, ReadStderr, Reading, PumpEnds, PumpBreaks,
                  PumpRecovers, Stop, OwnStop, Abort, StallFires, DeadlineFires, ApprovalStop,
                  InputFails, KillFires, Exits, GraceFires, ending
    <2>2. exit = "none" => exit' = "none"
      BY <1>3 DEF Pumps, ReadStdout, ReadStderr, Reading, PumpEnds, PumpBreaks,
                  PumpRecovers, Stop, OwnStop, Abort, StallFires, DeadlineFires, ApprovalStop,
                  InputFails, KillFires, Exits, GraceFires
    <2> QED BY <2>1, <2>2 DEF Recorded, Live, Judging, Judged, Delivered
  <1>4. CASE Finish
    <2>1. exit' = exit
      BY <1>4 DEF Finish, Verdict, Close, Startup, Credential, Fallback, StopFailure, Judge, Deliver,
                  Leave, Return, After
    <2>2. CASE Close
      BY <2>1, <2>2 DEF Close, ending, Recorded, Live, Judging, Judged, Delivered
    <2>3. CASE Startup \/ Credential \/ Fallback
      BY <2>3 DEF Startup, Credential, Fallback, After, Live, Judging, Judged, Delivered,
                  OpenStages
    <2>4. CASE StopFailure
      BY <2>4 DEF StopFailure, After, Live, Judging, Judged, Delivered, OpenStages
    <2>5. CASE Judge
      BY <2>5 DEF Judge, Live, Judging, Judged, Delivered, OpenStages
    <2>6. CASE Deliver
      BY <2>6 DEF Deliver, Live, Judging, Judged, Delivered, OpenStages
    <2>7. CASE Leave
      BY <2>7 DEF Leave, Live, Judging, Judged, Delivered, OpenStages
    <2>8. CASE Return
      BY <2>8 DEF Return, Recorded, Live, Judging, Judged, Delivered, OpenStages
    <2> QED BY <1>4, <2>2, <2>3, <2>4, <2>5, <2>6, <2>7, <2>8 DEF Finish, Verdict
  <1> QED BY <1>1, <1>2, <1>3, <1>4 DEF Next

(* The record and the consumer's picture of it agree on every live turn, and
   the reason of a stop is among them. *)
LEMMA RecordedStep ==
  TypeOK /\ NotBegun /\ AfterDrain /\ Clocks /\ Recorded /\ [Next]_vars => Recorded'
  <1> SUFFICES ASSUME TypeOK, NotBegun, AfterDrain, Clocks, Recorded, [Next]_vars
               PROVE  Recorded'
    OBVIOUS
  <1>1. Live' => Range(failures') = told'
    <2>1. CASE Live
      <3>1. stage # "left"
        BY <2>1 DEF Live, Delivered, OpenStages
      <3>2. Live' => stage' # "left"
        BY DEF Live, Delivered, OpenStages
      <3> QED BY <2>1, <3>1, <3>2, RecordGrows DEF Recorded
    <2>2. CASE stage = "starting" /\ Spawn
      <3>1. failures = <<>> /\ told = {}
        BY <2>2 DEF NotBegun
      <3>2. Range(failures) = told
        BY <3>1 DEF Range
      <3> QED BY <2>2, <3>2 DEF Spawn, record
    <2> QED BY <2>1, <2>2, StageMoves
  <1>2. stage' = "left" => verdict' = NoVerdict
    BY StageMoves
  <1>3. blocked' # "no" => blocked' \in told'
    <2>1. CASE blocked # "no"
      BY <2>1, OneReason, RecordGrows DEF Recorded
    <2>2. CASE \E c \in {"task", "transport", "native"} : ApprovalStop(c)
      <3>1. PICK c \in {"task", "transport", "native"} : ApprovalStop(c)
        BY <2>2
      <3>2. Fail(c) /\ c \in Classes /\ ~closed /\ blocked' = c
        BY <3>1, StillOpen DEF ApprovalStop, Cancelled, Classes
      <3> QED BY <3>2, FailKeeps
    <2>3. CASE blocked = "no" /\ ~ \E c \in {"task", "transport", "native"} : ApprovalStop(c)
      <3>1. blocked' = blocked
        BY <2>3 DEF Next, Start, Refuse, SpawnThrows, Spawn, Pumps, ReadStdout, ReadStderr,
             Reading, PumpEnds, PumpBreaks, PumpRecovers, Stop, OwnStop, Abort, StallFires,
             DeadlineFires, InputFails, KillFires, Exits, GraceFires, Finish, Verdict, Close, Startup,
             Credential, Fallback, StopFailure, Judge, Deliver, Leave, Return, After, vars, stops
      <3> QED BY <2>3, <3>1
    <2> QED BY <2>1, <2>2, <2>3
  <1>4. Judging' /\ dog' # "none" /\ ~aborted' => dog' = dog /\ ~aborted
    <2> SUFFICES ASSUME Judging', dog' # "none", ~aborted' PROVE dog' = dog /\ ~aborted
      OBVIOUS
    <2>1. ~aborted
      BY StopsStay
    <2>2. CASE Judging
      <3>1. Gone
        BY <2>2 DEF AfterDrain, Judging, Delivered, Drained, OpenStages
      <3> QED BY <2>1, <3>1, OneReason
    <2>3. CASE StopFailure
      BY <2>1, <2>3 DEF StopFailure, After, stops
    <2> QED BY <2>2, <2>3, StageMoves
  <1>5. Judging' /\ dog' = "deadline" /\ ~aborted' => "timeout" \in told'
    <2> SUFFICES ASSUME Judging', dog' = "deadline", ~aborted' PROVE "timeout" \in told'
      OBVIOUS
    <2>1. dog = "deadline" /\ ~aborted
      BY <1>4
    <2>2. CASE Judging
      BY <2>1, <2>2, RecordGrows DEF Recorded
    <2>3. CASE StopFailure
      <3>1. Yield("timeout") /\ "timeout" \in Classes
        BY <2>1, <2>3 DEF StopFailure, Classes
      <3> QED BY <3>1, YieldKeeps
    <2> QED BY <2>2, <2>3, StageMoves
  <1>6. Judging' /\ dog' = "inactivity" /\ ~aborted' => failures' # <<>>
    <2> SUFFICES ASSUME Judging', dog' = "inactivity", ~aborted' PROVE failures' # <<>>
      OBVIOUS
    <2>1. dog = "inactivity" /\ ~aborted
      BY <1>4
    <2>2. CASE Judging
      BY <2>1, <2>2, RecordGrows DEF Recorded
    <2>3. CASE StopFailure
      <3>1. Yield("transport") \/ (failures # <<>> /\ UNCHANGED record)
        BY <2>1, <2>3 DEF StopFailure, YieldIf
      <3>2. "transport" \in Classes
        BY DEF Classes
      <3> QED BY <3>1, <3>2, YieldKeeps DEF record
    <2> QED BY <2>2, <2>3, StageMoves
  <1> QED BY <1>1, <1>2, <1>3, <1>5, <1>6 DEF Recorded

(* A step that touches neither what stdout left open nor its pump. *)
LEMMA AccountKept ==
  ASSUME TypeOK, NotBegun, AfterDrain, Clocks, Accounted, [Next]_vars,
         UNCHANGED <<inputFailed, unanswered>>, pump'["stdout"] = pump["stdout"],
         decode'.claim = decode.claim, decode'.lost = decode.lost,
         Live' => Live \/ ~unanswered
  PROVE  Accounted'
  BY RecordGrows, StopsStay DEF Accounted

LEMMA AccountedStep ==
  TypeOK /\ NotBegun /\ AfterDrain /\ Clocks /\ Recorded /\ Accounted /\ [Next]_vars
    => Accounted'
  <1> SUFFICES ASSUME TypeOK, NotBegun, AfterDrain, Clocks, Recorded, Accounted, [Next]_vars
               PROVE  Accounted'
    OBVIOUS
  <1>0. Live' => Live \/ ~unanswered
    BY StageMoves DEF NotBegun
  <1>1. CASE UNCHANGED vars
    BY <1>0, <1>1, AccountKept DEF vars, output
  <1>2. CASE Start
    BY <1>0, <1>2, AccountKept DEF Start, Refuse, SpawnThrows, Spawn, output
  <1>3. CASE \E r \in StdoutRecords : ReadStdout(r)
    <2>1. PICK r \in StdoutRecords : ReadStdout(r)
      BY <1>3
    <2>2. /\ UNCHANGED <<inputFailed, pump>> /\ pump["stdout"] = "reading"
          /\ decode \in DecodeState
      BY <2>1 DEF ReadStdout, Reading, TypeOK
    <2>3. CASE ReadMessage(r)
      BY <2>2, <2>3, RecordGrows DEF Accounted, ReadMessage
    <2>4. CASE ReadProvisional(r)
      <3>1. decode'.claim = r.class
        BY <2>2, <2>4 DEF ReadProvisional, DecodeState
      <3>2. r.class # "none"
        BY RecordsAssumption DEF Classes
      <3> QED BY <2>2, <3>1, <3>2, RecordGrows DEF Accounted
    <2>5. CASE ReadOverflow(r)
      <3>1. "pending" \in decode'.lost
        BY <2>2, <2>5 DEF ReadOverflow, DecodeState
      <3> QED BY <2>2, <3>1, RecordGrows DEF Accounted
    <2>6. CASE ReadDelimiter(r) \/ ReadWall(r) \/ ReadFailure(r) \/ ReadIdentity(r)
      <3>1. decode'.claim = decode.claim /\ decode'.lost = decode.lost
            /\ unanswered' = unanswered
        BY <2>2, <2>6 DEF ReadDelimiter, ReadWall, ReadFailure, ReadIdentity, DecodeState
      <3> QED BY <1>0, <2>2, <3>1, AccountKept
    <2> QED BY <2>1, <2>3, <2>4, <2>5, <2>6 DEF ReadStdout
  <1>4. CASE \E k \in StderrRecords : ReadStderr(k)
    <2>1. decode \in DecodeState
      BY DEF TypeOK
    <2>2. /\ decode'.claim = decode.claim /\ decode'.lost = decode.lost
          /\ UNCHANGED <<inputFailed, pump, unanswered>>
      BY <1>4, <2>1 DEF ReadStderr, Reading, DecodeState
    <2> QED BY <1>0, <2>2, AccountKept
  <1>5. CASE \E s \in Streams : PumpEnds(s)
    <2>1. PICK s \in Streams : PumpEnds(s)
      BY <1>5
    <2>2. /\ UNCHANGED <<inputFailed, unanswered>> /\ pump[s] = "reading"
          /\ pump' = [pump EXCEPT ![s] = "settled"]
          /\ pump \in [Streams -> {"reading", "failed", "settled"}]
      BY <2>1 DEF PumpEnds, TypeOK
    <2>3. CASE s = "stdout"
      <3>1. pump'["stdout"] = "settled"
        BY <2>2, <2>3 DEF Streams
      <3>2. Live' => ~Cancelled
        <4>1. UNCHANGED <<stage, exit>>
          BY <2>1 DEF PumpEnds, ending
        <4>2. stage = "returned" => exit = "none"
          BY <2>2 DEF AfterDrain, Drained
        <4> QED BY <4>1, <4>2 DEF Live, Delivered, Cancelled, OpenStages
      <3>3. Live' => Live \/ ~unanswered
        BY <1>0
      <3>4. CASE ~Cancelled
        <4>1. SettleStdout
          BY <2>1, <2>3, <3>4 DEF PumpEnds
        <4> QED BY <2>2, <3>1, <3>3, <4>1, SettleKeeps, RecordGrows, StopsStay DEF Accounted
      <3>5. CASE Cancelled
        BY <2>2, <3>1, <3>2, <3>5, RecordGrows DEF Accounted
      <3> QED BY <3>4, <3>5
    <2>4. CASE s = "stderr"
      <3>1. decode \in DecodeState
        BY DEF TypeOK
      <3>2. decode'.claim = decode.claim /\ decode'.lost = decode.lost
        BY <2>1, <2>4, <3>1 DEF PumpEnds, SettleStderr, DecodeState
      <3>3. pump'["stdout"] = pump["stdout"]
        BY <2>2, <2>4 DEF Streams
      <3> QED BY <1>0, <2>2, <3>2, <3>3, AccountKept
    <2> QED BY <2>3, <2>4 DEF Streams
  <1>6. CASE \E s \in Streams : PumpBreaks(s)
    <2>1. Fail("transport") /\ "transport" \in Classes
      BY <1>6 DEF PumpBreaks, Classes
    <2>2. failures' # <<>>
      BY <2>1, FailKeeps
    <2> QED BY <2>2 DEF Accounted
  <1>7. CASE \E s \in Streams : PumpRecovers(s)
    <2>1. PICK s \in Streams : PumpRecovers(s)
      BY <1>7
    <2>2. CASE s = "stdout"
      <3>1. failures # <<>> /\ failures' = failures
        BY <2>1, <2>2 DEF PumpRecovers, Accounted, record
      <3> QED BY <3>1 DEF Accounted
    <2>3. CASE s = "stderr"
      <3>1. pump \in [Streams -> {"reading", "failed", "settled"}]
        BY DEF TypeOK
      <3>2. pump'["stdout"] = pump["stdout"] /\ UNCHANGED <<decode, inputFailed, unanswered>>
        BY <2>1, <2>3, <3>1 DEF PumpRecovers, Streams
      <3> QED BY <1>0, <3>2, AccountKept
    <2> QED BY <2>2, <2>3 DEF Streams
  <1>8. CASE Stop
    <2>1. CASE InputFails
      <3>1. Fail("transport") /\ "transport" \in Classes
        BY <2>1 DEF InputFails, Classes
      <3>2. failures' # <<>>
        BY <3>1, FailKeeps
      <3> QED BY <3>2 DEF Accounted
    <2>2. CASE ~InputFails
      <3>1. UNCHANGED <<pump, decode, inputFailed, unanswered>>
        BY <1>8, <2>2 DEF Stop, OwnStop, Abort, StallFires, DeadlineFires, ApprovalStop, KillFires,
                          Exits, GraceFires, output
      <3> QED BY <1>0, <3>1, AccountKept
    <2> QED BY <2>1, <2>2
  <1>9. CASE Finish
    <2>1. UNCHANGED <<pump, decode, inputFailed, unanswered>>
      BY <1>9 DEF Finish, Verdict, Close, Startup, Credential, Fallback, StopFailure, Judge, Deliver,
                  Leave, Return, After, output
    <2> QED BY <1>0, <2>1, AccountKept
  <1> QED BY <1>1, <1>2, <1>3, <1>4, <1>5, <1>6, <1>7, <1>8, <1>9 DEF Next, Pumps

(* Nothing a verdict is made of changes once it is made. *)
LEMMA VerdictStands ==
  ASSUME TypeOK, NotBegun, AfterDrain, Clocks, Recorded, [Next]_vars, Judged, Judged'
  PROVE  UNCHANGED <<decode, aborted, dog, blocked, exit, startupFailed, failures, verdict>>
  <1>1. Drained /\ Gone /\ exit # "running" /\ exit # "none"
    BY DEF AfterDrain, Judged, Delivered, Drained, Gone, OpenStages
  <1>2. stage \in {"judged", "returned"} /\ stall = "off" /\ deadline = "off"
    BY <1>1 DEF Judged, Delivered, Clocks
  <1>3. CASE UNCHANGED vars
    BY <1>3 DEF vars, clocks, stops, output, record, ending
  <1>4. CASE Start
    BY <1>2, <1>4 DEF Start, Refuse, SpawnThrows, Spawn
  <1>5. CASE Pumps
    <2>1. \A s \in Streams : pump[s] = "settled"
      BY <1>1 DEF Drained
    <2>2. \E s \in Streams : pump[s] # "settled"
      <3>1. CASE \/ \E r \in StdoutRecords : ReadStdout(r)
                 \/ \E k \in StderrRecords : ReadStderr(k)
        BY <3>1 DEF ReadStdout, ReadStderr, Reading, Streams
      <3>2. CASE \E s \in Streams : PumpEnds(s) \/ PumpBreaks(s) \/ PumpRecovers(s)
        BY <3>2 DEF PumpEnds, PumpBreaks, PumpRecovers
      <3> QED BY <1>5, <3>1, <3>2 DEF Pumps
    <2> QED BY <2>1, <2>2
  <1>6. CASE Stop
    <2>1. ~Abort /\ ~StallFires /\ ~DeadlineFires /\ ~InputFails /\ ~KillFires
      BY <1>1, <1>2 DEF Abort, StallFires, DeadlineFires, InputFails, KillFires, OpenStages
    <2>2. /\ \A c \in {"task", "transport", "native"} : ~ApprovalStop(c)
          /\ \A how \in {"zero", "nonzero", "signal", "missing"} : ~Exits(how)
      BY <1>1 DEF ApprovalStop, Exits
    <2>3. GraceFires
      BY <1>6, <2>1, <2>2 DEF Stop, OwnStop
    <2> QED BY <2>3 DEF GraceFires, stops, record, ending
  <1>7. CASE Finish
    <2>1. Deliver \/ Leave
      BY <1>2, <1>7 DEF Finish, Verdict, Close, Startup, Credential, Fallback, StopFailure, Judge,
                        Return, After
    <2>2. ~Leave
      BY DEF Leave, Judged, Delivered
    <2> QED BY <2>1, <2>2 DEF Deliver, stops, output, record
  <1> QED BY <1>3, <1>4, <1>5, <1>6, <1>7 DEF Next

LEMMA SettledStep ==
  TypeOK /\ NotBegun /\ AfterDrain /\ Clocks /\ Recorded /\ Settled /\ [Next]_vars
    => Settled'
  <1> SUFFICES ASSUME TypeOK, NotBegun, AfterDrain, Clocks, Recorded, Settled, [Next]_vars,
                      Judged'
               PROVE  verdict' = [cause |-> Cause', failure |-> Reduced']
    BY DEF Settled
  <1>1. CASE Judge
    <2>1. UNCHANGED <<decode, aborted, dog, blocked, exit, startupFailed, failures>>
      BY <1>1 DEF Judge, stops, output, record
    <2>2. Cause' = Cause /\ Reduced' = Reduced
      BY <2>1 DEF Cause, RawCause, Reduced
    <2> QED BY <1>1, <2>2 DEF Judge
  <1>2. CASE Judged
    <2>1. UNCHANGED <<decode, aborted, dog, blocked, exit, startupFailed, failures, verdict>>
      BY <1>2, VerdictStands
    <2>2. Cause' = Cause /\ Reduced' = Reduced
      BY <2>1 DEF Cause, RawCause, Reduced
    <2> QED BY <1>2, <2>1, <2>2 DEF Settled
  <1> QED BY <1>1, <1>2, StageMoves

(* The whole invariant. *)
LEMMA TurnInvariant == Spec => []TurnInv
  <1>1. Init => TurnInv
    <2> SUFFICES ASSUME Init PROVE TurnInv
      OBVIOUS
    <2>1. TypeOK
      BY TypeInit
    <2>2. NotBegun /\ AfterDrain /\ Clocks
      BY DEF Init, NotBegun, AfterDrain, Clocks, Gone, OpenStages
    <2>3. ~Live /\ ~Judging /\ ~Judged
      BY DEF Init, Live, Judging, Judged, Delivered, OpenStages
    <2>4. Recorded /\ Accounted /\ Settled
      BY <2>3 DEF Init, Recorded, Accounted, Settled, Streams
    <2> QED BY <2>1, <2>2, <2>4 DEF TurnInv
  <1>2. TurnInv /\ [Next]_vars => TurnInv'
    BY TypeStep, BegunStep, DrainStep, ClocksStep, RecordedStep, AccountedStep, SettledStep
       DEF TurnInv
  <1> QED BY <1>1, <1>2, PTL DEF Spec

-----------------------------------------------------------------------------
(* The reason a turn was stopped is decided once, whatever clocks, aborts and
   approvals race: the watchdogs of stream-turn.ts and its approval stop
   exclude each other, and nothing signals a process that is gone. *)
THEOREM OneReasonToStop == Spec => StopsOnce
  <1>1. TurnInv /\ [Next]_vars =>
          [ /\ dog # "none" => dog' = dog /\ blocked' = blocked
            /\ blocked # "no" => blocked' = blocked /\ dog' = dog
            /\ Gone => <<dog, blocked, kill>>' = <<dog, blocked, kill>> ]_vars
    BY OneReason DEF TurnInv
  <1> QED BY <1>1, TurnInvariant, PTL DEF Spec, StopsOnce

(* done weighs exactly the failures the consumer was shown, and no shown
   failure outranks it unless a stop owns the turn. *)
THEOREM VerdictIsWhatWasShown == Spec => []VerdictFollowsStream
  <1>1. TurnInv => VerdictFollowsStream
    <2> SUFFICES ASSUME TurnInv, Delivered PROVE
          /\ Range(failures) = told
          /\ verdict.failure # "none" => verdict.failure \in told
          /\ ~aborted /\ dog # "deadline" /\ blocked = "no" =>
               \A c \in told : /\ verdict.failure # "none"
                               /\ Rank[verdict.failure] <= Rank[c]
      BY DEF VerdictFollowsStream
    <2>0. failures \in Seq(Classes) /\ told \in SUBSET Classes /\ aborted \in BOOLEAN
      BY DEF TurnInv, TypeOK
    <2>1. CASE exit = "none"
      <3>1. /\ verdict.failure \in Classes /\ failures = <<verdict.failure>>
            /\ told = {verdict.failure}
        BY <2>1 DEF TurnInv, NotBegun, Delivered
      <3>2. Range(failures) = told
        BY <3>1 DEF Range
      <3>3. Rank[verdict.failure] \in Nat /\ verdict.failure # "none"
        BY <3>1, RankTyped DEF Classes
      <3> QED BY <3>1, <3>2, <3>3
    <2>2. CASE exit # "none"
      <3>1. Live /\ Judging /\ Judged
        BY <2>2 DEF Live, Judging, Judged
      <3>2. Range(failures) = told /\ verdict.failure = Reduced
        BY <3>1 DEF TurnInv, Recorded, Settled
      <3>3. CASE failures = <<>>
        <4>1. told = {}
          BY <3>2, <3>3 DEF Range
        <4>2. Reduced = "none"
          BY <2>0, <3>1, <4>1, <3>3 DEF Reduced, TurnInv, Recorded
        <4> QED BY <3>2, <4>1, <4>2
      <3>4. CASE failures # <<>>
        <4>1. /\ Strongest(failures) \in told
              /\ \A c \in told : Rank[Strongest(failures)] <= Rank[c]
          BY <2>0, <3>2, <3>4, StrongestWins
        <4>2. Reduced # "none" => Reduced \in told
          BY <2>0, <3>1, <3>4, <4>1 DEF Reduced, TurnInv, Recorded
        <4>3. ~aborted /\ dog # "deadline" /\ blocked = "no"
                => Reduced = Strongest(failures)
          BY <3>4 DEF Reduced
        <4>4. Strongest(failures) # "none"
          BY <2>0, <4>1 DEF Classes
        <4> QED BY <3>2, <4>1, <4>2, <4>3, <4>4
      <3> QED BY <3>3, <3>4
    <2> QED BY <2>1, <2>2
  <1> QED BY <1>1, TurnInvariant, PTL

(* A turn reported clean had a zero exit nobody forced, no failure and no wall
   on its streams, its whole prompt delivered, and nothing discarded or
   claimed that no later message took back. *)
THEOREM CleanTurnIsClean == Spec => []CleanIsClean
  <1>1. TurnInv => CleanIsClean
    <2> SUFFICES ASSUME TurnInv, Delivered, verdict.cause = "clean" PROVE
          /\ exit = "zero" /\ ~aborted /\ dog = "none" /\ blocked = "no"
          /\ told = {} /\ ~decode.limit /\ ~inputFailed
          /\ ~unanswered
      BY DEF CleanIsClean
    <2>0. /\ failures \in Seq(Classes) /\ aborted \in BOOLEAN
          /\ dog \in {"none", "inactivity", "deadline"}
          /\ blocked \in {"no", "task", "transport", "native"}
      BY DEF TurnInv, TypeOK
    <2>1. exit # "none"
      BY DEF TurnInv, NotBegun, Delivered
    <2>2. Live /\ Judging /\ Judged
      BY <2>1 DEF Live, Judging, Judged
    <2>3. Cause = "clean"
      BY <2>2 DEF TurnInv, Settled
    <2>4. RawCause = "clean" /\ Reduced = "none" /\ ~(blocked # "no" /\ ~aborted)
      BY <2>3 DEF Cause
    <2>5. /\ ~decode.limit /\ ~aborted /\ (dog # "none" => exit = "zero")
          /\ exit = "zero"
      BY <2>1, <2>4 DEF RawCause
    <2>6. blocked = "no"
      BY <2>0, <2>4, <2>5
    <2>7. dog # "deadline" /\ failures = <<>>
      <3>1. dog # "deadline"
        BY <2>0, <2>4, <2>5 DEF Reduced
      <3>2. ASSUME failures # <<>> PROVE FALSE
        <4>1. Strongest(failures) \in Range(failures)
          BY <2>0, <3>2, StrongestWins
        <4>2. Range(failures) \subseteq Classes
          BY <2>0 DEF Range
        <4>3. Reduced = Strongest(failures)
          BY <2>5, <2>6, <3>1, <3>2 DEF Reduced
        <4> QED BY <2>4, <4>1, <4>2, <4>3 DEF Classes
      <3> QED BY <3>1, <3>2
    <2>8. dog = "none"
      BY <2>0, <2>2, <2>5, <2>7 DEF TurnInv, Recorded
    <2>9. told = {}
      BY <2>2, <2>7 DEF TurnInv, Recorded, Range
    <2>10. ~inputFailed
      BY <2>7 DEF TurnInv, Accounted
    <2>11. ~unanswered
      <3>1. pump["stdout"] = "settled"
        <4>1. Drained
          BY <2>1, <2>2 DEF TurnInv, AfterDrain, Judged, Delivered, OpenStages
        <4> QED BY <4>1 DEF Drained, Streams
      <3> QED BY <2>2, <2>5, <2>7, <2>8, <3>1 DEF TurnInv, Accounted, Stopping
    <2> QED BY <2>5, <2>6, <2>8, <2>9, <2>10, <2>11
  <1> QED BY <1>1, TurnInvariant, PTL

-----------------------------------------------------------------------------
(* The observer's own state *)

(* An observer that goes on has unreadable samples left, and one that never
   began has no helper and nothing to report. *)
Patience == watch.report = "no" => watch.streak < MAX_UNREADABLE_POLLS
Unbegun == watch.state = "off" => watch.report = "no" /\ helpers = <<>>

WatchInv == WatchTypeOK /\ Patience /\ Unbegun /\ NeverIdle

(* What a watch record may be, while or once it observes. *)
Sound(w) == /\ w \in Watch /\ w.state # "off"
            /\ w.report = "no" => w.streak < MAX_UNREADABLE_POLLS
            /\ w.state = "on" /\ w.report = "no" => w.timer # "off"

Patient(w) == w \in Watch /\ w.state # "off" /\ (w.report = "no" => w.streak < MAX_UNREADABLE_POLLS)

LEMMA Limits ==
  /\ MAX_UNREADABLE_POLLS \in Nat /\ MAX_UNREADABLE_POLLS > 0
  /\ HELPER_START_ATTEMPTS \in Nat /\ HELPER_START_ATTEMPTS > 0
  /\ MaxCompactions \in Nat
  <1>1. {MAX_UNREADABLE_POLLS, HELPER_START_ATTEMPTS} \subseteq Nat \ {0}
        /\ MaxCompactions \in Nat
    BY WatchAssumption
  <1> QED BY <1>1

LEMMA FreshStreak == 0 \in 0 .. MAX_UNREADABLE_POLLS
  BY Limits

LEMMA ReportedSound ==
  ASSUME NEW w \in Watch, w.state # "off", NEW c \in Reports
  PROVE  Sound(Reported(w, c)) /\ Reported(w, c).report = c
  BY DEF Sound, Reported, Watch, Reports

LEMMA SkippedSound ==
  ASSUME NEW w, Patient(w), w.report = "no"
  PROVE  Sound(Skipped(w)) /\ Skipped(w).report # "task"
  <1> DEFINE counted == [w EXCEPT !.streak = @ + 1]
  <1>0. MAX_UNREADABLE_POLLS \in Nat
    BY Limits
  <1>1. counted \in Watch /\ counted.state # "off" /\ counted.streak = w.streak + 1 /\ w.streak + 1 \in Nat
    BY <1>0 DEF Patient, Watch
  <1>2. CASE counted.streak >= MAX_UNREADABLE_POLLS
    <2>1. Skipped(w) = Reported(counted, "transport")
      BY <1>2 DEF Skipped
    <2> QED BY <1>1, <2>1, ReportedSound DEF Reports
  <1>3. CASE ~(counted.streak >= MAX_UNREADABLE_POLLS)
    <2>1. Skipped(w) = [counted EXCEPT !.timer = "next"]
      BY <1>3 DEF Skipped
    <2>2. Skipped(w) \in Watch /\ Skipped(w).state # "off" /\ Skipped(w).streak = w.streak + 1 /\ Skipped(w).timer = "next"
          /\ Skipped(w).report = "no"
      BY <1>1, <2>1 DEF Watch
    <2> QED BY <1>0, <1>1, <1>3, <2>2 DEF Sound
  <1> QED BY <1>2, <1>3

LEMMA AskingSound ==
  ASSUME NEW w, Patient(w), w.report = "no",
         NEW what \in {"initialize", "poll"}, NEW up \in BOOLEAN, NEW x \in Asking(w, what, up)
  PROVE  Sound(x) /\ x.report # "task"
  <1>1. CASE x = Skipped([w EXCEPT !.asked = "none"])
    <2>1. Patient([w EXCEPT !.asked = "none"]) /\ [w EXCEPT !.asked = "none"].report = "no"
      BY DEF Patient, Watch
    <2> QED BY <1>1, <2>1, SkippedSound
  <1>2. CASE x = [w EXCEPT !.asked = what, !.timer = "reply"]
    BY <1>2 DEF Patient, Sound, Watch
  <1> QED BY <1>1, <1>2 DEF Asking

View == [enabled : BOOLEAN, inFlight : BOOLEAN,
         cursor : 0 .. MaxCompactions, reported : SUBSET (1 .. MaxCompactions)]

HelperSeq(hs) == hs \in Seq({"up", "retired", "gone"}) /\ Len(hs) <= HELPER_START_ATTEMPTS

(* A helper takes the place of the ones before it, or the spawn throws. *)
LEMMA SpawnSound ==
  ASSUME NEW w, Patient(w), w.report = "no", NEW others, HelperSeq(others),
         Len(others) < HELPER_START_ATTEMPTS, SpawnHelper(w, others)
  PROVE  Sound(watch') /\ watch'.report # "task" /\ HelperSeq(helpers')
  <1>1. CASE watch' = Reported(w, "transport") /\ helpers' = others
    BY <1>1, ReportedSound DEF Patient, Reports
  <1>2. CASE helpers' = Append(others, "up") /\ watch' \in Asking(w, "initialize", TRUE)
    <2>1. Sound(watch') /\ watch'.report # "task"
      BY <1>2, AskingSound
    <2>2. others \in Seq({"up", "retired", "gone"}) /\ HELPER_START_ATTEMPTS \in Nat
      BY Limits DEF HelperSeq
    <2>3. HelperSeq(helpers')
      BY <1>2, <2>2 DEF HelperSeq
    <2> QED BY <2>1, <2>3
  <1> QED BY <1>1, <1>2 DEF SpawnHelper

LEMMA StartFailsSound ==
  ASSUME WatchTypeOK, Patience, Observing, NEW hs, HelperSeq(hs), StartAttemptFails(hs)
  PROVE  Sound(watch') /\ watch'.report # "task" /\ HelperSeq(helpers')
  <1> DEFINE again == [watch EXCEPT !.streak = 0]
  <1>1. Patient(again) /\ again.report = "no"
    <2>1. watch \in Watch /\ 0 \in 0 .. MAX_UNREADABLE_POLLS
      BY Limits DEF WatchTypeOK
    <2>2. again \in Watch /\ again.report = "no" /\ again.streak = 0 /\ again.state = "on"
      BY <2>1 DEF Watch, Observing
    <2> QED BY <2>2, Limits DEF Patient
  <1>2. CASE Len(hs) < HELPER_START_ATTEMPTS
    <2>1. SpawnHelper(again, LastRetired(hs))
      BY <1>2 DEF StartAttemptFails
    <2>2. HelperSeq(LastRetired(hs)) /\ Len(LastRetired(hs)) = Len(hs)
      BY DEF HelperSeq, LastRetired
    <2> QED BY <1>1, <1>2, <2>1, <2>2, SpawnSound
  <1>3. CASE ~(Len(hs) < HELPER_START_ATTEMPTS)
    <2>1. watch' = Reported(again, "transport") /\ helpers' = hs
      BY <1>3 DEF StartAttemptFails
    <2> QED BY <1>1, <2>1, ReportedSound DEF Patient, Reports
  <1> QED BY <1>2, <1>3

LEMMA LostSound ==
  ASSUME WatchTypeOK, Patience, Observing, NEW hs, HelperSeq(hs), Lost(hs)
  PROVE  Sound(watch') /\ watch'.report # "task" /\ HelperSeq(helpers')
  <1>1. CASE watch.initialized
    <2>1. watch' = Reported(watch, "transport") /\ helpers' = hs
      BY <1>1 DEF Lost
    <2> QED BY <2>1, ReportedSound DEF WatchTypeOK, Reports, Observing
  <1>2. CASE ~watch.initialized
    BY <1>2, StartFailsSound DEF Lost
  <1> QED BY <1>1, <1>2

(* What a step of the observer leaves, whatever it was. *)
LEMMA SoundStep ==
  ASSUME WatchTypeOK, Sound(watch'), HelperSeq(helpers'), UNCHANGED <<pending, finished>>,
         seen' \in [Requests -> Nat], stretch' \in [Requests -> Nat],
         found' \in Seq(1 .. MaxCompactions), view' \in View
  PROVE  WatchInv'
  BY DEF WatchTypeOK, Sound, HelperSeq, WatchInv, Patience, Unbegun, NeverIdle, Observing, View

LEMMA PollSound ==
  ASSUME NEW w, Patient(w), w.report = "no", Poll(w), view \in View, HelperUp \in BOOLEAN
  PROVE  Sound(watch') /\ watch'.report # "task" /\ view' \in View
  <1>1. Sound(watch') /\ watch'.report # "task"
    BY AskingSound DEF Poll
  <1>2. CASE view' = view
    BY <1>1, <1>2
  <1>3. CASE view' = [view EXCEPT !.inFlight = TRUE]
    BY <1>1, <1>3 DEF View
  <1> QED BY <1>1, <1>2, <1>3 DEF Poll, ViewPolled

-----------------------------------------------------------------------------
(* The order of a page *)

(* Strictly increasing, a sequence cannot fall behind the interval it is in... *)
LEMMA IncreasingFromBelow ==
  ASSUME NEW a \in Nat, NEW b \in Nat, a <= b, NEW s \in [1 .. b - a -> (a + 1) .. b],
         \A i, j \in 1 .. b - a : i < j => s[i] < s[j]
  PROVE  \A i \in 1 .. b - a : s[i] >= a + i
  <1> DEFINE Behind == {i \in 1 .. b - a : s[i] < a + i}
  <1>1. SUFFICES ASSUME Behind # {} PROVE FALSE
    OBVIOUS
  <1>2. Behind \subseteq Nat
    OBVIOUS
  <1>3. PICK i \in Behind : \A k \in Behind : i <= k
    BY <1>1, <1>2, Least
  <1>4. i \in 1 .. b - a /\ s[i] \in (a + 1) .. b /\ s[i] < a + i
    OBVIOUS
  <1>5. i - 1 \in 1 .. b - a
    BY <1>4
  <1>6. s[i - 1] < s[i] /\ s[i - 1] \in (a + 1) .. b
    BY <1>4, <1>5
  <1>7. i - 1 \in Behind
    BY <1>4, <1>5, <1>6
  <1> QED BY <1>3, <1>4, <1>7

(* ...nor run ahead of it. *)
LEMMA IncreasingFromAbove ==
  ASSUME NEW a \in Nat, NEW b \in Nat, a <= b, NEW s \in [1 .. b - a -> (a + 1) .. b],
         \A i, j \in 1 .. b - a : i < j => s[i] < s[j]
  PROVE  \A i \in 1 .. b - a : s[i] <= a + i
  <1> DEFINE Ahead == {d \in 0 .. b - a - 1 : s[b - a - d] > b - d}
  <1>1. SUFFICES ASSUME NEW j \in 1 .. b - a, s[j] > a + j PROVE FALSE
    OBVIOUS
  <1>2. b - a - j \in Ahead
    <2>1. b - a - j \in 0 .. b - a - 1 /\ b - a - (b - a - j) = j /\ b - (b - a - j) = a + j
      OBVIOUS
    <2> QED BY <1>1, <2>1
  <1>3. Ahead \subseteq Nat
    OBVIOUS
  <1>4. PICK d \in Ahead : \A k \in Ahead : d <= k
    BY <1>2, <1>3, Least
  <1>5. d \in 0 .. b - a - 1 /\ b - a - d \in 1 .. b - a /\ s[b - a - d] \in (a + 1) .. b
        /\ s[b - a - d] > b - d
    OBVIOUS
  <1>6. d - 1 \in 0 .. b - a - 1 /\ b - a - (d - 1) \in 1 .. b - a
    BY <1>5
  <1>7. s[b - a - d] < s[b - a - (d - 1)] /\ s[b - a - (d - 1)] \in (a + 1) .. b
    BY <1>5, <1>6
  <1>8. d - 1 \in Ahead
    BY <1>5, <1>6, <1>7
  <1>9. d <= d - 1
    <2> HIDE DEF Ahead
    <2> QED BY <1>4, <1>8
  <1> QED BY <1>5, <1>9

(* So a page lists what follows its start one by one. *)
LEMMA InOrderInterval ==
  ASSUME NEW a \in Nat, NEW b \in Nat, a <= b
  PROVE  InOrder((a + 1) .. b) = [i \in 1 .. b - a |-> a + i]
  <1> DEFINE Rising(s) == \A i, j \in 1 .. b - a : i < j => s[i] < s[j]
             line == [i \in 1 .. b - a |-> a + i]
             s == CHOOSE s \in [1 .. b - a -> (a + 1) .. b] : Rising(s)
  <1>1. Cardinality((a + 1) .. b) = b - a
    <2>1. Cardinality((a + 1) .. b) = IF a + 1 > b THEN 0 ELSE b - (a + 1) + 1
      BY FS_Interval
    <2> QED BY <2>1
  <1>2. InOrder((a + 1) .. b) = s
    BY <1>1 DEF InOrder
  <1>3. line \in [1 .. b - a -> (a + 1) .. b] /\ Rising(line)
    OBVIOUS
  <1>4. s \in [1 .. b - a -> (a + 1) .. b] /\ Rising(s)
    <2> HIDE DEF Rising, line
    <2> QED BY <1>3
  <1> HIDE DEF s
  <1>5. ASSUME NEW i \in 1 .. b - a PROVE s[i] = a + i
    <2>1. s[i] >= a + i /\ s[i] <= a + i
      BY <1>4, IncreasingFromBelow, IncreasingFromAbove
    <2>2. s[i] \in Nat
      BY <1>4
    <2> QED BY <2>1, <2>2
  <1> QED BY <1>2, <1>4, <1>5

-----------------------------------------------------------------------------
(* The compaction fold *)

(* Whatever the pages held, the turn has been handed an unbroken run of what
   finished, and no page can start beyond it. *)
FoldInv ==
  \E k \in 0 .. finished :
    /\ found = [i \in 1 .. k |-> i] /\ view.reported = 1 .. k
    /\ view.cursor <= k

LEMMA RunExtends ==
  ASSUME NEW k \in Nat, NEW n \in Nat, k <= n
  PROVE  [i \in 1 .. k |-> i] \o [i \in 1 .. n - k |-> k + i] = [i \in 1 .. n |-> i]
  <1> DEFINE s == [i \in 1 .. k |-> i]
             t == [i \in 1 .. n - k |-> k + i]
  <1>1. s \in Seq(Nat) /\ t \in Seq(Nat) /\ Len(s) = k /\ Len(t) = n - k
    OBVIOUS
  <1>2. s \o t \in Seq(Nat) /\ Len(s \o t) = n
    BY <1>1
  <1>3. ASSUME NEW i \in 1 .. n PROVE (s \o t)[i] = i
    <2>1. CASE i <= k
      BY <1>1, <2>1
    <2>2. CASE i > k
      BY <1>1, <2>2
    <2> QED BY <2>1, <2>2
  <1> QED BY <1>2, <1>3

LEMMA PageKeeps ==
  ASSUME WatchTypeOK, FoldInv, NEW from \in 0 .. MaxCompactions, PageRead(from)
  PROVE  FoldInv' /\ found' \in Seq(1 .. MaxCompactions) /\ view' \in View
  <1>0. MaxCompactions \in Nat /\ finished \in 0 .. MaxCompactions /\ view \in View
        /\ from <= view.cursor /\ finished' = finished
    BY Limits DEF WatchTypeOK, View, PageRead, native
  <1>1. PICK k \in 0 .. finished : /\ found = [i \in 1 .. k |-> i]
                                   /\ view.reported = 1 .. k /\ view.cursor <= k
    BY DEF FoldInv
  <1>2. k \in Nat /\ finished \in Nat /\ k <= finished /\ from <= k /\ view.cursor \in Nat
    BY <1>0, <1>1 DEF View
  <1>3. Unreported(from) = (k + 1) .. finished
    BY <1>1, <1>2 DEF Unreported
  <1>4. found' = [i \in 1 .. finished |-> i]
    <2>1. InOrder((k + 1) .. finished) = [i \in 1 .. finished - k |-> k + i]
      BY <1>2, InOrderInterval
    <2>2. found' = [i \in 1 .. k |-> i] \o [i \in 1 .. finished - k |-> k + i]
      BY <1>1, <1>3, <2>1 DEF PageRead
    <2> QED BY <1>2, <2>2, RunExtends
  <1>5. PICK cursor \in {view.cursor, finished} :
          view' = [view EXCEPT !.inFlight = FALSE, !.cursor = cursor,
                               !.reported = @ \cup Unreported(from)]
    BY DEF PageRead
  <1>6. 1 .. k \cup (k + 1) .. finished = 1 .. finished
    BY <1>2
  <1>7. view' \in View /\ view'.reported = 1 .. finished /\ view'.cursor = cursor
    <2>1. cursor \in 0 .. MaxCompactions /\ 1 .. finished \in SUBSET (1 .. MaxCompactions)
      BY <1>0, <1>2 DEF View
    <2>2. view.reported \cup Unreported(from) = 1 .. finished
      BY <1>1, <1>3, <1>6
    <2>3. view' = [view EXCEPT !.inFlight = FALSE, !.cursor = cursor, !.reported = 1 .. finished]
      BY <1>5, <2>2
    <2> QED BY <1>0, <2>1, <2>3 DEF View
  <1>8. found' \in Seq(1 .. MaxCompactions)
    BY <1>0, <1>4
  <1>9. cursor <= finished /\ finished \in 0 .. finished'
    BY <1>0, <1>1, <1>2
  <1> QED BY <1>0, <1>4, <1>7, <1>8, <1>9 DEF FoldInv

LEMMA FoldShown ==
  ASSUME finished \in Nat, FoldInv
  PROVE  CompactionsOnce
  <1>1. PICK k \in 0 .. finished : /\ found = [i \in 1 .. k |-> i] /\ view.reported = 1 .. k
    BY DEF FoldInv
  <1>2. InOrder((0 + 1) .. k) = [i \in 1 .. k - 0 |-> 0 + i]
    <2>1. 0 \in Nat /\ k \in Nat /\ 0 <= k
      BY <1>1
    <2> QED BY ONLY <2>1, InOrderInterval
  <1>3. [i \in 1 .. k - 0 |-> 0 + i] = [i \in 1 .. k |-> i]
    BY <1>1
  <1> QED BY <1>1, <1>2, <1>3 DEF CompactionsOnce

-----------------------------------------------------------------------------
(* Every step of the observer *)

(* The counts a report is made on are the samples in a row that showed it. *)
Evidence == seen = stretch /\ StopsOnEvidence

Observer == WatchInv /\ FoldInv /\ Evidence

(* A step that takes no sample and reads no page. *)
LEMMA OtherStep ==
  ASSUME Observer, Sound(watch'), watch'.report # "task", HelperSeq(helpers'), view' \in View,
         view'.reported = view.reported, view'.cursor = view.cursor,
         UNCHANGED <<seen, native, history>>
  PROVE  Observer'
  <1>1. WatchInv'
    BY SoundStep DEF Observer, WatchInv, WatchTypeOK, native, history
  <1>2. FoldInv'
    BY DEF Observer, FoldInv, native, history
  <1>3. Evidence'
    BY DEF Observer, Evidence, StopsOnEvidence, history
  <1> QED BY <1>1, <1>2, <1>3 DEF Observer

(* A step that leaves the record of the observer alone. *)
LEMMA SameRecord ==
  ASSUME Observer, watch' = watch, HelperSeq(helpers'), helpers = <<>> => helpers' = <<>>,
         view' \in View,
         view'.reported = view.reported, view'.cursor = view.cursor,
         UNCHANGED <<seen, native, history>>
  PROVE  Observer'
  <1>1. WatchInv'
    BY DEF Observer, WatchInv, WatchTypeOK, Patience, Unbegun, NeverIdle, Observing, native,
           history, HelperSeq, View
  <1>2. FoldInv'
    BY DEF Observer, FoldInv, native, history
  <1>3. Evidence'
    BY DEF Observer, Evidence, StopsOnEvidence, history, native, RequiredPolls
  <1> QED BY <1>1, <1>2, <1>3 DEF Observer

LEMMA Typed ==
  ASSUME Observer
  PROVE  /\ WatchTypeOK /\ Patience /\ FoldInv /\ watch \in Watch /\ view \in View
         /\ HelperSeq(helpers) /\ HelperUp \in BOOLEAN
         /\ Observing => Patient(watch) /\ watch.report = "no" /\ watch.state = "on"
  BY DEF Observer, WatchInv, WatchTypeOK, Patience, View, HelperSeq, HelperUp, Observing, Patient

LEMMA HelperEnds ==
  ASSUME HelperSeq(helpers), NEW i \in DOMAIN helpers
  PROVE  HelperSeq([helpers EXCEPT ![i] = "gone"])
  BY DEF HelperSeq

LEMMA BeginsKeeps == Observer /\ WatchBegins => Observer'
  <1> SUFFICES ASSUME Observer, WatchBegins PROVE Observer'
    OBVIOUS
  <1> DEFINE on == [watch EXCEPT !.state = "on"]
  <1>1. watch.report = "no" /\ watch.streak < MAX_UNREADABLE_POLLS
    BY DEF WatchBegins, Observer, WatchInv, Unbegun, Patience
  <1>2. Patient(on) /\ on.report = "no"
    BY <1>1, Typed DEF Patient, Watch
  <1>3. HelperSeq(helpers) /\ Len(helpers) < HELPER_START_ATTEMPTS
    BY Limits, Typed DEF WatchBegins, Observer, WatchInv, Unbegun
  <1>4. Sound(watch') /\ watch'.report # "task" /\ HelperSeq(helpers')
    BY <1>2, <1>3, SpawnSound DEF WatchBegins
  <1> QED BY <1>4, Typed, OtherStep DEF WatchBegins

LEMMA SampleKeeps == Observer /\ SampleRead => Observer'
  <1> SUFFICES ASSUME Observer, SampleRead PROVE Observer'
    OBVIOUS
  <1> DEFINE read == [watch EXCEPT !.asked = "none", !.streak = 0, !.timer = "next"]
             Due == \E r \in Held : pending[r] = "escalated" \/ seen'[r] >= RequiredPolls(r)
  <1>1. /\ watch \in Watch /\ watch.state = "on" /\ watch.report = "no"
        /\ seen \in [Requests -> Nat] /\ stretch \in [Requests -> Nat] /\ seen = stretch
    BY Typed DEF SampleRead, Observer, Evidence, WatchTypeOK
  <1>2. /\ seen' = stretch' /\ seen' \in [Requests -> Nat]
        /\ UNCHANGED <<helpers, view, pending, finished, found>>
    BY <1>1 DEF SampleRead, Tracked, native
  <1>3. read \in Watch /\ read.state = "on" /\ read.report = "no" /\ read.streak = 0
        /\ read.timer = "next"
    BY <1>1, FreshStreak DEF Watch
  <1>4. watch' = IF Due THEN Reported(read, "task") ELSE read
    BY DEF SampleRead
  <1>5. Sound(watch')
    <2>1. CASE Due
      BY <1>3, <1>4, <2>1, ReportedSound DEF Reports
    <2>2. CASE ~Due
      <3>1. watch' = read
        BY <1>4, <2>2
      <3> QED BY <1>3, <3>1, Limits DEF Sound
    <2> QED BY <2>1, <2>2
  <1>6. WatchInv'
    BY <1>2, <1>5, Typed, SoundStep DEF WatchTypeOK
  <1>7. FoldInv'
    BY <1>2, Typed DEF FoldInv
  <1>8. Evidence'
    <2>1. CASE Due
      <3>1. PICK r \in Held : pending[r] = "escalated" \/ seen'[r] >= RequiredPolls(r)
        BY <2>1
      <3>2. r \in Requests /\ (pending'[r] = "escalated" \/ stretch'[r] >= RequiredPolls(r))
        BY <1>2, <3>1 DEF Held
      <3> QED BY <1>2, <3>2 DEF Evidence, StopsOnEvidence
    <2>2. CASE ~Due
      <3>1. watch'.report = "no"
        BY <1>3, <1>4, <2>2
      <3> QED BY <1>2, <3>1 DEF Evidence, StopsOnEvidence
    <2> QED BY <2>1, <2>2
  <1> QED BY <1>6, <1>7, <1>8 DEF Observer

LEMMA HelpersKeep == Observer /\ (HelperExits \/ PipeLost \/ RetiredEnds) => Observer'
  <1> SUFFICES ASSUME Observer, HelperExits \/ PipeLost \/ RetiredEnds PROVE Observer'
    OBVIOUS
  <1>0. HelperUp => Len(helpers) \in DOMAIN helpers /\ helpers # <<>>
    BY Typed DEF HelperUp, HelperSeq
  <1>1. CASE HelperExits
    <2> DEFINE hs == [helpers EXCEPT ![Len(helpers)] = "gone"]
    <2>1. HelperSeq(hs) /\ helpers # <<>>
      BY <1>0, <1>1, Typed, HelperEnds DEF HelperExits
    <2>2. CASE Observing
      <3>1. Lost(hs)
        BY <1>1, <2>2 DEF HelperExits
      <3>2. Sound(watch') /\ watch'.report # "task" /\ HelperSeq(helpers')
        BY <2>1, <2>2, <3>1, Typed, LostSound
      <3> QED BY <1>1, <3>2, Typed, OtherStep DEF HelperExits
    <2>3. CASE ~Observing
      <3>1. watch' = watch /\ helpers' = hs
        BY <1>1, <2>3 DEF HelperExits
      <3> QED BY <1>1, <2>1, <3>1, Typed, SameRecord DEF HelperExits
    <2> QED BY <2>2, <2>3
  <1>2. CASE PipeLost
    <2>1. Sound(watch') /\ watch'.report # "task" /\ HelperSeq(helpers')
      BY <1>2, Typed, LostSound DEF PipeLost
    <2> QED BY <1>2, <2>1, Typed, OtherStep DEF PipeLost
  <1>3. CASE RetiredEnds
    <2>1. PICK i \in DOMAIN helpers : helpers' = [helpers EXCEPT ![i] = "gone"]
      BY <1>3 DEF RetiredEnds
    <2>2. HelperSeq(helpers') /\ helpers # <<>>
      BY <2>1, Typed, HelperEnds DEF HelperSeq
    <2>3. CASE watch' = watch
      BY <1>3, <2>2, <2>3, Typed, SameRecord DEF RetiredEnds
    <2>4. CASE Observing /\ watch' = Skipped(watch)
      <3>1. Sound(watch') /\ watch'.report # "task"
        BY <2>4, Typed, SkippedSound
      <3> QED BY <1>3, <2>2, <3>1, Typed, OtherStep DEF RetiredEnds
    <2> QED BY <1>3, <2>3, <2>4 DEF RetiredEnds
  <1> QED BY <1>1, <1>2, <1>3

LEMMA AnswersKeep ==
  Observer /\ (InitializeAnswered \/ BadAnswer \/ JunkLine) => Observer'
  <1> SUFFICES ASSUME Observer, InitializeAnswered \/ BadAnswer \/ JunkLine PROVE Observer'
    OBVIOUS
  <1>0. Observing /\ Patient(watch) /\ watch.report = "no" /\ watch \in Watch
    BY Typed DEF InitializeAnswered, BadAnswer, JunkLine
  <1>1. CASE InitializeAnswered
    <2> DEFINE up == [watch EXCEPT !.asked = "none", !.initialized = TRUE, !.streak = 0]
    <2>1. up \in Watch /\ up.state = watch.state /\ up.report = "no" /\ up.streak = 0
      BY <1>0, FreshStreak DEF Watch
    <2>2. Patient(up)
      BY <1>0, <2>1, Limits DEF Patient
    <2>3. CASE Poll(up)
      <3>1. Sound(watch') /\ watch'.report # "task" /\ view' \in View
        BY <2>1, <2>2, <2>3, Typed, PollSound
      <3>2. view'.reported = view.reported /\ view'.cursor = view.cursor
        BY <2>3, Typed DEF Poll, ViewPolled, View
      <3> QED BY <1>1, <3>1, <3>2, Typed, OtherStep DEF InitializeAnswered
    <2>4. CASE watch' = Skipped(up) /\ UNCHANGED view
      <3>1. Sound(watch') /\ watch'.report # "task"
        BY <2>1, <2>2, <2>4, SkippedSound
      <3> QED BY <1>1, <2>4, <3>1, Typed, OtherStep DEF InitializeAnswered
    <2> QED BY <1>1, <2>3, <2>4 DEF InitializeAnswered
  <1>2. CASE BadAnswer
    <2> DEFINE answered == [watch EXCEPT !.asked = "none"]
    <2>1. answered \in Watch /\ answered.state # "off" /\ Patient(answered)
          /\ answered.report = "no"
      BY <1>0 DEF Patient, Watch
    <2>2. watch' \in {Reported(answered, "native"), Skipped(answered)}
      BY <1>2 DEF BadAnswer
    <2>3. Sound(watch') /\ watch'.report # "task"
      BY <2>1, <2>2, ReportedSound, SkippedSound DEF Reports
    <2> QED BY <1>2, <2>3, Typed, OtherStep DEF BadAnswer
  <1>3. CASE JunkLine
    <2>1. Sound(watch') /\ watch'.report # "task"
      BY <1>0, <1>3, SkippedSound DEF JunkLine
    <2> QED BY <1>3, <2>1, Typed, OtherStep DEF JunkLine
  <1> QED BY <1>1, <1>2, <1>3

LEMMA TimerKeeps == Observer /\ TimerFires => Observer'
  <1> SUFFICES ASSUME Observer, TimerFires PROVE Observer'
    OBVIOUS
  <1>0. Observing /\ Patient(watch) /\ watch.report = "no" /\ watch \in Watch
        /\ watch.initialized \in BOOLEAN
    BY Typed DEF TimerFires, Watch
  <1>1. CASE watch.timer = "reply" /\ watch.initialized
    <2>1. watch' = Skipped(watch) /\ UNCHANGED <<helpers, view>>
      BY <1>1 DEF TimerFires
    <2> QED BY <1>0, <2>1, SkippedSound, Typed, OtherStep DEF TimerFires
  <1>2. CASE watch.timer = "reply" /\ ~watch.initialized
    <2>1. StartAttemptFails(helpers) /\ UNCHANGED view
      BY <1>2 DEF TimerFires
    <2>2. Sound(watch') /\ watch'.report # "task" /\ HelperSeq(helpers')
      BY <1>0, <2>1, Typed, StartFailsSound
    <2> QED BY <2>1, <2>2, Typed, OtherStep DEF TimerFires
  <1>3. CASE watch.timer # "reply" /\ watch.initialized
    <2>1. Poll(watch) /\ UNCHANGED helpers
      BY <1>3 DEF TimerFires
    <2>2. Sound(watch') /\ watch'.report # "task" /\ view' \in View
      BY <1>0, <2>1, Typed, PollSound
    <2>3. view'.reported = view.reported /\ view'.cursor = view.cursor
      BY <2>1, Typed DEF Poll, ViewPolled, View
    <2> QED BY <2>1, <2>2, <2>3, Typed, OtherStep DEF TimerFires
  <1>4. CASE watch.timer # "reply" /\ ~watch.initialized
    <2>1. watch' \in Asking(watch, "initialize", HelperUp) /\ UNCHANGED <<helpers, view>>
      BY <1>4 DEF TimerFires
    <2>2. Sound(watch') /\ watch'.report # "task"
      BY <1>0, <2>1, Typed, AskingSound
    <2> QED BY <2>1, <2>2, Typed, OtherStep DEF TimerFires
  <1> QED BY <1>0, <1>1, <1>2, <1>3, <1>4

LEMMA ViewKeeps ==
  Observer /\ ((\E from \in 0 .. MaxCompactions : PageRead(from)) \/ PageFails) => Observer'
  <1> SUFFICES ASSUME Observer, (\E from \in 0 .. MaxCompactions : PageRead(from)) \/ PageFails
               PROVE  Observer'
    OBVIOUS
  <1>1. ASSUME NEW from \in 0 .. MaxCompactions, PageRead(from) PROVE Observer'
    <2>1. FoldInv' /\ found' \in Seq(1 .. MaxCompactions) /\ view' \in View
      BY <1>1, Typed, PageKeeps
    <2>2. UNCHANGED <<watch, helpers, seen, pending, finished, stretch>>
      BY <1>1 DEF PageRead, native
    <2>3. WatchInv'
      BY <2>1, <2>2 DEF Observer, WatchInv, WatchTypeOK, Patience, Unbegun, NeverIdle, Observing,
                        View
    <2>4. Evidence'
      BY <2>2 DEF Observer, Evidence, StopsOnEvidence, RequiredPolls
    <2> QED BY <2>1, <2>3, <2>4 DEF Observer
  <1>2. CASE PageFails
    <2>1. view' \in View /\ view'.reported = view.reported /\ view'.cursor = view.cursor
      <3>1. view' = [view EXCEPT !.inFlight = FALSE]
            \/ view' = [view EXCEPT !.inFlight = FALSE, !.enabled = FALSE]
        BY <1>2 DEF PageFails
      <3> QED BY <3>1, Typed DEF View
    <2> QED BY <1>2, <2>1, Typed, SameRecord DEF PageFails
  <1> QED BY <1>1, <1>2

LEMMA ClosesKeeps == Observer /\ WatchCloses => Observer'
  <1> SUFFICES ASSUME Observer, WatchCloses PROVE Observer'
    OBVIOUS
  <1>1. /\ watch' \in Watch /\ watch'.state = "closed"
        /\ watch'.report = watch.report /\ watch'.streak = watch.streak
    BY Typed DEF WatchCloses, Watch
  <1>2. HelperSeq(helpers')
    BY Typed DEF WatchCloses, HelperSeq
  <1>3. view' \in View /\ view'.reported = view.reported /\ view'.cursor = view.cursor
    BY Typed DEF WatchCloses, View
  <1>4. UNCHANGED <<seen, pending, finished, stretch, found>>
    BY DEF WatchCloses, native, history
  <1>5. WatchInv'
    BY <1>1, <1>2, <1>3, <1>4
       DEF Observer, WatchInv, WatchTypeOK, Patience, Unbegun, NeverIdle, Observing, HelperSeq, View
  <1>6. FoldInv'
    BY <1>3, <1>4 DEF Observer, FoldInv
  <1>7. Evidence'
    BY <1>1, <1>4 DEF Observer, Evidence, StopsOnEvidence, RequiredPolls
  <1> QED BY <1>5, <1>6, <1>7 DEF Observer

LEMMA NativeKeeps == Observer /\ watch.report = "no" /\ NativeStep => Observer'
  <1> SUFFICES ASSUME Observer, watch.report = "no", NativeStep PROVE Observer'
    OBVIOUS
  <1>1. UNCHANGED <<watch, helpers, seen, view, stretch, found>>
    BY DEF NativeStep, Raise, Resolve, Compact, history
  <1>2. pending' \in [Requests -> Pending] /\ finished \in 0 .. finished'
        /\ finished' \in 0 .. MaxCompactions
    <2>0. pending \in [Requests -> Pending] /\ finished \in 0 .. MaxCompactions
          /\ MaxCompactions \in Nat
      BY Typed, Limits DEF WatchTypeOK
    <2>1. ASSUME NEW r \in Requests, Raise(r) \/ Resolve(r)
          PROVE  pending' \in [Requests -> Pending] /\ finished' = finished
      BY <2>0, <2>1 DEF Raise, Resolve, Pending
    <2>2. ASSUME Compact
          PROVE  pending' = pending /\ finished' = finished + 1 /\ finished < MaxCompactions
      BY <2>2 DEF Compact
    <2> QED BY <2>0, <2>1, <2>2 DEF NativeStep
  <1>3. WatchInv'
    BY <1>1, <1>2
       DEF Observer, WatchInv, WatchTypeOK, Patience, Unbegun, NeverIdle, Observing
  <1>4. FoldInv'
    <2>1. PICK k \in 0 .. finished : /\ found = [i \in 1 .. k |-> i] /\ view.reported = 1 .. k
                                     /\ view.cursor <= k
      BY DEF Observer, FoldInv
    <2>2. k \in 0 .. finished'
      BY <1>2, <2>1
    <2> QED BY <1>1, <2>1, <2>2 DEF FoldInv
  <1>5. Evidence'
    BY <1>1 DEF Observer, Evidence, StopsOnEvidence
  <1> QED BY <1>3, <1>4, <1>5 DEF Observer

LEMMA WatchStepKeeps == Observer /\ WatchStep => Observer'
  BY SampleKeeps, HelpersKeep, AnswersKeep, TimerKeeps, ViewKeeps DEF WatchStep

-----------------------------------------------------------------------------
(* The observed turn *)

LEMMA ObserverInit == WatchInit => Observer
  <1> SUFFICES ASSUME WatchInit PROVE Observer
    OBVIOUS
  <1>1. WatchInv
    BY FreshStreak, Limits DEF WatchInit, WatchInv, WatchTypeOK, Patience, Unbegun, NeverIdle,
       Observing, Watch, Pending
  <1>2. FoldInv
    <2>1. 0 \in 0 .. finished /\ found = [i \in 1 .. 0 |-> i] /\ view.reported = 1 .. 0
          /\ view.cursor <= 0
      BY DEF WatchInit
    <2> QED BY <2>1 DEF FoldInv
  <1>3. Evidence
    BY DEF WatchInit, Evidence, StopsOnEvidence
  <1> QED BY <1>1, <1>2, <1>3 DEF Observer

LEMMA ObserverStep == Observer /\ [MuseNext]_museVars => Observer'
  <1> SUFFICES ASSUME Observer, [MuseNext]_museVars PROVE Observer'
    OBVIOUS
  <1>1. CASE UNCHANGED watchVars
    BY <1>1 DEF watchVars, native, history, Observer, WatchInv, WatchTypeOK, Patience, Unbegun,
                NeverIdle, Observing, FoldInv, Evidence, StopsOnEvidence, RequiredPolls
  <1>2. CASE UNCHANGED museVars
    BY <1>1, <1>2 DEF museVars, bothVars
  <1>3. CASE TurnStarts \/ MusePumps \/ TurnStops \/ TurnFinishes \/ DeliverReaped \/ ReturnReaped
    BY <1>1, <1>3 DEF TurnStarts, MusePumps, TurnStops, TurnFinishes, DeliverReaped, ReturnReaped
  <1>4. CASE ObserverBegins
    BY <1>4, BeginsKeeps DEF ObserverBegins
  <1>5. CASE ObserverSteps
    BY <1>5, WatchStepKeeps DEF ObserverSteps
  <1>6. CASE NativeSteps
    BY <1>6, NativeKeeps DEF NativeSteps
  <1>7. CASE ObserverCloses
    BY <1>7, ClosesKeeps DEF ObserverCloses
  <1>8. CASE LeaveWatching
    BY <1>1, <1>8, ClosesKeeps DEF LeaveWatching, CloseIfWatching
  <1> QED BY <1>2, <1>3, <1>4, <1>5, <1>6, <1>7, <1>8 DEF MuseNext

LEMMA ObserverHolds == MuseSpec => []Observer
  <1>1. MuseInit => Observer
    BY ObserverInit DEF MuseInit
  <1> QED BY <1>1, ObserverStep, PTL DEF MuseSpec

(* What the observer of execution/muse-approvals.ts tells its turn is true, and
   it never stops looking: it stops a turn for a request only on that request's
   own evidence, hands over every compaction once and in order whatever pages
   overlap or fail, and until it reports a timer of its own is running. *)
THEOREM ObserverTruthful == MuseSpec => []WatchTruthful
  <1>1. Observer => WatchTruthful
    <2> SUFFICES ASSUME Observer PROVE WatchTruthful
      OBVIOUS
    <2>1. StopsOnEvidence /\ NeverIdle
      BY DEF Observer, Evidence, WatchInv
    <2>2. finished \in Nat
      BY Limits, Typed DEF WatchTypeOK
    <2> QED BY <2>1, <2>2, FoldShown DEF Observer, WatchTruthful
  <1> QED BY <1>1, ObserverHolds, PTL

(* A report stands. *)
LEMMA ReportStands ==
  ASSUME Observer, WatchBegins \/ WatchStep
  PROVE  /\ watch.report # "no" => watch'.report = watch.report
         /\ watch'.report # watch.report => watch'.report \in Reports
  <1>1. watch.report # "no" => watch'.report = watch.report
    BY DEF Observer, WatchInv, Unbegun, WatchBegins, WatchStep, HelperExits, PipeLost, RetiredEnds,
           InitializeAnswered, SampleRead, BadAnswer, JunkLine, TimerFires, PageRead, PageFails,
           Observing
  <1>2. Observer'
    BY BeginsKeeps, WatchStepKeeps
  <1>3. watch \in Watch /\ watch' \in Watch
    BY <1>2 DEF Observer, WatchInv, WatchTypeOK
  <1> QED BY <1>1, <1>3 DEF Watch

(* What StreamTurn is told by the observer. *)
LEMMA StopTold ==
  ASSUME Observer, WatchBegins \/ WatchStep, StopForApproval
  PROVE  /\ UNCHANGED vars \/ \E c \in {"task", "transport", "native"} : ApprovalStop(c)
         /\ UNCHANGED blocked \/ blocked' = watch'.report
  <1>1. CASE watch'.report # watch.report /\ ~StopIgnored
    <2>1. ApprovalStop(watch'.report) /\ watch'.report \in {"task", "transport", "native"}
      BY <1>1, ReportStands DEF StopForApproval, Reports
    <2> QED BY <2>1 DEF ApprovalStop
  <1>2. CASE ~(watch'.report # watch.report /\ ~StopIgnored)
    BY <1>2 DEF StopForApproval, vars, stops
  <1> QED BY <1>1, <1>2

LEMMA MuseStepIsTurnStep == Observer /\ [MuseNext]_museVars => [Next]_vars
  <1> SUFFICES ASSUME Observer, [MuseNext]_museVars PROVE [Next]_vars
    OBVIOUS
  <1>1. CASE UNCHANGED museVars \/ NativeSteps \/ ObserverCloses
    BY <1>1 DEF museVars, bothVars, NativeSteps, ObserverCloses
  <1>2. CASE TurnStarts \/ MusePumps
    BY <1>2 DEF TurnStarts, MusePumps, Next
  <1>3. CASE TurnStops
    BY <1>3 DEF TurnStops, Stop, Next
  <1>4. CASE TurnFinishes \/ DeliverReaped \/ LeaveWatching \/ ReturnReaped
    BY <1>4 DEF TurnFinishes, DeliverReaped, LeaveWatching, ReturnReaped, Finish, Next
  <1>5. CASE ObserverBegins \/ ObserverSteps
    <2>1. UNCHANGED vars \/ \E c \in {"task", "transport", "native"} : ApprovalStop(c)
      BY <1>5, StopTold DEF ObserverBegins, ObserverSteps
    <2> QED BY <2>1 DEF Stop, Next
  <1> QED BY <1>1, <1>2, <1>3, <1>4, <1>5 DEF MuseNext

(* A turn with an approval observer is a turn: whatever the observer and its
   helpers do, streamTurn takes no step it could not take without them.  So
   every theorem above about a turn is about observed turns too. *)
THEOREM ObservedTurnIsATurn == MuseSpec => Spec
  <1>1. MuseInit => Init
    BY DEF MuseInit
  <1> QED BY <1>1, ObserverHolds, MuseStepIsTurnStep, PTL DEF MuseSpec, Spec

(* done of an observed turn weighs exactly the failures its consumer was shown,
   the observer's among them. *)
THEOREM ObservedVerdict == MuseSpec => []VerdictFollowsStream
  BY ObservedTurnIsATurn, VerdictIsWhatWasShown, PTL

(* An observed turn reported clean was clean. *)
THEOREM ObservedCleanTurn == MuseSpec => []CleanIsClean
  BY ObservedTurnIsATurn, CleanTurnIsClean, PTL

(* The reason an observed turn was stopped is decided once, whoever races the
   observer for it. *)
THEOREM ObservedReason == MuseSpec => StopsOnce
  BY ObservedTurnIsATurn, OneReasonToStop, PTL

-----------------------------------------------------------------------------
(* The reason an approval stopped a turn is the one its observer gave. *)
StoppedAsReported == blocked # "no" => blocked = watch.report

LEMMA ReasonStep ==
  Observer /\ StoppedAsReported /\ [MuseNext]_museVars => StoppedAsReported'
  <1> SUFFICES ASSUME Observer, StoppedAsReported, [MuseNext]_museVars PROVE StoppedAsReported'
    OBVIOUS
  <1>1. CASE UNCHANGED <<blocked, watchVars>>
    BY <1>1 DEF StoppedAsReported, watchVars
  <1>2. CASE UNCHANGED museVars \/ NativeSteps \/ ObserverCloses
    <2>1. UNCHANGED blocked
      BY <1>2 DEF museVars, bothVars, vars, stops, NativeSteps, ObserverCloses
    <2>2. watch'.report = watch.report
      BY <1>2, Typed DEF museVars, bothVars, watchVars, NativeSteps, NativeStep, Raise, Resolve,
                         Compact, ObserverCloses, WatchCloses, Watch
    <2> QED BY <2>1, <2>2 DEF StoppedAsReported
  <1>3. CASE TurnStarts
    BY <1>1, <1>3 DEF TurnStarts, Start, Refuse, SpawnThrows, Spawn, stops
  <1>4. CASE MusePumps
    <2>1. UNCHANGED blocked
      BY <1>4 DEF MusePumps, Pumps, ReadStdout, ReadStderr, Reading, PumpEnds, PumpBreaks,
                  PumpRecovers, stops
    <2> QED BY <1>1, <1>4, <2>1 DEF MusePumps
  <1>5. CASE TurnStops
    <2>1. UNCHANGED blocked
      BY <1>5 DEF TurnStops, OwnStop, Abort, StallFires, DeadlineFires, InputFails, KillFires,
                  Exits, GraceFires, stops
    <2> QED BY <1>1, <1>5, <2>1 DEF TurnStops
  <1>6. CASE TurnFinishes
    <2>1. UNCHANGED blocked
      BY <1>6 DEF TurnFinishes, Verdict, Close, Startup, Credential, Fallback, StopFailure, Judge,
                  After, stops
    <2> QED BY <1>1, <1>6, <2>1 DEF TurnFinishes
  <1>7. CASE DeliverReaped \/ ReturnReaped
    BY <1>1, <1>7 DEF DeliverReaped, ReturnReaped, Deliver, Return, stops
  <1>8. CASE LeaveWatching
    <2>1. UNCHANGED blocked
      BY <1>8 DEF LeaveWatching, Leave, stops
    <2>2. watch'.report = watch.report
      BY <1>8, Typed DEF LeaveWatching, CloseIfWatching, WatchCloses, watchVars, Watch
    <2> QED BY <2>1, <2>2 DEF StoppedAsReported
  <1>9. CASE ObserverBegins \/ ObserverSteps
    <2>1. WatchBegins \/ WatchStep
      BY <1>9 DEF ObserverBegins, ObserverSteps
    <2>2. UNCHANGED blocked \/ blocked' = watch'.report
      BY <1>9, <2>1, StopTold DEF ObserverBegins, ObserverSteps
    <2>3. watch.report # "no" => watch'.report = watch.report
      BY <2>1, ReportStands
    <2> QED BY <2>2, <2>3 DEF StoppedAsReported
  <1> QED BY <1>2, <1>3, <1>4, <1>5, <1>6, <1>7, <1>8, <1>9 DEF MuseNext

(* The failure a turn stopped for an approval reports is what its observer
   told it, and stays so whatever the helpers do while the turn ends. *)
THEOREM StoppedForTheReason == MuseSpec => []StoppedAsReported
  <1>1. MuseInit => StoppedAsReported
    BY DEF MuseInit, Init, StoppedAsReported
  <1> QED BY <1>1, ObserverHolds, ReasonStep, PTL DEF MuseSpec

=============================================================================
