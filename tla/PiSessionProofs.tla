--------------------------- MODULE PiSessionProofs ---------------------------
(***************************************************************************)
(* Proofs about PiSession, for every number of sends and interrupts and    *)
(* every environment: type correctness, the receipt ledger, the gate, that *)
(* the session implements SendContract, that its turns follow pi's runs,   *)
(* that an interrupt takes its own target's settlement, and that a         *)
(* draining close waits for the turn.                                      *)
(***************************************************************************)
EXTENDS PiSession, TLAPS

---------------------------------------------------------------------------
(* Type lemmas about the operators handlers are built from *)

(* Publishing a turn, blaming it, opening one yields a turn. *)
LEMMA TurnTypes ==
  ASSUME TypeOK, NEW t \in Turn, NEW f \in SUBSET Faults
  PROVE  /\ Publish(t) \in Turn /\ Publish(t).no = t.no /\ Publish(t).opener = t.opener
         /\ Blame(t, f) \in Turn
  <1>1. Publish(t) \in Turn /\ Publish(t).no = t.no /\ Publish(t).opener = t.opener
    BY DEF Publish, Turn, Faults
  <1>2. Blame(t, f) \in Turn
    BY <1>1 DEF Blame, Turn
  <1> QED BY <1>1, <1>2

LEMMA NewTurnType ==
  ASSUME TypeOK, NEW s \in Sends, NEW t \in Turn
  PROVE  /\ NewTurn(s) \in Turn /\ NewTurn(s).no = turnCount + 1 /\ NewTurn(s).opener = s
         /\ OpenFor(s, t) \in Turn
  BY DEF TypeOK, NewTurn, Turn, OpenFor

LEMMA NoTurnType == NoTurn \in Turn
  BY DEF NoTurn, Turn

LEMMA OverType ==
  ASSUME TypeOK, NEW t \in Turn, NEW base \in Causes, NEW by \in Settlements
  PROVE  Over(t, base, by) \in EndedTurn
  <1>1. Publish(t) \in Turn
    BY TurnTypes, {} \in SUBSET Faults
  <1>2. Verdict(base, Publish(t).faults) \in Causes
    BY DEF Verdict, Causes
  <1> QED BY <1>1, <1>2 DEF Over, EndedTurn, Turn, Causes

LEMMA EndsType ==
  ASSUME TypeOK, NEW t \in Turn, NEW base \in Causes, NEW by \in Settlements,
         Ends(t, base, by)
  PROVE  ended' \subseteq EndedTurn
  BY OverType DEF Ends, TypeOK

LEMMA TurnsMovedType ==
  ASSUME TypeOK, TurnsMoved, turn' \in Turn
  PROVE  turnCount' \in Nat /\ parked' \in BOOLEAN
  BY DEF TurnsMoved, TypeOK, Turn

LEMMA SettleType ==
  ASSUME NEW f \in [Sends -> Outcomes], NEW s \in Sends, NEW v \in Outcomes
  PROVE  Settle(f, s, v) \in [Sends -> Outcomes]
  BY DEF Settle

LEMMA ObservedType ==
  ASSUME TypeOK, NEW t \in Turn, NEW fate \in Fates
  PROVE  Observed(t, fate) \in [Interrupts -> Interrupt]
  <1> SUFFICES ASSUME NEW i \in Interrupts PROVE Observed(t, fate)[i] \in Interrupt
    BY DEF Observed
  <1>1. intr[i] \in Interrupt /\ fate \in InterruptReceipts
    BY DEF TypeOK, Fates, InterruptReceipts
  <1>2. /\ [intr[i] EXCEPT !.phase = "over", !.receipt = fate] \in Interrupt
        /\ [intr[i] EXCEPT !.seen = fate] \in Interrupt
    BY ONLY <1>1, fate \in Fates DEF Interrupt
  <1> QED BY <1>1, <1>2 DEF Observed

LEMMA ConcludedType ==
  ASSUME TypeOK, NEW i \in Interrupts, NEW r \in InterruptReceipts
  PROVE  Concluded(i, r) \in [Interrupts -> Interrupt]
  BY DEF TypeOK, Concluded, Interrupt

LEMMA FreeGateType ==
  ASSUME TypeOK, NEW s \in Sends \cup {0}, NEW t \in Turn,
         NEW result \in [Sends -> Outcomes], NEW left \in SUBSET Sends,
         FreeGate(s, t, result, left)
  PROVE  /\ outcome' \in [Sends -> Outcomes]
         /\ awaiting' \subseteq Sends
         /\ held' \in Seq(Sends)
         /\ gate' \in Sends \cup {0}
         /\ written' \in Seq(Sends)
         /\ turn' \in Turn
         /\ closing' \in BOOLEAN /\ wireClosed' \in BOOLEAN
         /\ signal' \in {"none", "term", "kill"}
  <1>1. CASE WriteNextHold(t, result, left)
    <2>1. CASE held = <<>> \/ dead \/ wireClosed
      BY <1>1, <2>1 DEF WriteNextHold, TypeOK, PipeHolds
    <2>2. CASE held # <<>> /\ ~dead /\ ~wireClosed
      <3>1. Head(held) \in Sends /\ Tail(held) \in Seq(Sends)
        BY <2>2 DEF TypeOK
      <3>2. OpenFor(Head(held), t) \in Turn /\ Blame(t, {"error"}) \in Turn
        BY <3>1, NewTurnType, TurnTypes DEF Faults
      <3>3. Settle(result, Head(held), "write-failed") \in [Sends -> Outcomes]
        BY <3>1, SettleType DEF Outcomes
      <3>4. Append(written, Head(held)) \in Seq(Sends)
        BY <3>1 DEF TypeOK
      <3> QED
        BY <1>1, <2>2, <3>1, <3>2, <3>3, <3>4
        DEF WriteNextHold, TypeOK, PipeHolds, PipeBreaks, Escalated
    <2> QED BY <2>1, <2>2
  <1>2. CASE turn' = t /\ outcome' = result /\ awaiting' = left /\ PipeHolds
             /\ UNCHANGED <<gate, held, written>>
    BY <1>2 DEF TypeOK, PipeHolds
  <1> QED BY <1>1, <1>2 DEF FreeGate

(* A settlement of the active turn. *)
LEMMA TypeSettles ==
  ASSUME TypeOK, NEW b \in BOOLEAN, TurnSettles(b)
  PROVE  /\ turn' \in Turn /\ ended' \subseteq EndedTurn
         /\ intr' \in [Interrupts -> Interrupt]
         /\ turnCount' \in Nat /\ parked' \in BOOLEAN
         /\ closer' \in {"none", "waiting", "woken", "drained", "abandoned", "graced"}
  <1>1. turn' \in Turn /\ turn \in Turn
    BY NoTurnType DEF TurnSettles, TypeOK
  <1>2. SettledBase(turn) \in Causes
    BY DEF SettledBase, Causes
  <1>3. ended' \subseteq EndedTurn
    <2>1. CASE b BY <1>1, <1>2, <2>1, EndsType DEF TurnSettles, Settlements
    <2>2. CASE ~b BY <1>1, <1>2, <2>2, EndsType DEF TurnSettles, Settlements
    <2> QED BY <2>1, <2>2
  <1>4. intr' \in [Interrupts -> Interrupt]
    <2>1. Fate(b) \in Fates BY DEF Fate, Fates
    <2> QED BY <1>1, <2>1, ObservedType DEF TurnSettles
  <1>5. turnCount' \in Nat /\ parked' \in BOOLEAN
    BY <1>1, TurnsMovedType DEF TurnSettles
  <1> QED BY <1>1, <1>3, <1>4, <1>5 DEF TurnSettles, TypeOK, Waken

LEMMA DrainType ==
  ASSUME TypeOK, DrainOrEnd
  PROVE  closer' \in {"waiting", "drained"} /\ wireClosed' \in BOOLEAN
  <1>1. CASE closer' = "waiting" /\ UNCHANGED wireClosed BY <1>1 DEF TypeOK
  <1>2. CASE closer' = "drained" /\ wireClosed' = TRUE BY <1>2
  <1> QED BY <1>1, <1>2 DEF DrainOrEnd

---------------------------------------------------------------------------
(* Type correctness *)

LEMMA TypeInit == Init => TypeOK
  <1> SUFFICES ASSUME Init PROVE TypeOK OBVIOUS
  <1>1. NoTurn \in Turn BY NoTurnType
  <1>2. 0 \in 0 .. MaxSends BY SendsAssumption
  <1>3. intr \in [Interrupts -> Interrupt]
    BY DEF Init, Interrupt, Fates, InterruptReceipts
  <1>4. pump \in Pump /\ stderr \in [wall : {"none"} \cup Walls, on : Nat]
    BY DEF Init, Reading, Pump, Scanning
  <1>5. /\ outcome \in [Sends -> Outcomes] /\ answer \in [Sends -> Answers]
        /\ held \in Seq(Sends) /\ written \in Seq(Sends)
    BY DEF Init, Outcomes, Answers
  <1>6. /\ awaiting \subseteq Sends /\ ended \subseteq EndedTurn /\ gate \in Sends \cup {0}
        /\ nrun \in Sends \cup {0} /\ turnCount \in Nat
    BY DEF Init
  <1> QED
    BY <1>1, <1>2, <1>3, <1>4, <1>5, <1>6 DEF Init, TypeOK

(* The caller's calls keep the types. *)
LEMMA TypeCaller == TypeOK /\ Caller => TypeOK'
  <1> SUFFICES ASSUME TypeOK, Caller PROVE TypeOK' OBVIOUS
  <1> USE DEF sends, turns, life, native, pumps
  <1>0. \A s \in Sends : Accept(s) => sent' \in 0 .. MaxSends
    BY SendsAssumption DEF Accept, Sends, TypeOK
  <1>1. ASSUME NEW s \in Sends, SendHeld(s) PROVE TypeOK'
    BY <1>0, <1>1 DEF SendHeld, TypeOK
  <1>2. ASSUME NEW s \in Sends, SendWritten(s) PROVE TypeOK'
    <2>1. turn' \in Turn
      BY <1>2, NewTurnType DEF SendWritten, TypeOK
    <2> QED BY <1>0, <1>2, <2>1, TurnsMovedType DEF SendWritten, TypeOK
  <1>3. ASSUME NEW s \in Sends, SendFails(s) PROVE TypeOK'
    <2>1. turn' \in Turn
      BY <1>3, TurnTypes DEF SendFails, TypeOK, Faults
    <2> QED BY <1>0, <1>3, <2>1, TurnsMovedType
            DEF SendFails, PipeBreaks, Escalated, TypeOK, Outcomes
  <1>4. ASSUME NEW i \in Interrupts, InterruptWritten(i) PROVE TypeOK'
    <2>1. intr' \in [Interrupts -> Interrupt]
      <3>1. intr \in [Interrupts -> Interrupt] /\ turn.no \in Nat
        BY DEF TypeOK, Turn
      <3>2. [intr[i] EXCEPT !.phase = "asked", !.target = turn.no] \in Interrupt
        BY <3>1 DEF Interrupt
      <3> QED BY <1>4, <3>1, <3>2 DEF InterruptWritten
    <2> QED BY <1>4, <2>1 DEF InterruptWritten, TypeOK
  <1>5. ASSUME NEW i \in Interrupts, InterruptFails(i) PROVE TypeOK'
    <2>1. turn' \in Turn
      BY <1>5, TurnTypes DEF InterruptFails, TypeOK, Faults
    <2>2. intr' \in [Interrupts -> Interrupt]
      BY <1>5, ConcludedType DEF InterruptFails, InterruptReceipts
    <2> QED BY <1>5, <2>1, <2>2, TurnsMovedType DEF InterruptFails, PipeBreaks, Escalated, TypeOK
  <1>6. CASE Close
    BY <1>6, DrainType DEF Close, TypeOK
  <1>7. CASE Abandon
    BY <1>7 DEF Abandon, TypeOK
  <1> QED BY <1>1, <1>2, <1>3, <1>4, <1>5, <1>6, <1>7 DEF Caller

(* The records the pump reads keep the types. *)
LEMMA TypeHarness == TypeOK /\ Harness => TypeOK'
  <1> SUFFICES ASSUME TypeOK, Harness PROVE TypeOK' OBVIOUS
  <1> USE DEF sends, turns, life, native, pumps
  <1>0. /\ NoTurn \in Turn /\ turn \in Turn /\ {} \in SUBSET Faults
        /\ Waken(closer) \in {"none", "waiting", "woken", "drained", "abandoned", "graced"}
    BY NoTurnType DEF TypeOK, Waken
  <1>1. ASSUME NEW s \in Sends, NEW d \in {"started", "queued"}, ReceiptRead(s, d)
        PROVE TypeOK'
    <2>1. PICK t \in Turn : FreeGate(s, t, Settle(outcome, s, "started"), awaiting \ {s})
      <3> DEFINE shown == IF s = turn.opener THEN Publish(turn) ELSE turn
                 open == IF shown.no = 0 /\ d # "queued" THEN Publish(NewTurn(s)) ELSE shown
                 known == [open EXCEPT !.accepted = @ \/ s = open.opener]
      <3>1. shown \in Turn BY <1>0, TurnTypes
      <3>2. open \in Turn BY <3>1, <1>0, TurnTypes, NewTurnType
      <3>3. known \in Turn BY <3>2 DEF Turn
      <3>4. FreeGate(s, known, Settle(outcome, s, "started"), awaiting \ {s})
        BY <1>1 DEF ReceiptRead
      <3> QED BY <3>3, <3>4
    <2>2. Settle(outcome, s, "started") \in [Sends -> Outcomes]
      BY SettleType DEF TypeOK, Outcomes
    <2>3. awaiting \ {s} \in SUBSET Sends BY DEF TypeOK
    <2>4. answer' \in [Sends -> Answers] /\ nrun' \in Sends \cup {0}
      BY <1>1 DEF ReceiptRead, NativeReceipt, TypeOK, Answers
    <2>5. turn' \in Turn BY <2>1, <2>2, <2>3, FreeGateType
    <2> QED BY <1>1, <2>1, <2>2, <2>3, <2>4, <2>5, FreeGateType, TurnsMovedType
            DEF ReceiptRead, TypeOK
  <1>2. ASSUME NEW s \in Sends, HandledRead(s) PROVE TypeOK'
    <2>1. PICK t \in Turn : FreeGate(s, t, Settle(outcome, s, "started"), awaiting \ {s})
      BY <1>2, <1>0 DEF HandledRead
    <2>2. Settle(outcome, s, "started") \in [Sends -> Outcomes]
      BY SettleType DEF TypeOK, Outcomes
    <2>3. awaiting \ {s} \in SUBSET Sends BY DEF TypeOK
    <2>4. answer' \in [Sends -> Answers]
      BY <1>2 DEF HandledRead, TypeOK, Answers
    <2>5. turn' \in Turn BY <2>1, <2>2, <2>3, FreeGateType
    <2>6. Retired(turn) \in EndedTurn
      BY <1>0 DEF Retired, EndedTurn, Turn, Settlements
    <2>7. Over(turn, "clean", "handled") \in EndedTurn
      BY <1>0, OverType DEF Causes, Settlements
    <2>8. ended' \subseteq EndedTurn
      BY <1>2, <2>6, <2>7 DEF HandledRead, TypeOK
    <2>9. intr' \in [Interrupts -> Interrupt]
      BY <1>2, <1>0, ObservedType DEF HandledRead, TypeOK, Fates
    <2> QED BY <1>0, <1>2, <2>1, <2>2, <2>3, <2>4, <2>5, <2>8, <2>9, FreeGateType, TurnsMovedType
            DEF HandledRead, TypeOK
  <1>3. ASSUME NEW s \in Sends \cup {0}, RefusalRead(s) PROVE TypeOK'
    <2>1. turn' \in Turn
      BY <1>3, TurnTypes DEF RefusalRead, TypeOK, Faults
    <2>2. answer' \in [Sends -> Answers]
      BY <1>3 DEF RefusalRead, TypeOK, Answers
    <2>3. outcome' \in [Sends -> Outcomes]
      BY <1>3, SettleType DEF RefusalRead, TypeOK, Outcomes
    <2>4. pump' \in Pump
      BY <1>3, <1>0 DEF RefusalRead, Pump, Turn
    <2> QED BY <1>3, <2>1, <2>2, <2>3, <2>4, TurnsMovedType DEF RefusalRead, TypeOK
  <1>4. CASE OutputRead
    <2>1. turn' \in Turn BY <1>4, <1>0, TurnTypes DEF OutputRead
    <2> QED BY <1>4, <2>1, TurnsMovedType DEF OutputRead, TypeOK
  <1>5. ASSUME NEW w \in Walls, WallRead(w) PROVE TypeOK'
    <2>1. Blame(turn, {"failure"}) \in Turn BY <1>0, TurnTypes DEF Faults
    <2>2. [turn EXCEPT !.faults = @ \cup {"limit"}] \in Turn BY <1>0 DEF Turn, Faults
    <2>3. turn' \in Turn BY <1>5, <2>1, <2>2, <1>0 DEF WallRead
    <2>4. stderr' \in [wall : {"none"} \cup Walls, on : Nat]
      BY <1>5, <1>0 DEF WallRead, Turn
    <2>5. parked' \in BOOLEAN /\ limitSeen' \in BOOLEAN
      <3>1. CASE w = "limit" BY <1>5, <3>1 DEF WallRead, TypeOK
      <3>2. CASE w # "limit" BY <1>5, <3>2 DEF WallRead, TypeOK
      <3> QED BY <3>1, <3>2
    <2> QED BY <1>5, <2>3, <2>4, <2>5 DEF WallRead, TypeOK
  <1>6. ASSUME NEW b \in BOOLEAN, SettlementRead(b) PROVE TypeOK'
    BY <1>6, TypeSettles DEF SettlementRead, TypeOK
  <1>7. ASSUME NEW b \in BOOLEAN, NEW e \in {"error", "failure"}, SettlementHeld(b, e)
        PROVE TypeOK'
    <2>1. turn' \in Turn BY <1>7, <1>0, TurnTypes DEF SettlementHeld, Faults
    <2>2. pump' \in Pump BY <1>7, <1>0 DEF SettlementHeld, Pump, Turn
    <2> QED BY <1>7, <2>1, <2>2 DEF SettlementHeld, TypeOK
  <1>8. ASSUME NEW i \in Interrupts, NEW b \in BOOLEAN, InterruptAnswered(i, b) PROVE TypeOK'
    <2>1. intr[i].seen \in InterruptReceipts
      BY DEF TypeOK, Interrupt, InterruptReceipts
    <2>2. [intr EXCEPT ![i].phase = "bound"] \in [Interrupts -> Interrupt]
      BY DEF TypeOK, Interrupt
    <2>3. /\ Concluded(i, "native-rejected") \in [Interrupts -> Interrupt]
          /\ Concluded(i, "not-active") \in [Interrupts -> Interrupt]
          /\ Concluded(i, intr[i].seen) \in [Interrupts -> Interrupt]
      BY <2>1, ConcludedType DEF InterruptReceipts, Fates
    <2>4. intr \in [Interrupts -> Interrupt] BY DEF TypeOK
    <2>5. \/ intr' = Concluded(i, "native-rejected") \/ intr' = Concluded(i, "not-active")
          \/ intr' = intr \/ intr' = Concluded(i, intr[i].seen)
          \/ intr' = [intr EXCEPT ![i].phase = "bound"]
      BY <1>8 DEF InterruptAnswered
    <2>6. intr' \in [Interrupts -> Interrupt]
      BY <2>2, <2>3, <2>4, <2>5
    <2> QED BY <1>8, <2>6 DEF InterruptAnswered, TypeOK
  <1> QED BY <1>1, <1>2, <1>3, <1>4, <1>5, <1>6, <1>7, <1>8 DEF Harness

(* The pump's continuations keep the types. *)
LEMMA TypePump == TypeOK /\ PumpResumes => TypeOK'
  <1> SUFFICES ASSUME TypeOK, PumpResumes PROVE TypeOK' OBVIOUS
  <1> USE DEF sends, turns, life, native, pumps
  <1>0. /\ NoTurn \in Turn /\ turn \in Turn /\ Reading \in Pump
        /\ pump.send \in Sends \cup {0} /\ pump.aborted \in BOOLEAN
        /\ outcome \in [Sends -> Outcomes] /\ awaiting \in SUBSET Sends
        /\ Waken(closer) \in {"none", "waiting", "woken", "drained", "abandoned", "graced"}
    BY NoTurnType DEF TypeOK, Waken, Reading, Pump
  <1>1. CASE RefusalPassed
    <2>1. /\ outcome' \in [Sends -> Outcomes] /\ awaiting' \subseteq Sends
          /\ held' \in Seq(Sends) /\ gate' \in Sends \cup {0} /\ written' \in Seq(Sends)
          /\ turn' \in Turn /\ closing' \in BOOLEAN /\ wireClosed' \in BOOLEAN
          /\ signal' \in {"none", "term", "kill"}
      BY <1>1, <1>0, FreeGateType DEF RefusalPassed
    <2> QED BY <1>1, <1>0, <2>1, TurnsMovedType DEF RefusalPassed, TypeOK
  <1>2. CASE FailurePushed
    <2>1. turn' \in Turn BY <1>2, <1>0, TurnTypes DEF FailurePushed, Faults
    <2>2. pump' \in Pump
      BY <1>2, <1>0 DEF FailurePushed, TypeOK, Pump, Turn
    <2> QED BY <1>2, <2>1, <2>2 DEF FailurePushed, TypeOK
  <1>3. CASE RefusalEnds
    <2>1. turn' \in Turn BY <1>3, <1>0, FreeGateType DEF RefusalEnds
    <2>2. ended' \subseteq EndedTurn
      BY <1>3, <1>0, EndsType DEF RefusalEnds, Causes, Settlements
    <2>3. intr' \in [Interrupts -> Interrupt]
      BY <1>3, <1>0, ObservedType DEF RefusalEnds, Fates
    <2> QED BY <1>3, <1>0, <2>1, <2>2, <2>3, FreeGateType, TurnsMovedType DEF RefusalEnds, TypeOK
  <1>4. CASE SettlementEnds
    BY <1>4, <1>0, TypeSettles DEF SettlementEnds, TypeOK
  <1>5. CASE WallPassed
    <2>1. turn' \in Turn BY <1>5, <1>0, TurnTypes DEF WallPassed, Faults
    <2>2. stderr' \in [wall : {"none"} \cup Walls, on : Nat]
      BY <1>5 DEF WallPassed, Scanning
    <2> QED BY <1>5, <2>1, <2>2 DEF WallPassed, TypeOK
  <1> QED BY <1>1, <1>2, <1>3, <1>4, <1>5 DEF PumpResumes

(* Timers, the process and finalize keep the types. *)
LEMMA TypeProcess == TypeOK /\ Process => TypeOK'
  <1> SUFFICES ASSUME TypeOK, Process PROVE TypeOK' OBVIOUS
  <1> USE DEF sends, turns, life, native, pumps
  <1>0. /\ NoTurn \in Turn /\ turn \in Turn
        /\ Waken(closer) \in {"none", "waiting", "woken", "drained", "abandoned", "graced"}
    BY NoTurnType DEF TypeOK, Waken
  <1>1. CASE Stall
    <2>1. Blame(turn, {"failure"}) \in Turn
      BY <1>0, TurnTypes DEF Faults
    <2>2. ended' \subseteq EndedTurn
      BY <1>1, <2>1, EndsType DEF Stall, Causes, Settlements
    <2> QED BY <1>1, <1>0, <2>2, TurnsMovedType DEF Stall, Escalated, TypeOK
  <1>2. CASE CloseGrace
    BY <1>2 DEF CloseGrace, Escalated, TypeOK
  <1>3. CASE KillGrace
    BY <1>3 DEF KillGrace, TypeOK
  <1>4. CASE InputError
    <2>1. turn' \in Turn BY <1>4, <1>0, TurnTypes DEF InputError, Faults
    <2> QED BY <1>4, <2>1, TurnsMovedType DEF InputError, PipeBreaks, Escalated, TypeOK
  <1>5. CASE DrainCheck
    BY <1>5, DrainType DEF DrainCheck, TypeOK
  <1>6. ASSUME NEW c \in ExitCodes, Exited(c) PROVE TypeOK'
    <2>1. c \in {"zero", "nonzero", "signal"} BY EnvironmentAssumption
    <2>2. turn' \in Turn BY <1>6, <1>0 DEF Exited, Turn
    <2> QED BY <1>6, <1>0, <2>1, <2>2 DEF Exited, TypeOK
  <1>7. ASSUME NEW late \in {{}, {"failure"}}, Finalize(late) PROVE TypeOK'
    <2>1. Blame(turn, late) \in Turn
      BY <1>0, TurnTypes DEF Faults
    <2>2. BaseCause \in Causes
      BY <1>7 DEF BaseCause, Causes, TypeOK, Finalize, dead
    <2>3. ended' \subseteq EndedTurn
      BY <1>7, <2>1, <2>2, EndsType DEF Finalize, Settlements
    <2>4. intr' \in [Interrupts -> Interrupt]
      <3>1. \A i \in Interrupts :
              [intr[i] EXCEPT !.phase = "over", !.receipt = "closed"] \in Interrupt
        BY DEF TypeOK, Interrupt, InterruptReceipts
      <3>2. \A i \in Interrupts : intr[i] \in Interrupt BY DEF TypeOK
      <3> QED BY <1>7, <3>1, <3>2 DEF Finalize
    <2>5. outcome' \in [Sends -> Outcomes]
      BY <1>7 DEF Finalize, TypeOK, Outcomes
    <2>6. held' \in Seq(Sends)
      <3>1. held' = <<>> BY <1>7 DEF Finalize
      <3> QED BY <3>1
    <2>7. /\ awaiting' = {} /\ gate' = 0 /\ turn' = NoTurn /\ cause' = BaseCause
          /\ UNCHANGED <<sent, written, closing, wireClosed, stalled, limitSeen, signal, exit,
                         pump, stderr, answer, nrun>>
      BY <1>7 DEF Finalize, pumps, native
    <2>8. closer' \in {"none", "waiting", "woken", "drained", "abandoned", "graced"}
      BY <1>7 DEF Finalize, Waken, TypeOK
    <2>9. turnCount' \in Nat /\ parked' \in BOOLEAN /\ turn' \in Turn
      BY <1>0, <1>7, <2>7, TurnsMovedType DEF Finalize
    <2> QED BY <2>2, <2>3, <2>4, <2>5, <2>6, <2>7, <2>8, <2>9 DEF TypeOK
  <1> QED BY <1>1, <1>2, <1>3, <1>4, <1>5, <1>6, <1>7 DEF Process

(* PiSession keeps its types: Spec => []TypeOK, for every bound and every  *)
(* environment.                                                            *)
THEOREM TypeCorrect == Spec => []TypeOK
  <1>1. TypeOK /\ [Next]_vars => TypeOK'
    <2> SUFFICES ASSUME TypeOK, [Next]_vars PROVE TypeOK' OBVIOUS
    <2>1. CASE Done \/ UNCHANGED vars
      BY <2>1 DEF Done, vars, sends, turns, life, native, pumps, TypeOK
    <2> QED BY <2>1, TypeCaller, TypeHarness, TypePump, TypeProcess DEF Next
  <1> QED BY TypeInit, <1>1, PTL DEF Spec

---------------------------------------------------------------------------
(* The wire: receipts, holds and the gate *)

(* What appending to a sequence and taking its head off do. *)
LEMMA AppendFacts ==
  ASSUME NEW S, NEW q \in Seq(S), NEW x \in S
  PROVE  /\ Append(q, x) \in Seq(S) /\ Len(Append(q, x)) = Len(q) + 1
         /\ DOMAIN q = 1 .. Len(q) /\ Len(q) + 1 \notin DOMAIN q
         /\ Len(q) + 1 \in DOMAIN Append(q, x)
         /\ \A i \in DOMAIN Append(q, x) : i \in DOMAIN q \/ (i = Len(q) + 1 /\ \A j \in DOMAIN q : j < i)
         /\ \A i \in DOMAIN q : Append(q, x)[i] = q[i]
         /\ Append(q, x)[Len(q) + 1] = x
  OBVIOUS

LEMMA TailFacts ==
  ASSUME NEW S, NEW q \in Seq(S), q # <<>>
  PROVE  /\ Head(q) \in S /\ Head(q) = q[1] /\ 1 \in DOMAIN q
         /\ Tail(q) \in Seq(S) /\ DOMAIN Tail(q) = 1 .. (Len(q) - 1) /\ DOMAIN q = 1 .. Len(q)
         /\ \A i \in DOMAIN Tail(q) : i + 1 \in DOMAIN q /\ 1 < i + 1 /\ Tail(q)[i] = q[i + 1]
         /\ \A i, j \in DOMAIN Tail(q) : i < j => i + 1 < j + 1
  OBVIOUS

(* A send on the wire was made, and is not held. *)
LEMMA WrittenFacts ==
  ASSUME TypeOK, WireInv, NEW s \in Sends, Written(s)
  PROVE  s <= sent /\ \A j \in DOMAIN held : held[j] # s
  <1>1. PICK i \in DOMAIN written : written[i] = s BY DEF Written, TypeOK
  <1>2. \A j \in DOMAIN held : written[i] < held[j] BY DEF WireInv, CallOrder
  <1> QED BY <1>1, <1>2 DEF WireInv, CallOrder, Sends

(* A step that leaves the sends alone, and the pump with the refusal it is *)
(* handling, keeps the invariant: the wire and the child only ever close.  *)
LEMMA WireUndisturbed ==
  ASSUME TypeOK, WireInv, UNCHANGED sends, cause' = cause,
         dead => dead', wireClosed => wireClosed', pump'.send = pump.send,
         pump'.at \notin {"passing", "refusing", "refused"} => pump'.send = 0
  PROVE  WireInv'
  <1> USE DEF WireInv, sends
  <1>1. EverySendOwed' BY DEF EverySendOwed, finalized
  <1>2. OneOnWire' BY DEF OneOnWire, Written
  <1>3. CallOrder' BY DEF CallOrder, WireInCallOrder
  <1>4. PumpOwesNoReceipt' BY DEF PumpOwesNoReceipt
  <1>5. GateServed' BY DEF GateServed
  <1> QED BY <1>1, <1>2, <1>3, <1>4, <1>5

(* freeGate keeps the invariant, once the answered send is settled. *)
LEMMA WireFreed ==
  ASSUME TypeOK, WireInv, NEW s \in Sends \cup {0}, NEW t \in Turn,
         NEW result \in [Sends -> Outcomes], NEW left \in SUBSET Sends,
         left = awaiting \ {s},
         \A r \in Sends : /\ r \in left <=> (r <= sent /\ result[r] = "none")
                          /\ r > sent => result[r] = "none",
         \A j \in DOMAIN held : held[j] # s,
         s # gate => s = 0 \/ pump = Reading \/ pump.send = s,
         s # 0 => pump.send \in {0, s},
         s = 0 => pump.send = 0,
         FreeGate(s, t, result, left),
         ~finalized, cause' = cause, exit' = exit, sent' = sent, pump' = Reading
  PROVE  WireInv'
  <1> USE DEF WireInv
  <1>0. /\ held \in Seq(Sends) /\ written \in Seq(Sends) /\ sent \in Int
        /\ awaiting \subseteq Sends /\ gate \in Sends \cup {0}
        /\ \A r \in Sends : r \in Int /\ r # 0
        /\ DOMAIN held = 1 .. Len(held) /\ DOMAIN written = 1 .. Len(written)
    BY DEF TypeOK, Sends
  <1>1. PumpOwesNoReceipt'
    <2>1. 0 \notin awaiting' /\ 0 <= sent
      <3>1. awaiting' \subseteq left
        BY DEF FreeGate, WriteNextHold
      <3> QED BY <3>1, <1>0 DEF TypeOK
    <2> QED BY <2>1 DEF PumpOwesNoReceipt, Reading
  <1>2. CASE s # 0 /\ s = gate /\ (dead \/ wireClosed \/ held = <<>>)
    <2>1. /\ gate' = 0 /\ outcome' = result /\ awaiting' = left
          /\ UNCHANGED <<held, written, wireClosed>>
      BY <1>2 DEF FreeGate, WriteNextHold, PipeHolds
    <2>2. EverySendOwed' BY <2>1 DEF EverySendOwed, finalized
    <2>3. OneOnWire' BY <2>1, <1>2, <1>0 DEF OneOnWire, Written
    <2>4. CallOrder' BY <2>1, <1>0 DEF CallOrder, WireInCallOrder
    <2>5. GateServed' BY <2>1, <1>2 DEF GateServed, dead
    <2> QED BY <1>1, <2>2, <2>3, <2>4, <2>5
  <1>3. CASE s # 0 /\ s = gate /\ ~dead /\ ~wireClosed /\ held # <<>>
    <2> DEFINE h == Head(held)
    <2>1. /\ h \in Sends /\ h = held[1] /\ 1 \in DOMAIN held /\ Tail(held) \in Seq(Sends)
          /\ \A i \in DOMAIN Tail(held) :
               i + 1 \in DOMAIN held /\ 1 < i + 1 /\ Tail(held)[i] = held[i + 1]
          /\ \A i, j \in DOMAIN Tail(held) : i < j => i + 1 < j + 1
      BY <1>0, <1>3, TailFacts
    <2>2. h \in awaiting /\ h # s /\ h \in left BY <2>1 DEF CallOrder
    <2>3. \A i \in DOMAIN Tail(held) : h < Tail(held)[i] /\ Tail(held)[i] \in left
      <3>1. \A i, j \in DOMAIN held : i < j => held[i] < held[j] BY DEF CallOrder
      <3>2. \A j \in DOMAIN held : held[j] \in left BY DEF CallOrder
      <3> QED BY <3>1, <3>2, <2>1
    <2>4. \A i, j \in DOMAIN Tail(held) : i < j => Tail(held)[i] < Tail(held)[j]
      <3>1. \A i, j \in DOMAIN held : i < j => held[i] < held[j] BY DEF CallOrder
      <3>2. ASSUME NEW i \in DOMAIN Tail(held), NEW j \in DOMAIN Tail(held), i < j
            PROVE  Tail(held)[i] < Tail(held)[j]
        <4>1. i + 1 \in DOMAIN held /\ j + 1 \in DOMAIN held /\ i + 1 < j + 1 BY <2>1, <3>2
        <4>2. held[i + 1] < held[j + 1] BY <4>1, <3>1
        <4> QED BY <4>2, <2>1
      <3> QED BY <3>2
    <2>5. \A r \in awaiting : ~Written(r) \/ r = s
      BY <1>3 DEF OneOnWire
    <2>6. held' = Tail(held) /\ gate' = h
      BY <1>3 DEF FreeGate, WriteNextHold
    <2>7. h <= sent BY <2>1, <2>2 DEF EverySendOwed
    <2>8. CASE written' = Append(written, h) /\ outcome' = result /\ awaiting' = left
      <3>1. /\ \A i \in DOMAIN written' :
                 i \in DOMAIN written \/ (i = Len(written) + 1 /\ \A j \in DOMAIN written : j < i)
            /\ written' \in Seq(Sends)
            /\ \A i \in DOMAIN written : written'[i] = written[i] /\ i \in Int
            /\ written'[Len(written) + 1] = h /\ Len(written) + 1 \in Int
        BY <2>8, <2>1, <1>0, AppendFacts
      <3>2. EverySendOwed' BY <2>8 DEF EverySendOwed, finalized
      <3>3. OneOnWire'
        <4>1. ASSUME NEW r \in awaiting', Written(r)' PROVE r = h
          <5>1. r \in awaiting /\ r # s BY <4>1, <2>8
          <5>2. ~Written(r) BY <5>1, <2>5
          <5>3. PICK i \in DOMAIN written' : written'[i] = r
            BY <4>1, <3>1 DEF Written
          <5> QED BY <5>2, <5>3, <3>1, <1>0 DEF Written
        <4> QED BY <4>1, <2>6 DEF OneOnWire
      <3>4. CallOrder'
        <4>1. \A i \in DOMAIN written : written[i] < h /\ written[i] <= sent
          BY <2>1 DEF CallOrder
        <4>2. WireInCallOrder'
          <5>1. \A i, j \in DOMAIN written : i < j => written[i] < written[j]
            BY DEF CallOrder, WireInCallOrder
          <5>2. ASSUME NEW i \in DOMAIN written', NEW j \in DOMAIN written', i < j
                PROVE  written'[i] < written'[j]
            <6>1. i \in DOMAIN written
              <7>1. CASE i = Len(written) + 1
                <8>1. j \in DOMAIN written \/ j = i BY <3>1, <7>1
                <8>2. j < i \/ j = i BY <8>1, <3>1, <7>1, <1>0
                <8> QED BY <8>2, <5>2, <7>1, <3>1, <1>0
              <7> QED BY <7>1, <3>1
            <6> QED BY <6>1, <5>1, <5>2, <3>1, <4>1
          <5> QED BY <5>2 DEF WireInCallOrder
        <4>3. \A i \in DOMAIN written', j \in DOMAIN held' : written'[i] < held'[j]
          <5>1. \A i \in DOMAIN written, j \in DOMAIN Tail(held) : written[i] < Tail(held)[j]
            BY <2>1 DEF CallOrder
          <5> QED BY <5>1, <3>1, <2>3, <2>6
        <4>4. \A i \in DOMAIN written' : written'[i] <= sent
          BY <3>1, <4>1, <2>7, <1>0
        <4> QED BY <4>2, <4>3, <4>4, <2>3, <2>4, <2>6, <2>8 DEF CallOrder
      <3>5. GateServed' BY <2>8, <2>6, <2>2, <2>1, <1>0 DEF GateServed
      <3> QED BY <1>1, <3>2, <3>3, <3>4, <3>5
    <2>9. CASE /\ outcome' = Settle(result, h, "write-failed") /\ awaiting' = left \ {h}
               /\ wireClosed' = TRUE /\ UNCHANGED written
      <3>1. EverySendOwed'
        <4>1. result[h] = "none" BY <2>2, <2>1
        <4>2. ~(h > sent) BY <2>7, <2>1, <1>0
        <4> QED BY <2>9, <4>1, <4>2, <2>1 DEF EverySendOwed, finalized, Settle, Outcomes
      <3>2. OneOnWire' BY <2>9, <2>5 DEF OneOnWire, Written
      <3>3. CallOrder'
        <4>1. \A i \in DOMAIN written, j \in DOMAIN held' : written[i] < held'[j]
          BY <2>1, <2>6 DEF CallOrder
        <4>2. \A j \in DOMAIN held' : held'[j] \in awaiting'
          BY <2>9, <2>6, <2>3, <2>1, <1>0
        <4> QED BY <4>1, <4>2, <2>4, <2>6, <2>9 DEF CallOrder, WireInCallOrder
      <3>4. GateServed' BY <2>9 DEF GateServed
      <3> QED BY <1>1, <3>1, <3>2, <3>3, <3>4
    <2> QED BY <1>3, <2>8, <2>9 DEF FreeGate, WriteNextHold, PipeBreaks
  <1>4. CASE s = 0 \/ s # gate
    <2>1. /\ outcome' = result /\ awaiting' = left
          /\ UNCHANGED <<gate, held, written, wireClosed>>
      BY <1>4 DEF FreeGate, PipeHolds
    <2>2. EverySendOwed' BY <2>1 DEF EverySendOwed, finalized
    <2>3. OneOnWire' BY <2>1 DEF OneOnWire, Written
    <2>4. CallOrder' BY <2>1, <1>0 DEF CallOrder, WireInCallOrder
    <2>5. GateServed' BY <2>1, <1>4, <1>0 DEF GateServed, dead, Reading
    <2> QED BY <1>1, <2>2, <2>3, <2>4, <2>5
  <1> QED BY <1>2, <1>3, <1>4

LEMMA WireInit == Init => WireInv
  BY DEF Init, WireInv, EverySendOwed, OneOnWire, Written, CallOrder, WireInCallOrder,
         PumpOwesNoReceipt, GateServed, Reading, finalized, Sends

(* The caller: a direct write needs a free wire and an empty queue, a hold *)
(* goes behind everything.                                                 *)
LEMMA WireCaller == TypeOK /\ WireInv /\ Caller => WireInv'
  <1> SUFFICES ASSUME TypeOK, WireInv, Caller PROVE WireInv' OBVIOUS
  <1> USE DEF sends, turns, life, pumps
  <1>0. /\ held \in Seq(Sends) /\ written \in Seq(Sends) /\ sent \in Int
        /\ awaiting \subseteq Sends /\ gate \in Sends \cup {0}
        /\ \A s \in Sends : s \in Int /\ s # 0
        /\ outcome \in [Sends -> Outcomes] /\ pump.send \in Int /\ pump.send <= sent
        /\ pump.send \notin awaiting
    BY DEF TypeOK, Sends, Pump, WireInv, PumpOwesNoReceipt
  <1>h. \A j \in DOMAIN held : held[j] \in awaiting /\ held[j] <= sent /\ held[j] \in Int
    <2>1. \A j \in DOMAIN held : held[j] \in awaiting BY DEF WireInv, CallOrder
    <2> QED BY <2>1, <1>0 DEF WireInv, EverySendOwed
  <1>1. ASSUME NEW s \in Sends, SendHeld(s) PROVE WireInv'
    <2>0. /\ s = sent + 1 /\ sent' = s /\ held' = Append(held, s)
          /\ awaiting' = awaiting \cup {s} /\ outcome[s] = "none"
          /\ UNCHANGED <<outcome, gate, written, wireClosed, exit, cause, pump>>
          /\ ~finalized /\ s \notin awaiting
      BY <1>1, <1>0 DEF SendHeld, Accept, Quiet, WireInv, EverySendOwed
    <2>1. ~Written(s)
      BY <2>0, <1>0, WrittenFacts
    <2>2. /\ \A i \in DOMAIN held' : i \in DOMAIN held \/ (i = Len(held) + 1 /\ \A j \in DOMAIN held : j < i)
          /\ \A i \in DOMAIN held : held'[i] = held[i] /\ i \in Int
          /\ held'[Len(held) + 1] = s /\ Len(held) + 1 \in Int
          /\ held' # <<>>
      BY <2>0, <1>0, AppendFacts
    <2>3. EverySendOwed'
      BY <2>0, <1>0 DEF WireInv, EverySendOwed, finalized
    <2>4. OneOnWire'
      BY <2>0, <2>1 DEF WireInv, OneOnWire, Written
    <2>5. CallOrder'
      <3>1. WireInCallOrder' BY <2>0 DEF WireInv, CallOrder, WireInCallOrder
      <3>2. ASSUME NEW i \in DOMAIN held', NEW j \in DOMAIN held', i < j
            PROVE  held'[i] < held'[j]
        <4>1. i \in DOMAIN held
          <5>1. CASE i = Len(held) + 1
            <6>1. j \in DOMAIN held \/ j = i BY <2>2, <5>1
            <6>2. j < i \/ j = i BY <6>1, <2>2, <5>1, <1>0
            <6> QED BY <6>2, <3>2, <5>1, <2>2, <1>0
          <5> QED BY <5>1, <2>2
        <4>2. held[i] < s BY <4>1, <1>h, <2>0, <1>0
        <4>3. \A k, l \in DOMAIN held : k < l => held[k] < held[l] BY DEF WireInv, CallOrder
        <4> QED BY <4>1, <4>2, <4>3, <3>2, <2>2
      <3>3. \A i \in DOMAIN written : written[i] \in Int /\ written[i] <= sent
        BY <1>0 DEF WireInv, CallOrder
      <3>4. \A i \in DOMAIN written, j \in DOMAIN held' : written[i] < held'[j]
        <4>1. \A i \in DOMAIN written, j \in DOMAIN held : written[i] < held[j]
          BY DEF WireInv, CallOrder
        <4> QED BY <4>1, <3>3, <2>2, <2>0, <1>0
      <3>5. \A i \in DOMAIN written : written[i] <= s
        BY <3>3, <2>0, <1>0
      <3>6. \A j \in DOMAIN held' : held'[j] \in awaiting'
        BY <2>2, <1>h, <2>0
      <3> QED BY <3>1, <3>2, <3>4, <3>5, <3>6, <2>0 DEF CallOrder
    <2>6. PumpOwesNoReceipt'
      BY <2>0, <1>0 DEF WireInv, PumpOwesNoReceipt
    <2>7. GateServed'
      BY <1>1, <2>0, <1>0 DEF WireInv, GateServed, dead, SendHeld
    <2> QED BY <2>3, <2>4, <2>5, <2>6, <2>7 DEF WireInv
  <1>2. ASSUME NEW s \in Sends, SendWritten(s) PROVE WireInv'
    <2>0. /\ s = sent + 1 /\ sent' = s /\ written' = Append(written, s)
          /\ awaiting' = awaiting \cup {s} /\ gate' = s /\ gate = 0 /\ held = <<>>
          /\ UNCHANGED <<outcome, held, wireClosed, exit, cause, pump>>
          /\ ~finalized /\ s \notin awaiting /\ outcome[s] = "none"
      BY <1>2, <1>0 DEF SendWritten, Accept, Quiet, WireInv, EverySendOwed
    <2>2. /\ \A i \in DOMAIN written' : i \in DOMAIN written
                                       \/ (i = Len(written) + 1 /\ \A j \in DOMAIN written : j < i)
          /\ written' \in Seq(Sends)
          /\ \A i \in DOMAIN written : written'[i] = written[i] /\ i \in Int
          /\ written'[Len(written) + 1] = s /\ Len(written) + 1 \in Int
          /\ Len(written) + 1 \notin DOMAIN written
      BY <2>0, <1>0, AppendFacts
    <2>3. EverySendOwed'
      BY <2>0, <1>0 DEF WireInv, EverySendOwed, finalized
    <2>4. OneOnWire'
      <3>1. ASSUME NEW r \in awaiting', Written(r)' PROVE r = s
        <4>1. PICK i \in DOMAIN written' : written'[i] = r BY <3>1, <2>2 DEF Written
        <4>2. ASSUME r # s PROVE FALSE
          <5>1. r \in awaiting BY <3>1, <4>2, <2>0
          <5>2. Written(r)
            <6>1. i \in DOMAIN written /\ written[i] = r BY <4>1, <4>2, <2>2
            <6> QED BY <6>1, <1>0 DEF Written
          <5> QED BY <5>1, <5>2, <2>0, <1>0 DEF WireInv, OneOnWire
        <4> QED BY <4>2
      <3> QED BY <3>1, <2>0 DEF OneOnWire
    <2>5. CallOrder'
      <3>1. \A i \in DOMAIN written : written[i] < s /\ written[i] <= s /\ written[i] <= sent
        <4>1. \A i \in DOMAIN written : written[i] <= sent /\ written[i] \in Int
          BY <1>0 DEF WireInv, CallOrder
        <4> QED BY <4>1, <1>0, <2>0
      <3>2. WireInCallOrder'
        <4>1. \A i, j \in DOMAIN written : i < j => written[i] < written[j]
          BY DEF WireInv, CallOrder, WireInCallOrder
        <4>2. ASSUME NEW i \in DOMAIN written', NEW j \in DOMAIN written', i < j
              PROVE  written'[i] < written'[j]
          <5>1. i \in DOMAIN written
            <6>1. CASE i = Len(written) + 1
              <7>1. j \in DOMAIN written \/ j = i BY <2>2, <6>1
              <7>2. j < i \/ j = i BY <7>1, <2>2, <6>1
              <7>3. i \in Int /\ j \in Int BY <7>1, <2>2, <6>1
              <7> QED BY <7>2, <7>3, <4>2
            <6> QED BY <6>1, <2>2
          <5> QED BY <5>1, <4>1, <4>2, <2>2, <3>1
        <4> QED BY <4>2 DEF WireInCallOrder
      <3>3. \A i \in DOMAIN written' : written'[i] <= s
        BY <3>1, <2>2, <2>0, <1>0
      <3>4. DOMAIN held = {} BY <2>0
      <3> QED BY <3>2, <3>3, <3>4, <2>0 DEF CallOrder
    <2>6. PumpOwesNoReceipt'
      BY <2>0, <1>0 DEF WireInv, PumpOwesNoReceipt
    <2>7. GateServed'
      BY <2>0 DEF GateServed
    <2> QED BY <2>3, <2>4, <2>5, <2>6, <2>7 DEF WireInv
  <1>3. ASSUME NEW s \in Sends, SendFails(s) PROVE WireInv'
    <2>0. /\ s = sent + 1 /\ sent' = s /\ held = <<>> /\ gate = 0 /\ wireClosed' = TRUE
          /\ outcome' = [outcome EXCEPT ![s] = "write-failed"]
          /\ UNCHANGED <<awaiting, held, gate, written, exit, cause, pump>>
          /\ ~finalized /\ s \notin awaiting
      BY <1>3, <1>0 DEF SendFails, Accept, Quiet, PipeBreaks, WireInv, EverySendOwed
    <2>1. EverySendOwed'
      BY <2>0, <1>0 DEF WireInv, EverySendOwed, finalized, Outcomes
    <2>2. OneOnWire'
      BY <2>0 DEF WireInv, OneOnWire, Written
    <2>3. CallOrder'
      <3>1. \A i \in DOMAIN written : written[i] \in Int BY <1>0
      <3> QED BY <2>0, <3>1, <1>0 DEF WireInv, CallOrder, WireInCallOrder
    <2>4. PumpOwesNoReceipt'
      BY <2>0, <1>0 DEF WireInv, PumpOwesNoReceipt
    <2>5. GateServed' BY <2>0 DEF GateServed
    <2> QED BY <2>1, <2>2, <2>3, <2>4, <2>5 DEF WireInv
  <1>4. ASSUME NEW i \in Interrupts, InterruptWritten(i) \/ InterruptFails(i) PROVE WireInv'
    BY <1>4, WireUndisturbed
    DEF InterruptWritten, InterruptFails, PipeBreaks, WireInv, PumpOwesNoReceipt, dead
  <1>5. CASE Close \/ Abandon
    BY <1>5, WireUndisturbed
    DEF Close, DrainOrEnd, Abandon, WireInv, PumpOwesNoReceipt, dead
  <1> QED BY <1>1, <1>2, <1>3, <1>4, <1>5 DEF Caller

(* The harness: a receipt or a refusal settles its send before it frees    *)
(* the gate.                                                               *)
LEMMA WireHarness == TypeOK /\ WireInv /\ Harness => WireInv'
  <1> SUFFICES ASSUME TypeOK, WireInv, Harness PROVE WireInv' OBVIOUS
  <1> USE DEF sends, turns, life, pumps
  <1>0. /\ NoTurn \in Turn /\ turn \in Turn /\ awaiting \subseteq Sends
        /\ outcome \in [Sends -> Outcomes] /\ Reading.send = 0 /\ Reading.at = "reading"
    BY NoTurnType DEF TypeOK, Reading
  <1>1. ASSUME NEW s \in Sends, NEW t \in Turn, s \in awaiting, Written(s), Listening,
               FreeGate(s, t, Settle(outcome, s, "started"), awaiting \ {s}),
               UNCHANGED <<sent, cause, exit, pump>>
        PROVE  WireInv'
    <2>1. Settle(outcome, s, "started") \in [Sends -> Outcomes]
      BY SettleType, <1>0 DEF Outcomes
    <2>2. \A r \in Sends :
            /\ r \in awaiting \ {s} <=>
                 (r <= sent /\ Settle(outcome, s, "started")[r] = "none")
            /\ r > sent => Settle(outcome, s, "started")[r] = "none"
      BY <1>1, <1>0 DEF WireInv, EverySendOwed, Settle, Sends, TypeOK
    <2>3. pump = Reading /\ ~finalized /\ pump' = Reading
      BY <1>1 DEF Listening
    <2>4. \A j \in DOMAIN held : held[j] # s
      BY <1>1, WrittenFacts
    <2>5. awaiting \ {s} \in SUBSET Sends BY <1>0
    <2>6. s # 0 BY DEF Sends
    <2> QED BY <1>1, <2>1, <2>2, <2>3, <2>4, <2>5, <2>6, <1>0, WireFreed
  <1>2. ASSUME NEW s \in Sends, NEW d \in {"started", "queued"}, ReceiptRead(s, d)
        PROVE WireInv'
    <2> DEFINE shown == IF s = turn.opener THEN Publish(turn) ELSE turn
               open == IF shown.no = 0 /\ d # "queued" THEN Publish(NewTurn(s)) ELSE shown
               known == [open EXCEPT !.accepted = @ \/ s = open.opener]
    <2>1. shown \in Turn BY <1>0, TurnTypes
    <2>2. open \in Turn BY <2>1, <1>0, TurnTypes, NewTurnType
    <2>3. known \in Turn BY <2>2 DEF Turn
    <2>4. FreeGate(s, known, Settle(outcome, s, "started"), awaiting \ {s})
      BY <1>2 DEF ReceiptRead
    <2> HIDE DEF known
    <2> QED BY <1>1, <1>2, <2>3, <2>4 DEF ReceiptRead, NativeReceipt
  <1>3. ASSUME NEW s \in Sends, HandledRead(s) PROVE WireInv'
    <2>1. PICK t \in Turn : FreeGate(s, t, Settle(outcome, s, "started"), awaiting \ {s})
      BY <1>3, <1>0 DEF HandledRead
    <2> QED BY <1>1, <1>3, <2>1 DEF HandledRead
  <1>4. ASSUME NEW s \in Sends \cup {0}, RefusalRead(s) PROVE WireInv'
    <2>0. /\ pump = Reading /\ ~finalized
          /\ awaiting' = awaiting \ {s} /\ pump'.send = s
          /\ UNCHANGED <<sent, held, gate, written, wireClosed, exit, cause>>
          /\ s = 0 \/ (s \in Sends /\ Written(s))
      BY <1>4 DEF RefusalRead, Listening
    <2>1. s <= sent /\ \A j \in DOMAIN held : held[j] # s
      <3>1. CASE s = 0
        <4>1. sent >= 0 /\ \A j \in DOMAIN held : held[j] \in Sends
          BY DEF TypeOK
        <4> QED BY <3>1, <4>1 DEF Sends, TypeOK
      <3>2. CASE s \in Sends /\ Written(s) BY <3>2, WrittenFacts
      <3> QED BY <3>1, <3>2, <2>0
    <2>2. EverySendOwed'
      <3>1. CASE s = 0
        BY <3>1, <1>4, <2>0, <1>0 DEF RefusalRead, WireInv, EverySendOwed, finalized, Sends
      <3>2. CASE s # 0
        <4>1. outcome' = Settle(outcome, s, "native-rejected") /\ s \in Sends
          BY <3>2, <1>4, <2>0 DEF RefusalRead
        <4>2. ~(s > sent) BY <2>1, <4>1 DEF Sends, TypeOK
        <4> QED BY <4>1, <4>2, <2>0, <1>0 DEF WireInv, EverySendOwed, finalized, Settle
      <3> QED BY <3>1, <3>2
    <2>3. OneOnWire' BY <2>0 DEF WireInv, OneOnWire, Written
    <2>4. CallOrder' BY <2>0, <2>1 DEF WireInv, CallOrder, WireInCallOrder
    <2>5. PumpOwesNoReceipt'
      <3>1. pump'.at \in {"refusing", "passing"}
        BY <1>4 DEF RefusalRead
      <3> QED BY <2>0, <2>1, <3>1 DEF PumpOwesNoReceipt
    <2>6. GateServed' BY <2>0, <1>0 DEF WireInv, GateServed, dead
    <2> QED BY <2>2, <2>3, <2>4, <2>5, <2>6 DEF WireInv
  <1>5. ASSUME UNCHANGED <<sends, cause, exit, wireClosed, pump>> PROVE WireInv'
    BY <1>5, WireUndisturbed DEF dead, WireInv, PumpOwesNoReceipt
  <1>6. CASE OutputRead BY <1>6, <1>5 DEF OutputRead
  <1>7. ASSUME NEW w \in Walls, WallRead(w) PROVE WireInv'
    BY <1>7, <1>5 DEF WallRead
  <1>8. ASSUME NEW b \in BOOLEAN, SettlementRead(b) PROVE WireInv'
    BY <1>8, <1>5 DEF SettlementRead
  <1>9. ASSUME NEW b \in BOOLEAN, NEW e \in {"error", "failure"}, SettlementHeld(b, e)
        PROVE WireInv'
    BY <1>9, <1>0, WireUndisturbed DEF SettlementHeld, Listening, dead
  <1>10. ASSUME NEW i \in Interrupts, NEW b \in BOOLEAN, InterruptAnswered(i, b)
         PROVE WireInv'
    BY <1>10, <1>5 DEF InterruptAnswered
  <1> QED BY <1>2, <1>3, <1>4, <1>6, <1>7, <1>8, <1>9, <1>10 DEF Harness

(* A resumed handler frees the gate of the refusal it was handling.        *)
LEMMA WirePump == TypeOK /\ WireInv /\ PumpResumes => WireInv'
  <1> SUFFICES ASSUME TypeOK, WireInv, PumpResumes PROVE WireInv' OBVIOUS
  <1> USE DEF sends, turns, life, pumps
  <1>0. /\ NoTurn \in Turn /\ turn \in Turn /\ awaiting \in SUBSET Sends
        /\ outcome \in [Sends -> Outcomes] /\ pump.send \in Sends \cup {0}
        /\ 0 \notin Sends
    BY NoTurnType DEF TypeOK, Pump, Sends
  <1>1. CASE RefusalPassed \/ RefusalEnds
    <2>1. PICK t \in Turn : FreeGate(pump.send, t, outcome, awaiting)
      BY <1>1, <1>0 DEF RefusalPassed, RefusalEnds
    <2>2. pump.send \notin awaiting /\ awaiting = awaiting \ {pump.send}
      BY DEF WireInv, PumpOwesNoReceipt
    <2>3. \A r \in Sends : /\ r \in awaiting <=> (r <= sent /\ outcome[r] = "none")
                           /\ r > sent => outcome[r] = "none"
      BY DEF WireInv, EverySendOwed
    <2>4. \A j \in DOMAIN held : held[j] # pump.send
      BY <2>2 DEF WireInv, CallOrder
    <2>5. ~finalized /\ UNCHANGED <<cause, exit, sent>> /\ pump' = Reading
      BY <1>1 DEF RefusalPassed, RefusalEnds
    <2> QED BY <2>1, <2>2, <2>3, <2>4, <2>5, <1>0, WireFreed
  <1>2. CASE FailurePushed
    BY <1>2, WireUndisturbed DEF FailurePushed, WireInv, PumpOwesNoReceipt, dead, TypeOK, Pump
  <1>3. CASE SettlementEnds
    BY <1>3, WireUndisturbed DEF SettlementEnds, WireInv, PumpOwesNoReceipt, dead, Reading
  <1>4. CASE WallPassed
    BY <1>4, WireUndisturbed DEF WallPassed, WireInv, PumpOwesNoReceipt, dead
  <1> QED BY <1>1, <1>2, <1>3, <1>4 DEF PumpResumes

(* Timers and the process only close the wire; finalize settles what is    *)
(* left.                                                                   *)
LEMMA WireProcess == TypeOK /\ WireInv /\ Process => WireInv'
  <1> SUFFICES ASSUME TypeOK, WireInv, Process PROVE WireInv' OBVIOUS
  <1> USE DEF sends, turns, life, pumps
  <1>1. ASSUME UNCHANGED <<sends, cause, pump>>, dead => dead', wireClosed => wireClosed'
        PROVE WireInv'
    BY <1>1, WireUndisturbed DEF WireInv, PumpOwesNoReceipt
  <1>2. CASE Stall \/ CloseGrace \/ KillGrace \/ InputError \/ DrainCheck
    BY <1>2, <1>1
    DEF Stall, CloseGrace, KillGrace, InputError, PipeBreaks, DrainCheck, DrainOrEnd, dead
  <1>3. ASSUME NEW c \in ExitCodes, Exited(c) PROVE WireInv'
    BY <1>3, <1>1 DEF Exited, dead
  <1>4. ASSUME NEW late \in {{}, {"failure"}}, Finalize(late) PROVE WireInv'
    <2>0. /\ awaiting' = {} /\ held' = <<>> /\ gate' = 0 /\ UNCHANGED <<sent, written, pump, exit>>
          /\ outcome' = [s \in Sends |-> IF s \in awaiting THEN "closed" ELSE outcome[s]]
          /\ pump = Reading
      BY <1>4 DEF Finalize, Listening
    <2>1. EverySendOwed'
      <3>1. \A s \in Sends : s > sent => ~(s <= sent) BY DEF Sends, TypeOK
      <3> QED BY <2>0, <3>1 DEF WireInv, EverySendOwed
    <2>2. OneOnWire' BY <2>0 DEF OneOnWire
    <2>3. CallOrder'
      <3>1. DOMAIN held' = {} BY <2>0
      <3> QED BY <3>1, <2>0 DEF WireInv, CallOrder, WireInCallOrder
    <2>4. PumpOwesNoReceipt' BY <2>0 DEF WireInv, PumpOwesNoReceipt
    <2>5. GateServed' BY <2>0 DEF GateServed
    <2> QED BY <2>1, <2>2, <2>3, <2>4, <2>5 DEF WireInv
  <1> QED BY <1>2, <1>3, <1>4 DEF Process

LEMMA WireStep == TypeOK /\ WireInv /\ [Next]_vars => WireInv'
  <1> SUFFICES ASSUME TypeOK, WireInv, [Next]_vars PROVE WireInv' OBVIOUS
  <1>1. CASE Done \/ UNCHANGED vars
    BY <1>1, WireUndisturbed
    DEF Done, vars, sends, turns, life, pumps, WireInv, PumpOwesNoReceipt, dead
  <1> QED BY <1>1, WireCaller, WireHarness, WirePump, WireProcess DEF Next

(* The inductive invariant of the wire holds in every behaviour.           *)
THEOREM WireCorrect == Spec => []WireInv
  <1> QED BY TypeCorrect, WireInit, WireStep, PTL DEF Spec

(* Every accepted send is owed exactly one receipt, and gets it.           *)
THEOREM ReceiptsOwed == Spec => []EverySendOwed
  <1>1. WireInv => EverySendOwed BY DEF WireInv
  <1> QED BY <1>1, WireCorrect, PTL

(* At most one unanswered send is on the wire, in the order of the calls.  *)
THEOREM WireOrdered == Spec => [](OneOnWire /\ WireInCallOrder)
  <1>1. WireInv => OneOnWire /\ WireInCallOrder BY DEF WireInv, CallOrder
  <1> QED BY <1>1, WireCorrect, PTL

(* No hold is stranded: an answer that frees the gate is still to come.    *)
THEOREM HoldsServed == Spec => []HoldsWaitOnGate
  <1>1. TypeOK /\ WireInv => HoldsWaitOnGate
    BY DEF TypeOK, WireInv, GateServed, HoldsWaitOnGate, Reading
  <1> QED BY <1>1, TypeCorrect, WireCorrect, PTL

---------------------------------------------------------------------------
(* The session implements SendContract *)

(* What a step may do to the sends: one more call, a first receipt, and    *)
(* the wire handed to one registered send.                                 *)
SendsStep ==
  /\ sent' = sent \/ (sent < MaxSends /\ sent' = sent + 1)
  /\ \A r \in Sends : outcome'[r] # outcome[r] =>
       outcome[r] = "none" /\ (outcome'[r] = "started" => Written(r))
  /\ \/ written' = written
     \/ \E s \in Sends : written' = Append(written, s) /\ gate' = s /\ s \in awaiting'

LEMMA FreedStep ==
  ASSUME TypeOK, WireInv, NEW s \in Sends \cup {0}, NEW t,
         NEW result \in [Sends -> Outcomes], NEW left,
         \A r \in Sends : result[r] # outcome[r] =>
           outcome[r] = "none" /\ (result[r] = "started" => Written(r)),
         \A j \in DOMAIN held : held[j] \in left,
         FreeGate(s, t, result, left), sent' = sent
  PROVE  SendsStep
  <1>1. CASE outcome' = result /\ UNCHANGED written
    BY <1>1 DEF SendsStep
  <1>2. CASE held # <<>> /\ s # 0 /\ s = gate /\ ~(outcome' = result /\ UNCHANGED written)
    <2>1. /\ Head(held) \in Sends /\ Head(held) \in left
      BY <1>2, TailFacts DEF TypeOK
    <2>2. CASE outcome' = result
      <3>1. /\ gate' = Head(held) /\ awaiting' = left /\ written' = Append(written, Head(held))
        BY <1>2, <2>2 DEF FreeGate, WriteNextHold
      <3> QED BY <2>1, <2>2, <3>1 DEF SendsStep
    <2>3. CASE outcome' # result
      <3>1. outcome' = Settle(result, Head(held), "write-failed") /\ UNCHANGED written
        BY <1>2, <2>3 DEF FreeGate, WriteNextHold
      <3> QED BY <2>1, <3>1 DEF SendsStep, Settle
    <2> QED BY <2>2, <2>3
  <1> QED BY <1>1, <1>2 DEF FreeGate, WriteNextHold

LEMMA StepOfSends == TypeOK /\ WireInv /\ [Next]_vars => SendsStep
  <1> SUFFICES ASSUME TypeOK, WireInv, [Next]_vars PROVE SendsStep OBVIOUS
  <1> USE DEF sends, turns, life, native, pumps
  <1>0. /\ outcome \in [Sends -> Outcomes] /\ awaiting \subseteq Sends /\ turn \in Turn
        /\ pump.send \in Sends \cup {0}
        /\ \A j \in DOMAIN held : held[j] \in awaiting
        /\ \A r \in awaiting : outcome[r] = "none"
    BY DEF TypeOK, Pump, WireInv, CallOrder, EverySendOwed
  <1>1. ASSUME UNCHANGED <<sent, outcome, written>> PROVE SendsStep
    BY <1>1 DEF SendsStep
  <1>2. CASE Caller
    <2>0. \A s \in Sends : s = sent + 1 => sent < MaxSends /\ outcome[s] = "none" /\ s = sent + 1
      BY SendsAssumption DEF Sends, TypeOK, WireInv, EverySendOwed
    <2>1. ASSUME NEW s \in Sends, SendHeld(s) PROVE SendsStep
      BY <2>0, <2>1 DEF SendHeld, Accept, SendsStep
    <2>2. ASSUME NEW s \in Sends, SendWritten(s) PROVE SendsStep
      BY <2>0, <2>2 DEF SendWritten, Accept, SendsStep
    <2>3. ASSUME NEW s \in Sends, SendFails(s) PROVE SendsStep
      BY <2>0, <2>3, <1>0 DEF SendFails, Accept, SendsStep
    <2>4. CASE (\E i \in Interrupts : InterruptWritten(i) \/ InterruptFails(i)) \/ Close \/ Abandon
      BY <2>4, <1>1 DEF InterruptWritten, InterruptFails, Close, Abandon
    <2> QED BY <1>2, <2>1, <2>2, <2>3, <2>4 DEF Caller
  <1>3. CASE Harness
    <2>1. ASSUME NEW s \in Sends, NEW t, s \in awaiting, Written(s), sent' = sent,
                 FreeGate(s, t, Settle(outcome, s, "started"), awaiting \ {s})
          PROVE  SendsStep
      <3>1. Settle(outcome, s, "started") \in [Sends -> Outcomes]
        BY SettleType, <1>0 DEF Outcomes
      <3>2. \A r \in Sends : Settle(outcome, s, "started")[r] # outcome[r] =>
              outcome[r] = "none" /\ (Settle(outcome, s, "started")[r] = "started" => Written(r))
        BY <2>1, <1>0 DEF Settle
      <3>3. \A j \in DOMAIN held : held[j] \in awaiting \ {s}
        BY <2>1, <1>0, WrittenFacts
      <3> HIDE DEF FreeGate
      <3> QED BY <2>1, <3>1, <3>2, <3>3, FreedStep
    <2>2. ASSUME NEW s \in Sends, NEW d \in {"started", "queued"}, ReceiptRead(s, d)
          PROVE  SendsStep
      BY <2>1, <2>2 DEF ReceiptRead, NativeReceipt
    <2>3. ASSUME NEW s \in Sends, HandledRead(s) PROVE SendsStep
      BY <2>1, <2>3 DEF HandledRead
    <2>4. ASSUME NEW s \in Sends \cup {0}, RefusalRead(s) PROVE SendsStep
      <3>1. UNCHANGED <<sent, written>> /\ (s # 0 => s \in Sends)
        BY <2>4 DEF RefusalRead
      <3>2. outcome' = IF s # 0 THEN Settle(outcome, s, "native-rejected") ELSE outcome
        BY <2>4 DEF RefusalRead
      <3> QED BY <3>1, <3>2, <1>0 DEF SendsStep, Settle
    <2>5. CASE \/ OutputRead \/ \E w \in Walls : WallRead(w)
               \/ \E b \in BOOLEAN : \/ SettlementRead(b)
                                     \/ \E e \in {"error", "failure"} : SettlementHeld(b, e)
               \/ \E i \in Interrupts, b \in BOOLEAN : InterruptAnswered(i, b)
      BY <2>5, <1>1 DEF OutputRead, WallRead, SettlementRead, SettlementHeld, InterruptAnswered
    <2> QED BY <1>3, <2>2, <2>3, <2>4, <2>5 DEF Harness
  <1>4. CASE PumpResumes
    <2>1. ASSUME NEW t, FreeGate(pump.send, t, outcome, awaiting), sent' = sent PROVE SendsStep
      <3>1. \A r \in Sends : outcome[r] # outcome[r] =>
              outcome[r] = "none" /\ (outcome[r] = "started" => Written(r))
        OBVIOUS
      <3> QED BY <2>1, <3>1, <1>0, FreedStep
    <2>2. CASE RefusalPassed \/ RefusalEnds
      BY <2>1, <2>2 DEF RefusalPassed, RefusalEnds
    <2>3. CASE FailurePushed \/ SettlementEnds \/ WallPassed
      BY <2>3, <1>1 DEF FailurePushed, SettlementEnds, WallPassed
    <2> QED BY <1>4, <2>2, <2>3 DEF PumpResumes
  <1>5. CASE Process
    <2>1. CASE Stall \/ CloseGrace \/ KillGrace \/ InputError \/ DrainCheck
               \/ \E c \in ExitCodes : Exited(c)
      BY <2>1, <1>1 DEF Stall, CloseGrace, KillGrace, InputError, DrainCheck, Exited
    <2>2. ASSUME NEW late \in {{}, {"failure"}}, Finalize(late) PROVE SendsStep
      <3>1. /\ outcome' = [r \in Sends |-> IF r \in awaiting THEN "closed" ELSE outcome[r]]
            /\ UNCHANGED <<sent, written>>
        BY <2>2 DEF Finalize
      <3> QED BY <3>1, <1>0 DEF SendsStep
    <2> QED BY <1>5, <2>1, <2>2 DEF Process
  <1>6. CASE Done \/ UNCHANGED vars
    BY <1>6, <1>1 DEF Done, vars
  <1> QED BY <1>2, <1>3, <1>4, <1>5, <1>6 DEF Next

(* A step of the session is a step of the contract, or leaves it alone.    *)
LEMMA ContractStep ==
  ASSUME TypeOK, WireInv, TypeOK', WireInv', SendsStep
  PROVE  Contract!Next
  <1> DEFINE told == [s \in Sends |-> Told(outcome[s])]
  <1>0. /\ outcome \in [Sends -> Outcomes] /\ outcome' \in [Sends -> Outcomes]
        /\ written \in Seq(Sends) /\ DOMAIN written = 1 .. Len(written)
    BY DEF TypeOK
  <1>1. Contract!Calls
    BY DEF SendsStep, Contract!Calls
  <1>2. Contract!Settles
    <2>1. told' \in [Sends -> {"none", "started", "rejected"}]
      BY DEF Told
    <2>2. ASSUME NEW s \in Sends, told'[s] # told[s]
          PROVE  told[s] = "none" /\ s <= sent' /\ (told'[s] = "started" => Written(s))
      <3>1. outcome'[s] # outcome[s] BY <2>2
      <3>2. outcome[s] = "none" /\ (outcome'[s] = "started" => Written(s))
        BY <3>1 DEF SendsStep
      <3>3. s <= sent'
        <4>1. ~(s > sent') BY <3>1, <3>2 DEF WireInv, EverySendOwed
        <4> QED BY <4>1 DEF Sends, TypeOK
      <3>4. told'[s] = "started" => outcome'[s] = "started"
        BY DEF Told
      <3> QED BY <3>2, <3>3, <3>4 DEF Told
    <2> QED BY <2>1, <2>2 DEF Contract!Settles, Contract!Sends, Contract!OnWire, Sends, Written
  <1>3. Contract!Delivers
    <2>1. CASE written' = written
      BY <2>1 DEF Contract!Delivers
    <2>2. ASSUME NEW s \in Sends, written' = Append(written, s), gate' = s, s \in awaiting'
          PROVE  Contract!Delivers
      <3>0. /\ Len(written) + 1 \in DOMAIN written' /\ written'[Len(written) + 1] = s
            /\ \A i \in DOMAIN written : /\ i < Len(written) + 1 /\ i \in DOMAIN written'
                                         /\ written'[i] = written[i]
            /\ written' \in Seq(Sends) /\ DOMAIN written' = 1 .. Len(written')
        BY <2>2, <1>0, AppendFacts
      <3>1. s <= sent' /\ told'[s] = "none"
        BY <2>2 DEF WireInv, EverySendOwed, Told
      <3>2. ASSUME NEW w \in Sends, Written(w) PROVE w < s /\ told'[w] # "none"
        <4>1. PICK i \in DOMAIN written : written[i] = w BY <3>2, <1>0 DEF Written
        <4>2. w < s
          <5>1. \A k, l \in DOMAIN written' : k < l => written'[k] < written'[l]
            BY DEF WireInv, CallOrder, WireInCallOrder
          <5> QED BY <5>1, <3>0, <4>1
        <4>3. Written(w)'
          <5>1. i \in DOMAIN written' /\ written'[i] = w BY <4>1, <3>0
          <5> QED BY <5>1, <3>0 DEF Written
        <4>4. w # s BY <4>2 DEF Sends
        <4>5. w \notin awaiting' BY <4>3, <4>4, <2>2 DEF WireInv, OneOnWire
        <4>6. w <= sent' BY <4>2, <3>1 DEF Sends, TypeOK
        <4>7. outcome'[w] # "none" BY <4>5, <4>6 DEF WireInv, EverySendOwed
        <4> QED BY <4>2, <4>7, <1>0 DEF Told, Outcomes
      <3> QED BY <2>2, <3>1, <3>2 DEF Contract!Delivers, Contract!Sends, Contract!OnWire, Sends, Written
    <2> QED BY <2>1, <2>2 DEF SendsStep
  <1> QED BY <1>1, <1>2, <1>3 DEF Contract!Next

(* The gate, the holds and the sweep of finalize implement a stop-and-wait *)
(* wire with one receipt per send.                                         *)
THEOREM SessionImplementsContract == Spec => ImplementsContract
  <1>1. Init => Contract!Init
    BY DEF Init, Contract!Init, Contract!Sends, Sends, Told
  <1>2. TypeOK /\ WireInv /\ TypeOK' /\ WireInv' /\ [Next]_vars => Contract!Next
    BY StepOfSends, ContractStep
  <1> QED BY <1>1, <1>2, TypeCorrect, WireCorrect, PTL DEF Spec, ImplementsContract, Contract!Spec

---------------------------------------------------------------------------
(* Turns *)

(* What a handler may do to a turn short of ending it: an error makes a    *)
(* provisional turn public, output only one whose opener was accepted.     *)
Touched(t, u) ==
  /\ u.no = t.no /\ u.opener = t.opener /\ u.accepted = t.accepted
  /\ u.published /\ ~t.published /\ ~u.accepted => u.faults # {}
  /\ t.faults # {} => u.faults # {}
  /\ t = NoTurn => u = NoTurn

LEMMA BlameTouches ==
  ASSUME NEW t \in Turn, NEW f \in SUBSET Faults, f # {}
  PROVE  Touched(t, t) /\ Touched(t, Blame(t, f))
  <1>1. Touched(t, t) BY DEF Touched
  <1>2. CASE t.no = 0
    BY <1>1, <1>2 DEF Blame
  <1>3. CASE t.no # 0
    <2>1. t # NoTurn BY <1>3 DEF NoTurn
    <2>2. /\ Publish(t) \in Turn /\ Publish(t).no = t.no /\ Publish(t).opener = t.opener
          /\ Publish(t).accepted = t.accepted
      BY DEF Publish, Turn, Faults
    <2>3. Blame(t, f) = [Publish(t) EXCEPT !.faults = @ \cup f]
      BY <1>3 DEF Blame
    <2>4. /\ Blame(t, f).no = t.no /\ Blame(t, f).opener = t.opener
          /\ Blame(t, f).accepted = t.accepted /\ Blame(t, f).faults # {}
      BY <2>2, <2>3 DEF Turn
    <2> QED BY <1>1, <2>1, <2>4 DEF Touched
  <1> QED BY <1>2, <1>3

(* freeGate leaves the turn it is given, touched, or a turn just opened by *)
(* a hold it wrote.  Nothing on the wire leaves the ledger.                *)
LEMMA TurnFreed ==
  ASSUME TypeOK, WireInv, NEW s \in Sends \cup {0}, NEW t \in Turn,
         NEW result \in [Sends -> Outcomes], NEW left \in SUBSET Sends,
         left = awaiting \ {s}, \A j \in DOMAIN held : held[j] # s,
         FreeGate(s, t, result, left)
  PROVE  /\ \A r \in Sends : Written(r) => Written(r)'
         /\ \A r \in left : Written(r) => r \in awaiting'
         /\ \/ Touched(t, turn')
            \/ \E h \in Sends : /\ t.no = 0 /\ turn' = NewTurn(h)
                                /\ Written(h)' /\ ~Written(h) /\ h \in awaiting'
  <1>0. Touched(t, t) /\ Touched(t, Blame(t, {"error"}))
    BY BlameTouches DEF Faults
  <1>1. CASE turn' = t /\ awaiting' = left /\ UNCHANGED written
    BY <1>1, <1>0 DEF Written
  <1>2. CASE held # <<>> /\ gate' = Head(held) /\ ~(turn' = t /\ awaiting' = left /\ UNCHANGED written)
    <2>0. PICK h \in Sends : h = Head(held)
      BY <1>2, TailFacts DEF TypeOK
    <2>1. h \in Sends /\ h = held[1] /\ 1 \in DOMAIN held
      BY <1>2, <2>0, TailFacts DEF TypeOK
    <2>2. h \in left BY <2>1 DEF WireInv, CallOrder
    <2>3. ~Written(h) BY <2>1, WrittenFacts
    <2>4. CASE written' = Append(written, h) /\ awaiting' = left /\ turn' = OpenFor(h, t)
      <3>1. /\ Len(written) + 1 \in 1 .. Len(written') /\ written'[Len(written) + 1] = h
            /\ \A i \in 1 .. Len(written) : i \in 1 .. Len(written') /\ written'[i] = written[i]
        BY <2>4, <2>1 DEF TypeOK
      <3>2. \A r \in Sends : Written(r) => Written(r)' BY <3>1 DEF Written
      <3>3. Written(h)' BY <3>1 DEF Written
      <3>4. t.no = 0 \/ turn' = t BY <2>4 DEF OpenFor
      <3>5. t.no = 0 => turn' = NewTurn(h) BY <2>4 DEF OpenFor
      <3> QED BY <2>1, <2>2, <2>3, <2>4, <3>2, <3>3, <3>4, <3>5, <1>0
    <2>5. CASE /\ turn' = Blame(t, {"error"}) /\ awaiting' = left \ {h} /\ UNCHANGED written
      <3>1. \A r \in left : Written(r) => r # h BY <2>3
      <3> QED BY <2>5, <3>1, <1>0 DEF Written
    <2> QED BY <1>2, <2>0, <2>4, <2>5 DEF FreeGate, WriteNextHold
  <1> QED BY <1>1, <1>2 DEF FreeGate, WriteNextHold

(* A step that only touches the turn, and takes back no answer.            *)
LEMMA TurnsTouched ==
  ASSUME TypeOK, TypeOK', TurnsFollowRuns, ~stalled, ~finalized, Touched(turn, turn'),
         ended' = ended, cause' = cause, nrun' \in {nrun, 0},
         \A s \in Sends : answer[s] # "none" => answer'[s] = answer[s],
         \A s \in Sends : answer'[s] # "none" => Written(s)',
         Provisional', PumpOwnsTurn'
  PROVE  TurnsFollowRuns'
  <1>0. /\ OpensOnce /\ AnswersWritten /\ Accepted /\ EndedForGood
        /\ turn.opener \in Sends \cup {0} /\ nrun \in Sends \cup {0}
        /\ Live <=> Live'
        /\ \A e \in ended : e.opener \in Sends
    BY DEF TurnsFollowRuns, Touched, Live, TypeOK, Turn, EndedTurn, OpensOnce
  <1>1. OpensOnce'
    BY <1>0 DEF OpensOnce, Touched, Live
  <1>2. AnswersWritten'
    BY <1>0 DEF AnswersWritten, finalized
  <1>3. Accepted'
    BY <1>0 DEF Accepted, Touched, OpensOnce, Live
  <1>4. EndedForGood'
    <2> SUFFICES ASSUME NEW e \in ended
                 PROVE  /\ e.by # "death" /\ answer'[e.opener] # "none" /\ nrun' # e.opener
                        /\ answer'[e.opener] # "queued"
                        /\ answer'[e.opener] = "handled" /\ e.cause # "retired" => e.faults # {}
      BY DEF EndedForGood
    <2>1. e.by # "death" /\ answer[e.opener] # "none" /\ nrun # e.opener
      BY DEF EndedForGood, TurnsFollowRuns
    <2>2. answer'[e.opener] = answer[e.opener] BY <2>1, <1>0
    <2>3. e.opener # 0 BY DEF OpensOnce, TurnsFollowRuns
    <2> QED BY <2>1, <2>2, <2>3, <1>0 DEF EndedForGood
  <1> QED BY <1>1, <1>2, <1>3, <1>4 DEF TurnsFollowRuns

(* A step of the caller, a timer or an event, which hears nothing of pi.   *)
LEMMA TurnsKept ==
  ASSUME TypeOK, TypeOK', TurnsFollowRuns, ~finalized, Touched(turn, turn'),
         stalled => stalled', UNCHANGED <<ended, cause, nrun, answer>>,
         \A s \in Sends : Written(s) => Written(s)',
         \A s \in awaiting : Written(s) => s \in awaiting',
         pump.at \in {"refusing", "refused"} => pump'.send = pump.send,
         pump.at \in {"refusing", "refused"} <=> pump'.at \in {"refusing", "refused"},
         pump'.at \in {"settling", "settled"} => pump.at \in {"settling", "settled"}
  PROVE  TurnsFollowRuns'
  <1>1. CASE stalled BY <1>1 DEF TurnsFollowRuns
  <1>2. CASE ~stalled
    <2>0. /\ OpensOnce /\ AnswersWritten /\ Provisional /\ PumpOwnsTurn
          /\ (Live <=> Live') /\ (Live => turn.opener \in Sends)
          /\ turn'.opener = turn.opener /\ turn'.accepted = turn.accepted
      BY <1>2 DEF TurnsFollowRuns, Touched, Live, TypeOK, Turn, OpensOnce
    <2>1. Provisional'
      <3> SUFFICES ASSUME Live', ~turn'.accepted
                   PROVE  /\ nrun' = 0 /\ Written(turn.opener)'
                          /\ turn'.published => turn'.faults # {}
                          /\ \/ answer'[turn'.opener] = "none" /\ turn'.opener \in awaiting'
                             \/ answer'[turn'.opener] = "failed" /\ Refusing'
        BY DEF Provisional
      <3>1. /\ nrun = 0 /\ Written(turn.opener) /\ turn.opener \in Sends
            /\ turn.published => turn.faults # {}
            /\ \/ answer[turn.opener] = "none" /\ turn.opener \in awaiting
               \/ answer[turn.opener] = "failed" /\ Refusing
        BY <2>0 DEF Provisional
      <3>2. Written(turn.opener)'
        <4>1. PICK o \in Sends : o = turn.opener BY <3>1
        <4>2. Written(o)' BY <3>1, <4>1
        <4> QED BY <4>1, <4>2, <2>0 DEF Written
      <3>3. turn'.published => turn'.faults # {} BY <3>1 DEF Touched
      <3>4. Refusing => Refusing' BY <2>0 DEF Refusing
      <3>5. turn.opener \in awaiting => turn.opener \in awaiting' BY <3>1
      <3> QED BY <3>1, <3>2, <3>3, <3>4, <3>5, <2>0
    <2>2. PumpOwnsTurn'
      BY <2>0 DEF PumpOwnsTurn, Refusing
    <2>3. \A s \in Sends : answer'[s] # "none" => Written(s)'
      BY <2>0 DEF AnswersWritten
    <2> QED BY <1>2, <2>1, <2>2, <2>3, TurnsTouched
  <1> QED BY <1>1, <1>2

(* The turns that are over, after a step of a handler that ended none.     *)
LEMMA EndedKept ==
  ASSUME TypeOK, TurnsFollowRuns, ~stalled, ~finalized, ended' = ended,
         \A s \in Sends : answer[s] # "none" => answer'[s] = answer[s],
         nrun' \in {nrun, 0} \/ answer[nrun'] = "none"
  PROVE  /\ EndedForGood'
         /\ \A e \in ended' : e.opener # 0 /\ answer[e.opener] # "none"
         /\ \A e, f \in ended' : e.opener = f.opener => e = f
  <1> SUFFICES ASSUME NEW e \in ended
               PROVE  /\ e.by # "death" /\ answer'[e.opener] # "none" /\ nrun' # e.opener
                      /\ answer'[e.opener] # "queued" /\ e.opener # 0
                      /\ answer[e.opener] # "none"
                      /\ answer'[e.opener] = "handled" /\ e.cause # "retired" => e.faults # {}
    <2>1. \A e, f \in ended' : e.opener = f.opener => e = f
      BY DEF TurnsFollowRuns, OpensOnce
    <2> QED BY <2>1 DEF EndedForGood
  <1>1. e.by # "death" /\ answer[e.opener] # "none" /\ nrun # e.opener
    BY DEF EndedForGood, TurnsFollowRuns
  <1>2. e.opener \in Sends /\ e.opener # 0
    BY DEF TypeOK, EndedTurn, OpensOnce, TurnsFollowRuns
  <1>3. answer'[e.opener] = answer[e.opener] BY <1>1, <1>2
  <1> QED BY <1>1, <1>2, <1>3 DEF EndedForGood, TurnsFollowRuns

(* The live turn, ended by pi.                                             *)
LEMMA EndedOneMore ==
  ASSUME TypeOK, TurnsFollowRuns, ~stalled, ~finalized, Live,
         NEW e0 \in EndedTurn, ended' = ended \cup {e0}, e0.opener = turn.opener,
         e0.by # "death", nrun' = 0,
         answer'[turn.opener] \notin {"none", "queued"},
         answer'[turn.opener] = "handled" /\ e0.cause # "retired" => e0.faults # {},
         \A s \in Sends : answer[s] # "none" => answer'[s] = answer[s]
  PROVE  /\ EndedForGood'
         /\ \A e \in ended' : e.opener # 0 /\ answer'[e.opener] # "none"
         /\ \A e, f \in ended' : e.opener = f.opener => e = f
  <1>1. /\ \A e \in ended : e.opener \in Sends /\ e.opener # 0 /\ e.opener # turn.opener
        /\ turn.opener # 0
        /\ \A e, f \in ended : e.opener = f.opener => e = f
    BY DEF TypeOK, EndedTurn, OpensOnce, TurnsFollowRuns
  <1>2. ASSUME NEW e \in ended
        PROVE  /\ e.by # "death" /\ answer'[e.opener] # "none" /\ nrun' # e.opener
               /\ answer'[e.opener] # "queued"
               /\ answer'[e.opener] = "handled" /\ e.cause # "retired" => e.faults # {}
    <2>1. e.by # "death" /\ answer[e.opener] # "none"
      BY DEF EndedForGood, TurnsFollowRuns
    <2>2. answer'[e.opener] = answer[e.opener] BY <2>1, <1>1
    <2> QED BY <2>1, <2>2, <1>1 DEF EndedForGood, TurnsFollowRuns
  <1>3. EndedForGood'
    BY <1>1, <1>2 DEF EndedForGood
  <1> QED BY <1>1, <1>2, <1>3

(* What is left of a handler that hears pi: the turn it goes on with, none *)
(* or one whose opener was accepted, is handed to freeGate.                *)
LEMMA TurnsHandedOn ==
  ASSUME TypeOK, TypeOK', TurnsFollowRuns, ~stalled, ~finalized, cause' = cause,
         EndedForGood', \A e, f \in ended' : e.opener = f.opener => e = f,
         \A e \in ended' : e.opener # 0 /\ answer'[e.opener] # "none",
         NEW t \in Turn,
         t = NoTurn \/ (/\ t.no # 0 /\ t.accepted /\ t.opener \in Sends
                        /\ answer'[t.opener] = "started"
                        /\ \A e \in ended' : e.opener # t.opener),
         t.no = 0 => nrun' = 0,
         nrun' # 0 => answer'[nrun'] = "started",
         \A s \in Sends : answer'[s] # "none" => Written(s),
         \A s \in Sends : Written(s) => Written(s)',
         pump' = Reading,
         \/ Touched(t, turn')
         \/ \E h \in Sends : /\ t.no = 0 /\ turn' = NewTurn(h)
                             /\ Written(h)' /\ ~Written(h) /\ h \in awaiting'
  PROVE  TurnsFollowRuns'
  <1>1. PumpOwnsTurn'
    BY DEF PumpOwnsTurn, Reading
  <1>2. CASE Touched(t, turn') /\ t = NoTurn
    <2>1. turn' = NoTurn /\ turn'.no = 0 /\ turn'.opener = 0 /\ nrun' = 0
      BY <1>2 DEF Touched, NoTurn
    <2>2. OpensOnce' BY <2>1 DEF OpensOnce, Live
    <2>3. AnswersWritten' BY <2>1 DEF AnswersWritten
    <2>4. Provisional' /\ Accepted' BY <2>1 DEF Provisional, Accepted, Live
    <2> QED BY <1>1, <2>2, <2>3, <2>4 DEF TurnsFollowRuns
  <1>3. CASE Touched(t, turn') /\ t # NoTurn
    <2>1. /\ turn'.no # 0 /\ turn'.accepted /\ turn'.opener = t.opener /\ t.opener # 0
          /\ answer'[turn'.opener] = "started"
      BY <1>3 DEF Touched, Sends
    <2>2. OpensOnce' BY <1>3, <2>1 DEF OpensOnce, Live
    <2>3. AnswersWritten' BY <2>1 DEF AnswersWritten, Live
    <2>4. Provisional' /\ Accepted' BY <2>1 DEF Provisional, Accepted
    <2> QED BY <1>1, <2>2, <2>3, <2>4 DEF TurnsFollowRuns
  <1>4. ASSUME NEW h \in Sends, t.no = 0, turn' = NewTurn(h), Written(h)', ~Written(h),
               h \in awaiting'
        PROVE  TurnsFollowRuns'
    <2>1. /\ turn'.no # 0 /\ turn'.opener = h /\ h # 0
          /\ ~turn'.accepted /\ ~turn'.published
      BY <1>4 DEF NewTurn, TypeOK, Sends
    <2>2. answer'[h] = "none" BY <1>4
    <2>3. nrun' = 0 BY <1>4
    <2>4. OpensOnce'
      <3>1. \A e \in ended' : e.opener # h BY <2>2
      <3> QED BY <2>1, <3>1 DEF OpensOnce, Live
    <2>5. AnswersWritten' BY <2>3 DEF AnswersWritten
    <2>6. Provisional'
      <3>1. Written(turn.opener)' BY <1>4, <2>1 DEF Written
      <3> QED BY <3>1, <2>1, <2>2, <2>3, <1>4 DEF Provisional
    <2>7. Accepted' BY <2>1 DEF Accepted
    <2> QED BY <1>1, <2>4, <2>5, <2>6, <2>7 DEF TurnsFollowRuns
  <1> QED BY <1>2, <1>3, <1>4

LEMMA TurnsInit == Init => TurnsFollowRuns
  BY DEF Init, TurnsFollowRuns, OpensOnce, AnswersWritten, Provisional, Accepted, PumpOwnsTurn,
         EndedForGood, Live, NoTurn, Reading

(* The caller: a send written while no turn is open opens one, and then no *)
(* native run goes on.                                                     *)
LEMMA TurnsCaller ==
  TypeOK /\ TypeOK' /\ WireInv /\ TurnsFollowRuns /\ Caller => TurnsFollowRuns'
  <1> SUFFICES ASSUME TypeOK, TypeOK', WireInv, TurnsFollowRuns, Caller
               PROVE  TurnsFollowRuns'
    OBVIOUS
  <1> USE DEF sends, turns, life, pumps, native
  <1>0. turn \in Turn /\ {"error"} \in SUBSET Faults /\ {"error"} # {}
    BY DEF TypeOK, Faults
  <1>1. ASSUME NEW s \in Sends, SendHeld(s) PROVE TurnsFollowRuns'
    <2>1. Touched(turn, turn') BY <1>1, <1>0, BlameTouches DEF SendHeld
    <2> QED BY <1>1, <2>1, TurnsKept DEF SendHeld, Quiet, Written
  <1>2. ASSUME NEW s \in Sends, SendWritten(s) PROVE TurnsFollowRuns'
    <2>1. /\ ~finalized /\ s = sent + 1 /\ written' = Append(written, s)
          /\ awaiting' = awaiting \cup {s} /\ turn' = OpenFor(s, turn)
          /\ UNCHANGED <<ended, cause, nrun, answer, pump, stalled>>
      BY <1>2 DEF SendWritten, Quiet, Accept
    <2>2. /\ Len(written) + 1 \in 1 .. Len(written') /\ written'[Len(written) + 1] = s
          /\ \A i \in 1 .. Len(written) : i \in 1 .. Len(written') /\ written'[i] = written[i]
      BY <2>1 DEF TypeOK
    <2>3. \A r \in Sends : Written(r) => Written(r)' BY <2>2 DEF Written
    <2>4. Written(s)' BY <2>2 DEF Written
    <2>5. ~Written(s)
      <3>1. ~(s <= sent) BY <2>1 DEF TypeOK, Sends
      <3> QED BY <3>1, WrittenFacts
    <2>6. CASE Live
      <3>1. Touched(turn, turn') BY <2>1, <2>6, <1>0, BlameTouches DEF OpenFor, Live
      <3> QED BY <2>1, <2>3, <3>1, TurnsKept
    <2>7. CASE ~Live /\ ~stalled
      <3>1. turn = NoTurn /\ turn' = NewTurn(s) /\ nrun = 0 /\ nrun' = 0
        BY <2>1, <2>7 DEF OpenFor, Live, TurnsFollowRuns, OpensOnce, AnswersWritten
      <3>2. /\ turn'.no # 0 /\ turn'.opener = s /\ s # 0
            /\ ~turn'.accepted /\ ~turn'.published
        BY <3>1 DEF NewTurn, TypeOK, Sends
      <3>3. answer[s] = "none" BY <2>5, <2>7 DEF TurnsFollowRuns, AnswersWritten
      <3>4. /\ EndedForGood'
            /\ \A e \in ended' : e.opener # 0 /\ answer[e.opener] # "none"
            /\ \A e, f \in ended' : e.opener = f.opener => e = f
        BY <2>1, <2>7, EndedKept
      <3>5. \A e \in ended' : e.opener # s BY <3>3, <3>4
      <3>6. OpensOnce' BY <3>2, <3>4, <3>5 DEF OpensOnce, Live
      <3>7. AnswersWritten' BY <2>1, <2>3, <2>7, <3>1 DEF AnswersWritten, TurnsFollowRuns
      <3>8. Provisional'
        <4>1. Written(turn.opener)' BY <2>4, <3>2 DEF Written
        <4> QED BY <4>1, <3>1, <3>2, <3>3, <2>1 DEF Provisional
      <3>9. Accepted' BY <3>2 DEF Accepted
      <3>10. PumpOwnsTurn'
        BY <2>1, <2>7 DEF TurnsFollowRuns, PumpOwnsTurn, Refusing
      <3> QED BY <3>4, <3>6, <3>7, <3>8, <3>9, <3>10 DEF TurnsFollowRuns
    <2>8. CASE stalled BY <2>1, <2>8 DEF TurnsFollowRuns
    <2> QED BY <2>6, <2>7, <2>8
  <1>3. ASSUME NEW s \in Sends, SendFails(s) PROVE TurnsFollowRuns'
    <2>1. Touched(turn, turn') BY <1>3, <1>0, BlameTouches DEF SendFails
    <2> QED BY <1>3, <2>1, TurnsKept DEF SendFails, Quiet, Written
  <1>4. ASSUME NEW i \in Interrupts, InterruptWritten(i) PROVE TurnsFollowRuns'
    <2>1. Touched(turn, turn') BY <1>4, <1>0, BlameTouches DEF InterruptWritten
    <2> QED BY <1>4, <2>1, TurnsKept DEF InterruptWritten, Interrupting, Quiet, Written
  <1>5. ASSUME NEW i \in Interrupts, InterruptFails(i) PROVE TurnsFollowRuns'
    <2>1. Touched(turn, turn') BY <1>5, <1>0, BlameTouches DEF InterruptFails
    <2> QED BY <1>5, <2>1, TurnsKept DEF InterruptFails, Interrupting, Quiet, Written
  <1>6. CASE Close \/ Abandon
    <2>1. Touched(turn, turn') BY <1>6, <1>0, BlameTouches DEF Close, Abandon
    <2> QED BY <1>6, <2>1, TurnsKept DEF Close, Abandon, Quiet, Written
  <1> QED BY <1>1, <1>2, <1>3, <1>4, <1>5, <1>6 DEF Caller

(* Where pi has answered nothing yet: the send is the opener of the turn   *)
(* that waits for its receipt, if one does, and of none that is over.      *)
LEMMA OnlyOpenerUnanswered ==
  ASSUME TypeOK, WireInv, TurnsFollowRuns, ~stalled, ~finalized, pump = Reading,
         NEW s \in Sends, s \in awaiting, Written(s), answer[s] = "none"
  PROVE  /\ Live /\ ~turn.accepted => s = turn.opener
         /\ s = turn.opener => Live /\ ~turn.accepted
         /\ \A e \in ended : e.opener # s
  <1>0. OpensOnce /\ Provisional /\ Accepted /\ EndedForGood /\ AnswersWritten
    BY DEF TurnsFollowRuns
  <1>1. ASSUME Live, ~turn.accepted PROVE s = turn.opener
    <2>1. Written(turn.opener) /\ turn.opener \in awaiting
      BY <1>0, <1>1 DEF Provisional, Refusing, Reading
    <2> QED BY <2>1 DEF WireInv, OneOnWire
  <1>2. ASSUME s = turn.opener PROVE Live /\ ~turn.accepted
    <2>1. s # 0 BY DEF Sends
    <2>2. Live BY <1>0, <1>2, <2>1 DEF OpensOnce, NoTurn
    <2> QED BY <1>0, <1>2, <2>2 DEF Accepted
  <1>3. ASSUME NEW e \in ended PROVE e.opener # s
    BY <1>0 DEF EndedForGood
  <1> QED BY <1>1, <1>2, <1>3

(* A receipt: the live turn is its opener's, whose run starts now, or a    *)
(* turn that was accepted before; with no turn, a started send opens one.  *)
LEMMA TurnsReceipt ==
  ASSUME TypeOK, TypeOK', WireInv, TurnsFollowRuns,
         NEW s \in Sends, NEW d \in {"started", "queued"}, ReceiptRead(s, d)
  PROVE  TurnsFollowRuns'
  <1> DEFINE shown == IF s = turn.opener THEN Publish(turn) ELSE turn
             open == IF shown.no = 0 /\ d # "queued" THEN Publish(NewTurn(s)) ELSE shown
             known == [open EXCEPT !.accepted = @ \/ s = open.opener]
  <1>1. /\ pump = Reading /\ ~finalized /\ NativeReceipt(s, d) /\ s \in awaiting
        /\ FreeGate(s, known, Settle(outcome, s, "started"), awaiting \ {s})
        /\ ended' = ended /\ UNCHANGED <<stalled, cause, pumps>>
    BY DEF ReceiptRead, Listening
  <1>2. /\ Written(s) /\ answer[s] = "none" /\ answer' = [answer EXCEPT ![s] = d]
        /\ d = "started" => nrun = 0 /\ nrun' = s
        /\ d = "queued" => nrun' = nrun /\ (nrun # 0 \/ ~Opened(s))
    BY <1>1 DEF NativeReceipt
  <1>3. CASE stalled BY <1>1, <1>3 DEF TurnsFollowRuns
  <1>4. CASE ~stalled
    <2>0. /\ turn \in Turn /\ answer \in [Sends -> Answers] /\ s # 0
          /\ OpensOnce /\ AnswersWritten /\ Provisional /\ Accepted
      BY <1>4 DEF TypeOK, Sends, TurnsFollowRuns
    <2>1. /\ Live /\ ~turn.accepted => s = turn.opener
          /\ s = turn.opener => Live /\ ~turn.accepted
          /\ \A e \in ended : e.opener # s
      BY <1>1, <1>2, <1>4, OnlyOpenerUnanswered
    <2>2. s = turn.opener => d = "started"
      <3>1. s = turn.opener => nrun = 0 /\ Opened(s)
        BY <2>0, <2>1 DEF Provisional, Opened
      <3> QED BY <3>1, <1>2
    <2>3. /\ answer'[s] = d
          /\ \A r \in Sends : r # s => answer'[r] = answer[r]
          /\ \A r \in Sends : answer[r] # "none" => answer'[r] = answer[r]
          /\ \A r \in Sends : answer'[r] # "none" => Written(r)
      BY <1>2, <2>0 DEF AnswersWritten
    <2>4. known \in Turn /\ shown \in Turn /\ open \in Turn
      <3>1. shown \in Turn BY <2>0, TurnTypes
      <3>2. open \in Turn BY <3>1, <2>0, TurnTypes, NewTurnType
      <3> QED BY <3>1, <3>2 DEF Turn
    <2>5. known = NoTurn \/ (/\ known.no # 0 /\ known.accepted /\ known.opener \in Sends
                             /\ answer'[known.opener] = "started"
                             /\ \A e \in ended : e.opener # known.opener)
      <3>1. CASE s = turn.opener
        <4>1. /\ shown = Publish(turn) /\ shown.no = turn.no /\ shown.opener = s
          BY <3>1, <2>0, TurnTypes
        <4>2. open = shown BY <4>1, <2>1, <3>1 DEF Live
        <4>3. known.no # 0 /\ known.accepted /\ known.opener = s
          BY <4>1, <4>2, <2>1, <2>4, <3>1 DEF Live, Turn
        <4> HIDE DEF known
        <4> QED BY <4>3, <2>1, <2>2, <2>3, <3>1
      <3>2. CASE s # turn.opener /\ Live
        <4>1. open = turn /\ turn.accepted /\ turn.opener # 0 BY <3>2, <2>0, <2>1 DEF Live, OpensOnce
        <4>2. known.no # 0 /\ known.accepted /\ known.opener = turn.opener
          BY <4>1, <3>2, <2>0 DEF Live, Turn
        <4>3. answer[turn.opener] = "started" /\ turn.opener \in Sends
          BY <4>1, <3>2, <2>0 DEF Accepted, Turn
        <4>4. \A e \in ended : e.opener # turn.opener BY <2>0 DEF OpensOnce
        <4> HIDE DEF known
        <4> QED BY <4>2, <4>3, <4>4, <2>3
      <3>3. CASE s # turn.opener /\ ~Live /\ d = "started"
        <4>1. open = Publish(NewTurn(s)) BY <3>3 DEF Live
        <4>2. NewTurn(s) \in Turn /\ NewTurn(s).no = turnCount + 1 /\ NewTurn(s).opener = s
          BY <2>0, NewTurnType
        <4>3. open \in Turn /\ open.no = turnCount + 1 /\ open.opener = s
          BY <4>1, <4>2, TurnTypes
        <4>4. known.no # 0 /\ known.accepted /\ known.opener = s
          <5>1. turnCount + 1 # 0 BY DEF TypeOK
          <5> QED BY <5>1, <4>3 DEF Turn
        <4> HIDE DEF known
        <4> QED BY <4>4, <2>1, <2>3, <3>3
      <3>4. CASE s # turn.opener /\ ~Live /\ d = "queued"
        <4>1. open = NoTurn BY <3>4, <2>0 DEF OpensOnce, Live
        <4>2. (open.accepted \/ s = open.opener) = FALSE
          <5>1. open.accepted = FALSE /\ open.opener = 0 BY <4>1 DEF NoTurn
          <5> QED BY <5>1, <2>0
        <4>3. [NoTurn EXCEPT !.accepted = FALSE] = NoTurn
          <5>1. NoTurn.accepted = FALSE BY DEF NoTurn
          <5>2. \A u \in Turn : [u EXCEPT !.accepted = u.accepted] = u BY DEF Turn
          <5>3. [NoTurn EXCEPT !.accepted = NoTurn.accepted] = NoTurn BY <5>2, NoTurnType
          <5> QED BY ONLY <5>1, <5>3
        <4>4. known = [open EXCEPT !.accepted = (open.accepted \/ s = open.opener)]
          OBVIOUS
        <4>5. known = NoTurn BY <4>1, <4>2, <4>3, <4>4
        <4> QED BY <4>5
      <3> QED BY <3>1, <3>2, <3>3, <3>4
    <2>6. known.no = 0 => nrun' = 0
      <3>1. known.no = 0 => ~Live /\ d = "queued"
        <4>1. CASE s = turn.opener
          <5>1. shown.no = turn.no BY <4>1, <2>0, TurnTypes
          <5>2. open = shown BY <5>1, <2>1, <4>1 DEF Live
          <5> QED BY <5>1, <5>2, <2>1, <2>4, <4>1 DEF Live, Turn
        <4>2. CASE s # turn.opener /\ Live
          BY <4>2, <2>0 DEF Live, Turn
        <4>3. CASE s # turn.opener /\ ~Live /\ d = "started"
          <5>1. /\ NewTurn(s) \in Turn /\ NewTurn(s).no = turnCount + 1 /\ turnCount + 1 # 0
            <6>1. turnCount + 1 # 0 BY DEF TypeOK
            <6> QED BY <6>1, <2>0, NewTurnType
          <5>2. open.no = turnCount + 1 /\ open \in Turn BY <4>3, <5>1, <2>4, TurnTypes DEF Live
          <5> QED BY <5>1, <5>2 DEF Turn
        <4> QED BY <4>1, <4>2, <4>3
      <3>2. ~Live => nrun = 0 BY <1>1, <2>0 DEF AnswersWritten
      <3> HIDE DEF known
      <3> QED BY <3>1, <3>2, <1>2
    <2>7. nrun' # 0 => answer'[nrun'] = "started"
      <3>1. nrun # 0 => answer[nrun] = "started" /\ nrun \in Sends
        BY <2>0 DEF AnswersWritten, TypeOK
      <3> QED BY <3>1, <1>2, <2>3
    <2>8. /\ EndedForGood'
          /\ \A e \in ended' : e.opener # 0 /\ answer[e.opener] # "none"
          /\ \A e, f \in ended' : e.opener = f.opener => e = f
      <3>1. nrun' \in {nrun, 0} \/ answer[nrun'] = "none" BY <1>2
      <3> QED BY <1>1, <1>4, <2>3, <3>1, EndedKept
    <2>9. /\ \A r \in Sends : Written(r) => Written(r)'
          /\ \/ Touched(known, turn')
             \/ \E h \in Sends : /\ known.no = 0 /\ turn' = NewTurn(h)
                                 /\ Written(h)' /\ ~Written(h) /\ h \in awaiting'
      <3>1. Settle(outcome, s, "started") \in [Sends -> Outcomes]
        BY SettleType DEF TypeOK, Outcomes
      <3>2. awaiting \ {s} \in SUBSET Sends BY DEF TypeOK
      <3>3. \A j \in DOMAIN held : held[j] # s BY <1>2, WrittenFacts
      <3> HIDE DEF known
      <3> QED BY <1>1, <2>4, <3>1, <3>2, <3>3, TurnFreed
    <2>10. \A e \in ended' : e.opener # 0 /\ answer'[e.opener] # "none"
      <3>1. \A e \in ended' : e.opener \in Sends BY <2>8, <1>1 DEF TypeOK, EndedTurn
      <3> QED BY <3>1, <2>8, <2>3
    <2> HIDE DEF known
    <2> QED BY <1>1, <1>4, <2>3, <2>4, <2>5, <2>6, <2>7, <2>8, <2>9, <2>10, TurnsHandedOn DEF pumps
  <1> QED BY <1>3, <1>4

(* Facts about what pi reads, for a turn that is not stalled.              *)
LEMMA RunHasTurn ==
  ASSUME TurnsFollowRuns, ~stalled, ~finalized
  PROVE  /\ nrun # 0 => Live /\ turn.accepted
         /\ ~Live => turn = NoTurn /\ nrun = 0
         /\ pump.at \in {"settling", "settled"} => Live /\ turn.accepted /\ nrun = 0
         /\ pump.at \in {"refusing", "refused"} =>
              Live /\ ~turn.accepted /\ nrun = 0 /\ pump.send = turn.opener
  BY DEF TurnsFollowRuns, OpensOnce, AnswersWritten, Provisional, PumpOwnsTurn, Refusing

(* A handled receipt retires its provisional turn, or ends it if an error  *)
(* made it public.                                                         *)
LEMMA TurnsHandled ==
  ASSUME TypeOK, TypeOK', WireInv, TurnsFollowRuns, NEW s \in Sends, HandledRead(s)
  PROVE  TurnsFollowRuns'
  <1> DEFINE opened == Live /\ turn.opener = s /\ ~turn.accepted
             t == IF opened THEN NoTurn ELSE turn
  <1>1. /\ pump = Reading /\ ~finalized /\ Written(s) /\ answer[s] = "none" /\ s \in awaiting
        /\ answer' = [answer EXCEPT ![s] = "handled"]
        /\ FreeGate(s, t, Settle(outcome, s, "started"), awaiting \ {s})
        /\ ended' = IF ~opened THEN ended
                    ELSE ended \cup {IF turn.published THEN Over(turn, "clean", "handled")
                                     ELSE Retired(turn)}
        /\ UNCHANGED <<stalled, cause, pump, nrun>>
    BY DEF HandledRead, Listening, pumps
  <1>2. CASE stalled BY <1>1, <1>2 DEF TurnsFollowRuns
  <1>3. CASE ~stalled
    <2>0. /\ turn \in Turn /\ answer \in [Sends -> Answers] /\ s # 0
          /\ OpensOnce /\ AnswersWritten /\ Provisional /\ Accepted
      BY <1>3 DEF TypeOK, Sends, TurnsFollowRuns
    <2>1. /\ Live /\ ~turn.accepted => s = turn.opener
          /\ s = turn.opener => Live /\ ~turn.accepted
          /\ \A e \in ended : e.opener # s
      BY <1>1, <1>3, OnlyOpenerUnanswered
    <2>2. /\ answer'[s] = "handled"
          /\ \A r \in Sends : r # s => answer'[r] = answer[r]
          /\ \A r \in Sends : answer[r] # "none" => answer'[r] = answer[r]
          /\ \A r \in Sends : answer'[r] # "none" => Written(r)
      BY <1>1, <2>0 DEF AnswersWritten
    <2>3. /\ t \in Turn
          /\ t = NoTurn \/ (t = turn /\ Live /\ turn.accepted /\ s # turn.opener)
      BY <2>0, <2>1, NoTurnType DEF OpensOnce
    <2>4. t.no = 0 => nrun' = 0
      BY <1>1, <1>3, <2>3, RunHasTurn DEF NoTurn, Live
    <2>5. nrun' # 0 => answer'[nrun'] = "started"
      <3>1. nrun # 0 => answer[nrun] = "started" /\ nrun \in Sends
        BY <2>0 DEF AnswersWritten, TypeOK
      <3> QED BY <3>1, <1>1, <2>2
    <2>6. /\ EndedForGood'
          /\ \A e \in ended' : e.opener # 0 /\ answer'[e.opener] # "none"
          /\ \A e, f \in ended' : e.opener = f.opener => e = f
      <3>1. CASE ~opened
        <4>1. /\ EndedForGood'
              /\ \A e \in ended' : e.opener # 0 /\ answer[e.opener] # "none"
              /\ \A e, f \in ended' : e.opener = f.opener => e = f
          BY <1>1, <1>3, <2>2, <3>1, EndedKept
        <4>2. \A e \in ended' : e.opener \in Sends BY <4>1, <1>1, <3>1 DEF TypeOK, EndedTurn
        <4> QED BY <4>1, <4>2, <2>2
      <3>2. CASE opened
        <4>1. PICK e0 : /\ e0 = (IF turn.published THEN Over(turn, "clean", "handled")
                                 ELSE Retired(turn))
                        /\ ended' = ended \cup {e0}
          BY <1>1, <3>2
        <4>2. e0 \in EndedTurn BY <4>1 DEF TypeOK
        <4>3. e0.opener = turn.opener /\ e0.by = "handled"
          BY <4>1, <2>0, TurnTypes DEF Over, Retired
        <4>4. e0.cause # "retired" => e0.faults # {}
          <5>1. CASE turn.published
            <6>1. Publish(turn) = turn BY <5>1 DEF Publish
            <6>2. turn.faults # {} BY <5>1, <3>2, <2>0 DEF Provisional
            <6> QED BY <6>1, <6>2, <5>1, <4>1 DEF Over
          <5>2. CASE ~turn.published
            BY <5>2, <4>1 DEF Retired
          <5> QED BY <5>1, <5>2
        <4>5. nrun' = 0 BY <1>1, <1>3, <3>2, RunHasTurn
        <4>6. answer'[turn.opener] = "handled" BY <3>2, <2>2
        <4> QED BY <1>1, <1>3, <2>2, <3>2, <4>1, <4>2, <4>3, <4>4, <4>5, <4>6, EndedOneMore
      <3> QED BY <3>1, <3>2
    <2>7. t = NoTurn \/ (/\ t.no # 0 /\ t.accepted /\ t.opener \in Sends
                         /\ answer'[t.opener] = "started"
                         /\ \A e \in ended' : e.opener # t.opener)
      <3>1. CASE t = turn /\ Live /\ turn.accepted /\ s # turn.opener
        <4>1. turn.opener \in Sends /\ answer[turn.opener] = "started"
          BY <3>1, <2>0 DEF Accepted, OpensOnce, Turn
        <4>2. ended' = ended BY <1>1, <3>1
        <4>3. \A e \in ended : e.opener # turn.opener BY <2>0 DEF OpensOnce
        <4> QED BY <3>1, <4>1, <4>2, <4>3, <2>2 DEF Live
      <3> QED BY <3>1, <2>3
    <2>8. /\ \A r \in Sends : Written(r) => Written(r)'
          /\ \/ Touched(t, turn')
             \/ \E h \in Sends : /\ t.no = 0 /\ turn' = NewTurn(h)
                                 /\ Written(h)' /\ ~Written(h) /\ h \in awaiting'
      <3>1. Settle(outcome, s, "started") \in [Sends -> Outcomes]
        BY SettleType DEF TypeOK, Outcomes
      <3>2. awaiting \ {s} \in SUBSET Sends BY DEF TypeOK
      <3>3. \A j \in DOMAIN held : held[j] # s BY <1>1, WrittenFacts
      <3> HIDE DEF t
      <3> QED BY <1>1, <2>3, <3>1, <3>2, <3>3, TurnFreed
    <2> HIDE DEF t
    <2> QED BY <1>1, <1>3, <2>2, <2>3, <2>4, <2>5, <2>6, <2>7, <2>8, TurnsHandedOn
  <1> QED BY <1>2, <1>3

(* A refusal answers its send, or none; the opener's is taken up by the    *)
(* pump, which ends the turn once the error went through.                  *)
LEMMA TurnsRefusal ==
  ASSUME TypeOK, TypeOK', TurnsFollowRuns, NEW s \in Sends \cup {0}, RefusalRead(s)
  PROVE  TurnsFollowRuns'
  <1> DEFINE refusesOpener == Live /\ s = turn.opener /\ ~turn.accepted
  <1>1. /\ pump = Reading /\ ~finalized
        /\ s = 0 \/ (s \in Sends /\ Written(s))
        /\ answer' = IF s # 0 /\ answer[s] = "none" THEN [answer EXCEPT ![s] = "failed"]
                     ELSE answer
        /\ awaiting' = awaiting \ {s} /\ turn' = Blame(turn, {"error"})
        /\ pump' = [at |-> IF refusesOpener THEN "refusing" ELSE "passing",
                    on |-> turn.no, send |-> s, aborted |-> FALSE]
        /\ UNCHANGED <<ended, written, stalled, cause, nrun>>
    BY DEF RefusalRead, Listening, life
  <1>2. CASE stalled BY <1>1, <1>2 DEF TurnsFollowRuns
  <1>3. CASE ~stalled
    <2>0. /\ turn \in Turn /\ answer \in [Sends -> Answers] /\ 0 \notin Sends
          /\ OpensOnce /\ AnswersWritten /\ Provisional /\ Accepted
      BY <1>3 DEF TypeOK, Sends, TurnsFollowRuns
    <2>1. Touched(turn, turn') BY <1>1, <2>0, BlameTouches DEF Faults
    <2>2. /\ \A r \in Sends : answer[r] # "none" => answer'[r] = answer[r]
          /\ \A r \in Sends : r # s => answer'[r] = answer[r]
          /\ \A r \in Sends : answer'[r] # "none" => Written(r)
          /\ s # 0 /\ answer[s] = "none" => answer'[s] = "failed"
      BY <1>1, <2>0 DEF AnswersWritten
    <2>3. \A r \in Sends : answer'[r] # "none" => Written(r)'
      BY <1>1, <2>2 DEF Written
    <2>4. /\ turn'.opener = turn.opener /\ turn'.accepted = turn.accepted
          /\ Live' <=> Live
      BY <2>1 DEF Touched, Live
    <2>5. PumpOwnsTurn'
      BY <1>1, <2>4 DEF PumpOwnsTurn, Refusing
    <2>6. Provisional'
      <3> SUFFICES ASSUME Live, ~turn.accepted
                   PROVE  /\ nrun' = 0 /\ Written(turn.opener)'
                          /\ turn'.published => turn'.faults # {}
                          /\ \/ answer'[turn.opener] = "none" /\ turn.opener \in awaiting'
                             \/ answer'[turn.opener] = "failed" /\ Refusing'
        BY <2>4 DEF Provisional
      <3>1. /\ nrun = 0 /\ Written(turn.opener) /\ turn.opener \in Sends
            /\ turn.published => turn.faults # {}
            /\ answer[turn.opener] = "none" /\ turn.opener \in awaiting
        BY <1>1, <2>0 DEF Provisional, Refusing, Reading, OpensOnce, Turn
      <3>2. Written(turn.opener)' BY <3>1, <1>1, <2>4 DEF Written
      <3>3. turn'.published => turn'.faults # {} BY <3>1, <2>1, <2>4 DEF Touched
      <3>4. CASE s = turn.opener
        <4>1. Refusing' BY <1>1, <2>4, <3>4 DEF Refusing
        <4> QED BY <4>1, <3>1, <3>2, <3>3, <3>4, <1>1, <2>0, <2>2
      <3>5. CASE s # turn.opener
        BY <3>1, <3>2, <3>3, <3>5, <1>1, <2>2
      <3> QED BY <3>4, <3>5
    <2> QED BY <1>1, <1>3, <2>1, <2>2, <2>3, <2>5, <2>6, TurnsTouched
  <1> QED BY <1>2, <1>3

(* A settlement ends the turn of the run, whose opener was accepted.       *)
LEMMA TurnsSettle ==
  ASSUME TypeOK, TypeOK', TurnsFollowRuns, ~finalized, cause' = cause, stalled' = stalled,
         NEW b \in BOOLEAN, TurnSettles(b), Live, turn.accepted,
         nrun' = 0, pump' = Reading, answer' = answer, written' = written
  PROVE  TurnsFollowRuns'
  <1>1. CASE stalled BY <1>1 DEF TurnsFollowRuns
  <1>2. CASE ~stalled
    <2>0. turn \in Turn /\ OpensOnce /\ AnswersWritten /\ Accepted
      BY <1>2 DEF TypeOK, TurnsFollowRuns
    <2>1. PICK e0 : /\ e0 = Over(turn, SettledBase(turn), IF b THEN "aborted" ELSE "natural")
                    /\ ended' = ended \cup {e0}
      BY DEF TurnSettles, Ends, Live
    <2>2. e0 \in EndedTurn BY <2>1 DEF TypeOK
    <2>3. e0.opener = turn.opener /\ e0.by # "death"
      BY <2>0, <2>1, TurnTypes DEF Over
    <2>4. answer[turn.opener] = "started" BY <2>0 DEF Accepted
    <2>5. /\ EndedForGood'
          /\ \A e \in ended' : e.opener # 0 /\ answer'[e.opener] # "none"
          /\ \A e, f \in ended' : e.opener = f.opener => e = f
      BY <1>2, <2>1, <2>2, <2>3, <2>4, EndedOneMore
    <2>6. turn' = NoTurn /\ Touched(NoTurn, turn') BY DEF TurnSettles, Touched
    <2>7. /\ \A s \in Sends : answer'[s] # "none" => Written(s)
          /\ \A s \in Sends : Written(s) => Written(s)'
      BY <2>0 DEF AnswersWritten, Written
    <2> QED BY <1>2, <2>5, <2>6, <2>7, NoTurnType, TurnsHandedOn
  <1> QED BY <1>1, <1>2

(* What pi says and the pump reads.                                        *)
LEMMA TurnsHarness ==
  TypeOK /\ TypeOK' /\ WireInv /\ TurnsFollowRuns /\ Harness => TurnsFollowRuns'
  <1> SUFFICES ASSUME TypeOK, TypeOK', WireInv, TurnsFollowRuns, Harness
               PROVE  TurnsFollowRuns'
    OBVIOUS
  <1> USE DEF sends, turns, life, pumps, native
  <1>0. turn \in Turn /\ NoTurn \in Turn /\ Touched(turn, turn)
    BY BlameTouches, NoTurnType DEF TypeOK, Faults
  <1>1. ASSUME NEW s \in Sends, NEW d \in {"started", "queued"}, ReceiptRead(s, d)
        PROVE  TurnsFollowRuns'
    BY <1>1, TurnsReceipt
  <1>2. ASSUME NEW s \in Sends, HandledRead(s) PROVE TurnsFollowRuns'
    BY <1>2, TurnsHandled
  <1>3. ASSUME NEW s \in Sends \cup {0}, RefusalRead(s) PROVE TurnsFollowRuns'
    BY <1>3, TurnsRefusal
  <1>4. CASE OutputRead
    <2>1. CASE stalled BY <1>4, <2>1 DEF OutputRead, TurnsFollowRuns
    <2>2. CASE ~stalled
      <3>1. Live /\ turn.accepted BY <1>4, <2>2, RunHasTurn DEF OutputRead, Listening
      <3>2. /\ turn' = Publish(turn) /\ turn'.no = turn.no /\ turn'.opener = turn.opener
            /\ turn'.accepted = turn.accepted /\ (turn.faults # {} => turn'.faults # {})
        BY <1>4, <1>0 DEF OutputRead, Publish, Turn
      <3>3. Touched(turn, turn') BY <3>1, <3>2 DEF Touched, NoTurn, Live
      <3> QED BY <1>4, <3>3, TurnsKept DEF OutputRead, Listening, Written
    <2> QED BY <2>1, <2>2
  <1>5. ASSUME NEW w \in Walls, WallRead(w) PROVE TurnsFollowRuns'
    <2>1. Touched(turn, turn')
      <3>1. CASE turn' = Blame(turn, {"failure"})
        BY <3>1, <1>0, BlameTouches DEF Faults
      <3>2. CASE Live /\ turn' = [turn EXCEPT !.faults = @ \cup {"limit"}]
        BY <3>2, <1>0 DEF Touched, Turn, Live, NoTurn
      <3>3. CASE turn' = turn
        BY <3>3, <1>0
      <3> QED BY <1>5, <3>1, <3>2, <3>3 DEF WallRead
    <2> QED BY <1>5, <2>1, TurnsKept DEF WallRead, Written
  <1>6. ASSUME NEW b \in BOOLEAN, SettlementRead(b) PROVE TurnsFollowRuns'
    <2>1. CASE stalled BY <1>6, <2>1 DEF SettlementRead, TurnsFollowRuns
    <2>2. CASE ~stalled
      <3>1. Live /\ turn.accepted /\ ~finalized
        BY <1>6, <2>2, RunHasTurn DEF SettlementRead, Listening
      <3> QED BY <1>6, <3>1, TurnsSettle DEF SettlementRead, Listening
    <2> QED BY <2>1, <2>2
  <1>7. ASSUME NEW b \in BOOLEAN, NEW e \in {"error", "failure"}, SettlementHeld(b, e)
        PROVE  TurnsFollowRuns'
    <2>1. CASE stalled BY <1>7, <2>1 DEF SettlementHeld, TurnsFollowRuns
    <2>2. CASE ~stalled
      <3>1. Live /\ turn.accepted /\ ~finalized
        BY <1>7, <2>2, RunHasTurn DEF SettlementHeld, Listening
      <3>2. Touched(turn, turn')
        BY <1>7, <1>0, BlameTouches DEF SettlementHeld, Faults
      <3>3. turn'.accepted /\ turn'.no = turn.no
        BY <3>1, <3>2 DEF Touched
      <3>4. Provisional' BY <3>3 DEF Provisional
      <3>5. PumpOwnsTurn'
        BY <1>7, <3>1, <3>3 DEF SettlementHeld, PumpOwnsTurn, Live
      <3>6. \A s \in Sends : answer'[s] # "none" => Written(s)'
        BY <1>7, <2>2 DEF SettlementHeld, TurnsFollowRuns, AnswersWritten, Written
      <3> QED BY <1>7, <2>2, <3>1, <3>2, <3>4, <3>5, <3>6, TurnsTouched DEF SettlementHeld
    <2> QED BY <2>1, <2>2
  <1>8. ASSUME NEW i \in Interrupts, NEW b \in BOOLEAN, InterruptAnswered(i, b)
        PROVE  TurnsFollowRuns'
    <2>1. Touched(turn, turn') BY <1>8, <1>0 DEF InterruptAnswered
    <2> QED BY <1>8, <2>1, TurnsKept DEF InterruptAnswered, Listening, Written
  <1> QED BY <1>1, <1>2, <1>3, <1>4, <1>5, <1>6, <1>7, <1>8 DEF Harness

(* A resumed handler: a refusal that went through goes on with the turn    *)
(* there is, the refusal of the opener ends it, and so does a settlement   *)
(* once its failure went through.                                          *)
LEMMA TurnsPump ==
  TypeOK /\ TypeOK' /\ WireInv /\ TurnsFollowRuns /\ PumpResumes => TurnsFollowRuns'
  <1> SUFFICES ASSUME TypeOK, TypeOK', WireInv, TurnsFollowRuns, PumpResumes
               PROVE  TurnsFollowRuns'
    OBVIOUS
  <1> USE DEF sends, turns, life, pumps, native
  <1>0. /\ turn \in Turn /\ NoTurn \in Turn /\ Touched(turn, turn)
        /\ pump.send \in Sends \cup {0} /\ outcome \in [Sends -> Outcomes]
        /\ awaiting \in SUBSET Sends /\ awaiting = awaiting \ {pump.send}
        /\ \A j \in DOMAIN held : held[j] # pump.send
    <2>1. /\ turn \in Turn /\ NoTurn \in Turn /\ Touched(turn, turn)
          /\ pump.send \in Sends \cup {0} /\ outcome \in [Sends -> Outcomes]
          /\ awaiting \in SUBSET Sends
      BY BlameTouches, NoTurnType DEF TypeOK, Pump, Faults
    <2>2. pump.send \notin awaiting /\ \A j \in DOMAIN held : held[j] \in awaiting
      BY DEF WireInv, PumpOwesNoReceipt, CallOrder
    <2> QED BY <2>1, <2>2
  <1>1. CASE RefusalPassed
    <2>0. /\ ~finalized /\ pump.at = "passing" /\ pump' = Reading
          /\ FreeGate(pump.send, turn, outcome, awaiting)
          /\ UNCHANGED <<ended, stalled, cause, answer, nrun>>
      BY <1>1 DEF RefusalPassed
    <2>1. /\ \A r \in Sends : Written(r) => Written(r)'
          /\ \A r \in awaiting : Written(r) => r \in awaiting'
          /\ \/ Touched(turn, turn')
             \/ \E h \in Sends : /\ turn.no = 0 /\ turn' = NewTurn(h)
                                 /\ Written(h)' /\ ~Written(h) /\ h \in awaiting'
      BY <2>0, <1>0, TurnFreed
    <2>2. CASE Touched(turn, turn')
      BY <2>0, <2>1, <2>2, TurnsKept DEF Reading
    <2>3. CASE ~Touched(turn, turn') /\ ~stalled
      <3>1. turn = NoTurn /\ nrun = 0 /\ turn.no = 0
        BY <2>0, <2>1, <2>3, RunHasTurn DEF Live
      <3>2. /\ EndedForGood'
            /\ \A e \in ended' : e.opener # 0 /\ answer'[e.opener] # "none"
            /\ \A e, f \in ended' : e.opener = f.opener => e = f
        BY <2>0, <2>3, EndedKept
      <3>3. \A s \in Sends : answer'[s] # "none" => Written(s)
        BY <2>0, <2>3 DEF TurnsFollowRuns, AnswersWritten
      <3> QED BY <2>0, <2>1, <2>3, <3>1, <3>2, <3>3, <1>0, TurnsHandedOn
    <2>4. CASE stalled BY <2>0, <2>4 DEF TurnsFollowRuns
    <2> QED BY <2>2, <2>3, <2>4
  <1>2. CASE FailurePushed
    <2>1. Touched(turn, turn') BY <1>2, <1>0, BlameTouches DEF FailurePushed, Faults
    <2>2. /\ pump'.send = pump.send
          /\ pump.at \in {"refusing", "refused"} <=> pump'.at \in {"refusing", "refused"}
          /\ pump'.at \in {"settling", "settled"} => pump.at \in {"settling", "settled"}
      BY <1>2 DEF FailurePushed, TypeOK, Pump
    <2> QED BY <1>2, <2>1, <2>2, TurnsKept DEF FailurePushed, Written
  <1>3. CASE RefusalEnds
    <2>0. /\ ~finalized /\ pump.at = "refused" /\ pump' = Reading
          /\ Ends(turn, "clean", "refused")
          /\ FreeGate(pump.send, NoTurn, outcome, awaiting)
          /\ UNCHANGED <<stalled, cause, answer, nrun>>
      BY <1>3 DEF RefusalEnds
    <2>1. CASE stalled BY <2>0, <2>1 DEF TurnsFollowRuns
    <2>2. CASE ~stalled
      <3>1. Live /\ ~turn.accepted /\ nrun = 0 /\ pump.send = turn.opener
        BY <2>0, <2>2, RunHasTurn
      <3>2. answer[turn.opener] = "failed"
        BY <3>1, <2>2 DEF TurnsFollowRuns, Provisional, WireInv, PumpOwesNoReceipt
      <3>3. PICK e0 : /\ e0 = Over(turn, "clean", "refused")
                      /\ ended' = ended \cup {e0}
        BY <2>0, <3>1 DEF Ends, Live
      <3>4. e0 \in EndedTurn BY <3>3 DEF TypeOK
      <3>5. e0.opener = turn.opener /\ e0.by = "refused"
        BY <3>3, <1>0, TurnTypes DEF Over
      <3>6. /\ EndedForGood'
            /\ \A e \in ended' : e.opener # 0 /\ answer'[e.opener] # "none"
            /\ \A e, f \in ended' : e.opener = f.opener => e = f
        BY <2>0, <2>2, <3>1, <3>2, <3>3, <3>4, <3>5, EndedOneMore
      <3>7. /\ \A r \in Sends : Written(r) => Written(r)'
            /\ \/ Touched(NoTurn, turn')
               \/ \E h \in Sends : /\ NoTurn.no = 0 /\ turn' = NewTurn(h)
                                   /\ Written(h)' /\ ~Written(h) /\ h \in awaiting'
        BY <2>0, <1>0, TurnFreed
      <3>8. \A s \in Sends : answer'[s] # "none" => Written(s)
        BY <2>0, <2>2 DEF TurnsFollowRuns, AnswersWritten
      <3> QED BY <2>0, <2>2, <3>1, <3>6, <3>7, <3>8, <1>0, TurnsHandedOn
    <2> QED BY <2>1, <2>2
  <1>4. CASE SettlementEnds
    <2>1. CASE stalled BY <1>4, <2>1 DEF SettlementEnds, TurnsFollowRuns
    <2>2. CASE ~stalled
      <3>1. Live /\ turn.accepted /\ nrun = 0 /\ ~finalized
        BY <1>4, <2>2, RunHasTurn DEF SettlementEnds
      <3>2. pump.aborted \in BOOLEAN BY DEF TypeOK, Pump
      <3> QED BY <1>4, <3>1, <3>2, TurnsSettle DEF SettlementEnds
    <2> QED BY <2>1, <2>2
  <1>5. CASE WallPassed
    <2>1. Touched(turn, turn') BY <1>5, <1>0, BlameTouches DEF WallPassed, Faults
    <2> QED BY <1>5, <2>1, TurnsKept DEF WallPassed, Written
  <1> QED BY <1>1, <1>2, <1>3, <1>4, <1>5 DEF PumpResumes

(* The clocks and the process leave the turn to pi, but for a stall, after *)
(* which nothing is claimed, and for finalize, which ends it.              *)
LEMMA TurnsProcess ==
  TypeOK /\ TypeOK' /\ TurnsFollowRuns /\ Process => TurnsFollowRuns'
  <1> SUFFICES ASSUME TypeOK, TypeOK', TurnsFollowRuns, Process
               PROVE  TurnsFollowRuns'
    OBVIOUS
  <1> USE DEF sends, turns, life, pumps, native
  <1>0. turn \in Turn /\ Touched(turn, turn)
    BY BlameTouches DEF TypeOK, Faults
  <1>1. CASE Stall BY <1>1 DEF Stall, TurnsFollowRuns
  <1>2. CASE CloseGrace \/ KillGrace \/ DrainCheck
    <2>1. /\ ~finalized
          /\ UNCHANGED <<turn, ended, cause, nrun, answer, stalled, written, awaiting, pump>>
      BY <1>2 DEF CloseGrace, KillGrace, DrainCheck, Quiet
    <2> QED BY <1>0, <2>1, TurnsKept DEF Written
  <1>3. CASE InputError
    <2>1. Touched(turn, turn') BY <1>3, <1>0, BlameTouches DEF InputError, Faults
    <2> QED BY <1>3, <2>1, TurnsKept DEF InputError, Quiet, Written
  <1>4. ASSUME NEW c \in ExitCodes, Exited(c) PROVE TurnsFollowRuns'
    <2>1. Touched(turn, turn')
      <3>1. turn' = [turn EXCEPT !.armed = FALSE] BY <1>4 DEF Exited
      <3>2. /\ turn'.no = turn.no /\ turn'.opener = turn.opener
            /\ turn'.accepted = turn.accepted /\ turn'.published = turn.published
            /\ turn'.faults = turn.faults
        BY <3>1, <1>0 DEF Turn
      <3>3. turn = NoTurn => turn' = NoTurn
        <4>1. \A u \in Turn : [u EXCEPT !.armed = u.armed] = u BY DEF Turn
        <4>2. NoTurn \in Turn /\ NoTurn.armed = FALSE BY NoTurnType DEF NoTurn
        <4>3. [NoTurn EXCEPT !.armed = NoTurn.armed] = NoTurn BY <4>1, <4>2
        <4> QED BY ONLY <4>2, <4>3, <3>1
      <3> QED BY <3>2, <3>3 DEF Touched
    <2> QED BY <1>4, <2>1, TurnsKept DEF Exited, Quiet, Written
  <1>5. ASSUME NEW late \in {{}, {"failure"}}, Finalize(late) PROVE TurnsFollowRuns'
    <2>0. /\ ~finalized /\ pump = Reading /\ turn' = NoTurn /\ cause' = BaseCause
          /\ Ends(Blame(turn, late), BaseCause, "death")
          /\ UNCHANGED <<stalled, written, answer, nrun, pump>>
      BY <1>5 DEF Finalize, Listening
    <2>1. CASE stalled BY <2>0, <2>1 DEF TurnsFollowRuns
    <2>2. CASE ~stalled
      <3>0. OpensOnce /\ AnswersWritten /\ Provisional /\ Accepted /\ EndedForGood
        BY <2>2 DEF TurnsFollowRuns
      <3>1. finalized'
        <4>1. exit \in {"zero", "nonzero", "signal"}
          BY <1>5 DEF Finalize, dead, TypeOK
        <4>2. BaseCause # "none" BY <4>1, <2>2 DEF BaseCause, TypeOK
        <4> QED BY <4>2, <2>0 DEF finalized
      <3>2. /\ Blame(turn, late) \in Turn /\ Blame(turn, late).no = turn.no
            /\ Blame(turn, late).opener = turn.opener
        <4>1. late \in SUBSET Faults BY DEF Faults
        <4>2. /\ Publish(turn) \in Turn /\ Publish(turn).no = turn.no
              /\ Publish(turn).opener = turn.opener /\ Blame(turn, late) \in Turn
          BY <1>0, <4>1, TurnTypes
        <4> QED BY <4>2 DEF Blame, Turn
      <3>3. ASSUME NEW e \in ended'
            PROVE  \/ e \in ended
                   \/ Live /\ e.opener = turn.opener /\ e.by = "death"
        <4>1. CASE ~Live BY <4>1, <3>2, <2>0 DEF Ends, Live
        <4>2. CASE Live
          <5>1. PICK e0 : /\ e0 = Over(Blame(turn, late), BaseCause, "death")
                          /\ ended' = ended \cup {e0}
            BY <4>2, <3>2, <2>0 DEF Ends, Live
          <5>2. e0.opener = turn.opener /\ e0.by = "death"
            BY <5>1, <3>2, TurnTypes, {} \in SUBSET Faults DEF Over
          <5> QED BY <5>1, <5>2, <4>2
        <4> QED BY <4>1, <4>2
      <3>4. OpensOnce'
        <4>1. \A e \in ended' : e.opener # 0
          BY <3>0, <3>3 DEF OpensOnce
        <4>2. \A e, f \in ended' : e.opener = f.opener => e = f
          <5>1. CASE ~Live
            BY <5>1, <3>0, <3>3 DEF OpensOnce
          <5>2. CASE Live
            <6>1. PICK e0 : ended' = ended \cup {e0}
              BY <5>2, <3>2, <2>0 DEF Ends, Live
            <6>2. e0 \in ended' BY <6>1
            <6>3. e0.opener = turn.opener \/ e0 \in ended BY <6>2, <3>3
            <6> QED BY <6>1, <6>3, <3>0 DEF OpensOnce
          <5> QED BY <5>1, <5>2
        <4> QED BY <4>1, <4>2, <2>0 DEF OpensOnce, Live, NoTurn
      <3>5. AnswersWritten'
        BY <3>0, <3>1, <2>0 DEF AnswersWritten, Written
      <3>6. Provisional' /\ Accepted'
        BY <2>0 DEF Provisional, Accepted, Live, NoTurn
      <3>7. PumpOwnsTurn'
        BY <2>0 DEF PumpOwnsTurn, Reading
      <3>8. EndedForGood'
        <4> SUFFICES ASSUME NEW e \in ended'
                     PROVE  /\ \/ e.by = "death"
                               \/ e.by # "death" /\ answer[e.opener] # "none" /\ nrun # e.opener
                            /\ answer[e.opener] # "queued"
                            /\ answer[e.opener] = "handled" /\ e.cause # "retired" => e.faults # {}
          BY <2>0, <3>1 DEF EndedForGood
        <4>1. CASE e \in ended BY <4>1, <3>0 DEF EndedForGood
        <4>2. CASE Live /\ e.opener = turn.opener /\ e.by = "death"
          <5>1. answer[turn.opener] \in {"started", "none", "failed"}
            BY <4>2, <3>0 DEF Provisional, Accepted
          <5> QED BY <4>2, <5>1
        <4> QED BY <3>3, <4>1, <4>2
      <3> QED BY <3>4, <3>5, <3>6, <3>7, <3>8 DEF TurnsFollowRuns
    <2> QED BY <2>1, <2>2
  <1> QED BY <1>1, <1>2, <1>3, <1>4, <1>5 DEF Process

LEMMA TurnsStep ==
  TypeOK /\ TypeOK' /\ WireInv /\ TurnsFollowRuns /\ [Next]_vars => TurnsFollowRuns'
  <1> SUFFICES ASSUME TypeOK, TypeOK', WireInv, TurnsFollowRuns, [Next]_vars
               PROVE  TurnsFollowRuns'
    OBVIOUS
  <1>1. CASE Done \/ UNCHANGED vars
    BY <1>1
    DEF Done, vars, sends, turns, life, pumps, native, TurnsFollowRuns, OpensOnce, AnswersWritten,
        Provisional, Accepted, PumpOwnsTurn, EndedForGood, Refusing, Live, Written, finalized
  <1> QED BY <1>1, TurnsCaller, TurnsHarness, TurnsPump, TurnsProcess DEF Next

(* The inductive invariant of the turns holds in every behaviour.          *)
THEOREM TurnsRun == Spec => []TurnsFollowRuns
  <1>1. TypeOK /\ WireInv /\ TurnsFollowRuns /\ [Next]_vars /\ TypeOK' /\ WireInv'
          => TurnsFollowRuns'
    BY TurnsStep
  <1> QED BY TypeCorrect, WireCorrect, TurnsInit, <1>1, PTL DEF Spec

(* The turns a caller sees are those of the native runs: no send tags two, *)
(* a queued or handled input leaves none, and none ends before its run.    *)
THEOREM TurnsCorrect == Spec => []TurnsInv
  <1>1. TypeOK /\ TurnsFollowRuns => TurnsInv
    <2> SUFFICES ASSUME TypeOK, TurnsFollowRuns, ~stalled
                 PROVE  NoPhantomTurn /\ TurnOutlivesRun /\ HandledStaysPrivate
      BY DEF TurnsInv
    <2>0. OpensOnce /\ Provisional /\ Accepted /\ EndedForGood
      BY DEF TurnsFollowRuns
    <2>1. ASSUME NEW p \in PublicTurns
          PROVE  \/ \E e \in ended : p.no = e.no /\ p.opener = e.opener
                 \/ Live /\ p.no = turn.no /\ p.opener = turn.opener
      <3>1. turn.published => Live BY <2>0 DEF OpensOnce, NoTurn
      <3> QED BY <2>1, <3>1 DEF PublicTurns
    <2>2. ASSUME NEW p \in PublicTurns, NEW q \in PublicTurns, p.opener = q.opener
          PROVE  p.no = q.no
      BY <2>0, <2>1, <2>2 DEF OpensOnce
    <2>3. ASSUME NEW p \in PublicTurns PROVE answer[p.opener] # "queued"
      BY <2>0, <2>1 DEF EndedForGood, Provisional, Accepted
    <2>4. NoPhantomTurn BY <2>2, <2>3 DEF NoPhantomTurn
    <2>5. TurnOutlivesRun BY <2>0 DEF TurnOutlivesRun, EndedForGood
    <2>6. HandledStaysPrivate BY <2>0 DEF HandledStaysPrivate, EndedForGood
    <2> QED BY <2>4, <2>5, <2>6
  <1> QED BY <1>1, TypeCorrect, TurnsRun, PTL

(* A draining close ends stdin only once the turn is over, and with it the *)
(* native run.                                                             *)
THEOREM DrainWaits == Spec => DrainLetsTurnFinish
  <1> DEFINE Drained == closer # "drained" /\ closer' = "drained" =>
                          \/ dead \/ stalled
                          \/ nrun = 0 /\ (Live => answer[turn.opener] # "none")
  <1>1. TurnsFollowRuns /\ [Next]_vars => [Drained]_vars
    <2> SUFFICES ASSUME TurnsFollowRuns, [Next]_vars, closer # "drained", closer' = "drained",
                        ~dead, ~stalled
                 PROVE  ~Live /\ nrun = 0
      OBVIOUS
    <2> USE DEF life
    <2>1. (Close \/ DrainCheck) /\ ~Live /\ ~finalized
      <3>1. Waken(closer) # "drained" BY DEF Waken
      <3>2. CASE Caller
        <4>1. CASE Close \/ Abandon
          BY <4>1 DEF Close, Abandon, DrainOrEnd, Quiet
        <4> QED BY <3>2, <4>1
            DEF Caller, SendHeld, SendWritten, SendFails, InterruptWritten, InterruptFails
      <3>3. CASE Harness
        BY <3>1, <3>3
        DEF Harness, ReceiptRead, HandledRead, RefusalRead, OutputRead, WallRead,
            SettlementRead, SettlementHeld, TurnSettles, InterruptAnswered
      <3>4. CASE PumpResumes
        BY <3>1, <3>4
        DEF PumpResumes, RefusalPassed, FailurePushed, RefusalEnds, SettlementEnds,
            TurnSettles, WallPassed
      <3>5. CASE Process
        BY <3>1, <3>5
        DEF Process, Stall, CloseGrace, KillGrace, InputError, DrainCheck, DrainOrEnd, Exited,
            Finalize
      <3>6. CASE Done \/ UNCHANGED vars
        BY <3>6 DEF Done, vars
      <3> QED BY <3>2, <3>3, <3>4, <3>5, <3>6 DEF Next
    <2>2. nrun = 0 BY <2>1, RunHasTurn
    <2> QED BY <2>1, <2>2
  <1>2. Spec => [][Drained]_vars BY <1>1, TurnsRun, PTL DEF Spec
  <1> QED BY <1>2 DEF DrainLetsTurnFinish

---------------------------------------------------------------------------
(* Interrupts *)

(* What is claimed of one interrupt, `r` its record, in a state with these *)
(* turns: it took its target's settlement, or its target is live.          *)
FollowsIn(r, over, live, dropped) ==
  /\ \A fate \in {r.seen, r.receipt} :
       /\ fate = "interrupted" => \E e \in over : e.no = r.target /\ e.by \in {"aborted"}
       /\ fate = "not-active" =>
            r.target = 0 \/ \E e \in over : /\ e.no = r.target
                                            /\ e.by \in {"natural", "refused", "handled"}
  /\ r.phase = "unused" => r.seen = "none" /\ r.receipt = "none"
  /\ r.phase = "bound" => r.target # 0
  /\ r.phase = "bound" \/ (r.phase = "asked" /\ r.seen = "none") =>
       r.target = 0 \/ r.target = live \/ dropped

LEMMA FollowsOne ==
  /\ InterruptsFollowTurns <=> \A i \in Interrupts : FollowsIn(intr[i], ended, turn.no, stalled)
  /\ InterruptsFollowTurns' <=>
       \A i \in Interrupts : FollowsIn(intr'[i], ended', turn'.no, stalled')
  BY DEF InterruptsFollowTurns, InterruptFate, TargetEnded, TargetsLive, Unsettled, FollowsIn

(* A record left alone follows on: turns that are over stay so, and a live *)
(* turn goes on unless a stall dropped it.                                 *)
LEMMA FollowsOn ==
  ASSUME NEW r, FollowsIn(r, ended, turn.no, stalled), ended \subseteq ended',
         stalled => stalled', stalled' \/ turn'.no = turn.no \/ turn.no = 0
  PROVE  FollowsIn(r, ended', turn'.no, stalled')
  BY DEF FollowsIn

LEMMA InterruptsKept ==
  ASSUME InterruptsFollowTurns, intr' = intr, ended \subseteq ended',
         stalled => stalled', stalled' \/ turn'.no = turn.no \/ turn.no = 0
  PROVE  InterruptsFollowTurns'
  BY FollowsOne, FollowsOn

(* A handler that ends the live turn tells its interrupts how.             *)
LEMMA InterruptsObserved ==
  ASSUME TypeOK, InterruptsFollowTurns, Live, stalled' = stalled,
         NEW e0, ended' = ended \cup {e0}, e0.no = turn.no,
         NEW fate \in {"interrupted", "not-active"}, intr' = Observed(turn, fate),
         fate = "interrupted" => e0.by = "aborted",
         fate = "not-active" => e0.by \in {"natural", "refused", "handled"}
  PROVE  InterruptsFollowTurns'
  <1> SUFFICES ASSUME NEW i \in Interrupts
               PROVE  FollowsIn(intr'[i], ended', turn'.no, stalled')
    BY FollowsOne
  <1>1. intr[i] \in Interrupt /\ FollowsIn(intr[i], ended, turn.no, stalled)
    BY FollowsOne DEF TypeOK
  <1>2. CASE intr[i].target # turn.no
    <2>1. intr'[i] = intr[i] BY <1>2 DEF Observed
    <2> QED BY <1>1, <1>2, <2>1 DEF FollowsIn
  <1>3. CASE intr[i].target = turn.no /\ intr[i].phase = "bound"
    <2>1. intr'[i] = [intr[i] EXCEPT !.phase = "over", !.receipt = fate]
      BY <1>3 DEF Observed, Live
    <2>2. /\ intr'[i].phase = "over" /\ intr'[i].receipt = fate
          /\ intr'[i].seen = intr[i].seen /\ intr'[i].target = turn.no
      BY <2>1, <1>1, <1>3 DEF Interrupt
    <2> QED BY <1>1, <1>3, <2>2 DEF FollowsIn
  <1>4. CASE intr[i].target = turn.no /\ intr[i].phase = "asked" /\ intr[i].seen = "none"
    <2>1. intr'[i] = [intr[i] EXCEPT !.seen = fate]
      BY <1>4 DEF Observed, Live
    <2>2. /\ intr'[i].phase = "asked" /\ intr'[i].receipt = intr[i].receipt
          /\ intr'[i].seen = fate /\ intr'[i].target = turn.no
      BY <2>1, <1>1, <1>4 DEF Interrupt
    <2> QED BY <1>1, <1>4, <2>2 DEF FollowsIn
  <1>5. CASE /\ intr[i].target = turn.no /\ intr[i].phase # "bound"
             /\ ~(intr[i].phase = "asked" /\ intr[i].seen = "none")
    <2>1. intr'[i] = intr[i] BY <1>5 DEF Observed
    <2> QED BY <1>1, <1>5, <2>1 DEF FollowsIn
  <1> QED BY <1>2, <1>3, <1>4, <1>5

(* With no turn live, nobody is told anything.                             *)
LEMMA NoneObserved ==
  ASSUME TypeOK, ~Live, NEW fate
  PROVE  Observed(turn, fate) = intr
  <1>1. Observed(turn, fate) = [i \in Interrupts |-> intr[i]]
    BY DEF Observed, Live
  <1> QED BY <1>1 DEF TypeOK

(* One interrupt moves on, the others and the turns stay.                  *)
LEMMA InterruptMoved ==
  ASSUME TypeOK, InterruptsFollowTurns, NEW i \in Interrupts, NEW r,
         intr' = [intr EXCEPT ![i] = r], FollowsIn(r, ended', turn'.no, stalled'),
         ended' = ended, stalled' = stalled, turn'.no = turn.no
  PROVE  InterruptsFollowTurns'
  <1>1. intr'[i] = r /\ \A j \in Interrupts : j # i => intr'[j] = intr[j]
    BY DEF TypeOK
  <1> QED BY <1>1, FollowsOne, FollowsOn

(* The turn a handler leaves keeps its number, unless there was none.      *)
LEMMA TurnNumbers ==
  ASSUME TypeOK, NEW t \in Turn, NEW f \in SUBSET Faults
  PROVE  /\ Publish(t).no = t.no /\ Blame(t, f).no = t.no
         /\ \A s, result, left : FreeGate(s, t, result, left) => turn'.no = t.no \/ t.no = 0
  <1>1. /\ Publish(t) \in Turn /\ Publish(t).no = t.no
        /\ Publish(t) \in Turn /\ Publish(t).no = t.no
    BY TurnTypes
  <1>2. \A g \in SUBSET Faults : Blame(t, g).no = t.no
    BY <1>1 DEF Blame, Turn
  <1>3. Blame(t, {"error"}).no = t.no BY <1>2 DEF Faults
  <1>4. \A s : t.no = 0 \/ OpenFor(s, t) = t BY DEF OpenFor
  <1>5. ASSUME NEW s, NEW result, NEW left, FreeGate(s, t, result, left)
        PROVE  turn'.no = t.no \/ t.no = 0
    <2>1. turn' = t \/ turn' = OpenFor(Head(held), t) \/ turn' = Blame(t, {"error"})
      BY <1>5 DEF FreeGate, WriteNextHold
    <2> QED BY <2>1, <1>3, <1>4
  <1> QED BY <1>1, <1>2, <1>5

LEMMA InterruptsInit == Init => InterruptsFollowTurns
  <1> SUFFICES ASSUME Init PROVE InterruptsFollowTurns OBVIOUS
  <1>1. \A i \in Interrupts : /\ intr[i].phase = "unused" /\ intr[i].seen = "none"
                              /\ intr[i].receipt = "none"
    BY DEF Init
  <1>2. \A i \in Interrupts : FollowsIn(intr[i], ended, turn.no, stalled)
    BY <1>1 DEF FollowsIn
  <1> QED BY <1>2, FollowsOne

(* A settlement tells the interrupts of its turn, if there is one.         *)
LEMMA InterruptsSettle ==
  ASSUME TypeOK, InterruptsFollowTurns, stalled' = stalled,
         NEW b \in BOOLEAN, TurnSettles(b)
  PROVE  InterruptsFollowTurns'
  <1>1. CASE Live
    <2>1. PICK e0 : /\ e0 = Over(turn, SettledBase(turn), IF b THEN "aborted" ELSE "natural")
                    /\ ended' = ended \cup {e0}
      BY <1>1 DEF TurnSettles, Ends, Live
    <2>2. e0.no = turn.no /\ e0.by = IF b THEN "aborted" ELSE "natural"
      BY <2>1, TurnTypes, {} \in SUBSET Faults DEF Over, TypeOK
    <2>3. intr' = Observed(turn, Fate(b)) BY DEF TurnSettles
    <2>4. CASE b
      <3>1. Fate(b) = "interrupted" /\ e0.by = "aborted" BY <2>2, <2>4 DEF Fate
      <3> QED BY <1>1, <2>1, <2>2, <2>3, <3>1, InterruptsObserved
    <2>5. CASE ~b
      <3>1. Fate(b) = "not-active" /\ e0.by = "natural" BY <2>2, <2>5 DEF Fate
      <3> QED BY <1>1, <2>1, <2>2, <2>3, <3>1, InterruptsObserved
    <2> QED BY <2>4, <2>5
  <1>2. CASE ~Live
    <2>1. intr' = intr BY <1>2, NoneObserved DEF TurnSettles
    <2>2. ended' = ended BY <1>2 DEF TurnSettles, Ends, Live
    <2> QED BY <1>2, <2>1, <2>2, InterruptsKept DEF Live
  <1> QED BY <1>1, <1>2

(* The caller binds an interrupt to the turn live at the call.             *)
LEMMA InterruptsCaller ==
  TypeOK /\ InterruptsFollowTurns /\ Caller => InterruptsFollowTurns'
  <1> SUFFICES ASSUME TypeOK, InterruptsFollowTurns, Caller PROVE InterruptsFollowTurns'
    OBVIOUS
  <1> USE DEF sends, turns, life, pumps, native
  <1>0. /\ turn \in Turn /\ {"error"} \in SUBSET Faults
        /\ \A s : turn.no = 0 \/ OpenFor(s, turn) = turn
    BY DEF TypeOK, Faults, OpenFor
  <1>1. ASSUME NEW s \in Sends, SendHeld(s) \/ SendWritten(s) \/ SendFails(s)
        PROVE  InterruptsFollowTurns'
    <2>1. Blame(turn, {"error"}).no = turn.no BY <1>0, TurnNumbers
    <2>2. turn'.no = turn.no \/ turn.no = 0
      BY <1>0, <1>1, <2>1 DEF SendHeld, SendWritten, SendFails
    <2> QED BY <1>1, <2>2, InterruptsKept DEF SendHeld, SendWritten, SendFails
  <1>2. ASSUME NEW i \in Interrupts, InterruptWritten(i) PROVE InterruptsFollowTurns'
    <2>0. intr[i] \in Interrupt /\ FollowsIn(intr[i], ended, turn.no, stalled)
          /\ intr[i].phase = "unused" /\ turn' = turn /\ ended' = ended /\ stalled' = stalled
      BY <1>2, FollowsOne DEF InterruptWritten, Interrupting, TypeOK
    <2> DEFINE r == [intr[i] EXCEPT !.phase = "asked", !.target = turn.no]
    <2>1. /\ r.phase = "asked" /\ r.target = turn.no /\ r.seen = "none" /\ r.receipt = "none"
      BY <2>0 DEF Interrupt, FollowsIn
    <2>2. intr' = [intr EXCEPT ![i] = r] BY <1>2 DEF InterruptWritten
    <2> HIDE DEF r
    <2>3. FollowsIn(r, ended', turn'.no, stalled') BY <2>0, <2>1 DEF FollowsIn
    <2> QED BY <2>0, <2>2, <2>3, InterruptMoved
  <1>3. ASSUME NEW i \in Interrupts, InterruptFails(i) PROVE InterruptsFollowTurns'
    <2>0. intr[i] \in Interrupt /\ FollowsIn(intr[i], ended, turn.no, stalled)
          /\ intr[i].phase = "unused" /\ ended' = ended /\ stalled' = stalled
          /\ turn' = Blame(turn, {"error"})
      BY <1>3, FollowsOne DEF InterruptFails, Interrupting, TypeOK
    <2> DEFINE r == [intr[i] EXCEPT !.phase = "over", !.receipt = "write-failed"]
    <2>1. r.phase = "over" /\ r.seen = "none" /\ r.receipt = "write-failed"
      BY <2>0 DEF Interrupt, FollowsIn
    <2>2. intr' = [intr EXCEPT ![i] = r] BY <1>3 DEF InterruptFails, Concluded
    <2>3. turn'.no = turn.no BY <2>0, <1>0, TurnNumbers
    <2> HIDE DEF r
    <2>4. FollowsIn(r, ended', turn'.no, stalled') BY <2>1 DEF FollowsIn
    <2> QED BY <2>0, <2>2, <2>3, <2>4, InterruptMoved
  <1>4. CASE Close \/ Abandon
    BY <1>4, InterruptsKept DEF Close, Abandon
  <1> QED BY <1>1, <1>2, <1>3, <1>4 DEF Caller

(* The answer to an interrupt is its target's settlement if that came, and *)
(* waits for it otherwise.                                                 *)
LEMMA InterruptsAnswered ==
  ASSUME TypeOK, InterruptsFollowTurns, NEW i \in Interrupts, NEW accepted \in BOOLEAN,
         InterruptAnswered(i, accepted)
  PROVE  InterruptsFollowTurns'
  <1> USE DEF turns, life
  <1>0. /\ intr[i] \in Interrupt /\ FollowsIn(intr[i], ended, turn.no, stalled)
        /\ turn' = turn /\ ended' = ended /\ stalled' = stalled
        /\ intr[i].phase \in {"asked", "bound"}
    BY FollowsOne DEF InterruptAnswered, TypeOK
  <1>1. ASSUME NEW receipt, intr' = Concluded(i, receipt),
               receipt \in {"native-rejected", intr[i].seen}
               \/ (receipt = "not-active" /\ intr[i].target = 0)
        PROVE  InterruptsFollowTurns'
    <2> DEFINE r == [intr[i] EXCEPT !.phase = "over", !.receipt = receipt]
    <2>1. /\ r.phase = "over" /\ r.seen = intr[i].seen /\ r.receipt = receipt
          /\ r.target = intr[i].target
      BY <1>0 DEF Interrupt
    <2>2. intr' = [intr EXCEPT ![i] = r] BY <1>1 DEF Concluded
    <2> HIDE DEF r
    <2>3. FollowsIn(r, ended', turn'.no, stalled') BY <1>0, <1>1, <2>1 DEF FollowsIn
    <2> QED BY <1>0, <2>2, <2>3, InterruptMoved
  <1>2. CASE intr' = intr
    BY <1>0, <1>2, InterruptsKept
  <1>3. CASE /\ intr' = [intr EXCEPT ![i].phase = "bound"] /\ intr[i].phase = "asked"
             /\ intr[i].target # 0 /\ intr[i].seen = "none"
    <2> DEFINE r == [intr[i] EXCEPT !.phase = "bound"]
    <2>1. /\ r.phase = "bound" /\ r.seen = "none" /\ r.receipt = intr[i].receipt
          /\ r.target = intr[i].target
      BY <1>0, <1>3 DEF Interrupt
    <2>2. intr' = [intr EXCEPT ![i] = r] BY <1>3
    <2> HIDE DEF r
    <2>3. FollowsIn(r, ended', turn'.no, stalled') BY <1>0, <1>3, <2>1 DEF FollowsIn
    <2> QED BY <1>0, <2>2, <2>3, InterruptMoved
  <1> QED BY <1>1, <1>2, <1>3 DEF InterruptAnswered

(* A handled receipt ends the turn its send opened as not active.          *)
LEMMA InterruptsHandled ==
  ASSUME TypeOK, InterruptsFollowTurns, NEW s \in Sends, HandledRead(s)
  PROVE  InterruptsFollowTurns'
  <1> DEFINE opened == Live /\ turn.opener = s /\ ~turn.accepted
  <1>0. /\ FreeGate(s, IF opened THEN NoTurn ELSE turn,
                    Settle(outcome, s, "started"), awaiting \ {s})
        /\ ended' = IF ~opened THEN ended
                    ELSE ended \cup {IF turn.published THEN Over(turn, "clean", "handled")
                                     ELSE Retired(turn)}
        /\ intr' = IF opened THEN Observed(turn, "not-active") ELSE intr
        /\ stalled' = stalled /\ turn \in Turn
    BY DEF HandledRead, TypeOK
  <1>1. CASE opened
    <2>1. PICK e0 : /\ e0 = (IF turn.published THEN Over(turn, "clean", "handled")
                             ELSE Retired(turn))
                    /\ ended' = ended \cup {e0}
      BY <1>0, <1>1
    <2>2. e0.no = turn.no /\ e0.by = "handled"
      BY <1>0, <2>1, TurnTypes, {} \in SUBSET Faults DEF Over, Retired
    <2> QED BY <1>0, <1>1, <2>1, <2>2, InterruptsObserved
  <1>2. CASE ~opened
    <2>1. turn'.no = turn.no \/ turn.no = 0
      BY <1>0, <1>2, TurnNumbers, {} \in SUBSET Faults
    <2> QED BY <1>0, <1>2, <2>1, InterruptsKept
  <1> QED BY <1>1, <1>2

LEMMA InterruptsHarness ==
  TypeOK /\ InterruptsFollowTurns /\ Harness => InterruptsFollowTurns'
  <1> SUFFICES ASSUME TypeOK, InterruptsFollowTurns, Harness PROVE InterruptsFollowTurns'
    OBVIOUS
  <1> USE DEF sends, turns, life, pumps, native
  <1>0. turn \in Turn /\ \A f \in SUBSET Faults : Blame(turn, f).no = turn.no
    BY TurnNumbers DEF TypeOK
  <1>1. ASSUME NEW s \in Sends, NEW d \in {"started", "queued"}, ReceiptRead(s, d)
        PROVE  InterruptsFollowTurns'
    <2> DEFINE shown == IF s = turn.opener THEN Publish(turn) ELSE turn
               open == IF shown.no = 0 /\ d # "queued" THEN Publish(NewTurn(s)) ELSE shown
               known == [open EXCEPT !.accepted = @ \/ s = open.opener]
    <2>1. shown \in Turn /\ shown.no = turn.no
      BY <1>0, TurnTypes, {} \in SUBSET Faults
    <2>2. open \in Turn /\ (turn.no = 0 \/ open.no = turn.no)
      BY <2>1, <1>0, TurnTypes, NewTurnType, {} \in SUBSET Faults
    <2>3. known \in Turn /\ (turn.no = 0 \/ known.no = turn.no)
      BY <2>2 DEF Turn
    <2>4. /\ FreeGate(s, known, Settle(outcome, s, "started"), awaiting \ {s})
          /\ UNCHANGED <<ended, stalled, intr>>
      BY <1>1 DEF ReceiptRead
    <2> HIDE DEF known
    <2>5. turn'.no = turn.no \/ turn.no = 0
      BY <2>3, <2>4, TurnNumbers, {} \in SUBSET Faults
    <2> QED BY <2>4, <2>5, InterruptsKept
  <1>2. ASSUME NEW s \in Sends, HandledRead(s) PROVE InterruptsFollowTurns'
    BY <1>2, InterruptsHandled
  <1>3. ASSUME NEW s \in Sends \cup {0}, RefusalRead(s) PROVE InterruptsFollowTurns'
    <2>1. turn'.no = turn.no BY <1>0, <1>3 DEF RefusalRead, Faults
    <2> QED BY <1>3, <2>1, InterruptsKept DEF RefusalRead
  <1>4. CASE OutputRead
    <2>1. turn'.no = turn.no
      BY <1>0, <1>4, TurnTypes, {} \in SUBSET Faults DEF OutputRead
    <2> QED BY <1>4, <2>1, InterruptsKept DEF OutputRead
  <1>5. ASSUME NEW w \in Walls, WallRead(w) PROVE InterruptsFollowTurns'
    <2>1. [turn EXCEPT !.faults = @ \cup {"limit"}].no = turn.no BY <1>0 DEF Turn
    <2>2. turn'.no = turn.no BY <1>0, <1>5, <2>1 DEF WallRead, Faults
    <2> QED BY <1>5, <2>2, InterruptsKept DEF WallRead
  <1>6. ASSUME NEW b \in BOOLEAN, SettlementRead(b) PROVE InterruptsFollowTurns'
    BY <1>6, InterruptsSettle DEF SettlementRead
  <1>7. ASSUME NEW b \in BOOLEAN, NEW e \in {"error", "failure"}, SettlementHeld(b, e)
        PROVE  InterruptsFollowTurns'
    <2>1. turn'.no = turn.no BY <1>0, <1>7 DEF SettlementHeld, Faults
    <2> QED BY <1>7, <2>1, InterruptsKept DEF SettlementHeld
  <1>8. ASSUME NEW i \in Interrupts, NEW b \in BOOLEAN, InterruptAnswered(i, b)
        PROVE  InterruptsFollowTurns'
    BY <1>8, InterruptsAnswered
  <1> QED BY <1>1, <1>2, <1>3, <1>4, <1>5, <1>6, <1>7, <1>8 DEF Harness

LEMMA InterruptsPump ==
  TypeOK /\ InterruptsFollowTurns /\ PumpResumes => InterruptsFollowTurns'
  <1> SUFFICES ASSUME TypeOK, InterruptsFollowTurns, PumpResumes PROVE InterruptsFollowTurns'
    OBVIOUS
  <1> USE DEF sends, turns, life, pumps, native
  <1>0. turn \in Turn /\ \A f \in SUBSET Faults : Blame(turn, f).no = turn.no
    BY TurnNumbers DEF TypeOK
  <1>1. CASE RefusalPassed
    <2>1. turn'.no = turn.no \/ turn.no = 0
      BY <1>0, <1>1, TurnNumbers, {} \in SUBSET Faults DEF RefusalPassed
    <2> QED BY <1>1, <2>1, InterruptsKept DEF RefusalPassed
  <1>2. CASE FailurePushed
    <2>1. turn'.no = turn.no BY <1>0, <1>2 DEF FailurePushed, Faults
    <2> QED BY <1>2, <2>1, InterruptsKept DEF FailurePushed
  <1>3. CASE RefusalEnds
    <2>0. /\ Ends(turn, "clean", "refused") /\ intr' = Observed(turn, "not-active")
          /\ stalled' = stalled
      BY <1>3 DEF RefusalEnds
    <2>1. CASE Live
      <3>1. PICK e0 : e0 = Over(turn, "clean", "refused") /\ ended' = ended \cup {e0}
        BY <2>0, <2>1 DEF Ends, Live
      <3>2. e0.no = turn.no /\ e0.by = "refused"
        BY <3>1, <1>0, TurnTypes, {} \in SUBSET Faults DEF Over
      <3> QED BY <2>0, <2>1, <3>1, <3>2, InterruptsObserved
    <2>2. CASE ~Live
      <3>1. intr' = intr BY <2>0, <2>2, NoneObserved
      <3>2. ended' = ended BY <2>0, <2>2 DEF Ends, Live
      <3> QED BY <2>0, <2>2, <3>1, <3>2, InterruptsKept DEF Live
    <2> QED BY <2>1, <2>2
  <1>4. CASE SettlementEnds
    <2>1. pump.aborted \in BOOLEAN BY DEF TypeOK, Pump
    <2> QED BY <1>4, <2>1, InterruptsSettle DEF SettlementEnds
  <1>5. CASE WallPassed
    <2>1. turn'.no = turn.no BY <1>0, <1>5 DEF WallPassed, Faults
    <2> QED BY <1>5, <2>1, InterruptsKept DEF WallPassed
  <1> QED BY <1>1, <1>2, <1>3, <1>4, <1>5 DEF PumpResumes

LEMMA InterruptsProcess ==
  TypeOK /\ InterruptsFollowTurns /\ Process => InterruptsFollowTurns'
  <1> SUFFICES ASSUME TypeOK, InterruptsFollowTurns, Process PROVE InterruptsFollowTurns'
    OBVIOUS
  <1> USE DEF sends, turns, life, pumps, native
  <1>0. turn \in Turn /\ \A f \in SUBSET Faults : Blame(turn, f).no = turn.no
    BY TurnNumbers DEF TypeOK
  <1>1. CASE Stall
    <2>1. ended \subseteq ended' BY <1>1 DEF Stall, Ends
    <2> QED BY <1>1, <2>1, InterruptsKept DEF Stall
  <1>2. CASE CloseGrace \/ KillGrace \/ DrainCheck
    BY <1>2, InterruptsKept DEF CloseGrace, KillGrace, DrainCheck
  <1>3. CASE InputError
    <2>1. turn'.no = turn.no BY <1>0, <1>3 DEF InputError, Faults
    <2> QED BY <1>3, <2>1, InterruptsKept DEF InputError
  <1>4. ASSUME NEW c \in ExitCodes, Exited(c) PROVE InterruptsFollowTurns'
    <2>1. turn'.no = turn.no BY <1>0, <1>4 DEF Exited, Turn
    <2> QED BY <1>4, <2>1, InterruptsKept DEF Exited
  <1>5. ASSUME NEW late \in {{}, {"failure"}}, Finalize(late) PROVE InterruptsFollowTurns'
    <2> SUFFICES ASSUME NEW i \in Interrupts
                 PROVE  FollowsIn(intr'[i], ended', turn'.no, stalled')
      BY FollowsOne
    <2>1. intr[i] \in Interrupt /\ FollowsIn(intr[i], ended, turn.no, stalled)
      BY FollowsOne DEF TypeOK
    <2>2. ended \subseteq ended' /\ stalled' = stalled
      BY <1>5 DEF Finalize, Ends
    <2>3. CASE intr[i].phase \in {"asked", "bound"}
      <3>1. intr'[i] = [intr[i] EXCEPT !.phase = "over", !.receipt = "closed"]
        BY <1>5, <2>3 DEF Finalize
      <3>2. /\ intr'[i].phase = "over" /\ intr'[i].receipt = "closed"
            /\ intr'[i].seen = intr[i].seen /\ intr'[i].target = intr[i].target
        BY <3>1, <2>1 DEF Interrupt
      <3> QED BY <2>1, <2>2, <3>2 DEF FollowsIn
    <2>4. CASE intr[i].phase \notin {"asked", "bound"}
      <3>1. intr'[i] = intr[i] BY <1>5, <2>4 DEF Finalize
      <3> QED BY <2>1, <2>2, <2>4, <3>1 DEF FollowsIn
    <2> QED BY <2>3, <2>4
  <1> QED BY <1>1, <1>2, <1>3, <1>4, <1>5 DEF Process

(* The inductive invariant of the interrupts holds in every behaviour.     *)
THEOREM InterruptsRun == Spec => []InterruptsFollowTurns
  <1>1. TypeOK /\ InterruptsFollowTurns /\ [Next]_vars => InterruptsFollowTurns'
    <2> SUFFICES ASSUME TypeOK, InterruptsFollowTurns, [Next]_vars
                 PROVE  InterruptsFollowTurns'
      OBVIOUS
    <2>1. CASE Done \/ UNCHANGED vars
      BY <2>1, InterruptsKept DEF Done, vars, turns, life
    <2> QED BY <2>1, InterruptsCaller, InterruptsHarness, InterruptsPump, InterruptsProcess
        DEF Next
  <1> QED BY TypeCorrect, InterruptsInit, <1>1, PTL DEF Spec

(* An interrupt takes its own target's settlement, and one that is still   *)
(* waiting has its target live, unless a stall is ending the session.      *)
THEOREM InterruptsCorrect == Spec => []InterruptInv
  <1>1. InterruptsFollowTurns => InterruptInv
    BY DEF InterruptsFollowTurns, TargetsLive, Unsettled, InterruptInv, BoundInterruptWatched
  <1> QED BY <1>1, InterruptsRun, PTL
=============================================================================
