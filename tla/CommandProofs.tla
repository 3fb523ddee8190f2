---------------------------- MODULE CommandProofs ----------------------------
(***************************************************************************)
(* What is proved of the parts around a session: of the channel between    *)
(* its pumps and its reader, for every pair of water marks, every set of   *)
(* producers and every number of pushes; of hcn run, for every call and    *)
(* every number of events; and of what a plan may tell a harness: the      *)
(* settings a fingerprint binds, who may say what, and what its flags say, *)
(* for every call.                                                         *)
(***************************************************************************)
EXTENDS RunCommand, AsyncChannel, FiniteSetTheorems, SequenceTheorems, NaturalsInduction,
        WellFoundedInduction, TLAPS

-----------------------------------------------------------------------------
(* The channel                                                             *)

(* The first element of a sequence followed by the rest is the sequence.   *)
LEMMA HeadTail ==
  ASSUME NEW S, NEW y \in Seq(S), NEW q \in Seq(S), q # <<>>
  PROVE  /\ Append(y, Head(q)) \in Seq(S)
         /\ Tail(q) \in Seq(S)
         /\ Len(Tail(q)) = Len(q) - 1
         /\ Append(y, Head(q)) \o Tail(q) = y \o q
  <1>1. Len(q) \in Nat /\ Len(q) > 0 /\ Head(q) \in S
    OBVIOUS
  <1>2. Tail(q) \in Seq(S) /\ Len(Tail(q)) = Len(q) - 1
    OBVIOUS
  <1>3. Append(y, Head(q)) \in Seq(S) /\ Len(Append(y, Head(q))) = Len(y) + 1
    BY <1>1
  <1>4. Append(y, Head(q)) \o Tail(q) = y \o q
    <2>1. Len(Append(y, Head(q)) \o Tail(q)) = Len(y \o q)
      BY <1>1, <1>2, <1>3
    <2>2. ASSUME NEW i \in 1 .. Len(y \o q)
          PROVE  (Append(y, Head(q)) \o Tail(q))[i] = (y \o q)[i]
      <3>1. CASE i <= Len(y)
        BY <3>1, <1>1, <1>2, <1>3
      <3>2. CASE i = Len(y) + 1
        BY <3>2, <1>1, <1>2, <1>3
      <3>3. CASE i > Len(y) + 1
        BY <3>3, <1>1, <1>2, <1>3
      <3> QED BY <3>1, <3>2, <3>3, <1>1
    <2> QED BY <2>1, <2>2, <1>2, <1>3
  <1> QED BY <1>2, <1>3, <1>4

(* What push appends comes out after everything that is in the channel.    *)
LEMMA PushKeepsOrder ==
  ASSUME TypeOK, NEW e \in Accepted
  PROVE  Append(yielded \o items, e) = yielded \o Append(items, e)
  <1>1. yielded \in Seq(Accepted) /\ items \in Seq(Accepted)
    BY DEF TypeOK
  <1>2. yielded \o items \in Seq(Accepted) /\ <<e>> \in Seq(Accepted)
    BY <1>1
  <1>3. Append(yielded \o items, e) = (yielded \o items) \o <<e>>
    BY <1>2, AppendIsConcat
  <1>4. Append(items, e) = items \o <<e>>
    BY <1>1, AppendIsConcat
  <1>5. (yielded \o items) \o <<e>> = yielded \o (items \o <<e>>)
    BY <1>1, <1>2, ConcatAssociative
  <1> QED BY <1>3, <1>4, <1>5

(* Every variable keeps its type. *)
THEOREM ChannelTyped == ChannelSpec => []TypeOK
<1>1. ChannelInit => TypeOK
  <2> SUFFICES ASSUME ChannelInit PROVE TypeOK
    OBVIOUS
  <2>1. <<>> \in Seq(Accepted)
    OBVIOUS
  <2>2. pushes \in [Producers -> 0 .. MaxPushes]
    BY ProducersAssumption DEF ChannelInit
  <2> QED BY <2>1, <2>2 DEF ChannelInit, TypeOK, Consumer
<1>2. TypeOK /\ [ChannelNext]_channelVars => TypeOK'
  <2> SUFFICES ASSUME TypeOK, [ChannelNext]_channelVars PROVE TypeOK'
    OBVIOUS
  <2> USE ProducersAssumption DEF TypeOK, Consumer
  <2>1. ASSUME NEW p \in Producers, Push(p) PROVE TypeOK'
    <3>1. pushes[p] + 1 \in 1 .. MaxPushes /\ pushes' \in [Producers -> 0 .. MaxPushes]
      BY <2>1 DEF Push
    <3>2. <<p, pushes[p] + 1>> \in Accepted
      BY <3>1 DEF Accepted
    <3>3. items' \in Seq(Accepted) /\ accepted' \in Seq(Accepted)
      BY <2>1, <3>2 DEF Push
    <3> QED BY <2>1, <3>1, <3>3 DEF Push, Wake
  <2>2. ASSUME NEW p \in Producers, PushLate(p) PROVE TypeOK'
    BY <2>2 DEF PushLate
  <2>3. CASE Close
    BY <2>3 DEF Close, Wake
  <2>4. CASE ReleaseBackpressure
    BY <2>4 DEF ReleaseBackpressure
  <2>5. CASE Yield
    <3>1. items' \in Seq(Accepted) /\ yielded' \in Seq(Accepted)
      BY <2>5, HeadTail DEF Yield
    <3> QED BY <2>5, <3>1 DEF Yield
  <2>6. CASE Return
    BY <2>6 DEF Return
  <2>7. CASE Sleep
    BY <2>7 DEF Sleep
  <2>8. CASE UNCHANGED channelVars
    BY <2>8 DEF channelVars
  <2> QED BY <2>1, <2>2, <2>3, <2>4, <2>5, <2>6, <2>7, <2>8 DEF ChannelNext, Iterate
<1> QED BY <1>1, <1>2, PTL DEF ChannelSpec

(* The consumer side: no wake is lost, nothing is lost, repeated or out of *)
(* order, and the end comes after the last item.                           *)
ConsumerInv == NoLostWakeup /\ InOrder /\ (consumer = "returned" => items = <<>> /\ closed)

(* The consumer side is inductive. *)
LEMMA ConsumerInductive == ChannelSpec => []ConsumerInv
<1>1. ChannelInit => ConsumerInv
  BY DEF ChannelInit, ConsumerInv, NoLostWakeup, InOrder
<1>2. TypeOK /\ ConsumerInv /\ [ChannelNext]_channelVars => ConsumerInv'
  <2> SUFFICES ASSUME TypeOK, ConsumerInv, [ChannelNext]_channelVars PROVE ConsumerInv'
    OBVIOUS
  <2> USE DEF ConsumerInv, NoLostWakeup
  <2>1. ASSUME NEW p \in Producers, Push(p) PROVE ConsumerInv'
    <3>1. <<p, pushes[p] + 1>> \in Accepted
      BY <2>1, ProducersAssumption DEF TypeOK, Push, Accepted
    <3>2. Append(yielded \o items, <<p, pushes[p] + 1>>)
          = yielded \o Append(items, <<p, pushes[p] + 1>>)
      BY <3>1, PushKeepsOrder
    <3>3. InOrder'
      BY <2>1, <3>2 DEF Push, InOrder
    <3> QED BY <2>1, <3>3 DEF Push, Wake
  <2>2. ASSUME NEW p \in Producers, PushLate(p) PROVE ConsumerInv'
    BY <2>2 DEF PushLate, InOrder
  <2>3. CASE Close
    BY <2>3 DEF Close, Wake, InOrder
  <2>4. CASE ReleaseBackpressure
    BY <2>4 DEF ReleaseBackpressure, InOrder
  <2>5. CASE Yield
    <3>1. InOrder'
      BY <2>5, HeadTail DEF Yield, InOrder, TypeOK
    <3> QED BY <2>5, <3>1 DEF Yield
  <2>6. CASE Return
    BY <2>6 DEF Return, InOrder
  <2>7. CASE Sleep
    BY <2>7 DEF Sleep, InOrder
  <2>8. CASE UNCHANGED channelVars
    BY <2>8 DEF channelVars, InOrder
  <2> QED BY <2>1, <2>2, <2>3, <2>4, <2>5, <2>6, <2>7, <2>8 DEF ChannelNext, Iterate
<1> QED BY <1>1, <1>2, ChannelTyped, PTL DEF ChannelSpec

(* A sleeping iterator has nothing to do, items come out in the order they *)
(* went in, and the iterator returns only when all of them are out.        *)
THEOREM ConsumerCorrect == ChannelSpec => [](NoLostWakeup /\ InOrder /\ ReturnsDrained)
<1>1. TypeOK /\ ConsumerInv => NoLostWakeup /\ InOrder /\ ReturnsDrained
  <2> SUFFICES ASSUME TypeOK, ConsumerInv PROVE ReturnsDrained
    BY DEF ConsumerInv
  <2>1. yielded \in Seq(Accepted)
    BY DEF TypeOK
  <2>2. items = <<>> => yielded \o items = yielded
    BY <2>1
  <2> QED BY <2>2 DEF ConsumerInv, InOrder, ReturnsDrained
<1> QED BY <1>1, ChannelTyped, ConsumerInductive, PTL

(* Producers never wait for a consumer that waits for them, and the buffer *)
(* holds at most one item past the high mark for each producer that waits. *)
THEOREM ProducersCorrect == ChannelSpec => []Backpressure
<1>1. ChannelInit => Backpressure
  BY MarksAssumption, FS_EmptySet DEF ChannelInit, Backpressure, BlockedBehindItems, Bounded
<1>2. TypeOK /\ ConsumerInv /\ Backpressure /\ [ChannelNext]_channelVars => Backpressure'
  <2> SUFFICES ASSUME TypeOK, ConsumerInv, Backpressure, [ChannelNext]_channelVars PROVE Backpressure'
    OBVIOUS
  <2> USE MarksAssumption DEF Backpressure
  <2>0. IsFiniteSet(blocked) /\ Cardinality(blocked) \in Nat /\ Len(items) \in Nat
        /\ Cardinality({}) = 0
    <3>1. IsFiniteSet(blocked)
      BY ProducersAssumption, FS_Subset DEF TypeOK
    <3> QED BY <3>1, FS_CardinalityType, FS_EmptySet DEF TypeOK
  <2>1. ASSUME NEW p \in Producers, Push(p) PROVE Backpressure'
    <3>1. Len(items') = Len(items) + 1
      BY <2>1 DEF Push, TypeOK
    <3>2. BlockedBehindItems'
      <4>1. CASE Full
        BY <4>1, <3>1, <2>0, <2>1 DEF Push, Full, Wake, BlockedBehindItems, TypeOK, Consumer
      <4>2. CASE ~Full
        BY <4>2, <3>1, <2>0, <2>1 DEF Push, Wake, BlockedBehindItems
      <4> QED BY <4>1, <4>2
    <3>3. Bounded'
      <4>1. CASE Full
        <5>1. blocked' = blocked \cup {p} /\ p \notin blocked
          BY <4>1, <2>1 DEF Push
        <5>2. Cardinality(blocked') = Cardinality(blocked) + 1
          BY <5>1, <2>0, FS_AddElement
        <5> QED BY <5>2, <3>1, <2>0, <2>1 DEF Push, Bounded
      <4>2. CASE ~Full
        BY <4>2, <3>1, <2>0, <2>1 DEF Push, Full, Bounded
      <4> QED BY <4>1, <4>2
    <3> QED BY <3>2, <3>3
  <2>2. ASSUME NEW p \in Producers, PushLate(p) PROVE Backpressure'
    BY <2>2 DEF PushLate, BlockedBehindItems, Bounded
  <2>3. CASE Close
    BY <2>3 DEF Close, BlockedBehindItems, Bounded
  <2>4. CASE ReleaseBackpressure
    BY <2>4 DEF ReleaseBackpressure, BlockedBehindItems, Bounded
  <2>5. CASE Yield
    <3>1. Len(items') = Len(items) - 1 /\ Len(items) > 0
      BY <2>5, HeadTail DEF Yield, TypeOK
    <3>2. CASE Low
      BY <3>1, <3>2, <2>0, <2>5 DEF Yield, Low, BlockedBehindItems, Bounded
    <3>3. CASE ~Low
      BY <3>1, <3>3, <2>0, <2>5 DEF Yield, Low, BlockedBehindItems, Bounded
    <3> QED BY <3>2, <3>3
  <2>6. CASE Return
    BY <2>6, <2>0 DEF Return, BlockedBehindItems, Bounded
  <2>7. CASE Sleep
    <3>1. Len(items) = 0
      BY <2>7 DEF Sleep
    <3> QED BY <3>1, <2>7, <2>0 DEF Sleep, BlockedBehindItems, Bounded
  <2>8. CASE UNCHANGED channelVars
    BY <2>8 DEF channelVars, BlockedBehindItems, Bounded
  <2> QED BY <2>1, <2>2, <2>3, <2>4, <2>5, <2>6, <2>7, <2>8 DEF ChannelNext, Iterate
<1> QED BY <1>1, <1>2, ChannelTyped, ConsumerInductive, PTL DEF ChannelSpec

-----------------------------------------------------------------------------
(* A set in some order                                                     *)

Once(q) == \A i, j \in 1 .. Len(q) : q[i] = q[j] => i = j

(* A finite set is put in order: each member comes once.                   *)
LEMMA InSomeOrder ==
  ASSUME NEW S, IsFiniteSet(S)
  PROVE  /\ SetToSeq(S) \in Seq(S) /\ Once(SetToSeq(S)) /\ ToSet(SetToSeq(S)) = S
  <1> DEFINE n == Cardinality(S)
             q == SetToSeq(S)
  <1>1. n \in Nat /\ ExistsBijection(1 .. n, S)
    BY FS_CardinalityType
  <1>2. \E f \in [1 .. n -> S] : IsInjective(f)
    BY <1>1 DEF ExistsBijection, Bijection, Injection, IsInjective
  <1>3. q \in [1 .. n -> S] /\ IsInjective(q)
    BY <1>2 DEF SetToSeq
  <1>4. IsFiniteSet(1 .. n) /\ Cardinality(1 .. n) = n
    BY <1>1, FS_Interval
  <1>5. q \in Injection(1 .. n, S)
    BY <1>3 DEF Injection, IsInjective
  <1>6. q \in Surjection(1 .. n, S)
    BY <1>4, <1>5, FS_Injection
  <1> HIDE DEF n, q
  <1>7. q \in Seq(S) /\ Len(q) = n
    BY <1>1, <1>3
  <1>8. \A x \in S : \E i \in 1 .. n : q[i] = x
    BY <1>6 DEF Surjection
  <1>9. ToSet(q) = S
    BY <1>3, <1>8 DEF ToSet
  <1>10. Once(q)
    BY <1>3, <1>7 DEF Once, IsInjective
  <1> QED BY <1>7, <1>9, <1>10 DEF q

LEMMA PairFinite ==
  ASSUME NEW a, NEW b
  PROVE  IsFiniteSet({a, b})
  <1>1. IsFiniteSet({a}) /\ IsFiniteSet({b})
    BY FS_Singleton
  <1>2. {a, b} = {a} \cup {b}
    OBVIOUS
  <1>3. IsFiniteSet({a} \cup {b})
    BY <1>1, FS_Union
  <1> QED BY <1>2, <1>3

-----------------------------------------------------------------------------
(* What a run keeps at all times                                           *)

\* What a plan touches before its last question, the probe.
Earlier == {"stdin", "prompt-file", "registry", "extension files", "config", "inspect", "store"}
Unavailable == "extension-option-unavailable"
ProbedLast ==
  \/ effects \in Seq(Earlier)
  \/ stage = "planned"
  \/ stage = "refused" /\ issue = Unavailable

CallFields == {"command", "shape", "args", "user", "project", "env", "inherited"}
NothingDone ==
  /\ turn = NoTurn /\ out = << >> /\ observer = [mode |-> "off", log |-> << >>]
  /\ sig = [interrupted |-> FALSE, told |-> {}, broken |-> FALSE, gone |-> FALSE]

OneTurn == [spawned : BOOLEAN, child : {"none", "never", "alive", "gone"}, missing : BOOLEAN,
            verified : BOOLEAN, events : 0 .. (MaxEvents + 1), cause : Causes \cup {"none"}]
Written == Droppable \cup {"event", "failure", "done", "closed"}
Words == {"started", "event", "failure", "done", "skipped"}
OneObserver == [mode : {"off", "waiting", "live", "ended", "failed"}, log : Seq(Words)]
RunTypes ==
  /\ run \in {"planning", "guard", "streaming", "open", "over"}
  /\ turn \in OneTurn /\ observer \in OneObserver
  /\ out \in Seq(Written)
  /\ sig \in [interrupted : BOOLEAN, told : SUBSET {"SIGTERM", "SIGKILL"},
              broken : BOOLEAN, gone : BOOLEAN]

(* What an observer in a mode has been told of some lines.                 *)
Told(o, lines) ==
  /\ o.mode \in {"off", "waiting"} => o.log = << >>
  /\ o.mode \in {"live", "ended", "failed"} =>
       /\ o.log # << >> /\ o.log[1] = "started"
       /\ \A i \in 1 .. Len(o.log) - 1 : o.log[i] # "done"
  /\ o.mode = "live" => o.log[Len(o.log)] # "done"
  /\ o.mode = "ended" => o.log[Len(o.log)] \in Records("done")
  /\ o.mode \in {"live", "ended"} => Tells(o.log, lines)

(* A turn under way is ended by one done.                                  *)
Streams ==
  /\ ~IsSession /\ ~sig.gone
  /\ Ended <=> LastOut = "done"
  /\ Ended => turn.cause \in Causes /\ exit = CauseExit(turn.cause)
  /\ turn.child = "none" => ~turn.spawned /\ out = << >>
  /\ turn.spawned => observer.mode # "waiting"
  /\ ~turn.spawned => observer.mode \in {"off", "waiting"}
  /\ observer.mode = "live" => ~Ended
  /\ observer.mode = "ended" => Ended
  /\ Told(observer, out)

RunInv ==
  /\ RunTypes /\ ProbedLast
  /\ run = "planning" => NothingDone /\ CallFields \subseteq DOMAIN call
  /\ run = "guard" => NothingDone /\ ~IsSession
  /\ run = "open" => observer.log = << >> /\ observer.mode = "off"
  /\ run = "streaming" => Streams
  /\ run = "over" => RunTold

-----------------------------------------------------------------------------
(* The plan of a run                                                       *)

LEMMA StageKeeps ==
  ASSUME ProbedLast, stage \notin {"planned", "refused"},
         NEW touched \in Seq(Earlier), effects' = effects \o touched
  PROVE  ProbedLast'
  <1>1. effects \in Seq(Earlier)
    BY DEF ProbedLast
  <1>2. effects' \in Seq(Earlier)
    BY <1>1
  <1> QED BY <1>2 DEF ProbedLast

LEMMA SomeTouched ==
  /\ << >> \in Seq(Earlier)
  /\ \A x \in Earlier : << x >> \in Seq(Earlier)
  OBVIOUS

LEMMA OneTouched ==
  /\ << "stdin" >> \in Seq(Earlier) /\ << "prompt-file" >> \in Seq(Earlier)
  /\ << "registry" >> \in Seq(Earlier) /\ << "extension files" >> \in Seq(Earlier)
  /\ << "config" >> \in Seq(Earlier) /\ << "inspect" >> \in Seq(Earlier)
  /\ << "store" >> \in Seq(Earlier)
  BY SomeTouched DEF Earlier

(* Nothing but the last question asks the harness.                         *)
LEMMA PlanningKeeps ==
  ASSUME ProbedLast, PlanNext \/ SessionPlanNext
  PROVE  ProbedLast' /\ call' = call
  <1> USE SomeTouched, OneTouched
  <1>1. CASE Parse
    <2>1. stage = "parse" /\ effects' = effects \o << >> /\ call' = call
      BY <1>1 DEF Parse, Stage
    <2> QED BY <2>1, StageKeeps
  <1>2. CASE ParseOptions
    <2>1. stage = "options" /\ effects' = effects \o << >> /\ call' = call
      BY <1>2 DEF ParseOptions, Stage
    <2> QED BY <2>1, StageKeeps
  <1>3. CASE LoadConfig
    <2>1. stage = "config" /\ effects' = effects \o << "config" >> /\ call' = call
      BY <1>3 DEF LoadConfig, Stage
    <2> QED BY <2>1, StageKeeps
  <1>4. CASE ResolveTiers
    <2>1. stage = "resolve" /\ effects' = effects \o << >> /\ call' = call
      BY <1>4 DEF ResolveTiers, Stage
    <2> QED BY <2>1, StageKeeps
  <1>5. CASE ResolveModel
    <2>1. stage = "model" /\ effects' = effects \o << >> /\ call' = call
      BY <1>5 DEF ResolveModel, Stage
    <2> QED BY <2>1, StageKeeps
  <1>6. CASE SessionFlags
    <2>1. stage = "session" /\ effects' = effects \o << >> /\ call' = call
      BY <1>6 DEF SessionFlags, Stage
    <2> QED BY <2>1, StageKeeps
  <1>7. CASE SessionId
    <2>1. stage = "session id" /\ effects' = effects \o << >> /\ call' = call
      BY <1>7 DEF SessionId, Stage
    <2> QED BY <2>1, StageKeeps
  <1>8. CASE SessionConfig
    <2>1. stage = "session config" /\ effects' = effects \o << "config" >> /\ call' = call
      BY <1>8 DEF SessionConfig, Stage
    <2> QED BY <2>1, StageKeeps
  <1>9. CASE SessionOptions
    <2>1. stage = "session options" /\ effects' = effects \o << >> /\ call' = call
      BY <1>9 DEF SessionOptions, Stage
    <2> QED BY <2>1, StageKeeps
  <1>10. CASE BuildSession
    <2>1. stage = "session argv" /\ effects' = effects \o << >> /\ call' = call
      BY <1>10 DEF BuildSession, Stage
    <2> QED BY <2>1, StageKeeps
  <1>11. CASE ReadPrompt
    <2> DEFINE touched == IF Cardinality(PromptSources) = 1 /\ Tagged("--prompt-file")
                          THEN << IF Tagged("stdin") THEN "stdin" ELSE "prompt-file" >>
                          ELSE << >>
    <2>1. stage = "prompt" /\ effects' = effects \o touched /\ call' = call
      BY <1>11 DEF ReadPrompt, Stage
    <2>2. touched \in Seq(Earlier)
      OBVIOUS
    <2> HIDE DEF touched
    <2> QED BY <2>1, <2>2, StageKeeps
  <1>12. CASE ResolveSkills
    <2> DEFINE touched == IF SkillNames = {} THEN << >> ELSE << "registry" >>
    <2>1. stage = "skills" /\ effects' = effects \o touched /\ call' = call
      BY <1>12 DEF ResolveSkills, Stage
    <2>2. touched \in Seq(Earlier)
      OBVIOUS
    <2> HIDE DEF touched
    <2> QED BY <2>1, <2>2, StageKeeps
  <1>13. CASE CheckExtensions
    <2> DEFINE touched == IF (IF Given(call.args, "extensions") THEN call.args.extensions ELSE {}) = {}
                          THEN << >> ELSE << "extension files" >>
    <2>1. stage = "files" /\ effects' = effects \o touched /\ call' = call
      BY <1>13 DEF CheckExtensions, Stage
    <2>2. touched \in Seq(Earlier)
      OBVIOUS
    <2> HIDE DEF touched
    <2> QED BY <2>1, <2>2, StageKeeps
  <1>14. CASE SessionSkills
    <2> DEFINE touched == IF SkillNames = {} THEN << >> ELSE << "registry" >>
    <2>1. stage = "session skills" /\ effects' = effects \o touched /\ call' = call
      BY <1>14 DEF SessionSkills, Stage
    <2>2. touched \in Seq(Earlier)
      OBVIOUS
    <2> HIDE DEF touched
    <2> QED BY <2>1, <2>2, StageKeeps
  <1>15. CASE BuildArgv
    <2>1. \E touched \in Seq(Earlier) :
            stage = "argv" /\ effects' = effects \o touched /\ call' = call
      <3>1. CASE Tagged("fingerprint")
        <4>1. PICK answer \in Inspections : BuildFromSettings(Composed, answer)
          BY <1>15, <3>1 DEF BuildArgv
        <4>2. PICK early : /\ stage = "argv" /\ call' = call
                           /\ effects' = effects \o (IF early = "none" THEN << "inspect" >>
                                                     ELSE << >>)
          BY <4>1 DEF BuildFromSettings, Stage
        <4> QED BY <4>2
      <3>2. CASE ~Tagged("fingerprint")
        <4>1. stage = "argv" /\ effects' = effects \o << >> /\ call' = call
          BY <1>15, <3>2 DEF BuildArgv, Stage
        <4> QED BY <4>1
      <3> QED BY <3>1, <3>2
    <2> QED BY <2>1, StageKeeps
  <1>16. CASE SessionStore
    <2>1. PICK store : /\ stage = "session store" /\ call' = call
                       /\ effects' = effects \o (IF store = "skipped" THEN << >>
                                                 ELSE << "store" >>)
      BY <1>16 DEF SessionStore, Stage
    <2>2. (IF store = "skipped" THEN << >> ELSE << "store" >>) \in Seq(Earlier)
      OBVIOUS
    <2> QED BY <2>1, <2>2, StageKeeps
  <1>17. CASE ProbeOptions
    <2>1. PICK present \in IF Probed = {} THEN {TRUE} ELSE BOOLEAN :
            Stage("probe", "planned", IssueIf(~present, "extension-option-unavailable"),
                  plan, IF Probed = {} THEN << >> ELSE << "probe" >>)
      BY <1>17 DEF ProbeOptions
    <2>2. CASE present
      BY <2>1, <2>2 DEF Stage, IssueIf, ProbedLast
    <2>3. CASE ~present
      BY <2>1, <2>3 DEF Stage, IssueIf, ProbedLast, Unavailable
    <2> QED BY <2>2, <2>3
  <1> QED BY <1>1, <1>2, <1>3, <1>4, <1>5, <1>6, <1>7, <1>8, <1>9, <1>10, <1>11, <1>12, <1>13, <1>14, <1>15, <1>16, <1>17
          DEF PlanNext, SessionPlanNext

-----------------------------------------------------------------------------
(* The run                                                                 *)

(* A line more, and its place.                                             *)
LEMMA PlaceMore ==
  ASSUME NEW S, NEW s \in Seq(S), NEW w \in S
  PROVE  /\ \A i \in 0 .. Len(s) : /\ Place(Append(s, w), i) = Place(s, i)
                                   /\ Place(s, i) \in 0 .. Place(s, Len(s))
         /\ Place(Append(s, w), Len(s) + 1)
              = Place(s, Len(s)) + IF w \in Droppable THEN 0 ELSE 1
         /\ \A i \in 1 .. Len(s) : s[i] \notin Droppable => Place(s, i) >= 1
  <1> DEFINE n == Len(s)
             more == Append(s, w)
             at(q, i) == {j \in 1 .. i : q[j] \notin Droppable}
  <1>1. n \in Nat /\ more[n + 1] = w /\ \A j \in 1 .. n : more[j] = s[j]
    OBVIOUS
  <1> HIDE DEF n, more
  <1>2. ASSUME NEW q, NEW i \in Nat
        PROVE  IsFiniteSet(at(q, i)) /\ Cardinality(at(q, i)) \in Nat
    <2>1. IsFiniteSet(1 .. i)
      BY FS_Interval
    <2> QED BY <2>1, FS_Subset, FS_CardinalityType
  <1>3. ASSUME NEW i \in 0 .. n
        PROVE  at(more, i) = at(s, i) /\ Cardinality(at(s, i)) \in 0 .. Cardinality(at(s, n))
    <2>1. at(more, i) = at(s, i) /\ at(s, i) \subseteq at(s, n) /\ i \in Nat
      BY <1>1
    <2> QED BY <1>1, <1>2, <2>1, FS_Subset
  <1>4. ASSUME NEW i \in 1 .. n, s[i] \notin Droppable PROVE Cardinality(at(s, i)) >= 1
    <2>1. i \in at(s, i) /\ i \in Nat
      BY <1>1, <1>4
    <2>2. IsFiniteSet(at(s, i)) /\ Cardinality(at(s, i)) \in Nat /\ at(s, i) # {}
      BY <1>2, <2>1
    <2> HIDE DEF at
    <2> QED BY <2>2, FS_EmptySet
  <1>5. at(more, n + 1) = IF w \in Droppable THEN at(s, n) ELSE at(s, n) \cup {n + 1}
    <2>1. 1 .. (n + 1) = (1 .. n) \cup {n + 1}
      BY <1>1
    <2> QED BY <1>1, <2>1
  <1>6. Cardinality(at(more, n + 1)) = Cardinality(at(s, n)) + IF w \in Droppable THEN 0 ELSE 1
    <2>1. n + 1 \notin at(s, n)
      BY <1>1
    <2>2. n \in 0 .. n
      BY <1>1
    <2>3. IsFiniteSet(at(s, n)) /\ Cardinality(at(s, n)) \in Nat
      BY <2>2, <1>2
    <2> HIDE DEF at
    <2>4. Cardinality(at(s, n) \cup {n + 1}) = Cardinality(at(s, n)) + 1
      BY <2>1, <2>3, FS_AddElement
    <2> QED BY <1>5, <2>3, <2>4
  <1> QED BY <1>3, <1>4, <1>6 DEF Place, n, more

(* One more line, and its record unless nobody is owed one.                *)
LEMMA TellsMore ==
  ASSUME NEW h \in Seq(Words), NEW s \in Seq(Written), NEW kind \in Written,
         NEW record \in Words, record \in Records(kind), Tells(h, s)
  PROVE  Tells(IF kind \in Droppable THEN h ELSE Append(h, record), Append(s, kind))
  <1> DEFINE n == Len(s)
             more == Append(s, kind)
             told == IF kind \in Droppable THEN h ELSE Append(h, record)
  <1>1. /\ \A i \in 0 .. n : Place(more, i) = Place(s, i) /\ Place(s, i) \in 0 .. Place(s, n)
        /\ Place(more, n + 1) = Place(s, n) + IF kind \in Droppable THEN 0 ELSE 1
        /\ \A i \in 1 .. n : s[i] \notin Droppable => Place(s, i) >= 1
    BY PlaceMore
  <1>2. n \in Nat /\ Len(more) = n + 1 /\ more[n + 1] = kind /\ \A i \in 1 .. n : more[i] = s[i]
    OBVIOUS
  <1>3. Len(h) \in Nat /\ Len(h) = 1 + Place(s, n)
        /\ \A i \in 1 .. n : s[i] \notin Droppable => h[1 + Place(s, i)] \in Records(s[i])
    BY DEF Tells
  <1>4. /\ Len(told) = Len(h) + IF kind \in Droppable THEN 0 ELSE 1
        /\ \A i \in 1 .. Len(h) : told[i] = h[i]
        /\ kind \notin Droppable => told[Len(h) + 1] = record
    BY <1>3
  <1> HIDE DEF n, more, told
  <1>5. ASSUME NEW i \in 1 .. Len(more), more[i] \notin Droppable
        PROVE  told[1 + Place(more, i)] \in Records(more[i])
    <2>1. CASE i = n + 1
      <3>1. kind \notin Droppable /\ 1 + Place(more, i) = Len(h) + 1
        BY <1>1, <1>2, <1>3, <1>5, <2>1
      <3> QED BY <1>2, <1>4, <2>1, <3>1
    <2>2. CASE i \in 1 .. n
      <3>1. Place(more, i) = Place(s, i) /\ 1 + Place(s, i) \in 1 .. Len(h) /\ more[i] = s[i]
        BY <1>1, <1>2, <1>3, <2>2
      <3> QED BY <1>3, <1>4, <1>5, <2>2, <3>1
    <2> QED BY <1>2, <2>1, <2>2
  <1>6. Len(told) = 1 + Place(more, Len(more))
    BY <1>1, <1>2, <1>3, <1>4
  <1> QED BY <1>5, <1>6 DEF Tells, more, told

LEMMA WatchedTold ==
  ASSUME NEW o \in OneObserver, o.mode # "ended", NEW s \in Seq(Written), Told(o, s),
         NEW kind \in Droppable \cup {"event", "failure", "done"}, NEW record \in Records(kind)
  PROVE  /\ Watched(o, kind, record) \in OneObserver
         /\ Told(Watched(o, kind, record), Append(s, kind)) /\ Append(s, kind) \in Seq(Written)
         /\ Watched(o, kind, record).mode
              = IF o.mode = "live" /\ kind = "done" THEN "ended" ELSE o.mode
  <1>1. kind \in Written /\ Append(s, kind) \in Seq(Written)
        /\ o.log \in Seq(Words) /\ Len(o.log) \in Nat
    BY DEF Written, OneObserver
  <1>2. CASE o.mode # "live"
    <2>1. Watched(o, kind, record) = o
      BY <1>2 DEF Watched
    <2> QED BY <1>1, <1>2, <2>1 DEF Told
  <1>3. CASE o.mode = "live" /\ kind \in Droppable
    <2>1. Watched(o, kind, record) = o /\ kind # "done" /\ "skipped" \in Words
          /\ "skipped" \in Records(kind)
      BY <1>3 DEF Watched, Droppable, Words, Records
    <2>2. Tells(o.log, s)
      BY <1>3 DEF Told
    <2>3. Tells(o.log, Append(s, kind))
      BY <1>1, <1>3, <2>1, <2>2, TellsMore
    <2> QED BY <1>1, <1>3, <2>1, <2>3 DEF Told
  <1>4. CASE o.mode = "live" /\ kind \notin Droppable
    <2> DEFINE mode == IF kind = "done" THEN "ended" ELSE "live"
               log == Append(o.log, record)
    <2>1. record \in Words /\ (record = "done" => kind = "done")
      BY <1>4 DEF Records, Words
    <2>2. Tells(o.log, s) /\ o.log # << >> /\ o.log[1] = "started"
          /\ \A i \in 1 .. Len(o.log) : o.log[i] # "done"
      BY <1>1, <1>4 DEF Told
    <2>3. Tells(log, Append(s, kind))
      BY <1>1, <1>4, <2>1, <2>2, TellsMore
    <2>4. log \in Seq(Words) /\ log # << >> /\ log[1] = "started" /\ log[Len(log)] = record
          /\ \A i \in 1 .. Len(log) - 1 : log[i] # "done"
      BY <1>1, <2>1, <2>2
    <2>5. Watched(o, kind, record) = [mode |-> mode, log |-> log]
      BY <1>4 DEF Watched
    <2> HIDE DEF log
    <2> QED BY <1>1, <1>4, <2>1, <2>3, <2>4, <2>5 DEF Told, OneObserver
  <1> QED BY <1>2, <1>3, <1>4

LEMMA NoProbeIn ==
  ASSUME NEW s \in Seq(Earlier)
  PROVE  "probe" \notin Range(s)
  <1>1. \A i \in DOMAIN s : s[i] \in Earlier
    OBVIOUS
  <1>2. "probe" \notin Earlier
    BY DEF Earlier
  <1> QED BY <1>1, <1>2 DEF Range

LEMMA RunStarts == Init => RunInv
  <1> SUFFICES ASSUME Init PROVE RunInv
    OBVIOUS
  <1>1. RunTypes
    <2>1. << >> \in Seq(Written) /\ << >> \in Seq(Words)
      OBVIOUS
    <2>2. NoTurn \in OneTurn
      BY RunAssumption DEF NoTurn, OneTurn
    <2> QED BY <2>1, <2>2 DEF Init, RunTypes, OneObserver
  <1>2. ProbedLast
    <2>1. << >> \in Seq(Earlier)
      OBVIOUS
    <2> QED BY <2>1 DEF Init, PlanInit, ProbedLast
  <1>3. CallFields \subseteq DOMAIN call
    BY CallsAssumption DEF Init, PlanInit, CallFields
  <1> QED BY <1>1, <1>2, <1>3 DEF Init, RunInv, NothingDone

LEMMA PlanningStepKeeps == RunInv /\ Planning => RunInv'
  <1> SUFFICES ASSUME RunInv, Planning PROVE RunInv'
    OBVIOUS
  <1>1. ProbedLast' /\ call' = call
    BY PlanningKeeps DEF RunInv, Planning
  <1>2. run' = "planning" /\ UNCHANGED << turn, out, observer, sig, exit >> /\ run = "planning"
    BY DEF Planning, runVars
  <1>3. RunTypes' /\ NothingDone' /\ (CallFields \subseteq DOMAIN call)'
    BY <1>1, <1>2 DEF RunInv, RunTypes, NothingDone
  <1> QED BY <1>1, <1>2, <1>3 DEF RunInv

(* A refusal tells itself, and that nothing was started.                   *)
LEMMA RefusalTells ==
  ASSUME RunTypes, ProbedLast, out = << >>, observer.log = << >>, observer.mode # "live",
         ~sig.gone, ~turn'.spawned, turn' \in OneTurn,
         NEW code \in {ExitRefusal, ExitFailure},
         out' = IF Tagged("json") THEN out \o << "failure", Terminal >> ELSE out,
         Over(code, observer), UNCHANGED << planVars, sig >>
  PROVE  RunInv'
  <1>1. /\ run' = "over" /\ exit' = code /\ code # ExitClean
        /\ call' = call /\ stage' = stage /\ effects' = effects /\ issue' = issue /\ sig' = sig
    BY DEF Over, planVars, ExitRefusal, ExitFailure, ExitClean
  <1>2. observer' \in OneObserver /\ observer'.log = << >>
    BY DEF Over, ObserverEnds, RunTypes, OneObserver
  <1> DEFINE pair == << "failure", Terminal >>
  <1>3. pair \in Seq(Written) /\ Len(pair) = 2 /\ pair[1] = "failure" /\ pair[2] = Terminal
    BY DEF Terminal, Written
  <1> HIDE DEF pair
  <1>4. << >> \o pair = pair
    BY <1>3
  <1>5. out' = IF Tagged("json") THEN pair ELSE << >>
    BY <1>4 DEF pair
  <1>6. out' \in Seq(Written) /\ Range(out') \subseteq {"failure", Terminal'}
    <2>1. Terminal' = Terminal
      BY <1>1 DEF Terminal, IsSession
    <2>2. CASE Tagged("json")
      <3>1. DOMAIN pair = 1 .. 2
        BY <1>3
      <3> QED BY <1>3, <1>5, <2>1, <2>2, <3>1 DEF Range
    <2>3. CASE ~Tagged("json")
      BY <1>5, <2>3 DEF Range
    <2> QED BY <2>2, <2>3
  <1>7. Tagged("json")' => LastOut' = Terminal'
    <2>1. Tagged("json")' = Tagged("json") /\ Terminal' = Terminal
      BY <1>1 DEF Tagged, Terminal, IsSession
    <2>2. pair # << >>
      BY <1>3
    <2> QED BY <1>3, <1>5, <2>1, <2>2 DEF LastOut
  <1>8. ProbedLast'
    BY <1>1 DEF ProbedLast
  <1>9. (stage = "refused" /\ "probe" \in Range(effects))' => issue' = Unavailable
    BY <1>8, NoProbeIn DEF ProbedLast
  <1>10. RunTypes'
    BY <1>1, <1>2, <1>6 DEF RunTypes
  <1>11. ExitTellsTruth'
    BY <1>1, <1>6, <1>7, <1>9 DEF ExitTellsTruth, Unavailable
  <1>12. ObserverSeesRun'
    BY <1>2 DEF ObserverSeesRun
  <1> QED BY <1>1, <1>8, <1>10, <1>11, <1>12 DEF RunInv, RunTold

LEMMA BeforeStreaming ==
  RunInv /\ (PlanRefused \/ Planned \/ OpenSession \/ SessionSpawnThrows \/ ResumeGuard)
    => RunInv'
  <1> SUFFICES ASSUME RunInv, run \in {"planning", "guard"},
                      PlanRefused \/ Planned \/ OpenSession \/ SessionSpawnThrows \/ ResumeGuard
               PROVE  RunInv'
    BY DEF PlanRefused, Planned, OpenSession, SessionSpawnThrows, ResumeGuard
  <1>1. RunTypes /\ ProbedLast /\ NothingDone
    BY DEF RunInv
  <1>2. /\ out = << >> /\ observer.log = << >> /\ observer.mode = "off" /\ ~sig.gone
        /\ turn = NoTurn /\ ~turn.spawned /\ turn \in OneTurn /\ ~sig.broken
    BY <1>1 DEF NothingDone, NoTurn, RunTypes
  <1>3. CASE PlanRefused
    BY <1>1, <1>2, <1>3, RefusalTells DEF PlanRefused, RefuseWith
  <1>4. CASE SessionSpawnThrows
    BY <1>1, <1>2, <1>4, RefusalTells DEF SessionSpawnThrows
  <1>5. CASE Planned
    <2>1. /\ run' = "guard" /\ call' = Kept /\ effects' = << >> /\ ~IsSession
          /\ UNCHANGED << turn, out, observer, sig >>
          /\ CallFields \subseteq DOMAIN call
      BY <1>5 DEF Planned, RunInv
    <2>2. << >> \in Seq(Earlier)
      OBVIOUS
    <2>3. ProbedLast'
      BY <2>1, <2>2 DEF ProbedLast
    <2>4. call'.command = call.command
      BY <2>1 DEF Kept, CallFields
    <2>5. RunTypes' /\ NothingDone' /\ ~IsSession'
      BY <1>1, <2>1, <2>4 DEF RunTypes, NothingDone, IsSession
    <2> QED BY <2>1, <2>3, <2>5 DEF RunInv
  <1>6. CASE OpenSession
    <2>1. /\ turn' = [turn EXCEPT !.spawned = TRUE, !.child = "alive"]
          /\ run' = "open" /\ UNCHANGED << planVars, out, observer, sig >>
      BY <1>6 DEF OpenSession
    <2>2. turn' \in OneTurn
      BY <1>2, <2>1 DEF OneTurn
    <2>3. RunTypes' /\ ProbedLast'
      BY <1>1, <2>1, <2>2 DEF RunTypes, ProbedLast, planVars
    <2> QED BY <1>2, <2>1, <2>3 DEF RunInv
  <1>7. CASE ResumeGuard
    <2> DEFINE stores == IF call.resume # "" /\ CreatesMissing(call.h)
                         THEN {"found", "missing", "unknown"} ELSE {"skipped"}
    <2>1. PICK store \in stores :
            /\ turn' = [turn EXCEPT !.missing = store = "missing", !.verified = store = "found"]
            /\ IF store = "missing" THEN RefuseWith(observer)
               ELSE /\ \E on \in Observing :
                         observer' = [observer EXCEPT !.mode = IF on THEN "waiting" ELSE "off"]
                    /\ run' = "streaming" /\ UNCHANGED << out, exit >>
      BY <1>7 DEF ResumeGuard
    <2>2. ~IsSession /\ UNCHANGED << planVars, sig >>
      BY <1>7 DEF ResumeGuard, RunInv
    <2> DEFINE a == store = "missing"
               b == store = "found"
    <2>3. turn' = [turn EXCEPT !.missing = a, !.verified = b] /\ a \in BOOLEAN /\ b \in BOOLEAN
      BY <2>1
    <2> HIDE DEF a, b, stores
    <2>4. turn' \in OneTurn /\ ~turn'.spawned /\ turn'.events = turn.events
      BY <1>2, <2>3 DEF OneTurn
    <2>5. CASE store = "missing"
      BY <1>1, <1>2, <2>1, <2>2, <2>4, <2>5, RefusalTells DEF RefuseWith
    <2>6. CASE store # "missing"
      <3>1. PICK on \in Observing :
              observer' = [observer EXCEPT !.mode = IF on THEN "waiting" ELSE "off"]
        BY <2>1, <2>6
      <3>2. run' = "streaming" /\ out' = << >> /\ sig' = sig /\ call' = call
        BY <1>2, <2>1, <2>2, <2>6 DEF planVars
      <3>3. observer' \in OneObserver /\ observer'.log = << >>
            /\ observer'.mode \in {"off", "waiting"}
        <4>1. observer \in OneObserver
          BY <1>1 DEF RunTypes
        <4>2. CASE on
          BY <1>2, <3>1, <4>1, <4>2 DEF OneObserver
        <4>3. CASE ~on
          BY <1>2, <3>1, <4>1, <4>3 DEF OneObserver
        <4> QED BY <4>2, <4>3
      <3>4. ~Ended'
        BY <1>2, <2>4, RunAssumption DEF Ended, NoTurn
      <3>5. Told(observer, out)' /\ LastOut' # "done"
        BY <3>2, <3>3 DEF Told, LastOut
      <3>6. Streams'
        BY <1>2, <2>2, <2>4, <3>2, <3>3, <3>4, <3>5 DEF Streams, IsSession
      <3>7. RunTypes' /\ ProbedLast'
        BY <1>1, <1>2, <2>2, <2>4, <3>2, <3>3 DEF RunTypes, ProbedLast, planVars
      <3> QED BY <3>2, <3>6, <3>7 DEF RunInv
    <2> QED BY <2>5, <2>6
  <1> QED BY <1>3, <1>4, <1>5, <1>6, <1>7

(* While a turn streams, the observer has been told the truth.             *)
LEMMA StreamSeen ==
  RunTypes /\ Streams => ObserverSeesRun
  <1> SUFFICES ASSUME RunTypes, Streams, observer.log # << >> PROVE ObserverSeesRun
    BY DEF ObserverSeesRun
  <1> QED BY DEF Streams, Told, ObserverSeesRun, RunTypes, OneObserver

(* An exception ends the run: what is owed is written and told, once.      *)
LEMMA TransportKeeps ==
  ASSUME RunTypes, ProbedLast, Streams, Transport, turn' \in OneTurn,
         turn'.spawned = turn.spawned, UNCHANGED << planVars, sig >>
  PROVE  RunInv'
  <1> DEFINE o == observer
             once == Append(out, "failure")
             more == Append(once, "done")
  <1>1. PICK failure \in Records("failure"), done \in Records("done") :
          LET seen == Watched(Watched(o, "failure", failure), "done", done)
          IN  /\ out' = IF Tagged("json") /\ LastOut # "done" /\ ~sig.broken THEN more ELSE out
              /\ Over(ExitFailure, IF LastOut = "done" THEN o ELSE seen)
    BY DEF Transport
  <1> DEFINE first == Watched(o, "failure", failure)
             seen == Watched(first, "done", done)
  <1>2. /\ run' = "over" /\ exit' = ExitFailure
        /\ call' = call /\ stage' = stage /\ effects' = effects /\ issue' = issue /\ sig' = sig
        /\ observer' = ObserverEnds(IF Ended THEN o ELSE seen)
        /\ out' = IF Tagged("json") /\ ~Ended /\ ~sig.broken THEN more ELSE out
    BY <1>1 DEF Over, planVars, Streams
  <1>3. ProbedLast' /\ ~IsSession' /\ ~sig'.gone /\ Terminal' = "done"
        /\ (Tagged("json")' <=> Tagged("json"))
    BY <1>2 DEF ProbedLast, Streams, IsSession, Terminal, Tagged
  <1>4. o \in OneObserver /\ out \in Seq(Written) /\ Told(o, out)
    BY DEF RunTypes, Streams
  <1>5. more \in Seq(Written) /\ more # << >> /\ more[Len(more)] = "done"
    BY <1>4 DEF Written
  <1>6. ~Ended => /\ seen \in OneObserver /\ Told(seen, more)
                  /\ seen.mode = IF o.mode = "live" THEN "ended" ELSE o.mode
    <2> SUFFICES ASSUME ~Ended PROVE /\ seen \in OneObserver /\ Told(seen, more)
                                     /\ seen.mode = IF o.mode = "live" THEN "ended" ELSE o.mode
      OBVIOUS
    <2>1. o.mode # "ended"
      BY DEF Streams
    <2>2. first \in OneObserver /\ Told(first, once) /\ once \in Seq(Written) /\ first.mode = o.mode
      BY <1>4, <2>1, WatchedTold
    <2> HIDE DEF first, once
    <2> QED BY <2>1, <2>2, WatchedTold
  <1> HIDE DEF more, seen
  <1> DEFINE w == IF Ended THEN o ELSE seen
             lines == IF Ended THEN out ELSE more
  <1>7. /\ w \in OneObserver /\ Told(w, lines) /\ w.mode # "live"
        /\ w.mode \in {"off", "waiting"} <=> o.mode \in {"off", "waiting"}
    BY <1>4, <1>6 DEF Streams, OneObserver
  <1>8. /\ ~sig.broken /\ Tagged("json") => out' = lines
        /\ ~turn'.spawned => observer'.log = << >>
        /\ observer' \in OneObserver /\ out' \in Seq(Written) /\ observer'.log = w.log
        /\ observer'.mode = IF w.mode = "waiting" THEN "ended" ELSE w.mode
    <2>1. observer'.mode = (IF w.mode = "waiting" THEN "ended" ELSE w.mode)
          /\ observer' \in OneObserver /\ observer'.log = w.log
      <3>1. observer' = ObserverEnds(w)
        BY <1>2
      <3> HIDE DEF w
      <3> QED BY <1>7, <3>1 DEF ObserverEnds, OneObserver
    <2>2. ~turn'.spawned => w.log = << >>
      <3>1. ~turn.spawned => o.mode \in {"off", "waiting"}
        BY DEF Streams
      <3> HIDE DEF w, o
      <3> QED BY <1>7, <3>1 DEF Told
    <2> QED BY <1>2, <1>4, <1>5, <2>1, <2>2
  <1> HIDE DEF w, lines, o
  <1>9. ObserverSeesRun'
    <2> SUFFICES ASSUME observer'.log # << >> PROVE ObserverSeesRun'
      BY DEF ObserverSeesRun
    <2>1. w.mode \in {"ended", "failed"} /\ turn'.spawned
      BY <1>7, <1>8 DEF Told, OneObserver
    <2>2. observer'.mode = w.mode /\ observer'.log = w.log
      BY <1>8, <2>1
    <2> QED BY <1>2, <1>3, <1>7, <1>8, <2>1, <2>2 DEF ObserverSeesRun, Told
  <1>10. ExitTellsTruth'
    <2>1. Tagged("json")' /\ ~sig'.broken => LastOut' = Terminal'
      BY <1>2, <1>3, <1>5 DEF LastOut, Streams
    <2>2. exit' # ExitRefusal /\ exit' # ExitClean
      BY <1>2 DEF ExitFailure, ExitRefusal, ExitClean
    <2>3. (stage = "refused" /\ "probe" \in Range(effects))' => issue' = Unavailable
      BY <1>3, NoProbeIn DEF ProbedLast
    <2> QED BY <2>1, <2>2, <2>3 DEF ExitTellsTruth, Unavailable
  <1>11. RunTypes'
    BY <1>2, <1>8 DEF RunTypes
  <1> QED BY <1>2, <1>3, <1>9, <1>10, <1>11 DEF RunInv, RunTold

LEMMA StoppedTurn ==
  turn \in OneTurn =>
    /\ Stopped \in OneTurn /\ Stopped.spawned = turn.spawned /\ Stopped.events = turn.events
    /\ turn.child # "none" => Stopped.child # "none"
  BY DEF Stopped, OneTurn

(* The turn's start, and what goes wrong with it.                          *)
LEMMA SpawnKeeps ==
  RunInv /\ (TurnRefuses \/ Spawn \/ SpawnThrows \/ TurnThrows) => RunInv'
  <1> SUFFICES ASSUME RunInv, run = "streaming",
                      TurnRefuses \/ Spawn \/ SpawnThrows \/ TurnThrows
               PROVE  RunInv'
    BY DEF TurnRefuses, Spawn, SpawnThrows, TurnThrows, Streaming
  <1>1. RunTypes /\ ProbedLast /\ Streams /\ turn \in OneTurn /\ observer \in OneObserver
    BY DEF RunInv, RunTypes
  <1>2. CASE TurnThrows
    BY <1>1, <1>2, StoppedTurn, TransportKeeps DEF TurnThrows
  <1>3. CASE TurnRefuses \/ Spawn \/ SpawnThrows
    <2>1. /\ ~Ended /\ turn.child = "none" /\ UNCHANGED << planVars, run, out, sig, exit >>
          /\ \E started \in BOOLEAN, child \in {"never", "alive"} :
               /\ turn' = [turn EXCEPT !.spawned = started, !.child = child]
               /\ observer' = IF started THEN Launched(observer) ELSE observer
      <3>1. turn.child = "none" => turn = [turn EXCEPT !.spawned = FALSE]
        BY <1>1 DEF Streams, OneTurn
      <3> QED BY <1>1, <1>3, <3>1 DEF TurnRefuses, Spawn, SpawnThrows, Streaming, Streams, OneTurn
    <2>2. PICK started \in BOOLEAN, child \in {"never", "alive"} :
            /\ turn' = [turn EXCEPT !.spawned = started, !.child = child]
            /\ observer' = IF started THEN Launched(observer) ELSE observer
      BY <2>1
    <2>3. /\ turn' \in OneTurn /\ turn'.events = turn.events
          /\ turn'.child # "none" /\ turn'.spawned = started
      BY <1>1, <2>2 DEF OneTurn
    <2>4. out = << >> /\ observer.mode \in {"off", "waiting"} /\ observer.log = << >>
      BY <1>1, <2>1 DEF Streams, Told
    <2>5. Tells(<< "started" >>, out)
      <3>1. {j \in 1 .. 0 : out[j] \notin Droppable} = {}
        OBVIOUS
      <3> QED BY <2>4, <3>1, FS_EmptySet DEF Tells, Place
    <2>6. /\ observer' \in OneObserver /\ Told(observer', out)
          /\ observer'.mode \in IF started THEN {"off", "live"} ELSE {"off", "waiting"}
      <3>1. CASE started /\ observer.mode = "waiting"
        <4>1. observer' = [mode |-> "live", log |-> << "started" >>]
          BY <2>2, <3>1 DEF Launched
        <4> QED BY <2>5, <3>1, <4>1 DEF OneObserver, Told, Words
      <3>2. CASE ~(started /\ observer.mode = "waiting")
        <4>1. observer' = observer
          BY <2>2, <3>2 DEF Launched
        <4> QED BY <1>1, <2>4, <3>2, <4>1 DEF Streams
      <3> QED BY <3>1, <3>2
    <2>7. ~Ended' /\ ~IsSession' /\ ~sig'.gone /\ LastOut' # "done"
      BY <1>1, <2>1, <2>3, <2>4 DEF Ended, Streams, IsSession, planVars, LastOut
    <2>8. Streams'
      BY <2>1, <2>3, <2>4, <2>6, <2>7 DEF Streams
    <2>9. RunTypes' /\ ProbedLast'
      BY <1>1, <2>1, <2>3, <2>6 DEF RunTypes, ProbedLast, planVars
    <2> QED BY <2>1, <2>8, <2>9 DEF RunInv
  <1> QED BY <1>2, <1>3

(* One more line: the observer is told what it is owed of it.              *)
LEMMA LineKeeps ==
  ASSUME RunTypes, Streams, run = "streaming", ProbedLast, ~Ended, turn.child # "none",
         NEW kind \in Droppable \cup {"event", "done"}, Line(kind),
         turn' \in OneTurn, turn'.spawned = turn.spawned, turn'.child # "none",
         Ended' <=> kind = "done",
         Ended' => turn'.cause \in Causes /\ exit' = CauseExit(turn'.cause),
         UNCHANGED << planVars, sig >>
  PROVE  RunInv'
  <1>1. PICK record \in Records(kind) : observer' = Watched(observer, kind, record)
    BY DEF Line
  <1>2. out' = Append(out, kind) /\ run' = run
    BY DEF Line
  <1>3. /\ observer \in OneObserver /\ out \in Seq(Written) /\ Told(observer, out)
        /\ observer.mode # "ended"
    BY DEF Streams, RunTypes
  <1>4. /\ observer' \in OneObserver /\ Told(observer', out') /\ out' \in Seq(Written)
        /\ observer'.mode = IF observer.mode = "live" /\ kind = "done" THEN "ended" ELSE observer.mode
    BY <1>1, <1>2, <1>3, WatchedTold
  <1>5. LastOut' = kind
    BY <1>2, <1>3 DEF LastOut
  <1>6. ~IsSession' /\ ~sig'.gone
    BY DEF Streams, IsSession, planVars
  <1>7. Streams'
    BY <1>4, <1>5, <1>6 DEF Streams
  <1>8. RunTypes' /\ ProbedLast' /\ run' = "streaming"
    BY <1>2, <1>4 DEF RunTypes, ProbedLast, planVars
  <1> QED BY <1>7, <1>8 DEF RunInv

LEMMA EventKeeps ==
  ASSUME NEW kind \in Droppable \cup {"event"}, RunInv, Event(kind)
  PROVE  RunInv'
  <1>1. /\ run = "streaming" /\ ~Ended /\ turn.child # "none" /\ turn.events < MaxEvents
        /\ UNCHANGED << planVars, sig >> /\ kind # "done"
    BY DEF Event, Streaming, Droppable
  <1>2. RunTypes /\ ProbedLast /\ Streams /\ turn \in OneTurn
    BY <1>1 DEF RunInv, RunTypes
  <1>3. CASE sig.broken
    BY <1>1, <1>2, <1>3, StoppedTurn, TransportKeeps DEF Event
  <1>4. CASE ~sig.broken
    <2>1. turn' = [turn EXCEPT !.events = turn.events + 1] /\ Line(kind)
      BY <1>4 DEF Event
    <2>2. turn.events + 1 \in 0 .. (MaxEvents + 1) /\ ~(turn.events + 1 > MaxEvents)
      BY <1>1, <1>2, RunAssumption DEF OneTurn
    <2>3. /\ turn' \in OneTurn /\ turn'.spawned = turn.spawned /\ turn'.child = turn.child
          /\ turn'.events = turn.events + 1
      BY <1>2, <2>1, <2>2 DEF OneTurn
    <2>4. ~Ended'
      BY <2>2, <2>3 DEF Ended
    <2> QED BY <1>1, <1>2, <2>1, <2>3, <2>4, LineKeeps
  <1> QED BY <1>3, <1>4

LEMMA DoneKeeps ==
  ASSUME NEW cause \in Causes, RunInv, Done(cause)
  PROVE  RunInv'
  <1>1. run = "streaming" /\ ~Ended /\ turn.child # "none" /\ UNCHANGED << planVars, sig >>
    BY DEF Done, Streaming
  <1>2. RunTypes /\ ProbedLast /\ Streams /\ turn \in OneTurn
    BY <1>1 DEF RunInv, RunTypes
  <1>3. CASE sig.broken
    BY <1>1, <1>2, <1>3, StoppedTurn, TransportKeeps DEF Done
  <1>4. CASE ~sig.broken
    <2>1. /\ turn' = [Stopped EXCEPT !.events = MaxEvents + 1, !.cause = cause]
          /\ Line("done") /\ exit' = CauseExit(cause)
      BY <1>4 DEF Done
    <2>2. MaxEvents + 1 \in 0 .. (MaxEvents + 1) /\ MaxEvents + 1 > MaxEvents
      BY RunAssumption
    <2>3. Stopped \in OneTurn /\ Stopped.spawned = turn.spawned /\ Stopped.child # "none"
      BY <1>1, <1>2, StoppedTurn
    <2>4. /\ turn' \in OneTurn /\ turn'.spawned = turn.spawned /\ turn'.child # "none"
          /\ turn'.events = MaxEvents + 1 /\ turn'.cause = cause
      BY <2>1, <2>2, <2>3 DEF OneTurn
    <2>5. Ended'
      BY <2>2, <2>4 DEF Ended
    <2> QED BY <1>1, <1>2, <2>1, <2>4, <2>5, LineKeeps
  <1> QED BY <1>3, <1>4

(* The loop is left after the turn's done.                                 *)
LEMMA FinishKeeps == RunInv /\ Finish => RunInv'
  <1> SUFFICES ASSUME RunInv, Finish PROVE RunInv'
    OBVIOUS
  <1> DEFINE code == IF sig.interrupted /\ exit = ExitClean THEN ExitFailure ELSE exit
  <1>1. /\ run = "streaming" /\ Ended /\ UNCHANGED << planVars, turn, out, sig >>
        /\ run' = "over" /\ exit' = code /\ observer' = ObserverEnds(observer)
    BY DEF Finish, Over
  <1>2. RunTypes /\ ProbedLast /\ Streams /\ observer \in OneObserver /\ sig.interrupted \in BOOLEAN
    BY <1>1 DEF RunInv, RunTypes
  <1>3. /\ turn.cause \in Causes /\ exit = CauseExit(turn.cause)
        /\ LastOut = "done" /\ ~IsSession /\ ~sig.gone
    BY <1>1, <1>2 DEF Streams
  <1>4. /\ observer' \in OneObserver /\ observer'.log = observer.log
        /\ observer'.log = << >> \/ observer'.mode = observer.mode
    BY <1>1, <1>2 DEF ObserverEnds, OneObserver, Streams, Told
  <1>5. /\ code # ExitRefusal
        /\ code = ExitClean => turn.cause \in {"clean", "awaiting-input"} /\ ~sig.interrupted
    BY <1>3 DEF CauseExit, ExitClean, ExitFailure, ExitRefusal
  <1> HIDE DEF code
  <1>6. UNCHANGED << call, stage, issue, effects >>
    BY <1>1 DEF planVars
  <1>7. RunTypes' /\ ProbedLast'
    BY <1>1, <1>2, <1>4, <1>6 DEF RunTypes, ProbedLast
  <1>8. ObserverSeesRun'
    <2>1. ObserverSeesRun
      BY <1>2, StreamSeen
    <2> QED BY <1>1, <1>4, <1>6, <2>1 DEF ObserverSeesRun, Tagged
  <1>9. ExitTellsTruth'
    <2>1. LastOut' = "done" /\ Terminal' = "done"
      BY <1>1, <1>3, <1>6 DEF LastOut, Terminal, IsSession
    <2>2. (stage = "refused" /\ "probe" \in Range(effects))' => issue' = Unavailable
      BY <1>7, NoProbeIn DEF ProbedLast
    <2> QED BY <1>1, <1>5, <2>1, <2>2 DEF ExitTellsTruth, Unavailable
  <1> QED BY <1>1, <1>7, <1>8, <1>9 DEF RunInv, RunTold

(* Signals and an output that breaks; nothing they do is undone.           *)
LEMMA SignalKeeps == RunInv /\ (Signal \/ Escalate \/ OutputBreaks) => RunInv'
  <1> SUFFICES ASSUME RunInv, Signal \/ Escalate \/ OutputBreaks PROVE RunInv'
    OBVIOUS
  <1>1. /\ run = "streaming" /\ UNCHANGED << planVars, turn, out, observer >>
    BY DEF Signal, Escalate, OutputBreaks
  <1>2. RunTypes /\ ProbedLast /\ Streams /\ ObserverSeesRun
    BY <1>1, StreamSeen DEF RunInv
  <1>3. UNCHANGED << call, stage, issue, effects >>
    BY <1>1 DEF planVars
  <1>4. ProbedLast'
    BY <1>2, <1>3 DEF ProbedLast
  <1>5. /\ sig' \in [interrupted : BOOLEAN, told : SUBSET {"SIGTERM", "SIGKILL"},
                     broken : BOOLEAN, gone : BOOLEAN]
        /\ IF run' = "streaming" THEN ~sig'.gone /\ exit' = exit
           ELSE run' = "over" /\ sig'.gone /\ (sig'.broken <=> sig.broken)
    <2>1. CASE Signal
      <3> DEFINE told == IF turn.child \in {"alive", "gone"}
                         THEN sig.told \cup {"SIGTERM"} ELSE sig.told
      <3>1. sig' = [sig EXCEPT !.interrupted = TRUE, !.told = told]
            /\ UNCHANGED << run, exit >>
        BY <2>1 DEF Signal
      <3>2. told \in SUBSET {"SIGTERM", "SIGKILL"}
        BY <1>2 DEF RunTypes
      <3> HIDE DEF told
      <3> QED BY <1>1, <1>2, <3>1, <3>2 DEF RunTypes, Streams
    <2>2. CASE Escalate
      <3> DEFINE told == sig.told \cup {"SIGKILL"}
      <3>1. sig' = [sig EXCEPT !.told = told] /\ UNCHANGED << run, exit >>
        BY <2>2 DEF Escalate
      <3>2. told \in SUBSET {"SIGTERM", "SIGKILL"}
        BY <1>2 DEF RunTypes
      <3> HIDE DEF told
      <3> QED BY <1>1, <1>2, <3>1, <3>2 DEF RunTypes, Streams
    <2>3. CASE OutputBreaks /\ Approvals
      <3>1. sig' = [sig EXCEPT !.broken = TRUE] /\ UNCHANGED << run, exit >>
        BY <2>3 DEF OutputBreaks
      <3> QED BY <1>1, <1>2, <3>1 DEF RunTypes, Streams
    <2>4. CASE OutputBreaks /\ ~Approvals
      <3>1. sig' = [sig EXCEPT !.gone = TRUE] /\ run' = "over"
        BY <2>4 DEF OutputBreaks
      <3> QED BY <1>2, <3>1 DEF RunTypes
    <2> QED BY <2>1, <2>2, <2>3, <2>4
  <1>6. RunTypes'
    BY <1>1, <1>2, <1>5 DEF RunTypes
  <1>7. CASE run' = "streaming"
    <2>1. Streams'
      BY <1>1, <1>2, <1>3, <1>5, <1>7 DEF Streams, Told, Ended, LastOut, IsSession
    <2> QED BY <1>4, <1>6, <1>7, <2>1 DEF RunInv
  <1>8. CASE run' # "streaming"
    <2>1. run' = "over" /\ sig'.gone /\ (sig'.broken <=> sig.broken) /\ ~sig.gone
      BY <1>2, <1>5, <1>8 DEF Streams
    <2>2. ExitTellsTruth'
      BY <2>1 DEF ExitTellsTruth
    <2>3. ObserverSeesRun'
      BY <1>1, <1>2, <1>3, <2>1 DEF ObserverSeesRun, Tagged
    <2> QED BY <1>4, <1>6, <2>1, <2>2, <2>3 DEF RunInv, RunTold
  <1> QED BY <1>7, <1>8

(* An observer that fails is told no more; what it was told stays true.    *)
LEMMA FailureKeeps == RunInv /\ ObserverFails => RunInv'
  <1> SUFFICES ASSUME RunInv, ObserverFails PROVE RunInv'
    OBVIOUS
  <1>1. /\ observer.mode = "live" /\ observer' = [observer EXCEPT !.mode = "failed"]
        /\ UNCHANGED << run, turn, out, sig, exit, call, stage, issue, effects >>
    BY DEF ObserverFails, planVars
  <1>2. RunTypes /\ ProbedLast /\ observer \in OneObserver
    BY DEF RunInv, RunTypes
  <1>3. observer' \in OneObserver /\ observer'.mode = "failed" /\ observer'.log = observer.log
    BY <1>1, <1>2 DEF OneObserver
  <1>4. RunTypes' /\ ProbedLast'
    BY <1>1, <1>2, <1>3 DEF RunTypes, ProbedLast
  <1>5. run \in {"streaming", "over"}
    BY <1>1, <1>2 DEF RunInv, RunTypes, NothingDone
  <1>6. CASE run = "streaming"
    <2>1. Streams /\ Told(observer', out)
      BY <1>1, <1>3, <1>6 DEF RunInv, Streams, Told
    <2>2. Streams'
      BY <1>1, <1>3, <2>1 DEF Streams, Told, Ended, LastOut, IsSession
    <2> QED BY <1>1, <1>4, <1>6, <2>2 DEF RunInv
  <1>7. CASE run = "over"
    <2>1. ExitTellsTruth /\ ObserverSeesRun
      BY <1>7 DEF RunInv, RunTold
    <2>2. ExitTellsTruth'
      BY <1>1, <2>1 DEF ExitTellsTruth, LastOut, Terminal, IsSession, Tagged
    <2>3. ObserverSeesRun'
      BY <1>1, <1>3, <2>1 DEF ObserverSeesRun
    <2> QED BY <1>1, <1>4, <1>7, <2>2, <2>3 DEF RunInv, RunTold
  <1> QED BY <1>5, <1>6, <1>7

LEMMA RunStepKeeps == RunInv /\ [Next]_vars => RunInv'
  <1>1. RunInv /\ Next => RunInv'
    BY PlanningStepKeeps, BeforeStreaming, SpawnKeeps, EventKeeps, DoneKeeps, FinishKeeps,
       SignalKeeps, FailureKeeps DEF Next, RunNext
  <1>2. RunInv /\ UNCHANGED vars => RunInv'
    <2> SUFFICES ASSUME RunInv, UNCHANGED vars PROVE RunInv'
      OBVIOUS
    <2>1. UNCHANGED << call, stage, issue, plan, effects, run, turn, out, observer, sig, exit >>
      BY DEF vars, planVars, runVars
    <2>2. RunTypes' /\ ProbedLast'
      BY <2>1 DEF RunInv, RunTypes, ProbedLast
    <2>3. (NothingDone' <=> NothingDone) /\ (IsSession' <=> IsSession)
      BY <2>1 DEF NothingDone, IsSession
    <2>4. Streams => Streams'
      BY <2>1 DEF Streams, Told, Ended, LastOut, IsSession
    <2>5. RunTold => RunTold'
      BY <2>1 DEF RunTold, ExitTellsTruth, ObserverSeesRun, LastOut, Terminal, IsSession, Tagged
    <2> QED BY <2>1, <2>2, <2>3, <2>4, <2>5 DEF RunInv
  <1> QED BY <1>1, <1>2

LEMMA RunTells == RunInv => RunTold
  <1> SUFFICES ASSUME RunInv PROVE RunTold
    OBVIOUS
  <1>1. CASE run = "streaming"
    BY <1>1, StreamSeen DEF RunInv, RunTold, ExitTellsTruth
  <1>2. CASE run \in {"planning", "guard", "open"}
    BY <1>2 DEF RunInv, RunTold, ExitTellsTruth, ObserverSeesRun, NothingDone
  <1> QED BY <1>1, <1>2 DEF RunInv, RunTypes

(* Exit code, output and observer agree on every run, whatever the calls,  *)
(* however many events a turn reports and whoever fails, stops or leaves.  *)
THEOREM RunIsTold == Spec => []RunTold
  <1>1. Init => RunInv
    BY RunStarts
  <1>2. RunInv /\ [Next]_vars => RunInv'
    BY RunStepKeeps
  <1>3. RunInv => RunTold
    BY RunTells
  <1> QED BY <1>1, <1>2, <1>3, PTL DEF Spec

-----------------------------------------------------------------------------
(* What a plan refuses                                                     *)

LEMMA Smallest ==
  ASSUME NEW T, T \subseteq Nat, T # {}
  PROVE  /\ Min(T) \in T
         /\ \A k \in T : Min(T) <= k
  <1>1. PICK n \in T : \A k \in T : ~ (<<k, n>> \in OpToRel(<, Nat))
    BY NatLessThanWellFounded, WFMin
  <1>2. ASSUME NEW k \in T PROVE n <= k
    <2>1. ~ (<<k, n>> \in OpToRel(<, Nat))
      BY <1>1
    <2>2. k \in Nat /\ n \in Nat
      OBVIOUS
    <2>3. ~ (k < n)
      BY <2>1, <2>2 DEF OpToRel
    <2> QED BY <2>2, <2>3
  <1>3. \E x \in T : \A k \in T : x <= k
    BY <1>2
  <1> QED BY <1>3, Zenon DEF Min

(* Layers have the keys of each, with the value of the first that has it.  *)
LEMMA LayersHave ==
  ASSUME NEW fs, DOMAIN fs \subseteq Nat
  PROVE  /\ \A k : k \in DOMAIN Layers(fs) <=> \E i \in DOMAIN fs : k \in DOMAIN fs[i]
         /\ \A i \in DOMAIN fs : \A k \in DOMAIN fs[i] :
              (\A j \in DOMAIN fs : k \in DOMAIN fs[j] => i <= j) => Layers(fs)[k] = fs[i][k]
  <1>1. \A k : k \in DOMAIN Layers(fs) <=> \E i \in DOMAIN fs : k \in DOMAIN fs[i]
    BY DEF Layers
  <1>2. ASSUME NEW i \in DOMAIN fs, NEW k \in DOMAIN fs[i],
               \A j \in DOMAIN fs : k \in DOMAIN fs[j] => i <= j
        PROVE  Layers(fs)[k] = fs[i][k]
    <2> DEFINE with == {j \in DOMAIN fs : k \in DOMAIN fs[j]}
    <2>1. i \in with /\ with \subseteq Nat
      OBVIOUS
    <2>2. Min(with) \in with /\ Min(with) <= i
      <3> HIDE DEF with
      <3> QED BY <2>1, Smallest
    <2>3. i <= Min(with)
      <3> DEFINE m == Min(with)
      <3>1. m \in DOMAIN fs /\ k \in DOMAIN fs[m]
        BY <2>2
      <3> HIDE DEF m
      <3>2. i <= m
        BY <1>2, <3>1
      <3> QED BY <3>2 DEF m
    <2>4. Min(with) = i
      <3> HIDE DEF with
      <3> QED BY <2>1, <2>2, <2>3
    <2>5. Layers(fs)[k] = fs[Min(with)][k]
      BY <2>1 DEF Layers
    <2> QED BY <2>4, <2>5
  <1> QED BY <1>1, <1>2

LEMMA TwoLayers ==
  ASSUME NEW a, NEW b
  PROVE  DOMAIN Layers(<< a, b >>) = DOMAIN a \union DOMAIN b
  <1> DEFINE fs == << a, b >>
  <1>1. DOMAIN fs = 1 .. 2 /\ fs[1] = a /\ fs[2] = b
    OBVIOUS
  <1>2. DOMAIN fs \subseteq Nat
    BY <1>1
  <1> HIDE DEF fs
  <1>4. \A k : k \in DOMAIN Layers(fs) <=> \E i \in DOMAIN fs : k \in DOMAIN fs[i]
    BY <1>2, LayersHave
  <1>3. DOMAIN Layers(fs) = DOMAIN a \union DOMAIN b
    BY <1>1, <1>4
  <1> QED BY <1>3 DEF fs

(* A sequence of checks that finds nothing passed each of them.            *)
LEMMA NothingFound ==
  ASSUME NEW issues, DOMAIN issues \subseteq Nat, FirstIssue(issues) = "none"
  PROVE  \A i \in DOMAIN issues : issues[i] = "none"
  <1> DEFINE found == {i \in DOMAIN issues : issues[i] # "none"}
  <1>1. found # {} => Min(found) \in found
    BY Smallest
  <1>2. found # {} => FirstIssue(issues) = issues[Min(found)]
    BY DEF FirstIssue
  <1> QED BY <1>1, <1>2

LEMMA NoneOfTwo ==
  ASSUME NEW a, NEW b, FirstIssue(<< a, b >>) = "none"
  PROVE  a = "none" /\ b = "none"
  <1> DEFINE issues == << a, b >>
  <1>1. DOMAIN issues = 1 .. 2 /\ issues[1] = a /\ issues[2] = b
    OBVIOUS
  <1>2. \A i \in DOMAIN issues : issues[i] = "none"
    BY <1>1, NothingFound
  <1> QED BY <1>1, <1>2

LEMMA NoneOfThree ==
  ASSUME NEW a, NEW b, NEW c, FirstIssue(<< a, b, c >>) = "none"
  PROVE  a = "none" /\ b = "none" /\ c = "none"
  <1> DEFINE issues == << a, b, c >>
  <1>1. DOMAIN issues = 1 .. 3 /\ issues[1] = a /\ issues[2] = b /\ issues[3] = c
    OBVIOUS
  <1>2. \A i \in DOMAIN issues : issues[i] = "none"
    BY <1>1, NothingFound
  <1> QED BY <1>1, <1>2

LEMMA NoneOfFive ==
  ASSUME NEW a, NEW b, NEW c, NEW d, NEW e, FirstIssue(<< a, b, c, d, e >>) = "none"
  PROVE  a = "none" /\ b = "none" /\ c = "none" /\ d = "none" /\ e = "none"
  <1> DEFINE issues == << a, b, c, d, e >>
  <1>1. /\ DOMAIN issues = 1 .. 5 /\ issues[1] = a /\ issues[2] = b /\ issues[3] = c
        /\ issues[4] = d /\ issues[5] = e
    OBVIOUS
  <1>2. \A i \in DOMAIN issues : issues[i] = "none"
    BY <1>1, NothingFound
  <1> QED BY <1>1, <1>2

LEMMA NoneOfSeven ==
  ASSUME NEW a, NEW b, NEW c, NEW d, NEW e, NEW f, NEW g,
         FirstIssue(<< a, b, c, d, e, f, g >>) = "none"
  PROVE  a = "none" /\ b = "none" /\ c = "none" /\ d = "none" /\ e = "none" /\ f = "none" /\ g = "none"
  <1> DEFINE issues == << a, b, c, d, e, f, g >>
  <1>1. /\ DOMAIN issues = 1 .. 7 /\ issues[1] = a /\ issues[2] = b /\ issues[3] = c
        /\ issues[4] = d /\ issues[5] = e /\ issues[6] = f /\ issues[7] = g
    OBVIOUS
  <1>2. \A i \in DOMAIN issues : issues[i] = "none"
    BY <1>1, NothingFound
  <1> QED BY <1>1, <1>2

(* Options that are looked at and pass.                                    *)
LEMMA KeysPass ==
  ASSUME NEW harness, NEW o, NEW phase, NEW keys, KeysIssue(harness, o, phase, keys) = "none",
         NEW key \in keys, key \in Range(TurnOptionKeys)
  PROVE  OptionIssue(harness, o, phase, key) = "none"
  <1> DEFINE issues == [i \in DOMAIN TurnOptionKeys |->
                          IF TurnOptionKeys[i] \in keys
                          THEN OptionIssue(harness, o, phase, TurnOptionKeys[i]) ELSE "none"]
  <1>1. DOMAIN issues = DOMAIN TurnOptionKeys
    OBVIOUS
  <1>2. DOMAIN TurnOptionKeys = 1 .. 15
    BY DEF TurnOptionKeys
  <1>3. FirstIssue(issues) = "none"
    BY DEF KeysIssue
  <1>4. \A i \in DOMAIN issues : issues[i] = "none"
    <2> HIDE DEF issues
    <2> QED BY <1>1, <1>2, <1>3, NothingFound
  <1>5. PICK i \in DOMAIN TurnOptionKeys : key = TurnOptionKeys[i]
    BY DEF Range
  <1> QED BY <1>4, <1>5

-----------------------------------------------------------------------------
(* A plan bound by a fingerprint                                           *)

\* The flags that say what a saved session is run by.
SavedFlags == {"--model", "-c model_reasoning_effort", "-c model_provider"}
Plainly(group) == \A t \in Range(group) : t.flag \notin SavedFlags

LEMMA NoTokens == Plainly(<< >>)
  BY DEF Plainly, Range

LEMMA OneToken ==
  ASSUME NEW flag, NEW vals, flag \notin SavedFlags
  PROVE  Plainly(<< Tok(flag, vals) >>)
  BY DEF Plainly, Range, Tok

LEMMA ValueTokens ==
  ASSUME NEW flag, NEW vals, flag \notin SavedFlags
  PROVE  Plainly(TokensFor(Value(flag), vals))
  <1>1. TokensFor(Value(flag), vals) = << Tok(flag, vals) >>
    BY DEF TokensFor, Value
  <1> QED BY <1>1, OneToken

LEMMA SpecFields ==
  ASSUME NEW kind, NEW render
  PROVE  /\ OptionSpec(kind, render).kind = kind /\ OptionSpec(kind, render).resume = render
         /\ DOMAIN OptionSpec(kind, render) =
              {"kind", "launch", "resume", "after", "vals", "min", "max", "default", "probe"}
  BY DEF OptionSpec

\* What its table says of each option it can take beside a saved session.
LEMMA CodexTable ==
  /\ DOMAIN CodexOptions = {"contextWindow", "effort", "systemPrompt", "sandbox", "memory"}
  /\ CodexOptions["contextWindow"].kind = "integer"
  /\ CodexOptions["contextWindow"].resume = Value("-c model_context_window")
  /\ CodexOptions["systemPrompt"].kind = "text"
  /\ CodexOptions["systemPrompt"].resume = Value("-c instructions")
  /\ CodexOptions["sandbox"].kind = "enum"
  /\ CodexOptions["sandbox"].resume = Value("-c sandbox_mode")
  /\ CodexOptions["memory"].kind = "toggle"
  /\ CodexOptions["memory"].resume = Flags(<< Tok("--disable", {"memories"}) >>)
  <1> DEFINE window == Value("-c model_context_window")
             number == OptionSpec("integer", window)
  <1>1. CodexOptions.contextWindow = [number EXCEPT !.min = 1, !.max = 272000]
    BY SMT DEF CodexOptions, IntegerSpec
  <1> DEFINE text == OptionSpec("text", Value("-c instructions"))
             toggle == OptionSpec("toggle", Flags(<< Tok("--disable", {"memories"}) >>))
  <1>2. CodexOptions.systemPrompt = text
    BY SMT DEF CodexOptions
  <1> DEFINE enum == OptionSpec("enum", Value("--sandbox"))
             modes == {"read-only", "workspace-write", "danger-full-access"}
             restated == Value("-c sandbox_mode")
  <1>3. CodexOptions.sandbox = [enum EXCEPT !.vals = modes, !.resume = restated,
                                            !.default = "workspace-write"]
    BY SMT DEF CodexOptions
  <1>4. CodexOptions.memory = toggle
    BY SMT DEF CodexOptions
  <1>5. DOMAIN CodexOptions = {"contextWindow", "effort", "systemPrompt", "sandbox", "memory"}
    BY SMT DEF CodexOptions
  <1>6. enum.kind = "enum" /\ DOMAIN enum = {"kind", "launch", "resume", "after", "vals",
                                              "min", "max", "default", "probe"}
    BY SpecFields
  <1>7. CodexOptions.sandbox.kind = "enum" /\ CodexOptions.sandbox.resume = restated
    <2> HIDE DEF enum, modes, restated
    <2> QED BY <1>3, <1>6
  <1>8. CodexOptions.contextWindow.kind = "integer" /\ CodexOptions.contextWindow.resume = window
    <2>1. number.kind = "integer" /\ number.resume = window
          /\ DOMAIN number = {"kind", "launch", "resume", "after", "vals", "min", "max",
                              "default", "probe"}
      BY SpecFields
    <2> HIDE DEF number, window
    <2> QED BY SMT, <1>1, <2>1
  <1>9. CodexOptions.systemPrompt.kind = "text"
        /\ CodexOptions.systemPrompt.resume = Value("-c instructions")
    <2>1. text.kind = "text" /\ text.resume = Value("-c instructions")
      BY SpecFields
    <2> HIDE DEF text
    <2> QED BY <1>2, <2>1
  <1>10. CodexOptions.memory.kind = "toggle"
         /\ CodexOptions.memory.resume = Flags(<< Tok("--disable", {"memories"}) >>)
    <2>1. toggle.kind = "toggle" /\ toggle.resume = Flags(<< Tok("--disable", {"memories"}) >>)
      BY SpecFields
    <2> HIDE DEF toggle
    <2> QED BY <1>4, <2>1
  <1> HIDE DEF enum, modes, restated, number, window
  <1> QED BY <1>5, <1>7, <1>8, <1>9, <1>10 DEF restated, window

(* What codex renders of the options it takes on a resume.                 *)
LEMMA CodexGroups ==
  ASSUME NEW o, NEW key \in Range(TurnOptionKeys),
         key \notin {"effort", "provider"} \intersect DOMAIN o,
         OptionIssue("codex", o, "resume", key) = "none"
  PROVE  \A group \in OptionGroups("codex", o, "resume", key) : Plainly(group)
  <1> SUFFICES ASSUME NEW group \in OptionGroups("codex", o, "resume", key)
               PROVE  Plainly(group)
    OBVIOUS
  <1>1. CASE key = "discovery"
    <2>1. "codex" \notin DOMAIN DiscoveryOf
      BY DEF DiscoveryOf
    <2>2. OffFacets(o) = {}
      BY <1>1, <2>1 DEF OptionIssue, DiscoveryIssue
    <2> QED BY <1>1, <2>2 DEF OptionGroups
  <1>2. CASE key = "access"
    <2>1. Given(o, "access") /\ group \in AccessGroups("codex", o, "resume")
      BY <1>2 DEF OptionGroups
    <2>2. o.access \in AccessValues
      BY <1>2, <2>1 DEF OptionIssue, AccessIssue
    <2>3. AccessOf["codex"].read = SandboxPreset("read-only")
          /\ AccessOf["codex"].write = SandboxPreset("workspace-write")
      BY DEF AccessOf, AccessSpec
    <2>4. PICK mode : AccessOf["codex"][o.access] = SandboxPreset(mode)
      <3>1. o.access = "read" \/ o.access = "write"
        BY <2>2 DEF AccessValues
      <3> QED BY <2>3, <3>1
    <2>5. /\ SandboxPreset(mode).how = "render"
          /\ SandboxPreset(mode).resume = Value("-c sandbox_mode")
      BY DEF SandboxPreset, Through
    <2>6. Value("-c sandbox_mode").kind = "value"
      BY DEF Value
    <2>7. group = TokensFor(Value("-c sandbox_mode"), SandboxPreset(mode).vals)
      BY <2>1, <2>4, <2>5, <2>6 DEF AccessGroups
    <2> QED BY <2>7, ValueTokens DEF SavedFlags
  <1>3. CASE key \notin {"discovery", "access"} /\ ~Given(o, key)
    BY <1>3 DEF OptionGroups, DefaultGroups
  <1>4. CASE key \notin {"discovery", "access"} /\ Given(o, key)
    <2>1. key \in DOMAIN OptionsOf["codex"]
      BY <1>4 DEF OptionIssue
    <2>2. OptionsOf["codex"] = CodexOptions
      BY DEF OptionsOf
    <2>3. DOMAIN CodexOptions = {"contextWindow", "effort", "systemPrompt", "sandbox", "memory"}
      BY CodexTable
    <2>4. key \in {"contextWindow", "systemPrompt", "sandbox", "memory"}
      BY <1>4, <2>1, <2>2, <2>3 DEF Given
    <2> DEFINE spec == CodexOptions[key]
    <2>5. \/ spec.kind # "toggle" /\ spec.kind # "paths"
               /\ spec.resume = Value("-c model_context_window")
          \/ spec.kind # "toggle" /\ spec.kind # "paths" /\ spec.resume = Value("-c instructions")
          \/ spec.kind # "toggle" /\ spec.kind # "paths" /\ spec.resume = Value("-c sandbox_mode")
          \/ spec.kind = "toggle" /\ spec.resume = Flags(<< Tok("--disable", {"memories"}) >>)
      <3> HIDE DEF spec
      <3> QED BY <2>4, CodexTable, Zenon DEF spec
    <2>6. ResolveRender(spec, "resume") = spec.resume
      BY DEF ResolveRender
    <2> HIDE DEF spec
    <2>7. \/ spec.kind = "toggle" /\ group = TokensFor(spec.resume, {})
          \/ spec.kind # "toggle" /\ spec.kind # "paths"
               /\ group = TokensFor(spec.resume, ValuesOf(spec, o[key]))
      BY <1>4, <2>2, <2>5, <2>6 DEF OptionGroups, spec
    <2>8. TokensFor(Flags(<< Tok("--disable", {"memories"}) >>), {}) = << Tok("--disable", {"memories"}) >>
      BY DEF TokensFor, Flags
    <2> QED BY <2>5, <2>7, <2>8, ValueTokens, OneToken DEF SavedFlags
  <1> QED BY <1>1, <1>2, <1>3, <1>4

(* Pi restores a session by itself: all it is told beside is extensions.   *)
LEMMA PiGroups ==
  ASSUME NEW o, NEW key \in Range(TurnOptionKeys), DOMAIN o \subseteq BesidePi
  PROVE  \A group \in OptionGroups("pi", o, "resume", key) : Plainly(group)
  <1> SUFFICES ASSUME NEW group \in OptionGroups("pi", o, "resume", key)
               PROVE  Plainly(group)
    OBVIOUS
  <1>1. ~Given(o, "discovery") /\ ~Given(o, "access")
    BY DEF Given, BesidePi
  <1>2. Given(o, key) => key = "extensions"
    <2>1. key \in {"isolation", "effort", "sandbox", "contextWindow", "provider",
                   "discovery", "write", "shell", "memory", "maxSteps", "systemPrompt",
                   "appendSystemPrompt", "access", "extensions", "agent"}
      BY DEF Range, TurnOptionKeys
    <2> QED BY <2>1 DEF Given, BesidePi
  <1>3. OffFacets(o) = {}
    BY <1>1 DEF OffFacets
  <1>4. key = "extensions" /\ Given(o, key)
    BY <1>1, <1>2, <1>3 DEF OptionGroups, DefaultGroups
  <1>5. OptionsOf["pi"] = PiOptions
    BY DEF OptionsOf
  <1>6. PiOptions.extensions = OptionSpec("paths", Value("-e"))
    BY DEF PiOptions
  <1>7. /\ OptionSpec("paths", Value("-e")).kind = "paths"
        /\ OptionSpec("paths", Value("-e")).resume = Value("-e")
    BY SpecFields
  <1>8. PICK p : group = TokensFor(Value("-e"), {p})
    BY <1>4, <1>5, <1>6, <1>7 DEF OptionGroups, ResolveRender
  <1> QED BY <1>8, ValueTokens DEF SavedFlags

(* The rest of the line of a saved session.                                *)
LEMMA RestoredTail ==
  ASSUME NEW harness \in {"codex", "pi"}, NEW o, ToolIssue(harness, o) = "none", "model" \notin DOMAIN o,
         harness = "pi" => DOMAIN o \subseteq BesidePi
  PROVE  \A group \in TailGroups(harness, o) : Plainly(group)
  <1> SUFFICES ASSUME NEW group \in TailGroups(harness, o) PROVE Plainly(group)
    OBVIOUS
  <1>1. ToolTokens(harness, o) = << >>
    <2>1. CASE harness = "codex"
      <3>1. DenySemantics["codex"] = "no-lists"
        BY DEF DenySemantics
      <3>2. ~Given(o, "tools") /\ ~Given(o, "excludeTools")
        BY <2>1, <3>1 DEF ToolIssue
      <3> QED BY <3>2 DEF ToolTokens
    <2>2. CASE harness = "pi"
      <3>1. ~Given(o, "tools") /\ ~Given(o, "excludeTools")
        BY <2>2 DEF Given, BesidePi
      <3> QED BY <3>1 DEF ToolTokens
    <2> QED BY <2>1, <2>2
  <1>2. CASE Given(o, "autonomy") /\ group = << Bare(AutonomyFlag[harness]) >>
    <2>1. harness = "codex"
      BY <1>2 DEF Given, BesidePi
    <2>2. AutonomyFlag["codex"] = "--yolo"
      BY DEF AutonomyFlag
    <2>3. group = << Tok("--yolo", {}) >>
      BY <1>2, <2>1, <2>2 DEF Bare
    <2> QED BY <2>3, OneToken DEF SavedFlags
  <1>3. CASE Given(o, "skills") /\ group = SkillTokens(harness, o)
    <2>1. harness = "codex"
      BY <1>3 DEF Given, BesidePi
    <2>2. SkillsVia["codex"] = "config"
      BY DEF SkillsVia
    <2>3. group = << Tok("-c skills.config", o.skills) >>
      BY <1>3, <2>1, <2>2 DEF SkillTokens
    <2> QED BY <2>3, OneToken DEF SavedFlags
  <1>4. CASE group = << Tok("--setting-sources", o.settingSources) >>
    BY <1>4, OneToken DEF SavedFlags
  <1>5. CASE group = << Tok("--settings", SettingsKeys(harness, o)) >>
    BY <1>5, OneToken DEF SavedFlags
  <1>6. ~Given(o, "model")
    BY DEF Given
  <1>7. \/ group = ToolTokens(harness, o)
        \/ Given(o, "autonomy") /\ group = << Bare(AutonomyFlag[harness]) >>
        \/ Given(o, "skills") /\ group = SkillTokens(harness, o)
        \/ group = << Tok("--setting-sources", o.settingSources) >>
        \/ group = << Tok("--settings", SettingsKeys(harness, o)) >>
    BY <1>6 DEF TailGroups
  <1> QED BY <1>1, <1>2, <1>3, <1>4, <1>5, <1>7, NoTokens

LEMMA RestoredIssues ==
  ASSUME NEW harness, NEW o, SpawnIssue(harness, o) = "none", Given(o, "resume")
  PROVE  /\ o.resume \in UsableIds
         /\ ToolIssue(harness, o) = "none"
         /\ \A after \in BOOLEAN : \A key \in PlacedKeys(harness, o, after) :
              key \in Range(TurnOptionKeys) /\ OptionIssue(harness, o, "resume", key) = "none"
  <1>1. PhaseOf(o) = "resume"
    BY DEF PhaseOf
  <1>2. TurnIssue(harness, o, "resume") = "none"
        /\ IssueIf(Given(o, "resume") /\ o.resume \notin UsableIds, "invalid-option-value") = "none"
    <2> DEFINE a == IsolationIssue(o)
               b == SettingSourcesIssue(harness, o)
               c == IssueIf(Given(o, "resume") /\ Given(o, "resumeLast"),
                            "mutually-exclusive-options")
               d == IssueIf(Given(o, "resumeLast") /\ harness \notin DOMAIN ResumeLastFlag,
                            "unsupported-option")
               e == IssueIf(Given(o, "resume") /\ o.resume \notin UsableIds,
                            "invalid-option-value")
               f == IF PhaseOf(o) = "resume" THEN AccessAloneIssue(harness, o, DOMAIN o) ELSE "none"
               g == TurnIssue(harness, o, PhaseOf(o))
    <2>1. FirstIssue(<< a, b, c, d, e, f, g >>) = "none"
      BY DEF SpawnIssue
    <2>2. e = "none" /\ g = "none"
      <3> HIDE DEF a, b, c, d, e, f, g
      <3> QED BY <2>1, NoneOfSeven
    <2> QED BY <1>1, <2>2
  <1>3. o.resume \in UsableIds
    BY <1>2 DEF IssueIf
  <1>4. /\ PlacedIssue(harness, o, "resume", FALSE) = "none" /\ PlacedIssue(harness, o, "resume", TRUE) = "none"
        /\ TailIssue(harness, o) = "none"
    BY <1>2, NoneOfThree DEF TurnIssue
  <1>5. ToolIssue(harness, o) = "none"
    BY <1>4, NoneOfFive DEF TailIssue
  <1>6. ASSUME NEW after \in BOOLEAN, NEW key \in PlacedKeys(harness, o, after)
        PROVE  key \in Range(TurnOptionKeys) /\ OptionIssue(harness, o, "resume", key) = "none"
    <2>1. key \in Range(TurnOptionKeys)
      BY DEF PlacedKeys
    <2>2. PlacedIssue(harness, o, "resume", after) = "none"
      BY <1>4
    <2>3. KeysIssue(harness, o, "resume", PlacedKeys(harness, o, after)) = "none"
      BY <2>2 DEF PlacedIssue
    <2> QED BY <2>1, <2>3, KeysPass
  <1> QED BY <1>3, <1>5, <1>6

(* The flags a saved session is run by say what was saved.                 *)
LEMMA RestoredArgv ==
  ASSUME NEW harness \in {"codex", "pi"}, NEW o, SpawnIssue(harness, o) = "none", Given(o, "resume"),
         {"model", "effort", "provider", "passthrough"} \intersect DOMAIN o = {},
         harness = "pi" => DOMAIN o \subseteq BesidePi,
         NEW t \in Tokens(SpawnArgv(harness, o, TRUE)), t.flag \in SavedFlags
  PROVE  t.vals = {"saved"}
  <1> DEFINE argv == SpawnArgv(harness, o, TRUE)
  <1>1. PhaseOf(o) = "resume"
    BY DEF PhaseOf
  <1>2. /\ argv.continue = ContinueGroup(harness, o)
        /\ argv.before = PlacedGroups(harness, o, "resume", FALSE)
        /\ argv.verified = VerifiedGroups(harness, TRUE)
        /\ argv.tail = TailGroups(harness, o) \ {<<>>}
        /\ argv.after = PlacedGroups(harness, o, "resume", TRUE)
    BY <1>1 DEF SpawnArgv
  <1>3. Plainly(argv.continue)
    <2>1. ContinueGroup(harness, o) = << Tok(ResumeFlag[harness], {o.resume}) >>
      BY DEF ContinueGroup
    <2>2. ResumeFlag["codex"] = "resume" /\ ResumeFlag["pi"] = "--session-id"
      BY DEF ResumeFlag
    <2>3. ResumeFlag[harness] = "resume" \/ ResumeFlag[harness] = "--session-id"
      BY <2>2
    <2>4. ResumeFlag[harness] \notin SavedFlags
      BY <2>3 DEF SavedFlags
    <2>5. Plainly(<< Tok(ResumeFlag[harness], {o.resume}) >>)
      BY <2>4, OneToken
    <2> HIDE DEF argv
    <2> QED BY <1>2, <2>1, <2>5
  <1>4. ASSUME NEW after \in BOOLEAN, NEW group \in PlacedGroups(harness, o, "resume", after)
        PROVE  Plainly(group)
    <2>1. PICK key \in PlacedKeys(harness, o, after) : group \in OptionGroups(harness, o, "resume", key)
      BY DEF PlacedGroups
    <2>2. key \in Range(TurnOptionKeys) /\ OptionIssue(harness, o, "resume", key) = "none"
      BY RestoredIssues
    <2>3. key \notin {"effort", "provider"} \intersect DOMAIN o
      OBVIOUS
    <2> QED BY <2>1, <2>2, <2>3, CodexGroups, PiGroups
  <1>5. ASSUME NEW group \in TailGroups(harness, o) PROVE Plainly(group)
    BY RestoredIssues, RestoredTail
  <1>6. PICK group \in Groups(argv) : t \in Range(group)
    BY DEF Tokens
  <1>7. ~Plainly(group)
    BY <1>6 DEF Plainly
  <1>8. group \in VerifiedGroups(harness, TRUE)
    <2> HIDE DEF argv
    <2> QED BY <1>2, <1>3, <1>4, <1>5, <1>6, <1>7 DEF Groups
  <1>9. \E flag : group = << Tok(flag, {"saved"}) >>
    BY <1>8 DEF VerifiedGroups
  <1> QED BY <1>6, <1>9 DEF Range, Tok

\* What a fingerprint binds, once the command line is made.
Bound ==
  /\ call.resume \in UsableIds /\ ~call.last
  /\ plan.inspected \in {"user-reviewed", "auto-reviewed"}
  /\ \A flag \in {"--model", "-c model_reasoning_effort", "-c model_provider"} :
       ValuesGiven(flag) \subseteq {"saved"}
  /\ Tagged("native-approvals") =>
       plan.inspected = "user-reviewed" /\ plan.argv = NoArgv

TurnStages == {"session", "parse", "prompt", "options", "skills", "files", "config",
               "resolve", "model", "argv", "probe", "planned", "refused", "run"}
Continued == {"skills", "files", "config", "resolve", "model", "argv", "probe", "planned"}
Optioned == {"files", "config", "resolve", "model", "argv"}
PlanFields == {"options", "argv", "dir", "unrenderable", "inspected", "store"}

FilesKnown == DOMAIN call.user \union DOMAIN call.project \subseteq ConfigKeys

\* A call with a fingerprint, through the stages of its plan.
BoundInv ==
  /\ stage # "run" => call.h \in HarnessNames /\ "resume" \notin DOMAIN call.args
  /\ Tagged("fingerprint") =>
       /\ stage \in TurnStages /\ DOMAIN plan = PlanFields
       /\ stage \in Continued => ~call.last
       /\ stage \in Optioned => "resume" \notin DOMAIN plan.options
       /\ stage = "resolve" => FilesKnown
       /\ stage \in {"probe", "planned"} => Bound

LEMMA StageBinds ==
  ASSUME BoundInv, stage # "run", stage' # "run", call' = call,
         Tagged("fingerprint") =>
           \/ stage' = "refused" /\ plan' = plan
           \/ /\ stage' \in TurnStages /\ DOMAIN plan' = PlanFields
              /\ stage' \in Continued => ~call.last
              /\ stage' \in Optioned => "resume" \notin DOMAIN plan'.options
              /\ stage' = "resolve" => FilesKnown
              /\ stage' \in {"probe", "planned"} => Bound'
  PROVE  BoundInv'
  <1>1. FilesKnown' = FilesKnown
    BY DEF FilesKnown
  <1> QED BY <1>1 DEF BoundInv, Tagged, TurnStages, Continued, Optioned

LEMMA SamePlan ==
  ASSUME call' = call, plan' = plan
  PROVE  Bound' = Bound
  BY DEF Bound, Tagged, ValuesGiven

(* No tier names a session to continue.                                    *)
LEMMA TiersResumeNothing ==
  ASSUME NEW harness, NEW args, NEW user, NEW project,
         "resume" \notin DOMAIN args \union DOMAIN user \union DOMAIN project
  PROVE  "resume" \notin DOMAIN Resolved(harness, args, user, project)
  <1> DEFINE a == Expanded(args, user, project)
             config == Without(Heeded(a, user, project), NotOptions)
             told == [key \in {k \in DOMAIN config : ConfigApplies(harness, a, config, k)} |-> config[key]]
             own == [key \in {k \in ProfileKeys : ProfileApplies(harness, a, config, k)} |-> Profile[key]]
             map == ToolMapOption(user, project)
  <1>1. DOMAIN a = DOMAIN args
    BY DEF Expanded
  <1>2. "resume" \notin DOMAIN told
    <2>1. DOMAIN Heeded(a, user, project) \subseteq DOMAIN user \union DOMAIN project
      BY TwoLayers DEF Heeded, Without, ConfigOf
    <2>2. DOMAIN config \subseteq DOMAIN Heeded(a, user, project)
      BY DEF Without
    <2> QED BY <2>1, <2>2
  <1>3. "resume" \notin DOMAIN own
    BY DEF ProfileKeys, Profile
  <1>4. "resume" \notin DOMAIN map
    BY DEF ToolMapOption, Only
  <1> DEFINE fs == << a, told, own, map >>
  <1>5. Resolved(harness, args, user, project) = Layers(fs)
    BY Zenon DEF Resolved
  <1>6. DOMAIN fs = 1 .. 4 /\ fs[1] = a /\ fs[2] = told /\ fs[3] = own /\ fs[4] = map
    OBVIOUS
  <1> HIDE DEF a, told, own, map, fs
  <1>9. DOMAIN fs \subseteq Nat
    BY <1>6
  <1>7. \A k : k \in DOMAIN Layers(fs) <=> \E i \in DOMAIN fs : k \in DOMAIN fs[i]
    BY <1>9, LayersHave
  <1>8. \A i \in DOMAIN fs : "resume" \notin DOMAIN fs[i]
    BY <1>1, <1>2, <1>3, <1>4, <1>6
  <1> QED BY <1>5, <1>7, <1>8

(* What the harness is asked to run with continues what the call does.     *)
LEMMA ComposedResumes ==
  ASSUME "resume" \notin DOMAIN plan.options, Given(Composed, "resume")
  PROVE  Composed.resume = call.resume
  <1> DEFINE text == Only("prompt", [long |-> Tagged("long"), dashed |-> Tagged("dashed"),
                                  explicit |-> ExplicitPrompt])
             id == IF call.resume # "" THEN Only("resume", call.resume) ELSE <<>>
             latest == IF call.last THEN Only("resumeLast", TRUE) ELSE <<>>
             rest == IF Given(call.args, "passthrough") THEN Only("passthrough", TRUE) ELSE <<>>
  <1> DEFINE own == plan.options
             fs == << own, text, id, latest, rest >>
  <1>1. Composed = Layers(fs)
    BY Zenon DEF Composed
  <1>2. "resume" \notin DOMAIN text /\ "resume" \notin DOMAIN latest /\ "resume" \notin DOMAIN rest
    BY DEF Only
  <1>3. "resume" \in DOMAIN id => id["resume"] = call.resume
    <2>1. CASE call.resume # ""
      <3>1. id = [k \in {"resume"} |-> call.resume]
        BY <2>1 DEF Only
      <3> QED BY <3>1
    <2>2. CASE call.resume = ""
      <3>1. id = << >>
        BY <2>2
      <3>2. DOMAIN << >> = {}
        OBVIOUS
      <3>3. DOMAIN id = {}
        BY Zenon, <3>1, <3>2
      <3> QED BY <3>3
    <2> QED BY <2>1, <2>2
  <1>4. /\ DOMAIN fs = 1 .. 5 /\ fs[1] = own /\ fs[2] = text /\ fs[3] = id
        /\ fs[4] = latest /\ fs[5] = rest
    OBVIOUS
  <1>5. "resume" \notin DOMAIN own
    OBVIOUS
  <1> HIDE DEF own, text, id, latest, rest, fs
  <1>6. "resume" \in DOMAIN Layers(fs)
    BY <1>1 DEF Given
  <1>7. DOMAIN fs \subseteq Nat
    BY <1>4
  <1>8. PICK i \in DOMAIN fs : "resume" \in DOMAIN fs[i]
    BY <1>6, <1>7, LayersHave
  <1>9. \A j \in DOMAIN fs : "resume" \in DOMAIN fs[j] => j = 3
    BY <1>2, <1>4, <1>5
  <1>10. 3 \in DOMAIN fs /\ "resume" \in DOMAIN fs[3] /\ fs[3]["resume"] = call.resume
    BY <1>3, <1>4, <1>8, <1>9
  <1>11. Layers(fs)["resume"] = fs[3]["resume"]
    <2>1. \A n \in DOMAIN fs : \A k \in DOMAIN fs[n] :
            (\A j \in DOMAIN fs : k \in DOMAIN fs[j] => n <= j) => Layers(fs)[k] = fs[n][k]
      BY <1>7, LayersHave
    <2>2. \A j \in DOMAIN fs : "resume" \in DOMAIN fs[j] => 3 <= j
      BY <1>9
    <2> QED BY <1>10, <2>1, <2>2
  <1>12. Composed["resume"] = call.resume
    BY <1>1, <1>10, <1>11
  <1> QED BY <1>12

(* A plan that was made from saved settings is bound by them.              *)
LEMMA SettingsBind ==
  ASSUME BoundInv, Tagged("fingerprint"), NEW answer \in Inspections,
         BuildFromSettings(Composed, answer)
  PROVE  BoundInv'
  <1> DEFINE o == Composed
             approvals == Tagged("native-approvals")
             early == FirstIssue(<< IF approvals THEN ApprovalsIssue(o) ELSE "none",
                                    FingerprintIssue(o) >>)
             late == FirstIssue(<< InspectionIssue(answer),
                                   IF approvals
                                   THEN IssueIf(answer # "user-reviewed", "native-settings-unavailable")
                                   ELSE SpawnIssue(call.h, o) >>)
             found == FirstIssue(<< early, late >>)
             argv == IF approvals THEN NoArgv ELSE SpawnArgv(call.h, o, TRUE)
             next == [plan EXCEPT !.options = o, !.inspected = answer, !.argv = argv]
  <1>1. /\ stage = "argv" /\ call' = call
        /\ stage' = IF found = "none" THEN "probe" ELSE "refused"
        /\ plan' = IF found = "none" THEN next ELSE plan
    BY Zenon DEF BuildFromSettings, Stage
  <1>2. CASE found # "none"
    <2>1. stage' = "refused" /\ plan' = plan
      BY <1>1, <1>2
    <2> HIDE DEF o, early, late, found, argv, next
    <2> QED BY <1>1, <2>1, StageBinds
  <1>3. CASE found = "none"
    <2>1. early = "none" /\ late = "none"
      <3> HIDE DEF early, late
      <3> QED BY <1>3, NoneOfTwo DEF found
    <2>2. FingerprintIssue(o) = "none" /\ InspectionIssue(answer) = "none"
      <3> HIDE DEF o
      <3> QED BY <2>1, NoneOfTwo DEF early, late
    <2>3. approvals => IssueIf(answer # "user-reviewed", "native-settings-unavailable") = "none"
      <3> HIDE DEF o
      <3> QED BY <2>1, NoneOfTwo DEF late
    <2>4. ~approvals => SpawnIssue(call.h, o) = "none"
      <3> HIDE DEF o
      <3> QED BY <2>1, NoneOfTwo DEF late
    <2>5. /\ DOMAIN plan = PlanFields /\ "resume" \notin DOMAIN plan.options /\ ~call.last
          /\ call.h \in HarnessNames
      BY <1>1 DEF BoundInv, Continued, Optioned
    <2>6. /\ NativeSettingsSource[call.h] # "none"
          /\ Given(o, "resume") /\ o.resume \in UsableIds
          /\ {"model", "effort", "provider", "passthrough"} \intersect DOMAIN o = {}
          /\ call.h = "pi" => DOMAIN o \subseteq BesidePi
      <3> HIDE DEF o
      <3> QED BY <2>2 DEF FingerprintIssue, InvalidIf, IssueIf
    <2>7. call.h \in {"codex", "pi"}
      BY <2>5, <2>6 DEF NativeSettingsSource
    <2>8. call.resume \in UsableIds
      BY <2>5, <2>6, ComposedResumes
    <2>9. answer \in {"user-reviewed", "auto-reviewed"} /\ (approvals => answer = "user-reviewed")
      BY <2>2, <2>3 DEF InspectionIssue, Inspections, IssueIf
    <2>10. \A t \in Tokens(argv) : t.flag \in SavedFlags => t.vals = {"saved"}
      <3>1. CASE approvals
        <4>1. Groups(NoArgv) = {}
          BY DEF Groups, NoArgv
        <4> QED BY <3>1, <4>1 DEF Tokens
      <3>2. CASE ~approvals
        <4> HIDE DEF o
        <4> QED BY <3>2, <2>4, <2>6, <2>7, RestoredArgv
      <3> QED BY <3>1, <3>2
    <2> HIDE DEF o, argv
    <2>11. plan'.inspected = answer /\ plan'.argv = argv /\ DOMAIN plan' = PlanFields
      BY <1>1, <1>3, <2>5 DEF PlanFields
    <2>12. Bound'
      <3>1. \A flag \in {"--model", "-c model_reasoning_effort", "-c model_provider"} :
              (ValuesGiven(flag))' \subseteq {"saved"}
        BY <2>10, <2>11 DEF ValuesGiven, SavedFlags
      <3>2. approvals => argv = NoArgv
        BY DEF argv
      <3> QED BY <1>1, <2>5, <2>8, <2>9, <2>11, <3>1, <3>2 DEF Bound, Tagged
    <2>13. stage' = "probe"
      BY <1>1, <1>3
    <2> HIDE DEF found, next
    <2> QED BY <1>1, <2>5, <2>11, <2>12, <2>13, StageBinds DEF TurnStages, Continued, Optioned
  <1> QED BY <1>2, <1>3

LEMMA StageMoves ==
  ASSUME NEW from, NEW to, NEW found, NEW next, NEW touched,
         BoundInv, Stage(from, to, found, next, touched),
         from # "run", to \notin {"run", "probe", "planned"},
         Tagged("fingerprint") /\ found = "none" =>
           /\ to \in TurnStages /\ DOMAIN next = PlanFields
           /\ to \in Continued => ~call.last
           /\ to \in Optioned => "resume" \notin DOMAIN next.options
           /\ to = "resolve" => FilesKnown
  PROVE  BoundInv'
  <1>1. /\ stage = from /\ call' = call
        /\ stage' = IF found = "none" THEN to ELSE "refused"
        /\ plan' = IF found = "none" THEN next ELSE plan
    BY DEF Stage
  <1>2. CASE found = "none"
    BY <1>1, <1>2, StageBinds
  <1>3. CASE found # "none"
    BY <1>1, <1>3, StageBinds
  <1> QED BY <1>2, <1>3

(* What a stage may count on of a call with a fingerprint.                 *)
LEMMA StageHas ==
  ASSUME BoundInv, stage # "run", Tagged("fingerprint")
  PROVE  /\ stage \in TurnStages /\ DOMAIN plan = PlanFields
         /\ call.h \in HarnessNames
         /\ "resume" \notin DOMAIN call.args
         /\ stage \in Continued => ~call.last
         /\ stage \in Optioned => "resume" \notin DOMAIN plan.options
         /\ stage = "resolve" => FilesKnown
         /\ stage \in {"probe", "planned"} => Bound
  BY DEF BoundInv

LEMMA FlagsKeep == BoundInv /\ (Parse \/ ReadPrompt) => BoundInv'
  <1> SUFFICES ASSUME BoundInv, Parse \/ ReadPrompt PROVE BoundInv'
    OBVIOUS
  <1>1. CASE Parse
    <2> DEFINE found == FirstIssue(<< InjectionIssue, FlagsIssue >>)
    <2>1. Stage("parse", "prompt", found, plan, <<>>)
      BY <1>1 DEF Parse
    <2>2. Tagged("fingerprint") => DOMAIN plan = PlanFields
      BY <2>1, StageHas DEF Stage
    <2> HIDE DEF found
    <2> QED BY <2>1, <2>2, StageMoves DEF TurnStages, Continued, Optioned
  <1>2. CASE ReadPrompt
    <2>1. PICK found \in BOOLEAN :
            LET one == Cardinality(PromptSources) = 1 IN
            Stage("prompt", "options", InvalidIf(~one \/ ~found), plan,
                  IF one /\ Tagged("--prompt-file")
                  THEN << IF Tagged("stdin") THEN "stdin" ELSE "prompt-file" >> ELSE <<>>)
      BY <1>2 DEF ReadPrompt
    <2> DEFINE one == Cardinality(PromptSources) = 1
               why == InvalidIf(~one \/ ~found)
               read == IF one /\ Tagged("--prompt-file")
                       THEN << IF Tagged("stdin") THEN "stdin" ELSE "prompt-file" >> ELSE <<>>
    <2>2. Stage("prompt", "options", why, plan, read)
      BY <2>1
    <2>3. Tagged("fingerprint") => DOMAIN plan = PlanFields
      BY <2>2, StageHas DEF Stage
    <2> HIDE DEF why, read
    <2> QED BY <2>2, <2>3, StageMoves DEF TurnStages, Continued, Optioned
  <1> QED BY <1>1, <1>2

LEMMA ContinuationKeeps == BoundInv /\ ParseOptions => BoundInv'
  <1> SUFFICES ASSUME BoundInv, ParseOptions PROVE BoundInv'
    OBVIOUS
  <1> DEFINE found == ContinuationIssue
  <1>1. Stage("options", "skills", found, plan, <<>>)
    BY DEF ParseOptions
  <1>2. Tagged("fingerprint") => DOMAIN plan = PlanFields
    BY <1>1, StageHas DEF Stage
  <1>3. ASSUME Tagged("fingerprint"), found = "none" PROVE ~call.last
    <2> DEFINE a == ExclusiveIf(Tagged("two-ids"))
               b == ExclusiveIf(call.last /\ call.resume # "")
               c == InvalidIf(Tagged("bad-env"))
               d == IsolationIssue(call.args)
               e == IssueIf(call.last /\ call.h \notin DOMAIN ResumeLastFlag, "unsupported-option")
               f == InvalidIf(call.last /\ (Tagged("native-approvals") \/ Tagged("fingerprint")))
               g == InvalidIf(/\ Given(call.args, "skillNames") /\ Tagged("fingerprint")
                              /\ NativeSettingsSource[call.h] = "pi-session-v1")
    <2>1. FirstIssue(<< a, b, c, d, e, f, g >>) = "none"
      BY <1>3 DEF ContinuationIssue
    <2>2. f = "none"
      <3> HIDE DEF a, b, c, d, e, f, g
      <3> QED BY <2>1, NoneOfSeven
    <2> QED BY <1>3, <2>2 DEF InvalidIf, IssueIf
  <1> HIDE DEF found
  <1> QED BY <1>1, <1>2, <1>3, StageMoves DEF TurnStages, Continued, Optioned

LEMMA SkillsKeep == BoundInv /\ ResolveSkills => BoundInv'
  <1> SUFFICES ASSUME BoundInv, ResolveSkills PROVE BoundInv'
    OBVIOUS
  <1> DEFINE wanted == SkillNames
             args == Without(call.args, {"skillNames", "timeout", "passthrough"})
             options == IF wanted = {} THEN args ELSE Layers(<< args, Only("skills", wanted) >>)
             next == [plan EXCEPT !.options = options]
             read == IF wanted = {} THEN <<>> ELSE << "registry" >>
             found == SkillNamesIssue
  <1>1. Stage("skills", "files", found, next, read)
    BY Zenon DEF ResolveSkills
  <1>2. ASSUME Tagged("fingerprint")
        PROVE  ~call.last /\ DOMAIN next = PlanFields /\ "resume" \notin DOMAIN next.options
    <2>1. DOMAIN plan = PlanFields /\ ~call.last /\ "resume" \notin DOMAIN call.args
      <3> HIDE DEF found, next, read
      <3> QED BY <1>1, <1>2, StageHas DEF Stage, Continued
    <2>2. "resume" \notin DOMAIN args
      BY <2>1 DEF Without
    <2>3. "resume" \notin DOMAIN options
      <3>1. "resume" \notin DOMAIN Only("skills", wanted)
        BY DEF Only
      <3>2. DOMAIN Layers(<< args, Only("skills", wanted) >>) = DOMAIN args \union DOMAIN Only("skills", wanted)
        BY TwoLayers
      <3> HIDE DEF args, wanted
      <3> QED BY <2>2, <3>1, <3>2
    <2> HIDE DEF options
    <2> QED BY <2>1, <2>3 DEF PlanFields
  <1> HIDE DEF found, next, read
  <1> QED BY <1>1, <1>2, StageMoves DEF TurnStages, Continued, Optioned

(* A config file that is read to its end has keys of config files only.    *)
LEMMA FilesRead ==
  ASSUME ConfigFilesIssue = "none"
  PROVE  FilesKnown
  <1>1. ConfigIssue(call.user, FALSE) = "none" /\ ConfigIssue(call.project, TRUE) = "none"
    BY NoneOfThree DEF ConfigFilesIssue
  <1> QED BY <1>1 DEF ConfigIssue, InvalidIf, IssueIf, FilesKnown

LEMMA FilesKeep == BoundInv /\ (CheckExtensions \/ LoadConfig) => BoundInv'
  <1> SUFFICES ASSUME BoundInv, CheckExtensions \/ LoadConfig PROVE BoundInv'
    OBVIOUS
  <1>1. CASE CheckExtensions
    <2> DEFINE paths == IF Given(call.args, "extensions") THEN call.args.extensions ELSE {}
               found == InvalidIf(~(paths \subseteq RegularFiles))
               read == IF paths = {} THEN <<>> ELSE << "extension files" >>
    <2>1. Stage("files", "config", found, plan, read)
      BY <1>1, Zenon DEF CheckExtensions
    <2> HIDE DEF found, read
    <2>2. Tagged("fingerprint") =>
            DOMAIN plan = PlanFields /\ ~call.last /\ "resume" \notin DOMAIN plan.options
      BY <2>1, StageHas DEF Stage, Continued, Optioned
    <2> QED BY <2>1, <2>2, StageMoves DEF TurnStages, Continued, Optioned
  <1>2. CASE LoadConfig
    <2> DEFINE found == ConfigFilesIssue
               read == << "config" >>
    <2>1. Stage("config", "resolve", found, plan, read)
      BY <1>2 DEF LoadConfig
    <2>3. found = "none" => FilesKnown
      BY FilesRead
    <2> HIDE DEF found, read
    <2>2. Tagged("fingerprint") =>
            DOMAIN plan = PlanFields /\ ~call.last /\ "resume" \notin DOMAIN plan.options
      BY <2>1, StageHas DEF Stage, Continued, Optioned
    <2> QED BY <2>1, <2>2, <2>3, StageMoves DEF TurnStages, Continued, Optioned
  <1> QED BY <1>1, <1>2

LEMMA TiersKeep == BoundInv /\ ResolveTiers => BoundInv'
  <1> SUFFICES ASSUME BoundInv, ResolveTiers PROVE BoundInv'
    OBVIOUS
  <1> DEFINE args == plan.options
             dir == LaunchDir(call.h, call.user, call.inherited, call.env)
             map == ToolMapOption(call.user, call.project)
             withMap == IF Grants \intersect DOMAIN args = {} THEN args ELSE Layers(<< args, map >>)
             found == IF Resuming THEN "none"
                      ELSE ResolveIssue(call.h, args, call.user, call.project)
             resolved == Resolved(call.h, args, call.user, call.project)
             options == IF Resuming THEN withMap ELSE resolved
             dims == IF Resuming THEN {} ELSE Unrenderable(call.h, args, call.user, call.project)
             next == [plan EXCEPT !.options = options, !.unrenderable = dims, !.dir = dir]
  <1>1. Stage("resolve", "model", found, next, <<>>)
    BY Zenon DEF ResolveTiers
  <1>2. ASSUME Tagged("fingerprint")
        PROVE  ~call.last /\ DOMAIN next = PlanFields /\ "resume" \notin DOMAIN next.options
    <2>1. /\ DOMAIN plan = PlanFields /\ ~call.last /\ "resume" \notin DOMAIN args
          /\ "resume" \notin DOMAIN call.user \union DOMAIN call.project
      <3>1. FilesKnown => "resume" \notin DOMAIN call.user \union DOMAIN call.project
        BY DEF FilesKnown, ConfigKeys
      <3> HIDE DEF found, next
      <3> QED BY <1>1, <1>2, <3>1, StageHas DEF Stage, Continued, Optioned
    <2>2. "resume" \notin DOMAIN resolved
      <3> HIDE DEF args
      <3> QED BY <2>1, TiersResumeNothing
    <2>3. "resume" \notin DOMAIN withMap
      <3>1. "resume" \notin DOMAIN map
        BY DEF ToolMapOption, Only
      <3>2. DOMAIN Layers(<< args, map >>) = DOMAIN args \union DOMAIN map
        BY TwoLayers
      <3> HIDE DEF map, args
      <3> QED BY <2>1, <3>1, <3>2
    <2>4. "resume" \notin DOMAIN options
      <3> HIDE DEF resolved, withMap
      <3> QED BY <2>2, <2>3
    <2> HIDE DEF options, dims, dir
    <2> QED BY <2>1, <2>4 DEF PlanFields
  <1> HIDE DEF found, next
  <1> QED BY <1>1, <1>2, StageMoves DEF TurnStages, Continued, Optioned

LEMMA ModelKeeps == BoundInv /\ ResolveModel => BoundInv'
  <1> SUFFICES ASSUME BoundInv, ResolveModel PROVE BoundInv'
    OBVIOUS
  <1> DEFINE options == plan.options
             model == IF Given(options, "model") THEN options.model ELSE ""
             effort == IF Given(call.args, "effort") THEN call.args.effort ELSE ""
             applies == call.h = "cursor" /\ (model # "" \/ effort # "")
             found == IF applies THEN EffortSlugIssue(model, effort) ELSE "none"
             own == Only("model", EffortSlug(model, effort))
             next == IF applies THEN [plan EXCEPT !.options = Layers(<< own, options >>)] ELSE plan
  <1>1. Stage("model", "argv", found, next, <<>>)
    BY Zenon DEF ResolveModel
  <1>2. ASSUME Tagged("fingerprint")
        PROVE  ~call.last /\ DOMAIN next = PlanFields /\ "resume" \notin DOMAIN next.options
    <2>1. /\ DOMAIN plan = PlanFields /\ ~call.last /\ "resume" \notin DOMAIN options
      <3> HIDE DEF found, next
      <3> QED BY <1>1, <1>2, StageHas DEF Stage, Continued, Optioned
    <2>2. "resume" \notin DOMAIN Layers(<< own, options >>)
      <3>1. "resume" \notin DOMAIN own
        BY DEF Only
      <3>2. DOMAIN Layers(<< own, options >>) = DOMAIN own \union DOMAIN options
        BY TwoLayers
      <3> HIDE DEF own, options
      <3> QED BY <2>1, <3>1, <3>2
    <2>3. CASE applies
      <3> DEFINE put == Layers(<< own, options >>)
      <3>1. next = [plan EXCEPT !.options = put]
        BY <2>3
      <3>2. "resume" \notin DOMAIN put
        BY <2>2
      <3> HIDE DEF put, next
      <3> QED BY <2>1, <3>1, <3>2 DEF PlanFields
    <2>4. CASE ~applies
      <3>1. next = plan
        BY <2>4
      <3> QED BY <2>1, <3>1
    <2> QED BY <2>3, <2>4
  <1> HIDE DEF found, next
  <1> QED BY <1>1, <1>2, StageMoves DEF TurnStages, Continued, Optioned

LEMMA ArgvKeeps == BoundInv /\ BuildArgv => BoundInv'
  <1> SUFFICES ASSUME BoundInv, BuildArgv PROVE BoundInv'
    OBVIOUS
  <1>1. CASE Tagged("fingerprint")
    <2>1. PICK answer \in Inspections : BuildFromSettings(Composed, answer)
      BY <1>1, Zenon DEF BuildArgv
    <2> QED BY <1>1, <2>1, SettingsBind
  <1>2. CASE ~Tagged("fingerprint")
    <2> DEFINE o == Composed
               argv == SpawnArgv(call.h, o, FALSE)
               found == SpawnIssue(call.h, o)
               next == [plan EXCEPT !.options = o, !.argv = argv]
    <2>1. Stage("argv", "probe", found, next, <<>>)
      BY <1>2, Zenon DEF BuildArgv
    <2> HIDE DEF found, next
    <2>2. /\ stage = "argv" /\ call' = call
          /\ stage' = IF found = "none" THEN "probe" ELSE "refused"
      BY <2>1 DEF Stage
    <2> QED BY <1>2, <2>2, StageBinds
  <1> QED BY <1>1, <1>2

LEMMA ProbeKeeps == BoundInv /\ ProbeOptions => BoundInv'
  <1> SUFFICES ASSUME BoundInv, ProbeOptions PROVE BoundInv'
    OBVIOUS
  <1> DEFINE read == IF Probed = {} THEN <<>> ELSE << "probe" >>
  <1>1. PICK present \in BOOLEAN :
          Stage("probe", "planned", IssueIf(~present, "extension-option-unavailable"), plan, read)
    BY Zenon DEF ProbeOptions
  <1> DEFINE found == IssueIf(~present, "extension-option-unavailable")
  <1> HIDE DEF found, read
  <1>2. /\ stage = "probe" /\ call' = call /\ plan' = plan
        /\ stage' = IF found = "none" THEN "planned" ELSE "refused"
    BY <1>1 DEF Stage, found
  <1>3. Bound' = Bound
    BY <1>2, SamePlan
  <1>4. Tagged("fingerprint") => DOMAIN plan = PlanFields /\ ~call.last /\ Bound
    BY <1>2, StageHas DEF Continued
  <1> QED BY <1>2, <1>3, <1>4, StageBinds DEF TurnStages, Continued, Optioned

(* A session takes no fingerprint, so its stages bind nothing.             *)
LEMMA SessionKeeps == BoundInv /\ SessionPlanNext => BoundInv'
  <1> SUFFICES ASSUME BoundInv, SessionPlanNext PROVE BoundInv'
    OBVIOUS
  <1>1. CASE SessionFlags
    <2> DEFINE found == SessionFlagsIssue
    <2>1. Stage("session", "session skills", found, plan, <<>>)
      BY <1>1 DEF SessionFlags
    <2>2. ASSUME Tagged("fingerprint"), found = "none" PROVE FALSE
      <3> DEFINE issues == <<
        InvalidIf(Given(call.args, "passthrough")),
        IssueIf(call.h \notin SessionHarnesses, "no-session-mode"),
        InvalidIf(\/ Tagged("unknown-flag") \/ Tagged("memory-twice")
                  \/ Tagged("dashed") /\ Tagged("positional")
                  \/ Tagged("fingerprint")),
        InvalidIf(Tagged("native-approvals") /\ ~Tagged("json")),
        IssueIf(Tagged("native-approvals") /\ call.h \notin DOMAIN SessionApprovals,
                "unsupported-option"),
        InvalidIf(call.last),
        InvalidIf(RunOnly \intersect DOMAIN call.args # {}),
        InvalidIf(call.env # "unset" \/ Tagged("bad-env")),
        InvalidIf(Given(call.args, "isolation")) >>
      <3>1. FirstIssue(issues) = "none"
        BY <2>2, Zenon DEF SessionFlagsIssue
      <3>2. DOMAIN issues \subseteq Nat /\ 3 \in DOMAIN issues
        OBVIOUS
      <3>3. issues[3] = InvalidIf(\/ Tagged("unknown-flag") \/ Tagged("memory-twice")
                                  \/ Tagged("dashed") /\ Tagged("positional")
                                  \/ Tagged("fingerprint"))
        OBVIOUS
      <3>4. issues[3] = "none"
        <4> HIDE DEF issues
        <4> QED BY <3>1, <3>2, NothingFound
      <3> HIDE DEF issues
      <3> QED BY <2>2, <3>3, <3>4 DEF InvalidIf, IssueIf
    <2> HIDE DEF found
    <2> QED BY <2>1, <2>2, StageMoves
  <1>2. CASE ~SessionFlags
    <2>1. /\ stage \in {"session skills", "session id", "session config", "session options",
                        "session store", "session argv"}
          /\ call' = call /\ stage' # "run"
      BY <1>2, Zenon DEF SessionPlanNext, SessionSkills, SessionId, SessionConfig, SessionOptions,
            SessionStore, BuildSession, Stage
    <2>2. ~Tagged("fingerprint")
      BY <2>1, StageHas DEF TurnStages
    <2> QED BY <2>1, <2>2, StageBinds
  <1> QED BY <1>1, <1>2

LEMMA BoundStarts == Init => BoundInv
  <1> SUFFICES ASSUME Init PROVE BoundInv
    OBVIOUS
  <1>1. PICK group \in DOMAIN Samples : \E sample \in Samples[group] : call = CallOf(sample)
    BY DEF Init, PlanInit
  <1>2. PICK sample \in Samples[group] : call = CallOf(sample)
    BY <1>1
  <1>3. /\ call.h \in HarnessNames
        /\ "resume" \notin DOMAIN call.args
    BY <1>2, CallsAssumption
  <1>4. stage \in {"session", "parse"} /\ plan = NoPlan
    BY DEF Init, PlanInit
  <1>5. DOMAIN plan = PlanFields
    BY <1>4 DEF NoPlan, PlanFields
  <1> QED BY <1>3, <1>4, <1>5 DEF BoundInv, TurnStages, Continued, Optioned

LEMMA BoundKept == BoundInv /\ [Next]_vars => BoundInv'
  <1> SUFFICES ASSUME BoundInv, [Next]_vars PROVE BoundInv'
    OBVIOUS
  <1>1. ASSUME call' = call, stage' = stage, plan' = plan PROVE BoundInv'
    <2>1. Bound' = Bound
      BY <1>1, SamePlan
    <2>2. FilesKnown' = FilesKnown
      BY <1>1 DEF FilesKnown
    <2> QED BY <1>1, <2>1, <2>2 DEF BoundInv, Tagged
  <1>2. CASE Planning
    <2>1. PlanNext \/ SessionPlanNext
      BY <1>2 DEF Planning
    <2> QED BY <2>1, FlagsKeep, ContinuationKeeps, SkillsKeep, FilesKeep, TiersKeep, ModelKeeps,
               ArgvKeeps, ProbeKeeps, SessionKeeps DEF PlanNext
  <1>3. CASE Planned
    <2>1. stage' = "run" /\ plan' = NoPlan /\ call' = Kept
      BY <1>3 DEF Planned
    <2>2. DOMAIN plan' = PlanFields
      BY <2>1 DEF NoPlan, PlanFields
    <2> QED BY <2>1, <2>2 DEF BoundInv, TurnStages, Continued, Optioned
  <1>4. CASE RunNext /\ ~Planned
    <2>1. UNCHANGED planVars
      BY <1>4, Zenon DEF RunNext, PlanRefused, ResumeGuard, OpenSession, SessionSpawnThrows, TurnRefuses,
            Spawn, SpawnThrows, TurnThrows, Event, Line, Done, Finish, Signal, Escalate,
            OutputBreaks, ObserverFails
    <2> QED BY <1>1, <2>1 DEF planVars
  <1>5. CASE UNCHANGED vars
    BY <1>1, <1>5 DEF vars, planVars
  <1> QED BY <1>2, <1>3, <1>4, <1>5 DEF Next

\* A run of hcn, for every table of calls: a plan that a fingerprint binds
\* names one saved session that was read again just before its command line
\* was made, states nothing of the model but what was saved, and takes
\* approvals only where the session's own reviewer is the user
\* (src/execution/verified-native-settings.ts and native-approval-plan.ts).
THEOREM SettingsAreBound == Spec => []SettingsBound
  <1>1. BoundInv => SettingsBound
    BY DEF BoundInv, SettingsBound, Bound, IsPlanned
  <1> QED BY BoundStarts, BoundKept, <1>1, PTL DEF Spec

-----------------------------------------------------------------------------
(* What a plan holds at each stage                                         *)

\* The options of a turn are a function of the call: its arguments, ...
Own ==
  LET args == Without(call.args, {"skillNames", "timeout", "passthrough"})
  IN  IF SkillNames = {} THEN args ELSE Layers(<< args, Only("skills", SkillNames) >>)

\* ... what the tiers add, ...
WithMap ==
  IF Grants \intersect DOMAIN Own = {} THEN Own
  ELSE Layers(<< Own, ToolMapOption(call.user, call.project) >>)
Tiered ==
  IF Resuming THEN WithMap ELSE Resolved(call.h, Own, call.user, call.project)

\* ... the model's name, ...
ModelIn(options) == IF Given(options, "model") THEN options.model ELSE ""
EffortGiven == IF Given(call.args, "effort") THEN call.args.effort ELSE ""
Renamed(options) == call.h = "cursor" /\ (ModelIn(options) # "" \/ EffortGiven # "")
Slugged(options) ==
  IF Renamed(options)
  THEN Layers(<< Only("model", EffortSlug(ModelIn(options), EffortGiven)), options >>)
  ELSE options

\* ... and the continuation.
Continuing(options) ==
  Layers(<<
    options,
    Only("prompt", [long |-> Tagged("long"), dashed |-> Tagged("dashed"),
                    explicit |-> ExplicitPrompt]),
    IF call.resume # "" THEN Only("resume", call.resume) ELSE <<>>,
    IF call.last THEN Only("resumeLast", TRUE) ELSE <<>>,
    IF Given(call.args, "passthrough") THEN Only("passthrough", TRUE) ELSE <<>> >>)

\* The same of a session.
Chosen == IF SkillNames = {} THEN <<>> ELSE Only("skills", SkillNames)
SessionTiered ==
  LET args == Narrowed(SessionArgs)
      granted == SessionPermissionKeys \intersect DOMAIN args # {}
  IN  Layers(<<
        Chosen, args,
        IF granted THEN ToolMapOption(call.user, call.project) ELSE <<>>,
        IF "memory" \in DOMAIN OptionsOf[call.h] THEN Only("memory", SessionMemory) ELSE <<>>,
        IF Tagged("native-approvals") THEN Only("nativeApprovals", TRUE) ELSE <<>> >>)
SessionFull(store) ==
  Layers(<< SessionTiered, Only("isResume", store = "found"),
            Only("sessionId", IF call.resume = "" THEN "minted" ELSE call.resume) >>)

TiersPassed ==
  /\ FilesKnown
  /\ ~Resuming => ResolveIssue(call.h, Own, call.user, call.project) = "none"
\* Saved settings are restated only where the options say nothing of them.
Unstated(options) == {"model", "effort", "provider"} \intersect DOMAIN options = {}
TurnMade(options) ==
  \/ plan.argv = NoArgv /\ NativeApprovals(call.h)
  \/ /\ SpawnIssue(call.h, options) = "none"
     /\ \E saved \in BOOLEAN :
          plan.argv = SpawnArgv(call.h, options, saved) /\ (saved => Unstated(options))
StoreSays ==
  /\ call.resume = "" => plan.store = "skipped"
  /\ NamesResume => plan.store = "found"

TurnPlan ==
  /\ stage \in {"files", "config", "resolve"} => plan.options = Own
  /\ stage = "resolve" => FilesKnown
  /\ stage = "model" => plan.options = Tiered /\ TiersPassed
  /\ stage = "argv" => plan.options = Slugged(Tiered) /\ TiersPassed
  /\ stage \in {"probe", "planned"} =>
       /\ plan.options = Continuing(Slugged(Tiered)) /\ TiersPassed
       /\ TurnMade(plan.options)

SessionPlanned ==
  /\ stage \in {"session", "session skills"} => plan.options = <<>>
  /\ stage # "session" => ~Given(call.args, "isolation")
  /\ stage \in {"session id", "session config", "session options"} => plan.options = Chosen
  /\ stage = "session store" => plan.options = SessionTiered
  /\ stage \in {"session argv", "probe", "planned"} =>
       plan.options = SessionFull(plan.store) /\ StoreSays
  /\ stage \in {"probe", "planned"} =>
       /\ SessionIssue(call.h, plan.options) = "none"
       /\ plan.argv = SessionArgv(call.h, plan.options)

TurnOnly == {"parse", "prompt", "options", "skills", "files", "config", "resolve", "model", "argv"}
SessionOnly == {"session", "session skills", "session id", "session config", "session options",
                "session store", "session argv"}

PlannedInv ==
  /\ DOMAIN plan = PlanFields
  /\ stage # "run" =>
       /\ call.h \in HarnessNames
       /\ "resume" \notin DOMAIN call.args
       /\ "passthrough" \in DOMAIN call.args => call.args.passthrough = TRUE
  /\ stage \in TurnOnly => ~IsSession
  /\ stage \in SessionOnly => IsSession
  /\ stage \notin {"run", "refused"} => IF IsSession THEN SessionPlanned ELSE TurnPlan

(* Its parts depend on the call alone.                                     *)
LEMMA SameCall ==
  ASSUME call' = call
  PROVE  /\ Own' = Own /\ Tiered' = Tiered /\ (Slugged(Tiered))' = Slugged(Tiered)
         /\ (Continuing(Slugged(Tiered)))' = Continuing(Slugged(Tiered))
         /\ Chosen' = Chosen /\ SessionTiered' = SessionTiered
         /\ TiersPassed' = TiersPassed /\ FilesKnown' = FilesKnown /\ IsSession' = IsSession
  <1>1. SkillNames' = SkillNames
    BY DEF SkillNames
  <1>2. Resuming' = Resuming
    BY DEF Resuming
  <1>3. Own' = Own
    BY <1>1 DEF Own
  <1>4. WithMap' = WithMap
    BY <1>3 DEF WithMap
  <1>5. Tiered' = Tiered
    BY <1>2, <1>3, <1>4 DEF Tiered
  <1>6. EffortGiven' = EffortGiven
    BY DEF EffortGiven
  <1>7. (Slugged(Tiered))' = Slugged(Tiered)
    BY <1>5, <1>6 DEF Slugged, Renamed, ModelIn
  <1>8. (Continuing(Slugged(Tiered)))' = Continuing(Slugged(Tiered))
    <2> DEFINE named == Slugged(Tiered)
    <2>1. named' = named
      BY <1>7
    <2> HIDE DEF named
    <2>2. ExplicitPrompt' = ExplicitPrompt
      BY DEF ExplicitPrompt, PromptSources
    <2>3. (Continuing(named))' = Continuing(named)
      BY <2>1, <2>2 DEF Continuing, Tagged
    <2> QED BY <2>3 DEF named
  <1>9. Chosen' = Chosen
    BY <1>1 DEF Chosen
  <1>10. SessionTiered' = SessionTiered
    <2>1. SessionMemory' = SessionMemory
      BY DEF SessionMemory
    <2>2. (Narrowed(SessionArgs))' = Narrowed(SessionArgs)
      BY DEF SessionArgs, Narrowed
    <2> QED BY <1>9, <2>1, <2>2 DEF SessionTiered, Tagged
  <1>11. FilesKnown' = FilesKnown
    BY DEF FilesKnown
  <1>12. TiersPassed' = TiersPassed
    BY <1>2, <1>3, <1>11 DEF TiersPassed
  <1>13. IsSession' = IsSession
    BY DEF IsSession
  <1> QED BY <1>3, <1>5, <1>7, <1>8, <1>9, <1>10, <1>11, <1>12, <1>13

\* What holds of a plan under way.
CallKnown ==
  /\ call.h \in HarnessNames
  /\ "resume" \notin DOMAIN call.args
  /\ "passthrough" \in DOMAIN call.args => call.args.passthrough = TRUE

LEMMA StagePlans ==
  ASSUME NEW from, NEW to, NEW found, NEW next, NEW touched,
         PlannedInv, Stage(from, to, found, next, touched),
         from # "run", to # "run", to # "refused",
         to \in TurnOnly => ~IsSession, to \in SessionOnly => IsSession,
         found = "none" => DOMAIN next = PlanFields,
         found = "none" /\ stage' = to /\ plan' = next =>
           IF IsSession THEN SessionPlanned' ELSE TurnPlan'
  PROVE  PlannedInv'
  <1>1. /\ stage = from /\ call' = call
        /\ stage' = IF found = "none" THEN to ELSE "refused"
        /\ plan' = IF found = "none" THEN next ELSE plan
    BY DEF Stage
  <1>2. IsSession' = IsSession
    BY <1>1, SameCall
  <1>3. (stage' # "run" => CallKnown') /\ DOMAIN plan = PlanFields
    BY <1>1 DEF PlannedInv, CallKnown
  <1>4. CASE found = "none"
    <2>1. stage' = to /\ plan' = next
      BY <1>1, <1>4
    <2>2. IF IsSession THEN SessionPlanned' ELSE TurnPlan'
      BY <1>4, <2>1
    <2>3. DOMAIN plan' = PlanFields
      BY <1>4, <2>1
    <2> QED BY <1>2, <1>3, <2>1, <2>2, <2>3 DEF PlannedInv, CallKnown
  <1>5. CASE found # "none"
    <2>1. stage' = "refused" /\ plan' = plan
      BY <1>1, <1>5
    <2> QED BY <1>2, <1>3, <2>1 DEF PlannedInv, CallKnown, TurnOnly, SessionOnly
  <1> QED BY <1>4, <1>5

(* What a stage of a turn may count on.                                    *)
LEMMA TurnHas ==
  ASSUME PlannedInv, stage \in TurnOnly
  PROVE  ~IsSession /\ TurnPlan /\ CallKnown /\ DOMAIN plan = PlanFields
  BY DEF PlannedInv, TurnOnly, CallKnown

LEMMA SessionHas ==
  ASSUME PlannedInv, stage \in SessionOnly
  PROVE  IsSession /\ SessionPlanned /\ CallKnown /\ DOMAIN plan = PlanFields
  BY DEF PlannedInv, SessionOnly, CallKnown

LEMMA EarlyPlans == PlannedInv /\ (Parse \/ ReadPrompt \/ ParseOptions) => PlannedInv'
  <1> SUFFICES ASSUME PlannedInv, Parse \/ ReadPrompt \/ ParseOptions PROVE PlannedInv'
    OBVIOUS
  <1>1. ASSUME NEW from \in {"parse", "prompt", "options"}, NEW to \in {"prompt", "options", "skills"},
               NEW found, NEW touched, Stage(from, to, found, plan, touched)
        PROVE  PlannedInv'
    <2>1. stage = from
      BY <1>1 DEF Stage
    <2>2. ~IsSession /\ DOMAIN plan = PlanFields
      BY <2>1, TurnHas DEF TurnOnly
    <2>3. stage' = to => TurnPlan'
      BY DEF TurnPlan
    <2> QED BY <1>1, <2>2, <2>3, StagePlans DEF TurnOnly, SessionOnly
  <1>2. CASE Parse
    <2> DEFINE found == FirstIssue(<< InjectionIssue, FlagsIssue >>)
    <2>1. Stage("parse", "prompt", found, plan, <<>>)
      BY <1>2 DEF Parse
    <2> HIDE DEF found
    <2> QED BY <1>1, <2>1
  <1>3. CASE ReadPrompt
    <2>1. PICK here \in BOOLEAN :
            LET one == Cardinality(PromptSources) = 1 IN
            Stage("prompt", "options", InvalidIf(~one \/ ~here), plan,
                  IF one /\ Tagged("--prompt-file")
                  THEN << IF Tagged("stdin") THEN "stdin" ELSE "prompt-file" >> ELSE <<>>)
      BY <1>3 DEF ReadPrompt
    <2> DEFINE one == Cardinality(PromptSources) = 1
               why == InvalidIf(~one \/ ~here)
               read == IF one /\ Tagged("--prompt-file")
                       THEN << IF Tagged("stdin") THEN "stdin" ELSE "prompt-file" >> ELSE <<>>
    <2>2. Stage("prompt", "options", why, plan, read)
      BY <2>1
    <2> HIDE DEF why, read
    <2> QED BY <1>1, <2>2
  <1>4. CASE ParseOptions
    <2> DEFINE found == ContinuationIssue
    <2>1. Stage("options", "skills", found, plan, <<>>)
      BY <1>4 DEF ParseOptions
    <2> HIDE DEF found
    <2> QED BY <1>1, <2>1
  <1> QED BY <1>2, <1>3, <1>4

LEMMA SkillsPlan == PlannedInv /\ ResolveSkills => PlannedInv'
  <1> SUFFICES ASSUME PlannedInv, ResolveSkills PROVE PlannedInv'
    OBVIOUS
  <1> DEFINE args == Without(call.args, {"skillNames", "timeout", "passthrough"})
             options == IF SkillNames = {} THEN args ELSE Layers(<< args, Only("skills", SkillNames) >>)
             next == [plan EXCEPT !.options = options]
             read == IF SkillNames = {} THEN <<>> ELSE << "registry" >>
             found == SkillNamesIssue
  <1>1. Stage("skills", "files", found, next, read)
    BY Zenon DEF ResolveSkills
  <1>2. options = Own
    BY Zenon DEF Own
  <1> HIDE DEF options, found, read
  <1>3. stage = "skills" /\ call' = call
    BY <1>1 DEF Stage
  <1>4. ~IsSession /\ DOMAIN plan = PlanFields
    BY <1>3, TurnHas DEF TurnOnly
  <1>5. DOMAIN next = PlanFields /\ next.options = options
    BY <1>4 DEF PlanFields
  <1> HIDE DEF next
  <1>6. stage' = "files" /\ plan' = next => TurnPlan'
    BY <1>2, <1>3, <1>5, SameCall DEF TurnPlan
  <1> QED BY <1>1, <1>4, <1>5, <1>6, StagePlans DEF TurnOnly, SessionOnly

LEMMA FilesPlan == PlannedInv /\ (CheckExtensions \/ LoadConfig) => PlannedInv'
  <1> SUFFICES ASSUME PlannedInv, CheckExtensions \/ LoadConfig PROVE PlannedInv'
    OBVIOUS
  <1>1. ASSUME NEW from \in {"files", "config"}, NEW to \in {"config", "resolve"}, NEW found, NEW touched,
               Stage(from, to, found, plan, touched),
               to = "resolve" /\ found = "none" => FilesKnown
        PROVE  PlannedInv'
    <2>1. stage = from /\ call' = call
      BY <1>1 DEF Stage
    <2>2. ~IsSession /\ DOMAIN plan = PlanFields /\ plan.options = Own
      BY <2>1, TurnHas DEF TurnOnly, TurnPlan
    <2>3. found = "none" /\ stage' = to /\ plan' = plan => TurnPlan'
      BY <1>1, <2>1, <2>2, SameCall DEF TurnPlan
    <2> QED BY <1>1, <2>2, <2>3, StagePlans DEF TurnOnly, SessionOnly
  <1>2. CASE CheckExtensions
    <2> DEFINE paths == IF Given(call.args, "extensions") THEN call.args.extensions ELSE {}
               found == InvalidIf(~(paths \subseteq RegularFiles))
               read == IF paths = {} THEN <<>> ELSE << "extension files" >>
    <2>1. Stage("files", "config", found, plan, read)
      BY <1>2, Zenon DEF CheckExtensions
    <2> HIDE DEF found, read
    <2> QED BY <1>1, <2>1
  <1>3. CASE LoadConfig
    <2> DEFINE found == ConfigFilesIssue
               read == << "config" >>
    <2>1. Stage("config", "resolve", found, plan, read)
      BY <1>3 DEF LoadConfig
    <2>2. found = "none" => FilesKnown
      BY FilesRead
    <2> HIDE DEF found, read
    <2> QED BY <1>1, <2>1, <2>2
  <1> QED BY <1>2, <1>3

LEMMA TiersPlan == PlannedInv /\ ResolveTiers => PlannedInv'
  <1> SUFFICES ASSUME PlannedInv, ResolveTiers PROVE PlannedInv'
    OBVIOUS
  <1> DEFINE args == plan.options
             dir == LaunchDir(call.h, call.user, call.inherited, call.env)
             map == ToolMapOption(call.user, call.project)
             withMap == IF Grants \intersect DOMAIN args = {} THEN args ELSE Layers(<< args, map >>)
             found == IF Resuming THEN "none"
                      ELSE ResolveIssue(call.h, args, call.user, call.project)
             resolved == Resolved(call.h, args, call.user, call.project)
             options == IF Resuming THEN withMap ELSE resolved
             dims == IF Resuming THEN {} ELSE Unrenderable(call.h, args, call.user, call.project)
             next == [plan EXCEPT !.options = options, !.unrenderable = dims, !.dir = dir]
  <1>1. Stage("resolve", "model", found, next, <<>>)
    BY Zenon DEF ResolveTiers
  <1>2. stage = "resolve" /\ call' = call
    <2> HIDE DEF found, next
    <2> QED BY <1>1 DEF Stage
  <1>3. ~IsSession /\ DOMAIN plan = PlanFields /\ args = Own /\ FilesKnown
    BY <1>2, TurnHas DEF TurnOnly, TurnPlan
  <1>4. options = Tiered
    <2>1. withMap = WithMap
      BY <1>3, Zenon DEF WithMap
    <2>2. resolved = Resolved(call.h, Own, call.user, call.project)
      BY <1>3
    <2> HIDE DEF withMap, resolved
    <2> QED BY <2>1, <2>2, Zenon DEF Tiered
  <1>5. found = "none" => TiersPassed
    BY <1>3 DEF TiersPassed
  <1> HIDE DEF options, dims, dir, found
  <1>6. DOMAIN next = PlanFields /\ next.options = options
    BY <1>3 DEF PlanFields
  <1> HIDE DEF next
  <1>7. found = "none" /\ stage' = "model" /\ plan' = next => TurnPlan'
    BY <1>2, <1>4, <1>5, <1>6, SameCall DEF TurnPlan
  <1> QED BY <1>1, <1>3, <1>6, <1>7, StagePlans DEF TurnOnly, SessionOnly

LEMMA ModelPlan == PlannedInv /\ ResolveModel => PlannedInv'
  <1> SUFFICES ASSUME PlannedInv, ResolveModel PROVE PlannedInv'
    OBVIOUS
  <1> DEFINE options == plan.options
             model == ModelIn(options)
             effort == EffortGiven
             applies == Renamed(options)
             found == IF applies THEN EffortSlugIssue(model, effort) ELSE "none"
             put == Layers(<< Only("model", EffortSlug(model, effort)), options >>)
             next == IF applies THEN [plan EXCEPT !.options = put] ELSE plan
  <1>1. Stage("model", "argv", found, next, <<>>)
    BY Zenon DEF ResolveModel, ModelIn, EffortGiven, Renamed
  <1>2. stage = "model" /\ call' = call
    <2> HIDE DEF found, next
    <2> QED BY <1>1 DEF Stage
  <1>3. ~IsSession /\ DOMAIN plan = PlanFields /\ options = Tiered /\ TiersPassed
    BY <1>2, TurnHas DEF TurnOnly, TurnPlan
  <1>4. DOMAIN next = PlanFields /\ next.options = Slugged(options)
    <2>1. CASE applies
      <3>1. next = [plan EXCEPT !.options = put] /\ Slugged(options) = put
        BY <2>1 DEF Slugged
      <3> HIDE DEF put, next
      <3> QED BY <1>3, <3>1 DEF PlanFields
    <2>2. CASE ~applies
      <3>1. next = plan /\ Slugged(options) = options
        BY <2>2 DEF Slugged
      <3> QED BY <1>3, <3>1
    <2> QED BY <2>1, <2>2
  <1>5. Slugged(options) = Slugged(Tiered)
    BY <1>3
  <1> HIDE DEF next, found
  <1>6. stage' = "argv" /\ plan' = next => TurnPlan'
    <2> DEFINE named == Slugged(Tiered)
    <2>1. named' = named /\ next.options = named
      BY <1>2, <1>4, <1>5, SameCall
    <2> HIDE DEF named
    <2>2. TiersPassed'
      BY <1>2, <1>3, SameCall
    <2>3. stage' = "argv" /\ plan' = next => plan'.options = named'
      BY <2>1
    <2> QED BY <2>2, <2>3 DEF TurnPlan, named
  <1> QED BY <1>1, <1>3, <1>4, <1>6, StagePlans DEF TurnOnly, SessionOnly

\* A plan whose command line was made, from the options that were composed.
LEMMA MadePlan ==
  ASSUME PlannedInv, stage = "argv", call' = call, NEW next, NEW found, NEW touched,
         Stage("argv", "probe", found, next, touched),
         found = "none" =>
           /\ DOMAIN next = PlanFields /\ next.options = Continuing(plan.options)
           /\ \/ next.argv = NoArgv /\ NativeApprovals(call.h)
              \/ /\ SpawnIssue(call.h, next.options) = "none"
                 /\ \E saved \in BOOLEAN : /\ next.argv = SpawnArgv(call.h, next.options, saved)
                                           /\ saved => Unstated(next.options)
  PROVE  PlannedInv'
  <1>1. ~IsSession /\ DOMAIN plan = PlanFields /\ plan.options = Slugged(Tiered) /\ TiersPassed
    BY TurnHas DEF TurnOnly, TurnPlan
  <1> DEFINE full == Continuing(Slugged(Tiered))
  <1>2. full' = full /\ TiersPassed'
    BY <1>1, SameCall
  <1>3. found = "none" => next.options = full
    BY <1>1
  <1>4. ASSUME found = "none", stage' = "probe", plan' = next PROVE TurnPlan'
    <2> HIDE DEF full
    <2>1. plan'.options = full'
      BY <1>2, <1>3, <1>4
    <2>2. TurnMade(plan.options)'
      BY <1>4 DEF TurnMade
    <2> QED BY <1>2, <1>4, <2>1, <2>2 DEF TurnPlan, full
  <1> QED BY <1>1, <1>4, StagePlans DEF TurnOnly, SessionOnly

LEMMA ArgvPlan == PlannedInv /\ BuildArgv => PlannedInv'
  <1> SUFFICES ASSUME PlannedInv, BuildArgv PROVE PlannedInv'
    OBVIOUS
  <1> DEFINE o == Composed
  <1>1. o = Continuing(plan.options)
    BY Zenon DEF Composed, Continuing
  <1>2. stage = "argv" => DOMAIN plan = PlanFields
    BY DEF PlannedInv
  <1>3. CASE Tagged("fingerprint")
    <2>1. PICK answer \in Inspections : BuildFromSettings(o, answer)
      BY <1>3, Zenon DEF BuildArgv
    <2> DEFINE approvals == Tagged("native-approvals")
               early == FirstIssue(<< IF approvals THEN ApprovalsIssue(o) ELSE "none",
                                      FingerprintIssue(o) >>)
               late == FirstIssue(<< InspectionIssue(answer),
                                     IF approvals
                                     THEN IssueIf(answer # "user-reviewed", "native-settings-unavailable")
                                     ELSE SpawnIssue(call.h, o) >>)
               found == FirstIssue(<< early, late >>)
               argv == IF approvals THEN NoArgv ELSE SpawnArgv(call.h, o, TRUE)
               next == [plan EXCEPT !.options = o, !.inspected = answer, !.argv = argv]
               read == IF early = "none" THEN << "inspect" >> ELSE <<>>
    <2>2. Stage("argv", "probe", found, next, read)
      BY <2>1, Zenon DEF BuildFromSettings
    <2>3. stage = "argv" /\ call' = call
      <3> HIDE DEF found, next, read
      <3> QED BY <2>2 DEF Stage
    <2>4. ASSUME found = "none"
          PROVE  \/ argv = NoArgv /\ NativeApprovals(call.h)
                 \/ /\ SpawnIssue(call.h, o) = "none" /\ argv = SpawnArgv(call.h, o, TRUE)
                    /\ Unstated(o)
      <3>1. early = "none" /\ late = "none"
        <4> HIDE DEF early, late
        <4> QED BY <2>4, NoneOfTwo DEF found
      <3>2. approvals => ApprovalsIssue(o) = "none"
        <4> HIDE DEF o
        <4> QED BY <3>1, NoneOfTwo DEF early
      <3>3. ~approvals => SpawnIssue(call.h, o) = "none"
        <4> HIDE DEF o
        <4> QED BY <3>1, NoneOfTwo DEF late
      <3>4. ApprovalsIssue(o) = "none" => NativeApprovals(call.h)
        <4> HIDE DEF o
        <4> QED BY DEF ApprovalsIssue, InvalidIf, IssueIf
      <3>5. FingerprintIssue(o) = "none"
        <4> HIDE DEF o
        <4> QED BY <3>1, NoneOfTwo DEF early
      <3>6. Unstated(o)
        <4> HIDE DEF o
        <4> QED BY <3>5 DEF FingerprintIssue, InvalidIf, IssueIf, Unstated
      <3> HIDE DEF o
      <3> QED BY <3>2, <3>3, <3>4, <3>6
    <2> HIDE DEF o, argv
    <2>5. DOMAIN next = PlanFields /\ next.options = o /\ next.argv = argv
      BY <1>2, <2>3 DEF PlanFields
    <2>6. found = "none" =>
           /\ DOMAIN next = PlanFields /\ next.options = Continuing(plan.options)
           /\ \/ next.argv = NoArgv /\ NativeApprovals(call.h)
              \/ /\ SpawnIssue(call.h, next.options) = "none"
                 /\ \E saved \in BOOLEAN : /\ next.argv = SpawnArgv(call.h, next.options, saved)
                                           /\ saved => Unstated(next.options)
      <3> HIDE DEF found, next
      <3> QED BY <1>1, <2>4, <2>5
    <2> HIDE DEF found, next, read
    <2> QED BY <2>2, <2>3, <2>6, MadePlan
  <1>4. CASE ~Tagged("fingerprint")
    <2> DEFINE argv == SpawnArgv(call.h, o, FALSE)
               found == SpawnIssue(call.h, o)
               next == [plan EXCEPT !.options = o, !.argv = argv]
    <2>1. Stage("argv", "probe", found, next, <<>>)
      BY <1>4, Zenon DEF BuildArgv
    <2>2. stage = "argv" /\ call' = call
      <3> HIDE DEF found, next
      <3> QED BY <2>1 DEF Stage
    <2> HIDE DEF o
    <2>3. argv = SpawnArgv(call.h, o, FALSE)
      OBVIOUS
    <2> HIDE DEF argv
    <2>4. DOMAIN next = PlanFields /\ next.options = o /\ next.argv = argv
      BY <1>2, <2>2 DEF PlanFields
    <2> HIDE DEF next
    <2>5. found = "none" =>
           /\ DOMAIN next = PlanFields /\ next.options = Continuing(plan.options)
           /\ \/ next.argv = NoArgv /\ NativeApprovals(call.h)
              \/ /\ SpawnIssue(call.h, next.options) = "none"
                 /\ \E saved \in BOOLEAN : /\ next.argv = SpawnArgv(call.h, next.options, saved)
                                           /\ saved => Unstated(next.options)
      BY <1>1, <2>3, <2>4
    <2> HIDE DEF found
    <2> QED BY <2>1, <2>2, <2>5, MadePlan
  <1> QED BY <1>3, <1>4

LEMMA ProbePlan == PlannedInv /\ ProbeOptions => PlannedInv'
  <1> SUFFICES ASSUME PlannedInv, ProbeOptions PROVE PlannedInv'
    OBVIOUS
  <1> DEFINE read == IF Probed = {} THEN <<>> ELSE << "probe" >>
  <1>1. PICK present \in BOOLEAN :
          Stage("probe", "planned", IssueIf(~present, "extension-option-unavailable"), plan, read)
    BY Zenon DEF ProbeOptions
  <1> DEFINE found == IssueIf(~present, "extension-option-unavailable")
  <1> HIDE DEF found, read
  <1>2. stage = "probe" /\ call' = call
    BY <1>1 DEF Stage, found
  <1>3. DOMAIN plan = PlanFields /\ IF IsSession THEN SessionPlanned ELSE TurnPlan
    BY <1>2 DEF PlannedInv
  <1>4. ASSUME ~IsSession, stage' = "planned", plan' = plan PROVE TurnPlan'
    <2>1. plan.options = Continuing(Slugged(Tiered)) /\ TiersPassed /\ TurnMade(plan.options)
      BY <1>2, <1>3, <1>4 DEF TurnPlan
    <2>2. (Continuing(Slugged(Tiered)))' = Continuing(Slugged(Tiered)) /\ TiersPassed'
      BY <1>2, <2>1, SameCall
    <2>3. TurnMade(plan.options)'
      BY <1>2, <1>4, <2>1 DEF TurnMade
    <2> DEFINE full == Continuing(Slugged(Tiered))
    <2>4. plan'.options = full'
      BY <1>4, <2>1, <2>2
    <2> HIDE DEF full
    <2> QED BY <1>4, <2>2, <2>3, <2>4 DEF TurnPlan, full
  <1>5. ASSUME IsSession, stage' = "planned", plan' = plan PROVE SessionPlanned'
    <2>1. SessionPlanned
      BY <1>3, <1>5
    <2>2. (SessionFull(plan.store))' = SessionFull(plan.store)
      BY <1>2, <1>5, SameCall DEF SessionFull
    <2>3. StoreSays' = StoreSays
      BY <1>2, <1>5 DEF StoreSays, NamesResume, Tagged
    <2> DEFINE full == SessionFull(plan.store)
               argv == SessionArgv(call.h, plan.options)
    <2>4. plan.options = full /\ StoreSays /\ ~Given(call.args, "isolation")
          /\ SessionIssue(call.h, plan.options) = "none" /\ plan.argv = argv
      BY <1>2, <2>1 DEF SessionPlanned
    <2>5. argv' = argv
      BY <1>2, <1>5
    <2>6. plan'.options = full' /\ SessionIssue(call'.h, plan'.options) = "none" /\ plan'.argv = argv'
      BY <1>2, <1>5, <2>2, <2>4, <2>5
    <2> HIDE DEF full, argv
    <2> QED BY <1>2, <1>5, <2>3, <2>4, <2>6 DEF SessionPlanned, full, argv
  <1> QED BY <1>1, <1>3, <1>4, <1>5, StagePlans DEF TurnOnly, SessionOnly

LEMMA FreshSession == PlannedInv /\ SessionFlags => PlannedInv'
  <1> SUFFICES ASSUME PlannedInv, SessionFlags PROVE PlannedInv'
    OBVIOUS
  <1> DEFINE found == SessionFlagsIssue
  <1>1. Stage("session", "session skills", found, plan, <<>>)
    BY DEF SessionFlags
  <1>2. stage = "session" /\ call' = call
    <2> HIDE DEF found
    <2> QED BY <1>1 DEF Stage
  <1>3. IsSession /\ DOMAIN plan = PlanFields /\ plan.options = <<>>
    BY <1>2, SessionHas DEF SessionOnly, SessionPlanned
  <1>4. found = "none" => ~Given(call.args, "isolation")
    <2> DEFINE issues == <<
        InvalidIf(Given(call.args, "passthrough")),
        IssueIf(call.h \notin SessionHarnesses, "no-session-mode"),
        InvalidIf(\/ Tagged("unknown-flag") \/ Tagged("memory-twice")
                  \/ Tagged("dashed") /\ Tagged("positional")
                  \/ Tagged("fingerprint")),
        InvalidIf(Tagged("native-approvals") /\ ~Tagged("json")),
        IssueIf(Tagged("native-approvals") /\ call.h \notin DOMAIN SessionApprovals,
                "unsupported-option"),
        InvalidIf(call.last),
        InvalidIf(RunOnly \intersect DOMAIN call.args # {}),
        InvalidIf(call.env # "unset" \/ Tagged("bad-env")),
        InvalidIf(Given(call.args, "isolation")) >>
    <2>1. found = FirstIssue(issues)
      BY Zenon DEF SessionFlagsIssue
    <2>2. DOMAIN issues \subseteq Nat /\ 9 \in DOMAIN issues
      OBVIOUS
    <2>3. issues[9] = InvalidIf(Given(call.args, "isolation"))
      OBVIOUS
    <2> HIDE DEF issues, found
    <2>4. found = "none" => issues[9] = "none"
      BY <2>1, <2>2, NothingFound
    <2> QED BY <2>3, <2>4 DEF InvalidIf, IssueIf
  <1> HIDE DEF found
  <1>5. found = "none" /\ stage' = "session skills" /\ plan' = plan => SessionPlanned'
    BY <1>2, <1>3, <1>4 DEF SessionPlanned
  <1> QED BY <1>1, <1>3, <1>5, StagePlans DEF TurnOnly, SessionOnly

LEMMA SessionSkilled == PlannedInv /\ SessionSkills => PlannedInv'
  <1> SUFFICES ASSUME PlannedInv, SessionSkills PROVE PlannedInv'
    OBVIOUS
  <1> DEFINE options == IF SkillNames = {} THEN <<>> ELSE Only("skills", SkillNames)
             next == [plan EXCEPT !.options = options]
             read == IF SkillNames = {} THEN <<>> ELSE << "registry" >>
             found == SkillNamesIssue
  <1>1. Stage("session skills", "session id", found, next, read)
    BY Zenon DEF SessionSkills
  <1>2. options = Chosen
    BY Zenon DEF Chosen
  <1> HIDE DEF options, found, read
  <1>3. stage = "session skills" /\ call' = call
    BY <1>1 DEF Stage
  <1>4. IsSession /\ DOMAIN plan = PlanFields /\ ~Given(call.args, "isolation")
    BY <1>3, SessionHas DEF SessionOnly, SessionPlanned
  <1>5. DOMAIN next = PlanFields /\ next.options = options
    BY <1>4 DEF PlanFields
  <1> HIDE DEF next
  <1>6. stage' = "session id" /\ plan' = next => SessionPlanned'
    BY <1>2, <1>3, <1>4, <1>5, SameCall DEF SessionPlanned
  <1> QED BY <1>1, <1>4, <1>5, <1>6, StagePlans DEF TurnOnly, SessionOnly

LEMMA SessionRead == PlannedInv /\ (SessionId \/ SessionConfig) => PlannedInv'
  <1> SUFFICES ASSUME PlannedInv, SessionId \/ SessionConfig PROVE PlannedInv'
    OBVIOUS
  <1>1. ASSUME NEW from \in {"session id", "session config"},
               NEW to \in {"session config", "session options"}, NEW found, NEW touched,
               Stage(from, to, found, plan, touched)
        PROVE  PlannedInv'
    <2>1. stage = from /\ call' = call
      BY <1>1 DEF Stage
    <2>2. IsSession /\ DOMAIN plan = PlanFields /\ plan.options = Chosen /\ ~Given(call.args, "isolation")
      BY <2>1, SessionHas DEF SessionOnly, SessionPlanned
    <2>3. stage' = to /\ plan' = plan => SessionPlanned'
      BY <2>1, <2>2, SameCall DEF SessionPlanned
    <2> QED BY <1>1, <2>2, <2>3, StagePlans DEF TurnOnly, SessionOnly
  <1>2. CASE SessionId
    <2> DEFINE found == FirstIssue(<< ExclusiveIf(Tagged("two-ids")),
                                      InvalidIf(call.resume \notin UsableIds \union {""}) >>)
    <2>1. Stage("session id", "session config", found, plan, <<>>)
      BY <1>2 DEF SessionId
    <2> HIDE DEF found
    <2> QED BY <1>1, <2>1
  <1>3. CASE SessionConfig
    <2> DEFINE found == ConfigFilesIssue
               read == << "config" >>
    <2>1. Stage("session config", "session options", found, plan, read)
      BY <1>3 DEF SessionConfig
    <2> HIDE DEF found, read
    <2> QED BY <1>1, <2>1
  <1> QED BY <1>2, <1>3

LEMMA SessionTiers == PlannedInv /\ SessionOptions => PlannedInv'
  <1> SUFFICES ASSUME PlannedInv, SessionOptions PROVE PlannedInv'
    OBVIOUS
  <1> DEFINE args == Narrowed(SessionArgs)
             granted == SessionPermissionKeys \intersect DOMAIN args # {}
             own == plan.options
             map == IF granted THEN ToolMapOption(call.user, call.project) ELSE <<>>
             memory == IF "memory" \in DOMAIN OptionsOf[call.h] THEN Only("memory", SessionMemory) ELSE <<>>
             armed == IF Tagged("native-approvals") THEN Only("nativeApprovals", TRUE) ELSE <<>>
             dir == LaunchDir(call.h, call.user, call.inherited, "unset")
             options == Layers(<< own, args, map, memory, armed >>)
             next == [plan EXCEPT !.options = options, !.dir = dir]
  <1>1. Stage("session options", "session store", "none", next, <<>>)
    BY Zenon DEF SessionOptions
  <1>2. stage = "session options" /\ call' = call
    <2> HIDE DEF next
    <2> QED BY <1>1 DEF Stage
  <1>3. IsSession /\ DOMAIN plan = PlanFields /\ own = Chosen /\ ~Given(call.args, "isolation")
    BY <1>2, SessionHas DEF SessionOnly, SessionPlanned
  <1>4. options = SessionTiered
    <2>1. SessionTiered = Layers(<< Chosen, args, map, memory, armed >>)
      BY Zenon DEF SessionTiered
    <2> HIDE DEF args, map, memory, armed, own
    <2> QED BY <1>3, <2>1
  <1> HIDE DEF options, dir
  <1>5. DOMAIN next = PlanFields /\ next.options = options
    BY <1>3 DEF PlanFields
  <1> HIDE DEF next
  <1>6. stage' = "session store" /\ plan' = next => SessionPlanned'
    BY <1>2, <1>3, <1>4, <1>5, SameCall DEF SessionPlanned
  <1> QED BY <1>1, <1>3, <1>5, <1>6, StagePlans DEF TurnOnly, SessionOnly

LEMMA SessionStored == PlannedInv /\ SessionStore => PlannedInv'
  <1> SUFFICES ASSUME PlannedInv, SessionStore PROVE PlannedInv'
    OBVIOUS
  <1>1. PICK store \in IF call.resume = "" THEN {"skipped"} ELSE {"found", "missing"} :
          Stage("session store", "session argv",
                InvalidIf(NamesResume /\ store = "missing"),
                [plan EXCEPT
                   !.store = store,
                   !.options = Layers(<< @, Only("isResume", store = "found"),
                     Only("sessionId", IF call.resume = "" THEN "minted" ELSE call.resume) >>)],
                IF store = "skipped" THEN <<>> ELSE << "store" >>)
    BY Zenon DEF SessionStore
  <1> DEFINE own == plan.options
             options == Layers(<< own, Only("isResume", store = "found"),
                                  Only("sessionId", IF call.resume = "" THEN "minted" ELSE call.resume) >>)
             next == [plan EXCEPT !.store = store, !.options = options]
             found == InvalidIf(NamesResume /\ store = "missing")
             read == IF store = "skipped" THEN <<>> ELSE << "store" >>
  <1>2. Stage("session store", "session argv", found, next, read)
    BY <1>1
  <1>3. stage = "session store" /\ call' = call
    <2> HIDE DEF next, found, read
    <2> QED BY <1>2 DEF Stage
  <1>4. IsSession /\ DOMAIN plan = PlanFields /\ own = SessionTiered /\ ~Given(call.args, "isolation")
    BY <1>3, SessionHas DEF SessionOnly, SessionPlanned
  <1>5. options = SessionFull(store)
    <2>1. SessionFull(store) =
            Layers(<< SessionTiered, Only("isResume", store = "found"),
                      Only("sessionId", IF call.resume = "" THEN "minted" ELSE call.resume) >>)
      BY Zenon DEF SessionFull
    <2> HIDE DEF own
    <2> QED BY <1>4, <2>1
  <1> HIDE DEF options
  <1>6. DOMAIN next = PlanFields /\ next.options = options /\ next.store = store
    BY <1>4 DEF PlanFields
  <1>7. found = "none" => /\ call.resume = "" => store = "skipped"
                          /\ NamesResume => store = "found"
    <2>1. NamesResume => store \in {"found", "missing"}
      BY DEF NamesResume
    <2> QED BY <2>1 DEF InvalidIf, IssueIf
  <1> HIDE DEF next, found, read
  <1>8. ASSUME found = "none", stage' = "session argv", plan' = next PROVE SessionPlanned'
    <2>1. NamesResume' = NamesResume
      BY <1>3 DEF NamesResume, Tagged
    <2>2. StoreSays'
      BY <1>3, <1>6, <1>7, <1>8, <2>1 DEF StoreSays
    <2>3. SessionTiered' = SessionTiered
      BY <1>3, SameCall
    <2>4. (SessionFull(plan.store))' = SessionFull(store)
      BY <1>3, <1>6, <1>8, <2>3 DEF SessionFull
    <2> DEFINE full == SessionFull(plan.store)
    <2>5. plan'.options = full'
      BY <1>5, <1>6, <1>8, <2>4
    <2> HIDE DEF full
    <2> QED BY <1>3, <1>4, <1>8, <2>2, <2>5 DEF SessionPlanned, full
  <1> QED BY <1>2, <1>4, <1>6, <1>8, StagePlans DEF TurnOnly, SessionOnly

LEMMA SessionBuilt == PlannedInv /\ BuildSession => PlannedInv'
  <1> SUFFICES ASSUME PlannedInv, BuildSession PROVE PlannedInv'
    OBVIOUS
  <1> DEFINE argv == SessionArgv(call.h, plan.options)
             found == FirstIssue(<< InvalidIf(Tagged("bad-stall")), SessionIssue(call.h, plan.options) >>)
             next == [plan EXCEPT !.argv = argv]
  <1>1. Stage("session argv", "probe", found, next, <<>>)
    BY Zenon DEF BuildSession
  <1>2. stage = "session argv" /\ call' = call
    <2> HIDE DEF next, found
    <2> QED BY <1>1 DEF Stage
  <1> DEFINE full == SessionFull(plan.store)
  <1>3. IsSession /\ DOMAIN plan = PlanFields /\ plan.options = full /\ StoreSays
        /\ ~Given(call.args, "isolation")
    BY <1>2, SessionHas DEF SessionOnly, SessionPlanned
  <1>4. found = "none" => SessionIssue(call.h, plan.options) = "none"
    <2> DEFINE first == InvalidIf(Tagged("bad-stall"))
               second == SessionIssue(call.h, plan.options)
    <2>1. found = FirstIssue(<< first, second >>)
      OBVIOUS
    <2> HIDE DEF first, second, found
    <2>2. found = "none" => second = "none"
      BY <2>1, NoneOfTwo
    <2> QED BY <2>2 DEF second
  <1> HIDE DEF found, argv
  <1>5. DOMAIN next = PlanFields /\ next.options = plan.options /\ next.store = plan.store /\ next.argv = argv
    BY <1>3 DEF PlanFields
  <1> HIDE DEF next
  <1>6. ASSUME found = "none", stage' = "probe", plan' = next PROVE SessionPlanned'
    <2>1. plan'.options = plan.options /\ plan'.store = plan.store /\ plan'.argv = argv
      BY <1>5, <1>6
    <2>2. argv' = argv
      BY <1>2, <2>1 DEF argv
    <2>3. full' = full
      <3>1. SessionTiered' = SessionTiered
        BY <1>2, SameCall
      <3> QED BY <1>2, <2>1, <3>1 DEF SessionFull
    <2>4. StoreSays'
      BY <1>2, <1>3, <2>1 DEF StoreSays, NamesResume, Tagged
    <2>5. plan'.options = full' /\ SessionIssue(call'.h, plan'.options) = "none" /\ plan'.argv = argv'
      BY <1>2, <1>3, <1>4, <1>6, <2>1, <2>2, <2>3
    <2> HIDE DEF full
    <2> QED BY <1>2, <1>3, <1>6, <2>4, <2>5 DEF SessionPlanned, full, argv
  <1> HIDE DEF full
  <1> QED BY <1>1, <1>3, <1>5, <1>6, StagePlans DEF TurnOnly, SessionOnly

LEMMA PlanStarts == Init => PlannedInv
  <1> SUFFICES ASSUME Init PROVE PlannedInv
    OBVIOUS
  <1>1. PICK group \in DOMAIN Samples : \E sample \in Samples[group] : call = CallOf(sample)
    BY DEF Init, PlanInit
  <1>2. PICK sample \in Samples[group] : call = CallOf(sample)
    BY <1>1
  <1>3. CallKnown
    BY <1>2, CallsAssumption DEF CallKnown
  <1>4. stage = (IF IsSession THEN "session" ELSE "parse") /\ plan = NoPlan
    BY DEF Init, PlanInit, IsSession
  <1>5. DOMAIN plan = PlanFields /\ plan.options = <<>>
    BY <1>4 DEF NoPlan, PlanFields
  <1> QED BY <1>3, <1>4, <1>5 DEF PlannedInv, CallKnown, TurnOnly, SessionOnly, SessionPlanned, TurnPlan

LEMMA PlanKept == PlannedInv /\ [Next]_vars => PlannedInv'
  <1> SUFFICES ASSUME PlannedInv, [Next]_vars PROVE PlannedInv'
    OBVIOUS
  <1>1. ASSUME call' = call, stage' = stage, plan' = plan PROVE PlannedInv'
    <2> DEFINE full == Continuing(Slugged(Tiered))
               named == Slugged(Tiered)
               whole == SessionFull(plan.store)
               argv == SessionArgv(call.h, plan.options)
    <2>1. /\ Own' = Own /\ Tiered' = Tiered /\ named' = named /\ full' = full
          /\ Chosen' = Chosen /\ SessionTiered' = SessionTiered
          /\ TiersPassed' = TiersPassed /\ FilesKnown' = FilesKnown /\ IsSession' = IsSession
      BY <1>1, SameCall
    <2>2. whole' = whole
      BY <1>1, <2>1 DEF SessionFull
    <2>3. StoreSays' = StoreSays
      BY <1>1 DEF StoreSays, NamesResume, Tagged
    <2>4. TurnMade(plan.options)' = TurnMade(plan.options)
      BY <1>1 DEF TurnMade
    <2>5. argv' = argv
      BY <1>1
    <2> HIDE DEF full, named, whole, argv
    <2>6. SessionPlanned' = SessionPlanned
      BY <1>1, <2>1, <2>2, <2>3, <2>5 DEF SessionPlanned, whole, argv
    <2>7. TurnPlan' = TurnPlan
      BY <1>1, <2>1, <2>4 DEF TurnPlan, full, named
    <2> QED BY <1>1, <2>1, <2>6, <2>7 DEF PlannedInv
  <1>2. CASE Planning
    <2>1. PlanNext \/ SessionPlanNext
      BY <1>2 DEF Planning
    <2> QED BY <2>1, EarlyPlans, SkillsPlan, FilesPlan, TiersPlan, ModelPlan, ArgvPlan, ProbePlan,
               FreshSession, SessionSkilled, SessionRead, SessionTiers, SessionStored, SessionBuilt
            DEF PlanNext, SessionPlanNext
  <1>3. CASE Planned
    <2>1. stage' = "run" /\ plan' = NoPlan
      BY <1>3 DEF Planned
    <2>2. DOMAIN plan' = PlanFields
      BY <2>1 DEF NoPlan, PlanFields
    <2> QED BY <2>1, <2>2 DEF PlannedInv, TurnOnly, SessionOnly
  <1>4. CASE RunNext /\ ~Planned
    <2>1. UNCHANGED planVars
      BY <1>4, Zenon DEF RunNext, PlanRefused, ResumeGuard, OpenSession, SessionSpawnThrows, TurnRefuses,
            Spawn, SpawnThrows, TurnThrows, Event, Line, Done, Finish, Signal, Escalate,
            OutputBreaks, ObserverFails
    <2> QED BY <1>1, <2>1 DEF planVars
  <1>5. CASE UNCHANGED vars
    BY <1>1, <1>5 DEF vars, planVars
  <1> QED BY <1>2, <1>3, <1>4, <1>5 DEF Next

-----------------------------------------------------------------------------
(* Tiers                                                                   *)

LEMMA LayerTells ==
  ASSUME NEW fs, DOMAIN fs \subseteq Nat, NEW i \in DOMAIN fs, NEW k \in DOMAIN fs[i],
         \A j \in DOMAIN fs : k \in DOMAIN fs[j] => i <= j
  PROVE  k \in DOMAIN Layers(fs) /\ Layers(fs)[k] = fs[i][k]
  <1>1. \A m : m \in DOMAIN Layers(fs) <=> \E n \in DOMAIN fs : m \in DOMAIN fs[n]
    BY LayersHave
  <1>2. \A n \in DOMAIN fs : \A m \in DOMAIN fs[n] :
          (\A j \in DOMAIN fs : m \in DOMAIN fs[j] => n <= j) => Layers(fs)[m] = fs[n][m]
    BY LayersHave
  <1> QED BY <1>1, <1>2

LEMMA OfTwo ==
  ASSUME NEW a, NEW b, NEW k
  PROVE  /\ k \in DOMAIN Layers(<< a, b >>) <=> k \in DOMAIN a \union DOMAIN b
         /\ k \in DOMAIN a => Layers(<< a, b >>)[k] = a[k]
         /\ k \in DOMAIN b \ DOMAIN a => Layers(<< a, b >>)[k] = b[k]
  <1> DEFINE fs == << a, b >>
  <1>1. DOMAIN fs = 1 .. 2 /\ fs[1] = a /\ fs[2] = b
    OBVIOUS
  <1>2. DOMAIN fs \subseteq Nat
    BY <1>1
  <1> HIDE DEF fs
  <1>3. \A m : m \in DOMAIN Layers(fs) <=> \E i \in DOMAIN fs : m \in DOMAIN fs[i]
    BY <1>2, LayersHave
  <1>4. k \in DOMAIN a => Layers(fs)[k] = a[k]
    BY <1>1, <1>2, LayerTells
  <1>5. k \in DOMAIN b \ DOMAIN a => Layers(fs)[k] = b[k]
    BY <1>1, <1>2, LayerTells
  <1>6. k \in DOMAIN Layers(fs) <=> k \in DOMAIN a \union DOMAIN b
    BY <1>1, <1>3
  <1> QED BY <1>4, <1>5, <1>6 DEF fs

LEMMA OfThree ==
  ASSUME NEW a, NEW b, NEW c, NEW k
  PROVE  /\ k \in DOMAIN Layers(<< a, b, c >>) <=> k \in DOMAIN a \union DOMAIN b \union DOMAIN c
         /\ k \in DOMAIN a => Layers(<< a, b, c >>)[k] = a[k]
         /\ k \in DOMAIN b \ DOMAIN a => Layers(<< a, b, c >>)[k] = b[k]
         /\ k \in DOMAIN c \ (DOMAIN a \union DOMAIN b) => Layers(<< a, b, c >>)[k] = c[k]
  <1> DEFINE fs == << a, b, c >>
  <1>1. DOMAIN fs = 1 .. 3 /\ fs[1] = a /\ fs[2] = b /\ fs[3] = c
    OBVIOUS
  <1>2. DOMAIN fs \subseteq Nat
    BY <1>1
  <1> HIDE DEF fs
  <1>3. \A m : m \in DOMAIN Layers(fs) <=> \E i \in DOMAIN fs : m \in DOMAIN fs[i]
    BY <1>2, LayersHave
  <1>4. k \in DOMAIN a => Layers(fs)[k] = a[k]
    BY <1>1, <1>2, LayerTells
  <1>5. k \in DOMAIN b \ DOMAIN a => Layers(fs)[k] = b[k]
    BY <1>1, <1>2, LayerTells
  <1>6. k \in DOMAIN c \ (DOMAIN a \union DOMAIN b) => Layers(fs)[k] = c[k]
    BY <1>1, <1>2, LayerTells
  <1>7. k \in DOMAIN Layers(fs) <=> k \in DOMAIN a \union DOMAIN b \union DOMAIN c
    BY <1>1, <1>3
  <1> QED BY <1>4, <1>5, <1>6, <1>7 DEF fs

LEMMA OfFour ==
  ASSUME NEW a, NEW b, NEW c, NEW d, NEW k
  PROVE  /\ k \in DOMAIN Layers(<< a, b, c, d >>)
              <=> k \in DOMAIN a \union DOMAIN b \union DOMAIN c \union DOMAIN d
         /\ k \in DOMAIN a => Layers(<< a, b, c, d >>)[k] = a[k]
         /\ k \in DOMAIN b \ DOMAIN a => Layers(<< a, b, c, d >>)[k] = b[k]
  <1> DEFINE fs == << a, b, c, d >>
  <1>1. DOMAIN fs = 1 .. 4 /\ fs[1] = a /\ fs[2] = b /\ fs[3] = c /\ fs[4] = d
    OBVIOUS
  <1>2. DOMAIN fs \subseteq Nat
    BY <1>1
  <1> HIDE DEF fs
  <1>3. \A m : m \in DOMAIN Layers(fs) <=> \E i \in DOMAIN fs : m \in DOMAIN fs[i]
    BY <1>2, LayersHave
  <1>4. k \in DOMAIN a => Layers(fs)[k] = a[k]
    BY <1>1, <1>2, LayerTells
  <1>5. k \in DOMAIN b \ DOMAIN a => Layers(fs)[k] = b[k]
    BY <1>1, <1>2, LayerTells
  <1>6. k \in DOMAIN Layers(fs) <=> k \in DOMAIN a \union DOMAIN b \union DOMAIN c \union DOMAIN d
    BY <1>1, <1>3
  <1> QED BY <1>4, <1>5, <1>6 DEF fs

LEMMA OfFive ==
  ASSUME NEW a, NEW b, NEW c, NEW d, NEW e, NEW k
  PROVE  /\ k \in DOMAIN Layers(<< a, b, c, d, e >>)
              <=> k \in DOMAIN a \union DOMAIN b \union DOMAIN c \union DOMAIN d \union DOMAIN e
         /\ k \in DOMAIN a => Layers(<< a, b, c, d, e >>)[k] = a[k]
         /\ k \in DOMAIN b \ DOMAIN a => Layers(<< a, b, c, d, e >>)[k] = b[k]
         /\ k \in DOMAIN e \ (DOMAIN a \union DOMAIN b \union DOMAIN c \union DOMAIN d) =>
              Layers(<< a, b, c, d, e >>)[k] = e[k]
  <1> DEFINE fs == << a, b, c, d, e >>
  <1>1. DOMAIN fs = 1 .. 5 /\ fs[1] = a /\ fs[2] = b /\ fs[3] = c /\ fs[4] = d /\ fs[5] = e
    OBVIOUS
  <1>2. DOMAIN fs \subseteq Nat
    BY <1>1
  <1> HIDE DEF fs
  <1>3. \A m : m \in DOMAIN Layers(fs) <=> \E i \in DOMAIN fs : m \in DOMAIN fs[i]
    BY <1>2, LayersHave
  <1>4. k \in DOMAIN a => Layers(fs)[k] = a[k]
    BY <1>1, <1>2, LayerTells
  <1>5. k \in DOMAIN b \ DOMAIN a => Layers(fs)[k] = b[k]
    BY <1>1, <1>2, LayerTells
  <1>6. k \in DOMAIN e \ (DOMAIN a \union DOMAIN b \union DOMAIN c \union DOMAIN d) => Layers(fs)[k] = e[k]
    BY <1>1, <1>2, LayerTells
  <1>7. k \in DOMAIN Layers(fs)
          <=> k \in DOMAIN a \union DOMAIN b \union DOMAIN c \union DOMAIN d \union DOMAIN e
    BY <1>1, <1>3
  <1> QED BY <1>4, <1>5, <1>6, <1>7 DEF fs

LEMMA OnlyHas ==
  ASSUME NEW key, NEW v
  PROVE  DOMAIN Only(key, v) = {key} /\ Only(key, v)[key] = v
  BY DEF Only

LEMMA EmptyDomain == DOMAIN << >> = {}
  OBVIOUS

\* What becomes an option of a turn's own arguments.
Beside == {"skillNames", "timeout", "passthrough"}

LEMMA OwnHas ==
  ASSUME NEW k
  PROVE  /\ k \in DOMAIN Own => \/ k \in DOMAIN call.args \ Beside
                                \/ k = "skills" /\ Given(call.args, "skillNames")
         /\ k \in DOMAIN call.args \ Beside => k \in DOMAIN Own /\ Own[k] = call.args[k]
  <1> DEFINE args == Without(call.args, {"skillNames", "timeout", "passthrough"})
             skills == Only("skills", SkillNames)
  <1>1. DOMAIN args = DOMAIN call.args \ Beside /\ \A m \in DOMAIN args : args[m] = call.args[m]
    BY DEF Without, Beside
  <1>2. DOMAIN skills = {"skills"}
    BY OnlyHas
  <1>3. SkillNames # {} => Given(call.args, "skillNames")
    BY DEF SkillNames
  <1>4. Own = IF SkillNames = {} THEN args ELSE Layers(<< args, skills >>)
    BY Zenon DEF Own
  <1> HIDE DEF args, skills
  <1>5. CASE SkillNames = {}
    <2>1. Own = args
      BY <1>4, <1>5
    <2> QED BY <1>1, <2>1
  <1>6. CASE SkillNames # {}
    <2> DEFINE both == Layers(<< args, skills >>)
    <2>1. /\ k \in DOMAIN both <=> k \in DOMAIN args \union DOMAIN skills
          /\ k \in DOMAIN args => both[k] = args[k]
      BY OfTwo
    <2>2. Own = both
      BY <1>4, <1>6
    <2> HIDE DEF both
    <2> QED BY <1>1, <1>2, <1>3, <1>6, <2>1, <2>2
  <1> QED BY <1>5, <1>6

LEMMA MapIsOne ==
  ASSUME NEW user, NEW project
  PROVE  DOMAIN ToolMapOption(user, project) \subseteq {"toolMap"}
  <1> DEFINE merged == MergedToolMap(user, project)
             map == ToolMapOption(user, project)
  <1>1. map = IF DOMAIN merged = {} THEN <<>> ELSE Only("toolMap", merged)
    BY Zenon DEF ToolMapOption
  <1>2. DOMAIN Only("toolMap", merged) = {"toolMap"}
    BY OnlyHas
  <1> HIDE DEF merged, map
  <1>3. CASE DOMAIN merged = {}
    <2>1. map = << >>
      BY <1>1, <1>3
    <2>2. DOMAIN map = {}
      BY Zenon, <2>1, EmptyDomain
    <2> QED BY <2>2 DEF map
  <1>4. CASE DOMAIN merged # {}
    <2>1. map = Only("toolMap", merged)
      BY <1>1, <1>4
    <2> QED BY <1>2, <2>1 DEF map
  <1> QED BY <1>3, <1>4

\* What the tiers make of the arguments, when a turn resumes ...
LEMMA ResumedHas ==
  ASSUME NEW k, Resuming
  PROVE  /\ k \in DOMAIN Own => k \in DOMAIN Tiered /\ Tiered[k] = Own[k]
         /\ k \in DOMAIN Tiered => k \in DOMAIN Own \/ (k = "toolMap" /\ Grants \intersect DOMAIN Own # {})
  <1> DEFINE map == ToolMapOption(call.user, call.project)
             both == Layers(<< Own, map >>)
  <1>1. Tiered = IF Grants \intersect DOMAIN Own = {} THEN Own ELSE both
    BY Zenon DEF Tiered, WithMap
  <1>2. DOMAIN map \subseteq {"toolMap"}
    BY MapIsOne
  <1>3. /\ k \in DOMAIN both <=> k \in DOMAIN Own \union DOMAIN map
        /\ k \in DOMAIN Own => both[k] = Own[k]
    <2> HIDE DEF map
    <2> QED BY OfTwo
  <1> HIDE DEF map, both
  <1>4. CASE Grants \intersect DOMAIN Own = {}
    <2>1. Tiered = Own
      BY <1>1, <1>4
    <2> QED BY <2>1
  <1>5. CASE Grants \intersect DOMAIN Own # {}
    <2>1. Tiered = both
      BY <1>1, <1>5
    <2> QED BY <1>2, <1>3, <1>5, <2>1
  <1> QED BY <1>4, <1>5

\* ... and when it is launched.
LEMMA LaunchedHas ==
  ASSUME NEW k, ~Resuming, FilesKnown
  PROVE  /\ k \in DOMAIN Own => k \in DOMAIN Tiered /\ (k # "tools" => Tiered[k] = Own[k])
         /\ k \in DOMAIN Tiered => k \in DOMAIN Own \/ k \in ConfigKeys \union ProfileKeys
  <1> DEFINE a == Expanded(Own, call.user, call.project)
             heeded == Heeded(a, call.user, call.project)
             config == Without(heeded, NotOptions)
             told == [key \in {m \in DOMAIN config : ConfigApplies(call.h, a, config, m)} |-> config[key]]
             own == [key \in {m \in ProfileKeys : ProfileApplies(call.h, a, config, m)} |-> Profile[key]]
             map == ToolMapOption(call.user, call.project)
             all == Layers(<< a, told, own, map >>)
  <1>1. Tiered = all
    BY Zenon DEF Tiered, Resolved
  <1>2. DOMAIN a = DOMAIN Own /\ \A m \in DOMAIN a : m # "tools" => a[m] = Own[m]
    BY DEF Expanded
  <1>3. DOMAIN told \subseteq ConfigKeys
    <2>1. DOMAIN heeded \subseteq DOMAIN call.user \union DOMAIN call.project
      BY TwoLayers DEF Heeded, Without, ConfigOf
    <2>2. DOMAIN config \subseteq DOMAIN heeded
      BY DEF Without
    <2> QED BY <2>1, <2>2 DEF FilesKnown
  <1>4. DOMAIN own \subseteq ProfileKeys
    OBVIOUS
  <1>5. DOMAIN map \subseteq {"toolMap"}
    BY MapIsOne
  <1> HIDE DEF a, told, own, map
  <1>6. /\ k \in DOMAIN all <=> k \in DOMAIN a \union DOMAIN told \union DOMAIN own \union DOMAIN map
        /\ k \in DOMAIN a => all[k] = a[k]
    BY OfFour
  <1>7. "toolMap" \in ConfigKeys
    BY DEF ConfigKeys
  <1> HIDE DEF all
  <1> QED BY <1>1, <1>2, <1>3, <1>4, <1>5, <1>6, <1>7

LEMMA SluggedHas ==
  ASSUME NEW o, NEW k
  PROVE  /\ k \in DOMAIN o => k \in DOMAIN Slugged(o)
         /\ k \in DOMAIN o /\ (k # "model" \/ call.h # "cursor") => Slugged(o)[k] = o[k]
         /\ k \in DOMAIN Slugged(o) \ DOMAIN o =>
              k = "model" /\ call.h = "cursor" /\ (Given(o, "model") \/ Given(call.args, "effort"))
  <1> DEFINE name == Only("model", EffortSlug(ModelIn(o), EffortGiven))
             both == Layers(<< name, o >>)
  <1>1. Slugged(o) = IF Renamed(o) THEN both ELSE o
    BY Zenon DEF Slugged
  <1>2. DOMAIN name = {"model"}
    BY OnlyHas
  <1>3. Renamed(o) => call.h = "cursor" /\ (Given(o, "model") \/ Given(call.args, "effort"))
    BY DEF Renamed, ModelIn, EffortGiven
  <1> HIDE DEF name
  <1>4. /\ k \in DOMAIN both <=> k \in DOMAIN name \union DOMAIN o
        /\ k \in DOMAIN o \ DOMAIN name => both[k] = o[k]
    BY OfTwo
  <1> HIDE DEF both
  <1> QED BY <1>1, <1>2, <1>3, <1>4

LEMMA ContinuingHas ==
  ASSUME NEW o, NEW k
  PROVE  /\ k \in DOMAIN o => k \in DOMAIN Continuing(o) /\ Continuing(o)[k] = o[k]
         /\ k \in DOMAIN Continuing(o) \ DOMAIN o =>
              \/ k = "prompt"
              \/ k = "resume" /\ call.resume # ""
              \/ k = "resumeLast" /\ call.last
              \/ k = "passthrough" /\ Given(call.args, "passthrough") /\ Continuing(o)[k] = TRUE
         /\ call.resume # "" => "resume" \in DOMAIN Continuing(o)
         /\ call.last => "resumeLast" \in DOMAIN Continuing(o)
  <1> DEFINE text == Only("prompt", [long |-> Tagged("long"), dashed |-> Tagged("dashed"),
                                  explicit |-> ExplicitPrompt])
             id == IF call.resume # "" THEN Only("resume", call.resume) ELSE <<>>
             latest == IF call.last THEN Only("resumeLast", TRUE) ELSE <<>>
             rest == IF Given(call.args, "passthrough") THEN Only("passthrough", TRUE) ELSE <<>>
             all == Layers(<< o, text, id, latest, rest >>)
  <1>1. Continuing(o) = all
    BY Zenon DEF Continuing
  <1>2. DOMAIN text = {"prompt"}
    BY OnlyHas
  <1>3. /\ DOMAIN id \subseteq {"resume"}
        /\ "resume" \in DOMAIN id <=> call.resume # ""
    <2>1. CASE call.resume # ""
      <3>1. id = Only("resume", call.resume)
        BY <2>1
      <3> HIDE DEF id
      <3> QED BY <2>1, <3>1, OnlyHas
    <2>2. CASE call.resume = ""
      <3>1. id = << >>
        BY <2>2
      <3> HIDE DEF id
      <3>2. DOMAIN id = {}
        BY Zenon, <3>1, EmptyDomain
      <3> QED BY <2>2, <3>2
    <2> QED BY <2>1, <2>2
  <1>4. /\ DOMAIN latest \subseteq {"resumeLast"}
        /\ "resumeLast" \in DOMAIN latest <=> call.last
    <2>1. CASE call.last
      <3>1. latest = Only("resumeLast", TRUE)
        BY <2>1
      <3>2. DOMAIN Only("resumeLast", TRUE) = {"resumeLast"}
        BY Zenon, OnlyHas
      <3> HIDE DEF latest
      <3> QED BY <2>1, <3>1, <3>2
    <2>2. CASE ~call.last
      <3>1. latest = << >>
        BY <2>2
      <3> HIDE DEF latest
      <3>2. DOMAIN latest = {}
        BY Zenon, <3>1, EmptyDomain
      <3> QED BY <2>2, <3>2
    <2> QED BY <2>1, <2>2
  <1>5. /\ DOMAIN rest \subseteq {"passthrough"}
        /\ "passthrough" \in DOMAIN rest => Given(call.args, "passthrough")
        /\ "passthrough" \in DOMAIN rest => rest["passthrough"] = TRUE
    <2>1. CASE Given(call.args, "passthrough")
      <3>1. rest = Only("passthrough", TRUE)
        BY <2>1
      <3>2. DOMAIN Only("passthrough", TRUE) = {"passthrough"}
            /\ Only("passthrough", TRUE)["passthrough"] = TRUE
        BY Zenon, OnlyHas
      <3> HIDE DEF rest
      <3> QED BY <2>1, <3>1, <3>2
    <2>2. CASE ~Given(call.args, "passthrough")
      <3>1. rest = << >>
        BY <2>2
      <3> HIDE DEF rest
      <3>2. DOMAIN rest = {}
        BY Zenon, <3>1, EmptyDomain
      <3> QED BY <3>2
    <2> QED BY <2>1, <2>2
  <1> HIDE DEF text, id, latest, rest
  <1>6. ASSUME NEW m
        PROVE  m \in DOMAIN all <=> m \in DOMAIN o \union DOMAIN text \union DOMAIN id
                                          \union DOMAIN latest \union DOMAIN rest
    BY OfFive
  <1>7. /\ k \in DOMAIN o => all[k] = o[k]
        /\ k \in DOMAIN rest \ (DOMAIN o \union DOMAIN text \union DOMAIN id \union DOMAIN latest) =>
             all[k] = rest[k]
    BY OfFive
  <1>8. "resume" \in DOMAIN all <=> "resume" \in DOMAIN o \union DOMAIN text \union DOMAIN id
                                          \union DOMAIN latest \union DOMAIN rest
    BY <1>6
  <1>9. "resumeLast" \in DOMAIN all <=> "resumeLast" \in DOMAIN o \union DOMAIN text \union DOMAIN id
                                          \union DOMAIN latest \union DOMAIN rest
    BY <1>6
  <1>10. k \in DOMAIN all <=> k \in DOMAIN o \union DOMAIN text \union DOMAIN id
                                          \union DOMAIN latest \union DOMAIN rest
    BY <1>6
  <1> HIDE DEF all
  <1>11. k \in DOMAIN Continuing(o) \ DOMAIN o =>
              \/ k = "prompt"
              \/ k = "resume" /\ call.resume # ""
              \/ k = "resumeLast" /\ call.last
              \/ k = "passthrough" /\ Given(call.args, "passthrough")
    BY <1>1, <1>2, <1>3, <1>4, <1>5, <1>10
  <1>12. k = "passthrough" /\ k \in DOMAIN all \ DOMAIN o => all[k] = TRUE
    BY <1>2, <1>3, <1>4, <1>5, <1>7, <1>10
  <1> QED BY <1>1, <1>3, <1>4, <1>7, <1>8, <1>9, <1>10, <1>11, <1>12

(* No lower tier replaces what an argument said.                           *)
LEMMA TiersHold == PlannedInv => TiersKeepTheirPlace
  <1> SUFFICES ASSUME PlannedInv, IsPlanned, call.command = "run" PROVE
         /\ \A key \in (DOMAIN call.args \ {"timeout"}) \intersect DOMAIN plan.options :
              \/ plan.options[key] = call.args[key]
              \/ key = "model" /\ call.h = "cursor"
              \/ key = "tools" /\ ~Resuming
         /\ Resuming =>
              DOMAIN plan.options \subseteq
                DOMAIN call.args \union {"prompt", "resume", "resumeLast"}
                  \union (IF Given(call.args, "skillNames") THEN {"skills"} ELSE {})
                  \union (IF Grants \intersect DOMAIN call.args # {} THEN {"toolMap"} ELSE {})
                  \union (IF call.h = "cursor" /\ Given(call.args, "effort")
                          THEN {"model"} ELSE {})
    BY DEF TiersKeepTheirPlace
  <1>1. ~IsSession /\ stage = "planned"
    BY DEF IsSession, IsPlanned
  <1>2. plan.options = Continuing(Slugged(Tiered)) /\ TiersPassed /\ CallKnown
    BY <1>1 DEF PlannedInv, TurnPlan, CallKnown
  <1>3. FilesKnown
    BY <1>2 DEF TiersPassed
  <1> DEFINE named == Slugged(Tiered)
             full == Continuing(named)
  <1>4. ASSUME NEW key \in DOMAIN call.args \ Beside,
               key # "model" \/ call.h # "cursor", key # "tools" \/ Resuming
        PROVE  full[key] = call.args[key]
    <2>1. key \in DOMAIN Own /\ Own[key] = call.args[key]
      BY OwnHas
    <2>2. key \in DOMAIN Tiered /\ Tiered[key] = Own[key]
      BY <1>3, <1>4, <2>1, ResumedHas, LaunchedHas
    <2>3. key \in DOMAIN named /\ named[key] = Tiered[key]
      BY <1>4, <2>2, SluggedHas
    <2> HIDE DEF named
    <2>4. full[key] = named[key]
      BY <2>3, ContinuingHas
    <2> QED BY <2>1, <2>2, <2>3, <2>4
  <1>5. ASSUME NEW key \in DOMAIN full, key \in Beside \ {"timeout"}
        PROVE  key = "passthrough" /\ Given(call.args, "passthrough") /\ full[key] = TRUE
    <2>1. key \notin DOMAIN Own
      BY <1>5, OwnHas DEF Beside
    <2>2. key \notin DOMAIN Tiered
      BY <1>3, <1>5, <2>1, ResumedHas, LaunchedHas DEF Beside, ConfigKeys, ProfileKeys, Profile
    <2>3. key \notin DOMAIN named
      BY <1>5, <2>2, SluggedHas DEF Beside
    <2> HIDE DEF named
    <2> QED BY <1>5, <2>3, ContinuingHas DEF Beside
  <1>6. ASSUME Resuming, NEW key \in DOMAIN full
        PROVE  \/ key \in DOMAIN call.args \union {"prompt", "resume", "resumeLast"}
               \/ key = "skills" /\ Given(call.args, "skillNames")
               \/ key = "toolMap" /\ Grants \intersect DOMAIN call.args # {}
               \/ key = "model" /\ call.h = "cursor" /\ Given(call.args, "effort")
    <2>1. \A k : k \in DOMAIN Own => \/ k \in DOMAIN call.args
                                     \/ k = "skills" /\ Given(call.args, "skillNames")
      BY OwnHas
    <2>2. Grants \intersect DOMAIN Own # {} => Grants \intersect DOMAIN call.args # {}
      BY <2>1 DEF Grants
    <2>3. \A k : k \in DOMAIN Tiered =>
                   \/ k \in DOMAIN call.args
                   \/ k = "skills" /\ Given(call.args, "skillNames")
                   \/ k = "toolMap" /\ Grants \intersect DOMAIN call.args # {}
      BY <1>6, <2>1, <2>2, ResumedHas
    <2>4. Given(Tiered, "model") => Given(call.args, "model")
      BY <2>3 DEF Given
    <2>5. \A k : k \in DOMAIN named =>
                   \/ k \in DOMAIN Tiered
                   \/ k = "model" /\ call.h = "cursor" /\ (Given(call.args, "model") \/ Given(call.args, "effort"))
      BY <2>4, SluggedHas
    <2> HIDE DEF named
    <2>6. \/ key \in DOMAIN named \union {"prompt", "resume", "resumeLast"}
          \/ key = "passthrough" /\ Given(call.args, "passthrough")
      BY <1>6, ContinuingHas
    <2> QED BY <2>3, <2>5, <2>6 DEF Given
  <1>7. plan.options = full
    BY <1>2
  <1> HIDE DEF full
  <1>8. ASSUME NEW key \in (DOMAIN call.args \ {"timeout"}) \intersect DOMAIN plan.options
        PROVE  \/ plan.options[key] = call.args[key]
               \/ key = "model" /\ call.h = "cursor"
               \/ key = "tools" /\ ~Resuming
    <2>1. CASE key \in Beside
      <3>1. key = "passthrough" /\ full[key] = TRUE
        BY <1>5, <1>7, <2>1
      <3>2. call.args[key] = TRUE
        BY <1>2, <3>1 DEF CallKnown
      <3> QED BY <1>7, <3>1, <3>2
    <2>2. CASE key \notin Beside
      BY <1>4, <1>7, <2>2
    <2> QED BY <2>1, <2>2
  <1> QED BY <1>6, <1>7, <1>8

-----------------------------------------------------------------------------
(* What a session keeps                                                    *)

LEMMA SessionArgsHave ==
  ASSUME NEW k \in DOMAIN Narrowed(SessionArgs)
  PROVE  /\ k \in DOMAIN call.args
         /\ k \in SessionOptionKeys \union SessionPermissionKeys \union {"model", "settingSources", "questions"}
         /\ k # "discovery" => Narrowed(SessionArgs)[k] = call.args[k]
         /\ k = "discovery" => "tools" \in OffFacets(call.args)
                               /\ Narrowed(SessionArgs)[k] = {"tools"}
  <1> DEFINE taken == SessionOptionKeys \union SessionPermissionKeys \union {"model", "settingSources", "questions"}
             facets == OffFacets(call.args) \intersect {"tools"}
             dropped == (DOMAIN call.args \ taken) \union (IF facets = {} THEN {"discovery"} ELSE {})
             args == Without(call.args, dropped)
  <1>1. SessionArgs = args
    BY Zenon DEF SessionArgs
  <1>2. /\ DOMAIN args = DOMAIN call.args \ dropped
        /\ \A m \in DOMAIN args : args[m] = call.args[m]
    <2> HIDE DEF dropped
    <2> QED BY DEF Without
  <1> HIDE DEF args
  <1>3. "discovery" \in DOMAIN args => "tools" \in OffFacets(call.args)
    BY <1>2
  <1>4. Narrowed(args) = IF Given(args, "discovery") THEN [args EXCEPT !["discovery"] = {"tools"}] ELSE args
    BY DEF Narrowed
  <1>5. /\ DOMAIN Narrowed(args) = DOMAIN args
        /\ \A m \in DOMAIN args : m # "discovery" => Narrowed(args)[m] = args[m]
        /\ "discovery" \in DOMAIN args => Narrowed(args)["discovery"] = {"tools"}
    BY <1>4 DEF Given
  <1> QED BY <1>1, <1>2, <1>3, <1>5

LEMMA SessionTieredHas ==
  ASSUME NEW k \in DOMAIN SessionTiered
  PROVE  \/ k \in {"skills", "toolMap", "memory", "nativeApprovals"}
         \/ k \in DOMAIN Narrowed(SessionArgs) /\ SessionTiered[k] = Narrowed(SessionArgs)[k]
  <1> DEFINE args == Narrowed(SessionArgs)
             map == IF SessionPermissionKeys \intersect DOMAIN args # {}
                    THEN ToolMapOption(call.user, call.project) ELSE <<>>
             memory == IF "memory" \in DOMAIN OptionsOf[call.h] THEN Only("memory", SessionMemory) ELSE <<>>
             armed == IF Tagged("native-approvals") THEN Only("nativeApprovals", TRUE) ELSE <<>>
             all == Layers(<< Chosen, args, map, memory, armed >>)
  <1>1. SessionTiered = all
    BY Zenon DEF SessionTiered
  <1>2. DOMAIN Chosen \subseteq {"skills"}
    <2>1. DOMAIN Only("skills", SkillNames) = {"skills"}
      BY OnlyHas
    <2>2. Chosen = << >> \/ Chosen = Only("skills", SkillNames)
      BY DEF Chosen
    <2> QED BY <2>1, <2>2, EmptyDomain, Zenon
  <1>3. DOMAIN map \subseteq {"toolMap"}
    <2>1. DOMAIN ToolMapOption(call.user, call.project) \subseteq {"toolMap"}
      BY MapIsOne
    <2>2. map = << >> \/ map = ToolMapOption(call.user, call.project)
      OBVIOUS
    <2> HIDE DEF map
    <2> QED BY <2>1, <2>2, EmptyDomain, Zenon
  <1>4. DOMAIN memory \subseteq {"memory"}
    <2>1. DOMAIN Only("memory", SessionMemory) = {"memory"}
      BY OnlyHas
    <2>2. memory = << >> \/ memory = Only("memory", SessionMemory)
      OBVIOUS
    <2> HIDE DEF memory
    <2> QED BY <2>1, <2>2, EmptyDomain, Zenon
  <1>5. DOMAIN armed \subseteq {"nativeApprovals"}
    <2>1. DOMAIN Only("nativeApprovals", TRUE) = {"nativeApprovals"}
      BY OnlyHas, Zenon
    <2>2. armed = << >> \/ armed = Only("nativeApprovals", TRUE)
      OBVIOUS
    <2> HIDE DEF armed
    <2> QED BY <2>1, <2>2, EmptyDomain, Zenon
  <1> HIDE DEF args, map, memory, armed
  <1>6. /\ k \in DOMAIN all <=> k \in DOMAIN Chosen \union DOMAIN args \union DOMAIN map
                                        \union DOMAIN memory \union DOMAIN armed
        /\ k \in DOMAIN args \ DOMAIN Chosen => all[k] = args[k]
    BY OfFive
  <1> HIDE DEF all
  <1> QED BY <1>1, <1>2, <1>3, <1>4, <1>5, <1>6 DEF args

LEMMA SessionFullHas ==
  ASSUME NEW store
  PROVE  /\ \A k \in DOMAIN SessionFull(store) :
              \/ k \in {"skills", "toolMap", "memory", "nativeApprovals", "isResume", "sessionId"}
              \/ k \in DOMAIN Narrowed(SessionArgs) /\ SessionFull(store)[k] = Narrowed(SessionArgs)[k]
         /\ SessionFull(store)["isResume"] = (store = "found")
         /\ SessionFull(store)["sessionId"] = IF call.resume = "" THEN "minted" ELSE call.resume
  <1> DEFINE id == IF call.resume = "" THEN "minted" ELSE call.resume
             known == store = "found"
             resumes == Only("isResume", known)
             named == Only("sessionId", id)
             all == Layers(<< SessionTiered, resumes, named >>)
  <1>1. SessionFull(store) = all
    BY Zenon DEF SessionFull
  <1>2. DOMAIN resumes = {"isResume"} /\ resumes["isResume"] = known
    <2> HIDE DEF known
    <2> QED BY OnlyHas
  <1>3. DOMAIN named = {"sessionId"} /\ named["sessionId"] = id
    <2> HIDE DEF id
    <2> QED BY OnlyHas
  <1>4. \A k \in DOMAIN SessionTiered : k # "isResume" /\ k # "sessionId"
    BY SessionTieredHas, SessionArgsHave DEF SessionOptionKeys, SessionPermissionKeys
  <1> HIDE DEF id, known, resumes, named
  <1>5. ASSUME NEW k
        PROVE /\ k \in DOMAIN all <=> k \in DOMAIN SessionTiered \union DOMAIN resumes \union DOMAIN named
              /\ k \in DOMAIN SessionTiered => all[k] = SessionTiered[k]
              /\ k \in DOMAIN resumes \ DOMAIN SessionTiered => all[k] = resumes[k]
              /\ k \in DOMAIN named \ (DOMAIN SessionTiered \union DOMAIN resumes) => all[k] = named[k]
    BY OfThree
  <1> HIDE DEF all
  <1>6. all["isResume"] = known
    BY <1>2, <1>4, <1>5
  <1>7. all["sessionId"] = id
    BY <1>2, <1>3, <1>4, <1>5
  <1>8. ASSUME NEW k \in DOMAIN all
        PROVE  \/ k \in {"skills", "toolMap", "memory", "nativeApprovals", "isResume", "sessionId"}
               \/ k \in DOMAIN Narrowed(SessionArgs) /\ all[k] = Narrowed(SessionArgs)[k]
    BY <1>2, <1>3, <1>5, SessionTieredHas
  <1>9. SessionFull(store)["isResume"] = (store = "found")
    BY <1>1, <1>6 DEF known
  <1>10. SessionFull(store)["sessionId"] = IF call.resume = "" THEN "minted" ELSE call.resume
    BY <1>1, <1>7 DEF id
  <1> QED BY <1>1, <1>8, <1>9, <1>10

LEMMA ResumesHold == PlannedInv => ResumesWhatItNames
  <1> SUFFICES ASSUME PlannedInv, IsPlanned, IsSession PROVE
        /\ NamesResume => plan.store = "found" /\ plan.options.sessionId = call.resume
        /\ \A t \in Range(plan.argv.continue) :
             /\ t.vals = {IF call.resume = "" THEN "minted" ELSE call.resume}
             /\ t.flag = SessionResumeFlag[call.h] /\ call.h # "pi" => plan.store = "found"
    BY DEF ResumesWhatItNames
  <1> DEFINE id == IF call.resume = "" THEN "minted" ELSE call.resume
             o == plan.options
             harness == call.h
  <1>1. o = SessionFull(plan.store) /\ StoreSays /\ plan.argv = SessionArgv(harness, o)
    BY DEF PlannedInv, IsPlanned, SessionPlanned
  <1>2. o["isResume"] = (plan.store = "found") /\ o["sessionId"] = id
    <2> DEFINE full == SessionFull(plan.store)
    <2>1. full["isResume"] = (plan.store = "found") /\ full["sessionId"] = id
      BY SessionFullHas
    <2>2. o = full
      BY <1>1
    <2> HIDE DEF full
    <2> QED BY <2>1, <2>2
  <1>3. NamesResume => plan.store = "found" /\ id = call.resume
    BY <1>1 DEF StoreSays, NamesResume
  <1>4. plan.argv.continue = SessionIdGroup(harness, o)
    <2> DEFINE before == RenderedGroups(harness, o, SessionOptionKeys) \ {<<>>}
               tail == (SessionTail(harness, o) \union RenderedGroups(harness, o, {"access", "discovery"})) \ {<<>>}
               env == TurnEnv(harness, o)
               continue == SessionIdGroup(harness, o)
    <2>1. plan.argv = [NoArgv EXCEPT !.continue = continue, !.before = before, !.tail = tail, !.env = env]
      BY <1>1, Zenon DEF SessionArgv
    <2> HIDE DEF before, tail, env, continue
    <2>2. plan.argv.continue = continue
      BY <2>1 DEF NoArgv
    <2> QED BY <2>2 DEF continue
  <1> HIDE DEF id
  <1>5. ASSUME NEW t \in Range(SessionIdGroup(harness, o))
        PROVE  /\ t.vals = {id}
               /\ t.flag = SessionResumeFlag[harness] /\ harness # "pi" => plan.store = "found"
    <2> DEFINE flag == IF o.isResume THEN SessionResumeFlag ELSE SessionIdFlag
               group == SessionIdGroup(harness, o)
    <2>1. group = IF harness \in DOMAIN flag THEN << Tok(flag[harness], {o.sessionId}) >> ELSE <<>>
      BY Zenon DEF SessionIdGroup
    <2>2. harness \in DOMAIN flag /\ t = Tok(flag[harness], {id})
      <3> HIDE DEF flag
      <3>1. CASE harness \in DOMAIN flag
        <4>1. group = << Tok(flag[harness], {id}) >>
          BY <1>2, <2>1, <3>1
        <4> HIDE DEF group
        <4> QED BY <3>1, <4>1 DEF Range, group
      <3>2. CASE harness \notin DOMAIN flag
        <4>1. group = << >>
          BY <2>1, <3>2
        <4> HIDE DEF group
        <4> QED BY <4>1 DEF Range, group
      <3> QED BY <3>1, <3>2
    <2>3. t.vals = {id} /\ t.flag = flag[harness]
      <3> HIDE DEF flag
      <3> QED BY <2>2 DEF Tok
    <2>4. ASSUME plan.store # "found", t.flag = SessionResumeFlag[harness], harness # "pi" PROVE FALSE
      <3>1. flag = SessionIdFlag
        BY <1>2, <2>4
      <3> HIDE DEF flag
      <3>2. harness \in {"claude", "pi"} /\ SessionIdFlag["claude"] = "--session-id"
        BY <2>2, <3>1 DEF SessionIdFlag
      <3>3. SessionResumeFlag["claude"] = "--resume"
        BY DEF SessionResumeFlag
      <3> QED BY <2>3, <2>4, <3>1, <3>2, <3>3
    <2> QED BY <2>3, <2>4
  <1>6. NamesResume => plan.store = "found" /\ plan.options.sessionId = call.resume
    BY <1>2, <1>3
  <1>7. \A t \in Range(plan.argv.continue) :
          /\ t.vals = {id}
          /\ t.flag = SessionResumeFlag[call.h] /\ call.h # "pi" => plan.store = "found"
    BY <1>4, <1>5
  <1> QED BY <1>6, <1>7 DEF id

-----------------------------------------------------------------------------
(* What the tables say                                                     *)

\* A row: how an option is taken, and how it is said on each path.
Row(spec, kind, launch, resume) ==
  spec.kind = kind /\ spec.launch = launch /\ spec.resume = resume
NoDefault == ""
Defaulted(spec) == spec.default # NoDefault
PlainRow(spec, kind, render) == Row(spec, kind, render, render) /\ ~Defaulted(spec)

SpecDomain == {"kind", "launch", "resume", "after", "vals", "min", "max", "default", "probe"}

LEMMA SpecIs ==
  ASSUME NEW kind, NEW render
  PROVE  /\ PlainRow(OptionSpec(kind, render), kind, render)
         /\ DOMAIN OptionSpec(kind, render) = SpecDomain
  <1> DEFINE spec == OptionSpec(kind, render)
  <1>1. spec.default = NoDefault /\ spec.kind = kind /\ spec.launch = render /\ spec.resume = render
    BY Zenon DEF OptionSpec, NoDefault
  <1>2. DOMAIN spec = SpecDomain
    BY DEF OptionSpec, SpecDomain
  <1> HIDE DEF spec
  <1>3. ~Defaulted(spec)
    BY <1>1, Zenon DEF Defaulted
  <1> QED BY <1>1, <1>2, <1>3 DEF PlainRow, Row, spec

LEMMA IntegerIs ==
  ASSUME NEW min, NEW max, NEW render
  PROVE  PlainRow(IntegerSpec(min, max, render), "integer", render)
  <1> DEFINE number == OptionSpec("integer", render)
  <1>1. IntegerSpec(min, max, render) = [number EXCEPT !.min = min, !.max = max]
    BY DEF IntegerSpec
  <1>2. PlainRow(number, "integer", render) /\ DOMAIN number = SpecDomain
    BY SpecIs
  <1> HIDE DEF number
  <1> QED BY <1>1, <1>2 DEF PlainRow, Row, SpecDomain, Defaulted

LEMMA ClaudeRows ==
  /\ DOMAIN ClaudeOptions = {"contextWindow", "isolation", "effort", "systemPrompt",
                             "appendSystemPrompt", "agent", "memory"}
  /\ PlainRow(ClaudeOptions["contextWindow"], "integer", Value("--autocompact"))
  /\ Row(ClaudeOptions["isolation"], "enum",
         Flags(<< Bare("--bare"), Tok("--tools", {}), Tok("--disallowedTools", {"mcp"}),
                  Bare("--strict-mcp-config") >>), Never)
  /\ ~Defaulted(ClaudeOptions["isolation"])
  /\ PlainRow(ClaudeOptions["effort"], "effort", Value("--effort"))
  /\ PlainRow(ClaudeOptions["systemPrompt"], "text",
              ValueWith("--system-prompt", << Bare("--exclude-dynamic-system-prompt-sections") >>))
  /\ PlainRow(ClaudeOptions["appendSystemPrompt"], "text", Value("--append-system-prompt"))
  /\ PlainRow(ClaudeOptions["agent"], "selector", Value("--agent"))
  /\ PlainRow(ClaudeOptions["memory"], "toggle", EnvVar("CLAUDE_CODE_DISABLE_AUTO_MEMORY"))
  <1> DEFINE cut == Flags(<< Bare("--bare"), Tok("--tools", {}), Tok("--disallowedTools", {"mcp"}),
                           Bare("--strict-mcp-config") >>)
             window == Value("--autocompact")
             min == 100000
             max == 1000000
             number == IntegerSpec(min, max, window)
             enum == OptionSpec("enum", cut)
             picks == {"tool-free"}
             never == Never
             effort == OptionSpec("effort", Value("--effort"))
             prompt == OptionSpec("text",
               ValueWith("--system-prompt", << Bare("--exclude-dynamic-system-prompt-sections") >>))
             more == OptionSpec("text", Value("--append-system-prompt"))
             agent == OptionSpec("selector", Value("--agent"))
             memory == OptionSpec("toggle", EnvVar("CLAUDE_CODE_DISABLE_AUTO_MEMORY"))
             alone == [enum EXCEPT !.vals = picks, !.resume = never]
  <1>1. ClaudeOptions =
          [contextWindow |-> number, isolation |-> alone, effort |-> effort, systemPrompt |-> prompt,
           appendSystemPrompt |-> more, agent |-> agent, memory |-> memory]
    BY SMT DEF ClaudeOptions
  <1>2. PlainRow(number, "integer", window)
    <2> HIDE DEF min, max, window
    <2> QED BY IntegerIs
  <1>3. PlainRow(enum, "enum", cut) /\ DOMAIN enum = SpecDomain
    BY SpecIs
  <1>4. Row(alone, "enum", cut, never) /\ ~Defaulted(alone)
    <2> HIDE DEF enum, cut, picks, never
    <2> QED BY <1>3 DEF Row, PlainRow, SpecDomain, Defaulted
  <1>5. /\ PlainRow(effort, "effort", Value("--effort"))
        /\ PlainRow(prompt, "text",
              ValueWith("--system-prompt", << Bare("--exclude-dynamic-system-prompt-sections") >>))
        /\ PlainRow(more, "text", Value("--append-system-prompt"))
        /\ PlainRow(agent, "selector", Value("--agent"))
        /\ PlainRow(memory, "toggle", EnvVar("CLAUDE_CODE_DISABLE_AUTO_MEMORY"))
    BY SpecIs
  <1> HIDE DEF number, alone, effort, prompt, more, agent, memory
  <1>6. DOMAIN ClaudeOptions = {"contextWindow", "isolation", "effort", "systemPrompt",
                                "appendSystemPrompt", "agent", "memory"}
    BY <1>1
  <1>7. /\ ClaudeOptions["contextWindow"] = number /\ ClaudeOptions["isolation"] = alone
        /\ ClaudeOptions["effort"] = effort /\ ClaudeOptions["systemPrompt"] = prompt
        /\ ClaudeOptions["appendSystemPrompt"] = more /\ ClaudeOptions["agent"] = agent
        /\ ClaudeOptions["memory"] = memory
    BY <1>1
  <1> HIDE DEF cut, window, never
  <1> QED BY <1>2, <1>4, <1>5, <1>6, <1>7, Zenon DEF cut, window, never

LEMMA CodexRows ==
  /\ DOMAIN CodexOptions = {"contextWindow", "effort", "systemPrompt", "sandbox", "memory"}
  /\ PlainRow(CodexOptions["contextWindow"], "integer", Value("-c model_context_window"))
  /\ PlainRow(CodexOptions["effort"], "effort", Value("-c model_reasoning_effort"))
  /\ PlainRow(CodexOptions["systemPrompt"], "text", Value("-c instructions"))
  /\ Row(CodexOptions["sandbox"], "enum", Value("--sandbox"), Value("-c sandbox_mode"))
  /\ CodexOptions["sandbox"].default = "workspace-write"
  /\ PlainRow(CodexOptions["memory"], "toggle", Flags(<< Tok("--disable", {"memories"}) >>))
  <1> DEFINE window == Value("-c model_context_window")
             min == 1
             max == 272000
             number == IntegerSpec(min, max, window)
             effort == OptionSpec("effort", Value("-c model_reasoning_effort"))
             prompt == OptionSpec("text", Value("-c instructions"))
             flag == Value("--sandbox")
             enum == OptionSpec("enum", flag)
             modes == {"read-only", "workspace-write", "danger-full-access"}
             restated == Value("-c sandbox_mode")
             sandbox == [enum EXCEPT !.vals = modes, !.resume = restated, !.default = "workspace-write"]
             memory == OptionSpec("toggle", Flags(<< Tok("--disable", {"memories"}) >>))
  <1>1. CodexOptions =
          [contextWindow |-> number, effort |-> effort, systemPrompt |-> prompt, sandbox |-> sandbox,
           memory |-> memory]
    BY SMT DEF CodexOptions
  <1>2. PlainRow(number, "integer", window)
    <2> HIDE DEF min, max, window
    <2> QED BY IntegerIs
  <1>3. PlainRow(enum, "enum", flag) /\ DOMAIN enum = SpecDomain
    BY SpecIs
  <1>4. Row(sandbox, "enum", flag, restated) /\ sandbox.default = "workspace-write"
    <2> HIDE DEF enum, flag, modes, restated
    <2> QED BY <1>3 DEF Row, PlainRow, SpecDomain, Defaulted
  <1>5. /\ PlainRow(effort, "effort", Value("-c model_reasoning_effort"))
        /\ PlainRow(prompt, "text", Value("-c instructions"))
        /\ PlainRow(memory, "toggle", Flags(<< Tok("--disable", {"memories"}) >>))
    BY SpecIs
  <1> HIDE DEF number, effort, prompt, sandbox, memory
  <1>6. DOMAIN CodexOptions = {"contextWindow", "effort", "systemPrompt", "sandbox", "memory"}
    BY <1>1
  <1>7. /\ CodexOptions["contextWindow"] = number /\ CodexOptions["effort"] = effort
        /\ CodexOptions["systemPrompt"] = prompt /\ CodexOptions["sandbox"] = sandbox
        /\ CodexOptions["memory"] = memory
    BY <1>1
  <1> HIDE DEF flag, restated, window
  <1> QED BY <1>2, <1>4, <1>5, <1>6, <1>7, Zenon DEF flag, restated, window

LEMMA PiRows ==
  /\ DOMAIN PiOptions = {"effort", "provider", "agent", "systemPrompt", "appendSystemPrompt",
                         "extensions", "memory"}
  /\ PlainRow(PiOptions["effort"], "effort", Value("--thinking"))
  /\ PlainRow(PiOptions["provider"], "selector", Value("--provider"))
  /\ PlainRow(PiOptions["agent"], "selector", Value("--agent"))
  /\ PlainRow(PiOptions["systemPrompt"], "text", Value("--system-prompt"))
  /\ PlainRow(PiOptions["appendSystemPrompt"], "text", Value("--append-system-prompt"))
  /\ PlainRow(PiOptions["extensions"], "paths", Value("-e"))
  /\ PlainRow(PiOptions["memory"], "toggle", Flags(<<>>))
  <1> DEFINE effort == OptionSpec("effort", Value("--thinking"))
             provider == OptionSpec("selector", Value("--provider"))
             flag == Value("--agent")
             selector == OptionSpec("selector", flag)
             agent == [selector EXCEPT !.probe = TRUE]
             prompt == OptionSpec("text", Value("--system-prompt"))
             more == OptionSpec("text", Value("--append-system-prompt"))
             extensions == OptionSpec("paths", Value("-e"))
             memory == OptionSpec("toggle", Flags(<<>>))
  <1>1. PiOptions =
          [effort |-> effort, provider |-> provider, agent |-> agent, systemPrompt |-> prompt,
           appendSystemPrompt |-> more, extensions |-> extensions, memory |-> memory]
    BY SMT DEF PiOptions
  <1>2. PlainRow(selector, "selector", flag) /\ DOMAIN selector = SpecDomain
    BY SpecIs
  <1>3. PlainRow(agent, "selector", flag)
    <2> HIDE DEF selector, flag
    <2> QED BY <1>2 DEF Row, PlainRow, SpecDomain, Defaulted
  <1>4. /\ PlainRow(effort, "effort", Value("--thinking"))
        /\ PlainRow(provider, "selector", Value("--provider"))
        /\ PlainRow(prompt, "text", Value("--system-prompt"))
        /\ PlainRow(more, "text", Value("--append-system-prompt"))
        /\ PlainRow(extensions, "paths", Value("-e"))
        /\ PlainRow(memory, "toggle", Flags(<<>>))
    BY SpecIs
  <1> HIDE DEF effort, provider, agent, prompt, more, extensions, memory
  <1>5. DOMAIN PiOptions = {"effort", "provider", "agent", "systemPrompt", "appendSystemPrompt",
                            "extensions", "memory"}
    BY <1>1
  <1>6. /\ PiOptions["effort"] = effort /\ PiOptions["provider"] = provider /\ PiOptions["agent"] = agent
        /\ PiOptions["systemPrompt"] = prompt /\ PiOptions["appendSystemPrompt"] = more
        /\ PiOptions["extensions"] = extensions /\ PiOptions["memory"] = memory
    BY <1>1
  <1> HIDE DEF flag
  <1> QED BY <1>3, <1>4, <1>5, <1>6, Zenon DEF flag

LEMMA MuseRows ==
  /\ DOMAIN MuseOptions = {"effort", "write", "shell", "maxSteps"}
  /\ PlainRow(MuseOptions["effort"], "effort", Value("--reasoning-effort"))
  /\ PlainRow(MuseOptions["write"], "toggle", Flags(<< Bare("--disable-write") >>))
  /\ PlainRow(MuseOptions["shell"], "toggle", Flags(<< Bare("--disable-shell") >>))
  /\ PlainRow(MuseOptions["maxSteps"], "integer", Value("--max-model-steps"))
  <1> DEFINE effort == OptionSpec("effort", Value("--reasoning-effort"))
             write == OptionSpec("toggle", Flags(<< Bare("--disable-write") >>))
             shell == OptionSpec("toggle", Flags(<< Bare("--disable-shell") >>))
             steps == Value("--max-model-steps")
             min == 1
             max == 10000
             number == IntegerSpec(min, max, steps)
  <1>1. MuseOptions = [effort |-> effort, write |-> write, shell |-> shell, maxSteps |-> number]
    BY SMT DEF MuseOptions
  <1>2. PlainRow(number, "integer", steps)
    <2> HIDE DEF min, max, steps
    <2> QED BY IntegerIs
  <1>3. /\ PlainRow(effort, "effort", Value("--reasoning-effort"))
        /\ PlainRow(write, "toggle", Flags(<< Bare("--disable-write") >>))
        /\ PlainRow(shell, "toggle", Flags(<< Bare("--disable-shell") >>))
    BY SpecIs
  <1> HIDE DEF effort, write, shell, number
  <1>4. DOMAIN MuseOptions = {"effort", "write", "shell", "maxSteps"}
    BY <1>1
  <1>5. /\ MuseOptions["effort"] = effort /\ MuseOptions["write"] = write
        /\ MuseOptions["shell"] = shell /\ MuseOptions["maxSteps"] = number
    BY <1>1
  <1> QED BY <1>2, <1>3, <1>4, <1>5, Zenon

LEMMA CursorRows ==
  /\ DOMAIN CursorOptions = {"effort"}
  /\ PlainRow(CursorOptions["effort"], "in-model", Flags(<<>>))
  <1>1. CursorOptions["effort"] = OptionSpec("in-model", Flags(<<>>))
    BY DEF CursorOptions
  <1>2. DOMAIN CursorOptions = {"effort"}
    BY DEF CursorOptions
  <1>3. PlainRow(OptionSpec("in-model", Flags(<<>>)), "in-model", Flags(<<>>))
    BY SpecIs
  <1> QED BY <1>1, <1>2, <1>3, Zenon

LEMMA AntigravityRows ==
  /\ DOMAIN AntigravityOptions = {"agent", "effort", "sandbox"}
  /\ PlainRow(AntigravityOptions["agent"], "selector", Value("--agent"))
  /\ PlainRow(AntigravityOptions["effort"], "effort", Value("--effort"))
  /\ PlainRow(AntigravityOptions["sandbox"], "enum", Flags(<< Bare("--sandbox") >>))
  <1> DEFINE named == Value("--agent")
             selector == OptionSpec("selector", named)
             agent == [selector EXCEPT !.after = TRUE]
             level == Value("--effort")
             scale == OptionSpec("effort", level)
             effort == [scale EXCEPT !.after = TRUE]
             flag == Flags(<< Bare("--sandbox") >>)
             enum == OptionSpec("enum", flag)
             modes == {"workspace-write"}
             sandbox == [enum EXCEPT !.after = TRUE, !.vals = modes]
  <1>1. AntigravityOptions = [agent |-> agent, effort |-> effort, sandbox |-> sandbox]
    BY SMT DEF AntigravityOptions
  <1>2. /\ PlainRow(selector, "selector", named) /\ DOMAIN selector = SpecDomain
        /\ PlainRow(scale, "effort", level) /\ DOMAIN scale = SpecDomain
        /\ PlainRow(enum, "enum", flag) /\ DOMAIN enum = SpecDomain
    BY SpecIs
  <1> HIDE DEF named, selector, level, scale, flag, enum, modes
  <1>3. PlainRow(agent, "selector", named) /\ PlainRow(effort, "effort", level)
        /\ PlainRow(sandbox, "enum", flag)
    BY <1>2 DEF Row, PlainRow, SpecDomain, Defaulted
  <1> HIDE DEF agent, effort, sandbox
  <1>4. DOMAIN AntigravityOptions = {"agent", "effort", "sandbox"}
    BY <1>1
  <1>5. /\ AntigravityOptions["agent"] = agent /\ AntigravityOptions["effort"] = effort
        /\ AntigravityOptions["sandbox"] = sandbox
    BY <1>1
  <1> QED BY <1>3, <1>4, <1>5, Zenon DEF named, level, flag

LEMMA PopeyeRows ==
  /\ DOMAIN PopeyeOptions = {"effort", "systemPrompt", "appendSystemPrompt", "contextWindow",
                             "agent", "memory"}
  /\ PlainRow(PopeyeOptions["effort"], "effort", Value("--effort"))
  /\ PlainRow(PopeyeOptions["systemPrompt"], "text", Value("--system-prompt"))
  /\ PlainRow(PopeyeOptions["appendSystemPrompt"], "text", Value("--append-system-prompt"))
  /\ PlainRow(PopeyeOptions["contextWindow"], "integer", Value("--context-window"))
  /\ PlainRow(PopeyeOptions["agent"], "selector", Value("--agent"))
  /\ PlainRow(PopeyeOptions["memory"], "toggle", Flags(<<>>))
  <1> DEFINE effort == OptionSpec("effort", Value("--effort"))
             prompt == OptionSpec("text", Value("--system-prompt"))
             more == OptionSpec("text", Value("--append-system-prompt"))
             window == Value("--context-window")
             min == 1
             max == 10000000
             number == IntegerSpec(min, max, window)
             agent == OptionSpec("selector", Value("--agent"))
             memory == OptionSpec("toggle", Flags(<<>>))
  <1>1. PopeyeOptions =
          [effort |-> effort, systemPrompt |-> prompt, appendSystemPrompt |-> more,
           contextWindow |-> number, agent |-> agent, memory |-> memory]
    BY SMT DEF PopeyeOptions
  <1>2. PlainRow(number, "integer", window)
    <2> HIDE DEF min, max, window
    <2> QED BY IntegerIs
  <1>3. /\ PlainRow(effort, "effort", Value("--effort"))
        /\ PlainRow(prompt, "text", Value("--system-prompt"))
        /\ PlainRow(more, "text", Value("--append-system-prompt"))
        /\ PlainRow(agent, "selector", Value("--agent"))
        /\ PlainRow(memory, "toggle", Flags(<<>>))
    BY SpecIs
  <1> HIDE DEF effort, prompt, more, number, agent, memory
  <1>4. DOMAIN PopeyeOptions = {"effort", "systemPrompt", "appendSystemPrompt", "contextWindow",
                                "agent", "memory"}
    BY <1>1
  <1>5. /\ PopeyeOptions["effort"] = effort /\ PopeyeOptions["systemPrompt"] = prompt
        /\ PopeyeOptions["appendSystemPrompt"] = more /\ PopeyeOptions["contextWindow"] = number
        /\ PopeyeOptions["agent"] = agent /\ PopeyeOptions["memory"] = memory
    BY <1>1
  <1> QED BY <1>2, <1>3, <1>4, <1>5, Zenon

LEMMA TablesAre ==
  /\ OptionsOf["claude"] = ClaudeOptions /\ OptionsOf["codex"] = CodexOptions
  /\ OptionsOf["pi"] = PiOptions /\ OptionsOf["muse"] = MuseOptions
  /\ OptionsOf["cursor"] = CursorOptions /\ OptionsOf["antigravity"] = AntigravityOptions
  /\ OptionsOf["popeye"] = PopeyeOptions
  BY DEF OptionsOf

-----------------------------------------------------------------------------
(* What a harness may be told of each option                               *)

Rendering(harness, phase, key) == ResolveRender(OptionsOf[harness][key], phase)
Said(harness, o, key) == ValuesOf(OptionsOf[harness][key], o[key])

\* What a group that is told comes from: a value that was set, or a default.
FromValue(harness, o, phase, key, group) ==
  /\ Rendering(harness, phase, key) # Never
  /\ \/ OptionsOf[harness][key].kind = "toggle" /\ group = TokensFor(Rendering(harness, phase, key), {})
     \/ /\ OptionsOf[harness][key].kind = "paths"
        /\ \E p \in o[key] : group = TokensFor(Rendering(harness, phase, key), {p})
     \/ /\ OptionsOf[harness][key].kind \notin {"toggle", "paths"}
        /\ group = TokensFor(Rendering(harness, phase, key), Said(harness, o, key))
FromDefault(harness, o, phase, key, group) ==
  /\ Defaulted(OptionsOf[harness][key]) /\ phase = "launch"
  /\ ~(key = Claimed(harness) /\ Given(o, "access"))
  /\ group = TokensFor(OptionsOf[harness][key].launch, {OptionsOf[harness][key].default})

LEMMA GroupIs ==
  ASSUME NEW harness, NEW o, NEW phase, NEW key, key \notin {"discovery", "access"},
         OptionIssue(harness, o, phase, key) = "none",
         NEW group \in OptionGroups(harness, o, phase, key)
  PROVE  /\ key \in DOMAIN OptionsOf[harness]
         /\ Given(o, key) => FromValue(harness, o, phase, key, group)
         /\ ~Given(o, key) => FromDefault(harness, o, phase, key, group)
  <1> DEFINE spec == OptionsOf[harness][key]
             render == ResolveRender(spec, phase)
  <1>1. CASE ~Given(o, key)
    <2>1. group \in DefaultGroups(harness, o, phase, key)
      BY <1>1 DEF OptionGroups
    <2>2. /\ key \in DOMAIN OptionsOf[harness] /\ spec.default # "" /\ phase = "launch"
          /\ ~(key = Claimed(harness) /\ Given(o, "access"))
          /\ group = TokensFor(spec.launch, {spec.default})
      BY <2>1, Zenon DEF DefaultGroups
    <2>3. Defaulted(spec)
      <3> HIDE DEF spec
      <3> QED BY <2>2, Zenon DEF Defaulted, NoDefault
    <2> QED BY <1>1, <2>2, <2>3, Zenon DEF FromDefault
  <1>2. CASE Given(o, key)
    <2>1. key \in DOMAIN OptionsOf[harness] /\ render # Never
      BY <1>2 DEF OptionIssue
    <2> DEFINE values == ValuesOf(spec, o[key])
    <2>2. group \in IF spec.kind = "toggle" THEN
                         IF o[key] THEN {} ELSE {TokensFor(render, {})}
                    ELSE IF spec.kind = "paths" THEN {TokensFor(render, {p}) : p \in o[key]}
                    ELSE {TokensFor(render, values)}
      BY <1>2 DEF OptionGroups
    <2> HIDE DEF spec, render, values
    <2>3. \/ spec.kind = "toggle" /\ group = TokensFor(render, {})
          \/ spec.kind = "paths" /\ \E p \in o[key] : group = TokensFor(render, {p})
          \/ spec.kind \notin {"toggle", "paths"} /\ group = TokensFor(render, values)
      BY <2>2
    <2> QED BY <1>2, <2>1, <2>3 DEF FromValue, Rendering, Said, spec, render, values
  <1> QED BY <1>1, <1>2

LEMMA ValueSays ==
  ASSUME NEW flag, NEW vals
  PROVE  TokensFor(Value(flag), vals) = << Tok(flag, vals) >>
  BY DEF TokensFor, Value

LEMMA ValueWithSays ==
  ASSUME NEW flag, NEW vals, NEW a
  PROVE  TokensFor(ValueWith(flag, << a >>), vals) = << a, Tok(flag, vals) >>
  <1>1. ValueWith(flag, << a >>).kind = "value" /\ ValueWith(flag, << a >>).extra = << a >>
        /\ ValueWith(flag, << a >>).flag = flag
    BY DEF ValueWith
  <1>2. TokensFor(ValueWith(flag, << a >>), vals) = Append(<< a >>, Tok(flag, vals))
    BY <1>1 DEF TokensFor
  <1> QED BY <1>2

LEMMA FlagsSay ==
  ASSUME NEW tokens, NEW vals
  PROVE  TokensFor(Flags(tokens), vals) = tokens
  BY DEF TokensFor, Flags

LEMMA EnvSays ==
  ASSUME NEW name, NEW vals
  PROVE  TokensFor(EnvVar(name), vals) = << >>
  BY DEF TokensFor, EnvVar

LEMMA RangeNone == Range(<< >>) = {}
  BY DEF Range

LEMMA RangeOne ==
  ASSUME NEW a
  PROVE  Range(<< a >>) = {a}
  BY DEF Range

LEMMA RangeTwo ==
  ASSUME NEW a, NEW b
  PROVE  Range(<< a, b >>) = {a, b}
  BY DEF Range

LEMMA RangeFour ==
  ASSUME NEW a, NEW b, NEW c, NEW d
  PROVE  Range(<< a, b, c, d >>) = {a, b, c, d}
  BY DEF Range

\* An option with no default is told only where it was set: by its flag, ...
LEMMA FlagTold ==
  ASSUME NEW harness, NEW o, NEW phase, NEW key, key \notin {"discovery", "access"},
         OptionIssue(harness, o, phase, key) = "none",
         NEW group \in OptionGroups(harness, o, phase, key), NEW t \in Range(group),
         NEW kind, NEW flag, PlainRow(OptionsOf[harness][key], kind, Value(flag)),
         kind \notin {"toggle", "paths"}
  PROVE  Given(o, key) /\ t = Tok(flag, Said(harness, o, key))
  <1> DEFINE values == Said(harness, o, key)
             spec == OptionsOf[harness][key]
  <1>0. spec.kind = kind /\ ~Defaulted(spec)
    BY DEF PlainRow, Row
  <1>1. Given(o, key) /\ group = TokensFor(Rendering(harness, phase, key), values)
    <2>1. Given(o, key) => FromValue(harness, o, phase, key, group)
      BY GroupIs
    <2>2. ~Given(o, key) => FromDefault(harness, o, phase, key, group)
      BY GroupIs
    <2> QED BY <1>0, <2>1, <2>2 DEF FromValue, FromDefault
  <1>2. Rendering(harness, phase, key) = Value(flag)
    BY DEF Rendering, ResolveRender, PlainRow, Row
  <1> HIDE DEF values
  <1>3. group = << Tok(flag, values) >>
    BY <1>1, <1>2, ValueSays
  <1>4. t = Tok(flag, values)
    BY <1>3, RangeOne
  <1> QED BY <1>1, <1>4 DEF values

\* ... or by a list of flags that is the same whatever the value.
LEMMA ListTold ==
  ASSUME NEW harness, NEW o, NEW phase, NEW key, key \notin {"discovery", "access"},
         OptionIssue(harness, o, phase, key) = "none",
         NEW group \in OptionGroups(harness, o, phase, key), NEW t \in Range(group),
         NEW tokens, ~Defaulted(OptionsOf[harness][key]),
         Rendering(harness, phase, key) = Flags(tokens)
  PROVE  Given(o, key) /\ t \in Range(tokens)
  <1> DEFINE values == Said(harness, o, key)
             spec == OptionsOf[harness][key]
             render == Rendering(harness, phase, key)
  <1>1. Given(o, key) => FromValue(harness, o, phase, key, group)
    BY GroupIs
  <1>2. ~Given(o, key) => FromDefault(harness, o, phase, key, group)
    BY GroupIs
  <1>3. Given(o, key) /\ \E v : group = TokensFor(render, v)
    <2> HIDE DEF spec, render, values
    <2> QED BY <1>1, <1>2 DEF FromValue, FromDefault, spec, render, values
  <1>4. group = tokens
    <2> HIDE DEF render
    <2> QED BY <1>3, FlagsSay DEF render
  <1> QED BY <1>3, <1>4

LEMMA ListRows ==
  ASSUME NEW harness, NEW phase, NEW key, NEW kind, NEW tokens,
         PlainRow(OptionsOf[harness][key], kind, Flags(tokens))
  PROVE  ~Defaulted(OptionsOf[harness][key]) /\ Rendering(harness, phase, key) = Flags(tokens)
  BY DEF PlainRow, Row, Rendering, ResolveRender

LEMMA ClaudeTold ==
  ASSUME NEW o, NEW phase, NEW key, key \notin {"discovery", "access"},
         OptionIssue("claude", o, phase, key) = "none",
         NEW group \in OptionGroups("claude", o, phase, key), NEW t \in Range(group)
  PROVE  /\ Given(o, key)
         /\ \/ key = "contextWindow" /\ t = Tok("--autocompact", Said("claude", o, key))
            \/ /\ key = "isolation" /\ phase = "launch"
               /\ t \in {Bare("--bare"), Tok("--tools", {}), Tok("--disallowedTools", {"mcp"}),
                         Bare("--strict-mcp-config")}
            \/ key = "effort" /\ t = Tok("--effort", Said("claude", o, key))
            \/ /\ key = "systemPrompt"
               /\ \/ t = Tok("--system-prompt", Said("claude", o, key))
                  \/ t = Bare("--exclude-dynamic-system-prompt-sections")
            \/ key = "appendSystemPrompt" /\ t = Tok("--append-system-prompt", Said("claude", o, key))
            \/ key = "agent" /\ t = Tok("--agent", Said("claude", o, key))
  <1> DEFINE harness == "claude"
             spec == ClaudeOptions[key]
  <1>1. OptionsOf[harness] = ClaudeOptions
    BY TablesAre
  <1>12. /\ Given(o, key) => FromValue(harness, o, phase, key, group)
         /\ ~Given(o, key) => FromDefault(harness, o, phase, key, group)
    BY GroupIs
  <1>2. key \in DOMAIN ClaudeOptions
    <2>1. key \in DOMAIN OptionsOf[harness]
      BY GroupIs
    <2> QED BY <1>1, <2>1
  <1>3. ASSUME NEW kind, NEW flag, PlainRow(spec, kind, Value(flag)), kind \notin {"toggle", "paths"}
        PROVE  Given(o, key) /\ t = Tok(flag, Said(harness, o, key))
    <2>1. PlainRow(OptionsOf[harness][key], kind, Value(flag))
      BY <1>1, <1>3
    <2> QED BY <1>3, <2>1, FlagTold
  <1>4. CASE key = "isolation"
    <2> DEFINE tokens == << Bare("--bare"), Tok("--tools", {}), Tok("--disallowedTools", {"mcp"}),
                            Bare("--strict-mcp-config") >>
    <2>1. Row(spec, "enum", Flags(tokens), Never) /\ ~Defaulted(spec)
      BY <1>4, ClaudeRows
    <2> HIDE DEF tokens
    <2>2. spec = OptionsOf[harness][key]
      BY <1>1
    <2>3. Given(o, key) /\ Rendering(harness, phase, key) # Never
      BY <1>1, <1>12, <2>1 DEF FromValue, FromDefault
    <2> HIDE DEF spec
    <2>4. phase = "launch" /\ Rendering(harness, phase, key) = Flags(tokens)
      BY <2>1, <2>2, <2>3 DEF Rendering, ResolveRender, Row
    <2>5. t \in Range(tokens)
      BY <2>1, <2>2, <2>4, ListTold
    <2>6. Range(tokens) = {Bare("--bare"), Tok("--tools", {}), Tok("--disallowedTools", {"mcp"}),
                           Bare("--strict-mcp-config")}
      <3> DEFINE a == Bare("--bare")
                 b == Tok("--tools", {})
                 c == Tok("--disallowedTools", {"mcp"})
                 d == Bare("--strict-mcp-config")
      <3>1. tokens = << a, b, c, d >>
        BY DEF tokens
      <3> HIDE DEF a, b, c, d
      <3>2. Range(tokens) = {a, b, c, d}
        BY <3>1, RangeFour
      <3> QED BY <3>2 DEF a, b, c, d
    <2> QED BY <1>4, <2>3, <2>4, <2>5, <2>6
  <1>5. CASE key = "systemPrompt"
    <2> DEFINE more == Bare("--exclude-dynamic-system-prompt-sections")
               render == ValueWith("--system-prompt", << more >>)
               values == Said(harness, o, key)
    <2>1. PlainRow(spec, "text", render)
      BY <1>5, ClaudeRows
    <2>2. spec = OptionsOf[harness][key]
      BY <1>1
    <2>7. spec.kind = "text" /\ ~Defaulted(spec)
      BY <2>1 DEF PlainRow, Row
    <2>3. Given(o, key) /\ group = TokensFor(Rendering(harness, phase, key), values)
      BY <1>1, <1>12, <2>7 DEF FromValue, FromDefault
    <2> HIDE DEF spec, more, render
    <2>4. Rendering(harness, phase, key) = render
      BY <2>1, <2>2 DEF Rendering, ResolveRender, PlainRow, Row
    <2> HIDE DEF values
    <2>5. group = << more, Tok("--system-prompt", values) >>
      BY <2>3, <2>4, ValueWithSays, Zenon DEF render
    <2>6. t = more \/ t = Tok("--system-prompt", values)
      BY <2>5, RangeTwo
    <2> QED BY <1>5, <2>3, <2>6 DEF more, values
  <1>6. CASE key = "memory"
    <2> DEFINE render == EnvVar("CLAUDE_CODE_DISABLE_AUTO_MEMORY")
    <2>1. PlainRow(spec, "toggle", render)
      BY <1>6, ClaudeRows
    <2>2. spec = OptionsOf[harness][key]
      BY <1>1
    <2>7. spec.kind = "toggle" /\ ~Defaulted(spec)
      BY <2>1 DEF PlainRow, Row
    <2>3. Given(o, key) /\ group = TokensFor(Rendering(harness, phase, key), {})
      BY <1>1, <1>12, <2>7 DEF FromValue, FromDefault
    <2> HIDE DEF spec, render
    <2>4. Rendering(harness, phase, key) = render
      BY <2>1, <2>2 DEF Rendering, ResolveRender, PlainRow, Row
    <2>5. group = << >>
      BY <2>3, <2>4, EnvSays, Zenon DEF render
    <2> QED BY <2>5, RangeNone, Zenon
  <1>7. CASE key = "contextWindow"
    <2>1. PlainRow(spec, "integer", Value("--autocompact"))
      BY <1>7, ClaudeRows
    <2> QED BY <1>3, <1>7, <2>1
  <1>8. CASE key = "effort"
    <2>1. PlainRow(spec, "effort", Value("--effort"))
      BY <1>8, ClaudeRows
    <2> QED BY <1>3, <1>8, <2>1
  <1>9. CASE key = "appendSystemPrompt"
    <2>1. PlainRow(spec, "text", Value("--append-system-prompt"))
      BY <1>9, ClaudeRows
    <2> QED BY <1>3, <1>9, <2>1
  <1>10. CASE key = "agent"
    <2>1. PlainRow(spec, "selector", Value("--agent"))
      BY <1>10, ClaudeRows
    <2> QED BY <1>3, <1>10, <2>1
  <1>11. key \in {"contextWindow", "isolation", "effort", "systemPrompt", "appendSystemPrompt",
                 "agent", "memory"}
    BY <1>2, ClaudeRows
  <1> QED BY <1>4, <1>5, <1>6, <1>7, <1>8, <1>9, <1>10, <1>11

LEMMA PiTold ==
  ASSUME NEW o, NEW phase, NEW key, key \notin {"discovery", "access"},
         OptionIssue("pi", o, phase, key) = "none",
         NEW group \in OptionGroups("pi", o, phase, key), NEW t \in Range(group)
  PROVE  /\ Given(o, key)
         /\ \/ key = "effort" /\ t = Tok("--thinking", Said("pi", o, key))
            \/ key = "provider" /\ t = Tok("--provider", Said("pi", o, key))
            \/ key = "agent" /\ t = Tok("--agent", Said("pi", o, key))
            \/ key = "systemPrompt" /\ t = Tok("--system-prompt", Said("pi", o, key))
            \/ key = "appendSystemPrompt" /\ t = Tok("--append-system-prompt", Said("pi", o, key))
            \/ key = "extensions" /\ t.flag = "-e"
  <1> DEFINE harness == "pi"
             spec == PiOptions[key]
  <1>1. OptionsOf[harness] = PiOptions
    BY TablesAre
  <1>2. key \in DOMAIN PiOptions
    <2>1. key \in DOMAIN OptionsOf[harness]
      BY GroupIs
    <2> QED BY <1>1, <2>1
  <1>3. ASSUME NEW kind, NEW flag, PlainRow(spec, kind, Value(flag)), kind \notin {"toggle", "paths"}
        PROVE  Given(o, key) /\ t = Tok(flag, Said(harness, o, key))
    <2>1. PlainRow(OptionsOf[harness][key], kind, Value(flag))
      BY <1>1, <1>3
    <2> QED BY <1>3, <2>1, FlagTold
  <1>4. ASSUME NEW kind, NEW tokens, PlainRow(spec, kind, Flags(tokens))
        PROVE  Given(o, key) /\ t \in Range(tokens)
    <2>1. PlainRow(OptionsOf[harness][key], kind, Flags(tokens))
      BY <1>1, <1>4
    <2>2. ~Defaulted(OptionsOf[harness][key]) /\ Rendering(harness, phase, key) = Flags(tokens)
      BY <2>1, ListRows
    <2> QED BY <2>2, ListTold
  <1>5. CASE key = "effort"
    <2>1. PlainRow(spec, "effort", Value("--thinking"))
      BY <1>5, PiRows
    <2> QED BY <1>3, <1>5, <2>1
  <1>6. CASE key = "provider"
    <2>1. PlainRow(spec, "selector", Value("--provider"))
      BY <1>6, PiRows
    <2> QED BY <1>3, <1>6, <2>1
  <1>7. CASE key = "agent"
    <2>1. PlainRow(spec, "selector", Value("--agent"))
      BY <1>7, PiRows
    <2> QED BY <1>3, <1>7, <2>1
  <1>8. CASE key = "systemPrompt"
    <2>1. PlainRow(spec, "text", Value("--system-prompt"))
      BY <1>8, PiRows
    <2> QED BY <1>3, <1>8, <2>1
  <1>9. CASE key = "appendSystemPrompt"
    <2>1. PlainRow(spec, "text", Value("--append-system-prompt"))
      BY <1>9, PiRows
    <2> QED BY <1>3, <1>9, <2>1
  <1>10. CASE key = "extensions"
    <2>1. PlainRow(spec, "paths", Value("-e"))
      BY <1>10, PiRows
    <2>2. spec = OptionsOf[harness][key]
      BY <1>1
    <2> HIDE DEF spec, harness
    <2>3. /\ Given(o, key) => FromValue(harness, o, phase, key, group)
          /\ ~Given(o, key) => FromDefault(harness, o, phase, key, group)
      BY GroupIs DEF harness
    <2>4. Given(o, key) /\ \E p : group = TokensFor(Rendering(harness, phase, key), {p})
      BY <2>1, <2>2, <2>3 DEF FromValue, FromDefault, PlainRow, Row
    <2>5. Rendering(harness, phase, key) = Value("-e")
      BY <2>1, <2>2 DEF Rendering, ResolveRender, PlainRow, Row
    <2>6. PICK p : group = << Tok("-e", {p}) >>
      BY <2>4, <2>5, ValueSays
    <2>7. t = Tok("-e", {p})
      BY <2>6, RangeOne
    <2>8. t.flag = "-e"
      BY <2>7 DEF Tok
    <2> QED BY <1>10, <2>4, <2>8
  <1>11. CASE key = "memory"
    <2>1. PlainRow(spec, "toggle", Flags(<< >>))
      BY <1>11, PiRows
    <2>2. Given(o, key) /\ t \in Range(<< >>)
      BY <1>4, <2>1
    <2> QED BY <1>11, <2>2, RangeNone
  <1>12. key \in {"effort", "provider", "agent", "systemPrompt", "appendSystemPrompt", "extensions", "memory"}
    BY <1>2, PiRows
  <1> QED BY <1>5, <1>6, <1>7, <1>8, <1>9, <1>10, <1>11, <1>12

LEMMA MuseTold ==
  ASSUME NEW o, NEW phase, NEW key, key \notin {"discovery", "access"},
         OptionIssue("muse", o, phase, key) = "none",
         NEW group \in OptionGroups("muse", o, phase, key), NEW t \in Range(group)
  PROVE  /\ Given(o, key)
         /\ \/ key = "effort" /\ t = Tok("--reasoning-effort", Said("muse", o, key))
            \/ key = "write" /\ t = Bare("--disable-write")
            \/ key = "shell" /\ t = Bare("--disable-shell")
            \/ key = "maxSteps" /\ t = Tok("--max-model-steps", Said("muse", o, key))
  <1> DEFINE harness == "muse"
             spec == MuseOptions[key]
  <1>1. OptionsOf[harness] = MuseOptions
    BY TablesAre
  <1>2. key \in DOMAIN MuseOptions
    <2>1. key \in DOMAIN OptionsOf[harness]
      BY GroupIs
    <2> QED BY <1>1, <2>1
  <1>3. ASSUME NEW kind, NEW flag, PlainRow(spec, kind, Value(flag)), kind \notin {"toggle", "paths"}
        PROVE  Given(o, key) /\ t = Tok(flag, Said(harness, o, key))
    <2>1. PlainRow(OptionsOf[harness][key], kind, Value(flag))
      BY <1>1, <1>3
    <2> QED BY <1>3, <2>1, FlagTold
  <1>4. ASSUME NEW kind, NEW tokens, PlainRow(spec, kind, Flags(tokens))
        PROVE  Given(o, key) /\ t \in Range(tokens)
    <2>1. PlainRow(OptionsOf[harness][key], kind, Flags(tokens))
      BY <1>1, <1>4
    <2>2. ~Defaulted(OptionsOf[harness][key]) /\ Rendering(harness, phase, key) = Flags(tokens)
      BY <2>1, ListRows
    <2> QED BY <2>2, ListTold
  <1>5. CASE key = "effort"
    <2>1. PlainRow(spec, "effort", Value("--reasoning-effort"))
      BY <1>5, MuseRows
    <2> QED BY <1>3, <1>5, <2>1
  <1>6. CASE key = "write"
    <2>1. PlainRow(spec, "toggle", Flags(<< Bare("--disable-write") >>))
      BY <1>6, MuseRows
    <2>2. Given(o, key) /\ t \in Range(<< Bare("--disable-write") >>)
      BY <1>4, <2>1
    <2> QED BY <1>6, <2>2, RangeOne
  <1>7. CASE key = "shell"
    <2>1. PlainRow(spec, "toggle", Flags(<< Bare("--disable-shell") >>))
      BY <1>7, MuseRows
    <2>2. Given(o, key) /\ t \in Range(<< Bare("--disable-shell") >>)
      BY <1>4, <2>1
    <2> QED BY <1>7, <2>2, RangeOne
  <1>8. CASE key = "maxSteps"
    <2>1. PlainRow(spec, "integer", Value("--max-model-steps"))
      BY <1>8, MuseRows
    <2> QED BY <1>3, <1>8, <2>1
  <1>9. key \in {"effort", "write", "shell", "maxSteps"}
    BY <1>2, MuseRows
  <1> QED BY <1>5, <1>6, <1>7, <1>8, <1>9

LEMMA CursorTold ==
  ASSUME NEW o, NEW phase, NEW key, key \notin {"discovery", "access"},
         OptionIssue("cursor", o, phase, key) = "none",
         NEW group \in OptionGroups("cursor", o, phase, key), NEW t \in Range(group)
  PROVE  FALSE
  <1> DEFINE harness == "cursor"
             spec == CursorOptions[key]
  <1>1. OptionsOf[harness] = CursorOptions
    BY TablesAre
  <1>2. key \in DOMAIN CursorOptions
    <2>1. key \in DOMAIN OptionsOf[harness]
      BY GroupIs
    <2> QED BY <1>1, <2>1
  <1>3. ASSUME NEW kind, NEW flag, PlainRow(spec, kind, Value(flag)), kind \notin {"toggle", "paths"}
        PROVE  Given(o, key) /\ t = Tok(flag, Said(harness, o, key))
    <2>1. PlainRow(OptionsOf[harness][key], kind, Value(flag))
      BY <1>1, <1>3
    <2> QED BY <1>3, <2>1, FlagTold
  <1>4. ASSUME NEW kind, NEW tokens, PlainRow(spec, kind, Flags(tokens))
        PROVE  Given(o, key) /\ t \in Range(tokens)
    <2>1. PlainRow(OptionsOf[harness][key], kind, Flags(tokens))
      BY <1>1, <1>4
    <2>2. ~Defaulted(OptionsOf[harness][key]) /\ Rendering(harness, phase, key) = Flags(tokens)
      BY <2>1, ListRows
    <2> QED BY <2>2, ListTold
  <1>5. CASE key = "effort"
    <2>1. PlainRow(spec, "in-model", Flags(<< >>))
      BY <1>5, CursorRows
    <2>2. Given(o, key) /\ t \in Range(<< >>)
      BY <1>4, <2>1
    <2> QED BY <1>5, <2>2, RangeNone
  <1>6. key \in {"effort"}
    BY <1>2, CursorRows
  <1> QED BY <1>5, <1>6

LEMMA AntigravityTold ==
  ASSUME NEW o, NEW phase, NEW key, key \notin {"discovery", "access"},
         OptionIssue("antigravity", o, phase, key) = "none",
         NEW group \in OptionGroups("antigravity", o, phase, key), NEW t \in Range(group)
  PROVE  /\ Given(o, key)
         /\ \/ key = "agent" /\ t = Tok("--agent", Said("antigravity", o, key))
            \/ key = "effort" /\ t = Tok("--effort", Said("antigravity", o, key))
            \/ key = "sandbox" /\ t = Bare("--sandbox")
  <1> DEFINE harness == "antigravity"
             spec == AntigravityOptions[key]
  <1>1. OptionsOf[harness] = AntigravityOptions
    BY TablesAre
  <1>2. key \in DOMAIN AntigravityOptions
    <2>1. key \in DOMAIN OptionsOf[harness]
      BY GroupIs
    <2> QED BY <1>1, <2>1
  <1>3. ASSUME NEW kind, NEW flag, PlainRow(spec, kind, Value(flag)), kind \notin {"toggle", "paths"}
        PROVE  Given(o, key) /\ t = Tok(flag, Said(harness, o, key))
    <2>1. PlainRow(OptionsOf[harness][key], kind, Value(flag))
      BY <1>1, <1>3
    <2> QED BY <1>3, <2>1, FlagTold
  <1>4. ASSUME NEW kind, NEW tokens, PlainRow(spec, kind, Flags(tokens))
        PROVE  Given(o, key) /\ t \in Range(tokens)
    <2>1. PlainRow(OptionsOf[harness][key], kind, Flags(tokens))
      BY <1>1, <1>4
    <2>2. ~Defaulted(OptionsOf[harness][key]) /\ Rendering(harness, phase, key) = Flags(tokens)
      BY <2>1, ListRows
    <2> QED BY <2>2, ListTold
  <1>5. CASE key = "agent"
    <2>1. PlainRow(spec, "selector", Value("--agent"))
      BY <1>5, AntigravityRows
    <2> QED BY <1>3, <1>5, <2>1
  <1>6. CASE key = "effort"
    <2>1. PlainRow(spec, "effort", Value("--effort"))
      BY <1>6, AntigravityRows
    <2> QED BY <1>3, <1>6, <2>1
  <1>7. CASE key = "sandbox"
    <2>1. PlainRow(spec, "enum", Flags(<< Bare("--sandbox") >>))
      BY <1>7, AntigravityRows
    <2>2. Given(o, key) /\ t \in Range(<< Bare("--sandbox") >>)
      BY <1>4, <2>1
    <2> QED BY <1>7, <2>2, RangeOne
  <1>8. key \in {"agent", "effort", "sandbox"}
    BY <1>2, AntigravityRows
  <1> QED BY <1>5, <1>6, <1>7, <1>8

LEMMA PopeyeTold ==
  ASSUME NEW o, NEW phase, NEW key, key \notin {"discovery", "access"},
         OptionIssue("popeye", o, phase, key) = "none",
         NEW group \in OptionGroups("popeye", o, phase, key), NEW t \in Range(group)
  PROVE  /\ Given(o, key)
         /\ \/ key = "effort" /\ t = Tok("--effort", Said("popeye", o, key))
            \/ key = "systemPrompt" /\ t = Tok("--system-prompt", Said("popeye", o, key))
            \/ key = "appendSystemPrompt" /\ t = Tok("--append-system-prompt", Said("popeye", o, key))
            \/ key = "contextWindow" /\ t = Tok("--context-window", Said("popeye", o, key))
            \/ key = "agent" /\ t = Tok("--agent", Said("popeye", o, key))
  <1> DEFINE harness == "popeye"
             spec == PopeyeOptions[key]
  <1>1. OptionsOf[harness] = PopeyeOptions
    BY TablesAre
  <1>2. key \in DOMAIN PopeyeOptions
    <2>1. key \in DOMAIN OptionsOf[harness]
      BY GroupIs
    <2> QED BY <1>1, <2>1
  <1>3. ASSUME NEW kind, NEW flag, PlainRow(spec, kind, Value(flag)), kind \notin {"toggle", "paths"}
        PROVE  Given(o, key) /\ t = Tok(flag, Said(harness, o, key))
    <2>1. PlainRow(OptionsOf[harness][key], kind, Value(flag))
      BY <1>1, <1>3
    <2> QED BY <1>3, <2>1, FlagTold
  <1>4. ASSUME NEW kind, NEW tokens, PlainRow(spec, kind, Flags(tokens))
        PROVE  Given(o, key) /\ t \in Range(tokens)
    <2>1. PlainRow(OptionsOf[harness][key], kind, Flags(tokens))
      BY <1>1, <1>4
    <2>2. ~Defaulted(OptionsOf[harness][key]) /\ Rendering(harness, phase, key) = Flags(tokens)
      BY <2>1, ListRows
    <2> QED BY <2>2, ListTold
  <1>5. CASE key = "effort"
    <2>1. PlainRow(spec, "effort", Value("--effort"))
      BY <1>5, PopeyeRows
    <2> QED BY <1>3, <1>5, <2>1
  <1>6. CASE key = "systemPrompt"
    <2>1. PlainRow(spec, "text", Value("--system-prompt"))
      BY <1>6, PopeyeRows
    <2> QED BY <1>3, <1>6, <2>1
  <1>7. CASE key = "appendSystemPrompt"
    <2>1. PlainRow(spec, "text", Value("--append-system-prompt"))
      BY <1>7, PopeyeRows
    <2> QED BY <1>3, <1>7, <2>1
  <1>8. CASE key = "contextWindow"
    <2>1. PlainRow(spec, "integer", Value("--context-window"))
      BY <1>8, PopeyeRows
    <2> QED BY <1>3, <1>8, <2>1
  <1>9. CASE key = "agent"
    <2>1. PlainRow(spec, "selector", Value("--agent"))
      BY <1>9, PopeyeRows
    <2> QED BY <1>3, <1>9, <2>1
  <1>10. CASE key = "memory"
    <2>1. PlainRow(spec, "toggle", Flags(<< >>))
      BY <1>10, PopeyeRows
    <2>2. Given(o, key) /\ t \in Range(<< >>)
      BY <1>4, <2>1
    <2> QED BY <1>10, <2>2, RangeNone
  <1>11. key \in {"effort", "systemPrompt", "appendSystemPrompt", "contextWindow", "agent", "memory"}
    BY <1>2, PopeyeRows
  <1> QED BY <1>5, <1>6, <1>7, <1>8, <1>9, <1>10, <1>11

\* Codex has one option with a default, and says it otherwise on a resume.
\* What a codex token t is, by the option key it is rendered for.
CodexTells(o, phase, key, t, said) ==
  \/ key = "contextWindow" /\ t = Tok("-c model_context_window", said)
  \/ key = "effort" /\ t = Tok("-c model_reasoning_effort", said)
  \/ key = "systemPrompt" /\ t = Tok("-c instructions", said)
  \/ key = "memory" /\ t = Tok("--disable", {"memories"})
  \/ /\ key = "sandbox" /\ Given(o, key) /\ phase = "launch"
     /\ t = Tok("--sandbox", said)
  \/ /\ key = "sandbox" /\ Given(o, key) /\ phase # "launch"
     /\ t = Tok("-c sandbox_mode", said)
  \/ /\ key = "sandbox" /\ ~Given(o, key) /\ ~Given(o, "access") /\ phase = "launch"
     /\ t = Tok("--sandbox", {"workspace-write"})

LEMMA CodexTold ==
  ASSUME NEW o, NEW phase, NEW key, key \notin {"discovery", "access"},
         OptionIssue("codex", o, phase, key) = "none",
         NEW group \in OptionGroups("codex", o, phase, key), NEW t \in Range(group)
  PROVE  /\ key # "sandbox" => Given(o, key)
         /\ CodexTells(o, phase, key, t, Said("codex", o, key))
  <1> SUFFICES
        /\ key # "sandbox" => Given(o, key)
        /\ \/ key = "contextWindow" /\ t = Tok("-c model_context_window", Said("codex", o, key))
           \/ key = "effort" /\ t = Tok("-c model_reasoning_effort", Said("codex", o, key))
           \/ key = "systemPrompt" /\ t = Tok("-c instructions", Said("codex", o, key))
           \/ key = "memory" /\ t = Tok("--disable", {"memories"})
           \/ /\ key = "sandbox" /\ Given(o, key) /\ phase = "launch"
              /\ t = Tok("--sandbox", Said("codex", o, key))
           \/ /\ key = "sandbox" /\ Given(o, key) /\ phase # "launch"
              /\ t = Tok("-c sandbox_mode", Said("codex", o, key))
           \/ /\ key = "sandbox" /\ ~Given(o, key) /\ ~Given(o, "access") /\ phase = "launch"
              /\ t = Tok("--sandbox", {"workspace-write"})
    BY Zenon DEF CodexTells
  <1> DEFINE harness == "codex"
             spec == CodexOptions[key]
  <1>1. OptionsOf[harness] = CodexOptions
    BY TablesAre
  <1>2. key \in DOMAIN CodexOptions
    <2>1. key \in DOMAIN OptionsOf[harness]
      BY GroupIs
    <2> QED BY <1>1, <2>1
  <1>3. ASSUME NEW kind, NEW flag, PlainRow(spec, kind, Value(flag)), kind \notin {"toggle", "paths"}
        PROVE  Given(o, key) /\ t = Tok(flag, Said(harness, o, key))
    <2>1. PlainRow(OptionsOf[harness][key], kind, Value(flag))
      BY <1>1, <1>3
    <2> QED BY <1>3, <2>1, FlagTold
  <1>4. ASSUME NEW kind, NEW tokens, PlainRow(spec, kind, Flags(tokens))
        PROVE  Given(o, key) /\ t \in Range(tokens)
    <2>1. PlainRow(OptionsOf[harness][key], kind, Flags(tokens))
      BY <1>1, <1>4
    <2>2. ~Defaulted(OptionsOf[harness][key]) /\ Rendering(harness, phase, key) = Flags(tokens)
      BY <2>1, ListRows
    <2> QED BY <2>2, ListTold
  <1>5. CASE key = "contextWindow"
    <2>1. PlainRow(spec, "integer", Value("-c model_context_window"))
      BY <1>5, CodexRows
    <2>2. Given(o, key) /\ t = Tok("-c model_context_window", Said(harness, o, key))
      <3> DEFINE flag == "-c model_context_window"
                 values == Said(harness, o, key)
      <3>1. PlainRow(spec, "integer", Value(flag))
        BY <2>1, Zenon
      <3> HIDE DEF flag
      <3>2. Given(o, key) /\ t = Tok(flag, values)
        BY <1>3, <3>1
      <3> HIDE DEF values
      <3> QED BY <3>2, Zenon DEF flag, values
    <2> QED BY <1>5, <2>2, Zenon
  <1>6. CASE key = "effort"
    <2>1. PlainRow(spec, "effort", Value("-c model_reasoning_effort"))
      BY <1>6, CodexRows
    <2>2. Given(o, key) /\ t = Tok("-c model_reasoning_effort", Said(harness, o, key))
      <3> DEFINE flag == "-c model_reasoning_effort"
                 values == Said(harness, o, key)
      <3>1. PlainRow(spec, "effort", Value(flag))
        BY <2>1, Zenon
      <3> HIDE DEF flag
      <3>2. Given(o, key) /\ t = Tok(flag, values)
        BY <1>3, <3>1
      <3> HIDE DEF values
      <3> QED BY <3>2, Zenon DEF flag, values
    <2> QED BY <1>6, <2>2, Zenon
  <1>7. CASE key = "systemPrompt"
    <2>1. PlainRow(spec, "text", Value("-c instructions"))
      BY <1>7, CodexRows
    <2>2. Given(o, key) /\ t = Tok("-c instructions", Said(harness, o, key))
      <3> DEFINE flag == "-c instructions"
                 values == Said(harness, o, key)
      <3>1. PlainRow(spec, "text", Value(flag))
        BY <2>1, Zenon
      <3> HIDE DEF flag
      <3>2. Given(o, key) /\ t = Tok(flag, values)
        BY <1>3, <3>1
      <3> HIDE DEF values
      <3> QED BY <3>2, Zenon DEF flag, values
    <2> QED BY <1>7, <2>2, Zenon
  <1>8. CASE key = "memory"
    <2> DEFINE off == Tok("--disable", {"memories"})
    <2>1. PlainRow(spec, "toggle", Flags(<< off >>))
      BY <1>8, CodexRows
    <2> HIDE DEF off
    <2>2. Given(o, key) /\ t \in Range(<< off >>)
      BY <1>4, <2>1
    <2>3. t = off
      BY <2>2, RangeOne
    <2> QED BY <1>8, <2>2, <2>3 DEF off
  <1>9. CASE key = "sandbox"
    <2> DEFINE flag == IF phase = "launch" THEN "--sandbox" ELSE "-c sandbox_mode"
               values == Said(harness, o, key)
               fallback == {"workspace-write"}
    <2>1. Row(spec, "enum", Value("--sandbox"), Value("-c sandbox_mode"))
          /\ spec.default = "workspace-write"
      BY <1>9, CodexRows
    <2>2. spec = OptionsOf[harness][key]
      BY <1>1
    <2>3. /\ Given(o, key) => FromValue(harness, o, phase, key, group)
          /\ ~Given(o, key) => FromDefault(harness, o, phase, key, group)
      BY GroupIs
    <2>4. Claimed(harness) = "sandbox"
      BY DEF Claimed, AccessOf, AccessSpec
    <2> HIDE DEF spec, harness
    <2>5. Rendering(harness, phase, key) = Value(flag)
      BY <2>1, <2>2 DEF Rendering, ResolveRender, Row
    <2>6. CASE Given(o, key)
      <3>1. group = TokensFor(Rendering(harness, phase, key), values)
        BY <2>1, <2>2, <2>3, <2>6 DEF FromValue, Row
      <3> HIDE DEF flag, values
      <3>2. group = << Tok(flag, values) >>
        BY <2>5, <3>1, ValueSays
      <3>3. t = Tok(flag, values)
        BY <3>2, RangeOne
      <3> QED BY <1>9, <2>6, <3>3 DEF flag, values, harness
    <2>7. CASE ~Given(o, key)
      <3>1. /\ phase = "launch" /\ ~Given(o, "access")
            /\ group = TokensFor(spec.launch, {spec.default})
        BY <1>9, <2>2, <2>3, <2>4, <2>7 DEF FromDefault
      <3>2. group = TokensFor(Value("--sandbox"), fallback)
        BY <2>1, <3>1 DEF Row
      <3> HIDE DEF fallback
      <3>3. group = << Tok("--sandbox", fallback) >>
        BY <3>2, ValueSays
      <3>4. t = Tok("--sandbox", fallback)
        BY <3>3, RangeOne
      <3> QED BY <1>9, <2>7, <3>1, <3>4 DEF fallback
    <2> QED BY <2>6, <2>7
  <1>10. key \in {"contextWindow", "effort", "systemPrompt", "sandbox", "memory"}
    BY <1>2, CodexRows
  <1> QED BY <1>5, <1>6, <1>7, <1>8, <1>9, <1>10

-----------------------------------------------------------------------------
(* What a harness may be told of discovery and of an access preset         *)

LEMMA DiscoveryTold ==
  ASSUME NEW harness, NEW o, NEW phase, OptionIssue(harness, o, phase, "discovery") = "none",
         NEW group \in OptionGroups(harness, o, phase, "discovery"), NEW t \in Range(group)
  PROVE  \/ /\ harness = "claude"
            /\ \/ t = Tok("--setting-sources", {"project"}) /\ "extensions" \in OffFacets(o)
               \/ t = Bare("--disable-slash-commands")
         \/ harness = "pi" /\ t \in {Bare("-nt"), Bare("-nc"), Bare("-ne"), Bare("-ns")}
  <1>1. DiscoveryIssue(harness, o) = "none" /\ OffFacets(o) # {}
        /\ \E f \in OffFacets(o) : group = DiscoveryOf[harness][f]
    BY DEF OptionIssue, OptionGroups
  <1>2. harness \in DOMAIN DiscoveryOf /\ OffFacets(o) \subseteq DOMAIN DiscoveryOf[harness]
    BY <1>1 DEF DiscoveryIssue
  <1>3. PICK f \in OffFacets(o) : group = DiscoveryOf[harness][f]
    BY <1>1
  <1>4. harness \in {"claude", "pi"} /\ f \in DOMAIN DiscoveryOf[harness]
    <2>1. DOMAIN DiscoveryOf = {"claude", "pi"}
      BY DEF DiscoveryOf
    <2> QED BY <1>2, <1>3, <2>1
  <1>5. CASE harness = "claude"
    <2> DEFINE sources == Tok("--setting-sources", {"project"})
               commands == Bare("--disable-slash-commands")
    <2>1. DiscoveryOf["claude"] = [extensions |-> << sources >>, skills |-> << commands >>]
      BY DEF DiscoveryOf
    <2> HIDE DEF sources, commands
    <2>4. f = "extensions" \/ f = "skills"
      BY <1>4, <1>5, <2>1
    <2>2. \/ f = "extensions" /\ group = << sources >>
          \/ f = "skills" /\ group = << commands >>
      BY <1>3, <1>5, <2>1, <2>4
    <2>3. \/ f = "extensions" /\ t = sources
          \/ f = "skills" /\ t = commands
      BY <2>2, RangeOne
    <2> QED BY <1>3, <1>5, <2>3 DEF sources, commands
  <1>6. CASE harness = "pi"
    <2> DEFINE a == Bare("-nt")
               b == Bare("-nc")
               c == Bare("-ne")
               d == Bare("-ns")
    <2>1. DiscoveryOf["pi"] = [tools |-> << a >>, instructionFiles |-> << b >>,
                               extensions |-> << c >>, skills |-> << d >>]
      BY DEF DiscoveryOf
    <2> HIDE DEF a, b, c, d
    <2>2. group = << a >> \/ group = << b >> \/ group = << c >> \/ group = << d >>
      BY <1>3, <1>4, <1>6, <2>1
    <2>3. t = a \/ t = b \/ t = c \/ t = d
      BY <2>2, RangeOne
    <2> QED BY <1>6, <2>3 DEF a, b, c, d
  <1> QED BY <1>4, <1>5, <1>6

\* The preset an option names, and how it is said.
PresetSaid(harness, o, phase) ==
  IF phase = "launch" THEN AccessOf[harness][o.access].launch ELSE AccessOf[harness][o.access].resume

LEMMA AccessIs ==
  ASSUME NEW harness, NEW o, NEW phase, OptionIssue(harness, o, phase, "access") = "none",
         NEW group \in OptionGroups(harness, o, phase, "access")
  PROVE  /\ Given(o, "access") /\ harness \in DOMAIN AccessOf
         /\ o.access = "read" \/ o.access = "write"
         /\ AccessOf[harness][o.access].how # "nothing"
         /\ AccessOf[harness][o.access].how = "tools" =>
              /\ o.access = "read"
              /\ group = ToolTokens(harness, Layers(<<
                           Only("tools", {c \in ReadPreset : HasCounterpart(harness, o, c)}),
                           Only("toolMap", IF Given(o, "toolMap") THEN o.toolMap ELSE <<>>) >>))
         /\ AccessOf[harness][o.access].how = "render" =>
              /\ PresetSaid(harness, o, phase).kind = "settings" =>
                   group = PresetSaid(harness, o, phase).extra
              /\ PresetSaid(harness, o, phase).kind # "settings" =>
                   group = TokensFor(PresetSaid(harness, o, phase), AccessOf[harness][o.access].vals)
  <1> DEFINE preset == AccessOf[harness][o.access]
             granted == {c \in ReadPreset : HasCounterpart(harness, o, c)}
             list == Layers(<< Only("tools", granted),
                               Only("toolMap", IF Given(o, "toolMap") THEN o.toolMap ELSE <<>>) >>)
             tools == ToolTokens(harness, list)
             render == IF phase = "launch" THEN preset.launch ELSE preset.resume
             said == IF render.kind = "settings" THEN render.extra ELSE TokensFor(render, preset.vals)
             twice == /\ Given(o, "autonomy") /\ o.autonomy
                      /\ harness \in DOMAIN AutonomyFlag
                      /\ render = Flags(<< Bare(AutonomyFlag[harness]) >>)
             shut == o.access # "read" \/ "tools" \in OffFacets(o) \/ granted = {}
  <1>1. Given(o, "access") /\ group \in AccessGroups(harness, o, phase)
    BY DEF OptionGroups
  <1>2. harness \in DOMAIN AccessOf /\ o.access \in AccessValues
    BY <1>1 DEF OptionIssue, AccessIssue
  <1>3. AccessGroups(harness, o, phase) =
          CASE preset.how = "nothing" -> {}
            [] preset.how = "tools" -> IF shut THEN {} ELSE {tools}
            [] OTHER -> IF twice THEN {} ELSE {said}
    BY Zenon DEF AccessGroups
  <1>4. shut => granted = {} \/ o.access # "read" \/ "tools" \in OffFacets(o)
    OBVIOUS
  <1>5. ~shut => o.access = "read"
    OBVIOUS
  <1> HIDE DEF tools, said, twice, shut, granted
  <1>6. /\ preset.how # "nothing"
        /\ preset.how = "tools" => ~shut /\ group = tools
        /\ preset.how = "render" => group = said
    <2> HIDE DEF preset
    <2>1. CASE preset.how = "nothing"
      BY <1>1, <1>3, <2>1
    <2>2. CASE preset.how = "tools"
      <3>1. AccessGroups(harness, o, phase) = IF shut THEN {} ELSE {tools}
        BY <1>3, <2>2
      <3> QED BY <1>1, <2>2, <3>1
    <2>3. CASE preset.how \notin {"nothing", "tools"}
      <3>1. AccessGroups(harness, o, phase) = IF twice THEN {} ELSE {said}
        BY <1>3, <2>3
      <3> QED BY <1>1, <2>3, <3>1
    <2> QED BY <2>1, <2>2, <2>3
  <1>7. o.access = "read" \/ o.access = "write"
    BY <1>2 DEF AccessValues
  <1>8. render = PresetSaid(harness, o, phase)
    BY Zenon DEF PresetSaid
  <1>9. preset.how = "tools" => o.access = "read" /\ group = tools
    BY <1>5, <1>6
  <1>10. preset.how = "render" =>
           /\ render.kind = "settings" => group = render.extra
           /\ render.kind # "settings" => group = TokensFor(render, preset.vals)
    BY <1>6 DEF said
  <1> HIDE DEF render
  <1>11. preset.how # "nothing"
    BY <1>6
  <1> QED BY <1>1, <1>2, <1>7, <1>8, <1>9, <1>10, <1>11 DEF tools, granted

\* What a strict list leaves, and what Claude is told to deny.
LeftTools(harness, o) ==
  IF Given(o, "tools") THEN NativeNames(harness, o, Canonical(o.tools)) \union Passed(o.tools)
  ELSE Range(Builtins(harness)) \ NativeNames(harness, o, Canonical(o.excludeTools))
DeniedTools(harness, o) ==
  IF Given(o, "tools")
  THEN KnownTools(harness) \ (IF o.tools = {} THEN {}
                              ELSE NativeNames(harness, o, Canonical(o.tools)))
  ELSE NativeNames(harness, o, Canonical(o.excludeTools)) \union Passed(o.excludeTools)

LEMMA ToolFlags ==
  /\ IncludeFlag["claude"] = "--allowedTools" /\ ExcludeFlag["claude"] = "--disallowedTools"
  /\ IncludeFlag["pi"] = "--tools" /\ IncludeFlag["popeye"] = "--tools"
  /\ DenySemantics["claude"] # "policy-gate" /\ DenySemantics["pi"] # "policy-gate"
  /\ DenySemantics["popeye"] # "policy-gate"
  BY DEF IncludeFlag, ExcludeFlag, DenySemantics

LEMMA StrictTokens ==
  ASSUME NEW harness \in {"pi", "popeye"}, NEW o, Given(o, "tools") \/ Given(o, "excludeTools")
  PROVE  ToolTokens(harness, o) = << Tok("--tools", LeftTools(harness, o)) >>
  <1>1. IncludeIsStrict(harness) /\ IncludeFlag[harness] = "--tools"
        /\ DenySemantics[harness] # "policy-gate"
    BY ToolFlags DEF IncludeIsStrict
  <1> DEFINE include == IncludeTokens(harness, o)
             exclude == ExcludeTokens(harness, o)
  <1>2. CASE Given(o, "tools")
    <2>1. ToolTokens(harness, o) = include
      BY <1>1, <1>2 DEF ToolTokens
    <2> DEFINE mapped == NativeNames(harness, o, Canonical(o.tools))
               passed == Passed(o.tools)
    <2>2. include = << Tok(IncludeFlag[harness], mapped \union passed) >>
      BY <1>1, Zenon DEF IncludeTokens
    <2>3. LeftTools(harness, o) = mapped \union passed
      BY <1>2 DEF LeftTools
    <2> HIDE DEF include, mapped, passed
    <2> QED BY <1>1, <2>1, <2>2, <2>3
  <1>3. CASE ~Given(o, "tools")
    <2>1. ToolTokens(harness, o) = exclude
      BY <1>1, <1>3 DEF ToolTokens
    <2> DEFINE left == Range(Builtins(harness)) \ NativeNames(harness, o, Canonical(o.excludeTools))
    <2>2. exclude = << Tok(IncludeFlag[harness], left) >>
      BY <1>1, Zenon DEF ExcludeTokens
    <2>3. LeftTools(harness, o) = left
      BY <1>3 DEF LeftTools
    <2> HIDE DEF exclude, left
    <2> QED BY <1>1, <2>1, <2>2, <2>3
  <1> QED BY <1>2, <1>3

LEMMA ClaudeTokens ==
  ASSUME NEW o, Given(o, "tools") \/ Given(o, "excludeTools")
  PROVE  ToolTokens("claude", o) =
           IF Given(o, "tools") /\ o.tools # {}
           THEN << Tok("--allowedTools", LeftTools("claude", o)),
                   Tok("--disallowedTools", DeniedTools("claude", o)) >>
           ELSE << Tok("--disallowedTools", DeniedTools("claude", o)) >>
  <1> DEFINE harness == "claude"
             include == IncludeTokens(harness, o)
             exclude == ExcludeTokens(harness, o)
  <1>1. ~IncludeIsStrict(harness) /\ IncludeFlag[harness] = "--allowedTools"
        /\ ExcludeFlag[harness] = "--disallowedTools" /\ DenySemantics[harness] # "policy-gate"
    BY ToolFlags DEF IncludeIsStrict
  <1> HIDE DEF harness
  <1>2. CASE Given(o, "tools")
    <2>1. ToolTokens(harness, o) = include
      BY <1>1, <1>2 DEF ToolTokens
    <2> DEFINE mapped == NativeNames(harness, o, Canonical(o.tools))
               passed == Passed(o.tools)
               known == KnownTools(harness)
    <2>2. include = IF o.tools = {} THEN << Tok(ExcludeFlag[harness], known) >>
                    ELSE << Tok(IncludeFlag[harness], mapped \union passed),
                            Tok(ExcludeFlag[harness], known \ mapped) >>
      BY <1>1, Zenon DEF IncludeTokens
    <2>3. LeftTools(harness, o) = mapped \union passed
      BY <1>2 DEF LeftTools
    <2>4. DeniedTools(harness, o) = IF o.tools = {} THEN known ELSE known \ mapped
      BY <1>2 DEF DeniedTools
    <2> HIDE DEF include, mapped, passed, known
    <2> QED BY <1>1, <1>2, <2>1, <2>2, <2>3, <2>4 DEF harness
  <1>3. CASE ~Given(o, "tools")
    <2>1. ToolTokens(harness, o) = exclude
      BY <1>1, <1>3 DEF ToolTokens
    <2> DEFINE denied == NativeNames(harness, o, Canonical(o.excludeTools)) \union Passed(o.excludeTools)
    <2>2. exclude = << Tok(ExcludeFlag[harness], denied) >>
      BY <1>1, Zenon DEF ExcludeTokens
    <2>3. DeniedTools(harness, o) = denied
      BY <1>3 DEF DeniedTools
    <2> HIDE DEF exclude, denied
    <2> QED BY <1>1, <1>3, <2>1, <2>2, <2>3 DEF harness
  <1> QED BY <1>2, <1>3

\* The tools that a preset stands for, as a list.
PresetList(harness, o) ==
  Layers(<< Only("tools", {c \in ReadPreset : HasCounterpart(harness, o, c)}),
            Only("toolMap", IF Given(o, "toolMap") THEN o.toolMap ELSE <<>>) >>)
ReadTools == {"Read", "Grep", "Glob", "WebFetch", "WebSearch"}
SandboxMode(o) == IF o.access = "read" THEN "read-only" ELSE "workspace-write"
SandboxFlag(phase) == IF phase = "launch" THEN "--sandbox" ELSE "-c sandbox_mode"

AccessTells(harness, o, phase, t) ==
  \/ /\ harness = "claude" /\ o.access = "read"
     /\ \/ t = Tok("--permission-mode", {"dontAsk"}) \/ t = Tok("--disallowedTools", {"mcp"})
        \/ t = Tok("--tools", ReadTools)
  \/ harness = "claude" /\ o.access = "write" /\ t = Tok("--permission-mode", {"acceptEdits"})
  \/ harness = "codex" /\ t = Tok(SandboxFlag(phase), {SandboxMode(o)})
  \/ harness = "muse" /\ t \in {Bare("--disable-write"), Bare("--disable-shell")}
  \/ /\ harness = "cursor" /\ o.access = "read"
     /\ t = Tok("--mode", {"ask"}) \/ t = Tok("--sandbox", {"enabled"})
  \/ harness = "cursor" /\ o.access = "write" /\ t = Bare("--force")
  \/ harness \in {"pi", "popeye"} /\ t = Tok("--tools", LeftTools(harness, PresetList(harness, o)))

LEMMA AccessHarnesses == DOMAIN AccessOf = {"claude", "codex", "pi", "muse", "cursor", "popeye"}
  BY DEF AccessOf

LEMMA ThirdToken ==
  ASSUME NEW a, NEW b, NEW c
  PROVE  Append(<< a, b >>, c) = << a, b, c >>
  <1> DEFINE s == << a, b >>
             r == << a, b, c >>
             S == {a, b, c}
             u == Append(s, c)
  <1>1. s \in Seq(S) /\ r \in Seq(S) /\ c \in S /\ Len(s) = 2 /\ Len(r) = 3
    OBVIOUS
  <1>2. u \in Seq(S) /\ Len(u) = 3 /\ u[1] = a /\ u[2] = b /\ u[3] = c
    OBVIOUS
  <1>3. r[1] = a /\ r[2] = b /\ r[3] = c
    OBVIOUS
  <1> HIDE DEF s, r, S, u
  <1>4. u = r
    <2>1. \A i \in 1 .. Len(u) : u[i] = r[i]
      BY <1>2, <1>3
    <2> QED BY <1>1, <1>2, <2>1, SeqEqual
  <1> QED BY <1>4 DEF u, s, r

LEMMA ClaudeAccess ==
  ASSUME NEW o, NEW phase, OptionIssue("claude", o, phase, "access") = "none",
         NEW group \in OptionGroups("claude", o, phase, "access"), NEW t \in Range(group)
  PROVE  AccessTells("claude", o, phase, t)
  <1> DEFINE ask == Tok("--permission-mode", {"dontAsk"})
             deny == Tok("--disallowedTools", {"mcp"})
             accept == Tok("--permission-mode", {"acceptEdits"})
             values == ReadTools
             read == ValueWith("--tools", << ask, deny >>)
             write == Settings(<< accept >>)
             box == {"sandbox"}
             harness == "claude"
  <1>2. /\ o.access = "read" \/ o.access = "write"
        /\ AccessOf[harness][o.access].how = "render" =>
              /\ PresetSaid(harness, o, phase).kind = "settings" =>
                   group = PresetSaid(harness, o, phase).extra
              /\ PresetSaid(harness, o, phase).kind # "settings" =>
                   group = TokensFor(PresetSaid(harness, o, phase), AccessOf[harness][o.access].vals)
    BY AccessIs
  <1> DEFINE reads == Through(read, values, TRUE)
             writes == Through(write, box, FALSE)
             none == ""
  <1>1. AccessOf["claude"] = AccessSpec(reads, writes, none)
    BY Zenon DEF AccessOf, ReadTools
  <1>3. AccessOf["claude"].read = reads /\ AccessOf["claude"].write = writes
    <2> HIDE DEF reads, writes, none
    <2> QED BY <1>1 DEF AccessSpec
  <1>4. /\ reads.how = "render" /\ reads.launch = read /\ reads.resume = read /\ reads.vals = values
        /\ writes.how = "render" /\ writes.launch = write /\ writes.resume = write
    <2> HIDE DEF read, write, values, box
    <2> QED BY DEF Through
  <1>5. read.kind = "value" /\ read.extra = << ask, deny >> /\ read.flag = "--tools"
    BY DEF ValueWith
  <1>6. write.kind = "settings" /\ write.extra = << accept >>
    BY DEF Settings
  <1> HIDE DEF ask, deny, accept, values, read, write, box, reads, writes
  <1>7. CASE o.access = "read"
    <2>1. AccessOf[harness][o.access] = reads
      BY <1>3, <1>7
    <2>2. PresetSaid(harness, o, phase) = read
      BY <1>4, <2>1 DEF PresetSaid
    <2>3. group = TokensFor(read, values)
      BY <1>2, <1>4, <1>5, <2>1, <2>2
    <2>4. group = Append(<< ask, deny >>, Tok("--tools", values))
      BY <1>5, <2>3 DEF TokensFor
    <2> DEFINE tools == Tok("--tools", values)
    <2> HIDE DEF tools
    <2>5. group = << ask, deny, tools >>
      <3>1. group = Append(<< ask, deny >>, tools)
        BY <2>4, Zenon DEF tools
      <3> QED BY <3>1, ThirdToken, Zenon
    <2>6. t = ask \/ t = deny \/ t = tools
      BY <2>5 DEF Range
    <2> QED BY <1>7, <2>6 DEF AccessTells, ask, deny, tools, values
  <1>8. CASE o.access = "write"
    <2>1. AccessOf[harness][o.access] = writes
      BY <1>3, <1>8
    <2>2. PresetSaid(harness, o, phase) = write
      BY <1>4, <2>1 DEF PresetSaid
    <2>3. group = << accept >>
      BY <1>2, <1>4, <1>6, <2>1, <2>2
    <2>4. t = accept
      BY <2>3, RangeOne
    <2> QED BY <1>8, <2>4 DEF AccessTells, accept
  <1> QED BY <1>2, <1>7, <1>8

LEMMA CodexAccess ==
  ASSUME NEW o, NEW phase, OptionIssue("codex", o, phase, "access") = "none",
         NEW group \in OptionGroups("codex", o, phase, "access"), NEW t \in Range(group)
  PROVE  AccessTells("codex", o, phase, t)
  <1> DEFINE harness == "codex"
             mode == SandboxMode(o)
             flag == SandboxFlag(phase)
             preset == AccessOf[harness][o.access]
             launched == Value("--sandbox")
             resumed == Value("-c sandbox_mode")
             modes == {mode}
             through == Through(launched, modes, FALSE)
  <1>1. /\ o.access = "read" \/ o.access = "write"
        /\ preset.how = "render" =>
              /\ PresetSaid(harness, o, phase).kind = "settings" =>
                   group = PresetSaid(harness, o, phase).extra
              /\ PresetSaid(harness, o, phase).kind # "settings" =>
                   group = TokensFor(PresetSaid(harness, o, phase), preset.vals)
    BY AccessIs
  <1>2. preset = SandboxPreset(mode)
    <2>1. /\ AccessOf["codex"].read = SandboxPreset("read-only")
          /\ AccessOf["codex"].write = SandboxPreset("workspace-write")
      BY DEF AccessOf, AccessSpec
    <2> QED BY <1>1, <2>1 DEF SandboxMode
  <1>3. preset = [through EXCEPT !.resume = resumed]
    BY <1>2, Zenon DEF SandboxPreset
  <1> HIDE DEF mode, launched, resumed
  <1>4. /\ through.how = "render" /\ through.launch = launched /\ through.vals = modes
        /\ DOMAIN through = {"how", "launch", "resume", "vals", "after"}
    <2> HIDE DEF modes
    <2> QED BY DEF Through
  <1> HIDE DEF modes, through
  <1>5. preset.how = "render" /\ preset.launch = launched /\ preset.resume = resumed /\ preset.vals = modes
    <2> HIDE DEF preset
    <2> QED BY <1>3, <1>4
  <1>6. PresetSaid(harness, o, phase) = Value(flag)
    <2>1. PresetSaid(harness, o, phase) = IF phase = "launch" THEN preset.launch ELSE preset.resume
      BY Zenon DEF PresetSaid
    <2>2. CASE phase = "launch"
      <3>1. flag = "--sandbox"
        BY <2>2 DEF SandboxFlag
      <3> HIDE DEF flag, preset, harness
      <3> QED BY <1>5, <2>1, <2>2, <3>1 DEF launched
    <2>3. CASE phase # "launch"
      <3>1. flag = "-c sandbox_mode"
        BY <2>3, Zenon DEF SandboxFlag
      <3> HIDE DEF flag, preset, harness
      <3>2. PresetSaid(harness, o, phase) = resumed
        BY <1>5, <2>1, <2>3
      <3> QED BY <3>1, <3>2, Zenon DEF resumed
    <2> QED BY <2>2, <2>3
  <1> HIDE DEF flag, preset
  <1>7. Value(flag).kind = "value"
    BY DEF Value
  <1>8. group = TokensFor(Value(flag), modes)
    BY <1>1, <1>5, <1>6, <1>7
  <1>9. group = << Tok(flag, modes) >>
    BY <1>8, ValueSays
  <1>10. t = Tok(flag, modes)
    BY <1>9, RangeOne
  <1> QED BY <1>10, Zenon DEF AccessTells, flag, modes, mode

LEMMA MuseAccess ==
  ASSUME NEW o, NEW phase, OptionIssue("muse", o, phase, "access") = "none",
         NEW group \in OptionGroups("muse", o, phase, "access"), NEW t \in Range(group)
  PROVE  AccessTells("muse", o, phase, t)
  <1> DEFINE harness == "muse"
             a == Bare("--disable-write")
             b == Bare("--disable-shell")
             render == Flags(<< a, b >>)
             through == Through(render, {}, FALSE)
  <1>1. /\ o.access = "read" \/ o.access = "write"
        /\ AccessOf[harness][o.access].how # "nothing"
        /\ AccessOf[harness][o.access].how = "render" =>
              /\ PresetSaid(harness, o, phase).kind # "settings" =>
                   group = TokensFor(PresetSaid(harness, o, phase), AccessOf[harness][o.access].vals)
    BY AccessIs
  <1>2. AccessOf["muse"].read = through /\ AccessOf["muse"].write = NoRestriction
    BY DEF AccessOf, AccessSpec
  <1>3. o.access = "read"
    BY <1>1, <1>2 DEF NoRestriction
  <1> HIDE DEF a, b
  <1>4. through.how = "render" /\ through.launch = render /\ through.resume = render
    <2> HIDE DEF render
    <2> QED BY DEF Through
  <1>5. render.kind = "list"
    BY DEF Flags
  <1> HIDE DEF render, through
  <1>6. PresetSaid(harness, o, phase) = render
    BY <1>2, <1>3, <1>4 DEF PresetSaid
  <1>7. group = TokensFor(render, AccessOf[harness][o.access].vals)
    BY <1>1, <1>2, <1>3, <1>4, <1>5, <1>6
  <1>8. group = << a, b >>
    BY <1>7, FlagsSay DEF render
  <1>9. t = a \/ t = b
    BY <1>8, RangeTwo
  <1> QED BY <1>9 DEF AccessTells, a, b

LEMMA CursorAccess ==
  ASSUME NEW o, NEW phase, OptionIssue("cursor", o, phase, "access") = "none",
         NEW group \in OptionGroups("cursor", o, phase, "access"), NEW t \in Range(group)
  PROVE  AccessTells("cursor", o, phase, t)
  <1> DEFINE harness == "cursor"
             a == Tok("--mode", {"ask"})
             b == Tok("--sandbox", {"enabled"})
             c == Bare("--force")
             read == Flags(<< a, b >>)
             write == Flags(<< c >>)
             reads == Through(read, {}, FALSE)
             writes == Through(write, {}, FALSE)
  <1>1. /\ o.access = "read" \/ o.access = "write"
        /\ AccessOf[harness][o.access].how = "render" =>
              /\ PresetSaid(harness, o, phase).kind # "settings" =>
                   group = TokensFor(PresetSaid(harness, o, phase), AccessOf[harness][o.access].vals)
    BY AccessIs
  <1>2. AccessOf["cursor"].read = reads /\ AccessOf["cursor"].write = writes
    BY DEF AccessOf, AccessSpec
  <1>3. /\ reads.how = "render" /\ reads.launch = read /\ reads.resume = read
        /\ writes.how = "render" /\ writes.launch = write /\ writes.resume = write
    <2> HIDE DEF read, write
    <2> QED BY DEF Through
  <1> HIDE DEF a, b, c
  <1>4. read.kind = "list" /\ write.kind = "list"
    BY DEF Flags
  <1> HIDE DEF read, write, reads, writes
  <1>5. CASE o.access = "read"
    <2>1. PresetSaid(harness, o, phase) = read
      BY <1>2, <1>3, <1>5 DEF PresetSaid
    <2>2. group = TokensFor(read, AccessOf[harness][o.access].vals)
      BY <1>1, <1>2, <1>3, <1>4, <1>5, <2>1
    <2>3. group = << a, b >>
      BY <2>2, FlagsSay DEF read
    <2>4. t = a \/ t = b
      BY <2>3, RangeTwo
    <2> QED BY <1>5, <2>4 DEF AccessTells, a, b
  <1>6. CASE o.access = "write"
    <2>1. PresetSaid(harness, o, phase) = write
      BY <1>2, <1>3, <1>6 DEF PresetSaid
    <2>2. group = TokensFor(write, AccessOf[harness][o.access].vals)
      BY <1>1, <1>2, <1>3, <1>4, <1>6, <2>1
    <2>3. group = << c >>
      BY <2>2, FlagsSay DEF write
    <2>4. t = c
      BY <2>3, RangeOne
    <2> QED BY <1>6, <2>4 DEF AccessTells, c
  <1> QED BY <1>1, <1>5, <1>6

LEMMA StrictAccess ==
  ASSUME NEW harness \in {"pi", "popeye"}, NEW o, NEW phase,
         OptionIssue(harness, o, phase, "access") = "none",
         NEW group \in OptionGroups(harness, o, phase, "access"), NEW t \in Range(group)
  PROVE  AccessTells(harness, o, phase, t)
  <1> DEFINE list == PresetList(harness, o)
             granted == {c \in ReadPreset : HasCounterpart(harness, o, c)}
             map == Only("toolMap", IF Given(o, "toolMap") THEN o.toolMap ELSE <<>>)
             first == Only("tools", granted)
  <1>1. /\ o.access = "read" \/ o.access = "write"
        /\ AccessOf[harness][o.access].how # "nothing"
        /\ AccessOf[harness][o.access].how = "tools" =>
              group = ToolTokens(harness, Layers(<<
                           Only("tools", {c \in ReadPreset : HasCounterpart(harness, o, c)}),
                           Only("toolMap", IF Given(o, "toolMap") THEN o.toolMap ELSE <<>>) >>))
    BY AccessIs
  <1>2. AccessOf[harness].read = ThroughTools /\ AccessOf[harness].write = NoRestriction
    <2>1. AccessOf["pi"].read = ThroughTools /\ AccessOf["pi"].write = NoRestriction
      BY DEF AccessOf, AccessSpec
    <2>2. AccessOf["popeye"].read = ThroughTools /\ AccessOf["popeye"].write = NoRestriction
      BY DEF AccessOf, AccessSpec
    <2> QED BY <2>1, <2>2
  <1>3. AccessOf[harness][o.access].how = "tools"
    BY <1>1, <1>2 DEF ThroughTools, NoRestriction
  <1>4. group = ToolTokens(harness, list)
    BY <1>1, <1>3, Zenon DEF PresetList
  <1>5. Given(list, "tools")
    <2>1. list = Layers(<< first, map >>)
      BY Zenon DEF PresetList
    <2>2. DOMAIN first = {"tools"}
      <3> HIDE DEF granted
      <3> QED BY OnlyHas
    <2> HIDE DEF first, map, list
    <2>3. DOMAIN Layers(<< first, map >>) = DOMAIN first \union DOMAIN map
      BY TwoLayers
    <2> QED BY <2>1, <2>2, <2>3 DEF Given
  <1> HIDE DEF list
  <1>6. group = << Tok("--tools", LeftTools(harness, list)) >>
    BY <1>4, <1>5, StrictTokens
  <1>7. t = Tok("--tools", LeftTools(harness, list))
    BY <1>6, RangeOne
  <1> QED BY <1>7 DEF AccessTells, list

LEMMA AccessTold ==
  ASSUME NEW harness, NEW o, NEW phase, OptionIssue(harness, o, phase, "access") = "none",
         NEW group \in OptionGroups(harness, o, phase, "access"), NEW t \in Range(group)
  PROVE  Given(o, "access") /\ AccessTells(harness, o, phase, t)
  <1>1. Given(o, "access") /\ harness \in DOMAIN AccessOf
    BY AccessIs
  <1>2. harness \in {"claude", "codex", "pi", "muse", "cursor", "popeye"}
    BY <1>1, AccessHarnesses
  <1>3. CASE harness = "claude"
    BY <1>1, <1>3, ClaudeAccess
  <1>4. CASE harness = "codex"
    BY <1>1, <1>4, CodexAccess
  <1>5. CASE harness = "muse"
    BY <1>1, <1>5, MuseAccess
  <1>6. CASE harness = "cursor"
    BY <1>1, <1>6, CursorAccess
  <1>7. CASE harness \in {"pi", "popeye"}
    BY <1>1, <1>7, StrictAccess
  <1> QED BY <1>2, <1>3, <1>4, <1>5, <1>6, <1>7

-----------------------------------------------------------------------------
(* What a session is never told                                            *)

SandboxFlags == {"--sandbox", "-c sandbox_mode"}
Unboxed(group) == \A t \in Range(group) : t.flag \notin SandboxFlags

LEMMA TokFlag ==
  ASSUME NEW flag, NEW vals
  PROVE  Tok(flag, vals).flag = flag /\ Tok(flag, vals).vals = vals
  BY DEF Tok

LEMMA UnboxedOne ==
  ASSUME NEW flag, NEW vals, flag \notin SandboxFlags
  PROVE  Unboxed(<< Tok(flag, vals) >>)
  BY RangeOne, TokFlag DEF Unboxed

LEMMA UnboxedNone == Unboxed(<< >>)
  BY RangeNone DEF Unboxed

LEMMA UnboxedTwo ==
  ASSUME NEW flag, NEW vals, NEW flag2, NEW vals2, flag \notin SandboxFlags, flag2 \notin SandboxFlags
  PROVE  Unboxed(<< Tok(flag, vals), Tok(flag2, vals2) >>)
  <1> DEFINE a == Tok(flag, vals)
             b == Tok(flag2, vals2)
  <1>1. a.flag \notin SandboxFlags /\ b.flag \notin SandboxFlags
    BY TokFlag
  <1> HIDE DEF a, b
  <1>2. \A t \in Range(<< a, b >>) : t = a \/ t = b
    BY RangeTwo
  <1>3. Unboxed(<< a, b >>)
    BY <1>1, <1>2, Zenon DEF Unboxed
  <1> QED BY <1>3 DEF a, b

LEMMA NoneOfSix ==
  ASSUME NEW a, NEW b, NEW c, NEW d, NEW e, NEW f, FirstIssue(<< a, b, c, d, e, f >>) = "none"
  PROVE  a = "none" /\ b = "none" /\ c = "none" /\ d = "none" /\ e = "none" /\ f = "none"
  <1> DEFINE issues == << a, b, c, d, e, f >>
  <1>1. /\ DOMAIN issues = 1 .. 6 /\ issues[1] = a /\ issues[2] = b /\ issues[3] = c
        /\ issues[4] = d /\ issues[5] = e /\ issues[6] = f
    OBVIOUS
  <1>2. \A i \in DOMAIN issues : issues[i] = "none"
    BY <1>1, NothingFound
  <1> QED BY <1>1, <1>2

\* What a session passed, issue by issue.
LEMMA SessionPassed ==
  ASSUME NEW harness, NEW o, SessionIssue(harness, o) = "none"
  PROVE  /\ ScopesIssue(harness, o) = "none" /\ SessionPermissionsIssue(harness, o) = "none"
         /\ RenderedIssue(harness, o, SessionOptionKeys) = "none"
         /\ SkillsIssue(harness, o) = "none"
         /\ Given(o, "nativeApprovals") => harness \in DOMAIN SessionApprovals
  <1> DEFINE armed == Given(o, "nativeApprovals") /\ harness \notin DOMAIN SessionApprovals
             a == ScopesIssue(harness, o)
             b == SessionPermissionsIssue(harness, o)
             c == ModelIssue(harness, o)
             d == RenderedIssue(harness, o, SessionOptionKeys)
             e == SkillsIssue(harness, o)
             f == IssueIf(armed, "unsupported-option")
  <1>1. FirstIssue(<< a, b, c, d, e, f >>) = "none"
    BY Zenon DEF SessionIssue
  <1>2. a = "none" /\ b = "none" /\ d = "none" /\ e = "none" /\ f = "none"
    <2> HIDE DEF a, b, c, d, e, f
    <2> QED BY <1>1, NoneOfSix
  <1>3. ~armed
    <2> HIDE DEF armed
    <2> QED BY <1>2 DEF IssueIf
  <1> QED BY <1>2, <1>3

LEMMA PermissionsPassed ==
  ASSUME NEW harness, NEW o, SessionPermissionsIssue(harness, o) = "none",
         SessionPermissionKeys \intersect DOMAIN o # {}
  PROVE  /\ harness \in {"claude", "pi"}
         /\ AccessAloneIssue(harness, o, DOMAIN o) = "none"
         /\ AutonomyIssue(harness, o) = "none" /\ ToolIssue(harness, o) = "none"
         /\ RenderedIssue(harness, o, {"access", "discovery"}) = "none"
  <1> DEFINE other == harness \notin SessionPermissions
             a == IssueIf(other, "unsupported-option")
             b == AccessAloneIssue(harness, o, DOMAIN o)
             c == AutonomyIssue(harness, o)
             d == ToolIssue(harness, o)
             e == RenderedIssue(harness, o, {"access", "discovery"})
  <1>1. FirstIssue(<< a, b, c, d, e >>) = "none"
    BY Zenon DEF SessionPermissionsIssue
  <1>2. a = "none" /\ b = "none" /\ c = "none" /\ d = "none" /\ e = "none"
    <2> HIDE DEF a, b, c, d, e
    <2> QED BY <1>1, NoneOfFive
  <1>3. ~other
    <2> HIDE DEF other
    <2> QED BY <1>2 DEF IssueIf
  <1> QED BY <1>2, <1>3 DEF SessionPermissions

\* The options of a session are looked at before they are rendered.
LEMMA SessionKeysPass ==
  ASSUME NEW harness, NEW o, SessionIssue(harness, o) = "none",
         NEW key \in SessionOptionKeys \union {"access", "discovery"}
  PROVE  /\ OptionIssue(harness, o, "resume", key) = "none"
         /\ key = "access" /\ Given(o, "access") => harness \in {"claude", "pi"}
  <1>1. key \in Range(TurnOptionKeys)
    <2>1. TurnOptionKeys[2] = "effort" /\ TurnOptionKeys[4] = "contextWindow"
          /\ TurnOptionKeys[5] = "provider" /\ TurnOptionKeys[6] = "discovery"
          /\ TurnOptionKeys[13] = "access" /\ TurnOptionKeys[15] = "agent"
          /\ DOMAIN TurnOptionKeys = 1 .. 15
      BY DEF TurnOptionKeys
    <2> QED BY <2>1 DEF Range, SessionOptionKeys
  <1>2. CASE key \in SessionOptionKeys
    <2>1. KeysIssue(harness, o, "resume", SessionOptionKeys) = "none"
      BY SessionPassed DEF RenderedIssue
    <2>2. OptionIssue(harness, o, "resume", key) = "none"
      BY <1>1, <1>2, <2>1, KeysPass
    <2>3. key # "access"
      BY <1>2 DEF SessionOptionKeys
    <2> QED BY <2>2, <2>3
  <1>3. CASE key \in {"access", "discovery"} /\ SessionPermissionKeys \intersect DOMAIN o # {}
    <2>1. SessionPermissionsIssue(harness, o) = "none"
      BY SessionPassed
    <2>2. harness \in {"claude", "pi"} /\ RenderedIssue(harness, o, {"access", "discovery"}) = "none"
      BY <1>3, <2>1, PermissionsPassed
    <2>3. KeysIssue(harness, o, "resume", {"access", "discovery"}) = "none"
      BY <2>2 DEF RenderedIssue
    <2>4. OptionIssue(harness, o, "resume", key) = "none"
      BY <1>1, <1>3, <2>3, KeysPass
    <2> QED BY <2>2, <2>4
  <1>4. CASE key \in {"access", "discovery"} /\ SessionPermissionKeys \intersect DOMAIN o = {}
    <2>1. ~Given(o, "access") /\ ~Given(o, "discovery")
      BY <1>4 DEF SessionPermissionKeys, Given
    <2>2. OffFacets(o) = {}
      BY <2>1 DEF OffFacets
    <2> QED BY <1>4, <2>1, <2>2 DEF OptionIssue, AccessIssue, DiscoveryIssue
  <1> QED BY <1>2, <1>3, <1>4

LEMMA FlagsApart ==
  /\ "--autocompact" \notin SandboxFlags /\ "--effort" \notin SandboxFlags
  /\ "--agent" \notin SandboxFlags /\ "--thinking" \notin SandboxFlags
  /\ "--provider" \notin SandboxFlags /\ "--reasoning-effort" \notin SandboxFlags
  /\ "--context-window" \notin SandboxFlags /\ "-c model_context_window" \notin SandboxFlags
  /\ "-c model_reasoning_effort" \notin SandboxFlags
  BY Zenon DEF SandboxFlags

LEMMA GrantFlagsApart ==
  /\ "--setting-sources" \notin SandboxFlags /\ "--disable-slash-commands" \notin SandboxFlags
  /\ "-nt" \notin SandboxFlags /\ "-nc" \notin SandboxFlags /\ "-ne" \notin SandboxFlags
  /\ "-ns" \notin SandboxFlags /\ "--permission-mode" \notin SandboxFlags
  /\ "--disallowedTools" \notin SandboxFlags /\ "--tools" \notin SandboxFlags
  /\ "--allowedTools" \notin SandboxFlags /\ "--skill" \notin SandboxFlags
  /\ "-c skills.config" \notin SandboxFlags /\ "--dangerously-skip-permissions" \notin SandboxFlags
  /\ "--settings" \notin SandboxFlags /\ "--model" \notin SandboxFlags
  /\ "-c model" \notin SandboxFlags /\ "--permission-prompt-tool" \notin SandboxFlags
  /\ "--session-id" \notin SandboxFlags /\ "--resume" \notin SandboxFlags
  /\ "--conversation" \notin SandboxFlags
  BY Zenon DEF SandboxFlags

LEMMA SessionTold ==
  ASSUME NEW harness \in HarnessNames, NEW o, SessionIssue(harness, o) = "none",
         NEW key \in SessionOptionKeys \union {"access", "discovery"},
         NEW group \in OptionGroups(harness, o, "resume", key), NEW t \in Range(group)
  PROVE  t.flag \notin SandboxFlags
  <1>1. OptionIssue(harness, o, "resume", key) = "none"
        /\ (key = "access" /\ Given(o, "access") => harness \in {"claude", "pi"})
    BY SessionKeysPass
  <1>2. ASSUME NEW flag, NEW vals, t = Tok(flag, vals), flag \notin SandboxFlags
        PROVE  t.flag \notin SandboxFlags
    BY <1>2, TokFlag
  <1>3. CASE key = "discovery"
    <2>1. \/ t = Tok("--setting-sources", {"project"}) \/ t = Bare("--disable-slash-commands")
          \/ t \in {Bare("-nt"), Bare("-nc"), Bare("-ne"), Bare("-ns")}
      BY <1>1, <1>3, DiscoveryTold
    <2> QED BY <1>2, <2>1, GrantFlagsApart DEF Bare
  <1>4. CASE key = "access"
    <2>1. Given(o, "access") /\ AccessTells(harness, o, "resume", t)
      BY <1>1, <1>4, AccessTold
    <2>2. harness \in {"claude", "pi"}
      BY <1>1, <1>4, <2>1
    <2>3. \E vals : \E flag \in {"--permission-mode", "--disallowedTools", "--tools"} :
               t = Tok(flag, vals)
      BY <2>1, <2>2 DEF AccessTells
    <2> QED BY <1>2, <2>3, GrantFlagsApart
  <1>5. CASE key \notin {"access", "discovery"}
    <2>1. key \in {"effort", "provider", "agent", "contextWindow"}
      BY <1>5 DEF SessionOptionKeys
    <2> DEFINE values == Said(harness, o, key)
    <2>2. CASE harness = "claude"
      <3>1. \/ t = Tok("--autocompact", values) \/ t = Tok("--effort", values) \/ t = Tok("--agent", values)
        BY <1>1, <1>5, <2>1, <2>2, ClaudeTold
      <3> HIDE DEF values
      <3> QED BY <1>2, <3>1, FlagsApart
    <2>3. CASE harness = "codex"
      <3>1. \/ t = Tok("-c model_context_window", values) \/ t = Tok("-c model_reasoning_effort", values)
        <4>1. key \notin {"discovery", "access"} /\ key # "systemPrompt" /\ key # "memory" /\ key # "sandbox"
          BY <2>1
        <4>2. OptionIssue("codex", o, "resume", key) = "none"
              /\ group \in OptionGroups("codex", o, "resume", key)
              /\ values = Said("codex", o, key)
          BY <1>1, <2>3
        <4> HIDE DEF values
        <4> DEFINE window == Tok("-c model_context_window", values)
                   depth == Tok("-c model_reasoning_effort", values)
                   instruct == Tok("-c instructions", values)
                   keep == Tok("--disable", {"memories"})
                   boxed == Tok("--sandbox", values)
                   mode == Tok("-c sandbox_mode", values)
                   usual == Tok("--sandbox", {"workspace-write"})
        <4>3. \/ key = "contextWindow" /\ t = window
              \/ key = "effort" /\ t = depth
              \/ key = "systemPrompt" /\ t = instruct
              \/ key = "memory" /\ t = keep
              \/ key = "sandbox" /\ Given(o, key) /\ "resume" = "launch" /\ t = boxed
              \/ key = "sandbox" /\ Given(o, key) /\ "resume" # "launch" /\ t = mode
              \/ /\ key = "sandbox" /\ ~Given(o, key) /\ ~Given(o, "access") /\ "resume" = "launch"
                 /\ t = usual
          <5>1. key \notin {"discovery", "access"}
            BY <4>1
          <5>2. OptionIssue("codex", o, "resume", key) = "none"
                /\ group \in OptionGroups("codex", o, "resume", key)
            BY <4>2
          <5>3. CodexTells(o, "resume", key, t, Said("codex", o, key))
            BY <5>1, <5>2, CodexTold
          <5>4. CodexTells(o, "resume", key, t, values)
            <6>1. values = Said("codex", o, key)
              BY <4>2
            <6> HIDE DEF values
            <6> QED BY <5>3, <6>1
          <5> HIDE DEF values
          <5> QED BY <5>4, Zenon DEF CodexTells
        <4>4. t = window \/ t = depth
          <5> HIDE DEF window, depth, instruct, keep, boxed, mode, usual
          <5> QED BY <4>1, <4>3
        <4> QED BY <4>4 DEF window, depth
      <3> HIDE DEF values
      <3> QED BY <1>2, <3>1, FlagsApart, Zenon
    <2>4. CASE harness = "pi"
      <3>1. \/ t = Tok("--thinking", values) \/ t = Tok("--provider", values) \/ t = Tok("--agent", values)
        BY <1>1, <1>5, <2>1, <2>4, PiTold
      <3> HIDE DEF values
      <3> QED BY <1>2, <3>1, FlagsApart
    <2>5. CASE harness = "muse"
      <3>1. t = Tok("--reasoning-effort", values)
        BY <1>1, <1>5, <2>1, <2>5, MuseTold
      <3> HIDE DEF values
      <3> QED BY <1>2, <3>1, FlagsApart
    <2>6. CASE harness = "cursor"
      BY <1>1, <1>5, <2>6, CursorTold
    <2>7. CASE harness = "antigravity"
      <3>1. t = Tok("--agent", values) \/ t = Tok("--effort", values)
        BY <1>1, <1>5, <2>1, <2>7, AntigravityTold
      <3> HIDE DEF values
      <3> QED BY <1>2, <3>1, FlagsApart
    <2>8. CASE harness = "popeye"
      <3>1. t = Tok("--agent", values) \/ t = Tok("--effort", values) \/ t = Tok("--context-window", values)
        BY <1>1, <1>5, <2>1, <2>8, PopeyeTold
      <3> HIDE DEF values
      <3> QED BY <1>2, <3>1, FlagsApart
    <2> QED BY <2>2, <2>3, <2>4, <2>5, <2>6, <2>7, <2>8 DEF HarnessNames
  <1> QED BY <1>3, <1>4, <1>5

LEMMA SessionTailTold ==
  ASSUME NEW harness, NEW o, SessionIssue(harness, o) = "none",
         NEW group \in SessionTail(harness, o)
  PROVE  Unboxed(group)
  <1> DEFINE dropped == {"model", "settingSources"}
             less == Without(o, dropped)
  <1>1. DOMAIN less = DOMAIN o \ dropped /\ \A k \in DOMAIN less : less[k] = o[k]
    BY DEF Without
  <1> HIDE DEF less
  <1>2. SessionPermissionKeys \intersect DOMAIN o # {} => harness \in {"claude", "pi"}
    BY SessionPassed, PermissionsPassed
  <1>3. ASSUME NEW flag, NEW vals, group = << Tok(flag, vals) >>, flag \notin SandboxFlags
        PROVE  Unboxed(group)
    BY <1>3, UnboxedOne
  <1>4. CASE group \in TailGroups(harness, less)
    <2>1. \/ Given(less, "model")
          \/ Given(less, "autonomy") /\ less.autonomy /\ group = << Bare(AutonomyFlag[harness]) >>
          \/ group = ToolTokens(harness, less)
          \/ Given(less, "skills") /\ group = SkillTokens(harness, less)
          \/ Given(less, "settingSources")
          \/ group = << Tok("--settings", SettingsKeys(harness, less)) >>
      BY <1>4, Zenon DEF TailGroups
    <2>2. ~Given(less, "model") /\ ~Given(less, "settingSources")
      BY <1>1 DEF Given
    <2>3. CASE Given(less, "autonomy") /\ less.autonomy /\ group = << Bare(AutonomyFlag[harness]) >>
      <3>1. Given(o, "autonomy") /\ o.autonomy
        BY <1>1, <2>3 DEF Given
      <3>2. SessionPermissionKeys \intersect DOMAIN o # {}
        BY <3>1 DEF SessionPermissionKeys, Given
      <3>3. AutonomyIssue(harness, o) = "none" /\ harness \in {"claude", "pi"}
        BY <3>2, SessionPassed, PermissionsPassed
      <3>4. harness \in DOMAIN AutonomyFlag
        BY <3>1, <3>3 DEF AutonomyIssue, IssueIf
      <3>5. AutonomyFlag[harness] = "--dangerously-skip-permissions"
        BY <3>3, <3>4 DEF AutonomyFlag
      <3>6. group = << Tok("--dangerously-skip-permissions", {}) >>
        BY <2>3, <3>5 DEF Bare
      <3> QED BY <1>3, <3>6, GrantFlagsApart
    <2>4. CASE group = ToolTokens(harness, less)
      <3>1. CASE ~Given(less, "tools") /\ ~Given(less, "excludeTools")
        <4>1. group = << >>
          BY <2>4, <3>1 DEF ToolTokens
        <4> QED BY <4>1, UnboxedNone
      <3>2. CASE Given(less, "tools") \/ Given(less, "excludeTools")
        <4>1. SessionPermissionKeys \intersect DOMAIN o # {}
          BY <1>1, <3>2 DEF SessionPermissionKeys, Given
        <4>2. CASE harness = "claude"
          <5> DEFINE left == LeftTools("claude", less)
                     denied == DeniedTools("claude", less)
          <5>1. \/ group = << Tok("--allowedTools", left), Tok("--disallowedTools", denied) >>
                \/ group = << Tok("--disallowedTools", denied) >>
            BY <2>4, <3>2, <4>2, ClaudeTokens
          <5> HIDE DEF left, denied
          <5> QED BY <1>3, <5>1, UnboxedTwo, GrantFlagsApart
        <4>3. CASE harness = "pi"
          <5> DEFINE left == LeftTools(harness, less)
          <5>1. group = << Tok("--tools", left) >>
            BY <2>4, <3>2, <4>3, StrictTokens
          <5> HIDE DEF left
          <5> QED BY <1>3, <5>1, GrantFlagsApart
        <4> QED BY <1>2, <4>1, <4>2, <4>3
      <3> QED BY <3>1, <3>2
    <2>5. CASE Given(less, "skills") /\ group = SkillTokens(harness, less)
      <3> DEFINE picks == less.skills
      <3>1. group = CASE SkillsVia[harness] = "load"   -> << Tok("-ns", {}), Tok("--skill", picks) >>
                      [] SkillsVia[harness] = "config" -> << Tok("-c skills.config", picks) >>
                      [] OTHER                         -> <<>>
        BY <2>5, Zenon DEF SkillTokens, Bare
      <3>2. Given(o, "skills")
        BY <1>1, <2>5 DEF Given
      <3>3. harness \in {"claude", "codex", "pi"}
        <4>1. SkillsIssue(harness, o) = "none"
          BY SessionPassed
        <4>2. harness \in DOMAIN SkillsVia
          BY <3>2, <4>1 DEF SkillsIssue, IssueIf
        <4> QED BY <4>2 DEF SkillsVia
      <3>4. SkillsVia["claude"] = "settings" /\ SkillsVia["codex"] = "config" /\ SkillsVia["pi"] = "load"
        BY DEF SkillsVia
      <3> HIDE DEF picks
      <3> DEFINE loaded == << Tok("-ns", {}), Tok("--skill", picks) >>
                 configured == << Tok("-c skills.config", picks) >>
      <3>5. Unboxed(loaded)
        BY UnboxedTwo, GrantFlagsApart
      <3>6. Unboxed(configured)
        BY UnboxedOne, GrantFlagsApart, Zenon
      <3> HIDE DEF loaded, configured
      <3>7. group = loaded \/ group = configured \/ group = << >>
        <4>1. group = CASE SkillsVia[harness] = "load"   -> loaded
                        [] SkillsVia[harness] = "config" -> configured
                        [] OTHER                         -> <<>>
          BY <3>1, Zenon DEF loaded, configured
        <4> QED BY <3>3, <3>4, <4>1
      <3> QED BY <3>5, <3>6, <3>7, UnboxedNone
    <2>6. CASE group = << Tok("--settings", SettingsKeys(harness, less)) >>
      BY <1>3, <2>6, GrantFlagsApart
    <2> QED BY <2>1, <2>2, <2>3, <2>4, <2>5, <2>6
  <1>5. CASE Given(o, "model") /\ group = << Tok(SessionModelFlag(harness), {o.model}) >>
    <2>1. SessionModelFlag(harness) \notin SandboxFlags
      BY GrantFlagsApart, Zenon DEF SessionModelFlag
    <2> QED BY <1>3, <1>5, <2>1
  <1>6. CASE group = << Tok("--setting-sources", ScopesOf(harness, o)) >>
    BY <1>3, <1>6, GrantFlagsApart
  <1>7. CASE Given(o, "nativeApprovals") /\ group = SessionApprovals[harness]
    <2>1. harness \in DOMAIN SessionApprovals
      BY <1>7, SessionPassed
    <2>2. group = << Tok("--permission-prompt-tool", {"stdio"}) >>
      BY <1>7, <2>1 DEF SessionApprovals
    <2> QED BY <1>3, <2>2, GrantFlagsApart
  <1>8. \/ group \in TailGroups(harness, less)
        \/ Given(o, "model") /\ group = << Tok(SessionModelFlag(harness), {o.model}) >>
        \/ group = << Tok("--setting-sources", ScopesOf(harness, o)) >>
        \/ Given(o, "nativeApprovals") /\ group = SessionApprovals[harness]
    BY Zenon DEF SessionTail, less
  <1> QED BY <1>4, <1>5, <1>6, <1>7, <1>8

\* The parts of a session's command line.
LEMMA SessionArgvIs ==
  ASSUME NEW harness, NEW o
  PROVE  /\ SessionArgv(harness, o).continue = SessionIdGroup(harness, o)
         /\ SessionArgv(harness, o).before = RenderedGroups(harness, o, SessionOptionKeys) \ {<<>>}
         /\ SessionArgv(harness, o).tail =
              (SessionTail(harness, o) \union RenderedGroups(harness, o, {"access", "discovery"})) \ {<<>>}
         /\ SessionArgv(harness, o).verified = {} /\ SessionArgv(harness, o).after = {}
  <1> DEFINE before == RenderedGroups(harness, o, SessionOptionKeys) \ {<<>>}
             tail == (SessionTail(harness, o) \union RenderedGroups(harness, o, {"access", "discovery"})) \ {<<>>}
             env == TurnEnv(harness, o)
             continue == SessionIdGroup(harness, o)
             argv == SessionArgv(harness, o)
  <1>1. argv = [NoArgv EXCEPT !.continue = continue, !.before = before, !.tail = tail, !.env = env]
    BY Zenon DEF SessionArgv
  <1> HIDE DEF before, tail, env, continue, argv
  <1>2. /\ argv.continue = continue /\ argv.before = before /\ argv.tail = tail
        /\ argv.verified = {} /\ argv.after = {}
    BY <1>1 DEF NoArgv
  <1> QED BY <1>2 DEF before, tail, continue, argv

\* A token of a session is of its id, of an option, or of its tail.
LEMMA SessionTokens ==
  ASSUME NEW harness, NEW o, NEW t \in Tokens(SessionArgv(harness, o))
  PROVE  \/ t \in Range(SessionIdGroup(harness, o))
         \/ \E key \in SessionOptionKeys \union {"access", "discovery"} :
              \E group \in OptionGroups(harness, o, "resume", key) : t \in Range(group)
         \/ \E group \in SessionTail(harness, o) : t \in Range(group)
  <1> DEFINE argv == SessionArgv(harness, o)
             placed == {"access", "discovery"}
             keyed == SessionOptionKeys
  <1>1. PICK group \in Groups(argv) : t \in Range(group)
    BY DEF Tokens
  <1>2. /\ argv.continue = SessionIdGroup(harness, o)
        /\ argv.before = RenderedGroups(harness, o, keyed) \ {<<>>}
        /\ argv.tail = (SessionTail(harness, o) \union RenderedGroups(harness, o, placed)) \ {<<>>}
        /\ argv.verified = {} /\ argv.after = {}
    BY SessionArgvIs
  <1> HIDE DEF argv
  <1>3. \/ group \in argv.before \/ group \in argv.tail \/ group = argv.continue
    BY <1>2 DEF Groups
  <1>4. \/ group \in RenderedGroups(harness, o, keyed)
        \/ group \in RenderedGroups(harness, o, placed)
        \/ group \in SessionTail(harness, o) \/ group = SessionIdGroup(harness, o)
    BY <1>2, <1>3
  <1>5. ASSUME NEW keys, group \in RenderedGroups(harness, o, keys)
        PROVE  \E key \in keys : group \in OptionGroups(harness, o, "resume", key)
    BY <1>5 DEF RenderedGroups
  <1>6. ASSUME NEW keys, group \in RenderedGroups(harness, o, keys),
               keys \subseteq SessionOptionKeys \union {"access", "discovery"}
        PROVE  \E key \in SessionOptionKeys \union {"access", "discovery"} :
                 \E g \in OptionGroups(harness, o, "resume", key) : t \in Range(g)
    <2>1. PICK key \in keys : group \in OptionGroups(harness, o, "resume", key)
      BY <1>5, <1>6
    <2> QED BY <1>1, <1>6, <2>1
  <1> QED BY <1>1, <1>4, <1>6

\* The id of a session comes with a flag of its own.
LEMMA SessionIdTold ==
  ASSUME NEW harness, NEW o, NEW t \in Range(SessionIdGroup(harness, o))
  PROVE  t.flag \in {"--session-id", "--resume", "--conversation"}
  <1> DEFINE flag == IF o.isResume THEN SessionResumeFlag ELSE SessionIdFlag
             said == {o.sessionId}
             group == SessionIdGroup(harness, o)
  <1>1. group = IF harness \in DOMAIN flag THEN << Tok(flag[harness], said) >> ELSE <<>>
    BY Zenon DEF SessionIdGroup
  <1>2. flag = SessionResumeFlag \/ flag = SessionIdFlag
    OBVIOUS
  <1> HIDE DEF flag, said
  <1>3. harness \in DOMAIN flag /\ group = << Tok(flag[harness], said) >>
    <2>1. harness \notin DOMAIN flag => group = << >>
      BY <1>1
    <2>2. group # << >>
      BY RangeNone
    <2> HIDE DEF group
    <2> QED BY <1>1, <2>1, <2>2
  <1>4. t = Tok(flag[harness], said)
    BY <1>3, RangeOne
  <1>5. t.flag = flag[harness]
    BY <1>4, TokFlag
  <1>6. flag[harness] \in {"--session-id", "--resume", "--conversation"}
    BY <1>2, <1>3 DEF SessionResumeFlag, SessionIdFlag
  <1> QED BY <1>5, <1>6

LEMMA SessionHolds == PlannedInv => SessionKeepsToArguments
  <1> SUFFICES ASSUME PlannedInv, IsPlanned, IsSession PROVE
        /\ \A key \in DOMAIN plan.options
                        \ {"toolMap", "memory", "skills", "isResume", "sessionId",
                           "nativeApprovals", "discovery"} :
             Given(call.args, key) /\ plan.options[key] = call.args[key]
        /\ Given(plan.options, "discovery") => "tools" \in OffFacets(call.args)
        /\ ~FlagGiven("--sandbox") /\ ~FlagGiven("-c sandbox_mode")
    BY Zenon DEF SessionKeepsToArguments
  <1> DEFINE o == plan.options
             harness == call.h
             args == Narrowed(SessionArgs)
             full == SessionFull(plan.store)
  <1>1. /\ o = full /\ plan.argv = SessionArgv(harness, o)
        /\ SessionIssue(harness, o) = "none" /\ harness \in HarnessNames
    BY DEF PlannedInv, IsPlanned, SessionPlanned
  <1>2. \A k \in DOMAIN full :
          \/ k \in {"skills", "toolMap", "memory", "nativeApprovals", "isResume", "sessionId"}
          \/ k \in DOMAIN args /\ full[k] = args[k]
    BY SessionFullHas
  <1>3. ASSUME NEW k \in DOMAIN args
        PROVE  /\ k \in DOMAIN call.args
               /\ k # "discovery" => args[k] = call.args[k]
               /\ k = "discovery" => "tools" \in OffFacets(call.args)
    BY <1>3, SessionArgsHave
  <1>4. ASSUME NEW key \in DOMAIN o \ {"toolMap", "memory", "skills", "isResume", "sessionId",
                                       "nativeApprovals", "discovery"}
        PROVE  Given(call.args, key) /\ o[key] = call.args[key]
    <2> HIDE DEF args, full
    <2> QED BY <1>1, <1>2, <1>3 DEF Given
  <1>5. Given(o, "discovery") => "tools" \in OffFacets(call.args)
    <2> HIDE DEF args, full
    <2> QED BY <1>1, <1>2, <1>3 DEF Given
  <1>6. ASSUME NEW t \in Tokens(plan.argv)
        PROVE  t.flag \notin SandboxFlags
    <2>1. t \in Tokens(SessionArgv(harness, o))
      BY <1>1
    <2>2. CASE t \in Range(SessionIdGroup(harness, o))
      BY <2>2, SessionIdTold, GrantFlagsApart
    <2>3. ASSUME NEW key \in SessionOptionKeys \union {"access", "discovery"},
                 NEW group \in OptionGroups(harness, o, "resume", key), t \in Range(group)
          PROVE  t.flag \notin SandboxFlags
      BY <1>1, <2>3, SessionTold
    <2>4. ASSUME NEW group \in SessionTail(harness, o), t \in Range(group)
          PROVE  t.flag \notin SandboxFlags
      <3>1. Unboxed(group)
        BY <1>1, SessionTailTold
      <3> QED BY <2>4, <3>1 DEF Unboxed
    <2> QED BY <2>1, <2>2, <2>3, <2>4, SessionTokens
  <1>7. ~FlagGiven("--sandbox") /\ ~FlagGiven("-c sandbox_mode")
    BY <1>6, Zenon DEF FlagGiven, SandboxFlags
  <1> QED BY <1>4, <1>5, <1>7, Zenon

-----------------------------------------------------------------------------
(* The flags that grant a tool                                             *)

GrantFlags == {"--tools", "--allowedTools"}
Granting == {"claude", "pi", "popeye"}

LEMMA GrantsApart ==
  /\ "--permission-mode" \notin GrantFlags /\ "--disallowedTools" \notin GrantFlags
  /\ "--autocompact" \notin GrantFlags /\ "--effort" \notin GrantFlags
  /\ "--system-prompt" \notin GrantFlags /\ "--append-system-prompt" \notin GrantFlags
  /\ "--exclude-dynamic-system-prompt-sections" \notin GrantFlags
  /\ "--agent" \notin GrantFlags /\ "--bare" \notin GrantFlags
  /\ "--strict-mcp-config" \notin GrantFlags /\ "--thinking" \notin GrantFlags
  /\ "--provider" \notin GrantFlags /\ "-e" \notin GrantFlags
  /\ "--context-window" \notin GrantFlags /\ "--setting-sources" \notin GrantFlags
  /\ "--disable-slash-commands" \notin GrantFlags /\ "-nt" \notin GrantFlags
  /\ "-nc" \notin GrantFlags /\ "-ne" \notin GrantFlags /\ "-ns" \notin GrantFlags
  /\ "--model" \notin GrantFlags /\ "--dangerously-skip-permissions" \notin GrantFlags
  /\ "--skill" \notin GrantFlags /\ "--settings" \notin GrantFlags
  /\ "--resume" \notin GrantFlags /\ "--session-id" \notin GrantFlags
  /\ "--conversation" \notin GrantFlags
  /\ "--continue" \notin GrantFlags /\ "--fork-session" \notin GrantFlags
  /\ "--permission-prompt-tool" \notin GrantFlags
  BY DEF GrantFlags

\* Of the options isolation alone grants, by taking every tool away.
LEMMA OptionGrants ==
  ASSUME NEW harness \in Granting, NEW o, NEW phase, ~Given(o, "access"), NEW key,
         OptionIssue(harness, o, phase, key) = "none",
         NEW group \in OptionGroups(harness, o, phase, key), NEW t \in Range(group),
         t.flag \in GrantFlags
  PROVE  key = "isolation" /\ Given(o, "isolation") /\ t = Tok("--tools", {})
  <1>1. ASSUME NEW flag, NEW vals, t = Tok(flag, vals), flag \notin GrantFlags
        PROVE  FALSE
    BY <1>1, TokFlag
  <1>2. CASE key = "discovery"
    <2>1. \/ t = Tok("--setting-sources", {"project"}) \/ t = Bare("--disable-slash-commands")
          \/ t \in {Bare("-nt"), Bare("-nc"), Bare("-ne"), Bare("-ns")}
      BY <1>2, DiscoveryTold
    <2> QED BY <1>1, <2>1, GrantsApart DEF Bare
  <1>3. key # "access"
    BY AccessTold
  <1>4. CASE key \notin {"access", "discovery"}
    <2> DEFINE values == Said(harness, o, key)
    <2>1. CASE harness = "claude"
      <3>1. /\ Given(o, key)
            /\ \/ t = Tok("--autocompact", values)
               \/ key = "isolation" /\ t = Tok("--tools", {})
               \/ t = Bare("--bare") \/ t = Tok("--disallowedTools", {"mcp"})
               \/ t = Bare("--strict-mcp-config")
               \/ t = Tok("--effort", values) \/ t = Tok("--system-prompt", values)
               \/ t = Bare("--exclude-dynamic-system-prompt-sections")
               \/ t = Tok("--append-system-prompt", values) \/ t = Tok("--agent", values)
        BY <1>4, <2>1, ClaudeTold
      <3> HIDE DEF values
      <3> QED BY <1>1, <3>1, GrantsApart DEF Bare
    <2>2. CASE harness = "pi"
      <3>1. \/ t = Tok("--thinking", values) \/ t = Tok("--provider", values)
            \/ t = Tok("--agent", values) \/ t = Tok("--system-prompt", values)
            \/ t = Tok("--append-system-prompt", values) \/ t.flag = "-e"
        BY <1>4, <2>2, PiTold
      <3> HIDE DEF values
      <3> QED BY <1>1, <3>1, GrantsApart
    <2>3. CASE harness = "popeye"
      <3>1. \/ t = Tok("--effort", values) \/ t = Tok("--system-prompt", values)
            \/ t = Tok("--append-system-prompt", values)
            \/ t = Tok("--context-window", values) \/ t = Tok("--agent", values)
        BY <1>4, <2>3, PopeyeTold
      <3> HIDE DEF values
      <3> QED BY <1>1, <3>1, GrantsApart
    <2> QED BY <2>1, <2>2, <2>3 DEF Granting
  <1> QED BY <1>2, <1>3, <1>4

\* Of the tail the tool list alone grants.
LEMMA TailGrants ==
  ASSUME NEW harness \in Granting, NEW o, AutonomyIssue(harness, o) = "none",
         SkillsIssue(harness, o) = "none", NEW group \in TailGroups(harness, o),
         NEW t \in Range(group), t.flag \in GrantFlags
  PROVE  t \in Range(ToolTokens(harness, o))
  <1>1. ASSUME NEW flag, NEW vals, t = Tok(flag, vals), flag \notin GrantFlags
        PROVE  FALSE
    BY <1>1, TokFlag
  <1>2. ASSUME NEW flag, NEW vals, group = << Tok(flag, vals) >>, flag \notin GrantFlags
        PROVE  FALSE
    <2>1. t = Tok(flag, vals)
      BY <1>2, RangeOne
    <2> QED BY <1>1, <1>2, <2>1
  <1>3. \/ group = << Tok("--model", {o.model}) >>
        \/ Given(o, "autonomy") /\ o.autonomy /\ group = << Bare(AutonomyFlag[harness]) >>
        \/ group = ToolTokens(harness, o)
        \/ Given(o, "skills") /\ group = SkillTokens(harness, o)
        \/ group = << Tok("--setting-sources", o.settingSources) >>
        \/ group = << Tok("--settings", SettingsKeys(harness, o)) >>
    BY Zenon DEF TailGroups
  <1>4. CASE group = << Tok("--model", {o.model}) >>
    BY <1>2, <1>4, GrantsApart
  <1>5. CASE Given(o, "autonomy") /\ o.autonomy /\ group = << Bare(AutonomyFlag[harness]) >>
    <2>1. harness \in DOMAIN AutonomyFlag
      BY <1>5 DEF AutonomyIssue, IssueIf
    <2>2. AutonomyFlag[harness] = "--dangerously-skip-permissions"
      BY <2>1 DEF AutonomyFlag, Granting
    <2>3. group = << Tok("--dangerously-skip-permissions", {}) >>
      BY <1>5, <2>2 DEF Bare
    <2> QED BY <1>2, <2>3, GrantsApart
  <1>6. CASE Given(o, "skills") /\ group = SkillTokens(harness, o)
    <2> DEFINE picks == o.skills
    <2>1. group = CASE SkillsVia[harness] = "load"   -> << Tok("-ns", {}), Tok("--skill", picks) >>
                    [] SkillsVia[harness] = "config" -> << Tok("-c skills.config", picks) >>
                    [] OTHER                         -> <<>>
      BY <1>6, Zenon DEF SkillTokens, Bare
    <2>2. harness \in DOMAIN SkillsVia
      BY <1>6 DEF SkillsIssue, IssueIf
    <2>3. SkillsVia[harness] = "load" \/ SkillsVia[harness] = "settings"
      BY <2>2 DEF SkillsVia, Granting
    <2> HIDE DEF picks
    <2> DEFINE loaded == << Tok("-ns", {}), Tok("--skill", picks) >>
               configured == << Tok("-c skills.config", picks) >>
    <2>4. group = CASE SkillsVia[harness] = "load"   -> loaded
                    [] SkillsVia[harness] = "config" -> configured
                    [] OTHER                         -> <<>>
      BY <2>1, Zenon DEF loaded, configured
    <2>5. t \in Range(loaded) => t = Tok("-ns", {}) \/ t = Tok("--skill", picks)
      BY RangeTwo
    <2> HIDE DEF loaded, configured
    <2>6. group = loaded \/ group = << >>
      BY <2>3, <2>4
    <2> QED BY <1>1, <2>5, <2>6, RangeNone, GrantsApart
  <1>7. CASE group = << Tok("--setting-sources", o.settingSources) >>
    BY <1>2, <1>7, GrantsApart
  <1>8. CASE group = << Tok("--settings", SettingsKeys(harness, o)) >>
    BY <1>2, <1>8, GrantsApart
  <1> QED BY <1>3, <1>4, <1>5, <1>6, <1>7, <1>8

\* What a spawned turn passed.
LEMMA SpawnPassed ==
  ASSUME NEW harness, NEW o, SpawnIssue(harness, o) = "none"
  PROVE  /\ IsolationIssue(o) = "none" /\ SettingSourcesIssue(harness, o) = "none"
         /\ Given(o, "resumeLast") => harness \in DOMAIN ResumeLastFlag
         /\ PhaseOf(o) = "resume" => AccessAloneIssue(harness, o, DOMAIN o) = "none"
         /\ AutonomyIssue(harness, o) = "none" /\ ToolIssue(harness, o) = "none"
         /\ SkillsIssue(harness, o) = "none"
         /\ \A after \in BOOLEAN : \A key \in PlacedKeys(harness, o, after) :
              OptionIssue(harness, o, PhaseOf(o), key) = "none"
  <1> DEFINE phase == PhaseOf(o)
             last == Given(o, "resumeLast") /\ harness \notin DOMAIN ResumeLastFlag
             alone == AccessAloneIssue(harness, o, DOMAIN o)
             a == IsolationIssue(o)
             b == SettingSourcesIssue(harness, o)
             c == IssueIf(Given(o, "resume") /\ Given(o, "resumeLast"),
                          "mutually-exclusive-options")
             d == IssueIf(last, "unsupported-option")
             e == IssueIf(Given(o, "resume") /\ o.resume \notin UsableIds,
                          "invalid-option-value")
             f == IF phase = "resume" THEN alone ELSE "none"
             g == TurnIssue(harness, o, phase)
  <1>1. FirstIssue(<< a, b, c, d, e, f, g >>) = "none"
    BY Zenon DEF SpawnIssue
  <1>2. a = "none" /\ b = "none" /\ d = "none" /\ f = "none" /\ g = "none"
    <2> HIDE DEF a, b, c, d, e, f, g
    <2> QED BY <1>1, NoneOfSeven
  <1>3. ~last
    <2> HIDE DEF last
    <2> QED BY <1>2 DEF IssueIf
  <1>4. phase = "resume" => alone = "none"
    <2> HIDE DEF alone, phase
    <2> QED BY <1>2
  <1> HIDE DEF phase
  <1>5. /\ PlacedIssue(harness, o, phase, FALSE) = "none" /\ PlacedIssue(harness, o, phase, TRUE) = "none"
        /\ TailIssue(harness, o) = "none"
    BY <1>2, NoneOfThree DEF TurnIssue
  <1>6. AutonomyIssue(harness, o) = "none" /\ ToolIssue(harness, o) = "none"
        /\ SkillsIssue(harness, o) = "none"
    BY <1>5, NoneOfFive DEF TailIssue
  <1>7. ASSUME NEW after \in BOOLEAN, NEW key \in PlacedKeys(harness, o, after)
        PROVE  OptionIssue(harness, o, phase, key) = "none"
    <2>1. key \in Range(TurnOptionKeys)
      BY DEF PlacedKeys
    <2>2. PlacedIssue(harness, o, phase, after) = "none"
      BY <1>5
    <2>3. KeysIssue(harness, o, phase, PlacedKeys(harness, o, after)) = "none"
      BY <2>2 DEF PlacedIssue
    <2> QED BY <2>1, <2>3, KeysPass
  <1> QED BY <1>2, <1>3, <1>4, <1>6, <1>7 DEF phase

LEMMA FewTokens ==
  ASSUME NEW a, NEW b
  PROVE  Append(<<>>, a) = << a >> /\ Append(<< a >>, b) = << a, b >>
  <1>1. Append(<<>>, a) = << a >>
    OBVIOUS
  <1> DEFINE s == << a >>
             r == << a, b >>
             S == {a, b}
             u == Append(s, b)
  <1>2. s \in Seq(S) /\ r \in Seq(S) /\ b \in S /\ Len(s) = 1 /\ Len(r) = 2
    OBVIOUS
  <1>3. u \in Seq(S) /\ Len(u) = 2 /\ u[1] = a /\ u[2] = b
    OBVIOUS
  <1>4. r[1] = a /\ r[2] = b
    OBVIOUS
  <1> HIDE DEF s, r, S, u
  <1>5. u = r
    <2>1. \A i \in 1 .. Len(u) : u[i] = r[i]
      BY <1>3, <1>4
    <2> QED BY <1>2, <1>3, <2>1, SeqEqual
  <1> QED BY <1>1, <1>5 DEF u, s, r

\* How a turn continues grants nothing.
LEMMA ContinueGrants ==
  ASSUME NEW harness \in Granting, NEW o, Given(o, "resumeLast") => harness \in DOMAIN ResumeLastFlag,
         NEW t \in Range(ContinueGroup(harness, o))
  PROVE  t.flag \notin GrantFlags
  <1>1. CASE Given(o, "resume")
    <2> DEFINE said == {o.resume}
    <2>1. ContinueGroup(harness, o) = << Tok(ResumeFlag[harness], said) >>
      BY <1>1 DEF ContinueGroup
    <2> HIDE DEF said
    <2>2. t.flag = ResumeFlag[harness]
      BY <2>1, RangeOne, TokFlag
    <2>3. ResumeFlag[harness] \in {"--resume", "--session-id"}
      BY DEF ResumeFlag, Granting
    <2> QED BY <2>2, <2>3, GrantsApart
  <1>2. CASE ~Given(o, "resume") /\ Given(o, "resumeLast")
    <2> DEFINE fork == Bare("--fork-session")
               last == Bare(ResumeLastFlag[harness])
               group == ContinueGroup(harness, o)
    <2>1. group = Append(IF harness = "claude" THEN << fork >> ELSE <<>>, last)
      BY <1>2, Zenon DEF ContinueGroup
    <2>2. ResumeLastFlag[harness] = "--continue"
      BY <1>2 DEF ResumeLastFlag, Granting
    <2>3. last.flag = "--continue" /\ fork.flag = "--fork-session"
      BY <2>2, TokFlag DEF Bare
    <2> HIDE DEF fork, last, group
    <2>4. group = << fork, last >> \/ group = << last >>
      <3>1. Append(<< fork >>, last) = << fork, last >>
        BY FewTokens
      <3>2. Append(<<>>, last) = << last >>
        BY FewTokens
      <3>3. CASE harness = "claude"
        <4>1. group = Append(<< fork >>, last)
          BY <2>1, <3>3
        <4> QED BY <3>1, <4>1
      <3>4. CASE harness # "claude"
        <4>1. group = Append(<<>>, last)
          BY <2>1, <3>4
        <4> QED BY <3>2, <4>1
      <3> QED BY <3>3, <3>4
    <2>5. t = fork \/ t = last
      BY <2>4, RangeOne, RangeTwo DEF group
    <2> QED BY <2>3, <2>5, GrantsApart
  <1>3. CASE ~Given(o, "resume") /\ ~Given(o, "resumeLast")
    <2>1. ContinueGroup(harness, o) = << >>
      BY <1>3 DEF ContinueGroup
    <2> QED BY <2>1, RangeNone
  <1> QED BY <1>1, <1>2, <1>3

\* The parts of a turn's command line.
LEMMA SpawnArgvIs ==
  ASSUME NEW harness \in Granting, NEW o, NEW saved
  PROVE  /\ SpawnArgv(harness, o, saved).continue = ContinueGroup(harness, o)
         /\ SpawnArgv(harness, o, saved).before = PlacedGroups(harness, o, PhaseOf(o), FALSE)
         /\ SpawnArgv(harness, o, saved).after = PlacedGroups(harness, o, PhaseOf(o), TRUE)
         /\ SpawnArgv(harness, o, saved).tail = TailGroups(harness, o) \ {<<>>}
         /\ SpawnArgv(harness, o, saved).verified = {}
  <1>1. VerifiedGroups(harness, saved) = {}
    BY DEF VerifiedGroups, Granting
  <1>2. /\ SpawnArgv(harness, o, saved).continue = ContinueGroup(harness, o)
        /\ SpawnArgv(harness, o, saved).before = PlacedGroups(harness, o, PhaseOf(o), FALSE)
        /\ SpawnArgv(harness, o, saved).after = PlacedGroups(harness, o, PhaseOf(o), TRUE)
        /\ SpawnArgv(harness, o, saved).tail = TailGroups(harness, o) \ {<<>>}
        /\ SpawnArgv(harness, o, saved).verified = VerifiedGroups(harness, saved)
    BY DEF SpawnArgv
  <1> QED BY <1>1, <1>2

\* What grants a turn its tools: its list, or isolation, which takes all away.
LEMMA SpawnGrants ==
  ASSUME NEW harness \in Granting, NEW o, NEW saved, SpawnIssue(harness, o) = "none",
         ~Given(o, "access"), NEW t \in Tokens(SpawnArgv(harness, o, saved)),
         t.flag \in GrantFlags
  PROVE  \/ t \in Range(ToolTokens(harness, o))
         \/ Given(o, "isolation") /\ t = Tok("--tools", {})
  <1> DEFINE argv == SpawnArgv(harness, o, saved)
             phase == PhaseOf(o)
  <1>1. PICK group \in Groups(argv) : t \in Range(group)
    BY DEF Tokens
  <1>2. /\ argv.continue = ContinueGroup(harness, o)
        /\ argv.before = PlacedGroups(harness, o, phase, FALSE)
        /\ argv.after = PlacedGroups(harness, o, phase, TRUE)
        /\ argv.tail = TailGroups(harness, o) \ {<<>>} /\ argv.verified = {}
    BY SpawnArgvIs
  <1> HIDE DEF argv
  <1>3. \/ group = ContinueGroup(harness, o)
        \/ \E after \in BOOLEAN : group \in PlacedGroups(harness, o, phase, after)
        \/ group \in TailGroups(harness, o)
    BY <1>1, <1>2 DEF Groups
  <1>4. group # ContinueGroup(harness, o)
    BY <1>1, SpawnPassed, ContinueGrants
  <1>5. ASSUME NEW after \in BOOLEAN, group \in PlacedGroups(harness, o, phase, after)
        PROVE  Given(o, "isolation") /\ t = Tok("--tools", {})
    <2>1. PICK key \in PlacedKeys(harness, o, after) : group \in OptionGroups(harness, o, phase, key)
      BY <1>5 DEF PlacedGroups
    <2>2. OptionIssue(harness, o, phase, key) = "none"
      BY SpawnPassed
    <2> QED BY <1>1, <2>1, <2>2, OptionGrants
  <1>6. group \in TailGroups(harness, o) => t \in Range(ToolTokens(harness, o))
    BY <1>1, SpawnPassed, TailGrants
  <1> QED BY <1>3, <1>4, <1>5, <1>6

\* The tool list of a turn is on its command line.
LEMMA SpawnLists ==
  ASSUME NEW harness \in Granting, NEW o, NEW saved, NEW t \in Range(ToolTokens(harness, o))
  PROVE  t \in Tokens(SpawnArgv(harness, o, saved))
  <1> DEFINE argv == SpawnArgv(harness, o, saved)
             group == ToolTokens(harness, o)
  <1>1. group \in TailGroups(harness, o) /\ group # << >>
    BY RangeNone DEF TailGroups
  <1>2. argv.tail = TailGroups(harness, o) \ {<<>>}
    BY SpawnArgvIs
  <1> HIDE DEF argv, group
  <1>3. group \in Groups(argv)
    BY <1>1, <1>2 DEF Groups
  <1>4. t \in Tokens(argv)
    BY <1>3 DEF Tokens, group
  <1> QED BY <1>4 DEF argv

\* A session renders of its tools what a turn does.
LEMMA SessionLists ==
  ASSUME NEW harness \in Granting, NEW o, Given(o, "tools") \/ Given(o, "excludeTools"),
         NEW dropped, dropped = {"model", "settingSources"}
  PROVE  ToolTokens(harness, Without(o, dropped)) = ToolTokens(harness, o)
  <1> DEFINE less == Without(o, dropped)
  <1>1. DOMAIN less = DOMAIN o \ dropped /\ \A k \in DOMAIN less : less[k] = o[k]
    BY DEF Without
  <1> HIDE DEF less
  <1>2. /\ Given(less, "tools") <=> Given(o, "tools")
        /\ Given(less, "excludeTools") <=> Given(o, "excludeTools")
        /\ Given(less, "toolMap") <=> Given(o, "toolMap")
        /\ Given(o, "tools") => less.tools = o.tools
        /\ Given(o, "excludeTools") => less.excludeTools = o.excludeTools
        /\ Given(o, "toolMap") => less.toolMap = o.toolMap
    BY <1>1 DEF Given
  <1>3. MapOf(less, harness) = MapOf(o, harness)
    BY <1>2 DEF MapOf
  <1>4. \A some : NativeNames(harness, less, some) = NativeNames(harness, o, some)
    BY <1>3 DEF NativeNames
  <1>5. LeftTools(harness, less) = LeftTools(harness, o)
        /\ DeniedTools(harness, less) = DeniedTools(harness, o)
    BY <1>2, <1>4 DEF LeftTools, DeniedTools
  <1>6. CASE harness = "claude"
    <2> DEFINE left == LeftTools("claude", o)
               denied == DeniedTools("claude", o)
    <2>1. ToolTokens("claude", o) =
            IF Given(o, "tools") /\ o.tools # {}
            THEN << Tok("--allowedTools", left), Tok("--disallowedTools", denied) >>
            ELSE << Tok("--disallowedTools", denied) >>
      BY ClaudeTokens
    <2>2. ToolTokens("claude", less) =
            IF Given(less, "tools") /\ less.tools # {}
            THEN << Tok("--allowedTools", LeftTools("claude", less)),
                    Tok("--disallowedTools", DeniedTools("claude", less)) >>
            ELSE << Tok("--disallowedTools", DeniedTools("claude", less)) >>
      BY <1>2, ClaudeTokens
    <2>3. LeftTools("claude", less) = left /\ DeniedTools("claude", less) = denied
      BY <1>5, <1>6
    <2> HIDE DEF left, denied
    <2> QED BY <1>2, <1>6, <2>1, <2>2, <2>3 DEF less
  <1>7. CASE harness \in {"pi", "popeye"}
    <2> DEFINE left == LeftTools(harness, o)
    <2>1. ToolTokens(harness, o) = << Tok("--tools", left) >>
      BY <1>7, StrictTokens
    <2>2. ToolTokens(harness, less) = << Tok("--tools", LeftTools(harness, less)) >>
      BY <1>2, <1>7, StrictTokens
    <2>3. LeftTools(harness, less) = left
      BY <1>5
    <2> HIDE DEF left
    <2> QED BY <2>1, <2>2, <2>3 DEF less
  <1> QED BY <1>6, <1>7 DEF Granting

\* What grants a session its tools is its list.
LEMMA SessionGrants ==
  ASSUME NEW harness \in Granting, NEW o, SessionIssue(harness, o) = "none",
         Given(o, "tools"), ~Given(o, "access"), NEW t
  PROVE  /\ t \in Tokens(SessionArgv(harness, o)) /\ t.flag \in GrantFlags
              => t \in Range(ToolTokens(harness, o))
         /\ t \in Range(ToolTokens(harness, o)) => t \in Tokens(SessionArgv(harness, o))
  <1> DEFINE dropped == {"model", "settingSources"}
             less == Without(o, dropped)
             argv == SessionArgv(harness, o)
  <1>1. DOMAIN less = DOMAIN o \ dropped /\ \A k \in DOMAIN less : less[k] = o[k]
    BY DEF Without
  <1>2. ToolTokens(harness, less) = ToolTokens(harness, o)
    BY SessionLists
  <1> HIDE DEF less
  <1>3. SessionPermissionKeys \intersect DOMAIN o # {}
    BY DEF SessionPermissionKeys, Given
  <1>4. AutonomyIssue(harness, o) = "none" /\ SkillsIssue(harness, o) = "none"
    BY <1>3, SessionPassed, PermissionsPassed
  <1>5. AutonomyIssue(harness, less) = "none" /\ SkillsIssue(harness, less) = "none"
    <2>1. /\ Given(less, "autonomy") <=> Given(o, "autonomy")
          /\ Given(o, "autonomy") => less.autonomy = o.autonomy
          /\ Given(less, "skills") <=> Given(o, "skills")
      BY <1>1 DEF Given
    <2> QED BY <1>4, <2>1 DEF AutonomyIssue, SkillsIssue, IssueIf
  <1>6. ASSUME t \in Tokens(argv), t.flag \in GrantFlags
        PROVE  t \in Range(ToolTokens(harness, o))
    <2>1. t \notin Range(SessionIdGroup(harness, o))
      BY <1>6, SessionIdTold, GrantsApart
    <2>2. ASSUME NEW key \in SessionOptionKeys \union {"access", "discovery"},
                 NEW group \in OptionGroups(harness, o, "resume", key), t \in Range(group)
          PROVE  FALSE
      <3>1. OptionIssue(harness, o, "resume", key) = "none"
        BY SessionKeysPass
      <3>2. key = "isolation"
        BY <1>6, <2>2, <3>1, OptionGrants
      <3> QED BY <3>2 DEF SessionOptionKeys
    <2>3. PICK group \in SessionTail(harness, o) : t \in Range(group)
      BY <1>6, <2>1, <2>2, SessionTokens
    <2>4. \/ group \in TailGroups(harness, less)
          \/ \E vals : group = << Tok(SessionModelFlag(harness), vals) >>
          \/ \E vals : group = << Tok("--setting-sources", vals) >>
          \/ Given(o, "nativeApprovals") /\ group = SessionApprovals[harness]
      BY Zenon DEF SessionTail, less
    <2>5. ASSUME NEW flag, NEW vals, group = << Tok(flag, vals) >>, flag \notin GrantFlags
          PROVE  FALSE
      <3>1. t = Tok(flag, vals)
        BY <2>3, <2>5, RangeOne
      <3> QED BY <1>6, <2>5, <3>1, TokFlag
    <2>6. SessionModelFlag(harness) = "--model"
      BY Zenon DEF SessionModelFlag, Granting
    <2>7. Given(o, "nativeApprovals") /\ group = SessionApprovals[harness] => FALSE
      <3>1. Given(o, "nativeApprovals") => harness \in DOMAIN SessionApprovals
        BY SessionPassed
      <3>2. Given(o, "nativeApprovals") =>
              SessionApprovals[harness] = << Tok("--permission-prompt-tool", {"stdio"}) >>
        BY <3>1 DEF SessionApprovals
      <3> QED BY <2>5, <3>2, GrantsApart
    <2>8. group \in TailGroups(harness, less)
      BY <2>4, <2>5, <2>6, <2>7, GrantsApart
    <2> QED BY <1>2, <1>5, <1>6, <2>3, <2>8, TailGrants
  <1>7. ASSUME t \in Range(ToolTokens(harness, o))
        PROVE  t \in Tokens(argv)
    <2> DEFINE group == ToolTokens(harness, o)
    <2>1. group \in TailGroups(harness, less) /\ group # << >>
      BY <1>2, <1>7, RangeNone DEF TailGroups
    <2>2. group \in SessionTail(harness, o)
      BY <2>1, Zenon DEF SessionTail, less
    <2>3. argv.tail = (SessionTail(harness, o) \union RenderedGroups(harness, o, {"access", "discovery"})) \ {<<>>}
      BY SessionArgvIs
    <2> HIDE DEF argv, group
    <2>4. group \in Groups(argv)
      BY <2>1, <2>2, <2>3 DEF Groups
    <2> QED BY <1>7, <2>4 DEF Tokens, group
  <1> QED BY <1>6, <1>7

-----------------------------------------------------------------------------
(* Where the list of a turn comes from                                     *)

\* What a launch passed before its tiers were taken.
LEMMA LaunchPassed ==
  ASSUME NEW user, NEW project, NEW harness, NEW args, NEW a,
         a = Expanded(args, user, project), ResolveIssue(harness, args, user, project) = "none"
  PROVE  /\ AccessAloneIssue(harness, a, DOMAIN a \union DOMAIN Heeded(args, user, project)) = "none"
         /\ FloorIssue(a, project) = "none"
  <1> DEFINE x == IsolationIssue(args)
             y == IssueIf(Given(a, "access") /\ a.access \notin AccessValues, "invalid-option-value")
             alone == AccessAloneIssue(harness, a, DOMAIN a \union DOMAIN Heeded(args, user, project))
             lists == ListsIssue(user, project)
             floor == FloorIssue(a, project)
             z == IssueIf(Given(Resolved(harness, args, user, project), "access")
                            /\ harness \notin DOMAIN AccessOf, "unsupported-option")
  <1>1. FirstIssue(<< x, y, alone, lists, floor, z >>) = "none"
    BY Zenon DEF ResolveIssue
  <1>2. alone = "none" /\ floor = "none"
    <2> HIDE DEF x, y, alone, lists, floor, z
    <2> QED BY <1>1, NoneOfSix
  <1> QED BY <1>2

LEMMA ExpandedKeeps ==
  /\ DOMAIN Expanded(Own, call.user, call.project) = DOMAIN Own
  /\ Heeded(Expanded(Own, call.user, call.project), call.user, call.project)
       = Heeded(Own, call.user, call.project)
  <1> DEFINE a == Expanded(Own, call.user, call.project)
  <1>1. DOMAIN a = DOMAIN Own
    BY DEF Expanded
  <1> HIDE DEF a
  <1>2. Given(a, "isolation") <=> Given(Own, "isolation")
    BY <1>1 DEF Given
  <1>3. Heeded(a, call.user, call.project) = Heeded(Own, call.user, call.project)
    BY <1>2 DEF Heeded
  <1> QED BY <1>1, <1>3 DEF a

\* What a launch has of these keys an argument or a config file said.
LEMMA LaunchKeys ==
  ASSUME NEW k, ~Resuming, k \in DOMAIN Tiered,
         \/ k = "tools" \/ k = "excludeTools"
         \/ k = "sandbox" /\ call.h = "codex" /\ "access" \in DOMAIN Own
  PROVE  k \in DOMAIN Own \union DOMAIN Heeded(Own, call.user, call.project)
  <1> DEFINE a == Expanded(Own, call.user, call.project)
             heeded == Heeded(a, call.user, call.project)
             config == Without(heeded, NotOptions)
             told == [key \in {m \in DOMAIN config : ConfigApplies(call.h, a, config, m)} |-> config[key]]
             own == [key \in {m \in ProfileKeys : ProfileApplies(call.h, a, config, m)} |-> Profile[key]]
             map == ToolMapOption(call.user, call.project)
             all == Layers(<< a, told, own, map >>)
  <1>1. Tiered = all
    BY Zenon DEF Tiered, Resolved
  <1>2. DOMAIN told \subseteq DOMAIN heeded
    <2>1. DOMAIN config \subseteq DOMAIN heeded
      BY DEF Without
    <2> HIDE DEF config
    <2> QED BY <2>1
  <1>3. DOMAIN a = DOMAIN Own /\ heeded = Heeded(Own, call.user, call.project)
    BY ExpandedKeeps
  <1>4. k \notin DOMAIN own
    <2>1. CASE k = "tools" \/ k = "excludeTools"
      <3>1. "tools" \in EmitsNothing /\ "excludeTools" \notin ProfileKeys
        BY DEF EmitsNothing, ProfileKeys, Profile
      <3> HIDE DEF a, config
      <3> QED BY <2>1, <3>1 DEF ProfileApplies
    <2>2. CASE k = "sandbox" /\ call.h = "codex" /\ "access" \in DOMAIN Own
      <3>1. Claimed("codex") = "sandbox"
        BY DEF Claimed, AccessOf, AccessSpec
      <3>2. Given(a, "access")
        <4> HIDE DEF a
        <4> QED BY <1>3, <2>2 DEF Given
      <3> HIDE DEF a, config
      <3> QED BY <2>2, <3>1, <3>2 DEF ProfileApplies
    <2> QED BY <2>1, <2>2
  <1>5. k \notin DOMAIN map
    BY MapIsOne
  <1> HIDE DEF a, told, own, map, heeded
  <1>6. k \in DOMAIN all <=> k \in DOMAIN a \union DOMAIN told \union DOMAIN own \union DOMAIN map
    BY OfFour
  <1> HIDE DEF all
  <1> QED BY <1>1, <1>2, <1>3, <1>4, <1>5, <1>6

\* An access preset of the arguments stands alone on a launch.
LEMMA LaunchAlone ==
  ASSUME NEW k, k = "tools" \/ k = "excludeTools" \/ (k = "sandbox" /\ call.h = "codex"),
         ~Resuming, ResolveIssue(call.h, Own, call.user, call.project) = "none",
         "access" \in DOMAIN Own
  PROVE  k \notin DOMAIN Tiered
  <1> DEFINE a == Expanded(Own, call.user, call.project)
             heeded == Heeded(Own, call.user, call.project)
  <1>1. DOMAIN a = DOMAIN Own
    BY ExpandedKeeps
  <1>2. k \in DOMAIN Tiered => k \in DOMAIN Own \union DOMAIN heeded
    BY LaunchKeys
  <1>3. AccessAloneIssue(call.h, a, DOMAIN a \union DOMAIN heeded) = "none"
    BY LaunchPassed
  <1>4. Claimed("codex") = "sandbox"
    BY DEF Claimed, AccessOf, AccessSpec
  <1> HIDE DEF a, heeded
  <1>5. {"tools", "excludeTools", Claimed(call.h)} \intersect (DOMAIN a \union DOMAIN heeded) = {}
    BY <1>1, <1>3 DEF AccessAloneIssue, IssueIf, Given
  <1> QED BY <1>1, <1>2, <1>4, <1>5

\* The project's list caps a launch.
LEMMA LaunchFloor ==
  ASSUME ~Resuming, ResolveIssue(call.h, Own, call.user, call.project) = "none",
         Given(call.project, "tools"), "isolation" \notin DOMAIN Own
  PROVE  "tools" \in DOMAIN Tiered /\ Tiered["tools"] \subseteq call.project["tools"]
  <1> DEFINE a == Expanded(Own, call.user, call.project)
             heeded == Heeded(a, call.user, call.project)
             config == Without(heeded, NotOptions)
             told == [key \in {m \in DOMAIN config : ConfigApplies(call.h, a, config, m)} |-> config[key]]
             own == [key \in {m \in ProfileKeys : ProfileApplies(call.h, a, config, m)} |-> Profile[key]]
             map == ToolMapOption(call.user, call.project)
             all == Layers(<< a, told, own, map >>)
             merged == ConfigOf(call.user, call.project)
  <1>1. Tiered = all
    BY Zenon DEF Tiered, Resolved
  <1>2. DOMAIN a = DOMAIN Own
    BY ExpandedKeeps
  <1>3. FloorIssue(a, call.project) = "none"
    BY LaunchPassed
  <1>4. "tools" \in DOMAIN merged /\ merged["tools"] = call.project["tools"]
    BY OfTwo DEF ConfigOf, Given
  <1> HIDE DEF merged, a
  <1>5. "tools" \in DOMAIN heeded /\ heeded["tools"] = merged["tools"]
    <2>1. ~Given(a, "isolation")
      BY <1>2 DEF Given
    <2>2. heeded = Without(merged, {})
      BY <2>1, Zenon DEF Heeded, merged
    <2> HIDE DEF heeded
    <2> QED BY <1>4, <2>2 DEF Without
  <1> HIDE DEF heeded
  <1>6. "tools" \in DOMAIN config /\ config["tools"] = heeded["tools"]
    BY <1>5 DEF Without, NotOptions
  <1> HIDE DEF config
  <1>7. "tools" \notin DOMAIN a => "tools" \in DOMAIN told /\ told["tools"] = config["tools"]
    BY <1>6 DEF ConfigApplies, Given
  <1> HIDE DEF told, own, map
  <1>8. /\ "tools" \in DOMAIN all <=> "tools" \in DOMAIN a \union DOMAIN told \union DOMAIN own \union DOMAIN map
        /\ "tools" \in DOMAIN a => all["tools"] = a["tools"]
        /\ "tools" \in DOMAIN told \ DOMAIN a => all["tools"] = told["tools"]
    BY OfFour
  <1> HIDE DEF all
  <1>9. "tools" \in DOMAIN a => a["tools"] \subseteq call.project["tools"]
    BY <1>3 DEF FloorIssue, IssueIf, Given
  <1> QED BY <1>1, <1>4, <1>5, <1>6, <1>7, <1>8, <1>9

\* A planned turn has of these keys what its tiers have.
LEMMA ComposedHas ==
  ASSUME NEW k \in {"tools", "excludeTools", "sandbox", "access", "isolation"}
  PROVE  /\ k \in DOMAIN Continuing(Slugged(Tiered)) <=> k \in DOMAIN Tiered
         /\ k \in DOMAIN Tiered => Continuing(Slugged(Tiered))[k] = Tiered[k]
  <1> DEFINE named == Slugged(Tiered)
             full == Continuing(named)
  <1>1. /\ k \in DOMAIN Tiered => k \in DOMAIN named /\ named[k] = Tiered[k]
        /\ k \in DOMAIN named => k \in DOMAIN Tiered
    BY SluggedHas
  <1> HIDE DEF named
  <1>2. /\ k \in DOMAIN named => k \in DOMAIN full /\ full[k] = named[k]
        /\ k \in DOMAIN full => k \in DOMAIN named
    BY ContinuingHas
  <1> HIDE DEF full
  <1>3. /\ k \in DOMAIN full <=> k \in DOMAIN Tiered
        /\ k \in DOMAIN Tiered => full[k] = Tiered[k]
    BY <1>1, <1>2
  <1> QED BY <1>3 DEF full, named

-----------------------------------------------------------------------------
(* What a planned call may use                                             *)

LEMMA NamesGrow ==
  ASSUME NEW some, NEW more, some \subseteq more
  PROVE  Allowed(some) \subseteq Allowed(more)
  <1>1. Canonical(some) \subseteq Canonical(more)
    BY DEF Canonical
  <1>2. NativeNames(call.h, plan.options, Canonical(some))
          \subseteq NativeNames(call.h, plan.options, Canonical(more))
    BY <1>1 DEF NativeNames
  <1>3. Passed(some) \subseteq Passed(more)
    BY DEF Passed
  <1> QED BY <1>2, <1>3 DEF Allowed

LEMMA ValuesAre ==
  ASSUME NEW flag, NEW v
  PROVE  v \in ValuesGiven(flag) <=> \E t \in Tokens(plan.argv) : t.flag = flag /\ v \in t.vals
  BY DEF ValuesGiven

LEMMA UsableElsewhere ==
  ASSUME call.h \notin Granting
  PROVE  Usable = {}
  BY DEF Usable, Granting

\* A list on the command line leaves what it names and nothing else.
LEMMA ListedIsUsed ==
  ASSUME call.h \in Granting, Given(plan.options, "tools"),
         \A t \in Tokens(plan.argv) :
           t.flag \in GrantFlags => t \in Range(ToolTokens(call.h, plan.options)),
         \A t \in Range(ToolTokens(call.h, plan.options)) : t \in Tokens(plan.argv)
  PROVE  Usable \subseteq Allowed(plan.options.tools)
  <1> DEFINE o == plan.options
             mapped == NativeNames(call.h, o, Canonical(o.tools))
             passed == Passed(o.tools)
             left == LeftTools(call.h, o)
             known == KnownTools(call.h)
             free1 == ValuesGiven("--allowedTools")
             free2 == ValuesGiven("--disallowedTools")
             only == ValuesGiven("--tools")
             may == Allowed(o.tools)
             list == Range(ToolTokens(call.h, o))
  <1>1. left = mapped \union passed /\ may = mapped \union passed
    BY DEF LeftTools, Allowed
  <1>2. CASE call.h \in {"pi", "popeye"}
    <2> DEFINE one == Tok("--tools", left)
    <2>1. list = {one}
      <3>1. ToolTokens(call.h, o) = << one >>
        BY <1>2, StrictTokens
      <3> HIDE DEF one
      <3> QED BY <3>1, RangeOne
    <2>2. one.flag = "--tools" /\ one.vals = left
      BY TokFlag
    <2> HIDE DEF one, left, list
    <2>3. FlagGiven("--tools")
      BY <2>1, <2>2 DEF FlagGiven, list
    <2>4. only \subseteq left
      <3>1. ASSUME NEW t \in Tokens(plan.argv), t.flag = "--tools"
            PROVE  t.vals = left
        <4>1. t \in list
          BY <3>1 DEF GrantFlags, list
        <4> QED BY <2>1, <2>2, <4>1
      <3> QED BY <3>1, ValuesAre
    <2>5. Usable = only
      BY <1>2, <2>3 DEF Usable
    <2> HIDE DEF only
    <2> QED BY <1>1, <2>4, <2>5
  <1>3. CASE call.h = "claude"
    <2> DEFINE denied == DeniedTools("claude", o)
               a == Tok("--allowedTools", left)
               b == Tok("--disallowedTools", denied)
    <2>1. list = IF o.tools # {} THEN {a, b} ELSE {b}
      <3>1. ToolTokens("claude", o) =
              IF Given(o, "tools") /\ o.tools # {}
              THEN << Tok("--allowedTools", LeftTools("claude", o)),
                      Tok("--disallowedTools", DeniedTools("claude", o)) >>
              ELSE << Tok("--disallowedTools", DeniedTools("claude", o)) >>
        BY ClaudeTokens
      <3>2. ToolTokens(call.h, o) = IF o.tools # {} THEN << a, b >> ELSE << b >>
        BY <1>3, <3>1
      <3> HIDE DEF a, b
      <3> QED BY <3>2, RangeOne, RangeTwo
    <2>2. /\ a.flag = "--allowedTools" /\ a.vals = left
          /\ b.flag = "--disallowedTools" /\ b.vals = denied
      BY TokFlag
    <2>3. denied = known \ (IF o.tools = {} THEN {} ELSE mapped)
      BY <1>3 DEF DeniedTools
    <2> HIDE DEF a, b, left, denied, mapped, passed, known, list
    <2>4. ASSUME NEW t \in Tokens(plan.argv), t.flag \in GrantFlags
          PROVE  o.tools # {} /\ t = a
      <3>1. t \in list
        BY <2>4 DEF list
      <3>2. t # b
        BY <2>2, <2>4, GrantsApart
      <3> QED BY <2>1, <3>1, <3>2
    <2>5. ~FlagGiven("--tools")
      BY <2>2, <2>4 DEF FlagGiven, GrantFlags
    <2>6. free1 \subseteq IF o.tools # {} THEN left ELSE {}
      BY <2>2, <2>4, ValuesAre DEF GrantFlags
    <2>7. denied \subseteq free2
      <3>1. b \in Tokens(plan.argv)
        BY <2>1 DEF list
      <3> QED BY <2>2, <3>1, ValuesAre
    <2>8. Usable = (known \union free1) \ free2
      BY <1>3, <2>5 DEF Usable, known
    <2> HIDE DEF free1, free2, may
    <2>9. CASE o.tools = {}
      <3>1. denied = known /\ free1 = {}
        BY <2>3, <2>6, <2>9
      <3> QED BY <2>7, <2>8, <3>1
    <2>10. CASE o.tools # {}
      <3>1. denied = known \ mapped /\ free1 \subseteq left
        BY <2>3, <2>6, <2>10
      <3>2. left = mapped \union passed
        BY <1>1
      <3>3. Usable \subseteq mapped \union passed
        BY <2>7, <2>8, <3>1, <3>2
      <3> QED BY <1>1, <3>3 DEF may
    <2> QED BY <2>9, <2>10
  <1> QED BY <1>2, <1>3 DEF Granting

\* A session that has a list has neither a preset nor isolation.
LEMMA SessionUses ==
  ASSUME PlannedInv, IsPlanned, IsSession, call.h \in Granting, Given(plan.options, "tools")
  PROVE  Usable \subseteq Allowed(plan.options.tools)
  <1>1. /\ plan.argv = SessionArgv(call.h, plan.options)
        /\ SessionIssue(call.h, plan.options) = "none"
    BY DEF PlannedInv, IsPlanned, SessionPlanned
  <1>2. SessionPermissionKeys \intersect DOMAIN plan.options # {}
    BY DEF SessionPermissionKeys, Given
  <1>3. AccessAloneIssue(call.h, plan.options, DOMAIN plan.options) = "none"
    BY <1>1, <1>2, SessionPassed, PermissionsPassed
  <1>4. ~Given(plan.options, "access")
    BY <1>3 DEF AccessAloneIssue, IssueIf, Given
  <1> QED BY <1>1, <1>4, SessionGrants, ListedIsUsed

\* A turn that has a list has no preset the caller named.
LEMMA TurnUses ==
  ASSUME PlannedInv, IsPlanned, ~IsSession, ~AccessFromFile, call.h \in Granting,
         Given(plan.options, "tools")
  PROVE  Usable \subseteq Allowed(plan.options.tools)
  <1> DEFINE o == plan.options
             full == Continuing(Slugged(Tiered))
  <1>1. o = full /\ TiersPassed /\ TurnMade(o)
    BY DEF PlannedInv, IsPlanned, TurnPlan
  <1>2. ~NativeApprovals(call.h)
    BY DEF NativeApprovals, Granting
  <1>3. SpawnIssue(call.h, o) = "none" /\ \E saved \in BOOLEAN : plan.argv = SpawnArgv(call.h, o, saved)
    BY <1>1, <1>2 DEF TurnMade
  <1>4. /\ "tools" \in DOMAIN full <=> "tools" \in DOMAIN Tiered
        /\ "access" \in DOMAIN full <=> "access" \in DOMAIN Tiered
    BY ComposedHas
  <1>5. Resuming => PhaseOf(o) = "resume"
    <2>1. call.resume # "" => "resume" \in DOMAIN full
      BY ContinuingHas
    <2>2. call.last => "resumeLast" \in DOMAIN full
      BY ContinuingHas
    <2> HIDE DEF full
    <2> QED BY <1>1, <2>1, <2>2 DEF Resuming, PhaseOf, Given
  <1> HIDE DEF full
  <1>6. ~Given(o, "access")
    <2>1. CASE Resuming
      <3>1. AccessAloneIssue(call.h, o, DOMAIN o) = "none"
        BY <1>3, <1>5, <2>1, SpawnPassed
      <3> QED BY <3>1 DEF AccessAloneIssue, IssueIf, Given
    <2>2. CASE ~Resuming
      <3>1. Given(o, "access") => "access" \in DOMAIN call.args
        BY DEF AccessFromFile, Given
      <3>2. "access" \in DOMAIN call.args => "access" \in DOMAIN Own
        BY OwnHas DEF Beside
      <3>3. "access" \in DOMAIN Own => "tools" \notin DOMAIN Tiered
        BY <1>1, <2>2, LaunchAlone DEF TiersPassed
      <3> QED BY <1>1, <1>4, <3>1, <3>2, <3>3 DEF Given
    <2> QED BY <2>1, <2>2
  <1>7. ~Given(o, "isolation")
    <2>1. IsolationIssue(o) = "none"
      BY <1>3, SpawnPassed
    <2> QED BY <2>1 DEF IsolationIssue, IssueIf, IsolationOverrides
  <1>8. PICK saved \in BOOLEAN : plan.argv = SpawnArgv(call.h, o, saved)
    BY <1>3
  <1>9. \A t \in Tokens(plan.argv) :
          t.flag \in GrantFlags => t \in Range(ToolTokens(call.h, o))
    BY <1>3, <1>6, <1>7, <1>8, SpawnGrants
  <1>10. \A t \in Range(ToolTokens(call.h, o)) : t \in Tokens(plan.argv)
    BY <1>8, SpawnLists
  <1> QED BY <1>9, <1>10, ListedIsUsed

\* Isolation is told in one place, before the prompt.
LEMMA IsolationPlaced ==
  ASSUME NEW harness \in Granting, NEW o
  PROVE  "isolation" \in PlacedKeys(harness, o, FALSE)
  <1>1. "isolation" \in Range(TurnOptionKeys)
    <2>1. TurnOptionKeys[1] = "isolation" /\ DOMAIN TurnOptionKeys = 1 .. 15
      BY DEF TurnOptionKeys
    <2> QED BY <2>1 DEF Range
  <1>2. AfterPrompt(harness, o, "isolation") = FALSE
    <2>1. CASE harness = "claude"
      <3>1. ClaudeOptions["isolation"].after = FALSE
        <4> DEFINE tokens == << Bare("--bare"), Tok("--tools", {}), Tok("--disallowedTools", {"mcp"}),
                                Bare("--strict-mcp-config") >>
                   spec == OptionSpec("enum", Flags(tokens))
                   row == [spec EXCEPT !.vals = {"tool-free"}, !.resume = Never]
        <4>1. ClaudeOptions["isolation"] = row
          BY DEF ClaudeOptions
        <4>2. DOMAIN spec = SpecDomain /\ spec.after = FALSE
          <5> HIDE DEF tokens
          <5> QED BY SpecIs DEF OptionSpec
        <4> HIDE DEF spec
        <4>3. row.after = FALSE
          BY <4>2 DEF SpecDomain
        <4> QED BY <4>1, <4>3
      <3>2. OptionsOf[harness] = ClaudeOptions
        BY <2>1, TablesAre
      <3>3. OptionsOf[harness]["isolation"].after = FALSE
        BY <3>1, <3>2
      <3> QED BY <3>3 DEF AfterPrompt
    <2>2. CASE harness # "claude"
      <3>1. "isolation" \notin DOMAIN OptionsOf[harness]
        BY <2>2, TablesAre, PiRows, PopeyeRows DEF Granting
      <3> QED BY <3>1 DEF AfterPrompt
    <2> QED BY <2>1, <2>2
  <1> QED BY <1>1, <1>2 DEF PlacedKeys

\* A token of an option before the prompt is on the command line.
LEMMA SpawnTells ==
  ASSUME NEW harness \in Granting, NEW o, NEW saved, NEW key \in PlacedKeys(harness, o, FALSE),
         NEW group \in OptionGroups(harness, o, PhaseOf(o), key), NEW t \in Range(group)
  PROVE  t \in Tokens(SpawnArgv(harness, o, saved))
  <1> DEFINE argv == SpawnArgv(harness, o, saved)
  <1>1. argv.before = PlacedGroups(harness, o, PhaseOf(o), FALSE)
    BY SpawnArgvIs
  <1> HIDE DEF argv
  <1>2. group # << >>
    BY RangeNone
  <1>3. group \in PlacedGroups(harness, o, PhaseOf(o), FALSE)
    BY <1>2 DEF PlacedGroups
  <1>4. group \in Groups(argv)
    BY <1>1, <1>3 DEF Groups
  <1>5. t \in Tokens(argv)
    BY <1>4 DEF Tokens
  <1> QED BY <1>5 DEF argv

\* Under isolation Claude is told to use no tool, and no other flag adds one.
LEMMA IsolationUses ==
  ASSUME PlannedInv, IsPlanned, call.h \in Granting, Given(call.args, "isolation")
  PROVE  Usable = {}
  <1> DEFINE o == plan.options
             full == Continuing(Slugged(Tiered))
             key == "isolation"
             phase == PhaseOf(o)
             nothing == Tok("--tools", {})
             only == ValuesGiven("--tools")
             also == ValuesGiven("--disallowedTools")
  <1>1. ~IsSession
    BY DEF PlannedInv, IsPlanned, SessionPlanned
  <1>2. o = full /\ TiersPassed /\ TurnMade(o)
    BY <1>1 DEF PlannedInv, IsPlanned, TurnPlan
  <1>3. ~NativeApprovals(call.h)
    BY DEF NativeApprovals, Granting
  <1>4. SpawnIssue(call.h, o) = "none" /\ \E saved \in BOOLEAN : plan.argv = SpawnArgv(call.h, o, saved)
    BY <1>2, <1>3 DEF TurnMade
  <1>5. Given(o, "isolation")
    <2>1. "isolation" \in DOMAIN Own
      BY OwnHas DEF Beside, Given
    <2>2. "isolation" \in DOMAIN Tiered
      BY <1>2, <2>1, ResumedHas, LaunchedHas DEF TiersPassed
    <2>3. "isolation" \in DOMAIN full
      BY <2>2, ComposedHas
    <2> HIDE DEF full
    <2> QED BY <1>2, <2>3 DEF Given
  <1> HIDE DEF full
  <1>6. ~Given(o, "access") /\ ~Given(o, "tools") /\ ~Given(o, "excludeTools")
    <2>1. IsolationIssue(o) = "none"
      BY <1>4, SpawnPassed
    <2> QED BY <1>5, <2>1 DEF IsolationIssue, IssueIf, IsolationOverrides
  <1>7. OptionIssue(call.h, o, phase, key) = "none"
    <2>1. key \in PlacedKeys(call.h, o, FALSE)
      BY IsolationPlaced
    <2> QED BY <1>4, <2>1, SpawnPassed
  <1>8. key \in DOMAIN OptionsOf[call.h] /\ ResolveRender(OptionsOf[call.h][key], phase) # Never
    <2> DEFINE render == ResolveRender(OptionsOf[call.h][key], phase)
    <2>1. OptionIssue(call.h, o, phase, key) =
            IF key \notin DOMAIN OptionsOf[call.h] THEN "unsupported-option"
            ELSE LET spec == OptionsOf[call.h][key] IN
                 IF ResolveRender(spec, phase) = Never THEN "unsupported-on-resume"
                 ELSE IF Legal(call.h, spec, o[key]) THEN "none"
                 ELSE IF spec.kind \in {"effort", "in-model"} THEN "unknown-effort"
                 ELSE "invalid-option-value"
      BY <1>5 DEF OptionIssue
    <2> QED BY <1>7, <2>1
  <1>9. call.h = "claude"
    <2>1. "isolation" \notin DOMAIN PiOptions /\ "isolation" \notin DOMAIN PopeyeOptions
      BY PiRows, PopeyeRows
    <2>2. call.h # "pi" /\ call.h # "popeye"
      BY <1>8, <2>1, TablesAre
    <2> QED BY <2>2 DEF Granting
  <1> DEFINE tokens == << Bare("--bare"), nothing, Tok("--disallowedTools", {"mcp"}),
                          Bare("--strict-mcp-config") >>
             row == ClaudeOptions["isolation"]
  <1>10. OptionsOf[call.h][key] = row
    BY <1>9, TablesAre
  <1>11. Row(row, "enum", Flags(tokens), Never)
    BY ClaudeRows
  <1>12. phase = "launch"
    BY <1>8, <1>10, <1>11 DEF ResolveRender, Row
  <1>13. tokens \in OptionGroups(call.h, o, phase, key)
    <2> HIDE DEF tokens, row
    <2>1. row.kind = "enum" /\ ResolveRender(row, phase) = Flags(tokens)
      BY <1>11, <1>12 DEF ResolveRender, Row
    <2>2. OptionGroups(call.h, o, phase, key) = {TokensFor(Flags(tokens), ValuesOf(row, o[key]))}
      BY <1>5, <1>10, <2>1 DEF OptionGroups
    <2> QED BY <2>2, FlagsSay
  <1>14. nothing \in Range(tokens)
    <2> HIDE DEF nothing
    <2> QED BY RangeFour
  <1>15. PICK saved \in BOOLEAN : plan.argv = SpawnArgv(call.h, o, saved)
    BY <1>4
  <1>16. nothing \in Tokens(plan.argv)
    <2>1. nothing \in Tokens(SpawnArgv(call.h, o, saved))
      <3> HIDE DEF tokens, nothing
      <3> QED BY <1>13, <1>14, IsolationPlaced, SpawnTells
    <2> QED BY <1>15, <2>1
  <1>17. nothing.flag = "--tools" /\ nothing.vals = {}
    BY TokFlag
  <1>18. ASSUME NEW t \in Tokens(plan.argv), t.flag = "--tools"
         PROVE  t.vals = {}
    <2>1. ToolTokens(call.h, o) = << >>
      BY <1>6 DEF ToolTokens
    <2>2. t \notin Range(ToolTokens(call.h, o))
      BY <2>1, RangeNone
    <2>3. t = nothing
      BY <1>4, <1>6, <1>15, <1>18, <2>2, SpawnGrants DEF GrantFlags
    <2> QED BY <1>17, <2>3
  <1>19. only = {}
    BY <1>18, ValuesAre
  <1>20. FlagGiven("--tools")
    BY <1>16, <1>17 DEF FlagGiven
  <1>21. Usable = only \ also
    BY <1>9, <1>20 DEF Usable
  <1> QED BY <1>19, <1>21

LEMMA GrantsAreHeld == PlannedInv => GrantsHold
  <1> SUFFICES ASSUME PlannedInv, IsPlanned, ~AccessFromFile PROVE
        /\ Given(plan.options, "tools") => Usable \subseteq Allowed(plan.options.tools)
        /\ Given(call.project, "tools") /\ ~Resuming /\ ~Given(call.args, "isolation")
           /\ call.command = "run"
             => Usable \subseteq Allowed(call.project.tools)
        /\ Given(call.args, "isolation") => Usable \subseteq {}
    BY DEF GrantsHold
  <1>1. Given(plan.options, "tools") => Usable \subseteq Allowed(plan.options.tools)
    BY UsableElsewhere, SessionUses, TurnUses
  <1>2. ASSUME Given(call.project, "tools"), ~Resuming, ~Given(call.args, "isolation"),
               call.command = "run"
        PROVE  Usable \subseteq Allowed(call.project.tools)
    <2> DEFINE full == Continuing(Slugged(Tiered))
    <2>1. ~IsSession
      BY <1>2 DEF IsSession
    <2>2. plan.options = full /\ TiersPassed
      BY <2>1 DEF PlannedInv, IsPlanned, TurnPlan
    <2>3. "isolation" \notin DOMAIN Own
      BY <1>2, OwnHas DEF Given
    <2>4. "tools" \in DOMAIN Tiered /\ Tiered["tools"] \subseteq call.project["tools"]
      BY <1>2, <2>2, <2>3, LaunchFloor DEF TiersPassed
    <2>5. "tools" \in DOMAIN full /\ full["tools"] = Tiered["tools"]
      BY <2>4, ComposedHas
    <2> HIDE DEF full
    <2>6. Given(plan.options, "tools") /\ plan.options.tools \subseteq call.project.tools
      BY <2>2, <2>4, <2>5 DEF Given
    <2> QED BY <1>1, <2>6, NamesGrow
  <1>3. Given(call.args, "isolation") => Usable \subseteq {}
    BY UsableElsewhere, IsolationUses
  <1> QED BY <1>1, <1>2, <1>3

\* Whatever the calls are, what a turn or a session may use, what it is asked
\* for and which conversation it continues come from the tier that may say so.
THEOREM PolicyIsKept == Spec => []PolicyHolds
  <1>1. Init => PlannedInv
    BY PlanStarts
  <1>2. PlannedInv /\ [Next]_vars => PlannedInv'
    BY PlanKept
  <1>3. PlannedInv => PolicyHolds
    BY GrantsAreHeld, TiersHold, SessionHolds, ResumesHold DEF PolicyHolds
  <1> QED BY <1>1, <1>2, <1>3, PTL DEF Spec

-----------------------------------------------------------------------------
(* What each flag tells, whoever gives it                                  *)

EffortWord(harness, o) == IF Given(o, "effort") THEN Said(harness, o, "effort") ELSE {"saved"}
ModelWord(o) == IF Given(o, "model") THEN {o.model} ELSE {"saved"}
ProviderWord(harness, o) ==
  IF Given(o, "provider") THEN Said(harness, o, "provider") ELSE {"saved"}
ScopesWord(o) == IF Given(o, "settingSources") THEN o.settingSources ELSE {"project"}
ModeWord(o) == IF o.access = "read" THEN {"dontAsk"} ELSE {"acceptEdits"}
SandboxWord(harness, o) ==
  IF harness = "cursor" THEN {"enabled"}
  ELSE IF harness = "antigravity" THEN {}
  ELSE IF Given(o, "access") THEN {SandboxMode(o)}
  ELSE IF Given(o, "sandbox") THEN Said(harness, o, "sandbox")
  ELSE {"workspace-write"}
ToolsWord(harness, o) ==
  IF harness = "claude" THEN (IF Given(o, "isolation") THEN {} ELSE ReadTools)
  ELSE IF Given(o, "access") THEN LeftTools(harness, PresetList(harness, o))
  ELSE LeftTools(harness, o)
DeniedWord(o) ==
  IF Given(o, "access") \/ Given(o, "isolation") THEN {"mcp"} ELSE DeniedTools("claude", o)

IdFlags == {"--session-id", "--resume", "--conversation", "resume"}
Switches ==
  {"--fork-session", "--continue", "--last", "--bare", "--strict-mcp-config",
   "--exclude-dynamic-system-prompt-sections", "--disable-slash-commands",
   "-nt", "-nc", "-ne", "-ns", "--disable-write", "--disable-shell",
   "--disable-web-tools", "--dangerously-skip-permissions", "--yolo", "--force"}

\* What a flag carries where it is given at all: id is the session continued.
Spelled(harness, o, id, flag, vals) ==
  \/ flag \in {"--effort", "--thinking", "--reasoning-effort"} /\ vals = EffortWord(harness, o)
  \/ flag \in {"--autocompact", "--context-window"} /\ vals = Said(harness, o, "contextWindow")
  \/ flag = "--system-prompt" /\ vals = Said(harness, o, "systemPrompt")
  \/ flag = "--append-system-prompt" /\ vals = Said(harness, o, "appendSystemPrompt")
  \/ flag = "--agent" /\ vals = Said(harness, o, "agent")
  \/ flag = "--provider" /\ vals = ProviderWord(harness, o)
  \/ flag = "--max-model-steps" /\ vals = Said(harness, o, "maxSteps")
  \/ flag = "--sandbox" /\ vals = SandboxWord(harness, o)
  \/ flag = "--mode" /\ vals = {"ask"}
  \/ flag = "--permission-mode" /\ vals = ModeWord(o)
  \/ flag = "--tools" /\ vals = ToolsWord(harness, o)
  \/ flag = "--allowedTools" /\ vals = LeftTools("claude", o)
  \/ flag = "--disallowedTools" /\ vals = DeniedWord(o)
  \/ flag = "--model" /\ vals = ModelWord(o)
  \/ flag = "--skill" /\ vals = o.skills
  \/ flag = "--setting-sources" /\ vals = ScopesWord(o)
  \/ flag = "--settings" /\ vals = SettingsKeys(harness, o)
  \/ flag = "--permission-prompt-tool" /\ vals = {"stdio"}
  \/ flag \in IdFlags /\ vals = id
  \/ flag \in Switches /\ vals = {}

\* Codex takes most of its options as one entry of its configuration each.
Configured(harness, o, flag, vals) ==
  \/ flag = "-c model_context_window" /\ vals = Said(harness, o, "contextWindow")
  \/ flag = "-c model_reasoning_effort" /\ vals = EffortWord(harness, o)
  \/ flag = "-c model_provider" /\ vals = ProviderWord(harness, o)
  \/ flag = "-c model" /\ vals = ModelWord(o)
  \/ flag = "-c instructions" /\ vals = Said(harness, o, "systemPrompt")
  \/ flag = "-c sandbox_mode" /\ vals = SandboxWord(harness, o)
  \/ flag = "-c skills.config" /\ vals = o.skills

PlainFlags ==
  {"--effort", "--thinking", "--reasoning-effort", "--autocompact", "--context-window",
   "--system-prompt", "--append-system-prompt", "--agent", "--provider",
   "--max-model-steps", "--sandbox", "--mode", "--permission-mode", "--tools",
   "--allowedTools", "--disallowedTools", "--model", "--skill", "--setting-sources",
   "--settings", "--permission-prompt-tool"} \union IdFlags \union Switches

Heard(harness, o, id, t) ==
  \/ t.flag \in Repeatable
  \/ \E flag : \E vals :
       /\ t = Tok(flag, vals)
       /\ Spelled(harness, o, id, flag, vals) \/ Configured(harness, o, flag, vals)

LEMMA OneSpelled ==
  ASSUME NEW harness, NEW o, NEW id, NEW flag, NEW some, NEW other,
         Spelled(harness, o, id, flag, some), Spelled(harness, o, id, flag, other)
  PROVE  some = other
  BY DEF Spelled, IdFlags, Switches

LEMMA OneConfigured ==
  ASSUME NEW harness, NEW o, NEW flag, NEW some, NEW other,
         Configured(harness, o, flag, some), Configured(harness, o, flag, other)
  PROVE  some = other
  <1>1. CASE flag = "-c model_context_window"
    BY <1>1, Zenon DEF Configured
  <1>2. CASE flag = "-c model_reasoning_effort"
    BY <1>2, Zenon DEF Configured
  <1>3. CASE flag = "-c model_provider"
    BY <1>3, Zenon DEF Configured
  <1>4. CASE flag = "-c model"
    BY <1>4, Zenon DEF Configured
  <1>5. CASE flag = "-c instructions"
    BY <1>5, Zenon DEF Configured
  <1>6. CASE flag = "-c sandbox_mode"
    BY <1>6, Zenon DEF Configured
  <1>7. CASE flag = "-c skills.config"
    BY <1>7, Zenon DEF Configured
  <1> QED BY <1>1, <1>2, <1>3, <1>4, <1>5, <1>6, <1>7, Zenon DEF Configured

LEMMA SpelledPlain ==
  ASSUME NEW harness, NEW o, NEW id, NEW flag, NEW vals, Spelled(harness, o, id, flag, vals)
  PROVE  flag \in PlainFlags
  BY DEF Spelled, PlainFlags

LEMMA PlainApart ==
  /\ "-c model_context_window" \notin PlainFlags /\ "-c model_reasoning_effort" \notin PlainFlags
  /\ "-c model_provider" \notin PlainFlags /\ "-c model" \notin PlainFlags
  /\ "-c instructions" \notin PlainFlags /\ "-c sandbox_mode" \notin PlainFlags
  /\ "-c skills.config" \notin PlainFlags
  BY Zenon DEF PlainFlags, IdFlags, Switches

LEMMA ConfiguredApart ==
  ASSUME NEW harness, NEW o, NEW flag, NEW vals, Configured(harness, o, flag, vals)
  PROVE  flag \notin PlainFlags
  BY PlainApart, Zenon DEF Configured

\* Two tokens of one flag that are both heard are one token.
LEMMA HeardOnce ==
  ASSUME NEW harness, NEW o, NEW id, NEW s, NEW t, Heard(harness, o, id, s), Heard(harness, o, id, t),
         s.flag = t.flag, s.flag \notin Repeatable
  PROVE  s = t
  <1>1. ASSUME NEW u, Heard(harness, o, id, u), u.flag \notin Repeatable
        PROVE  \E flag : \E vals :
                 /\ u = Tok(flag, vals)
                 /\ Spelled(harness, o, id, flag, vals) \/ Configured(harness, o, flag, vals)
    BY <1>1, Zenon DEF Heard
  <1>2. PICK flag1, vals1 : /\ s = Tok(flag1, vals1)
                            /\ \/ Spelled(harness, o, id, flag1, vals1)
                               \/ Configured(harness, o, flag1, vals1)
    BY <1>1
  <1>3. PICK flag2, vals2 : /\ t = Tok(flag2, vals2)
                            /\ \/ Spelled(harness, o, id, flag2, vals2)
                               \/ Configured(harness, o, flag2, vals2)
    BY <1>1
  <1>4. s.flag = flag1 /\ t.flag = flag2
    BY <1>2, <1>3, TokFlag
  <1>5. vals1 = vals2
    BY <1>2, <1>3, <1>4, OneSpelled, OneConfigured, SpelledPlain, ConfiguredApart
  <1> QED BY <1>2, <1>3, <1>4, <1>5

LEMMA SpelledHeard ==
  ASSUME NEW harness, NEW o, NEW id, NEW flag, NEW vals, Spelled(harness, o, id, flag, vals)
  PROVE  Heard(harness, o, id, Tok(flag, vals))
  BY Zenon DEF Heard

LEMMA SwitchHeard ==
  ASSUME NEW harness, NEW o, NEW id, NEW flag \in Switches
  PROVE  Heard(harness, o, id, Bare(flag))
  <1>1. Spelled(harness, o, id, flag, {})
    BY Zenon DEF Spelled
  <1> QED BY <1>1, SpelledHeard DEF Bare

LEMMA ConfiguredHeard ==
  ASSUME NEW harness, NEW o, NEW id, NEW flag, NEW vals, Configured(harness, o, flag, vals)
  PROVE  Heard(harness, o, id, Tok(flag, vals))
  BY Zenon DEF Heard

\* The flag of an option that was set carries what was said of it.
PlainFlagsOf(key) ==
  CASE key = "effort" -> {"--effort", "--thinking", "--reasoning-effort"}
    [] key = "contextWindow" -> {"--autocompact", "--context-window"}
    [] key = "systemPrompt" -> {"--system-prompt"}
    [] key = "appendSystemPrompt" -> {"--append-system-prompt"}
    [] key = "agent" -> {"--agent"}
    [] key = "provider" -> {"--provider"}
    [] key = "maxSteps" -> {"--max-model-steps"}

LEMMA SaidHeard ==
  ASSUME NEW harness, NEW o, NEW id,
         NEW key \in {"effort", "contextWindow", "systemPrompt", "appendSystemPrompt", "agent",
                      "provider", "maxSteps"},
         Given(o, key), NEW flag \in PlainFlagsOf(key)
  PROVE  Heard(harness, o, id, Tok(flag, Said(harness, o, key)))
  <1>1. /\ key = "effort" => EffortWord(harness, o) = Said(harness, o, key)
        /\ key = "provider" => ProviderWord(harness, o) = Said(harness, o, key)
    BY DEF EffortWord, ProviderWord
  <1>2. Spelled(harness, o, id, flag, Said(harness, o, key))
    BY <1>1 DEF Spelled, PlainFlagsOf
  <1> QED BY <1>2, SpelledHeard

\* No choice of a turn or a session competes with a preset or with isolation.
Clean(harness, o) ==
  /\ Given(o, "access") => /\ ~Given(o, "tools") /\ ~Given(o, "excludeTools")
                           /\ harness = "codex" => ~Given(o, "sandbox")
  /\ Given(o, "isolation") =>
       ~Given(o, "access") /\ ~Given(o, "tools") /\ ~Given(o, "excludeTools")
  /\ Given(o, "settingSources") => "extensions" \notin OffFacets(o)

LEMMA ClaudeHeard ==
  ASSUME NEW o, NEW phase, NEW key, key \notin {"discovery", "access"},
         OptionIssue("claude", o, phase, key) = "none",
         NEW group \in OptionGroups("claude", o, phase, key), NEW t \in Range(group), NEW id
  PROVE  Heard("claude", o, id, t)
  <1> DEFINE values == Said("claude", o, key)
  <1>1. /\ Given(o, key)
        /\ \/ key = "contextWindow" /\ t = Tok("--autocompact", values)
           \/ /\ key = "isolation"
              /\ \/ t = Bare("--bare") \/ t = Tok("--tools", {}) \/ t = Tok("--disallowedTools", {"mcp"})
                 \/ t = Bare("--strict-mcp-config")
           \/ key = "effort" /\ t = Tok("--effort", values)
           \/ /\ key = "systemPrompt"
              /\ \/ t = Tok("--system-prompt", values)
                 \/ t = Bare("--exclude-dynamic-system-prompt-sections")
           \/ key = "appendSystemPrompt" /\ t = Tok("--append-system-prompt", values)
           \/ key = "agent" /\ t = Tok("--agent", values)
    BY ClaudeTold
  <1>2. ASSUME NEW flag, t = Tok(flag, values), flag \in PlainFlagsOf(key),
               key \in {"effort", "contextWindow", "systemPrompt", "appendSystemPrompt", "agent"}
        PROVE  Heard("claude", o, id, t)
    BY <1>1, <1>2, SaidHeard
  <1>3. ASSUME NEW flag \in Switches, t = Bare(flag)
        PROVE  Heard("claude", o, id, t)
    BY <1>3, SwitchHeard
  <1>4. CASE key = "isolation"
    <2>1. Given(o, "isolation")
      BY <1>1, <1>4
    <2>2. Spelled("claude", o, id, "--tools", {}) /\ Spelled("claude", o, id, "--disallowedTools", {"mcp"})
      BY <2>1 DEF Spelled, ToolsWord, DeniedWord
    <2>3. Heard("claude", o, id, Tok("--tools", {})) /\ Heard("claude", o, id, Tok("--disallowedTools", {"mcp"}))
      BY <2>2, SpelledHeard
    <2>4. "--bare" \in Switches /\ "--strict-mcp-config" \in Switches
      BY DEF Switches
    <2> QED BY <1>1, <1>3, <1>4, <2>3, <2>4
  <1>5. CASE key # "isolation"
    <2> HIDE DEF values
    <2>1. "--exclude-dynamic-system-prompt-sections" \in Switches
      BY DEF Switches
    <2> QED BY <1>1, <1>2, <1>3, <1>5, <2>1 DEF PlainFlagsOf
  <1> QED BY <1>4, <1>5

LEMMA PiHeard ==
  ASSUME NEW o, NEW phase, NEW key, key \notin {"discovery", "access"},
         OptionIssue("pi", o, phase, key) = "none",
         NEW group \in OptionGroups("pi", o, phase, key), NEW t \in Range(group), NEW id
  PROVE  Heard("pi", o, id, t)
  <1> DEFINE values == Said("pi", o, key)
  <1>1. /\ Given(o, key)
        /\ \/ key = "effort" /\ t = Tok("--thinking", values)
           \/ key = "provider" /\ t = Tok("--provider", values)
           \/ key = "agent" /\ t = Tok("--agent", values)
           \/ key = "systemPrompt" /\ t = Tok("--system-prompt", values)
           \/ key = "appendSystemPrompt" /\ t = Tok("--append-system-prompt", values)
           \/ t.flag = "-e"
    BY PiTold
  <1>2. ASSUME NEW flag, t = Tok(flag, values), flag \in PlainFlagsOf(key),
               key \in {"effort", "provider", "systemPrompt", "appendSystemPrompt", "agent"}
        PROVE  Heard("pi", o, id, t)
    BY <1>1, <1>2, SaidHeard
  <1>3. t.flag = "-e" => Heard("pi", o, id, t)
    BY DEF Heard, Repeatable
  <1> HIDE DEF values
  <1> QED BY <1>1, <1>2, <1>3 DEF PlainFlagsOf

LEMMA PopeyeHeard ==
  ASSUME NEW o, NEW phase, NEW key, key \notin {"discovery", "access"},
         OptionIssue("popeye", o, phase, key) = "none",
         NEW group \in OptionGroups("popeye", o, phase, key), NEW t \in Range(group), NEW id
  PROVE  Heard("popeye", o, id, t)
  <1> DEFINE values == Said("popeye", o, key)
  <1>1. /\ Given(o, key)
        /\ \/ key = "effort" /\ t = Tok("--effort", values)
           \/ key = "systemPrompt" /\ t = Tok("--system-prompt", values)
           \/ key = "appendSystemPrompt" /\ t = Tok("--append-system-prompt", values)
           \/ key = "contextWindow" /\ t = Tok("--context-window", values)
           \/ key = "agent" /\ t = Tok("--agent", values)
    BY PopeyeTold
  <1>2. ASSUME NEW flag, t = Tok(flag, values), flag \in PlainFlagsOf(key),
               key \in {"effort", "contextWindow", "systemPrompt", "appendSystemPrompt", "agent"}
        PROVE  Heard("popeye", o, id, t)
    BY <1>1, <1>2, SaidHeard
  <1> HIDE DEF values
  <1> QED BY <1>1, <1>2 DEF PlainFlagsOf

LEMMA MuseHeard ==
  ASSUME NEW o, NEW phase, NEW key, key \notin {"discovery", "access"},
         OptionIssue("muse", o, phase, key) = "none",
         NEW group \in OptionGroups("muse", o, phase, key), NEW t \in Range(group), NEW id
  PROVE  Heard("muse", o, id, t)
  <1> DEFINE values == Said("muse", o, key)
  <1>1. /\ Given(o, key)
        /\ \/ key = "effort" /\ t = Tok("--reasoning-effort", values)
           \/ key = "write" /\ t = Bare("--disable-write")
           \/ key = "shell" /\ t = Bare("--disable-shell")
           \/ key = "maxSteps" /\ t = Tok("--max-model-steps", values)
    BY MuseTold
  <1>2. ASSUME NEW flag, t = Tok(flag, values), flag \in PlainFlagsOf(key),
               key \in {"effort", "maxSteps"}
        PROVE  Heard("muse", o, id, t)
    BY <1>1, <1>2, SaidHeard
  <1>3. ASSUME NEW flag \in Switches, t = Bare(flag)
        PROVE  Heard("muse", o, id, t)
    BY <1>3, SwitchHeard
  <1>4. "--disable-write" \in Switches /\ "--disable-shell" \in Switches
    BY DEF Switches
  <1> HIDE DEF values
  <1> QED BY <1>1, <1>2, <1>3, <1>4 DEF PlainFlagsOf

LEMMA AntigravityHeard ==
  ASSUME NEW o, NEW phase, NEW key, key \notin {"discovery", "access"},
         OptionIssue("antigravity", o, phase, key) = "none",
         NEW group \in OptionGroups("antigravity", o, phase, key), NEW t \in Range(group), NEW id
  PROVE  Heard("antigravity", o, id, t)
  <1> DEFINE values == Said("antigravity", o, key)
  <1>1. /\ Given(o, key)
        /\ \/ key = "agent" /\ t = Tok("--agent", values)
           \/ key = "effort" /\ t = Tok("--effort", values)
           \/ t = Bare("--sandbox")
    BY AntigravityTold
  <1>2. ASSUME NEW flag, t = Tok(flag, values), flag \in PlainFlagsOf(key),
               key \in {"effort", "agent"}
        PROVE  Heard("antigravity", o, id, t)
    BY <1>1, <1>2, SaidHeard
  <1>3. Spelled("antigravity", o, id, "--sandbox", {})
    BY DEF Spelled, SandboxWord
  <1>4. t = Bare("--sandbox") => Heard("antigravity", o, id, t)
    BY <1>3, SpelledHeard DEF Bare
  <1> HIDE DEF values
  <1> QED BY <1>1, <1>2, <1>4 DEF PlainFlagsOf

LEMMA CodexHeard ==
  ASSUME NEW o, Clean("codex", o), NEW phase, NEW key, key \notin {"discovery", "access"},
         OptionIssue("codex", o, phase, key) = "none",
         NEW group \in OptionGroups("codex", o, phase, key), NEW t \in Range(group), NEW id
  PROVE  Heard("codex", o, id, t)
  <1> DEFINE values == Said("codex", o, key)
  <1>1. /\ key # "sandbox" => Given(o, key)
        /\ CodexTells(o, phase, key, t, values)
    BY CodexTold
  <1>2. CASE key = "contextWindow"
    <2>1. t = Tok("-c model_context_window", values)
      BY <1>1, <1>2, Zenon DEF CodexTells
    <2>2. Configured("codex", o, "-c model_context_window", values)
      BY <1>2, Zenon DEF Configured
    <2> QED BY <2>1, <2>2, ConfiguredHeard, Zenon
  <1>3. CASE key = "effort"
    <2>1. t = Tok("-c model_reasoning_effort", values)
      BY <1>1, <1>3, Zenon DEF CodexTells
    <2>2. values = EffortWord("codex", o)
      BY <1>1, <1>3 DEF EffortWord
    <2>3. Configured("codex", o, "-c model_reasoning_effort", values)
      BY <2>2, Zenon DEF Configured
    <2> QED BY <2>1, <2>3, ConfiguredHeard, Zenon
  <1>4. CASE key = "systemPrompt"
    <2>1. t = Tok("-c instructions", values)
      BY <1>1, <1>4, Zenon DEF CodexTells
    <2>2. Configured("codex", o, "-c instructions", values)
      BY <1>4, Zenon DEF Configured
    <2> QED BY <2>1, <2>2, ConfiguredHeard, Zenon
  <1>5. CASE key = "memory"
    <2>1. t = Tok("--disable", {"memories"})
      BY <1>1, <1>5, Zenon DEF CodexTells
    <2>2. t.flag = "--disable"
      BY <2>1, TokFlag
    <2> QED BY <2>2 DEF Heard, Repeatable
  <1>6. CASE key = "sandbox"
    <2> DEFINE word == SandboxWord("codex", o)
    <2>1. \/ /\ Given(o, key)
             /\ t = Tok("--sandbox", values) \/ t = Tok("-c sandbox_mode", values)
          \/ ~Given(o, key) /\ ~Given(o, "access") /\ t = Tok("--sandbox", {"workspace-write"})
      BY <1>1, <1>6, Zenon DEF CodexTells
    <2>2. /\ Given(o, key) => word = values
          /\ ~Given(o, key) /\ ~Given(o, "access") => word = {"workspace-write"}
      BY <1>6 DEF SandboxWord, Clean
    <2> HIDE DEF word, values
    <2>3. t = Tok("--sandbox", word) \/ t = Tok("-c sandbox_mode", word)
      BY <2>1, <2>2, Zenon
    <2>4. Spelled("codex", o, id, "--sandbox", word)
      BY Zenon DEF Spelled, word
    <2>5. Configured("codex", o, "-c sandbox_mode", word)
      BY Zenon DEF Configured, word
    <2>6. Heard("codex", o, id, Tok("--sandbox", word))
      BY <2>4, SpelledHeard
    <2>7. Heard("codex", o, id, Tok("-c sandbox_mode", word))
      BY <2>5, ConfiguredHeard, Zenon
    <2> QED BY <2>3, <2>6, <2>7, Zenon
  <1>7. \/ key = "contextWindow" \/ key = "effort" \/ key = "systemPrompt" \/ key = "memory"
        \/ key = "sandbox"
    BY <1>1, Zenon DEF CodexTells
  <1> QED BY <1>2, <1>3, <1>4, <1>5, <1>6, <1>7

\* Of every option.
LEMMA OptionHeard ==
  ASSUME NEW harness \in HarnessNames, NEW o, Clean(harness, o), NEW phase, NEW key,
         key \notin {"discovery", "access"}, OptionIssue(harness, o, phase, key) = "none",
         NEW group \in OptionGroups(harness, o, phase, key), NEW t \in Range(group), NEW id
  PROVE  Heard(harness, o, id, t)
  <1>1. CASE harness = "claude"
    BY <1>1, ClaudeHeard
  <1>2. CASE harness = "codex"
    BY <1>2, CodexHeard
  <1>3. CASE harness = "pi"
    BY <1>3, PiHeard
  <1>4. CASE harness = "muse"
    BY <1>4, MuseHeard
  <1>5. CASE harness = "cursor"
    BY <1>5, CursorTold
  <1>6. CASE harness = "antigravity"
    BY <1>6, AntigravityHeard
  <1>7. CASE harness = "popeye"
    BY <1>7, PopeyeHeard
  <1> QED BY <1>1, <1>2, <1>3, <1>4, <1>5, <1>6, <1>7 DEF HarnessNames

LEMMA DiscoveryHeard ==
  ASSUME NEW harness, NEW o, Clean(harness, o), NEW phase,
         OptionIssue(harness, o, phase, "discovery") = "none",
         NEW group \in OptionGroups(harness, o, phase, "discovery"), NEW t \in Range(group), NEW id
  PROVE  Heard(harness, o, id, t)
  <1>1. \/ t = Tok("--setting-sources", {"project"}) /\ "extensions" \in OffFacets(o)
        \/ t = Bare("--disable-slash-commands")
        \/ t = Bare("-nt") \/ t = Bare("-nc") \/ t = Bare("-ne") \/ t = Bare("-ns")
    BY DiscoveryTold
  <1>2. ASSUME NEW flag \in Switches, t = Bare(flag)
        PROVE  Heard(harness, o, id, t)
    BY <1>2, SwitchHeard
  <1>3. /\ "--disable-slash-commands" \in Switches /\ "-nt" \in Switches /\ "-nc" \in Switches
        /\ "-ne" \in Switches /\ "-ns" \in Switches
    BY DEF Switches
  <1>4. ASSUME t = Tok("--setting-sources", {"project"}), "extensions" \in OffFacets(o)
        PROVE  Heard(harness, o, id, t)
    <2>1. ScopesWord(o) = {"project"}
      BY <1>4 DEF ScopesWord, Clean
    <2>2. Spelled(harness, o, id, "--setting-sources", {"project"})
      BY <2>1 DEF Spelled
    <2> QED BY <1>4, <2>2, SpelledHeard
  <1> QED BY <1>1, <1>2, <1>3, <1>4

LEMMA AccessHeard ==
  ASSUME NEW harness, NEW o, Clean(harness, o), NEW phase,
         OptionIssue(harness, o, phase, "access") = "none",
         NEW group \in OptionGroups(harness, o, phase, "access"), NEW t \in Range(group), NEW id
  PROVE  Heard(harness, o, id, t)
  <1>1. Given(o, "access") /\ AccessTells(harness, o, phase, t)
    BY AccessTold
  <1>2. ASSUME NEW flag, NEW vals, t = Tok(flag, vals), Spelled(harness, o, id, flag, vals)
        PROVE  Heard(harness, o, id, t)
    BY <1>2, SpelledHeard
  <1>3. ASSUME NEW flag \in Switches, t = Bare(flag)
        PROVE  Heard(harness, o, id, t)
    BY <1>3, SwitchHeard
  <1> DEFINE list == LeftTools(harness, PresetList(harness, o))
             mode == {SandboxMode(o)}
             reads == ReadTools
             flag == SandboxFlag(phase)
             codex == harness = "codex" /\ t = Tok(flag, mode)
  <1>4. \/ /\ harness = "claude" /\ o.access = "read"
           /\ \/ t = Tok("--permission-mode", {"dontAsk"}) \/ t = Tok("--disallowedTools", {"mcp"})
              \/ t = Tok("--tools", reads)
        \/ harness = "claude" /\ o.access = "write" /\ t = Tok("--permission-mode", {"acceptEdits"})
        \/ codex
        \/ harness = "muse" /\ (t = Bare("--disable-write") \/ t = Bare("--disable-shell"))
        \/ harness = "cursor" /\ (t = Tok("--mode", {"ask"}) \/ t = Tok("--sandbox", {"enabled"}))
        \/ harness = "cursor" /\ t = Bare("--force")
        \/ harness \in {"pi", "popeye"} /\ t = Tok("--tools", list)
    BY <1>1 DEF AccessTells
  <1>5. CASE codex
    <2>1. SandboxWord(harness, o) = mode
      BY <1>1, <1>5 DEF SandboxWord
    <2>2. Spelled(harness, o, id, "--sandbox", mode)
      BY <2>1, Zenon DEF Spelled
    <2>3. Configured(harness, o, "-c sandbox_mode", mode)
      BY <2>1, Zenon DEF Configured
    <2>4. flag = "--sandbox" \/ flag = "-c sandbox_mode"
      BY Zenon DEF SandboxFlag
    <2> HIDE DEF flag, mode
    <2>5. Heard(harness, o, id, Tok("--sandbox", mode))
      BY <2>2, SpelledHeard
    <2>6. Heard(harness, o, id, Tok("-c sandbox_mode", mode))
      BY <2>3, ConfiguredHeard, Zenon
    <2> QED BY <1>5, <2>4, <2>5, <2>6, Zenon
  <1>6. CASE harness = "claude"
    <2>1. ~Given(o, "isolation")
      BY <1>1 DEF Clean
    <2>2. ToolsWord(harness, o) = reads /\ DeniedWord(o) = {"mcp"}
      BY <1>1, <1>6, <2>1 DEF ToolsWord, DeniedWord
    <2>3. /\ o.access = "read" => ModeWord(o) = {"dontAsk"}
          /\ o.access = "write" => ModeWord(o) = {"acceptEdits"}
      BY DEF ModeWord
    <2> HIDE DEF reads, codex
    <2>4. /\ o.access = "read" => Spelled(harness, o, id, "--permission-mode", {"dontAsk"})
          /\ o.access = "write" => Spelled(harness, o, id, "--permission-mode", {"acceptEdits"})
          /\ Spelled(harness, o, id, "--disallowedTools", {"mcp"})
          /\ Spelled(harness, o, id, "--tools", reads)
      BY <2>2, <2>3 DEF Spelled
    <2>5. ~codex
      BY <1>6 DEF codex
    <2> QED BY <1>2, <1>4, <1>6, <2>4, <2>5
  <1>7. CASE harness \in {"pi", "popeye"}
    <2>1. ToolsWord(harness, o) = list
      BY <1>1, <1>7 DEF ToolsWord
    <2> HIDE DEF list, codex
    <2>2. Spelled(harness, o, id, "--tools", list)
      BY <2>1 DEF Spelled
    <2>3. ~codex
      BY <1>7 DEF codex
    <2> QED BY <1>2, <1>4, <1>7, <2>2, <2>3
  <1>8. CASE harness = "muse" \/ harness = "cursor"
    <2>1. harness = "cursor" => SandboxWord(harness, o) = {"enabled"}
      BY DEF SandboxWord
    <2>2. /\ harness = "cursor" => Spelled(harness, o, id, "--sandbox", {"enabled"})
          /\ Spelled(harness, o, id, "--mode", {"ask"})
      BY <2>1 DEF Spelled
    <2>3. "--disable-write" \in Switches /\ "--disable-shell" \in Switches /\ "--force" \in Switches
      BY DEF Switches
    <2>4. ~codex
      BY <1>8 DEF codex
    <2> HIDE DEF codex
    <2> QED BY <1>2, <1>3, <1>4, <1>8, <2>2, <2>3, <2>4
  <1>9. codex \/ harness \in {"claude", "pi", "popeye", "muse", "cursor"}
    <2> HIDE DEF codex
    <2> QED BY <1>4
  <1> QED BY <1>5, <1>6, <1>7, <1>8, <1>9

LEMMA MuseCategories == Range(CategoriesOf["muse"]) \subseteq {"write", "shell", "web"}
  BY DEF CategoriesOf, Range

\* A policy gate switches categories off, each by a flag that takes no value.
LEMMA GateSays ==
  ASSUME NEW harness, NEW o, NEW t \in Range(GateTokens(harness, o))
  PROVE  \E cat \in Range(Categories(harness)) : t = Bare(CategorySwitch[cat])
  <1> DEFINE touched == {Categories(harness)[c] : c \in Canonical(
                           IF Given(o, "tools") THEN o.tools ELSE o.excludeTools)
                           \intersect DOMAIN Categories(harness)}
             off == IF Given(o, "tools") THEN Range(Categories(harness)) \ touched ELSE touched
             said == {Bare(CategorySwitch[cat]) : cat \in off}
  <1>1. off \subseteq Range(Categories(harness))
    <2>1. touched \subseteq Range(Categories(harness))
      BY DEF Range
    <2> HIDE DEF touched
    <2> QED BY <2>1
  <1>2. GateTokens(harness, o) = SetToSeq(said)
    BY Zenon DEF GateTokens
  <1>3. IsFiniteSet(Range(Categories(harness)))
    <2>1. CASE harness = "muse"
      <3>1. Categories(harness) = CategoriesOf["muse"]
        BY <2>1 DEF Categories, CategoriesOf
      <3>2. Range(CategoriesOf["muse"]) \subseteq {"write", "shell"} \union {"web"}
        BY MuseCategories
      <3>3. IsFiniteSet({"write", "shell"}) /\ IsFiniteSet({"web"})
        BY PairFinite, FS_Singleton
      <3>4. IsFiniteSet({"write", "shell"} \union {"web"})
        BY <3>3, FS_Union
      <3> QED BY <3>1, <3>2, <3>4, FS_Subset
    <2>2. CASE harness # "muse"
      <3>1. DOMAIN CategoriesOf = {"muse"}
        BY DEF CategoriesOf
      <3>2. Categories(harness) = << >>
        BY <2>2, <3>1 DEF Categories
      <3>3. Range(Categories(harness)) = {}
        BY <3>2, RangeNone
      <3> QED BY <3>3, FS_EmptySet
    <2> QED BY <2>1, <2>2
  <1>4. IsFiniteSet(off)
    <2> HIDE DEF off
    <2> QED BY <1>1, <1>3, FS_Subset
  <1> HIDE DEF off
  <1>5. IsFiniteSet(said)
    <2> DEFINE f == [cat \in off |-> Bare(CategorySwitch[cat])]
    <2>1. f \in Surjection(off, said)
      BY DEF Surjection
    <2> HIDE DEF f, said
    <2> QED BY <1>4, <2>1, FS_Surjection
  <1>6. t \in said
    <2> HIDE DEF said
    <2>1. ToSet(SetToSeq(said)) = said
      BY <1>5, InSomeOrder
    <2> QED BY <1>2, <2>1 DEF ToSet, Range
  <1> QED BY <1>1, <1>6

\* A tool list is heard, however the harness takes it.
LEMMA GateHeard ==
  ASSUME NEW harness \in {"muse", "antigravity"}, NEW o, NEW t \in Range(GateTokens(harness, o)),
         NEW id
  PROVE  Heard(harness, o, id, t)
  <1>1. PICK cat \in Range(Categories(harness)) : t = Bare(CategorySwitch[cat])
    BY GateSays
  <1>2. harness = "muse" /\ cat \in {"write", "shell", "web"}
    <2>1. DOMAIN CategoriesOf = {"muse"}
      BY DEF CategoriesOf
    <2>2. CASE harness = "muse"
      <3>1. Categories(harness) = CategoriesOf["muse"]
        BY <2>1, <2>2 DEF Categories
      <3> QED BY <2>2, <3>1, MuseCategories
    <2>3. CASE harness # "muse"
      <3>1. Categories(harness) = << >>
        BY <2>1, <2>3 DEF Categories
      <3> QED BY <3>1, RangeNone
    <2> QED BY <2>2, <2>3
  <1>3. CategorySwitch[cat] \in Switches
    BY <1>2 DEF CategorySwitch, Switches
  <1> QED BY <1>1, <1>3, SwitchHeard

LEMMA ToolsHeard ==
  ASSUME NEW harness \in HarnessNames, NEW o, Clean(harness, o), ToolIssue(harness, o) = "none",
         NEW t \in Range(ToolTokens(harness, o)), NEW id
  PROVE  Heard(harness, o, id, t)
  <1>1. Given(o, "tools") \/ Given(o, "excludeTools")
    <2>1. ~Given(o, "tools") /\ ~Given(o, "excludeTools") => ToolTokens(harness, o) = << >>
      BY DEF ToolTokens
    <2> QED BY <2>1, RangeNone
  <1>2. ~Given(o, "access") /\ ~Given(o, "isolation")
    BY <1>1 DEF Clean
  <1>3. CASE harness = "claude"
    <2> DEFINE left == LeftTools("claude", o)
               denied == DeniedTools("claude", o)
    <2>1. \/ ToolTokens("claude", o) = << Tok("--allowedTools", left), Tok("--disallowedTools", denied) >>
          \/ ToolTokens("claude", o) = << Tok("--disallowedTools", denied) >>
      BY <1>1, ClaudeTokens
    <2>2. DeniedWord(o) = denied
      BY <1>2 DEF DeniedWord
    <2> HIDE DEF left, denied
    <2>3. t = Tok("--allowedTools", left) \/ t = Tok("--disallowedTools", denied)
      BY <1>3, <2>1, RangeOne, RangeTwo
    <2>4. Spelled(harness, o, id, "--allowedTools", left)
      BY DEF Spelled, left
    <2>5. Spelled(harness, o, id, "--disallowedTools", denied)
      BY <2>2 DEF Spelled
    <2> QED BY <2>3, <2>4, <2>5, SpelledHeard
  <1>4. CASE harness \in {"pi", "popeye"}
    <2> DEFINE left == LeftTools(harness, o)
    <2>1. ToolTokens(harness, o) = << Tok("--tools", left) >>
      BY <1>1, <1>4, StrictTokens
    <2>2. ToolsWord(harness, o) = left
      BY <1>2, <1>4 DEF ToolsWord
    <2> HIDE DEF left
    <2>3. t = Tok("--tools", left)
      BY <2>1, RangeOne
    <2>4. Spelled(harness, o, id, "--tools", left)
      BY <2>2 DEF Spelled
    <2> QED BY <2>3, <2>4, SpelledHeard
  <1>5. CASE harness \in {"muse", "antigravity"}
    <2>1. DenySemantics[harness] = "policy-gate"
      BY <1>5 DEF DenySemantics
    <2>2. ToolTokens(harness, o) = GateTokens(harness, o)
      BY <1>1, <2>1 DEF ToolTokens
    <2> QED BY <1>5, <2>2, GateHeard
  <1>6. harness \notin {"codex", "cursor"}
    <2>1. harness \in {"codex", "cursor"} => DenySemantics[harness] = "no-lists"
      BY DEF DenySemantics
    <2> QED BY <1>1, <2>1 DEF ToolIssue
  <1> QED BY <1>3, <1>4, <1>5, <1>6 DEF HarnessNames

\* Skills are heard: Pi's with discovery off, Codex's in its configuration.
LEMMA SkillsHeard ==
  ASSUME NEW harness, NEW o, NEW less, less.skills = o.skills, harness \in DOMAIN SkillsVia,
         NEW t \in Range(SkillTokens(harness, less)), NEW id
  PROVE  Heard(harness, o, id, t)
  <1> DEFINE picks == o.skills
             loaded == << Bare("-ns"), Tok("--skill", picks) >>
             configured == << Tok("-c skills.config", picks) >>
             group == SkillTokens(harness, less)
  <1>1. group = CASE SkillsVia[harness] = "load"   -> loaded
                  [] SkillsVia[harness] = "config" -> configured
                  [] OTHER                         -> <<>>
    <2>1. less.skills = picks
      OBVIOUS
    <2> QED BY <2>1, Zenon DEF SkillTokens
  <1>2. "-ns" \in Switches
    BY DEF Switches
  <1>3. Spelled(harness, o, id, "--skill", picks)
    BY Zenon DEF Spelled
  <1>4. Configured(harness, o, "-c skills.config", picks)
    BY Zenon DEF Configured
  <1> HIDE DEF picks
  <1>5. ASSUME t \in Range(loaded)
        PROVE  Heard(harness, o, id, t)
    <2>1. t = Bare("-ns") \/ t = Tok("--skill", picks)
      BY <1>5, RangeTwo
    <2> QED BY <1>2, <1>3, <2>1, SwitchHeard, SpelledHeard
  <1>6. ASSUME t \in Range(configured)
        PROVE  Heard(harness, o, id, t)
    <2>1. t = Tok("-c skills.config", picks)
      BY <1>6, RangeOne, Zenon
    <2> QED BY <1>4, <2>1, ConfiguredHeard, Zenon
  <1>7. SkillsVia[harness] \in {"load", "config", "settings"}
    BY DEF SkillsVia
  <1> HIDE DEF loaded, configured
  <1>8. group = loaded \/ group = configured \/ group = << >>
    <2> HIDE DEF group
    <2> QED BY <1>1, <1>7
  <1> QED BY <1>5, <1>6, <1>8, RangeNone DEF group

\* An unattended run is asked for by a switch of its own.
LEMMA AutonomyHeard ==
  ASSUME NEW harness, NEW o, AutonomyIssue(harness, o) = "none", Given(o, "autonomy"), o.autonomy,
         NEW id
  PROVE  Heard(harness, o, id, Bare(AutonomyFlag[harness]))
  <1>1. harness \in DOMAIN AutonomyFlag
    BY DEF AutonomyIssue, IssueIf
  <1>2. AutonomyFlag[harness] \in {"--dangerously-skip-permissions", "--yolo", "--force"}
    BY <1>1 DEF AutonomyFlag
  <1>3. AutonomyFlag[harness] \in Switches
    BY <1>2 DEF Switches
  <1> QED BY <1>3, SwitchHeard

\* What a turn's tail says is heard.
LEMMA TailHeard ==
  ASSUME NEW harness \in HarnessNames, NEW o, Clean(harness, o), ToolIssue(harness, o) = "none",
         AutonomyIssue(harness, o) = "none", SkillsIssue(harness, o) = "none",
         NEW group \in TailGroups(harness, o), NEW t \in Range(group), NEW id
  PROVE  Heard(harness, o, id, t)
  <1> DEFINE keys == SettingsKeys(harness, o)
             words == {o.model}
             scopes == o.settingSources
  <1>1. \/ Given(o, "model") /\ group = << Tok("--model", words) >>
        \/ Given(o, "autonomy") /\ o.autonomy /\ group = << Bare(AutonomyFlag[harness]) >>
        \/ group = ToolTokens(harness, o)
        \/ Given(o, "skills") /\ group = SkillTokens(harness, o)
        \/ Given(o, "settingSources") /\ group = << Tok("--setting-sources", scopes) >>
        \/ group = << Tok("--settings", keys) >>
    BY Zenon DEF TailGroups
  <1>2. Given(o, "model") => Spelled(harness, o, id, "--model", words)
    BY DEF Spelled, ModelWord
  <1>3. Given(o, "settingSources") => Spelled(harness, o, id, "--setting-sources", scopes)
    BY DEF Spelled, ScopesWord
  <1>4. Spelled(harness, o, id, "--settings", keys)
    BY Zenon DEF Spelled
  <1> HIDE DEF keys, words, scopes
  <1>5. ASSUME NEW flag, NEW vals, group = << Tok(flag, vals) >>, Spelled(harness, o, id, flag, vals)
        PROVE  Heard(harness, o, id, t)
    <2>1. t = Tok(flag, vals)
      BY <1>5, RangeOne
    <2> QED BY <1>5, <2>1, SpelledHeard
  <1>6. CASE Given(o, "autonomy") /\ o.autonomy /\ group = << Bare(AutonomyFlag[harness]) >>
    <2>1. t = Bare(AutonomyFlag[harness])
      BY <1>6, RangeOne
    <2> QED BY <1>6, <2>1, AutonomyHeard
  <1>7. CASE group = ToolTokens(harness, o)
    BY <1>7, ToolsHeard
  <1>8. CASE Given(o, "skills") /\ group = SkillTokens(harness, o)
    <2>1. harness \in DOMAIN SkillsVia
      BY <1>8 DEF SkillsIssue, IssueIf
    <2> QED BY <1>8, <2>1, SkillsHeard
  <1> QED BY <1>1, <1>2, <1>3, <1>4, <1>5, <1>6, <1>7, <1>8

\* So is what a session's tail says.
LEMMA SessionTailHeard ==
  ASSUME NEW harness \in HarnessNames, NEW o, Clean(harness, o), SessionIssue(harness, o) = "none",
         NEW group \in SessionTail(harness, o), NEW t \in Range(group), NEW id
  PROVE  Heard(harness, o, id, t)
  <1> DEFINE dropped == {"model", "settingSources"}
             less == Without(o, dropped)
             words == {o.model}
             scopes == ScopesOf(harness, o)
             keys == SettingsKeys(harness, o)
             model == SessionModelFlag(harness)
             armed == SessionApprovals[harness]
  <1>1. DOMAIN less = DOMAIN o \ dropped /\ \A k \in DOMAIN less : less[k] = o[k]
    BY DEF Without
  <1>2. \/ group \in TailGroups(harness, less)
        \/ Given(o, "model") /\ group = << Tok(model, words) >>
        \/ harness \in DOMAIN SettingScopes /\ group = << Tok("--setting-sources", scopes) >>
        \/ Given(o, "nativeApprovals") /\ group = armed
    BY Zenon DEF SessionTail
  <1> HIDE DEF less
  <1>3. /\ Given(less, "tools") <=> Given(o, "tools")
        /\ Given(less, "excludeTools") <=> Given(o, "excludeTools")
        /\ Given(less, "autonomy") <=> Given(o, "autonomy")
        /\ Given(o, "autonomy") => less.autonomy = o.autonomy
        /\ Given(less, "access") <=> Given(o, "access")
        /\ Given(o, "access") => less.access = o.access
        /\ Given(less, "skills") <=> Given(o, "skills")
        /\ Given(o, "skills") => less.skills = o.skills
        /\ ~Given(less, "model") /\ ~Given(less, "settingSources")
    BY <1>1 DEF Given
  <1>4. ASSUME NEW flag, NEW vals, group = << Tok(flag, vals) >>, Spelled(harness, o, id, flag, vals)
        PROVE  Heard(harness, o, id, t)
    <2>1. t = Tok(flag, vals)
      BY <1>4, RangeOne
    <2> QED BY <1>4, <2>1, SpelledHeard
  <1>5. SettingsKeys(harness, less) = keys
    BY <1>3 DEF SettingsKeys
  <1>6. CASE group \in TailGroups(harness, less)
    <2>1. \/ Given(less, "autonomy") /\ less.autonomy /\ group = << Bare(AutonomyFlag[harness]) >>
          \/ group = ToolTokens(harness, less)
          \/ Given(less, "skills") /\ group = SkillTokens(harness, less)
          \/ group = << Tok("--settings", SettingsKeys(harness, less)) >>
      BY <1>3, <1>6, Zenon DEF TailGroups
    <2>2. CASE Given(less, "autonomy") /\ less.autonomy /\ group = << Bare(AutonomyFlag[harness]) >>
      <3>1. Given(o, "autonomy") /\ o.autonomy
        BY <1>3, <2>2
      <3>2. SessionPermissionKeys \intersect DOMAIN o # {}
        BY <3>1 DEF SessionPermissionKeys, Given
      <3>3. AutonomyIssue(harness, o) = "none"
        BY <3>2, SessionPassed, PermissionsPassed
      <3>4. t = Bare(AutonomyFlag[harness])
        BY <2>2, RangeOne
      <3> QED BY <3>1, <3>3, <3>4, AutonomyHeard
    <2>3. CASE group = ToolTokens(harness, less)
      <3>1. Given(less, "tools") \/ Given(less, "excludeTools")
        <4>1. ~Given(less, "tools") /\ ~Given(less, "excludeTools") => group = << >>
          BY <2>3 DEF ToolTokens
        <4> QED BY <4>1, RangeNone
      <3>2. SessionPermissionKeys \intersect DOMAIN o # {}
        BY <1>3, <3>1 DEF SessionPermissionKeys, Given
      <3>3. harness \in Granting /\ ToolIssue(harness, o) = "none"
        BY <3>2, SessionPassed, PermissionsPassed DEF Granting
      <3>4. ToolTokens(harness, less) = ToolTokens(harness, o)
        BY <1>3, <3>1, <3>3, SessionLists DEF less
      <3> QED BY <2>3, <3>3, <3>4, ToolsHeard
    <2>4. CASE Given(less, "skills") /\ group = SkillTokens(harness, less)
      <3>1. SkillsIssue(harness, o) = "none" /\ Given(o, "skills") /\ less.skills = o.skills
        BY <1>3, <2>4, SessionPassed
      <3>2. harness \in DOMAIN SkillsVia
        BY <3>1 DEF SkillsIssue, IssueIf
      <3> QED BY <2>4, <3>1, <3>2, SkillsHeard
    <2>5. CASE group = << Tok("--settings", SettingsKeys(harness, less)) >>
      <3>1. Spelled(harness, o, id, "--settings", keys)
        BY Zenon DEF Spelled
      <3> QED BY <1>4, <1>5, <2>5, <3>1
    <2> QED BY <2>1, <2>2, <2>3, <2>4, <2>5
  <1>7. CASE Given(o, "model") /\ group = << Tok(model, words) >>
    <2>1. ModelWord(o) = words
      BY <1>7 DEF ModelWord
    <2>2. t = Tok(model, words)
      <3> HIDE DEF model, words
      <3> QED BY <1>7, RangeOne
    <2> HIDE DEF words
    <2>3. Spelled(harness, o, id, "--model", words)
      BY <2>1 DEF Spelled
    <2>4. Configured(harness, o, "-c model", words)
      BY <2>1, Zenon DEF Configured
    <2>5. model = "--model" \/ model = "-c model"
      BY Zenon DEF SessionModelFlag
    <2> HIDE DEF model
    <2>6. Heard(harness, o, id, Tok("--model", words))
      BY <2>3, SpelledHeard
    <2>7. Heard(harness, o, id, Tok("-c model", words))
      BY <2>4, ConfiguredHeard, Zenon
    <2> QED BY <2>2, <2>5, <2>6, <2>7, Zenon
  <1>8. CASE harness \in DOMAIN SettingScopes /\ group = << Tok("--setting-sources", scopes) >>
    <2>1. scopes = ScopesWord(o)
      <3>1. harness = "claude"
        BY <1>8 DEF SettingScopes
      <3>2. DefaultScopes["claude"] = {"project"}
        BY DEF DefaultScopes
      <3> QED BY <3>1, <3>2 DEF ScopesOf, ScopesWord
    <2> HIDE DEF scopes
    <2>2. Spelled(harness, o, id, "--setting-sources", scopes)
      BY <2>1 DEF Spelled
    <2> QED BY <1>4, <1>8, <2>2
  <1>9. CASE Given(o, "nativeApprovals") /\ group = armed
    <2>1. harness \in DOMAIN SessionApprovals
      BY <1>9, SessionPassed
    <2>2. armed = << Tok("--permission-prompt-tool", {"stdio"}) >>
      BY <2>1 DEF SessionApprovals
    <2>3. Spelled(harness, o, id, "--permission-prompt-tool", {"stdio"})
      BY DEF Spelled
    <2> QED BY <1>4, <1>9, <2>2, <2>3
  <1> QED BY <1>2, <1>6, <1>7, <1>8, <1>9

\* The session continued is named once, and latest by a switch.
LEMMA ContinueHeard ==
  ASSUME NEW harness \in HarnessNames, NEW o,
         Given(o, "resumeLast") => harness \in DOMAIN ResumeLastFlag,
         NEW t \in Range(ContinueGroup(harness, o))
  PROVE  Heard(harness, o, {o.resume}, t)
  <1> DEFINE id == {o.resume}
             group == ContinueGroup(harness, o)
  <1>1. CASE Given(o, "resume")
    <2>1. group = << Tok(ResumeFlag[harness], id) >>
      BY <1>1 DEF ContinueGroup
    <2>2. ResumeFlag[harness] \in IdFlags
      BY DEF ResumeFlag, HarnessNames, IdFlags
    <2> HIDE DEF id, group
    <2>3. t = Tok(ResumeFlag[harness], id)
      BY <2>1, RangeOne DEF group
    <2>4. Spelled(harness, o, id, ResumeFlag[harness], id)
      BY <2>2, Zenon DEF Spelled
    <2>5. Heard(harness, o, id, t)
      BY <2>3, <2>4, SpelledHeard
    <2> QED BY <2>5 DEF id
  <1>2. CASE ~Given(o, "resume") /\ Given(o, "resumeLast")
    <2> DEFINE fork == Bare("--fork-session")
               last == Bare(ResumeLastFlag[harness])
    <2>1. group = Append(IF harness = "claude" THEN << fork >> ELSE <<>>, last)
      BY <1>2, Zenon DEF ContinueGroup
    <2>2. ResumeLastFlag[harness] \in {"--continue", "--last"}
      BY <1>2 DEF ResumeLastFlag
    <2>3. "--fork-session" \in Switches /\ ResumeLastFlag[harness] \in Switches
      BY <2>2 DEF Switches
    <2>4. Heard(harness, o, id, fork) /\ Heard(harness, o, id, last)
      BY <2>3, SwitchHeard
    <2> HIDE DEF fork, last, group, id
    <2>5. group = << fork, last >> \/ group = << last >>
      <3>1. Append(<< fork >>, last) = << fork, last >>
        BY FewTokens
      <3>2. Append(<<>>, last) = << last >>
        BY FewTokens
      <3>3. CASE harness = "claude"
        <4>1. group = Append(<< fork >>, last)
          BY <2>1, <3>3
        <4> QED BY <3>1, <4>1
      <3>4. CASE harness # "claude"
        <4>1. group = Append(<<>>, last)
          BY <2>1, <3>4
        <4> QED BY <3>2, <4>1
      <3> QED BY <3>3, <3>4
    <2>6. t = fork \/ t = last
      BY <2>5, RangeOne, RangeTwo DEF group
    <2>7. Heard(harness, o, id, t)
      BY <2>4, <2>6
    <2> QED BY <2>7 DEF id
  <1>3. CASE ~Given(o, "resume") /\ ~Given(o, "resumeLast")
    <2>1. ContinueGroup(harness, o) = << >>
      BY <1>3 DEF ContinueGroup
    <2> QED BY <2>1, RangeNone
  <1> QED BY <1>1, <1>2, <1>3

LEMMA SessionIdHeard ==
  ASSUME NEW harness, NEW o, NEW t \in Range(SessionIdGroup(harness, o))
  PROVE  Heard(harness, o, {o.sessionId}, t)
  <1> DEFINE flag == IF o.isResume THEN SessionResumeFlag ELSE SessionIdFlag
             id == {o.sessionId}
             group == SessionIdGroup(harness, o)
  <1>1. group = IF harness \in DOMAIN flag THEN << Tok(flag[harness], id) >> ELSE <<>>
    BY Zenon DEF SessionIdGroup
  <1>2. flag = SessionResumeFlag \/ flag = SessionIdFlag
    OBVIOUS
  <1> HIDE DEF flag, id
  <1>3. harness \in DOMAIN flag /\ group = << Tok(flag[harness], id) >>
    <2>1. harness \notin DOMAIN flag => group = << >>
      BY <1>1
    <2>2. group # << >>
      BY RangeNone
    <2> HIDE DEF group
    <2> QED BY <1>1, <2>1, <2>2
  <1>4. t = Tok(flag[harness], id)
    BY <1>3, RangeOne
  <1>5. flag[harness] \in IdFlags
    BY <1>2, <1>3 DEF SessionResumeFlag, SessionIdFlag, IdFlags
  <1>6. Spelled(harness, o, id, flag[harness], id)
    BY <1>5, Zenon DEF Spelled
  <1>7. Heard(harness, o, id, t)
    BY <1>4, <1>6, SpelledHeard
  <1> QED BY <1>7 DEF id

\* What is restated of a saved session is what the options leave unsaid.
LEMMA SavedHeard ==
  ASSUME NEW harness, NEW o, NEW saved, saved => Unstated(o),
         NEW group \in VerifiedGroups(harness, saved), NEW t \in Range(group), NEW id
  PROVE  Heard(harness, o, id, t)
  <1> DEFINE word == {"saved"}
             model == Tok("--model", word)
             depth == Tok("-c model_reasoning_effort", word)
             maker == Tok("-c model_provider", word)
  <1>1. VerifiedGroups(harness, saved) =
          IF saved /\ harness = "codex" THEN {<< model >>, << depth >>, << maker >>} ELSE {}
    BY Zenon DEF VerifiedGroups
  <1>2. saved
    <2> HIDE DEF model, depth, maker
    <2> QED BY <1>1
  <1>3. ModelWord(o) = word /\ EffortWord(harness, o) = word /\ ProviderWord(harness, o) = word
    BY <1>2 DEF Unstated, Given, ModelWord, EffortWord, ProviderWord
  <1> HIDE DEF word
  <1>4. Spelled(harness, o, id, "--model", word)
    BY <1>3 DEF Spelled
  <1>5. Heard(harness, o, id, model)
    BY <1>4, SpelledHeard
  <1>6. Configured(harness, o, "-c model_reasoning_effort", word)
    BY <1>3, Zenon DEF Configured
  <1>7. Heard(harness, o, id, depth)
    BY <1>6, ConfiguredHeard, Zenon
  <1>8. Configured(harness, o, "-c model_provider", word)
    BY <1>3, Zenon DEF Configured
  <1>9. Heard(harness, o, id, maker)
    BY <1>8, ConfiguredHeard, Zenon
  <1> HIDE DEF model, depth, maker
  <1>10. t = model \/ t = depth \/ t = maker
    <2>1. group = << model >> \/ group = << depth >> \/ group = << maker >>
      BY <1>1
    <2> QED BY <2>1, RangeOne
  <1> QED BY <1>5, <1>7, <1>9, <1>10

\* Everything on a turn's command line is heard ...
LEMMA SpawnHeard ==
  ASSUME NEW harness \in HarnessNames, NEW o, NEW saved, saved => Unstated(o),
         SpawnIssue(harness, o) = "none", Clean(harness, o),
         NEW t \in Tokens(SpawnArgv(harness, o, saved))
  PROVE  Heard(harness, o, {o.resume}, t)
  <1> DEFINE argv == SpawnArgv(harness, o, saved)
             phase == PhaseOf(o)
             id == {o.resume}
  <1>1. PICK group \in Groups(argv) : t \in Range(group)
    BY DEF Tokens
  <1>2. /\ argv.continue = ContinueGroup(harness, o)
        /\ argv.before = PlacedGroups(harness, o, phase, FALSE)
        /\ argv.after = PlacedGroups(harness, o, phase, TRUE)
        /\ argv.tail = TailGroups(harness, o) \ {<<>>}
        /\ argv.verified = VerifiedGroups(harness, saved)
    BY DEF SpawnArgv
  <1> HIDE DEF argv, id
  <1>3. \/ group = ContinueGroup(harness, o)
        \/ \E after \in BOOLEAN : group \in PlacedGroups(harness, o, phase, after)
        \/ group \in TailGroups(harness, o)
        \/ group \in VerifiedGroups(harness, saved)
    BY <1>1, <1>2 DEF Groups
  <1>4. group = ContinueGroup(harness, o) => Heard(harness, o, {o.resume}, t)
    BY <1>1, SpawnPassed, ContinueHeard
  <1>5. ASSUME NEW after \in BOOLEAN, group \in PlacedGroups(harness, o, phase, after)
        PROVE  Heard(harness, o, id, t)
    <2>1. PICK key \in PlacedKeys(harness, o, after) : group \in OptionGroups(harness, o, phase, key)
      BY <1>5 DEF PlacedGroups
    <2>2. OptionIssue(harness, o, phase, key) = "none"
      BY SpawnPassed
    <2>3. CASE key = "discovery"
      BY <1>1, <2>1, <2>2, <2>3, DiscoveryHeard
    <2>4. CASE key = "access"
      BY <1>1, <2>1, <2>2, <2>4, AccessHeard
    <2>5. CASE key \notin {"discovery", "access"}
      BY <1>1, <2>1, <2>2, <2>5, OptionHeard
    <2> QED BY <2>3, <2>4, <2>5
  <1>6. group \in TailGroups(harness, o) => Heard(harness, o, id, t)
    BY <1>1, SpawnPassed, TailHeard
  <1>7. group \in VerifiedGroups(harness, saved) => Heard(harness, o, id, t)
    BY <1>1, SavedHeard
  <1> QED BY <1>3, <1>4, <1>5, <1>6, <1>7 DEF id

\* ... and on a session's.
LEMMA SessionHeard ==
  ASSUME NEW harness \in HarnessNames, NEW o, SessionIssue(harness, o) = "none", Clean(harness, o),
         NEW t \in Tokens(SessionArgv(harness, o))
  PROVE  Heard(harness, o, {o.sessionId}, t)
  <1> DEFINE id == {o.sessionId}
  <1>1. CASE t \in Range(SessionIdGroup(harness, o))
    BY <1>1, SessionIdHeard
  <1> HIDE DEF id
  <1>2. ASSUME NEW key \in SessionOptionKeys \union {"access", "discovery"},
               NEW group \in OptionGroups(harness, o, "resume", key), t \in Range(group)
        PROVE  Heard(harness, o, id, t)
    <2>1. OptionIssue(harness, o, "resume", key) = "none"
      BY SessionKeysPass
    <2>2. CASE key = "discovery"
      BY <1>2, <2>1, <2>2, DiscoveryHeard
    <2>3. CASE key = "access"
      BY <1>2, <2>1, <2>3, AccessHeard
    <2>4. CASE key \notin {"discovery", "access"}
      BY <1>2, <2>1, <2>4, OptionHeard
    <2> QED BY <2>2, <2>3, <2>4
  <1>3. ASSUME NEW group \in SessionTail(harness, o), t \in Range(group)
        PROVE  Heard(harness, o, id, t)
    BY <1>3, SessionTailHeard
  <1> QED BY <1>1, <1>2, <1>3, SessionTokens DEF id

\* In a planned turn no choice competes with a preset the caller named ...
LEMMA TurnIsClean ==
  ASSUME PlannedInv, IsPlanned, ~IsSession, ~AccessFromFile,
         SpawnIssue(call.h, plan.options) = "none"
  PROVE  Clean(call.h, plan.options)
  <1> DEFINE o == plan.options
             full == Continuing(Slugged(Tiered))
  <1>1. o = full /\ TiersPassed
    BY DEF PlannedInv, IsPlanned, TurnPlan
  <1>2. ASSUME NEW k \in {"tools", "excludeTools", "sandbox", "access", "isolation"}
        PROVE  k \in DOMAIN o <=> k \in DOMAIN Tiered
    <2>1. k \in DOMAIN full <=> k \in DOMAIN Tiered
      BY ComposedHas
    <2> HIDE DEF full
    <2> QED BY <1>1, <2>1
  <1>3. Resuming => PhaseOf(o) = "resume"
    <2>1. call.resume # "" => "resume" \in DOMAIN full
      BY ContinuingHas
    <2>2. call.last => "resumeLast" \in DOMAIN full
      BY ContinuingHas
    <2> HIDE DEF full
    <2> QED BY <1>1, <2>1, <2>2 DEF Resuming, PhaseOf, Given
  <1> HIDE DEF full
  <1>4. ASSUME Given(o, "access"), NEW k,
               k = "tools" \/ k = "excludeTools" \/ (k = "sandbox" /\ call.h = "codex")
        PROVE  ~Given(o, k)
    <2>1. CASE Resuming
      <3>1. AccessAloneIssue(call.h, o, DOMAIN o) = "none"
        BY <1>3, <2>1, SpawnPassed
      <3>2. Claimed("codex") = "sandbox"
        BY DEF Claimed, AccessOf, AccessSpec
      <3>3. {"tools", "excludeTools", Claimed(call.h)} \intersect DOMAIN o = {}
        BY <1>4, <3>1 DEF AccessAloneIssue, IssueIf
      <3> QED BY <1>4, <3>2, <3>3 DEF Given
    <2>2. CASE ~Resuming
      <3>1. "access" \in DOMAIN call.args
        BY <1>4 DEF AccessFromFile, Given
      <3>2. "access" \in DOMAIN Own
        BY <3>1, OwnHas DEF Beside
      <3>3. k \notin DOMAIN Tiered
        BY <1>1, <1>4, <2>2, <3>2, LaunchAlone DEF TiersPassed
      <3> QED BY <1>2, <1>4, <3>3 DEF Given
    <2> QED BY <2>1, <2>2
  <1>5. Given(o, "isolation") => ~Given(o, "access") /\ ~Given(o, "tools") /\ ~Given(o, "excludeTools")
    <2>1. IsolationIssue(o) = "none"
      BY SpawnPassed
    <2> QED BY <2>1 DEF IsolationIssue, IssueIf, IsolationOverrides
  <1>6. Given(o, "settingSources") => "extensions" \notin OffFacets(o)
    <2> DEFINE early == ScopesIssue(call.h, o)
               met == Given(o, "settingSources") /\ "extensions" \in OffFacets(o)
    <2>1. SettingSourcesIssue(call.h, o) = "none"
      BY SpawnPassed
    <2>2. FirstIssue(<< early, IssueIf(met, "mutually-exclusive-options") >>) = "none"
      BY <2>1, Zenon DEF SettingSourcesIssue
    <2>3. ~met
      <3> HIDE DEF early, met
      <3> QED BY <2>2, NoneOfTwo DEF IssueIf
    <2> QED BY <2>3
  <1> QED BY <1>4, <1>5, <1>6 DEF Clean

\* ... and in a planned session none with any.
LEMMA SessionIsClean ==
  ASSUME PlannedInv, IsPlanned, IsSession
  PROVE  Clean(call.h, plan.options)
  <1> DEFINE o == plan.options
             full == SessionFull(plan.store)
             args == Narrowed(SessionArgs)
  <1>1. o = full /\ SessionIssue(call.h, o) = "none"
    BY DEF PlannedInv, IsPlanned, SessionPlanned
  <1>2. \A k \in DOMAIN full :
          \/ k \in {"skills", "toolMap", "memory", "nativeApprovals", "isResume", "sessionId"}
          \/ k \in DOMAIN args /\ full[k] = args[k]
    BY SessionFullHas
  <1>3. \A k \in DOMAIN args :
          /\ k # "isolation"
          /\ k = "discovery" => args[k] = {"tools"}
    BY SessionArgsHave DEF SessionOptionKeys, SessionPermissionKeys
  <1> HIDE DEF full, args
  <1>4. Given(o, "access") => ~Given(o, "tools") /\ ~Given(o, "excludeTools") /\ call.h # "codex"
    <2> SUFFICES ASSUME Given(o, "access")
                 PROVE  ~Given(o, "tools") /\ ~Given(o, "excludeTools") /\ call.h # "codex"
      OBVIOUS
    <2>1. SessionPermissionKeys \intersect DOMAIN o # {}
      BY DEF SessionPermissionKeys, Given
    <2>2. AccessAloneIssue(call.h, o, DOMAIN o) = "none" /\ call.h \in {"claude", "pi"}
      BY <1>1, <2>1, SessionPassed, PermissionsPassed
    <2> QED BY <2>2 DEF AccessAloneIssue, IssueIf, Given
  <1>5. ~Given(o, "isolation")
    BY <1>1, <1>2, <1>3 DEF Given
  <1>6. "extensions" \notin OffFacets(o)
    <2>1. Given(o, "discovery") => o["discovery"] = {"tools"}
      BY <1>1, <1>2, <1>3 DEF Given
    <2> QED BY <2>1 DEF OffFacets
  <1> QED BY <1>4, <1>5, <1>6 DEF Clean

\* What a planned call tells a harness by one flag, it tells once.
LEMMA FlagsHeard == PlannedInv => FlagOnce
  <1> SUFFICES ASSUME PlannedInv, IsPlanned, ~AccessFromFile,
                      NEW s \in Tokens(plan.argv), NEW t \in Tokens(plan.argv),
                      s.flag = t.flag, s.flag \notin Repeatable
               PROVE  s = t
    BY DEF FlagOnce
  <1> DEFINE o == plan.options
             harness == call.h
  <1>1. harness \in HarnessNames
    BY DEF PlannedInv, IsPlanned
  <1>2. CASE IsSession
    <2>1. plan.argv = SessionArgv(harness, o) /\ SessionIssue(harness, o) = "none"
      BY <1>2 DEF PlannedInv, IsPlanned, SessionPlanned
    <2>2. Clean(harness, o)
      BY <1>2, SessionIsClean
    <2>3. ASSUME NEW u \in Tokens(plan.argv)
          PROVE  Heard(harness, o, {o.sessionId}, u)
      BY <1>1, <2>1, <2>2, SessionHeard
    <2> QED BY <2>3, HeardOnce
  <1>3. CASE ~IsSession
    <2>1. TurnMade(o)
      BY <1>3 DEF PlannedInv, IsPlanned, TurnPlan
    <2>2. plan.argv # NoArgv
      <3>1. Tokens(NoArgv) = {}
        BY DEF Tokens, Groups, NoArgv
      <3> QED BY <3>1
    <2>3. /\ SpawnIssue(harness, o) = "none"
          /\ \E saved \in BOOLEAN : plan.argv = SpawnArgv(harness, o, saved) /\ (saved => Unstated(o))
      BY <2>1, <2>2 DEF TurnMade
    <2>4. PICK saved \in BOOLEAN : plan.argv = SpawnArgv(harness, o, saved) /\ (saved => Unstated(o))
      BY <2>3
    <2>5. Clean(harness, o)
      BY <1>3, <2>3, TurnIsClean
    <2>6. ASSUME NEW u \in Tokens(plan.argv)
          PROVE  Heard(harness, o, {o.resume}, u)
      BY <1>1, <2>3, <2>4, <2>5, SpawnHeard
    <2> QED BY <2>6, HeardOnce
  <1> QED BY <1>2, <1>3

\* Whatever the calls are, and whichever tiers the options came from, no
\* harness is told two different things by one flag, save where a config file
\* chose the access preset.
THEOREM FlagsAreHeard == Spec => []FlagOnce
  <1>1. Init => PlannedInv
    BY PlanStarts
  <1>2. PlannedInv /\ [Next]_vars => PlannedInv'
    BY PlanKept
  <1> QED BY <1>1, <1>2, FlagsHeard, PTL DEF Spec

=============================================================================
