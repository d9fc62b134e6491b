------------------------ MODULE AdaptiveHoldout_proofs ------------------------
(***************************************************************************)
(* The journal of an adaptive trajectory keeps the promise of EventOrder,  *)
(* and effects follow its records, for any number of requests and tools.   *)
(***************************************************************************)
EXTENDS AdaptiveHoldout, SequenceTheorems, FiniteSetTheorems, TLAPS

EventTypes == {"event_prediction", "event_label"}
Records ==
    [type : EventTypes, event : Events, boot : 1 .. 2]
    \cup [type : {"trajectory_label"}, event : {NoEvent}, boot : 1 .. 2]

OfEvents(j) == {i \in DOMAIN j : j[i].type # "trajectory_label"}

(* The last record of an event, where there is one.                        *)
IsLast(j, m) == m \in OfEvents(j) /\ \A i \in OfEvents(j) : i <= m
HasLast(j) == OfEvents(j) = {} \/ \E m \in OfEvents(j) : IsLast(j, m)

-----------------------------------------------------------------------------
(* What an append does to the readings of a journal.                       *)

LEMMA RecordFacts ==
    /\ NoEvent \notin Events
    /\ \A r \in Records :
          /\ r.type \in EventTypes \cup {"trajectory_label"} /\ r.boot \in 1 .. 2
          /\ r.type # "trajectory_label" => r.event \in Events
    /\ \A e \in Events, b \in 1 .. 2, t \in EventTypes :
          [type |-> t, event |-> e, boot |-> b] \in Records
    /\ \A b \in 1 .. 2 : [type |-> "trajectory_label", event |-> NoEvent, boot |-> b] \in Records
BY JournalAssumption DEF Records, EventTypes

LEMMA Appended ==
    ASSUME NEW j \in Seq(Records), NEW r \in Records
    PROVE  /\ Append(j, r) \in Seq(Records)
           /\ DOMAIN j = 1 .. Len(j) /\ Len(j) \in Nat
           /\ DOMAIN Append(j, r) = 1 .. Len(j) + 1
           /\ \A i \in 1 .. Len(j) : Append(j, r)[i] = j[i]
           /\ Append(j, r)[Len(j) + 1] = r
<1>1. Append(j, r) \in Seq(Records) /\ Len(Append(j, r)) = Len(j) + 1
  BY AppendProperties
<1>2. DOMAIN j = 1 .. Len(j) /\ Len(j) \in Nat
  BY LenProperties
<1>3. DOMAIN Append(j, r) = 1 .. Len(j) + 1
  BY <1>1, LenProperties
<1>. QED  BY <1>1, <1>2, <1>3, AppendProperties

LEMMA AppendEvents ==
    ASSUME NEW j \in Seq(Records), NEW r \in Records, NEW type
    PROVE  EventsOf(Append(j, r), type)
               = EventsOf(j, type) \cup (IF r.type = type THEN {r.event} ELSE {})
<1>1. ToSet(Append(j, r)) = ToSet(j) \cup {r}
  BY Appended DEF ToSet
<1>. QED  BY <1>1 DEF EventsOf

LEMMA EventsAreEvents ==
    ASSUME NEW j \in Seq(Records), NEW type \in EventTypes
    PROVE  EventsOf(j, type) \subseteq Events
<1>1. \A i \in DOMAIN j : j[i] \in Records
  BY ElementOfSeq, LenProperties
<1>. QED  BY <1>1, RecordFacts DEF EventsOf, ToSet, EventTypes

LEMMA PendingAt ==
    ASSUME NEW j \in Seq(Records), NEW m, IsLast(j, m)
    PROVE  PendingOf(j) = IF j[m].type = "event_label" THEN NoEvent ELSE j[m].event
<1>1. OfEvents(j) \subseteq Int
  BY LenProperties DEF OfEvents
<1>2. Max(OfEvents(j)) = m
  BY <1>1 DEF Max, IsLast
<1>. QED  BY <1>2 DEF PendingOf, OfEvents, IsLast

LEMMA PendingNone ==
    ASSUME NEW j \in Seq(Records), OfEvents(j) = {}
    PROVE  PendingOf(j) = NoEvent
BY DEF PendingOf, OfEvents

LEMMA AppendPending ==
    ASSUME NEW j \in Seq(Records), NEW r \in Records, HasLast(j)
    PROVE  /\ HasLast(Append(j, r))
           /\ r.type = "event_prediction" => PendingOf(Append(j, r)) = r.event
           /\ r.type = "event_label" => PendingOf(Append(j, r)) = NoEvent
           /\ r.type = "trajectory_label" => PendingOf(Append(j, r)) = PendingOf(j)
<1>. DEFINE k == Append(j, r)
<1>1. /\ k \in Seq(Records) /\ DOMAIN j = 1 .. Len(j) /\ Len(j) \in Nat
      /\ DOMAIN k = 1 .. Len(j) + 1
      /\ \A i \in 1 .. Len(j) : k[i] = j[i]
      /\ k[Len(j) + 1] = r
  BY Appended
<1>. HIDE DEF k
<1>2. CASE r.type # "trajectory_label"
  <2>1. IsLast(k, Len(j) + 1)
    BY <1>1, <1>2 DEF IsLast, OfEvents
  <2>2. PendingOf(k) = IF r.type = "event_label" THEN NoEvent ELSE r.event
    BY <1>1, <2>1, PendingAt
  <2>. QED  BY <1>2, <2>1, <2>2 DEF HasLast, IsLast, k
<1>3. CASE r.type = "trajectory_label"
  <2>1. OfEvents(k) = OfEvents(j)
    BY <1>1, <1>3 DEF OfEvents
  <2>2. CASE OfEvents(j) = {}
    BY <1>1, <1>3, <2>1, <2>2, PendingNone DEF HasLast, k
  <2>3. CASE OfEvents(j) # {}
    <3>1. PICK m \in OfEvents(j) : IsLast(j, m)
      BY <2>3 DEF HasLast
    <3>2. IsLast(k, m) /\ k[m] = j[m]
      BY <1>1, <2>1, <3>1 DEF IsLast, OfEvents
    <3>3. PendingOf(k) = PendingOf(j)
      BY <1>1, <3>1, <3>2, PendingAt
    <3>. QED  BY <1>3, <3>2, <3>3 DEF HasLast, IsLast, k
  <2>. QED  BY <2>2, <2>3
<1>. QED  BY <1>2, <1>3

(* The order of records is judged record by record.                        *)
LEMMA AppendInOrder ==
    ASSUME NEW j \in Seq(Records), NEW r \in Records, InOrder(j),
           EventsOf(j, "trajectory_label") = {},
           CASE r.type = "event_prediction" ->
                  PendingOf(j) = NoEvent /\ r.event \notin EventsOf(j, "event_prediction")
             [] r.type = "event_label" -> PendingOf(j) = r.event
             [] OTHER -> PendingOf(j) = NoEvent
    PROVE  InOrder(Append(j, r))
<1>. DEFINE k == Append(j, r)
<1>1. /\ k \in Seq(Records) /\ DOMAIN j = 1 .. Len(j) /\ Len(j) \in Nat
      /\ DOMAIN k = 1 .. Len(j) + 1
      /\ \A i \in 1 .. Len(j) : k[i] = j[i]
      /\ k[Len(j) + 1] = r
  BY Appended
<1>. HIDE DEF k
<1>2. \A i \in 1 .. Len(j) + 1 : SubSeq(k, 1, i - 1) = SubSeq(j, 1, i - 1)
  BY <1>1
<1>3. SubSeq(j, 1, Len(j)) = j
  BY SubSeqFull
<1>4. InOrder(k)
  <2>1. ASSUME NEW i \in 1 .. Len(j) + 1, i # Len(j) + 1
        PROVE  k[i] = j[i] /\ SubSeq(k, 1, i - 1) = SubSeq(j, 1, i - 1) /\ i \in DOMAIN j
    BY <1>1, <1>2, <2>1
  <2>2. SubSeq(k, 1, (Len(j) + 1) - 1) = j /\ k[Len(j) + 1] = r
    BY <1>1, <1>2, <1>3
  <2>. QED  BY <1>1, <2>1, <2>2 DEF InOrder
<1>. QED  BY <1>4 DEF k

-----------------------------------------------------------------------------
(* What any step of the two processes does to the journal: one record, for *)
(* which the operation's checks have passed, whole or spoilt.              *)

Clean == Faults \cap {"disk", "power"} = {}

JournalStep ==
    /\ \/ UNCHANGED journal
       \/ \E e \in Events : CanPredict(e) /\ journal' = Append(journal, Prediction(e))
       \/ \E e \in Events : CanReveal(e) /\ journal' = Append(journal, EventLabel(e))
       \/ CanRevealTrajectory /\ journal' = Append(journal, TrajectoryLabel)
    /\ boot' = boot \/ (boot = 1 /\ boot' = 2)
    /\ UNCHANGED manifest \/ (Predicted # {} /\ UNCHANGED journal)
    /\ Clean => UNCHANGED boot /\ (tail = "whole" => tail' = "whole")
    /\ ~Loadable => UNCHANGED << journal, tail >>
    /\ arm = "frozen" => arm' = "frozen"

LEMMA ToolIsTool ==
    ASSUME ordinal \in Nat, ordinal < Len(ToolOrder)
    PROVE  Tool \in Tools
<1>1. ToolOrder \in Seq(Tools) /\ Len(ToolOrder) \in Nat
  BY HoldoutAssumption, LenProperties
<1>2. ordinal + 1 \in 1 .. Len(ToolOrder)
  BY <1>1
<1>. QED  BY <1>1, <1>2, ElementOfSeq DEF Tool

LEMMA AppendRecordStep ==
    ASSUME NEW record, AppendRecord(record)
    PROVE  /\ journal' = Append(journal, record) /\ UNCHANGED << arm, manifest, boot >>
           /\ tail = "whole" => tail' = "whole"
BY DEF AppendRecord

LEMMA SpoiltStep ==
    ASSUME NEW record, SpoiltBy(record)
    PROVE  journal' \in {journal, Append(journal, record)} /\ UNCHANGED << arm, manifest >>
BY DEF SpoiltBy

LEMMA OnlyLoadable ==
    /\ \A e : CanPredict(e) \/ CanReveal(e) => Loadable
    /\ CanRevealTrajectory \/ CanFreeze => Loadable
BY DEF CanPredict, CanReveal, CanRevealTrajectory, CanFreeze, Open

(* What the proofs need of the types of the agent.                         *)
Places ==
    /\ handler \in [Requests -> HandlerStates]
    /\ ordinal \in Nat
    /\ agent \in {"acting", "acted"} => ordinal < Len(ToolOrder)

LEMMA HandlerJournal ==
    ASSUME NEW r \in Requests, HandlerNext(r) \/ HandlerDiskError(r)
    PROVE  JournalStep
<1>. r \in Events
  BY DEF Events
<1>1. CASE HandlerNext(r) /\ UNCHANGED journalVars
  BY <1>1 DEF JournalStep, journalVars
<1>2. CASE HandlerPredicts(r) /\ ~UNCHANGED journalVars
  BY <1>2, AppendRecordStep, OnlyLoadable DEF HandlerPredicts, JournalStep
<1>3. CASE HandlerReveals(r) /\ ~UNCHANGED journalVars
  BY <1>3, AppendRecordStep, OnlyLoadable DEF HandlerReveals, JournalStep
<1>4. CASE HandlerDiskError(r)
  BY <1>4, SpoiltStep, OnlyLoadable DEF HandlerDiskError, DiskMayFail, Clean, JournalStep
<1>. QED  BY <1>1, <1>2, <1>3, <1>4 DEF HandlerNext, HandlerReadFails, HandlerDispatches,
          HandlerIsAnswered, HandlerResponds

LEMMA AgentJournal ==
    ASSUME Places, AgentNext \/ AgentDiskError
    PROVE  JournalStep
<1>. USE DEF Events
<1>1. CASE AgentNext /\ UNCHANGED journalVars
  BY <1>1 DEF JournalStep, journalVars
<1>2. CASE ToolStarts /\ ~UNCHANGED journalVars
  BY <1>2, ToolIsTool, AppendRecordStep, OnlyLoadable DEF ToolStarts, Places, JournalStep
<1>3. CASE ToolReveals /\ ~UNCHANGED journalVars
  BY <1>3, ToolIsTool, AppendRecordStep, OnlyLoadable DEF ToolReveals, Places, JournalStep
<1>4. CASE RunFreezes /\ ~UNCHANGED journalVars
  BY <1>4 DEF RunFreezes, FreezeManifest, CanFreeze, JournalStep
<1>5. CASE RunRevealsTrajectory /\ ~UNCHANGED journalVars
  BY <1>5, AppendRecordStep, OnlyLoadable DEF RunRevealsTrajectory, JournalStep
<1>6. CASE AgentDiskError
  BY <1>6, ToolIsTool, SpoiltStep, OnlyLoadable
     DEF AgentDiskError, DiskMayFail, Clean, Places, JournalStep
<1>. QED  BY <1>1, <1>2, <1>3, <1>4, <1>5, <1>6 DEF AgentNext, AgentAsks, AgentReceives,
          AgentRetries, ToolExecutes, AgentEnds, RunScores

LEMMA PowerLossJournal ==
    ASSUME Places, PowerLoss
    PROVE  JournalStep
<1>1. boot = 1 /\ boot' = 2 /\ ~Clean
  BY DEF PowerLoss, Clean
<1>2. CASE UNCHANGED << journal, tail, arm, manifest >>
  BY <1>1, <1>2 DEF JournalStep
<1>3. CASE \E record \in InProgress : SpoiltBy(record)
  <2>1. PICK record \in InProgress : SpoiltBy(record)
    BY <1>3
  <2>2. journal' \in {journal, Append(journal, record)} /\ UNCHANGED << arm, manifest >>
    BY <2>1, SpoiltStep
  <2>3. \/ \E e \in Events : CanPredict(e) /\ record = Prediction(e)
        \/ \E e \in Events : CanReveal(e) /\ record = EventLabel(e)
        \/ CanRevealTrajectory /\ record = TrajectoryLabel
    BY DEF InProgress, Events
  <2>. QED  BY <1>1, <2>2, <2>3, OnlyLoadable DEF JournalStep
<1>. QED  BY <1>2, <1>3 DEF PowerLoss

LEMMA NextJournal ==
    ASSUME Places, [Next]_holdoutVars
    PROVE  JournalStep
<1>1. CASE UNCHANGED journalVars
  BY <1>1 DEF journalVars, JournalStep
<1>2. CASE ProxyStarts \/ AgentStarts
  BY <1>2 DEF ProxyStarts, AgentStarts, ArmTrajectory, JournalStep
<1>3. CASE AgentKilled \/ StartKilled
  BY <1>3 DEF AgentKilled, StartKilled, ManifestTorn, CanFreeze, ArmTorn, JournalStep, journalVars
<1>4. CASE UNCHANGED holdoutVars \/ ProxyStops \/ ProxyExits \/ ProxyKilled
  BY <1>1, <1>4 DEF holdoutVars, ProxyStops, ProxyExits, ProxyKilled
<1>. QED  BY <1>2, <1>3, <1>4, HandlerJournal, AgentJournal, PowerLossJournal DEF Next

-----------------------------------------------------------------------------
(* The journal's invariant: what a reader demands of it, and that the      *)
(* events predicted and not labelled are the pending one.                  *)

JournalInv ==
    /\ journal \in Seq(Records) /\ boot \in 1 .. 2
    /\ HasLast(journal)
    /\ InOrder(journal)
    /\ boot = 1 => \A i \in DOMAIN journal : journal[i].boot = 1
    /\ Labelled \subseteq Predicted
    /\ Predicted \ Labelled = {Pending} \ {NoEvent}
    /\ manifest.state = "frozen" => Predicted # {}
    /\ Clean => tail = "whole" /\ boot = 1

LEMMA InitJournal == Init => JournalInv
<1>. SUFFICES ASSUME Init PROVE JournalInv
  OBVIOUS
<1>1. /\ journal = << >> /\ tail = "whole" /\ manifest.state = "absent" /\ boot = 1
  BY DEF Init, JournalInit
<1>2. journal \in Seq(Records) /\ DOMAIN journal = {}
  BY <1>1, EmptySeq
<1>3. OfEvents(journal) = {} /\ HasLast(journal) /\ Pending = NoEvent
  BY <1>2, PendingNone DEF OfEvents, HasLast, Pending
<1>4. Predicted = {} /\ Labelled = {}
  BY <1>2 DEF Predicted, Labelled, EventsOf, ToSet
<1>. QED  BY <1>1, <1>2, <1>3, <1>4 DEF JournalInv, InOrder

LEMMA RevealedIs == TrajectoryRevealed <=> EventsOf(journal, "trajectory_label") # {}
BY DEF TrajectoryRevealed, EventsOf, ToSet

(* The record that an operation appends fits, and what it changes.         *)
LEMMA PredictFits ==
    ASSUME JournalInv, NEW e \in Events, CanPredict(e), journal' = Append(journal, Prediction(e))
    PROVE  /\ Prediction(e) \in Records /\ InOrder(journal') /\ HasLast(journal')
           /\ Predicted' = Predicted \cup {e} /\ Labelled' = Labelled /\ Pending' = e
           /\ EventsOf(journal', "trajectory_label") = EventsOf(journal, "trajectory_label")
           /\ e \notin Predicted /\ Pending = NoEvent /\ ~TrajectoryRevealed
<1>1. /\ Prediction(e) \in Records /\ Prediction(e).type = "event_prediction"
      /\ Prediction(e).event = e
  BY RecordFacts DEF JournalInv, Prediction, EventTypes
<1>2. e \notin Predicted /\ Pending = NoEvent /\ ~TrajectoryRevealed
  BY DEF CanPredict, Open
<1>3. InOrder(journal')
  BY <1>1, <1>2, AppendInOrder, RevealedIs DEF JournalInv, Pending, Predicted
<1>. QED  BY <1>1, <1>2, <1>3, AppendEvents, AppendPending
          DEF JournalInv, Pending, Predicted, Labelled

LEMMA RevealFits ==
    ASSUME JournalInv, NEW e \in Events, CanReveal(e), journal' = Append(journal, EventLabel(e))
    PROVE  /\ EventLabel(e) \in Records /\ InOrder(journal') /\ HasLast(journal')
           /\ Predicted' = Predicted /\ Labelled' = Labelled \cup {e} /\ Pending' = NoEvent
           /\ EventsOf(journal', "trajectory_label") = EventsOf(journal, "trajectory_label")
           /\ Pending = e /\ e \in Predicted \ Labelled /\ ~TrajectoryRevealed
<1>1. /\ EventLabel(e) \in Records /\ EventLabel(e).type = "event_label"
      /\ EventLabel(e).event = e
  BY RecordFacts DEF JournalInv, EventLabel, EventTypes
<1>2. Pending = e /\ ~TrajectoryRevealed
  BY DEF CanReveal, Open
<1>3. InOrder(journal')
  BY <1>1, <1>2, AppendInOrder, RevealedIs DEF JournalInv, Pending
<1>4. e \in Predicted \ Labelled
  BY <1>2, RecordFacts DEF JournalInv
<1>5. /\ Predicted' = Predicted /\ Labelled' = Labelled \cup {e}
      /\ EventsOf(journal', "trajectory_label") = EventsOf(journal, "trajectory_label")
  <2>1. \A type : EventsOf(journal', type) = EventsOf(journal, type) \cup
                       (IF "event_label" = type THEN {e} ELSE {})
    BY <1>1, AppendEvents DEF JournalInv
  <2>. QED  BY <2>1 DEF Predicted, Labelled
<1>6. HasLast(journal') /\ Pending' = NoEvent
  BY <1>1, AppendPending DEF JournalInv, Pending
<1>. QED  BY <1>1, <1>2, <1>3, <1>4, <1>5, <1>6

LEMMA TrajectoryFits ==
    ASSUME JournalInv, CanRevealTrajectory, journal' = Append(journal, TrajectoryLabel)
    PROVE  /\ TrajectoryLabel \in Records /\ InOrder(journal') /\ HasLast(journal')
           /\ Predicted' = Predicted /\ Labelled' = Labelled /\ Pending' = Pending
           /\ TrajectoryRevealed' /\ ~TrajectoryRevealed
           /\ Pending = NoEvent /\ Predicted # {}
<1>1. /\ TrajectoryLabel \in Records /\ TrajectoryLabel.type = "trajectory_label"
      /\ TrajectoryLabel.event = NoEvent
  BY RecordFacts DEF JournalInv, TrajectoryLabel
<1>2. Pending = NoEvent /\ ~TrajectoryRevealed /\ Predicted # {}
  BY DEF CanRevealTrajectory, Open, JournalInv
<1>3. InOrder(journal')
  BY <1>1, <1>2, AppendInOrder, RevealedIs DEF JournalInv, Pending
<1>4. TrajectoryRevealed'
  <2>1. Append(journal, TrajectoryLabel)[Len(journal) + 1].type = "trajectory_label"
        /\ Len(journal) + 1 \in DOMAIN Append(journal, TrajectoryLabel)
    BY <1>1, Appended DEF JournalInv
  <2>. QED  BY <2>1 DEF TrajectoryRevealed
<1>5. Predicted' = Predicted /\ Labelled' = Labelled
  <2>1. \A type : EventsOf(journal', type) = EventsOf(journal, type) \cup
                       (IF "trajectory_label" = type THEN {NoEvent} ELSE {})
    BY <1>1, AppendEvents DEF JournalInv
  <2>. QED  BY <2>1 DEF Predicted, Labelled
<1>6. HasLast(journal') /\ Pending' = Pending
  BY <1>1, AppendPending DEF JournalInv, Pending
<1>. QED  BY <1>1, <1>2, <1>3, <1>4, <1>5, <1>6

LEMMA JournalInvStep ==
    ASSUME JournalInv, JournalStep
    PROVE  JournalInv'
<1>1. CASE UNCHANGED journal
  BY <1>1 DEF JournalStep, JournalInv, Predicted, Labelled, Pending
<1>2. ASSUME NEW record \in Records, record.boot = boot, journal' = Append(journal, record),
             HasLast(journal'), InOrder(journal'), UNCHANGED manifest,
             Labelled' \subseteq Predicted', Predicted' \ Labelled' = {Pending'} \ {NoEvent},
             Predicted \subseteq Predicted'
      PROVE  JournalInv'
  <2>1. journal' \in Seq(Records) /\ boot' \in 1 .. 2
    BY <1>2, Appended DEF JournalInv, JournalStep
  <2>2. boot' = 1 => \A i \in DOMAIN journal' : journal'[i].boot = 1
    BY <1>2, Appended DEF JournalInv, JournalStep
  <2>3. Clean => tail' = "whole" /\ boot' = 1
    BY DEF JournalStep, JournalInv, Clean
  <2>. QED  BY <1>2, <2>1, <2>2, <2>3 DEF JournalInv
<1>3. ASSUME NEW e \in Events, CanPredict(e), journal' = Append(journal, Prediction(e))
      PROVE  JournalInv'
  <2>1. Prediction(e).boot = boot /\ UNCHANGED manifest
    BY <1>3, PredictFits DEF Prediction, JournalStep
  <2>2. Labelled' \subseteq Predicted' /\ Predicted' \ Labelled' = {Pending'} \ {NoEvent}
    BY <1>3, PredictFits, RecordFacts DEF JournalInv
  <2>. QED  BY <1>2, <1>3, <2>1, <2>2, PredictFits
<1>4. ASSUME NEW e \in Events, CanReveal(e), journal' = Append(journal, EventLabel(e))
      PROVE  JournalInv'
  <2>1. EventLabel(e).boot = boot /\ UNCHANGED manifest
    BY <1>4, RevealFits DEF EventLabel, JournalStep
  <2>2. Labelled' \subseteq Predicted' /\ Predicted' \ Labelled' = {Pending'} \ {NoEvent}
    BY <1>4, RevealFits DEF JournalInv
  <2>. QED  BY <1>2, <1>4, <2>1, <2>2, RevealFits
<1>5. ASSUME CanRevealTrajectory, journal' = Append(journal, TrajectoryLabel)
      PROVE  JournalInv'
  <2>1. TrajectoryLabel.boot = boot /\ UNCHANGED manifest
    BY <1>5, TrajectoryFits DEF TrajectoryLabel, JournalStep
  <2>. QED  BY <1>2, <1>5, <2>1, TrajectoryFits DEF JournalInv
<1>. QED  BY <1>1, <1>3, <1>4, <1>5 DEF JournalStep

-----------------------------------------------------------------------------
(* The refinement.                                                         *)

LEMMA StageIs ==
    /\ Stages = [e \in Events |-> Stages[e]]
    /\ \A e \in Events : Stages[e] =
          IF e \in Labelled THEN "labelled"
          ELSE IF e \in Predicted THEN "predicted" ELSE "open"
    /\ Stages' = [e \in Events |-> Stages'[e]]
    /\ \A e \in Events : Stages'[e] =
          IF e \in Labelled' THEN "labelled"
          ELSE IF e \in Predicted' THEN "predicted" ELSE "open"
BY DEF Stages

LEMMA OrderInit == Init => EventOrder!EventOrderInit
<1>. SUFFICES ASSUME Init PROVE EventOrder!EventOrderInit
  OBVIOUS
<1>1. journal = << >> /\ DOMAIN journal = {}
  BY EmptySeq DEF Init, JournalInit
<1>2. Predicted = {} /\ Labelled = {} /\ TrajectoryRevealed = FALSE
  BY <1>1 DEF Predicted, Labelled, EventsOf, ToSet, TrajectoryRevealed
<1>3. Stages = [e \in Events |-> "open"]
  BY <1>2 DEF Stages
<1>. QED  BY <1>2, <1>3 DEF EventOrder!EventOrderInit

(* Every step of the journal is one of EventOrder, or none.                *)
LEMMA OrderStep ==
    ASSUME JournalInv, JournalStep
    PROVE  [EventOrder!EventOrderNext]_(EventOrder!eventVars)
<1>. USE DEF EventOrder!eventVars
<1>0. Pending = NoEvent => Predicted = Labelled
  BY DEF JournalInv
<1>1. CASE UNCHANGED journal
  <2>1. UNCHANGED << Predicted, Labelled, TrajectoryRevealed >>
    BY <1>1 DEF Predicted, Labelled, TrajectoryRevealed
  <2>. QED  BY <2>1 DEF Stages
<1>2. ASSUME NEW e \in Events, CanPredict(e), journal' = Append(journal, Prediction(e))
      PROVE  EventOrder!Predict(e)
  <2>1. /\ Predicted' = Predicted \cup {e} /\ Labelled' = Labelled
        /\ e \notin Predicted /\ Predicted = Labelled
        /\ TrajectoryRevealed' = TrajectoryRevealed /\ TrajectoryRevealed = FALSE
    <3>1. TrajectoryRevealed' <=> EventsOf(journal', "trajectory_label") # {}
      BY DEF TrajectoryRevealed, EventsOf, ToSet
    <3>2. /\ Predicted' = Predicted \cup {e} /\ Labelled' = Labelled
          /\ e \notin Predicted /\ Predicted = Labelled /\ ~TrajectoryRevealed
          /\ EventsOf(journal', "trajectory_label") = EventsOf(journal, "trajectory_label")
      BY <1>0, <1>2, PredictFits
    <3>3. TrajectoryRevealed \in BOOLEAN /\ TrajectoryRevealed' \in BOOLEAN
      BY DEF TrajectoryRevealed
    <3>. QED  BY <3>1, <3>2, <3>3, RevealedIs
  <2>2. Stages[e] = "open" /\ \A f \in Events : Stages[f] # "predicted"
    BY <2>1, StageIs DEF JournalInv
  <2>3. Stages' = [Stages EXCEPT ![e] = "predicted"]
    <3>1. \A f \in Events : Stages'[f] = IF f = e THEN "predicted" ELSE Stages[f]
      BY <2>1, StageIs
    <3>. QED  BY <3>1, StageIs
  <2>. QED  BY <2>1, <2>2, <2>3 DEF EventOrder!Predict, EventOrder!Quiet
<1>3. ASSUME NEW e \in Events, CanReveal(e), journal' = Append(journal, EventLabel(e))
      PROVE  EventOrder!Label(e)
  <2>1. /\ Predicted' = Predicted /\ Labelled' = Labelled \cup {e} /\ e \in Predicted \ Labelled
        /\ TrajectoryRevealed' = TrajectoryRevealed /\ TrajectoryRevealed = FALSE
    <3>1. TrajectoryRevealed' <=> EventsOf(journal', "trajectory_label") # {}
      BY DEF TrajectoryRevealed, EventsOf, ToSet
    <3>2. /\ Predicted' = Predicted /\ Labelled' = Labelled \cup {e}
          /\ e \in Predicted \ Labelled /\ ~TrajectoryRevealed
          /\ EventsOf(journal', "trajectory_label") = EventsOf(journal, "trajectory_label")
      BY <1>3, RevealFits
    <3>3. TrajectoryRevealed \in BOOLEAN /\ TrajectoryRevealed' \in BOOLEAN
      BY DEF TrajectoryRevealed
    <3>. QED  BY <3>1, <3>2, <3>3, RevealedIs
  <2>2. Stages[e] = "predicted"
    BY <2>1, StageIs
  <2>3. Stages' = [Stages EXCEPT ![e] = "labelled"]
    <3>1. \A f \in Events : Stages'[f] = IF f = e THEN "labelled" ELSE Stages[f]
      BY <2>1, StageIs
    <3>. QED  BY <3>1, StageIs
  <2>. QED  BY <2>1, <2>2, <2>3 DEF EventOrder!Label
<1>4. ASSUME CanRevealTrajectory, journal' = Append(journal, TrajectoryLabel)
      PROVE  EventOrder!RevealTrajectory
  <2>1. /\ Predicted' = Predicted /\ Labelled' = Labelled
        /\ Predicted = Labelled /\ Predicted # {} /\ TrajectoryRevealed' /\ ~TrajectoryRevealed
    BY <1>0, <1>4, TrajectoryFits
  <2>2. TrajectoryRevealed' = TRUE
    BY <2>1 DEF TrajectoryRevealed
  <2>3. Stages' = Stages
    BY <2>1 DEF Stages
  <2>4. Predicted \subseteq Events
    BY EventsAreEvents DEF JournalInv, Predicted, EventTypes
  <2>5. /\ \A f \in Events : Stages[f] # "predicted"
        /\ \E f \in Events : Stages[f] = "labelled"
    BY <2>1, <2>4, StageIs
  <2>. QED  BY <2>1, <2>2, <2>3, <2>5 DEF EventOrder!RevealTrajectory, EventOrder!Quiet
<1>. QED  BY <1>1, <1>2, <1>3, <1>4 DEF JournalStep, EventOrder!EventOrderNext

-----------------------------------------------------------------------------
(* Effects and the places of the two processes.                            *)

Effects ==
    /\ executed \subseteq Predicted /\ delivered \subseteq Labelled
    /\ \A r \in Requests :
          /\ handler[r] \in OwesLabel => r \in Predicted
          /\ handler[r] \in {"labelled", "excused"} => r \in Labelled
    /\ agent \in {"acting", "acted"} => Tool \in Predicted

HoldoutInv == Places /\ JournalInv /\ Effects

LEMMA RecordsStay ==
    ASSUME JournalInv, JournalStep
    PROVE  Predicted \subseteq Predicted' /\ Labelled \subseteq Labelled'
<1>1. CASE UNCHANGED journal
  BY <1>1 DEF Predicted, Labelled
<1>2. CASE ~UNCHANGED journal
  BY <1>2, PredictFits, RevealFits, TrajectoryFits DEF JournalStep
<1>. QED  BY <1>1, <1>2

LEMMA InitPlaces == Init => Places /\ Effects
<1>. SUFFICES ASSUME Init PROVE Places /\ Effects
  OBVIOUS
<1>. QED  BY DEF Init, Places, Effects, HandlerStates, OwesLabel

LEMMA PlacesStep ==
    ASSUME Places, [Next]_holdoutVars
    PROVE  Places'
<1>1. handler' \in [Requests -> HandlerStates]
  <2>1. ASSUME NEW r \in Requests, HandlerNext(r) \/ HandlerDiskError(r)
        PROVE  handler' \in [Requests -> HandlerStates]
    BY <2>1 DEF HandlerNext, HandlerReadFails, HandlerPredicts, HandlerDispatches,
                HandlerIsAnswered, HandlerReveals, HandlerResponds, HandlerDiskError,
                Moves, Places, HandlerStates
  <2>2. CASE HandlersEnd \/ handler' = [r \in Requests |-> IF AtWork(r) THEN "gone" ELSE handler[r]]
    BY <2>2 DEF HandlersEnd, Places, HandlerStates
  <2>3. CASE UNCHANGED handler
    BY <2>3 DEF Places
  <2>4. ASSUME NEW r \in Requests, AgentAsks(r)
        PROVE  handler' \in [Requests -> HandlerStates]
    BY <2>4 DEF AgentAsks, Places, HandlerStates
  <2>. QED  BY <2>1, <2>2, <2>3, <2>4
            DEF Next, holdoutVars, clientVars, ProxyStarts, ProxyStops, ProxyExits, ProxyKilled,
                AgentStarts, AgentNext, AgentReceives, AgentRetries, ToolStarts, ToolExecutes,
                ToolReveals, AgentEnds, RunFreezes, RunRevealsTrajectory, RunScores,
                AgentDiskError, AgentKilled, StartKilled, PowerLoss
<1>2. ordinal' \in Nat /\ (agent' \in {"acting", "acted"} => ordinal' < Len(ToolOrder))
  BY DEF Places, Next, holdoutVars, clientVars, ProxyStarts, ProxyStops, ProxyExits, ProxyKilled,
         HandlerNext, HandlerReadFails, HandlerPredicts, HandlerDispatches, HandlerIsAnswered,
         HandlerReveals, HandlerResponds, HandlerDiskError, OthersOfHandler,
         AgentStarts, AgentNext, AgentAsks, AgentReceives, AgentRetries, ToolStarts, ToolExecutes,
         ToolReveals, AgentEnds, RunFreezes, RunRevealsTrajectory, RunScores,
         AgentDiskError, AgentKilled, StartKilled, PowerLoss, AgentGone
<1>. QED  BY <1>1, <1>2 DEF Places

LEMMA MovesEffects ==
    ASSUME Places, Effects, Predicted \subseteq Predicted', Labelled \subseteq Labelled',
           NEW r \in Requests, NEW place, Moves(r, place), UNCHANGED << agent, ordinal >>,
           place \in OwesLabel => r \in Predicted',
           place \in {"labelled", "excused"} => r \in Labelled',
           executed' \subseteq executed \cup {r}, r \in executed' \ executed => r \in Predicted,
           delivered' \subseteq delivered \cup {r}, r \in delivered' \ delivered => r \in Labelled
    PROVE  Effects'
<1>1. \A q \in Requests : handler'[q] = IF q = r THEN place ELSE handler[q]
  BY DEF Moves, Places
<1>2. executed' \subseteq Predicted' /\ delivered' \subseteq Labelled'
  BY DEF Effects
<1>3. Tool' = Tool
  BY DEF Tool
<1>. QED  BY <1>1, <1>2, <1>3 DEF Effects

LEMMA HandlerEffects ==
    ASSUME HoldoutInv, JournalStep, NEW r \in Requests, HandlerNext(r) \/ HandlerDiskError(r)
    PROVE  Effects'
<1>. USE DEF OthersOfHandler, history, OwesLabel
<1>. r \in Events
  BY DEF Events
<1>1. Places /\ Effects /\ Predicted \subseteq Predicted' /\ Labelled \subseteq Labelled'
  BY RecordsStay DEF HoldoutInv
<1>2. CASE HandlerReadFails(r) \/ HandlerDiskError(r)
  BY <1>1, <1>2, MovesEffects DEF HandlerReadFails, HandlerDiskError
<1>3. CASE HandlerPredicts(r)
  <2>1. CASE CanPredict(r) /\ AppendRecord(Prediction(r)) /\ Moves(r, "predicted")
    <3>1. r \in Predicted'
      BY <2>1, AppendRecordStep, PredictFits DEF HoldoutInv
    <3>. QED  BY <1>1, <1>3, <2>1, <3>1, MovesEffects DEF HandlerPredicts
  <2>2. CASE Moves(r, "gone")
    BY <1>1, <1>3, <2>2, MovesEffects DEF HandlerPredicts
  <2>. QED  BY <1>3, <2>1, <2>2 DEF HandlerPredicts
<1>4. CASE HandlerDispatches(r)
  <2>1. r \in Predicted
    BY <1>1, <1>4 DEF HandlerDispatches, Effects
  <2>. QED  BY <1>1, <1>4, <2>1, MovesEffects DEF HandlerDispatches
<1>5. CASE HandlerIsAnswered(r)
  <2>1. r \in Predicted
    BY <1>1, <1>5 DEF HandlerIsAnswered, Effects
  <2>2. PICK place \in {"answered", "faulted"} : Moves(r, place)
    BY <1>5 DEF HandlerIsAnswered
  <2>. QED  BY <1>1, <1>5, <2>1, <2>2, MovesEffects DEF HandlerIsAnswered
<1>6. CASE HandlerReveals(r)
  <2>1. CASE CanReveal(r) /\ AppendRecord(EventLabel(r))
    <3>1. r \in Labelled'
      BY <2>1, AppendRecordStep, RevealFits DEF HoldoutInv
    <3>2. PICK place \in {"labelled", "excused", "gone"} : Moves(r, place)
      BY <1>6 DEF HandlerReveals
    <3>. QED  BY <1>1, <1>6, <3>1, <3>2, MovesEffects DEF HandlerReveals
  <2>2. CASE Moves(r, "gone")
    BY <1>1, <1>6, <2>2, MovesEffects DEF HandlerReveals
  <2>. QED  BY <1>6, <2>1, <2>2 DEF HandlerReveals
<1>7. CASE HandlerResponds(r)
  <2>1. r \in Labelled
    BY <1>1, <1>7 DEF HandlerResponds, Effects
  <2>2. delivered' \subseteq delivered \cup {r} /\ UNCHANGED executed /\ Moves(r, "gone")
    BY <1>7 DEF HandlerResponds
  <2>. QED  BY <1>1, <1>7, <2>1, <2>2, MovesEffects DEF HandlerResponds
<1>. QED  BY <1>2, <1>3, <1>4, <1>5, <1>6, <1>7 DEF HandlerNext

(* Steps that move no handler on, and execute and deliver nothing.         *)
LEMMA StillEffects ==
    ASSUME Places, Effects, Predicted \subseteq Predicted', Labelled \subseteq Labelled',
           UNCHANGED << executed, delivered >>,
           \A r \in Requests : handler'[r] = handler[r] \/ handler'[r] \in {"accepted", "gone"},
           agent' \notin {"acting", "acted"} \/ UNCHANGED << agent, ordinal >>
    PROVE  Effects'
<1>1. UNCHANGED ordinal => Tool' = Tool
  BY DEF Tool
<1>2. agent' \in {"acting", "acted"} => Tool' \in Predicted'
  BY <1>1 DEF Effects
<1>3. executed' \subseteq Predicted' /\ delivered' \subseteq Labelled'
  BY DEF Effects
<1>4. \A r \in Requests : /\ handler'[r] \in OwesLabel => r \in Predicted'
                          /\ handler'[r] \in {"labelled", "excused"} => r \in Labelled'
  BY DEF Effects, OwesLabel
<1>. QED  BY <1>2, <1>3, <1>4 DEF Effects

LEMMA AgentEffects ==
    ASSUME HoldoutInv, JournalStep, AgentNext \/ AgentDiskError
    PROVE  Effects'
<1>. USE DEF OthersOfAgent, history
<1>1. Places /\ Effects /\ Predicted \subseteq Predicted' /\ Labelled \subseteq Labelled'
  BY RecordsStay DEF HoldoutInv
<1>2. ASSUME NEW r \in Requests, AgentAsks(r) PROVE Effects'
  <2>1. \A q \in Requests : handler'[q] = IF q = r THEN "accepted" ELSE handler[q]
    BY <1>1, <1>2 DEF AgentAsks, Places
  <2>. QED  BY <1>1, <1>2, <2>1, StillEffects DEF AgentAsks
<1>3. CASE \/ AgentReceives \/ AgentRetries \/ ToolReveals \/ AgentEnds \/ RunFreezes
           \/ RunRevealsTrajectory \/ RunScores \/ AgentDiskError
  <2>1. UNCHANGED << handler, executed, delivered >> /\ agent' \notin {"acting", "acted"}
    BY <1>3 DEF AgentReceives, AgentRetries, ToolReveals, AgentEnds, RunFreezes,
                RunRevealsTrajectory, RunScores, AgentDiskError
  <2>. QED  BY <1>1, <2>1, StillEffects
<1>4. CASE ToolStarts
  <2>1. UNCHANGED << handler, executed, delivered, ordinal >> /\ ordinal < Len(ToolOrder)
    BY <1>4 DEF ToolStarts
  <2>2. Tool' = Tool /\ Tool \in Events
    BY <1>1, <2>1, ToolIsTool DEF Tool, Places, Events
  <2>3. CASE agent' \notin {"acting", "acted"}
    BY <1>1, <2>1, <2>3, StillEffects
  <2>4. CASE CanPredict(Tool) /\ AppendRecord(Prediction(Tool))
    <3>1. Tool \in Predicted'
      BY <2>2, <2>4, AppendRecordStep, PredictFits DEF HoldoutInv
    <3>. QED  BY <1>1, <2>1, <2>2, <3>1 DEF Effects
  <2>5. CASE CanReplay(Tool)
    BY <1>1, <2>1, <2>2, <2>5 DEF CanReplay, Effects
  <2>. QED  BY <1>4, <2>3, <2>4, <2>5 DEF ToolStarts
<1>5. CASE ToolExecutes
  <2>1. /\ UNCHANGED << handler, delivered, ordinal >> /\ executed' = executed \cup {Tool}
        /\ agent = "acting"
    BY <1>5 DEF ToolExecutes
  <2>2. Tool' = Tool /\ Tool \in Predicted
    BY <1>1, <2>1 DEF Tool, Effects
  <2>. QED  BY <1>1, <2>1, <2>2 DEF Effects
<1>. QED  BY <1>2, <1>3, <1>4, <1>5 DEF AgentNext

LEMMA FaultEffects ==
    ASSUME HoldoutInv, JournalStep,
           \/ ProxyStarts \/ ProxyStops \/ ProxyExits \/ ProxyKilled
           \/ AgentStarts \/ AgentKilled \/ StartKilled \/ PowerLoss \/ UNCHANGED holdoutVars
    PROVE  Effects'
<1>1. Places /\ Effects /\ Predicted \subseteq Predicted' /\ Labelled \subseteq Labelled'
  BY RecordsStay DEF HoldoutInv
<1>2. UNCHANGED << executed, delivered >>
  BY DEF ProxyStarts, ProxyStops, ProxyExits, ProxyKilled, AgentStarts, AgentKilled, StartKilled,
         PowerLoss, holdoutVars, history
<1>3. \A r \in Requests : handler'[r] = handler[r] \/ handler'[r] \in {"accepted", "gone"}
  BY DEF ProxyStarts, ProxyStops, ProxyExits, ProxyKilled, HandlersEnd, AgentStarts, AgentKilled,
         StartKilled, PowerLoss, holdoutVars, clientVars
<1>4. agent' \notin {"acting", "acted"} \/ UNCHANGED << agent, ordinal >>
  BY DEF ProxyStarts, ProxyStops, ProxyExits, ProxyKilled, AgentStarts, AgentKilled, AgentGone,
         StartKilled, PowerLoss, holdoutVars, clientVars
<1>. QED  BY <1>1, <1>2, <1>3, <1>4, StillEffects

-----------------------------------------------------------------------------
(* The inductive invariant, and what it gives.                             *)

LEMMA HoldoutInvStep ==
    ASSUME HoldoutInv, [Next]_holdoutVars
    PROVE  HoldoutInv'
<1>1. JournalStep /\ Places'
  BY NextJournal, PlacesStep DEF HoldoutInv
<1>2. JournalInv'
  BY <1>1, JournalInvStep DEF HoldoutInv
<1>3. Effects'
  BY <1>1, HandlerEffects, AgentEffects, FaultEffects DEF Next
<1>. QED  BY <1>1, <1>2, <1>3 DEF HoldoutInv

(* Every reachable journal is in order, has at most one prediction without *)
(* a label, and holds the records of all that was done and answered.       *)
THEOREM HoldoutInvariant == Spec => []HoldoutInv
<1>1. Init => HoldoutInv
  BY InitPlaces, InitJournal DEF HoldoutInv
<1>2. HoldoutInv /\ [Next]_holdoutVars => HoldoutInv'
  BY HoldoutInvStep
<1>. QED  BY <1>1, <1>2, PTL DEF Spec

(* _load_journal accepts what the proxy and the agent append, whatever the *)
(* order, unless a write failed or the machine rebooted.                   *)
THEOREM WritersAndReaderAgree == Spec => []WritersSatisfyReader
<1>1. ASSUME HoldoutInv PROVE WritersSatisfyReader
  <2>1. InOrder(journal) /\ (boot = 1 => OneBoot(journal))
    BY <1>1 DEF HoldoutInv, JournalInv, OneBoot
  <2>2. Clean => tail = "whole" /\ boot = 1
    BY <1>1 DEF HoldoutInv, JournalInv
  <2>. QED  BY <2>1, <2>2 DEF WritersSatisfyReader, Loadable, Clean
<1>. QED  BY <1>1, HoldoutInvariant, PTL

(* Nothing is dispatched or executed before its prediction is a record, no *)
(* response reaches the agent before its label is.                         *)
THEOREM EffectsHaveRecords == Spec => []EffectsFollowRecords
<1>1. HoldoutInv => EffectsFollowRecords
  BY DEF HoldoutInv, Effects, EffectsFollowRecords
<1>. QED  BY <1>1, HoldoutInvariant, PTL

(* The journal, with all its writers and faults, implements EventOrder.    *)
THEOREM HoldoutKeepsOrder == Spec => ImplementsEventOrder
<1>1. ASSUME HoldoutInv, [Next]_holdoutVars
      PROVE  [EventOrder!EventOrderNext]_(EventOrder!eventVars)
  BY <1>1, NextJournal, OrderStep DEF HoldoutInv
<1>. QED  BY <1>1, OrderInit, HoldoutInvariant, PTL
          DEF Spec, ImplementsEventOrder, EventOrder!EventOrderSpec

-----------------------------------------------------------------------------
(* Who owes the label of an outstanding prediction.                        *)

Ended == TrajectoryRevealed => Pending = NoEvent
Armed == Predicted # {} => arm = "frozen"
OwnerInv == PendingHasOwner /\ Ended /\ Armed

LEMMA InitOwner == Init => OwnerInv
<1>. SUFFICES ASSUME Init PROVE OwnerInv
  OBVIOUS
<1>1. journal = << >> /\ DOMAIN journal = {} /\ journal \in Seq(Records)
  BY EmptySeq DEF Init, JournalInit
<1>2. Pending = NoEvent
  BY <1>1, PendingNone DEF Pending, OfEvents
<1>3. Predicted = {}
  BY <1>1 DEF Predicted, EventsOf, ToSet
<1>. QED  BY <1>2, <1>3 DEF OwnerInv, PendingHasOwner, Ended, Armed

LEMMA BrokenStays == ASSUME JournalStep, ~Loadable PROVE ~Loadable'
BY DEF JournalStep, Loadable

LEMMA JournalChanges ==
    ASSUME JournalInv, Ended, Armed, JournalStep
    PROVE  /\ Ended' /\ Armed'
           /\ UNCHANGED journal => UNCHANGED Pending
<1>1. CASE UNCHANGED journal
  <2>1. UNCHANGED << Pending, Predicted, TrajectoryRevealed >>
    BY <1>1 DEF Pending, Predicted, TrajectoryRevealed
  <2>. QED  BY <2>1 DEF Ended, Armed, JournalStep
<1>2. CASE ~UNCHANGED journal
  <2>1. arm' = "frozen"
    BY <1>2 DEF JournalStep, CanPredict, CanReveal, CanRevealTrajectory, Open
  <2>2. ASSUME NEW e \in Events, CanPredict(e), journal' = Append(journal, Prediction(e))
        PROVE  ~TrajectoryRevealed'
    <3>1. TrajectoryRevealed' <=> EventsOf(journal', "trajectory_label") # {}
      BY DEF TrajectoryRevealed, EventsOf, ToSet
    <3>. QED  BY <2>2, <3>1, PredictFits, RevealedIs
  <2>3. ASSUME NEW e \in Events, CanReveal(e), journal' = Append(journal, EventLabel(e))
        PROVE  Pending' = NoEvent
    BY <2>3, RevealFits
  <2>4. ASSUME CanRevealTrajectory, journal' = Append(journal, TrajectoryLabel)
        PROVE  Pending' = NoEvent
    BY <2>4, TrajectoryFits
  <2>. QED  BY <1>2, <2>1, <2>2, <2>3, <2>4 DEF JournalStep, Ended, Armed
<1>. QED  BY <1>1, <1>2

(* The owner of an outstanding prediction is not refused.                  *)
LEMMA OwnerMayReveal ==
    ASSUME JournalInv, OwnerInv, Loadable, Pending # NoEvent
    PROVE  CanReveal(Pending)
<1>1. Pending \in Predicted
  BY DEF JournalInv
<1>. QED  BY <1>1 DEF OwnerInv, Ended, Armed, CanReveal, Open

LEMMA NobodyOwes == ASSUME Pending' = NoEvent PROVE PendingHasOwner'
BY DEF PendingHasOwner

LEMMA NewOwner ==
    ASSUME JournalInv, NEW e \in Events, CanPredict(e), journal' = Append(journal, Prediction(e)),
           \/ e \in lost'
           \/ e \in Requests /\ handler'[e] \in OwesLabel
           \/ agent' \in {"acting", "acted"} /\ Tool' = e
    PROVE  PendingHasOwner'
<1>1. Pending' = e
  BY PredictFits
<1>. QED  BY <1>1 DEF PendingHasOwner

(* A step that records nothing, and lets nobody go who owes a label.       *)
LEMMA OwnerKept ==
    ASSUME JournalInv, OwnerInv, JournalStep, UNCHANGED journal, lost \subseteq lost',
           \A r \in Requests : handler[r] \in OwesLabel /\ r = Pending =>
               handler'[r] \in OwesLabel \/ r \in lost' \/ ~Loadable,
           agent \in {"acting", "acted"} /\ Tool = Pending =>
               \/ agent' \in {"acting", "acted"} /\ UNCHANGED ordinal
               \/ Tool \in lost' \/ ~Loadable
    PROVE  PendingHasOwner'
<1>1. Pending' = Pending /\ (~Loadable => ~Loadable')
  BY BrokenStays, JournalChanges DEF OwnerInv
<1>2. UNCHANGED ordinal => Tool' = Tool
  BY DEF Tool
<1>3. CASE ~Loadable
  BY <1>1, <1>3 DEF PendingHasOwner
<1>4. CASE Loadable /\ Pending \in {NoEvent} \cup lost
  BY <1>1, <1>4 DEF PendingHasOwner
<1>5. CASE Loadable /\ Pending \in Requests /\ handler[Pending] \in OwesLabel
  BY <1>1, <1>5 DEF PendingHasOwner
<1>6. CASE Loadable /\ agent \in {"acting", "acted"} /\ Pending = Tool
  BY <1>1, <1>2, <1>6 DEF PendingHasOwner
<1>. QED  BY <1>3, <1>4, <1>5, <1>6 DEF OwnerInv, PendingHasOwner

LEMMA HandlerOwner ==
    ASSUME HoldoutInv, OwnerInv, JournalStep,
           NEW r \in Requests, HandlerNext(r) \/ HandlerDiskError(r)
    PROVE  PendingHasOwner'
<1>. USE DEF OthersOfHandler, history, OwesLabel
<1>0. r \in Events /\ JournalInv /\ Places
  BY DEF Events, HoldoutInv
<1>a. \A place : Moves(r, place) =>
          \A q \in Requests : handler'[q] = IF q = r THEN place ELSE handler[q]
  BY <1>0 DEF Moves, Places
<1>1. CASE \/ HandlerReadFails(r) \/ HandlerDispatches(r) \/ HandlerIsAnswered(r)
           \/ HandlerResponds(r)
  <2>1. UNCHANGED << journal, agent, ordinal, lost >>
    BY <1>1 DEF HandlerReadFails, HandlerDispatches, HandlerIsAnswered, HandlerResponds, journalVars
  <2>2. \A q \in Requests : handler[q] \in OwesLabel => handler'[q] \in OwesLabel
    BY <1>1, <1>a DEF HandlerReadFails, HandlerDispatches, HandlerIsAnswered, HandlerResponds
  <2>. QED  BY <1>0, <2>1, <2>2, OwnerKept
<1>2. CASE HandlerPredicts(r)
  <2>1. UNCHANGED << agent, ordinal, lost >> /\ handler[r] = "accepted"
    BY <1>2 DEF HandlerPredicts
  <2>2. CASE CanPredict(r) /\ AppendRecord(Prediction(r)) /\ Moves(r, "predicted")
    BY <1>0, <1>a, <2>2, AppendRecordStep, NewOwner
  <2>3. CASE Moves(r, "gone") /\ UNCHANGED journalVars
    <3>1. \A q \in Requests : handler[q] \in OwesLabel => handler'[q] \in OwesLabel
      BY <1>a, <2>1, <2>3
    <3>. QED  BY <1>0, <2>1, <2>3, <3>1, OwnerKept DEF journalVars
  <2>. QED  BY <1>2, <2>2, <2>3 DEF HandlerPredicts
<1>3. CASE HandlerReveals(r)
  <2>1. UNCHANGED << agent, ordinal, lost >>
    BY <1>3 DEF HandlerReveals
  <2>2. CASE CanReveal(r) /\ AppendRecord(EventLabel(r))
    <3>1. Pending' = NoEvent
      BY <1>0, <2>2, AppendRecordStep, RevealFits
    <3>. QED  BY <3>1, NobodyOwes
  <2>3. CASE ~CanReveal(r) /\ Moves(r, "gone") /\ UNCHANGED journalVars
    <3>1. r = Pending => ~Loadable
      BY <1>0, <2>3, OwnerMayReveal, RecordFacts
    <3>2. \A q \in Requests : q # r => handler'[q] = handler[q]
      BY <1>a, <2>3
    <3>. QED  BY <1>0, <2>1, <2>3, <3>1, <3>2, OwnerKept DEF journalVars
  <2>. QED  BY <1>3, <2>2, <2>3 DEF HandlerReveals
<1>4. CASE HandlerDiskError(r)
  <2>1. UNCHANGED << agent, ordinal >> /\ lost' = lost \cup {r} /\ Moves(r, "gone")
    BY <1>4 DEF HandlerDiskError
  <2>2. CASE UNCHANGED journal
    BY <1>0, <1>a, <2>1, <2>2, OwnerKept
  <2>3. CASE CanPredict(r) /\ journal' = Append(journal, Prediction(r))
    BY <1>0, <2>1, <2>3, NewOwner
  <2>4. CASE CanReveal(r) /\ journal' = Append(journal, EventLabel(r))
    <3>1. Pending' = NoEvent
      BY <1>0, <2>4, RevealFits
    <3>. QED  BY <3>1, NobodyOwes
  <2>. QED  BY <1>4, <2>2, <2>3, <2>4, SpoiltStep DEF HandlerDiskError
<1>. QED  BY <1>1, <1>2, <1>3, <1>4 DEF HandlerNext

LEMMA AgentOwner ==
    ASSUME HoldoutInv, OwnerInv, JournalStep, AgentNext \/ AgentDiskError
    PROVE  PendingHasOwner'
<1>. USE DEF OthersOfAgent, history
<1>0. JournalInv /\ Places
  BY DEF HoldoutInv
<1>1. ordinal < Len(ToolOrder) => Tool \in Events /\ Tool # NoEvent
  BY <1>0, ToolIsTool, RecordFacts DEF Places, Events
<1>2. UNCHANGED ordinal => Tool' = Tool
  BY DEF Tool
<1>3. ASSUME NEW r \in Requests, AgentAsks(r) PROVE PendingHasOwner'
  <2>1. UNCHANGED << journal, ordinal, lost >> /\ agent = "ready" /\ handler[r] = "none"
    BY <1>3 DEF AgentAsks, journalVars
  <2>2. \A q \in Requests : q # r => handler'[q] = handler[q]
    BY <1>0, <1>3 DEF AgentAsks, Places
  <2>. QED  BY <1>0, <2>1, <2>2, OwnerKept DEF OwesLabel
<1>4. CASE \/ AgentReceives \/ AgentRetries \/ ToolExecutes \/ AgentEnds \/ RunFreezes \/ RunScores
  <2>1. /\ UNCHANGED << journal, handler, lost, ordinal >>
        /\ agent \in {"acting", "acted"} => agent' \in {"acting", "acted"}
    BY <1>4 DEF AgentReceives, AgentRetries, ToolExecutes, AgentEnds, RunFreezes, FreezeManifest,
                RunScores, journalVars
  <2>. QED  BY <1>0, <2>1, OwnerKept
<1>5. CASE ToolStarts
  <2>1. /\ UNCHANGED << handler, lost, ordinal >> /\ agent = "deciding"
        /\ ordinal < Len(ToolOrder)
    BY <1>5 DEF ToolStarts
  <2>2. CASE CanPredict(Tool) /\ AppendRecord(Prediction(Tool)) /\ agent' = "acting"
    <3>1. journal' = Append(journal, Prediction(Tool))
      BY <2>2, AppendRecordStep
    <3>. QED  BY <1>0, <1>1, <1>2, <2>1, <2>2, <3>1, NewOwner
  <2>3. CASE UNCHANGED journalVars
    BY <1>0, <2>1, <2>3, OwnerKept DEF journalVars
  <2>. QED  BY <1>5, <2>2, <2>3 DEF ToolStarts
<1>6. CASE ToolReveals
  <2>1. UNCHANGED << handler, lost >> /\ agent = "acted" /\ ordinal < Len(ToolOrder)
    BY <1>0, <1>6 DEF ToolReveals, Places
  <2>2. CASE CanReveal(Tool) /\ AppendRecord(EventLabel(Tool))
    <3>1. journal' = Append(journal, EventLabel(Tool))
      BY <2>2, AppendRecordStep
    <3>2. Pending' = NoEvent
      BY <1>0, <1>1, <2>1, <2>2, <3>1, RevealFits
    <3>. QED  BY <3>2, NobodyOwes
  <2>3. CASE ~CanReveal(Tool) /\ UNCHANGED journalVars
    <3>1. Tool = Pending => ~Loadable
      BY <1>0, <1>1, <2>1, <2>3, OwnerMayReveal
    <3>. QED  BY <1>0, <2>1, <2>3, <3>1, OwnerKept DEF journalVars
  <2>. QED  BY <1>6, <2>2, <2>3 DEF ToolReveals
<1>7. CASE RunRevealsTrajectory
  <2>1. UNCHANGED << handler, lost, ordinal >> /\ agent = "frozen"
    BY <1>7 DEF RunRevealsTrajectory
  <2>2. CASE CanRevealTrajectory /\ AppendRecord(TrajectoryLabel)
    <3>1. Pending' = NoEvent
      BY <1>0, <2>2, AppendRecordStep, TrajectoryFits
    <3>. QED  BY <3>1, NobodyOwes
  <2>3. CASE UNCHANGED journalVars
    BY <1>0, <2>1, <2>3, OwnerKept DEF journalVars
  <2>. QED  BY <1>7, <2>2, <2>3 DEF RunRevealsTrajectory
<1>8. CASE AgentDiskError
  <2>1. UNCHANGED << handler, ordinal >> /\ lost \subseteq lost'
    BY <1>8 DEF AgentDiskError
  <2>2. CASE /\ agent = "deciding" /\ ordinal < Len(ToolOrder)
             /\ CanPredict(Tool) /\ SpoiltBy(Prediction(Tool)) /\ lost' = lost \cup {Tool}
    <3>1. CASE UNCHANGED journal
      BY <1>0, <2>1, <2>2, <3>1, OwnerKept
    <3>2. CASE journal' = Append(journal, Prediction(Tool))
      BY <1>0, <1>1, <2>2, <3>2, NewOwner
    <3>. QED  BY <2>2, <3>1, <3>2, SpoiltStep
  <2>3. CASE /\ agent = "acted" /\ CanReveal(Tool) /\ SpoiltBy(EventLabel(Tool))
             /\ lost' = lost \cup {Tool}
    <3>1. CASE UNCHANGED journal
      BY <1>0, <2>1, <2>3, <3>1, OwnerKept
    <3>2. CASE journal' = Append(journal, EventLabel(Tool))
      <4>1. Pending' = NoEvent
        BY <1>0, <1>1, <2>3, <3>2, RevealFits DEF Places
      <4>. QED  BY <4>1, NobodyOwes
    <3>. QED  BY <2>3, <3>1, <3>2, SpoiltStep
  <2>4. CASE agent = "frozen" /\ CanRevealTrajectory /\ SpoiltBy(TrajectoryLabel)
    <3>1. CASE UNCHANGED journal
      BY <1>0, <2>1, <2>4, <3>1, OwnerKept
    <3>2. CASE journal' = Append(journal, TrajectoryLabel)
      <4>1. Pending' = NoEvent
        BY <1>0, <2>4, <3>2, TrajectoryFits
      <4>. QED  BY <4>1, NobodyOwes
    <3>. QED  BY <2>4, <3>1, <3>2, SpoiltStep
  <2>. QED  BY <1>8, <2>2, <2>3, <2>4 DEF AgentDiskError
<1>. QED  BY <1>3, <1>4, <1>5, <1>6, <1>7, <1>8 DEF AgentNext

LEMMA PowerOwner ==
    ASSUME HoldoutInv, OwnerInv, JournalStep, PowerLoss
    PROVE  PendingHasOwner'
<1>0. JournalInv /\ Places
  BY DEF HoldoutInv
<1>1. /\ lost \subseteq lost'
      /\ \A r \in Requests : handler[r] \notin {"none", "gone"} => r \in lost'
      /\ agent \in {"deciding", "acting", "acted"} /\ ordinal < Len(ToolOrder) => Tool \in lost'
  BY <1>0, ToolIsTool DEF PowerLoss, AtWork, Places
<1>2. CASE UNCHANGED journal
  BY <1>0, <1>1, <1>2, OwnerKept DEF OwesLabel, Places
<1>3. ASSUME NEW record \in InProgress, journal' = Append(journal, record)
      PROVE  PendingHasOwner'
  <2>1. \/ \E e \in Events : CanPredict(e) /\ record = Prediction(e) /\ e \in lost'
        \/ \E e \in Events : CanReveal(e) /\ record = EventLabel(e)
        \/ CanRevealTrajectory /\ record = TrajectoryLabel
    BY <1>1, <1>3 DEF InProgress, Events
  <2>2. ASSUME NEW e \in Events, CanReveal(e), record = EventLabel(e) PROVE Pending' = NoEvent
    BY <1>0, <1>3, <2>2, RevealFits
  <2>3. CanRevealTrajectory /\ record = TrajectoryLabel => Pending' = NoEvent
    BY <1>0, <1>3, TrajectoryFits
  <2>4. ASSUME NEW e \in Events, CanPredict(e), record = Prediction(e), e \in lost'
        PROVE  PendingHasOwner'
    BY <1>0, <1>3, <2>4, NewOwner
  <2>. QED  BY <2>1, <2>2, <2>3, <2>4, NobodyOwes
<1>4. UNCHANGED journal \/ \E record \in InProgress : journal' = Append(journal, record)
  <2>1. UNCHANGED journal \/ \E record \in InProgress : SpoiltBy(record)
    BY DEF PowerLoss
  <2>. QED  BY <2>1, SpoiltStep
<1>. QED  BY <1>2, <1>3, <1>4

LEMMA OwnerStep ==
    ASSUME HoldoutInv, OwnerInv, [Next]_holdoutVars
    PROVE  OwnerInv'
<1>0. JournalInv /\ Places /\ JournalStep
  BY NextJournal DEF HoldoutInv
<1>1. Ended' /\ Armed'
  BY <1>0, JournalChanges DEF OwnerInv
<1>2. CASE ProxyExits \/ ProxyKilled
  <2>1. /\ UNCHANGED << journal, agent, ordinal >> /\ lost \subseteq lost'
        /\ \A r \in Requests : handler[r] \in OwesLabel => r \in lost'
    BY <1>2 DEF ProxyExits, ProxyKilled, HandlersEnd, journalVars
  <2>. QED  BY <1>0, <1>1, <2>1, OwnerKept DEF OwnerInv
<1>3. CASE AgentKilled
  <2>1. /\ UNCHANGED << journal, handler, ordinal >> /\ lost \subseteq lost'
        /\ agent \in {"acting", "acted"} => Tool \in lost'
    BY <1>3 DEF AgentKilled, ManifestTorn, journalVars
  <2>. QED  BY <1>0, <1>1, <2>1, OwnerKept DEF OwnerInv
<1>4. CASE \/ UNCHANGED holdoutVars \/ ProxyStarts \/ ProxyStops \/ AgentStarts \/ StartKilled
  <2>1. /\ UNCHANGED << journal, handler, lost >>
        /\ agent \in {"acting", "acted"} => UNCHANGED << agent, ordinal >>
    BY <1>4 DEF holdoutVars, clientVars, history, journalVars, ProxyStarts, ProxyStops,
                AgentStarts, StartKilled, ArmTrajectory, ArmTorn
  <2>. QED  BY <1>0, <1>1, <2>1, OwnerKept DEF OwnerInv
<1>5. ASSUME NEW r \in Requests, HandlerNext(r) \/ HandlerDiskError(r) PROVE OwnerInv'
  BY <1>0, <1>1, <1>5, HandlerOwner DEF OwnerInv
<1>6. CASE AgentNext \/ AgentDiskError
  BY <1>0, <1>1, <1>6, AgentOwner DEF OwnerInv
<1>7. CASE PowerLoss
  BY <1>0, <1>1, <1>7, PowerOwner DEF OwnerInv
<1>. QED  BY <1>2, <1>3, <1>4, <1>5, <1>6, <1>7 DEF Next

(* A prediction without a label always has somebody who will reveal it, a  *)
(* handler of the proxy or the agent's hook, and who is not refused; the   *)
(* exceptions are those that a kill, an I/O error or a loss of power made. *)
THEOREM PendingIsOwned == Spec => []PendingHasOwner
<1>1. Init => OwnerInv
  BY InitOwner
<1>2. HoldoutInv /\ OwnerInv /\ [Next]_holdoutVars => OwnerInv'
  BY OwnerStep
<1>3. OwnerInv => PendingHasOwner
  BY DEF OwnerInv
<1>. QED  BY <1>1, <1>2, <1>3, HoldoutInvariant, PTL DEF Spec

-----------------------------------------------------------------------------
(* What is scored was frozen.                                              *)

Busy ==
    \A r \in Requests :
        /\ r \in delivered => handler[r] = "gone"
        /\ AtWork(r) => r \in abandoned \/ (agent = "asking" /\ asked = r)
Frozen ==
    agent \in {"frozen", "closed"} =>
        manifest.state = "frozen" /\ Predicted \ manifest.events \subseteq abandoned
Scored ==
    report.state # "absent" =>
        /\ TrajectoryRevealed
        /\ report.events = Labelled
        /\ report.events \ manifest.events \subseteq abandoned
FrozenInv == Busy /\ Frozen /\ Scored

LEMMA InitFrozen == Init => FrozenInv
BY DEF Init, FrozenInv, Busy, Frozen, Scored, AtWork

(* Everybody at work for a request that is not waited for was given up.    *)
LEMMA BusyStep ==
    ASSUME Places, Busy, [Next]_holdoutVars
    PROVE  Busy' /\ abandoned \subseteq abandoned'
<1>. USE DEF Busy, AtWork
<1>1. ASSUME NEW q \in Requests, HandlerNext(q) \/ HandlerDiskError(q)
      PROVE  Busy' /\ UNCHANGED abandoned
  <2>1. UNCHANGED << agent, asked, abandoned >>
    BY <1>1 DEF HandlerNext, HandlerReadFails, HandlerPredicts, HandlerDispatches,
                HandlerIsAnswered, HandlerReveals, HandlerResponds, HandlerDiskError,
                OthersOfHandler, history
  <2>2. /\ handler[q] \notin {"none", "gone"}
        /\ \A r \in Requests : r # q => handler'[r] = handler[r]
        /\ delivered' \subseteq delivered \cup {q}
        /\ q \in delivered' => q \in delivered \/ handler'[q] = "gone"
    BY <1>1 DEF HandlerNext, HandlerReadFails, HandlerPredicts, HandlerDispatches,
                HandlerIsAnswered, HandlerReveals, HandlerResponds, HandlerDiskError,
                Moves, history, Places
  <2>. QED  BY <2>1, <2>2
<1>2. CASE ProxyExits \/ ProxyKilled
  BY <1>2 DEF ProxyExits, ProxyKilled, HandlersEnd
<1>3. ASSUME NEW q \in Requests, AgentAsks(q) PROVE Busy' /\ UNCHANGED abandoned
  BY <1>3 DEF AgentAsks, Places, history
<1>4. CASE AgentReceives \/ AgentRetries
  BY <1>4 DEF AgentReceives, AgentRetries, history
<1>5. CASE AgentKilled \/ PowerLoss
  <2>1. CASE AgentKilled
    BY <2>1, RecordFacts DEF AgentKilled, AgentGone, Events
  <2>2. CASE PowerLoss
    BY <2>2 DEF PowerLoss, AgentGone
  <2>. QED  BY <1>5, <2>1, <2>2
<1>6. CASE \/ UNCHANGED holdoutVars \/ ProxyStarts \/ ProxyStops \/ AgentStarts \/ StartKilled
           \/ ToolStarts \/ ToolExecutes \/ ToolReveals \/ AgentEnds \/ RunFreezes
           \/ RunRevealsTrajectory \/ RunScores \/ AgentDiskError
  <2>1. UNCHANGED << handler, delivered, abandoned, asked >> /\ (agent = "asking" => agent' = agent)
    BY <1>6 DEF holdoutVars, clientVars, history, ProxyStarts, ProxyStops, AgentStarts, StartKilled,
                ToolStarts, ToolExecutes, ToolReveals, AgentEnds, RunFreezes, RunRevealsTrajectory,
                RunScores, AgentDiskError
  <2>. QED  BY <2>1
<1>. QED  BY <1>1, <1>2, <1>3, <1>4, <1>5, <1>6 DEF Next, AgentNext

LEMMA ManifestStep ==
    ASSUME [Next]_holdoutVars
    PROVE  UNCHANGED manifest \/ (CanFreeze /\ agent = "closing")
<1>1. ASSUME NEW record, AppendRecord(record) \/ SpoiltBy(record) PROVE UNCHANGED manifest
  BY <1>1 DEF AppendRecord, SpoiltBy
<1>2. ASSUME NEW q \in Requests, HandlerNext(q) \/ HandlerDiskError(q) PROVE UNCHANGED manifest
  BY <1>1, <1>2 DEF HandlerNext, HandlerReadFails, HandlerPredicts, HandlerDispatches,
                HandlerIsAnswered, HandlerReveals, HandlerResponds, HandlerDiskError, journalVars
<1>3. CASE AgentNext \/ AgentDiskError \/ AgentKilled
  BY <1>1, <1>3 DEF AgentNext, AgentAsks, AgentReceives, AgentRetries, ToolStarts, ToolExecutes,
                ToolReveals, AgentEnds, RunFreezes, FreezeManifest, RunRevealsTrajectory,
                RunScores, AgentDiskError, AgentKilled, ManifestTorn, journalVars
<1>4. CASE PowerLoss
  BY <1>1, <1>4 DEF PowerLoss
<1>5. CASE \/ UNCHANGED holdoutVars \/ ProxyStarts \/ ProxyStops \/ ProxyExits \/ ProxyKilled
           \/ AgentStarts \/ StartKilled
  BY <1>5 DEF holdoutVars, ProxyStarts, ProxyStops, ProxyExits, ProxyKilled, AgentStarts,
              StartKilled, ArmTrajectory, ArmTorn, journalVars
<1>. QED  BY <1>2, <1>3, <1>4, <1>5 DEF Next

(* The trajectory's label closes the journal and the manifest.             *)
LEMMA RevealedCloses ==
    ASSUME JournalStep, TrajectoryRevealed
    PROVE  UNCHANGED << journal, TrajectoryRevealed, Labelled, Predicted >> /\ ~CanFreeze
<1>1. UNCHANGED journal /\ ~CanFreeze
  BY DEF JournalStep, CanPredict, CanReveal, CanRevealTrajectory, CanFreeze, Open
<1>. QED  BY <1>1 DEF TrajectoryRevealed, Labelled, Predicted

LEMMA ScoredStep ==
    ASSUME JournalInv, FrozenInv, JournalStep, abandoned \subseteq abandoned', [Next]_holdoutVars
    PROVE  Scored'
<1>1. CASE UNCHANGED report
  BY <1>1, ManifestStep, RevealedCloses DEF FrozenInv, Scored
<1>2. CASE ~UNCHANGED report
  <2>1. agent = "closed" /\ CanScore /\ report'.events = Predicted
    BY <1>2 DEF Next, holdoutVars, clientVars, history, ProxyStarts, ProxyStops, ProxyExits,
                ProxyKilled, HandlerNext, HandlerReadFails, HandlerPredicts, HandlerDispatches,
                HandlerIsAnswered, HandlerReveals, HandlerResponds, HandlerDiskError,
                OthersOfHandler, AgentStarts, AgentNext, AgentAsks, AgentReceives, AgentRetries,
                ToolStarts, ToolExecutes, ToolReveals, AgentEnds, RunFreezes,
                RunRevealsTrajectory, RunScores, AgentDiskError, AgentKilled, StartKilled, PowerLoss
  <2>2. UNCHANGED << TrajectoryRevealed, Labelled, Predicted, manifest >>
    BY <2>1, ManifestStep, RevealedCloses DEF CanScore
  <2>. QED  BY <2>1, <2>2 DEF FrozenInv, Scored, Frozen, CanScore
<1>. QED  BY <1>1, <1>2

LEMMA FrozenKept ==
    ASSUME Frozen, agent' \in {"frozen", "closed"} => agent \in {"frozen", "closed"},
           UNCHANGED manifest, abandoned \subseteq abandoned', Predicted' \subseteq Predicted \cup abandoned'
    PROVE  Frozen'
BY DEF Frozen

LEMMA FrozenStep ==
    ASSUME JournalInv, FrozenInv, JournalStep, abandoned \subseteq abandoned', [Next]_holdoutVars
    PROVE  Frozen'
<1>0. Frozen /\ Busy
  BY DEF FrozenInv
<1>1. CASE agent \notin {"frozen", "closed"} /\ agent' \in {"frozen", "closed"}
  <2>1. RunFreezes /\ FreezeManifest
    BY <1>1 DEF Next, holdoutVars, clientVars, history, ProxyStarts, ProxyStops, ProxyExits,
                ProxyKilled, HandlerNext, HandlerReadFails, HandlerPredicts, HandlerDispatches,
                HandlerIsAnswered, HandlerReveals, HandlerResponds, HandlerDiskError,
                OthersOfHandler, AgentStarts, AgentNext, AgentAsks, AgentReceives, AgentRetries,
                ToolStarts, ToolExecutes, ToolReveals, AgentEnds, RunFreezes,
                RunRevealsTrajectory, RunScores, AgentDiskError, AgentKilled, AgentGone,
                StartKilled, PowerLoss
  <2>2. manifest'.state = "frozen" /\ manifest'.events = Predicted /\ Predicted' = Predicted
    BY <2>1 DEF FreezeManifest, Predicted
  <2>. QED  BY <2>2 DEF Frozen
<1>2. CASE agent \in {"frozen", "closed"} /\ agent' \in {"frozen", "closed"}
  <2>1. UNCHANGED manifest
    BY <1>2, ManifestStep
  <2>2. CASE UNCHANGED Predicted
    BY <1>0, <1>2, <2>1, <2>2, FrozenKept
  <2>3. ASSUME NEW q \in Requests, HandlerNext(q) \/ HandlerDiskError(q), ~UNCHANGED Predicted
        PROVE  Frozen'
    <3>1. ~UNCHANGED journal
      BY <2>3 DEF Predicted
    <3>2. CASE handler[q] = "accepted" /\ CanPredict(q) /\ journal' = Append(journal, Prediction(q))
      <4>1. Predicted' = Predicted \cup {q} /\ q \in abandoned
        BY <1>0, <1>2, <3>2, PredictFits DEF Busy, AtWork, Events
      <4>. QED  BY <1>0, <1>2, <2>1, <4>1, FrozenKept
    <3>3. CASE CanReveal(q) /\ journal' = Append(journal, EventLabel(q))
      BY <2>3, <3>3, RevealFits DEF Events
    <3>. QED  BY <2>3, <3>1, <3>2, <3>3, AppendRecordStep, SpoiltStep
              DEF HandlerNext, HandlerReadFails, HandlerPredicts, HandlerDispatches,
                  HandlerIsAnswered, HandlerReveals, HandlerResponds, HandlerDiskError, journalVars
  <2>4. CASE RunRevealsTrajectory
    BY <2>2, <2>4, AppendRecordStep, TrajectoryFits DEF RunRevealsTrajectory, journalVars, Predicted
  <2>5. CASE \/ UNCHANGED holdoutVars \/ ProxyStarts \/ ProxyStops \/ ProxyExits \/ ProxyKilled
             \/ StartKilled
    BY <2>2, <2>5 DEF holdoutVars, ProxyStarts, ProxyStops, ProxyExits, ProxyKilled, StartKilled,
                      ArmTrajectory, ArmTorn, journalVars, Predicted
  <2>. QED  BY <1>2, <2>3, <2>2, <2>4, <2>5
            DEF Next, AgentStarts, AgentNext, AgentAsks, AgentReceives, AgentRetries, ToolStarts,
                ToolExecutes, ToolReveals, AgentEnds, RunFreezes, RunScores, AgentDiskError,
                AgentKilled, AgentGone, PowerLoss
<1>3. CASE agent' \notin {"frozen", "closed"}
  BY <1>3 DEF Frozen
<1>. QED  BY <1>1, <1>2, <1>3

(* What is scored was frozen before the trajectory's label was known,      *)
(* except the events of requests that the agent had given up.              *)
THEOREM ScoredEventsAreFrozen == Spec => []ScoredIsFrozen
<1>1. Init => FrozenInv
  BY InitFrozen
<1>2. HoldoutInv /\ FrozenInv /\ [Next]_holdoutVars => FrozenInv'
  <2>. SUFFICES ASSUME HoldoutInv, FrozenInv, [Next]_holdoutVars PROVE FrozenInv'
    OBVIOUS
  <2>1. Places /\ JournalInv /\ JournalStep
    BY NextJournal DEF HoldoutInv
  <2>2. Busy' /\ abandoned \subseteq abandoned'
    BY <2>1, BusyStep DEF FrozenInv
  <2>. QED  BY <2>1, <2>2, FrozenStep, ScoredStep DEF FrozenInv
<1>3. FrozenInv => ScoredIsFrozen
  BY DEF FrozenInv, Scored, ScoredIsFrozen
<1>. QED  BY <1>1, <1>2, <1>3, HoldoutInvariant, PTL DEF Spec

-----------------------------------------------------------------------------
(* Types.  The journal is as long as the events on record allow: an event  *)
(* has one prediction and one label, the trajectory one label.             *)
LengthInv ==
    Len(journal) = Cardinality(Predicted) + Cardinality(Labelled)
                     + (IF TrajectoryRevealed THEN 1 ELSE 0)

FilesTyped ==
    /\ tail \in {"whole", "unterminated", "broken"}
    /\ arm \in {"absent", "torn", "frozen"}
    /\ manifest \in [state : {"absent", "torn", "frozen"}, events : SUBSET Events]
    /\ report \in [state : {"absent", "torn", "whole"}, events : SUBSET Events]

AgentTyped ==
    /\ proxy \in {"down", "up", "stopping"}
    /\ agent \in AgentStates
    /\ asked \in Requests \cup {NoEvent}
    /\ asked # NoEvent <=> agent = "asking"
    /\ ordinal \in 0 .. Len(ToolOrder)
    /\ starts \in 0 .. MaxStarts

HistoryTyped ==
    /\ delivered \subseteq Requests /\ abandoned \subseteq Requests
    /\ lost \subseteq Events
    /\ \A r \in delivered : handler[r] = "gone"

LEMMA OnRecordAreEvents ==
    ASSUME JournalInv
    PROVE  Predicted \subseteq Events /\ Labelled \subseteq Events
BY EventsAreEvents DEF JournalInv, Predicted, Labelled, EventTypes

LEMMA RecordsAreFinite ==
    ASSUME IsFiniteSet(Events), JournalInv
    PROVE  /\ IsFiniteSet(Predicted) /\ IsFiniteSet(Labelled) /\ Cardinality(Events) \in Nat
           /\ Cardinality(Predicted) \in Nat /\ Cardinality(Predicted) <= Cardinality(Events)
           /\ Cardinality(Labelled) \in Nat /\ Cardinality(Labelled) <= Cardinality(Events)
<1>. DEFINE P == Predicted
            L == Labelled
<1>1. P \in SUBSET Events /\ L \in SUBSET Events
  BY OnRecordAreEvents
<1>. HIDE DEF P, L
<1>2. /\ IsFiniteSet(P) /\ IsFiniteSet(L) /\ Cardinality(Events) \in Nat
      /\ Cardinality(P) \in Nat /\ Cardinality(P) <= Cardinality(Events)
      /\ Cardinality(L) \in Nat /\ Cardinality(L) <= Cardinality(Events)
  BY <1>1, FS_Subset, FS_CardinalityType
<1>. QED  BY <1>2 DEF P, L

LEMMA LengthStep ==
    ASSUME IsFiniteSet(Events), JournalInv, LengthInv, JournalStep
    PROVE  LengthInv'
<1>1. CASE UNCHANGED journal
  <2>1. UNCHANGED << Predicted, Labelled, TrajectoryRevealed >>
    BY <1>1 DEF Predicted, Labelled, TrajectoryRevealed
  <2>. QED  BY <1>1, <2>1 DEF LengthInv
<1>2. TrajectoryRevealed' <=> EventsOf(journal', "trajectory_label") # {}
  BY DEF TrajectoryRevealed, EventsOf, ToSet
<1>3. \A r \in Records : Len(Append(journal, r)) = Len(journal) + 1 /\ Len(journal) \in Nat
  BY AppendProperties, LenProperties DEF JournalInv
<1>4. ASSUME NEW e \in Events, CanPredict(e), journal' = Append(journal, Prediction(e))
      PROVE  LengthInv'
  <2>1. /\ Len(journal') = Len(journal) + 1 /\ Len(journal) \in Nat
        /\ Predicted' = Predicted \cup {e} /\ Labelled' = Labelled /\ e \notin Predicted
        /\ TrajectoryRevealed' <=> TrajectoryRevealed
    BY <1>2, <1>3, <1>4, PredictFits, RevealedIs
  <2>2. Cardinality(Predicted \cup {e}) = Cardinality(Predicted) + 1
    BY <2>1, RecordsAreFinite, FS_AddElement
  <2>. QED  BY <2>1, <2>2, RecordsAreFinite DEF LengthInv
<1>5. ASSUME NEW e \in Events, CanReveal(e), journal' = Append(journal, EventLabel(e))
      PROVE  LengthInv'
  <2>1. /\ Len(journal') = Len(journal) + 1 /\ Len(journal) \in Nat
        /\ Predicted' = Predicted /\ Labelled' = Labelled \cup {e} /\ e \notin Labelled
        /\ TrajectoryRevealed' <=> TrajectoryRevealed
    BY <1>2, <1>3, <1>5, RevealFits, RevealedIs
  <2>2. Cardinality(Labelled \cup {e}) = Cardinality(Labelled) + 1
    BY <2>1, RecordsAreFinite, FS_AddElement
  <2>. QED  BY <2>1, <2>2, RecordsAreFinite DEF LengthInv
<1>6. ASSUME CanRevealTrajectory, journal' = Append(journal, TrajectoryLabel)
      PROVE  LengthInv'
  <2>1. /\ Len(journal') = Len(journal) + 1 /\ Len(journal) \in Nat
        /\ Predicted' = Predicted /\ Labelled' = Labelled
        /\ TrajectoryRevealed' /\ ~TrajectoryRevealed
    BY <1>3, <1>6, TrajectoryFits
  <2>. QED  BY <2>1, RecordsAreFinite DEF LengthInv
<1>. QED  BY <1>1, <1>4, <1>5, <1>6 DEF JournalStep

LEMMA FilesStep ==
    ASSUME JournalInv, FilesTyped, [Next]_holdoutVars
    PROVE  FilesTyped'
<1>0. Predicted \subseteq Events
  BY OnRecordAreEvents
<1>1. /\ \A record : AppendRecord(record) => tail' \in {"whole", "broken"} /\ UNCHANGED << arm, manifest >>
      /\ \A record : SpoiltBy(record) =>
            tail' \in {tail, "whole", "unterminated", "broken"} /\ UNCHANGED << arm, manifest >>
      /\ ArmTrajectory \/ ArmTorn =>
            arm' \in {"torn", "frozen"} /\ UNCHANGED << tail, manifest >>
      /\ FreezeManifest \/ ManifestTorn =>
            /\ manifest' \in [state : {"torn", "frozen"}, events : {Predicted}]
            /\ UNCHANGED << tail, arm >>
  BY DEF AppendRecord, SpoiltBy, ArmTrajectory, ArmTorn, FreezeManifest, ManifestTorn
<1>2. CASE UNCHANGED << tail, arm, manifest, report >>
  BY <1>2 DEF FilesTyped
<1>3. CASE UNCHANGED report /\ (\/ \E record : AppendRecord(record) \/ SpoiltBy(record)
                                \/ ArmTrajectory \/ ArmTorn \/ FreezeManifest \/ ManifestTorn)
  BY <1>0, <1>1, <1>3 DEF FilesTyped
<1>4. CASE UNCHANGED << tail, arm, manifest >> /\ report' \in [state : {"torn", "whole"}, events : {Predicted}]
  BY <1>0, <1>4 DEF FilesTyped
<1>5. ASSUME NEW r \in Requests, HandlerNext(r) \/ HandlerDiskError(r)
      PROVE  FilesTyped'
  <2>1. UNCHANGED report
    BY <1>5 DEF HandlerNext, HandlerReadFails, HandlerPredicts, HandlerDispatches, HandlerIsAnswered,
                HandlerReveals, HandlerResponds, HandlerDiskError, OthersOfHandler
  <2>2. \/ UNCHANGED << tail, arm, manifest >>
        \/ \E record : AppendRecord(record) \/ SpoiltBy(record)
    BY <1>5, Zenon DEF HandlerNext, HandlerReadFails, HandlerPredicts, HandlerDispatches, HandlerIsAnswered,
                HandlerReveals, HandlerResponds, HandlerDiskError, journalVars
  <2>. QED  BY <1>2, <1>3, <2>1, <2>2
<1>6. CASE AgentNext \/ AgentDiskError
  <2>1. CASE RunScores
    BY <1>2, <1>4, <2>1 DEF RunScores, journalVars
  <2>2. CASE RunFreezes
    BY <1>2, <1>3, <2>2 DEF RunFreezes, journalVars
  <2>3. CASE \/ (\E r \in Requests : AgentAsks(r)) \/ AgentReceives \/ AgentRetries
             \/ ToolStarts \/ ToolExecutes \/ ToolReveals \/ AgentEnds \/ RunRevealsTrajectory
             \/ AgentDiskError
    <3>1. UNCHANGED report
      BY <2>3 DEF AgentAsks, AgentReceives, AgentRetries, ToolStarts, ToolExecutes, ToolReveals,
                  AgentEnds, RunRevealsTrajectory, AgentDiskError
    <3>2. \/ UNCHANGED << tail, arm, manifest >>
          \/ \E record : AppendRecord(record) \/ SpoiltBy(record)
      BY <2>3, Zenon DEF AgentAsks, AgentReceives, AgentRetries, ToolStarts, ToolExecutes, ToolReveals,
                  AgentEnds, RunRevealsTrajectory, AgentDiskError, journalVars
    <3>. QED  BY <1>2, <1>3, <3>1, <3>2
  <2>. QED  BY <1>6, <2>1, <2>2, <2>3 DEF AgentNext
<1>7. CASE ProxyStarts \/ AgentStarts \/ StartKilled
  BY <1>3, <1>7 DEF ProxyStarts, AgentStarts, StartKilled, clientVars
<1>8. CASE UNCHANGED holdoutVars \/ ProxyStops \/ ProxyExits \/ ProxyKilled
  BY <1>2, <1>8 DEF holdoutVars, ProxyStops, ProxyExits, ProxyKilled, journalVars, clientVars
<1>9. CASE AgentKilled
  BY <1>2, <1>3, <1>4, <1>9 DEF AgentKilled, journalVars
<1>10. CASE PowerLoss
  <2>1. UNCHANGED report
    BY <1>10 DEF PowerLoss
  <2>2. UNCHANGED << tail, arm, manifest >> \/ \E record : SpoiltBy(record)
    BY <1>10, Zenon DEF PowerLoss
  <2>. QED  BY <1>2, <1>3, <2>1, <2>2
<1>. QED  BY <1>5, <1>6, <1>7, <1>8, <1>9, <1>10 DEF Next

LEMMA AgentTypedStep ==
    ASSUME AgentTyped, Places, [Next]_holdoutVars
    PROVE  AgentTyped'
<1>0. NoEvent \notin Requests /\ MaxStarts \in Nat /\ Len(ToolOrder) \in Nat
  BY JournalAssumption, HoldoutAssumption, LenProperties DEF Events
<1>1. CASE UNCHANGED << agent, asked, ordinal, starts >> /\ proxy' \in {"down", "up", "stopping"}
  BY <1>1 DEF AgentTyped
<1>2. ASSUME NEW r \in Requests, HandlerNext(r) \/ HandlerDiskError(r)
      PROVE  AgentTyped'
  <2>1. UNCHANGED << proxy, agent, asked, ordinal, starts >>
    BY <1>2 DEF HandlerNext, HandlerReadFails, HandlerPredicts, HandlerDispatches, HandlerIsAnswered,
                HandlerReveals, HandlerResponds, HandlerDiskError, OthersOfHandler
  <2>. QED  BY <1>1, <2>1 DEF AgentTyped
<1>3. CASE ProxyStarts \/ ProxyStops \/ ProxyExits \/ ProxyKilled
  BY <1>1, <1>3 DEF ProxyStarts, ProxyStops, ProxyExits, ProxyKilled
<1>4. CASE UNCHANGED holdoutVars \/ StartKilled
  BY <1>1, <1>4 DEF holdoutVars, StartKilled, clientVars, AgentTyped
<1>5. CASE AgentStarts
  BY <1>0, <1>5 DEF AgentStarts, AgentTyped, AgentStates
<1>6. CASE AgentNext \/ AgentDiskError
  BY <1>0, <1>6 DEF AgentNext, AgentAsks, AgentReceives, AgentRetries, ToolStarts, ToolExecutes,
                    ToolReveals, AgentEnds, RunFreezes, RunRevealsTrajectory, RunScores, AgentDiskError,
                    OthersOfAgent, AgentTyped, AgentStates, Places
<1>7. CASE AgentKilled \/ PowerLoss
  BY <1>7 DEF AgentKilled, PowerLoss, AgentGone, OthersOfAgent, AgentTyped, AgentStates
<1>. QED  BY <1>2, <1>3, <1>4, <1>5, <1>6, <1>7 DEF Next

LEMMA HistoryStep ==
    ASSUME HistoryTyped, AgentTyped, Places, [Next]_holdoutVars
    PROVE  HistoryTyped'
<1>0. Requests \subseteq Events /\ Tools \subseteq Events
  BY DEF Events
<1>1. ordinal < Len(ToolOrder) => Tool \in Events
  BY <1>0, ToolIsTool DEF Places
<1>2. ASSUME NEW r \in Requests, HandlerNext(r) \/ HandlerDiskError(r)
      PROVE  HistoryTyped'
  <2>1. /\ UNCHANGED abandoned /\ lost' \in {lost, lost \cup {r}}
        /\ handler[r] \notin {"none", "gone"}
    BY <1>2 DEF HandlerNext, HandlerReadFails, HandlerPredicts, HandlerDispatches, HandlerIsAnswered,
                HandlerReveals, HandlerResponds, HandlerDiskError, history
  <2>2. PICK place : handler' = [handler EXCEPT ![r] = place]
                     /\ (delivered' = delivered \/ (delivered' = delivered \cup {r} /\ place = "gone"))
    BY <1>2 DEF HandlerNext, HandlerReadFails, HandlerPredicts, HandlerDispatches, HandlerIsAnswered,
                HandlerReveals, HandlerResponds, HandlerDiskError, Moves, history
  <2>. QED  BY <1>0, <2>1, <2>2 DEF HistoryTyped, Places
<1>3. ASSUME delivered' = delivered,
             abandoned' \subseteq abandoned \cup Requests, lost' \subseteq lost \cup Events,
             \A q \in Requests : handler[q] = "gone" => handler'[q] = "gone"
      PROVE  HistoryTyped'
  BY <1>3 DEF HistoryTyped
<1>4. \A q \in Requests : HandlersEnd \/ PowerLoss => (handler[q] = "gone" => handler'[q] = "gone")
  BY DEF HandlersEnd, PowerLoss, AtWork
<1>5. CASE ProxyStarts \/ ProxyStops \/ ProxyExits \/ ProxyKilled
  BY <1>0, <1>3, <1>4, <1>5 DEF ProxyStarts, ProxyStops, ProxyExits, ProxyKilled, HandlersEnd, history
<1>6. CASE UNCHANGED holdoutVars \/ StartKilled \/ AgentStarts
  BY <1>3, <1>6 DEF holdoutVars, StartKilled, AgentStarts, clientVars, history
<1>7. ASSUME NEW r \in Requests, AgentAsks(r)
      PROVE  HistoryTyped'
  BY <1>3, <1>7 DEF AgentAsks, Places, history
<1>8. CASE AgentRetries
  BY <1>3, <1>8 DEF AgentRetries, AgentTyped, OthersOfAgent
<1>9. CASE \/ AgentReceives \/ ToolStarts \/ ToolExecutes \/ ToolReveals \/ AgentEnds
           \/ RunFreezes \/ RunRevealsTrajectory \/ RunScores
  BY <1>3, <1>9 DEF AgentReceives, ToolStarts, ToolExecutes, ToolReveals, AgentEnds,
                    RunFreezes, RunRevealsTrajectory, RunScores, history
<1>10. CASE AgentDiskError
  BY <1>1, <1>3, <1>10 DEF AgentDiskError, Places
<1>11. CASE AgentKilled
  BY <1>1, <1>3, <1>11 DEF AgentKilled, AgentGone, AgentTyped, Places
<1>12. CASE PowerLoss
  <2>1. lost' \subseteq lost \cup Events
    BY <1>0, <1>12 DEF PowerLoss
  <2>2. delivered' = delivered /\ abandoned' \subseteq abandoned \cup Requests
    BY <1>12 DEF PowerLoss, AgentGone, AgentTyped
  <2>. QED  BY <1>3, <1>4, <1>12, <2>1, <2>2
<1>. QED  BY <1>2, <1>5, <1>6, <1>7, <1>8, <1>9, <1>10, <1>11, <1>12 DEF Next, AgentNext

TypesInv == LengthInv /\ FilesTyped /\ AgentTyped /\ HistoryTyped

LEMMA InitTypes == ASSUME IsFiniteSet(Events) PROVE Init => TypesInv
<1>. SUFFICES ASSUME Init PROVE TypesInv
  OBVIOUS
<1>1. journal = << >> /\ DOMAIN journal = {}
  BY EmptySeq DEF Init, JournalInit
<1>2. Predicted = {} /\ Labelled = {} /\ TrajectoryRevealed = FALSE
  BY <1>1 DEF Predicted, Labelled, EventsOf, ToSet, TrajectoryRevealed
<1>3. LengthInv
  BY <1>1, <1>2, FS_EmptySet, EmptySeq DEF LengthInv
<1>4. FilesTyped
  BY DEF Init, JournalInit, FilesTyped
<1>5. AgentTyped
  BY HoldoutAssumption, LenProperties DEF Init, AgentTyped, AgentStates
<1>6. HistoryTyped
  BY DEF Init, HistoryTyped
<1>. QED  BY <1>3, <1>4, <1>5, <1>6 DEF TypesInv

(* In a trajectory of finitely many requests and tool calls every file,    *)
(* process and history variable keeps its shape, and the journal never     *)
(* holds more than a prediction and a label for each event and one label   *)
(* for the trajectory, whatever is retried, killed or cut off.             *)
THEOREM HoldoutTypes ==
    ASSUME IsFiniteSet(Events)
    PROVE  Spec => []HoldoutTypeOK
<1>1. Init => TypesInv
  BY InitTypes
<1>2. HoldoutInv /\ TypesInv /\ [Next]_holdoutVars => TypesInv'
  BY NextJournal, LengthStep, FilesStep, AgentTypedStep, HistoryStep DEF HoldoutInv, TypesInv
<1>3. HoldoutInv /\ TypesInv => HoldoutTypeOK
  <2>. SUFFICES ASSUME HoldoutInv, TypesInv PROVE HoldoutTypeOK
    OBVIOUS
  <2>. DEFINE Shapes == [type : {"event_prediction", "event_label", "trajectory_label"},
                         event : Events \cup {NoEvent}, boot : 1 .. 2]
  <2>1. journal \in Seq(Records) /\ Records \subseteq Shapes
    BY DEF HoldoutInv, JournalInv, Records, EventTypes
  <2>2. journal \in Seq(Shapes)
    <3>. HIDE DEF Shapes
    <3>. QED  BY <2>1
  <2>3. Len(journal) <= 2 * Cardinality(Events) + 1
    BY RecordsAreFinite DEF HoldoutInv, TypesInv, LengthInv
  <2>4. executed \subseteq Events
    BY OnRecordAreEvents DEF HoldoutInv, Effects
  <2>5. /\ boot \in 1 .. 2 /\ handler \in [Requests -> HandlerStates]
        /\ agent \in {"acting", "acted"} => ordinal < Len(ToolOrder)
    BY DEF HoldoutInv, JournalInv, Places
  <2>. QED  BY <2>2, <2>3, <2>4, <2>5
            DEF TypesInv, FilesTyped, AgentTyped, HistoryTyped, HoldoutTypeOK
<1>. QED  BY <1>1, <1>2, <1>3, HoldoutInvariant, PTL DEF Spec
=============================================================================
