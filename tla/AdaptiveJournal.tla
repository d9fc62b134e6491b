--------------------------- MODULE AdaptiveJournal ---------------------------
(***************************************************************************)
(* The journal of one adaptive held-out trajectory                         *)
(* (scripts/assignment/adaptive_event_protocol.py): every operation takes  *)
(* the protocol's file lock, reads and validates the whole journal, and    *)
(* appends at most one record; an arm file, a manifest of predictions and  *)
(* their sidecars stand beside it.                                         *)
(*                                                                         *)
(* An operation is one step here, since all of it runs under the lock.     *)
(* What is left of it when it is cut short is in SpoiltBy and in the torn  *)
(* states of the frozen files.                                             *)
(***************************************************************************)
EXTENDS Naturals, SequencesExt, FiniteSetsExt

CONSTANTS
    Requests,   \* identifiers of model events: one per request to the proxy
    Tools,      \* identifiers of tool events, numbered by the hook
    NoEvent

Events == Requests \cup Tools

ASSUME JournalAssumption ==
    /\ Requests \cap Tools = {}
    /\ NoEvent \notin Events

VARIABLES
    journal,    \* the records of adaptive_events.jsonl
    tail,       \* how its last line ends
    arm,        \* trajectory_arm.json and its sidecar
    manifest,   \* adaptive_prediction_manifest.json and the events it freezes
    boot        \* the boot whose clock is running

journalVars == << journal, tail, arm, manifest, boot >>

Prediction(e) == [type |-> "event_prediction", event |-> e, boot |-> boot]
EventLabel(e) == [type |-> "event_label", event |-> e, boot |-> boot]
TrajectoryLabel == [type |-> "trajectory_label", event |-> NoEvent, boot |-> boot]

JournalInit ==
    /\ journal = << >>
    /\ tail = "whole"
    /\ arm = "absent"
    /\ manifest = [state |-> "absent", events |-> {}]
    /\ boot = 1

-----------------------------------------------------------------------------
EventsOf(j, type) == {r.event : r \in {s \in ToSet(j) : s.type = type}}
Predicted == EventsOf(journal, "event_prediction")
Labelled == EventsOf(journal, "event_label")
TrajectoryRevealed == \E i \in DOMAIN journal : journal[i].type = "trajectory_label"

(* _pending: the last event record, if it is a prediction.                 *)
PendingOf(j) ==
    LET ofEvents == {i \in DOMAIN j : j[i].type # "trajectory_label"}
    IN IF ofEvents = {} \/ j[Max(ofEvents)].type = "event_label"
       THEN NoEvent
       ELSE j[Max(ofEvents)].event

Pending == PendingOf(journal)

(* What _load_journal demands of the order of records...                   *)
InOrder(j) ==
    \A i \in DOMAIN j :
        LET before == SubSeq(j, 1, i - 1)
        IN CASE j[i].type = "event_prediction" ->
                  /\ EventsOf(before, "trajectory_label") = {}
                  /\ PendingOf(before) = NoEvent
                  /\ j[i].event \notin EventsOf(before, "event_prediction")
             [] j[i].type = "event_label" ->
                  /\ EventsOf(before, "trajectory_label") = {}
                  /\ PendingOf(before) = j[i].event
             [] OTHER ->
                  /\ EventsOf(before, "trajectory_label") = {}
                  /\ PendingOf(before) = NoEvent

(* ...and of their clock witnesses.                                        *)
OneBoot(j) == \A i, k \in DOMAIN j : j[i].boot = j[k].boot

Loadable == tail # "broken" /\ InOrder(journal) /\ OneBoot(journal)

(* What precedes every operation on events: the journal loads, _arm        *)
(* verifies, and the trajectory label is not there.                        *)
Open == Loadable /\ arm = "frozen" /\ ~TrajectoryRevealed

(* Mutant: predicts while the label of another event is outstanding.       *)
PredictsOverPending(e) ==
    /\ Open
    /\ e \notin Predicted

CanPredict(e) ==
    /\ Open
    /\ e \notin Predicted
    /\ Pending = NoEvent

(* The same identifier with the same features gives the existing record.   *)
CanReplay(e) == Open /\ e \in Predicted

CanReveal(e) == Open /\ Pending = e

(* Re-entry is allowed with identical content only.                        *)
CanFreeze ==
    /\ Open
    /\ Pending = NoEvent
    /\ Predicted # {}
    /\ \/ manifest.state = "absent"
       \/ manifest = [state |-> "frozen", events |-> Predicted]

(* Mutant: reveals the trajectory whatever event is outstanding.           *)
RevealsTrajectoryEarly == Open /\ manifest.state = "frozen"

CanRevealTrajectory ==
    /\ Open
    /\ Pending = NoEvent
    /\ manifest.state = "frozen"

CanScore ==
    /\ Loadable
    /\ manifest.state = "frozen"
    /\ TrajectoryRevealed
    /\ Labelled = Predicted

-----------------------------------------------------------------------------
(* _append: a whole line; it is lost in the previous one if that has no    *)
(* newline.                                                                *)
AppendRecord(record) ==
    /\ journal' = Append(journal, record)
    /\ tail' = IF tail = "unterminated" THEN "broken" ELSE "whole"
    /\ UNCHANGED << arm, manifest, boot >>

(* An append that raises or is cut off by a loss of power: nothing, a part *)
(* of the line, all but its newline, or all of it has reached the disk.    *)
SpoiltBy(record) ==
    /\ \/ UNCHANGED << journal, tail >>
       \/ (tail' = "broken" /\ UNCHANGED journal)
       \/ /\ tail = "whole"
          /\ tail' = "unterminated"
          /\ journal' = Append(journal, record)
       \/ /\ tail' = IF tail = "unterminated" THEN "broken" ELSE "whole"
          /\ journal' = Append(journal, record)
    /\ UNCHANGED << arm, manifest >>

(* arm_trajectory: an existing arm must verify, and a journal needs one.   *)
CanArm == Loadable /\ (arm = "frozen" \/ (arm = "absent" /\ journal = << >>))

ArmTrajectory ==
    /\ CanArm
    /\ arm' = "frozen"
    /\ UNCHANGED << journal, tail, manifest, boot >>

(* Killed between the file and its sidecar.                                *)
ArmTorn ==
    /\ CanArm /\ arm = "absent"
    /\ arm' = "torn"
    /\ UNCHANGED << journal, tail, manifest, boot >>

(* Mutant: takes the manifest of an earlier start for its own.             *)
FreezesOnce ==
    /\ Open /\ Pending = NoEvent /\ Predicted # {}
    /\ manifest.state # "torn"
    /\ manifest' = IF manifest.state = "frozen" THEN manifest
                   ELSE [state |-> "frozen", events |-> Predicted]
    /\ UNCHANGED << journal, tail, arm, boot >>

FreezeManifest ==
    /\ CanFreeze
    /\ manifest' = [state |-> "frozen", events |-> Predicted]
    /\ UNCHANGED << journal, tail, arm, boot >>

ManifestTorn ==
    /\ CanFreeze /\ manifest.state = "absent"
    /\ manifest' = [state |-> "torn", events |-> Predicted]
    /\ UNCHANGED << journal, tail, arm, boot >>

-----------------------------------------------------------------------------
(* An event is where its records say it is.                                *)
Stages ==
    LET predicted == Predicted
        labelled == Labelled
    IN [e \in Events |-> CASE e \in labelled -> "labelled"
                            [] e \in predicted \ labelled -> "predicted"
                            [] OTHER -> "open"]

EventOrder == INSTANCE EventOrder WITH
    stage <- Stages,
    revealed <- TrajectoryRevealed
=============================================================================
