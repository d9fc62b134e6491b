------------------------- MODULE QueueLeases_proofs -------------------------
(***************************************************************************)
(* Leases and processes in the shared case queue: whatever the calls, the  *)
(* supervisors, the guardians, the operators and the faults do, a runner   *)
(* lives under an active attempt, an orphan is dead, and no worker serves  *)
(* two runners.  Neither of these is inductive; LeaseInv adds what a call  *)
(* in progress and a supervisor past its completion know.                  *)
(***************************************************************************)
EXTENDS SharedCaseQueue_proofs

-----------------------------------------------------------------------------
(* Types of the calls and of the evidence.                                 *)

ContentsOf(source) == IF source = "result" THEN ResultContents ELSE FailureContents

CallTypes ==
    /\ call \in [AttemptIds -> Calls]
    /\ \A a \in AttemptIds :
          /\ call[a].at = "result" => call[a].source = "result"
          /\ call[a].at = "failure" => call[a].source = "failure"
          /\ call[a].content \in ContentsOf(call[a].source)

LaunchHolds == LaunchTypeOK /\ LaunchShape

QueueTypes == LedgerInv /\ LaunchHolds /\ OwnersHold /\ CallTypes /\ EvidenceTypeOK

LEMMA NoCallTypes == NoCall \in Calls /\ NoCall.content \in ContentsOf(NoCall.source)
BY DEF NoCall, Calls, Sources, ContentsOf, ResultContents, ExitCodes, LaunchStates

LEMMA DroppedTypes ==
    ASSUME CallTypes,
           call' = [a \in AttemptIds |-> call'[a]],
           \A a \in AttemptIds : call'[a] \in {call[a], NoCall}
    PROVE  CallTypes'
<1>1. \A a \in AttemptIds : call'[a] \in Calls
  BY NoCallTypes DEF CallTypes
<1>2. call' \in [AttemptIds -> Calls]
  BY <1>1
<1>. QED  BY <1>2, NoCallTypes DEF CallTypes, NoCall

LEMMA EndedTypes ==
    ASSUME CallTypes, NEW a \in AttemptIds, call' = [call EXCEPT ![a] = NoCall]
    PROVE  CallTypes'
BY DroppedTypes DEF CallTypes

LEMMA MovedTypes ==
    ASSUME CallTypes, NEW a \in AttemptIds,
           NEW at \in {"manifest", "seal", "commit", "block", "requeue"}, MoveTo(a, at)
    PROVE  CallTypes'
<1>1. call' = [call EXCEPT ![a].at = at]
  BY DEF MoveTo
<1>2. call'[a] = [call[a] EXCEPT !.at = at] /\ call[a] \in Calls
  BY <1>1 DEF CallTypes
<1>3. /\ call'[a] \in Calls /\ call'[a].at = at
      /\ call'[a].source = call[a].source /\ call'[a].content = call[a].content
  BY <1>2 DEF Calls
<1>. QED  BY <1>1, <1>3 DEF CallTypes

LEMMA EnteredTypes ==
    ASSUME QueueTypes, NEW a \in AttemptIds,
           NEW by \in {"owner", "operator"},
           NEW kind \in {"finish", "fail", "inspect", "accept", "retry"},
           NEW at \in {"result", "failure", "manifest", "block"},
           NEW source \in Sources, NEW content \in ContentsOf(source),
           NEW code \in ExitCodes \cup {"none"},
           at = "result" => source = "result", at = "failure" => source = "failure",
           EnterCall(a, by, kind, at, source, content, code)
    PROVE  CallTypes'
<1>. DEFINE entered == [by |-> by, kind |-> kind, at |-> at, source |-> source,
                        content |-> content, code |-> code,
                        launch |-> launchState[a], sealed |-> outcome[a] # "none"]
<1>1. call' = [call EXCEPT ![a] = entered]
  BY DEF EnterCall
<1>2. launchState[a] \in LaunchStates /\ content \in ResultContents \cup FailureContents
  BY QueueAssumption DEF QueueTypes, LaunchHolds, LaunchTypeOK, ContentsOf
<1>3. entered \in Calls
  BY <1>2 DEF Calls
<1>. QED  BY <1>1, <1>3 DEF QueueTypes, CallTypes

-----------------------------------------------------------------------------
(* The evidence is written in six ways only.                               *)
EvidenceMove ==
    \/ UNCHANGED evidenceVars
    \/ \E a \in AttemptIds :
          \/ \E content \in ResultContents : WriteResult(a, content)
          \/ \E content \in FailureContents : WriteFailure(a, content)
          \/ \E item \in OwnerRecords : WriteOwnerRecord(a, item)
          \/ \E content \in {"intact", "torn"} : WriteLease(a, content)
          \/ \E body \in Inventories : WriteManifest(a, body)
          \/ SealManifest(a)

LEMMA EvidenceTypes ==
    ASSUME EvidenceTypeOK, EvidenceMove
    PROVE  EvidenceTypeOK'
<1>. USE QueueAssumption DEF EvidenceTypeOK
<1>1. CASE UNCHANGED evidenceVars
  BY <1>1 DEF evidenceVars
<1>2. ASSUME NEW a \in AttemptIds
      PROVE  /\ \A content \in ResultContents : WriteResult(a, content) => EvidenceTypeOK'
             /\ \A content \in FailureContents : WriteFailure(a, content) => EvidenceTypeOK'
             /\ \A item \in OwnerRecords : WriteOwnerRecord(a, item) => EvidenceTypeOK'
             /\ \A content \in {"intact", "torn"} : WriteLease(a, content) => EvidenceTypeOK'
  <2>1. ASSUME NEW content \in ResultContents, WriteResult(a, content)
        PROVE  EvidenceTypeOK'
    BY <2>1 DEF WriteResult
  <2>2. ASSUME NEW content \in FailureContents, WriteFailure(a, content)
        PROVE  EvidenceTypeOK'
    BY <2>2 DEF WriteFailure
  <2>3. ASSUME NEW item \in OwnerRecords, WriteOwnerRecord(a, item)
        PROVE  EvidenceTypeOK'
    BY <2>3 DEF WriteOwnerRecord
  <2>4. ASSUME NEW content \in {"intact", "torn"}, WriteLease(a, content)
        PROVE  EvidenceTypeOK'
    BY <2>4 DEF WriteLease
  <2>. QED  BY <2>1, <2>2, <2>3, <2>4
<1>3. ASSUME NEW a \in AttemptIds, NEW body \in Inventories, WriteManifest(a, body)
      PROVE  EvidenceTypeOK'
  BY <1>3 DEF WriteManifest
<1>4. ASSUME NEW a \in AttemptIds, SealManifest(a)
      PROVE  EvidenceTypeOK'
  BY <1>4 DEF SealManifest
<1>. QED  BY <1>1, <1>2, <1>3, <1>4 DEF EvidenceMove

LEMMA InventoryTypes ==
    ASSUME EvidenceTypeOK, NEW a \in AttemptIds, NEW source \in Sources, NEW launch \in LaunchStates
    PROVE  Inventory(a, source, launch) \in Inventories
BY QueueAssumption DEF EvidenceTypeOK, Inventory, Inventories

LEMMA ReceiptTypes ==
    ASSUME LaunchHolds, NEW a \in AttemptIds
    PROVE  Receipt(a) \in ExitCodes \cup {"none"}
BY QueueAssumption DEF LaunchHolds, LaunchShape, Receipt

(* The ways a call begins.                                                 *)
LEMMA FinishTypes ==
    ASSUME QueueTypes, NEW a \in AttemptIds, NEW by \in {"owner", "operator"},
           NEW supplied \in ResultContents, NEW code \in ExitCodes \cup {"none"},
           FinishBegins(a, by, supplied, code)
    PROVE  CallTypes' /\ EvidenceMove
<1>1. resultFile[a] \in ResultContents /\ "torn" \in ResultContents
  BY QueueAssumption DEF QueueTypes, EvidenceTypeOK, ResultContents
<1>2. "result" \in Sources /\ ContentsOf("result") = ResultContents
  BY DEF Sources, ContentsOf
<1>3. CASE /\ WriteResult(a, "torn")
           /\ EnterCall(a, by, "finish", "result", "result", supplied, code)
  BY <1>1, <1>2, <1>3, EnteredTypes DEF EvidenceMove
<1>4. CASE /\ UNCHANGED evidenceVars
           /\ \E at \in {"manifest", "block"} :
                 EnterCall(a, by, "finish", at, "result", resultFile[a], code)
  BY <1>1, <1>2, <1>4, EnteredTypes DEF EvidenceMove
<1>. QED  BY <1>3, <1>4, Zenon DEF FinishBegins

LEMMA FailTypes ==
    ASSUME QueueTypes, NEW a \in AttemptIds, NEW by \in {"owner", "operator"},
           NEW kind \in FailureKinds, FailBegins(a, by, kind)
    PROVE  CallTypes' /\ EvidenceMove
<1>1. "torn" \in FailureContents /\ kind \in FailureContents
  BY DEF FailureContents
<1>2. "failure" \in Sources /\ ContentsOf("failure") = FailureContents
  BY DEF Sources, ContentsOf
<1>3. CASE WriteFailure(a, "torn") /\ EnterCall(a, by, "fail", "failure", "failure", kind, "none")
  BY <1>1, <1>2, <1>3, EnteredTypes DEF EvidenceMove
<1>4. CASE /\ UNCHANGED evidenceVars
           /\ \E at \in {"manifest", "block"} :
                 EnterCall(a, by, "fail", at, "failure", kind, "none")
  BY <1>1, <1>2, <1>4, EnteredTypes DEF EvidenceMove
<1>. QED  BY <1>3, <1>4, Zenon DEF FailBegins

LEMMA RecoverTypes ==
    ASSUME QueueTypes, NEW a \in AttemptIds, NEW action \in {"inspect", "accept", "retry"},
           RecoverBegins(a, action)
    PROVE  CallTypes' /\ EvidenceMove
<1>1. resultFile[a] \in ResultContents /\ failureFile[a] \in FailureContents
  BY QueueAssumption DEF QueueTypes, EvidenceTypeOK
<1>2. /\ "result" \in Sources /\ ContentsOf("result") = ResultContents
      /\ "failure" \in Sources /\ ContentsOf("failure") = FailureContents
      /\ {"torn", "crash"} \subseteq FailureContents
  BY DEF Sources, ContentsOf, FailureContents, FailureKinds
<1>3. CASE /\ UNCHANGED evidenceVars
           /\ \E at \in {"manifest", "block"} :
                 EnterCall(a, "operator", action, at, "result", resultFile[a], "none")
  BY <1>1, <1>2, <1>3, EnteredTypes DEF EvidenceMove
<1>4. CASE /\ UNCHANGED evidenceVars
           /\ \E at \in {"manifest", "block"} :
                 EnterCall(a, "operator", action, at, "failure", failureFile[a], "none")
  BY <1>1, <1>2, <1>4, EnteredTypes DEF EvidenceMove
<1>5. CASE /\ WriteFailure(a, "torn")
           /\ EnterCall(a, "operator", action, "failure", "failure", "crash", "none")
  BY <1>1, <1>2, <1>5, EnteredTypes DEF EvidenceMove
<1>. QED  BY <1>3, <1>4, <1>5, Zenon DEF RecoverBegins

(* The steps of a call write what its type allows, and move it or end it.  *)
CallMovesOn(a) ==
    \/ \E at \in {"manifest", "seal", "commit", "block", "requeue"} : MoveTo(a, at)
    \/ \E result : EndCall(a, result)

LEMMA CallStepMovesOn ==
    ASSUME NEW a \in AttemptIds, CallStep(a)
    PROVE  CallMovesOn(a)
<1>1. ASSUME AfterManifest(a)
      PROVE  CallMovesOn(a)
  BY <1>1, Zenon DEF AfterManifest, CallMovesOn
<1>2. CASE CallWritesSidecar(a)
  BY <1>2, Zenon DEF CallWritesSidecar, CallMovesOn
<1>3. CASE CallWritesManifest(a)
  BY <1>1, <1>3, Zenon DEF CallWritesManifest, CallMovesOn
<1>4. CASE CallSealsManifest(a)
  BY <1>1, <1>4, Zenon DEF CallSealsManifest
<1>5. CASE CallCommits(a)
  BY <1>5, Zenon DEF CallCommits, CallMovesOn
<1>6. CASE CallBlocks(a)
  BY <1>6, Zenon DEF CallBlocks, CallMovesOn
<1>7. CASE CallRequeues(a)
  BY <1>7, Zenon DEF CallRequeues, CallMovesOn
<1>. QED  BY <1>2, <1>3, <1>4, <1>5, <1>6, <1>7 DEF CallStep

LEMMA CallStepTypes ==
    ASSUME QueueTypes, NEW a \in AttemptIds, CallStep(a)
    PROVE  CallTypes' /\ EvidenceMove
<1>. DEFINE body == Inventory(a, call[a].source, call[a].launch)
<1>1. CallTypes'
  <2>1. ASSUME NEW result, EndCall(a, result)
        PROVE  CallTypes'
    BY <2>1, EndedTypes DEF EndCall, QueueTypes
  <2>. QED  BY <2>1, CallStepMovesOn, MovedTypes DEF CallMovesOn, QueueTypes
<1>2. call[a] \in Calls /\ body \in Inventories
  BY InventoryTypes DEF QueueTypes, CallTypes, Calls
<1>3. CASE CallWritesSidecar(a)
  <2>1. \/ WriteResult(a, call[a].content) /\ call[a].at = "result"
        \/ WriteFailure(a, call[a].content) /\ call[a].at = "failure"
    BY <1>3 DEF CallWritesSidecar
  <2>2. /\ call[a].at = "result" => call[a].content \in ResultContents
        /\ call[a].at = "failure" => call[a].content \in FailureContents
    BY DEF QueueTypes, CallTypes, ContentsOf
  <2>. QED  BY <1>1, <2>1, <2>2 DEF EvidenceMove
<1>4. CASE CallWritesManifest(a)
  <2>1. WriteManifest(a, body) \/ UNCHANGED evidenceVars
    BY <1>4, Zenon DEF CallWritesManifest
  <2>. HIDE DEF body
  <2>. QED  BY <1>1, <1>2, <2>1 DEF EvidenceMove
<1>5. CASE CallSealsManifest(a)
  BY <1>1, <1>5 DEF CallSealsManifest, EvidenceMove
<1>6. CASE CallCommits(a) \/ CallBlocks(a) \/ CallRequeues(a)
  BY <1>1, <1>6 DEF CallCommits, CallBlocks, CallRequeues, EvidenceMove
<1>. QED  BY <1>3, <1>4, <1>5, <1>6 DEF CallStep

-----------------------------------------------------------------------------
(* What a step does to the calls: it begins one, carries one on, drops     *)
(* some or leaves them alone.  Only the last kind of step, outside every   *)
(* call, is taken by supervisors, guardians and runners at work.           *)
CallBegins(a) ==
    \/ \E by \in {"owner", "operator"}, supplied \in ResultContents,
          code \in ExitCodes \cup {"none"} : FinishBegins(a, by, supplied, code)
    \/ \E by \in {"owner", "operator"}, kind \in FailureKinds : FailBegins(a, by, kind)
    \/ \E action \in {"inspect", "accept", "retry"} : RecoverBegins(a, action)

OwnerBegins(s) ==
    /\ \/ /\ supState[s] = "finish"
          /\ FinishBegins(supAttempt[s], "owner", "absent", Receipt(supAttempt[s]))
       \/ /\ supState[s] = "fail"
          /\ FailBegins(supAttempt[s], "owner", IF timedOut[s] THEN "timeout" ELSE "no_result")
    /\ GoTo(s, "settle")

OperatorBegins(a) == OperatorFinishes(a) \/ OperatorFails(a) \/ OperatorRecovers(a)

CallsDrop ==
    /\ UNCHANGED << ledgerVars, evidenceVars, workerEnabled >>
    /\ \/ \E s \in Supervisors : SupervisorCrashes(s)
       \/ \E a \in AttemptIds : CallerCrashes(a)
       \/ MachineReboots

OutsideCalls ==
    /\ UNCHANGED call
    /\ \/ \E s \in Supervisors : \/ SupervisorReconciles(s) \/ SupervisorClaims(s)
                                 \/ SupervisorRecordsCommand(s) \/ SupervisorBeginsLaunch(s)
                                 \/ SupervisorSpawns(s) \/ SupervisorStopsWatching(s)
                                 \/ SupervisorCollects(s) \/ SupervisorDecides(s)
                                 \/ SupervisorStarts(s) \/ SupervisorTimesOut(s)
                                 \/ /\ supState[s] \in {"finish", "fail"}
                                    /\ Leave(s, "down")
                                    /\ UNCHANGED << ledgerVars, launchVars, evidenceVars,
                                                    workerEnabled >>
       \/ \E a \in AttemptIds : \/ GuardianStep(a) \/ RunnerWrites(a) \/ RunnerEnds(a)
                                \/ OperatorReconciles(a) \/ OperatorRetries(a)
                                \/ OperatorAudits(a) \/ GuardianCrashes(a) \/ GuardianRaises(a)
       \/ OperatorClearsHalt
       \/ UNCHANGED vars

LEMMA StepSources ==
    ASSUME [Next]_vars
    PROVE  \/ \E s \in Supervisors : OwnerBegins(s)
           \/ \E a \in AttemptIds : OperatorBegins(a)
           \/ \E a \in AttemptIds : CallStep(a)
           \/ CallsDrop
           \/ OutsideCalls
<1>1. CASE UNCHANGED vars
  BY <1>1 DEF vars, OutsideCalls
<1>2. ASSUME NEW s \in Supervisors, SupervisorSettles(s)
      PROVE  OutsideCalls \/ OwnerBegins(s)
  BY <1>2, Zenon DEF SupervisorSettles, OwnerBegins, OutsideCalls
<1>3. ASSUME NEW a \in AttemptIds, OperatorFinishes(a) \/ OperatorFails(a) \/ OperatorRecovers(a)
      PROVE  OperatorBegins(a)
  BY <1>3 DEF OperatorBegins
<1>4. ASSUME NEW s \in Supervisors,
             \/ SupervisorReconciles(s) \/ SupervisorClaims(s) \/ SupervisorRecordsCommand(s)
             \/ SupervisorBeginsLaunch(s) \/ SupervisorSpawns(s) \/ SupervisorStopsWatching(s)
             \/ SupervisorCollects(s) \/ SupervisorDecides(s) \/ SupervisorStarts(s)
             \/ SupervisorTimesOut(s)
      PROVE  OutsideCalls
  <2>1. UNCHANGED call
    BY <1>4 DEF SupervisorReconciles, SupervisorClaims, SupervisorRecordsCommand,
       SupervisorBeginsLaunch, SupervisorSpawns, SupervisorStopsWatching, SupervisorCollects,
       SupervisorDecides, SupervisorStarts, SupervisorTimesOut
  <2>. QED  BY <1>4, <2>1, Zenon DEF OutsideCalls
<1>5. ASSUME NEW a \in AttemptIds,
             \/ GuardianStep(a) \/ RunnerWrites(a) \/ RunnerEnds(a)
             \/ OperatorReconciles(a) \/ OperatorRetries(a) \/ OperatorAudits(a)
             \/ GuardianCrashes(a) \/ GuardianRaises(a)
      PROVE  OutsideCalls
  <2>1. UNCHANGED call
    BY <1>5 DEF GuardianStep, GuardianBinds, GuardianUpdatesLease, GuardianStartsRunner,
       GuardianRecordsExit, GuardianEnds, RunnerWrites, RunnerEnds, OperatorReconciles,
       OperatorRetries, OperatorAudits, GuardianCrashes, GuardianRaises
  <2>. QED  BY <1>5, <2>1, Zenon DEF OutsideCalls
<1>6. CASE OperatorClearsHalt
  BY <1>6 DEF OperatorClearsHalt, OutsideCalls
<1>7. ASSUME \/ \E s \in Supervisors : SupervisorCrashes(s)
             \/ \E a \in AttemptIds : CallerCrashes(a)
             \/ MachineReboots
      PROVE  CallsDrop
  BY <1>7 DEF CallsDrop, SupervisorCrashes, CallerCrashes, MachineReboots
<1>. QED
  BY <1>1, <1>2, <1>3, <1>4, <1>5, <1>6, <1>7, Zenon
     DEF Next, Uninterrupted, Interruption, CampaignFault, SupervisorStep, OperatorStep

LEMMA BeginKinds ==
    ASSUME LaunchHolds, OwnersHold
    PROVE  /\ \A s \in Supervisors : OwnerBegins(s) => /\ supAttempt[s] \in AttemptIds
                                                     /\ CallBegins(supAttempt[s])
           /\ \A a \in AttemptIds : OperatorBegins(a) => CallBegins(a)
<1>1. ASSUME NEW s \in Supervisors, OwnerBegins(s)
      PROVE  supAttempt[s] \in AttemptIds /\ CallBegins(supAttempt[s])
  <2>. DEFINE a == supAttempt[s]
  <2>1. a \in AttemptIds
    BY <1>1 DEF OwnerBegins, OwnersHold, Owning, SupervisorStates
  <2>2. /\ Receipt(a) \in ExitCodes \cup {"none"}
        /\ "absent" \in ResultContents
        /\ (IF timedOut[s] THEN "timeout" ELSE "no_result") \in FailureKinds
    BY <2>1, ReceiptTypes DEF ResultContents, FailureKinds
  <2>3. CASE FinishBegins(a, "owner", "absent", Receipt(a))
    <3>1. CallBegins(a)
      <4>. HIDE DEF a
      <4>. QED  BY <2>1, <2>2, <2>3, Zenon DEF CallBegins
    <3>. QED  BY <2>1, <3>1
  <2>4. CASE FailBegins(a, "owner", IF timedOut[s] THEN "timeout" ELSE "no_result")
    <3>1. CallBegins(a)
      <4>. HIDE DEF a
      <4>. QED  BY <2>1, <2>2, <2>4, Zenon DEF CallBegins
    <3>. QED  BY <2>1, <3>1
  <2>. QED  BY <1>1, <2>1, <2>3, <2>4 DEF OwnerBegins
<1>2. ASSUME NEW a \in AttemptIds, OperatorBegins(a)
      PROVE  CallBegins(a)
  <2>1. Results \cup {"absent"} \subseteq ResultContents
    BY QueueAssumption DEF ResultContents
  <2>2. {"reported", "reported_capture"} \subseteq FailureKinds
    BY DEF FailureKinds
  <2>. QED  BY <1>2, <2>1, <2>2
            DEF OperatorBegins, OperatorFinishes, OperatorFails, OperatorRecovers, CallBegins
<1>. QED  BY <1>1, <1>2

LEMMA StepKinds ==
    ASSUME LaunchHolds, OwnersHold, [Next]_vars
    PROVE  \/ \E a \in AttemptIds : CallBegins(a)
           \/ \E a \in AttemptIds : CallStep(a)
           \/ CallsDrop
           \/ OutsideCalls
BY StepSources, BeginKinds

LEMMA DropsTypes ==
    ASSUME CallTypes, CallsDrop
    PROVE  CallTypes' /\ \A a \in AttemptIds : call'[a] \in {call[a], NoCall}
<1>1. /\ call' = [a \in AttemptIds |-> call'[a]]
      /\ \A a \in AttemptIds : call'[a] \in {call[a], NoCall}
  <2>1. ASSUME NEW s \in Supervisors, SupervisorCrashes(s)
        PROVE  <1>1!1 /\ <1>1!2
    BY <2>1, Zenon DEF SupervisorCrashes
  <2>2. ASSUME NEW a \in AttemptIds, CallerCrashes(a)
        PROVE  <1>1!1 /\ <1>1!2
    BY <2>2 DEF CallerCrashes, CallTypes
  <2>3. CASE MachineReboots
    BY <2>3, Zenon DEF MachineReboots
  <2>. QED  BY <2>1, <2>2, <2>3 DEF CallsDrop
<1>. QED  BY <1>1, DroppedTypes

LEMMA OutsideEvidence ==
    ASSUME QueueTypes, OutsideCalls
    PROVE  EvidenceMove
<1>1. ASSUME NEW s \in Supervisors, SupervisorRecordsCommand(s) \/ SupervisorCollects(s)
      PROVE  EvidenceMove
  <2>1. supAttempt[s] \in AttemptIds
    BY <1>1 DEF SupervisorRecordsCommand, SupervisorCollects, QueueTypes, OwnersHold,
       Owning, SupervisorStates
  <2>2. \/ \E item \in {"command", "exit"} : WriteOwnerRecord(supAttempt[s], item)
        \/ UNCHANGED evidenceVars
    BY <1>1, Zenon DEF SupervisorRecordsCommand, SupervisorCollects
  <2>. QED  BY <2>1, <2>2 DEF EvidenceMove, OwnerRecords
<1>2. ASSUME NEW a \in AttemptIds, GuardianUpdatesLease(a)
      PROVE  EvidenceMove
  BY <1>2 DEF GuardianUpdatesLease, BindReturns, EvidenceMove
<1>3. ASSUME NEW a \in AttemptIds, RunnerWrites(a)
      PROVE  EvidenceMove
  <2>1. Results \cup {"torn"} \subseteq ResultContents
    BY QueueAssumption DEF ResultContents
  <2>. QED  BY <1>3, <2>1 DEF RunnerWrites, EvidenceMove
<1>4. \/ \E s \in Supervisors : SupervisorRecordsCommand(s) \/ SupervisorCollects(s)
      \/ \E a \in AttemptIds : GuardianUpdatesLease(a) \/ RunnerWrites(a)
      \/ UNCHANGED evidenceVars
  BY DEF OutsideCalls, SupervisorReconciles, SupervisorClaims, SupervisorBeginsLaunch,
     SupervisorSpawns, SupervisorStopsWatching, SupervisorDecides, SupervisorStarts,
     SupervisorTimesOut, GuardianStep, GuardianBinds, GuardianStartsRunner,
     GuardianRecordsExit, GuardianEnds, RunnerEnds, OperatorReconciles, OperatorRetries,
     OperatorAudits, GuardianCrashes, GuardianRaises, OperatorClearsHalt, vars
<1>. QED  BY <1>1, <1>2, <1>3, <1>4 DEF EvidenceMove

LEMMA QueueTypesStep ==
    ASSUME QueueTypes, [Next]_vars
    PROVE  QueueTypes'
<1>1. LedgerInv' /\ LaunchHolds' /\ OwnersHold'
  <2>1. [LedgerNext]_ledgerVars /\ [LaunchNext]_launchVars /\ OwnersHold'
    BY QueueStep DEF QueueTypes, Moves, LedgerMove, LaunchMove
  <2>. QED  BY <2>1, LedgerStep, LaunchStep DEF QueueTypes, LaunchHolds
<1>2. CallTypes' /\ EvidenceMove
  <2>1. ASSUME NEW a \in AttemptIds, CallBegins(a)
        PROVE  CallTypes' /\ EvidenceMove
    BY <2>1, FinishTypes, FailTypes, RecoverTypes DEF CallBegins
  <2>2. CASE CallsDrop
    BY <2>2, DropsTypes DEF QueueTypes, CallsDrop, EvidenceMove
  <2>3. CASE OutsideCalls
    BY <2>3, OutsideEvidence DEF OutsideCalls, QueueTypes, CallTypes
  <2>. QED  BY <2>1, <2>2, <2>3, CallStepTypes, StepKinds DEF QueueTypes
<1>3. EvidenceTypeOK'
  BY <1>2, EvidenceTypes DEF QueueTypes
<1>. QED  BY <1>1, <1>2, <1>3 DEF QueueTypes

LEMMA QueueTypesInit == Init => QueueTypes
<1>. SUFFICES ASSUME Init
              PROVE  QueueTypes
  OBVIOUS
<1>1. LedgerInv /\ OwnersHold
  BY LedgerInitInv, OwnersInit DEF Init
<1>2. LaunchHolds
  BY LaunchInitInv DEF Init, LaunchHolds
<1>3. CallTypes
  BY NoCallTypes DEF Init, CallTypes, NoCall
<1>4. EvidenceTypeOK
  BY DEF Init, EvidenceInit, EvidenceTypeOK, Blank, Inventories, ResultContents,
     FailureContents, OwnerRecords, Sources, LaunchStates
<1>. QED  BY <1>1, <1>2, <1>3, <1>4 DEF QueueTypes

LEMMA QueueTypesInvariant == Spec => []QueueTypes
BY QueueTypesInit, QueueTypesStep, PTL DEF Spec

(* The two variables that no other part of a proof looks at.               *)
Switches ==
    /\ timedOut \in [Supervisors -> BOOLEAN]
    /\ workerEnabled \in [Workers -> BOOLEAN]

TimersHold == timedOut' \in [Supervisors -> BOOLEAN]

LEMMA TimersStep ==
    ASSUME Switches, [Next]_vars
    PROVE  TimersHold
<1>1. ASSUME UNCHANGED timedOut
      PROVE  TimersHold
  BY <1>1 DEF Switches, TimersHold
<1>2. ASSUME NEW s \in Supervisors, NEW state, Leave(s, state)
      PROVE  TimersHold
  BY <1>2 DEF Leave, Switches, TimersHold
<1>3. ASSUME NEW a \in AttemptIds, CallStep(a)
      PROVE  TimersHold
  <2>1. ASSUME NEW result, OwnerContinues(a, result)
        PROVE  TimersHold
    BY <2>1, Zenon DEF OwnerContinues, TimersHold
  <2>2. (\E result : OwnerContinues(a, result)) \/ UNCHANGED timedOut
    BY <1>3, CallStepMovesOn, Zenon DEF CallMovesOn, MoveTo, EndCall, supervisorVars
  <2>. QED  BY <1>1, <2>1, <2>2
<1>4. ASSUME NEW s \in Supervisors, SupervisorStep(s) \/ SupervisorStarts(s)
      PROVE  TimersHold
  <2>1. (\E state : Leave(s, state)) \/ UNCHANGED timedOut
    <3>1. CASE SupervisorClaims(s)
      BY <1>4, <3>1, Zenon DEF SupervisorClaims
    <3>2. CASE SupervisorDecides(s)
      BY <1>4, <3>2, Zenon DEF SupervisorDecides
    <3>3. CASE SupervisorSettles(s) \/ SupervisorCollects(s) \/ SupervisorStopsWatching(s)
               \/ SupervisorBeginsLaunch(s)
      BY <3>3, Zenon DEF SupervisorSettles, SupervisorCollects, SupervisorStopsWatching,
         SupervisorBeginsLaunch, GoTo
    <3>4. CASE \/ SupervisorReconciles(s) \/ SupervisorRecordsCommand(s)
               \/ SupervisorSpawns(s) \/ SupervisorStarts(s)
      BY <3>4, Zenon DEF SupervisorReconciles, SupervisorRecordsCommand, SupervisorSpawns,
         SupervisorStarts, GoTo
    <3>. QED  BY <1>4, <3>1, <3>2, <3>3, <3>4 DEF SupervisorStep
  <2>. QED  BY <1>1, <1>2, <2>1
<1>5. ASSUME NEW a \in AttemptIds,
             \/ GuardianStep(a) \/ RunnerWrites(a) \/ RunnerEnds(a)
             \/ GuardianCrashes(a) \/ GuardianRaises(a) \/ CallerCrashes(a)
      PROVE  TimersHold
  BY <1>1, <1>5 DEF GuardianStep, GuardianBinds, GuardianUpdatesLease, GuardianStartsRunner,
     GuardianRecordsExit, GuardianEnds, RunnerWrites, RunnerEnds, GuardianCrashes,
     GuardianRaises, CallerCrashes, supervisorVars
<1>6. CASE OperatorStep
  BY <1>1, <1>6 DEF OperatorStep, OperatorReconciles, OperatorFinishes, OperatorFails,
     OperatorRecovers, RecoverBegins, OperatorRetries, OperatorAudits, OperatorClearsHalt,
     supervisorVars
<1>7. ASSUME NEW s \in Supervisors, SupervisorCrashes(s)
      PROVE  TimersHold
  BY <1>2, <1>7 DEF SupervisorCrashes
<1>8. ASSUME NEW s \in Supervisors, SupervisorTimesOut(s)
      PROVE  TimersHold
  BY <1>8 DEF SupervisorTimesOut, Switches, TimersHold
<1>9. CASE MachineReboots
  BY <1>9 DEF MachineReboots, TimersHold
<1>10. CASE UNCHANGED vars
  BY <1>1, <1>10 DEF vars, supervisorVars
<1>. QED
  BY <1>3, <1>4, <1>5, <1>6, <1>7, <1>8, <1>9, <1>10
     DEF Next, Uninterrupted, CampaignFault, Interruption

LEMMA SwitchesStep ==
    ASSUME QueueTypes, Switches, [Next]_vars
    PROVE  Switches'
<1>. DEFINE EnabledHolds == workerEnabled' \in [Workers -> BOOLEAN]
<1>1. CASE UNCHANGED workerEnabled
  BY <1>1, TimersStep DEF Switches, TimersHold
<1>2. ASSUME NEW s \in Supervisors, SupervisorClaims(s)
      PROVE  EnabledHolds
  <2>1. \A fault : Verdicts(fault) \subseteq BOOLEAN
    BY DEF Verdicts
  <2>2. \/ UNCHANGED workerEnabled
        \/ \E bound \in Verdicts("worker_drift") :
              workerEnabled' = [workerEnabled EXCEPT ![WorkerOf[s]] = bound]
    BY <1>2, Zenon DEF SupervisorClaims
  <2>. QED  BY <2>1, <2>2 DEF Switches
<1>3. UNCHANGED workerEnabled \/ \E s \in Supervisors : SupervisorClaims(s)
  <2>1. ASSUME NEW a \in AttemptIds, CallBegins(a) \/ CallStep(a)
        PROVE  UNCHANGED workerEnabled
    BY <2>1 DEF CallBegins, FinishBegins, FailBegins, RecoverBegins, CallStep,
       CallWritesSidecar, CallWritesManifest, CallSealsManifest, CallCommits,
       CallBlocks, CallRequeues
  <2>2. CASE OutsideCalls
    BY <2>2 DEF OutsideCalls, SupervisorReconciles, SupervisorRecordsCommand,
       SupervisorBeginsLaunch, SupervisorSpawns, SupervisorStopsWatching, SupervisorCollects,
       SupervisorDecides, SupervisorStarts, SupervisorTimesOut, GuardianStep, GuardianBinds,
       GuardianUpdatesLease, GuardianStartsRunner, GuardianRecordsExit, GuardianEnds,
       RunnerWrites, RunnerEnds, OperatorReconciles, OperatorRetries, OperatorAudits,
       GuardianCrashes, GuardianRaises, OperatorClearsHalt, vars
  <2>. QED  BY <2>1, <2>2, StepKinds DEF QueueTypes, CallsDrop
<1>. QED  BY <1>1, <1>2, <1>3, TimersStep DEF Switches, TimersHold

(* Every variable of the queue keeps its type: no call, interrupted or     *)
(* replayed, leaves a row, a file, a lock or a loop in a state that the    *)
(* code has no name for.                                                   *)
THEOREM QueueIsTyped == Spec => []TypeOK
<1>1. Init => Switches
  BY DEF Init, Switches
<1>2. QueueTypes /\ Switches /\ [Next]_vars => Switches'
  BY SwitchesStep
<1>3. QueueTypes /\ Switches => TypeOK
  BY DEF QueueTypes, Switches, LedgerInv, LaunchHolds, OwnersHold, CallTypes,
     TypeOK, QueueTypeOK
<1>. QED  BY <1>1, <1>2, <1>3, QueueTypesInvariant, PTL DEF Spec

-----------------------------------------------------------------------------
(* Leases.  A guardian attends to an attempt from its binding to its end.  *)
Attending(a) == guardian[a] \in {"binding", "bound", "waiting", "recorded"}

(* A call inside the lock has seen the runner stopped, and a stopped       *)
(* runner stays so: no guardian binds itself while the lock is held.       *)
CallsOnStopped ==
    \A a \in AttemptIds : call[a].at # "none" => runner[a] # "live" /\ ~Attending(a)

(* A supervisor decides about a retry only of a sealed retryable outcome,  *)
(* which its own failing retry budget then cannot block.                   *)
SettledIsSealed ==
    \A s \in Supervisors : supState[s] = "decide" => outcome[supAttempt[s]] = "retryable"

OwnedExists ==
    \A s \in Supervisors :
        supAttempt[s] \in AttemptIds => attemptStatus[supAttempt[s]] # "absent"

LeaseInv ==
    /\ LiveRunnerIsLeased
    /\ OrphanIsDead
    /\ CallsOnStopped
    /\ SettledIsSealed
    /\ OwnedExists

(* What one step of anybody may do to one attempt: to its row, to its      *)
(* processes and to the call inside its lock.                              *)
RowStays(a) == attemptStatus'[a] = attemptStatus[a]
CallStays(a) == call'[a] \in {call[a], NoCall}
LaunchStays(a) ==
    launchState'[a] = launchState[a] /\ guardian'[a] = guardian[a] /\ runner'[a] = runner[a]

Claimed(a) ==
    /\ attemptStatus[a] = "absent" /\ attemptStatus'[a] = "active"
    /\ CallStays(a) /\ LaunchStays(a)

Orphaned(a) ==
    /\ attemptStatus[a] = "active" /\ attemptStatus'[a] = "orphaned"
    /\ Dead(a) /\ UNCHANGED supAttempt
    /\ CallStays(a) /\ LaunchStays(a)

GivenUp(a) ==
    /\ attemptStatus[a] \in {"retryable", "orphaned", "blocked"}
    /\ attemptStatus'[a] = "requeued"
    /\ CallStays(a) /\ LaunchStays(a)

CalledUpon(a) ==
    /\ call[a].at # "none"
    /\ RowStays(a) \/ attemptStatus'[a] \in {"accepted", "retryable", "requeued", "blocked"}
    /\ LaunchStays(a)

Entered(a) == RunnerStopped(a) /\ RowStays(a) /\ LaunchStays(a)

LaunchBegun(a) ==
    /\ attemptStatus[a] = "active"
    /\ launchState[a] = "unstarted"
    /\ \E s \in Supervisors : supAttempt[s] = a /\ supState[s] = "launch"
    /\ guardian'[a] = guardian[a] /\ runner'[a] = runner[a]

Spawned(a) ==
    /\ \E s \in Supervisors : supAttempt[s] = a /\ supState[s] = "spawn"
    /\ guardian[a] = "none" /\ guardian'[a] = "spawned"
    /\ launchState'[a] = launchState[a] /\ runner'[a] = runner[a]

Bound(a) ==
    /\ attemptStatus[a] = "active" /\ call[a].at = "none"
    /\ guardian[a] = "spawned" /\ guardian'[a] = "binding"
    /\ runner'[a] = runner[a]

(* Anything later in the life of a guardian and its runner, or nothing.    *)
WindingUp(a) ==
    /\ \/ guardian'[a] = guardian[a]
       \/ GuardianAlive(a) /\ guardian'[a] = "gone"
       \/ Attending(a) /\ Attending(a)'
    /\ runner'[a] = "live" => runner[a] = "live" \/ Attending(a)
    /\ launchState'[a] = launchState[a] \/ Attending(a)

Footprint(a) ==
    \/ Claimed(a)
    \/ Orphaned(a)
    \/ GivenUp(a)
    \/ CalledUpon(a)
    \/ Entered(a)
    \/ /\ RowStays(a)
       /\ CallStays(a)
       /\ LaunchBegun(a) \/ Spawned(a) \/ Bound(a) \/ WindingUp(a)

AtRest(a) == RowStays(a) /\ CallStays(a) /\ LaunchStays(a)

LEMMA RestIsFootprint ==
    ASSUME NEW a, AtRest(a)
    PROVE  Footprint(a)
BY DEF AtRest, Footprint, WindingUp, LaunchStays

LEMMA BeginFootprint ==
    ASSUME QueueTypes, NEW a \in AttemptIds, NEW b \in AttemptIds, CallBegins(b)
    PROVE  Footprint(a)
<1>1. UNCHANGED ledgerVars /\ UNCHANGED launchVars /\ RunnerStopped(b)
  BY DEF CallBegins, FinishBegins, FailBegins, RecoverBegins, CompletionRows, Dead
<1>2. a # b => call'[a] = call[a]
  <2>1. \E by, kind, at, source, content, code : EnterCall(b, by, kind, at, source, content, code)
    BY Zenon DEF CallBegins, FinishBegins, FailBegins, RecoverBegins
  <2>. QED  BY <2>1 DEF EnterCall, QueueTypes, CallTypes
<1>3. RowStays(a) /\ LaunchStays(a)
  BY <1>1 DEF ledgerVars, launchVars, RowStays, LaunchStays
<1>4. a = b => Entered(a)
  BY <1>1, <1>3 DEF Entered
<1>5. a # b => AtRest(a)
  BY <1>2, <1>3 DEF AtRest, CallStays
<1>. QED  BY <1>4, <1>5, RestIsFootprint DEF Footprint

(* What the transactions of a call may do to its own row, and to others.   *)
LEMMA CallRows ==
    ASSUME QueueTypes, NEW b \in AttemptIds, CallStep(b)
    PROVE  /\ RowStays(b) \/ attemptStatus'[b] \in {"accepted", "retryable", "requeued", "blocked"}
           /\ \A a \in AttemptIds : a # b => attemptStatus'[a] = attemptStatus[a]
<1>. DEFINE Target == \/ UNCHANGED attemptStatus
                      \/ \E status \in {"accepted", "retryable", "requeued", "blocked"} :
                            attemptStatus' = [attemptStatus EXCEPT ![b] = status]
<1>1. CASE CallWritesSidecar(b) \/ CallWritesManifest(b) \/ CallSealsManifest(b)
  <2>1. Target
    BY <1>1 DEF CallWritesSidecar, CallWritesManifest, CallSealsManifest, ledgerVars
  <2>. QED  BY <2>1 DEF QueueTypes, LedgerInv, LedgerTypeOK, RowStays
<1>2. CASE CallCommits(b)
  <2>1. \/ UNCHANGED ledgerVars \/ CommitAccepted(b) \/ CommitRetryable(b)
        \/ CommitCapture(b, CallOutcome(b))
    BY <1>2, Zenon DEF CallCommits
  <2>2. Target
    BY <2>1 DEF CommitAccepted, CommitRetryable, CommitCapture, ledgerVars
  <2>. QED  BY <2>2 DEF QueueTypes, LedgerInv, LedgerTypeOK, RowStays
<1>3. CASE CallBlocks(b) \/ CallRequeues(b)
  <2>1. \/ UNCHANGED ledgerVars \/ Halt \/ BlockRow(b) \/ RequeueRow(b, FALSE)
    BY <1>3, Zenon DEF CallBlocks, CallRequeues, BlockAttempt, BlockOrphanRow
  <2>2. Target
    BY <2>1 DEF Halt, BlockRow, RequeueRow, ledgerVars
  <2>. QED  BY <2>2 DEF QueueTypes, LedgerInv, LedgerTypeOK, RowStays
<1>. QED  BY <1>1, <1>2, <1>3 DEF CallStep

LEMMA CallFootprint ==
    ASSUME QueueTypes, NEW a \in AttemptIds, NEW b \in AttemptIds, CallStep(b)
    PROVE  Footprint(a)
<1>1. LaunchStays(a)
  BY DEF CallStep, CallWritesSidecar, CallWritesManifest, CallSealsManifest,
     CallCommits, CallBlocks, CallRequeues, launchVars, LaunchStays
<1>2. call[b].at # "none"
  BY DEF CallStep, CallWritesSidecar, CallWritesManifest, CallSealsManifest,
     CallCommits, CallBlocks, CallRequeues
<1>3. a # b => call'[a] = call[a]
  BY CallStepMovesOn DEF CallMovesOn, MoveTo, EndCall, QueueTypes, CallTypes
<1>4. a = b => CalledUpon(a)
  BY <1>1, <1>2, CallRows DEF CalledUpon
<1>5. a # b => AtRest(a)
  BY <1>1, <1>3, CallRows DEF AtRest, CallStays, RowStays
<1>. QED  BY <1>4, <1>5, RestIsFootprint DEF Footprint

LEMMA RebootFootprint ==
    ASSUME QueueTypes, NEW a \in AttemptIds, Reboot
    PROVE  WindingUp(a)
BY QueueAssumption DEF Reboot, WindingUp, GuardianAlive

LEMMA DropFootprint ==
    ASSUME QueueTypes, NEW a \in AttemptIds, CallsDrop
    PROVE  Footprint(a)
<1>1. RowStays(a) /\ CallStays(a)
  BY DropsTypes DEF CallsDrop, ledgerVars, RowStays, CallStays, QueueTypes
<1>2. UNCHANGED launchVars \/ Reboot
  BY DEF CallsDrop, SupervisorCrashes, CallerCrashes, MachineReboots
<1>3. CASE UNCHANGED launchVars
  BY <1>1, <1>3, RestIsFootprint DEF launchVars, AtRest, LaunchStays
<1>. QED  BY <1>1, <1>2, <1>3, RebootFootprint DEF Footprint

(* Outside every call the rows change in four ways.                        *)
LEMMA OrphanFootprint ==
    ASSUME QueueTypes, NEW a \in AttemptIds, NEW b \in AttemptIds, UNCHANGED call,
           UNCHANGED launchVars, UNCHANGED supAttempt, Reconcilable(b), OrphanRow(b)
    PROVE  Footprint(a)
<1>1. CallStays(a) /\ LaunchStays(a)
  BY DEF CallStays, LaunchStays, launchVars
<1>2. attemptStatus' = [attemptStatus EXCEPT ![b] = "orphaned"]
  BY DEF OrphanRow
<1>3. a = b => Orphaned(a)
  BY <1>1, <1>2 DEF QueueTypes, LedgerInv, LedgerTypeOK, Reconcilable, Orphaned
<1>4. a # b => AtRest(a)
  BY <1>1, <1>2 DEF QueueTypes, LedgerInv, LedgerTypeOK, AtRest, RowStays
<1>. QED  BY <1>3, <1>4, RestIsFootprint DEF Footprint

LEMMA RequeueFootprint ==
    ASSUME QueueTypes, NEW a \in AttemptIds, NEW b \in AttemptIds, UNCHANGED call,
           UNCHANGED launchVars, NEW note, RequeueRow(b, note)
    PROVE  Footprint(a)
<1>1. CallStays(a) /\ LaunchStays(a)
  BY DEF CallStays, LaunchStays, launchVars
<1>2. attemptStatus' = [attemptStatus EXCEPT ![b] = "requeued"]
  BY DEF RequeueRow
<1>3. a = b => GivenUp(a)
  BY <1>1, <1>2 DEF QueueTypes, LedgerInv, LedgerTypeOK, RequeueRow, Requeueable, GivenUp
<1>4. a # b => AtRest(a)
  BY <1>1, <1>2 DEF QueueTypes, LedgerInv, LedgerTypeOK, AtRest, RowStays
<1>. QED  BY <1>3, <1>4, RestIsFootprint DEF Footprint

LEMMA NewAttemptIsAbsent ==
    ASSUME QueueTypes, NEW c \in Cases, attemptCount[c] < MaxAttempts
    PROVE  NewAttempt(c) \in AttemptIds /\ attemptStatus[NewAttempt(c)] = "absent"
<1>1. attemptCount[c] \in 0 .. MaxAttempts /\ MaxAttempts \in Nat
  BY LedgerAssumption DEF QueueTypes, LedgerInv, LedgerTypeOK
<1>2. attemptCount[c] + 1 \in 1 .. MaxAttempts /\ attemptCount[c] + 1 > attemptCount[c]
  BY <1>1
<1>. QED  BY <1>2 DEF QueueTypes, LedgerInv, AttemptChain, NewAttempt, AttemptIds

LEMMA ClaimFootprint ==
    ASSUME QueueTypes, NEW a \in AttemptIds, NEW s \in Supervisors, SupervisorClaims(s)
    PROVE  Footprint(a)
<1>1. CallStays(a) /\ LaunchStays(a)
  BY DEF SupervisorClaims, CallStays, LaunchStays, launchVars
<1>2. CASE Halt \/ UNCHANGED ledgerVars
  <2>1. RowStays(a)
    BY <1>2 DEF Halt, ledgerVars, RowStays
  <2>. QED  BY <1>1, <2>1, RestIsFootprint DEF AtRest
<1>3. ASSUME NEW c \in Cases, ClaimRow(WorkerOf[s], c)
      PROVE  Footprint(a)
  <2>1. NewAttempt(c) \in AttemptIds /\ attemptStatus[NewAttempt(c)] = "absent"
    BY <1>3, NewAttemptIsAbsent DEF ClaimRow
  <2>2. attemptStatus' = [attemptStatus EXCEPT ![NewAttempt(c)] = "active"]
    BY <1>3 DEF ClaimRow
  <2>3. attemptStatus \in [AttemptIds -> AttemptStatuses]
    BY DEF QueueTypes, LedgerInv, LedgerTypeOK
  <2>. HIDE DEF NewAttempt
  <2>4. a = NewAttempt(c) => Claimed(a)
    BY <1>1, <2>1, <2>2, <2>3 DEF Claimed
  <2>5. a # NewAttempt(c) => AtRest(a)
    BY <1>1, <2>2, <2>3 DEF AtRest, RowStays
  <2>. QED  BY <2>4, <2>5, RestIsFootprint DEF Footprint
<1>. QED  BY <1>2, <1>3, Zenon DEF SupervisorClaims

LEMMA DecideFootprint ==
    ASSUME QueueTypes, SettledIsSealed, NEW a \in AttemptIds, NEW s \in Supervisors,
           SupervisorDecides(s)
    PROVE  Footprint(a)
<1>. DEFINE b == supAttempt[s]
<1>1. b \in AttemptIds /\ outcome[b] = "retryable"
  BY DEF SupervisorDecides, QueueTypes, OwnersHold, Owning, SupervisorStates, SettledIsSealed
<1>2. UNCHANGED launchVars /\ UNCHANGED call
  BY DEF SupervisorDecides
<1>. HIDE DEF b
<1>3. BlockAttempt(b) \/ RequeueRow(b, FALSE) \/ UNCHANGED ledgerVars
  BY Zenon DEF SupervisorDecides, b
<1>4. CASE BlockAttempt(b) \/ UNCHANGED ledgerVars
  <2>1. Halt \/ UNCHANGED ledgerVars
    BY <1>1, <1>4 DEF BlockAttempt
  <2>2. AtRest(a)
    BY <1>2, <2>1 DEF Halt, ledgerVars, launchVars, AtRest, RowStays, CallStays, LaunchStays
  <2>. QED  BY <2>2, RestIsFootprint
<1>. QED  BY <1>1, <1>2, <1>3, <1>4, RequeueFootprint

(* The steps of guardians and runners, and what a supervisor does to them. *)
LEMMA LaunchFootprint ==
    ASSUME QueueTypes, NEW a \in AttemptIds, NEW b \in AttemptIds,
           \/ BindReturns(b) \/ StartRunner(b) \/ RecordExit(b) \/ GuardianExits(b)
           \/ GuardianDies(b, "nonzero") \/ (\E code \in ExitCodes : RunnerStops(b, code))
    PROVE  WindingUp(a)
<1>. USE QueueAssumption DEF QueueTypes, LaunchHolds, LaunchTypeOK, WindingUp, Attending, ExitCodes
<1>1. CASE BindReturns(b)
  BY <1>1 DEF BindReturns
<1>2. CASE StartRunner(b)
  BY <1>2 DEF StartRunner
<1>3. CASE RecordExit(b)
  BY <1>3 DEF RecordExit
<1>4. CASE GuardianExits(b)
  BY <1>4 DEF GuardianExits, GuardianAlive
<1>5. CASE GuardianDies(b, "nonzero")
  BY <1>5 DEF GuardianDies, GuardianAlive
<1>6. ASSUME NEW code \in ExitCodes, RunnerStops(b, code)
      PROVE  WindingUp(a)
  BY <1>6 DEF RunnerStops
<1>. QED  BY <1>1, <1>2, <1>3, <1>4, <1>5, <1>6

LEMMA SupervisorFootprint ==
    ASSUME QueueTypes, SettledIsSealed, NEW a \in AttemptIds, NEW s \in Supervisors,
           UNCHANGED call,
           \/ SupervisorReconciles(s) \/ SupervisorClaims(s)
           \/ SupervisorRecordsCommand(s) \/ SupervisorBeginsLaunch(s)
           \/ SupervisorSpawns(s) \/ SupervisorStopsWatching(s)
           \/ SupervisorCollects(s) \/ SupervisorDecides(s)
           \/ SupervisorStarts(s) \/ SupervisorTimesOut(s)
    PROVE  Footprint(a)
<1>1. CallStays(a)
  BY DEF CallStays
<1>2. ASSUME UNCHANGED ledgerVars, UNCHANGED launchVars
      PROVE  Footprint(a)
  BY <1>1, <1>2, RestIsFootprint DEF AtRest, RowStays, LaunchStays, ledgerVars, launchVars
<1>3. CASE SupervisorReconciles(s)
  BY <1>2, <1>3, OrphanFootprint DEF SupervisorReconciles, GoTo
<1>4. CASE \/ SupervisorRecordsCommand(s) \/ SupervisorStopsWatching(s)
           \/ SupervisorCollects(s) \/ SupervisorStarts(s)
  BY <1>2, <1>4 DEF SupervisorRecordsCommand, SupervisorStopsWatching, SupervisorCollects,
     SupervisorStarts
<1>5. CASE SupervisorBeginsLaunch(s)
  <2>. DEFINE b == supAttempt[s]
  <2>1. b \in AttemptIds
    BY <1>5 DEF SupervisorBeginsLaunch, QueueTypes, OwnersHold, Owning, SupervisorStates
  <2>2. RowStays(a)
    BY <1>5 DEF SupervisorBeginsLaunch, ledgerVars, RowStays
  <2>3. CASE attemptStatus[b] = "active" /\ BeginLaunch(b)
    <3>1. a = b => LaunchBegun(a)
      BY <1>5, <2>1, <2>3 DEF LaunchBegun, BeginLaunch, SupervisorBeginsLaunch
    <3>2. a # b => LaunchStays(a)
      BY <2>3, <2>1, QueueAssumption
         DEF LaunchStays, BeginLaunch, QueueTypes, LaunchHolds, LaunchTypeOK
    <3>. QED  BY <1>1, <2>2, <3>1, <3>2, RestIsFootprint DEF AtRest, Footprint
  <2>. QED  BY <1>2, <1>5, <2>3 DEF SupervisorBeginsLaunch
<1>6. CASE SupervisorSpawns(s)
  <2>. DEFINE b == supAttempt[s]
  <2>1. b \in AttemptIds
    BY <1>6 DEF SupervisorSpawns, QueueTypes, OwnersHold, Owning, SupervisorStates
  <2>2. RowStays(a) /\ SpawnGuardian(b)
    BY <1>6 DEF SupervisorSpawns, ledgerVars, RowStays
  <2>3. a = b => Spawned(a)
    BY <1>6, <2>1, <2>2, QueueAssumption
       DEF Spawned, SpawnGuardian, SupervisorSpawns, QueueTypes, LaunchHolds, LaunchTypeOK
  <2>4. a # b => LaunchStays(a)
    BY <2>1, <2>2, QueueAssumption
       DEF LaunchStays, SpawnGuardian, QueueTypes, LaunchHolds, LaunchTypeOK
  <2>. QED  BY <1>1, <2>2, <2>3, <2>4, RestIsFootprint DEF AtRest, Footprint
<1>7. CASE SupervisorTimesOut(s)
  <2>1. supAttempt[s] \in AttemptIds
    BY <1>7 DEF SupervisorTimesOut, QueueTypes, OwnersHold, Owning, SupervisorStates
  <2>2. RowStays(a) /\ WindingUp(a)
    BY <1>7, <2>1, LaunchFootprint DEF SupervisorTimesOut, ledgerVars, RowStays
  <2>. QED  BY <1>1, <2>2 DEF Footprint
<1>. QED  BY <1>3, <1>4, <1>5, <1>6, <1>7, ClaimFootprint, DecideFootprint

LEMMA GuardianFootprint ==
    ASSUME QueueTypes, NEW a \in AttemptIds, NEW b \in AttemptIds, UNCHANGED call,
           \/ GuardianStep(b) \/ RunnerWrites(b) \/ RunnerEnds(b)
           \/ GuardianCrashes(b) \/ GuardianRaises(b)
    PROVE  Footprint(a)
<1>1. CallStays(a)
  BY DEF CallStays
<1>2. RowStays(a)
  BY DEF RowStays, GuardianStep, GuardianBinds, GuardianUpdatesLease, GuardianStartsRunner,
     GuardianRecordsExit, GuardianEnds, RunnerWrites, RunnerEnds, GuardianCrashes,
     GuardianRaises, Halt, ledgerVars
<1>3. ASSUME UNCHANGED launchVars
      PROVE  Footprint(a)
  BY <1>1, <1>2, <1>3, RestIsFootprint DEF AtRest, LaunchStays, launchVars
<1>4. ASSUME attemptStatus[b] = "active", LockFree(b), BindRunner(b)
      PROVE  Footprint(a)
  <2>1. a = b => Bound(a)
    BY <1>4, QueueAssumption
       DEF Bound, BindRunner, LockFree, QueueTypes, LaunchHolds, LaunchTypeOK
  <2>2. a # b => LaunchStays(a)
    BY <1>4, QueueAssumption
       DEF LaunchStays, BindRunner, QueueTypes, LaunchHolds, LaunchTypeOK
  <2>. QED  BY <1>1, <1>2, <2>1, <2>2, RestIsFootprint DEF AtRest, Footprint
<1>5. \/ attemptStatus[b] = "active" /\ LockFree(b) /\ BindRunner(b)
      \/ BindReturns(b) \/ StartRunner(b) \/ RecordExit(b) \/ GuardianExits(b)
      \/ GuardianDies(b, "nonzero") \/ (\E code \in ExitCodes : RunnerStops(b, code))
      \/ UNCHANGED launchVars
  BY Zenon DEF GuardianStep, GuardianBinds, GuardianUpdatesLease, GuardianStartsRunner,
     GuardianRecordsExit, GuardianEnds, RunnerWrites, RunnerEnds, GuardianCrashes,
     GuardianRaises
<1>. QED  BY <1>1, <1>2, <1>3, <1>4, <1>5, LaunchFootprint DEF Footprint

LEMMA StepFootprint ==
    ASSUME QueueTypes, SettledIsSealed, [Next]_vars, NEW a \in AttemptIds
    PROVE  Footprint(a)
<1>1. CASE OutsideCalls
  <2>1. UNCHANGED call
    BY <1>1 DEF OutsideCalls
  <2>2. ASSUME UNCHANGED attemptStatus, UNCHANGED launchVars
        PROVE  Footprint(a)
    BY <2>1, <2>2, RestIsFootprint DEF AtRest, RowStays, CallStays, LaunchStays, launchVars
  <2>3. ASSUME NEW b \in AttemptIds, OperatorReconciles(b) \/ OperatorRetries(b)
        PROVE  Footprint(a)
    BY <2>1, <2>3, OrphanFootprint, RequeueFootprint
       DEF OperatorReconciles, OperatorRetries, supervisorVars
  <2>4. ASSUME \/ \E b \in AttemptIds : OperatorAudits(b)
               \/ OperatorClearsHalt
               \/ UNCHANGED vars
               \/ UNCHANGED << ledgerVars, launchVars, evidenceVars, workerEnabled >>
        PROVE  Footprint(a)
    BY <2>2, <2>4 DEF OperatorAudits, OperatorClearsHalt, Halt, ClearHaltRow, vars, ledgerVars
  <2>. QED  BY <1>1, <2>1, <2>3, <2>4, SupervisorFootprint, GuardianFootprint, Zenon
            DEF OutsideCalls
<1>. QED
  BY <1>1, StepKinds, BeginFootprint, CallFootprint, DropFootprint DEF QueueTypes

-----------------------------------------------------------------------------
(* What one step does to one supervisor: it comes to own an attempt only   *)
(* by claiming a new one, works on it up to its own completion, decides    *)
(* about a retry only after a retryable one, and otherwise withdraws.      *)
Working == {"record", "launch", "spawn", "watch", "collect", "finish", "fail"}

Rests(s) == supState'[s] = supState[s] /\ supAttempt'[s] = supAttempt[s]

Acquires(s) ==
    /\ supState[s] = "claim" /\ supState'[s] = "record"
    /\ supAttempt'[s] \in AttemptIds
    /\ attemptStatus[supAttempt'[s]] = "absent"
    /\ attemptStatus'[supAttempt'[s]] = "active"

Works(s) ==
    /\ supState[s] \in Working /\ supState'[s] \in Working
    /\ supAttempt'[s] = supAttempt[s]
    /\ supState'[s] = "fail" => SupervisorCollects(s)

(* A supervisor that waited for its own call has its answer.               *)
Answered(s) == supState[s] = "settle" => call'[supAttempt[s]].by # "owner"

ComesToDecide(s) ==
    /\ supState'[s] = "decide" /\ supAttempt'[s] = supAttempt[s]
    /\ supAttempt[s] \in AttemptIds /\ outcome'[supAttempt[s]] = "retryable"
    /\ Answered(s)

Withdraws(s) ==
    /\ supState'[s] \in {"down", "top", "claim"}
    /\ supAttempt'[s] \in {supAttempt[s], NoAttempt}
    /\ Answered(s)

SupervisorMoves(s) ==
    Rests(s) \/ Acquires(s) \/ Works(s) \/ OwnerBegins(s) \/ ComesToDecide(s) \/ Withdraws(s)

OwnersMove ==
    \A s \in Supervisors :
        /\ SupervisorMoves(s)
        /\ Acquires(s) => \A t \in Supervisors \ {s} : Rests(t)

LEMMA AllRest ==
    ASSUME UNCHANGED supervisorVars
    PROVE  OwnersMove
BY DEF supervisorVars, OwnersMove, SupervisorMoves, Rests, Acquires

(* Only supervisor s moves.                                                *)
LEMMA OneMoves ==
    ASSUME NEW s \in Supervisors, SupervisorMoves(s), \A t \in Supervisors \ {s} : Rests(t)
    PROVE  OwnersMove
BY DEF OwnersMove, SupervisorMoves, Rests, Acquires

LEMMA GoToMoves ==
    ASSUME OwnersHold, NEW s \in Supervisors, NEW state, GoTo(s, state),
           \/ supState[s] \in Working /\ state \in Working /\ (state = "fail" => SupervisorCollects(s))
           \/ supState[s] # "settle" /\ state \in {"down", "top", "claim"}
    PROVE  OwnersMove
<1>1. \A t \in Supervisors \ {s} : Rests(t)
  BY DEF GoTo, Rests, OwnersHold
<1>2. supState'[s] = state /\ supAttempt'[s] = supAttempt[s]
  BY DEF GoTo, OwnersHold
<1>3. Works(s) \/ Withdraws(s)
  BY <1>2 DEF Works, Withdraws, Answered
<1>. QED  BY <1>1, <1>3, OneMoves DEF SupervisorMoves

LEMMA LeaveMoves ==
    ASSUME OwnersHold, NEW s \in Supervisors, NEW state \in {"down", "top"}, Leave(s, state),
           Answered(s)
    PROVE  OwnersMove
<1>1. \A t \in Supervisors \ {s} : Rests(t)
  BY DEF Leave, Rests, OwnersHold
<1>2. Withdraws(s)
  BY DEF Leave, OwnersHold, Withdraws
<1>. QED  BY <1>1, <1>2, OneMoves DEF SupervisorMoves

LEMMA EndCallMoves ==
    ASSUME QueueTypes, NEW a \in AttemptIds, NEW result, EndCall(a, result),
           result = "retryable" => outcome'[a] = "retryable"
    PROVE  OwnersMove
<1>1. CASE UNCHANGED supervisorVars
  BY <1>1, AllRest
<1>2. CASE OwnerContinues(a, result)
  <2>. DEFINE mine(s) == supAttempt[s] = a /\ supState[s] = "settle"
              next == CASE result = "accepted" -> "top"
                        [] result = "retryable" -> "decide"
                        [] OTHER -> "down"
  <2>1. \/ next = "top" \/ next = "down"
        \/ next = "decide" /\ result = "retryable"
    <3>1. CASE result = "accepted"
      BY <3>1, Zenon
    <3>2. CASE result = "retryable"
      BY <3>2, Zenon
    <3>3. CASE result # "accepted" /\ result # "retryable"
      BY <3>3, Zenon
    <3>. QED  BY <3>1, <3>2, <3>3
  <2>2. /\ supState' = [s \in Supervisors |-> IF mine(s) THEN next ELSE supState[s]]
        /\ supAttempt' = [s \in Supervisors |->
                            IF mine(s) /\ next # "decide" THEN NoAttempt ELSE supAttempt[s]]
    BY <1>2, Zenon DEF OwnerContinues
  <2>. HIDE DEF next
  <2>3. call'[a].by # "owner"
    BY DEF EndCall, QueueTypes, CallTypes, NoCall
  <2>4. ASSUME NEW s \in Supervisors
        PROVE  SupervisorMoves(s) /\ ~Acquires(s)
    <3>1. CASE ~mine(s)
      BY <2>2, <3>1 DEF SupervisorMoves, Rests, Acquires
    <3>2. CASE mine(s)
      <4>1. supState[s] # "claim" /\ Answered(s)
        BY <2>3, <3>2 DEF Answered
      <4>2. CASE next = "decide"
        BY <2>1, <2>2, <3>2, <4>1, <4>2 DEF SupervisorMoves, ComesToDecide, Acquires
      <4>3. CASE next \in {"top", "down"}
        BY <2>2, <3>2, <4>1, <4>3 DEF SupervisorMoves, Withdraws, Acquires
      <4>. QED  BY <2>1, <4>2, <4>3
    <3>. QED  BY <3>1, <3>2
  <2>. QED  BY <2>4 DEF OwnersMove
<1>. QED  BY <1>1, <1>2 DEF EndCall

LEMMA CallOwners ==
    ASSUME QueueTypes, NEW a \in AttemptIds, CallStep(a)
    PROVE  OwnersMove
<1>1. ASSUME NEW at, MoveTo(a, at)
      PROVE  OwnersMove
  BY <1>1, AllRest DEF MoveTo
<1>2. ASSUME NEW result \in {"raised", "accepted", "halted", "requeued"}, EndCall(a, result)
      PROVE  OwnersMove
  BY <1>2, EndCallMoves
<1>3. CASE CallCommits(a)
  <2>1. ASSUME EndCall(a, CompletionStatus(a)), UNCHANGED ledgerVars
        PROVE  OwnersMove
    <3>1. CompletionStatus(a) = "retryable" => attemptStatus[a] = "retryable"
      <4>1. CASE attemptStatus[a] = "accepted"
        BY <4>1, Zenon DEF CompletionStatus
      <4>2. CASE attemptStatus[a] # "accepted" /\ attemptStatus[a] # "retryable"
        BY <4>2, Zenon DEF CompletionStatus
      <4>. QED  BY <4>1, <4>2
    <3>2. outcome' = outcome
      BY <2>1 DEF ledgerVars
    <3>. HIDE DEF CompletionStatus
    <3>. QED  BY <2>1, <3>1, <3>2, EndCallMoves DEF QueueTypes, LedgerInv, OutcomeAgreement
  <2>2. ASSUME EndCall(a, "retryable"), CommitRetryable(a)
        PROVE  OwnersMove
    <3>1. outcome'[a] = "retryable"
      BY <2>2 DEF CommitRetryable, QueueTypes, LedgerInv, LedgerTypeOK
    <3>. QED  BY <2>2, <3>1, EndCallMoves
  <2>3. \/ \E at : MoveTo(a, at)
        \/ \E result \in {"raised", "accepted", "halted", "requeued"} : EndCall(a, result)
        \/ EndCall(a, CompletionStatus(a)) /\ UNCHANGED ledgerVars
        \/ EndCall(a, "retryable") /\ CommitRetryable(a)
    BY <1>3, Zenon DEF CallCommits
  <2>. QED  BY <1>1, <1>2, <2>1, <2>2, <2>3
<1>4. ASSUME \/ CallWritesSidecar(a) \/ CallWritesManifest(a) \/ CallSealsManifest(a)
             \/ CallBlocks(a) \/ CallRequeues(a)
      PROVE  (\E at : MoveTo(a, at)) \/ EndCall(a, "raised") \/ EndCall(a, "requeued")
  BY <1>4, Zenon DEF CallWritesSidecar, CallWritesManifest, CallSealsManifest, CallBlocks,
     CallRequeues, AfterManifest
<1>. QED  BY <1>1, <1>2, <1>3, <1>4 DEF CallStep

LEMMA ClaimOwners ==
    ASSUME QueueTypes, NEW s \in Supervisors, SupervisorClaims(s)
    PROVE  OwnersMove
<1>1. OwnersHold /\ supState[s] = "claim"
  BY DEF QueueTypes, SupervisorClaims
<1>2. ASSUME NEW c \in Cases, ClaimRow(WorkerOf[s], c),
             supAttempt' = [supAttempt EXCEPT ![s] = NewAttempt(c)],
             supState' = [supState EXCEPT ![s] = "record"]
      PROVE  OwnersMove
  <2>1. NewAttempt(c) \in AttemptIds /\ attemptStatus[NewAttempt(c)] = "absent"
    BY <1>2, NewAttemptIsAbsent DEF ClaimRow
  <2>2. attemptStatus'[NewAttempt(c)] = "active"
    BY <1>2, <2>1 DEF ClaimRow, QueueTypes, LedgerInv, LedgerTypeOK
  <2>. HIDE DEF NewAttempt
  <2>3. supAttempt'[s] = NewAttempt(c) /\ supState'[s] = "record"
    BY <1>1, <1>2 DEF OwnersHold
  <2>4. \A t \in Supervisors \ {s} : Rests(t)
    BY <1>1, <1>2 DEF OwnersHold, Rests
  <2>5. Acquires(s)
    BY <1>1, <2>1, <2>2, <2>3 DEF Acquires
  <2>. QED  BY <2>4, <2>5, OneMoves DEF SupervisorMoves
<1>3. \/ Leave(s, "down")
      \/ /\ \E c \in Cases : /\ ClaimRow(WorkerOf[s], c)
                             /\ supAttempt' = [supAttempt EXCEPT ![s] = NewAttempt(c)]
         /\ supState' = [supState EXCEPT ![s] = "record"]
  BY Zenon DEF SupervisorClaims
<1>. QED  BY <1>1, <1>2, <1>3, LeaveMoves DEF Answered

LEMMA SupervisorOwners ==
    ASSUME QueueTypes, NEW s \in Supervisors,
           \/ SupervisorReconciles(s) \/ SupervisorClaims(s) \/ SupervisorRecordsCommand(s)
           \/ SupervisorBeginsLaunch(s) \/ SupervisorSpawns(s) \/ SupervisorStopsWatching(s)
           \/ SupervisorCollects(s) \/ SupervisorDecides(s) \/ SupervisorStarts(s)
           \/ SupervisorTimesOut(s)
    PROVE  OwnersMove
<1>1. OwnersHold
  BY DEF QueueTypes
<1>2. CASE SupervisorReconciles(s) \/ SupervisorStarts(s)
  BY <1>1, <1>2, GoToMoves DEF SupervisorReconciles, SupervisorStarts
<1>3. CASE SupervisorDecides(s)
  <2>1. supState[s] = "decide" /\ (Leave(s, "down") \/ Leave(s, "top"))
    BY <1>3, Zenon DEF SupervisorDecides
  <2>. QED  BY <1>1, <2>1, LeaveMoves DEF Answered
<1>4. CASE SupervisorCollects(s)
  <2>1. /\ supState[s] = "collect"
        /\ (\E state \in {"finish", "fail"} : GoTo(s, state)) \/ Leave(s, "down")
    BY <1>4, Zenon DEF SupervisorCollects
  <2>. QED  BY <1>1, <1>4, <2>1, GoToMoves, LeaveMoves DEF Answered, Working
<1>5. CASE \/ SupervisorRecordsCommand(s) \/ SupervisorBeginsLaunch(s)
           \/ SupervisorSpawns(s) \/ SupervisorStopsWatching(s)
  <2>1. /\ supState[s] \in {"record", "launch", "spawn", "watch"}
        /\ \/ \E state \in {"launch", "spawn", "watch", "collect"} : GoTo(s, state)
           \/ Leave(s, "down")
    BY <1>5 DEF SupervisorRecordsCommand, SupervisorBeginsLaunch, SupervisorSpawns,
       SupervisorStopsWatching
  <2>. QED  BY <1>1, <2>1, GoToMoves, LeaveMoves DEF Answered, Working
<1>6. CASE SupervisorTimesOut(s)
  <2>1. \A t \in Supervisors \ {s} : Rests(t)
    BY <1>1, <1>6 DEF SupervisorTimesOut, Rests, OwnersHold
  <2>2. Works(s)
    BY <1>1, <1>6 DEF SupervisorTimesOut, Works, Working, OwnersHold
  <2>. QED  BY <2>1, <2>2, OneMoves DEF SupervisorMoves
<1>. QED  BY <1>2, <1>3, <1>4, <1>5, <1>6, ClaimOwners

LEMMA DropOwners ==
    ASSUME QueueTypes, CallsDrop
    PROVE  OwnersMove
<1>1. OwnersHold
  BY DEF QueueTypes
<1>2. ASSUME NEW s \in Supervisors, SupervisorCrashes(s)
      PROVE  OwnersMove
  <2>1. supState[s] = "settle" => supAttempt[s] \in AttemptIds
    BY <1>1 DEF OwnersHold, Owning, SupervisorStates
  <2>2. Answered(s)
    BY <1>2, <2>1 DEF SupervisorCrashes, Answered, NoCall
  <2>. QED  BY <1>1, <1>2, <2>2, LeaveMoves DEF SupervisorCrashes
<1>3. ASSUME NEW a \in AttemptIds, CallerCrashes(a)
      PROVE  OwnersMove
  BY <1>3, AllRest DEF CallerCrashes
<1>4. CASE MachineReboots
  <2>1. ASSUME NEW s \in Supervisors
        PROVE  Withdraws(s)
    <3>1. supState[s] = "settle" => supAttempt[s] \in AttemptIds
      BY <1>1 DEF OwnersHold, Owning, SupervisorStates
    <3>. QED  BY <1>4, <3>1 DEF MachineReboots, Withdraws, Answered, NoCall
  <2>. QED  BY <2>1 DEF OwnersMove, SupervisorMoves, Withdraws, Acquires
<1>. QED  BY <1>2, <1>3, <1>4 DEF CallsDrop

LEMMA OwnersStep ==
    ASSUME QueueTypes, [Next]_vars
    PROVE  OwnersMove
<1>1. OwnersHold
  BY DEF QueueTypes
<1>2. ASSUME NEW s \in Supervisors, OwnerBegins(s)
      PROVE  OwnersMove
  <2>1. \A t \in Supervisors \ {s} : Rests(t)
    BY <1>1, <1>2 DEF OwnerBegins, GoTo, Rests, OwnersHold
  <2>. QED  BY <1>2, <2>1, OneMoves DEF SupervisorMoves
<1>3. ASSUME NEW a \in AttemptIds, OperatorBegins(a)
      PROVE  OwnersMove
  BY <1>3, AllRest DEF OperatorBegins, OperatorFinishes, OperatorFails, OperatorRecovers,
     RecoverBegins
<1>4. CASE OutsideCalls
  <2>1. ASSUME NEW s \in Supervisors, Leave(s, "down"), UNCHANGED call,
               supState[s] \in {"finish", "fail"}
        PROVE  OwnersMove
    BY <1>1, <2>1, LeaveMoves DEF Answered
  <2>2. ASSUME \/ \E a \in AttemptIds : \/ GuardianStep(a) \/ RunnerWrites(a) \/ RunnerEnds(a)
                                        \/ OperatorReconciles(a) \/ OperatorRetries(a)
                                        \/ OperatorAudits(a) \/ GuardianCrashes(a)
                                        \/ GuardianRaises(a)
               \/ OperatorClearsHalt
               \/ UNCHANGED vars
        PROVE  OwnersMove
    BY <2>2, AllRest DEF GuardianStep, GuardianBinds, GuardianUpdatesLease,
       GuardianStartsRunner, GuardianRecordsExit, GuardianEnds, RunnerWrites, RunnerEnds,
       OperatorReconciles, OperatorRetries, OperatorAudits, GuardianCrashes, GuardianRaises,
       OperatorClearsHalt, vars
  <2>. QED  BY <1>4, <2>1, <2>2, SupervisorOwners DEF OutsideCalls
<1>. QED  BY <1>2, <1>3, <1>4, CallOwners, DropOwners, StepSources

-----------------------------------------------------------------------------
(* LeaseInv is inductive.                                                  *)
LEMMA DeadMeans ==
    ASSUME QueueTypes, NEW a \in AttemptIds, RunnerStopped(a)
    PROVE  /\ runner[a] # "live" /\ ~GuardianAlive(a) /\ ~Attending(a)
           /\ launchState[a] \in {"unstarted", "exited"}
BY QueueAssumption, ShapeIsSound, StoppedMeans
   DEF QueueTypes, LaunchHolds, StoppedIsSound, GuardianAlive, Attending

(* Nobody comes to own an attempt that somebody has owned before.          *)
LEMMA OwnersKeep ==
    ASSUME QueueTypes, OwnersMove, NEW s \in Supervisors, supAttempt'[s] \in AttemptIds,
           supAttempt'[s] # supAttempt[s]
    PROVE  Acquires(s)
<1>1. OwnerBegins(s) => supAttempt'[s] = supAttempt[s]
  BY DEF OwnerBegins, GoTo
<1>2. NoAttempt \notin AttemptIds
  BY DEF NoAttempt, AttemptIds, Cases
<1>. QED  BY <1>1, <1>2 DEF OwnersMove, SupervisorMoves, Rests, Works, ComesToDecide, Withdraws

LEMMA LeasedStep ==
    ASSUME QueueTypes, LeaseInv, NEW a \in AttemptIds, Footprint(a),
           runner'[a] = "live" \/ Attending(a)'
    PROVE  attemptStatus'[a] = "active"
<1>. USE DEF QueueTypes, LeaseInv, LiveRunnerIsLeased, Attending
<1>1. CASE Claimed(a)
  BY <1>1 DEF Claimed, LaunchStays
<1>2. CASE Orphaned(a)
  BY <1>2, DeadMeans DEF Orphaned, LaunchStays, Dead
<1>3. CASE GivenUp(a)
  BY <1>3 DEF GivenUp, LaunchStays
<1>4. CASE CalledUpon(a)
  BY <1>4 DEF CalledUpon, LaunchStays, CallsOnStopped
<1>5. CASE Entered(a)
  BY <1>5 DEF Entered, LaunchStays, RowStays
<1>6. CASE RowStays(a) /\ (LaunchBegun(a) \/ Spawned(a) \/ Bound(a) \/ WindingUp(a))
  BY <1>6 DEF RowStays, LaunchBegun, Spawned, Bound, WindingUp
<1>. QED  BY <1>1, <1>2, <1>3, <1>4, <1>5, <1>6 DEF Footprint

LEMMA DeadOrphanStep ==
    ASSUME QueueTypes, LeaseInv, OwnersMove, NEW a \in AttemptIds, Footprint(a),
           attemptStatus'[a] = "orphaned"
    PROVE  /\ \A s \in Supervisors : supAttempt'[s] # a
           /\ guardian'[a] \in {"none", "gone"}
           /\ runner'[a] # "live"
           /\ launchState'[a] \in {"unstarted", "exited"}
<1>1. CASE attemptStatus[a] = "orphaned"
  <2>1. /\ ~OwnerAlive(a) /\ ~GuardianAlive(a) /\ runner[a] # "live"
        /\ launchState[a] \in {"unstarted", "exited"}
    BY <1>1 DEF LeaseInv, OrphanIsDead
  <2>2. ~Attending(a)
    BY <2>1 DEF GuardianAlive, Attending
  <2>3. guardian'[a] = guardian[a] /\ runner'[a] # "live" /\ launchState'[a] = launchState[a]
    BY <1>1, <2>1, <2>2 DEF Footprint, Claimed, Orphaned, GivenUp, CalledUpon, Entered,
       LaunchBegun, Spawned, Bound, WindingUp, LaunchStays, OwnerAlive
  <2>4. \A s \in Supervisors : supAttempt'[s] # a
    BY <1>1, <2>1, OwnersKeep DEF OwnerAlive, Acquires
  <2>. QED  BY <2>1, <2>3, <2>4 DEF GuardianAlive
<1>2. CASE attemptStatus[a] # "orphaned"
  <2>1. Orphaned(a)
    BY <1>2 DEF Footprint, Claimed, GivenUp, CalledUpon, Entered, RowStays
  <2>. QED  BY <2>1, DeadMeans DEF Orphaned, Dead, OwnerAlive, LaunchStays, GuardianAlive
<1>. QED  BY <1>1, <1>2

LEMMA StoppedStep ==
    ASSUME QueueTypes, LeaseInv, NEW a \in AttemptIds, Footprint(a), call'[a].at # "none"
    PROVE  runner'[a] # "live" /\ ~Attending(a)'
<1>1. CASE Entered(a)
  BY <1>1, DeadMeans DEF Entered, LaunchStays, Attending
<1>2. CASE ~Entered(a)
  <2>1. call[a].at # "none"
    BY <1>2 DEF Footprint, Claimed, Orphaned, GivenUp, CalledUpon, CallStays, NoCall
  <2>2. runner[a] # "live" /\ ~Attending(a)
    BY <2>1 DEF LeaseInv, CallsOnStopped
  <2>. QED  BY <1>2, <2>1, <2>2
            DEF Footprint, Claimed, Orphaned, GivenUp, CalledUpon, LaunchBegun, Spawned,
                Bound, WindingUp, LaunchStays, Attending
<1>. QED  BY <1>1, <1>2

LEMMA LeaseStep ==
    ASSUME QueueTypes, LeaseInv, [Next]_vars
    PROVE  LeaseInv'
<1>1. \A a \in AttemptIds : Footprint(a)
  BY StepFootprint DEF LeaseInv
<1>2. OwnersMove
  BY OwnersStep
<1>3. LiveRunnerIsLeased'
  BY <1>1, LeasedStep DEF LiveRunnerIsLeased, Attending
<1>4. OrphanIsDead'
  BY <1>1, <1>2, DeadOrphanStep DEF OrphanIsDead, OwnerAlive, GuardianAlive
<1>5. CallsOnStopped'
  BY <1>1, StoppedStep DEF CallsOnStopped
<1>6. SettledIsSealed'
  <2>. SUFFICES ASSUME NEW s \in Supervisors, supState'[s] = "decide"
                PROVE  outcome'[supAttempt'[s]] = "retryable"
    BY DEF SettledIsSealed
  <2>1. Rests(s) \/ ComesToDecide(s)
    <3>1. ~OwnerBegins(s)
      BY DEF OwnerBegins, GoTo, QueueTypes, OwnersHold
    <3>. QED  BY <1>2, <3>1 DEF OwnersMove, SupervisorMoves, Acquires, Works, Withdraws, Working
  <2>2. CASE Rests(s)
    <3>1. supAttempt[s] \in AttemptIds /\ outcome[supAttempt[s]] = "retryable"
      BY <2>2 DEF Rests, LeaseInv, SettledIsSealed, QueueTypes, OwnersHold, Owning,
         SupervisorStates
    <3>2. outcome'[supAttempt[s]] = outcome[supAttempt[s]]
      BY <3>1, QueueStep, StepKeepsCommitments DEF QueueTypes, Moves, LedgerMove, ledgerVars
    <3>. QED  BY <2>2, <3>1, <3>2 DEF Rests
  <2>. QED  BY <2>1, <2>2 DEF ComesToDecide
<1>7. OwnedExists'
  <2>. SUFFICES ASSUME NEW s \in Supervisors, supAttempt'[s] \in AttemptIds
                PROVE  attemptStatus'[supAttempt'[s]] # "absent"
    BY DEF OwnedExists
  <2>1. CASE supAttempt'[s] = supAttempt[s]
    BY <1>1, <2>1 DEF LeaseInv, OwnedExists, Footprint, Claimed, Orphaned, GivenUp,
       CalledUpon, Entered, RowStays
  <2>. QED  BY <1>2, <2>1, OwnersKeep DEF Acquires
<1>. QED  BY <1>3, <1>4, <1>5, <1>6, <1>7 DEF LeaseInv

LEMMA LeaseInit == Init => LeaseInv
BY QueueAssumption
   DEF Init, LedgerInit, LaunchInit, LeaseInv, LiveRunnerIsLeased, OrphanIsDead,
       CallsOnStopped, SettledIsSealed, OwnedExists, NoCall, NoAttempt, AttemptIds, Cases,
       Attending, GuardianAlive

LEMMA LeaseInvariant == Spec => [](QueueTypes /\ LeaseInv)
<1>1. Init => QueueTypes /\ LeaseInv
  BY QueueTypesInit, LeaseInit
<1>2. (QueueTypes /\ LeaseInv) /\ [Next]_vars => (QueueTypes /\ LeaseInv)'
  BY QueueTypesStep, LeaseStep
<1>. QED  BY <1>1, <1>2, PTL DEF Spec

(* A runner, and the guardian that answers for it, live under an active    *)
(* attempt: neither a completion, a block, a retry or a reconciliation nor *)
(* any of them resumed after a crash lets the case or the worker go while  *)
(* a child may still run.                                                  *)
THEOREM RunnersAreLeased == Spec => []LiveRunnerIsLeased
BY LeaseInvariant, PTL DEF LeaseInv

(* No endpoint ever serves two runners: the rows give each worker to one   *)
(* attempt, and a runner lives under the row that holds its worker.        *)
THEOREM WorkersRunOne == Spec => []OneRunnerPerWorker
<1>1. QueueTypes /\ LeaseInv => OneRunnerPerWorker
  BY DEF QueueTypes, LedgerInv, LeaseInv, LiveRunnerIsLeased, WorkerExclusive, Held,
     OneRunnerPerWorker
<1>. QED  BY <1>1, LeaseInvariant, PTL

(* reconcile, whoever calls it, declares an orphan only when its owner,    *)
(* its guardian and its runner are gone, and nothing of them comes back.   *)
THEOREM OrphansAreDead == Spec => []OrphanIsDead
BY LeaseInvariant, PTL DEF LeaseInv
=============================================================================
