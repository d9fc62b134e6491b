------------------------ MODULE QueueEvidence_proofs ------------------------
(***************************************************************************)
(* The evidence of the shared case queue: what a completion that was       *)
(* accepted rests on, what a seal is worth, and what the calls leave of    *)
(* the evidence of an outcome once it is committed.                        *)
(***************************************************************************)
EXTENDS QueueLeases_proofs

-----------------------------------------------------------------------------
(* What one step may do to the files of an attempt: a call that begins or  *)
(* goes on inside its lock, a live runner, or nobody.                      *)
FilesStay(a) ==
    resultFile'[a] = resultFile[a] /\ failureFile'[a] = failureFile[a] /\ manifest'[a] = manifest[a]

RunnerWrote(a) ==
    /\ runner[a] = "live"
    /\ resultFile[a] \in {"absent", "torn"}
    /\ failureFile'[a] = failureFile[a] /\ manifest'[a] = manifest[a]

EvidenceFootprint(a) ==
    \/ CallBegins(a)
    \/ CallStep(a)
    \/ /\ CallStays(a)
       /\ outcome'[a] = outcome[a]
       /\ FilesStay(a) \/ RunnerWrote(a)

LEMMA BeginElsewhere ==
    ASSUME QueueTypes, NEW a \in AttemptIds, NEW b \in AttemptIds, CallBegins(b), a # b
    PROVE  CallStays(a) /\ outcome'[a] = outcome[a] /\ FilesStay(a)
<1>1. \E by, kind, at, source, content, code : EnterCall(b, by, kind, at, source, content, code)
  BY Zenon DEF CallBegins, FinishBegins, FailBegins, RecoverBegins
<1>2. call'[a] = call[a]
  BY <1>1 DEF EnterCall, QueueTypes, CallTypes
<1>3. outcome'[a] = outcome[a]
  BY DEF CallBegins, FinishBegins, FailBegins, RecoverBegins, ledgerVars
<1>4. WriteResult(b, "torn") \/ WriteFailure(b, "torn") \/ UNCHANGED evidenceVars
  BY Zenon DEF CallBegins, FinishBegins, FailBegins, RecoverBegins
<1>5. FilesStay(a)
  BY <1>4, QueueAssumption
     DEF WriteResult, WriteFailure, evidenceVars, FilesStay, QueueTypes, EvidenceTypeOK
<1>. QED  BY <1>2, <1>3, <1>5 DEF CallStays

(* What a call in progress may write.                                      *)
CallWrites(b) ==
    \/ \E content : WriteResult(b, content)
    \/ \E content : WriteFailure(b, content)
    \/ \E body : WriteManifest(b, body)
    \/ SealManifest(b)
    \/ UNCHANGED evidenceVars

LEMMA CallElsewhere ==
    ASSUME QueueTypes, NEW a \in AttemptIds, NEW b \in AttemptIds, CallStep(b), a # b
    PROVE  CallStays(a) /\ outcome'[a] = outcome[a] /\ FilesStay(a)
<1>1. call'[a] = call[a]
  BY CallStepMovesOn DEF CallMovesOn, MoveTo, EndCall, QueueTypes, CallTypes
<1>2. outcome'[a] = outcome[a]
  <2>1. \/ UNCHANGED outcome
        \/ \E o : outcome' = [outcome EXCEPT ![b] = o]
    <3>1. CASE CallCommits(b)
      <4>1. \/ UNCHANGED ledgerVars \/ CommitAccepted(b) \/ CommitRetryable(b)
            \/ CommitCapture(b, CallOutcome(b))
        BY <3>1, Zenon DEF CallCommits
      <4>. QED  BY <4>1, Zenon DEF CommitAccepted, CommitRetryable, CommitCapture, ledgerVars
    <3>2. CASE CallBlocks(b) \/ CallRequeues(b)
      <4>1. \/ UNCHANGED ledgerVars \/ Halt \/ BlockRow(b) \/ RequeueRow(b, FALSE)
        BY <3>2, Zenon DEF CallBlocks, CallRequeues, BlockAttempt, BlockOrphanRow
      <4>. QED  BY <4>1 DEF Halt, BlockRow, RequeueRow, ledgerVars
    <3>3. CASE CallWritesSidecar(b) \/ CallWritesManifest(b) \/ CallSealsManifest(b)
      BY <3>3 DEF CallWritesSidecar, CallWritesManifest, CallSealsManifest, ledgerVars
    <3>. QED  BY <3>1, <3>2, <3>3 DEF CallStep
  <2>. QED  BY <2>1 DEF QueueTypes, LedgerInv, LedgerTypeOK
<1>3. CallWrites(b)
  BY Zenon DEF CallStep, CallWritesSidecar, CallWritesManifest, CallSealsManifest,
     CallCommits, CallBlocks, CallRequeues, CallWrites
<1>4. FilesStay(a)
  BY <1>3, QueueAssumption
     DEF CallWrites, WriteResult, WriteFailure, WriteManifest, SealManifest, evidenceVars,
         FilesStay, QueueTypes, EvidenceTypeOK
<1>. QED  BY <1>1, <1>2, <1>4 DEF CallStays

LEMMA OutsideOutcome ==
    ASSUME OutsideCalls
    PROVE  UNCHANGED outcome
<1>1. ASSUME NEW s \in Supervisors, SupervisorClaims(s)
      PROVE  UNCHANGED outcome
  <2>1. Halt \/ UNCHANGED ledgerVars \/ \E c \in Cases : ClaimRow(WorkerOf[s], c)
    BY <1>1, Zenon DEF SupervisorClaims
  <2>. QED  BY <2>1 DEF Halt, ClaimRow, ledgerVars
<1>2. ASSUME NEW s \in Supervisors, SupervisorDecides(s)
      PROVE  UNCHANGED outcome
  <2>1. \/ BlockAttempt(supAttempt[s]) \/ RequeueRow(supAttempt[s], FALSE)
        \/ UNCHANGED ledgerVars
    BY <1>2, Zenon DEF SupervisorDecides
  <2>. QED  BY <2>1 DEF BlockAttempt, BlockRow, Halt, RequeueRow, ledgerVars
<1>3. ASSUME NEW s \in Supervisors,
             \/ SupervisorReconciles(s) \/ SupervisorRecordsCommand(s)
             \/ SupervisorBeginsLaunch(s) \/ SupervisorSpawns(s)
             \/ SupervisorStopsWatching(s) \/ SupervisorCollects(s)
             \/ SupervisorStarts(s) \/ SupervisorTimesOut(s)
      PROVE  UNCHANGED outcome
  BY <1>3 DEF SupervisorReconciles, SupervisorRecordsCommand, SupervisorBeginsLaunch,
     SupervisorSpawns, SupervisorStopsWatching, SupervisorCollects, SupervisorStarts,
     SupervisorTimesOut, OrphanRow, ledgerVars
<1>4. ASSUME NEW a \in AttemptIds,
             \/ GuardianStep(a) \/ RunnerWrites(a) \/ RunnerEnds(a)
             \/ OperatorReconciles(a) \/ OperatorRetries(a)
             \/ OperatorAudits(a) \/ GuardianCrashes(a) \/ GuardianRaises(a)
      PROVE  UNCHANGED outcome
  BY <1>4 DEF GuardianStep, GuardianBinds, GuardianUpdatesLease, GuardianStartsRunner,
     GuardianRecordsExit, GuardianEnds, RunnerWrites, RunnerEnds, OperatorReconciles,
     OperatorRetries, OperatorAudits, GuardianCrashes, GuardianRaises, OrphanRow, RequeueRow,
     Halt, ledgerVars
<1>5. CASE OperatorClearsHalt \/ UNCHANGED vars \/ UNCHANGED ledgerVars
  BY <1>5 DEF OperatorClearsHalt, ClearHaltRow, vars, ledgerVars
<1>. QED  BY <1>1, <1>2, <1>3, <1>4, <1>5 DEF OutsideCalls

(* Outside every call four steps write a file, none of them the manifest.  *)
OutsideWrites ==
    \/ \E s \in Supervisors :
          \/ SupervisorRecordsCommand(s) /\ WriteOwnerRecord(supAttempt[s], "command")
          \/ SupervisorCollects(s) /\ WriteOwnerRecord(supAttempt[s], "exit")
    \/ \E b \in AttemptIds :
          \/ guardian[b] = "binding" /\ \E content : WriteLease(b, content)
          \/ /\ runner[b] = "live" /\ resultFile[b] \in {"absent", "torn"}
             /\ \E content : WriteResult(b, content)
    \/ UNCHANGED evidenceVars

LEMMA OutsideIsWritten ==
    ASSUME OutsideCalls
    PROVE  OutsideWrites
<1>1. ASSUME NEW s \in Supervisors, SupervisorRecordsCommand(s) \/ SupervisorCollects(s)
      PROVE  OutsideWrites
  BY <1>1, Zenon DEF SupervisorRecordsCommand, SupervisorCollects, OutsideWrites
<1>2. ASSUME NEW a \in AttemptIds, GuardianUpdatesLease(a) \/ RunnerWrites(a)
      PROVE  OutsideWrites
  BY <1>2 DEF GuardianUpdatesLease, RunnerWrites, OutsideWrites
<1>3. \/ \E s \in Supervisors : SupervisorRecordsCommand(s) \/ SupervisorCollects(s)
      \/ \E a \in AttemptIds : GuardianUpdatesLease(a) \/ RunnerWrites(a)
      \/ UNCHANGED evidenceVars
  BY DEF OutsideCalls, SupervisorReconciles, SupervisorClaims, SupervisorBeginsLaunch,
     SupervisorSpawns, SupervisorStopsWatching, SupervisorDecides, SupervisorStarts,
     SupervisorTimesOut, GuardianStep, GuardianBinds, GuardianStartsRunner,
     GuardianRecordsExit, GuardianEnds, RunnerEnds, OperatorReconciles, OperatorRetries,
     OperatorAudits, GuardianCrashes, GuardianRaises, OperatorClearsHalt, vars
<1>. QED  BY <1>1, <1>2, <1>3 DEF OutsideWrites

LEMMA StepEvidence ==
    ASSUME QueueTypes, [Next]_vars, NEW a \in AttemptIds
    PROVE  EvidenceFootprint(a)
<1>1. CASE CallsDrop
  <2>1. CallStays(a)
    BY <1>1, DropsTypes DEF CallStays, QueueTypes
  <2>. QED  BY <1>1, <2>1 DEF CallsDrop, ledgerVars, evidenceVars, EvidenceFootprint, FilesStay
<1>2. CASE OutsideCalls
  <2>1. CallStays(a) /\ outcome'[a] = outcome[a]
    BY <1>2, OutsideOutcome DEF OutsideCalls, CallStays
  <2>2. FilesStay(a) \/ RunnerWrote(a)
    BY <1>2, OutsideIsWritten, QueueAssumption
       DEF OutsideWrites, WriteOwnerRecord, WriteLease, WriteResult, evidenceVars, FilesStay,
           RunnerWrote, QueueTypes, EvidenceTypeOK
  <2>. QED  BY <2>1, <2>2 DEF EvidenceFootprint
<1>3. ASSUME NEW b \in AttemptIds, CallBegins(b) \/ CallStep(b)
      PROVE  EvidenceFootprint(a)
  BY <1>3, BeginElsewhere, CallElsewhere DEF EvidenceFootprint
<1>. QED  BY <1>1, <1>2, <1>3, StepKinds DEF QueueTypes

-----------------------------------------------------------------------------
(* A call never loses sight of its files: what it read, wrote or compared  *)
(* in an earlier step is what the directory still holds in a later one.    *)
CallFiles ==
    \A a \in AttemptIds :
        /\ call[a].at = "result" => resultFile[a] = "torn"
        /\ call[a].at \in {"manifest", "seal", "commit"} /\ call[a].source = "result"
             => resultFile[a] = call[a].content
        /\ call[a].at \in {"seal", "commit"} =>
             /\ manifest[a].body.of = call[a].source
             /\ manifest[a].body.result = resultFile[a]
        /\ call[a].at = "seal" => manifest[a].state = "torn"
        /\ call[a].at = "commit" => manifest[a].state = "sealed"

EvidenceInv == CallFiles /\ AcceptedIsProven

(* CallFiles of one attempt, after a step.                                 *)
FilesAgree(a) ==
    /\ call'[a].at = "result" => resultFile'[a] = "torn"
    /\ call'[a].at \in {"manifest", "seal", "commit"} /\ call'[a].source = "result"
         => resultFile'[a] = call'[a].content
    /\ call'[a].at \in {"seal", "commit"} =>
         /\ manifest'[a].body.of = call'[a].source
         /\ manifest'[a].body.result = resultFile'[a]
    /\ call'[a].at = "seal" => manifest'[a].state = "torn"
    /\ call'[a].at = "commit" => manifest'[a].state = "sealed"

LEMMA EnteredCall ==
    ASSUME QueueTypes, NEW a \in AttemptIds, NEW by, NEW kind, NEW at, NEW source, NEW content,
           NEW code, EnterCall(a, by, kind, at, source, content, code)
    PROVE  /\ call'[a].by = by /\ call'[a].kind = kind /\ call'[a].at = at
           /\ call'[a].source = source /\ call'[a].content = content
           /\ call'[a].launch = launchState[a] /\ call'[a].sealed = (outcome[a] # "none")
BY DEF EnterCall, QueueTypes, CallTypes

LEMMA MovedCall ==
    ASSUME QueueTypes, NEW a \in AttemptIds, NEW at, MoveTo(a, at)
    PROVE  /\ call'[a].at = at /\ call'[a].by = call[a].by /\ call'[a].kind = call[a].kind
           /\ call'[a].source = call[a].source /\ call'[a].content = call[a].content
           /\ call'[a].launch = call[a].launch /\ call'[a].sealed = call[a].sealed
<1>1. call'[a] = [call[a] EXCEPT !.at = at] /\ call[a] \in Calls
  BY DEF MoveTo, QueueTypes, CallTypes
<1>. QED  BY <1>1 DEF Calls

LEMMA EndedCall ==
    ASSUME QueueTypes, NEW a \in AttemptIds, NEW result, EndCall(a, result)
    PROVE  call'[a] = NoCall
BY DEF EndCall, QueueTypes, CallTypes

LEMMA BlankAgrees ==
    ASSUME NEW a, call'[a].at \in {"none", "block", "requeue", "failure"}
    PROVE  FilesAgree(a)
BY DEF FilesAgree

LEMMA BeginAgrees ==
    ASSUME QueueTypes, NEW a \in AttemptIds, CallBegins(a)
    PROVE  FilesAgree(a)
<1>1. ASSUME NEW by, NEW code, NEW supplied, FinishBegins(a, by, supplied, code)
      PROVE  FilesAgree(a)
  <2>1. CASE /\ WriteResult(a, "torn")
             /\ EnterCall(a, by, "finish", "result", "result", supplied, code)
    <3>1. resultFile'[a] = "torn" /\ call'[a].at = "result"
      BY <2>1, EnteredCall, QueueAssumption DEF WriteResult, QueueTypes, EvidenceTypeOK
    <3>. QED  BY <3>1 DEF FilesAgree
  <2>2. CASE /\ UNCHANGED evidenceVars
             /\ \E at \in {"manifest", "block"} :
                   EnterCall(a, by, "finish", at, "result", resultFile[a], code)
    <3>1. /\ call'[a].at \in {"manifest", "block"} /\ call'[a].content = resultFile[a]
          /\ resultFile'[a] = resultFile[a]
      BY <2>2, EnteredCall DEF evidenceVars
    <3>. QED  BY <3>1 DEF FilesAgree
  <2>. QED  BY <1>1, <2>1, <2>2, Zenon DEF FinishBegins
<1>2. ASSUME NEW by, NEW kind, FailBegins(a, by, kind)
      PROVE  FilesAgree(a)
  <2>1. \E at \in {"failure", "manifest", "block"} :
           EnterCall(a, by, "fail", at, "failure", kind, "none")
    BY <1>2, Zenon DEF FailBegins
  <2>2. call'[a].at \in {"failure", "manifest", "block"} /\ call'[a].source = "failure"
    BY <2>1, EnteredCall
  <2>. QED  BY <2>2 DEF FilesAgree
<1>3. ASSUME NEW action, RecoverBegins(a, action)
      PROVE  FilesAgree(a)
  <2>1. CASE /\ UNCHANGED evidenceVars
             /\ \E at \in {"manifest", "block"} :
                   EnterCall(a, "operator", action, at, "result", resultFile[a], "none")
    <3>1. /\ call'[a].at \in {"manifest", "block"} /\ call'[a].content = resultFile[a]
          /\ resultFile'[a] = resultFile[a]
      BY <2>1, EnteredCall DEF evidenceVars
    <3>. QED  BY <3>1 DEF FilesAgree
  <2>2. CASE \E content : \E at \in {"manifest", "block", "failure"} :
                EnterCall(a, "operator", action, at, "failure", content, "none")
    <3>1. call'[a].at \in {"manifest", "block", "failure"} /\ call'[a].source = "failure"
      BY <2>2, EnteredCall
    <3>. QED  BY <3>1 DEF FilesAgree
  <2>. QED  BY <1>3, <2>1, <2>2, Zenon DEF RecoverBegins
<1>. QED  BY <1>1, <1>2, <1>3, Zenon DEF CallBegins

LEMMA StepAgrees ==
    ASSUME QueueTypes, CallFiles, NEW a \in AttemptIds, CallStep(a)
    PROVE  FilesAgree(a)
<1>. DEFINE body == Inventory(a, call[a].source, call[a].launch)
<1>1. ASSUME NEW result, EndCall(a, result)
      PROVE  FilesAgree(a)
  BY <1>1, EndedCall, BlankAgrees DEF NoCall
<1>2. ASSUME NEW at \in {"block", "requeue"}, MoveTo(a, at)
      PROVE  FilesAgree(a)
  BY <1>2, MovedCall, BlankAgrees
<1>3. body.of = call[a].source /\ body.result = resultFile[a]
  BY DEF Inventory
<1>. HIDE DEF body
<1>4. manifest[a] \in [state : {"absent", "torn", "sealed"}, body : Inventories]
  BY QueueAssumption DEF QueueTypes, EvidenceTypeOK
<1>5. CASE CallWritesSidecar(a)
  <2>1. MoveTo(a, "manifest")
    BY <1>5 DEF CallWritesSidecar
  <2>2. call'[a].at = "manifest" /\ call'[a].source = call[a].source
        /\ call'[a].content = call[a].content
    BY <2>1, MovedCall
  <2>3. call[a].source = "result" => resultFile'[a] = call[a].content
    <3>1. call[a].source = "result" => call[a].at # "failure"
      BY DEF QueueTypes, CallTypes
    <3>. QED  BY <1>5, <3>1, QueueAssumption
              DEF CallWritesSidecar, WriteResult, QueueTypes, EvidenceTypeOK
  <2>. QED  BY <2>2, <2>3 DEF FilesAgree
<1>6. CASE CallWritesManifest(a)
  <2>1. \/ MoveTo(a, "block") \/ EndCall(a, "raised")
        \/ WriteManifest(a, body) /\ MoveTo(a, "seal")
        \/ /\ manifest[a].state = "sealed" /\ manifest[a].body = body
           /\ UNCHANGED evidenceVars /\ AfterManifest(a)
    BY <1>6, Zenon DEF CallWritesManifest, body
  <2>2. call[a].at = "manifest" /\ (call[a].source = "result" => resultFile[a] = call[a].content)
    BY <1>6 DEF CallWritesManifest, CallFiles
  <2>3. CASE WriteManifest(a, body) /\ MoveTo(a, "seal")
    <3>1. /\ manifest'[a] = [state |-> "torn", body |-> body]
          /\ resultFile'[a] = resultFile[a]
      BY <2>3, QueueAssumption DEF WriteManifest, QueueTypes, EvidenceTypeOK
    <3>2. /\ call'[a].at = "seal" /\ call'[a].source = call[a].source
          /\ call'[a].content = call[a].content
      BY <2>3, MovedCall
    <3>. QED  BY <1>3, <2>2, <3>1, <3>2 DEF FilesAgree
  <2>4. CASE /\ manifest[a].state = "sealed" /\ manifest[a].body = body
             /\ UNCHANGED evidenceVars /\ MoveTo(a, "commit")
    <3>1. manifest'[a] = manifest[a] /\ resultFile'[a] = resultFile[a]
      BY <2>4 DEF evidenceVars
    <3>2. /\ call'[a].at = "commit" /\ call'[a].source = call[a].source
          /\ call'[a].content = call[a].content
      BY <2>4, MovedCall
    <3>. QED  BY <1>3, <2>2, <2>4, <3>1, <3>2 DEF FilesAgree
  <2>. QED  BY <1>1, <1>2, <2>1, <2>3, <2>4 DEF AfterManifest
<1>7. CASE CallSealsManifest(a)
  <2>1. SealManifest(a) /\ (MoveTo(a, "commit") \/ EndCall(a, "raised"))
    BY <1>7 DEF CallSealsManifest, AfterManifest
  <2>2. /\ call[a].at = "seal"
        /\ call[a].source = "result" => resultFile[a] = call[a].content
        /\ manifest[a].body.of = call[a].source /\ manifest[a].body.result = resultFile[a]
    BY <1>7 DEF CallSealsManifest, CallFiles
  <2>3. CASE MoveTo(a, "commit")
    <3>1. manifest'[a] = [manifest[a] EXCEPT !.state = "sealed"] /\ resultFile'[a] = resultFile[a]
      BY <2>1, QueueAssumption DEF SealManifest, QueueTypes, EvidenceTypeOK
    <3>2. manifest'[a].state = "sealed" /\ manifest'[a].body = manifest[a].body
      BY <1>4, <3>1
    <3>3. /\ call'[a].at = "commit" /\ call'[a].source = call[a].source
          /\ call'[a].content = call[a].content
      BY <2>3, MovedCall
    <3>. QED  BY <2>2, <3>1, <3>2, <3>3 DEF FilesAgree
  <2>. QED  BY <1>1, <2>1, <2>3
<1>8. ASSUME CallCommits(a) \/ CallBlocks(a) \/ CallRequeues(a)
      PROVE  (\E result : EndCall(a, result)) \/ \E at \in {"block", "requeue"} : MoveTo(a, at)
  BY <1>8, Zenon DEF CallCommits, CallBlocks, CallRequeues
<1>. QED  BY <1>1, <1>2, <1>5, <1>6, <1>7, <1>8 DEF CallStep

LEMMA CallFilesStep ==
    ASSUME QueueTypes, CallsOnStopped, CallFiles, [Next]_vars
    PROVE  CallFiles'
<1>1. ASSUME NEW a \in AttemptIds
      PROVE  FilesAgree(a)
  <2>1. CASE CallStays(a) /\ (FilesStay(a) \/ RunnerWrote(a))
    <3>1. RunnerWrote(a) => call'[a].at = "none"
      BY <2>1 DEF CallStays, RunnerWrote, CallsOnStopped, NoCall
    <3>2. FilesStay(a) /\ call'[a] = call[a] => FilesAgree(a)
      BY DEF FilesStay, FilesAgree, CallFiles
    <3>. QED  BY <2>1, <3>1, <3>2, BlankAgrees DEF CallStays, NoCall
  <2>. QED  BY <2>1, StepEvidence, BeginAgrees, StepAgrees DEF EvidenceFootprint
<1>. QED  BY <1>1 DEF CallFiles, FilesAgree

-----------------------------------------------------------------------------
(* What a commit rests on.                                                 *)
LEMMA AcceptedClass ==
    ASSUME QueueTypes, NEW a \in AttemptIds, CallClass(a) = "accepted"
    PROVE  call[a].source = "result" /\ call[a].content = "completed"
<1>1. CASE call[a].source = "result"
  <2>1. ResultClass(call[a].content) = "accepted"
    BY <1>1 DEF CallClass
  <2>2. CASE call[a].content = "failed"
    BY <2>1, <2>2, Zenon DEF ResultClass
  <2>3. CASE call[a].content # "failed" /\ call[a].content # "completed"
    BY <2>1, <2>3, Zenon DEF ResultClass
  <2>. QED  BY <1>1, <2>2, <2>3
<1>2. CASE call[a].source # "result"
  BY <1>2 DEF CallClass, FailureClass
<1>. QED  BY <1>1, <1>2

LEMMA StoppedReceipt ==
    ASSUME QueueTypes, NEW a \in AttemptIds, RunnerStopped(a)
    PROVE  launchState[a] = "unstarted" \/ Receipt(a) \in ExitCodes
BY QueueAssumption, StoppedMeans DEF QueueTypes, LaunchHolds, LaunchShape, Receipt

AttemptIsProven(a) ==
    /\ resultFile'[a] = "completed"
    /\ manifest'[a].state = "sealed"
    /\ manifest'[a].body.of = "result" /\ manifest'[a].body.result = "completed"
    /\ launchState'[a] = "unstarted" \/ Receipt(a)' = "zero"

LEMMA CommitIsProven ==
    ASSUME QueueTypes, CallFiles, NEW a \in AttemptIds, CallCommits(a), CommitAccepted(a),
           CallOutcome(a) = "accepted", ~CommitRefused(a)
    PROVE  AttemptIsProven(a)
<1>1. CallClass(a) = "accepted" /\ ObservedCode(a) # "nonzero"
  BY DEF CallOutcome
<1>2. call[a].source = "result" /\ call[a].content = "completed" /\ call[a].at = "commit"
  BY <1>1, AcceptedClass DEF CallCommits
<1>3. /\ resultFile[a] = "completed"
      /\ manifest[a].state = "sealed"
      /\ manifest[a].body.of = "result" /\ manifest[a].body.result = "completed"
  BY <1>2 DEF CallFiles
<1>4. launchState[a] = "unstarted" \/ Receipt(a) = "zero"
  <2>1. launchState[a] = "unstarted" \/ Receipt(a) \in ExitCodes
    BY StoppedReceipt DEF CommitRefused
  <2>. QED  BY <1>1, <2>1 DEF ObservedCode, ExitCodes
<1>5. UNCHANGED launchVars /\ UNCHANGED evidenceVars
  BY DEF CallCommits
<1>6. /\ resultFile'[a] = resultFile[a] /\ manifest'[a] = manifest[a]
      /\ launchState'[a] = launchState[a] /\ Receipt(a)' = Receipt(a)
  BY <1>5 DEF launchVars, evidenceVars, Receipt
<1>. QED  BY <1>3, <1>4, <1>6 DEF AttemptIsProven

(* An acceptance is committed in one way.                                  *)
LEMMA AcceptedByCommit ==
    ASSUME QueueTypes, LeaseInv, [Next]_vars, NEW a \in AttemptIds,
           attemptStatus[a] # "accepted", attemptStatus'[a] = "accepted"
    PROVE  /\ CallCommits(a) /\ CommitAccepted(a)
           /\ CallOutcome(a) = "accepted" /\ ~CommitRefused(a)
<1>1. Footprint(a)
  BY StepFootprint DEF LeaseInv
<1>2. CASE CallStep(a)
  <2>1. ~CallWritesSidecar(a) /\ ~CallWritesManifest(a) /\ ~CallSealsManifest(a)
    BY DEF CallWritesSidecar, CallWritesManifest, CallSealsManifest, ledgerVars
  <2>2. ~CallBlocks(a) /\ ~CallRequeues(a)
    <3>1. ASSUME CallBlocks(a) \/ CallRequeues(a)
          PROVE  UNCHANGED ledgerVars \/ Halt \/ BlockRow(a) \/ RequeueRow(a, FALSE)
      BY <3>1, Zenon DEF CallBlocks, CallRequeues, BlockAttempt, BlockOrphanRow
    <3>. QED  BY <3>1 DEF Halt, BlockRow, RequeueRow, ledgerVars, QueueTypes, LedgerInv,
              LedgerTypeOK
  <2>3. CallCommits(a)
    BY <1>2, <2>1, <2>2 DEF CallStep
  <2>4. \/ UNCHANGED ledgerVars \/ CommitRetryable(a) \/ CommitCapture(a, CallOutcome(a))
        \/ CommitAccepted(a) /\ CallOutcome(a) = "accepted" /\ ~CommitRefused(a)
    BY <2>3, Zenon DEF CallCommits
  <2>5. ~CommitRetryable(a) /\ ~CommitCapture(a, CallOutcome(a)) /\ ~UNCHANGED ledgerVars
    BY DEF CommitRetryable, CommitCapture, ledgerVars, QueueTypes, LedgerInv, LedgerTypeOK
  <2>. QED  BY <2>3, <2>4, <2>5
<1>3. CASE CallBegins(a)
  BY <1>3 DEF CallBegins, FinishBegins, FailBegins, RecoverBegins, ledgerVars
<1>4. outcome[a] # "accepted" /\ outcome'[a] = "accepted"
  <2>1. LedgerInv'
    BY QueueTypesStep DEF QueueTypes
  <2>. QED  BY <2>1 DEF QueueTypes, LedgerInv, OutcomeAgreement
<1>. QED  BY <1>2, <1>3, <1>4, StepEvidence DEF EvidenceFootprint

(* The files of an accepted attempt are left alone: nobody writes a result *)
(* that is complete, and no call replaces a seal.                          *)
SealStays(a) == manifest[a].state = "sealed" => manifest'[a] = manifest[a]

LEMMA BeginKeepsSeal ==
    ASSUME QueueTypes, NEW a \in AttemptIds, CallBegins(a)
    PROVE  /\ manifest'[a] = manifest[a]
           /\ resultFile[a] # "absent" => resultFile'[a] = resultFile[a]
<1>1. \/ WriteResult(a, "torn") /\ resultFile[a] = "absent"
      \/ WriteFailure(a, "torn") \/ UNCHANGED evidenceVars
  BY Zenon DEF CallBegins, FinishBegins, FailBegins, RecoverBegins
<1>. QED  BY <1>1 DEF WriteResult, WriteFailure, evidenceVars

LEMMA CallKeepsSeal ==
    ASSUME QueueTypes, CallFiles, NEW a \in AttemptIds, CallStep(a)
    PROVE  SealStays(a) /\ (resultFile[a] # "torn" => resultFile'[a] = resultFile[a])
<1>1. \/ call[a].at = "result" /\ WriteResult(a, call[a].content)
      \/ WriteFailure(a, call[a].content)
      \/ ManifestMissing(a) /\ \E body : WriteManifest(a, body)
      \/ call[a].at = "seal" /\ SealManifest(a)
      \/ UNCHANGED evidenceVars
  BY Zenon DEF CallStep, CallWritesSidecar, CallWritesManifest, CallSealsManifest,
     CallCommits, CallBlocks, CallRequeues
<1>. QED  BY <1>1 DEF CallFiles, ManifestMissing, WriteResult, WriteFailure, WriteManifest,
          SealManifest, evidenceVars, SealStays

LEMMA SealStep ==
    ASSUME QueueTypes, CallFiles, [Next]_vars, NEW a \in AttemptIds
    PROVE  SealStays(a)
BY StepEvidence, BeginKeepsSeal, CallKeepsSeal
   DEF EvidenceFootprint, FilesStay, RunnerWrote, SealStays

LEMMA ProvenStays ==
    ASSUME QueueTypes, LeaseInv, EvidenceInv, [Next]_vars, NEW a \in AttemptIds,
           attemptStatus[a] = "accepted", attemptStatus'[a] = "accepted"
    PROVE  AttemptIsProven(a)
<1>1. /\ resultFile[a] = "completed"
      /\ manifest[a].state = "sealed"
      /\ manifest[a].body.of = "result" /\ manifest[a].body.result = "completed"
      /\ launchState[a] = "unstarted" \/ Receipt(a) = "zero"
  BY DEF EvidenceInv, AcceptedIsProven
<1>2. manifest'[a] = manifest[a]
  BY <1>1, SealStep DEF SealStays, EvidenceInv
<1>3. resultFile'[a] = "completed"
  BY <1>1, StepEvidence, BeginKeepsSeal, CallKeepsSeal
     DEF EvidenceFootprint, FilesStay, RunnerWrote, EvidenceInv
<1>4. launchState'[a] = launchState[a]
  <2>1. runner[a] # "live" /\ ~Attending(a)
    BY DEF LeaseInv, LiveRunnerIsLeased, Attending
  <2>2. Footprint(a)
    BY StepFootprint DEF LeaseInv
  <2>3. ~LaunchBegun(a) /\ ~Bound(a)
    BY DEF LaunchBegun, Bound
  <2>. QED  BY <2>1, <2>2, <2>3 DEF Footprint, Claimed, Orphaned, GivenUp, CalledUpon,
            Entered, LaunchStays, Spawned, WindingUp
<1>5. launchState[a] = "exited" => runner'[a] = runner[a]
  <2>1. launchState[a] = "exited" => runner[a] \in ExitCodes
    BY QueueAssumption DEF QueueTypes, LaunchHolds, LaunchShape
  <2>2. LaunchNext \/ UNCHANGED launchVars
    BY QueueStep DEF QueueTypes, Moves, LaunchMove
  <2>. QED  BY <2>1, <2>2, RunnerStep, QueueAssumption DEF QueueTypes, LaunchHolds, launchVars
<1>6. launchState'[a] = "unstarted" \/ Receipt(a)' = "zero"
  BY <1>1, <1>4, <1>5 DEF Receipt
<1>. QED  BY <1>1, <1>2, <1>3, <1>6 DEF AttemptIsProven

LEMMA EvidenceInvStep ==
    ASSUME QueueTypes, LeaseInv, EvidenceInv, [Next]_vars
    PROVE  EvidenceInv'
<1>1. CallFiles'
  BY CallFilesStep DEF EvidenceInv, LeaseInv
<1>2. ASSUME NEW a \in AttemptIds, attemptStatus'[a] = "accepted"
      PROVE  AttemptIsProven(a)
  <2>1. CASE attemptStatus[a] = "accepted"
    BY <1>2, <2>1, ProvenStays
  <2>2. CASE attemptStatus[a] # "accepted"
    BY <1>2, <2>2, AcceptedByCommit, CommitIsProven DEF EvidenceInv
  <2>. QED  BY <2>1, <2>2
<1>3. AcceptedIsProven'
  BY <1>2 DEF AcceptedIsProven, AttemptIsProven
<1>. QED  BY <1>1, <1>3 DEF EvidenceInv

LEMMA EvidenceInvariant == Spec => [](QueueTypes /\ LeaseInv /\ EvidenceInv)
<1>1. Init => EvidenceInv
  BY DEF Init, LedgerInit, NoCall, EvidenceInv, CallFiles, AcceptedIsProven
<1>2. QueueTypes /\ LeaseInv /\ EvidenceInv /\ [Next]_vars => EvidenceInv'
  BY EvidenceInvStep
<1>. QED  BY <1>1, <1>2, LeaseInvariant, PTL DEF Spec

(* An acceptance rests on a whole completed result, sealed by a whole      *)
(* manifest of that result, and on a runner that attested exit code zero   *)
(* or was never launched; none of it is ever taken away.                   *)
THEOREM AcceptancesAreProven == Spec => []AcceptedIsProven
BY EvidenceInvariant, PTL DEF EvidenceInv

(* A sealed manifest is never written again: not by a replay, a recovery   *)
(* after a crash between the seal and the commit, or a later completion.   *)
THEOREM SealsAreFinal == Spec => SealIsFinal
<1>1. QueueTypes /\ LeaseInv /\ EvidenceInv /\ [Next]_vars =>
        \A a \in AttemptIds : manifest[a].state = "sealed" => manifest'[a] = manifest[a]
  BY SealStep DEF EvidenceInv, SealStays
<1>. QED  BY <1>1, EvidenceInvariant, PTL DEF Spec, SealIsFinal

-----------------------------------------------------------------------------
(* Completions by hand.  An operator may finish or fail an attempt whose   *)
(* supervisor is alive, between any two of its steps.  What follows is     *)
(* about campaigns in which no operator does: completions are left to the  *)
(* supervisors, and operators recover orphans.                             *)
NoHandCompletion == OperatorCalls \cap {"finish", "fail"} = {}

OwnerEntered(a) == \E s \in Supervisors : supAttempt[s] = a /\ OwnerBegins(s)

Recovered(a) ==
    /\ UNCHANGED supervisorVars
    /\ \E action \in {"inspect", "accept", "retry"} : RecoverBegins(a, action)

(* EvidenceFootprint, when nobody else enters the attempt.                 *)
AloneFootprint(a) ==
    \/ OwnerEntered(a)
    \/ Recovered(a)
    \/ CallStep(a)
    \/ /\ CallStays(a)
       /\ outcome'[a] = outcome[a]
       /\ FilesStay(a) \/ RunnerWrote(a)

LEMMA StepAlone ==
    ASSUME NoHandCompletion, QueueTypes, [Next]_vars, NEW a \in AttemptIds
    PROVE  AloneFootprint(a)
<1>1. ASSUME NEW s \in Supervisors, OwnerBegins(s)
      PROVE  AloneFootprint(a)
  <2>1. supAttempt[s] \in AttemptIds /\ CallBegins(supAttempt[s])
    BY <1>1, BeginKinds DEF QueueTypes
  <2>2. CASE supAttempt[s] = a
    BY <1>1, <2>2 DEF AloneFootprint, OwnerEntered
  <2>3. CASE supAttempt[s] # a
    BY <2>1, <2>3, BeginElsewhere DEF AloneFootprint
  <2>. QED  BY <2>2, <2>3
<1>2. ASSUME NEW b \in AttemptIds, OperatorBegins(b)
      PROVE  AloneFootprint(a)
  <2>1. OperatorRecovers(b)
    BY <1>2 DEF OperatorBegins, OperatorFinishes, OperatorFails, NoHandCompletion
  <2>2. Recovered(b)
    BY <2>1 DEF OperatorRecovers, Recovered, RecoverBegins
  <2>3. CallBegins(b)
    BY <1>2, BeginKinds DEF QueueTypes
  <2>. QED  BY <2>2, <2>3, BeginElsewhere DEF AloneFootprint
<1>3. ASSUME NEW b \in AttemptIds, CallStep(b)
      PROVE  AloneFootprint(a)
  BY <1>3, CallElsewhere DEF AloneFootprint
<1>4. CASE CallsDrop
  <2>1. CallStays(a)
    BY <1>4, DropsTypes DEF CallStays, QueueTypes
  <2>. QED  BY <1>4, <2>1 DEF CallsDrop, ledgerVars, evidenceVars, AloneFootprint, FilesStay
<1>5. CASE OutsideCalls
  <2>1. CallStays(a) /\ outcome'[a] = outcome[a]
    BY <1>5, OutsideOutcome DEF OutsideCalls, CallStays
  <2>2. FilesStay(a) \/ RunnerWrote(a)
    BY <1>5, OutsideIsWritten, QueueAssumption
       DEF OutsideWrites, WriteOwnerRecord, WriteLease, WriteResult, evidenceVars, FilesStay,
           RunnerWrote, QueueTypes, EvidenceTypeOK
  <2>. QED  BY <2>1, <2>2 DEF AloneFootprint
<1>. QED  BY <1>1, <1>2, <1>3, <1>4, <1>5, StepSources

(* Every attempt has one owner at most; until the owner enters its own     *)
(* completion the attempt is active and nobody else is inside its lock.    *)
OneOwner ==
    \A s, t \in Supervisors :
        supAttempt[s] \in AttemptIds /\ supAttempt[s] = supAttempt[t] => s = t

OwnersWork ==
    \A s \in Supervisors : supState[s] \in Working =>
        attemptStatus[supAttempt[s]] = "active" /\ call[supAttempt[s]].at = "none"

CallersKnown ==
    \A a \in AttemptIds :
        /\ call[a].at # "none" => attemptStatus[a] # "absent"
        /\ call[a].at # "none" <=> call[a].by \in {"owner", "operator"}
        /\ call[a].by = "operator" => ~OwnerAlive(a)
        /\ call[a].by = "owner" =>
              \E s \in Supervisors : supAttempt[s] = a /\ supState[s] = "settle"

(* A supervisor is about to report a failure only where there is no result *)
(* and nobody left who could write one.                                    *)
FailHasNoResult ==
    \A s \in Supervisors : supState[s] = "fail" =>
        /\ resultFile[supAttempt[s]] = "absent"
        /\ runner[supAttempt[s]] # "live"
        /\ ~GuardianAlive(supAttempt[s])

OwnerInv == OneOwner /\ OwnersWork /\ CallersKnown /\ FailHasNoResult

AllInv == QueueTypes /\ LeaseInv /\ EvidenceInv /\ OwnerInv

LEMMA WorkersOwn ==
    ASSUME QueueTypes, NEW s \in Supervisors, supState[s] \in Working
    PROVE  supAttempt[s] \in AttemptIds /\ OwnerAlive(supAttempt[s])
BY DEF Working, QueueTypes, OwnersHold, Owning, SupervisorStates, OwnerAlive

LEMMA OneOwnerStep ==
    ASSUME AllInv, [Next]_vars
    PROVE  OneOwner'
<1>. SUFFICES ASSUME NEW s \in Supervisors, NEW t \in Supervisors,
                     supAttempt'[s] \in AttemptIds, supAttempt'[s] = supAttempt'[t], s # t
              PROVE  FALSE
  BY DEF OneOwner
<1>1. OwnersMove
  BY OwnersStep DEF AllInv
<1>2. ASSUME NEW u \in Supervisors, NEW v \in Supervisors, u # v, Acquires(u),
             supAttempt'[u] = supAttempt'[v]
      PROVE  FALSE
  <2>1. supAttempt'[v] = supAttempt[v]
    BY <1>1, <1>2 DEF OwnersMove, Rests
  <2>. QED  BY <1>2, <2>1 DEF Acquires, AllInv, LeaseInv, OwnedExists
<1>3. supAttempt'[s] = supAttempt[s] /\ supAttempt'[t] = supAttempt[t]
  BY <1>1, <1>2, OwnersKeep DEF AllInv
<1>. QED  BY <1>3 DEF AllInv, OwnerInv, OneOwner

(* Nobody begins a call on the attempt of a supervisor at work but itself. *)
LEMMA WorkIsUndisturbed ==
    ASSUME NoHandCompletion, AllInv, [Next]_vars, NEW s \in Supervisors,
           supState[s] \in Working, supState'[s] \in Working
    PROVE  /\ CallStays(supAttempt[s])
           /\ FilesStay(supAttempt[s]) \/ RunnerWrote(supAttempt[s])
<1>. DEFINE a == supAttempt[s]
<1>1. a \in AttemptIds /\ OwnerAlive(a) /\ call[a].at = "none"
  BY WorkersOwn DEF AllInv, OwnerInv, OwnersWork
<1>2. ~OwnerEntered(a)
  <2>. SUFFICES ASSUME NEW t \in Supervisors, supAttempt[t] = a, OwnerBegins(t)
                PROVE  FALSE
    BY DEF OwnerEntered
  <2>1. t = s
    BY <1>1 DEF AllInv, OwnerInv, OneOwner
  <2>2. supState'[s] = "settle"
    BY <2>1 DEF OwnerBegins, GoTo, AllInv, QueueTypes, OwnersHold
  <2>. QED  BY <2>2 DEF Working
<1>3. ~Recovered(a)
  BY <1>1 DEF Recovered, RecoverBegins, Dead
<1>4. ~CallStep(a)
  BY <1>1 DEF CallStep, CallWritesSidecar, CallWritesManifest, CallSealsManifest,
     CallCommits, CallBlocks, CallRequeues
<1>5. AloneFootprint(a)
  BY <1>1, StepAlone DEF AllInv
<1>. QED  BY <1>2, <1>3, <1>4, <1>5 DEF AloneFootprint

LEMMA OwnersWorkStep ==
    ASSUME NoHandCompletion, AllInv, [Next]_vars
    PROVE  OwnersWork'
<1>. SUFFICES ASSUME NEW s \in Supervisors, supState'[s] \in Working, NEW a, a = supAttempt'[s]
              PROVE  attemptStatus'[a] = "active" /\ call'[a].at = "none"
  BY DEF OwnersWork
<1>1. SupervisorMoves(s)
  BY OwnersStep DEF AllInv, OwnersMove
<1>2. CASE Acquires(s)
  <2>1. a \in AttemptIds /\ attemptStatus[a] = "absent" /\ attemptStatus'[a] = "active"
    BY <1>2 DEF Acquires
  <2>2. call[a].at = "none"
    BY <2>1 DEF AllInv, OwnerInv, CallersKnown
  <2>3. Footprint(a)
    BY <2>1, StepFootprint DEF AllInv, LeaseInv
  <2>4. CallStays(a)
    BY <2>1, <2>2, <2>3 DEF Footprint, Orphaned, GivenUp, CalledUpon, Entered, RowStays, Claimed
  <2>. QED  BY <2>1, <2>2, <2>4 DEF CallStays, NoCall
<1>3. CASE ~Acquires(s)
  <2>1. supState[s] \in Working /\ supAttempt'[s] = supAttempt[s]
    <3>1. ~OwnerBegins(s)
      BY DEF OwnerBegins, GoTo, AllInv, QueueTypes, OwnersHold, Working
    <3>. QED  BY <1>1, <1>3, <3>1 DEF SupervisorMoves, Rests, Works, ComesToDecide, Withdraws,
              Working
  <2>2. a \in AttemptIds /\ OwnerAlive(a) /\ attemptStatus[a] = "active" /\ call[a].at = "none"
    BY <2>1, WorkersOwn DEF AllInv, OwnerInv, OwnersWork
  <2>3. CallStays(a)
    BY <2>1, WorkIsUndisturbed
  <2>4. Footprint(a)
    BY <2>2, StepFootprint DEF AllInv, LeaseInv
  <2>5. attemptStatus'[a] = "active"
    BY <2>2, <2>4 DEF Footprint, Claimed, Orphaned, Dead, GivenUp, CalledUpon, Entered, RowStays
  <2>. QED  BY <2>2, <2>3, <2>5 DEF CallStays, NoCall
<1>. QED  BY <1>2, <1>3

LEMMA FailStep ==
    ASSUME NoHandCompletion, AllInv, [Next]_vars
    PROVE  FailHasNoResult'
<1>. SUFFICES ASSUME NEW s \in Supervisors, supState'[s] = "fail"
              PROVE  /\ resultFile'[supAttempt'[s]] = "absent"
                     /\ runner'[supAttempt'[s]] # "live"
                     /\ guardian'[supAttempt'[s]] \in {"none", "gone"}
  BY DEF FailHasNoResult, GuardianAlive
<1>. DEFINE a == supAttempt[s]
<1>1. SupervisorMoves(s)
  BY OwnersStep DEF AllInv, OwnersMove
<1>2. supAttempt'[s] = a /\ (supState[s] = "fail" \/ SupervisorCollects(s))
  <2>1. ~OwnerBegins(s)
    BY DEF OwnerBegins, GoTo, AllInv, QueueTypes, OwnersHold
  <2>. QED  BY <1>1, <2>1 DEF SupervisorMoves, Rests, Works, ComesToDecide, Withdraws, Acquires
<1>3. CASE SupervisorCollects(s)
  <2>1. a \in AttemptIds
    BY <1>3, WorkersOwn DEF SupervisorCollects, Working, AllInv
  <2>2. supState'[s] = "down" \/ (RunnerStopped(a) /\ WriteOwnerRecord(a, "exit")
           /\ supState'[s] = (IF resultFile[a] # "absent" THEN "finish" ELSE "fail"))
    BY <1>3 DEF SupervisorCollects, GoTo, Leave, AllInv, QueueTypes, OwnersHold
  <2>3. RunnerStopped(a) /\ resultFile[a] = "absent" /\ UNCHANGED resultFile
    BY <2>2 DEF WriteOwnerRecord
  <2>4. UNCHANGED launchVars
    BY <1>3 DEF SupervisorCollects
  <2>. QED  BY <1>2, <2>1, <2>3, <2>4, DeadMeans DEF AllInv, GuardianAlive, launchVars
<1>4. CASE supState[s] = "fail"
  <2>1. /\ a \in AttemptIds /\ resultFile[a] = "absent" /\ runner[a] # "live"
        /\ guardian[a] \in {"none", "gone"}
    BY <1>4, WorkersOwn DEF AllInv, OwnerInv, FailHasNoResult, GuardianAlive, Working
  <2>2. FilesStay(a)
    BY <1>4, <2>1, WorkIsUndisturbed DEF RunnerWrote, Working
  <2>3. ~Spawned(a)
    BY <1>4, <2>1 DEF Spawned, AllInv, OwnerInv, OneOwner
  <2>4. Footprint(a)
    BY <2>1, StepFootprint DEF AllInv, LeaseInv
  <2>5. guardian'[a] \in {"none", "gone"} /\ runner'[a] # "live"
    BY <2>1, <2>3, <2>4 DEF Footprint, Claimed, Orphaned, GivenUp, CalledUpon, Entered,
       LaunchStays, LaunchBegun, Bound, WindingUp, Attending, GuardianAlive
  <2>. QED  BY <1>2, <2>1, <2>2, <2>5 DEF FilesStay, GuardianAlive
<1>. QED  BY <1>2, <1>3, <1>4

(* Who entered a call, and where.                                          *)
LEMMA OwnerEnters ==
    ASSUME QueueTypes, NEW a \in AttemptIds, OwnerEntered(a)
    PROVE  /\ call'[a].at # "none" /\ call'[a].by = "owner"
           /\ attemptStatus[a] # "absent" /\ attemptStatus'[a] = attemptStatus[a]
           /\ \E s \in Supervisors : supAttempt'[s] = a /\ supState'[s] = "settle"
<1>1. PICK s \in Supervisors : supAttempt[s] = a /\ OwnerBegins(s)
  BY DEF OwnerEntered
<1>2. supState'[s] = "settle" /\ supAttempt'[s] = a
  BY <1>1 DEF OwnerBegins, GoTo, QueueTypes, OwnersHold
<1>3. attemptStatus[a] # "absent" /\ UNCHANGED ledgerVars
  BY <1>1 DEF OwnerBegins, FinishBegins, FailBegins, CompletionRows
<1>4. \E kind, source, content, code : \E at \in {"result", "failure", "manifest", "block"} :
         EnterCall(a, "owner", kind, at, source, content, code)
  BY <1>1, Zenon DEF OwnerBegins, FinishBegins, FailBegins
<1>5. call'[a].at # "none" /\ call'[a].by = "owner"
  BY <1>4, EnteredCall
<1>. QED  BY <1>2, <1>3, <1>5 DEF ledgerVars

LEMMA OperatorEnters ==
    ASSUME QueueTypes, NEW a \in AttemptIds, Recovered(a)
    PROVE  /\ call'[a].at # "none" /\ call'[a].by = "operator"
           /\ attemptStatus[a] # "absent" /\ attemptStatus'[a] = attemptStatus[a]
           /\ \A s \in Supervisors : supAttempt'[s] # a
<1>1. PICK action \in {"inspect", "accept", "retry"} : RecoverBegins(a, action)
  BY DEF Recovered
<1>2. attemptStatus[a] # "absent" /\ UNCHANGED ledgerVars /\ ~OwnerAlive(a)
  BY <1>1 DEF RecoverBegins, Dead
<1>3. \E kind, source, content, code : \E at \in {"result", "failure", "manifest", "block"} :
         EnterCall(a, "operator", kind, at, source, content, code)
  BY <1>1, Zenon DEF RecoverBegins
<1>4. call'[a].at # "none" /\ call'[a].by = "operator"
  BY <1>3, EnteredCall
<1>. QED  BY <1>2, <1>4 DEF Recovered, OwnerAlive, supervisorVars, ledgerVars

LEMMA CallKeepsCaller ==
    ASSUME QueueTypes, NEW a \in AttemptIds, CallStep(a)
    PROVE  \/ call'[a] = NoCall
           \/ call'[a].at # "none" /\ call'[a].by = call[a].by
BY CallStepMovesOn, EndedCall, MovedCall DEF CallMovesOn

LEMMA CallersStep ==
    ASSUME NoHandCompletion, AllInv, [Next]_vars
    PROVE  CallersKnown'
<1>. SUFFICES ASSUME NEW a \in AttemptIds
              PROVE  /\ call'[a].at # "none" => attemptStatus'[a] # "absent"
                     /\ call'[a].at # "none" <=> call'[a].by \in {"owner", "operator"}
                     /\ call'[a].by = "operator" => \A s \in Supervisors : supAttempt'[s] # a
                     /\ call'[a].by = "owner" =>
                          \E s \in Supervisors : supAttempt'[s] = a /\ supState'[s] = "settle"
  BY DEF CallersKnown, OwnerAlive
<1>1. CASE OwnerEntered(a)
  BY <1>1, OwnerEnters DEF AllInv
<1>2. CASE Recovered(a)
  BY <1>2, OperatorEnters DEF AllInv
<1>3. CASE CallStep(a) \/ CallStays(a)
  <2>1. /\ call[a].at # "none" => attemptStatus[a] # "absent"
        /\ call[a].at # "none" <=> call[a].by \in {"owner", "operator"}
        /\ call[a].by = "operator" => ~OwnerAlive(a)
        /\ call[a].by = "owner" =>
              \E s \in Supervisors : supAttempt[s] = a /\ supState[s] = "settle"
    BY DEF AllInv, OwnerInv, CallersKnown
  <2>2. CASE call'[a] = NoCall
    BY <2>2 DEF NoCall
  <2>3. CASE call'[a] # NoCall
    <3>1. /\ call'[a].by = call[a].by
          /\ call'[a].at # "none" <=> call[a].at # "none"
      <4>1. CallStep(a) => call[a].at # "none"
        BY DEF CallStep, CallWritesSidecar, CallWritesManifest, CallSealsManifest,
           CallCommits, CallBlocks, CallRequeues
      <4>. QED  BY <1>3, <2>3, <4>1, CallKeepsCaller DEF AllInv, CallStays
    <3>2. call[a].at # "none" => attemptStatus'[a] # "absent"
      <4>1. Footprint(a)
        BY StepFootprint DEF AllInv, LeaseInv
      <4>. QED  BY <2>1, <4>1 DEF Footprint, Claimed, Orphaned, GivenUp, CalledUpon, Entered,
                RowStays
    <3>3. OwnersMove
      BY OwnersStep DEF AllInv
    <3>4. ASSUME call[a].by = "operator", NEW s \in Supervisors
          PROVE  supAttempt'[s] # a
      BY <2>1, <3>3, <3>4, OwnersKeep DEF AllInv, OwnerAlive, Acquires
    <3>5. ASSUME call[a].by = "owner", NEW s \in Supervisors, supAttempt[s] = a,
                 supState[s] = "settle"
          PROVE  supAttempt'[s] = a /\ supState'[s] = "settle"
      <4>1. ~Answered(s)
        BY <3>1, <3>5 DEF Answered
      <4>2. ~OwnerBegins(s) /\ ~Works(s) /\ ~Acquires(s)
        BY <3>5 DEF OwnerBegins, Works, Acquires, Working
      <4>. QED  BY <3>3, <3>5, <4>1, <4>2
                DEF OwnersMove, SupervisorMoves, Rests, ComesToDecide, Withdraws
    <3>. QED  BY <2>1, <3>1, <3>2, <3>4, <3>5
  <2>. QED  BY <2>2, <2>3
<1>. QED  BY <1>1, <1>2, <1>3, StepAlone DEF AllInv, AloneFootprint

LEMMA OwnerStep ==
    ASSUME NoHandCompletion, AllInv, [Next]_vars
    PROVE  AllInv'
<1>1. QueueTypes' /\ LeaseInv' /\ EvidenceInv'
  BY QueueTypesStep, LeaseStep, EvidenceInvStep DEF AllInv
<1>2. OwnerInv'
  BY OneOwnerStep, OwnersWorkStep, CallersStep, FailStep DEF OwnerInv
<1>. QED  BY <1>1, <1>2 DEF AllInv

LEMMA OwnerInit == Init => OwnerInv
BY DEF Init, OwnerInv, OneOwner, OwnersWork, CallersKnown, FailHasNoResult, NoCall, NoAttempt,
   AttemptIds, Cases, Working

-----------------------------------------------------------------------------
(* The evidence of a committed outcome.  Once a call is inside the lock,   *)
(* or an outcome is sealed, what surrounds the result is left alone: the   *)
(* launch state, the owner's record and the lease file.                    *)
SettingStays(a) ==
    /\ launchState'[a] = launchState[a]
    /\ ownerRecord'[a] = ownerRecord[a]
    /\ leaseFile'[a] = leaseFile[a]

LEMMA BegunWrites ==
    ASSUME NEW b, CallBegins(b)
    PROVE  UNCHANGED << ownerRecord, leaseFile, manifest >>
<1>1. WriteResult(b, "torn") \/ WriteFailure(b, "torn") \/ UNCHANGED evidenceVars
  BY Zenon DEF CallBegins, FinishBegins, FailBegins, RecoverBegins
<1>. QED  BY <1>1 DEF WriteResult, WriteFailure, evidenceVars

LEMMA CallStepWrites ==
    ASSUME NEW b, CallStep(b)
    PROVE  UNCHANGED << ownerRecord, leaseFile >>
<1>1. CallWrites(b)
  BY Zenon DEF CallStep, CallWritesSidecar, CallWritesManifest, CallSealsManifest,
     CallCommits, CallBlocks, CallRequeues, CallWrites
<1>. QED  BY <1>1 DEF CallWrites, WriteResult, WriteFailure, WriteManifest, SealManifest,
          evidenceVars

LEMMA SettingStep ==
    ASSUME AllInv, [Next]_vars, NEW a \in AttemptIds,
           call[a].at # "none" \/ outcome[a] # "none"
    PROVE  SettingStays(a)
<1>1. /\ ~Attending(a)
      /\ call[a].at = "none" => attemptStatus[a] # "active"
      /\ \A s \in Supervisors : supState[s] \in Working => supAttempt[s] # a
  BY DEF AllInv, LeaseInv, CallsOnStopped, QueueTypes, LedgerInv, OutcomeAgreement,
     LiveRunnerIsLeased, Attending, OwnerInv, OwnersWork
<1>2. launchState'[a] = launchState[a]
  <2>1. Footprint(a)
    BY StepFootprint DEF AllInv, LeaseInv
  <2>2. ~LaunchBegun(a) /\ ~Spawned(a) /\ ~Bound(a)
    BY <1>1 DEF LaunchBegun, Spawned, Bound, Working
  <2>. QED  BY <1>1, <2>1, <2>2 DEF Footprint, Claimed, Orphaned, GivenUp, CalledUpon,
            Entered, LaunchStays, WindingUp
<1>3. ownerRecord'[a] = ownerRecord[a] /\ leaseFile'[a] = leaseFile[a]
  <2>1. CASE OutsideCalls
    <3>1. ASSUME NEW s \in Supervisors, NEW written,
                 SupervisorRecordsCommand(s) \/ SupervisorCollects(s),
                 WriteOwnerRecord(supAttempt[s], written)
          PROVE  <1>3!:
      <4>1. supAttempt[s] # a
        BY <1>1, <3>1 DEF SupervisorRecordsCommand, SupervisorCollects, Working
      <4>. QED  BY <3>1, <4>1, QueueAssumption
                DEF WriteOwnerRecord, AllInv, QueueTypes, EvidenceTypeOK
    <3>2. ASSUME NEW b \in AttemptIds, NEW content, guardian[b] = "binding",
                 WriteLease(b, content)
          PROVE  <1>3!:
      <4>1. b # a
        BY <1>1, <3>2 DEF Attending
      <4>. QED  BY <3>2, <4>1, QueueAssumption
                DEF WriteLease, AllInv, QueueTypes, EvidenceTypeOK
    <3>3. ASSUME NEW b \in AttemptIds, NEW content, WriteResult(b, content)
          PROVE  <1>3!:
      BY <3>3 DEF WriteResult
    <3>. QED  BY <2>1, <3>1, <3>2, <3>3, OutsideIsWritten DEF OutsideWrites, evidenceVars
  <2>2. CASE CallsDrop
    BY <2>2 DEF CallsDrop, evidenceVars
  <2>3. ASSUME NEW b \in AttemptIds, CallBegins(b) \/ CallStep(b)
        PROVE  <1>3!:
    BY <2>3, BegunWrites, CallStepWrites
  <2>. QED  BY <2>1, <2>2, <2>3, StepKinds DEF AllInv, QueueTypes
<1>. QED  BY <1>2, <1>3 DEF SettingStays

(* The manifest lists what the directory holds, and the row agrees.        *)
Listed(a, source) ==
    /\ leaseFile[a] = "intact"
    /\ manifest[a].body = Inventory(a, source, launchState[a])

CallSealed ==
    \A a \in AttemptIds :
        /\ call[a].at # "none" => call[a].launch = launchState[a]
        /\ call[a].at \in {"result", "failure", "seal"} => outcome[a] = "none"
        /\ call[a].at \in {"seal", "commit"} => Listed(a, call[a].source)

SealedInv == SealedEvidenceIntact /\ CallSealed

InventoryAfter(a, source) ==
    [result |-> resultFile'[a], failure |-> failureFile'[a],
     owner |-> ownerRecord'[a], of |-> source, launch |-> launchState'[a]]

ListedAfter(a, source) ==
    /\ leaseFile'[a] = "intact"
    /\ manifest'[a].body = InventoryAfter(a, source)

(* SealedInv of one attempt, after a step.                                 *)
IntactAfter(a) ==
    outcome'[a] # "none" => manifest'[a].state = "sealed" /\ ListedAfter(a, manifest'[a].body.of)

CallSealedAfter(a) ==
    /\ call'[a].at # "none" => call'[a].launch = launchState'[a]
    /\ call'[a].at \in {"result", "failure", "seal"} => outcome'[a] = "none"
    /\ call'[a].at \in {"seal", "commit"} => ListedAfter(a, call'[a].source)

LEMMA ListedStays ==
    ASSUME NEW a, NEW source, Listed(a, source), SettingStays(a),
           resultFile'[a] = resultFile[a], failureFile'[a] = failureFile[a],
           manifest'[a].body = manifest[a].body
    PROVE  ListedAfter(a, source)
BY DEF Listed, ListedAfter, Inventory, InventoryAfter, SettingStays

LEMMA IntactIsListed ==
    ASSUME SealedInv, NEW a \in AttemptIds, outcome[a] # "none"
    PROVE  manifest[a].state = "sealed" /\ Listed(a, manifest[a].body.of)
BY DEF SealedInv, SealedEvidenceIntact, EvidenceIntact, SealedSource, Listed

LEMMA IntactStays ==
    ASSUME SealedInv, NEW a \in AttemptIds, SettingStays(a) \/ outcome[a] = "none",
           outcome'[a] = outcome[a],
           outcome[a] = "none" \/ FilesStay(a)
    PROVE  IntactAfter(a)
BY IntactIsListed, ListedStays DEF IntactAfter, FilesStay

LEMMA BeginSealed ==
    ASSUME AllInv, SealedInv, NEW a \in AttemptIds, CallBegins(a)
    PROVE  IntactAfter(a) /\ CallSealedAfter(a)
<1>1. UNCHANGED ledgerVars /\ UNCHANGED launchVars
  BY DEF CallBegins, FinishBegins, FailBegins, RecoverBegins
<1>2. SettingStays(a) /\ manifest'[a] = manifest[a] /\ outcome'[a] = outcome[a]
  BY <1>1, BegunWrites DEF SettingStays, launchVars, ledgerVars
<1>3. \E by, kind, source, content, code :
         \E at \in {"result", "failure", "manifest", "block"} :
            EnterCall(a, by, kind, at, source, content, code)
  BY Zenon DEF CallBegins, FinishBegins, FailBegins, RecoverBegins
<1>4. /\ call'[a].at \in {"result", "failure", "manifest", "block"}
      /\ call'[a].launch = launchState[a]
  BY <1>3, EnteredCall DEF AllInv
<1>5. outcome[a] # "none" => UNCHANGED evidenceVars /\ call'[a].at \notin {"result", "failure"}
  <2>1. ASSUME NEW by, NEW supplied, NEW code, FinishBegins(a, by, supplied, code),
               outcome[a] # "none"
        PROVE  <1>5!2
    <3>1. UNCHANGED evidenceVars /\ \E at \in {"manifest", "block"} :
             EnterCall(a, by, "finish", at, "result", resultFile[a], code)
      BY <2>1, Zenon DEF FinishBegins
    <3>. QED  BY <3>1, EnteredCall DEF AllInv
  <2>2. ASSUME NEW by, NEW kind, FailBegins(a, by, kind), outcome[a] # "none"
        PROVE  <1>5!2
    <3>1. UNCHANGED evidenceVars /\ \E at \in {"manifest", "block"} :
             EnterCall(a, by, "fail", at, "failure", kind, "none")
      BY <2>2, Zenon DEF FailBegins
    <3>. QED  BY <3>1, EnteredCall DEF AllInv
  <2>3. ASSUME NEW action, RecoverBegins(a, action), outcome[a] # "none"
        PROVE  <1>5!2
    <3>1. action = "accept"
      BY <2>3 DEF RecoverBegins, AllInv, QueueTypes, LedgerInv, OutcomeAgreement
    <3>2. UNCHANGED evidenceVars /\ \E source, content : \E at \in {"manifest", "block"} :
             EnterCall(a, "operator", action, at, source, content, "none")
      BY <2>3, <3>1, Zenon DEF RecoverBegins
    <3>. QED  BY <3>2, EnteredCall DEF AllInv
  <2>. QED  BY <2>1, <2>2, <2>3, Zenon DEF CallBegins
<1>6. IntactAfter(a)
  <2>1. outcome[a] # "none" => FilesStay(a)
    BY <1>2, <1>5 DEF FilesStay, evidenceVars
  <2>. QED  BY <1>2, <2>1, IntactStays
<1>. QED  BY <1>2, <1>4, <1>5, <1>6 DEF CallSealedAfter, SettingStays

(* A call that ends, or goes where nothing was listed yet.                 *)
LEMMA MovedSealed ==
    ASSUME AllInv, SealedInv, NEW a \in AttemptIds, SettingStays(a), call[a].at # "none",
           \/ \E result : EndCall(a, result)
           \/ \E at \in {"manifest", "block", "requeue"} : MoveTo(a, at)
    PROVE  CallSealedAfter(a)
<1>1. \/ call'[a].at = "none"
      \/ call'[a].at \in {"manifest", "block", "requeue"} /\ call'[a].launch = call[a].launch
  BY EndedCall, MovedCall DEF AllInv, NoCall
<1>. QED  BY <1>1 DEF CallSealedAfter, SealedInv, CallSealed, SettingStays

LEMMA SidecarSealed ==
    ASSUME AllInv, SealedInv, NEW a \in AttemptIds, SettingStays(a), CallWritesSidecar(a)
    PROVE  IntactAfter(a) /\ CallSealedAfter(a)
<1>1. call[a].at \in {"result", "failure"} /\ MoveTo(a, "manifest") /\ UNCHANGED ledgerVars
  BY DEF CallWritesSidecar
<1>2. outcome[a] = "none" /\ outcome'[a] = outcome[a]
  BY <1>1 DEF SealedInv, CallSealed, ledgerVars
<1>. QED  BY <1>1, <1>2, MovedSealed DEF IntactAfter

LEMMA ManifestSealed ==
    ASSUME AllInv, SealedInv, NEW a \in AttemptIds, SettingStays(a), CallWritesManifest(a)
    PROVE  IntactAfter(a) /\ CallSealedAfter(a)
<1>. DEFINE body == Inventory(a, call[a].source, call[a].launch)
<1>1. call[a].at = "manifest" /\ UNCHANGED ledgerVars
  BY DEF CallWritesManifest
<1>2. outcome'[a] = outcome[a] /\ call[a].launch = launchState[a]
  BY <1>1 DEF SealedInv, CallSealed, ledgerVars
<1>3. body = Inventory(a, call[a].source, launchState[a])
  BY <1>2
<1>. HIDE DEF body
<1>4. \/ UNCHANGED evidenceVars /\ (MoveTo(a, "block") \/ EndCall(a, "raised"))
      \/ /\ leaseFile[a] = "intact" /\ ManifestMissing(a)
         /\ WriteManifest(a, body) /\ MoveTo(a, "seal")
      \/ /\ leaseFile[a] = "intact" /\ manifest[a].state = "sealed" /\ manifest[a].body = body
         /\ UNCHANGED evidenceVars /\ AfterManifest(a)
  BY Zenon DEF CallWritesManifest, body
<1>5. ASSUME UNCHANGED evidenceVars
      PROVE  FilesStay(a) /\ IntactAfter(a)
  <2>1. FilesStay(a)
    BY <1>5 DEF evidenceVars, FilesStay
  <2>. QED  BY <1>2, <2>1, IntactStays
<1>6. CASE UNCHANGED evidenceVars /\ (MoveTo(a, "block") \/ EndCall(a, "raised"))
  BY <1>1, <1>5, <1>6, MovedSealed
<1>7. CASE /\ leaseFile[a] = "intact" /\ ManifestMissing(a)
           /\ WriteManifest(a, body) /\ MoveTo(a, "seal")
  <2>1. outcome[a] = "none"
    BY <1>7, IntactIsListed DEF ManifestMissing
  <2>2. /\ manifest'[a] = [state |-> "torn", body |-> body]
        /\ resultFile'[a] = resultFile[a] /\ failureFile'[a] = failureFile[a]
    BY <1>7, QueueAssumption DEF WriteManifest, AllInv, QueueTypes, EvidenceTypeOK
  <2>3. /\ call'[a].at = "seal" /\ call'[a].source = call[a].source
        /\ call'[a].launch = call[a].launch
    BY <1>7, MovedCall DEF AllInv
  <2>4. ListedAfter(a, call[a].source)
    BY <1>3, <1>7, <2>2 DEF ListedAfter, Inventory, InventoryAfter, SettingStays
  <2>. QED  BY <1>2, <2>1, <2>3, <2>4 DEF IntactAfter, CallSealedAfter, SettingStays
<1>8. CASE /\ leaseFile[a] = "intact" /\ manifest[a].state = "sealed" /\ manifest[a].body = body
           /\ UNCHANGED evidenceVars /\ AfterManifest(a)
  <2>1. MoveTo(a, "commit") \/ EndCall(a, "raised")
    BY <1>8 DEF AfterManifest
  <2>2. CASE MoveTo(a, "commit")
    <3>1. /\ call'[a].at = "commit" /\ call'[a].source = call[a].source
          /\ call'[a].launch = call[a].launch
      BY <2>2, MovedCall DEF AllInv
    <3>2. Listed(a, call[a].source)
      BY <1>3, <1>8 DEF Listed
    <3>3. ListedAfter(a, call[a].source)
      BY <1>5, <1>8, <3>2, ListedStays DEF FilesStay
    <3>. QED  BY <1>2, <1>5, <1>8, <3>1, <3>3 DEF CallSealedAfter, SettingStays
  <2>. QED  BY <1>1, <1>5, <1>8, <2>1, <2>2, MovedSealed
<1>. QED  BY <1>4, <1>6, <1>7, <1>8

LEMMA SealSealed ==
    ASSUME AllInv, SealedInv, NEW a \in AttemptIds, SettingStays(a), CallSealsManifest(a)
    PROVE  IntactAfter(a) /\ CallSealedAfter(a)
<1>1. /\ call[a].at = "seal" /\ SealManifest(a) /\ UNCHANGED ledgerVars
      /\ MoveTo(a, "commit") \/ EndCall(a, "raised")
  BY DEF CallSealsManifest, AfterManifest
<1>2. /\ outcome[a] = "none" /\ outcome'[a] = outcome[a] /\ call[a].launch = launchState[a]
      /\ Listed(a, call[a].source)
  BY <1>1 DEF SealedInv, CallSealed, ledgerVars
<1>3. CASE MoveTo(a, "commit")
  <2>1. /\ call'[a].at = "commit" /\ call'[a].source = call[a].source
        /\ call'[a].launch = call[a].launch
    BY <1>3, MovedCall DEF AllInv
  <2>2. manifest[a] \in [state : {"absent", "torn", "sealed"}, body : Inventories]
    BY QueueAssumption DEF AllInv, QueueTypes, EvidenceTypeOK
  <2>3. /\ manifest'[a] = [manifest[a] EXCEPT !.state = "sealed"]
        /\ resultFile'[a] = resultFile[a] /\ failureFile'[a] = failureFile[a]
    BY <1>1, QueueAssumption DEF SealManifest, AllInv, QueueTypes, EvidenceTypeOK
  <2>4. manifest'[a].body = manifest[a].body
    BY <2>2, <2>3
  <2>5. ListedAfter(a, call[a].source)
    BY <1>2, <2>3, <2>4, ListedStays
  <2>. QED  BY <1>2, <2>1, <2>5 DEF IntactAfter, CallSealedAfter, SettingStays
<1>. QED  BY <1>1, <1>2, <1>3, MovedSealed DEF IntactAfter

LEMMA CommitSealed ==
    ASSUME AllInv, SealedInv, NEW a \in AttemptIds, SettingStays(a), CallCommits(a)
    PROVE  IntactAfter(a) /\ CallSealedAfter(a)
<1>1. call[a].at = "commit" /\ UNCHANGED evidenceVars
  BY DEF CallCommits
<1>2. /\ manifest[a].state = "sealed" /\ manifest[a].body.of = call[a].source
      /\ Listed(a, call[a].source)
  BY <1>1 DEF AllInv, EvidenceInv, CallFiles, SealedInv, CallSealed
<1>3. /\ resultFile'[a] = resultFile[a] /\ failureFile'[a] = failureFile[a]
      /\ manifest'[a] = manifest[a]
  BY <1>1 DEF evidenceVars
<1>4. ListedAfter(a, call[a].source)
  BY <1>2, <1>3, ListedStays
<1>5. IntactAfter(a)
  BY <1>2, <1>3, <1>4 DEF IntactAfter
<1>6. (\E result : EndCall(a, result)) \/ \E at \in {"manifest", "block", "requeue"} : MoveTo(a, at)
  BY Zenon DEF CallCommits
<1>. QED  BY <1>1, <1>5, <1>6, MovedSealed

LEMMA RestSealed ==
    ASSUME AllInv, SealedInv, NEW a \in AttemptIds, SettingStays(a),
           CallBlocks(a) \/ CallRequeues(a)
    PROVE  IntactAfter(a) /\ CallSealedAfter(a)
<1>1. call[a].at # "none" /\ FilesStay(a)
  BY DEF CallBlocks, CallRequeues, evidenceVars, FilesStay
<1>2. UNCHANGED ledgerVars \/ Halt \/ BlockRow(a) \/ RequeueRow(a, FALSE)
  BY Zenon DEF CallBlocks, CallRequeues, BlockAttempt, BlockOrphanRow
<1>3. outcome'[a] = outcome[a]
  BY <1>2 DEF Halt, BlockRow, RequeueRow, ledgerVars
<1>4. (\E result : EndCall(a, result)) \/ \E at \in {"manifest", "block", "requeue"} : MoveTo(a, at)
  BY Zenon DEF CallBlocks, CallRequeues
<1>. QED  BY <1>1, <1>3, <1>4, IntactStays, MovedSealed

LEMMA StillSealed ==
    ASSUME AllInv, SealedInv, [Next]_vars, NEW a \in AttemptIds,
           CallStays(a), outcome'[a] = outcome[a], FilesStay(a) \/ RunnerWrote(a)
    PROVE  IntactAfter(a) /\ CallSealedAfter(a)
<1>1. call[a].at # "none" \/ outcome[a] # "none" => SettingStays(a) /\ FilesStay(a)
  <2>1. ASSUME call[a].at # "none" \/ outcome[a] # "none"
        PROVE  runner[a] # "live"
    BY <2>1 DEF AllInv, LeaseInv, CallsOnStopped, LiveRunnerIsLeased, QueueTypes, LedgerInv,
       OutcomeAgreement
  <2>. QED  BY <2>1, SettingStep DEF RunnerWrote
<1>2. IntactAfter(a)
  BY <1>1, IntactStays
<1>3. CASE call'[a] = NoCall
  BY <1>2, <1>3 DEF NoCall, CallSealedAfter
<1>4. CASE call'[a] = call[a]
  <2>1. CASE call[a].at = "none"
    BY <1>2, <1>4, <2>1 DEF CallSealedAfter
  <2>2. CASE call[a].at # "none"
    <3>1. call[a].at \in {"seal", "commit"} => ListedAfter(a, call[a].source)
      BY <1>1, <2>2, ListedStays DEF SealedInv, CallSealed, FilesStay
    <3>. QED  BY <1>1, <1>2, <1>4, <2>2, <3>1
              DEF CallSealedAfter, SealedInv, CallSealed, SettingStays
  <2>. QED  BY <2>1, <2>2
<1>. QED  BY <1>2, <1>3, <1>4 DEF CallStays

LEMMA SealedStep ==
    ASSUME AllInv, SealedInv, [Next]_vars
    PROVE  SealedInv'
<1>1. ASSUME NEW a \in AttemptIds
      PROVE  IntactAfter(a) /\ CallSealedAfter(a)
  <2>1. CASE CallStep(a)
    <3>1. call[a].at # "none"
      BY <2>1 DEF CallStep, CallWritesSidecar, CallWritesManifest, CallSealsManifest,
         CallCommits, CallBlocks, CallRequeues
    <3>2. SettingStays(a)
      BY <3>1, SettingStep
    <3>. QED  BY <2>1, <3>2, SidecarSealed, ManifestSealed, SealSealed, CommitSealed, RestSealed
              DEF CallStep
  <2>. QED  BY <2>1, StepEvidence, BeginSealed, StillSealed DEF AllInv, EvidenceFootprint
<1>2. SealedEvidenceIntact'
  BY <1>1 DEF SealedEvidenceIntact, EvidenceIntact, SealedSource, Inventory, IntactAfter,
     ListedAfter, InventoryAfter
<1>3. CallSealed'
  BY <1>1 DEF CallSealed, CallSealedAfter, Listed, ListedAfter, Inventory, InventoryAfter
<1>. QED  BY <1>2, <1>3 DEF SealedInv

LEMMA SealedInvariant ==
    ASSUME NoHandCompletion
    PROVE  Spec => [](AllInv /\ SealedInv)
<1>1. Init => OwnerInv /\ SealedInv
  <2>1. Init => SealedInv
    BY DEF Init, LedgerInit, NoCall, SealedInv, SealedEvidenceIntact, CallSealed
  <2>. QED  BY <2>1, OwnerInit
<1>2. AllInv /\ SealedInv /\ [Next]_vars => (AllInv /\ SealedInv)'
  BY OwnerStep, SealedStep
<1>3. Spec => [](QueueTypes /\ LeaseInv /\ EvidenceInv)
  BY EvidenceInvariant
<1>4. Spec => [](OwnerInv /\ SealedInv)
  <2>1. QueueTypes /\ LeaseInv /\ EvidenceInv /\ OwnerInv /\ SealedInv /\ [Next]_vars
          => (OwnerInv /\ SealedInv)'
    BY <1>2 DEF AllInv
  <2>. QED  BY <1>1, <1>3, <2>1, PTL DEF Spec
<1>. QED  BY <1>3, <1>4, PTL DEF AllInv

(* Where completions are left to the supervisors and to the recovery of    *)
(* orphans, the evidence of a committed outcome stays what its manifest    *)
(* says, whatever crashes between the writes, the seal and the commit.     *)
THEOREM SealedEvidenceStaysIntact ==
    ASSUME NoHandCompletion
    PROVE  Spec => []SealedEvidenceIntact
BY SealedInvariant, PTL DEF SealedInv

-----------------------------------------------------------------------------
(* Runs of completed cases.  retry_attempt of the library gives an orphan  *)
(* up without looking at its result; where operators do not call it, and   *)
(* complete nothing by hand, a requeued attempt was sealed as retryable.   *)
NoHandRerun == OperatorCalls \cap {"finish", "fail", "retry"} = {}

RerunInv ==
    \A a \in AttemptIds :
        /\ call[a].at # "result"
        /\ call[a].at # "none" /\ call[a].source = "failure" => resultFile[a] = "absent"
        /\ outcome[a] = "retryable" => resultFile[a] # "completed"
        /\ attemptStatus[a] = "requeued" => outcome[a] = "retryable"
        /\ call[a].at = "requeue" => outcome[a] = "retryable"

(* RerunInv of one attempt, after a step, but for its row.                 *)
RerunAfter(a) ==
    /\ call'[a].at # "result"
    /\ call'[a].at # "none" /\ call'[a].source = "failure" => resultFile'[a] = "absent"
    /\ outcome'[a] = "retryable" => resultFile'[a] # "completed"
    /\ call'[a].at = "requeue" => outcome'[a] = "retryable"

LEMMA RequeuedBy ==
    ASSUME NoHandRerun, AllInv, RerunInv, [Next]_vars, NEW a \in AttemptIds,
           attemptStatus[a] # "requeued", attemptStatus'[a] = "requeued"
    PROVE  outcome[a] = "retryable"
<1>. USE DEF AllInv, QueueTypes, LedgerInv, LedgerTypeOK
<1>1. ASSUME NEW b \in AttemptIds, CallStep(b)
      PROVE  outcome[a] = "retryable"
  <2>1. a = b
    BY <1>1, CallRows
  <2>2. ~CallWritesSidecar(a) /\ ~CallWritesManifest(a) /\ ~CallSealsManifest(a)
    BY DEF CallWritesSidecar, CallWritesManifest, CallSealsManifest, ledgerVars
  <2>3. ~CallCommits(a)
    <3>1. CallCommits(a) => \/ UNCHANGED ledgerVars \/ CommitAccepted(a) \/ CommitRetryable(a)
                            \/ CommitCapture(a, CallOutcome(a))
      BY Zenon DEF CallCommits
    <3>. QED  BY <3>1 DEF CommitAccepted, CommitRetryable, CommitCapture, ledgerVars
  <2>4. ~CallBlocks(a)
    <3>1. CallBlocks(a) => UNCHANGED ledgerVars \/ Halt \/ BlockRow(a)
      BY Zenon DEF CallBlocks, BlockAttempt, BlockOrphanRow
    <3>. QED  BY <3>1 DEF Halt, BlockRow, ledgerVars
  <2>5. CallRequeues(a)
    BY <1>1, <2>1, <2>2, <2>3, <2>4 DEF CallStep
  <2>. QED  BY <2>5 DEF CallRequeues, RerunInv
<1>2. ASSUME NEW s \in Supervisors, SupervisorDecides(s)
      PROVE  outcome[a] = "retryable"
  <2>. DEFINE b == supAttempt[s]
  <2>1. b \in AttemptIds /\ outcome[b] = "retryable"
    BY <1>2 DEF SupervisorDecides, OwnersHold, Owning, SupervisorStates, LeaseInv, SettledIsSealed
  <2>. HIDE DEF b
  <2>2. BlockAttempt(b) \/ RequeueRow(b, FALSE) \/ UNCHANGED ledgerVars
    BY <1>2, Zenon DEF SupervisorDecides, b
  <2>3. RequeueRow(b, FALSE)
    BY <2>1, <2>2 DEF BlockAttempt, Halt, ledgerVars
  <2>. QED  BY <2>1, <2>3 DEF RequeueRow
<1>3. ASSUME NEW s \in Supervisors
      PROVE  ~SupervisorReconciles(s) /\ ~SupervisorClaims(s)
  <2>1. ~SupervisorReconciles(s)
    BY DEF SupervisorReconciles, OrphanRow, ledgerVars
  <2>2. SupervisorClaims(s) =>
          Halt \/ UNCHANGED ledgerVars \/ \E c \in Cases : ClaimRow(WorkerOf[s], c)
    BY Zenon DEF SupervisorClaims
  <2>3. ASSUME NEW c \in Cases, ClaimRow(WorkerOf[s], c)
        PROVE  FALSE
    <3>1. attemptStatus' = [attemptStatus EXCEPT ![NewAttempt(c)] = "active"]
      BY <2>3 DEF ClaimRow
    <3>. QED  BY <3>1
  <2>. QED  BY <2>1, <2>2, <2>3 DEF Halt, ledgerVars
<1>4. ASSUME NEW b \in AttemptIds
      PROVE  ~OperatorReconciles(b) /\ ~OperatorRetries(b)
  BY DEF OperatorReconciles, OperatorRetries, OrphanRow, NoHandRerun
<1>5. ~UNCHANGED ledgerVars /\ ~Halt /\ ~ClearHaltRow
  BY DEF ledgerVars, Halt, ClearHaltRow
<1>6. CASE OutsideCalls
  BY <1>2, <1>3, <1>4, <1>5, <1>6
     DEF OutsideCalls, SupervisorRecordsCommand, SupervisorBeginsLaunch, SupervisorSpawns,
         SupervisorStopsWatching, SupervisorCollects, SupervisorStarts, SupervisorTimesOut,
         GuardianStep, GuardianBinds, GuardianUpdatesLease, GuardianStartsRunner,
         GuardianRecordsExit, GuardianEnds, RunnerWrites, RunnerEnds, OperatorAudits,
         GuardianCrashes, GuardianRaises, OperatorClearsHalt, vars, ledgerVars
<1>7. ~CallsDrop /\ \A b \in AttemptIds : ~CallBegins(b)
  BY <1>5 DEF CallsDrop, CallBegins, FinishBegins, FailBegins, RecoverBegins
<1>. QED  BY <1>1, <1>6, <1>7, StepKinds DEF QueueTypes

LEMMA RequeuedStep ==
    ASSUME NoHandRerun, AllInv, RerunInv, [Next]_vars, NEW a \in AttemptIds,
           attemptStatus'[a] = "requeued"
    PROVE  outcome'[a] = "retryable"
<1>1. outcome[a] = "retryable"
  BY RequeuedBy DEF RerunInv
<1>2. [LedgerNext]_ledgerVars
  BY QueueStep DEF AllInv, QueueTypes, Moves, LedgerMove
<1>. QED  BY <1>1, <1>2, StepKeepsCommitments DEF AllInv, QueueTypes

LEMMA BeginReruns ==
    ASSUME AllInv, RerunInv, NEW a \in AttemptIds, OwnerEntered(a) \/ Recovered(a)
    PROVE  RerunAfter(a)
<1>1. UNCHANGED ledgerVars
  BY DEF OwnerEntered, OwnerBegins, Recovered, FinishBegins, FailBegins, RecoverBegins
<1>. DEFINE Quiet == /\ resultFile'[a] = resultFile[a]
                     /\ call'[a].at \in {"failure", "manifest", "block"}
                     /\ call'[a].source = "failure" => resultFile[a] = "absent"
<1>2. ASSUME NEW code, FinishBegins(a, "owner", "absent", code)
      PROVE  Quiet
  <2>1. UNCHANGED evidenceVars /\ \E at \in {"manifest", "block"} :
           EnterCall(a, "owner", "finish", at, "result", resultFile[a], code)
    BY <1>2, Zenon DEF FinishBegins
  <2>. QED  BY <2>1, EnteredCall DEF AllInv, evidenceVars
<1>3. ASSUME NEW s \in Supervisors, supAttempt[s] = a, supState[s] = "fail", NEW kind,
             FailBegins(a, "owner", kind)
      PROVE  Quiet
  <2>1. /\ UNCHANGED evidenceVars \/ WriteFailure(a, "torn")
        /\ \E content : \E at \in {"failure", "manifest", "block"} :
              EnterCall(a, "owner", "fail", at, "failure", content, "none")
    BY <1>3, Zenon DEF FailBegins
  <2>2. resultFile[a] = "absent"
    BY <1>3 DEF AllInv, OwnerInv, FailHasNoResult
  <2>. QED  BY <2>1, <2>2, EnteredCall DEF AllInv, evidenceVars, WriteFailure
<1>4. ASSUME NEW action, RecoverBegins(a, action)
      PROVE  Quiet
  <2>1. CASE UNCHANGED evidenceVars /\ \E content : \E at \in {"manifest", "block"} :
                EnterCall(a, "operator", action, at, "result", content, "none")
    BY <2>1, EnteredCall DEF AllInv, evidenceVars
  <2>2. CASE /\ resultFile[a] = "absent"
             /\ UNCHANGED evidenceVars \/ WriteFailure(a, "torn")
             /\ \E content : \E at \in {"failure", "manifest", "block"} :
                   EnterCall(a, "operator", action, at, "failure", content, "none")
    BY <2>2, EnteredCall DEF AllInv, evidenceVars, WriteFailure
  <2>. QED  BY <1>4, <2>1, <2>2, Zenon DEF RecoverBegins
<1>5. Quiet
  BY <1>2, <1>3, <1>4, Zenon DEF OwnerEntered, OwnerBegins, Recovered
<1>. QED  BY <1>1, <1>5 DEF RerunInv, RerunAfter, ledgerVars

LEMMA RetryableClass ==
    ASSUME NEW a \in AttemptIds, CallOutcome(a) = "retryable", call[a].source = "result"
    PROVE  call[a].content # "completed"
<1>1. ResultClass(call[a].content) = "retryable"
  BY DEF CallOutcome, CallClass
<1>. SUFFICES ASSUME call[a].content = "completed" PROVE FALSE
  OBVIOUS
<1>. QED  BY <1>1, Zenon DEF ResultClass

(* Where an outcome comes from, and the way to the requeue of a recovery.  *)
LEMMA CallOutcomes ==
    ASSUME QueueTypes, NEW a \in AttemptIds, CallStep(a)
    PROVE  /\ \/ outcome'[a] = outcome[a]
              \/ /\ call[a].at = "commit"
                 /\ outcome'[a] = "retryable" => CallOutcome(a) = "retryable"
           /\ MoveTo(a, "requeue") => outcome'[a] = "retryable"
<1>. USE DEF QueueTypes, LedgerInv, LedgerTypeOK
<1>1. CASE CallWritesSidecar(a) \/ CallWritesManifest(a) \/ CallSealsManifest(a)
  <2>1. UNCHANGED ledgerVars
    BY <1>1 DEF CallWritesSidecar, CallWritesManifest, CallSealsManifest
  <2>2. \/ \E result : EndCall(a, result)
        \/ \E at \in {"manifest", "seal", "commit", "block"} : MoveTo(a, at)
    BY <1>1, Zenon DEF CallWritesSidecar, CallWritesManifest, CallSealsManifest, AfterManifest
  <2>3. ~MoveTo(a, "requeue")
    <3>1. call'[a].at # "requeue"
      BY <2>2, EndedCall, MovedCall DEF NoCall
    <3>. QED  BY <3>1, MovedCall
  <2>. QED  BY <2>1, <2>3 DEF ledgerVars
<1>2. CASE CallCommits(a)
  <2>1. call[a].at = "commit"
    BY <1>2 DEF CallCommits
  <2>2. \/ UNCHANGED ledgerVars
        \/ CommitAccepted(a) \/ CommitCapture(a, CallOutcome(a))
        \/ CallOutcome(a) = "retryable" /\ CommitRetryable(a)
    BY <1>2, Zenon DEF CallCommits
  <2>3. /\ CommitAccepted(a) => outcome'[a] = "accepted"
        /\ CommitCapture(a, CallOutcome(a)) => outcome'[a] \in {"capture", "completed_capture"}
        /\ CommitRetryable(a) => outcome'[a] = "retryable"
    BY DEF CommitAccepted, CommitCapture, CommitRetryable
  <2>4. \/ CommitRetryable(a)
        \/ (\E result : EndCall(a, result)) \/ MoveTo(a, "block")
    BY <1>2, Zenon DEF CallCommits
  <2>5. MoveTo(a, "requeue") => CommitRetryable(a)
    <3>1. ASSUME MoveTo(a, "requeue"), (\E result : EndCall(a, result)) \/ MoveTo(a, "block")
          PROVE  FALSE
      <4>1. call'[a].at = "requeue"
        BY <3>1, MovedCall
      <4>. QED  BY <3>1, <4>1, EndedCall, MovedCall DEF NoCall
    <3>. QED  BY <2>4, <3>1
  <2>. QED  BY <2>1, <2>2, <2>3, <2>5 DEF ledgerVars
<1>3. CASE CallBlocks(a) \/ CallRequeues(a)
  <2>1. UNCHANGED ledgerVars \/ Halt \/ BlockRow(a) \/ RequeueRow(a, FALSE)
    BY <1>3, Zenon DEF CallBlocks, CallRequeues, BlockAttempt, BlockOrphanRow
  <2>2. \E result : EndCall(a, result)
    BY <1>3, Zenon DEF CallBlocks, CallRequeues
  <2>3. ~MoveTo(a, "requeue")
    BY <2>2, EndedCall, MovedCall DEF NoCall
  <2>. QED  BY <2>1, <2>3 DEF Halt, BlockRow, RequeueRow, ledgerVars
<1>. QED  BY <1>1, <1>2, <1>3 DEF CallStep

LEMMA CallReruns ==
    ASSUME AllInv, RerunInv, NEW a \in AttemptIds, CallStep(a)
    PROVE  RerunAfter(a)
<1>1. call[a].at \notin {"none", "result"}
  BY DEF CallStep, CallWritesSidecar, CallWritesManifest, CallSealsManifest,
     CallCommits, CallBlocks, CallRequeues, RerunInv
<1>2. resultFile'[a] = resultFile[a]
  <2>1. \/ call[a].at = "result"
        \/ WriteFailure(a, call[a].content) \/ (\E body : WriteManifest(a, body))
        \/ SealManifest(a) \/ UNCHANGED evidenceVars
    BY Zenon DEF CallStep, CallWritesSidecar, CallWritesManifest, CallSealsManifest,
       CallCommits, CallBlocks, CallRequeues
  <2>. QED  BY <1>1, <2>1 DEF WriteFailure, WriteManifest, SealManifest, evidenceVars
<1>3. \/ call'[a].at = "none"
      \/ /\ call'[a].at \in {"manifest", "seal", "commit", "block", "requeue"}
         /\ call'[a].source = call[a].source
         /\ call'[a].at = "requeue" => MoveTo(a, "requeue")
  BY CallStepMovesOn, EndedCall, MovedCall DEF CallMovesOn, AllInv, NoCall
<1>4. outcome'[a] = "retryable" => resultFile[a] # "completed"
  <2>1. CASE outcome'[a] = outcome[a]
    BY <2>1 DEF RerunInv
  <2>2. CASE call[a].at = "commit" /\ CallOutcome(a) = "retryable"
    <3>1. call[a].source \in {"result", "failure"}
      BY DEF AllInv, QueueTypes, CallTypes, Calls, Sources
    <3>2. call[a].source = "result" => resultFile[a] = call[a].content
      BY <2>2 DEF AllInv, EvidenceInv, CallFiles
    <3>. QED  BY <2>2, <3>1, <3>2, RetryableClass DEF RerunInv
  <2>. QED  BY <2>1, <2>2, CallOutcomes DEF AllInv
<1>. QED  BY <1>1, <1>2, <1>3, <1>4, CallOutcomes DEF RerunAfter, RerunInv, AllInv

LEMMA StillReruns ==
    ASSUME AllInv, RerunInv, NEW a \in AttemptIds,
           CallStays(a), outcome'[a] = outcome[a], FilesStay(a) \/ RunnerWrote(a)
    PROVE  RerunAfter(a)
<1>1. call[a].at # "none" \/ outcome[a] # "none" => resultFile'[a] = resultFile[a]
  <2>1. ASSUME call[a].at # "none" \/ outcome[a] # "none"
        PROVE  runner[a] # "live"
    BY <2>1 DEF AllInv, LeaseInv, CallsOnStopped, LiveRunnerIsLeased, QueueTypes, LedgerInv,
       OutcomeAgreement
  <2>. QED  BY <2>1 DEF RunnerWrote, FilesStay
<1>2. CASE call'[a] = NoCall
  BY <1>1, <1>2 DEF NoCall, RerunAfter, RerunInv
<1>3. CASE call'[a] = call[a]
  BY <1>1, <1>3 DEF RerunAfter, RerunInv
<1>. QED  BY <1>2, <1>3 DEF CallStays

LEMMA RerunStep ==
    ASSUME NoHandRerun, AllInv, RerunInv, [Next]_vars
    PROVE  RerunInv'
<1>1. NoHandCompletion
  BY DEF NoHandRerun, NoHandCompletion
<1>2. ASSUME NEW a \in AttemptIds
      PROVE  RerunAfter(a)
  BY <1>1, StepAlone, BeginReruns, CallReruns, StillReruns DEF AllInv, AloneFootprint
<1>. QED  BY <1>2, RequeuedStep DEF RerunInv, RerunAfter

(* Where operators neither complete nor retry attempts by hand, a case     *)
(* whose attempt left a durable completed result is never run again: no    *)
(* supervisor, recovery or crash gives such an attempt up.                 *)
THEOREM CompletedCasesAreNotRerun ==
    ASSUME NoHandRerun
    PROVE  Spec => []CompletedNeverRerun
<1>1. NoHandCompletion
  BY DEF NoHandRerun, NoHandCompletion
<1>2. Init => RerunInv
  BY DEF Init, LedgerInit, NoCall, RerunInv
<1>3. AllInv /\ RerunInv /\ [Next]_vars => RerunInv'
  BY RerunStep
<1>4. Spec => []AllInv
  BY <1>1, SealedInvariant, PTL
<1>5. RerunInv => CompletedNeverRerun
  BY DEF RerunInv, CompletedNeverRerun
<1>. QED  BY <1>2, <1>3, <1>4, <1>5, PTL DEF Spec
-----------------------------------------------------------------------------
(* Blocks.  begin_launch holds no lock, so a completion by hand can block  *)
(* an attempt whose launch has just begun.  Where operators leave          *)
(* completions to the supervisor, its own launch is over when it begins    *)
(* its own completion, and an orphan's can no longer begin.                *)
LaunchOver(a) == launchState[a] \in {"unstarted", "exited"} /\ ~GuardianAlive(a)

BlockInv ==
    \A a \in AttemptIds : attemptStatus[a] = "blocked" \/ call[a].at # "none" => LaunchOver(a)

LEMMA LaunchStaysOver ==
    ASSUME QueueTypes, NEW a \in AttemptIds, LaunchOver(a), LaunchStays(a)
    PROVE  LaunchOver(a)'
BY DEF LaunchOver, LaunchStays, GuardianAlive

LEMMA BlockInvStep ==
    ASSUME NoHandCompletion, AllInv, BlockInv, [Next]_vars, NEW a \in AttemptIds,
           attemptStatus'[a] = "blocked" \/ call'[a].at # "none"
    PROVE  LaunchOver(a)'
<1>1. Footprint(a)
  BY StepFootprint DEF AllInv, LeaseInv
<1>2. CASE Entered(a)
  <2>1. LaunchOver(a)
    BY <1>2, DeadMeans DEF Entered, AllInv, LaunchOver
  <2>. QED  BY <1>2, <2>1, LaunchStaysOver DEF Entered, AllInv
<1>3. CASE ~Entered(a)
  <2>1. attemptStatus[a] = "blocked" \/ call[a].at # "none"
    BY <1>1, <1>3 DEF Footprint, Claimed, Orphaned, GivenUp, CalledUpon, RowStays, CallStays, NoCall
  <2>2. LaunchOver(a)
    BY <2>1 DEF BlockInv
  <2>3. CASE LaunchStays(a)
    BY <2>2, <2>3, LaunchStaysOver DEF AllInv
  <2>4. \A s \in Supervisors : supAttempt[s] = a => supState[s] \notin {"launch", "spawn"}
    BY <2>1 DEF AllInv, OwnerInv, OwnersWork, Working
  <2>5. CASE WindingUp(a)
    BY <2>2, <2>5 DEF WindingUp, LaunchOver, GuardianAlive, Attending
  <2>. QED
    BY <1>1, <1>3, <2>2, <2>3, <2>4, <2>5
       DEF Footprint, Claimed, Orphaned, GivenUp, CalledUpon, LaunchBegun, Spawned, Bound,
           LaunchOver, GuardianAlive
<1>. QED  BY <1>2, <1>3

LEMMA BlockInvariant ==
    ASSUME NoHandCompletion
    PROVE  Spec => [](AllInv /\ BlockInv)
<1>1. Init => BlockInv
  BY DEF Init, LedgerInit, NoCall, BlockInv
<1>2. AllInv /\ BlockInv /\ [Next]_vars => BlockInv'
  BY BlockInvStep DEF BlockInv
<1>3. Spec => []AllInv
  BY SealedInvariant, PTL
<1>. QED  BY <1>1, <1>2, <1>3, PTL DEF Spec

LEMMA NeverRebooted ==
    ASSUME "reboot" \notin Faults, [Next]_vars
    PROVE  UNCHANGED rebooted
<1>1. ASSUME NEW s \in Supervisors, OwnerBegins(s)
      PROVE  UNCHANGED rebooted
  BY <1>1 DEF OwnerBegins, FinishBegins, FailBegins, launchVars
<1>2. ASSUME NEW a \in AttemptIds, OperatorBegins(a)
      PROVE  UNCHANGED rebooted
  BY <1>2 DEF OperatorBegins, OperatorFinishes, OperatorFails, OperatorRecovers, FinishBegins,
     FailBegins, RecoverBegins, launchVars
<1>3. ASSUME NEW a \in AttemptIds, CallStep(a)
      PROVE  UNCHANGED rebooted
  BY <1>3 DEF CallStep, CallWritesSidecar, CallWritesManifest, CallSealsManifest, CallCommits,
     CallBlocks, CallRequeues, launchVars
<1>4. CASE CallsDrop
  BY <1>4 DEF CallsDrop, SupervisorCrashes, CallerCrashes, MachineReboots, launchVars
<1>5. CASE OutsideCalls
  <2>1. ASSUME NEW s \in Supervisors,
               \/ SupervisorReconciles(s) \/ SupervisorClaims(s)
               \/ SupervisorRecordsCommand(s) \/ SupervisorBeginsLaunch(s)
               \/ SupervisorSpawns(s) \/ SupervisorStopsWatching(s)
               \/ SupervisorCollects(s) \/ SupervisorDecides(s)
               \/ SupervisorStarts(s) \/ SupervisorTimesOut(s)
        PROVE  UNCHANGED rebooted
    BY <2>1 DEF SupervisorReconciles, SupervisorClaims, SupervisorRecordsCommand,
       SupervisorBeginsLaunch, SupervisorSpawns, SupervisorStopsWatching, SupervisorCollects,
       SupervisorDecides, SupervisorStarts, SupervisorTimesOut, BeginLaunch, SpawnGuardian,
       GuardianDies, launchVars
  <2>2. ASSUME NEW a \in AttemptIds,
               \/ GuardianStep(a) \/ RunnerWrites(a) \/ RunnerEnds(a)
               \/ OperatorReconciles(a) \/ OperatorRetries(a) \/ OperatorAudits(a)
               \/ GuardianCrashes(a) \/ GuardianRaises(a)
        PROVE  UNCHANGED rebooted
    BY <2>2 DEF GuardianStep, GuardianBinds, GuardianUpdatesLease, GuardianStartsRunner,
       GuardianRecordsExit, GuardianEnds, RunnerWrites, RunnerEnds, OperatorReconciles,
       OperatorRetries, OperatorAudits, GuardianCrashes, GuardianRaises, BindRunner, BindReturns,
       StartRunner, RecordExit, GuardianExits, GuardianDies, RunnerStops, launchVars
  <2>. QED  BY <1>5, <2>1, <2>2 DEF OutsideCalls, OperatorClearsHalt, vars, launchVars
<1>. QED  BY <1>1, <1>2, <1>3, <1>4, <1>5, StepSources

(* Where operators do not complete attempts by hand and the machine keeps  *)
(* running, the promise of the documentation holds that run                *)
(* blocked_unproven refutes: an attempt is blocked for review only when    *)
(* its launch is over and the receipt proves it.                           *)
THEOREM BlockedAttemptsAreProven ==
    ASSUME NoHandCompletion, "reboot" \notin Faults
    PROVE  Spec => []BlockedIsProven
<1>. DEFINE SameBoot == rebooted = [a \in Attempts |-> FALSE]
<1>1. Init => SameBoot
  BY DEF Init, LaunchInit
<1>2. SameBoot /\ [Next]_vars => SameBoot'
  BY NeverRebooted
<1>3. AllInv /\ BlockInv /\ SameBoot => BlockedIsProven
  BY StoppedMeans, QueueAssumption
     DEF AllInv, QueueTypes, LaunchHolds, BlockInv, LaunchOver, BlockedIsProven
<1>4. Spec => [](AllInv /\ BlockInv)
  BY BlockInvariant
<1>. QED  BY <1>1, <1>2, <1>3, <1>4, PTL DEF Spec
=============================================================================
