----------------------- MODULE SharedCaseQueue_proofs -----------------------
(***************************************************************************)
(* Every step of the shared case queue, of any process and under any       *)
(* fault, is a transaction of CaseLedger and a step of the launch protocol *)
(* or leaves them alone.  What is proved of those two modules therefore    *)
(* holds of the whole queue.                                               *)
(***************************************************************************)
EXTENDS SharedCaseQueue, CaseLedger_proofs, LaunchGuardian_proofs

(* Past its claim a supervisor works on an attempt that exists.            *)
Owning == SupervisorStates \ {"down", "top", "claim"}

OwnersHold ==
    /\ supState \in [Supervisors -> SupervisorStates]
    /\ supAttempt \in [Supervisors -> AttemptIds \cup {NoAttempt}]
    /\ \A s \in Supervisors : supState[s] \in Owning => supAttempt[s] \in AttemptIds

(* What a step may do to the rows and to the processes of an attempt.      *)
LedgerMove == LedgerNext \/ UNCHANGED ledgerVars
LaunchMove == LaunchNext \/ UNCHANGED launchVars
Moves == LedgerMove /\ LaunchMove /\ OwnersHold'

-----------------------------------------------------------------------------
(* The three ways supervisors move.                                        *)
LEMMA GoToHolds ==
    ASSUME OwnersHold, NEW s \in Supervisors, NEW state \in SupervisorStates,
           GoTo(s, state), state \in Owning => supState[s] \in Owning
    PROVE  OwnersHold'
BY DEF OwnersHold, GoTo

LEMMA LeaveHolds ==
    ASSUME OwnersHold, NEW s \in Supervisors, NEW state \in {"down", "top"}, Leave(s, state)
    PROVE  OwnersHold'
BY DEF OwnersHold, Leave, Owning, SupervisorStates

LEMMA ContinueHolds ==
    ASSUME OwnersHold, NEW a, NEW result, OwnerContinues(a, result)
    PROVE  OwnersHold'
<1>. DEFINE mine(s) == supAttempt[s] = a /\ supState[s] = "settle"
            next == CASE result = "accepted" -> "top"
                      [] result = "retryable" -> "decide"
                      [] OTHER -> "down"
<1>1. next \in {"top", "decide", "down"}
  <2>1. CASE result = "accepted"
    BY <2>1, Zenon
  <2>2. CASE result = "retryable"
    BY <2>2, Zenon
  <2>3. CASE result # "accepted" /\ result # "retryable"
    BY <2>3, Zenon
  <2>. QED  BY <2>1, <2>2, <2>3
<1>2. /\ supState' = [s \in Supervisors |-> IF mine(s) THEN next ELSE supState[s]]
      /\ supAttempt' = [s \in Supervisors |->
                          IF mine(s) /\ next # "decide" THEN NoAttempt ELSE supAttempt[s]]
  BY Zenon DEF OwnerContinues
<1>. HIDE DEF next
<1>. QED  BY <1>1, <1>2 DEF OwnersHold, Owning, SupervisorStates

LEMMA UnmovedHolds == OwnersHold /\ UNCHANGED supervisorVars => OwnersHold'
BY DEF OwnersHold, supervisorVars

LEMMA EndCallHolds ==
    ASSUME OwnersHold, NEW a, NEW result, EndCall(a, result)
    PROVE  OwnersHold'
BY ContinueHolds, UnmovedHolds DEF EndCall

LEMMA MoveToHolds ==
    ASSUME OwnersHold, NEW a, NEW at, MoveTo(a, at)
    PROVE  OwnersHold'
BY UnmovedHolds DEF MoveTo

-----------------------------------------------------------------------------
(* The calls that hold the attempt's lock.                                 *)
LEMMA RowsAtRest ==
    ASSUME UNCHANGED ledgerVars, UNCHANGED launchVars, OwnersHold'
    PROVE  Moves
BY DEF Moves, LedgerMove, LaunchMove

LEMMA EvidenceStep ==
    ASSUME OwnersHold, NEW a \in AttemptIds,
           CallWritesSidecar(a) \/ CallWritesManifest(a) \/ CallSealsManifest(a)
    PROVE  Moves
<1>1. UNCHANGED ledgerVars /\ UNCHANGED launchVars
  BY DEF CallWritesSidecar, CallWritesManifest, CallSealsManifest
<1>2. CASE CallWritesSidecar(a)
  BY <1>1, <1>2, MoveToHolds, RowsAtRest DEF CallWritesSidecar
<1>3. ASSUME AfterManifest(a)
      PROVE  OwnersHold'
  BY <1>3, MoveToHolds, EndCallHolds DEF AfterManifest
<1>4. CASE CallWritesManifest(a)
  <2>1. \/ \E at \in {"block", "seal"} : MoveTo(a, at)
        \/ EndCall(a, "raised")
        \/ AfterManifest(a)
    BY <1>4, Zenon DEF CallWritesManifest
  <2>. QED  BY <1>1, <1>3, <2>1, MoveToHolds, EndCallHolds, RowsAtRest
<1>5. CASE CallSealsManifest(a)
  BY <1>1, <1>3, <1>5, RowsAtRest DEF CallSealsManifest
<1>. QED  BY <1>2, <1>4, <1>5

LEMMA CommitStep ==
    ASSUME OwnersHold, NEW a \in AttemptIds, CallCommits(a)
    PROVE  Moves
<1>1. LaunchMove
  BY DEF CallCommits, LaunchMove
<1>2. \/ UNCHANGED ledgerVars
      \/ CommitAccepted(a)
      \/ CommitCapture(a, CallOutcome(a))
      \/ CommitRetryable(a)
  BY Zenon DEF CallCommits
<1>3. LedgerMove
  <2>1. CASE CommitCapture(a, CallOutcome(a))
    <3>1. CallOutcome(a) \in Outcomes
      BY <2>1 DEF CommitCapture, Outcomes
    <3>. QED  BY <2>1, <3>1, Zenon DEF LedgerMove, LedgerNext
  <2>. QED  BY <1>2, <2>1, Zenon DEF LedgerMove, LedgerNext
<1>4. OwnersHold'
  <2>1. \/ \E at \in {"block", "requeue"} : MoveTo(a, at)
        \/ \E result : EndCall(a, result)
    BY Zenon DEF CallCommits
  <2>. QED  BY <2>1, MoveToHolds, EndCallHolds
<1>. QED  BY <1>1, <1>3, <1>4 DEF Moves

LEMMA CallIsLedgerStep ==
    ASSUME OwnersHold, NEW a \in AttemptIds, CallStep(a)
    PROVE  Moves
<1>1. CASE CallBlocks(a)
  <2>1. BlockAttempt(a) \/ BlockOrphanRow(a) \/ UNCHANGED ledgerVars
    BY <1>1, Zenon DEF CallBlocks
  <2>2. LedgerMove
    BY <2>1, Zenon DEF LedgerMove, LedgerNext
  <2>3. LaunchMove
    BY <1>1 DEF CallBlocks, LaunchMove
  <2>4. OwnersHold'
    BY <1>1, EndCallHolds DEF CallBlocks
  <2>. QED  BY <2>2, <2>3, <2>4 DEF Moves
<1>2. CASE CallRequeues(a)
  <2>1. LedgerMove
    <3>1. RequeueRow(a, FALSE) /\ FALSE \in BOOLEAN
      BY <1>2 DEF CallRequeues
    <3>. QED  BY <3>1, Zenon DEF LedgerMove, LedgerNext
  <2>2. LaunchMove
    BY <1>2 DEF CallRequeues, LaunchMove
  <2>3. OwnersHold'
    BY <1>2, EndCallHolds DEF CallRequeues
  <2>. QED  BY <2>1, <2>2, <2>3 DEF Moves
<1>. QED  BY <1>1, <1>2, EvidenceStep, CommitStep DEF CallStep

-----------------------------------------------------------------------------
(* The loop of a supervisor.                                               *)
LEMMA ClaimIsLedgerStep ==
    ASSUME OwnersHold, LedgerInv, NEW s \in Supervisors, SupervisorClaims(s)
    PROVE  Moves
<1>1. WorkerOf[s] \in Workers
  BY QueueAssumption
<1>2. LaunchMove
  BY DEF SupervisorClaims, LaunchMove
<1>3. CASE Leave(s, "down") /\ (Halt \/ UNCHANGED ledgerVars)
  <2>1. LedgerMove
    BY <1>3, Zenon DEF LedgerMove, LedgerNext
  <2>. QED  BY <1>2, <1>3, <2>1, LeaveHolds DEF Moves
<1>4. ASSUME NEW c \in Cases, ClaimRow(WorkerOf[s], c),
             supAttempt' = [supAttempt EXCEPT ![s] = NewAttempt(c)],
             supState' = [supState EXCEPT ![s] = "record"]
      PROVE  Moves
  <2>1. LedgerMove
    BY <1>1, <1>4, Zenon DEF LedgerMove, LedgerNext
  <2>2. NewAttempt(c) \in AttemptIds
    BY <1>4, LedgerAssumption
       DEF ClaimRow, NewAttempt, AttemptIds, LedgerInv, LedgerTypeOK
  <2>3. OwnersHold'
    BY <1>4, <2>2 DEF OwnersHold, Owning, SupervisorStates
  <2>. QED  BY <1>2, <2>1, <2>3 DEF Moves
<1>. QED  BY <1>3, <1>4, Zenon DEF SupervisorClaims

LEMMA DecideIsLedgerStep ==
    ASSUME OwnersHold, NEW s \in Supervisors, SupervisorDecides(s)
    PROVE  Moves
<1>. DEFINE a == supAttempt[s]
<1>1. a \in AttemptIds
  BY DEF OwnersHold, Owning, SupervisorStates, SupervisorDecides
<1>2. LaunchMove
  BY DEF SupervisorDecides, LaunchMove
<1>3. BlockAttempt(a) \/ RequeueRow(a, FALSE) \/ UNCHANGED ledgerVars
  BY Zenon DEF SupervisorDecides
<1>4. LedgerMove
  <2>. HIDE DEF a
  <2>1. FALSE \in BOOLEAN
    OBVIOUS
  <2>. QED  BY <1>1, <1>3, <2>1, Zenon DEF LedgerMove, LedgerNext
<1>5. Leave(s, "down") \/ Leave(s, "top")
  BY Zenon DEF SupervisorDecides
<1>6. OwnersHold'
  BY <1>5, LeaveHolds
<1>. QED  BY <1>2, <1>4, <1>6 DEF Moves

LEMMA SupervisorIsLedgerStep ==
    ASSUME OwnersHold, LedgerInv, NEW s \in Supervisors, SupervisorStep(s)
    PROVE  Moves
<1>. DEFINE a == supAttempt[s]
<1>1. supState[s] \in Owning => a \in Attempts
  BY QueueAssumption DEF OwnersHold
<1>2. CASE SupervisorReconciles(s)
  <2>1. (\E b \in AttemptIds : OrphanRow(b)) \/ UNCHANGED ledgerVars
    BY <1>2 DEF SupervisorReconciles
  <2>2. LedgerMove
    BY <2>1, Zenon DEF LedgerMove, LedgerNext
  <2>3. OwnersHold'
    BY <1>2, GoToHolds DEF SupervisorReconciles, Owning, SupervisorStates
  <2>. QED  BY <1>2, <2>2, <2>3 DEF SupervisorReconciles, Moves, LaunchMove
<1>3. CASE SupervisorRecordsCommand(s)
  <2>1. OwnersHold'
    BY <1>3, GoToHolds DEF SupervisorRecordsCommand, Owning, SupervisorStates
  <2>. QED  BY <1>3, <2>1, RowsAtRest DEF SupervisorRecordsCommand
<1>4. CASE SupervisorBeginsLaunch(s)
  <2>1. a \in Attempts
    BY <1>1, <1>4 DEF SupervisorBeginsLaunch, Owning, SupervisorStates
  <2>2. BeginLaunch(a) \/ UNCHANGED launchVars
    BY <1>4 DEF SupervisorBeginsLaunch
  <2>3. GoTo(s, "spawn") \/ Leave(s, "down")
    BY <1>4 DEF SupervisorBeginsLaunch
  <2>4. OwnersHold'
    BY <1>4, <2>3, GoToHolds, LeaveHolds
       DEF SupervisorBeginsLaunch, Owning, SupervisorStates
  <2>5. LaunchMove
    BY <2>1, <2>2, Zenon DEF LaunchMove, LaunchNext
  <2>. QED  BY <1>4, <2>4, <2>5 DEF SupervisorBeginsLaunch, Moves, LedgerMove
<1>5. CASE SupervisorSpawns(s)
  <2>1. a \in Attempts
    BY <1>1, <1>5 DEF SupervisorSpawns, Owning, SupervisorStates
  <2>2. LaunchMove
    BY <1>5, <2>1, Zenon DEF SupervisorSpawns, LaunchMove, LaunchNext
  <2>3. OwnersHold'
    BY <1>5, GoToHolds DEF SupervisorSpawns, Owning, SupervisorStates
  <2>. QED  BY <1>5, <2>2, <2>3 DEF SupervisorSpawns, Moves, LedgerMove
<1>6. CASE SupervisorStopsWatching(s)
  <2>1. GoTo(s, "collect") \/ Leave(s, "down")
    BY <1>6 DEF SupervisorStopsWatching
  <2>2. OwnersHold'
    BY <1>6, <2>1, GoToHolds, LeaveHolds
       DEF SupervisorStopsWatching, Owning, SupervisorStates
  <2>. QED  BY <1>6, <2>2, RowsAtRest DEF SupervisorStopsWatching
<1>7. CASE SupervisorCollects(s)
  <2>1. (\E state \in {"finish", "fail"} : GoTo(s, state)) \/ Leave(s, "down")
    BY <1>7, Zenon DEF SupervisorCollects
  <2>2. OwnersHold'
    BY <1>7, <2>1, GoToHolds, LeaveHolds
       DEF SupervisorCollects, Owning, SupervisorStates
  <2>. QED  BY <1>7, <2>2, RowsAtRest DEF SupervisorCollects
<1>8. CASE SupervisorSettles(s)
  <2>1. UNCHANGED ledgerVars /\ UNCHANGED launchVars
    BY <1>8 DEF SupervisorSettles, FinishBegins, FailBegins
  <2>2. GoTo(s, "settle") \/ Leave(s, "down")
    BY <1>8 DEF SupervisorSettles
  <2>3. OwnersHold'
    BY <1>8, <2>2, GoToHolds, LeaveHolds
       DEF SupervisorSettles, Owning, SupervisorStates
  <2>. QED  BY <2>1, <2>3, RowsAtRest
<1>. QED
  BY <1>2, <1>3, <1>4, <1>5, <1>6, <1>7, <1>8, ClaimIsLedgerStep, DecideIsLedgerStep
     DEF SupervisorStep

-----------------------------------------------------------------------------
(* Guardians, runners and operators.                                       *)
LEMMA GuardianIsLaunchStep ==
    ASSUME OwnersHold, NEW a \in AttemptIds,
           GuardianStep(a) \/ RunnerWrites(a) \/ RunnerEnds(a)
    PROVE  Moves
<1>1. a \in Attempts /\ "nonzero" \in ExitCodes
  BY QueueAssumption DEF ExitCodes
<1>2. OwnersHold'
  BY UnmovedHolds DEF GuardianStep, GuardianBinds, GuardianUpdatesLease,
     GuardianStartsRunner, GuardianRecordsExit, GuardianEnds, RunnerWrites, RunnerEnds
<1>3. Halt \/ UNCHANGED ledgerVars
  BY DEF GuardianStep, GuardianBinds, GuardianUpdatesLease, GuardianStartsRunner,
     GuardianRecordsExit, GuardianEnds, RunnerWrites, RunnerEnds
<1>4. LedgerMove
  BY <1>3, Zenon DEF LedgerMove, LedgerNext
<1>5. \/ BindRunner(a) \/ BindReturns(a) \/ StartRunner(a)
      \/ RecordExit(a) \/ GuardianExits(a) \/ GuardianDies(a, "nonzero")
      \/ (\E code \in ExitCodes : RunnerStops(a, code))
      \/ UNCHANGED launchVars
  BY DEF GuardianStep, GuardianBinds, GuardianUpdatesLease, GuardianStartsRunner,
     GuardianRecordsExit, GuardianEnds, RunnerWrites, RunnerEnds
<1>6. LaunchMove
  BY <1>1, <1>5, Zenon DEF LaunchMove, LaunchNext
<1>. QED  BY <1>2, <1>4, <1>6 DEF Moves

LEMMA OperatorIsLedgerStep ==
    ASSUME OwnersHold, OperatorStep
    PROVE  Moves
<1>1. OwnersHold'
  BY UnmovedHolds DEF OperatorStep, OperatorReconciles, OperatorFinishes, OperatorFails,
     OperatorRecovers, RecoverBegins, OperatorRetries, OperatorAudits, OperatorClearsHalt
<1>2. LaunchMove
  BY DEF OperatorStep, OperatorReconciles, OperatorFinishes, FinishBegins,
     OperatorFails, FailBegins, OperatorRecovers, RecoverBegins, OperatorRetries,
     OperatorAudits, OperatorClearsHalt, LaunchMove
<1>3. LedgerMove
  <2>1. \/ \E a \in AttemptIds :
              OrphanRow(a) \/ (\E note \in BOOLEAN : RequeueRow(a, note))
        \/ Halt \/ ClearHaltRow \/ UNCHANGED ledgerVars
    BY DEF OperatorStep, OperatorReconciles, OperatorFinishes, FinishBegins,
       OperatorFails, FailBegins, OperatorRecovers, RecoverBegins, OperatorRetries,
       OperatorAudits, OperatorClearsHalt
  <2>. QED  BY <2>1, Zenon DEF LedgerMove, LedgerNext
<1>. QED  BY <1>1, <1>2, <1>3 DEF Moves

-----------------------------------------------------------------------------
(* Faults, and all of it.                                                  *)
LEMMA FaultIsLaunchStep ==
    ASSUME OwnersHold, CampaignFault \/ Interruption
    PROVE  Moves
<1>1. "nonzero" \in ExitCodes /\ Attempts = AttemptIds
  BY QueueAssumption DEF ExitCodes
<1>2. ASSUME NEW s \in Supervisors, SupervisorCrashes(s)
      PROVE  Moves
  BY <1>2, LeaveHolds, RowsAtRest DEF SupervisorCrashes
<1>3. ASSUME NEW s \in Supervisors, SupervisorTimesOut(s)
      PROVE  Moves
  <2>1. supAttempt[s] \in Attempts
    BY <1>1, <1>3 DEF SupervisorTimesOut, OwnersHold, Owning, SupervisorStates
  <2>2. LaunchMove
    BY <1>1, <1>3, <2>1, Zenon DEF SupervisorTimesOut, LaunchMove, LaunchNext
  <2>3. OwnersHold'
    BY <1>3 DEF SupervisorTimesOut, OwnersHold, Owning, SupervisorStates
  <2>. QED  BY <1>3, <2>2, <2>3 DEF SupervisorTimesOut, Moves, LedgerMove
<1>4. ASSUME NEW a \in AttemptIds, GuardianCrashes(a) \/ GuardianRaises(a)
      PROVE  Moves
  <2>1. LaunchMove
    BY <1>1, <1>4, Zenon DEF GuardianCrashes, GuardianRaises, LaunchMove, LaunchNext
  <2>2. LedgerMove
    BY <1>4, Zenon DEF GuardianCrashes, GuardianRaises, LedgerMove, LedgerNext
  <2>3. OwnersHold'
    BY <1>4, UnmovedHolds DEF GuardianCrashes, GuardianRaises
  <2>. QED  BY <2>1, <2>2, <2>3 DEF Moves
<1>5. ASSUME NEW a \in AttemptIds, CallerCrashes(a)
      PROVE  Moves
  BY <1>5, UnmovedHolds, RowsAtRest DEF CallerCrashes
<1>6. CASE MachineReboots
  <2>1. LaunchMove
    BY <1>6, Zenon DEF MachineReboots, LaunchMove, LaunchNext
  <2>2. OwnersHold'
    BY <1>6 DEF MachineReboots, OwnersHold, Owning, SupervisorStates
  <2>. QED  BY <1>6, <2>1, <2>2 DEF MachineReboots, Moves, LedgerMove
<1>. QED  BY <1>2, <1>3, <1>4, <1>5, <1>6 DEF CampaignFault, Interruption

LEMMA StartIsAtRest ==
    ASSUME OwnersHold, NEW s \in Supervisors, SupervisorStarts(s)
    PROVE  Moves
<1>1. OwnersHold'
  BY GoToHolds DEF SupervisorStarts, Owning, SupervisorStates
<1>. QED  BY <1>1, RowsAtRest DEF SupervisorStarts

LEMMA QueueStep ==
    ASSUME OwnersHold, LedgerInv, [Next]_vars
    PROVE  Moves
<1>1. CASE UNCHANGED vars
  <2>1. UNCHANGED ledgerVars /\ UNCHANGED launchVars /\ UNCHANGED supervisorVars
    BY <1>1 DEF vars
  <2>. QED  BY <2>1, UnmovedHolds, RowsAtRest
<1>. QED
  BY <1>1, SupervisorIsLedgerStep, StartIsAtRest, CallIsLedgerStep, GuardianIsLaunchStep,
     OperatorIsLedgerStep, FaultIsLaunchStep DEF Next, Uninterrupted, Interruption

LEMMA OwnersInit == Init => OwnersHold
BY DEF Init, OwnersHold, Owning, SupervisorStates

LEMMA QueueInvariant == Spec => [](LedgerInv /\ OwnersHold)
<1>1. Init => LedgerInv /\ OwnersHold
  BY LedgerInitInv, OwnersInit DEF Init
<1>2. (LedgerInv /\ OwnersHold) /\ [Next]_vars => (LedgerInv /\ OwnersHold)'
  BY QueueStep, LedgerStep DEF Moves, LedgerMove
<1>. QED  BY <1>1, <1>2, PTL DEF Spec

(* The queue implements the ledger and the launch protocol: no process, no *)
(* interleaving and no fault changes a row or a process in another way.    *)
THEOREM QueueIsLedger == Spec => QueueImplementsLedger
<1>1. (LedgerInv /\ OwnersHold) /\ [Next]_vars
        => [LedgerNext]_ledgerVars /\ [LaunchNext]_launchVars
  BY QueueStep DEF Moves, LedgerMove, LaunchMove
<1>2. Init => LedgerInit /\ LaunchInit
  BY DEF Init
<1>. QED
  BY <1>1, <1>2, QueueInvariant, PTL DEF Spec, QueueImplementsLedger, LedgerSpec, LaunchSpec

(* No worker, and so no endpoint, is ever held by two attempts, whatever   *)
(* supervisors, operators, guardians and faults do.                        *)
THEOREM QueueWorkersAreExclusive == Spec => []WorkerExclusive
BY QueueIsLedger, WorkersAreExclusive, PTL DEF QueueImplementsLedger

(* The rows stay consistent in the running queue: what the transactions    *)
(* keep, supervisors, operators, guardians and faults between them do not  *)
(* break.                                                                  *)
THEOREM QueueRowsAgree == Spec => []LedgerInv
BY QueueIsLedger, LedgerInvariant, PTL DEF QueueImplementsLedger

(* An acceptance or a sealed outcome is never taken back in the running    *)
(* queue, by a retry, a recovery or a second supervisor either.            *)
THEOREM QueueCommitmentsAreFinal == Spec => CommittedIsFinal
BY QueueIsLedger, CommitmentsAreFinal, PTL DEF QueueImplementsLedger

(* In the running queue, too, a launch intent starts at most one runner,   *)
(* whoever crashes or reboots and however often a supervisor comes back.   *)
THEOREM QueueLaunchesOnce == Spec => OneRunnerPerIntent
BY QueueIsLedger, LaunchedOnce, PTL DEF QueueImplementsLedger

(* Whoever concludes in the running queue that a runner has stopped is     *)
(* right about the runner and about its guardian.                          *)
THEOREM QueueStoppedIsSound == Spec => []StoppedIsSound
<1>1. LaunchInv => StoppedIsSound
  BY DEF LaunchInv
<1>. QED  BY <1>1, QueueIsLedger, LaunchInvariant, PTL DEF QueueImplementsLedger

(* The queue keeps the promise of CaseDispatch to the campaign.            *)
THEOREM QueueImplementsDispatch == Spec => ImplementsDispatch
BY QueueIsLedger, LedgerImplementsDispatch, PTL DEF QueueImplementsLedger
=============================================================================
