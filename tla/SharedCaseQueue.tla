--------------------------- MODULE SharedCaseQueue ---------------------------
(***************************************************************************)
(* The shared case queue at work: supervisors (supervise), one guardian    *)
(* per launch (_launch_child), operators at the command line or in the     *)
(* library, the per-attempt file lock, and the faults that interrupt them. *)
(* The rows are those of CaseLedger, the launch protocol is LaunchGuardian *)
(* and the files are AttemptEvidence; here the calls of                    *)
(* scripts/assignment/shared_case_queue.py that span several transactions  *)
(* and files are split at the points where another process can act.        *)
(***************************************************************************)
EXTENDS CaseLedger, AttemptEvidence

CONSTANTS
    Supervisors,    \* supervise processes
    WorkerOf,       \* the --worker-id each one was started with
    MaxRetries,     \* --max-retries
    Results,        \* the results runners and operators produce in this instance
    OperatorCalls,  \* the calls operators make in this instance
    Faults          \* the faults that happen in this instance

OperatorCallNames == {"finish", "supply", "returncode", "fail", "recover",
                      "retry", "clear_halt", "audit"}
FaultNames == {"supervisor_crash", "caller_crash", "guardian_crash",
               "guardian_error", "reboot", "deadline", "gate_drift", "worker_drift"}

ASSUME QueueAssumption ==
    /\ Attempts = AttemptIds
    /\ WorkerOf \in [Supervisors -> Workers]
    /\ MaxRetries \in Nat
    /\ Results \subseteq ResultKinds
    /\ OperatorCalls \subseteq OperatorCallNames
    /\ Faults \subseteq FaultNames

VARIABLES
    call,           \* the call that holds the attempt's file lock
    supState,       \* where each supervisor is in its loop
    supAttempt,     \* the attempt it owns
    timedOut,       \* its case deadline expired
    workerEnabled   \* workers.enabled

supervisorVars == << supState, supAttempt, timedOut >>
vars == << ledgerVars, launchVars, evidenceVars, call, supervisorVars, workerEnabled >>

(* A call in progress.  launch and sealed are the columns it read before   *)
(* it opened its last transaction; code is --returncode.                   *)
Calls == [by : {"nobody", "owner", "operator"},
          kind : {"none", "finish", "fail", "inspect", "accept", "retry"},
          at : {"none", "result", "failure", "manifest", "seal", "commit",
                "block", "requeue"},
          source : Sources,
          content : ResultContents \cup FailureContents,
          code : ExitCodes \cup {"none"},
          launch : LaunchStates,
          sealed : BOOLEAN]

NoCall == [by |-> "nobody", kind |-> "none", at |-> "none", source |-> "result",
           content |-> "absent", code |-> "none", launch |-> "unstarted",
           sealed |-> FALSE]

SupervisorStates == {"down", "top", "claim", "record", "launch", "spawn", "watch",
                     "collect", "finish", "fail", "settle", "decide"}

QueueTypeOK ==
    /\ call \in [AttemptIds -> Calls]
    /\ supState \in [Supervisors -> SupervisorStates]
    /\ supAttempt \in [Supervisors -> AttemptIds \cup {NoAttempt}]
    /\ timedOut \in [Supervisors -> BOOLEAN]
    /\ workerEnabled \in [Workers -> BOOLEAN]

TypeOK == LedgerTypeOK /\ LaunchTypeOK /\ EvidenceTypeOK /\ QueueTypeOK

(* A queue whose workers are registered and whose gates were reviewed and  *)
(* released, with one supervisor started for each member of Supervisors.   *)
Init ==
    /\ LedgerInit /\ halted = FALSE
    /\ LaunchInit
    /\ EvidenceInit
    /\ call = [a \in AttemptIds |-> NoCall]
    /\ supState = [s \in Supervisors |-> "top"]
    /\ supAttempt = [s \in Supervisors |-> NoAttempt]
    /\ timedOut = [s \in Supervisors |-> FALSE]
    /\ workerEnabled = [w \in Workers |-> TRUE]

-----------------------------------------------------------------------------
(* The attempt's flock is free: no serialized call is inside it.           *)
LockFree(a) == call[a].at = "none" /\ guardian[a] # "binding"

OwnerAlive(a) == \E s \in Supervisors : supAttempt[s] = a

(* Mutants: ask about the owner only, or about the runner only.            *)
OwnerDead(a) == ~OwnerAlive(a)
RunnerDead(a) == RunnerStopped(a)

(* _live_attempt_state answers "dead".                                     *)
Dead(a) == ~OwnerAlive(a) /\ RunnerStopped(a)

(* A supervise process ends, with or without an exception.                 *)
GoTo(s, state) ==
    /\ supState' = [supState EXCEPT ![s] = state]
    /\ UNCHANGED << supAttempt, timedOut >>

Leave(s, state) ==
    /\ supState' = [supState EXCEPT ![s] = state]
    /\ supAttempt' = [supAttempt EXCEPT ![s] = NoAttempt]
    /\ timedOut' = [timedOut EXCEPT ![s] = FALSE]

(* What the owner does with what its finish_attempt or fail_attempt        *)
(* returned or raised.                                                     *)
OwnerContinues(a, result) ==
    LET mine(s) == supAttempt[s] = a /\ supState[s] = "settle"
        next == CASE result = "accepted" -> "top"
                  [] result = "retryable" -> "decide"
                  [] OTHER -> "down"
    IN  /\ supState' = [s \in Supervisors |-> IF mine(s) THEN next ELSE supState[s]]
        /\ supAttempt' = [s \in Supervisors |->
                            IF mine(s) /\ next # "decide" THEN NoAttempt ELSE supAttempt[s]]
        /\ timedOut' = [s \in Supervisors |-> timedOut[s] /\ ~mine(s)]

EndCall(a, result) ==
    /\ call' = [call EXCEPT ![a] = NoCall]
    /\ IF call[a].by = "owner" THEN OwnerContinues(a, result) ELSE UNCHANGED supervisorVars

MoveTo(a, at) ==
    /\ call' = [call EXCEPT ![a].at = at]
    /\ UNCHANGED supervisorVars

(* Mutant: reads the status of the attempt for that of its launch.         *)
EnterCallWithStatus(a, by, kind, at, source, content, code) ==
    call' = [call EXCEPT ![a] =
               [by |-> by, kind |-> kind, at |-> at, source |-> source,
                content |-> content, code |-> code,
                launch |-> attemptStatus[a], sealed |-> outcome[a] # "none"]]

EnterCall(a, by, kind, at, source, content, code) ==
    call' = [call EXCEPT ![a] =
               [by |-> by, kind |-> kind, at |-> at, source |-> source,
                content |-> content, code |-> code,
                launch |-> launchState[a], sealed |-> outcome[a] # "none"]]

-----------------------------------------------------------------------------
(* Mutant: does not ask whether the runner has stopped.                    *)
CompletionRowsUnasked(a) == attemptStatus[a] \notin {"absent", "requeued"}

(* _completion_rows                                                        *)
CompletionRows(a) ==
    /\ attemptStatus[a] \notin {"absent", "requeued"}
    /\ RunnerStopped(a)

(* finish_attempt up to the manifest; supplied is the caller's result, or  *)
(* "absent" when the file of the runner is to be used.                     *)
FinishBegins(a, by, supplied, code) ==
    /\ LockFree(a)
    /\ CompletionRows(a)
    /\ IF supplied # "absent" /\ resultFile[a] = "absent"
                /\ outcome[a] = "none" /\ manifest[a].state = "absent"
       THEN /\ WriteResult(a, "torn")
            /\ EnterCall(a, by, "finish", "result", "result", supplied, code)
       ELSE /\ UNCHANGED evidenceVars
            /\ EnterCall(a, by, "finish",
                         IF Verifiable(resultFile[a]) /\ supplied \in {"absent", resultFile[a]}
                         THEN "manifest" ELSE "block",
                         "result", resultFile[a], code)
    /\ UNCHANGED << ledgerVars, launchVars, workerEnabled >>

(* fail_attempt up to the manifest.                                        *)
FailBegins(a, by, kind) ==
    /\ LockFree(a)
    /\ CompletionRows(a)
    /\ IF failureFile[a] = "absent" /\ outcome[a] = "none" /\ manifest[a].state = "absent"
       THEN /\ WriteFailure(a, "torn")
            /\ EnterCall(a, by, "fail", "failure", "failure", kind, "none")
       ELSE /\ UNCHANGED evidenceVars
            /\ EnterCall(a, by, "fail",
                         IF failureFile[a] = kind THEN "manifest" ELSE "block",
                         "failure", kind, "none")
    /\ UNCHANGED << ledgerVars, launchVars, workerEnabled >>

(* reconcile_orphan up to the manifest.  Without any durable outcome only  *)
(* "retry" goes on, with a failure receipt of its own.                     *)
RecoverBegins(a, action) ==
    /\ LockFree(a)
    /\ attemptStatus[a] = "orphaned" \/ (attemptStatus[a] = "accepted" /\ action = "accept")
    /\ Dead(a)
    /\ \/ /\ resultFile[a] # "absent"
          /\ UNCHANGED evidenceVars
          /\ EnterCall(a, "operator", action,
                       IF Verifiable(resultFile[a]) THEN "manifest" ELSE "block",
                       "result", resultFile[a], "none")
       \/ /\ resultFile[a] = "absent" /\ failureFile[a] # "absent"
          /\ UNCHANGED evidenceVars
          /\ EnterCall(a, "operator", action,
                       IF Verifiable(failureFile[a]) THEN "manifest" ELSE "block",
                       "failure", failureFile[a], "none")
       \/ /\ resultFile[a] = "absent" /\ failureFile[a] = "absent"
          /\ action = "retry"
          /\ WriteFailure(a, "torn")
          /\ EnterCall(a, "operator", action, "failure", "failure", "crash", "none")
    /\ UNCHANGED << ledgerVars, launchVars, supervisorVars, workerEnabled >>

(* The sidecar of the result or failure file the call has just written.    *)
CallWritesSidecar(a) ==
    /\ \/ call[a].at = "result" /\ WriteResult(a, call[a].content)
       \/ call[a].at = "failure" /\ WriteFailure(a, call[a].content)
    /\ MoveTo(a, "manifest")
    /\ UNCHANGED << ledgerVars, launchVars, workerEnabled >>

-----------------------------------------------------------------------------
Recovering(a) == call[a].kind \in {"inspect", "accept", "retry"}

CallClass(a) == IF call[a].source = "result"
                THEN ResultClass(call[a].content)
                ELSE FailureClass(call[a].content)

(* inspect stops at the manifest, accept wants a completed result and      *)
(* retry anything else.                                                    *)
StopsAtManifest(a) ==
    \/ call[a].kind = "inspect"
    \/ call[a].kind = "accept" /\ CallClass(a) # "accepted"
    \/ call[a].kind = "retry" /\ CallClass(a) = "accepted"

AfterManifest(a) ==
    IF StopsAtManifest(a) THEN EndCall(a, "raised") ELSE MoveTo(a, "commit")

(* Mutant: writes the manifest whenever nothing was committed yet.         *)
ManifestUncommitted(a) == manifest[a].state # "torn" /\ ~call[a].sealed

(* The manifest of a first completion is still to be written.              *)
ManifestMissing(a) == manifest[a].state = "absent" /\ ~call[a].sealed

(* _write_artifact_manifest: the lease token must be readable; a manifest  *)
(* that exists must say exactly what this call would write.                *)
CallWritesManifest(a) ==
    LET body == Inventory(a, call[a].source, call[a].launch)
        old == manifest[a]
    IN  /\ call[a].at = "manifest"
        /\ \/ /\ leaseFile[a] = "torn"
              /\ UNCHANGED evidenceVars
              /\ IF Recovering(a) THEN MoveTo(a, "block") ELSE EndCall(a, "raised")
           \/ /\ leaseFile[a] = "intact" /\ ManifestMissing(a)
              /\ WriteManifest(a, body)
              /\ MoveTo(a, "seal")
           \/ /\ leaseFile[a] = "intact" /\ old.state = "sealed" /\ old.body = body
              /\ UNCHANGED evidenceVars
              /\ AfterManifest(a)
           \/ /\ leaseFile[a] = "intact"
              /\ \/ old.state = "absent" /\ call[a].sealed
                 \/ old.state = "torn"
                 \/ old.state = "sealed" /\ old.body # body
              /\ UNCHANGED evidenceVars
              /\ MoveTo(a, "block")
        /\ UNCHANGED << ledgerVars, launchVars, workerEnabled >>

CallSealsManifest(a) ==
    /\ call[a].at = "seal"
    /\ SealManifest(a)
    /\ AfterManifest(a)
    /\ UNCHANGED << ledgerVars, launchVars, workerEnabled >>

(* Mutant: believes the caller and does not read the receipt.              *)
CallerCode(a) == call[a].code

(* The exit code that decides: the receipt's, or else the caller's.        *)
ObservedCode(a) == IF Receipt(a) # "none" THEN Receipt(a) ELSE call[a].code

CodeConflict(a) ==
    call[a].code # "none" /\ Receipt(a) # "none" /\ call[a].code # Receipt(a)

CallOutcome(a) ==
    IF CallClass(a) = "accepted" /\ ObservedCode(a) = "nonzero"
    THEN "completed_capture" ELSE CallClass(a)

CompletionStatus(a) ==
    CASE attemptStatus[a] = "accepted" -> "accepted"
      [] attemptStatus[a] = "retryable" -> "retryable"
      [] OTHER -> "halted"

(* A replay of a sealed completion must reach the outcome that was sealed. *)
ReplayConflict(a) == outcome[a] # "none" /\ CallOutcome(a) # outcome[a]

CommitRefused(a) ==
    \/ ~RunnerStopped(a)
    \/ attemptStatus[a] = "requeued"
    \/ attemptStatus[a] = "orphaned" /\ (~Recovering(a) \/ ~Dead(a))

(* _commit_prepared, with the two ways its integrity errors are handled:   *)
(* finish and fail go on to _block_attempt, reconcile_orphan just raises.  *)
CallCommits(a) ==
    /\ call[a].at = "commit"
    /\ \/ /\ CodeConflict(a) \/ (RunnerStopped(a) /\ ReplayConflict(a))
          /\ IF Recovering(a) THEN EndCall(a, "raised") ELSE MoveTo(a, "block")
          /\ UNCHANGED ledgerVars
       \/ /\ ~CodeConflict(a)
          /\ ~RunnerStopped(a) \/ (~ReplayConflict(a) /\ CommitRefused(a))
          /\ EndCall(a, "raised")
          /\ UNCHANGED ledgerVars
       \/ /\ ~CodeConflict(a) /\ ~ReplayConflict(a) /\ ~CommitRefused(a)
          /\ outcome[a] # "none"
          /\ EndCall(a, CompletionStatus(a))
          /\ UNCHANGED ledgerVars
       \/ /\ ~CodeConflict(a) /\ ~CommitRefused(a)
          /\ CallOutcome(a) = "accepted"
          /\ CommitAccepted(a)
          /\ EndCall(a, "accepted")
       \/ /\ ~CodeConflict(a) /\ ~CommitRefused(a)
          /\ CommitCapture(a, CallOutcome(a))
          /\ EndCall(a, "halted")
       \/ /\ ~CodeConflict(a) /\ ~CommitRefused(a)
          /\ CallOutcome(a) = "retryable"
          /\ CommitRetryable(a)
          /\ IF call[a].kind = "retry" THEN MoveTo(a, "requeue") ELSE EndCall(a, "retryable")
    /\ UNCHANGED << launchVars, evidenceVars, workerEnabled >>

(* Mutant: leaves an orphan that cannot be verified as it is.              *)
CallBlocksUnlessOrphan(a) ==
    /\ call[a].at = "block"
    /\ IF Recovering(a) THEN UNCHANGED ledgerVars ELSE BlockAttempt(a)
    /\ EndCall(a, "raised")
    /\ UNCHANGED << launchVars, evidenceVars, workerEnabled >>

(* _block_attempt, or _block_attempt_with_token_hash after an orphan that  *)
(* cannot be verified.  Neither looks at the runner again.                 *)
CallBlocks(a) ==
    /\ call[a].at = "block"
    /\ IF ~Recovering(a) THEN BlockAttempt(a)
       ELSE IF attemptStatus[a] \in {"orphaned", "active"} THEN BlockOrphanRow(a)
       ELSE UNCHANGED ledgerVars
    /\ EndCall(a, "raised")
    /\ UNCHANGED << launchVars, evidenceVars, workerEnabled >>

CallRequeues(a) ==
    /\ call[a].at = "requeue"
    /\ RequeueRow(a, FALSE)
    /\ EndCall(a, "requeued")
    /\ UNCHANGED << launchVars, evidenceVars, workerEnabled >>

CallStep(a) ==
    \/ CallWritesSidecar(a)
    \/ CallWritesManifest(a)
    \/ CallSealsManifest(a)
    \/ CallCommits(a)
    \/ CallBlocks(a)
    \/ CallRequeues(a)

-----------------------------------------------------------------------------
(* The loop of a supervisor, from one claim to the next.                   *)

Reconcilable(a) == attemptStatus[a] = "active" /\ Dead(a)

(* queue.reconcile(worker_id=...) at the top of the loop.                  *)
SupervisorReconciles(s) ==
    /\ supState[s] = "top"
    /\ \/ \E a \in AttemptIds : /\ attemptWorker[a] = WorkerOf[s]
                                /\ Reconcilable(a)
                                /\ OrphanRow(a)
       \/ /\ \A a \in AttemptIds : attemptWorker[a] = WorkerOf[s] => ~Reconcilable(a)
          /\ UNCHANGED ledgerVars
    /\ GoTo(s, "claim")
    /\ UNCHANGED << launchVars, evidenceVars, call, workerEnabled >>

(* The answers a check of the outside world can give: where a fault makes  *)
(* it fail, either one.                                                    *)
Verdicts(fault) == IF fault \in Faults THEN BOOLEAN ELSE {TRUE}

(* claim_case.  gates is the answer of the fingerprint and storage gates,  *)
(* bound that of _verify_worker_row.  A disabled worker raises inside the  *)
(* transaction, so that the halt of a failing gate is rolled back with it. *)
SupervisorClaims(s) ==
    LET w == WorkerOf[s]
    IN  /\ supState[s] = "claim"
        /\ \E gates \in Verdicts("gate_drift"), bound \in Verdicts("worker_drift") :
              \/ /\ ~workerEnabled[w]
                 /\ Leave(s, "down")
                 /\ UNCHANGED << ledgerVars, workerEnabled >>
              \/ /\ workerEnabled[w] /\ ~(gates /\ bound)
                 /\ Halt
                 /\ workerEnabled' = [workerEnabled EXCEPT ![w] = bound]
                 /\ Leave(s, "down")
              \/ /\ workerEnabled[w] /\ gates /\ bound
                 /\ halted \/ WorkerHeld(w) \/ \A c \in Cases : caseStatus[c] # "pending"
                 /\ Leave(s, "down")
                 /\ UNCHANGED << ledgerVars, workerEnabled >>
              \/ /\ workerEnabled[w] /\ gates /\ bound
                 /\ \E c \in Cases : /\ ClaimRow(w, c)
                                     /\ supAttempt' = [supAttempt EXCEPT ![s] = NewAttempt(c)]
                 /\ supState' = [supState EXCEPT ![s] = "record"]
                 /\ UNCHANGED << timedOut, workerEnabled >>
        /\ UNCHANGED << launchVars, evidenceVars, call >>

SupervisorRecordsCommand(s) ==
    /\ supState[s] = "record"
    /\ WriteOwnerRecord(supAttempt[s], "command")
    /\ GoTo(s, "launch")
    /\ UNCHANGED << ledgerVars, launchVars, call, workerEnabled >>

SupervisorBeginsLaunch(s) ==
    LET a == supAttempt[s]
    IN  /\ supState[s] = "launch"
        /\ IF attemptStatus[a] = "active" /\ launchState[a] = "unstarted"
           THEN BeginLaunch(a) /\ GoTo(s, "spawn")
           ELSE UNCHANGED launchVars /\ Leave(s, "down")
        /\ UNCHANGED << ledgerVars, evidenceVars, call, workerEnabled >>

SupervisorSpawns(s) ==
    /\ supState[s] = "spawn"
    /\ SpawnGuardian(supAttempt[s])
    /\ GoTo(s, "watch")
    /\ UNCHANGED << ledgerVars, evidenceVars, call, workerEnabled >>

(* poll() sees the guardian exit, or a heartbeat finds the attempt taken.  *)
SupervisorStopsWatching(s) ==
    LET a == supAttempt[s]
    IN  /\ supState[s] = "watch"
        /\ \/ guardian[a] = "gone" /\ GoTo(s, "collect")
           \/ attemptStatus[a] # "active" /\ Leave(s, "down")
        /\ UNCHANGED << ledgerVars, launchVars, evidenceVars, call, workerEnabled >>

(* The case deadline: _terminate_process_group on the guardian's group.    *)
SupervisorTimesOut(s) ==
    /\ "deadline" \in Faults
    /\ supState[s] = "watch"
    /\ GuardianDies(supAttempt[s], "nonzero")
    /\ supState' = [supState EXCEPT ![s] = "collect"]
    /\ timedOut' = [timedOut EXCEPT ![s] = TRUE]
    /\ UNCHANGED << ledgerVars, evidenceVars, call, supAttempt, workerEnabled >>

(* The proof of exit, process_exit.json, and the choice between finish     *)
(* and fail.  The attempt's lock is not held here.                         *)
SupervisorCollects(s) ==
    LET a == supAttempt[s]
    IN  /\ supState[s] = "collect"
        /\ IF RunnerStopped(a)
           THEN /\ WriteOwnerRecord(a, "exit")
                /\ GoTo(s, IF resultFile[a] # "absent" THEN "finish" ELSE "fail")
           ELSE UNCHANGED evidenceVars /\ Leave(s, "down")
        /\ UNCHANGED << ledgerVars, launchVars, call, workerEnabled >>

SupervisorSettles(s) ==
    LET a == supAttempt[s]
    IN  \/ /\ supState[s] = "finish"
           /\ FinishBegins(a, "owner", "absent", Receipt(a))
           /\ GoTo(s, "settle")
        \/ /\ supState[s] = "fail"
           /\ FailBegins(a, "owner", IF timedOut[s] THEN "timeout" ELSE "no_result")
           /\ GoTo(s, "settle")
        \/ /\ supState[s] \in {"finish", "fail"}
           /\ LockFree(a) /\ ~CompletionRows(a)
           /\ Leave(s, "down")
           /\ UNCHANGED << ledgerVars, launchVars, evidenceVars, call, workerEnabled >>

(* After a retryable outcome: the retry budget, then retry_attempt.        *)
SupervisorDecides(s) ==
    LET a == supAttempt[s]
    IN  /\ supState[s] = "decide"
        /\ \/ /\ attemptCount[a[1]] > MaxRetries
              /\ BlockAttempt(a)
              /\ Leave(s, "down")
           \/ /\ attemptCount[a[1]] <= MaxRetries
              /\ LockFree(a)
              /\ \/ RunnerStopped(a) /\ RequeueRow(a, FALSE) /\ Leave(s, "top")
                 \/ /\ RunnerStopped(a) /\ attemptStatus[a] = "requeued"
                    /\ Leave(s, "top")
                    /\ UNCHANGED ledgerVars
                 \/ /\ ~RunnerStopped(a) \/ attemptStatus[a] \notin {"retryable", "requeued"}
                    /\ Leave(s, "down")
                    /\ UNCHANGED ledgerVars
        /\ UNCHANGED << launchVars, evidenceVars, call, workerEnabled >>

SupervisorStep(s) ==
    \/ SupervisorReconciles(s)
    \/ SupervisorClaims(s)
    \/ SupervisorRecordsCommand(s)
    \/ SupervisorBeginsLaunch(s)
    \/ SupervisorSpawns(s)
    \/ SupervisorStopsWatching(s)
    \/ SupervisorCollects(s)
    \/ SupervisorSettles(s)
    \/ SupervisorDecides(s)

(* Somebody starts supervise again for a worker.                           *)
SupervisorStarts(s) ==
    /\ supState[s] = "down"
    /\ GoTo(s, "top")
    /\ UNCHANGED << ledgerVars, launchVars, evidenceVars, call, workerEnabled >>

-----------------------------------------------------------------------------
(* _launch_child.  A guardian that raises commits a global halt.           *)

GuardianBinds(a) ==
    /\ guardian[a] = "spawned"
    /\ LockFree(a)
    /\ IF attemptStatus[a] = "active" /\ launchState[a] = "intent"
       THEN BindRunner(a) /\ UNCHANGED ledgerVars
       ELSE GuardianDies(a, "nonzero") /\ Halt
    /\ UNCHANGED << evidenceVars, call, supervisorVars, workerEnabled >>

(* _update_lease_file, the last part of bind_runner_pid.                   *)
GuardianUpdatesLease(a) ==
    /\ guardian[a] = "binding"
    /\ \/ leaseFile[a] = "intact" /\ WriteLease(a, "torn") /\ UNCHANGED launchVars
       \/ leaseFile[a] = "torn" /\ WriteLease(a, "intact") /\ BindReturns(a)
    /\ UNCHANGED << ledgerVars, call, supervisorVars, workerEnabled >>

GuardianStartsRunner(a) ==
    /\ StartRunner(a)
    /\ UNCHANGED << ledgerVars, evidenceVars, call, supervisorVars, workerEnabled >>

GuardianRecordsExit(a) ==
    /\ RecordExit(a)
    /\ UNCHANGED << ledgerVars, evidenceVars, call, supervisorVars, workerEnabled >>

GuardianEnds(a) ==
    /\ GuardianExits(a)
    /\ UNCHANGED << ledgerVars, evidenceVars, call, supervisorVars, workerEnabled >>

(* The command or the runner changed before the launch, or the session     *)
(* cannot be shown empty after it: no runner is started, or no exit is     *)
(* recorded, and the guardian halts dispatch.                              *)
GuardianRaises(a) ==
    /\ "guardian_error" \in Faults
    /\ guardian[a] = "bound" \/ (guardian[a] = "waiting" /\ runner[a] \in ExitCodes)
    /\ GuardianDies(a, "nonzero")
    /\ Halt
    /\ UNCHANGED << evidenceVars, call, supervisorVars, workerEnabled >>

(* The runner writes its result, file first and then sidecar.              *)
RunnerWrites(a) ==
    /\ runner[a] = "live"
    /\ \/ resultFile[a] = "absent" /\ WriteResult(a, "torn")
       \/ resultFile[a] = "torn" /\ \E r \in Results : WriteResult(a, r)
    /\ UNCHANGED << ledgerVars, launchVars, call, supervisorVars, workerEnabled >>

RunnerEnds(a) ==
    /\ \E code \in ExitCodes : RunnerStops(a, code)
    /\ UNCHANGED << ledgerVars, evidenceVars, call, supervisorVars, workerEnabled >>

GuardianStep(a) ==
    \/ GuardianBinds(a)
    \/ GuardianUpdatesLease(a)
    \/ GuardianStartsRunner(a)
    \/ GuardianRecordsExit(a)
    \/ GuardianEnds(a)

-----------------------------------------------------------------------------
(* Operators, each with a process of their own.                            *)

OperatorReconciles(a) ==
    /\ "recover" \in OperatorCalls
    /\ Reconcilable(a)
    /\ OrphanRow(a)
    /\ UNCHANGED << launchVars, evidenceVars, call, supervisorVars, workerEnabled >>

OperatorFinishes(a) ==
    /\ "finish" \in OperatorCalls
    /\ \E supplied \in {"absent"} \cup (IF "supply" \in OperatorCalls THEN Results ELSE {}),
          code \in {"none"} \cup (IF "returncode" \in OperatorCalls THEN ExitCodes ELSE {}) :
             FinishBegins(a, "operator", supplied, code)
    /\ UNCHANGED supervisorVars

OperatorFails(a) ==
    /\ "fail" \in OperatorCalls
    /\ \E kind \in {"reported", "reported_capture"} : FailBegins(a, "operator", kind)
    /\ UNCHANGED supervisorVars

OperatorRecovers(a) ==
    /\ "recover" \in OperatorCalls
    /\ \E action \in {"inspect", "accept", "retry"} : RecoverBegins(a, action)

(* retry_attempt of the library; the command line has no such command.     *)
OperatorRetries(a) ==
    /\ "retry" \in OperatorCalls
    /\ LockFree(a)
    /\ RunnerStopped(a)
    /\ attemptStatus[a] = "orphaned" => Dead(a)
    /\ \E note \in BOOLEAN : RequeueRow(a, note)
    /\ UNCHANGED << launchVars, evidenceVars, call, supervisorVars, workerEnabled >>

(* Mutant: hands the blocked cases out again as well.                      *)
OperatorClearsBlocks ==
    /\ "clear_halt" \in OperatorCalls
    /\ halted
    /\ halted' = FALSE
    /\ caseStatus' = [c \in Cases |->
                        IF caseStatus[c] = "blocked" THEN "pending" ELSE caseStatus[c]]
    /\ UNCHANGED << attemptCount, acceptedAttempt, attemptStatus, attemptWorker, outcome >>
    /\ UNCHANGED << launchVars, evidenceVars, call, supervisorVars, workerEnabled >>

(* clear_halt when every gate it checks again passes; else it does nothing. *)
OperatorClearsHalt ==
    /\ "clear_halt" \in OperatorCalls
    /\ halted
    /\ ClearHaltRow
    /\ UNCHANGED << launchVars, evidenceVars, call, supervisorVars, workerEnabled >>

(* The file that carries the sealed outcome of an attempt.                 *)
SealedSource(a) == manifest[a].body.of

EvidenceIntact(a) ==
    /\ leaseFile[a] = "intact"
    /\ manifest[a].state = "sealed"
    /\ manifest[a].body = Inventory(a, SealedSource(a), launchState[a])

(* audit_coverage on one committed attempt, under its lock.                *)
OperatorAudits(a) ==
    /\ "audit" \in OperatorCalls
    /\ LockFree(a)
    /\ outcome[a] # "none"
    /\ ~EvidenceIntact(a) \/ (attemptStatus[a] = "accepted" /\ ~RunnerStopped(a))
    /\ Halt
    /\ UNCHANGED << launchVars, evidenceVars, call, supervisorVars, workerEnabled >>

OperatorStep ==
    \/ \E a \in AttemptIds :
          \/ OperatorReconciles(a)
          \/ OperatorFinishes(a)
          \/ OperatorFails(a)
          \/ OperatorRecovers(a)
          \/ OperatorRetries(a)
          \/ OperatorAudits(a)
    \/ OperatorClearsHalt

-----------------------------------------------------------------------------
(* Faults.                                                                 *)

(* Ctrl-C, a kill or an exception: the lease stays durable, the flock of a *)
(* call in progress is released by the kernel.                             *)
SupervisorCrashes(s) ==
    /\ "supervisor_crash" \in Faults
    /\ supState[s] # "down"
    /\ call' = [a \in AttemptIds |->
                  IF a = supAttempt[s] /\ call[a].by = "owner" THEN NoCall ELSE call[a]]
    /\ Leave(s, "down")
    /\ UNCHANGED << ledgerVars, launchVars, evidenceVars, workerEnabled >>

CallerCrashes(a) ==
    /\ "caller_crash" \in Faults
    /\ call[a].by = "operator"
    /\ call' = [call EXCEPT ![a] = NoCall]
    /\ UNCHANGED << ledgerVars, launchVars, evidenceVars, supervisorVars, workerEnabled >>

GuardianCrashes(a) ==
    /\ "guardian_crash" \in Faults
    /\ GuardianDies(a, "nonzero")
    /\ UNCHANGED << ledgerVars, evidenceVars, call, supervisorVars, workerEnabled >>

MachineReboots ==
    /\ "reboot" \in Faults
    /\ Reboot
    /\ call' = [a \in AttemptIds |-> NoCall]
    /\ supState' = [s \in Supervisors |-> "down"]
    /\ supAttempt' = [s \in Supervisors |-> NoAttempt]
    /\ timedOut' = [s \in Supervisors |-> FALSE]
    /\ UNCHANGED << ledgerVars, evidenceVars, workerEnabled >>

CampaignFault ==
    \/ \E s \in Supervisors : SupervisorCrashes(s) \/ SupervisorTimesOut(s)
    \/ \E a \in AttemptIds : GuardianCrashes(a) \/ GuardianRaises(a)

(* What interrupts a recovery as well.                                     *)
Interruption ==
    \/ \E a \in AttemptIds : CallerCrashes(a)
    \/ MachineReboots

Uninterrupted ==
    \/ \E s \in Supervisors : SupervisorStep(s) \/ SupervisorStarts(s)
    \/ \E a \in AttemptIds :
          CallStep(a) \/ GuardianStep(a) \/ RunnerWrites(a) \/ RunnerEnds(a)
    \/ OperatorStep
    \/ CampaignFault

Next == Uninterrupted \/ Interruption

Spec == Init /\ [][Next]_vars

-----------------------------------------------------------------------------
(* A launched runner, and the guardian that answers for it, live under an  *)
(* active attempt: no completion, block, retry or reconciliation, whatever *)
(* it raced with, lets the case or the worker go while a child may run.    *)
LiveRunnerIsLeased ==
    \A a \in AttemptIds :
        runner[a] = "live" \/ guardian[a] \in {"binding", "bound", "waiting", "recorded"}
            => attemptStatus[a] = "active"

(* No endpoint ever serves two runners at once.                            *)
OneRunnerPerWorker ==
    \A a, b \in AttemptIds :
        runner[a] = "live" /\ runner[b] = "live" /\ attemptWorker[a] = attemptWorker[b]
            => a = b

(* An attempt is declared an orphan only when nothing of it is left: no    *)
(* owner, no guardian, no runner, and none can appear any more.            *)
OrphanIsDead ==
    \A a \in AttemptIds : attemptStatus[a] = "orphaned" =>
        /\ ~OwnerAlive(a)
        /\ ~GuardianAlive(a)
        /\ runner[a] # "live"
        /\ launchState[a] \in {"unstarted", "exited"}

(* An acceptance rests on a whole result, sealed by a whole manifest, and  *)
(* on a runner that exited with code zero or was never launched.           *)
AcceptedIsProven ==
    \A a \in AttemptIds : attemptStatus[a] = "accepted" =>
        /\ resultFile[a] = "completed"
        /\ manifest[a].state = "sealed"
        /\ manifest[a].body.of = "result" /\ manifest[a].body.result = "completed"
        /\ launchState[a] = "unstarted" \/ Receipt(a) = "zero"

(* The evidence of a committed outcome is still what its manifest says, so *)
(* that an audit or a replay of the same completion finds no difference.   *)
SealedEvidenceIntact ==
    \A a \in AttemptIds : outcome[a] # "none" => EvidenceIntact(a)

(* A sealed manifest is never written again, not by a replay, a recovery   *)
(* after a crash between the seal and the commit, or a later completion.   *)
SealIsFinal ==
    [][\A a \in AttemptIds : manifest[a].state = "sealed" => manifest'[a] = manifest[a]]_vars

(* A case whose attempt left a durable completed result is not run again.  *)
CompletedNeverRerun ==
    \A a \in AttemptIds : attemptStatus[a] = "requeued" => resultFile[a] # "completed"

(* An attempt whose child execution is unproven is not taken out of the    *)
(* held states: what is blocked for review is known to have stopped.       *)
BlockedIsProven ==
    \A a \in AttemptIds : attemptStatus[a] = "blocked" => RunnerStopped(a)

(* A supervisor that gives up because the retry budget is spent leaves the *)
(* case blocked.                                                           *)
SpentBudgetBlocksCase ==
    [][\A s \in Supervisors :
          supState[s] = "decide" /\ attemptCount[supAttempt[s][1]] > MaxRetries
                /\ supState'[s] = "down"
            => caseStatus'[supAttempt[s][1]] = "blocked"]_vars

(* However these calls are interleaved and interrupted, what they do to    *)
(* the rows is a sequence of the transactions of CaseLedger and what they  *)
(* do to processes is the launch protocol: a replayed, resumed or repeated *)
(* call never writes a row in a state those transactions do not allow.     *)
QueueImplementsLedger == LedgerSpec /\ LaunchSpec

-----------------------------------------------------------------------------
(* Every process keeps taking its steps, and a runner ends sooner or later *)
(* (it has a per-case deadline of its own).  Operators owe nothing.        *)
Fairness ==
    /\ \A s \in Supervisors : WF_vars(SupervisorStep(s))
    /\ \A a \in AttemptIds :
          WF_vars(CallStep(a)) /\ WF_vars(GuardianStep(a)) /\ WF_vars(RunnerEnds(a))

FairSpec == Spec /\ Fairness

(* Without faults the supervisors finish the plan, or stop it for review:  *)
(* in the end every case is accepted or dispatch is halted.                *)
EventuallySettled ==
    <>(halted \/ \A c \in Cases : caseStatus[c] = "accepted")
=============================================================================
