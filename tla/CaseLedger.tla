----------------------------- MODULE CaseLedger -----------------------------
(***************************************************************************)
(* The rows of queue.sqlite3 and the transactions that change them         *)
(* (scripts/assignment/shared_case_queue.py).  Every mutation of the code  *)
(* runs under BEGIN IMMEDIATE, so a transaction is one action here.  What  *)
(* the code reads from /proc or from the evidence files before it opens a  *)
(* transaction is left open in this module; module SharedCaseQueue adds it *)
(* and is checked to implement LedgerSpec.                                 *)
(*                                                                         *)
(* A worker row has a UNIQUE endpoint_id and can never be rebound, so      *)
(* holding a worker and holding its endpoint are the same thing.           *)
(***************************************************************************)
EXTENDS Integers, FiniteSets

CONSTANTS
    NumCases,     \* number of imported cases; a case is named by its ordinal
    Workers,      \* registered worker slots
    NoWorker,     \* the worker of an attempt row that does not exist yet
    MaxAttempts   \* bound of the model: attempt rows per case

ASSUME LedgerAssumption ==
    /\ NumCases \in Nat \ {0}
    /\ MaxAttempts \in Nat \ {0}
    /\ NoWorker \notin Workers

VARIABLES
    caseStatus,       \* cases.status
    attemptCount,     \* cases.attempt_count
    acceptedAttempt,  \* cases.accepted_attempt_id
    attemptStatus,    \* attempts.status, "absent" before the INSERT
    attemptWorker,    \* attempts.worker_id
    outcome,          \* attempts.result_sha256 with the classification it seals
    halted            \* meta.dispatch_halted

ledgerVars == << caseStatus, attemptCount, acceptedAttempt,
                 attemptStatus, attemptWorker, outcome, halted >>

Cases == 1 .. NumCases
AttemptIds == Cases \X (1 .. MaxAttempts)
NoAttempt == << 0, 0 >>

CaseStatuses == {"pending", "running", "retry_waiting", "orphaned",
                 "accepted", "blocked"}
AttemptStatuses == {"absent", "active", "orphaned", "accepted",
                    "retryable", "requeued", "blocked"}

(* "none" while result_sha256 is NULL.  "completed_capture" is a result    *)
(* with status "completed" that was classified as a capture failure        *)
(* because the runner exited with a nonzero code.                          *)
Outcomes == {"none", "accepted", "retryable", "capture", "completed_capture"}

LedgerTypeOK ==
    /\ caseStatus \in [Cases -> CaseStatuses]
    /\ attemptCount \in [Cases -> 0 .. MaxAttempts]
    /\ acceptedAttempt \in [Cases -> AttemptIds \cup {NoAttempt}]
    /\ attemptStatus \in [AttemptIds -> AttemptStatuses]
    /\ attemptWorker \in [AttemptIds -> Workers \cup {NoWorker}]
    /\ outcome \in [AttemptIds -> Outcomes]
    /\ halted \in BOOLEAN

LedgerInit ==
    /\ caseStatus = [c \in Cases |-> "pending"]
    /\ attemptCount = [c \in Cases |-> 0]
    /\ acceptedAttempt = [c \in Cases |-> NoAttempt]
    /\ attemptStatus = [a \in AttemptIds |-> "absent"]
    /\ attemptWorker = [a \in AttemptIds |-> NoWorker]
    /\ outcome = [a \in AttemptIds |-> "none"]
    /\ halted \in BOOLEAN

-----------------------------------------------------------------------------
Held(a) == attemptStatus[a] \in {"active", "orphaned"}

(* Mutant: looks for the active attempt only, as the unique indexes do.    *)
WorkerActive(w) == \E a \in AttemptIds : attemptStatus[a] = "active" /\ attemptWorker[a] = w

WorkerHeld(w) == \E a \in AttemptIds : Held(a) /\ attemptWorker[a] = w

(* Mutant: also picks up a case that waits for a retry decision.           *)
NextUndecided(c) == caseStatus[c] \in {"pending", "retry_waiting"}

(* The pending case with the smallest ordinal.                             *)
NextPending(c) ==
    /\ caseStatus[c] = "pending"
    /\ \A d \in Cases : d < c => caseStatus[d] # "pending"

NewAttempt(c) == << c, attemptCount[c] + 1 >>

(* The successful end of claim_case: one INSERT and one UPDATE.            *)
ClaimRow(w, c) ==
    /\ ~halted
    /\ ~WorkerHeld(w)
    /\ NextPending(c)
    /\ attemptCount[c] < MaxAttempts
    /\ attemptStatus' = [attemptStatus EXCEPT ![NewAttempt(c)] = "active"]
    /\ attemptWorker' = [attemptWorker EXCEPT ![NewAttempt(c)] = w]
    /\ attemptCount' = [attemptCount EXCEPT ![c] = @ + 1]
    /\ caseStatus' = [caseStatus EXCEPT ![c] = "running"]
    /\ UNCHANGED << acceptedAttempt, outcome, halted >>

(* Mutant: marks the attempt and forgets the case.                         *)
OrphanAttemptOnly(a) ==
    /\ attemptStatus[a] = "active"
    /\ attemptStatus' = [attemptStatus EXCEPT ![a] = "orphaned"]
    /\ UNCHANGED << caseStatus, attemptCount, acceptedAttempt, attemptWorker, outcome, halted >>

(* reconcile: an active attempt whose owner and runner are proved dead.    *)
OrphanRow(a) ==
    /\ attemptStatus[a] = "active"
    /\ attemptStatus' = [attemptStatus EXCEPT ![a] = "orphaned"]
    /\ caseStatus' = [caseStatus EXCEPT
                        ![a[1]] = IF @ = "running" THEN "orphaned" ELSE @]
    /\ UNCHANGED << attemptCount, acceptedAttempt, attemptWorker, outcome, halted >>

(* Mutant: does not look for an outcome that is already sealed.            *)
CommittableAgain(a) ==
    attemptStatus[a] \in {"active", "orphaned", "retryable", "blocked"}

(* The states from which _commit_prepared writes a first completion.       *)
Committable(a) ==
    /\ attemptStatus[a] \in {"active", "orphaned", "retryable", "blocked"}
    /\ outcome[a] = "none"

(* Mutant: accepts the attempt without naming it in the case row.          *)
AcceptWithoutPointer(a) ==
    /\ Committable(a)
    /\ caseStatus[a[1]] # "accepted"
    /\ attemptStatus' = [attemptStatus EXCEPT ![a] = "accepted"]
    /\ outcome' = [outcome EXCEPT ![a] = "accepted"]
    /\ caseStatus' = [caseStatus EXCEPT ![a[1]] = "accepted"]
    /\ UNCHANGED << attemptCount, acceptedAttempt, attemptWorker, halted >>

CommitAccepted(a) ==
    /\ Committable(a)
    /\ acceptedAttempt[a[1]] = NoAttempt
    /\ caseStatus[a[1]] # "accepted"
    /\ attemptStatus' = [attemptStatus EXCEPT ![a] = "accepted"]
    /\ outcome' = [outcome EXCEPT ![a] = "accepted"]
    /\ caseStatus' = [caseStatus EXCEPT ![a[1]] = "accepted"]
    /\ acceptedAttempt' = [acceptedAttempt EXCEPT ![a[1]] = a]
    /\ UNCHANGED << attemptCount, attemptWorker, halted >>

CommitCapture(a, o) ==
    /\ Committable(a)
    /\ o \in {"capture", "completed_capture"}
    /\ attemptStatus' = [attemptStatus EXCEPT ![a] = "blocked"]
    /\ outcome' = [outcome EXCEPT ![a] = o]
    /\ caseStatus' = [caseStatus EXCEPT ![a[1]] = "blocked"]
    /\ halted' = TRUE
    /\ UNCHANGED << attemptCount, acceptedAttempt, attemptWorker >>

(* Mutant: writes the status of the case into the attempt row.             *)
CommitCaseStatus(a) ==
    /\ Committable(a)
    /\ attemptStatus' = [attemptStatus EXCEPT ![a] = "retry_waiting"]
    /\ outcome' = [outcome EXCEPT ![a] = "retryable"]
    /\ caseStatus' = [caseStatus EXCEPT ![a[1]] = "retry_waiting"]
    /\ UNCHANGED << attemptCount, acceptedAttempt, attemptWorker, halted >>

CommitRetryable(a) ==
    /\ Committable(a)
    /\ attemptStatus' = [attemptStatus EXCEPT ![a] = "retryable"]
    /\ outcome' = [outcome EXCEPT ![a] = "retryable"]
    /\ caseStatus' = [caseStatus EXCEPT ![a[1]] = "retry_waiting"]
    /\ UNCHANGED << attemptCount, acceptedAttempt, attemptWorker, halted >>

BlockRow(a) ==
    /\ attemptStatus' = [attemptStatus EXCEPT ![a] = "blocked"]
    /\ caseStatus' = [caseStatus EXCEPT ![a[1]] = "blocked"]
    /\ halted' = TRUE
    /\ UNCHANGED << attemptCount, acceptedAttempt, attemptWorker, outcome >>

(* _block_attempt: a sealed or finished attempt keeps its rows.            *)
Halt ==
    /\ halted' = TRUE
    /\ UNCHANGED << caseStatus, attemptCount, acceptedAttempt,
                    attemptStatus, attemptWorker, outcome >>

(* Mutant: blocks an attempt whatever was committed for it.                *)
BlockAnyAttempt(a) ==
    attemptStatus[a] # "absent" /\ BlockRow(a)

BlockAttempt(a) ==
    /\ attemptStatus[a] # "absent"
    /\ IF outcome[a] # "none" \/ attemptStatus[a] \in {"accepted", "requeued"}
       THEN Halt
       ELSE BlockRow(a)

(* _block_attempt_with_token_hash                                          *)
BlockOrphanRow(a) ==
    /\ attemptStatus[a] \in {"orphaned", "active"}
    /\ BlockRow(a)

(* Mutant: forgets that a completed run with a nonzero exit is final.      *)
RequeueableAfterReview(a, note) ==
    /\ attemptStatus[a] \in {"retryable", "orphaned", "blocked"}
    /\ attemptStatus[a] = "blocked" => note
    /\ caseStatus[a[1]] # "accepted"

(* _retry_attempt; note says whether a review note is supplied.            *)
Requeueable(a, note) ==
    /\ outcome[a] \notin {"accepted", "completed_capture"}
    /\ attemptStatus[a] \in {"retryable", "orphaned", "blocked"}
    /\ attemptStatus[a] = "blocked" => note
    /\ caseStatus[a[1]] # "accepted"

(* Mutant: requeues the attempt and leaves the case waiting.               *)
RequeueAttemptOnly(a, note) ==
    /\ Requeueable(a, note)
    /\ attemptStatus' = [attemptStatus EXCEPT ![a] = "requeued"]
    /\ UNCHANGED << caseStatus, attemptCount, acceptedAttempt, attemptWorker, outcome, halted >>

RequeueRow(a, note) ==
    /\ Requeueable(a, note)
    /\ attemptStatus' = [attemptStatus EXCEPT ![a] = "requeued"]
    /\ caseStatus' = [caseStatus EXCEPT ![a[1]] = "pending"]
    /\ UNCHANGED << attemptCount, acceptedAttempt, attemptWorker, outcome, halted >>

(* clear_halt once its gates pass.                                         *)
ClearHaltRow ==
    /\ halted' = FALSE
    /\ UNCHANGED << caseStatus, attemptCount, acceptedAttempt,
                    attemptStatus, attemptWorker, outcome >>

LedgerNext ==
    \/ \E w \in Workers, c \in Cases : ClaimRow(w, c)
    \/ \E a \in AttemptIds :
          \/ OrphanRow(a)
          \/ CommitAccepted(a)
          \/ \E o \in Outcomes : CommitCapture(a, o)
          \/ CommitRetryable(a)
          \/ BlockAttempt(a)
          \/ BlockOrphanRow(a)
          \/ \E note \in BOOLEAN : RequeueRow(a, note)
    \/ Halt
    \/ ClearHaltRow

LedgerSpec == LedgerInit /\ [][LedgerNext]_ledgerVars

-----------------------------------------------------------------------------
(* The case status that goes with the status of the case's last attempt.   *)
CaseStatusFor(s) ==
    CASE s = "active"    -> "running"
      [] s = "orphaned"  -> "orphaned"
      [] s = "accepted"  -> "accepted"
      [] s = "retryable" -> "retry_waiting"
      [] s = "blocked"   -> "blocked"
      [] OTHER           -> "pending"

(* Only the last attempt of a case can be anything but requeued, so no     *)
(* case ever has two attempts in hand.                                     *)
AttemptChain ==
    \A c \in Cases : \A n \in 1 .. MaxAttempts :
        /\ (attemptStatus[<< c, n >>] = "absent") <=> (n > attemptCount[c])
        /\ n < attemptCount[c] => attemptStatus[<< c, n >>] = "requeued"

(* The case row and the attempt rows, which different transactions update  *)
(* with separate statements, never disagree about the state of the case.   *)
CaseFollowsLastAttempt ==
    \A c \in Cases :
        caseStatus[c] = IF attemptCount[c] = 0
                        THEN "pending"
                        ELSE CaseStatusFor(attemptStatus[<< c, attemptCount[c] >>])

(* A case points at an accepted attempt exactly when that attempt is its   *)
(* own and was accepted; no second attempt of the case can be.             *)
AcceptedPointer ==
    \A c \in Cases :
        \/ /\ acceptedAttempt[c] = NoAttempt
           /\ \A n \in 1 .. MaxAttempts : attemptStatus[<< c, n >>] # "accepted"
        \/ /\ acceptedAttempt[c] = << c, attemptCount[c] >>
           /\ attemptStatus[acceptedAttempt[c]] = "accepted"

(* A worker, and with it its endpoint, is held by at most one attempt,     *)
(* orphans included: the partial unique indexes cover only active rows.    *)
WorkerExclusive ==
    \A a, b \in AttemptIds :
        Held(a) /\ Held(b) /\ attemptWorker[a] = attemptWorker[b] => a = b

(* Held rows are unsealed, an acceptance is sealed as one, and an attempt  *)
(* whose sealed outcome is a completed run is never given up for a rerun.  *)
OutcomeAgreement ==
    \A a \in AttemptIds :
        /\ attemptStatus[a] \in {"absent", "active", "orphaned"} => outcome[a] = "none"
        /\ attemptStatus[a] = "accepted" <=> outcome[a] = "accepted"
        /\ attemptStatus[a] = "retryable" => outcome[a] = "retryable"
        /\ outcome[a] = "completed_capture" => attemptStatus[a] = "blocked"

(* Everything the ledger promises at all times.                            *)
LedgerInv ==
    /\ LedgerTypeOK
    /\ AttemptChain
    /\ CaseFollowsLastAttempt
    /\ AcceptedPointer
    /\ WorkerExclusive
    /\ OutcomeAgreement

(* What was committed stays committed: an accepted case keeps its status   *)
(* and its attempt, and the sealed outcome of an attempt never changes.    *)
CommittedIsFinal ==
    [][/\ \A c \in Cases : acceptedAttempt[c] # NoAttempt =>
              /\ acceptedAttempt'[c] = acceptedAttempt[c]
              /\ caseStatus'[c] = "accepted"
       /\ \A a \in AttemptIds : outcome[a] # "none" => outcome'[a] = outcome[a]
      ]_ledgerVars

-----------------------------------------------------------------------------
(* The ledger keeps the promise of CaseDispatch: orphaning a case does not *)
(* take it from its worker, and the held states are those of its last      *)
(* attempt.  What is not visible there (halts, replays, a second look at a *)
(* parked case) is a stuttering step.                                      *)
LastAttempt(c) == << c, attemptCount[c] >>

CasePhase(c) ==
    CASE caseStatus[c] = "pending" -> "waiting"
      [] caseStatus[c] \in {"running", "orphaned"} -> "held"
      [] caseStatus[c] = "accepted" -> "done"
      [] OTHER -> "parked"

CaseHolder(c) ==
    IF CasePhase(c) = "held" THEN attemptWorker[LastAttempt(c)] ELSE NoWorker

Dispatch == INSTANCE CaseDispatch WITH
    MaxTries <- MaxAttempts,
    phase <- [c \in Cases |-> CasePhase(c)],
    holder <- [c \in Cases |-> CaseHolder(c)],
    tries <- attemptCount,
    winner <- [c \in Cases |-> acceptedAttempt[c][2]]

(* The detailed transactions implement the abstract dispatch of cases: one *)
(* holder per case, one case per worker, one completion of record.         *)
ImplementsDispatch == Dispatch!DispatchSpec
=============================================================================
