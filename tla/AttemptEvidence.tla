--------------------------- MODULE AttemptEvidence ---------------------------
(***************************************************************************)
(* The evidence directory of an attempt (artifact_dir of                   *)
(* scripts/assignment/shared_case_queue.py): which of its files exist,     *)
(* with what kind of content, and the manifest that seals them.  A JSON    *)
(* file and its .sha256 sidecar are two atomic writes; a file is "torn"    *)
(* between them, and stays so when the writer crashes there.               *)
(***************************************************************************)
EXTENDS LaunchGuardian

VARIABLES
    resultFile,   \* case_result.json
    failureFile,  \* queue_failure.json
    ownerRecord,  \* supervisor_command.json, then process_exit.json
    leaseFile,    \* lease.json, which carries the lease token
    manifest      \* artifact_manifest.json

evidenceVars == << resultFile, failureFile, ownerRecord, leaseFile, manifest >>

(* Terminal results by the way _prepare_result classifies them.            *)
ResultKinds == {"completed", "failed", "capture"}
ResultContents == {"absent", "torn"} \cup ResultKinds

(* Failure receipts by writer and reason: two receipts of different kinds  *)
(* differ in their bytes.                                                  *)
FailureKinds == {"no_result", "timeout", "reported", "reported_capture", "crash"}
FailureContents == {"absent", "torn"} \cup FailureKinds

OwnerRecords == {"none", "command", "exit"}
Sources == {"result", "failure"}
Classes == {"accepted", "retryable", "capture"}

(* What a manifest binds: the inventory of the directory, the file that    *)
(* holds the outcome, and the launch state of the attempt row.             *)
Inventories == [result : ResultContents, failure : FailureContents,
                owner : OwnerRecords, of : Sources,
                launch : LaunchStates]

Blank == [result |-> "absent", failure |-> "absent", owner |-> "none",
          of |-> "result", launch |-> "unstarted"]

EvidenceTypeOK ==
    /\ resultFile \in [Attempts -> ResultContents]
    /\ failureFile \in [Attempts -> FailureContents]
    /\ ownerRecord \in [Attempts -> OwnerRecords]
    /\ leaseFile \in [Attempts -> {"intact", "torn"}]
    /\ manifest \in [Attempts -> [state : {"absent", "torn", "sealed"}, body : Inventories]]

EvidenceInit ==
    /\ resultFile = [a \in Attempts |-> "absent"]
    /\ failureFile = [a \in Attempts |-> "absent"]
    /\ ownerRecord = [a \in Attempts |-> "none"]
    /\ leaseFile = [a \in Attempts |-> "intact"]
    /\ manifest = [a \in Attempts |-> [state |-> "absent", body |-> Blank]]

-----------------------------------------------------------------------------
(* The value _write_artifact_manifest computes.                            *)
Inventory(a, source, launch) ==
    [result |-> resultFile[a], failure |-> failureFile[a],
     owner |-> ownerRecord[a], of |-> source, launch |-> launch]

Verifiable(content) == content \notin {"absent", "torn"}

ResultClass(content) ==
    CASE content = "completed" -> "accepted"
      [] content = "failed" -> "retryable"
      [] OTHER -> "capture"

FailureClass(kind) ==
    IF kind \in {"no_result", "reported_capture"} THEN "capture" ELSE "retryable"

WriteResult(a, content) ==
    /\ resultFile' = [resultFile EXCEPT ![a] = content]
    /\ UNCHANGED << failureFile, ownerRecord, leaseFile, manifest >>

WriteFailure(a, content) ==
    /\ failureFile' = [failureFile EXCEPT ![a] = content]
    /\ UNCHANGED << resultFile, ownerRecord, leaseFile, manifest >>

WriteOwnerRecord(a, record) ==
    /\ ownerRecord' = [ownerRecord EXCEPT ![a] = record]
    /\ UNCHANGED << resultFile, failureFile, leaseFile, manifest >>

WriteLease(a, content) ==
    /\ leaseFile' = [leaseFile EXCEPT ![a] = content]
    /\ UNCHANGED << resultFile, failureFile, ownerRecord, manifest >>

WriteManifest(a, body) ==
    /\ manifest' = [manifest EXCEPT ![a] = [state |-> "torn", body |-> body]]
    /\ UNCHANGED << resultFile, failureFile, ownerRecord, leaseFile >>

SealManifest(a) ==
    /\ manifest' = [manifest EXCEPT ![a].state = "sealed"]
    /\ UNCHANGED << resultFile, failureFile, ownerRecord, leaseFile >>
=============================================================================
