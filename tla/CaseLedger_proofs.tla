-------------------------- MODULE CaseLedger_proofs --------------------------
(***************************************************************************)
(* Proofs about CaseLedger for any number of cases, workers and attempts:  *)
(* LedgerInv is inductive, commitments are final, and the ledger           *)
(* implements CaseDispatch.                                                *)
(***************************************************************************)
EXTENDS CaseLedger, TLAPS

(* An attempt is the pair of its case and its number.                      *)
LEMMA AttemptPairs ==
    ASSUME NEW a \in AttemptIds
    PROVE  /\ a[1] \in Cases
           /\ a[2] \in 1 .. MaxAttempts
           /\ a = << a[1], a[2] >>
BY DEF AttemptIds

(* An attempt that exists and was not requeued is the last of its case.    *)
LEMMA OnlyLastIsOpen ==
    ASSUME LedgerTypeOK, AttemptChain,
           NEW a \in AttemptIds,
           attemptStatus[a] \notin {"absent", "requeued"}
    PROVE  /\ attemptCount[a[1]] = a[2]
           /\ a = << a[1], attemptCount[a[1]] >>
<1>1. /\ a[1] \in Cases
      /\ a[2] \in 1 .. MaxAttempts
      /\ a = << a[1], a[2] >>
  BY AttemptPairs
<1>2. attemptCount[a[1]] \in 0 .. MaxAttempts
  BY <1>1 DEF LedgerTypeOK
<1>3. attemptStatus[<< a[1], a[2] >>] \notin {"absent", "requeued"}
  BY <1>1, Zenon
<1>4. ~(a[2] > attemptCount[a[1]]) /\ ~(a[2] < attemptCount[a[1]])
  BY <1>1, <1>3 DEF AttemptChain
<1>5. a[2] = attemptCount[a[1]]
  BY <1>1, <1>2, <1>4, LedgerAssumption
<1>. QED  BY <1>1, <1>5

(* The case status goes with the status of an open attempt of the case.    *)
LEMMA CaseOfOpenAttempt ==
    ASSUME LedgerTypeOK, AttemptChain, CaseFollowsLastAttempt,
           NEW a \in AttemptIds,
           attemptStatus[a] \notin {"absent", "requeued"}
    PROVE  caseStatus[a[1]] = CaseStatusFor(attemptStatus[a])
<1>1. /\ a[1] \in Cases
      /\ a[2] \in 1 .. MaxAttempts
  BY AttemptPairs
<1>2. /\ attemptCount[a[1]] = a[2]
      /\ a = << a[1], attemptCount[a[1]] >>
  BY OnlyLastIsOpen
<1>3. attemptCount[a[1]] # 0
  BY <1>1, <1>2
<1>. QED  BY <1>1, <1>2, <1>3, Zenon DEF CaseFollowsLastAttempt

(* Changing an open attempt and its case together keeps the chain of       *)
(* attempts and the agreement between the two rows.                        *)
LEMMA RowStep ==
    ASSUME LedgerTypeOK, AttemptChain, CaseFollowsLastAttempt,
           NEW a \in AttemptIds,
           attemptStatus[a] \notin {"absent", "requeued"},
           NEW s \in AttemptStatuses \ {"absent"},
           attemptStatus' = [attemptStatus EXCEPT ![a] = s],
           caseStatus' = [caseStatus EXCEPT ![a[1]] = CaseStatusFor(s)],
           attemptCount' = attemptCount
    PROVE  AttemptChain' /\ CaseFollowsLastAttempt'
<1>1. /\ a[1] \in Cases
      /\ a[2] \in 1 .. MaxAttempts
      /\ a = << a[1], a[2] >>
  BY AttemptPairs
<1>2. attemptCount[a[1]] = a[2]
  BY OnlyLastIsOpen
<1>3. \A c \in Cases : attemptCount[c] \in 0 .. MaxAttempts
  BY DEF LedgerTypeOK
<1>4. \A b \in AttemptIds : attemptStatus'[b] = IF b = a THEN s ELSE attemptStatus[b]
  BY DEF LedgerTypeOK
<1>5. \A c \in Cases : caseStatus'[c] = IF c = a[1] THEN CaseStatusFor(s) ELSE caseStatus[c]
  BY <1>1 DEF LedgerTypeOK
<1>6. AttemptChain'
  <2>. SUFFICES ASSUME NEW c \in Cases, NEW n \in 1 .. MaxAttempts
                PROVE  /\ (attemptStatus'[<< c, n >>] = "absent") <=> (n > attemptCount[c])
                       /\ n < attemptCount[c] => attemptStatus'[<< c, n >>] = "requeued"
    BY DEF AttemptChain
  <2>1. << c, n >> \in AttemptIds
    BY DEF AttemptIds
  <2>2. /\ (attemptStatus[<< c, n >>] = "absent") <=> (n > attemptCount[c])
        /\ n < attemptCount[c] => attemptStatus[<< c, n >>] = "requeued"
    BY DEF AttemptChain
  <2>3. CASE << c, n >> = a
    BY <1>1, <1>2, <1>4, <2>1, <2>3
  <2>4. CASE << c, n >> # a
    BY <1>4, <2>1, <2>2, <2>4
  <2>. QED  BY <2>3, <2>4
<1>7. CaseFollowsLastAttempt'
  <2>. SUFFICES ASSUME NEW c \in Cases
                PROVE  caseStatus'[c] = IF attemptCount[c] = 0
                                        THEN "pending"
                                        ELSE CaseStatusFor(attemptStatus'[<< c, attemptCount[c] >>])
    BY DEF CaseFollowsLastAttempt, CaseStatusFor
  <2>1. CASE c = a[1]
    BY <1>1, <1>2, <1>4, <1>5, <2>1
  <2>2. CASE c # a[1]
    <3>1. CASE attemptCount[c] = 0
      BY <1>5, <2>2, <3>1 DEF CaseFollowsLastAttempt
    <3>2. CASE attemptCount[c] # 0
      <4>1. << c, attemptCount[c] >> \in AttemptIds
        BY <1>3, <3>2, LedgerAssumption DEF AttemptIds
      <4>2. << c, attemptCount[c] >> # a
        BY <2>2
      <4>3. attemptStatus'[<< c, attemptCount[c] >>] = attemptStatus[<< c, attemptCount[c] >>]
        BY <1>4, <4>1, <4>2
      <4>. QED  BY <1>5, <2>2, <3>2, <4>3, Zenon DEF CaseFollowsLastAttempt
    <3>. QED  BY <3>1, <3>2
  <2>. QED  BY <2>1, <2>2
<1>. QED  BY <1>6, <1>7

(* Workers stay exclusive as long as no attempt becomes held.              *)
LEMMA HeldShrinks ==
    ASSUME WorkerExclusive,
           attemptWorker' = attemptWorker,
           \A b \in AttemptIds : Held(b)' => Held(b)
    PROVE  WorkerExclusive'
BY DEF WorkerExclusive

LEMMA CaseStatusValues ==
    /\ CaseStatusFor("active") = "running"
    /\ CaseStatusFor("orphaned") = "orphaned"
    /\ CaseStatusFor("accepted") = "accepted"
    /\ CaseStatusFor("retryable") = "retry_waiting"
    /\ CaseStatusFor("blocked") = "blocked"
    /\ CaseStatusFor("requeued") = "pending"
BY Zenon DEF CaseStatusFor

(* What the pieces of the invariant say together of an open attempt.       *)
LEMMA OpenAttempt ==
    ASSUME LedgerInv, NEW a \in AttemptIds,
           attemptStatus[a] \notin {"absent", "requeued"}
    PROVE  /\ a[1] \in Cases
           /\ a = << a[1], attemptCount[a[1]] >>
           /\ attemptStatus[a] = "accepted" <=> acceptedAttempt[a[1]] # NoAttempt
           /\ attemptStatus[a] = "accepted" <=> caseStatus[a[1]] = "accepted"
           /\ attemptStatus[a] = "active" => caseStatus[a[1]] = "running"
           /\ caseStatus[a[1]] # "pending"
<1>1. /\ a[1] \in Cases
      /\ a[2] \in 1 .. MaxAttempts
      /\ a = << a[1], a[2] >>
  BY AttemptPairs
<1>2. /\ attemptCount[a[1]] = a[2]
      /\ a = << a[1], attemptCount[a[1]] >>
  BY OnlyLastIsOpen DEF LedgerInv
<1>3. caseStatus[a[1]] = CaseStatusFor(attemptStatus[a])
  BY CaseOfOpenAttempt DEF LedgerInv
<1>4. attemptStatus[a] \in {"active", "orphaned", "accepted", "retryable", "blocked"}
  BY DEF LedgerInv, LedgerTypeOK, AttemptStatuses
<1>5. /\ attemptStatus[a] = "accepted" <=> caseStatus[a[1]] = "accepted"
      /\ attemptStatus[a] = "active" => caseStatus[a[1]] = "running"
      /\ caseStatus[a[1]] # "pending"
  BY <1>3, <1>4, CaseStatusValues
<1>6. attemptStatus[a] = "accepted" <=> acceptedAttempt[a[1]] # NoAttempt
  <2>1. CASE acceptedAttempt[a[1]] = NoAttempt
    <3>1. << a[1], attemptCount[a[1]] >> # NoAttempt
      BY <1>1, <1>2, LedgerAssumption DEF NoAttempt
    <3>2. \A n \in 1 .. MaxAttempts : attemptStatus[<< a[1], n >>] # "accepted"
      BY <1>1, <2>1, <3>1 DEF LedgerInv, AcceptedPointer
    <3>. QED  BY <1>1, <2>1, <3>2
  <2>2. CASE acceptedAttempt[a[1]] # NoAttempt
    BY <1>1, <1>2, <2>2 DEF LedgerInv, AcceptedPointer
  <2>. QED  BY <2>1, <2>2
<1>. QED  BY <1>1, <1>2, <1>5, <1>6

-----------------------------------------------------------------------------
(* One step of the ledger that touches an open attempt without accepting   *)
(* it leaves the pointer to the accepted attempt right.                    *)
LEMMA PointerStep ==
    ASSUME LedgerInv,
           NEW a \in AttemptIds,
           attemptStatus[a] \notin {"absent", "requeued", "accepted"},
           NEW s \in AttemptStatuses \ {"absent", "accepted"},
           attemptStatus' = [attemptStatus EXCEPT ![a] = s],
           UNCHANGED << attemptCount, acceptedAttempt >>
    PROVE  AcceptedPointer'
<1>. SUFFICES ASSUME NEW c \in Cases
              PROVE  \/ /\ acceptedAttempt[c] = NoAttempt
                        /\ \A n \in 1 .. MaxAttempts : attemptStatus'[<< c, n >>] # "accepted"
                     \/ /\ acceptedAttempt[c] = << c, attemptCount[c] >>
                        /\ attemptStatus'[acceptedAttempt[c]] = "accepted"
  BY DEF AcceptedPointer
<1>1. \A b \in AttemptIds : attemptStatus'[b] = IF b = a THEN s ELSE attemptStatus[b]
  BY DEF LedgerInv, LedgerTypeOK
<1>2. \A n \in 1 .. MaxAttempts : << c, n >> \in AttemptIds
  BY DEF AttemptIds
<1>3. acceptedAttempt[c] \in AttemptIds \cup {NoAttempt}
  BY DEF LedgerInv, LedgerTypeOK
<1>4. CASE acceptedAttempt[c] = NoAttempt
  <2>1. c # 0
    BY LedgerAssumption DEF Cases
  <2>2. << c, attemptCount[c] >> # NoAttempt
    BY <2>1 DEF NoAttempt
  <2>3. \A n \in 1 .. MaxAttempts : attemptStatus[<< c, n >>] # "accepted"
    BY <1>4, <2>2 DEF LedgerInv, AcceptedPointer
  <2>. QED  BY <1>1, <1>2, <1>4, <2>3
<1>5. CASE acceptedAttempt[c] # NoAttempt
  <2>1. /\ acceptedAttempt[c] = << c, attemptCount[c] >>
        /\ attemptStatus[acceptedAttempt[c]] = "accepted"
    BY <1>5 DEF LedgerInv, AcceptedPointer
  <2>2. acceptedAttempt[c] # a
    BY <2>1
  <2>. QED  BY <1>1, <1>3, <1>5, <2>1, <2>2
<1>. QED  BY <1>4, <1>5

(* Every transaction on an open attempt that neither creates nor accepts   *)
(* one has this form.                                                      *)
LEMMA OpenStep ==
    ASSUME LedgerInv,
           NEW a \in AttemptIds,
           attemptStatus[a] \notin {"absent", "requeued", "accepted"},
           NEW s \in AttemptStatuses \ {"absent", "active", "accepted"},
           NEW o \in Outcomes \ {"accepted"},
           s = "orphaned" => attemptStatus[a] = "active" /\ o = "none",
           s = "retryable" => o = "retryable",
           o = "completed_capture" => s = "blocked",
           attemptStatus' = [attemptStatus EXCEPT ![a] = s],
           caseStatus' = [caseStatus EXCEPT ![a[1]] = CaseStatusFor(s)],
           outcome' = [outcome EXCEPT ![a] = o],
           halted' \in BOOLEAN,
           UNCHANGED << attemptCount, acceptedAttempt, attemptWorker >>
    PROVE  LedgerInv'
<1>1. LedgerTypeOK'
  <2>1. CaseStatusFor(s) \in CaseStatuses
    BY CaseStatusValues DEF AttemptStatuses, CaseStatuses
  <2>. QED  BY <2>1, AttemptPairs DEF LedgerInv, LedgerTypeOK
<1>2. AttemptChain' /\ CaseFollowsLastAttempt'
  BY RowStep DEF LedgerInv
<1>3. AcceptedPointer'
  BY PointerStep
<1>4. WorkerExclusive'
  <2>1. \A b \in AttemptIds : Held(b)' => Held(b)
    BY DEF Held, LedgerInv, LedgerTypeOK, AttemptStatuses
  <2>. QED  BY <2>1, HeldShrinks DEF LedgerInv
<1>5. OutcomeAgreement'
  BY DEF OutcomeAgreement, LedgerInv, LedgerTypeOK, AttemptStatuses
<1>. QED  BY <1>1, <1>2, <1>3, <1>4, <1>5 DEF LedgerInv

LEMMA OrphanStep ==
    ASSUME LedgerInv, NEW a \in AttemptIds, OrphanRow(a)
    PROVE  LedgerInv'
<1>1. caseStatus[a[1]] = "running"
  BY OpenAttempt DEF OrphanRow
<1>2. caseStatus' = [caseStatus EXCEPT ![a[1]] = CaseStatusFor("orphaned")]
  BY <1>1, CaseStatusValues DEF OrphanRow
<1>3. outcome[a] = "none" /\ outcome' = [outcome EXCEPT ![a] = "none"]
  BY DEF OrphanRow, LedgerInv, OutcomeAgreement, LedgerTypeOK
<1>4. halted' \in BOOLEAN
  BY DEF OrphanRow, LedgerInv, LedgerTypeOK
<1>. QED
  BY <1>2, <1>3, <1>4, OpenStep DEF OrphanRow, AttemptStatuses, Outcomes

LEMMA BlockStep ==
    ASSUME LedgerInv, NEW a \in AttemptIds, BlockRow(a),
           outcome[a] # "completed_capture" \/ attemptStatus[a] = "blocked",
           attemptStatus[a] \notin {"absent", "requeued", "accepted"}
    PROVE  LedgerInv'
<1>1. caseStatus' = [caseStatus EXCEPT ![a[1]] = CaseStatusFor("blocked")]
  BY CaseStatusValues DEF BlockRow
<1>2. outcome[a] \in Outcomes \ {"accepted"} /\ outcome' = [outcome EXCEPT ![a] = outcome[a]]
  BY DEF BlockRow, LedgerInv, OutcomeAgreement, LedgerTypeOK
<1>. QED
  BY <1>1, <1>2, OpenStep DEF BlockRow, AttemptStatuses

LEMMA RetryableStep ==
    ASSUME LedgerInv, NEW a \in AttemptIds, CommitRetryable(a)
    PROVE  LedgerInv'
<1>1. attemptStatus[a] \notin {"absent", "requeued", "accepted"}
  BY DEF CommitRetryable, Committable
<1>2. caseStatus' = [caseStatus EXCEPT ![a[1]] = CaseStatusFor("retryable")]
  BY CaseStatusValues DEF CommitRetryable
<1>3. halted' \in BOOLEAN
  BY DEF CommitRetryable, LedgerInv, LedgerTypeOK
<1>. QED
  BY <1>1, <1>2, <1>3, OpenStep DEF CommitRetryable, AttemptStatuses, Outcomes

LEMMA CaptureStep ==
    ASSUME LedgerInv, NEW a \in AttemptIds, NEW o \in Outcomes, CommitCapture(a, o)
    PROVE  LedgerInv'
<1>1. attemptStatus[a] \notin {"absent", "requeued", "accepted"}
  BY DEF CommitCapture, Committable
<1>2. caseStatus' = [caseStatus EXCEPT ![a[1]] = CaseStatusFor("blocked")]
  BY CaseStatusValues DEF CommitCapture
<1>. QED
  BY <1>1, <1>2, OpenStep DEF CommitCapture, AttemptStatuses, Outcomes

LEMMA RequeueStep ==
    ASSUME LedgerInv, NEW a \in AttemptIds, NEW note \in BOOLEAN, RequeueRow(a, note)
    PROVE  LedgerInv'
<1>1. attemptStatus[a] \notin {"absent", "requeued", "accepted"}
  BY DEF RequeueRow, Requeueable
<1>2. caseStatus' = [caseStatus EXCEPT ![a[1]] = CaseStatusFor("requeued")]
  BY CaseStatusValues DEF RequeueRow, Requeueable
<1>3. /\ outcome[a] \in Outcomes \ {"accepted", "completed_capture"}
      /\ outcome' = [outcome EXCEPT ![a] = outcome[a]]
  BY DEF RequeueRow, Requeueable, LedgerInv, LedgerTypeOK
<1>4. halted' \in BOOLEAN
  BY DEF RequeueRow, Requeueable, LedgerInv, LedgerTypeOK
<1>. QED
  BY <1>1, <1>2, <1>3, <1>4, OpenStep DEF RequeueRow, Requeueable, AttemptStatuses

LEMMA HaltStep ==
    ASSUME LedgerInv, Halt \/ ClearHaltRow
    PROVE  LedgerInv'
<1>1. /\ UNCHANGED << caseStatus, attemptCount, acceptedAttempt,
                      attemptStatus, attemptWorker, outcome >>
      /\ halted' \in BOOLEAN
  BY DEF Halt, ClearHaltRow
<1>2. LedgerTypeOK'
  BY <1>1 DEF LedgerInv, LedgerTypeOK
<1>3. AttemptChain'
  BY <1>1 DEF LedgerInv, AttemptChain
<1>4. CaseFollowsLastAttempt'
  BY <1>1, Zenon DEF LedgerInv, CaseFollowsLastAttempt, CaseStatusFor
<1>5. AcceptedPointer'
  BY <1>1 DEF LedgerInv, AcceptedPointer
<1>6. WorkerExclusive' /\ OutcomeAgreement'
  BY <1>1 DEF LedgerInv, WorkerExclusive, Held, OutcomeAgreement
<1>. QED  BY <1>2, <1>3, <1>4, <1>5, <1>6 DEF LedgerInv

(* Accepting an attempt keeps the invariant: a case has no earlier         *)
(* acceptance, and the attempt is its last.                                *)
LEMMA AcceptStep ==
    ASSUME LedgerInv, NEW a \in AttemptIds, CommitAccepted(a)
    PROVE  LedgerInv'
<1>1. attemptStatus[a] \notin {"absent", "requeued", "accepted"}
  BY OpenAttempt DEF CommitAccepted, Committable
<1>2. /\ a[1] \in Cases
      /\ a = << a[1], attemptCount[a[1]] >>
  BY <1>1, OpenAttempt
<1>3. caseStatus' = [caseStatus EXCEPT ![a[1]] = CaseStatusFor("accepted")]
  BY CaseStatusValues DEF CommitAccepted
<1>4. LedgerTypeOK'
  BY <1>2 DEF CommitAccepted, LedgerInv, LedgerTypeOK, CaseStatuses, AttemptStatuses, Outcomes
<1>5. AttemptChain' /\ CaseFollowsLastAttempt'
  BY <1>1, <1>3, RowStep DEF CommitAccepted, LedgerInv, AttemptStatuses
<1>6. AcceptedPointer'
  <2>. SUFFICES ASSUME NEW c \in Cases
                PROVE  \/ /\ acceptedAttempt'[c] = NoAttempt
                          /\ \A n \in 1 .. MaxAttempts : attemptStatus'[<< c, n >>] # "accepted"
                       \/ /\ acceptedAttempt'[c] = << c, attemptCount[c] >>
                          /\ attemptStatus'[acceptedAttempt'[c]] = "accepted"
    BY DEF AcceptedPointer, CommitAccepted
  <2>1. \A b \in AttemptIds :
            attemptStatus'[b] = IF b = a THEN "accepted" ELSE attemptStatus[b]
    BY DEF CommitAccepted, LedgerInv, LedgerTypeOK
  <2>2. \A d \in Cases :
            acceptedAttempt'[d] = IF d = a[1] THEN a ELSE acceptedAttempt[d]
    BY <1>2 DEF CommitAccepted, LedgerInv, LedgerTypeOK
  <2>3. CASE c = a[1]
    BY <1>2, <2>1, <2>2, <2>3
  <2>4. CASE c # a[1]
    <3>1. \A n \in 1 .. MaxAttempts :
              << c, n >> \in AttemptIds /\ << c, n >> # a
      BY <1>2, <2>4 DEF AttemptIds
    <3>2. /\ acceptedAttempt'[c] = acceptedAttempt[c]
          /\ \A n \in 1 .. MaxAttempts : attemptStatus'[<< c, n >>] = attemptStatus[<< c, n >>]
      BY <2>1, <2>2, <2>4, <3>1
    <3>3. CASE acceptedAttempt[c] # NoAttempt
      <4>1. /\ acceptedAttempt[c] = << c, attemptCount[c] >>
            /\ attemptStatus[acceptedAttempt[c]] = "accepted"
        BY <3>3 DEF LedgerInv, AcceptedPointer
      <4>2. acceptedAttempt[c] \in AttemptIds
        BY <3>3 DEF LedgerInv, LedgerTypeOK
      <4>. QED  BY <1>1, <2>1, <3>2, <4>1, <4>2
    <3>4. CASE acceptedAttempt[c] = NoAttempt
      <4>1. << c, attemptCount[c] >> # NoAttempt
        BY LedgerAssumption DEF NoAttempt, Cases
      <4>. QED  BY <3>2, <3>4, <4>1 DEF LedgerInv, AcceptedPointer
    <3>. QED  BY <3>3, <3>4
  <2>. QED  BY <2>3, <2>4
<1>7. WorkerExclusive'
  <2>1. \A b \in AttemptIds : Held(b)' => Held(b)
    BY DEF CommitAccepted, Held, LedgerInv, LedgerTypeOK
  <2>. QED  BY <2>1, HeldShrinks DEF CommitAccepted, LedgerInv
<1>8. OutcomeAgreement'
  BY DEF CommitAccepted, OutcomeAgreement, LedgerInv, LedgerTypeOK
<1>. QED  BY <1>4, <1>5, <1>6, <1>7, <1>8 DEF LedgerInv

(* A claim adds the next attempt of a case whose earlier ones were all     *)
(* requeued, for a worker that holds nothing.                              *)
LEMMA ClaimStep ==
    ASSUME LedgerInv, NEW w \in Workers, NEW c \in Cases, ClaimRow(w, c)
    PROVE  LedgerInv'
<1>. DEFINE a == << c, attemptCount[c] + 1 >>
<1>1. attemptCount[c] \in 0 .. MaxAttempts /\ attemptCount[c] < MaxAttempts
  BY DEF ClaimRow, LedgerInv, LedgerTypeOK
<1>2. a \in AttemptIds
  BY <1>1, LedgerAssumption DEF AttemptIds
<1>3. attemptStatus[a] = "absent"
  BY <1>1, <1>2 DEF LedgerInv, AttemptChain, AttemptIds
<1>4. LedgerTypeOK'
  <2>1. attemptCount[c] + 1 \in 0 .. MaxAttempts
    BY <1>1, LedgerAssumption
  <2>2. /\ attemptCount' \in [Cases -> 0 .. MaxAttempts]
        /\ caseStatus' \in [Cases -> CaseStatuses]
    BY <2>1 DEF ClaimRow, LedgerInv, LedgerTypeOK, CaseStatuses
  <2>3. /\ attemptStatus' \in [AttemptIds -> AttemptStatuses]
        /\ attemptWorker' \in [AttemptIds -> Workers \cup {NoWorker}]
    BY <1>2 DEF ClaimRow, NewAttempt, LedgerInv, LedgerTypeOK, AttemptStatuses
  <2>. QED  BY <2>2, <2>3 DEF ClaimRow, LedgerInv, LedgerTypeOK
<1>5. \A b \in AttemptIds :
          /\ attemptStatus'[b] = IF b = a THEN "active" ELSE attemptStatus[b]
          /\ attemptWorker'[b] = IF b = a THEN w ELSE attemptWorker[b]
  BY DEF ClaimRow, NewAttempt, LedgerInv, LedgerTypeOK
<1>6. \A d \in Cases :
          /\ attemptCount'[d] = IF d = c THEN attemptCount[c] + 1 ELSE attemptCount[d]
          /\ caseStatus'[d] = IF d = c THEN "running" ELSE caseStatus[d]
          /\ attemptCount[d] \in 0 .. MaxAttempts
  BY DEF ClaimRow, LedgerInv, LedgerTypeOK
<1>7. \A n \in 1 .. attemptCount[c] : attemptStatus[<< c, n >>] = "requeued"
  <2>. SUFFICES ASSUME NEW n \in 1 .. attemptCount[c]
                PROVE  attemptStatus[<< c, n >>] = "requeued"
    OBVIOUS
  <2>1. n \in 1 .. MaxAttempts /\ << c, n >> \in AttemptIds
    BY <1>1, LedgerAssumption DEF AttemptIds
  <2>2. attemptStatus[<< c, n >>] # "absent"
    BY <1>1, <2>1 DEF LedgerInv, AttemptChain
  <2>3. caseStatus[c] = "pending"
    BY DEF ClaimRow, NextPending
  <2>4. CASE attemptStatus[<< c, n >>] # "requeued"
    <3>1. caseStatus[<< c, n >>[1]] # "pending"
      BY <2>1, <2>2, <2>4, OpenAttempt
    <3>. QED  BY <2>3, <3>1
  <2>. QED  BY <2>4
<1>8. AttemptChain'
  <2>. SUFFICES ASSUME NEW d \in Cases, NEW n \in 1 .. MaxAttempts
                PROVE  /\ (attemptStatus'[<< d, n >>] = "absent") <=> (n > attemptCount'[d])
                       /\ n < attemptCount'[d] => attemptStatus'[<< d, n >>] = "requeued"
    BY DEF AttemptChain
  <2>1. << d, n >> \in AttemptIds
    BY DEF AttemptIds
  <2>2. /\ (attemptStatus[<< d, n >>] = "absent") <=> (n > attemptCount[d])
        /\ n < attemptCount[d] => attemptStatus[<< d, n >>] = "requeued"
    BY DEF LedgerInv, AttemptChain
  <2>3. CASE d # c
    BY <1>5, <1>6, <2>1, <2>2, <2>3
  <2>4. CASE d = c /\ n = attemptCount[c] + 1
    BY <1>1, <1>5, <1>6, <2>1, <2>4
  <2>5. CASE d = c /\ n # attemptCount[c] + 1
    <3>1. attemptStatus'[<< d, n >>] = attemptStatus[<< d, n >>]
      BY <1>5, <2>1, <2>5
    <3>2. attemptCount'[d] = attemptCount[c] + 1
      BY <1>6, <2>5
    <3>3. n \in 1 .. attemptCount[c] \/ n > attemptCount[c] + 1
      BY <1>1, <2>5
    <3>. QED  BY <1>1, <1>7, <2>2, <2>5, <3>1, <3>2, <3>3
  <2>. QED  BY <2>3, <2>4, <2>5
<1>9. CaseFollowsLastAttempt'
  <2>. SUFFICES ASSUME NEW d \in Cases
                PROVE  caseStatus'[d] = IF attemptCount'[d] = 0
                                        THEN "pending"
                                        ELSE CaseStatusFor(attemptStatus'[<< d, attemptCount'[d] >>])
    BY Zenon DEF CaseFollowsLastAttempt, CaseStatusFor
  <2>1. CASE d = c
    BY <1>1, <1>2, <1>5, <1>6, <2>1, CaseStatusValues
  <2>2. CASE d # c
    <3>1. CASE attemptCount[d] = 0
      BY <1>6, <2>2, <3>1 DEF LedgerInv, CaseFollowsLastAttempt
    <3>2. CASE attemptCount[d] # 0
      <4>1. << d, attemptCount[d] >> \in AttemptIds /\ << d, attemptCount[d] >> # a
        BY <1>6, <2>2, <3>2, LedgerAssumption DEF AttemptIds
      <4>2. attemptStatus'[<< d, attemptCount[d] >>] = attemptStatus[<< d, attemptCount[d] >>]
        BY <1>5, <4>1
      <4>3. caseStatus'[d] = caseStatus[d] /\ attemptCount'[d] = attemptCount[d]
        BY <1>6, <2>2
      <4>4. caseStatus[d] = CaseStatusFor(attemptStatus[<< d, attemptCount[d] >>])
        BY <3>2, Zenon DEF LedgerInv, CaseFollowsLastAttempt
      <4>. QED  BY <3>2, <4>2, <4>3, <4>4
    <3>. QED  BY <3>1, <3>2
  <2>. QED  BY <2>1, <2>2
<1>10. AcceptedPointer'
  <2>. SUFFICES ASSUME NEW d \in Cases
                PROVE  \/ /\ acceptedAttempt[d] = NoAttempt
                          /\ \A n \in 1 .. MaxAttempts : attemptStatus'[<< d, n >>] # "accepted"
                       \/ /\ acceptedAttempt[d] = << d, attemptCount'[d] >>
                          /\ attemptStatus'[acceptedAttempt[d]] = "accepted"
    BY DEF AcceptedPointer, ClaimRow
  <2>1. \A n \in 1 .. MaxAttempts : << d, n >> \in AttemptIds
    BY DEF AttemptIds
  <2>2. CASE acceptedAttempt[d] = NoAttempt
    <3>1. << d, attemptCount[d] >> # NoAttempt
      BY LedgerAssumption DEF NoAttempt, Cases
    <3>2. \A n \in 1 .. MaxAttempts : attemptStatus[<< d, n >>] # "accepted"
      BY <2>2, <3>1 DEF LedgerInv, AcceptedPointer
    <3>. QED  BY <1>5, <2>1, <2>2, <3>2
  <2>3. CASE acceptedAttempt[d] # NoAttempt
    <3>1. /\ acceptedAttempt[d] = << d, attemptCount[d] >>
          /\ attemptStatus[acceptedAttempt[d]] = "accepted"
      BY <2>3 DEF LedgerInv, AcceptedPointer
    <3>2. acceptedAttempt[d] \in AttemptIds
      BY <2>3 DEF LedgerInv, LedgerTypeOK
    <3>3. d # c
      <4>1. CASE d = c
        <5>1. acceptedAttempt[d] \in AttemptIds /\ acceptedAttempt[d][1] = c
          BY <3>1, <3>2, <4>1
        <5>2. caseStatus[c] # "pending"
          BY <3>1, <5>1, OpenAttempt
        <5>. QED  BY <5>2 DEF ClaimRow, NextPending
      <4>. QED  BY <4>1
    <3>. QED  BY <1>3, <1>5, <1>6, <3>1, <3>2, <3>3
  <2>. QED  BY <2>2, <2>3
<1>11. WorkerExclusive'
  <2>. SUFFICES ASSUME NEW b \in AttemptIds, NEW e \in AttemptIds,
                       Held(b)', Held(e)', attemptWorker'[b] = attemptWorker'[e], b # e
                PROVE  FALSE
    BY DEF WorkerExclusive
  <2>1. \A x \in AttemptIds : Held(x) => attemptWorker[x] # w
    BY DEF ClaimRow, WorkerHeld
  <2>2. \A x \in AttemptIds : x # a /\ Held(x)' => Held(x)
    BY <1>5 DEF Held
  <2>3. b # a /\ e # a
    BY <1>5, <2>1, <2>2
  <2>. QED  BY <1>5, <2>2, <2>3 DEF LedgerInv, WorkerExclusive
<1>12. OutcomeAgreement'
  BY <1>3, <1>5 DEF ClaimRow, LedgerInv, OutcomeAgreement
<1>. QED  BY <1>4, <1>8, <1>9, <1>10, <1>11, <1>12 DEF LedgerInv

-----------------------------------------------------------------------------
LEMMA LedgerInitInv ==
    ASSUME LedgerInit PROVE LedgerInv
<1>1. \A c \in Cases, n \in 1 .. MaxAttempts :
          << c, n >> \in AttemptIds /\ n > 0 /\ c # 0
  BY LedgerAssumption DEF AttemptIds, Cases
<1>2. LedgerTypeOK
  BY LedgerAssumption DEF LedgerInit, LedgerTypeOK, CaseStatuses, AttemptStatuses, Outcomes
<1>3. AttemptChain
  <2>. SUFFICES ASSUME NEW c \in Cases, NEW n \in 1 .. MaxAttempts
                PROVE  /\ (attemptStatus[<< c, n >>] = "absent") <=> (n > attemptCount[c])
                       /\ n < attemptCount[c] => attemptStatus[<< c, n >>] = "requeued"
    BY DEF AttemptChain
  <2>1. attemptStatus[<< c, n >>] = "absent" /\ attemptCount[c] = 0
    BY <1>1 DEF LedgerInit
  <2>. QED  BY <2>1
<1>4. CaseFollowsLastAttempt /\ AcceptedPointer
  BY <1>1 DEF LedgerInit, CaseFollowsLastAttempt, AcceptedPointer
<1>5. WorkerExclusive /\ OutcomeAgreement
  BY DEF LedgerInit, WorkerExclusive, Held, OutcomeAgreement
<1>. QED  BY <1>2, <1>3, <1>4, <1>5 DEF LedgerInv

LEMMA LedgerStep ==
    ASSUME LedgerInv, [LedgerNext]_ledgerVars PROVE LedgerInv'
<1>1. ASSUME NEW w \in Workers, NEW c \in Cases, ClaimRow(w, c)
      PROVE  LedgerInv'
  BY <1>1, ClaimStep
<1>2. ASSUME NEW a \in AttemptIds, OrphanRow(a)
      PROVE  LedgerInv'
  BY <1>2, OrphanStep
<1>3. ASSUME NEW a \in AttemptIds, CommitAccepted(a)
      PROVE  LedgerInv'
  BY <1>3, AcceptStep
<1>4. ASSUME NEW a \in AttemptIds, NEW o \in Outcomes, CommitCapture(a, o)
      PROVE  LedgerInv'
  BY <1>4, CaptureStep
<1>5. ASSUME NEW a \in AttemptIds, CommitRetryable(a)
      PROVE  LedgerInv'
  BY <1>5, RetryableStep
<1>6. ASSUME NEW a \in AttemptIds, BlockAttempt(a)
      PROVE  LedgerInv'
  <2>1. CASE Halt
    BY <2>1, HaltStep
  <2>2. CASE ~Halt
    BY <1>6, <2>2, BlockStep DEF BlockAttempt
  <2>. QED  BY <2>1, <2>2
<1>7. ASSUME NEW a \in AttemptIds, BlockOrphanRow(a)
      PROVE  LedgerInv'
  BY <1>7, BlockStep DEF BlockOrphanRow, LedgerInv, OutcomeAgreement
<1>8. ASSUME NEW a \in AttemptIds, NEW note \in BOOLEAN, RequeueRow(a, note)
      PROVE  LedgerInv'
  BY <1>8, RequeueStep
<1>9. CASE Halt \/ ClearHaltRow
  BY <1>9, HaltStep
<1>10. CASE UNCHANGED ledgerVars
  BY <1>10 DEF ledgerVars, LedgerInv, LedgerTypeOK, AttemptChain, CaseFollowsLastAttempt,
               AcceptedPointer, WorkerExclusive, Held, OutcomeAgreement
<1>. QED
  BY <1>1, <1>2, <1>3, <1>4, <1>5, <1>6, <1>7, <1>8, <1>9, <1>10 DEF LedgerNext

(* The rows of the queue stay consistent through every sequence of         *)
(* transactions, whatever the number of cases, workers and attempts: case  *)
(* and attempt rows agree, a case has at most one attempt in hand and at   *)
(* most one acceptance, and a worker holds at most one attempt.            *)
THEOREM LedgerInvariant == LedgerSpec => []LedgerInv
BY LedgerInitInv, LedgerStep, PTL DEF LedgerSpec

(* No sequence of transactions leaves the columns' domains; the pointer of *)
(* a case, once set, names an attempt of the plan.                         *)
THEOREM RowsAreTyped == LedgerSpec => []LedgerTypeOK
<1>1. LedgerInv => LedgerTypeOK
  BY DEF LedgerInv
<1>. QED  BY <1>1, LedgerInvariant, PTL

(* The attempts of a case are numbered without gaps and only the last one  *)
(* can be anything but requeued, whoever requeues it and when.             *)
THEOREM AttemptsFormChains == LedgerSpec => []AttemptChain
<1>1. LedgerInv => AttemptChain
  BY DEF LedgerInv
<1>. QED  BY <1>1, LedgerInvariant, PTL

(* The case row agrees with the row of its last attempt after every        *)
(* transaction, though each updates the two with separate statements.      *)
THEOREM CasesFollowAttempts == LedgerSpec => []CaseFollowsLastAttempt
<1>1. LedgerInv => CaseFollowsLastAttempt
  BY DEF LedgerInv
<1>. QED  BY <1>1, LedgerInvariant, PTL

(* A case that points at an attempt points at its own last one, which was  *)
(* accepted; a case that does not has no accepted attempt.                 *)
THEOREM OneAcceptance == LedgerSpec => []AcceptedPointer
<1>1. LedgerInv => AcceptedPointer
  BY DEF LedgerInv
<1>. QED  BY <1>1, LedgerInvariant, PTL

(* A held attempt has no outcome yet, acceptance is sealed as acceptance,  *)
(* and what was sealed as completed is never run again.                    *)
THEOREM OutcomesAgree == LedgerSpec => []OutcomeAgreement
<1>1. LedgerInv => OutcomeAgreement
  BY DEF LedgerInv
<1>. QED  BY <1>1, LedgerInvariant, PTL

(* A worker, and so its endpoint, is held by one attempt at a time.        *)
THEOREM WorkersAreExclusive == LedgerSpec => []WorkerExclusive
<1>1. LedgerInv => WorkerExclusive
  BY DEF LedgerInv
<1>. QED  BY <1>1, LedgerInvariant, PTL

-----------------------------------------------------------------------------
(* A case that points at an attempt is accepted.                           *)
LEMMA AcceptedCases ==
    ASSUME LedgerInv, NEW c \in Cases, acceptedAttempt[c] # NoAttempt
    PROVE  /\ caseStatus[c] = "accepted"
           /\ acceptedAttempt[c] = << c, attemptCount[c] >>
<1>1. /\ acceptedAttempt[c] = << c, attemptCount[c] >>
      /\ attemptStatus[acceptedAttempt[c]] = "accepted"
  BY DEF LedgerInv, AcceptedPointer
<1>2. acceptedAttempt[c] \in AttemptIds /\ acceptedAttempt[c][1] = c
  BY <1>1 DEF LedgerInv, LedgerTypeOK
<1>. QED  BY <1>1, <1>2, OpenAttempt

(* A step on an open attempt that is not accepted cannot touch an accepted *)
(* case, nor, if the attempt has no outcome yet, any outcome.              *)
LEMMA FinalStep ==
    ASSUME LedgerInv, NEW a \in AttemptIds,
           attemptStatus[a] \notin {"absent", "requeued", "accepted"},
           NEW s \in CaseStatuses,
           caseStatus' = [caseStatus EXCEPT ![a[1]] = s],
           \/ UNCHANGED acceptedAttempt
           \/ acceptedAttempt' = [acceptedAttempt EXCEPT ![a[1]] = a],
           \/ UNCHANGED outcome
           \/ outcome[a] = "none" /\ \E o \in Outcomes : outcome' = [outcome EXCEPT ![a] = o]
    PROVE  /\ \A c \in Cases : acceptedAttempt[c] # NoAttempt =>
                  acceptedAttempt'[c] = acceptedAttempt[c] /\ caseStatus'[c] = "accepted"
           /\ \A b \in AttemptIds : outcome[b] # "none" => outcome'[b] = outcome[b]
<1>1. a[1] \in Cases /\ acceptedAttempt[a[1]] = NoAttempt
  BY OpenAttempt
<1>2. \A c \in Cases : acceptedAttempt[c] # NoAttempt => caseStatus[c] = "accepted"
  BY AcceptedCases
<1>3. \A c \in Cases : acceptedAttempt[c] # NoAttempt =>
          acceptedAttempt'[c] = acceptedAttempt[c] /\ caseStatus'[c] = "accepted"
  BY <1>1, <1>2 DEF LedgerInv, LedgerTypeOK
<1>4. \A b \in AttemptIds : outcome[b] # "none" => outcome'[b] = outcome[b]
  BY DEF LedgerInv, LedgerTypeOK
<1>. QED  BY <1>3, <1>4

LEMMA StepKeepsCommitments ==
    ASSUME LedgerInv, [LedgerNext]_ledgerVars
    PROVE  /\ \A c \in Cases : acceptedAttempt[c] # NoAttempt =>
                  acceptedAttempt'[c] = acceptedAttempt[c] /\ caseStatus'[c] = "accepted"
           /\ \A a \in AttemptIds : outcome[a] # "none" => outcome'[a] = outcome[a]
<1>. DEFINE
       Kept == /\ \A c \in Cases : acceptedAttempt[c] # NoAttempt =>
                     acceptedAttempt'[c] = acceptedAttempt[c] /\ caseStatus'[c] = "accepted"
               /\ \A a \in AttemptIds : outcome[a] # "none" => outcome'[a] = outcome[a]
<1>1. \A c \in Cases : acceptedAttempt[c] # NoAttempt => caseStatus[c] = "accepted"
  BY AcceptedCases
<1>2. ASSUME UNCHANGED << caseStatus, acceptedAttempt, outcome >>
      PROVE  Kept
  BY <1>1, <1>2
<1>3. ASSUME NEW w \in Workers, NEW c \in Cases, ClaimRow(w, c)
      PROVE  Kept
  BY <1>1, <1>3 DEF ClaimRow, NextPending, LedgerInv, LedgerTypeOK
<1>4. ASSUME NEW a \in AttemptIds, OrphanRow(a)
      PROVE  Kept
  <2>1. caseStatus[a[1]] = "running" /\ a[1] \in Cases
    BY <1>4, OpenAttempt DEF OrphanRow
  <2>2. caseStatus' = [caseStatus EXCEPT ![a[1]] = "orphaned"]
    BY <1>4, <2>1 DEF OrphanRow
  <2>. QED  BY <1>4, <2>2, FinalStep DEF OrphanRow, CaseStatuses
<1>5. ASSUME NEW a \in AttemptIds, CommitAccepted(a)
      PROVE  Kept
  <2>1. attemptStatus[a] \notin {"absent", "requeued", "accepted"} /\ outcome[a] = "none"
    BY <1>5 DEF CommitAccepted, Committable
  <2>. QED  BY <1>5, <2>1, FinalStep DEF CommitAccepted, CaseStatuses, Outcomes
<1>6. ASSUME NEW a \in AttemptIds, NEW o \in Outcomes, CommitCapture(a, o)
      PROVE  Kept
  <2>1. attemptStatus[a] \notin {"absent", "requeued", "accepted"} /\ outcome[a] = "none"
    BY <1>6 DEF CommitCapture, Committable
  <2>. QED  BY <1>6, <2>1, FinalStep DEF CommitCapture, CaseStatuses
<1>7. ASSUME NEW a \in AttemptIds, CommitRetryable(a)
      PROVE  Kept
  <2>1. attemptStatus[a] \notin {"absent", "requeued", "accepted"} /\ outcome[a] = "none"
    BY <1>7 DEF CommitRetryable, Committable
  <2>. QED  BY <1>7, <2>1, FinalStep DEF CommitRetryable, CaseStatuses, Outcomes
<1>8. ASSUME NEW a \in AttemptIds, BlockAttempt(a) \/ BlockOrphanRow(a)
      PROVE  Kept
  <2>1. CASE Halt
    BY <1>2, <2>1 DEF Halt
  <2>2. CASE BlockRow(a) /\ attemptStatus[a] \notin {"absent", "requeued", "accepted"}
    BY <2>2, FinalStep DEF BlockRow, CaseStatuses
  <2>. QED  BY <1>8, <2>1, <2>2 DEF BlockAttempt, BlockOrphanRow
<1>9. ASSUME NEW a \in AttemptIds, NEW note \in BOOLEAN, RequeueRow(a, note)
      PROVE  Kept
  <2>1. attemptStatus[a] \notin {"absent", "requeued", "accepted"}
    BY <1>9 DEF RequeueRow, Requeueable
  <2>. QED  BY <1>9, <2>1, FinalStep DEF RequeueRow, Requeueable, CaseStatuses
<1>10. CASE Halt \/ ClearHaltRow \/ UNCHANGED ledgerVars
  BY <1>2, <1>10 DEF Halt, ClearHaltRow, ledgerVars
<1>. QED
  BY <1>3, <1>4, <1>5, <1>6, <1>7, <1>8, <1>9, <1>10 DEF LedgerNext

(* What was committed is final in every behaviour: no later transaction    *)
(* takes an acceptance away or changes the sealed outcome of an attempt.   *)
THEOREM CommitmentsAreFinal == LedgerSpec => CommittedIsFinal
<1>1. LedgerInv /\ [LedgerNext]_ledgerVars =>
        [/\ \A c \in Cases : acceptedAttempt[c] # NoAttempt =>
                /\ acceptedAttempt'[c] = acceptedAttempt[c]
                /\ caseStatus'[c] = "accepted"
         /\ \A a \in AttemptIds : outcome[a] # "none" => outcome'[a] = outcome[a]
        ]_ledgerVars
  BY StepKeepsCommitments
<1>. QED  BY <1>1, LedgerInvariant, PTL DEF LedgerSpec, CommittedIsFinal

-----------------------------------------------------------------------------
(* The refinement of CaseDispatch.                                         *)

LEMMA PhaseOf ==
    ASSUME NEW c \in Cases
    PROVE  /\ caseStatus[c] = "pending" => CasePhase(c) = "waiting"
           /\ caseStatus[c] \in {"running", "orphaned"} => CasePhase(c) = "held"
           /\ caseStatus[c] = "accepted" => CasePhase(c) = "done"
           /\ caseStatus[c] \in {"retry_waiting", "blocked"} => CasePhase(c) = "parked"
BY Zenon DEF CasePhase

LEMMA NextPhaseOf ==
    ASSUME NEW c \in Cases
    PROVE  /\ caseStatus'[c] = "pending" => CasePhase(c)' = "waiting"
           /\ caseStatus'[c] \in {"running", "orphaned"} => CasePhase(c)' = "held"
           /\ caseStatus'[c] = "accepted" => CasePhase(c)' = "done"
           /\ caseStatus'[c] \in {"retry_waiting", "blocked"} => CasePhase(c)' = "parked"
BY Zenon DEF CasePhase

(* A step on an open attempt maps to a step of its case alone.             *)
LEMMA OpenStepMaps ==
    ASSUME LedgerInv, NEW a \in AttemptIds,
           attemptStatus[a] \notin {"absent", "requeued", "accepted"},
           NEW s \in CaseStatuses \ {"running"},
           caseStatus' = [caseStatus EXCEPT ![a[1]] = s],
           UNCHANGED << attemptCount, attemptWorker >>,
           s = "orphaned" => caseStatus[a[1]] = "running",
           IF s = "accepted"
           THEN acceptedAttempt' = [acceptedAttempt EXCEPT ![a[1]] = a]
           ELSE UNCHANGED acceptedAttempt
    PROVE  [Dispatch!DispatchNext]_(Dispatch!dispatchVars)
<1>. DEFINE c == a[1]
            phase == [d \in Cases |-> CasePhase(d)]
            holder == [d \in Cases |-> CaseHolder(d)]
            winner == [d \in Cases |-> acceptedAttempt[d][2]]
<1>1. /\ c \in Cases
      /\ a = << c, attemptCount[c] >>
      /\ caseStatus[c] \in CaseStatuses \ {"accepted", "pending"}
  BY OpenAttempt DEF LedgerInv, LedgerTypeOK
<1>2. phase[c] \in {"held", "parked"}
  BY <1>1, PhaseOf DEF CaseStatuses
<1>3. \A d \in Cases : d # c => caseStatus'[d] = caseStatus[d]
  BY <1>1 DEF LedgerInv, LedgerTypeOK
<1>4. caseStatus'[c] = s
  BY <1>1 DEF LedgerInv, LedgerTypeOK
<1>5. \A d \in Cases : d # c => CasePhase(d)' = CasePhase(d)
  BY <1>3, Zenon DEF CasePhase
<1>6. \A d \in Cases : d # c => CaseHolder(d)' = CaseHolder(d)
  BY <1>5 DEF CaseHolder, LastAttempt
<1>7. phase' = [phase EXCEPT ![c] = CasePhase(c)']
  BY <1>1, <1>5
<1>8. holder' = [holder EXCEPT ![c] = CaseHolder(c)']
  BY <1>1, <1>6
<1>9. CASE s = "orphaned"
  <2>1. CasePhase(c) = "held" /\ CasePhase(c)' = "held"
    BY <1>1, <1>4, <1>9, PhaseOf, NextPhaseOf
  <2>2. CaseHolder(c)' = CaseHolder(c)
    BY <2>1 DEF CaseHolder, LastAttempt
  <2>3. phase' = phase /\ holder' = holder
    BY <1>5, <1>6, <2>1, <2>2
  <2>4. winner' = winner
    BY <1>9
  <2>. QED  BY <2>3, <2>4 DEF Dispatch!dispatchVars
<1>10. CASE s \in {"retry_waiting", "blocked"}
  <2>1. CasePhase(c)' = "parked" /\ CaseHolder(c)' = NoWorker
    BY <1>1, <1>4, <1>10, NextPhaseOf DEF CaseHolder
  <2>2. winner' = winner
    BY <1>10
  <2>. QED
    BY <1>1, <1>2, <1>7, <1>8, <2>1, <2>2
       DEF Dispatch!DispatchNext, Dispatch!Park, Dispatch!Leave
<1>11. CASE s = "pending"
  <2>1. CasePhase(c)' = "waiting" /\ CaseHolder(c)' = NoWorker
    BY <1>1, <1>4, <1>11, NextPhaseOf DEF CaseHolder
  <2>2. winner' = winner
    BY <1>11
  <2>. QED
    BY <1>1, <1>2, <1>7, <1>8, <2>1, <2>2
       DEF Dispatch!DispatchNext, Dispatch!Reopen, Dispatch!Leave
<1>12. CASE s = "accepted"
  <2>1. CasePhase(c)' = "done" /\ CaseHolder(c)' = NoWorker
    BY <1>1, <1>4, <1>12, NextPhaseOf DEF CaseHolder
  <2>2. winner' = [winner EXCEPT ![c] = attemptCount[c]]
    <3>1. \A d \in Cases : acceptedAttempt'[d] = IF d = c THEN a ELSE acceptedAttempt[d]
      BY <1>1, <1>12 DEF LedgerInv, LedgerTypeOK
    <3>2. a[2] = attemptCount[c]
      BY <1>1
    <3>. QED  BY <1>1, <3>1, <3>2
  <2>. QED
    BY <1>1, <1>2, <1>7, <1>8, <2>1, <2>2
       DEF Dispatch!DispatchNext, Dispatch!Complete, Dispatch!Leave
<1>. QED  BY <1>9, <1>10, <1>11, <1>12 DEF CaseStatuses

LEMMA StutterMaps ==
    ASSUME UNCHANGED << caseStatus, attemptCount, attemptWorker, acceptedAttempt >>
    PROVE  [Dispatch!DispatchNext]_(Dispatch!dispatchVars)
<1>1. \A c \in Cases : CasePhase(c)' = CasePhase(c)
  BY Zenon DEF CasePhase
<1>2. \A c \in Cases : CaseHolder(c)' = CaseHolder(c)
  BY <1>1 DEF CaseHolder, LastAttempt
<1>. QED  BY <1>1, <1>2 DEF Dispatch!dispatchVars

(* A claim hands the case out to a worker that holds no other.             *)
LEMMA ClaimMaps ==
    ASSUME LedgerInv, NEW w \in Workers, NEW c \in Cases, ClaimRow(w, c)
    PROVE  [Dispatch!DispatchNext]_(Dispatch!dispatchVars)
<1>. DEFINE phase == [d \in Cases |-> CasePhase(d)]
            holder == [d \in Cases |-> CaseHolder(d)]
            winner == [d \in Cases |-> acceptedAttempt[d][2]]
            a == << c, attemptCount[c] + 1 >>
<1>1. /\ attemptCount[c] \in 0 .. MaxAttempts /\ attemptCount[c] < MaxAttempts
      /\ caseStatus[c] = "pending"
  BY DEF ClaimRow, NextPending, LedgerInv, LedgerTypeOK
<1>2. a \in AttemptIds
  BY <1>1, LedgerAssumption DEF AttemptIds
<1>3. phase[c] = "waiting"
  BY <1>1, PhaseOf
<1>4. \A d \in Cases : holder[d] # w
  <2>. SUFFICES ASSUME NEW d \in Cases PROVE CaseHolder(d) # w
    OBVIOUS
  <2>1. CASE caseStatus[d] \in {"running", "orphaned"}
    <3>1. attemptCount[d] # 0
      BY <2>1, Zenon DEF LedgerInv, CaseFollowsLastAttempt
    <3>2. << d, attemptCount[d] >> \in AttemptIds
      BY <3>1, LedgerAssumption DEF AttemptIds, LedgerInv, LedgerTypeOK
    <3>3. caseStatus[d] = CaseStatusFor(attemptStatus[<< d, attemptCount[d] >>])
      BY <3>1, Zenon DEF LedgerInv, CaseFollowsLastAttempt
    <3>4. attemptStatus[<< d, attemptCount[d] >>] \in AttemptStatuses
      BY <3>2 DEF LedgerInv, LedgerTypeOK
    <3>5. attemptStatus[<< d, attemptCount[d] >>] # "absent"
      BY <3>1, <3>2, LedgerAssumption DEF LedgerInv, LedgerTypeOK, AttemptChain, AttemptIds
    <3>6. Held(<< d, attemptCount[d] >>)
      BY <2>1, <3>3, <3>4, <3>5, CaseStatusValues DEF AttemptStatuses, Held
    <3>. QED  BY <2>1, <3>2, <3>6, PhaseOf
              DEF CaseHolder, LastAttempt, ClaimRow, WorkerHeld
  <2>2. CASE caseStatus[d] \notin {"running", "orphaned"}
    <3>1. CasePhase(d) # "held"
      BY <2>2, PhaseOf DEF LedgerInv, LedgerTypeOK, CaseStatuses
    <3>. QED  BY <3>1, LedgerAssumption DEF CaseHolder
  <2>. QED  BY <2>1, <2>2
<1>5. /\ \A d \in Cases : d # c => caseStatus'[d] = caseStatus[d] /\ attemptCount'[d] = attemptCount[d]
      /\ caseStatus'[c] = "running" /\ attemptCount'[c] = attemptCount[c] + 1
  BY DEF ClaimRow, LedgerInv, LedgerTypeOK
<1>6. \A d \in Cases : d # c => CasePhase(d)' = CasePhase(d)
  BY <1>5, Zenon DEF CasePhase
<1>7. attemptWorker' = [attemptWorker EXCEPT ![a] = w]
  BY DEF ClaimRow, NewAttempt
<1>8. \A d \in Cases : d # c => CaseHolder(d)' = CaseHolder(d)
  <2>. SUFFICES ASSUME NEW d \in Cases, d # c PROVE CaseHolder(d)' = CaseHolder(d)
    OBVIOUS
  <2>1. LastAttempt(d)' = LastAttempt(d) /\ LastAttempt(d) # a
    BY <1>5 DEF LastAttempt
  <2>2. CASE LastAttempt(d) \in AttemptIds
    BY <1>2, <1>6, <1>7, <2>1, <2>2 DEF CaseHolder, LedgerInv, LedgerTypeOK
  <2>3. CASE LastAttempt(d) \notin AttemptIds
    <3>1. attemptCount[d] = 0
      BY <2>3, LedgerAssumption DEF LastAttempt, AttemptIds, LedgerInv, LedgerTypeOK
    <3>2. caseStatus[d] = "pending"
      BY <3>1, Zenon DEF LedgerInv, CaseFollowsLastAttempt
    <3>. QED  BY <1>6, <3>2, PhaseOf DEF CaseHolder
  <2>. QED  BY <2>2, <2>3
<1>9. CasePhase(c)' = "held"
  BY <1>5, NextPhaseOf
<1>10. CaseHolder(c)' = w
  BY <1>2, <1>5, <1>7, <1>9 DEF CaseHolder, LastAttempt, LedgerInv, LedgerTypeOK
<1>11. /\ phase' = [phase EXCEPT ![c] = "held"]
       /\ holder' = [holder EXCEPT ![c] = w]
       /\ winner' = winner
       /\ attemptCount' = [attemptCount EXCEPT ![c] = attemptCount[c] + 1]
  BY <1>6, <1>8, <1>9, <1>10 DEF ClaimRow
<1>12. Dispatch!HandOut(w, c)
  BY <1>1, <1>3, <1>4, <1>11 DEF Dispatch!HandOut
<1>. QED  BY <1>12 DEF Dispatch!DispatchNext

LEMMA StepMaps ==
    ASSUME LedgerInv, [LedgerNext]_ledgerVars
    PROVE  [Dispatch!DispatchNext]_(Dispatch!dispatchVars)
<1>. DEFINE Maps == [Dispatch!DispatchNext]_(Dispatch!dispatchVars)
<1>1. ASSUME NEW w \in Workers, NEW c \in Cases, ClaimRow(w, c)
      PROVE  Maps
  BY <1>1, ClaimMaps
<1>2. ASSUME NEW a \in AttemptIds, OrphanRow(a)
      PROVE  Maps
  <2>1. caseStatus[a[1]] = "running"
    BY <1>2, OpenAttempt DEF OrphanRow
  <2>2. caseStatus' = [caseStatus EXCEPT ![a[1]] = "orphaned"]
    BY <1>2, <2>1 DEF OrphanRow
  <2>. QED  BY <1>2, <2>1, <2>2, OpenStepMaps DEF OrphanRow, CaseStatuses
<1>3. ASSUME NEW a \in AttemptIds, CommitAccepted(a)
      PROVE  Maps
  <2>1. attemptStatus[a] \notin {"absent", "requeued", "accepted"}
    BY <1>3 DEF CommitAccepted, Committable
  <2>. QED  BY <1>3, <2>1, OpenStepMaps DEF CommitAccepted, CaseStatuses
<1>4. ASSUME NEW a \in AttemptIds, NEW o \in Outcomes, CommitCapture(a, o)
      PROVE  Maps
  <2>1. attemptStatus[a] \notin {"absent", "requeued", "accepted"}
    BY <1>4 DEF CommitCapture, Committable
  <2>. QED  BY <1>4, <2>1, OpenStepMaps DEF CommitCapture, CaseStatuses
<1>5. ASSUME NEW a \in AttemptIds, CommitRetryable(a)
      PROVE  Maps
  <2>1. attemptStatus[a] \notin {"absent", "requeued", "accepted"}
    BY <1>5 DEF CommitRetryable, Committable
  <2>. QED  BY <1>5, <2>1, OpenStepMaps DEF CommitRetryable, CaseStatuses
<1>6. ASSUME NEW a \in AttemptIds, BlockAttempt(a) \/ BlockOrphanRow(a)
      PROVE  Maps
  <2>1. CASE Halt
    BY <2>1, StutterMaps DEF Halt
  <2>2. CASE BlockRow(a) /\ attemptStatus[a] \notin {"absent", "requeued", "accepted"}
    BY <2>2, OpenStepMaps DEF BlockRow, CaseStatuses
  <2>. QED  BY <1>6, <2>1, <2>2 DEF BlockAttempt, BlockOrphanRow
<1>7. ASSUME NEW a \in AttemptIds, NEW note \in BOOLEAN, RequeueRow(a, note)
      PROVE  Maps
  <2>1. attemptStatus[a] \notin {"absent", "requeued", "accepted"}
    BY <1>7 DEF RequeueRow, Requeueable
  <2>. QED  BY <1>7, <2>1, OpenStepMaps DEF RequeueRow, Requeueable, CaseStatuses
<1>8. CASE Halt \/ ClearHaltRow \/ UNCHANGED ledgerVars
  BY <1>8, StutterMaps DEF Halt, ClearHaltRow, ledgerVars
<1>. QED
  BY <1>1, <1>2, <1>3, <1>4, <1>5, <1>6, <1>7, <1>8 DEF LedgerNext

LEMMA InitMaps ==
    ASSUME LedgerInit PROVE Dispatch!DispatchInit
<1>1. \A c \in Cases : caseStatus[c] = "pending" /\ acceptedAttempt[c][2] = 0
  BY DEF LedgerInit, NoAttempt
<1>2. \A c \in Cases : CasePhase(c) = "waiting" /\ CaseHolder(c) = NoWorker
  BY <1>1, PhaseOf DEF CaseHolder
<1>. QED  BY <1>1, <1>2 DEF LedgerInit, Dispatch!DispatchInit

(* The ledger implements the abstract dispatch of cases, for any number of *)
(* cases, workers and attempts.                                            *)
THEOREM LedgerImplementsDispatch == LedgerSpec => ImplementsDispatch
BY InitMaps, StepMaps, LedgerInvariant, PTL
   DEF LedgerSpec, ImplementsDispatch, Dispatch!DispatchSpec
=============================================================================
