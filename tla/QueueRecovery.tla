---------------------------- MODULE QueueRecovery ----------------------------
(***************************************************************************)
(* Recovery comes to an end: what an operator who keeps reconciling and    *)
(* resolving dead attempts achieves, after any number of interruptions of  *)
(* the campaign and of the recovery itself.                                *)
(***************************************************************************)
EXTENDS SharedCaseQueue

VARIABLE calm   \* from now on nothing interrupts the operator or the machine

recoveryVars == << vars, calm >>

RecoveryInit == Init /\ calm = FALSE

(* Supervisors, guardians and runners may be killed in calm times as well. *)
RecoveryNext ==
    \/ Uninterrupted /\ UNCHANGED calm
    \/ ~calm /\ Interruption /\ UNCHANGED calm
    \/ ~calm /\ calm' = TRUE /\ UNCHANGED vars

(* The operator reconciles and tries both resolutions again whenever they  *)
(* are possible; the attempt's lock comes and goes, hence SF.              *)
OperatorFairness ==
    \A a \in AttemptIds :
        /\ WF_vars(OperatorReconciles(a))
        /\ SF_vars(RecoverBegins(a, "accept"))
        /\ SF_vars(RecoverBegins(a, "retry"))

RecoverySpec ==
    RecoveryInit /\ [][RecoveryNext]_recoveryVars /\ Fairness /\ OperatorFairness

(* Recovery does not get stuck on what a crash left in the directory (a    *)
(* torn result, receipt or manifest, a seal without its commit): once the  *)
(* interruptions cease, an attempt proved dead is resolved and its worker  *)
(* is free again, unless a reboot takes the proof of death away first.     *)
DeadAttemptResolved ==
    <>calm => \A a \in AttemptIds : (Held(a) /\ Dead(a)) ~> (~Held(a) \/ rebooted[a])
=============================================================================
