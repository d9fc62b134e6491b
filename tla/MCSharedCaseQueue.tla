-------------------------- MODULE MCSharedCaseQueue --------------------------
(***************************************************************************)
(* Values for the constants of SharedCaseQueue.                            *)
(***************************************************************************)
EXTENDS SharedCaseQueue, TLC

CONSTANTS w1, w2, s1, s2

OneWorker == {w1}
OneSupervisor == {s1}
TwoWorkers == {w1, w2}
TwoSupervisors == {s1, s2}
OneEach == s1 :> w1 @@ s2 :> w2      \* one supervisor for each worker
BothOnOne == s1 :> w1 @@ s2 :> w1    \* two supervisors started for one worker
JustOne == s1 :> w1
=============================================================================
