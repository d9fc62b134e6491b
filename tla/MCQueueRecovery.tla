--------------------------- MODULE MCQueueRecovery ---------------------------
(***************************************************************************)
(* QueueRecovery with the values of MCSharedCaseQueue.                     *)
(***************************************************************************)
EXTENDS QueueRecovery, MCSharedCaseQueue
=============================================================================
