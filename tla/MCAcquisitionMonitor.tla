------------------------ MODULE MCAcquisitionMonitor ------------------------
(***************************************************************************)
(* AcquisitionMonitor with numbered launches.                              *)
(***************************************************************************)
EXTENDS AcquisitionMonitor

CONSTANT w1

OneWorker == {w1}
ThreeLaunches == 1 .. 3
Nobody == 0
=============================================================================
