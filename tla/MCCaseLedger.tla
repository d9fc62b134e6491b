---------------------------- MODULE MCCaseLedger ----------------------------
(***************************************************************************)
(* Values for the constants of CaseLedger.  The ledger alone lets any      *)
(* transaction follow any other, so two cases, two workers and two         *)
(* attempts already reach every mixture of row states.                     *)
(***************************************************************************)
EXTENDS CaseLedger

CONSTANTS w1, w2

TwoWorkers == {w1, w2}
=============================================================================
