-------------------------- MODULE MCAdaptiveHoldout --------------------------
(***************************************************************************)
(* AdaptiveHoldout with two requests and one or two tool actions.          *)
(***************************************************************************)
EXTENDS AdaptiveHoldout

CONSTANTS q1, q2, t1, t2

TwoRequests == {q1, q2}
OneTool == {t1}
TwoTools == {t1, t2}
OneToolOrder == << t1 >>
TwoToolOrder == << t1, t2 >>
=============================================================================
