------------------------------ MODULE EventOrder ------------------------------
(***************************************************************************)
(* What the adaptive protocol promises about a held-out trajectory: an     *)
(* event is predicted before its label is known, one event at a time, and  *)
(* nothing is predicted or labelled once the trajectory's own label is     *)
(* known.                                                                  *)
(***************************************************************************)
CONSTANT Events

VARIABLES
    stage,     \* of each event
    revealed   \* the label of the trajectory is known

eventVars == << stage, revealed >>

EventOrderInit ==
    /\ stage = [e \in Events |-> "open"]
    /\ revealed = FALSE

Quiet == \A e \in Events : stage[e] # "predicted"

Predict(e) ==
    /\ ~revealed /\ Quiet
    /\ stage[e] = "open"
    /\ stage' = [stage EXCEPT ![e] = "predicted"]
    /\ UNCHANGED revealed

Label(e) ==
    /\ ~revealed
    /\ stage[e] = "predicted"
    /\ stage' = [stage EXCEPT ![e] = "labelled"]
    /\ UNCHANGED revealed

RevealTrajectory ==
    /\ ~revealed /\ Quiet
    /\ \E e \in Events : stage[e] = "labelled"
    /\ revealed' = TRUE
    /\ UNCHANGED stage

EventOrderNext ==
    \/ \E e \in Events : Predict(e) \/ Label(e)
    \/ RevealTrajectory

EventOrderSpec == EventOrderInit /\ [][EventOrderNext]_eventVars
=============================================================================
