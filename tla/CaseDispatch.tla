----------------------------- MODULE CaseDispatch -----------------------------
(***************************************************************************)
(* What the shared case queue promises to a campaign, without attempts,    *)
(* leases, transactions or files: every case is worked on by one worker at *)
(* a time and every worker works on one case at a time; tries of a case    *)
(* follow each other; and once one try has completed the case, that try is *)
(* the completion of record and the case is never handed out again.        *)
(* CaseLedger is checked and proved to implement it.                       *)
(***************************************************************************)
EXTENDS Integers

CONSTANTS
    Cases,
    Workers,
    NoWorker,
    MaxTries    \* bound of the model: tries per case

VARIABLES
    phase,   \* of each case: waiting, held by a worker, parked for review, or done
    holder,  \* the worker that holds the case
    tries,   \* how often the case was handed out
    winner   \* the try that completed it, 0 if none has

dispatchVars == << phase, holder, tries, winner >>

DispatchInit ==
    /\ phase = [c \in Cases |-> "waiting"]
    /\ holder = [c \in Cases |-> NoWorker]
    /\ tries = [c \in Cases |-> 0]
    /\ winner = [c \in Cases |-> 0]

HandOut(w, c) ==
    /\ phase[c] = "waiting"
    /\ \A d \in Cases : holder[d] # w
    /\ tries[c] < MaxTries
    /\ phase' = [phase EXCEPT ![c] = "held"]
    /\ holder' = [holder EXCEPT ![c] = w]
    /\ tries' = [tries EXCEPT ![c] = @ + 1]
    /\ UNCHANGED winner

Leave(c, next) ==
    /\ phase[c] \in {"held", "parked"}
    /\ phase' = [phase EXCEPT ![c] = next]
    /\ holder' = [holder EXCEPT ![c] = NoWorker]
    /\ UNCHANGED tries

(* The try failed or cannot be trusted; the case waits for a decision.     *)
Park(c) == Leave(c, "parked") /\ UNCHANGED winner

(* The decision to try again.                                              *)
Reopen(c) == Leave(c, "waiting") /\ UNCHANGED winner

Complete(c) ==
    /\ Leave(c, "done")
    /\ winner' = [winner EXCEPT ![c] = tries[c]]

DispatchNext ==
    \E c \in Cases :
        \/ \E w \in Workers : HandOut(w, c)
        \/ Park(c)
        \/ Reopen(c)
        \/ Complete(c)

DispatchSpec == DispatchInit /\ [][DispatchNext]_dispatchVars
=============================================================================
