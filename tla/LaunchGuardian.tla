---------------------------- MODULE LaunchGuardian ----------------------------
(***************************************************************************)
(* The launch protocol of one attempt: the launch_state column, the        *)
(* guardian process (_launch_child) that binds itself to the attempt,      *)
(* starts the case runner, reaps it with every descendant and attests the  *)
(* exit, and the proof by which everybody else decides that the runner has *)
(* stopped (_runner_execution_state).                                      *)
(*                                                                         *)
(* "runner" stands for the runner with all its local descendants: it is    *)
(* live as long as one of them is.                                         *)
(***************************************************************************)
CONSTANT Attempts

VARIABLES
    launchState,  \* attempts.launch_state
    guardian,     \* the guardian process
    runner,       \* the runner and its descendants, with the exit code once gone
    rebooted      \* the machine was rebooted after the guardian bound itself

launchVars == << launchState, guardian, runner, rebooted >>

LaunchStates == {"unstarted", "intent", "bound", "exited"}
GuardianStates == {"none", "spawned", "binding", "bound", "waiting", "recorded", "gone"}
ExitCodes == {"zero", "nonzero"}
RunnerStates == {"none", "live"} \cup ExitCodes

LaunchTypeOK ==
    /\ launchState \in [Attempts -> LaunchStates]
    /\ guardian \in [Attempts -> GuardianStates]
    /\ runner \in [Attempts -> RunnerStates]
    /\ rebooted \in [Attempts -> BOOLEAN]

LaunchInit ==
    /\ launchState = [a \in Attempts |-> "unstarted"]
    /\ guardian = [a \in Attempts |-> "none"]
    /\ runner = [a \in Attempts |-> "none"]
    /\ rebooted = [a \in Attempts |-> FALSE]

-----------------------------------------------------------------------------
GuardianAlive(a) == guardian[a] \notin {"none", "gone"}

(* The recorded exit code; the receipt copies it from the reaped child.    *)
Receipt(a) == IF launchState[a] = "exited" THEN runner[a] ELSE "none"

(* Mutant: takes a dead guardian for a stopped runner.                     *)
GuardianExecution(a) ==
    CASE launchState[a] = "unstarted" -> "stopped"
      [] launchState[a] = "intent" -> "unproven"
      [] OTHER -> IF GuardianAlive(a) THEN "live" ELSE "stopped"

(* _runner_execution_state: FALSE, TRUE and None of the code.  A receipt   *)
(* proves nothing while its guardian lives or after a reboot, and a dead   *)
(* guardian without one proves nothing either.                             *)
RunnerExecution(a) ==
    CASE launchState[a] = "unstarted" -> "stopped"
      [] launchState[a] = "intent" -> "unproven"
      [] launchState[a] \in {"bound", "exited"} /\ GuardianAlive(a) -> "live"
      [] launchState[a] = "exited" /\ ~GuardianAlive(a) /\ ~rebooted[a] -> "stopped"
      [] OTHER -> "unproven"

RunnerStopped(a) == RunnerExecution(a) = "stopped"

(* begin_launch: the uncertainty is durable before Popen.                  *)
BeginLaunch(a) ==
    /\ launchState[a] = "unstarted"
    /\ launchState' = [launchState EXCEPT ![a] = "intent"]
    /\ UNCHANGED << guardian, runner, rebooted >>

(* The supervisor's Popen of the guardian in a session of its own.         *)
SpawnGuardian(a) ==
    /\ launchState[a] = "intent"
    /\ guardian[a] = "none"
    /\ guardian' = [guardian EXCEPT ![a] = "spawned"]
    /\ UNCHANGED << launchState, runner, rebooted >>

(* bind_runner_pid: the transaction that consumes the intent...            *)
BindRunner(a) ==
    /\ guardian[a] = "spawned"
    /\ launchState[a] = "intent"
    /\ launchState' = [launchState EXCEPT ![a] = "bound"]
    /\ guardian' = [guardian EXCEPT ![a] = "binding"]
    /\ UNCHANGED << runner, rebooted >>

(* ...and the return from it, once lease.json names the guardian.          *)
BindReturns(a) ==
    /\ guardian[a] = "binding"
    /\ guardian' = [guardian EXCEPT ![a] = "bound"]
    /\ UNCHANGED << launchState, runner, rebooted >>

StartRunner(a) ==
    /\ guardian[a] = "bound"
    /\ guardian' = [guardian EXCEPT ![a] = "waiting"]
    /\ runner' = [runner EXCEPT ![a] = "live"]
    /\ UNCHANGED << launchState, rebooted >>

RunnerStops(a, code) ==
    /\ runner[a] = "live"
    /\ runner' = [runner EXCEPT ![a] = code]
    /\ UNCHANGED << launchState, guardian, rebooted >>

(* Mutant: records the exit of the child while a descendant still runs.    *)
RecordChildExit(a) ==
    /\ guardian[a] = "waiting"
    /\ launchState[a] = "bound"
    /\ launchState' = [launchState EXCEPT ![a] = "exited"]
    /\ guardian' = [guardian EXCEPT ![a] = "recorded"]
    /\ UNCHANGED << runner, rebooted >>

(* record_runner_exit, after wait() and the loop that reaps descendants.   *)
RecordExit(a) ==
    /\ guardian[a] = "waiting"
    /\ launchState[a] = "bound"
    /\ runner[a] \in ExitCodes
    /\ launchState' = [launchState EXCEPT ![a] = "exited"]
    /\ guardian' = [guardian EXCEPT ![a] = "recorded"]
    /\ UNCHANGED << runner, rebooted >>

GuardianExits(a) ==
    /\ guardian[a] = "recorded"
    /\ guardian' = [guardian EXCEPT ![a] = "gone"]
    /\ UNCHANGED << launchState, runner, rebooted >>

(* The guardian raises before its child runs, or cannot prove the session  *)
(* empty; or somebody kills its process group, which may or may not take   *)
(* the runner with it.                                                     *)
GuardianDies(a, code) ==
    /\ GuardianAlive(a)
    /\ guardian' = [guardian EXCEPT ![a] = "gone"]
    /\ \/ UNCHANGED runner
       \/ /\ runner[a] = "live"
          /\ runner' = [runner EXCEPT ![a] = code]
    /\ UNCHANGED << launchState, rebooted >>

(* A reboot ends every local process; the recorded boot id is now another. *)
Reboot ==
    /\ guardian' = [a \in Attempts |-> IF GuardianAlive(a) THEN "gone" ELSE guardian[a]]
    /\ runner' = [a \in Attempts |-> IF runner[a] = "live" THEN "nonzero" ELSE runner[a]]
    /\ rebooted' = [a \in Attempts |-> rebooted[a] \/ launchState[a] \in {"bound", "exited"}]
    /\ UNCHANGED launchState

LaunchNext ==
    \/ \E a \in Attempts :
          \/ BeginLaunch(a)
          \/ SpawnGuardian(a)
          \/ BindRunner(a)
          \/ BindReturns(a)
          \/ StartRunner(a)
          \/ RecordExit(a)
          \/ GuardianExits(a)
          \/ \E code \in ExitCodes : RunnerStops(a, code) \/ GuardianDies(a, code)
    \/ Reboot

LaunchSpec == LaunchInit /\ [][LaunchNext]_launchVars

-----------------------------------------------------------------------------
(* The proof of death is sound: whoever concludes that the runner stopped  *)
(* is never looking at a guardian or a runner that is still there, however *)
(* processes are killed and whenever the machine is rebooted.              *)
StoppedIsSound ==
    \A a \in Attempts :
        RunnerStopped(a) => runner[a] # "live" /\ ~GuardianAlive(a)

(* The strengthening that makes it inductive: a process exists only in     *)
(* the launch states that its own steps have reached.                      *)
LaunchShape ==
    \A a \in Attempts :
        /\ launchState[a] = "unstarted" => guardian[a] = "none"
        /\ launchState[a] = "intent" => guardian[a] \in {"none", "spawned", "gone"}
        /\ guardian[a] \in {"binding", "bound", "waiting"} => launchState[a] = "bound"
        /\ guardian[a] = "recorded" => launchState[a] = "exited"
        /\ guardian[a] \in {"none", "spawned", "binding", "bound"} => runner[a] = "none"
        /\ launchState[a] \in {"unstarted", "intent"} => runner[a] = "none"
        /\ launchState[a] = "exited" => runner[a] \in ExitCodes
        /\ launchState[a] \in {"bound", "exited"} => guardian[a] \notin {"none", "spawned"}

LaunchInv ==
    /\ LaunchTypeOK
    /\ LaunchShape
    /\ StoppedIsSound

(* One intent starts one runner: once the attempt is past its intent no    *)
(* guardian binds again, and a runner that stopped never comes back.       *)
OneRunnerPerIntent ==
    [][\A a \in Attempts :
          /\ runner[a] \in ExitCodes => runner'[a] = runner[a]
          /\ launchState[a] = "intent" /\ guardian[a] = "gone" => launchState'[a] = "intent"
          /\ RunnerStopped(a) /\ launchState[a] = "exited" =>
                ~GuardianAlive(a)' /\ runner'[a] # "live"
      ]_launchVars
=============================================================================
