------------------------ MODULE LaunchGuardian_proofs ------------------------
(***************************************************************************)
(* The proof of death of LaunchGuardian is sound, for any set of attempts, *)
(* any interleaving of guardians, runners and kills, and any reboot.       *)
(***************************************************************************)
EXTENDS LaunchGuardian, TLAPS

(* The only two ways of the code to conclude that a runner has stopped: it *)
(* was never launched, or its guardian, dead since, attested the exit in   *)
(* this boot of the machine.                                               *)
LEMMA StoppedMeans ==
    ASSUME NEW a \in Attempts, LaunchTypeOK
    PROVE  RunnerStopped(a) <=>
             \/ launchState[a] = "unstarted"
             \/ launchState[a] = "exited" /\ ~GuardianAlive(a) /\ ~rebooted[a]
<1>1. launchState[a] \in LaunchStates
  BY DEF LaunchTypeOK
<1>2. CASE launchState[a] = "unstarted"
  <2>1. RunnerExecution(a) = "stopped"
    BY <1>2, Zenon DEF RunnerExecution
  <2>. QED  BY <2>1, <1>2 DEF RunnerStopped
<1>3. CASE launchState[a] = "intent"
  <2>1. RunnerExecution(a) = "unproven"
    BY <1>3, Zenon DEF RunnerExecution
  <2>. QED  BY <2>1, <1>3 DEF RunnerStopped
<1>4. CASE launchState[a] = "bound"
  <2>1. RunnerExecution(a) \in {"live", "unproven"}
    BY <1>4, Zenon DEF RunnerExecution
  <2>. QED  BY <2>1, <1>4 DEF RunnerStopped
<1>5. CASE launchState[a] = "exited"
  <2>1. CASE GuardianAlive(a)
    <3>1. RunnerExecution(a) = "live"
      BY <1>5, <2>1, Zenon DEF RunnerExecution
    <3>. QED  BY <3>1, <1>5, <2>1 DEF RunnerStopped
  <2>2. CASE ~GuardianAlive(a) /\ ~rebooted[a]
    <3>1. RunnerExecution(a) = "stopped"
      BY <1>5, <2>2, Zenon DEF RunnerExecution
    <3>. QED  BY <3>1, <1>5, <2>2 DEF RunnerStopped
  <2>3. CASE ~GuardianAlive(a) /\ rebooted[a]
    <3>1. RunnerExecution(a) = "unproven"
      BY <1>5, <2>3, Zenon DEF RunnerExecution
    <3>. QED  BY <3>1, <1>5, <2>3 DEF RunnerStopped
  <2>. QED  BY <2>1, <2>2, <2>3
<1>. QED  BY <1>1, <1>2, <1>3, <1>4, <1>5 DEF LaunchStates

(* The shape of the launch protocol is all that the soundness needs.       *)
LEMMA ShapeIsSound ==
    ASSUME LaunchTypeOK, LaunchShape
    PROVE  StoppedIsSound
<1>. SUFFICES ASSUME NEW a \in Attempts, RunnerStopped(a)
              PROVE  runner[a] # "live" /\ ~GuardianAlive(a)
  BY DEF StoppedIsSound
<1>1. CASE launchState[a] = "unstarted"
  BY <1>1 DEF LaunchShape, GuardianAlive
<1>2. CASE launchState[a] = "exited" /\ ~GuardianAlive(a)
  <2>1. runner[a] \in ExitCodes
    BY <1>2 DEF LaunchShape
  <2>. QED  BY <1>2, <2>1 DEF ExitCodes
<1>. QED  BY <1>1, <1>2, StoppedMeans

-----------------------------------------------------------------------------
LEMMA LaunchInitInv == LaunchInit => LaunchTypeOK /\ LaunchShape
BY DEF LaunchInit, LaunchTypeOK, LaunchShape, LaunchStates, GuardianStates,
       RunnerStates, ExitCodes

LEMMA LaunchStep ==
    ASSUME LaunchTypeOK, LaunchShape, [LaunchNext]_launchVars
    PROVE  LaunchTypeOK' /\ LaunchShape'
<1>. USE DEF LaunchTypeOK, LaunchShape, LaunchStates, GuardianStates, RunnerStates, ExitCodes
<1>1. ASSUME NEW a \in Attempts, BeginLaunch(a)
      PROVE  LaunchTypeOK' /\ LaunchShape'
  BY <1>1 DEF BeginLaunch
<1>2. ASSUME NEW a \in Attempts, SpawnGuardian(a)
      PROVE  LaunchTypeOK' /\ LaunchShape'
  BY <1>2 DEF SpawnGuardian
<1>3. ASSUME NEW a \in Attempts, BindRunner(a)
      PROVE  LaunchTypeOK' /\ LaunchShape'
  BY <1>3 DEF BindRunner
<1>4. ASSUME NEW a \in Attempts, BindReturns(a)
      PROVE  LaunchTypeOK' /\ LaunchShape'
  BY <1>4 DEF BindReturns
<1>5. ASSUME NEW a \in Attempts, StartRunner(a)
      PROVE  LaunchTypeOK' /\ LaunchShape'
  BY <1>5 DEF StartRunner
<1>6. ASSUME NEW a \in Attempts, RecordExit(a)
      PROVE  LaunchTypeOK' /\ LaunchShape'
  BY <1>6 DEF RecordExit
<1>7. ASSUME NEW a \in Attempts, GuardianExits(a)
      PROVE  LaunchTypeOK' /\ LaunchShape'
  BY <1>7 DEF GuardianExits
<1>8. ASSUME NEW a \in Attempts, NEW code \in ExitCodes, RunnerStops(a, code)
      PROVE  LaunchTypeOK' /\ LaunchShape'
  BY <1>8 DEF RunnerStops
<1>9. ASSUME NEW a \in Attempts, NEW code \in ExitCodes, GuardianDies(a, code)
      PROVE  LaunchTypeOK' /\ LaunchShape'
  BY <1>9 DEF GuardianDies, GuardianAlive
<1>10. CASE Reboot
  BY <1>10 DEF Reboot, GuardianAlive
<1>11. CASE UNCHANGED launchVars
  BY <1>11 DEF launchVars
<1>. QED
  BY <1>1, <1>2, <1>3, <1>4, <1>5, <1>6, <1>7, <1>8, <1>9, <1>10, <1>11 DEF LaunchNext

(* Whoever concludes that a runner has stopped, in the code's way, is      *)
(* right: neither the runner nor its guardian is there any more.           *)
THEOREM LaunchInvariant == LaunchSpec => []LaunchInv
<1>1. LaunchInit => LaunchTypeOK /\ LaunchShape
  BY LaunchInitInv
<1>2. (LaunchTypeOK /\ LaunchShape) /\ [LaunchNext]_launchVars
        => (LaunchTypeOK /\ LaunchShape)'
  BY LaunchStep
<1>3. LaunchTypeOK /\ LaunchShape => LaunchInv
  BY ShapeIsSound DEF LaunchInv
<1>. QED  BY <1>1, <1>2, <1>3, PTL DEF LaunchSpec

-----------------------------------------------------------------------------
(* A launched intent starts one runner, and an attempt whose runner was    *)
(* proved to have stopped never has a live process again: begin_launch,    *)
(* the binding and the launch each happen once.                            *)
LEMMA RunnerStep ==
    ASSUME LaunchTypeOK, LaunchShape, LaunchNext, NEW a \in Attempts
    PROVE  /\ runner[a] \in ExitCodes => runner'[a] = runner[a]
           /\ launchState[a] = "intent" /\ guardian[a] = "gone" => launchState'[a] = "intent"
           /\ launchState[a] = "exited" => launchState'[a] = "exited"
           /\ launchState[a] = "exited" /\ guardian[a] = "gone" => guardian'[a] = "gone"
<1>. USE DEF LaunchTypeOK, LaunchShape, ExitCodes
<1>1. ASSUME NEW b \in Attempts,
             \/ BeginLaunch(b) \/ SpawnGuardian(b) \/ BindRunner(b)
             \/ BindReturns(b) \/ StartRunner(b) \/ RecordExit(b) \/ GuardianExits(b)
      PROVE  /\ runner[a] \in ExitCodes => runner'[a] = runner[a]
             /\ launchState[a] = "intent" /\ guardian[a] = "gone" => launchState'[a] = "intent"
             /\ launchState[a] = "exited" => launchState'[a] = "exited"
             /\ launchState[a] = "exited" /\ guardian[a] = "gone" => guardian'[a] = "gone"
  BY <1>1 DEF BeginLaunch, SpawnGuardian, BindRunner, BindReturns, StartRunner,
              RecordExit, GuardianExits
<1>2. ASSUME NEW b \in Attempts, NEW code \in ExitCodes,
             RunnerStops(b, code) \/ GuardianDies(b, code)
      PROVE  /\ runner[a] \in ExitCodes => runner'[a] = runner[a]
             /\ launchState'[a] = launchState[a]
             /\ guardian[a] = "gone" => guardian'[a] = "gone"
  BY <1>2 DEF RunnerStops, GuardianDies, GuardianAlive
<1>3. CASE Reboot
  BY <1>3 DEF Reboot, GuardianAlive
<1>. QED  BY <1>1, <1>2, <1>3 DEF LaunchNext

(* An intent starts at most one runner: a runner that ended stays ended,   *)
(* and an intent whose guardian is gone is never bound, whatever crashes.  *)
THEOREM LaunchedOnce == LaunchSpec => OneRunnerPerIntent
<1>. DEFINE OnceStep ==
       \A a \in Attempts :
          /\ runner[a] \in ExitCodes => runner'[a] = runner[a]
          /\ launchState[a] = "intent" /\ guardian[a] = "gone" => launchState'[a] = "intent"
          /\ RunnerStopped(a) /\ launchState[a] = "exited" =>
                ~GuardianAlive(a)' /\ runner'[a] # "live"
<1>1. LaunchInv /\ LaunchInv' /\ [LaunchNext]_launchVars => [OnceStep]_launchVars
  <2>. SUFFICES ASSUME LaunchInv, LaunchInv', LaunchNext, NEW a \in Attempts
                PROVE  /\ runner[a] \in ExitCodes => runner'[a] = runner[a]
                       /\ launchState[a] = "intent" /\ guardian[a] = "gone"
                             => launchState'[a] = "intent"
                       /\ RunnerStopped(a) /\ launchState[a] = "exited" =>
                             ~GuardianAlive(a)' /\ runner'[a] # "live"
    OBVIOUS
  <2>1. /\ runner[a] \in ExitCodes => runner'[a] = runner[a]
        /\ launchState[a] = "intent" /\ guardian[a] = "gone" => launchState'[a] = "intent"
        /\ launchState[a] = "exited" => launchState'[a] = "exited"
        /\ launchState[a] = "exited" /\ guardian[a] = "gone" => guardian'[a] = "gone"
    BY RunnerStep DEF LaunchInv
  <2>2. ASSUME RunnerStopped(a), launchState[a] = "exited"
        PROVE  ~GuardianAlive(a)' /\ runner'[a] # "live"
    <3>1. ~GuardianAlive(a)
      BY <2>2 DEF LaunchInv, StoppedIsSound
    <3>2. guardian[a] = "gone" /\ runner[a] \in ExitCodes
      BY <2>2, <3>1 DEF LaunchInv, LaunchShape, GuardianAlive
    <3>. QED  BY <2>1, <2>2, <3>2 DEF GuardianAlive, ExitCodes
  <2>. QED  BY <2>1, <2>2
<1>2. LaunchSpec => []LaunchInv
  BY LaunchInvariant
<1>. QED  BY <1>1, <1>2, PTL DEF LaunchSpec, OneRunnerPerIntent
=============================================================================
