-------------------------- MODULE AcquisitionMonitor --------------------------
(***************************************************************************)
(* The recurring monitor that keeps queue supervisors running              *)
(* (scripts/assignment/acquisition_monitor.py).  Every tick takes a lock,  *)
(* compares its state file with the launch records, the processes and the  *)
(* queue, pauses on anything it cannot explain, and otherwise launches a   *)
(* guard process for each idle worker.  The guard runs the supervisor and  *)
(* writes an exit receipt.  Monitor and guard both write the launch record *)
(* and take no lock for it.                                                *)
(***************************************************************************)
EXTENDS Naturals, FiniteSetsExt, Functions

CONSTANTS
    Workers,        \* worker_ids of the authorization
    Launches,       \* launch identifiers, numbered in the order they are drawn
    NoLaunch,
    MaxPerTick,     \* max_launches_per_tick
    AllowResume,    \* allow_resume_after_supervisor_exit
    StopsEarly,     \* the queue script may return 0 with cases left (supervise never does)
    Faults          \* subset of {"guard", "supervisor", "monitor", "reboot", "call"}

NoWorker == "nobody"

ASSUME MonitorAssumption ==
    /\ Launches \subseteq Nat
    /\ IsFiniteSet(Launches)
    /\ NoLaunch \notin Launches
    /\ NoWorker \notin Workers
    /\ MaxPerTick \in Nat \ {0}
    /\ AllowResume \in BOOLEAN /\ StopsEarly \in BOOLEAN

VARIABLES
    \* durable: launches/<id>.json, <id>.exit.json and monitor_state.json
    worker,      \* worker_id of a launch record, or the launch has no record yet
    record,      \* status of the launch record
    finished,    \* its finished_epoch_ns as a rank, 0 when the field is missing
    receipt,     \* the exit receipt: completed with returncode 0, or anything else
    entry,       \* monitor_state.json: the launch that supervisors[w] names
    \* the processes of a launch
    guard,
    supervisor,
    \* the tick that holds the lock
    phase,
    known,       \* its copy of the state
    snapshot,    \* the attempts its queue snapshot shows
    remaining,   \* the snapshot counts cases that are not accepted
    verdict,     \* what _classify_supervisors says of each worker
    todo,        \* workers it has still to look at
    mine,        \* the launch it is busy with
    launched,    \* number of launches of this tick
    latest,      \* the record was closed when it was read again
    \* the queue
    attempt,     \* the attempt that a worker holds
    pending      \* some case is not accepted

durable == << worker, record, finished, receipt, entry >>
processes == << guard, supervisor >>
tick == << phase, known, snapshot, remaining, verdict, todo, mine, launched, latest >>
queue == << attempt, pending >>
monitorVars == << durable, processes, tick, queue >>

RecordStates == {"absent", "spawn_intent", "spawned", "receipt_written"}
GuardStates == {"none", "started", "waiting", "reaped", "receipted", "closed", "gone"}
AttemptStates == {"none", "active", "orphaned"}
Phases == {"idle", "loaded", "merged", "queried", "choosing", "intended", "popened", "checked", "reread"}

MonitorTypeOK ==
    /\ worker \in [Launches -> Workers \cup {NoWorker}]
    /\ record \in [Launches -> RecordStates]
    /\ finished \in [Launches -> 0 .. Cardinality(Launches)]
    /\ receipt \in [Launches -> {"none", "ok", "failed"}]
    /\ guard \in [Launches -> GuardStates]
    /\ supervisor \in [Launches -> {"none", "live", "zero", "nonzero"}]
    /\ entry \in [Workers -> Launches \cup {NoLaunch}]
    /\ known \in [Workers -> Launches \cup {NoLaunch}]
    /\ phase \in Phases
    /\ snapshot \in [Workers -> AttemptStates]
    /\ remaining \in BOOLEAN
    /\ verdict \in [Workers -> {"none", "running", "exited_with_receipt_unverified"}]
    /\ todo \subseteq Workers
    /\ mine \in Launches \cup {NoLaunch}
    /\ launched \in 0 .. MaxPerTick
    /\ latest \in BOOLEAN
    /\ attempt \in [Workers -> AttemptStates]
    /\ pending \in BOOLEAN

Init ==
    /\ worker = [l \in Launches |-> NoWorker]
    /\ record = [l \in Launches |-> "absent"]
    /\ finished = [l \in Launches |-> 0]
    /\ receipt = [l \in Launches |-> "none"]
    /\ entry = [w \in Workers |-> NoLaunch]
    /\ guard = [l \in Launches |-> "none"]
    /\ supervisor = [l \in Launches |-> "none"]
    /\ phase = "idle"
    /\ known = [w \in Workers |-> NoLaunch]
    /\ snapshot = [w \in Workers |-> "none"]
    /\ remaining = FALSE
    /\ verdict = [w \in Workers |-> "none"]
    /\ todo = {}
    /\ mine = NoLaunch
    /\ launched = 0
    /\ latest = FALSE
    /\ attempt \in [Workers -> AttemptStates]
    /\ pending = TRUE

-----------------------------------------------------------------------------
GuardAlive(l) == guard[l] \notin {"none", "gone"}
Of(w) == {l \in Launches : worker[l] = w}

(* Mutant: a receipt does not close a record that a late parent reopened.  *)
ClosedByStatus(l) == record[l] = "receipt_written"

(* Mutant: a launch whose guard has died is finished, receipt or not.      *)
ClosedByDeadGuard(l) ==
    record[l] = "receipt_written" \/ (record[l] = "spawned" /\ ~GuardAlive(l))

(* What _merge_launch_records makes of a record: closed by its status, or  *)
(* by a receipt when the status is still "spawned".                        *)
Closed(l) == record[l] = "receipt_written" \/ (record[l] = "spawned" /\ receipt[l] # "none")
Active(l) == record[l] # "absent" /\ ~Closed(l)

(* The closed record that _merge_launch_records sorts last; records that   *)
(* lost finished_epoch_ns are sorted by their random identifiers.          *)
NewestClosed(w, l) ==
    /\ l \in Of(w) /\ Closed(l)
    /\ \A k \in Of(w) : Closed(k) => finished[k] <= finished[l]

(* The failures of _merge_launch_records: two unfinished launches, one     *)
(* whose child is not durably known, one the state file does not name.     *)
MergeFails ==
    \E w \in Workers :
        \/ Cardinality({l \in Of(w) : Active(l)}) > 1
        \/ \E l \in Of(w) : Active(l) /\ record[l] = "spawn_intent"
        \/ \E l \in Of(w) : Active(l) /\ known[w] \notin {NoLaunch, l}

(* Mutant: goes by the state file alone.                                   *)
MergedByState(w, l) == l = known[w]

(* The unfinished launch is adopted, else the newest closed one where the  *)
(* state has no entry.                                                     *)
Merged(w, l) ==
    \/ l \in Of(w) /\ Active(l)
    \/ /\ \A k \in Of(w) : ~Active(k)
       /\ IF known[w] = NoLaunch /\ \E k \in Of(w) : Closed(k)
          THEN NewestClosed(w, l)
          ELSE l = known[w]

(* Mutant: a supervisor whose guard is gone has ended.                     *)
VerdictOfGuard(l) ==
    IF l = NoLaunch THEN "none"
    ELSE IF GuardAlive(l) THEN "running"
    ELSE "exited_with_receipt_unverified"

(* What _classify_supervisors reads about a known launch: the PID's start  *)
(* identity first, then the receipt.  A zombie counts as absent.           *)
Verdict(l) ==
    IF l = NoLaunch THEN "none"
    ELSE IF GuardAlive(l) THEN "running"
    ELSE IF receipt[l] = "ok" THEN "exited_with_receipt_unverified"
    ELSE "failure"

(* Mutant: a vanished supervisor is noted but not taken for a failure.     *)
ClassifyFailsOnQueue ==
    \E w \in Workers :
        \/ snapshot[w] # "none" /\ known[w] = NoLaunch
        \/ snapshot[w] = "orphaned"

ClassifyFails ==
    \E w \in Workers :
        \/ Verdict(known[w]) = "failure"
        \/ snapshot[w] # "none" /\ known[w] = NoLaunch
        \/ snapshot[w] = "orphaned"

-----------------------------------------------------------------------------
(* The tick.                                                               *)

(* The end of a tick without writing the state: an exception, a halted or  *)
(* finished queue, a failure of the merge, or the death of the monitor.    *)
Forget ==
    /\ phase' = "idle"
    /\ known' = [w \in Workers |-> NoLaunch]
    /\ snapshot' = [w \in Workers |-> "none"]
    /\ remaining' = FALSE
    /\ verdict' = [w \in Workers |-> "none"]
    /\ todo' = {} /\ mine' = NoLaunch /\ launched' = 0 /\ latest' = FALSE

(* main takes the lock; run_once loads the state.                          *)
TickBegins ==
    /\ phase = "idle"
    /\ phase' = "loaded"
    /\ known' = entry
    /\ UNCHANGED << durable, processes, queue, snapshot, remaining, verdict, todo, mine, launched, latest >>

TickMerges ==
    /\ phase = "loaded"
    /\ ~MergeFails
    /\ \E names \in [Workers -> Launches \cup {NoLaunch}] :
          /\ \A w \in Workers : Merged(w, names[w])
          /\ known' = names
    /\ phase' = "merged"
    /\ UNCHANGED << durable, processes, queue, snapshot, remaining, verdict, todo, mine, launched, latest >>

TickQueries ==
    /\ phase = "merged"
    /\ phase' = "queried"
    /\ snapshot' = attempt
    /\ remaining' = pending
    /\ UNCHANGED << durable, processes, queue, known, verdict, todo, mine, launched, latest >>

(* Pausing on a failure or, as long as nothing has been found wrong, on    *)
(* a gate of the queue or of the authorization.                            *)
TickPauses ==
    \/ phase = "loaded" /\ MergeFails /\ Forget /\ UNCHANGED << durable, processes, queue >>
    \/ /\ phase = "queried" /\ ClassifyFails
       /\ entry' = known
       /\ Forget /\ UNCHANGED << worker, record, finished, receipt, processes, queue >>
    \/ /\ phase \in {"merged", "queried"}
       /\ phase = "queried" => ~ClassifyFails
       /\ Forget /\ UNCHANGED << durable, processes, queue >>

(* Everything is explained and execution is authorized.                    *)
TickClassifies ==
    /\ phase = "queried"
    /\ ~ClassifyFails
    /\ remaining
    /\ verdict' = [w \in Workers |-> Verdict(known[w])]
    /\ todo' = Workers
    /\ phase' = "choosing"
    /\ UNCHANGED << durable, processes, queue, known, snapshot, remaining, mine, launched, latest >>

Launchable(w) ==
    /\ verdict[w] # "running"
    /\ snapshot[w] = "none"
    /\ known[w] # NoLaunch => AllowResume /\ verdict[w] = "exited_with_receipt_unverified"

(* A worker that is not registered, or not enabled, is passed over too.    *)
TickSkips(w) ==
    /\ phase = "choosing"
    /\ w \in todo
    /\ todo' = todo \ {w}
    /\ UNCHANGED << durable, processes, queue, phase, known, snapshot, remaining, verdict, mine, launched, latest >>

(* _spawn_supervisor: the intent is durable...                             *)
RecordIntent(w, l) ==
    /\ phase = "choosing"
    /\ w \in todo
    /\ Launchable(w)
    /\ launched < MaxPerTick
    /\ NoWorker \in Range(worker)
    /\ l = Min({k \in Launches : worker[k] = NoWorker})
    /\ worker' = [worker EXCEPT ![l] = w]
    /\ record' = [record EXCEPT ![l] = "spawn_intent"]
    /\ mine' = l
    /\ phase' = "intended"
    /\ UNCHANGED << finished, receipt, entry, processes, queue, known, snapshot, remaining, verdict, todo, launched, latest >>

(* ...before Popen...                                                      *)
SpawnGuard ==
    /\ phase = "intended"
    /\ guard' = [guard EXCEPT ![mine] = "started"]
    /\ phase' = "popened"
    /\ UNCHANGED << durable, supervisor, queue, known, snapshot, remaining, verdict, todo, mine, launched, latest >>

(* ...whose child must be alive, or the tick raises and forgets it...      *)
CheckIdentity ==
    /\ phase = "popened"
    /\ \/ /\ GuardAlive(mine)
          /\ phase' = "checked"
          /\ UNCHANGED << known, snapshot, remaining, verdict, todo, mine, launched, latest >>
       \/ ~GuardAlive(mine) /\ Forget
    /\ UNCHANGED << durable, processes, queue >>

(* ...then the record is read once more...                                 *)
RereadRecord ==
    /\ phase = "checked"
    /\ latest' = (record[mine] = "receipt_written")
    /\ phase' = "reread"
    /\ UNCHANGED << durable, processes, queue, known, snapshot, remaining, verdict, todo, mine, launched >>

(* ...and written with the identity of the child, unless it was closed     *)
(* when read.  The guard may have closed it since, which this overwrites:  *)
(* the copy that is written has no finished_epoch_ns.                      *)
PublishIdentity ==
    /\ phase = "reread"
    /\ IF latest
       THEN UNCHANGED << record, finished >>
       ELSE /\ record' = [record EXCEPT ![mine] = "spawned"]
            /\ finished' = [finished EXCEPT ![mine] = 0]
    /\ known' = [known EXCEPT ![worker[mine]] = mine]
    /\ todo' = todo \ {worker[mine]}
    /\ mine' = NoLaunch
    /\ launched' = launched + 1
    /\ latest' = FALSE
    /\ phase' = "choosing"
    /\ UNCHANGED << worker, receipt, entry, processes, queue, snapshot, remaining, verdict >>

(* The state is written once, after the last launch.                       *)
TickSaves ==
    /\ phase = "choosing"
    /\ todo = {} \/ launched = MaxPerTick
    /\ entry' = known
    /\ Forget
    /\ UNCHANGED << worker, record, finished, receipt, processes, queue >>

TickNext ==
    \/ TickBegins \/ TickMerges \/ TickQueries \/ TickPauses \/ TickClassifies
    \/ \E w \in Workers : TickSkips(w) \/ \E l \in Launches : RecordIntent(w, l)
    \/ SpawnGuard \/ CheckIdentity \/ RereadRecord \/ PublishIdentity \/ TickSaves

-----------------------------------------------------------------------------
(* The guard, supervisor_child, and the supervisor it calls.               *)

GuardCalls(l) ==
    /\ guard[l] = "started"
    /\ guard' = [guard EXCEPT ![l] = "waiting"]
    /\ supervisor' = [supervisor EXCEPT ![l] = "live"]
    /\ UNCHANGED << durable, tick, queue >>

(* subprocess.call raises: the receipt says completed FALSE, 125.          *)
GuardCallRaises(l) ==
    /\ "call" \in Faults
    /\ guard[l] = "started"
    /\ guard' = [guard EXCEPT ![l] = "reaped"]
    /\ UNCHANGED << durable, supervisor, tick, queue >>

GuardReaps(l) ==
    /\ guard[l] = "waiting"
    /\ supervisor[l] \in {"zero", "nonzero"}
    /\ guard' = [guard EXCEPT ![l] = "reaped"]
    /\ UNCHANGED << durable, supervisor, tick, queue >>

(* Mutant: waits for the monitor to publish the identity of the guard.     *)
WritesReceiptWhenSpawned(l) ==
    /\ guard[l] = "reaped"
    /\ record[l] = "spawned"
    /\ guard' = [guard EXCEPT ![l] = "receipted"]
    /\ receipt' = [receipt EXCEPT ![l] = IF supervisor[l] = "zero" THEN "ok" ELSE "failed"]
    /\ UNCHANGED << worker, record, finished, entry, supervisor, tick, queue >>

GuardWritesReceipt(l) ==
    /\ guard[l] = "reaped"
    /\ guard' = [guard EXCEPT ![l] = "receipted"]
    /\ receipt' = [receipt EXCEPT ![l] = IF supervisor[l] = "zero" THEN "ok" ELSE "failed"]
    /\ UNCHANGED << worker, record, finished, entry, supervisor, tick, queue >>

(* The rank of this end among the ends so far.                             *)
GuardClosesRecord(l) ==
    /\ guard[l] = "receipted"
    /\ guard' = [guard EXCEPT ![l] = "closed"]
    /\ record' = [record EXCEPT ![l] = "receipt_written"]
    /\ finished' = [finished EXCEPT ![l] = 1 + Max({finished[k] : k \in Launches})]
    /\ UNCHANGED << worker, receipt, entry, supervisor, tick, queue >>

GuardExits(l) ==
    /\ guard[l] = "closed"
    /\ guard' = [guard EXCEPT ![l] = "gone"]
    /\ UNCHANGED << durable, supervisor, tick, queue >>

(* The supervisor claims and settles attempts of its worker, and returns 0 *)
(* only when every case is accepted; any other end is a failure, which may *)
(* leave an attempt behind.                                                *)
PendingWithout(w) ==
    IF \E v \in Workers \ {w} : attempt[v] # "none" THEN {pending} ELSE {pending, FALSE}

SupervisorClaims(l) ==
    /\ supervisor[l] = "live"
    /\ attempt[worker[l]] = "none"
    /\ pending
    /\ attempt' = [attempt EXCEPT ![worker[l]] = "active"]
    /\ UNCHANGED << durable, processes, tick, pending >>

SupervisorSettles(l) ==
    /\ supervisor[l] = "live"
    /\ attempt[worker[l]] = "active"
    /\ attempt' = [attempt EXCEPT ![worker[l]] = "none"]
    /\ pending' \in PendingWithout(worker[l])
    /\ UNCHANGED << durable, processes, tick >>

SupervisorReturns(l) ==
    /\ supervisor[l] = "live"
    /\ attempt[worker[l]] = "none"
    /\ ~pending \/ StopsEarly
    /\ supervisor' = [supervisor EXCEPT ![l] = "zero"]
    /\ UNCHANGED << durable, guard, tick, queue >>

SupervisorFails(l) ==
    /\ "supervisor" \in Faults
    /\ supervisor[l] = "live"
    /\ supervisor' = [supervisor EXCEPT ![l] = "nonzero"]
    /\ UNCHANGED << durable, guard, tick, queue >>

GuardNext(l) ==
    \/ GuardCalls(l) \/ GuardReaps(l) \/ GuardWritesReceipt(l)
    \/ GuardClosesRecord(l) \/ GuardExits(l)

SupervisorNext(l) ==
    \/ SupervisorClaims(l) \/ SupervisorSettles(l)
    \/ SupervisorReturns(l) \/ SupervisorFails(l)

(* Another supervisor, or an operator, acts on an attempt that was left.   *)
AttemptReconciled(w) ==
    /\ attempt[w] # "none"
    /\ \A l \in Of(w) : supervisor[l] # "live"
    /\ \/ /\ attempt[w] = "active"
          /\ attempt' = [attempt EXCEPT ![w] = "orphaned"]
          /\ UNCHANGED pending
       \/ /\ attempt' = [attempt EXCEPT ![w] = "none"]
          /\ pending' \in PendingWithout(w)
    /\ UNCHANGED << durable, processes, tick >>

-----------------------------------------------------------------------------
(* The guard is killed.  The supervisor has a session of its own.          *)
GuardKilled(l) ==
    /\ "guard" \in Faults
    /\ GuardAlive(l)
    /\ guard' = [guard EXCEPT ![l] = "gone"]
    /\ UNCHANGED << durable, supervisor, tick, queue >>

(* The monitor dies with its lock, or the tick raises.                     *)
MonitorDies ==
    /\ "monitor" \in Faults
    /\ phase # "idle"
    /\ Forget
    /\ UNCHANGED << durable, processes, queue >>

MachineReboots ==
    /\ "reboot" \in Faults
    /\ guard' = [l \in Launches |-> IF guard[l] = "none" THEN "none" ELSE "gone"]
    /\ supervisor' = [l \in Launches |-> IF supervisor[l] = "live" THEN "nonzero" ELSE supervisor[l]]
    /\ Forget
    /\ UNCHANGED << durable, queue >>

Next ==
    \/ TickNext
    \/ \E l \in Launches :
          GuardNext(l) \/ SupervisorNext(l) \/ GuardCallRaises(l) \/ GuardKilled(l)
    \/ \E w \in Workers : AttemptReconciled(w)
    \/ MonitorDies
    \/ MachineReboots

Spec == Init /\ [][Next]_monitorVars

(* Guards and ticks keep running, cron starts ticks, supervisors end.      *)
Fairness ==
    /\ WF_monitorVars(TickNext)
    /\ \A l \in Launches :
          /\ WF_monitorVars(GuardNext(l))
          /\ WF_monitorVars(SupervisorReturns(l) \/ SupervisorFails(l))

FairSpec == Spec /\ Fairness

-----------------------------------------------------------------------------
(* The documentation's "must not launch duplicate/overlapping work": a     *)
(* worker never has two supervisors, although the guards that would say    *)
(* so can be killed while their supervisors live on, the monitor dies      *)
(* between Popen and the record, and the record is written by two.         *)
OneSupervisorPerWorker ==
    \A k, l \in Launches :
        supervisor[k] = "live" /\ supervisor[l] = "live" /\ worker[k] = worker[l] => k = l

(* A tick that has found nothing wrong really knows of everything that     *)
(* runs: no supervisor is alive that its state does not name.              *)
NothingRunsUnknown ==
    phase \notin {"idle", "loaded"} =>
        \A l \in Launches :
            supervisor[l] = "live" => l \in {mine, known[worker[l]]}

(* A launch is for a worker that is free: the queue shows no attempt of    *)
(* it now, not only in the snapshot the tick took before it looked at the  *)
(* processes, and no supervisor of an earlier launch is left.              *)
LaunchesOnFreeWorkers ==
    [][\A l \in Launches :
          worker[l] = NoWorker /\ worker'[l] # NoWorker =>
              /\ attempt[worker'[l]] = "none"
              /\ \A k \in Of(worker'[l]) : supervisor[k] # "live" /\ receipt[k] # "none"
      ]_monitorVars

(* The monitor's late write never undoes the guard's: a launch that ticks  *)
(* count as finished is never counted as unfinished again.                 *)
ClosedStaysClosed == [][\A l \in Launches : Closed(l) => Closed(l)']_monitorVars

(* "must never be retried by a recurring monitor tick" (662-665): once a   *)
(* supervisor of a worker has ended unsuccessfully, no tick launches       *)
(* another one for it.                                                     *)
FailureIsNotRetried ==
    [][\A l \in Launches :
          worker[l] = NoWorker /\ worker'[l] # NoWorker =>
              \A k \in Of(worker'[l]) : receipt[k] # "failed"
      ]_monitorVars

(* A tick that dies between Popen and the record blocks the worker only as *)
(* long as the child lives: unless somebody kills the guard, its launch is *)
(* finished in the end and the ticks stop pausing on it.                   *)
UnfinishedLaunchEnds ==
    \A l \in Launches :
        Active(l) /\ GuardAlive(l) ~>
            \/ Closed(l)
            \/ guard[l] = "gone" /\ (receipt[l] = "none" \/ record[l] = "spawn_intent")
=============================================================================
