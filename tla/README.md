# The control layer of the workload simulator in TLA+

A verification development of the agentic workload simulator. It models the part
of the repository that must stay right while processes and whole machines die
under it: the queue that decides which machine runs which benchmark case
(`scripts/assignment/shared_case_queue.py`), the monitor that keeps the queue's
supervisors running (`acquisition_monitor.py`, beside it), the journal in which predictions are
recorded before the labels they are scored on (`adaptive_event_protocol.py`,
with the request proxy and the agent runner that share it), and the supervision of
one workload's processes (`src/agentic_sim/runners/case_lifecycle.py`). They are read with
their documentation under `docs/` and their tests.

Line numbers are those of `scripts/assignment/shared_case_queue.py` unless a file is
named.

## 1. Inventory of the system

The repository measures agents that solve software-engineering cases against
model servers, and fits simulators to the measurements. Measuring takes days on
rented GPUs, so a plan of cases is worked off by several machines ("workers",
each with an endpoint of its own) under a control layer that may never run a
case twice behind its own back, lose its evidence, or put two runs on one
endpoint.

### The shared case queue (modelled)

| part | state | operations | talks to |
|---|---|---|---|
| ledger | SQLite rows: `cases.status, attempt_count, accepted_attempt_id`; `attempts.status, worker_id, outcome_json`; `meta.dispatch_halted` | `claim_case`, `reconcile`, `_commit_prepared`, `_block_attempt`, `retry_attempt`, `clear_halt`, each one `BEGIN IMMEDIATE` transaction | every caller, through SQLite's write lock |
| launch guardian | `attempts.launch_state, runner_pid, runner_boot_id, runner_exit_json`, the process itself and its session | `begin_launch`, `_launch_child`, `bind_runner_pid`, `record_runner_exit`, `_runner_execution_state` | spawned by the supervisor; runs the case runner; adopts and reaps what that leaves behind |
| evidence | `case_result.json`, `queue_failure.json`, `lease.json` and `artifact_manifest.json`, each with a `.sha256` sidecar, file first and sidecar second; the owner's `supervisor_command.json` and `process_exit.json` | `_update_lease_file`, `_prepare_result`, `_write_artifact_manifest`, `_verify_sidecar` | written by runner, owner, guardian and operators |
| completion and recovery | an `flock` per attempt directory | `finish_attempt`, `fail_attempt`, `reconcile`, `reconcile_orphan` (inspect, accept, retry), `retry_attempt`, `clear_halt`, `audit_coverage` | owner and operators compete for the lock |
| supervisor | its place in the loop, the attempt it owns, its deadline | `supervise`: reconcile, claim, launch, watch with heartbeats, collect, finish or fail, retry within the budget, or give up | ledger, guardian, evidence |
| dispatch gates | fingerprints, storage policy, worker bindings | checked in `claim_case` and `clear_halt` | halt dispatch, disable workers |
| creation, import, registration | `workers`, `observers`, confirmation rows | `create`, `import_confirmation`, `register_worker`, `register_observer`, `bind_*` | run before dispatch |

What is hard here: five kinds of process and a person act on the same rows
and files; one operation spans two or three transactions and three or four
files, any of which a kill may separate; the lock is held by completions but not
by `begin_launch` (2150) or by the owner's `process_exit.json` (3347); a PID
means nothing after a reboot; and the only thing between a second claim and two
runs on one endpoint is the judgement that everything the first attempt
started is dead.

What makes it correct, part by part:

- *ledger*: case, last attempt, accepted pointer and halt flag agree after every
  transaction; a worker is held by one attempt at most, orphans included; what
  was accepted or sealed stays so.
- *launch guardian*: "the runner stopped" is concluded only when neither the
  guardian nor anything of its session is left or can appear; an intent
  starts one runner at most.
- *evidence*: an acceptance rests on a whole result sealed by a whole manifest;
  a sealed manifest is never rewritten and keeps describing its files.
- *completion and recovery*: a lease is let go only over a dead attempt; replayed
  and resumed calls do what the ledger allows; what a crash leaves behind can be
  resolved and does not hold its worker for ever.
- *supervisor*: left alone it works off the plan or stops it for review.

### The acquisition monitor (modelled)

`scripts/assignment/acquisition_monitor.py`, started again and again from outside; each run is
one tick.

| part | state | operations | talks to |
|---|---|---|---|
| tick | `monitor_state.json`: the launch each worker is known by; an flock (943) | `run_once`: `_merge_launch_records`, `_queue_snapshot`, `_classify_supervisors`, `_spawn_supervisor`, save | reads processes, receipts and the queue; starts guards |
| guard | `launches/<id>.json`, `<id>.exit.json` | `supervisor_child`: call the supervisor, write the receipt, close the record | its supervisor, in a session of its own |

Hard: parent and guard both rewrite the launch record and have no lock in common (764, 819);
a guard can be killed while its supervisor lives on; a tick dies between `Popen` and the record
(544), or between a launch and the saving of the state. Correct when a
worker never has two live supervisors, nothing runs that a tick does not know of, a
closed launch stays closed, and a failed one is not retried.

### The adaptive event protocol and its two writers (modelled)

| part | state | operations | talks to |
|---|---|---|---|
| journal (`adaptive_event_protocol.py`) | `adaptive_events.jsonl`, hash-chained; arm, manifest and report with sidecars; a file lock | arm, predict, reveal, freeze, reveal the trajectory, score: each loads and checks the whole journal under the lock | called by both writers |
| request proxy (`scripts/observability/request_proxy.py`) | one handler thread per request | `_forward`: predict, dispatch, reveal, respond; graceful shutdown | the agent, the model server |
| agent run (`sweagent_adaptive_runner.py`, `adaptive_runtime.py`) | the hook's ordinal of tool events | `on_action_started`, `on_action_executed`, `on_run_done` | the proxy, the tools |

Hard: the agent's client gives up a request whose handler goes on; a writer is killed with
a prediction outstanding; an append tears (571-580) and a later one joins its line; the two
files of a frozen artifact are written one after the other. Correct when no label is known
before its prediction, no effect happens before its record, everything a writer appends is
accepted by the reader, and what is scored had been frozen.

### The case lifecycle (its process half modelled)

`src/agentic_sim/runners/case_lifecycle.py` keeps hold of everything one workload starts.

| part | state | operations | talks to |
|---|---|---|---|
| owned process tree | `_known`, identities by number and start time | `observe`, `alive`, `signal`, `_reap_known` | `/proc`, pidfds |
| supervisor process, a subreaper | deadline, grace periods, exit status of the root, the outcome file | `_run_owned_process_inner`, `terminate` | kernel, workload |
| caller | | `run_owned_process` | waits, terminates, kills, reads the outcome |

Hard: processes fork, exit, are adopted and take over numbers between any two readings of
`/proc`; a number found is not the process signalled; reaping orphans can take the root's
status away from `Popen`. Correct when only what was registered is signalled, only the workload is
registered (but for one window that the code leaves, section 3), "cleanup
complete" and "exit 0" are true when said, and the run ends. `owned_docker.py`, the same for containers, is not
modelled yet.

### Components not modelled

- **Matrix runner** (`scripts/assignment/run_matrix.py`, `shard_plan.py`): the sequential
  predecessor of the queue, resumed from a state file.
- **Parallel and agent runners** (`src/agentic_sim/runners/`, `sweagent_case_runner.py`): start
  external agents; what matters of their control is process ownership, that is the case
  lifecycle, and the order of predictions, that is the adaptive protocol; the rest is
  argument building and bookkeeping from file to file.
- **Telemetry** (`src/agentic_sim/telemetry/`): journals and kernel counters with
  accounting of losses.
- **Request proxy and attribution** (`scripts/observability/`): of the proxy, the handling of
  one request and the shutdown are modelled as far as the journal sees them; capture of
  bodies, timings and the derivation of tables from its log are not.
- **Runtime backend** (`src/agentic_sim/runtime/backend.py`,
  `scripts/validation/controlled_vllm_restart.py`): probes and restarts of a server outside
  the repository; I/O.
- **Simulators and models** (`src/agentic_sim/simulator.py`,
  `feature_simulator.py`): sequential floating-point computation, not a matter
  for TLC.
- **Evaluation, planning, reporting; cloud and machine setup**: one-shot scripts from files
  to files, and provisioning.

`PROJECT.json` lists the same components with their status, and under `hazards`
the places in the code where an order of steps nobody tests does damage, each at its line
with the properties that watch it or the reason none does yet.

## 2. The modules

```
CaseDispatch            abstract: a case is waiting, held, parked or done
     ^ refined by (phase, holder, tries, winner are functions of the rows)
CaseLedger              the rows and every transaction on them
     ^ EXTENDS                    LaunchGuardian          processes and exit receipts
     |                                 ^ EXTENDS
     |                            AttemptEvidence         files and sidecars
     +------------ SharedCaseQueue -----+                 calls, loops, locks, faults
                        ^ EXTENDS
                   QueueRecovery                          interruptions that cease, and an operator who goes on

AcquisitionMonitor      ticks, guards, launch records; the queue as far as a tick sees it

EventOrder              abstract: an event is open, predicted or labelled
     ^ refined by (stages are functions of the journal)
AdaptiveJournal         the operations on one journal and its frozen files
     ^ EXTENDS
AdaptiveHoldout         the proxy's handlers and the agent run, with faults

OwnedProcessTree        the kernel's processes, the supervisor, its caller

MCCaseLedger, MCSharedCaseQueue, MCQueueRecovery,
MCAcquisitionMonitor, MCAdaptiveHoldout, MCOwnedProcessTree        instances for TLC
CaseLedger_proofs, LaunchGuardian_proofs, AcquisitionMonitor_proofs,
AdaptiveHoldout_proofs, OwnedProcessTree_proofs          theorems, one component each
SharedCaseQueue_proofs  the queue implements the ledger and the launch protocol
     ^ EXTENDS
QueueLeases_proofs      types of the whole queue; leases against processes
     ^ EXTENDS
QueueEvidence_proofs    seals, acceptances and reruns against the files
```

**CaseDispatch** is what a reader of the documentation expects of the queue, without
attempts, files or processes: a case goes to one worker at a time, a worker has one case
at a time, done is done.

**CaseLedger** has the columns that decide anything as variables and one action
for each transaction (`ClaimRow`, `OrphanRow`, `CommitAccepted`, `CommitCapture`,
`CommitRetryable`, `BlockAttempt`, `BlockOrphanRow`, `RequeueRow`, `Halt`, `ClearHaltRow`). An
attempt is named by its case and number, as `attempt_id` is, and is `"absent"` until its
row is inserted. In this module the transactions come in any order that their own
`WHERE` clauses and checks allow, which is more than the callers do. Worker and
endpoint are one thing, because `workers.endpoint_id` is UNIQUE. Not in the state: timestamps,
the event table, hashes, provenance columns.

**LaunchGuardian** follows one launch: intent, spawn, binding, runner, exit
receipt. `runner[a]` stands for the runner with all its descendants; `guardian[a]` for the
`_launch_child` process. `RunnerStopped` is `_runner_execution_state` answering False, which
`_assert_runner_stopped` demands: never launched, or exited with a receipt of this boot and a
guardian that is gone. `GuardianDies` leaves open
whether the runner dies with it, since a detached descendant need not.

**AttemptEvidence** keeps each file as a content from a small set, `"torn"` when the
sidecar is missing or does not fit, and the manifest as the inventory it sealed
plus `"absent"`, `"torn"` or `"sealed"`. Hashes are represented by what they compare: an
inventory equals another exactly if all files it names are the same.

**SharedCaseQueue** composes the three. `call[a]` is the call that holds the flock of
attempt `a` and where in its body it is; supervisors, guardians and operators take their
steps at the points where the code can be overtaken or killed:

| code | actions |
|---|---|
| `finish_attempt`, `fail_attempt`, `reconcile_orphan` | `FinishBegins`, `FailBegins`, `RecoverBegins`; then `CallWritesSidecar`, `CallWritesManifest`, `CallSealsManifest`, `CallCommits`, `CallBlocks`, `CallRequeues` |
| `supervise` | `SupervisorReconciles`, `-Claims`, `-RecordsCommand`, `-BeginsLaunch`, `-Spawns`, `-StopsWatching`, `-TimesOut`, `-Collects`, `-Settles`, `-Decides`; `SupervisorStarts` is somebody starting it again |
| `_launch_child`, `bind_runner_pid` | `GuardianBinds`, `-UpdatesLease`, `-StartsRunner`, `-RecordsExit`, `-Ends`, `-Raises` |
| the runner (a program outside this file) | `RunnerWrites`, `RunnerEnds` |
| operators | `OperatorReconciles`, `-Finishes`, `-Fails`, `-Recovers`, `-Retries`, `-ClearsHalt`, `-Audits` |
| kills, Ctrl-C, reboots | `SupervisorCrashes`, `CallerCrashes`, `GuardianCrashes`, `MachineReboots` |

**QueueRecovery** adds an auxiliary variable, `calm`: from the
moment it is set, no call of the operator is interrupted and the machine is not
rebooted. It says in a property what "in the end" means for recovery, since
a recovery that is killed every time owes nothing.

**AcquisitionMonitor** has one variable per durable fact of a launch (its record's status, the
rank of its `finished_epoch_ns`, its receipt), the state file as `entry`, and the local
variables of the tick that holds the lock. A worker's queue state is the attempt it holds.

| code | actions |
|---|---|
| `run_once` | `TickBegins`, `TickMerges`, `TickQueries`, `TickPauses`, `TickClassifies`, `TickSkips`, `TickSaves` |
| `_spawn_supervisor` | `RecordIntent`, `SpawnGuard`, `CheckIdentity`, `RereadRecord`, `PublishIdentity` |
| `supervisor_child` | `GuardCalls`, `GuardCallRaises`, `GuardReaps`, `GuardWritesReceipt`, `GuardClosesRecord`, `GuardExits` |
| the supervisor and others on the queue | `SupervisorClaims`, `-Settles`, `-Returns`, `-Fails`, `AttemptReconciled` |
| kills, exceptions, reboots | `GuardKilled`, `MonitorDies`, `MachineReboots` |

**EventOrder** is the promise of the adaptive protocol in three actions. **AdaptiveJournal**
has the file as a sequence of records, the way its last line ends (`tail`), and the arm and
manifest files, each absent, torn or frozen; every operation runs under the protocol's
lock and is one step, with what it leaves when it is cut short in `SpoiltBy`, `ArmTorn` and
`ManifestTorn`. What `_load_journal` accepts is `InOrder` and `OneBoot`. **AdaptiveHoldout** adds
the two processes that use it:

| code | actions |
|---|---|
| `_forward` in the proxy | `HandlerReadFails`, `HandlerPredicts`, `-Dispatches`, `-IsAnswered`, `-Reveals`, `-Responds`, `HandlerDiskError` |
| the proxy's start, graceful shutdown and death | `ProxyStarts`, `ProxyStops`, `ProxyExits`, `ProxyKilled` |
| the agent and its client | `AgentStarts`, `AgentAsks`, `AgentReceives`, `AgentRetries`, `AgentEnds`, `AgentKilled`, `StartKilled` |
| the hook | `ToolStarts`, `ToolExecutes`, `ToolReveals`, `AgentDiskError` |
| `on_run_done` | `RunFreezes`, `RunRevealsTrajectory`, `RunScores` |
| loss of power | `PowerLoss` |

**OwnedProcessTree** has the kernel's view (state, number, parent of each process, named by the order of
birth, which is what the start time tells) and the supervisor's (`known`, the queue of
`observe`, what `alive` or `signal` has still to look at).

| code | actions |
|---|---|
| the kernel, the workload, the rest of the machine | `Fork`, `StrangerStarts`, `Exit`, `ParentReaps` |
| `observe` with `_record`, `_read_children`, `_reap_known` | `LookBegins`, `Identify`, `ListsChildren`, `LooksUp`, `Adopt` |
| `alive` | `EachBegins`, `FoundDead` |
| `signal` | `EachBegins`, `FoundDead`, `TakesAim`, `Pins`, `Sends` |
| `_run_owned_process_inner` | `Launch`, `Watch`, `Left`, `Wait`, `SupervisorExits` |
| `terminate` | `Signalled`, `Grace`, `Survivors`, `Final` |
| `run_owned_process` | `CallerReturns`; `SupervisorKilled` is its kill, or anybody's |
| deadlines and grace periods, the caller's `terminate` | `Expires` |

Operators that begin with the comment "Mutant:" are deliberate faults, kept next to the
definitions they damage. No specification uses them; each shows that a property
would notice the fault.

### Choices worth knowing

- A check of the outside world (fingerprints, free storage, the binding of a worker) is a
  verdict that may fail at any claim when the fault is enabled. A failed worker binding
  disables the worker for good, as in the code: `register_worker` raises on
  a row whose `enabled` differs.
- A disabled worker makes `claim_case` raise *inside* the transaction that has just
  recorded a failing gate, so the halt is rolled back with it (1997). The model does the same.
- The case deadline kills the guardian's process group. The receipt class `timeout` is
  therefore committed only if the exit had already been recorded; otherwise the
  attempt stays held.
- After a reboot the audit finds the runner of an accepted attempt unproven and
  halts dispatch. That is what the code does, and the model does it too.
- `retry_attempt` can be reached from the library only; the command line has no such
  command. `finish_attempt(allow_orphan=True)` is used by nobody in the repository and
  is left out, and so is the second, idempotent requeue of `reconcile_orphan`. A supervisor that
  ends because of `--max-cases` is one that stops between two cases, which the other
  ways to stop at the top of the loop cover.

In `AcquisitionMonitor`:

- Launch identifiers are drawn in ascending order here and are random in the code. Where the code
  sorts by them, among records that lost `finished_epoch_ns` to the parent's late write,
  the model takes either.
- Reading all records in `_merge_launch_records` is one step. A reused PID can only make a tick pause (a
  zombie or another start time counts as absent, then the receipt decides), and
  is left out. Whatever the authorization and the queue's identity may be found to be is
  "this tick may pause".
- `StopsEarly` lets a supervisor return 0 with cases left. The present `supervise` never does;
  the tests of the monitor use one that does, and the monitor relies on nothing else.

In `AdaptiveJournal` and `AdaptiveHoldout`:

- An operation that raises after `os.write` may leave nothing, part of the line, all but the
  newline or all of it. A reader accepts a last line without newline, and the next
  append then joins it and breaks the journal.
- A second boot is not refused when appending, only at the next load: the record that is
  appended after a reboot makes the journal unreadable for good.
- An arm, manifest or report whose sidecar is missing stops the trajectory for good, and so
  does a prediction whose owner was killed: identifiers of requests are fresh uuids, so nobody can reveal
  it. Both are the code's own fail-closed choice.
- A response that is not 2xx is passed on with an "unavailable" label and is not counted in
  `delivered`. A file that was renamed into place is assumed to survive a loss of power.
- Features, predicted numbers, the hash chain and the label artifacts are not in the state.

In `OwnedProcessTree`:

- The identity of a parent, its list of children, and each child on that list are read one after
  the other (295, 298, 229), and the model does the same: a parent's number can change hands between
  any two. The supervisor's own children are listed and looked at in one step (`Adopt`), since
  only the supervisor reaps them and so frees their numbers; and a child is recorded with the look at it.
- `_alive` reads start time and zombie state one after the other; they are one step. A zombie that is reaped
  in between counts as alive for one more round, which only prolongs a wait.
- Numbers that nothing has had yet are alike, and a birth takes the least of them. What is gone when `observe` begins, or has exited when `alive` and `signal` begin, stays
  so and is not queued. `Expires` comes only where the clock is read next. None of the three removes
  a behaviour that a property could tell apart.
- What processes do after the supervisor's end is left out, and two looks in immediate succession
  are one. A caller that stops the supervisor with SIGTERM is taken for a deadline by the watching loop.
- Children of threads other than the main one are not in the list `_read_children` reads; they are
  outside of `shown` until their parent dies and the supervisor adopts them.
- SIGKILL is sent once to each known process; what appears after it is reported as a survivor. A process
  in `doomed` forks no more but need not die, as one in uninterruptible sleep.
- Not modelled: a deadline that is over before the launch (it returns 124 at once), and the
  handler for `BaseException`, which terminates and raises.

## 3. The runs

Every configuration gives constants values and replaces nothing. `OperatorCalls` and
`Faults` select what happens in an instance, so that each run can afford the
interleavings it is about.

| run | specification | bounds | distinct states |
|---|---|---|---|
| `ledger` | `LedgerSpec` | 2 cases, 2 workers, 2 attempts per case | 38 thousand |
| `recovery` | `Spec` | 1 case, 2 attempts, 1 retry; two supervisors on one worker | 143 thousand |
| `recovery_ends` | `RecoverySpec` | 1 case, 2 attempts, 1 retry; one supervisor | 69 thousand |
| `operators` | `Spec` | 1 case, 1 attempt; one supervisor; all operator calls | 487 thousand |
| `progress` | `FairSpec` | 2 cases, 2 attempts, 1 retry; two workers with a supervisor each | 396 thousand |
| `monitor` | `FairSpec` | 1 worker, 3 launches; all faults | 99 thousand |
| `holdout` | `FairSpec` | 2 requests, 1 tool action, 2 starts of the agent; all faults | 347 thousand |
| `owned_tree` | `FairSpec` | 4 processes that share 3 numbers | 835 thousand |
| `retry_budget`, `blocked_unproven`, `completed_rerun` | `Spec` | 1 case | stop at the violation |
| `monitor_review` | `Spec` | 1 worker, 3 launches; failing supervisors only | stops at the violation |

**ledger.** Whatever order the transactions come in: attempts of a case are numbered
without gaps and only the last one is undecided (`AttemptChain`), the case row
says what its last attempt says (`CaseFollowsLastAttempt`), the accepted pointer is
set exactly for an accepted case and points at its accepted attempt
(`AcceptedPointer`), no worker is held twice although the unique indexes leave
orphans out (`WorkerExclusive`), the sealed outcome fits the status
(`OutcomeAgreement`), and nothing committed is taken back (`CommittedIsFinal`). The rows
implement `CaseDispatch` (`ImplementsDispatch`). Deadlock is checked: there is always
something to do, if only to halt or release the halt.

**recovery.** Two supervisors started for the same worker and an operator who
reconciles, recovers, audits and clears halts, while supervisors, guardians, calls and the
machine die anywhere. No endpoint ever has two runners (`OneRunnerPerWorker`); an
orphan has no owner, guardian or runner (`OrphanIsDead`); sealed evidence keeps
matching its manifest (`SealedEvidenceIntact`, `SealIsFinal`); a durable completed
result is not run again (`CompletedNeverRerun`); an intent starts one runner
(`OneRunnerPerIntent`).

**recovery_ends.** Liveness of recovery (`DeadAttemptResolved`): once interruptions cease,
an attempt proved dead is resolved and its worker freed, whatever torn result, failure
receipt or manifest, or seal without a commit, the crashes left in its directory. A torn lease is not among
them: the guardian that left it was killed before it recorded an exit, so that its attempt is never proved
dead. It stays held, which `OneRunnerPerWorker` and `OrphanIsDead` of run `recovery` allow and this
property does not speak of.

**operators.** Every operator call races the supervisor and its guardian, with
`--returncode` and supplied results, deadlines, guardians that raise and gates that
drift. Live runners and guardians keep an active attempt (`LiveRunnerIsLeased`), every
acceptance is proved by the files (`AcceptedIsProven`), the proof of death stays sound
(`LaunchInv`; over reboots, which this run leaves out, run `recovery` has `OrphanIsDead` and `OneRunnerPerIntent`,
and `QueueStoppedIsSound` is proved), and whatever the calls do to rows and processes is a behaviour of `LedgerSpec` and
`LaunchSpec` (`QueueImplementsLedger`).

**progress.** Without faults and operators, `EventuallySettled`: every case is accepted or
dispatch is halted. Runners may fail, write nothing or exit nonzero with a
completed result, so both endings occur.

**monitor.** Guards and ticks are killed, supervisors fail, calls raise and the machine reboots at
any point. A worker never has two live supervisors (`OneSupervisorPerWorker`); what runs is
known to any tick that has passed its checks (`NothingRunsUnknown`); a launch finds
its worker free at that moment and not only in the snapshot taken earlier
(`LaunchesOnFreeWorkers`); the parent's late write, which takes the guard's "receipt written" back to
"spawned", never makes a finished launch count as unfinished, since the receipt was there
first (`ClosedStaysClosed`); and a launch whose tick died is finished in the end unless its guard
was killed or its identity was never recorded (`UnfinishedLaunchEnds`).

**holdout.** The agent abandons requests, either process is killed or stopped, the disk fails
and the power goes. Whatever the two writers append in whatever order is accepted by the reader unless a
write failed or the machine rebooted (`WritersSatisfyReader`); no dispatch and no tool precedes its
prediction, and no response reaches the agent before its label (`EffectsFollowRecords`); an
outstanding prediction has a living owner or its owner was lost (`PendingHasOwner`), who reveals it in the end
(`PendingIsRevealed`); and what is scored was frozen before the trajectory's label
(`ScoredIsFrozen`), with one exception that is real: the handler of an abandoned request can still
predict after the freeze, and its event is then scored although no manifest holds it.
The journal implements `EventOrder` (`ImplementsEventOrder`).

**owned_tree.** Processes are born, exit, are adopted and take over numbers between any two
readings. A signal reaches registered processes only (`OnlyKnownSignalled`): the second look at the start time,
after the descriptor was opened, is what it rests on. What is registered is of the workload (`KnownIsWorkload`),
with one exception that the run reaches: after `observe` has confirmed a parent's identity (295, 339) it
goes by the number alone (298, 342), so a stranger that gets this number in between passes
its children off as the workload's. They are recorded, and then signalled with a start time that matches. That is less than
`docs/reliability-20260907.md:138` promises ("signals proven descendants with pidfds, avoiding unrelated
sibling processes and PID reuse"); the property says that nothing else gets in. A zero is told only of
a root that exited with zero after a complete
cleanup (`SuccessIsReal`); the run ends whatever the workload does (`RunEnds`). "Cleanup
complete" means that nothing is left (`CompleteIsClean`), with two exceptions, both real. A
process born or adopted while the last look is under way can escape it. And `_record` refuses a
number that is known with another start time (268-273), so an orphan that has
taken over the number of a dead process of the same workload is neither signalled nor missed.

**Disagreements.** Four runs each check one sentence of the repository
that the code does not keep; `findings` quotes the lines.

- `retry_budget`: a supervisor whose budget is spent raises "case remains blocked for review",
  but the attempt is sealed as retryable and the case stays `retry_waiting`.
- `blocked_unproven`: `begin_launch` takes no attempt lock and `_block_attempt`
  does not ask about the launch again, so an operator's `finish` on an unstarted
  attempt can block it after the owner recorded its intent. The documentation says an
  attempt with an unproven intent stays active. (The guardian then refuses to bind; no
  runner appears, which is why `LiveRunnerIsLeased` holds in run `operators`.)
- `completed_rerun`: `retry_attempt` looks for a completed outcome in the row and not in
  the directory; on an orphan the row is empty, and a durable completed result is requeued.

- `monitor_review`: a supervisor that fails before the parent has asked for its child's
  identity makes `_spawn_supervisor` raise, and the state file goes on naming an
  older launch. If that one had ended with 0, the failure is outranked and another
  supervisor is launched, which a comment says never happens. It takes `StopsEarly` and
  `AllowResume`; with either FALSE the property holds, so the present `supervise` does not lead there.

### Bounds, and why they are enough

In the queue's modules `MaxAttempts` is the only bound that is not a parameter of the code: `NewAttempt` is not taken beyond
it. Two attempts are what an exclusion needs to fail (one held, one claimed), what
a retry and a replay against an older attempt need, and with `MaxRetries` = 1 the
budget runs out within the bound. Two workers and two cases give `ledger` and
`progress` a choice of case and of worker; three would add no pair the
statements of a transaction distinguish, and the theorems hold for any number. In `recovery`
both supervisors serve one worker because that is the dangerous
instance: one case and one endpoint, wanted twice. `operators` stays with one attempt,
since all operator calls lock, read and write a single attempt; the price is that
no replay meets a second attempt there, which `recovery` and the refinement theorem
cover. In `operators` the retry budget is zero, so that the supervisor gives up after its first
retryable attempt. Deadlock is not checked for the queue: it stops when
its supervisors are down, which is what a supervisor does when nothing is claimable.

`monitor` has one worker because ticks treat workers independently but for `MaxPerTick`, the merge
of all records and the pause of all on the failure of one, which only stop launches; three launches
are one in the state file, one closed and forgotten, and one new. Deadlock is not checked: the
launches run out.

`holdout` has the smallest instance in which a request is abandoned while another one and a
tool compete for the journal, and in which a second start of the agent replays what the first
predicted. `DiskMayFail` is a bound, too: an I/O error strikes before any other loss, as every
one of them spoils the journal by itself.

`owned_tree` needs a number used by two processes to separate finding, pinning and signalling, and for the
window in the visit of a parent a root, a child, a stranger with the child's number and a child of the stranger: four
births over three numbers are the smallest instance. More are left to the theorems.
`MaxBirths` is the only bound that is not one of the program.

Symmetry is not used: most passing runs have a single worker, and five have
temporal properties, for which TLC's symmetry reduction is unsound.

### Fairness

`Fairness` is weak fairness of each supervisor's loop, of each call in progress, of each
guardian and of the end of each runner. A process that is not killed keeps running, so its
next step is taken unless something disables it; runners end because they run under a
deadline of their own. `SupervisorStarts` and all operator steps have no fairness in
`FairSpec`: nobody has to come and help. In `RecoverySpec` the operator is the point, so
`OperatorFairness` gives reconcile weak fairness and the two resolutions strong
fairness, because the attempt's lock they need comes and goes with other calls.
`<>calm` is the hypothesis of the property and no fairness condition. The exception in
its conclusion, `rebooted[a]`, is a real one: after a reboot a receipt of an earlier boot no
longer proves that the runner stopped.

The other components have weak fairness, too, with one exception. `monitor`: ticks go on because they are started from
outside for ever, guards because nothing blocks them, and supervisors end as above. `holdout`:
handler threads go on since every socket has a timeout, the agent since its tools end; nobody has
to start the proxy or the agent again. `owned_tree`: the supervisor and its caller run and clocks
advance (`Expires` is also the caller's `terminate`, which hastens what the deadline brings
anyway). It is strongly fair, as it is enabled only where the clock is read, and a clock that is read again and
again is found to be over; nothing is assumed of the workload.

## 4. The theorems

All constants are arbitrary here. For the queue, `LedgerAssumption` (numbers of cases and attempts are
positive naturals, `NoWorker` is no worker) and `QueueAssumption` (types of the parameters) are assumed; the
other components have their own, named below. TLC evaluates each of them.

- `LedgerInvariant`, `WorkersAreExclusive`: the conjunction `LedgerInv` of the parts
  checked in run `ledger` is inductive; most of its parts are not by themselves. A commit, a
  block or an orphaning writes the case row of whatever attempt it is given, which keeps
  `CaseFollowsLastAttempt` only because an attempt that is not requeued is the last one of its
  case (`AttemptChain`); a requeue or a claim keeps `AttemptChain` only because the case row it
  tests stands for that last attempt; and a second acceptance is ruled out by the pointer, the
  case row and the attempt row together. The proof has one lemma for each transaction (`ClaimStep`, `AcceptStep`,
  `OrphanStep`, ...), and the shared argument about rows and pointers in `OpenAttempt`,
  `RowStep` and `PointerStep`.
- `RowsAreTyped`, `AttemptsFormChains`, `CasesFollowAttempts`, `OneAcceptance`, `OutcomesAgree`:
  the parts of `LedgerInv`, each a property of run `ledger`.
- `CommitmentsAreFinal`: from the invariant, step by step.
- `LedgerImplementsDispatch`: every transaction is a step of `CaseDispatch` under the mapping
  of `CaseLedger` (`CasePhase`, `CaseHolder`), or a stutter.
- `LaunchInvariant`, `LaunchedOnce`: `StoppedIsSound` is strengthened by
  `LaunchShape`, which ties guardian and runner to the launch state that their own
  steps have reached. It holds over any crash or reboot.
- `QueueIsLedger`: every step of the queue is a transaction of the ledger or leaves the rows
  alone, and is a step of the launch protocol or leaves it alone. It needs two invariants: `OwnersHold` (a supervisor past
  its claim owns an attempt of the plan) and, for the claim, the types in `LedgerInv`, which
  keeps the new attempt within the plan. The argument is one lemma for each kind of process
  (`CallIsLedgerStep`, `SupervisorIsLedgerStep`, `GuardianIsLaunchStep`, `OperatorIsLedgerStep`,
  `FaultIsLaunchStep`).
- `QueueRowsAgree`, `QueueWorkersAreExclusive`, `QueueCommitmentsAreFinal`, `QueueLaunchesOnce`,
  `QueueStoppedIsSound`, `QueueImplementsDispatch`: the results of the parts carried over to the
  whole.

`QueueLeases_proofs` relates the rows to the processes. Its invariant is `QueueTypes` (the
invariants of the ledger and of the launches, types of calls and files) and `LeaseInv`:

- `LiveRunnerIsLeased` and `OrphanIsDead` are not inductive alone. A call commits several steps
  after it asked whether the runner had stopped, so `CallsOnStopped` says that this stays true as long
  as the call is in the lock; a supervisor that is out of retries blocks its attempt if nothing was sealed, so
  `SettledIsSealed` says that something was; and `OwnedExists` keeps a claim, which takes an
  absent attempt, from taking one that somebody owns.
- The argument is in two lemmas that go through all actions once: `StepFootprint` lists the
  nine things a step may do to one attempt (claimed, orphaned, given up, called upon, entered,
  launch begun, spawned, bound, winding up), and `OwnersStep` what it may do to one supervisor.
  `LeaseStep` needs nothing else.

`QueueIsTyped`, `RunnersAreLeased` and `OrphansAreDead` follow; `WorkersRunOne` adds the worker
exclusion of the ledger: two runners on one endpoint would be two active attempts on one worker. No hypothesis but the
two assumptions on constants, so they hold with every operator call and every fault enabled.

`QueueEvidence_proofs` relates rows and calls to the files.

- `AcceptancesAreProven`, `SealsAreFinal`: with `CallFiles`, a call keeps sight of its files:
  what it read, wrote or compared in an earlier step is what the directory still holds later. It needs
  `LeaseInv`, since a live runner is the one writer that takes no lock. Again
  with every operator call and fault.
- `SealedEvidenceStaysIntact` is proved for campaigns in which operators do not `finish` or
  `fail` attempts (`NoHandCompletion`), which is also how run `recovery` checks it; without that it is
  false, as section 5 says. Operators may still reconcile, recover, retry, audit and
  clear halts. The invariant adds `OwnerInv`: an attempt has one owner,
  nobody else is in its lock while the owner works, and a failure is reported only where no
  result is or can come; and `CallSealed`: what a call is about to seal or commit lists what the
  directory holds.
- `CompletedCasesAreNotRerun` excludes `retry_attempt` by hand, too (`NoHandRerun`): it is the
  finding `completed_rerun`, and the theorem says that there is no other way. `RerunInv`: what is
  given up was sealed as retryable, and that is not done over a completed result.
- `BlockedAttemptsAreProven` is the other half of the finding `blocked_unproven`: with
  `NoHandCompletion` an attempt is blocked only when its launch is over (`BlockInv`), and
  unless the machine is rebooted the receipt proves it. A reboot has to be excluded, since afterwards no
  receipt of an earlier boot proves anything, as `_runner_execution_state` has it.

`AcquisitionMonitor_proofs` proves the safety properties of the monitor for any number of workers
and any finite set of launches, from `MonitorAssumption`. `MonitorInv` is inductive:

- The heart is `OpenIsKnown` with `OneOpen`: a launch on record without a receipt is either the one
  that the tick is busy with or the one that the state names for its worker, and a worker has at most one.
  `SupervisorsDoNotOverlap` follows, as a supervisor lives only while its launch is open.
- `OpenIsKnown` survives the merge because at most one record of a worker is unfinished, and that is
  adopted before anything else. It survives a tick that dies after Popen because the record was
  written before.
- `AttemptsExplained`: an attempt that the snapshot of the queue does not show was claimed since,
  by a supervisor the tick knows of and found running; hence `LaunchesAreForFreeWorkers`.
- `RanksBounded` (the ranks that have been given are as many as there are ended launches) keeps
  `finished` within its type; it is the one place that needs finiteness.
- `TicksKnowWhatRuns` is a part; `ClosedRecordsStayClosed` follows step by step: the parent's late write
  finds the receipt already there.
- `FailuresAreNotRetried` assumes `~AllowResume \/ ~StopsEarly` and so proves what the finding
  `monitor_review` could only check: it takes both. `RetryInv` adds that a worker without a known
  launch has never had one, and that without `StopsEarly` a supervisor returns 0 only when nothing is
  pending. A second launch on a worker is therefore made only by a tick that had counted the cases before that
  return, and no later tick launches (`SeenBeforeSecond`): the launch that goes before
  the second one is the only one, and it ended with 0.

`OwnedProcessTree_proofs` proves all safety properties of that module for any number of processes and
any set of numbers, from `TreeAssumption` alone (the supervisor and the reaper above it
are not processes of the workload). None of the properties is inductive. `TreeInvariant`
adds to the types four parts:

- `Lineage`: what hangs below a process of the workload or below the supervisor is of the
  workload, what hangs below an intruder is an intruder, and a child of the supervisor
  is always listed, which is why `Adopt` misses none.
- `Ownership`: whoever has the number of the parent that `observe` is busy with, and all that is known or
  queued, is of the workload or an intruder, that is, a stranger born onto this number during the visit, or
  what such a stranger starts. What is aimed at is known, and what is pinned is
  the target unless the target is gone. `signal` asks for the start time once more after
  pinning; since living processes differ in their numbers, the answer settles that the pinned one
  is the target, and it can no longer change into another.
- `RootStatus`: while the run lasts the root is known, hence not reaped by
  `_reap_known`, whose numbers of known processes all differ; so `Popen` finds its status, and
  a zero is the root's own.
- `LastLook`: from the adoption of the last look on, every child of the supervisor that has not moved since is known or
  shares its number with a known one, and what was found dead stays dead.

Each part has a lemma for the kernel's steps, the look and the program; `TreeInvStep` puts them
together. `SignalsStayInside`, `RegistersWorkloadOnly`, `CleanupIsTrue`, `ZeroIsReal` and `TreeTypes`
follow.

`AdaptiveHoldout_proofs` proves the safety properties and the refinement of the adaptive protocol
for any number of requests and tools and every set of faults, from `JournalAssumption` (events of
the two kinds differ, and `NoEvent` is none) and `HoldoutAssumption` (the hook numbers tools).
Its backbone is one lemma, `NextJournal`: whatever a step of any process or fault does, it leaves
the records alone or appends one whose checks had passed (`JournalStep`), be it whole or spoilt.
From it alone follow

- `JournalInv`: the records are in the order that `_load_journal` demands, those of the first boot
  are of one boot, and what is predicted and not labelled is the pending event and nothing else.
  "In order" is about all prefixes and `_pending` about the last event record, so neither
  is inductive without the other; `AppendEvents`, `AppendPending` and `AppendInOrder` say what an
  append does to the three readings of a sequence;
- `HoldoutKeepsOrder`, since each kind of append is a step of `EventOrder` in a state with
  `JournalInv`.

`Effects` adds the places of the processes (a handler that owes a label has its prediction
recorded, one that has revealed has its label), whence `EffectsHaveRecords` and, with
`JournalInv`, `WritersAndReaderAgree`. `OwnerInv` adds that no label is outstanding once the
trajectory's is known and that predictions are made under an arm: with it the owner of an outstanding
prediction is never refused (`OwnerMayReveal`), so that `PendingIsOwned`. `FrozenInv` adds that
a handler at work without an agent waiting for it was given up (`Busy`); it is the reason why
only such events can miss the manifest (`ScoredEventsAreFrozen`).

`HoldoutTypes`, for any finite set of events, is the type invariant of the run, in which the journal has
a bounded length; `LengthInv` counts its records: at most a prediction and a label for each event, and one
for the trajectory.

What stays model-checked, and why:

- `EventuallySettled`, `DeadAttemptResolved`, `UnfinishedLaunchEnds`, `PendingIsRevealed`, `RunEnds`:
  liveness under fairness is out of the prover's reach.
- `SealedEvidenceIntact` and `CompletedNeverRerun` in general are not theorems but false; they are proved
  under the two hypotheses above, which the run shares. The four properties of the runs that expect a
  violation are false as well, and for three of them a theorem above says when they hold; the fourth,
  `SpentBudgetBlocksCase`, is what the code never does.

Every other property that a passing run checks is stated by a theorem.

## 5. What is not covered

- `SealedEvidenceIntact` is checked and proved where operators act on dead owners. The owner writes
  `process_exit.json` without the attempt's lock (3347), so an operator who finishes the
  attempt in between seals an inventory that the owner then changes; the audit would find
  it and halt. It is listed as a hazard with no property.
- The content of gates, of results and of the audit's comparisons, and everything a hash
  protects beyond equality.
- SQLite itself: a transaction is atomic and durable, as the code requires of it
  (`BEGIN IMMEDIATE`, `synchronous=FULL`). The same holds for `flock`, `O_EXCL` and fsync.
- The components listed as not modelled in section 1.

## 6. Plan

1. Done: the queue (`CaseDispatch`, `CaseLedger`, `LaunchGuardian`, `AttemptEvidence`,
   `SharedCaseQueue`, `QueueRecovery`), the monitor (`AcquisitionMonitor`), the adaptive
   protocol (`EventOrder`, `AdaptiveJournal`, `AdaptiveHoldout`), the process tree
   (`OwnedProcessTree`), their runs, and the theorems above.
2. Done: the proofs of all safety properties of the runs (section 4). Left to prove: under what weaker
   hypothesis the evidence stays intact when operators complete attempts by hand, for instance
   that the owner is past its `process_exit.json`; and the same carried over to `QueueRecovery`.
3. `QueueGates`: creation, registration, binding of policies and fingerprints, and what
   `claim_case` and `clear_halt` compare.
4. `owned_docker.py`; the resume of `run_matrix.py`; the losses of the kernel sink in the telemetry.
5. A composition of `AcquisitionMonitor` with the supervisor of `SharedCaseQueue`, in place of the
   abstract queue the monitor has now.

## 7. Running it

`tlc -config recovery.cfg MCSharedCaseQueue.tla` checks one run, and
`tlapm CaseLedger_proofs.tla` the proofs of one module. `PROJECT.json` names the
module of each run, maps every definition to the lines it models, and lists for each
property a mutant of the code model that the property catches.
