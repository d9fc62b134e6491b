--------------------------- MODULE OwnedProcessTree ---------------------------
(***************************************************************************)
(* The supervision of one workload                                         *)
(* (src/agentic_sim/runners/case_lifecycle.py): a dedicated supervisor     *)
(* process, made a subreaper, starts the workload's first process, looks   *)
(* for its descendants by reading the lists of children in /proc one after *)
(* the other, and terminates what is left at the deadline or the end; the  *)
(* caller waits for the supervisor and reads the outcome it wrote.         *)
(*                                                                         *)
(* A process is named by the order of its birth, which is what its start   *)
(* time in /proc tells; its number can be that of an earlier process.      *)
(***************************************************************************)
EXTENDS Naturals

CONSTANTS
    MaxBirths,    \* number of processes that are ever born; a bound of the model
    Pids,         \* their numbers
    Supervisor,
    Nobody        \* init, or a reaper above the supervisor

Procs == 1 .. MaxBirths
Root == 1

ASSUME TreeAssumption ==
    /\ MaxBirths \in Nat \ {0}
    /\ Supervisor \notin Procs /\ Nobody \notin Procs /\ Supervisor # Nobody
    /\ Pids \subseteq Nat /\ Pids # {}

VARIABLES
    \* the kernel
    state, pid, parent,
    ours,       \* processes of the workload
    shown,      \* listed as a child of the parent's main thread
    doomed,     \* SIGKILL is on its way
    ended,      \* exit status of the root
    \* OwnedProcessTree
    known,      \* the values of _known, which has a number once
    todo, visited,   \* queue and visited of observe
    reading,    \* the parent it is busy with, its identity once confirmed
    names,      \* numbers in the list of children, still to be looked up
    pend,       \* known processes that alive or signal has still to look at
    target,     \* the one that signal has found alive
    pinned,     \* the process its descriptor stands for
    \* the supervisor
    stage, step,
    expired,    \* the deadline or grace period of this stage is over
    code,       \* process.returncode
    outcome,    \* what it writes for the caller
    \* the caller
    caller, result,
    \* history
    moved,      \* born or adopted since the look began that may be the last
    strayed,    \* a signal has reached a process that is not a known one
    intruders   \* strangers born onto the number of reading, and what they start

kernel == << state, pid, parent, ours, shown, doomed, ended >>
visit == << reading, names >>
tree == << known, todo, visited, visit, pend, target, pinned >>
supervision == << stage, step, expired, code, outcome >>
callerVars == << caller, result >>
history == << moved, strayed, intruders >>
treeVars == << kernel, tree, supervision, callerVars, history >>

States == {"unborn", "running", "zombie", "gone"}
Stages == {"unlaunched", "watch", "left", "term", "termwait", "survivors",
           "kill", "killwait", "final", "wait", "done", "gone"}
Outcomes == [complete : BOOLEAN, zero : BOOLEAN]
NoOutcome == [complete |-> FALSE, zero |-> FALSE]

Alive(i) == state[i] = "running"
Listed(i) == state[i] \in {"running", "zombie"}
Supervised == stage # "gone"
Settling == stage \in {"left", "final", "wait", "done"}

(* Types; the numbers of living processes differ, and of known ones too.   *)
TreeTypeOK ==
    /\ state \in [Procs -> States]
    /\ pid \in [Procs -> Pids]
    /\ parent \in [Procs -> Procs \cup {Supervisor, Nobody}]
    /\ ours \subseteq Procs /\ shown \subseteq Procs /\ doomed \subseteq Procs
    /\ ended \in {"no", "zero", "nonzero"}
    /\ known \subseteq Procs /\ todo \subseteq Procs /\ visited \subseteq Procs
    /\ reading \in Procs \cup {Nobody} /\ names \subseteq Pids /\ pend \subseteq Procs
    /\ target \in Procs \cup {Nobody} /\ pinned \in Procs \cup {Nobody}
    /\ stage \in Stages
    /\ step \in {"begin", "known", "adopted", "each"}
    /\ expired \in BOOLEAN
    /\ code \in {"none", "zero", "nonzero"}
    /\ outcome \in Outcomes /\ result \in Outcomes
    /\ caller \in {"waiting", "returned"}
    /\ moved \subseteq Procs /\ strayed \in BOOLEAN /\ intruders \subseteq Procs
    /\ \A i, j \in Procs : Listed(i) /\ Listed(j) /\ pid[i] = pid[j] => i = j
    /\ \A i, j \in known : pid[i] = pid[j] => i = j

Init ==
    /\ state = [i \in Procs |-> "unborn"]
    /\ pid = [i \in Procs |-> CHOOSE n \in Pids : TRUE]
    /\ parent = [i \in Procs |-> Nobody]
    /\ ours = {} /\ shown = {} /\ doomed = {}
    /\ ended = "no"
    /\ known = {} /\ todo = {} /\ visited = {} /\ pend = {}
    /\ reading = Nobody /\ names = {}
    /\ target = Nobody /\ pinned = Nobody
    /\ stage = "unlaunched" /\ step = "begin"
    /\ expired = FALSE
    /\ code = "none"
    /\ outcome = NoOutcome
    /\ caller = "waiting"
    /\ result = NoOutcome
    /\ moved = {} /\ strayed = FALSE /\ intruders = {}

-----------------------------------------------------------------------------
(* The kernel and the processes outside of the supervisor.                 *)

(* A stranger gets the number of the parent that observe is busy with.     *)
TakesOver(above, n) ==
    /\ above \notin ours \cup {Supervisor}
    /\ reading # Nobody /\ n = pid[reading]

(* Numbers that nothing has had yet are alike: the least one is taken.     *)
Birth(i, n, above) ==
    /\ state[i] = "unborn" /\ \A j \in Procs : j < i => state[j] # "unborn"
    /\ \A j \in Procs : Listed(j) => pid[j] # n
    /\ \A m \in Pids : m < n => \E j \in Procs : state[j] # "unborn" /\ pid[j] = m
    /\ state' = [state EXCEPT ![i] = "running"]
    /\ pid' = [pid EXCEPT ![i] = n]
    /\ parent' = [parent EXCEPT ![i] = above]
    /\ moved' = IF Settling THEN moved \cup {i} ELSE moved
    /\ intruders' = IF above \in intruders \/ TakesOver(above, n)
                    THEN intruders \cup {i} ELSE intruders
    /\ UNCHANGED << doomed, ended >>

(* A child of a thread other than the main one is not in the list that     *)
(* _read_children reads.                                                   *)
Fork(p, i, n) ==
    /\ Alive(p) /\ p \notin doomed
    /\ Birth(i, n, p)
    /\ ours' = IF p \in ours THEN ours \cup {i} ELSE ours
    /\ shown' \in {shown, shown \cup {i}}
    /\ UNCHANGED << tree, supervision, callerVars, strayed >>

(* Something else on the machine; nobody cares for it here.                *)
StrangerStarts(i, n) ==
    /\ stage # "unlaunched"
    /\ Birth(i, n, Nobody)
    /\ UNCHANGED << ours, shown, tree, supervision, callerVars, strayed >>

(* The end of some processes: a zombie stays until its parent reaps it,    *)
(* and children left behind get another parent, in the supervisor's tree   *)
(* the supervisor, which is their subreaper.  What has been waited for     *)
(* leaves no trace but the number it had.                                  *)
ReaperOf(i) == IF i \in ours /\ Supervised THEN Supervisor ELSE Nobody
Bereft(i) == {j \in Procs : Listed(j) /\ parent[j] = i}

Becomes(states, parents, listed) ==
    /\ state' = states
    /\ parent' = [j \in Procs |-> IF states[j] = "gone" THEN Nobody ELSE parents[j]]
    /\ shown' = {j \in listed : states[j] # "gone"}

Exit(i) ==
    /\ Alive(i)
    /\ Becomes([j \in Procs |->
                  CASE j = i /\ parent[j] = Nobody -> "gone"
                    [] j = i /\ parent[j] # Nobody -> "zombie"
                    [] j \in Bereft(i) /\ state[j] = "zombie" /\ ReaperOf(i) = Nobody -> "gone"
                    [] OTHER -> state[j]],
               [j \in Procs |-> IF j \in Bereft(i) THEN ReaperOf(i) ELSE parent[j]],
               shown \cup Bereft(i))
    /\ doomed' = doomed \ {i}
    /\ moved' = IF Settling THEN moved \cup Bereft(i) ELSE moved
    /\ ended' \in IF i # Root THEN {ended}
                  ELSE IF i \in doomed THEN {"nonzero"} ELSE {"zero", "nonzero"}
    /\ UNCHANGED << pid, ours, tree, supervision, callerVars, strayed, intruders >>

(* A process of the workload, or of the others, waits for its child.       *)
ParentReaps(i) ==
    /\ state[i] = "zombie" /\ parent[i] \in Procs
    /\ Becomes([state EXCEPT ![i] = "gone"], parent, shown)
    /\ UNCHANGED << pid, ours, doomed, ended, tree, supervision, callerVars, history >>

KernelNext ==
    \/ \E i \in Procs : Exit(i) \/ ParentReaps(i)
    \/ \E i \in Procs, n \in Pids :
          StrangerStarts(i, n) \/ \E p \in Procs : Fork(p, i, n)

-----------------------------------------------------------------------------
(* observe: every known process, then the supervisor's own children, then  *)
(* whatever hangs below those.  A process can be born, exit, be adopted or *)
(* reaped between any two of these readings, those of one parent too: its  *)
(* identity, its list of children, and every child the list has named.     *)

ChildrenOf(p) == {i \in shown : Listed(i) /\ parent[i] = p}
HangsBelow(i, n) == parent[i] \in Procs /\ pid[parent[i]] = n

(* Mutant: _record lets a new process replace the one that had its number. *)
RecordsAnyway(i) == TRUE

(* _record refuses a number that is known with another start time.         *)
CanRecord(i) == \A k \in known : pid[k] = pid[i] => k = i
Recorded(seen) == {i \in seen : CanRecord(i)}

Restart ==
    /\ step' = "begin"
    /\ todo' = {} /\ visited' = {} /\ pend' = {}
    /\ reading' = Nobody /\ names' = {}

Goto(s) ==
    /\ stage' = s
    /\ expired' = FALSE
    /\ Restart

(* Mutant: waits for its root too.                                         *)
ReapsRootToo ==
    {j \in Procs : state[j] = "zombie" /\ parent[j] = Supervisor /\ \E k \in known : pid[k] = pid[j]}

(* _reap_known goes by number and leaves the root to Popen.                *)
Reapable ==
    {j \in Procs : /\ state[j] = "zombie" /\ parent[j] = Supervisor
                   /\ \E k \in known \ {Root} : pid[k] = pid[j]}

(* A known process that is gone by now would only be passed over.          *)
LookBegins ==
    /\ stage \in {"watch", "left", "term", "termwait", "survivors", "kill", "killwait", "final"}
    /\ step = "begin"
    /\ stage \in {"termwait", "killwait"} => ~expired
    /\ step' = "known"
    /\ todo' = {i \in known : Listed(i)}
    /\ IF stage \in {"termwait", "killwait", "final"}
       THEN Becomes([j \in Procs |-> IF j \in Reapable THEN "gone" ELSE state[j]], parent, shown)
       ELSE UNCHANGED << state, parent, shown >>
    /\ moved' = {}
    /\ UNCHANGED << pid, ours, doomed, ended, known, visited, visit, pend,
                    target, pinned, stage, expired, code, outcome, callerVars, strayed, intruders >>

(* Mutant: goes by the number of a known process alone.                    *)
IdentifiesNumber(p) ==
    /\ step \in {"known", "adopted"} /\ reading = Nobody
    /\ p \in todo
    /\ todo' = todo \ {p}
    /\ visited' = visited \cup {p}
    /\ reading' = IF \E q \in Procs : Listed(q) /\ pid[q] = pid[p] THEN p ELSE Nobody
    /\ UNCHANGED << known, names, pend, target, pinned, supervision, kernel, callerVars, history >>

(* The identity of one parent; one that is gone, or whose number is        *)
(* another's now, is passed over.                                          *)
Identify(p) ==
    /\ step \in {"known", "adopted"} /\ reading = Nobody
    /\ p \in todo
    /\ todo' = todo \ {p}
    /\ visited' = visited \cup {p}
    /\ reading' = IF Listed(p) THEN p ELSE Nobody
    /\ UNCHANGED << known, names, pend, target, pinned, supervision, kernel, callerVars, history >>

(* The list of children goes by the number, whoever has that by now...     *)
ListsChildren ==
    /\ reading # Nobody /\ names = {}
    /\ names' = {pid[i] : i \in {j \in shown : Listed(j) /\ HangsBelow(j, pid[reading])}}
    /\ reading' = IF names' = {} THEN Nobody ELSE reading
    /\ UNCHANGED << known, todo, visited, pend, target, pinned, supervision,
                    kernel, callerVars, history >>

(* ...and so does the look at each child that it named, which is recorded  *)
(* if its parent still has, or has again, the parent's number.             *)
LooksUp(n) ==
    /\ n \in names
    /\ LET fresh == Recorded({j \in Procs : Listed(j) /\ pid[j] = n /\ HangsBelow(j, pid[reading])})
       IN /\ known' = known \cup fresh
          /\ todo' = (todo \cup IF step = "known" THEN fresh ELSE fresh \ known) \ visited
    /\ names' = names \ {n}
    /\ reading' = IF names' = {} THEN Nobody ELSE reading
    /\ UNCHANGED << visited, pend, target, pinned, supervision, kernel, callerVars, history >>

(* Mutant: adopts only what it had seen below its root before.             *)
AdoptsKnownOnly ==
    /\ step = "known" /\ todo = {} /\ reading = Nobody
    /\ step' = "adopted"
    /\ todo' = (ChildrenOf(Supervisor) \cap known) \ (visited \cup {Root})
    /\ UNCHANGED << known, visited, visit, pend, target, pinned, stage, expired, code, outcome,
                    kernel, callerVars, history >>

(* Every child of a dedicated supervisor is the workload's.  Its list and  *)
(* the looks at those it names are one step, as nobody but the supervisor  *)
(* can reap them and so free their numbers.                                *)
Adopt ==
    /\ step = "known" /\ todo = {} /\ reading = Nobody
    /\ step' = "adopted"
    /\ known' = known \cup Recorded(ChildrenOf(Supervisor))
    /\ todo' = ChildrenOf(Supervisor) \ (visited \cup {Root})
    /\ UNCHANGED << visited, visit, pend, target, pinned, stage, expired, code, outcome,
                    kernel, callerVars, history >>

Looked == step = "adopted" /\ todo = {} /\ reading = Nobody

-----------------------------------------------------------------------------
(* alive and signal take the known processes one by one; what has exited   *)
(* by now would be found dead whenever its turn came.                      *)

EachBegins ==
    /\ Looked /\ stage # "watch"
    /\ step' = "each"
    /\ pend' = {i \in known : Alive(i)} /\ visited' = {}
    /\ UNCHANGED << known, todo, visit, target, pinned, stage, expired, code, outcome,
                    kernel, callerVars, history >>

Asking == stage \in {"left", "termwait", "survivors", "killwait", "final"} /\ step = "each"
Signalling == stage \in {"term", "kill"} /\ step = "each"

FoundDead(i) ==
    /\ Asking \/ (Signalling /\ target = Nobody)
    /\ i \in pend /\ ~Alive(i)
    /\ pend' = pend \ {i}
    /\ UNCHANGED << known, todo, visited, visit, target, pinned, supervision,
                    kernel, callerVars, history >>

SomethingLives == Asking /\ \E i \in pend : Alive(i)
NothingLives == Asking /\ pend = {}

TakesAim(i) ==
    /\ Signalling /\ target = Nobody
    /\ i \in pend /\ Alive(i)
    /\ target' = i
    /\ UNCHANGED << known, todo, visited, visit, pend, pinned, supervision,
                    kernel, callerVars, history >>

(* pidfd_open pins whatever has the number now; nothing may have it.       *)
Pins ==
    /\ Signalling /\ target # Nobody /\ pinned = Nobody
    /\ \/ /\ \E j \in Procs : Listed(j) /\ pid[j] = pid[target] /\ pinned' = j
          /\ UNCHANGED << target, pend >>
       \/ /\ \A j \in Procs : Listed(j) => pid[j] # pid[target]
          /\ pend' = pend \ {target} /\ target' = Nobody
          /\ UNCHANGED pinned
    /\ UNCHANGED << known, todo, visited, visit, supervision, kernel, callerVars, history >>

(* Mutant: sends to what it has pinned.                                    *)
Unverified == TRUE

(* The second look at the start time, with the process pinned.             *)
Verified == Alive(target)

Sends ==
    /\ Signalling /\ pinned # Nobody
    /\ strayed' = (strayed \/ (Verified /\ Alive(pinned) /\ pinned \notin known))
    /\ doomed' = IF stage = "kill" /\ Verified /\ Alive(pinned)
                 THEN doomed \cup {pinned} ELSE doomed
    /\ pend' = pend \ {target} /\ target' = Nobody /\ pinned' = Nobody
    /\ UNCHANGED << state, pid, parent, ours, shown, ended, known, todo, visited,
                    visit, supervision, callerVars, moved, intruders >>

-----------------------------------------------------------------------------
(* The supervisor's program: _run_owned_process_inner and terminate.  Two  *)
(* looks in immediate succession are one.                                  *)

Elsewhere == << known, target, pinned, callerVars, history >>

Launch(n) ==
    /\ stage = "unlaunched"
    /\ \/ /\ Birth(Root, n, Supervisor)
          /\ ours' = {Root} /\ shown' = {Root}
          /\ known' = {Root}
          /\ Goto("watch")
       \/ /\ Goto("done")    \* Popen raises
          /\ UNCHANGED << kernel, known, moved, intruders >>
    /\ UNCHANGED << target, pinned, code, outcome, callerVars, strayed >>

(* Popen.wait: a child that somebody else has reaped counts as a zero.     *)
RootWaited ==
    /\ ~Alive(Root)
    /\ code' = IF state[Root] = "zombie" THEN ended ELSE "zero"
    /\ Becomes([state EXCEPT ![Root] = "gone"], parent, shown)
    /\ UNCHANGED << pid, ours, doomed, ended >>

Watch ==
    /\ stage = "watch" /\ Looked
    /\ \/ /\ expired
          /\ Goto("term") /\ UNCHANGED << code, kernel >>
       \/ ~expired /\ RootWaited /\ Goto("left")
       \/ ~expired /\ Alive(Root) /\ Restart /\ UNCHANGED << stage, expired, code, kernel >>
    /\ UNCHANGED << outcome, Elsewhere >>

(* A normal end that leaves nothing is done; anything else is terminated.  *)
Left ==
    /\ stage = "left"
    /\ \/ SomethingLives /\ Goto("term") /\ UNCHANGED outcome
       \/ /\ NothingLives /\ Goto("done")
          /\ outcome' = [complete |-> TRUE, zero |-> code = "zero"]
    /\ UNCHANGED << code, kernel, Elsewhere >>

Signalled ==
    /\ Signalling /\ pend = {}
    /\ Goto(IF stage = "term" THEN "termwait" ELSE "killwait")
    /\ UNCHANGED << code, outcome, kernel, Elsewhere >>

(* The rounds of a grace period; its end is noticed between two rounds.    *)
Grace ==
    /\ stage \in {"termwait", "killwait"}
    /\ \/ SomethingLives /\ Restart /\ UNCHANGED << stage, expired >>
       \/ /\ NothingLives \/ (step = "begin" /\ expired)
          /\ Goto(IF stage = "termwait" THEN "survivors" ELSE "final")
    /\ UNCHANGED << code, outcome, kernel, Elsewhere >>

Survivors ==
    /\ stage = "survivors"
    /\ \/ SomethingLives /\ Goto("kill")
       \/ NothingLives /\ Goto("final")
    /\ UNCHANGED << code, outcome, kernel, Elsewhere >>

Final ==
    /\ stage = "final"
    /\ SomethingLives \/ NothingLives
    /\ Goto("wait")
    /\ outcome' = [complete |-> NothingLives, zero |-> FALSE]
    /\ UNCHANGED << code, kernel, Elsewhere >>

(* Mutant: waits for the root as long as it takes.                         *)
WaitsForRoot ==
    /\ stage = "wait"
    /\ \/ code = "none" /\ RootWaited
       \/ code # "none" /\ UNCHANGED << code, kernel >>
    /\ Goto("done")
    /\ outcome' = [outcome EXCEPT !.zero = outcome.complete /\ code' = "zero"]
    /\ UNCHANGED Elsewhere

(* The wait for the root is bounded too, and a zero needs a clean end.     *)
Wait ==
    /\ stage = "wait"
    /\ \/ code = "none" /\ RootWaited
       \/ (code # "none" \/ expired) /\ UNCHANGED << code, kernel >>
    /\ Goto("done")
    /\ outcome' = [outcome EXCEPT !.zero = outcome.complete /\ code' = "zero"]
    /\ UNCHANGED Elsewhere

(* The end of the supervisor, of its memory, and of its tree as a tree:    *)
(* nobody is the subreaper of what remains.                                *)
SupervisorEnds ==
    /\ Goto("gone")
    /\ Becomes([j \in Procs |->
                  IF state[j] = "zombie" /\ parent[j] = Supervisor THEN "gone" ELSE state[j]],
               [j \in Procs |-> IF parent[j] = Supervisor THEN Nobody ELSE parent[j]],
               shown)
    /\ target' = Nobody /\ pinned' = Nobody
    /\ known' = {} /\ code' = "none" /\ moved' = {} /\ intruders' = {}
    /\ UNCHANGED << pid, ours, doomed, ended, strayed >>

SupervisorExits ==
    /\ stage = "done"
    /\ SupervisorEnds
    /\ UNCHANGED << outcome, callerVars >>

SupervisorNext ==
    \/ LookBegins \/ (\E p \in Procs : Identify(p)) \/ ListsChildren
    \/ (\E n \in Pids : LooksUp(n)) \/ Adopt \/ EachBegins
    \/ (\E i \in Procs : FoundDead(i) \/ TakesAim(i)) \/ Pins \/ Sends
    \/ (\E n \in Pids : Launch(n)) \/ Watch \/ Left \/ Signalled \/ Grace
    \/ Survivors \/ Final \/ Wait \/ SupervisorExits

(* A deadline or a grace period passes, or the caller's timeout or an      *)
(* interruption makes it call supervisor.terminate(): the watching loop    *)
(* takes its _STOP_SIGNAL for the deadline, and nothing else reads it.     *)
(* It is told only where the clock is read next.                           *)
Expires ==
    /\ \/ stage = "watch" /\ Looked
       \/ stage \in {"termwait", "killwait", "wait"} /\ step = "begin"
    /\ ~expired /\ expired' = TRUE
    /\ UNCHANGED << stage, step, code, outcome, tree, kernel, callerVars, history >>

-----------------------------------------------------------------------------
(* The caller, run_owned_process.                                          *)

(* supervisor.kill(); something else may kill it, too.                     *)
SupervisorKilled ==
    /\ stage \notin {"done", "gone"}
    /\ SupervisorEnds
    /\ outcome' = NoOutcome
    /\ UNCHANGED callerVars

(* What it reads, or "supervisor outcome unavailable".                     *)
CallerReturns ==
    /\ stage = "gone" /\ caller # "returned"
    /\ caller' = "returned"
    /\ result' = outcome
    /\ UNCHANGED << kernel, tree, supervision, history >>

(* What processes do when nobody looks any more is left out.               *)
Next ==
    \/ (Supervised /\ KernelNext) \/ SupervisorNext \/ Expires
    \/ SupervisorKilled \/ CallerReturns

Spec == Init /\ [][Next]_treeVars

(* The supervisor and the caller run, and clocks advance, so that one that *)
(* is read again and again is found to be over; nothing is assumed of the  *)
(* workload, not even that it dies of a SIGKILL.                           *)
FairSpec ==
    /\ Spec
    /\ WF_treeVars(SupervisorNext) /\ SF_treeVars(Expires) /\ WF_treeVars(CallerReturns)

-----------------------------------------------------------------------------
(* "Every signal is guarded by the /proc/<pid>/stat start time captured    *)
(* for that process": however numbers are reused between finding a         *)
(* process, pinning it and sending, no signal reaches a process other than *)
(* one that was registered.                                                *)
OnlyKnownSignalled == ~strayed

(* What is registered is the workload's, however processes come and go,    *)
(* with one exception, which is the code's own: a stranger that gets the   *)
(* number of a parent in the middle of its visit, after the check of the   *)
(* identity (295, 339), passes its children off as the workload's, for the *)
(* list of them and the looks at them (298, 342) go by that number.        *)
KnownIsWorkload == known \subseteq ours \cup intruders

(* "cleanup_complete" means that nothing is left, with two exceptions that *)
(* the code cannot see: what was born or adopted during the last look, and *)
(* an orphan whose number another process of the workload had before.      *)
(* What hangs below a living process is not mentioned: that one is found.  *)
CompleteIsClean ==
    stage \in {"wait", "done"} /\ outcome.complete =>
        \A i \in ours \ moved :
            Alive(i) /\ parent[i] = Supervisor => \E k \in known : k # i /\ pid[k] = pid[i]

(* The caller is told of a success only if the workload's first process    *)
(* did exit with 0 and the cleanup was complete: its status is not lost to *)
(* the reaping of orphans, nor made up by a supervisor that died.          *)
SuccessIsReal == result.zero => result.complete /\ ended = "zero"

(* A workload that ignores its signals, or cannot even be killed, does not *)
(* keep the supervisor or its caller: the run ends.                        *)
RunEnds == <>(caller = "returned")
=============================================================================
