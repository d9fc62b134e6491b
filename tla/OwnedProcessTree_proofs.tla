------------------------ MODULE OwnedProcessTree_proofs ------------------------
(***************************************************************************)
(* The safety properties of OwnedProcessTree for any number of processes   *)
(* and any set of numbers they share.                                      *)
(***************************************************************************)
EXTENDS OwnedProcessTree, TLAPS

(* Where processes come from: what hangs below a process of the workload,  *)
(* or below the supervisor, is of the workload; what hangs below one that  *)
(* has taken the number of a parent during its visit is an intruder's.     *)
Lineage ==
    /\ \A i \in ours \cup intruders : state[i] # "unborn"
    /\ \A i \in Procs : state[i] = "unborn" => parent[i] = Nobody
    /\ \A i \in Procs : parent[i] \in Procs => Alive(parent[i])
    /\ \A i \in Procs : parent[i] = Supervisor \/ parent[i] \in ours => i \in ours
    /\ \A i \in Procs : parent[i] \in intruders => i \in intruders
    /\ \A i \in Procs : parent[i] = Supervisor => i \in shown
    /\ stage = "unlaunched" =>
          /\ \A i \in Procs : state[i] = "unborn"
          /\ ours = {} /\ known = {} /\ code = "none" /\ outcome = NoOutcome
          /\ step = "begin"

(* What the supervisor has in its hands: whoever has the number of the     *)
(* parent it is busy with, and whatever it has recorded, is of the         *)
(* workload or an intruder; it signals what it has recorded; a pinned      *)
(* process is the one aimed at, unless that is gone.                       *)
Ownership ==
    /\ known \cup todo \subseteq ours \cup intruders
    /\ reading \in ours \cup intruders \cup {Nobody}
    /\ names # {} => reading # Nobody
    /\ reading # Nobody =>
          \A j \in Procs : Listed(j) /\ pid[j] = pid[reading] => j \in ours \cup intruders
    /\ pend \subseteq known /\ target \in known \cup {Nobody}
    /\ pinned # Nobody =>
          target # Nobody /\ (Listed(target) => pinned = target)
    /\ ~strayed

(* What becomes of the root's exit status.                                 *)
RootStatus ==
    /\ state[Root] \in {"zombie", "gone"} => ended # "no"
    /\ stage \notin {"unlaunched", "done", "gone"} =>
          /\ Root \in known
          /\ code = "none" => parent[Root] = Supervisor /\ Listed(Root)
    /\ stage = "watch" => code = "none"
    /\ code = "zero" => ended = "zero" /\ state[Root] \in {"zombie", "gone"}
    /\ outcome.zero => outcome.complete /\ ended = "zero" /\ state[Root] \in {"zombie", "gone"}
    /\ result.zero => result.complete /\ ended = "zero" /\ state[Root] \in {"zombie", "gone"}

(* What the last look has established so far.                              *)
LastLook ==
    /\ stage \in {"wait", "done", "gone"} => step = "begin"
    /\ step \in {"begin", "each"} => reading = Nobody
    /\ \/ stage \in {"left", "final"} /\ step \in {"adopted", "each"}
       \/ stage \in {"wait", "done"} /\ outcome.complete
       => \A i \in ours \ moved :
             Alive(i) /\ parent[i] = Supervisor =>
                i \in known \/ \E k \in known : k # i /\ pid[k] = pid[i]
    /\ stage \in {"left", "final"} /\ step = "each" => \A i \in known \ pend : ~Alive(i)
    /\ stage \in {"wait", "done"} /\ outcome.complete => \A i \in known : ~Alive(i)

TreeInv == TreeTypeOK /\ Lineage /\ Ownership /\ RootStatus /\ LastLook

-----------------------------------------------------------------------------
(* How the steps treat processes that exist.                               *)

LEMMA RootIsProc == Root \in Procs
BY TreeAssumption DEF Root, Procs

LEMMA Names == Supervisor \notin Procs /\ Nobody \notin Procs /\ Supervisor # Nobody
BY TreeAssumption

(* No process comes back, and none changes its number.                     *)
Ages ==
    \A j \in Procs :
        /\ pid'[j] = pid[j]
        /\ state'[j] = "unborn" <=> state[j] = "unborn"
        /\ state'[j] = "running" => state[j] = "running"
        /\ Listed(j)' => Listed(j)

(* A step that lets zombies vanish, and processes lose the supervisor.     *)
Reaps ==
    /\ pid' = pid
    /\ \A j \in Procs :
          /\ state'[j] = state[j] \/ (state[j] = "zombie" /\ state'[j] = "gone")
          /\ parent'[j] \in {parent[j], Nobody}
          /\ parent'[j] = parent[j] /\ parent[j] # Nobody => j \notin shown \/ j \in shown'

LEMMA BecomesTypes ==
    ASSUME TreeTypeOK, NEW states \in [Procs -> States], NEW parents, NEW listed,
           Becomes(states, parents, listed), listed \subseteq Procs,
           \A j \in Procs : parents[j] \in Procs \cup {Supervisor, Nobody}
    PROVE  /\ state' = states
           /\ parent' \in [Procs -> Procs \cup {Supervisor, Nobody}]
           /\ shown' \subseteq Procs
           /\ \A j \in Procs : parent'[j] = IF states[j] = "gone" THEN Nobody ELSE parents[j]
BY DEF Becomes

LEMMA ReapsAges == ASSUME Reaps PROVE Ages
BY DEF Reaps, Ages, Listed

(* A step that leaves the kernel alone, or only makes processes vanish.    *)
LEMMA StandsStill == ASSUME UNCHANGED << state, pid, parent, shown >> PROVE Reaps
BY DEF Reaps

LEMMA BecomesReaps ==
    ASSUME TreeTypeOK, NEW states \in [Procs -> States], pid' = pid,
           Becomes(states, parent, shown),
           \A j \in Procs : states[j] = state[j] \/ (state[j] = "zombie" /\ states[j] = "gone")
    PROVE  /\ Reaps
           /\ state' = states
           /\ parent' \in [Procs -> Procs \cup {Supervisor, Nobody}] /\ shown' \subseteq Procs
           /\ \A j \in Procs : states[j] # "gone" => parent'[j] = parent[j]
<1>1. /\ \A j \in Procs : parent[j] \in Procs \cup {Supervisor, Nobody}
      /\ shown \subseteq Procs
  BY DEF TreeTypeOK
<1>2. /\ state' = states /\ shown' = {j \in shown : states[j] # "gone"}
      /\ parent' \in [Procs -> Procs \cup {Supervisor, Nobody}] /\ shown' \subseteq Procs
      /\ \A j \in Procs : parent'[j] = IF states[j] = "gone" THEN Nobody ELSE parent[j]
  BY <1>1, BecomesTypes DEF Becomes
<1>. QED  BY <1>2 DEF Reaps

LEMMA ExitAges ==
    ASSUME TreeTypeOK, NEW i \in Procs, Exit(i)
    PROVE  /\ Ages
           /\ state' \in [Procs -> States]
           /\ parent' \in [Procs -> Procs \cup {Supervisor, Nobody}]
           /\ shown' \subseteq Procs
           /\ state'[i] \in {"zombie", "gone"}
           /\ \A j \in Procs \ {i} : state'[j] # state[j] =>
                 parent[j] = i /\ state[j] = "zombie" /\ state'[j] = "gone"
           /\ parent[i] # Nobody => state'[i] = "zombie"
           /\ \A j \in Procs : parent'[j] =
                 IF state'[j] = "gone" THEN Nobody
                 ELSE IF j \in Bereft(i) THEN ReaperOf(i) ELSE parent[j]
           /\ shown' = {j \in shown \cup Bereft(i) : state'[j] # "gone"}
<1>. DEFINE New(j) ==
          CASE j = i /\ parent[j] = Nobody -> "gone"
            [] j = i /\ parent[j] # Nobody -> "zombie"
            [] j \in Bereft(i) /\ state[j] = "zombie" /\ ReaperOf(i) = Nobody -> "gone"
            [] OTHER -> state[j]
<1>. DEFINE Above == [j \in Procs |-> IF j \in Bereft(i) THEN ReaperOf(i) ELSE parent[j]]
<1>1. /\ Becomes([j \in Procs |-> New(j)], Above, shown \cup Bereft(i))
      /\ pid' = pid /\ state[i] = "running"
  BY Zenon DEF Exit, Alive
<1>2. New(i) \in {"zombie", "gone"} /\ (parent[i] # Nobody => New(i) = "zombie")
  BY <1>1 DEF Bereft
<1>3. ASSUME NEW j \in Procs, j # i
      PROVE  /\ New(j) = state[j] \/ (New(j) = "gone" /\ state[j] = "zombie" /\ parent[j] = i)
  BY <1>3 DEF Bereft
<1>4. \A j \in Procs : Above[j] \in Procs \cup {Supervisor, Nobody}
  BY DEF ReaperOf, TreeTypeOK
<1>5. shown \cup Bereft(i) \subseteq Procs
  BY DEF Bereft, TreeTypeOK
<1>. HIDE DEF New
<1>6. [j \in Procs |-> New(j)] \in [Procs -> States]
  BY <1>2, <1>3 DEF TreeTypeOK, States
<1>7. /\ state' = [j \in Procs |-> New(j)]
      /\ parent' \in [Procs -> Procs \cup {Supervisor, Nobody}] /\ shown' \subseteq Procs
      /\ \A j \in Procs : parent'[j] = IF state'[j] = "gone" THEN Nobody ELSE Above[j]
      /\ shown' = {j \in shown \cup Bereft(i) : state'[j] # "gone"}
  <2>. HIDE DEF Above
  <2>1. /\ state' = [j \in Procs |-> New(j)]
        /\ shown' = {j \in shown \cup Bereft(i) : [k \in Procs |-> New(k)][j] # "gone"}
    BY <1>1, Zenon DEF Becomes
  <2>. QED  BY <1>1, <1>4, <1>5, <1>6, <2>1, BecomesTypes
<1>8. \A j \in Procs : state'[j] = New(j)
  BY <1>7
<1>9. Ages
  BY <1>1, <1>2, <1>3, <1>8 DEF Ages, Listed, TreeTypeOK, States
<1>. QED  BY <1>2, <1>3, <1>6, <1>7, <1>8, <1>9

LEMMA ParentReapsZombie ==
    ASSUME TreeTypeOK, NEW i \in Procs, ParentReaps(i)
    PROVE  /\ Reaps
           /\ state[i] = "zombie" /\ parent[i] # Supervisor
           /\ state' = [state EXCEPT ![i] = "gone"]
           /\ state' \in [Procs -> States]
           /\ parent' \in [Procs -> Procs \cup {Supervisor, Nobody}] /\ shown' \subseteq Procs
           /\ \A j \in Procs : state'[j] # "gone" => parent'[j] = parent[j]
<1>. DEFINE states == [state EXCEPT ![i] = "gone"]
<1>1. /\ Becomes(states, parent, shown) /\ pid' = pid
      /\ state[i] = "zombie" /\ parent[i] \in Procs
  BY DEF ParentReaps
<1>2. states \in [Procs -> States]
  BY DEF TreeTypeOK, States
<1>3. \A j \in Procs : states[j] = state[j] \/ (state[j] = "zombie" /\ states[j] = "gone")
  BY <1>1 DEF TreeTypeOK
<1>4. parent[i] # Supervisor
  BY <1>1, Names
<1>. HIDE DEF states
<1>5. /\ Reaps /\ state' = states
      /\ parent' \in [Procs -> Procs \cup {Supervisor, Nobody}] /\ shown' \subseteq Procs
      /\ \A j \in Procs : states[j] # "gone" => parent'[j] = parent[j]
  BY <1>1, <1>2, <1>3, BecomesReaps
<1>. QED  BY <1>1, <1>2, <1>4, <1>5 DEF states

-----------------------------------------------------------------------------
(* The types, and that numbers tell processes apart.                       *)

LEMMA InitTypes == Init => TreeTypeOK
<1>. HAVE Init
<1>1. \A i \in Procs : pid[i] \in Pids
  BY TreeAssumption DEF Init
<1>. QED  BY <1>1 DEF Init, TreeTypeOK, States, Stages, Outcomes, NoOutcome, Listed

(* A birth: the process is new, and so is its number among the living.     *)
LEMMA BirthTypes ==
    ASSUME TreeTypeOK, Lineage, Ownership,
           NEW i \in Procs, NEW n \in Pids, NEW above \in Procs \cup {Supervisor, Nobody},
           Birth(i, n, above)
    PROVE  /\ state' \in [Procs -> States] /\ pid' \in [Procs -> Pids]
           /\ parent' \in [Procs -> Procs \cup {Supervisor, Nobody}]
           /\ moved' \subseteq Procs /\ intruders' \subseteq Procs
           /\ state[i] = "unborn" /\ i \notin known
           /\ \A j \in Procs \ {i} : state'[j] = state[j] /\ pid'[j] = pid[j]
           /\ \A j, k \in Procs : Listed(j)' /\ Listed(k)' /\ pid'[j] = pid'[k] => j = k
<1>1. state[i] = "unborn" /\ i \notin known
  BY DEF Birth, Lineage, Ownership
<1>2. /\ state' = [state EXCEPT ![i] = "running"]
      /\ pid' = [pid EXCEPT ![i] = n]
      /\ parent' = [parent EXCEPT ![i] = above]
      /\ moved' \subseteq moved \cup {i} /\ intruders' \subseteq intruders \cup {i}
      /\ \A j \in Procs : Listed(j) => pid[j] # n
  BY DEF Birth
<1>3. /\ state' \in [Procs -> States] /\ pid' \in [Procs -> Pids]
      /\ parent' \in [Procs -> Procs \cup {Supervisor, Nobody}]
      /\ moved' \subseteq Procs /\ intruders' \subseteq Procs
  BY <1>2 DEF TreeTypeOK, States
<1>4. /\ \A j \in Procs \ {i} : state'[j] = state[j] /\ pid'[j] = pid[j]
      /\ pid'[i] = n
  BY <1>2 DEF TreeTypeOK
<1>5. \A j, k \in Procs : Listed(j)' /\ Listed(k)' /\ pid'[j] = pid'[k] => j = k
  BY <1>2, <1>4 DEF TreeTypeOK, Listed
<1>. QED  BY <1>1, <1>3, <1>4, <1>5

LEMMA KernelTypes ==
    ASSUME TreeTypeOK, Lineage, Ownership, KernelNext
    PROVE  TreeTypeOK'
<1>. USE DEF tree, visit, supervision, callerVars, history
<1>1. ASSUME NEW i \in Procs, Exit(i)
      PROVE  TreeTypeOK'
  <2>1. /\ Ages /\ state' \in [Procs -> States]
        /\ parent' \in [Procs -> Procs \cup {Supervisor, Nobody}] /\ shown' \subseteq Procs
    BY <1>1, ExitAges
  <2>2. moved' \subseteq Procs /\ doomed' \subseteq Procs
    BY <1>1 DEF Exit, Bereft, TreeTypeOK
  <2>3. ended' \in {"no", "zero", "nonzero"}
    BY <1>1 DEF Exit, TreeTypeOK
  <2>4. \A j, k \in Procs : Listed(j)' /\ Listed(k)' /\ pid'[j] = pid'[k] => j = k
    BY <2>1 DEF Ages, TreeTypeOK
  <2>5. /\ UNCHANGED << pid, ours, known, todo, visited, reading, names, pend, target, pinned >>
        /\ UNCHANGED << stage, step, expired, code, outcome, caller, result, strayed, intruders >>
    BY <1>1 DEF Exit
  <2>. QED  BY <2>1, <2>2, <2>3, <2>4, <2>5 DEF TreeTypeOK
<1>2. ASSUME NEW i \in Procs, ParentReaps(i)
      PROVE  TreeTypeOK'
  <2>1. /\ Ages /\ state' \in [Procs -> States]
        /\ parent' \in [Procs -> Procs \cup {Supervisor, Nobody}] /\ shown' \subseteq Procs
    BY <1>2, ParentReapsZombie, ReapsAges
  <2>2. \A j, k \in Procs : Listed(j)' /\ Listed(k)' /\ pid'[j] = pid'[k] => j = k
    BY <2>1 DEF Ages, TreeTypeOK
  <2>3. UNCHANGED << pid, ours, doomed, ended, tree, supervision, callerVars, history >>
    BY <1>2 DEF ParentReaps
  <2>. QED  BY <2>1, <2>2, <2>3 DEF TreeTypeOK
<1>3. ASSUME NEW i \in Procs, NEW n \in Pids, StrangerStarts(i, n)
      PROVE  TreeTypeOK'
  <2>1. Birth(i, n, Nobody) /\ UNCHANGED << ours, shown, tree, supervision, callerVars, strayed >>
    BY <1>3 DEF StrangerStarts
  <2>2. UNCHANGED << doomed, ended >>
    BY <2>1 DEF Birth
  <2>. QED  BY <2>1, <2>2, BirthTypes DEF TreeTypeOK
<1>4. ASSUME NEW i \in Procs, NEW n \in Pids, NEW p \in Procs, Fork(p, i, n)
      PROVE  TreeTypeOK'
  <2>1. /\ Birth(i, n, p) /\ UNCHANGED << tree, supervision, callerVars, strayed >>
        /\ ours' \subseteq ours \cup {i} /\ shown' \subseteq shown \cup {i}
    BY <1>4 DEF Fork
  <2>2. UNCHANGED << doomed, ended >>
    BY <2>1 DEF Birth
  <2>. QED  BY <2>1, <2>2, BirthTypes DEF TreeTypeOK
<1>. QED  BY <1>1, <1>2, <1>3, <1>4 DEF KernelNext

(* What observe records keeps the numbers of known processes apart.        *)
LEMMA RecordedApart ==
    ASSUME TreeTypeOK, NEW seen, seen \subseteq {i \in Procs : Listed(i)}
    PROVE  \A i, j \in known \cup Recorded(seen) : pid[i] = pid[j] => i = j
BY DEF Recorded, CanRecord, TreeTypeOK

LEMMA ChildrenAreListed ==
    ASSUME TreeTypeOK, NEW p
    PROVE  ChildrenOf(p) \subseteq {i \in Procs : Listed(i)}
BY DEF ChildrenOf, TreeTypeOK

(* The reaping of known zombies at the beginning of a look.                *)
LEMMA LookReaps ==
    ASSUME TreeTypeOK, LookBegins
    PROVE  /\ Reaps
           /\ state' \in [Procs -> States]
           /\ parent' \in [Procs -> Procs \cup {Supervisor, Nobody}] /\ shown' \subseteq Procs
           /\ \A j \in Procs : j \notin Reapable => state'[j] = state[j]
           /\ \A j \in Procs : state'[j] # "gone" => parent'[j] = parent[j]
<1>. DEFINE states == [j \in Procs |-> IF j \in Reapable THEN "gone" ELSE state[j]]
<1>1. \/ Becomes(states, parent, shown)
      \/ UNCHANGED << state, parent, shown >>
  BY Zenon DEF LookBegins
<1>2. pid' = pid
  BY DEF LookBegins
<1>3. states \in [Procs -> States]
  BY DEF TreeTypeOK, States
<1>4. \A j \in Procs : /\ states[j] = state[j] \/ (state[j] = "zombie" /\ states[j] = "gone")
                       /\ j \notin Reapable => states[j] = state[j]
  BY DEF Reapable
<1>5. CASE UNCHANGED << state, parent, shown >>
  BY <1>2, <1>5, StandsStill DEF TreeTypeOK
<1>6. CASE Becomes(states, parent, shown)
  <2>. HIDE DEF states
  <2>. QED  BY <1>2, <1>3, <1>4, <1>6, BecomesReaps
<1>. QED  BY <1>1, <1>5, <1>6

LEMMA LookTypes ==
    ASSUME TreeTypeOK
    PROVE  /\ LookBegins => TreeTypeOK'
           /\ \A p \in Procs : Identify(p) => TreeTypeOK'
           /\ ListsChildren => TreeTypeOK'
           /\ \A n \in Pids : LooksUp(n) => TreeTypeOK'
           /\ Adopt => TreeTypeOK'
           /\ EachBegins => TreeTypeOK'
           /\ \A i \in Procs : FoundDead(i) \/ TakesAim(i) => TreeTypeOK'
           /\ Pins => TreeTypeOK'
           /\ Sends => TreeTypeOK'
<1>. USE DEF kernel, visit, supervision, callerVars, history
<1>1. ASSUME LookBegins PROVE TreeTypeOK'
  <2>1. /\ Ages /\ state' \in [Procs -> States]
        /\ parent' \in [Procs -> Procs \cup {Supervisor, Nobody}] /\ shown' \subseteq Procs
    BY <1>1, LookReaps, ReapsAges
  <2>2. \A j, k \in Procs : Listed(j)' /\ Listed(k)' /\ pid'[j] = pid'[k] => j = k
    BY <2>1 DEF Ages, TreeTypeOK
  <2>3. /\ todo' \subseteq known /\ step' = "known" /\ moved' = {}
        /\ UNCHANGED << pid, ours, doomed, ended, known, visited, reading, names, pend >>
        /\ UNCHANGED << target, pinned, stage, expired, code, outcome, callerVars, strayed,
                        intruders >>
    BY <1>1 DEF LookBegins
  <2>. QED  BY <2>1, <2>2, <2>3 DEF TreeTypeOK
<1>2. ASSUME NEW p \in Procs, Identify(p) PROVE TreeTypeOK'
  BY <1>2 DEF Identify, TreeTypeOK, Listed
<1>8. ASSUME ListsChildren PROVE TreeTypeOK'
  <2>1. names' \subseteq Pids /\ reading' \in Procs \cup {Nobody}
    BY <1>8 DEF ListsChildren, TreeTypeOK
  <2>2. UNCHANGED << known, todo, visited, pend, target, pinned, supervision, kernel,
                     callerVars, history >>
    BY <1>8 DEF ListsChildren
  <2>. QED  BY <2>1, <2>2 DEF TreeTypeOK, Listed
<1>9. ASSUME NEW n \in Pids, LooksUp(n) PROVE TreeTypeOK'
  <2>. DEFINE seen == {j \in Procs : Listed(j) /\ pid[j] = n /\ HangsBelow(j, pid[reading])}
  <2>1. known' = known \cup Recorded(seen)
    BY <1>9 DEF LooksUp
  <2>2. \A i, j \in known' : pid[i] = pid[j] => i = j
    BY <2>1, RecordedApart
  <2>3. Recorded(seen) \subseteq Procs
    BY DEF Recorded
  <2>4. /\ todo' \subseteq todo \cup Recorded(seen) /\ names' \subseteq names
        /\ reading' \in {reading, Nobody}
    BY <1>9 DEF LooksUp
  <2>5. UNCHANGED << visited, pend, target, pinned, supervision, kernel, callerVars, history >>
    BY <1>9 DEF LooksUp
  <2>. HIDE DEF seen
  <2>. QED  BY <2>1, <2>2, <2>3, <2>4, <2>5 DEF TreeTypeOK, Listed
<1>3. ASSUME Adopt PROVE TreeTypeOK'
  <2>1. known' = known \cup Recorded(ChildrenOf(Supervisor))
    BY <1>3 DEF Adopt
  <2>2. \A i, j \in known' : pid[i] = pid[j] => i = j
    BY <2>1, RecordedApart, ChildrenAreListed
  <2>3. known' \subseteq Procs /\ todo' \subseteq Procs /\ step' = "adopted"
    BY <1>3, ChildrenAreListed DEF Adopt, Recorded, TreeTypeOK
  <2>4. UNCHANGED << visited, visit, pend, target, pinned, stage, expired, code, outcome,
                     kernel, callerVars, history >>
    BY <1>3 DEF Adopt
  <2>. QED  BY <2>2, <2>3, <2>4 DEF TreeTypeOK, Listed
<1>4. ASSUME EachBegins PROVE TreeTypeOK'
  BY <1>4 DEF EachBegins, TreeTypeOK, Listed
<1>5. ASSUME NEW i \in Procs, FoundDead(i) \/ TakesAim(i) PROVE TreeTypeOK'
  BY <1>5 DEF FoundDead, TakesAim, TreeTypeOK, Listed
<1>6. ASSUME Pins PROVE TreeTypeOK'
  BY <1>6 DEF Pins, TreeTypeOK, Listed
<1>7. ASSUME Sends PROVE TreeTypeOK'
  <2>1. doomed' \subseteq Procs
    BY <1>7, Names DEF Sends, TreeTypeOK
  <2>2. strayed' \in BOOLEAN
    BY <1>7 DEF Sends
  <2>. QED  BY <1>7, <2>1, <2>2 DEF Sends, TreeTypeOK, Listed
<1>. QED  BY <1>1, <1>2, <1>3, <1>4, <1>5, <1>6, <1>7, <1>8, <1>9

(* A wait for the root, and the end of the supervisor, in the kernel.      *)
LEMMA WaitedKernel ==
    ASSUME TreeTypeOK, Lineage, Ownership, RootStatus, stage \in {"watch", "wait"}, RootWaited,
           code = "none"
    PROVE  /\ Reaps
           /\ state' \in [Procs -> States]
           /\ parent' \in [Procs -> Procs \cup {Supervisor, Nobody}] /\ shown' \subseteq Procs
           /\ code' = ended /\ code' \in {"zero", "nonzero"}
           /\ state'[Root] = "gone"
           /\ UNCHANGED << pid, ours, doomed, ended >>
<1>. USE RootIsProc
<1>. DEFINE states == [state EXCEPT ![Root] = "gone"]
<1>1. state[Root] = "zombie" /\ ended # "no"
  BY DEF RootWaited, RootStatus, Listed, Alive
<1>2. /\ Becomes(states, parent, shown)
      /\ code' = ended /\ UNCHANGED << pid, ours, doomed, ended >>
  BY <1>1 DEF RootWaited
<1>3. states \in [Procs -> States] /\ states[Root] = "gone"
  BY DEF TreeTypeOK, States
<1>4. \A j \in Procs : states[j] = state[j] \/ (state[j] = "zombie" /\ states[j] = "gone")
  BY <1>1 DEF TreeTypeOK
<1>. HIDE DEF states
<1>5. /\ Reaps /\ state' = states
      /\ parent' \in [Procs -> Procs \cup {Supervisor, Nobody}] /\ shown' \subseteq Procs
  BY <1>2, <1>3, <1>4, BecomesReaps
<1>. QED  BY <1>1, <1>2, <1>3, <1>5 DEF TreeTypeOK

LEMMA EndsKernel ==
    ASSUME TreeTypeOK, SupervisorEnds
    PROVE  /\ Reaps
           /\ state' \in [Procs -> States]
           /\ parent' \in [Procs -> Procs \cup {Supervisor, Nobody}] /\ shown' \subseteq Procs
           /\ \A j \in Procs : parent'[j] # Supervisor
           /\ stage' = "gone" /\ todo' = {} /\ pend' = {} /\ visited' = {} /\ step' = "begin"
           /\ reading' = Nobody /\ names' = {} /\ known' = {} /\ code' = "none"
           /\ target' = Nobody /\ pinned' = Nobody /\ expired' = FALSE
           /\ moved' = {} /\ intruders' = {}
           /\ UNCHANGED << pid, ours, doomed, ended, strayed >>
<1>. DEFINE states == [j \in Procs |->
                         IF state[j] = "zombie" /\ parent[j] = Supervisor THEN "gone" ELSE state[j]]
<1>. DEFINE parents == [j \in Procs |-> IF parent[j] = Supervisor THEN Nobody ELSE parent[j]]
<1>1. Becomes(states, parents, shown)
  BY Zenon DEF SupervisorEnds
<1>2. /\ stage' = "gone" /\ todo' = {} /\ pend' = {} /\ visited' = {} /\ step' = "begin"
      /\ reading' = Nobody /\ names' = {} /\ known' = {} /\ code' = "none"
      /\ target' = Nobody /\ pinned' = Nobody /\ expired' = FALSE
      /\ moved' = {} /\ intruders' = {}
      /\ UNCHANGED << pid, ours, doomed, ended, strayed >>
  BY DEF SupervisorEnds, Goto, Restart
<1>3. states \in [Procs -> States]
  BY DEF TreeTypeOK, States
<1>4. \A j \in Procs : states[j] = state[j] \/ (state[j] = "zombie" /\ states[j] = "gone")
  OBVIOUS
<1>5. \A j \in Procs : parents[j] \in Procs \cup {Nobody} /\ parents[j] \in {parent[j], Nobody}
  BY DEF TreeTypeOK
<1>6. shown \subseteq Procs
  BY DEF TreeTypeOK
<1>. HIDE DEF states, parents
<1>7. /\ state' = states
      /\ parent' \in [Procs -> Procs \cup {Supervisor, Nobody}] /\ shown' \subseteq Procs
      /\ \A j \in Procs : parent'[j] = IF states[j] = "gone" THEN Nobody ELSE parents[j]
  BY <1>1, <1>3, <1>5, <1>6, BecomesTypes
<1>8. shown' = {j \in shown : states[j] # "gone"}
  BY <1>1 DEF Becomes
<1>9. Reaps
  BY <1>2, <1>4, <1>5, <1>7, <1>8 DEF Reaps
<1>. QED  BY <1>2, <1>3, <1>5, <1>7, <1>9, Names

(* Living processes keep differing in their numbers while none is born.    *)
LEMMA StillApart ==
    ASSUME TreeTypeOK, Ages
    PROVE  /\ \A i, j \in Procs : Listed(i)' /\ Listed(j)' /\ pid'[i] = pid'[j] => i = j
           /\ \A i, j \in known : pid'[i] = pid'[j] => i = j
BY DEF TreeTypeOK, Ages

LEMMA AnOutcome ==
    /\ \A a, b \in BOOLEAN : [complete |-> a, zero |-> b] \in Outcomes
    /\ \A o \in Outcomes, b \in BOOLEAN :
          /\ [o EXCEPT !.zero = b] \in Outcomes
          /\ [o EXCEPT !.zero = b].complete = o.complete
          /\ [o EXCEPT !.zero = b].zero = b
    /\ NoOutcome \in Outcomes /\ ~NoOutcome.complete /\ ~NoOutcome.zero
BY DEF Outcomes, NoOutcome

LEMMA ProgramTypes ==
    ASSUME TreeTypeOK, Lineage, Ownership, RootStatus
    PROVE  /\ \A n \in Pids : Launch(n) => TreeTypeOK'
           /\ Watch => TreeTypeOK'
           /\ Left \/ Signalled \/ Grace \/ Survivors \/ Final => TreeTypeOK'
           /\ Wait => TreeTypeOK'
           /\ SupervisorExits \/ SupervisorKilled => TreeTypeOK'
           /\ Expires \/ CallerReturns => TreeTypeOK'
<1>. USE DEF kernel, tree, visit, supervision, callerVars, history, Goto, Restart, Elsewhere, Stages
<1>1. ASSUME NEW n \in Pids, Launch(n) PROVE TreeTypeOK'
  <2>1. CASE /\ Birth(Root, n, Supervisor) /\ Goto("watch")
             /\ ours' = {Root} /\ shown' = {Root} /\ known' = {Root}
    <3>1. UNCHANGED << doomed, ended, target, pinned, code, outcome, callerVars, strayed >>
      BY <1>1, <2>1 DEF Launch, Birth
    <3>. QED  BY <2>1, <3>1, BirthTypes, RootIsProc DEF TreeTypeOK
  <2>2. CASE Goto("done") /\ UNCHANGED << kernel, known, moved, intruders >>
    BY <1>1, <2>2 DEF Launch, TreeTypeOK, Listed
  <2>. QED  BY <1>1, <2>1, <2>2 DEF Launch
<1>2. ASSUME Watch PROVE TreeTypeOK'
  <2>1. CASE UNCHANGED << code, kernel >>
    BY <1>2, <2>1 DEF Watch, TreeTypeOK, Listed
  <2>2. CASE RootWaited /\ Goto("left")
    <3>1. stage = "watch" /\ code = "none" /\ UNCHANGED << outcome, Elsewhere >>
      BY <1>2 DEF Watch, RootStatus
    <3>. QED  BY <2>2, <3>1, WaitedKernel, ReapsAges, StillApart DEF TreeTypeOK
  <2>. QED  BY <1>2, <2>1, <2>2 DEF Watch
<1>3. ASSUME Left \/ Signalled \/ Grace \/ Survivors \/ Final PROVE TreeTypeOK'
  <2>1. UNCHANGED << code, kernel, known, target, pinned, callerVars, history >>
    BY <1>3 DEF Left, Signalled, Grace, Survivors, Final
  <2>2. outcome' \in Outcomes
    <3>1. /\ outcome \in Outcomes
          /\ (code = "zero") \in BOOLEAN /\ NothingLives \in BOOLEAN
      BY DEF TreeTypeOK, NothingLives
    <3>2. \/ outcome' = outcome
          \/ outcome' = [complete |-> TRUE, zero |-> code = "zero"]
          \/ outcome' = [complete |-> NothingLives, zero |-> FALSE]
      BY <1>3 DEF Left, Signalled, Grace, Survivors, Final
    <3>. QED  BY <3>1, <3>2, AnOutcome, Zenon
  <2>3. /\ stage' \in Stages /\ step' = "begin" /\ todo' = {} /\ visited' = {} /\ pend' = {}
        /\ reading' = Nobody /\ names' = {} /\ expired' \in BOOLEAN
    BY <1>3 DEF Left, Signalled, Grace, Survivors, Final, TreeTypeOK
  <2>. QED  BY <2>1, <2>2, <2>3 DEF TreeTypeOK, Listed
<1>4. ASSUME Wait PROVE TreeTypeOK'
  <2>1. stage = "wait" /\ Goto("done") /\ UNCHANGED Elsewhere /\ outcome' \in Outcomes
    <3>1. outcome' = [outcome EXCEPT !.zero = outcome.complete /\ code' = "zero"]
      BY <1>4 DEF Wait
    <3>2. outcome \in Outcomes /\ (outcome.complete /\ code' = "zero") \in BOOLEAN
      BY DEF TreeTypeOK
    <3>3. outcome' \in Outcomes
      BY <3>1, <3>2, AnOutcome, Zenon
    <3>. QED  BY <1>4, <3>3 DEF Wait
  <2>2. CASE UNCHANGED << code, kernel >>
    BY <2>1, <2>2 DEF TreeTypeOK, Listed
  <2>3. CASE code = "none" /\ RootWaited
    BY <2>1, <2>3, WaitedKernel, ReapsAges, StillApart DEF TreeTypeOK
  <2>. QED  BY <1>4, <2>2, <2>3 DEF Wait
<1>5. ASSUME SupervisorExits \/ SupervisorKilled PROVE TreeTypeOK'
  <2>1. SupervisorEnds /\ outcome' \in Outcomes /\ UNCHANGED callerVars
    BY <1>5, AnOutcome DEF SupervisorExits, SupervisorKilled, TreeTypeOK
  <2>. QED  BY <2>1, EndsKernel, ReapsAges, StillApart DEF TreeTypeOK
<1>6. ASSUME Expires \/ CallerReturns PROVE TreeTypeOK'
  <2>1. UNCHANGED << kernel, tree, stage, step, code, outcome, history >>
    BY <1>6 DEF Expires, CallerReturns
  <2>2. expired' \in BOOLEAN /\ caller' \in {"waiting", "returned"}
    BY <1>6 DEF Expires, CallerReturns, TreeTypeOK
  <2>3. result' \in Outcomes
    BY <1>6 DEF Expires, CallerReturns, TreeTypeOK
  <2>. QED  BY <2>1, <2>2, <2>3 DEF TreeTypeOK, Listed
<1>. QED  BY <1>1, <1>2, <1>3, <1>4, <1>5, <1>6

LEMMA TypesStep ==
    ASSUME TreeTypeOK, Lineage, Ownership, RootStatus, [Next]_treeVars
    PROVE  TreeTypeOK'
<1>1. CASE UNCHANGED treeVars
  BY <1>1 DEF treeVars, kernel, tree, visit, supervision, callerVars, history, TreeTypeOK, Listed
<1>2. CASE KernelNext
  BY <1>2, KernelTypes
<1>3. CASE SupervisorNext
  BY <1>3, LookTypes, ProgramTypes DEF SupervisorNext
<1>4. CASE Expires \/ SupervisorKilled \/ CallerReturns
  BY <1>4, ProgramTypes
<1>. QED  BY <1>1, <1>2, <1>3, <1>4 DEF Next

-----------------------------------------------------------------------------
(* Lineage.                                                                *)

LEMMA InitLineage == Init => Lineage
BY Names DEF Init, Lineage

(* A birth: the child is of the workload if its parent is, or is the       *)
(* supervisor.                                                             *)
LEMMA BirthLineage ==
    ASSUME TreeTypeOK, Lineage,
           NEW i \in Procs, NEW n \in Pids, NEW above \in Procs \cup {Supervisor, Nobody},
           Birth(i, n, above),
           above \in Procs => Alive(above),
           ours' = IF above \in ours \cup {Supervisor} THEN ours \cup {i} ELSE ours,
           \A j \in Procs : parent[j] = Supervisor => j \in shown',
           above = Supervisor => i \in shown',
           stage' # "unlaunched"
    PROVE  Lineage'
<1>1. /\ state[i] = "unborn"
      /\ state' = [state EXCEPT ![i] = "running"]
      /\ parent' = [parent EXCEPT ![i] = above]
      /\ intruders' \in {intruders, intruders \cup {i}}
      /\ above \in intruders => i \in intruders'
  BY DEF Birth
<1>2. \A j \in Procs : /\ state'[j] = IF j = i THEN "running" ELSE state[j]
                       /\ parent'[j] = IF j = i THEN above ELSE parent[j]
  BY <1>1 DEF TreeTypeOK
<1>3. above # i
  BY <1>1, Names DEF Alive
<1>4. \A j \in Procs : parent[j] # i
  BY <1>1 DEF Lineage, Alive
<1>5. \A j \in ours' \cup intruders' : state'[j] # "unborn"
  BY <1>1, <1>2 DEF Lineage, TreeTypeOK
<1>6. \A j \in Procs : state'[j] = "unborn" => parent'[j] = Nobody
  BY <1>2 DEF Lineage
<1>7. \A j \in Procs : parent'[j] \in Procs => state'[parent'[j]] = "running"
  BY <1>2 DEF Lineage, Alive
<1>8. \A j \in Procs : parent'[j] = Supervisor \/ parent'[j] \in ours' => j \in ours'
  BY <1>2, <1>3, <1>4 DEF Lineage
<1>9. \A j \in Procs : parent'[j] \in intruders' => j \in intruders'
  BY <1>1, <1>2, <1>3, <1>4 DEF Lineage
<1>10. \A j \in Procs : parent'[j] = Supervisor => j \in shown'
  BY <1>2
<1>. QED  BY <1>5, <1>6, <1>7, <1>8, <1>9, <1>10 DEF Lineage, Alive

(* The steps that only let zombies vanish.                                 *)
LEMMA SameLineage ==
    ASSUME TreeTypeOK, Lineage, Reaps, UNCHANGED ours, intruders' \in {intruders, {}},
           stage' # "unlaunched" \/ UNCHANGED << state, stage, step, known, code, outcome >>
    PROVE  Lineage'
<1>1. \A j \in Procs : /\ state'[j] = "unborn" <=> state[j] = "unborn"
                       /\ state[j] = "running" => state'[j] = "running"
                       /\ parent'[j] \in {parent[j], Nobody}
                       /\ parent'[j] = Supervisor /\ j \in shown => j \in shown'
  BY Names DEF Reaps
<1>2. \A j \in ours' \cup intruders' : state'[j] # "unborn"
  BY <1>1 DEF Lineage, TreeTypeOK
<1>3. \A j \in Procs : /\ state'[j] = "unborn" => parent'[j] = Nobody
                       /\ parent'[j] \in Procs => state'[parent'[j]] = "running"
                       /\ parent'[j] = Supervisor \/ parent'[j] \in ours' => j \in ours'
                       /\ parent'[j] \in intruders' => j \in intruders'
                       /\ parent'[j] = Supervisor => j \in shown'
  BY <1>1, Names DEF Lineage, Alive, TreeTypeOK
<1>4. stage' = "unlaunched" =>
          /\ \A j \in Procs : state'[j] = "unborn"
          /\ ours' = {} /\ known' = {} /\ code' = "none" /\ outcome' = NoOutcome
          /\ step' = "begin"
  BY DEF Lineage
<1>. QED  BY <1>2, <1>3, <1>4 DEF Lineage, Alive

LEMMA KernelLineage ==
    ASSUME TreeTypeOK, Lineage, Ownership, KernelNext
    PROVE  Lineage'
<1>. USE Names DEF tree, supervision, callerVars, history
<1>1. ASSUME NEW i \in Procs, Exit(i)
      PROVE  Lineage'
  <2>1. /\ state[i] = "running" /\ stage # "unlaunched"
        /\ UNCHANGED << ours, intruders, stage >>
    BY <1>1 DEF Exit, Alive, Lineage
  <2>2. /\ Ages
        /\ \A j \in Procs \ {i} : state'[j] # state[j] => state[j] = "zombie"
        /\ \A j \in Procs : parent'[j] =
              IF state'[j] = "gone" THEN Nobody
              ELSE IF j \in Bereft(i) THEN ReaperOf(i) ELSE parent[j]
        /\ shown' = {j \in shown \cup Bereft(i) : state'[j] # "gone"}
    BY <1>1, ExitAges
  <2>3. ReaperOf(i) = Nobody \/ (ReaperOf(i) = Supervisor /\ i \in ours)
    BY DEF ReaperOf
  <2>4. ASSUME NEW j \in Procs
        PROVE  \/ parent'[j] \in {Nobody, ReaperOf(i)} /\ parent[j] = i
               \/ parent'[j] = Nobody
               \/ parent'[j] = parent[j] /\ parent[j] # i /\ parent[j] # Nobody
                     /\ state'[j] # "gone"
    <3>1. j \in Bereft(i) => parent[j] = i
      BY DEF Bereft
    <3>2. parent[j] = i /\ j \notin Bereft(i) => state[j] = "gone"
      BY DEF Bereft, Listed, Lineage, TreeTypeOK, States
    <3>. QED  BY <2>1, <2>2, <3>1, <3>2
  <2>5. \A j \in ours \cup intruders : state'[j] # "unborn"
    BY <2>1, <2>2 DEF Lineage, Ages, TreeTypeOK
  <2>6. \A j \in Procs : state'[j] = "unborn" => parent'[j] = Nobody
    BY <2>2, <2>4 DEF Ages, Lineage
  <2>7. \A j \in Procs : parent'[j] \in Procs => state'[parent'[j]] = "running"
    BY <2>2, <2>3, <2>4 DEF Lineage, Alive
  <2>8. \A j \in Procs : parent'[j] = Supervisor \/ parent'[j] \in ours => j \in ours
    BY <2>3, <2>4 DEF Lineage, TreeTypeOK
  <2>9. \A j \in Procs : parent'[j] \in intruders => j \in intruders
    BY <2>3, <2>4 DEF Lineage, TreeTypeOK
  <2>10. \A j \in Procs : parent'[j] = Supervisor => j \in shown'
    BY <2>2, <2>3 DEF Lineage, Bereft
  <2>. QED  BY <2>1, <2>5, <2>6, <2>7, <2>8, <2>9, <2>10 DEF Lineage, Alive
<1>2. ASSUME NEW i \in Procs, ParentReaps(i)
      PROVE  Lineage'
  <2>1. /\ Reaps /\ UNCHANGED << ours, intruders, stage >> /\ stage # "unlaunched"
    BY <1>2, ParentReapsZombie DEF ParentReaps, Lineage
  <2>. QED  BY <2>1, SameLineage
<1>3. ASSUME NEW i \in Procs, NEW n \in Pids, StrangerStarts(i, n)
      PROVE  Lineage'
  <2>1. Birth(i, n, Nobody) /\ stage # "unlaunched" /\ UNCHANGED << ours, shown, stage >>
    BY <1>3 DEF StrangerStarts
  <2>2. /\ Nobody \notin ours \cup {Supervisor}
        /\ \A j \in Procs : parent[j] = Supervisor => j \in shown'
    BY <2>1 DEF TreeTypeOK, Lineage
  <2>. QED  BY <2>1, <2>2, BirthLineage
<1>4. ASSUME NEW i \in Procs, NEW n \in Pids, NEW p \in Procs, Fork(p, i, n)
      PROVE  Lineage'
  <2>1. /\ Birth(i, n, p) /\ state[p] = "running" /\ stage # "unlaunched" /\ UNCHANGED stage
        /\ ours' = IF p \in ours THEN ours \cup {i} ELSE ours
        /\ shown' \in {shown, shown \cup {i}}
    BY <1>4 DEF Fork, Alive, Lineage
  <2>2. /\ Alive(p) /\ p # Supervisor
        /\ \A j \in Procs : parent[j] = Supervisor => j \in shown'
    BY <2>1 DEF Alive, Lineage
  <2>3. ours' = IF p \in ours \cup {Supervisor} THEN ours \cup {i} ELSE ours
    BY <2>1, <2>2
  <2>. QED  BY <2>1, <2>2, <2>3, BirthLineage
<1>. QED  BY <1>1, <1>2, <1>3, <1>4 DEF KernelNext

LookNext ==
    \/ LookBegins \/ (\E p \in Procs : Identify(p)) \/ ListsChildren
    \/ (\E n \in Pids : LooksUp(n)) \/ Adopt \/ EachBegins
    \/ (\E i \in Procs : FoundDead(i) \/ TakesAim(i)) \/ Pins \/ Sends

Deciding == Left \/ Signalled \/ Grace \/ Survivors \/ Final

LEMMA LookFrame ==
    ASSUME TreeTypeOK, LookNext
    PROVE  /\ Reaps
           /\ UNCHANGED << ours, ended, stage, code, outcome, caller, result, intruders >>
           /\ \A j \in Procs : j \notin Reapable => state'[j] = state[j]
           /\ \A j \in Procs : state'[j] # "gone" => parent'[j] = parent[j]
           /\ known \subseteq known'
           /\ ~LookBegins => UNCHANGED << state, pid, parent, shown >>
<1>. USE DEF kernel, supervision, callerVars, history
<1>1. CASE LookBegins
  <2>1. /\ UNCHANGED << ours, ended, stage, code, outcome, caller, result, intruders, known >>
    BY <1>1 DEF LookBegins
  <2>. QED  BY <1>1, <2>1, LookReaps
<1>2. CASE ~LookBegins
  <2>1. /\ UNCHANGED << state, pid, parent, ours, shown, ended >>
        /\ UNCHANGED << stage, code, outcome, caller, result, intruders >>
        /\ known \subseteq known'
    BY <1>2 DEF LookNext, Identify, ListsChildren, LooksUp, Adopt, EachBegins, FoundDead, TakesAim,
                Pins, Sends
  <2>. QED  BY <1>2, <2>1, StandsStill
<1>. QED  BY <1>1, <1>2

(* The decisions of the program, apart from waits and ends.                *)
LEMMA DecidingFrame ==
    ASSUME Deciding
    PROVE  /\ UNCHANGED << kernel, known, code, target, pinned, callerVars, history >>
           /\ stage \in Stages \ {"unlaunched", "watch", "wait", "done", "gone"}
           /\ stage' # "unlaunched" /\ stage' # "watch" /\ stage' # "gone"
           /\ step' = "begin" /\ todo' = {} /\ pend' = {} /\ reading' = Nobody /\ names' = {}
<1>. USE DEF Elsewhere, Goto, Restart, Stages
<1>1. UNCHANGED << kernel, known, code, target, pinned, callerVars, history >>
  BY DEF Deciding, Left, Signalled, Grace, Survivors, Final
<1>2. CASE Left
  BY <1>1, <1>2 DEF Left
<1>3. CASE Signalled
  BY <1>1, <1>3 DEF Signalled, Signalling
<1>4. CASE Grace
  BY <1>1, <1>4 DEF Grace
<1>5. CASE Survivors
  BY <1>1, <1>5 DEF Survivors
<1>6. CASE Final
  BY <1>1, <1>6 DEF Final
<1>. QED  BY <1>2, <1>3, <1>4, <1>5, <1>6 DEF Deciding

LEMMA ProgramLineage ==
    ASSUME TreeTypeOK, Lineage, Ownership, RootStatus
    PROVE  /\ LookNext => Lineage'
           /\ \A n \in Pids : Launch(n) => Lineage'
           /\ Watch \/ Wait => Lineage'
           /\ Deciding => Lineage'
           /\ SupervisorExits \/ SupervisorKilled => Lineage'
           /\ Expires \/ CallerReturns => Lineage'
<1>. USE DEF kernel, tree, visit, supervision, callerVars, history, Goto, Restart, Elsewhere
<1>1. ASSUME LookNext PROVE Lineage'
  <2>1. stage # "unlaunched"
    BY <1>1, Names DEF LookNext, LookBegins, Identify, ListsChildren, LooksUp, Adopt, EachBegins,
                FoundDead, TakesAim, Pins, Sends, Looked, Asking, Signalling, Lineage, Ownership,
                TreeTypeOK
  <2>. QED  BY <1>1, <2>1, LookFrame, SameLineage
<1>2. ASSUME NEW n \in Pids, Launch(n) PROVE Lineage'
  <2>1. CASE Birth(Root, n, Supervisor) /\ ours' = {Root} /\ shown' = {Root} /\ Goto("watch")
    <3>1. /\ \A j \in Procs : parent[j] = Nobody
          /\ ours = {} /\ stage' = "watch"
      BY <1>2, <2>1 DEF Launch, Lineage
    <3>. QED  BY <2>1, <3>1, BirthLineage, RootIsProc, Names
  <2>2. CASE Goto("done") /\ UNCHANGED << kernel, known, moved, intruders >>
    BY <2>2, StandsStill, SameLineage
  <2>. QED  BY <1>2, <2>1, <2>2 DEF Launch
<1>3. ASSUME Watch \/ Wait PROVE Lineage'
  <2>1. stage \in {"watch", "wait"} /\ stage' # "unlaunched" /\ UNCHANGED intruders
    BY <1>3 DEF Watch, Wait
  <2>2. CASE UNCHANGED kernel
    BY <2>1, <2>2, StandsStill, SameLineage
  <2>3. CASE RootWaited /\ code = "none"
    BY <2>1, <2>3, WaitedKernel, SameLineage
  <2>. QED  BY <1>3, <2>2, <2>3 DEF Watch, Wait, RootStatus
<1>4. ASSUME Deciding PROVE Lineage'
  BY <1>4, DecidingFrame, StandsStill, SameLineage
<1>5. ASSUME SupervisorExits \/ SupervisorKilled PROVE Lineage'
  <2>1. SupervisorEnds
    BY <1>5 DEF SupervisorExits, SupervisorKilled
  <2>. QED  BY <2>1, EndsKernel, SameLineage
<1>6. ASSUME Expires \/ CallerReturns PROVE Lineage'
  BY <1>6, StandsStill, SameLineage DEF Expires, CallerReturns
<1>. QED  BY <1>1, <1>2, <1>3, <1>4, <1>5, <1>6

-----------------------------------------------------------------------------
(* Ownership.                                                              *)

LEMMA InitOwnership == Init => Ownership
BY DEF Init, Ownership

(* What the supervisor holds stays what it is while it lets go only, and   *)
(* nothing gets the number of the parent it is busy with.                  *)
LEMMA SameOwnership ==
    ASSUME TreeTypeOK, Ownership, Ages, UNCHANGED << ours, intruders >>,
           UNCHANGED << known, target, pinned, strayed >>,
           todo' \in {todo, {}}, pend' \in {pend, {}}, reading' \in {reading, Nobody},
           names' # {} => reading' # Nobody
    PROVE  Ownership'
<1>1. /\ known' \cup todo' \subseteq ours' \cup intruders'
      /\ reading' \in ours' \cup intruders' \cup {Nobody}
      /\ pend' \subseteq known' /\ target' \in known' \cup {Nobody} /\ ~strayed'
  BY DEF Ownership
<1>2. ASSUME reading' # Nobody, NEW j \in Procs, Listed(j)', pid'[j] = pid'[reading']
      PROVE  j \in ours' \cup intruders'
  <2>1. reading \in Procs /\ reading # Nobody /\ reading' = reading
    BY <1>2 DEF TreeTypeOK
  <2>2. Listed(j) /\ pid[j] = pid[reading]
    BY <1>2, <2>1 DEF Ages
  <2>. QED  BY <2>1, <2>2 DEF Ownership
<1>3. ASSUME pinned # Nobody
      PROVE  target # Nobody /\ (Listed(target)' => pinned = target)
  BY <1>3 DEF Ownership, Ages, TreeTypeOK
<1>. QED  BY <1>1, <1>2, <1>3 DEF Ownership, Listed

LEMMA KernelOwnership ==
    ASSUME TreeTypeOK, Lineage, Ownership, KernelNext
    PROVE  Ownership'
<1>. USE DEF tree, visit, history
<1>1. ASSUME NEW i \in Procs, Exit(i) \/ ParentReaps(i)
      PROVE  Ownership'
  <2>1. Ages
    BY <1>1, ExitAges, ParentReapsZombie, ReapsAges
  <2>2. UNCHANGED << ours, tree, strayed, intruders >>
    BY <1>1 DEF Exit, ParentReaps
  <2>. QED  BY <2>1, <2>2, SameOwnership DEF Ownership
<1>2. ASSUME NEW i \in Procs, NEW n \in Pids, NEW above \in Procs \cup {Nobody},
             Birth(i, n, above), UNCHANGED << tree, strayed >>,
             ours' = IF above \in ours THEN ours \cup {i} ELSE ours
      PROVE  Ownership'
  <2>1. /\ state[i] = "unborn" /\ state' = [state EXCEPT ![i] = "running"]
        /\ pid' = [pid EXCEPT ![i] = n]
        /\ intruders' = IF above \in intruders \/ TakesOver(above, n)
                        THEN intruders \cup {i} ELSE intruders
    BY <1>2 DEF Birth
  <2>2. \A j \in Procs \ {i} : state'[j] = state[j] /\ pid'[j] = pid[j]
    BY <2>1 DEF TreeTypeOK
  <2>3. i \notin known \cup todo \cup ours \cup intruders
    BY <2>1 DEF Lineage, Ownership
  <2>4. /\ known' \cup todo' \subseteq ours' \cup intruders'
        /\ reading' \in ours' \cup intruders' \cup {Nobody}
        /\ names' # {} => reading' # Nobody
        /\ pend' \subseteq known' /\ target' \in known' \cup {Nobody} /\ ~strayed'
    BY <1>2, <2>1 DEF Ownership
  <2>5. ASSUME reading' # Nobody, NEW j \in Procs, Listed(j)', pid'[j] = pid'[reading']
        PROVE  j \in ours' \cup intruders'
    <3>1. reading' = reading /\ reading \in Procs /\ reading # i /\ pid'[reading] = pid[reading]
      BY <1>2, <2>2, <2>3, <2>5 DEF TreeTypeOK, Ownership
    <3>2. CASE j = i
      <4>1. n = pid[reading]
        BY <2>1, <2>5, <3>1, <3>2 DEF TreeTypeOK
      <4>2. above \in ours \/ TakesOver(above, n)
        BY <2>5, <3>1, <4>1, Names DEF TakesOver
      <4>. QED  BY <1>2, <2>1, <3>2, <4>2
    <3>3. CASE j # i
      BY <1>2, <2>1, <2>2, <2>5, <3>1, <3>3 DEF Ownership, Listed
    <3>. QED  BY <3>2, <3>3
  <2>6. UNCHANGED << target, pinned >>
    BY <1>2
  <2>7. ASSUME pinned' # Nobody
        PROVE  target' # Nobody /\ (Listed(target)' => pinned' = target')
    <3>1. target \in known /\ target # Nobody
      BY <2>6, <2>7 DEF Ownership
    <3>2. target \in Procs /\ target # i
      BY <2>3, <3>1 DEF TreeTypeOK
    <3>. QED  BY <2>2, <2>6, <2>7, <3>1, <3>2 DEF Ownership, Listed
  <2>. QED  BY <2>4, <2>5, <2>6, <2>7 DEF Ownership, Listed
<1>3. ASSUME NEW i \in Procs, NEW n \in Pids, StrangerStarts(i, n)
      PROVE  Ownership'
  <2>1. Nobody \notin ours
    BY Names DEF TreeTypeOK
  <2>. QED  BY <1>2, <1>3, <2>1 DEF StrangerStarts
<1>4. ASSUME NEW i \in Procs, NEW n \in Pids, NEW p \in Procs, Fork(p, i, n)
      PROVE  Ownership'
  BY <1>2, <1>4 DEF Fork
<1>. QED  BY <1>1, <1>3, <1>4 DEF KernelNext

LEMMA LookOwnership ==
    ASSUME TreeTypeOK, Lineage, Ownership, LookNext
    PROVE  Ownership'
<1>. USE DEF kernel, visit, supervision, history
<1>0. Ages /\ UNCHANGED << ours, intruders >>
  BY LookFrame, ReapsAges
<1>1. ASSUME LookBegins PROVE Ownership'
  <2>1. todo' \subseteq known /\ UNCHANGED << known, reading, names, pend, target, pinned, strayed >>
    BY <1>1 DEF LookBegins
  <2>2. reading' # Nobody =>
          \A j \in Procs : Listed(j)' /\ pid'[j] = pid'[reading'] => j \in ours \cup intruders
    BY <1>0, <2>1 DEF Ownership, Ages, TreeTypeOK
  <2>3. pinned # Nobody => target # Nobody /\ (Listed(target)' => pinned = target)
    BY <1>0, <2>1 DEF Ownership, Ages, TreeTypeOK
  <2>. QED  BY <1>0, <2>1, <2>2, <2>3 DEF Ownership
<1>2. ASSUME NEW p \in Procs, Identify(p) PROVE Ownership'
  <2>1. p \in ours \cup intruders /\ todo' \subseteq todo /\ reading' = IF Listed(p) THEN p ELSE Nobody
    BY <1>2 DEF Identify, Ownership
  <2>2. UNCHANGED << state, pid, known, pend, target, pinned, strayed >> /\ names' = {}
    BY <1>2 DEF Identify, Ownership
  <2>3. reading' # Nobody =>
          \A j \in Procs : Listed(j) /\ pid[j] = pid[reading'] => j \in ours \cup intruders
    BY <2>1 DEF TreeTypeOK
  <2>. QED  BY <1>0, <2>1, <2>2, <2>3 DEF Ownership, Listed
<1>3. ASSUME ListsChildren PROVE Ownership'
  BY <1>0, <1>3, SameOwnership DEF ListsChildren
<1>4. ASSUME NEW n \in Pids, LooksUp(n) PROVE Ownership'
  <2>. DEFINE seen == {j \in Procs : Listed(j) /\ pid[j] = n /\ HangsBelow(j, pid[reading])}
  <2>1. reading # Nobody
    BY <1>4 DEF LooksUp, Ownership
  <2>2. seen \subseteq ours \cup intruders
    BY <2>1 DEF HangsBelow, Ownership, Lineage, Listed, Alive
  <2>3. Recorded(seen) \subseteq ours \cup intruders
    BY <2>2 DEF Recorded
  <2>4. /\ known' = known \cup Recorded(seen)
        /\ todo' \subseteq todo \cup Recorded(seen) /\ reading' \in {reading, Nobody}
        /\ names' # {} => reading' # Nobody
        /\ UNCHANGED << state, pid, pend, target, pinned, strayed >>
    BY <1>4, <2>1 DEF LooksUp
  <2>. HIDE DEF seen
  <2>. QED  BY <1>0, <2>3, <2>4 DEF Ownership, Listed
<1>5. ASSUME Adopt PROVE Ownership'
  <2>1. ChildrenOf(Supervisor) \subseteq ours
    BY DEF ChildrenOf, Lineage, TreeTypeOK
  <2>2. Recorded(ChildrenOf(Supervisor)) \subseteq ours
    BY <2>1 DEF Recorded
  <2>. QED  BY <1>5, <2>1, <2>2 DEF Adopt, Ownership, Listed
<1>6. ASSUME EachBegins PROVE Ownership'
  BY <1>6 DEF EachBegins, Ownership, Listed
<1>7. ASSUME NEW i \in Procs, FoundDead(i) \/ TakesAim(i) PROVE Ownership'
  <2>1. /\ UNCHANGED << state, pid, ours, intruders, known, todo, visit, pinned, strayed >>
        /\ pend' \subseteq pend
        /\ target' = target \/ (target = Nobody /\ target' = i /\ i \in pend)
    BY <1>7 DEF FoundDead, TakesAim
  <2>. QED  BY <2>1 DEF Ownership, Listed
<1>8. ASSUME Pins PROVE Ownership'
  <2>1. target \in known /\ target \in Procs
    BY <1>8 DEF Pins, Ownership, TreeTypeOK
  <2>2. UNCHANGED << state, pid, ours, intruders, known, todo, visit, strayed >>
    BY <1>8 DEF Pins
  <2>3. /\ pend' \subseteq pend
        /\ \/ target' = Nobody /\ pinned' = Nobody
           \/ target' = target /\ (Listed(target) => pinned' = target)
    BY <1>8, <2>1 DEF Pins, TreeTypeOK
  <2>4. CASE target' = Nobody /\ pinned' = Nobody
    BY <2>2, <2>3, <2>4 DEF Ownership, Listed
  <2>5. CASE target' = target /\ (Listed(target) => pinned' = target)
    <3>1. target # Nobody
      BY <1>8 DEF Pins
    <3>. QED  BY <2>1, <2>2, <2>3, <2>5, <3>1 DEF Ownership, Listed
  <2>. QED  BY <2>3, <2>4, <2>5
<1>9. ASSUME Sends PROVE Ownership'
  <2>1. target \in known /\ (Alive(target) => pinned = target)
    BY <1>9 DEF Sends, Ownership, Listed, Alive
  <2>2. ~strayed'
    BY <1>9, <2>1 DEF Sends, Verified, Ownership
  <2>3. /\ UNCHANGED << state, pid, ours, intruders, known, todo, visit >>
        /\ pend' \subseteq pend /\ target' = Nobody /\ pinned' = Nobody
    BY <1>9 DEF Sends
  <2>. QED  BY <2>2, <2>3 DEF Ownership, Listed
<1>. QED  BY <1>1, <1>2, <1>3, <1>4, <1>5, <1>6, <1>7, <1>8, <1>9 DEF LookNext

LEMMA ProgramOwnership ==
    ASSUME TreeTypeOK, Lineage, Ownership, RootStatus
    PROVE  /\ \A n \in Pids : Launch(n) => Ownership'
           /\ Watch \/ Wait => Ownership'
           /\ Deciding => Ownership'
           /\ SupervisorExits \/ SupervisorKilled => Ownership'
           /\ Expires \/ CallerReturns => Ownership'
<1>. USE DEF kernel, tree, visit, supervision, callerVars, history, Goto, Restart, Elsewhere
<1>0. ASSUME Reaps, UNCHANGED << ours, intruders, known, target, pinned, strayed >>,
             \/ todo' = {} /\ pend' = {} /\ reading' = Nobody /\ names' = {}
             \/ UNCHANGED << todo, pend, reading, names >>
      PROVE  Ownership'
  <2>1. /\ todo' \in {todo, {}} /\ pend' \in {pend, {}} /\ reading' \in {reading, Nobody}
        /\ names' # {} => reading' # Nobody
    BY <1>0 DEF Ownership
  <2>. QED  BY <1>0, <2>1, ReapsAges, SameOwnership
<1>1. ASSUME NEW n \in Pids, Launch(n) PROVE Ownership'
  <2>1. CASE ours' = {Root} /\ known' = {Root} /\ Goto("watch")
    <3>1. target = Nobody /\ pinned = Nobody
      BY <1>1 DEF Launch, Lineage, Ownership
    <3>. QED  BY <1>1, <2>1, <3>1 DEF Launch, Ownership
  <2>2. CASE Goto("done") /\ UNCHANGED << kernel, known, moved, intruders >>
    BY <1>0, <1>1, <2>2, StandsStill DEF Launch
  <2>. QED  BY <1>1, <2>1, <2>2 DEF Launch
<1>2. ASSUME Watch \/ Wait PROVE Ownership'
  <2>1. /\ stage \in {"watch", "wait"} /\ UNCHANGED << known, target, pinned, strayed, intruders >>
        /\ todo' = {} /\ pend' = {} /\ reading' = Nobody /\ names' = {}
    BY <1>2 DEF Watch, Wait
  <2>2. CASE UNCHANGED kernel
    BY <1>0, <2>1, <2>2, StandsStill
  <2>3. CASE RootWaited /\ code = "none"
    BY <1>0, <2>1, <2>3, WaitedKernel
  <2>. QED  BY <1>2, <2>2, <2>3 DEF Watch, Wait, RootStatus
<1>3. ASSUME Deciding PROVE Ownership'
  BY <1>0, <1>3, DecidingFrame, StandsStill
<1>4. ASSUME SupervisorExits \/ SupervisorKilled PROVE Ownership'
  <2>1. SupervisorEnds
    BY <1>4 DEF SupervisorExits, SupervisorKilled
  <2>. QED  BY <2>1, EndsKernel DEF Ownership
<1>5. ASSUME Expires \/ CallerReturns PROVE Ownership'
  BY <1>0, <1>5, StandsStill DEF Expires, CallerReturns
<1>. QED  BY <1>1, <1>2, <1>3, <1>4, <1>5

-----------------------------------------------------------------------------
(* The root's status.                                                      *)

LEMMA InitRoot == Init => RootStatus
BY RootIsProc, AnOutcome DEF Init, RootStatus

(* While the run lasts, only Popen can reap the root.                      *)
LEMMA RootNotReapable ==
    ASSUME TreeTypeOK, Root \in known
    PROVE  Root \notin Reapable
BY DEF Reapable, TreeTypeOK

(* Nothing but the root's own state and parent matters, and what is said   *)
(* of its status.                                                          *)
LEMMA SameRoot ==
    ASSUME TreeTypeOK, RootStatus, known \subseteq known',
           UNCHANGED << ended, stage, code, outcome, result >>,
           \/ state'[Root] = state[Root] /\ (state[Root] # "gone" => parent'[Root] = parent[Root])
           \/ /\ state[Root] = "zombie" /\ state'[Root] = "gone"
              /\ stage \in {"unlaunched", "done", "gone"} \/ code # "none"
    PROVE  RootStatus'
BY DEF RootStatus, Listed

LEMMA KernelRoot ==
    ASSUME TreeTypeOK, Lineage, Ownership, RootStatus, KernelNext
    PROVE  RootStatus'
<1>. USE RootIsProc, Names DEF tree, visit, supervision, callerVars, history
<1>1. ASSUME NEW i \in Procs, Exit(i)
      PROVE  RootStatus'
  <2>1. /\ UNCHANGED << known, stage, code, outcome, result >> /\ state[i] = "running"
        /\ \A j \in Procs : parent[j] # i /\ state'[j] # "gone" => parent'[j] = parent[j]
    BY <1>1, ExitAges DEF Exit, Bereft, Alive
  <2>2. CASE i = Root
    <3>1. ended' \in {"zero", "nonzero"} /\ code # "zero" /\ ~outcome.zero /\ ~result.zero
      BY <1>1, <2>1, <2>2 DEF Exit, RootStatus
    <3>2. /\ state'[Root] \in {"zombie", "gone"}
          /\ parent[Root] = Supervisor => state'[Root] = "zombie" /\ parent'[Root] = Supervisor
      BY <1>1, <2>1, <2>2, ExitAges, Names
    <3>. QED  BY <2>1, <3>1, <3>2 DEF RootStatus, Listed
  <2>3. CASE i # Root
    <3>1. UNCHANGED ended
      BY <1>1, <2>3 DEF Exit
    <3>2. CASE parent[Root] = i
      <4>1. stage \in {"unlaunched", "done", "gone"} \/ code # "none"
        BY <3>2 DEF RootStatus
      <4>2. \/ state'[Root] = state[Root]
            \/ state[Root] = "zombie" /\ state'[Root] = "gone"
        BY <1>1, <2>3, ExitAges
      <4>. QED  BY <2>1, <3>1, <4>1, <4>2 DEF RootStatus, Listed
    <3>3. CASE parent[Root] # i
      <4>1. state'[Root] = state[Root] /\ (state[Root] # "gone" => parent'[Root] = parent[Root])
        BY <1>1, <2>1, <2>3, <3>3, ExitAges
      <4>. QED  BY <2>1, <3>1, <4>1, SameRoot
    <3>. QED  BY <3>2, <3>3
  <2>. QED  BY <2>2, <2>3
<1>2. ASSUME NEW i \in Procs, ParentReaps(i)
      PROVE  RootStatus'
  <2>1. /\ state[i] = "zombie" /\ parent[i] # Supervisor
        /\ \A j \in Procs : state'[j] = IF j = i THEN "gone" ELSE state[j]
        /\ \A j \in Procs : state'[j] # "gone" => parent'[j] = parent[j]
        /\ UNCHANGED << ended, known, stage, code, outcome, result >>
    <3>1. UNCHANGED << ended, known, stage, code, outcome, result >>
      BY <1>2 DEF ParentReaps
    <3>2. /\ state[i] = "zombie" /\ parent[i] # Supervisor
          /\ state' = [state EXCEPT ![i] = "gone"]
          /\ \A j \in Procs : state'[j] # "gone" => parent'[j] = parent[j]
      BY <1>2, ParentReapsZombie
    <3>. QED  BY <3>1, <3>2 DEF TreeTypeOK
  <2>2. i = Root => stage \in {"unlaunched", "done", "gone"} \/ code # "none"
    BY <2>1 DEF RootStatus
  <2>. QED  BY <2>1, <2>2, SameRoot
<1>3. ASSUME NEW i \in Procs, NEW n \in Pids,
             StrangerStarts(i, n) \/ \E p \in Procs : Fork(p, i, n)
      PROVE  RootStatus'
  <2>1. /\ state[i] = "unborn" /\ state' = [state EXCEPT ![i] = "running"]
        /\ UNCHANGED << known, stage, code, outcome, result, ended >>
        /\ \A j \in Procs \ {i} : parent'[j] = parent[j]
    BY <1>3 DEF StrangerStarts, Fork, Birth, TreeTypeOK
  <2>2. CASE i = Root
    <3>1. code # "zero" /\ ~outcome.zero /\ ~result.zero /\ Root \notin known
      BY <2>1, <2>2 DEF RootStatus, Ownership, Lineage
    <3>2. state'[Root] = "running"
      BY <2>1, <2>2 DEF TreeTypeOK
    <3>. QED  BY <2>1, <3>1, <3>2 DEF RootStatus
  <2>3. CASE i # Root
    BY <2>1, <2>3, SameRoot DEF TreeTypeOK
  <2>. QED  BY <2>2, <2>3
<1>. QED  BY <1>1, <1>2, <1>3 DEF KernelNext

LEMMA LookRoot ==
    ASSUME TreeTypeOK, RootStatus, LookNext
    PROVE  RootStatus'
<1>. USE DEF kernel
<1>1. /\ known \subseteq known' /\ UNCHANGED << ended, stage, code, outcome, result >>
      /\ \A j \in Procs : state'[j] # "gone" => parent'[j] = parent[j]
  BY LookFrame
<1>2. state'[Root] = state[Root]
  <2>1. CASE LookBegins
    <3>1. Root \in known
      BY <2>1 DEF LookBegins, RootStatus
    <3>. QED  BY <3>1, RootIsProc, RootNotReapable, LookFrame
  <2>2. CASE ~LookBegins
    BY <2>2, LookFrame
  <2>. QED  BY <2>1, <2>2
<1>. QED  BY <1>1, <1>2, RootIsProc, SameRoot

LEMMA ProgramRoot ==
    ASSUME TreeTypeOK, Lineage, Ownership, RootStatus
    PROVE  /\ \A n \in Pids : Launch(n) => RootStatus'
           /\ Watch => RootStatus'
           /\ Wait => RootStatus'
           /\ Deciding => RootStatus'
           /\ SupervisorExits \/ SupervisorKilled => RootStatus'
           /\ Expires \/ CallerReturns => RootStatus'
<1>. USE RootIsProc DEF kernel, tree, supervision, callerVars, Goto, Restart, Elsewhere
<1>1. ASSUME NEW n \in Pids, Launch(n) PROVE RootStatus'
  <2>1. /\ state[Root] = "unborn" /\ code = "none" /\ ~outcome.zero /\ ~result.zero
        /\ UNCHANGED << code, outcome, result >>
    BY <1>1, AnOutcome DEF Launch, Lineage, RootStatus
  <2>2. CASE Birth(Root, n, Supervisor) /\ known' = {Root} /\ Goto("watch")
    <3>1. state'[Root] = "running" /\ parent'[Root] = Supervisor /\ UNCHANGED ended
      BY <2>2 DEF Birth, TreeTypeOK
    <3>. QED  BY <2>1, <2>2, <3>1 DEF RootStatus, Listed
  <2>3. CASE Goto("done") /\ UNCHANGED << kernel, known, moved, intruders >>
    BY <2>1, <2>3 DEF RootStatus
  <2>. QED  BY <1>1, <2>2, <2>3 DEF Launch
<1>0. ASSUME stage \in {"watch", "wait"}, code = "none", RootWaited
      PROVE  /\ state'[Root] = "gone" /\ code' \in {"zero", "nonzero"} /\ UNCHANGED ended
             /\ ended # "no" /\ (code' = "zero" => ended = "zero")
  BY <1>0, WaitedKernel
<1>2. ASSUME Watch PROVE RootStatus'
  <2>1. /\ stage = "watch" /\ code = "none"
        /\ UNCHANGED << known, outcome, result >>
    BY <1>2 DEF Watch, RootStatus
  <2>2. CASE RootWaited /\ Goto("left")
    BY <1>0, <2>1, <2>2 DEF RootStatus
  <2>3. CASE UNCHANGED << code, kernel >> /\ stage' \in {"watch", "term"}
    BY <2>1, <2>3 DEF RootStatus, Listed
  <2>. QED  BY <1>2, <2>1, <2>2, <2>3 DEF Watch
<1>3. ASSUME Wait PROVE RootStatus'
  <2>1. stage = "wait" /\ stage' = "done" /\ UNCHANGED << known, result >>
    BY <1>3 DEF Wait
  <2>2. outcome'.zero => outcome'.complete /\ code' = "zero"
    <3>1. outcome' = [outcome EXCEPT !.zero = outcome.complete /\ code' = "zero"]
      BY <1>3 DEF Wait
    <3>2. outcome \in Outcomes /\ (outcome.complete /\ code' = "zero") \in BOOLEAN
      BY DEF TreeTypeOK
    <3>. QED  BY <3>1, <3>2, AnOutcome, Zenon
  <2>3. CASE code = "none" /\ RootWaited
    BY <1>0, <2>1, <2>2, <2>3 DEF RootStatus
  <2>4. CASE UNCHANGED << code, kernel >>
    BY <2>1, <2>2, <2>4 DEF RootStatus
  <2>. QED  BY <1>3, <2>3, <2>4 DEF Wait
<1>4. ASSUME Deciding PROVE RootStatus'
  <2>1. /\ UNCHANGED << state, parent, ended, known, code, result >>
        /\ stage \notin {"unlaunched", "done", "gone"} /\ stage' # "watch"
    BY <1>4, DecidingFrame
  <2>2. outcome'.zero =>
            outcome'.complete /\ ended = "zero" /\ state[Root] \in {"zombie", "gone"}
    <3>1. CASE UNCHANGED outcome
      BY <2>1, <3>1 DEF RootStatus
    <3>2. CASE outcome' = [complete |-> TRUE, zero |-> code = "zero"]
      BY <2>1, <3>2 DEF RootStatus
    <3>3. CASE outcome' = [complete |-> NothingLives, zero |-> FALSE]
      BY <3>3
    <3>. QED  BY <1>4, <3>1, <3>2, <3>3 DEF Deciding, Left, Signalled, Grace, Survivors, Final
  <2>. QED  BY <2>1, <2>2 DEF RootStatus, Listed
<1>5. ASSUME SupervisorExits \/ SupervisorKilled PROVE RootStatus'
  <2>1. SupervisorEnds /\ outcome' \in {outcome, NoOutcome} /\ UNCHANGED result
    BY <1>5 DEF SupervisorExits, SupervisorKilled
  <2>2. /\ stage' = "gone" /\ code' = "none" /\ UNCHANGED ended
        /\ state'[Root] = state[Root] \/ (state[Root] = "zombie" /\ state'[Root] = "gone")
    BY <2>1, EndsKernel DEF Reaps
  <2>. QED  BY <2>1, <2>2, AnOutcome DEF RootStatus
<1>6. ASSUME Expires \/ CallerReturns PROVE RootStatus'
  <2>1. UNCHANGED << kernel, known, stage, code, outcome >>
    BY <1>6 DEF Expires, CallerReturns
  <2>2. result' \in {result, outcome}
    BY <1>6 DEF Expires, CallerReturns
  <2>. QED  BY <2>1, <2>2 DEF RootStatus, Listed
<1>. QED  BY <1>1, <1>2, <1>3, <1>4, <1>5, <1>6

-----------------------------------------------------------------------------
(* The last look.                                                          *)

LEMMA InitLook == Init => LastLook
BY AnOutcome DEF Init, LastLook

(* What a step of the kernel may do to it: nothing comes alive, and what   *)
(* comes to the supervisor is counted as moved.                            *)
LEMMA SameLook ==
    ASSUME TreeTypeOK, Ownership, LastLook,
           UNCHANGED << known, reading, pend, stage, step, outcome >>,
           \A k \in ours \cup intruders : pid'[k] = pid[k] /\ (Alive(k)' => Alive(k)),
           Settling => \A i \in ours' \ moved' :
               Alive(i)' /\ parent'[i] = Supervisor => i \in ours \ moved /\ parent[i] = Supervisor
    PROVE  LastLook'
<1>1. ASSUME stage \in {"left", "final", "wait", "done"}, NEW i \in ours' \ moved',
             Alive(i)', parent'[i] = Supervisor,
             \A j \in ours \ moved : Alive(j) /\ parent[j] = Supervisor =>
                j \in known \/ \E k \in known : k # j /\ pid[k] = pid[j]
      PROVE  i \in known \/ \E k \in known : k # i /\ pid'[k] = pid'[i]
  <2>1. i \in ours \ moved /\ parent[i] = Supervisor /\ Alive(i) /\ pid'[i] = pid[i]
    BY <1>1 DEF Settling
  <2>2. \A k \in known : pid'[k] = pid[k]
    BY DEF Ownership
  <2>. QED  BY <1>1, <2>1, <2>2
<1>2. \A k \in known : Alive(k)' => Alive(k)
  BY DEF Ownership
<1>. QED  BY <1>1, <1>2 DEF LastLook, Settling, Alive

LEMMA KernelLook ==
    ASSUME TreeTypeOK, Lineage, Ownership, LastLook, KernelNext
    PROVE  LastLook'
<1>. USE DEF tree, visit, supervision, history
<1>1. ASSUME NEW i \in Procs, Exit(i)
      PROVE  LastLook'
  <2>1. /\ UNCHANGED << ours, known, reading, pend, stage, step, outcome >>
        /\ Settling => moved' = moved \cup Bereft(i)
    BY <1>1 DEF Exit
  <2>2. \A k \in ours \cup intruders : pid'[k] = pid[k] /\ (Alive(k)' => Alive(k))
    BY <1>1, ExitAges DEF Ages, Alive, TreeTypeOK
  <2>3. \A j \in Procs : parent'[j] = Supervisor => j \in Bereft(i) \/ parent[j] = Supervisor
    BY <1>1, ExitAges, Names
  <2>4. Settling => \A j \in ours' \ moved' :
            Alive(j)' /\ parent'[j] = Supervisor => j \in ours \ moved /\ parent[j] = Supervisor
    BY <2>1, <2>3 DEF TreeTypeOK
  <2>. QED  BY <2>1, <2>2, <2>4, SameLook
<1>2. ASSUME NEW i \in Procs, ParentReaps(i)
      PROVE  LastLook'
  <2>1. UNCHANGED << ours, moved, known, reading, pend, stage, step, outcome >>
    BY <1>2 DEF ParentReaps
  <2>2. \A k \in ours \cup intruders : pid'[k] = pid[k] /\ (Alive(k)' => Alive(k))
    BY <1>2, ParentReapsZombie, ReapsAges DEF Ages, Alive, TreeTypeOK
  <2>3. \A j \in Procs : /\ parent'[j] = Supervisor => parent[j] = Supervisor
                         /\ Alive(j)' => Alive(j)
    BY <1>2, ParentReapsZombie, Names DEF Reaps, Alive
  <2>4. Settling => \A j \in ours' \ moved' :
            Alive(j)' /\ parent'[j] = Supervisor => j \in ours \ moved /\ parent[j] = Supervisor
    BY <2>1, <2>3 DEF TreeTypeOK
  <2>. QED  BY <2>1, <2>2, <2>4, SameLook
<1>3. ASSUME NEW i \in Procs, NEW n \in Pids,
             StrangerStarts(i, n) \/ \E p \in Procs : Fork(p, i, n)
      PROVE  LastLook'
  <2>1. /\ state[i] = "unborn" /\ ours' \subseteq ours \cup {i}
        /\ UNCHANGED << known, reading, pend, stage, step, outcome >>
        /\ \A j \in Procs \ {i} :
              state'[j] = state[j] /\ pid'[j] = pid[j] /\ parent'[j] = parent[j]
        /\ Settling => moved' = moved \cup {i}
    BY <1>3 DEF StrangerStarts, Fork, Birth, TreeTypeOK
  <2>2. i \notin ours \cup intruders
    BY <2>1 DEF Lineage
  <2>3. \A k \in ours \cup intruders : pid'[k] = pid[k] /\ (Alive(k)' => Alive(k))
    BY <2>1, <2>2 DEF Alive, TreeTypeOK
  <2>4. Settling => \A j \in ours' \ moved' :
            Alive(j)' /\ parent'[j] = Supervisor => j \in ours \ moved /\ parent[j] = Supervisor
    BY <2>1 DEF TreeTypeOK
  <2>. QED  BY <2>1, <2>3, <2>4, SameLook
<1>. QED  BY <1>1, <1>2, <1>3 DEF KernelNext

LEMMA LookLook ==
    ASSUME TreeTypeOK, Lineage, Ownership, LastLook, LookNext
    PROVE  LastLook'
<1>. USE DEF kernel, supervision, history
<1>1. CASE LookBegins
  BY <1>1 DEF LookBegins, LastLook
<1>2. ASSUME (\E p \in Procs : Identify(p)) \/ ListsChildren \/ (\E n \in Pids : LooksUp(n))
      PROVE  LastLook'
  <2>1. known \subseteq known' /\ UNCHANGED << kernel, supervision, pend, moved >>
    BY <1>2 DEF Identify, ListsChildren, LooksUp
  <2>2. step \in {"known", "adopted"}
    BY <1>2 DEF Identify, ListsChildren, LooksUp, Ownership, LastLook, TreeTypeOK
  <2>. QED  BY <2>1, <2>2 DEF LastLook, Alive
<1>3. CASE Adopt
  <2>1. /\ step = "known" /\ step' = "adopted" /\ UNCHANGED << stage, kernel, moved >>
        /\ known' = known \cup Recorded(ChildrenOf(Supervisor))
    BY <1>3 DEF Adopt
  <2>2. \A i \in ours : Alive(i) /\ parent[i] = Supervisor =>
            i \in known' \/ \E k \in known' : k # i /\ pid[k] = pid[i]
    BY <2>1 DEF Lineage, ChildrenOf, Recorded, CanRecord, Alive, Listed, TreeTypeOK
  <2>. QED  BY <2>1, <2>2 DEF LastLook, Alive
<1>4. CASE EachBegins
  <2>1. /\ step = "adopted" /\ reading' = Nobody /\ pend' = {i \in known : Alive(i)}
        /\ UNCHANGED << kernel, known, stage, outcome, moved >>
    BY <1>4 DEF EachBegins, Looked, visit
  <2>. QED  BY <2>1 DEF LastLook, Alive
<1>5. ASSUME NEW i \in Procs, FoundDead(i) PROVE LastLook'
  <2>1. /\ UNCHANGED << kernel, supervision, known, reading, moved >> /\ step = "each"
        /\ pend' = pend \ {i} /\ ~Alive(i)
    BY <1>5 DEF FoundDead, Asking, Signalling, visit
  <2>. QED  BY <2>1 DEF LastLook, Alive
<1>6. ASSUME (\E i \in Procs : TakesAim(i)) \/ Pins \/ Sends PROVE LastLook'
  BY <1>6 DEF TakesAim, Pins, Sends, Signalling, LastLook, visit
<1>. QED  BY <1>1, <1>2, <1>3, <1>4, <1>5, <1>6 DEF LookNext

LEMMA ProgramLook ==
    ASSUME TreeTypeOK, Lineage, Ownership, RootStatus, LastLook
    PROVE  /\ \A n \in Pids : Launch(n) => LastLook'
           /\ Watch => LastLook'
           /\ Wait => LastLook'
           /\ Deciding => LastLook'
           /\ SupervisorExits \/ SupervisorKilled => LastLook'
           /\ Expires \/ CallerReturns => LastLook'
<1>. USE DEF kernel, tree, visit, supervision, callerVars, history, Goto, Restart, Elsewhere
<1>1. ASSUME NEW n \in Pids, Launch(n) PROVE LastLook'
  BY <1>1, AnOutcome DEF Launch, Lineage, LastLook
<1>2. ASSUME Watch PROVE LastLook'
  BY <1>2 DEF Watch, LastLook
<1>3. ASSUME Wait PROVE LastLook'
  <2>1. /\ stage = "wait" /\ stage' = "done" /\ step' = "begin" /\ reading' = Nobody
        /\ UNCHANGED << known, moved, pid, ours >>
    BY <1>3 DEF Wait, RootWaited
  <2>2. outcome'.complete = outcome.complete
    <3>1. outcome' = [outcome EXCEPT !.zero = outcome.complete /\ code' = "zero"]
      BY <1>3 DEF Wait
    <3>2. outcome \in Outcomes /\ (outcome.complete /\ code' = "zero") \in BOOLEAN
      BY DEF TreeTypeOK
    <3>. QED  BY <3>1, <3>2, AnOutcome, Zenon
  <2>3. \A i \in Procs : /\ Alive(i)' => Alive(i)
                         /\ parent'[i] = Supervisor => parent[i] = Supervisor
    <3>1. CASE code = "none" /\ RootWaited
      BY <2>1, <3>1, WaitedKernel, Names DEF Reaps, Alive
    <3>2. CASE UNCHANGED << code, kernel >>
      BY <3>2 DEF Alive
    <3>. QED  BY <1>3, <3>1, <3>2 DEF Wait
  <2>. QED  BY <2>1, <2>2, <2>3 DEF LastLook, TreeTypeOK, Alive
<1>4. ASSUME Deciding PROVE LastLook'
  <2>1. step' = "begin" /\ reading' = Nobody /\ UNCHANGED << kernel, known, moved >>
    BY <1>4, DecidingFrame
  <2>2. CASE stage' \notin {"wait", "done"}
    BY <2>1, <2>2 DEF LastLook
  <2>3. CASE stage' \in {"wait", "done"}
    <3>1. stage \in {"left", "final"} /\ (outcome'.complete => NothingLives)
      BY <1>4, <2>3 DEF Deciding, Left, Signalled, Grace, Survivors, Final
    <3>. QED  BY <2>1, <2>3, <3>1 DEF LastLook, NothingLives, Asking, Alive
  <2>. QED  BY <2>2, <2>3
<1>5. ASSUME SupervisorExits \/ SupervisorKilled PROVE LastLook'
  <2>1. stage' = "gone" /\ step' = "begin" /\ reading' = Nobody
    BY <1>5, EndsKernel DEF SupervisorExits, SupervisorKilled
  <2>. QED  BY <2>1 DEF LastLook
<1>6. ASSUME Expires \/ CallerReturns PROVE LastLook'
  BY <1>6 DEF Expires, CallerReturns, LastLook, Alive
<1>. QED  BY <1>1, <1>2, <1>3, <1>4, <1>5, <1>6

-----------------------------------------------------------------------------
(* The inductive invariant, and what it gives.                             *)

LEMMA TreeInvStep ==
    ASSUME TreeInv, [Next]_treeVars
    PROVE  TreeInv'
<1>. USE DEF TreeInv
<1>1. TreeTypeOK'
  BY TypesStep
<1>2. CASE UNCHANGED treeVars
  BY <1>1, <1>2 DEF treeVars, kernel, tree, visit, supervision, callerVars, history, Lineage, Ownership,
                    RootStatus, LastLook, Listed, Alive
<1>3. CASE KernelNext
  BY <1>1, <1>3, KernelLineage, KernelOwnership, KernelRoot, KernelLook
<1>4. CASE LookNext
  BY <1>1, <1>4, ProgramLineage, LookOwnership, LookRoot, LookLook
<1>5. CASE \/ (\E n \in Pids : Launch(n)) \/ Watch \/ Wait \/ Deciding \/ SupervisorExits
           \/ Expires \/ SupervisorKilled \/ CallerReturns
  BY <1>1, <1>5, ProgramLineage, ProgramOwnership, ProgramRoot, ProgramLook
<1>. QED  BY <1>2, <1>3, <1>4, <1>5 DEF Next, SupervisorNext, LookNext, Deciding

(* Every reachable state of a supervised run satisfies the four parts.  In *)
(* particular what observe has in its hands, at every point of a visit, is *)
(* of the workload, or comes from a stranger that has got the number of    *)
(* the parent which is being visited.                                      *)
THEOREM TreeInvariant == Spec => []TreeInv
<1>1. Init => TreeInv
  BY InitTypes, InitLineage, InitOwnership, InitRoot, InitLook DEF TreeInv
<1>2. TreeInv /\ [Next]_treeVars => TreeInv'
  BY TreeInvStep
<1>. QED  BY <1>1, <1>2, PTL DEF Spec

(* The types; in particular the numbers of living processes differ, and no *)
(* number is known twice: _known, a dict, is a function of the number.     *)
THEOREM TreeTypes == Spec => []TreeTypeOK
<1>1. TreeInv => TreeTypeOK
  BY DEF TreeInv
<1>. QED  BY <1>1, TreeInvariant, PTL

(* No signal of OwnedProcessTree.signal reaches a process other than one   *)
(* that was registered, whatever the reuse of numbers between finding it,  *)
(* pinning it and sending.                                                 *)
THEOREM SignalsStayInside == Spec => []OnlyKnownSignalled
<1>1. TreeInv => OnlyKnownSignalled
  BY DEF TreeInv, Ownership, OnlyKnownSignalled
<1>. QED  BY <1>1, TreeInvariant, PTL

(* observe registers nothing but processes of the workload, and those that *)
(* a stranger passes off as such by getting the number of a parent during  *)
(* the visit of that parent (between 295 and 298, or 339 and 342).         *)
THEOREM RegistersWorkloadOnly == Spec => []KnownIsWorkload
<1>1. TreeInv => KnownIsWorkload
  BY DEF TreeInv, Ownership, KnownIsWorkload
<1>. QED  BY <1>1, TreeInvariant, PTL

(* cleanup_complete is said only when every child that the supervisor had  *)
(* before the last look is dead, or shares its number with a known one.    *)
THEOREM CleanupIsTrue == Spec => []CompleteIsClean
<1>1. ASSUME TreeInv PROVE CompleteIsClean
  <2>1. SUFFICES ASSUME stage \in {"wait", "done"}, outcome.complete,
                        NEW i \in ours \ moved, Alive(i), parent[i] = Supervisor
                 PROVE  \E k \in known : k # i /\ pid[k] = pid[i]
    BY DEF CompleteIsClean
  <2>2. i \notin known
    BY <1>1, <2>1 DEF TreeInv, LastLook
  <2>. QED  BY <1>1, <2>1, <2>2 DEF TreeInv, LastLook
<1>. QED  BY <1>1, TreeInvariant, PTL

(* The caller reads a zero only for a root that exited with zero and a     *)
(* cleanup that was complete.                                              *)
THEOREM ZeroIsReal == Spec => []SuccessIsReal
<1>1. TreeInv => SuccessIsReal
  BY DEF TreeInv, RootStatus, SuccessIsReal
<1>. QED  BY <1>1, TreeInvariant, PTL
=============================================================================
