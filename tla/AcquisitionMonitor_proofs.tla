---------------------- MODULE AcquisitionMonitor_proofs ----------------------
(***************************************************************************)
(* The acquisition monitor, for any number of workers and launches: it     *)
(* never has two supervisors for a worker and never launches over an       *)
(* attempt or a launch that is not explained.  MonitorInv is the inductive *)
(* invariant; its heart is that an unfinished launch is always either the  *)
(* one the tick is busy with or the one its state names.                   *)
(***************************************************************************)
EXTENDS AcquisitionMonitor, FiniteSetTheorems, WellFoundedInduction, TLAPS

-----------------------------------------------------------------------------
(* The phases in which a tick is busy with a launch of its own.            *)
Busy == {"intended", "popened", "checked", "reread"}

(* A launch on record whose guard has written no receipt.                  *)
Open(l) == record[l] # "absent" /\ receipt[l] = "none"

(* What the steps of guards and supervisors have made of a launch.         *)
LaunchShape ==
    \A l \in Launches :
        /\ worker[l] = NoWorker <=> record[l] = "absent"
        /\ record[l] = "absent" => guard[l] = "none"
        /\ guard[l] \in {"none", "started"} => supervisor[l] = "none"
        /\ guard[l] = "reaped" => supervisor[l] # "live"
        /\ guard[l] \in {"none", "started", "waiting", "reaped"} => receipt[l] = "none"
        /\ guard[l] \in {"receipted", "closed"} => receipt[l] # "none"
        /\ receipt[l] # "none" => supervisor[l] # "live"
        /\ receipt[l] = "ok" => supervisor[l] = "zero"
        /\ record[l] = "receipt_written" => receipt[l] # "none"

(* The ranks of the ends that were recorded are as many as the ends.       *)
Ended == {l \in Launches : guard[l] \in {"closed", "gone"}}
RanksBounded == \A l \in Launches : finished[l] <= Cardinality(Ended)

(* What a tick remembers of its own progress.                              *)
TickShape ==
    /\ phase \in Busy <=> mine # NoLaunch
    /\ phase \in Busy => worker[mine] \in todo /\ launched < MaxPerTick
    /\ phase = "intended" => guard[mine] = "none"
    /\ todo # {} => phase \in Busy \cup {"choosing"}

(* The state names a launch under its own worker.                          *)
NamesFit ==
    \A w \in Workers :
        /\ entry[w] # NoLaunch => worker[entry[w]] = w
        /\ known[w] # NoLaunch => worker[known[w]] = w

(* A worker still to be looked at has been judged by what is known of it,  *)
(* and the tick is busy only for a worker with nothing running.            *)
VerdictsHold ==
    /\ \A w \in todo :
          /\ verdict[w] = "none" => known[w] = NoLaunch
          /\ verdict[w] = "exited_with_receipt_unverified" =>
                known[w] # NoLaunch /\ receipt[known[w]] = "ok"
    /\ phase \in Busy => verdict[worker[mine]] # "running"

OpenIsKnown ==
    phase \notin {"idle", "loaded"} =>
        \A l \in Launches : Open(l) => l \in {mine, known[worker[l]]}

OneOpen ==
    \A k, l \in Launches : Open(k) /\ Open(l) /\ worker[k] = worker[l] => k = l

(* An attempt that the snapshot does not show was claimed since by a known *)
(* supervisor, which has not ended well in the meantime.                   *)
AttemptsExplained ==
    phase \in Busy \cup {"queried", "choosing"} =>
        \A w \in Workers : snapshot[w] = "none" /\ attempt[w] # "none" =>
            \E l \in {mine, known[w]} \ {NoLaunch} :
                worker[l] = w /\ supervisor[l] \in {"live", "nonzero"}

MonitorInv ==
    /\ MonitorTypeOK
    /\ LaunchShape
    /\ RanksBounded
    /\ TickShape
    /\ NamesFit
    /\ VerdictsHold
    /\ OpenIsKnown
    /\ OneOpen
    /\ AttemptsExplained

-----------------------------------------------------------------------------
(* Smallest and largest members.                                           *)
LEMMA LeastNatural ==
    ASSUME NEW S \in SUBSET Nat, S # {}
    PROVE  \E n \in S : \A m \in S : n <= m
<1>. DEFINE less == {pair \in Nat \X Nat : pair[1] < pair[2]}
<1>1. IsWellFoundedOn(less, Nat)
  BY NatLessThanWellFounded, Zenon DEF OpToRel
<1>. HIDE DEF less
<1>2. PICK n \in S : \A m \in S : ~(<< m, n >> \in less)
  BY <1>1, WFMin
<1>3. \A m \in S : ~(m < n)
  BY <1>2 DEF less
<1>. QED  BY <1>3

LEMMA MinOf ==
    ASSUME NEW S \in SUBSET Nat, S # {}
    PROVE  Min(S) \in S
BY LeastNatural DEF Min

LEMMA MaxOf ==
    ASSUME NEW S \in SUBSET Nat, S # {}, NEW bound \in Nat, \A m \in S : m <= bound
    PROVE  Max(S) \in S
<1>. DEFINE T == {n \in Nat : \A m \in S : m <= n}
<1>1. PICK top \in T : \A n \in T : top <= n
  BY LeastNatural
<1>2. top \in S
  <2>1. CASE top = 0
    <3>1. \A m \in S : m <= 0 /\ m \in Nat
      BY <1>1, <2>1
    <3>2. \A m \in S : m = 0
      BY <3>1
    <3>. QED  BY <2>1, <3>2
  <2>2. CASE top # 0
    <3>1. top - 1 \in Nat /\ top - 1 \notin T
      BY <1>1, <2>2
    <3>2. PICK m \in S : ~(m <= top - 1)
      BY <3>1
    <3>. QED  BY <1>1, <3>2
  <2>. QED  BY <2>1, <2>2
<1>3. \A m \in S : top >= m
  BY <1>1
<1>. QED  BY <1>2, <1>3 DEF Max

LEMMA OneOnly ==
    ASSUME NEW S, IsFiniteSet(S), ~(Cardinality(S) > 1), NEW k \in S, NEW l \in S
    PROVE  k = l
<1>. SUFFICES ASSUME k # l PROVE FALSE
  OBVIOUS
<1>1. IsFiniteSet({k}) /\ Cardinality({k}) = 1
  BY FS_Singleton
<1>2. Cardinality({k} \cup {l}) = 2
  BY <1>1, FS_AddElement
<1>3. {k} \cup {l} \in SUBSET S
  OBVIOUS
<1>4. Cardinality({k} \cup {l}) <= Cardinality(S) /\ Cardinality(S) \in Nat
  BY <1>3, FS_Subset, FS_CardinalityType
<1>. QED  BY <1>2, <1>4

(* Drawing a launch: an identifier that has no record yet.                 *)
LEMMA FreshLaunch ==
    ASSUME MonitorTypeOK, NoWorker \in Range(worker)
    PROVE  /\ Min({k \in Launches : worker[k] = NoWorker}) \in Launches
           /\ worker[Min({k \in Launches : worker[k] = NoWorker})] = NoWorker
<1>. DEFINE S == {k \in Launches : worker[k] = NoWorker}
<1>1. S \in SUBSET Nat /\ S # {}
  BY MonitorAssumption DEF MonitorTypeOK, Range
<1>2. Min(S) \in S
  BY <1>1, MinOf
<1>. QED  BY <1>2

LEMMA NewRank ==
    ASSUME MonitorTypeOK, NEW l \in Launches
    PROVE  \E k \in Launches : Max({finished[j] : j \in Launches}) = finished[k]
<1>. DEFINE S == {finished[j] : j \in Launches}
<1>1. Cardinality(Launches) \in Nat
  BY MonitorAssumption, FS_CardinalityType
<1>2. S \in SUBSET Nat /\ S # {} /\ \A m \in S : m <= Cardinality(Launches)
  BY <1>1 DEF MonitorTypeOK
<1>3. Max(S) \in S
  BY <1>1, <1>2, MaxOf
<1>. QED  BY <1>3

-----------------------------------------------------------------------------
(* Consequences of the invariant.                                          *)
LEMMA SizeOfLaunches == Cardinality(Launches) \in Nat
BY MonitorAssumption, FS_CardinalityType

LEMMA OnRecord ==
    ASSUME MonitorTypeOK, LaunchShape, NEW l \in Launches,
           guard[l] # "none" \/ supervisor[l] # "none" \/ receipt[l] # "none" \/ record[l] # "absent"
    PROVE  record[l] # "absent" /\ worker[l] \in Workers /\ worker[l] # NoWorker
BY SMTT(30) DEF MonitorTypeOK, LaunchShape

LEMMA LiveIsOpen ==
    ASSUME MonitorTypeOK, LaunchShape, NEW l \in Launches, supervisor[l] = "live"
    PROVE  Open(l)
BY SMTT(30) DEF MonitorTypeOK, LaunchShape, Open

LEMMA OpenIsActive ==
    ASSUME MonitorTypeOK, LaunchShape, NEW l \in Launches, Open(l)
    PROVE  Active(l)
BY DEF MonitorTypeOK, LaunchShape, Open, Active, Closed

LEMMA BusyWithMine ==
    ASSUME MonitorInv, phase \in Busy
    PROVE  /\ mine \in Launches /\ mine # NoLaunch
           /\ worker[mine] \in Workers /\ worker[mine] \in todo
           /\ record[mine] # "absent"
           /\ launched < MaxPerTick
BY MonitorAssumption, SMTT(30) DEF MonitorInv, MonitorTypeOK, TickShape, LaunchShape

(* What is known of a worker that a tick may launch for has ended well.    *)
LEMMA JudgedHasEnded ==
    ASSUME MonitorInv, NEW w \in todo, verdict[w] # "running", known[w] # NoLaunch
    PROVE  /\ known[w] \in Launches
           /\ worker[known[w]] = w
           /\ receipt[known[w]] = "ok"
           /\ supervisor[known[w]] = "zero"
<1>1. w \in Workers /\ known[w] \in Launches
  BY DEF MonitorInv, MonitorTypeOK
<1>2. verdict[w] \in {"none", "exited_with_receipt_unverified"}
  BY <1>1 DEF MonitorInv, MonitorTypeOK
<1>3. receipt[known[w]] = "ok"
  BY <1>2 DEF MonitorInv, VerdictsHold
<1>. QED  BY <1>1, <1>3 DEF MonitorInv, NamesFit, LaunchShape

(* The sets of launches and their ranks do not shrink.                     *)
LEMMA EndedGrows ==
    ASSUME MonitorTypeOK, RanksBounded, MonitorTypeOK',
           \A l \in Launches : guard[l] \in {"closed", "gone"} => guard'[l] \in {"closed", "gone"},
           \A l \in Launches : finished'[l] \in {0, finished[l]}
    PROVE  RanksBounded'
<1>. DEFINE E == {l \in Launches : guard'[l] \in {"closed", "gone"}}
<1>1. Ended \in SUBSET E /\ E \in SUBSET Launches
  BY DEF Ended
<1>2. IsFiniteSet(E)
  BY <1>1, MonitorAssumption, FS_Subset
<1>3. Cardinality(Ended) <= Cardinality(E) /\ Cardinality(E) \in Nat /\ Cardinality(Ended) \in Nat
  BY <1>1, <1>2, FS_Subset, FS_CardinalityType
<1>4. Cardinality(Launches) \in Nat
  BY SizeOfLaunches
<1>5. \A l \in Launches : finished[l] \in Nat /\ finished[l] <= Cardinality(Ended)
  BY <1>4 DEF MonitorTypeOK, RanksBounded
<1>6. \A l \in Launches : finished'[l] <= Cardinality(E)
  <2>. TAKE l \in Launches
  <2>1. finished[l] \in Nat /\ finished[l] <= Cardinality(Ended) /\ finished'[l] \in {0, finished[l]}
    BY <1>5
  <2>. HIDE DEF E
  <2>. QED  BY <2>1, <1>3
<1>. QED  BY <1>6 DEF RanksBounded, Ended

LEMMA EndedIsBounded ==
    Cardinality(Ended) \in Nat /\ IsFiniteSet(Ended)
<1>1. Ended \in SUBSET Launches
  BY DEF Ended
<1>. QED  BY <1>1, MonitorAssumption, FS_Subset, FS_CardinalityType

-----------------------------------------------------------------------------
(* Steps of the tick that leave the launches alone.                        *)
LaunchesKept == UNCHANGED << worker, record, finished, receipt, processes >>

LEMMA BookKept ==
    ASSUME MonitorInv, LaunchesKept
    PROVE  LaunchShape' /\ RanksBounded' /\ OneOpen'
<1>1. LaunchShape'
  BY DEF MonitorInv, LaunchShape, LaunchesKept, processes
<1>2. RanksBounded'
  BY DEF MonitorInv, RanksBounded, Ended, LaunchesKept, processes
<1>3. OneOpen'
  BY DEF MonitorInv, OneOpen, Open, LaunchesKept, processes
<1>. QED  BY <1>1, <1>2, <1>3

(* However a tick ends, nothing of it is left to be wrong.                 *)
LEMMA ForgottenTick ==
    ASSUME MonitorInv, Forget, UNCHANGED worker, entry' = entry \/ entry' = known
    PROVE  TickShape' /\ NamesFit' /\ VerdictsHold' /\ OpenIsKnown' /\ AttemptsExplained'
<1>1. TickShape' /\ VerdictsHold' /\ OpenIsKnown' /\ AttemptsExplained'
  BY DEF Forget, TickShape, VerdictsHold, OpenIsKnown, AttemptsExplained, Busy
<1>2. NamesFit'
  BY DEF Forget, NamesFit, MonitorInv
<1>. QED  BY <1>1, <1>2

LEMMA ForgottenTypes ==
    ASSUME MonitorInv, Forget, LaunchesKept, UNCHANGED queue, entry' = entry \/ entry' = known
    PROVE  MonitorTypeOK'
<1>1. 0 \in 0 .. MaxPerTick /\ "none" \in AttemptStates /\ "idle" \in Phases
  BY MonitorAssumption DEF AttemptStates, Phases
<1>2. /\ known' \in [Workers -> Launches \cup {NoLaunch}]
      /\ snapshot' \in [Workers -> AttemptStates]
      /\ verdict' \in [Workers -> {"none", "running", "exited_with_receipt_unverified"}]
      /\ todo' = {} /\ mine' = NoLaunch /\ launched' = 0 /\ latest' = FALSE /\ phase' = "idle"
      /\ remaining' = FALSE
  BY <1>1 DEF Forget
<1>3. UNCHANGED << worker, record, finished, receipt, guard, supervisor, attempt, pending >>
  BY DEF LaunchesKept, processes, queue
<1>4. entry' \in [Workers -> Launches \cup {NoLaunch}]
  BY DEF MonitorInv, MonitorTypeOK
<1>. QED  BY <1>1, <1>2, <1>3, <1>4 DEF MonitorInv, MonitorTypeOK

LEMMA ForgettingStep ==
    ASSUME MonitorInv, Forget, LaunchesKept, UNCHANGED queue, entry' = entry \/ entry' = known
    PROVE  MonitorInv'
<1>1. UNCHANGED worker
  BY DEF LaunchesKept
<1>. QED  BY <1>1, BookKept, ForgottenTick, ForgottenTypes DEF MonitorInv

LEMMA BeginStep ==
    ASSUME MonitorInv, TickBegins
    PROVE  MonitorInv'
<1>1. LaunchesKept
  BY DEF TickBegins, LaunchesKept, durable
<1>2. MonitorTypeOK'
  BY DEF MonitorInv, MonitorTypeOK, TickBegins, durable, processes, queue, Phases
<1>3. TickShape' /\ OpenIsKnown' /\ AttemptsExplained'
  BY DEF MonitorInv, TickShape, OpenIsKnown, AttemptsExplained, TickBegins, Busy
<1>4. NamesFit'
  BY DEF MonitorInv, NamesFit, TickBegins, durable
<1>5. VerdictsHold'
  <2>1. todo' = {} /\ phase' = "loaded"
    BY DEF MonitorInv, TickShape, TickBegins, Busy
  <2>. QED  BY <2>1 DEF VerdictsHold, Busy
<1>. QED  BY <1>1, <1>2, <1>3, <1>4, <1>5, BookKept DEF MonitorInv

(* The merge takes over what is unfinished: at most one launch a worker.   *)
LEMMA MergedIsOpen ==
    ASSUME MonitorInv, ~MergeFails, NEW l \in Launches, Open(l),
           NEW name, Merged(worker[l], name)
    PROVE  name = l
<1>. DEFINE w == worker[l]
            S == {k \in Of(w) : Active(k)}
<1>1. w \in Workers /\ l \in Of(w) /\ Active(l)
  BY OnRecord, OpenIsActive DEF MonitorInv, Open, Of
<1>2. ~(Cardinality(S) > 1)
  BY <1>1 DEF MergeFails
<1>3. S \in SUBSET Launches /\ l \in S
  BY <1>1 DEF Of
<1>4. IsFiniteSet(S)
  BY <1>3, MonitorAssumption, FS_Subset
<1>5. name \in S
  BY <1>1 DEF Merged
<1>. HIDE DEF S
<1>. QED  BY <1>2, <1>3, <1>4, <1>5, OneOnly

LEMMA MergedIsOfWorker ==
    ASSUME MonitorInv, NEW w \in Workers, NEW name, Merged(w, name), name # NoLaunch
    PROVE  worker[name] = w
<1>1. name \in Of(w) \/ name = known[w]
  BY DEF Merged, NewestClosed
<1>. QED  BY <1>1 DEF Of, MonitorInv, NamesFit

LEMMA MergeStep ==
    ASSUME MonitorInv, TickMerges
    PROVE  MonitorInv'
<1>1. LaunchesKept /\ UNCHANGED << entry, mine, todo, verdict, launched >> /\ phase = "loaded" /\ phase' = "merged"
  BY DEF TickMerges, LaunchesKept, durable
<1>2. known' \in [Workers -> Launches \cup {NoLaunch}] /\ \A w \in Workers : Merged(w, known'[w])
  BY DEF TickMerges
<1>3. MonitorTypeOK'
  BY <1>1, <1>2 DEF MonitorInv, MonitorTypeOK, TickMerges, durable, processes, queue, Phases
<1>4. TickShape' /\ AttemptsExplained'
  BY <1>1 DEF MonitorInv, TickShape, AttemptsExplained, Busy, LaunchesKept
<1>5. NamesFit'
  <2>1. \A w \in Workers : known'[w] # NoLaunch => worker[known'[w]] = w
    BY <1>2, MergedIsOfWorker
  <2>. QED  BY <1>1, <2>1 DEF MonitorInv, NamesFit, LaunchesKept
<1>6. VerdictsHold'
  BY <1>1 DEF MonitorInv, VerdictsHold, TickShape, Busy
<1>7. OpenIsKnown'
  <2>1. ASSUME NEW l \in Launches, Open(l)
        PROVE  known'[worker[l]] = l
    <3>1. worker[l] \in Workers
      BY <2>1, OnRecord DEF MonitorInv, Open
    <3>. QED  BY <1>2, <2>1, <3>1, MergedIsOpen DEF TickMerges
  <2>. QED  BY <1>1, <2>1 DEF OpenIsKnown, Open, LaunchesKept
<1>. QED  BY <1>1, <1>3, <1>4, <1>5, <1>6, <1>7, BookKept DEF MonitorInv

LEMMA QueryStep ==
    ASSUME MonitorInv, TickQueries
    PROVE  MonitorInv'
<1>1. LaunchesKept /\ UNCHANGED << entry, known, mine, todo, verdict, launched >>
  BY DEF TickQueries, LaunchesKept, durable
<1>2. phase = "merged" /\ phase' = "queried" /\ snapshot' = attempt /\ attempt' = attempt
  BY DEF TickQueries, queue
<1>3. MonitorTypeOK'
  BY DEF MonitorInv, MonitorTypeOK, TickQueries, durable, processes, queue, Phases
<1>4. TickShape' /\ NamesFit' /\ OpenIsKnown' /\ AttemptsExplained'
  BY <1>1, <1>2 DEF MonitorInv, TickShape, NamesFit, OpenIsKnown, Open, AttemptsExplained, Busy, LaunchesKept
<1>5. VerdictsHold'
  BY <1>1, <1>2 DEF MonitorInv, VerdictsHold, TickShape, Busy
<1>. QED  BY <1>1, <1>3, <1>4, <1>5, BookKept DEF MonitorInv

LEMMA VerdictMeans ==
    ASSUME NEW l, Verdict(l) # "failure"
    PROVE  /\ Verdict(l) \in {"none", "running", "exited_with_receipt_unverified"}
           /\ Verdict(l) = "none" => l = NoLaunch
           /\ Verdict(l) = "exited_with_receipt_unverified" => l # NoLaunch /\ receipt[l] = "ok"
BY DEF Verdict

LEMMA ClassifyStep ==
    ASSUME MonitorInv, TickClassifies
    PROVE  MonitorInv'
<1>1. LaunchesKept /\ UNCHANGED << entry, known, mine, launched, snapshot, attempt >>
      /\ phase = "queried" /\ phase' = "choosing" /\ todo' = Workers
      /\ verdict' = [w \in Workers |-> Verdict(known[w])]
  BY DEF TickClassifies, LaunchesKept, durable, queue
<1>2. \A w \in Workers : Verdict(known[w]) # "failure"
  BY DEF TickClassifies, ClassifyFails
<1>3. \A w \in Workers :
        /\ verdict'[w] \in {"none", "running", "exited_with_receipt_unverified"}
        /\ verdict'[w] = "none" => known[w] = NoLaunch
        /\ verdict'[w] = "exited_with_receipt_unverified" => known[w] # NoLaunch /\ receipt[known[w]] = "ok"
  BY <1>1, <1>2, VerdictMeans
<1>4. verdict' \in [Workers -> {"none", "running", "exited_with_receipt_unverified"}]
  BY <1>1, <1>3
<1>5. MonitorTypeOK'
  BY <1>1, <1>4 DEF MonitorInv, MonitorTypeOK, TickClassifies, durable, processes, queue, Phases
<1>6. TickShape' /\ NamesFit' /\ OpenIsKnown'
  BY <1>1 DEF MonitorInv, TickShape, NamesFit, OpenIsKnown, Open, Busy, LaunchesKept
<1>7. AttemptsExplained'
  BY <1>1, SMTT(30) DEF MonitorInv, AttemptsExplained, Busy, LaunchesKept, processes
<1>8. VerdictsHold'
  BY <1>1, <1>3 DEF VerdictsHold, Busy, LaunchesKept
<1>. QED  BY <1>1, <1>5, <1>6, <1>7, <1>8, BookKept DEF MonitorInv

LEMMA SkipStep ==
    ASSUME MonitorInv, NEW w \in Workers, TickSkips(w)
    PROVE  MonitorInv'
<1>1. LaunchesKept
  BY DEF TickSkips, LaunchesKept, durable
<1>2. MonitorTypeOK'
  BY DEF MonitorInv, MonitorTypeOK, TickSkips, durable, processes, queue
<1>3. TickShape' /\ NamesFit' /\ VerdictsHold' /\ OpenIsKnown' /\ AttemptsExplained'
  BY DEF MonitorInv, TickShape, NamesFit, VerdictsHold, OpenIsKnown, Open, AttemptsExplained, Busy,
         TickSkips, durable, processes, queue
<1>. QED  BY <1>1, <1>2, <1>3, BookKept DEF MonitorInv

(* Looking at the child, and reading the record again.                     *)
LEMMA LookStep ==
    ASSUME MonitorInv, phase \in Busy, phase' \in {"checked", "reread"}, latest' \in BOOLEAN,
           UNCHANGED << durable, processes, queue, known, snapshot, remaining, verdict, todo, mine, launched >>
    PROVE  MonitorInv'
<1>1. LaunchesKept
  BY DEF LaunchesKept, durable
<1>2. MonitorTypeOK'
  BY DEF MonitorInv, MonitorTypeOK, durable, processes, queue, Phases
<1>3. TickShape' /\ NamesFit' /\ VerdictsHold' /\ OpenIsKnown' /\ AttemptsExplained'
  BY DEF MonitorInv, TickShape, NamesFit, VerdictsHold, OpenIsKnown, Open, AttemptsExplained, Busy,
         durable, processes, queue
<1>. QED  BY <1>1, <1>2, <1>3, BookKept DEF MonitorInv

-----------------------------------------------------------------------------
(* Launching.                                                              *)

(* Nothing of a worker that may be launched for is unfinished, and its     *)
(* attempt is free now.                                                    *)
LEMMA LaunchableIsFree ==
    ASSUME MonitorInv, phase = "choosing", NEW w \in todo, Launchable(w)
    PROVE  /\ w \in Workers
           /\ \A k \in Of(w) : record[k] # "absent" /\ receipt[k] # "none" /\ supervisor[k] # "live"
           /\ attempt[w] = "none"
<1>1. w \in Workers /\ verdict[w] # "running" /\ snapshot[w] = "none" /\ mine = NoLaunch
  BY DEF MonitorInv, MonitorTypeOK, Launchable, TickShape, Busy
<1>2. known[w] # NoLaunch =>
        known[w] \in Launches /\ receipt[known[w]] = "ok" /\ supervisor[known[w]] = "zero"
  BY <1>1, JudgedHasEnded
<1>3. \A k \in Of(w) : k \in Launches /\ worker[k] = w /\ record[k] # "absent"
  BY <1>1, MonitorAssumption DEF Of, MonitorInv, LaunchShape
<1>4. \A k \in Of(w) : receipt[k] # "none"
  <2>. SUFFICES ASSUME NEW k \in Of(w), receipt[k] = "none" PROVE FALSE
    OBVIOUS
  <2>1. k \in Launches /\ worker[k] = w /\ Open(k)
    BY <1>3 DEF Open
  <2>2. k = known[w] /\ k # NoLaunch
    BY <1>1, <2>1, MonitorAssumption DEF MonitorInv, OpenIsKnown
  <2>. QED  BY <1>2, <2>2
<1>5. \A k \in Of(w) : supervisor[k] # "live"
  BY <1>3, <1>4 DEF MonitorInv, LaunchShape
<1>6. attempt[w] = "none"
  <2>. SUFFICES ASSUME attempt[w] # "none" PROVE FALSE
    OBVIOUS
  <2>1. PICK l \in {mine, known[w]} \ {NoLaunch} : supervisor[l] \in {"live", "nonzero"}
    BY <1>1 DEF MonitorInv, AttemptsExplained
  <2>. QED  BY <1>1, <1>2, <2>1
<1>. QED  BY <1>1, <1>3, <1>4, <1>5, <1>6

LEMMA IntentStep ==
    ASSUME MonitorInv, NEW w \in Workers, NEW l \in Launches, RecordIntent(w, l)
    PROVE  MonitorInv'
<1>1. /\ phase = "choosing" /\ phase' = "intended" /\ w \in todo /\ Launchable(w)
      /\ launched < MaxPerTick
      /\ worker' = [worker EXCEPT ![l] = w] /\ record' = [record EXCEPT ![l] = "spawn_intent"]
      /\ mine' = l
      /\ UNCHANGED << finished, receipt, entry, guard, supervisor, attempt, pending,
                      known, snapshot, remaining, verdict, todo, launched, latest >>
  BY DEF RecordIntent, processes, queue
<1>2. worker[l] = NoWorker
  BY FreshLaunch DEF RecordIntent, MonitorInv
<1>3. record[l] = "absent" /\ guard[l] = "none" /\ supervisor[l] = "none" /\ receipt[l] = "none"
  BY <1>2 DEF MonitorInv, MonitorTypeOK, LaunchShape
<1>4. \A k \in Of(w) : receipt[k] # "none"
  BY <1>1, LaunchableIsFree
<1>5. MonitorTypeOK'
  BY <1>1 DEF MonitorInv, MonitorTypeOK, RecordStates, Phases
<1>6. LaunchShape'
  BY <1>1, <1>3, MonitorAssumption DEF MonitorInv, MonitorTypeOK, LaunchShape
<1>7. RanksBounded'
  BY <1>1 DEF MonitorInv, RanksBounded, Ended
<1>8. TickShape'
  BY <1>1, <1>3, MonitorAssumption DEF MonitorInv, MonitorTypeOK, TickShape, Busy
<1>9. \A k \in Launches : worker[k] # NoWorker => worker'[k] = worker[k] /\ record'[k] = record[k] /\ k # l
  BY <1>1, <1>2 DEF MonitorInv, MonitorTypeOK
<1>10. \A k \in Launches : k # l => worker'[k] = worker[k] /\ record'[k] = record[k]
  BY <1>1 DEF MonitorInv, MonitorTypeOK
<1>11. worker'[l] = w
  BY <1>1 DEF MonitorInv, MonitorTypeOK
<1>12. NamesFit'
  <2>1. \A v \in Workers : v # NoWorker
    BY MonitorAssumption
  <2>2. \A v \in Workers : /\ entry[v] # NoLaunch => entry[v] \in Launches /\ worker'[entry[v]] = v
                           /\ known[v] # NoLaunch => known[v] \in Launches /\ worker'[known[v]] = v
    BY <1>9, <2>1 DEF MonitorInv, MonitorTypeOK, NamesFit
  <2>. QED  BY <1>1, <2>2 DEF NamesFit
<1>13. VerdictsHold'
  BY <1>1, <1>11 DEF MonitorInv, VerdictsHold, Launchable
<1>14. mine = NoLaunch
  BY <1>1 DEF MonitorInv, TickShape, Busy
<1>15. OpenIsKnown'
  <2>1. ASSUME NEW k \in Launches, k # l, record'[k] # "absent", receipt[k] = "none"
        PROVE  k = known[worker'[k]]
    <3>1. Open(k) /\ worker'[k] = worker[k]
      BY <1>10, <2>1 DEF Open
    <3>2. k \in {mine, known[worker[k]]} /\ k # NoLaunch
      BY <1>1, <3>1, MonitorAssumption DEF MonitorInv, OpenIsKnown
    <3>. QED  BY <1>14, <3>1, <3>2
  <2>. QED  BY <1>1, <2>1 DEF OpenIsKnown, Open
<1>16. OneOpen'
  <2>1. ASSUME NEW k \in Launches, k # l, record'[k] # "absent", receipt[k] = "none"
        PROVE  worker'[k] # worker'[l] /\ Open(k) /\ worker'[k] = worker[k]
    BY <1>4, <1>10, <1>11, <2>1 DEF Of, Open
  <2>. QED  BY <1>1, <2>1 DEF MonitorInv, OneOpen, Open
<1>17. AttemptsExplained'
  <2>1. ASSUME NEW v \in Workers, snapshot[v] = "none", attempt[v] # "none"
        PROVE  known[v] # NoLaunch /\ worker'[known[v]] = v /\ supervisor[known[v]] \in {"live", "nonzero"}
    <3>1. PICK k \in {mine, known[v]} \ {NoLaunch} : worker[k] = v /\ supervisor[k] \in {"live", "nonzero"}
      BY <1>1, <2>1 DEF MonitorInv, AttemptsExplained
    <3>2. k = known[v] /\ k \in Launches /\ v # NoWorker
      BY <1>14, <3>1, MonitorAssumption DEF MonitorInv, MonitorTypeOK
    <3>. QED  BY <1>9, <3>1, <3>2
  <2>. QED  BY <1>1, <2>1 DEF AttemptsExplained
<1>. QED  BY <1>5, <1>6, <1>7, <1>8, <1>12, <1>13, <1>15, <1>16, <1>17 DEF MonitorInv

LEMMA SpawnStep ==
    ASSUME MonitorInv, SpawnGuard
    PROVE  MonitorInv'
<1>1. /\ phase = "intended" /\ phase' = "popened"
      /\ guard' = [guard EXCEPT ![mine] = "started"]
      /\ UNCHANGED << worker, record, finished, receipt, entry, supervisor, attempt, pending,
                      known, snapshot, remaining, verdict, todo, mine, launched, latest >>
  BY DEF SpawnGuard, durable, queue
<1>2. mine \in Launches /\ record[mine] # "absent"
  BY <1>1, BusyWithMine DEF Busy
<1>3. guard[mine] = "none"
  BY <1>1 DEF MonitorInv, TickShape
<1>4. MonitorTypeOK'
  BY <1>1 DEF MonitorInv, MonitorTypeOK, GuardStates, Phases
<1>5. LaunchShape'
  BY <1>1, <1>2, <1>3 DEF MonitorInv, MonitorTypeOK, LaunchShape
<1>6. RanksBounded'
  <2>1. \A k \in Launches : guard[k] \in {"closed", "gone"} => guard'[k] \in {"closed", "gone"}
    BY <1>1, <1>2, <1>3 DEF MonitorInv, MonitorTypeOK
  <2>. QED  BY <1>1, <1>4, <2>1, EndedGrows DEF MonitorInv
<1>7. TickShape' /\ NamesFit' /\ VerdictsHold' /\ OpenIsKnown' /\ OneOpen' /\ AttemptsExplained'
  BY <1>1 DEF MonitorInv, TickShape, NamesFit, VerdictsHold, OpenIsKnown, OneOpen, Open, AttemptsExplained, Busy
<1>. QED  BY <1>4, <1>5, <1>6, <1>7 DEF MonitorInv

LEMMA PublishStep ==
    ASSUME MonitorInv, PublishIdentity
    PROVE  MonitorInv'
<1>. DEFINE w == worker[mine]
<1>1. /\ phase = "reread" /\ phase' = "choosing" /\ mine' = NoLaunch
      /\ known' = [known EXCEPT ![w] = mine] /\ todo' = todo \ {w}
      /\ launched' = launched + 1 /\ latest' = FALSE
      /\ UNCHANGED << worker, receipt, entry, guard, supervisor, attempt, pending, snapshot, remaining, verdict >>
  BY DEF PublishIdentity, processes, queue
<1>2. /\ mine \in Launches /\ mine # NoLaunch /\ w \in Workers /\ w \in todo
      /\ record[mine] # "absent" /\ launched < MaxPerTick
  BY <1>1, BusyWithMine DEF Busy
<1>3. /\ record' \in {record, [record EXCEPT ![mine] = "spawned"]}
      /\ finished' \in {finished, [finished EXCEPT ![mine] = 0]}
  BY DEF PublishIdentity
<1>4. known[w] # NoLaunch => receipt[known[w]] = "ok" /\ supervisor[known[w]] = "zero"
  <2>1. verdict[w] # "running"
    BY <1>1 DEF MonitorInv, VerdictsHold, Busy
  <2>. QED  BY <1>2, <2>1, JudgedHasEnded
<1>5. MonitorTypeOK'
  <2>1. launched' \in 0 .. MaxPerTick
    BY <1>1, <1>2, MonitorAssumption DEF MonitorInv, MonitorTypeOK
  <2>2. known' \in [Workers -> Launches \cup {NoLaunch}]
    BY <1>1, <1>2 DEF MonitorInv, MonitorTypeOK
  <2>3. record' \in [Launches -> RecordStates]
    BY <1>2, <1>3 DEF MonitorInv, MonitorTypeOK, RecordStates
  <2>4. finished' \in [Launches -> 0 .. Cardinality(Launches)]
    BY <1>2, <1>3, SizeOfLaunches DEF MonitorInv, MonitorTypeOK
  <2>. QED  BY <1>1, <2>1, <2>2, <2>3, <2>4 DEF MonitorInv, MonitorTypeOK, Phases
<1>6. LaunchShape'
  BY <1>1, <1>2, <1>3, SMTT(30) DEF MonitorInv, MonitorTypeOK, LaunchShape
<1>7. RanksBounded'
  <2>1. \A k \in Launches : finished'[k] \in {0, finished[k]}
    BY <1>3 DEF MonitorInv, MonitorTypeOK
  <2>. QED  BY <1>1, <1>5, <2>1, EndedGrows DEF MonitorInv
<1>8. TickShape'
  BY <1>1 DEF TickShape, Busy
<1>9. /\ known'[w] = mine /\ w \notin todo'
      /\ \A v \in Workers : v # w => known'[v] = known[v]
  BY <1>1, <1>2 DEF MonitorInv, MonitorTypeOK
<1>10. NamesFit'
  BY <1>1, <1>9, SMTT(30) DEF MonitorInv, MonitorTypeOK, NamesFit
<1>11. VerdictsHold'
  <2>1. \A v \in todo' : v \in todo /\ v \in Workers /\ known'[v] = known[v]
    BY <1>1, <1>9 DEF MonitorInv, MonitorTypeOK
  <2>. QED  BY <1>1, <2>1 DEF MonitorInv, VerdictsHold, Busy
<1>12. \A k \in Launches : record'[k] = "absent" <=> record[k] = "absent"
  BY <1>2, <1>3 DEF MonitorInv, MonitorTypeOK
<1>13. OneOpen'
  BY <1>1, <1>12 DEF MonitorInv, OneOpen, Open
<1>14. OpenIsKnown'
  <2>1. ASSUME NEW k \in Launches, record[k] # "absent", receipt[k] = "none"
        PROVE  k = known'[worker[k]]
    <3>1. Open(k) /\ worker[k] \in Workers /\ k # NoLaunch
      BY <2>1, OnRecord, MonitorAssumption DEF Open, MonitorInv
    <3>2. k \in {mine, known[worker[k]]}
      BY <1>1, <3>1 DEF MonitorInv, OpenIsKnown
    <3>3. k = mine \/ worker[k] # w
      BY <1>4, <2>1, <3>1, <3>2
    <3>. QED  BY <1>9, <3>1, <3>2, <3>3
  <2>. QED  BY <1>1, <1>12, <2>1 DEF OpenIsKnown, Open
<1>15. AttemptsExplained'
  <2>1. ASSUME NEW v \in Workers, snapshot[v] = "none", attempt[v] # "none"
        PROVE  known'[v] # NoLaunch /\ worker[known'[v]] = v /\ supervisor[known'[v]] \in {"live", "nonzero"}
    <3>1. PICK k \in {mine, known[v]} \ {NoLaunch} : worker[k] = v /\ supervisor[k] \in {"live", "nonzero"}
      BY <1>1, <2>1 DEF MonitorInv, AttemptsExplained, Busy
    <3>2. CASE k = mine
      BY <1>9, <3>1, <3>2
    <3>3. CASE k # mine
      <4>1. k = known[v] /\ v # w
        BY <1>4, <3>1, <3>3
      <4>. QED  BY <1>9, <3>1, <4>1
    <3>. QED  BY <3>2, <3>3
  <2>. QED  BY <1>1, <2>1 DEF AttemptsExplained
<1>. QED  BY <1>5, <1>6, <1>7, <1>8, <1>10, <1>11, <1>13, <1>14, <1>15 DEF MonitorInv

-----------------------------------------------------------------------------
(* Guards and supervisors.                                                 *)

(* A guard step moves one guard on; the rest of the invariant needs only   *)
(* that it is neither unborn before nor unborn after.                      *)
LEMMA TickSeesGuards ==
    ASSUME MonitorInv, NEW l \in Launches, guard[l] # "none",
           UNCHANGED << worker, entry, tick, queue >>,
           \A k \in Launches : k # l => /\ guard'[k] = guard[k] /\ supervisor'[k] = supervisor[k]
                                        /\ receipt'[k] = receipt[k] /\ record'[k] = record[k],
           record'[l] # "absent",
           receipt[l] = "none" \/ receipt'[l] = receipt[l]
    PROVE  TickShape' /\ NamesFit' /\ VerdictsHold' /\ OpenIsKnown' /\ OneOpen'
<1>1. record[l] # "absent"
  BY OnRecord DEF MonitorInv
<1>2. \A k \in Launches : record'[k] # "absent" /\ receipt'[k] = "none" => Open(k)
  BY <1>1 DEF Open
<1>3. UNCHANGED << phase, known, snapshot, remaining, verdict, todo, mine, launched, latest, attempt, pending >>
  BY DEF tick, queue
<1>4. TickShape'
  <2>1. phase = "intended" => mine \in Launches /\ mine # l
    BY BusyWithMine DEF MonitorInv, TickShape, Busy
  <2>. QED  BY <1>3, <2>1 DEF MonitorInv, TickShape
<1>5. NamesFit'
  BY <1>3 DEF MonitorInv, NamesFit
<1>6. VerdictsHold'
  <2>1. \A k \in Launches : receipt[k] = "ok" => receipt'[k] = "ok"
    OBVIOUS
  <2>2. \A v \in todo : v \in Workers /\ (known[v] # NoLaunch => known[v] \in Launches)
    BY DEF MonitorInv, MonitorTypeOK
  <2>. QED  BY <1>3, <2>1, <2>2 DEF MonitorInv, VerdictsHold
<1>7. OpenIsKnown' /\ OneOpen'
  BY <1>2, <1>3 DEF MonitorInv, OpenIsKnown, OneOpen, Open
<1>. QED  BY <1>4, <1>5, <1>6, <1>7

(* What explains an attempt goes on explaining it while no supervisor of   *)
(* its worker ends well.                                                   *)
LEMMA StillExplained ==
    ASSUME MonitorInv, UNCHANGED << worker, tick >>,
           \A w \in Workers : attempt'[w] # "none" =>
               /\ attempt[w] # "none"
               /\ \A l \in Of(w) : supervisor[l] \in {"live", "nonzero"} => supervisor'[l] \in {"live", "nonzero"}
    PROVE  AttemptsExplained'
<1>1. UNCHANGED << phase, known, snapshot, mine >>
  BY DEF tick
<1>2. ASSUME phase \in Busy \cup {"queried", "choosing"},
             NEW w \in Workers, snapshot[w] = "none", attempt'[w] # "none"
      PROVE  \E l \in {mine, known[w]} \ {NoLaunch} : worker[l] = w /\ supervisor'[l] \in {"live", "nonzero"}
  <2>1. PICK l \in {mine, known[w]} \ {NoLaunch} : worker[l] = w /\ supervisor[l] \in {"live", "nonzero"}
    BY <1>2 DEF MonitorInv, AttemptsExplained
  <2>2. l \in Of(w)
    BY <2>1 DEF MonitorInv, MonitorTypeOK, Of
  <2>. QED  BY <1>2, <2>1, <2>2
<1>. QED  BY <1>1, <1>2 DEF AttemptsExplained

LEMMA CallsStep ==
    ASSUME MonitorInv, NEW l \in Launches, GuardCalls(l)
    PROVE  MonitorInv'
<1>1. /\ guard[l] = "started" /\ guard' = [guard EXCEPT ![l] = "waiting"]
      /\ supervisor' = [supervisor EXCEPT ![l] = "live"]
      /\ UNCHANGED << worker, record, finished, receipt, entry, attempt, tick, queue >>
  BY DEF GuardCalls, durable, queue
<1>2. record[l] # "absent"
  BY <1>1, OnRecord DEF MonitorInv
<1>3. MonitorTypeOK'
  BY <1>1 DEF MonitorInv, MonitorTypeOK, GuardStates, tick, queue
<1>4. LaunchShape'
  BY <1>1, <1>2 DEF MonitorInv, MonitorTypeOK, LaunchShape
<1>5. \A k \in Launches : k # l => guard'[k] = guard[k] /\ supervisor'[k] = supervisor[k]
  BY <1>1 DEF MonitorInv, MonitorTypeOK
<1>6. RanksBounded'
  BY <1>1, <1>3, <1>5, EndedGrows DEF MonitorInv
<1>7. TickShape' /\ NamesFit' /\ VerdictsHold' /\ OpenIsKnown' /\ OneOpen'
  BY <1>1, <1>2, <1>5, TickSeesGuards
<1>8. AttemptsExplained'
  <2>1. \A k \in Launches : supervisor[k] \in {"live", "nonzero"} => supervisor'[k] \in {"live", "nonzero"}
    BY <1>1 DEF MonitorInv, MonitorTypeOK
  <2>. QED  BY <1>1, <2>1, StillExplained DEF Of
<1>. QED  BY <1>3, <1>4, <1>6, <1>7, <1>8 DEF MonitorInv

(* The guard alone moves: the call raises, the guard reaps, exits, dies.   *)
LEMMA GuardMoves ==
    ASSUME MonitorInv, NEW l \in Launches, guard[l] # "none", NEW to \in {"reaped", "gone"},
           to = "reaped" => guard[l] \in {"started", "waiting"} /\ supervisor[l] # "live",
           guard' = [guard EXCEPT ![l] = to],
           UNCHANGED << durable, supervisor, tick, queue >>
    PROVE  MonitorInv'
<1>1. UNCHANGED << worker, record, finished, receipt, entry, attempt >>
  BY DEF durable, queue
<1>2. record[l] # "absent"
  BY OnRecord DEF MonitorInv
<1>3. MonitorTypeOK'
  BY <1>1 DEF MonitorInv, MonitorTypeOK, GuardStates, tick, queue
<1>4. LaunchShape'
  BY <1>1, <1>2 DEF MonitorInv, MonitorTypeOK, LaunchShape
<1>5. \A k \in Launches : k # l => guard'[k] = guard[k]
  BY DEF MonitorInv, MonitorTypeOK
<1>6. \A k \in Launches : guard[k] \in {"closed", "gone"} => guard'[k] \in {"closed", "gone"}
  BY DEF MonitorInv, MonitorTypeOK
<1>7. RanksBounded'
  BY <1>1, <1>3, <1>6, EndedGrows DEF MonitorInv
<1>8. TickShape' /\ NamesFit' /\ VerdictsHold' /\ OpenIsKnown' /\ OneOpen'
  BY <1>1, <1>2, <1>5, TickSeesGuards
<1>9. AttemptsExplained'
  BY <1>1, StillExplained
<1>. QED  BY <1>3, <1>4, <1>7, <1>8, <1>9 DEF MonitorInv

LEMMA ReceiptStep ==
    ASSUME MonitorInv, NEW l \in Launches, GuardWritesReceipt(l)
    PROVE  MonitorInv'
<1>1. /\ guard[l] = "reaped" /\ guard' = [guard EXCEPT ![l] = "receipted"]
      /\ receipt' = [receipt EXCEPT ![l] = IF supervisor[l] = "zero" THEN "ok" ELSE "failed"]
      /\ UNCHANGED << worker, record, finished, entry, supervisor, attempt, tick, queue >>
  BY DEF GuardWritesReceipt, queue
<1>2. record[l] # "absent" /\ receipt[l] = "none" /\ supervisor[l] # "live"
  BY <1>1, OnRecord DEF MonitorInv, LaunchShape
<1>3. MonitorTypeOK'
  BY <1>1 DEF MonitorInv, MonitorTypeOK, GuardStates, tick, queue
<1>4. LaunchShape'
  BY <1>1, <1>2 DEF MonitorInv, MonitorTypeOK, LaunchShape
<1>5. \A k \in Launches : k # l => guard'[k] = guard[k] /\ receipt'[k] = receipt[k]
  BY <1>1 DEF MonitorInv, MonitorTypeOK
<1>6. RanksBounded'
  BY <1>1, <1>3, <1>5, EndedGrows DEF MonitorInv
<1>7. TickShape' /\ NamesFit' /\ VerdictsHold' /\ OpenIsKnown' /\ OneOpen'
  BY <1>1, <1>2, <1>5, TickSeesGuards
<1>8. AttemptsExplained'
  BY <1>1, StillExplained
<1>. QED  BY <1>3, <1>4, <1>6, <1>7, <1>8 DEF MonitorInv

LEMMA CloseStep ==
    ASSUME MonitorInv, NEW l \in Launches, GuardClosesRecord(l)
    PROVE  MonitorInv'
<1>. DEFINE E == {k \in Launches : guard'[k] \in {"closed", "gone"}}
<1>1. /\ guard[l] = "receipted" /\ guard' = [guard EXCEPT ![l] = "closed"]
      /\ record' = [record EXCEPT ![l] = "receipt_written"]
      /\ finished' = [finished EXCEPT ![l] = 1 + Max({finished[k] : k \in Launches})]
      /\ UNCHANGED << worker, receipt, entry, supervisor, attempt, tick, queue >>
  BY DEF GuardClosesRecord, queue
<1>2. record[l] # "absent" /\ receipt[l] # "none"
  BY <1>1, OnRecord DEF MonitorInv, LaunchShape
<1>3. E = Ended \cup {l} /\ l \notin Ended
  BY <1>1 DEF MonitorInv, MonitorTypeOK, Ended
<1>4. E \in SUBSET Launches
  OBVIOUS
<1>5. /\ Cardinality(E) = Cardinality(Ended) + 1
      /\ Cardinality(E) <= Cardinality(Launches)
      /\ Cardinality(Ended) \in Nat /\ Cardinality(E) \in Nat
  <2>1. Cardinality(E) = Cardinality(Ended) + 1
    BY <1>3, EndedIsBounded, FS_AddElement
  <2>2. Cardinality(E) <= Cardinality(Launches)
    BY <1>4, MonitorAssumption, FS_Subset
  <2>. QED  BY <2>1, <2>2, EndedIsBounded
<1>6. PICK k \in Launches : Max({finished[j] : j \in Launches}) = finished[k]
  BY NewRank DEF MonitorInv
<1>7. \A j \in Launches : finished[j] \in Nat /\ finished[j] <= Cardinality(Ended)
  BY SizeOfLaunches DEF MonitorInv, MonitorTypeOK, RanksBounded
<1>. HIDE DEF E
<1>8. \A j \in Launches : finished'[j] = finished[j] \/ finished'[j] = 1 + finished[k]
  BY <1>1, <1>6 DEF MonitorInv, MonitorTypeOK
<1>9. \A j \in Launches : finished'[j] \in Nat /\ finished'[j] <= Cardinality(E)
  <2>. TAKE j \in Launches
  <2>1. CASE finished'[j] = finished[j]
    BY <1>5, <1>7, <2>1
  <2>2. CASE finished'[j] = 1 + finished[k]
    BY <1>5, <1>7, <2>2
  <2>. QED  BY <1>8, <2>1, <2>2
<1>10. \A j \in Launches : finished'[j] \in 0 .. Cardinality(Launches)
  <2>. TAKE j \in Launches
  <2>1. finished'[j] \in Nat /\ finished'[j] <= Cardinality(E)
    BY <1>9
  <2>. QED  BY <1>5, <2>1, SizeOfLaunches
<1>11. MonitorTypeOK'
  <2>1. finished' \in [Launches -> 0 .. Cardinality(Launches)]
    BY <1>1, <1>10 DEF MonitorInv, MonitorTypeOK
  <2>. QED  BY <1>1, <2>1 DEF MonitorInv, MonitorTypeOK, GuardStates, RecordStates, tick, queue
<1>12. LaunchShape'
  BY <1>1, <1>2 DEF MonitorInv, MonitorTypeOK, LaunchShape
<1>13. RanksBounded'
  BY <1>9 DEF RanksBounded, Ended, E
<1>14. \A j \in Launches : j # l => guard'[j] = guard[j] /\ record'[j] = record[j]
  BY <1>1 DEF MonitorInv, MonitorTypeOK
<1>15. record'[l] # "absent"
  BY <1>1 DEF MonitorInv, MonitorTypeOK
<1>16. TickShape' /\ NamesFit' /\ VerdictsHold' /\ OpenIsKnown' /\ OneOpen'
  BY <1>1, <1>14, <1>15, TickSeesGuards
<1>17. AttemptsExplained'
  BY <1>1, StillExplained
<1>. QED  BY <1>11, <1>12, <1>13, <1>16, <1>17 DEF MonitorInv

(* A supervisor ends.                                                      *)
LEMMA SupervisorEnds ==
    ASSUME MonitorInv, NEW l \in Launches, SupervisorReturns(l) \/ SupervisorFails(l)
    PROVE  MonitorInv'
<1>1. PICK how \in {"zero", "nonzero"} :
        /\ supervisor[l] = "live" /\ supervisor' = [supervisor EXCEPT ![l] = how]
        /\ how = "zero" => attempt[worker[l]] = "none"
        /\ UNCHANGED << worker, record, finished, receipt, entry, guard, attempt, tick, queue >>
  BY DEF SupervisorReturns, SupervisorFails, durable, queue
<1>2. record[l] # "absent" /\ guard[l] # "none"
  BY <1>1, OnRecord DEF MonitorInv, LaunchShape
<1>3. MonitorTypeOK'
  BY <1>1 DEF MonitorInv, MonitorTypeOK, tick, queue
<1>4. LaunchShape'
  BY <1>1 DEF MonitorInv, MonitorTypeOK, LaunchShape
<1>5. \A k \in Launches : k # l => supervisor'[k] = supervisor[k]
  BY <1>1 DEF MonitorInv, MonitorTypeOK
<1>6. RanksBounded'
  BY <1>1 DEF MonitorInv, RanksBounded, Ended
<1>7. TickShape' /\ NamesFit' /\ VerdictsHold' /\ OpenIsKnown' /\ OneOpen'
  BY <1>1, <1>2, <1>5, TickSeesGuards
<1>8. AttemptsExplained'
  <2>1. ASSUME NEW w \in Workers, attempt[w] # "none", NEW k \in Of(w), supervisor[k] \in {"live", "nonzero"}
        PROVE  supervisor'[k] \in {"live", "nonzero"}
    <3>1. k \in Launches /\ worker[k] = w
      BY <2>1 DEF Of
    <3>2. CASE k = l
      <4>1. how = "nonzero"
        BY <1>1, <2>1, <3>1, <3>2
      <4>. QED  BY <1>1, <3>2, <4>1 DEF MonitorInv, MonitorTypeOK
    <3>. QED  BY <1>5, <2>1, <3>1, <3>2
  <2>. QED  BY <1>1, <2>1, StillExplained
<1>. QED  BY <1>3, <1>4, <1>6, <1>7, <1>8 DEF MonitorInv

-----------------------------------------------------------------------------
(* The queue, the reboot, and every step.                                  *)
QueueMoves == UNCHANGED << durable, processes, tick >>

LEMMA PendingIsBoolean ==
    ASSUME MonitorInv, NEW w, NEW p \in PendingWithout(w)
    PROVE  p \in BOOLEAN
BY DEF PendingWithout, MonitorInv, MonitorTypeOK

LEMMA QueueKept ==
    ASSUME MonitorInv, QueueMoves, attempt' \in [Workers -> AttemptStates], pending' \in BOOLEAN
    PROVE  /\ MonitorTypeOK' /\ LaunchShape' /\ RanksBounded' /\ TickShape' /\ NamesFit'
           /\ VerdictsHold' /\ OpenIsKnown' /\ OneOpen'
<1>1. UNCHANGED << worker, record, finished, receipt, entry, guard, supervisor >>
  BY DEF QueueMoves, durable, processes
<1>2. UNCHANGED << phase, known, snapshot, remaining, verdict, todo, mine, launched, latest >>
  BY DEF QueueMoves, tick
<1>3. MonitorTypeOK'
  BY <1>1, <1>2 DEF MonitorInv, MonitorTypeOK
<1>4. LaunchShape' /\ RanksBounded' /\ OneOpen'
  BY <1>1, BookKept DEF LaunchesKept, processes
<1>5. TickShape' /\ NamesFit' /\ VerdictsHold' /\ OpenIsKnown'
  BY <1>1, <1>2 DEF MonitorInv, TickShape, NamesFit, VerdictsHold, OpenIsKnown, Open
<1>. QED  BY <1>3, <1>4, <1>5

LEMMA ClaimStep ==
    ASSUME MonitorInv, NEW l \in Launches, SupervisorClaims(l)
    PROVE  MonitorInv'
<1>. DEFINE w == worker[l]
<1>1. /\ supervisor[l] = "live" /\ attempt[w] = "none"
      /\ attempt' = [attempt EXCEPT ![w] = "active"] /\ QueueMoves /\ pending' = pending
  BY DEF SupervisorClaims, QueueMoves
<1>2. Open(l) /\ l # NoLaunch
  BY <1>1, LiveIsOpen, MonitorAssumption DEF MonitorInv
<1>3. attempt' \in [Workers -> AttemptStates] /\ pending' \in BOOLEAN
  BY <1>1 DEF MonitorInv, MonitorTypeOK, AttemptStates
<1>4. UNCHANGED << worker, supervisor, phase, known, snapshot, mine >>
  BY <1>1 DEF QueueMoves, durable, processes, tick
<1>5. ASSUME phase \in Busy \cup {"queried", "choosing"},
             NEW v \in Workers, snapshot[v] = "none", attempt'[v] # "none"
      PROVE  \E k \in {mine, known[v]} \ {NoLaunch} : worker[k] = v /\ supervisor[k] \in {"live", "nonzero"}
  <2>1. CASE v = w
    <3>1. l \in {mine, known[w]}
      BY <1>2, <1>5 DEF MonitorInv, OpenIsKnown, Busy
    <3>. QED  BY <1>1, <1>2, <2>1, <3>1
  <2>2. CASE v # w
    <3>1. attempt[v] # "none"
      BY <1>1, <1>5, <2>2 DEF MonitorInv, MonitorTypeOK
    <3>. QED  BY <1>5, <3>1 DEF MonitorInv, AttemptsExplained
  <2>. QED  BY <2>1, <2>2
<1>6. AttemptsExplained'
  BY <1>4, <1>5 DEF AttemptsExplained
<1>. QED  BY <1>1, <1>3, <1>6, QueueKept DEF MonitorInv

(* The attempt of a worker is settled, orphaned or reconciled.             *)
LEMMA AttemptMoves ==
    ASSUME MonitorInv, QueueMoves, NEW w, NEW to \in AttemptStates, attempt[w] # "none",
           attempt' = [attempt EXCEPT ![w] = to], pending' \in BOOLEAN
    PROVE  MonitorInv'
<1>1. attempt' \in [Workers -> AttemptStates]
  BY DEF MonitorInv, MonitorTypeOK
<1>2. \A v \in Workers : attempt'[v] # "none" => attempt[v] # "none"
  BY DEF MonitorInv, MonitorTypeOK
<1>3. UNCHANGED << worker, supervisor, tick >>
  BY DEF QueueMoves, durable, processes
<1>4. AttemptsExplained'
  BY <1>2, <1>3, StillExplained
<1>. QED  BY <1>1, <1>4, QueueKept DEF MonitorInv

LEMMA RebootStep ==
    ASSUME MonitorInv, MachineReboots
    PROVE  MonitorInv'
<1>1. /\ guard' = [l \in Launches |-> IF guard[l] = "none" THEN "none" ELSE "gone"]
      /\ supervisor' = [l \in Launches |-> IF supervisor[l] = "live" THEN "nonzero" ELSE supervisor[l]]
      /\ Forget
      /\ UNCHANGED << worker, record, finished, receipt, entry, attempt, pending >>
  BY DEF MachineReboots, durable, queue
<1>2. MonitorTypeOK'
  <2>1. /\ known' \in [Workers -> Launches \cup {NoLaunch}]
        /\ snapshot' \in [Workers -> AttemptStates]
        /\ verdict' \in [Workers -> {"none", "running", "exited_with_receipt_unverified"}]
        /\ todo' = {} /\ mine' = NoLaunch /\ latest' = FALSE /\ phase' = "idle" /\ remaining' = FALSE
    BY <1>1 DEF Forget, AttemptStates
  <2>2. launched' \in 0 .. MaxPerTick
    BY <1>1, MonitorAssumption DEF Forget
  <2>3. guard' \in [Launches -> GuardStates] /\ supervisor' \in [Launches -> {"none", "live", "zero", "nonzero"}]
    BY <1>1 DEF MonitorInv, MonitorTypeOK, GuardStates
  <2>. QED  BY <1>1, <2>1, <2>2, <2>3 DEF MonitorInv, MonitorTypeOK, Phases
<1>3. LaunchShape'
  BY <1>1 DEF MonitorInv, MonitorTypeOK, LaunchShape
<1>4. RanksBounded'
  <2>1. \A l \in Launches : guard[l] \in {"closed", "gone"} => guard'[l] \in {"closed", "gone"}
    BY <1>1
  <2>. QED  BY <1>1, <1>2, <2>1, EndedGrows DEF MonitorInv
<1>5. OneOpen'
  BY <1>1 DEF MonitorInv, OneOpen, Open
<1>. QED  BY <1>1, <1>2, <1>3, <1>4, <1>5, ForgottenTick DEF MonitorInv

LEMMA StartsRight == Init => MonitorInv
<1>. SUFFICES ASSUME Init PROVE MonitorInv
  OBVIOUS
<1>1. MonitorTypeOK
  <2>1. /\ worker \in [Launches -> Workers \cup {NoWorker}]
        /\ record \in [Launches -> RecordStates]
        /\ finished \in [Launches -> 0 .. Cardinality(Launches)]
        /\ receipt \in [Launches -> {"none", "ok", "failed"}]
        /\ guard \in [Launches -> GuardStates]
        /\ supervisor \in [Launches -> {"none", "live", "zero", "nonzero"}]
    BY SizeOfLaunches DEF Init, RecordStates, GuardStates
  <2>2. /\ entry \in [Workers -> Launches \cup {NoLaunch}]
        /\ known \in [Workers -> Launches \cup {NoLaunch}]
        /\ snapshot \in [Workers -> AttemptStates]
        /\ verdict \in [Workers -> {"none", "running", "exited_with_receipt_unverified"}]
    BY DEF Init, AttemptStates
  <2>3. launched \in 0 .. MaxPerTick
    BY MonitorAssumption DEF Init
  <2>. QED  BY <2>1, <2>2, <2>3 DEF Init, MonitorTypeOK, Phases
<1>2. LaunchShape
  BY DEF Init, LaunchShape
<1>3. RanksBounded
  BY EndedIsBounded DEF Init, RanksBounded
<1>4. TickShape /\ NamesFit /\ VerdictsHold /\ OpenIsKnown /\ OneOpen /\ AttemptsExplained
  BY DEF Init, TickShape, NamesFit, VerdictsHold, OpenIsKnown, OneOpen, Open, AttemptsExplained, Busy
<1>. QED  BY <1>1, <1>2, <1>3, <1>4 DEF MonitorInv

LEMMA TickSteps ==
    ASSUME MonitorInv, TickNext
    PROVE  MonitorInv'
<1>1. CASE TickBegins
  BY <1>1, BeginStep
<1>2. CASE TickMerges
  BY <1>2, MergeStep
<1>3. CASE TickQueries
  BY <1>3, QueryStep
<1>4. CASE TickPauses
  <2>1. Forget /\ LaunchesKept /\ UNCHANGED queue /\ (entry' = entry \/ entry' = known)
    BY <1>4 DEF TickPauses, LaunchesKept, durable
  <2>. QED  BY <2>1, ForgettingStep
<1>5. CASE TickClassifies
  BY <1>5, ClassifyStep
<1>6. CASE \E w \in Workers : TickSkips(w) \/ \E l \in Launches : RecordIntent(w, l)
  BY <1>6, SkipStep, IntentStep
<1>7. CASE SpawnGuard
  BY <1>7, SpawnStep
<1>8. CASE CheckIdentity
  <2>1. CASE GuardAlive(mine) /\ phase' = "checked" /\ UNCHANGED << known, snapshot, remaining, verdict, todo, mine, launched, latest >>
    <3>1. latest' \in BOOLEAN /\ phase \in Busy /\ UNCHANGED << durable, processes, queue >>
      BY <1>8, <2>1 DEF CheckIdentity, Busy, MonitorInv, MonitorTypeOK
    <3>. QED  BY <2>1, <3>1, LookStep
  <2>2. CASE Forget
    <3>1. LaunchesKept /\ UNCHANGED << entry, queue >>
      BY <1>8 DEF CheckIdentity, LaunchesKept, durable
    <3>. QED  BY <2>2, <3>1, ForgettingStep
  <2>. QED  BY <1>8, <2>1, <2>2 DEF CheckIdentity
<1>9. CASE RereadRecord
  <2>1. phase \in Busy /\ phase' = "reread" /\ latest' \in BOOLEAN
        /\ UNCHANGED << durable, processes, queue, known, snapshot, remaining, verdict, todo, mine, launched >>
    BY <1>9 DEF RereadRecord, Busy
  <2>. QED  BY <2>1, LookStep
<1>10. CASE PublishIdentity
  BY <1>10, PublishStep
<1>11. CASE TickSaves
  <2>1. Forget /\ LaunchesKept /\ UNCHANGED queue /\ entry' = known
    BY <1>11 DEF TickSaves, LaunchesKept
  <2>. QED  BY <2>1, ForgettingStep
<1>. QED  BY <1>1, <1>2, <1>3, <1>4, <1>5, <1>6, <1>7, <1>8, <1>9, <1>10, <1>11 DEF TickNext

LEMMA LaunchSteps ==
    ASSUME MonitorInv, NEW l \in Launches,
           GuardNext(l) \/ SupervisorNext(l) \/ GuardCallRaises(l) \/ GuardKilled(l)
    PROVE  MonitorInv'
<1>1. CASE GuardCalls(l)
  BY <1>1, CallsStep
<1>2. CASE GuardReaps(l)
  <2>1. guard[l] = "waiting" /\ supervisor[l] # "live" /\ guard' = [guard EXCEPT ![l] = "reaped"]
        /\ UNCHANGED << durable, supervisor, tick, queue >>
    BY <1>2 DEF GuardReaps
  <2>. QED  BY <2>1, GuardMoves
<1>3. CASE GuardWritesReceipt(l)
  BY <1>3, ReceiptStep
<1>4. CASE GuardClosesRecord(l)
  BY <1>4, CloseStep
<1>5. CASE GuardExits(l) \/ GuardKilled(l)
  <2>1. guard[l] # "none" /\ guard' = [guard EXCEPT ![l] = "gone"]
        /\ UNCHANGED << durable, supervisor, tick, queue >>
    BY <1>5 DEF GuardExits, GuardKilled, GuardAlive
  <2>. QED  BY <2>1, GuardMoves
<1>6. CASE GuardCallRaises(l)
  <2>1. guard[l] = "started" /\ guard' = [guard EXCEPT ![l] = "reaped"]
        /\ UNCHANGED << durable, supervisor, tick, queue >>
    BY <1>6 DEF GuardCallRaises
  <2>2. supervisor[l] # "live"
    BY <2>1 DEF MonitorInv, LaunchShape
  <2>. QED  BY <2>1, <2>2, GuardMoves
<1>7. CASE SupervisorClaims(l)
  BY <1>7, ClaimStep
<1>8. CASE SupervisorSettles(l)
  <2>1. /\ attempt[worker[l]] # "none" /\ attempt' = [attempt EXCEPT ![worker[l]] = "none"]
        /\ pending' \in PendingWithout(worker[l]) /\ QueueMoves
    BY <1>8 DEF SupervisorSettles, QueueMoves
  <2>2. pending' \in BOOLEAN /\ "none" \in AttemptStates
    BY <2>1, PendingIsBoolean DEF AttemptStates
  <2>. QED  BY <2>1, <2>2, AttemptMoves
<1>9. CASE SupervisorReturns(l) \/ SupervisorFails(l)
  BY <1>9, SupervisorEnds
<1>. QED  BY <1>1, <1>2, <1>3, <1>4, <1>5, <1>6, <1>7, <1>8, <1>9 DEF GuardNext, SupervisorNext

LEMMA ReconcileStep ==
    ASSUME MonitorInv, NEW w \in Workers, AttemptReconciled(w)
    PROVE  MonitorInv'
<1>1. attempt[w] # "none" /\ QueueMoves
  BY DEF AttemptReconciled, QueueMoves
<1>2. CASE attempt' = [attempt EXCEPT ![w] = "orphaned"] /\ UNCHANGED pending
  <2>1. pending' \in BOOLEAN /\ "orphaned" \in AttemptStates
    BY <1>2 DEF AttemptStates, MonitorInv, MonitorTypeOK
  <2>. QED  BY <1>1, <1>2, <2>1, AttemptMoves
<1>3. CASE attempt' = [attempt EXCEPT ![w] = "none"] /\ pending' \in PendingWithout(w)
  <2>1. pending' \in BOOLEAN /\ "none" \in AttemptStates
    BY <1>3, PendingIsBoolean DEF AttemptStates
  <2>. QED  BY <1>1, <1>3, <2>1, AttemptMoves
<1>. QED  BY <1>2, <1>3 DEF AttemptReconciled

LEMMA MonitorSteps ==
    ASSUME MonitorInv, [Next]_monitorVars
    PROVE  MonitorInv'
<1>1. CASE TickNext
  BY <1>1, TickSteps
<1>2. CASE \E l \in Launches :
             GuardNext(l) \/ SupervisorNext(l) \/ GuardCallRaises(l) \/ GuardKilled(l)
  BY <1>2, LaunchSteps
<1>3. CASE \E w \in Workers : AttemptReconciled(w)
  BY <1>3, ReconcileStep
<1>4. CASE MonitorDies
  <2>1. Forget /\ LaunchesKept /\ UNCHANGED << entry, queue >>
    BY <1>4 DEF MonitorDies, LaunchesKept, durable
  <2>. QED  BY <2>1, ForgettingStep
<1>5. CASE MachineReboots
  BY <1>5, RebootStep
<1>6. CASE UNCHANGED monitorVars
  <2>1. QueueMoves /\ UNCHANGED << attempt, pending >>
    BY <1>6 DEF monitorVars, QueueMoves, queue
  <2>2. attempt' \in [Workers -> AttemptStates] /\ pending' \in BOOLEAN
    BY <2>1 DEF MonitorInv, MonitorTypeOK
  <2>3. UNCHANGED << worker, supervisor, tick >>
    BY <2>1 DEF QueueMoves, durable, processes
  <2>4. AttemptsExplained'
    BY <2>1, <2>3, StillExplained
  <2>. QED  BY <2>1, <2>2, <2>4, QueueKept DEF MonitorInv
<1>. QED  BY <1>1, <1>2, <1>3, <1>4, <1>5, <1>6 DEF Next

-----------------------------------------------------------------------------
(* The inductive invariant holds in every behaviour.                       *)
LEMMA MonitorInvHolds == Spec => []MonitorInv
BY StartsRight, MonitorSteps, PTL DEF Spec

(* The records, the processes, the copies a tick keeps of both and its     *)
(* counters stay well formed; a rank never exceeds the number of launches. *)
THEOREM MonitorIsTyped == Spec => []MonitorTypeOK
<1>1. MonitorInv => MonitorTypeOK
  BY DEF MonitorInv
<1>. QED  BY <1>1, MonitorInvHolds, PTL

(* A worker never has two supervisors (the "duplicate/overlapping work" of *)
(* the documentation), whatever guards are killed, wherever the monitor    *)
(* dies between Popen and the record, and with both writing the record.    *)
THEOREM SupervisorsDoNotOverlap == Spec => []OneSupervisorPerWorker
<1>1. MonitorInv => OneSupervisorPerWorker
  BY LiveIsOpen DEF MonitorInv, OneOpen, OneSupervisorPerWorker
<1>. QED  BY <1>1, MonitorInvHolds, PTL

(* Past its merge, a tick knows of every supervisor that is alive: no      *)
(* launch of an earlier tick escapes the classification.                   *)
THEOREM TicksKnowWhatRuns == Spec => []NothingRunsUnknown
<1>1. MonitorInv => NothingRunsUnknown
  BY LiveIsOpen DEF MonitorInv, OpenIsKnown, NothingRunsUnknown
<1>. QED  BY <1>1, MonitorInvHolds, PTL

(* Only the recording of an intent gives a launch to a worker.             *)
LEMMA OnlyIntentsAssign ==
    ASSUME MonitorInv, Next, worker' # worker
    PROVE  \E w \in Workers, l \in Launches : RecordIntent(w, l)
<1>1. \A w \in Workers : TickSkips(w) => worker' = worker
  BY DEF TickSkips, durable
<1>2. TickBegins \/ TickMerges \/ TickQueries \/ TickPauses \/ TickClassifies \/ SpawnGuard
        \/ CheckIdentity \/ RereadRecord \/ PublishIdentity \/ TickSaves => worker' = worker
  BY DEF TickBegins, TickMerges, TickQueries, TickPauses, TickClassifies, SpawnGuard,
         CheckIdentity, RereadRecord, PublishIdentity, TickSaves, durable
<1>3. \A l \in Launches :
        GuardNext(l) \/ SupervisorNext(l) \/ GuardCallRaises(l) \/ GuardKilled(l) => worker' = worker
  BY DEF GuardNext, SupervisorNext, GuardCalls, GuardReaps, GuardWritesReceipt, GuardClosesRecord,
         GuardExits, SupervisorClaims, SupervisorSettles, SupervisorReturns, SupervisorFails,
         GuardCallRaises, GuardKilled, durable
<1>4. (\E w \in Workers : AttemptReconciled(w)) \/ MonitorDies \/ MachineReboots => worker' = worker
  BY DEF AttemptReconciled, MonitorDies, MachineReboots, durable
<1>. QED  BY <1>1, <1>2, <1>3, <1>4 DEF Next, TickNext

(* A launch is only ever drawn for a worker that is free at that moment:   *)
(* no attempt of it in the queue, no supervisor left, no receipt missing.  *)
THEOREM LaunchesAreForFreeWorkers == Spec => LaunchesOnFreeWorkers
<1>1. ASSUME MonitorInv, [Next]_monitorVars
      PROVE  \A l \in Launches :
                worker[l] = NoWorker /\ worker'[l] # NoWorker =>
                    /\ attempt[worker'[l]] = "none"
                    /\ \A k \in Of(worker'[l]) : supervisor[k] # "live" /\ receipt[k] # "none"
  <2>. SUFFICES ASSUME NEW l \in Launches, worker[l] = NoWorker, worker'[l] # NoWorker
                PROVE  /\ attempt[worker'[l]] = "none"
                       /\ \A k \in Of(worker'[l]) : supervisor[k] # "live" /\ receipt[k] # "none"
    OBVIOUS
  <2>1. worker' # worker
    OBVIOUS
  <2>2. Next
    BY <1>1, <2>1 DEF monitorVars, durable
  <2>3. PICK w \in Workers, j \in Launches : RecordIntent(w, j)
    BY <1>1, <2>1, <2>2, OnlyIntentsAssign
  <2>4. phase = "choosing" /\ w \in todo /\ Launchable(w) /\ worker' = [worker EXCEPT ![j] = w]
    BY <2>3 DEF RecordIntent
  <2>5. worker'[l] = w
    BY <1>1, <2>4 DEF MonitorInv, MonitorTypeOK
  <2>. QED  BY <1>1, <2>4, <2>5, LaunchableIsFree
<1>. QED  BY <1>1, MonitorInvHolds, PTL DEF Spec, LaunchesOnFreeWorkers

(* What closes a launch for the ticks survives a step.                     *)
LEMMA ClosedKept ==
    ASSUME MonitorInv, Next, NEW l \in Launches, Closed(l)
    PROVE  record'[l] = "receipt_written" \/ (record'[l] = "spawned" /\ receipt'[l] # "none")
<1>1. CASE UNCHANGED << record, receipt >>
  BY <1>1 DEF Closed
<1>2. CASE \E w \in Workers, j \in Launches : RecordIntent(w, j)
  <2>1. PICK w \in Workers, j \in Launches : RecordIntent(w, j)
    BY <1>2
  <2>2. j = Min({k \in Launches : worker[k] = NoWorker}) /\ NoWorker \in Range(worker)
        /\ record' = [record EXCEPT ![j] = "spawn_intent"] /\ receipt' = receipt
    BY <2>1 DEF RecordIntent
  <2>3. record[j] = "absent"
    BY <2>2, FreshLaunch DEF MonitorInv, LaunchShape
  <2>. QED  BY <2>2, <2>3 DEF Closed, MonitorInv, MonitorTypeOK
<1>3. CASE PublishIdentity
  <2>1. record' \in {record, [record EXCEPT ![mine] = "spawned"]} /\ receipt' = receipt
    BY <1>3 DEF PublishIdentity
  <2>. QED  BY <2>1 DEF Closed, MonitorInv, MonitorTypeOK, LaunchShape
<1>4. CASE \E j \in Launches : GuardWritesReceipt(j) \/ GuardClosesRecord(j)
  <2>1. PICK j \in Launches : GuardWritesReceipt(j) \/ GuardClosesRecord(j)
    BY <1>4
  <2>2. CASE GuardWritesReceipt(j)
    BY <2>2 DEF GuardWritesReceipt, Closed, MonitorInv, MonitorTypeOK
  <2>3. CASE GuardClosesRecord(j)
    BY <2>3 DEF GuardClosesRecord, Closed, MonitorInv, MonitorTypeOK
  <2>. QED  BY <2>1, <2>2, <2>3
<1>5. \A w \in Workers : TickSkips(w) => UNCHANGED << record, receipt >>
  BY DEF TickSkips, durable
<1>6. TickBegins \/ TickMerges \/ TickQueries \/ TickPauses \/ TickClassifies \/ SpawnGuard
        \/ CheckIdentity \/ RereadRecord \/ TickSaves => UNCHANGED << record, receipt >>
  BY DEF TickBegins, TickMerges, TickQueries, TickPauses, TickClassifies, SpawnGuard,
         CheckIdentity, RereadRecord, TickSaves, durable
<1>7. \A j \in Launches :
        GuardCalls(j) \/ GuardReaps(j) \/ GuardExits(j) \/ SupervisorNext(j) \/ GuardCallRaises(j)
          \/ GuardKilled(j) => UNCHANGED << record, receipt >>
  BY DEF SupervisorNext, GuardCalls, GuardReaps, GuardExits, SupervisorClaims, SupervisorSettles,
         SupervisorReturns, SupervisorFails, GuardCallRaises, GuardKilled, durable
<1>8. (\E w \in Workers : AttemptReconciled(w)) \/ MonitorDies \/ MachineReboots
        => UNCHANGED << record, receipt >>
  BY DEF AttemptReconciled, MonitorDies, MachineReboots, durable
<1>. QED  BY <1>1, <1>2, <1>3, <1>4, <1>5, <1>6, <1>7, <1>8 DEF Next, TickNext, GuardNext

(* A launch that the ticks count as finished is never unfinished again:    *)
(* the monitor's late "spawned" over the guard's closed record is harmless *)
(* because the receipt is older than the close.                            *)
THEOREM ClosedRecordsStayClosed == Spec => ClosedStaysClosed
<1>1. ASSUME MonitorInv, [Next]_monitorVars
      PROVE  \A l \in Launches : Closed(l) => Closed(l)'
  <2>1. CASE Next
    BY <1>1, <2>1, ClosedKept DEF Closed
  <2>2. CASE UNCHANGED monitorVars
    BY <2>2 DEF Closed, monitorVars, durable
  <2>. QED  BY <1>1, <2>1, <2>2
<1>. QED  BY <1>1, MonitorInvHolds, PTL DEF Spec, ClosedStaysClosed

-----------------------------------------------------------------------------
(* When a failed launch is not followed by another.                        *)

(* After the merge a worker of which nothing is known has never had a      *)
(* launch, but for the one the tick is busy with.                          *)
UnknownIsNew ==
    phase \notin {"idle", "loaded"} =>
        \A w \in Workers : known[w] = NoLaunch => Of(w) \subseteq {mine}

(* A supervisor that returns 0 only when every case is accepted...         *)
ZeroIsDone == \A l \in Launches : supervisor[l] = "zero" => ~pending

(* ...is followed by another launch on its worker only in a tick that had  *)
(* counted the cases before it returned...                                 *)
SecondIsDone ==
    \A j, k \in Launches : j # k /\ worker[j] = worker[k] /\ worker[j] # NoWorker => ~pending

(* ...and that is this one launch: a tick whose snapshot counts cases that *)
(* are not accepted has made every second launch that it meets itself.     *)
SeenBeforeSecond ==
    /\ remaining => phase \notin {"idle", "loaded", "merged"}
    /\ phase \in Busy \cup {"choosing"} => remaining
    /\ remaining =>
          \A j, k \in Launches : j # k /\ worker[j] = worker[k] /\ worker[j] # NoWorker =>
              /\ phase # "queried"
              /\ worker[j] \in todo => mine \in {j, k}

RetryInv ==
    /\ UnknownIsNew
    /\ ~StopsEarly => ZeroIsDone /\ SecondIsDone /\ SeenBeforeSecond

LEMMA UnknownStep ==
    ASSUME MonitorInv, UnknownIsNew, [Next]_monitorVars
    PROVE  UnknownIsNew'
<1>1. CASE phase' \in {"idle", "loaded"}
  BY <1>1 DEF UnknownIsNew
<1>2. CASE UNCHANGED << worker, phase, known, mine >>
  BY <1>2 DEF UnknownIsNew, Of
<1>3. ASSUME UNCHANGED << worker, known, mine >>, phase \notin {"idle", "loaded"}
      PROVE  UnknownIsNew'
  BY <1>3 DEF UnknownIsNew, Of
<1>4. CASE TickMerges
  <2>1. /\ UNCHANGED << worker, mine >>
        /\ \A w \in Workers : Merged(w, known'[w]) /\ known'[w] \in Launches \cup {NoLaunch}
    BY <1>4 DEF TickMerges, durable
  <2>2. ASSUME NEW w \in Workers, known'[w] = NoLaunch, NEW k \in Of(w)
        PROVE  FALSE
    <3>1. k \in Launches /\ worker[k] = w /\ record[k] # "absent"
      BY <2>2, MonitorAssumption DEF Of, MonitorInv, LaunchShape
    <3>2. Active(k) \/ Closed(k)
      BY <3>1 DEF Active
    <3>3. NoLaunch \notin Of(w)
      BY MonitorAssumption DEF Of
    <3>4. (\A j \in Of(w) : ~Active(j)) /\ known[w] = NoLaunch
      BY <2>1, <2>2, <3>3 DEF Merged, NewestClosed
    <3>5. NewestClosed(w, NoLaunch)
      BY <2>1, <2>2, <3>2, <3>3, <3>4 DEF Merged
    <3>. QED  BY <3>3, <3>5 DEF NewestClosed
  <2>. QED  BY <2>1, <2>2 DEF UnknownIsNew, Of
<1>5. ASSUME NEW w \in Workers, NEW l \in Launches, RecordIntent(w, l)
      PROVE  UnknownIsNew'
  <2>1. /\ phase = "choosing" /\ mine' = l /\ known' = known
        /\ worker' = [worker EXCEPT ![l] = w]
    BY <1>5 DEF RecordIntent
  <2>2. mine = NoLaunch
    BY <2>1 DEF MonitorInv, TickShape, Busy
  <2>3. ASSUME NEW v \in Workers, known[v] = NoLaunch, NEW k \in Launches, worker'[k] = v
        PROVE  k = l
    <3>1. k # l => worker[k] = v
      BY <2>1, <2>3 DEF MonitorInv, MonitorTypeOK
    <3>2. k # NoLaunch
      BY MonitorAssumption
    <3>. QED  BY <2>1, <2>2, <2>3, <3>1, <3>2 DEF UnknownIsNew, Of
  <2>. QED  BY <2>1, <2>3 DEF UnknownIsNew, Of
<1>6. CASE PublishIdentity
  <2>1. phase = "reread" /\ UNCHANGED worker /\ known' = [known EXCEPT ![worker[mine]] = mine]
    BY <1>6 DEF PublishIdentity
  <2>2. mine \in Launches /\ worker[mine] \in Workers /\ mine # NoLaunch
    BY <2>1, BusyWithMine DEF Busy
  <2>3. ASSUME NEW v \in Workers, known'[v] = NoLaunch, NEW k \in Of(v)
        PROVE  FALSE
    <3>1. v # worker[mine] /\ known[v] = NoLaunch
      BY <2>1, <2>2, <2>3 DEF MonitorInv, MonitorTypeOK
    <3>2. k = mine
      BY <2>1, <2>3, <3>1 DEF UnknownIsNew
    <3>. QED  BY <2>3, <3>1, <3>2 DEF Of
  <2>. QED  BY <2>1, <2>3 DEF UnknownIsNew, Of
<1>7. CASE TickBegins \/ TickPauses \/ TickSaves \/ MonitorDies \/ MachineReboots
  <2>1. phase' \in {"idle", "loaded"}
    BY <1>7 DEF TickBegins, TickPauses, TickSaves, MonitorDies, MachineReboots, Forget
  <2>. QED  BY <1>1, <2>1
<1>8. CASE TickQueries \/ TickClassifies \/ SpawnGuard \/ RereadRecord
  <2>1. UNCHANGED << worker, known, mine >> /\ phase \notin {"idle", "loaded"}
    BY <1>8 DEF TickQueries, TickClassifies, SpawnGuard, RereadRecord, durable
  <2>. QED  BY <1>3, <2>1
<1>9. CASE CheckIdentity
  <2>1. \/ UNCHANGED << worker, known, mine >> /\ phase \notin {"idle", "loaded"}
        \/ phase' = "idle"
    BY <1>9 DEF CheckIdentity, Forget, durable
  <2>. QED  BY <1>1, <1>3, <2>1
<1>10. ASSUME NEW w \in Workers, TickSkips(w)
       PROVE  UnknownIsNew'
  BY <1>2, <1>10 DEF TickSkips, durable
<1>11. ASSUME NEW l \in Launches, GuardNext(l) \/ SupervisorNext(l) \/ GuardCallRaises(l) \/ GuardKilled(l)
       PROVE  UnknownIsNew'
  <2>1. UNCHANGED << worker, phase, known, mine >>
    BY <1>11 DEF GuardNext, SupervisorNext, GuardCalls, GuardReaps, GuardWritesReceipt, GuardClosesRecord,
           GuardExits, SupervisorClaims, SupervisorSettles, SupervisorReturns, SupervisorFails,
           GuardCallRaises, GuardKilled, durable, tick
  <2>. QED  BY <1>2, <2>1
<1>12. CASE UNCHANGED monitorVars \/ \E w \in Workers : AttemptReconciled(w)
  <2>1. UNCHANGED << worker, phase, known, mine >>
    BY <1>12 DEF AttemptReconciled, monitorVars, durable, tick
  <2>. QED  BY <1>2, <2>1
<1>. QED  BY <1>4, <1>5, <1>6, <1>7, <1>8, <1>9, <1>10, <1>11, <1>12 DEF Next, TickNext

(* Work that is done stays done, and only an empty queue ends in 0.        *)
LEMMA DoneStep ==
    ASSUME MonitorInv, ~StopsEarly, ZeroIsDone, [Next]_monitorVars
    PROVE  ZeroIsDone'
<1>1. CASE UNCHANGED supervisor /\ (pending' = pending \/ pending' = FALSE)
  BY <1>1 DEF ZeroIsDone
<1>2. \A w, p : p \in PendingWithout(w) => p = pending \/ p = FALSE
  BY DEF PendingWithout
<1>3. CASE TickNext \/ MonitorDies \/ UNCHANGED monitorVars
  <2>1. UNCHANGED << supervisor, pending >>
    BY <1>3 DEF TickNext, TickBegins, TickMerges, TickQueries, TickPauses, TickClassifies, TickSkips,
                RecordIntent, SpawnGuard, CheckIdentity, RereadRecord, PublishIdentity, TickSaves,
                MonitorDies, monitorVars, processes, queue
  <2>. QED  BY <1>1, <2>1
<1>4. CASE MachineReboots
  BY <1>4 DEF MachineReboots, ZeroIsDone, queue
<1>5. ASSUME NEW w \in Workers, AttemptReconciled(w)
      PROVE  ZeroIsDone'
  BY <1>1, <1>2, <1>5 DEF AttemptReconciled, processes
<1>6. ASSUME NEW l \in Launches, GuardNext(l) \/ SupervisorNext(l) \/ GuardCallRaises(l) \/ GuardKilled(l)
      PROVE  ZeroIsDone'
  <2>1. CASE UNCHANGED pending /\ \A k \in Launches : supervisor'[k] = "zero" => supervisor[k] = "zero" \/ ~pending
    BY <2>1 DEF ZeroIsDone
  <2>2. CASE SupervisorReturns(l)
    <3>1. ~pending /\ UNCHANGED pending
      BY <2>2 DEF SupervisorReturns, queue
    <3>. QED  BY <3>1 DEF ZeroIsDone
  <2>3. CASE GuardCalls(l) \/ SupervisorFails(l)
    <3>1. UNCHANGED pending /\ \A k \in Launches : supervisor'[k] = "zero" => supervisor[k] = "zero"
      BY <2>3 DEF GuardCalls, SupervisorFails, queue, MonitorInv, MonitorTypeOK
    <3>. QED  BY <2>1, <3>1
  <2>4. CASE SupervisorSettles(l)
    BY <1>1, <1>2, <2>4 DEF SupervisorSettles, processes
  <2>5. CASE GuardReaps(l) \/ GuardWritesReceipt(l) \/ GuardClosesRecord(l) \/ GuardExits(l)
             \/ GuardCallRaises(l) \/ GuardKilled(l) \/ SupervisorClaims(l)
    BY <1>1, <2>5 DEF GuardReaps, GuardWritesReceipt, GuardClosesRecord, GuardExits, GuardCallRaises,
           GuardKilled, SupervisorClaims, queue, processes
  <2>. QED  BY <1>6, <2>2, <2>3, <2>4, <2>5 DEF GuardNext, SupervisorNext
<1>. QED  BY <1>3, <1>4, <1>5, <1>6 DEF Next

(* What is known of a worker for which a launch is drawn.                  *)
LEMMA LaunchableMeans ==
    ASSUME MonitorInv, UnknownIsNew, NEW w \in Workers, NEW l \in Launches, RecordIntent(w, l)
    PROVE  /\ phase = "choosing" /\ w \in todo /\ mine = NoLaunch
           /\ \/ Of(w) = {}
              \/ /\ AllowResume
                 /\ known[w] \in Of(w) /\ receipt[known[w]] = "ok" /\ supervisor[known[w]] = "zero"
<1>1. phase = "choosing" /\ w \in todo /\ Launchable(w)
  BY DEF RecordIntent
<1>2. mine = NoLaunch
  BY <1>1 DEF MonitorInv, TickShape, Busy
<1>3. CASE known[w] = NoLaunch
  BY <1>1, <1>2, <1>3, MonitorAssumption DEF UnknownIsNew, Of
<1>4. CASE known[w] # NoLaunch
  <2>1. AllowResume /\ receipt[known[w]] = "ok"
    BY <1>1, <1>4 DEF Launchable, MonitorInv, VerdictsHold
  <2>2. known[w] \in Launches /\ worker[known[w]] = w
    BY <1>4 DEF MonitorInv, MonitorTypeOK, NamesFit
  <2>3. supervisor[known[w]] = "zero"
    BY <2>1, <2>2 DEF MonitorInv, LaunchShape
  <2>. QED  BY <1>1, <1>2, <2>1, <2>2, <2>3 DEF Of
<1>. QED  BY <1>3, <1>4

LEMMA SecondStep ==
    ASSUME MonitorInv, UnknownIsNew, ZeroIsDone, SecondIsDone, SeenBeforeSecond, [Next]_monitorVars
    PROVE  SecondIsDone' /\ SeenBeforeSecond'
<1>0. \A w, p : p \in PendingWithout(w) => p = pending \/ p = FALSE
  BY DEF PendingWithout
<1>1. ASSUME UNCHANGED worker, pending' = pending \/ pending' = FALSE
      PROVE  SecondIsDone'
  BY <1>1 DEF SecondIsDone
<1>2. ASSUME UNCHANGED << worker, tick >>
      PROVE  SeenBeforeSecond'
  BY <1>2 DEF SeenBeforeSecond, tick
<1>3. CASE UNCHANGED monitorVars \/ \E w \in Workers : AttemptReconciled(w)
  <2>1. UNCHANGED << worker, tick >> /\ (pending' = pending \/ pending' = FALSE)
    BY <1>0, <1>3 DEF AttemptReconciled, monitorVars, durable, queue
  <2>. QED  BY <1>1, <1>2, <2>1
<1>4. ASSUME NEW l \in Launches, GuardNext(l) \/ SupervisorNext(l) \/ GuardCallRaises(l) \/ GuardKilled(l)
      PROVE  SecondIsDone' /\ SeenBeforeSecond'
  <2>1. UNCHANGED << worker, tick >>
    BY <1>4 DEF GuardNext, SupervisorNext, GuardCalls, GuardReaps, GuardWritesReceipt, GuardClosesRecord,
           GuardExits, SupervisorClaims, SupervisorSettles, SupervisorReturns, SupervisorFails,
           GuardCallRaises, GuardKilled, durable
  <2>2. pending' = pending \/ pending' = FALSE
    BY <1>0, <1>4 DEF GuardNext, SupervisorNext, GuardCalls, GuardReaps, GuardWritesReceipt, GuardClosesRecord,
           GuardExits, SupervisorClaims, SupervisorSettles, SupervisorReturns, SupervisorFails,
           GuardCallRaises, GuardKilled, queue
  <2>. QED  BY <1>1, <1>2, <2>1, <2>2
<1>5. CASE TickPauses \/ TickSaves \/ MonitorDies \/ MachineReboots
  <2>1. UNCHANGED << worker, pending >> /\ phase' = "idle" /\ ~remaining'
    BY <1>5 DEF TickPauses, TickSaves, MonitorDies, MachineReboots, Forget, durable, queue
  <2>. QED  BY <1>1, <2>1 DEF SeenBeforeSecond, Busy
<1>6. CASE TickBegins \/ TickMerges
  <2>1. /\ UNCHANGED << worker, pending, remaining >> /\ phase \in {"idle", "loaded"}
        /\ phase' \in {"loaded", "merged"}
    BY <1>6 DEF TickBegins, TickMerges, durable, queue
  <2>. QED  BY <1>1, <2>1 DEF SeenBeforeSecond, Busy
<1>7. CASE TickQueries
  <2>1. UNCHANGED << worker, pending >> /\ phase' = "queried" /\ remaining' = pending
    BY <1>7 DEF TickQueries, durable, queue
  <2>. QED  BY <1>1, <2>1 DEF SeenBeforeSecond, SecondIsDone, Busy
<1>8. CASE TickClassifies
  <2>1. UNCHANGED << worker, pending, remaining >> /\ phase = "queried" /\ phase' = "choosing" /\ remaining
    BY <1>8 DEF TickClassifies, durable, queue
  <2>. QED  BY <1>1, <2>1 DEF SeenBeforeSecond, Busy
<1>9. CASE SpawnGuard \/ CheckIdentity \/ RereadRecord \/ \E w \in Workers : TickSkips(w)
  <2>1. UNCHANGED << worker, pending >>
    BY <1>9 DEF SpawnGuard, CheckIdentity, RereadRecord, TickSkips, durable, queue
  <2>2. \/ phase' = "idle" /\ ~remaining'
        \/ /\ UNCHANGED << remaining, mine >> /\ todo' \subseteq todo
           /\ phase \in Busy \cup {"choosing"} /\ phase' \in Busy \cup {"choosing"}
    BY <1>9 DEF SpawnGuard, CheckIdentity, RereadRecord, TickSkips, Forget, Busy
  <2>. QED  BY <1>1, <2>1, <2>2 DEF SeenBeforeSecond, Busy
<1>10. ASSUME NEW w \in Workers, NEW l \in Launches, RecordIntent(w, l)
       PROVE  SecondIsDone' /\ SeenBeforeSecond'
  <2>1. /\ worker' = [worker EXCEPT ![l] = w] /\ mine' = l /\ phase' = "intended"
        /\ UNCHANGED << remaining, todo, pending >>
    BY <1>10 DEF RecordIntent, queue
  <2>2. \A j \in Launches : worker'[j] = IF j = l THEN w ELSE worker[j]
    BY <2>1 DEF MonitorInv, MonitorTypeOK
  <2>3. Of(w) = {} \/ ~pending
    BY <1>10, LaunchableMeans DEF ZeroIsDone, Of
  <2>4. mine \notin Launches
    BY <1>10, LaunchableMeans, MonitorAssumption
  <2>5. SecondIsDone'
    BY <2>1, <2>2, <2>3 DEF SecondIsDone, Of
  <2>6. SeenBeforeSecond'
    <3>1. remaining /\ phase = "choosing" /\ phase' \in Busy
      BY <1>10, <2>1, LaunchableMeans DEF SeenBeforeSecond, Busy
    <3>2. ASSUME NEW j \in Launches, NEW k \in Launches, j # k,
                 worker'[j] = worker'[k], worker'[j] # NoWorker, worker'[j] \in todo'
          PROVE  mine' \in {j, k}
      <4>1. j # l /\ k # l => worker[j] = worker[k] /\ worker[j] # NoWorker /\ worker[j] \in todo
        BY <2>1, <2>2, <3>2
      <4>. QED  BY <2>1, <2>4, <3>1, <3>2, <4>1 DEF SeenBeforeSecond
    <3>. QED  BY <2>1, <3>1, <3>2 DEF SeenBeforeSecond, Busy
  <2>. QED  BY <2>5, <2>6
<1>11. CASE PublishIdentity
  <2>1. /\ UNCHANGED << worker, pending, remaining >> /\ phase = "reread" /\ phase' = "choosing"
        /\ todo' = todo \ {worker[mine]}
    BY <1>11 DEF PublishIdentity, queue
  <2>2. remaining
    BY <2>1 DEF SeenBeforeSecond, Busy
  <2>. QED  BY <1>1, <2>1, <2>2 DEF SeenBeforeSecond
<1>. QED  BY <1>3, <1>4, <1>5, <1>6, <1>7, <1>8, <1>9, <1>10, <1>11 DEF Next, TickNext

LEMMA RetryInvHolds == Spec => [](MonitorInv /\ RetryInv)
<1>1. Init => RetryInv
  BY MonitorAssumption DEF Init, RetryInv, UnknownIsNew, ZeroIsDone, SecondIsDone, SeenBeforeSecond, Busy
<1>2. MonitorInv /\ RetryInv /\ [Next]_monitorVars => RetryInv'
  BY UnknownStep, DoneStep, SecondStep DEF RetryInv
<1>. QED  BY <1>1, <1>2, StartsRight, MonitorSteps, PTL DEF Spec

(* A supervisor's failure is not retried, as the comment of                *)
(* _classify_supervisors promises, as long as resuming is not allowed or   *)
(* the supervisor returns 0 only when every case is accepted, which is     *)
(* what supervise does.  Where neither holds, run monitor_review refutes   *)
(* it.                                                                     *)
THEOREM FailuresAreNotRetried ==
    ASSUME ~AllowResume \/ ~StopsEarly
    PROVE  Spec => FailureIsNotRetried
<1>1. ASSUME MonitorInv, RetryInv, [Next]_monitorVars
      PROVE  \A l \in Launches :
                worker[l] = NoWorker /\ worker'[l] # NoWorker =>
                    \A k \in Of(worker'[l]) : receipt[k] # "failed"
  <2>. SUFFICES ASSUME NEW l \in Launches, worker[l] = NoWorker, worker'[l] # NoWorker
                PROVE  \A k \in Of(worker'[l]) : receipt[k] # "failed"
    OBVIOUS
  <2>1. worker' # worker
    OBVIOUS
  <2>2. Next
    BY <1>1, <2>1 DEF monitorVars, durable
  <2>3. PICK w \in Workers, j \in Launches : RecordIntent(w, j)
    BY <1>1, <2>1, <2>2, OnlyIntentsAssign
  <2>4. worker' = [worker EXCEPT ![j] = w]
    BY <2>3 DEF RecordIntent
  <2>5. worker'[l] = w
    BY <1>1, <2>4 DEF MonitorInv, MonitorTypeOK
  <2>6. /\ phase = "choosing" /\ w \in todo /\ mine \notin Launches
        /\ \/ Of(w) = {}
           \/ AllowResume /\ known[w] \in Of(w) /\ receipt[known[w]] = "ok"
    BY <1>1, <2>3, LaunchableMeans, MonitorAssumption DEF RetryInv
  <2>7. CASE Of(w) = {}
    BY <2>5, <2>7
  <2>8. CASE AllowResume /\ known[w] \in Of(w) /\ receipt[known[w]] = "ok"
    <3>1. ~StopsEarly
      BY <2>8
    <3>2. remaining
      BY <1>1, <2>6, <3>1 DEF RetryInv, SeenBeforeSecond
    <3>3. \A k \in Of(w) : k = known[w]
      <4>1. SeenBeforeSecond
        BY <1>1, <3>1 DEF RetryInv
      <4>2. w # NoWorker /\ worker[known[w]] = w /\ known[w] \in Launches
        BY <2>8, MonitorAssumption DEF Of
      <4>3. known[w] # mine
        BY <2>6, <4>2
      <4>4. \A k \in Launches : worker[k] = w /\ k # known[w] => mine \in {k, known[w]}
        BY <2>6, <3>2, <4>1, <4>2 DEF SeenBeforeSecond
      <4>. QED  BY <2>6, <4>3, <4>4 DEF Of
    <3>. QED  BY <2>5, <2>8, <3>3
  <2>. QED  BY <2>6, <2>7, <2>8
<1>. QED  BY <1>1, RetryInvHolds, PTL DEF Spec, FailureIsNotRetried
=============================================================================
