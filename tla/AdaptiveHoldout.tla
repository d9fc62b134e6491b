--------------------------- MODULE AdaptiveHoldout ---------------------------
(***************************************************************************)
(* The two processes that share an adaptive journal: the request proxy,    *)
(* which owns model events (scripts/observability/request_proxy.py), one   *)
(* handler thread per request, and the SWE-agent run with its hook, which  *)
(* owns tool events and the end of the trajectory                          *)
(* (scripts/assignment/sweagent_adaptive_runner.py).  The agent's client   *)
(* may give a request up while its handler goes on.                        *)
(***************************************************************************)
EXTENDS AdaptiveJournal

CONSTANTS
    ToolOrder,   \* Tools in the order of the hook's next_tool_ordinal
    Faults,      \* subset of {"timeout", "kill", "stop", "disk", "power"}
    MaxStarts    \* of the agent's process; a bound of the model

ASSUME HoldoutAssumption ==
    /\ ToolOrder \in Seq(Tools)
    /\ MaxStarts \in Nat \ {0}

VARIABLES
    proxy,       \* the proxy process
    handler,     \* the handler thread of each request
    agent,       \* where the SWE-agent run is
    asked,       \* the request it waits for
    ordinal,     \* number of tool events of this process
    starts,
    report,      \* adaptive_score_report.json and the events it scores
    \* history
    delivered,   \* requests whose response reached the agent
    executed,    \* events that were dispatched upstream or executed
    abandoned,   \* requests the agent gave up while their handler was at work
    lost         \* events whose process was killed, or met an I/O error

clientVars == << proxy, handler, agent, asked, ordinal, starts, report >>
history == << delivered, executed, abandoned, lost >>
holdoutVars == << journalVars, clientVars, history >>

HandlerStates == {"none", "accepted", "predicted", "dispatched", "answered",
                  "faulted", "labelled", "excused", "gone"}
AgentStates == {"down", "ready", "asking", "deciding", "acting", "acted",
                "closing", "frozen", "closed", "done", "failed"}
OwesLabel == {"predicted", "dispatched", "answered", "faulted"}
AtWork(r) == handler[r] \notin {"none", "gone"}

HoldoutTypeOK ==
    /\ journal \in Seq([type : {"event_prediction", "event_label", "trajectory_label"},
                        event : Events \cup {NoEvent}, boot : 1 .. 2])
    /\ Len(journal) <= 2 * Cardinality(Events) + 1
    /\ tail \in {"whole", "unterminated", "broken"}
    /\ arm \in {"absent", "torn", "frozen"}
    /\ manifest \in [state : {"absent", "torn", "frozen"}, events : SUBSET Events]
    /\ boot \in 1 .. 2
    /\ proxy \in {"down", "up", "stopping"}
    /\ handler \in [Requests -> HandlerStates]
    /\ agent \in AgentStates
    /\ asked \in Requests \cup {NoEvent}
    /\ ordinal \in 0 .. Len(ToolOrder)
    /\ starts \in 0 .. MaxStarts
    /\ report \in [state : {"absent", "torn", "whole"}, events : SUBSET Events]
    /\ delivered \subseteq Requests /\ abandoned \subseteq Requests
    /\ executed \subseteq Events /\ lost \subseteq Events
    /\ asked # NoEvent <=> agent = "asking"
    /\ agent \in {"acting", "acted"} => ordinal < Len(ToolOrder)
    /\ \A r \in delivered : handler[r] = "gone"

Init ==
    /\ JournalInit
    /\ proxy = "down"
    /\ handler = [r \in Requests |-> "none"]
    /\ agent = "down"
    /\ asked = NoEvent
    /\ ordinal = 0
    /\ starts = 0
    /\ report = [state |-> "absent", events |-> {}]
    /\ delivered = {} /\ executed = {} /\ abandoned = {} /\ lost = {}

-----------------------------------------------------------------------------
(* The proxy process.                                                      *)

ProxyStarts ==
    /\ proxy = "down"
    /\ ArmTrajectory
    /\ proxy' = "up"
    /\ UNCHANGED << handler, agent, asked, ordinal, starts, report, history >>

(* SIGTERM: request_graceful_shutdown.                                     *)
ProxyStops ==
    /\ "stop" \in Faults
    /\ proxy = "up"
    /\ proxy' = "stopping"
    /\ UNCHANGED << journalVars, handler, agent, asked, ordinal, starts, report, history >>

(* The process is gone, and its daemon threads with it.                    *)
HandlersEnd ==
    /\ handler' = [r \in Requests |-> IF AtWork(r) THEN "gone" ELSE handler[r]]
    /\ lost' = lost \cup {r \in Requests : handler[r] \in OwesLabel}

(* close_gracefully has joined the handlers, or its timeout has passed.    *)
ProxyExits ==
    /\ proxy = "stopping"
    /\ proxy' = "down"
    /\ HandlersEnd
    /\ UNCHANGED << journalVars, agent, asked, ordinal, starts, report,
                    delivered, executed, abandoned >>

ProxyKilled ==
    /\ "kill" \in Faults
    /\ proxy # "down"
    /\ proxy' = "down"
    /\ HandlersEnd
    /\ UNCHANGED << journalVars, agent, asked, ordinal, starts, report,
                    delivered, executed, abandoned >>

-----------------------------------------------------------------------------
(* One handler thread, _forward.                                           *)

Moves(r, state) == handler' = [handler EXCEPT ![r] = state]
OthersOfHandler == << proxy, agent, asked, ordinal, starts, report >>

(* The body cannot be read: 400.  After a stop the handler's sockets are   *)
(* closed, by close_gracefully or, if it registers later, by itself.       *)
HandlerReadFails(r) ==
    /\ handler[r] = "accepted"
    /\ (proxy = "stopping" \/ r \in abandoned)
    /\ Moves(r, "gone")
    /\ UNCHANGED << journalVars, OthersOfHandler, history >>

(* predict_model_request; a refusal is answered with 500 and no dispatch.  *)
HandlerPredicts(r) ==
    /\ handler[r] = "accepted"
    /\ \/ /\ CanPredict(r)
          /\ AppendRecord(Prediction(r))
          /\ Moves(r, "predicted")
       \/ /\ ~CanPredict(r)
          /\ Moves(r, "gone")
          /\ UNCHANGED journalVars
    /\ UNCHANGED << OthersOfHandler, history >>

(* Mutant: sends the request upstream and predicts meanwhile.              *)
DispatchesUnpredicted(r) ==
    /\ handler[r] \in {"accepted", "predicted"}
    /\ Moves(r, "dispatched")
    /\ executed' = executed \cup {r}
    /\ UNCHANGED << journalVars, OthersOfHandler, delivered, abandoned, lost >>

HandlerDispatches(r) ==
    /\ handler[r] = "predicted"
    /\ Moves(r, "dispatched")
    /\ executed' = executed \cup {r}
    /\ UNCHANGED << journalVars, OthersOfHandler, delivered, abandoned, lost >>

(* A response is read; or connecting, sending or reading raises, or the    *)
(* status is not 2xx.                                                      *)
HandlerIsAnswered(r) ==
    /\ \/ handler[r] = "dispatched" /\ Moves(r, "answered")
       \/ handler[r] \in {"predicted", "dispatched"} /\ Moves(r, "faulted")
    /\ UNCHANGED << journalVars, OthersOfHandler, history >>

(* Mutant: a request that failed upstream gets no label.                   *)
RevealsSuccessOnly(r) ==
    /\ \/ /\ handler[r] = "answered"
          /\ CanReveal(r)
          /\ AppendRecord(EventLabel(r))
          /\ Moves(r, "labelled")
       \/ /\ handler[r] = "faulted" \/ (handler[r] = "answered" /\ ~CanReveal(r))
          /\ Moves(r, "gone")
          /\ UNCHANGED journalVars
    /\ UNCHANGED << OthersOfHandler, history >>

(* Mutant: drops the request of a client that has gone away, unlabelled.   *)
RevealsToWaiting(r) ==
    /\ handler[r] \in {"answered", "faulted"}
    /\ \/ /\ CanReveal(r) /\ r \notin abandoned
          /\ AppendRecord(EventLabel(r))
          /\ Moves(r, IF handler[r] = "answered" THEN "labelled" ELSE "excused")
       \/ /\ ~CanReveal(r) \/ r \in abandoned
          /\ Moves(r, "gone")
          /\ UNCHANGED journalVars
    /\ UNCHANGED << OthersOfHandler, history >>

(* reveal_model_request, completed or unavailable; once attempted, never   *)
(* again, and a refusal withholds the response.                            *)
HandlerReveals(r) ==
    /\ handler[r] \in {"answered", "faulted"}
    /\ \/ /\ CanReveal(r)
          /\ AppendRecord(EventLabel(r))
          /\ Moves(r, IF handler[r] = "answered" THEN "labelled" ELSE "excused")
       \/ /\ ~CanReveal(r)
          /\ Moves(r, "gone")
          /\ UNCHANGED journalVars
    /\ UNCHANGED << OthersOfHandler, history >>

(* Mutant: answers the agent before the label is durable.                  *)
RespondsEarly(r) ==
    /\ handler[r] \in {"answered", "labelled", "excused"}
    /\ Moves(r, IF handler[r] = "answered" THEN "answered" ELSE "gone")
    /\ delivered' = IF handler[r] # "excused" THEN delivered \cup {r} ELSE delivered
    /\ UNCHANGED << journalVars, OthersOfHandler, executed, abandoned, lost >>

(* The downstream write may fail when the client is gone.                  *)
HandlerResponds(r) ==
    /\ handler[r] \in {"labelled", "excused"}
    /\ Moves(r, "gone")
    /\ delivered' = IF handler[r] = "labelled" /\ r \notin abandoned
                    THEN delivered \cup {r} ELSE delivered
    /\ UNCHANGED << journalVars, OthersOfHandler, executed, abandoned, lost >>

(* A bound of the model: an I/O error strikes before any other loss.       *)
DiskMayFail == "disk" \in Faults /\ lost = {} /\ tail = "whole"

(* An append of the handler raises.                                        *)
HandlerDiskError(r) ==
    /\ DiskMayFail
    /\ \/ handler[r] = "accepted" /\ CanPredict(r) /\ SpoiltBy(Prediction(r))
       \/ handler[r] \in {"answered", "faulted"} /\ CanReveal(r) /\ SpoiltBy(EventLabel(r))
    /\ Moves(r, "gone")
    /\ lost' = lost \cup {r}
    /\ UNCHANGED << boot, OthersOfHandler, delivered, executed, abandoned >>

HandlerNext(r) ==
    \/ HandlerReadFails(r) \/ HandlerPredicts(r)
    \/ HandlerDispatches(r) \/ HandlerIsAnswered(r) \/ HandlerReveals(r)
    \/ HandlerResponds(r)

-----------------------------------------------------------------------------
(* The agent run and its hook.                                             *)

Tool == ToolOrder[ordinal + 1]
OthersOfAgent == << proxy, starts >>

(* main: AdaptiveRuntime.load arms the trajectory, or finds it armed.      *)
AgentStarts ==
    /\ agent \in {"down", "done", "failed"}
    /\ starts < MaxStarts
    /\ ArmTrajectory
    /\ agent' = "ready"
    /\ ordinal' = 0
    /\ starts' = starts + 1
    /\ UNCHANGED << proxy, handler, asked, report, history >>

AgentAsks(r) ==
    /\ agent = "ready"
    /\ proxy = "up"
    /\ handler[r] = "none"
    /\ handler' = [handler EXCEPT ![r] = "accepted"]
    /\ asked' = r
    /\ agent' = "asking"
    /\ UNCHANGED << journalVars, OthersOfAgent, ordinal, report, history >>

AgentReceives ==
    /\ agent = "asking"
    /\ asked \in delivered
    /\ agent' = "deciding"
    /\ asked' = NoEvent
    /\ UNCHANGED << journalVars, OthersOfAgent, handler, ordinal, report, history >>

(* The request failed, or its client's patience is at an end.              *)
AgentRetries ==
    /\ agent = "asking"
    /\ asked \notin delivered
    /\ AtWork(asked) => "timeout" \in Faults
    /\ agent' = "ready"
    /\ asked' = NoEvent
    /\ abandoned' = IF AtWork(asked) THEN abandoned \cup {asked} ELSE abandoned
    /\ UNCHANGED << journalVars, OthersOfAgent, handler, ordinal, report,
                    delivered, executed, lost >>

(* on_action_started: predicted, or known from an earlier start with the   *)
(* same action; a refusal ends the run.                                    *)
ToolStarts ==
    /\ agent = "deciding"
    /\ ordinal < Len(ToolOrder)
    /\ \/ /\ CanPredict(Tool)
          /\ AppendRecord(Prediction(Tool))
          /\ agent' = "acting"
       \/ /\ CanReplay(Tool)
          /\ agent' \in {"acting", "closing"}
          /\ UNCHANGED journalVars
       \/ /\ ~CanPredict(Tool) /\ ~CanReplay(Tool)
          /\ agent' = "closing"
          /\ UNCHANGED journalVars
    /\ UNCHANGED << OthersOfAgent, handler, asked, ordinal, report, history >>

ToolExecutes ==
    /\ agent = "acting"
    /\ agent' = "acted"
    /\ executed' = executed \cup {Tool}
    /\ UNCHANGED << journalVars, OthersOfAgent, handler, asked, ordinal, report,
                    delivered, abandoned, lost >>

(* on_action_executed; on_run_done refuses to close after a refusal here.  *)
ToolReveals ==
    /\ agent = "acted"
    /\ \/ /\ CanReveal(Tool)
          /\ AppendRecord(EventLabel(Tool))
          /\ agent' = "ready"
          /\ ordinal' = ordinal + 1
       \/ /\ ~CanReveal(Tool)
          /\ agent' = "failed"
          /\ UNCHANGED << journalVars, ordinal >>
    /\ UNCHANGED << OthersOfAgent, handler, asked, report, history >>

(* The agent submits, or gives up.                                         *)
AgentEnds ==
    /\ agent \in {"ready", "deciding"}
    /\ agent' = "closing"
    /\ UNCHANGED << journalVars, OthersOfAgent, handler, asked, ordinal, report, history >>

(* on_run_done: three operations on the journal...                         *)
RunFreezes ==
    /\ agent = "closing"
    /\ \/ FreezeManifest /\ agent' = "frozen"
       \/ (~CanFreeze /\ agent' = "failed" /\ UNCHANGED journalVars)
    /\ UNCHANGED << OthersOfAgent, handler, asked, ordinal, report, history >>

RunRevealsTrajectory ==
    /\ agent = "frozen"
    /\ \/ /\ CanRevealTrajectory
          /\ AppendRecord(TrajectoryLabel)
          /\ agent' = "closed"
       \/ (~CanRevealTrajectory /\ agent' = "failed" /\ UNCHANGED journalVars)
    /\ UNCHANGED << OthersOfAgent, handler, asked, ordinal, report, history >>

(* ...and the report, which is frozen like the other files.                *)
RunScores ==
    /\ agent = "closed"
    /\ \/ /\ CanScore /\ report.state = "absent"
          /\ report' = [state |-> "whole", events |-> Predicted]
          /\ agent' = "done"
       \/ /\ ~(CanScore /\ report.state = "absent")
          /\ agent' = "failed"
          /\ UNCHANGED report
    /\ UNCHANGED << journalVars, OthersOfAgent, handler, asked, ordinal, history >>

AgentDiskError ==
    /\ DiskMayFail
    /\ \/ /\ agent = "deciding" /\ ordinal < Len(ToolOrder)
          /\ CanPredict(Tool) /\ SpoiltBy(Prediction(Tool))
          /\ agent' = "closing" /\ lost' = lost \cup {Tool}
       \/ /\ agent = "acted" /\ CanReveal(Tool) /\ SpoiltBy(EventLabel(Tool))
          /\ agent' = "failed" /\ lost' = lost \cup {Tool}
       \/ /\ agent = "frozen" /\ CanRevealTrajectory /\ SpoiltBy(TrajectoryLabel)
          /\ agent' = "failed" /\ UNCHANGED lost
    /\ UNCHANGED << boot, OthersOfAgent, handler, asked, ordinal, report,
                    delivered, executed, abandoned >>

(* What the death of the agent's process leaves of its request and tool.   *)
AgentGone ==
    /\ agent' = "down"
    /\ asked' = NoEvent
    /\ abandoned' = IF asked # NoEvent /\ AtWork(asked) THEN abandoned \cup {asked} ELSE abandoned

AgentKilled ==
    /\ "kill" \in Faults
    /\ agent \notin {"down", "done", "failed"}
    /\ AgentGone
    /\ lost' = IF agent \in {"acting", "acted"} THEN lost \cup {Tool} ELSE lost
    /\ \/ UNCHANGED << journalVars, report >>
       \/ (agent = "closing" /\ ManifestTorn /\ UNCHANGED report)
       \/ /\ agent = "closed" /\ CanScore /\ report.state = "absent"
          /\ report' = [state |-> "torn", events |-> Predicted]
          /\ UNCHANGED journalVars
    /\ UNCHANGED << OthersOfAgent, handler, ordinal, delivered, executed >>

StartKilled ==
    /\ "kill" \in Faults
    /\ (proxy = "down" \/ agent = "down")
    /\ ArmTorn
    /\ UNCHANGED << clientVars, history >>

AgentNext ==
    \/ (\E r \in Requests : AgentAsks(r)) \/ AgentReceives \/ AgentRetries
    \/ ToolStarts \/ ToolExecutes \/ ToolReveals \/ AgentEnds
    \/ RunFreezes \/ RunRevealsTrajectory \/ RunScores

-----------------------------------------------------------------------------
(* The records that are being appended at this moment.                     *)
InProgress ==
    {Prediction(r) : r \in {q \in Requests : handler[q] = "accepted" /\ CanPredict(q)}}
    \cup {EventLabel(r) : r \in {q \in Requests : handler[q] \in {"answered", "faulted"} /\ CanReveal(q)}}
    \cup {Prediction(t) : t \in {u \in Tools : agent = "deciding" /\ ordinal < Len(ToolOrder)
                                               /\ u = Tool /\ CanPredict(u)}}
    \cup {EventLabel(t) : t \in {u \in Tools : agent = "acted" /\ u = Tool /\ CanReveal(u)}}
    \cup (IF agent = "frozen" /\ CanRevealTrajectory THEN {TrajectoryLabel} ELSE {})

(* The host loses power, perhaps in an append, and comes up with a new     *)
(* boot id.                                                                *)
PowerLoss ==
    /\ "power" \in Faults
    /\ boot = 1
    /\ boot' = 2
    /\ \/ UNCHANGED << journal, tail, arm, manifest >>
       \/ \E record \in InProgress : SpoiltBy(record)
    /\ proxy' = "down"
    /\ handler' = [r \in Requests |-> IF AtWork(r) THEN "gone" ELSE handler[r]]
    /\ IF agent \in {"done", "failed"}
       THEN UNCHANGED << agent, asked, abandoned >>
       ELSE AgentGone
    /\ lost' = lost \cup {r \in Requests : AtWork(r)}
                    \cup {t \in Tools : agent \in {"deciding", "acting", "acted"}
                                        /\ ordinal < Len(ToolOrder) /\ t = Tool}
    /\ UNCHANGED << ordinal, starts, report, delivered, executed >>

Next ==
    \/ ProxyStarts \/ ProxyStops \/ ProxyExits \/ ProxyKilled
    \/ \E r \in Requests : HandlerNext(r) \/ HandlerDiskError(r)
    \/ AgentStarts \/ AgentNext \/ AgentDiskError \/ AgentKilled \/ StartKilled
    \/ PowerLoss

Spec == Init /\ [][Next]_holdoutVars

(* Threads that are not killed go on; sockets have timeouts, tools end.    *)
Fairness ==
    /\ \A r \in Requests : WF_holdoutVars(HandlerNext(r))
    /\ WF_holdoutVars(AgentNext)

FairSpec == Spec /\ Fairness

-----------------------------------------------------------------------------
(* Whatever the two processes append in whatever order, _load_journal      *)
(* accepts: only a write that failed, or a reboot in the middle of a       *)
(* trajectory, makes a journal unreadable.                                 *)
WritersSatisfyReader ==
    /\ InOrder(journal)
    /\ boot = 1 => OneBoot(journal)
    /\ Faults \cap {"disk", "power"} = {} => Loadable

(* Effects follow their records: "This append is fsync'd before the        *)
(* upstream request is dispatched" (and before a tool runs), and "a failed *)
(* reveal is withheld from the caller rather than returning an unscored    *)
(* response", so the agent acts on no response without a label.            *)
EffectsFollowRecords ==
    /\ executed \subseteq Predicted
    /\ delivered \subseteq Labelled

(* A prediction without a label has somebody who will reveal it, unless    *)
(* that process was killed or an I/O error was reported; nobody else may,  *)
(* so an outstanding prediction without an owner ends the trajectory.      *)
PendingHasOwner ==
    \/ ~Loadable
    \/ Pending \in {NoEvent} \cup lost
    \/ (Pending \in Requests /\ handler[Pending] \in OwesLabel)
    \/ (agent \in {"acting", "acted"} /\ Pending = Tool)

(* What is scored was frozen before the trajectory's label was known,      *)
(* except events of requests that the agent had given up: a handler that   *)
(* is still at work then can predict after the freeze.                     *)
ScoredIsFrozen ==
    report.state # "absent" =>
        /\ report.events = Labelled
        /\ report.events \ manifest.events \subseteq abandoned

(* The journal keeps the promise of EventOrder.                            *)
ImplementsEventOrder == EventOrder!EventOrderSpec

(* A handler or a hook that stays alive reveals what it predicted.  (From  *)
(* one prediction to the next the journal is without one: EventOrder.)     *)
PendingIsRevealed ==
    (Pending # NoEvent) ~> (Pending \in {NoEvent} \cup lost \/ ~Loadable)
=============================================================================
