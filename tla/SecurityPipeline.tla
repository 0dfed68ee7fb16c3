-------------------------- MODULE SecurityPipeline --------------------------
(***************************************************************************)
(* Vallum's security pipeline (calango-vallum/src/pipeline.rs, spear.rs):  *)
(* the SHIELD observer, the SPEAR scheduler and the HEALER listener, three *)
(* tasks that share a bounded event channel and the CHAIN, with the calls  *)
(* they await as steps of their own.  What SHIELD finds in a message,      *)
(* SPEAR's verdicts, Gemini, the sandbox, the deployer and the notifier    *)
(* are chosen by the environment.                                          *)
(***************************************************************************)
EXTENDS Healer

CONSTANTS
  Agents,
  Capacity,     \* event_channel_size
  AutoHeal,     \* auto_heal_on_critical
  MaxEvents     \* bound: events ever raised

PipelineAssumption ==
  /\ HealerAssumption
  /\ IsFiniteSet(Agents) /\ AutoHeal \in BOOLEAN
  /\ Capacity \in Nat \ {0} /\ MaxEvents \in Nat

VARIABLES
  at,           \* [Loops -> Phases], where each task is
  hand,         \* [Loops -> Seq(Event)], the events a task is handling
  todo,         \* Seq(Agents), what a SPEAR run has left to test
  queue,        \* Seq(Event), the channel
  chain,        \* Seq([kind, agent]), the audit trail
  attempts,     \* [Agents -> Seq(age)], attempt_tracker
  isolated,     \* SUBSET Agents, taken out of routing by SPEAR
  shutdown,     \* BOOLEAN, was the shutdown broadcast?
  \* history, never read by the code
  deploys,      \* [Agents -> Seq(age)], calls of atomic_deploy
  excused,      \* agents whose record the storage refused, whose isolation the
                \* notifier did not report, whose failure came from outside
  count         \* events raised, taken, refused by the channel, never sent

tasks == <<at, hand, todo>>
healing == <<attempts, deploys>>
vars == <<tasks, queue, chain, healing, isolated, shutdown, excused, count>>

Loops == {"shield", "spear", "healer"}
Phases == {"idle", "test", "isolate", "report", "record", "send",
           "diagnose", "try", "deploy", "stopped"}

\* PipelineEvent
Event == [kind: {"ShieldAlert", "SpearFailure", "AgentFailure"},
          agent: Agents, critical: BOOLEAN]
EventOf(kind, a, critical) == [kind |-> kind, agent |-> a, critical |-> critical]

\* SecurityPipeline::new, and start, which spawns the three tasks
Init ==
  /\ at = [l \in Loops |-> "idle"] /\ hand = [l \in Loops |-> << >>]
  /\ todo = << >> /\ queue = << >> /\ chain = << >>
  /\ attempts = [a \in Agents |-> << >>] /\ deploys = attempts
  /\ isolated = {} /\ shutdown = FALSE
  /\ excused = [unrecorded |-> {}, unreported |-> {}, notified |-> {}]
  /\ count = [raised |-> 0, taken |-> 0, refused |-> 0, unsent |-> 0]

Goes(l, phase, events) ==
  at' = [at EXCEPT ![l] = phase] /\ hand' = [hand EXCEPT ![l] = events]
Rests(l) == Goes(l, "idle", << >>) /\ UNCHANGED todo
NextAgent == Goes("spear", IF todo' = << >> THEN "idle" ELSE "test", << >>)

Raised(n) ==
  count.raised + n <= MaxEvents /\ count' = [count EXCEPT !.raised = @ + n]

-----------------------------------------------------------------------------
\* shield_observer_loop: a message raises an alert (others change nothing)
Observe(a, critical) ==
  /\ at["shield"] = "idle"
  /\ Raised(1)
  /\ Goes("shield", "record", <<EventOf("ShieldAlert", a, critical)>>)
  /\ UNCHANGED <<todo, queue, chain, healing, isolated, shutdown, excused>>

\* spear_scheduler_loop: the interval is over, the registry lists its agents,
\* always in one order (the agents are alike)
RunStarts ==
  /\ at["spear"] = "idle"
  /\ todo' = SetToSeq(Agents) /\ NextAgent
  /\ UNCHANGED <<queue, chain, healing, isolated, shutdown, excused, count>>

\* test_agent: no test fails, or the sandbox or a test reports an error
TestsEnd ==
  /\ at["spear"] = "test"
  /\ todo' = Tail(todo) /\ NextAgent
  /\ UNCHANGED <<queue, chain, healing, isolated, shutdown, excused, count>>

TestsFail(n) ==
  /\ at["spear"] = "test"
  /\ Raised(n)
  /\ todo' = Tail(todo)
  /\ Goes("spear", "isolate",
          [i \in 1..n |-> EventOf("SpearFailure", Head(todo), FALSE)])
  /\ UNCHANGED <<queue, chain, healing, isolated, shutdown, excused>>

\* `?` on a call of the notifier: no record, no events
Unreported(a) ==
  /\ UNCHANGED todo /\ NextAgent
  /\ excused' = [excused EXCEPT !.unreported = @ \cup {a}]
  /\ count' = [count EXCEPT !.unsent = @ + Len(hand["spear"])]

\* isolate_agent, which may report an error though it took effect
Isolate(ok, applied) ==
  LET a == hand["spear"][1].agent IN
  /\ at["spear"] = "isolate" /\ (ok => applied)
  /\ isolated' = IF applied THEN isolated \cup {a} ELSE isolated
  /\ \/ ok /\ Goes("spear", "report", hand["spear"]) /\ UNCHANGED <<todo, excused, count>>
     \/ ~ok /\ Unreported(a)
  /\ UNCHANGED <<queue, chain, healing, shutdown>>

\* notify_shield and report_to_chain
Report(ok) ==
  /\ at["spear"] = "report"
  /\ \/ ok /\ Goes("spear", "record", hand["spear"]) /\ UNCHANGED <<todo, excused, count>>
     \/ ~ok /\ Unreported(hand["spear"][1].agent)
  /\ UNCHANGED <<queue, chain, healing, isolated, shutdown>>

\* chain.record, whose error every task ignores
Recorded(kind, a) ==
  \/ chain' = Append(chain, [kind |-> kind, agent |-> a]) /\ UNCHANGED excused
  \/ excused' = [excused EXCEPT !.unrecorded = @ \cup {a}] /\ UNCHANGED chain

RecordViolation(l) ==
  /\ at[l] = "record" /\ l # "healer"
  /\ Recorded("violation", hand[l][1].agent)
  /\ Goes(l, "send", hand[l])
  /\ UNCHANGED <<todo, queue, healing, isolated, shutdown, count>>

\* mutant: an unbounded channel
EnqueueUnbounded(e) ==
  IF at["healer"] = "stopped"
  THEN UNCHANGED queue /\ count' = [count EXCEPT !.refused = @ + 1]
  ELSE queue' = Append(queue, e) /\ UNCHANGED count

\* event_tx.send: waits for room, fails once the receiver is gone
Enqueue(e) ==
  IF at["healer"] = "stopped"
  THEN UNCHANGED queue /\ count' = [count EXCEPT !.refused = @ + 1]
  ELSE Len(queue) < Capacity /\ queue' = Append(queue, e) /\ UNCHANGED count

Sent(l) ==
  /\ Goes(l, IF Len(hand[l]) > 1 THEN "send"
             ELSE IF l = "spear" /\ todo # << >> THEN "test" ELSE "idle",
             Tail(hand[l]))
  /\ UNCHANGED <<todo, chain, healing, isolated, shutdown, excused>>

\* mutant: try_send, for which a full channel is an error
TrySend(l) ==
  /\ at[l] = "send"
  /\ Enqueue(Head(hand[l])) \/ (Len(queue) = Capacity /\ UNCHANGED <<queue, count>>)
  /\ Sent(l)

Send(l) ==
  /\ at[l] = "send"
  /\ Enqueue(Head(hand[l]))
  /\ Sent(l)

\* notify_event, called from outside the pipeline
Notify(a) ==
  /\ count.raised < MaxEvents
  /\ IF at["healer"] = "stopped"
     THEN UNCHANGED queue /\ count' = [count EXCEPT !.raised = @ + 1, !.refused = @ + 1]
     ELSE /\ Len(queue) < Capacity
          /\ queue' = Append(queue, EventOf("AgentFailure", a, FALSE))
          /\ count' = [count EXCEPT !.raised = @ + 1]
  /\ excused' = [excused EXCEPT !.notified = @ \cup {a}]
  /\ UNCHANGED <<tasks, chain, healing, isolated, shutdown>>

-----------------------------------------------------------------------------
\* healer_listener_loop; an alert heals only if critical, and configured to
Heals(e) == e.kind = "ShieldAlert" => AutoHeal /\ e.critical

Take ==
  /\ at["healer"] = "idle" /\ queue # << >>
  /\ queue' = Tail(queue)
  /\ count' = [count EXCEPT !.taken = @ + 1]
  /\ IF Heals(Head(queue))
     THEN Goes("healer", "diagnose", <<Head(queue)>>) /\ UNCHANGED todo
     ELSE UNCHANGED tasks
  /\ UNCHANGED <<chain, healing, isolated, shutdown, excused>>

\* attempt_healing gives up at the first of its calls that fails
Diagnose(ok) ==
  /\ at["healer"] = "diagnose"
  /\ IF ok THEN Goes("healer", "try", hand["healer"]) /\ UNCHANGED todo
     ELSE Rests("healer")
  /\ UNCHANGED <<queue, chain, healing, isolated, shutdown, excused, count>>

\* test_fix reports a failed test, or an error
TestFixFails ==
  /\ at["healer"] = "try"
  /\ Rests("healer")
  /\ UNCHANGED <<queue, chain, healing, isolated, shutdown, excused, count>>

\* the test is passed: apply_fix up to its call of atomic_deploy
ApplyFix ==
  LET a == hand["healer"][1].agent IN
  /\ at["healer"] = "try"
  /\ IF CanAttempt(attempts[a])
     THEN /\ attempts' = [attempts EXCEPT ![a] = RecordAttempt(@)]
          /\ deploys' = [deploys EXCEPT ![a] = Pruned(Append(@, 0))]
          /\ Goes("healer", "deploy", hand["healer"]) /\ UNCHANGED todo
     ELSE Rests("healer") /\ UNCHANGED healing
  /\ UNCHANGED <<queue, chain, isolated, shutdown, excused, count>>

\* atomic_deploy answers; after its error the rollback's own is ignored
Deployed(ok) ==
  /\ at["healer"] = "deploy"
  /\ Goes("healer", IF ok THEN "record" ELSE "idle", IF ok THEN hand["healer"] ELSE << >>)
  /\ UNCHANGED <<todo, queue, chain, healing, isolated, shutdown, excused, count>>

RecordFix ==
  /\ at["healer"] = "record"
  /\ Recorded("fix", hand["healer"][1].agent)
  /\ Rests("healer")
  /\ UNCHANGED <<queue, healing, isolated, shutdown, count>>

-----------------------------------------------------------------------------
\* PipelineHandle::shutdown
Shutdown ==
  /\ ~shutdown /\ shutdown' = TRUE
  /\ UNCHANGED <<tasks, queue, chain, healing, isolated, excused, count>>

\* mutant: HEALER listens to its channel only
StopObserver(l) ==
  /\ shutdown /\ at[l] = "idle" /\ l # "healer"
  /\ Goes(l, "stopped", << >>)
  /\ UNCHANGED <<todo, queue, chain, healing, isolated, shutdown, excused, count>>

\* a task sees the broadcast between two turns of its loop; the receiver of
\* the channel goes with HEALER, and what is queued with it
Stop(l) ==
  /\ shutdown /\ at[l] = "idle"
  /\ Goes(l, "stopped", << >>)
  /\ UNCHANGED <<todo, queue, chain, healing, isolated, shutdown, excused, count>>

Tick ==
  /\ attempts' = [a \in Agents |-> Older(attempts[a])]
  /\ deploys' = [a \in Agents |-> Pruned(Older(deploys[a]))]
  /\ UNCHANGED <<tasks, queue, chain, isolated, shutdown, excused, count>>

\* the calls the tasks await are answered, one way or another
Spear == TestsEnd \/ (\E ok, applied \in BOOLEAN : Isolate(ok, applied))
           \/ (\E ok \in BOOLEAN : Report(ok))
Heal == Take \/ TestFixFails \/ ApplyFix \/ RecordFix
          \/ (\E ok \in BOOLEAN : Diagnose(ok) \/ Deployed(ok))
Works(l) == RecordViolation(l) \/ Send(l)

Next ==
  \/ \E a \in Agents, critical \in BOOLEAN : Observe(a, critical)
  \/ \E a \in Agents : Notify(a)
  \/ \E n \in 1..2 : TestsFail(n)
  \/ \E l \in Loops : Works(l) \/ Stop(l)
  \/ RunStarts \/ Spear \/ Heal \/ Shutdown \/ Tick

Spec == Init /\ [][Next]_vars

\* Every call is answered; select! picks at random between branches that
\* are ready, so that a task that keeps turning sees the broadcast.
FairSpec ==
  /\ Spec
  /\ WF_vars(Spear) /\ WF_vars(Heal)
  /\ \A l \in Loops : WF_vars(Works(l)) /\ SF_vars(Stop(l))

-----------------------------------------------------------------------------
(* Every variable has its type; only HEALER takes from the channel, and a  *)
(* task at rest handles no event.                                          *)
TypeOK ==
  /\ at \in [Loops -> Phases] /\ hand \in [Loops -> Seq(Event)]
  /\ todo \in Seq(Agents) /\ queue \in Seq(Event) /\ Len(queue) <= Capacity
  /\ chain \in Seq([kind: {"violation", "fix"}, agent: Agents])
  /\ attempts \in [Agents -> Seq(0..Window)] /\ deploys \in [Agents -> Seq(0..Window)]
  /\ isolated \subseteq Agents /\ shutdown \in BOOLEAN
  /\ excused \in [{"unrecorded", "unreported", "notified"} -> SUBSET Agents]
  /\ count \in [{"raised", "taken", "refused", "unsent"} -> 0..MaxEvents]
  /\ \A l \in Loops : at[l] \in {"idle", "test", "stopped"} <=> hand[l] = << >>

(* The trail explains itself: a fix recorded for an agent stands behind a  *)
(* violation of that agent, unless its failure was notified from outside   *)
(* or the storage refused a record of it.                                  *)
FixHasCause ==
  \A i \in DOMAIN chain : chain[i].kind = "fix" =>
    \/ \E j \in 1..(i - 1) : chain[j] = [kind |-> "violation", agent |-> chain[i].agent]
    \/ chain[i].agent \in excused.notified \cup excused.unrecorded

(* An agent SPEAR took out of routing has a violation in the trail, unless *)
(* the notifier failed on the way, the storage refused the record, or the  *)
(* record is about to be made.                                             *)
IsolationIsAudited ==
  \A a \in isolated :
    \/ \E i \in DOMAIN chain : chain[i] = [kind |-> "violation", agent |-> a]
    \/ a \in excused.unrecorded \cup excused.unreported
    \/ at["spear"] \in {"report", "record"} /\ hand["spear"][1].agent = a

(* Every event raised is in a task's hands, in the channel, taken once, or *)
(* lost for a reason: never sent after a failed notification, or refused   *)
(* by the channel, which happens only once HEALER has stopped.  What HEALER *)
(* leaves in the channel when it stops is never taken.                     *)
EventsAccounted ==
  /\ count.raised = count.taken + count.refused + count.unsent + Len(queue)
       + Len(hand["shield"]) + Len(hand["spear"])
  /\ count.refused > 0 => at["healer"] = "stopped"
  /\ count.unsent > 0 => excused.unreported # {}

(* No agent is deployed more than MaxAttempts times in any window, however *)
(* many events ask for it and whether or not the deployments succeed.      *)
DeployBudget == \A a \in Agents : Recent(deploys[a]) <= MaxAttempts

(* A fix is deployed for a violation on record, and not too often.         *)
FixesAreDue == FixHasCause /\ DeployBudget

(* A violation that isolated an agent reaches the trail and HEALER, or is  *)
(* lost for a reason.                                                      *)
ViolationsAccounted == IsolationIsAudited /\ EventsAccounted

(* After a shutdown every task stops, also one that waits for room in the  *)
(* channel when the listener has gone.                                     *)
Stops == shutdown ~> \A l \in Loops : at[l] = "stopped"
=============================================================================
