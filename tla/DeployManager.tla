---------------------------- MODULE DeployManager ----------------------------
(***************************************************************************)
(* OpenClaw's deployments (openclaw/src/deploy-manager.ts): operations on  *)
(* one service, each an atomicDeploy of a tag of its own or a rollback, in *)
(* steps of one call to Cloud Run each.  Nothing keeps two operations      *)
(* apart, and what an operation read of the versions may be old when used. *)
(*                                                                         *)
(* Cloud Run is external: versions are listed newest first, a deployment   *)
(* or a rollback moves the traffic, a health check sees what serves.       *)
(***************************************************************************)
EXTENDS Naturals, Sequences, SequencesExt

CONSTANTS
  Ops,          \* operations, each with its tag
  NoTag,
  MaxVersions   \* maxVersionsRetained

\* assumed of the constants by whoever instantiates the module
DeployAssumption == NoTag \notin Ops /\ MaxVersions \in Nat \ {0}

VARIABLES
  versions,  \* tags of Cloud Run, newest first
  traffic,   \* the tag that has the traffic
  fit,       \* tags whose revision answers health checks
  op,        \* [Ops -> OpStates]
  prev,      \* previousTag of an operation
  toRemove,  \* what retainVersions has left to delete
  \* history, never read by the code
  concurrent,\* an operation began while another was in progress
  lastGood,  \* tag of the last deployment that succeeded
  record     \* since then: "clean" nothing, "restored" one deployment that
             \* was rolled back, "other" anything else

vars == <<versions, traffic, fit, op, prev, toRemove, concurrent, lastGood, record>>

InProgress ==
  {"listed", "deployed", "restoring", "retaining", "deleting", "returning"}
OpStates == InProgress \cup {"new", "done", "threw"}

Init ==
  /\ versions = << >> /\ traffic = NoTag /\ fit = {}
  /\ op = [o \in Ops |-> "new"]
  /\ prev = [o \in Ops |-> NoTag]
  /\ toRemove = [o \in Ops |-> << >>]
  /\ concurrent = FALSE /\ lastGood = NoTag /\ record = "other"

Goto(o, p) == op' = [op EXCEPT ![o] = p]
Retained == Range(versions)
Idle == \A o \in Ops : op[o] \notin InProgress

Begins(o) == op[o] = "new" /\ concurrent' = (concurrent \/ ~Idle)

-----------------------------------------------------------------------------
(* atomicDeploy.                                                           *)

List(o) ==
  /\ Begins(o)
  /\ prev' = [prev EXCEPT ![o] = IF versions = << >> THEN NoTag ELSE versions[1]]
  /\ Goto(o, "listed")
  /\ UNCHANGED <<versions, traffic, fit, toRemove, lastGood, record>>

\* the new revision has the traffic, whether it is fit or not
Deployed(o) ==
  /\ versions' = <<o>> \o versions /\ traffic' = o
  /\ fit' \in {fit, fit \cup {o}}

Deploy(o) ==
  /\ op[o] = "listed" /\ Deployed(o)
  /\ Goto(o, "deployed")
  /\ UNCHANGED <<prev, toRemove, concurrent, lastGood, record>>

\* a poll before the deadline that answers true
Healthy(o) ==
  /\ op[o] = "deployed" /\ traffic \in fit
  /\ Goto(o, "retaining")
  /\ UNCHANGED <<versions, traffic, fit, prev, toRemove, concurrent, lastGood, record>>

\* the deadline, which a slow start may miss as well
Unhealthy(o) ==
  /\ op[o] = "deployed"
  /\ IF prev[o] = NoTag THEN Goto(o, "done") /\ record' = "other"
                        ELSE Goto(o, "restoring") /\ UNCHANGED record
  /\ UNCHANGED <<versions, traffic, fit, prev, toRemove, concurrent, lastGood>>

\* mutant: the rollback goes to the newest version of the moment
RestoreNewest(o) ==
  /\ op[o] = "restoring"
  /\ traffic' = versions[1]
  /\ record' = IF record = "clean" THEN "restored" ELSE "other"
  /\ Goto(o, "done")
  /\ UNCHANGED <<versions, fit, prev, toRemove, concurrent, lastGood>>

Restore(o) ==
  /\ op[o] = "restoring" /\ prev[o] \in Retained
  /\ traffic' = prev[o]
  /\ record' = IF record = "clean" THEN "restored" ELSE "other"
  /\ Goto(o, "done")
  /\ UNCHANGED <<versions, fit, prev, toRemove, concurrent, lastGood>>

-----------------------------------------------------------------------------
(* retainVersions, at the end of a deployment that is healthy.             *)

Succeeded(o) == lastGood' = o /\ record' = "clean"

ListAgain(o) ==
  /\ op[o] = "retaining"
  /\ toRemove' = [toRemove EXCEPT ![o] = SubSeq(versions, MaxVersions + 1, Len(versions))]
  /\ IF Len(versions) <= MaxVersions
       THEN Goto(o, "done") /\ Succeeded(o)
       ELSE Goto(o, "deleting") /\ UNCHANGED <<lastGood, record>>
  /\ UNCHANGED <<versions, traffic, fit, prev, concurrent>>

\* deleting what another operation deleted changes nothing
Delete(o) ==
  /\ op[o] = "deleting"
  /\ versions' = RemoveFirst(versions, Head(toRemove[o]))
  /\ toRemove' = [toRemove EXCEPT ![o] = Tail(@)]
  /\ IF Len(toRemove[o]) = 1
       THEN Goto(o, "done") /\ Succeeded(o)
       ELSE UNCHANGED <<op, lastGood, record>>
  /\ UNCHANGED <<traffic, fit, prev, concurrent>>

-----------------------------------------------------------------------------
(* rollback.                                                               *)

ListForRollback(o) ==
  /\ Begins(o)
  /\ IF Len(versions) < 2
       THEN Goto(o, "done") /\ UNCHANGED prev
       ELSE Goto(o, "returning") /\ prev' = [prev EXCEPT ![o] = versions[2]]
  /\ UNCHANGED <<versions, traffic, fit, toRemove, lastGood, record>>

Rollback(o) ==
  /\ op[o] = "returning" /\ prev[o] \in Retained
  /\ traffic' = prev[o] /\ record' = "other"
  /\ Goto(o, "done")
  /\ UNCHANGED <<versions, fit, prev, toRemove, concurrent, lastGood>>

\* a call is rejected, and with it the operation; a deployment may have been
\* made for all that
Throws(o) ==
  /\ op[o] \in InProgress
  /\ \/ UNCHANGED <<versions, traffic, fit>>
     \/ op[o] = "listed" /\ Deployed(o)
  /\ record' = "other" /\ Goto(o, "threw")
  /\ UNCHANGED <<prev, toRemove, concurrent, lastGood>>

AtomicDeploy(o) ==
  List(o) \/ Deploy(o) \/ Healthy(o) \/ Unhealthy(o) \/ Restore(o)
    \/ ListAgain(o) \/ Delete(o)

Next ==
  \E o \in Ops : AtomicDeploy(o) \/ ListForRollback(o) \/ Rollback(o) \/ Throws(o)

Spec == Init /\ [][Next]_vars

-----------------------------------------------------------------------------
(* Every variable has its type, and no version is listed twice.            *)
TypeOK ==
  /\ versions \in Seq(Ops) /\ IsInjective(versions)
  /\ traffic \in Ops \cup {NoTag} /\ fit \subseteq Ops
  /\ op \in [Ops -> OpStates]
  /\ prev \in [Ops -> Ops \cup {NoTag}]
  /\ toRemove \in [Ops -> Seq(Ops)]
  /\ concurrent \in BOOLEAN
  /\ lastGood \in Ops \cup {NoTag}
  /\ record \in {"clean", "restored", "other"}

(* As long as operations do not overlap, what serves is never deleted, and *)
(* after a success, or a success and one failure, the deployment that      *)
(* succeeded serves.  A second failure in a row is rolled back to the      *)
(* first: the newest version listed is not the one that serves.            *)
ServesGood ==
  ~concurrent =>
    /\ traffic \in Retained \cup {NoTag}
    /\ Idle /\ record \in {"clean", "restored"} => traffic = lastGood /\ lastGood \in fit
=============================================================================
