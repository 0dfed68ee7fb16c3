------------------------------ MODULE MCVallum ------------------------------
(* The components of Vallum that share no state with one another, checked  *)
(* in one run: a behaviour runs one of them, chosen in the initial state,  *)
(* which loses none of the behaviours of the others.                       *)
EXTENDS VallumProcess, TLC

CONSTANTS
  Agents, Capacity, AutoHeal, MaxEvents, MaxAttempts, Window,
  Writers, Contents, MaxRecords, MaxDamage,
  Pairs, Lists, Reloads, p1, p2

VARIABLES
  part,
  at, hand, todo, queue, chain, attempts, isolated, shutdown, deploys, excused, count,
  store, lastHash, written, forked, doubt, damage,
  matrix, storage, inFlight, reported, last

pipelineVars ==
  <<at, hand, todo, queue, chain, attempts, isolated, shutdown, deploys, excused, count>>
chainVars == <<store, lastHash, written, forked, doubt, damage>>
accessVars == <<matrix, storage, inFlight, reported, last>>
allVars == <<part, vars, pipelineVars, chainVars, accessVars>>

Pipeline == INSTANCE SecurityPipeline
Chain == INSTANCE AuditChain
Access == INSTANCE AccessControl

ASSUME VallumConstants ==
  /\ ProcessAssumption /\ Pipeline!PipelineAssumption
  /\ Chain!ChainAssumption /\ Access!AccessAssumption

MCStreams == <<"tasks:router", "tasks:action">>
MCPairs == {p1, p2}
MCRule(p, b) == [pair |-> p, allowed |-> b]
MCLists ==
  {<< >>, <<MCRule(p1, FALSE), MCRule(p1, TRUE)>>,
   <<MCRule(p2, TRUE), MCRule(p1, TRUE), MCRule(p1, FALSE)>>}

ProcessStep(A) ==
  /\ part = "process" /\ A
  /\ UNCHANGED <<part, pipelineVars, chainVars, accessVars>>
PipelineStep(A) ==
  /\ part = "pipeline" /\ A
  /\ UNCHANGED <<part, vars, chainVars, accessVars>>
ChainStep(A) ==
  /\ part = "chain" /\ A
  /\ UNCHANGED <<part, vars, pipelineVars, accessVars>>
AccessStep(A) ==
  /\ part = "access" /\ A
  /\ UNCHANGED <<part, vars, pipelineVars, chainVars>>

\* a part at rest has one initial state
PartsInit ==
  /\ part \in {"process", "pipeline", "chain", "access"}
  /\ Init /\ Pipeline!Init /\ Chain!Init /\ Access!Init
  /\ part # "access" => matrix = << >> /\ storage = << >>

PartsNext ==
  \/ ProcessStep(Next) \/ PipelineStep(Pipeline!Next)
  \/ ChainStep(Chain!Next) \/ AccessStep(Access!Next)

\* the fairness of FairSpec and Pipeline!FairSpec
PartsSpec ==
  /\ PartsInit /\ [][PartsNext]_allVars
  /\ WF_allVars(ProcessStep(EnsureGroups)) /\ WF_allVars(ProcessStep(Consume))
  /\ WF_allVars(PipelineStep(Pipeline!Spear)) /\ WF_allVars(PipelineStep(Pipeline!Heal))
  /\ \A l \in Pipeline!Loops :
       /\ WF_allVars(PipelineStep(Pipeline!Works(l)))
       /\ SF_allVars(PipelineStep(Pipeline!Stop(l)))

-----------------------------------------------------------------------------
(* Every variable of every part has its type; see the TypeOK of each.      *)
TypesOK ==
  TypeOK /\ Pipeline!TypeOK /\ Chain!TypeOK /\ Access!TypeOK

(* In the pipeline a fix in the trail stands behind a violation of its     *)
(* agent, no agent is deployed more than MaxAttempts times in any window,  *)
(* an agent out of routing has a violation in the trail, and every event   *)
(* raised is under way, taken once, or lost for a reason.                  *)
EventsAccounted == Pipeline!FixesAreDue /\ Pipeline!ViolationsAccounted

(* What a verification of the hash chain vouches for.                      *)
VerificationVouches == Chain!VerificationVouches

(* A storage of the chain that was tampered with is not accepted.          *)
TamperingIsFound == Chain!TamperingIsFound

(* Lists of rules behave as the policy that AccessPolicy describes.        *)
ImplementsPolicy == Access!ImplementsPolicy

(* The consumer catches up with the streams, but for a storm of alerts,    *)
(* and after a shutdown every task of the pipeline stops.                  *)
Settles == (part = "process" => DrainsUnlessStorm) /\ Pipeline!Stops
=============================================================================
