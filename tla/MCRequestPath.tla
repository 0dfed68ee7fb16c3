---------------------------- MODULE MCRequestPath ----------------------------
(* Small instances of PicoClaw's router alone and of the whole path of a   *)
(* request, of which the router is one step: a behaviour runs one of the   *)
(* two, chosen in the initial state.                                       *)
EXTENDS PicoRouter, TLC

CONSTANTS
  Parts,            \* SUBSET {"router", "flow"}
  plain, direct, gateway, internal, g1, g2, router,
  conversation, act, inner, gemini, action, ironclaw, websearch,
  FlowTasks, ViaGateway, MaxOutages, MaxWraps

VARIABLES
  part,
  up, outages, outcome, parked, unread, held, response, wraps, asked, resent

flowVars ==
  <<up, outages, outcome, parked, unread, held, response, wraps, asked, resent>>
allVars == <<part, vars, flowVars>>

\* a task without a destination that may be classified two ways, one for
\* IronClaw, one addressed to an agent, one sent by IronClaw's gateway
MCDestination ==
  [t \in Tasks |-> IF t = plain THEN NoDest ELSE IF t = direct THEN action ELSE Router]
MCClassified ==
  [t \in Tasks |-> IF t = plain THEN {conversation, act} ELSE {conversation}]
MCFallback ==
  [i \in Intents |-> IF i = act THEN action ELSE IF i = inner THEN ironclaw ELSE gemini]
MCInstances == [d \in Dests |-> IF d = gemini THEN {g1, g2} ELSE {}]

Flow == INSTANCE TaskFlow WITH
  redisUp <- up,
  Tasks <- FlowTasks,
  Destination <- [t \in FlowTasks |-> IF t = direct THEN action ELSE NoDest],
  Classified <- [t \in FlowTasks |-> IF t = internal THEN {inner} ELSE {conversation, act}],
  Streams <- {Router, action, gemini, ironclaw},
  Action <- action, Gemini <- gemini, Workers <- {action, gemini},
  Tools <- {websearch}, None <- "none"

ASSUME FlowConstants == Flow!FlowAssumption

RouterStep(A) == part = "router" /\ A /\ UNCHANGED <<part, flowVars>>
FlowStep(A) == part = "flow" /\ A /\ UNCHANGED <<part, vars>>

\* a part at rest has one initial state
PartsInit ==
  /\ part \in Parts /\ Init /\ Flow!Init
  /\ part # "router" => redisUp
  /\ part # "flow" => up
PartsNext == RouterStep(Next) \/ FlowStep(Flow!Next)

\* the fairness of FairSpec and Flow!FairSpec
PartsSpec ==
  /\ PartsInit /\ [][PartsNext]_allVars
  /\ WF_allVars(RouterStep(Consume))
  /\ \A c \in Flow!Consumers : WF_allVars(FlowStep(Flow!Take(c)))
  /\ WF_allVars(FlowStep(Flow!Route))
  /\ \A c \in {action, gemini} : WF_allVars(FlowStep(Flow!Work(c)))
  /\ WF_allVars(FlowStep(Flow!RedisBack))

-----------------------------------------------------------------------------
(* A task of the path is in one place at a time, and none is lost, doubled *)
(* or answered while it travels, but for outages and lost replies.         *)
OnePlace == Flow!OnePlace

(* A task without a destination, for a consumed stream, is answered.       *)
UndirectedIsAnswered == Flow!UndirectedIsAnswered

(* The router gets through its stream.                                     *)
RouterDrains == part = "router" => EventuallyDrained

(* A request of the gateway is answered.                                   *)
GatewayIsAnswered == Flow!GatewayIsAnswered

(* What Gemini is asked is the payload a task was sent with.               *)
GeminiIsAskedTheMessage == Flow!GeminiIsAskedTheMessage
=============================================================================
