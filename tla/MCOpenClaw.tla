----------------------------- MODULE MCOpenClaw -----------------------------
(* Components of the OpenClaw process, checked in one run: a behaviour     *)
(* runs one of them, chosen in the initial state.  OpenClawPipeline has    *)
(* the executor and the Gemini client as one step each, which is where     *)
(* they meet; deployments are a program of their own.                      *)
EXTENDS OpenClawPipeline, Sequences, TLC

CONSTANTS
  MaxRetries,
  Calls, Streaming, MaxPerMinute, MaxPerDay, Minute, Day, FailureThreshold, RecoveryTime,
  Ops, NoTag, MaxVersions

VARIABLES
  part,
  pc, attempt, orphans, runs, effects, responses, timeouts, misreports,
  pubErrors, lostReplies,
  circuit, failureCount, sinceFailure, stamps, queue, processing, loop, serving,
  delay, call, answer, overlapped, dayDelay,
  versions, traffic, fit, op, prev, toRemove, concurrent, lastGood, record

executorVars ==
  <<pc, attempt, orphans, runs, effects, responses, timeouts, misreports,
    pubErrors, lostReplies>>
geminiVars ==
  <<circuit, failureCount, sinceFailure, stamps, queue, processing, loop, serving,
    delay, call, answer, overlapped, dayDelay>>
deployVars ==
  <<versions, traffic, fit, op, prev, toRemove, concurrent, lastGood, record>>

Executor == INSTANCE ActionExecutor WITH replies <- responses
Gemini == INSTANCE GeminiClient
Deployments == INSTANCE DeployManager

ASSUME PartsConstants ==
  /\ Executor!ExecutorAssumption
  /\ Gemini!ClientAssumption
  /\ Deployments!DeployAssumption

PartsInit ==
  /\ part \in {"pipeline", "executor", "gemini", "deploy"}
  /\ Init /\ Executor!Init /\ Gemini!Init /\ Deployments!Init

PipelineStep(A) ==
  part = "pipeline" /\ A /\ UNCHANGED <<part, executorVars, geminiVars, deployVars>>
ExecutorStep(A) ==
  part = "executor" /\ A /\ UNCHANGED <<part, vars, geminiVars, deployVars>>
GeminiStep(A) ==
  part = "gemini" /\ A /\ UNCHANGED <<part, vars, executorVars, deployVars>>
DeployStep(A) ==
  part = "deploy" /\ A /\ UNCHANGED <<part, vars, executorVars, geminiVars>>

PartsNext ==
  \/ PipelineStep(Next) \/ ExecutorStep(Executor!Next)
  \/ GeminiStep(Gemini!Next) \/ DeployStep(Deployments!Next)

allVars == <<part, vars, executorVars, geminiVars, deployVars>>

\* the fairness of each part's FairSpec
PartsSpec ==
  /\ PartsInit /\ [][PartsNext]_allVars
  /\ \A s \in Streams : WF_allVars(PipelineStep(Loop(s)))
  /\ WF_allVars(ExecutorStep(Executor!Lookup))
  /\ WF_allVars(ExecutorStep(Executor!Wake))
  /\ WF_allVars(ExecutorStep(Executor!TimesOut))
  /\ WF_allVars(ExecutorStep(Executor!Publish))
  /\ WF_allVars(ExecutorStep(Executor!Report))
  /\ WF_allVars(GeminiStep(Gemini!Tick)) /\ WF_allVars(GeminiStep(Gemini!ProcessQueue))
  /\ \A c \in Calls :
       /\ WF_allVars(GeminiStep(Gemini!StreamWakes(c)))
       /\ WF_allVars(GeminiStep(Gemini!ApiReturns(c)))

-----------------------------------------------------------------------------
(* Every variable of every part has its type; see the TypeOK of each.      *)
TypesOK ==
  TypeOK /\ Executor!TypeOK /\ Gemini!TypeOK /\ Deployments!TypeOK

(* An action takes effect more than once only after a timeout, an effect   *)
(* reported as an error, or a result that could not be published; what the *)
(* executor returns is backed by an effect and is its last response.       *)
AnswersMatchEffects == Executor!AnswersMatchEffects

(* Every call of the executor ends, though tools may hang for ever, unless *)
(* the vault does.                                                         *)
Ends == part = "executor" => Executor!Ends

(* A client of Gemini whose calls do not overlap keeps within its limits.  *)
WithinLimits == Gemini!WithinLimits

(* The circuit is closed while failures stay below the threshold.          *)
Breaker == Gemini!Breaker

(* Every call of the Gemini client returns.                                *)
Returns == part = "gemini" => Gemini!Returns

(* What serves is retained, and after a success, or a success and one      *)
(* failure, the deployment that succeeded serves.                          *)
ServesGood == Deployments!ServesGood
=============================================================================
