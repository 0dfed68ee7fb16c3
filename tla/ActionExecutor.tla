--------------------------- MODULE ActionExecutor ---------------------------
(***************************************************************************)
(* One call of OpenClaw's ActionExecutor.execute                           *)
(* (openclaw/src/action-executor.ts): it looks the tool up, and at most    *)
(* 1 + MaxRetries times fetches a credential, runs the tool under a        *)
(* timeout and publishes the result, sleeping before every retry.          *)
(*                                                                         *)
(* withTimeout abandons a run without cancelling it, so several runs of    *)
(* the tool may be in progress.  Whether a run had its effect on the       *)
(* outside world is independent of what it reports.  publishResult is an   *)
(* XADD that may fail with or without having been applied.                 *)
(***************************************************************************)
EXTENDS Naturals, Sequences

CONSTANT MaxRetries   \* MAX_RETRIES

\* assumed of the constants by whoever instantiates the module
ExecutorAssumption == MaxRetries \in Nat

VARIABLES
  pc,        \* where the call is
  attempt,   \* the loop's counter
  orphans,   \* runs the timeout abandoned that have not ended
  \* history, never read by the code
  runs,      \* times the tool was started
  effects,   \* runs that had their effect
  replies,   \* statuses that reached responses:<id>, in order
  timeouts,  \* attempts that timed out
  misreports,\* runs with an effect that reported an error
  pubErrors, \* publishes of a success that reported an error
  lostReplies\* publishes that were applied and reported an error

history == <<runs, effects, replies, timeouts, misreports, pubErrors, lostReplies>>
vars == <<pc, attempt, orphans, history>>

Final == {"success", "failure", "threw"}

Init ==
  /\ pc = "lookup"
  /\ attempt = 0
  /\ orphans = 0
  /\ runs = 0
  /\ effects = 0
  /\ replies = << >>
  /\ timeouts = 0
  /\ misreports = 0
  /\ pubErrors = 0
  /\ lostReplies = 0

Goto(p) == pc' = p

-----------------------------------------------------------------------------
ToolFound ==
  /\ pc = "lookup" /\ Goto("credential")
  /\ UNCHANGED <<attempt, orphans, history>>

ToolMissing ==
  /\ pc = "lookup" /\ Goto("report")
  /\ UNCHANGED <<attempt, orphans, history>>

(* the catch of the loop *)
NextAttempt ==
  IF attempt < MaxRetries THEN Goto("backoff") ELSE Goto("report")

Wake ==
  /\ pc = "backoff"
  /\ attempt' = attempt + 1
  /\ Goto("credential")
  /\ UNCHANGED <<orphans, history>>

CredentialGranted ==
  /\ pc = "credential"
  /\ runs' = runs + 1
  /\ Goto("running")
  /\ UNCHANGED <<attempt, orphans, effects, replies, timeouts, misreports,
                 pubErrors, lostReplies>>

CredentialDenied ==
  /\ pc = "credential"
  /\ NextAttempt
  /\ UNCHANGED <<attempt, orphans, history>>

ToolSucceeds ==
  /\ pc = "running"
  /\ effects' = effects + 1
  /\ Goto("publish")
  /\ UNCHANGED <<attempt, orphans, runs, replies, timeouts, misreports,
                 pubErrors, lostReplies>>

ToolFails ==
  /\ pc = "running"
  /\ \/ UNCHANGED <<effects, misreports>>
     \/ effects' = effects + 1 /\ misreports' = misreports + 1
  /\ NextAttempt
  /\ UNCHANGED <<attempt, orphans, runs, replies, timeouts, pubErrors,
                 lostReplies>>

\* mutant: the timer guards the first attempt only
TimesOutOnce ==
  /\ pc = "running" /\ attempt = 0
  /\ orphans' = orphans + 1
  /\ timeouts' = timeouts + 1
  /\ NextAttempt
  /\ UNCHANGED <<attempt, runs, effects, replies, misreports, pubErrors,
                 lostReplies>>

\* withTimeout rejects; the run goes on by itself
TimesOut ==
  /\ pc = "running"
  /\ orphans' = orphans + 1
  /\ timeouts' = timeouts + 1
  /\ NextAttempt
  /\ UNCHANGED <<attempt, runs, effects, replies, misreports, pubErrors,
                 lostReplies>>

OrphanEnds ==
  /\ orphans > 0
  /\ orphans' = orphans - 1
  /\ \/ effects' = effects + 1
     \/ UNCHANGED effects
  /\ UNCHANGED <<pc, attempt, runs, replies, timeouts, misreports, pubErrors,
                 lostReplies>>

-----------------------------------------------------------------------------
(* publishResult of a success is inside the try: its error starts the next *)
(* attempt, which runs the tool again.                                     *)

Published(s) == replies' = Append(replies, s)

\* mutant: the loop does not return after its success
PublishOkContinues ==
  /\ pc = "publish"
  /\ Published("success")
  /\ NextAttempt
  /\ UNCHANGED <<attempt, orphans, runs, effects, timeouts, misreports,
                 pubErrors, lostReplies>>

PublishOk ==
  /\ pc = "publish"
  /\ Published("success")
  /\ Goto("success")
  /\ UNCHANGED <<attempt, orphans, runs, effects, timeouts, misreports,
                 pubErrors, lostReplies>>

PublishError ==
  /\ pc = "publish"
  /\ pubErrors' = pubErrors + 1
  /\ \/ UNCHANGED <<replies, lostReplies>>
     \/ Published("success") /\ lostReplies' = lostReplies + 1
  /\ NextAttempt
  /\ UNCHANGED <<attempt, orphans, runs, effects, timeouts, misreports>>

(* The failure is published outside the try: its error leaves the call.    *)
ReportOk ==
  /\ pc = "report"
  /\ Published("failure")
  /\ Goto("failure")
  /\ UNCHANGED <<attempt, orphans, runs, effects, timeouts, misreports,
                 pubErrors, lostReplies>>

ReportError ==
  /\ pc = "report"
  /\ \/ UNCHANGED <<replies, lostReplies>>
     \/ Published("failure") /\ lostReplies' = lostReplies + 1
  /\ Goto("threw")
  /\ UNCHANGED <<attempt, orphans, runs, effects, timeouts, misreports,
                 pubErrors>>

Lookup == ToolFound \/ ToolMissing
VaultAnswers == CredentialGranted \/ CredentialDenied
ToolAnswers == ToolSucceeds \/ ToolFails
Publish == PublishOk \/ PublishError
Report == ReportOk \/ ReportError

Next ==
  \/ Lookup \/ Wake \/ VaultAnswers \/ ToolAnswers \/ TimesOut \/ OrphanEnds
  \/ Publish \/ Report

Spec == Init /\ [][Next]_vars

\* timers fire and Redis answers; a tool and the vault need not
FairSpec ==
  /\ Spec
  /\ WF_vars(Lookup) /\ WF_vars(Wake) /\ WF_vars(TimesOut)
  /\ WF_vars(Publish) /\ WF_vars(Report)

-----------------------------------------------------------------------------
(* Every variable has its type; the loop's counter stays in its range and  *)
(* runs exceed neither the attempts nor what they account for.             *)
TypeOK ==
  /\ pc \in {"lookup", "credential", "running", "backoff", "publish",
             "report"} \cup Final
  /\ attempt \in 0 .. MaxRetries
  /\ runs \in 0 .. attempt + 1
  /\ effects \in 0 .. runs /\ orphans \in 0 .. timeouts
  /\ replies \in Seq({"success", "failure"})
  /\ timeouts \in 0 .. runs /\ misreports \in 0 .. runs
  /\ pubErrors \in 0 .. runs /\ lostReplies \in 0 .. attempt + 2

(* The action takes effect more than once only if a run was abandoned, or  *)
(* reported an error it should not have, or its result could not be        *)
(* published: each of these accounts for at most one more.                 *)
EffectsAccounted ==
  effects + orphans <= timeouts + misreports + pubErrors +
    (IF pc \in {"publish", "success"} THEN 1 ELSE 0)

(* The caller and the response stream agree: a success returned is backed  *)
(* by an effect and is the last response, a failure is the last response,  *)
(* and any other response stems from a reply that was lost.                *)
AnswerIsTrue ==
  /\ pc = "success" => /\ effects > 0 /\ replies # << >>
                       /\ replies[Len(replies)] = "success"
  /\ pc = "failure" => replies # << >> /\ replies[Len(replies)] = "failure"
  /\ Len(replies) = lostReplies + (IF pc \in {"success", "failure"} THEN 1 ELSE 0)

(* What the caller and the response stream are told is what took effect.   *)
AnswersMatchEffects == EffectsAccounted /\ AnswerIsTrue

(* Whatever tools and the vault do, a call ends: only a vault that never   *)
(* answers, the one call without a timeout, holds it up for ever.          *)
Ends == <>(pc \in Final) \/ <>[](pc = "credential")

=============================================================================
