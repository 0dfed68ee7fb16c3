---------------------------- MODULE AgentRegistry ----------------------------
(***************************************************************************)
(* The agent registry of IronClaw (ironclaw/src/agent_registry.rs): it     *)
(* registers agents, restarts an agent whose sandbox misses three health   *)
(* checks in a row, declares it dead at the third restart, and kills       *)
(* agents on request.                                                      *)
(*                                                                         *)
(* Every operation takes &mut self, so one runs at a time; the sandboxes   *)
(* live outside (trait SandboxProvider) and die, hang or refuse on their   *)
(* own.  A provider's answer is any the trait allows.                      *)
(***************************************************************************)
EXTENDS Naturals

CONSTANTS Agents,
          MaxFailures,   \* 3 consecutive failures trigger a restart
          MaxRestarts,   \* the 3rd restart attempt is the last
          MaxLive        \* bound: sandboxes of one agent alive at once

ASSUME RegistryAssumption ==
  /\ MaxFailures \in Nat \ {0}
  /\ MaxRestarts \in Nat \ {0}
  /\ MaxLive \in Nat \ {0}

VARIABLES
  status,      \* [Agents -> {"absent"} \cup AgentStatus]
  fails,       \* consecutive_failures
  restarts,    \* restart_attempts
  live,        \* number of the agent's sandboxes running
  \* history, never read by the code
  missed,      \* health checks missed in a row, across restarts
  provisions,  \* sandboxes provisioned since the agent was registered
  refused,     \* restarts whose provision failed since it was registered
  stuck,       \* terminate calls that left a sandbox running
  told         \* deaths reported to SHIELD and the admin since registered

counters == <<fails, restarts>>
history == <<missed, provisions, refused, told>>
vars == <<status, counters, live, history, stuck>>

AgentStatus == {"Healthy", "Degraded", "Dead"}
Registered(a) == status[a] # "absent"

Init ==
  /\ status = [a \in Agents |-> "absent"]
  /\ fails = [a \in Agents |-> 0]
  /\ restarts = [a \in Agents |-> 0]
  /\ live = [a \in Agents |-> 0]
  /\ missed = [a \in Agents |-> 0]
  /\ provisions = [a \in Agents |-> 0]
  /\ refused = [a \in Agents |-> 0]
  /\ stuck = [a \in Agents |-> 0]
  /\ told = [a \in Agents |-> 0]

-----------------------------------------------------------------------------
(* The provider's three calls *)

ProvisionOk(a) == live[a] < MaxLive /\ live' = [live EXCEPT ![a] = @ + 1]

\* terminate destroys the sandbox, or fails and leaves what runs running
Terminate(a) ==
  \/ live' = [live EXCEPT ![a] = 0] /\ UNCHANGED stuck
  \/ /\ live[a] > 0 /\ stuck[a] < MaxLive
     /\ stuck' = [stuck EXCEPT ![a] = @ + 1]
     /\ UNCHANGED live

Misses(a) == missed' = [missed EXCEPT ![a] = @ + 1]

-----------------------------------------------------------------------------
(* register_agent: a failed provision leaves the registry as it was        *)
RegisterAgent(a) ==
  /\ ~Registered(a)
  /\ ProvisionOk(a)
  /\ status' = [status EXCEPT ![a] = "Healthy"]
  /\ fails' = [fails EXCEPT ![a] = 0]
  /\ restarts' = [restarts EXCEPT ![a] = 0]
  /\ missed' = [missed EXCEPT ![a] = 0]
  /\ provisions' = [provisions EXCEPT ![a] = 1]
  /\ refused' = [refused EXCEPT ![a] = 0]
  /\ told' = [told EXCEPT ![a] = 0]
  /\ UNCHANGED stuck

(* health_check of an agent that is registered and not dead *)
Checked(a) == Registered(a) /\ status[a] # "Dead"

CheckHealthy(a) ==
  /\ Checked(a) /\ live[a] > 0
  /\ status' = [status EXCEPT ![a] = "Healthy"]
  /\ fails' = [fails EXCEPT ![a] = 0]
  /\ missed' = [missed EXCEPT ![a] = 0]
  /\ UNCHANGED <<restarts, live, provisions, refused, told, stuck>>

\* mutant: the failure that reaches the threshold is forgiven
CheckDegradedLate(a) ==
  /\ Checked(a)
  /\ fails[a] < MaxFailures
  /\ fails' = [fails EXCEPT ![a] = @ + 1]
  /\ status' = [status EXCEPT ![a] = "Degraded"]
  /\ Misses(a)
  /\ UNCHANGED <<restarts, live, provisions, refused, told, stuck>>

CheckDegraded(a) ==
  /\ Checked(a)
  /\ fails[a] + 1 < MaxFailures
  /\ fails' = [fails EXCEPT ![a] = @ + 1]
  /\ status' = [status EXCEPT ![a] = "Degraded"]
  /\ Misses(a)
  /\ UNCHANGED <<restarts, live, provisions, refused, told, stuck>>

\* mutant: a restart is not counted
ThirdFailureUncounted(a) ==
  /\ Checked(a)
  /\ fails[a] + 1 >= MaxFailures
  /\ fails' = [fails EXCEPT ![a] = 0]
  /\ UNCHANGED restarts
  /\ Misses(a)

\* the third failure in a row: the result of terminate is ignored
ThirdFailure(a) ==
  /\ Checked(a)
  /\ fails[a] + 1 >= MaxFailures
  /\ fails' = [fails EXCEPT ![a] = 0]
  /\ restarts' = [restarts EXCEPT ![a] = @ + 1]
  /\ Misses(a)

CheckDead(a) ==
  /\ ThirdFailure(a)
  /\ restarts[a] + 1 >= MaxRestarts
  /\ Terminate(a)
  /\ status' = [status EXCEPT ![a] = "Dead"]
  /\ told' = [told EXCEPT ![a] = @ + 1]
  /\ UNCHANGED <<provisions, refused>>

\* mutant: the restart does not terminate the old sandbox
CheckRestartedBeside(a) ==
  /\ ThirdFailure(a)
  /\ restarts[a] + 1 < MaxRestarts
  /\ ProvisionOk(a)
  /\ status' = [status EXCEPT ![a] = "Healthy"]
  /\ provisions' = [provisions EXCEPT ![a] = @ + 1]
  /\ UNCHANGED <<refused, told, stuck>>

\* terminate and provision in one call: the sandbox that would not die and
\* the new one may both run
CheckRestarted(a) ==
  /\ ThirdFailure(a)
  /\ restarts[a] + 1 < MaxRestarts
  /\ \/ live' = [live EXCEPT ![a] = 1] /\ UNCHANGED stuck
     \/ /\ 0 < live[a] /\ live[a] < MaxLive /\ stuck[a] < MaxLive
        /\ live' = [live EXCEPT ![a] = @ + 1]
        /\ stuck' = [stuck EXCEPT ![a] = @ + 1]
  /\ status' = [status EXCEPT ![a] = "Healthy"]
  /\ provisions' = [provisions EXCEPT ![a] = @ + 1]
  /\ UNCHANGED <<refused, told>>

CheckRestartFailed(a) ==
  /\ ThirdFailure(a)
  /\ restarts[a] + 1 < MaxRestarts
  /\ Terminate(a)
  /\ status' = [status EXCEPT ![a] = "Degraded"]
  /\ refused' = [refused EXCEPT ![a] = @ + 1]
  /\ UNCHANGED <<provisions, told>>

\* mutant: a dead agent is still checked and may come back
HealthCheckOfDead(a) ==
  \/ /\ status[a] = "Dead" /\ live[a] > 0
     /\ status' = [status EXCEPT ![a] = "Healthy"]
     /\ UNCHANGED <<counters, live, history, stuck>>
  \/ CheckHealthy(a)
  \/ CheckDegraded(a)
  \/ CheckDead(a)
  \/ CheckRestarted(a)
  \/ CheckRestartFailed(a)

HealthCheck(a) ==
  \/ CheckHealthy(a)
  \/ CheckDegraded(a)
  \/ CheckDead(a)
  \/ CheckRestarted(a)
  \/ CheckRestartFailed(a)

(* kill_agent: whatever terminate answers within five seconds, the agent   *)
(* leaves the registry; on an error or a timeout its sandbox may live on.  *)
KillAgent(a) ==
  /\ Registered(a)
  /\ Terminate(a)
  /\ status' = [status EXCEPT ![a] = "absent"]
  /\ fails' = [fails EXCEPT ![a] = 0]
  /\ restarts' = [restarts EXCEPT ![a] = 0]
  /\ missed' = [missed EXCEPT ![a] = 0]
  /\ provisions' = [provisions EXCEPT ![a] = 0]
  /\ refused' = [refused EXCEPT ![a] = 0]
  /\ told' = [told EXCEPT ![a] = 0]

\* environment: a sandbox ends on its own
SandboxDies(a) ==
  /\ live[a] > 0
  /\ live' = [live EXCEPT ![a] = @ - 1]
  /\ UNCHANGED <<status, counters, history, stuck>>

Next == \E a \in Agents :
  RegisterAgent(a) \/ HealthCheck(a) \/ KillAgent(a) \/ SandboxDies(a)

Spec == Init /\ [][Next]_vars

-----------------------------------------------------------------------------
(* Each counter stays below its threshold: a u8 that is reset or turns the *)
(* agent dead before it could ever exceed it.                              *)
TypeOK ==
  /\ status \in [Agents -> {"absent"} \cup AgentStatus]
  /\ fails \in [Agents -> 0 .. MaxFailures - 1]
  /\ restarts \in [Agents -> 0 .. MaxRestarts]
  /\ live \in [Agents -> 0 .. MaxLive]
  /\ missed \in [Agents -> Nat]
  /\ provisions \in [Agents -> Nat]
  /\ refused \in [Agents -> Nat]
  /\ stuck \in [Agents -> Nat]
  /\ told \in [Agents -> Nat]

(* An agent that keeps missing health checks is given up in time: the      *)
(* checks missed in a row never exceed what the two counters account for,  *)
(* so the MaxFailures * MaxRestarts-th finds it dead, however the restarts *)
(* in between went.                                                        *)
DeadInTime ==
  \A a \in Agents :
    /\ missed[a] <= MaxFailures * restarts[a] + fails[a]
    /\ missed[a] >= MaxFailures * MaxRestarts => status[a] = "Dead"

(* Dead and only dead agents have used up their restarts, and a death is   *)
(* reported exactly once.                                                  *)
DeadIffExhausted ==
  \A a \in Agents :
    /\ status[a] = "Dead" <=> restarts[a] = MaxRestarts
    /\ told[a] = IF status[a] = "Dead" THEN 1 ELSE 0

(* A registration consumes a bounded number of sandboxes: the first and    *)
(* one per restart short of the last, a refused one included.              *)
ProvisionBudget ==
  \A a \in Agents : Registered(a) =>
    provisions[a] + refused[a] =
      IF status[a] = "Dead" THEN MaxRestarts ELSE restarts[a] + 1

(* Two sandboxes of an agent run side by side, or one without a            *)
(* registration, only where the provider failed to terminate the older.    *)
OneSandboxUnlessStuck ==
  \A a \in Agents :
    live[a] <= stuck[a] + (IF Registered(a) THEN 1 ELSE 0)

(* The sandboxes of an agent are accounted for, however its restarts and   *)
(* terminations went.                                                      *)
SandboxesAccounted == ProvisionBudget /\ OneSandboxUnlessStuck

-----------------------------------------------------------------------------
(* "Dead: 3 restart failures": an agent is declared dead only after that   *)
(* many attempts to restart it have failed.                                *)
DeadAfterFailedRestarts ==
  \A a \in Agents : status[a] = "Dead" => refused[a] >= MaxRestarts
=============================================================================
