--------------------------- MODULE IronClawProofs ---------------------------
(***************************************************************************)
(* Proofs about the parts of the IronClaw process that MCIronClaw puts     *)
(* side by side: the agent registry, the credential vault, the sandbox,    *)
(* the API gateway and the encoding of payloads.  Each part has an         *)
(* inductive invariant of its own; a step of another part leaves all its   *)
(* variables alone.                                                        *)
(***************************************************************************)
EXTENDS MCIronClaw, VectorProofs

allVars == <<part, vars, gatewayVars, vaultVars, sandboxVars, codecVars>>

-----------------------------------------------------------------------------
(* The agent registry.                                                     *)

\* the strengthening: the two counters and the status move together
RegistryInv == TypeOK /\ DeadIffExhausted

(* The invariant holds when the registry starts.                           *)
LEMMA RegistryInit == Init => RegistryInv
BY RegistryAssumption
   DEF RegistryAssumption, AgentStatus, Registered, Init, RegistryInv, TypeOK,
       DeadIffExhausted

(* Every step of the registry keeps it.                                    *)
LEMMA RegistryStepKeeps == RegistryInv /\ [Next]_vars => RegistryInv'
<1> USE RegistryAssumption
    DEF RegistryAssumption, AgentStatus, Registered, counters, history
<1> SUFFICES ASSUME RegistryInv, [Next]_vars PROVE RegistryInv'
  OBVIOUS
<1> USE DEF RegistryInv, TypeOK, DeadIffExhausted
<1>1. ASSUME NEW a \in Agents, Terminate(a)
      PROVE  live' \in [Agents -> 0 .. MaxLive] /\ stuck' \in [Agents -> Nat]
  BY <1>1 DEF Terminate
<1>2. ASSUME NEW a \in Agents, ProvisionOk(a)
      PROVE  live' \in [Agents -> 0 .. MaxLive]
  BY <1>2 DEF ProvisionOk
<1>3. ASSUME NEW a \in Agents, ThirdFailure(a)
      PROVE  /\ fails' \in [Agents -> 0 .. MaxFailures - 1]
             /\ restarts' \in [Agents -> 0 .. MaxRestarts]
             /\ missed' \in [Agents -> Nat]
             /\ status[a] # "Dead" /\ restarts[a] < MaxRestarts
             /\ restarts' = [restarts EXCEPT ![a] = @ + 1]
  <2>1. restarts[a] \in 0 .. MaxRestarts /\ restarts[a] # MaxRestarts
        /\ status[a] # "Dead"
    BY <1>3 DEF ThirdFailure, Checked
  <2>2. QED BY <1>3, <2>1 DEF ThirdFailure, Misses
<1>4. ASSUME NEW a \in Agents, RegisterAgent(a) PROVE RegistryInv'
  BY <1>4, <1>2 DEF RegisterAgent
<1>5. ASSUME NEW a \in Agents, HealthCheck(a) PROVE RegistryInv'
  <2>1. CASE CheckHealthy(a)
    BY <2>1 DEF CheckHealthy, Checked
  <2>2. CASE CheckDegraded(a)
    BY <2>2 DEF CheckDegraded, Misses, Checked
  <2>3. CASE CheckDead(a)
    BY <2>3, <1>1, <1>3 DEF CheckDead
  <2>4. CASE CheckRestarted(a)
    <3>1. live' \in [Agents -> 0 .. MaxLive] /\ stuck' \in [Agents -> Nat]
      BY <2>4 DEF CheckRestarted
    <3>2. QED BY <2>4, <3>1, <1>3 DEF CheckRestarted
  <2>5. CASE CheckRestartFailed(a)
    BY <2>5, <1>1, <1>3 DEF CheckRestartFailed
  <2>6. QED BY <1>5, <2>1, <2>2, <2>3, <2>4, <2>5 DEF HealthCheck
<1>6. ASSUME NEW a \in Agents, KillAgent(a) PROVE RegistryInv'
  BY <1>6, <1>1 DEF KillAgent
<1>7. ASSUME NEW a \in Agents, SandboxDies(a) PROVE RegistryInv'
  BY <1>7 DEF SandboxDies
<1>8. CASE UNCHANGED vars
  BY <1>8 DEF vars
<1>9. QED BY <1>4, <1>5, <1>6, <1>7, <1>8 DEF Next

(* Every counter stays below its threshold, a dead agent is one that has   *)
(* used up its restarts, and its death was reported once.                  *)
THEOREM RegistryCorrect == Spec => [](TypeOK /\ DeadIffExhausted)
<1>1. QED BY RegistryInit, RegistryStepKeeps, PTL DEF Spec, RegistryInv

(* A step of the process is one of the registry or leaves it alone.        *)
LEMMA PartsStepOfRegistry == [PartsNext]_allVars => [Next]_vars
BY DEF PartsNext, allVars

-----------------------------------------------------------------------------
(* An agent that misses MaxFailures * MaxRestarts checks in a row is dead, *)
(* whatever its restarts did in between.                                   *)

\* the arithmetic of MaxFailures * restarts
LEMMA Product ==
  ASSUME NEW m \in Nat \ {0}, NEW n \in Nat, NEW r \in 0 .. n, NEW f \in 0 .. m - 1
  PROVE  /\ m * (r + 1) = m * r + m
         /\ r < n => m * r + f < m * n
<1>1. m * (r + 1) = m * r + m
  OBVIOUS
<1>2. ASSUME r < n PROVE m * r + f < m * n
  <2>1. PICK k \in Nat : n = r + 1 + k
    <3>1. n - r - 1 \in Nat /\ n = r + 1 + (n - r - 1)
      BY <1>2
    <3>2. QED BY <3>1
  <2>2. m * n = m * (r + 1) + m * k /\ m * k \in Nat
    BY <2>1
  <2>3. QED BY <1>1, <2>2
<1>3. QED BY <1>1, <1>2

Accounted(a) == missed[a] <= MaxFailures * restarts[a] + fails[a]

(* DeadInTime: an agent that misses MaxFailures * MaxRestarts checks in a  *)
(* row is dead, whatever its restarts did in between.                      *)
THEOREM GivenUpInTime == Spec => []DeadInTime
<1> USE RegistryAssumption
    DEF RegistryAssumption, AgentStatus, Registered, counters, history
<1>1. Init => \A a \in Agents : Accounted(a)
  <2>1. MaxFailures * 0 = 0
    OBVIOUS
  <2>2. Init => \A a \in Agents : missed[a] = 0 /\ restarts[a] = 0 /\ fails[a] = 0
    BY DEF Init
  <2>3. ASSUME Init, NEW a \in Agents PROVE Accounted(a)
    <3>1. MaxFailures * restarts[a] = 0
      BY <2>1, <2>2, <2>3
    <3>2. missed[a] = 0 /\ fails[a] = 0
      BY <2>2, <2>3
    <3>3. QED BY ONLY <3>1, <3>2 DEF Accounted
  <2>4. QED BY <2>3
<1>2. RegistryInv /\ (\A a \in Agents : Accounted(a)) /\ [Next]_vars
        => (\A a \in Agents : Accounted(a))'
  <2> SUFFICES ASSUME RegistryInv, \A a \in Agents : Accounted(a), [Next]_vars,
                      NEW b \in Agents
               PROVE  Accounted(b)'
    OBVIOUS
  <2> USE DEF RegistryInv, TypeOK
  <2>1. ASSUME missed'[b] = missed[b], fails'[b] = fails[b],
               restarts'[b] = restarts[b]
        PROVE  Accounted(b)'
    BY <2>1 DEF Accounted
  <2>2. ASSUME missed'[b] = 0, restarts'[b] \in Nat, fails'[b] \in Nat
        PROVE  Accounted(b)'
    <3>1. MaxFailures * restarts'[b] \in Nat
      BY <2>2
    <3>2. QED BY <2>2, <3>1 DEF Accounted
  <2>3. ASSUME NEW a \in Agents, RegisterAgent(a) \/ KillAgent(a)
        PROVE  Accounted(b)'
    <3>1. CASE a = b
      <4>1. missed'[b] = 0 /\ restarts'[b] = 0 /\ fails'[b] = 0
        BY <2>3, <3>1 DEF RegisterAgent, KillAgent
      <4>2. QED BY <2>2, <4>1
    <3>2. CASE a # b
      BY <2>1, <2>3, <3>2 DEF RegisterAgent, KillAgent
    <3>3. QED BY <3>1, <3>2
  <2>4. ASSUME NEW a \in Agents, CheckHealthy(a) PROVE Accounted(b)'
    <3>1. CASE a = b
      <4>1. missed'[b] = 0 /\ restarts'[b] = restarts[b] /\ fails'[b] = 0
        BY <2>4, <3>1 DEF CheckHealthy
      <4>2. QED BY <2>2, <4>1
    <3>2. CASE a # b
      BY <2>1, <2>4, <3>2 DEF CheckHealthy
    <3>3. QED BY <3>1, <3>2
  <2>5. ASSUME NEW a \in Agents, CheckDegraded(a) PROVE Accounted(b)'
    <3>1. CASE a = b
      <4>1. /\ missed'[b] = missed[b] + 1 /\ restarts'[b] = restarts[b]
            /\ fails'[b] = fails[b] + 1
        BY <2>5, <3>1 DEF CheckDegraded, Misses
      <4>2. /\ missed[b] \in Nat /\ fails[b] \in Nat
            /\ MaxFailures * restarts[b] \in Nat
        OBVIOUS
      <4>3. QED BY <4>1, <4>2 DEF Accounted
    <3>2. CASE a # b
      BY <2>1, <2>5, <3>2 DEF CheckDegraded, Misses
    <3>3. QED BY <3>1, <3>2
  <2>6. ASSUME NEW a \in Agents, ThirdFailure(a) PROVE Accounted(b)'
    <3>1. CASE a = b
      <4>1. /\ missed'[b] = missed[b] + 1 /\ restarts'[b] = restarts[b] + 1
            /\ fails'[b] = 0
        BY <2>6, <3>1 DEF ThirdFailure, Misses
      <4>2. /\ missed[b] \in Nat /\ fails[b] \in 0 .. MaxFailures - 1
            /\ restarts[b] \in 0 .. MaxRestarts
            /\ MaxFailures * restarts[b] \in Nat
        OBVIOUS
      <4>3. MaxFailures * (restarts[b] + 1) = MaxFailures * restarts[b] + MaxFailures
        BY <4>2, Product
      <4>4. QED BY <4>1, <4>2, <4>3 DEF Accounted
    <3>2. CASE a # b
      BY <2>1, <2>6, <3>2 DEF ThirdFailure, Misses
    <3>3. QED BY <3>1, <3>2
  <2>7. ASSUME NEW a \in Agents, SandboxDies(a) PROVE Accounted(b)'
    BY <2>1, <2>7 DEF SandboxDies
  <2>8. CASE UNCHANGED vars
    BY <2>1, <2>8 DEF vars
  <2>9. QED
    BY <2>3, <2>4, <2>5, <2>6, <2>7, <2>8
       DEF Next, HealthCheck, CheckDead, CheckRestarted, CheckRestartFailed
<1>3. RegistryInv /\ (\A a \in Agents : Accounted(a)) => DeadInTime
  <2> SUFFICES ASSUME RegistryInv, \A a \in Agents : Accounted(a),
                      NEW a \in Agents, missed[a] >= MaxFailures * MaxRestarts
               PROVE  status[a] = "Dead"
    BY DEF DeadInTime, Accounted
  <2>1. /\ restarts[a] \in 0 .. MaxRestarts /\ fails[a] \in 0 .. MaxFailures - 1
        /\ missed[a] \in Nat
        /\ restarts[a] < MaxRestarts \/ status[a] = "Dead"
    BY DEF RegistryInv, TypeOK, DeadIffExhausted
  <2>2. missed[a] <= MaxFailures * restarts[a] + fails[a]
    BY DEF Accounted
  <2>3. MaxFailures * restarts[a] \in Nat /\ MaxFailures * MaxRestarts \in Nat
    BY <2>1
  <2>4. restarts[a] < MaxRestarts =>
          MaxFailures * restarts[a] + fails[a] < MaxFailures * MaxRestarts
    BY <2>1, Product
  <2>5. QED BY <2>1, <2>2, <2>3, <2>4
<1>4. QED
  BY <1>1, <1>2, <1>3, RegistryCorrect, PTL DEF Spec, RegistryInv

-----------------------------------------------------------------------------
(* SandboxesAccounted: a registration consumes the first sandbox and one   *)
(* per restart short of the last, and two of an agent's sandboxes run      *)
(* side by side only where terminate failed to end the older.              *)
THEOREM SandboxesBounded == Spec => []SandboxesAccounted
<1> USE RegistryAssumption
    DEF RegistryAssumption, AgentStatus, Registered, counters, history
<1> USE DEF SandboxesAccounted, ProvisionBudget, OneSandboxUnlessStuck
<1>1. Init => SandboxesAccounted
  BY DEF Init
<1>2. RegistryInv /\ SandboxesAccounted /\ [Next]_vars => SandboxesAccounted'
  <2> SUFFICES ASSUME RegistryInv, SandboxesAccounted, [Next]_vars
               PROVE  SandboxesAccounted'
    OBVIOUS
  <2> USE DEF RegistryInv, TypeOK, DeadIffExhausted
  <2>1. ASSUME NEW a \in Agents, Terminate(a)
        PROVE  /\ live' \in [Agents -> 0 .. MaxLive] /\ stuck' \in [Agents -> Nat]
               /\ \A b \in Agents \ {a} : live'[b] = live[b] /\ stuck'[b] = stuck[b]
               /\ live'[a] <= stuck'[a]
    <3>1. live[a] <= stuck[a] + 1
      OBVIOUS
    <3>2. QED BY <2>1, <3>1 DEF Terminate
  <2>2. ASSUME NEW a \in Agents, RegisterAgent(a) PROVE SandboxesAccounted'
    BY <2>2 DEF RegisterAgent, ProvisionOk
  <2>3. ASSUME NEW a \in Agents, ThirdFailure(a)
        PROVE  /\ status[a] # "Dead" /\ Registered(a)
               /\ restarts[a] < MaxRestarts
               /\ restarts' = [restarts EXCEPT ![a] = @ + 1]
               /\ provisions[a] + refused[a] = restarts[a] + 1
    <3>1. status[a] # "Dead" /\ restarts[a] \in 0 .. MaxRestarts
          /\ restarts[a] # MaxRestarts /\ Registered(a)
      BY <2>3 DEF ThirdFailure, Checked
    <3>2. QED BY <2>3, <3>1 DEF ThirdFailure
  <2>4. ASSUME NEW a \in Agents, CheckHealthy(a) \/ CheckDegraded(a)
        PROVE  SandboxesAccounted'
    BY <2>4 DEF CheckHealthy, CheckDegraded, Checked
  <2>5. ASSUME NEW a \in Agents, CheckDead(a) PROVE SandboxesAccounted'
    <3>1. restarts[a] + 1 = MaxRestarts
      BY <2>3, <2>5 DEF CheckDead
    <3>2. ProvisionBudget'
      BY <2>3, <2>5, <3>1 DEF CheckDead
    <3>3. OneSandboxUnlessStuck'
      BY <2>1, <2>3, <2>5 DEF CheckDead
    <3>4. QED BY <3>2, <3>3
  <2>6. ASSUME NEW a \in Agents, CheckRestarted(a) PROVE SandboxesAccounted'
    <3>1. ProvisionBudget'
      BY <2>3, <2>6 DEF CheckRestarted
    <3>2. OneSandboxUnlessStuck'
      BY <2>3, <2>6 DEF CheckRestarted
    <3>3. QED BY <3>1, <3>2
  <2>7. ASSUME NEW a \in Agents, CheckRestartFailed(a) PROVE SandboxesAccounted'
    <3>1. ProvisionBudget'
      BY <2>3, <2>7 DEF CheckRestartFailed
    <3>2. OneSandboxUnlessStuck'
      BY <2>1, <2>3, <2>7 DEF CheckRestartFailed
    <3>3. QED BY <3>1, <3>2
  <2>8. ASSUME NEW a \in Agents, KillAgent(a) PROVE SandboxesAccounted'
    BY <2>1, <2>8 DEF KillAgent
  <2>9. ASSUME NEW a \in Agents, SandboxDies(a) PROVE SandboxesAccounted'
    BY <2>9 DEF SandboxDies
  <2>10. CASE UNCHANGED vars
    BY <2>10 DEF vars
  <2>11. QED
    BY <2>2, <2>4, <2>5, <2>6, <2>7, <2>8, <2>9, <2>10 DEF Next, HealthCheck
<1>3. QED
  BY <1>1, <1>2, RegistryCorrect, PTL DEF Spec, RegistryInv

-----------------------------------------------------------------------------
(* The credential vault.                                                   *)

(* A rotation is dated no later than the clock.                            *)
RotationsPast ==
  \A s \in Secrets :
    /\ Len(rotations[s]) <= MaxVersions
    /\ \A i \in 1 .. Len(rotations[s]) : rotations[s][i] <= time

(* A token of version v of secret s could be given out until t only if v   *)
(* was the current version a lifetime before t.                            *)
NotAfterRetired(s, v, t) ==
  /\ v <= Len(rotations[s])
  /\ v < Len(rotations[s]) => t <= rotations[s][v + 1]

(* What the cache holds was derived for the key it is under, from a value  *)
(* that was the secret's when its lifetime began, or later.                *)
CacheFresh ==
  \A k \in DOMAIN token_cache :
    /\ k \in Agents \X Secrets
    /\ k[2] \in Owned[k[1]]
    /\ \E v \in 0 .. MaxVersions, t \in 0 .. time :
         /\ token_cache[k] = [key |-> k, version |-> v, expires_at |-> t + MaxTtl]
         /\ NotAfterRetired(k[2], v, t)

(* The same of the request in progress, once the backend has read the      *)
(* secret.                                                                 *)
RequestFresh ==
  request # NoOne =>
    /\ request \in [key : Agents \X Secrets, now : 0 .. time,
                    version : 0 .. MaxVersions \cup {NoOne}]
    /\ request.key[2] \in Owned[request.key[1]]
    /\ request.version # NoOne =>
         NotAfterRetired(request.key[2], request.version, request.now)

VaultInv ==
  /\ time \in 0 .. EndOfTime
  /\ rotations \in [Secrets -> Seq(Nat)]
  /\ served # NoOne => served \in
       [key : Agents \X Secrets, started : Nat, at : Nat, token : Vault!ScopedTokens]
  /\ RotationsPast /\ CacheFresh /\ RequestFresh /\ ServedIsFresh

(* The vault's constants.                                                  *)
LEMMA VaultConstants ==
  /\ Owned \in [Agents -> SUBSET Secrets]
  /\ MaxTtl \in Nat \ {0} /\ EndOfTime \in Nat /\ MaxVersions \in Nat
BY PartsConstants DEF Vault!VaultAssumption

(* The invariant holds when the vault starts.                              *)
LEMMA VaultInit == Vault!Init => VaultInv
<1> SUFFICES ASSUME Vault!Init PROVE VaultInv
  OBVIOUS
<1>1. \A s \in Secrets : rotations[s] = << >>
  BY DEF Vault!Init
<1>2. rotations \in [Secrets -> Seq(Nat)]
  BY DEF Vault!Init
<1>3. RotationsPast
  BY <1>1, VaultConstants DEF RotationsPast
<1>4. time \in 0 .. EndOfTime /\ CacheFresh /\ RequestFresh /\ ServedIsFresh
  BY VaultConstants
     DEF Vault!Init, CacheFresh, RequestFresh, ServedIsFresh, Vault!ServedIsFresh
<1>5. QED BY <1>2, <1>3, <1>4 DEF VaultInv, Vault!Init

(* A token as the cache holds it is a token of the type.                   *)
LEMMA CachedIsToken ==
  ASSUME VaultInv, NEW k \in DOMAIN token_cache
  PROVE  /\ token_cache[k] \in Vault!ScopedTokens
         /\ token_cache[k].key = k
<1>1. PICK v \in 0 .. MaxVersions, t \in 0 .. time :
        token_cache[k] = [key |-> k, version |-> v, expires_at |-> t + MaxTtl]
  BY DEF VaultInv, CacheFresh
<1>2. k \in Agents \X Secrets /\ t + MaxTtl \in Nat
  BY VaultConstants DEF VaultInv, CacheFresh
<1>3. QED BY <1>1, <1>2 DEF Vault!ScopedTokens, Vault!Keys

(* Nothing but the clock or served changed: what the cache holds and what  *)
(* a request carries stays fresh.                                          *)
LEMMA VaultFrame ==
  ASSUME VaultInv, time' \in 0 .. EndOfTime, time <= time',
         UNCHANGED rotations
  PROVE  /\ RotationsPast'
         /\ UNCHANGED token_cache => CacheFresh'
         /\ UNCHANGED request => RequestFresh'
<1>1. \A t : t \in 0 .. time => t \in 0 .. time'
  BY DEF VaultInv
<1>2. \A s, v, t : NotAfterRetired(s, v, t)' = NotAfterRetired(s, v, t)
  BY DEF NotAfterRetired
<1>3. RotationsPast'
  <2> SUFFICES ASSUME NEW s \in Secrets, NEW i \in 1 .. Len(rotations[s])
      PROVE Len(rotations[s]) <= MaxVersions /\ rotations[s][i] <= time'
    BY DEF RotationsPast, VaultInv
  <2>1. rotations[s][i] \in Nat /\ rotations[s][i] <= time
    BY ElementOfSeq DEF VaultInv, RotationsPast
  <2>2. QED BY <2>1 DEF VaultInv, RotationsPast
<1>4. UNCHANGED token_cache => CacheFresh'
  BY <1>1, <1>2 DEF VaultInv, CacheFresh
<1>5. UNCHANGED request => RequestFresh'
  BY <1>1, <1>2 DEF VaultInv, RequestFresh
<1>6. QED BY <1>3, <1>4, <1>5

(* A step that returns nothing and leaves the clock and the rotations.     *)
LEMMA VaultQuiet ==
  ASSUME VaultInv, served' = NoOne, UNCHANGED <<time, rotations>>,
         CacheFresh', RequestFresh'
  PROVE  VaultInv'
<1>1. RotationsPast' /\ ServedIsFresh'
  BY DEF VaultInv, RotationsPast, ServedIsFresh, Vault!ServedIsFresh
<1>2. QED BY <1>1 DEF VaultInv

(* A cached token that has not expired is fresh for who asks now.          *)
LEMMA FromCacheKeeps ==
  ASSUME VaultInv, NEW a \in Agents, NEW s \in Secrets, Vault!FromCache(a, s)
  PROVE  VaultInv'
<1> DEFINE k == <<a, s>>
<1>0. /\ k \in DOMAIN token_cache /\ ~(time >= token_cache[k].expires_at)
      /\ s \in Owned[a]
      /\ served' = [key |-> k, started |-> time, at |-> time, token |-> token_cache[k]]
      /\ UNCHANGED <<time, rotations, token_cache, request>>
  BY DEF Vault!FromCache, Vault!Valid, Vault!is_expired_at, Vault!Serve,
         Vault!check_authorization
<1>1. RotationsPast' /\ CacheFresh' /\ RequestFresh'
  BY <1>0, VaultFrame DEF VaultInv
<1>2. token_cache[k] \in Vault!ScopedTokens
  BY <1>0, CachedIsToken
<1>3. PICK v \in 0 .. MaxVersions, t \in 0 .. time :
        /\ token_cache[k] = [key |-> k, version |-> v, expires_at |-> t + MaxTtl]
        /\ NotAfterRetired(s, v, t)
  BY <1>0 DEF VaultInv, CacheFresh
<1>4. v < Len(rotations[s]) => time < rotations[s][v + 1] + MaxTtl
  <2> SUFFICES ASSUME v < Len(rotations[s])
               PROVE  time < rotations[s][v + 1] + MaxTtl
    OBVIOUS
  <2>1. v + 1 \in 1 .. Len(rotations[s]) /\ rotations[s] \in Seq(Nat)
    BY DEF VaultInv
  <2>2. rotations[s][v + 1] \in Nat
    BY <2>1, ElementOfSeq
  <2>3. t <= rotations[s][v + 1]
    BY <1>3 DEF NotAfterRetired
  <2>4. token_cache[k].expires_at = t + MaxTtl
    BY <1>3
  <2>5. ~(time >= t + MaxTtl) /\ time \in Nat /\ t \in Nat
    BY <1>0, <2>4 DEF VaultInv
  <2>6. QED BY <2>2, <2>3, <2>5, VaultConstants
<1>5. ServedIsFresh'
  <2>1. ~(time >= token_cache[k].expires_at)
    BY <1>0
  <2>2. QED BY <1>0, <1>3, <1>4, <2>1
         DEF ServedIsFresh, Vault!ServedIsFresh, Vault!Retired, Vault!check_authorization
<1>6. served' \in [key : Agents \X Secrets, started : Nat, at : Nat, token : Vault!ScopedTokens]
  BY <1>0, <1>2 DEF VaultInv
<1>7. QED BY <1>0, <1>1, <1>5, <1>6 DEF VaultInv

(* The answer of the backend, whenever it arrives, was the secret's value  *)
(* when the token's lifetime began or later.                               *)
LEMMA IssueKeeps ==
  ASSUME VaultInv, Vault!Issue
  PROVE  VaultInv'
<1> DEFINE k == request.key
           token == [key |-> k, version |-> request.version,
                     expires_at |-> request.now + MaxTtl]
<1>0. /\ request # NoOne /\ request.version # NoOne
      /\ token_cache' = [j \in DOMAIN token_cache \cup {k} |->
                           IF j = k THEN token ELSE token_cache[j]]
      /\ served' = [key |-> k, started |-> request.now, at |-> time, token |-> token]
      /\ request' = NoOne
      /\ UNCHANGED <<time, rotations>>
  BY DEF Vault!Issue, Vault!Token, Vault!Serve
<1>1. /\ k \in Agents \X Secrets /\ request.version \in 0 .. MaxVersions
      /\ request.now \in 0 .. time /\ k[2] \in Owned[k[1]]
      /\ NotAfterRetired(k[2], request.version, request.now)
  BY <1>0 DEF VaultInv, RequestFresh
<1>2. \A s, v, t : NotAfterRetired(s, v, t)' = NotAfterRetired(s, v, t)
  BY <1>0 DEF NotAfterRetired
<1>3. CacheFresh'
  <2> SUFFICES ASSUME NEW j \in DOMAIN token_cache'
      PROVE /\ j \in Agents \X Secrets
            /\ j[2] \in Owned[j[1]]
            /\ \E v \in 0 .. MaxVersions, t \in 0 .. time :
                 /\ token_cache'[j] = [key |-> j, version |-> v, expires_at |-> t + MaxTtl]
                 /\ NotAfterRetired(j[2], v, t)
    BY <1>0, <1>2 DEF CacheFresh
  <2>1. CASE j = k
    BY <1>0, <1>1, <2>1
  <2>2. CASE j # k
    BY <1>0, <2>2 DEF VaultInv, CacheFresh
  <2>3. QED BY <2>1, <2>2
<1>4. RotationsPast' /\ RequestFresh'
  BY <1>0, VaultFrame DEF VaultInv, RequestFresh
<1>5. token \in Vault!ScopedTokens
  BY <1>1, VaultConstants DEF Vault!ScopedTokens, Vault!Keys, VaultInv
<1>6. request.version < Len(rotations[k[2]]) =>
        request.now < rotations[k[2]][request.version + 1] + MaxTtl
  <2> SUFFICES ASSUME request.version < Len(rotations[k[2]])
               PROVE  request.now < rotations[k[2]][request.version + 1] + MaxTtl
    OBVIOUS
  <2>1. /\ request.version + 1 \in 1 .. Len(rotations[k[2]])
        /\ rotations[k[2]] \in Seq(Nat)
    BY <1>1 DEF VaultInv
  <2>2. rotations[k[2]][request.version + 1] \in Nat
    BY <2>1, ElementOfSeq
  <2>3. request.now <= rotations[k[2]][request.version + 1]
    BY <1>1 DEF NotAfterRetired
  <2>4. QED BY SMTT(30), <1>1, <2>2, <2>3, VaultConstants DEF VaultInv
<1>7. ServedIsFresh'
  <2>1. time >= request.now + MaxTtl => time - request.now >= MaxTtl
    BY <1>1, VaultConstants DEF VaultInv
  <2>2. QED BY <1>0, <1>1, <1>6, <2>1
         DEF ServedIsFresh, Vault!ServedIsFresh, Vault!Retired, Vault!check_authorization
<1>8. served' \in [key : Agents \X Secrets, started : Nat, at : Nat, token : Vault!ScopedTokens]
  BY <1>0, <1>1, <1>5 DEF VaultInv
<1>9. QED BY <1>0, <1>3, <1>4, <1>7, <1>8 DEF VaultInv

(* A request reads the clock; the backend reads the current value later.   *)
LEMMA AskReadKeeps ==
  ASSUME VaultInv,
         Vault!ReadSecret \/ \E a \in Agents, s \in Secrets : Vault!Ask(a, s)
  PROVE  VaultInv'
<1>0. served' = NoOne /\ UNCHANGED <<time, rotations, token_cache>>
  BY DEF Vault!ReadSecret, Vault!Ask
<1>1. CacheFresh'
  BY <1>0, VaultFrame DEF VaultInv
<1>2. CASE \E a \in Agents, s \in Secrets : Vault!Ask(a, s)
  <2>1. PICK a \in Agents, s \in Secrets : Vault!Ask(a, s)
    BY <1>2
  <2>2. request' = [key |-> <<a, s>>, now |-> time, version |-> NoOne] /\ s \in Owned[a]
    BY <2>1 DEF Vault!Ask, Vault!check_authorization
  <2>3. RequestFresh'
    BY <1>0, <2>2 DEF RequestFresh, VaultInv
  <2>4. QED BY <1>0, <1>1, <2>3, VaultQuiet
<1>3. CASE Vault!ReadSecret
  <2> DEFINE n == Len(rotations[request.key[2]])
  <2>1. request # NoOne /\ request' = [request EXCEPT !.version = n]
    BY <1>3 DEF Vault!ReadSecret
  <2>2. /\ request \in [key : Agents \X Secrets, now : 0 .. time,
                        version : 0 .. MaxVersions \cup {NoOne}]
        /\ request.key[2] \in Owned[request.key[1]]
    BY <2>1 DEF VaultInv, RequestFresh
  <2>3. n \in 0 .. MaxVersions
    BY <2>2, LenProperties DEF VaultInv, RotationsPast
  <2>4. NotAfterRetired(request.key[2], n, request.now)'
    BY <1>0, <2>1, <2>2, <2>3 DEF NotAfterRetired
  <2>5. RequestFresh'
    BY <1>0, <2>1, <2>2, <2>3, <2>4 DEF RequestFresh, NotAfterRetired
  <2>6. QED BY <1>0, <1>1, <2>5, VaultQuiet
<1>4. QED BY <1>2, <1>3

(* A value that is replaced was current until now.                         *)
LEMMA RotateKeeps ==
  ASSUME VaultInv, NEW s \in Secrets, Vault!Rotate(s)
  PROVE  VaultInv'
<1>0. /\ Len(rotations[s]) < MaxVersions
      /\ rotations' = [rotations EXCEPT ![s] = Append(@, time)]
      /\ served' = NoOne
      /\ UNCHANGED <<time, token_cache, request>>
  BY DEF Vault!Rotate
<1>1. rotations[s] \in Seq(Nat) /\ Len(rotations[s]) \in Nat /\ time \in Nat
  BY LenProperties DEF VaultInv
<1>2. /\ rotations' \in [Secrets -> Seq(Nat)]
      /\ Len(rotations'[s]) = Len(rotations[s]) + 1
      /\ rotations'[s][Len(rotations[s]) + 1] = time
      /\ \A i \in 1 .. Len(rotations[s]) : rotations'[s][i] = rotations[s][i]
      /\ \A r \in Secrets : r # s => rotations'[r] = rotations[r]
  <2>1. rotations'[s] = Append(rotations[s], time)
    BY <1>0 DEF VaultInv
  <2>2. QED BY <1>0, <1>1, <2>1, AppendProperties DEF VaultInv
<1>3. RotationsPast'
  <2> SUFFICES ASSUME NEW r \in Secrets, NEW i \in 1 .. Len(rotations'[r])
      PROVE rotations'[r][i] <= time
    BY <1>0, <1>1, <1>2, VaultConstants DEF RotationsPast, VaultInv
  <2>1. CASE r # s
    BY <1>1, <1>2, <2>1 DEF VaultInv, RotationsPast
  <2>2. CASE r = s /\ i = Len(rotations[s]) + 1
    BY <1>1, <1>2, <2>2
  <2>3. CASE r = s /\ i \in 1 .. Len(rotations[s])
    BY <1>1, <1>2, <2>3 DEF VaultInv, RotationsPast
  <2>4. QED BY <1>1, <1>2, <2>1, <2>2, <2>3
<1>4. ASSUME NEW r \in Secrets, NEW v \in Nat, NEW t \in 0 .. time,
             NotAfterRetired(r, v, t)
      PROVE  NotAfterRetired(r, v, t)'
  <2>1. CASE r # s
    BY <1>2, <1>4, <2>1 DEF NotAfterRetired
  <2>2. CASE r = s /\ v = Len(rotations[s])
    BY <1>1, <1>2, <2>2 DEF NotAfterRetired
  <2>3. CASE r = s /\ v < Len(rotations[s])
    <3>1. v + 1 \in 1 .. Len(rotations[s]) /\ v + 1 \in 1 .. Len(rotations'[s])
      BY <1>1, <1>2, <2>3
    <3>2. rotations'[s][v + 1] = rotations[s][v + 1]
      BY <1>2, <3>1
    <3>3. t <= rotations[s][v + 1]
      BY <1>4, <2>3 DEF NotAfterRetired
    <3>4. v <= Len(rotations'[s])
      BY <1>1, <1>2, <2>3
    <3>5. QED BY <2>3, <3>2, <3>3, <3>4 DEF NotAfterRetired
  <2>4. QED BY <1>1, <1>4, <2>1, <2>2, <2>3 DEF NotAfterRetired
<1>5. CacheFresh'
  <2> SUFFICES ASSUME NEW k \in DOMAIN token_cache
      PROVE /\ k \in Agents \X Secrets
            /\ k[2] \in Owned[k[1]]
            /\ \E v \in 0 .. MaxVersions, t \in 0 .. time :
                 /\ token_cache[k] = [key |-> k, version |-> v, expires_at |-> t + MaxTtl]
                 /\ NotAfterRetired(k[2], v, t)'
    BY <1>0 DEF CacheFresh, NotAfterRetired
  <2>1. PICK v \in 0 .. MaxVersions, t \in 0 .. time :
          /\ token_cache[k] = [key |-> k, version |-> v, expires_at |-> t + MaxTtl]
          /\ NotAfterRetired(k[2], v, t)
    BY DEF VaultInv, CacheFresh
  <2>2. k \in Agents \X Secrets /\ k[2] \in Owned[k[1]]
    BY DEF VaultInv, CacheFresh
  <2>3. NotAfterRetired(k[2], v, t)'
    BY <1>4, <2>1, <2>2, VaultConstants
  <2>4. QED BY <2>1, <2>2, <2>3
<1>6. RequestFresh'
  <2> SUFFICES ASSUME request # NoOne, request.version # NoOne
      PROVE NotAfterRetired(request.key[2], request.version, request.now)'
    BY <1>0 DEF RequestFresh, VaultInv, NotAfterRetired
  <2>1. /\ request.key[2] \in Secrets /\ request.version \in Nat /\ request.now \in 0 .. time
        /\ NotAfterRetired(request.key[2], request.version, request.now)
    BY VaultConstants DEF RequestFresh, VaultInv
  <2>2. QED BY <1>0, <1>4, <2>1 DEF NotAfterRetired
<1>7. ServedIsFresh'
  BY <1>0 DEF ServedIsFresh, Vault!ServedIsFresh
<1>8. QED BY <1>0, <1>2, <1>3, <1>5, <1>6, <1>7 DEF VaultInv

(* Every step of the vault keeps its invariant.                            *)
LEMMA VaultStepKeeps == VaultInv /\ [Vault!Next]_vaultVars => VaultInv'
<1> SUFFICES ASSUME VaultInv, [Vault!Next]_vaultVars PROVE VaultInv'
  OBVIOUS
<1>1. CASE UNCHANGED vaultVars
  BY <1>1 DEF vaultVars, VaultInv, RotationsPast, CacheFresh, RequestFresh,
              NotAfterRetired, ServedIsFresh, Vault!ServedIsFresh, Vault!Retired
<1>2. ASSUME NEW a \in Agents, NEW s \in Secrets, Vault!Refuse(a, s)
      PROVE  VaultInv'
  <2>1. served' = NoOne /\ UNCHANGED <<time, rotations, token_cache, request>>
    BY <1>2 DEF Vault!Refuse
  <2>2. CacheFresh' /\ RequestFresh'
    BY <2>1, VaultFrame DEF VaultInv
  <2>3. QED BY <2>1, <2>2, VaultQuiet
<1>3. CASE Vault!Fail
  <2>1. served' = NoOne /\ request' = NoOne /\ UNCHANGED <<time, rotations, token_cache>>
    BY <1>3 DEF Vault!Fail
  <2>2. CacheFresh' /\ RequestFresh'
    BY <2>1, VaultFrame DEF VaultInv, RequestFresh
  <2>3. QED BY <2>1, <2>2, VaultQuiet
<1>4. CASE Vault!evict_expired_tokens
  <2> DEFINE valid == {k \in DOMAIN token_cache : Vault!Valid(k, time)}
  <2>1. /\ served' = NoOne /\ UNCHANGED <<time, rotations, request>>
        /\ token_cache' = [k \in valid |-> token_cache[k]]
    BY <1>4 DEF Vault!evict_expired_tokens
  <2>2. RequestFresh'
    BY <2>1, VaultFrame DEF VaultInv
  <2>3. \A s, v, t : NotAfterRetired(s, v, t)' = NotAfterRetired(s, v, t)
    BY <2>1 DEF NotAfterRetired
  <2>4. CacheFresh'
    BY <2>1, <2>3 DEF VaultInv, CacheFresh
  <2>5. QED BY <2>1, <2>2, <2>4, VaultQuiet
<1>5. CASE Vault!Tick
  <2>1. /\ time' = time + 1 /\ time < EndOfTime /\ served' = NoOne
        /\ UNCHANGED <<rotations, token_cache, request>>
    BY <1>5 DEF Vault!Tick
  <2>2. time' \in 0 .. EndOfTime /\ time <= time'
    BY <2>1, VaultConstants DEF VaultInv
  <2>3. RotationsPast' /\ CacheFresh' /\ RequestFresh'
    BY <2>1, <2>2, VaultFrame
  <2>4. ServedIsFresh'
    BY <2>1 DEF ServedIsFresh, Vault!ServedIsFresh
  <2>5. QED BY <2>1, <2>2, <2>3, <2>4 DEF VaultInv
<1>6. QED
  BY <1>1, <1>2, <1>3, <1>4, <1>5, FromCacheKeeps, IssueKeeps, AskReadKeeps, RotateKeeps
     DEF Vault!Next, Vault!request_credential

(* A step of the process is one of the vault or leaves the vault alone.    *)
LEMMA PartsStepOfVault == [PartsNext]_allVars => [Vault!Next]_vaultVars
BY DEF PartsNext, allVars

(* MCIronClaw's ServedIsFresh for all agents, secrets, owners, lifetimes   *)
(* and numbers of rotations: an agent gets a live token of its own for a   *)
(* secret it owns (request_credential), and a lifetime after a rotation    *)
(* never one of the old value.                                             *)
THEOREM TokensAreFresh == PartsSpec => []ServedIsFresh
<1>1. PartsInit => VaultInv
  BY VaultInit DEF PartsInit
<1>2. VaultInv /\ [PartsNext]_allVars => VaultInv'
  BY VaultStepKeeps, PartsStepOfVault
<1>3. VaultInv => ServedIsFresh
  BY DEF VaultInv
<1>4. QED BY <1>1, <1>2, <1>3, PTL DEF PartsSpec, allVars

-----------------------------------------------------------------------------
(* The sandbox.                                                            *)

(* What is wanted of the usage is inductive once the store of a terminated *)
(* sandbox is known to be empty.                                           *)
SandboxInv ==
  /\ Sandbox!TypeOK /\ UsageIsExact
  /\ terminated => fuel = 0

(* The sandbox's constants.                                                *)
LEMMA SandboxConstants ==
  /\ FuelLimit \in Nat \ {0} /\ MaxPages \in Nat \ {0}
  /\ AllPages \in Nat /\ MaxPages < AllPages /\ MaxCalls \in Nat
  /\ Sandbox!Cap \in 1 .. AllPages
BY PartsConstants DEF Sandbox!SandboxAssumption, Sandbox!Cap

(* One call more raises the bound on all the fuel burnt by one limit.      *)
LEMMA OneCallMore ==
  ASSUME NEW l \in Nat, NEW n \in Nat, NEW b \in Nat, NEW s \in 0 .. l,
         b <= l * (n + 1)
  PROVE  b + s <= l * ((n + 1) + 1)
<1> DEFINE m == n + 1
<1>1. m \in Nat
  OBVIOUS
<1>2. l * (m + 1) = l * m + l
  BY <1>1
<1>3. l * m \in Nat
  BY <1>1
<1> HIDE DEF m
<1>4. b + s <= l * (m + 1)
  <2> DEFINE p == l * m
  <2>1. b <= p
    BY DEF m
  <2>2. p \in Nat
    BY <1>3
  <2>3. l * (m + 1) = p + l
    BY <1>2
  <2> HIDE DEF p
  <2>4. QED BY <2>1, <2>2, <2>3
<1>5. QED BY <1>4 DEF m

(* The invariant holds when a sandbox is created, with what a start        *)
(* function burns of the first limit.                                      *)
LEMMA SandboxInit == Sandbox!Init => SandboxInv
<1> SUFFICES ASSUME Sandbox!Init PROVE SandboxInv
  OBVIOUS
<1>1. /\ shape \in Sandbox!Shapes /\ pages = 1 /\ fuel \in 0 .. FuelLimit
      /\ burnt = FuelLimit - fuel /\ fuel_consumed = 0 /\ memory_used = 0
      /\ terminated = FALSE /\ result = "new" /\ calls = 0
  BY DEF Sandbox!Init
<1>2. Sandbox!TypeOK
  <2>1. /\ 0 \in Nat /\ 0 \in 0 .. AllPages /\ 0 \in 0 .. MaxCalls
        /\ 1 \in 1 .. Sandbox!Cap /\ FuelLimit - fuel \in Nat
    BY <1>1, SandboxConstants
  <2>2. "new" \in Sandbox!Results /\ FALSE \in BOOLEAN
    BY DEF Sandbox!Results
  <2>3. QED BY <1>1, <2>1, <2>2 DEF Sandbox!TypeOK
<1>3. FuelLimit * (calls + 1) = FuelLimit
  BY <1>1, SandboxConstants
<1>4. UsageIsExact
  BY <1>1, <1>3, SandboxConstants
     DEF UsageIsExact, Sandbox!UsageIsExact, Sandbox!resource_usage
<1>5. QED BY <1>1, <1>2, <1>4 DEF SandboxInv

(* The invariant with its bounds written out.                              *)
LEMMA SandboxFacts ==
  ASSUME SandboxInv
  PROVE  /\ fuel \in 0 .. FuelLimit /\ fuel_consumed \in Nat /\ burnt \in Nat
         /\ pages \in 1 .. Sandbox!Cap /\ memory_used \in 0 .. AllPages
         /\ calls \in 0 .. MaxCalls
         /\ ~terminated => burnt = fuel_consumed + (FuelLimit - fuel)
         /\ burnt >= fuel_consumed /\ burnt <= fuel_consumed + FuelLimit
         /\ burnt <= FuelLimit * (calls + 1)
         /\ memory_used <= pages
         /\ (result = "Ok" /\ Sandbox!has_memory) => memory_used = pages
BY DEF SandboxInv, Sandbox!TypeOK, UsageIsExact, Sandbox!UsageIsExact,
       Sandbox!resource_usage

(* A call that ends before the guest runs: the store is full again, and    *)
(* what had been missing from it is counted.                               *)
LEMMA RejectedKeeps ==
  ASSUME SandboxInv, NEW r \in Sandbox!Results \ {"Ok"}, Sandbox!Rejected(r)
  PROVE  SandboxInv'
<1>0. /\ ~terminated /\ fuel_consumed' = fuel_consumed + (FuelLimit - fuel)
      /\ fuel' = FuelLimit /\ result' = r
      /\ UNCHANGED <<shape, pages, memory_used, terminated, burnt, calls>>
  BY DEF Sandbox!Rejected, Sandbox!Refuel
<1>1. fuel_consumed' = burnt /\ FuelLimit - FuelLimit = 0
  BY <1>0, SandboxFacts, SandboxConstants
<1>2. Sandbox!TypeOK'
  BY <1>0, <1>1, SandboxFacts, SandboxConstants
     DEF SandboxInv, Sandbox!TypeOK, Sandbox!Cap
<1>3. UsageIsExact'
  <2>1. burnt' = fuel_consumed' + (FuelLimit - fuel')
    BY <1>0, <1>1, SandboxFacts, SandboxConstants
  <2>2. burnt' >= fuel_consumed' /\ burnt' <= fuel_consumed' + FuelLimit
    BY <1>0, <1>1, SandboxFacts, SandboxConstants
  <2>3. burnt' <= FuelLimit * (calls' + 1) /\ memory_used' <= pages' /\ result' # "Ok"
    BY <1>0, SandboxFacts
  <2>4. QED BY <2>1, <2>2, <2>3
         DEF UsageIsExact, Sandbox!UsageIsExact, Sandbox!resource_usage
<1>4. QED BY <1>0, <1>2, <1>3 DEF SandboxInv

(* A call that reaches the guest, whether it traps or returns.             *)
LEMMA RunKeeps ==
  ASSUME SandboxInv,
         NEW length, NEW spent \in 0 .. FuelLimit, NEW grown \in pages .. AllPages,
         Sandbox!Run(length, spent, grown),
         result' \in Sandbox!Results,
         \/ result' # "Ok" /\ UNCHANGED memory_used
         \/ memory_used' = IF Sandbox!has_memory THEN grown ELSE memory_used
  PROVE  SandboxInv'
<1>0. /\ ~terminated /\ calls < MaxCalls
      /\ fuel_consumed' = fuel_consumed + (FuelLimit - fuel)
      /\ fuel' = FuelLimit - spent /\ burnt' = burnt + spent
      /\ pages' = grown /\ grown <= Sandbox!Cap /\ calls' = calls + 1
      /\ UNCHANGED <<shape, terminated>>
  BY DEF Sandbox!Run, Sandbox!Refuel
<1>1. fuel_consumed' = burnt /\ spent \in Nat /\ spent <= FuelLimit
  BY <1>0, SandboxFacts, SandboxConstants
<1>2. memory_used' \in 0 .. AllPages /\ memory_used' <= pages'
  BY <1>0, SandboxFacts, SandboxConstants
<1>3. Sandbox!Cap' = Sandbox!Cap /\ (Sandbox!has_memory' <=> Sandbox!has_memory)
  BY <1>0 DEF Sandbox!Cap, Sandbox!has_memory
<1>4. Sandbox!TypeOK'
  <2>1. pages' \in 1 .. Sandbox!Cap /\ fuel' \in 0 .. FuelLimit /\ calls' \in 0 .. MaxCalls
    BY <1>0, SandboxFacts, SandboxConstants
  <2>2. fuel_consumed' \in Nat /\ burnt' \in Nat
    BY <1>0, <1>1, SandboxFacts
  <2>3. shape' \in Sandbox!Shapes /\ terminated' \in BOOLEAN
    BY <1>0 DEF SandboxInv, Sandbox!TypeOK
  <2>4. QED BY <1>2, <1>3, <2>1, <2>2, <2>3 DEF Sandbox!TypeOK
<1>5. burnt' <= FuelLimit * (calls' + 1)
  <2>1. burnt + spent <= FuelLimit * ((calls + 1) + 1)
    BY OneCallMore, SandboxFacts, SandboxConstants
  <2>2. QED BY <1>0, <2>1
<1>6. UsageIsExact'
  <2>1. burnt' = fuel_consumed' + (FuelLimit - fuel')
    BY <1>0, <1>1, SandboxFacts, SandboxConstants
  <2>2. burnt' >= fuel_consumed' /\ burnt' <= fuel_consumed' + FuelLimit
    BY <1>0, <1>1, SandboxFacts, SandboxConstants
  <2>3. (result' = "Ok" /\ Sandbox!has_memory') => memory_used' = pages'
    BY <1>0, <1>3
  <2>4. QED BY <1>2, <1>5, <2>1, <2>2, <2>3
         DEF UsageIsExact, Sandbox!UsageIsExact, Sandbox!resource_usage
<1>7. QED BY <1>0, <1>4, <1>6 DEF SandboxInv

(* Every step of the sandbox keeps its invariant.                          *)
LEMMA SandboxStepKeeps == SandboxInv /\ [Sandbox!Next]_sandboxVars => SandboxInv'
<1> SUFFICES ASSUME SandboxInv, [Sandbox!Next]_sandboxVars PROVE SandboxInv'
  OBVIOUS
<1>1. CASE UNCHANGED sandboxVars
  BY <1>1 DEF sandboxVars, SandboxInv, Sandbox!TypeOK, Sandbox!Cap, UsageIsExact,
              Sandbox!UsageIsExact, Sandbox!resource_usage, Sandbox!has_memory
<1>2. CASE \E r \in Sandbox!Results \ {"Ok"} : Sandbox!Rejected(r)
  BY <1>2, RejectedKeeps
<1>3. ASSUME NEW length \in 0 .. MaxPages, NEW spent \in 0 .. FuelLimit,
             NEW grown \in pages .. AllPages, Sandbox!Trapped(length, spent, grown)
      PROVE  SandboxInv'
  <2>1. /\ Sandbox!Run(length, spent, grown) /\ UNCHANGED memory_used
        /\ result' \in Sandbox!classify_trap(spent)
    BY <1>3 DEF Sandbox!Trapped
  <2>2. result' \in Sandbox!Results /\ result' # "Ok"
    BY <2>1 DEF Sandbox!classify_trap, Sandbox!Results
  <2>3. QED BY <2>1, <2>2, RunKeeps
<1>4. ASSUME NEW length \in 0 .. MaxPages, NEW spent \in 0 .. FuelLimit,
             NEW grown \in pages .. AllPages, NEW output \in 0 .. AllPages,
             Sandbox!Returned(length, spent, grown, output)
      PROVE  SandboxInv'
  <2>1. /\ Sandbox!Run(length, spent, grown) /\ result' = Sandbox!Output(output)
        /\ memory_used' = IF Sandbox!has_memory THEN grown ELSE memory_used
    BY <1>4 DEF Sandbox!Returned
  <2>2. result' \in Sandbox!Results
    BY <2>1 DEF Sandbox!Output, Sandbox!Results
  <2>3. QED BY <2>1, <2>2, RunKeeps
<1>5. CASE Sandbox!ExecuteTerminated
  <2>1. /\ result' = "Terminated"
        /\ UNCHANGED <<shape, pages, fuel, fuel_consumed, memory_used, terminated,
                       burnt, calls>>
    BY <1>5 DEF Sandbox!ExecuteTerminated
  <2>2. QED BY <2>1 DEF SandboxInv, Sandbox!TypeOK, Sandbox!Cap, UsageIsExact,
              Sandbox!UsageIsExact, Sandbox!resource_usage, Sandbox!Results
<1>6. CASE Sandbox!terminate
  <2>1. /\ terminated' = TRUE /\ fuel' = 0
        /\ UNCHANGED <<shape, pages, fuel_consumed, memory_used, result, burnt, calls>>
    BY <1>6 DEF Sandbox!terminate
  <2>2. Sandbox!TypeOK'
    BY <2>1, SandboxConstants DEF SandboxInv, Sandbox!TypeOK, Sandbox!Cap
  <2>3. UsageIsExact'
    BY <2>1 DEF SandboxInv, UsageIsExact, Sandbox!UsageIsExact,
                Sandbox!resource_usage, Sandbox!has_memory
  <2>4. QED BY <2>1, <2>2, <2>3 DEF SandboxInv
<1>7. ASSUME Sandbox!execute PROVE SandboxInv'
  <2>1. CASE Sandbox!NotFound \/ \E length \in 0 .. AllPages : Sandbox!InputRefused(length)
    <3>1. \E r \in Sandbox!Results \ {"Ok"} : Sandbox!Rejected(r)
      BY <2>1 DEF Sandbox!NotFound, Sandbox!InputRefused, Sandbox!Results
    <3>2. QED BY <1>2, <3>1
  <2>2. QED BY <1>3, <1>4, <1>7, <2>1 DEF Sandbox!execute
<1>8. QED BY <1>1, <1>5, <1>6, <1>7 DEF Sandbox!Next

(* A step of the process is one of the sandbox or leaves it alone.         *)
LEMMA PartsStepOfSandbox == [PartsNext]_allVars => [Sandbox!Next]_sandboxVars
BY DEF PartsNext, allVars

(* MCIronClaw's UsageIsExact for every fuel limit, memory cap and number   *)
(* of calls: what resource_usage reports is what the guest used, whatever  *)
(* way its calls ended, but for the fuel of its last call.                 *)
THEOREM ReportedUsageIsExact == PartsSpec => []UsageIsExact
<1>1. PartsInit => SandboxInv
  BY SandboxInit DEF PartsInit
<1>2. SandboxInv /\ [PartsNext]_allVars => SandboxInv'
  BY SandboxStepKeeps, PartsStepOfSandbox
<1>3. SandboxInv => UsageIsExact
  BY DEF SandboxInv
<1>4. QED BY <1>1, <1>2, <1>3, PTL DEF PartsSpec, allVars

-----------------------------------------------------------------------------
(* The gateway's rate limiter.                                             *)

(* Waiting the whole seconds told and one more is waiting longer.          *)
LEMMA SecondLonger ==
  ASSUME NEW d \in Nat \ {0}, NEW x \in Nat
  PROVE  x < d * (x \div d) + d
<1>1. x = d * (x \div d) + (x % d) /\ x \div d \in Int
  OBVIOUS
<1>2. x % d < d /\ x % d \in Int
  OBVIOUS
<1>3. d * (x \div d) \in Int
  BY <1>1
<1>4. QED BY <1>1, <1>2, <1>3

(* More ticks per unit waited is no shorter.                               *)
LEMMA ProductGrows ==
  ASSUME NEW d \in Nat, NEW x \in Int, NEW y \in Int, x <= y
  PROVE  d * x <= d * y
OBVIOUS

(* A client's vector holds positions of its log, no more than the limit.   *)
KeptBounded ==
  \A c \in Clients :
    /\ kept[c] \subseteq 1 .. Len(log[c])
    /\ Cardinality(kept[c]) <= MaxRequests

(* While the checks of a client come in the order of their times, the      *)
(* vector holds every time of the log in the window of the latest check.   *)
KeptInOrder ==
  \A c \in Clients : ~overtaken[c] =>
    \A i \in 1 .. Len(log[c]) :
      /\ log[c][i] <= latest[c]
      /\ log[c][i] + Window > latest[c] => i \in kept[c]

(* The vector of a client refused last is full, and one of its times ends  *)
(* its window less than a second after the client was told to retry.       *)
RefusalExpires ==
  \A c \in Clients : refusedAt[c] # 0 =>
    /\ Cardinality(kept[c]) = MaxRequests
    /\ \E i \in kept[c] : log[c][i] + Window < promised[c] + Second

GatewayTyped ==
  /\ clock \in Nat
  /\ stage \in [Handlers -> {"idle", "check", "publish"}]
  /\ client \in [Handlers -> Clients]
  /\ now \in [Handlers -> Nat]
  /\ log \in [Clients -> Seq(Nat)]
  /\ kept \in [Clients -> SUBSET Nat]
  /\ answer \in {0, 202, 401, 429, 500}
  /\ latest \in [Clients -> Nat]
  /\ overtaken \in [Clients -> BOOLEAN]
  /\ refusedAt \in [Clients -> Nat]
  /\ promised \in [Clients -> Nat]

GatewayInv ==
  /\ GatewayTyped /\ KeptBounded /\ KeptInOrder /\ RefusalExpires
  /\ LimitUnlessOvertaken

(* The gateway's constants.                                                *)
LEMMA GatewayConstants ==
  /\ Tokens \subseteq [form : Gateway!Forms, sub : Clients, exp : Nat]
  /\ MaxRequests \in Nat \ {0} /\ Window \in Nat \ {0} /\ Second \in Nat \ {0}
  /\ Epoch \in Nat
BY PartsConstants DEF Gateway!GatewayAssumption

(* The gateway counts with the library's Cardinality.                      *)
LEMMA SameCardinality == \A S : Gateway!Cardinality(S) = Cardinality(S)
BY Zenon DEF Gateway!Cardinality, Cardinality

(* The invariant holds before the first request.                           *)
LEMMA GatewayInit == Gateway!Init => GatewayInv
<1> SUFFICES ASSUME Gateway!Init PROVE GatewayInv
  OBVIOUS
<1>1. GatewayTyped
  BY GatewayConstants DEF Gateway!Init, GatewayTyped
<1>2. \A c \in Clients : log[c] = << >> /\ kept[c] = {} /\ refusedAt[c] = 0
  BY DEF Gateway!Init
<1>3. KeptBounded /\ KeptInOrder /\ RefusalExpires
  <2>1. \A c \in Clients : 1 .. Len(log[c]) = {}
    BY <1>2
  <2>2. \A c \in Clients : Cardinality(kept[c]) = 0
    BY <1>2, FS_EmptySet
  <2>3. QED BY <1>2, <2>1, <2>2, GatewayConstants
         DEF KeptBounded, KeptInOrder, RefusalExpires
<1>4. LimitUnlessOvertaken
  BY <1>2 DEF LimitUnlessOvertaken, Gateway!LimitUnlessOvertaken
<1>5. QED BY <1>1, <1>3, <1>4 DEF GatewayInv

(* A step that leaves the limiter and the history alone.                   *)
LEMMA GatewayFrame ==
  ASSUME GatewayInv, GatewayTyped',
         UNCHANGED <<log, kept, latest, overtaken, refusedAt, promised>>
  PROVE  GatewayInv'
BY DEF GatewayInv, KeptBounded, KeptInOrder, RefusalExpires, LimitUnlessOvertaken,
       Gateway!LimitUnlessOvertaken, Gateway!InWindow

(* What a check keeps of the vector.                                       *)
LEMMA RetainedFacts ==
  ASSUME GatewayInv, NEW c \in Clients, NEW t \in Nat
  PROVE  /\ Gateway!Retained(c, t) = {i \in kept[c] : log[c][i] + Window > t}
         /\ Gateway!Retained(c, t) \subseteq kept[c]
         /\ kept[c] \subseteq 1 .. Len(log[c]) /\ Len(log[c]) \in Nat
         /\ \A i \in 1 .. Len(log[c]) : log[c][i] \in Nat
         /\ IsFiniteSet(kept[c]) /\ IsFiniteSet(Gateway!Retained(c, t))
         /\ Cardinality(kept[c]) \in Nat
         /\ Cardinality(Gateway!Retained(c, t)) \in Nat
         /\ Cardinality(Gateway!Retained(c, t)) <= Cardinality(kept[c])
         /\ Cardinality(kept[c]) <= MaxRequests
         /\ Cardinality(Gateway!Retained(c, t)) = Cardinality(kept[c])
              => Gateway!Retained(c, t) = kept[c]
<1> DEFINE R == Gateway!Retained(c, t)
<1>1. log[c] \in Seq(Nat)
  BY DEF GatewayInv, GatewayTyped
<1>2. Len(log[c]) \in Nat /\ \A i \in 1 .. Len(log[c]) : log[c][i] \in Nat
  BY <1>1, LenProperties, ElementOfSeq
<1>3. kept[c] \subseteq 1 .. Len(log[c]) /\ Cardinality(kept[c]) <= MaxRequests
  BY DEF GatewayInv, KeptBounded
<1>4. R = {i \in kept[c] : log[c][i] + Window > t}
  <2>1. \A i \in kept[c] : log[c][i] > t - Window <=> log[c][i] + Window > t
    BY <1>2, <1>3, GatewayConstants
  <2>2. QED BY <2>1 DEF Gateway!Retained
<1>5. R \subseteq kept[c]
  BY <1>4
<1>6. IsFiniteSet(1 .. Len(log[c]))
  BY <1>2, FS_Interval
<1>7. IsFiniteSet(kept[c])
  BY <1>3, <1>6, FS_Subset
<1> HIDE DEF R
<1>8. /\ IsFiniteSet(R) /\ Cardinality(R) <= Cardinality(kept[c])
      /\ Cardinality(R) = Cardinality(kept[c]) => R = kept[c]
  BY <1>5, <1>7, FS_Subset
<1>9. Cardinality(kept[c]) \in Nat /\ Cardinality(R) \in Nat
  BY <1>7, <1>8, FS_CardinalityType
<1>10. QED BY <1>2, <1>3, <1>4, <1>5, <1>7, <1>8, <1>9 DEF R

(* What the lock of the limiter covers, whatever the answer.               *)
LEMMA LockedFacts ==
  ASSUME GatewayInv, NEW h \in Handlers, NEW c \in Clients, Gateway!Locked(h, c)
  PROVE  /\ now[h] \in Nat
         /\ overtaken' \in [Clients -> BOOLEAN]
         /\ latest' \in [Clients -> Nat]
         /\ ~overtaken'[c] => /\ ~overtaken[c] /\ latest[c] <= now[h]
                              /\ latest'[c] = now[h]
         /\ \A d \in Clients : d # c =>
              overtaken'[d] = overtaken[d] /\ latest'[d] = latest[d]
<1>0. /\ overtaken' = [overtaken EXCEPT ![c] = @ \/ now[h] < latest[c]]
      /\ latest' = [latest EXCEPT ![c] = IF now[h] > @ THEN now[h] ELSE @]
  BY DEF Gateway!Locked
<1>1. /\ now[h] \in Nat /\ latest \in [Clients -> Nat]
      /\ overtaken \in [Clients -> BOOLEAN]
  BY DEF GatewayInv, GatewayTyped
<1>2. /\ overtaken' \in [Clients -> BOOLEAN]
      /\ overtaken'[c] = (overtaken[c] \/ now[h] < latest[c])
      /\ \A d \in Clients : d # c => overtaken'[d] = overtaken[d]
  BY <1>0, <1>1
<1>3. /\ latest' \in [Clients -> Nat]
      /\ latest'[c] = IF now[h] > latest[c] THEN now[h] ELSE latest[c]
      /\ \A d \in Clients : d # c => latest'[d] = latest[d]
  BY <1>0, <1>1
<1>4. ~overtaken'[c] => ~overtaken[c] /\ ~ (now[h] < latest[c])
  BY <1>2
<1>5. latest[c] \in Nat
  BY <1>1
<1>6. ~overtaken'[c] => latest[c] <= now[h] /\ latest'[c] = now[h]
  <2> SUFFICES ASSUME ~ (now[h] < latest[c])
      PROVE latest[c] <= now[h] /\ latest'[c] = now[h]
    BY <1>4
  <2> DEFINE l == latest[c]  n == now[h]
  <2>1. l \in Nat /\ n \in Nat /\ ~ (n < l)
    BY <1>1, <1>5
  <2> HIDE DEF l, n
  <2>2. l <= n /\ (IF n > l THEN n ELSE l) = n
    BY <2>1
  <2>3. QED BY <1>3, <2>2 DEF l, n
<1>7. QED BY <1>1, <1>2, <1>3, <1>4, <1>6

(* The time told a refused client lies less than a second before the       *)
(* oldest time the vector retains leaves the window.                       *)
LEMMA PromiseIsClose ==
  ASSUME GatewayInv, NEW c \in Clients, NEW t \in Nat,
         Gateway!Retained(c, t) # {}
  PROVE  /\ Gateway!RetryAfter(c, Gateway!Retained(c, t), t) \in Nat
         /\ \E i \in Gateway!Retained(c, t) :
              log[c][i] + Window
                < t + Second * Gateway!RetryAfter(c, Gateway!Retained(c, t), t) + Second
<1> DEFINE R == Gateway!Retained(c, t)
           o == Gateway!Oldest(R)
           x == log[c][o] + Window - t
           secs == x \div Second
           wait == Gateway!RetryAfter(c, R, t)
<1>1. R \in SUBSET Nat /\ R # {}
  <2>1. R \subseteq kept[c] /\ kept[c] \subseteq 1 .. Len(log[c]) /\ Len(log[c]) \in Nat
    BY RetainedFacts
  <2> HIDE DEF R
  <2>2. R \subseteq Nat
    BY <2>1
  <2>3. QED BY <2>2 DEF R
<1>2. o \in R
  <2>1. \E i \in R : \A j \in R : i <= j
    BY <1>1, LeastOf
  <2> HIDE DEF R
  <2>2. QED BY <2>1 DEF Gateway!Oldest
<1>3. log[c][o] \in Nat /\ log[c][o] + Window > t
  BY <1>2, RetainedFacts
<1>4. x \in Nat /\ x + t = log[c][o] + Window
  BY <1>3, GatewayConstants
<1>5. wait = IF secs > 1 THEN secs ELSE 1
  BY DEF Gateway!RetryAfter
<1> HIDE DEF x, o, R, wait
<1>6. x < Second * secs + Second
  BY <1>4, SecondLonger, GatewayConstants
<1>7. secs \in Int
  BY <1>4, GatewayConstants
<1> HIDE DEF secs
<1>8. wait \in Nat /\ secs <= wait
  BY <1>5, <1>7
<1>9. Second * secs <= Second * wait
  BY <1>7, <1>8, ProductGrows, GatewayConstants
<1>10. log[c][o] + Window < t + Second * wait + Second
  <2> DEFINE p == Second * secs  q == Second * wait
  <2>1. p \in Int /\ q \in Int
    BY <1>7, <1>8, GatewayConstants
  <2>2. x < p + Second /\ p <= q
    BY <1>6, <1>9
  <2> HIDE DEF p, q
  <2>3. log[c][o] + Window < t + q + Second
    BY <1>4, <2>1, <2>2, GatewayConstants
  <2>4. QED BY <2>3 DEF q
<1>11. QED BY <1>2, <1>8, <1>10 DEF R, wait

(* A refused request: the vector is full, and stays as it is but for the   *)
(* times that left the window.                                             *)
LEMMA RefuseKeeps ==
  ASSUME GatewayInv, NEW h \in Handlers, NEW c \in Clients, Gateway!Refuse(h, c)
  PROVE  GatewayInv'
<1> DEFINE t == now[h]
           R == Gateway!Retained(c, t)
           until == t + Second * Gateway!RetryAfter(c, R, t)
<1>0. /\ Cardinality(R) >= MaxRequests
      /\ kept' = [kept EXCEPT ![c] = R]
      /\ refusedAt' = [refusedAt EXCEPT ![c] = t]
      /\ promised' = [promised EXCEPT ![c] = until]
      /\ stage' = [stage EXCEPT ![h] = "idle"]
      /\ now' = [now EXCEPT ![h] = 0]
      /\ answer' = 429
      /\ UNCHANGED <<clock, client, log>>
  <2>1. Cardinality(R) >= MaxRequests
    BY SameCardinality DEF Gateway!Refuse
  <2>6. kept' = [kept EXCEPT ![c] = R]
    BY DEF Gateway!Refuse
  <2>7. refusedAt' = [refusedAt EXCEPT ![c] = t]
    BY DEF Gateway!Refuse
  <2>8. promised' = [promised EXCEPT ![c] = until]
    BY DEF Gateway!Refuse
  <2>9. Gateway!Leave(h) /\ Gateway!Locked(h, c) /\ UNCHANGED log
    BY DEF Gateway!Refuse
  <2>2. answer' = Gateway!StatusOf.RateLimit
    BY Zenon DEF Gateway!Refuse
  <2>3. Gateway!StatusOf.RateLimit = 429
    BY DEF Gateway!StatusOf
  <2> HIDE DEF R, until, t
  <2>4. UNCHANGED <<clock, client>> /\ stage' = [stage EXCEPT ![h] = "idle"]
        /\ now' = [now EXCEPT ![h] = 0]
    BY <2>9 DEF Gateway!Locked, Gateway!Leave
  <2>5. QED BY <2>1, <2>2, <2>3, <2>4, <2>6, <2>7, <2>8, <2>9
<1>1. /\ t \in Nat
      /\ overtaken' \in [Clients -> BOOLEAN] /\ latest' \in [Clients -> Nat]
      /\ ~overtaken'[c] => /\ ~overtaken[c] /\ latest[c] <= t /\ latest'[c] = t
      /\ \A d \in Clients : d # c =>
           overtaken'[d] = overtaken[d] /\ latest'[d] = latest[d]
  BY LockedFacts DEF Gateway!Refuse
<1>2. /\ R = {i \in kept[c] : log[c][i] + Window > t}
      /\ R \subseteq kept[c] /\ kept[c] \subseteq 1 .. Len(log[c])
      /\ \A i \in 1 .. Len(log[c]) : log[c][i] \in Nat
      /\ Cardinality(R) \in Nat /\ Cardinality(R) <= Cardinality(kept[c])
      /\ Cardinality(kept[c]) \in Nat /\ Cardinality(kept[c]) <= MaxRequests
  BY <1>1, RetainedFacts
<1>3. Cardinality(R) = MaxRequests /\ R # {}
  <2> HIDE DEF R
  <2>1. Cardinality(R) = MaxRequests
    BY <1>0, <1>2, GatewayConstants
  <2>2. QED BY <2>1, FS_EmptySet, GatewayConstants
<1>4. /\ Gateway!RetryAfter(c, R, t) \in Nat
      /\ \E i \in R : log[c][i] + Window < until + Second
  BY <1>1, <1>3, PromiseIsClose
<1>5. until \in Nat
  BY <1>1, <1>4, GatewayConstants
<1> HIDE DEF R, until, t
<1>6. GatewayTyped'
  <2>1. /\ kept' \in [Clients -> SUBSET Nat] /\ refusedAt' \in [Clients -> Nat]
        /\ promised' \in [Clients -> Nat]
    BY SMTT(30), <1>0, <1>1, <1>2, <1>5 DEF GatewayInv, GatewayTyped
  <2>2. QED BY SMTT(30), <1>0, <1>1, <2>1 DEF GatewayInv, GatewayTyped
<1>7. /\ kept'[c] = R /\ refusedAt'[c] = t /\ promised'[c] = until
      /\ \A d \in Clients : d # c =>
           /\ kept'[d] = kept[d] /\ refusedAt'[d] = refusedAt[d]
           /\ promised'[d] = promised[d]
  BY <1>0 DEF GatewayInv, GatewayTyped
<1>8. KeptBounded'
  BY <1>0, <1>2, <1>3, <1>7, GatewayConstants DEF GatewayInv, KeptBounded
<1>9. KeptInOrder'
  <2> SUFFICES ASSUME NEW d \in Clients, ~overtaken'[d], NEW i \in 1 .. Len(log[d])
      PROVE /\ log[d][i] <= latest'[d]
            /\ log[d][i] + Window > latest'[d] => i \in kept'[d]
    BY <1>0 DEF KeptInOrder
  <2>1. CASE d # c
    BY <1>1, <1>7, <2>1 DEF GatewayInv, KeptInOrder
  <2>2. CASE d = c
    <3>1. ~overtaken[c] /\ latest[c] <= t /\ latest'[c] = t
      BY <1>1, <2>2
    <3>2. /\ log[c][i] <= latest[c]
          /\ log[c][i] + Window > latest[c] => i \in kept[c]
      BY <2>2, <3>1 DEF GatewayInv, KeptInOrder
    <3>3. log[c][i] \in Nat /\ latest[c] \in Nat /\ Window \in Nat
      BY <1>2, <2>2, GatewayConstants DEF GatewayInv, GatewayTyped
    <3>4. log[c][i] <= t /\ (log[c][i] + Window > t => log[c][i] + Window > latest[c])
      BY <1>1, <3>1, <3>2, <3>3
    <3>5. QED BY <1>2, <1>7, <2>2, <3>1, <3>2, <3>4
  <2>3. QED BY <2>1, <2>2
<1>10. RefusalExpires'
  <2> SUFFICES ASSUME NEW d \in Clients, refusedAt'[d] # 0
      PROVE /\ Cardinality(kept'[d]) = MaxRequests
            /\ \E i \in kept'[d] : log[d][i] + Window < promised'[d] + Second
    BY <1>0 DEF RefusalExpires
  <2>1. CASE d # c
    BY <1>7, <2>1 DEF GatewayInv, RefusalExpires
  <2>2. CASE d = c
    BY <1>3, <1>4, <1>7, <2>2
  <2>3. QED BY <2>1, <2>2
<1>11. LimitUnlessOvertaken'
  <2>1. \A d \in Clients : ~overtaken'[d] => ~overtaken[d]
    BY <1>1
  <2>2. QED BY <1>0, <2>1 DEF GatewayInv, LimitUnlessOvertaken,
                Gateway!LimitUnlessOvertaken, Gateway!InWindow
<1>12. QED BY <1>6, <1>8, <1>9, <1>10, <1>11 DEF GatewayInv

(* An admitted request in order: its window holds what the vector retained *)
(* and itself, and the windows before it are as they were.                 *)
LEMMA AdmitWithinLimit ==
  ASSUME GatewayInv, NEW c \in Clients, NEW t \in Nat,
         ~overtaken[c], latest[c] <= t,
         Cardinality(Gateway!Retained(c, t)) < MaxRequests,
         log'[c] = Append(log[c], t),
         NEW i \in DOMAIN log'[c]
  PROVE  Cardinality(Gateway!InWindow(c, log[c][i])') <= MaxRequests
<1> DEFINE R == Gateway!Retained(c, t)
           n == Len(log[c]) + 1
           W(u) == {j \in 1 .. n : u < log'[c][j] + Window /\ log'[c][j] <= u}
<1>1. /\ R = {j \in kept[c] : log[c][j] + Window > t}
      /\ IsFiniteSet(R) /\ Cardinality(R) \in Nat
      /\ Len(log[c]) \in Nat /\ log[c] \in Seq(Nat)
      /\ \A j \in 1 .. Len(log[c]) : log[c][j] \in Nat
  <2>1. log[c] \in Seq(Nat)
    BY DEF GatewayInv, GatewayTyped
  <2> HIDE DEF W
  <2>2. QED BY <2>1, RetainedFacts
<1>2. /\ DOMAIN log'[c] = 1 .. n /\ log'[c][n] = t
      /\ \A j \in 1 .. Len(log[c]) : log'[c][j] = log[c][j]
  BY <1>1, AppendProperties
<1>3. \A j \in 1 .. n : log'[c][j] \in Nat
  BY <1>1, <1>2
<1>4. \A j \in 1 .. Len(log[c]) :
        /\ log[c][j] <= t
        /\ log[c][j] + Window > t => j \in R
  <2> SUFFICES ASSUME NEW j \in 1 .. Len(log[c])
      PROVE log[c][j] <= t /\ (log[c][j] + Window > t => j \in R)
    OBVIOUS
  <2>1. log[c][j] <= latest[c] /\ (log[c][j] + Window > latest[c] => j \in kept[c])
    BY DEF GatewayInv, KeptInOrder
  <2>2. log[c][j] \in Nat /\ latest[c] \in Nat /\ Window \in Nat
    BY <1>1, GatewayConstants DEF GatewayInv, GatewayTyped
  <2>3. QED BY SMTT(30), <1>1, <2>1, <2>2
<1> HIDE DEF R
<1>5. Cardinality(W(t)) <= MaxRequests
  <2>1. W(t) \subseteq R \cup {n}
    BY SMTT(30), <1>1, <1>2, <1>4, GatewayConstants
  <2>2. /\ IsFiniteSet(R \cup {n})
        /\ Cardinality(R \cup {n}) = IF n \in R THEN Cardinality(R) ELSE Cardinality(R) + 1
    BY <1>1, FS_AddElement
  <2> HIDE DEF W
  <2>3. IsFiniteSet(W(t)) /\ Cardinality(W(t)) <= Cardinality(R \cup {n})
    BY <2>1, <2>2, FS_Subset
  <2>4. Cardinality(R) < MaxRequests
    BY DEF R
  <2>5. Cardinality(W(t)) \in Nat
    BY <2>3, FS_CardinalityType
  <2>6. QED BY <1>1, <2>2, <2>3, <2>4, <2>5, GatewayConstants
<1>6. ASSUME NEW j \in 1 .. Len(log[c]), log[c][j] # t
      PROVE  Cardinality(W(log[c][j])) <= MaxRequests
  <2>1. log[c][j] < t
    BY <1>1, <1>4, <1>6
  <2>2. Gateway!InWindow(c, log[c][j]) =
          {k \in 1 .. Len(log[c]) : log[c][j] < log[c][k] + Window /\ log[c][k] <= log[c][j]}
    <3>1. DOMAIN log[c] = 1 .. Len(log[c])
      BY <1>1
    <3>2. \A k \in 1 .. Len(log[c]) :
            log[c][j] - Window < log[c][k] <=> log[c][j] < log[c][k] + Window
      <4> SUFFICES ASSUME NEW k \in 1 .. Len(log[c])
          PROVE log[c][j] - Window < log[c][k] <=> log[c][j] < log[c][k] + Window
        OBVIOUS
      <4>1. log[c][j] \in Nat /\ log[c][k] \in Nat
        BY <1>1
      <4>2. QED BY SMTT(30), <4>1, GatewayConstants
    <3>3. QED BY <3>1, <3>2 DEF Gateway!InWindow
  <2>3. W(log[c][j]) = Gateway!InWindow(c, log[c][j])
    BY SMTT(30), <1>1, <1>2, <2>1, <2>2
  <2>4. j \in DOMAIN log[c]
    BY <1>1
  <2>5. Gateway!Cardinality(Gateway!InWindow(c, log[c][j])) <= MaxRequests
    BY <2>4 DEF GatewayInv, LimitUnlessOvertaken, Gateway!LimitUnlessOvertaken
  <2>6. QED BY <2>3, <2>5, SameCardinality
<1>7. Gateway!InWindow(c, log[c][i])' = W(log'[c][i])
  <2>1. \A j \in 1 .. n : log'[c][i] - Window < log'[c][j] <=> log'[c][i] < log'[c][j] + Window
    BY SMTT(30), <1>2, <1>3, GatewayConstants
  <2>2. QED BY <1>2, <2>1 DEF Gateway!InWindow
<1>8. CASE log'[c][i] = t
  BY <1>5, <1>7, <1>8
<1>9. CASE log'[c][i] # t
  <2>1. i \in 1 .. Len(log[c]) /\ log'[c][i] = log[c][i]
    BY <1>1, <1>2, <1>9
  <2> HIDE DEF W
  <2>2. QED BY <1>6, <1>7, <1>9, <2>1
<1>10. QED BY <1>8, <1>9

(* An admitted request.                                                    *)
LEMMA AdmitKeeps ==
  ASSUME GatewayInv, NEW h \in Handlers, NEW c \in Clients, Gateway!Admit(h, c)
  PROVE  GatewayInv'
<1> DEFINE t == now[h]
           R == Gateway!Retained(c, t)
           n == Len(log[c]) + 1
<1>0. /\ Cardinality(R) < MaxRequests
      /\ kept' = [kept EXCEPT ![c] = R \cup {n}]
      /\ log' = [log EXCEPT ![c] = Append(log[c], t)]
      /\ refusedAt' = [refusedAt EXCEPT ![c] = 0]
      /\ promised' = [promised EXCEPT ![c] = 0]
      /\ stage' = [stage EXCEPT ![h] = "publish"]
      /\ UNCHANGED <<clock, client, now, answer>>
  <2>1. Cardinality(R) < MaxRequests
    BY SameCardinality DEF Gateway!Admit
  <2>2. QED BY <2>1 DEF Gateway!Admit, Gateway!Locked
<1>1. /\ t \in Nat
      /\ overtaken' \in [Clients -> BOOLEAN] /\ latest' \in [Clients -> Nat]
      /\ ~overtaken'[c] => /\ ~overtaken[c] /\ latest[c] <= t /\ latest'[c] = t
      /\ \A d \in Clients : d # c =>
           overtaken'[d] = overtaken[d] /\ latest'[d] = latest[d]
  BY LockedFacts DEF Gateway!Admit
<1>2. /\ R = {i \in kept[c] : log[c][i] + Window > t}
      /\ kept[c] \subseteq 1 .. Len(log[c]) /\ Len(log[c]) \in Nat
      /\ \A i \in 1 .. Len(log[c]) : log[c][i] \in Nat
      /\ Cardinality(R) \in Nat /\ IsFiniteSet(R)
  BY <1>1, RetainedFacts
<1> HIDE DEF R, t
<1>3. /\ log' \in [Clients -> Seq(Nat)]
      /\ log'[c] = Append(log[c], t) /\ Len(log'[c]) = n /\ log'[c][n] = t
      /\ \A i \in 1 .. Len(log[c]) : log'[c][i] = log[c][i]
      /\ \A d \in Clients : d # c => log'[d] = log[d]
  <2>1. log[c] \in Seq(Nat) /\ log \in [Clients -> Seq(Nat)]
    BY DEF GatewayInv, GatewayTyped
  <2>2. /\ Append(log[c], t) \in Seq(Nat) /\ Len(Append(log[c], t)) = n
        /\ Append(log[c], t)[n] = t
        /\ \A i \in 1 .. Len(log[c]) : Append(log[c], t)[i] = log[c][i]
    BY <1>1, <2>1, AppendProperties
  <2>3. log'[c] = Append(log[c], t) /\ log' \in [Clients -> Seq(Nat)]
        /\ \A d \in Clients : d # c => log'[d] = log[d]
    BY <1>0, <2>1, <2>2
  <2>4. QED BY <2>2, <2>3
<1>4. /\ kept'[c] = R \cup {n} /\ refusedAt'[c] = 0 /\ promised'[c] = 0
      /\ \A d \in Clients : d # c =>
           /\ kept'[d] = kept[d] /\ refusedAt'[d] = refusedAt[d]
           /\ promised'[d] = promised[d]
  BY <1>0 DEF GatewayInv, GatewayTyped
<1>5. GatewayTyped'
  <2>1. R \cup {n} \in SUBSET Nat
    BY <1>2
  <2>2. /\ kept' \in [Clients -> SUBSET Nat] /\ refusedAt' \in [Clients -> Nat]
        /\ promised' \in [Clients -> Nat]
    BY <1>0, <2>1 DEF GatewayInv, GatewayTyped
  <2>3. stage' \in [Handlers -> {"idle", "check", "publish"}]
    BY <1>0 DEF GatewayInv, GatewayTyped
  <2>4. QED BY SMTT(30), <1>0, <1>1, <1>3, <2>2, <2>3 DEF GatewayInv, GatewayTyped
<1>6. KeptBounded'
  <2>1. Cardinality(R \cup {n}) = IF n \in R THEN Cardinality(R) ELSE Cardinality(R) + 1
    BY <1>2, FS_AddElement
  <2>2. Cardinality(R \cup {n}) <= MaxRequests
    BY <1>0, <1>2, <2>1, GatewayConstants
  <2>3. R \cup {n} \subseteq 1 .. n
    BY <1>2
  <2>4. QED BY <1>3, <1>4, <2>2, <2>3 DEF GatewayInv, KeptBounded
<1>7. KeptInOrder'
  <2> SUFFICES ASSUME NEW d \in Clients, ~overtaken'[d], NEW i \in 1 .. Len(log'[d])
      PROVE /\ log'[d][i] <= latest'[d]
            /\ log'[d][i] + Window > latest'[d] => i \in kept'[d]
    BY DEF KeptInOrder
  <2>1. CASE d # c
    BY <1>1, <1>3, <1>4, <2>1 DEF GatewayInv, KeptInOrder
  <2>2. CASE d = c /\ i = n
    BY <1>1, <1>3, <1>4, <2>2
  <2>3. CASE d = c /\ i # n
    <3>1. ~overtaken[c] /\ latest[c] <= t /\ latest'[c] = t
      BY <1>1, <2>3
    <3>2. i \in 1 .. Len(log[c]) /\ log'[c][i] = log[c][i]
      BY <1>2, <1>3, <2>3
    <3>3. /\ log[c][i] <= latest[c]
          /\ log[c][i] + Window > latest[c] => i \in kept[c]
      BY <3>1, <3>2 DEF GatewayInv, KeptInOrder
    <3>4. log[c][i] \in Nat /\ latest[c] \in Nat /\ Window \in Nat
      BY <1>2, <3>2, GatewayConstants DEF GatewayInv, GatewayTyped
    <3>5. log[c][i] <= t /\ (log[c][i] + Window > t => log[c][i] + Window > latest[c])
      BY <1>1, <3>1, <3>3, <3>4
    <3>6. QED BY <1>2, <1>4, <2>3, <3>1, <3>2, <3>3, <3>5
  <2>4. QED BY <2>1, <2>2, <2>3
<1>8. RefusalExpires'
  BY <1>3, <1>4 DEF GatewayInv, RefusalExpires
<1>9. LimitUnlessOvertaken'
  <2> SUFFICES ASSUME NEW d \in Clients, ~overtaken'[d], NEW i \in DOMAIN log'[d]
      PROVE Cardinality(Gateway!InWindow(d, log[d][i])') <= MaxRequests
    BY SameCardinality DEF LimitUnlessOvertaken, Gateway!LimitUnlessOvertaken
  <2>1. CASE d # c
    <3>1. ~overtaken[d] /\ log'[d] = log[d]
      BY <1>1, <1>3, <2>1
    <3>2. Gateway!InWindow(d, log[d][i])' = Gateway!InWindow(d, log[d][i])
      BY <3>1 DEF Gateway!InWindow
    <3>3. QED BY <3>1, <3>2, SameCardinality
           DEF GatewayInv, LimitUnlessOvertaken, Gateway!LimitUnlessOvertaken
  <2>2. CASE d = c
    BY <1>0, <1>1, <1>3, <2>2, AdmitWithinLimit DEF R
  <2>3. QED BY <2>1, <2>2
<1>10. QED BY <1>5, <1>6, <1>7, <1>8, <1>9 DEF GatewayInv

(* Every step of the gateway keeps its invariant.                          *)
LEMMA GatewayStepKeeps == GatewayInv /\ [Gateway!Next]_gatewayVars => GatewayInv'
<1> SUFFICES ASSUME GatewayInv, [Gateway!Next]_gatewayVars PROVE GatewayInv'
  OBVIOUS
<1>0. GatewayTyped
  BY DEF GatewayInv
<1>1. CASE UNCHANGED gatewayVars
  <2>1. /\ UNCHANGED <<clock, stage, client, now, log, kept, answer>>
        /\ UNCHANGED <<latest, overtaken, refusedAt, promised>>
    BY <1>1 DEF gatewayVars
  <2>2. GatewayTyped'
    BY <1>0, <2>1 DEF GatewayTyped
  <2>3. QED BY <2>1, <2>2, GatewayFrame
<1>2. CASE Gateway!Tick
  <2>1. /\ clock' = clock + 1 /\ UNCHANGED <<stage, client, now, answer>>
        /\ UNCHANGED <<log, kept, latest, overtaken, refusedAt, promised>>
    BY <1>2 DEF Gateway!Tick, Gateway!requests, Gateway!limiter, Gateway!history
  <2>2. GatewayTyped'
    BY <1>0, <2>1 DEF GatewayTyped
  <2>3. QED BY <2>1, <2>2, GatewayFrame
<1>3. ASSUME NEW h \in Handlers, Gateway!handle_request(h) PROVE GatewayInv'
  <2>1. ASSUME NEW token \in Tokens,
               Gateway!Reject(h, token) \/ Gateway!Authenticate(h, token)
        PROVE  GatewayInv'
    <3>0. token.sub \in Clients
      BY GatewayConstants
    <3>1. UNCHANGED <<log, kept, latest, overtaken, refusedAt, promised>>
      BY <2>1 DEF Gateway!Reject, Gateway!Authenticate, Gateway!limiter, Gateway!history
    <3>2. CASE Gateway!Reject(h, token)
      <4>1. answer' = Gateway!StatusOf.Auth /\ UNCHANGED <<clock, stage, client, now>>
        BY <3>2 DEF Gateway!Reject, Gateway!requests
      <4>2. Gateway!StatusOf.Auth = 401
        BY DEF Gateway!StatusOf
      <4>3. GatewayTyped'
        BY <1>0, <3>1, <4>1, <4>2 DEF GatewayTyped
      <4>4. QED BY <3>1, <4>3, GatewayFrame
    <3>3. CASE Gateway!Authenticate(h, token)
      <4>1. /\ stage' = [stage EXCEPT ![h] = "check"]
            /\ client' = [client EXCEPT ![h] = token.sub]
            /\ now' = [now EXCEPT ![h] = clock]
            /\ UNCHANGED <<clock, answer>>
        BY <3>3 DEF Gateway!Authenticate
      <4>2. GatewayTyped'
        BY <1>0, <3>0, <3>1, <4>1 DEF GatewayTyped
      <4>3. QED BY <3>1, <4>2, GatewayFrame
    <3>4. QED BY <2>1, <3>2, <3>3
  <2>2. ASSUME NEW r \in {"Ok", "BusPublishFailed"},
               Gateway!Publish(h, r) \/ Gateway!HangUp(h)
        PROVE  GatewayInv'
    <3>1. /\ UNCHANGED <<log, kept, latest, overtaken, refusedAt, promised>>
          /\ stage' = [stage EXCEPT ![h] = "idle"] /\ now' = [now EXCEPT ![h] = 0]
          /\ UNCHANGED <<clock, client>>
      BY <2>2 DEF Gateway!Publish, Gateway!HangUp, Gateway!Leave, Gateway!limiter,
                  Gateway!history
    <3>2. answer' = answer \/ answer' \in {202, 500}
      <4>1. Gateway!StatusOf["Ok"] = 202 /\ Gateway!StatusOf["BusPublishFailed"] = 500
        BY DEF Gateway!StatusOf
      <4>2. QED BY <2>2, <4>1 DEF Gateway!Publish, Gateway!HangUp
    <3>3. GatewayTyped'
      BY SMTT(30), <1>0, <3>1, <3>2 DEF GatewayTyped
    <3>4. QED BY <3>1, <3>3, GatewayFrame
  <2>3. QED BY <1>3, <2>1, <2>2, RefuseKeeps, AdmitKeeps DEF Gateway!handle_request
<1>4. QED BY <1>1, <1>2, <1>3 DEF Gateway!Next

(* A step of the process is one of the gateway or leaves it alone.         *)
LEMMA PartsStepOfGateway == [PartsNext]_allVars => [Gateway!Next]_gatewayVars
BY DEF PartsNext, allVars

(* The invariant of the gateway holds in every state of the process.       *)
LEMMA GatewayInvariant == PartsSpec => []GatewayInv
<1>1. PartsInit => GatewayInv
  BY GatewayInit DEF PartsInit
<1>2. GatewayInv /\ [PartsNext]_allVars => GatewayInv'
  BY GatewayStepKeeps, PartsStepOfGateway
<1>3. QED BY <1>1, <1>2, PTL DEF PartsSpec, allVars

(* MCIronClaw's LimitUnlessOvertaken for every limit, window and number of *)
(* clients and handlers: while a client's checks reach check_rate_limit in *)
(* the order of their times, no window holds more than MaxRequests of its  *)
(* admitted requests.                                                      *)
THEOREM RateIsLimited == PartsSpec => []LimitUnlessOvertaken
<1>1. GatewayInv => LimitUnlessOvertaken
  BY DEF GatewayInv
<1>2. QED BY <1>1, GatewayInvariant, PTL

(* What the next refusal of a client refused before implies: its vector is *)
(* as full as it was, so none of its times has left the window.            *)
LEMMA RefusedAgainEarly ==
  ASSUME GatewayInv, Gateway!Next, NEW c \in Clients,
         refusedAt[c] # 0, refusedAt'[c] # 0, refusedAt'[c] # refusedAt[c]
  PROVE  refusedAt'[c] < promised[c] + Second
<1>1. PICK h \in Handlers : Gateway!Refuse(h, c)
  <2>0. refusedAt \in [Clients -> Nat]
    BY DEF GatewayInv, GatewayTyped
  <2>1. PICK h \in Handlers, d \in Clients : Gateway!Refuse(h, d) \/ Gateway!Admit(h, d)
    BY DEF Gateway!Next, Gateway!Tick, Gateway!handle_request, Gateway!Reject,
           Gateway!Authenticate, Gateway!Publish, Gateway!HangUp, Gateway!history
  <2>2. CASE Gateway!Admit(h, d)
    <3>1. refusedAt' = [refusedAt EXCEPT ![d] = 0]
      BY <2>2 DEF Gateway!Admit
    <3>2. QED BY <2>0, <3>1
  <2>3. CASE Gateway!Refuse(h, d)
    <3>1. refusedAt' = [refusedAt EXCEPT ![d] = now[h]]
      BY <2>3 DEF Gateway!Refuse
    <3>2. d = c
      BY <2>0, <3>1
    <3>3. QED BY <2>3, <3>2
  <2>4. QED BY <2>1, <2>2, <2>3
<1> DEFINE t == now[h]
           R == Gateway!Retained(c, t)
<1>2. t \in Nat /\ refusedAt'[c] = t /\ Cardinality(R) >= MaxRequests
  <2>1. refusedAt' = [refusedAt EXCEPT ![c] = t] /\ Cardinality(R) >= MaxRequests
    BY <1>1, SameCardinality DEF Gateway!Refuse
  <2>2. QED BY <2>1 DEF GatewayInv, GatewayTyped
<1>3. /\ R = {i \in kept[c] : log[c][i] + Window > t}
      /\ Cardinality(R) \in Nat /\ Cardinality(R) <= Cardinality(kept[c])
      /\ Cardinality(kept[c]) \in Nat /\ Cardinality(kept[c]) <= MaxRequests
      /\ Cardinality(R) = Cardinality(kept[c]) => R = kept[c]
      /\ kept[c] \subseteq 1 .. Len(log[c])
      /\ \A i \in 1 .. Len(log[c]) : log[c][i] \in Nat
  BY <1>2, RetainedFacts
<1>4. PICK i \in kept[c] : log[c][i] + Window < promised[c] + Second
  BY DEF GatewayInv, RefusalExpires
<1> HIDE DEF R, t
<1>5. i \in R
  BY <1>2, <1>3, GatewayConstants
<1>6. log[c][i] \in Nat /\ log[c][i] + Window > t
  BY <1>3, <1>5
<1>7. promised[c] \in Nat
  BY DEF GatewayInv, GatewayTyped
<1>8. t < promised[c] + Second
  BY <1>2, <1>4, <1>6, <1>7, GatewayConstants
<1>9. QED BY <1>2, <1>8

(* MCIronClaw's RetryWithinASecond for every limit, window and length of a *)
(* second: a client refused again, with none of its requests admitted in   *)
(* between, waited less than a second more than the retry_after it was     *)
(* told.                                                                   *)
THEOREM RetryAfterIsClose == PartsSpec => RetryWithinASecond
<1> DEFINE Close == \A c \in Clients :
             (refusedAt[c] # 0 /\ refusedAt'[c] \notin {0, refusedAt[c]}) =>
                refusedAt'[c] < promised[c] + Second
<1>1. GatewayInv /\ [PartsNext]_allVars => [Close]_(Gateway!vars)
  <2> SUFFICES ASSUME GatewayInv, [PartsNext]_allVars, ~UNCHANGED Gateway!vars
      PROVE Close
    OBVIOUS
  <2>1. UNCHANGED gatewayVars => UNCHANGED Gateway!vars
    BY DEF gatewayVars, Gateway!vars, Gateway!requests, Gateway!limiter, Gateway!history
  <2>2. Gateway!Next
    BY <2>1, PartsStepOfGateway
  <2>3. QED BY <2>2, RefusedAgainEarly
<1>2. QED BY <1>1, GatewayInvariant, PTL
       DEF PartsSpec, allVars, RetryWithinASecond, Gateway!RetryWithinASecond

-----------------------------------------------------------------------------
(* The encoding of payloads: bits.                                         *)

\* bytes are 8 bits wide, characters 6
Bytes == 0 .. 255
Letters == 0 .. 63      \* the characters of the alphabet
Padded == 0 .. 64       \* and '='

Triple(x, y, z) == x * 2^16 + y * 2^8 + z
Quadruple(u, x, y, z) == u * 2^18 + x * 2^12 + y * 2^6 + z

\* bit k of x, counted from the right
BitAt(x, k) == (x \div 2^k) % 2

\* the bytes and the characters of a group, counted from the left
ByteOf(T, i) == (T \div 2^(24 - 8 * i)) % 256
CharOf(T, i) == (T \div 2^(24 - 6 * i)) % 64

\* the powers of two that shift a group of 24 bits
LEMMA Doubles ==
  ASSUME NEW k \in 0 .. 22
  PROVE  2^(k + 1) = 2 * 2^k /\ 2^k \in Nat \ {0}
<1>0. CASE k = 0
  BY SMT, <1>0
<1>1. CASE k = 1
  BY SMT, <1>1
<1>2. CASE k = 2
  BY SMT, <1>2
<1>3. CASE k = 3
  BY SMT, <1>3
<1>4. CASE k = 4
  BY SMT, <1>4
<1>5. CASE k = 5
  BY SMT, <1>5
<1>6. CASE k = 6
  BY SMT, <1>6
<1>7. CASE k = 7
  BY SMT, <1>7
<1>8. CASE k = 8
  BY SMT, <1>8
<1>9. CASE k = 9
  BY SMT, <1>9
<1>10. CASE k = 10
  BY SMT, <1>10
<1>11. CASE k = 11
  BY SMT, <1>11
<1>12. CASE k = 12
  BY SMT, <1>12
<1>13. CASE k = 13
  BY SMT, <1>13
<1>14. CASE k = 14
  BY SMT, <1>14
<1>15. CASE k = 15
  BY SMT, <1>15
<1>16. CASE k = 16
  BY SMT, <1>16
<1>17. CASE k = 17
  BY SMT, <1>17
<1>18. CASE k = 18
  BY SMT, <1>18
<1>19. CASE k = 19
  BY SMT, <1>19
<1>20. CASE k = 20
  BY SMT, <1>20
<1>21. CASE k = 21
  BY SMT, <1>21
<1>22. CASE k = 22
  BY SMT, <1>22
<1>23. k \in {0, 1, 2, 3, 4, 5, 6, 7, 8, 9, 10, 11, 12, 13, 14, 15, 16, 17, 18, 19, 20, 21, 22}
  OBVIOUS
<1>24. QED
  BY <1>0, <1>1, <1>2, <1>3, <1>4, <1>5, <1>6, <1>7, <1>8, <1>9, <1>10, <1>11,
     <1>12, <1>13, <1>14, <1>15, <1>16, <1>17, <1>18, <1>19, <1>20, <1>21, <1>22, <1>23

\* and their products
LEMMA Powers ==
  ASSUME NEW x \in 0 .. 23, NEW y \in 0 .. 23 - x
  PROVE  2^(x + y) = 2^x * 2^y
<1> DEFINE S == {j \in 0 .. 23 - x : 2^(x + j) # 2^x * 2^j}
<1>1. SUFFICES ASSUME S # {} PROVE FALSE
  OBVIOUS
<1>2. PICK j \in S : \A i \in S : j <= i
  <2>1. S \in SUBSET Nat
    OBVIOUS
  <2>2. QED BY <1>1, <2>1, LeastOf
<1>3. j \in 0 .. 23 - x /\ 2^(x + j) # 2^x * 2^j
  OBVIOUS
<1>0. 2^0 = 1 /\ 2^23 \in Nat \ {0}
  BY SMT
<1>4. \A k \in 0 .. 23 : 2^k \in Nat \ {0}
  <2> TAKE k \in 0 .. 23
  <2>1. k = 23 \/ k \in 0 .. 22
    OBVIOUS
  <2>2. QED BY <1>0, <2>1, Doubles
<1>5. j # 0
  <2>1. j = 0 => x + j = x /\ 2^j = 1
    BY <1>0
  <2>2. 2^x * 1 = 2^x
    BY <1>4
  <2>3. QED BY <1>3, <2>1, <2>2
<1>6. j - 1 \in 0 .. 23 - x /\ j - 1 \notin S
  <2>1. j - 1 \in 0 .. 23 - x /\ ~ (j <= j - 1)
    BY <1>3, <1>5
  <2> HIDE DEF S
  <2>2. QED BY <1>2, <2>1
<1>7. 2^(x + (j - 1)) = 2^x * 2^(j - 1)
  BY <1>6
<1>8. 2^j = 2 * 2^(j - 1)
  <2>1. j - 1 \in 0 .. 22 /\ (j - 1) + 1 = j
    BY <1>3, <1>5
  <2>2. QED BY <2>1, Doubles
<1>9. 2^(x + j) = 2 * 2^(x + (j - 1))
  <2>1. x + (j - 1) \in 0 .. 22 /\ (x + (j - 1)) + 1 = x + j
    BY <1>3, <1>5
  <2>2. QED BY <2>1, Doubles
<1>10. \A a, c \in Nat : 2 * (a * c) = a * (2 * c)
  OBVIOUS
<1>11. 2^x \in Nat /\ 2^(j - 1) \in Nat
  <2>1. x \in 0 .. 23 /\ j - 1 \in 0 .. 23
    BY <1>3, <1>5
  <2>2. QED BY <1>4, <2>1
<1>12. QED BY <1>3, <1>7, <1>8, <1>9, <1>10, <1>11

\* a quotient and a remainder are those of the division
LEMMA Quotient ==
  ASSUME NEW d \in Nat \ {0}, NEW q \in Nat, NEW r \in 0 .. d - 1
  PROVE  (d * q + r) \div d = q /\ (d * q + r) % d = r
OBVIOUS

\* which has them
LEMMA DivMod ==
  ASSUME NEW n \in Nat, NEW d \in Nat \ {0}
  PROVE  /\ n \div d \in Nat /\ n % d \in 0 .. d - 1
         /\ n = d * (n \div d) + (n % d)
<1>1. n \div d \in Nat
  OBVIOUS
<1>2. n % d \in 0 .. d - 1
  OBVIOUS
<1>3. n % d = n - d * (n \div d)
  OBVIOUS
<1>4. \A q \in Nat, r \in 0 .. d - 1 : r = n - d * q => n = d * q + r
  OBVIOUS
<1>5. n = d * (n \div d) + (n % d)
  BY Zenon, <1>1, <1>2, <1>3, <1>4
<1>6. QED BY Zenon, <1>1, <1>2, <1>5

\* two shifts are one
LEMMA NestedDiv ==
  ASSUME NEW T \in Nat, NEW a \in Nat \ {0}, NEW c \in Nat \ {0}
  PROVE  (T \div a) \div c = T \div (a * c)
<1> DEFINE m == T \div a
           r == T % a
           q == m \div c
           s == m % c
<1>1. /\ m \in Nat /\ r \in 0 .. a - 1 /\ T = a * m + r
      /\ q \in Nat /\ s \in 0 .. c - 1 /\ m = c * q + s
  BY DivMod
<1> HIDE DEF m, r, q, s
<1>2. T = (a * c) * q + (a * s + r)
  BY <1>1
<1>3. a * c \in Nat \ {0} /\ a * s + r \in 0 .. (a * c) - 1
  <2>1. a * s <= a * (c - 1) /\ a * (c - 1) = a * c - a /\ a * s \in Nat
    BY <1>1
  <2>2. QED BY <1>1, <2>1
<1>4. T \div (a * c) = q
  <2> DEFINE d == a * c
             e == a * s + r
  <2>1. d \in Nat \ {0} /\ e \in 0 .. d - 1 /\ T = d * q + e
    BY <1>2, <1>3
  <2> HIDE DEF d, e
  <2>2. T \div d = q
    BY <1>1, <2>1, Quotient
  <2>3. QED BY <2>2 DEF d
<1>5. QED BY <1>4 DEF q, m

\* a bit of a part of a number is one of the number
LEMMA BitOfPart ==
  ASSUME NEW T \in Nat, NEW a \in Nat \ {0}, NEW d \in Nat \ {0}, NEW e \in Nat \ {0}
  PROVE  (((T \div a) % (d * (2 * e))) \div d) % 2 = (T \div (a * d)) % 2
<1> DEFINE m == T \div a
           w == d * (2 * e)
           q == m \div w
           r == m % w
           s == r \div d
           t == r % d
<1>1. w \in Nat \ {0}
  OBVIOUS
<1>2. m \in Nat
  BY DivMod
<1>3. q \in Nat /\ r \in 0 .. w - 1 /\ m = w * q + r
  <2> HIDE DEF w, m
  <2>1. QED BY <1>1, <1>2, DivMod
<1> HIDE DEF q, r
<1>4. r \in Nat
  <2> HIDE DEF w
  <2>1. QED BY <1>1, <1>3
<1>5. s \in Nat /\ t \in 0 .. d - 1 /\ r = d * s + t
  BY <1>4, DivMod
<1>6. m \div d = 2 * (e * q) + s
  <2> DEFINE k == 2 * (e * q) + s
  <2>1. m = d * k + t /\ k \in Nat
    <3> HIDE DEF s, t, m
    <3>1. m = (d * (2 * e)) * q + (d * s + t)
      BY <1>3, <1>5
    <3>2. \A u \in Nat : (d * (2 * e)) * q + (d * u + t) = d * (2 * (e * q) + u) + t
      BY <1>3, <1>5
    <3>3. QED BY <1>3, <1>5, <3>1, <3>2
  <2> HIDE DEF k, m, t
  <2>2. m \div d = k
    BY <1>5, <2>1, Quotient
  <2>3. QED BY <2>2 DEF k
<1>7. (m \div d) % 2 = s % 2
  <2> DEFINE k == e * q
  <2>1. k \in Nat /\ m \div d = 2 * k + s
    BY <1>3, <1>6
  <2> HIDE DEF k, m, s
  <2>2. (2 * k + s) % 2 = s % 2
    BY <1>5, <2>1
  <2>3. QED BY <2>1, <2>2
<1>8. m \div d = T \div (a * d)
  BY NestedDiv
<1>9. QED BY <1>7, <1>8 DEF r, w

\* the bits of a byte of a group of 24
LEMMA ByteBits ==
  ASSUME NEW T \in Nat, NEW i \in 1 .. 3, NEW j \in 0 .. 7
  PROVE  BitAt(ByteOf(T, i), 7 - j) = BitAt(T, 31 - 8 * i - j)
<1> DEFINE x == 24 - 8 * i
           a == 2^x
           d == 2^(7 - j)
           e == 2^j
<1>1. /\ x \in 0 .. 22 /\ x <= 16 /\ 7 - j \in 0 .. 22 /\ j \in 0 .. 22 /\ j + 1 \in 0 .. 8
      /\ x + (7 - j) = 31 - 8 * i - j /\ (7 - j) + (j + 1) = 8
  OBVIOUS
<1> HIDE DEF x
<1>2. a \in Nat \ {0} /\ d \in Nat \ {0} /\ e \in Nat \ {0}
  <2>1. \A k \in 0 .. 22 : 2^k \in Nat \ {0}
    BY Doubles
  <2>2. QED BY Zenon, <1>1, <2>1
<1>3. d * (2 * e) = 256
  <2>1. 2^(j + 1) = 2 * e
    BY <1>1, Doubles
  <2>2. 7 - j \in 0 .. 23 /\ j + 1 \in 0 .. 23 - (7 - j)
    BY <1>1
  <2>3. 2^((7 - j) + (j + 1)) = d * 2^(j + 1)
    BY <2>2, Powers
  <2>4. 2^8 = 256
    OBVIOUS
  <2>5. QED BY <1>1, <2>1, <2>3, <2>4
<1>4. a * d = 2^(31 - 8 * i - j)
  <2>1. x \in 0 .. 23 /\ 7 - j \in 0 .. 23 - x
    BY <1>1
  <2>2. 2^(x + (7 - j)) = a * d
    BY <2>1, Powers
  <2>3. QED BY <1>1, <2>2
<1> HIDE DEF a, d, e
<1>5. (((T \div a) % (d * (2 * e))) \div d) % 2 = (T \div (a * d)) % 2
  BY ONLY ZenonT(30), <1>2, T \in Nat, BitOfPart
<1>6. (((T \div a) % 256) \div d) % 2 = (T \div 2^(31 - 8 * i - j)) % 2
  BY <1>3, <1>4, <1>5
<1>7. QED BY <1>6 DEF a, d, x, BitAt, ByteOf

\* the bits of a character of it
LEMMA CharBits ==
  ASSUME NEW T \in Nat, NEW i \in 1 .. 4, NEW j \in 0 .. 5
  PROVE  BitAt(CharOf(T, i), 5 - j) = BitAt(T, 29 - 6 * i - j)
<1> DEFINE x == 24 - 6 * i
           a == 2^x
           d == 2^(5 - j)
           e == 2^j
<1>1. /\ x \in 0 .. 22 /\ x <= 18 /\ 5 - j \in 0 .. 22 /\ j \in 0 .. 22 /\ j + 1 \in 0 .. 6
      /\ x + (5 - j) = 29 - 6 * i - j /\ (5 - j) + (j + 1) = 6
  OBVIOUS
<1> HIDE DEF x
<1>2. a \in Nat \ {0} /\ d \in Nat \ {0} /\ e \in Nat \ {0}
  <2>1. \A k \in 0 .. 22 : 2^k \in Nat \ {0}
    BY Doubles
  <2>2. QED BY Zenon, <1>1, <2>1
<1>3. d * (2 * e) = 64
  <2>1. 2^(j + 1) = 2 * e
    BY <1>1, Doubles
  <2>2. 5 - j \in 0 .. 23 /\ j + 1 \in 0 .. 23 - (5 - j)
    BY <1>1
  <2>3. 2^((5 - j) + (j + 1)) = d * 2^(j + 1)
    BY <2>2, Powers
  <2>4. 2^6 = 64
    OBVIOUS
  <2>5. QED BY <1>1, <2>1, <2>3, <2>4
<1>4. a * d = 2^(29 - 6 * i - j)
  <2>1. x \in 0 .. 23 /\ 5 - j \in 0 .. 23 - x
    BY <1>1
  <2>2. 2^(x + (5 - j)) = a * d
    BY <2>1, Powers
  <2>3. QED BY <1>1, <2>2
<1> HIDE DEF a, d, e
<1>5. (((T \div a) % (d * (2 * e))) \div d) % 2 = (T \div (a * d)) % 2
  BY ONLY ZenonT(30), <1>2, T \in Nat, BitOfPart
<1>6. (((T \div a) % 64) \div d) % 2 = (T \div 2^(29 - 6 * i - j)) % 2
  BY <1>3, <1>4, <1>5
<1>7. QED BY <1>6 DEF a, d, x, BitAt, CharOf

\* three bytes are those of their group
LEMMA ThreeBytes ==
  ASSUME NEW x \in Bytes, NEW y \in Bytes, NEW z \in Bytes
  PROVE  /\ Triple(x, y, z) \in Nat
         /\ ByteOf(Triple(x, y, z), 1) = x /\ ByteOf(Triple(x, y, z), 2) = y
         /\ ByteOf(Triple(x, y, z), 3) = z
<1> DEFINE T == Triple(x, y, z)
<1>1. T \in Nat /\ T = x * 65536 + y * 256 + z
  BY SMT DEF Triple, Bytes
<1> HIDE DEF T
<1>2. T \div 65536 = x /\ T \div 256 = x * 256 + y /\ T \div 1 = (x * 256 + y) * 256 + z
  BY SMT, <1>1 DEF Bytes
<1>3. x % 256 = x /\ (x * 256 + y) % 256 = y /\ ((x * 256 + y) * 256 + z) % 256 = z
  BY SMT DEF Bytes
<1>4. QED BY SMT, <1>1, <1>2, <1>3 DEF ByteOf, T

\* four characters are those of theirs
LEMMA FourValues ==
  ASSUME NEW u \in Letters, NEW x \in Letters, NEW y \in Letters, NEW z \in Letters
  PROVE  /\ Quadruple(u, x, y, z) \in Nat
         /\ CharOf(Quadruple(u, x, y, z), 1) = u /\ CharOf(Quadruple(u, x, y, z), 2) = x
         /\ CharOf(Quadruple(u, x, y, z), 3) = y /\ CharOf(Quadruple(u, x, y, z), 4) = z
<1> DEFINE T == Quadruple(u, x, y, z)
<1>1. T \in Nat /\ T = u * 262144 + x * 4096 + y * 64 + z
  BY SMT DEF Quadruple, Letters
<1> HIDE DEF T
<1>2. /\ T \div 262144 = u /\ T \div 4096 = u * 64 + x
      /\ T \div 64 = (u * 64 + x) * 64 + y /\ T \div 1 = ((u * 64 + x) * 64 + y) * 64 + z
  BY SMT, <1>1 DEF Letters
<1>3. /\ u % 64 = u /\ (u * 64 + x) % 64 = x /\ ((u * 64 + x) * 64 + y) % 64 = y
      /\ (((u * 64 + x) * 64 + y) * 64 + z) % 64 = z
  BY SMT DEF Letters
<1>4. QED BY SMT, <1>1, <1>2, <1>3 DEF CharOf, T

\* both parts are of their width
LEMMA PartsAreOfWidth ==
  ASSUME NEW T \in Nat
  PROVE  /\ \A i \in 1 .. 3 : ByteOf(T, i) \in Bytes
         /\ \A i \in 1 .. 4 : CharOf(T, i) \in Letters
<1>1. ASSUME NEW k \in 0 .. 22 PROVE T \div 2^k \in Nat
  BY Zenon, <1>1, Doubles, DivMod
<1>2. \A n \in Nat : n % 256 \in 0 .. 255 /\ n % 64 \in 0 .. 63
  BY SMT
<1>3. ASSUME NEW i \in 1 .. 3 PROVE ByteOf(T, i) \in Bytes
  <2>1. 24 - 8 * i \in 0 .. 22
    OBVIOUS
  <2>2. T \div 2^(24 - 8 * i) \in Nat
    BY Zenon, <1>1, <2>1
  <2>3. QED BY SMT, <1>2, <2>2 DEF ByteOf, Bytes
<1>4. ASSUME NEW i \in 1 .. 4 PROVE CharOf(T, i) \in Letters
  <2>1. 24 - 6 * i \in 0 .. 22
    OBVIOUS
  <2>2. T \div 2^(24 - 6 * i) \in Nat
    BY Zenon, <1>1, <2>1
  <2>3. QED BY SMT, <1>2, <2>2 DEF CharOf, Letters
<1>5. QED BY <1>3, <1>4

-----------------------------------------------------------------------------
(* The encoding of payloads: groups of three bytes and of four characters. *)

\* the instance uses the operators of the same names
LEMMA SameOperators ==
  /\ \A s, I : Codec!Retain(s, I) = Retain(s, I)
  /\ \A q : Codec!FlattenSeq(q) = FlattenSeq(q)
<1>1. \A s, I : Codec!Retain(s, I) = Retain(s, I)
  BY Zenon DEF Codec!Retain, Retain, Codec!Cardinality, Cardinality
<1>2. \A q : Codec!FlattenSeq(q) = FlattenSeq(q)
  BY Zenon DEF Codec!FlattenSeq, FlattenSeq
<1>3. QED BY <1>1, <1>2

\* c is s cut into K pieces: all but the last have n elements, the last has some
Cut(s, n, c, K, T) ==
  /\ K \in Nat /\ c \in Seq(Seq(T)) /\ Len(c) = K /\ DOMAIN c = 1 .. K
  /\ K = 0 <=> Len(s) = 0
  /\ Len(s) <= n * K /\ (K # 0 => n * (K - 1) < Len(s))
  /\ \A k \in 1 .. K :
       /\ c[k] \in Seq(T) /\ Len(c[k]) \in Nat
       /\ k < K => Len(c[k]) = n
       /\ k = K => Len(c[k]) = Len(s) - n * (K - 1)
       /\ \A i \in 1 .. Len(c[k]) :
            n * (k - 1) + i \in 1 .. Len(s) /\ c[k][i] = s[n * (k - 1) + i]

\* slice::chunks
LEMMA ChunksCut ==
  ASSUME NEW T, NEW s \in Seq(T), NEW n \in Nat \ {0},
         NEW K, K = (Len(s) + n - 1) \div n
  PROVE  Cut(s, n, Codec!Chunks(s, n), K, T)
<1> DEFINE L == Len(s)
           c == Codec!Chunks(s, n)
           end(k) == IF n * k <= L THEN n * k ELSE L
<1>1. L \in Nat /\ \A i \in 1 .. L : s[i] \in T
  BY LenProperties, ElementOfSeq
<1>2. c = [k \in 1 .. K |-> SubSeq(s, n * (k - 1) + 1, end(k))]
  BY DEF Codec!Chunks
<1> HIDE DEF c, L
<1>3. PICK r \in 0 .. n - 1 : L + n - 1 = n * K + r
  <2>1. L + n - 1 \in Nat
    BY <1>1
  <2>2. QED BY <2>1, DivMod DEF L
<1>4. K \in Nat
  <2>1. L + n - 1 \in Nat
    BY <1>1
  <2>2. QED BY <2>1, DivMod DEF L
<1>5. /\ L <= n * K /\ n * (K - 1) < L + (IF K = 0 THEN 1 ELSE 0)
  <2>1. n * (K - 1) = n * K - n /\ n * K \in Nat
    BY <1>4
  <2> DEFINE p == n * K
             u == n * (K - 1)
  <2>2. u = p - n /\ p \in Nat /\ L + n - 1 = p + r
    BY <1>3, <2>1
  <2> HIDE DEF p, u
  <2>3. L <= p /\ u < L
    BY <1>1, <1>3, <2>2
  <2>4. QED BY <1>1, <2>3 DEF p, u
<1>6. K = 0 <=> L = 0
  <2>1. K = 0 => L = 0
    <3>1. n * 0 = 0
      OBVIOUS
    <3>2. QED BY <1>1, <1>5, <3>1
  <2>2. K # 0 => L # 0
    <3>1. K # 0 => n * (K - 1) \in Nat
      BY <1>4
    <3>2. QED BY <1>1, <1>5, <3>1
  <2>3. QED BY <2>1, <2>2
<1>7. ASSUME NEW k \in 1 .. K
      PROVE  /\ k < K => n * k <= L /\ end(k) = n * k
             /\ k = K => end(k) = L
             /\ n * (k - 1) \in Nat /\ n * k = n * (k - 1) + n
             /\ n * (k - 1) + 1 <= end(k) /\ end(k) <= L /\ end(k) \in Nat
  <2>0. k \in Nat /\ k <= K /\ 1 <= k
    BY <1>4
  <2>1. n * (k - 1) \in Nat /\ n * k = n * (k - 1) + n
    BY <2>0
  <2>2. k < K => n * k <= n * (K - 1) /\ n * k \in Nat /\ n * (K - 1) \in Nat
    BY <1>4, <2>0
  <2>3. k < K => n * k <= L /\ end(k) = n * k
    BY <1>1, <1>5, <2>0, <2>2
  <2>4. k = K => end(k) = L
    BY <1>1, <1>5
  <2>5. k = K => n * (k - 1) < L
    <3> SUFFICES ASSUME k = K PROVE n * (K - 1) < L
      OBVIOUS
    <3>1. K # 0
      BY <2>0
    <3>2. QED BY <1>1, <1>5, <3>1
  <2>6. end(k) \in Nat /\ end(k) <= L
    BY <1>1, <2>1
  <2> HIDE DEF end
  <2>7. n * (k - 1) + 1 <= end(k)
    <3>1. CASE k < K
      BY <2>1, <2>3, <3>1
    <3>2. CASE k = K
      BY <1>1, <2>1, <2>4, <2>5, <3>2
    <3>3. k < K \/ k = K
      BY <1>4, <2>0
    <3>4. QED BY <3>1, <3>2, <3>3
  <2>8. QED BY <2>1, <2>3, <2>4, <2>6, <2>7
<1> HIDE DEF end
<1>8. ASSUME NEW k \in 1 .. K
      PROVE  /\ c[k] \in Seq(T) /\ Len(c[k]) = end(k) - n * (k - 1)
             /\ \A i \in 1 .. end(k) - n * (k - 1) :
                  n * (k - 1) + i \in 1 .. L /\ c[k][i] = s[n * (k - 1) + i]
  <2> DEFINE m == n * (k - 1)
             e == end(k)
  <2>1. m \in Nat /\ e \in Nat /\ m + 1 <= e /\ e <= L
    BY <1>7
  <2>2. c[k] = SubSeq(s, m + 1, e)
    BY <1>2
  <2> HIDE DEF m, e
  <2>3. \A i \in m + 1 .. e : s[i] \in T
    BY <1>1, <2>1
  <2>4. /\ SubSeq(s, m + 1, e) \in Seq(T)
        /\ Len(SubSeq(s, m + 1, e)) = IF m + 1 <= e THEN e - (m + 1) + 1 ELSE 0
        /\ \A i \in 1 .. e - (m + 1) + 1 : SubSeq(s, m + 1, e)[i] = s[(m + 1) + i - 1]
    BY <2>1, <2>3, SubSeqProperties
  <2>5. e - (m + 1) + 1 = e - m /\ \A i \in 1 .. e - m : (m + 1) + i - 1 = m + i
    BY <2>1
  <2>6. \A i \in 1 .. e - m : m + i \in 1 .. L
    BY <1>1, <2>1
  <2>7. QED BY <2>1, <2>2, <2>4, <2>5, <2>6 DEF m, e
<1>9. ASSUME NEW k \in 1 .. K
      PROVE  Len(c[k]) = IF k < K THEN n ELSE L - n * (K - 1)
  <2>1. CASE k < K
    <3>1. end(k) = n * (k - 1) + n /\ n * (k - 1) \in Nat
      BY <1>7, <2>1
    <3>2. QED BY <1>8, <2>1, <3>1
  <2>2. CASE k = K
    <3>1. end(K) = L /\ Len(c[K]) = end(K) - n * (K - 1)
      BY <1>7, <1>8, <2>2
    <3>2. QED BY <2>2, <3>1
  <2>3. QED BY <1>4, <2>1, <2>2
<1>10. c \in Seq(Seq(T)) /\ Len(c) = K /\ DOMAIN c = 1 .. K
  <2>1. c \in [1 .. K -> Seq(T)]
    BY <1>2, <1>8
  <2>2. c \in Seq(Seq(T))
    BY <1>4, <2>1, SeqDef
  <2>3. QED BY <1>4, <2>1, <2>2, LenProperties
<1>11. K # 0 => n * (K - 1) < L
  BY <1>1, <1>5
<1>12. ASSUME NEW k \in 1 .. K
       PROVE  /\ c[k] \in Seq(T) /\ Len(c[k]) \in Nat
              /\ k < K => Len(c[k]) = n
              /\ k = K => Len(c[k]) = L - n * (K - 1)
              /\ \A i \in 1 .. Len(c[k]) :
                   n * (k - 1) + i \in 1 .. L /\ c[k][i] = s[n * (k - 1) + i]
  BY <1>8, <1>9, LenProperties
<1>13. K # 0 => n * (K - 1) < L
  BY <1>11
<1>14. QED BY Zenon, <1>4, <1>5, <1>6, <1>10, <1>12, <1>13 DEF Cut, L, c

\* what is behind the end of a chunk is zero
LEMMA AtOf ==
  ASSUME NEW S, 0 \in S, NEW c \in Seq(S), NEW i \in Nat \ {0}
  PROVE  /\ Codec!At(c, i) \in S
         /\ i <= Len(c) => Codec!At(c, i) = c[i]
         /\ i > Len(c) => Codec!At(c, i) = 0
<1>1. DOMAIN c = 1 .. Len(c) /\ Len(c) \in Nat /\ \A j \in 1 .. Len(c) : c[j] \in S
  BY LenProperties, ElementOfSeq
<1>2. i \in DOMAIN c <=> i <= Len(c)
  BY <1>1
<1>3. CASE i <= Len(c)
  BY <1>1, <1>2, <1>3 DEF Codec!At
<1>4. CASE i > Len(c)
  BY <1>1, <1>2, <1>4 DEF Codec!At
<1>5. QED BY <1>1, <1>3, <1>4

\* e are four characters with the bits of the bytes of c, one to three
Encoded(c, e) ==
  /\ e \in Seq(Padded) /\ Len(e) = 4
  /\ \A i \in 1 .. 4 : IF i <= Len(c) + 1 THEN e[i] \in Letters ELSE e[i] = 64
  /\ \A p \in 0 .. 23 : p < 6 * (Len(c) + 1) =>
       BitAt(e[(p \div 6) + 1], 5 - (p % 6))
         = BitAt(Codec!At(c, (p \div 8) + 1), 7 - (p % 8))

\* one to three bytes, encoded
LEMMA EncodesChunk ==
  ASSUME NEW c \in Seq(Bytes), Len(c) \in 1 .. 3
  PROVE  Encoded(c, Codec!EncodeChunk(c))
<1> DEFINE e == Codec!EncodeChunk(c)
           x == Codec!At(c, 1)
           y == Codec!At(c, 2)
           z == Codec!At(c, 3)
           T == Triple(x, y, z)
<1>1. x \in Bytes /\ y \in Bytes /\ z \in Bytes
  <2>1. 0 \in Bytes
    BY DEF Bytes
  <2>2. \A i \in Nat \ {0} : Codec!At(c, i) \in Bytes
    BY <2>1, AtOf
  <2>3. QED BY <2>2
<1>2. e = [i \in 1 .. 4 |-> IF i <= Len(c) + 1 THEN CharOf(T, i) ELSE 64]
  BY Zenon DEF Codec!EncodeChunk, Codec!Pad, CharOf, Triple
<1> HIDE DEF e, x, y, z
<1>3. T \in Nat /\ ByteOf(T, 1) = x /\ ByteOf(T, 2) = y /\ ByteOf(T, 3) = z
  BY <1>1, ThreeBytes
<1> HIDE DEF T
<1>4. ASSUME NEW i \in 1 .. 3
      PROVE  ByteOf(T, i) = Codec!At(c, i)
  <2>1. i = 1 \/ i = 2 \/ i = 3
    OBVIOUS
  <2>2. QED BY Zenon, <1>3, <2>1 DEF x, y, z
<1>5. \A i \in 1 .. 4 : e[i] = IF i <= Len(c) + 1 THEN CharOf(T, i) ELSE 64
  BY Zenon, <1>2
<1>6. \A i \in 1 .. 4 : IF i <= Len(c) + 1 THEN e[i] \in Letters ELSE e[i] = 64
  BY Zenon, <1>3, <1>5, PartsAreOfWidth
<1>7. e \in Seq(Padded) /\ Len(e) = 4
  <2>1. Letters \subseteq Padded /\ 64 \in Padded /\ 4 \in Nat
    BY DEF Letters, Padded
  <2>2. \A i \in 1 .. 4 : e[i] \in Padded
    BY <1>6, <2>1
  <2>3. e = [i \in 1 .. 4 |-> e[i]]
    BY Zenon, <1>2
  <2>4. e \in [1 .. 4 -> Padded]
    BY <2>2, <2>3
  <2>5. QED BY <2>1, <2>4, FunctionIsSeq
<1>8. ASSUME NEW p \in 0 .. 23, p < 6 * (Len(c) + 1)
      PROVE  BitAt(e[(p \div 6) + 1], 5 - (p % 6))
               = BitAt(Codec!At(c, (p \div 8) + 1), 7 - (p % 8))
  <2> DEFINE i == (p \div 6) + 1
             j == p % 6
             k == (p \div 8) + 1
             m == p % 8
  <2>1. /\ i \in 1 .. 4 /\ j \in 0 .. 5 /\ i <= Len(c) + 1 /\ 29 - 6 * i - j = 23 - p
        /\ k \in 1 .. 3 /\ m \in 0 .. 7 /\ 31 - 8 * k - m = 23 - p
    BY <1>8
  <2> HIDE DEF i, j, k, m
  <2>2. e[i] = CharOf(T, i) /\ ByteOf(T, k) = Codec!At(c, k)
    BY Zenon, <1>4, <1>5, <2>1
  <2>3. BitAt(CharOf(T, i), 5 - j) = BitAt(T, 23 - p)
    BY Zenon, <1>3, <2>1, CharBits
  <2>4. BitAt(ByteOf(T, k), 7 - m) = BitAt(T, 23 - p)
    BY Zenon, <1>3, <2>1, ByteBits
  <2>5. BitAt(e[i], 5 - j) = BitAt(Codec!At(c, k), 7 - m)
    BY Zenon, <2>2, <2>3, <2>4
  <2>6. QED BY Zenon, <2>5 DEF i, j, k, m
<1>9. QED BY Zenon, <1>6, <1>7, <1>8 DEF Encoded, e

\* place j of a row of groups of four
LEMMA PlaceOfFour ==
  ASSUME NEW K \in Nat, NEW j \in 1 .. 4 * K,
         NEW k, k = ((j - 1) \div 4) + 1, NEW i, i = ((j - 1) % 4) + 1
  PROVE  k \in 1 .. K /\ i \in 1 .. 4 /\ j = 4 * (k - 1) + i
BY SMT

\* the groups of 24 bits, by characters and by bytes
LEMMA GroupsOf24 ==
  ASSUME NEW m \in Nat, NEW p \in 0 .. 23
  PROVE  /\ (24 * m + p) \div 6 = 4 * m + (p \div 6) /\ (24 * m + p) % 6 = p % 6
         /\ (24 * m + p) \div 8 = 3 * m + (p \div 8) /\ (24 * m + p) % 8 = p % 8
         /\ p \div 6 \in 0 .. 3 /\ p \div 8 \in 0 .. 2
<1>1. (24 * m + p) \div 6 = 4 * m + (p \div 6)
  BY SMT
<1>2. (24 * m + p) % 6 = p % 6
  BY SMT
<1>3. (24 * m + p) \div 8 = 3 * m + (p \div 8)
  BY SMT
<1>4. (24 * m + p) % 8 = p % 8
  BY SMT
<1>5. p \div 6 \in 0 .. 3 /\ p \div 8 \in 0 .. 2
  BY SMT
<1>6. QED BY Zenon, <1>1, <1>2, <1>3, <1>4, <1>5

\* bit i of a row of groups of 24
LEMMA PlaceOfBit ==
  ASSUME NEW K \in Nat, NEW i \in 1 .. 24 * K,
         NEW k, k = ((i - 1) \div 24) + 1, NEW p, p = (i - 1) % 24
  PROVE  /\ k \in 1 .. K /\ p \in 0 .. 23 /\ i = 24 * (k - 1) + p + 1
         /\ 1 + ((i - 1) \div 6) = 4 * (k - 1) + ((p \div 6) + 1) /\ (i - 1) % 6 = p % 6
         /\ 1 + ((i - 1) \div 8) = 3 * (k - 1) + ((p \div 8) + 1) /\ (i - 1) % 8 = p % 8
         /\ (p \div 6) + 1 \in 1 .. 4 /\ (p \div 8) + 1 \in 1 .. 3
<1>1. i \in Nat \ {0} /\ i - 1 \in Nat /\ k \in Nat
  OBVIOUS
<1>2. k \in 1 .. K /\ p \in 0 .. 23 /\ i - 1 = 24 * (k - 1) + p
  OBVIOUS
<1> DEFINE m == k - 1
<1>3. m \in Nat /\ i - 1 = 24 * m + p
  BY <1>2
<1> HIDE DEF m
<1>4. /\ (24 * m + p) \div 6 = 4 * m + (p \div 6) /\ (24 * m + p) % 6 = p % 6
      /\ (24 * m + p) \div 8 = 3 * m + (p \div 8) /\ (24 * m + p) % 8 = p % 8
      /\ p \div 6 \in 0 .. 3 /\ p \div 8 \in 0 .. 2
  BY Zenon, <1>2, <1>3, GroupsOf24
<1>5. /\ (i - 1) \div 6 = 4 * m + (p \div 6) /\ (i - 1) % 6 = p % 6
      /\ (i - 1) \div 8 = 3 * m + (p \div 8) /\ (i - 1) % 8 = p % 8
  BY Zenon, <1>3, <1>4
<1>6. 1 + ((i - 1) \div 6) = 4 * m + ((p \div 6) + 1)
  BY ONLY SMT, <1>3, <1>4, <1>5
<1>7. 1 + ((i - 1) \div 8) = 3 * m + ((p \div 8) + 1)
  BY ONLY SMT, <1>3, <1>4, <1>5
<1>8. (p \div 6) + 1 \in 1 .. 4 /\ (p \div 8) + 1 \in 1 .. 3
  BY <1>4
<1>9. i = 24 * (k - 1) + p + 1
  BY <1>1, <1>2
<1>10. QED BY Zenon, <1>2, <1>5, <1>6, <1>7, <1>8, <1>9 DEF m

\* zero has no bit
LEMMA NoBitOfZero ==
  ASSUME NEW k \in 0 .. 22
  PROVE  BitAt(0, k) = 0
<1>1. 2^k \in Nat \ {0}
  BY Doubles
<1>2. \A n \in Nat \ {0} : 0 \div n = 0
  OBVIOUS
<1>3. 0 \div 2^k = 0
  BY Zenon, <1>1, <1>2
<1>4. 0 % 2 = 0
  OBVIOUS
<1>5. QED BY Zenon, <1>3, <1>4 DEF BitAt

\* bits of bytes and of characters
LEMMA BitOf ==
  \A s, i : /\ Codec!Bit(s, 8, i) = BitAt(s[1 + ((i - 1) \div 8)], 7 - ((i - 1) % 8))
            /\ Codec!Bit(s, 6, i) = BitAt(s[1 + ((i - 1) \div 6)], 5 - ((i - 1) % 6))
<1>1. 8 - 1 = 7 /\ 6 - 1 = 5
  OBVIOUS
<1>2. QED BY <1>1 DEF Codec!Bit, BitAt

\* no letter is dropped
LEMMA ValuesOfLetters ==
  ASSUME NEW c \in Seq(Letters)
  PROVE  Codec!Values(c) = c
<1>1. DOMAIN c = 1 .. Len(c) /\ \A i \in 1 .. Len(c) : c[i] \in Letters
  BY LenProperties, ElementOfSeq
<1>2. \A x \in Letters : x # 65
  BY DEF Letters
<1>3. {i \in DOMAIN c : c[i] # 65} = 1 .. Len(c)
  BY Zenon, <1>1, <1>2
<1>4. Codec!Values(c) = Retain(c, {i \in DOMAIN c : c[i] # 65})
  BY Zenon, SameOperators DEF Codec!Values, Codec!Other
<1>5. Retain(c, 1 .. Len(c)) = c
  BY RetainAll
<1>6. QED BY Zenon, <1>3, <1>4, <1>5

\* d are the bytes of a group c of two to four letters: one less, with their bits
Decoded(c, d) ==
  /\ d \in Seq(Bytes) /\ Len(d) = Len(c) - 1
  /\ \A p \in 0 .. 23 : p < 8 * (Len(c) - 1) =>
       BitAt(d[(p \div 8) + 1], 7 - (p % 8)) = BitAt(c[(p \div 6) + 1], 5 - (p % 6))

\* a group of letters, decoded
LEMMA DecodesChunk ==
  ASSUME NEW c \in Seq(Letters), Len(c) \in 2 .. 4
  PROVE  Decoded(c, Codec!DecodeChunk(c))
<1> DEFINE d == Codec!DecodeChunk(c)
           u == Codec!At(c, 1)
           x == Codec!At(c, 2)
           y == Codec!At(c, 3)
           z == Codec!At(c, 4)
           T == Quadruple(u, x, y, z)
           n == Len(c) - 1
<1>1. u \in Letters /\ x \in Letters /\ y \in Letters /\ z \in Letters
  <2>1. 0 \in Letters
    BY DEF Letters
  <2>2. \A i \in Nat \ {0} : Codec!At(c, i) \in Letters
    BY <2>1, AtOf
  <2>3. QED BY <2>2
<1>2. d = [i \in 1 .. n |-> ByteOf(T, i)]
  <2>1. Codec!Values(c) = c
    BY ValuesOfLetters
  <2>2. QED BY Zenon, <2>1 DEF Codec!DecodeChunk, ByteOf, Quadruple
<1> HIDE DEF d, u, x, y, z
<1>3. /\ T \in Nat /\ CharOf(T, 1) = u /\ CharOf(T, 2) = x
      /\ CharOf(T, 3) = y /\ CharOf(T, 4) = z
  BY <1>1, FourValues
<1> HIDE DEF T
<1>4. ASSUME NEW i \in 1 .. 4, i <= Len(c)
      PROVE  CharOf(T, i) = c[i]
  <2>1. i = 1 \/ i = 2 \/ i = 3 \/ i = 4
    OBVIOUS
  <2>2. CharOf(T, i) = Codec!At(c, i)
    BY Zenon, <1>3, <2>1 DEF u, x, y, z
  <2>3. 0 \in Letters
    BY DEF Letters
  <2>4. Codec!At(c, i) = c[i]
    BY <1>4, <2>3, AtOf
  <2>5. QED BY <2>2, <2>4
<1>5. n \in 1 .. 3
  OBVIOUS
<1> HIDE DEF n
<1>6. \A i \in 1 .. n : d[i] = ByteOf(T, i) /\ d[i] \in Bytes
  <2>1. \A i \in 1 .. n : i \in 1 .. 3
    BY <1>5
  <2>2. QED BY Zenon, <1>2, <1>3, <2>1, PartsAreOfWidth
<1>7. d \in Seq(Bytes) /\ Len(d) = n
  <2>1. d = [i \in 1 .. n |-> d[i]]
    BY Zenon, <1>2
  <2>2. d \in [1 .. n -> Bytes]
    BY <1>6, <2>1
  <2>3. QED BY <1>5, <2>2, FunctionIsSeq
<1>8. ASSUME NEW p \in 0 .. 23, p < 8 * (Len(c) - 1)
      PROVE  BitAt(d[(p \div 8) + 1], 7 - (p % 8)) = BitAt(c[(p \div 6) + 1], 5 - (p % 6))
  <2> DEFINE i == (p \div 6) + 1
             j == p % 6
             k == (p \div 8) + 1
             m == p % 8
  <2>1. /\ i \in 1 .. 4 /\ j \in 0 .. 5 /\ i <= Len(c) /\ 29 - 6 * i - j = 23 - p
        /\ k \in 1 .. 3 /\ m \in 0 .. 7 /\ k \in 1 .. n /\ 31 - 8 * k - m = 23 - p
    BY <1>8 DEF n
  <2> HIDE DEF i, j, k, m
  <2>2. CharOf(T, i) = c[i] /\ d[k] = ByteOf(T, k)
    BY Zenon, <1>4, <1>6, <2>1
  <2>3. BitAt(CharOf(T, i), 5 - j) = BitAt(T, 23 - p)
    BY Zenon, <1>3, <2>1, CharBits
  <2>4. BitAt(ByteOf(T, k), 7 - m) = BitAt(T, 23 - p)
    BY Zenon, <1>3, <2>1, ByteBits
  <2>5. BitAt(d[k], 7 - m) = BitAt(c[i], 5 - j)
    BY Zenon, <2>2, <2>3, <2>4
  <2>6. QED BY Zenon, <2>5 DEF i, j, k, m
<1>9. QED BY Zenon, <1>7, <1>8 DEF Decoded, d, n

\* what the k-th of K groups of three of L bytes holds: n bytes, n + 1 characters
LEMMA PlacesInGroup ==
  ASSUME NEW K \in Nat, NEW L \in Nat, NEW k \in 1 .. K, NEW n \in Nat,
         k < K => n = 3, k = K => n = L - 3 * (K - 1),
         L <= 3 * K, 3 * (K - 1) < L
  PROVE  /\ n \in 1 .. 3
         /\ \A i \in 1 .. 4 : 4 * (k - 1) + i <= L + K <=> i <= n + 1
         /\ \A p \in 0 .. 23 :
              /\ 24 * (k - 1) + p + 1 <= 6 * (L + K) => p < 6 * (n + 1)
              /\ 24 * (k - 1) + p + 1 <= 8 * L <=> (p \div 8) + 1 <= n
              /\ 24 * (k - 1) + p + 1 <= 8 * L <=> p < 8 * n
<1>1. k < K \/ k = K
  OBVIOUS
<1>2. n \in 1 .. 3
  BY <1>1
<1>3. \A p \in 0 .. 23 : (p \div 8) + 1 <= n <=> p < 8 * n
  BY <1>2
<1>4. CASE k < K
  <2>1. n = 3
    BY <1>4
  <2>2. k <= K - 1
    BY <1>4
  <2>3. \A i \in 1 .. 4 : 4 * (k - 1) + i <= L + K /\ i <= n + 1
    BY <2>1, <2>2
  <2>4. \A p \in 0 .. 23 : 24 * (k - 1) + p + 1 <= 8 * L /\ p < 6 * (n + 1) /\ p < 8 * n
    BY <2>1, <2>2
  <2>5. QED BY Zenon, <1>2, <1>3, <2>3, <2>4
<1>5. CASE k = K
  <2>1. n = L - 3 * (K - 1)
    BY <1>5
  <2>2. \A i \in 1 .. 4 : 4 * (k - 1) + i <= L + K <=> i <= n + 1
    BY <1>5, <2>1
  <2>3. \A p \in 0 .. 23 : /\ 24 * (k - 1) + p + 1 <= 6 * (L + K) => p < 6 * (n + 1)
                           /\ 24 * (k - 1) + p + 1 <= 8 * L <=> p < 8 * n
    BY <1>5, <2>1
  <2>4. QED BY Zenon, <1>2, <1>3, <2>2, <2>3
<1>6. QED BY Zenon, <1>1, <1>4, <1>5

\* e are the characters of the bytes of s, in K groups: the letters, then '='
Encoding(s, e, K) ==
  /\ K \in Nat /\ Len(s) \in Nat /\ e \in Seq(Padded) /\ Len(e) = 4 * K
  /\ 3 * K - 2 <= Len(s) /\ Len(s) <= 3 * K
  /\ \A j \in 1 .. 4 * K : IF j <= Len(s) + K THEN e[j] \in Letters ELSE e[j] = 64
  /\ \A i \in 1 .. 6 * (Len(s) + K) :
       Codec!Bit(e, 6, i) = IF i <= 8 * Len(s) THEN Codec!Bit(s, 8, i) ELSE 0

\* of no bytes there are no characters
LEMMA EncodesNothing ==
  ASSUME NEW s, s = << >>
  PROVE  Encoding(s, << >>, 0)
<1>1. Len(s) = 0 /\ 4 * 0 = 0 /\ 3 * 0 = 0 /\ << >> \in Seq(Padded) /\ Len(<< >>) = 0
  OBVIOUS
<1>2. \A x : x \notin 1 .. 0
  OBVIOUS
<1>3. 6 * (0 + 0) = 0 /\ 0 \in Nat /\ 0 - 2 <= 0 /\ 0 <= 0
  OBVIOUS
<1>4. QED BY Zenon, <1>1, <1>2, <1>3 DEF Encoding

\* K groups over T, all but the last of w elements
Groups(q, K, w, T) ==
  /\ K \in Nat \ {0} /\ w \in Nat /\ q \in Seq(Seq(T)) /\ Len(q) = K
  /\ \A k \in 1 .. K : k < K => Len(q[k]) = w

\* f is their row: each group stands where its number says
Row(f, q, K, w, T) ==
  /\ f \in Seq(T) /\ Len(f) = w * (K - 1) + Len(q[K])
  /\ \A k \in 1 .. K : \A i \in 1 .. Len(q[k]) : f[w * (k - 1) + i] = q[k][i]

\* FlattenSeq makes it
LEMMA GroupsInRow ==
  ASSUME NEW T, NEW q, NEW K, NEW w, Groups(q, K, w, T)
  PROVE  Row(FlattenSeq(q), q, K, w, T)
<1>0. /\ K \in Nat \ {0} /\ w \in Nat /\ q \in Seq(Seq(T)) /\ Len(q) = K
      /\ \A k \in 1 .. K : k < K => Len(q[k]) = w
  BY Zenon DEF Groups
<1>1. q # << >>
  <2>1. Len(<< >>) = 0
    OBVIOUS
  <2>2. QED BY <1>0, <2>1
<1>2. \A k \in 1 .. Len(q) - 1 : Len(q[k]) = w
  <2>1. \A k \in 1 .. K - 1 : k \in 1 .. K /\ k < K
    BY <1>0
  <2>2. QED BY Zenon, <1>0, <2>1
<1>3. /\ Len(FlattenSeq(q)) = w * (Len(q) - 1) + Len(q[Len(q)])
      /\ \A k \in 1 .. Len(q) : \A i \in 1 .. Len(q[k]) :
           FlattenSeq(q)[w * (k - 1) + i] = q[k][i]
  BY <1>0, <1>1, <1>2, FlattenEven
<1>4. FlattenSeq(q) \in Seq(T)
  BY <1>0, FlattenIsSeq
<1>5. QED BY Zenon, <1>0, <1>3, <1>4 DEF Row

\* the groups of three bytes, each encoded, one after the other
LEMMA EncodesGroups ==
  ASSUME NEW s, NEW K, NEW c, Cut(s, 3, c, K, Bytes), K # 0, Len(s) \in Nat,
         NEW q, q \in Seq(Seq(Padded)), Len(q) = K,
         \A k \in 1 .. K : Encoded(c[k], q[k])
  PROVE  Encoding(s, FlattenSeq(q), K)
<1> DEFINE L == Len(s)
           e == FlattenSeq(q)
<1>1. /\ K \in Nat \ {0} /\ L \in Nat /\ L <= 3 * K /\ 3 * (K - 1) < L /\ K \in 1 .. K
      /\ K - 1 \in Nat /\ 4 * (K - 1) + 4 = 4 * K /\ 3 * K - 2 <= L
  <2>1. K \in Nat \ {0} /\ L \in Nat /\ L <= 3 * K /\ 3 * (K - 1) < L
    BY Zenon DEF Cut
  <2> HIDE DEF L
  <2>2. QED BY ONLY SMT, <2>1
<1>2. ASSUME NEW k \in 1 .. K
      PROVE  /\ c[k] \in Seq(Bytes) /\ Len(c[k]) \in Nat
             /\ k < K => Len(c[k]) = 3
             /\ k = K => Len(c[k]) = L - 3 * (K - 1)
             /\ \A i \in 1 .. Len(c[k]) :
                  3 * (k - 1) + i \in 1 .. L /\ c[k][i] = s[3 * (k - 1) + i]
  BY Zenon DEF Cut
<1>3. ASSUME NEW k \in 1 .. K
      PROVE  /\ q[k] \in Seq(Padded) /\ Len(q[k]) = 4
             /\ \A i \in 1 .. 4 : IF i <= Len(c[k]) + 1 THEN q[k][i] \in Letters ELSE q[k][i] = 64
             /\ \A p \in 0 .. 23 : p < 6 * (Len(c[k]) + 1) =>
                  BitAt(q[k][(p \div 6) + 1], 5 - (p % 6))
                    = BitAt(Codec!At(c[k], (p \div 8) + 1), 7 - (p % 8))
  BY Zenon DEF Encoded
<1> HIDE DEF L
<1>4. ASSUME NEW k \in 1 .. K
      PROVE  /\ Len(c[k]) \in 1 .. 3
             /\ \A i \in 1 .. 4 : 4 * (k - 1) + i <= L + K <=> i <= Len(c[k]) + 1
             /\ \A p \in 0 .. 23 :
                  /\ 24 * (k - 1) + p + 1 <= 6 * (L + K) => p < 6 * (Len(c[k]) + 1)
                  /\ 24 * (k - 1) + p + 1 <= 8 * L <=> (p \div 8) + 1 <= Len(c[k])
  <2>1. K \in Nat
    BY <1>1
  <2>2. QED BY ONLY ZenonT(60), k \in 1 .. K, <1>1, <1>2, <2>1, PlacesInGroup
<1>5. /\ e \in Seq(Padded) /\ Len(e) = 4 * K
      /\ \A k \in 1 .. K : \A i \in 1 .. 4 : e[4 * (k - 1) + i] = q[k][i]
  <2>1. /\ e \in Seq(Padded) /\ Len(e) = 4 * (K - 1) + Len(q[K])
        /\ \A k \in 1 .. K : \A i \in 1 .. Len(q[k]) : e[4 * (k - 1) + i] = q[k][i]
    <3>1. 4 \in Nat /\ q \in Seq(Seq(Padded)) /\ Len(q) = K
      OBVIOUS
    <3>2. Groups(q, K, 4, Padded)
      BY Zenon, <1>1, <1>3, <3>1 DEF Groups
    <3> HIDE DEF e
    <3>3. Row(FlattenSeq(q), q, K, 4, Padded)
      BY Zenon, <3>2, GroupsInRow
    <3>4. Row(e, q, K, 4, Padded)
      BY Zenon, <3>3 DEF e
    <3>5. QED BY Zenon, <3>4 DEF Row
  <2>2. QED BY ZenonT(60), <1>1, <1>3, <2>1
<1> HIDE DEF e
<1>6. ASSUME NEW j \in 1 .. 4 * K
      PROVE  IF j <= L + K THEN e[j] \in Letters ELSE e[j] = 64
  <2> DEFINE k == ((j - 1) \div 4) + 1
             i == ((j - 1) % 4) + 1
  <2>1. k \in 1 .. K /\ i \in 1 .. 4 /\ j = 4 * (k - 1) + i
    <3>1. K \in Nat /\ j \in 1 .. 4 * K
      BY <1>1
    <3> HIDE DEF k, i
    <3>2. k = ((j - 1) \div 4) + 1 /\ i = ((j - 1) % 4) + 1
      BY DEF k, i
    <3>3. QED BY ONLY SMT, <3>1, <3>2
  <2> HIDE DEF k, i
  <2>2. e[j] = q[k][i]
    BY Zenon, <1>5, <2>1
  <2>3. j <= L + K <=> i <= Len(c[k]) + 1
    BY Zenon, <1>4, <2>1
  <2>4. QED BY Zenon, <1>3, <2>1, <2>2, <2>3
<1>7. ASSUME NEW i \in 1 .. 6 * (L + K)
      PROVE  Codec!Bit(e, 6, i) = IF i <= 8 * L THEN Codec!Bit(s, 8, i) ELSE 0
  <2> DEFINE k == ((i - 1) \div 24) + 1
             p == (i - 1) % 24
             b == (p \div 8) + 1
             a == (p \div 6) + 1
  <2>1. /\ k \in 1 .. K /\ p \in 0 .. 23 /\ i = 24 * (k - 1) + p + 1
        /\ 1 + ((i - 1) \div 6) = 4 * (k - 1) + a /\ (i - 1) % 6 = p % 6
        /\ 1 + ((i - 1) \div 8) = 3 * (k - 1) + b /\ (i - 1) % 8 = p % 8
        /\ a \in 1 .. 4 /\ b \in 1 .. 3
    <3>1. K \in Nat /\ i \in 1 .. 24 * K
      BY ONLY SMT, <1>1, i \in 1 .. 6 * (L + K)
    <3>2. QED BY ONLY Zenon, <3>1, PlaceOfBit
  <2> HIDE DEF k, p
  <2>2. p < 6 * (Len(c[k]) + 1) /\ (i <= 8 * L <=> b <= Len(c[k]))
    <3>1. i <= 6 * (L + K)
      BY ONLY SMT, <1>1, i \in 1 .. 6 * (L + K)
    <3>2. QED BY Zenon, <1>4, <2>1, <3>1
  <2>3. Codec!Bit(e, 6, i) = BitAt(Codec!At(c[k], b), 7 - (p % 8))
    <3>1. e[4 * (k - 1) + a] = q[k][a]
      BY Zenon, <1>5, <2>1
    <3>2. Codec!Bit(e, 6, i) = BitAt(q[k][a], 5 - (p % 6))
      <4> HIDE DEF a, b
      <4>1. QED BY ZenonT(60), <2>1, <3>1, BitOf
    <3>3. QED BY Zenon, <1>3, <2>1, <2>2, <3>2
  <2> HIDE DEF a, b
  <2>4. b \in Nat \ {0} /\ 0 \in Bytes /\ c[k] \in Seq(Bytes) /\ Len(c[k]) \in Nat
    <3>1. c[k] \in Seq(Bytes) /\ Len(c[k]) \in Nat
      BY Zenon, <1>2, <2>1
    <3>2. b \in Nat \ {0}
      BY ONLY SMT, <2>1
    <3>3. 0 \in Bytes
      BY DEF Bytes
    <3>4. QED BY <3>1, <3>2, <3>3
  <2>5. CASE i <= 8 * L
    <3>1. b <= Len(c[k]) /\ b \in 1 .. Len(c[k])
      <4>1. b <= Len(c[k])
        BY Zenon, <2>2, <2>5
      <4>2. QED BY ONLY SMT, <2>4, <4>1
    <3>2. Codec!At(c[k], b) = c[k][b]
      BY Zenon, <2>4, <3>1, AtOf
    <3>3. c[k][b] = s[3 * (k - 1) + b]
      BY Zenon, <1>2, <2>1, <3>1
    <3>4. Codec!Bit(s, 8, i) = BitAt(s[3 * (k - 1) + b], 7 - (p % 8))
      BY Zenon, <2>1, BitOf
    <3>5. QED BY Zenon, <2>3, <2>5, <3>2, <3>3, <3>4
  <2>6. CASE ~ (i <= 8 * L)
    <3>1. b > Len(c[k])
      <4>1. ~ (b <= Len(c[k]))
        BY Zenon, <2>2, <2>6
      <4>2. QED BY ONLY SMT, <2>4, <4>1
    <3>2. Codec!At(c[k], b) = 0
      BY Zenon, <2>4, <3>1, AtOf
    <3>3. 7 - (p % 8) \in 0 .. 22
      BY ONLY SMT, <2>1
    <3>4. BitAt(0, 7 - (p % 8)) = 0
      BY Zenon, <3>3, NoBitOfZero
    <3>5. QED BY Zenon, <2>3, <2>6, <3>2, <3>4
  <2>7. QED BY <2>5, <2>6
<1>8. K \in Nat
  BY <1>1
<1>9. QED BY Zenon, <1>1, <1>5, <1>6, <1>7, <1>8 DEF Encoding, L, e

\* base64_encode
LEMMA Encodes ==
  ASSUME NEW data, data \in Seq(Bytes), NEW K, K = (Len(data) + 2) \div 3
  PROVE  Encoding(data, Codec!base64_encode(data), K)
<1> DEFINE c == Codec!Chunks(data, 3)
           q == [k \in DOMAIN c |-> Codec!EncodeChunk(c[k])]
<1>1. Codec!base64_encode(data) = FlattenSeq(q)
  BY Zenon, SameOperators DEF Codec!base64_encode
<1>2. Len(data) \in Nat
  BY LenProperties
<1>3. Cut(data, 3, c, K, Bytes)
  <2>1. 3 \in Nat \ {0} /\ K = (Len(data) + 3 - 1) \div 3
    <3>1. Len(data) + 2 = Len(data) + 3 - 1
      BY <1>2
    <3>2. QED BY <3>1
  <2>2. QED BY ONLY Zenon, <2>1, data \in Seq(Bytes), ChunksCut
<1> HIDE DEF c
<1>4. /\ K \in Nat /\ DOMAIN c = 1 .. K
      /\ K = 0 <=> Len(data) = 0
  BY Zenon, <1>3 DEF Cut
<1>5. CASE K = 0
  <2>1. data = << >>
    BY <1>4, <1>5, EmptySeq
  <2>2. q = << >>
    <3>1. DOMAIN q = {}
      BY <1>4, <1>5
    <3>2. QED BY <3>1
  <2> HIDE DEF q
  <2>3. FlattenSeq(<< >>) = << >>
    BY DEF FlattenSeq
  <2>4. QED BY <1>1, <1>5, <2>1, <2>2, <2>3, EncodesNothing
<1>6. CASE K # 0
  <2>1. ASSUME NEW k \in 1 .. K
        PROVE  c[k] \in Seq(Bytes) /\ Len(c[k]) \in 1 .. 3
    <3>1. /\ K \in Nat \ {0} /\ Len(data) <= 3 * K /\ 3 * (K - 1) < Len(data)
          /\ c[k] \in Seq(Bytes) /\ Len(c[k]) \in Nat
          /\ k < K => Len(c[k]) = 3
          /\ k = K => Len(c[k]) = Len(data) - 3 * (K - 1)
      BY Zenon, <1>3, <1>6 DEF Cut
    <3>2. QED BY ONLY Zenon, <1>2, <1>4, <3>1, k \in 1 .. K, PlacesInGroup
  <2>2. ASSUME NEW k \in 1 .. K
        PROVE  Encoded(c[k], q[k])
    <3>1. q[k] = Codec!EncodeChunk(c[k])
      BY Zenon, <1>4
    <3> HIDE DEF q
    <3>2. QED BY Zenon, <2>1, <3>1, EncodesChunk
  <2>3. q \in Seq(Seq(Padded)) /\ Len(q) = K
    <3>1. q = [k \in 1 .. K |-> q[k]]
      BY Zenon, <1>4
    <3> HIDE DEF q
    <3>2. \A k \in 1 .. K : q[k] \in Seq(Padded)
      BY Zenon, <2>2 DEF Encoded
    <3>3. q \in [1 .. K -> Seq(Padded)]
      BY Zenon, <3>1, <3>2
    <3>4. QED BY ZenonT(60), <1>4, <3>3, FunctionIsSeq
  <2> HIDE DEF q
  <2>4. QED BY ONLY Zenon, <1>1, <1>2, <1>3, <1>6, <2>2, <2>3, EncodesGroups
<1>7. QED BY <1>5, <1>6

\* where the k-th of K groups of four of m characters, of n, and its bytes end
EndsOfGroup(K, m, k, n) ==
  /\ n \in 1 .. 4
  /\ n < 2 => m % 4 = 1
  /\ k = K => (m % 4 = 1 => n < 2) /\ 3 * (K - 1) + (n - 1) = (6 * m) \div 8
  /\ \A p \in 0 .. 23 :
       24 * (k - 1) + p + 1 <= 8 * ((6 * m) \div 8) =>
         p < 8 * (n - 1) /\ (p \div 8) + 1 <= n - 1 /\ (p \div 6) + 1 <= n

\* it is full, or the last and of the rest
LEMMA PlacesInFour ==
  ASSUME NEW K \in Nat, NEW m \in Nat, NEW k \in 1 .. K, NEW n \in Nat,
         k < K => n = 4, k = K => n = m - 4 * (K - 1),
         m <= 4 * K, 4 * (K - 1) < m
  PROVE  EndsOfGroup(K, m, k, n)
<1>1. CASE k < K
  <2>1. n = 4
    BY <1>1
  <2>2. \A p \in 0 .. 23 :
          p < 8 * (n - 1) /\ (p \div 8) + 1 <= n - 1 /\ (p \div 6) + 1 <= n
    BY <2>1
  <2>3. n \in 1 .. 4 /\ ~ (n < 2) /\ ~ (k = K)
    BY <1>1, <2>1
  <2>4. QED BY Zenon, <2>2, <2>3 DEF EndsOfGroup
<1>2. CASE k = K
  <2> DEFINE j == K - 1
  <2>1. j \in Nat /\ n \in 1 .. 4 /\ m = 4 * j + n
    BY <1>2
  <2> HIDE DEF j
  <2>2. m % 4 = 1 <=> n < 2
    BY ONLY SMT, <2>1
  <2>3. (6 * m) \div 8 = 3 * j + (n - 1)
    BY ONLY SMT, <2>1
  <2>4. \A p \in 0 .. 23 :
          24 * j + p + 1 <= 8 * (3 * j + (n - 1)) =>
            p < 8 * (n - 1) /\ (p \div 8) + 1 <= n - 1 /\ (p \div 6) + 1 <= n
    BY ONLY SMT, <2>1
  <2>5. k - 1 = j
    BY <1>2 DEF j
  <2>6. QED BY Zenon, <1>2, <2>1, <2>2, <2>3, <2>4, <2>5 DEF EndsOfGroup, j
<1>3. k < K \/ k = K
  OBVIOUS
<1>4. QED BY <1>1, <1>2, <1>3

\* d are the bytes that the letters of s make, with their bits
Decoding(s, d) ==
  /\ d \in Seq(Bytes) /\ Len(d) = (6 * Len(s)) \div 8
  /\ \A i \in 1 .. 8 * Len(d) : Codec!Bit(d, 8, i) = Codec!Bit(s, 6, i)

\* of no letters there are no bytes
LEMMA DecodesNothing ==
  ASSUME NEW s, s = << >>
  PROVE  Decoding(s, << >>)
<1>1. Len(s) = 0 /\ (6 * 0) \div 8 = 0 /\ << >> \in Seq(Bytes) /\ Len(<< >>) = 0 /\ 8 * 0 = 0
  OBVIOUS
<1>2. \A x : x \notin 1 .. 0
  OBVIOUS
<1>3. QED BY Zenon, <1>1, <1>2 DEF Decoding

\* the groups of four letters, each decoded, one after the other
LEMMA DecodesGroups ==
  ASSUME NEW s, NEW K, NEW c, Cut(s, 4, c, K, Letters), K # 0, Len(s) \in Nat,
         Len(s) % 4 # 1,
         NEW q, q \in Seq(Seq(Bytes)), Len(q) = K,
         \A k \in 1 .. K : Decoded(c[k], q[k])
  PROVE  Decoding(s, FlattenSeq(q))
<1> DEFINE m == Len(s)
           d == FlattenSeq(q)
<1>1. /\ K \in Nat \ {0} /\ m \in Nat /\ m <= 4 * K /\ 4 * (K - 1) < m /\ K \in 1 .. K
      /\ K - 1 \in Nat
  <2>1. K \in Nat \ {0} /\ m \in Nat /\ m <= 4 * K /\ 4 * (K - 1) < m
    BY Zenon DEF Cut
  <2> HIDE DEF m
  <2>2. QED BY ONLY SMT, <2>1
<1>2. ASSUME NEW k \in 1 .. K
      PROVE  /\ c[k] \in Seq(Letters) /\ Len(c[k]) \in Nat
             /\ k < K => Len(c[k]) = 4
             /\ k = K => Len(c[k]) = m - 4 * (K - 1)
             /\ \A i \in 1 .. Len(c[k]) :
                  4 * (k - 1) + i \in 1 .. m /\ c[k][i] = s[4 * (k - 1) + i]
  BY Zenon DEF Cut
<1>3. ASSUME NEW k \in 1 .. K
      PROVE  /\ q[k] \in Seq(Bytes) /\ Len(q[k]) = Len(c[k]) - 1
             /\ \A p \in 0 .. 23 : p < 8 * (Len(c[k]) - 1) =>
                  BitAt(q[k][(p \div 8) + 1], 7 - (p % 8))
                    = BitAt(c[k][(p \div 6) + 1], 5 - (p % 6))
  BY Zenon DEF Decoded
<1> HIDE DEF m
<1>4. ASSUME NEW k \in 1 .. K
      PROVE  /\ k = K => 3 * (K - 1) + (Len(c[k]) - 1) = (6 * m) \div 8
             /\ \A p \in 0 .. 23 :
                  24 * (k - 1) + p + 1 <= 8 * ((6 * m) \div 8) =>
                    /\ p < 8 * (Len(c[k]) - 1)
                    /\ (p \div 8) + 1 <= Len(c[k]) - 1 /\ (p \div 6) + 1 <= Len(c[k])
  <2>1. K \in Nat
    BY <1>1
  <2>2. EndsOfGroup(K, m, k, Len(c[k]))
    BY ONLY Zenon, k \in 1 .. K, <1>1, <1>2, <2>1, PlacesInFour
  <2>3. QED BY Zenon, <2>2 DEF EndsOfGroup
<1>5. /\ d \in Seq(Bytes) /\ Len(d) = (6 * m) \div 8
      /\ \A k \in 1 .. K : \A i \in 1 .. Len(c[k]) - 1 : d[3 * (k - 1) + i] = q[k][i]
  <2>1. 3 \in Nat /\ q \in Seq(Seq(Bytes)) /\ Len(q) = K /\ 4 - 1 = 3
    OBVIOUS
  <2>2. Groups(q, K, 3, Bytes)
    BY Zenon, <1>1, <1>2, <1>3, <2>1 DEF Groups
  <2> HIDE DEF d
  <2>3. Row(FlattenSeq(q), q, K, 3, Bytes)
    BY Zenon, <2>2, GroupsInRow
  <2>4. Row(d, q, K, 3, Bytes)
    BY Zenon, <2>3 DEF d
  <2>5. QED BY Zenon, <1>1, <1>3, <1>4, <2>4 DEF Row
<1> HIDE DEF d
<1>6. ASSUME NEW i \in 1 .. 8 * Len(d)
      PROVE  Codec!Bit(d, 8, i) = Codec!Bit(s, 6, i)
  <2> DEFINE k == ((i - 1) \div 24) + 1
             p == (i - 1) % 24
             b == (p \div 8) + 1
             a == (p \div 6) + 1
  <2>1. /\ k \in 1 .. K /\ p \in 0 .. 23 /\ i = 24 * (k - 1) + p + 1
        /\ 1 + ((i - 1) \div 6) = 4 * (k - 1) + a /\ (i - 1) % 6 = p % 6
        /\ 1 + ((i - 1) \div 8) = 3 * (k - 1) + b /\ (i - 1) % 8 = p % 8
        /\ a \in 1 .. 4 /\ b \in 1 .. 3
    <3>1. i \in 1 .. 8 * ((6 * m) \div 8)
      BY <1>5
    <3>2. K \in Nat /\ i \in 1 .. 24 * K
      BY ONLY SMT, <1>1, <3>1
    <3>3. QED BY ONLY Zenon, <3>2, PlaceOfBit
  <2> HIDE DEF k, p
  <2>2. p < 8 * (Len(c[k]) - 1) /\ b <= Len(c[k]) - 1 /\ a <= Len(c[k])
    <3>1. i <= 8 * ((6 * m) \div 8)
      <4>1. i \in 1 .. 8 * ((6 * m) \div 8)
        BY <1>5
      <4>2. QED BY ONLY SMT, <1>1, <4>1
    <3>2. QED BY Zenon, <1>4, <2>1, <3>1
  <2>3. BitAt(q[k][b], 7 - (p % 8)) = BitAt(c[k][a], 5 - (p % 6))
    BY Zenon, <1>3, <2>1, <2>2
  <2> HIDE DEF a, b
  <2>4. b \in 1 .. Len(c[k]) - 1 /\ a \in 1 .. Len(c[k])
    <3>1. Len(c[k]) \in Nat
      BY Zenon, <1>2, <2>1
    <3>2. QED BY ONLY SMT, <2>1, <2>2, <3>1
  <2>5. d[3 * (k - 1) + b] = q[k][b] /\ s[4 * (k - 1) + a] = c[k][a]
    BY Zenon, <1>2, <1>5, <2>1, <2>4
  <2>6. Codec!Bit(d, 8, i) = BitAt(q[k][b], 7 - (p % 8))
    BY ZenonT(60), <2>1, <2>5, BitOf
  <2>7. Codec!Bit(s, 6, i) = BitAt(c[k][a], 5 - (p % 6))
    BY ZenonT(60), <2>1, <2>5, BitOf
  <2>8. QED BY Zenon, <2>3, <2>6, <2>7
<1>7. QED BY Zenon, <1>5, <1>6 DEF Decoding, m, d

\* base64_decode of a text over the alphabet: one letter makes no byte
LEMMA Decodes ==
  ASSUME NEW text, NEW s, s = Codec!WithoutPads(text), s \in Seq(Letters)
  PROVE  IF Len(s) % 4 = 1 THEN Codec!base64_decode(text) = << >>
         ELSE \E d : Codec!base64_decode(text) = <<d>> /\ Decoding(s, d)
<1> DEFINE c == Codec!Chunks(s, 4)
           q == [k \in DOMAIN c |-> Codec!DecodeChunk(c[k])]
           K == (Len(s) + 3) \div 4
<1>1. Codec!base64_decode(text) =
        IF \E k \in DOMAIN c : Len(Codec!Values(c[k])) < 2 THEN << >> ELSE <<FlattenSeq(q)>>
  BY Zenon, SameOperators DEF Codec!base64_decode
<1>2. Len(s) \in Nat
  BY LenProperties
<1>3. Cut(s, 4, c, K, Letters)
  <2>1. 4 \in Nat \ {0} /\ K = (Len(s) + 4 - 1) \div 4
    <3>1. Len(s) + 3 = Len(s) + 4 - 1
      BY <1>2
    <3>2. QED BY <3>1
  <2> HIDE DEF K
  <2>2. QED BY ONLY Zenon, <2>1, s \in Seq(Letters), ChunksCut
<1> HIDE DEF c, K
<1>4. K \in Nat /\ DOMAIN c = 1 .. K /\ (K = 0 <=> Len(s) = 0)
  BY Zenon, <1>3 DEF Cut
<1>5. CASE K = 0
  <2>1. s = << >> /\ ~ (Len(s) % 4 = 1)
    BY <1>4, <1>5, EmptySeq
  <2>2. DOMAIN c = {}
    BY <1>4, <1>5
  <2>3. q = << >>
    BY <2>2
  <2> HIDE DEF q
  <2>4. FlattenSeq(<< >>) = << >>
    BY DEF FlattenSeq
  <2>5. Codec!base64_decode(text) = << << >> >>
    BY Zenon, <1>1, <2>2, <2>3, <2>4
  <2>6. QED BY Zenon, <2>1, <2>5, DecodesNothing
<1>6. CASE K # 0
  <2>1. ASSUME NEW k \in 1 .. K
        PROVE  /\ c[k] \in Seq(Letters) /\ Len(c[k]) \in 1 .. 4
               /\ Codec!Values(c[k]) = c[k]
               /\ Len(c[k]) < 2 => Len(s) % 4 = 1
               /\ k = K => (Len(s) % 4 = 1 => Len(c[k]) < 2)
    <3>1. /\ K \in Nat \ {0} /\ Len(s) <= 4 * K /\ 4 * (K - 1) < Len(s)
          /\ c[k] \in Seq(Letters) /\ Len(c[k]) \in Nat
          /\ k < K => Len(c[k]) = 4
          /\ k = K => Len(c[k]) = Len(s) - 4 * (K - 1)
      BY Zenon, <1>3, <1>6 DEF Cut
    <3>2. Codec!Values(c[k]) = c[k]
      BY Zenon, <3>1, ValuesOfLetters
    <3>3. /\ Len(c[k]) \in 1 .. 4 /\ (Len(c[k]) < 2 => Len(s) % 4 = 1)
          /\ k = K => (Len(s) % 4 = 1 => Len(c[k]) < 2)
      BY ONLY Zenon, <1>2, <1>4, <3>1, k \in 1 .. K, PlacesInFour DEF EndsOfGroup
    <3>4. QED BY Zenon, <3>1, <3>2, <3>3
  <2>2. CASE Len(s) % 4 = 1
    <3>1. K \in 1 .. K
      BY <1>4, <1>6
    <3>2. Len(Codec!Values(c[K])) < 2
      BY Zenon, <2>1, <2>2, <3>1
    <3>3. QED BY Zenon, <1>1, <1>4, <2>2, <3>1, <3>2
  <2>3. CASE Len(s) % 4 # 1
    <3>1. \A k \in 1 .. K : ~ (Len(Codec!Values(c[k])) < 2)
      BY Zenon, <2>1, <2>3
    <3>2. Codec!base64_decode(text) = <<FlattenSeq(q)>>
      BY Zenon, <1>1, <1>4, <3>1
    <3>3. ASSUME NEW k \in 1 .. K
          PROVE  Decoded(c[k], q[k])
      <4>1. q[k] = Codec!DecodeChunk(c[k])
        BY Zenon, <1>4
      <4> HIDE DEF q
      <4>2. Len(c[k]) \in 2 .. 4
        <5>1. Len(c[k]) \in 1 .. 4 /\ ~ (Len(c[k]) < 2)
          BY Zenon, <2>1, <2>3
        <5>2. \A n \in 1 .. 4 : ~ (n < 2) => n \in 2 .. 4
          OBVIOUS
        <5>3. QED BY Zenon, <5>1, <5>2
      <4>3. QED BY Zenon, <2>1, <4>1, <4>2, DecodesChunk
    <3>4. q \in Seq(Seq(Bytes)) /\ Len(q) = K
      <4>1. q = [k \in 1 .. K |-> q[k]]
        BY Zenon, <1>4
      <4> HIDE DEF q
      <4>2. \A k \in 1 .. K : q[k] \in Seq(Bytes)
        BY Zenon, <3>3 DEF Decoded
      <4>3. q \in [1 .. K -> Seq(Bytes)]
        BY Zenon, <4>1, <4>2
      <4>4. QED BY Zenon, <1>4, <4>3, FunctionIsSeq
    <3> HIDE DEF q
    <3>5. Decoding(s, FlattenSeq(q))
      BY ONLY Zenon, <1>2, <1>3, <1>6, <2>3, <3>3, <3>4, DecodesGroups
    <3>6. QED BY Zenon, <2>3, <3>2, <3>5
  <2>4. QED BY <2>2, <2>3
<1>7. QED BY <1>5, <1>6

\* the text without its '=' is over the alphabet if the text is
LEMMA WithoutPadsTyped ==
  ASSUME NEW text, text \in Seq(Codec!Chars)
  PROVE  /\ Codec!WithoutPads(text) \in Seq(Codec!Chars)
         /\ (\A i \in DOMAIN text : text[i] # Codec!Other) =>
              Codec!WithoutPads(text) \in Seq(Letters)
<1> DEFINE I == {i \in DOMAIN text : text[i] # 64}
           n == Cardinality(I)
           s == Retain(text, I)
<1>1. Codec!WithoutPads(text) = s
  BY Zenon, SameOperators DEF Codec!WithoutPads, Codec!Pad
<1>2. DOMAIN text = 1 .. Len(text) /\ \A i \in DOMAIN text : text[i] \in Codec!Chars
  BY LenProperties, ElementOfSeq
<1>3. I \in SUBSET (1 .. Len(text))
  BY <1>2
<1> HIDE DEF I
<1>4. /\ s \in Seq(Codec!Chars) /\ Len(s) = n /\ n \in Nat
      /\ \E h : Picks(h, I) /\ \A k \in 1 .. n : s[k] = text[h[k]]
  BY <1>3, RetainProperties
<1> HIDE DEF s
<1>5. ASSUME \A i \in DOMAIN text : text[i] # Codec!Other
      PROVE  s \in Seq(Letters)
  <2>1. PICK h : Picks(h, I) /\ \A k \in 1 .. n : s[k] = text[h[k]]
    BY <1>4
  <2>2. \A k \in 1 .. n : h[k] \in I
    BY <2>1 DEF Picks
  <2>3. \A x \in Codec!Chars : x # 64 /\ x # Codec!Other => x \in Letters
    BY DEF Codec!Chars, Codec!Other, Letters
  <2>4. \A i \in I : text[i] \in Letters
    BY <1>2, <1>5, <2>3 DEF I
  <2>5. \A k \in 1 .. n : s[k] \in Letters
    BY Zenon, <2>1, <2>2, <2>4
  <2> HIDE DEF n
  <2>6. s = [k \in 1 .. n |-> s[k]]
    BY <1>4, LenProperties, SeqDef
  <2>7. s \in [1 .. n -> Letters]
    BY <2>5, <2>6
  <2>8. QED BY Zenon, <1>4, <2>7, FunctionIsSeq
<1>6. QED BY <1>1, <1>4, <1>5

\* a group of characters, of whatever, is decoded to bytes
LEMMA DecodesToBytes ==
  ASSUME NEW c, c \in Seq(Codec!Chars), Len(c) \in 0 .. 4
  PROVE  Codec!DecodeChunk(c) \in Seq(Bytes)
<1> DEFINE v == Codec!Values(c)
           T == Quadruple(Codec!At(v, 1), Codec!At(v, 2), Codec!At(v, 3), Codec!At(v, 4))
           d == Codec!DecodeChunk(c)
           n == Len(v) - 1
<1>1. v \in Seq(Codec!Chars) /\ Len(v) \in 0 .. 4
  <2> DEFINE I == {i \in DOMAIN c : c[i] # 65}
  <2>1. v = Retain(c, I)
    BY Zenon, SameOperators DEF Codec!Values, Codec!Other
  <2>2. DOMAIN c = 1 .. Len(c)
    BY LenProperties
  <2>3. I \in SUBSET (1 .. Len(c))
    BY <2>2
  <2>4. IsFiniteSet(1 .. Len(c)) /\ Cardinality(1 .. Len(c)) = Len(c)
    <3>1. Cardinality(1 .. Len(c)) = IF 1 > Len(c) THEN 0 ELSE Len(c) - 1 + 1
      BY FS_Interval
    <3>2. IsFiniteSet(1 .. Len(c))
      BY FS_Interval
    <3>3. QED BY <3>1, <3>2
  <2> HIDE DEF I
  <2>5. Cardinality(I) <= Len(c)
    BY <2>3, <2>4, FS_Subset
  <2>6. /\ Retain(c, I) \in Seq(Codec!Chars) /\ Len(Retain(c, I)) = Cardinality(I)
        /\ Cardinality(I) \in Nat
    BY <2>3, RetainProperties
  <2> DEFINE m == Cardinality(I)
  <2>7. m \in Nat /\ m <= Len(c) /\ Len(v) = m /\ v \in Seq(Codec!Chars)
    BY Zenon, <2>1, <2>5, <2>6
  <2>8. \A x \in Nat, y \in 0 .. 4 : x <= y => x \in 0 .. 4
    OBVIOUS
  <2> HIDE DEF m, v
  <2>9. QED BY Zenon, <2>7, <2>8
<1>2. d = [i \in 1 .. n |-> ByteOf(T, i)]
  BY Zenon DEF Codec!DecodeChunk, ByteOf, Quadruple
<1> HIDE DEF v
<1>3. T \in Nat
  <2>1. 0 \in Codec!Chars /\ Codec!Chars \subseteq Nat
    BY DEF Codec!Chars, Codec!Other
  <2>2. \A i \in Nat \ {0} : Codec!At(v, i) \in Codec!Chars
    BY <1>1, <2>1, AtOf
  <2>3. \A i \in 1 .. 4 : Codec!At(v, i) \in Nat
    <3>1. \A i \in 1 .. 4 : i \in Nat \ {0}
      OBVIOUS
    <3>2. QED BY Zenon, <2>1, <2>2, <3>1
  <2> DEFINE u == Codec!At(v, 1)
             x == Codec!At(v, 2)
             y == Codec!At(v, 3)
             z == Codec!At(v, 4)
  <2>4. u \in Nat /\ x \in Nat /\ y \in Nat /\ z \in Nat
    BY <2>3
  <2> HIDE DEF u, x, y, z
  <2>5. Quadruple(u, x, y, z) \in Nat
    BY ONLY SMT, <2>4 DEF Quadruple
  <2>6. QED BY Zenon, <2>5 DEF u, x, y, z
<1> HIDE DEF T, d
<1>4. CASE Len(v) = 0
  <2>1. 1 .. n = {}
    BY <1>4
  <2> HIDE DEF n
  <2>2. d = [i \in {} |-> ByteOf(T, i)]
    BY Zenon, <1>2, <2>1
  <2>3. d = << >>
    BY <2>2
  <2>4. QED BY <2>3 DEF d
<1>5. CASE Len(v) # 0
  <2>1. n \in Nat /\ \A i \in 1 .. n : i \in 1 .. 3
    <3>1. n \in 0 .. 3
      BY <1>1, <1>5
    <3> HIDE DEF n
    <3>2. QED BY <3>1
  <2> HIDE DEF n
  <2>2. \A i \in 1 .. n : ByteOf(T, i) \in Bytes
    BY Zenon, <1>3, <2>1, PartsAreOfWidth
  <2>3. d \in [1 .. n -> Bytes]
    BY Zenon, <1>2, <2>2
  <2>4. d \in Seq(Bytes)
    BY Zenon, <2>1, <2>3, FunctionIsSeq
  <2>5. QED BY <2>4 DEF d
<1>6. QED BY <1>4, <1>5

\* so is every text that is not refused
LEMMA DecodeTyped ==
  ASSUME NEW text, text \in Seq(Codec!Chars)
  PROVE  \/ Codec!base64_decode(text) = << >>
         \/ \E d \in Seq(Bytes) : Codec!base64_decode(text) = <<d>>
<1> DEFINE s == Codec!WithoutPads(text)
           c == Codec!Chunks(s, 4)
           q == [k \in DOMAIN c |-> Codec!DecodeChunk(c[k])]
           K == (Len(s) + 3) \div 4
<1>1. Codec!base64_decode(text) =
        IF \E k \in DOMAIN c : Len(Codec!Values(c[k])) < 2 THEN << >> ELSE <<FlattenSeq(q)>>
  BY Zenon, SameOperators DEF Codec!base64_decode
<1>2. s \in Seq(Codec!Chars) /\ Len(s) \in Nat
  BY WithoutPadsTyped, LenProperties
<1> HIDE DEF s
<1>3. Cut(s, 4, c, K, Codec!Chars)
  <2>1. 4 \in Nat \ {0} /\ K = (Len(s) + 4 - 1) \div 4
    <3>1. Len(s) + 3 = Len(s) + 4 - 1
      BY <1>2
    <3>2. QED BY <3>1
  <2> HIDE DEF K
  <2>2. QED BY ONLY Zenon, <1>2, <2>1, ChunksCut
<1> HIDE DEF c, K
<1>4. K \in Nat /\ DOMAIN c = 1 .. K
  BY Zenon, <1>3 DEF Cut
<1>5. ASSUME NEW k \in 1 .. K
      PROVE  q[k] \in Seq(Bytes)
  <2>1. /\ c[k] \in Seq(Codec!Chars) /\ Len(c[k]) \in Nat
        /\ k < K => Len(c[k]) = 4
        /\ k = K => Len(c[k]) = Len(s) - 4 * (K - 1)
        /\ Len(s) <= 4 * K
    BY Zenon, <1>3 DEF Cut
  <2>2. Len(c[k]) \in 0 .. 4
    <3> DEFINE n == Len(c[k])
               m == Len(s)
    <3>1. /\ n \in Nat /\ (k < K => n = 4) /\ (k = K => n = m - 4 * (K - 1))
          /\ m <= 4 * K /\ m \in Nat /\ k \in 1 .. K /\ K \in Nat
      BY Zenon, <1>2, <1>4, <2>1
    <3> HIDE DEF n, m
    <3>2. n \in 0 .. 4
      BY ONLY SMT, <3>1
    <3>3. QED BY <3>2 DEF n
  <2>3. q[k] = Codec!DecodeChunk(c[k])
    BY Zenon, <1>4
  <2> HIDE DEF q
  <2>4. QED BY Zenon, <2>1, <2>2, <2>3, DecodesToBytes
<1>6. q \in Seq(Seq(Bytes))
  <2>1. q = [k \in 1 .. K |-> q[k]]
    BY Zenon, <1>4
  <2> HIDE DEF q
  <2>2. q \in [1 .. K -> Seq(Bytes)]
    BY Zenon, <1>5, <2>1
  <2>3. QED BY Zenon, <1>4, <2>2, FunctionIsSeq
<1> HIDE DEF q
<1>7. FlattenSeq(q) \in Seq(Bytes)
  BY Zenon, <1>6, FlattenIsSeq
<1>8. QED BY Zenon, <1>1, <1>7

\* a byte is the number its bits make
LEMMA BitsOfByte ==
  ASSUME NEW x \in Bytes, NEW y \in Bytes,
         \A j \in 0 .. 7 : BitAt(x, 7 - j) = BitAt(y, 7 - j)
  PROVE  x = y
<1>1. BitAt(x, 7) = BitAt(y, 7) /\ BitAt(x, 6) = BitAt(y, 6) /\ BitAt(x, 5) = BitAt(y, 5)
  <2>1. BitAt(x, 7 - 0) = BitAt(y, 7 - 0)
    OBVIOUS
  <2>2. BitAt(x, 7 - 1) = BitAt(y, 7 - 1)
    OBVIOUS
  <2>3. BitAt(x, 7 - 2) = BitAt(y, 7 - 2)
    OBVIOUS
  <2>4. QED BY SMT, <2>1, <2>2, <2>3
<1>2. BitAt(x, 4) = BitAt(y, 4) /\ BitAt(x, 3) = BitAt(y, 3) /\ BitAt(x, 2) = BitAt(y, 2)
  <2>1. BitAt(x, 7 - 3) = BitAt(y, 7 - 3)
    OBVIOUS
  <2>2. BitAt(x, 7 - 4) = BitAt(y, 7 - 4)
    OBVIOUS
  <2>3. BitAt(x, 7 - 5) = BitAt(y, 7 - 5)
    OBVIOUS
  <2>4. QED BY SMT, <2>1, <2>2, <2>3
<1>3. BitAt(x, 1) = BitAt(y, 1) /\ BitAt(x, 0) = BitAt(y, 0)
  <2>1. BitAt(x, 7 - 6) = BitAt(y, 7 - 6)
    OBVIOUS
  <2>2. BitAt(x, 7 - 7) = BitAt(y, 7 - 7)
    OBVIOUS
  <2>3. QED BY SMT, <2>1, <2>2
<1>4. x \in 0 .. 255 /\ y \in 0 .. 255
  BY DEF Bytes
<1>5. x \div 128 = y \div 128
  <2>1. BitAt(x, 7) = (x \div 128) % 2 /\ BitAt(y, 7) = (y \div 128) % 2
    BY SMT DEF BitAt
  <2>2. (x \div 128) % 2 = x \div 128 /\ (y \div 128) % 2 = y \div 128
    BY SMT, <1>4
  <2>3. QED BY SMT, <1>1, <2>1, <2>2
<1>6. x \div 64 = y \div 64
  <2>1. BitAt(x, 6) = (x \div 64) % 2 /\ BitAt(y, 6) = (y \div 64) % 2
    BY SMT DEF BitAt
  <2>2. x \div 64 = 2 * (x \div 128) + ((x \div 64) % 2)
    BY SMT, <1>4
  <2>3. y \div 64 = 2 * (y \div 128) + ((y \div 64) % 2)
    BY SMT, <1>4
  <2>4. QED BY SMT, <1>1, <1>5, <2>1, <2>2, <2>3
<1>7. x \div 32 = y \div 32
  <2>1. BitAt(x, 5) = (x \div 32) % 2 /\ BitAt(y, 5) = (y \div 32) % 2
    BY SMT DEF BitAt
  <2>2. x \div 32 = 2 * (x \div 64) + ((x \div 32) % 2)
    BY SMT, <1>4
  <2>3. y \div 32 = 2 * (y \div 64) + ((y \div 32) % 2)
    BY SMT, <1>4
  <2>4. QED BY SMT, <1>1, <1>6, <2>1, <2>2, <2>3
<1>8. x \div 16 = y \div 16
  <2>1. BitAt(x, 4) = (x \div 16) % 2 /\ BitAt(y, 4) = (y \div 16) % 2
    BY SMT DEF BitAt
  <2>2. x \div 16 = 2 * (x \div 32) + ((x \div 16) % 2)
    BY SMT, <1>4
  <2>3. y \div 16 = 2 * (y \div 32) + ((y \div 16) % 2)
    BY SMT, <1>4
  <2>4. QED BY SMT, <1>2, <1>7, <2>1, <2>2, <2>3
<1>9. x \div 8 = y \div 8
  <2>1. BitAt(x, 3) = (x \div 8) % 2 /\ BitAt(y, 3) = (y \div 8) % 2
    BY SMT DEF BitAt
  <2>2. x \div 8 = 2 * (x \div 16) + ((x \div 8) % 2)
    BY SMT, <1>4
  <2>3. y \div 8 = 2 * (y \div 16) + ((y \div 8) % 2)
    BY SMT, <1>4
  <2>4. QED BY SMT, <1>2, <1>8, <2>1, <2>2, <2>3
<1>10. x \div 4 = y \div 4
  <2>1. BitAt(x, 2) = (x \div 4) % 2 /\ BitAt(y, 2) = (y \div 4) % 2
    BY SMT DEF BitAt
  <2>2. x \div 4 = 2 * (x \div 8) + ((x \div 4) % 2)
    BY SMT, <1>4
  <2>3. y \div 4 = 2 * (y \div 8) + ((y \div 4) % 2)
    BY SMT, <1>4
  <2>4. QED BY SMT, <1>2, <1>9, <2>1, <2>2, <2>3
<1>11. x \div 2 = y \div 2
  <2>1. BitAt(x, 1) = (x \div 2) % 2 /\ BitAt(y, 1) = (y \div 2) % 2
    BY SMT DEF BitAt
  <2>2. x \div 2 = 2 * (x \div 4) + ((x \div 2) % 2)
    BY SMT, <1>4
  <2>3. y \div 2 = 2 * (y \div 4) + ((y \div 2) % 2)
    BY SMT, <1>4
  <2>4. QED BY SMT, <1>3, <1>10, <2>1, <2>2, <2>3
<1>12. BitAt(x, 0) = x % 2 /\ BitAt(y, 0) = y % 2
  <2>1. BitAt(x, 0) = (x \div 1) % 2 /\ BitAt(y, 0) = (y \div 1) % 2
    BY SMT DEF BitAt
  <2>2. x \div 1 = x /\ y \div 1 = y
    BY SMT, <1>4
  <2>3. QED BY <2>1, <2>2
<1>13. x = 2 * (x \div 2) + (x % 2) /\ y = 2 * (y \div 2) + (y % 2)
  BY SMT, <1>4
<1>14. QED BY SMT, <1>3, <1>11, <1>12, <1>13

\* two rows of bytes with the same bits
SameBits(s, t, L) ==
  /\ L \in Nat /\ s \in Seq(Bytes) /\ Len(s) = L /\ t \in Seq(Bytes) /\ Len(t) = L
  /\ \A i \in 1 .. 8 * L : Codec!Bit(s, 8, i) = Codec!Bit(t, 8, i)

\* nor is a row of bytes more than its bits
LEMMA BitsOfBytes ==
  ASSUME NEW L, NEW s, NEW t, SameBits(s, t, L)
  PROVE  s = t
<1>0. /\ L \in Nat /\ s \in Seq(Bytes) /\ Len(s) = L /\ t \in Seq(Bytes) /\ Len(t) = L
      /\ \A i \in 1 .. 8 * L : Codec!Bit(s, 8, i) = Codec!Bit(t, 8, i)
  BY Zenon DEF SameBits
<1>1. ASSUME NEW k \in 1 .. L
      PROVE  s[k] = t[k]
  <2>1. s[k] \in Bytes /\ t[k] \in Bytes
    BY <1>0, ElementOfSeq
  <2>2. ASSUME NEW j \in 0 .. 7
        PROVE  BitAt(s[k], 7 - j) = BitAt(t[k], 7 - j)
    <3> DEFINE i == 8 * (k - 1) + j + 1
    <3>1. i \in 1 .. 8 * L /\ 1 + ((i - 1) \div 8) = k /\ (i - 1) % 8 = j
      <4>1. k \in 1 .. L /\ j \in 0 .. 7
        BY <1>0
      <4>2. i \in 1 .. 8 * L
        BY ONLY SMT, <4>1, <1>0
      <4>3. i - 1 = 8 * (k - 1) + j /\ k - 1 \in Nat
        BY ONLY SMT, <4>1, <1>0
      <4> DEFINE m == k - 1
      <4>4. (8 * m + j) \div 8 = m /\ (8 * m + j) % 8 = j
        <5>1. m \in Nat
          BY <4>3
        <5> HIDE DEF m
        <5>2. QED BY ONLY SMT, <4>1, <5>1
      <4>5. (i - 1) \div 8 = k - 1 /\ (i - 1) % 8 = j
        BY Zenon, <4>3, <4>4
      <4> HIDE DEF i
      <4>6. 1 + (k - 1) = k
        BY <4>1
      <4>7. QED BY Zenon, <4>2, <4>5, <4>6
    <3> HIDE DEF i
    <3>2. Codec!Bit(s, 8, i) = Codec!Bit(t, 8, i)
      BY Zenon, <1>0, <3>1
    <3>3. QED BY Zenon, <3>1, <3>2, BitOf
  <2>3. QED BY Zenon, <2>1, <2>2, BitsOfByte
<1>2. QED BY Zenon, <1>0, <1>1, SeqEqual

\* what the bus client writes
LEMMA PublishedText ==
  ASSUME NEW data, data \in Seq(Bytes),
         NEW e, e = Codec!base64_encode(data), NEW s, s = Codec!WithoutPads(e)
  PROVE  /\ e \in Seq(Codec!Chars) /\ Len(e) % 4 = 0 /\ Len(e) - Len(s) <= 2
         /\ SubSeq(e, 1, Len(s)) = s
         /\ \A i \in 1 .. 6 * Len(s) :
              Codec!Bit(s, 6, i) = IF i <= 8 * Len(data) THEN Codec!Bit(data, 8, i) ELSE 0
         /\ Codec!base64_decode(e) = <<data>>
<1> DEFINE L == Len(data)
           K == (Len(data) + 2) \div 3
           m == L + K
<1>1. Encoding(data, e, K)
  BY Zenon, Encodes
<1> HIDE DEF K
<1>2. /\ K \in Nat /\ L \in Nat /\ e \in Seq(Padded) /\ Len(e) = 4 * K
      /\ 3 * K - 2 <= L /\ L <= 3 * K
      /\ \A j \in 1 .. 4 * K : IF j <= m THEN e[j] \in Letters ELSE e[j] = 64
      /\ \A i \in 1 .. 6 * m :
           Codec!Bit(e, 6, i) = IF i <= 8 * L THEN Codec!Bit(data, 8, i) ELSE 0
  BY Zenon, <1>1 DEF Encoding
<1> HIDE DEF L
<1>3. /\ m \in 0 .. 4 * K /\ 4 * K - m <= 2 /\ (4 * K) % 4 = 0
      /\ (6 * m) \div 8 = L /\ ~ (m % 4 = 1) /\ 8 * L <= 6 * m /\ m \in Nat
  <2> DEFINE r == 3 * K - L
  <2>1. r \in 0 .. 2 /\ L = 3 * K - r /\ m = 4 * K - r
    BY ONLY SMT, <1>2
  <2>2. m \in 0 .. 4 * K /\ 4 * K - m <= 2 /\ 8 * L <= 6 * m /\ m \in Nat
    BY ONLY SMT, <1>2
  <2>3. (4 * K) % 4 = 0
    BY ONLY SMT, <1>2
  <2> HIDE DEF r, m
  <2>4. ~ (m % 4 = 1)
    BY ONLY SMT, <1>2, <2>1
  <2>5. (6 * m) \div 8 = L
    BY ONLY SMT, <1>2, <2>1, <2>2
  <2>6. QED BY <2>2, <2>3, <2>4, <2>5
<1> HIDE DEF m
<1>4. {i \in DOMAIN e : e[i] # 64} = 1 .. m
  <2>1. \A i \in 1 .. 4 * K : i \in 1 .. m <=> i <= m
    BY ONLY SMT, <1>2, <1>3
  <2>2. \A x \in Letters : x # 64
    BY DEF Letters
  <2>3. DOMAIN e = 1 .. 4 * K
    BY <1>2, LenProperties
  <2>4. \A i \in 1 .. m : i \in 1 .. 4 * K
    BY <1>2, <1>3
  <2>5. QED BY Zenon, <1>2, <2>1, <2>2, <2>3, <2>4
<1>5. s = [k \in 1 .. m |-> e[k]]
  <2>1. s = Retain(e, 1 .. m)
    BY Zenon, <1>4, SameOperators DEF Codec!WithoutPads, Codec!Pad
  <2>2. m \in 0 .. Len(e)
    BY <1>2, <1>3
  <2>3. QED BY <1>2, <2>1, <2>2, RetainInitial
<1>6. SubSeq(e, 1, m) = s
  <2>1. m \in 0 .. Len(e)
    BY <1>2, <1>3
  <2>2. SubSeq(e, 1, m) = [k \in 1 .. m |-> e[k]]
    BY <1>2, <2>1, InitialPart
  <2>3. QED BY Zenon, <1>5, <2>2
<1>7. s \in Seq(Letters) /\ Len(s) = m /\ \A k \in 1 .. m : s[k] = e[k]
  <2>1. \A k \in 1 .. m : k \in 1 .. 4 * K /\ k <= m
    BY <1>2, <1>3
  <2>2. \A k \in 1 .. m : e[k] \in Letters
    BY Zenon, <1>2, <2>1
  <2>3. s \in [1 .. m -> Letters]
    BY Zenon, <1>5, <2>2
  <2>4. QED BY Zenon, <1>3, <1>5, <2>3, FunctionIsSeq
<1>8. ASSUME NEW i \in 1 .. 6 * m
      PROVE  Codec!Bit(s, 6, i) = IF i <= 8 * L THEN Codec!Bit(data, 8, i) ELSE 0
  <2>1. 1 + ((i - 1) \div 6) \in 1 .. m
    BY ONLY SMT, <1>3, i \in 1 .. 6 * m
  <2>2. s[1 + ((i - 1) \div 6)] = e[1 + ((i - 1) \div 6)]
    BY Zenon, <1>7, <2>1
  <2>3. Codec!Bit(s, 6, i) = Codec!Bit(e, 6, i)
    BY Zenon, <2>2, BitOf
  <2>4. QED BY Zenon, <1>2, <2>3
<1>9. Codec!base64_decode(e) = <<data>>
  <2>1. PICK d : Codec!base64_decode(e) = <<d>> /\ Decoding(s, d)
    BY Zenon, <1>3, <1>7, Decodes
  <2>2. /\ d \in Seq(Bytes) /\ Len(d) = L
        /\ \A i \in 1 .. 8 * L : Codec!Bit(d, 8, i) = Codec!Bit(s, 6, i)
    BY Zenon, <1>3, <1>7, <2>1 DEF Decoding
  <2>3. \A i \in 1 .. 8 * L : i \in 1 .. 6 * m /\ i <= 8 * L
    BY ONLY SMT, <1>2, <1>3
  <2>4. \A i \in 1 .. 8 * L : Codec!Bit(d, 8, i) = Codec!Bit(data, 8, i)
    BY Zenon, <1>8, <2>2, <2>3
  <2>5. Len(data) = L
    BY DEF L
  <2>6. d = data
    <3>1. L \in Nat /\ data \in Seq(Bytes)
      BY <1>2
    <3>2. SameBits(d, data, L)
      BY Zenon, <2>2, <2>4, <2>5, <3>1 DEF SameBits
    <3>3. QED BY ONLY Zenon, <3>2, BitsOfBytes
  <2>7. QED BY Zenon, <2>1, <2>6
<1>10. e \in Seq(Codec!Chars)
  <2>1. Padded \subseteq Codec!Chars
    BY DEF Padded, Codec!Chars, Codec!Other
  <2>2. \A i \in 1 .. Len(e) : e[i] \in Padded
    BY <1>2, ElementOfSeq
  <2>3. e = [i \in 1 .. Len(e) |-> e[i]] /\ Len(e) \in Nat
    BY <1>2, LenProperties, SeqDef
  <2>4. e \in [1 .. Len(e) -> Codec!Chars]
    BY Zenon, <2>1, <2>2, <2>3
  <2>5. QED BY Zenon, <2>3, <2>4, FunctionIsSeq
<1>11. QED BY Zenon, <1>2, <1>3, <1>6, <1>7, <1>8, <1>9, <1>10 DEF L

\* what is decoded encodes to the text's own bits
LEMMA Reencodes ==
  ASSUME NEW s, NEW d, Decoding(s, d)
  PROVE  \A i \in 1 .. 8 * Len(d) : Codec!Bit(Codec!base64_encode(d), 6, i) = Codec!Bit(s, 6, i)
<1> DEFINE L == Len(d)
           K == (Len(d) + 2) \div 3
           e == Codec!base64_encode(d)
<1>1. d \in Seq(Bytes) /\ \A i \in 1 .. 8 * L : Codec!Bit(d, 8, i) = Codec!Bit(s, 6, i)
  BY Zenon DEF Decoding
<1>2. Encoding(d, e, K)
  BY Zenon, <1>1, Encodes
<1> HIDE DEF e, K
<1>3. /\ K \in Nat /\ L \in Nat /\ L <= 3 * K
      /\ \A i \in 1 .. 6 * (L + K) :
           Codec!Bit(e, 6, i) = IF i <= 8 * L THEN Codec!Bit(d, 8, i) ELSE 0
  BY Zenon, <1>2 DEF Encoding
<1> HIDE DEF L
<1>4. \A i \in 1 .. 8 * L : i \in 1 .. 6 * (L + K) /\ i <= 8 * L
  BY ONLY SMT, <1>3
<1>5. QED BY Zenon, <1>1, <1>3, <1>4 DEF e, L

-----------------------------------------------------------------------------
(* The encoding of payloads: the entry of a stream.                        *)

(* What a stream's entry holds: the encoding of the payload, if the bus    *)
(* client wrote it; what the client parsed is the field decoded.           *)
CodecInv ==
  /\ payload \in Payloads \cup {NoPayload} /\ field \in Seq(Codec!Chars)
  /\ payload # NoPayload => field = Codec!base64_encode(payload)
  /\ parsed # NoPayload => parsed = Codec!base64_decode(field)

(* The codec's constants; a payload is bytes.                              *)
LEMMA CodecConstants ==
  /\ Payloads \subseteq Seq(Bytes) /\ Texts \subseteq Seq(Codec!Chars)
  /\ NoPayload \notin Payloads
BY PartsConstants DEF Codec!CodecAssumption, Bytes

(* The invariant holds of an entry not yet written.                        *)
LEMMA CodecInit == Codec!Init => CodecInv
<1>1. << >> \in Seq(Codec!Chars)
  OBVIOUS
<1>2. QED BY <1>1 DEF Codec!Init, CodecInv

(* Every step of the codec keeps it.                                       *)
LEMMA CodecStepKeeps == CodecInv /\ [Codec!Next]_codecVars => CodecInv'
<1> SUFFICES ASSUME CodecInv, [Codec!Next]_codecVars PROVE CodecInv'
  OBVIOUS
<1>1. CASE UNCHANGED codecVars
  BY <1>1 DEF codecVars, CodecInv
<1>2. CASE Codec!ParseStreamEntry
  <2>1. payload' = payload /\ field' = field /\ parsed' = Codec!base64_decode(field)
    BY <1>2 DEF Codec!ParseStreamEntry
  <2>2. QED BY Zenon, <2>1 DEF CodecInv
<1>3. ASSUME NEW data \in Payloads, Codec!PublishToStream(data) PROVE CodecInv'
  <2>1. payload' = data /\ field' = Codec!base64_encode(data) /\ parsed' = NoPayload
    BY <1>3 DEF Codec!PublishToStream, Codec!Unwritten, Codec!Init
  <2>2. data \in Seq(Bytes)
    BY CodecConstants
  <2>3. Codec!base64_encode(data) \in Seq(Codec!Chars)
    BY Zenon, <2>2, PublishedText
  <2>4. QED BY Zenon, <2>1, <2>3 DEF CodecInv
<1>4. ASSUME NEW text \in Texts, Codec!OtherWriter(text) PROVE CodecInv'
  <2>1. payload' = NoPayload /\ field' = text /\ parsed' = NoPayload
    BY <1>4 DEF Codec!OtherWriter, Codec!Unwritten, Codec!Init
  <2>2. text \in Seq(Codec!Chars)
    BY CodecConstants
  <2>3. QED BY Zenon, <2>1, <2>2 DEF CodecInv
<1>5. QED BY <1>1, <1>2, <1>3, <1>4 DEF Codec!Next

(* A step of the process is one of the codec or leaves it alone.           *)
LEMMA PartsStepOfCodec == [PartsNext]_allVars => [Codec!Next]_codecVars
BY DEF PartsNext, allVars

(* The invariant of the codec holds in every state of the process.         *)
LEMMA CodecInvariant == PartsSpec => []CodecInv
<1>1. PartsInit => CodecInv
  BY CodecInit DEF PartsInit
<1>2. CodecInv /\ [PartsNext]_allVars => CodecInv'
  BY CodecStepKeeps, PartsStepOfCodec
<1>3. QED BY <1>1, <1>2, PTL DEF PartsSpec, allVars

(* The codec's type invariant from the inductive one: what is decoded, of  *)
(* whatever text, is bytes.                                                *)
LEMMA CodecInvTyped == CodecInv => Codec!TypeOK
<1> SUFFICES ASSUME CodecInv PROVE Codec!TypeOK
  OBVIOUS
<1>1. ASSUME parsed # NoPayload
      PROVE  parsed = << >> \/ parsed[1] \in Seq(0 .. 255)
  <2>1. parsed = Codec!base64_decode(field) /\ field \in Seq(Codec!Chars)
    BY <1>1 DEF CodecInv
  <2>2. parsed = << >> \/ \E d \in Seq(Bytes) : parsed = <<d>>
    BY Zenon, <2>1, DecodeTyped
  <2>3. \A d : <<d>>[1] = d
    OBVIOUS
  <2>4. QED BY <2>2, <2>3 DEF Bytes
<1>2. QED BY <1>1 DEF CodecInv, Codec!TypeOK

(* What the codec promises, from the invariant: of a published payload,    *)
(* and of any text over the alphabet.                                      *)
LEMMA CodecInvExact == CodecInv => CodecIsExact
<1> SUFFICES ASSUME CodecInv, parsed # NoPayload PROVE CodecIsExact
  BY DEF CodecIsExact, Codec!CodecIsExact
<1> DEFINE s == Codec!Stripped
<1>1. parsed = Codec!base64_decode(field) /\ field \in Seq(Codec!Chars)
  BY DEF CodecInv
<1>2. s = Codec!WithoutPads(field)
  BY Zenon DEF Codec!Stripped
<1> HIDE DEF s
<1>3. ASSUME payload # NoPayload
      PROVE  /\ parsed = <<payload>>
             /\ Len(field) % 4 = 0 /\ Len(field) - Len(s) <= 2
             /\ SubSeq(field, 1, Len(s)) = s
             /\ \A i \in 1 .. 6 * Len(s) :
                  Codec!Bit(s, 6, i)
                    = IF i <= 8 * Len(payload) THEN Codec!Bit(payload, 8, i) ELSE 0
  <2>1. payload \in Seq(Bytes) /\ field = Codec!base64_encode(payload)
    BY <1>3, CodecConstants DEF CodecInv
  <2>2. QED BY Zenon, <1>1, <1>2, <2>1, PublishedText
<1>4. ASSUME \A i \in DOMAIN field : field[i] # Codec!Other
      PROVE  IF Len(s) % 4 = 1 THEN parsed = << >>
             ELSE /\ Len(parsed[1]) = (6 * Len(s)) \div 8
                  /\ \A i \in 1 .. 8 * Len(parsed[1]) :
                       Codec!Bit(Codec!base64_encode(parsed[1]), 6, i) = Codec!Bit(s, 6, i)
  <2>1. s \in Seq(Letters)
    BY Zenon, <1>1, <1>2, <1>4, WithoutPadsTyped
  <2>2. IF Len(s) % 4 = 1 THEN parsed = << >>
        ELSE \E d : parsed = <<d>> /\ Decoding(s, d)
    BY Zenon, <1>1, <1>2, <2>1, Decodes
  <2>3. CASE Len(s) % 4 = 1
    BY Zenon, <2>2, <2>3
  <2>4. CASE Len(s) % 4 # 1
    <3>1. PICK d : parsed = <<d>> /\ Decoding(s, d)
      BY Zenon, <2>2, <2>4
    <3>2. parsed[1] = d
      BY <3>1
    <3>3. Len(d) = (6 * Len(s)) \div 8
      BY Zenon, <3>1 DEF Decoding
    <3>4. \A i \in 1 .. 8 * Len(d) :
            Codec!Bit(Codec!base64_encode(d), 6, i) = Codec!Bit(s, 6, i)
      BY Zenon, <3>1, Reencodes
    <3>5. QED BY Zenon, <2>4, <3>2, <3>3, <3>4
  <2>5. QED BY <2>3, <2>4
<1>5. QED BY Zenon, <1>3, <1>4 DEF CodecIsExact, Codec!CodecIsExact, s

(* MCIronClaw's CodecIsExact for every set of payloads and of texts: the   *)
(* characters base64_encode writes are the payload's bits in order, and    *)
(* parse_stream_entry decodes them to the payload; of a text another       *)
(* writer put there, over the alphabet, nothing but bits that make no byte *)
(* is lost, and a group of one character is refused.                       *)
THEOREM PayloadsSurvive == PartsSpec => []CodecIsExact
BY CodecInvariant, CodecInvExact, PTL

-----------------------------------------------------------------------------
(* The types.                                                              *)

(* The gateway's type invariant from the inductive one: a client's vector  *)
(* never holds more than the limit, nor the count of it.                   *)
LEMMA GatewayInvTyped == GatewayInv => Gateway!TypeOK
<1> SUFFICES ASSUME GatewayInv PROVE Gateway!TypeOK
  OBVIOUS
<1>1. ASSUME NEW c \in Clients
      PROVE  /\ kept[c] \subseteq DOMAIN log[c]
             /\ Gateway!current_count(c, clock) <= Gateway!Cardinality(kept[c])
             /\ Gateway!Cardinality(kept[c]) <= MaxRequests
  <2>1. clock \in Nat /\ log[c] \in Seq(Nat)
    BY DEF GatewayInv, GatewayTyped
  <2>2. /\ kept[c] \subseteq 1 .. Len(log[c]) /\ Cardinality(kept[c]) <= MaxRequests
        /\ Cardinality(Gateway!Retained(c, clock)) <= Cardinality(kept[c])
    BY <2>1, RetainedFacts
  <2>3. DOMAIN log[c] = 1 .. Len(log[c])
    BY <2>1
  <2>4. Gateway!current_count(c, clock) = Cardinality(Gateway!Retained(c, clock))
    BY SameCardinality DEF Gateway!current_count, Gateway!Retained
  <2>5. QED BY <2>2, <2>3, <2>4, SameCardinality
<1>2. QED BY <1>1 DEF GatewayInv, GatewayTyped, Gateway!TypeOK

(* The vault's type invariant from the inductive one.                      *)
LEMMA VaultInvTyped == VaultInv => Vault!TypeOK
<1> SUFFICES ASSUME VaultInv PROVE Vault!TypeOK
  OBVIOUS
<1>1. \A k \in DOMAIN token_cache :
        token_cache[k] \in Vault!ScopedTokens /\ token_cache[k].key = k
  BY CachedIsToken
<1>2. request = NoOne \/ request \in
        [key : Vault!Keys, now : Nat, version : 0 .. MaxVersions \cup {NoOne}]
  BY DEF VaultInv, RequestFresh, Vault!Keys
<1>3. QED BY <1>1, <1>2 DEF VaultInv, Vault!TypeOK, Vault!Keys

(* The types of the gateway, the vault and the sandbox for all values of   *)
(* their constants; among them that a client's vector of timestamps never  *)
(* outgrows the limit and that a token is cached under its own key.        *)
LEMMA PartsTyped ==
  PartsSpec => [](Gateway!TypeOK /\ Vault!TypeOK /\ Sandbox!TypeOK)
<1>1. PartsInit => VaultInv /\ SandboxInv
  BY VaultInit, SandboxInit DEF PartsInit
<1>2. VaultInv /\ SandboxInv /\ [PartsNext]_allVars => VaultInv' /\ SandboxInv'
  BY VaultStepKeeps, PartsStepOfVault, SandboxStepKeeps, PartsStepOfSandbox
<1>3. GatewayInv /\ VaultInv /\ SandboxInv =>
        Gateway!TypeOK /\ Vault!TypeOK /\ Sandbox!TypeOK
  BY GatewayInvTyped, VaultInvTyped DEF SandboxInv
<1>4. QED BY <1>1, <1>2, <1>3, GatewayInvariant, PTL DEF PartsSpec, allVars

(* MCIronClaw's TypesOK for all values of the constants: the types of all  *)
(* five parts; among them that no text, whatever its characters, is        *)
(* decoded to anything but bytes.                                          *)
THEOREM AllTyped == PartsSpec => []TypesOK
<1>1. PartsInit => RegistryInv
  BY RegistryInit DEF PartsInit
<1>2. RegistryInv /\ [PartsNext]_allVars => RegistryInv'
  BY RegistryStepKeeps, PartsStepOfRegistry
<1>3. RegistryInv => TypeOK
  BY DEF RegistryInv
<1>4. TypeOK /\ Codec!TypeOK /\ Gateway!TypeOK /\ Vault!TypeOK /\ Sandbox!TypeOK => TypesOK
  BY DEF TypesOK
<1>5. QED BY <1>1, <1>2, <1>3, <1>4, PartsTyped, CodecInvariant, CodecInvTyped, PTL
       DEF PartsSpec, allVars

=============================================================================
