----------------------------- MODULE MCIronClaw -----------------------------
(* The components of the IronClaw process that share no state with one     *)
(* another, checked in one run: a behaviour runs one of them, chosen in    *)
(* the initial state, which loses none of the behaviours of the others.    *)
EXTENDS AgentRegistry, TLC

CONSTANTS Clients, Tokens, Handlers, MaxRequests, Window, Second, Leeway, Epoch,
          MaxTime,
          Secrets, Owned, MaxTtl, EndOfTime, MaxVersions, NoOne,
          FuelLimit, MaxPages, AllPages, MaxCalls,
          Payloads, Texts, NoPayload

VARIABLES
  part,
  clock, stage, client, now, log, kept, answer,
  latest, overtaken, refusedAt, promised,
  time, rotations, token_cache, request, served,
  shape, pages, fuel, fuel_consumed, memory_used, terminated, result, burnt, calls,
  payload, field, parsed

gatewayVars == <<clock, stage, client, now, log, kept, answer,
                 latest, overtaken, refusedAt, promised>>
vaultVars == <<time, rotations, token_cache, request, served>>
sandboxVars == <<shape, pages, fuel, fuel_consumed, memory_used, terminated,
                 result, burnt, calls>>
codecVars == <<payload, field, parsed>>

\* each client has a token for the whole run and one that expires at the start
MCTokens == [form : {"signed"}, sub : Clients, exp : {Epoch \div Second, MaxTime}]
              \cup [form : {"missing", "garbage", "forged"}, sub : Clients, exp : {0}]

\* the first agent owns every secret, the others one
MCOwned ==
  LET first == CHOOSE a \in Agents : TRUE
      one == CHOOSE s \in Secrets : TRUE
  IN [a \in Agents |-> IF a = first THEN Secrets ELSE {one}]

Gateway == INSTANCE ApiGateway
Vault == INSTANCE CredentialVault
Sandbox == INSTANCE WasmSandbox
Codec == INSTANCE Base64

MCPayloads == UNION {[1 .. n -> {0, 97, 128, 255}] : n \in 0 .. 4}
\* some letters, Pad and Other
MCTexts == UNION {[1 .. n -> {0, 26, 63, 64, 65}] : n \in 0 .. 5}

ASSUME PartsConstants ==
  /\ Gateway!GatewayAssumption /\ Vault!VaultAssumption
  /\ Sandbox!SandboxAssumption /\ Codec!CodecAssumption

\* a part that does not run rests in one of its initial states
SandboxIdle == shape = "hidden" /\ fuel = FuelLimit

PartsInit ==
  /\ part \in {"registry", "gateway", "vault", "sandbox", "codec"}
  /\ Init
  /\ Gateway!Init
  /\ Vault!Init
  /\ Sandbox!Init /\ (part # "sandbox" => SandboxIdle)
  /\ Codec!Init

PartsNext ==
  \/ /\ part = "registry" /\ Next
     /\ UNCHANGED <<part, gatewayVars, vaultVars, sandboxVars, codecVars>>
  \/ /\ part = "gateway" /\ Gateway!Next
     /\ UNCHANGED <<part, vars, vaultVars, sandboxVars, codecVars>>
  \/ /\ part = "vault" /\ Vault!Next
     /\ UNCHANGED <<part, vars, gatewayVars, sandboxVars, codecVars>>
  \/ /\ part = "sandbox" /\ Sandbox!Next
     /\ UNCHANGED <<part, vars, gatewayVars, vaultVars, codecVars>>
  \/ /\ part = "codec" /\ Codec!Next
     /\ UNCHANGED <<part, vars, gatewayVars, vaultVars, sandboxVars>>

PartsSpec ==
  PartsInit /\ [][PartsNext]_<<part, vars, gatewayVars, vaultVars, sandboxVars, codecVars>>

-----------------------------------------------------------------------------
(* Every variable of every part has its type; see the TypeOK of each.      *)
TypesOK ==
  TypeOK /\ Gateway!TypeOK /\ Vault!TypeOK /\ Sandbox!TypeOK /\ Codec!TypeOK

(* While a client's checks reach the limiter in the order of their times,  *)
(* it gets no more than MaxRequests through in any window.                 *)
LimitUnlessOvertaken == Gateway!LimitUnlessOvertaken

(* A client refused by the limiter that waits a second longer than told    *)
(* is not refused again.                                                   *)
RetryWithinASecond == Gateway!RetryWithinASecond

(* An agent gets a live token of its own for the secret's current value,   *)
(* late by no more than a token's lifetime and the fetch.                  *)
ServedIsFresh == Vault!ServedIsFresh

(* A sandbox's reported fuel and memory are those it used, whatever way    *)
(* its calls ended, but for the fuel of its last call.                     *)
UsageIsExact == Sandbox!UsageIsExact

(* A payload survives its encoding, and no text over the alphabet is       *)
(* decoded to anything but its bits.                                       *)
CodecIsExact == Codec!CodecIsExact
=============================================================================
