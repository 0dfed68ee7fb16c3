-------------------------- MODULE CredentialVault ---------------------------
(***************************************************************************)
(* IronClaw's credential vault (ironclaw/src/credential_vault.rs): an      *)
(* agent gets a token derived from a secret it owns, valid for MaxTtl from *)
(* the time its request read the clock, and the same token again while the *)
(* cached one has not expired.                                             *)
(*                                                                         *)
(* request_credential holds the vault mutably across the await of the      *)
(* backend, so requests are served one at a time.  Secrets are rotated at  *)
(* the backend, which the vault is not told of.                            *)
(***************************************************************************)
EXTENDS Naturals, Sequences

CONSTANTS
  Agents, Secrets,
  Owned,       \* ownership_map: [Agents -> SUBSET Secrets]
  MaxTtl,      \* MAX_TTL_SECONDS
  EndOfTime,   \* bound: the last second
  MaxVersions, \* bound: rotations of one secret
  NoOne        \* no request, no token

VaultAssumption ==
  /\ Owned \in [Agents -> SUBSET Secrets]
  /\ MaxTtl \in Nat \ {0} /\ EndOfTime \in Nat /\ MaxVersions \in Nat

VARIABLES
  time,
  rotations,  \* [Secrets -> Seq(Nat)], when the backend's value changed
  token_cache,
  request,    \* the request in progress, or NoOne
  served      \* what the last step returned, and to whom, or NoOne

vars == <<time, rotations, token_cache, request, served>>

Keys == Agents \X Secrets

\* ScopedToken; its opaque value stands for what was hashed into it
Token(key, version, now) ==
  [key |-> key, version |-> version, expires_at |-> now + MaxTtl]

ScopedTokens == [key : Keys, version : 0 .. MaxVersions, expires_at : Nat]

Init ==
  /\ time = 0
  /\ rotations = [s \in Secrets |-> << >>]
  /\ token_cache = [key \in {} |-> NoOne]
  /\ request = NoOne
  /\ served = NoOne

check_authorization(a, s) == s \in Owned[a]

is_expired_at(token, now) == now >= token.expires_at

Valid(key, now) ==
  key \in DOMAIN token_cache /\ ~is_expired_at(token_cache[key], now)

Serve(key, started, token) ==
  served' = [key |-> key, started |-> started, at |-> time, token |-> token]

-----------------------------------------------------------------------------
Refuse(a, s) ==
  /\ request = NoOne
  /\ ~check_authorization(a, s)
  /\ served' = NoOne
  /\ UNCHANGED <<time, rotations, token_cache, request>>

FromCache(a, s) ==
  /\ request = NoOne
  /\ check_authorization(a, s)
  /\ Valid(<<a, s>>, time)
  /\ Serve(<<a, s>>, time, token_cache[<<a, s>>])
  /\ UNCHANGED <<time, rotations, token_cache, request>>

(* The time is read here; the backend is asked and awaited.                *)
Ask(a, s) ==
  /\ request = NoOne
  /\ check_authorization(a, s)
  /\ ~Valid(<<a, s>>, time)
  /\ request' = [key |-> <<a, s>>, now |-> time, version |-> NoOne]
  /\ served' = NoOne
  /\ UNCHANGED <<time, rotations, token_cache>>

(* The backend reads the secret; its answer travels back.                  *)
ReadSecret ==
  /\ request # NoOne
  /\ request.version = NoOne
  /\ request' = [request EXCEPT !.version = Len(rotations[request.key[2]])]
  /\ served' = NoOne
  /\ UNCHANGED <<time, rotations, token_cache>>

\* mutant: the token is dated when the answer arrives
IssueDatedLate ==
  /\ request # NoOne
  /\ request.version # NoOne
  /\ LET token == Token(request.key, request.version, time)
     IN /\ token_cache' = [k \in DOMAIN token_cache \cup {request.key} |->
                             IF k = request.key THEN token ELSE token_cache[k]]
        /\ Serve(request.key, request.now, token)
  /\ request' = NoOne
  /\ UNCHANGED <<time, rotations>>

(* The answer arrives: the token is generated, cached and returned.        *)
Issue ==
  /\ request # NoOne
  /\ request.version # NoOne
  /\ LET token == Token(request.key, request.version, request.now)
     IN /\ token_cache' = [k \in DOMAIN token_cache \cup {request.key} |->
                             IF k = request.key THEN token ELSE token_cache[k]]
        /\ Serve(request.key, request.now, token)
  /\ request' = NoOne
  /\ UNCHANGED <<time, rotations>>

(* The backend fails or has no such secret; an expired token stays cached. *)
Fail ==
  /\ request # NoOne
  /\ request' = NoOne
  /\ served' = NoOne
  /\ UNCHANGED <<time, rotations, token_cache>>

evict_expired_tokens ==
  /\ request = NoOne
  /\ LET live == {k \in DOMAIN token_cache : Valid(k, time)}
     IN /\ live # DOMAIN token_cache
        /\ token_cache' = [k \in live |-> token_cache[k]]
  /\ served' = NoOne
  /\ UNCHANGED <<time, rotations, request>>

Tick ==
  /\ time < EndOfTime
  /\ time' = time + 1
  /\ served' = NoOne
  /\ UNCHANGED <<rotations, token_cache, request>>

Rotate(s) ==
  /\ Len(rotations[s]) < MaxVersions
  /\ rotations' = [rotations EXCEPT ![s] = Append(@, time)]
  /\ served' = NoOne
  /\ UNCHANGED <<time, token_cache, request>>

request_credential(a, s) == Refuse(a, s) \/ FromCache(a, s) \/ Ask(a, s)

Next ==
  \/ \E a \in Agents, s \in Secrets : request_credential(a, s)
  \/ ReadSecret \/ Issue \/ Fail
  \/ evict_expired_tokens
  \/ Tick
  \/ \E s \in Secrets : Rotate(s)

Spec == Init /\ [][Next]_vars

-----------------------------------------------------------------------------
(* Every variable has its type, and the cache holds a token under the key  *)
(* it was derived for.                                                     *)
TypeOK ==
  /\ time \in 0 .. EndOfTime
  /\ rotations \in [Secrets -> Seq(Nat)]
  /\ \A k \in DOMAIN token_cache :
       token_cache[k] \in ScopedTokens /\ token_cache[k].key = k
  /\ request = NoOne \/ request \in
       [key : Keys, now : Nat, version : 0 .. MaxVersions \cup {NoOne}]
  /\ served = NoOne \/ served \in
       [key : Keys, started : Nat, at : Nat, token : ScopedTokens]

Retired(s, version) == version < Len(rotations[s])

(* What an agent gets is a token of its own for a secret it owns; one that *)
(* has expired when it is returned was fetched by a backend call as long   *)
(* as the lifetime of a token; and a request that starts a lifetime after  *)
(* a secret was rotated never gets a token of the old value, however long  *)
(* the fetch took that put the token in the cache.                         *)
ServedIsFresh ==
  served # NoOne =>
    LET token == served.token  s == served.key[2]
    IN /\ token.key = served.key /\ check_authorization(served.key[1], s)
       /\ served.at >= token.expires_at => served.at - served.started >= MaxTtl
       /\ Retired(s, token.version) =>
            served.started < rotations[s][token.version + 1] + MaxTtl
=============================================================================
