----------------------------- MODULE ApiGateway -----------------------------
(***************************************************************************)
(* IronClaw's gateway (ironclaw/src/api_gateway.rs): a request, by REST or *)
(* gRPC, is authenticated by its JWT, checked by the sliding-window rate   *)
(* limiter and published on the bus.                                       *)
(*                                                                         *)
(* Requests are handled concurrently.  An authenticated one reads the      *)
(* clock first and waits for the limiter's mutex afterwards, so the checks *)
(* of one client need not happen in the order of their times; it then      *)
(* awaits the bus.  The server drops a handler whose connection closes.    *)
(*                                                                         *)
(* The vector of a client's timestamps is kept as the log of all times     *)
(* ever recorded, in the order they were pushed, and the set of positions  *)
(* of that log the vector still holds.                                     *)
(***************************************************************************)
EXTENDS Naturals, Sequences, FiniteSets

CONSTANTS
  Clients,
  Tokens,       \* what requests bring: [form, sub, exp], see Forms
  Handlers,     \* requests in progress at once
  MaxRequests,  \* max_requests
  Window,       \* window, in clock ticks
  Second,       \* clock ticks per second
  Leeway,       \* seconds the JWT library lets a token outlive its exp
  Epoch,        \* the time the gateway starts, later than one window
  MaxTime       \* bound: the last tick

\* no token, not a JWT, a JWT of another key, a JWT of the gateway's key
Forms == {"missing", "garbage", "forged", "signed"}

\* assumed of the constants by whoever instantiates the module
GatewayAssumption ==
  /\ Tokens \subseteq [form : Forms, sub : Clients, exp : Nat]
  /\ MaxRequests \in Nat \ {0}
  /\ Window \in Nat \ {0}
  /\ Second \in Nat \ {0}
  /\ Leeway \in Nat
  /\ Epoch \in Nat /\ Window < Epoch
  /\ MaxTime \in Nat

VARIABLES
  clock,
  stage,      \* [Handlers -> {"idle", "check", "publish"}]
  client,     \* [Handlers -> Clients], claims.sub of a request in progress
  now,        \* [Handlers -> Nat], the time the handler read
  log,        \* [Clients -> Seq(Nat)]
  kept,       \* [Clients -> SUBSET Nat]
  answer,     \* the status the gateway answered last, 0 before it
  \* history, never read by the code
  latest,     \* [Clients -> Nat], the latest time checked so far
  overtaken,  \* [Clients -> BOOLEAN], did a check follow one of a later time?
  refusedAt,  \* [Clients -> Nat], time of the last refusal, 0 after a success
  promised    \* [Clients -> Nat], when that refusal told the client to retry

requests == <<stage, client, now>>
limiter == <<log, kept>>
history == <<latest, overtaken, refusedAt, promised>>
vars == <<clock, requests, limiter, answer, history>>

Init ==
  /\ clock = Epoch
  /\ stage = [h \in Handlers |-> "idle"]
  /\ client \in [Handlers -> Clients]
  /\ now = [h \in Handlers |-> 0]
  /\ log = [c \in Clients |-> << >>]
  /\ kept = [c \in Clients |-> {}]
  /\ answer = 0
  /\ latest = [c \in Clients |-> 0]
  /\ overtaken = [c \in Clients |-> FALSE]
  /\ refusedAt = [c \in Clients |-> 0]
  /\ promised = [c \in Clients |-> 0]

Tick ==
  /\ clock < MaxTime
  /\ clock' = clock + 1
  /\ UNCHANGED <<requests, limiter, answer, history>>

-----------------------------------------------------------------------------
\* create_task: the HTTP status of what handle_request returns
StatusOf == [Ok |-> 202, Auth |-> 401, RateLimit |-> 429, BusPublishFailed |-> 500]

(* Authentication.  Times of a token are in whole seconds.                 *)

validate_jwt(token) ==
  IF token.form # "signed" THEN token.form
  ELSE IF token.exp + Leeway < clock \div Second THEN "expired"
  ELSE "valid"

(* The limiter is not asked.                                               *)
Reject(h, token) ==
  /\ stage[h] = "idle"
  /\ validate_jwt(token) # "valid"
  /\ answer' = StatusOf.Auth
  /\ UNCHANGED <<clock, requests, limiter, history>>

(* check_rate_limit up to the lock.                                        *)
Authenticate(h, token) ==
  /\ stage[h] = "idle"
  /\ validate_jwt(token) = "valid"
  /\ stage' = [stage EXCEPT ![h] = "check"]
  /\ client' = [client EXCEPT ![h] = token.sub]
  /\ now' = [now EXCEPT ![h] = clock]
  /\ UNCHANGED <<clock, limiter, answer, history>>

-----------------------------------------------------------------------------
(* The rate limiter.                                                       *)

\* mutants: an entry expires a tick early, or never
RetainedEarly(c, t) == {i \in kept[c] : log[c][i] > t - Window + 1}
RetainedAll(c, t) == kept[c]

\* timestamps.retain(|ts| ts > window_start)
Retained(c, t) == {i \in kept[c] : log[c][i] > t - Window}

current_count(c, t) == Cardinality({i \in kept[c] : log[c][i] > t - Window})

Oldest(S) == CHOOSE i \in S : \A j \in S : i <= j

RetryAfter(c, S, t) ==
  LET secs == (log[c][Oldest(S)] + Window - t) \div Second
  IN IF secs > 1 THEN secs ELSE 1

Leave(h) ==
  /\ stage' = [stage EXCEPT ![h] = "idle"]
  /\ now' = [now EXCEPT ![h] = 0]
  /\ UNCHANGED client

\* the handler gets the lock and, after its check, lets it go
Locked(h, c) ==
  /\ stage[h] = "check" /\ client[h] = c
  /\ overtaken' = [overtaken EXCEPT ![c] = @ \/ now[h] < latest[c]]
  /\ latest' = [latest EXCEPT ![c] = IF now[h] > @ THEN now[h] ELSE @]
  /\ UNCHANGED clock

(* With the time to wait.                                                  *)
Refuse(h, c) ==
  /\ Locked(h, c)
  /\ Cardinality(Retained(c, now[h])) >= MaxRequests
  /\ kept' = [kept EXCEPT ![c] = Retained(c, now[h])]
  /\ refusedAt' = [refusedAt EXCEPT ![c] = now[h]]
  /\ promised' = [promised EXCEPT ![c] =
       now[h] + Second * RetryAfter(c, Retained(c, now[h]), now[h])]
  /\ Leave(h)
  /\ answer' = StatusOf.RateLimit
  /\ UNCHANGED log

Admit(h, c) ==
  /\ Locked(h, c)
  /\ Cardinality(Retained(c, now[h])) < MaxRequests
  /\ kept' = [kept EXCEPT ![c] = Retained(c, now[h]) \cup {Len(log[c]) + 1}]
  /\ log' = [log EXCEPT ![c] = Append(@, now[h])]
  /\ refusedAt' = [refusedAt EXCEPT ![c] = 0]
  /\ promised' = [promised EXCEPT ![c] = 0]
  /\ stage' = [stage EXCEPT ![h] = "publish"]
  /\ UNCHANGED <<client, now, answer>>

-----------------------------------------------------------------------------
(* The bus has the task, or fails; the slot stays taken.                   *)
Publish(h, result) ==
  /\ stage[h] = "publish"
  /\ Leave(h)
  /\ answer' = StatusOf[result]
  /\ UNCHANGED <<clock, limiter, history>>

(* The connection closes while the handler waits for the lock or the bus.  *)
HangUp(h) ==
  /\ stage[h] # "idle"
  /\ Leave(h)
  /\ UNCHANGED <<clock, limiter, answer, history>>

handle_request(h) ==
  \/ \E token \in Tokens : Reject(h, token) \/ Authenticate(h, token)
  \/ \E c \in Clients : Refuse(h, c) \/ Admit(h, c)
  \/ \E result \in {"Ok", "BusPublishFailed"} : Publish(h, result)
  \/ HangUp(h)

Next == Tick \/ \E h \in Handlers : handle_request(h)

Spec == Init /\ [][Next]_vars

-----------------------------------------------------------------------------
(* Every variable has its type; a client's vector never outgrows the       *)
(* limit, however its checks interleave.                                   *)
TypeOK ==
  /\ clock \in Nat
  /\ stage \in [Handlers -> {"idle", "check", "publish"}]
  /\ client \in [Handlers -> Clients]
  /\ now \in [Handlers -> Nat]
  /\ log \in [Clients -> Seq(Nat)]
  /\ answer \in {0, 202, 401, 429, 500}
  /\ \A c \in Clients :
       /\ kept[c] \subseteq DOMAIN log[c]
       /\ current_count(c, clock) <= Cardinality(kept[c])
       /\ Cardinality(kept[c]) <= MaxRequests
  /\ latest \in [Clients -> Nat]
  /\ overtaken \in [Clients -> BOOLEAN]
  /\ refusedAt \in [Clients -> Nat]
  /\ promised \in [Clients -> Nat]

InWindow(c, t) ==
  {i \in DOMAIN log[c] : t - Window < log[c][i] /\ log[c][i] <= t}

(* As long as the checks of a client reach the limiter in the order of     *)
(* their times, no window of the length given, wherever it ends, contains  *)
(* more than MaxRequests admitted requests.                                *)
LimitUnlessOvertaken ==
  \A c \in Clients : ~overtaken[c] =>
    \A i \in DOMAIN log[c] :
      Cardinality(InWindow(c, log[c][i])) <= MaxRequests

(* A client that waits one second longer than a refusal told it to, with   *)
(* none of its requests admitted meanwhile, is not refused again: the      *)
(* retry_after the gateway sends is short by less than a second.           *)
RetryWithinASecond ==
  [][\A c \in Clients :
       (refusedAt[c] # 0 /\ refusedAt'[c] \notin {0, refusedAt[c]}) =>
          refusedAt'[c] < promised[c] + Second]_vars

=============================================================================
