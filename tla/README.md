# CalangoFlux Agentic OS: TLA+ verification project

This directory holds TLA+ models of the CalangoFlux Agentic OS, the TLC
configurations that check them on small instances, and TLAPS proofs of what
matters most about them for every instance. `PROJECT.json` is the index: it maps
each definition to the source lines it translates, each run to the properties it
checks, each property to a mutation of the code it would catch, and each hazard
to the properties that watch it.

    tlc -workers 2 -config MCMessageBusOutbox.cfg MCMessageBus.tla
    tlapm MessageBusProofs.tla

## 1. Inventory of the system

A request enters through IronClaw's gateway (HTTP), is authenticated and rate
limited, and is published on a Redis stream. PicoClaw reads that stream, routes
each task to the stream of the agent that executes it, and OpenClaw executes
actions and Gemini requests from there and writes responses. Calango Vallum
observes the streams, raises alerts, tests agents, heals them and keeps an audit
chain. The processes share nothing but Redis (streams and consumer groups) and
Supabase (tables): every interaction is an XADD, an XREADGROUP, an XACK or a
table write, and every one may fail or be applied without its caller knowing.

| component | state | operations | what is hard |
|---|---|---|---|
| **Message bus client** (`ironclaw/src/message_bus.rs`) | access matrix, local queue (1000), Redis streams and groups | publish, flush_queue, subscribe, set_access_matrix, ensure_consumer_group | outages between two round trips, lost replies, order of queue and direct publish, acknowledgement before return, consumer crashes |
| **Agent registry** (`ironclaw/src/agent_registry.rs`) | per agent: status, two counters; sandboxes outside | register_agent, health_check, kill_agent | failing terminate, flapping agents, timeouts, counters with different resets |
| **API gateway** (`ironclaw/src/api_gateway.rs`, `main.rs`) | per client: window of timestamps | handle_request (validate_jwt, check_rate_limit, publish), create_task, submit_task | clock read before the lock, window boundaries, a request counted though its publish fails |
| **Credential vault** (`ironclaw/src/credential_vault.rs`) | ownership map, token cache | request_credential, evict_expired_tokens | clock read before an await, expiry boundary |
| **WASM sandbox** (`ironclaw/src/sandbox.rs`) | fuel, memory, epoch, termination | new, execute, terminate, resource_usage | fuel counted a call late, which memory is capped |
| **Access control** (`ironclaw/src/access_control.rs`, `calango-vallum/src/access_control.rs`) | rule list, storage | add/remove/update rule, is_allowed, reload_from_storage | several rules of one pair, a reload that overwrites a concurrent update |
| **Audit chain** (`calango-vallum/src/chain.rs`) | last hash, stored records | record, verify_integrity | persist fails after storing, two writers fork, lost tail |
| **Healer** (`calango-vallum/src/healer.rs`) | per agent: attempts in the hour | can_attempt, record_attempt, diagnose, apply_fix | the limit across callers and restarts |
| **Security pipeline** (`calango-vallum/src/pipeline.rs`) | bounded channel, three tasks | validate, shield/spear/healer loops, notify_event, shutdown | full channel, calls that fail half-way, events lost at shutdown |
| **Vallum process** (`calango-vallum/src/main.rs`, `shield.rs`, `spear.rs`) | rate counters, baseline, audit trail, stream cursors | shield consumer, healer listener, spear tests | alerts observed as messages, timestamps out of order, entries lost at a crash |
| **PicoClaw router** (`picoclaw/router/router.go`) | balancer counters, retry queue | consumeStream, RouteTask, deliverTask, retryWorker | a failed delivery acknowledged, a task routed to the router |
| **PicoClaw balancer** (`picoclaw/balancer/balancer.go`) | instances, health, counter | NextInstance, Register/RemoveInstance, MarkHealthy | a counter shared by concurrent callers |
| **OpenClaw pipeline** (`openclaw/src/pipeline.ts`) | consumer groups, in-flight batch | consumeMessages, consumeGeminiMessages, processMessage | a batch abandoned in the pending list, responses sent twice |
| **OpenClaw executor** (`openclaw/src/action-executor.ts`) | attempt number | execute | a timed-out tool that still runs, a retry after a publish error |
| **Gemini client** (`openclaw/src/gemini-client.ts`) | limiter, queue, circuit breaker, contexts | sendMessage, streamResponse, processQueue | delay and limit not rechecked, late answers in an open circuit |
| **Deploy manager** (`openclaw/src/deploy-manager.ts`) | versions, serving revision | atomicDeploy, rollback, retainVersions | unhealthy previous version, deploys that overlap |
| **Metrics, lead detector, tools** (`openclaw/src/*.ts`, `tools/`) | histories | record, detect, tool calls | pure I/O around external services |
| **Admin dashboard** (`admin-dashboard/src`) | React state | views over the APIs | user interface |
| **Infrastructure** (`infra/`, workflows, compose) | configuration | | no program logic |

### What makes each component correct

* *Bus*: what is queued is neither lost nor doubled nor reordered by the client;
  an entry reaches at most one consumer of a group; the group's books balance.
* *Registry*: an agent that stays unhealthy is given up in time, dead agents
  stay dead and are reported once, restarts consume a bounded number of
  sandboxes and do not leave two running.
* *Gateway*: no client gets more than its limit through in a window; a refused
  client may retry when told.
* *Router and task flow*: each task accepted by the gateway is eventually
  executed or visibly failed; none circulates for ever.
* *OpenClaw*: each entry is executed and answered; retries are bounded; an
  abandoned entry is picked up.
* *Gemini client*: the request rate, the breaker's state machine, queued requests
  answered in order.
* *Vault, sandbox, access control*: a token is not older than its TTL says and
  comes from a secret that was current; resources reported are resources used; a
  list of rules decides as the policy it stands for.
* *Chain, healer, pipeline*: a verification vouches for what was recorded, up to what
  was altered at the end, the attempt limit binds, events and violations are accounted for and a
  shutdown ends every task.
* *Vallum's consumer*: what is acknowledged was audited, once and in order; its
  verdicts are those of the messages it saw; it catches up with the streams.

## 2. The modules and the code

Each module is one component, or a composition of several; its variables carry
the names the source uses where there is one, and the variables after the comment
"history" are bookkeeping of the properties that no guard of an action reads.
Definitions marked "mutant" are not part of any specification: each is a
plausible slip in the code, and the property that would catch it is named in
`PROJECT.json`.

### MessageBus, BusContract, MCMessageBus (`ironclaw/src/message_bus.rs`)

| code | model |
|---|---|
| `access_matrix`, `local_queue` | `allowed`, `queue` |
| a Redis stream and its consumer group | `stream[a]`, `lastId[a]`, `pel[a]`, `grouped[a]` |
| `publish`: validation, access, `is_connected`, XADD or `queue_locally` | `Publish` with one disjunct per return, in the code's order |
| `flush_queue` | `FlushStart`, one `FlushOne` per XADD, `FlushError` (the `push_front`), `FlushDone` |
| `ensure_consumer_group` (`$`) | `EnsureConsumerGroup`: the group opens at the end of the stream |
| `subscribe`: XREADGROUP, then per entry parse and XACK, then return | `SubscribeRead`, `SubscribeAck`, `SubscribeSkip`, `SubscribeAckError`, `SubscribeReturn`; `src`, `todo` and `got` are the locals of a call in progress |

`publish`, `flush_queue` and `set_access_matrix` take `&mut self`, so none starts
while a flush is under way; each await inside a call is a step boundary where
Redis and the subscribers may move. An XADD or XACK that reports an error may
have been applied. A message's content and its encoding are abstracted to "parses"
and "does not parse" (`Junk`, which is what PicoClaw's own entries are to
`parse_stream_entry`).

`BusContract` is the abstract specification: a bounded line in front of
append-only logs, each entry claimed by one reader and returned at most once.
`ImplementsContract` is the refinement, with `local_queue` as the line, the streams
as the logs and the group cursor as what is claimed.

### AgentRegistry (`ironclaw/src/agent_registry.rs`)

`register_agent` is `RegisterAgent`; `health_check` is split by the outcome of the
probe and of the restart (`CheckHealthy`, `CheckDegraded`, `CheckRestarted`,
`CheckRestartFailed`, `CheckDead`); `kill_agent` is `KillAgent`, which removes the
agent whatever `terminate` answered in its five seconds. All take `&mut self`.
Sandboxes live in the provider and die on their own (`SandboxDies`).

### ApiGateway (`ironclaw/src/api_gateway.rs`)

A request is rejected for its token (`Reject`), or reads the clock
(`Authenticate`) and then waits for the mutex. `RateLimiter::check` is `Refuse` or
`Admit`, both of which first drop the entries that left the window (`Retained`, the
`retain`); an admitted request awaits the bus (`Publish`, answered or not), and its
slot stays used when the publication fails or the client hangs up (`HangUp`). The
vector of a client is kept as the log of everything ever pushed and the set of
positions still held, which is the same information plus the past. A token may
outlive its `exp` by the leeway the JWT library grants, 60 seconds unless told
otherwise.

### CredentialVault (`ironclaw/src/credential_vault.rs`)

`request_credential` is `Refuse`, `FromCache`, or `Ask`, `ReadSecret` and `Issue` or
`Fail`: the clock is read at `Ask`, time passes and secrets rotate during the await.
`request_credential` and the eviction take `&mut self`, so one request is in
progress at a time. A token that took `MAX_TTL_SECONDS` to fetch has expired when
it is returned. `main.rs` constructs the vault with no ownership and calls
nothing of it; the model gives the agents secrets.

### WasmSandbox (`ironclaw/src/sandbox.rs`)

One sandbox. `execute` is one action per return: the refuelling, which adds what the
previous call burnt to `fuel_consumed`, the lookup, the input, and what the guest
does, chosen by the environment. The cap applies to the memory the linker offers
as an import: a guest with a memory of its own escapes it, and one that does not
export the import again gets no input and returns no output. The linker defines
no host function, so the limit on host calls is never reached and is left out. The
fuel of the last call is missing from the reported usage until the next call.

### Base64 (`ironclaw/src/message_bus.rs`)

`base64_encode` and `base64_decode` as functions of sequences of numbers, checked
against bits: a character of the alphabet stands as its value. The decoder drops
`=` wherever it stands and other characters within their group of four; both filters
are `Retain` of `Vectors`.

### Vectors, AccessMatrix, AccessControl, AccessPolicy (both `access_control.rs`)

`AccessMatrix` is the list of rules that both crates have, several of which may
name one pair; `Retain` of `Vectors` is `Vec::retain`, the elements at a set of
positions in their order. `AccessControl` is Vallum's validator: rules added, removed and
updated under the write lock, validated under the read lock, saved by the
dashboard, and reloaded in two steps (`Load`, `UpdateMatrix`) between which anything
may happen, other reloads included: each call of `Reloads` holds what it has loaded
in its place of `inFlight`. `AccessPolicy` is the abstract specification, a set of pairs;
`ImplementsPolicy` is the refinement, with the pairs a list allows as the policy. A
reload undoes edits made since it was loaded, and one that loaded first may install
last: `AccessPolicy` says so too (`Use`).

### PicoRouter (`picoclaw/router/router.go`)

`Start` ignores the error of group creation; `ReadGroup` is the XREADGROUP of
`consumeStream`; for each entry of the batch `RouteTask` (with `NextInstance`), `Deliver`
(`deliverTask`'s XADD, whose error is dropped) and then `Ack`. The client is made with
go-redis's defaults (lines 209-211), which send a command again, up to `MaxRetries` times
(3), after a broken connection or a read timeout: each turn of `Deliver` is one XADD
that reaches Redis, or not, and after a reply that was lost the next adds the entry once
more. `RegisterInstance` appends whatever the list holds, so an instance may be
listed, and picked, twice. `Stop` cancels the
context, after which every Redis call fails and the loop runs through its batch
before it returns. Classification by keywords is the set of intents a task may
get; where scores tie, Go's map order decides, so a set is what the code gives.
`retryQueue` has no writer, so `retryWorker` has no action.

### TaskFlow (`ironclaw/src/main.rs`, `router.go`, `pipeline.ts`)

The composition: gateway or other producer, PicoClaw, OpenClaw. What the modules of
the parts say in detail is one step each here. A gateway task has the
destination `router` (`DestOf`), because `MessageBusAdapter` uses the bus's
destination to select the stream; PicoClaw honours it (`Route`). Nothing takes a
task out of `parked`, because nothing calls `flush_queue`. IronClaw's XADD may be applied
although an error is reported (`Refuse`, the outcome `doubtful`), and PicoClaw's may
be applied several times before it is answered or given up (`Deliver` with `n`
copies): `resent` remembers the tasks that this happened to. `wraps` counts the
encodings around a payload: IronClaw's base64, and one by `json.Marshal` of a
`[]byte` with every pass of the router. Nobody takes one off.

### OpenClawPipeline (`openclaw/src/pipeline.ts`)

Two loops, `s \in {"action", "gemini"}`. `step[s]` is the await the loop is at:
`read` (XREADGROUP), `work` (the executor, or Gemini), `reply` (the response's
XADD), `ack`, and the catch blocks: `report` (Gemini's failure response) and
`discard` (the XACK of the catch). The batch of a loop is `at[s] .. lastId[s]`:
it is read as one block and handled in order, and an error that leaves a handler
drops all of it (`AbandonBatch`). `Stop` closes the connection behind what was sent,
so that later calls fail without effect; `Exit` is the end of the process, by
`process.exit` after `stop` or by a crash. The next process has another consumer
name and reads `>` only. `Start` that fails ends the process before it did
anything and has no action.

### ActionExecutor (`openclaw/src/action-executor.ts`)

One call of `execute`: lookup, and per attempt credential, tool under `withTimeout`,
publication. `TimesOut` leaves the run behind (`orphans`), which ends in its own
time (`OrphanEnds`). A tool may have its effect and report an error, and a publish
may fail after it was applied.

### GeminiClient (`openclaw/src/gemini-client.ts`)

Synchronous code is one action, so `Enqueue` is `sendMessage` from its start to the
first delay of `processQueue`, and `Serve` is the dequeue with the `recordRequest` of
`executeRequest`. Times are ages: `stamps` holds those of `dayTimestamps`, which are
forgotten when they leave the window, and `delay` what is left of a timer. That
removes the clock from the state, and with it any bound on how long a behaviour
lasts. `loop` is where `processQueue` is, `processing` the flag that keeps it single.
A stream waits for itself (`Delay`, `StreamWakes`) and may be dropped by its reader.

### DeployManager (`openclaw/src/deploy-manager.ts`)

One step per call to Cloud Run. Polling is one step: a check that answers true
(`Healthy`) or the deadline (`Unhealthy`), which a fit revision may miss as well. Any
call may be rejected (`Throws`), and `atomicDeploy` with it.

### AuditChain (`calango-vallum/src/chain.rs`)

`New` reads the head from the storage, `Record` stores an entry on its own head and
moves it, `RecordInDoubt` stores it and reports an error, so that the head stays. Two
agents may work on one storage. A hash is the sequence of what was hashed into it,
which makes SHA-256 injective. `Damage` is the storage's: it loses a row, alters the
content or either hash of a row, or rewrites a row together with the hash it should
have, which anyone can compute because the hash has no key. `VerificationVouches` says
what is left of the promise: what `verify_integrity` accepts are rows that were recorded,
without a gap, followed by no more rows than were altered. `TamperingIsFound` is the
promise of the repository's README, which a run refutes (section 6).

### SecurityPipeline, Healer (`calango-vallum/src/pipeline.rs`, `spear.rs`, `healer.rs`)

The three tasks of `start` share the channel, the chain and the healer; `at[l]` is the
await a task is at. `Observe` is an alert of SHIELD, on its way to the chain and
the channel. A SPEAR run tests one agent after the other; after a failure it isolates
(`Isolate`), reports (`Report`), records and sends one event per failure, and `?`
on any call of the notifier skips what follows. HEALER takes an event, asks Gemini, tests
the fix, and deploys if `Healer!CanAttempt`; its attempt is recorded before the
deployment answers. Tasks see the shutdown between two turns of their loop only.
Attempts are kept as ages, which needs no clock in the state.

### VallumProcess (`calango-vallum/src/main.rs`, `shield.rs`)

`Read` is the XREADGROUP over all observed streams, in their order; each entry of
the batch then goes through `Observe` (the credential search, `RecordAction` and
the limit), `Publish` (an alert, whose XADD may fail unnoticed), `Record` and `Ack`.
`EnsureGroups` runs at the start and at NOGROUP. An alert is an entry of an observed
stream: it has no `sender_id` and counts for "unknown", with the timestamp of its
cause. The healer's listener creates its group once, at its start, and ignores the
error: if Redis is down then, it never hears an alert. Where it does (`Hear`), it
diagnoses and acknowledges: `can_attempt` is always true there, as the process records
no attempt, and no fix is applied. After a crash or a lost reply (`ReadLost`) the
entries stay pending for ever; the trail and the counters are in memory.

### MCIronClaw, MCRequestPath, MCOpenClaw, MCVallum

Components that share no state are checked in one run: `part` selects, in the
initial state, the one whose actions happen. Nothing is lost: a behaviour of any
of them is a behaviour of the sum, and the others' invariants hold in their
initial states. The fairness of such a run is that of each part's specification.

## 3. Runs

| run | bounds | shows |
|---|---|---|
| `MCMessageBusOutbox` | 3 messages to 2 streams, queue of 2, 2 matrices, logs of 4, 1 crash | the queue is bounded and conserved; each stream has the messages once and in order, but for lost replies and publishes that overtake the queue; the contract is implemented |
| `MCMessageBusGroup` | 2 consumers, 1 group, logs of 3 with unparseable entries, batches of 2, 1 crash | entries are partitioned among consumers; pending and acknowledged entries account for everything read (`GroupCorrect`); the contract is implemented |
| `MCMessageBusAckLost` | the same without crash | **violated**: see 6 |
| `MCIronClaw` | registry: 2 agents, thresholds 3 and 3 as in the code, 2 live sandboxes per agent. Gateway: 1 client, 2 concurrent requests, limit 2, window 5 ticks, a second 2 ticks, 8 ticks. Vault: 2 agents, 2 secrets, TTL 2, 1 rotation each, 6 seconds. Sandbox: 3 calls, fuel 3, cap of 2 of 3 pages. Codec: up to 4 bytes, texts of up to 5 characters | death is timely and equivalent to exhausted restarts, sandboxes are accounted for; the limit holds in every window unless a check was overtaken, and `retry_after` is short by less than a second; tokens are fresh; usage reported is usage; the codec is exact |
| `MCAgentRegistryDead` | as above | **violated**: see 6 |
| `MCRequestPath` | router: 3 entries of 2 kinds, batches of 2, a command sent again once, 2 registrations, 2 faults. Flow: 4 tasks, a command sent again once, 2 outages | books of the group; deliveries in order, repeated only after a lost reply and, without a fault, of all; round robin; the stream drains unless its group is missing; a task is in one place unless it was sent again; an undirected task is answered |
| `MCTaskFlowGateway`, `MCTaskFlowPayload` | 3 tasks, no outage | **violated**: see 6 |
| `MCOpenClaw` | pipeline: 2 entries per stream, batches of 2, 2 faults. Executor: 3 retries as in the code. Gemini: 3 calls, one a stream, quotas of 1 per minute (2 ticks) and 2 per day (5 ticks), threshold 2, recovery 2 ticks, no bound on time. Deployments: 3 operations, 2 versions retained | books and answers of both loops, exact but for faults, progress; effects and answers of the executor, and that a call ends unless the vault hangs; the limits hold for calls that do not overlap, with one exception (section 6), the breaker agrees with the failures since the last success, every call returns; the last good version serves after one failure |
| `MCVallum` | consumer: 2 task streams and the alerts, 2 tasks, 3 alerts, 3 timestamps, limit 1 in a window of 1, 1 fault. Pipeline: 2 agents, channel of 1, 2 events, 1 attempt in a window of 1. Chain: 2 agents, 3 records, 1 damage of any kind. Access: 2 pairs, 3 lists, 2 reloads at once | the trail is the stream; verdicts are those of the messages seen; events, violations, fixes and deployments are accounted for; what a verification vouches for; the policy is implemented; the consumer catches up unless alerts feed themselves, and a shutdown ends every task |
| `MCVallumTampering` | as above | **violated**: see 6 |
| `MCVallumLeak` | as above, payloads under base64 | **violated**: see 6 |

*Why the bounds are enough.* The queue of 2 in front of 3 messages reaches its bound
and refuses; a flush can be interrupted between its two XADDs and resumed. Logs
of 3 or 4 hold more than a batch, so a group reads several times, a partial batch
included. Two consumers are all that a pairwise property speaks of. The registry
and the executor run with the code's own thresholds. The gateway's 8 ticks are
more than a window after the first request, so that entries expire while others
stay; with two handlers one check can overtake another. Six seconds at the vault
hold a fetch longer than the TTL with a rotation in it. Three calls of a sandbox
are one that burns, one that counts it, and one after that. Payloads of up to 4 bytes
have each padding, and a full group in front of it. Two faults in the
router and the pipeline suffice for the code's second chances to fail too (a
catch block whose own call fails takes two), and a batch that is abandoned leaves
an entry behind it unhandled because batches hold two. In Vallum two
messages exceed the limit of one, and three alerts let an alert cause the next; a
channel of one is full while an event is under way; of two reloads one may install
what it loaded before the other did. The router's client sends a command again three times
in the code and once in the run, which with two faults has both replies of an entry lost,
or an outage between two attempts; the theorems hold for any number.

*Deadlock.* Deadlock checking is off where the system really may stop: all messages
published and Redis down, all tasks handled, a call of the executor returned, a
pipeline shut down. `MCIronClaw` and `MCAgentRegistryDead` check it.

*Fairness.* `PicoRouter`: weak fairness of the goroutine's loop, which the Go
scheduler gives it. `TaskFlow`: weak fairness of each consumer's read and of its
handler, and outages end. `OpenClawPipeline`: weak fairness of each loop, because a
Redis call of ioredis is answered or rejected (`maxRetriesPerRequest` 3) and the
event loop is not blocked. `ActionExecutor`: timers fire, Redis answers or
rejects; nothing is assumed of tools or of the vault, which may hang, and `Ends`
names the vault as the only thing a call may hang on.
`GeminiClient`: time passes, timers fire, and the API answers or fails every request:
the adapter sets no timeout of its own, so this is an assumption.
`VallumProcess`: weak fairness of the consumer's loop and of the creation of the
groups, which it repeats at every NOGROUP. `SecurityPipeline`: weak
fairness of the calls a task awaits, and strong fairness of its stop, because
`select!` picks at random among the branches that are ready. That the
process, Redis and the group stay is a hypothesis of each property, not a fairness
condition.

## 4. Proofs

`tlapm` checks all of them from the modules' constants and their named assumptions
only, for any number of agents, messages, consumers and any thresholds. Every
safety property and every refinement that a passing run checks is proved.

Where a run puts components side by side, the theorem is about the specification of that
run (`PartsSpec`), with its constants left open: each component has an inductive
invariant of its own, and the steps of the others leave its variables alone. The
invariants of the larger components are operators of the values the variables have
(`ExecutorOK`, `SendOK`, `ChainOK`, ...), so that what a move does to them is a lemma
about values, and an action is a case of such a move.

* **VectorProofs** has the lemmas about sequences that the others share: `Retain` keeps the
  elements at its positions, as many and in their order (`RetainProperties`), and
  `FlattenSeq` of groups of one length puts every group where its number says
  (`FlattenEven`).
* **MessageBusProofs**. `TypeCorrect`, with the bound on the queue: a flush takes
  before it puts back. `GroupInvariant` (`GroupInv`): the books alone are not
  inductive; cursors must be ordered and a subscriber that is not in a call must
  hold nothing, and `EntryHeldOnce` needs the books to know that what calls hold
  lies at or before the cursor. `GroupCorrect` follows. `QueueConserves` needs that
  streams only grow. `BusImplementsContract` maps each step of the bus to a step of
  `BusContract` or a stutter, under type correctness and `GroupInv`.
  `MessagesLeaveInOrder`: `SentOnceInOrder` speaks of what left the queue, so the
  invariant (`SendInv`) says where it is: the queue is the end of what was ever
  queued, what was queued before has been sent or lost, and what is queued has not
  been sent but by a call whose reply was lost.
* **RequestPathProofs**. `RouterBooksBalance` and `DeliveredInOrder`: the books say that
  the batch is the entries just before the cursor, and order follows once every
  delivery is known to be of an entry already tried. An entry is delivered again only from
  its place at the end of the deliveries, after as many replies lost as `tries` says, which
  bounds the copies. `PicksGoRound`: each pick since the last registration is the one of
  its counter's remainder by the number of registrations n, n counters in a row have each
  remainder once, and so an instance is picked as often as it is registered. `TaskInOnePlace`:
  no two places of streams and hands have the same task unless it was sent again, only a
  task that was added travels, unanswered unless it was sent again, and while nothing
  failed each accepted task travels or is answered.
* **OpenClawPipelineProofs**. `BooksBalance`: types and `Books` are inductive
  together, because a response is counted for an entry of the log, and it is the
  books that place the entry a loop handles there. The proof has one lemma for each kind of
  move of a loop (to the next await, to the next entry, to a catch block, out of
  the batch, a block read), under it one for each action. `GeminiAnswered`:
  `GeminiAckedIsAnswered` is not inductive; the strengthening (`Answerable`) adds
  that a handler at one of its two acknowledgements has an answered entry in hand.
  `NothingElseIsLost`: what is pending outside the batch in hand is at most a batch for each
  fault, what a stopping process will still give up included, and while there is no
  fault the responses to an entry are given by the await its handler is at.
* **OpenClawProofs**. `AnswersAreTrue`: every run of the tool that started has ended in one of
  four ways or is at a known place of the attempt, and took effect at most once.
  `CircuitFollowsFailures` is inductive together with its types.
  `SoleCallerKeepsLimits`: of calls that never overlapped the one in progress waits only for
  a time at which there is room for its request, which is what makes it
  harmless that the limiter is not asked again after the wait; ages only
  grow while it waits. `SuccessKeepsServing`: for each await of a deployment that is alone, what it
  would restore and what serves, and that it removes other versions.
  `PartsAreTyped`: the types of all four parts, from these invariants.
* **IronClawProofs**. `RegistryCorrect`: type correctness together with
  `DeadIffExhausted` is inductive (neither is alone: the range of `restarts` needs
  that a dead agent is not checked). `GivenUpInTime`: the missed checks are bounded by
  `MaxFailures * restarts + fails`, a product of two variables, for which the
  module proves the arithmetic as a lemma. `SandboxesBounded`: one sandbox more than
  failed terminations at the most, which needs to know which status has one.
  `TokensAreFresh`: a cached token, and the secret in the hands of a
  request, were current a lifetime before they expire. `ReportedUsageIsExact` is inductive
  with the fact that a terminated sandbox has no fuel. `RateIsLimited`: while checks come in
  the order of their times, the vector holds every time still in the window of the latest
  check, and it has at most `MaxRequests` of them. `RetryAfterIsClose`, an action
  property: the vector of a client that was refused last is full, and one of its times
  leaves the window less than a second after the promise. `PayloadsSurvive`, for payloads
  and texts of any length: the invariant (`CodecInv`) says only that a published field is
  the encoding of its payload and what was parsed the field decoded; the work is in what
  the two functions compute. A shift by x is a division by a power of two, so a bit of a
  byte or of a character is a bit of the group of 24 it is cut from (`ByteBits`,
  `CharBits`); hence one group has the same bits before and after (`EncodesChunk`,
  `DecodesChunk`), and so has the row of groups (`Encodes`, `Decodes`), in which the last
  may be short. That bytes with the same bits are the same (`BitsOfBytes`) makes the decoded
  payload the published one. `AllTyped`: the types of all five parts; whatever text an
  entry holds, it is decoded to bytes or refused.
* **VallumProcessProofs**. `TrailFollowsTheStreams`: the invariant orders the trail and the
  entries in hand together, stream by stream, with everything delivered pending or
  audited. That a read over several streams, which concatenates their new entries,
  keeps the order is a lemma about `FlattenSeq`. `VerdictsAreMeant`: a counter
  that has forgotten old timestamps still counts right at every time that no
  message of its sender is after, and a verdict on a message of a sender whose
  timestamps never went back is given at such a time.
* **VallumProofs**. `RulesAreAPolicy`: each operation on the list of rules maps to one on
  `AccessPolicy`; the lemmas say what the first rule of a pair is after a push, an
  update and a `retain`. `EveryEventIsAccounted`: events balance over counters, channel and
  hands; the causes of a fix follow an event from hand to channel to hand; and at every
  future moment no more deployments than attempts will be in the window, which
  is what bounds the deployments although attempts are pruned only when one is
  recorded. `VerifiedRowsWereRecorded`: there was no fork exactly if
  each entry written is linked to the one before, and then its hash is as long as its
  place; of the rows in the storage at most as many as there were damages are not as they
  were written, an accepted row that was written is at its place, for its hash is as long
  as that, and what links to it stands where it stood; so every row behind the first one that
  is foreign is foreign too. Without error in doubt, damage and a second
  writer at work every head is the hash of the end. `VallumIsTyped`: the types of all parts.

*Induction.* The library's induction theorems take an operator as a parameter, which the
provers here cannot instantiate. What needs induction is proved by the least
counterexample instead (`LeastOf`, from the well-foundedness of `<` on the naturals, and
`SmallestOf` for finite sets): the length up to which `FlattenSeq` builds a
concatenation, the first row of the chain that was not recorded.

*Not proved.* What is stated under fairness (`RouterDrains`, `UndirectedIsAnswered`,
`Drained`, `Ends`, `Returns`, `Settles`) is out of the prover's reach and stays with TLC.

*Changes to the model for the proofs*, none of which changes a behaviour: the positions kept
by `retain` and by the filters of `base64_decode` are given by `Retain` (`Vectors`) instead
of by `SelectSeq`; timestamps in a
window are a set of positions that is counted; the tokens of the gateway and the
owners of the secrets are constants, with their values in `MCIronClaw`; and the
assumptions say what the proofs need of constants: distinct observed
streams (`OBSERVED_STREAMS`, `calango-vallum/src/main.rs:330-335`), some call of
Gemini, finitely many agents, and a mark for "no hash" that is no content.

## 5. What is not modelled

* *Process wiring* (`ironclaw/src/main.rs`, `types.rs`, `logging.rs`): it constructs the
  parts; the modules take what it constructs as their initial states. `TaskFlow` has
  its adapter between gateway and bus.
* *PicoClaw's balancer package* (`balancer/balancer.go`): the router has a balancer of
  its own, modelled in `PicoRouter`, and nothing outside its tests calls this one.
* *Metrics, lead detector, logger, tools*: histories, patterns, formatting and
  calls to outside services. `ActionExecutor` has a tool as an answer, an error or a hang.
* *SHIELD's anomaly baseline* (`shield.rs`, `RollingBaseline`): nothing in the program
  calls it. Its verdicts compare `f64` sums and roots, with a test `std_dev == 0.0` that
  rounding decides (ten points of 0.1 have a deviation above zero), so that exact
  arithmetic would say something else than the code. And the 24 hours that
  `src/README.md:85` and `shield.rs:143-148` give it are not in the code: `window_hours` is
  read nowhere, and no point is dropped.
* *The dashboard, infrastructure and schemas*: rendering, fetches, configuration.
* Of modelled components: log lines, wording, health and HTTP routes, gRPC framing,
  Supabase tables but for the audit table, the CHAIN's record of Vallum's start, the
  content of SPEAR's attack patterns (a number of failed tests stands for them), the
  list of SHIELD's credential patterns (a payload shows one or does not), and the
  registry's versions. Payloads are encoded in `Base64` and counted as layers in `TaskFlow`;
  elsewhere they do not matter.
* Several OpenClaw or PicoClaw processes at once: the group properties of `MessageBus`
  cover concurrent consumers of a group.

What is left of the implementation lines in ironclaw and calango-vallum is their
tests, doc comments, trait declarations, error texts and the wiring above.

## 6. Where the code departs from what the repository says

Each is a run that must find the stated property violated.

* `AckedIsDelivered`: `subscribe` acknowledges entry by entry before it returns any;
  an error on a later XACK returns `Err` and the entries acknowledged so far are
  gone, against "at-least-once delivery" (`message_bus.rs:110-111`).
* `DeadAfterFailedRestarts`: restarts that succeed are counted too and never
  forgotten, so an agent dies at the third restart of its life, against "failed 3
  restart attempts" (`agent_registry.rs:24`).
* `GatewayIsAnswered`: a request of the gateway goes round in `tasks:router` for ever
  (`ironclaw/src/main.rs:75`, against `main.rs:58-59`).
* `GeminiIsAskedTheMessage`: what Gemini is asked is an encoding of the message
  (`openclaw/src/pipeline.ts:401`, against `pipeline.ts:394`).
* `LeaksAreViolations`: SHIELD searches IronClaw's payloads in base64, where no pattern
  shows (`calango-vallum/src/main.rs:387`, against `main.rs:386` and `shield.rs:259`).
* `TamperingIsFound`: rows missing at the end of the audit chain, and a last row rewritten
  with its hash, are accepted (`calango-vallum/src/chain.rs:171`, against `src/README.md:87`,
  which calls any tampering detectable, and `chain.rs:5`).

Some properties leave out an interleaving in which the code does not do what they say:
`LimitUnlessOvertaken` speaks of checks made in the order of their times, `WithinLimits` of
calls of Gemini that do not overlap, `ServesGood` of deployments that do not. What happens
otherwise is in the list below.

Observed while modelling, without a run of their own:

* Bus and router: `flush_queue` has no caller and does not ask the access matrix again;
  nobody consumes `tasks:ironclaw`; PicoClaw writes a destination where OpenClaw
  expects a tool's name; IronClaw's `subscribe` cannot parse PicoClaw's entries, which
  have no `task_type`; entries abandoned in a pending list are never claimed. A
  request that goes round grows by a third with every pass, and PicoClaw classifies
  the encoded text. A task with a destination never takes the fallback, whether the
  destination has an instance or not (`router.go:381-384`, against `router.go:356` and
  `router_test.go:287-303`). A reply lost between PicoClaw and Redis executes a task
  twice, as no consumer compares ids.
* Gateway, vault and sandbox: a slot stays used when the publication fails, and requests
  checked out of the order of their times can exceed the limit; a token fetched for
  longer than its TTL is returned expired; a guest with a memory of its own is not
  capped, and the limit of host calls is never reached.
* OpenClaw: `getCredential` is outside the attempt's timeout; the action handler's
  catch acknowledges without a response; the Gemini client exceeds its limit per
  minute when calls overlap, or when the wait for the day's quota ends inside a full
  minute; a second failed deployment in a row is rolled back to the first failed one,
  and a health check that is rejected is not rolled back at all.
* Vallum: once "unknown" is over its
  limit, each alert may raise the next; an agent whose
  report fails half-way is out of routing without an entry in the chain; what is queued
  when HEALER stops is lost; the limit of attempts does not bind in the process, which
  records none; a reload undoes edits made since its load.

## 7. Plan

Modelled in the order of the request path, then Vallum, then the rest of IronClaw, and
then proved, which completes the plan: every safety property that a passing run checks has
its theorem, and the properties under fairness stay with TLC (section 4).
