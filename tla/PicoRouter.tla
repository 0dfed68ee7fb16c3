----------------------------- MODULE PicoRouter -----------------------------
(***************************************************************************)
(* PicoClaw's router (picoclaw/router/router.go): one goroutine reads the  *)
(* stream tasks:router through the consumer group picoclaw-workers, picks  *)
(* a destination for each task, delivers it to the destination's stream    *)
(* and acknowledges the entry, whatever became of the delivery.  Its Redis *)
(* client is go-redis with its defaults, which sends a command again up to *)
(* MaxRetries times (3) after a broken connection or a reply that does not *)
(* come: a delivery whose reply was lost is repeated.  XREADGROUP and XACK *)
(* sent again do what a later call would.                                  *)
(*                                                                         *)
(* The retry channel is not modelled: no code writes to it, so retryWorker *)
(* never receives.  Redis calls fail while Redis is down and, once Stop    *)
(* has cancelled the context, always.                                      *)
(***************************************************************************)
EXTENDS Naturals, Sequences, FiniteSets

CONSTANTS
  Tasks,         \* what the entries of tasks:router may hold
  Intents,
  Dests,         \* agent types, each with a stream tasks:<type>
  Router,        \* the agent type of the router's own stream
  NoDest,        \* an empty Destination
  Destination,   \* [Tasks -> Dests \cup {NoDest}]
  Classified,    \* [Tasks -> SUBSET Intents], the intents a task may get
  FallbackMap,   \* [Intents -> Dests]
  InstanceIds,   \* [Dests -> SUBSET of instance ids], disjoint from Dests
  BatchCount,    \* the Count of XREADGROUP
  MaxRetries,    \* go-redis's option: times a command is sent again
  MaxInstances,  \* bound: registrations of one agent type
  MaxLog,        \* bound: entries of tasks:router
  MaxFaults      \* bound: outages, lost replies, crashes and shutdowns

ASSUME RouterAssumption ==
  /\ Router \in Dests /\ NoDest \notin Dests
  /\ Destination \in [Tasks -> Dests \cup {NoDest}]
  /\ Classified \in [Tasks -> (SUBSET Intents) \ {{}}]
  /\ FallbackMap \in [Intents -> Dests]
  /\ \A d \in Dests : InstanceIds[d] \cap Dests = {}
  /\ BatchCount \in Nat \ {0}
  /\ MaxRetries \in Nat /\ MaxInstances \in Nat
  /\ MaxLog \in Nat
  /\ MaxFaults \in Nat

VARIABLES
  \* Redis
  redisUp,
  stream,      \* Seq(Tasks), the stream tasks:router
  grouped,     \* does the consumer group exist?
  lastId,      \* the group's last-delivered entry
  pel,         \* delivered and not acknowledged
  acked,
  \* the router's process
  ctx,         \* "off", "live" or "cancelled"
  batch,       \* entries read and not finished, in order
  stage,       \* of the first of them: "route", "send" or "ack"
  target,      \* in "send": the stream of its XADD
  tries,       \* in "send": times the XADD was sent before
  instances,   \* Balancer.instances
  counters,    \* Balancer.counters
  \* history, never read by the code
  tried,       \* entries RouteTask was called for
  sent,        \* what was added to the destinations' streams, in order
  unanswered,  \* which of it without a reply
  picks,       \* [Dests -> Seq], picks since the last registration
  faults

redisVars == <<stream, grouped, lastId, pel, acked>>
balancerVars == <<instances, counters, picks>>
loopVars == <<batch, stage, target, tries>>
sentVars == <<tried, sent, unanswered>>
vars == <<redisUp, redisVars, ctx, loopVars, balancerVars, sentVars, faults>>

Targets == Dests \cup UNION {InstanceIds[d] : d \in Dests}
Elems(s) == {s[i] : i \in DOMAIN s}

Init ==
  /\ redisUp \in BOOLEAN
  /\ stream = << >>
  /\ grouped = FALSE
  /\ lastId = 0
  /\ pel = {}
  /\ acked = {}
  /\ ctx = "off"
  /\ batch = << >>
  /\ stage = "route" /\ target = NoDest /\ tries = 0
  /\ instances = [d \in Dests |-> << >>]
  /\ counters = [d \in Dests |-> 0]
  /\ tried = {}
  /\ sent = << >> /\ unanswered = {}
  /\ picks = [d \in Dests |-> << >>]
  /\ faults = 0

Reachable == redisUp /\ ctx = "live"
Fault == faults < MaxFaults /\ faults' = faults + 1
ReplyLost == Fault /\ redisUp' \in BOOLEAN

-----------------------------------------------------------------------------
(* Start: the group is created from entry 0; every error is ignored.       *)
Start ==
  /\ ctx = "off"
  /\ ctx' = "live"
  /\ grouped' = (grouped \/ redisUp)
  /\ UNCHANGED <<redisUp, stream, lastId, pel, acked, loopVars, balancerVars,
                 sentVars, faults>>

(* XREADGROUP ... > with its Count *)
Fresh == {i \in lastId + 1 .. lastId + BatchCount : i <= Len(stream)}

\* mutant: the cursor runs past the log's end
TakeBlockPast ==
  /\ grouped /\ Fresh # {}
  /\ lastId' = lastId + BatchCount
  /\ pel' = pel \cup Fresh
  /\ UNCHANGED <<stream, grouped, acked>>

TakeBlock ==
  /\ grouped /\ Fresh # {}
  /\ lastId' = lastId + Cardinality(Fresh)
  /\ pel' = pel \cup Fresh
  /\ UNCHANGED <<stream, grouped, acked>>

ReadGroup ==
  /\ Reachable /\ batch = << >>
  /\ TakeBlock
  /\ batch' = [k \in 1 .. Cardinality(Fresh) |-> lastId + k]
  /\ UNCHANGED <<redisUp, ctx, stage, target, tries, balancerVars, sentVars,
                 faults>>

\* the block was delivered and its reply lost: the next call, or the same
\* one sent again, asks for > and so for the block behind it
ReadGroupLost ==
  /\ Reachable /\ batch = << >>
  /\ TakeBlock
  /\ ReplyLost
  /\ UNCHANGED <<ctx, loopVars, balancerVars, sentVars>>

-----------------------------------------------------------------------------
(* RouteTask and deliverTask *)

Chosen(t, intent) ==
  IF Destination[t] = NoDest THEN FallbackMap[intent] ELSE Destination[t]

\* mutant: the counter does not move
SameInstance(d, to) ==
  \/ instances[d] = << >> /\ to = d /\ UNCHANGED balancerVars
  \/ /\ instances[d] # << >>
     /\ to = instances[d][1 + (counters[d] % Len(instances[d]))]
     /\ picks' = [picks EXCEPT ![d] = Append(@, to)]
     /\ UNCHANGED <<instances, counters>>

\* Balancer.NextInstance; without instances the type's own stream is used
NextInstance(d, to) ==
  \/ instances[d] = << >> /\ to = d /\ UNCHANGED balancerVars
  \/ /\ instances[d] # << >>
     /\ to = instances[d][1 + (counters[d] % Len(instances[d]))]
     /\ counters' = [counters EXCEPT ![d] = @ + 1]
     /\ picks' = [picks EXCEPT ![d] = Append(@, to)]
     /\ UNCHANGED instances

\* RouteTask up to the call of deliverTask
RouteTask ==
  /\ batch # << >> /\ stage = "route"
  /\ \E intent \in Classified[stream[Head(batch)]], to \in Targets :
       /\ NextInstance(Chosen(stream[Head(batch)], intent), to)
       /\ target' = to
  /\ stage' = "send"
  /\ tried' = tried \cup {Head(batch)}
  /\ UNCHANGED <<redisUp, redisVars, ctx, batch, tries, sent, unanswered, faults>>

\* one XADD reaches Redis
XAdd ==
  /\ Reachable /\ (target = Router => Len(stream) < MaxLog)
  /\ stream' = IF target = Router THEN Append(stream, stream[Head(batch)])
                                  ELSE stream
  /\ sent' = Append(sent, [entry |-> Head(batch), to |-> target])

NotSent == UNCHANGED <<stream, sent, unanswered, redisUp, faults>>

\* deliverTask returns, its error is dropped
Returns == stage' = "ack" /\ target' = NoDest /\ tries' = 0

\* the client sends the command again, while it may
SendsAgain ==
  \/ tries < MaxRetries /\ tries' = tries + 1 /\ UNCHANGED <<stage, target>>
  \/ tries = MaxRetries /\ Returns

\* deliverTask, one XADD of its client a step: it is answered, or added and
\* not answered, or finds Redis away, or the context cancelled
Deliver ==
  /\ batch # << >> /\ stage = "send"
  /\ \/ XAdd /\ Returns /\ UNCHANGED <<unanswered, redisUp, faults>>
     \/ /\ XAdd /\ ReplyLost /\ SendsAgain
        /\ unanswered' = unanswered \cup {Len(sent) + 1}
     \/ ~redisUp /\ ctx = "live" /\ SendsAgain /\ NotSent
     \/ ctx # "live" /\ Returns /\ NotSent
  /\ UNCHANGED <<grouped, lastId, pel, acked, ctx, batch, balancerVars, tried>>

XAck ==
  \/ /\ Reachable
     /\ pel' = pel \ {Head(batch)} /\ acked' = acked \cup {Head(batch)}
  \/ ~Reachable /\ UNCHANGED <<pel, acked>>

\* mutant: after an XACK the loop forgets to move on
AckStays ==
  /\ batch # << >> /\ stage = "ack"
  /\ XAck
  /\ UNCHANGED <<redisUp, stream, grouped, lastId, ctx, loopVars, balancerVars,
                 sentVars, faults>>

\* mutant: an entry whose XACK failed is routed again
AckErrorRetries ==
  /\ batch # << >> /\ stage = "ack"
  /\ XAck
  /\ batch' = IF Reachable THEN Tail(batch) ELSE batch
  /\ stage' = "route"
  /\ UNCHANGED <<redisUp, stream, grouped, lastId, ctx, target, tries,
                 balancerVars, sentVars, faults>>

\* XACK, its error ignored
Ack ==
  /\ batch # << >> /\ stage = "ack"
  /\ XAck
  /\ batch' = Tail(batch)
  /\ stage' = "route"
  /\ UNCHANGED <<redisUp, stream, grouped, lastId, ctx, target, tries,
                 balancerVars, sentVars, faults>>

-----------------------------------------------------------------------------
(* Stop cancels the context; the loop finishes its batch, with every Redis *)
(* call failing, and returns.                                              *)
Stop ==
  /\ ctx = "live" /\ Fault
  /\ ctx' = "cancelled"
  /\ UNCHANGED <<redisUp, redisVars, loopVars, balancerVars, sentVars>>

\* a new process starts with an empty balancer
Exit ==
  /\ ctx' = "off"
  /\ batch' = << >>
  /\ stage' = "route" /\ target' = NoDest /\ tries' = 0
  /\ instances' = [d \in Dests |-> << >>]
  /\ counters' = [d \in Dests |-> 0]
  /\ picks' = [d \in Dests |-> << >>]
  /\ UNCHANGED <<redisUp, redisVars, sentVars>>

Stopped == ctx = "cancelled" /\ batch = << >> /\ Exit /\ UNCHANGED faults
Crash == ctx # "off" /\ Fault /\ Exit

\* an instance may be registered again, and is listed as often
RegisterInstance(d) ==
  /\ ctx = "live" /\ Len(instances[d]) < MaxInstances
  /\ \E id \in InstanceIds[d] :
       instances' = [instances EXCEPT ![d] = Append(@, id)]
  /\ picks' = [picks EXCEPT ![d] = << >>]
  /\ UNCHANGED <<redisUp, redisVars, ctx, loopVars, counters, sentVars, faults>>

\* environment: producers append tasks, Redis goes and comes back
Produce ==
  /\ redisUp /\ Len(stream) < MaxLog
  /\ \E t \in Tasks : stream' = Append(stream, t)
  /\ UNCHANGED <<redisUp, grouped, lastId, pel, acked, ctx, loopVars,
                 balancerVars, sentVars, faults>>

RedisDown ==
  /\ redisUp /\ Fault
  /\ redisUp' = FALSE
  /\ UNCHANGED <<redisVars, ctx, loopVars, balancerVars, sentVars>>

RedisBack ==
  /\ ~redisUp
  /\ redisUp' = TRUE
  /\ UNCHANGED <<redisVars, ctx, loopVars, balancerVars, sentVars, faults>>

Consume == ReadGroup \/ ReadGroupLost \/ RouteTask \/ Deliver \/ Ack

Next ==
  \/ Start \/ Consume \/ Stop \/ Stopped \/ Crash
  \/ \E d \in Dests : RegisterInstance(d)
  \/ Produce \/ RedisDown \/ RedisBack

Spec == Init /\ [][Next]_vars
\* the goroutine runs
FairSpec == Spec /\ WF_vars(Consume)

-----------------------------------------------------------------------------
(* Every variable has its type; between calls the loop holds no entry.     *)
TypeOK ==
  /\ redisUp \in BOOLEAN
  /\ stream \in Seq(Tasks)
  /\ grouped \in BOOLEAN
  /\ lastId \in 0 .. Len(stream)
  /\ pel \subseteq 1 .. lastId /\ acked \subseteq 1 .. lastId
  /\ ctx \in {"off", "live", "cancelled"}
  /\ batch \in Seq(1 .. lastId) /\ Len(batch) <= BatchCount
  /\ stage \in {"route", "send", "ack"}
  /\ target \in Targets \cup {NoDest} /\ (stage = "send" => target \in Targets)
  /\ tries \in 0 .. MaxRetries
  /\ batch = << >> => stage = "route"
  /\ ctx = "off" => batch = << >>
  /\ instances \in [Dests -> Seq(Targets)]
  /\ counters \in [Dests -> Nat]
  /\ tried \subseteq 1 .. lastId
  /\ sent \in Seq([entry : 1 .. lastId, to : Targets])
  /\ unanswered \subseteq DOMAIN sent
  /\ picks \in [Dests -> Seq(Targets)]
  /\ faults \in Nat

(* The group's books: what was read is pending or acknowledged, never      *)
(* both, nothing is acknowledged before RouteTask was called for it, and   *)
(* the loop holds the youngest entries only, none of them finished.        *)
Books ==
  /\ TypeOK
  /\ pel \cup acked = 1 .. lastId /\ pel \cap acked = {}
  /\ acked \subseteq tried
  /\ \A k \in DOMAIN batch : batch[k] = lastId - Len(batch) + k
  /\ Elems(batch) \subseteq pel
  /\ batch # << >> => (Head(batch) \in tried <=> stage # "route")

(* Deliveries follow the order of tasks:router, through outages, crashes   *)
(* and restarts.  An entry is delivered again only if the reply to its     *)
(* delivery was lost, to the same stream, and at most MaxRetries times.    *)
InOrder ==
  \A j, k \in DOMAIN sent : j < k => sent[j].entry <= sent[k].entry
AgainIfUnanswered ==
  \A j, k \in DOMAIN sent : (j < k /\ sent[j].entry = sent[k].entry) =>
    j \in unanswered /\ sent[j].to = sent[k].to /\ k - j <= MaxRetries

(* While nothing failed, every entry the loop has finished was delivered   *)
(* and acknowledged, and no reply was lost.                                *)
NothingLostWithoutFault ==
  (faults = 0 /\ redisUp) =>
     /\ pel = Elems(batch) /\ unanswered = {}
     /\ acked \subseteq {sent[k].entry : k \in DOMAIN sent}

(* What the router delivered, in a run without faults and with them.       *)
Delivery == InOrder /\ AgainIfUnanswered /\ NothingLostWithoutFault

(* Round robin: in any as many consecutive picks of a type as it has       *)
(* registrations, with none between them, every instance is picked as      *)
(* often as it is registered.                                              *)
Times(id, s, from, n) == Cardinality({k \in from .. from + n - 1 : s[k] = id})
RoundRobin ==
  \A d \in Dests :
    LET n == Len(instances[d])
    IN \A j \in 1 .. Len(picks[d]) + 1 - n, id \in InstanceIds[d] :
         Times(id, picks[d], j, n) = Times(id, instances[d], 1, n)

NoLoop == \A i \in DOMAIN stream : Destination[stream[i]] # Router

(* If Redis and the router stay up from some time on and no task is        *)
(* addressed to the router itself, every entry is eventually read and      *)
(* finished: nothing but a group that Start failed to create holds it up.  *)
EventuallyDrained ==
  <>[](Reachable /\ NoLoop) =>
    <>[](lastId = Len(stream) /\ batch = << >>) \/ [](~grouped)
=============================================================================
