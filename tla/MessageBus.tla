----------------------------- MODULE MessageBus -----------------------------
(***************************************************************************)
(* The Redis-Streams message bus of IronClaw (ironclaw/src/message_bus.rs).*)
(*                                                                         *)
(* One MessageBusClient publishes: it checks a message, checks the access  *)
(* matrix, pings Redis and either XADDs the message to the stream of its   *)
(* destination or parks it in a bounded local queue that flush_queue later *)
(* drains.  publish, flush_queue and set_access_matrix take &mut self, so  *)
(* they exclude each other; Redis itself and the subscribers, which run in *)
(* other processes with a client of their own, interleave with them at     *)
(* every await.                                                            *)
(*                                                                         *)
(* A payload and its encoding are abstracted: a message is a member of     *)
(* Msgs, published by at most one call.  Each stream has one consumer      *)
(* group, as every stream of one agent type has.                           *)
(***************************************************************************)
EXTENDS Naturals, Sequences

CONSTANTS
  Agents,         \* agent ids; agent a reads the stream tasks:a
  Msgs,           \* the messages callers publish
  Sender, Dest,   \* [Msgs -> Agents]
  Valid,          \* messages with non-empty sender, destination and payload
  Matrices,       \* access matrices an administrator may install
  Consumers,      \* subscriber processes
  MaxLocalQueue,  \* MAX_LOCAL_QUEUE_SIZE
  MaxBatch,       \* the count argument of subscribe
  Junk,           \* a stream entry parse_stream_entry rejects
  ForeignStreams, \* streams other services also write to
  GroupStreams,   \* streams somebody calls ensure_consumer_group for
  NoAgent,        \* the stream of a subscriber with no call in progress
  MaxLog,         \* bound: entries per stream
  MaxCrashes      \* bound: process crashes

ASSUME BusAssumption ==
  /\ Sender \in [Msgs -> Agents]
  /\ Dest \in [Msgs -> Agents]
  /\ Valid \subseteq Msgs
  /\ Matrices \subseteq SUBSET (Agents \X Agents)
  /\ Matrices # {}
  /\ ForeignStreams \subseteq Agents
  /\ GroupStreams \subseteq Agents
  /\ MaxLocalQueue \in Nat
  /\ MaxBatch \in Nat \ {0}
  /\ MaxLog \in Nat
  /\ MaxCrashes \in Nat
  /\ Junk \notin Msgs
  /\ NoAgent \notin Agents

VARIABLES
  \* the client
  allowed,    \* access_matrix: the pairs is_allowed accepts
  queue,      \* local_queue
  flushing,   \* is a flush_queue call in progress?
  \* Redis
  redisUp,    \* does Redis answer?
  stream,     \* [Agents -> Seq(Msgs \cup {Junk})], one log per destination
  grouped,    \* [Agents -> BOOLEAN], was the consumer group created?
  lastId,     \* [Agents -> Nat], the group's last-delivered entry
  pel,        \* [Agents -> SUBSET Nat], delivered and not acknowledged
  \* subscribe calls in progress
  src,        \* [Consumers -> Agents \cup {NoAgent}], the stream being read
  todo,       \* [Consumers -> SUBSET Nat], entries read and not yet visited
  got,        \* [Consumers -> SUBSET Nat], the messages vector so far
  \* history, never read by the code
  outcome,    \* [Msgs -> Outcomes], what publish answered
  accepted,   \* queued messages in the order queue_locally took them
  lost,       \* queued messages a crash of the publisher destroyed
  ghost,      \* messages XADDed by a call that reported an error
  start,      \* [Agents -> Nat], where the group was opened
  acked,      \* [Agents -> SUBSET Nat], acknowledged entries
  returned,   \* [Agents -> SUBSET Nat], entries subscribe gave its caller
  crashes

pubVars   == <<queue, flushing, outcome, accepted, lost, ghost>>
subVars   == <<src, todo, got, returned>>
groupVars == <<grouped, lastId, pel, start, acked>>
vars == <<allowed, pubVars, redisUp, stream, groupVars, subVars, crashes>>

Outcomes == {"new", "invalid", "denied", "full", "queued", "sent", "failed"}
Entries == Msgs \cup {Junk}
Elems(s) == {s[i] : i \in DOMAIN s}
OnStream(m) == m \in Elems(stream[Dest[m]])

-----------------------------------------------------------------------------
Init ==
  /\ allowed \in Matrices
  /\ queue = << >>
  /\ flushing = FALSE
  /\ redisUp \in BOOLEAN
  /\ stream = [a \in Agents |-> << >>]
  /\ grouped = [a \in Agents |-> FALSE]
  /\ lastId = [a \in Agents |-> 0]
  /\ pel = [a \in Agents |-> {}]
  /\ src = [c \in Consumers |-> NoAgent]
  /\ todo = [c \in Consumers |-> {}]
  /\ got = [c \in Consumers |-> {}]
  /\ outcome = [m \in Msgs |-> "new"]
  /\ accepted = << >>
  /\ lost = {}
  /\ ghost = {}
  /\ start = [a \in Agents |-> 0]
  /\ acked = [a \in Agents |-> {}]
  /\ returned = [a \in Agents |-> {}]
  /\ crashes = 0

-----------------------------------------------------------------------------
(* One XADD.  An error leaves the caller in the dark: the connection broke *)
(* before the command ran, or after Redis had appended the entry.          *)

XAddOk(m) ==
  /\ redisUp
  /\ Len(stream[Dest[m]]) < MaxLog
  /\ stream' = [stream EXCEPT ![Dest[m]] = Append(@, m)]
  /\ UNCHANGED <<redisUp, ghost>>

XAddLostReply(m) ==
  /\ redisUp
  /\ Len(stream[Dest[m]]) < MaxLog
  /\ stream' = [stream EXCEPT ![Dest[m]] = Append(@, m)]
  /\ redisUp' = FALSE
  /\ ghost' = ghost \cup {m}

XAddRefused == UNCHANGED <<redisUp, stream, ghost>>

XAddErr(m) == XAddRefused \/ XAddLostReply(m)

-----------------------------------------------------------------------------
(* publish.  The client is free, the message new; the code's early returns *)
(* come in this order: validation, access control, connectivity.           *)

IsValid(m) == m \in Valid
MayPublish(m) == ~flushing /\ outcome[m] = "new"
IsAllowed(m) == <<Sender[m], Dest[m]>> \in allowed
Answer(m, o) == outcome' = [outcome EXCEPT ![m] = o]

Invalid(m) ==
  /\ MayPublish(m) /\ ~IsValid(m)
  /\ Answer(m, "invalid")
  /\ UNCHANGED <<queue, redisUp, stream, accepted, ghost>>

Denied(m) ==
  /\ MayPublish(m) /\ IsValid(m) /\ ~IsAllowed(m)
  /\ Answer(m, "denied")
  /\ UNCHANGED <<queue, redisUp, stream, accepted, ghost>>

\* mutant: the bound is off by one
QueueLocallyPastBound(m) ==
  /\ MayPublish(m) /\ IsValid(m) /\ IsAllowed(m)
  /\ ~redisUp
  /\ Len(queue) <= MaxLocalQueue
  /\ queue' = Append(queue, m)
  /\ accepted' = Append(accepted, m)
  /\ Answer(m, "queued")
  /\ UNCHANGED <<redisUp, stream, ghost>>

QueueLocally(m) ==
  /\ MayPublish(m) /\ IsValid(m) /\ IsAllowed(m)
  /\ ~redisUp
  /\ Len(queue) < MaxLocalQueue
  /\ queue' = Append(queue, m)
  /\ accepted' = Append(accepted, m)
  /\ Answer(m, "queued")
  /\ UNCHANGED <<redisUp, stream, ghost>>

QueueFull(m) ==
  /\ MayPublish(m) /\ IsValid(m) /\ IsAllowed(m)
  /\ ~redisUp
  /\ Len(queue) >= MaxLocalQueue
  /\ Answer(m, "full")
  /\ UNCHANGED <<queue, redisUp, stream, accepted, ghost>>

\* the ping succeeded; the XADD that follows may still fail, and then the
\* message is not queued
PublishToStream(m) ==
  /\ MayPublish(m) /\ IsValid(m) /\ IsAllowed(m)
  /\ redisUp
  /\ \/ XAddOk(m) /\ Answer(m, "sent")
     \/ XAddErr(m) /\ Answer(m, "failed")
  /\ UNCHANGED <<queue, accepted>>

Publish(m) ==
  /\ \/ Invalid(m)
     \/ Denied(m)
     \/ QueueLocally(m)
     \/ QueueFull(m)
     \/ PublishToStream(m)
  /\ UNCHANGED <<allowed, flushing, lost, groupVars, subVars, crashes>>

-----------------------------------------------------------------------------
(* flush_queue: a ping, then one XADD per queued message until the queue   *)
(* is empty or an XADD fails; a failed message goes back to the front.     *)

FlushStart ==
  /\ ~flushing /\ redisUp
  /\ flushing' = TRUE
  /\ UNCHANGED <<allowed, queue, redisUp, stream, outcome, accepted, lost,
                 ghost, groupVars, subVars, crashes>>

\* mutant: the head is sent but not taken off the queue
FlushOnePeeks ==
  /\ flushing /\ queue # << >>
  /\ XAddOk(Head(queue))
  /\ UNCHANGED <<allowed, queue, flushing, outcome, accepted, lost, groupVars,
                 subVars, crashes>>

FlushOne ==
  /\ flushing /\ queue # << >>
  /\ XAddOk(Head(queue))
  /\ queue' = Tail(queue)
  /\ UNCHANGED <<allowed, flushing, outcome, accepted, lost, groupVars,
                 subVars, crashes>>

\* mutant: the failed message is dropped
FlushErrorDrops ==
  /\ flushing /\ queue # << >>
  /\ XAddErr(Head(queue))
  /\ queue' = Tail(queue)
  /\ flushing' = FALSE
  /\ UNCHANGED <<allowed, outcome, accepted, lost, groupVars, subVars, crashes>>

FlushError ==
  /\ flushing /\ queue # << >>
  /\ XAddErr(Head(queue))
  /\ queue' = <<Head(queue)>> \o Tail(queue)
  /\ flushing' = FALSE
  /\ UNCHANGED <<allowed, outcome, accepted, lost, groupVars, subVars, crashes>>

FlushDone ==
  /\ flushing /\ queue = << >>
  /\ flushing' = FALSE
  /\ UNCHANGED <<allowed, queue, redisUp, stream, outcome, accepted, lost,
                 ghost, groupVars, subVars, crashes>>

SetAccessMatrix ==
  /\ ~flushing
  /\ allowed' \in Matrices
  /\ UNCHANGED <<pubVars, redisUp, stream, groupVars, subVars, crashes>>

-----------------------------------------------------------------------------
(* ensure_consumer_group: XGROUP CREATE tasks:a group $ MKSTREAM.  The     *)
(* group starts after the entries already there; an existing group is an   *)
(* error that changes nothing.                                             *)

XGroupCreate(a) ==
  /\ redisUp /\ ~grouped[a]
  /\ grouped' = [grouped EXCEPT ![a] = TRUE]
  /\ lastId' = [lastId EXCEPT ![a] = Len(stream[a])]
  /\ start' = [start EXCEPT ![a] = Len(stream[a])]
  /\ UNCHANGED <<pel, acked>>

EnsureConsumerGroup(a) ==
  /\ XGroupCreate(a)
  /\ UNCHANGED <<allowed, pubVars, redisUp, stream, subVars, crashes>>

-----------------------------------------------------------------------------
(* subscribe: XREADGROUP ... > moves a block of new entries to the pending *)
(* list; then, entry by entry, a parseable one is XACKed and kept, any     *)
(* other is skipped; an XACK error ends the call and drops what was kept.  *)

Fresh(a, n) == {i \in lastId[a] + 1 .. lastId[a] + n : i <= Len(stream[a])}

\* mutant: the read does not move the cursor
ReadGroupPeeks(a, n) ==
  /\ redisUp /\ grouped[a] /\ Fresh(a, n) # {}
  /\ pel' = [pel EXCEPT ![a] = @ \cup Fresh(a, n)]
  /\ UNCHANGED <<grouped, lastId, start, acked>>

ReadGroup(a, n) ==
  /\ redisUp /\ grouped[a] /\ Fresh(a, n) # {}
  /\ lastId' = [lastId EXCEPT ![a] = IF @ + n <= Len(stream[a])
                                     THEN @ + n ELSE Len(stream[a])]
  /\ pel' = [pel EXCEPT ![a] = @ \cup Fresh(a, n)]
  /\ UNCHANGED <<grouped, start, acked>>

SubscribeRead(c, a) ==
  /\ src[c] = NoAgent
  /\ ReadGroup(a, MaxBatch)
  /\ src' = [src EXCEPT ![c] = a]
  /\ todo' = [todo EXCEPT ![c] = Fresh(a, MaxBatch)]
  /\ UNCHANGED <<allowed, pubVars, redisUp, stream, got, returned, crashes>>

\* Redis delivered the block, the reply never arrived: subscribe returns Err
SubscribeReadLost(c, a) ==
  /\ src[c] = NoAgent
  /\ ReadGroup(a, MaxBatch)
  /\ redisUp' = FALSE
  /\ UNCHANGED <<allowed, pubVars, stream, subVars, crashes>>

NextIn(c, i) == i \in todo[c] /\ \A j \in todo[c] : i <= j

XAck(a, i) ==
  /\ pel' = [pel EXCEPT ![a] = @ \ {i}]
  /\ acked' = [acked EXCEPT ![a] = @ \cup {i}]
  /\ UNCHANGED <<grouped, lastId, start>>

EndCall(c) ==
  /\ src' = [src EXCEPT ![c] = NoAgent]
  /\ todo' = [todo EXCEPT ![c] = {}]
  /\ got' = [got EXCEPT ![c] = {}]

SubscribeAck(c, a) ==
  /\ src[c] = a /\ redisUp
  /\ \E i \in todo[c] :
       /\ NextIn(c, i) /\ stream[a][i] # Junk
       /\ XAck(a, i)
       /\ todo' = [todo EXCEPT ![c] = @ \ {i}]
       /\ got' = [got EXCEPT ![c] = @ \cup {i}]
  /\ UNCHANGED <<allowed, pubVars, redisUp, stream, src, returned, crashes>>

\* mutant: an entry that does not parse is handed on
SubscribeSkipKeeps(c, a) ==
  /\ src[c] = a
  /\ \E i \in todo[c] :
       /\ NextIn(c, i) /\ stream[a][i] = Junk
       /\ todo' = [todo EXCEPT ![c] = @ \ {i}]
       /\ got' = [got EXCEPT ![c] = @ \cup {i}]
  /\ UNCHANGED <<allowed, pubVars, redisUp, stream, groupVars, src,
                 returned, crashes>>

SubscribeSkip(c, a) ==
  /\ src[c] = a
  /\ \E i \in todo[c] :
       /\ NextIn(c, i) /\ stream[a][i] = Junk
       /\ todo' = [todo EXCEPT ![c] = @ \ {i}]
  /\ UNCHANGED <<allowed, pubVars, redisUp, stream, groupVars, src, got,
                 returned, crashes>>

\* the ? on xack: the acknowledgement may or may not have been applied
SubscribeAckError(c, a) ==
  /\ src[c] = a
  /\ \E i \in todo[c] :
       /\ NextIn(c, i) /\ stream[a][i] # Junk
       /\ \/ UNCHANGED <<groupVars, redisUp>>
          \/ redisUp /\ XAck(a, i) /\ redisUp' = FALSE
  /\ EndCall(c)
  /\ UNCHANGED <<allowed, pubVars, stream, returned, crashes>>

SubscribeReturn(c, a) ==
  /\ src[c] = a /\ todo[c] = {}
  /\ returned' = [returned EXCEPT ![a] = @ \cup got[c]]
  /\ EndCall(c)
  /\ UNCHANGED <<allowed, pubVars, redisUp, stream, groupVars, crashes>>

Subscribe(c, a) ==
  \/ SubscribeRead(c, a)
  \/ SubscribeReadLost(c, a)
  \/ SubscribeAck(c, a)
  \/ SubscribeSkip(c, a)
  \/ SubscribeAckError(c, a)
  \/ SubscribeReturn(c, a)

-----------------------------------------------------------------------------
(* The environment: Redis comes and goes (its streams persist), other      *)
(* services append entries this client cannot parse (PicoClaw's have no    *)
(* task_type field), and processes crash.                                  *)

RedisToggles ==
  /\ redisUp' = ~redisUp
  /\ UNCHANGED <<allowed, pubVars, stream, groupVars, subVars, crashes>>

ForeignEntry(a) ==
  /\ redisUp /\ Len(stream[a]) < MaxLog
  /\ stream' = [stream EXCEPT ![a] = Append(@, Junk)]
  /\ UNCHANGED <<allowed, pubVars, redisUp, groupVars, subVars, crashes>>

\* the local queue lives in memory only
PublisherCrash ==
  /\ crashes < MaxCrashes
  /\ crashes' = crashes + 1
  /\ lost' = lost \cup Elems(queue)
  /\ queue' = << >>
  /\ flushing' = FALSE
  /\ UNCHANGED <<allowed, redisUp, stream, outcome, accepted, ghost,
                 groupVars, subVars>>

ConsumerCrash(c) ==
  /\ crashes < MaxCrashes /\ src[c] # NoAgent
  /\ crashes' = crashes + 1
  /\ EndCall(c)
  /\ UNCHANGED <<allowed, pubVars, redisUp, stream, groupVars, returned>>

Next ==
  \/ \E m \in Msgs : Publish(m)
  \/ FlushStart \/ FlushOne \/ FlushError \/ FlushDone
  \/ SetAccessMatrix
  \/ \E a \in GroupStreams : EnsureConsumerGroup(a)
  \/ \E a \in ForeignStreams : ForeignEntry(a)
  \/ \E c \in Consumers, a \in Agents : Subscribe(c, a)
  \/ RedisToggles
  \/ PublisherCrash
  \/ \E c \in Consumers : ConsumerCrash(c)

Spec == Init /\ [][Next]_vars

-----------------------------------------------------------------------------
(* Every variable has its type, and the local queue its documented bound:  *)
(* a flush that puts a message back never makes it exceed MaxLocalQueue.   *)
TypeOK ==
  /\ allowed \in Matrices
  /\ queue \in Seq(Msgs) /\ Len(queue) <= MaxLocalQueue
  /\ flushing \in BOOLEAN
  /\ redisUp \in BOOLEAN
  /\ stream \in [Agents -> Seq(Entries)]
  /\ grouped \in [Agents -> BOOLEAN]
  /\ lastId \in [Agents -> Nat]
  /\ pel \in [Agents -> SUBSET Nat]
  /\ src \in [Consumers -> Agents \cup {NoAgent}]
  /\ todo \in [Consumers -> SUBSET Nat]
  /\ got \in [Consumers -> SUBSET Nat]
  /\ outcome \in [Msgs -> Outcomes]
  /\ accepted \in Seq(Msgs)
  /\ lost \subseteq Msgs
  /\ ghost \subseteq Msgs
  /\ start \in [Agents -> Nat]
  /\ acked \in [Agents -> SUBSET Nat]
  /\ returned \in [Agents -> SUBSET Nat]
  /\ crashes \in Nat

(* A message the client took into its local queue is never lost by the bus *)
(* itself: it is still queued or on its destination's stream, unless the   *)
(* publisher's process died with it (queue_locally, flush_queue).          *)
QueuedNotLost ==
  \A m \in Msgs : outcome[m] = "queued" =>
     m \in Elems(queue) \/ OnStream(m) \/ m \in lost

(* A message is never at once waiting and already published, nor published *)
(* twice, unless an XADD that took effect was reported as an error: then   *)
(* flush_queue, which put it back, sends it again.                         *)
NoDuplicateWithoutLostReply ==
  \A m \in Msgs \ ghost :
     /\ \A i, j \in DOMAIN stream[Dest[m]] :
          stream[Dest[m]][i] = m /\ stream[Dest[m]][j] = m => i = j
     /\ ~(m \in Elems(queue) /\ OnStream(m))

(* flush_queue sends in FIFO order across interrupted flushes: when a      *)
(* queued message is on its stream, every message queued before it is      *)
(* published too, and before it if they share a stream, unless it died in  *)
(* a crash.                                                                *)
DrainOrder ==
  \A i, j \in DOMAIN accepted :
     (i < j /\ accepted[i] \notin lost /\ OnStream(accepted[j])) =>
       LET m == accepted[i]
           n == accepted[j]
       IN /\ OnStream(m)
          /\ Dest[m] = Dest[n] =>
               \A q \in DOMAIN stream[Dest[n]] : stream[Dest[n]][q] = n =>
                  \E p \in DOMAIN stream[Dest[m]] :
                     p < q /\ stream[Dest[m]][p] = m

(* A message leaves the client once, in the order it came in, through      *)
(* interrupted flushes and publishes that overtake the queue.              *)
SentOnceInOrder == NoDuplicateWithoutLostReply /\ DrainOrder

InCall(c, a) == IF src[c] = a THEN todo[c] \cup got[c] ELSE {}

(* Whatever consumers of a group do at once, no stream entry reaches two   *)
(* of them: the calls in progress hold disjoint entries, none of which was *)
(* handed to a caller before (subscribe reads with > only).                *)
EntryHeldOnce ==
  \A a \in Agents :
     /\ \A c, d \in Consumers : c # d => InCall(c, a) \cap InCall(d, a) = {}
     /\ \A c \in Consumers : InCall(c, a) \cap returned[a] = {}

(* The group's books balance: every entry read since the group was opened  *)
(* is either pending or acknowledged, never both; what subscribe has       *)
(* returned or is about to return is acknowledged, what it has still to    *)
(* visit is pending, and an entry it cannot parse is never acknowledged.   *)
GroupAccounting ==
  \A a \in Agents :
     /\ pel[a] \cap acked[a] = {}
     /\ pel[a] \cup acked[a] = start[a] + 1 .. lastId[a]
     /\ returned[a] \subseteq acked[a]
     /\ \A i \in acked[a] : stream[a][i] # Junk
     /\ \A c \in Consumers : src[c] = a =>
          /\ got[c] \subseteq acked[a]
          /\ todo[c] \subseteq pel[a]

(* The books of every group balance and no entry reaches two callers.      *)
GroupCorrect == GroupAccounting /\ EntryHeldOnce

\* what makes them inductive
CursorsOrdered ==
  \A a \in Agents :
     /\ start[a] <= lastId[a] /\ lastId[a] <= Len(stream[a])
     /\ ~grouped[a] => lastId[a] = 0
IdleHoldsNothing ==
  \A c \in Consumers : src[c] = NoAgent => todo[c] = {} /\ got[c] = {}
GroupInv ==
  CursorsOrdered /\ IdleHoldsNothing /\ GroupAccounting /\ EntryHeldOnce

(* The client, Redis and the consumers together implement the contract a   *)
(* user of the bus may rely on: a line that leaves in order and only by    *)
(* being logged, and entries returned at most once.                        *)
Contract == INSTANCE BusContract WITH
  Capacity <- MaxLocalQueue, line <- queue, log <- stream, claimed <- lastId
ImplementsContract == Contract!Spec

-----------------------------------------------------------------------------
(* Claims of the repository that the code does not keep.                   *)

(* "Guarantees at-least-once delivery through Redis consumer groups and    *)
(* message acknowledgment": an acknowledged message has been given to a    *)
(* subscriber, or is held by the call that acknowledged it.                *)
AckedIsDelivered ==
  \A a \in Agents : \A i \in acked[a] :
     \/ i \in returned[a]
     \/ \E c \in Consumers : src[c] = a /\ i \in got[c]

=============================================================================
