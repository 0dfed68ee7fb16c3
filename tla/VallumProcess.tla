---------------------------- MODULE VallumProcess ----------------------------
(***************************************************************************)
(* The Vallum process (calango-vallum/src/main.rs): a consumer that shows  *)
(* every entry of the observed streams to SHIELD (shield.rs) and records   *)
(* it in the CHAIN, and a listener that has HEALER diagnose the alerts.    *)
(* Redis holds the streams and the groups and outlives a crash; the trail, *)
(* the counters and the batch in hand do not.                              *)
(***************************************************************************)
EXTENDS Naturals, Sequences, SequencesExt, FiniteSetsExt

CONSTANTS
  TaskStreams,  \* a sequence: OBSERVED_STREAMS but the last, alerts:security
  Senders,      \* sender_id of a task message
  Payloads,     \* of a task, as it is meant: "clean", or "leak", a credential
  Encodings,    \* SUBSET BOOLEAN, is a payload written under base64?
  Times,        \* timestamps in seconds; 0 where it cannot be read
  RateLimit, RateWindow,   \* 100 actions in 60 seconds
  Count,        \* COUNT of XREADGROUP
  MaxTasks, MaxAlerts, MaxFaults   \* bounds

ProcessAssumption ==
  /\ TaskStreams \in Seq(Range(TaskStreams)) /\ IsInjective(TaskStreams)
  /\ "alerts:security" \notin Range(TaskStreams)
  /\ Times \subseteq Nat /\ RateLimit \in Nat /\ RateWindow \in Nat \ {0}
  /\ Payloads \subseteq {"clean", "leak"} /\ Encodings \subseteq BOOLEAN
  /\ Count \in Nat \ {0} /\ {MaxTasks, MaxAlerts, MaxFaults} \subseteq Nat

VARIABLES
  log,          \* [Streams -> Seq(Message)]
  groups,       \* SUBSET Streams, that have the group shield-observers
  given,        \* [Streams -> Nat], the last entry delivered to it
  pending,      \* set of <<stream, index>>, delivered and not acknowledged
  batch,        \* Seq(<<stream, index>>), entries in the consumer's hands
  stage,        \* what it does next with the first of them
  alerted,      \* BOOLEAN, did SHIELD raise an alert for it?
  counters,     \* [sender -> Seq(seconds)], rate_limits
  trail,        \* Seq([entry, violation]), the in-memory audit trail
  healerGroup,  \* BOOLEAN, has alerts:security the group healer-listeners?
  heard,        \* Nat, the last alert HEALER's listener has seen
  \* history, never read by the code
  audited,      \* set of entries ever recorded, in a trail now lost too
  faults        \* Nat, calls failed and crashes so far

redis == <<log, groups, given, pending>>
consumer == <<batch, stage, alerted>>
listener == <<healerGroup, heard>>
vars == <<redis, consumer, counters, trail, listener, audited, faults>>

Alerts == "alerts:security"
Streams == Range(TaskStreams) \cup {Alerts}
Observed == Append(TaskStreams, Alerts)
Unknown == "unknown"

\* parse_stream_entry, which takes a payload as it is written.  An alert has
\* no sender_id and no payload, and keeps the timestamp of what caused it.
Message == [sender: Senders \cup {Unknown}, payload: {"clean", "leak", "encoded"},
            at: Times, about: Streams \X Nat \cup {<< >>}]
At(entry) == log[entry[1]][entry[2]]
AlertOn(entry) ==
  [sender |-> Unknown, payload |-> "clean", at |-> At(entry).at, about |-> entry]

\* mutant: a second more
WideCutoff(t) == IF t > RateWindow THEN t - RateWindow - 1 ELSE 0

\* saturating_sub
Cutoff(t) == IF t > RateWindow THEN t - RateWindow ELSE 0

\* RateCounter::count
CountAt(actions, t) == Cardinality({i \in DOMAIN actions : actions[i] > Cutoff(t)})

\* RateCounter::record_action: pops the front while it is old
RecordAction(actions, t) ==
  LET first == Min({i \in DOMAIN actions : actions[i] > Cutoff(t)}
                     \cup {Len(actions) + 1})
  IN Append(SubSeq(actions, first, Len(actions)), t)

\* check_rate_limit, of what record_action leaves
OverLimit(actions, t) == CountAt(actions, t) > RateLimit

\* base64_encode of IronClaw's client, which hides a pattern
Base64(payload) == IF payload = "leak" THEN "encoded" ELSE payload

\* detect_credential_exposure: a search of the payload's text as it stands
Exposes(m) == m.payload = "leak"

Init ==
  /\ log = [s \in Streams |-> << >>] /\ given = [s \in Streams |-> 0]
  /\ groups = {} /\ healerGroup = FALSE
  /\ pending = {} /\ batch = << >> /\ stage = "observe" /\ alerted = FALSE
  /\ counters = [a \in Senders \cup {Unknown} |-> << >>]
  /\ trail = << >> /\ heard = 0 /\ audited = {} /\ faults = 0

Fault == faults < MaxFaults /\ faults' = faults + 1

-----------------------------------------------------------------------------
\* IronClaw, PicoClaw and others add a task
AddTask(s, sender, payload, t, encoded) ==
  /\ MapThenSumSet(LAMBDA r : Len(log[r]), Range(TaskStreams)) < MaxTasks
  /\ log' = [log EXCEPT ![s] = Append(@,
       [sender |-> sender, at |-> t, about |-> << >>,
        payload |-> IF encoded THEN Base64(payload) ELSE payload])]
  /\ UNCHANGED <<groups, given, pending, consumer, counters, trail, listener,
                 audited, faults>>

\* mutant: errors other than BUSYGROUP are not repaired
EnsureNothing == UNCHANGED <<redis, consumer, counters, trail, listener, audited, faults>>

\* ensure_consumer_groups, at the start and whenever a read says NOGROUP;
\* the groups start at 0.  Its errors are logged.
EnsureGroups ==
  /\ groups # Streams
  /\ groups' = Streams
  /\ UNCHANGED <<log, given, pending, consumer, counters, trail, listener,
                 audited, faults>>

\* XREADGROUP with ">" on every stream, in their order
Fresh(s) == [i \in 1..Min({Count, Len(log[s]) - given[s]}) |-> <<s, given[s] + i>>]
Delivered == FlattenSeq([i \in DOMAIN Observed |-> Fresh(Observed[i])])

Deliver ==
  /\ batch = << >> /\ groups = Streams /\ Delivered # << >>
  /\ given' = [s \in Streams |-> given[s] + Len(Fresh(s))]
  /\ pending' = pending \cup Range(Delivered)
  /\ UNCHANGED <<log, groups, counters, trail, listener, audited>>

\* mutant: the streams are read from "0", which repeats what is pending
ReadPending ==
  /\ batch = << >> /\ groups = Streams
  /\ IF pending # {} THEN batch' = SetToSeq(pending) /\ UNCHANGED <<given, pending>>
     ELSE /\ Delivered # << >> /\ batch' = Delivered
          /\ given' = [s \in Streams |-> given[s] + Len(Fresh(s))]
          /\ pending' = pending \cup Range(Delivered)
  /\ UNCHANGED <<log, groups, stage, alerted, counters, trail, listener, audited, faults>>

Read == Deliver /\ batch' = Delivered /\ UNCHANGED <<stage, alerted, faults>>

\* the reply is lost on the way: nothing in this code reads it again
ReadLost == Deliver /\ Fault /\ UNCHANGED consumer

\* observe_message; a message that exposes a credential is not counted
Observe ==
  /\ batch # << >> /\ stage = "observe"
  /\ LET m == At(batch[1])
         counted == RecordAction(counters[m.sender], m.at) IN
     IF Exposes(m)
     THEN alerted' = TRUE /\ UNCHANGED counters
     ELSE /\ counters' = [counters EXCEPT ![m.sender] = counted]
          /\ alerted' = OverLimit(counted, m.at)
  /\ stage' = IF alerted' THEN "publish" ELSE "record"
  /\ UNCHANGED <<redis, batch, trail, listener, audited, faults>>

\* XADD of the alert, whose error is ignored
Publish ==
  /\ stage = "publish"
  /\ stage' = "record"
  /\ \/ /\ Len(log[Alerts]) < MaxAlerts
        /\ log' = [log EXCEPT ![Alerts] = Append(@, AlertOn(batch[1]))]
        /\ UNCHANGED faults
     \/ Fault /\ UNCHANGED log
  /\ UNCHANGED <<groups, given, pending, batch, alerted, counters, trail, listener,
                 audited>>

\* chain.record over InMemoryAuditStorage, which cannot fail
Record ==
  /\ stage = "record"
  /\ trail' = Append(trail, [entry |-> batch[1], violation |-> alerted])
  /\ audited' = audited \cup {batch[1]}
  /\ stage' = "ack"
  /\ UNCHANGED <<redis, batch, alerted, counters, listener, faults>>

\* XACK, whose error is ignored
Ack ==
  /\ stage = "ack"
  /\ \/ pending' = pending \ {batch[1]} /\ UNCHANGED faults
     \/ Fault /\ UNCHANGED pending
  /\ batch' = Tail(batch) /\ stage' = "observe" /\ alerted' = FALSE
  /\ UNCHANGED <<log, groups, given, counters, trail, listener, audited>>

-----------------------------------------------------------------------------
\* run_healer_listener: its group is created when it starts, and only then
CreateHealerGroup ==
  /\ ~healerGroup /\ healerGroup' = TRUE
  /\ UNCHANGED <<redis, consumer, counters, trail, heard, audited, faults>>

\* An alert is diagnosed and acknowledged.  can_attempt always allows it: no
\* attempt is recorded in this process, and no fix applied.
Hear ==
  /\ healerGroup /\ heard < Len(log[Alerts])
  /\ heard' = heard + 1
  /\ UNCHANGED <<redis, consumer, counters, trail, healerGroup, audited, faults>>

\* a crash and the start after it
Crash ==
  /\ Fault
  /\ batch' = << >> /\ stage' = "observe" /\ alerted' = FALSE
  /\ counters' = [a \in DOMAIN counters |-> << >>]
  /\ trail' = << >>
  /\ UNCHANGED <<redis, listener, audited>>

Consume == Read \/ Observe \/ Publish \/ Record \/ Ack

Next ==
  \/ \E s \in Range(TaskStreams), a \in Senders, p \in Payloads, t \in Times,
        e \in Encodings : AddTask(s, a, p, t, e)
  \/ EnsureGroups \/ Consume \/ ReadLost \/ CreateHealerGroup \/ Hear \/ Crash

Spec == Init /\ [][Next]_vars

\* the loops run for ever; Redis answers in the end
FairSpec == Spec /\ WF_vars(EnsureGroups) /\ WF_vars(Consume)

-----------------------------------------------------------------------------
(* Every variable has its type.                                            *)
TypeOK ==
  /\ log \in [Streams -> Seq(Message)] /\ groups \subseteq Streams
  /\ \A s \in Streams : given[s] \in 0..Len(log[s])
  /\ pending \subseteq Streams \X Nat /\ batch \in Seq(Streams \X Nat)
  /\ stage \in {"observe", "publish", "record", "ack"} /\ alerted \in BOOLEAN
  /\ counters \in [Senders \cup {Unknown} -> Seq(Times)]
  /\ trail \in Seq([entry: Streams \X Nat, violation: BOOLEAN])
  /\ healerGroup \in BOOLEAN /\ heard \in 0..Len(log[Alerts])
  /\ audited \subseteq Streams \X Nat /\ faults \in 0..MaxFaults

(* The trail of this life shows each stream without a repetition, in its   *)
(* order; an entry is acknowledged only when it was recorded; and without  *)
(* a fault the trail is the whole of what was delivered and is not in      *)
(* hand, in every stream.                                                  *)
TrailIsTheStream ==
  /\ \A i, j \in DOMAIN trail :
       (i < j /\ trail[i].entry[1] = trail[j].entry[1])
         => trail[i].entry[2] < trail[j].entry[2]
  /\ \A s \in Streams : \A i \in 1..given[s] :
       <<s, i>> \in pending \cup audited
  /\ faults = 0 => pending = Range(batch)

(* An entry of the trail is a violation exactly if its payload shows a     *)
(* credential, or its sender has more than RateLimit messages, itself and  *)
(* earlier ones of the trail that showed none, in the window that ends at  *)
(* its timestamp - as long as the sender's timestamps never went back, and *)
(* but for timestamp 0, which no window holds.                             *)
Counted(i, j) ==
  LET m == At(trail[i].entry) n == At(trail[j].entry) IN
  m.sender = n.sender /\ ~Exposes(m) /\ m.at + RateWindow > n.at /\ m.at > 0
VerdictsAreExact ==
  \A j \in DOMAIN trail :
    (\A i, k \in 1..j : i < k /\ At(trail[i].entry).sender = At(trail[k].entry).sender
        => At(trail[i].entry).at <= At(trail[k].entry).at)
    => (trail[j].violation <=>
          \/ Exposes(At(trail[j].entry))
          \/ Quantify(1..j, LAMBDA i : Counted(i, j)) > RateLimit)

(* The loops catch up with the streams, unless an alert was raised about   *)
(* an alert: alerts count as messages of "unknown" and keep the timestamp  *)
(* of their cause, so that from then on each of them may cause the next.   *)
Storm == alerted /\ batch[1][1] = Alerts
DrainsUnlessStorm ==
  <>(Storm \/ [](batch = << >> /\ \A s \in Streams : given[s] = Len(log[s])))

(* What SHIELD says it detects: a message with a credential in its payload *)
(* is recorded as a violation.                                             *)
LeaksAreViolations ==
  \A i \in DOMAIN trail : At(trail[i].entry).payload # "clean" => trail[i].violation
=============================================================================
