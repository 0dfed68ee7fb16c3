-------------------------- MODULE MessageBusProofs --------------------------
(***************************************************************************)
(* Proofs about MessageBus for every number of agents, messages and        *)
(* consumers, every queue capacity and every bound.                        *)
(***************************************************************************)
EXTENDS MessageBus, SequenceTheorems, TLAPS

USE BusAssumption DEF BusAssumption

-----------------------------------------------------------------------------
(* Sequences *)

\* what an append adds
LEMMA AppendElems ==
  ASSUME NEW S, NEW s \in Seq(S), NEW e \in S
  PROVE  Elems(Append(s, e)) = Elems(s) \cup {e}
BY SMTT(30) DEF Elems

\* what taking the head leaves
LEMMA HeadTailElems ==
  ASSUME NEW S, NEW s \in Seq(S), s # << >>
  PROVE  /\ Elems(s) = {Head(s)} \cup Elems(Tail(s))
         /\ Elems(s) \subseteq S
<1>1. Len(s) \in Nat \ {0} /\ Len(Tail(s)) = Len(s) - 1 /\ Tail(s) \in Seq(S)
  BY EmptySeq, HeadTailProperties
<1>2. \A i \in 1 .. Len(Tail(s)) : Tail(s)[i] = s[i + 1]
  BY <1>1, HeadTailProperties
<1>3. Head(s) = s[1]
  BY <1>1
<1>4. DOMAIN s = 1 .. Len(s) /\ DOMAIN Tail(s) = 1 .. Len(s) - 1
  BY <1>1
<1>5. ASSUME NEW x \in Elems(s) PROVE x \in {Head(s)} \cup Elems(Tail(s))
  <2>1. PICK i \in 1 .. Len(s) : x = s[i]
    BY <1>4 DEF Elems
  <2>2. CASE i = 1
    BY <2>1, <2>2, <1>3
  <2>3. CASE i # 1
    <3>1. i - 1 \in 1 .. Len(s) - 1 /\ Tail(s)[i - 1] = s[i]
      BY <2>1, <2>3, <1>1, <1>2
    <3>2. QED BY <3>1, <2>1, <1>4 DEF Elems
  <2>4. QED BY <2>2, <2>3
<1>6. ASSUME NEW x \in Elems(Tail(s)) PROVE x \in Elems(s)
  <2>1. PICK i \in 1 .. Len(s) - 1 : x = Tail(s)[i]
    BY <1>4 DEF Elems
  <2>2. i + 1 \in 1 .. Len(s) /\ s[i + 1] = x
    BY <2>1, <1>1, <1>2
  <2>3. QED BY <2>2, <1>4 DEF Elems
<1>7. Head(s) \in Elems(s)
  BY <1>1, <1>3, <1>4 DEF Elems
<1>8. Elems(s) \subseteq S
  BY <1>4, ElementOfSeq DEF Elems
<1>9. QED BY <1>5, <1>6, <1>7, <1>8

\* an XADD keeps the streams typed
LEMMA AppendToStream ==
  ASSUME NEW st \in [Agents -> Seq(Entries)], NEW a \in Agents, NEW e \in Entries
  PROVE  [st EXCEPT ![a] = Append(@, e)] \in [Agents -> Seq(Entries)]
<1>1. Append(st[a], e) \in Seq(Entries)
  BY AppendProperties
<1>2. QED BY <1>1

\* push_front of what pop_front took restores the queue
LEMMA PutBackHead ==
  ASSUME NEW S, NEW s \in Seq(S), s # << >>
  PROVE  <<Head(s)>> \o Tail(s) = s
BY HeadTailProperties

-----------------------------------------------------------------------------
(* Type correctness: every variable of the bus has its type and the local  *)
(* queue never exceeds its bound.                                          *)
THEOREM TypeCorrect == Spec => []TypeOK
<1>1. Init => TypeOK
  <2> SUFFICES ASSUME Init PROVE TypeOK
    OBVIOUS
  <2>1. queue \in Seq(Msgs) /\ accepted \in Seq(Msgs)
    BY EmptySeq DEF Init
  <2>2. Len(queue) <= MaxLocalQueue
    BY EmptySeq DEF Init
  <2>3. stream \in [Agents -> Seq(Entries)]
    <3>1. << >> \in Seq(Entries)
      BY EmptySeq
    <3>2. QED BY <3>1 DEF Init
  <2>4. /\ lastId \in [Agents -> Nat] /\ pel \in [Agents -> SUBSET Nat]
        /\ start \in [Agents -> Nat] /\ acked \in [Agents -> SUBSET Nat]
        /\ grouped \in [Agents -> BOOLEAN]
        /\ returned \in [Agents -> SUBSET Nat] /\ crashes \in Nat
    BY DEF Init
  <2>5. /\ src \in [Consumers -> Agents \cup {NoAgent}]
        /\ todo \in [Consumers -> SUBSET Nat]
        /\ got \in [Consumers -> SUBSET Nat]
    BY DEF Init
  <2>6. /\ outcome \in [Msgs -> Outcomes] /\ allowed \in Matrices
        /\ flushing \in BOOLEAN /\ redisUp \in BOOLEAN
        /\ lost \subseteq Msgs /\ ghost \subseteq Msgs
    BY DEF Init, Outcomes
  <2>7. QED BY <2>1, <2>2, <2>3, <2>4, <2>5, <2>6 DEF TypeOK
<1>2. TypeOK /\ [Next]_vars => TypeOK'
  <2> SUFFICES ASSUME TypeOK, [Next]_vars PROVE TypeOK'
    OBVIOUS
  <2> USE DEF TypeOK, groupVars, subVars, pubVars
  <2>1. ASSUME NEW m \in Msgs, XAddOk(m) \/ XAddErr(m)
        PROVE  /\ stream' \in [Agents -> Seq(Entries)]
               /\ redisUp' \in BOOLEAN /\ ghost' \subseteq Msgs
    <3>1. m \in Entries /\ Dest[m] \in Agents
      BY DEF Entries
    <3>3. \/ stream' = stream
          \/ stream' = [stream EXCEPT ![Dest[m]] = Append(@, m)]
      BY <2>1 DEF XAddOk, XAddErr, XAddLostReply, XAddRefused
    <3>4. stream' \in [Agents -> Seq(Entries)]
      <4>1. [stream EXCEPT ![Dest[m]] = Append(@, m)] \in [Agents -> Seq(Entries)]
        BY ONLY <3>1, TypeOK, AppendToStream DEF TypeOK
      <4>2. QED BY <4>1, <3>3
    <3>5. redisUp' \in BOOLEAN /\ ghost' \subseteq Msgs
      BY <2>1 DEF XAddOk, XAddErr, XAddLostReply, XAddRefused
    <3>6. QED BY <3>4, <3>5
  <2>2. ASSUME queue # << >>
        PROVE  /\ Head(queue) \in Msgs
               /\ Tail(queue) \in Seq(Msgs)
               /\ Len(Tail(queue)) <= MaxLocalQueue
               /\ <<Head(queue)>> \o Tail(queue) = queue
    BY SMTT(30), <2>2, HeadTailProperties, PutBackHead, LenProperties
  <2>3. ASSUME NEW m \in Msgs, Publish(m) PROVE TypeOK'
    <3> USE DEF Answer, Outcomes, MayPublish
    <3>1. UNCHANGED <<allowed, flushing, lost, groupVars, subVars, crashes>>
      BY <2>3 DEF Publish
    <3>2. CASE Invalid(m) BY <3>1, <3>2 DEF Invalid
    <3>3. CASE Denied(m) BY <3>1, <3>3 DEF Denied
    <3>4. CASE QueueFull(m) BY <3>1, <3>4 DEF QueueFull
    <3>5. CASE QueueLocally(m)
      BY SMTT(30), <3>1, <3>5, AppendProperties DEF QueueLocally
    <3>6. CASE PublishToStream(m)
      BY <3>1, <3>6, <2>1 DEF PublishToStream
    <3>7. QED BY <2>3, <3>2, <3>3, <3>4, <3>5, <3>6 DEF Publish
  <2>4. CASE FlushStart BY <2>4 DEF FlushStart
  <2>5. CASE FlushOne
    BY <2>5, <2>1, <2>2 DEF FlushOne
  <2>6. CASE FlushError
    BY <2>6, <2>1, <2>2 DEF FlushError
  <2>7. CASE FlushDone BY <2>7 DEF FlushDone
  <2>8. CASE SetAccessMatrix BY <2>8 DEF SetAccessMatrix
  <2>9. ASSUME NEW a \in GroupStreams, EnsureConsumerGroup(a) PROVE TypeOK'
    BY <2>9, LenProperties DEF EnsureConsumerGroup, XGroupCreate
  <2>10. ASSUME NEW a \in ForeignStreams, ForeignEntry(a) PROVE TypeOK'
    BY SMTT(30), <2>10, AppendProperties DEF ForeignEntry, Entries
  <2>11. ASSUME NEW c \in Consumers, NEW a \in Agents, Subscribe(c, a)
         PROVE  TypeOK'
    <3>1. Fresh(a, MaxBatch) \subseteq Nat /\ Len(stream[a]) \in Nat
      BY LenProperties DEF Fresh
    <3>2. CASE SubscribeRead(c, a)
      <4>1. ReadGroup(a, MaxBatch) /\ todo' \in [Consumers -> SUBSET Nat]
            /\ src' \in [Consumers -> Agents \cup {NoAgent}]
        BY <3>1, <3>2 DEF SubscribeRead
      <4>2. lastId' \in [Agents -> Nat] /\ pel' \in [Agents -> SUBSET Nat]
        BY <3>1, <4>1 DEF ReadGroup
      <4>3. QED BY <3>2, <4>1, <4>2 DEF SubscribeRead, ReadGroup
    <3>3. CASE SubscribeReadLost(c, a)
      <4>1. ReadGroup(a, MaxBatch)
        BY <3>3 DEF SubscribeReadLost
      <4>2. lastId' \in [Agents -> Nat] /\ pel' \in [Agents -> SUBSET Nat]
        BY <3>1, <4>1 DEF ReadGroup
      <4>3. QED BY <3>3, <4>1, <4>2 DEF SubscribeReadLost, ReadGroup
    <3>4. CASE SubscribeAck(c, a)
      BY SMTT(30), <3>4 DEF SubscribeAck, XAck
    <3>5. CASE SubscribeSkip(c, a)
      <4>1. todo' \in [Consumers -> SUBSET Nat]
        BY <3>5 DEF SubscribeSkip
      <4>2. QED BY <3>5, <4>1 DEF SubscribeSkip
    <3>6. CASE SubscribeAckError(c, a)
      <4>1. pel' \in [Agents -> SUBSET Nat] /\ acked' \in [Agents -> SUBSET Nat]
            /\ UNCHANGED <<grouped, lastId, start>> /\ redisUp' \in BOOLEAN
        <5>1. CASE UNCHANGED <<groupVars, redisUp>>
          BY <5>1
        <5>2. CASE \E i \in todo[c] : XAck(a, i) /\ redisUp' = FALSE
          <6>1. PICK i \in todo[c] : XAck(a, i) /\ redisUp' = FALSE
            BY <5>2
          <6>2. i \in Nat
            OBVIOUS
          <6>3. QED BY <6>1, <6>2 DEF XAck
        <5>3. QED BY <3>6, <5>1, <5>2 DEF SubscribeAckError
      <4>2. QED BY <3>6, <4>1 DEF SubscribeAckError, EndCall
    <3>7. CASE SubscribeReturn(c, a)
      BY <3>7 DEF SubscribeReturn, EndCall
    <3>8. QED BY <2>11, <3>2, <3>3, <3>4, <3>5, <3>6, <3>7 DEF Subscribe
  <2>12. CASE RedisToggles BY <2>12 DEF RedisToggles
  <2>13. CASE PublisherCrash
    <3>1. Elems(queue) \subseteq Msgs
      BY ElementOfSeq, LenProperties DEF Elems
    <3>2. queue' \in Seq(Msgs) /\ Len(queue') <= MaxLocalQueue
      BY <2>13, EmptySeq DEF PublisherCrash
    <3>3. lost' \subseteq Msgs
      BY <3>1, <2>13 DEF PublisherCrash
    <3>4. flushing' \in BOOLEAN /\ crashes' \in Nat
      <4>1. flushing' \in BOOLEAN
        BY ONLY <2>13 DEF PublisherCrash
      <4>2. crashes \in Nat /\ crashes' = crashes + 1
        BY <2>13 DEF PublisherCrash
      <4>3. QED BY ONLY <4>1, <4>2
    <3>5. UNCHANGED <<allowed, redisUp, stream, outcome, accepted, ghost,
                      grouped, lastId, pel, start, acked, src, todo, got,
                      returned>>
      BY <2>13 DEF PublisherCrash
    <3>6. QED BY ONLY TypeOK, <3>2, <3>3, <3>4, <3>5 DEF TypeOK
  <2>14. ASSUME NEW c \in Consumers, ConsumerCrash(c) PROVE TypeOK'
    BY <2>14 DEF ConsumerCrash, EndCall
  <2>15. CASE UNCHANGED vars BY <2>15 DEF vars
  <2>16. QED
    BY <2>3, <2>4, <2>5, <2>6, <2>7, <2>8, <2>9, <2>10, <2>11, <2>12, <2>13,
       <2>14, <2>15 DEF Next
<1>3. QED BY <1>1, <1>2, PTL DEF Spec

-----------------------------------------------------------------------------
(* Streams are append-only. *)

Grows == \A a \in Agents :
  /\ Len(stream[a]) <= Len(stream'[a])
  /\ \A i \in 1 .. Len(stream[a]) : stream'[a][i] = stream[a][i]

\* an XADD
LEMMA AppendGrows ==
  ASSUME TypeOK, NEW a \in Agents, NEW e \in Entries,
         stream' = [stream EXCEPT ![a] = Append(@, e)]
  PROVE  Grows
<1> SUFFICES ASSUME NEW b \in Agents
             PROVE  /\ Len(stream[b]) <= Len(stream'[b])
                    /\ \A i \in 1 .. Len(stream[b]) : stream'[b][i] = stream[b][i]
  BY DEF Grows
<1>1. stream[b] \in Seq(Entries) /\ Len(stream[b]) \in Nat
  BY LenProperties DEF TypeOK
<1>2. CASE b # a
  <2>1. stream'[b] = stream[b]
    BY <1>2 DEF TypeOK
  <2>2. QED BY <1>1, <2>1
<1>3. CASE b = a
  <2>1. stream'[b] = Append(stream[b], e)
    BY <1>3 DEF TypeOK
  <2>2. QED BY <1>1, <2>1, AppendProperties
<1>4. QED BY <1>2, <1>3

\* every step
LEMMA StreamGrows ==
  ASSUME TypeOK, [Next]_vars
  PROVE  Grows
<1>1. ASSUME stream' = stream PROVE Grows
  BY <1>1, LenProperties DEF Grows, TypeOK
<1>2. ASSUME NEW m \in Msgs, XAddOk(m) \/ XAddErr(m) PROVE Grows
  <2>1. \/ stream' = stream
        \/ stream' = [stream EXCEPT ![Dest[m]] = Append(@, m)]
    BY <1>2 DEF XAddOk, XAddErr, XAddLostReply, XAddRefused
  <2>2. Dest[m] \in Agents /\ m \in Entries
    BY DEF Entries
  <2>3. QED BY <1>1, <2>1, <2>2, AppendGrows
<1>3. queue # << >> => Head(queue) \in Msgs
  BY HeadTailProperties DEF TypeOK
<1>4. ASSUME NEW m \in Msgs, Publish(m) PROVE Grows
  BY <1>4, <1>1, <1>2
     DEF Publish, Invalid, Denied, QueueLocally, QueueFull, PublishToStream
<1>5. CASE FlushOne BY <1>5, <1>3, <1>2 DEF FlushOne
<1>6. CASE FlushError BY <1>6, <1>3, <1>2 DEF FlushError
<1>7. ASSUME NEW a \in ForeignStreams, ForeignEntry(a) PROVE Grows
  <2>1. a \in Agents /\ Junk \in Entries
    BY DEF Entries
  <2>2. QED BY <1>7, <2>1, AppendGrows DEF ForeignEntry
<1>8. ASSUME NEW c \in Consumers, NEW a \in Agents, Subscribe(c, a)
      PROVE  Grows
  BY <1>8, <1>1 DEF Subscribe, SubscribeRead, SubscribeReadLost, SubscribeAck,
     SubscribeSkip, SubscribeAckError, SubscribeReturn
<1>9. ASSUME NEW a \in GroupStreams, EnsureConsumerGroup(a) PROVE Grows
  BY <1>9, <1>1 DEF EnsureConsumerGroup, XGroupCreate
<1>10. CASE \/ FlushStart \/ FlushDone \/ SetAccessMatrix \/ RedisToggles
            \/ PublisherCrash \/ UNCHANGED vars
            \/ \E c \in Consumers : ConsumerCrash(c)
  BY <1>10, <1>1 DEF FlushStart, FlushDone, SetAccessMatrix, RedisToggles,
     PublisherCrash, ConsumerCrash, vars
<1>11. QED
  BY <1>4, <1>5, <1>6, <1>7, <1>8, <1>9, <1>10 DEF Next

-----------------------------------------------------------------------------
(* The consumer group.  A step that leaves the group and the calls alone   *)
(* preserves their invariant because streams only grow.                    *)
LEMMA GroupFrame ==
  ASSUME TypeOK, TypeOK', GroupInv, Grows, UNCHANGED <<groupVars, subVars>>
  PROVE  GroupInv'
<1> USE DEF groupVars, subVars, TypeOK
<1>1. CursorsOrdered'
  <2> SUFFICES ASSUME NEW a \in Agents
               PROVE  /\ start[a] <= lastId[a] /\ lastId[a] <= Len(stream'[a])
                      /\ ~grouped[a] => lastId[a] = 0
    BY DEF CursorsOrdered
  <2>1. Len(stream[a]) \in Nat /\ Len(stream[a]) <= Len(stream'[a])
    BY LenProperties DEF Grows
  <2>2. /\ start[a] <= lastId[a] /\ lastId[a] <= Len(stream[a])
        /\ ~grouped[a] => lastId[a] = 0
    BY DEF GroupInv, CursorsOrdered
  <2>3. stream'[a] \in Seq(Entries) /\ lastId[a] \in Nat
    OBVIOUS
  <2>4. QED BY <2>1, <2>2, <2>3, LenProperties
<1>2. IdleHoldsNothing'
  BY DEF GroupInv, IdleHoldsNothing
<1>3. \A a \in Agents : \A i \in acked[a] : stream'[a][i] # Junk
  <2> SUFFICES ASSUME NEW a \in Agents, NEW i \in acked[a]
               PROVE  stream'[a][i] # Junk
    OBVIOUS
  <2>1. i \in start[a] + 1 .. lastId[a] /\ stream[a][i] # Junk
    BY DEF GroupInv, GroupAccounting
  <2>2. i \in 1 .. Len(stream[a])
    BY <2>1, LenProperties DEF GroupInv, CursorsOrdered
  <2>3. QED BY <2>1, <2>2 DEF Grows
<1>4. GroupAccounting'
  BY <1>3 DEF GroupInv, GroupAccounting
<1>5. EntryHeldOnce'
  BY DEF GroupInv, EntryHeldOnce, InCall
<1>6. QED BY <1>1, <1>2, <1>4, <1>5 DEF GroupInv

(* What XREADGROUP does to the books: a block of consecutive new entries   *)
(* becomes pending.                                                        *)
LEMMA ReadGroupBooks ==
  ASSUME TypeOK, GroupInv, NEW a \in Agents, ReadGroup(a, MaxBatch),
         NEW b \in Agents
  PROVE  /\ start'[b] = start[b] /\ grouped'[b] = grouped[b]
         /\ acked'[b] = acked[b]
         /\ lastId[b] <= lastId'[b] /\ lastId'[b] <= Len(stream[b])
         /\ lastId'[b] \in Nat
         /\ ~grouped[b] => lastId'[b] = lastId[b]
         /\ b # a => pel'[b] = pel[b] /\ lastId'[b] = lastId[b]
         /\ b = a => /\ pel'[b] = pel[b] \cup Fresh(b, MaxBatch)
                     /\ Fresh(b, MaxBatch) = lastId[b] + 1 .. lastId'[b]
         /\ pel'[b] \cup acked'[b] = start'[b] + 1 .. lastId'[b]
         /\ pel'[b] \cap acked'[b] = {}
<1> USE DEF TypeOK
<1>1. /\ Len(stream[b]) \in Nat /\ lastId[b] \in Nat /\ start[b] \in Nat
      /\ start[b] <= lastId[b] /\ lastId[b] <= Len(stream[b])
      /\ pel[b] \cup acked[b] = start[b] + 1 .. lastId[b]
      /\ pel[b] \cap acked[b] = {}
  BY LenProperties DEF GroupInv, CursorsOrdered, GroupAccounting
<1>2. /\ start'[b] = start[b] /\ grouped'[b] = grouped[b]
      /\ acked'[b] = acked[b]
  BY DEF ReadGroup
<1>3. CASE b # a
  <2>1. pel'[b] = pel[b] /\ lastId'[b] = lastId[b]
    BY <1>3 DEF ReadGroup
  <2>2. QED BY <1>1, <1>2, <1>3, <2>1
<1>4. CASE b = a
  <2>1. pel'[b] = pel[b] \cup Fresh(b, MaxBatch) /\ grouped[b]
    BY <1>4 DEF ReadGroup
  <2>2. lastId'[b] = IF lastId[b] + MaxBatch <= Len(stream[b])
                     THEN lastId[b] + MaxBatch ELSE Len(stream[b])
    BY <1>4 DEF ReadGroup
  <2>3. /\ lastId[b] <= lastId'[b] /\ lastId'[b] <= Len(stream[b])
        /\ lastId'[b] \in Nat
        /\ Fresh(b, MaxBatch) = lastId[b] + 1 .. lastId'[b]
    <3>1. MaxBatch \in Nat
      OBVIOUS
    <3> DEFINE l == lastId[b]
               k == lastId'[b]
               n == Len(stream[b])
    <3>2. /\ l \in Nat /\ n \in Nat /\ l <= n
          /\ k = IF l + MaxBatch <= n THEN l + MaxBatch ELSE n
          /\ Fresh(b, MaxBatch) = {i \in l + 1 .. l + MaxBatch : i <= n}
      BY <2>2, <1>1 DEF Fresh
    <3> HIDE DEF l, k, n
    <3>3. /\ l <= k /\ k <= n /\ k \in Nat /\ Fresh(b, MaxBatch) = l + 1 .. k
      BY ONLY <3>1, <3>2
    <3>4. QED BY <3>3 DEF l, k, n
  <2>4. /\ pel'[b] \cup acked[b] = start[b] + 1 .. lastId'[b]
        /\ pel'[b] \cap acked[b] = {}
    BY SMTT(30), <1>1, <2>1, <2>3
  <2>5. QED BY <1>2, <1>4, <2>1, <2>3, <2>4
<1>5. QED BY <1>3, <1>4

(* Entries held by calls, and returned ones, lie at or before the cursor.  *)
LEMMA HeldBeforeCursor ==
  ASSUME TypeOK, GroupInv, NEW a \in Agents
  PROVE  /\ returned[a] \subseteq acked[a]
         /\ \A c \in Consumers : InCall(c, a) \subseteq pel[a] \cup acked[a]
         /\ \A i \in pel[a] \cup acked[a] : i <= lastId[a]
         /\ \A i \in Fresh(a, MaxBatch) : i > lastId[a]
<1>1. lastId[a] \in Nat /\ start[a] \in Nat
  BY DEF TypeOK
<1>2. \A c \in Consumers : src[c] = a => got[c] \subseteq acked[a] /\ todo[c] \subseteq pel[a]
  BY DEF GroupInv, GroupAccounting
<1>3. pel[a] \cup acked[a] = start[a] + 1 .. lastId[a] /\ returned[a] \subseteq acked[a]
  BY DEF GroupInv, GroupAccounting
<1>4. \A c \in Consumers : InCall(c, a) \subseteq pel[a] \cup acked[a]
  BY <1>2 DEF InCall
<1>5. \A i \in Fresh(a, MaxBatch) : i > lastId[a]
  BY <1>1 DEF Fresh
<1>6. QED BY <1>1, <1>3, <1>4, <1>5

\* XREADGROUP answered
LEMMA SubscribeReadStep ==
  ASSUME TypeOK, GroupInv, NEW c \in Consumers, NEW a \in Agents,
         SubscribeRead(c, a)
  PROVE  GroupInv'
<1>0. ReadGroup(a, MaxBatch)
  BY DEF SubscribeRead
<1>b. ASSUME NEW b \in Agents
      PROVE  /\ start'[b] = start[b] /\ grouped'[b] = grouped[b]
             /\ acked'[b] = acked[b]
             /\ lastId[b] <= lastId'[b] /\ lastId'[b] <= Len(stream[b])
             /\ ~grouped[b] => lastId'[b] = lastId[b]
             /\ b # a => pel'[b] = pel[b]
             /\ b = a => pel'[b] = pel[b] \cup Fresh(b, MaxBatch)
             /\ pel'[b] \cup acked'[b] = start'[b] + 1 .. lastId'[b]
             /\ pel'[b] \cap acked'[b] = {}
             /\ {start[b], lastId[b], lastId'[b], Len(stream[b])} \subseteq Nat
  <2>1. {start[b], lastId[b], Len(stream[b])} \subseteq Nat
    BY LenProperties DEF TypeOK
  <2>2. QED BY ONLY TypeOK, GroupInv, <1>0, <2>1, ReadGroupBooks, b \in Agents, a \in Agents
<1> USE DEF TypeOK
<1>1. /\ ReadGroup(a, MaxBatch) /\ src[c] = NoAgent
      /\ src' = [src EXCEPT ![c] = a]
      /\ todo' = [todo EXCEPT ![c] = Fresh(a, MaxBatch)]
      /\ stream' = stream /\ got' = got /\ returned' = returned
  BY DEF SubscribeRead
<1>2. /\ src'[c] = a /\ todo'[c] = Fresh(a, MaxBatch) /\ got[c] = {}
      /\ \A d \in Consumers \ {c} : src'[d] = src[d] /\ todo'[d] = todo[d]
  BY <1>1 DEF GroupInv, IdleHoldsNothing
<1>3. CursorsOrdered'
  <2> SUFFICES ASSUME NEW b \in Agents
               PROVE  /\ start'[b] <= lastId'[b] /\ lastId'[b] <= Len(stream[b])
                      /\ ~grouped'[b] => lastId'[b] = 0
    BY <1>1 DEF CursorsOrdered
  <2>1. start[b] <= lastId[b] /\ (~grouped[b] => lastId[b] = 0)
    BY DEF GroupInv, CursorsOrdered
  <2>2. QED BY ONLY <1>b, <2>1, b \in Agents
<1>4. IdleHoldsNothing'
  BY <1>1, <1>2 DEF GroupInv, IdleHoldsNothing
<1>5. GroupAccounting'
  <2> SUFFICES ASSUME NEW b \in Agents
               PROVE  /\ pel'[b] \cap acked'[b] = {}
                      /\ pel'[b] \cup acked'[b] = start'[b] + 1 .. lastId'[b]
                      /\ returned[b] \subseteq acked'[b]
                      /\ \A i \in acked'[b] : stream[b][i] # Junk
                      /\ \A d \in Consumers : src'[d] = b =>
                           got[d] \subseteq acked'[b] /\ todo'[d] \subseteq pel'[b]
    BY <1>1 DEF GroupAccounting
  <2>1. /\ returned[b] \subseteq acked[b]
        /\ \A i \in acked[b] : stream[b][i] # Junk
        /\ \A d \in Consumers : src[d] = b =>
             got[d] \subseteq acked[b] /\ todo[d] \subseteq pel[b]
    BY DEF GroupInv, GroupAccounting
  <2>2. /\ acked'[b] = acked[b] /\ pel[b] \subseteq pel'[b]
        /\ b = a => Fresh(a, MaxBatch) \subseteq pel'[b]
        /\ pel'[b] \cap acked'[b] = {}
        /\ pel'[b] \cup acked'[b] = start'[b] + 1 .. lastId'[b]
    BY ONLY <1>b, b \in Agents
  <2>3. ASSUME NEW d \in Consumers, src'[d] = b
        PROVE  got[d] \subseteq acked'[b] /\ todo'[d] \subseteq pel'[b]
    <3>1. CASE d = c
      BY <1>2, <2>2, <2>3, <3>1
    <3>2. CASE d # c
      BY <1>2, <2>1, <2>2, <2>3, <3>2
    <3>3. QED BY <3>1, <3>2
  <2>4. QED BY <2>1, <2>2, <2>3
<1>6. EntryHeldOnce'
  <2> SUFFICES ASSUME NEW b \in Agents
      PROVE /\ \A d, e \in Consumers : d # e => InCall(d, b)' \cap InCall(e, b)' = {}
            /\ \A d \in Consumers : InCall(d, b)' \cap returned[b] = {}
    BY <1>1 DEF EntryHeldOnce
  <2>1. \A d \in Consumers \ {c} : InCall(d, b)' = InCall(d, b)
    BY <1>1, <1>2 DEF InCall
  <2>2. InCall(c, b)' = IF b = a THEN Fresh(a, MaxBatch) ELSE {}
    BY <1>1, <1>2 DEF InCall
  <2>3. /\ \A i \in InCall(c, b)' : i > lastId[b]
        /\ \A d \in Consumers : \A i \in InCall(d, b) \cup returned[b] : i <= lastId[b]
        /\ InCall(c, b)' \subseteq Nat /\ lastId[b] \in Nat
    <3>1. lastId[b] \in Nat
      OBVIOUS
    <3>2. InCall(c, b)' \subseteq Fresh(b, MaxBatch)
      BY <2>2
    <3>3. Fresh(b, MaxBatch) \subseteq Nat
      BY <3>1 DEF Fresh
    <3>4. /\ \A i \in Fresh(b, MaxBatch) : i > lastId[b]
          /\ returned[b] \subseteq acked[b]
          /\ \A d \in Consumers : InCall(d, b) \subseteq pel[b] \cup acked[b]
          /\ \A i \in pel[b] \cup acked[b] : i <= lastId[b]
      BY HeldBeforeCursor
    <3>5. QED BY ONLY <3>1, <3>2, <3>3, <3>4
  <2>4. \A d \in Consumers : InCall(c, b)' \cap (InCall(d, b) \cup returned[b]) = {}
    <3> SUFFICES ASSUME NEW d \in Consumers, NEW i \in InCall(c, b)',
                        i \in InCall(d, b) \cup returned[b]
                 PROVE  FALSE
      OBVIOUS
    <3>1. i > lastId[b] /\ i <= lastId[b] /\ i \in Nat /\ lastId[b] \in Nat
      BY <2>3
    <3>2. QED BY ONLY <3>1
  <2>5. /\ \A d, e \in Consumers : d # e => InCall(d, b) \cap InCall(e, b) = {}
        /\ \A d \in Consumers : InCall(d, b) \cap returned[b] = {}
    BY DEF GroupInv, EntryHeldOnce
  <2>6. ASSUME NEW d \in Consumers, NEW e \in Consumers, d # e
        PROVE  InCall(d, b)' \cap InCall(e, b)' = {}
    <3>1. CASE d = c BY ONLY <2>1, <2>4, <2>6, <3>1
    <3>2. CASE e = c BY ONLY <2>1, <2>4, <2>6, <3>2
    <3>3. CASE d # c /\ e # c BY ONLY <2>1, <2>5, <2>6, <3>3
    <3>4. QED BY <3>1, <3>2, <3>3
  <2>7. ASSUME NEW d \in Consumers PROVE InCall(d, b)' \cap returned[b] = {}
    <3>1. CASE d = c BY ONLY <2>4, <3>1
    <3>2. CASE d # c BY ONLY <2>1, <2>5, <3>2
    <3>3. QED BY <3>1, <3>2
  <2>8. QED BY <2>6, <2>7
<1>7. QED BY <1>3, <1>4, <1>5, <1>6 DEF GroupInv

\* XREADGROUP applied, its reply lost
LEMMA SubscribeReadLostStep ==
  ASSUME TypeOK, GroupInv, NEW c \in Consumers, NEW a \in Agents,
         SubscribeReadLost(c, a)
  PROVE  GroupInv'
<1>0. ReadGroup(a, MaxBatch)
  BY DEF SubscribeReadLost
<1>b. ASSUME NEW b \in Agents
      PROVE  /\ start'[b] = start[b] /\ grouped'[b] = grouped[b]
             /\ acked'[b] = acked[b]
             /\ lastId[b] <= lastId'[b] /\ lastId'[b] <= Len(stream[b])
             /\ ~grouped[b] => lastId'[b] = lastId[b]
             /\ b # a => pel'[b] = pel[b]
             /\ b = a => pel'[b] = pel[b] \cup Fresh(b, MaxBatch)
             /\ pel'[b] \cup acked'[b] = start'[b] + 1 .. lastId'[b]
             /\ pel'[b] \cap acked'[b] = {}
             /\ {start[b], lastId[b], lastId'[b], Len(stream[b])} \subseteq Nat
  <2>1. {start[b], lastId[b], Len(stream[b])} \subseteq Nat
    BY LenProperties DEF TypeOK
  <2>2. QED BY ONLY TypeOK, GroupInv, <1>0, <2>1, ReadGroupBooks, b \in Agents, a \in Agents
<1> USE DEF TypeOK
<1>1. /\ ReadGroup(a, MaxBatch) /\ src' = src /\ todo' = todo
      /\ stream' = stream /\ got' = got /\ returned' = returned
  BY DEF SubscribeReadLost, subVars
<1>2. \A b \in Agents : acked'[b] = acked[b] /\ pel[b] \subseteq pel'[b]
  BY ONLY <1>b, a \in Agents
<1>3. CursorsOrdered'
  <2>1. \A b \in Agents : start[b] <= lastId[b] /\ (~grouped[b] => lastId[b] = 0)
    BY DEF GroupInv, CursorsOrdered
  <2> SUFFICES ASSUME NEW b \in Agents
               PROVE  /\ start'[b] <= lastId'[b] /\ lastId'[b] <= Len(stream[b])
                      /\ ~grouped'[b] => lastId'[b] = 0
    BY <1>1 DEF CursorsOrdered
  <2>2. QED BY ONLY <1>b, <2>1, b \in Agents
<1>4. IdleHoldsNothing' /\ EntryHeldOnce'
  BY <1>1 DEF GroupInv, IdleHoldsNothing, EntryHeldOnce, InCall
<1>5. GroupAccounting'
  <2>1. \A b \in Agents : /\ pel'[b] \cap acked'[b] = {}
                           /\ pel'[b] \cup acked'[b] = start'[b] + 1 .. lastId'[b]
    BY ONLY <1>b
  <2>2. QED BY <1>1, <1>2, <2>1 DEF GroupInv, GroupAccounting
<1>6. QED BY <1>3, <1>4, <1>5 DEF GroupInv

(* A call that ends hands over what it acknowledged, or drops it.          *)
LEMMA EndCallStep ==
  ASSUME TypeOK, GroupInv, NEW c \in Consumers, EndCall(c),
         UNCHANGED <<groupVars, stream>>,
         \/ returned' = returned
         \/ \E a \in Agents : /\ src[c] = a
                              /\ returned' = [returned EXCEPT ![a] = @ \cup got[c]]
  PROVE  GroupInv'
<1> USE DEF TypeOK, groupVars
<1>1. /\ src'[c] = NoAgent /\ todo'[c] = {} /\ got'[c] = {}
      /\ \A d \in Consumers \ {c} :
           src'[d] = src[d] /\ todo'[d] = todo[d] /\ got'[d] = got[d]
  BY DEF EndCall
<1>2. \A b \in Agents : /\ returned[b] \subseteq returned'[b]
                         /\ returned'[b] \subseteq returned[b] \cup
                              (IF src[c] = b THEN got[c] ELSE {})
  OBVIOUS
<1>3. CursorsOrdered' /\ IdleHoldsNothing'
  BY <1>1 DEF GroupInv, CursorsOrdered, IdleHoldsNothing
<1>4. GroupAccounting'
  <2> SUFFICES ASSUME NEW b \in Agents
      PROVE /\ returned'[b] \subseteq acked[b]
            /\ \A d \in Consumers : src'[d] = b =>
                 got'[d] \subseteq acked[b] /\ todo'[d] \subseteq pel[b]
    BY DEF GroupInv, GroupAccounting
  <2>1. /\ returned[b] \subseteq acked[b]
        /\ \A d \in Consumers : src[d] = b =>
             got[d] \subseteq acked[b] /\ todo[d] \subseteq pel[b]
    BY DEF GroupInv, GroupAccounting
  <2>2. returned'[b] \subseteq acked[b]
    BY <1>2, <2>1
  <2>3. ASSUME NEW d \in Consumers, src'[d] = b
        PROVE  got'[d] \subseteq acked[b] /\ todo'[d] \subseteq pel[b]
    <3>1. CASE d = c BY ONLY <1>1, <3>1
    <3>2. CASE d # c BY ONLY <1>1, <2>1, <2>3, <3>2
    <3>3. QED BY <3>1, <3>2
  <2>4. QED BY <2>2, <2>3
<1>5. EntryHeldOnce'
  <2> SUFFICES ASSUME NEW b \in Agents
      PROVE /\ \A d, e \in Consumers : d # e => InCall(d, b)' \cap InCall(e, b)' = {}
            /\ \A d \in Consumers : InCall(d, b)' \cap returned'[b] = {}
    BY DEF EntryHeldOnce
  <2>1. InCall(c, b)' = {}
    BY <1>1 DEF InCall
  <2>2. \A d \in Consumers \ {c} : InCall(d, b)' = InCall(d, b)
    BY <1>1 DEF InCall
  <2>3. /\ \A d, e \in Consumers : d # e => InCall(d, b) \cap InCall(e, b) = {}
        /\ \A d \in Consumers : InCall(d, b) \cap returned[b] = {}
    BY DEF GroupInv, EntryHeldOnce
  <2>4. returned'[b] \subseteq returned[b] \cup InCall(c, b)
    BY <1>2 DEF InCall
  <2>5. QED BY ONLY <2>1, <2>2, <2>3, <2>4
<1>6. QED BY <1>3, <1>4, <1>5 DEF GroupInv

(* Acknowledging moves an entry the call holds from pending to             *)
(* acknowledged; skipping leaves it pending.                               *)
LEMMA VisitStep ==
  ASSUME TypeOK, GroupInv, NEW c \in Consumers, NEW a \in Agents, src[c] = a,
         NEW i \in todo[c], stream' = stream, src' = src, returned' = returned,
         todo' = [todo EXCEPT ![c] = @ \ {i}],
         UNCHANGED <<grouped, lastId, start>>,
         \/ UNCHANGED <<pel, acked, got>>
         \/ /\ stream[a][i] # Junk /\ XAck(a, i)
            /\ got' = [got EXCEPT ![c] = @ \cup {i}]
  PROVE  GroupInv'
<1> USE DEF TypeOK
<1>1. /\ i \in pel[a] /\ i \notin acked[a]
  BY DEF GroupInv, GroupAccounting
<1>2. /\ \A d \in Consumers \ {c} : todo'[d] = todo[d] /\ got'[d] = got[d]
      /\ todo'[c] = todo[c] \ {i} /\ got'[c] \subseteq got[c] \cup {i}
      /\ i \in got'[c] => i \in acked'[a] \/ i \in got[c]
  BY DEF XAck
<1>3. \A b \in Agents \ {a} : pel'[b] = pel[b] /\ acked'[b] = acked[b]
  BY DEF XAck
<1>4. /\ pel'[a] \cup acked'[a] = pel[a] \cup acked[a]
      /\ pel'[a] \cap acked'[a] = {}
      /\ acked[a] \subseteq acked'[a]
      /\ acked'[a] \subseteq acked[a] \cup {i}
      /\ pel[a] \ {i} \subseteq pel'[a]
      /\ i \in acked'[a] => stream[a][i] # Junk
  <2>0. pel[a] \cap acked[a] = {}
    BY DEF GroupInv, GroupAccounting
  <2>1. CASE UNCHANGED <<pel, acked, got>>
    BY <1>1, <2>0, <2>1
  <2>2. CASE stream[a][i] # Junk /\ XAck(a, i)
    <3>1. pel'[a] = pel[a] \ {i} /\ acked'[a] = acked[a] \cup {i}
      BY <2>2 DEF XAck
    <3>2. QED BY <1>1, <2>0, <2>2, <3>1
  <2>3. QED BY <2>1, <2>2
<1>5. \A d \in Consumers, b \in Agents : InCall(d, b)' \subseteq InCall(d, b)
  BY <1>2 DEF InCall
<1>6. CursorsOrdered' /\ IdleHoldsNothing'
  <2>1. src[c] # NoAgent
    OBVIOUS
  <2>2. QED BY <1>2, <2>1 DEF GroupInv, CursorsOrdered, IdleHoldsNothing
<1>7. EntryHeldOnce'
  BY <1>5 DEF GroupInv, EntryHeldOnce
<1>8. GroupAccounting'
  <2> SUFFICES ASSUME NEW b \in Agents
      PROVE /\ pel'[b] \cap acked'[b] = {}
            /\ pel'[b] \cup acked'[b] = start[b] + 1 .. lastId[b]
            /\ returned[b] \subseteq acked'[b]
            /\ \A k \in acked'[b] : stream[b][k] # Junk
            /\ \A d \in Consumers : src[d] = b =>
                 got'[d] \subseteq acked'[b] /\ todo'[d] \subseteq pel'[b]
    BY DEF GroupAccounting
  <2>1. /\ pel[b] \cap acked[b] = {}
        /\ pel[b] \cup acked[b] = start[b] + 1 .. lastId[b]
        /\ returned[b] \subseteq acked[b]
        /\ \A k \in acked[b] : stream[b][k] # Junk
        /\ \A d \in Consumers : src[d] = b =>
             got[d] \subseteq acked[b] /\ todo[d] \subseteq pel[b]
    BY DEF GroupInv, GroupAccounting
  <2>2. ASSUME NEW d \in Consumers, src[d] = b
        PROVE  got'[d] \subseteq acked'[b] /\ todo'[d] \subseteq pel'[b]
    <3>1. CASE d = c
      BY <1>2, <1>4, <2>1, <2>2, <3>1
    <3>2. CASE d # c
      <4>1. got'[d] = got[d] /\ todo'[d] = todo[d]
        BY <1>2, <3>2
      <4>2. b = a => i \notin todo[d]
        BY <2>2, <3>2 DEF GroupInv, EntryHeldOnce, InCall
      <4>3. QED BY <1>3, <1>4, <2>1, <2>2, <4>1, <4>2
    <3>3. QED BY <3>1, <3>2
  <2>3. QED BY <1>3, <1>4, <2>1, <2>2
<1>9. QED BY <1>6, <1>7, <1>8 DEF GroupInv

\* an XACK that fails ends the call with an error
LEMMA AckErrorStep ==
  ASSUME TypeOK, GroupInv, NEW c \in Consumers, NEW a \in Agents,
         SubscribeAckError(c, a)
  PROVE  GroupInv'
<1> USE DEF TypeOK
<1>1. /\ src[c] = a /\ EndCall(c) /\ stream' = stream /\ returned' = returned
  BY DEF SubscribeAckError
<1>2. PICK i \in todo[c] : /\ stream[a][i] # Junk
                           /\ UNCHANGED groupVars \/ XAck(a, i)
  BY DEF SubscribeAckError
<1>3. CASE UNCHANGED groupVars
  BY <1>1, <1>3, EndCallStep
<1>4. CASE XAck(a, i)
  <2>1. /\ src'[c] = NoAgent /\ todo'[c] = {} /\ got'[c] = {}
        /\ \A d \in Consumers \ {c} :
             src'[d] = src[d] /\ todo'[d] = todo[d] /\ got'[d] = got[d]
    BY <1>1 DEF EndCall
  <2>2. /\ UNCHANGED <<grouped, lastId, start>>
        /\ pel'[a] = pel[a] \ {i} /\ acked'[a] = acked[a] \cup {i}
        /\ \A b \in Agents \ {a} : pel'[b] = pel[b] /\ acked'[b] = acked[b]
    BY <1>4 DEF XAck
  <2>3. CursorsOrdered' /\ IdleHoldsNothing'
    BY <1>1, <2>1, <2>2 DEF GroupInv, CursorsOrdered, IdleHoldsNothing
  <2>4. \A d \in Consumers, b \in Agents : InCall(d, b)' \subseteq InCall(d, b)
    BY <2>1 DEF InCall
  <2>5. EntryHeldOnce'
    BY <1>1, <2>4 DEF GroupInv, EntryHeldOnce
  <2>6. GroupAccounting'
    <3> SUFFICES ASSUME NEW b \in Agents
        PROVE /\ pel'[b] \cap acked'[b] = {}
              /\ pel'[b] \cup acked'[b] = start[b] + 1 .. lastId[b]
              /\ returned[b] \subseteq acked'[b]
              /\ \A k \in acked'[b] : stream[b][k] # Junk
              /\ \A d \in Consumers : src'[d] = b =>
                   got'[d] \subseteq acked'[b] /\ todo'[d] \subseteq pel'[b]
      BY <1>1, <2>2 DEF GroupAccounting
    <3>1. /\ pel[b] \cap acked[b] = {}
          /\ pel[b] \cup acked[b] = start[b] + 1 .. lastId[b]
          /\ returned[b] \subseteq acked[b]
          /\ \A k \in acked[b] : stream[b][k] # Junk
          /\ \A d \in Consumers : src[d] = b =>
               got[d] \subseteq acked[b] /\ todo[d] \subseteq pel[b]
      BY DEF GroupInv, GroupAccounting
    <3>2. b = a => i \in pel[b]
      BY <1>1, <3>1
    <3>3. ASSUME NEW d \in Consumers, src'[d] = b
          PROVE  got'[d] \subseteq acked'[b] /\ todo'[d] \subseteq pel'[b]
      <4>1. d # c
        BY <2>1, <3>3
      <4>2. src[d] = b /\ got'[d] = got[d] /\ todo'[d] = todo[d]
        BY <2>1, <3>3, <4>1
      <4>3. b = a => i \notin todo[d]
        BY <1>1, <4>1, <4>2 DEF GroupInv, EntryHeldOnce, InCall
      <4>4. QED BY <2>2, <3>1, <4>2, <4>3
    <3>4. QED BY <1>2, <2>2, <3>1, <3>2, <3>3
  <2>7. QED BY <2>3, <2>5, <2>6 DEF GroupInv
<1>5. QED BY <1>2, <1>3, <1>4

\* a group opened at the end of its stream
LEMMA EnsureGroupStep ==
  ASSUME TypeOK, GroupInv, NEW a \in Agents, EnsureConsumerGroup(a)
  PROVE  GroupInv'
<1> USE DEF TypeOK
<1>1. /\ ~grouped[a] /\ grouped'[a]
      /\ lastId'[a] = Len(stream[a]) /\ start'[a] = Len(stream[a])
      /\ \A b \in Agents \ {a} : /\ lastId'[b] = lastId[b]
                                 /\ start'[b] = start[b]
                                 /\ grouped'[b] = grouped[b]
      /\ UNCHANGED <<stream, pel, acked, src, todo, got, returned>>
  BY DEF EnsureConsumerGroup, XGroupCreate, subVars
<1>2. Len(stream[a]) \in Nat
  BY LenProperties
<1>3. pel[a] = {} /\ acked[a] = {}
  <2>1. lastId[a] = 0 /\ start[a] \in Nat
    BY <1>1 DEF GroupInv, CursorsOrdered
  <2>2. pel[a] \cup acked[a] = start[a] + 1 .. lastId[a]
    BY DEF GroupInv, GroupAccounting
  <2>3. QED BY <2>1, <2>2
<1>4. CursorsOrdered' /\ IdleHoldsNothing' /\ EntryHeldOnce'
  <2>1. ASSUME NEW b \in Agents
        PROVE  /\ start'[b] <= lastId'[b] /\ lastId'[b] <= Len(stream[b])
               /\ ~grouped'[b] => lastId'[b] = 0
    <3>1. CASE b = a
      BY ONLY <1>1, <1>2, <3>1
    <3>2. CASE b # a
      BY <1>1, <3>2 DEF GroupInv, CursorsOrdered
    <3>3. QED BY <3>1, <3>2
  <2>2. CursorsOrdered'
    BY <1>1, <2>1 DEF CursorsOrdered
  <2>3. IdleHoldsNothing' /\ EntryHeldOnce'
    BY <1>1 DEF GroupInv, IdleHoldsNothing, EntryHeldOnce, InCall
  <2>4. QED BY <2>2, <2>3
<1>5. \A b \in Agents : pel[b] \cup acked[b] = start'[b] + 1 .. lastId'[b]
  <2>1. Len(stream[a]) + 1 .. Len(stream[a]) = {}
    BY <1>2
  <2>2. QED BY ZenonT(60), <1>1, <1>3, <2>1 DEF GroupInv, GroupAccounting
<1>6. GroupAccounting'
  BY <1>1, <1>5 DEF GroupInv, GroupAccounting
<1>7. QED BY <1>4, <1>6 DEF GroupInv

(* The four conjuncts of GroupInv are inductive only together: disjoint    *)
(* calls need the cursor, the cursor needs append-only streams.            *)
LEMMA GroupInvariant == Spec => []GroupInv
<1>1. Init => GroupInv
  <2> SUFFICES ASSUME Init PROVE GroupInv
    OBVIOUS
  <2>1. \A a \in Agents : Len(stream[a]) = 0
    BY EmptySeq DEF Init
  <2>2. QED BY <2>1 DEF Init, GroupInv, CursorsOrdered, IdleHoldsNothing,
                       GroupAccounting, EntryHeldOnce, InCall
<1>2. TypeOK /\ TypeOK' /\ GroupInv /\ [Next]_vars => GroupInv'
  <2> SUFFICES ASSUME TypeOK, TypeOK', GroupInv, [Next]_vars PROVE GroupInv'
    OBVIOUS
  <2>1. Grows BY StreamGrows
  <2>2. ASSUME UNCHANGED <<groupVars, subVars>> PROVE GroupInv'
    BY <2>1, <2>2, GroupFrame
  <2>3. ASSUME NEW m \in Msgs, Publish(m) PROVE GroupInv'
    BY <2>2, <2>3 DEF Publish
  <2>4. CASE \/ FlushStart \/ FlushOne \/ FlushError \/ FlushDone
             \/ SetAccessMatrix \/ RedisToggles \/ PublisherCrash
             \/ UNCHANGED vars
             \/ \E a \in ForeignStreams : ForeignEntry(a)
    BY <2>2, <2>4 DEF FlushStart, FlushOne, FlushError, FlushDone,
       SetAccessMatrix, RedisToggles, PublisherCrash, ForeignEntry, vars
  <2>5. ASSUME NEW a \in GroupStreams, EnsureConsumerGroup(a) PROVE GroupInv'
    BY <2>5, EnsureGroupStep
  <2>6. ASSUME NEW c \in Consumers, NEW a \in Agents, Subscribe(c, a)
        PROVE  GroupInv'
    <3>1. CASE SubscribeRead(c, a) BY <3>1, SubscribeReadStep
    <3>2. CASE SubscribeReadLost(c, a) BY <3>2, SubscribeReadLostStep
    <3>3. CASE SubscribeAck(c, a)
      BY <3>3, VisitStep DEF SubscribeAck, XAck
    <3>4. CASE SubscribeSkip(c, a)
      BY <3>4, VisitStep DEF SubscribeSkip, groupVars
    <3>5. CASE SubscribeAckError(c, a) BY <3>5, AckErrorStep
    <3>6. CASE SubscribeReturn(c, a)
      BY <3>6, EndCallStep DEF SubscribeReturn
    <3>7. QED BY <2>6, <3>1, <3>2, <3>3, <3>4, <3>5, <3>6 DEF Subscribe
  <2>7. ASSUME NEW c \in Consumers, ConsumerCrash(c) PROVE GroupInv'
    BY <2>7, EndCallStep DEF ConsumerCrash
  <2>8. QED BY <2>3, <2>4, <2>5, <2>6, <2>7 DEF Next
<1>3. QED BY <1>1, <1>2, TypeCorrect, PTL DEF Spec

(* The consumer group's books always balance, and no stream entry is held  *)
(* by two subscribe calls or returned twice, whatever the consumers, Redis *)
(* and the publisher do.                                                   *)
THEOREM GroupIsCorrect == Spec => []GroupCorrect
<1>1. GroupInv => GroupCorrect
  BY DEF GroupInv, GroupCorrect
<1>2. QED BY <1>1, GroupInvariant, PTL

-----------------------------------------------------------------------------
(* The local queue loses nothing. *)

\* a message on its stream stays there
LEMMA OnStreamStable ==
  ASSUME TypeOK, TypeOK', Grows, NEW m \in Msgs, OnStream(m)
  PROVE  OnStream(m)'
<1> DEFINE a == Dest[m]
<1>1. a \in Agents /\ stream[a] \in Seq(Entries) /\ stream'[a] \in Seq(Entries)
  BY DEF TypeOK
<1>2. PICK i \in 1 .. Len(stream[a]) : stream[a][i] = m
  BY <1>1 DEF OnStream, Elems
<1>3. i \in 1 .. Len(stream'[a]) /\ stream'[a][i] = m
  BY <1>1, <1>2, LenProperties DEF Grows
<1>4. QED BY <1>1, <1>3 DEF OnStream, Elems

(* A message in the local queue leaves it only for its stream or in a      *)
(* crash: no interrupted flush and no interleaving of publish, flush_queue *)
(* and Redis failures makes it disappear.                                  *)
THEOREM QueueConserves == Spec => []QueuedNotLost
<1>1. Init => QueuedNotLost
  BY DEF Init, QueuedNotLost
<1>2. TypeOK /\ TypeOK' /\ QueuedNotLost /\ [Next]_vars => QueuedNotLost'
  <2> SUFFICES ASSUME TypeOK, TypeOK', QueuedNotLost, [Next]_vars,
                      NEW m \in Msgs, outcome'[m] = "queued"
               PROVE  m \in Elems(queue') \/ OnStream(m)' \/ m \in lost'
    BY DEF QueuedNotLost
  <2>1. Grows BY StreamGrows
  <2>2. OnStream(m) => OnStream(m)'
    BY <2>1, OnStreamStable
  <2>3. outcome[m] = "queued" => m \in Elems(queue) \/ OnStream(m) \/ m \in lost
    BY DEF QueuedNotLost
  <2>4. CASE UNCHANGED <<queue, outcome, lost>>
    BY <2>2, <2>3, <2>4
  <2>5. ASSUME NEW n \in Msgs, Publish(n)
        PROVE  m \in Elems(queue') \/ OnStream(m)' \/ m \in lost'
    <3>1. lost' = lost
      BY <2>5 DEF Publish
    <3>2. CASE QueueLocally(n)
      <4>1. Elems(queue') = Elems(queue) \cup {n}
        BY <3>2, AppendElems DEF QueueLocally, TypeOK
      <4>2. m # n => outcome[m] = "queued"
        BY <3>2 DEF QueueLocally, Answer, TypeOK
      <4>3. QED BY <2>2, <2>3, <3>1, <4>1, <4>2
    <3>3. CASE Invalid(n) \/ Denied(n) \/ QueueFull(n) \/ PublishToStream(n)
      <4>1. queue' = queue
        BY <3>3 DEF Invalid, Denied, QueueFull, PublishToStream
      <4>2. \E o \in {"invalid", "denied", "full", "sent", "failed"} : Answer(n, o)
        BY <3>3 DEF Invalid, Denied, QueueFull, PublishToStream
      <4>3. outcome[m] = "queued"
        BY <4>2 DEF Answer, TypeOK
      <4>4. QED BY <2>2, <2>3, <3>1, <4>1, <4>3
    <3>4. QED BY <2>5, <3>2, <3>3 DEF Publish
  <2>6. CASE FlushOne
    <3>1. /\ queue # << >> /\ XAddOk(Head(queue)) /\ queue' = Tail(queue)
          /\ outcome' = outcome /\ lost' = lost
      BY <2>6 DEF FlushOne
    <3>2. Elems(queue) = {Head(queue)} \cup Elems(queue') /\ Head(queue) \in Msgs
      BY <3>1, HeadTailElems, HeadTailProperties DEF TypeOK
    <3>3. ASSUME m = Head(queue) PROVE OnStream(m)'
      <4>1. stream'[Dest[m]] = Append(stream[Dest[m]], m)
        BY <3>1, <3>3 DEF XAddOk, TypeOK
      <4>2. stream[Dest[m]] \in Seq(Entries) /\ m \in Entries
        BY DEF TypeOK, Entries
      <4>3. QED BY <4>1, <4>2, AppendElems DEF OnStream
    <3>4. QED BY <2>2, <2>3, <3>1, <3>2, <3>3
  <2>7. CASE FlushError
    <3>1. queue' = queue
      BY <2>7, PutBackHead DEF FlushError, TypeOK
    <3>2. QED BY <2>4, <2>7, <3>1 DEF FlushError
  <2>8. CASE PublisherCrash
    BY <2>2, <2>3, <2>8 DEF PublisherCrash
  <2>9. CASE \/ FlushStart \/ FlushDone \/ SetAccessMatrix \/ RedisToggles
             \/ UNCHANGED vars
             \/ \E a \in GroupStreams : EnsureConsumerGroup(a)
             \/ \E a \in ForeignStreams : ForeignEntry(a)
             \/ \E c \in Consumers : ConsumerCrash(c)
    BY <2>4, <2>9 DEF FlushStart, FlushDone, SetAccessMatrix, RedisToggles,
       EnsureConsumerGroup, XGroupCreate, ForeignEntry, ConsumerCrash, vars, pubVars
  <2>10. ASSUME NEW c \in Consumers, NEW a \in Agents, Subscribe(c, a)
         PROVE  UNCHANGED <<queue, outcome, lost>>
    BY <2>10 DEF Subscribe, SubscribeRead, SubscribeReadLost, SubscribeAck,
       SubscribeSkip, SubscribeAckError, SubscribeReturn, pubVars
  <2>11. QED BY <2>4, <2>5, <2>6, <2>7, <2>8, <2>9, <2>10 DEF Next
<1>3. QED BY <1>1, <1>2, TypeCorrect, PTL DEF Spec

-----------------------------------------------------------------------------
(* The bus implements its contract: every step of the client, of Redis or  *)
(* of a consumer is one step of BusContract or leaves its variables alone. *)
THEOREM BusImplementsContract == Spec => ImplementsContract
<1> USE DEF Contract!Write
<1>1. Init => Contract!Init
  BY DEF Init, Contract!Init
<1>2. TypeOK /\ TypeOK' /\ GroupInv /\ [Next]_vars => [Contract!Next]_Contract!cvars
  <2> SUFFICES ASSUME TypeOK, TypeOK', GroupInv, [Next]_vars
               PROVE  [Contract!Next]_Contract!cvars
    OBVIOUS
  <2> USE DEF Contract!cvars
  <2>1. ASSUME UNCHANGED <<queue, stream, lastId, returned>>
        PROVE  UNCHANGED Contract!cvars
    BY <2>1
  <2>2. ASSUME NEW m \in Msgs, Publish(m)
        PROVE  [Contract!Next]_Contract!cvars
    <3>1. lastId' = lastId /\ returned' = returned
      BY <2>2 DEF Publish, groupVars, subVars
    <3>2. CASE Invalid(m) \/ Denied(m) \/ QueueFull(m)
      BY <2>1, <3>1, <3>2 DEF Invalid, Denied, QueueFull
    <3>3. CASE QueueLocally(m)
      BY <3>1, <3>3 DEF QueueLocally, Contract!Next, Contract!Wait
    <3>4. CASE PublishToStream(m)
      <4>1. queue' = queue
        BY <3>4 DEF PublishToStream
      <4>2. \/ stream' = stream
            \/ stream' = [stream EXCEPT ![Dest[m]] = Append(@, m)]
        BY <3>4 DEF PublishToStream, XAddOk, XAddErr, XAddLostReply, XAddRefused
      <4>3. CASE stream' = stream
        BY <2>1, <3>1, <4>1, <4>3
      <4>4. CASE stream' = [stream EXCEPT ![Dest[m]] = Append(@, m)]
        <5>1. Contract!Post(Dest[m], m)
          BY <3>1, <4>1, <4>4 DEF Contract!Post
        <5>2. QED BY <5>1 DEF Contract!Next
      <4>5. QED BY <4>2, <4>3, <4>4
    <3>5. QED BY <2>2, <3>2, <3>3, <3>4 DEF Publish
  <2>3. queue # << >> => Head(queue) \in Msgs
    BY HeadTailProperties DEF TypeOK
  <2>4. CASE FlushOne
    <3>1. Contract!Leave
      BY <2>4 DEF FlushOne, XAddOk, Contract!Leave, groupVars, subVars
    <3>2. QED BY <3>1 DEF Contract!Next
  <2>5. CASE FlushError
    <3>1. queue' = queue /\ lastId' = lastId /\ returned' = returned
      BY <2>5, PutBackHead DEF FlushError, TypeOK, groupVars, subVars
    <3>2. \/ stream' = stream
          \/ stream' = [stream EXCEPT ![Dest[Head(queue)]] = Append(@, Head(queue))]
      BY <2>5 DEF FlushError, XAddErr, XAddLostReply, XAddRefused
    <3>3. CASE stream' = stream
      BY <2>1, <3>1, <3>3
    <3>4. CASE stream' = [stream EXCEPT ![Dest[Head(queue)]] = Append(@, Head(queue))]
      <4>1. Head(queue) \in Msgs
        BY <2>3, <2>5 DEF FlushError
      <4>2. Contract!Post(Dest[Head(queue)], Head(queue))
        BY <3>1, <3>4, <4>1 DEF Contract!Post
      <4>3. QED BY <4>1, <4>2 DEF Contract!Next
    <3>5. QED BY <3>2, <3>3, <3>4
  <2>6. CASE PublisherCrash
    <3>1. Contract!Forget
      BY <2>6 DEF PublisherCrash, Contract!Forget, groupVars, subVars
    <3>2. QED BY <3>1 DEF Contract!Next
  <2>7. ASSUME NEW a \in ForeignStreams, ForeignEntry(a)
        PROVE  [Contract!Next]_Contract!cvars
    <3>1. Contract!Post(a, Junk)
      BY <2>7 DEF ForeignEntry, Contract!Post, pubVars, groupVars, subVars
    <3>2. QED BY <3>1 DEF Contract!Next
  <2>8. ASSUME NEW a \in Agents, NEW n \in Nat,
               lastId[a] <= n, n <= Len(stream[a]),
               lastId' = [lastId EXCEPT ![a] = n],
               UNCHANGED <<queue, stream, returned>>
        PROVE  [Contract!Next]_Contract!cvars
    <3>1. n \in lastId[a] .. Len(stream[a])
      BY <2>8, LenProperties DEF TypeOK
    <3>2. Contract!Claim(a)
      BY <2>8, <3>1 DEF Contract!Claim
    <3>3. QED BY <3>2 DEF Contract!Next
  <2>9. ASSUME NEW a \in GroupStreams, EnsureConsumerGroup(a)
        PROVE  [Contract!Next]_Contract!cvars
    <3>1. a \in Agents /\ Len(stream[a]) \in Nat /\ lastId[a] <= Len(stream[a])
      BY LenProperties DEF TypeOK, GroupInv, CursorsOrdered
    <3>2. /\ lastId' = [lastId EXCEPT ![a] = Len(stream[a])]
          /\ UNCHANGED <<queue, stream, returned>>
      BY <2>9 DEF EnsureConsumerGroup, XGroupCreate, pubVars, subVars
    <3>3. Len(stream[a]) \in lastId[a] .. Len(stream[a])
      BY <3>1 DEF TypeOK
    <3>4. Contract!Claim(a)
      BY <3>2, <3>3 DEF Contract!Claim
    <3>5. QED BY <3>1, <3>4 DEF Contract!Next
  <2>10. ASSUME NEW a \in Agents, ReadGroup(a, MaxBatch),
                UNCHANGED <<queue, stream, returned>>
         PROVE  [Contract!Next]_Contract!cvars
    <3>1. /\ lastId[a] <= lastId'[a] /\ lastId'[a] <= Len(stream[a])
          /\ lastId'[a] \in Nat
      BY <2>10, ReadGroupBooks
    <3>2. lastId' = [lastId EXCEPT ![a] = lastId'[a]]
      BY <2>10 DEF ReadGroup, TypeOK
    <3>3. QED BY <2>8, <2>10, <3>1, <3>2
  <2>11. ASSUME NEW c \in Consumers, NEW a \in Agents, SubscribeReturn(c, a)
         PROVE  [Contract!Next]_Contract!cvars
    <3>1. /\ src[c] = a /\ returned' = [returned EXCEPT ![a] = @ \cup got[c]]
          /\ UNCHANGED <<queue, stream, lastId>>
      BY <2>11 DEF SubscribeReturn, pubVars, groupVars
    <3>2. got[c] \subseteq acked[a] /\ \A i \in acked[a] : stream[a][i] # Junk
      BY <3>1 DEF GroupInv, GroupAccounting
    <3>3. got[c] \cap returned[a] = {}
      BY <3>1 DEF GroupInv, EntryHeldOnce, InCall
    <3>4. acked[a] \subseteq 1 .. lastId[a]
      <4>1. pel[a] \cup acked[a] = start[a] + 1 .. lastId[a]
        BY DEF GroupInv, GroupAccounting
      <4>2. start[a] \in Nat /\ lastId[a] \in Nat
        BY DEF TypeOK
      <4>3. QED BY <4>1, <4>2
    <3>5. got[c] \in SUBSET (1 .. lastId[a])
      BY <3>2, <3>4
    <3>6. Contract!Return(a)
      BY <3>1, <3>2, <3>3, <3>5 DEF Contract!Return
    <3>7. QED BY <3>6 DEF Contract!Next
  <2>12. ASSUME NEW c \in Consumers, NEW a \in Agents, Subscribe(c, a)
         PROVE  [Contract!Next]_Contract!cvars
    <3>1. CASE SubscribeRead(c, a)
      BY <2>10, <3>1 DEF SubscribeRead, pubVars
    <3>2. CASE SubscribeReadLost(c, a)
      BY <2>10, <3>2 DEF SubscribeReadLost, pubVars, subVars
    <3>3. CASE SubscribeAck(c, a) \/ SubscribeSkip(c, a) \/ SubscribeAckError(c, a)
      BY <2>1, <3>3 DEF SubscribeAck, SubscribeSkip, SubscribeAckError, XAck,
         pubVars, groupVars
    <3>4. CASE SubscribeReturn(c, a) BY <2>11, <3>4
    <3>5. QED BY <2>12, <3>1, <3>2, <3>3, <3>4 DEF Subscribe
  <2>13. CASE \/ FlushStart \/ FlushDone \/ SetAccessMatrix \/ RedisToggles
              \/ UNCHANGED vars
              \/ \E c \in Consumers : ConsumerCrash(c)
    BY <2>1, <2>13 DEF FlushStart, FlushDone, SetAccessMatrix, RedisToggles,
       ConsumerCrash, vars, pubVars, groupVars, subVars
  <2>14. QED
    BY <2>2, <2>4, <2>5, <2>6, <2>7, <2>9, <2>12, <2>13 DEF Next
<1>3. QED
  BY <1>1, <1>2, TypeCorrect, GroupInvariant, PTL
     DEF Spec, ImplementsContract, Contract!Spec

-----------------------------------------------------------------------------
(* A message leaves the client once and in order.  The invariant is stated *)
(* of values, so that each step is a fact about sequences and sets: q the  *)
(* local queue, acc all it ever took, out the answers, P the positions of  *)
(* each message on its stream, gone what crashes destroyed, echo what was  *)
(* appended by a call that failed.                                         *)

\* the queue is the last of what it took
QueueIsTail(q, acc) ==
  /\ Len(q) <= Len(acc)
  /\ \A i \in 1 .. Len(q) : q[i] = acc[(Len(acc) - Len(q)) + i]

\* it took each message once
TakenOnce(acc, out) ==
  /\ \A i, j \in 1 .. Len(acc) : acc[i] = acc[j] => i = j
  /\ \A i \in 1 .. Len(acc) : out[acc[i]] = "queued"

NewIsUnsent(out, P) == \A m \in Msgs : out[m] = "new" => P[m] = {}

\* what left the queue was sent or destroyed; of what is in the queue only
\* the head may have been sent, by a call that failed
LeftIsSent(n, acc, P, gone) ==
  \A i \in 1 .. Len(acc) :
    /\ i <= n => acc[i] \in gone \/ P[acc[i]] # {}
    /\ i > n + 1 => P[acc[i]] = {}

SentOnce(q, P, echo) ==
  \A m \in Msgs \ echo :
    /\ \A i, j \in P[m] : i = j
    /\ m \in Elems(q) => P[m] = {}

SentInOrder(acc, P, gone) ==
  \A i, j \in 1 .. Len(acc) :
    (i < j /\ acc[i] \notin gone /\ Dest[acc[i]] = Dest[acc[j]]) =>
      \A y \in P[acc[j]] : \E x \in P[acc[i]] : x < y

SendOK(q, acc, out, P, gone, echo) ==
  /\ QueueIsTail(q, acc) /\ TakenOnce(acc, out) /\ NewIsUnsent(out, P)
  /\ LeftIsSent(Len(acc) - Len(q), acc, P, gone)
  /\ SentOnce(q, P, echo) /\ SentInOrder(acc, P, gone)

SendTypes(q, acc, out, P, gone, echo) ==
  /\ q \in Seq(Msgs) /\ acc \in Seq(Msgs) /\ out \in [Msgs -> Outcomes]
  /\ P \in [Msgs -> SUBSET Nat] /\ gone \subseteq Msgs /\ echo \subseteq Msgs

(* A new message is answered: refused, or appended to its stream.          *)
LEMMA SendAnswered ==
  ASSUME NEW q, NEW acc, NEW out, NEW P, NEW gone, NEW echo,
         SendTypes(q, acc, out, P, gone, echo), SendOK(q, acc, out, P, gone, echo),
         NEW m \in Msgs, out[m] = "new", NEW o \in Outcomes \ {"new", "queued"},
         NEW S \in SUBSET Nat, \A i, j \in S : i = j,
         NEW e \in SUBSET Msgs, echo \subseteq e
  PROVE  SendOK(q, acc, [out EXCEPT ![m] = o], [P EXCEPT ![m] = S], gone, e)
<1> DEFINE out2 == [out EXCEPT ![m] = o]
           P2 == [P EXCEPT ![m] = S]
<1>1. /\ P \in [Msgs -> SUBSET Nat] /\ out \in [Msgs -> Outcomes]
      /\ Len(q) \in Nat /\ Len(acc) \in Nat
      /\ \A i \in 1 .. Len(acc) : acc[i] \in Msgs
      /\ \A i \in 1 .. Len(q) : q[i] \in Msgs
  BY LenProperties, ElementOfSeq DEF SendTypes
<1>2. /\ out2[m] = o /\ P2[m] = S
      /\ \A n \in Msgs : n # m => out2[n] = out[n] /\ P2[n] = P[n]
  BY <1>1
<1> HIDE DEF out2, P2
<1>3. \A i \in 1 .. Len(acc) : acc[i] # m
  BY DEF SendOK, TakenOnce
<1>4. \A i \in 1 .. Len(acc) : out2[acc[i]] = out[acc[i]] /\ P2[acc[i]] = P[acc[i]]
  BY <1>1, <1>2, <1>3
<1>5. m \notin Elems(q)
  <2> SUFFICES ASSUME NEW i \in 1 .. Len(q), q[i] = m PROVE FALSE
    BY <1>1 DEF Elems, SendTypes
  <2>1. (Len(acc) - Len(q)) + i \in 1 .. Len(acc) /\ q[i] = acc[(Len(acc) - Len(q)) + i]
    BY <1>1 DEF SendOK, QueueIsTail
  <2>2. QED BY <1>3, <2>1
<1>6. QueueIsTail(q, acc) /\ TakenOnce(acc, out2)
  BY <1>4 DEF SendOK, TakenOnce
<1>7. NewIsUnsent(out2, P2)
  BY <1>2 DEF SendOK, NewIsUnsent
<1>8. LeftIsSent(Len(acc) - Len(q), acc, P2, gone)
  BY <1>4 DEF SendOK, LeftIsSent
<1>9. SentOnce(q, P2, e)
  BY <1>2, <1>5 DEF SendOK, SentOnce
<1>10. SentInOrder(acc, P2, gone)
  BY <1>4 DEF SendOK, SentInOrder
<1>11. QED BY <1>6, <1>7, <1>8, <1>9, <1>10 DEF SendOK, out2, P2

(* A new message is queued.                                                *)
LEMMA SendQueued ==
  ASSUME NEW q, NEW acc, NEW out, NEW P, NEW gone, NEW echo,
         SendTypes(q, acc, out, P, gone, echo), SendOK(q, acc, out, P, gone, echo),
         NEW m \in Msgs, out[m] = "new"
  PROVE  SendOK(Append(q, m), Append(acc, m), [out EXCEPT ![m] = "queued"], P, gone, echo)
<1> DEFINE q2 == Append(q, m)
           acc2 == Append(acc, m)
           out2 == [out EXCEPT ![m] = "queued"]
<1>1. /\ P \in [Msgs -> SUBSET Nat] /\ out \in [Msgs -> Outcomes]
      /\ Len(q) \in Nat /\ Len(acc) \in Nat
      /\ \A i \in 1 .. Len(acc) : acc[i] \in Msgs
      /\ q \in Seq(Msgs) /\ acc \in Seq(Msgs)
  BY LenProperties, ElementOfSeq DEF SendTypes
<1>2. /\ Len(q2) = Len(q) + 1 /\ Len(acc2) = Len(acc) + 1
      /\ q2[Len(q) + 1] = m /\ acc2[Len(acc) + 1] = m
      /\ \A i \in 1 .. Len(q) : q2[i] = q[i]
      /\ \A i \in 1 .. Len(acc) : acc2[i] = acc[i]
  BY <1>1, AppendProperties
<1>3. out2[m] = "queued" /\ \A n \in Msgs : n # m => out2[n] = out[n]
  BY <1>1
<1>4. Elems(q2) = Elems(q) \cup {m}
  BY <1>1, AppendElems
<1> HIDE DEF q2, acc2, out2
<1>5. P[m] = {} /\ \A i \in 1 .. Len(acc) : acc[i] # m
  BY DEF SendOK, NewIsUnsent, TakenOnce
<1>6. QueueIsTail(q2, acc2)
  <2>1. Len(q) <= Len(acc)
    BY DEF SendOK, QueueIsTail
  <2>2. ASSUME NEW i \in 1 .. Len(q2) PROVE q2[i] = acc2[(Len(acc2) - Len(q2)) + i]
    <3>1. CASE i = Len(q) + 1
      BY <1>1, <1>2, <3>1
    <3>2. CASE i \in 1 .. Len(q)
      <4>1. (Len(acc) - Len(q)) + i \in 1 .. Len(acc)
        BY <1>1, <2>1, <3>2
      <4>2. q[i] = acc[(Len(acc) - Len(q)) + i]
        BY <3>2 DEF SendOK, QueueIsTail
      <4>3. Len(acc2) - Len(q2) = Len(acc) - Len(q)
        BY <1>1, <1>2
      <4>4. QED BY <1>2, <3>2, <4>1, <4>2, <4>3
    <3>3. QED BY <1>1, <1>2, <3>1, <3>2
  <2>3. QED BY <1>1, <1>2, <2>1, <2>2 DEF QueueIsTail
<1>7. TakenOnce(acc2, out2)
  <2>1. ASSUME NEW i \in 1 .. Len(acc2), NEW j \in 1 .. Len(acc2), acc2[i] = acc2[j]
        PROVE  i = j
    <3>1. CASE i \in 1 .. Len(acc) /\ j \in 1 .. Len(acc)
      BY <1>2, <2>1, <3>1 DEF SendOK, TakenOnce
    <3>2. CASE ~(i \in 1 .. Len(acc) /\ j \in 1 .. Len(acc))
      BY SMTT(30), <1>1, <1>2, <1>5, <2>1, <3>2
    <3>3. QED BY <3>1, <3>2
  <2>2. ASSUME NEW i \in 1 .. Len(acc2) PROVE out2[acc2[i]] = "queued"
    <3>1. CASE i \in 1 .. Len(acc)
      BY <1>1, <1>2, <1>3, <1>5, <3>1 DEF SendOK, TakenOnce
    <3>2. CASE i = Len(acc) + 1
      BY <1>2, <1>3, <3>2
    <3>3. QED BY <1>1, <1>2, <3>1, <3>2
  <2>3. QED BY <2>1, <2>2 DEF TakenOnce
<1>8. NewIsUnsent(out2, P)
  BY <1>3 DEF SendOK, NewIsUnsent
<1>9. LeftIsSent(Len(acc2) - Len(q2), acc2, P, gone)
  <2>0. Len(acc2) - Len(q2) = Len(acc) - Len(q) /\ Len(q) <= Len(acc)
    BY <1>1, <1>2 DEF SendOK, QueueIsTail
  <2> DEFINE n == Len(acc) - Len(q)
  <2>1. ASSUME NEW i \in 1 .. Len(acc2)
        PROVE  /\ i <= n => acc2[i] \in gone \/ P[acc2[i]] # {}
               /\ i > n + 1 => P[acc2[i]] = {}
    <3>1. CASE i \in 1 .. Len(acc)
      BY <1>2, <3>1 DEF SendOK, LeftIsSent
    <3>2. CASE i = Len(acc) + 1
      BY <1>1, <1>2, <1>5, <2>0, <3>2
    <3>3. QED BY <1>1, <1>2, <3>1, <3>2
  <2> HIDE DEF n
  <2>2. QED BY <2>0, <2>1 DEF LeftIsSent, n
<1>10. SentOnce(q2, P, echo)
  BY <1>4, <1>5 DEF SendOK, SentOnce
<1>11. SentInOrder(acc2, P, gone)
  <2> SUFFICES ASSUME NEW i \in 1 .. Len(acc2), NEW j \in 1 .. Len(acc2), i < j,
                      acc2[i] \notin gone, Dest[acc2[i]] = Dest[acc2[j]],
                      NEW y \in P[acc2[j]]
               PROVE  \E x \in P[acc2[i]] : x < y
    BY DEF SentInOrder
  <2>1. j \in 1 .. Len(acc) /\ i \in 1 .. Len(acc)
    <3>1. j # Len(acc) + 1
      BY <1>2, <1>5
    <3>2. j <= Len(acc) + 1 /\ 1 <= i /\ i < j /\ i \in Int /\ j \in Int
      BY <1>1, <1>2
    <3>3. Len(acc) \in Nat
      BY <1>1
    <3>4. QED BY ONLY <3>1, <3>2, <3>3
  <2>2. QED BY <1>2, <2>1 DEF SendOK, SentInOrder
<1>12. QED BY <1>6, <1>7, <1>8, <1>9, <1>10, <1>11 DEF SendOK, q2, acc2, out2

(* The head of the queue is appended to its stream, behind everything that *)
(* is on it; it leaves the queue, unless the reply was lost.               *)
LEMMA SendHead ==
  ASSUME NEW q, NEW acc, NEW out, NEW P, NEW gone, NEW echo,
         SendTypes(q, acc, out, P, gone, echo), SendOK(q, acc, out, P, gone, echo),
         q # << >>, NEW l \in Nat,
         \A m \in Msgs : Dest[m] = Dest[Head(q)] => \A x \in P[m] : x < l,
         NEW q2, NEW e \in SUBSET Msgs, echo \subseteq e,
         (q2 = Tail(q)) \/ (q2 = q /\ Head(q) \in e)
  PROVE  SendOK(q2, acc, out, [P EXCEPT ![Head(q)] = @ \cup {l}], gone, e)
<1> DEFINE h == Head(q)
           k == (Len(acc) - Len(q)) + 1
           P2 == [P EXCEPT ![h] = @ \cup {l}]
<1>1. /\ P \in [Msgs -> SUBSET Nat] /\ out \in [Msgs -> Outcomes]
      /\ Len(q) \in Nat /\ Len(acc) \in Nat
      /\ \A i \in 1 .. Len(acc) : acc[i] \in Msgs
      /\ q \in Seq(Msgs) /\ acc \in Seq(Msgs)
  BY LenProperties, ElementOfSeq DEF SendTypes
<1>2. /\ h \in Msgs /\ h = q[1] /\ Len(q) >= 1 /\ Tail(q) \in Seq(Msgs)
      /\ Len(Tail(q)) = Len(q) - 1
      /\ \A i \in 1 .. Len(q) - 1 : Tail(q)[i] = q[i + 1]
  BY <1>1, EmptySeq, HeadTailProperties
<1>3. /\ Len(q) <= Len(acc)
      /\ \A i \in 1 .. Len(q) : q[i] = acc[(Len(acc) - Len(q)) + i]
  BY DEF SendOK, QueueIsTail
<1>4. k \in 1 .. Len(acc) /\ acc[k] = h
  BY <1>1, <1>2, <1>3
<1>5. P2[h] = P[h] \cup {l} /\ \A m \in Msgs : m # h => P2[m] = P[m]
  BY <1>1, <1>2
<1> HIDE DEF h, P2
<1>6. \A i \in 1 .. Len(acc) : i # k => acc[i] # h /\ P2[acc[i]] = P[acc[i]]
  BY <1>1, <1>4, <1>5 DEF SendOK, TakenOnce
<1>7. QueueIsTail(q2, acc)
  <2>1. CASE q2 = q
    BY <2>1 DEF SendOK
  <2>2. CASE q2 = Tail(q)
    <3>1. ASSUME NEW i \in 1 .. Len(q2) PROVE q2[i] = acc[(Len(acc) - Len(q2)) + i]
      <4>1. i + 1 \in 1 .. Len(q) /\ q2[i] = q[i + 1]
        BY <1>1, <1>2, <2>2
      <4>2. (Len(acc) - Len(q)) + (i + 1) = (Len(acc) - Len(q2)) + i
        BY <1>1, <1>2, <2>2
      <4>3. QED BY <1>3, <4>1, <4>2
    <3>2. Len(q2) <= Len(acc)
      BY <1>1, <1>2, <1>3, <2>2
    <3>3. QED BY <3>1, <3>2 DEF QueueIsTail
  <2>3. QED BY <2>1, <2>2
<1>8. NewIsUnsent(out, P2)
  <2>1. out[h] = "queued"
    BY <1>4 DEF SendOK, TakenOnce
  <2>2. QED BY <1>5, <2>1 DEF SendOK, NewIsUnsent
<1>9. LeftIsSent(Len(acc) - Len(q2), acc, P2, gone)
  <2> DEFINE n == Len(acc) - Len(q2)
  <2>1. n \in Int /\ (n = k - 1 \/ n = k)
    <3>1. CASE q2 = q
      BY <1>1, <3>1
    <3>2. CASE q2 = Tail(q)
      BY <1>1, <1>2, <3>2
    <3>3. QED BY <3>1, <3>2
  <2> SUFFICES ASSUME NEW i \in 1 .. Len(acc)
               PROVE  /\ i <= n => acc[i] \in gone \/ P2[acc[i]] # {}
                      /\ i > n + 1 => P2[acc[i]] = {}
    BY DEF LeftIsSent
  <2> HIDE DEF n
  <2>2. CASE i = k
    <3>1. P2[acc[i]] # {}
      BY <1>4, <1>5, <2>2
    <3>2. k \in Int
      BY <1>1
    <3> HIDE DEF k
    <3>3. ~(i > n + 1)
      BY <2>1, <2>2, <3>2
    <3>4. QED BY <3>1, <3>3
  <2>3. CASE i # k
    <3>1. k - 1 = Len(acc) - Len(q) /\ k \in Int
      BY <1>1
    <3>2. /\ i <= k - 1 => acc[i] \in gone \/ P[acc[i]] # {}
          /\ i > (k - 1) + 1 => P[acc[i]] = {}
      BY <3>1 DEF SendOK, LeftIsSent
    <3> HIDE DEF k
    <3>3. (i <= n => i <= k - 1) /\ (i > n + 1 => i > (k - 1) + 1)
      BY <2>1, <2>3, <3>1
    <3>4. QED BY <1>6, <2>3, <3>2, <3>3
  <2>4. QED BY <2>2, <2>3
<1>10. SentOnce(q2, P2, e)
  <2> SUFFICES ASSUME NEW m \in Msgs, m \notin e
               PROVE  /\ \A i, j \in P2[m] : i = j
                      /\ m \in Elems(q2) => P2[m] = {}
    BY DEF SentOnce
  <2>1. /\ \A i, j \in P[m] : i = j
        /\ m \in Elems(q) => P[m] = {}
    BY DEF SendOK, SentOnce
  <2>2. Elems(q) = {h} \cup Elems(Tail(q))
    BY <1>1, HeadTailElems DEF h
  <2>3. CASE m # h
    BY <1>5, <2>1, <2>2, <2>3
  <2>4. CASE m = h
    <3>1. q2 = Tail(q)
      BY <2>4 DEF h
    <3>2. P2[m] = {l}
      BY <1>5, <2>1, <2>2, <2>4
    <3>3. m \notin Elems(q2)
      <4> SUFFICES ASSUME NEW i \in 1 .. Len(q) - 1, Tail(q)[i] = h PROVE FALSE
        BY <1>1, <1>2, <2>4, <3>1 DEF Elems
      <4>1. k + i \in 1 .. Len(acc) /\ k + i # k
        BY <1>1, <1>2, <1>3
      <4>2. acc[k + i] = h
        <5>1. i + 1 \in 1 .. Len(q) /\ Tail(q)[i] = q[i + 1]
          BY <1>1, <1>2
        <5>2. (Len(acc) - Len(q)) + (i + 1) = k + i
          BY <1>1
        <5>3. QED BY <1>3, <5>1, <5>2
      <4>3. QED BY <1>6, <4>1, <4>2
    <3>4. QED BY <3>2, <3>3
  <2>5. QED BY <2>3, <2>4
<1>11. SentInOrder(acc, P2, gone)
  <2> SUFFICES ASSUME NEW i \in 1 .. Len(acc), NEW j \in 1 .. Len(acc), i < j,
                      acc[i] \notin gone, Dest[acc[i]] = Dest[acc[j]],
                      NEW y \in P2[acc[j]]
               PROVE  \E x \in P2[acc[i]] : x < y
    BY DEF SentInOrder
  <2>1. P[acc[i]] \subseteq P2[acc[i]]
    BY <1>1, <1>4, <1>5, <1>6
  <2>2. CASE y \in P[acc[j]]
    BY <2>1, <2>2 DEF SendOK, SentInOrder
  <2>3. CASE y \notin P[acc[j]]
    <3>1. j = k /\ y = l /\ acc[j] = h
      BY <1>4, <1>5, <1>6, <2>3
    <3>2. i <= Len(acc) - Len(q)
      BY <1>1, <3>1
    <3>3. P[acc[i]] # {}
      BY <3>2 DEF SendOK, LeftIsSent
    <3>4. \A x \in P[acc[i]] : x < l
      BY <1>1, <3>1 DEF h
    <3>5. QED BY <2>1, <3>1, <3>3, <3>4
  <2>4. QED BY <2>2, <2>3
<1>12. TakenOnce(acc, out)
  BY DEF SendOK
<1>13. QED BY <1>7, <1>8, <1>9, <1>10, <1>11, <1>12 DEF SendOK, h, P2

(* The publisher's process dies with its queue.                            *)
LEMMA SendCrash ==
  ASSUME NEW q, NEW acc, NEW out, NEW P, NEW gone, NEW echo,
         SendTypes(q, acc, out, P, gone, echo), SendOK(q, acc, out, P, gone, echo)
  PROVE  SendOK(<< >>, acc, out, P, gone \cup Elems(q), echo)
<1>1. /\ Len(q) \in Nat /\ Len(acc) \in Nat
      /\ q \in Seq(Msgs) /\ acc \in Seq(Msgs)
  BY LenProperties DEF SendTypes
<1>2. /\ Len(q) <= Len(acc)
      /\ \A i \in 1 .. Len(q) : q[i] = acc[(Len(acc) - Len(q)) + i]
  BY DEF SendOK, QueueIsTail
<1>3. Len(<< >>) = 0 /\ Elems(<< >>) = {}
  BY DEF Elems
<1>4. QueueIsTail(<< >>, acc)
  BY <1>1, <1>3 DEF QueueIsTail
<1>5. LeftIsSent(Len(acc) - Len(<< >>), acc, P, gone \cup Elems(q))
  <2> SUFFICES ASSUME NEW i \in 1 .. Len(acc)
               PROVE  acc[i] \in gone \cup Elems(q) \/ P[acc[i]] # {}
    BY <1>1, <1>3 DEF LeftIsSent
  <2>1. CASE i <= Len(acc) - Len(q)
    BY <2>1 DEF SendOK, LeftIsSent
  <2>2. CASE ~(i <= Len(acc) - Len(q))
    <3> DEFINE j == i - (Len(acc) - Len(q))
    <3>1. j \in 1 .. Len(q) /\ (Len(acc) - Len(q)) + j = i
      BY <1>1, <1>2, <2>2
    <3>2. q[j] = acc[i]
      BY <1>2, <3>1
    <3>3. QED BY <1>1, <3>1, <3>2 DEF Elems
  <2>3. QED BY <2>1, <2>2
<1>6. SentOnce(<< >>, P, echo)
  BY <1>3 DEF SendOK, SentOnce
<1>7. SentInOrder(acc, P, gone \cup Elems(q))
  BY DEF SendOK, SentInOrder
<1>8. QED BY <1>4, <1>5, <1>6, <1>7 DEF SendOK

Pos(m) == {x \in DOMAIN stream[Dest[m]] : stream[Dest[m]][x] = m}
Positions == [m \in Msgs |-> Pos(m)]
SendInv == SendOK(queue, accepted, outcome, Positions, lost, ghost)

(* An append moves nothing and adds a position of its message, behind all. *)
LEMMA AppendPositions ==
  ASSUME TypeOK, NEW a \in Agents, NEW e \in Entries,
         e \in Msgs => Dest[e] = a,
         stream' = [stream EXCEPT ![a] = Append(@, e)]
  PROVE  LET l == Len(stream[a]) + 1
         IN /\ e = Junk => Positions' = Positions
            /\ e \in Msgs => Positions' = [Positions EXCEPT ![e] = @ \cup {l}]
            /\ \A m \in Msgs : Dest[m] = a => \A x \in Positions[m] : x < l
<1> DEFINE l == Len(stream[a]) + 1
<1>1. stream[a] \in Seq(Entries) /\ Len(stream[a]) \in Nat
  BY LenProperties DEF TypeOK
<1>2. stream'[a] = Append(stream[a], e) /\ \A b \in Agents : b # a => stream'[b] = stream[b]
  BY DEF TypeOK
<1>3. /\ DOMAIN stream'[a] = DOMAIN stream[a] \cup {l} /\ stream'[a][l] = e
      /\ DOMAIN stream[a] = 1 .. Len(stream[a])
      /\ \A x \in DOMAIN stream[a] : stream'[a][x] = stream[a][x]
  BY <1>1, <1>2, AppendProperties
<1>4. \A m \in Msgs : Pos(m)' = IF m = e THEN Pos(m) \cup {l} ELSE Pos(m)
  <2> SUFFICES ASSUME NEW m \in Msgs
               PROVE  Pos(m)' = IF m = e THEN Pos(m) \cup {l} ELSE Pos(m)
    OBVIOUS
  <2>1. CASE Dest[m] # a
    BY <1>2, <2>1 DEF Pos
  <2>2. CASE Dest[m] = a
    BY <1>3, <2>2 DEF Pos
  <2>3. QED BY <2>1, <2>2
<1>5. \A m \in Msgs : Dest[m] = a => \A x \in Positions[m] : x < l
  BY <1>1, <1>3 DEF Positions, Pos
<1>6. e = Junk => Positions' = Positions
  BY <1>4 DEF Positions
<1>7. e \in Msgs => Positions' = [Positions EXCEPT ![e] = @ \cup {l}]
  BY <1>4 DEF Positions
<1>8. QED BY <1>5, <1>6, <1>7

(* The types of what the invariant is stated of.                           *)
LEMMA SendTyped ==
  TypeOK => SendTypes(queue, accepted, outcome, Positions, lost, ghost)
<1> SUFFICES ASSUME TypeOK PROVE Positions \in [Msgs -> SUBSET Nat]
  BY DEF TypeOK, SendTypes
<1>1. \A m \in Msgs : DOMAIN stream[Dest[m]] \subseteq Nat
  <2> SUFFICES ASSUME NEW m \in Msgs PROVE DOMAIN stream[Dest[m]] \subseteq Nat
    OBVIOUS
  <2>1. stream[Dest[m]] \in Seq(Entries)
    BY DEF TypeOK
  <2>2. DOMAIN stream[Dest[m]] = 1 .. Len(stream[Dest[m]]) /\ Len(stream[Dest[m]]) \in Nat
    BY <2>1, LenProperties
  <2>3. QED BY <2>2
<1>2. QED BY <1>1 DEF Positions, Pos

(* An XADD of m either leaves the streams or appends m; one that fails     *)
(* after it appended m says so in ghost.                                   *)
LEMMA XAddSends ==
  ASSUME TypeOK, NEW m \in Msgs, XAddOk(m) \/ XAddErr(m)
  PROVE  /\ ghost \subseteq ghost' /\ ghost' \subseteq Msgs
         /\ \/ ~XAddOk(m) /\ Positions' = Positions
            \/ /\ \E l \in Nat :
                    /\ Positions' = [Positions EXCEPT ![m] = @ \cup {l}]
                    /\ \A n \in Msgs : Dest[n] = Dest[m] => \A x \in Positions[n] : x < l
               /\ XAddOk(m) \/ m \in ghost'
<1>1. ghost \subseteq ghost' /\ ghost' \subseteq Msgs
  BY DEF XAddOk, XAddErr, XAddLostReply, XAddRefused, TypeOK
<1>2. CASE stream' = [stream EXCEPT ![Dest[m]] = Append(@, m)]
           /\ (XAddOk(m) \/ m \in ghost')
  <2>1. m \in Entries /\ Dest[m] \in Agents /\ Len(stream[Dest[m]]) + 1 \in Nat
    BY LenProperties DEF Entries, TypeOK
  <2>2. QED BY <1>1, <1>2, <2>1, AppendPositions
<1>3. CASE stream' = stream /\ ~XAddOk(m)
  BY <1>1, <1>3 DEF Positions, Pos
<1>4. CASE XAddOk(m)
  BY <1>2, <1>4 DEF XAddOk
<1>5. CASE ~XAddOk(m)
  BY <1>2, <1>3, <1>5 DEF XAddErr, XAddLostReply, XAddRefused
<1>6. QED BY <1>4, <1>5

(* The invariant says what is wanted.                                      *)
LEMMA SendInvSuffices == TypeOK /\ SendInv => SentOnceInOrder
<1> SUFFICES ASSUME TypeOK, SendInv PROVE SentOnceInOrder
  OBVIOUS
<1>1. \A m \in Msgs : Positions[m] = Pos(m)
  BY DEF Positions
<1>2. \A m \in Msgs : OnStream(m) <=> Pos(m) # {}
  BY DEF OnStream, Elems, Pos
<1>3. NoDuplicateWithoutLostReply
  <2> SUFFICES ASSUME NEW m \in Msgs \ ghost
      PROVE /\ \A i, j \in DOMAIN stream[Dest[m]] :
                 stream[Dest[m]][i] = m /\ stream[Dest[m]][j] = m => i = j
            /\ ~(m \in Elems(queue) /\ OnStream(m))
    BY DEF NoDuplicateWithoutLostReply
  <2>1. (\A i, j \in Pos(m) : i = j) /\ (m \in Elems(queue) => Pos(m) = {})
    BY <1>1 DEF SendInv, SendOK, SentOnce
  <2>2. QED BY <1>2, <2>1 DEF Pos
<1>4. DrainOrder
  <2> SUFFICES ASSUME NEW i \in DOMAIN accepted, NEW j \in DOMAIN accepted, i < j,
                      accepted[i] \notin lost, OnStream(accepted[j])
      PROVE /\ OnStream(accepted[i])
            /\ Dest[accepted[i]] = Dest[accepted[j]] =>
                 \A q \in DOMAIN stream[Dest[accepted[j]]] :
                   stream[Dest[accepted[j]]][q] = accepted[j] =>
                     \E p \in DOMAIN stream[Dest[accepted[i]]] :
                       p < q /\ stream[Dest[accepted[i]]][p] = accepted[i]
    BY DEF DrainOrder
  <2>1. /\ accepted \in Seq(Msgs) /\ DOMAIN accepted = 1 .. Len(accepted)
        /\ Len(accepted) \in Nat /\ Len(queue) \in Nat
        /\ accepted[i] \in Msgs /\ accepted[j] \in Msgs
    BY LenProperties, ElementOfSeq DEF TypeOK
  <2>2. Pos(accepted[j]) # {} /\ i \in 1 .. Len(accepted) /\ j \in 1 .. Len(accepted)
    BY <1>2, <2>1
  <2>3. ~(j > (Len(accepted) - Len(queue)) + 1)
    BY <1>1, <2>1, <2>2 DEF SendInv, SendOK, LeftIsSent
  <2>4. i <= Len(accepted) - Len(queue)
    BY <2>1, <2>2, <2>3
  <2>5. Pos(accepted[i]) # {}
    BY <1>1, <2>1, <2>2, <2>4 DEF SendInv, SendOK, LeftIsSent
  <2>6. Dest[accepted[i]] = Dest[accepted[j]] =>
          \A y \in Pos(accepted[j]) : \E x \in Pos(accepted[i]) : x < y
    BY <1>1, <2>1, <2>2 DEF SendInv, SendOK, SentInOrder
  <2>7. QED BY <1>2, <2>1, <2>5, <2>6 DEF Pos
<1>5. QED BY <1>3, <1>4 DEF SentOnceInOrder

(* publish keeps the order, whatever it answers.                           *)
LEMMA PublishSends ==
  ASSUME TypeOK, SendInv, NEW m \in Msgs, Publish(m)
  PROVE  SendInv'
<1>0. /\ SendTypes(queue, accepted, outcome, Positions, lost, ghost)
      /\ outcome[m] = "new" /\ lost' = lost /\ Pos(m) = {} /\ Positions[m] = {}
  <2>1. outcome[m] = "new" /\ lost' = lost
    BY DEF Publish, Invalid, Denied, QueueLocally, QueueFull, PublishToStream, MayPublish
  <2>2. Positions[m] = Pos(m)
    BY DEF Positions
  <2>3. QED BY <2>1, <2>2, SendTyped DEF SendInv, SendOK, NewIsUnsent
<1>1. ghost \subseteq Msgs /\ Positions \in [Msgs -> SUBSET Nat]
  BY <1>0 DEF SendTypes
<1>2. CASE QueueLocally(m)
  <2>1. /\ queue' = Append(queue, m) /\ accepted' = Append(accepted, m)
        /\ outcome' = [outcome EXCEPT ![m] = "queued"] /\ ghost' = ghost
        /\ Positions' = Positions
    BY <1>2 DEF QueueLocally, Answer, Positions, Pos
  <2>2. QED BY <1>0, <2>1, SendQueued DEF SendInv
<1>3. ASSUME NEW o \in Outcomes \ {"new", "queued"}, Answer(m, o),
             UNCHANGED <<queue, accepted>>, NEW S \in SUBSET Nat,
             \A i, j \in S : i = j, Positions' = [Positions EXCEPT ![m] = S],
             ghost \subseteq ghost', ghost' \subseteq Msgs
      PROVE  SendInv'
  <2>1. SendOK(queue, accepted, [outcome EXCEPT ![m] = o],
               [Positions EXCEPT ![m] = S], lost, ghost')
    BY <1>0, <1>3, SendAnswered DEF SendInv
  <2>2. QED BY <1>0, <1>3, <2>1 DEF SendInv, Answer
<1>4. Positions = [Positions EXCEPT ![m] = {}]
  BY <1>0, <1>1
<1>5. CASE Invalid(m) \/ Denied(m) \/ QueueFull(m)
  <2>1. PICK o \in {"invalid", "denied", "full"} : Answer(m, o)
    BY <1>5 DEF Invalid, Denied, QueueFull
  <2>2. UNCHANGED <<queue, accepted, ghost>> /\ Positions' = Positions
    BY <1>5 DEF Invalid, Denied, QueueFull, Positions, Pos
  <2>3. o \in Outcomes \ {"new", "queued"}
    BY DEF Outcomes
  <2>4. QED BY <1>1, <1>3, <1>4, <2>1, <2>2, <2>3
<1>6. CASE PublishToStream(m)
  <2>1. PICK o \in {"sent", "failed"} : Answer(m, o)
    BY <1>6 DEF PublishToStream
  <2>2. o \in Outcomes \ {"new", "queued"}
    BY DEF Outcomes
  <2>3. UNCHANGED <<queue, accepted>> /\ (XAddOk(m) \/ XAddErr(m))
    BY <1>6 DEF PublishToStream
  <2>4. CASE Positions' = Positions
    <3>1. Positions' = [Positions EXCEPT ![m] = {}]
      BY <1>4, <2>4
    <3>2. ghost \subseteq ghost' /\ ghost' \subseteq Msgs
      BY <2>3, XAddSends
    <3>3. {} \in SUBSET Nat /\ \A i, j \in {} : i = j
      OBVIOUS
    <3>4. QED BY <1>3, <2>1, <2>2, <2>3, <3>1, <3>2, <3>3
  <2>5. CASE \E l \in Nat : Positions' = [Positions EXCEPT ![m] = @ \cup {l}]
    <3>1. PICK l \in Nat : Positions' = [Positions EXCEPT ![m] = @ \cup {l}]
      BY <2>5
    <3>2. Positions' = [Positions EXCEPT ![m] = {l}]
      BY <1>0, <3>1
    <3>3. {l} \in SUBSET Nat /\ \A i, j \in {l} : i = j
      OBVIOUS
    <3>4. ghost \subseteq ghost' /\ ghost' \subseteq Msgs
      BY <2>3, XAddSends
    <3>5. QED BY <1>3, <2>1, <2>2, <2>3, <3>2, <3>3, <3>4
  <2>6. QED BY <2>3, <2>4, <2>5, XAddSends
<1>7. QED BY <1>2, <1>5, <1>6 DEF Publish

(* A step of flush_queue keeps the order, also one that is cut short.      *)
LEMMA FlushSends ==
  ASSUME TypeOK, SendInv, FlushOne \/ FlushError
  PROVE  SendInv'
<1> DEFINE m == Head(queue)
<1>0. /\ SendTypes(queue, accepted, outcome, Positions, lost, ghost)
      /\ queue # << >> /\ UNCHANGED <<accepted, outcome, lost>>
      /\ m \in Msgs /\ (XAddOk(m) \/ XAddErr(m))
  <2>1. queue # << >> /\ queue \in Seq(Msgs)
    BY DEF FlushOne, FlushError, TypeOK
  <2>2. m \in Msgs
    BY <2>1, HeadTailProperties
  <2>3. QED BY <2>1, <2>2, SendTyped DEF FlushOne, FlushError
<1>1. FlushOne => queue' = Tail(queue) /\ XAddOk(m)
  BY DEF FlushOne
<1>2. FlushError => queue' = queue
  BY <1>0, PutBackHead DEF FlushError, SendTypes
<1>3. XAddOk(m) => ghost' = ghost
  BY DEF XAddOk
<1> HIDE DEF m
<1>4. CASE FlushOne
  <2>1. PICK l \in Nat :
          /\ Positions' = [Positions EXCEPT ![m] = @ \cup {l}]
          /\ \A n \in Msgs : Dest[n] = Dest[m] => \A x \in Positions[n] : x < l
    BY <1>0, <1>1, <1>4, XAddSends
  <2>2. SendOK(Tail(queue), accepted, outcome, [Positions EXCEPT ![m] = @ \cup {l}],
               lost, ghost)
    BY <1>0, <2>1, SendHead DEF SendInv, SendTypes, m
  <2>3. QED BY <1>0, <1>1, <1>3, <1>4, <2>1, <2>2 DEF SendInv
<1>5. CASE FlushError
  <2>1. CASE stream' = stream
    <3>1. Positions' = Positions /\ ghost \subseteq ghost' /\ ghost' \subseteq Msgs
      BY <1>0, <2>1, XAddSends DEF Positions, Pos
    <3>2. SentOnce(queue, Positions, ghost')
      BY <3>1 DEF SendInv, SendOK, SentOnce
    <3>3. QED BY <1>0, <1>2, <1>5, <3>1, <3>2 DEF SendInv, SendOK
  <2>2. CASE XAddLostReply(m)
    <3>1. /\ stream' = [stream EXCEPT ![Dest[m]] = Append(@, m)]
          /\ ghost' = ghost \cup {m}
      BY <2>2 DEF XAddLostReply
    <3>2. m \in Entries /\ Dest[m] \in Agents /\ Len(stream[Dest[m]]) + 1 \in Nat
      BY <1>0, LenProperties DEF Entries, TypeOK
    <3>3. PICK l \in Nat :
            /\ Positions' = [Positions EXCEPT ![m] = @ \cup {l}]
            /\ \A n \in Msgs : Dest[n] = Dest[m] => \A x \in Positions[n] : x < l
      BY <1>0, <3>1, <3>2, AppendPositions
    <3>4. ghost' \in SUBSET Msgs /\ ghost \subseteq ghost' /\ m \in ghost'
      BY <1>0, <3>1 DEF SendTypes
    <3>5. SendOK(queue, accepted, outcome, [Positions EXCEPT ![m] = @ \cup {l}],
                 lost, ghost')
      BY <1>0, <3>3, <3>4, SendHead DEF SendInv, m
    <3>6. QED BY <1>0, <1>2, <1>5, <3>3, <3>5 DEF SendInv
  <2>3. XAddErr(m)
    BY <1>5 DEF FlushError, m
  <2>4. QED BY <2>1, <2>2, <2>3 DEF XAddErr, XAddRefused
<1>6. QED BY <1>4, <1>5

(* A message leaves the client once and in the order it came, through      *)
(* flushes that are cut short, publishes that overtake the queue and       *)
(* crashes: publish, queue_locally and flush_queue for every number of     *)
(* messages, destinations and consumers and every capacity of the queue.   *)
THEOREM MessagesLeaveInOrder == Spec => []SentOnceInOrder
<1>1. Init => SendInv
  <2> SUFFICES ASSUME Init PROVE SendInv
    OBVIOUS
  <2>1. /\ queue = << >> /\ accepted = << >> /\ Len(<< >>) = 0 /\ 1 .. 0 = {}
        /\ Elems(<< >>) = {}
    BY DEF Init, Elems
  <2>2. \A m \in Msgs : Positions[m] = {}
    BY DEF Init, Positions, Pos
  <2>3. QED BY <2>1, <2>2 DEF SendInv, SendOK, QueueIsTail, TakenOnce, NewIsUnsent,
                  LeftIsSent, SentOnce, SentInOrder
<1>2. TypeOK /\ SendInv /\ [Next]_vars => SendInv'
  <2> SUFFICES ASSUME TypeOK, SendInv, [Next]_vars PROVE SendInv'
    OBVIOUS
  <2>1. ASSUME UNCHANGED <<queue, accepted, outcome, lost, ghost>>, Positions' = Positions
        PROVE  SendInv'
    BY <2>1 DEF SendInv
  <2>2. UNCHANGED stream => Positions' = Positions
    BY DEF Positions, Pos
  <2>3. CASE PublisherCrash
    <3>1. /\ queue' = << >> /\ lost' = lost \cup Elems(queue)
          /\ UNCHANGED <<accepted, outcome, ghost, stream>>
      BY <2>3 DEF PublisherCrash
    <3>2. QED BY <2>2, <3>1, SendTyped, SendCrash DEF SendInv
  <2>4. ASSUME NEW a \in ForeignStreams, ForeignEntry(a) PROVE SendInv'
    <3>1. /\ stream' = [stream EXCEPT ![a] = Append(@, Junk)] /\ a \in Agents
          /\ UNCHANGED <<queue, accepted, outcome, lost, ghost>>
      BY <2>4 DEF ForeignEntry, pubVars
    <3>2. Positions' = Positions
      BY <3>1, AppendPositions DEF Entries
    <3>3. QED BY <2>1, <3>1, <3>2
  <2>5. CASE \/ FlushStart \/ FlushDone \/ SetAccessMatrix \/ RedisToggles
             \/ UNCHANGED vars
             \/ \E a \in GroupStreams : EnsureConsumerGroup(a)
             \/ \E c \in Consumers : ConsumerCrash(c)
    <3>1. UNCHANGED <<queue, accepted, outcome, lost, ghost, stream>>
      BY <2>5 DEF FlushStart, FlushDone, SetAccessMatrix, RedisToggles,
         EnsureConsumerGroup, ConsumerCrash, vars, pubVars
    <3>2. QED BY <2>1, <2>2, <3>1
  <2>6. ASSUME NEW c \in Consumers, NEW a \in Agents, Subscribe(c, a) PROVE SendInv'
    <3>1. UNCHANGED <<queue, accepted, outcome, lost, ghost, stream>>
      BY <2>6 DEF Subscribe, SubscribeRead, SubscribeReadLost, SubscribeAck,
         SubscribeSkip, SubscribeAckError, SubscribeReturn, pubVars
    <3>2. QED BY <2>1, <2>2, <3>1
  <2>7. QED BY <2>3, <2>4, <2>5, <2>6, PublishSends, FlushSends DEF Next
<1>3. QED BY <1>1, <1>2, SendInvSuffices, TypeCorrect, PTL DEF Spec

=============================================================================
