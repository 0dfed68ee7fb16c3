-------------------------- MODULE RequestPathProofs --------------------------
(***************************************************************************)
(* Proofs about PicoRouter, and about TaskFlow as MCRequestPath puts it    *)
(* beside the router, for every set of tasks, intents, agent types and     *)
(* instances, every batch size and every bound.                            *)
(***************************************************************************)
EXTENDS MCRequestPath, FiniteSetTheorems, SequenceTheorems, TLAPS

USE RouterAssumption DEF RouterAssumption

-----------------------------------------------------------------------------
(* The entries a read takes and the entries the loop holds *)

\* a read takes the entries right behind the cursor, at most BatchCount
LEMMA FreshIsABlock ==
  ASSUME lastId \in Nat, Len(stream) \in Nat, lastId <= Len(stream), Fresh # {}
  PROVE  /\ Cardinality(Fresh) \in 1 .. BatchCount
         /\ lastId + Cardinality(Fresh) <= Len(stream)
         /\ Fresh = lastId + 1 .. lastId + Cardinality(Fresh)
<1> DEFINE n == IF lastId + BatchCount <= Len(stream) THEN BatchCount
                ELSE Len(stream) - lastId
<1>1. n \in Nat /\ n <= BatchCount /\ lastId + n <= Len(stream)
  OBVIOUS
<1>2. Fresh = lastId + 1 .. lastId + n
  BY <1>1 DEF Fresh
<1>3. n > 0
  BY <1>1, <1>2
<1> HIDE DEF n
<1>4. Cardinality(Fresh) = n
  <2>1. Cardinality(lastId + 1 .. lastId + n)
          = IF lastId + 1 > lastId + n THEN 0 ELSE (lastId + n) - (lastId + 1) + 1
    BY <1>1, FS_Interval
  <2>2. QED BY <1>1, <1>2, <1>3, <2>1
<1>5. QED BY <1>1, <1>2, <1>3, <1>4

\* a batch that ends at the cursor is the block of entries up to it
LEMMA BatchIsABlock ==
  ASSUME NEW l \in Nat, NEW b \in Seq(1 .. l),
         \A k \in DOMAIN b : b[k] = l - Len(b) + k
  PROVE  /\ Len(b) \in Nat /\ Len(b) <= l
         /\ Elems(b) = l - Len(b) + 1 .. l
         /\ b # << >> => Head(b) = l - Len(b) + 1 /\ Len(b) > 0
<1>1. Len(b) \in Nat /\ DOMAIN b = 1 .. Len(b)
  BY LenProperties
<1>2. Len(b) <= l
  <2>1. CASE Len(b) = 0
    BY <2>1
  <2>2. CASE Len(b) > 0
    <3>1. b[1] \in 1 .. l /\ b[1] = l - Len(b) + 1
      BY <1>1, <2>2, ElementOfSeq
    <3>2. QED BY <1>1, <3>1
  <2>3. QED BY <1>1, <2>1, <2>2
<1>3. ASSUME NEW i \in l - Len(b) + 1 .. l PROVE i \in Elems(b)
  <2>1. i - (l - Len(b)) \in DOMAIN b /\ b[i - (l - Len(b))] = i
    BY <1>1, <1>2
  <2>2. QED BY <2>1 DEF Elems
<1>4. ASSUME NEW i \in Elems(b) PROVE i \in l - Len(b) + 1 .. l
  BY <1>1, <1>2, <1>4 DEF Elems
<1>5. b # << >> => Head(b) = l - Len(b) + 1 /\ Len(b) > 0
  BY SMTT(30), <1>1, EmptySeq, HeadTailProperties
<1>6. QED BY <1>1, <1>2, <1>3, <1>4, <1>5

\* taking the head leaves the block that is one shorter
LEMMA TailOfBatch ==
  ASSUME NEW l \in Nat, NEW b \in Seq(1 .. l), b # << >>,
         \A k \in DOMAIN b : b[k] = l - Len(b) + k
  PROVE  /\ Tail(b) \in Seq(1 .. l) /\ Len(Tail(b)) = Len(b) - 1
         /\ \A k \in DOMAIN Tail(b) : Tail(b)[k] = l - Len(Tail(b)) + k
         /\ Elems(Tail(b)) = Elems(b) \ {Head(b)}
<1>1. Tail(b) \in Seq(1 .. l) /\ Len(Tail(b)) = Len(b) - 1 /\ Len(b) \in Nat
      /\ DOMAIN b = 1 .. Len(b) /\ DOMAIN Tail(b) = 1 .. Len(b) - 1
  BY HeadTailProperties, LenProperties
<1>2. ASSUME NEW k \in DOMAIN Tail(b)
      PROVE  Tail(b)[k] = l - Len(Tail(b)) + k
  <2>1. Tail(b)[k] = b[k + 1] /\ k + 1 \in DOMAIN b /\ k \in Nat
    BY <1>1, HeadTailProperties
  <2>2. b[k + 1] = l - Len(b) + (k + 1)
    BY <2>1
  <2>3. QED BY <1>1, <2>1, <2>2
<1>3. /\ Elems(Tail(b)) = l - Len(Tail(b)) + 1 .. l
      /\ Elems(b) = l - Len(b) + 1 .. l /\ Head(b) = l - Len(b) + 1
  BY <1>1, <1>2, BatchIsABlock
<1>4. QED BY <1>1, <1>2, <1>3

-----------------------------------------------------------------------------
(* The inductive invariant: the books, with where the loop stands in its   *)
(* batch, what was delivered, and what a run without faults looks like.    *)

\* RouteTask was called for no entry beyond the one the loop stands at
TriedInOrder == \A i \in tried : i - 1 <= lastId - Len(batch)

\* only what RouteTask was called for was delivered
SentWasTried == \A k \in DOMAIN sent : sent[k].entry \in tried

SentEntries == {sent[k].entry : k \in DOMAIN sent}

\* without a fault the context is live, and Redis is up or nothing was read
NoFaultYet ==
  faults = 0 =>
    /\ ctx # "cancelled"
    /\ ~redisUp => lastId = 0
    /\ pel = Elems(batch) /\ unanswered = {}
    /\ acked \subseteq SentEntries
    /\ stage = "ack" => Head(batch) \in SentEntries

\* while an entry is being sent, its deliveries are among the last as many as
\* the client sent again, all to the target and all without a reply
SentAgain ==
  stage = "send" =>
    \A k \in DOMAIN sent : sent[k].entry = Head(batch) =>
      k \in unanswered /\ sent[k].to = target /\ Len(sent) - k < tries

RouterInv ==
  /\ Books /\ InOrder /\ AgainIfUnanswered /\ SentAgain
  /\ TriedInOrder /\ SentWasTried /\ NoFaultYet

\* what the books say of the batch
LEMMA BooksOfBatch ==
  ASSUME Books
  PROVE  /\ lastId \in Nat /\ Len(stream) \in Nat /\ lastId <= Len(stream)
         /\ Len(batch) \in Nat /\ Len(batch) <= lastId
         /\ Elems(batch) = lastId - Len(batch) + 1 .. lastId
         /\ batch # << >> => Head(batch) = lastId - Len(batch) + 1 /\ Len(batch) > 0
         /\ DOMAIN batch = 1 .. Len(batch)
<1>1. /\ lastId \in Nat /\ Len(stream) \in Nat /\ lastId <= Len(stream)
      /\ batch \in Seq(1 .. lastId)
  BY LenProperties DEF Books, TypeOK
<1>2. QED BY <1>1, BatchIsABlock, LenProperties DEF Books

\* the router starts with nothing read and nothing sent
LEMMA RouterInit == Init => RouterInv
<1> SUFFICES ASSUME Init PROVE RouterInv
  OBVIOUS
<1> USE DEF Init
<1>1. /\ Len(<< >>) = 0 /\ DOMAIN << >> = {} /\ \A S : << >> \in Seq(S)
      /\ Elems(<< >>) = {}
  BY EmptySeq DEF Elems
<1>2. TypeOK
  <2>1. /\ stream \in Seq(Tasks) /\ lastId \in 0 .. Len(stream)
        /\ batch \in Seq(1 .. lastId) /\ Len(batch) <= BatchCount
        /\ sent \in Seq([entry : 1 .. lastId, to : Targets])
    BY <1>1
  <2>2. instances \in [Dests -> Seq(Targets)] /\ picks \in [Dests -> Seq(Targets)]
    BY <1>1
  <2>3. /\ pel \subseteq 1 .. lastId /\ acked \subseteq 1 .. lastId
        /\ tried \subseteq 1 .. lastId /\ unanswered \subseteq DOMAIN sent
        /\ tries \in 0 .. MaxRetries /\ counters \in [Dests -> Nat]
    OBVIOUS
  <2>4. /\ stage \in {"route", "send", "ack"}
        /\ target \in Targets \cup {NoDest} /\ (stage = "send" => target \in Targets)
        /\ ctx \in {"off", "live", "cancelled"}
    OBVIOUS
  <2>5. QED BY <2>1, <2>2, <2>3, <2>4 DEF TypeOK
<1>3. Books
  BY <1>1, <1>2 DEF Books
<1>4. InOrder /\ AgainIfUnanswered /\ SentAgain /\ TriedInOrder /\ SentWasTried
      /\ NoFaultYet
  BY <1>1 DEF InOrder, AgainIfUnanswered, SentAgain, TriedInOrder, SentWasTried,
              NoFaultYet
<1>5. QED BY <1>3, <1>4 DEF RouterInv

\* when the cursor moves forward, what was typed by the old one still is
LEMMA CursorForward ==
  ASSUME NEW l \in Nat, NEW m \in Nat, l <= m
  PROVE  /\ \A b \in Seq(1 .. l) : b \in Seq(1 .. m)
         /\ \A b \in Seq([entry : 1 .. l, to : Targets]) :
              b \in Seq([entry : 1 .. m, to : Targets])
<1>1. 1 .. l \subseteq 1 .. m
  OBVIOUS
<1>2. [entry : 1 .. l, to : Targets] \subseteq [entry : 1 .. m, to : Targets]
  BY <1>1
<1>3. QED BY <1>1, <1>2, SeqMonotonic

\* XREADGROUP moves the cursor over the block and makes it pending
LEMMA BlockTaken ==
  ASSUME RouterInv, TakeBlock
  PROVE  /\ lastId' \in Nat /\ lastId < lastId' /\ lastId' <= Len(stream)
         /\ lastId' - lastId <= BatchCount
         /\ Cardinality(Fresh) = lastId' - lastId
         /\ Fresh = lastId + 1 .. lastId'
         /\ pel' = pel \cup (lastId + 1 .. lastId') /\ acked' = acked
         /\ stream' = stream /\ grouped' = grouped
         /\ pel' \cup acked' = 1 .. lastId' /\ pel' \cap acked' = {}
<1>1. lastId \in Nat /\ Len(stream) \in Nat /\ lastId <= Len(stream)
  BY BooksOfBatch DEF RouterInv
<1>2. pel \subseteq 1 .. lastId /\ acked \subseteq 1 .. lastId
      /\ pel \cup acked = 1 .. lastId /\ pel \cap acked = {}
  BY DEF RouterInv, Books, TypeOK
<1>3. /\ Cardinality(Fresh) \in 1 .. BatchCount
      /\ lastId + Cardinality(Fresh) <= Len(stream)
      /\ Fresh = lastId + 1 .. lastId + Cardinality(Fresh)
  BY <1>1, FreshIsABlock DEF TakeBlock
<1> DEFINE k == Cardinality(Fresh)
<1>4. /\ lastId' = lastId + k /\ pel' = pel \cup Fresh /\ acked' = acked
      /\ stream' = stream /\ grouped' = grouped
  BY DEF TakeBlock
<1>5. k \in Nat /\ k > 0 /\ k <= BatchCount /\ lastId + k <= Len(stream)
      /\ Fresh = lastId + 1 .. lastId + k
  BY <1>3
<1> HIDE DEF k
<1>6. 1 .. lastId + k = 1 .. lastId \cup lastId + 1 .. lastId + k
      /\ (1 .. lastId) \cap (lastId + 1 .. lastId + k) = {}
      /\ (lastId + k) - lastId = k
  BY <1>1, <1>5
<1>7. /\ pel' = pel \cup (lastId + 1 .. lastId')
      /\ pel' \cup acked' = 1 .. lastId' /\ pel' \cap acked' = {}
  <2> DEFINE old == 1 .. lastId
             new == lastId + 1 .. lastId + k
  <2>1. pel' = pel \cup new /\ acked' = acked /\ 1 .. lastId' = old \cup new
        /\ pel \cup acked = old /\ pel \cap acked = {} /\ old \cap new = {}
        /\ new = lastId + 1 .. lastId'
    BY <1>2, <1>4, <1>5, <1>6
  <2> HIDE DEF old, new
  <2>2. QED BY <2>1
<1>8. /\ lastId' \in Nat /\ lastId < lastId' /\ lastId' <= Len(stream)
      /\ lastId' - lastId <= BatchCount /\ k = lastId' - lastId
  BY <1>1, <1>4, <1>5, <1>6
<1>9. QED BY <1>4, <1>5, <1>7, <1>8 DEF k

\* a cursor that moves from a to b
LEMMA CursorMoves ==
  ASSUME NEW a \in Nat, NEW b \in Nat, a < b
  PROVE  /\ b - a \in Nat /\ b - a >= 1 /\ b = a + (b - a)
         /\ \A i \in 1 .. a : i - 1 <= b - 0
OBVIOUS

\* a read takes a block behind the cursor
LEMMA ReadGroupKeeps ==
  ASSUME RouterInv, ReadGroup
  PROVE  RouterInv'
<1>0. /\ batch = << >> /\ Reachable /\ stage = "route"
      /\ batch' = [k \in 1 .. Cardinality(Fresh) |-> lastId + k]
      /\ UNCHANGED <<redisUp, ctx, stage, target, tries, balancerVars, tried, sent,
                     unanswered, faults>>
  BY DEF ReadGroup, RouterInv, Books, TypeOK, sentVars
<1>1. Books
  BY DEF RouterInv
<1>2. /\ lastId' \in Nat /\ lastId < lastId' /\ lastId' <= Len(stream)
      /\ lastId' - lastId <= BatchCount
      /\ Cardinality(Fresh) = lastId' - lastId
      /\ pel' = pel \cup (lastId + 1 .. lastId') /\ acked' = acked
      /\ stream' = stream /\ grouped' = grouped
      /\ pel' \cup acked' = 1 .. lastId' /\ pel' \cap acked' = {}
  BY BlockTaken DEF ReadGroup
<1>3. lastId \in Nat /\ Len(batch) = 0 /\ Elems(batch) = {}
  BY <1>0, <1>1, BooksOfBatch, EmptySeq DEF Elems
<1> DEFINE n == lastId' - lastId
<1>4. n \in Nat /\ n >= 1 /\ n <= BatchCount /\ lastId' = lastId + n
  BY <1>2, <1>3, CursorMoves
<1>5. batch' = [k \in 1 .. n |-> lastId + k]
  BY <1>0, <1>2
<1> HIDE DEF n
<1>6. batch' \in Seq(1 .. lastId') /\ Len(batch') = n
      /\ DOMAIN batch' = 1 .. n
  BY <1>2, <1>3, <1>4, <1>5
<1>7. \A k \in DOMAIN batch' : batch'[k] = lastId' - Len(batch') + k
  BY <1>2, <1>3, <1>4, <1>5, <1>6
<1>8. /\ Elems(batch') = lastId + 1 .. lastId'
      /\ batch' # << >> /\ Head(batch') = lastId + 1
  <2>1. batch' # << >> /\ lastId' - Len(batch') = lastId
    BY <1>2, <1>3, <1>4, <1>6
  <2>2. QED BY ONLY <2>1, <1>2, <1>6, <1>7, BatchIsABlock
<1>9. TypeOK'
  <2>1. sent' \in Seq([entry : 1 .. lastId', to : Targets])
    <3>1. sent \in Seq([entry : 1 .. lastId, to : Targets]) /\ sent' = sent
      BY <1>0, <1>1 DEF Books, TypeOK
    <3>2. lastId \in Nat /\ lastId' \in Nat /\ lastId <= lastId'
      BY <1>2, <1>3
    <3>3. QED BY ONLY <3>1, <3>2, CursorForward
  <2>2. pel' \subseteq 1 .. lastId' /\ acked' \subseteq 1 .. lastId'
    BY <1>2
  <2>3. tried' \subseteq 1 .. lastId'
    BY <1>0, <1>1, <1>2, <1>3 DEF Books, TypeOK
  <2>4. lastId' \in 0 .. Len(stream')
    BY <1>2
  <2>5. QED
    BY <1>0, <1>1, <1>2, <1>4, <1>6, <2>1, <2>2, <2>3, <2>4
       DEF Books, TypeOK, Reachable, balancerVars
<1>10. Books'
  <2>1. acked' \subseteq tried'
    BY <1>0, <1>1, <1>2 DEF Books
  <2>2. Head(batch') \notin tried'
    BY <1>0, <1>1, <1>3, <1>8 DEF Books, TypeOK
  <2>3. Elems(batch)' \subseteq pel'
    BY <1>2, <1>8 DEF Elems
  <2>4. QED BY <1>0, <1>2, <1>7, <1>9, <2>1, <2>2, <2>3 DEF Books
<1>11. InOrder' /\ AgainIfUnanswered' /\ SentAgain' /\ SentWasTried'
  BY <1>0 DEF RouterInv, InOrder, AgainIfUnanswered, SentAgain, SentWasTried
<1>12. TriedInOrder'
  <2>1. tried' \subseteq 1 .. lastId /\ lastId' - Len(batch') = lastId
    BY <1>0, <1>1, <1>2, <1>3, <1>4, <1>6 DEF Books, TypeOK
  <2>2. QED BY <1>3, <2>1 DEF TriedInOrder
<1>13. NoFaultYet'
  <2>1. pel' = Elems(batch)' \/ faults' # 0
    BY <1>0, <1>2, <1>3, <1>8 DEF RouterInv, NoFaultYet, Elems
  <2>2. SentEntries' = SentEntries
    BY <1>0 DEF SentEntries
  <2>3. QED BY <1>0, <1>2, <2>1, <2>2 DEF RouterInv, NoFaultYet, Reachable
<1>14. QED BY <1>10, <1>11, <1>12, <1>13 DEF RouterInv

\* a read whose reply is lost leaves its block pending for ever
LEMMA ReadGroupLostKeeps ==
  ASSUME RouterInv, ReadGroupLost
  PROVE  RouterInv'
<1>0. /\ batch = << >> /\ stage = "route" /\ redisUp' \in BOOLEAN /\ Fault
      /\ UNCHANGED <<ctx, batch, stage, target, tries, balancerVars, tried, sent,
                     unanswered>>
  BY DEF ReadGroupLost, ReplyLost, loopVars, sentVars, RouterInv, Books, TypeOK
<1>1. Books
  BY DEF RouterInv
<1>2. /\ lastId' \in Nat /\ lastId < lastId' /\ lastId' <= Len(stream)
      /\ pel' = pel \cup (lastId + 1 .. lastId') /\ acked' = acked
      /\ stream' = stream /\ grouped' = grouped
      /\ pel' \cup acked' = 1 .. lastId' /\ pel' \cap acked' = {}
  BY BlockTaken DEF ReadGroupLost
<1>3. /\ lastId \in Nat /\ Len(batch) = 0 /\ Elems(batch) = {}
      /\ batch' = << >> /\ DOMAIN batch' = {}
  BY <1>0, <1>1, BooksOfBatch, EmptySeq DEF Elems
<1>4. TypeOK'
  <2>1. sent' \in Seq([entry : 1 .. lastId', to : Targets])
        /\ batch' \in Seq(1 .. lastId')
    <3>1. sent \in Seq([entry : 1 .. lastId, to : Targets]) /\ sent' = sent
      BY <1>0, <1>1 DEF Books, TypeOK
    <3>2. lastId \in Nat /\ lastId' \in Nat /\ lastId <= lastId'
      BY <1>2, <1>3
    <3>3. QED BY ONLY <1>3, <3>1, <3>2, CursorForward, EmptySeq
  <2>2. pel' \subseteq 1 .. lastId' /\ acked' \subseteq 1 .. lastId'
    BY <1>2
  <2>3. tried' \subseteq 1 .. lastId'
    BY <1>0, <1>1, <1>2, <1>3 DEF Books, TypeOK
  <2>4. lastId' \in 0 .. Len(stream')
    BY <1>2
  <2>5. redisUp' \in BOOLEAN
    BY <1>0
  <2>6. faults' \in Nat
    BY <1>0, <1>1 DEF Fault, Books, TypeOK
  <2>7. QED
    BY <1>0, <1>1, <1>2, <1>3, <2>1, <2>2, <2>3, <2>4, <2>5, <2>6
       DEF Books, TypeOK, balancerVars
<1>5. Books'
  <2>1. Elems(batch)' \subseteq pel'
    BY <1>2, <1>3 DEF Elems
  <2>2. QED BY <1>0, <1>1, <1>2, <1>3, <1>4, <2>1 DEF Books
<1>6. InOrder' /\ AgainIfUnanswered' /\ SentAgain' /\ SentWasTried'
  BY <1>0 DEF RouterInv, InOrder, AgainIfUnanswered, SentAgain, SentWasTried
<1>7. TriedInOrder'
  <2>1. tried' \subseteq 1 .. lastId /\ Len(batch') = 0
    BY <1>0, <1>1, <1>3 DEF Books, TypeOK
  <2>2. \A i \in 1 .. lastId : i - 1 <= lastId' - 0
    BY <1>2, <1>3, CursorMoves
  <2>3. QED BY ONLY <2>1, <2>2 DEF TriedInOrder
<1>8. NoFaultYet'
  BY <1>0, <1>1 DEF NoFaultYet, Fault, Books, TypeOK
<1>9. QED BY <1>5, <1>6, <1>7, <1>8 DEF RouterInv

\* a step that moves neither the cursor nor the loop keeps the books
LEMMA BooksFrame ==
  ASSUME RouterInv, TypeOK',
         UNCHANGED <<lastId, pel, acked, loopVars, sentVars>>
  PROVE  /\ Books' /\ InOrder' /\ AgainIfUnanswered' /\ SentAgain'
         /\ TriedInOrder' /\ SentWasTried'
<1>1. Books'
  BY DEF RouterInv, Books, Elems, loopVars, sentVars
<1>2. /\ InOrder' /\ AgainIfUnanswered' /\ SentAgain'
      /\ TriedInOrder' /\ SentWasTried'
  BY DEF RouterInv, InOrder, AgainIfUnanswered, SentAgain, TriedInOrder,
         SentWasTried, loopVars, sentVars
<1>3. QED BY <1>1, <1>2

\* appending to tasks:router keeps the cursor within it
LEMMA StreamForward ==
  ASSUME NEW s \in Seq(Tasks), NEW t \in Tasks, NEW l \in 0 .. Len(s)
  PROVE  Append(s, t) \in Seq(Tasks) /\ l \in 0 .. Len(Append(s, t))
<1>1. Append(s, t) \in Seq(Tasks) /\ Len(Append(s, t)) = Len(s) + 1 /\ Len(s) \in Nat
  BY AppendProperties, LenProperties
<1>2. QED BY <1>1

\* a pick of the balancer
LEMMA PickTyped ==
  ASSUME TypeOK, NEW d \in Dests, NEW to \in Targets, NextInstance(d, to)
  PROVE  /\ instances' = instances
         /\ counters' \in [Dests -> Nat]
         /\ picks' \in [Dests -> Seq(Targets)]
<1>1. instances' = instances
  BY DEF NextInstance, balancerVars
<1>2. counters' \in [Dests -> Nat]
  <2>1. counters' = counters \/ counters' = [counters EXCEPT ![d] = @ + 1]
    BY DEF NextInstance, balancerVars
  <2>2. counters \in [Dests -> Nat]
    BY DEF TypeOK
  <2>3. QED BY <2>1, <2>2
<1>3. picks' \in [Dests -> Seq(Targets)]
  <2>1. picks[d] \in Seq(Targets) /\ picks \in [Dests -> Seq(Targets)]
    BY DEF TypeOK
  <2>2. Append(picks[d], to) \in Seq(Targets)
    BY <2>1, AppendProperties
  <2>3. picks' = picks \/ picks' = [picks EXCEPT ![d] = Append(@, to)]
    BY DEF NextInstance, balancerVars
  <2>4. QED BY <2>1, <2>2, <2>3
<1>4. QED BY <1>1, <1>2, <1>3

\* the task RouteTask looks at, and what it chooses for it
LEMMA ChosenIsADest ==
  ASSUME Books, batch # << >>, NEW intent \in Classified[stream[Head(batch)]]
  PROVE  /\ Head(batch) \in 1 .. lastId /\ Head(batch) \in 1 .. Len(stream)
         /\ stream[Head(batch)] \in Tasks
         /\ Chosen(stream[Head(batch)], intent) \in Dests
<1>1. Head(batch) \in 1 .. lastId /\ Head(batch) \in 1 .. Len(stream)
  BY BooksOfBatch
<1>2. stream[Head(batch)] \in Tasks
  BY <1>1, ElementOfSeq DEF Books, TypeOK
<1>3. intent \in Intents
  BY <1>2
<1>4. QED BY <1>1, <1>2, <1>3 DEF Chosen

\* RouteTask chooses where the entry goes; nothing of it was sent yet
LEMMA RouteTaskKeeps ==
  ASSUME RouterInv, RouteTask
  PROVE  RouterInv'
<1> DEFINE i == Head(batch)
           t == stream[i]
<1>0. /\ batch # << >> /\ stage = "route" /\ stage' = "send"
      /\ tried' = tried \cup {i}
      /\ UNCHANGED <<redisUp, stream, grouped, lastId, pel, acked, ctx, batch, tries,
                     sent, unanswered, faults>>
  BY DEF RouteTask, redisVars
<1>1. PICK intent \in Classified[t], to \in Targets :
        NextInstance(Chosen(t, intent), to) /\ target' = to
  BY DEF RouteTask
<1>2. Books /\ TypeOK
  BY DEF RouterInv, Books
<1>3. /\ i \in 1 .. lastId /\ t \in Tasks /\ Chosen(t, intent) \in Dests
  BY <1>0, <1>1, <1>2, ChosenIsADest
<1> HIDE DEF i, t
<1>4. /\ lastId \in Nat /\ Len(batch) \in Nat /\ Len(batch) <= lastId
      /\ Len(batch) > 0 /\ i = lastId - Len(batch) + 1
  BY <1>0, <1>2, BooksOfBatch DEF i
<1>5. i \notin tried
  BY <1>0, <1>2 DEF Books, i
<1>6. \A j \in tried : j \in Nat /\ j - 1 <= lastId - Len(batch)
  BY <1>2 DEF RouterInv, TriedInOrder, TypeOK
<1>7. TypeOK'
  <2>1. instances' = instances /\ counters' \in [Dests -> Nat]
        /\ picks' \in [Dests -> Seq(Targets)]
    BY <1>1, <1>2, <1>3, PickTyped
  <2>2. tried' \subseteq 1 .. lastId'
    BY <1>0, <1>2, <1>3 DEF TypeOK
  <2>3. /\ stage' \in {"route", "send", "ack"}
        /\ target' \in Targets \cup {NoDest} /\ (stage' = "send" => target' \in Targets)
        /\ (batch' = << >> => stage' = "route")
    BY <1>0, <1>1
  <2>4. QED
    BY <1>0, <1>2, <2>1, <2>2, <2>3 DEF TypeOK
<1>8. Books'
  <2>1. Head(batch) \in tried'
    BY <1>0 DEF i
  <2>2. acked' \subseteq tried'
    BY <1>0, <1>2 DEF Books
  <2>3. QED BY <1>0, <1>2, <1>7, <2>1, <2>2 DEF Books, Elems
<1>9. SentWasTried' /\ InOrder' /\ AgainIfUnanswered'
  BY <1>0 DEF RouterInv, SentWasTried, InOrder, AgainIfUnanswered
<1>10. SentAgain'
  <2>1. \A k \in DOMAIN sent : sent[k].entry # i
    BY <1>5 DEF RouterInv, SentWasTried
  <2>2. QED BY <1>0, <2>1 DEF SentAgain, i
<1>11. TriedInOrder'
  <2>1. \A j \in tried' : j - 1 <= lastId - Len(batch)
    BY <1>0, <1>4, <1>6
  <2>2. QED BY <1>0, <2>1 DEF TriedInOrder
<1>12. NoFaultYet'
  BY <1>0 DEF RouterInv, NoFaultYet, SentEntries, Elems
<1>13. QED BY <1>7, <1>8, <1>9, <1>10, <1>11, <1>12 DEF RouterInv

\* the entries delivered so far are not behind the one the loop stands at
LEMMA SentUpTo ==
  ASSUME RouterInv, batch # << >>
  PROVE  /\ Head(batch) \in 1 .. lastId
         /\ \A k \in DOMAIN sent : sent[k].entry \in Nat /\ sent[k].entry <= Head(batch)
<1>1. Books /\ TypeOK
  BY DEF RouterInv, Books
<1>2. /\ lastId \in Nat /\ Len(batch) \in Nat /\ Len(batch) <= lastId
      /\ Len(batch) > 0 /\ Head(batch) = lastId - Len(batch) + 1
  BY <1>1, BooksOfBatch
<1>3. \A j \in tried : j \in Nat /\ j - 1 <= lastId - Len(batch)
  BY <1>1 DEF RouterInv, TriedInOrder, TypeOK
<1>4. \A j \in tried : j \in Nat /\ j <= Head(batch)
  BY <1>2, <1>3
<1>5. QED BY <1>2, <1>4 DEF RouterInv, SentWasTried

\* the history of deliveries when one more is added
LEMMA SentOneMore ==
  ASSUME RouterInv, batch # << >>, stage = "send", NEW e,
         e = [entry |-> Head(batch), to |-> target]
  PROVE  /\ Append(sent, e) \in Seq([entry : 1 .. lastId, to : Targets])
         /\ Len(Append(sent, e)) = Len(sent) + 1 /\ Len(sent) \in Nat
         /\ \A k \in 1 .. Len(sent) : Append(sent, e)[k] = sent[k]
         /\ Append(sent, e)[Len(sent) + 1] = e
         /\ DOMAIN Append(sent, e) = 1 .. Len(sent) + 1
         /\ DOMAIN sent = 1 .. Len(sent)
<1>1. sent \in Seq([entry : 1 .. lastId, to : Targets]) /\ target \in Targets
  BY DEF RouterInv, Books, TypeOK
<1>2. e \in [entry : 1 .. lastId, to : Targets]
  BY <1>1, SentUpTo
<1>3. QED BY ONLY <1>1, <1>2, AppendProperties, LenProperties

\* what one XADD more does to the order and the repetitions
LEMMA XAddKeeps ==
  ASSUME RouterInv, batch # << >>, stage = "send", XAdd
  PROVE  /\ sent' \in Seq([entry : 1 .. lastId, to : Targets])
         /\ Len(sent') = Len(sent) + 1 /\ Len(sent) \in Nat
         /\ DOMAIN sent = 1 .. Len(sent) /\ DOMAIN sent' = 1 .. Len(sent) + 1
         /\ \A k \in 1 .. Len(sent) : sent'[k] = sent[k]
         /\ sent'[Len(sent) + 1] = [entry |-> Head(batch), to |-> target]
         /\ InOrder'
         /\ unanswered \subseteq unanswered' => AgainIfUnanswered'
<1> DEFINE e == [entry |-> Head(batch), to |-> target]
           i == Head(batch)
           n == Len(sent)
<1>1. /\ sent' = Append(sent, e) /\ e.entry = i /\ e.to = target
  BY DEF XAdd
<1>2. /\ sent' \in Seq([entry : 1 .. lastId, to : Targets])
      /\ Len(sent') = n + 1 /\ n \in Nat
      /\ \A k \in 1 .. n : sent'[k] = sent[k]
      /\ sent'[n + 1] = e
      /\ DOMAIN sent' = 1 .. n + 1 /\ DOMAIN sent = 1 .. n
  <2>1. /\ Append(sent, e) \in Seq([entry : 1 .. lastId, to : Targets])
        /\ Len(Append(sent, e)) = Len(sent) + 1 /\ Len(sent) \in Nat
        /\ \A k \in 1 .. Len(sent) : Append(sent, e)[k] = sent[k]
        /\ Append(sent, e)[Len(sent) + 1] = e
        /\ DOMAIN Append(sent, e) = 1 .. Len(sent) + 1
        /\ DOMAIN sent = 1 .. Len(sent)
    BY SentOneMore
  <2>2. sent' = Append(sent, e)
    BY <1>1
  <2> HIDE DEF e
  <2>3. QED BY ONLY <2>1, <2>2
<1>3. /\ i \in Nat
      /\ \A k \in 1 .. n : sent[k].entry \in Nat /\ sent[k].entry <= i
  <2>1. /\ i \in 1 .. lastId
        /\ \A k \in DOMAIN sent : sent[k].entry \in Nat /\ sent[k].entry <= i
    BY SentUpTo
  <2>2. lastId \in Nat
    BY BooksOfBatch DEF RouterInv
  <2>3. QED BY ONLY <1>2, <2>1, <2>2
<1>4. /\ \A k \in 1 .. n : sent[k].entry = i =>
           k \in unanswered /\ sent[k].to = target /\ n - k < tries
      /\ tries \in 0 .. MaxRetries
  BY <1>2 DEF RouterInv, SentAgain, Books, TypeOK
<1>5. InOrder /\ AgainIfUnanswered
  BY DEF RouterInv
<1> HIDE DEF n, i, e
<1>6. ASSUME NEW j \in 1 .. n + 1, NEW k \in 1 .. n + 1, j < k
      PROVE  /\ j \in 1 .. n
             /\ \/ k \in 1 .. n
                \/ k = n + 1
  BY <1>2, <1>6
<1>7. InOrder'
  <2>1. ASSUME NEW j \in 1 .. n + 1, NEW k \in 1 .. n + 1, j < k
        PROVE  sent'[j].entry <= sent'[k].entry
    <3>1. j \in 1 .. n /\ sent'[j] = sent[j]
      BY <1>2, <1>6, <2>1
    <3>2. CASE k = n + 1
      BY <1>1, <1>2, <1>3, <3>1, <3>2
    <3>3. CASE k \in 1 .. n
      BY <1>2, <1>5, <2>1, <3>1, <3>3 DEF InOrder
    <3>4. QED BY <1>6, <2>1, <3>2, <3>3
  <2>2. QED BY <1>2, <2>1 DEF InOrder
<1>8. ASSUME unanswered \subseteq unanswered' PROVE AgainIfUnanswered'
  <2>1. ASSUME NEW j \in 1 .. n + 1, NEW k \in 1 .. n + 1, j < k,
               sent'[j].entry = sent'[k].entry
        PROVE  /\ j \in unanswered' /\ sent'[j].to = sent'[k].to
               /\ k - j <= MaxRetries
    <3>1. j \in 1 .. n /\ sent'[j] = sent[j]
      BY <1>2, <1>6, <2>1
    <3>2. CASE k = n + 1
      <4>1. sent[j].entry = i /\ sent'[k].to = target
        BY <1>1, <1>2, <2>1, <3>1, <3>2
      <4>2. j \in unanswered /\ sent[j].to = target /\ n - j < tries
        BY <1>4, <3>1, <4>1
      <4>3. k - j <= MaxRetries
        BY <1>2, <1>4, <3>1, <3>2, <4>2
      <4>4. QED BY <1>8, <3>1, <4>1, <4>2, <4>3
    <3>3. CASE k \in 1 .. n
      <4>1. /\ j \in unanswered /\ sent[j].to = sent[k].to /\ k - j <= MaxRetries
        BY <1>2, <1>5, <2>1, <3>1, <3>3 DEF AgainIfUnanswered
      <4>2. QED BY <1>2, <1>8, <3>1, <3>3, <4>1
    <3>4. QED BY <1>6, <2>1, <3>2, <3>3
  <2>2. QED BY <1>2, <2>1 DEF AgainIfUnanswered
<1>9. QED BY <1>2, <1>7, <1>8 DEF n, e

\* a delivery: its XADD is answered, unanswered, or does not arrive
LEMMA DeliverKeeps ==
  ASSUME RouterInv, Deliver
  PROVE  RouterInv'
<1> DEFINE i == Head(batch)
           n == Len(sent)
<1>0. /\ batch # << >> /\ stage = "send"
      /\ UNCHANGED <<grouped, lastId, pel, acked, ctx, batch, balancerVars, tried>>
  BY DEF Deliver
<1>1. \/ XAdd /\ Returns /\ UNCHANGED <<unanswered, redisUp, faults>>
      \/ /\ XAdd /\ ReplyLost /\ SendsAgain
         /\ unanswered' = unanswered \cup {n + 1}
      \/ ~redisUp /\ ctx = "live" /\ SendsAgain /\ NotSent
      \/ ctx # "live" /\ Returns /\ NotSent
  BY DEF Deliver
<1>2. Books /\ TypeOK
  BY DEF RouterInv, Books
<1>3. /\ i \in 1 .. lastId
      /\ \A k \in DOMAIN sent : sent[k].entry \in Nat /\ sent[k].entry <= i
  BY <1>0, SentUpTo
<1>4. /\ sent \in Seq([entry : 1 .. lastId, to : Targets])
      /\ n \in Nat /\ DOMAIN sent = 1 .. n
      /\ unanswered \subseteq 1 .. n
      /\ tries \in 0 .. MaxRetries /\ target \in Targets
      /\ lastId \in Nat /\ stream \in Seq(Tasks) /\ lastId \in 0 .. Len(stream)
      /\ i \in tried /\ stream[i] \in Tasks
  <2>1. /\ sent \in Seq([entry : 1 .. lastId, to : Targets])
        /\ unanswered \subseteq DOMAIN sent
        /\ tries \in 0 .. MaxRetries /\ target \in Targets
        /\ stream \in Seq(Tasks) /\ lastId \in 0 .. Len(stream)
        /\ i \in tried
    BY <1>0, <1>2 DEF TypeOK, Books
  <2>2. n \in Nat /\ DOMAIN sent = 1 .. n
    BY <2>1, LenProperties
  <2>3. Len(stream) \in Nat
    BY <2>1, LenProperties
  <2>4. lastId \in Nat
    BY <2>1, <2>3
  <2>5. i \in 1 .. Len(stream)
    BY <1>3, <2>1, <2>3
  <2>6. stream[i] \in Tasks
    BY <2>1, <2>5, ElementOfSeq
  <2>7. QED BY <2>1, <2>2, <2>4, <2>6
<1>5. /\ \/ stage' = "ack" /\ target' = NoDest /\ tries' = 0
         \/ /\ stage' = "send" /\ target' = target /\ tries' = tries + 1
            /\ tries < MaxRetries
      /\ stage' = "send" => \/ XAdd /\ unanswered' = unanswered \cup {n + 1}
                            \/ NotSent
  BY <1>0, <1>1 DEF Returns, SendsAgain
<1>6. \/ XAdd /\ unanswered \subseteq unanswered' /\ unanswered' \subseteq 1 .. n + 1
      \/ NotSent
  <2>1. unanswered \subseteq 1 .. n + 1 /\ n + 1 \in 1 .. n + 1
    BY ONLY <1>4
  <2>2. QED BY ONLY <1>1, <2>1
<1>7. /\ sent' \in Seq([entry : 1 .. lastId, to : Targets])
      /\ unanswered' \subseteq DOMAIN sent'
      /\ InOrder' /\ AgainIfUnanswered'
  <2>1. CASE XAdd /\ unanswered \subseteq unanswered' /\ unanswered' \subseteq 1 .. n + 1
    BY <1>0, <1>4, <2>1, XAddKeeps
  <2>2. CASE NotSent
    BY <1>4, <2>2 DEF NotSent, RouterInv, InOrder, AgainIfUnanswered
  <2>3. QED BY <1>6, <2>1, <2>2
<1>8. TypeOK'
  <2>1. stream' \in Seq(Tasks) /\ lastId' \in 0 .. Len(stream')
    <3>1. stream' = stream \/ stream' = Append(stream, stream[i])
      BY <1>6 DEF XAdd, NotSent
    <3>2. /\ Append(stream, stream[i]) \in Seq(Tasks)
          /\ lastId \in 0 .. Len(Append(stream, stream[i]))
      BY ONLY <1>4, StreamForward
    <3>3. QED BY ONLY <1>0, <1>4, <3>1, <3>2
  <2>2. redisUp' \in BOOLEAN /\ faults' \in Nat
    <3>1. faults \in Nat /\ redisUp \in BOOLEAN
      BY <1>2 DEF TypeOK
    <3>2. QED BY <1>1, <3>1 DEF ReplyLost, Fault, NotSent
  <2>3. /\ stage' \in {"route", "send", "ack"}
        /\ target' \in Targets \cup {NoDest} /\ (stage' = "send" => target' \in Targets)
        /\ tries' \in 0 .. MaxRetries /\ (batch' = << >> => stage' = "route")
    BY <1>0, <1>4, <1>5
  <2>4. QED
    BY <1>0, <1>2, <1>7, <2>1, <2>2, <2>3 DEF TypeOK, balancerVars
<1>9. Books'
  <2>1. batch' # << >> => (Head(batch') \in tried' <=> stage' # "route")
    BY <1>0, <1>4, <1>5
  <2>2. QED BY <1>0, <1>2, <1>8, <2>1 DEF Books, Elems
<1>10. SentWasTried'
  <2>1. \A k \in 1 .. n : sent[k].entry \in tried'
    BY <1>0, <1>4 DEF RouterInv, SentWasTried
  <2>2. CASE XAdd
    <3>1. /\ DOMAIN sent' = 1 .. n + 1 /\ \A k \in 1 .. n : sent'[k] = sent[k]
          /\ sent'[n + 1].entry = i
      BY <1>0, <2>2, XAddKeeps
    <3>2. \A k \in 1 .. n + 1 : k \in 1 .. n \/ k = n + 1
      BY <1>4
    <3>3. QED BY ONLY <1>0, <1>4, <2>1, <3>1, <3>2 DEF SentWasTried
  <2>3. CASE NotSent
    BY <1>4, <2>1, <2>3 DEF SentWasTried, NotSent
  <2>4. QED BY <1>6, <2>2, <2>3
<1>11. SentAgain'
  <2> SUFFICES ASSUME stage' = "send" PROVE SentAgain'
    BY DEF SentAgain
  <2>1. target' = target /\ tries' = tries + 1
    BY <1>5
  <2>2. \A k \in 1 .. n : sent[k].entry = i =>
          k \in unanswered /\ sent[k].to = target /\ n - k < tries
    BY <1>0, <1>4 DEF RouterInv, SentAgain
  <2>3. CASE XAdd /\ unanswered' = unanswered \cup {n + 1}
    <3>1. /\ Len(sent') = n + 1 /\ DOMAIN sent' = 1 .. n + 1
          /\ \A k \in 1 .. n : sent'[k] = sent[k]
          /\ sent'[n + 1].to = target
      BY <1>0, <2>3, XAddKeeps
    <3>2. ASSUME NEW k \in 1 .. n + 1, sent'[k].entry = i
          PROVE  k \in unanswered' /\ sent'[k].to = target' /\ Len(sent') - k < tries'
      <4>1. CASE k = n + 1
        BY <1>4, <2>1, <2>3, <3>1, <4>1
      <4>2. CASE k # n + 1
        <5>1. k \in 1 .. n /\ sent'[k] = sent[k]
          BY <1>4, <3>1, <4>2
        <5>2. k \in unanswered /\ sent[k].to = target /\ n - k < tries
          BY <2>2, <3>2, <5>1
        <5>3. Len(sent') - k < tries'
          BY <1>4, <2>1, <3>1, <5>1, <5>2
        <5>4. QED BY <2>1, <2>3, <5>1, <5>2, <5>3
      <4>3. QED BY <4>1, <4>2
    <3>3. QED BY <1>0, <3>1, <3>2 DEF SentAgain
  <2>4. CASE NotSent
    <3>1. ASSUME NEW k \in 1 .. n, sent[k].entry = i
          PROVE  k \in unanswered /\ sent[k].to = target' /\ n - k < tries'
      <4>1. k \in unanswered /\ sent[k].to = target /\ n - k < tries
        BY ONLY <2>2, <3>1
      <4>2. n - k < tries'
        BY ONLY <1>4, <2>1, <4>1
      <4>3. QED BY ONLY <2>1, <4>1, <4>2
    <3>2. sent' = sent /\ unanswered' = unanswered
      BY <2>4 DEF NotSent
    <3>3. QED BY <1>0, <1>4, <3>1, <3>2 DEF SentAgain
  <2>5. QED BY <1>5, <2>3, <2>4
<1>12. TriedInOrder'
  BY <1>0 DEF RouterInv, TriedInOrder
<1>13. NoFaultYet'
  <2> SUFFICES ASSUME faults' = 0 PROVE NoFaultYet'
    BY DEF NoFaultYet
  <2>1. faults = 0 /\ ~ReplyLost
    BY <1>1, <1>2 DEF ReplyLost, Fault, NotSent, TypeOK
  <2>2. ctx = "live" /\ redisUp
    <3>1. ctx = "live"
      BY <1>0, <1>2, <2>1 DEF RouterInv, NoFaultYet, TypeOK
    <3>2. redisUp
      BY <1>3, <1>4, <2>1 DEF RouterInv, NoFaultYet
    <3>3. QED BY <3>1, <3>2
  <2>3. XAdd /\ stage' = "ack" /\ UNCHANGED <<unanswered, redisUp>>
    BY <1>1, <2>1, <2>2 DEF Returns
  <2>4. SentEntries' = SentEntries \cup {i}
    <3>1. /\ DOMAIN sent' = 1 .. n + 1 /\ \A k \in 1 .. n : sent'[k] = sent[k]
          /\ sent'[n + 1].entry = i
      BY <1>0, <2>3, XAddKeeps
    <3>2. DOMAIN sent = 1 .. n /\ 1 .. n + 1 = (1 .. n) \cup {n + 1}
      BY ONLY <1>4
    <3>3. QED BY ONLY <3>1, <3>2 DEF SentEntries
  <2>5. pel' = Elems(batch)' /\ unanswered' = {} /\ acked' \subseteq SentEntries'
    BY <1>0, <2>1, <2>3, <2>4 DEF RouterInv, NoFaultYet, Elems
  <2>6. Head(batch') \in SentEntries'
    BY <1>0, <2>4
  <2>7. QED BY <1>0, <2>1, <2>2, <2>3, <2>5, <2>6 DEF NoFaultYet
<1>14. QED
  BY <1>7, <1>9, <1>10, <1>11, <1>12, <1>13 DEF RouterInv

\* an acknowledgement moves on to the next entry of the batch
LEMMA AckKeeps ==
  ASSUME RouterInv, Ack
  PROVE  RouterInv'
<1>0. /\ batch # << >> /\ stage = "ack" /\ stage' = "route"
      /\ batch' = Tail(batch)
      /\ UNCHANGED <<redisUp, stream, grouped, lastId, ctx, target, tries,
                     balancerVars, tried, sent, unanswered, faults>>
  BY DEF Ack, sentVars
<1>1. \/ Reachable /\ pel' = pel \ {Head(batch)} /\ acked' = acked \cup {Head(batch)}
      \/ ~Reachable /\ pel' = pel /\ acked' = acked
  BY DEF Ack, XAck
<1>2. Books /\ TypeOK
  BY DEF RouterInv, Books
<1>3. /\ lastId \in Nat /\ Len(batch) \in Nat /\ Len(batch) <= lastId
      /\ Len(batch) > 0 /\ Head(batch) = lastId - Len(batch) + 1
      /\ Elems(batch) = lastId - Len(batch) + 1 .. lastId
  BY <1>0, <1>2, BooksOfBatch
<1>4. /\ batch' \in Seq(1 .. lastId) /\ Len(batch') = Len(batch) - 1
      /\ \A k \in DOMAIN batch' : batch'[k] = lastId - Len(batch') + k
      /\ Elems(batch)' = Elems(batch) \ {Head(batch)}
  <2>1. batch \in Seq(1 .. lastId)
        /\ \A k \in DOMAIN batch : batch[k] = lastId - Len(batch) + k
    BY <1>2 DEF Books, TypeOK
  <2>2. Elems(batch') = Elems(batch)'
    BY DEF Elems
  <2>3. /\ Tail(batch) \in Seq(1 .. lastId) /\ Len(Tail(batch)) = Len(batch) - 1
        /\ \A k \in DOMAIN Tail(batch) :
             Tail(batch)[k] = lastId - Len(Tail(batch)) + k
        /\ Elems(Tail(batch)) = Elems(batch) \ {Head(batch)}
    BY ONLY <1>0, <1>3, <2>1, TailOfBatch
  <2>4. QED BY ONLY <1>0, <2>2, <2>3
<1>5. Head(batch) \in pel /\ Head(batch) \in tried
  <2>1. Head(batch) \in Elems(batch)
    BY <1>3
  <2>2. QED BY <1>0, <1>2, <2>1 DEF Books
<1>6. /\ pel' \subseteq 1 .. lastId /\ acked' \subseteq 1 .. lastId
      /\ pel' \cup acked' = 1 .. lastId /\ pel' \cap acked' = {}
      /\ acked' \subseteq tried /\ Elems(batch)' \subseteq pel'
  <2>1. /\ pel \subseteq 1 .. lastId /\ acked \subseteq 1 .. lastId
        /\ pel \cup acked = 1 .. lastId /\ pel \cap acked = {}
        /\ acked \subseteq tried /\ Elems(batch) \subseteq pel
    BY <1>2 DEF Books, TypeOK
  <2>2. Elems(batch)' = Elems(batch) \ {Head(batch)}
    BY <1>4
  <2>3. QED BY ONLY <1>1, <1>5, <2>1, <2>2
<1>7. TypeOK'
  <2>1. Len(batch') <= BatchCount
    BY <1>2, <1>3, <1>4 DEF TypeOK
  <2>2. ctx' = "off" => batch' = << >>
    BY <1>0, <1>2 DEF TypeOK
  <2>3. QED BY <1>0, <1>2, <1>4, <1>6, <2>1, <2>2 DEF TypeOK, balancerVars
<1>8. ASSUME batch' # << >> PROVE Head(batch') \notin tried
  <2>1. Head(batch') = lastId - Len(batch') + 1
    BY <1>3, <1>4, <1>8, BatchIsABlock
  <2>2. Head(batch') \in Nat /\ Head(batch') - 1 > lastId - Len(batch)
    BY <1>3, <1>4, <2>1
  <2>3. QED BY <1>3, <2>2 DEF RouterInv, TriedInOrder
<1>9. Books'
  BY <1>0, <1>4, <1>6, <1>7, <1>8 DEF Books
<1>10. InOrder' /\ AgainIfUnanswered' /\ SentAgain' /\ SentWasTried'
  BY <1>0 DEF RouterInv, InOrder, AgainIfUnanswered, SentAgain, SentWasTried
<1>11. TriedInOrder'
  <2>1. lastId' - Len(batch') \in Int /\ lastId - Len(batch) <= lastId' - Len(batch')
    BY <1>0, <1>3, <1>4
  <2>2. \A j \in tried : j \in Nat /\ j - 1 <= lastId - Len(batch)
    BY <1>2 DEF RouterInv, TriedInOrder, TypeOK
  <2>3. lastId - Len(batch) \in Int
    BY <1>3
  <2>4. QED BY <1>0, <2>1, <2>2, <2>3 DEF TriedInOrder
<1>12. NoFaultYet'
  <2> SUFFICES ASSUME faults' = 0 PROVE NoFaultYet'
    BY DEF NoFaultYet
  <2>1. faults = 0
    BY <1>0
  <2>2. Reachable
    <3>1. ctx = "live"
      BY <1>0, <1>2, <2>1 DEF RouterInv, NoFaultYet, TypeOK
    <3>2. redisUp
      BY <1>3, <2>1 DEF RouterInv, NoFaultYet
    <3>3. QED BY <3>1, <3>2 DEF Reachable
  <2>3. pel' = Elems(batch)' /\ unanswered' = {}
    BY <1>0, <1>1, <1>4, <2>1, <2>2 DEF RouterInv, NoFaultYet
  <2>4. SentEntries' = SentEntries
    BY <1>0 DEF SentEntries
  <2>5. acked' \subseteq SentEntries'
    BY <1>0, <1>1, <2>1, <2>2, <2>4 DEF RouterInv, NoFaultYet
  <2>6. QED BY <1>0, <2>1, <2>2, <2>3, <2>5 DEF NoFaultYet, Reachable
<1>13. QED BY <1>9, <1>10, <1>11, <1>12 DEF RouterInv

\* the loop is idle in a process that is off, and starts idle
LEMMA ExitKeeps ==
  ASSUME RouterInv, Exit, faults' \in Nat \ {0}
  PROVE  RouterInv'
<1>1. Books /\ TypeOK
  BY DEF RouterInv, Books
<1>2. /\ lastId \in Nat /\ Len(batch) \in Nat /\ Len(batch) <= lastId
  BY <1>1, BooksOfBatch
<1>3. /\ batch' = << >> /\ stage' = "route" /\ ctx' = "off"
      /\ target' = NoDest /\ tries' = 0
      /\ Len(batch') = 0 /\ DOMAIN batch' = {} /\ Elems(batch)' = {}
      /\ \A S : << >> \in Seq(S)
  BY EmptySeq DEF Exit, Elems
<1>4. UNCHANGED <<redisUp, stream, grouped, lastId, pel, acked, tried, sent,
                  unanswered>>
  BY DEF Exit, redisVars, sentVars
<1>5. TypeOK'
  <2>1. instances' \in [Dests -> Seq(Targets)] /\ picks' \in [Dests -> Seq(Targets)]
        /\ counters' \in [Dests -> Nat]
    BY <1>3 DEF Exit
  <2>2. batch' \in Seq(1 .. lastId') /\ Len(batch') <= BatchCount
    BY <1>3
  <2>3. /\ stage' \in {"route", "send", "ack"}
        /\ target' \in Targets \cup {NoDest} /\ (stage' = "send" => target' \in Targets)
        /\ tries' \in 0 .. MaxRetries /\ (batch' = << >> => stage' = "route")
    BY <1>3
  <2>4. QED BY <1>1, <1>3, <1>4, <2>1, <2>2, <2>3 DEF TypeOK
<1>6. Books'
  BY <1>1, <1>3, <1>4, <1>5 DEF Books
<1>7. InOrder' /\ AgainIfUnanswered' /\ SentAgain' /\ SentWasTried' /\ NoFaultYet'
  BY <1>3, <1>4
     DEF RouterInv, InOrder, AgainIfUnanswered, SentAgain, SentWasTried, NoFaultYet
<1>8. TriedInOrder'
  <2>1. \A j \in tried : j \in Nat /\ j <= lastId
    <3>1. tried \subseteq 1 .. lastId
      BY <1>1 DEF TypeOK
    <3>2. QED BY ONLY <1>2, <3>1
  <2>2. lastId' - Len(batch') = lastId
    BY <1>2, <1>3, <1>4
  <2>3. QED BY <1>2, <1>4, <2>1, <2>2 DEF TriedInOrder
<1>9. QED BY <1>6, <1>7, <1>8 DEF RouterInv

\* no step of the router breaks its invariant
LEMMA RouterStepKeeps == RouterInv /\ [Next]_vars => RouterInv'
<1> SUFFICES ASSUME RouterInv, [Next]_vars PROVE RouterInv'
  OBVIOUS
<1>1. TypeOK /\ NoFaultYet
  BY DEF RouterInv, Books
<1>2. ASSUME TypeOK', NoFaultYet',
             UNCHANGED <<lastId, pel, acked, loopVars, sentVars>>
      PROVE  RouterInv'
  BY <1>2, BooksFrame DEF RouterInv
<1>3. CASE Start
  <2>1. TypeOK'
    BY <1>1, <1>3 DEF Start, TypeOK, loopVars, sentVars, balancerVars
  <2>2. NoFaultYet'
    BY <1>1, <1>3 DEF Start, NoFaultYet, SentEntries, Elems, loopVars, sentVars
  <2>3. QED BY <1>2, <1>3, <2>1, <2>2 DEF Start
<1>4. CASE Stop
  <2>1. faults' \in Nat /\ faults' # 0
    BY <1>1, <1>4 DEF Stop, Fault, TypeOK
  <2>2. TypeOK'
    BY <1>1, <1>4, <2>1 DEF Stop, TypeOK, loopVars, sentVars, balancerVars, redisVars
  <2>3. NoFaultYet'
    BY <2>1 DEF NoFaultYet
  <2>4. QED BY <1>2, <1>4, <2>2, <2>3 DEF Stop, redisVars
<1>5. CASE Stopped
  <2>1. faults' \in Nat \ {0}
    BY <1>1, <1>5 DEF Stopped, NoFaultYet, TypeOK
  <2>2. QED BY <1>5, <2>1, ExitKeeps DEF Stopped
<1>6. CASE Crash
  <2>1. faults' \in Nat \ {0}
    BY <1>1, <1>6 DEF Crash, Fault, TypeOK
  <2>2. QED BY <1>6, <2>1, ExitKeeps DEF Crash
<1>7. ASSUME NEW d \in Dests, RegisterInstance(d) PROVE RouterInv'
  <2>1. PICK id \in InstanceIds[d] : instances' = [instances EXCEPT ![d] = Append(@, id)]
    BY <1>7 DEF RegisterInstance
  <2>2. id \in Targets
    BY <2>1 DEF Targets
  <2>3. instances \in [Dests -> Seq(Targets)] /\ instances[d] \in Seq(Targets)
        /\ picks \in [Dests -> Seq(Targets)]
    BY <1>1 DEF TypeOK
  <2>4. Append(instances[d], id) \in Seq(Targets) /\ << >> \in Seq(Targets)
    BY <2>2, <2>3, AppendProperties, EmptySeq
  <2>5. instances' \in [Dests -> Seq(Targets)] /\ picks' \in [Dests -> Seq(Targets)]
    BY <1>7, <2>1, <2>3, <2>4 DEF RegisterInstance
  <2>6. TypeOK'
    BY <1>1, <1>7, <2>5 DEF RegisterInstance, TypeOK, loopVars, sentVars, redisVars
  <2>7. NoFaultYet'
    BY <1>1, <1>7 DEF RegisterInstance, NoFaultYet, SentEntries, Elems, loopVars, sentVars,
                               redisVars
  <2>8. QED BY <1>2, <1>7, <2>6, <2>7 DEF RegisterInstance, redisVars
<1>8. CASE Produce
  <2>1. PICK t \in Tasks : stream' = Append(stream, t)
    BY <1>8 DEF Produce
  <2>2. stream' \in Seq(Tasks) /\ lastId \in 0 .. Len(stream')
    BY <1>1, <2>1, StreamForward DEF TypeOK
  <2>3. TypeOK'
    BY <1>1, <1>8, <2>2 DEF Produce, TypeOK, loopVars, sentVars, balancerVars
  <2>4. NoFaultYet'
    BY <1>1, <1>8 DEF Produce, NoFaultYet, SentEntries, Elems, loopVars, sentVars
  <2>5. QED BY <1>2, <1>8, <2>3, <2>4 DEF Produce
<1>9. CASE RedisDown
  <2>1. faults' \in Nat /\ faults' # 0
    BY <1>1, <1>9 DEF RedisDown, Fault, TypeOK
  <2>2. redisUp' \in BOOLEAN
    BY <1>9 DEF RedisDown
  <2>3. TypeOK'
    BY <1>1, <1>9, <2>1, <2>2 DEF RedisDown, TypeOK, loopVars, sentVars, balancerVars, redisVars
  <2>4. NoFaultYet'
    BY <2>1 DEF NoFaultYet
  <2>5. QED BY <1>2, <1>9, <2>3, <2>4 DEF RedisDown, redisVars
<1>10. CASE RedisBack
  <2>1. redisUp' \in BOOLEAN
    BY <1>10 DEF RedisBack
  <2>2. TypeOK'
    BY <1>1, <1>10, <2>1 DEF RedisBack, TypeOK, loopVars, sentVars, balancerVars, redisVars
  <2>3. NoFaultYet'
    BY <1>1, <1>10 DEF RedisBack, NoFaultYet, SentEntries, Elems, loopVars, sentVars,
                               redisVars
  <2>4. QED BY <1>2, <1>10, <2>2, <2>3 DEF RedisBack, redisVars
<1>11. CASE UNCHANGED vars
  <2>1. TypeOK'
    BY <1>1, <1>11 DEF vars, loopVars, sentVars, redisVars, balancerVars, TypeOK
  <2>2. NoFaultYet'
    BY <1>1, <1>11 DEF vars, redisVars, NoFaultYet, SentEntries, Elems, loopVars, sentVars
  <2>3. QED BY <1>2, <1>11, <2>1, <2>2 DEF vars, redisVars
<1>12. QED
  BY <1>3, <1>4, <1>5, <1>6, <1>7, <1>8, <1>9, <1>10, <1>11, ReadGroupKeeps,
     ReadGroupLostKeeps, RouteTaskKeeps, DeliverKeeps, AckKeeps
     DEF Next, Consume

(* Books: what the router read is pending or acknowledged, never both,     *)
(* nothing is acknowledged before RouteTask was called for it, and the     *)
(* loop holds the youngest entries only.                                   *)
THEOREM RouterBooksBalance == Spec => []Books
<1>1. RouterInv => Books
  BY DEF RouterInv
<1>2. QED BY <1>1, RouterInit, RouterStepKeeps, PTL DEF Spec

(* Delivery: the router delivers in the order of its stream; an entry is   *)
(* delivered again only to the same stream, after a lost reply, at most    *)
(* MaxRetries times; and none is lost while nothing failed.                *)
THEOREM DeliveredInOrder == Spec => []Delivery
<1>1. RouterInv => Delivery
  BY DEF RouterInv, Delivery, NoFaultYet, NothingLostWithoutFault, SentEntries
<1>2. QED BY <1>1, RouterInit, RouterStepKeeps, PTL DEF Spec

-----------------------------------------------------------------------------
(* The balancer: the picks since the last registration went round the      *)
(* instances, one after the other.                                         *)

\* fewer than n numbers in a row have different remainders by n
LEMMA RemaindersDiffer ==
  ASSUME NEW n \in Nat \ {0}, NEW x \in Nat, NEW y \in Nat, x < y, y < x + n
  PROVE  x % n # y % n
<1> SUFFICES ASSUME x % n = y % n PROVE FALSE
  OBVIOUS
<1>1. PICK p \in Int : x = n * p + (x % n)
  <2>1. x = n * (x \div n) + (x % n) /\ x \div n \in Int
    OBVIOUS
  <2>2. QED BY <2>1
<1>2. PICK q \in Int : y = n * q + (y % n)
  <2>1. y = n * (y \div n) + (y % n) /\ y \div n \in Int
    OBVIOUS
  <2>2. QED BY <2>1
<1>3. x % n \in Int /\ y % n \in Int /\ n * p \in Int /\ n * q \in Int
  OBVIOUS
<1>4. n * q - n * p = n * (q - p)
  OBVIOUS
<1>5. 0 < n * (q - p) /\ n * (q - p) < n
  BY <1>1, <1>2, <1>3, <1>4
<1>6. q - p \in Int
  OBVIOUS
<1>7. q - p >= 1
  BY <1>5, <1>6
<1>8. n * (q - p) >= n
  BY <1>6, <1>7
<1>9. QED BY <1>5, <1>8

\* any n numbers in a row have every remainder by n
LEMMA EveryRemainder ==
  ASSUME NEW n \in Nat \ {0}, NEW x \in Nat, NEW r \in 0 .. n - 1
  PROVE  \E y \in x .. x + n - 1 : y % n = r
<1>1. PICK q \in Int : x = n * q + (x % n)
  <2>1. x = n * (x \div n) + (x % n) /\ x \div n \in Int
    OBVIOUS
  <2>2. QED BY <2>1
<1>2. x % n \in 0 .. n - 1 /\ n * q \in Int /\ n * (q + 1) = n * q + n
  OBVIOUS
<1>3. ASSUME NEW k \in Int, n * k + r >= 0 PROVE (n * k + r) % n = r
  <2>1. PICK p \in Int : n * k + r = n * p + ((n * k + r) % n)
    <3>1. /\ n * k + r = n * ((n * k + r) \div n) + ((n * k + r) % n)
          /\ (n * k + r) \div n \in Int
      BY <1>3
    <3>2. QED BY <3>1
  <2> DEFINE m == (n * k + r) % n
  <2>2. m \in 0 .. n - 1 /\ n * k \in Int /\ n * p \in Int
    OBVIOUS
  <2>3. n * k + r = n * p + m
    BY <2>1
  <2> HIDE DEF m
  <2>4. n * k - n * p = n * (k - p) /\ k - p \in Int
    OBVIOUS
  <2>5. -n < n * (k - p) /\ n * (k - p) < n
    BY <2>2, <2>3, <2>4
  <2>6. k - p = 0
    <3>1. ASSUME k - p >= 1 PROVE FALSE
      <4>1. n * (k - p) >= n
        BY <2>4, <3>1
      <4>2. QED BY <2>5, <4>1
    <3>2. ASSUME k - p <= -1 PROVE FALSE
      <4>1. n * (k - p) <= -n
        BY <2>4, <3>2
      <4>2. QED BY <2>5, <4>1
    <3>3. QED BY <2>4, <3>1, <3>2
  <2>7. n * k = n * p
    BY <2>2, <2>4, <2>6
  <2>8. QED BY <2>2, <2>3, <2>7 DEF m
<1>4. CASE r >= x % n
  <2>1. /\ n * q + r \in x .. x + n - 1 /\ n * q + r >= 0
    BY <1>1, <1>2, <1>4
  <2>2. QED BY <1>3, <2>1
<1>5. CASE r < x % n
  <2>1. /\ n * (q + 1) + r \in x .. x + n - 1 /\ n * (q + 1) + r >= 0
    BY <1>1, <1>2, <1>5
  <2>2. q + 1 \in Int
    OBVIOUS
  <2>3. (n * (q + 1) + r) % n = r
    BY ONLY <1>3, <2>1, <2>2
  <2>4. QED BY <2>1, <2>3
<1>6. QED BY <1>2, <1>4, <1>5

\* p are the last picks among the instances s, when the counter stands at c
InTurn(s, p, c) ==
  /\ p # << >> => s # << >>
  /\ Len(p) <= c
  /\ \A j \in DOMAIN p : p[j] = s[1 + ((c - Len(p) + j - 1) % Len(s))]

\* the next pick of the counter is the next instance in turn
LEMMA NextPickInTurn ==
  ASSUME NEW s \in Seq(Targets), NEW p \in Seq(Targets), NEW c \in Nat,
         s # << >>, InTurn(s, p, c), NEW to \in Targets,
         to = s[1 + (c % Len(s))]
  PROVE  InTurn(s, Append(p, to), c + 1)
<1>1. /\ Len(p) \in Nat /\ DOMAIN p = 1 .. Len(p)
      /\ Len(Append(p, to)) = Len(p) + 1
      /\ DOMAIN Append(p, to) = 1 .. Len(p) + 1
      /\ \A j \in 1 .. Len(p) : Append(p, to)[j] = p[j]
      /\ Append(p, to)[Len(p) + 1] = to
  BY AppendProperties, LenProperties
<1>2. ASSUME NEW j \in 1 .. Len(p) + 1
      PROVE  Append(p, to)[j]
               = s[1 + (((c + 1) - (Len(p) + 1) + j - 1) % Len(s))]
  <2>1. (c + 1) - (Len(p) + 1) + j - 1 = c - Len(p) + j - 1
    BY <1>1
  <2>2. CASE j = Len(p) + 1
    <3>1. c - Len(p) + j - 1 = c
      BY <1>1, <2>2
    <3>2. QED BY <1>1, <2>1, <2>2, <3>1
  <2>3. CASE j # Len(p) + 1
    <3>1. j \in DOMAIN p
      BY <1>1, <2>3
    <3>2. QED BY <1>1, <2>1, <3>1 DEF InTurn
  <2>4. QED BY <2>2, <2>3
<1>3. Len(Append(p, to)) <= c + 1
  BY <1>1 DEF InTurn
<1>4. QED BY <1>1, <1>2, <1>3 DEF InTurn

\* a registration starts the picks of its group anew
LEMMA RegisteredInTurn ==
  ASSUME NEW s, NEW c \in Nat
  PROVE  InTurn(s, << >>, c)
<1>1. Len(<< >>) = 0 /\ DOMAIN << >> = {}
  BY EmptySeq
<1>2. QED BY <1>1 DEF InTurn

\* the place in s of the k-th pick
Turn(s, p, c, k) == 1 + ((c - Len(p) + k - 1) % Len(s))

\* as many picks in turn as there are instances take each place once
LEMMA TurnsAreABijection ==
  ASSUME NEW s \in Seq(Targets), NEW p \in Seq(Targets), NEW c \in Nat,
         InTurn(s, p, c), s # << >>, NEW j \in 1 .. Len(p) + 1 - Len(s),
         NEW id
  PROVE  Times(id, p, j, Len(s)) = Times(id, s, 1, Len(s))
<1> DEFINE n == Len(s)
           x == c - Len(p) + j - 1
           A == {k \in j .. j + n - 1 : p[k] = id}
           B == {k \in 1 .. 1 + n - 1 : s[k] = id}
           f == [k \in A |-> Turn(s, p, c, k)]
<1>1. /\ Len(p) \in Nat /\ DOMAIN p = 1 .. Len(p) /\ Len(p) <= c
      /\ n \in Nat \ {0} /\ x \in Nat /\ j \in Nat \ {0}
  <2>1. Len(p) \in Nat /\ DOMAIN p = 1 .. Len(p) /\ Len(p) <= c /\ n \in Nat
    BY LenProperties DEF InTurn
  <2>2. n # 0
    BY EmptySeq
  <2>3. j \in Nat \ {0}
    BY <2>1
  <2>4. x \in Nat
    BY <2>1, <2>3
  <2>5. QED BY <2>1, <2>2, <2>3, <2>4
<1>2. ASSUME NEW k \in j .. j + n - 1
      PROVE  /\ k \in DOMAIN p /\ x + (k - j) \in Nat
             /\ Turn(s, p, c, k) = 1 + ((x + (k - j)) % n)
             /\ Turn(s, p, c, k) \in 1 .. n
             /\ p[k] = s[Turn(s, p, c, k)]
  <2>1. k \in 1 .. Len(p) /\ k - j \in 0 .. n - 1
    BY <1>1
  <2>2. c - Len(p) + k - 1 = x + (k - j) /\ x + (k - j) \in Nat
    BY <1>1, <2>1
  <2>3. Turn(s, p, c, k) = 1 + ((x + (k - j)) % n)
    BY <2>2 DEF Turn
  <2>4. p[k] = s[Turn(s, p, c, k)]
    BY <1>1, <2>1 DEF InTurn, Turn
  <2>5. (x + (k - j)) % n \in 0 .. n - 1
    BY <1>1, <2>2
  <2>6. QED BY <1>1, <2>1, <2>2, <2>3, <2>4, <2>5
<1>3. \A k \in A : f[k] = Turn(s, p, c, k) /\ k \in j .. j + n - 1
  OBVIOUS
<1>4. f \in [A -> B]
  <2>1. ASSUME NEW k \in A PROVE Turn(s, p, c, k) \in B
    BY <1>1, <1>2
  <2>2. QED BY <2>1
<1>5. ASSUME NEW k \in A, NEW l \in A, k < l PROVE f[k] # f[l]
  <2>1. k \in j .. j + n - 1 /\ l \in j .. j + n - 1
    OBVIOUS
  <2>2. x + (k - j) < x + (l - j) /\ x + (l - j) < x + (k - j) + n
    BY <1>1, <1>5, <2>1
  <2>3. (x + (k - j)) % n # (x + (l - j)) % n
    BY <1>1, <1>2, <2>1, <2>2, RemaindersDiffer
  <2>4. /\ (x + (k - j)) % n \in Int /\ (x + (l - j)) % n \in Int
    BY <1>1, <1>2, <2>1
  <2>5. Turn(s, p, c, k) # Turn(s, p, c, l)
    <3>1. /\ Turn(s, p, c, k) = 1 + ((x + (k - j)) % n)
          /\ Turn(s, p, c, l) = 1 + ((x + (l - j)) % n)
      BY ONLY <1>2, <2>1
    <3> DEFINE u == (x + (k - j)) % n
               v == (x + (l - j)) % n
    <3>2. u # v /\ u \in Int /\ v \in Int
      BY ONLY <2>3, <2>4
    <3>3. Turn(s, p, c, k) = 1 + u /\ Turn(s, p, c, l) = 1 + v
      BY ONLY <3>1
    <3> HIDE DEF u, v
    <3>4. QED BY ONLY <3>2, <3>3
  <2>6. QED BY <1>3, <2>5
<1>6. ASSUME NEW m \in B PROVE \E k \in A : f[k] = m
  <2>1. m \in 1 .. n /\ s[m] = id
    BY <1>1
  <2>2. m - 1 \in 0 .. n - 1
    BY <1>1, <2>1
  <2>3. PICK y \in x .. x + n - 1 : y % n = m - 1
    BY ONLY <1>1, <2>2, EveryRemainder
  <2> DEFINE k == y - x + j
  <2>4. k \in j .. j + n - 1 /\ x + (k - j) = y
    BY <1>1
  <2> HIDE DEF k
  <2>5. Turn(s, p, c, k) = 1 + (y % n) /\ p[k] = s[Turn(s, p, c, k)]
    <3>1. /\ Turn(s, p, c, k) = 1 + ((x + (k - j)) % n)
          /\ p[k] = s[Turn(s, p, c, k)]
      BY ONLY <1>2, <2>4
    <3>2. QED BY ONLY <2>4, <3>1
  <2>6. Turn(s, p, c, k) = m
    <3>1. 1 + (m - 1) = m
      BY ONLY <2>1, <1>1
    <3>2. QED BY ONLY <2>3, <2>5, <3>1
  <2>7. k \in A
    BY <2>1, <2>4, <2>5, <2>6
  <2>8. QED BY <1>3, <2>6, <2>7
<1>7. f \in Bijection(A, B)
  <2>1. A \subseteq Int
    OBVIOUS
  <2> HIDE DEF A, B, f, n, x
  <2>2. ASSUME NEW k \in A, NEW l \in A, f[k] = f[l] PROVE k = l
    <3>1. k \in Int /\ l \in Int
      BY <2>1
    <3>2. k < l \/ l < k \/ k = l
      BY <3>1
    <3>3. QED BY <1>5, <2>2, <3>2
  <2>3. IsInjective(f)
    BY <1>4, <2>2 DEF IsInjective
  <2>4. QED BY <1>4, <1>6, <2>3 DEF Bijection, Injection, Surjection
<1>8. IsFiniteSet(A)
  <2>1. IsFiniteSet(j .. j + n - 1)
    BY <1>1, FS_Interval
  <2>2. A \in SUBSET (j .. j + n - 1)
    OBVIOUS
  <2> HIDE DEF A
  <2>3. QED BY <2>1, <2>2, FS_Subset
<1>9. Cardinality(B) = Cardinality(A)
  <2> HIDE DEF A, B, f
  <2>1. ExistsBijection(A, B)
    BY <1>7 DEF ExistsBijection
  <2>2. QED BY <1>8, <2>1, FS_Bijection
<1>10. QED BY <1>9 DEF Times

BalancerInv == \A d \in Dests : InTurn(instances[d], picks[d], counters[d])

(* RoundRobin: in as many consecutive picks of a type as it has            *)
(* registrations, with none between them, every instance is picked as      *)
(* often as it is registered.                                              *)
THEOREM PicksGoRound == Spec => []RoundRobin
<1>1. Init => BalancerInv
  <2> SUFFICES ASSUME Init, NEW d \in Dests
               PROVE  InTurn(instances[d], picks[d], counters[d])
    BY DEF BalancerInv
  <2>1. instances[d] = << >> /\ picks[d] = << >> /\ counters[d] = 0
    BY DEF Init
  <2>2. QED BY <2>1, EmptySeq DEF InTurn
<1>2. RouterInv /\ BalancerInv /\ [Next]_vars => BalancerInv'
  <2> SUFFICES ASSUME RouterInv, BalancerInv, [Next]_vars, NEW d \in Dests
               PROVE  InTurn(instances'[d], picks'[d], counters'[d])
    BY DEF BalancerInv
  <2>1. /\ instances \in [Dests -> Seq(Targets)] /\ picks \in [Dests -> Seq(Targets)]
        /\ counters \in [Dests -> Nat]
        /\ instances[d] \in Seq(Targets) /\ picks[d] \in Seq(Targets)
        /\ counters[d] \in Nat /\ InTurn(instances[d], picks[d], counters[d])
    BY DEF RouterInv, Books, TypeOK, BalancerInv
  <2>2. ASSUME instances'[d] = instances[d], picks'[d] = picks[d],
               counters'[d] = counters[d]
        PROVE  InTurn(instances'[d], picks'[d], counters'[d])
    BY <2>1, <2>2
  <2>3. CASE RouteTask
    <3>1. PICK c \in Dests, to \in Targets : NextInstance(c, to)
      BY <2>3, ChosenIsADest DEF RouteTask, RouterInv
    <3>2. CASE c # d \/ UNCHANGED balancerVars
      BY <2>1, <2>2, <3>1, <3>2 DEF NextInstance, balancerVars
    <3>3. CASE c = d /\ ~UNCHANGED balancerVars
      <4>1. /\ instances[d] # << >> /\ to = instances[d][1 + (counters[d] % Len(instances[d]))]
            /\ counters'[d] = counters[d] + 1 /\ picks'[d] = Append(picks[d], to)
            /\ instances'[d] = instances[d]
        BY <2>1, <3>1, <3>3 DEF NextInstance
      <4>2. InTurn(instances[d], Append(picks[d], to), counters[d] + 1)
        BY <2>1, <4>1, NextPickInTurn
      <4>3. QED BY <4>1, <4>2
    <3>4. QED BY <3>2, <3>3
  <2>4. ASSUME NEW c \in Dests, RegisterInstance(c)
        PROVE  InTurn(instances'[d], picks'[d], counters'[d])
    <3>1. /\ picks' = [picks EXCEPT ![c] = << >>] /\ counters' = counters
          /\ c # d => instances'[d] = instances[d]
      BY <2>1, <2>4 DEF RegisterInstance
    <3>2. CASE c # d
      BY <2>1, <2>2, <3>1, <3>2
    <3>3. CASE c = d
      BY <2>1, <3>1, <3>3, RegisteredInTurn
    <3>4. QED BY <3>2, <3>3
  <2>5. CASE Exit
    <3>1. instances'[d] = << >> /\ picks'[d] = << >> /\ counters'[d] = 0
      BY <2>5 DEF Exit
    <3>2. QED BY <3>1, EmptySeq DEF InTurn
  <2>6. CASE UNCHANGED balancerVars
    BY <2>2, <2>6 DEF balancerVars
  <2>7. QED
    <3>1. ReadGroup \/ ReadGroupLost \/ Deliver \/ Ack \/ Start \/ Stop \/ Produce
            \/ RedisDown \/ RedisBack \/ UNCHANGED vars => UNCHANGED balancerVars
      BY DEF ReadGroup, ReadGroupLost, Deliver, Ack, Start, Stop, Produce, RedisDown,
             RedisBack, vars
    <3>2. QED
      BY <2>3, <2>4, <2>5, <2>6, <3>1 DEF Next, Consume, Stopped, Crash
<1>3. RouterInv /\ BalancerInv => RoundRobin
  <2> SUFFICES ASSUME RouterInv, BalancerInv, NEW d \in Dests,
                      NEW j \in 1 .. Len(picks[d]) + 1 - Len(instances[d]),
                      NEW id \in InstanceIds[d]
               PROVE  Times(id, picks[d], j, Len(instances[d]))
                        = Times(id, instances[d], 1, Len(instances[d]))
    BY DEF RoundRobin
  <2>1. /\ instances[d] \in Seq(Targets) /\ picks[d] \in Seq(Targets)
        /\ counters[d] \in Nat /\ InTurn(instances[d], picks[d], counters[d])
    BY DEF RouterInv, Books, TypeOK, BalancerInv
  <2>2. CASE instances[d] # << >>
    BY <2>1, <2>2, TurnsAreABijection
  <2>3. CASE instances[d] = << >>
    <3>1. Len(instances[d]) = 0 /\ j \in Int
      BY <2>3, EmptySeq
    <3>2. j .. j + 0 - 1 = {} /\ 1 .. 1 + 0 - 1 = {}
      BY <3>1
    <3>3. QED BY <3>1, <3>2 DEF Times
  <2>4. QED BY <2>2, <2>3
<1>4. QED BY <1>1, <1>2, <1>3, RouterInit, RouterStepKeeps, PTL DEF Spec

-----------------------------------------------------------------------------
(* The request path: where a task is.                                      *)

FlowStreams == {Router, action, gemini, ironclaw}
FlowConsumers == {Router} \cup {action, gemini}

\* what the caller was told of a task that was added
Added == {"accepted", "doubtful"}

\* no two entries of the streams, no two hands and no entry and a hand have
\* the same task, unless it was sent again
Alone ==
  /\ \A r, s \in FlowStreams : \A i \in DOMAIN unread[r], j \in DOMAIN unread[s] :
       unread[r][i] = unread[s][j] /\ unread[r][i] \notin resent => r = s /\ i = j
  /\ \A c, d \in FlowConsumers :
       held[c] # "none" /\ held[c] \notin resent /\ held[c] = held[d] => c = d
  /\ \A s \in FlowStreams, c \in FlowConsumers : \A i \in DOMAIN unread[s] :
       unread[s][i] \notin resent => unread[s][i] # held[c]

\* a task travels: it is in a stream or in a hand
Travels(t) ==
  \/ \E s \in FlowStreams : \E i \in DOMAIN unread[s] : unread[s][i] = t
  \/ \E c \in FlowConsumers : held[c] = t

\* only a task that was added travels, without an answer or sent again
TravelsUnanswered ==
  \A t \in FlowTasks :
    /\ Travels(t) => outcome[t] \in Added /\ (t \in resent \/ response[t] = "none")
    /\ outcome[t] \notin Added => response[t] = "none"

\* before the first fault every accepted task travels or has its answer
NoneLostYet ==
  outages = 0 =>
    \A t \in FlowTasks :
      /\ outcome[t] # "doubtful" /\ t \notin resent
      /\ outcome[t] = "accepted" => up /\ (Travels(t) \/ response[t] # "none")

FlowInv == Flow!TypeOK /\ Alone /\ TravelsUnanswered /\ NoneLostYet

\* the invariant says where a task is
LEMMA FlowInvImpliesOnePlace == FlowInv => Flow!OnePlace
<1> SUFFICES ASSUME FlowInv PROVE Flow!OnePlace
  OBVIOUS
<1> USE DEF FlowStreams, FlowConsumers
<1>1. ASSUME NEW t \in FlowTasks, NEW p \in Flow!Places(t)
      PROVE  \/ \E s \in FlowStreams : \E i \in DOMAIN unread[s] :
                  p = <<s, i>> /\ unread[s][i] = t
             \/ \E c \in FlowConsumers : p = <<c, 0>> /\ held[c] = t
  BY <1>1 DEF Flow!Places, Flow!At, Flow!Consumers
<1>2. ASSUME NEW t \in FlowTasks \ resent,
             NEW p \in Flow!Places(t), NEW q \in Flow!Places(t)
      PROVE  p = q
  <2>1. t # "none"
    BY FlowConstants DEF Flow!FlowAssumption
  <2>2. CASE \E s \in FlowStreams : \E i \in DOMAIN unread[s] :
               p = <<s, i>> /\ unread[s][i] = t
    BY <1>1, <2>2 DEF FlowInv, Alone
  <2>3. CASE \E c \in FlowConsumers : p = <<c, 0>> /\ held[c] = t
    BY <1>1, <2>1, <2>3 DEF FlowInv, Alone
  <2>4. QED BY <1>1, <2>2, <2>3
<1>3. ASSUME NEW t \in FlowTasks
      PROVE  Travels(t) <=> Flow!Places(t) # {}
  <2>1. ASSUME NEW s \in FlowStreams, NEW i \in DOMAIN unread[s], unread[s][i] = t
        PROVE  <<s, i>> \in Flow!Places(t)
    BY <2>1 DEF Flow!Places, Flow!At
  <2>2. ASSUME NEW c \in FlowConsumers, held[c] = t
        PROVE  <<c, 0>> \in Flow!Places(t)
    BY <2>2 DEF Flow!Places, Flow!Consumers
  <2>3. Travels(t) => Flow!Places(t) # {}
    BY <2>1, <2>2 DEF Travels
  <2>4. ASSUME NEW p \in Flow!Places(t) PROVE Travels(t)
    BY <1>1, <2>4 DEF Travels
  <2>5. QED BY <2>3, <2>4
<1>4. ASSUME NEW t \in FlowTasks
      PROVE  /\ Travels(t) => outcome[t] \in Added /\ (t \in resent \/ response[t] = "none")
             /\ outages = 0 =>
                  /\ outcome[t] # "doubtful" /\ t \notin resent
                  /\ outcome[t] = "accepted" => Travels(t) \/ response[t] # "none"
  BY DEF FlowInv, TravelsUnanswered, NoneLostYet
<1>5. Flow!TypeOK
  BY DEF FlowInv
<1>6. QED
  BY ONLY <1>2, <1>3, <1>4, <1>5 DEF Flow!OnePlace, Added

\* copies of an entry appended to a stream are the only new ones
LEMMA CopiesAdded ==
  ASSUME unread \in [FlowStreams -> Seq(FlowTasks)], NEW s \in FlowStreams,
         NEW t \in FlowTasks, NEW n \in Nat \ {0}, Flow!Copies(s, t, n)
  PROVE  /\ unread' \in [FlowStreams -> Seq(FlowTasks)]
         /\ \A r \in FlowStreams : \A i \in DOMAIN unread[r] :
              i \in DOMAIN unread'[r] /\ unread'[r][i] = unread[r][i]
         /\ \E i \in DOMAIN unread'[s] : unread'[s][i] = t
         /\ \A r \in FlowStreams : \A i \in DOMAIN unread'[r] :
              \/ i \in DOMAIN unread[r] /\ unread'[r][i] = unread[r][i]
              \/ r = s /\ unread'[r][i] = t /\ (n = 1 => i = Len(unread[s]) + 1)
<1> DEFINE u == unread
           v == unread'
           c == [k \in 1 .. n |-> t]
<1>0. u \in [FlowStreams -> Seq(FlowTasks)] /\ v = [u EXCEPT ![s] = @ \o c]
  BY DEF Flow!Copies
<1>1. c \in Seq(FlowTasks) /\ Len(c) = n /\ \A k \in 1 .. n : c[k] = t
  OBVIOUS
<1> HIDE DEF c, u, v
<1>2. u[s] \in Seq(FlowTasks) /\ v[s] = u[s] \o c
      /\ \A r \in FlowStreams \ {s} : v[r] = u[r]
  BY <1>0
<1>3. Len(u[s]) \in Nat /\ DOMAIN u[s] = 1 .. Len(u[s]) /\ DOMAIN c = 1 .. n
  BY <1>1, <1>2, LenProperties
<1>4. /\ u[s] \o c \in Seq(FlowTasks) /\ Len(u[s] \o c) = Len(u[s]) + n
      /\ DOMAIN (u[s] \o c) = 1 .. Len(u[s]) + n
      /\ \A i \in 1 .. Len(u[s]) : (u[s] \o c)[i] = u[s][i]
      /\ \A i \in Len(u[s]) + 1 .. Len(u[s]) + n : (u[s] \o c)[i] = c[i - Len(u[s])]
  <2>1. u[s] \o c \in Seq(FlowTasks) /\ Len(u[s] \o c) = Len(u[s]) + n
    BY ONLY <1>1, <1>2, ConcatProperties
  <2>2. DOMAIN (u[s] \o c) = 1 .. Len(u[s]) + n
    BY <2>1, LenProperties
  <2>3. /\ \A i \in 1 .. Len(u[s]) : (u[s] \o c)[i] = u[s][i]
        /\ \A i \in Len(u[s]) + 1 .. Len(u[s]) + n : (u[s] \o c)[i] = c[i - Len(u[s])]
    BY <1>1, <1>2, <1>3, ConcatProperties
  <2>4. QED BY <2>1, <2>2, <2>3
<1>5. \A i \in Len(u[s]) + 1 .. Len(u[s]) + n :
        (u[s] \o c)[i] = t /\ (n = 1 => i = Len(u[s]) + 1)
  <2>1. \A i \in Len(u[s]) + 1 .. Len(u[s]) + n : i - Len(u[s]) \in 1 .. n
    BY <1>3
  <2>2. QED BY <1>1, <1>3, <1>4, <2>1
<1>6. v \in [FlowStreams -> Seq(FlowTasks)]
  BY <1>0, <1>2, <1>4
<1>7. Len(u[s]) + 1 \in DOMAIN v[s] /\ v[s][Len(u[s]) + 1] = t
  <2>1. Len(u[s]) + 1 \in Len(u[s]) + 1 .. Len(u[s]) + n
        /\ Len(u[s]) + 1 \in 1 .. Len(u[s]) + n
    BY ONLY <1>3, n \in Nat \ {0}
  <2>2. QED BY ONLY <1>2, <1>4, <1>5, <2>1
<1>8. \A i \in DOMAIN v[s] :
        i \in 1 .. Len(u[s]) \/ i \in Len(u[s]) + 1 .. Len(u[s]) + n
  BY <1>2, <1>3, <1>4
<1>9. \A i \in 1 .. Len(u[s]) : i \in DOMAIN v[s]
  BY <1>2, <1>3, <1>4
<1>10. /\ v \in [FlowStreams -> Seq(FlowTasks)]
       /\ \A r \in FlowStreams : \A i \in DOMAIN u[r] :
            i \in DOMAIN v[r] /\ v[r][i] = u[r][i]
       /\ \E i \in DOMAIN v[s] : v[s][i] = t
       /\ \A r \in FlowStreams : \A i \in DOMAIN v[r] :
            \/ i \in DOMAIN u[r] /\ v[r][i] = u[r][i]
            \/ r = s /\ v[r][i] = t /\ (n = 1 => i = Len(u[s]) + 1)
  BY <1>2, <1>3, <1>4, <1>5, <1>6, <1>7, <1>8, <1>9
<1>11. QED BY <1>10 DEF u, v

\* an entry appended to a stream is the only new one
LEMMA PutAdds ==
  ASSUME NEW u \in [FlowStreams -> Seq(FlowTasks)], NEW s \in FlowStreams,
         NEW t \in FlowTasks, NEW v, v = [u EXCEPT ![s] = Append(@, t)]
  PROVE  /\ v \in [FlowStreams -> Seq(FlowTasks)]
         /\ \A r \in FlowStreams : \A i \in DOMAIN u[r] :
              i \in DOMAIN v[r] /\ v[r][i] = u[r][i]
         /\ \E i \in DOMAIN v[s] : v[s][i] = t
         /\ \A r \in FlowStreams : \A i \in DOMAIN v[r] :
              \/ i \in DOMAIN u[r] /\ v[r][i] = u[r][i]
              \/ r = s /\ i = Len(u[s]) + 1 /\ v[r][i] = t
<1>1. u[s] \in Seq(FlowTasks) /\ v[s] = Append(u[s], t)
      /\ \A r \in FlowStreams \ {s} : v[r] = u[r]
  OBVIOUS
<1>2. /\ Append(u[s], t) \in Seq(FlowTasks)
      /\ DOMAIN Append(u[s], t) = 1 .. Len(u[s]) + 1
      /\ DOMAIN u[s] = 1 .. Len(u[s]) /\ Len(u[s]) \in Nat
      /\ \A i \in 1 .. Len(u[s]) : Append(u[s], t)[i] = u[s][i]
      /\ Append(u[s], t)[Len(u[s]) + 1] = t
  BY <1>1, AppendProperties, LenProperties
<1>3. v \in [FlowStreams -> Seq(FlowTasks)]
  BY <1>1, <1>2
<1>4. Len(u[s]) + 1 \in DOMAIN v[s]
  BY <1>1, <1>2
<1>5. QED BY <1>1, <1>2, <1>3, <1>4

\* reading the head of a stream leaves the other entries, one place ahead
LEMMA TakeRemoves ==
  ASSUME NEW u \in [FlowStreams -> Seq(FlowTasks)], NEW s \in FlowStreams,
         u[s] # << >>, NEW v, v = [u EXCEPT ![s] = Tail(@)]
  PROVE  /\ v \in [FlowStreams -> Seq(FlowTasks)]
         /\ Head(u[s]) \in FlowTasks /\ 1 \in DOMAIN u[s] /\ Head(u[s]) = u[s][1]
         /\ \A r \in FlowStreams \ {s} : v[r] = u[r]
         /\ \A i \in DOMAIN v[s] :
              i \in Nat \ {0} /\ i + 1 \in DOMAIN u[s] /\ v[s][i] = u[s][i + 1]
         /\ \A i \in DOMAIN u[s] :
              i # 1 => i - 1 \in DOMAIN v[s] /\ v[s][i - 1] = u[s][i]
<1>1. u[s] \in Seq(FlowTasks) /\ v[s] = Tail(u[s])
      /\ \A r \in FlowStreams \ {s} : v[r] = u[r]
  OBVIOUS
<1>2. /\ Head(u[s]) \in FlowTasks /\ Tail(u[s]) \in Seq(FlowTasks)
      /\ Len(Tail(u[s])) = Len(u[s]) - 1
      /\ \A i \in 1 .. Len(Tail(u[s])) : Tail(u[s])[i] = u[s][i + 1]
      /\ DOMAIN u[s] = 1 .. Len(u[s]) /\ Len(u[s]) \in Nat \ {0}
      /\ DOMAIN Tail(u[s]) = 1 .. Len(u[s]) - 1
  BY <1>1, HeadTailProperties, LenProperties, EmptySeq
<1>3. v \in [FlowStreams -> Seq(FlowTasks)]
  BY <1>1, <1>2
<1>4. \A i \in DOMAIN v[s] :
        i \in Nat \ {0} /\ i + 1 \in DOMAIN u[s] /\ v[s][i] = u[s][i + 1]
  BY <1>1, <1>2
<1>5. ASSUME NEW i \in DOMAIN u[s], i # 1
      PROVE  i - 1 \in DOMAIN v[s] /\ v[s][i - 1] = u[s][i]
  <2>1. i - 1 \in DOMAIN v[s] /\ (i - 1) + 1 = i
    BY <1>1, <1>2, <1>5
  <2>2. QED BY <1>4, <2>1
<1>6. QED BY <1>1, <1>2, <1>3, <1>4, <1>5

\* the types of the streams and the hands, and what the assumption says
LEMMA FlowTypes ==
  ASSUME Flow!TypeOK
  PROVE  /\ unread \in [FlowStreams -> Seq(FlowTasks)]
         /\ held \in [FlowConsumers -> FlowTasks \cup {"none"}]
         /\ outcome \in [FlowTasks -> Flow!Outcomes] /\ resent \subseteq FlowTasks
         /\ response \in [FlowTasks -> {"none", "success", "failure"}]
         /\ FlowConsumers \subseteq FlowStreams /\ "none" \notin FlowTasks
         /\ Router \notin {action, gemini}
BY FlowConstants
   DEF Flow!TypeOK, Flow!FlowAssumption, Flow!Consumers, FlowStreams, FlowConsumers

\* no task has been accepted at the start
LEMMA FlowInit == Flow!Init => FlowInv
<1> SUFFICES ASSUME Flow!Init PROVE FlowInv
  OBVIOUS
<1> USE DEF Flow!Init
<1>1. /\ unread = [s \in FlowStreams |-> << >>]
      /\ held = [c \in FlowConsumers |-> "none"]
  BY DEF FlowStreams, FlowConsumers, Flow!Consumers
<1>2. DOMAIN << >> = {} /\ \A S : << >> \in Seq(S)
  BY EmptySeq
<1>3. Flow!TypeOK
  <2>1. unread \in [FlowStreams -> Seq(FlowTasks)] /\ parked \in Seq(ViaGateway)
    BY <1>1, <1>2
  <2>2. QED
    BY <2>1, FlowConstants
       DEF Flow!TypeOK, Flow!FlowAssumption, Flow!Outcomes, FlowStreams
<1>4. Alone
  BY <1>1, <1>2 DEF Alone
<1>5. TravelsUnanswered /\ NoneLostYet
  <2>1. "none" \notin FlowTasks
    BY FlowConstants DEF Flow!FlowAssumption
  <2>2. \A t \in FlowTasks : ~Travels(t)
    BY <1>1, <1>2, <2>1 DEF Travels
  <2>3. QED BY <2>2 DEF TravelsUnanswered, NoneLostYet, Added
<1>6. QED BY <1>3, <1>4, <1>5 DEF FlowInv

\* faults are counted
LEMMA FaultsTyped ==
  ASSUME Flow!TypeOK, NEW n \in Nat, Flow!Faults(n)
  PROVE  /\ outages \in Nat /\ outages' = outages + n /\ outages' \in 0 .. MaxOutages
         /\ outages' = 0 => n = 0 /\ outages = 0
<1>1. outages' = outages + n /\ outages + n <= MaxOutages
  BY DEF Flow!Faults
<1>2. MaxOutages \in Nat /\ outages \in 0 .. MaxOutages
  BY FlowConstants DEF Flow!TypeOK, Flow!FlowAssumption
<1>3. QED BY ONLY <1>1, <1>2

\* an outage that begins is counted
LEMMA OutageTyped ==
  ASSUME Flow!TypeOK, Flow!Outage
  PROVE  outages' \in 0 .. MaxOutages /\ outages' # 0 /\ up' \in BOOLEAN
<1>1. up' = FALSE /\ Flow!Faults(1)
  BY DEF Flow!Outage
<1>2. outages' \in 0 .. MaxOutages /\ outages' # 0
  BY <1>1, FaultsTyped
<1>3. QED BY <1>1, <1>2

\* a task is wrapped at most MaxWraps times
LEMMA WrapTyped ==
  ASSUME Flow!TypeOK, NEW t \in FlowTasks, Flow!Wrap(t)
  PROVE  wraps' \in [FlowTasks -> 0 .. MaxWraps]
BY FlowConstants DEF Flow!TypeOK, Flow!Wrap, Flow!FlowAssumption

\* a task is added to the router's stream, whatever the caller is told
LEMMA AddKeeps ==
  ASSUME FlowInv, NEW t \in FlowTasks, outcome[t] = "new", Flow!Add(t),
         NEW o \in Added, Flow!Answer(t, o),
         \/ o = "accepted" /\ UNCHANGED <<up, outages>>
         \/ outages' \in 0 .. MaxOutages /\ outages' # 0 /\ up' \in BOOLEAN,
         UNCHANGED <<parked, held, response, asked, resent>>
  PROVE  FlowInv'
<1>0. /\ outcome[t] = "new" /\ up
      /\ unread' = [unread EXCEPT ![Router] = Append(@, t)]
      /\ outcome' = [outcome EXCEPT ![t] = o]
      /\ UNCHANGED <<parked, held, response, asked, resent>>
  BY DEF Flow!Add, Flow!Put, Flow!Answer
<1>1. Flow!TypeOK
  BY DEF FlowInv
<1>2. /\ unread \in [FlowStreams -> Seq(FlowTasks)]
      /\ held \in [FlowConsumers -> FlowTasks \cup {"none"}]
      /\ outcome \in [FlowTasks -> Flow!Outcomes]
      /\ response \in [FlowTasks -> {"none", "success", "failure"}]
      /\ "none" \notin FlowTasks /\ Router \in FlowStreams
  BY <1>1, FlowTypes DEF FlowStreams
<1>3. /\ unread' \in [FlowStreams -> Seq(FlowTasks)]
      /\ \A r \in FlowStreams : \A i \in DOMAIN unread[r] :
           i \in DOMAIN unread'[r] /\ unread'[r][i] = unread[r][i]
      /\ \E i \in DOMAIN unread'[Router] : unread'[Router][i] = t
      /\ \A r \in FlowStreams : \A i \in DOMAIN unread'[r] :
           \/ i \in DOMAIN unread[r] /\ unread'[r][i] = unread[r][i]
           \/ r = Router /\ i = Len(unread[Router]) + 1 /\ unread'[r][i] = t
  BY ONLY <1>0, <1>2, PutAdds
<1>4. ~Travels(t) /\ response[t] = "none"
  BY <1>0 DEF FlowInv, TravelsUnanswered, Added
<1>5. Flow!TypeOK'
  <2>1. wraps' \in [FlowTasks -> 0 .. MaxWraps]
    BY <1>1, WrapTyped DEF Flow!Add, Flow!TypeOK
  <2>2. outcome' \in [FlowTasks -> Flow!Outcomes]
    BY <1>0, <1>2 DEF Flow!Outcomes, Added
  <2>3. unread' \in [{Router, action, gemini, ironclaw} -> Seq(FlowTasks)]
    BY <1>3 DEF FlowStreams
  <2>4. up' \in BOOLEAN /\ outages' \in 0 .. MaxOutages
    BY <1>1 DEF Flow!TypeOK
  <2>5. QED BY <1>0, <1>1, <2>1, <2>2, <2>3, <2>4 DEF Flow!TypeOK
<1>6. Alone'
  <2>1. Alone
    BY DEF FlowInv
  <2>2. \A r \in FlowStreams : \A i \in DOMAIN unread[r] : unread[r][i] # t
    BY <1>4 DEF Travels
  <2>3. \A c \in FlowConsumers : held[c] # t
    BY <1>4 DEF Travels
  <2>4. QED BY ONLY <1>0, <1>3, <2>1, <2>2, <2>3 DEF Alone
<1>7. \A x \in FlowTasks : Travels(x)' <=> Travels(x) \/ x = t
  BY <1>0, <1>2, <1>3 DEF Travels
<1>8. \A x \in FlowTasks : outcome'[x] = IF x = t THEN o ELSE outcome[x]
  BY <1>0, <1>2
<1>9. TravelsUnanswered'
  <2>1. TravelsUnanswered
    BY DEF FlowInv
  <2>2. QED BY ONLY <1>0, <1>4, <1>7, <1>8, <2>1, o \in Added DEF TravelsUnanswered
<1>10. NoneLostYet'
  <2>1. CASE outages' # 0
    BY <2>1 DEF NoneLostYet
  <2>2. CASE o = "accepted" /\ UNCHANGED <<up, outages>>
    <3>1. NoneLostYet
      BY DEF FlowInv
    <3>2. QED BY ONLY <1>0, <1>4, <1>7, <1>8, <2>2, <3>1 DEF NoneLostYet
  <2>3. QED BY <2>1, <2>2
<1>11. QED BY <1>5, <1>6, <1>9, <1>10 DEF FlowInv

\* the gateway is told that its task was accepted, or only that it failed
LEMMA AcceptKeeps ==
  ASSUME FlowInv, NEW t \in FlowTasks, Flow!Accept(t)
  PROVE  FlowInv'
<1>1. /\ outcome[t] = "new" /\ Flow!Add(t) /\ Flow!Answer(t, "accepted")
      /\ UNCHANGED <<up, outages, parked, held, response, asked, resent>>
  BY DEF Flow!Accept
<1>2. "accepted" \in Added
  BY DEF Added
<1>3. QED BY <1>1, <1>2, AddKeeps

\* a submission that fails adds nothing, or adds the task all the same
LEMMA RefuseKeeps ==
  ASSUME FlowInv, NEW t \in FlowTasks, Flow!Refuse(t)
  PROVE  \/ FlowInv'
         \/ /\ outcome[t] = "new" /\ Flow!Outage /\ Flow!Answer(t, "refused")
            /\ UNCHANGED <<parked, unread, held, response, wraps, asked, resent>>
<1>1. /\ outcome[t] = "new"
      /\ UNCHANGED <<parked, held, response, asked, resent>>
      /\ \/ Flow!Outage /\ Flow!Answer(t, "refused") /\ UNCHANGED <<unread, wraps>>
         \/ /\ Flow!Add(t) /\ Flow!Faults(1) /\ up' \in BOOLEAN
            /\ Flow!Answer(t, "doubtful")
  BY DEF Flow!Refuse
<1>2. CASE Flow!Add(t) /\ Flow!Faults(1) /\ up' \in BOOLEAN /\ Flow!Answer(t, "doubtful")
  <2>1. outages' \in 0 .. MaxOutages /\ outages' # 0
    BY <1>2, FaultsTyped DEF FlowInv
  <2>2. "doubtful" \in Added
    BY DEF Added
  <2>3. QED BY <1>1, <1>2, <2>1, <2>2, AddKeeps
<1>3. QED BY <1>1, <1>2

\* a submission that is refused or parked puts no task on its way
LEMMA RefuseParkKeeps ==
  ASSUME FlowInv, NEW t \in FlowTasks, Flow!Refuse(t) \/ Flow!Park(t)
  PROVE  FlowInv'
<1> SUFFICES ASSUME ~FlowInv' PROVE FALSE
  OBVIOUS
<1>0. /\ outcome[t] = "new"
      /\ \/ /\ Flow!Answer(t, "refused") /\ Flow!Outage /\ parked' = parked
         \/ /\ Flow!Answer(t, "parked") /\ UNCHANGED <<up, outages>>
            /\ t \in ViaGateway /\ parked' = Append(parked, t)
      /\ UNCHANGED <<unread, held, response, wraps, asked, resent>>
  <2>1. CASE Flow!Refuse(t)
    BY <2>1, RefuseKeeps
  <2>2. CASE Flow!Park(t)
    BY <2>2 DEF Flow!Park
  <2>3. QED BY <2>1, <2>2
<1>1. Flow!TypeOK
  BY DEF FlowInv
<1>2. /\ outcome \in [FlowTasks -> Flow!Outcomes]
      /\ outcome' = [outcome EXCEPT ![t] = "refused"]
         \/ outcome' = [outcome EXCEPT ![t] = "parked"]
  BY <1>0, <1>1, FlowTypes DEF Flow!Answer
<1>3. /\ up' \in BOOLEAN /\ outages' \in 0 .. MaxOutages
      /\ outages' = 0 => outages = 0 /\ up' = up
  <2>1. CASE Flow!Outage
    BY <1>1, <2>1, OutageTyped
  <2>2. CASE UNCHANGED <<up, outages>>
    BY <1>1, <2>2 DEF Flow!TypeOK
  <2>3. QED BY <1>0, <2>1, <2>2
<1>4. Flow!TypeOK'
  <2>1. parked' \in Seq(ViaGateway)
    <3>1. parked \in Seq(ViaGateway)
      BY <1>1 DEF Flow!TypeOK
    <3>2. CASE parked' = parked
      BY <3>1, <3>2
    <3>3. CASE t \in ViaGateway /\ parked' = Append(parked, t)
      BY <3>1, <3>3, AppendProperties
    <3>4. QED BY <1>0, <3>2, <3>3
  <2>2. outcome' \in [FlowTasks -> Flow!Outcomes]
    BY <1>2 DEF Flow!Outcomes
  <2>3. QED BY <1>0, <1>1, <1>3, <2>1, <2>2 DEF Flow!TypeOK
<1>5. Alone'
  BY <1>0 DEF FlowInv, Alone
<1>6. \A x \in FlowTasks : Travels(x)' <=> Travels(x)
  BY <1>0 DEF Travels
<1>7. \A x \in FlowTasks :
        \/ outcome'[x] = outcome[x]
        \/ outcome'[x] \notin Added /\ outcome[x] \notin Added
  BY <1>0, <1>2 DEF Added
<1>8. TravelsUnanswered'
  <2>1. TravelsUnanswered
    BY DEF FlowInv
  <2>2. QED BY ONLY <1>0, <1>6, <1>7, <2>1 DEF TravelsUnanswered
<1>9. NoneLostYet'
  <2>1. NoneLostYet
    BY DEF FlowInv
  <2>2. QED BY ONLY <1>0, <1>3, <1>6, <1>7, <2>1 DEF NoneLostYet, Added
<1>10. QED BY <1>4, <1>5, <1>8, <1>9 DEF FlowInv

\* a consumer takes the next task of its stream
LEMMA TakeKeepsFlow ==
  ASSUME FlowInv, NEW c \in FlowConsumers, Flow!Take(c)
  PROVE  FlowInv'
<1>0. /\ held[c] = "none" /\ unread[c] # << >>
      /\ held' = [held EXCEPT ![c] = Head(unread[c])]
      /\ unread' = [unread EXCEPT ![c] = Tail(@)]
      /\ UNCHANGED <<up, outages, outcome, parked, response, wraps, asked, resent>>
  BY DEF Flow!Take
<1>1. Flow!TypeOK /\ Alone
  BY DEF FlowInv
<1>2. /\ unread \in [FlowStreams -> Seq(FlowTasks)]
      /\ held \in [FlowConsumers -> FlowTasks \cup {"none"}]
      /\ "none" \notin FlowTasks /\ c \in FlowStreams
  BY <1>1, FlowTypes
<1>3. /\ unread' \in [FlowStreams -> Seq(FlowTasks)]
      /\ Head(unread[c]) \in FlowTasks /\ 1 \in DOMAIN unread[c]
      /\ Head(unread[c]) = unread[c][1]
      /\ \A r \in FlowStreams \ {c} : unread'[r] = unread[r]
      /\ \A i \in DOMAIN unread'[c] :
           /\ i \in Nat \ {0} /\ i + 1 \in DOMAIN unread[c]
           /\ unread'[c][i] = unread[c][i + 1]
      /\ \A i \in DOMAIN unread[c] :
           i # 1 => i - 1 \in DOMAIN unread'[c] /\ unread'[c][i - 1] = unread[c][i]
  BY ONLY <1>0, <1>2, TakeRemoves
<1> DEFINE t == unread[c][1]
<1>4. /\ held'[c] = t /\ t \in FlowTasks
      /\ \A d \in FlowConsumers \ {c} : held'[d] = held[d]
  BY <1>0, <1>2, <1>3
<1>5. Flow!TypeOK'
  <2>1. held' \in [{Router} \cup {action, gemini} -> FlowTasks \cup {"none"}]
    BY <1>0, <1>2, <1>3 DEF FlowConsumers
  <2>2. unread' \in [{Router, action, gemini, ironclaw} -> Seq(FlowTasks)]
    BY <1>3 DEF FlowStreams
  <2>3. QED BY <1>0, <1>1, <2>1, <2>2 DEF Flow!TypeOK, Flow!Consumers
<1>6. \A r \in FlowStreams : \A i \in DOMAIN unread'[r] :
        \E k \in DOMAIN unread[r] :
          /\ unread[r][k] = unread'[r][i]
          /\ k = (IF r = c THEN i + 1 ELSE i)
          /\ r = c => k # 1 /\ i = k - 1
  BY <1>3
<1>7. t \notin resent =>
        \A r \in FlowStreams : \A i \in DOMAIN unread'[r] : unread'[r][i] # t
  BY <1>1, <1>2, <1>3, <1>6 DEF Alone
<1>8. t \notin resent => \A d \in FlowConsumers : held[d] # t
  BY <1>1, <1>2, <1>3 DEF Alone
<1>9. Alone'
  <2>1. ASSUME NEW r \in FlowStreams, NEW s \in FlowStreams,
               NEW i \in DOMAIN unread'[r], NEW j \in DOMAIN unread'[s],
               unread'[r][i] = unread'[s][j], unread'[r][i] \notin resent
        PROVE  r = s /\ i = j
    <3>1. PICK k \in DOMAIN unread[r] :
            unread[r][k] = unread'[r][i] /\ (r = c => i = k - 1) /\ (r # c => i = k)
      BY <1>6
    <3>2. PICK l \in DOMAIN unread[s] :
            unread[s][l] = unread'[s][j] /\ (s = c => j = l - 1) /\ (s # c => j = l)
      BY <1>6
    <3>3. r = s /\ k = l
      BY <1>1, <2>1, <3>1, <3>2 DEF Alone
    <3>4. QED BY <3>1, <3>2, <3>3
  <2>2. ASSUME NEW d \in FlowConsumers, NEW e \in FlowConsumers,
               held'[d] # "none", held'[d] \notin resent, held'[d] = held'[e]
        PROVE  d = e
    BY <1>1, <1>4, <1>8, <2>2 DEF Alone
  <2>3. ASSUME NEW s \in FlowStreams, NEW d \in FlowConsumers,
               NEW i \in DOMAIN unread'[s], unread'[s][i] \notin resent
        PROVE  unread'[s][i] # held'[d]
    <3>1. CASE d = c
      BY <1>4, <1>7, <2>3, <3>1
    <3>2. CASE d # c
      BY <1>1, <1>4, <1>6, <2>3, <3>2 DEF Alone
    <3>3. QED BY <3>1, <3>2
  <2>4. resent' = resent
    BY <1>0
  <2>5. QED BY ONLY <2>1, <2>2, <2>3, <2>4 DEF Alone
<1>10. ASSUME NEW x \in FlowTasks
       PROVE  Travels(x)' <=> Travels(x)
  <2>1. ASSUME Travels(x)' PROVE Travels(x)
    <3>1. CASE \E r \in FlowStreams : \E i \in DOMAIN unread'[r] : unread'[r][i] = x
      BY <1>6, <3>1 DEF Travels
    <3>2. CASE \E d \in FlowConsumers : held'[d] = x
      BY <1>2, <1>3, <1>4, <3>2 DEF Travels
    <3>3. QED BY <2>1, <3>1, <3>2 DEF Travels
  <2>2. ASSUME NEW r \in FlowStreams, NEW i \in DOMAIN unread[r], unread[r][i] = x
        PROVE  Travels(x)'
    <3>1. CASE r # c
      BY <1>3, <2>2, <3>1 DEF Travels
    <3>2. CASE r = c /\ i = 1
      BY <1>4, <2>2, <3>2 DEF Travels
    <3>3. CASE r = c /\ i # 1
      BY <1>3, <2>2, <3>3 DEF Travels
    <3>4. QED BY <3>1, <3>2, <3>3
  <2>3. ASSUME NEW d \in FlowConsumers, held[d] = x PROVE Travels(x)'
    BY <1>0, <1>2, <1>4, <2>3 DEF Travels
  <2>4. QED BY <2>1, <2>2, <2>3 DEF Travels
<1>11. TravelsUnanswered'
  BY <1>0, <1>10 DEF FlowInv, TravelsUnanswered
<1>12. NoneLostYet'
  BY <1>0, <1>10 DEF FlowInv, NoneLostYet
<1>13. QED BY <1>5, <1>9, <1>11, <1>12 DEF FlowInv

\* a task with a hand that lets it go travels no more
LEMMA Released ==
  ASSUME FlowInv, NEW c \in FlowConsumers, held[c] # "none",
         held' = [held EXCEPT ![c] = "none"]
  PROVE  /\ held' \in [FlowConsumers -> FlowTasks \cup {"none"}]
         /\ held[c] \in FlowTasks /\ held'[c] = "none"
         /\ \A d \in FlowConsumers : held'[d] = held[d] \/ held'[d] = "none"
         /\ \A d \in FlowConsumers : held[d] = held[c] \/ held'[d] = held[d]
         /\ held[c] \notin resent =>
              /\ \A d \in FlowConsumers : held'[d] # held[c]
              /\ \A s \in FlowStreams : \A i \in DOMAIN unread[s] :
                   unread[s][i] # held[c]
         /\ outcome[held[c]] \in Added
         /\ held[c] \in resent \/ response[held[c]] = "none"
<1>1. held \in [FlowConsumers -> FlowTasks \cup {"none"}] /\ "none" \notin FlowTasks
  BY FlowTypes DEF FlowInv
<1>2. Alone
  BY DEF FlowInv
<1>3. held[c] \in FlowTasks /\ Travels(held[c])
  BY <1>1 DEF Travels
<1>4. outcome[held[c]] \in Added /\ (held[c] \in resent \/ response[held[c]] = "none")
  BY <1>3 DEF FlowInv, TravelsUnanswered
<1>5. QED BY <1>1, <1>2, <1>3, <1>4 DEF Alone

\* while Redis is away, or once it was, an accepted task may be lost
LEMMA DroppedWhileAway ==
  ASSUME FlowInv, NEW c \in FlowConsumers, held[c] # "none",
         \/ Flow!Outage
         \/ ~up /\ UNCHANGED <<up, outages>>
  PROVE  NoneLostYet' /\ up' \in BOOLEAN /\ outages' \in 0 .. MaxOutages
<1>1. Flow!TypeOK /\ held[c] \in FlowTasks
  BY FlowTypes DEF FlowInv
<1>2. CASE Flow!Outage
  BY <1>1, <1>2, OutageTyped DEF NoneLostYet
<1>3. CASE ~up /\ UNCHANGED <<up, outages>>
  <2>1. outcome[held[c]] \in Added
    BY <1>1 DEF FlowInv, TravelsUnanswered, Travels
  <2>2. outages # 0
    BY <1>1, <1>3, <2>1 DEF FlowInv, NoneLostYet, Added
  <2>3. QED BY <1>1, <1>3, <2>2 DEF NoneLostYet, Flow!TypeOK
<1>4. QED BY <1>2, <1>3

\* the router's hand lets the task go and n copies of it are added
LEMMA DeliverCopiesKeeps ==
  ASSUME FlowInv, NEW t \in FlowTasks, t = held[Router], t # "none",
         held' = [held EXCEPT ![Router] = "none"],
         UNCHANGED <<outcome, parked, response, asked>>,
         NEW to \in FlowStreams, NEW n \in Nat \ {0}, up, Flow!Copies(to, t, n),
         Flow!Wrap(t), up' \in BOOLEAN, outages' \in 0 .. MaxOutages,
         \/ outages' = 0 /\ outages = 0 /\ n = 1 /\ up' = up /\ resent' = resent
         \/ outages' = outages /\ outages # 0 /\ n = 1 /\ resent' = resent
         \/ outages' # 0 /\ resent' = resent \cup {t}
  PROVE  FlowInv'
<1>1. Flow!TypeOK /\ Alone /\ TravelsUnanswered /\ NoneLostYet
      /\ Router \in FlowConsumers
  BY DEF FlowInv, FlowConsumers
<1>2. /\ unread \in [FlowStreams -> Seq(FlowTasks)]
      /\ outcome \in [FlowTasks -> Flow!Outcomes] /\ resent \subseteq FlowTasks
      /\ "none" \notin FlowTasks
  BY <1>1, FlowTypes
<1>3. /\ held' \in [FlowConsumers -> FlowTasks \cup {"none"}]
      /\ held'[Router] = "none"
      /\ \A d \in FlowConsumers : held'[d] = held[d] \/ held'[d] = "none"
      /\ \A d \in FlowConsumers : held[d] = t \/ held'[d] = held[d]
      /\ t \notin resent =>
           /\ \A d \in FlowConsumers : held'[d] # t
           /\ \A s \in FlowStreams : \A i \in DOMAIN unread[s] : unread[s][i] # t
      /\ outcome[t] \in Added
      /\ t \in resent \/ response[t] = "none"
  <2> DEFINE h == held[Router]
  <2>1. /\ held' \in [FlowConsumers -> FlowTasks \cup {"none"}]
        /\ held'[Router] = "none"
        /\ \A d \in FlowConsumers : held'[d] = held[d] \/ held'[d] = "none"
        /\ \A d \in FlowConsumers : held[d] = h \/ held'[d] = held[d]
        /\ h \notin resent =>
             /\ \A d \in FlowConsumers : held'[d] # h
             /\ \A s \in FlowStreams : \A i \in DOMAIN unread[s] : unread[s][i] # h
        /\ outcome[h] \in Added
        /\ h \in resent \/ response[h] = "none"
    BY <1>1, Released
  <2>2. h = t
    OBVIOUS
  <2> HIDE DEF h
  <2>3. QED BY ONLY <2>1, <2>2
<1>4. /\ unread' \in [FlowStreams -> Seq(FlowTasks)]
      /\ \A r \in FlowStreams : \A i \in DOMAIN unread[r] :
           i \in DOMAIN unread'[r] /\ unread'[r][i] = unread[r][i]
      /\ \E i \in DOMAIN unread'[to] : unread'[to][i] = t
      /\ \A r \in FlowStreams : \A i \in DOMAIN unread'[r] :
           \/ i \in DOMAIN unread[r] /\ unread'[r][i] = unread[r][i]
           \/ r = to /\ unread'[r][i] = t /\ (n = 1 => i = Len(unread[to]) + 1)
  BY <1>2, CopiesAdded
<1>5. Flow!TypeOK'
  <2>1. wraps' \in [FlowTasks -> 0 .. MaxWraps]
    BY <1>1, WrapTyped
  <2>2. held' \in [{Router} \cup {action, gemini} -> FlowTasks \cup {"none"}]
    BY <1>3 DEF FlowConsumers
  <2>3. unread' \in [{Router, action, gemini, ironclaw} -> Seq(FlowTasks)]
    BY <1>4 DEF FlowStreams
  <2>4. resent' \subseteq FlowTasks
    BY <1>2
  <2>5. QED BY <1>1, <2>1, <2>2, <2>3, <2>4 DEF Flow!TypeOK, Flow!Consumers
<1>6. resent \subseteq resent' /\ (t \in resent' \/ (n = 1 /\ t \notin resent))
  OBVIOUS
<1>7. Alone'
  <2>1. ASSUME NEW r \in FlowStreams, NEW s \in FlowStreams,
               NEW i \in DOMAIN unread'[r], NEW j \in DOMAIN unread'[s],
               unread'[r][i] = unread'[s][j], unread'[r][i] \notin resent'
        PROVE  r = s /\ i = j
    <3>1. CASE unread'[r][i] = t
      <4>1. /\ n = 1 /\ t \notin resent
            /\ \A z \in FlowStreams : \A k \in DOMAIN unread[z] : unread[z][k] # t
        BY ONLY <1>3, <1>6, <2>1, <3>1
      <4>2. \A z \in FlowStreams : \A k \in DOMAIN unread'[z] :
              unread'[z][k] = t => z = to /\ k = Len(unread[to]) + 1
        BY ONLY <1>4, <4>1
      <4>3. QED BY ONLY <2>1, <3>1, <4>2
    <3>2. CASE unread'[r][i] # t
      <4>1. /\ i \in DOMAIN unread[r] /\ unread'[r][i] = unread[r][i]
            /\ j \in DOMAIN unread[s] /\ unread'[s][j] = unread[s][j]
        BY ONLY <1>4, <2>1, <3>2
      <4>2. unread[r][i] = unread[s][j] /\ unread[r][i] \notin resent
        BY ONLY <1>6, <2>1, <4>1
      <4>3. QED BY ONLY <1>1, <4>1, <4>2 DEF Alone
    <3>3. QED BY <3>1, <3>2
  <2>2. ASSUME NEW d \in FlowConsumers, NEW e \in FlowConsumers,
               held'[d] # "none", held'[d] \notin resent', held'[d] = held'[e]
        PROVE  d = e
    BY ONLY <1>1, <1>3, <1>6, <2>2 DEF Alone
  <2>3. ASSUME NEW s \in FlowStreams, NEW d \in FlowConsumers,
               NEW i \in DOMAIN unread'[s], unread'[s][i] \notin resent'
        PROVE  unread'[s][i] # held'[d]
    <3>1. unread'[s][i] \in FlowTasks
      BY <1>4, ElementOfSeq, LenProperties
    <3>2. CASE unread'[s][i] = t
      BY ONLY <1>3, <1>6, <2>3, <3>2
    <3>3. CASE i \in DOMAIN unread[s] /\ unread'[s][i] = unread[s][i]
      <4>1. unread[s][i] # held[d] /\ unread[s][i] # "none"
        BY ONLY <1>1, <1>2, <1>6, <2>3, <3>1, <3>3 DEF Alone
      <4>2. QED BY ONLY <1>3, <3>3, <4>1
    <3>4. QED BY ONLY <1>4, <3>2, <3>3
  <2>4. QED BY ONLY <2>1, <2>2, <2>3 DEF Alone
<1>8. \A x \in FlowTasks : Travels(x)' <=> Travels(x)
  <2>1. ASSUME NEW x \in FlowTasks, Travels(x) PROVE Travels(x)'
    <3>1. CASE x = t
      BY ONLY <1>4, <3>1 DEF Travels
    <3>2. CASE x # t
      BY ONLY <1>3, <1>4, <2>1, <3>2 DEF Travels
    <3>3. QED BY <3>1, <3>2
  <2>2. ASSUME NEW x \in FlowTasks, Travels(x)' PROVE Travels(x)
    <3>1. CASE x = t
      BY <1>1, <3>1 DEF Travels
    <3>2. CASE x # t
      <4>1. CASE \E s \in FlowStreams : \E i \in DOMAIN unread'[s] : unread'[s][i] = x
        BY ONLY <1>4, <3>2, <4>1 DEF Travels
      <4>2. CASE \E d \in FlowConsumers : held'[d] = x
        BY ONLY <1>2, <1>3, <4>2 DEF Travels
      <4>3. QED BY <2>2, <4>1, <4>2 DEF Travels
    <3>3. QED BY <3>1, <3>2
  <2>3. QED BY <2>1, <2>2
<1>9. UNCHANGED <<outcome, response>>
  OBVIOUS
<1>10. TravelsUnanswered'
  BY ONLY <1>1, <1>6, <1>8, <1>9 DEF TravelsUnanswered
<1>11. NoneLostYet'
  <2>1. CASE outages' # 0
    BY ONLY <2>1 DEF NoneLostYet
  <2>2. CASE outages' = 0 /\ outages = 0 /\ up' = up /\ resent' = resent
    BY ONLY <1>1, <1>8, <1>9, <2>2 DEF NoneLostYet
  <2>3. QED BY <2>1, <2>2
<1>12. QED BY <1>5, <1>7, <1>10, <1>11 DEF FlowInv

\* a task is dropped from a hand, and with it what the caller waits for
LEMMA DropKeeps ==
  ASSUME FlowInv, NEW c \in FlowConsumers, held[c] # "none",
         held' = [held EXCEPT ![c] = "none"],
         UNCHANGED <<outcome, parked, unread, response, wraps, resent>>,
         asked' \subseteq FlowTasks \X (0 .. MaxWraps),
         \/ Flow!Outage
         \/ ~up /\ UNCHANGED <<up, outages>>
  PROVE  FlowInv'
<1> DEFINE t == held[c]
<1>1. Flow!TypeOK /\ Alone
  BY DEF FlowInv
<1>2. /\ unread \in [FlowStreams -> Seq(FlowTasks)] /\ "none" \notin FlowTasks
  BY <1>1, FlowTypes
<1>3. /\ held' \in [FlowConsumers -> FlowTasks \cup {"none"}]
      /\ \A d \in FlowConsumers : held'[d] = held[d] \/ held'[d] = "none"
  BY Released
<1>4. NoneLostYet' /\ up' \in BOOLEAN /\ outages' \in 0 .. MaxOutages
  BY DroppedWhileAway
<1>5. Flow!TypeOK'
  <2>1. held' \in [{Router} \cup {action, gemini} -> FlowTasks \cup {"none"}]
    BY <1>3 DEF FlowConsumers
  <2>2. QED BY <1>1, <1>4, <2>1 DEF Flow!TypeOK, Flow!Consumers
<1>6. UNCHANGED <<unread, resent, outcome, response>>
  OBVIOUS
<1>7. Alone'
  <2>1. \A s \in FlowStreams : \A i \in DOMAIN unread[s] : unread[s][i] \in FlowTasks
    BY <1>2, ElementOfSeq, LenProperties
  <2>2. \A s \in FlowStreams, d \in FlowConsumers : \A i \in DOMAIN unread[s] :
          unread[s][i] \notin resent => unread[s][i] # held'[d]
    BY ONLY <1>1, <1>2, <1>3, <2>1 DEF Alone
  <2>3. QED BY ONLY <1>1, <1>3, <1>6, <2>2 DEF Alone
<1>8. \A x \in FlowTasks : Travels(x)' => Travels(x)
  BY ONLY <1>2, <1>3, <1>6 DEF Travels
<1>9. TravelsUnanswered'
  <2>1. TravelsUnanswered
    BY DEF FlowInv
  <2>2. QED BY ONLY <1>6, <1>8, <2>1 DEF TravelsUnanswered
<1>10. QED BY <1>4, <1>5, <1>7, <1>9 DEF FlowInv

\* the router passes the task on, or loses it in an outage
LEMMA RouteKeeps ==
  ASSUME FlowInv, Flow!Route
  PROVE  FlowInv'
<1> DEFINE t == held[Router]
<1>0. /\ t # "none" /\ held' = [held EXCEPT ![Router] = "none"]
      /\ UNCHANGED <<outcome, parked, response, asked>>
  BY DEF Flow!Route, Flow!Release
<1>1. Flow!TypeOK /\ Router \in FlowConsumers
  BY DEF FlowInv, FlowConsumers
<1>2. t \in FlowTasks /\ asked \subseteq FlowTasks \X (0 .. MaxWraps)
      /\ outages \in 0 .. MaxOutages /\ MaxRetries \in Nat /\ MaxOutages \in Nat
      /\ up \in BOOLEAN
  BY <1>0, <1>1, Released, FlowConstants DEF Flow!TypeOK, Flow!FlowAssumption
<1>3. \/ \E n \in 1 .. MaxRetries + 1 : Flow!Deliver(t, n)
      \/ Flow!Outage /\ UNCHANGED <<unread, wraps, resent>>
      \/ ~up /\ UNCHANGED <<up, outages, unread, wraps, resent>>
  BY DEF Flow!Route
<1>4. Flow!Routed(t) \subseteq FlowStreams
  <2>1. /\ FallbackMap \in [Intents -> FlowStreams] /\ Router \in FlowStreams
        /\ (IF t = internal THEN {inner} ELSE {conversation, act}) \subseteq Intents
        /\ (IF t = direct THEN action ELSE NoDest) \in FlowStreams \cup {NoDest}
    BY <1>2, FlowConstants DEF Flow!FlowAssumption, FlowStreams
  <2>2. Flow!DestOf(t) \in FlowStreams \cup {NoDest}
    BY <1>2, <2>1 DEF Flow!DestOf
  <2>3. ASSUME NEW to \in Flow!Routed(t) PROVE to \in FlowStreams
    <3>1. CASE Flow!DestOf(t) = NoDest
      <4>1. PICK i \in (IF t = internal THEN {inner} ELSE {conversation, act}) :
              to = FallbackMap[i]
        BY <1>2, <2>3, <3>1 DEF Flow!Routed
      <4>2. QED BY ONLY <2>1, <4>1
    <3>2. CASE Flow!DestOf(t) # NoDest
      BY <2>2, <2>3, <3>2 DEF Flow!Routed
    <3>3. QED BY <3>1, <3>2
  <2>4. QED BY <2>3
<1>5. ASSUME NEW n \in 1 .. MaxRetries + 1, Flow!Deliver(t, n) PROVE FlowInv'
  <2>1. n \in Nat \ {0} /\ n - 1 \in Nat
    BY <1>2
  <2>2. PICK to \in FlowStreams : Flow!Copies(to, t, n)
    BY <1>4, <1>5 DEF Flow!Deliver
  <2>3. /\ up /\ Flow!Wrap(t)
        /\ resent' = IF outages' = outages THEN resent ELSE resent \cup {t}
    BY <1>5 DEF Flow!Deliver
  <2>4. \/ Flow!Faults(n - 1) /\ up' = up
        \/ Flow!Faults(n) /\ up' \in BOOLEAN
    BY <1>5 DEF Flow!Deliver
  <2>5. /\ up' \in BOOLEAN /\ outages' \in 0 .. MaxOutages
        /\ \/ outages' = outages /\ n = 1 /\ up' = up
           \/ outages' # outages /\ outages' # 0
    <3>1. CASE Flow!Faults(n - 1) /\ up' = up
      <4>1. /\ outages \in Nat /\ outages' = outages + (n - 1)
            /\ outages' \in 0 .. MaxOutages
        BY <1>1, <2>1, <3>1, FaultsTyped
      <4>2. QED BY <1>2, <2>1, <3>1, <4>1
    <3>2. CASE Flow!Faults(n) /\ up' \in BOOLEAN
      <4>1. /\ outages \in Nat /\ outages' = outages + n
            /\ outages' \in 0 .. MaxOutages
        BY <1>1, <2>1, <3>2, FaultsTyped
      <4>2. QED BY <2>1, <3>2, <4>1
    <3>3. QED BY <2>4, <3>1, <3>2
  <2> HIDE DEF t
  <2>6. t = held[Router]
    BY DEF t
  <2>7. \/ outages' = 0 /\ outages = 0 /\ n = 1 /\ up' = up /\ resent' = resent
        \/ outages' = outages /\ outages # 0 /\ n = 1 /\ resent' = resent
        \/ outages' # 0 /\ resent' = resent \cup {t}
    BY ONLY <2>3, <2>5
  <2>8. QED BY <1>0, <1>2, <2>1, <2>2, <2>3, <2>5, <2>6, <2>7, DeliverCopiesKeeps
<1>6. ASSUME \/ Flow!Outage
             \/ ~up /\ UNCHANGED <<up, outages>>,
             UNCHANGED <<unread, wraps, resent>>
      PROVE  FlowInv'
  BY <1>0, <1>1, <1>2, <1>6, DropKeeps
<1>7. QED BY <1>3, <1>5, <1>6

\* a worker answers the task, or its answer is lost in an outage
LEMMA WorkKeeps ==
  ASSUME FlowInv, NEW c \in {action, gemini}, Flow!Work(c)
  PROVE  FlowInv'
<1> DEFINE t == held[c]
<1>0. /\ t # "none" /\ held' = [held EXCEPT ![c] = "none"]
      /\ UNCHANGED <<outcome, parked, unread, wraps, resent>>
  BY DEF Flow!Work, Flow!Release
<1>1. Flow!TypeOK /\ Alone /\ c \in FlowConsumers
  BY DEF FlowInv, FlowConsumers
<1>2. /\ unread \in [FlowStreams -> Seq(FlowTasks)]
      /\ response \in [FlowTasks -> {"none", "success", "failure"}]
      /\ "none" \notin FlowTasks
  BY <1>1, FlowTypes
<1>3. /\ held' \in [FlowConsumers -> FlowTasks \cup {"none"}]
      /\ t \in FlowTasks /\ held'[c] = "none"
      /\ \A d \in FlowConsumers : held'[d] = held[d] \/ held'[d] = "none"
      /\ \A d \in FlowConsumers : held[d] = t \/ held'[d] = held[d]
      /\ t \notin resent =>
           /\ \A d \in FlowConsumers : held'[d] # t
           /\ \A s \in FlowStreams : \A i \in DOMAIN unread[s] : unread[s][i] # t
      /\ outcome[t] \in Added
  BY <1>0, <1>1, Released
<1>4. asked' \subseteq FlowTasks \X (0 .. MaxWraps)
  <2>1. /\ asked \subseteq FlowTasks \X (0 .. MaxWraps)
        /\ wraps \in [FlowTasks -> 0 .. MaxWraps]
    BY <1>1 DEF Flow!TypeOK
  <2>2. asked' = asked \/ asked' = asked \cup {<<t, wraps[t]>>}
    BY DEF Flow!Work, Flow!Ask
  <2>3. QED BY <1>3, <2>1, <2>2
<1>5. ASSUME NEW r \in {"success", "failure"}, response' = [response EXCEPT ![t] = r],
             UNCHANGED <<up, outages>>
      PROVE  FlowInv'
  <2>1. held[c] = t
    OBVIOUS
  <2> HIDE DEF t
  <2>2. response' \in [FlowTasks -> {"none", "success", "failure"}]
        /\ \A x \in FlowTasks : response'[x] = IF x = t THEN r ELSE response[x]
    BY <1>2, <1>3, <1>5
  <2>3. Flow!TypeOK'
    <3>1. held' \in [{Router} \cup {action, gemini} -> FlowTasks \cup {"none"}]
      BY <1>3 DEF FlowConsumers
    <3>2. QED BY <1>0, <1>1, <1>4, <1>5, <2>2, <3>1 DEF Flow!TypeOK, Flow!Consumers
  <2>4. UNCHANGED <<unread, resent, outcome>>
    BY <1>0
  <2>5. Alone'
    <3>1. \A s \in FlowStreams : \A i \in DOMAIN unread[s] : unread[s][i] \in FlowTasks
      BY <1>2, ElementOfSeq, LenProperties
    <3>2. \A s \in FlowStreams, d \in FlowConsumers : \A i \in DOMAIN unread[s] :
            unread[s][i] \notin resent => unread[s][i] # held'[d]
      BY ONLY <1>1, <1>2, <1>3, <3>1 DEF Alone
    <3>3. QED BY ONLY <1>1, <1>3, <2>4, <3>2 DEF Alone
  <2>6. /\ \A x \in FlowTasks : Travels(x)' => Travels(x)
        /\ \A x \in FlowTasks \ {t} : Travels(x) => Travels(x)'
        /\ \A x \in FlowTasks : x = t /\ Travels(x)' => x \in resent
    <3>1. \A x \in FlowTasks : Travels(x)' => Travels(x)
      BY ONLY <1>2, <1>3, <2>4 DEF Travels
    <3>2. \A x \in FlowTasks \ {t} : Travels(x) => Travels(x)'
      BY ONLY <1>2, <1>3, <2>1, <2>4 DEF Travels
    <3>3. \A x \in FlowTasks : x = t /\ Travels(x)' => x \in resent
      BY ONLY <1>3, <2>4 DEF Travels
    <3>4. QED BY <3>1, <3>2, <3>3
  <2>7. TravelsUnanswered'
    <3>1. TravelsUnanswered
      BY DEF FlowInv
    <3>2. QED BY ONLY <1>3, <2>2, <2>4, <2>6, <3>1 DEF TravelsUnanswered
  <2>8. NoneLostYet'
    <3>1. NoneLostYet
      BY DEF FlowInv
    <3>2. ASSUME outages = 0, NEW x \in FlowTasks, outcome[x] = "accepted"
          PROVE  up /\ (Travels(x)' \/ response'[x] # "none")
      <4>1. up /\ (Travels(x) \/ response[x] # "none")
        BY <3>1, <3>2 DEF NoneLostYet
      <4>2. CASE x = t
        BY ONLY <2>2, <4>1, <4>2
      <4>3. CASE x # t
        BY ONLY <2>2, <2>6, <4>1, <4>3
      <4>4. QED BY <4>2, <4>3
    <3>3. QED BY ONLY <1>5, <2>4, <3>1, <3>2 DEF NoneLostYet
  <2>9. QED BY <2>3, <2>5, <2>7, <2>8 DEF FlowInv
<1>6. ASSUME \/ Flow!Outage
             \/ ~up /\ UNCHANGED <<up, outages>>,
             UNCHANGED response
      PROVE  FlowInv'
  BY <1>0, <1>1, <1>4, <1>6, DropKeeps
<1>7. Flow!Attempts(c, t) \subseteq {"success", "failure"}
  BY DEF Flow!Attempts
<1>8. \/ /\ UNCHANGED <<up, outages>>
         /\ \E r \in {"success", "failure"} : response' = [response EXCEPT ![t] = r]
      \/ Flow!Outage /\ UNCHANGED response
      \/ ~up /\ UNCHANGED <<up, outages, response>>
  BY <1>7 DEF Flow!Work
<1>9. QED BY <1>5, <1>6, <1>8

\* no step of the request path breaks its invariant
LEMMA FlowStepKeeps == FlowInv /\ [Flow!Next]_(Flow!vars) => FlowInv'
<1> SUFFICES ASSUME FlowInv, [Flow!Next]_(Flow!vars) PROVE FlowInv'
  OBVIOUS
<1>1. Flow!TypeOK
  BY DEF FlowInv
<1>2. ASSUME Flow!TypeOK', NoneLostYet', UNCHANGED <<unread, held, outcome, response, resent>>
      PROVE  FlowInv'
  <2>1. Alone'
    BY <1>2 DEF FlowInv, Alone
  <2>2. \A x \in FlowTasks : Travels(x)' <=> Travels(x)
    BY <1>2 DEF Travels
  <2>3. TravelsUnanswered'
    BY <1>2, <2>2 DEF FlowInv, TravelsUnanswered
  <2>4. QED BY <1>2, <2>1, <2>3 DEF FlowInv
<1>3. ASSUME NEW t \in FlowTasks, Flow!Submit(t) PROVE FlowInv'
  BY <1>3, AcceptKeeps, RefuseParkKeeps DEF Flow!Submit
<1>4. ASSUME NEW c \in Flow!Consumers, Flow!Take(c) PROVE FlowInv'
  BY <1>4, TakeKeepsFlow DEF Flow!Consumers, FlowConsumers
<1>5. CASE Flow!RedisDown
  <2>1. UNCHANGED <<outcome, parked, unread, held, response, wraps, asked, resent>>
        /\ Flow!Outage
    BY <1>5 DEF Flow!RedisDown
  <2>2. up' \in BOOLEAN /\ outages' \in 0 .. MaxOutages /\ outages' # 0
    BY <1>1, <2>1, OutageTyped
  <2>3. Flow!TypeOK'
    BY <1>1, <2>1, <2>2 DEF Flow!TypeOK
  <2>4. QED BY <1>2, <2>1, <2>2, <2>3 DEF NoneLostYet
<1>6. CASE Flow!RedisBack
  <2>1. UNCHANGED <<outages, outcome, parked, unread, held, response, wraps, asked, resent>>
        /\ up' = TRUE
    BY <1>6 DEF Flow!RedisBack
  <2>2. Flow!TypeOK'
    BY <1>1, <2>1 DEF Flow!TypeOK
  <2>3. NoneLostYet'
    <3>1. \A x \in FlowTasks : Travels(x)' <=> Travels(x)
      BY <2>1 DEF Travels
    <3>2. QED BY <2>1, <3>1 DEF FlowInv, NoneLostYet
  <2>4. QED BY <1>2, <2>1, <2>2, <2>3
<1>7. CASE UNCHANGED Flow!vars
  <2>1. UNCHANGED <<up, outages, outcome, parked, unread, held, response, wraps, asked, resent>>
    BY <1>7 DEF Flow!vars
  <2>2. Flow!TypeOK'
    BY <1>1, <2>1 DEF Flow!TypeOK
  <2>3. NoneLostYet'
    <3>1. \A x \in FlowTasks : Travels(x)' <=> Travels(x)
      BY <2>1 DEF Travels
    <3>2. QED BY <2>1, <3>1 DEF FlowInv, NoneLostYet
  <2>4. QED BY <1>2, <2>1, <2>2, <2>3
<1>8. QED
  BY <1>3, <1>4, <1>5, <1>6, <1>7, RouteKeeps, WorkKeeps DEF Flow!Next

(* OnePlace: only a task that was added travels; it is in one place at a   *)
(* time and not answered while it travels, unless PicoClaw's client sent   *)
(* it again; and while nothing failed an accepted one is not lost.         *)
THEOREM TaskInOnePlace == PartsSpec => []OnePlace
<1>1. PartsInit => FlowInv
  BY FlowInit DEF PartsInit
<1>2. FlowInv /\ [PartsNext]_allVars => FlowInv'
  <2> SUFFICES ASSUME FlowInv, [PartsNext]_allVars PROVE FlowInv'
    OBVIOUS
  <2>1. Flow!Next \/ UNCHANGED flowVars
    BY DEF PartsNext, RouterStep, FlowStep, allVars
  <2>2. UNCHANGED flowVars => UNCHANGED Flow!vars
    BY DEF flowVars, Flow!vars
  <2>3. QED BY <2>1, <2>2, FlowStepKeeps
<1>3. FlowInv => OnePlace
  BY FlowInvImpliesOnePlace DEF OnePlace
<1>4. QED BY <1>1, <1>2, <1>3, PTL DEF PartsSpec
=============================================================================
