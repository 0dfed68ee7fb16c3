------------------------ MODULE OpenClawPipelineProofs ------------------------
(* Proofs about OpenClawPipeline: the books of both streams, that no       *)
(* acknowledged request to Gemini is without a response, and that nothing  *)
(* but a fault leaves an entry pending or without its responses.           *)
EXTENDS OpenClawPipeline, FiniteSetTheorems, TLAPS

USE PipelineAssumption DEF PipelineAssumption

Inv == TypeOK /\ Books

-----------------------------------------------------------------------------
(* What each kind of move of a loop does to the book of its stream.        *)

\* the types of what concerns one stream
LEMMA BookTypes ==
  ASSUME TypeOK, NEW s \in Streams
  PROVE  /\ lastId[s] \in Nat /\ len[s] \in Nat /\ at[s] \in Nat
         /\ pel[s] \subseteq Nat /\ acked[s] \subseteq Nat
         /\ step[s] \in Steps
  BY DEF TypeOK

\* another loop's move, or one that concerns neither loops nor entries
LEMMA BookKept ==
  ASSUME NEW s \in Streams, Book(s), step'[s] = step[s], at'[s] = at[s],
         lastId'[s] = lastId[s], pel'[s] = pel[s], acked'[s] = acked[s],
         lastId'[s] <= len'[s], proc' = proc
  PROVE  Book(s)'
  BY DEF Book, Handling

\* from one await of the handler to the next
LEMMA BookMoves ==
  ASSUME TypeOK, NEW s \in Streams, Book(s), NEW p \in Steps, Handling(s),
         p \notin {"idle", "read"},
         p \in {"work", "reply", "ack"} => step[s] \in {"work", "reply", "ack"},
         Goto(s, p),
         UNCHANGED <<proc, len, lastId, pel, acked, at>>
  PROVE  Book(s)'
<1>1. step'[s] = p
  BY DEF Goto, TypeOK
<1>2. QED BY <1>1 DEF Book, Handling, Steps

\* an acknowledgement after which the loop takes the next entry
LEMMA BookFinishes ==
  ASSUME TypeOK, NEW s \in Streams, Book(s), Handling(s),
         Acknowledge(s), Finish(s), UNCHANGED <<proc, len, lastId>>
  PROVE  Book(s)'
<1>1. /\ pel'[s] = pel[s] \ {at[s]} /\ acked'[s] = acked[s] \cup {at[s]}
      /\ at'[s] = at[s] + 1
      /\ step'[s] = IF at[s] < lastId[s] THEN "work" ELSE "read"
  BY DEF TypeOK, Acknowledge, Finish, Goto
<1>2. /\ at[s] \in 1 .. lastId[s] /\ lastId[s] \in Nat /\ lastId[s] <= len[s]
      /\ pel[s] \cup acked[s] = 1 .. lastId[s] /\ pel[s] \cap acked[s] = {}
      /\ at[s] + 1 .. lastId[s] \subseteq pel[s]
      /\ proc # "off"
  BY BookTypes DEF Book, Handling
<1>3. /\ pel'[s] \cup acked'[s] = 1 .. lastId[s] /\ pel'[s] \cap acked'[s] = {}
      /\ at'[s] + 1 .. lastId[s] \subseteq pel'[s]
      /\ at[s] < lastId[s] => at'[s] \in pel'[s] /\ at'[s] \in 1 .. lastId[s]
      /\ ~(at[s] < lastId[s]) => at'[s] = lastId[s] + 1
  BY ONLY <1>1, <1>2
<1>4. CASE at[s] < lastId[s]
  BY <1>1, <1>2, <1>3, <1>4 DEF Book, Handling
<1>5. CASE ~(at[s] < lastId[s])
  BY <1>1, <1>2, <1>3, <1>5 DEF Book, Handling
<1>6. QED BY <1>4, <1>5

\* an acknowledgement that failed, applied or not, and the move to a catch
LEMMA BookCatches ==
  ASSUME TypeOK, NEW s \in Streams, Book(s), Handling(s),
         Acknowledge(s) \/ UNCHANGED <<pel, acked>>,
         NEW p \in {"report", "discard"}, Goto(s, p),
         UNCHANGED <<proc, len, lastId, at>>
  PROVE  Book(s)'
<1>1. step'[s] = p
  BY DEF Goto, TypeOK
<1>2. \/ pel'[s] = pel[s] \ {at[s]} /\ acked'[s] = acked[s] \cup {at[s]}
      \/ pel'[s] = pel[s] /\ acked'[s] = acked[s]
  BY DEF TypeOK, Acknowledge
<1>3. /\ at[s] \in 1 .. lastId[s] /\ lastId[s] \in Nat
      /\ pel[s] \cup acked[s] = 1 .. lastId[s] /\ pel[s] \cap acked[s] = {}
      /\ at[s] + 1 .. lastId[s] \subseteq pel[s]
  BY BookTypes DEF Book, Handling
<1>4. /\ pel'[s] \cup acked'[s] = 1 .. lastId[s] /\ pel'[s] \cap acked'[s] = {}
      /\ at[s] + 1 .. lastId[s] \subseteq pel'[s]
  BY ONLY <1>2, <1>3
<1>5. QED BY <1>1, <1>3, <1>4 DEF Book, Handling

\* an error that leaves the handler, in an acknowledgement or elsewhere
LEMMA BookAbandons ==
  ASSUME TypeOK, NEW s \in Streams, Book(s), Handling(s),
         Acknowledge(s) \/ UNCHANGED <<pel, acked>>,
         AbandonBatch(s), UNCHANGED <<proc, len, lastId>>
  PROVE  Book(s)'
<1>1. step'[s] = "read" /\ at'[s] = lastId[s] + 1
  BY DEF AbandonBatch, Goto, TypeOK
<1>2. \/ pel'[s] = pel[s] \ {at[s]} /\ acked'[s] = acked[s] \cup {at[s]}
      \/ pel'[s] = pel[s] /\ acked'[s] = acked[s]
  BY DEF TypeOK, Acknowledge
<1>3. /\ at[s] \in 1 .. lastId[s] /\ lastId[s] \in Nat
      /\ pel[s] \cup acked[s] = 1 .. lastId[s] /\ pel[s] \cap acked[s] = {}
  BY BookTypes DEF Book, Handling
<1>4. /\ pel'[s] \cup acked'[s] = 1 .. lastId[s] /\ pel'[s] \cap acked'[s] = {}
      /\ at'[s] + 1 .. lastId[s] = {}
  BY ONLY <1>1, <1>2, <1>3
<1>5. QED BY <1>1, <1>3, <1>4 DEF Book, Handling

\* a block read, and handed to the loop or lost
LEMMA BookReads ==
  ASSUME TypeOK, NEW s \in Streams, Book(s), step[s] = "read", Take(s),
         \/ step'[s] = "work" /\ at'[s] = at[s]
         \/ step'[s] = "read" /\ at'[s] = lastId'[s] + 1,
         UNCHANGED <<proc, len, acked>>
  PROVE  Book(s)'
<1>1. /\ lastId[s] \in Nat /\ len[s] \in Nat /\ at[s] = lastId[s] + 1
      /\ pel[s] \cup acked[s] = 1 .. lastId[s] /\ pel[s] \cap acked[s] = {}
      /\ proc # "off" /\ lastId[s] < len[s]
  BY BookTypes DEF Book, Handling, Take
<1>2. /\ lastId'[s] = Min(lastId[s] + BatchCount, len[s])
      /\ pel'[s] = pel[s] \cup (lastId[s] + 1 .. lastId'[s])
  BY DEF TypeOK, Take
<1>3. lastId'[s] \in Nat /\ lastId[s] < lastId'[s] /\ lastId'[s] <= len[s]
  BY <1>1, <1>2 DEF Min
<1>4. /\ pel'[s] \cup acked[s] = 1 .. lastId'[s] /\ pel'[s] \cap acked[s] = {}
      /\ lastId[s] + 1 \in pel'[s] /\ lastId[s] + 1 \in 1 .. lastId'[s]
      /\ at[s] + 1 .. lastId'[s] \subseteq pel'[s]
      /\ lastId'[s] + 1 + 1 .. lastId'[s] = {}
  BY ONLY <1>1, <1>2, <1>3
<1>5. QED BY <1>1, <1>3, <1>4 DEF Book, Handling

-----------------------------------------------------------------------------
(* Types.  A response is counted for an entry of the log, which is where   *)
(* the books place the entry being handled.                                *)

\* an entry being handled is an entry of the log
LEMMA HandledInLog ==
  ASSUME TypeOK, NEW s \in Streams, Book(s), Handling(s)
  PROVE  at[s] \in 1 .. MaxLog
<1>1. lastId[s] \in Nat /\ len[s] \in 0 .. MaxLog
  BY DEF TypeOK
<1>2. at[s] \in 1 .. lastId[s] /\ lastId[s] <= len[s]
  BY DEF Book, Handling
<1>3. QED BY <1>1, <1>2

\* a response, written or not
LEMMA WriteTyped ==
  ASSUME TypeOK, NEW s \in Streams, Book(s), Handling(s), NEW r \in Status,
         Write(s, r) \/ UNCHANGED replies
  PROVE  replies' \in [Streams -> [1 .. MaxLog -> [Status -> Nat]]]
<1>1. at[s] \in 1 .. MaxLog
  BY HandledInLog
<1>2. replies \in [Streams -> [1 .. MaxLog -> [Status -> Nat]]]
  BY DEF TypeOK
<1>3. CASE Write(s, r)
  <2>1. replies[s][at[s]][r] + 1 \in Nat
    BY <1>1, <1>2
  <2>2. [replies[s] EXCEPT ![at[s]][r] = @ + 1] \in [1 .. MaxLog -> [Status -> Nat]]
    BY <1>1, <1>2, <2>1
  <2>3. replies' = [replies EXCEPT ![s] = [replies[s] EXCEPT ![at[s]][r] = @ + 1]]
    BY <1>2, <1>3 DEF Write
  <2>4. QED BY ONLY <1>2, <2>2, <2>3
<1>4. QED BY <1>2, <1>3

\* an acknowledgement, made or not
LEMMA AcknowledgeTyped ==
  ASSUME TypeOK, NEW s \in Streams, Acknowledge(s) \/ UNCHANGED <<pel, acked>>
  PROVE  pel' \in [Streams -> SUBSET Nat] /\ acked' \in [Streams -> SUBSET Nat]
<1>1. /\ pel \in [Streams -> SUBSET Nat] /\ acked \in [Streams -> SUBSET Nat]
      /\ at[s] \in Nat
  BY DEF TypeOK
<1>2. CASE Acknowledge(s)
  <2>1. /\ pel' = [pel EXCEPT ![s] = @ \ {at[s]}]
        /\ acked' = [acked EXCEPT ![s] = @ \cup {at[s]}]
    BY <1>2 DEF Acknowledge
  <2>2. pel[s] \ {at[s]} \in SUBSET Nat /\ acked[s] \cup {at[s]} \in SUBSET Nat
    BY <1>1
  <2>3. QED BY ONLY <1>1, <2>1, <2>2
<1>3. CASE UNCHANGED <<pel, acked>>
  BY <1>1, <1>3
<1>4. QED BY <1>2, <1>3

\* a move of the loop
LEMMA MovesTyped ==
  ASSUME TypeOK, NEW s \in Streams
  PROVE  /\ \A p \in Steps : Goto(s, p) => step' \in [Streams -> Steps]
         /\ Finish(s) \/ AbandonBatch(s) =>
              /\ step' \in [Streams -> Steps]
              /\ at' \in [Streams -> Nat]
<1>1. /\ step \in [Streams -> Steps] /\ at \in [Streams -> Nat]
      /\ at[s] + 1 \in Nat /\ lastId[s] + 1 \in Nat
      /\ "work" \in Steps /\ "read" \in Steps
  BY DEF TypeOK, Steps
<1>2. \A p \in Steps : Goto(s, p) => step' \in [Streams -> Steps]
  BY ONLY <1>1 DEF Goto
<1>3. CASE Finish(s)
  <2>1. \E p \in Steps : Goto(s, p)
    BY <1>1, <1>3 DEF Finish
  <2>2. at' \in [Streams -> Nat]
    BY ONLY <1>1, <1>3 DEF Finish
  <2>3. QED BY <1>2, <2>1, <2>2
<1>4. CASE AbandonBatch(s)
  <2>1. at' \in [Streams -> Nat]
    BY ONLY <1>1, <1>4 DEF AbandonBatch
  <2>2. QED BY <1>1, <1>2, <1>4, <2>1 DEF AbandonBatch
<1>5. QED BY <1>2, <1>3, <1>4

\* a block read
LEMMA TakeTyped ==
  ASSUME TypeOK, NEW s \in Streams, Take(s)
  PROVE  lastId' \in [Streams -> Nat] /\ pel' \in [Streams -> SUBSET Nat]
<1>1. lastId[s] \in Nat /\ len[s] \in Nat
  BY DEF TypeOK
<1>2. Min(lastId[s] + BatchCount, len[s]) \in Nat
  BY <1>1 DEF Min
<1>3. lastId[s] + 1 .. Min(lastId[s] + BatchCount, len[s]) \subseteq Nat
  BY <1>1, <1>2
<1>4. QED BY <1>2, <1>3 DEF TypeOK, Take

\* the fault counter
LEMMA FaultTyped ==
  ASSUME TypeOK, Fault \/ UNCHANGED faults
  PROVE  faults' \in Nat
  BY DEF TypeOK, Fault

-----------------------------------------------------------------------------
(* Each action preserves types and books.  A move of one loop leaves the   *)
(* book of the other alone.                                                *)

\* a step of one loop that keeps its own book keeps both
LEMMA OneLoopMoves ==
  ASSUME Inv, NEW s \in Streams, Book(s)', UNCHANGED <<proc, len>>,
         \A t \in Streams \ {s} :
           /\ step'[t] = step[t] /\ at'[t] = at[t]
           /\ lastId'[t] = lastId[t]
           /\ pel'[t] = pel[t] /\ acked'[t] = acked[t]
  PROVE  Books'
<1> SUFFICES ASSUME NEW t \in Streams \ {s} PROVE Book(t)'
  BY DEF Books
<1>1. Book(t) /\ lastId'[t] <= len'[t]
  BY DEF Inv, Books, Book
<1>2. QED BY <1>1, BookKept

\* a handler's step from one await to the next
LEMMA HandlerMoves ==
  ASSUME Inv, NEW s \in Streams, Handling(s), NEW p \in Steps \ {"idle", "read"},
         p \in {"work", "reply", "ack"} => step[s] \in {"work", "reply", "ack"},
         Goto(s, p), UNCHANGED <<proc, len, lastId, pel, acked, at>>,
         result' \in Status,
         replies' \in [Streams -> [1 .. MaxLog -> [Status -> Nat]]],
         Fault \/ UNCHANGED faults
  PROVE  Inv'
<1>1. TypeOK /\ Book(s)
  BY DEF Inv, Books
<1>2. TypeOK'
  BY <1>1, MovesTyped, FaultTyped DEF TypeOK
<1>3. Book(s)'
  BY <1>1, BookMoves
<1>4. \A t \in Streams \ {s} : step'[t] = step[t]
  BY <1>1 DEF TypeOK, Goto
<1>5. Books'
  BY <1>3, <1>4, OneLoopMoves
<1>6. QED BY <1>2, <1>5 DEF Inv

\* an acknowledgement, made or attempted, and where the handler goes then
LEMMA HandlerAcknowledges ==
  ASSUME Inv, NEW s \in Streams, Handling(s),
         \/ Acknowledge(s) /\ Finish(s)
         \/ /\ Acknowledge(s) \/ UNCHANGED <<pel, acked>>
            /\ AbandonBatch(s)
         \/ /\ Acknowledge(s) \/ UNCHANGED <<pel, acked>>
            /\ \E p \in {"report", "discard"} : Goto(s, p)
            /\ UNCHANGED at,
         UNCHANGED <<proc, len, lastId, result>>,
         replies' \in [Streams -> [1 .. MaxLog -> [Status -> Nat]]],
         Fault \/ UNCHANGED faults
  PROVE  Inv'
<1>1. TypeOK /\ Book(s)
  BY DEF Inv, Books
<1>2. pel' \in [Streams -> SUBSET Nat] /\ acked' \in [Streams -> SUBSET Nat]
  BY <1>1, AcknowledgeTyped
<1>3. step' \in [Streams -> Steps] /\ at' \in [Streams -> Nat]
  <2>1. "report" \in Steps /\ "discard" \in Steps /\ at \in [Streams -> Nat]
    BY <1>1 DEF Steps, TypeOK
  <2>2. QED BY <1>1, <2>1, MovesTyped
<1>4. TypeOK'
  BY <1>1, <1>2, <1>3, FaultTyped DEF TypeOK
<1>5. Book(s)'
  BY <1>1, BookFinishes, BookAbandons, BookCatches
<1>6. \A t \in Streams \ {s} :
        /\ step'[t] = step[t] /\ at'[t] = at[t]
        /\ pel'[t] = pel[t] /\ acked'[t] = acked[t]
  BY <1>1 DEF TypeOK, Goto, Finish, AbandonBatch, Acknowledge
<1>7. Books'
  BY <1>5, <1>6, OneLoopMoves
<1>8. QED BY <1>4, <1>7 DEF Inv

\* processMessage
LEMMA ActionLoopStep ==
  ASSUME Inv, ActionHandler
  PROVE  Inv'
<1> DEFINE s == "action"
<1>1. TypeOK /\ Book(s) /\ s \in Streams /\ result \in Status
  BY DEF Inv, Books, Streams, TypeOK
<1>2. replies \in [Streams -> [1 .. MaxLog -> [Status -> Nat]]]
  BY <1>1 DEF TypeOK
<1>3. {"work", "reply", "ack", "discard"} \subseteq Steps \ {"idle", "read"}
  BY DEF Steps
<1>4. CASE Malformed
  <2>1. /\ step[s] = "work" /\ Goto(s, "discard") /\ UNCHANGED faults
        /\ UNCHANGED <<proc, len, lastId, pel, acked, at>>
        /\ UNCHANGED <<result, replies>>
    BY <1>4 DEF Malformed
  <2>2. Handling(s)
    BY <2>1 DEF Handling
  <2>3. QED BY <1>1, <1>2, <1>3, <2>1, <2>2, HandlerMoves
<1>5. CASE Executed
  <2>1. /\ step[s] = "work" /\ Goto(s, "reply") /\ UNCHANGED faults
        /\ UNCHANGED <<proc, len, lastId, pel, acked, at>>
    BY <1>5 DEF Executed, Answered
  <2>2. Handling(s)
    BY <2>1 DEF Handling
  <2>3. PICK r \in Status : Write(s, r) /\ result' = r
    BY <1>5 DEF Executed
  <2>4. replies' \in [Streams -> [1 .. MaxLog -> [Status -> Nat]]]
    BY <1>1, <2>2, <2>3, WriteTyped
  <2>5. QED BY <1>1, <1>3, <2>1, <2>2, <2>3, <2>4, HandlerMoves
<1>6. CASE ExecutedAgain
  <2>1. /\ step[s] = "work" /\ Goto(s, "reply") /\ Fault
        /\ UNCHANGED <<proc, len, lastId, pel, acked, at>>
    BY <1>6 DEF ExecutedAgain, Fails
  <2>2. Handling(s)
    BY <2>1 DEF Handling
  <2>3. PICK r \in Status, extra \in 0 .. 1 :
          /\ replies' = [replies EXCEPT ![s][at[s]] =
               [q \in Status |-> @[q] + (IF q = r THEN 1 ELSE 0)
                                      + (IF q = "success" THEN extra ELSE 0)]]
          /\ result' = r
    BY <1>6 DEF ExecutedAgain
  <2>4. replies' \in [Streams -> [1 .. MaxLog -> [Status -> Nat]]]
    <3>1. at[s] \in 1 .. MaxLog
      BY <1>1, <2>2, HandledInLog
    <3> DEFINE R == [q \in Status |-> replies[s][at[s]][q] + (IF q = r THEN 1 ELSE 0)
                                      + (IF q = "success" THEN extra ELSE 0)]
    <3>2. R \in [Status -> Nat]
      <4>1. \A q \in Status : replies[s][at[s]][q] \in Nat
        BY <1>1, <1>2, <3>1
      <4>2. QED BY <4>1
    <3>3. replies' = [replies EXCEPT ![s] = [replies[s] EXCEPT ![at[s]] = R]]
      BY <1>1, <1>2, <2>3, <3>1
    <3> HIDE DEF R
    <3>4. [replies[s] EXCEPT ![at[s]] = R] \in [1 .. MaxLog -> [Status -> Nat]]
      BY <1>1, <1>2, <3>2
    <3>5. QED BY <1>2, <3>3, <3>4
  <2>5. QED BY <1>1, <1>3, <2>1, <2>2, <2>3, <2>4, HandlerMoves
<1>7. CASE ExecutorThrows
  <2>1. /\ step[s] = "work" /\ Goto(s, "discard") /\ UNCHANGED result
        /\ UNCHANGED <<proc, len, lastId, pel, acked, at>>
        /\ WriteFails(s, "failure")
    BY <1>7 DEF ExecutorThrows
  <2>2. Handling(s) /\ "failure" \in Status
    BY <2>1 DEF Handling, Status
  <2>3. /\ Write(s, "failure") \/ UNCHANGED replies
        /\ Fault \/ UNCHANGED faults
    <3>1. Write(s, "failure") \/ UNCHANGED replies
      BY <2>1 DEF WriteFails
    <3>2. Fault \/ UNCHANGED faults
      BY <2>1 DEF WriteFails, Answered, Fails, Closed
    <3>3. QED BY <3>1, <3>2
  <2>4. replies' \in [Streams -> [1 .. MaxLog -> [Status -> Nat]]]
    BY <1>1, <2>2, <2>3, WriteTyped
  <2>5. QED BY <1>1, <1>3, <2>1, <2>2, <2>3, <2>4, HandlerMoves
<1>8. CASE ActionReply
  <2>1. /\ step[s] = "reply" /\ UNCHANGED result
        /\ UNCHANGED <<proc, len, lastId, pel, acked, at>>
        /\ \/ Answered /\ Write(s, result) /\ Goto(s, "ack")
           \/ WriteFails(s, result) /\ Goto(s, "discard")
    BY <1>8 DEF ActionReply
  <2>2. Handling(s)
    BY <2>1 DEF Handling
  <2>3. /\ Write(s, result) \/ UNCHANGED replies
        /\ Fault \/ UNCHANGED faults
    <3>1. Write(s, result) \/ UNCHANGED replies
      BY <2>1 DEF WriteFails
    <3>2. Fault \/ UNCHANGED faults
      BY <2>1 DEF WriteFails, Answered, Fails, Closed
    <3>3. QED BY <3>1, <3>2
  <2>4. replies' \in [Streams -> [1 .. MaxLog -> [Status -> Nat]]]
    BY <1>1, <2>2, <2>3, WriteTyped
  <2>5. QED BY <1>1, <1>3, <2>1, <2>2, <2>3, <2>4, HandlerMoves
<1>9. CASE ActionAck
  <2>1. /\ step[s] = "ack" /\ UNCHANGED <<proc, len, lastId, result>>
        /\ UNCHANGED replies
        /\ \/ Answered /\ Acknowledge(s) /\ Finish(s)
           \/ AcknowledgeFails(s) /\ Goto(s, "discard") /\ UNCHANGED at
    BY <1>9 DEF ActionAck
  <2>2. Handling(s) /\ "success" \in Status
    BY <2>1 DEF Handling, Status
  <2>3. Fault \/ UNCHANGED faults
    BY <2>1 DEF AcknowledgeFails, Answered, Fails, Closed
  <2>4. AcknowledgeFails(s) => Acknowledge(s) \/ UNCHANGED <<pel, acked>>
    BY DEF AcknowledgeFails
  <2>5. QED BY <1>1, <1>2, <2>1, <2>2, <2>3, <2>4, HandlerAcknowledges
<1>10. QED BY <1>4, <1>5, <1>6, <1>7, <1>8, <1>9 DEF ActionHandler

\* processGeminiMessage
LEMMA GeminiLoopStep ==
  ASSUME Inv, GeminiHandler
  PROVE  Inv'
<1> DEFINE s == "gemini"
<1>1. TypeOK /\ Book(s) /\ s \in Streams /\ result \in Status
  BY DEF Inv, Books, Streams, TypeOK
<1>2. replies \in [Streams -> [1 .. MaxLog -> [Status -> Nat]]]
  BY <1>1 DEF TypeOK
<1>3. /\ {"work", "reply", "ack", "report", "discard"} \subseteq Steps \ {"idle", "read"}
      /\ {"success", "failure"} \subseteq Status
  BY DEF Steps, Status
<1>4. CASE GeminiAnswers
  <2>1. /\ step[s] = "work" /\ UNCHANGED faults
        /\ Goto(s, "reply") \/ Goto(s, "report")
        /\ UNCHANGED <<proc, len, lastId, pel, acked, at>>
        /\ UNCHANGED <<result, replies>>
    BY <1>4 DEF GeminiAnswers
  <2>2. Handling(s)
    BY <2>1 DEF Handling
  <2>3. QED BY <1>1, <1>2, <1>3, <2>1, <2>2, HandlerMoves
<1>5. CASE GeminiReply
  <2>1. /\ step[s] = "reply" /\ UNCHANGED result
        /\ UNCHANGED <<proc, len, lastId, pel, acked, at>>
        /\ \/ Answered /\ Write(s, "success") /\ Goto(s, "ack")
           \/ WriteFails(s, "success") /\ Goto(s, "report")
    BY <1>5 DEF GeminiReply
  <2>2. Handling(s)
    BY <2>1 DEF Handling
  <2>3. /\ Write(s, "success") \/ UNCHANGED replies
        /\ Fault \/ UNCHANGED faults
    <3>1. Write(s, "success") \/ UNCHANGED replies
      BY <2>1 DEF WriteFails
    <3>2. Fault \/ UNCHANGED faults
      BY <2>1 DEF WriteFails, Answered, Fails, Closed
    <3>3. QED BY <3>1, <3>2
  <2>4. replies' \in [Streams -> [1 .. MaxLog -> [Status -> Nat]]]
    BY <1>1, <1>3, <2>2, <2>3, WriteTyped
  <2>5. QED BY <1>1, <1>3, <2>1, <2>2, <2>3, <2>4, HandlerMoves
<1>6. CASE GeminiAck
  <2>1. /\ step[s] = "ack" /\ UNCHANGED <<proc, len, lastId, result>>
        /\ UNCHANGED replies
        /\ \/ Answered /\ Acknowledge(s) /\ Finish(s)
           \/ AcknowledgeFails(s) /\ Goto(s, "report") /\ UNCHANGED at
    BY <1>6 DEF GeminiAck
  <2>2. Handling(s)
    BY <2>1 DEF Handling
  <2>3. Fault \/ UNCHANGED faults
    BY <2>1 DEF AcknowledgeFails, Answered, Fails, Closed
  <2>4. AcknowledgeFails(s) => Acknowledge(s) \/ UNCHANGED <<pel, acked>>
    BY DEF AcknowledgeFails
  <2>5. QED BY <1>1, <1>2, <2>1, <2>2, <2>3, <2>4, HandlerAcknowledges
<1>7. CASE GeminiReport
  <2>1. step[s] = "report" /\ UNCHANGED <<proc, len, lastId, pel, acked, result>>
    BY <1>7 DEF GeminiReport
  <2>2. \/ Answered /\ Write(s, "failure") /\ Goto(s, "discard") /\ UNCHANGED at
        \/ WriteFails(s, "failure") /\ AbandonBatch(s)
    BY <1>7 DEF GeminiReport
  <2>3. Handling(s)
    BY <2>1 DEF Handling
  <2>4. /\ Write(s, "failure") \/ UNCHANGED replies
        /\ Fault \/ UNCHANGED faults
    <3>1. Write(s, "failure") \/ UNCHANGED replies
      BY <2>2 DEF WriteFails
    <3>2. Fault \/ UNCHANGED faults
      BY <2>2 DEF WriteFails, Answered, Fails, Closed
    <3>3. QED BY <3>1, <3>2
  <2>5. replies' \in [Streams -> [1 .. MaxLog -> [Status -> Nat]]]
    BY <1>1, <1>3, <2>3, <2>4, WriteTyped
  <2>6. CASE Goto(s, "discard") /\ UNCHANGED at
    BY <1>1, <1>3, <2>1, <2>3, <2>4, <2>5, <2>6, HandlerMoves
  <2>7. CASE AbandonBatch(s)
    BY <1>1, <2>1, <2>3, <2>4, <2>5, <2>7, HandlerAcknowledges
  <2>8. QED BY <2>2, <2>6, <2>7
<1>8. QED BY <1>4, <1>5, <1>6, <1>7 DEF GeminiHandler

\* steps of the loop around its handler
LEMMA LoopStep ==
  ASSUME Inv, NEW s \in Streams,
         Read(s) \/ ReadLost(s) \/ LeaveLoop(s) \/ Discard(s)
  PROVE  Inv'
<1>1. TypeOK /\ Book(s)
  BY DEF Inv, Books
<1>2. /\ replies \in [Streams -> [1 .. MaxLog -> [Status -> Nat]]]
      /\ "work" \in Steps /\ "idle" \in Steps
  BY <1>1 DEF TypeOK, Steps
<1>3. CASE Read(s)
  <2>1. step[s] = "read" /\ Take(s) /\ UNCHANGED faults
    BY <1>3 DEF Read, Answered
  <2>2. Goto(s, "work") /\ UNCHANGED <<proc, len, acked, at, result, replies>>
    BY <1>3 DEF Read
  <2>3. TypeOK'
    BY <1>1, <1>2, <2>1, <2>2, TakeTyped, MovesTyped, FaultTyped DEF TypeOK
  <2>4. step'[s] = "work" /\ at'[s] = at[s]
    BY <1>1, <2>2 DEF TypeOK, Goto
  <2>5. Book(s)'
    BY <1>1, <2>1, <2>2, <2>4, BookReads
  <2>6. \A t \in Streams \ {s} :
          /\ step'[t] = step[t] /\ at'[t] = at[t]
          /\ lastId'[t] = lastId[t] /\ pel'[t] = pel[t]
    BY <1>1, <2>1, <2>2 DEF TypeOK, Goto, Take
  <2>7. Books'
    BY <2>2, <2>5, <2>6, OneLoopMoves
  <2>8. QED BY <2>3, <2>7 DEF Inv
<1>4. CASE ReadLost(s)
  <2>1. step[s] = "read" /\ Take(s) /\ Fault
    BY <1>4 DEF ReadLost, Fails
  <2>2. /\ at' = [at EXCEPT ![s] = lastId'[s] + 1]
        /\ UNCHANGED <<proc, step, len, acked, result, replies>>
    BY <1>4 DEF ReadLost
  <2>3. TypeOK'
    <3>1. lastId' \in [Streams -> Nat] /\ pel' \in [Streams -> SUBSET Nat]
      BY <1>1, <2>1, TakeTyped
    <3>2. at' \in [Streams -> Nat]
      <4>1. lastId'[s] + 1 \in Nat /\ at \in [Streams -> Nat]
        BY <1>1, <3>1 DEF TypeOK
      <4>2. QED BY ONLY <2>2, <4>1
    <3>3. QED BY <1>1, <2>1, <2>2, <3>1, <3>2, FaultTyped DEF TypeOK
  <2>4. step'[s] = "read" /\ at'[s] = lastId'[s] + 1
    BY <1>1, <2>1, <2>2 DEF TypeOK
  <2>5. Book(s)'
    BY <1>1, <2>1, <2>2, <2>4, BookReads
  <2>6. \A t \in Streams \ {s} :
          at'[t] = at[t] /\ lastId'[t] = lastId[t] /\ pel'[t] = pel[t]
    BY <1>1, <2>1, <2>2 DEF TypeOK, Take
  <2>7. Books'
    BY <2>2, <2>5, <2>6, OneLoopMoves
  <2>8. QED BY <2>3, <2>7 DEF Inv
<1>5. CASE LeaveLoop(s)
  <2>1. /\ step[s] = "read" /\ proc = "quitting" /\ Goto(s, "idle")
        /\ UNCHANGED <<proc, len, lastId, pel, acked, at, result, replies, faults>>
    BY <1>5 DEF LeaveLoop, Closed
  <2>2. TypeOK'
    BY <1>1, <1>2, <2>1, MovesTyped DEF TypeOK
  <2>3. step'[s] = "idle" /\ \A t \in Streams \ {s} : step'[t] = step[t]
    BY <1>1, <2>1 DEF TypeOK, Goto
  <2>4. Book(s)'
    BY <1>1, <2>1, <2>3 DEF Book, Handling
  <2>5. Books'
    BY <2>1, <2>3, <2>4, OneLoopMoves
  <2>6. QED BY <2>2, <2>5 DEF Inv
<1>6. CASE Discard(s)
  <2>1. /\ step[s] = "discard" /\ UNCHANGED <<proc, len, lastId, result>>
        /\ UNCHANGED replies
        /\ \/ Answered /\ Acknowledge(s) /\ Finish(s)
           \/ AcknowledgeFails(s) /\ AbandonBatch(s)
    BY <1>6 DEF Discard
  <2>2. Handling(s)
    BY <2>1 DEF Handling
  <2>3. Fault \/ UNCHANGED faults
    BY <2>1 DEF AcknowledgeFails, Answered, Fails, Closed
  <2>4. AcknowledgeFails(s) => Acknowledge(s) \/ UNCHANGED <<pel, acked>>
    BY DEF AcknowledgeFails
  <2>5. QED BY <1>2, <2>1, <2>2, <2>3, <2>4, HandlerAcknowledges
<1>7. QED BY <1>3, <1>4, <1>5, <1>6

\* steps of the process as a whole and of PicoClaw
LEMMA ProcessStep ==
  ASSUME Inv, Start \/ Stop \/ Exit \/ (\E s \in Streams : Produce(s))
  PROVE  Inv'
<1>1. TypeOK /\ \A s \in Streams : Book(s)
  BY DEF Inv, Books
<1>2. CASE Start
  <2>1. /\ proc = "off" /\ proc' = "on"
        /\ step' = [s \in Streams |-> "read"]
        /\ UNCHANGED <<len, lastId, pel, acked, at, result, replies, faults>>
    BY <1>2 DEF Start
  <2>2. TypeOK'
    BY <1>1, <2>1 DEF TypeOK, Steps
  <2>3. ASSUME NEW s \in Streams PROVE Book(s)'
    BY <1>1, <2>1 DEF Book, Handling
  <2>4. QED BY <2>2, <2>3 DEF Inv, Books
<1>3. CASE Stop
  <2>1. /\ proc = "on" /\ proc' = "quitting" /\ Fault
        /\ UNCHANGED <<step, len, lastId, pel, acked, at, result, replies>>
    BY <1>3 DEF Stop
  <2>2. TypeOK'
    BY <1>1, <2>1, FaultTyped DEF TypeOK
  <2>3. ASSUME NEW s \in Streams PROVE Book(s)'
    BY <1>1, <2>1 DEF Book, Handling
  <2>4. QED BY <2>2, <2>3 DEF Inv, Books
<1>4. CASE Exit
  <2>1. /\ proc' = "off" /\ step' = [s \in Streams |-> "idle"]
        /\ at' = [s \in Streams |-> lastId[s] + 1]
        /\ UNCHANGED <<len, lastId, pel, acked, result, replies>>
    BY <1>4 DEF Exit
  <2>2. Fault \/ UNCHANGED faults
    BY <1>4 DEF Exit
  <2>3. TypeOK'
    <3>1. \A s \in Streams : lastId[s] + 1 \in Nat
      BY <1>1, BookTypes
    <3>2. at' \in [Streams -> Nat]
      BY <2>1, <3>1
    <3>3. QED BY <1>1, <2>1, <2>2, <3>2, FaultTyped DEF TypeOK, Steps
  <2>4. ASSUME NEW s \in Streams PROVE Book(s)'
    <3>1. /\ step'[s] = "idle" /\ at'[s] = lastId[s] + 1 /\ lastId[s] \in Nat
          /\ lastId'[s] = lastId[s] /\ len'[s] = len[s]
          /\ pel'[s] = pel[s] /\ acked'[s] = acked[s]
      BY <1>1, <2>1, BookTypes
    <3>2. at'[s] + 1 .. lastId'[s] = {}
      BY <3>1
    <3>3. QED BY <1>1, <2>1, <3>1, <3>2 DEF Book, Handling
  <2>5. QED BY <2>3, <2>4 DEF Inv, Books
<1>5. CASE \E s \in Streams : Produce(s)
  <2>1. PICK s \in Streams : Produce(s)
    BY <1>5
  <2>2. /\ len[s] < MaxLog /\ len' = [len EXCEPT ![s] = @ + 1]
        /\ UNCHANGED <<proc, step, lastId, pel, acked, at, result, replies, faults>>
    BY <2>1 DEF Produce
  <2>3. TypeOK'
    <3>1. len' \in [Streams -> 0 .. MaxLog]
      BY <1>1, <2>2 DEF TypeOK
    <3>2. QED BY <1>1, <2>2, <3>1 DEF TypeOK
  <2>4. ASSUME NEW t \in Streams PROVE Book(t)'
    <3>1. len[t] \in Nat /\ lastId[t] \in Nat /\ lastId[t] <= len[t]
      BY <1>1 DEF TypeOK, Book
    <3>2. len'[t] = len[t] \/ len'[t] = len[t] + 1
      BY <1>1, <2>2 DEF TypeOK
    <3>3. lastId'[t] <= len'[t]
      BY <2>2, <3>1, <3>2
    <3>4. QED BY <1>1, <2>2, <3>3, BookKept
  <2>5. QED BY <2>3, <2>4 DEF Inv, Books
<1>6. QED BY <1>2, <1>3, <1>4, <1>5

\* every step
LEMMA NextKeepsBooks ==
  ASSUME Inv, [Next]_vars
  PROVE  Inv'
<1>1. CASE Start \/ Stop \/ Exit \/ (\E s \in Streams : Produce(s))
  BY <1>1, ProcessStep
<1>2. CASE \E s \in Streams : Loop(s)
  <2>1. PICK s \in Streams : Loop(s)
    BY <1>2
  <2>2. CASE Read(s) \/ ReadLost(s) \/ LeaveLoop(s) \/ Discard(s)
    BY <2>2, LoopStep
  <2>3. CASE ActionHandler
    BY <2>3, ActionLoopStep
  <2>4. CASE GeminiHandler
    BY <2>4, GeminiLoopStep
  <2>5. QED BY <2>1, <2>2, <2>3, <2>4 DEF Loop
<1>3. CASE UNCHANGED vars
  BY <1>3 DEF vars, Inv, TypeOK, Books, Book, Handling
<1>4. QED BY <1>1, <1>2, <1>3 DEF Next

\* the initial state
LEMMA InitBooks ==
  ASSUME Init
  PROVE  Inv
<1>1. TypeOK
  <2>1. \A s \in Streams : {} \in SUBSET Nat
    OBVIOUS
  <2>2. QED BY <2>1 DEF Init, TypeOK, Steps, Status
<1>2. ASSUME NEW s \in Streams PROVE Book(s)
  <2>1. 1 .. 0 = {} /\ 1 + 1 .. 0 = {}
    OBVIOUS
  <2>2. QED BY <2>1 DEF Init, Book, Handling
<1>3. QED BY <1>1, <1>2 DEF Inv, Books

(* The books of both streams balance after every step: nothing a consumer  *)
(* read is lost track of, and no loop holds what it has acknowledged but   *)
(* for the entry a catch block is about to acknowledge again.              *)
THEOREM BooksBalance == Spec => [](TypeOK /\ Books)
<1>1. Init => Inv
  BY InitBooks
<1>2. Inv /\ [Next]_vars => Inv'
  BY NextKeepsBooks
<1>3. QED BY <1>1, <1>2, PTL DEF Spec, Inv

-----------------------------------------------------------------------------
(* Requests to Gemini.  What the handler is about to acknowledge already   *)
(* has a response, and responses are never taken back.                     *)

Answerable ==
  /\ GeminiAckedIsAnswered
  /\ step["gemini"] \in {"ack", "discard"} => Answers("gemini", at["gemini"]) > 0

\* responses are counted in Nat
LEMMA AnswersTyped ==
  ASSUME TypeOK, NEW i \in 1 .. MaxLog
  PROVE  /\ replies["gemini"][i]["success"] \in Nat
         /\ replies["gemini"][i]["failure"] \in Nat
<1>1. replies["gemini"] \in [1 .. MaxLog -> [Status -> Nat]]
  BY DEF TypeOK, Streams
<1>2. replies["gemini"][i] \in [Status -> Nat]
  BY <1>1
<1>3. QED BY <1>2 DEF Status

\* what is acknowledged, or handled, is an entry of the log
LEMMA GeminiInLog ==
  ASSUME Inv
  PROVE  /\ acked["gemini"] \subseteq 1 .. MaxLog
         /\ Handling("gemini") => at["gemini"] \in 1 .. MaxLog
<1>1. TypeOK /\ Book("gemini") /\ "gemini" \in Streams
  BY DEF Inv, Books, Streams
<1>2. lastId["gemini"] \in Nat /\ len["gemini"] \in 0 .. MaxLog
  BY <1>1 DEF TypeOK
<1>3. /\ lastId["gemini"] <= len["gemini"]
      /\ acked["gemini"] \subseteq 1 .. lastId["gemini"]
  BY <1>1 DEF Book
<1>4. acked["gemini"] \subseteq 1 .. MaxLog
  BY <1>2, <1>3
<1>5. QED BY <1>1, <1>4, HandledInLog

\* a response more
LEMMA WriteCounts ==
  ASSUME TypeOK, at["gemini"] \in 1 .. MaxLog, NEW r \in Status, Write("gemini", r)
  PROVE  /\ \A i \in 1 .. MaxLog : Answers("gemini", i) > 0 => Answers("gemini", i)' > 0
         /\ UNCHANGED at => Answers("gemini", at["gemini"])' > 0
<1>1. replies \in [Streams -> [1 .. MaxLog -> [Status -> Nat]]] /\ "gemini" \in Streams
  BY DEF TypeOK, Streams
<1> DEFINE old(i, q) == replies["gemini"][i][q]
           new(i, q) == replies'["gemini"][i][q]
<1>2. \A i \in 1 .. MaxLog, q \in Status :
        new(i, q) = IF i = at["gemini"] /\ q = r THEN old(i, q) + 1 ELSE old(i, q)
  BY <1>1 DEF Write
<1>3. \A i \in 1 .. MaxLog, q \in Status : old(i, q) \in Nat
  BY <1>1
<1> HIDE DEF old, new
<1>4. /\ \A i \in 1 .. MaxLog :
           old(i, "success") + old(i, "failure") > 0
             => new(i, "success") + new(i, "failure") > 0
      /\ new(at["gemini"], "success") + new(at["gemini"], "failure") > 0
  BY <1>2, <1>3 DEF Status
<1>5. QED BY <1>4 DEF Answers, old, new

\* a step that takes no response back and acknowledges only what is answered
LEMMA AnswersOnlyGrow ==
  ASSUME Inv, Answerable,
         \A i \in 1 .. MaxLog : Answers("gemini", i) > 0 => Answers("gemini", i)' > 0,
         \/ acked'["gemini"] = acked["gemini"]
         \/ /\ step["gemini"] \in {"ack", "discard"}
            /\ acked'["gemini"] = acked["gemini"] \cup {at["gemini"]},
         step'["gemini"] \in {"ack", "discard"} => Answers("gemini", at["gemini"])' > 0
  PROVE  Answerable'
<1>1. step["gemini"] \in {"ack", "discard"} => at["gemini"] \in 1 .. MaxLog
  BY GeminiInLog DEF Handling
<1>2. \A i \in acked'["gemini"] : i \in 1 .. MaxLog /\ Answers("gemini", i) > 0
  BY <1>1, GeminiInLog DEF Answerable, GeminiAckedIsAnswered
<1>3. QED BY <1>2 DEF Answerable, GeminiAckedIsAnswered

\* a step that touches neither responses nor acknowledgements of the stream
LEMMA AnswersKept ==
  ASSUME Inv, Answerable, replies'["gemini"] = replies["gemini"],
         acked'["gemini"] = acked["gemini"],
         step'["gemini"] \in {"ack", "discard"} =>
           step'["gemini"] = step["gemini"] /\ at'["gemini"] = at["gemini"]
  PROVE  Answerable'
  BY DEF Answerable, GeminiAckedIsAnswered, Answers

\* an acknowledgement, made or attempted
LEMMA Acknowledged ==
  ASSUME Inv, Answerable, step["gemini"] \in {"ack", "discard"},
         Acknowledge("gemini") \/ UNCHANGED <<pel, acked>>,
         UNCHANGED replies, step'["gemini"] \notin {"ack", "discard"}
  PROVE  Answerable'
<1>1. \/ acked'["gemini"] = acked["gemini"]
      \/ acked'["gemini"] = acked["gemini"] \cup {at["gemini"]}
  BY DEF Acknowledge, Inv, TypeOK, Streams
<1>2. \A i \in 1 .. MaxLog : Answers("gemini", i)' = Answers("gemini", i)
  BY DEF Answers
<1>3. QED BY <1>1, <1>2, AnswersOnlyGrow

\* the action loop has a stream of its own
LEMMA ActionLoopApart ==
  ASSUME Inv, Answerable, Loop("action")
  PROVE  Answerable'
<1>1. TypeOK /\ "action" \in Streams /\ "gemini" \in Streams /\ "action" # "gemini"
  BY DEF Inv, Streams
<1>2. /\ \A p \in Steps : Goto("action", p) => step'["gemini"] = step["gemini"]
      /\ Finish("action") \/ AbandonBatch("action") =>
           step'["gemini"] = step["gemini"] /\ at'["gemini"] = at["gemini"]
  BY <1>1 DEF TypeOK, Goto, Finish, AbandonBatch
<1>3. Acknowledge("action") => acked'["gemini"] = acked["gemini"]
  BY <1>1 DEF TypeOK, Acknowledge
<1>4. \A r \in Status : Write("action", r) => replies'["gemini"] = replies["gemini"]
  BY <1>1 DEF TypeOK, Write
<1>5. {"work", "reply", "ack", "discard", "idle"} \subseteq Steps /\ result \in Status
      /\ "failure" \in Status
  BY <1>1 DEF TypeOK, Steps, Status
<1>6. CASE Read("action") \/ LeaveLoop("action")
  BY <1>1, <1>2, <1>5, <1>6, AnswersKept DEF Read, LeaveLoop
<1>7. CASE ReadLost("action")
  <2>1. at'["gemini"] = at["gemini"]
    BY <1>1, <1>7 DEF ReadLost, TypeOK
  <2>2. QED BY <2>1, <1>7, AnswersKept DEF ReadLost
<1>8. CASE Discard("action")
  BY <1>2, <1>3, <1>8, AnswersKept DEF Discard, AcknowledgeFails
<1>9. CASE Malformed
  BY <1>2, <1>5, <1>9, AnswersKept DEF Malformed
<1>10. CASE Executed
  BY <1>2, <1>4, <1>5, <1>10, AnswersKept DEF Executed
<1>11. CASE ExecutedAgain
  <2>1. replies'["gemini"] = replies["gemini"]
    BY <1>1, <1>11 DEF ExecutedAgain, TypeOK
  <2>2. QED BY <1>2, <1>5, <1>11, <2>1, AnswersKept DEF ExecutedAgain
<1>12. CASE ExecutorThrows
  BY <1>2, <1>4, <1>5, <1>12, AnswersKept DEF ExecutorThrows, WriteFails
<1>13. CASE ActionReply
  BY <1>2, <1>4, <1>5, <1>13, AnswersKept DEF ActionReply, WriteFails
<1>14. CASE ActionAck
  BY <1>2, <1>3, <1>5, <1>14, AnswersKept DEF ActionAck, AcknowledgeFails
<1>15. QED BY <1>6, <1>7, <1>8, <1>9, <1>10, <1>11, <1>12, <1>13, <1>14
              DEF Loop, ActionHandler

\* every step of the gemini loop
LEMMA GeminiLoopAnswers ==
  ASSUME Inv, Answerable, Loop("gemini")
  PROVE  Answerable'
<1> DEFINE s == "gemini"
<1>1. TypeOK /\ s \in Streams
  BY DEF Inv, Streams
<1>2. /\ \A p \in Steps : Goto(s, p) => step'[s] = p
      /\ Finish(s) \/ AbandonBatch(s) => step'[s] \in {"work", "read"}
  BY <1>1 DEF TypeOK, Goto, Finish, AbandonBatch
<1>3. /\ {"work", "reply", "ack", "report", "discard", "idle"} \subseteq Steps
      /\ {"success", "failure"} \subseteq Status
  BY DEF Steps, Status
<1>4. ASSUME NEW r \in Status, Handling(s), UNCHANGED acked,
             \/ Write(s, r) /\ UNCHANGED at
             \/ /\ Write(s, r) \/ UNCHANGED replies
                /\ step'[s] \notin {"ack", "discard"}
      PROVE  Answerable'
  <2>1. at[s] \in 1 .. MaxLog
    BY <1>4, GeminiInLog
  <2>2. CASE Write(s, r)
    BY <1>1, <1>4, <2>1, <2>2, WriteCounts, AnswersOnlyGrow
  <2>3. CASE ~Write(s, r)
    BY <1>4, <2>3, AnswersKept
  <2>4. QED BY <2>2, <2>3
<1>5. CASE Read(s) \/ LeaveLoop(s)
  BY <1>2, <1>3, <1>5, AnswersKept DEF Read, LeaveLoop
<1>6. CASE ReadLost(s)
  BY <1>6, AnswersKept DEF ReadLost
<1>7. CASE Discard(s)
  BY <1>2, <1>7, Acknowledged DEF Discard, AcknowledgeFails
<1>8. CASE GeminiAnswers
  BY <1>2, <1>3, <1>8, AnswersKept DEF GeminiAnswers
<1>9. CASE GeminiReply
  <2>1. /\ Handling(s) /\ UNCHANGED <<acked, at>>
        /\ \/ Write(s, "success")
           \/ /\ Write(s, "success") \/ UNCHANGED replies
              /\ Goto(s, "report")
    BY <1>9 DEF GeminiReply, Handling, WriteFails
  <2>2. Goto(s, "report") => step'[s] \notin {"ack", "discard"}
    BY <1>2, <1>3
  <2>3. QED BY <1>3, <1>4, <2>1, <2>2
<1>10. CASE GeminiAck
  BY <1>2, <1>3, <1>10, Acknowledged DEF GeminiAck, AcknowledgeFails
<1>11. CASE GeminiReport
  <2>1. /\ Handling(s) /\ UNCHANGED acked
        /\ \/ Write(s, "failure") /\ UNCHANGED at
           \/ /\ Write(s, "failure") \/ UNCHANGED replies
              /\ AbandonBatch(s)
    BY <1>11 DEF GeminiReport, Handling, WriteFails
  <2>2. AbandonBatch(s) => step'[s] \notin {"ack", "discard"}
    BY <1>2
  <2>3. QED BY <1>3, <1>4, <2>1, <2>2
<1>12. QED BY <1>5, <1>6, <1>7, <1>8, <1>9, <1>10, <1>11 DEF Loop, GeminiHandler

\* every step
LEMMA NextKeepsAnswers ==
  ASSUME Inv, Answerable, [Next]_vars
  PROVE  Answerable'
<1>1. TypeOK /\ "gemini" \in Streams
  BY DEF Inv, Streams
<1>2. CASE Start \/ Stop \/ Exit \/ UNCHANGED vars
  BY <1>1, <1>2, AnswersKept DEF Start, Stop, Exit, vars
<1>3. CASE \E s \in Streams : Produce(s)
  BY <1>3, AnswersKept DEF Produce
<1>4. CASE \E s \in Streams : Loop(s)
  BY <1>4, ActionLoopApart, GeminiLoopAnswers DEF Streams
<1>5. QED BY <1>2, <1>3, <1>4 DEF Next

(* No request to Gemini is acknowledged without a response, whatever call  *)
(* fails and whenever the process stops or crashes: a caller that waits    *)
(* for one either gets it or its request is still pending.                 *)
THEOREM GeminiAnswered == Spec => []GeminiAckedIsAnswered
<1>1. Init => Inv /\ Answerable
  <2>1. Init => Inv
    BY InitBooks
  <2>2. Init => Answerable
    BY DEF Init, Answerable, GeminiAckedIsAnswered, Streams
  <2>3. QED BY <2>1, <2>2
<1>2. Inv /\ Answerable /\ [Next]_vars => Inv' /\ Answerable'
  BY NextKeepsBooks, NextKeepsAnswers
<1>3. Answerable => GeminiAckedIsAnswered
  BY DEF Answerable
<1>4. QED BY <1>1, <1>2, <1>3, PTL DEF Spec

-----------------------------------------------------------------------------
(* What a fault can leave behind.  A block read is no longer than          *)
(* BatchCount, and a loop gives up what is left of one only at a fault, or *)
(* after stop(), which is one: then what it may still give up is already   *)
(* accounted for.                                                          *)

\* of one stream: p pending, a the entry handled, l the last one delivered,
\* in a process in state m after f faults
OrphansOK(p, a, l, m, f) ==
  /\ p \subseteq 1 .. l
  /\ l < a + BatchCount
  /\ Cardinality(p \ (a .. l)) <= BatchCount * f
  /\ m = "quitting" => Cardinality(p) <= BatchCount * f

Orphans == \A s \in Streams : OrphansOK(pel[s], at[s], lastId[s], proc, faults)

\* no set of pending entries is infinite
LEMMA PendingFinite ==
  ASSUME NEW l \in Nat, NEW p \in SUBSET (1 .. l)
  PROVE  IsFiniteSet(p) /\ Cardinality(p) \in Nat
<1>1. IsFiniteSet(1 .. l)
  BY FS_Interval
<1>2. IsFiniteSet(p)
  BY <1>1, FS_Subset
<1>3. QED BY <1>2, FS_CardinalityType

\* one more fault is one more block
LEMMA OneBlockMore ==
  ASSUME NEW f \in Nat
  PROVE  BatchCount * (f + 1) = BatchCount * f + BatchCount /\ BatchCount * f \in Nat
<1> DEFINE b == BatchCount
<1>1. b \in Nat
  OBVIOUS
<1> HIDE DEF b
<1>2. b * (f + 1) = b * f + b /\ b * f \in Nat
  BY ONLY <1>1, f \in Nat
<1>3. QED BY <1>2 DEF b

\* nothing left behind that was not, and the process not newly quitting
LEMMA NoOrphanMore ==
  ASSUME NEW l \in Nat, NEW a \in Nat, NEW p, NEW m, NEW f \in Nat,
         NEW l2 \in Nat, NEW a2 \in Nat, NEW p2, NEW m2, NEW f2 \in {f, f + 1},
         OrphansOK(p, a, l, m, f),
         p2 \subseteq 1 .. l2, l2 < a2 + BatchCount,
         p2 \ (a2 .. l2) \subseteq p \ (a .. l),
         m2 = "quitting" => m = "quitting" /\ p2 \subseteq p
  PROVE  OrphansOK(p2, a2, l2, m2, f2)
<1>1. p \in SUBSET (1 .. l) /\ p2 \in SUBSET (1 .. l2) /\ p \ (a .. l) \in SUBSET (1 .. l)
      /\ p2 \ (a2 .. l2) \in SUBSET (1 .. l2)
  BY DEF OrphansOK
<1>2. /\ IsFiniteSet(p) /\ IsFiniteSet(p \ (a .. l))
      /\ Cardinality(p) \in Nat /\ Cardinality(p \ (a .. l)) \in Nat
      /\ Cardinality(p2) \in Nat /\ Cardinality(p2 \ (a2 .. l2)) \in Nat
  BY <1>1, PendingFinite
<1>3. Cardinality(p2 \ (a2 .. l2)) <= Cardinality(p \ (a .. l))
  BY <1>2, FS_Subset
<1>4. p2 \subseteq p => Cardinality(p2) <= Cardinality(p)
  BY <1>2, FS_Subset
<1>5. BatchCount * f \in Nat /\ BatchCount * f2 \in Nat /\ BatchCount * f <= BatchCount * f2
  BY OneBlockMore
<1> DEFINE b == BatchCount * f
           b2 == BatchCount * f2
<1>6. Cardinality(p \ (a .. l)) <= b /\ (m = "quitting" => Cardinality(p) <= b)
  BY DEF OrphansOK
<1>7. b \in Nat /\ b2 \in Nat /\ b <= b2
  BY <1>5
<1> HIDE DEF b, b2
<1>8. /\ Cardinality(p2 \ (a2 .. l2)) <= b2
      /\ m2 = "quitting" => Cardinality(p2) <= b2
  BY ONLY <1>2, <1>3, <1>4, <1>6, <1>7,
          m2 = "quitting" => m = "quitting" /\ p2 \subseteq p
<1>9. QED BY <1>8 DEF OrphansOK, b2

\* a block left behind by a fault
LEMMA OneBlockLeft ==
  ASSUME NEW l \in Nat, NEW a \in Nat, NEW p, NEW m, NEW f \in Nat,
         NEW l2 \in Nat, NEW a2 \in Nat, NEW p2, NEW m2, NEW n, IsFiniteSet(n),
         OrphansOK(p, a, l, m, f),
         p2 \subseteq 1 .. l2, l2 < a2 + BatchCount,
         Cardinality(n) <= BatchCount, p2 \subseteq (p \ (a .. l)) \cup n
  PROVE  OrphansOK(p2, a2, l2, m2, f + 1)
<1> DEFINE o == p \ (a .. l)
           g == p2 \ (a2 .. l2)
<1>1. o \in SUBSET (1 .. l) /\ p2 \in SUBSET (1 .. l2) /\ g \in SUBSET (1 .. l2)
  BY DEF OrphansOK
<1>2. /\ IsFiniteSet(o) /\ IsFiniteSet(p2)
      /\ Cardinality(o) \in Nat /\ Cardinality(p2) \in Nat /\ Cardinality(g) \in Nat
      /\ Cardinality(n) \in Nat
  BY <1>1, PendingFinite, FS_CardinalityType
<1>3. Cardinality(g) <= Cardinality(p2)
  BY <1>2, FS_Subset
<1>4. IsFiniteSet(o \cup n) /\ Cardinality(o \cup n) <= Cardinality(o) + Cardinality(n)
      /\ Cardinality(o \cup n) \in Nat
  <2>1. IsFiniteSet(o \cup n)
    BY <1>2, FS_Union
  <2>2. IsFiniteSet(o \cap n)
    BY <1>2, FS_Subset
  <2>3. Cardinality(o \cup n) = Cardinality(o) + Cardinality(n) - Cardinality(o \cap n)
    BY <1>2, FS_Union
  <2>4. Cardinality(o \cap n) \in Nat /\ Cardinality(o \cup n) \in Nat
    BY <2>1, <2>2, FS_CardinalityType
  <2>5. QED BY ONLY <1>2, <2>1, <2>3, <2>4
<1>5. Cardinality(p2) <= Cardinality(o \cup n)
  BY <1>4, FS_Subset
<1> DEFINE b == BatchCount * f
           c == BatchCount * (f + 1)
<1>6. Cardinality(o) <= b
  BY DEF OrphansOK
<1>7. b \in Nat /\ c = b + BatchCount /\ BatchCount \in Nat
  BY OneBlockMore
<1> HIDE DEF b, c, o, g
<1>8. Cardinality(p2) <= c /\ Cardinality(g) <= c
  BY ONLY <1>2, <1>3, <1>4, <1>5, <1>6, <1>7, Cardinality(n) <= BatchCount
<1>9. QED BY <1>8 DEF OrphansOK, c, g

\* a block is no longer than BatchCount
LEMMA BlockSize ==
  ASSUME NEW l \in Nat, NEW a \in Nat, l < a + BatchCount
  PROVE  IsFiniteSet(a .. l) /\ Cardinality(a .. l) <= BatchCount
<1>1. IsFiniteSet(a .. l) /\ Cardinality(a .. l) = IF a > l THEN 0 ELSE l - a + 1
  BY FS_Interval
<1>2. QED BY <1>1

\* what was held is left behind: at a fault, or after stop()
LEMMA HeldLeft ==
  ASSUME NEW l \in Nat, NEW a \in Nat, NEW p, NEW m, NEW f \in Nat,
         OrphansOK(p, a, l, m, f), NEW p2, p2 \subseteq p,
         NEW a2 \in Nat, l < a2 + BatchCount,
         NEW m2, NEW f2, f2 = f + 1 \/ (m = "quitting" /\ f2 = f)
  PROVE  OrphansOK(p2, a2, l, m2, f2)
<1>1. p2 \subseteq 1 .. l /\ l < a + BatchCount /\ p2 \subseteq (p \ (a .. l)) \cup (a .. l)
  BY DEF OrphansOK
<1>2. CASE f2 = f + 1
  <2> DEFINE n == a .. l
  <2>1. IsFiniteSet(n) /\ Cardinality(n) <= BatchCount
    BY <1>1, BlockSize
  <2>2. p2 \subseteq (p \ (a .. l)) \cup n /\ p2 \subseteq 1 .. l
    BY <1>1
  <2> HIDE DEF n
  <2>3. OrphansOK(p2, a2, l, m2, f + 1)
    BY <2>1, <2>2, OneBlockLeft
  <2>4. QED BY <1>2, <2>3
<1>3. CASE m = "quitting" /\ f2 = f
  <2>1. p \in SUBSET (1 .. l) /\ p2 \in SUBSET (1 .. l) /\ p2 \ (a2 .. l) \in SUBSET (1 .. l)
    BY DEF OrphansOK
  <2>2. /\ IsFiniteSet(p) /\ IsFiniteSet(p2)
        /\ Cardinality(p) \in Nat /\ Cardinality(p2) \in Nat
        /\ Cardinality(p2 \ (a2 .. l)) \in Nat
    BY <2>1, PendingFinite
  <2>3. Cardinality(p2 \ (a2 .. l)) <= Cardinality(p2) /\ Cardinality(p2) <= Cardinality(p)
    BY <2>2, FS_Subset
  <2>4. Cardinality(p) <= BatchCount * f /\ BatchCount * f \in Nat
    BY <1>3, OneBlockMore DEF OrphansOK
  <2> DEFINE b == BatchCount * f
  <2>5. Cardinality(p) <= b /\ b \in Nat
    BY <2>4
  <2> HIDE DEF b
  <2>6. Cardinality(p2) <= b /\ Cardinality(p2 \ (a2 .. l)) <= b
    BY ONLY <2>2, <2>3, <2>5
  <2>7. QED BY <1>1, <1>3, <2>6 DEF OrphansOK, b
<1>4. QED BY <1>2, <1>3

\* the types of what the budget speaks of
LEMMA OrphanTypes ==
  ASSUME Inv, NEW s \in Streams
  PROVE  /\ lastId[s] \in Nat /\ at[s] \in Nat /\ faults \in Nat
         /\ pel[s] \subseteq 1 .. lastId[s]
  BY DEF Inv, Books, Book, TypeOK

\* a step of one loop that reads nothing: it stays at its entry, finishes
\* it, or leaves the rest of its block behind
LEMMA LoopOrphans ==
  ASSUME Inv, Inv', Orphans, NEW s \in Streams,
         UNCHANGED <<proc, lastId>>, faults' \in {faults, faults + 1},
         \A t \in Streams \ {s} : pel'[t] = pel[t] /\ at'[t] = at[t],
         pel'[s] \subseteq pel[s],
         \/ at'[s] = at[s]
         \/ at'[s] = at[s] + 1 /\ at[s] \notin pel'[s]
         \/ /\ at'[s] = lastId[s] + 1
            /\ faults' = faults + 1 \/ (proc = "quitting" /\ faults' = faults)
  PROVE  Orphans'
<1> SUFFICES ASSUME NEW t \in Streams
             PROVE  OrphansOK(pel'[t], at'[t], lastId'[t], proc', faults')
  BY DEF Orphans, OrphansOK
<1>1. /\ lastId[t] \in Nat /\ at[t] \in Nat /\ faults \in Nat
      /\ lastId'[t] \in Nat /\ at'[t] \in Nat /\ lastId'[t] = lastId[t]
      /\ pel'[t] \subseteq 1 .. lastId'[t] /\ pel[t] \subseteq 1 .. lastId[t]
      /\ OrphansOK(pel[t], at[t], lastId[t], proc, faults)
  BY ZenonT(60), OrphanTypes DEF Orphans, Inv, Books, Book, TypeOK
<1>2. pel'[t] \subseteq pel[t] /\ lastId[t] < at[t] + BatchCount
  BY <1>1 DEF OrphansOK
<1>3. CASE at'[t] = at[t]
  <2>1. pel'[t] \ (at'[t] .. lastId'[t]) \subseteq pel[t] \ (at[t] .. lastId[t])
    BY <1>1, <1>2, <1>3
  <2>2. lastId'[t] < at'[t] + BatchCount
    BY <1>1, <1>2, <1>3
  <2>3. QED BY ONLY <1>1, <1>2, <2>1, <2>2, NoOrphanMore,
                    UNCHANGED proc, faults' \in {faults, faults + 1}
<1>4. CASE t = s /\ at'[s] = at[s] + 1 /\ at[s] \notin pel'[s]
  <2>1. pel'[t] \ (at'[t] .. lastId'[t]) \subseteq pel[t] \ (at[t] .. lastId[t])
    BY <1>1, <1>2, <1>4
  <2>2. lastId'[t] < at'[t] + BatchCount
    BY <1>1, <1>2, <1>4
  <2>3. QED BY ONLY <1>1, <1>2, <2>1, <2>2, NoOrphanMore,
                    UNCHANGED proc, faults' \in {faults, faults + 1}
<1>5. CASE /\ t = s /\ at'[s] = lastId[s] + 1
           /\ faults' = faults + 1 \/ (proc = "quitting" /\ faults' = faults)
  <2>1. lastId[t] < at'[t] + BatchCount
    BY <1>1, <1>5
  <2>2. QED BY <1>1, <1>2, <1>5, <2>1, HeldLeft
<1>6. QED BY <1>3, <1>4, <1>5

\* an acknowledgement, made or not, adds nothing to a pending list
LEMMA AckShrinks ==
  ASSUME TypeOK, NEW s \in Streams
  PROVE  /\ Acknowledge(s) \/ UNCHANGED <<pel, acked>> =>
              /\ pel'[s] \subseteq pel[s]
              /\ \A t \in Streams \ {s} : pel'[t] = pel[t]
         /\ Acknowledge(s) => at[s] \notin pel'[s]
  BY DEF TypeOK, Acknowledge

\* where the loop goes
LEMMA AtMoves ==
  ASSUME TypeOK, NEW s \in Streams
  PROVE  /\ Finish(s) => at'[s] = at[s] + 1
         /\ AbandonBatch(s) => at'[s] = lastId[s] + 1
         /\ Finish(s) \/ AbandonBatch(s) =>
              \A t \in Streams \ {s} : at'[t] = at[t]
  BY DEF TypeOK, Finish, AbandonBatch

\* a block read
LEMMA TakeBlock ==
  ASSUME Inv, NEW s \in Streams, Take(s), step[s] = "read"
  PROVE  /\ at[s] = lastId[s] + 1 /\ lastId'[s] \in Nat
         /\ lastId'[s] < at[s] + BatchCount /\ lastId'[s] < at[s] + BatchCount
         /\ pel'[s] = pel[s] \cup (at[s] .. lastId'[s])
         /\ \A t \in Streams \ {s} : lastId'[t] = lastId[t] /\ pel'[t] = pel[t]
<1>1. TypeOK /\ Book(s) /\ lastId[s] \in Nat /\ len[s] \in Nat
  BY SMTT(30) DEF Inv, Books, TypeOK
<1>2. at[s] = lastId[s] + 1 /\ lastId[s] < len[s]
  BY <1>1 DEF Book, Handling, Take
<1>3. /\ lastId'[s] = Min(lastId[s] + BatchCount, len[s])
      /\ pel'[s] = pel[s] \cup (lastId[s] + 1 .. lastId'[s])
      /\ \A t \in Streams \ {s} : lastId'[t] = lastId[t] /\ pel'[t] = pel[t]
  BY <1>1 DEF TypeOK, Take
<1>4. lastId'[s] \in Nat /\ lastId'[s] <= lastId[s] + BatchCount
  BY <1>1, <1>2, <1>3 DEF Min
<1>5. QED BY <1>1, <1>2, <1>3, <1>4

\* a block read, and handed to the loop or lost
LEMMA ReadOrphans ==
  ASSUME Inv, Inv', Orphans, NEW s \in Streams, Read(s) \/ ReadLost(s)
  PROVE  Orphans'
<1>1. /\ step[s] = "read" /\ Take(s) /\ proc = "on" /\ proc' = proc
      /\ \/ UNCHANGED <<at, faults>>
         \/ at' = [at EXCEPT ![s] = lastId'[s] + 1] /\ faults' = faults + 1
  BY DEF Read, ReadLost, Answered, Fails, Fault
<1>2. /\ at[s] = lastId[s] + 1 /\ lastId'[s] \in Nat
      /\ lastId'[s] < at[s] + BatchCount
      /\ pel'[s] = pel[s] \cup (at[s] .. lastId'[s])
      /\ \A t \in Streams \ {s} : lastId'[t] = lastId[t] /\ pel'[t] = pel[t]
  BY <1>1, TakeBlock
<1> SUFFICES ASSUME NEW t \in Streams
             PROVE  OrphansOK(pel'[t], at'[t], lastId'[t], proc', faults')
  BY DEF Orphans, OrphansOK
<1>3. /\ lastId[t] \in Nat /\ at[t] \in Nat /\ faults \in Nat
      /\ lastId'[t] \in Nat /\ at'[t] \in Nat
      /\ pel'[t] \subseteq 1 .. lastId'[t] /\ pel[t] \subseteq 1 .. lastId[t]
      /\ OrphansOK(pel[t], at[t], lastId[t], proc, faults)
      /\ faults' \in {faults, faults + 1} /\ at \in [Streams -> Nat]
  BY ZenonT(60), <1>1, OrphanTypes DEF Orphans, Inv, Books, Book, TypeOK
<1>4. CASE t # s
  <2>1. at'[t] = at[t] /\ lastId'[t] = lastId[t] /\ pel'[t] = pel[t]
    BY <1>1, <1>2, <1>3, <1>4
  <2>2. lastId'[t] < at'[t] + BatchCount
    BY <1>3, <2>1 DEF OrphansOK
  <2>3. pel'[t] \ (at'[t] .. lastId'[t]) \subseteq pel[t] \ (at[t] .. lastId[t])
    BY <2>1
  <2>4. QED BY ONLY <1>1, <1>3, <2>1, <2>2, <2>3, NoOrphanMore
<1>5. CASE t = s /\ UNCHANGED <<at, faults>>
  <2>1. pel'[t] \ (at'[t] .. lastId'[t]) \subseteq pel[t] \ (at[t] .. lastId[t])
    BY <1>2, <1>3, <1>5
  <2>2. lastId'[t] < at'[t] + BatchCount
    BY <1>2, <1>5
  <2>3. QED BY ONLY <1>1, <1>2, <1>3, <1>5, <2>1, <2>2, NoOrphanMore
<1>6. CASE t = s /\ at' = [at EXCEPT ![s] = lastId'[s] + 1] /\ faults' = faults + 1
  <2> DEFINE n == at[t] .. lastId'[t]
  <2>1. IsFiniteSet(n) /\ Cardinality(n) <= BatchCount
    BY <1>2, <1>3, <1>6, BlockSize
  <2>2. pel'[t] \subseteq (pel[t] \ (at[t] .. lastId[t])) \cup n
    BY <1>2, <1>3, <1>6
  <2>3. lastId'[t] < at'[t] + BatchCount
    <3>1. at'[t] = lastId'[t] + 1
      BY <1>3, <1>6
    <3>2. QED BY <1>3, <3>1
  <2> HIDE DEF n
  <2>4. OrphansOK(pel'[t], at'[t], lastId'[t], proc', faults + 1)
    BY <1>3, <2>1, <2>2, <2>3, OneBlockLeft
  <2>5. QED BY <1>6, <2>4
<1>7. QED BY <1>1, <1>4, <1>5, <1>6

\* every step of a loop
LEMMA LoopKeepsOrphans ==
  ASSUME Inv, Inv', Orphans, NEW s \in Streams, Loop(s)
  PROVE  Orphans'
<1>1. TypeOK
  BY DEF Inv
<1>2. CASE Read(s) \/ ReadLost(s)
  BY <1>2, ReadOrphans
<1>3. CASE /\ UNCHANGED <<proc, lastId, at, pel>>
           /\ faults' \in {faults, faults + 1}
  BY <1>3, LoopOrphans
<1>4. CASE /\ UNCHANGED <<proc, lastId>> /\ Acknowledge(s) /\ Finish(s)
           /\ faults' \in {faults, faults + 1}
  BY <1>1, <1>4, AckShrinks, AtMoves, LoopOrphans
<1>5. CASE /\ UNCHANGED <<proc, lastId, at>>
           /\ Acknowledge(s) \/ UNCHANGED <<pel, acked>>
           /\ faults' \in {faults, faults + 1}
  BY <1>1, <1>5, AckShrinks, LoopOrphans
<1>6. CASE /\ UNCHANGED <<proc, lastId>> /\ AbandonBatch(s)
           /\ Acknowledge(s) \/ UNCHANGED <<pel, acked>>
           /\ faults' = faults + 1 \/ (proc = "quitting" /\ faults' = faults)
  BY <1>1, <1>6, AckShrinks, AtMoves, LoopOrphans
<1>7. LeaveLoop(s) => UNCHANGED <<proc, lastId, at, pel, faults>>
  BY DEF LeaveLoop, Closed
<1>8. Discard(s) =>
        /\ UNCHANGED <<proc, lastId>>
        /\ \/ Acknowledge(s) /\ Finish(s) /\ UNCHANGED faults
           \/ /\ AbandonBatch(s)
              /\ Acknowledge(s) \/ UNCHANGED <<pel, acked>>
              /\ faults' = faults + 1 \/ (proc = "quitting" /\ faults' = faults)
  BY DEF Discard, AcknowledgeFails, Answered, Fails, Fault, Closed
<1>9. ActionHandler /\ ~ActionAck =>
        /\ UNCHANGED <<proc, lastId, at, pel>>
        /\ faults' \in {faults, faults + 1}
  BY DEF ActionHandler, Malformed, Executed, ExecutedAgain, ExecutorThrows,
         ActionReply, WriteFails, Answered, Fails, Fault, Closed
<1>10. ActionAck =>
         /\ UNCHANGED <<proc, lastId>>
         /\ \/ Acknowledge("action") /\ Finish("action") /\ UNCHANGED faults
            \/ /\ UNCHANGED at
               /\ Acknowledge("action") \/ UNCHANGED <<pel, acked>>
               /\ faults' \in {faults, faults + 1}
  BY DEF ActionAck, AcknowledgeFails, Answered, Fails, Fault, Closed
<1>11. GeminiAnswers \/ GeminiReply =>
         /\ UNCHANGED <<proc, lastId, at, pel>>
         /\ faults' \in {faults, faults + 1}
  BY DEF GeminiAnswers, GeminiReply, WriteFails, Answered, Fails, Fault, Closed
<1>12. GeminiAck =>
         /\ UNCHANGED <<proc, lastId>>
         /\ \/ Acknowledge("gemini") /\ Finish("gemini") /\ UNCHANGED faults
            \/ /\ UNCHANGED at
               /\ Acknowledge("gemini") \/ UNCHANGED <<pel, acked>>
               /\ faults' \in {faults, faults + 1}
  BY DEF GeminiAck, AcknowledgeFails, Answered, Fails, Fault, Closed
<1>13. GeminiReport =>
         /\ UNCHANGED <<proc, lastId, pel, acked>>
         /\ \/ UNCHANGED <<at, faults>>
            \/ /\ AbandonBatch("gemini")
               /\ faults' = faults + 1 \/ (proc = "quitting" /\ faults' = faults)
  BY DEF GeminiReport, WriteFails, Answered, Fails, Fault, Closed
<1>14. CASE LeaveLoop(s) \/ Discard(s)
  BY ONLY <1>3, <1>4, <1>6, <1>7, <1>8, <1>14
<1>15. CASE s = "action" /\ ActionHandler
  BY <1>3, <1>4, <1>5, <1>9, <1>10, <1>15
<1>16. CASE s = "gemini" /\ GeminiHandler
  BY <1>3, <1>4, <1>5, <1>6, <1>11, <1>12, <1>13, <1>16 DEF GeminiHandler
<1>17. QED BY <1>2, <1>14, <1>15, <1>16 DEF Loop

\* every step
LEMMA NextKeepsOrphans ==
  ASSUME Inv, Inv', Orphans, [Next]_vars
  PROVE  Orphans'
<1>1. CASE \E s \in Streams : Loop(s)
  BY <1>1, LoopKeepsOrphans
<1>2. CASE Start \/ Stop \/ Exit \/ (\E s \in Streams : Produce(s)) \/ UNCHANGED vars
  <2> SUFFICES ASSUME NEW t \in Streams
               PROVE  OrphansOK(pel'[t], at'[t], lastId'[t], proc', faults')
    BY DEF Orphans, OrphansOK
  <2>1. /\ lastId[t] \in Nat /\ at[t] \in Nat /\ faults \in Nat
        /\ OrphansOK(pel[t], at[t], lastId[t], proc, faults)
        /\ pel[t] \subseteq 1 .. lastId[t] /\ lastId[t] < at[t] + BatchCount
    BY OrphanTypes DEF Orphans, OrphansOK
  <2>2. pel' = pel /\ lastId' = lastId
    BY <1>2 DEF Start, Stop, Exit, Produce, vars
  <2>3. CASE /\ UNCHANGED <<at, faults>>
             /\ proc' = "quitting" => proc = "quitting"
    BY <2>1, <2>2, <2>3, NoOrphanMore
  <2>4. CASE Stop
    <3>1. faults' = faults + 1 /\ at' = at
      BY <2>4 DEF Stop, Fault
    <3>2. QED BY <2>1, <2>2, <3>1, HeldLeft
  <2>5. CASE Exit
    <3>1. /\ at' = [s \in Streams |-> lastId[s] + 1]
          /\ faults' = faults + 1 \/ (proc = "quitting" /\ faults' = faults)
      BY <2>5 DEF Exit, Fault
    <3>2. at'[t] \in Nat /\ lastId[t] < at'[t] + BatchCount
      BY <2>1, <3>1
    <3>3. QED BY <2>1, <2>2, <3>1, <3>2, HeldLeft
  <2>6. QED BY <1>2, <2>3, <2>4, <2>5 DEF Start, Produce, vars
<1>3. QED BY <1>1, <1>2 DEF Next

\* the initial state, and what the property asks
LEMMA OrphansInit ==
  ASSUME Init
  PROVE  Orphans
<1> SUFFICES ASSUME NEW s \in Streams
             PROVE  OrphansOK({}, 1, 0, "off", 0)
  BY DEF Init, Orphans
<1>1. Cardinality({}) = 0 /\ {} \ (1 .. 0) = {}
  BY FS_EmptySet
<1>2. QED BY <1>1 DEF OrphansOK

-----------------------------------------------------------------------------
(* What there is without a fault: a loop holds exactly what is pending,    *)
(* and the responses of an entry are those its handler has come to.        *)

Only(r, n) == [q \in Status |-> IF q = r THEN n ELSE 0]

\* of the action stream: R the responses, a the entry handled, p the step of
\* its handler, r the status the executor returned
ActionExact(R, a, p, r) ==
  \A i \in 1 .. MaxLog :
    /\ i < a => \E q \in Status, n \in {0, 2} : R[i] = Only(q, n)
    /\ i = a /\ p = "reply" => R[i] = Only(r, 1)
    /\ i = a /\ p = "ack" => R[i] = Only(r, 2)
    /\ i > a \/ (i = a /\ p \notin {"reply", "ack"}) => \A q \in Status : R[i] = Only(q, 0)

\* of the stream of requests to Gemini
GeminiExact(R, a, p) ==
  \A i \in 1 .. MaxLog :
    R[i]["success"] + R[i]["failure"] =
      IF i < a \/ (i = a /\ p \in {"ack", "discard"}) THEN 1 ELSE 0

NothingLost ==
  /\ proc # "quitting"
  /\ \A s \in Streams : pel[s] = Held(s)
  /\ ActionExact(replies["action"], at["action"], step["action"], result)
  /\ GeminiExact(replies["gemini"], at["gemini"], step["gemini"])

Exact == faults = 0 => NothingLost

\* the executor's response, of whatever status
LEMMA ExactExecuted ==
  ASSUME NEW a \in 1 .. MaxLog, NEW R \in [1 .. MaxLog -> [Status -> Nat]],
         NEW r0 \in Status, NEW r \in Status, ActionExact(R, a, "work", r0)
  PROVE  ActionExact([R EXCEPT ![a][r] = @ + 1], a, "reply", r)
<1> DEFINE R2 == [R EXCEPT ![a][r] = @ + 1]
<1>1. R[a] = Only(r, 0)
  BY DEF ActionExact
<1>2. R2[a] = Only(r, 1)
  <2>1. R2[a] = [R[a] EXCEPT ![r] = @ + 1]
    OBVIOUS
  <2>2. [Only(r, 0) EXCEPT ![r] = @ + 1] = Only(r, 1)
    BY SMTT(30) DEF Only
  <2>3. QED BY <1>1, <2>1, <2>2
<1>3. \A i \in 1 .. MaxLog : i # a => R2[i] = R[i]
  OBVIOUS
<1> HIDE DEF R2
<1>4. QED BY <1>2, <1>3 DEF ActionExact, R2

\* the handler's, which repeats it
LEMMA ExactReply ==
  ASSUME NEW a \in 1 .. MaxLog, NEW R \in [1 .. MaxLog -> [Status -> Nat]],
         NEW r \in Status, ActionExact(R, a, "reply", r)
  PROVE  ActionExact([R EXCEPT ![a][r] = @ + 1], a, "ack", r)
<1> DEFINE R2 == [R EXCEPT ![a][r] = @ + 1]
<1>1. R[a] = Only(r, 1)
  BY DEF ActionExact
<1>2. R2[a] = Only(r, 2)
  <2>1. R2[a] = [R[a] EXCEPT ![r] = @ + 1]
    OBVIOUS
  <2>2. [Only(r, 1) EXCEPT ![r] = @ + 1] = Only(r, 2)
    <3>1. Only(r, 1)[r] + 1 = 2
      BY DEF Only
    <3>2. [Only(r, 1) EXCEPT ![r] = 2] = Only(r, 2)
      BY DEF Only
    <3>3. QED BY <3>1, <3>2
  <2>3. QED BY <1>1, <2>1, <2>2
<1>3. \A i \in 1 .. MaxLog : i # a => R2[i] = R[i]
  OBVIOUS
<1> HIDE DEF R2
<1>4. QED BY <1>2, <1>3 DEF ActionExact, R2

\* done with the entry, after its responses or, discarded, without any
LEMMA ExactDone ==
  ASSUME NEW a \in Nat, NEW R, NEW r \in Status,
         NEW p \in {"ack", "discard"}, ActionExact(R, a, p, r),
         NEW p2 \in {"work", "read"}
  PROVE  ActionExact(R, a + 1, p2, r)
<1> SUFFICES ASSUME NEW i \in 1 .. MaxLog
             PROVE  /\ i < a + 1 => \E q \in Status, n \in {0, 2} : R[i] = Only(q, n)
                    /\ i >= a + 1 => \A q \in Status : R[i] = Only(q, 0)
  BY DEF ActionExact
<1>1. CASE i < a
  BY <1>1 DEF ActionExact
<1>2. CASE i = a /\ p = "ack"
  BY <1>2 DEF ActionExact
<1>3. CASE i = a /\ p = "discard"
  BY <1>3 DEF ActionExact
<1>4. CASE i > a
  BY <1>4 DEF ActionExact
<1>5. QED BY <1>1, <1>2, <1>3, <1>4

\* a request to Gemini answered
LEMMA ExactAnswer ==
  ASSUME NEW a \in 1 .. MaxLog, NEW R \in [1 .. MaxLog -> [Status -> Nat]],
         NEW r \in Status, NEW p \in {"reply", "report"}, GeminiExact(R, a, p),
         NEW p2 \in {"ack", "discard"}
  PROVE  GeminiExact([R EXCEPT ![a][r] = @ + 1], a, p2)
<1> DEFINE R2 == [R EXCEPT ![a][r] = @ + 1]
           old(i, q) == R[i][q]
           new(i, q) == R2[i][q]
<1>1. \A i \in 1 .. MaxLog, q \in Status :
        new(i, q) = IF i = a /\ q = r THEN old(i, q) + 1 ELSE old(i, q)
  OBVIOUS
<1>2. \A i \in 1 .. MaxLog, q \in Status : old(i, q) \in Nat
  OBVIOUS
<1>3. \A i \in 1 .. MaxLog : old(i, "success") + old(i, "failure") = IF i < a THEN 1 ELSE 0
  BY DEF GeminiExact
<1> HIDE DEF old, new, R2
<1>4. \A i \in 1 .. MaxLog :
        new(i, "success") + new(i, "failure") = IF i < a \/ i = a THEN 1 ELSE 0
  BY ONLY <1>1, <1>2, <1>3, r \in Status, a \in 1 .. MaxLog DEF Status
<1>5. QED BY <1>4 DEF GeminiExact, new, R2

\* and done with it
LEMMA ExactAnswered ==
  ASSUME NEW a \in Nat, NEW R, NEW p \in {"ack", "discard"}, GeminiExact(R, a, p),
         NEW p2 \in {"work", "read"}
  PROVE  GeminiExact(R, a + 1, p2)
<1> SUFFICES ASSUME NEW i \in 1 .. MaxLog
             PROVE  R[i]["success"] + R[i]["failure"] = IF i < a + 1 THEN 1 ELSE 0
  BY DEF GeminiExact
<1>1. R[i]["success"] + R[i]["failure"] = IF i < a \/ i = a THEN 1 ELSE 0
  BY DEF GeminiExact
<1>2. i < a + 1 <=> i < a \/ i = a
  OBVIOUS
<1>3. QED BY <1>1, <1>2

\* the initial state
LEMMA ExactInit ==
  ASSUME Init
  PROVE  Exact
<1>1. \A i \in 1 .. MaxLog : i >= 1
  OBVIOUS
<1> DEFINE R == [i \in 1 .. MaxLog |-> [r \in Status |-> 0]]
<1>2. \A i \in 1 .. MaxLog : \A q \in Status : R[i] = Only(q, 0)
  BY DEF Only
<1>3. \A i \in 1 .. MaxLog : R[i]["success"] + R[i]["failure"] = 0
  BY DEF Status
<1> HIDE DEF R
<1>4. ActionExact(R, 1, "idle", result) /\ GeminiExact(R, 1, "idle")
  BY <1>1, <1>2, <1>3 DEF ActionExact, GeminiExact
<1>5. /\ replies["action"] = R /\ replies["gemini"] = R
      /\ at["action"] = 1 /\ at["gemini"] = 1
      /\ step["action"] = "idle" /\ step["gemini"] = "idle"
      /\ proc # "quitting"
      /\ \A s \in Streams : pel[s] = {} /\ Held(s) = 1 .. 0
  BY DEF Init, Held, Streams, R
<1>6. 1 .. 0 = {}
  OBVIOUS
<1>7. QED BY <1>4, <1>5, <1>6 DEF Exact, NothingLost

-----------------------------------------------------------------------------
\* a loop's move while no fault has occurred: what it reads it holds, what it
\* acknowledges it has finished
LEMMA HeldWithoutFault ==
  ASSUME Inv, NEW s \in Streams, NothingLost,
         \/ UNCHANGED <<lastId, pel, at>>
         \/ Take(s) /\ step[s] = "read" /\ UNCHANGED at
         \/ Handling(s) /\ Acknowledge(s) /\ Finish(s) /\ UNCHANGED lastId
  PROVE  \A t \in Streams : pel'[t] = Held(t)'
<1>1. /\ TypeOK /\ \A t \in Streams : pel[t] = at[t] .. lastId[t]
      /\ \A t \in Streams : lastId[t] \in Nat /\ at[t] \in Nat
  BY DEF Inv, NothingLost, Held, TypeOK
<1>2. CASE UNCHANGED <<lastId, pel, at>>
  BY <1>1, <1>2 DEF Held
<1>3. CASE Take(s) /\ step[s] = "read" /\ UNCHANGED at
  <2>1. /\ at[s] = lastId[s] + 1
        /\ pel'[s] = pel[s] \cup (at[s] .. lastId'[s])
        /\ \A t \in Streams \ {s} : lastId'[t] = lastId[t] /\ pel'[t] = pel[t]
    BY <1>3, TakeBlock
  <2>2. pel[s] = {}
    BY <1>1, <2>1
  <2>3. QED BY <1>1, <1>3, <2>1, <2>2 DEF Held
<1>4. CASE Handling(s) /\ Acknowledge(s) /\ Finish(s) /\ UNCHANGED lastId
  <2>1. /\ pel'[s] = pel[s] \ {at[s]} /\ at'[s] = at[s] + 1
        /\ \A t \in Streams \ {s} : pel'[t] = pel[t] /\ at'[t] = at[t]
    BY <1>1, <1>4 DEF TypeOK, Acknowledge, Finish
  <2>2. pel'[s] = at[s] + 1 .. lastId[s]
    BY <1>1, <2>1
  <2>3. QED BY <1>1, <1>4, <2>1, <2>2 DEF Held
<1>5. QED BY <1>2, <1>3, <1>4

\* steps of processMessage
LEMMA ActionWithoutFault ==
  ASSUME Inv, NothingLost, ActionHandler \/ Discard("action"),
         faults = 0, faults' = 0
  PROVE  NothingLost'
<1> DEFINE s == "action"
           R == replies[s]
<1>1. /\ TypeOK /\ Book(s) /\ s \in Streams /\ "gemini" \in Streams
      /\ result \in Status /\ at[s] \in Nat /\ proc # "quitting"
      /\ R \in [1 .. MaxLog -> [Status -> Nat]]
      /\ ActionExact(R, at[s], step[s], result)
      /\ GeminiExact(replies["gemini"], at["gemini"], step["gemini"])
  BY DEF Inv, Books, Streams, TypeOK, NothingLost
<1>2. ~Fault
  BY DEF Fault
<1>3. /\ \A p \in Steps : Goto(s, p) => step'[s] = p /\ step'["gemini"] = step["gemini"]
      /\ \A r \in Status : Write(s, r) =>
           /\ replies'[s] = [R EXCEPT ![at[s]][r] = @ + 1]
           /\ replies'["gemini"] = replies["gemini"]
      /\ Finish(s) =>
           /\ at'[s] = at[s] + 1 /\ at'["gemini"] = at["gemini"]
           /\ step'[s] \in {"work", "read"} /\ step'["gemini"] = step["gemini"]
  BY <1>1 DEF TypeOK, Goto, Write, Finish
<1>4. {"work", "reply", "ack", "discard"} \subseteq Steps
  BY DEF Steps
<1>5. Handling(s) => at[s] \in 1 .. MaxLog
  BY <1>1, HandledInLog
<1>6. CASE Malformed
  <2>1. /\ step[s] = "work" /\ step'[s] = "discard" /\ step'["gemini"] = step["gemini"]
        /\ UNCHANGED <<proc, lastId, pel, at, result, replies>>
    BY <1>3, <1>4, <1>6 DEF Malformed
  <2>2. ActionExact(R, at[s], "discard", result)
    BY <1>1, <2>1 DEF ActionExact
  <2>3. QED BY <1>1, <2>1, <2>2, HeldWithoutFault DEF NothingLost
<1>7. CASE Executed
  <2>1. PICK r \in Status : Write(s, r) /\ result' = r
    BY <1>7 DEF Executed
  <2>2. /\ step[s] = "work" /\ step'[s] = "reply" /\ step'["gemini"] = step["gemini"]
        /\ UNCHANGED <<proc, lastId, pel, at>> /\ Handling(s)
    BY <1>3, <1>4, <1>7 DEF Executed, Handling
  <2>3. /\ replies'[s] = [R EXCEPT ![at[s]][r] = @ + 1]
        /\ replies'["gemini"] = replies["gemini"]
    BY <1>3, <2>1
  <2>4. ActionExact(replies'[s], at[s], "reply", r)
    <3>1. ActionExact([R EXCEPT ![at[s]][r] = @ + 1], at[s], "reply", r)
      BY <1>1, <1>5, <2>2, ExactExecuted
    <3>2. QED BY <2>3, <3>1
  <2>5. QED BY <1>1, <2>1, <2>2, <2>3, <2>4, HeldWithoutFault DEF NothingLost
<1>8. CASE ActionReply
  <2>1. /\ Write(s, result) /\ step[s] = "reply" /\ step'[s] = "ack"
        /\ step'["gemini"] = step["gemini"]
        /\ UNCHANGED <<proc, lastId, pel, at, result>> /\ Handling(s)
    BY <1>1, <1>2, <1>3, <1>4, <1>8
       DEF ActionReply, Handling, WriteFails, Fails, Closed
  <2>2. /\ replies'[s] = [R EXCEPT ![at[s]][result] = @ + 1]
        /\ replies'["gemini"] = replies["gemini"]
    BY <1>1, <1>3, <2>1
  <2>3. ActionExact(replies'[s], at[s], "ack", result)
    <3>1. ActionExact([R EXCEPT ![at[s]][result] = @ + 1], at[s], "ack", result)
      BY <1>1, <1>5, <2>1, ExactReply
    <3>2. QED BY <2>2, <3>1
  <2>4. QED BY <1>1, <2>1, <2>2, <2>3, HeldWithoutFault DEF NothingLost
<1>9. CASE ActionAck \/ Discard(s)
  <2>1. /\ step[s] \in {"ack", "discard"} /\ Acknowledge(s) /\ Finish(s)
        /\ UNCHANGED <<proc, lastId, result, replies>> /\ Handling(s)
    BY <1>1, <1>2, <1>9
       DEF ActionAck, Discard, Handling, AcknowledgeFails, Fails, Closed
  <2>2. /\ at'[s] = at[s] + 1 /\ at'["gemini"] = at["gemini"]
        /\ step'[s] \in {"work", "read"} /\ step'["gemini"] = step["gemini"]
    BY <1>3, <2>1
  <2>3. ActionExact(R, at[s] + 1, step'[s], result)
    BY <1>1, <2>1, <2>2, ExactDone
  <2>4. QED BY <1>1, <2>1, <2>2, <2>3, HeldWithoutFault DEF NothingLost
<1>10. ~ExecutedAgain /\ ~ExecutorThrows
  BY <1>1, <1>2 DEF ExecutedAgain, ExecutorThrows, WriteFails, Fails, Closed
<1>11. QED BY <1>6, <1>7, <1>8, <1>9, <1>10 DEF ActionHandler

\* steps of processGeminiMessage
LEMMA GeminiWithoutFault ==
  ASSUME Inv, NothingLost, GeminiHandler \/ Discard("gemini"),
         faults = 0, faults' = 0
  PROVE  NothingLost'
<1> DEFINE s == "gemini"
           R == replies[s]
<1>1. /\ TypeOK /\ Book(s) /\ s \in Streams /\ "action" \in Streams
      /\ at[s] \in Nat /\ proc # "quitting"
      /\ R \in [1 .. MaxLog -> [Status -> Nat]]
      /\ ActionExact(replies["action"], at["action"], step["action"], result)
      /\ GeminiExact(R, at[s], step[s])
  BY DEF Inv, Books, Streams, TypeOK, NothingLost
<1>2. ~Fault
  BY DEF Fault
<1>3. /\ \A p \in Steps : Goto(s, p) => step'[s] = p /\ step'["action"] = step["action"]
      /\ \A r \in Status : Write(s, r) =>
           /\ replies'[s] = [R EXCEPT ![at[s]][r] = @ + 1]
           /\ replies'["action"] = replies["action"]
      /\ Finish(s) =>
           /\ at'[s] = at[s] + 1 /\ at'["action"] = at["action"]
           /\ step'[s] \in {"work", "read"} /\ step'["action"] = step["action"]
  BY <1>1 DEF TypeOK, Goto, Write, Finish
<1>4. /\ {"work", "reply", "ack", "report", "discard"} \subseteq Steps
      /\ "success" \in Status /\ "failure" \in Status
  BY DEF Steps, Status
<1>5. Handling(s) => at[s] \in 1 .. MaxLog
  BY <1>1, HandledInLog
<1>6. CASE GeminiAnswers
  <2>1. /\ step[s] = "work" /\ step'[s] \in {"reply", "report"}
        /\ step'["action"] = step["action"]
        /\ UNCHANGED <<proc, lastId, pel, at, result, replies>>
    BY <1>3, <1>4, <1>6 DEF GeminiAnswers
  <2>2. GeminiExact(R, at[s], step'[s])
    BY <1>1, <2>1 DEF GeminiExact
  <2>3. QED BY <1>1, <2>1, <2>2, HeldWithoutFault DEF NothingLost
<1>7. CASE GeminiReply \/ GeminiReport
  <2>1. PICK r \in Status :
          /\ Write(s, r) /\ step[s] \in {"reply", "report"}
          /\ step'[s] \in {"ack", "discard"} /\ step'["action"] = step["action"]
          /\ UNCHANGED <<proc, lastId, pel, at, result>> /\ Handling(s)
    BY <1>1, <1>2, <1>3, <1>4, <1>7
       DEF GeminiReply, GeminiReport, Handling, WriteFails, Fails, Closed
  <2>2. /\ replies'[s] = [R EXCEPT ![at[s]][r] = @ + 1]
        /\ replies'["action"] = replies["action"]
    BY <1>3, <2>1
  <2>3. GeminiExact(replies'[s], at[s], step'[s])
    <3>1. GeminiExact([R EXCEPT ![at[s]][r] = @ + 1], at[s], step'[s])
      BY ZenonT(60), <1>1, <1>5, <2>1, ExactAnswer
    <3>2. QED BY <2>2, <3>1
  <2>4. QED BY <1>1, <2>1, <2>2, <2>3, HeldWithoutFault DEF NothingLost
<1>8. CASE GeminiAck \/ Discard(s)
  <2>1. /\ step[s] \in {"ack", "discard"} /\ Acknowledge(s) /\ Finish(s)
        /\ UNCHANGED <<proc, lastId, result, replies>> /\ Handling(s)
    BY <1>1, <1>2, <1>8
       DEF GeminiAck, Discard, Handling, AcknowledgeFails, Fails, Closed
  <2>2. /\ at'[s] = at[s] + 1 /\ at'["action"] = at["action"]
        /\ step'[s] \in {"work", "read"} /\ step'["action"] = step["action"]
    BY <1>3, <2>1
  <2>3. GeminiExact(R, at[s] + 1, step'[s])
    BY <1>1, <2>1, <2>2, ExactAnswered
  <2>4. QED BY <1>1, <2>1, <2>2, <2>3, HeldWithoutFault DEF NothingLost
<1>9. QED BY <1>6, <1>7, <1>8 DEF GeminiHandler

\* every step
LEMMA NextKeepsExact ==
  ASSUME Inv, Exact, [Next]_vars
  PROVE  Exact'
<1> SUFFICES ASSUME faults' = 0 PROVE NothingLost'
  BY DEF Exact
<1>1. TypeOK /\ (\A s \in Streams : Book(s)) /\ faults \in Nat
  BY DEF Inv, Books, TypeOK
<1>2. ~Fault
  BY <1>1 DEF Fault
<1>3. faults = 0
  BY <1>1, <1>2
     DEF Next, Loop, Start, Stop, Exit, Produce, Read, ReadLost, LeaveLoop, Discard,
         ActionHandler, Malformed, Executed, ExecutedAgain, ExecutorThrows,
         ActionReply, ActionAck, GeminiHandler, GeminiAnswers, GeminiReply,
         GeminiAck, GeminiReport, WriteFails, AcknowledgeFails,
         Answered, Fails, Closed, vars
<1>4. /\ NothingLost /\ proc # "quitting"
      /\ ActionExact(replies["action"], at["action"], step["action"], result)
      /\ GeminiExact(replies["gemini"], at["gemini"], step["gemini"])
      /\ "action" \in Streams /\ "gemini" \in Streams
  BY <1>3 DEF Exact, NothingLost, Streams
<1>5. CASE UNCHANGED <<proc, step, lastId, pel, at, result, replies>>
  BY <1>1, <1>4, <1>5, HeldWithoutFault DEF NothingLost
<1>6. CASE Start
  <2>1. /\ proc' = "on" /\ \A s \in Streams : step[s] = "idle" /\ step'[s] = "read"
        /\ UNCHANGED <<lastId, pel, at, result, replies>>
    BY <1>1, <1>6 DEF Start, Book
  <2>2. /\ ActionExact(replies["action"], at["action"], "read", result)
        /\ GeminiExact(replies["gemini"], at["gemini"], "read")
    BY <1>4, <2>1 DEF ActionExact, GeminiExact
  <2>3. QED BY <1>4, <2>1, <2>2, HeldWithoutFault DEF NothingLost
<1>7. ASSUME NEW s \in Streams, Read(s) PROVE NothingLost'
  <2>1. /\ step[s] = "read" /\ step'[s] = "work" /\ Take(s)
        /\ \A t \in Streams \ {s} : step'[t] = step[t]
        /\ UNCHANGED <<proc, at, result, replies>>
    BY <1>1, <1>7 DEF Read, Goto, TypeOK, Steps
  <2>2. /\ ActionExact(replies["action"], at["action"], step'["action"], result)
        /\ GeminiExact(replies["gemini"], at["gemini"], step'["gemini"])
    <3>1. \A t \in Streams :
            \/ step'[t] = step[t]
            \/ step[t] = "read" /\ step'[t] = "work"
      BY <2>1
    <3>2. QED BY <1>4, <3>1 DEF ActionExact, GeminiExact
  <2>3. \A t \in Streams : pel'[t] = Held(t)'
    BY <1>4, <2>1, HeldWithoutFault
  <2>4. QED BY <1>4, <2>1, <2>2, <2>3 DEF NothingLost
<1>8. CASE \E s \in Streams : Loop(s)
  <2>1. PICK s \in Streams : Loop(s)
    BY <1>8
  <2>2. ~ReadLost(s) /\ ~LeaveLoop(s)
    BY <1>2, <1>4 DEF ReadLost, LeaveLoop, Fails, Closed
  <2>3. CASE Discard(s)
    BY <1>3, <1>4, <2>3, ActionWithoutFault, GeminiWithoutFault DEF Streams
  <2>4. QED BY <1>3, <1>4, <1>7, <2>1, <2>2, <2>3,
               ActionWithoutFault, GeminiWithoutFault DEF Loop
<1>9. ~Stop /\ ~Exit
  BY <1>2, <1>4 DEF Stop, Exit
<1>10. QED BY <1>5, <1>6, <1>8, <1>9 DEF Next, Produce, vars

\* what is acknowledged without a fault is what the loops are done with
LEMMA ExactAcked ==
  ASSUME Inv, NothingLost, NEW s \in Streams
  PROVE  \A i \in acked[s] : i \in 1 .. MaxLog /\ i < at[s]
<1>1. /\ lastId[s] \in Nat /\ len[s] \in 0 .. MaxLog /\ lastId[s] <= len[s]
      /\ at[s] \in Nat /\ pel[s] = at[s] .. lastId[s]
      /\ pel[s] \cup acked[s] = 1 .. lastId[s] /\ pel[s] \cap acked[s] = {}
  BY DEF Inv, Books, Book, TypeOK, NothingLost, Held
<1>2. QED BY <1>1

(* Nothing but faults leaves an entry pending or without its responses:    *)
(* without one, what is pending is what a loop holds and every finished    *)
(* entry has exactly its responses; with f of them, at most f blocks of a  *)
(* stream are left behind, whatever the interleaving of the loops, of      *)
(* stop() and of crashes.                                                  *)
THEOREM NothingElseIsLost == Spec => []ExactButForFaults
<1>1. Init => Inv /\ Orphans /\ Exact
  BY InitBooks, OrphansInit, ExactInit
<1>2. Inv /\ Orphans /\ Exact /\ [Next]_vars => Inv' /\ Orphans' /\ Exact'
  BY NextKeepsBooks, NextKeepsOrphans, NextKeepsExact
<1>3. Inv /\ Orphans /\ Exact => ExactButForFaults
  <2> SUFFICES ASSUME Inv, Orphans, Exact PROVE ExactButForFaults
    OBVIOUS
  <2>1. OrphanBudget
    BY DEF Orphans, OrphansOK, OrphanBudget, Held
  <2>2. ASSUME faults = 0
        PROVE  /\ \A s \in Streams : pel[s] = Held(s)
               /\ \A i \in acked["gemini"] : Answers("gemini", i) = 1
               /\ \A i \in acked["action"] :
                    \E r \in Status, n \in {0, 2} :
                      replies["action"][i] = [q \in Status |-> IF q = r THEN n ELSE 0]
    <3>1. NothingLost
      BY <2>2 DEF Exact
    <3>2. "action" \in Streams /\ "gemini" \in Streams
      BY DEF Streams
    <3>3. \A i \in acked["gemini"] : i \in 1 .. MaxLog /\ i < at["gemini"]
      BY <3>1, <3>2, ExactAcked
    <3>4. \A i \in acked["action"] : i \in 1 .. MaxLog /\ i < at["action"]
      BY <3>1, <3>2, ExactAcked
    <3>5. \A i \in acked["gemini"] : Answers("gemini", i) = 1
      BY <3>1, <3>3 DEF NothingLost, GeminiExact, Answers
    <3>6. \A i \in acked["action"] :
            \E r \in Status, n \in {0, 2} : replies["action"][i] = Only(r, n)
      BY <3>1, <3>4 DEF NothingLost, ActionExact
    <3>7. QED BY <3>1, <3>5, <3>6 DEF NothingLost, Only
  <2>3. QED BY <2>1, <2>2 DEF ExactButForFaults, ExactWithoutFault
<1>4. QED BY <1>1, <1>2, <1>3, PTL DEF Spec
=============================================================================
