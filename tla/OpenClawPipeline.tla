--------------------------- MODULE OpenClawPipeline ---------------------------
(***************************************************************************)
(* OpenClaw's consumer loops (openclaw/src/pipeline.ts).  One process runs *)
(* two of them, one on tasks:action and one on tasks:gemini, over a shared *)
(* Redis connection.  Each reads a batch of new entries and handles them   *)
(* one after the other: do the work, write a response, acknowledge, with a *)
(* catch block that differs from one loop to the other.                    *)
(*                                                                         *)
(* A batch is read in one block and handled in order, so the entries a     *)
(* loop holds are at[s] .. lastId[s].  A Redis call may fail, before or    *)
(* after it took effect; after stop() it always fails.  Detecting leads is *)
(* one such call, made between the work and the response.  The executor is *)
(* one step here; ActionExecutor has its detail.                           *)
(***************************************************************************)
EXTENDS Naturals, FiniteSets

CONSTANTS
  BatchCount,  \* the COUNT of XREADGROUP
  MaxLog,      \* bound: entries of a stream
  MaxFaults    \* bound: failed calls, stops and crashes

ASSUME PipelineAssumption ==
  BatchCount \in Nat \ {0} /\ MaxLog \in Nat /\ MaxFaults \in Nat

VARIABLES
  proc,      \* the process: "off", "on", or "quitting" once stop() is called
  step,      \* [Streams -> Steps], where each loop is
  len,       \* [Streams -> Nat], entries of the stream
  lastId,    \* [Streams -> Nat], the group's last-delivered entry
  pel,       \* [Streams -> SUBSET Nat], delivered and not acknowledged
  acked,     \* [Streams -> SUBSET Nat]
  at,        \* [Streams -> Nat], the entry being handled
  result,    \* the status the executor returned
  \* history, never read by the code
  replies,   \* [Streams -> [1 .. MaxLog -> [Status -> Nat]]], responses
             \* written to responses:<id> for each entry
  faults

Streams == {"action", "gemini"}
Status == {"success", "failure"}
Steps == {"idle", "read", "work", "reply", "ack", "report", "discard"}

vars == <<proc, step, len, lastId, pel, acked, at, result, replies, faults>>

Init ==
  /\ proc = "off"
  /\ step = [s \in Streams |-> "idle"]
  /\ len = [s \in Streams |-> 0]
  /\ lastId = [s \in Streams |-> 0]
  /\ pel = [s \in Streams |-> {}]
  /\ acked = [s \in Streams |-> {}]
  /\ at = [s \in Streams |-> 1]
  /\ result = "failure"
  /\ replies = [s \in Streams |-> [i \in 1 .. MaxLog |-> [r \in Status |-> 0]]]
  /\ faults = 0

Goto(s, p) == step' = [step EXCEPT ![s] = p]
Fault == faults < MaxFaults /\ faults' = faults + 1

\* a Redis call is answered, or fails
Answered == proc = "on" /\ UNCHANGED faults
Fails == proc = "on" /\ Fault
Closed == proc = "quitting" /\ UNCHANGED faults

-----------------------------------------------------------------------------
(* start: connect, create both groups from entry 0, launch both loops.  An *)
(* error ends the process before it has done anything; that a group exists *)
(* is not an error.                                                        *)
Start ==
  /\ proc = "off"
  /\ proc' = "on"
  /\ step' = [s \in Streams |-> "read"]
  /\ UNCHANGED <<len, lastId, pel, acked, at, result, replies, faults>>

(* stop: the loops see running false, the connection closes behind what    *)
(* was sent.                                                               *)
Stop ==
  /\ proc = "on" /\ Fault
  /\ proc' = "quitting"
  /\ UNCHANGED <<step, len, lastId, pel, acked, at, result, replies>>

\* the process ends, and what its loops hold stays in the pending list
Exit ==
  /\ \/ proc = "quitting" /\ UNCHANGED faults
     \/ proc = "on" /\ Fault
  /\ proc' = "off"
  /\ step' = [s \in Streams |-> "idle"]
  /\ at' = [s \in Streams |-> lastId[s] + 1]
  /\ UNCHANGED <<len, lastId, pel, acked, result, replies>>

-----------------------------------------------------------------------------
(* The loop: consumeMessages, consumeGeminiMessages.                       *)

Min(m, n) == IF m <= n THEN m ELSE n

\* mutant: the group is read with NOACK
TakeNoAck(s) ==
  /\ lastId[s] < len[s]
  /\ lastId' = [lastId EXCEPT ![s] = Min(@ + BatchCount, len[s])]
  /\ UNCHANGED pel

Take(s) ==
  /\ lastId[s] < len[s]
  /\ lastId' = [lastId EXCEPT ![s] = Min(@ + BatchCount, len[s])]
  /\ pel' = [pel EXCEPT ![s] = @ \cup (lastId[s] + 1 .. Min(lastId[s] + BatchCount, len[s]))]

Read(s) ==
  /\ step[s] = "read" /\ Answered
  /\ Take(s)
  /\ Goto(s, "work")
  /\ UNCHANGED <<proc, len, acked, at, result, replies>>

\* the reply is lost: after a pause the loop reads on with >
ReadLost(s) ==
  /\ step[s] = "read" /\ Fails
  /\ Take(s)
  /\ at' = [at EXCEPT ![s] = lastId'[s] + 1]
  /\ UNCHANGED <<proc, step, len, acked, result, replies>>

LeaveLoop(s) ==
  /\ step[s] = "read" /\ Closed
  /\ Goto(s, "idle")
  /\ UNCHANGED <<proc, len, lastId, pel, acked, at, result, replies>>

\* the next entry of the batch
Finish(s) ==
  /\ at' = [at EXCEPT ![s] = @ + 1]
  /\ Goto(s, IF at[s] < lastId[s] THEN "work" ELSE "read")

\* mutant: an error that leaves the handler ends the loop
AbandonLoop(s) ==
  /\ at' = [at EXCEPT ![s] = lastId[s] + 1]
  /\ Goto(s, "idle")

\* an error that leaves the handler ends the batch
AbandonBatch(s) ==
  /\ at' = [at EXCEPT ![s] = lastId[s] + 1]
  /\ Goto(s, "read")

-----------------------------------------------------------------------------
(* Calls of a handler.  A failed one may have taken effect.                *)

Write(s, r) == replies' = [replies EXCEPT ![s][at[s]][r] = @ + 1]

WriteFails(s, r) ==
  \/ Fails /\ (Write(s, r) \/ UNCHANGED replies)
  \/ Closed /\ UNCHANGED replies

Acknowledge(s) ==
  /\ pel' = [pel EXCEPT ![s] = @ \ {at[s]}]
  /\ acked' = [acked EXCEPT ![s] = @ \cup {at[s]}]

AcknowledgeFails(s) ==
  \/ Fails /\ (Acknowledge(s) \/ UNCHANGED <<pel, acked>>)
  \/ Closed /\ UNCHANGED <<pel, acked>>

-----------------------------------------------------------------------------
(* processMessage: the executor writes a response of its own, then the     *)
(* handler writes another; any error goes to a catch that acknowledges the *)
(* entry without a response.                                               *)

\* params that do not parse
Malformed ==
  /\ step["action"] = "work" /\ proc # "off"
  /\ Goto("action", "discard")
  /\ UNCHANGED <<proc, len, lastId, pel, acked, at, result, replies, faults>>

Executed ==
  /\ step["action"] = "work" /\ Answered
  /\ \E r \in Status : Write("action", r) /\ result' = r
  /\ Goto("action", "reply")
  /\ UNCHANGED <<proc, len, lastId, pel, acked, at>>

\* a success it could not publish made the executor try again
ExecutedAgain ==
  /\ step["action"] = "work" /\ Fails
  /\ \E r \in Status, extra \in 0 .. 1 :
       /\ replies' = [replies EXCEPT !["action"][at["action"]] =
            [q \in Status |-> @[q] + (IF q = r THEN 1 ELSE 0)
                                   + (IF q = "success" THEN extra ELSE 0)]]
       /\ result' = r
  /\ Goto("action", "reply")
  /\ UNCHANGED <<proc, len, lastId, pel, acked, at>>

ExecutorThrows ==
  /\ step["action"] = "work"
  /\ WriteFails("action", "failure")
  /\ Goto("action", "discard")
  /\ UNCHANGED <<proc, len, lastId, pel, acked, at, result>>

\* mutant: the handler reports every action as done
ActionReplySuccess ==
  /\ step["action"] = "reply"
  /\ \/ Answered /\ Write("action", "success") /\ Goto("action", "ack")
     \/ WriteFails("action", "success") /\ Goto("action", "discard")
  /\ UNCHANGED <<proc, len, lastId, pel, acked, at, result>>

ActionReply ==
  /\ step["action"] = "reply"
  /\ \/ Answered /\ Write("action", result) /\ Goto("action", "ack")
     \/ WriteFails("action", result) /\ Goto("action", "discard")
  /\ UNCHANGED <<proc, len, lastId, pel, acked, at, result>>

ActionAck ==
  /\ step["action"] = "ack"
  /\ \/ Answered /\ Acknowledge("action") /\ Finish("action")
     \/ /\ AcknowledgeFails("action")
        /\ Goto("action", "discard") /\ UNCHANGED at
  /\ UNCHANGED <<proc, len, lastId, result, replies>>

ActionHandler ==
  \/ Malformed \/ Executed \/ ExecutedAgain \/ ExecutorThrows
  \/ ActionReply \/ ActionAck

-----------------------------------------------------------------------------
(* processGeminiMessage: any error goes to a catch that first writes a     *)
(* failure, then acknowledges.                                             *)

GeminiAnswers ==
  /\ step["gemini"] = "work" /\ proc # "off"
  /\ Goto("gemini", "reply") \/ Goto("gemini", "report")
  /\ UNCHANGED <<proc, len, lastId, pel, acked, at, result, replies, faults>>

GeminiReply ==
  /\ step["gemini"] = "reply"
  /\ \/ Answered /\ Write("gemini", "success") /\ Goto("gemini", "ack")
     \/ WriteFails("gemini", "success") /\ Goto("gemini", "report")
  /\ UNCHANGED <<proc, len, lastId, pel, acked, at, result>>

GeminiAck ==
  /\ step["gemini"] = "ack"
  /\ \/ Answered /\ Acknowledge("gemini") /\ Finish("gemini")
     \/ /\ AcknowledgeFails("gemini")
        /\ Goto("gemini", "report") /\ UNCHANGED at
  /\ UNCHANGED <<proc, len, lastId, result, replies>>

\* mutant: the catch swallows the error of its own publish
GeminiReportIgnored ==
  /\ step["gemini"] = "report"
  /\ \/ Answered /\ Write("gemini", "failure")
     \/ WriteFails("gemini", "failure")
  /\ Goto("gemini", "discard")
  /\ UNCHANGED <<proc, len, lastId, pel, acked, at, result>>

GeminiReport ==
  /\ step["gemini"] = "report"
  /\ \/ /\ Answered /\ Write("gemini", "failure")
        /\ Goto("gemini", "discard") /\ UNCHANGED at
     \/ WriteFails("gemini", "failure") /\ AbandonBatch("gemini")
  /\ UNCHANGED <<proc, len, lastId, pel, acked, result>>

GeminiHandler == GeminiAnswers \/ GeminiReply \/ GeminiAck \/ GeminiReport

-----------------------------------------------------------------------------
\* the acknowledgement of a catch block
Discard(s) ==
  /\ step[s] = "discard"
  /\ \/ Answered /\ Acknowledge(s) /\ Finish(s)
     \/ AcknowledgeFails(s) /\ AbandonBatch(s)
  /\ UNCHANGED <<proc, len, lastId, result, replies>>

\* environment: PicoClaw appends an entry
Produce(s) ==
  /\ len[s] < MaxLog
  /\ len' = [len EXCEPT ![s] = @ + 1]
  /\ UNCHANGED <<proc, step, lastId, pel, acked, at, result, replies, faults>>

Loop(s) ==
  \/ Read(s) \/ ReadLost(s) \/ LeaveLoop(s) \/ Discard(s)
  \/ s = "action" /\ ActionHandler
  \/ s = "gemini" /\ GeminiHandler

Next ==
  \/ Start \/ Stop \/ Exit
  \/ \E s \in Streams : Loop(s) \/ Produce(s)

Spec == Init /\ [][Next]_vars
\* the event loop runs both consumers, calls are answered or rejected
FairSpec == Spec /\ \A s \in Streams : WF_vars(Loop(s))

-----------------------------------------------------------------------------
(* Every variable has its type.                                            *)
TypeOK ==
  /\ proc \in {"off", "on", "quitting"}
  /\ step \in [Streams -> Steps]
  /\ len \in [Streams -> 0 .. MaxLog]
  /\ lastId \in [Streams -> Nat]
  /\ pel \in [Streams -> SUBSET Nat]
  /\ acked \in [Streams -> SUBSET Nat]
  /\ at \in [Streams -> Nat]
  /\ result \in Status
  /\ replies \in [Streams -> [1 .. MaxLog -> [Status -> Nat]]]
  /\ faults \in Nat

Handling(s) == step[s] \notin {"idle", "read"}
Held(s) == at[s] .. lastId[s]

Book(s) ==
  /\ lastId[s] <= len[s]
  /\ pel[s] \cup acked[s] = 1 .. lastId[s] /\ pel[s] \cap acked[s] = {}
  /\ IF Handling(s) THEN at[s] \in 1 .. lastId[s] ELSE at[s] = lastId[s] + 1
  /\ step[s] \in {"work", "reply", "ack"} => at[s] \in pel[s]
  /\ at[s] + 1 .. lastId[s] \subseteq pel[s]
  /\ proc = "off" => step[s] = "idle"
  /\ proc = "on" => step[s] # "idle"

(* A stream's books: what was read is pending or acknowledged; a loop      *)
(* between batches holds nothing; one in a batch holds its youngest        *)
(* entries, none acknowledged but perhaps the current one, in a catch      *)
(* block, after an XACK that failed on the way back.                       *)
Books == \A s \in Streams : Book(s)

Answers(s, i) == replies[s][i]["success"] + replies[s][i]["failure"]

(* No request to Gemini is acknowledged without a response: its catch      *)
(* block writes one first, and an error of that write leaves the entry     *)
(* pending.                                                                *)
GeminiAckedIsAnswered ==
  \A i \in acked["gemini"] : Answers("gemini", i) > 0

(* While no call failed and nobody stopped the process, nothing is pending *)
(* but what a loop holds, a finished request to Gemini has one response, a *)
(* finished action two that agree, the executor's and the handler's, or    *)
(* none if its params did not parse.                                       *)
ExactWithoutFault ==
  faults = 0 =>
    /\ \A s \in Streams : pel[s] = Held(s)
    /\ \A i \in acked["gemini"] : Answers("gemini", i) = 1
    /\ \A i \in acked["action"] :
         \E r \in Status, n \in {0, 2} :
           replies["action"][i] = [q \in Status |-> IF q = r THEN n ELSE 0]

(* A fault leaves at most one batch of each stream pending for ever.       *)
OrphanBudget ==
  \A s \in Streams :
    Cardinality(pel[s] \ Held(s)) <= BatchCount * faults

(* Nothing but faults leaves an entry pending or without its responses.    *)
ExactButForFaults == ExactWithoutFault /\ OrphanBudget

(* If the process stays up from some time on, its loops read every entry   *)
(* and finish with it.                                                     *)
Drained ==
  <>[](proc = "on") =>
    <>[](\A s \in Streams : lastId[s] = len[s] /\ ~Handling(s))
=============================================================================
