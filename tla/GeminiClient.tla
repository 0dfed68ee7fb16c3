---------------------------- MODULE GeminiClient ----------------------------
(***************************************************************************)
(* OpenClaw's client of Google AI Studio (openclaw/src/gemini-client.ts):  *)
(* a limiter of requests per minute and per day, a queue for what exceeds  *)
(* it, served by one processQueue loop, and a circuit breaker.             *)
(*                                                                         *)
(* Code between two awaits takes no time and is one action; time passes    *)
(* and calls interleave at the awaits.  A time is kept as its age in ticks *)
(* or, of a timer, as what is left of it.  A message, its session's        *)
(* context and the cached text a fallback may show are left out.           *)
(***************************************************************************)
EXTENDS Naturals, Sequences, FiniteSets

CONSTANTS
  Calls,            \* calls of sendMessage and streamResponse
  Streaming,        \* those of streamResponse
  MaxPerMinute, MaxPerDay,
  Minute, Day,      \* the two windows, in ticks
  FailureThreshold, RecoveryTime

\* assumed of the constants by whoever instantiates the module
ClientAssumption ==
  /\ IsFiniteSet(Calls) /\ Calls # {} /\ Streaming \subseteq Calls
  /\ MaxPerMinute \in Nat \ {0} /\ MaxPerDay \in Nat \ {0}
  /\ Minute \in Nat \ {0} /\ Day \in Nat /\ Minute <= Day
  /\ FailureThreshold \in Nat \ {0} /\ RecoveryTime \in Nat

VARIABLES
  circuit, failureCount,
  sinceFailure, \* age of lastFailureTime, up to RecoveryTime
  stamps,       \* ages of dayTimestamps, oldest first; minuteTimestamps are
                \* the last of them
  queue, processing,
  loop,         \* processQueue: "none", "delay", "request" or "next"
  serving,      \* the call it took from the queue
  delay,        \* [Calls -> Nat] what is left of a stream's delay, or of the
                \* loop's before it serves the call at the queue's head
  call,         \* [Calls -> CallStates]
  answer,       \* [Calls -> {"none", "response", "fallback"}]
  \* history, never read by the code
  overlapped,   \* some call began while another was in progress
  dayDelay      \* some request waited for the day's quota

limiterVars == <<stamps, queue, processing, loop, serving, delay>>
breakerVars == <<circuit, failureCount, sinceFailure>>
vars == <<breakerVars, limiterVars, call, answer, overlapped, dayDelay>>

CallStates == {"new", "queued", "delayed", "sent", "done"}
InProgress == {"queued", "delayed", "sent"}

Init ==
  /\ circuit = "closed" /\ failureCount = 0 /\ sinceFailure = 0
  /\ stamps = << >> /\ queue = << >> /\ processing = FALSE
  /\ loop = "none" /\ serving = CHOOSE c \in Calls : TRUE
  /\ delay = [c \in Calls |-> 0]
  /\ call = [c \in Calls |-> "new"]
  /\ answer = [c \in Calls |-> "none"]
  /\ overlapped = FALSE /\ dayDelay = FALSE

-----------------------------------------------------------------------------
(* RateLimiter and CircuitBreaker.                                         *)

\* the requests of the last w ticks
Recent(w) == {i \in DOMAIN stamps : stamps[i] < w}

DayFull == Len(stamps) >= MaxPerDay
CanProceed == Cardinality(Recent(Minute)) < MaxPerMinute /\ ~DayFull

\* until the oldest request of the window leaves it
Leaves(w) == w - stamps[CHOOSE i \in Recent(w) : \A j \in Recent(w) : i <= j]

\* called when the quota is exhausted
GetWaitTime == IF DayFull THEN Leaves(Day) ELSE Leaves(Minute)

RecordRequest == stamps' = Append(stamps, 0)

Recovered == circuit = "open" /\ sinceFailure = RecoveryTime

\* mutant: a recovered circuit is closed rather than half-open
CanExecuteCloses ==
  /\ circuit # "open" \/ Recovered
  /\ circuit' = IF Recovered THEN "closed" ELSE circuit
  /\ UNCHANGED <<failureCount, sinceFailure>>

CanExecute ==
  /\ circuit # "open" \/ Recovered
  /\ circuit' = IF Recovered THEN "half-open" ELSE circuit
  /\ UNCHANGED <<failureCount, sinceFailure>>

RecordSuccess ==
  /\ circuit' = "closed" /\ failureCount' = 0
  /\ UNCHANGED sinceFailure

RecordFailure ==
  /\ failureCount' = failureCount + 1
  /\ sinceFailure' = 0
  /\ circuit' = IF failureCount + 1 >= FailureThreshold THEN "open" ELSE circuit

-----------------------------------------------------------------------------
(* sendMessage, streamResponse.                                            *)

Begins(c) ==
  /\ call[c] = "new"
  /\ overlapped' = (overlapped \/ \E d \in Calls : call[d] \in InProgress)

Goto(c, p) == call' = [call EXCEPT ![c] = p]
Return(c, a) == Goto(c, "done") /\ answer' = [answer EXCEPT ![c] = a]

\* the circuit is open: handleFallback
Refused(c) ==
  /\ Begins(c)
  /\ circuit = "open" /\ ~Recovered
  /\ Return(c, "fallback")
  /\ UNCHANGED <<breakerVars, limiterVars, dayDelay>>

Send(c) ==
  /\ Begins(c) /\ CanExecute /\ CanProceed
  /\ RecordRequest /\ Goto(c, "sent")
  /\ UNCHANGED <<queue, processing, loop, serving, delay, answer, dayDelay>>

Enqueue(c) ==
  /\ Begins(c) /\ c \notin Streaming /\ CanExecute /\ ~CanProceed
  /\ Goto(c, "queued") /\ queue' = Append(queue, c)
  /\ IF processing
       THEN UNCHANGED <<processing, loop, delay, dayDelay>>
       ELSE /\ processing' = TRUE /\ loop' = "delay"
            /\ delay' = [delay EXCEPT ![c] = GetWaitTime]
            /\ dayDelay' = (dayDelay \/ DayFull)
  /\ UNCHANGED <<stamps, serving, answer>>

Delay(c) ==
  /\ Begins(c) /\ c \in Streaming /\ CanExecute /\ ~CanProceed
  /\ Goto(c, "delayed") /\ delay' = [delay EXCEPT ![c] = GetWaitTime]
  /\ dayDelay' = (dayDelay \/ DayFull)
  /\ UNCHANGED <<stamps, queue, processing, loop, serving, answer>>

\* the delay of a stream is over; it asks nobody again
StreamWakes(c) ==
  /\ call[c] = "delayed" /\ delay[c] = 0
  /\ RecordRequest /\ Goto(c, "sent")
  /\ UNCHANGED <<breakerVars, queue, processing, loop, serving, delay,
                 answer, overlapped, dayDelay>>

\* the await of processQueue, if c is the call it serves
ServedReturns(c) ==
  loop' = IF loop = "request" /\ serving = c THEN "next" ELSE loop

ApiAnswers(c) ==
  /\ call[c] = "sent"
  /\ RecordSuccess /\ Return(c, "response") /\ ServedReturns(c)
  /\ UNCHANGED <<stamps, queue, processing, serving, delay, overlapped,
                 dayDelay>>

ApiFails(c) ==
  /\ call[c] = "sent"
  /\ RecordFailure /\ Return(c, "fallback") /\ ServedReturns(c)
  /\ UNCHANGED <<stamps, queue, processing, serving, delay, overlapped,
                 dayDelay>>

\* the reader of a stream stops reading: neither success nor failure
StreamAbandoned(c) ==
  /\ call[c] = "sent" /\ c \in Streaming
  /\ Goto(c, "done")
  /\ UNCHANGED <<breakerVars, limiterVars, answer, overlapped, dayDelay>>

-----------------------------------------------------------------------------
(* processQueue.                                                           *)

Serve ==
  /\ serving' = Head(queue) /\ queue' = Tail(queue)
  /\ loop' = "request"
  /\ RecordRequest /\ Goto(Head(queue), "sent")

\* mutant: what is queued is sent without a delay
LoopHurries ==
  /\ loop = "delay"
  /\ Serve
  /\ UNCHANGED <<breakerVars, processing, delay, answer, overlapped, dayDelay>>

\* the delay is over: the head is sent without asking the limiter again
LoopWakes ==
  /\ loop = "delay" /\ delay[Head(queue)] = 0
  /\ Serve
  /\ UNCHANGED <<breakerVars, processing, delay, answer, overlapped, dayDelay>>

\* mutant: the finally block is forgotten
LoopEndsProcessing ==
  /\ loop = "next" /\ queue = << >>
  /\ loop' = "none"
  /\ UNCHANGED <<breakerVars, stamps, queue, processing, serving, delay,
                 call, answer, overlapped, dayDelay>>

LoopEnds ==
  /\ loop = "next" /\ queue = << >>
  /\ loop' = "none" /\ processing' = FALSE
  /\ UNCHANGED <<breakerVars, stamps, queue, serving, delay, call,
                 answer, overlapped, dayDelay>>

LoopContinues ==
  /\ loop = "next" /\ queue # << >>
  /\ \/ /\ CanProceed /\ Serve
        /\ UNCHANGED <<delay, dayDelay>>
     \/ /\ ~CanProceed
        /\ loop' = "delay"
        /\ delay' = [delay EXCEPT ![Head(queue)] = GetWaitTime]
        /\ dayDelay' = (dayDelay \/ DayFull)
        /\ UNCHANGED <<stamps, queue, serving, call>>
  /\ UNCHANGED <<breakerVars, processing, answer, overlapped>>

ProcessQueue == LoopWakes \/ LoopEnds \/ LoopContinues

Aged(n, bound) == IF n < bound THEN n + 1 ELSE bound

\* pruneTimestamps a tick later: the oldest, which are at the front, have left
\* the window of w ticks
Pruned(w) ==
  LET left == Cardinality({i \in DOMAIN stamps : stamps[i] + 1 >= w})
  IN [i \in 1 .. Len(stamps) - left |-> stamps[i + left] + 1]

\* mutant: a request is counted for one tick more than the window
TickKeeps ==
  /\ stamps' = Pruned(Day + 1)
  /\ sinceFailure' = Aged(sinceFailure, RecoveryTime)
  /\ delay' = [c \in Calls |-> IF delay[c] > 0 THEN delay[c] - 1 ELSE 0]
  /\ UNCHANGED <<circuit, failureCount, queue, processing, loop, serving, call,
                 answer, overlapped, dayDelay>>

\* a request that leaves the day's window is forgotten
Tick ==
  /\ stamps' = Pruned(Day)
  /\ sinceFailure' = Aged(sinceFailure, RecoveryTime)
  /\ delay' = [c \in Calls |-> IF delay[c] > 0 THEN delay[c] - 1 ELSE 0]
  /\ UNCHANGED <<circuit, failureCount, queue, processing, loop, serving, call,
                 answer, overlapped, dayDelay>>

Begin(c) == Refused(c) \/ Send(c) \/ Enqueue(c) \/ Delay(c)
ApiReturns(c) == ApiAnswers(c) \/ ApiFails(c) \/ StreamAbandoned(c)

Next ==
  \/ Tick \/ ProcessQueue
  \/ \E c \in Calls : Begin(c) \/ StreamWakes(c) \/ ApiReturns(c)

Spec == Init /\ [][Next]_vars
\* time passes, timers fire, and the API answers every request in the end
FairSpec ==
  /\ Spec /\ WF_vars(Tick) /\ WF_vars(ProcessQueue)
  /\ \A c \in Calls : WF_vars(StreamWakes(c)) /\ WF_vars(ApiReturns(c))

-----------------------------------------------------------------------------
(* Every variable has its type, and the flag says whether the loop runs.   *)
TypeOK ==
  /\ circuit \in {"closed", "open", "half-open"}
  /\ failureCount \in Nat /\ sinceFailure \in 0 .. RecoveryTime
  /\ stamps \in Seq(0 .. Day - 1) /\ queue \in Seq(Calls)
  /\ processing \in BOOLEAN /\ overlapped \in BOOLEAN /\ dayDelay \in BOOLEAN
  /\ loop \in {"none", "delay", "request", "next"} /\ serving \in Calls
  /\ delay \in [Calls -> Nat]
  /\ call \in [Calls -> CallStates]
  /\ answer \in [Calls -> {"none", "response", "fallback"}]

(* A client whose calls do not overlap, as the gemini loop's do not, stays *)
(* within the day's limit, and within the minute's as long as no request   *)
(* had to wait for the day's: that wait ends without a look at the minute. *)
WithinLimits ==
  ~overlapped =>
    /\ Len(stamps) <= MaxPerDay
    /\ dayDelay \/ Cardinality(Recent(Minute)) <= MaxPerMinute

(* The circuit is closed while fewer failures than the threshold followed  *)
(* the last success, however answers of requests sent before and after it  *)
(* opened arrive, and half-open only a recovery time after the last one.   *)
Breaker ==
  /\ circuit = "closed" <=> failureCount < FailureThreshold
  /\ circuit = "half-open" => sinceFailure = RecoveryTime

(* Every call returns, whether it was sent, refused, delayed or queued     *)
(* behind others.                                                          *)
Returns == \A c \in Calls : call[c] # "new" ~> call[c] = "done"
=============================================================================
