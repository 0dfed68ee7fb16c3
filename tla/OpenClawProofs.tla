--------------------------- MODULE OpenClawProofs ---------------------------
(***************************************************************************)
(* Proofs about the parts of the OpenClaw process that MCOpenClaw puts     *)
(* beside the consumer loops: the action executor, the client of Gemini    *)
(* and the deployments.  Each part has an inductive invariant of its own,  *)
(* stated of the values its variables have; a step of another part leaves  *)
(* them all alone.                                                         *)
(***************************************************************************)
EXTENDS MCOpenClaw, OpenClawPipelineProofs, SequenceTheorems, WellFoundedInduction

-----------------------------------------------------------------------------
(* The action executor.                                                    *)

Places ==
  {"lookup", "credential", "running", "backoff", "publish", "report"} \cup Executor!Final
Replies == {"success", "failure"}

\* one where the condition holds, in counts
One(b) == IF b THEN 1 ELSE 0

(* Of a call at p in its attempt a: u runs in progress that were abandoned *)
(* r runs started, e effects, s the responses, t timeouts, m runs that     *)
(* misreported, x publishes that failed, l responses that were lost.       *)
ExecutorOK(p, a, u, r, e, s, t, m, x, l) ==
  /\ p \in Places /\ a \in 0 .. MaxRetries /\ s \in Seq(Replies)
  /\ u \in Nat /\ r \in Nat /\ e \in Nat /\ t \in Nat /\ m \in Nat /\ x \in Nat /\ l \in Nat
  \* every run started ends as one of these, or has yet to end
  /\ t + m + x + One(p \in {"running", "publish", "success"}) <= r
  /\ r <= a + One(p \notin {"lookup", "credential"})
  /\ p = "backoff" => a < MaxRetries
  \* and takes effect at most once
  /\ e + u <= t + m + x + One(p \in {"publish", "success"})
  /\ u <= t
  /\ p \in {"publish", "success"} => e > 0
  \* an attempt loses a response at most once, and the report another
  /\ l <= a + One(p \in {"backoff", "report", "failure", "threw"}) + One(p = "threw")
  /\ Len(s) = l + One(p \in {"success", "failure"})
  /\ p \in {"success", "failure"} => s # << >> /\ s[Len(s)] = p

ExecutorInv ==
  ExecutorOK(pc, attempt, orphans, runs, effects, responses, timeouts, misreports,
             pubErrors, lostReplies)

(* The call starts with everything at zero.                                *)
LEMMA ExecutorInit == Executor!Init => ExecutorInv
<1> SUFFICES ExecutorOK("lookup", 0, 0, 0, 0, << >>, 0, 0, 0, 0)
  BY DEF Executor!Init, ExecutorInv
<1>1. << >> \in Seq(Replies) /\ Len(<< >>) = 0
  OBVIOUS
<1>2. MaxRetries \in Nat
  BY PartsConstants DEF Executor!ExecutorAssumption
<1>3. QED BY <1>1, <1>2 DEF ExecutorOK, Places, One

(* A response more is the last one.                                        *)
LEMMA OneResponse ==
  ASSUME NEW s \in Seq(Replies), NEW q \in Replies
  PROVE  /\ Append(s, q) \in Seq(Replies) /\ Len(Append(s, q)) = Len(s) + 1
         /\ Append(s, q) # << >> /\ Append(s, q)[Len(Append(s, q))] = q
BY AppendProperties

(* Every step of the call.                                                 *)
LEMMA ExecutorStepKeeps ==
  ASSUME ExecutorInv, [Executor!Next]_executorVars
  PROVE  ExecutorInv'
<1> DEFINE p == pc
           a == attempt
           u == orphans
           r == runs
           e == effects
           s == responses
           t == timeouts
           m == misreports
           x == pubErrors
           l == lostReplies
<1>0. ExecutorOK(p, a, u, r, e, s, t, m, x, l) /\ MaxRetries \in Nat
  BY PartsConstants DEF ExecutorInv, Executor!ExecutorAssumption
<1> SUFFICES ExecutorOK(pc', attempt', orphans', runs', effects', responses', timeouts',
                        misreports', pubErrors', lostReplies')
  BY DEF ExecutorInv
<1>1. Executor!NextAttempt => pc' \in {"backoff", "report"} /\ (pc' = "backoff" => a < MaxRetries)
  BY DEF Executor!NextAttempt, Executor!Goto
<1>2. CASE Executor!ToolFound \/ Executor!ToolMissing
  <2>1. /\ p = "lookup" /\ pc' \in {"credential", "report"}
        /\ UNCHANGED <<attempt, orphans, runs, effects, responses, timeouts,
                       misreports, pubErrors, lostReplies>>
    BY <1>2 DEF Executor!ToolFound, Executor!ToolMissing, Executor!Goto, Executor!history
  <2>2. QED BY <1>0, <2>1 DEF ExecutorOK, One, Places
<1>3. CASE Executor!Wake
  <2>1. /\ p = "backoff" /\ pc' = "credential" /\ attempt' = a + 1
        /\ UNCHANGED <<orphans, runs, effects, responses, timeouts,
                       misreports, pubErrors, lostReplies>>
    BY <1>3 DEF Executor!Wake, Executor!Goto, Executor!history
  <2>2. ExecutorOK("credential", a + 1, u, r, e, s, t, m, x, l)
    BY <1>0, <2>1 DEF ExecutorOK, One, Places
  <2>3. QED BY <2>1, <2>2
<1>4. CASE Executor!CredentialGranted
  <2>1. /\ p = "credential" /\ pc' = "running" /\ runs' = r + 1
        /\ UNCHANGED <<attempt, orphans, effects, responses, timeouts,
                       misreports, pubErrors, lostReplies>>
    BY <1>4 DEF Executor!CredentialGranted, Executor!Goto
  <2>2. ExecutorOK("running", a, u, r + 1, e, s, t, m, x, l)
    BY <1>0, <2>1 DEF ExecutorOK, One, Places
  <2>3. QED BY <2>1, <2>2
<1>5. CASE Executor!CredentialDenied
  <2>1. /\ p = "credential"
        /\ UNCHANGED <<attempt, orphans, runs, effects, responses, timeouts,
                       misreports, pubErrors, lostReplies>>
    BY <1>5 DEF Executor!CredentialDenied, Executor!history
  <2>2. pc' \in {"backoff", "report"} /\ (pc' = "backoff" => a < MaxRetries)
    BY <1>1, <1>5 DEF Executor!CredentialDenied
  <2>3. QED BY <1>0, <2>1, <2>2 DEF ExecutorOK, One, Places
<1>6. CASE Executor!ToolSucceeds
  <2>1. /\ p = "running" /\ pc' = "publish" /\ effects' = e + 1
        /\ UNCHANGED <<attempt, orphans, runs, responses, timeouts,
                       misreports, pubErrors, lostReplies>>
    BY <1>6 DEF Executor!ToolSucceeds, Executor!Goto
  <2>2. ExecutorOK("publish", a, u, r, e + 1, s, t, m, x, l)
    BY <1>0, <2>1 DEF ExecutorOK, One, Places
  <2>3. QED BY <2>1, <2>2
<1>7. CASE Executor!ToolFails
  <2>1. /\ p = "running"
        /\ \/ UNCHANGED <<effects, misreports>>
           \/ effects' = e + 1 /\ misreports' = m + 1
        /\ UNCHANGED <<attempt, orphans, runs, responses, timeouts, pubErrors, lostReplies>>
    BY <1>7 DEF Executor!ToolFails
  <2>2. pc' \in {"backoff", "report"} /\ (pc' = "backoff" => a < MaxRetries)
    BY <1>1, <1>7 DEF Executor!ToolFails
  <2>3. \A q \in {"backoff", "report"} : (q = "backoff" => a < MaxRetries) =>
          /\ ExecutorOK(q, a, u, r, e, s, t, m, x, l)
          /\ ExecutorOK(q, a, u, r, e + 1, s, t, m + 1, x, l)
    BY <1>0, <2>1 DEF ExecutorOK, One, Places
  <2>4. QED BY <2>1, <2>2, <2>3
<1>8. CASE Executor!TimesOut
  <2>1. /\ p = "running" /\ orphans' = u + 1 /\ timeouts' = t + 1
        /\ UNCHANGED <<attempt, runs, effects, responses, misreports, pubErrors, lostReplies>>
    BY <1>8 DEF Executor!TimesOut
  <2>2. pc' \in {"backoff", "report"} /\ (pc' = "backoff" => a < MaxRetries)
    BY <1>1, <1>8 DEF Executor!TimesOut
  <2>3. \A q \in {"backoff", "report"} : (q = "backoff" => a < MaxRetries) =>
          ExecutorOK(q, a, u + 1, r, e, s, t + 1, m, x, l)
    BY <1>0, <2>1 DEF ExecutorOK, One, Places
  <2>4. QED BY <2>1, <2>2, <2>3
<1>9. CASE Executor!OrphanEnds
  <2>1. /\ u > 0 /\ orphans' = u - 1
        /\ effects' = e + 1 \/ effects' = e
        /\ UNCHANGED <<pc, attempt, runs, responses, timeouts, misreports,
                       pubErrors, lostReplies>>
    BY <1>9 DEF Executor!OrphanEnds
  <2>2. /\ ExecutorOK(p, a, u - 1, r, e, s, t, m, x, l)
        /\ ExecutorOK(p, a, u - 1, r, e + 1, s, t, m, x, l)
    BY <1>0, <2>1 DEF ExecutorOK, One
  <2>3. QED BY <2>1, <2>2
<1>10. CASE Executor!PublishOk
  <2>1. /\ p = "publish" /\ pc' = "success" /\ responses' = Append(s, "success")
        /\ UNCHANGED <<attempt, orphans, runs, effects, timeouts, misreports,
                       pubErrors, lostReplies>>
    BY <1>10 DEF Executor!PublishOk, Executor!Published, Executor!Goto
  <2>2. /\ Append(s, "success") \in Seq(Replies)
        /\ Len(Append(s, "success")) = Len(s) + 1 /\ Append(s, "success") # << >>
        /\ Append(s, "success")[Len(Append(s, "success"))] = "success"
    BY <1>0, OneResponse DEF ExecutorOK, Replies
  <2> DEFINE s2 == Append(s, "success")
  <2> HIDE DEF s2
  <2>3. ExecutorOK("success", a, u, r, e, s2, t, m, x, l)
    BY <1>0, <2>1, <2>2 DEF ExecutorOK, One, Places, Executor!Final, s2
  <2>4. QED BY <2>1, <2>3 DEF s2
<1>11. CASE Executor!PublishError
  <2>1. /\ p = "publish" /\ pubErrors' = x + 1
        /\ \/ UNCHANGED <<responses, lostReplies>>
           \/ responses' = Append(s, "success") /\ lostReplies' = l + 1
        /\ UNCHANGED <<attempt, orphans, runs, effects, timeouts, misreports>>
    BY <1>11 DEF Executor!PublishError, Executor!Published
  <2>2. pc' \in {"backoff", "report"} /\ (pc' = "backoff" => a < MaxRetries)
    BY <1>1, <1>11 DEF Executor!PublishError
  <2>3. /\ Append(s, "success") \in Seq(Replies)
        /\ Len(Append(s, "success")) = Len(s) + 1
    BY <1>0, OneResponse DEF ExecutorOK, Replies
  <2> DEFINE s2 == Append(s, "success")
  <2> HIDE DEF s2
  <2>4. \A q \in {"backoff", "report"} : (q = "backoff" => a < MaxRetries) =>
          /\ ExecutorOK(q, a, u, r, e, s, t, m, x + 1, l)
          /\ ExecutorOK(q, a, u, r, e, s2, t, m, x + 1, l + 1)
    BY <1>0, <2>1, <2>3 DEF ExecutorOK, One, Places, s2
  <2>5. QED BY <2>1, <2>2, <2>4 DEF s2
<1>12. CASE Executor!ReportOk
  <2>1. /\ p = "report" /\ pc' = "failure" /\ responses' = Append(s, "failure")
        /\ UNCHANGED <<attempt, orphans, runs, effects, timeouts, misreports,
                       pubErrors, lostReplies>>
    BY <1>12 DEF Executor!ReportOk, Executor!Published, Executor!Goto
  <2>2. /\ Append(s, "failure") \in Seq(Replies)
        /\ Len(Append(s, "failure")) = Len(s) + 1 /\ Append(s, "failure") # << >>
        /\ Append(s, "failure")[Len(Append(s, "failure"))] = "failure"
    BY <1>0, OneResponse DEF ExecutorOK, Replies
  <2> DEFINE s2 == Append(s, "failure")
  <2> HIDE DEF s2
  <2>3. ExecutorOK("failure", a, u, r, e, s2, t, m, x, l)
    BY <1>0, <2>1, <2>2 DEF ExecutorOK, One, Places, Executor!Final, s2
  <2>4. QED BY <2>1, <2>3 DEF s2
<1>13. CASE Executor!ReportError
  <2>1. /\ p = "report" /\ pc' = "threw"
        /\ \/ UNCHANGED <<responses, lostReplies>>
           \/ responses' = Append(s, "failure") /\ lostReplies' = l + 1
        /\ UNCHANGED <<attempt, orphans, runs, effects, timeouts, misreports, pubErrors>>
    BY <1>13 DEF Executor!ReportError, Executor!Published, Executor!Goto
  <2>2. /\ Append(s, "failure") \in Seq(Replies)
        /\ Len(Append(s, "failure")) = Len(s) + 1
    BY <1>0, OneResponse DEF ExecutorOK, Replies
  <2> DEFINE s2 == Append(s, "failure")
  <2> HIDE DEF s2
  <2>3. /\ ExecutorOK("threw", a, u, r, e, s, t, m, x, l)
        /\ ExecutorOK("threw", a, u, r, e, s2, t, m, x, l + 1)
    BY <1>0, <2>1, <2>2 DEF ExecutorOK, One, Places, Executor!Final, s2
  <2>4. QED BY <2>1, <2>3 DEF s2
<1>14. CASE UNCHANGED executorVars
  BY <1>0, <1>14 DEF executorVars
<1>15. QED
  BY <1>2, <1>3, <1>4, <1>5, <1>6, <1>7, <1>8, <1>9, <1>10, <1>11, <1>12, <1>13, <1>14
     DEF Executor!Next, Executor!Lookup, Executor!VaultAnswers, Executor!ToolAnswers,
         Executor!Publish, Executor!Report

(* What a step of the process is to the executor.                          *)
LEMMA PartsStepOfExecutor == [PartsNext]_allVars => [Executor!Next]_executorVars
BY DEF PartsNext, allVars, PipelineStep, ExecutorStep, GeminiStep, DeployStep

(* The executor's invariant holds in every state of the process.           *)
LEMMA ExecutorInvariant == PartsSpec => []ExecutorInv
<1>1. PartsInit => ExecutorInv
  BY ExecutorInit DEF PartsInit
<1>2. ExecutorInv /\ [PartsNext]_allVars => ExecutorInv'
  BY ExecutorStepKeeps, PartsStepOfExecutor
<1>3. QED BY <1>1, <1>2, PTL DEF PartsSpec

(* MCOpenClaw's AnswersMatchEffects for every number of retries: an action *)
(* takes effect more than once only after a timeout, an effect reported as *)
(* an error, or a result that could not be published, once for each, and   *)
(* what the executor returns is backed by an effect and is its last        *)
(* response.                                                               *)
THEOREM AnswersAreTrue == PartsSpec => []AnswersMatchEffects
<1>1. ExecutorInv => AnswersMatchEffects
  BY DEF ExecutorInv, ExecutorOK, One, AnswersMatchEffects, Executor!AnswersMatchEffects,
         Executor!EffectsAccounted, Executor!AnswerIsTrue
<1>2. QED BY <1>1, ExecutorInvariant, PTL

-----------------------------------------------------------------------------
(* The circuit breaker of the client of Gemini.                            *)

(* Of a circuit c with f failures since the last success, the last of them *)
(* a ticks ago.                                                            *)
BreakerOK(c, f, a) ==
  /\ c \in {"closed", "open", "half-open"} /\ f \in Nat /\ a \in 0 .. RecoveryTime
  /\ c = "closed" <=> f < FailureThreshold
  /\ c = "half-open" => a = RecoveryTime

BreakerInv == BreakerOK(circuit, failureCount, sinceFailure)

(* The client's constants.                                                 *)
LEMMA GeminiConstants ==
  /\ Calls # {} /\ Streaming \subseteq Calls
  /\ MaxPerMinute \in Nat \ {0} /\ MaxPerDay \in Nat \ {0}
  /\ Minute \in Nat \ {0} /\ Day \in Nat /\ Minute <= Day
  /\ FailureThreshold \in Nat \ {0} /\ RecoveryTime \in Nat
BY PartsConstants DEF Gemini!ClientAssumption

(* A client that starts.                                                   *)
LEMMA BreakerInit == Gemini!Init => BreakerInv
BY GeminiConstants DEF Gemini!Init, BreakerInv, BreakerOK

(* Every step of the client.                                               *)
LEMMA BreakerStepKeeps ==
  ASSUME BreakerInv, [Gemini!Next]_geminiVars
  PROVE  BreakerInv'
<1> DEFINE c == circuit
           f == failureCount
           a == sinceFailure
<1>0. BreakerOK(c, f, a)
  BY DEF BreakerInv
<1> SUFFICES BreakerOK(circuit', failureCount', sinceFailure')
  BY DEF BreakerInv
<1>1. CASE UNCHANGED <<circuit, failureCount, sinceFailure>>
  BY <1>0, <1>1
<1>2. CASE Gemini!CanExecute
  BY <1>0, <1>2, GeminiConstants DEF BreakerOK, Gemini!CanExecute, Gemini!Recovered
<1>3. CASE Gemini!RecordSuccess
  <2>1. circuit' = "closed" /\ failureCount' = 0 /\ sinceFailure' = a
    BY <1>3 DEF Gemini!RecordSuccess
  <2>2. BreakerOK("closed", 0, a)
    BY <1>0, GeminiConstants DEF BreakerOK
  <2>3. QED BY <2>1, <2>2
<1>4. CASE Gemini!RecordFailure
  <2>1. /\ failureCount' = f + 1 /\ sinceFailure' = 0
        /\ circuit' = IF f + 1 >= FailureThreshold THEN "open" ELSE c
    BY <1>4 DEF Gemini!RecordFailure
  <2>2. BreakerOK(IF f + 1 >= FailureThreshold THEN "open" ELSE c, f + 1, 0)
    BY <1>0, GeminiConstants DEF BreakerOK
  <2>3. QED BY <2>1, <2>2
<1>5. CASE Gemini!Tick
  <2>1. /\ circuit' = c /\ failureCount' = f
        /\ sinceFailure' = IF a < RecoveryTime THEN a + 1 ELSE RecoveryTime
    BY <1>5 DEF Gemini!Tick, Gemini!Aged
  <2>2. BreakerOK(c, f, IF a < RecoveryTime THEN a + 1 ELSE RecoveryTime)
    BY <1>0, GeminiConstants DEF BreakerOK
  <2>3. QED BY <2>1, <2>2
<1>6. Gemini!ProcessQueue => UNCHANGED <<circuit, failureCount, sinceFailure>>
  BY DEF Gemini!ProcessQueue, Gemini!LoopWakes, Gemini!LoopEnds, Gemini!LoopContinues,
         Gemini!breakerVars
<1>7. ASSUME NEW d \in Calls, Gemini!Begin(d) \/ Gemini!StreamWakes(d) \/ Gemini!ApiReturns(d)
      PROVE  \/ UNCHANGED <<circuit, failureCount, sinceFailure>>
             \/ Gemini!CanExecute \/ Gemini!RecordSuccess \/ Gemini!RecordFailure
  BY <1>7 DEF Gemini!Begin, Gemini!StreamWakes, Gemini!ApiReturns, Gemini!Refused,
              Gemini!Send, Gemini!Enqueue, Gemini!Delay, Gemini!ApiAnswers,
              Gemini!ApiFails, Gemini!StreamAbandoned, Gemini!breakerVars
<1>8. QED BY <1>1, <1>2, <1>3, <1>4, <1>5, <1>6, <1>7 DEF Gemini!Next, geminiVars

(* What a step of the process is to the client.                            *)
LEMMA PartsStepOfGemini == [PartsNext]_allVars => [Gemini!Next]_geminiVars
BY DEF PartsNext, allVars, PipelineStep, ExecutorStep, GeminiStep, DeployStep

(* The breaker's invariant holds in every state of the process.            *)
LEMMA BreakerInvariant == PartsSpec => []BreakerInv
<1>1. PartsInit => BreakerInv
  BY BreakerInit DEF PartsInit
<1>2. BreakerInv /\ [PartsNext]_allVars => BreakerInv'
  BY BreakerStepKeeps, PartsStepOfGemini
<1>3. QED BY <1>1, <1>2, PTL DEF PartsSpec

(* MCOpenClaw's Breaker for every threshold, recovery time and number of   *)
(* calls: the circuit is closed exactly while fewer failures than the      *)
(* threshold followed the last success, in whatever order the answers of   *)
(* overlapping requests arrive, and half-open only a recovery time after   *)
(* the last failure.                                                       *)
THEOREM CircuitFollowsFailures == PartsSpec => []Breaker
<1>1. BreakerInv => Breaker
  BY DEF BreakerInv, BreakerOK, Breaker, Gemini!Breaker
<1>2. QED BY <1>1, BreakerInvariant, PTL

-----------------------------------------------------------------------------
(* Its limiter.  A time is admitted when its windows have room: at once,   *)
(* or after a wait that ends when the oldest request has left the window,  *)
(* provided that no other request was made in between.                     *)

(* Requests of s that will be in the window of w ticks in d ticks.         *)
Within(s, d, w) == {i \in DOMAIN s : s[i] + d < w}
InWindow(s, d, w) == Cardinality(Within(s, d, w))

(* Ages, oldest first.                                                     *)
StampsOK(s) ==
  /\ s \in Seq(0 .. Day - 1)
  /\ \A i, j \in 1 .. Len(s) : i < j => s[j] <= s[i]

(* The limits, with x for a wait of the day's quota that there was, and    *)
(* that in d ticks there is room for a request more.                       *)
LimitsOK(s, x) ==
  Len(s) <= MaxPerDay /\ (x = TRUE \/ InWindow(s, 0, Minute) <= MaxPerMinute)
RoomIn(s, d, x) ==
  InWindow(s, d, Day) < MaxPerDay /\ (x = TRUE \/ InWindow(s, d, Minute) < MaxPerMinute)

(* The client's module counts elements as this one does.                   *)
LEMMA GeminiCardinality == \A S : Gemini!Cardinality(S) = Cardinality(S)
BY Zenon DEF Gemini!Cardinality, Cardinality

(* Sets of positions are finite.                                           *)
LEMMA WithinFinite ==
  ASSUME NEW s, StampsOK(s), NEW d \in Nat, NEW w \in Nat
  PROVE  /\ Within(s, d, w) \subseteq 1 .. Len(s) /\ Len(s) \in Nat
         /\ IsFiniteSet(Within(s, d, w)) /\ InWindow(s, d, w) \in Nat
<1>1. DOMAIN s = 1 .. Len(s) /\ Len(s) \in Nat
  BY LenProperties DEF StampsOK
<1>2. Within(s, d, w) \subseteq 1 .. Len(s)
  BY <1>1 DEF Within
<1>3. IsFiniteSet(1 .. Len(s))
  BY <1>1, FS_Interval
<1>4. IsFiniteSet(Within(s, d, w))
  BY <1>2, <1>3, FS_Subset
<1>5. QED BY <1>1, <1>2, <1>4, FS_CardinalityType DEF InWindow

(* All are in the window of a day.                                         *)
LEMMA AllOfTheDay ==
  ASSUME NEW s, StampsOK(s)
  PROVE  InWindow(s, 0, Day) = Len(s)
<1>1. DOMAIN s = 1 .. Len(s) /\ Len(s) \in Nat /\ \A i \in 1 .. Len(s) : s[i] \in 0 .. Day - 1
  BY LenProperties, ElementOfSeq DEF StampsOK
<1>2. Within(s, 0, Day) = 1 .. Len(s)
  BY <1>1, GeminiConstants DEF Within
<1>3. QED BY <1>1, <1>2, FS_Interval DEF InWindow

(* A request is made.                                                      *)
LEMMA StampAppended ==
  ASSUME NEW s, StampsOK(s)
  PROVE  StampsOK(Append(s, 0))
<1> DEFINE s2 == Append(s, 0)
           n == Len(s)
<1>0. s \in Seq(0 .. Day - 1) /\ 0 \in 0 .. Day - 1 /\ n \in Nat
  BY GeminiConstants, LenProperties DEF StampsOK
<1>1. /\ s2 \in Seq(0 .. Day - 1) /\ Len(s2) = n + 1
      /\ \A i \in 1 .. n : s2[i] = s[i]
      /\ s2[n + 1] = 0
  BY <1>0, AppendProperties
<1>2. \A i \in 1 .. n : s[i] \in 0 .. Day - 1
  BY <1>0, ElementOfSeq
<1> HIDE DEF s2
<1>3. StampsOK(s2)
  <2>1. \A i, j \in 1 .. n : i < j => s[j] <= s[i]
    BY DEF StampsOK
  <2>2. \A i, j \in 1 .. n + 1 : i < j => s2[j] <= s2[i]
    <3> SUFFICES ASSUME NEW i \in 1 .. n + 1, NEW j \in 1 .. n + 1, i < j PROVE s2[j] <= s2[i]
      OBVIOUS
    <3>1. i \in 1 .. n /\ (j \in 1 .. n \/ j = n + 1)
      BY <1>0
    <3>2. QED BY <1>1, <1>2, <2>1, <3>1, GeminiConstants
  <2>3. QED BY <1>1, <2>2 DEF StampsOK
<1>4. QED BY <1>3 DEF s2

(* It is made where there is room.                                         *)
LEMMA OneRequestMore ==
  ASSUME NEW s, StampsOK(s), NEW x, RoomIn(s, 0, x)
  PROVE  StampsOK(Append(s, 0)) /\ LimitsOK(Append(s, 0), x)
<1> DEFINE s2 == Append(s, 0)
           n == Len(s)
<1>0. s \in Seq(0 .. Day - 1) /\ 0 \in 0 .. Day - 1 /\ n \in Nat
  BY GeminiConstants, LenProperties DEF StampsOK
<1>1. /\ s2 \in Seq(0 .. Day - 1) /\ Len(s2) = n + 1
      /\ \A i \in 1 .. n : s2[i] = s[i]
      /\ s2[n + 1] = 0
  BY <1>0, AppendProperties
<1>2. \A i \in 1 .. n : s[i] \in 0 .. Day - 1
  BY <1>0, ElementOfSeq
<1>3. StampsOK(s2)
  BY StampAppended
<1> HIDE DEF s2
<1>4. ASSUME NEW w \in Nat, NEW m \in Nat, InWindow(s, 0, w) < m
      PROVE  InWindow(s2, 0, w) <= m
  <2>1. Within(s2, 0, w) \subseteq Within(s, 0, w) \cup {n + 1}
    <3>1. DOMAIN s2 = 1 .. n + 1 /\ DOMAIN s = 1 .. n
      BY <1>0, <1>1, LenProperties
    <3>2. QED BY <1>0, <1>1, <3>1 DEF Within
  <2>2. IsFiniteSet(Within(s, 0, w)) /\ InWindow(s, 0, w) \in Nat
    BY WithinFinite
  <2>3. /\ IsFiniteSet(Within(s, 0, w) \cup {n + 1})
        /\ Cardinality(Within(s, 0, w) \cup {n + 1}) <= InWindow(s, 0, w) + 1
    <3>1. IsFiniteSet(Within(s, 0, w) \cup {n + 1})
      BY <2>2, FS_AddElement
    <3>2. Cardinality(Within(s, 0, w) \cup {n + 1}) =
            IF n + 1 \in Within(s, 0, w) THEN InWindow(s, 0, w) ELSE InWindow(s, 0, w) + 1
      BY <2>2, FS_AddElement DEF InWindow
    <3>3. QED BY <2>2, <3>1, <3>2
  <2>4. /\ Cardinality(Within(s, 0, w) \cup {n + 1}) \in Nat
        /\ Cardinality(Within(s2, 0, w)) <= Cardinality(Within(s, 0, w) \cup {n + 1})
        /\ Cardinality(Within(s2, 0, w)) \in Nat
    BY <2>1, <2>3, FS_Subset, FS_CardinalityType
  <2>5. QED BY <1>4, <2>2, <2>3, <2>4 DEF InWindow
<1>5. InWindow(s2, 0, Minute) <= MaxPerMinute \/ x = TRUE
  BY <1>4, GeminiConstants DEF RoomIn
<1>6. Len(s2) <= MaxPerDay
  BY <1>0, <1>1, AllOfTheDay, GeminiConstants DEF RoomIn
<1>7. QED BY <1>3, <1>5, <1>6 DEF LimitsOK, s2

(* A tick later, without what has left the window of a day.                *)
LEMMA OneTickLater ==
  ASSUME NEW s, StampsOK(s), NEW k, k = Cardinality({i \in DOMAIN s : s[i] + 1 >= Day}),
         NEW s2, s2 = [i \in 1 .. Len(s) - k |-> s[i + k] + 1]
  PROVE  /\ StampsOK(s2) /\ Len(s2) <= Len(s)
         /\ \A d \in Nat, w \in Nat : InWindow(s2, d, w) <= InWindow(s, d + 1, w)
<1> DEFINE n == Len(s)
           gone == {i \in DOMAIN s : s[i] + 1 >= Day}
<1>1. DOMAIN s = 1 .. n /\ n \in Nat /\ \A i \in 1 .. n : s[i] \in 0 .. Day - 1
  BY LenProperties, ElementOfSeq DEF StampsOK
<1>2. gone \subseteq 1 .. n
  BY <1>1
<1> HIDE DEF n, gone
<1>3. IsFiniteSet(gone) /\ k \in Nat /\ k <= n
  <2>1. IsFiniteSet(1 .. n) /\ Cardinality(1 .. n) = n
    BY <1>1, FS_Interval
  <2>2. IsFiniteSet(gone) /\ Cardinality(gone) <= n /\ Cardinality(gone) \in Nat
    BY <1>2, <2>1, FS_Subset, FS_CardinalityType
  <2>3. QED BY <2>2 DEF gone
<1>4. \A i \in 1 .. n : i > k => s[i] + 1 < Day
  <2> SUFFICES ASSUME NEW i \in 1 .. n, ~ (s[i] + 1 < Day) PROVE ~ (i > k)
    OBVIOUS
  <2>0. i \in Nat /\ k \in Nat /\ s[i] + 1 >= Day
    BY <1>1, <1>3, GeminiConstants
  <2>1. \A j \in 1 .. i : s[j] + 1 >= Day
    <3> SUFFICES ASSUME NEW j \in 1 .. i PROVE s[j] + 1 >= Day
      OBVIOUS
    <3>1. j \in 1 .. n /\ (j = i \/ j < i)
      BY <1>1
    <3>2. s[i] <= s[j]
      BY <1>1, <3>1 DEF StampsOK, n
    <3>3. QED BY <1>1, <2>0, <3>1, <3>2, GeminiConstants
  <2>2. 1 .. i \subseteq gone
    BY <1>1, <2>1 DEF gone
  <2>3. Cardinality(1 .. i) = i
    BY <1>1, FS_Interval
  <2>4. Cardinality(1 .. i) <= Cardinality(gone)
    BY <1>3, <2>2, FS_Subset
  <2>5. QED BY <2>0, <2>3, <2>4 DEF gone
<1>5. DOMAIN s2 = 1 .. n - k /\ Len(s2) = n - k /\ s2 \in Seq(0 .. Day - 1)
  <2>1. \A i \in 1 .. n - k : s[i + k] + 1 \in 0 .. Day - 1
    <3> SUFFICES ASSUME NEW i \in 1 .. n - k PROVE s[i + k] + 1 \in 0 .. Day - 1
      OBVIOUS
    <3>1. i + k \in 1 .. n /\ i + k > k
      BY <1>1, <1>3
    <3>2. QED BY <1>1, <1>4, <3>1, GeminiConstants
  <2> DEFINE S == 0 .. Day - 1
             m == n - k
  <2>2. s2 \in [1 .. m -> S] /\ m \in Nat
    BY <1>1, <1>3, <2>1 DEF n
  <2> HIDE DEF S, m
  <2>4. s2 \in Seq(S)
    BY ONLY <2>2, SeqDef
  <2>5. DOMAIN s2 = 1 .. m
    BY ONLY <2>2
  <2>6. DOMAIN s2 = 1 .. Len(s2) /\ Len(s2) \in Nat
    BY ONLY <2>4, LenProperties
  <2>8. 1 .. m = 1 .. Len(s2)
    BY ONLY <2>5, <2>6
  <2>9. Len(s2) = m
    BY ONLY <2>2, <2>6, <2>8
  <2>7. QED BY <2>4, <2>5, <2>9 DEF S, m
<1>6. \A i \in 1 .. n - k : s2[i] = s[i + k] + 1 /\ i + k \in 1 .. n
  BY <1>1, <1>3 DEF n
<1>7. StampsOK(s2)
  <2> SUFFICES ASSUME NEW i \in 1 .. n - k, NEW j \in 1 .. n - k, i < j PROVE s2[j] <= s2[i]
    BY <1>5 DEF StampsOK
  <2>1. i + k \in 1 .. n /\ j + k \in 1 .. n /\ i + k < j + k
    BY <1>1, <1>3
  <2>2. s[j + k] <= s[i + k]
    BY <2>1 DEF StampsOK, n
  <2>3. s[j + k] \in Nat /\ s[i + k] \in Nat
    BY <1>1, <2>1
  <2>4. QED BY SMTT(30), <1>6, <2>2, <2>3
<1>8. ASSUME NEW d \in Nat, NEW w \in Nat
      PROVE  InWindow(s2, d, w) <= InWindow(s, d + 1, w)
  <2> DEFINE A == Within(s2, d, w)
             B == Within(s, d + 1, w)
             h == [i \in A |-> i + k]
  <2>1. IsFiniteSet(A) /\ IsFiniteSet(B) /\ A \subseteq 1 .. n - k
    <3>1. d + 1 \in Nat
      OBVIOUS
    <3>2. QED BY <1>5, <1>7, <3>1, WithinFinite
  <2>2. \A i \in A : i \in Nat /\ i + k \in B
    <3> SUFFICES ASSUME NEW i \in A PROVE i \in Nat /\ i + k \in B
      OBVIOUS
    <3>0. i \in 1 .. n - k /\ s2[i] + d < w
      BY <2>1 DEF Within
    <3>1. s2[i] = s[i + k] + 1 /\ i + k \in 1 .. n /\ s[i + k] \in Nat
      <4>1. s2[i] = s[i + k] + 1 /\ i + k \in 1 .. n
        BY <1>6, <3>0
      <4>2. s[i + k] \in 0 .. Day - 1
        BY <1>1, <4>1
      <4>3. QED BY <4>1, <4>2
    <3>2. s[i + k] + (d + 1) < w
      BY <3>0, <3>1
    <3>3. QED BY <1>1, <3>0, <3>1, <3>2 DEF Within
  <2> HIDE DEF A, B
  <2>3. h \in Injection(A, B)
    <3>1. h \in [A -> B] /\ DOMAIN h = A
      BY <2>2
    <3>2. \A i, j \in A : h[i] = h[j] => i = j
      BY <1>3, <2>2
    <3>3. QED BY <3>1, <3>2 DEF Injection, IsInjective
  <2>4. Cardinality(A) <= Cardinality(B)
    BY <2>1, <2>3, FS_Injection
  <2>5. QED BY <2>4 DEF A, B, InWindow
<1>9. Len(s2) <= Len(s)
  BY <1>1, <1>3, <1>5 DEF n
<1>10. QED BY <1>7, <1>8, <1>9

(* Later there are no more of them.                                        *)
LEMMA FewerLater ==
  ASSUME NEW s, StampsOK(s), NEW d \in Nat, NEW w \in Nat
  PROVE  /\ InWindow(s, d, w) \in Nat /\ InWindow(s, d + 1, w) \in Nat
         /\ InWindow(s, d + 1, w) <= InWindow(s, d, w)
         /\ InWindow(s, d, w) <= Len(s) /\ Len(s) \in Nat
<1>1. /\ \A i \in DOMAIN s : s[i] \in 0 .. Day - 1
      /\ DOMAIN s = 1 .. Len(s) /\ Len(s) \in Nat
  BY LenProperties, ElementOfSeq DEF StampsOK
<1>2. /\ IsFiniteSet(Within(s, d, w)) /\ InWindow(s, d, w) \in Nat
      /\ Within(s, d, w) \subseteq 1 .. Len(s)
  BY WithinFinite
<1>3. d + 1 \in Nat
  OBVIOUS
<1>4. InWindow(s, d + 1, w) \in Nat
  BY <1>3, WithinFinite
<1>5. Within(s, d + 1, w) \subseteq Within(s, d, w)
  BY <1>1, GeminiConstants DEF Within
<1>6. InWindow(s, d + 1, w) <= InWindow(s, d, w)
  BY <1>2, <1>5, FS_Subset DEF InWindow
<1>7. InWindow(s, d, w) <= Len(s)
  <2>1. IsFiniteSet(1 .. Len(s)) /\ Cardinality(1 .. Len(s)) = Len(s)
    BY SMTT(30), <1>1, FS_Interval
  <2>2. QED BY <1>2, <2>1, FS_Subset DEF InWindow
<1>8. QED BY <1>1, <1>2, <1>4, <1>6, <1>7

(* A wait until a request leaves the window makes room there.              *)
LEMMA WaitMakesRoom ==
  ASSUME NEW s, StampsOK(s), NEW w \in Nat, NEW m \in Within(s, 0, w)
  PROVE  w - s[m] \in Nat /\ InWindow(s, w - s[m], w) < InWindow(s, 0, w)
<1>1. \A i \in DOMAIN s : s[i] \in Nat
  <2>1. \A i \in DOMAIN s : s[i] \in 0 .. Day - 1
    BY LenProperties, ElementOfSeq DEF StampsOK
  <2>2. QED BY <2>1, GeminiConstants
<1>2. m \in DOMAIN s /\ s[m] \in Nat /\ s[m] < w
  BY <1>1 DEF Within
<1>3. w - s[m] \in Nat
  BY <1>2
<1>4. Within(s, w - s[m], w) \subseteq Within(s, 0, w) \ {m}
  <2> SUFFICES ASSUME NEW i \in Within(s, w - s[m], w) PROVE i \in Within(s, 0, w) \ {m}
    OBVIOUS
  <2>1. i \in DOMAIN s /\ s[i] \in Nat /\ s[i] + (w - s[m]) < w
    BY <1>1 DEF Within
  <2>2. s[i] < s[m]
    BY <1>2, <2>1
  <2>3. i # m /\ s[i] + 0 < w
    BY <1>2, <2>1, <2>2
  <2>4. QED BY <2>1, <2>3 DEF Within
<1>5. IsFiniteSet(Within(s, 0, w)) /\ InWindow(s, 0, w) \in Nat
  BY WithinFinite
<1>6. /\ IsFiniteSet(Within(s, 0, w) \ {m})
      /\ Cardinality(Within(s, 0, w) \ {m}) = InWindow(s, 0, w) - 1
  BY <1>5, FS_RemoveElement DEF InWindow
<1>7. InWindow(s, w - s[m], w) <= Cardinality(Within(s, 0, w) \ {m})
  BY <1>4, <1>6, FS_Subset DEF InWindow
<1>8. InWindow(s, w - s[m], w) \in Nat
  BY <1>3, WithinFinite
<1>9. QED BY <1>3, <1>5, <1>6, <1>7, <1>8

(* A set of naturals that is not empty has a least element.                *)
LEMMA LeastOf ==
  ASSUME NEW S \in SUBSET Nat, S # {}
  PROVE  \E i \in S : \A j \in S : i <= j
<1> DEFINE below == OpToRel(<, Nat)
<1>1. \A i, j \in Nat : <<i, j>> \in below <=> i < j
  BY DEF OpToRel
<1>2. IsWellFoundedOn(below, Nat)
  BY NatLessThanWellFounded
<1> HIDE DEF below
<1>3. PICK i \in S : \A j \in S : ~ (<<j, i>> \in below)
  BY <1>2, WFMin
<1>4. \A j \in S : i <= j
  <2> SUFFICES ASSUME NEW j \in S PROVE i <= j
    OBVIOUS
  <2>1. i \in Nat /\ j \in Nat
    OBVIOUS
  <2>2. ~ (j < i)
    BY <1>1, <1>3, <2>1
  <2>3. QED BY <2>1, <2>2
<1>5. QED BY <1>4

(* The client's module counts the requests of a window as Within does.     *)
LEMMA RecentIsWithin ==
  ASSUME StampsOK(stamps), NEW w \in Nat
  PROVE  /\ Gemini!Recent(w) = Within(stamps, 0, w)
         /\ Gemini!Cardinality(Gemini!Recent(w)) = InWindow(stamps, 0, w)
<1>1. \A i \in DOMAIN stamps : stamps[i] \in Nat
  <2>1. \A i \in DOMAIN stamps : stamps[i] \in 0 .. Day - 1
    BY LenProperties, ElementOfSeq DEF StampsOK
  <2>2. QED BY <2>1, GeminiConstants
<1>2. Gemini!Recent(w) = Within(stamps, 0, w)
  BY <1>1 DEF Gemini!Recent, Within
<1>3. QED BY <1>2, GeminiCardinality DEF InWindow

(* The wait that getWaitTime tells ends, and where the limits were kept    *)
(* there is room when it does.                                             *)
LEMMA WaitTime ==
  ASSUME StampsOK(stamps), ~ Gemini!CanProceed
  PROVE  /\ Gemini!GetWaitTime \in Nat
         /\ \A x, y : LimitsOK(stamps, x) /\ (y = TRUE \/ (y = x /\ ~ Gemini!DayFull))
                        /\ (Gemini!DayFull => y = TRUE)
                        => RoomIn(stamps, Gemini!GetWaitTime, y)
<1> DEFINE m(w) == CHOOSE i \in Gemini!Recent(w) : \A j \in Gemini!Recent(w) : i <= j
<1>0. Len(stamps) \in Nat /\ DOMAIN stamps = 1 .. Len(stamps)
  BY LenProperties DEF StampsOK
<1>1. ASSUME NEW w \in Nat, Gemini!Recent(w) # {}
      PROVE  /\ m(w) \in Within(stamps, 0, w)
             /\ w - stamps[m(w)] \in Nat
             /\ InWindow(stamps, w - stamps[m(w)], w) < InWindow(stamps, 0, w)
  <2>1. Gemini!Recent(w) = Within(stamps, 0, w)
    BY RecentIsWithin
  <2>2. Gemini!Recent(w) \in SUBSET Nat
    BY <1>0 DEF Gemini!Recent
  <2>3. \E i \in Gemini!Recent(w) : \A j \in Gemini!Recent(w) : i <= j
    BY <1>1, <2>2, LeastOf
  <2>4. m(w) \in Gemini!Recent(w)
    BY <2>3
  <2> HIDE DEF m
  <2>5. QED BY <2>1, <2>4, WaitMakesRoom
<1>2. CASE Gemini!DayFull
  <2>1. Gemini!Recent(Day) = Within(stamps, 0, Day) /\ InWindow(stamps, 0, Day) = Len(stamps)
    BY RecentIsWithin, AllOfTheDay, GeminiConstants
  <2>2. Len(stamps) >= MaxPerDay
    BY <1>2 DEF Gemini!DayFull
  <2>3. Gemini!Recent(Day) # {}
    BY <2>1, <2>2, GeminiConstants, FS_EmptySet DEF InWindow
  <2>4. /\ Gemini!GetWaitTime = Day - stamps[m(Day)]
    BY <1>2 DEF Gemini!GetWaitTime, Gemini!Leaves
  <2> HIDE DEF m
  <2>5. /\ Gemini!GetWaitTime \in Nat
        /\ InWindow(stamps, Gemini!GetWaitTime, Day) < Len(stamps)
    BY <1>1, <2>1, <2>3, <2>4, GeminiConstants
  <2>6. InWindow(stamps, Gemini!GetWaitTime, Day) \in Nat
    BY <2>5, WithinFinite, GeminiConstants
  <2>7. QED BY <1>0, <1>2, <2>5, <2>6, GeminiConstants DEF LimitsOK, RoomIn
<1>3. CASE ~ Gemini!DayFull
  <2>1. /\ Gemini!Recent(Minute) = Within(stamps, 0, Minute)
        /\ Gemini!Cardinality(Gemini!Recent(Minute)) = InWindow(stamps, 0, Minute)
    BY RecentIsWithin, GeminiConstants
  <2>2. InWindow(stamps, 0, Minute) >= MaxPerMinute
    <3>1. ~ (InWindow(stamps, 0, Minute) < MaxPerMinute)
      BY <1>3, <2>1 DEF Gemini!CanProceed
    <3>2. InWindow(stamps, 0, Minute) \in Nat
      BY WithinFinite, GeminiConstants
    <3>3. QED BY <3>1, <3>2, GeminiConstants
  <2>3. Gemini!Recent(Minute) # {}
    BY <2>1, <2>2, GeminiConstants, FS_EmptySet DEF InWindow
  <2>4. Gemini!GetWaitTime = Minute - stamps[m(Minute)]
    BY <1>3 DEF Gemini!GetWaitTime, Gemini!Leaves
  <2> HIDE DEF m
  <2>5. /\ Gemini!GetWaitTime \in Nat
        /\ InWindow(stamps, Gemini!GetWaitTime, Minute) < InWindow(stamps, 0, Minute)
    BY <1>1, <2>1, <2>3, <2>4, GeminiConstants
  <2>6. /\ InWindow(stamps, Gemini!GetWaitTime, Minute) \in Nat
        /\ InWindow(stamps, 0, Minute) \in Nat
    BY <2>5, WithinFinite, GeminiConstants
  <2>7. InWindow(stamps, Gemini!GetWaitTime, Day) < MaxPerDay
    <3>1. Len(stamps) < MaxPerDay
      BY <1>0, <1>3, GeminiConstants DEF Gemini!DayFull
    <3>2. /\ InWindow(stamps, Gemini!GetWaitTime, Day) \in Nat
          /\ InWindow(stamps, Gemini!GetWaitTime, Day) <= Len(stamps)
      BY <2>5, FewerLater, GeminiConstants
    <3>3. QED BY <1>0, <3>1, <3>2, GeminiConstants
  <2>8. QED BY <1>3, <2>5, <2>6, <2>7, GeminiConstants DEF LimitsOK, RoomIn
<1>4. QED BY <1>2, <1>3

(* The limiter lets a request through only where there is room.            *)
LEMMA ProceedsWithRoom ==
  ASSUME StampsOK(stamps), Gemini!CanProceed, NEW x
  PROVE  RoomIn(stamps, 0, x)
<1>1. /\ InWindow(stamps, 0, Minute) < MaxPerMinute
  BY RecentIsWithin, GeminiConstants DEF Gemini!CanProceed
<1>2. Len(stamps) < MaxPerDay
  <2>1. Len(stamps) \in Nat
    BY LenProperties DEF StampsOK
  <2>2. QED BY <2>1, GeminiConstants DEF Gemini!CanProceed, Gemini!DayFull
<1>3. QED BY <1>1, <1>2, AllOfTheDay DEF RoomIn

(* Of a client whose calls have not overlapped: its requests are s, its    *)
(* queue q, its loop is at l, what is left of the delays is y, its calls   *)
(* are at c, and x tells whether one waited for the day's quota.           *)
Waits(d, q, l, c) == c[d] = "delayed" \/ (l = "delay" /\ q = <<d>>)
SoleOK(s, q, l, y, c, x) ==
  /\ \A d, e \in Calls : c[d] \in Gemini!InProgress /\ c[e] \in Gemini!InProgress => d = e
  /\ q = << >> \/ \E d \in Calls : q = <<d>> /\ c[d] = "queued"
  /\ LimitsOK(s, x)
  /\ \A d \in Calls : Waits(d, q, l, c) => RoomIn(s, y[d], x)

CallsOK(c) == c \in [Calls -> Gemini!CallStates]

(* The call in progress, or the one that begins, sends its request.        *)
LEMMA SoleSends ==
  ASSUME NEW s, NEW q, NEW l, NEW y, NEW c, NEW x, SoleOK(s, q, l, y, c, x),
         StampsOK(s), CallsOK(c), NEW e \in Calls, RoomIn(s, 0, x),
         \A d \in Calls : c[d] \in Gemini!InProgress => d = e, NEW k
  PROVE  k # "delay" => SoleOK(Append(s, 0), << >>, k, y, [c EXCEPT ![e] = "sent"], x)
<1> SUFFICES ASSUME k # "delay"
             PROVE  SoleOK(Append(s, 0), << >>, k, y, [c EXCEPT ![e] = "sent"], x)
  OBVIOUS
<1>1. LimitsOK(Append(s, 0), x)
  BY OneRequestMore
<1> DEFINE c2 == [c EXCEPT ![e] = "sent"]
<1>2. \A d \in Calls : (d = e => c2[d] = "sent") /\ (d # e => c2[d] = c[d])
  BY DEF CallsOK
<1> HIDE DEF c2
<1>3. \A d \in Calls : c2[d] \in Gemini!InProgress => d = e
  BY <1>2
<1>4. \A d \in Calls : ~ Waits(d, << >>, k, c2)
  BY <1>2 DEF Waits, Gemini!InProgress
<1>5. QED BY <1>1, <1>3, <1>4 DEF SoleOK, c2

(* It waits for its turn.                                                  *)
LEMMA SoleWaits ==
  ASSUME NEW s, NEW c, NEW y \in [Calls -> Nat], CallsOK(c), NEW e \in Calls, NEW x, NEW g,
         LimitsOK(s, x), RoomIn(s, g, x),
         \A d \in Calls : c[d] \in Gemini!InProgress => d = e, NEW k
  PROVE  /\ SoleOK(s, <<e>>, k, [y EXCEPT ![e] = g], [c EXCEPT ![e] = "queued"], x)
         /\ SoleOK(s, << >>, k, [y EXCEPT ![e] = g], [c EXCEPT ![e] = "delayed"], x)
<1> DEFINE cq == [c EXCEPT ![e] = "queued"]
           cd == [c EXCEPT ![e] = "delayed"]
           z == [y EXCEPT ![e] = g]
<1>1. /\ \A d \in Calls : (d = e => cq[d] = "queued") /\ (d # e => cq[d] = c[d])
      /\ \A d \in Calls : (d = e => cd[d] = "delayed") /\ (d # e => cd[d] = c[d])
      /\ z[e] = g
  BY DEF CallsOK
<1> HIDE DEF cq, cd, z
<1>2. \A d \in Calls : (cq[d] \in Gemini!InProgress \/ cd[d] \in Gemini!InProgress) => d = e
  BY <1>1
<1>3. \A d \in Calls : (Waits(d, <<e>>, k, cq) \/ Waits(d, << >>, k, cd)) => d = e
  <2>1. \A d \in Calls : <<e>> = <<d>> => d = e
    OBVIOUS
  <2>2. \A d \in Calls : << >> # <<d>>
    OBVIOUS
  <2>3. \A d \in Calls : cq[d] = "delayed" \/ cd[d] = "delayed" => d = e
    BY <1>2 DEF Gemini!InProgress
  <2>4. QED BY <2>1, <2>2, <2>3 DEF Waits
<1>5. /\ <<e>> = << >> \/ \E d \in Calls : <<e>> = <<d>> /\ cq[d] = "queued"
  BY <1>1
<1>6. SoleOK(s, <<e>>, k, z, cq, x)
  BY <1>1, <1>2, <1>3, <1>5 DEF SoleOK
<1>7. SoleOK(s, << >>, k, z, cd, x)
  BY <1>1, <1>2, <1>3 DEF SoleOK
<1>8. QED BY <1>6, <1>7 DEF cq, cd, z

(* It is queued behind the loop's call.                                    *)
LEMMA SoleQueues ==
  ASSUME NEW s, NEW q, NEW l, NEW y, NEW c, NEW x, SoleOK(s, q, l, y, c, x), CallsOK(c),
         NEW e \in Calls, l # "delay", \A d \in Calls : c[d] \notin Gemini!InProgress
  PROVE  SoleOK(s, <<e>>, l, y, [c EXCEPT ![e] = "queued"], x)
<1> DEFINE c2 == [c EXCEPT ![e] = "queued"]
<1>1. \A d \in Calls : (d = e => c2[d] = "queued") /\ (d # e => c2[d] = c[d])
  BY DEF CallsOK
<1> HIDE DEF c2
<1>2. \A d \in Calls : c2[d] \in Gemini!InProgress => d = e
  BY <1>1
<1>3. \A d \in Calls : ~ Waits(d, <<e>>, l, c2)
  BY <1>1 DEF Waits, Gemini!InProgress
<1>4. QED BY <1>1, <1>2, <1>3 DEF SoleOK, c2

(* It returns.                                                             *)
LEMMA SoleReturns ==
  ASSUME NEW s, NEW q, NEW l, NEW y, NEW c, NEW x, SoleOK(s, q, l, y, c, x), CallsOK(c),
         NEW e \in Calls, c[e] \in {"new", "sent"}, NEW k, k = "delay" => l = "delay"
  PROVE  SoleOK(s, q, k, y, [c EXCEPT ![e] = "done"], x)
<1> DEFINE c2 == [c EXCEPT ![e] = "done"]
<1>1. \A d \in Calls : (d = e => c2[d] = "done") /\ (d # e => c2[d] = c[d])
  BY DEF CallsOK
<1> HIDE DEF c2
<1>2. \A d, f \in Calls : c2[d] \in Gemini!InProgress /\ c2[f] \in Gemini!InProgress => d = f
  BY <1>1 DEF SoleOK, Gemini!InProgress
<1>3. q = << >> \/ \E d \in Calls : q = <<d>> /\ c2[d] = "queued"
  BY <1>1 DEF SoleOK
<1>4. \A d \in Calls : Waits(d, q, k, c2) => Waits(d, q, l, c)
  BY <1>1 DEF Waits
<1>5. QED BY <1>2, <1>3, <1>4 DEF SoleOK, c2

(* A tick passes.                                                          *)
LEMMA SoleTick ==
  ASSUME NEW s, NEW q, NEW l, NEW y \in [Calls -> Nat], NEW c, NEW x,
         SoleOK(s, q, l, y, c, x), StampsOK(s),
         NEW r, r = [i \in 1 .. Len(s) - Cardinality({j \in DOMAIN s : s[j] + 1 >= Day})
                       |-> s[i + Cardinality({j \in DOMAIN s : s[j] + 1 >= Day})] + 1],
         NEW z, z = [d \in Calls |-> IF y[d] > 0 THEN y[d] - 1 ELSE 0]
  PROVE  StampsOK(r) /\ z \in [Calls -> Nat] /\ SoleOK(r, q, l, z, c, x)
<1> DEFINE k == Cardinality({j \in DOMAIN s : s[j] + 1 >= Day})
<1>0. k = Cardinality({j \in DOMAIN s : s[j] + 1 >= Day})
      /\ r = [i \in 1 .. Len(s) - k |-> s[i + k] + 1]
  OBVIOUS
<1> HIDE DEF k
<1>1. /\ StampsOK(r) /\ Len(r) <= Len(s)
      /\ \A d \in Nat, w \in Nat : InWindow(r, d, w) <= InWindow(s, d + 1, w)
  BY <1>0, OneTickLater
<1>2. Len(s) \in Nat /\ Len(r) \in Nat
  BY <1>1, LenProperties DEF StampsOK
<1>3. \A d \in Nat, w \in Nat : InWindow(r, d, w) \in Nat /\ InWindow(s, d, w) \in Nat
  BY <1>1, WithinFinite
<1>4. ASSUME NEW d \in Nat, NEW w \in Nat
      PROVE  InWindow(r, IF d > 0 THEN d - 1 ELSE 0, w) <= InWindow(s, d, w)
  <2>1. CASE d > 0
    <3>1. d - 1 \in Nat /\ (d - 1) + 1 = d /\ (IF d > 0 THEN d - 1 ELSE 0) = d - 1
      BY <2>1
    <3>2. InWindow(r, d - 1, w) <= InWindow(s, (d - 1) + 1, w)
      BY <1>1, <3>1
    <3>3. QED BY <3>1, <3>2
  <2>2. CASE d = 0
    <3>1. /\ InWindow(r, 0, w) <= InWindow(s, 0 + 1, w)
          /\ InWindow(s, 0 + 1, w) <= InWindow(s, 0, w)
      BY <1>1, FewerLater
    <3>2. InWindow(r, 0, w) \in Nat /\ InWindow(s, 0 + 1, w) \in Nat /\ InWindow(s, 0, w) \in Nat
      <4>1. 0 \in Nat /\ 0 + 1 \in Nat
        OBVIOUS
      <4>2. QED BY ONLY <1>3, <4>1, w \in Nat
    <3>3. InWindow(r, 0, w) <= InWindow(s, 0, w)
      BY <3>1, <3>2
    <3>4. QED BY <2>2, <3>3
  <2>3. QED BY <2>1, <2>2
<1>5. z \in [Calls -> Nat] /\ \A d \in Calls : z[d] = IF y[d] > 0 THEN y[d] - 1 ELSE 0
  OBVIOUS
<1>6. LimitsOK(r, x)
  <2>1. Len(r) <= MaxPerDay
    <3>1. Len(s) <= MaxPerDay
      BY DEF SoleOK, LimitsOK
    <3>2. QED BY ONLY <1>1, <1>2, <3>1, GeminiConstants
  <2>2. CASE x = TRUE
    BY <2>1, <2>2 DEF LimitsOK
  <2>3. CASE InWindow(s, 0, Minute) <= MaxPerMinute
    <3>1. InWindow(r, 0, Minute) <= InWindow(s, 0, Minute)
      BY SMTT(30), <1>4, GeminiConstants
    <3>2. InWindow(r, 0, Minute) \in Nat /\ InWindow(s, 0, Minute) \in Nat
      BY <1>3, GeminiConstants
    <3>3. InWindow(r, 0, Minute) <= MaxPerMinute
      BY <2>3, <3>1, <3>2, GeminiConstants
    <3>4. QED BY <2>1, <3>3 DEF LimitsOK
  <2>4. QED BY <2>2, <2>3 DEF SoleOK, LimitsOK
<1>7. ASSUME NEW d \in Calls, Waits(d, q, l, c)
      PROVE  RoomIn(r, z[d], x)
  <2>1. RoomIn(s, y[d], x) /\ y[d] \in Nat /\ z[d] \in Nat
    BY <1>5, <1>7 DEF SoleOK
  <2>2. \A w \in Nat : /\ InWindow(r, z[d], w) <= InWindow(s, y[d], w)
                       /\ InWindow(r, z[d], w) \in Nat /\ InWindow(s, y[d], w) \in Nat
    BY <1>3, <1>4, <1>5, <2>1
  <2>3. InWindow(r, z[d], Day) < MaxPerDay
    <3>1. InWindow(s, y[d], Day) < MaxPerDay
      BY <2>1 DEF RoomIn
    <3>2. QED BY ONLY <2>2, <3>1, GeminiConstants
  <2>4. InWindow(s, y[d], Minute) < MaxPerMinute => InWindow(r, z[d], Minute) < MaxPerMinute
    BY SMTT(30), <2>2, GeminiConstants
  <2>5. QED BY <2>1, <2>3, <2>4 DEF RoomIn
<1>8. QED BY <1>1, <1>5, <1>6, <1>7 DEF SoleOK

(* Of every client: moreover its loop runs while it is processing, until   *)
(* the queue is empty, and v is the call it serves, a are the answers and  *)
(* o tells whether calls overlapped.                                       *)
LoopOK(q, p, l) ==
  /\ q \in Seq(Calls) /\ p \in BOOLEAN /\ l \in {"none", "delay", "request", "next"}
  /\ p = TRUE <=> l # "none"
  /\ l = "none" => q = << >>
  /\ l = "delay" => q # << >>
CallersOK(v, y, c, a) ==
  /\ v \in Calls /\ y \in [Calls -> Nat] /\ CallsOK(c)
  /\ a \in [Calls -> {"none", "response", "fallback"}]
LimiterOK(s, q, p, l, v, y, c, a, o, x) ==
  /\ StampsOK(s) /\ LoopOK(q, p, l) /\ CallersOK(v, y, c, a)
  /\ o \in BOOLEAN /\ x \in BOOLEAN
  /\ o = FALSE => SoleOK(s, q, l, y, c, x)

LimiterInv ==
  LimiterOK(stamps, queue, processing, loop, serving, delay, call, answer, overlapped, dayDelay)

(* A client that starts.                                                   *)
LEMMA LimiterInit == Gemini!Init => LimiterInv
<1> SUFFICES ASSUME Gemini!Init PROVE LimiterInv
  OBVIOUS
<1>1. /\ stamps = << >> /\ queue = << >> /\ processing = FALSE
      /\ loop = "none" /\ serving = CHOOSE d \in Calls : TRUE
      /\ delay = [d \in Calls |-> 0] /\ call = [d \in Calls |-> "new"]
      /\ answer = [d \in Calls |-> "none"]
      /\ overlapped = FALSE /\ dayDelay = FALSE
  BY DEF Gemini!Init
<1>2. serving \in Calls
  BY <1>1, GeminiConstants
<1>3. StampsOK(<< >>) /\ Len(<< >>) = 0 /\ DOMAIN << >> = 1 .. 0
  <2>1. << >> \in Seq(0 .. Day - 1) /\ Len(<< >>) = 0
    OBVIOUS
  <2>2. QED BY <2>1, LenProperties DEF StampsOK
<1>4. LimitsOK(<< >>, FALSE)
  <2>1. InWindow(<< >>, 0, Minute) \in Nat /\ InWindow(<< >>, 0, Minute) <= Len(<< >>)
    BY <1>3, FewerLater, GeminiConstants
  <2>2. QED BY <1>3, <2>1, GeminiConstants DEF LimitsOK
<1>5. LoopOK(queue, processing, loop)
  <2>1. << >> \in Seq(Calls)
    OBVIOUS
  <2>2. LoopOK(<< >>, FALSE, "none")
    BY <2>1 DEF LoopOK
  <2>3. QED BY <1>1, <2>2
<1>6. CallersOK(serving, delay, call, answer)
  BY <1>1, <1>2 DEF CallersOK, CallsOK, Gemini!CallStates
<1>7. SoleOK(stamps, queue, loop, delay, call, dayDelay)
  BY <1>1, <1>4 DEF SoleOK, Waits, Gemini!InProgress
<1>8. QED BY <1>1, <1>3, <1>5, <1>6, <1>7 DEF LimiterInv, LimiterOK

(* A call that begins overlaps none if the calls have not overlapped then. *)
LEMMA BeginsAlone ==
  ASSUME LimiterInv, NEW e \in Calls, Gemini!Begins(e)
  PROVE  /\ call[e] = "new" /\ overlapped' \in BOOLEAN
         /\ overlapped' = FALSE =>
              /\ overlapped = FALSE /\ queue = << >> /\ loop # "delay"
              /\ SoleOK(stamps, queue, loop, delay, call, dayDelay)
              /\ \A d \in Calls : call[d] \notin Gemini!InProgress
<1>1. call[e] = "new" /\ overlapped \in BOOLEAN
      /\ overlapped' = (overlapped \/ \E d \in Calls : call[d] \in Gemini!InProgress)
  BY DEF LimiterInv, LimiterOK, Gemini!Begins
<1>2. overlapped' \in BOOLEAN
  BY <1>1
<1>3. ASSUME overlapped' = FALSE
      PROVE  overlapped = FALSE /\ \A d \in Calls : call[d] \notin Gemini!InProgress
  BY Zenon, <1>1, <1>3
<1>4. ASSUME overlapped = FALSE, \A d \in Calls : call[d] \notin Gemini!InProgress
      PROVE  /\ queue = << >> /\ loop # "delay"
             /\ SoleOK(stamps, queue, loop, delay, call, dayDelay)
  <2>1. SoleOK(stamps, queue, loop, delay, call, dayDelay) /\ LoopOK(queue, processing, loop)
    BY <1>4 DEF LimiterInv, LimiterOK
  <2>2. queue = << >>
    BY <1>4, <2>1 DEF SoleOK, Gemini!InProgress
  <2>3. QED BY <2>1, <2>2 DEF LoopOK
<1>5. QED BY <1>1, <1>2, <1>3, <1>4

(* The limits are no tighter once a request waited for the day's quota.    *)
LEMMA WaitsWithRoom ==
  ASSUME LimiterInv, ~ Gemini!CanProceed, dayDelay' = (dayDelay \/ Gemini!DayFull)
  PROVE  /\ dayDelay' \in BOOLEAN /\ Gemini!GetWaitTime \in Nat
         /\ LimitsOK(stamps, dayDelay) =>
              LimitsOK(stamps, dayDelay') /\ RoomIn(stamps, Gemini!GetWaitTime, dayDelay')
<1>1. StampsOK(stamps) /\ dayDelay \in BOOLEAN
  BY DEF LimiterInv, LimiterOK
<1>2. /\ Gemini!DayFull => dayDelay' = TRUE
      /\ dayDelay = TRUE => dayDelay' = TRUE
      /\ dayDelay' = TRUE \/ (dayDelay' = dayDelay /\ ~ Gemini!DayFull)
      /\ dayDelay' \in BOOLEAN
  BY Zenon, <1>1
<1>3. LimitsOK(stamps, dayDelay) => LimitsOK(stamps, dayDelay')
  BY <1>2 DEF LimitsOK
<1>4. QED BY <1>1, <1>2, <1>3, WaitTime

(* Where the queue is not empty its head is a call.                        *)
LEMMA QueueHead ==
  ASSUME NEW q \in Seq(Calls)
  PROVE  /\ q # << >> => Head(q) \in Calls /\ Tail(q) \in Seq(Calls)
         /\ \A d \in Calls : /\ Append(q, d) \in Seq(Calls) /\ Append(q, d) # << >>
                             /\ q = << >> => Append(q, d) = <<d>>
                             /\ q = <<d>> => Head(q) = d /\ Tail(q) = << >>
<1>1. q # << >> => Head(q) \in Calls /\ Tail(q) \in Seq(Calls)
  BY HeadTailProperties
<1>2. ASSUME NEW d \in Calls
      PROVE  /\ Append(q, d) \in Seq(Calls) /\ Append(q, d) # << >>
             /\ q = << >> => Append(q, d) = <<d>>
             /\ q = <<d>> => Head(q) = d /\ Tail(q) = << >>
  <2>1. Append(q, d) \in Seq(Calls) /\ Len(Append(q, d)) = Len(q) + 1 /\ Len(q) \in Nat
    BY AppendProperties, LenProperties
  <2>2. Append(q, d) # << >>
    BY <2>1
  <2>3. Append(<< >>, d) = <<d>> /\ Head(<<d>>) = d /\ Tail(<<d>>) = << >>
    OBVIOUS
  <2>4. QED BY <2>1, <2>2, <2>3
<1>3. QED BY <1>1, <1>2

(* The head of the queue is served, with room for it if calls have not     *)
(* overlapped.                                                             *)
LEMMA ServeKeeps ==
  ASSUME LimiterInv, Gemini!Serve, queue # << >>, loop \in {"delay", "next"},
         UNCHANGED <<processing, delay, answer, overlapped, dayDelay>>,
         overlapped = FALSE => RoomIn(stamps, 0, dayDelay)
  PROVE  LimiterInv'
<1> DEFINE e == Head(queue)
<1>1. /\ serving' = e /\ queue' = Tail(queue) /\ loop' = "request"
      /\ stamps' = Append(stamps, 0) /\ call' = [call EXCEPT ![e] = "sent"]
  BY DEF Gemini!Serve, Gemini!RecordRequest, Gemini!Goto
<1>2. /\ StampsOK(stamps) /\ LoopOK(queue, processing, loop)
      /\ CallersOK(serving, delay, call, answer) /\ overlapped \in BOOLEAN /\ dayDelay \in BOOLEAN
      /\ overlapped = FALSE => SoleOK(stamps, queue, loop, delay, call, dayDelay)
  BY DEF LimiterInv, LimiterOK
<1>3. e \in Calls /\ Tail(queue) \in Seq(Calls)
  BY <1>2, QueueHead DEF LoopOK
<1>4. StampsOK(stamps')
  BY <1>1, <1>2, StampAppended
<1>5. LoopOK(queue', processing', loop')
  BY <1>1, <1>2, <1>3 DEF LoopOK
<1>6. CallersOK(serving', delay', call', answer')
  <2>1. CallersOK(e, delay, [call EXCEPT ![e] = "sent"], answer)
    BY <1>2, <1>3 DEF CallersOK, CallsOK, Gemini!CallStates
  <2>2. QED BY <1>1, <2>1
<1>7. ASSUME overlapped = FALSE
      PROVE  SoleOK(stamps', queue', loop', delay', call', dayDelay')
  <2>1. SoleOK(stamps, queue, loop, delay, call, dayDelay) /\ CallsOK(call)
    BY <1>2, <1>7 DEF CallersOK
  <2>2. Tail(queue) = << >> /\ call[e] = "queued"
    <3>1. PICK d \in Calls : queue = <<d>> /\ call[d] = "queued"
      BY <2>1 DEF SoleOK
    <3>2. e = d /\ Tail(queue) = << >>
      BY <1>2, <3>1, QueueHead DEF LoopOK
    <3>3. QED BY <3>1, <3>2
  <2>3. \A d \in Calls : call[d] \in Gemini!InProgress => d = e
    BY <1>3, <2>1, <2>2 DEF SoleOK, Gemini!InProgress
  <2>4. SoleOK(Append(stamps, 0), << >>, "request", delay, [call EXCEPT ![e] = "sent"], dayDelay)
    <3> HIDE DEF e
    <3>1. QED BY <1>2, <1>3, <1>7, <2>1, <2>3, SoleSends
  <2>5. QED BY <1>1, <2>2, <2>4
<1>8. QED BY <1>2, <1>4, <1>5, <1>6, <1>7 DEF LimiterInv, LimiterOK

(* Every step of the client.                                               *)
LEMMA LimiterStepKeeps ==
  ASSUME LimiterInv, [Gemini!Next]_geminiVars
  PROVE  LimiterInv'
<1>0. /\ StampsOK(stamps) /\ LoopOK(queue, processing, loop)
      /\ CallersOK(serving, delay, call, answer) /\ CallsOK(call)
      /\ overlapped \in BOOLEAN /\ dayDelay \in BOOLEAN
      /\ overlapped = FALSE => SoleOK(stamps, queue, loop, delay, call, dayDelay)
  BY DEF LimiterInv, LimiterOK, CallersOK
<1>1. CASE UNCHANGED geminiVars
  BY <1>1 DEF geminiVars, LimiterInv
<1>2. CASE Gemini!Tick
  <2> DEFINE k == Cardinality({j \in DOMAIN stamps : stamps[j] + 1 >= Day})
             r == [i \in 1 .. Len(stamps) - k |-> stamps[i + k] + 1]
             z == [d \in Calls |-> IF delay[d] > 0 THEN delay[d] - 1 ELSE 0]
  <2>1. /\ stamps' = r /\ delay' = z
        /\ UNCHANGED <<queue, processing, loop, serving, call, answer, overlapped, dayDelay>>
    BY <1>2, GeminiCardinality DEF Gemini!Tick, Gemini!Pruned
  <2>2. StampsOK(r)
    BY <1>0, OneTickLater
  <2>3. CallersOK(serving, z, call, answer)
    BY <1>0 DEF CallersOK
  <2>4. overlapped = FALSE => SoleOK(r, queue, loop, z, call, dayDelay)
    <3> SUFFICES ASSUME overlapped = FALSE PROVE SoleOK(r, queue, loop, z, call, dayDelay)
      OBVIOUS
    <3>1. delay \in [Calls -> Nat]
      BY <1>0 DEF CallersOK
    <3>2. QED BY <1>0, <3>1, SoleTick
  <2> HIDE DEF r, z
  <2>5. LimiterOK(r, queue, processing, loop, serving, z, call, answer, overlapped, dayDelay)
    BY <1>0, <2>2, <2>3, <2>4 DEF LimiterOK
  <2>6. QED BY <2>1, <2>5 DEF LimiterInv
<1>3. CASE Gemini!LoopWakes
  <2>1. /\ loop = "delay" /\ delay[Head(queue)] = 0 /\ Gemini!Serve
        /\ UNCHANGED <<processing, delay, answer, overlapped, dayDelay>>
    BY <1>3 DEF Gemini!LoopWakes
  <2>2. queue # << >>
    BY <1>0, <2>1 DEF LoopOK
  <2>3. ASSUME overlapped = FALSE PROVE RoomIn(stamps, 0, dayDelay)
    <3>1. PICK d \in Calls : queue = <<d>> /\ call[d] = "queued"
      BY <1>0, <2>2, <2>3 DEF SoleOK
    <3>2. Head(queue) = d
      BY <1>0, <3>1, QueueHead DEF LoopOK
    <3>3. QED BY <1>0, <2>1, <2>3, <3>1, <3>2 DEF SoleOK, Waits
  <2>4. QED BY <2>1, <2>2, <2>3, ServeKeeps
<1>4. CASE Gemini!LoopEnds
  <2>1. /\ loop = "next" /\ queue = << >> /\ loop' = "none" /\ processing' = FALSE
        /\ UNCHANGED <<stamps, queue, serving, delay, call, answer, overlapped, dayDelay>>
    BY <1>4 DEF Gemini!LoopEnds
  <2>2. LoopOK(queue, FALSE, "none")
    BY <1>0, <2>1 DEF LoopOK
  <2>3. overlapped = FALSE => SoleOK(stamps, queue, "none", delay, call, dayDelay)
    BY <1>0, <2>1 DEF SoleOK, Waits
  <2>4. LimiterOK(stamps, queue, FALSE, "none", serving, delay, call, answer, overlapped, dayDelay)
    BY <1>0, <2>2, <2>3 DEF LimiterOK
  <2>5. QED BY <2>1, <2>4 DEF LimiterInv
<1>5. CASE Gemini!LoopContinues
  <2>1. /\ loop = "next" /\ queue # << >>
        /\ UNCHANGED <<processing, answer, overlapped>>
    BY <1>5 DEF Gemini!LoopContinues
  <2>2. CASE Gemini!CanProceed /\ Gemini!Serve /\ UNCHANGED <<delay, dayDelay>>
    <3>1. RoomIn(stamps, 0, dayDelay)
      BY <1>0, <2>2, ProceedsWithRoom
    <3>2. QED BY <2>1, <2>2, <3>1, ServeKeeps
  <2>3. CASE /\ ~ Gemini!CanProceed /\ loop' = "delay"
             /\ delay' = [delay EXCEPT ![Head(queue)] = Gemini!GetWaitTime]
             /\ dayDelay' = (dayDelay \/ Gemini!DayFull)
             /\ UNCHANGED <<stamps, queue, serving, call>>
    <3> DEFINE e == Head(queue)
               g == Gemini!GetWaitTime
    <3>1. e \in Calls
      BY <1>0, <2>1, QueueHead DEF LoopOK
    <3>2. /\ dayDelay' \in BOOLEAN /\ g \in Nat
          /\ LimitsOK(stamps, dayDelay) => LimitsOK(stamps, dayDelay') /\ RoomIn(stamps, g, dayDelay')
      BY <2>3, WaitsWithRoom
    <3> HIDE DEF g
    <3>3. LoopOK(queue, processing, "delay")
      BY <1>0, <2>1 DEF LoopOK
    <3>4. CallersOK(serving, [delay EXCEPT ![e] = g], call, answer)
      BY <1>0, <3>1, <3>2 DEF CallersOK
    <3>5. ASSUME overlapped = FALSE
          PROVE  SoleOK(stamps, queue, "delay", [delay EXCEPT ![e] = g], call, dayDelay')
      <4>1. SoleOK(stamps, queue, loop, delay, call, dayDelay) /\ delay \in [Calls -> Nat]
        BY <1>0, <3>5 DEF CallersOK
      <4>2. PICK d \in Calls : queue = <<d>> /\ call[d] = "queued"
        BY <2>1, <4>1 DEF SoleOK
      <4>3. e = d
        BY <1>0, <4>2, QueueHead DEF LoopOK
      <4>4. \A f \in Calls : call[f] \in Gemini!InProgress => f = d
        BY <4>1, <4>2 DEF SoleOK, Gemini!InProgress
      <4>5. [call EXCEPT ![d] = "queued"] = call
        BY <1>0, <4>2 DEF CallsOK
      <4>6. LimitsOK(stamps, dayDelay') /\ RoomIn(stamps, g, dayDelay')
        BY <3>2, <4>1 DEF SoleOK
      <4>7. SoleOK(stamps, <<d>>, "delay", [delay EXCEPT ![d] = g],
                   [call EXCEPT ![d] = "queued"], dayDelay')
        <5> DEFINE x == dayDelay'
        <5>1. LimitsOK(stamps, x) /\ RoomIn(stamps, g, x)
          BY <4>6
        <5> HIDE DEF x
        <5>2. SoleOK(stamps, <<d>>, "delay", [delay EXCEPT ![d] = g],
                     [call EXCEPT ![d] = "queued"], x)
          BY <1>0, <4>1, <4>4, <5>1, SoleWaits
        <5>3. QED BY <5>2 DEF x
      <4>8. QED BY <4>2, <4>3, <4>5, <4>7
    <3>6. LimiterOK(stamps, queue, processing, "delay", serving, [delay EXCEPT ![e] = g], call,
                    answer, overlapped, dayDelay')
      BY <1>0, <3>2, <3>3, <3>4, <3>5 DEF LimiterOK
    <3>7. QED BY <2>1, <2>3, <3>6 DEF LimiterInv, g
  <2>4. QED BY <1>5, <2>2, <2>3 DEF Gemini!LoopContinues
<1>6. ASSUME NEW e \in Calls, call[e] \in {"new", "sent"},
             \/ Gemini!Begins(e)
             \/ call[e] = "sent" /\ overlapped' = overlapped,
             call' = [call EXCEPT ![e] = "done"],
             \/ answer' = answer
             \/ \E b \in {"response", "fallback"} : answer' = [answer EXCEPT ![e] = b],
             loop' = loop \/ (loop = "request" /\ loop' = "next"),
             UNCHANGED <<stamps, queue, processing, serving, delay, dayDelay>>
      PROVE  LimiterInv'
  <2>1. CallersOK(serving, delay, call', answer')
    BY <1>0, <1>6 DEF CallersOK, CallsOK, Gemini!CallStates
  <2>2. LoopOK(queue, processing, loop')
    BY <1>0, <1>6 DEF LoopOK
  <2>3. overlapped' \in BOOLEAN /\ (overlapped' = FALSE => overlapped = FALSE)
    BY <1>0, <1>6, BeginsAlone
  <2>4. ASSUME overlapped = FALSE
        PROVE  SoleOK(stamps, queue, loop', delay, [call EXCEPT ![e] = "done"], dayDelay)
    <3>1. SoleOK(stamps, queue, loop, delay, call, dayDelay)
      BY <1>0, <2>4
    <3> DEFINE k == loop'
    <3>2. k = "delay" => loop = "delay"
      BY <1>6
    <3> HIDE DEF k
    <3>3. SoleOK(stamps, queue, k, delay, [call EXCEPT ![e] = "done"], dayDelay)
      BY <1>0, <1>6, <3>1, <3>2, SoleReturns
    <3>4. QED BY <3>3 DEF k
  <2>5. QED BY <1>0, <1>6, <2>1, <2>2, <2>3, <2>4 DEF LimiterInv, LimiterOK
<1>7. ASSUME NEW e \in Calls, Gemini!Refused(e) \/ Gemini!ApiReturns(e)
      PROVE  LimiterInv'
  <2>1. CASE Gemini!Refused(e)
    <3>1. /\ Gemini!Begins(e) /\ call[e] = "new" /\ call' = [call EXCEPT ![e] = "done"]
          /\ answer' = [answer EXCEPT ![e] = "fallback"] /\ loop' = loop
          /\ UNCHANGED <<stamps, queue, processing, serving, delay, dayDelay>>
      BY <2>1 DEF Gemini!Refused, Gemini!Begins, Gemini!Return, Gemini!Goto, Gemini!limiterVars
    <3>2. QED BY <1>6, <3>1
  <2>2. CASE Gemini!ApiAnswers(e)
    <3>1. /\ call[e] = "sent" /\ call' = [call EXCEPT ![e] = "done"]
          /\ answer' = [answer EXCEPT ![e] = "response"] /\ overlapped' = overlapped
          /\ loop' = loop \/ (loop = "request" /\ loop' = "next")
          /\ UNCHANGED <<stamps, queue, processing, serving, delay, dayDelay>>
      BY <2>2 DEF Gemini!ApiAnswers, Gemini!Return, Gemini!Goto, Gemini!ServedReturns
    <3>2. QED BY <1>6, <3>1
  <2>3. CASE Gemini!ApiFails(e)
    <3>1. /\ call[e] = "sent" /\ call' = [call EXCEPT ![e] = "done"]
          /\ answer' = [answer EXCEPT ![e] = "fallback"] /\ overlapped' = overlapped
          /\ loop' = loop \/ (loop = "request" /\ loop' = "next")
          /\ UNCHANGED <<stamps, queue, processing, serving, delay, dayDelay>>
      BY <2>3 DEF Gemini!ApiFails, Gemini!Return, Gemini!Goto, Gemini!ServedReturns
    <3>2. QED BY <1>6, <3>1
  <2>4. CASE Gemini!StreamAbandoned(e)
    <3>1. /\ call[e] = "sent" /\ call' = [call EXCEPT ![e] = "done"]
          /\ answer' = answer /\ overlapped' = overlapped /\ loop' = loop
          /\ UNCHANGED <<stamps, queue, processing, serving, delay, dayDelay>>
      BY <2>4 DEF Gemini!StreamAbandoned, Gemini!Goto, Gemini!limiterVars
    <3>2. QED BY <1>6, <3>1
  <2>5. QED BY <1>7, <2>1, <2>2, <2>3, <2>4 DEF Gemini!ApiReturns
<1>8. ASSUME NEW e \in Calls, stamps' = Append(stamps, 0), call' = [call EXCEPT ![e] = "sent"],
             UNCHANGED <<queue, processing, loop, serving, delay, answer, dayDelay>>,
             overlapped' \in BOOLEAN,
             overlapped' = FALSE =>
               /\ SoleOK(stamps, queue, loop, delay, call, dayDelay) /\ queue = << >>
               /\ RoomIn(stamps, 0, dayDelay) /\ loop # "delay"
               /\ \A d \in Calls : call[d] \in Gemini!InProgress => d = e
      PROVE  LimiterInv'
  <2>1. StampsOK(Append(stamps, 0))
    BY <1>0, StampAppended
  <2>2. CallersOK(serving, delay, [call EXCEPT ![e] = "sent"], answer)
    BY <1>0 DEF CallersOK, CallsOK, Gemini!CallStates
  <2>3. ASSUME overlapped' = FALSE
        PROVE  SoleOK(Append(stamps, 0), queue, loop, delay, [call EXCEPT ![e] = "sent"], dayDelay)
    <3>1. SoleOK(Append(stamps, 0), << >>, loop, delay, [call EXCEPT ![e] = "sent"], dayDelay)
      BY <1>0, <1>8, <2>3, SoleSends
    <3>2. QED BY <1>8, <2>3, <3>1
  <2>4. QED BY <1>0, <1>8, <2>1, <2>2, <2>3 DEF LimiterInv, LimiterOK
<1>9. ASSUME NEW e \in Calls, Gemini!Send(e)
      PROVE  LimiterInv'
  <2>1. /\ Gemini!Begins(e) /\ Gemini!CanProceed /\ stamps' = Append(stamps, 0)
        /\ call' = [call EXCEPT ![e] = "sent"]
        /\ UNCHANGED <<queue, processing, loop, serving, delay, answer, dayDelay>>
    BY <1>9 DEF Gemini!Send, Gemini!RecordRequest, Gemini!Goto
  <2>2. RoomIn(stamps, 0, dayDelay)
    BY <1>0, <2>1, ProceedsWithRoom
  <2>3. /\ overlapped' \in BOOLEAN
        /\ overlapped' = FALSE =>
               /\ SoleOK(stamps, queue, loop, delay, call, dayDelay) /\ queue = << >>
               /\ loop # "delay"
               /\ \A d \in Calls : call[d] \notin Gemini!InProgress
    BY <2>1, BeginsAlone
  <2>4. QED BY <1>8, <2>1, <2>2, <2>3
<1>10. ASSUME NEW e \in Calls, Gemini!StreamWakes(e)
       PROVE  LimiterInv'
  <2>1. /\ call[e] = "delayed" /\ delay[e] = 0 /\ stamps' = Append(stamps, 0)
        /\ call' = [call EXCEPT ![e] = "sent"] /\ overlapped' = overlapped
        /\ UNCHANGED <<queue, processing, loop, serving, delay, answer, dayDelay>>
    BY <1>10 DEF Gemini!StreamWakes, Gemini!RecordRequest, Gemini!Goto
  <2>2. ASSUME overlapped = FALSE
        PROVE  /\ SoleOK(stamps, queue, loop, delay, call, dayDelay) /\ queue = << >>
               /\ RoomIn(stamps, 0, dayDelay) /\ loop # "delay"
               /\ \A d \in Calls : call[d] \in Gemini!InProgress => d = e
    <3>1. SoleOK(stamps, queue, loop, delay, call, dayDelay)
      BY <1>0, <2>2
    <3>2. \A d \in Calls : call[d] \in Gemini!InProgress => d = e
      BY <2>1, <3>1 DEF SoleOK, Gemini!InProgress
    <3>3. queue = << >>
      BY <2>1, <3>1, <3>2 DEF SoleOK, Gemini!InProgress
    <3>4. RoomIn(stamps, 0, dayDelay)
      BY <2>1, <3>1 DEF SoleOK, Waits
    <3>5. QED BY <1>0, <3>1, <3>2, <3>3, <3>4 DEF LoopOK
  <2>3. QED BY <1>0, <1>8, <2>1, <2>2
<1>11. ASSUME NEW e \in Calls, Gemini!Enqueue(e) \/ Gemini!Delay(e)
       PROVE  /\ Gemini!Begins(e) /\ ~ Gemini!CanProceed /\ e \in Calls
              /\ overlapped' \in BOOLEAN
              /\ overlapped' = FALSE =>
                   /\ SoleOK(stamps, queue, loop, delay, call, dayDelay) /\ queue = << >>
                   /\ loop # "delay" /\ LimitsOK(stamps, dayDelay)
                   /\ \A d \in Calls : call[d] \notin Gemini!InProgress
  <2>1. Gemini!Begins(e) /\ ~ Gemini!CanProceed
    BY <1>11 DEF Gemini!Enqueue, Gemini!Delay
  <2>2. QED BY <2>1, BeginsAlone DEF SoleOK
<1>12. ASSUME NEW e \in Calls, Gemini!Enqueue(e)
       PROVE  LimiterInv'
  <2>1. /\ call' = [call EXCEPT ![e] = "queued"] /\ queue' = Append(queue, e)
        /\ UNCHANGED <<stamps, serving, answer>>
    BY <1>12 DEF Gemini!Enqueue, Gemini!Goto
  <2>2. /\ Append(queue, e) \in Seq(Calls) /\ Append(queue, e) # << >>
        /\ queue = << >> => Append(queue, e) = <<e>>
    BY <1>0, QueueHead DEF LoopOK
  <2>3. CASE processing = TRUE
    <3>1. UNCHANGED <<processing, loop, delay, dayDelay>>
      BY <1>12, <2>3 DEF Gemini!Enqueue
    <3>2. LoopOK(Append(queue, e), processing, loop)
      BY <1>0, <2>2, <2>3 DEF LoopOK
    <3>3. CallersOK(serving, delay, [call EXCEPT ![e] = "queued"], answer)
      BY <1>0 DEF CallersOK, CallsOK, Gemini!CallStates
    <3>4. ASSUME overlapped' = FALSE
          PROVE  SoleOK(stamps, <<e>>, loop, delay, [call EXCEPT ![e] = "queued"], dayDelay)
      <4>1. /\ SoleOK(stamps, queue, loop, delay, call, dayDelay) /\ loop # "delay"
            /\ \A d \in Calls : call[d] \notin Gemini!InProgress
        BY <1>11, <1>12, <3>4
      <4>2. QED BY <1>0, <4>1, SoleQueues
    <3>5. QED BY <1>0, <1>11, <1>12, <2>1, <2>2, <3>1, <3>2, <3>3, <3>4 DEF LimiterInv, LimiterOK
  <2>4. CASE processing = FALSE
    <3> DEFINE g == Gemini!GetWaitTime
               x == dayDelay'
    <3>1. /\ processing' = TRUE /\ loop' = "delay" /\ delay' = [delay EXCEPT ![e] = g]
          /\ dayDelay' = (dayDelay \/ Gemini!DayFull)
      BY <1>12, <2>4 DEF Gemini!Enqueue
    <3>2. /\ x \in BOOLEAN /\ g \in Nat
          /\ LimitsOK(stamps, dayDelay) => LimitsOK(stamps, x) /\ RoomIn(stamps, g, x)
      BY <1>11, <1>12, <3>1, WaitsWithRoom
    <3>3. LoopOK(Append(queue, e), TRUE, "delay")
      BY <2>2 DEF LoopOK
    <3> HIDE DEF g, x
    <3>4. CallersOK(serving, [delay EXCEPT ![e] = g], [call EXCEPT ![e] = "queued"], answer)
      BY <1>0, <3>2 DEF CallersOK, CallsOK, Gemini!CallStates
    <3>5. ASSUME overlapped' = FALSE
          PROVE  SoleOK(stamps, <<e>>, "delay", [delay EXCEPT ![e] = g],
                        [call EXCEPT ![e] = "queued"], x)
      <4>1. LimitsOK(stamps, x) /\ RoomIn(stamps, g, x)
        BY <1>11, <1>12, <3>2, <3>5
      <4>2. \A d \in Calls : call[d] \in Gemini!InProgress => d = e
        BY <1>11, <1>12, <3>5
      <4>3. delay \in [Calls -> Nat]
        BY <1>0 DEF CallersOK
      <4>4. QED BY <1>0, <4>1, <4>2, <4>3, SoleWaits
    <3>6. queue = << >> \/ overlapped' # FALSE
      BY <1>11, <1>12
    <3>7. LimiterOK(stamps, Append(queue, e), TRUE, "delay", serving, [delay EXCEPT ![e] = g],
                    [call EXCEPT ![e] = "queued"], answer, overlapped', x)
      BY <1>0, <1>11, <1>12, <2>2, <3>2, <3>3, <3>4, <3>5, <3>6 DEF LimiterOK
    <3>8. QED BY <2>1, <3>1, <3>7 DEF LimiterInv, g, x
  <2>5. QED BY <1>0, <2>3, <2>4 DEF LoopOK
<1>13. ASSUME NEW e \in Calls, Gemini!Delay(e)
       PROVE  LimiterInv'
  <2> DEFINE g == Gemini!GetWaitTime
             x == dayDelay'
  <2>1. /\ call' = [call EXCEPT ![e] = "delayed"] /\ delay' = [delay EXCEPT ![e] = g]
        /\ dayDelay' = (dayDelay \/ Gemini!DayFull)
        /\ UNCHANGED <<stamps, queue, processing, loop, serving, answer>>
    BY <1>13 DEF Gemini!Delay, Gemini!Goto
  <2>2. /\ x \in BOOLEAN /\ g \in Nat
        /\ LimitsOK(stamps, dayDelay) => LimitsOK(stamps, x) /\ RoomIn(stamps, g, x)
    BY <1>11, <1>13, <2>1, WaitsWithRoom
  <2> HIDE DEF g, x
  <2>3. CallersOK(serving, [delay EXCEPT ![e] = g], [call EXCEPT ![e] = "delayed"], answer)
    BY <1>0, <2>2 DEF CallersOK, CallsOK, Gemini!CallStates
  <2>4. ASSUME overlapped' = FALSE
        PROVE  SoleOK(stamps, queue, loop, [delay EXCEPT ![e] = g],
                      [call EXCEPT ![e] = "delayed"], x)
    <3>1. LimitsOK(stamps, x) /\ RoomIn(stamps, g, x) /\ queue = << >>
      BY <1>11, <1>13, <2>2, <2>4
    <3>2. \A d \in Calls : call[d] \in Gemini!InProgress => d = e
      BY <1>11, <1>13, <2>4
    <3>3. delay \in [Calls -> Nat]
      BY <1>0 DEF CallersOK
    <3>4. QED BY <1>0, <3>1, <3>2, <3>3, SoleWaits
  <2>5. LimiterOK(stamps, queue, processing, loop, serving, [delay EXCEPT ![e] = g],
                  [call EXCEPT ![e] = "delayed"], answer, overlapped', x)
    BY <1>0, <1>11, <1>13, <2>2, <2>3, <2>4 DEF LimiterOK
  <2>6. QED BY <2>1, <2>5 DEF LimiterInv, g, x
<1>14. QED
  BY <1>1, <1>2, <1>3, <1>4, <1>5, <1>7, <1>9, <1>10, <1>12, <1>13
     DEF Gemini!Next, Gemini!ProcessQueue, Gemini!Begin

(* The limiter's invariant holds in every state of the process.            *)
LEMMA LimiterInvariant == PartsSpec => []LimiterInv
<1>1. PartsInit => LimiterInv
  BY LimiterInit DEF PartsInit
<1>2. LimiterInv /\ [PartsNext]_allVars => LimiterInv'
  BY LimiterStepKeeps, PartsStepOfGemini
<1>3. QED BY <1>1, <1>2, PTL DEF PartsSpec

(* MCOpenClaw's WithinLimits for all limits and windows: a client whose    *)
(* calls do not overlap keeps within the day's limit, and within the       *)
(* minute's as long as no request waited for the day's quota, although a   *)
(* request that waited is sent without another look at the limiter.        *)
THEOREM SoleCallerKeepsLimits == PartsSpec => []WithinLimits
<1>1. LimiterInv => WithinLimits
  <2> SUFFICES ASSUME LimiterInv, ~ overlapped
               PROVE  /\ Len(stamps) <= MaxPerDay
                      /\ dayDelay \/ Gemini!Cardinality(Gemini!Recent(Minute)) <= MaxPerMinute
    BY Zenon DEF WithinLimits, Gemini!WithinLimits
  <2>1. overlapped = FALSE
    BY Zenon DEF LimiterInv, LimiterOK
  <2>2. StampsOK(stamps) /\ LimitsOK(stamps, dayDelay)
    BY <2>1 DEF LimiterInv, LimiterOK, SoleOK
  <2>3. /\ Len(stamps) <= MaxPerDay
        /\ \/ dayDelay = TRUE
           \/ Gemini!Cardinality(Gemini!Recent(Minute)) <= MaxPerMinute
    BY <2>2, RecentIsWithin, GeminiConstants DEF LimitsOK
  <2>4. QED BY Zenon, <2>3
<1>2. QED BY <1>1, LimiterInvariant, PTL

-----------------------------------------------------------------------------
(* The deployments.                                                        *)

(* Removing a version leaves the others in their order.                    *)
LEMMA FirstRemoved ==
  ASSUME NEW v \in Seq(Ops), NEW x
  PROVE  \/ /\ Deployments!RemoveFirst(v, x) = v
            /\ \A i \in 1 .. Len(v) : v[i] # x
         \/ /\ Deployments!RemoveFirst(v, x) \in Seq(Ops)
            /\ \E k \in 1 .. Len(v) :
                 /\ v[k] = x /\ Len(Deployments!RemoveFirst(v, x)) = Len(v) - 1
                 /\ \A i \in 1 .. Len(v) - 1 :
                      Deployments!RemoveFirst(v, x)[i] = IF i < k THEN v[i] ELSE v[i + 1]
<1> DEFINE r == Deployments!RemoveFirst(v, x)
           S == {i \in 1 .. Len(v) : v[i] = x}
           k == CHOOSE i \in S : \A j \in S : i <= j
           n == Len(v)
<1>0. n \in Nat /\ \A i \in 1 .. n : v[i] \in Ops
  BY LenProperties, ElementOfSeq
<1>1. CASE S = {}
  <2>1. ~ \E i \in 1 .. Len(v) : v[i] = x
    BY <1>1
  <2>2. r = v
    BY <2>1 DEF Deployments!RemoveFirst
  <2>3. QED BY <2>1, <2>2
<1>2. CASE S # {}
  <2>1. \E i \in 1 .. Len(v) : v[i] = x
    BY <1>2
  <2>2. r = Deployments!RemoveAt(v, k)
    BY <1>2, <2>1 DEF Deployments!RemoveFirst, Deployments!SelectInSeq, Deployments!Min
  <2>3. k \in 1 .. n /\ v[k] = x
    <3>1. S \in SUBSET Nat
      BY <1>0
    <3>2. \E i \in S : \A j \in S : i <= j
      BY <1>2, <3>1, LeastOf
    <3>3. QED BY <3>2
  <2> HIDE DEF k, S, r, n
  <2> DEFINE a == SubSeq(v, 1, k - 1)
             b == SubSeq(v, k + 1, n)
  <2>4. r = a \o b
    BY <2>2 DEF Deployments!RemoveAt, n
  <2>5. /\ a \in Seq(Ops) /\ Len(a) = k - 1
        /\ \A i \in 1 .. k - 1 : a[i] = v[i]
    <3>1. 1 \in Int /\ k - 1 \in Int /\ \A i \in 1 .. k - 1 : v[i] \in Ops
      BY <1>0, <2>3
    <3>2. /\ a \in Seq(Ops) /\ Len(a) = IF 1 <= k - 1 THEN (k - 1) - 1 + 1 ELSE 0
          /\ \A i \in 1 .. (k - 1) - 1 + 1 : a[i] = v[1 + i - 1]
      BY <3>1, SubSeqProperties
    <3> HIDE DEF a
    <3>3. (k - 1) - 1 + 1 = k - 1 /\ k \in Nat /\ k >= 1 /\ \A i \in 1 .. k - 1 : 1 + i - 1 = i
      BY <1>0, <2>3
    <3>4. QED BY <3>2, <3>3
  <2>6. /\ b \in Seq(Ops) /\ Len(b) = n - k
        /\ \A i \in 1 .. n - k : b[i] = v[i + k]
    <3>1. k + 1 \in Int /\ n \in Int /\ \A i \in k + 1 .. n : v[i] \in Ops
      BY <1>0, <2>3
    <3>2. /\ b \in Seq(Ops) /\ Len(b) = IF k + 1 <= n THEN n - (k + 1) + 1 ELSE 0
          /\ \A i \in 1 .. n - (k + 1) + 1 : b[i] = v[(k + 1) + i - 1]
      BY <3>1, SubSeqProperties
    <3> HIDE DEF b
    <3>3. n - (k + 1) + 1 = n - k /\ k \in Nat /\ k <= n /\ \A i \in 1 .. n - k : (k + 1) + i - 1 = i + k
      BY <1>0, <2>3
    <3>4. QED BY <1>0, <3>2, <3>3
  <2> HIDE DEF a, b
  <2>7. /\ r \in Seq(Ops) /\ Len(r) = (k - 1) + (n - k)
        /\ \A i \in 1 .. (k - 1) + (n - k) :
             r[i] = IF i <= k - 1 THEN a[i] ELSE b[i - (k - 1)]
    BY <2>4, <2>5, <2>6, ConcatProperties
  <2>8. Len(r) = n - 1
    BY <1>0, <2>3, <2>7
  <2>9. ASSUME NEW i \in 1 .. n - 1
        PROVE  r[i] = IF i < k THEN v[i] ELSE v[i + 1]
    <3>1. r[i] = IF i <= k - 1 THEN a[i] ELSE b[i - (k - 1)]
      BY <1>0, <2>3, <2>7
    <3>2. CASE i < k
      <4>1. i \in 1 .. k - 1 /\ i <= k - 1
        BY <1>0, <2>3, <3>2
      <4>2. QED BY <2>5, <3>1, <3>2, <4>1
    <3>3. CASE ~ (i < k)
      <4>1. i - (k - 1) \in 1 .. n - k /\ ~ (i <= k - 1) /\ (i - (k - 1)) + k = i + 1
        BY <1>0, <2>3, <3>3
      <4>2. QED BY <2>6, <3>1, <3>3, <4>1
    <3>4. QED BY <3>2, <3>3
  <2>10. QED BY <2>3, <2>7, <2>8, <2>9 DEF r, n
<1>3. QED BY <1>1, <1>2

(* Of versions v where the operations are at q: all differ, and were       *)
(* deployed.                                                               *)
VersionsOK(v, q) ==
  /\ v \in Seq(Ops)
  /\ \A i, j \in 1 .. Len(v) : v[i] = v[j] => i = j
  /\ \A i \in 1 .. Len(v) : q[v[i]] \notin {"new", "listed"}
Listed(v, d) == \E i \in 1 .. Len(v) : v[i] = d
Newest(v, d) == v # << >> /\ v[1] = d

(* The traffic t, the fit revisions f, the last success g and the record r *)
(* where no operation is in progress.                                      *)
Settled(v, t, f, g, r) ==
  /\ r \in {"clean", "restored"} => t = g /\ g \in f
  /\ r = "clean" => Newest(v, g)

(* Where operation d is at s, with b before and w to remove, alone: what   *)
(* it would restore is what served, what it made serves, and it removes    *)
(* other versions.                                                         *)
Stage(d, s, v, t, f, b, w, g, r) ==
  /\ s = "listed" => Settled(v, t, f, g, r) /\ b = IF v = << >> THEN NoTag ELSE v[1]
  /\ s \in {"deployed", "restoring"} => (r = "clean" => b = g /\ g \in f)
  /\ s \in {"deployed", "retaining", "deleting"} => Newest(v, d) /\ t = d
  /\ s \in {"retaining", "deleting"} => d \in f
  /\ s = "deleting" => \A i \in 1 .. Len(w) : w[i] # d

DeployTyped(v, t, f, q, p, m, c, g, r) ==
  /\ VersionsOK(v, q) /\ t \in Ops \cup {NoTag} /\ f \subseteq Ops
  /\ q \in [Ops -> Deployments!OpStates] /\ p \in [Ops -> Ops \cup {NoTag}]
  /\ m \in [Ops -> Seq(Ops)] /\ c \in BOOLEAN
  /\ g \in Ops \cup {NoTag} /\ r \in {"clean", "restored", "other"}
  /\ \A d \in Ops : q[d] = "deleting" => m[d] # << >>
AloneOK(v, t, f, q, p, m, g, r) ==
  /\ \A d, e \in Ops :
       q[d] \in Deployments!InProgress /\ q[e] \in Deployments!InProgress => d = e
  /\ t = NoTag \/ Listed(v, t)
  /\ (\A d \in Ops : q[d] \notin Deployments!InProgress) => Settled(v, t, f, g, r)
  /\ \A d \in Ops : Stage(d, q[d], v, t, f, p[d], m[d], g, r)
DeployOK(v, t, f, q, p, m, c, g, r) ==
  /\ DeployTyped(v, t, f, q, p, m, c, g, r)
  /\ c = FALSE => AloneOK(v, t, f, q, p, m, g, r)

DeployInv == DeployOK(versions, traffic, fit, op, prev, toRemove, concurrent, lastGood, record)

(* A new version is the newest.                                            *)
LEMMA VersionAdded ==
  ASSUME NEW v, NEW q \in [Ops -> Deployments!OpStates], VersionsOK(v, q), NEW d \in Ops,
         q[d] \in {"new", "listed"}, NEW s, s \notin {"new", "listed"}
  PROVE  /\ VersionsOK(<<d>> \o v, [q EXCEPT ![d] = s]) /\ Newest(<<d>> \o v, d)
         /\ \A t : t = d \/ Listed(v, t) => Listed(<<d>> \o v, t)
<1> DEFINE n == Len(v)
           w == <<d>> \o v
           q2 == [q EXCEPT ![d] = s]
<1>0. v \in Seq(Ops) /\ n \in Nat /\ \A i \in 1 .. n : v[i] \in Ops
  BY LenProperties, ElementOfSeq DEF VersionsOK
<1>1. /\ w \in Seq(Ops) /\ Len(w) = n + 1 /\ w[1] = d
      /\ \A i \in 1 .. n : w[i + 1] = v[i]
  <2>1. <<d>> \in Seq(Ops) /\ Len(<<d>>) = 1 /\ <<d>>[1] = d
    OBVIOUS
  <2>2. /\ w \in Seq(Ops) /\ Len(w) = 1 + n
        /\ \A i \in 1 .. 1 + n : w[i] = IF i <= 1 THEN <<d>>[i] ELSE v[i - 1]
    BY <1>0, <2>1, ConcatProperties
  <2> HIDE DEF w, n
  <2>3. w[1] = d
    BY <1>0, <2>1, <2>2
  <2>4. ASSUME NEW i \in 1 .. n PROVE w[i + 1] = v[i]
    <3>1. i + 1 \in 1 .. 1 + n /\ ~ (i + 1 <= 1) /\ (i + 1) - 1 = i
      BY <1>0
    <3>2. QED BY <2>2, <3>1
  <2>5. QED BY <1>0, <2>2, <2>3, <2>4
<1>2. \A e \in Ops : (e = d => q2[e] = s) /\ (e # d => q2[e] = q[e])
  OBVIOUS
<1> HIDE DEF w, q2
<1>3. \A i \in 1 .. n : v[i] # d
  BY DEF VersionsOK, n
<1>4. \A i \in 1 .. n + 1 : i = 1 \/ \E k \in 1 .. n : i = k + 1
  <2> SUFFICES ASSUME NEW i \in 1 .. n + 1, i # 1 PROVE \E k \in 1 .. n : i = k + 1
    OBVIOUS
  <2>1. i - 1 \in 1 .. n /\ i = (i - 1) + 1
    BY <1>0
  <2>2. QED BY <2>1
<1>5. \A i, j \in 1 .. n : v[i] = v[j] => i = j
  BY DEF VersionsOK, n
<1> HIDE DEF n
<1>6. \A i, j \in 1 .. n + 1 : w[i] = w[j] => i = j
  <2> SUFFICES ASSUME NEW i \in 1 .. n + 1, NEW j \in 1 .. n + 1, w[i] = w[j] PROVE i = j
    OBVIOUS
  <2>1. CASE i = 1 /\ j = 1
    BY <2>1
  <2>2. CASE i # 1 /\ j = 1
    <3>1. PICK k \in 1 .. n : i = k + 1
      BY <1>4, <2>2
    <3>2. QED BY <1>1, <1>3, <2>2, <3>1
  <2>3. CASE i = 1 /\ j # 1
    <3>1. PICK k \in 1 .. n : j = k + 1
      BY <1>4, <2>3
    <3>2. QED BY <1>1, <1>3, <2>3, <3>1
  <2>4. CASE i # 1 /\ j # 1
    <3>1. PICK k \in 1 .. n : i = k + 1
      BY <1>4, <2>4
    <3>2. PICK l \in 1 .. n : j = l + 1
      BY <1>4, <2>4
    <3>3. v[k] = v[l]
      BY <1>1, <3>1, <3>2
    <3>4. QED BY <1>5, <3>1, <3>2, <3>3
  <2>5. QED BY <2>1, <2>2, <2>3, <2>4
<1>7. \A i \in 1 .. n + 1 : q2[w[i]] \notin {"new", "listed"}
  <2> SUFFICES ASSUME NEW i \in 1 .. n + 1 PROVE q2[w[i]] \notin {"new", "listed"}
    OBVIOUS
  <2>1. CASE i = 1
    BY <1>1, <1>2, <2>1
  <2>2. CASE i # 1
    <3>1. PICK k \in 1 .. n : i = k + 1
      BY <1>4, <2>2
    <3>2. w[i] = v[k] /\ v[k] # d /\ v[k] \in Ops
      BY <1>0, <1>1, <1>3, <3>1
    <3>3. q[v[k]] \notin {"new", "listed"}
      BY DEF VersionsOK, n
    <3>4. QED BY <1>2, <3>2, <3>3
  <2>3. QED BY <2>1, <2>2
<1>8. ASSUME NEW t, t = d \/ Listed(v, t)
      PROVE  Listed(w, t)
  <2>1. CASE t = d
    <3>1. 1 \in 1 .. n + 1
      BY <1>0
    <3>2. QED BY <1>1, <2>1, <3>1 DEF Listed
  <2>2. CASE Listed(v, t)
    <3>1. PICK i \in 1 .. n : v[i] = t
      BY <2>2 DEF Listed, n
    <3>2. i + 1 \in 1 .. n + 1
      BY <1>0
    <3>3. QED BY <1>1, <3>1, <3>2 DEF Listed
  <2>3. QED BY <1>8, <2>1, <2>2
<1>9. w # << >>
  BY <1>0, <1>1
<1>10. QED BY <1>1, <1>6, <1>7, <1>8, <1>9 DEF VersionsOK, Newest, w, q2

(* A version removed is another than the newest and the one that serves.   *)
LEMMA VersionRemoved ==
  ASSUME NEW v, NEW q, VersionsOK(v, q), NEW x
  PROVE  LET r == Deployments!RemoveFirst(v, x)
         IN /\ VersionsOK(r, q)
            /\ \A d : Newest(v, d) /\ d # x => Newest(r, d)
            /\ \A d : Listed(v, d) /\ d # x => Listed(r, d)
<1> DEFINE r == Deployments!RemoveFirst(v, x)
           n == Len(v)
<1>0. v \in Seq(Ops) /\ n \in Nat /\ \A i \in 1 .. n : v[i] \in Ops
  BY LenProperties, ElementOfSeq DEF VersionsOK
<1>1. \/ r = v
      \/ /\ r \in Seq(Ops)
         /\ \E k \in 1 .. n :
              /\ v[k] = x /\ Len(r) = n - 1
              /\ \A i \in 1 .. n - 1 : r[i] = IF i < k THEN v[i] ELSE v[i + 1]
  BY <1>0, FirstRemoved
<1>5. \A i, j \in 1 .. n : v[i] = v[j] => i = j
  BY DEF VersionsOK
<1> HIDE DEF r
<1>2. CASE r = v
  BY <1>2 DEF r
<1>3. CASE r # v
  <2>1. PICK k \in 1 .. n :
          /\ v[k] = x /\ r \in Seq(Ops) /\ Len(r) = n - 1
          /\ \A i \in 1 .. n - 1 : r[i] = IF i < k THEN v[i] ELSE v[i + 1]
    BY <1>1, <1>3
  <2>2. \A i \in 1 .. n - 1 :
          LET j == IF i < k THEN i ELSE i + 1 IN j \in 1 .. n /\ j # k /\ r[i] = v[j]
    BY <1>0, <2>1
  <2>3. \A i, j \in 1 .. n - 1 : r[i] = r[j] => i = j
    <3> SUFFICES ASSUME NEW i \in 1 .. n - 1, NEW j \in 1 .. n - 1, r[i] = r[j] PROVE i = j
      OBVIOUS
    <3> DEFINE a == IF i < k THEN i ELSE i + 1
               b == IF j < k THEN j ELSE j + 1
    <3>1. a \in 1 .. n /\ b \in 1 .. n /\ r[i] = v[a] /\ r[j] = v[b]
      BY <2>2
    <3>2. a = b => i = j
      BY <1>0, <2>1
    <3> HIDE DEF a, b
    <3>3. QED BY <1>5, <3>1, <3>2
  <2>4. \A i \in 1 .. n - 1 : q[r[i]] \notin {"new", "listed"}
    <3> SUFFICES ASSUME NEW i \in 1 .. n - 1 PROVE q[r[i]] \notin {"new", "listed"}
      OBVIOUS
    <3>1. \E j \in 1 .. n : r[i] = v[j]
      BY <2>2
    <3>2. QED BY <3>1 DEF VersionsOK, n
  <2>5. ASSUME NEW d, Listed(v, d), d # x PROVE Listed(r, d)
    <3>1. PICK j \in 1 .. n : v[j] = d
      BY <2>5 DEF Listed
    <3>2. j # k
      BY <2>1, <2>5, <3>1
    <3>3. CASE j < k
      <4>1. j \in 1 .. n - 1
        BY <1>0, <3>3
      <4>2. QED BY <2>1, <3>1, <3>3, <4>1 DEF Listed
    <3>4. CASE k < j
      <4>1. j - 1 \in 1 .. n - 1 /\ ~ (j - 1 < k) /\ (j - 1) + 1 = j
        BY <1>0, <3>4
      <4>2. r[j - 1] = d
        BY <2>1, <3>1, <4>1
      <4>3. QED BY <2>1, <4>1, <4>2 DEF Listed
    <3>5. QED BY <1>0, <3>2, <3>3, <3>4
  <2>6. ASSUME NEW d, Newest(v, d), d # x PROVE Newest(r, d)
    <3>1. v[1] = d /\ 1 \in 1 .. n /\ k # 1
      BY <1>0, <2>1, <2>6 DEF Newest
    <3>2. 1 \in 1 .. n - 1 /\ 1 < k
      BY <1>0, <3>1
    <3>3. r[1] = d /\ Len(r) >= 1
      BY <1>0, <2>1, <3>1, <3>2
    <3>4. QED BY <3>3 DEF Newest
  <2>7. QED BY <2>1, <2>3, <2>4, <2>5, <2>6 DEF VersionsOK, r
<1>4. QED BY <1>2, <1>3

(* What is beyond those retained is not the newest.                        *)
LEMMA BeyondRetained ==
  ASSUME NEW v, NEW q, VersionsOK(v, q)
  PROVE  LET w == SubSeq(v, MaxVersions + 1, Len(v))
         IN /\ w \in Seq(Ops) /\ (~ (Len(v) <= MaxVersions) => w # << >>)
            /\ \A d : Newest(v, d) => \A i \in 1 .. Len(w) : w[i] # d
<1> DEFINE n == Len(v)
           w == SubSeq(v, MaxVersions + 1, n)
<1>0. v \in Seq(Ops) /\ n \in Nat /\ (\A i \in 1 .. n : v[i] \in Ops) /\ MaxVersions \in Nat \ {0}
  BY LenProperties, ElementOfSeq, PartsConstants DEF VersionsOK, Deployments!DeployAssumption
<1>1. /\ w \in Seq(Ops) /\ Len(w) = IF MaxVersions + 1 <= n THEN n - (MaxVersions + 1) + 1 ELSE 0
      /\ \A i \in 1 .. n - (MaxVersions + 1) + 1 : w[i] = v[(MaxVersions + 1) + i - 1]
  <2>1. MaxVersions + 1 \in Int /\ n \in Int /\ \A i \in MaxVersions + 1 .. n : v[i] \in Ops
    BY <1>0
  <2>2. QED BY <2>1, SubSeqProperties
<1>2. \A i, j \in 1 .. n : v[i] = v[j] => i = j
  BY DEF VersionsOK
<1> HIDE DEF w
<1>3. ~ (n <= MaxVersions) => w # << >>
  BY <1>0, <1>1
<1>4. ASSUME NEW d, Newest(v, d), NEW i \in 1 .. Len(w) PROVE w[i] # d
  <2>1. /\ i \in 1 .. n - (MaxVersions + 1) + 1
        /\ (MaxVersions + 1) + i - 1 \in 1 .. n /\ (MaxVersions + 1) + i - 1 # 1 /\ 1 \in 1 .. n
    BY <1>0, <1>1
  <2>2. v[1] = d /\ w[i] = v[(MaxVersions + 1) + i - 1]
    BY <1>1, <1>4, <2>1 DEF Newest
  <2>3. QED BY <1>2, <2>1, <2>2
<1>5. QED BY <1>1, <1>3, <1>4 DEF w

(* A program that starts.                                                  *)
LEMMA DeployInit == Deployments!Init => DeployInv
<1> SUFFICES ASSUME Deployments!Init PROVE DeployInv
  OBVIOUS
<1>1. /\ versions = << >> /\ traffic = NoTag /\ fit = {}
      /\ op = [d \in Ops |-> "new"] /\ prev = [d \in Ops |-> NoTag]
      /\ toRemove = [d \in Ops |-> << >>]
      /\ concurrent = FALSE /\ lastGood = NoTag /\ record = "other"
  BY DEF Deployments!Init
<1>2. VersionsOK(<< >>, [d \in Ops |-> "new"])
  <2>1. << >> \in Seq(Ops) /\ Len(<< >>) = 0
    OBVIOUS
  <2>2. QED BY <2>1 DEF VersionsOK
<1>3. DeployTyped(versions, traffic, fit, op, prev, toRemove, concurrent, lastGood, record)
  <2>1. << >> \in Seq(Ops)
    OBVIOUS
  <2>2. QED BY <1>1, <1>2, <2>1 DEF DeployTyped, Deployments!OpStates
<1>4. AloneOK(versions, traffic, fit, op, prev, toRemove, lastGood, record)
  BY <1>1 DEF AloneOK, Settled, Stage, Deployments!InProgress
<1>5. QED BY <1>1, <1>3, <1>4 DEF DeployInv, DeployOK

(* The only operation in progress comes to s2.                             *)
LEMMA AloneMoves ==
  ASSUME NEW v, NEW t, NEW f, NEW q \in [Ops -> Deployments!OpStates], NEW p, NEW m, NEW g, NEW r,
         NEW d \in Ops, \A e \in Ops : q[e] \in Deployments!InProgress => e = d,
         NEW s, t = NoTag \/ Listed(v, t),
         s \notin Deployments!InProgress => Settled(v, t, f, g, r),
         Stage(d, s, v, t, f, p[d], m[d], g, r)
  PROVE  AloneOK(v, t, f, [q EXCEPT ![d] = s], p, m, g, r)
<1> DEFINE q2 == [q EXCEPT ![d] = s]
<1>1. \A e \in Ops : (e = d => q2[e] = s) /\ (e # d => q2[e] = q[e])
  OBVIOUS
<1> HIDE DEF q2
<1>2. \A e \in Ops : q2[e] \in Deployments!InProgress => e = d
  BY <1>1
<1>3. ASSUME NEW e \in Ops PROVE Stage(e, q2[e], v, t, f, p[e], m[e], g, r)
  <2>1. CASE e = d
    BY <1>1, <2>1
  <2>2. CASE e # d
    <3>1. q2[e] \notin Deployments!InProgress
      BY <1>2, <2>2
    <3>2. QED BY <3>1 DEF Stage, Deployments!InProgress
  <2>3. QED BY <2>1, <2>2
<1>4. (\A e \in Ops : q2[e] \notin Deployments!InProgress) => Settled(v, t, f, g, r)
  BY <1>1
<1>5. QED BY <1>2, <1>3, <1>4 DEF AloneOK, q2

(* An operation that begins is alone if operations have not overlapped.    *)
LEMMA DeployBeginsAlone ==
  ASSUME DeployInv, NEW d \in Ops, Deployments!Begins(d)
  PROVE  /\ op[d] = "new" /\ concurrent' \in BOOLEAN
         /\ concurrent' = FALSE =>
              /\ concurrent = FALSE /\ (traffic = NoTag \/ Listed(versions, traffic))
              /\ Settled(versions, traffic, fit, lastGood, record)
              /\ \A e \in Ops : op[e] \notin Deployments!InProgress
<1>1. op[d] = "new" /\ concurrent \in BOOLEAN
      /\ concurrent' = (concurrent \/ ~ \A e \in Ops : op[e] \notin Deployments!InProgress)
  BY DEF DeployInv, DeployOK, DeployTyped, Deployments!Begins, Deployments!Idle
<1>2. concurrent' \in BOOLEAN
  BY <1>1
<1>3. ASSUME concurrent' = FALSE
      PROVE  concurrent = FALSE /\ \A e \in Ops : op[e] \notin Deployments!InProgress
  BY Zenon, <1>1, <1>3
<1>4. QED BY <1>1, <1>2, <1>3 DEF DeployInv, DeployOK, AloneOK

(* Every step of the deployments.                                          *)
LEMMA DeployStepKeeps ==
  ASSUME DeployInv, [Deployments!Next]_deployVars
  PROVE  DeployInv'
<1>0. /\ DeployTyped(versions, traffic, fit, op, prev, toRemove, concurrent, lastGood, record)
      /\ VersionsOK(versions, op) /\ op \in [Ops -> Deployments!OpStates]
      /\ prev \in [Ops -> Ops \cup {NoTag}] /\ toRemove \in [Ops -> Seq(Ops)]
      /\ traffic \in Ops \cup {NoTag} /\ fit \subseteq Ops
      /\ concurrent = FALSE =>
           AloneOK(versions, traffic, fit, op, prev, toRemove, lastGood, record)
  BY DEF DeployInv, DeployOK, DeployTyped
<1>a. NoTag \notin Ops
  BY PartsConstants DEF Deployments!DeployAssumption
<1>1. CASE UNCHANGED deployVars
  BY <1>1 DEF deployVars, DeployInv
\* where d is in progress, its stage if operations have not overlapped
<1>2. ASSUME NEW d \in Ops, op[d] \in Deployments!InProgress, concurrent = FALSE
      PROVE  /\ Stage(d, op[d], versions, traffic, fit, prev[d], toRemove[d], lastGood, record)
             /\ \A e \in Ops : op[e] \in Deployments!InProgress => e = d
             /\ traffic = NoTag \/ Listed(versions, traffic)
  BY <1>0, <1>2 DEF AloneOK
\* versions keep their order and lose none where d comes to s
<1>3. ASSUME NEW d \in Ops, NEW s, s \notin {"new", "listed"}
      PROVE  VersionsOK(versions, [op EXCEPT ![d] = s])
  <2>1. \A i \in 1 .. Len(versions) : versions[i] \in Ops
    BY <1>0, ElementOfSeq DEF VersionsOK
  <2>2. QED BY <1>0, <1>3, <2>1 DEF VersionsOK
\* d comes to s, alone if operations have not overlapped
<1>4. ASSUME NEW d \in Ops, NEW s \in Deployments!OpStates, op' = [op EXCEPT ![d] = s],
             VersionsOK(versions', op'), traffic' \in Ops \cup {NoTag}, fit' \subseteq Ops,
             prev' \in [Ops -> Ops \cup {NoTag}], toRemove' \in [Ops -> Seq(Ops)],
             concurrent' \in BOOLEAN, lastGood' \in Ops \cup {NoTag},
             record' \in {"clean", "restored", "other"},
             \A e \in Ops \ {d} : toRemove'[e] = toRemove[e],
             s = "deleting" => toRemove'[d] # << >>,
             concurrent' = FALSE =>
               /\ \A e \in Ops : op[e] \in Deployments!InProgress => e = d
               /\ traffic' = NoTag \/ Listed(versions', traffic')
               /\ s \notin Deployments!InProgress =>
                    Settled(versions', traffic', fit', lastGood', record')
               /\ Stage(d, s, versions', traffic', fit', prev'[d], toRemove'[d], lastGood', record')
      PROVE  DeployInv'
  <2>1. /\ op' \in [Ops -> Deployments!OpStates]
        /\ \A e \in Ops : (e = d => op'[e] = s) /\ (e # d => op'[e] = op[e])
    BY <1>0, <1>4
  <2>2. \A e \in Ops : op'[e] = "deleting" => toRemove'[e] # << >>
    BY <1>0, <1>4, <2>1 DEF DeployTyped
  <2>3. DeployTyped(versions', traffic', fit', op', prev', toRemove', concurrent', lastGood', record')
    BY <1>4, <2>1, <2>2 DEF DeployTyped
  <2>4. ASSUME concurrent' = FALSE
        PROVE  AloneOK(versions', traffic', fit', op', prev', toRemove', lastGood', record')
    <3> DEFINE v2 == versions'
               t2 == traffic'
               f2 == fit'
               p2 == prev'
               m2 == toRemove'
               g2 == lastGood'
               r2 == record'
    <3>1. /\ \A e \in Ops : op[e] \in Deployments!InProgress => e = d
          /\ t2 = NoTag \/ Listed(v2, t2)
          /\ s \notin Deployments!InProgress => Settled(v2, t2, f2, g2, r2)
          /\ Stage(d, s, v2, t2, f2, p2[d], m2[d], g2, r2)
      BY <1>4, <2>4
    <3> HIDE DEF v2, t2, f2, p2, m2, g2, r2
    <3>2. AloneOK(v2, t2, f2, [op EXCEPT ![d] = s], p2, m2, g2, r2)
      BY <1>0, <3>1, AloneMoves
    <3>3. QED BY <1>4, <3>2 DEF v2, t2, f2, p2, m2, g2, r2
  <2>5. QED BY <2>3, <2>4 DEF DeployInv, DeployOK
<1>5. concurrent \in BOOLEAN /\ lastGood \in Ops \cup {NoTag}
      /\ record \in {"clean", "restored", "other"}
  BY <1>0 DEF DeployTyped
<1>6. ASSUME NEW d \in Ops, Deployments!List(d) PROVE DeployInv'
  <2> DEFINE b == IF versions = << >> THEN NoTag ELSE versions[1]
  <2>1. /\ Deployments!Begins(d) /\ prev' = [prev EXCEPT ![d] = b]
        /\ op' = [op EXCEPT ![d] = "listed"]
        /\ UNCHANGED <<versions, traffic, fit, toRemove, lastGood, record>>
    BY <1>6 DEF Deployments!List, Deployments!Goto
  <2>2. /\ op[d] = "new" /\ concurrent' \in BOOLEAN
        /\ concurrent' = FALSE =>
              /\ concurrent = FALSE /\ (traffic = NoTag \/ Listed(versions, traffic))
              /\ Settled(versions, traffic, fit, lastGood, record)
              /\ \A e \in Ops : op[e] \notin Deployments!InProgress
    BY <2>1, DeployBeginsAlone
  <2>3. b \in Ops \cup {NoTag}
    <3>1. versions # << >> => versions[1] \in Ops
      <4>1. versions \in Seq(Ops)
        BY <1>0 DEF VersionsOK
      <4>2. versions # << >> => 1 \in 1 .. Len(versions)
        BY <4>1, LenProperties, EmptySeq
      <4>3. QED BY <4>1, <4>2, ElementOfSeq
    <3>2. QED BY <3>1
  <2>4. VersionsOK(versions, [op EXCEPT ![d] = "listed"])
    <3>1. \A i \in 1 .. Len(versions) : versions[i] \in Ops /\ versions[i] # d
      BY <1>0, <2>2, ElementOfSeq DEF VersionsOK
    <3>2. QED BY <1>0, <3>1 DEF VersionsOK
  <2>5. prev' \in [Ops -> Ops \cup {NoTag}] /\ prev'[d] = b
    BY <1>0, <2>1, <2>3
  <2>6. concurrent' = FALSE =>
          Stage(d, "listed", versions, traffic, fit, b, toRemove[d], lastGood, record)
    BY <2>2 DEF Stage
  <2> HIDE DEF b
  <2>7. "listed" \in Deployments!OpStates /\ "listed" \in Deployments!InProgress
    BY DEF Deployments!OpStates, Deployments!InProgress
  <2>8. VersionsOK(versions', op')
    BY <2>1, <2>4
  <2>9. QED BY <1>0, <1>4, <1>5, <2>1, <2>2, <2>5, <2>6, <2>7, <2>8
<1>7. ASSUME NEW d \in Ops, Deployments!ListForRollback(d) PROVE DeployInv'
  <2>1. /\ Deployments!Begins(d)
        /\ UNCHANGED <<versions, traffic, fit, toRemove, lastGood, record>>
        /\ \E s \in {"done", "returning"} : op' = [op EXCEPT ![d] = s]
        /\ \/ prev' = prev
           \/ ~ (Len(versions) < 2) /\ prev' = [prev EXCEPT ![d] = versions[2]]
    BY <1>7 DEF Deployments!ListForRollback, Deployments!Goto
  <2>2. /\ op[d] = "new" /\ concurrent' \in BOOLEAN
        /\ concurrent' = FALSE =>
              /\ concurrent = FALSE /\ (traffic = NoTag \/ Listed(versions, traffic))
              /\ Settled(versions, traffic, fit, lastGood, record)
              /\ \A e \in Ops : op[e] \notin Deployments!InProgress
    BY <2>1, DeployBeginsAlone
  <2>3. ~ (Len(versions) < 2) => versions[2] \in Ops
    <3>1. versions \in Seq(Ops)
      BY <1>0 DEF VersionsOK
    <3>2. ~ (Len(versions) < 2) => 2 \in 1 .. Len(versions)
      BY <3>1, LenProperties
    <3>3. QED BY <3>1, <3>2, ElementOfSeq
  <2>4. prev' \in [Ops -> Ops \cup {NoTag}]
    BY <1>0, <2>1, <2>3
  <2>5. PICK s \in {"done", "returning"} : op' = [op EXCEPT ![d] = s]
    BY <2>1
  <2>6. VersionsOK(versions', op')
    BY <1>3, <2>1, <2>5
  <2>7. /\ s \in Deployments!OpStates
        /\ Stage(d, s, versions, traffic, fit, prev'[d], toRemove[d], lastGood, record)
        /\ s # "deleting"
    BY DEF Deployments!OpStates, Deployments!InProgress, Stage
  <2>8. QED BY <1>0, <1>4, <1>5, <2>1, <2>2, <2>4, <2>5, <2>6, <2>7
\* the operation that steps was in progress
<1>8. ASSUME NEW d \in Ops, op[d] \in Deployments!InProgress,
             NEW s \in Deployments!OpStates \ {"new", "listed"}, op' = [op EXCEPT ![d] = s],
             VersionsOK(versions', op'), traffic' \in Ops \cup {NoTag}, fit' \subseteq Ops,
             UNCHANGED <<prev, concurrent>>, toRemove' \in [Ops -> Seq(Ops)],
             lastGood' \in Ops \cup {NoTag}, record' \in {"clean", "restored", "other"},
             \A e \in Ops \ {d} : toRemove'[e] = toRemove[e],
             s = "deleting" => toRemove'[d] # << >>,
             /\ concurrent = FALSE
             /\ Stage(d, op[d], versions, traffic, fit, prev[d], toRemove[d], lastGood, record)
             /\ traffic = NoTag \/ Listed(versions, traffic)
             => /\ traffic' = NoTag \/ Listed(versions', traffic')
                /\ s \notin Deployments!InProgress =>
                     Settled(versions', traffic', fit', lastGood', record')
                /\ Stage(d, s, versions', traffic', fit', prev[d], toRemove'[d], lastGood', record')
      PROVE  DeployInv'
  <2>1. concurrent = FALSE =>
          /\ Stage(d, op[d], versions, traffic, fit, prev[d], toRemove[d], lastGood, record)
          /\ \A e \in Ops : op[e] \in Deployments!InProgress => e = d
          /\ traffic = NoTag \/ Listed(versions, traffic)
    BY <1>2, <1>8
  <2>2. concurrent' \in BOOLEAN /\ concurrent' = concurrent /\ prev' = prev
    BY <1>5, <1>8
  <2>3. concurrent' = FALSE =>
               /\ \A e \in Ops : op[e] \in Deployments!InProgress => e = d
               /\ traffic' = NoTag \/ Listed(versions', traffic')
               /\ s \notin Deployments!InProgress =>
                    Settled(versions', traffic', fit', lastGood', record')
               /\ Stage(d, s, versions', traffic', fit', prev'[d], toRemove'[d], lastGood', record')
    BY <1>8, <2>1, <2>2
  <2>4. QED BY <1>0, <1>4, <1>8, <2>2, <2>3
\* a call of d makes its version
<1>9. ASSUME NEW d \in Ops, Deployments!Deployed(d), op[d] = "listed",
             NEW s \in {"deployed", "threw"}, op' = [op EXCEPT ![d] = s]
      PROVE  /\ VersionsOK(versions', op') /\ Newest(versions', d) /\ Listed(versions', traffic')
             /\ traffic' = d /\ fit \subseteq fit' /\ fit' \subseteq Ops
  <2>1. versions' = <<d>> \o versions /\ traffic' = d /\ fit' \in {fit, fit \cup {d}}
    BY <1>9 DEF Deployments!Deployed
  <2>2. /\ VersionsOK(<<d>> \o versions, [op EXCEPT ![d] = s]) /\ Newest(<<d>> \o versions, d)
        /\ Listed(<<d>> \o versions, d)
    BY <1>0, <1>9, VersionAdded
  <2>3. QED BY <1>0, <1>9, <2>1, <2>2
<1>10. ASSUME NEW d \in Ops, Deployments!Deploy(d) PROVE DeployInv'
  <2>1. /\ op[d] = "listed" /\ Deployments!Deployed(d) /\ op' = [op EXCEPT ![d] = "deployed"]
        /\ UNCHANGED <<prev, toRemove, concurrent, lastGood, record>>
    BY <1>10 DEF Deployments!Deploy, Deployments!Goto
  <2>2. /\ VersionsOK(versions', op') /\ Newest(versions', d) /\ Listed(versions', traffic')
        /\ traffic' = d /\ fit \subseteq fit' /\ fit' \subseteq Ops
    BY <1>9, <2>1
  <2>3. Stage(d, "listed", versions, traffic, fit, prev[d], toRemove[d], lastGood, record)
          => Stage(d, "deployed", versions', traffic', fit', prev[d], toRemove[d], lastGood, record)
    BY <2>2 DEF Stage, Settled, Newest
  <2>4. "deployed" \in Deployments!OpStates /\ {"listed", "deployed"} \subseteq Deployments!InProgress
    BY DEF Deployments!OpStates, Deployments!InProgress
  <2>5. QED BY <1>0, <1>5, <1>8, <2>1, <2>2, <2>3, <2>4
<1>11. ASSUME NEW d \in Ops, Deployments!Healthy(d) PROVE DeployInv'
  <2>1. /\ op[d] = "deployed" /\ traffic \in fit /\ op' = [op EXCEPT ![d] = "retaining"]
        /\ UNCHANGED <<versions, traffic, fit, prev, toRemove, concurrent, lastGood, record>>
    BY <1>11 DEF Deployments!Healthy, Deployments!Goto
  <2>2. VersionsOK(versions', op')
    BY <1>3, <2>1
  <2>3. Stage(d, "deployed", versions, traffic, fit, prev[d], toRemove[d], lastGood, record)
          => Stage(d, "retaining", versions, traffic, fit, prev[d], toRemove[d], lastGood, record)
    BY <2>1 DEF Stage
  <2>4. "retaining" \in Deployments!OpStates /\ {"deployed", "retaining"} \subseteq Deployments!InProgress
    BY DEF Deployments!OpStates, Deployments!InProgress
  <2>5. QED BY <1>0, <1>5, <1>8, <2>1, <2>2, <2>3, <2>4
<1>12. ASSUME NEW d \in Ops, Deployments!Unhealthy(d) PROVE DeployInv'
  <2>1. /\ op[d] = "deployed"
        /\ \/ op' = [op EXCEPT ![d] = "done"] /\ record' = "other"
           \/ op' = [op EXCEPT ![d] = "restoring"] /\ record' = record
        /\ UNCHANGED <<versions, traffic, fit, prev, toRemove, concurrent, lastGood>>
    BY <1>12 DEF Deployments!Unhealthy, Deployments!Goto
  <2>2. {"done", "restoring"} \subseteq Deployments!OpStates /\ "deployed" \in Deployments!InProgress
        /\ "restoring" \in Deployments!InProgress
    BY DEF Deployments!OpStates, Deployments!InProgress
  <2>3. CASE op' = [op EXCEPT ![d] = "done"] /\ record' = "other"
    <3>1. VersionsOK(versions', op')
      BY <1>3, <2>1, <2>3
    <3>2. /\ Settled(versions, traffic, fit, lastGood, "other")
          /\ Stage(d, "done", versions, traffic, fit, prev[d], toRemove[d], lastGood, "other")
      BY DEF Settled, Stage
    <3>3. QED BY <1>0, <1>5, <1>8, <2>1, <2>2, <2>3, <3>1, <3>2
  <2>4. CASE op' = [op EXCEPT ![d] = "restoring"] /\ record' = record
    <3>1. VersionsOK(versions', op')
      BY <1>3, <2>1, <2>4
    <3>2. Stage(d, "deployed", versions, traffic, fit, prev[d], toRemove[d], lastGood, record)
            => Stage(d, "restoring", versions, traffic, fit, prev[d], toRemove[d], lastGood, record)
      BY DEF Stage
    <3>3. QED BY <1>0, <1>5, <1>8, <2>1, <2>2, <2>4, <3>1, <3>2
  <2>5. QED BY <2>1, <2>3, <2>4
\* what is restored is listed
<1>13. ASSUME NEW d \in Ops, prev[d] \in Deployments!Retained
       PROVE  Listed(versions, prev[d]) /\ prev[d] \in Ops
  <2>1. versions \in Seq(Ops) /\ DOMAIN versions = 1 .. Len(versions)
    BY <1>0, LenProperties DEF VersionsOK
  <2>2. PICK i \in 1 .. Len(versions) : versions[i] = prev[d]
    BY <1>13, <2>1 DEF Deployments!Retained, Deployments!Range
  <2>3. versions[i] \in Ops
    BY <2>1, ElementOfSeq
  <2>4. QED BY <2>2, <2>3 DEF Listed
<1>14. ASSUME NEW d \in Ops, Deployments!Restore(d) PROVE DeployInv'
  <2>1. /\ op[d] = "restoring" /\ prev[d] \in Deployments!Retained
        /\ traffic' = prev[d] /\ op' = [op EXCEPT ![d] = "done"]
        /\ record' = IF record = "clean" THEN "restored" ELSE "other"
        /\ UNCHANGED <<versions, fit, prev, toRemove, concurrent, lastGood>>
    BY <1>14 DEF Deployments!Restore, Deployments!Goto
  <2>2. Listed(versions, prev[d]) /\ prev[d] \in Ops /\ VersionsOK(versions', op')
    BY <1>3, <1>13, <2>1
  <2>3. "done" \in Deployments!OpStates /\ "restoring" \in Deployments!InProgress
    BY DEF Deployments!OpStates, Deployments!InProgress
  <2>4. Stage(d, "restoring", versions, traffic, fit, prev[d], toRemove[d], lastGood, record)
          => Settled(versions, prev[d], fit, lastGood, record')
    BY <2>1 DEF Stage, Settled
  <2>5. Stage(d, "done", versions, prev[d], fit, prev[d], toRemove[d], lastGood, record')
    BY DEF Stage
  <2>6. record' \in {"clean", "restored", "other"}
    BY <2>1
  <2>7. QED BY <1>0, <1>5, <1>8, <2>1, <2>2, <2>3, <2>4, <2>5, <2>6
<1>15. ASSUME NEW d \in Ops, Deployments!Rollback(d) PROVE DeployInv'
  <2>1. /\ op[d] = "returning" /\ prev[d] \in Deployments!Retained
        /\ traffic' = prev[d] /\ op' = [op EXCEPT ![d] = "done"] /\ record' = "other"
        /\ UNCHANGED <<versions, fit, prev, toRemove, concurrent, lastGood>>
    BY <1>15 DEF Deployments!Rollback, Deployments!Goto
  <2>2. Listed(versions, prev[d]) /\ prev[d] \in Ops /\ VersionsOK(versions', op')
    BY <1>3, <1>13, <2>1
  <2>3. "done" \in Deployments!OpStates /\ "returning" \in Deployments!InProgress
    BY DEF Deployments!OpStates, Deployments!InProgress
  <2>4. /\ Settled(versions, prev[d], fit, lastGood, "other")
        /\ Stage(d, "done", versions, prev[d], fit, prev[d], toRemove[d], lastGood, "other")
    BY DEF Settled, Stage
  <2>5. QED BY <1>0, <1>5, <1>8, <2>1, <2>2, <2>3, <2>4
<1>16. ASSUME NEW d \in Ops, Deployments!Throws(d) PROVE DeployInv'
  <2>1. /\ op[d] \in Deployments!InProgress /\ op' = [op EXCEPT ![d] = "threw"] /\ record' = "other"
        /\ \/ UNCHANGED <<versions, traffic, fit>>
           \/ op[d] = "listed" /\ Deployments!Deployed(d)
        /\ UNCHANGED <<prev, toRemove, concurrent, lastGood>>
    BY <1>16 DEF Deployments!Throws, Deployments!Goto
  <2>2. "threw" \in Deployments!OpStates
    BY DEF Deployments!OpStates
  <2>3. /\ Settled(versions', traffic', fit', lastGood, "other")
        /\ Stage(d, "threw", versions', traffic', fit', prev[d], toRemove[d], lastGood, "other")
    BY DEF Settled, Stage
  <2>4. CASE UNCHANGED <<versions, traffic, fit>>
    <3>1. VersionsOK(versions', op')
      BY <1>3, <2>1, <2>4
    <3>2. QED BY <1>0, <1>5, <1>8, <2>1, <2>2, <2>3, <2>4, <3>1
  <2>5. CASE op[d] = "listed" /\ Deployments!Deployed(d)
    <3>1. /\ VersionsOK(versions', op') /\ Listed(versions', traffic')
          /\ traffic' = d /\ fit' \subseteq Ops
      BY <1>9, <2>1, <2>5
    <3>2. QED BY <1>0, <1>5, <1>8, <2>1, <2>2, <2>3, <3>1
  <2>6. QED BY <2>1, <2>4, <2>5
\* a success
<1>17. ASSUME NEW d \in Ops, NEW v, NEW w
       PROVE  /\ Stage(d, "retaining", v, traffic, fit, prev[d], w, lastGood, record)
                   \/ Stage(d, "deleting", v, traffic, fit, prev[d], w, lastGood, record)
                   => Settled(v, traffic, fit, d, "clean")
  BY DEF Stage, Settled
<1>18. ASSUME NEW d \in Ops, Deployments!ListAgain(d) PROVE DeployInv'
  <2> DEFINE w == SubSeq(versions, MaxVersions + 1, Len(versions))
  <2>1. /\ op[d] = "retaining" /\ toRemove' = [toRemove EXCEPT ![d] = w]
        /\ UNCHANGED <<versions, traffic, fit, prev, concurrent>>
        /\ \/ /\ op' = [op EXCEPT ![d] = "done"] /\ lastGood' = d /\ record' = "clean"
           \/ /\ ~ (Len(versions) <= MaxVersions) /\ op' = [op EXCEPT ![d] = "deleting"]
              /\ lastGood' = lastGood /\ record' = record
    BY <1>18 DEF Deployments!ListAgain, Deployments!Goto, Deployments!Succeeded
  <2>2. /\ w \in Seq(Ops) /\ (~ (Len(versions) <= MaxVersions) => w # << >>)
        /\ \A e : Newest(versions, e) => \A i \in 1 .. Len(w) : w[i] # e
    BY <1>0, BeyondRetained
  <2> HIDE DEF w
  <2>3. /\ toRemove' \in [Ops -> Seq(Ops)] /\ toRemove'[d] = w
        /\ \A e \in Ops \ {d} : toRemove'[e] = toRemove[e]
    BY <1>0, <2>1, <2>2
  <2>4. {"done", "deleting"} \subseteq Deployments!OpStates /\ "retaining" \in Deployments!InProgress
        /\ "deleting" \in Deployments!InProgress
    BY DEF Deployments!OpStates, Deployments!InProgress
  <2>5. CASE op' = [op EXCEPT ![d] = "done"] /\ lastGood' = d /\ record' = "clean"
    <3>1. VersionsOK(versions', op')
      BY <1>3, <2>1, <2>5
    <3>2. Stage(d, "done", versions, traffic, fit, prev[d], w, d, "clean")
      BY DEF Stage
    <3>3. Stage(d, "retaining", versions, traffic, fit, prev[d], toRemove[d], lastGood, record)
            => Settled(versions, traffic, fit, d, "clean")
      BY <1>17
    <3>4. QED BY <1>0, <1>5, <1>8, <2>1, <2>3, <2>4, <2>5, <3>1, <3>2, <3>3
  <2>6. CASE /\ ~ (Len(versions) <= MaxVersions) /\ op' = [op EXCEPT ![d] = "deleting"]
             /\ lastGood' = lastGood /\ record' = record
    <3>1. VersionsOK(versions', op')
      BY <1>3, <2>1, <2>6
    <3>2. Stage(d, "retaining", versions, traffic, fit, prev[d], toRemove[d], lastGood, record)
            => Stage(d, "deleting", versions, traffic, fit, prev[d], w, lastGood, record)
      BY <2>2 DEF Stage
    <3>3. QED BY ZenonT(60), <1>0, <1>5, <1>8, <2>1, <2>2, <2>3, <2>4, <2>6, <3>1, <3>2
  <2>7. QED BY <2>1, <2>5, <2>6
<1>19. ASSUME NEW d \in Ops, Deployments!Delete(d) PROVE DeployInv'
  <2> DEFINE w == toRemove[d]
             v == Deployments!RemoveFirst(versions, Head(w))
  <2>1. /\ op[d] = "deleting" /\ versions' = v /\ toRemove' = [toRemove EXCEPT ![d] = Tail(w)]
        /\ UNCHANGED <<traffic, fit, prev, concurrent>>
        /\ \/ /\ op' = [op EXCEPT ![d] = "done"] /\ lastGood' = d /\ record' = "clean"
           \/ /\ Len(w) # 1 /\ op' = op /\ lastGood' = lastGood /\ record' = record
    BY <1>19 DEF Deployments!Delete, Deployments!Goto, Deployments!Succeeded
  <2>2. /\ w \in Seq(Ops) /\ w # << >> /\ Len(w) \in Nat /\ Tail(w) \in Seq(Ops)
        /\ Len(Tail(w)) = Len(w) - 1 /\ \A i \in 1 .. Len(Tail(w)) : Tail(w)[i] = w[i + 1]
        /\ Head(w) = w[1] /\ 1 \in 1 .. Len(w)
    <3>1. w \in Seq(Ops) /\ w # << >>
      BY <1>0, <2>1 DEF DeployTyped
    <3>2. QED BY <3>1, HeadTailProperties, LenProperties, EmptySeq
  <2>3. VersionsOK(v, op)
    BY <1>0, VersionRemoved
  <2>4. /\ \A e : Newest(versions, e) /\ e # Head(w) => Newest(v, e)
        /\ \A e : Listed(versions, e) /\ e # Head(w) => Listed(v, e)
    BY <1>0, VersionRemoved
  <2>5. ASSUME Stage(d, "deleting", versions, traffic, fit, prev[d], w, lastGood, record),
               traffic = NoTag \/ Listed(versions, traffic)
        PROVE  /\ traffic = NoTag \/ Listed(v, traffic)
               /\ Stage(d, "deleting", v, traffic, fit, prev[d], Tail(w), lastGood, record)
    <3>1. Newest(versions, d) /\ traffic = d /\ d \in fit /\ \A i \in 1 .. Len(w) : w[i] # d
      BY <2>5 DEF Stage
    <3>2. Head(w) # d
      BY <2>2, <3>1
    <3>3. \A i \in 1 .. Len(Tail(w)) : i + 1 \in 1 .. Len(w)
      BY <2>2
    <3>4. \A i \in 1 .. Len(Tail(w)) : Tail(w)[i] # d
      BY <2>2, <3>1, <3>3
    <3>5. Newest(v, d) /\ (traffic = NoTag \/ Listed(v, traffic))
      BY <2>4, <2>5, <3>1, <3>2
    <3> HIDE DEF v
    <3>6. QED BY <3>1, <3>4, <3>5 DEF Stage
  <2>6. \A s : s \notin {"new", "listed"} => VersionsOK(v, [op EXCEPT ![d] = s])
    <3>1. VersionsOK(v, op)
      BY <2>3
    <3> HIDE DEF v
    <3>2. \A i \in 1 .. Len(v) : v[i] \in Ops
      BY <3>1, ElementOfSeq DEF VersionsOK
    <3>3. QED BY <1>0, <3>1, <3>2 DEF VersionsOK
  <2> HIDE DEF v
  <2>7. /\ toRemove' \in [Ops -> Seq(Ops)] /\ toRemove'[d] = Tail(w)
        /\ \A e \in Ops \ {d} : toRemove'[e] = toRemove[e]
    <3> DEFINE x == Tail(w)
    <3>1. toRemove' = [toRemove EXCEPT ![d] = x] /\ x \in Seq(Ops)
      BY <2>1, <2>2
    <3> HIDE DEF x
    <3>2. /\ toRemove' \in [Ops -> Seq(Ops)] /\ toRemove'[d] = x
          /\ \A e \in Ops \ {d} : toRemove'[e] = toRemove[e]
      BY <1>0, <3>1
    <3>3. QED BY <3>2 DEF x
  <2>8. {"done", "deleting"} \subseteq Deployments!OpStates /\ "deleting" \in Deployments!InProgress
    BY DEF Deployments!OpStates, Deployments!InProgress
  <2>9. CASE op' = [op EXCEPT ![d] = "done"] /\ lastGood' = d /\ record' = "clean"
    <3>1. VersionsOK(versions', op')
      BY <2>1, <2>6, <2>9
    <3>2. Stage(d, "done", v, traffic, fit, prev[d], Tail(w), d, "clean")
      BY DEF Stage
    <3>3. Stage(d, "deleting", v, traffic, fit, prev[d], Tail(w), lastGood, record)
            => Settled(v, traffic, fit, d, "clean")
      BY <1>17
    <3>4. QED BY <1>0, <1>5, <1>8, <2>1, <2>5, <2>7, <2>8, <2>9, <3>1, <3>2, <3>3
  <2>10. CASE Len(w) # 1 /\ op' = op /\ lastGood' = lastGood /\ record' = record
    <3>1. op' = [op EXCEPT ![d] = "deleting"]
      BY <1>0, <2>1, <2>10
    <3>2. VersionsOK(versions', op')
      BY <2>1, <2>6, <3>1
    <3>3. Tail(w) # << >>
      <4>1. Len(Tail(w)) # 0
        BY <2>2, <2>10
      <4>2. QED BY <2>2, <4>1, EmptySeq
    <3>4. QED BY <1>0, <1>5, <1>8, <2>1, <2>5, <2>7, <2>8, <2>10, <3>1, <3>2, <3>3
  <2>11. QED BY <2>1, <2>9, <2>10
<1>20. QED
  BY <1>1, <1>6, <1>7, <1>10, <1>11, <1>12, <1>14, <1>15, <1>16, <1>18, <1>19
     DEF Deployments!Next, Deployments!AtomicDeploy

(* What a step of the process is to the deployments.                       *)
LEMMA PartsStepOfDeployments == [PartsNext]_allVars => [Deployments!Next]_deployVars
BY DEF PartsNext, allVars, PipelineStep, ExecutorStep, GeminiStep, DeployStep

(* The invariant of the deployments holds in every state of the process.   *)
LEMMA DeployInvariant == PartsSpec => []DeployInv
<1>1. PartsInit => DeployInv
  BY DeployInit DEF PartsInit
<1>2. DeployInv /\ [PartsNext]_allVars => DeployInv'
  BY DeployStepKeeps, PartsStepOfDeployments
<1>3. QED BY <1>1, <1>2, PTL DEF PartsSpec

(* MCOpenClaw's ServesGood for any number of operations and of versions    *)
(* retained: as long as operations do not overlap, what serves is never    *)
(* deleted, and after a success, or a success and one deployment rolled    *)
(* back, the deployment that succeeded serves and is fit.                  *)
THEOREM SuccessKeepsServing == PartsSpec => []ServesGood
<1>1. DeployInv => ServesGood
  <2> SUFFICES ASSUME DeployInv, ~ concurrent
               PROVE  /\ traffic \in Deployments!Retained \cup {NoTag}
                      /\ Deployments!Idle /\ record \in {"clean", "restored"}
                           => traffic = lastGood /\ lastGood \in fit
    BY Zenon DEF ServesGood, Deployments!ServesGood
  <2>1. concurrent = FALSE
    BY Zenon DEF DeployInv, DeployOK, DeployTyped
  <2>2. /\ AloneOK(versions, traffic, fit, op, prev, toRemove, lastGood, record)
        /\ versions \in Seq(Ops)
    BY <2>1 DEF DeployInv, DeployOK, DeployTyped, VersionsOK
  <2>3. traffic \in Deployments!Retained \cup {NoTag}
    <3>1. DOMAIN versions = 1 .. Len(versions)
      BY <2>2, LenProperties
    <3>2. QED BY <2>2, <3>1 DEF AloneOK, Listed, Deployments!Retained, Deployments!Range
  <2>4. ASSUME Deployments!Idle, record \in {"clean", "restored"}
        PROVE  traffic = lastGood /\ lastGood \in fit
    BY <2>2, <2>4 DEF AloneOK, Settled, Deployments!Idle
  <2>5. QED BY <2>3, <2>4
<1>2. QED BY <1>1, DeployInvariant, PTL

-----------------------------------------------------------------------------
(* The types of all parts.                                                 *)

(* What a step of the process is to the consumer loops.                    *)
LEMMA PartsStepOfPipeline == [PartsNext]_allVars => [Next]_vars
BY DEF PartsNext, allVars, PipelineStep, ExecutorStep, GeminiStep, DeployStep

(* The books of the consumer loops balance in every state of the process.  *)
LEMMA PipelineInvariant == PartsSpec => []Inv
<1>1. PartsInit => Inv
  BY InitBooks DEF PartsInit
<1>2. Inv /\ [PartsNext]_allVars => Inv'
  BY NextKeepsBooks, PartsStepOfPipeline
<1>3. QED BY <1>1, <1>2, PTL DEF PartsSpec

(* MCOpenClaw's TypesOK: every variable of the consumer loops, of the      *)
(* executor, of the client of Gemini and of the deployments has its type   *)
(* whatever the constants are; the runs of an action are no more than its  *)
(* attempts, and no version is listed twice.                               *)
THEOREM PartsAreTyped == PartsSpec => []TypesOK
<1>1. Inv => TypeOK
  BY DEF Inv
<1>2. ExecutorInv => Executor!TypeOK
  BY DEF ExecutorInv, ExecutorOK, One, Places, Replies, Executor!TypeOK
<1>3. BreakerInv /\ LimiterInv => Gemini!TypeOK
  BY DEF BreakerInv, BreakerOK, LimiterInv, LimiterOK, StampsOK, LoopOK, CallersOK, CallsOK,
         Gemini!TypeOK
<1>4. DeployInv => Deployments!TypeOK
  <2> SUFFICES ASSUME DeployInv PROVE Deployments!TypeOK
    OBVIOUS
  <2>1. DeployTyped(versions, traffic, fit, op, prev, toRemove, concurrent, lastGood, record)
    BY DEF DeployInv, DeployOK
  <2>2. /\ versions \in Seq(Ops) /\ DOMAIN versions = 1 .. Len(versions)
        /\ \A i, j \in 1 .. Len(versions) : versions[i] = versions[j] => i = j
    BY <2>1, LenProperties DEF DeployTyped, VersionsOK
  <2>3. Deployments!IsInjective(versions)
    BY <2>2 DEF Deployments!IsInjective
  <2>4. QED BY <2>1, <2>2, <2>3 DEF DeployTyped, Deployments!TypeOK
<1>5. Inv /\ ExecutorInv /\ BreakerInv /\ LimiterInv /\ DeployInv => TypesOK
  BY <1>1, <1>2, <1>3, <1>4 DEF TypesOK
<1>6. QED
  BY <1>5, PipelineInvariant, ExecutorInvariant, BreakerInvariant, LimiterInvariant,
     DeployInvariant, PTL
=============================================================================
