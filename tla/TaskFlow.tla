------------------------------ MODULE TaskFlow ------------------------------
(***************************************************************************)
(* The request path of the whole system, with one process of each kind:    *)
(* IronClaw's gateway publishes a request on tasks:router with the bus     *)
(* client (main.rs, MessageBusAdapter), PicoClaw routes it to the stream   *)
(* of an agent type (router.go), and OpenClaw consumes tasks:action and    *)
(* tasks:gemini and writes a response (pipeline.ts).                       *)
(*                                                                         *)
(* What the modules of the parts say in detail is one step here: a stream  *)
(* is the sequence of its entries not yet read, a read takes one entry,    *)
(* and handling it covers everything up to its acknowledgement.  Processes *)
(* do not crash here; Redis may go away, and may add an entry whose reply  *)
(* is lost, a bounded number of times.                                     *)
(***************************************************************************)
EXTENDS Naturals, Sequences

CONSTANTS
  Tasks,
  ViaGateway,   \* the tasks submitted to the gateway
  Destination,  \* [Tasks -> Streams \cup {NoDest}], destination of the others
  Classified,   \* [Tasks -> SUBSET Intents], the intents a task may get
  Intents,
  FallbackMap,  \* [Intents -> Streams]
  Streams,      \* agent types, each with a stream tasks:<type>
  Router,       \* PicoClaw's own type, the destination the gateway writes
  Action,       \* the stream of OpenClaw's action consumer
  Gemini,       \* the stream of its Gemini consumer
  Workers,      \* the streams OpenClaw consumes
  Tools,        \* names in the tool registry
  NoDest,
  None,
  MaxRetries,   \* times PicoClaw's Redis client sends a command again
  MaxOutages,   \* bound: times Redis goes away or a reply is lost
  MaxWraps      \* bound: encodings of a payload that are told apart

FlowAssumption ==
  /\ ViaGateway \subseteq Tasks
  /\ Destination \in [Tasks -> Streams \cup {NoDest}]
  /\ Classified \in [Tasks -> (SUBSET Intents) \ {{}}]
  /\ FallbackMap \in [Intents -> Streams]
  /\ Router \in Streams \ Workers
  /\ {Action, Gemini} \subseteq Workers /\ Workers \subseteq Streams
  /\ NoDest \notin Streams /\ None \notin Tasks
  /\ MaxRetries \in Nat /\ MaxOutages \in Nat /\ MaxWraps \in Nat \ {0}

VARIABLES
  redisUp,
  outages,
  outcome,   \* [Tasks -> Outcomes], what became of the call that submits it
  parked,    \* IronClaw's local queue
  unread,    \* [Streams -> Seq(Tasks)]
  held,      \* [Consumers -> Tasks \cup {None}]
  response,  \* [Tasks -> {"none", "success", "failure"}]
  wraps,     \* [Tasks -> Nat], encodings around the task's own payload
  asked,     \* {<<t, n>>}, Gemini was asked t's payload under n encodings
  resent     \* history: tasks PicoClaw added without a reply

vars ==
  <<redisUp, outages, outcome, parked, unread, held, response, wraps, asked,
    resent>>

\* "doubtful" is an error to the caller too, but the entry was added
Outcomes == {"new", "accepted", "refused", "doubtful", "parked"}
Consumers == {Router} \cup Workers
DestOf(t) == IF t \in ViaGateway THEN Router ELSE Destination[t]
Elems(s) == {s[i] : i \in DOMAIN s}

Init ==
  /\ redisUp \in BOOLEAN
  /\ outages = 0
  /\ outcome = [t \in Tasks |-> "new"]
  /\ parked = << >>
  /\ unread = [s \in Streams |-> << >>]
  /\ held = [c \in Consumers |-> None]
  /\ response = [t \in Tasks |-> "none"]
  /\ wraps = [t \in Tasks |-> 0] /\ asked = {} /\ resent = {}

Answer(t, o) == outcome' = [outcome EXCEPT ![t] = o]
Put(s, t) == unread' = [unread EXCEPT ![s] = Append(@, t)]
Wrap(t) == wraps' = [wraps EXCEPT ![t] = IF @ < MaxWraps THEN @ + 1 ELSE @]

Faults(n) == outages + n <= MaxOutages /\ outages' = outages + n

\* Redis goes away in the middle of a call
Outage == redisUp /\ Faults(1) /\ redisUp' = FALSE

-----------------------------------------------------------------------------
(* A producer writes on tasks:router: the gateway's bus client, which      *)
(* writes the payload in base64, sends its XADD once, and parks a task it  *)
(* finds Redis down for, or another one.  Nothing ever calls flush_queue.  *)

Add(t) ==
  /\ redisUp
  /\ Put(Router, t)
  /\ IF t \in ViaGateway THEN Wrap(t) ELSE UNCHANGED wraps

Accept(t) ==
  /\ outcome[t] = "new" /\ Add(t)
  /\ Answer(t, "accepted")
  /\ UNCHANGED <<redisUp, outages, parked, held, response, asked, resent>>

\* the XADD failed, or was applied and its reply lost
Refuse(t) ==
  /\ outcome[t] = "new"
  /\ \/ Outage /\ Answer(t, "refused") /\ UNCHANGED <<unread, wraps>>
     \/ Add(t) /\ Faults(1) /\ redisUp' \in BOOLEAN /\ Answer(t, "doubtful")
  /\ UNCHANGED <<parked, held, response, asked, resent>>

Park(t) ==
  /\ outcome[t] = "new" /\ ~redisUp /\ t \in ViaGateway
  /\ parked' = Append(parked, t)
  /\ Answer(t, "parked")
  /\ UNCHANGED <<redisUp, outages, unread, held, response, wraps, asked, resent>>

Submit(t) == Accept(t) \/ Refuse(t) \/ Park(t)

-----------------------------------------------------------------------------
\* mutants: the youngest entry is read first, or the entry stays
TakeLast(c) ==
  /\ redisUp /\ held[c] = None /\ unread[c] # << >>
  /\ held' = [held EXCEPT ![c] = unread[c][Len(unread[c])]]
  /\ unread' = [unread EXCEPT ![c] = SubSeq(@, 1, Len(@) - 1)]
  /\ UNCHANGED <<redisUp, outages, outcome, parked, response, wraps, asked,
                 resent>>

TakeKeeps(c) ==
  /\ redisUp /\ held[c] = None /\ unread[c] # << >>
  /\ held' = [held EXCEPT ![c] = Head(unread[c])]
  /\ UNCHANGED <<redisUp, outages, outcome, parked, unread, response, wraps,
                 asked, resent>>

(* A consumer reads the next entry of its stream.                          *)
Take(c) ==
  /\ redisUp /\ held[c] = None /\ unread[c] # << >>
  /\ held' = [held EXCEPT ![c] = Head(unread[c])]
  /\ unread' = [unread EXCEPT ![c] = Tail(@)]
  /\ UNCHANGED <<redisUp, outages, outcome, parked, response, wraps, asked,
                 resent>>

Release(c) == held' = [held EXCEPT ![c] = None]

\* n entries of the task on one stream
Copies(s, t, n) ==
  unread' = [unread EXCEPT ![s] = @ \o [k \in 1 .. n |-> t]]

Routed(t) ==
  IF DestOf(t) = NoDest THEN {FallbackMap[i] : i \in Classified[t]} ELSE {DestOf(t)}

\* the XADD was sent until it was answered or given up, and added n times,
\* of which the reply was lost each time, or each time but the last
Deliver(t, n) ==
  /\ redisUp
  /\ \E s \in Routed(t) : Copies(s, t, n)
  /\ Wrap(t)
  /\ \/ Faults(n - 1) /\ UNCHANGED redisUp
     \/ Faults(n) /\ redisUp' \in BOOLEAN
  /\ resent' = IF outages' = outages THEN resent ELSE resent \cup {t}

(* PicoClaw delivers the task to its destination, or fails to, and         *)
(* acknowledges it in both cases.  What it writes is the JSON of its Task, *)
(* and JSON has the bytes of a payload in base64: one encoding more.       *)
Route ==
  /\ held[Router] # None
  /\ \/ \E n \in 1 .. MaxRetries + 1 : Deliver(held[Router], n)
     \/ Outage /\ UNCHANGED <<unread, wraps, resent>>
     \/ ~redisUp /\ UNCHANGED <<redisUp, outages, unread, wraps, resent>>
  /\ Release(Router)
  /\ UNCHANGED <<outcome, parked, response, asked>>

\* PicoClaw writes a task's destination into tool_name
Attempts(c, t) ==
  IF c = Action /\ DestOf(t) \notin Tools
  THEN {"failure"} ELSE {"success", "failure"}

\* OpenClaw takes the payload out of the JSON as it is
Ask(c, t) ==
  \/ c = Gemini /\ asked' = asked \cup {<<t, wraps[t]>>}
  \/ UNCHANGED asked

(* OpenClaw runs the tool or asks Gemini, unless its limits or the circuit *)
(* forbid it, and writes the response, unless Redis is away.               *)
Work(c) ==
  /\ held[c] # None
  /\ Ask(c, held[c])
  /\ \/ /\ redisUp
        /\ \E r \in Attempts(c, held[c]) :
             response' = [response EXCEPT ![held[c]] = r]
        /\ UNCHANGED <<redisUp, outages>>
     \/ Outage /\ UNCHANGED response
     \/ ~redisUp /\ UNCHANGED <<redisUp, outages, response>>
  /\ Release(c)
  /\ UNCHANGED <<outcome, parked, unread, wraps, resent>>

RedisDown ==
  /\ Outage
  /\ UNCHANGED <<outcome, parked, unread, held, response, wraps, asked, resent>>

RedisBack ==
  /\ ~redisUp
  /\ redisUp' = TRUE
  /\ UNCHANGED <<outages, outcome, parked, unread, held, response, wraps, asked,
                 resent>>

Next ==
  \/ \E t \in Tasks : Submit(t)
  \/ \E c \in Consumers : Take(c)
  \/ Route
  \/ \E c \in Workers : Work(c)
  \/ RedisDown \/ RedisBack

Spec == Init /\ [][Next]_vars

\* every consumer loop runs, and an outage ends
FairSpec ==
  /\ Spec
  /\ \A c \in Consumers : WF_vars(Take(c))
  /\ WF_vars(Route)
  /\ \A c \in Workers : WF_vars(Work(c))
  /\ WF_vars(RedisBack)

-----------------------------------------------------------------------------
(* Every variable has its type.                                            *)
TypeOK ==
  /\ redisUp \in BOOLEAN /\ outages \in 0 .. MaxOutages
  /\ outcome \in [Tasks -> Outcomes]
  /\ parked \in Seq(ViaGateway)
  /\ unread \in [Streams -> Seq(Tasks)]
  /\ held \in [Consumers -> Tasks \cup {None}]
  /\ response \in [Tasks -> {"none", "success", "failure"}]
  /\ wraps \in [Tasks -> 0 .. MaxWraps]
  /\ asked \subseteq Tasks \X (0 .. MaxWraps)
  /\ resent \subseteq Tasks

At(s, t) == {<<s, i>> : i \in {j \in DOMAIN unread[s] : unread[s][j] = t}}
Places(t) == (UNION {At(s, t) : s \in Streams}) \cup
             {<<c, 0>> : c \in {d \in Consumers : held[d] = t}}

(* Only a task that was added travels, whatever its sender was told.  It   *)
(* is in one place at a time, and not answered while it travels, unless a  *)
(* reply to PicoClaw was lost and its client sent the entry again.  While  *)
(* nothing failed an accepted task is in exactly one place or answered.    *)
OnePlace ==
  TypeOK /\ \A t \in Tasks :
    /\ Places(t) # {} => outcome[t] \in {"accepted", "doubtful"}
    /\ t \in resent \/ \A p, q \in Places(t) : p = q
    /\ Places(t) # {} => t \in resent \/ response[t] = "none"
    /\ outages = 0 =>
         /\ outcome[t] # "doubtful" /\ t \notin resent
         /\ outcome[t] = "accepted" => Places(t) # {} \/ response[t] # "none"

(* A task without a destination that is classified for a consumed stream   *)
(* is answered once Redis stays up, however many requests of the gateway   *)
(* go round in tasks:router.                                               *)
UndirectedIsAnswered ==
  \A t \in Tasks :
    (DestOf(t) = NoDest /\ \A i \in Classified[t] : FallbackMap[i] \in Workers)
    => (t \in Elems(unread[Router]) /\ [](redisUp)) ~> response[t] # "none"

-----------------------------------------------------------------------------
(* "request -> auth -> publish(tasks:router) -> PicoClaw classify -> route *)
(* -> execute -> respond": a request the gateway accepted is answered, at  *)
(* least when Redis never fails.                                           *)
GatewayIsAnswered ==
  \A t \in ViaGateway :
    (outcome[t] = "accepted" /\ [](redisUp)) ~> response[t] # "none"

(* pipeline.ts: "Parse the payload to extract the user message": what      *)
(* Gemini is asked is the payload the task was sent with, not an encoding. *)
GeminiIsAskedTheMessage == \A a \in asked : a[2] = 0

=============================================================================
