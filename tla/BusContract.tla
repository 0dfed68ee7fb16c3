----------------------------- MODULE BusContract -----------------------------
(***************************************************************************)
(* What a user of the message bus may rely on, whatever Redis, the access  *)
(* matrix and the consumers do: a bounded waiting line in front of         *)
(* append-only logs, the line leaves in order and a message leaves it only *)
(* by being logged, and each log entry is claimed by one reader and        *)
(* returned at most once.  It promises neither that a claimed entry is     *)
(* returned nor that an entry is logged once.                              *)
(***************************************************************************)
EXTENDS Naturals, Sequences

CONSTANTS Agents, Msgs, Dest, Junk, Capacity

VARIABLES
  line,      \* messages waiting to be logged
  log,       \* [Agents -> Seq(Msgs \cup {Junk})]
  claimed,   \* [Agents -> Nat], entries up to here were offered to readers
  returned   \* [Agents -> SUBSET Nat], entries readers' callers received

cvars == <<line, log, claimed, returned>>

Init ==
  /\ line = << >>
  /\ log = [a \in Agents |-> << >>]
  /\ claimed = [a \in Agents |-> 0]
  /\ returned = [a \in Agents |-> {}]

Write(a, e) == log' = [log EXCEPT ![a] = Append(@, e)]

Wait(m) ==
  /\ Len(line) < Capacity
  /\ line' = Append(line, m)
  /\ UNCHANGED <<log, claimed, returned>>

\* a message that never waited, or another service's entry
Post(a, e) ==
  /\ e \in Msgs => a = Dest[e]
  /\ Write(a, e)
  /\ UNCHANGED <<line, claimed, returned>>

Leave ==
  /\ line # << >>
  /\ Write(Dest[Head(line)], Head(line))
  /\ line' = Tail(line)
  /\ UNCHANGED <<claimed, returned>>

\* a crash of the publisher
Forget ==
  /\ line' = << >>
  /\ UNCHANGED <<log, claimed, returned>>

Claim(a) ==
  /\ \E n \in claimed[a] .. Len(log[a]) :
       claimed' = [claimed EXCEPT ![a] = n]
  /\ UNCHANGED <<line, log, returned>>

\* one reader's call returns entries offered before, none of them again
Return(a) ==
  /\ \E R \in SUBSET (1 .. claimed[a]) :
       /\ \A i \in R : log[a][i] # Junk
       /\ R \cap returned[a] = {}
       /\ returned' = [returned EXCEPT ![a] = @ \cup R]
  /\ UNCHANGED <<line, log, claimed>>

Next ==
  \/ \E m \in Msgs : Wait(m)
  \/ \E a \in Agents, e \in Msgs \cup {Junk} : Post(a, e)
  \/ Leave
  \/ Forget
  \/ \E a \in Agents : Claim(a) \/ Return(a)

Spec == Init /\ [][Next]_cvars
=============================================================================
