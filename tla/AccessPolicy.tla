---------------------------- MODULE AccessPolicy ----------------------------
(***************************************************************************)
(* What access control promises: a policy is the set of pairs that may     *)
(* communicate.  An update decides about the pairs it names and no other,  *)
(* a reload puts the policy that was saved in the place of the one in use, *)
(* and a message is decided by the policy in use when it is validated.     *)
(***************************************************************************)
CONSTANTS Pairs, Reloads

VARIABLES
  policy,       \* SUBSET Pairs, in use
  saved,        \* SUBSET Pairs, in the storage
  loaded,       \* [Reloads -> set of at most one policy], loaded, not yet in use
  last          \* <<"decided" or "set", pair, BOOLEAN>>, the last answer or
                \* update; << >> before it

vars == <<policy, saved, loaded, last>>

Init ==
  /\ policy \subseteq Pairs /\ saved \subseteq Pairs
  /\ loaded = [r \in Reloads |-> {}] /\ last = << >>

Decide(p) ==
  last' = <<"decided", p, p \in policy>> /\ UNCHANGED <<policy, saved, loaded>>

Set(p, allow) ==
  /\ policy' = IF allow THEN policy \cup {p} ELSE policy \ {p}
  /\ last' = <<"set", p, allow>>
  /\ UNCHANGED <<saved, loaded>>

Save == saved' \in SUBSET Pairs /\ UNCHANGED <<policy, loaded, last>>

Load(r) ==
  /\ loaded[r] = {} /\ loaded' = [loaded EXCEPT ![r] = {saved}]
  /\ UNCHANGED <<policy, saved, last>>

Use(r) ==
  /\ loaded[r] = {policy'} /\ loaded' = [loaded EXCEPT ![r] = {}]
  /\ UNCHANGED <<saved, last>>

Next ==
  \/ \E p \in Pairs : Decide(p) \/ \E allow \in BOOLEAN : Set(p, allow)
  \/ Save \/ \E r \in Reloads : Load(r) \/ Use(r)

Spec == Init /\ [][Next]_vars
=============================================================================
