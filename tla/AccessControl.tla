---------------------------- MODULE AccessControl ----------------------------
(***************************************************************************)
(* Vallum's AccessControlValidator (calango-vallum/src/access_control.rs): *)
(* one matrix behind a lock, read by every validation and changed by the   *)
(* dashboard while the program runs, and the storage it is reloaded from.  *)
(* A denial reported to the CHAIN is the pipeline's part of it.            *)
(***************************************************************************)
EXTENDS AccessMatrix

CONSTANTS
  Lists,        \* lists of rules given from outside: from_rules, the storage
  Reloads       \* calls of reload_from_storage at once

AccessAssumption == Lists \subseteq Seq(Rule)

VARIABLES
  matrix,       \* Seq(Rule), the validator's
  storage,      \* Seq(Rule), what load_matrix returns
  inFlight,     \* [Reloads -> Seq of at most one matrix], loaded, not yet in use
  reported,     \* SUBSET Pairs, denials in the CHAIN
  last          \* <<"decided" or "set", pair, BOOLEAN>>, the last validation or
                \* update; history, never read by the code

vars == <<matrix, storage, inFlight, reported, last>>

\* update_rule: the first rule of the pair, or a new one
UpdateRule(rules, p, b) ==
  IF RulesOf(rules, p) = {} THEN Append(rules, NewRule(p, b))
  ELSE [rules EXCEPT ![Min(RulesOf(rules, p))].allowed = b]

Init ==
  /\ matrix \in Lists /\ storage \in Lists
  /\ inFlight = [r \in Reloads |-> << >>] /\ reported = {} /\ last = << >>

\* validate_message, under the read lock
ValidateMessage(p) == last' = <<"decided", p, IsAllowed(matrix, p)>>

\* validate_message_for_delivery: a denial goes to the CHAIN, if it can
Validate(p) ==
  /\ ValidateMessage(p)
  /\ \/ reported' = IF IsAllowed(matrix, p) THEN reported ELSE reported \cup {p}
     \/ UNCHANGED reported
  /\ UNCHANGED <<matrix, storage, inFlight>>

\* the dashboard adds, removes or updates a rule, under the write lock
Writes(p, b) == last' = <<"set", p, b>> /\ UNCHANGED <<storage, inFlight, reported>>

Add(p, b)    == matrix' = AddRule(matrix, p, b) /\ Writes(p, b)
Delete(p)    == matrix' = RemoveRule(matrix, p) /\ Writes(p, FALSE)
Update(p, b) == matrix' = UpdateRule(matrix, p, b) /\ Writes(p, b)

\* the dashboard saves a matrix
Save(m) ==
  storage' = m /\ UNCHANGED <<matrix, inFlight, reported, last>>

\* reload_from_storage: load_matrix, which may fail and then changes nothing
Load(r) ==
  /\ inFlight[r] = << >>
  /\ inFlight' = [inFlight EXCEPT ![r] = <<storage>>]
  /\ UNCHANGED <<matrix, storage, reported, last>>

\* and update_matrix, with what was loaded, whatever changed in between
UpdateMatrix(r) ==
  /\ inFlight[r] # << >>
  /\ matrix' = inFlight[r][1]
  /\ inFlight' = [inFlight EXCEPT ![r] = << >>]
  /\ UNCHANGED <<storage, reported, last>>

Next ==
  \/ \E p \in Pairs :
       Validate(p) \/ Delete(p) \/ \E b \in BOOLEAN : Add(p, b) \/ Update(p, b)
  \/ \E m \in Lists : Save(m)
  \/ \E r \in Reloads : Load(r) \/ UpdateMatrix(r)

Spec == Init /\ [][Next]_vars

-----------------------------------------------------------------------------
(* Every variable has its type.                                            *)
TypeOK ==
  /\ matrix \in Seq(Rule) /\ storage \in Seq(Rule)
  /\ inFlight \in [Reloads -> Seq(Seq(Rule))] /\ \A r \in Reloads : Len(inFlight[r]) <= 1
  /\ reported \subseteq Pairs
  /\ last \in {"decided", "set"} \X Pairs \X BOOLEAN \cup {<< >>}

(* Lists of rules, in which a pair may occur again, behave as a policy:    *)
(* what each operation does to the list is what it promises for the pair.  *)
PolicyOf(rules) == {p \in Pairs : IsAllowed(rules, p)}
Policy == INSTANCE AccessPolicy WITH
  policy <- PolicyOf(matrix), saved <- PolicyOf(storage),
  loaded <- [r \in Reloads |-> {PolicyOf(m) : m \in Range(inFlight[r])}]
ImplementsPolicy == Policy!Spec
=============================================================================
