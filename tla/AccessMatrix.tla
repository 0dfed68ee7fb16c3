---------------------------- MODULE AccessMatrix ----------------------------
(***************************************************************************)
(* The access control matrix, a list of rules, as both crates hold it      *)
(* (ironclaw/src/access_control.rs, calango-vallum/src/access_control.rs). *)
(* A pair is a source and a destination.  from_rules and the storage take  *)
(* any list, also one with several rules of a pair.                        *)
(***************************************************************************)
EXTENDS Naturals, Sequences, SequencesExt, FiniteSetsExt, Vectors

CONSTANT Pairs

\* AccessRule
Rule == [pair: Pairs, allowed: BOOLEAN]
NewRule(p, b) == [pair |-> p, allowed |-> b]

RulesOf(rules, p) == {i \in DOMAIN rules : rules[i].pair = p}

\* is_allowed: the first rule of the pair decides, and without one it is denied
IsAllowed(rules, p) ==
  RulesOf(rules, p) # {} /\ rules[Min(RulesOf(rules, p))].allowed

\* remove_rule
RemoveRule(rules, p) == Retain(rules, DOMAIN rules \ RulesOf(rules, p))

\* mutant: the rules there are stay in front
PushRule(rules, p, b) == Append(rules, NewRule(p, b))

\* add_rule: replaces what there is for the pair
AddRule(rules, p, b) == Append(RemoveRule(rules, p), NewRule(p, b))
=============================================================================
