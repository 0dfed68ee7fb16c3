------------------------------- MODULE Healer -------------------------------
(***************************************************************************)
(* The HEALER agent's attempt tracker (calango-vallum/src/healer.rs).  A   *)
(* recorded attempt is its age, which the module that uses the tracker     *)
(* advances with its clock; ages of Window and more are alike.             *)
(***************************************************************************)
EXTENDS Naturals, Sequences, SequencesExt, Vectors

CONSTANTS
  MaxAttempts,  \* max_attempts_per_hour
  Window        \* RATE_LIMIT_WINDOW_SECS

HealerAssumption == MaxAttempts \in Nat \ {0} /\ Window \in Nat \ {0}

InWindow(age) == age < Window
InTime(ages) == {i \in DOMAIN ages : InWindow(ages[i])}
Recent(ages) == Cardinality(InTime(ages))
Older(ages) == [i \in DOMAIN ages |-> IF InWindow(ages[i]) THEN ages[i] + 1 ELSE Window]

\* mutant: off by one
CanAttemptOnce(ages) == Recent(ages) <= MaxAttempts

\* can_attempt
CanAttempt(ages) == Recent(ages) < MaxAttempts

\* retain: the attempts within the window
Pruned(ages) == Retain(ages, InTime(ages))

\* record_attempt: push, then prune
RecordAttempt(ages) == Pruned(Append(ages, 0))
=============================================================================
