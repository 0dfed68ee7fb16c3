---------------------------- MODULE VallumProofs ----------------------------
(***************************************************************************)
(* Proofs about the components of Vallum, which MCVallum puts beside one   *)
(* another: the access control matrix, the security pipeline and the hash  *)
(* chain.  Each has an inductive invariant of its own; a step of another   *)
(* component leaves its variables alone.  The process itself has its       *)
(* proofs in VallumProcessProofs.                                          *)
(***************************************************************************)
EXTENDS MCVallum, VallumProcessProofs

-----------------------------------------------------------------------------
(* Vec::retain in the instances.                                           *)

\* the instances use the operator of the same name
LEMMA SameRetain ==
  /\ \A s, I : Access!Retain(s, I) = Retain(s, I)
  /\ \A s, I : Pipeline!Retain(s, I) = Retain(s, I)
<1>1. \A s, I : Access!Retain(s, I) = Retain(s, I)
  BY Zenon DEF Access!Retain, Retain, Access!Cardinality, Cardinality
<1>2. \A s, I : Pipeline!Retain(s, I) = Retain(s, I)
  BY Zenon DEF Pipeline!Retain, Retain, Pipeline!Cardinality, Cardinality
<1>3. QED BY <1>1, <1>2
-----------------------------------------------------------------------------
(* The access control matrix.  Between two rules of a pair the first one   *)
(* decides; Decides(rules, p, i) says that this is the i-th of the list.   *)

Decides(rules, p, i) ==
  /\ i \in DOMAIN rules /\ rules[i].pair = p
  /\ \A j \in DOMAIN rules : j < i => rules[j].pair # p

\* a pair with a rule has one that decides, and this is what is_allowed reads
LEMMA FirstDecides ==
  ASSUME NEW rules \in Seq(Access!Rule), NEW p \in Pairs
  PROVE  /\ Access!RulesOf(rules, p) = {} =>
              (\A i : ~ Decides(rules, p, i)) /\ ~ Access!IsAllowed(rules, p)
         /\ Access!RulesOf(rules, p) # {} => \E i : Decides(rules, p, i)
         /\ \A i : Decides(rules, p, i) =>
              /\ Access!Min(Access!RulesOf(rules, p)) = i
              /\ Access!IsAllowed(rules, p) <=> rules[i].allowed = TRUE
<1> DEFINE R == Access!RulesOf(rules, p)
<1>1. /\ Len(rules) \in Nat /\ DOMAIN rules = 1 .. Len(rules)
      /\ \A i \in DOMAIN rules : rules[i] \in Access!Rule
  BY LenProperties, ElementOfSeq
<1>2. R \in SUBSET Nat /\ \A i : i \in R <=> i \in DOMAIN rules /\ rules[i].pair = p
  BY <1>1 DEF Access!RulesOf
<1>3. Access!IsAllowed(rules, p) <=> R # {} /\ rules[Access!Min(R)].allowed = TRUE
  <2>1. CASE R = {}
    BY <2>1 DEF Access!IsAllowed
  <2>2. CASE R # {}
    <3>1. PICK i \in R : \A j \in R : i <= j
      BY <1>2, <2>2, LeastOf
    <3>2. Access!Min(R) \in R
      BY <3>1 DEF Access!Min
    <3>3. rules[Access!Min(R)].allowed \in BOOLEAN
      BY <1>1, <1>2, <3>2 DEF Access!Rule
    <3>4. rules[Access!Min(R)].allowed <=> rules[Access!Min(R)].allowed = TRUE
      BY <3>3
    <3>5. QED BY Zenon, <2>2, <3>4 DEF Access!IsAllowed
  <2>3. QED BY <2>1, <2>2
<1> HIDE DEF R
<1>4. R = {} => (\A i : ~ Decides(rules, p, i)) /\ ~ Access!IsAllowed(rules, p)
  BY <1>2, <1>3 DEF Decides
<1>5. R # {} => \E i : Decides(rules, p, i)
  <2> SUFFICES ASSUME R # {} PROVE \E i : Decides(rules, p, i)
    OBVIOUS
  <2>1. PICK i \in R : \A j \in R : i <= j
    BY <1>2, LeastOf
  <2>2. \A j \in DOMAIN rules : j < i => rules[j].pair # p
    BY <1>1, <1>2, <2>1
  <2>3. QED BY <1>2, <2>1, <2>2 DEF Decides
<1>6. ASSUME NEW i, Decides(rules, p, i)
      PROVE  Access!Min(R) = i /\ (Access!IsAllowed(rules, p) <=> rules[i].allowed = TRUE)
  <2>1. i \in R /\ \A j \in R : i <= j
    BY <1>1, <1>2, <1>6 DEF Decides
  <2>2. \A m \in R : (\A j \in R : m <= j) => m = i
    BY <1>2, <2>1
  <2>3. Access!Min(R) = i
    BY <2>1, <2>2 DEF Access!Min
  <2>4. QED BY Zenon, <1>3, <2>1, <2>3
<1>7. QED BY <1>4, <1>5, <1>6 DEF R

\* two lists whose deciding rules of a pair agree allow it alike
LEMMA AllowedAlike ==
  ASSUME NEW r \in Seq(Access!Rule), NEW s \in Seq(Access!Rule), NEW q \in Pairs,
         \A i : Decides(r, q, i) => \E k : Decides(s, q, k) /\ s[k] = r[i],
         (\A i : ~ Decides(r, q, i)) => \A k : ~ Decides(s, q, k)
  PROVE  Access!IsAllowed(s, q) <=> Access!IsAllowed(r, q)
<1>1. CASE Access!RulesOf(r, q) = {}
  <2>1. \A k : ~ Decides(s, q, k)
    BY <1>1, FirstDecides
  <2>2. Access!RulesOf(s, q) = {}
    BY <2>1, FirstDecides
  <2>3. QED BY Zenon, <1>1, <2>2, FirstDecides
<1>2. CASE Access!RulesOf(r, q) # {}
  <2>1. PICK i : Decides(r, q, i)
    BY Zenon, <1>2, FirstDecides
  <2>2. PICK k : Decides(s, q, k) /\ s[k] = r[i]
    BY <2>1
  <2>3. Access!IsAllowed(r, q) <=> r[i].allowed = TRUE
    BY Zenon, <2>1, FirstDecides
  <2>4. Access!IsAllowed(s, q) <=> s[k].allowed = TRUE
    BY Zenon, <2>2, FirstDecides
  <2>5. QED BY Zenon, <2>2, <2>3, <2>4
<1>3. QED BY <1>1, <1>2

\* remove_rule denies the pair and decides about no other
LEMMA RemoveDecides ==
  ASSUME NEW rules \in Seq(Access!Rule), NEW p \in Pairs, NEW q \in Pairs
  PROVE  /\ Access!RemoveRule(rules, p) \in Seq(Access!Rule)
         /\ Access!RulesOf(Access!RemoveRule(rules, p), p) = {}
         /\ Access!IsAllowed(Access!RemoveRule(rules, p), q)
              <=> q # p /\ Access!IsAllowed(rules, q)
<1> DEFINE I == DOMAIN rules \ Access!RulesOf(rules, p)
           r == Access!RemoveRule(rules, p)
           n == Cardinality(I)
<1>1. /\ Len(rules) \in Nat /\ DOMAIN rules = 1 .. Len(rules)
      /\ \A i \in DOMAIN rules : rules[i] \in Access!Rule
  BY LenProperties, ElementOfSeq
<1>2. \A i : i \in I <=> i \in DOMAIN rules /\ rules[i].pair # p
  BY DEF Access!RulesOf
<1>3. r = Retain(rules, I)
  BY Zenon, SameRetain DEF Access!RemoveRule
<1>4. I \in SUBSET (1 .. Len(rules))
  BY <1>1
<1> HIDE DEF I, r
<1>5. PICK h : /\ Picks(h, I) /\ n \in Nat
               /\ r \in Seq(Access!Rule) /\ Len(r) = n
               /\ \A k \in 1 .. n : r[k] = rules[h[k]]
  BY <1>3, <1>4, RetainProperties
<1> HIDE DEF n
<1>6. DOMAIN r = 1 .. n /\ \A k \in DOMAIN r : h[k] \in I /\ r[k] = rules[h[k]]
  BY <1>5, LenProperties DEF Picks, n
<1>7. Access!RulesOf(r, p) = {}
  BY <1>2, <1>6 DEF Access!RulesOf
<1>8. CASE q = p
  <2>1. ~ Access!IsAllowed(r, q)
    BY <1>5, <1>7, <1>8, FirstDecides
  <2>2. QED BY <1>5, <1>7, <1>8, <2>1 DEF r
<1>9. CASE q # p
  <2>1. ASSUME NEW i, Decides(rules, q, i)
        PROVE  \E k : Decides(r, q, k) /\ r[k] = rules[i]
    <3>1. i \in I /\ i \in DOMAIN rules /\ rules[i].pair = q
      BY <1>2, <1>9, <2>1 DEF Decides
    <3>2. PICK k \in 1 .. n : h[k] = i
      BY <3>1, <1>5 DEF Picks, n
    <3>3. r[k] = rules[i]
      BY <1>6, <3>2
    <3>4. ASSUME NEW m \in DOMAIN r, m < k PROVE r[m].pair # q
      <4>1. h[m] < i
        BY <1>5, <1>6, <3>2, <3>4 DEF Picks, n
      <4>2. h[m] \in DOMAIN rules /\ r[m] = rules[h[m]]
        BY <1>2, <1>6
      <4>3. QED BY <2>1, <4>1, <4>2 DEF Decides
    <3>5. QED BY <1>6, <3>1, <3>2, <3>3, <3>4 DEF Decides
  <2>2. ASSUME \A i : ~ Decides(rules, q, i) PROVE \A k : ~ Decides(r, q, k)
    <3>1. Access!RulesOf(rules, q) = {}
      BY <2>2, FirstDecides
    <3>2. \A i \in DOMAIN rules : rules[i].pair # q
      BY <3>1 DEF Access!RulesOf
    <3>3. \A k \in DOMAIN r : r[k].pair # q
      BY <1>2, <1>6, <3>2
    <3>4. QED BY <3>3 DEF Decides
  <2>3. Access!IsAllowed(r, q) <=> Access!IsAllowed(rules, q)
    BY <1>5, <2>1, <2>2, AllowedAlike
  <2>4. QED BY <1>5, <1>7, <1>9, <2>3 DEF r
<1>10. QED BY <1>8, <1>9

\* a rule pushed behind the others decides about its pair if none of them does
LEMMA PushDecides ==
  ASSUME NEW rules \in Seq(Access!Rule), NEW p \in Pairs, NEW b \in BOOLEAN,
         NEW q \in Pairs, Access!RulesOf(rules, p) = {}
  PROVE  /\ Append(rules, Access!NewRule(p, b)) \in Seq(Access!Rule)
         /\ Access!IsAllowed(Append(rules, Access!NewRule(p, b)), q)
              <=> IF q = p THEN b = TRUE ELSE Access!IsAllowed(rules, q)
<1> DEFINE e == Access!NewRule(p, b)
           r == Append(rules, e)
           n == Len(rules)
<1>1. e \in Access!Rule /\ e.pair = p /\ e.allowed = b
  BY DEF Access!Rule, Access!NewRule
<1> HIDE DEF e
<1>2. /\ n \in Nat /\ DOMAIN rules = 1 .. n /\ \A i \in 1 .. n : rules[i] \in Access!Rule
      /\ r \in Seq(Access!Rule) /\ DOMAIN r = 1 .. n + 1
      /\ r[n + 1] = e /\ \A i \in 1 .. n : r[i] = rules[i]
  BY <1>1, LenProperties, ElementOfSeq, AppendProperties
<1> HIDE DEF r, n
<1>3. \A i \in 1 .. n : rules[i].pair # p
  BY <1>2 DEF Access!RulesOf
<1>4. CASE q = p
  <2>1. Decides(r, q, n + 1)
    BY <1>1, <1>2, <1>3, <1>4 DEF Decides
  <2>2. Access!IsAllowed(r, q) <=> e.allowed = TRUE
    BY Zenon, <1>2, <2>1, FirstDecides
  <2>3. QED BY Zenon, <1>1, <1>2, <1>4, <2>2 DEF r, e
<1>5. CASE q # p
  <2>1. ASSUME NEW i, Decides(rules, q, i)
        PROVE  \E k : Decides(r, q, k) /\ r[k] = rules[i]
    BY <1>2, <2>1 DEF Decides
  <2>2. ASSUME \A i : ~ Decides(rules, q, i) PROVE \A k : ~ Decides(r, q, k)
    <3>1. Access!RulesOf(rules, q) = {}
      BY <2>2, FirstDecides
    <3>2. \A i \in 1 .. n : rules[i].pair # q
      BY <1>2, <3>1 DEF Access!RulesOf
    <3>3. \A k \in DOMAIN r : r[k].pair # q
      BY <1>1, <1>2, <1>5, <3>2
    <3>4. QED BY <3>3 DEF Decides
  <2>3. Access!IsAllowed(r, q) <=> Access!IsAllowed(rules, q)
    BY <1>2, <2>1, <2>2, AllowedAlike
  <2>4. QED BY Zenon, <1>2, <1>5, <2>3 DEF r, e
<1>6. QED BY <1>4, <1>5

\* add_rule decides about its pair and no other
LEMMA AddDecides ==
  ASSUME NEW rules \in Seq(Access!Rule), NEW p \in Pairs, NEW b \in BOOLEAN,
         NEW q \in Pairs
  PROVE  /\ Access!AddRule(rules, p, b) \in Seq(Access!Rule)
         /\ Access!IsAllowed(Access!AddRule(rules, p, b), q)
              <=> IF q = p THEN b = TRUE ELSE Access!IsAllowed(rules, q)
<1> DEFINE r == Access!RemoveRule(rules, p)
<1>1. /\ r \in Seq(Access!Rule) /\ Access!RulesOf(r, p) = {}
      /\ Access!IsAllowed(r, q) <=> q # p /\ Access!IsAllowed(rules, q)
  BY Zenon, RemoveDecides
<1>2. Access!AddRule(rules, p, b) = Append(r, Access!NewRule(p, b))
  BY DEF Access!AddRule
<1> HIDE DEF r
<1>3. /\ Append(r, Access!NewRule(p, b)) \in Seq(Access!Rule)
      /\ Access!IsAllowed(Append(r, Access!NewRule(p, b)), q)
              <=> IF q = p THEN b = TRUE ELSE Access!IsAllowed(r, q)
  BY Zenon, <1>1, PushDecides
<1>4. QED BY Zenon, <1>1, <1>2, <1>3

\* update_rule: rewriting the deciding rule decides about its pair only
LEMMA UpdateDecides ==
  ASSUME NEW rules \in Seq(Access!Rule), NEW p \in Pairs, NEW b \in BOOLEAN,
         NEW q \in Pairs
  PROVE  /\ Access!UpdateRule(rules, p, b) \in Seq(Access!Rule)
         /\ Access!IsAllowed(Access!UpdateRule(rules, p, b), q)
              <=> IF q = p THEN b = TRUE ELSE Access!IsAllowed(rules, q)
<1>1. CASE Access!RulesOf(rules, p) = {}
  <2>1. Access!UpdateRule(rules, p, b) = Append(rules, Access!NewRule(p, b))
    BY <1>1 DEF Access!UpdateRule
  <2>2. /\ Append(rules, Access!NewRule(p, b)) \in Seq(Access!Rule)
        /\ Access!IsAllowed(Append(rules, Access!NewRule(p, b)), q)
             <=> IF q = p THEN b = TRUE ELSE Access!IsAllowed(rules, q)
    BY Zenon, <1>1, PushDecides
  <2>3. QED BY Zenon, <2>1, <2>2
<1>2. CASE Access!RulesOf(rules, p) # {}
  <2>1. PICK f : Decides(rules, p, f)
    BY Zenon, <1>2, FirstDecides
  <2> DEFINE r == [rules EXCEPT ![f].allowed = b]
  <2>2. Access!UpdateRule(rules, p, b) = r
    <3>1. Access!Min(Access!RulesOf(rules, p)) = f
      BY Zenon, <2>1, FirstDecides
    <3>2. QED BY <1>2, <3>1 DEF Access!UpdateRule
  <2>3. /\ Len(rules) \in Nat /\ DOMAIN rules = 1 .. Len(rules)
        /\ \A i \in DOMAIN rules : rules[i] \in Access!Rule
    BY LenProperties, ElementOfSeq
  <2>4. f \in DOMAIN rules /\ rules[f].pair = p
    BY <2>1 DEF Decides
  <2>5. /\ DOMAIN r = DOMAIN rules /\ r[f].allowed = b /\ r[f].pair = p
        /\ r[f] \in Access!Rule
        /\ \A i \in DOMAIN rules : i # f => r[i] = rules[i]
        /\ \A i \in DOMAIN rules : r[i].pair = rules[i].pair
    BY <2>3, <2>4 DEF Access!Rule
  <2> HIDE DEF r
  <2>6. r \in Seq(Access!Rule)
    <3>1. \A i \in DOMAIN r : r[i] \in Access!Rule
      BY <2>3, <2>5
    <3>2. r \in [1 .. Len(rules) -> Access!Rule]
      <4>1. r = [i \in DOMAIN rules |-> r[i]]
        BY <2>3, <2>5 DEF r
      <4>2. QED BY <2>3, <2>5, <3>1, <4>1
    <3>3. QED BY <2>3, <3>2, SeqDef
  <2>7. \A x \in Pairs : \A i : Decides(r, x, i) <=> Decides(rules, x, i)
    BY <2>5 DEF Decides
  <2>8. CASE q = p
    <3>1. Decides(r, q, f)
      BY <2>1, <2>7, <2>8
    <3>2. Access!IsAllowed(r, q) <=> r[f].allowed = TRUE
      BY Zenon, <2>6, <3>1, FirstDecides
    <3>3. QED BY Zenon, <2>2, <2>5, <2>6, <2>8, <3>2
  <2>9. CASE q # p
    <3>1. ASSUME NEW i, Decides(rules, q, i)
          PROVE  \E k : Decides(r, q, k) /\ r[k] = rules[i]
      <4>1. i # f /\ i \in DOMAIN rules
        BY <2>4, <2>9, <3>1 DEF Decides
      <4>2. QED BY <2>5, <2>7, <3>1, <4>1
    <3>2. ASSUME \A i : ~ Decides(rules, q, i) PROVE \A k : ~ Decides(r, q, k)
      BY <2>7, <3>2
    <3>3. Access!IsAllowed(r, q) <=> Access!IsAllowed(rules, q)
      BY <2>6, <3>1, <3>2, AllowedAlike
    <3>4. QED BY Zenon, <2>2, <2>6, <2>9, <3>3
  <2>10. QED BY <2>8, <2>9
<1>3. QED BY <1>1, <1>2

\* the types of what the refinement looks at
AccessInv ==
  /\ matrix \in Seq(Access!Rule) /\ storage \in Seq(Access!Rule)
  /\ DOMAIN inFlight = Reloads /\ inFlight = [r \in Reloads |-> inFlight[r]]
  /\ \A r \in Reloads :
       inFlight[r] = << >> \/ \E m \in Seq(Access!Rule) : inFlight[r] = <<m>>

\* the initial lists of rules are lists of rules
LEMMA AccessInit == PartsInit => AccessInv
  BY VallumConstants DEF PartsInit, Access!Init, Access!AccessAssumption, AccessInv

\* the policies of the lists a reload has loaded, and of all reloads
InUse(lists) == {Access!PolicyOf(m) : m \in Access!Range(lists)}
InFlightPolicies == [r \in Reloads |-> InUse(inFlight[r])]

\* a reload that holds nothing has no policy, one that holds a list has its policy
LEMMA OneInUse ==
  InUse(<< >>) = {} /\ \A m : InUse(<<m>>) = {Access!PolicyOf(m)}
<1>1. Access!Range(<< >>) = {} /\ \A m : Access!Range(<<m>>) = {m}
  BY DEF Access!Range
<1>2. QED BY <1>1 DEF InUse

\* a reload that has loaded another list
LEMMA Replaced ==
  ASSUME DOMAIN inFlight = Reloads, NEW r \in Reloads, NEW lists,
         inFlight' = [inFlight EXCEPT ![r] = lists]
  PROVE  InFlightPolicies' = [InFlightPolicies EXCEPT ![r] = InUse(lists)]
  BY DEF InFlightPolicies, InUse, Access!PolicyOf, Access!Range

\* what one step of the validator does to its policy, and to its type
LEMMA AccessStepRefines ==
  ASSUME AccessInv, Access!Next
  PROVE  AccessInv' /\ Access!Policy!Next
<1> USE VallumConstants DEF Access!AccessAssumption
<1>1. ASSUME NEW p \in Pairs, Access!Validate(p)
      PROVE  AccessInv' /\ Access!Policy!Decide(p)
  <2>1. AccessInv'
    BY <1>1 DEF AccessInv, Access!Validate
  <2>2. Access!IsAllowed(matrix, p) = (p \in Access!PolicyOf(matrix))
    BY DEF Access!PolicyOf, Access!IsAllowed
  <2>3. last' = <<"decided", p, p \in Access!PolicyOf(matrix)>>
    BY <1>1, <2>2 DEF Access!Validate, Access!ValidateMessage
  <2>4. UNCHANGED <<matrix, storage, inFlight>>
    BY <1>1 DEF Access!Validate
  <2>5. QED BY <2>1, <2>3, <2>4 DEF Access!Policy!Decide, Access!PolicyOf
<1>2. ASSUME NEW p \in Pairs, NEW b \in BOOLEAN, matrix' \in Seq(Access!Rule),
             \A q \in Pairs : Access!IsAllowed(matrix', q)
               <=> IF q = p THEN b = TRUE ELSE Access!IsAllowed(matrix, q),
             Access!Writes(p, b)
      PROVE  AccessInv' /\ Access!Policy!Set(p, b)
  <2>1. AccessInv'
    BY <1>2 DEF AccessInv, Access!Writes
  <2>2. \A q : q \in Access!PolicyOf(matrix')
          <=> q \in Pairs /\ IF q = p THEN b = TRUE ELSE Access!IsAllowed(matrix, q)
    BY Zenon, <1>2 DEF Access!PolicyOf
  <2>3. \A q : q \in Access!PolicyOf(matrix) <=> q \in Pairs /\ Access!IsAllowed(matrix, q)
    BY Zenon DEF Access!PolicyOf
  <2>4. CASE b = TRUE
    <3>1. Access!PolicyOf(matrix') = Access!PolicyOf(matrix) \cup {p}
      BY Zenon, <2>2, <2>3, <2>4
    <3>2. QED BY <1>2, <2>1, <2>4, <3>1 DEF Access!Policy!Set, Access!Writes
  <2>5. CASE b = FALSE
    <3>1. Access!PolicyOf(matrix') = Access!PolicyOf(matrix) \ {p}
      BY Zenon, <2>2, <2>3, <2>5
    <3>2. QED BY <1>2, <2>1, <2>5, <3>1 DEF Access!Policy!Set, Access!Writes
  <2>6. QED BY <2>4, <2>5
<1>3. ASSUME NEW p \in Pairs, NEW b \in BOOLEAN, Access!Add(p, b)
      PROVE  AccessInv' /\ Access!Policy!Set(p, b)
  <2>1. matrix' = Access!AddRule(matrix, p, b) /\ Access!Writes(p, b)
    BY <1>3 DEF Access!Add
  <2>2. matrix' \in Seq(Access!Rule) /\ \A q \in Pairs : Access!IsAllowed(matrix', q)
               <=> IF q = p THEN b = TRUE ELSE Access!IsAllowed(matrix, q)
    BY Zenon, <2>1, AddDecides DEF AccessInv
  <2>3. QED BY <1>2, <2>1, <2>2
<1>4. ASSUME NEW p \in Pairs, NEW b \in BOOLEAN, Access!Update(p, b)
      PROVE  AccessInv' /\ Access!Policy!Set(p, b)
  <2>1. matrix' = Access!UpdateRule(matrix, p, b) /\ Access!Writes(p, b)
    BY <1>4 DEF Access!Update
  <2>2. matrix' \in Seq(Access!Rule) /\ \A q \in Pairs : Access!IsAllowed(matrix', q)
               <=> IF q = p THEN b = TRUE ELSE Access!IsAllowed(matrix, q)
    BY Zenon, <2>1, UpdateDecides DEF AccessInv
  <2>3. QED BY <1>2, <2>1, <2>2
<1>5. ASSUME NEW p \in Pairs, Access!Delete(p)
      PROVE  AccessInv' /\ Access!Policy!Set(p, FALSE)
  <2>1. matrix' = Access!RemoveRule(matrix, p) /\ Access!Writes(p, FALSE)
    BY <1>5 DEF Access!Delete
  <2>2. matrix' \in Seq(Access!Rule) /\ \A q \in Pairs : Access!IsAllowed(matrix', q)
               <=> q # p /\ Access!IsAllowed(matrix, q)
    BY Zenon, <2>1, RemoveDecides DEF AccessInv
  <2>3. \A q \in Pairs : Access!IsAllowed(matrix', q)
               <=> IF q = p THEN FALSE = TRUE ELSE Access!IsAllowed(matrix, q)
    BY Zenon, <2>2
  <2>4. QED BY <1>2, <2>1, <2>2, <2>3
<1>6. ASSUME NEW m \in Lists, Access!Save(m)
      PROVE  AccessInv' /\ Access!Policy!Save
  BY <1>6 DEF AccessInv, Access!Save, Access!Policy!Save, Access!PolicyOf
<1>7. ASSUME NEW r \in Reloads, Access!Load(r)
      PROVE  AccessInv' /\ Access!Policy!Load(r)
  <2>1. /\ inFlight[r] = << >> /\ inFlight' = [inFlight EXCEPT ![r] = <<storage>>]
        /\ UNCHANGED <<matrix, storage, reported, last>>
    BY <1>7 DEF Access!Load
  <2>2. AccessInv'
    BY <2>1 DEF AccessInv
  <2>3. InUse(<< >>) = {} /\ InUse(<<storage>>) = {Access!PolicyOf(storage)}
    BY OneInUse
  <2>4. InFlightPolicies' = [InFlightPolicies EXCEPT ![r] = {Access!PolicyOf(storage)}]
    BY <2>1, <2>3, Replaced DEF AccessInv
  <2>5. QED BY <2>1, <2>2, <2>3, <2>4 DEF Access!Policy!Load, InFlightPolicies, InUse
<1>8. ASSUME NEW r \in Reloads, Access!UpdateMatrix(r)
      PROVE  AccessInv' /\ Access!Policy!Use(r)
  <2>1. PICK m \in Seq(Access!Rule) : inFlight[r] = <<m>>
    BY <1>8 DEF AccessInv, Access!UpdateMatrix
  <2>2. /\ matrix' = m /\ inFlight' = [inFlight EXCEPT ![r] = << >>]
        /\ UNCHANGED <<storage, reported, last>>
    BY <1>8, <2>1 DEF Access!UpdateMatrix
  <2>3. AccessInv'
    BY <2>2 DEF AccessInv
  <2>4. InUse(<< >>) = {} /\ InUse(<<m>>) = {Access!PolicyOf(m)}
    BY OneInUse
  <2>5. InFlightPolicies' = [InFlightPolicies EXCEPT ![r] = {}]
    BY <2>2, <2>4, Replaced DEF AccessInv
  <2>6. QED BY <2>1, <2>2, <2>3, <2>4, <2>5 DEF Access!Policy!Use, InFlightPolicies, InUse
<1>9. QED
  BY <1>1, <1>3, <1>4, <1>5, <1>6, <1>7, <1>8 DEF Access!Next, Access!Policy!Next

\* A list of rules in which a pair may occur again, changed and reloaded while
\* it is in use, behaves as the policy that AccessPolicy describes.
THEOREM RulesAreAPolicy == PartsSpec => ImplementsPolicy
<1>1. PartsInit => AccessInv /\ Access!Policy!Init
  <2>1. InUse(<< >>) = {}
    BY OneInUse
  <2>2. QED
    BY <2>1, AccessInit
    DEF PartsInit, Access!Init, Access!Policy!Init, Access!PolicyOf, InUse
<1>2. AccessInv /\ [PartsNext]_allVars => AccessInv' /\ [Access!Policy!Next]_(Access!Policy!vars)
  <2> SUFFICES ASSUME AccessInv, [PartsNext]_allVars
               PROVE  AccessInv' /\ [Access!Policy!Next]_(Access!Policy!vars)
    OBVIOUS
  <2>1. CASE Access!Next
    BY <2>1, AccessStepRefines
  <2>2. CASE UNCHANGED accessVars
    BY <2>2 DEF accessVars, AccessInv, Access!Policy!vars
  <2>3. QED
    BY <2>1, <2>2
    DEF PartsNext, allVars, ProcessStep, PipelineStep, ChainStep, AccessStep
<1>3. QED
  BY <1>1, <1>2, PTL DEF PartsSpec, ImplementsPolicy, Access!ImplementsPolicy, Access!Policy!Spec

-----------------------------------------------------------------------------
(* The security pipeline: where its tasks are, and what is in their hands. *)

PhasesOf(l) ==
  IF l = "shield" THEN {"idle", "record", "send", "stopped"}
  ELSE IF l = "spear"
  THEN {"idle", "test", "isolate", "report", "record", "send", "stopped"}
  ELSE {"idle", "diagnose", "try", "deploy", "record", "stopped"}

\* a task has events in hand exactly while it handles them, all of one agent
HandOK(l, phase, events) ==
  /\ phase \in PhasesOf(l) /\ events \in Seq(Pipeline!Event)
  /\ phase \in {"idle", "test", "stopped"} <=> events = << >>
  /\ \A i \in DOMAIN events : events[i].agent = events[1].agent

CallsInv ==
  /\ at \in [Pipeline!Loops -> Pipeline!Phases]
  /\ hand \in [Pipeline!Loops -> Seq(Pipeline!Event)]
  /\ \A l \in Pipeline!Loops : HandOK(l, at[l], hand[l])
  /\ todo \in Seq(Agents) /\ (at["spear"] = "test" => todo # << >>)
  /\ queue \in Seq(Pipeline!Event)

\* what the pipeline assumes of its constants
LEMMA PipelineConstants ==
  /\ Capacity \in Nat \ {0} /\ MaxEvents \in Nat /\ AutoHeal \in BOOLEAN
  /\ MaxAttempts \in Nat \ {0} /\ Window \in Nat \ {0} /\ IsFiniteSet(Agents)
<1>1. Pipeline!IsFiniteSet(Agents) => IsFiniteSet(Agents)
  BY DEF Pipeline!IsFiniteSet, IsFiniteSet
<1>2. QED
  BY <1>1, VallumConstants DEF Pipeline!PipelineAssumption, Pipeline!HealerAssumption

\* the positions of the events in hand, the first there
LEMMA HandElems ==
  ASSUME NEW s \in Seq(Pipeline!Event)
  PROVE  /\ Len(s) \in Nat /\ DOMAIN s = 1 .. Len(s) /\ (s = << >> <=> Len(s) = 0)
         /\ \A i \in DOMAIN s : s[i] \in Pipeline!Event
         /\ s # << >> => 1 \in DOMAIN s
  BY LenProperties, ElementOfSeq, EmptySeq

\* a task that rests, or has stopped, has nothing in hand
LEMMA EmptyHand ==
  /\ << >> \in Seq(Pipeline!Event) /\ Len(<< >>) = 0
  /\ \A l \in Pipeline!Loops, p \in {"idle", "stopped"} : HandOK(l, p, << >>)
  /\ HandOK("spear", "test", << >>)
  BY DEF HandOK, PhasesOf, Pipeline!Loops

\* one event in hand is one that a task may handle
LEMMA OneEvent ==
  ASSUME NEW e \in Pipeline!Event
  PROVE  /\ <<e>> \in Seq(Pipeline!Event) /\ Len(<<e>>) = 1 /\ <<e>>[1] = e
         /\ DOMAIN <<e>> = 1 .. 1
         /\ \A l \in Pipeline!Loops :
              \A p \in PhasesOf(l) \ {"idle", "test", "stopped"} : HandOK(l, p, <<e>>)
<1>1. /\ <<e>> \in Seq(Pipeline!Event) /\ Len(<<e>>) = 1 /\ <<e>>[1] = e
      /\ DOMAIN <<e>> = 1 .. 1 /\ <<e>> # << >>
  OBVIOUS
<1>2. ASSUME NEW l \in Pipeline!Loops, NEW p \in PhasesOf(l) \ {"idle", "test", "stopped"}
      PROVE  HandOK(l, p, <<e>>)
  <2>1. p \in PhasesOf(l) /\ p \notin {"idle", "test", "stopped"}
    OBVIOUS
  <2>2. \A i \in DOMAIN <<e>> : i = 1
    BY <1>1
  <2>3. QED BY Zenon, <1>1, <2>1, <2>2 DEF HandOK
<1>3. QED BY <1>1, <1>2

\* a sequence without its first element
LEMMA RestElems ==
  ASSUME NEW S, NEW s \in Seq(S), s # << >>
  PROVE  /\ Head(s) \in S /\ Head(s) = s[1] /\ Tail(s) \in Seq(S)
         /\ Len(Tail(s)) \in Nat /\ Len(Tail(s)) = Len(s) - 1
         /\ DOMAIN Tail(s) = 1 .. Len(s) - 1
         /\ \A i \in DOMAIN Tail(s) : Tail(s)[i] = s[i + 1] /\ i + 1 \in DOMAIN s
<1>1. /\ Len(s) \in Nat /\ Len(s) # 0 /\ DOMAIN s = 1 .. Len(s)
  BY LenProperties, EmptySeq
<1>2. /\ Head(s) \in S /\ Head(s) = s[1] /\ Tail(s) \in Seq(S)
      /\ Len(Tail(s)) = Len(s) - 1
      /\ \A i \in 1 .. Len(Tail(s)) : Tail(s)[i] = s[i + 1]
  BY HeadTailProperties, <1>1, ElementOfSeq
<1>3. DOMAIN Tail(s) = 1 .. Len(Tail(s)) /\ Len(Tail(s)) \in Nat
  BY <1>2, LenProperties
<1>4. QED BY <1>1, <1>2, <1>3

\* the agents of a run of SPEAR, in a sequence
LEMMA AgentsInOrder == Pipeline!SetToSeq(Agents) \in Seq(Agents)
<1> DEFINE n == Cardinality(Agents)
<1>1. n \in Nat /\ ExistsBijection(1 .. n, Agents)
  BY PipelineConstants, FS_CardinalityType
<1>2. Pipeline!Cardinality(Agents) = n
  BY Zenon DEF Pipeline!Cardinality, Cardinality
<1> HIDE DEF n
<1>3. PICK f : f \in Bijection(1 .. n, Agents)
  BY <1>1 DEF ExistsBijection
<1>4. f \in [1 .. n -> Agents] /\ Pipeline!IsInjective(f)
  BY <1>3 DEF Bijection, Injection, IsInjective, Pipeline!IsInjective
<1>5. Pipeline!SetToSeq(Agents) \in [1 .. n -> Agents]
  BY <1>2, <1>4 DEF Pipeline!SetToSeq
<1>6. QED BY <1>1, <1>5, SeqDef

\* a step that hands a task its next events keeps all in order
LEMMA GoesTyped ==
  ASSUME CallsInv, NEW l \in Pipeline!Loops, NEW p, NEW events,
         Pipeline!Goes(l, p, events), HandOK(l, p, events)
  PROVE  /\ at' \in [Pipeline!Loops -> Pipeline!Phases]
         /\ hand' \in [Pipeline!Loops -> Seq(Pipeline!Event)]
         /\ \A m \in Pipeline!Loops : HandOK(m, at'[m], hand'[m])
         /\ at'[l] = p /\ hand'[l] = events
         /\ \A m \in Pipeline!Loops \ {l} : at'[m] = at[m] /\ hand'[m] = hand[m]
<1>1. at' = [at EXCEPT ![l] = p] /\ hand' = [hand EXCEPT ![l] = events]
  BY DEF Pipeline!Goes
<1>2. p \in Pipeline!Phases /\ events \in Seq(Pipeline!Event)
  BY DEF HandOK, PhasesOf, Pipeline!Phases
<1>3. /\ at' \in [Pipeline!Loops -> Pipeline!Phases]
      /\ hand' \in [Pipeline!Loops -> Seq(Pipeline!Event)]
      /\ at'[l] = p /\ hand'[l] = events
      /\ \A m \in Pipeline!Loops \ {l} : at'[m] = at[m] /\ hand'[m] = hand[m]
  BY <1>1, <1>2 DEF CallsInv
<1>4. \A m \in Pipeline!Loops : HandOK(m, at'[m], hand'[m])
  <2> TAKE m \in Pipeline!Loops
  <2>1. CASE m = l
    BY <1>3, <2>1
  <2>2. CASE m # l
    BY <1>3, <2>2 DEF CallsInv
  <2>3. QED BY <2>1, <2>2
<1>5. QED BY <1>3, <1>4

\* what every step leaves typed: CallsInv, from what it does to each variable
LEMMA CallsStep == CallsInv /\ Pipeline!Next => CallsInv'
<1> SUFFICES ASSUME CallsInv, Pipeline!Next PROVE CallsInv'
  OBVIOUS
<1> USE DEF Pipeline!Loops
<1>0. \A l \in Pipeline!Loops : HandOK(l, at[l], hand[l]) /\ hand[l] \in Seq(Pipeline!Event)
  BY DEF CallsInv
<1>1. ASSUME NEW l \in Pipeline!Loops, NEW p, NEW events,
             Pipeline!Goes(l, p, events), HandOK(l, p, events),
             todo' \in Seq(Agents), (l = "spear" \/ UNCHANGED todo),
             l = "spear" /\ p = "test" => todo' # << >>,
             queue' \in Seq(Pipeline!Event)
      PROVE  CallsInv'
  <2>1. /\ at' \in [Pipeline!Loops -> Pipeline!Phases]
        /\ hand' \in [Pipeline!Loops -> Seq(Pipeline!Event)]
        /\ \A m \in Pipeline!Loops : HandOK(m, at'[m], hand'[m])
        /\ at'[l] = p
        /\ \A m \in Pipeline!Loops \ {l} : at'[m] = at[m]
    BY <1>1, GoesTyped
  <2>2. at'["spear"] = "test" => todo' # << >>
    BY <1>1, <2>1 DEF CallsInv
  <2>3. QED BY <1>1, <2>1, <2>2 DEF CallsInv
<1>2. ASSUME UNCHANGED Pipeline!tasks, queue' \in Seq(Pipeline!Event)
      PROVE  CallsInv'
  BY <1>2 DEF CallsInv, Pipeline!tasks
<1>3. todo \in Seq(Agents) /\ queue \in Seq(Pipeline!Event)
      /\ (at["spear"] = "test" => todo # << >>)
  BY DEF CallsInv
<1>4. ASSUME NEW l \in {"shield", "healer"}, NEW p, NEW events,
             Pipeline!Goes(l, p, events), HandOK(l, p, events), UNCHANGED <<todo, queue>>
      PROVE  CallsInv'
  BY <1>1, <1>3, <1>4
<1>5. ASSUME todo' \in Seq(Agents), Pipeline!NextAgent, UNCHANGED queue
      PROVE  CallsInv'
  <2> DEFINE p == IF todo' = << >> THEN "idle" ELSE "test"
  <2>1. HandOK("spear", p, << >>)
    BY EmptyHand
  <2>2. Pipeline!Goes("spear", p, << >>)
    BY <1>5 DEF Pipeline!NextAgent
  <2>3. p = "test" => todo' # << >>
    OBVIOUS
  <2> HIDE DEF p
  <2>4. QED BY <1>1, <1>3, <1>5, <2>1, <2>2, <2>3
<1>6. ASSUME NEW a \in Agents, NEW critical \in BOOLEAN, Pipeline!Observe(a, critical)
      PROVE  CallsInv'
  <2> DEFINE e == Pipeline!EventOf("ShieldAlert", a, critical)
  <2>1. e \in Pipeline!Event
    BY DEF Pipeline!Event, Pipeline!EventOf
  <2>2. HandOK("shield", "record", <<e>>)
    BY <2>1, OneEvent DEF PhasesOf
  <2>3. Pipeline!Goes("shield", "record", <<e>>) /\ UNCHANGED <<todo, queue>>
    BY <1>6 DEF Pipeline!Observe
  <2> HIDE DEF e
  <2>4. QED BY <1>4, <2>2, <2>3
<1>7. ASSUME NEW a \in Agents, Pipeline!Notify(a)
      PROVE  CallsInv'
  <2>1. Pipeline!EventOf("AgentFailure", a, FALSE) \in Pipeline!Event
    BY DEF Pipeline!Event, Pipeline!EventOf
  <2>2. Append(queue, Pipeline!EventOf("AgentFailure", a, FALSE)) \in Seq(Pipeline!Event)
    BY <1>3, <2>1, AppendProperties
  <2>3. queue' \in Seq(Pipeline!Event)
    BY <1>3, <1>7, <2>2 DEF Pipeline!Notify
  <2>4. QED BY <1>2, <1>7, <2>3 DEF Pipeline!Notify
<1>8. ASSUME NEW n \in 1 .. 2, Pipeline!TestsFail(n)
      PROVE  CallsInv'
  <2> DEFINE e == Pipeline!EventOf("SpearFailure", Head(todo), FALSE)
             s == [i \in 1 .. n |-> e]
  <2>1. todo # << >> /\ Head(todo) \in Agents /\ Tail(todo) \in Seq(Agents)
    BY <1>3, <1>8, RestElems DEF Pipeline!TestsFail
  <2>2. e \in Pipeline!Event
    BY <2>1 DEF Pipeline!Event, Pipeline!EventOf
  <2> HIDE DEF e
  <2>3. s \in Seq(Pipeline!Event) /\ DOMAIN s = 1 .. n /\ \A i \in 1 .. n : s[i] = e
    BY <2>2, SeqDef
  <2>4. s # << >> /\ s[1] = e
    BY <2>3
  <2> HIDE DEF s
  <2>5. HandOK("spear", "isolate", s)
    BY <2>3, <2>4 DEF HandOK, PhasesOf
  <2>6. Pipeline!Goes("spear", "isolate", s) /\ UNCHANGED queue /\ todo' = Tail(todo)
    BY <1>8 DEF Pipeline!TestsFail, e, s
  <2>7. QED BY <1>1, <1>3, <2>1, <2>5, <2>6
<1>9. ASSUME NEW l \in Pipeline!Loops, Pipeline!RecordViolation(l)
      PROVE  CallsInv'
  <2>1. /\ at[l] = "record" /\ l # "healer"
        /\ Pipeline!Goes(l, "send", hand[l]) /\ UNCHANGED <<todo, queue>>
    BY <1>9 DEF Pipeline!RecordViolation
  <2>2. HandOK(l, "send", hand[l])
    BY <1>0, <2>1 DEF HandOK, PhasesOf
  <2>3. QED BY <1>1, <1>3, <2>1, <2>2
<1>10. ASSUME NEW l \in Pipeline!Loops, Pipeline!Send(l)
       PROVE  CallsInv'
  <2>1. /\ at[l] = "send" /\ Pipeline!Enqueue(Head(hand[l])) /\ Pipeline!Sent(l)
    BY <1>10 DEF Pipeline!Send
  <2>2. l # "healer" /\ hand[l] # << >>
    BY <1>0, <2>1 DEF HandOK, PhasesOf
  <2>3. /\ Head(hand[l]) \in Pipeline!Event /\ Tail(hand[l]) \in Seq(Pipeline!Event)
        /\ Len(hand[l]) \in Nat /\ Len(Tail(hand[l])) = Len(hand[l]) - 1
        /\ \A i \in DOMAIN Tail(hand[l]) :
             Tail(hand[l])[i] = hand[l][i + 1] /\ i + 1 \in DOMAIN hand[l]
    BY <1>0, <2>2, RestElems, LenProperties
  <2>4. queue' \in Seq(Pipeline!Event)
    <3>1. Append(queue, Head(hand[l])) \in Seq(Pipeline!Event)
      BY <1>3, <2>3, AppendProperties
    <3>2. queue' = queue \/ queue' = Append(queue, Head(hand[l]))
      BY <2>1 DEF Pipeline!Enqueue
    <3>3. QED BY <1>3, <3>1, <3>2
  <2>5. UNCHANGED todo
    BY <2>1 DEF Pipeline!Sent
  <2> DEFINE n == Len(hand[l])
             m == Len(Tail(hand[l]))
  <2>6. n \in Nat /\ n # 0 /\ m = n - 1
    <3>1. Len(hand[l]) # 0
      BY <1>0, <2>2, HandElems
    <3>2. QED BY <2>3, <3>1
  <2> DEFINE p == IF n > 1 THEN "send"
                  ELSE IF l = "spear" /\ todo # << >> THEN "test" ELSE "idle"
  <2>7. Pipeline!Goes(l, p, Tail(hand[l]))
    BY <2>1 DEF Pipeline!Sent
  <2> HIDE DEF n, m
  <2>8. CASE n > 1
    <3>1. Pipeline!Goes(l, "send", Tail(hand[l]))
      BY <2>7, <2>8
    <3>2. Tail(hand[l]) # << >> /\ 1 \in DOMAIN Tail(hand[l])
      <4>1. m # 0
        BY ONLY <2>8, <2>6
      <4>2. QED BY <2>3, <4>1, HandElems DEF m
    <3>3. HandOK(l, "send", Tail(hand[l]))
      <4>1. \A i \in DOMAIN hand[l] : hand[l][i].agent = hand[l][1].agent
        BY <1>0 DEF HandOK
      <4>2. \A i \in DOMAIN Tail(hand[l]) : Tail(hand[l])[i].agent = hand[l][1].agent
        BY <2>3, <4>1
      <4>3. QED BY <2>2, <2>3, <3>2, <4>2 DEF HandOK, PhasesOf
    <3>4. QED BY <1>1, <1>3, <2>2, <2>4, <2>5, <3>1, <3>3
  <2>9. CASE n <= 1 /\ l = "spear" /\ todo # << >>
    <3>1. Tail(hand[l]) = << >>
      <4>1. m = 0
        BY ONLY <2>9, <2>6
      <4>2. QED BY <2>3, <4>1, HandElems DEF m
    <3>2. p = "test"
      BY ONLY <2>9, <2>6
    <3>3. Pipeline!Goes(l, "test", << >>)
      BY <2>7, <3>1, <3>2
    <3>4. QED BY <1>1, <1>3, <2>4, <2>5, <2>9, <3>3, EmptyHand
  <2>10. CASE n <= 1 /\ ~ (l = "spear" /\ todo # << >>)
    <3>1. Tail(hand[l]) = << >>
      <4>1. m = 0
        BY ONLY <2>10, <2>6
      <4>2. QED BY <2>3, <4>1, HandElems DEF m
    <3>2. p = "idle"
      BY ONLY <2>10, <2>6
    <3>3. Pipeline!Goes(l, "idle", << >>)
      BY <2>7, <3>1, <3>2
    <3>4. HandOK(l, "idle", << >>)
      BY EmptyHand
    <3>5. QED BY <1>1, <1>3, <2>4, <2>5, <3>3, <3>4
  <2>11. QED BY <2>6, <2>8, <2>9, <2>10
<1>11. ASSUME NEW l \in Pipeline!Loops, Pipeline!Stop(l)
       PROVE  CallsInv'
  <2>1. Pipeline!Goes(l, "stopped", << >>) /\ UNCHANGED <<todo, queue>>
    BY <1>11 DEF Pipeline!Stop
  <2>2. HandOK(l, "stopped", << >>)
    BY EmptyHand
  <2>3. QED BY <1>1, <1>3, <2>1, <2>2
<1>12. ASSUME Pipeline!RunStarts
       PROVE  CallsInv'
  BY <1>5, <1>12, AgentsInOrder DEF Pipeline!RunStarts
<1>13. ASSUME Pipeline!TestsEnd
       PROVE  CallsInv'
  <2>1. todo # << >> /\ Tail(todo) \in Seq(Agents)
    BY <1>3, <1>13, RestElems DEF Pipeline!TestsEnd
  <2>2. QED BY <1>5, <1>13, <2>1 DEF Pipeline!TestsEnd
<1>14. ASSUME NEW a, Pipeline!Unreported(a), UNCHANGED queue
       PROVE  CallsInv'
  BY <1>3, <1>5, <1>14 DEF Pipeline!Unreported
<1>15. ASSUME NEW ok \in BOOLEAN, NEW applied \in BOOLEAN, Pipeline!Isolate(ok, applied)
       PROVE  CallsInv'
  <2>1. at["spear"] = "isolate" /\ UNCHANGED queue
    BY <1>15 DEF Pipeline!Isolate
  <2>2. CASE Pipeline!Goes("spear", "report", hand["spear"]) /\ UNCHANGED todo
    <3>1. HandOK("spear", "report", hand["spear"])
      BY <1>0, <2>1 DEF HandOK, PhasesOf
    <3>2. QED BY <1>1, <1>3, <2>1, <2>2, <3>1
  <2>3. CASE Pipeline!Unreported(hand["spear"][1].agent)
    BY <1>14, <2>1, <2>3
  <2>4. QED BY <1>15, <2>2, <2>3 DEF Pipeline!Isolate
<1>16. ASSUME NEW ok \in BOOLEAN, Pipeline!Report(ok)
       PROVE  CallsInv'
  <2>1. at["spear"] = "report" /\ UNCHANGED queue
    BY <1>16 DEF Pipeline!Report
  <2>2. CASE Pipeline!Goes("spear", "record", hand["spear"]) /\ UNCHANGED todo
    <3>1. HandOK("spear", "record", hand["spear"])
      BY <1>0, <2>1 DEF HandOK, PhasesOf
    <3>2. QED BY <1>1, <1>3, <2>1, <2>2, <3>1
  <2>3. CASE Pipeline!Unreported(hand["spear"][1].agent)
    BY <1>14, <2>1, <2>3
  <2>4. QED BY <1>16, <2>2, <2>3 DEF Pipeline!Report
<1>17. ASSUME Pipeline!Take
       PROVE  CallsInv'
  <2>1. queue # << >> /\ queue' = Tail(queue)
    BY <1>17 DEF Pipeline!Take
  <2>2. Head(queue) \in Pipeline!Event /\ queue' \in Seq(Pipeline!Event)
    BY <1>3, <2>1, RestElems
  <2>3. CASE Pipeline!Goes("healer", "diagnose", <<Head(queue)>>) /\ UNCHANGED todo
    <3>1. HandOK("healer", "diagnose", <<Head(queue)>>)
      BY <2>2, OneEvent DEF PhasesOf
    <3>2. QED BY <1>1, <1>3, <2>2, <2>3, <3>1
  <2>4. CASE UNCHANGED Pipeline!tasks
    BY <1>2, <2>2, <2>4
  <2>5. QED BY <1>17, <2>3, <2>4 DEF Pipeline!Take
<1>18. ASSUME Pipeline!Rests("healer"), UNCHANGED queue
       PROVE  CallsInv'
  <2>1. HandOK("healer", "idle", << >>)
    BY EmptyHand
  <2>2. QED BY <1>4, <1>18, <2>1 DEF Pipeline!Rests
<1>19. ASSUME at["healer"] \in {"diagnose", "try", "deploy"},
              NEW p \in {"try", "deploy", "record"},
              Pipeline!Goes("healer", p, hand["healer"]), UNCHANGED <<todo, queue>>
       PROVE  CallsInv'
  <2>1. HandOK("healer", p, hand["healer"])
    BY <1>0, <1>19 DEF HandOK, PhasesOf
  <2>2. QED BY <1>4, <1>19, <2>1
<1>20. ASSUME NEW ok \in BOOLEAN, Pipeline!Diagnose(ok)
       PROVE  CallsInv'
  BY <1>18, <1>19, <1>20 DEF Pipeline!Diagnose
<1>21. ASSUME Pipeline!TestFixFails
       PROVE  CallsInv'
  BY <1>18, <1>21 DEF Pipeline!TestFixFails
<1>22. ASSUME Pipeline!ApplyFix
       PROVE  CallsInv'
  BY <1>18, <1>19, <1>22 DEF Pipeline!ApplyFix
<1>23. ASSUME NEW ok \in BOOLEAN, Pipeline!Deployed(ok)
       PROVE  CallsInv'
  <2>1. CASE ok = TRUE
    <3>1. Pipeline!Goes("healer", "record", hand["healer"])
      BY <1>23, <2>1 DEF Pipeline!Deployed
    <3>2. QED BY <1>19, <1>23, <3>1 DEF Pipeline!Deployed
  <2>2. CASE ok = FALSE
    <3>1. Pipeline!Goes("healer", "idle", << >>)
      BY <1>23, <2>2 DEF Pipeline!Deployed
    <3>2. QED BY <1>18, <1>23, <3>1 DEF Pipeline!Deployed, Pipeline!Rests
  <2>3. QED BY <2>1, <2>2
<1>24. ASSUME Pipeline!RecordFix
       PROVE  CallsInv'
  BY <1>18, <1>24 DEF Pipeline!RecordFix
<1>25. ASSUME Pipeline!Shutdown \/ Pipeline!Tick
       PROVE  CallsInv'
  BY <1>2, <1>3, <1>25 DEF Pipeline!Shutdown, Pipeline!Tick
<1>26. QED
  BY <1>6, <1>7, <1>8, <1>9, <1>10, <1>11, <1>12, <1>13, <1>15, <1>16, <1>17, <1>20,
     <1>21, <1>22, <1>23, <1>24, <1>25
  DEF Pipeline!Next, Pipeline!Works, Pipeline!Spear, Pipeline!Heal

-----------------------------------------------------------------------------
(* Every event raised is under way, taken once, or lost for a reason.      *)

\* the counters c, with q events queued, s and p in the hands of SHIELD and
\* SPEAR, HEALER in the phase h and u the agents whose isolation failed
Balanced(c, q, s, p, h, u) ==
  /\ c \in [{"raised", "taken", "refused", "unsent"} -> Nat] /\ c.raised <= MaxEvents
  /\ q \in Nat /\ s \in Nat /\ p \in Nat
  /\ c.raised = c.taken + c.refused + c.unsent + q + s + p
  /\ c.refused > 0 => h = "stopped"
  /\ c.unsent > 0 => u # {}

\* an event is raised, by a task or from outside
LEMMA BalancedRaise ==
  ASSUME NEW c, NEW q, NEW s, NEW p, NEW h, NEW u, Balanced(c, q, s, p, h, u),
         NEW n \in Nat, c.raised + n <= MaxEvents
  PROVE  /\ Balanced([c EXCEPT !.raised = @ + n], q, s + n, p, h, u)
         /\ Balanced([c EXCEPT !.raised = @ + n], q, s, p + n, h, u)
         /\ Balanced([c EXCEPT !.raised = @ + n], q + n, s, p, h, u)
         /\ h = "stopped" =>
              Balanced([c EXCEPT !.raised = @ + n, !.refused = @ + n], q, s, p, h, u)
<1>1. /\ Balanced([c EXCEPT !.raised = @ + n], q, s + n, p, h, u)
      /\ Balanced([c EXCEPT !.raised = @ + n], q, s, p + n, h, u)
      /\ Balanced([c EXCEPT !.raised = @ + n], q + n, s, p, h, u)
  BY DEF Balanced
<1>2. h = "stopped" => Balanced([c EXCEPT !.raised = @ + n, !.refused = @ + n], q, s, p, h, u)
  <2> DEFINE d == [c EXCEPT !.raised = @ + n, !.refused = @ + n]
  <2>1. /\ c \in [{"raised", "taken", "refused", "unsent"} -> Nat]
        /\ c.raised \in Nat /\ c.refused \in Nat /\ c.taken \in Nat /\ c.unsent \in Nat
    BY DEF Balanced
  <2>2. /\ d.raised = c.raised + n /\ d.refused = c.refused + n
        /\ d.taken = c.taken /\ d.unsent = c.unsent
        /\ d \in [{"raised", "taken", "refused", "unsent"} -> Nat]
    <3>1. /\ c.raised + n \in Nat /\ c.refused + n \in Nat
      BY <2>1
    <3> DEFINE x == c.raised + n
               y == c.refused + n
    <3>2. d = [c EXCEPT !["raised"] = x, !["refused"] = y]
      BY <2>1
    <3>3. x \in Nat /\ y \in Nat
      BY <3>1
    <3> HIDE DEF x, y, d
    <3>4. /\ d.raised = x /\ d.refused = y /\ d.taken = c.taken /\ d.unsent = c.unsent
          /\ d \in [{"raised", "taken", "refused", "unsent"} -> Nat]
      BY <2>1, <3>2, <3>3
    <3>5. QED BY <3>4 DEF x, y
  <2> HIDE DEF d
  <2>3. h = "stopped" => Balanced(d, q, s, p, h, u)
    BY <2>1, <2>2 DEF Balanced
  <2>4. QED BY <2>3 DEF d
<1>3. QED BY <1>1, <1>2

\* what SPEAR had in hand is never sent
LEMMA BalancedUnsent ==
  ASSUME NEW c, NEW q, NEW s, NEW p, NEW h, NEW u, Balanced(c, q, s, p, h, u), u # {}
  PROVE  Balanced([c EXCEPT !.unsent = @ + p], q, s, 0, h, u)
  BY DEF Balanced

\* an event is sent, or refused once HEALER has stopped
LEMMA BalancedSend ==
  ASSUME NEW c, NEW q, NEW s, NEW p, NEW h, NEW u, Balanced(c, q, s, p, h, u)
  PROVE  /\ s > 0 => Balanced(c, q + 1, s - 1, p, h, u)
         /\ p > 0 => Balanced(c, q + 1, s, p - 1, h, u)
         /\ s > 0 /\ h = "stopped" =>
              Balanced([c EXCEPT !.refused = @ + 1], q, s - 1, p, h, u)
         /\ p > 0 /\ h = "stopped" =>
              Balanced([c EXCEPT !.refused = @ + 1], q, s, p - 1, h, u)
  BY DEF Balanced

\* HEALER takes an event out of the queue, and counts it
LEMMA BalancedTake ==
  ASSUME NEW c, NEW q, NEW s, NEW p, NEW h, NEW u, Balanced(c, q, s, p, h, u), q > 0
  PROVE  Balanced([c EXCEPT !.taken = @ + 1], q - 1, s, p, h, u)
  BY DEF Balanced

\* HEALER that has stopped stays so, and a failed isolation is remembered
LEMMA BalancedFrame ==
  ASSUME NEW c, NEW q, NEW s, NEW p, NEW h, NEW u, Balanced(c, q, s, p, h, u),
         NEW g, h = "stopped" => g = "stopped", NEW v, u \subseteq v
  PROVE  Balanced(c, q, s, p, g, v)
  BY DEF Balanced

Excused == [{"unrecorded", "unreported", "notified"} -> SUBSET Agents]

AccountsInv ==
  /\ Balanced(count, Len(queue), Len(hand["shield"]), Len(hand["spear"]),
              at["healer"], excused.unreported)
  /\ Len(queue) <= Capacity
  /\ excused \in Excused

\* what is excused is never forgotten
Forgives(x, y) ==
  /\ y \in Excused /\ x.unrecorded \subseteq y.unrecorded
  /\ x.unreported \subseteq y.unreported /\ x.notified \subseteq y.notified

\* one more agent without a record or a report forgives all that was forgiven
LEMMA ExcusedGrows ==
  ASSUME NEW x \in Excused, NEW a \in Agents
  PROVE  /\ Forgives(x, x)
         /\ Forgives(x, [x EXCEPT !.unrecorded = @ \cup {a}])
         /\ Forgives(x, [x EXCEPT !.unreported = @ \cup {a}])
         /\ Forgives(x, [x EXCEPT !.notified = @ \cup {a}])
         /\ a \in [x EXCEPT !.unrecorded = @ \cup {a}].unrecorded
         /\ a \in [x EXCEPT !.unreported = @ \cup {a}].unreported
         /\ a \in [x EXCEPT !.notified = @ \cup {a}].notified
  BY DEF Excused, Forgives

\* the agent of the events a task has in hand
LEMMA AgentInHand ==
  ASSUME CallsInv, NEW l \in Pipeline!Loops, at[l] \notin {"idle", "test", "stopped"}
  PROVE  /\ hand[l] # << >> /\ 1 \in DOMAIN hand[l] /\ hand[l][1].agent \in Agents
         /\ Len(hand[l]) \in Nat /\ Len(hand[l]) > 0
         /\ Len(Tail(hand[l])) = Len(hand[l]) - 1
         /\ Head(hand[l]) = hand[l][1]
         /\ \A i \in DOMAIN hand[l] : hand[l][i].agent = hand[l][1].agent
<1>1. HandOK(l, at[l], hand[l]) /\ hand[l] \in Seq(Pipeline!Event)
  BY DEF CallsInv
<1>2. /\ hand[l] # << >>
      /\ \A i \in DOMAIN hand[l] : hand[l][i].agent = hand[l][1].agent
  BY <1>1 DEF HandOK
<1>3. /\ Len(hand[l]) \in Nat /\ Len(hand[l]) # 0 /\ 1 \in DOMAIN hand[l]
      /\ hand[l][1] \in Pipeline!Event
  BY <1>1, <1>2, HandElems
<1>4. Len(Tail(hand[l])) = Len(hand[l]) - 1 /\ Head(hand[l]) = hand[l][1]
  BY <1>1, <1>2, RestElems
<1>5. QED BY <1>2, <1>3, <1>4 DEF Pipeline!Event

\* what every step does to the counters, and to what is excused
LEMMA AccountsStep ==
  CallsInv /\ AccountsInv /\ Pipeline!Next => AccountsInv' /\ Forgives(excused, excused')
<1> SUFFICES ASSUME CallsInv, AccountsInv, Pipeline!Next
             PROVE  AccountsInv' /\ Forgives(excused, excused')
  OBVIOUS
<1> USE DEF Pipeline!Loops
<1> DEFINE s == Len(hand["shield"])
           p == Len(hand["spear"])
           q == Len(queue)
           u == excused.unreported
           Done == AccountsInv' /\ Forgives(excused, excused')
<1>0. /\ Balanced(count, q, s, p, at["healer"], u) /\ q <= Capacity
      /\ excused \in Excused /\ q \in Nat /\ s \in Nat /\ p \in Nat
  BY DEF AccountsInv, Balanced
<1>1. \A l \in Pipeline!Loops :
        /\ at[l] \in {"idle", "test", "stopped"} <=> hand[l] = << >>
        /\ hand[l] \in Seq(Pipeline!Event) /\ at[l] \in PhasesOf(l)
  BY DEF CallsInv, HandOK
<1>2. Len(<< >>) = 0
  OBVIOUS
<1>3. \A l \in Pipeline!Loops : at[l] \in {"idle", "test", "stopped"} => Len(hand[l]) = 0
  BY <1>1, <1>2
<1>4. /\ at \in [Pipeline!Loops -> Pipeline!Phases]
      /\ hand \in [Pipeline!Loops -> Seq(Pipeline!Event)] /\ queue \in Seq(Pipeline!Event)
  BY DEF CallsInv
\* a task goes on: what it had in hand, and what it has
<1>5. ASSUME NEW l \in Pipeline!Loops, NEW phase, NEW events,
             Pipeline!Goes(l, phase, events)
      PROVE  /\ l = "shield" => /\ Len(hand'["shield"]) = Len(events)
                                /\ Len(hand'["spear"]) = p /\ at'["healer"] = at["healer"]
             /\ l = "spear" => /\ Len(hand'["spear"]) = Len(events)
                               /\ Len(hand'["shield"]) = s /\ at'["healer"] = at["healer"]
             /\ l = "healer" => /\ Len(hand'["spear"]) = p /\ Len(hand'["shield"]) = s
                                /\ at'["healer"] = phase
  BY <1>4, <1>5 DEF Pipeline!Goes
<1>6. ASSUME Forgives(excused, excused')
      PROVE  excused' \in Excused /\ u \subseteq excused'.unreported
  BY <1>6 DEF Forgives
<1>7. UNCHANGED excused => Forgives(excused, excused')
  BY <1>0 DEF Forgives, Excused
<1> HIDE DEF s, p, q, u
\* a step that leaves the counters, the channel and the hands as full as they are
<1>8. ASSUME UNCHANGED <<count, queue>>, Len(hand'["shield"]) = s, Len(hand'["spear"]) = p,
             at["healer"] = "stopped" => at'["healer"] = "stopped",
             Forgives(excused, excused')
      PROVE  Done
  <2>1. Balanced(count, q, s, p, at'["healer"], excused'.unreported)
    BY <1>0, <1>6, <1>8, BalancedFrame
  <2>2. QED BY <1>0, <1>6, <1>8, <2>1 DEF AccountsInv, q
<1>9. ASSUME NEW c, NEW lq, NEW ls, NEW lp, Balanced(c, lq, ls, lp, at["healer"], u),
             count' = c, Len(queue') = lq, lq <= Capacity,
             Len(hand'["shield"]) = ls, Len(hand'["spear"]) = lp,
             at["healer"] = "stopped" => at'["healer"] = "stopped",
             Forgives(excused, excused')
      PROVE  Done
  <2>1. Balanced(c, lq, ls, lp, at'["healer"], excused'.unreported)
    BY <1>6, <1>9, BalancedFrame
  <2>2. QED BY <1>6, <1>9, <2>1 DEF AccountsInv
<1>10. ASSUME NEW a \in Agents, NEW critical \in BOOLEAN, Pipeline!Observe(a, critical)
       PROVE  Done
  <2> DEFINE c == [count EXCEPT !.raised = @ + 1]
             events == <<Pipeline!EventOf("ShieldAlert", a, critical)>>
  <2>1. /\ at["shield"] = "idle" /\ count.raised + 1 <= MaxEvents /\ count' = c
        /\ Pipeline!Goes("shield", "record", events) /\ UNCHANGED <<queue, excused>>
    BY <1>10 DEF Pipeline!Observe, Pipeline!Raised
  <2>2. Balanced(c, q, s + 1, p, at["healer"], u)
    BY <1>0, <2>1, BalancedRaise
  <2>3. Len(events) = 1
    OBVIOUS
  <2> HIDE DEF c, events
  <2>4. /\ Len(hand'["shield"]) = s + 1 /\ Len(hand'["spear"]) = p
        /\ at'["healer"] = at["healer"]
    <3>1. s = 0
      BY <1>3, <2>1 DEF s
    <3>2. QED BY <1>5, <2>1, <2>3, <3>1
  <2>5. Len(queue') = q
    BY <2>1 DEF q
  <2>6. QED BY <1>0, <1>7, <1>9, <2>1, <2>2, <2>4, <2>5
<1>11. ASSUME NEW a \in Agents, Pipeline!Notify(a)
       PROVE  Done
  <2>1. /\ count.raised + 1 <= MaxEvents /\ UNCHANGED <<at, hand>>
        /\ excused' = [excused EXCEPT !.notified = @ \cup {a}]
    <3>1. /\ count.raised < MaxEvents /\ UNCHANGED <<at, hand>>
          /\ excused' = [excused EXCEPT !.notified = @ \cup {a}]
      BY <1>11 DEF Pipeline!Notify, Pipeline!tasks
    <3>2. count.raised \in Nat /\ MaxEvents \in Nat
      BY <1>0, PipelineConstants DEF Balanced
    <3>3. QED BY <3>1, <3>2
  <2>2. Forgives(excused, excused')
    BY <1>0, <2>1, ExcusedGrows
  <2>3. CASE at["healer"] = "stopped"
    <3>1. /\ count' = [count EXCEPT !.raised = @ + 1, !.refused = @ + 1]
          /\ UNCHANGED queue
      BY <1>11, <2>3 DEF Pipeline!Notify
    <3>2. Balanced([count EXCEPT !.raised = @ + 1, !.refused = @ + 1], q, s, p, at["healer"], u)
      BY <1>0, <2>1, <2>3, BalancedRaise
    <3>3. Len(queue') = q /\ Len(hand'["shield"]) = s /\ Len(hand'["spear"]) = p
      BY <2>1, <3>1 DEF q, s, p
    <3>4. QED BY <1>0, <1>9, <2>1, <2>2, <3>1, <3>2, <3>3
  <2>4. CASE at["healer"] # "stopped"
    <3>1. /\ count' = [count EXCEPT !.raised = @ + 1] /\ q < Capacity
          /\ queue' = Append(queue, Pipeline!EventOf("AgentFailure", a, FALSE))
      BY <1>11, <2>4 DEF Pipeline!Notify, q
    <3>2. Balanced([count EXCEPT !.raised = @ + 1], q + 1, s, p, at["healer"], u)
      BY <1>0, <2>1, BalancedRaise
    <3>3. Len(queue') = q + 1 /\ q + 1 <= Capacity
      <4>1. Pipeline!EventOf("AgentFailure", a, FALSE) \in Pipeline!Event
        BY DEF Pipeline!EventOf, Pipeline!Event
      <4>2. Len(queue') = Len(queue) + 1
        BY <1>4, <3>1, <4>1, AppendProperties
      <4>3. QED BY <1>0, <3>1, <4>2, PipelineConstants DEF q
    <3>4. Len(hand'["shield"]) = s /\ Len(hand'["spear"]) = p
      BY <2>1 DEF s, p
    <3>5. QED BY <1>9, <2>1, <2>2, <3>1, <3>2, <3>3, <3>4
  <2>5. QED BY <2>3, <2>4
<1>12. ASSUME NEW n \in 1 .. 2, Pipeline!TestsFail(n)
       PROVE  Done
  <2> DEFINE c == [count EXCEPT !.raised = @ + n]
             events == [i \in 1 .. n |-> Pipeline!EventOf("SpearFailure", Head(todo), FALSE)]
  <2>1. /\ at["spear"] = "test" /\ count.raised + n <= MaxEvents /\ count' = c
        /\ Pipeline!Goes("spear", "isolate", events) /\ UNCHANGED <<queue, excused>>
    BY <1>12 DEF Pipeline!TestsFail, Pipeline!Raised
  <2>2. Balanced(c, q, s, p + n, at["healer"], u)
    <3>1. n \in Nat
      OBVIOUS
    <3>2. QED BY <1>0, <2>1, <3>1, BalancedRaise
  <2>3. Len(events) = n /\ n \in Nat
    OBVIOUS
  <2> HIDE DEF c, events
  <2>4. /\ Len(hand'["spear"]) = p + n /\ Len(hand'["shield"]) = s
        /\ at'["healer"] = at["healer"]
    <3>1. p = 0
      BY <1>3, <2>1 DEF p
    <3>2. Len(hand'["spear"]) = Len(events)
      BY <1>5, <2>1
    <3>3. Len(events) = p + n
      BY ONLY <2>3, <3>1
    <3>4. QED BY <1>5, <2>1, <3>2, <3>3
  <2>5. Len(queue') = q
    BY <2>1 DEF q
  <2>6. QED BY <1>0, <1>7, <1>9, <2>1, <2>2, <2>4, <2>5
<1>13. ASSUME NEW l \in Pipeline!Loops, Pipeline!RecordViolation(l)
       PROVE  Done
  <2>1. /\ at[l] = "record" /\ l # "healer" /\ Pipeline!Goes(l, "send", hand[l])
        /\ UNCHANGED <<queue, count>> /\ Pipeline!Recorded("violation", hand[l][1].agent)
    BY <1>13 DEF Pipeline!RecordViolation
  <2>2. hand[l][1].agent \in Agents
    BY <2>1, AgentInHand
  <2>3. Forgives(excused, excused')
    <3>1. \/ excused' = excused
          \/ excused' = [excused EXCEPT !.unrecorded = @ \cup {hand[l][1].agent}]
      BY <2>1 DEF Pipeline!Recorded
    <3>2. Forgives(excused, [excused EXCEPT !.unrecorded = @ \cup {hand[l][1].agent}])
      BY <1>0, <2>2, ExcusedGrows
    <3>3. Forgives(excused, excused)
      BY <1>0, <2>2, ExcusedGrows
    <3>4. QED BY <3>1, <3>2, <3>3
  <2>4. /\ Len(hand'["shield"]) = s /\ Len(hand'["spear"]) = p /\ at'["healer"] = at["healer"]
    BY <1>5, <2>1 DEF s, p
  <2>5. QED BY <1>8, <2>1, <2>3, <2>4
<1>14. ASSUME NEW l \in Pipeline!Loops, Pipeline!Send(l)
       PROVE  Done
  <2> DEFINE phase == IF Len(hand[l]) > 1 THEN "send"
                      ELSE IF l = "spear" /\ todo # << >> THEN "test" ELSE "idle"
  <2>1. /\ at[l] = "send" /\ Pipeline!Enqueue(Head(hand[l])) /\ UNCHANGED excused
        /\ Pipeline!Goes(l, phase, Tail(hand[l]))
    BY <1>14 DEF Pipeline!Send, Pipeline!Sent
  <2>2. l # "healer"
    BY <1>1, <2>1 DEF PhasesOf
  <2>3. /\ Len(hand[l]) \in Nat /\ Len(hand[l]) > 0
        /\ Len(Tail(hand[l])) = Len(hand[l]) - 1
        /\ Head(hand[l]) \in Pipeline!Event
    BY <1>1, <2>1, AgentInHand, RestElems
  <2> HIDE DEF phase
  <2>4. /\ l = "shield" => /\ s > 0 /\ Len(hand'["shield"]) = s - 1
                           /\ Len(hand'["spear"]) = p
        /\ l = "spear" => /\ p > 0 /\ Len(hand'["spear"]) = p - 1
                          /\ Len(hand'["shield"]) = s
        /\ at'["healer"] = at["healer"]
    <3>1. l = "shield" => s = Len(hand[l])
      BY DEF s
    <3>2. l = "spear" => p = Len(hand[l])
      BY DEF p
    <3>3. QED BY <1>5, <2>1, <2>2, <2>3, <3>1, <3>2
  <2>5. CASE at["healer"] = "stopped"
    <3>1. count' = [count EXCEPT !.refused = @ + 1] /\ UNCHANGED queue
      BY <2>1, <2>5 DEF Pipeline!Enqueue
    <3>2. /\ s > 0 => Balanced(count', q, s - 1, p, at["healer"], u)
          /\ p > 0 => Balanced(count', q, s, p - 1, at["healer"], u)
      BY <1>0, <2>5, <3>1, BalancedSend
    <3>3. Len(queue') = q
      BY <3>1 DEF q
    <3>4. CASE l = "shield"
      BY <1>0, <1>7, <1>9, <2>1, <2>4, <3>2, <3>3, <3>4
    <3>5. CASE l = "spear"
      BY <1>0, <1>7, <1>9, <2>1, <2>4, <3>2, <3>3, <3>5
    <3>6. QED BY <2>2, <3>4, <3>5
  <2>6. CASE at["healer"] # "stopped"
    <3>1. queue' = Append(queue, Head(hand[l])) /\ q < Capacity /\ UNCHANGED count
      BY <2>1, <2>6 DEF Pipeline!Enqueue, q
    <3>2. /\ s > 0 => Balanced(count, q + 1, s - 1, p, at["healer"], u)
          /\ p > 0 => Balanced(count, q + 1, s, p - 1, at["healer"], u)
      BY <1>0, BalancedSend
    <3>3. Len(queue') = q + 1 /\ q + 1 <= Capacity
      <4>1. Len(queue') = Len(queue) + 1
        BY <1>4, <2>3, <3>1, AppendProperties
      <4>2. QED BY <1>0, <3>1, <4>1, PipelineConstants DEF q
    <3>4. CASE l = "shield"
      BY <1>7, <1>9, <2>1, <2>4, <3>1, <3>2, <3>3, <3>4
    <3>5. CASE l = "spear"
      BY <1>7, <1>9, <2>1, <2>4, <3>1, <3>2, <3>3, <3>5
    <3>6. QED BY <2>2, <3>4, <3>5
  <2>7. QED BY <2>5, <2>6
<1>15. ASSUME NEW l \in Pipeline!Loops, Pipeline!Stop(l)
       PROVE  Done
  <2>1. /\ at[l] = "idle" /\ Pipeline!Goes(l, "stopped", << >>)
        /\ UNCHANGED <<queue, count, excused>>
    BY <1>15 DEF Pipeline!Stop
  <2>2. Len(hand[l]) = 0
    BY <1>3, <2>1
  <2>3. /\ Len(hand'["shield"]) = s /\ Len(hand'["spear"]) = p
        /\ at["healer"] = "stopped" => at'["healer"] = "stopped"
    BY <1>2, <1>5, <2>1, <2>2 DEF s, p
  <2>4. QED BY <1>7, <1>8, <2>1, <2>3
\* SPEAR goes on to its next agent
<1>16. ASSUME at["spear"] \in {"idle", "test"}, Pipeline!NextAgent,
              UNCHANGED <<queue, count, excused>>
       PROVE  Done
  <2>1. p = 0
    BY <1>3, <1>16 DEF p
  <2>2. /\ Len(hand'["shield"]) = s /\ Len(hand'["spear"]) = p
        /\ at'["healer"] = at["healer"]
    BY <1>2, <1>5, <1>16, <2>1 DEF Pipeline!NextAgent
  <2>3. QED BY <1>7, <1>8, <1>16, <2>2
<1>17. ASSUME at["spear"] \in {"isolate", "report"}, NEW a, a = hand["spear"][1].agent,
              Pipeline!Unreported(a), UNCHANGED queue
       PROVE  Done
  <2> DEFINE v == excused'.unreported
             c == [count EXCEPT !.unsent = @ + Len(hand["spear"])]
  <2>1. /\ excused' = [excused EXCEPT !.unreported = @ \cup {a}]
        /\ count' = c /\ Pipeline!NextAgent
    BY <1>17 DEF Pipeline!Unreported
  <2>2. a \in Agents
    BY <1>17, AgentInHand
  <2>3. Forgives(excused, excused') /\ v # {}
    BY <1>0, <2>1, <2>2, ExcusedGrows
  <2>4. Balanced(count, q, s, p, at["healer"], v)
    BY <1>0, <1>6, <2>3, BalancedFrame
  <2>5. c = [count EXCEPT !.unsent = @ + p]
    BY DEF p
  <2> HIDE DEF v, c
  <2>6. Balanced(c, q, s, 0, at["healer"], v)
    BY <2>3, <2>4, <2>5, BalancedUnsent
  <2>7. /\ Len(hand'["shield"]) = s /\ Len(hand'["spear"]) = 0
        /\ at'["healer"] = at["healer"]
    BY <1>2, <1>5, <2>1 DEF Pipeline!NextAgent
  <2>8. Len(queue') = q
    BY <1>17 DEF q
  <2>9. QED BY <1>0, <1>6, <2>1, <2>3, <2>6, <2>7, <2>8 DEF AccountsInv, v
<1>18. ASSUME Pipeline!RunStarts \/ Pipeline!TestsEnd
       PROVE  Done
  BY <1>16, <1>18 DEF Pipeline!RunStarts, Pipeline!TestsEnd
\* a task goes on with what it has in hand
<1>19. ASSUME NEW phase, Pipeline!Goes("spear", phase, hand["spear"]),
              UNCHANGED <<queue, count, excused>>
       PROVE  Done
  <2>1. /\ Len(hand'["shield"]) = s /\ Len(hand'["spear"]) = p /\ at'["healer"] = at["healer"]
    BY <1>5, <1>19 DEF p
  <2>2. QED BY <1>7, <1>8, <1>19, <2>1
<1>20. ASSUME NEW ok \in BOOLEAN, NEW applied \in BOOLEAN, Pipeline!Isolate(ok, applied)
       PROVE  Done
  <2>1. at["spear"] = "isolate" /\ UNCHANGED queue
    BY <1>20 DEF Pipeline!Isolate
  <2>2. CASE Pipeline!Goes("spear", "report", hand["spear"]) /\ UNCHANGED <<excused, count>>
    BY <1>19, <2>1, <2>2
  <2>3. CASE Pipeline!Unreported(hand["spear"][1].agent)
    BY <1>17, <2>1, <2>3
  <2>4. QED BY <1>20, <2>2, <2>3 DEF Pipeline!Isolate
<1>21. ASSUME NEW ok \in BOOLEAN, Pipeline!Report(ok)
       PROVE  Done
  <2>1. at["spear"] = "report" /\ UNCHANGED queue
    BY <1>21 DEF Pipeline!Report
  <2>2. CASE Pipeline!Goes("spear", "record", hand["spear"]) /\ UNCHANGED <<excused, count>>
    BY <1>19, <2>1, <2>2
  <2>3. CASE Pipeline!Unreported(hand["spear"][1].agent)
    BY <1>17, <2>1, <2>3
  <2>4. QED BY <1>21, <2>2, <2>3 DEF Pipeline!Report
\* HEALER, which has not stopped, goes on
<1>22. ASSUME at["healer"] # "stopped", NEW phase, NEW events,
              Pipeline!Goes("healer", phase, events), UNCHANGED <<queue, count>>,
              Forgives(excused, excused')
       PROVE  Done
  <2>1. Len(hand'["shield"]) = s /\ Len(hand'["spear"]) = p
    BY <1>5, <1>22
  <2>2. QED BY <1>8, <1>22, <2>1
<1>23. ASSUME Pipeline!Take
       PROVE  Done
  <2>1. /\ at["healer"] = "idle" /\ queue # << >> /\ queue' = Tail(queue)
        /\ count' = [count EXCEPT !.taken = @ + 1] /\ UNCHANGED excused
    BY <1>23 DEF Pipeline!Take
  <2>2. q > 0 /\ Len(queue') = q - 1
    <3>1. q # 0
      BY <1>4, <2>1, HandElems DEF q
    <3>2. Len(Tail(queue)) = Len(queue) - 1
      BY <1>4, <2>1, RestElems
    <3>3. QED BY <1>0, <2>1, <3>1, <3>2 DEF q
  <2>3. Balanced(count', q - 1, s, p, at["healer"], u)
    BY <1>0, <2>1, <2>2, BalancedTake
  <2>4. Len(hand'["shield"]) = s /\ Len(hand'["spear"]) = p
    <3>1. CASE UNCHANGED Pipeline!tasks
      BY <3>1 DEF Pipeline!tasks, s, p
    <3>2. CASE Pipeline!Goes("healer", "diagnose", <<Head(queue)>>)
      BY <1>5, <3>2
    <3>3. QED BY <1>23, <3>1, <3>2 DEF Pipeline!Take
  <2>5. at["healer"] # "stopped" /\ q - 1 <= Capacity
    BY <1>0, <2>1, PipelineConstants
  <2>6. QED BY <1>7, <1>9, <2>1, <2>2, <2>3, <2>4, <2>5
<1>24. ASSUME NEW ok \in BOOLEAN, Pipeline!Diagnose(ok) \/ Pipeline!Deployed(ok)
       PROVE  Done
  BY <1>7, <1>22, <1>24 DEF Pipeline!Diagnose, Pipeline!Deployed, Pipeline!Rests
<1>25. ASSUME Pipeline!TestFixFails \/ Pipeline!ApplyFix
       PROVE  Done
  BY <1>7, <1>22, <1>25 DEF Pipeline!TestFixFails, Pipeline!ApplyFix, Pipeline!Rests
<1>26. ASSUME Pipeline!RecordFix
       PROVE  Done
  <2>1. /\ at["healer"] = "record" /\ Pipeline!Goes("healer", "idle", << >>)
        /\ UNCHANGED <<queue, count>> /\ Pipeline!Recorded("fix", hand["healer"][1].agent)
    BY <1>26 DEF Pipeline!RecordFix, Pipeline!Rests
  <2>2. hand["healer"][1].agent \in Agents
    BY <2>1, AgentInHand
  <2>3. Forgives(excused, excused')
    <3>1. \/ excused' = excused
          \/ excused' = [excused EXCEPT !.unrecorded = @ \cup {hand["healer"][1].agent}]
      BY <2>1 DEF Pipeline!Recorded
    <3>2. Forgives(excused, [excused EXCEPT !.unrecorded = @ \cup {hand["healer"][1].agent}])
      BY <1>0, <2>2, ExcusedGrows
    <3>3. Forgives(excused, excused)
      BY <1>0, <2>2, ExcusedGrows
    <3>4. QED BY <3>1, <3>2, <3>3
  <2>4. QED BY <1>22, <2>1, <2>3
<1>27. ASSUME Pipeline!Shutdown \/ Pipeline!Tick
       PROVE  Done
  <2>1. UNCHANGED <<at, hand, queue, count, excused>>
    BY <1>27 DEF Pipeline!Shutdown, Pipeline!Tick, Pipeline!tasks
  <2>2. Len(hand'["shield"]) = s /\ Len(hand'["spear"]) = p
    BY <2>1 DEF s, p
  <2>3. QED BY <1>7, <1>8, <2>1, <2>2
<1>28. QED
  BY <1>10, <1>11, <1>12, <1>13, <1>14, <1>15, <1>18, <1>20, <1>21, <1>23, <1>24, <1>25,
     <1>26, <1>27
  DEF Pipeline!Next, Pipeline!Works, Pipeline!Spear, Pipeline!Heal

-----------------------------------------------------------------------------
(* The trail of the pipeline explains itself.                              *)

TrailRecord == [kind: {"violation", "fix"}, agent: Agents]

\* what stands behind a fix of agent a: in the trail tr, or in what x excuses
OnRecord(tr, a) == \E i \in DOMAIN tr : tr[i] = [kind |-> "violation", agent |-> a]
Caused(tr, x, a) == OnRecord(tr, a) \/ a \in x.notified \cup x.unrecorded

FixesCaused(tr, x) ==
  \A i \in DOMAIN tr : tr[i].kind = "fix" =>
    \/ \E j \in 1 .. (i - 1) : tr[j] = [kind |-> "violation", agent |-> tr[i].agent]
    \/ tr[i].agent \in x.notified \cup x.unrecorded

\* the events a task is about to send, and those HEALER handles, have a cause
HeldOK(tr, x, l, phase, events) ==
  l = "healer" \/ phase = "send" =>
    \A i \in DOMAIN events : Caused(tr, x, events[i].agent)

TrailInv ==
  /\ chain \in Seq(TrailRecord) /\ FixesCaused(chain, excused)
  /\ \A i \in DOMAIN queue : Caused(chain, excused, queue[i].agent)
  /\ \A l \in Pipeline!Loops : HeldOK(chain, excused, l, at[l], hand[l])

AuditInv == isolated \subseteq Agents /\ Pipeline!IsolationIsAudited

\* a record more loses none, and a violation recorded is on record
LEMMA TrailGrows ==
  ASSUME NEW tr \in Seq(TrailRecord), NEW r \in TrailRecord
  PROVE  /\ Append(tr, r) \in Seq(TrailRecord)
         /\ \A a : OnRecord(tr, a) => OnRecord(Append(tr, r), a)
         /\ r.kind = "violation" => OnRecord(Append(tr, r), r.agent)
<1> DEFINE n == Len(tr)
           s == Append(tr, r)
<1>1. /\ n \in Nat /\ DOMAIN tr = 1 .. n /\ s \in Seq(TrailRecord)
      /\ DOMAIN s = 1 .. n + 1 /\ s[n + 1] = r /\ \A i \in 1 .. n : s[i] = tr[i]
  BY LenProperties, AppendProperties
<1> HIDE DEF n, s
<1>2. \A a : OnRecord(tr, a) => OnRecord(s, a)
  BY <1>1 DEF OnRecord
<1>3. ASSUME r.kind = "violation" PROVE OnRecord(s, r.agent)
  <2>1. r = [kind |-> "violation", agent |-> r.agent]
    BY <1>3 DEF TrailRecord
  <2>2. n + 1 \in DOMAIN s /\ s[n + 1] = [kind |-> "violation", agent |-> r.agent]
    BY <1>1, <2>1
  <2>3. QED BY <2>2 DEF OnRecord
<1>4. QED BY <1>1, <1>2, <1>3 DEF s

\* a record added to the trail keeps the fixes explained, if it is itself
LEMMA FixesStayCaused ==
  ASSUME NEW tr \in Seq(TrailRecord), NEW x \in Excused, FixesCaused(tr, x),
         NEW y, Forgives(x, y)
  PROVE  /\ FixesCaused(tr, y)
         /\ \A r \in TrailRecord : r.kind = "violation" \/ Caused(tr, y, r.agent)
              => FixesCaused(Append(tr, r), y)
<1> DEFINE n == Len(tr)
<1>1. n \in Nat /\ DOMAIN tr = 1 .. n
  BY LenProperties
<1>2. FixesCaused(tr, y)
  BY DEF FixesCaused, Forgives
<1>3. ASSUME NEW r \in TrailRecord, r.kind = "violation" \/ Caused(tr, y, r.agent)
      PROVE  FixesCaused(Append(tr, r), y)
  <2> DEFINE s == Append(tr, r)
  <2>1. DOMAIN s = 1 .. n + 1 /\ s[n + 1] = r /\ \A i \in 1 .. n : s[i] = tr[i]
    BY AppendProperties, LenProperties
  <2> HIDE DEF n, s
  <2>2. ASSUME NEW i \in DOMAIN s, s[i].kind = "fix"
        PROVE  \/ \E j \in 1 .. (i - 1) : s[j] = [kind |-> "violation", agent |-> s[i].agent]
               \/ s[i].agent \in y.notified \cup y.unrecorded
    <3>1. CASE i \in 1 .. n
      <4>1. s[i] = tr[i] /\ \A j \in 1 .. (i - 1) : s[j] = tr[j]
        BY <1>1, <2>1, <3>1
      <4>2. QED BY <1>1, <1>2, <2>2, <3>1, <4>1 DEF FixesCaused
    <3>2. CASE i = n + 1
      <4>1. s[i] = r /\ (i - 1) = n
        BY <1>1, <2>1, <3>2
      <4>2. Caused(tr, y, r.agent)
        BY <1>3, <2>2, <4>1
      <4>3. CASE OnRecord(tr, r.agent)
        <5>1. PICK j \in 1 .. n : tr[j] = [kind |-> "violation", agent |-> r.agent]
          BY <1>1, <4>3 DEF OnRecord
        <5>2. s[j] = [kind |-> "violation", agent |-> s[i].agent] /\ j \in 1 .. (i - 1)
          BY <2>1, <4>1, <5>1
        <5>3. QED BY <5>2
      <4>4. CASE r.agent \in y.notified \cup y.unrecorded
        BY <4>1, <4>4
      <4>5. QED BY <4>2, <4>3, <4>4 DEF Caused
    <3>3. QED BY <1>1, <2>1, <2>2, <3>1, <3>2
  <2>3. QED BY <2>2 DEF FixesCaused, s
<1>4. QED BY <1>2, <1>3

\* a record of the trail is made of what a task has in hand
LEMMA RecordedIs ==
  ASSUME NEW k \in {"violation", "fix"}, NEW a \in Agents, Pipeline!Recorded(k, a)
  PROVE  \/ \E r \in TrailRecord : r.kind = k /\ r.agent = a /\ chain' = Append(chain, r)
         \/ chain' = chain /\ excused' = [excused EXCEPT !.unrecorded = @ \cup {a}]
<1> DEFINE r == [kind |-> k, agent |-> a]
<1>1. r \in TrailRecord /\ r.kind = k /\ r.agent = a
  BY DEF TrailRecord
<1> HIDE DEF r
<1>2. \/ chain' = Append(chain, r)
      \/ chain' = chain /\ excused' = [excused EXCEPT !.unrecorded = @ \cup {a}]
  BY DEF Pipeline!Recorded, r
<1>3. QED BY <1>1, <1>2

\* the trail after a step: it is typed, explained, and what had a cause has it
LEMMA TrailStep ==
  CallsInv /\ AccountsInv /\ TrailInv /\ Pipeline!Next =>
    /\ chain' \in Seq(TrailRecord) /\ FixesCaused(chain', excused')
    /\ \A a : OnRecord(chain, a) => OnRecord(chain', a)
    /\ \A a : Caused(chain, excused, a) => Caused(chain', excused', a)
<1> SUFFICES ASSUME CallsInv, AccountsInv, TrailInv, Pipeline!Next
             PROVE  /\ chain' \in Seq(TrailRecord) /\ FixesCaused(chain', excused')
                    /\ \A a : OnRecord(chain, a) => OnRecord(chain', a)
                    /\ \A a : Caused(chain, excused, a) => Caused(chain', excused', a)
  OBVIOUS
<1>1. /\ Forgives(excused, excused') /\ excused \in Excused
      /\ chain \in Seq(TrailRecord) /\ FixesCaused(chain, excused)
  BY AccountsStep DEF AccountsInv, TrailInv
<1>2. FixesCaused(chain, excused')
      /\ \A r \in TrailRecord : r.kind = "violation" \/ Caused(chain, excused', r.agent)
              => FixesCaused(Append(chain, r), excused')
  BY <1>1, FixesStayCaused
<1>3. \A a : Caused(chain, excused, a) => Caused(chain, excused', a)
  BY <1>1 DEF Caused, Forgives
<1>4. CASE UNCHANGED chain
  BY <1>1, <1>2, <1>3, <1>4
<1>5. ASSUME NEW r \in TrailRecord, chain' = Append(chain, r),
             r.kind = "violation" \/ Caused(chain, excused', r.agent)
      PROVE  /\ chain' \in Seq(TrailRecord) /\ FixesCaused(chain', excused')
             /\ \A a : OnRecord(chain, a) => OnRecord(chain', a)
             /\ \A a : Caused(chain, excused, a) => Caused(chain', excused', a)
  <2>1. chain' \in Seq(TrailRecord) /\ \A a : OnRecord(chain, a) => OnRecord(chain', a)
    BY <1>1, <1>5, TrailGrows
  <2>2. \A a : Caused(chain, excused', a) => Caused(chain', excused', a)
    BY <2>1 DEF Caused
  <2>3. QED BY <1>2, <1>3, <1>5, <2>1, <2>2
<1>6. ASSUME NEW l \in Pipeline!Loops, Pipeline!RecordViolation(l), chain' # chain
      PROVE  \E r \in TrailRecord : r.kind = "violation" /\ chain' = Append(chain, r)
  <2>1. at[l] = "record" /\ Pipeline!Recorded("violation", hand[l][1].agent)
    BY <1>6 DEF Pipeline!RecordViolation
  <2>2. hand[l][1].agent \in Agents
    BY <2>1, AgentInHand
  <2>3. QED BY <1>6, <2>1, <2>2, RecordedIs
<1>7. ASSUME Pipeline!RecordFix, chain' # chain
      PROVE  \E r \in TrailRecord : Caused(chain, excused', r.agent) /\ chain' = Append(chain, r)
  <2>1. at["healer"] = "record" /\ Pipeline!Recorded("fix", hand["healer"][1].agent)
    BY <1>7 DEF Pipeline!RecordFix
  <2>2. hand["healer"][1].agent \in Agents /\ 1 \in DOMAIN hand["healer"]
    BY <2>1, AgentInHand DEF Pipeline!Loops
  <2>3. Caused(chain, excused, hand["healer"][1].agent)
    BY <2>2 DEF TrailInv, HeldOK, Pipeline!Loops
  <2>4. QED BY <1>3, <1>7, <2>1, <2>2, <2>3, RecordedIs
<1>8. \/ UNCHANGED chain
      \/ \E l \in Pipeline!Loops : Pipeline!RecordViolation(l)
      \/ Pipeline!RecordFix
  BY DEF Pipeline!Next, Pipeline!Works, Pipeline!Spear, Pipeline!Heal, Pipeline!Observe,
         Pipeline!Notify, Pipeline!TestsFail, Pipeline!Send, Pipeline!Sent, Pipeline!Stop,
         Pipeline!RunStarts, Pipeline!TestsEnd, Pipeline!Isolate, Pipeline!Report,
         Pipeline!Take, Pipeline!TestFixFails, Pipeline!ApplyFix, Pipeline!Diagnose,
         Pipeline!Deployed, Pipeline!Shutdown, Pipeline!Tick
<1>9. QED BY <1>4, <1>5, <1>6, <1>7, <1>8

\* what is queued and in hand after a step has a cause
LEMMA CausesStep == CallsInv /\ AccountsInv /\ TrailInv /\ Pipeline!Next => TrailInv'
<1> SUFFICES ASSUME CallsInv, AccountsInv, TrailInv, Pipeline!Next PROVE TrailInv'
  OBVIOUS
<1> USE DEF Pipeline!Loops
<1> DEFINE C(a) == Caused(chain', excused', a)
           Queued == \A i \in DOMAIN queue' : C(queue'[i].agent)
           H(l, p, events) == HeldOK(chain', excused', l, p, events)
<1>1. /\ chain' \in Seq(TrailRecord) /\ FixesCaused(chain', excused')
      /\ \A a : OnRecord(chain, a) => OnRecord(chain', a)
      /\ \A a : Caused(chain, excused, a) => C(a)
  BY TrailStep
<1>2. Forgives(excused, excused') /\ excused \in Excused
  BY AccountsStep DEF AccountsInv
<1>3. \A i \in DOMAIN queue : C(queue[i].agent)
  BY <1>1 DEF TrailInv
<1>4. /\ \A l \in Pipeline!Loops : H(l, at[l], hand[l])
      /\ \A l \in Pipeline!Loops : \A p : H(l, p, << >>)
  BY <1>1 DEF TrailInv, HeldOK
<1>5. UNCHANGED queue => Queued
  BY <1>3
<1> HIDE DEF C
\* a task goes on, with events that have a cause
<1>6. ASSUME NEW l \in Pipeline!Loops, NEW p, NEW events, Pipeline!Goes(l, p, events),
             H(l, p, events), Queued
      PROVE  TrailInv'
  <2>1. \A m \in Pipeline!Loops : \/ (m = l /\ at'[m] = p /\ hand'[m] = events)
                                 \/ (at'[m] = at[m] /\ hand'[m] = hand[m])
    <3> TAKE m \in Pipeline!Loops
    <3>1. at' = [at EXCEPT ![l] = p] /\ hand' = [hand EXCEPT ![l] = events]
      BY <1>6 DEF Pipeline!Goes
    <3>2. /\ m = l => at'[m] = p /\ hand'[m] = events
          /\ m # l => at'[m] = at[m] /\ hand'[m] = hand[m]
      BY <3>1 DEF CallsInv
    <3>3. QED BY Zenon, <3>2
  <2>2. \A m \in Pipeline!Loops : H(m, at'[m], hand'[m])
    BY <1>4, <1>6, <2>1
  <2>3. QED BY <1>1, <1>6, <2>2 DEF TrailInv, C
<1>7. ASSUME UNCHANGED Pipeline!tasks, Queued
      PROVE  TrailInv'
  BY <1>1, <1>4, <1>7 DEF TrailInv, C, Pipeline!tasks
\* the shield or the spear goes on to a phase in which nothing is sent
<1>8. ASSUME NEW l \in {"shield", "spear"}, NEW p, p # "send", NEW events,
             Pipeline!Goes(l, p, events), UNCHANGED queue
      PROVE  TrailInv'
  BY <1>5, <1>6, <1>8 DEF HeldOK
\* HEALER goes on with what it has in hand, or with nothing
<1>9. ASSUME NEW p, Pipeline!Goes("healer", p, hand["healer"]) \/ Pipeline!Goes("healer", p, << >>),
             UNCHANGED queue
      PROVE  TrailInv'
  <2>1. H("healer", p, hand["healer"])
    BY <1>4 DEF HeldOK
  <2>2. QED BY <1>4, <1>5, <1>6, <1>9, <2>1
<1>10. ASSUME NEW a \in Agents, Pipeline!Notify(a)
       PROVE  TrailInv'
  <2> DEFINE e == Pipeline!EventOf("AgentFailure", a, FALSE)
  <2>1. /\ UNCHANGED Pipeline!tasks
        /\ (queue' = queue \/ queue' = Append(queue, e))
        /\ excused' = [excused EXCEPT !.notified = @ \cup {a}]
    BY <1>10 DEF Pipeline!Notify
  <2>2. C(a)
    BY <1>2, <2>1, ExcusedGrows DEF C, Caused
  <2>3. e \in Pipeline!Event /\ e.agent = a
    BY DEF Pipeline!EventOf, Pipeline!Event
  <2> HIDE DEF e
  <2>4. CASE queue' = Append(queue, e)
    <3>1. DOMAIN queue = 1 .. Len(queue) /\ Len(queue) \in Nat
      BY LenProperties DEF CallsInv
    <3>2. /\ DOMAIN queue' = 1 .. Len(queue) + 1 /\ queue'[Len(queue) + 1] = e
          /\ \A i \in 1 .. Len(queue) : queue'[i] = queue[i]
      BY <2>3, <2>4, <3>1, AppendProperties, LenProperties DEF CallsInv
    <3>3. Queued
      BY <1>3, <2>2, <2>3, <3>1, <3>2
    <3>4. QED BY <1>7, <2>1, <3>3
  <2>5. QED BY <1>5, <1>7, <2>1, <2>4
<1>11. ASSUME NEW l \in Pipeline!Loops, Pipeline!RecordViolation(l)
       PROVE  TrailInv'
  <2> DEFINE a == hand[l][1].agent
  <2>1. /\ at[l] = "record" /\ l # "healer" /\ Pipeline!Goes(l, "send", hand[l])
        /\ UNCHANGED queue /\ Pipeline!Recorded("violation", a)
    BY <1>11 DEF Pipeline!RecordViolation
  <2>2. a \in Agents /\ \A i \in DOMAIN hand[l] : hand[l][i].agent = a
    BY <2>1, AgentInHand
  <2> HIDE DEF a
  <2>3. C(a)
    <3>1. CASE \E r \in TrailRecord : r.kind = "violation" /\ r.agent = a
                 /\ chain' = Append(chain, r)
      BY <3>1, TrailGrows DEF C, Caused, TrailInv
    <3>2. CASE excused' = [excused EXCEPT !.unrecorded = @ \cup {a}]
      BY <1>2, <2>2, <3>2, ExcusedGrows DEF C, Caused
    <3>3. QED BY <2>1, <2>2, <3>1, <3>2, RecordedIs
  <2>4. H(l, "send", hand[l])
    BY <2>2, <2>3 DEF HeldOK, C
  <2>5. QED BY <1>5, <1>6, <2>1, <2>4
<1>12. ASSUME NEW l \in Pipeline!Loops, Pipeline!Send(l)
       PROVE  TrailInv'
  <2> DEFINE p == IF Len(hand[l]) > 1 THEN "send"
                  ELSE IF l = "spear" /\ todo # << >> THEN "test" ELSE "idle"
             e == Head(hand[l])
  <2>1. /\ at[l] = "send" /\ Pipeline!Enqueue(e) /\ Pipeline!Goes(l, p, Tail(hand[l]))
    BY <1>12 DEF Pipeline!Send, Pipeline!Sent
  <2>2. /\ hand[l] # << >> /\ e = hand[l][1] /\ 1 \in DOMAIN hand[l]
        /\ hand[l] \in Seq(Pipeline!Event)
    BY <2>1, AgentInHand DEF CallsInv
  <2>3. \A i \in DOMAIN hand[l] : C(hand[l][i].agent)
    BY <1>4, <2>1 DEF HeldOK, C
  <2>4. e \in Pipeline!Event /\ \A i \in DOMAIN Tail(hand[l]) :
               Tail(hand[l])[i] = hand[l][i + 1] /\ i + 1 \in DOMAIN hand[l]
    BY <2>2, RestElems
  <2>5. H(l, p, Tail(hand[l]))
    BY <2>3, <2>4 DEF HeldOK, C
  <2>6. C(e.agent)
    BY <2>2, <2>3
  <2>7. queue' = queue \/ queue' = Append(queue, e)
    BY <2>1 DEF Pipeline!Enqueue
  <2> HIDE DEF e, p
  <2>8. Queued
    <3>1. DOMAIN queue = 1 .. Len(queue) /\ Len(queue) \in Nat
      BY LenProperties DEF CallsInv
    <3>2. CASE queue' = Append(queue, e)
      <4>1. /\ DOMAIN queue' = 1 .. Len(queue) + 1 /\ queue'[Len(queue) + 1] = e
            /\ \A i \in 1 .. Len(queue) : queue'[i] = queue[i]
        BY <2>4, <3>1, <3>2, AppendProperties, LenProperties DEF CallsInv
      <4>2. QED BY <1>3, <2>6, <3>1, <4>1
    <3>3. QED BY <1>5, <2>7, <3>2
  <2>9. QED BY <1>6, <2>1, <2>5, <2>8
<1>13. ASSUME Pipeline!Take
       PROVE  TrailInv'
  <2>1. queue # << >> /\ queue' = Tail(queue) /\ queue \in Seq(Pipeline!Event)
    BY <1>13 DEF Pipeline!Take, CallsInv
  <2>2. /\ Head(queue) = queue[1] /\ 1 \in DOMAIN queue
        /\ \A i \in DOMAIN Tail(queue) : Tail(queue)[i] = queue[i + 1] /\ i + 1 \in DOMAIN queue
    BY <2>1, RestElems, HandElems
  <2>3. Queued
    BY <1>3, <2>1, <2>2
  <2>4. H("healer", "diagnose", <<Head(queue)>>)
    <3>1. C(Head(queue).agent)
      BY <1>3, <2>2
    <3>2. \A i \in DOMAIN <<Head(queue)>> : <<Head(queue)>>[i] = Head(queue)
      OBVIOUS
    <3>3. QED BY <3>1, <3>2 DEF HeldOK, C
  <2>5. \/ UNCHANGED Pipeline!tasks
        \/ Pipeline!Goes("healer", "diagnose", <<Head(queue)>>)
    BY <1>13 DEF Pipeline!Take
  <2>6. QED BY <1>6, <1>7, <2>3, <2>4, <2>5
<1>14. ASSUME NEW l \in Pipeline!Loops, Pipeline!Stop(l)
       PROVE  TrailInv'
  BY <1>8, <1>9, <1>14 DEF Pipeline!Stop
<1>15. ASSUME \/ \E a \in Agents, critical \in BOOLEAN : Pipeline!Observe(a, critical)
              \/ \E n \in 1 .. 2 : Pipeline!TestsFail(n)
              \/ Pipeline!RunStarts \/ Pipeline!Spear
       PROVE  TrailInv'
  <2>1. \E l \in {"shield", "spear"} : \E p, events :
          p # "send" /\ Pipeline!Goes(l, p, events) /\ UNCHANGED queue
    BY <1>15
    DEF Pipeline!Observe, Pipeline!TestsFail, Pipeline!RunStarts, Pipeline!Spear,
        Pipeline!TestsEnd, Pipeline!Isolate, Pipeline!Report, Pipeline!Unreported,
        Pipeline!NextAgent
  <2>2. QED BY <1>8, <2>1
<1>16. ASSUME \/ \E ok \in BOOLEAN : Pipeline!Diagnose(ok) \/ Pipeline!Deployed(ok)
              \/ Pipeline!TestFixFails \/ Pipeline!ApplyFix \/ Pipeline!RecordFix
       PROVE  TrailInv'
  <2>1. \E p : /\ \/ Pipeline!Goes("healer", p, hand["healer"])
                  \/ Pipeline!Goes("healer", p, << >>)
               /\ UNCHANGED queue
    BY <1>16
    DEF Pipeline!Diagnose, Pipeline!Deployed, Pipeline!TestFixFails, Pipeline!ApplyFix,
        Pipeline!RecordFix, Pipeline!Rests
  <2>2. QED BY <1>9, <2>1
<1>17. ASSUME Pipeline!Shutdown \/ Pipeline!Tick
       PROVE  TrailInv'
  BY <1>5, <1>7, <1>17 DEF Pipeline!Shutdown, Pipeline!Tick
<1>18. QED
  BY <1>10, <1>11, <1>12, <1>13, <1>14, <1>15, <1>16, <1>17
  DEF Pipeline!Next, Pipeline!Works, Pipeline!Heal

\* an agent out of routing stays accounted for
LEMMA AuditStep ==
  CallsInv /\ AccountsInv /\ TrailInv /\ AuditInv /\ Pipeline!Next => AuditInv'
<1> SUFFICES ASSUME CallsInv, AccountsInv, TrailInv, AuditInv, Pipeline!Next PROVE AuditInv'
  OBVIOUS
<1> USE DEF Pipeline!Loops
<1> DEFINE Known(a) == \/ OnRecord(chain', a)
                       \/ a \in excused'.unrecorded \cup excused'.unreported
           Due(a) == at'["spear"] \in {"report", "record"} /\ hand'["spear"][1].agent = a
<1>1. /\ \A a : OnRecord(chain, a) => OnRecord(chain', a)
      /\ Forgives(excused, excused') /\ excused \in Excused /\ chain \in Seq(TrailRecord)
  BY TrailStep, AccountsStep DEF AccountsInv, TrailInv
<1>2. \A a \in isolated :
        \/ Known(a)
        \/ at["spear"] \in {"report", "record"} /\ hand["spear"][1].agent = a
  <2>1. \A a \in isolated :
          \/ OnRecord(chain, a)
          \/ a \in excused.unrecorded \cup excused.unreported
          \/ at["spear"] \in {"report", "record"} /\ hand["spear"][1].agent = a
    BY Zenon DEF AuditInv, Pipeline!IsolationIsAudited, OnRecord
  <2>2. excused.unrecorded \cup excused.unreported
          \subseteq excused'.unrecorded \cup excused'.unreported
    BY <1>1 DEF Forgives
  <2>3. QED BY <1>1, <2>1, <2>2
<1>3. ASSUME isolated' \subseteq Agents, \A a \in isolated' : Known(a) \/ Due(a)
      PROVE  AuditInv'
  BY <1>3 DEF AuditInv, Pipeline!IsolationIsAudited, OnRecord
<1>4. isolated \subseteq Agents
  BY DEF AuditInv
<1>5. at \in [Pipeline!Loops -> Pipeline!Phases] /\ hand \in [Pipeline!Loops -> Seq(Pipeline!Event)]
  BY DEF CallsInv
<1> HIDE DEF Known
\* a step of another task, or of SPEAR when it has nobody to answer for
<1>6. ASSUME UNCHANGED isolated,
             at["spear"] \notin {"report", "record"} \/ UNCHANGED <<at["spear"], hand["spear"]>>
      PROVE  AuditInv'
  BY <1>2, <1>3, <1>4, <1>6
\* the notifier fails: the agent is excused
<1>7. ASSUME at["spear"] \in {"isolate", "report"}, NEW a, a = hand["spear"][1].agent,
             Pipeline!Unreported(a)
      PROVE  a \in Agents /\ Known(a)
  <2>1. excused' = [excused EXCEPT !.unreported = @ \cup {a}] /\ a \in Agents
    BY <1>7, AgentInHand DEF Pipeline!Unreported
  <2>2. QED BY <1>1, <2>1, ExcusedGrows DEF Known
<1>8. ASSUME NEW ok \in BOOLEAN, NEW applied \in BOOLEAN, Pipeline!Isolate(ok, applied)
      PROVE  AuditInv'
  <2> DEFINE a == hand["spear"][1].agent
  <2>1. /\ at["spear"] = "isolate" /\ isolated' \subseteq isolated \cup {a}
    BY <1>8 DEF Pipeline!Isolate
  <2>2. a \in Agents
    BY <2>1, AgentInHand
  <2>3. \A b \in isolated : Known(b)
    BY <1>2, <2>1
  <2>4. CASE Pipeline!Goes("spear", "report", hand["spear"])
    <3>1. at'["spear"] = "report" /\ hand'["spear"] = hand["spear"]
      BY <1>5, <2>4 DEF Pipeline!Goes
    <3>2. QED BY <1>3, <1>4, <2>1, <2>2, <2>3, <3>1
  <2>5. CASE Pipeline!Unreported(a)
    <3>1. Known(a)
      BY <1>7, <2>1, <2>5
    <3>2. QED BY <1>3, <1>4, <2>1, <2>2, <2>3, <3>1
  <2>6. QED BY <1>8, <2>4, <2>5 DEF Pipeline!Isolate
<1>9. ASSUME NEW ok \in BOOLEAN, Pipeline!Report(ok)
      PROVE  AuditInv'
  <2> DEFINE a == hand["spear"][1].agent
  <2>1. at["spear"] = "report" /\ isolated' = isolated
    BY <1>9 DEF Pipeline!Report
  <2>2. \A b \in isolated : Known(b) \/ b = a
    BY <1>2
  <2>3. CASE Pipeline!Goes("spear", "record", hand["spear"])
    <3>1. at'["spear"] = "record" /\ hand'["spear"] = hand["spear"]
      BY <1>5, <2>3 DEF Pipeline!Goes
    <3>2. QED BY <1>3, <1>4, <2>1, <2>2, <3>1
  <2>4. CASE Pipeline!Unreported(a)
    <3>1. Known(a)
      BY <1>7, <2>1, <2>4
    <3>2. QED BY <1>3, <1>4, <2>1, <2>2, <3>1
  <2>5. QED BY <1>9, <2>3, <2>4 DEF Pipeline!Report
<1>10. ASSUME Pipeline!RecordViolation("spear")
       PROVE  AuditInv'
  <2> DEFINE a == hand["spear"][1].agent
  <2>1. /\ at["spear"] = "record" /\ isolated' = isolated
        /\ Pipeline!Recorded("violation", a)
    BY <1>10 DEF Pipeline!RecordViolation
  <2>2. a \in Agents
    BY <2>1, AgentInHand
  <2> HIDE DEF a
  <2>3. Known(a)
    <3>1. CASE \E r \in TrailRecord : r.kind = "violation" /\ r.agent = a
                 /\ chain' = Append(chain, r)
      BY <1>1, <3>1, TrailGrows DEF Known
    <3>2. CASE excused' = [excused EXCEPT !.unrecorded = @ \cup {a}]
      BY <1>1, <2>2, <3>2, ExcusedGrows DEF Known
    <3>3. QED BY <2>1, <2>2, <3>1, <3>2, RecordedIs
  <2>4. \A b \in isolated : Known(b) \/ b = a
    BY <1>2 DEF a
  <2>5. QED BY <1>3, <1>4, <2>1, <2>3, <2>4
\* every other step
<1>11. ASSUME NEW l \in {"shield", "healer"}, NEW p, NEW events, Pipeline!Goes(l, p, events),
              UNCHANGED isolated
       PROVE  AuditInv'
  <2>1. UNCHANGED <<at["spear"], hand["spear"]>>
    BY <1>5, <1>11 DEF Pipeline!Goes
  <2>2. QED BY <1>6, <1>11, <2>1
<1>12. ASSUME NEW l \in Pipeline!Loops,
              \/ l # "spear" /\ Pipeline!RecordViolation(l)
              \/ Pipeline!Send(l) \/ Pipeline!Stop(l)
       PROVE  AuditInv'
  <2>1. CASE l = "spear"
    BY <1>6, <1>12, <2>1 DEF Pipeline!Send, Pipeline!Sent, Pipeline!Stop
  <2>2. CASE l # "spear"
    <3>1. \E p, events : Pipeline!Goes(l, p, events)
      BY <1>12 DEF Pipeline!RecordViolation, Pipeline!Send, Pipeline!Sent, Pipeline!Stop
    <3>2. UNCHANGED isolated
      BY <1>12 DEF Pipeline!RecordViolation, Pipeline!Send, Pipeline!Sent, Pipeline!Stop
    <3>3. QED BY <1>11, <2>2, <3>1, <3>2
  <2>3. QED BY <2>1, <2>2
<1>13. ASSUME \/ \E n \in 1 .. 2 : Pipeline!TestsFail(n)
              \/ Pipeline!RunStarts \/ Pipeline!TestsEnd
       PROVE  AuditInv'
  <2>1. at["spear"] \in {"idle", "test"} /\ UNCHANGED isolated
    BY <1>13 DEF Pipeline!TestsFail, Pipeline!RunStarts, Pipeline!TestsEnd
  <2>2. QED BY <1>6, <2>1
<1>14. ASSUME \/ \E a \in Agents : Pipeline!Notify(a)
              \/ Pipeline!Shutdown \/ Pipeline!Tick
       PROVE  AuditInv'
  BY <1>6, <1>14 DEF Pipeline!Notify, Pipeline!Shutdown, Pipeline!Tick, Pipeline!tasks
<1>15. ASSUME \/ \E a \in Agents, critical \in BOOLEAN : Pipeline!Observe(a, critical)
              \/ \E ok \in BOOLEAN : Pipeline!Diagnose(ok) \/ Pipeline!Deployed(ok)
              \/ Pipeline!TestFixFails \/ Pipeline!ApplyFix \/ Pipeline!RecordFix
       PROVE  AuditInv'
  <2>1. /\ \E l \in {"shield", "healer"} : \E p, events : Pipeline!Goes(l, p, events)
        /\ UNCHANGED isolated
    BY <1>15
    DEF Pipeline!Observe, Pipeline!Diagnose, Pipeline!Deployed, Pipeline!TestFixFails,
        Pipeline!ApplyFix, Pipeline!RecordFix, Pipeline!Rests
  <2>2. QED BY <1>11, <2>1
<1>16. ASSUME Pipeline!Take
       PROVE  AuditInv'
  <2>1. /\ UNCHANGED isolated
        /\ \/ UNCHANGED <<at, hand>>
           \/ Pipeline!Goes("healer", "diagnose", <<Head(queue)>>)
    BY <1>16 DEF Pipeline!Take, Pipeline!tasks
  <2>2. QED BY <1>6, <1>11, <2>1
<1>17. QED
  BY <1>8, <1>9, <1>10, <1>12, <1>13, <1>14, <1>15, <1>16
  DEF Pipeline!Next, Pipeline!Works, Pipeline!Spear, Pipeline!Heal

-----------------------------------------------------------------------------
(* No agent is deployed too often.  The attempts are pruned whenever one   *)
(* is recorded, the deployments at every tick: what they share is how many *)
(* of them will still be in the window some ticks from now.                *)

Ages == 0 .. Window
Live(ages, d) == {i \in DOMAIN ages : ages[i] + d < Window}
LiveIn(ages, d) == Cardinality(Live(ages, d))

\* the ages within the window are finitely many positions of the list
LEMMA LiveFinite ==
  ASSUME NEW ages \in Seq(Ages), NEW d \in Nat
  PROVE  /\ IsFiniteSet(Live(ages, d)) /\ LiveIn(ages, d) \in Nat
         /\ Live(ages, d) \in SUBSET (1 .. Len(ages)) /\ Len(ages) \in Nat
<1>1. DOMAIN ages = 1 .. Len(ages) /\ Len(ages) \in Nat
  BY LenProperties
<1>2. Live(ages, d) \in SUBSET (1 .. Len(ages))
  BY <1>1 DEF Live
<1>3. IsFiniteSet(1 .. Len(ages))
  BY <1>1, FS_Interval
<1>4. IsFiniteSet(Live(ages, d))
  BY <1>2, <1>3, FS_Subset
<1>5. QED BY <1>1, <1>2, <1>4, FS_CardinalityType DEF LiveIn

\* what is in the window now is live now
LEMMA InTimeIsLive ==
  ASSUME NEW ages \in Seq(Ages)
  PROVE  Pipeline!InTime(ages) = Live(ages, 0) /\ Pipeline!Recent(ages) = LiveIn(ages, 0)
<1>1. \A i \in DOMAIN ages : ages[i] \in Nat
  BY ElementOfSeq, LenProperties, PipelineConstants DEF Ages
<1>2. Pipeline!InTime(ages) = Live(ages, 0)
  BY <1>1 DEF Pipeline!InTime, Pipeline!InWindow, Live
<1>3. \A S : Pipeline!Cardinality(S) = Cardinality(S)
  BY Zenon DEF Pipeline!Cardinality, Cardinality
<1>4. QED BY <1>2, <1>3 DEF Pipeline!Recent, LiveIn

\* a tick brings every age one closer to the end of the window
LEMMA OlderLive ==
  ASSUME NEW ages \in Seq(Ages), NEW d \in Nat
  PROVE  /\ Pipeline!Older(ages) \in Seq(Ages)
         /\ LiveIn(Pipeline!Older(ages), d) = LiveIn(ages, d + 1)
<1> DEFINE n == Len(ages)
           o == Pipeline!Older(ages)
<1>1. n \in Nat /\ DOMAIN ages = 1 .. n /\ \A i \in 1 .. n : ages[i] \in Ages
  BY LenProperties, ElementOfSeq
<1>2. /\ DOMAIN o = 1 .. n
      /\ \A i \in 1 .. n : o[i] = IF ages[i] < Window THEN ages[i] + 1 ELSE Window
      /\ o = [i \in 1 .. n |-> IF ages[i] < Window THEN ages[i] + 1 ELSE Window]
  BY <1>1 DEF Pipeline!Older, Pipeline!InWindow
<1> HIDE DEF n, o
<1>3. \A i \in 1 .. n : o[i] \in Ages
  BY <1>1, <1>2, PipelineConstants DEF Ages
<1>4. o \in Seq(Ages)
  BY <1>1, <1>2, <1>3, SeqDef
<1>5. \A i \in 1 .. n : o[i] + d < Window <=> ages[i] + (d + 1) < Window
  BY <1>1, <1>2, PipelineConstants DEF Ages
<1>6. Live(o, d) = Live(ages, d + 1)
  BY <1>1, <1>2, <1>5 DEF Live
<1>7. QED BY <1>4, <1>6 DEF LiveIn, o

\* pruning drops what is out of the window, and nothing that is live
LEMMA PrunedLive ==
  ASSUME NEW ages \in Seq(Ages), NEW d \in Nat
  PROVE  /\ Pipeline!Pruned(ages) \in Seq(Ages)
         /\ LiveIn(Pipeline!Pruned(ages), d) = LiveIn(ages, d)
<1> DEFINE I == Live(ages, 0)
           r == Pipeline!Pruned(ages)
           n == Cardinality(I)
           A == Live(r, d)
           D == Live(ages, d)
<1>1. r = Retain(ages, I)
  BY Zenon, InTimeIsLive, SameRetain DEF Pipeline!Pruned
<1>2. /\ I \in SUBSET (1 .. Len(ages)) /\ Len(ages) \in Nat
      /\ DOMAIN ages = 1 .. Len(ages)
      /\ \A i \in DOMAIN ages : ages[i] \in Nat
      /\ \A i \in I : i \in Nat
  <2>1. DOMAIN ages = 1 .. Len(ages) /\ Len(ages) \in Nat
    BY LenProperties
  <2>2. \A i \in DOMAIN ages : ages[i] \in Nat
    BY <2>1, ElementOfSeq, PipelineConstants DEF Ages
  <2>3. I \in SUBSET (1 .. Len(ages))
    BY LiveFinite
  <2>4. QED BY <2>1, <2>2, <2>3
<1> HIDE DEF I, r
<1>3. PICK h : /\ Picks(h, I) /\ n \in Nat /\ r \in Seq(Ages) /\ Len(r) = n
               /\ \A k \in 1 .. n : r[k] = ages[h[k]]
  BY <1>1, <1>2, RetainProperties
<1> HIDE DEF n
<1>4. /\ DOMAIN r = 1 .. n /\ \A k \in 1 .. n : h[k] \in I
      /\ \A k, m \in 1 .. n : k < m => h[k] < h[m]
      /\ \A i \in I : \E k \in 1 .. n : h[k] = i
  BY <1>3, LenProperties DEF Picks, n
<1>5. /\ \A k : k \in A <=> k \in 1 .. n /\ ages[h[k]] + d < Window
      /\ \A i : i \in D <=> i \in DOMAIN ages /\ ages[i] + d < Window
  BY <1>3, <1>4 DEF Live
<1>6. \A i \in D : i \in I
  BY <1>2, <1>5, PipelineConstants DEF I, Live
<1> HIDE DEF A, D
<1> DEFINE f == [k \in A |-> h[k]]
<1>7. f \in [A -> D]
  BY <1>2, <1>4, <1>5
<1>8. \A k, m \in A : f[k] = f[m] => k = m
  <2> SUFFICES ASSUME NEW k \in A, NEW m \in A, h[k] = h[m] PROVE k = m
    OBVIOUS
  <2>1. k \in 1 .. n /\ m \in 1 .. n /\ h[k] \in Nat
    BY <1>2, <1>4, <1>5
  <2>2. ~ (k < m) /\ ~ (m < k)
    BY <1>4, <2>1
  <2>3. QED BY <1>3, <2>1, <2>2
<1>9. \A i \in D : \E k \in A : f[k] = i
  BY <1>4, <1>5, <1>6
<1> HIDE DEF f
<1>10. f \in Bijection(A, D)
  BY <1>7, <1>8, <1>9 DEF Bijection, Injection, Surjection, IsInjective
<1>11. IsFiniteSet(A)
  BY <1>3, LiveFinite DEF A
<1>12. Cardinality(D) = Cardinality(A)
  BY <1>10, <1>11, FS_Bijection DEF ExistsBijection
<1>13. QED BY <1>3, <1>12 DEF LiveIn, A, D, r

\* a new age is one more, as long as it is live
LEMMA RecordLive ==
  ASSUME NEW ages \in Seq(Ages), NEW d \in Nat
  PROVE  /\ Append(ages, 0) \in Seq(Ages)
         /\ LiveIn(Append(ages, 0), d)
              = LiveIn(ages, d) + IF d < Window THEN 1 ELSE 0
<1> DEFINE n == Len(ages)
           s == Append(ages, 0)
<1>1. 0 \in Ages
  BY PipelineConstants DEF Ages
<1>2. /\ n \in Nat /\ DOMAIN ages = 1 .. n /\ s \in Seq(Ages)
      /\ DOMAIN s = 1 .. n + 1 /\ s[n + 1] = 0 /\ \A i \in 1 .. n : s[i] = ages[i]
  BY <1>1, LenProperties, AppendProperties
<1> HIDE DEF n, s
<1>3. /\ IsFiniteSet(Live(ages, d)) /\ LiveIn(ages, d) \in Nat
      /\ Live(ages, d) \in SUBSET (1 .. n)
  BY LiveFinite DEF n
<1>4. \A i : i \in Live(s, d) <=> i \in Live(ages, d) \/ (i = n + 1 /\ 0 + d < Window)
  BY <1>2 DEF Live
<1>5. CASE d < Window
  <2>1. Live(s, d) = Live(ages, d) \cup {n + 1} /\ n + 1 \notin Live(ages, d)
    BY <1>2, <1>3, <1>4, <1>5
  <2>2. LiveIn(s, d) = LiveIn(ages, d) + 1
    BY <1>3, <2>1, FS_AddElement DEF LiveIn
  <2>3. QED BY <1>2, <1>5, <2>2 DEF s
<1>6. CASE ~ (d < Window)
  <2>1. Live(s, d) = Live(ages, d)
    <3>1. ~ (0 + d < Window)
      BY <1>6, PipelineConstants
    <3>2. QED BY <1>4, <3>1
  <2>2. LiveIn(s, d) = LiveIn(ages, d)
    BY <2>1 DEF LiveIn
  <2>3. QED BY <1>2, <1>3, <1>6, <2>2 DEF s
<1>7. QED BY <1>5, <1>6

\* the ages of the attempts and of the deployments of an agent
Budget(tries, calls) ==
  /\ tries \in Seq(Ages) /\ calls \in Seq(Ages)
  /\ \A d \in Nat : LiveIn(calls, d) <= LiveIn(tries, d)
  /\ LiveIn(calls, 0) <= MaxAttempts

\* a second passes, and the deployments out of the window are forgotten
LEMMA BudgetTick ==
  ASSUME NEW tries, NEW calls, Budget(tries, calls)
  PROVE  Budget(Pipeline!Older(tries), Pipeline!Pruned(Pipeline!Older(calls)))
<1> DEFINE t == Pipeline!Older(tries)
           o == Pipeline!Older(calls)
           c == Pipeline!Pruned(o)
<1>1. tries \in Seq(Ages) /\ calls \in Seq(Ages)
  BY DEF Budget
<1>2. \A d \in Nat : /\ t \in Seq(Ages) /\ LiveIn(t, d) = LiveIn(tries, d + 1)
                     /\ o \in Seq(Ages) /\ LiveIn(o, d) = LiveIn(calls, d + 1)
  BY <1>1, OlderLive
<1> HIDE DEF t, o
<1>3. t \in Seq(Ages) /\ o \in Seq(Ages)
  BY <1>2
<1>4. \A d \in Nat : c \in Seq(Ages) /\ LiveIn(c, d) = LiveIn(o, d)
  BY <1>3, PrunedLive
<1> HIDE DEF c
<1>5. c \in Seq(Ages)
  BY <1>4
<1>6. ASSUME NEW d \in Nat PROVE LiveIn(c, d) <= LiveIn(t, d)
  <2>1. d + 1 \in Nat
    OBVIOUS
  <2>2. LiveIn(calls, d + 1) <= LiveIn(tries, d + 1)
    BY <2>1 DEF Budget
  <2>3. QED BY <1>2, <1>4, <2>2
<1>7. LiveIn(c, 0) <= MaxAttempts
  <2>1. LiveIn(c, 0) = LiveIn(calls, 1)
    <3>1. LiveIn(c, 0) = LiveIn(o, 0) /\ LiveIn(o, 0) = LiveIn(calls, 0 + 1)
      BY <1>2, <1>4
    <3>2. 0 + 1 = 1
      OBVIOUS
    <3>3. QED BY <3>1, <3>2
  <2>2. /\ IsFiniteSet(Live(calls, 0)) /\ LiveIn(calls, 0) \in Nat
        /\ IsFiniteSet(Live(calls, 1)) /\ LiveIn(calls, 1) \in Nat
    BY <1>1, LiveFinite
  <2>3. Live(calls, 1) \in SUBSET Live(calls, 0)
    <3>1. \A i \in DOMAIN calls : calls[i] \in Nat
      BY <1>1, ElementOfSeq, LenProperties, PipelineConstants DEF Ages
    <3>2. QED BY <3>1, PipelineConstants DEF Live
  <2>4. LiveIn(calls, 1) <= LiveIn(calls, 0)
    BY <2>2, <2>3, FS_Subset DEF LiveIn
  <2>5. LiveIn(calls, 0) <= MaxAttempts
    BY DEF Budget
  <2>6. QED BY <2>1, <2>2, <2>4, <2>5, PipelineConstants
<1>8. QED BY <1>3, <1>5, <1>6, <1>7 DEF Budget, t, o, c

\* an attempt that can be made is recorded, and a deployment follows it
LEMMA BudgetApply ==
  ASSUME NEW tries, NEW calls, Budget(tries, calls), Pipeline!CanAttempt(tries)
  PROVE  Budget(Pipeline!RecordAttempt(tries), Pipeline!Pruned(Append(calls, 0)))
<1> DEFINE t == Pipeline!RecordAttempt(tries)
           c == Pipeline!Pruned(Append(calls, 0))
           b(d) == IF d < Window THEN 1 ELSE 0
<1>1. tries \in Seq(Ages) /\ calls \in Seq(Ages)
  BY DEF Budget
<1>2. \A d \in Nat : /\ t \in Seq(Ages) /\ LiveIn(t, d) = LiveIn(tries, d) + b(d)
                     /\ c \in Seq(Ages) /\ LiveIn(c, d) = LiveIn(calls, d) + b(d)
  <2> TAKE d \in Nat
  <2>1. /\ Append(tries, 0) \in Seq(Ages)
        /\ LiveIn(Append(tries, 0), d) = LiveIn(tries, d) + b(d)
        /\ Append(calls, 0) \in Seq(Ages)
        /\ LiveIn(Append(calls, 0), d) = LiveIn(calls, d) + b(d)
    BY <1>1, RecordLive
  <2> HIDE DEF b
  <2>2. QED BY <2>1, PrunedLive DEF Pipeline!RecordAttempt
<1> HIDE DEF t, c
<1>3. t \in Seq(Ages) /\ c \in Seq(Ages)
  BY <1>2
<1>4. \A d \in Nat : LiveIn(tries, d) \in Nat /\ LiveIn(calls, d) \in Nat
  BY <1>1, LiveFinite
<1>5. ASSUME NEW d \in Nat PROVE LiveIn(c, d) <= LiveIn(t, d)
  <2>1. LiveIn(calls, d) <= LiveIn(tries, d)
    BY DEF Budget
  <2>2. LiveIn(c, d) = LiveIn(calls, d) + b(d) /\ LiveIn(t, d) = LiveIn(tries, d) + b(d)
    BY <1>2
  <2>3. b(d) \in Nat /\ LiveIn(tries, d) \in Nat /\ LiveIn(calls, d) \in Nat
    BY <1>4
  <2> HIDE DEF b
  <2>4. QED BY ONLY <2>1, <2>2, <2>3
<1>6. LiveIn(c, 0) <= MaxAttempts
  <2>1. LiveIn(tries, 0) < MaxAttempts
    BY <1>1, InTimeIsLive DEF Pipeline!CanAttempt
  <2>2. LiveIn(calls, 0) <= LiveIn(tries, 0)
    BY DEF Budget
  <2>3. LiveIn(c, 0) = LiveIn(calls, 0) + 1
    BY <1>2, PipelineConstants
  <2>4. LiveIn(tries, 0) \in Nat /\ LiveIn(calls, 0) \in Nat
    BY <1>4
  <2>5. QED BY <2>1, <2>2, <2>3, <2>4, PipelineConstants
<1>7. QED BY <1>3, <1>5, <1>6 DEF Budget, t, c

BudgetInv ==
  /\ attempts = [a \in Agents |-> attempts[a]] /\ deploys = [a \in Agents |-> deploys[a]]
  /\ \A a \in Agents : Budget(attempts[a], deploys[a])

\* a step of the pipeline stays within the budget of every agent
LEMMA BudgetStep == CallsInv /\ BudgetInv /\ Pipeline!Next => BudgetInv'
<1> SUFFICES ASSUME CallsInv, BudgetInv, Pipeline!Next PROVE BudgetInv'
  OBVIOUS
<1>1. CASE UNCHANGED Pipeline!healing
  BY <1>1 DEF BudgetInv, Pipeline!healing
<1>2. ASSUME NEW tr, NEW ca, attempts' = [a \in Agents |-> tr[a]],
             deploys' = [a \in Agents |-> ca[a]], \A a \in Agents : Budget(tr[a], ca[a])
      PROVE  BudgetInv'
  <2>1. \A a \in Agents : attempts'[a] = tr[a] /\ deploys'[a] = ca[a]
    BY <1>2
  <2>2. QED BY <1>2, <2>1 DEF BudgetInv
<1>3. CASE Pipeline!Tick
  <2> DEFINE tr == [a \in Agents |-> Pipeline!Older(attempts[a])]
             ca == [a \in Agents |-> Pipeline!Pruned(Pipeline!Older(deploys[a]))]
  <2>1. attempts' = tr /\ deploys' = ca
    BY <1>3 DEF Pipeline!Tick
  <2>2. \A a \in Agents : Budget(tr[a], ca[a])
    BY BudgetTick DEF BudgetInv
  <2>3. tr = [a \in Agents |-> tr[a]] /\ ca = [a \in Agents |-> ca[a]]
    OBVIOUS
  <2> HIDE DEF tr, ca
  <2>4. QED BY <1>2, <2>1, <2>2, <2>3
<1>4. CASE Pipeline!ApplyFix /\ ~ UNCHANGED Pipeline!healing
  <2> DEFINE a == hand["healer"][1].agent
             tr == [attempts EXCEPT ![a] = Pipeline!RecordAttempt(@)]
             ca == [deploys EXCEPT ![a] = Pipeline!Pruned(Append(@, 0))]
  <2>1. /\ at["healer"] = "try" /\ Pipeline!CanAttempt(attempts[a])
        /\ attempts' = tr /\ deploys' = ca
    BY <1>4 DEF Pipeline!ApplyFix
  <2>2. a \in Agents
    BY <2>1, AgentInHand DEF Pipeline!Loops
  <2> HIDE DEF a
  <2>3. /\ Budget(Pipeline!RecordAttempt(attempts[a]), Pipeline!Pruned(Append(deploys[a], 0)))
        /\ \A b \in Agents : Budget(attempts[b], deploys[b])
    BY <2>1, <2>2, BudgetApply DEF BudgetInv
  <2>4. /\ tr = [b \in Agents |-> tr[b]] /\ ca = [b \in Agents |-> ca[b]]
        /\ tr[a] = Pipeline!RecordAttempt(attempts[a])
        /\ ca[a] = Pipeline!Pruned(Append(deploys[a], 0))
        /\ \A b \in Agents \ {a} : tr[b] = attempts[b] /\ ca[b] = deploys[b]
    BY <2>2 DEF BudgetInv
  <2> HIDE DEF tr, ca
  <2>5. \A b \in Agents : Budget(tr[b], ca[b])
    BY <2>3, <2>4
  <2>6. QED BY <1>2, <2>1, <2>4, <2>5
<1>5. UNCHANGED Pipeline!healing \/ Pipeline!Tick \/ Pipeline!ApplyFix
  BY DEF Pipeline!Next, Pipeline!Works, Pipeline!Spear, Pipeline!Heal, Pipeline!Observe,
         Pipeline!Notify, Pipeline!TestsFail, Pipeline!Send, Pipeline!Sent, Pipeline!Stop,
         Pipeline!RunStarts, Pipeline!TestsEnd, Pipeline!Isolate, Pipeline!Report,
         Pipeline!Take, Pipeline!TestFixFails, Pipeline!RecordFix, Pipeline!Diagnose,
         Pipeline!Deployed, Pipeline!Shutdown, Pipeline!RecordViolation
<1>6. QED BY <1>1, <1>3, <1>4, <1>5

PipelineInv ==
  /\ CallsInv /\ AccountsInv /\ TrailInv /\ AuditInv /\ BudgetInv
  /\ shutdown \in BOOLEAN

\* the pipeline starts with nothing raised and nothing in hand
LEMMA PipelineInit == PartsInit => PipelineInv
<1> SUFFICES ASSUME PartsInit PROVE PipelineInv
  OBVIOUS
<1>1. Pipeline!Init
  BY DEF PartsInit
<1> USE DEF Pipeline!Loops, Pipeline!Init
<1>2. CallsInv
  <2>1. \A l \in Pipeline!Loops : HandOK(l, "idle", << >>)
    BY EmptyHand
  <2>2. QED BY <1>1, <2>1 DEF CallsInv, Pipeline!Phases
<1>3. AccountsInv
  <2>1. Len(<< >>) = 0
    OBVIOUS
  <2>2. count = [raised |-> 0, taken |-> 0, refused |-> 0, unsent |-> 0]
    BY <1>1
  <2>3. Balanced(count, 0, 0, 0, "idle", {})
    BY <2>2, PipelineConstants DEF Balanced
  <2>4. excused \in Excused /\ excused.unreported = {}
    BY <1>1 DEF Excused
  <2>5. QED BY <1>1, <2>1, <2>3, <2>4, PipelineConstants DEF AccountsInv
<1>4. TrailInv
  BY <1>1 DEF TrailInv, FixesCaused, HeldOK
<1>5. AuditInv
  BY <1>1 DEF AuditInv, Pipeline!IsolationIsAudited
<1>6. BudgetInv
  <2>1. << >> \in Seq(Ages) /\ \A d \in Nat : Live(<< >>, d) = {}
    BY DEF Live
  <2>2. Budget(<< >>, << >>)
    <3>1. \A d \in Nat : LiveIn(<< >>, d) = 0
      BY <2>1, FS_EmptySet DEF LiveIn
    <3>2. QED BY <2>1, <3>1, PipelineConstants DEF Budget
  <2>3. QED BY <1>1, <2>2 DEF BudgetInv
<1>7. QED BY <1>1, <1>2, <1>3, <1>4, <1>5, <1>6 DEF PipelineInv

\* no step of any part breaks the invariant of the pipeline
LEMMA PipelineInvStep == PipelineInv /\ [PartsNext]_allVars => PipelineInv'
<1> SUFFICES ASSUME PipelineInv, [PartsNext]_allVars PROVE PipelineInv'
  OBVIOUS
<1>1. CASE Pipeline!Next
  <2>1. /\ CallsInv' /\ AccountsInv' /\ TrailInv' /\ AuditInv' /\ BudgetInv'
    BY <1>1, CallsStep, AccountsStep, CausesStep, AuditStep, BudgetStep DEF PipelineInv
  <2>2. shutdown' \in BOOLEAN
    <3>1. UNCHANGED shutdown \/ Pipeline!Shutdown
      BY <1>1 DEF Pipeline!Next, Pipeline!Works, Pipeline!Spear, Pipeline!Heal, Pipeline!Observe,
         Pipeline!Notify, Pipeline!TestsFail, Pipeline!Send, Pipeline!Sent, Pipeline!Stop,
         Pipeline!RunStarts, Pipeline!TestsEnd, Pipeline!Isolate, Pipeline!Report,
         Pipeline!Take, Pipeline!TestFixFails, Pipeline!RecordFix, Pipeline!Diagnose,
         Pipeline!Deployed, Pipeline!ApplyFix, Pipeline!Tick, Pipeline!RecordViolation
    <3>2. QED BY <3>1 DEF PipelineInv, Pipeline!Shutdown
  <2>3. QED BY <2>1, <2>2 DEF PipelineInv
<1>2. CASE UNCHANGED pipelineVars
  <2>1. UNCHANGED <<at, hand, todo, queue, chain, attempts, isolated, shutdown, deploys,
                    excused, count>>
    BY <1>2 DEF pipelineVars
  <2>2. CallsInv' /\ AccountsInv' /\ shutdown' \in BOOLEAN
    BY <2>1 DEF PipelineInv, CallsInv, AccountsInv
  <2>3. TrailInv' /\ AuditInv' /\ BudgetInv'
    BY <2>1 DEF PipelineInv, TrailInv, AuditInv, BudgetInv, Pipeline!IsolationIsAudited
  <2>4. QED BY <2>2, <2>3 DEF PipelineInv
<1>3. QED
  BY <1>1, <1>2
  DEF PartsNext, allVars, ProcessStep, PipelineStep, ChainStep, AccessStep

\* what the invariant says, in the words of the model
LEMMA PipelineInvSuffices == PipelineInv => EventsAccounted /\ Pipeline!TypeOK
<1> SUFFICES ASSUME PipelineInv PROVE EventsAccounted /\ Pipeline!TypeOK
  OBVIOUS
<1>1. Pipeline!FixHasCause
  BY DEF PipelineInv, TrailInv, FixesCaused, Pipeline!FixHasCause
<1>2. Pipeline!DeployBudget
  <2>1. ASSUME NEW a \in Agents PROVE Pipeline!Recent(deploys[a]) <= MaxAttempts
    <3>1. deploys[a] \in Seq(Ages) /\ LiveIn(deploys[a], 0) <= MaxAttempts
      BY DEF PipelineInv, BudgetInv, Budget
    <3>2. QED BY <3>1, InTimeIsLive
  <2>2. QED BY <2>1 DEF Pipeline!DeployBudget
<1>3. Pipeline!IsolationIsAudited
  BY DEF PipelineInv, AuditInv
<1>4. Pipeline!EventsAccounted
  BY DEF PipelineInv, AccountsInv, Balanced, Pipeline!EventsAccounted
<1>5. EventsAccounted
  BY <1>1, <1>2, <1>3, <1>4
  DEF EventsAccounted, Pipeline!FixesAreDue, Pipeline!ViolationsAccounted
<1>6. /\ at \in [Pipeline!Loops -> Pipeline!Phases]
      /\ hand \in [Pipeline!Loops -> Seq(Pipeline!Event)]
      /\ todo \in Seq(Agents) /\ queue \in Seq(Pipeline!Event) /\ Len(queue) <= Capacity
      /\ chain \in Seq(TrailRecord) /\ isolated \subseteq Agents /\ shutdown \in BOOLEAN
      /\ excused \in Excused
  BY DEF PipelineInv, CallsInv, AccountsInv, TrailInv, AuditInv
<1>7. \A l \in Pipeline!Loops : at[l] \in {"idle", "test", "stopped"} <=> hand[l] = << >>
  BY DEF PipelineInv, CallsInv, HandOK
<1>8. attempts \in [Agents -> Seq(Ages)] /\ deploys \in [Agents -> Seq(Ages)]
  <2>1. \A a \in Agents : attempts[a] \in Seq(Ages) /\ deploys[a] \in Seq(Ages)
    BY DEF PipelineInv, BudgetInv, Budget
  <2>2. attempts = [a \in Agents |-> attempts[a]] /\ deploys = [a \in Agents |-> deploys[a]]
    BY DEF PipelineInv, BudgetInv
  <2>3. QED BY Zenon, <2>1, <2>2
<1>9. count \in [{"raised", "taken", "refused", "unsent"} -> 0 .. MaxEvents]
  <2>1. /\ count \in [{"raised", "taken", "refused", "unsent"} -> Nat]
        /\ count.raised <= MaxEvents
        /\ Len(queue) \in Nat /\ Len(hand["shield"]) \in Nat /\ Len(hand["spear"]) \in Nat
        /\ count.raised = count.taken + count.refused + count.unsent + Len(queue)
             + Len(hand["shield"]) + Len(hand["spear"])
    BY DEF PipelineInv, AccountsInv, Balanced
  <2>2. \A f \in {"raised", "taken", "refused", "unsent"} : count[f] \in Nat
    BY <2>1
  <2>3. \A f \in {"raised", "taken", "refused", "unsent"} : count[f] <= MaxEvents
    <3> DEFINE r == count.raised
               t == count.taken
               f == count.refused
               u == count.unsent
               q == Len(queue)
               s == Len(hand["shield"])
               p == Len(hand["spear"])
    <3>1. /\ r \in Nat /\ t \in Nat /\ f \in Nat /\ u \in Nat
          /\ q \in Nat /\ s \in Nat /\ p \in Nat /\ MaxEvents \in Nat
          /\ r <= MaxEvents /\ r = t + f + u + q + s + p
      BY <2>1, <2>2, PipelineConstants
    <3>2. r <= MaxEvents /\ t <= MaxEvents /\ f <= MaxEvents /\ u <= MaxEvents
      <4> HIDE DEF r, t, f, u, q, s, p
      <4>1. QED BY ONLY <3>1
    <3>3. QED BY <3>2
  <2>4. \A f \in {"raised", "taken", "refused", "unsent"} : count[f] \in 0 .. MaxEvents
    BY <2>2, <2>3, PipelineConstants
  <2>5. QED BY <2>1, <2>4
<1>10. QED BY <1>5, <1>6, <1>7, <1>8, <1>9 DEF Pipeline!TypeOK, TrailRecord, Excused, Ages

\* Whatever the calls of the three tasks answer: a fix in the trail stands behind
\* a violation of its agent, no agent is deployed more than MaxAttempts times in
\* any window, an agent out of routing has a violation in the trail, and every
\* event raised is under way, taken once, or lost for a reason.
THEOREM EveryEventIsAccounted == PartsSpec => []EventsAccounted
<1>1. PartsInit => PipelineInv
  BY PipelineInit
<1>2. PipelineInv /\ [PartsNext]_allVars => PipelineInv'
  BY PipelineInvStep
<1>3. PipelineInv => EventsAccounted
  BY PipelineInvSuffices
<1>4. QED BY <1>1, <1>2, <1>3, PTL DEF PartsSpec

-----------------------------------------------------------------------------
(* The hash chain.  wr is what was ever written, f says whether it forked. *)

\* what the chain assumes of its constants
LEMMA ChainConstants ==
  MaxRecords \in Nat /\ MaxDamage \in Nat /\ "none" \notin Contents
  BY VallumConstants DEF Chain!ChainAssumption

\* the hash of an entry is one longer than the hash it stands on, and ends in
\* what the entry holds
LEMMA HashGrows ==
  ASSUME NEW h \in Chain!Hashes, NEW c \in Contents
  PROVE  /\ Chain!ComputeHash(c, h) \in Chain!Hashes /\ Len(h) \in Nat
         /\ Len(Chain!ComputeHash(c, h)) = Len(h) + 1
         /\ Chain!ComputeHash(c, h)[Len(h) + 1] = c
         /\ \A i \in 1 .. Len(h) : Chain!ComputeHash(c, h)[i] = h[i]
<1> DEFINE A == Contents \cup {"junk"}
<1>1. h \in Seq(A) /\ c \in A
  BY DEF Chain!Hashes
<1> HIDE DEF A
<1>2. /\ Append(h, c) \in Seq(A) /\ Len(h) \in Nat /\ Len(Append(h, c)) = Len(h) + 1
      /\ Append(h, c)[Len(h) + 1] = c /\ \A i \in 1 .. Len(h) : Append(h, c)[i] = h[i]
  BY <1>1, AppendProperties, LenProperties
<1>3. QED BY <1>2 DEF Chain!ComputeHash, Chain!Hashes, A

\* two entries of one hash that hash their own content are the same
LEMMA HashIsInjective ==
  ASSUME NEW e \in Chain!Entry, NEW o \in Chain!Entry, Chain!Verify(e), Chain!Verify(o),
         e.entryHash = o.entryHash
  PROVE  e = o
<1> DEFINE h == e.previousHash
           g == o.previousHash
           k == e.entryHash
<1>1. /\ h \in Chain!Hashes /\ g \in Chain!Hashes
      /\ e.content \in Contents /\ o.content \in Contents
      /\ k = Chain!ComputeHash(e.content, h) /\ k = Chain!ComputeHash(o.content, g)
  BY DEF Chain!Entry, Chain!Verify
<1> HIDE DEF h, g, k
<1>2. /\ Len(h) \in Nat /\ Len(k) = Len(h) + 1 /\ k[Len(h) + 1] = e.content
      /\ \A i \in 1 .. Len(h) : k[i] = h[i]
  <2> DEFINE c == e.content
  <2> HIDE DEF c
  <2>1. h \in Chain!Hashes /\ c \in Contents /\ k = Chain!ComputeHash(c, h)
    BY <1>1 DEF c
  <2>2. QED BY ONLY <2>1, HashGrows DEF c
<1>3. /\ Len(g) \in Nat /\ Len(k) = Len(g) + 1 /\ k[Len(g) + 1] = o.content
      /\ \A i \in 1 .. Len(g) : k[i] = g[i]
  <2> DEFINE c == o.content
  <2> HIDE DEF c
  <2>1. g \in Chain!Hashes /\ c \in Contents /\ k = Chain!ComputeHash(c, g)
    BY <1>1 DEF c
  <2>2. QED BY ONLY <2>1, HashGrows DEF c
<1>4. Len(h) = Len(g)
  BY <1>2, <1>3
<1>5. e.content = o.content
  BY <1>2, <1>3, <1>4
<1>6. h = g
  <2>1. h \in Seq(Contents \cup {"junk"}) /\ g \in Seq(Contents \cup {"junk"})
    BY <1>1 DEF Chain!Hashes
  <2>2. \A i \in 1 .. Len(h) : h[i] = g[i]
    BY <1>2, <1>3, <1>4
  <2>3. QED BY <1>4, <2>1, <2>2, SeqEqual
<1>7. QED BY <1>5, <1>6 DEF Chain!Entry, h, g

\* an entry stands behind the one before it
Linked(wr, i) ==
  wr[i].previousHash = IF i = 1 THEN Chain!Genesis ELSE wr[i - 1].entryHash
HeadOf(wr) == IF wr = << >> THEN Chain!Genesis ELSE Chain!Last(wr).entryHash

WrittenOK(wr, f) ==
  /\ wr \in Seq(Chain!Entry) /\ f \in BOOLEAN
  /\ \A i \in DOMAIN wr : Chain!Verify(wr[i])
  /\ f = FALSE <=> \A i \in DOMAIN wr : Linked(wr, i)

\* the rows of a storage that the verification accepts have hashes that grow by
\* one from row to row
LEMMA HashesCount ==
  ASSUME NEW st \in Seq(Chain!Entry),
         \A i \in DOMAIN st : Chain!Verify(st[i]) /\ Linked(st, i)
  PROVE  \A i \in DOMAIN st : Len(st[i].entryHash) = i
<1> DEFINE n == Len(st)
           P(i) == Len(st[i].entryHash) = i
           S == {i \in 1 .. n : ~ P(i)}
<1>1. n \in Nat /\ DOMAIN st = 1 .. n /\ \A i \in 1 .. n : st[i] \in Chain!Entry
  BY LenProperties, ElementOfSeq
<1>2. \A i \in 1 .. n : /\ Len(st[i].entryHash) = Len(st[i].previousHash) + 1
                        /\ Len(st[i].previousHash) \in Nat
  <2> TAKE i \in 1 .. n
  <2>1. /\ st[i].previousHash \in Chain!Hashes /\ st[i].content \in Contents
        /\ st[i].entryHash = Chain!ComputeHash(st[i].content, st[i].previousHash)
    BY <1>1 DEF Chain!Entry, Chain!Verify
  <2>2. QED BY <2>1, HashGrows
<1>3. ASSUME S # {} PROVE FALSE
  <2>1. S \in SUBSET Nat
    BY <1>1
  <2>2. PICK i \in S : \A j \in S : i <= j
    BY <1>3, <2>1, LeastOf
  <2>3. i \in 1 .. n /\ ~ P(i)
    OBVIOUS
  <2>4. CASE i = 1
    <3>1. st[i].previousHash = << >>
      BY <1>1, <2>3, <2>4 DEF Linked, Chain!Genesis
    <3>2. Len(st[i].previousHash) = 0
      BY ONLY <3>1, EmptySeq
    <3>3. Len(st[i].entryHash) = 0 + 1
      BY <1>2, <2>3, <3>2
    <3>4. Len(st[i].entryHash) = i
      BY ONLY <2>4, <3>3
    <3>5. QED BY <2>3, <3>4
  <2>5. CASE i # 1
    <3>1. i - 1 \in 1 .. n /\ i - 1 \notin S
      BY <1>1, <2>2, <2>3, <2>5
    <3>2. Len(st[i - 1].entryHash) = i - 1
      BY <3>1
    <3>3. st[i].previousHash = st[i - 1].entryHash
      BY <1>1, <2>3, <2>5 DEF Linked
    <3>4. QED BY <1>1, <1>2, <2>3, <3>2, <3>3
  <2>6. QED BY <2>4, <2>5
<1>4. QED BY <1>1, <1>3

\* the head of a storage is a hash
LEMMA HeadIsHash ==
  ASSUME NEW wr \in Seq(Chain!Entry)
  PROVE  HeadOf(wr) \in Chain!Hashes
<1>1. Len(wr) \in Nat /\ DOMAIN wr = 1 .. Len(wr) /\ (wr = << >> <=> Len(wr) = 0)
  BY LenProperties, EmptySeq
<1>2. CASE wr = << >>
  <2>1. << >> \in Seq(Contents \cup {"junk"})
    BY EmptySeq
  <2>2. QED BY <1>2, <2>1 DEF HeadOf, Chain!Genesis, Chain!Hashes
<1>3. CASE wr # << >>
  <2>1. HeadOf(wr) = wr[Len(wr)].entryHash /\ Len(wr) \in DOMAIN wr
    BY <1>1, <1>3 DEF HeadOf, Chain!Last
  <2>2. wr[Len(wr)] \in Chain!Entry
    BY <2>1, <1>1, ElementOfSeq
  <2>3. QED BY <2>1, <2>2 DEF Chain!Entry
<1>4. QED BY <1>2, <1>3

\* an entry written behind the hash h
LEMMA WrittenGrows ==
  ASSUME NEW wr, NEW f, WrittenOK(wr, f), NEW c \in Contents, NEW h \in Chain!Hashes,
         NEW g \in BOOLEAN, g = FALSE <=> f = FALSE /\ h = HeadOf(wr)
  PROVE  /\ Chain!EntryOn(h, c) \in Chain!Entry
         /\ WrittenOK(Append(wr, Chain!EntryOn(h, c)), g)
         /\ HeadOf(Append(wr, Chain!EntryOn(h, c))) = Chain!ComputeHash(c, h)
<1> DEFINE n == Len(wr)
           e == Chain!EntryOn(h, c)
           k == Chain!ComputeHash(c, h)
           s == Append(wr, e)
<1>1. n \in Nat /\ DOMAIN wr = 1 .. n /\ wr \in Seq(Chain!Entry) /\ (wr = << >> <=> n = 0)
  BY LenProperties, EmptySeq DEF WrittenOK
<1>2. k \in Chain!Hashes
  BY HashGrows
<1>3. e.content = c /\ e.previousHash = h /\ e.entryHash = k
  BY DEF Chain!EntryOn
<1>4. e \in Chain!Entry
  BY <1>2 DEF Chain!Entry, Chain!EntryOn
<1>5. Chain!Verify(e)
  BY <1>3 DEF Chain!Verify
<1> HIDE DEF e, k
<1>6. /\ s \in Seq(Chain!Entry) /\ Len(s) = n + 1 /\ DOMAIN s = 1 .. n + 1
      /\ s[n + 1] = e /\ \A i \in 1 .. n : s[i] = wr[i]
      /\ s # << >>
  BY <1>1, <1>4, AppendProperties, LenProperties
<1> HIDE DEF n, s
<1>7. HeadOf(s) = k
  BY <1>3, <1>6 DEF HeadOf, Chain!Last
<1>8. \A i \in 1 .. n : Linked(s, i) <=> Linked(wr, i)
  <2> TAKE i \in 1 .. n
  <2>1. s[i] = wr[i] /\ (i # 1 => s[i - 1] = wr[i - 1])
    BY <1>1, <1>6
  <2>2. CASE i = 1
    BY <2>1, <2>2 DEF Linked
  <2>3. CASE i # 1
    BY <2>1, <2>3 DEF Linked
  <2>4. QED BY <2>2, <2>3
<1>9. Linked(s, n + 1) <=> h = HeadOf(wr)
  <2>1. CASE n = 0
    BY <1>1, <1>3, <1>6, <2>1 DEF Linked, HeadOf
  <2>2. CASE n # 0
    <3>1. n + 1 # 1 /\ (n + 1) - 1 = n /\ s[n] = wr[n]
      BY <1>1, <1>6, <2>2
    <3>2. HeadOf(wr) = wr[n].entryHash
      BY <1>1, <2>2 DEF HeadOf, Chain!Last, n
    <3>3. Linked(s, n + 1) <=> s[n + 1].previousHash = s[n].entryHash
      BY <3>1 DEF Linked
    <3>4. QED BY <1>3, <1>6, <3>1, <3>2, <3>3
  <2>3. QED BY <2>1, <2>2
<1>10. g = FALSE <=> \A i \in DOMAIN s : Linked(s, i)
  <2>1. f = FALSE <=> \A i \in 1 .. n : Linked(wr, i)
    BY <1>1 DEF WrittenOK
  <2>2. (\A i \in DOMAIN s : Linked(s, i))
          <=> (\A i \in 1 .. n : Linked(s, i)) /\ Linked(s, n + 1)
    BY <1>1, <1>6
  <2>3. QED BY <1>8, <1>9, <2>1, <2>2
<1>11. \A i \in DOMAIN s : Chain!Verify(s[i])
  <2> TAKE i \in DOMAIN s
  <2>1. CASE i = n + 1
    BY <1>5, <1>6, <2>1
  <2>2. CASE i \in 1 .. n
    BY <1>1, <1>6, <2>2 DEF WrittenOK
  <2>3. QED BY <1>1, <1>6, <2>1, <2>2
<1>12. WrittenOK(s, g)
  BY ONLY <1>6, <1>10, <1>11, g \in BOOLEAN DEF WrittenOK
<1>13. QED BY <1>4, <1>7, <1>12 DEF s, e, k

\* the positions of the rows that are no row ever written
Foreign(st, wr) == {i \in DOMAIN st : \A j \in DOMAIN wr : st[i] # wr[j]}

\* What a verification vouches for: while the chain has not forked, an accepted
\* storage is what was written up to a row, and what follows is foreign.
LEMMA VerifiedIsPrefix ==
  ASSUME NEW wr, WrittenOK(wr, FALSE), NEW st \in Seq(Chain!Entry),
         Chain!VerifyIntegrity(st)
  PROVE  \E k \in 0 .. Len(st) : /\ k + 1 .. Len(st) \subseteq Foreign(st, wr)
                                 /\ Chain!IsPrefix(SubSeq(st, 1, k), wr)
<1> DEFINE n == Len(st)
           m == Len(wr)
           Known(i) == \E j \in DOMAIN wr : st[i] = wr[j]
           S == {k \in 0 .. n : \A i \in k + 1 .. n : ~ Known(i)}
<1>1. /\ n \in Nat /\ DOMAIN st = 1 .. n /\ m \in Nat /\ DOMAIN wr = 1 .. m
      /\ \A i \in 1 .. n : st[i] \in Chain!Entry
      /\ wr \in Seq(Chain!Entry) /\ \A i \in 1 .. m : wr[i] \in Chain!Entry
  BY LenProperties, ElementOfSeq DEF WrittenOK
<1>2. \A i \in 1 .. m : Linked(wr, i) /\ Chain!Verify(wr[i])
  BY <1>1 DEF WrittenOK
<1>3. \A i \in 1 .. n : Linked(st, i) /\ Chain!Verify(st[i])
  BY <1>1 DEF Chain!VerifyIntegrity, Linked
<1>4. /\ \A i \in 1 .. n : Len(st[i].entryHash) = i
      /\ \A i \in 1 .. m : Len(wr[i].entryHash) = i
  BY <1>1, <1>2, <1>3, HashesCount
<1>5. PICK k \in S : \A j \in S : k <= j
  <2>1. n \in S /\ S \in SUBSET Nat
    BY <1>1
  <2>2. QED BY <2>1, LeastOf
<1>6. k \in 0 .. n /\ \A i \in k + 1 .. n : ~ Known(i)
  OBVIOUS
<1>7. k # 0 => Known(k)
  <2> SUFFICES ASSUME k # 0, ~ Known(k) PROVE FALSE
    OBVIOUS
  <2> HIDE DEF Known, n
  <2>1. k - 1 \in 0 .. n /\ \A i \in (k - 1) + 1 .. n : i = k \/ i \in k + 1 .. n
    BY <1>1, <1>6
  <2>2. k - 1 \in S
    BY <1>6, <2>1
  <2>3. QED BY <1>5, <1>6, <2>2
<1> DEFINE Off(j) == st[k - j] # wr[k - j]
           T == {j \in 0 .. k - 1 : Off(j)}
<1> HIDE DEF S
<1>8. k <= m /\ (k # 0 => st[k] = wr[k])
  <2>1. CASE k = 0
    BY <1>1, <2>1
  <2>2. CASE k # 0
    <3>1. PICK j \in 1 .. m : st[k] = wr[j]
      BY <1>1, <1>7, <2>2
    <3>2. k \in 1 .. n
      BY <1>1, <1>6, <2>2
    <3>3. k = j
      BY <1>4, <3>1, <3>2
    <3>4. QED BY <1>1, <3>1, <3>3
  <2>3. QED BY <2>1, <2>2
<1>9. T = {}
  <2> SUFFICES ASSUME T # {} PROVE FALSE
    OBVIOUS
  <2>1. T \in SUBSET Nat
    BY <1>1, <1>6
  <2>2. PICK j \in T : \A i \in T : j <= i
    BY <2>1, LeastOf
  <2>3. j \in 0 .. k - 1 /\ Off(j)
    OBVIOUS
  <2>4. CASE j = 0
    <3>1. k # 0 /\ k - j = k
      BY <1>6, <2>3, <2>4
    <3>2. QED BY <1>8, <2>3, <3>1
  <2>5. CASE j # 0
    <3> DEFINE i == k - j
    <3>1. /\ i \in 1 .. n /\ i \in 1 .. m /\ i + 1 \in 1 .. n /\ i + 1 \in 1 .. m
          /\ i + 1 # 1 /\ (i + 1) - 1 = i /\ k - (j - 1) = i + 1
          /\ j - 1 \in 0 .. k - 1 /\ j - 1 < j
      BY <1>1, <1>6, <1>8, <2>3, <2>5
    <3>2. j - 1 \notin T
      BY <2>2, <3>1
    <3> HIDE DEF T, i
    <3>3. st[i + 1] = wr[i + 1]
      <4>1. ~ Off(j - 1)
        BY <3>1, <3>2 DEF T
      <4>2. QED BY <3>1, <4>1
    <3>4. st[i].entryHash = wr[i].entryHash
      <4>1. /\ st[i + 1].previousHash = st[i].entryHash
            /\ wr[i + 1].previousHash = wr[i].entryHash
        BY <1>2, <1>3, <3>1 DEF Linked
      <4>2. QED BY <3>3, <4>1
    <3>5. st[i] = wr[i]
      BY <1>1, <1>2, <1>3, <3>1, <3>4, HashIsInjective
    <3>6. QED BY <2>3, <3>5 DEF i
  <2>6. QED BY <2>4, <2>5
<1>10. \A i \in 1 .. k : st[i] = wr[i]
  <2> TAKE i \in 1 .. k
  <2>1. k - i \in 0 .. k - 1 /\ k - (k - i) = i
    BY <1>6
  <2>2. ~ Off(k - i)
    BY <1>9, <2>1
  <2>3. QED BY <2>1, <2>2
<1>11. k + 1 .. n \subseteq Foreign(st, wr)
  <2> SUFFICES ASSUME NEW i \in k + 1 .. n PROVE i \in Foreign(st, wr)
    OBVIOUS
  <2>1. ~ Known(i) /\ i \in DOMAIN st
    BY <1>1, <1>6
  <2>2. QED BY <2>1 DEF Foreign
<1> DEFINE a == SubSeq(st, 1, k)
           b == SubSeq(wr, 1, k)
<1>12. Chain!IsPrefix(a, wr)
  <2>1. \A s \in Seq(Chain!Entry) : (\A i \in 1 .. k : s[i] \in Chain!Entry) =>
          /\ SubSeq(s, 1, k) \in Seq(Chain!Entry) /\ Len(SubSeq(s, 1, k)) = k
          /\ \A i \in 1 .. k : SubSeq(s, 1, k)[i] = s[i]
    <3> TAKE s \in Seq(Chain!Entry)
    <3> HAVE \A i \in 1 .. k : s[i] \in Chain!Entry
    <3>1. 1 \in Int /\ k \in Int /\ k >= 0
      BY <1>1, <1>6
    <3>2. /\ SubSeq(s, 1, k) \in Seq(Chain!Entry)
          /\ Len(SubSeq(s, 1, k)) = IF 1 <= k THEN k - 1 + 1 ELSE 0
          /\ \A i \in 1 .. k - 1 + 1 : SubSeq(s, 1, k)[i] = s[1 + i - 1]
      BY <3>1, SubSeqProperties
    <3>3. QED BY <3>1, <3>2
  <2>2. /\ \A i \in 1 .. k : st[i] \in Chain!Entry
        /\ \A i \in 1 .. k : wr[i] \in Chain!Entry
    BY <1>1, <1>6, <1>8
  <2>3. /\ a \in Seq(Chain!Entry) /\ Len(a) = k /\ \A i \in 1 .. k : a[i] = st[i]
        /\ b \in Seq(Chain!Entry) /\ Len(b) = k /\ \A i \in 1 .. k : b[i] = wr[i]
    BY <1>1, <2>1, <2>2
  <2> HIDE DEF a
  <2>4. SubSeq(a, 1, Len(a)) \in Seq(Chain!Entry) /\ Len(SubSeq(a, 1, Len(a))) = k
        /\ \A i \in 1 .. k : SubSeq(a, 1, Len(a))[i] = a[i]
    <3>1. \A i \in 1 .. k : a[i] \in Chain!Entry
      BY <2>2, <2>3
    <3>2. QED BY <2>1, <2>3, <3>1
  <2> DEFINE c == SubSeq(a, 1, Len(a))
  <2>5. c = b
    <3> HIDE DEF b, c
    <3>1. /\ c \in Seq(Chain!Entry) /\ b \in Seq(Chain!Entry) /\ Len(c) = Len(b)
      BY <2>3, <2>4 DEF c
    <3>2. \A i \in 1 .. Len(c) : c[i] = b[i]
      BY <1>10, <2>3, <2>4 DEF c
    <3>3. QED BY <3>1, <3>2, SeqEqual
  <2>6. SubSeq(wr, 1, Len(a)) = b /\ Len(a) <= Len(wr)
    BY <1>8, <2>3
  <2>7. QED BY <2>5, <2>6 DEF Chain!IsPrefix
<1>13. QED BY <1>6, <1>11, <1>12

\* two writers that were started
TwoAtWork(lh) ==
  \E v, w \in Writers : v # w /\ Chain!NoHash \notin {lh[v], lh[w]}

\* no more than dm rows are foreign
Few(st, wr, dm) ==
  IsFiniteSet(Foreign(st, wr)) /\ Cardinality(Foreign(st, wr)) <= dm

\* what every state of the chain satisfies: of the storage st, of the heads lh,
\* of what was ever written wr, of a fork f, of an error in doubt d and of the
\* damage dm
ChainOK(st, lh, wr, f, d, dm) ==
  /\ WrittenOK(wr, f)
  /\ st \in Seq(Chain!Entry) /\ Few(st, wr, dm)
  /\ lh \in [Writers -> Chain!Hashes \cup {Chain!NoHash}]
  /\ d \in BOOLEAN /\ dm \in 0 .. MaxDamage
  /\ dm = 0 => st = wr
  /\ d = FALSE /\ dm = 0 /\ ~ TwoAtWork(lh) =>
       f = FALSE /\ \A w \in Writers : lh[w] # Chain!NoHash => lh[w] = HeadOf(wr)

\* the hash of no content is the hash of no entry
LEMMA NoHashIsNone == Chain!NoHash \notin Chain!Hashes
<1>1. SUFFICES ASSUME Chain!NoHash \in Seq(Contents \cup {"junk"}) PROVE FALSE
  BY DEF Chain!Hashes
<1>2. Chain!NoHash = << "none" >> /\ Len(<< "none" >>) = 1 /\ << "none" >>[1] = "none"
  BY DEF Chain!NoHash
<1>3. Chain!NoHash[1] \in Contents \cup {"junk"}
  BY <1>1, <1>2, ElementOfSeq
<1>4. QED BY <1>2, <1>3, ChainConstants

\* ChainAgent::new
LEMMA ChainNew ==
  ASSUME NEW st, NEW lh, NEW wr, NEW f, NEW d, NEW dm, ChainOK(st, lh, wr, f, d, dm),
         NEW w \in Writers
  PROVE  ChainOK(st, [lh EXCEPT ![w] = HeadOf(st)], wr, f, d, dm)
<1> DEFINE g == [lh EXCEPT ![w] = HeadOf(st)]
           h == HeadOf(st)
<1>1. h \in Chain!Hashes
  BY HeadIsHash DEF ChainOK
<1>2. h # Chain!NoHash
  BY <1>1, NoHashIsNone
<1>3. lh \in [Writers -> Chain!Hashes \cup {Chain!NoHash}]
  BY DEF ChainOK
<1> HIDE DEF h
<1>4. g \in [Writers -> Chain!Hashes \cup {Chain!NoHash}] /\ g[w] = h
      /\ \A v \in Writers : v # w => g[v] = lh[v]
  BY <1>1, <1>3 DEF h
<1> HIDE DEF g
<1>6. ASSUME d = FALSE, dm = 0, ~ TwoAtWork(g)
      PROVE  f = FALSE /\ \A v \in Writers : g[v] # Chain!NoHash => g[v] = HeadOf(wr)
  <2>1. \A v \in Writers : v # w => lh[v] = Chain!NoHash
    BY <1>2, <1>4, <1>6 DEF TwoAtWork
  <2>2. ~ TwoAtWork(lh)
    BY <2>1 DEF TwoAtWork
  <2>3. f = FALSE /\ st = wr
    BY <1>6, <2>2 DEF ChainOK
  <2>4. \A v \in Writers : g[v] # Chain!NoHash => v = w
    BY <1>4, <2>1
  <2>5. QED BY <1>4, <2>3, <2>4 DEF h
<1>7. ChainOK(st, g, wr, f, d, dm)
  BY <1>4, <1>6 DEF ChainOK
<1>8. QED BY <1>7 DEF g

\* a row written is no foreign row, and makes no other one foreign
LEMMA FewerForeign ==
  ASSUME NEW st \in Seq(Chain!Entry), NEW wr \in Seq(Chain!Entry), NEW e \in Chain!Entry,
         NEW dm \in Nat, Few(st, wr, dm)
  PROVE  Few(Append(st, e), Append(wr, e), dm)
<1> DEFINE s == Append(wr, e)
           t == Append(st, e)
<1>1. /\ Len(wr) \in Nat /\ DOMAIN wr = 1 .. Len(wr) /\ Len(st) \in Nat
      /\ DOMAIN st = 1 .. Len(st)
      /\ DOMAIN s = 1 .. Len(wr) + 1 /\ s[Len(wr) + 1] = e
      /\ \A i \in 1 .. Len(wr) : s[i] = wr[i]
      /\ DOMAIN t = 1 .. Len(st) + 1 /\ t[Len(st) + 1] = e
      /\ \A i \in 1 .. Len(st) : t[i] = st[i]
  BY AppendProperties, LenProperties
<1> HIDE DEF s, t
<1>2. \A i \in Foreign(t, s) : i \in Foreign(st, wr)
  <2> TAKE i \in Foreign(t, s)
  <2>1. i \in DOMAIN t /\ \A j \in DOMAIN s : t[i] # s[j]
    BY DEF Foreign
  <2>2. i \in DOMAIN st
    BY <1>1, <2>1
  <2>3. \A j \in DOMAIN wr : st[i] # wr[j]
    BY <1>1, <2>1, <2>2
  <2>4. QED BY <2>2, <2>3 DEF Foreign
<1>3. Foreign(t, s) \in SUBSET Foreign(st, wr)
  BY <1>2
<1> DEFINE F == Foreign(st, wr)
           G == Foreign(t, s)
<1> HIDE DEF F, G
<1>4. /\ IsFiniteSet(F) /\ Cardinality(F) <= dm /\ G \in SUBSET F
  BY <1>3 DEF Few, F, G
<1>5. /\ IsFiniteSet(G) /\ Cardinality(G) <= Cardinality(F)
      /\ Cardinality(F) \in Nat /\ Cardinality(G) \in Nat
  BY <1>4, FS_Subset, FS_CardinalityType
<1>6. Cardinality(G) <= dm
  BY <1>4, <1>5
<1>7. QED BY <1>5, <1>6 DEF Few, G, s, t

\* record, whether its answer is Ok (ok) or an error in doubt
LEMMA ChainRecord ==
  ASSUME NEW st, NEW lh, NEW wr, NEW f, NEW d, NEW dm, ChainOK(st, lh, wr, f, d, dm),
         NEW w \in Writers, lh[w] # Chain!NoHash, NEW c \in Contents, NEW ok \in BOOLEAN
  PROVE  ChainOK(Append(st, Chain!EntryOn(lh[w], c)),
                 IF ok THEN [lh EXCEPT ![w] = Chain!ComputeHash(c, lh[w])] ELSE lh,
                 Append(wr, Chain!EntryOn(lh[w], c)),
                 f \/ lh[w] # HeadOf(wr),
                 IF ok THEN d ELSE TRUE, dm)
<1> DEFINE h == lh[w]
           e == Chain!EntryOn(h, c)
           k == Chain!ComputeHash(c, h)
           s == Append(wr, e)
           t == Append(st, e)
           g == f \/ h # HeadOf(wr)
           l == IF ok THEN [lh EXCEPT ![w] = k] ELSE lh
<1>1. /\ WrittenOK(wr, f) /\ wr \in Seq(Chain!Entry) /\ f \in BOOLEAN
      /\ lh \in [Writers -> Chain!Hashes \cup {Chain!NoHash}]
      /\ st \in Seq(Chain!Entry) /\ Few(st, wr, dm) /\ d \in BOOLEAN /\ dm \in 0 .. MaxDamage
  BY DEF ChainOK, WrittenOK
<1>2. h \in Chain!Hashes
  BY <1>1
<1>3. g \in BOOLEAN /\ (g = FALSE <=> f = FALSE /\ h = HeadOf(wr))
  BY <1>1
<1> HIDE DEF h, g
<1>4. e \in Chain!Entry /\ WrittenOK(s, g) /\ HeadOf(s) = k
  <2>1. c \in Contents
    OBVIOUS
  <2>2. WrittenOK(wr, f) /\ h \in Chain!Hashes
        /\ g \in BOOLEAN /\ (g = FALSE <=> f = FALSE /\ h = HeadOf(wr))
    BY <1>1, <1>2, <1>3
  <2>3. QED BY ONLY ZenonT(60), <2>1, <2>2, WrittenGrows
<1>5. k \in Chain!Hashes /\ k # Chain!NoHash
  BY <1>2, HashGrows, NoHashIsNone
<1>6. t \in Seq(Chain!Entry)
  BY <1>1, <1>4, AppendProperties
<1>7. Few(t, s, dm)
  <2>1. dm \in Nat
    BY <1>1, ChainConstants
  <2>2. e \in Chain!Entry
    BY <1>4
  <2> HIDE DEF e
  <2>3. QED BY <1>1, <2>1, <2>2, FewerForeign
<1> HIDE DEF e, k, s, t
<1>9. /\ l \in [Writers -> Chain!Hashes \cup {Chain!NoHash}]
      /\ l[w] = (IF ok THEN k ELSE h)
      /\ \A v \in Writers : v # w => l[v] = lh[v]
  <2>1. CASE ok = TRUE
    BY <1>1, <1>5, <2>1
  <2>2. CASE ok = FALSE
    BY <1>1, <2>2 DEF h
  <2>3. QED BY <2>1, <2>2
<1> HIDE DEF l
<1>11. dm = 0 => t = s
  BY DEF ChainOK, t, s
<1>12. ASSUME (IF ok THEN d ELSE TRUE) = FALSE, dm = 0, ~ TwoAtWork(l)
       PROVE  g = FALSE /\ \A v \in Writers : l[v] # Chain!NoHash => l[v] = HeadOf(s)
  <2>1. ok = TRUE /\ d = FALSE
    BY <1>1, <1>12
  <2>2. l[w] = k
    BY <1>9, <2>1
  <2>3. \A v \in Writers : v # w => l[v] = Chain!NoHash
    BY <1>5, <1>12, <2>2 DEF TwoAtWork
  <2>4. ~ TwoAtWork(lh)
    BY <1>9, <2>3 DEF TwoAtWork
  <2>5. f = FALSE /\ h = HeadOf(wr)
    BY <1>12, <2>1, <2>4 DEF ChainOK, h
  <2>6. g = FALSE
    BY <1>3, <2>5
  <2>7. QED BY <1>4, <2>2, <2>3, <2>6
<1>13. (IF ok THEN d ELSE TRUE) \in BOOLEAN
  BY <1>1
<1>14. ChainOK(t, l, s, g, IF ok THEN d ELSE TRUE, dm)
  BY ONLY <1>1, <1>4, <1>6, <1>7, <1>9, <1>11, <1>12, <1>13 DEF ChainOK
<1>15. QED BY <1>14 DEF t, l, s, g, e, k, h

\* a row that is lost leaves the others as they are
LEMMA RowLost ==
  ASSUME NEW st \in Seq(Chain!Entry), NEW wr, NEW i \in DOMAIN st,
         NEW dm \in Nat, Few(st, wr, dm)
  PROVE  Chain!RemoveAt(st, i) \in Seq(Chain!Entry) /\ Few(Chain!RemoveAt(st, i), wr, dm)
<1> DEFINE n == Len(st)
           a == SubSeq(st, 1, i - 1)
           from == i + 1
           b == SubSeq(st, from, n)
           u == a \o b
           Old(k) == IF k < i THEN k ELSE k + 1
           F == Foreign(st, wr)
           G == Foreign(u, wr)
<1>1. n \in Nat /\ DOMAIN st = 1 .. n /\ \A j \in 1 .. n : st[j] \in Chain!Entry
  BY LenProperties, ElementOfSeq
<1>2. i \in 1 .. n /\ i - 1 \in Int /\ i + 1 \in Int /\ n \in Int /\ 1 \in Int
  BY <1>1
<1>3. u = Chain!RemoveAt(st, i)
  BY DEF Chain!RemoveAt
<1> HIDE DEF n
<1>4. /\ a \in Seq(Chain!Entry) /\ Len(a) = i - 1
      /\ \A j \in 1 .. i - 1 : a[j] = st[j]
  <2>1. \A j \in 1 .. i - 1 : st[j] \in Chain!Entry
    BY <1>1, <1>2
  <2>2. /\ a \in Seq(Chain!Entry)
        /\ Len(a) = IF 1 <= i - 1 THEN (i - 1) - 1 + 1 ELSE 0
        /\ \A j \in 1 .. (i - 1) - 1 + 1 : a[j] = st[1 + j - 1]
    BY <1>2, <2>1, SubSeqProperties
  <2>3. QED BY <1>2, <2>2
<1>5. /\ b \in Seq(Chain!Entry) /\ Len(b) = n - i
      /\ \A j \in 1 .. n - i : b[j] = st[i + j]
  <2>1. from \in Int /\ \A j \in from .. n : st[j] \in Chain!Entry
    BY <1>1, <1>2
  <2>a. from = i + 1
    OBVIOUS
  <2> HIDE DEF from
  <2>2. /\ b \in Seq(Chain!Entry)
        /\ Len(b) = IF from <= n THEN n - from + 1 ELSE 0
        /\ \A j \in 1 .. n - from + 1 : b[j] = st[from + j - 1]
    BY <1>2, <2>1, SubSeqProperties
  <2> HIDE DEF b
  <2>3. Len(b) = n - i /\ n - from + 1 = n - i
    BY <1>1, <1>2, <2>a, <2>2
  <2>4. ASSUME NEW j \in 1 .. n - i PROVE b[j] = st[i + j]
    <3>1. from + j - 1 = i + j
      BY <1>1, <1>2, <2>a
    <3>2. b[j] = st[from + j - 1]
      BY <2>2, <2>3
    <3>3. QED BY <3>1, <3>2
  <2>5. QED BY <2>2, <2>3, <2>4
<1> HIDE DEF a, b, from
<1>6. /\ u \in Seq(Chain!Entry) /\ Len(u) = n - 1 /\ DOMAIN u = 1 .. n - 1
      /\ \A k \in 1 .. n - 1 : u[k] = st[Old(k)]
  <2>1. /\ u \in Seq(Chain!Entry) /\ Len(u) = Len(a) + Len(b)
        /\ \A k \in 1 .. Len(a) + Len(b) : u[k] = IF k <= Len(a) THEN a[k] ELSE b[k - Len(a)]
    BY <1>4, <1>5, ConcatProperties
  <2> HIDE DEF u
  <2>2. Len(u) = n - 1 /\ DOMAIN u = 1 .. n - 1
    <3>0. n \in Int /\ i \in Int /\ (i - 1) + (n - i) = n - 1
      BY <1>1, <1>2
    <3>s. Len(u) = Len(a) + Len(b) /\ Len(a) = i - 1 /\ Len(b) = n - i
      BY <1>4, <1>5, <2>1
    <3>1. Len(u) = n - 1
      BY <3>0, <3>s
    <3>2. DOMAIN u = 1 .. Len(u)
      BY <2>1, LenProperties
    <3>3. QED BY <3>1, <3>2
  <2>3. ASSUME NEW k \in 1 .. n - 1 PROVE u[k] = st[Old(k)]
    <3> DEFINE la == Len(a)
               lb == Len(b)
    <3>0. la = i - 1 /\ lb = n - i /\ n \in Nat /\ i \in 1 .. n
      BY <1>1, <1>2, <1>4, <1>5
    <3>n. \A j \in 1 .. la + lb : u[j] = IF j <= la THEN a[j] ELSE b[j - la]
      BY <2>1
    <3> HIDE DEF la, lb
    <3>k. k \in 1 .. la + lb
      BY <3>0
    <3>1. CASE k < i
      <4>1. k <= la /\ k \in 1 .. i - 1
        BY <3>0, <3>1
      <4>2. u[k] = a[k]
        BY <3>n, <3>k, <4>1
      <4>3. QED BY <1>4, <3>1, <4>1, <4>2
    <3>2. CASE ~ (k < i)
      <4>0. k \in Nat /\ k <= n - 1 /\ i <= k /\ i \in Nat
        BY <3>0, <3>2
      <4>a. ~ (k <= la) /\ k - la = k - i + 1
        BY <3>0, <4>0
      <4>b. k - i + 1 \in 1 .. n - i /\ i + (k - i + 1) = k + 1
        BY <3>0, <4>0
      <4>1. ~ (k <= la) /\ k - la \in 1 .. n - i /\ i + (k - la) = k + 1
        BY <4>a, <4>b
      <4>2. u[k] = b[k - la]
        BY <3>n, <3>k, <4>1
      <4>3. b[k - la] = st[i + (k - la)]
        BY <1>5, <4>1
      <4>4. QED BY <3>2, <4>1, <4>2, <4>3
    <3>3. QED BY <3>1, <3>2
  <2>4. QED BY <2>1, <2>2, <2>3
<1>7. \A k \in G : k \in 1 .. n - 1 /\ Old(k) \in F
  <2> TAKE k \in G
  <2>1. k \in 1 .. n - 1 /\ \A j \in DOMAIN wr : u[k] # wr[j]
    BY <1>6 DEF Foreign
  <2>2. Old(k) \in DOMAIN st
    BY <1>1, <1>2, <2>1
  <2>3. \A j \in DOMAIN wr : st[Old(k)] # wr[j]
    BY <1>6, <2>1
  <2> HIDE DEF Old
  <2>4. QED BY <2>1, <2>2, <2>3 DEF Foreign
<1> DEFINE p == [k \in G |-> Old(k)]
<1>8. p \in Injection(G, F)
  <2>1. p \in [G -> F]
    BY <1>7
  <2>2. ASSUME NEW k \in G, NEW j \in G, p[k] = p[j] PROVE k = j
    <3>1. k \in Int /\ j \in Int /\ Old(k) = Old(j)
      BY <1>1, <1>7, <2>2
    <3>2. QED BY <1>2, <3>1
  <2>3. QED BY <2>1, <2>2 DEF Injection, IsInjective
<1> HIDE DEF F, G, p
<1>9. IsFiniteSet(F) /\ Cardinality(F) <= dm
  BY DEF Few, F
<1>10. IsFiniteSet(G) /\ Cardinality(G) <= Cardinality(F)
  BY <1>8, <1>9, FS_Injection
<1>11. Cardinality(G) <= dm
  BY <1>9, <1>10, FS_CardinalityType
<1>12. QED BY <1>3, <1>6, <1>10, <1>11 DEF Few, G

\* a row that is altered is one more foreign row at most
LEMMA RowAltered ==
  ASSUME NEW st \in Seq(Chain!Entry), NEW wr, NEW i \in DOMAIN st, NEW e \in Chain!Entry,
         NEW dm \in Nat, Few(st, wr, dm)
  PROVE  [st EXCEPT ![i] = e] \in Seq(Chain!Entry) /\ Few([st EXCEPT ![i] = e], wr, dm + 1)
<1> DEFINE n == Len(st)
           u == [st EXCEPT ![i] = e]
           F == Foreign(st, wr)
           G == Foreign(u, wr)
<1>1. /\ n \in Nat /\ DOMAIN st = 1 .. n /\ st \in [1 .. n -> Chain!Entry]
  BY LenProperties
<1> HIDE DEF n
<1>2. u \in [1 .. n -> Chain!Entry] /\ DOMAIN u = 1 .. n
      /\ \A j \in 1 .. n : j # i => u[j] = st[j]
  BY <1>1
<1>3. u \in Seq(Chain!Entry)
  BY <1>1, <1>2, SeqDef
<1> HIDE DEF u
<1>4. G \in SUBSET (F \cup {i})
  <2> SUFFICES ASSUME NEW j \in G, j # i PROVE j \in F
    OBVIOUS
  <2>1. j \in 1 .. n /\ \A k \in DOMAIN wr : u[j] # wr[k]
    BY <1>2 DEF Foreign
  <2>2. QED BY <1>1, <1>2, <2>1 DEF Foreign
<1> HIDE DEF F, G
<1>5. IsFiniteSet(F) /\ Cardinality(F) <= dm /\ Cardinality(F) \in Nat
  <2>1. IsFiniteSet(F) /\ Cardinality(F) <= dm
    BY DEF Few, F
  <2>2. QED BY <2>1, FS_CardinalityType
<1> DEFINE H == F \cup {i}
<1>6. /\ IsFiniteSet(H)
      /\ Cardinality(H) = IF i \in F THEN Cardinality(F) ELSE Cardinality(F) + 1
  BY <1>5, FS_AddElement
<1> HIDE DEF H
<1>7. IsFiniteSet(G) /\ Cardinality(G) <= Cardinality(H)
  <2>1. G \in SUBSET H
    BY <1>4 DEF H
  <2>2. QED BY <1>6, <2>1, FS_Subset
<1>8. Cardinality(G) <= dm + 1
  <2>1. Cardinality(G) \in Nat /\ Cardinality(H) \in Nat
    BY <1>6, <1>7, FS_CardinalityType
  <2>2. QED BY <1>5, <1>6, <1>7, <2>1
<1>9. QED BY <1>3, <1>7, <1>8 DEF Few, G, u

\* the storage loses a row, or alters one to another entry
LEMMA ChainDamage ==
  ASSUME NEW st, NEW lh, NEW wr, NEW f, NEW d, NEW dm, ChainOK(st, lh, wr, f, d, dm),
         dm < MaxDamage, NEW i \in DOMAIN st, NEW u,
         \/ u = Chain!RemoveAt(st, i)
         \/ \E e \in Chain!Entry : u = [st EXCEPT ![i] = e]
  PROVE  ChainOK(u, lh, wr, f, d, dm + 1)
<1>1. st \in Seq(Chain!Entry) /\ Few(st, wr, dm) /\ dm \in 0 .. MaxDamage
  BY DEF ChainOK
<1>2. dm \in Nat /\ dm + 1 \in 0 .. MaxDamage /\ dm + 1 # 0
  BY <1>1, ChainConstants
<1>3. u \in Seq(Chain!Entry) /\ Few(u, wr, dm + 1)
  <2>1. CASE u = Chain!RemoveAt(st, i)
    <3>1. u \in Seq(Chain!Entry) /\ Few(u, wr, dm)
      BY <1>1, <1>2, <2>1, RowLost
    <3>2. Cardinality(Foreign(u, wr)) \in Nat /\ Cardinality(Foreign(u, wr)) <= dm
      BY <3>1, FS_CardinalityType DEF Few
    <3>3. Cardinality(Foreign(u, wr)) <= dm + 1
      BY <1>2, <3>2
    <3>4. QED BY <3>1, <3>3 DEF Few
  <2>2. ASSUME NEW e \in Chain!Entry, u = [st EXCEPT ![i] = e]
        PROVE  u \in Seq(Chain!Entry) /\ Few(u, wr, dm + 1)
    <3>1. /\ [st EXCEPT ![i] = e] \in Seq(Chain!Entry)
          /\ Few([st EXCEPT ![i] = e], wr, dm + 1)
      BY <1>1, <1>2, RowAltered
    <3>2. QED BY <2>2, <3>1
  <2>3. QED BY <2>1, <2>2
<1>4. QED BY <1>2, <1>3 DEF ChainOK

\* an altered row is an entry
LEMMA AlteredIsEntry ==
  ASSUME NEW e \in Chain!Entry, written \in Seq(Chain!Entry)
  PROVE  Chain!Altered(e) \subseteq Chain!Entry
<1> DEFINE Known == {Chain!Genesis, Chain!JunkHash}
                      \cup {r.entryHash : r \in Chain!Range(written)}
<1>1. Known \subseteq Chain!Hashes
  <2>1. Chain!Genesis \in Chain!Hashes
    BY EmptySeq DEF Chain!Genesis, Chain!Hashes
  <2>2. Chain!JunkHash \in Chain!Hashes
    <3>1. << "junk" >> \in [1 .. 1 -> Contents \cup {"junk"}]
      OBVIOUS
    <3>2. QED BY <3>1, SeqDef DEF Chain!JunkHash, Chain!Hashes
  <2>3. \A r \in Chain!Range(written) : r.entryHash \in Chain!Hashes
    <3> TAKE r \in Chain!Range(written)
    <3>1. PICK j \in DOMAIN written : r = written[j]
      BY Zenon DEF Chain!Range
    <3>2. r \in Chain!Entry
      BY <3>1, ElementOfSeq, LenProperties
    <3>3. QED BY <3>2 DEF Chain!Entry
  <2>4. QED BY <2>1, <2>2, <2>3
<1>2. Chain!Altered(e) =
        {[e EXCEPT !.content = c] : c \in Contents}
          \cup {[e EXCEPT !.previousHash = h] : h \in Known}
          \cup {[e EXCEPT !.entryHash = h] : h \in Known}
          \cup {Chain!EntryOn(e.previousHash, c) : c \in Contents}
  BY Zenon DEF Chain!Altered
<1> HIDE DEF Known
<1>3. \A c \in Contents : Chain!EntryOn(e.previousHash, c) \in Chain!Entry
  <2> TAKE c \in Contents
  <2>1. e.previousHash \in Chain!Hashes
    BY DEF Chain!Entry
  <2>2. Chain!ComputeHash(c, e.previousHash) \in Chain!Hashes
    BY <2>1, HashGrows
  <2>3. QED BY <2>1, <2>2 DEF Chain!Entry, Chain!EntryOn
<1>4. /\ \A c \in Contents : [e EXCEPT !.content = c] \in Chain!Entry
      /\ \A h \in Known : [e EXCEPT !.previousHash = h] \in Chain!Entry
      /\ \A h \in Known : [e EXCEPT !.entryHash = h] \in Chain!Entry
  BY <1>1 DEF Chain!Entry
<1>5. QED BY <1>2, <1>3, <1>4

ChainInv == ChainOK(store, lastHash, written, forked, doubt, damage)

\* an empty storage is an empty chain
LEMMA ChainInit == PartsInit => ChainInv
<1> SUFFICES ASSUME PartsInit PROVE ChainInv
  OBVIOUS
<1>1. /\ store = << >> /\ written = << >> /\ lastHash = [w \in Writers |-> Chain!NoHash]
      /\ forked = FALSE /\ doubt = FALSE /\ damage = 0
  BY DEF PartsInit, Chain!Init
<1>2. WrittenOK(<< >>, FALSE) /\ << >> \in Seq(Chain!Entry)
  <2>1. << >> \in Seq(Chain!Entry) /\ DOMAIN << >> = {}
    BY EmptySeq
  <2>2. QED BY <2>1 DEF WrittenOK
<1>3. Few(<< >>, << >>, 0)
  <2>1. Foreign(<< >>, << >>) = {}
    BY DEF Foreign
  <2>2. QED BY ONLY <2>1, FS_EmptySet DEF Few
<1>4. /\ [w \in Writers |-> Chain!NoHash] \in [Writers -> Chain!Hashes \cup {Chain!NoHash}]
      /\ 0 \in 0 .. MaxDamage
  BY ChainConstants
<1> DEFINE lh == [w \in Writers |-> Chain!NoHash]
<1>5. \A w \in Writers : lh[w] = Chain!NoHash
  OBVIOUS
<1> HIDE DEF lh
<1>6. ChainOK(<< >>, lh, << >>, FALSE, FALSE, 0)
  BY <1>2, <1>3, <1>4, <1>5 DEF ChainOK, lh
<1>7. QED BY <1>1, <1>6 DEF ChainInv, lh

\* no step of any part breaks the invariant of the chain
LEMMA ChainStepKeeps == ChainInv /\ [PartsNext]_allVars => ChainInv'
<1> SUFFICES ASSUME ChainInv, [PartsNext]_allVars PROVE ChainInv'
  OBVIOUS
<1>1. CASE UNCHANGED chainVars
  BY <1>1 DEF ChainInv, chainVars
<1>2. ASSUME NEW w \in Writers, Chain!New(w) PROVE ChainInv'
  <2>1. /\ lastHash' = [lastHash EXCEPT ![w] = HeadOf(store)]
        /\ store' = store /\ written' = written /\ forked' = forked /\ doubt' = doubt
        /\ damage' = damage
    BY <1>2 DEF Chain!New, Chain!GetLastHash, HeadOf
  <2>2. ChainOK(store, [lastHash EXCEPT ![w] = HeadOf(store)], written, forked, doubt, damage)
    BY ChainNew DEF ChainInv
  <2>3. QED BY <2>1, <2>2 DEF ChainInv
<1>3. ASSUME NEW w \in Writers, NEW c \in Contents, Chain!Stored(w, c)
      PROVE  /\ lastHash[w] # Chain!NoHash
             /\ store' = Append(store, Chain!EntryOn(lastHash[w], c))
             /\ written' = Append(written, Chain!EntryOn(lastHash[w], c))
             /\ forked' = (forked \/ lastHash[w] # HeadOf(written)) /\ damage' = damage
  BY <1>3 DEF Chain!Stored, HeadOf, Chain!Genesis
<1>4. ASSUME NEW w \in Writers, NEW c \in Contents, Chain!Record(w, c) PROVE ChainInv'
  <2>1. Chain!Stored(w, c) /\ doubt' = doubt
        /\ lastHash' = [lastHash EXCEPT ![w] = Chain!ComputeHash(c, lastHash[w])]
    BY <1>4 DEF Chain!Record
  <2>2. ChainOK(Append(store, Chain!EntryOn(lastHash[w], c)),
                [lastHash EXCEPT ![w] = Chain!ComputeHash(c, lastHash[w])],
                Append(written, Chain!EntryOn(lastHash[w], c)),
                forked \/ lastHash[w] # HeadOf(written), doubt, damage)
    <3>1. TRUE \in BOOLEAN /\ lastHash[w] # Chain!NoHash
      BY <1>3, <2>1
    <3>2. ChainOK(Append(store, Chain!EntryOn(lastHash[w], c)),
                IF TRUE THEN [lastHash EXCEPT ![w] = Chain!ComputeHash(c, lastHash[w])]
                ELSE lastHash,
                Append(written, Chain!EntryOn(lastHash[w], c)),
                forked \/ lastHash[w] # HeadOf(written), IF TRUE THEN doubt ELSE TRUE, damage)
      BY <3>1, ChainRecord DEF ChainInv
    <3>3. QED BY <3>2
  <2>3. QED BY <1>3, <2>1, <2>2 DEF ChainInv
<1>5. ASSUME NEW w \in Writers, NEW c \in Contents, Chain!RecordInDoubt(w, c) PROVE ChainInv'
  <2>1. Chain!Stored(w, c) /\ doubt' = TRUE /\ lastHash' = lastHash
    BY <1>5 DEF Chain!RecordInDoubt
  <2>2. ChainOK(Append(store, Chain!EntryOn(lastHash[w], c)), lastHash,
                Append(written, Chain!EntryOn(lastHash[w], c)),
                forked \/ lastHash[w] # HeadOf(written), TRUE, damage)
    <3>1. FALSE \in BOOLEAN /\ lastHash[w] # Chain!NoHash
      BY <1>3, <2>1
    <3>2. ChainOK(Append(store, Chain!EntryOn(lastHash[w], c)),
                IF FALSE THEN [lastHash EXCEPT ![w] = Chain!ComputeHash(c, lastHash[w])]
                ELSE lastHash,
                Append(written, Chain!EntryOn(lastHash[w], c)),
                forked \/ lastHash[w] # HeadOf(written), IF FALSE THEN doubt ELSE TRUE, damage)
      BY <3>1, ChainRecord DEF ChainInv
    <3>3. QED BY <3>2
  <2>3. QED BY <1>3, <2>1, <2>2 DEF ChainInv
<1>6. ASSUME NEW i \in DOMAIN store, Chain!Damage(i) PROVE ChainInv'
  <2>1. /\ damage < MaxDamage /\ damage' = damage + 1
        /\ \/ store' = Chain!RemoveAt(store, i)
           \/ \E e \in Chain!Altered(store[i]) : store' = [store EXCEPT ![i] = e]
        /\ lastHash' = lastHash /\ written' = written /\ forked' = forked /\ doubt' = doubt
    BY <1>6 DEF Chain!Damage
  <2>2. ChainOK(store', lastHash, written, forked, doubt, damage + 1)
    <3>1. store[i] \in Chain!Entry /\ written \in Seq(Chain!Entry)
      BY ElementOfSeq, LenProperties DEF ChainInv, ChainOK, WrittenOK
    <3>2. Chain!Altered(store[i]) \subseteq Chain!Entry
      BY <3>1, AlteredIsEntry
    <3>3. \/ store' = Chain!RemoveAt(store, i)
          \/ \E e \in Chain!Entry : store' = [store EXCEPT ![i] = e]
      BY <2>1, <3>2
    <3>4. QED BY <2>1, <3>3, ChainDamage DEF ChainInv
  <2>3. QED BY <2>1, <2>2 DEF ChainInv
<1>7. CASE UNCHANGED allVars
  BY <1>1, <1>7 DEF allVars
<1>8. CASE PartsNext
  <2>1. CASE ChainStep(Chain!Next)
    <3>1. Chain!Next
      BY <2>1 DEF ChainStep
    <3>2. QED BY <1>2, <1>4, <1>5, <1>6, <3>1 DEF Chain!Next
  <2>2. CASE UNCHANGED chainVars
    BY <1>1, <2>2
  <2>3. QED
    BY <1>8, <2>1, <2>2 DEF PartsNext, ProcessStep, PipelineStep, AccessStep
<1>9. QED BY <1>7, <1>8

\* the invariant says what a verification vouches for, and the types
LEMMA ChainInvSuffices == ChainInv => VerificationVouches /\ Chain!TypeOK
<1> SUFFICES ASSUME ChainInv PROVE VerificationVouches /\ Chain!TypeOK
  OBVIOUS
<1>1. /\ WrittenOK(written, forked) /\ store \in Seq(Chain!Entry)
      /\ Few(store, written, damage)
      /\ lastHash \in [Writers -> Chain!Hashes \cup {Chain!NoHash}]
      /\ doubt \in BOOLEAN /\ damage \in 0 .. MaxDamage
      /\ damage = 0 => store = written
      /\ doubt = FALSE /\ damage = 0 /\ ~ TwoAtWork(lastHash) => forked = FALSE
  BY DEF ChainInv, ChainOK
<1>2. /\ written \in Seq(Chain!Entry) /\ forked \in BOOLEAN
      /\ \A i \in DOMAIN written : Chain!Verify(written[i])
      /\ forked = FALSE <=> \A i \in DOMAIN written : Linked(written, i)
  BY <1>1 DEF WrittenOK
<1>3. ASSUME forked = FALSE, Chain!VerifyIntegrity(store)
      PROVE  \E n \in 0 .. Len(store) :
               Len(store) - n <= damage /\ Chain!IsPrefix(SubSeq(store, 1, n), written)
  <2>1. WrittenOK(written, FALSE)
    BY <1>1, <1>3
  <2>2. PICK k \in 0 .. Len(store) :
          /\ k + 1 .. Len(store) \subseteq Foreign(store, written)
          /\ Chain!IsPrefix(SubSeq(store, 1, k), written)
    BY <1>1, <1>3, <2>1, VerifiedIsPrefix
  <2> DEFINE I == k + 1 .. Len(store)
             F == Foreign(store, written)
  <2>3. Len(store) \in Nat /\ k \in Nat /\ k <= Len(store) /\ damage \in Nat
    BY <1>1, LenProperties, ChainConstants
  <2>4. IsFiniteSet(I) /\ Cardinality(I) = Len(store) - k
    <3>1. /\ IsFiniteSet(I)
          /\ Cardinality(I) = IF k + 1 > Len(store) THEN 0 ELSE Len(store) - (k + 1) + 1
      <4>1. k + 1 \in Int /\ Len(store) \in Int
        BY <2>3
      <4>2. QED BY <4>1, FS_Interval
    <3>2. QED BY <2>3, <3>1
  <2>5. IsFiniteSet(F) /\ Cardinality(F) <= damage /\ I \in SUBSET F
    BY <1>1, <2>2 DEF Few
  <2> HIDE DEF I, F
  <2>6. Cardinality(I) <= Cardinality(F) /\ Cardinality(F) \in Nat
    BY <2>5, FS_Subset, FS_CardinalityType
  <2>7. Len(store) - k <= damage
    BY <2>3, <2>4, <2>5, <2>6
  <2>8. QED BY <2>2, <2>7
<1>6. damage = 0 => (Chain!VerifyIntegrity(store) <=> forked = FALSE)
  <2>1. Chain!VerifyIntegrity(written) <=> forked = FALSE
    BY <1>2 DEF Chain!VerifyIntegrity, Linked
  <2>2. QED BY <1>1, <2>1
<1>7. forked = FALSE \/ doubt = TRUE \/ damage > 0 \/ TwoAtWork(lastHash)
  <2>1. damage = 0 \/ damage > 0
    BY <1>1, ChainConstants
  <2>2. QED BY <1>1, <2>1
<1>8. VerificationVouches
  <2>1. /\ (~ forked /\ Chain!VerifyIntegrity(store)) =>
             \E n \in 0 .. Len(store) :
               Len(store) - n <= damage /\ Chain!IsPrefix(SubSeq(store, 1, n), written)
        /\ damage = 0 => (Chain!VerifyIntegrity(store) <=> ~ forked)
        /\ forked => doubt \/ damage > 0 \/ TwoAtWork(lastHash)
    BY ONLY <1>1, <1>2, <1>3, <1>6, <1>7, Zenon
  <2>2. QED BY <2>1, Zenon DEF VerificationVouches, Chain!VerificationVouches, TwoAtWork
<1>10. Chain!TypeOK
  BY <1>1, <1>2 DEF Chain!TypeOK, Chain!Verify, Chain!ComputeHash
<1>11. QED BY <1>8, <1>10

\* Whatever the storage loses, alters or rewrites, and whatever its calls answer:
\* while the hash chain has not forked, a storage that verify_integrity accepts is
\* what was recorded up to some row, and every row after that is one that was
\* altered; an undamaged storage is rejected exactly if the chain has forked; and
\* it forks only after an error in doubt, a damage or with a second writer at work.
THEOREM VerifiedRowsWereRecorded == PartsSpec => []VerificationVouches
<1>1. PartsInit => ChainInv
  BY ChainInit
<1>2. ChainInv /\ [PartsNext]_allVars => ChainInv'
  BY ChainStepKeeps
<1>3. ChainInv => VerificationVouches
  BY ChainInvSuffices
<1>4. QED BY <1>1, <1>2, <1>3, PTL DEF PartsSpec

-----------------------------------------------------------------------------
(* The types of all parts, from their invariants.                          *)

AccessTyped ==
  /\ AccessInv /\ reported \subseteq Pairs
  /\ last \in {"decided", "set"} \X Pairs \X BOOLEAN \cup {<< >>}

\* the history of the access control has its type
LEMMA AccessTypes ==
  /\ PartsInit => AccessTyped
  /\ AccessTyped /\ [PartsNext]_allVars => AccessTyped'
  /\ AccessTyped => Access!TypeOK
<1>1. PartsInit => AccessTyped
  BY AccessInit DEF PartsInit, Access!Init, AccessTyped
<1>2. ASSUME AccessTyped, [PartsNext]_allVars PROVE AccessTyped'
  <2>1. CASE Access!Next
    <3>1. AccessInv'
      BY <1>2, <2>1, AccessStepRefines DEF AccessTyped
    <3>2. ASSUME NEW p \in Pairs, Access!Validate(p)
          PROVE  reported' \subseteq Pairs /\ last' \in {"decided"} \X Pairs \X BOOLEAN
      <4>1. Access!IsAllowed(matrix, p) \in BOOLEAN
        BY DEF Access!IsAllowed
      <4>2. QED BY <1>2, <3>2, <4>1 DEF AccessTyped, Access!Validate, Access!ValidateMessage
    <3>3. ASSUME NEW p \in Pairs, NEW b \in BOOLEAN, Access!Writes(p, b)
          PROVE  reported' \subseteq Pairs /\ last' \in {"set"} \X Pairs \X BOOLEAN
      BY <1>2, <3>3 DEF AccessTyped, Access!Writes
    <3>4. \/ \E p \in Pairs : Access!Validate(p)
          \/ \E p \in Pairs, b \in BOOLEAN : Access!Writes(p, b)
          \/ UNCHANGED <<reported, last>>
      BY <2>1
      DEF Access!Next, Access!Delete, Access!Add, Access!Update, Access!Save, Access!Load,
          Access!UpdateMatrix
    <3>5. QED BY <1>2, <3>1, <3>2, <3>3, <3>4 DEF AccessTyped
  <2>2. CASE UNCHANGED accessVars
    BY <1>2, <2>2 DEF accessVars, AccessInv, AccessTyped
  <2>3. QED
    BY <1>2, <2>1, <2>2
    DEF PartsNext, allVars, ProcessStep, PipelineStep, ChainStep, AccessStep
<1>3. ASSUME AccessTyped PROVE Access!TypeOK
  <2>1. ASSUME NEW r \in Reloads
        PROVE  inFlight[r] \in Seq(Seq(Access!Rule)) /\ Len(inFlight[r]) <= 1
    <3>1. CASE inFlight[r] = << >>
      BY <3>1, EmptySeq
    <3>2. CASE \E m \in Seq(Access!Rule) : inFlight[r] = <<m>>
      BY <3>2
    <3>3. QED BY <1>3, <3>1, <3>2 DEF AccessTyped, AccessInv
  <2>2. QED BY <1>3, <2>1 DEF AccessTyped, AccessInv, Access!TypeOK
<1>4. QED BY <1>1, <1>2, <1>3

\* the process is one of the parts
LEMMA PartsRunProcess == PartsSpec => Spec
<1>1. PartsInit => Init
  BY DEF PartsInit
<1>2. [PartsNext]_allVars => [Next]_vars
  BY DEF PartsNext, allVars, ProcessStep, PipelineStep, ChainStep, AccessStep
<1>3. QED BY <1>1, <1>2, PTL DEF PartsSpec, Spec

\* Every variable of every part of Vallum has its type in every reachable state.
THEOREM VallumIsTyped == PartsSpec => []TypesOK
<1>1. Spec => []TypeOK
  BY ProcessSound, VallumConstants, PTL
<1>2. PipelineInv => Pipeline!TypeOK
  BY PipelineInvSuffices
<1>3. ChainInv => Chain!TypeOK
  BY ChainInvSuffices
<1>4. TypesOK <=> TypeOK /\ Pipeline!TypeOK /\ Chain!TypeOK /\ Access!TypeOK
  BY DEF TypesOK
<1>5. PartsSpec => PartsInit /\ [][PartsNext]_allVars
  BY PTL DEF PartsSpec
<1>6. PartsInit /\ [][PartsNext]_allVars => [](PipelineInv /\ ChainInv /\ AccessTyped)
  BY PipelineInit, PipelineInvStep, ChainInit, ChainStepKeeps, AccessTypes, PTL
<1>7. QED
  BY <1>1, <1>2, <1>3, <1>4, <1>5, <1>6, PartsRunProcess, AccessTypes, PTL
=============================================================================
