----------------------------- MODULE AuditChain -----------------------------
(***************************************************************************)
(* The CHAIN agent's hash chain (calango-vallum/src/chain.rs) over an      *)
(* AuditStorage whose calls may fail, and may fail after they were applied *)
(* (a table behind a network), and may lose rows, alter a field of a row,  *)
(* or rewrite a row with the hash it should have: the hash has no key.     *)
(*                                                                         *)
(* SHA-256 is taken to be injective: the hash of an entry is the sequence  *)
(* of the contents hashed into it, its own last, and JunkHash is one that  *)
(* no row hashes to.  Timestamp, actor, action and payload are a content.  *)
(***************************************************************************)
EXTENDS Naturals, Sequences, SequencesExt, Functions

CONSTANTS
  Writers,      \* ChainAgents over the one storage
  Contents,
  MaxRecords,   \* bound: entries ever stored
  MaxDamage     \* bound: rows lost or altered

ChainAssumption ==
  MaxRecords \in Nat /\ MaxDamage \in Nat /\ {"none", "junk"} \cap Contents = {}

VARIABLES
  store,        \* Seq(Entry), what get_entries returns
  lastHash,     \* [Writers -> Hash], last_hash; NoHash before ChainAgent::new
  \* history, never read by the code
  written,      \* Seq(Entry), every entry ever stored, in order
  forked,       \* BOOLEAN, was an entry stored behind another of its parent?
  doubt,        \* BOOLEAN, did a persist report an error it was wrong about?
  damage        \* Nat, rows lost or altered

vars == <<store, lastHash, written, forked, doubt, damage>>

NoHash == <<"none">>    \* of no content
Genesis == << >>
JunkHash == <<"junk">>

\* compute_hash
ComputeHash(content, previous) == Append(previous, content)

Hashes == Seq(Contents \cup {"junk"})
Entry == [content: Contents, previousHash: Hashes, entryHash: Hashes]

EntryOn(previous, c) ==
  [content |-> c, previousHash |-> previous,
   entryHash |-> ComputeHash(c, previous)]

\* AuditEntry::verify
Verify(entry) == entry.entryHash = ComputeHash(entry.content, entry.previousHash)

GetLastHash == IF store = << >> THEN Genesis ELSE Last(store).entryHash

\* verify_integrity: links and hashes of what the storage holds
VerifyIntegrity(entries) ==
  \A i \in DOMAIN entries :
    /\ entries[i].previousHash =
         IF i = 1 THEN Genesis ELSE entries[i - 1].entryHash
    /\ Verify(entries[i])

Init ==
  /\ store = << >>
  /\ lastHash = [w \in Writers |-> NoHash]
  /\ written = << >>
  /\ forked = FALSE /\ doubt = FALSE /\ damage = 0

-----------------------------------------------------------------------------
\* ChainAgent::new, at the start of a process and again after a restart
New(w) ==
  /\ lastHash' = [lastHash EXCEPT ![w] = GetLastHash]
  /\ UNCHANGED <<store, written, forked, doubt, damage>>

Stored(w, c) ==
  /\ lastHash[w] # NoHash
  /\ Len(written) < MaxRecords
  /\ store' = Append(store, EntryOn(lastHash[w], c))
  /\ written' = Append(written, EntryOn(lastHash[w], c))
  /\ forked' = (forked \/
       lastHash[w] # IF written = << >> THEN Genesis ELSE Last(written).entryHash)
  /\ UNCHANGED damage

\* mutant: the head is not moved
RecordKeepsHead(w, c) == Stored(w, c) /\ UNCHANGED <<lastHash, doubt>>

\* record, persist answers Ok
Record(w, c) ==
  /\ Stored(w, c)
  /\ lastHash' = [lastHash EXCEPT ![w] = ComputeHash(c, @)]
  /\ UNCHANGED doubt

\* record, persist answers an error though the row is there: `?` returns
\* before last_hash is moved (an error without the row changes nothing)
RecordInDoubt(w, c) ==
  /\ Stored(w, c)
  /\ doubt' = TRUE
  /\ UNCHANGED lastHash

\* a row with one field another, or its content another and hashed anew
Altered(e) ==
  LET Known == {Genesis, JunkHash} \cup {r.entryHash : r \in Range(written)}
  IN {[e EXCEPT !.content = c] : c \in Contents}
       \cup {[e EXCEPT !.previousHash = h] : h \in Known}
       \cup {[e EXCEPT !.entryHash = h] : h \in Known}
       \cup {EntryOn(e.previousHash, c) : c \in Contents}

\* the storage loses a row or alters it
Damage(i) ==
  /\ damage < MaxDamage
  /\ damage' = damage + 1
  /\ \/ store' = RemoveAt(store, i)
     \/ \E e \in Altered(store[i]) \ {store[i]} : store' = [store EXCEPT ![i] = e]
  /\ UNCHANGED <<lastHash, written, forked, doubt>>

Next ==
  \/ \E w \in Writers :
       \/ New(w)
       \/ \E c \in Contents : Record(w, c) \/ RecordInDoubt(w, c)
  \/ \E i \in DOMAIN store : Damage(i)

Spec == Init /\ [][Next]_vars

-----------------------------------------------------------------------------
(* Every variable has its type; an entry that was ever stored hashes its   *)
(* own content.                                                            *)
TypeOK ==
  /\ store \in Seq(Entry)
  /\ lastHash \in [Writers -> Hashes \cup {NoHash}]
  /\ written \in Seq(Entry)
  /\ \A i \in DOMAIN written :
       written[i].entryHash = Append(written[i].previousHash, written[i].content)
  /\ forked \in BOOLEAN /\ doubt \in BOOLEAN
  /\ damage \in 0..MaxDamage

(* What a verification vouches for.  While the chain has not forked, a     *)
(* storage it accepts holds the rows that were recorded, from the first on *)
(* and none left out, but for rows at its end that were altered each: no   *)
(* damage in the middle passes unless all that follows was rewritten too.  *)
(* An undamaged storage is rejected exactly if the chain has forked, and   *)
(* it forks only after an error in doubt, a damage or with a second writer *)
(* at work.                                                                *)
VerificationVouches ==
  /\ (~forked /\ VerifyIntegrity(store)) =>
       \E n \in 0 .. Len(store) :
         Len(store) - n <= damage /\ IsPrefix(SubSeq(store, 1, n), written)
  /\ damage = 0 => (VerifyIntegrity(store) <=> ~forked)
  /\ forked => \/ doubt
               \/ damage > 0
               \/ \E v, w \in Writers : v # w /\ NoHash \notin {lastHash[v], lastHash[w]}

(* README.md: "qualquer adulteração é detectável" (any tampering can be    *)
(* detected): a storage that holds anything but what was recorded is not   *)
(* accepted.                                                               *)
TamperingIsFound == store # written => ~VerifyIntegrity(store)
=============================================================================
