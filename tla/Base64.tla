------------------------------- MODULE Base64 -------------------------------
(***************************************************************************)
(* The encoding of payloads in IronClaw's bus client, written by hand      *)
(* (ironclaw/src/message_bus.rs, base64_encode and base64_decode).  A      *)
(* character of the alphabet is its value; what is in no alphabet is one   *)
(* character, Other.  The state is the payload field of one entry of a     *)
(* stream, written by the bus client or by a writer that puts any text     *)
(* there, as PicoClaw and Vallum do, and then read by the bus client.      *)
(***************************************************************************)
EXTENDS Naturals, Sequences, SequencesExt, Vectors

CONSTANTS
  Payloads,   \* SUBSET Seq(0 .. 255)
  Texts,      \* SUBSET Seq(Chars)
  NoPayload   \* not one the bus client wrote, or not yet parsed

Pad == 64     \* '='
Other == 65
Chars == 0 .. Other

CodecAssumption ==
  /\ Payloads \subseteq Seq(0 .. 255) /\ Texts \subseteq Seq(Chars)
  /\ NoPayload \notin Payloads

VARIABLES
  payload,
  field,
  parsed     \* << >> for None, <<bytes>> for Some(bytes)

vars == <<payload, field, parsed>>

-----------------------------------------------------------------------------
Chunks(s, n) ==
  [k \in 1 .. (Len(s) + n - 1) \div n |->
     SubSeq(s, n * (k - 1) + 1, IF n * k <= Len(s) THEN n * k ELSE Len(s))]

At(s, i) == IF i \in DOMAIN s THEN s[i] ELSE 0

\* three bytes are four characters, one or two are filled up with '='
EncodeChunk(c) ==
  LET triple == At(c, 1) * 2^16 + At(c, 2) * 2^8 + At(c, 3)
  IN [i \in 1 .. 4 |->
        IF i <= Len(c) + 1 THEN (triple \div 2^(24 - 6 * i)) % 64 ELSE Pad]

base64_encode(data) ==
  LET chunks == Chunks(data, 3)
  IN FlattenSeq([k \in DOMAIN chunks |-> EncodeChunk(chunks[k])])

Values(c) == Retain(c, {i \in DOMAIN c : c[i] # Other})

\* mutant: a short chunk also gives three bytes
DecodeChunkWhole(c) ==
  LET vals == Values(c)
      triple == At(vals, 1) * 2^18 + At(vals, 2) * 2^12 + At(vals, 3) * 2^6 + At(vals, 4)
  IN [i \in 1 .. 3 |-> (triple \div 2^(24 - 8 * i)) % 256]

\* other characters are dropped within their chunk; n values are n - 1 bytes
DecodeChunk(c) ==
  LET vals == Values(c)
      triple == At(vals, 1) * 2^18 + At(vals, 2) * 2^12 + At(vals, 3) * 2^6 + At(vals, 4)
  IN [i \in 1 .. Len(vals) - 1 |-> (triple \div 2^(24 - 8 * i)) % 256]

WithoutPads(text) == Retain(text, {i \in DOMAIN text : text[i] # Pad})

\* every '=' is dropped
base64_decode(text) ==
  LET chunks == Chunks(WithoutPads(text), 4)
  IN IF \E k \in DOMAIN chunks : Len(Values(chunks[k])) < 2 THEN << >>
     ELSE <<FlattenSeq([k \in DOMAIN chunks |-> DecodeChunk(chunks[k])])>>

-----------------------------------------------------------------------------
Init == payload = NoPayload /\ field = << >> /\ parsed = NoPayload

Unwritten == Init

\* publish_to_stream
PublishToStream(data) ==
  /\ Unwritten
  /\ payload' = data /\ field' = base64_encode(data)
  /\ UNCHANGED parsed

OtherWriter(text) == Unwritten /\ field' = text /\ UNCHANGED <<payload, parsed>>

\* parse_stream_entry, on each delivery of the entry
ParseStreamEntry ==
  parsed' = base64_decode(field) /\ UNCHANGED <<payload, field>>

Next ==
  \/ ParseStreamEntry
  \/ \E data \in Payloads : PublishToStream(data)
  \/ \E text \in Texts : OtherWriter(text)

Spec == Init /\ [][Next]_vars

-----------------------------------------------------------------------------
(* Every variable has its type.                                            *)
TypeOK ==
  /\ payload \in Payloads \cup {NoPayload} /\ field \in Seq(Chars)
  /\ parsed # NoPayload => parsed = << >> \/ parsed[1] \in Seq(0 .. 255)

\* bit i of a row of bytes, or of characters, counted from the left
Bit(s, width, i) ==
  (s[1 + ((i - 1) \div width)] \div 2^((width - 1) - ((i - 1) % width))) % 2

Stripped == WithoutPads(field)

(* The characters of a published field are the payload's bits in order,    *)
(* filled up with zeros and at the end with '=' to a multiple of four, and *)
(* what parse_stream_entry decodes is the payload.  Of any other text over *)
(* the alphabet nothing but bits that make no byte is lost: a decoded text *)
(* encodes to itself, and only a group of one character is refused.        *)
CodecIsExact ==
  parsed # NoPayload =>
  /\ payload # NoPayload =>
       /\ parsed = <<payload>>
       /\ Len(field) % 4 = 0 /\ Len(field) - Len(Stripped) <= 2
       /\ SubSeq(field, 1, Len(Stripped)) = Stripped
       /\ \A i \in 1 .. 6 * Len(Stripped) :
            Bit(Stripped, 6, i) = IF i <= 8 * Len(payload) THEN Bit(payload, 8, i) ELSE 0
  /\ (payload = NoPayload /\ \A i \in DOMAIN field : field[i] # Other) =>
       IF Len(Stripped) % 4 = 1 THEN parsed = << >>
       ELSE LET bytes == parsed[1]
                back == base64_encode(bytes)
            IN /\ Len(bytes) = (6 * Len(Stripped)) \div 8
               /\ \A i \in 1 .. 8 * Len(bytes) : Bit(back, 6, i) = Bit(Stripped, 6, i)
=============================================================================
