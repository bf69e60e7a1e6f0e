------------------------------- MODULE Codec -------------------------------
(***************************************************************************)
(* The path of a message through lib/coap.js and lib/messages.js: what     *)
(* send() builds is encoded, what arrives is decoded and classified.       *)
(***************************************************************************)
EXTENDS Messages

CONSTANTS
  Types,     \* opts.type of send(), or Null
  Ids,       \* message ids given to send(); it keeps their low 16 bits
  Tokens,    \* tokens, byte sequences
  Options,   \* option lists given to send()
  Payloads,  \* payloads, byte sequences
  Noise      \* buffers that are no one's encoding

ASSUME CodecAssumption ==
  /\ Types \subseteq 0..3 \cup {Null} /\ Ids \subseteq Nat /\ Null \notin Octet
  /\ Tokens \subseteq Seq(Octet) /\ Payloads \subseteq Seq(Octet) /\ Noise \subseteq Seq(Octet)
  /\ Options \subseteq Seq(Option)

VARIABLES
  name,     \* the message that was sent, or Null
  msg,      \* what send() built, or Null
  buffer,   \* the bytes, or Null
  decoded,  \* what decode returned, or Null
  class     \* what classify called it

codecVars == <<name, msg, buffer, decoded, class>>

\* Nothing is sent yet, or bytes arrive from elsewhere.
CodecInit ==
  /\ name = Null /\ msg = Null /\ decoded = Null /\ class = Null
  /\ buffer \in Noise \cup {Null}

\* send() builds a message and encodes it; with a name that is not in the table it
\* throws before it has done anything.
SendNamed(n, type, id, token, options, payload) ==
  LET m == Build(n, type, id, token, options, payload) IN
  /\ buffer = Null /\ name = Null
  /\ name' = n /\ msg' = m
  /\ buffer' = IF encode(m).ok THEN encode(m).bytes ELSE Null
  /\ UNCHANGED <<decoded, class>>

\* A frame's plaintext is decoded and, unless that throws, classified.
Arrive ==
  /\ buffer # Null /\ decoded = Null
  /\ decoded' = decode(buffer)
  /\ class' = IF decoded'.ok THEN classify(decoded'.msg) ELSE Null
  /\ UNCHANGED <<name, msg, buffer>>

CodecNext ==
  \/ \E n \in Names, type \in Types, id \in Ids, t \in Tokens, os \in Options, p \in Payloads :
       SendNamed(n, type, id, t, os, p)
  \/ Arrive

CodecSpec == CodecInit /\ [][CodecNext]_codecVars

-----------------------------------------------------------------------------
Arrived == decoded # Null
Ascending(options) == \A i \in 1..(Len(options) - 1) : options[i].number <= options[i + 1].number

\* got has the options that were given, those of one number in the same order.
Rearranged(got, given) ==
  LET n == Len(given) IN
  /\ Len(got) = n
  /\ \E p \in Bijection(1..n, 1..n) :
       /\ \A i \in 1..n : got[i] = given[p[i]]
       /\ \A i, j \in 1..n : i < j /\ got[i].number = got[j].number => p[i] < p[j]

\* A message that was sent arrives with its header, token and payload, and with
\* its options in ascending order, those of one number in the order they were
\* given: at every boundary of the nibble forms, with any token length.  Every
\* message of the table that has a uri, and the Ping unless it was given another type,
\* is recognised, whatever options the caller added.
RoundTrip ==
  Arrived /\ name # Null =>
    /\ decoded.ok /\ ~decoded.ranOff
    /\ LET got == decoded.msg IN
       /\ got.type = msg.type /\ got.code = msg.code
       /\ got.messageId = msg.messageId % 65536
       /\ got.token = msg.token /\ got.payload = msg.payload
       /\ Ascending(got.options) /\ Rearranged(got.options, msg.options)
    /\ class = IF name = "GetTimeReturn" \/ (name = "Ping" /\ msg.type # CON)
               THEN Null ELSE name

\* The message that was accepted is the bytes that came: encoding it again gives them
\* back, but for a payload marker with nothing after it.
Reencodes ==
  LET again == encode(decoded.msg).bytes IN buffer \in {again, again \o <<Marker>>}

\* "@throws {Error} on malformed input" (decode(), coap.js:124): whatever bytes arrive,
\* what decode accepts is the encoding of the message it returns.
MalformedThrows == Arrived /\ decoded.ok => Reencodes

\* The same for every buffer that decode reads to its end: the position has not become
\* NaN, as it does where the byte that extends a length is missing.
DecodeExact == Arrived /\ decoded.ok /\ ~decoded.ranOff => Reencodes
=============================================================================
