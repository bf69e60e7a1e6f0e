-------------------------------- MODULE Coap --------------------------------
(***************************************************************************)
(* The CoAP codec of lib/coap.js, byte by byte.  A buffer is a sequence of *)
(* bytes; positions count from 0 as in the code.  A byte read past the end *)
(* is `undefined' and makes a NaN of every sum it enters; no comparison    *)
(* with NaN holds.                                                         *)
(***************************************************************************)
EXTENDS Integers, Sequences, FiniteSetsExt, SequencesExt

CON == 0
NON == 1
ACK == 2
UriPath == 11
Marker == 255

NaN == -1
Plus(a, b) == IF NaN \in {a, b} THEN NaN ELSE a + b
At(buf, pos) == IF pos < Len(buf) THEN buf[pos + 1] ELSE NaN
UInt16(n) == <<(n \div 256) % 256, n % 256>>
readUInt16BE(buf, pos) == At(buf, pos) * 256 + At(buf, pos + 1)

\* What encode and decode throw.
Throws == [ok |-> FALSE]

Octet == 0..255
Option == [number : Nat, value : Seq(Octet)]

-----------------------------------------------------------------------------
\* The option at i comes before the one at j: by number, then as it was given.
Before(options, i, j) ==
  \/ options[i].number < options[j].number
  \/ options[i].number = options[j].number /\ i < j

\* options.slice().sort(), which is stable.
Sorted(options) ==
  LET n == Len(options)
      order == CHOOSE p \in [1..n -> 1..n] :
                 \A i, j \in 1..n : i < j => Before(options, p[i], p[j])
  IN  [i \in 1..n |-> options[order[i]]]

\* Plausible bug: the one-byte form is used one value too long.
nibbleLate(v) == IF v < 13 THEN v ELSE IF v <= 269 THEN 13 ELSE 14

\* The nibble of a delta or a length, and the bytes that extend it.
nibble(v) == IF v < 13 THEN v ELSE IF v < 269 THEN 13 ELSE 14

Extension(v) ==
  CASE nibble(v) = 13 -> <<(v - 13) % 256>>
    [] nibble(v) = 14 -> UInt16(v - 269)
    [] OTHER -> <<>>

\* encodeOptionHeader and the value.
EncodeOption(delta, value) ==
  <<nibble(delta) * 16 + nibble(Len(value))>>
    \o Extension(delta) \o Extension(Len(value)) \o value

\* The loop of encode over sorted options, from the number prev on.
EncodeOptions[options \in Seq(Option)] == [prev \in Nat |->
  IF options = <<>> THEN <<>>
  ELSE LET opt == options[1] IN
       EncodeOption(opt.number - prev, opt.value) \o EncodeOptions[Tail(options)][opt.number]]

\* writeUInt16BE throws on what two bytes cannot extend.
TooLong(v) == v - 269 > 65535

\* encode.
encode(msg) ==
  LET options == Sorted(msg.options)
      delta(i) == options[i].number - (IF i = 1 THEN 0 ELSE options[i - 1].number)
  IN
  IF \/ Len(msg.token) > 8
     \/ \E i \in 1..Len(options) : TooLong(delta(i)) \/ TooLong(Len(options[i].value))
  THEN Throws
  ELSE [ok |-> TRUE,
        bytes |-> <<64 + (msg.type % 4) * 16 + Len(msg.token), msg.code % 256>>
                  \o UInt16(msg.messageId % 65536) \o msg.token
                  \o EncodeOptions[options][0]
                  \o (IF msg.payload = <<>> THEN <<>> ELSE <<Marker>> \o msg.payload)]

-----------------------------------------------------------------------------
\* A nibble with its extension at pos: the value, the position after it, and
\* whether readUInt16BE had its two bytes.
Extended(nib, buf, pos) ==
  CASE nib = 13 -> [v |-> Plus(13, At(buf, pos)), pos |-> pos + 1, ok |-> TRUE]
    [] nib = 14 -> LET ok == pos + 2 <= Len(buf) IN
                   [v |-> IF ok THEN 269 + readUInt16BE(buf, pos) ELSE NaN,
                    pos |-> pos + 2, ok |-> ok]
    [] OTHER -> [v |-> nib, pos |-> pos, ok |-> TRUE]

\* Plausible bug: a value that runs past the end is cut off instead.
TruncatedNever(buf, pos, len) == FALSE

\* pos + len > buf.length
Truncated(buf, pos, len) == len # NaN /\ pos + len > Len(buf)

\* subarray(pos, pos + len): empty when the end is NaN, cut at the end of buf.
Slice(buf, pos, len) ==
  IF len = NaN THEN <<>> ELSE SubSeq(buf, pos + 1, Min({pos + len, Len(buf)}))

\* The position is NaN, which ends the loop of decode and leaves no payload.  The
\* field `ranOff' is not in the code: it says that this happened.
RanOff == [ok |-> TRUE, options |-> <<>>, payload |-> <<>>, ranOff |-> TRUE]

\* The loop of decode over the bytes s from a position on, prev being the last
\* option's number, and the payload; positions count from that one.
DecodeOptions[s \in Seq(Octet)] == [prev \in Int |->
  IF s = <<>> \/ s[1] = Marker
  THEN [ok |-> TRUE, options |-> <<>>, payload |-> SubSeq(s, 2, Len(s)), ranOff |-> FALSE]
  ELSE
    LET dN == s[1] \div 16
        lN == s[1] % 16
        d == Extended(dN, s, 1)
        l == Extended(lN, s, d.pos)
        number == Plus(prev, d.v)
        next == Plus(l.pos, l.v)
        rest == IF next = NaN THEN RanOff
                ELSE DecodeOptions[SubSeq(s, next + 1, Len(s))][number]
    IN
    IF 15 \in {dN, lN} \/ ~d.ok \/ ~l.ok \/ Truncated(s, l.pos, l.v) \/ ~rest.ok THEN Throws
    ELSE [ok |-> TRUE,
          options |-> <<[number |-> number, value |-> Slice(s, l.pos, l.v)]>> \o rest.options,
          payload |-> rest.payload, ranOff |-> rest.ranOff]]

\* decode.
decode(buf) ==
  LET tkl == buf[1] % 16
      parsed == DecodeOptions[SubSeq(buf, 5 + tkl, Len(buf))][0]
  IN
  IF \/ Len(buf) < 4 \/ buf[1] \div 64 # 1 \/ tkl > 8 \/ Len(buf) < 4 + tkl
     \/ ~parsed.ok
  THEN Throws
  ELSE [ok |-> TRUE,
        ranOff |-> parsed.ranOff,
        msg |-> [type |-> (buf[1] \div 16) % 4, code |-> buf[2],
                 messageId |-> readUInt16BE(buf, 2),
                 token |-> SubSeq(buf, 5, 4 + tkl),
                 options |-> parsed.options, payload |-> parsed.payload]]
=============================================================================
