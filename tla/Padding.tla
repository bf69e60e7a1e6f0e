------------------------------ MODULE Padding ------------------------------
(***************************************************************************)
(* The padding of AES frames in lib/crypto.js.  Both ends pad to whole     *)
(* blocks and strip by the last byte; they disagree on a message that      *)
(* fills its blocks: aesEncrypt adds a block of padding (PKCS#7), the      *)
(* firmware (external, as the comment on aesDecrypt describes it) none.    *)
(***************************************************************************)
EXTENDS Integers, Sequences

CONSTANTS
  Block,   \* bytes in a cipher block (16)
  Plains   \* plaintexts, byte sequences

ASSUME PaddingAssumption == Block \in Nat \ {0} /\ Plains \subseteq Seq(Nat)

VARIABLES
  plain,   \* the message
  from,    \* its sender: "gateway" or "device"
  padded,  \* what the block cipher carries, one-tuple, or <<>>
  got      \* what the receiver strips it to, one-tuple, or <<>>

paddingVars == <<plain, from, padded, got>>

PadBytes(p) == LET k == Block - (Len(p) % Block) IN [i \in 1..k |-> k]
Fills(p) == Len(p) % Block = 0

\* aesEncrypt: PKCS#7.
PkcsPad(p) == p \o PadBytes(p)

\* The firmware's wrap and receive (external).
FirmwarePad(p) == IF Fills(p) THEN p ELSE p \o PadBytes(p)
FirmwareStrip(raw) ==
  LET pad == raw[Len(raw)] IN IF pad > Len(raw) THEN <<>> ELSE SubSeq(raw, 1, Len(raw) - pad)

\* Plausible bug: the last byte is taken for a pad count whatever it is.
IsPadAlways(pad) == TRUE

\* pad >= 1 && pad <= 16
IsPad(pad) == pad \in 1..Block

\* aesDecrypt, after the cipher.
Strip(raw) ==
  IF raw # <<>> /\ IsPad(raw[Len(raw)]) THEN SubSeq(raw, 1, Len(raw) - raw[Len(raw)]) ELSE raw

PaddingInit ==
  /\ plain \in Plains /\ from \in {"gateway", "device"}
  /\ padded = <<>> /\ got = <<>>

\* The sender encrypts.
Wrap ==
  /\ padded = <<>>
  /\ padded' = <<IF from = "gateway" THEN PkcsPad(plain) ELSE FirmwarePad(plain)>>
  /\ UNCHANGED <<plain, from, got>>

\* The receiver decrypts.
Unwrap ==
  /\ padded # <<>> /\ got = <<>>
  /\ got' = <<IF from = "gateway" THEN FirmwareStrip(padded[1]) ELSE Strip(padded[1])>>
  /\ UNCHANGED <<plain, from, padded>>

PaddingNext == Wrap \/ Unwrap

PaddingSpec == PaddingInit /\ [][PaddingNext]_paddingVars

-----------------------------------------------------------------------------
\* A message that fills its blocks and ends in a byte that could be padding.
LooksPadded(p) == p # <<>> /\ Fills(p) /\ p[Len(p)] \in 1..Block

\* What one end reads is what the other sent, for every length, but for messages
\* of the device that it leaves unpadded and that look padded: they lose their tail.
Recovers ==
  got # <<>> => (got[1] = plain <=> ~(from = "device" /\ LooksPadded(plain)))
=============================================================================
