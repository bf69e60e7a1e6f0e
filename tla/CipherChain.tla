---------------------------- MODULE CipherChain ----------------------------
(***************************************************************************)
(* The rolling-IV AES-128-CBC session of lib/session.js and the last two   *)
(* stages of lib/handshake.js, between the gateway and one device.  After  *)
(* every frame each end takes the FIRST block of that frame's ciphertext   *)
(* as its next IV; the two directions roll independently from one initial  *)
(* IV.  The device (firmware, external) does the same.                     *)
(*                                                                         *)
(* AES is symbolic: block i of the n-th encryption of a direction is the   *)
(* tuple <<direction, n, i>>, and a frame decrypts to what was sealed if   *)
(* and only if it is opened under the IV it was sealed under (with another *)
(* IV, CBC garbles its first block, the one that holds the CoAP header).   *)
(***************************************************************************)
EXTENDS Naturals, Sequences

CONSTANTS
  IdSpace,    \* number of message ids (65536)
  MaxBlocks,  \* bound: blocks of the longest frame the 16-bit length allows
  MaxUp,      \* bound: frames the device seals
  MaxDown,    \* bound: frames the gateway seals, and ids it takes, the Hello's included
  Absent      \* no message id passed to send(), no message that coapEncode made

ASSUME ChainAssumption ==
  /\ IdSpace \in Nat \ {0}
  /\ MaxBlocks \in Nat \ {0}
  /\ MaxUp \in Nat
  /\ MaxDown \in Nat
  /\ Absent \notin Nat

VARIABLES
  phase,        \* of the session: "handshaking", "connected", "ending" (closed by the
                \* host between two frames, run() has one more to handle) or "closed"
  ivIn, ivOut,  \* the session's IVs
  sendCounter,  \* the session's message id counter
  devIn, devOut,\* the firmware's IVs (external): receiving, sending
  up, down,     \* frames in flight (TCP keeps their order), device to gateway and back
  sealed,       \* history: encryptions per direction
  refused,      \* history: numbers of the encryptions encodeFrame refused
  upRead,       \* history: what became of the frames the gateway read, in order
  downRead,     \* history: the frames the device read: number, clean or not
  ids           \* history: the Hello's id, then the ids send() took from the counter

serverVars == <<phase, ivIn, ivOut, sendCounter>>
deviceVars == <<devIn, devOut>>
historyVars == <<sealed, refused, upRead, downRead, ids>>
chainVars == <<serverVars, deviceVars, up, down, historyVars>>

Directions == {"up", "down"}
Plaintexts == {"msg", "ping", "malformed"}

\* The initial IV of deriveAesParams, and the empty one an empty frame leaves behind.
IV0 == <<"key", 0, 1>>
NoIv == <<"none", 0, 0>>
IVs == (Directions \cup {"key", "none"}) \X Nat \X Nat

Frames == [dir : Directions, n : Nat, blocks : Nat, iv : IVs,
           body : Plaintexts, ragged : BOOLEAN]

\* The variables have the types the handshake and the frame loop give them.
ChainTypeOK ==
  /\ phase \in {"handshaking", "connected", "ending", "closed"}
  /\ {ivIn, ivOut, devIn, devOut} \subseteq IVs
  /\ sendCounter \in 0..(IdSpace - 1)
  /\ up \in Seq(Frames) /\ down \in Seq(Frames)
  /\ sealed \in [Directions -> Nat]
  /\ refused \in SUBSET Nat
  /\ upRead \in Seq({"clean", "garbled", "rejected"})
  /\ downRead \in Seq([n : Nat, clean : BOOLEAN])
  /\ ids \in Seq(0..(IdSpace - 1))

ChainInit ==
  /\ phase = "handshaking"
  /\ ivIn = IV0 /\ ivOut = IV0
  /\ sendCounter = 0
  /\ devIn = IV0 /\ devOut = IV0
  /\ up = <<>> /\ down = <<>>
  /\ sealed = [d \in Directions |-> 0]
  /\ refused = {}
  /\ upRead = <<>> /\ downRead = <<>>
  /\ ids = <<>>

-----------------------------------------------------------------------------
\* Plausible bug: the next IV is the last block, as in plain CBC chaining.
LastBlock(f) == IF f.blocks = 0 THEN NoIv ELSE <<f.dir, f.n, f.blocks>>

\* ciphertext.subarray(0, 16)
FirstBlock(f) == IF f.blocks = 0 THEN NoIv ELSE <<f.dir, f.n, 1>>

\* aesEncrypt: the next frame of direction d, padded to whole blocks unless it
\* is ragged.
Seal(d, iv, blocks, body, ragged) ==
  [dir |-> d, n |-> sealed[d] + 1, blocks |-> blocks, iv |-> iv,
   body |-> body, ragged |-> ragged]

CountSeal(d) == sealed' = [sealed EXCEPT ![d] = @ + 1]

\* aesDecrypt throws on an IV that is not 16 bytes and on a partial block.
DecryptThrows(f, iv) == iv = NoIv \/ f.ragged

\* What aesDecrypt and coapDecode make of f: its own body under its own IV, anything
\* under another; an empty plaintext is malformed.
Readings(f, iv) ==
  IF f.blocks = 0 THEN {"malformed"} ELSE IF iv = f.iv THEN {f.body} ELSE Plaintexts

Reading(f, iv) ==
  IF DecryptThrows(f, iv) THEN "rejected"
  ELSE IF iv = f.iv \/ f.blocks = 0 THEN "clean" ELSE "garbled"

\* Plausible bug: the counter is not masked.
NextIdUnmasked(c) == c + 1

\* Plausible bug: the counter wraps at 0xFFFF, one id early.
NextIdEarly(c) == (c + 1) % (IdSpace - 1)

\* (this.sendCounter + 1) & 0xFFFF
NextId(c) == (c + 1) % IdSpace

\* encodeFrame refuses a frame longer than its 16-bit length prefix can say.
Oversize(blocks) == blocks > MaxBlocks

\* _sendPlain.  The IV rolls before the frame is encoded: when encodeFrame throws,
\* so does send(), with the IV rolled.
\* A closed session's socket takes the bytes nowhere.
SendPlain(blocks) ==
  LET f == Seal("down", ivOut, blocks, "msg", FALSE) IN
  /\ sealed["down"] < MaxDown
  /\ CountSeal("down")
  /\ ivOut' = FirstBlock(f)
  /\ IF Oversize(blocks)
     THEN refused' = refused \cup {f.n} /\ UNCHANGED down
     ELSE /\ down' = IF phase = "connected" THEN Append(down, f) ELSE down
          /\ UNCHANGED refused

-----------------------------------------------------------------------------
\* memcpy(iv, buf, 16): the firmware's next IV (external).
FirmwareIv(f) == <<f.dir, f.n, 1>>

\* The device seals a frame with its sending IV and rolls it (external).
DeviceSend(blocks, body) ==
  LET f == Seal("up", devOut, blocks, body, FALSE) IN
  /\ sealed["up"] < MaxUp
  /\ CountSeal("up")
  /\ up' = Append(up, f)
  /\ devOut' = FirmwareIv(f)
  /\ UNCHANGED <<serverVars, devIn, down, refused, upRead, downRead, ids>>

\* A frame no firmware sends reaches the gateway: empty, or not of whole blocks.
DeviceNoise(blocks, ragged) ==
  /\ blocks = 0 \/ ragged
  /\ sealed["up"] < MaxUp
  /\ CountSeal("up")
  /\ up' = Append(up, Seal("up", devOut, blocks, "malformed", ragged))
  /\ UNCHANGED <<serverVars, deviceVars, down, refused, upRead, downRead, ids>>

\* The device opens the next frame with its receiving IV and rolls it (external).
DeviceReceive ==
  /\ down # <<>>
  /\ downRead' = Append(downRead, [n |-> Head(down).n, clean |-> devIn = Head(down).iv])
  /\ devIn' = FirmwareIv(Head(down))
  /\ down' = Tail(down)
  /\ UNCHANGED <<serverVars, devOut, up, sealed, refused, upRead, ids>>

-----------------------------------------------------------------------------
\* runHandshake from stage 5 on, in one step: the device's Hello is opened with
\* the initial IV; the server's Hello is sealed with the same one under a
\* random id, which is also where the send counter starts.
Hello(id) ==
  LET f == Head(up)
      out == Seal("down", IV0, 1, "msg", FALSE) IN
  /\ phase = "handshaking" /\ up # <<>>
  /\ up' = Tail(up)
  /\ upRead' = Append(upRead, Reading(f, IV0))
  /\ \/ /\ DecryptThrows(f, IV0) \/ "malformed" \in Readings(f, IV0)
        /\ phase' = "closed"
        /\ UNCHANGED <<ivIn, ivOut, sendCounter, down, sealed, ids>>
     \/ /\ ~DecryptThrows(f, IV0) /\ Readings(f, IV0) # {"malformed"}
        /\ CountSeal("down")
        /\ ivIn' = FirstBlock(f)
        /\ ivOut' = FirstBlock(out)
        /\ down' = Append(down, out)
        /\ sendCounter' = id
        /\ ids' = <<id>>
        /\ phase' = "connected"
  /\ UNCHANGED <<deviceVars, refused, downRead>>

\* Plausible bug: the IV is rolled only once the message is known to be well formed.
RollInAfterDecode(f, body) == IF body = "malformed" THEN ivIn ELSE FirstBlock(f)

\* _handleFrame rolls ivIn before it looks at the plaintext.
RollIn(f, body) == FirstBlock(f)

\* _handleFrame: a frame that does not decrypt ends the session, a malformed
\* message is dropped, a Ping is acknowledged at once.  It does not look at the
\* session's state; the loop of run() does, after it.
HandleFrame ==
  LET f == Head(up) IN
  /\ phase \in {"connected", "ending"} /\ up # <<>>
  /\ up' = Tail(up)
  /\ upRead' = Append(upRead, Reading(f, ivIn))
  /\ \/ /\ DecryptThrows(f, ivIn)
        /\ phase' = "closed"
        /\ UNCHANGED <<ivIn, ivOut, down, sealed, refused>>
     \/ \E body \in Readings(f, ivIn) :
          /\ ~DecryptThrows(f, ivIn)
          /\ ivIn' = RollIn(f, body)
          /\ IF body = "ping" THEN SendPlain(1)
             ELSE UNCHANGED <<ivOut, down, sealed, refused>>
          /\ phase' = IF phase = "ending" THEN "closed" ELSE phase
  /\ UNCHANGED <<sendCounter, deviceVars, downRead, ids>>

\* aesKey is set, once and for all, when the handshake succeeds.
HasKey == ids # <<>>

\* send() with or without a message id; blocks is Absent when coapEncode throws.  It
\* does not look at the session's state: before the handshake there is no key
\* and it throws.  In either case the id is spent and no IV is rolled.
Send(messageId, blocks) ==
  /\ Len(ids) < MaxDown
  /\ sendCounter' = IF messageId = Absent THEN NextId(sendCounter) ELSE sendCounter
  /\ ids' = IF messageId = Absent /\ HasKey THEN Append(ids, sendCounter) ELSE ids
  /\ IF HasKey /\ blocks # Absent THEN SendPlain(blocks)
     ELSE UNCHANGED <<ivOut, down, sealed, refused>>
  /\ UNCHANGED <<phase, ivIn, deviceVars, up, upRead, downRead>>

\* disconnect(), perhaps between two frames of one chunk, or the socket's close: what
\* is in flight may still arrive.
Close ==
  /\ phase \in {"handshaking", "connected"}
  /\ phase' \in {"closed", IF phase = "connected" THEN "ending" ELSE "closed"}
  /\ UNCHANGED <<ivIn, ivOut, sendCounter, deviceVars, up, down, historyVars>>

ChainNext ==
  \/ \E blocks \in 1..MaxBlocks, body \in Plaintexts : DeviceSend(blocks, body)
  \/ \E blocks \in 0..1, ragged \in BOOLEAN : DeviceNoise(blocks, ragged)
  \/ DeviceReceive
  \/ \E id \in 0..(IdSpace - 1) : Hello(id)
  \/ HandleFrame
  \/ \E messageId \in {Absent, 0}, blocks \in {Absent} \cup 1..(MaxBlocks + 1) :
       Send(messageId, blocks)
  \/ Close

ChainSpec == ChainInit /\ [][ChainNext]_chainVars

-----------------------------------------------------------------------------
\* The gateway never reads a frame under another IV than the device sealed it
\* with, whatever malformed messages, empty or broken frames came before it.
InboundClean == \A i \in 1..Len(upRead) : upRead[i] # "garbled"

\* The device misreads exactly the frames that come next after a frame that
\* encodeFrame refused: one lost frame costs one more, and the chain is whole again.
OutboundHeals ==
  \A i \in 1..Len(downRead) :
    downRead[i].clean <=> (downRead[i].n - 1) \notin refused

\* The ids that send() takes differ within any window of IdSpace sends; only
\* the first repeats the id of the Hello.
IdsFresh ==
  \A i, j \in 2..Len(ids) : i < j /\ j - i < IdSpace => ids[i] # ids[j]
=============================================================================
