------------------------- MODULE CipherChainProofs -------------------------
(***************************************************************************)
(* Proofs about CipherChain, for every number of ids, blocks and frames.   *)
(***************************************************************************)
EXTENDS CipherChain, SequenceTheorems, TLAPS

-----------------------------------------------------------------------------
(* Type correctness.                                                        *)

\* FirstBlock returns an IV.
LEMMA FirstBlockTyped ==
  ASSUME NEW f \in Frames
  PROVE  FirstBlock(f) \in IVs
BY DEF FirstBlock, Frames, IVs, NoIv, Directions

\* Seal returns a frame.
LEMMA SealTyped ==
  ASSUME NEW d \in Directions, NEW iv \in IVs, NEW blocks \in Nat, NEW body \in Plaintexts,
         NEW ragged \in BOOLEAN, sealed \in [Directions -> Nat]
  PROVE  Seal(d, iv, blocks, body, ragged) \in Frames
BY DEF Seal, Frames

\* The counter stays below IdSpace.
LEMMA NextIdTyped ==
  ASSUME NEW c \in 0..(IdSpace - 1)
  PROVE  NextId(c) \in 0..(IdSpace - 1)
BY ChainAssumption DEF NextId

LEMMA IV0Typed == IV0 \in IVs
BY DEF IV0, IVs

\* A send keeps the types of what it changes.
LEMMA SendPlainTyped ==
  ASSUME ChainTypeOK, NEW blocks \in Nat, SendPlain(blocks)
  PROVE  /\ ivOut' \in IVs
         /\ down' \in Seq(Frames)
         /\ sealed' \in [Directions -> Nat]
         /\ refused' \in SUBSET Nat
<1> DEFINE f == Seal("down", ivOut, blocks, "msg", FALSE)
<1>1. f \in Frames
  BY SealTyped DEF ChainTypeOK, Directions, Plaintexts
<1>2. f.n \in Nat
  BY <1>1 DEF Frames
<1>3. ivOut' \in IVs
  BY <1>1, FirstBlockTyped DEF SendPlain
<1>4. down' \in Seq(Frames)
  <2>1. Append(down, f) \in Seq(Frames) /\ down \in Seq(Frames)
    BY <1>1, AppendProperties DEF ChainTypeOK
  <2>2. down' = down \/ down' = Append(down, f)
    BY DEF SendPlain
  <2> QED BY <2>1, <2>2
<1>5. sealed' \in [Directions -> Nat]
  BY DEF SendPlain, CountSeal, ChainTypeOK, Directions
<1>6. refused' \in SUBSET Nat
  BY <1>2 DEF SendPlain, ChainTypeOK
<1> QED BY <1>3, <1>4, <1>5, <1>6

\* Every step of the gateway and of the device keeps the types.
LEMMA TypeStep ==
  ASSUME ChainTypeOK, [ChainNext]_chainVars
  PROVE  ChainTypeOK'
<1> USE DEF ChainTypeOK
<1>1. ASSUME NEW blocks \in 1..MaxBlocks, NEW body \in Plaintexts, DeviceSend(blocks, body)
      PROVE  ChainTypeOK'
  <2> DEFINE f == Seal("up", devOut, blocks, body, FALSE)
  <2>1. f \in Frames
    <3>1. blocks \in Nat /\ FALSE \in BOOLEAN /\ "up" \in Directions /\ devOut \in IVs
      BY ChainAssumption DEF Directions
    <3> QED BY <3>1, SealTyped
  <2>2. FirmwareIv(f) \in IVs
    BY <2>1 DEF FirmwareIv, Frames, IVs
  <2>3. up' \in Seq(Frames)
    BY <1>1, <2>1, AppendProperties DEF DeviceSend
  <2>4. sealed' \in [Directions -> Nat]
    BY <1>1 DEF DeviceSend, CountSeal, Directions
  <2> QED BY <1>1, <2>2, <2>3, <2>4 DEF DeviceSend, serverVars
<1>2. ASSUME NEW blocks \in 0..1, NEW ragged \in BOOLEAN, DeviceNoise(blocks, ragged)
      PROVE  ChainTypeOK'
  <2> DEFINE f == Seal("up", devOut, blocks, "malformed", ragged)
  <2>1. f \in Frames
    BY SealTyped DEF Directions, Plaintexts
  <2> QED BY <1>2, <2>1 DEF DeviceNoise, CountSeal, serverVars, deviceVars, Directions
<1>3. CASE DeviceReceive
  <2>1. Head(down) \in Frames /\ Tail(down) \in Seq(Frames)
    BY <1>3 DEF DeviceReceive
  <2>2. FirmwareIv(Head(down)) \in IVs /\ Head(down).n \in Nat
    BY <2>1 DEF FirmwareIv, Frames, IVs
  <2> QED BY <1>3, <2>1, <2>2 DEF DeviceReceive, serverVars
<1>4. ASSUME NEW id \in 0..(IdSpace - 1), Hello(id)
      PROVE  ChainTypeOK'
  <2> DEFINE f == Head(up)
             out == Seal("down", IV0, 1, "msg", FALSE)
  <2>1. f \in Frames /\ Tail(up) \in Seq(Frames)
    BY <1>4 DEF Hello
  <2>2. out \in Frames
    BY IV0Typed, SealTyped DEF Directions, Plaintexts
  <2>3. Reading(f, IV0) \in {"clean", "garbled", "rejected"}
    BY DEF Reading
  <2>4. FirstBlock(f) \in IVs /\ FirstBlock(out) \in IVs
    BY <2>1, <2>2, FirstBlockTyped
  <2>5. upRead' \in Seq({"clean", "garbled", "rejected"}) /\ up' \in Seq(Frames)
    BY <1>4, <2>1, <2>3 DEF Hello
  <2>6. CASE phase' = "closed"
    BY <1>4, <2>5, <2>6 DEF Hello, deviceVars
  <2>7. CASE phase' = "connected"
    <3>1. down' \in Seq(Frames)
      <4>1. down' = Append(down, out)
        BY <1>4, <2>7 DEF Hello
      <4> QED BY <2>2, <4>1, AppendProperties
    <3>2. sealed' \in [Directions -> Nat]
      BY <1>4, <2>7 DEF Hello, CountSeal, Directions
    <3>3. ids' \in Seq(0..(IdSpace - 1)) /\ sendCounter' = id
      <4>1. <<id>> \in Seq(0..(IdSpace - 1))
        OBVIOUS
      <4>2. ids' = <<id>> /\ sendCounter' = id
        BY <1>4, <2>7 DEF Hello
      <4> QED BY <4>1, <4>2
    <3>4. ivIn' \in IVs /\ ivOut' \in IVs
      BY <1>4, <2>4, <2>7 DEF Hello
    <3> QED BY <1>4, <2>5, <2>7, <3>1, <3>2, <3>3, <3>4 DEF Hello, deviceVars
  <2> QED BY <1>4, <2>6, <2>7 DEF Hello
<1>5. CASE HandleFrame
  <2> DEFINE f == Head(up)
  <2>1. f \in Frames /\ Tail(up) \in Seq(Frames)
    BY <1>5 DEF HandleFrame
  <2>2. Reading(f, ivIn) \in {"clean", "garbled", "rejected"}
    BY DEF Reading
  <2>3. upRead' \in Seq({"clean", "garbled", "rejected"}) /\ up' \in Seq(Frames)
    BY <1>5, <2>1, <2>2 DEF HandleFrame
  <2>4. CASE UNCHANGED <<ivOut, down, sealed, refused>>
    BY <1>5, <2>1, <2>3, <2>4, FirstBlockTyped DEF HandleFrame, RollIn, deviceVars
  <2>5. CASE SendPlain(1)
    BY <1>5, <2>1, <2>3, <2>5, FirstBlockTyped, SendPlainTyped
       DEF HandleFrame, RollIn, deviceVars
  <2> QED BY <1>5, <2>4, <2>5 DEF HandleFrame
<1>6. ASSUME NEW messageId \in {Absent, 0}, NEW blocks \in {Absent} \cup 1..(MaxBlocks + 1),
             Send(messageId, blocks)
      PROVE  ChainTypeOK'
  <2>1. sendCounter' \in 0..(IdSpace - 1) /\ ids' \in Seq(0..(IdSpace - 1))
    <3>1. Append(ids, sendCounter) \in Seq(0..(IdSpace - 1))
      OBVIOUS
    <3>2. ids' = ids \/ ids' = Append(ids, sendCounter)
      BY <1>6 DEF Send
    <3>3. sendCounter' = sendCounter \/ sendCounter' = NextId(sendCounter)
      BY <1>6 DEF Send
    <3> QED BY <3>1, <3>2, <3>3, NextIdTyped
  <2>2. CASE UNCHANGED <<ivOut, down, sealed, refused>>
    BY <1>6, <2>1, <2>2 DEF Send, deviceVars
  <2>3. CASE blocks # Absent /\ SendPlain(blocks)
    <3>1. blocks \in Nat
      BY <2>3, ChainAssumption
    <3> QED BY <1>6, <2>1, <2>3, <3>1, SendPlainTyped DEF Send, deviceVars
  <2> QED BY <1>6, <2>2, <2>3 DEF Send
<1>7. CASE Close
  BY <1>7 DEF Close, deviceVars, historyVars
<1>8. CASE UNCHANGED chainVars
  BY <1>8 DEF chainVars, serverVars, deviceVars, historyVars
<1> QED BY <1>1, <1>2, <1>3, <1>4, <1>5, <1>6, <1>7, <1>8 DEF ChainNext

\* Every variable of the cipher chain keeps its type.
THEOREM ChainTyped == ChainSpec => []ChainTypeOK
<1>1. ChainInit => ChainTypeOK
  BY ChainAssumption, IV0Typed DEF ChainInit, ChainTypeOK, Directions
<1>2. ChainTypeOK /\ [ChainNext]_chainVars => ChainTypeOK'
  BY TypeStep
<1> QED BY <1>1, <1>2, PTL DEF ChainSpec

-----------------------------------------------------------------------------
(* Inbound: what the device seals, the gateway opens with the same IV.      *)

\* The IV the device seals with after frame f.
IvAfter(f) == IF f.ragged \/ f.blocks = 0 THEN f.iv ELSE FirmwareIv(f)

\* The frames in flight form one chain from iv to the device's sending IV.
ChainedFrom(iv) ==
  /\ up = <<>> => devOut = iv
  /\ up # <<>> => up[1].iv = iv /\ devOut = IvAfter(up[Len(up)])
  /\ \A i \in 1..(Len(up) - 1) : up[i + 1].iv = IvAfter(up[i])

\* A live session holds the start of the chain, or no usable IV at all.
InboundInv ==
  /\ phase = "handshaking" => ChainedFrom(IV0)
  /\ phase \in {"connected", "ending"} => ivIn = NoIv \/ ChainedFrom(ivIn)
  /\ InboundClean

\* The chain grows at its end by a frame sealed with the device's IV.
LEMMA ChainGrows ==
  ASSUME NEW iv, up \in Seq(Frames), ChainedFrom(iv), NEW f \in Frames,
         f.iv = devOut, up' = Append(up, f), devOut' = IvAfter(f)
  PROVE  ChainedFrom(iv)'
<1>1. up' # <<>> /\ Len(up') = Len(up) + 1 /\ up'[Len(up')] = f
  OBVIOUS
<1>2. \A i \in 1..Len(up) : up'[i] = up[i]
  OBVIOUS
<1>3. up'[1].iv = iv
  BY <1>1, <1>2 DEF ChainedFrom
<1>4. ASSUME NEW i \in 1..(Len(up') - 1)
      PROVE  up'[i + 1].iv = IvAfter(up'[i])
  <2>1. CASE i < Len(up)
    BY <1>1, <1>2, <2>1 DEF ChainedFrom
  <2>2. CASE i = Len(up)
    BY <1>1, <1>2, <2>2 DEF ChainedFrom
  <2> QED BY <1>1, <2>1, <2>2
<1>5. devOut' = IvAfter(up'[Len(up')])
  BY <1>1
<1> QED BY <1>1, <1>3, <1>4, <1>5 DEF ChainedFrom, IvAfter, FirmwareIv

\* The chain loses its first frame and starts at the IV after it.
LEMMA ChainShrinks ==
  ASSUME NEW iv, up \in Seq(Frames), ChainedFrom(iv), up # <<>>,
         up' = Tail(up), devOut' = devOut
  PROVE  /\ Head(up).iv = iv
         /\ \A next : next = IvAfter(Head(up)) => ChainedFrom(next)'
<1>1. Head(up) = up[1]
  OBVIOUS
<1>2. Len(up') = Len(up) - 1 /\ \A i \in 1..Len(up') : up'[i] = up[i + 1]
  OBVIOUS
<1>3. ASSUME NEW next, next = IvAfter(up[1])
      PROVE  ChainedFrom(next)'
  <2>1. CASE Len(up) = 1
    BY <1>2, <1>3, <2>1 DEF ChainedFrom
  <2>2. CASE Len(up) > 1
    <3>1. up' # <<>> /\ up'[1] = up[2] /\ up'[Len(up')] = up[Len(up)]
      <4>1. Len(up) \in Nat /\ 1 \in 1..Len(up') /\ Len(up') \in 1..Len(up')
        BY <1>2, <2>2
      <4>2. up'[1] = up[1 + 1] /\ up'[Len(up')] = up[Len(up') + 1]
        BY <1>2, <4>1
      <4>3. Len(up') + 1 = Len(up)
        BY <1>2, <4>1
      <4>4. up' # <<>>
        BY <4>1
      <4> QED BY <4>2, <4>3, <4>4
    <3>2. up'[1].iv = next
      BY <1>3, <2>2, <3>1 DEF ChainedFrom
    <3>3. devOut' = IvAfter(up'[Len(up')])
      BY <3>1 DEF ChainedFrom
    <3>4. \A i \in 1..(Len(up') - 1) : up'[i + 1].iv = IvAfter(up'[i])
      BY <1>2 DEF ChainedFrom
    <3> QED BY <3>1, <3>2, <3>3, <3>4 DEF ChainedFrom, IvAfter, FirmwareIv
  <2>3. Len(up) = 1 \/ Len(up) > 1
    <3>1. Len(up) \in Nat /\ Len(up) # 0
      BY EmptySeq, LenProperties
    <3>2. \A n \in Nat : n # 0 => n = 1 \/ n > 1
      OBVIOUS
    <3> QED BY <3>1, <3>2
  <2> QED BY <2>1, <2>2, <2>3
<1> QED BY <1>1, <1>3 DEF ChainedFrom

\* The chain depends on the frames in flight and the device's IV only.
LEMMA ChainKept ==
  ASSUME NEW iv, ChainedFrom(iv), UNCHANGED <<up, devOut>>
  PROVE  ChainedFrom(iv)'
BY DEF ChainedFrom, IvAfter, FirmwareIv

\* What is read under the IV it was sealed with is not garbled.
LEMMA NotGarbled ==
  ASSUME NEW f, NEW iv, iv = NoIv \/ iv = f.iv
  PROVE  Reading(f, iv) # "garbled"
BY DEF Reading, DecryptThrows

\* One more reading that is not garbled keeps the list of readings clean.
LEMMA CleanAppended ==
  ASSUME NEW S, NEW seq \in Seq(S), NEW r, r # "garbled",
         \A i \in 1..Len(seq) : seq[i] # "garbled"
  PROVE  \A i \in 1..Len(Append(seq, r)) : Append(seq, r)[i] # "garbled"
<1>1. Len(Append(seq, r)) = Len(seq) + 1 /\ Len(seq) \in Nat
  OBVIOUS
<1>2. Append(seq, r)[Len(seq) + 1] = r
  OBVIOUS
<1>3. \A i \in 1..Len(seq) : Append(seq, r)[i] = seq[i]
  OBVIOUS
<1> QED BY <1>1, <1>2, <1>3

LEMMA InboundStep ==
  ASSUME ChainTypeOK, InboundInv, [ChainNext]_chainVars
  PROVE  InboundInv'
<1> USE DEF ChainTypeOK
<1>1. ASSUME NEW blocks \in 1..MaxBlocks, NEW body \in Plaintexts, DeviceSend(blocks, body)
      PROVE  InboundInv'
  <2> DEFINE f == Seal("up", devOut, blocks, body, FALSE)
  <2>1. blocks \in Nat /\ blocks # 0 /\ FALSE \in BOOLEAN /\ "up" \in Directions /\ devOut \in IVs
    BY ChainAssumption DEF Directions
  <2>2. f \in Frames
    BY <2>1, SealTyped
  <2>3. f.iv = devOut /\ devOut' = IvAfter(f) /\ up' = Append(up, f)
    BY <1>1, <2>1 DEF DeviceSend, Seal, IvAfter
  <2>4. \A iv : ChainedFrom(iv) => ChainedFrom(iv)'
    BY <2>2, <2>3, ChainGrows
  <2> QED BY <1>1, <2>4 DEF DeviceSend, serverVars, InboundInv, InboundClean
<1>2. ASSUME NEW blocks \in 0..1, NEW ragged \in BOOLEAN, DeviceNoise(blocks, ragged)
      PROVE  InboundInv'
  <2> DEFINE f == Seal("up", devOut, blocks, "malformed", ragged)
  <2>1. f \in Frames
    BY SealTyped DEF Directions, Plaintexts
  <2>2. f.iv = devOut /\ devOut' = IvAfter(f) /\ up' = Append(up, f)
    BY <1>2 DEF DeviceNoise, Seal, IvAfter, deviceVars
  <2>3. \A iv : ChainedFrom(iv) => ChainedFrom(iv)'
    BY <2>1, <2>2, ChainGrows
  <2> QED BY <1>2, <2>3 DEF DeviceNoise, serverVars, InboundInv, InboundClean
<1>3. CASE DeviceReceive
  <2>1. \A iv : ChainedFrom(iv) => ChainedFrom(iv)'
    BY <1>3, ChainKept DEF DeviceReceive
  <2> QED BY <1>3, <2>1 DEF DeviceReceive, serverVars, InboundInv, InboundClean
<1>4. ASSUME NEW id \in 0..(IdSpace - 1), Hello(id)
      PROVE  InboundInv'
  <2>1. up # <<>> /\ up' = Tail(up) /\ devOut' = devOut /\ ChainedFrom(IV0)
    BY <1>4 DEF Hello, deviceVars, InboundInv
  <2>2. Head(up).iv = IV0 /\ Head(up) \in Frames
    BY <2>1, ChainShrinks
  <2>3. Reading(Head(up), IV0) # "garbled"
    BY <2>2, NotGarbled
  <2>4. InboundClean'
    <3>1. upRead' = Append(upRead, Reading(Head(up), IV0))
      BY <1>4 DEF Hello
    <3> QED BY <2>3, <3>1, CleanAppended DEF InboundClean, InboundInv
  <2>5. CASE phase' = "closed"
    BY <2>4, <2>5 DEF InboundInv
  <2>6. CASE phase' = "connected"
    <3>1. ivIn' = FirstBlock(Head(up)) /\ ~Head(up).ragged
      BY <1>4, <2>6 DEF Hello, DecryptThrows
    <3>2. ivIn' = NoIv \/ ivIn' = IvAfter(Head(up))
      BY <3>1 DEF FirstBlock, IvAfter, FirmwareIv
    <3>3. ivIn' = NoIv \/ ChainedFrom(ivIn)'
      BY <2>1, <3>2, ChainShrinks
    <3> QED BY <2>4, <2>6, <3>3 DEF InboundInv
  <2> QED BY <1>4, <2>5, <2>6 DEF Hello
<1>5. CASE HandleFrame
  <2>1. /\ up # <<>> /\ up' = Tail(up) /\ devOut' = devOut
        /\ phase \in {"connected", "ending"}
    BY <1>5 DEF HandleFrame, deviceVars
  <2>2. ivIn = NoIv \/ ivIn = Head(up).iv
    BY <2>1, ChainShrinks DEF InboundInv
  <2>3. InboundClean'
    <3>1. upRead' = Append(upRead, Reading(Head(up), ivIn))
      BY <1>5 DEF HandleFrame
    <3>2. Reading(Head(up), ivIn) # "garbled"
      BY <2>2, NotGarbled
    <3> QED BY <3>1, <3>2, CleanAppended DEF InboundClean, InboundInv
  <2>4. CASE phase' = "closed"
    BY <2>3, <2>4 DEF InboundInv
  <2>5. CASE phase' = "connected"
    <3>1. ivIn' = FirstBlock(Head(up)) /\ ~Head(up).ragged /\ ivIn # NoIv
      BY <1>5, <2>5 DEF HandleFrame, DecryptThrows, RollIn
    <3>2. ivIn' = NoIv \/ ivIn' = IvAfter(Head(up))
      BY <3>1 DEF FirstBlock, IvAfter, FirmwareIv
    <3>3. ivIn' = NoIv \/ ChainedFrom(ivIn)'
      BY <2>1, <3>1, <3>2, ChainShrinks DEF InboundInv
    <3> QED BY <2>3, <2>5, <3>3 DEF InboundInv
  <2> QED BY <1>5, <2>1, <2>4, <2>5 DEF HandleFrame
<1>6. ASSUME NEW messageId \in {Absent, 0}, NEW blocks \in {Absent} \cup 1..(MaxBlocks + 1),
             Send(messageId, blocks)
      PROVE  InboundInv'
  <2>1. \A iv : ChainedFrom(iv) => ChainedFrom(iv)'
    BY <1>6, ChainKept DEF Send, deviceVars
  <2> QED BY <1>6, <2>1 DEF Send, InboundInv, InboundClean
<1>7. CASE Close
  <2>1. \A iv : ChainedFrom(iv) => ChainedFrom(iv)'
    BY <1>7, ChainKept DEF Close, deviceVars
  <2> QED BY <1>7, <2>1 DEF Close, historyVars, InboundInv, InboundClean
<1>8. CASE UNCHANGED chainVars
  <2>1. \A iv : ChainedFrom(iv) => ChainedFrom(iv)'
    BY <1>8, ChainKept DEF chainVars, deviceVars
  <2> QED BY <1>8, <2>1 DEF chainVars, serverVars, historyVars, InboundInv, InboundClean
<1> QED BY <1>1, <1>2, <1>3, <1>4, <1>5, <1>6, <1>7, <1>8 DEF ChainNext

\* The gateway never opens a frame with another IV than the device sealed it
\* with, for any sequence of whole, malformed, empty and broken frames.
THEOREM ChainInboundClean == ChainSpec => []InboundClean
<1>1. ChainInit => InboundInv
  BY DEF ChainInit, InboundInv, InboundClean, ChainedFrom
<1>2. ChainTypeOK /\ InboundInv /\ [ChainNext]_chainVars => InboundInv'
  BY InboundStep
<1>3. InboundInv => InboundClean
  BY DEF InboundInv
<1> QED BY <1>1, <1>2, <1>3, ChainTyped, PTL DEF ChainSpec

-----------------------------------------------------------------------------
(* Outbound: which frames the device can read.                              *)

\* The IV after the k-th encryption of the gateway.
BlockOf(k) == IF k = 0 THEN IV0 ELSE <<"down", k, 1>>

\* The number of the frame the device read last, and of the one written last.
ReadLast == IF downRead = <<>> THEN 0 ELSE downRead[Len(downRead)].n
WroteLast == IF down = <<>> THEN ReadLast ELSE down[Len(down)].n

\* All encryptions after the a-th and before the b-th were refused.
AllRefused(a, b) == \A k \in Nat : a < k /\ k < b => k \in refused

\* Nothing is encrypted before the handshake is over.
NothingSealed ==
  phase = "handshaking" =>
    sealed["down"] = 0 /\ refused = {} /\ down = <<>> /\ downRead = <<>> /\ ids = <<>>

\* A live session holds the IV of its last encryption; those it encrypted since the
\* last frame it wrote were refused.
SenderInv ==
  phase = "connected" =>
    ivOut = BlockOf(sealed["down"]) /\ AllRefused(WroteLast, sealed["down"] + 1)

\* The device holds the IV of the frame it read last.
ReceiverInv ==
  /\ devIn = BlockOf(ReadLast)
  /\ ReadLast \in 0..sealed["down"] /\ ReadLast \notin refused

\* Refused encryptions have happened.
RefusedInv == \A k \in refused : 1 <= k /\ k <= sealed["down"]

\* A frame in flight carries the IV of the encryption before it and was not refused.
FlightInv ==
  \A i \in 1..Len(down) :
    /\ 1 <= down[i].n /\ down[i].n <= sealed["down"] /\ down[i].n \notin refused
    /\ down[i].dir = "down" /\ down[i].iv = BlockOf(down[i].n - 1)

\* Between two frames, the one read last included, there are only refused ones.
GapInv ==
  /\ down # <<>> => ReadLast < down[1].n /\ AllRefused(ReadLast, down[1].n)
  /\ \A i \in 1..(Len(down) - 1) :
       down[i].n < down[i + 1].n /\ AllRefused(down[i].n, down[i + 1].n)

\* What the device has read was encrypted, and it misread what OutboundHeals says.
HistoryInv ==
  /\ \A i \in 1..Len(downRead) : 1 <= downRead[i].n /\ downRead[i].n <= sealed["down"]
  /\ OutboundHeals

OutboundInv ==
  /\ NothingSealed /\ SenderInv /\ ReceiverInv /\ RefusedInv
  /\ FlightInv /\ GapInv /\ HistoryInv

\* Different encryptions have different blocks.
LEMMA BlocksDiffer ==
  ASSUME NEW j \in Nat, NEW k \in Nat, BlockOf(j) = BlockOf(k)
  PROVE  j = k
BY DEF BlockOf, IV0

\* A step that leaves the outbound variables alone keeps the invariant.
LEMMA OutboundKept ==
  ASSUME OutboundInv, UNCHANGED <<ivOut, devIn, down, refused, downRead, ids>>,
         sealed'["down"] = sealed["down"], phase' \in {phase, "ending", "closed"}
  PROVE  OutboundInv'
BY DEF OutboundInv, NothingSealed, SenderInv, ReceiverInv, RefusedInv, FlightInv, GapInv,
       HistoryInv, OutboundHeals, AllRefused, WroteLast, ReadLast, BlockOf

\* An encryption, written, refused or written to a closed socket, keeps the
\* invariant.
LEMMA OutboundSend ==
  ASSUME ChainTypeOK, OutboundInv, phase # "handshaking", NEW blocks \in Nat, blocks # 0,
         SendPlain(blocks), phase' \in {phase, "closed"}, UNCHANGED <<devIn, downRead>>
  PROVE  OutboundInv'
<1> DEFINE N == sealed["down"]
           f == Seal("down", ivOut, blocks, "msg", FALSE)
<1>1. N \in Nat /\ down \in Seq(Frames) /\ refused \subseteq Nat
      /\ downRead \in Seq([n : Nat, clean : BOOLEAN])
  BY DEF ChainTypeOK, Directions
<1>2. sealed'["down"] = N + 1 /\ f.n = N + 1 /\ f.iv = ivOut /\ f.dir = "down"
  BY <1>1 DEF SendPlain, CountSeal, Seal, ChainTypeOK, Directions
<1>3. ivOut' = BlockOf(N + 1)
  BY <1>1 DEF SendPlain, FirstBlock, Seal, BlockOf
<1>4. ReadLast' = ReadLast
  BY DEF ReadLast
<1>5. f \in Frames
  <2>1. FALSE \in BOOLEAN /\ "down" \in Directions /\ ivOut \in IVs /\ "msg" \in Plaintexts
    BY DEF ChainTypeOK, Directions, Plaintexts
  <2>2. sealed \in [Directions -> Nat]
    BY DEF ChainTypeOK
  <2> QED BY <2>1, <2>2, SealTyped
<1>6. ~Oversize(blocks) /\ phase = "connected" => down' = Append(down, f)
  BY DEF SendPlain
<1>7. f.n \in Nat
  BY <1>5 DEF Frames
<1> HIDE DEF f
<1>8. \A i \in 1..Len(down) : down[i].n \in Nat
  <2>1. \A i \in 1..Len(down) : down[i] \in Frames
    BY <1>1, ElementOfSeq
  <2> QED BY <2>1 DEF Frames
<1>9. \A i \in 1..Len(downRead) : downRead[i].n \in Nat
  <2>1. \A i \in 1..Len(downRead) : downRead[i] \in [n : Nat, clean : BOOLEAN]
    BY <1>1, ElementOfSeq
  <2> QED BY <2>1
<1>10. N + 1 \notin refused
  BY <1>1 DEF OutboundInv, RefusedInv
<1>11. NothingSealed'
  BY DEF NothingSealed
<1>12. CASE Oversize(blocks)
  <2>1. refused' = refused \cup {N + 1} /\ down' = down
    BY <1>2, <1>12 DEF SendPlain, f
  <2>2. WroteLast' = WroteLast
    BY <1>4, <2>1 DEF WroteLast
  <2>3. SenderInv'
    <3>1. SUFFICES ASSUME phase = "connected", NEW k \in Nat, WroteLast < k, k < N + 2
                   PROVE  k \in refused'
      BY <1>1, <1>2, <1>3, <2>2 DEF SenderInv, AllRefused
    <3>2. CASE k = N + 1
      BY <2>1, <3>2
    <3>3. CASE k < N + 1
      BY <2>1, <3>1, <3>3 DEF OutboundInv, SenderInv, AllRefused
    <3> QED BY <1>1, <3>1, <3>2, <3>3
  <2>4. ReceiverInv'
    BY <1>1, <1>2, <1>4, <2>1 DEF OutboundInv, ReceiverInv, BlockOf
  <2>5. RefusedInv'
    BY <1>1, <1>2, <2>1 DEF OutboundInv, RefusedInv
  <2>6. FlightInv'
    BY <1>1, <1>2, <1>8, <2>1 DEF OutboundInv, FlightInv, BlockOf
  <2>7. GapInv'
    BY <1>4, <2>1 DEF OutboundInv, GapInv, AllRefused
  <2>8. HistoryInv'
    <3>1. SUFFICES ASSUME NEW i \in 1..Len(downRead)
                   PROVE  /\ 1 <= downRead[i].n /\ downRead[i].n <= N + 1
                          /\ downRead[i].clean <=> (downRead[i].n - 1) \notin refused'
      BY <1>2 DEF HistoryInv, OutboundHeals
    <3>2. /\ 1 <= downRead[i].n /\ downRead[i].n <= N
          /\ downRead[i].clean <=> (downRead[i].n - 1) \notin refused
      BY DEF OutboundInv, HistoryInv, OutboundHeals
    <3>3. downRead[i].n - 1 # N + 1
      BY <1>1, <1>9, <3>2
    <3>4. (downRead[i].n - 1) \in refused' <=> (downRead[i].n - 1) \in refused
      BY <2>1, <3>3
    <3> QED BY <1>1, <1>9, <3>2, <3>4
  <2> QED BY <1>11, <2>3, <2>4, <2>5, <2>6, <2>7, <2>8 DEF OutboundInv
<1>13. CASE ~Oversize(blocks)
  <2>1. refused' = refused
    BY <1>13 DEF SendPlain
  <2>2. ReceiverInv' /\ RefusedInv'
    BY <1>1, <1>2, <1>4, <2>1 DEF OutboundInv, ReceiverInv, RefusedInv, BlockOf
  <2>3. HistoryInv'
    BY <1>1, <1>2, <1>9, <2>1 DEF OutboundInv, HistoryInv, OutboundHeals
  <2>4. CASE phase # "connected"
    <3>1. down' = down
      BY <1>13, <2>4 DEF SendPlain
    <3>2. FlightInv'
      <4>1. SUFFICES ASSUME NEW i \in 1..Len(down)
                     PROVE  /\ 1 <= down[i].n /\ down[i].n <= N + 1 /\ down[i].n \notin refused
                            /\ down[i].dir = "down" /\ down[i].iv = BlockOf(down[i].n - 1)
        BY <1>2, <2>1, <3>1 DEF FlightInv, BlockOf
      <4>2. down[i].n \in Nat
        BY <1>8
      <4>3. /\ 1 <= down[i].n /\ down[i].n <= N /\ down[i].n \notin refused
            /\ down[i].dir = "down" /\ down[i].iv = BlockOf(down[i].n - 1)
        BY DEF OutboundInv, FlightInv
      <4> QED BY <1>1, <4>2, <4>3
    <3>3. GapInv'
      BY <1>4, <2>1, <3>1 DEF OutboundInv, GapInv, AllRefused
    <3>4. SenderInv'
      BY <2>4 DEF SenderInv
    <3> QED BY <1>11, <2>2, <2>3, <3>2, <3>3, <3>4 DEF OutboundInv
  <2>5. CASE phase = "connected"
    <3>1. down' = Append(down, f)
      BY <1>13, <1>6, <2>5
    <3>2. Len(down) \in Nat /\ Len(down') = Len(down) + 1 /\ down' # <<>>
      BY <1>1, <1>5, <3>1, AppendProperties, LenProperties
    <3>3. \A i \in 1..Len(down) : down'[i] = down[i]
      BY <1>1, <1>5, <3>1, AppendProperties
    <3>4. down'[Len(down')] = f
      BY <1>1, <1>5, <3>1, <3>2, AppendProperties
    <3>5. ivOut = BlockOf(N) /\ AllRefused(WroteLast, N + 1)
      BY <2>5 DEF OutboundInv, SenderInv
    <3>6. WroteLast' = N + 1
      BY <1>2, <3>2, <3>4 DEF WroteLast
    <3>7. SenderInv'
      BY <1>1, <1>2, <1>3, <3>6 DEF SenderInv, AllRefused
    <3>8. FlightInv'
      <4>1. SUFFICES ASSUME NEW i \in 1..Len(down')
                     PROVE  /\ 1 <= down'[i].n /\ down'[i].n <= N + 1
                            /\ down'[i].n \notin refused
                            /\ down'[i].dir = "down"
                            /\ down'[i].iv = BlockOf(down'[i].n - 1)
        BY <1>2, <2>1 DEF FlightInv, BlockOf
      <4>2. CASE i \in 1..Len(down)
        BY <1>1, <1>8, <3>3, <4>2 DEF OutboundInv, FlightInv
      <4>3. CASE i = Len(down')
        <5>1. down'[i] = f
          BY <3>4, <4>3
        <5>2. (N + 1) - 1 = N
          BY <1>1
        <5> QED BY <1>1, <1>2, <1>10, <3>5, <5>1, <5>2
      <4> QED BY <3>2, <4>2, <4>3
    <3>9. GapInv'
      <4>1. CASE down = <<>>
        <5>1. Len(down') = 1 /\ down'[1] = f
          BY <3>2, <3>4, <4>1
        <5>2. ReadLast < N + 1 /\ AllRefused(ReadLast, N + 1)
          BY <1>1, <3>5, <4>1 DEF OutboundInv, ReceiverInv, WroteLast
        <5> QED BY <1>2, <1>4, <2>1, <5>1, <5>2 DEF GapInv, AllRefused
      <4>2. CASE down # <<>>
        <5>1. 1 \in 1..Len(down) /\ Len(down) \in 1..Len(down)
          BY <1>1, <4>2, EmptySeq
        <5>2. ReadLast < down'[1].n /\ AllRefused(ReadLast, down'[1].n)
          BY <3>3, <4>2, <5>1 DEF OutboundInv, GapInv
        <5>3. ASSUME NEW i \in 1..(Len(down') - 1)
              PROVE  down'[i].n < down'[i + 1].n /\ AllRefused(down'[i].n, down'[i + 1].n)
          <6>1. i \in 1..Len(down) /\ down'[i] = down[i]
            BY <3>2, <3>3
          <6>2. CASE i < Len(down)
            <7>1. i \in 1..(Len(down) - 1) /\ i + 1 \in 1..Len(down)
              BY <3>2, <6>1, <6>2
            <7>2. down'[i + 1] = down[i + 1]
              BY <3>3, <7>1
            <7> QED BY <6>1, <7>1, <7>2 DEF OutboundInv, GapInv
          <6>3. CASE i = Len(down)
            <7>1. down'[i + 1] = f
              BY <3>2, <3>4, <6>3
            <7>2. down[i].n < N + 1
              BY <1>1, <1>8, <6>1 DEF OutboundInv, FlightInv
            <7>3. AllRefused(down[i].n, N + 1)
              BY <3>5, <4>2, <6>3 DEF WroteLast
            <7> QED BY <1>2, <6>1, <7>1, <7>2, <7>3
          <6> QED BY <3>2, <6>1, <6>2, <6>3
        <5> QED BY <1>4, <2>1, <5>2, <5>3 DEF GapInv, AllRefused
      <4> QED BY <4>1, <4>2
    <3> QED BY <1>11, <2>2, <2>3, <3>7, <3>8, <3>9 DEF OutboundInv
  <2> QED BY <2>4, <2>5
<1> QED BY <1>12, <1>13

\* The device's reading of the next frame keeps the invariant.
LEMMA OutboundReceive ==
  ASSUME ChainTypeOK, OutboundInv, DeviceReceive
  PROVE  OutboundInv'
<1> DEFINE f == Head(down)
           N == sealed["down"]
<1>1. N \in Nat /\ down \in Seq(Frames) /\ refused \subseteq Nat
      /\ downRead \in Seq([n : Nat, clean : BOOLEAN])
  BY DEF ChainTypeOK, Directions
<1>2. /\ down # <<>> /\ down' = Tail(down) /\ devIn' = FirmwareIv(f)
      /\ downRead' = Append(downRead, [n |-> f.n, clean |-> devIn = f.iv])
      /\ UNCHANGED <<phase, ivOut, sealed, refused, ids>>
  BY DEF DeviceReceive, serverVars
<1>3. f = down[1] /\ f \in Frames /\ 1 \in 1..Len(down) /\ Len(down) \in Nat
  BY <1>1, <1>2, EmptySeq
<1>4. \A i \in 1..Len(down) : down[i].n \in Nat
  <2>1. \A i \in 1..Len(down) : down[i] \in Frames
    BY <1>1, ElementOfSeq
  <2> QED BY <2>1 DEF Frames
<1>5. f.n \in 1..N /\ f.n \notin refused /\ f.dir = "down" /\ f.iv = BlockOf(f.n - 1)
  BY <1>1, <1>3, <1>4 DEF OutboundInv, FlightInv
<1>6. Len(down') = Len(down) - 1 /\ \A i \in 1..Len(down') : down'[i] = down[i + 1]
  BY <1>1, <1>2
<1>7. /\ Len(downRead) \in Nat /\ Len(downRead') = Len(downRead) + 1 /\ downRead' # <<>>
      /\ \A i \in 1..Len(downRead) : downRead'[i] = downRead[i]
      /\ downRead'[Len(downRead')].n = f.n
      /\ downRead'[Len(downRead')].clean <=> devIn = f.iv
  <2> DEFINE r == [n |-> f.n, clean |-> devIn = f.iv]
  <2>1. r \in [n : Nat, clean : BOOLEAN] /\ r.n = f.n /\ (r.clean <=> devIn = f.iv)
    <3>1. f.n \in Nat /\ (devIn = f.iv) \in BOOLEAN
      BY <1>3, <1>4
    <3>2. r.n = f.n /\ (r.clean <=> devIn = f.iv)
      BY Zenon
    <3>3. r \in [n : Nat, clean : BOOLEAN]
      BY <3>1, Zenon
    <3> QED BY <3>2, <3>3
  <2> HIDE DEF r
  <2>2. downRead' = Append(downRead, r)
    BY <1>2 DEF r
  <2>3. /\ Len(downRead) \in Nat /\ Len(downRead') = Len(downRead) + 1 /\ downRead' # <<>>
        /\ \A i \in 1..Len(downRead) : downRead'[i] = downRead[i]
        /\ downRead'[Len(downRead')] = r
    BY <1>1, <2>1, <2>2
  <2> QED BY <2>1, <2>3
<1>8. ReadLast' = f.n
  BY <1>7 DEF ReadLast
<1>9. NothingSealed'
  BY <1>2 DEF OutboundInv, NothingSealed
<1>10. WroteLast' = WroteLast
  <2>1. CASE Len(down) = 1
    <3>1. Len(down') = 0 /\ down' \in Seq(Frames)
      BY <1>1, <1>2, <1>6, <2>1
    <3>2. down' = <<>>
      BY <3>1, EmptySeq
    <3> QED BY <1>2, <1>3, <1>8, <2>1, <3>2 DEF WroteLast
  <2>2. CASE Len(down) # 1
    <3>1. down' # <<>> /\ Len(down') \in 1..Len(down') /\ Len(down') + 1 = Len(down)
      BY <1>3, <1>6, <2>2
    <3> QED BY <1>2, <1>6, <3>1 DEF WroteLast
  <2> QED BY <2>1, <2>2
<1>11. SenderInv'
  BY <1>2, <1>10 DEF OutboundInv, SenderInv, AllRefused, BlockOf
<1>12. ReceiverInv'
  BY <1>1, <1>2, <1>5, <1>8 DEF ReceiverInv, BlockOf, FirmwareIv
<1>13. RefusedInv'
  BY <1>2 DEF OutboundInv, RefusedInv
<1>14. FlightInv'
  <2>1. \A i \in 1..Len(down') : i + 1 \in 1..Len(down)
    BY <1>3, <1>6
  <2> QED BY <1>2, <1>6, <2>1 DEF OutboundInv, FlightInv, BlockOf
<1>15. GapInv'
  <2>1. down' # <<>> => ReadLast' < down'[1].n /\ AllRefused(ReadLast', down'[1].n)
    <3>1. SUFFICES ASSUME down' # <<>>
                   PROVE  f.n < down'[1].n /\ AllRefused(f.n, down'[1].n)
      BY <1>8
    <3>2. 1 \in 1..Len(down') /\ 1 \in 1..(Len(down) - 1)
      BY <1>1, <1>2, <1>3, <1>6, <3>1, EmptySeq
    <3>3. down'[1] = down[1 + 1]
      BY <1>6, <3>2
    <3> QED BY <1>3, <3>2, <3>3 DEF OutboundInv, GapInv
  <2>2. ASSUME NEW i \in 1..(Len(down') - 1)
        PROVE  down'[i].n < down'[i + 1].n /\ AllRefused(down'[i].n, down'[i + 1].n)
    <3>1. i + 1 \in 1..(Len(down) - 1) /\ i \in 1..Len(down') /\ i + 1 \in 1..Len(down')
      BY <1>3, <1>6
    <3>2. down'[i] = down[i + 1] /\ down'[i + 1] = down[(i + 1) + 1]
      BY <1>6, <3>1
    <3> QED BY <3>1, <3>2 DEF OutboundInv, GapInv
  <2> QED BY <1>2, <2>1, <2>2 DEF GapInv, AllRefused
<1>16. devIn = f.iv <=> (f.n - 1) \notin refused
  <2>1. ReadLast \in Nat /\ ReadLast < f.n /\ AllRefused(ReadLast, f.n) /\ ReadLast \notin refused
        /\ devIn = BlockOf(ReadLast)
    BY <1>1, <1>2, <1>3 DEF OutboundInv, GapInv, ReceiverInv
  <2>2. f.n - 1 \in Nat
    BY <1>1, <1>5
  <2>3. CASE ReadLast = f.n - 1
    BY <1>5, <2>1, <2>3
  <2>4. CASE ReadLast # f.n - 1
    <3>1. devIn # f.iv
      BY <1>5, <2>1, <2>2, <2>4, BlocksDiffer
    <3>2. ReadLast < f.n - 1 /\ f.n - 1 < f.n
      BY <1>5, <2>1, <2>2, <2>4
    <3>3. f.n - 1 \in refused
      BY <2>1, <2>2, <3>2 DEF AllRefused
    <3> QED BY <3>1, <3>3
  <2> QED BY <2>3, <2>4
<1>17. HistoryInv'
  <2>1. SUFFICES ASSUME NEW i \in 1..Len(downRead')
                 PROVE  /\ 1 <= downRead'[i].n /\ downRead'[i].n <= N
                        /\ downRead'[i].clean <=> (downRead'[i].n - 1) \notin refused
    BY <1>2 DEF HistoryInv, OutboundHeals
  <2>2. CASE i \in 1..Len(downRead)
    BY <1>7, <2>2 DEF OutboundInv, HistoryInv, OutboundHeals
  <2>3. CASE i = Len(downRead')
    BY <1>5, <1>7, <1>16, <2>3
  <2> QED BY <1>7, <2>2, <2>3
<1> QED BY <1>9, <1>11, <1>12, <1>13, <1>14, <1>15, <1>17 DEF OutboundInv

LEMMA OutboundStep ==
  ASSUME ChainTypeOK, OutboundInv, [ChainNext]_chainVars
  PROVE  OutboundInv'
<1>1. ASSUME NEW blocks \in 1..MaxBlocks, NEW body \in Plaintexts, DeviceSend(blocks, body)
      PROVE  OutboundInv'
  <2>1. sealed'["down"] = sealed["down"]
    BY <1>1 DEF DeviceSend, CountSeal, ChainTypeOK, Directions
  <2> QED BY <1>1, <2>1, OutboundKept DEF DeviceSend, serverVars
<1>2. ASSUME NEW blocks \in 0..1, NEW ragged \in BOOLEAN, DeviceNoise(blocks, ragged)
      PROVE  OutboundInv'
  <2>1. sealed'["down"] = sealed["down"]
    BY <1>2 DEF DeviceNoise, CountSeal, ChainTypeOK, Directions
  <2> QED BY <1>2, <2>1, OutboundKept DEF DeviceNoise, serverVars, deviceVars
<1>3. CASE DeviceReceive
  BY <1>3, OutboundReceive
<1>4. ASSUME NEW id \in 0..(IdSpace - 1), Hello(id)
      PROVE  OutboundInv'
  <2>1. /\ sealed["down"] = 0 /\ refused = {} /\ down = <<>> /\ downRead = <<>>
        /\ sealed \in [Directions -> Nat]
        /\ UNCHANGED <<devIn, refused, downRead>>
    BY <1>4 DEF Hello, OutboundInv, NothingSealed, ChainTypeOK, deviceVars
  <2>2. CASE phase' = "closed"
    BY <1>4, <2>2, OutboundKept DEF Hello, deviceVars
  <2>3. CASE phase' = "connected"
    <3> DEFINE out == Seal("down", IV0, 1, "msg", FALSE)
    <3>1. out.n = 1 /\ out.iv = IV0 /\ out.dir = "down"
      BY <2>1 DEF Seal
    <3>2. ivOut' = BlockOf(1)
      BY <1>4, <2>1, <2>3 DEF Hello, FirstBlock, Seal, BlockOf
    <3>3. sealed'["down"] = 1
      BY <1>4, <2>1, <2>3 DEF Hello, CountSeal, Directions
    <3>4. down' = Append(down, out)
      BY <1>4, <2>3 DEF Hello
    <3> HIDE DEF out
    <3>5. down' = <<out>>
      BY <2>1, <3>4
    <3>6. Len(down') = 1 /\ down'[1] = out /\ down' # <<>>
      BY <3>5
    <3>7. ReadLast' = 0 /\ WroteLast' = 1
      BY <2>1, <3>1, <3>6 DEF ReadLast, WroteLast
    <3>8. NothingSealed'
      BY <2>3 DEF NothingSealed
    <3>9. SenderInv'
      BY <3>2, <3>3, <3>7 DEF SenderInv, AllRefused
    <3>10. ReceiverInv' /\ RefusedInv'
      <4>1. ReadLast = 0
        BY <2>1 DEF ReadLast
      <4> QED BY <2>1, <3>3, <3>7, <4>1 DEF OutboundInv, ReceiverInv, RefusedInv, BlockOf
    <3>11. FlightInv'
      BY <2>1, <3>1, <3>3, <3>6 DEF FlightInv, BlockOf
    <3>12. GapInv'
      BY <3>1, <3>6, <3>7 DEF GapInv, AllRefused
    <3>13. HistoryInv'
      BY <2>1 DEF HistoryInv, OutboundHeals
    <3> QED BY <3>8, <3>9, <3>10, <3>11, <3>12, <3>13 DEF OutboundInv
  <2> QED BY <1>4, <2>2, <2>3 DEF Hello
<1>5. CASE HandleFrame
  <2>1. /\ phase \in {"connected", "ending"} /\ phase' \in {phase, "closed"}
        /\ UNCHANGED <<devIn, downRead, ids>>
    BY <1>5 DEF HandleFrame, deviceVars
  <2>2. CASE UNCHANGED <<ivOut, down, sealed, refused>>
    BY <1>5, <2>1, <2>2, OutboundKept DEF HandleFrame
  <2>3. CASE SendPlain(1)
    BY <2>1, <2>3, OutboundSend
  <2> QED BY <1>5, <2>2, <2>3 DEF HandleFrame
<1>6. ASSUME NEW messageId \in {Absent, 0}, NEW blocks \in {Absent} \cup 1..(MaxBlocks + 1),
             Send(messageId, blocks)
      PROVE  OutboundInv'
  <2>1. UNCHANGED <<phase, devIn, downRead>>
    BY <1>6 DEF Send, deviceVars
  <2>2. CASE HasKey /\ blocks # Absent
    <3>1. blocks \in Nat /\ blocks # 0
      BY <2>2, ChainAssumption
    <3>2. phase # "handshaking"
      BY <2>2 DEF HasKey, OutboundInv, NothingSealed
    <3> QED BY <1>6, <2>1, <2>2, <3>1, <3>2, OutboundSend DEF Send
  <2>3. CASE ~(HasKey /\ blocks # Absent)
    <3>1. UNCHANGED <<ivOut, down, sealed, refused>>
      BY <1>6, <2>3 DEF Send
    <3>2. CASE ids' = ids
      BY <2>1, <3>1, <3>2, OutboundKept
    <3>3. CASE ids' # ids
      <4>1. phase # "handshaking"
        BY <1>6, <3>3 DEF Send, HasKey, OutboundInv, NothingSealed
      <4> QED BY <2>1, <3>1, <4>1
              DEF OutboundInv, NothingSealed, SenderInv, ReceiverInv, RefusedInv, FlightInv,
                  GapInv, HistoryInv, OutboundHeals, AllRefused, WroteLast, ReadLast, BlockOf
    <3> QED BY <3>2, <3>3
  <2> QED BY <2>2, <2>3
<1>7. CASE Close
  BY <1>7, OutboundKept DEF Close, deviceVars, historyVars
<1>8. CASE UNCHANGED chainVars
  BY <1>8, OutboundKept DEF chainVars, serverVars, deviceVars, historyVars
<1> QED BY <1>1, <1>2, <1>3, <1>4, <1>5, <1>6, <1>7, <1>8 DEF ChainNext

\* The device misreads exactly the frames that follow a refused one, for any
\* number of frames, refusals and sends on a closed session.
THEOREM ChainOutboundHeals == ChainSpec => []OutboundHeals
<1>1. ChainInit => OutboundInv
  BY DEF ChainInit, OutboundInv, NothingSealed, SenderInv, ReceiverInv, RefusedInv, FlightInv,
         GapInv, HistoryInv, OutboundHeals, ReadLast, BlockOf, Directions
<1>2. ChainTypeOK /\ OutboundInv /\ [ChainNext]_chainVars => OutboundInv'
  BY OutboundStep
<1>3. OutboundInv => OutboundHeals
  BY DEF OutboundInv, HistoryInv
<1> QED BY <1>1, <1>2, <1>3, ChainTyped, PTL DEF ChainSpec

-----------------------------------------------------------------------------
(* Message ids.                                                             *)

\* Two ids that are d < IdSpace sends apart differ by d, or by d less IdSpace once
\* the counter has wrapped; the counter is the id of the send to come.
Apart(later, earlier, d) ==
  d < IdSpace => later - earlier = d \/ later - earlier = d - IdSpace

IdsInv ==
  /\ \A i \in 2..Len(ids) : Apart(sendCounter, ids[i], Len(ids) + 1 - i)
  /\ \A i, j \in 2..Len(ids) : i < j => Apart(ids[j], ids[i], j - i)

\* The mask is a subtraction at the end of the range.
LEMMA NextIdWraps ==
  ASSUME NEW c \in 0..(IdSpace - 1)
  PROVE  NextId(c) = IF c = IdSpace - 1 THEN 0 ELSE c + 1
<1>1. \A n \in Nat \ {0} : n % n = 0 /\ \A a \in 0..(n - 1) : a % n = a
  OBVIOUS
<1> QED BY <1>1, ChainAssumption DEF NextId

\* One more send: the distances grow by one.
LEMMA ApartGrows ==
  ASSUME NEW c \in 0..(IdSpace - 1), NEW e \in 0..(IdSpace - 1), NEW d \in Nat,
         Apart(c, e, d)
  PROVE  Apart(NextId(c), e, d + 1)
<1>1. NextId(c) = IF c = IdSpace - 1 THEN 0 ELSE c + 1
  BY NextIdWraps
<1> QED BY <1>1, ChainAssumption DEF Apart

\* Every step keeps the distances: only send() moves the counter, and it appends
\* the id it took.
LEMMA IdsStep ==
  ASSUME ChainTypeOK, IdsInv, [ChainNext]_chainVars
  PROVE  IdsInv'
<1>1. /\ ids \in Seq(0..(IdSpace - 1)) /\ sendCounter \in 0..(IdSpace - 1)
      /\ Len(ids) \in Nat
  BY LenProperties DEF ChainTypeOK
<1>2. CASE UNCHANGED <<ids, sendCounter>>
  BY <1>2 DEF IdsInv
<1>3. CASE Len(ids') < 2 /\ Len(ids') \in Nat
  BY <1>3 DEF IdsInv
<1>4. CASE ids' = Append(ids, sendCounter) /\ sendCounter' = NextId(sendCounter)
  <2>1. PICK n \in Nat : n = Len(ids)
    BY <1>1
  <2>2. /\ Len(ids') = n + 1 /\ ids'[n + 1] = sendCounter
        /\ \A i \in 1..n : ids'[i] = ids[i]
        /\ \A i \in 1..n : ids[i] \in 0..(IdSpace - 1)
    <3> DEFINE Id == 0..(IdSpace - 1)
    <3>1. ids \in Seq(Id) /\ sendCounter \in Id
      BY <1>1
    <3> HIDE DEF Id
    <3>2. /\ Len(ids') = n + 1 /\ ids'[n + 1] = sendCounter
          /\ \A i \in 1..n : ids'[i] = ids[i]
      BY <1>4, <2>1, <3>1, AppendProperties
    <3>3. \A i \in 1..n : ids[i] \in Id
      BY <2>1, <3>1, ElementOfSeq
    <3> QED BY <3>2, <3>3 DEF Id
  <2>3. /\ \A i \in 2..n : Apart(sendCounter, ids[i], n + 1 - i)
        /\ \A i, j \in 2..n : i < j => Apart(ids[j], ids[i], j - i)
    BY <2>1 DEF IdsInv
  <2>4. ASSUME NEW i \in 2..(n + 1)
        PROVE  Apart(sendCounter', ids'[i], n + 2 - i)
    <3>1. CASE i = n + 1
      <4>1. Apart(sendCounter, sendCounter, 0)
        BY <1>1 DEF Apart
      <4> QED BY <1>1, <1>4, <2>2, <3>1, <4>1, ApartGrows
    <3>2. CASE i \in 2..n
      <4>1. n + 1 - i \in Nat /\ (n + 1 - i) + 1 = n + 2 - i
        BY <3>2
      <4>2. Apart(NextId(sendCounter), ids[i], (n + 1 - i) + 1)
        BY <1>1, <2>2, <2>3, <3>2, <4>1, ApartGrows
      <4> QED BY <1>4, <2>2, <3>2, <4>1, <4>2
    <3> QED BY <3>1, <3>2
  <2>5. ASSUME NEW i \in 2..(n + 1), NEW j \in 2..(n + 1), i < j
        PROVE  Apart(ids'[j], ids'[i], j - i)
    <3>1. i \in 2..n /\ (j \in 2..n \/ j = n + 1)
      BY <2>5
    <3>2. CASE j \in 2..n
      BY <2>2, <2>3, <2>5, <3>1, <3>2
    <3>3. CASE j = n + 1
      BY <2>2, <2>3, <3>1, <3>3
    <3> QED BY <3>1, <3>2, <3>3
  <2>6. Len(ids') + 1 = n + 2
    BY <2>2
  <2>7. \A i \in 2..Len(ids') : Apart(sendCounter', ids'[i], Len(ids') + 1 - i)
    BY <2>2, <2>4, <2>6
  <2>8. \A i, j \in 2..Len(ids') : i < j => Apart(ids'[j], ids'[i], j - i)
    BY <2>2, <2>5
  <2> QED BY <2>7, <2>8 DEF IdsInv, Apart
<1>5. ASSUME NEW messageId \in {Absent, 0}, NEW blocks, Send(messageId, blocks)
      PROVE  IdsInv'
  <2>1. CASE messageId # Absent
    BY <1>2, <1>5, <2>1 DEF Send
  <2>2. CASE messageId = Absent /\ ~HasKey
    BY <1>3, <1>5, <2>2 DEF Send, HasKey
  <2>3. CASE messageId = Absent /\ HasKey
    BY <1>4, <1>5, <2>3 DEF Send
  <2> QED BY <2>1, <2>2, <2>3
<1>6. ASSUME NEW id \in 0..(IdSpace - 1), Hello(id)
      PROVE  IdsInv'
  <2>1. UNCHANGED <<ids, sendCounter>> \/ ids' = <<id>>
    BY <1>6 DEF Hello
  <2> QED BY <1>2, <1>3, <2>1
<1>7. CASE \/ \E blocks \in 1..MaxBlocks, body \in Plaintexts : DeviceSend(blocks, body)
           \/ \E blocks \in 0..1, ragged \in BOOLEAN : DeviceNoise(blocks, ragged)
           \/ DeviceReceive \/ HandleFrame \/ Close
  BY <1>2, <1>7
  DEF DeviceSend, DeviceNoise, DeviceReceive, HandleFrame, Close, serverVars, historyVars
<1>8. CASE UNCHANGED chainVars
  BY <1>2, <1>8 DEF chainVars, serverVars, historyVars
<1> QED BY <1>5, <1>6, <1>7, <1>8 DEF ChainNext

\* send() does not take an id again before it has taken all the others, however it
\* is interleaved with the handshake, sends under a given id, refused frames and
\* the session's end.
THEOREM ChainIdsFresh == ChainSpec => []IdsFresh
<1>1. ChainInit => IdsInv
  BY DEF ChainInit, IdsInv
<1>2. ChainTypeOK /\ IdsInv /\ [ChainNext]_chainVars => IdsInv'
  BY IdsStep
<1>3. ChainTypeOK /\ IdsInv => IdsFresh
  <2> SUFFICES ASSUME ChainTypeOK, IdsInv, NEW i \in 2..Len(ids), NEW j \in 2..Len(ids),
                      i < j, j - i < IdSpace
               PROVE  ids[i] # ids[j]
    BY DEF IdsFresh
  <2>1. ids[i] \in 0..(IdSpace - 1) /\ ids[j] \in 0..(IdSpace - 1)
    <3>1. ids \in Seq(0..(IdSpace - 1)) /\ Len(ids) \in Nat
      BY LenProperties DEF ChainTypeOK
    <3>2. i \in 1..Len(ids) /\ j \in 1..Len(ids)
      BY <3>1
    <3> QED BY <3>1, <3>2, ElementOfSeq
  <2>2. Apart(ids[j], ids[i], j - i)
    BY DEF IdsInv
  <2> QED BY <2>1, <2>2, ChainAssumption DEF Apart
<1> QED BY <1>1, <1>2, <1>3, ChainTyped, PTL DEF ChainSpec
=============================================================================
