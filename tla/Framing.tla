------------------------------ MODULE Framing ------------------------------
(***************************************************************************)
(* Framing at byte level.  The device writes [len_hi][len_lo][sync][body]; *)
(* TCP hands the bytes over in chunks that respect no boundary.  The same  *)
(* chunks go to the two readers the library has: a session's readFrame     *)
(* loop over its ByteQueue (lib/session.js), which runs as a chain of      *)
(* promises, and FrameReader.feed (lib/chunking.js), one synchronous loop. *)
(***************************************************************************)
EXTENDS Integers, Sequences

CONSTANTS
  Base,       \* number of values of a byte (256)
  Bodies,     \* frame bodies, sequences of bytes
  MaxFrames,  \* bound: frames the device writes
  Unset       \* no value

Byte == 0..(Base - 1)

ASSUME FramingAssumption ==
  /\ Base \in Nat \ {0, 1}
  /\ Bodies \subseteq Seq(Byte)
  /\ \A p \in Bodies : Len(p) < Base * Base
  /\ MaxFrames \in Nat
  /\ Unset \notin Nat /\ Unset \notin Seq(Seq(Byte))

VARIABLES
  sent,      \* history: the bodies the device wrote
  wire,      \* bytes in the network
  open,      \* the socket is open
  buf,       \* ByteQueue._buf
  closed,    \* ByteQueue._closed
  waiter,    \* ByteQueue._waiters has one entry at most: its want, or Unset
  outcome,   \* how the read() readFrame awaits has settled, or Unset
  reading,   \* which await of readFrame is pending: "head", "body", or "failed"
  frames,    \* history: the bodies readFrame returned
  rbuf,      \* FrameReader._buf
  rframes    \* history: the bodies feed returned

queueVars == <<buf, closed, waiter, outcome, reading, frames>>
readerVars == <<rbuf, rframes>>
framingVars == <<sent, wire, open, queueVars, readerVars>>

Sync == Base - 1

\* How a read() settles: with bytes, or rejected with `socket closed'.
Resolved(b) == <<b>>
Rejected == <<>>

\* run() has called readFrame, which waits for its three bytes.
FramingInit ==
  /\ sent = <<>> /\ wire = <<>> /\ open = TRUE
  /\ buf = <<>> /\ closed = FALSE /\ waiter = 3 /\ outcome = Unset
  /\ reading = "head" /\ frames = <<>>
  /\ rbuf = <<>> /\ rframes = <<>>

-----------------------------------------------------------------------------
First(s, n) == SubSeq(s, 1, n)
Drop(s, n) == SubSeq(s, n + 1, Len(s))

\* encodeDeviceFrame.
encodeDeviceFrame(payload) ==
  <<Len(payload) \div Base, Len(payload) % Base, Sync>> \o payload

\* Plausible bug: the length is read little-endian.
readLengthLE(b) == b[2] * Base + b[1]

\* readUInt16BE(0)
readLength(b) == b[1] * Base + b[2]

\* Plausible bug: a read must leave a byte behind, so the last one waits.
EnoughPlusOne(b, want) == Len(b) > want

\* this._buf.length >= w.want
Enough(b, want) == Len(b) >= want

\* _drain with one waiter w over buffer b: what it settles with, what stays.
Drain(b, w, isClosed) ==
  IF w # Unset /\ Enough(b, w)
  THEN /\ outcome' = Resolved(First(b, w)) /\ buf' = Drop(b, w) /\ waiter' = Unset
  ELSE IF w # Unset /\ isClosed
  THEN /\ outcome' = Rejected /\ buf' = b /\ waiter' = Unset
  ELSE buf' = b /\ waiter' = w /\ outcome' = Unset

\* FrameReader.feed's loop: the bodies in b and the bytes left over.
Feed[b \in Seq(Byte)] ==
  IF Len(b) >= 3 /\ Len(b) >= 3 + readLength(b)
  THEN LET rest == Feed[Drop(b, 3 + readLength(b))] IN
       [out |-> <<SubSeq(b, 4, 3 + readLength(b))>> \o rest.out, left |-> rest.left]
  ELSE [out |-> <<>>, left |-> b]

-----------------------------------------------------------------------------
\* The device writes a frame.
DeviceWrite(p) ==
  /\ open /\ Len(sent) < MaxFrames
  /\ sent' = Append(sent, p)
  /\ wire' = wire \o encodeDeviceFrame(p)
  /\ UNCHANGED <<open, queueVars, readerVars>>

\* A `data' event with n bytes.  Microtasks run before the next event, so the
\* promise chain is never left with a settled read.
Data(n) ==
  LET chunk == First(wire, n) IN
  /\ open /\ outcome = Unset
  /\ wire' = Drop(wire, n)
  /\ Drain(buf \o chunk, waiter, closed)
  /\ rbuf' = Feed[rbuf \o chunk].left
  /\ rframes' = rframes \o Feed[rbuf \o chunk].out
  /\ UNCHANGED <<sent, open, closed, reading, frames>>

\* The socket closes; the bytes not yet handed over are lost.
SocketClose ==
  /\ open /\ outcome = Unset
  /\ open' = FALSE /\ closed' = TRUE
  /\ Drain(buf, waiter, TRUE)
  /\ wire' = <<>>
  /\ UNCHANGED <<sent, reading, frames, readerVars>>

\* The continuation of an await in readFrame and its loop: after a header the
\* body is read, after a body the frame is handed over and the next header read.
Continue ==
  /\ outcome # Unset
  /\ IF outcome = Rejected
     THEN /\ reading' = "failed"
          /\ outcome' = Unset
          /\ UNCHANGED <<buf, waiter, frames>>
     ELSE IF reading = "head"
     THEN /\ reading' = "body"
          /\ Drain(buf, readLength(outcome[1]), closed)
          /\ UNCHANGED frames
     ELSE /\ reading' = "head"
          /\ frames' = Append(frames, outcome[1])
          /\ Drain(buf, 3, closed)
  /\ UNCHANGED <<sent, wire, open, closed, readerVars>>

FramingNext ==
  \/ \E p \in Bodies : DeviceWrite(p)
  \/ \E n \in 1..Len(wire) : Data(n)
  \/ SocketClose
  \/ Continue

\* The continuations of settled promises run; bytes in the network arrive or the
\* connection is lost (at the latest when the session's idle timer fires).
FramingFairness ==
  /\ WF_framingVars(Continue)
  /\ WF_framingVars(wire # <<>> /\ (SocketClose \/ \E n \in 1..Len(wire) : Data(n)))

FramingSpec == FramingInit /\ [][FramingNext]_framingVars /\ FramingFairness

-----------------------------------------------------------------------------
\* Whenever the promise chain is at rest the session has handed over exactly
\* the frames FrameReader has, wherever the chunks were cut: no complete frame
\* waits in the ByteQueue for bytes of the next one.
ReadersAgree == outcome = Unset => frames = rframes

\* Every frame written reaches the session unless the connection is lost, and a
\* read that waits when it is lost is not left waiting.
FramesArrive ==
  \A k \in 1..MaxFrames :
    Len(sent) >= k ~> (Len(frames) >= k \/ reading = "failed")

Stream == INSTANCE FrameStream WITH
  pipe <- SubSeq(sent, Len(frames) + 1, Len(sent)),
  received <- frames

\* The session's reader implements the ordered, lossless pipe.
ImplementsStream == Stream!StreamSpec
=============================================================================
