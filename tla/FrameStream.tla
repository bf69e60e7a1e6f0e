---------------------------- MODULE FrameStream ----------------------------
(* What the framing of lib/chunking.js and lib/session.js promises, however  *)
(* TCP cuts the stream: an ordered, lossless pipe of frames.                 *)
EXTENDS Naturals, Sequences

CONSTANT Bodies

VARIABLES pipe,     \* frames sent and not yet handed over
          received  \* frames handed over

StreamInit == pipe = <<>> /\ received = <<>>

\* A device frame is written.
Put(p) == pipe' = Append(pipe, p) /\ UNCHANGED received

\* Some frames at the head of the pipe are handed over, in order.
Take ==
  \E k \in 1..Len(pipe) :
    /\ received' = received \o SubSeq(pipe, 1, k)
    /\ pipe' = SubSeq(pipe, k + 1, Len(pipe))

StreamNext == (\E p \in Bodies : Put(p)) \/ Take

StreamSpec == StreamInit /\ [][StreamNext]_<<pipe, received>>
=============================================================================
