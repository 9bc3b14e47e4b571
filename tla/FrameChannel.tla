---------------------------- MODULE FrameChannel ----------------------------
(***************************************************************************)
(* What a serial link and the parser at its end promise together: frames   *)
(* may be lost, and that is all.  What is delivered was sent, as it was    *)
(* sent, at most once, and in the order it was sent.                       *)
(***************************************************************************)
EXTENDS Integers, Sequences

CONSTANT Frame        \* the frames the sender may send

VARIABLES pending,    \* frames on their way, oldest first
          got         \* what the last step delivered: <<>> or one frame

channelVars == <<pending, got>>

ChannelInit == pending \in Seq(Frame) /\ Len(pending) <= 1 /\ got = <<>>

Send == \E f \in Frame : pending' = Append(pending, f) /\ got' = <<>>

\* The oldest frames get lost, the others stay on their way.
Lose == \E n \in 1 .. Len(pending) :
          pending' = SubSeq(pending, n + 1, Len(pending)) /\ got' = <<>>

\* A frame arrives; those before it are lost.
Deliver == \E n \in 1 .. Len(pending) :
             /\ got' = <<pending[n]>>
             /\ pending' = SubSeq(pending, n + 1, Len(pending))

\* Nothing arrives and nothing is lost.
Idle == pending' = pending /\ got' = <<>>

ChannelNext == Send \/ Lose \/ Deliver \/ Idle

ChannelSpec == ChannelInit /\ [][ChannelNext]_channelVars
=============================================================================
