----------------------------- MODULE SerialLink -----------------------------
(***************************************************************************)
(* The unit at one end of the RS-422 line and the parser at the other.     *)
(* The unit (external) sends the frames of Stream one after the other,     *)
(* each COBS-encoded and closed by a delimiter; the line may drop, repeat, *)
(* change or insert a byte, and the unit may restart in mid-frame.  The    *)
(* driver opens the port at any moment, so the first frame may be cut.     *)
(*                                                                         *)
(* `inFlight', `aligned', `clean' and `faults' are history variables.      *)
(***************************************************************************)
EXTENDS FrameParser

CONSTANTS
  Stream,       \* the frames the unit sends: [type, payload, bytes] each
  Corrupted(_), \* the values a byte may be changed to on the line
  MaxFaults     \* bound on the number of faults in a behaviour

VARIABLES
  next,         \* position in Stream of the frame to send next
  left,         \* the bytes of the current frame not sent yet
  inFlight,     \* frames begun whose fate is open, as the parser should hand them over
  clean,        \* no byte of the current frame met a fault
  aligned,      \* when the current frame began, the line had carried a delimiter last
  faults        \* faults so far

lineVars == <<next, left, inFlight, clean, aligned, faults>>
linkVars == <<vars, lineVars>>

\* The bytes of a frame on the line.
OnWire(f) == Append(CobsEncode(f.bytes), DELIM)

\* What the parser should hand over for it.
Sent(f) == [type |-> f.type, payload |-> f.payload]

\* A frame of the unit is the text of a reply, or as long as its type says, with
\* its checksum, and not to be taken for a reply.
IsReply(f) ==
  LET rsp == MatchCmdResponse(f.bytes)
  IN  rsp # 0 /\ Sent(f) = [type |-> CMD_RSP_TABLE[rsp].type, payload |-> <<>>]

IsData(f) ==
  /\ MatchCmdResponse(f.bytes) = 0
  /\ Len(f.bytes) >= FRAME_MIN_LEN
  /\ Len(f.bytes) = FRAME_LEN[FrameType(f.bytes) + 1]
  /\ CrcCheck(f.bytes)
  /\ Sent(f) = [type |-> FrameType(f.bytes), payload |-> f.bytes]

\* Encoded, a frame is made of bytes and fits the buffer of the parser.
ASSUME StreamAssumption ==
  /\ Len(Stream) \in Nat \ {0}
  /\ \A i \in 1 .. Len(Stream) :
       /\ Stream[i].bytes \in Seq(Byte)
       /\ COBS_ENCODE_DST_BUF_LEN_MAX(Len(Stream[i].bytes)) <= FRAME_MAX_LEN
       /\ IsReply(Stream[i]) \/ IsData(Stream[i])
  /\ 1 .. CodeMax \subseteq Byte
  /\ \A byte \in Byte : Corrupted(byte) \subseteq Byte
  /\ MaxFaults \in Nat

\* The parser just initialised; the unit is anywhere in its first frame.
LinkInit ==
  /\ Init
  /\ next = 2
  /\ \E k \in 1 .. Len(OnWire(Stream[1])) :
       left = SubSeq(OnWire(Stream[1]), k, Len(OnWire(Stream[1])))
  /\ inFlight = <<Sent(Stream[1])>>
  /\ clean = FALSE /\ aligned = FALSE
  /\ faults = 0

\* The line carries no byte to the parser.
NothingFed == called' = <<>> /\ UNCHANGED <<parserVars, framed, tail>>

\* The frame being sent.
Current == inFlight[Len(inFlight)]

\* The unit begins the next frame.
StartFrame ==
  /\ left = <<>> /\ next <= Len(Stream)
  /\ left' = OnWire(Stream[next])
  /\ inFlight' = Append(inFlight, Sent(Stream[next]))
  /\ next' = next + 1
  /\ clean' = TRUE
  /\ aligned' = (framed /\ tail = <<>>)
  /\ NothingFed
  /\ UNCHANGED faults

\* The line is done with the next n bytes of the frame.  A delimiter that
\* reached the parser settles the fate of every frame but one it splits.
Advance(n) ==
  /\ left' = SubSeq(left, n + 1, Len(left))
  /\ inFlight' = IF tail' # <<>> \/ ~framed' \/ inFlight = <<>> THEN inFlight
                 ELSE IF left' = <<>> \/ called' = <<Current>> THEN <<>>
                 ELSE <<Current>>

\* A byte travels as it was sent.
Transmit ==
  /\ left # <<>>
  /\ FeedByte(Head(left))
  /\ Advance(1)
  /\ UNCHANGED <<next, clean, aligned, faults>>

Fault == /\ faults < MaxFaults
         /\ faults' = faults + 1
         /\ clean' = FALSE
         /\ UNCHANGED <<next, aligned>>

DropByte == /\ Fault
            /\ left # <<>>
            /\ NothingFed
            /\ Advance(1)

ChangeByte == /\ Fault
              /\ left # <<>>
              /\ \E byte \in Corrupted(Head(left)) : FeedByte(byte)
              /\ Advance(1)

\* A byte is inserted: a copy of the next one, or a delimiter out of noise.
InsertByte == /\ Fault
              /\ left # <<>>
              /\ \E byte \in {Head(left), DELIM} : FeedByte(byte)
              /\ Advance(0)

\* The unit restarts: the rest of the frame is never sent.
Restart == /\ Fault
           /\ left # <<>>
           /\ NothingFed
           /\ Advance(Len(left))

\* The stream has been sent.
Quiet == left = <<>> /\ next > Len(Stream) /\ UNCHANGED linkVars

LinkNext == \/ StartFrame \/ Transmit
            \/ DropByte \/ ChangeByte \/ InsertByte \/ Restart
            \/ Quiet

LinkSpec == LinkInit /\ [][LinkNext]_linkVars

-----------------------------------------------------------------------------
(* Properties                                                              *)

\* A frame that no fault touched and that followed a delimiter is delivered by
\* its own delimiter, as it was sent, whatever went wrong on the line before:
\* a lost delimiter, an overflow or a restart costs the frames it hit and the
\* parser is in step again with the next one.
CleanFrameDelivered ==
  [][Transmit /\ Len(left) = 1 /\ clean /\ aligned
       => called' = <<Current>>]_linkVars

Channel == INSTANCE FrameChannel WITH
             Frame   <- {Sent(Stream[i]) : i \in 1 .. Len(Stream)},
             pending <- inFlight,
             got     <- called

\* The line and the parser together are a channel that only loses frames: the
\* callback never sees a frame that was not sent, a mix of two, an old one
\* again, or one out of order.
OnlyLosesFrames == Channel!ChannelSpec
=============================================================================
