-------------------------- MODULE FrameParserProofs --------------------------
(***************************************************************************)
(* Proofs about the byte-stream parser and the line it is fed from, for    *)
(* every set of bytes, buffer size, frame table, checksum and stream.      *)
(* TypeOK and BufferHoldsChunk together are inductive; that every chunk is *)
(* accounted for, and that the parser and oscp_frame_decode agree, follows *)
(* from them.  On the line, a frame in step is cut in two (InStep): what   *)
(* the parser has of it and what is still to come.                         *)
(***************************************************************************)
EXTENDS SerialLink, CobsProofs, TLAPS

IInv == TypeOK /\ BufferHoldsChunk

\* Closing a buffer counts one of the five counters.
LEMMA VerdictCounts ==
  ASSUME NEW chunk
  PROVE  Verdict(chunk).counter \in Counter
BY DEF Verdict, Reject, Accept, Counter

\* Counting wraps around instead of leaving the range of a uint32_t.
LEMMA BumpedType ==
  ASSUME stats \in [Counter -> 0 .. StatMax], NEW c \in Counter
  PROVE  Bumped(c) \in [Counter -> 0 .. StatMax]
BY ParserAssumption DEF Bumped

\* Fresh counters are zero, which is in range.
LEMMA NoStatsType == NoStats \in [Counter -> 0 .. StatMax]
BY ParserAssumption DEF NoStats

\* An empty buffer is a buffer that fits.
LEMMA EmptyBuffer ==
  <<>> \in Seq(Byte \ {DELIM}) /\ Len(<<>>) <= FRAME_MAX_LEN
<1>1. Len(<<>>) = 0
  OBVIOUS
<1>. QED
  BY <1>1, ParserAssumption

\* The parser as oscp_parser_init leaves it satisfies the invariant.
LEMMA InitInv == Init => IInv
<1>. SUFFICES ASSUME Init PROVE IInv
  OBVIOUS
<1>1. Len(<<>>) <= FRAME_MAX_LEN + 1
  BY EmptyBuffer, ParserAssumption
<1>2. TypeOK
  BY <1>1, EmptyBuffer, NoStatsType DEF Init, TypeOK
<1>3. BufferHoldsChunk
  BY DEF Init, BufferHoldsChunk
<1>. QED
  BY <1>2, <1>3 DEF IInv

\* A fed delimiter re-establishes the invariant from any state.
LEMMA DelimiterInv ==
  ASSUME IInv, FeedDelimiter, Remember(DELIM)
  PROVE  IInv'
<1>1. stats' \in [Counter -> 0 .. StatMax]
  BY VerdictCounts, BumpedType DEF IInv, TypeOK, FeedDelimiter, Bump
<1>2. buf' = <<>> /\ synced' = TRUE /\ framed' = TRUE /\ tail' = <<>>
  BY DEF FeedDelimiter, Remember, DELIM
<1>. QED
  BY <1>1, <1>2, ParserAssumption DEF IInv, TypeOK, BufferHoldsChunk

\* A fed data byte preserves the invariant, whether it is dropped, appended or
\* finds the buffer full.
LEMMA DataInv ==
  ASSUME IInv, NEW byte \in Byte \ {DELIM}, FeedData(byte), Remember(byte)
  PROVE  IInv'
<1>. USE ParserAssumption DEF IInv
<1>1. /\ framed' = framed
      /\ tail' = IF Len(tail) > FRAME_MAX_LEN THEN tail ELSE Append(tail, byte)
  BY DEF Remember
<1>2. Len(Append(tail, byte)) = Len(tail) + 1 /\ Append(tail, byte) \in Seq(Byte \ {DELIM})
  BY DEF TypeOK
<1>3. tail' \in Seq(Byte \ {DELIM}) /\ Len(tail') <= FRAME_MAX_LEN + 1
  BY <1>1, <1>2 DEF TypeOK
<1>4. CASE ~synced /\ UNCHANGED parserVars
  <2>1. buf' = buf /\ synced' = synced /\ stats' = stats
    BY <1>4 DEF parserVars
  <2>2. ~(framed' /\ Len(tail') <= FRAME_MAX_LEN)
    BY <1>1, <1>2, <1>4 DEF TypeOK, BufferHoldsChunk
  <2>. QED
    BY <1>1, <1>3, <1>4, <2>1, <2>2 DEF TypeOK, BufferHoldsChunk
<1>5. CASE /\ synced /\ Len(buf) >= FRAME_MAX_LEN
           /\ Bump("overflows") /\ buf' = <<>> /\ synced' = FALSE
  <2>1. stats' \in [Counter -> 0 .. StatMax]
    BY <1>5, BumpedType DEF TypeOK, Bump, Counter
  <2>2. Len(tail') > FRAME_MAX_LEN
    BY <1>1, <1>2, <1>5 DEF TypeOK, BufferHoldsChunk
  <2>3. TypeOK'
    BY <1>1, <1>3, <1>5, <2>1, EmptyBuffer DEF TypeOK
  <2>4. BufferHoldsChunk'
    BY <1>5, <2>2 DEF BufferHoldsChunk
  <2>. QED
    BY <2>3, <2>4
<1>6. CASE /\ synced /\ Len(buf) < FRAME_MAX_LEN
           /\ buf' = Append(buf, byte) /\ UNCHANGED <<synced, stats>>
  <2>1. buf = tail /\ tail' = Append(tail, byte) /\ Len(tail') <= FRAME_MAX_LEN
    BY <1>1, <1>2, <1>6 DEF TypeOK, BufferHoldsChunk
  <2>. QED
    BY <1>1, <1>3, <1>6, <2>1 DEF TypeOK, BufferHoldsChunk
<1>. QED
  BY <1>4, <1>5, <1>6 DEF FeedData

\* Every step of the parser preserves the invariant.
LEMMA StepInv == IInv /\ [Next]_vars => IInv'
<1>. SUFFICES ASSUME IInv, [Next]_vars PROVE IInv'
  OBVIOUS
<1>1. ASSUME NEW byte \in Byte, FeedByte(byte) PROVE IInv'
  <2>1. CASE byte = DELIM
    BY <1>1, <2>1, DelimiterInv DEF FeedByte, Feed
  <2>2. CASE byte # DELIM
    BY <1>1, <2>2, DataInv DEF FeedByte, Feed
  <2>. QED
    BY <2>1, <2>2
<1>2. CASE Reset
  <2>1. TypeOK'
    <3>1. Len(<<>>) <= FRAME_MAX_LEN + 1
      BY EmptyBuffer, ParserAssumption
    <3>. QED
      BY <1>2, <3>1, EmptyBuffer DEF Reset, IInv, TypeOK
  <2>2. BufferHoldsChunk'
    BY <1>2 DEF Reset, BufferHoldsChunk
  <2>. QED
    BY <2>1, <2>2 DEF IInv
<1>3. CASE StatsReset
  BY <1>3, NoStatsType DEF StatsReset, IInv, TypeOK, BufferHoldsChunk
<1>4. CASE UNCHANGED vars
  BY <1>4 DEF vars, IInv, TypeOK, BufferHoldsChunk
<1>. QED
  BY <1>1, <1>2, <1>3, <1>4 DEF Next

\* The parser never writes past its buffer and its state keeps its shape.
THEOREM TypeCorrect == Spec => []TypeOK
<1>1. IInv => TypeOK
  BY DEF IInv
<1>. QED
  BY <1>1, InitInv, StepInv, PTL DEF Spec

\* The buffer is always exactly the bytes since the last delimiter.
THEOREM BufferCorrect == Spec => []BufferHoldsChunk
<1>1. IInv => BufferHoldsChunk
  BY DEF IInv
<1>. QED
  BY <1>1, InitInv, StepInv, PTL DEF Spec

\* A delimiter judges exactly the bytes since the delimiter before it.
LEMMA DelimiterAccounts ==
  ASSUME IInv, FeedDelimiter, Remember(DELIM)
  PROVE  ChunkAccounted
<1>. USE DEF IInv
<1>1. framed' = TRUE /\ tail' = <<>>
  BY DEF Remember, DELIM
<1>2. ~ChunkTooLong
  BY <1>1, EmptyBuffer DEF ChunkTooLong
<1>3. CASE synced /\ buf # <<>>
  <2>1. buf = tail /\ framed /\ Len(tail) <= FRAME_MAX_LEN /\ tail # <<>>
    BY <1>3 DEF BufferHoldsChunk
  <2>2. called' = Verdict(buf).frames /\ stats' = Bumped(Verdict(buf).counter)
    BY <1>3 DEF FeedDelimiter, Bump
  <2>. QED
    BY <1>1, <2>1, <2>2 DEF ChunkAccounted, ChunkClosed
<1>4. CASE ~(synced /\ buf # <<>>)
  <2>1. ~(ChunkClosed /\ Len(tail) <= FRAME_MAX_LEN)
    BY <1>4 DEF ChunkClosed, BufferHoldsChunk
  <2>2. called' = <<>> /\ stats' = stats
    BY <1>4 DEF FeedDelimiter
  <2>. QED
    BY <1>2, <2>1, <2>2 DEF ChunkAccounted
<1>. QED
  BY <1>3, <1>4

\* A data byte counts only when it is the first that does not fit.
LEMMA DataAccounts ==
  ASSUME IInv, NEW byte \in Byte \ {DELIM}, FeedData(byte), Remember(byte)
  PROVE  ChunkAccounted
<1>. USE ParserAssumption DEF IInv
<1>1. /\ framed' = framed
      /\ tail' = IF Len(tail) > FRAME_MAX_LEN THEN tail ELSE Append(tail, byte)
  BY DEF Remember
<1>2. Len(Append(tail, byte)) = Len(tail) + 1 /\ Len(tail) \in Nat
  BY DEF TypeOK
<1>3. ~ChunkClosed
  <2>1. Len(Append(tail, byte)) # Len(<<>>)
    BY <1>2
  <2>. QED
    BY <1>1, <2>1 DEF ChunkClosed
<1>4. called' = <<>>
  BY DEF FeedData
<1>5. CASE ~synced /\ UNCHANGED parserVars
  <2>1. ~ChunkTooLong
    BY <1>1, <1>2, <1>5 DEF ChunkTooLong, BufferHoldsChunk, TypeOK
  <2>. QED
    BY <1>3, <1>4, <1>5, <2>1 DEF ChunkAccounted, parserVars
<1>6. CASE /\ synced /\ Len(buf) >= FRAME_MAX_LEN
           /\ Bump("overflows") /\ buf' = <<>> /\ synced' = FALSE
  <2>1. ChunkTooLong
    BY <1>1, <1>2, <1>6 DEF ChunkTooLong, BufferHoldsChunk, TypeOK
  <2>. QED
    BY <1>3, <1>4, <1>6, <2>1 DEF ChunkAccounted, Bump
<1>7. CASE /\ synced /\ Len(buf) < FRAME_MAX_LEN
           /\ buf' = Append(buf, byte) /\ UNCHANGED <<synced, stats>>
  <2>1. ~ChunkTooLong
    BY <1>1, <1>2, <1>7 DEF ChunkTooLong, BufferHoldsChunk, TypeOK
  <2>. QED
    BY <1>3, <1>4, <1>7, <2>1 DEF ChunkAccounted
<1>. QED
  BY <1>5, <1>6, <1>7 DEF FeedData

\* Every chunk between two delimiters is judged whole and counted exactly once.
THEOREM AccountingCorrect == Spec => EveryChunkAccounted
<1>1. IInv /\ [Next]_vars => [ChunkAccounted]_vars
  <2>. SUFFICES ASSUME IInv, Next PROVE ChunkAccounted
    OBVIOUS
  <2>1. ASSUME NEW byte \in Byte, FeedByte(byte) PROVE ChunkAccounted
    <3>1. CASE byte = DELIM
      BY <2>1, <3>1, DelimiterAccounts DEF FeedByte, Feed
    <3>2. CASE byte # DELIM
      BY <2>1, <3>2, DataAccounts DEF FeedByte, Feed
    <3>. QED
      BY <3>1, <3>2
  <2>2. CASE Reset
    BY <2>2, EmptyBuffer DEF Reset, ChunkAccounted, ChunkClosed, ChunkTooLong
  <2>3. CASE StatsReset
    BY <2>3 DEF StatsReset, ChunkAccounted, ChunkClosed, ChunkTooLong, IInv, TypeOK
  <2>. QED
    BY <2>1, <2>2, <2>3 DEF Next
<1>. QED
  BY <1>1, InitInv, StepInv, PTL DEF Spec, EveryChunkAccounted

-----------------------------------------------------------------------------
(* The two decoders of the library                                         *)

\* The decoder's bytes are bytes, so that their type is found in the table.
LEMMA DecodedFrame ==
  ASSUME NEW chunk \in Seq(Byte)
  PROVE  CobsDecode(chunk).out \in Seq(Byte)
<1>1. CobsDecode(chunk) \in Decoded(Byte)
  BY ParserAssumption, DecodedShape
<1>. QED
  BY <1>1 DEF Decoded

\* The frame lengths are numbers, whatever the first byte.
LEMMA FrameLenType ==
  ASSUME NEW d \in Seq(Byte), d # <<>>
  PROVE  FRAME_LEN[FrameType(d) + 1] \in Nat
<1>1. d[1] \in Nat
  <2>1. 1 \in 1 .. Len(d)
    BY EmptySeq
  <2>. QED
    BY <2>1, ElementOfSeq, ParserAssumption
<1>2. Len(FRAME_LEN) \in Nat \ {0}
  BY ParserAssumption, EmptySeq
<1>3. d[1] % Len(FRAME_LEN) \in 0 .. Len(FRAME_LEN) - 1
  BY <1>1, <1>2
<1>4. FrameType(d) + 1 \in 1 .. Len(FRAME_LEN)
  BY <1>2, <1>3 DEF FrameType
<1>. QED
  BY <1>4, ParserAssumption, ElementOfSeq

\* A padded message begins with the frame.
LEMMA Padded ==
  ASSUME NEW d \in Seq(Byte), d # <<>>, NEW pad \in Seq(Byte)
  PROVE  /\ d \o pad # <<>> /\ Len(d \o pad) >= Len(d)
         /\ FrameType(d \o pad) = FrameType(d)
         /\ SubSeq(d \o pad, 1, Len(d)) = d
<1>1. /\ d \o pad \in Seq(Byte) /\ Len(d \o pad) = Len(d) + Len(pad)
      /\ \A k \in 1 .. Len(d) : (d \o pad)[k] = d[k]
  BY ConcatProperties
<1>2. Len(d) \in Nat \ {0} /\ Len(pad) \in Nat
  BY EmptySeq
<1>3. (d \o pad)[1] = d[1]
  BY <1>1, <1>2
<1>4. SubSeq(d \o pad, 1, Len(d)) = d
  <2>1. PICK n \in 1 .. Len(d) : n = Len(d)
    BY <1>2
  <2>2. SubSeq(d \o pad, 1, n) = SubSeq(d, 1, n)
    BY <2>1, <1>2, SubSeqOfConcat1
  <2>3. SubSeq(d, 1, Len(d)) = d
    BY SubSeqFull
  <2>. QED
    BY <2>1, <2>2, <2>3
<1>5. d \o pad # <<>>
  BY <1>1, <1>2, EmptySeq
<1>6. Len(d \o pad) >= Len(d)
  BY <1>1, <1>2
<1>. QED
  BY <1>3, <1>4, <1>5, <1>6 DEF FrameType

\* A chunk that decodes to d and is no reply, judged by the parser, and the
\* bytes of d, padded or not, decoded as a message.
LEMMA SameFrames ==
  ASSUME NEW chunk \in Seq(Byte), CobsDecode(chunk).ok,
         NEW d \in Seq(Byte), d = CobsDecode(chunk).out,
         Len(d) >= FRAME_MIN_LEN, MatchCmdResponse(d) = 0,
         NEW expected \in Nat, expected = FRAME_LEN[FrameType(d) + 1],
         NEW pad \in Seq(Byte)
  PROVE  \/ Len(d) = expected /\ FrameDecode(d \o pad) = Verdict(chunk).frames
         \/ Len(d) < expected /\ FrameDecode(d) = Verdict(chunk).frames
         \/ Len(d) > expected /\ Verdict(chunk).frames = <<>>
<1>1. d # <<>> /\ Len(d) \in Nat /\ ~(Len(d) < FRAME_MIN_LEN)
  BY ParserAssumption, EmptySeq
<1>2. Verdict(chunk).frames =
        IF Len(d) # expected \/ ~CrcCheck(d) THEN <<>>
        ELSE <<[type |-> FrameType(d), payload |-> d]>>
  <2>1. Verdict(chunk) =
          IF Len(d) # expected THEN Reject("framing_errors")
          ELSE IF ~CrcCheck(d) THEN Reject("crc_errors")
          ELSE Accept([type |-> FrameType(d), payload |-> d])
    BY <1>1 DEF Verdict
  <2>. QED
    BY <2>1 DEF Reject, Accept
<1>3. CASE Len(d) = expected
  <2>1. /\ d \o pad # <<>> /\ ~(Len(d \o pad) < expected)
        /\ FrameType(d \o pad) = FrameType(d)
        /\ SubSeq(d \o pad, 1, expected) = d
    <3>1. Len(d \o pad) \in Nat
      BY ConcatProperties
    <3>2. /\ d \o pad # <<>> /\ Len(d \o pad) >= Len(d)
          /\ FrameType(d \o pad) = FrameType(d) /\ SubSeq(d \o pad, 1, Len(d)) = d
      BY <1>1, Padded
    <3>. QED
      BY <1>3, <3>1, <3>2
  <2>2. FrameDecode(d \o pad) =
          IF ~CrcCheck(d) THEN <<>> ELSE <<[type |-> FrameType(d), payload |-> d]>>
    BY <2>1 DEF FrameDecode
  <2>. QED
    BY <1>2, <1>3, <2>2
<1>4. CASE Len(d) < expected
  <2>1. FrameDecode(d) = <<>>
    BY <1>4 DEF FrameDecode
  <2>. QED
    BY <1>1, <1>2, <1>4, <2>1
<1>5. CASE Len(d) > expected
  BY <1>1, <1>2, <1>5
<1>. QED
  BY <1>1, <1>3, <1>4, <1>5

\* What the parser makes of a data frame on the line, oscp_frame_decode makes
\* of the message with the same bytes, padded or not: for every frame table,
\* checksum and buffer size.
THEOREM TransportsCorrect == Spec => TransportsAgree
<1>1. IInv /\ [ChunkAccounted]_vars => [SameVerdictPadded]_vars
  <2>. SUFFICES ASSUME IInv, ChunkAccounted,
                       ChunkClosed, Len(tail) <= FRAME_MAX_LEN, CobsDecode(tail).ok,
                       Len(CobsDecode(tail).out) >= FRAME_MIN_LEN,
                       MatchCmdResponse(CobsDecode(tail).out) = 0,
                       NEW pad \in Padding
                PROVE  LET d == CobsDecode(tail).out
                           expected == FRAME_LEN[FrameType(d) + 1]
                       IN  \/ Len(d) = expected /\ FrameDecode(d \o pad) = called'
                           \/ Len(d) < expected /\ FrameDecode(d) = called'
                           \/ Len(d) > expected /\ called' = <<>>
    BY DEF SameVerdictPadded
  <2>1. called' = Verdict(tail).frames
    BY DEF ChunkAccounted
  <2>2. tail \in Seq(Byte)
    <3>1. tail \in Seq(Byte \ {DELIM})
      BY DEF IInv, TypeOK
    <3>. QED
      BY <3>1, SeqMonotonic
  <2>3. PICK d \in Seq(Byte) : d = CobsDecode(tail).out
    BY <2>2, DecodedFrame
  <2>4. pad \in Seq(Byte)
    <3>1. <<>> \in Seq(Byte) /\ \A b \in Byte : <<b>> \in Seq(Byte)
      BY EmptySeq
    <3>2. pad = <<>> \/ \E b \in Byte : pad = <<b>>
      BY Zenon DEF Padding
    <3>. QED
      BY <3>1, <3>2, Zenon
  <2>5. d # <<>>
    BY <2>3, EmptySeq, ParserAssumption
  <2>6. PICK expected \in Nat : expected = FRAME_LEN[FrameType(d) + 1]
    BY <2>5, FrameLenType
  <2>7. \/ Len(d) = expected /\ FrameDecode(d \o pad) = Verdict(tail).frames
        \/ Len(d) < expected /\ FrameDecode(d) = Verdict(tail).frames
        \/ Len(d) > expected /\ Verdict(tail).frames = <<>>
    BY <2>2, <2>3, <2>4, <2>6, SameFrames
  <2>. QED
    BY <2>1, <2>3, <2>6, <2>7
<1>. QED
  BY <1>1, InitInv, StepInv, AccountingCorrect, PTL DEF Spec, TransportsAgree, EveryChunkAccounted

-----------------------------------------------------------------------------
(* The line                                                                *)

Message == {Sent(Stream[i]) : i \in 1 .. Len(Stream)}

LineType ==
  /\ left \in Seq(Byte)
  /\ next \in 2 .. Len(Stream) + 1
  /\ inFlight \in Seq(Message)
  /\ clean \in BOOLEAN /\ aligned \in BOOLEAN
  /\ faults \in 0 .. MaxFaults

\* As long as the fate of the frame on the line is open, it is the last in flight.
FateOpen == left # <<>> /\ inFlight # <<>> => Current = Sent(Stream[next - 1])

\* t and what is left on the line are together a frame and its delimiter.
Cut(t, rest, e) == t \o rest = Append(e, DELIM)

\* A frame that no fault touched and that followed a delimiter is cut in two:
\* what the parser has and what is still on the line.
InStep ==
  left # <<>> /\ clean /\ aligned
    => framed /\ inFlight # <<>> /\ Cut(tail, left, CobsEncode(Stream[next - 1].bytes))

LinkInv == IInv /\ LineType /\ FateOpen /\ InStep

\* A frame of the stream, encoded, has no zero, is not empty and fits the buffer.
LEMMA StreamEncoded ==
  ASSUME NEW i \in 1 .. Len(Stream)
  PROVE  /\ CobsEncode(Stream[i].bytes) \in Seq(Byte \ {DELIM})
         /\ CobsEncode(Stream[i].bytes) # <<>>
         /\ Len(CobsEncode(Stream[i].bytes)) <= FRAME_MAX_LEN
         /\ OnWire(Stream[i]) \in Seq(Byte)
<1>1. PICK s \in Seq(Byte) : s = Stream[i].bytes
  BY StreamAssumption
<1>2. /\ CobsEncode(s) \in Seq(Coded(Byte)) /\ CobsEncode(s) # <<>>
      /\ Len(CobsEncode(s)) <= COBS_ENCODE_DST_BUF_LEN_MAX(Len(s))
  BY EncodedShape, ParserAssumption
<1>3. PICK e \in Seq(Byte \ {DELIM}) : e = CobsEncode(s)
  <2>1. Coded(Byte) \subseteq Byte \ {DELIM}
    BY StreamAssumption DEF Coded, DELIM
  <2>. QED
    BY <1>2, <2>1, SeqMonotonic
<1>4. Len(e) <= FRAME_MAX_LEN
  <2>1. COBS_ENCODE_DST_BUF_LEN_MAX(Len(s)) <= FRAME_MAX_LEN
    BY <1>1, StreamAssumption
  <2>2. COBS_ENCODE_DST_BUF_LEN_MAX(Len(s)) \in Int
    <3>1. PICK n \in Nat : n = Len(s)
      OBVIOUS
    <3>2. PICK c \in Nat \ {0} : c = CodeMax - 1
      BY CodeMaxAssumption
    <3>3. CodeMax \in Int
      BY CodeMaxAssumption
    <3>4. (n + CodeMax - 2) \div (CodeMax - 1) \in Int
      BY <3>2, <3>3
    <3>. QED
      BY <3>1, <3>4 DEF COBS_ENCODE_DST_BUF_LEN_MAX
  <2>. QED
    BY <1>2, <1>3, <2>1, <2>2, ParserAssumption
<1>5. e \in Seq(Byte) /\ DELIM \in Byte
  BY SeqMonotonic, ParserAssumption DEF DELIM
<1>6. Append(e, DELIM) \in Seq(Byte)
  BY <1>5, AppendProperties
<1>. QED
  BY <1>1, <1>2, <1>3, <1>4, <1>6 DEF OnWire

\* The parser hands over a frame of the stream, unchanged, as what it is.
LEMMA StreamAccepted ==
  ASSUME NEW i \in 1 .. Len(Stream)
  PROVE  Verdict(CobsEncode(Stream[i].bytes)).frames = <<Sent(Stream[i])>>
<1>1. PICK s \in Seq(Byte) : s = Stream[i].bytes
  BY StreamAssumption
<1>2. CobsDecode(CobsEncode(s)) = [ok |-> TRUE, out |-> s]
  BY DecodeInvertsEncode, ParserAssumption
<1>3. CobsDecode(CobsEncode(s)).ok /\ CobsDecode(CobsEncode(s)).out = s
  BY <1>2
<1>4. CASE IsReply(Stream[i])
  <2>1. /\ MatchCmdResponse(s) # 0
        /\ Sent(Stream[i]) =
             [type |-> CMD_RSP_TABLE[MatchCmdResponse(s)].type, payload |-> <<>>]
    BY <1>1, <1>4 DEF IsReply
  <2>2. Verdict(CobsEncode(s)) =
          Accept([type |-> CMD_RSP_TABLE[MatchCmdResponse(s)].type, payload |-> <<>>])
    BY <1>3, <2>1 DEF Verdict
  <2>. QED
    BY <1>1, <2>1, <2>2 DEF Accept
<1>5. CASE IsData(Stream[i])
  <2>1. /\ MatchCmdResponse(s) = 0
        /\ Len(s) >= FRAME_MIN_LEN
        /\ Len(s) = FRAME_LEN[FrameType(s) + 1]
        /\ CrcCheck(s)
        /\ Sent(Stream[i]) = [type |-> FrameType(s), payload |-> s]
    BY <1>1, <1>5 DEF IsData
  <2>2. ~(Len(s) < FRAME_MIN_LEN)
    BY <2>1, ParserAssumption
  <2>3. Verdict(CobsEncode(s)) = Accept([type |-> FrameType(s), payload |-> s])
    BY <1>3, <2>1, <2>2 DEF Verdict
  <2>. QED
    BY <1>1, <2>1, <2>3 DEF Accept
<1>. QED
  BY <1>4, <1>5, StreamAssumption

\* The delimiter is the last byte of a frame, and the parser then has the rest;
\* any other byte is not a delimiter, and the cut moves behind it.
LEMMA CutMoves ==
  ASSUME NEW t \in Seq(Byte), NEW rest \in Seq(Byte), rest # <<>>,
         NEW e \in Seq(Byte \ {DELIM}), Cut(t, rest, e)
  PROVE  /\ Len(rest) = 1 => Head(rest) = DELIM /\ t = e
         /\ Len(rest) # 1 => /\ Head(rest) # DELIM /\ Len(t) < Len(e)
                             /\ Cut(Append(t, Head(rest)), Tail(rest), e)
<1>1. PICK b \in Byte : b = Head(rest)
  BY HeadTailProperties
<1>2. PICK u \in Seq(Byte) : u = Tail(rest)
  BY HeadTailProperties
<1>3. Len(rest) \in Nat \ {0} /\ Len(u) = Len(rest) - 1
  BY <1>2, HeadTailProperties, EmptySeq
<1>4. rest = <<b>> \o u
  BY <1>1, <1>2
<1>5. e \in Seq(Byte) /\ DELIM \in Byte
  BY SeqMonotonic, ParserAssumption DEF DELIM
<1>6. Append(t, b) \in Seq(Byte) /\ Append(t, b) \o u = t \o rest
  <2>1. Append(t, b) = t \o <<b>> /\ Append(t, b) \in Seq(Byte)
    BY AppendIsConcat, AppendProperties
  <2>2. <<b>> \in Seq(Byte)
    OBVIOUS
  <2>3. (t \o <<b>>) \o u = t \o (<<b>> \o u)
    BY <2>2, ConcatAssociative
  <2>. QED
    BY <1>4, <2>1, <2>3
<1>7. Append(t, b) \o u = Append(e, DELIM)
  BY <1>6 DEF Cut
<1>8. CASE Len(rest) = 1
  <2>1. u = <<>>
    BY <1>3, <1>8, EmptySeq
  <2>2. Append(t, b) = Append(e, DELIM)
    BY <1>6, <1>7, <2>1, ConcatEmptySeq
  <2>3. t = e /\ b = DELIM
    BY <1>5, <2>2, AppendInjective
  <2>. QED
    BY <1>1, <1>8, <2>3
<1>9. CASE Len(rest) # 1
  <2>1. PICK n \in Nat : n = Len(t)
    OBVIOUS
  <2>2. Len(Append(t, b) \o u) = n + Len(rest) /\ Len(Append(e, DELIM)) = Len(e) + 1
    <3>1. Len(Append(t, b)) = n + 1
      BY <2>1, AppendProperties
    <3>2. Len(Append(t, b) \o u) = (n + 1) + Len(u)
      <4>1. PICK v \in Seq(Byte) : v = Append(t, b)
        BY <1>6
      <4>2. Len(v \o u) = Len(v) + Len(u)
        BY ConcatProperties
      <4>. QED
        BY <3>1, <4>1, <4>2
    <3>3. Len(Append(e, DELIM)) = Len(e) + 1
      BY <1>5, AppendProperties
    <3>. QED
      BY <1>3, <3>2, <3>3
  <2>3. n < Len(e)
    BY <1>3, <1>7, <1>9, <2>1, <2>2
  <2>4. (Append(t, b) \o u)[n + 1] = b
    <3>1. Len(Append(t, b)) = n + 1 /\ Append(t, b)[n + 1] = b
      BY <2>1, AppendProperties
    <3>2. n + 1 \in 1 .. Len(Append(t, b)) + Len(u)
      BY <1>3, <3>1
    <3>. QED
      BY <1>6, <3>1, <3>2, ConcatProperties
  <2>5. Append(e, DELIM)[n + 1] \in Byte \ {DELIM}
    <3>1. n + 1 \in 1 .. Len(e)
      BY <2>1, <2>3
    <3>2. Append(e, DELIM)[n + 1] = e[n + 1]
      BY <1>5, <3>1, AppendProperties
    <3>. QED
      BY <3>1, <3>2, ElementOfSeq
  <2>6. b # DELIM
    BY <1>7, <2>4, <2>5
  <2>. QED
    BY <1>1, <1>2, <1>7, <1>9, <2>1, <2>3, <2>6 DEF Cut
<1>. QED
  BY <1>8, <1>9

\* The line as the driver finds it satisfies the invariant.
LEMMA LinkInitInv == LinkInit => LinkInv
<1>. SUFFICES ASSUME LinkInit PROVE LinkInv
  OBVIOUS
<1>1. IInv
  BY InitInv DEF LinkInit
<1>2. 1 \in 1 .. Len(Stream)
  BY StreamAssumption
<1>3. left \in Seq(Byte)
  <2>1. PICK w \in Seq(Byte) : w = OnWire(Stream[1])
    BY <1>2, StreamEncoded
  <2>2. PICK k \in 1 .. Len(w) : left = SubSeq(w, k, Len(w))
    BY <2>1 DEF LinkInit
  <2>3. Len(w) \in Nat /\ \A i \in k .. Len(w) : w[i] \in Byte
    BY ElementOfSeq
  <2>. QED
    BY <2>2, <2>3, SubSeqProperties
<1>4. Sent(Stream[1]) \in Message
  BY <1>2 DEF Message
<1>5. inFlight \in Seq(Message)
  BY <1>4 DEF LinkInit
<1>6. LineType
  <2>1. next \in 2 .. Len(Stream) + 1 /\ faults \in 0 .. MaxFaults
    BY StreamAssumption DEF LinkInit
  <2>2. clean \in BOOLEAN /\ aligned \in BOOLEAN
    BY DEF LinkInit
  <2>. QED
    BY <1>3, <1>5, <2>1, <2>2 DEF LineType
<1>7. FateOpen
  <2>1. inFlight = <<Sent(Stream[1])>> /\ next = 2
    BY DEF LinkInit
  <2>2. Current = Sent(Stream[1])
    BY <2>1 DEF Current
  <2>. QED
    BY <2>1, <2>2 DEF FateOpen
<1>8. InStep
  BY DEF LinkInit, InStep
<1>. QED
  BY <1>1, <1>6, <1>7, <1>8 DEF LinkInv

\* The parser's invariant does not depend on what it last handed over.
LEMMA NothingFedInv == IInv /\ NothingFed => IInv'
BY DEF NothingFed, parserVars, IInv, TypeOK, BufferHoldsChunk

\* A byte on the line is a step of the parser.
LEMMA FedInv ==
  ASSUME IInv, NEW byte \in Byte, FeedByte(byte)
  PROVE  IInv' /\ ChunkAccounted
<1>1. Next
  BY DEF Next
<1>2. ChunkAccounted
  <2>1. CASE byte = DELIM
    BY <2>1, DelimiterAccounts DEF FeedByte, Feed
  <2>2. CASE byte # DELIM
    BY <2>2, DataAccounts DEF FeedByte, Feed
  <2>. QED
    BY <2>1, <2>2
<1>. QED
  BY <1>1, <1>2, StepInv

\* When nothing is fed, nothing is accepted.
LEMMA NothingAccounts == NothingFed => called' = <<>> /\ framed' = framed /\ tail' = tail
BY DEF NothingFed

\* The start of a frame preserves the invariant.
LEMMA StartInv ==
  ASSUME LinkInv, StartFrame
  PROVE  LinkInv'
<1>1. IInv'
  BY NothingFedInv DEF LinkInv, StartFrame
<1>2. next \in 1 .. Len(Stream) /\ next + 1 \in 2 .. Len(Stream) + 1
  BY StreamAssumption DEF LinkInv, LineType, StartFrame
<1>3. PICK m \in Message : m = Sent(Stream[next])
  BY <1>2 DEF Message
<1>4. /\ Append(inFlight, m) \in Seq(Message)
      /\ Append(inFlight, m)[Len(Append(inFlight, m))] = m
  <2>1. inFlight \in Seq(Message)
    BY DEF LinkInv, LineType
  <2>. QED
    BY <2>1, AppendProperties
<1>5. inFlight' = Append(inFlight, m) /\ Current' = m
  BY <1>3, <1>4 DEF StartFrame, Current
<1>6. PICK e \in Seq(Byte \ {DELIM}) :
        e = CobsEncode(Stream[next].bytes) /\ Append(e, DELIM) \in Seq(Byte)
  BY <1>2, StreamEncoded DEF OnWire
<1>7. left' = Append(e, DELIM) /\ next' = next + 1 /\ next' - 1 = next
  BY <1>2, <1>6 DEF StartFrame, OnWire
<1>8. LineType'
  BY <1>2, <1>4, <1>5, <1>6, <1>7 DEF LinkInv, LineType, StartFrame
<1>9. FateOpen'
  BY <1>3, <1>5, <1>7 DEF FateOpen
<1>10. InStep'
  <2>. SUFFICES ASSUME aligned'
                PROVE  /\ framed' /\ inFlight' # <<>>
                       /\ Cut(tail', left', CobsEncode(Stream[next' - 1].bytes))
    BY DEF InStep
  <2>1. framed' /\ tail' = <<>>
    BY NothingAccounts DEF StartFrame
  <2>2. inFlight' # <<>>
    BY <1>5 DEF LinkInv, LineType
  <2>3. <<>> \o left' = left'
    BY <1>6, <1>7, ConcatEmptySeq
  <2>. QED
    BY <1>6, <1>7, <2>1, <2>2, <2>3 DEF Cut
<1>. QED
  BY <1>1, <1>8, <1>9, <1>10 DEF LinkInv

\* What becomes of the frames in flight when the line is done with n bytes:
\* they all stay, all but the current one are lost, or all are settled.
LEMMA AdvanceCases ==
  ASSUME NEW n \in Nat, Advance(n)
  PROVE  \/ inFlight' = inFlight
         \/ inFlight # <<>> /\ inFlight' = <<>>
         \/ inFlight # <<>> /\ inFlight' = <<Current>> /\ called' # <<Current>>
BY DEF Advance

\* The bytes left are a suffix of those that were.
LEMMA AdvanceLeft ==
  ASSUME left \in Seq(Byte), left # <<>>, NEW n \in {0, 1, Len(left)}, Advance(n)
  PROVE  left' \in Seq(Byte) /\ (n = 1 => left' = Tail(left))
<1>1. PICK len \in Nat \ {0} : len = Len(left)
  BY EmptySeq
<1>2. left' = SubSeq(left, n + 1, len)
  BY <1>1 DEF Advance
<1>3. \A i \in n + 1 .. len : left[i] \in Byte
  <2>. SUFFICES ASSUME NEW i \in n + 1 .. len PROVE left[i] \in Byte
    OBVIOUS
  <2>1. i \in 1 .. Len(left)
    BY <1>1
  <2>. QED
    BY <2>1, ElementOfSeq
<1>4. SubSeq(left, n + 1, len) \in Seq(Byte)
  BY <1>1, <1>3, SubSeqProperties
<1>5. ASSUME n = 1 PROVE left' = Tail(left)
  BY <1>1, <1>2, <1>5, TailIsSubSeq
<1>. QED
  BY <1>2, <1>4, <1>5

\* The frames in flight stay the frames they are.
LEMMA AdvanceInFlight ==
  ASSUME LinkInv, NEW n \in Nat, Advance(n), next' = next, left # <<>>
  PROVE  inFlight' \in Seq(Message) /\ FateOpen'
<1>1. inFlight \in Seq(Message)
  BY DEF LinkInv, LineType
<1>2. CASE inFlight' = inFlight
  <2>1. Current' = Current
    BY <1>2 DEF Current
  <2>. QED
    BY <1>1, <1>2, <2>1 DEF LinkInv, FateOpen
<1>3. CASE inFlight' = <<>>
  BY <1>3, EmptySeq DEF FateOpen
<1>4. CASE inFlight # <<>> /\ inFlight' = <<Current>>
  <2>1. Len(inFlight) \in 1 .. Len(inFlight)
    BY <1>1, <1>4, EmptySeq
  <2>2. PICK m \in Message : m = Current
    BY <1>1, <2>1, ElementOfSeq DEF Current
  <2>3. inFlight' = <<m>> /\ Current' = m
    BY <1>4, <2>2 DEF Current
  <2>4. m = Sent(Stream[next - 1])
    BY <1>4, <2>2 DEF LinkInv, FateOpen
  <2>. QED
    BY <2>3, <2>4 DEF FateOpen
<1>. QED
  BY <1>2, <1>3, <1>4, AdvanceCases

\* A byte that travels as it was sent preserves the invariant; the last one of a
\* frame in step closes the whole frame.
LEMMA TransmitInv ==
  ASSUME LinkInv, Transmit
  PROVE  /\ LinkInv'
         /\ clean /\ aligned /\ Len(left) = 1
              => ChunkClosed /\ tail = CobsEncode(Stream[next - 1].bytes)
         /\ clean /\ aligned /\ Len(left) # 1 => tail' # <<>>
<1>1. /\ left # <<>> /\ FeedByte(Head(left)) /\ Advance(1)
      /\ next' = next /\ clean' = clean /\ aligned' = aligned /\ faults' = faults
  BY DEF Transmit
<1>2. left \in Seq(Byte) /\ Head(left) \in Byte /\ IInv /\ LineType
  BY <1>1, HeadTailProperties DEF LinkInv, LineType
<1>3. IInv'
  BY <1>1, <1>2, FedInv
<1>4. left' \in Seq(Byte) /\ left' = Tail(left)
  BY <1>1, <1>2, AdvanceLeft
<1>5. inFlight' \in Seq(Message) /\ FateOpen'
  BY <1>1, AdvanceInFlight
<1>6. LineType'
  BY <1>1, <1>2, <1>4, <1>5 DEF LineType
<1>7. CASE ~(clean /\ aligned)
  <2>1. InStep'
    BY <1>1, <1>7 DEF InStep
  <2>. QED
    BY <1>3, <1>5, <1>6, <1>7, <2>1 DEF LinkInv
<1>8. CASE clean /\ aligned
  <2>1. next - 1 \in 1 .. Len(Stream)
    BY <1>2, StreamAssumption DEF LineType
  <2>2. PICK e \in Seq(Byte \ {DELIM}) :
          e = CobsEncode(Stream[next - 1].bytes) /\ e # <<>> /\ Len(e) <= FRAME_MAX_LEN
    BY <2>1, StreamEncoded
  <2>3. framed /\ inFlight # <<>> /\ Cut(tail, left, e)
    BY <1>1, <1>8, <2>2 DEF LinkInv, InStep
  <2>4. tail \in Seq(Byte)
    <3>1. tail \in Seq(Byte \ {DELIM})
      BY <1>2 DEF IInv, TypeOK
    <3>. QED
      BY <3>1, SeqMonotonic
  <2>5. CASE Len(left) = 1
    <3>1. Head(left) = DELIM /\ tail = e
      BY <1>1, <1>2, <2>3, <2>4, <2>5, CutMoves
    <3>2. framed' /\ tail' = <<>>
      BY <1>1, <3>1 DEF FeedByte, Remember
    <3>3. left' = <<>>
      BY <1>1, <1>2, <1>4, <2>5, HeadTailProperties, EmptySeq
    <3>4. InStep'
      BY <3>3 DEF InStep
    <3>5. ChunkClosed
      BY <2>2, <2>3, <3>1, <3>2 DEF ChunkClosed
    <3>. QED
      BY <1>3, <1>5, <1>6, <2>2, <2>5, <3>1, <3>4, <3>5 DEF LinkInv
  <2>6. CASE Len(left) # 1
    <3>1. /\ Head(left) # DELIM /\ Len(tail) < Len(e)
          /\ Cut(Append(tail, Head(left)), Tail(left), e)
      BY <1>1, <1>2, <2>3, <2>4, <2>6, CutMoves
    <3>2. ~(Len(tail) > FRAME_MAX_LEN)
      BY <2>2, <2>4, <3>1, ParserAssumption
    <3>3. framed' = framed /\ tail' = Append(tail, Head(left))
      BY <1>1, <3>1, <3>2 DEF FeedByte, Remember
    <3>4. tail' # <<>>
      BY <1>2, <2>4, <3>3, AppendProperties
    <3>5. inFlight' = inFlight
      BY <1>1, <3>4 DEF Advance
    <3>6. InStep'
      BY <1>1, <1>4, <2>2, <2>3, <3>1, <3>3, <3>5 DEF InStep
    <3>. QED
      BY <1>3, <1>5, <1>6, <2>6, <3>4, <3>6 DEF LinkInv
  <2>. QED
    BY <2>5, <2>6
<1>. QED
  BY <1>7, <1>8

\* What a fault leaves of the current frame is not in step any more.
LEMMA FaultInv ==
  ASSUME LinkInv, Fault, left # <<>>, NEW n \in {0, 1, Len(left)}, Advance(n), IInv'
  PROVE  LinkInv'
<1>1. left \in Seq(Byte) /\ n \in Nat /\ LineType
  <2>1. left \in Seq(Byte)
    BY DEF LinkInv, LineType
  <2>. QED
    BY <2>1 DEF LinkInv
<1>2. left' \in Seq(Byte)
  BY <1>1, AdvanceLeft
<1>3. /\ faults < MaxFaults /\ faults' = faults + 1 /\ clean' = FALSE
      /\ next' = next /\ aligned' = aligned
  BY DEF Fault
<1>4. inFlight' \in Seq(Message) /\ FateOpen'
  BY <1>1, <1>3, AdvanceInFlight
<1>5. LineType'
  <2>1. faults' \in 0 .. MaxFaults
    BY <1>1, <1>3, StreamAssumption DEF LineType
  <2>. QED
    BY <1>1, <1>2, <1>3, <1>4, <2>1 DEF LineType
<1>6. InStep'
  BY <1>3 DEF InStep
<1>. QED
  BY <1>4, <1>5, <1>6 DEF LinkInv

\* What a step of the line is to the parser: nothing, or a byte.
LEMMA FaultSteps ==
  ASSUME LinkInv, DropByte \/ ChangeByte \/ InsertByte \/ Restart
  PROVE  /\ Fault /\ left # <<>>
         /\ NothingFed \/ \E byte \in Byte : FeedByte(byte)
         /\ \E n \in {0, 1, Len(left)} : Advance(n)
<1>1. left \in Seq(Byte)
  BY DEF LinkInv, LineType
<1>2. CASE DropByte \/ Restart
  BY <1>2 DEF DropByte, Restart
<1>3. CASE ChangeByte
  <2>1. PICK byte \in Corrupted(Head(left)) : FeedByte(byte)
    BY <1>3 DEF ChangeByte
  <2>2. byte \in Byte
    BY <1>1, <1>3, HeadTailProperties, StreamAssumption DEF ChangeByte
  <2>. QED
    BY <1>3, <2>1, <2>2 DEF ChangeByte
<1>4. CASE InsertByte
  <2>1. PICK byte \in {Head(left), DELIM} : FeedByte(byte)
    BY <1>4 DEF InsertByte
  <2>2. byte \in Byte
    BY <1>1, <1>4, <2>1, HeadTailProperties, ParserAssumption DEF InsertByte, DELIM
  <2>. QED
    BY <1>4, <2>1, <2>2 DEF InsertByte
<1>. QED
  BY <1>2, <1>3, <1>4

\* Every step of the line preserves the invariant.
LEMMA LinkStepInv == LinkInv /\ [LinkNext]_linkVars => LinkInv'
<1>. SUFFICES ASSUME LinkInv, [LinkNext]_linkVars PROVE LinkInv'
  OBVIOUS
<1>1. CASE StartFrame
  BY <1>1, StartInv
<1>2. CASE Transmit
  BY <1>2, TransmitInv
<1>3. CASE DropByte \/ ChangeByte \/ InsertByte \/ Restart
  <2>1. /\ Fault /\ left # <<>>
        /\ NothingFed \/ \E byte \in Byte : FeedByte(byte)
    BY <1>3, FaultSteps
  <2>2. PICK n \in {0, 1, Len(left)} : Advance(n)
    BY <1>3, FaultSteps
  <2>3. IInv'
    BY <2>1, NothingFedInv, FedInv DEF LinkInv
  <2>. QED
    BY <2>1, <2>2, <2>3, FaultInv
<1>4. CASE UNCHANGED linkVars
  <2>1. UNCHANGED vars /\ UNCHANGED lineVars
    BY <1>4 DEF linkVars
  <2>2. IInv'
    BY <2>1, StepInv DEF LinkInv
  <2>3. tail' = tail /\ framed' = framed
    BY <2>1 DEF vars
  <2>4. /\ left' = left /\ next' = next /\ inFlight' = inFlight
        /\ clean' = clean /\ aligned' = aligned /\ faults' = faults
    BY <2>1 DEF lineVars
  <2>5. Current' = Current
    BY <2>4 DEF Current
  <2>. QED
    BY <2>2, <2>3, <2>4, <2>5 DEF LinkInv, LineType, FateOpen, InStep
<1>. QED
  BY <1>1, <1>2, <1>3, <1>4 DEF LinkNext, Quiet

\* A frame that no fault touched and that followed a delimiter arrives with its
\* own delimiter, whatever happened on the line before: for every stream, every
\* corruption of a byte and any number of faults.
THEOREM CleanFramesArrive == LinkSpec => CleanFrameDelivered
<1>1. LinkInv /\ [LinkNext]_linkVars
        => [Transmit /\ Len(left) = 1 /\ clean /\ aligned => called' = <<Current>>]_linkVars
  <2>. SUFFICES ASSUME LinkInv, Transmit, Len(left) = 1, clean, aligned
                PROVE  called' = <<Current>>
    OBVIOUS
  <2>1. ChunkClosed /\ tail = CobsEncode(Stream[next - 1].bytes)
    BY TransmitInv
  <2>2. left # <<>> /\ Head(left) \in Byte /\ FeedByte(Head(left)) /\ IInv
    BY HeadTailProperties DEF LinkInv, LineType, Transmit
  <2>3. ChunkAccounted
    BY <2>2, FedInv
  <2>4. next - 1 \in 1 .. Len(Stream)
    BY StreamAssumption DEF LinkInv, LineType
  <2>5. Len(CobsEncode(Stream[next - 1].bytes)) <= FRAME_MAX_LEN
    BY <2>4, StreamEncoded
  <2>6. called' = Verdict(tail).frames
    BY <2>1, <2>3, <2>5 DEF ChunkAccounted
  <2>7. called' = <<Sent(Stream[next - 1])>>
    BY <2>1, <2>4, <2>6, StreamAccepted
  <2>8. Current = Sent(Stream[next - 1])
    BY <2>2 DEF LinkInv, InStep, FateOpen
  <2>. QED
    BY <2>7, <2>8
<1>. QED
  BY <1>1, LinkInitInv, LinkStepInv, PTL DEF LinkSpec, CleanFrameDelivered

-----------------------------------------------------------------------------
(* The line and the parser are a channel that only loses frames            *)

\* A chunk that passes for a frame is the frame the unit is sending, whole, and its
\* fate was open.  Without faults that holds.  With faults it need not: a reply
\* behind a frame whose delimiter was lost is accepted by its suffix.
IntactAccepted ==
  called' # <<>> => inFlight # <<>> /\ tail = CobsEncode(Stream[next - 1].bytes)

\* What the parser hands over is then the current frame, and settles it.
LEMMA Delivered ==
  ASSUME LinkInv, left # <<>>, inFlight # <<>>, NEW n \in Nat, Advance(n),
         ChunkAccounted, called' # <<>>, tail = CobsEncode(Stream[next - 1].bytes)
  PROVE  called' = <<Current>> /\ inFlight' = <<>>
<1>1. ChunkClosed /\ called' = Verdict(tail).frames
  BY DEF ChunkAccounted
<1>2. next - 1 \in 1 .. Len(Stream)
  BY StreamAssumption DEF LinkInv, LineType
<1>3. called' = <<Sent(Stream[next - 1])>>
  BY <1>1, <1>2, StreamAccepted
<1>4. called' = <<Current>>
  BY <1>3 DEF LinkInv, FateOpen
<1>5. framed' /\ tail' = <<>>
  BY <1>1 DEF ChunkClosed
<1>. QED
  BY <1>4, <1>5 DEF Advance

\* The frames in flight are a queue that loses from the front.
LEMMA Losing ==
  ASSUME NEW S, NEW q \in Seq(S), q # <<>>
  PROVE  /\ \E n \in 1 .. Len(q) : SubSeq(q, n + 1, Len(q)) = <<>> /\ q[n] = q[Len(q)]
         /\ \/ q = <<q[Len(q)]>>
            \/ \E n \in 1 .. Len(q) : SubSeq(q, n + 1, Len(q)) = <<q[Len(q)]>>
<1>1. PICK len \in Nat \ {0} : len = Len(q)
  BY EmptySeq
<1>2. SubSeq(q, len + 1, len) = <<>>
  BY SubSeqEmpty
<1>3. q[len] \in S
  BY <1>1, ElementOfSeq
<1>4. \E n \in 1 .. Len(q) : SubSeq(q, n + 1, Len(q)) = <<>> /\ q[n] = q[Len(q)]
  <2>1. len \in 1 .. Len(q)
    BY <1>1
  <2>. QED
    BY <1>1, <1>2, <2>1, Zenon
<1>5. Len(<<q[len]>>) = 1 /\ <<q[len]>>[1] = q[len] /\ <<q[len]>> \in Seq(S)
  BY <1>3
<1>6. ASSUME len = 1 PROVE q = <<q[len]>>
  <2>1. \A i \in 1 .. Len(q) : q[i] = <<q[len]>>[i]
    BY <1>1, <1>5, <1>6
  <2>. QED
    BY <1>1, <1>5, <1>6, <2>1, SeqEqual
<1>7. ASSUME len # 1
      PROVE  \E n \in 1 .. Len(q) : SubSeq(q, n + 1, Len(q)) = <<q[Len(q)]>>
  <2>1. /\ SubSeq(q, len, len) \in Seq(S) /\ Len(SubSeq(q, len, len)) = 1
        /\ SubSeq(q, len, len)[1] = q[len]
    <3>1. \A i \in len .. len : q[i] \in S
      BY <1>3
    <3>2. len \in Int /\ len - len + 1 = 1 /\ len + 1 - 1 = len
      OBVIOUS
    <3>. QED
      BY <3>1, <3>2, SubSeqProperties
  <2>2. \A i \in 1 .. Len(SubSeq(q, len, len)) : SubSeq(q, len, len)[i] = <<q[len]>>[i]
    BY <1>5, <2>1
  <2>3. SubSeq(q, len, len) = <<q[len]>>
    BY <1>5, <2>1, <2>2, SeqEqual
  <2>4. PICK n \in 1 .. Len(q) : n + 1 = len
    BY <1>1, <1>7
  <2>5. SubSeq(q, n + 1, Len(q)) = <<q[Len(q)]>>
    BY <1>1, <2>3, <2>4, Zenon
  <2>. QED
    BY <2>5, Zenon
<1>. QED
  BY <1>1, <1>4, <1>6, <1>7, Zenon

\* A step in which the line is done with some bytes.
LEMMA AdvanceChannel ==
  ASSUME LinkInv, left # <<>>, NEW n \in Nat, Advance(n),
         called' = <<>> \/ ChunkAccounted, IntactAccepted
  PROVE  Channel!ChannelNext
<1>1. inFlight \in Seq(Message)
  BY DEF LinkInv, LineType
<1>2. CASE called' # <<>>
  <2>1. called' = <<Current>> /\ inFlight' = <<>> /\ inFlight # <<>>
    BY <1>2, Delivered DEF IntactAccepted
  <2>2. PICK k \in 1 .. Len(inFlight) :
          /\ SubSeq(inFlight, k + 1, Len(inFlight)) = <<>>
          /\ inFlight[k] = inFlight[Len(inFlight)]
    BY <1>1, <2>1, Losing
  <2>. QED
    BY <2>1, <2>2 DEF Channel!ChannelNext, Channel!Deliver, Current
<1>3. CASE called' = <<>> /\ inFlight' = inFlight
  BY <1>3 DEF Channel!ChannelNext, Channel!Idle
<1>4. CASE called' = <<>> /\ inFlight # <<>> /\ inFlight' = <<>>
  <2>1. PICK k \in 1 .. Len(inFlight) : SubSeq(inFlight, k + 1, Len(inFlight)) = <<>>
    BY <1>1, <1>4, Losing
  <2>. QED
    BY <1>4, <2>1 DEF Channel!ChannelNext, Channel!Lose
<1>5. CASE called' = <<>> /\ inFlight # <<>> /\ inFlight' = <<Current>>
  <2>1. \/ inFlight = <<Current>>
        \/ \E k \in 1 .. Len(inFlight) :
             SubSeq(inFlight, k + 1, Len(inFlight)) = <<Current>>
    BY <1>1, <1>5, Losing DEF Current
  <2>. QED
    BY <1>5, <2>1 DEF Channel!ChannelNext, Channel!Lose, Channel!Idle
<1>. QED
  BY <1>2, <1>3, <1>4, <1>5, AdvanceCases

\* Every step of the line is a step of the channel.
LEMMA ChannelStep ==
  ASSUME LinkInv, [LinkNext]_linkVars, [IntactAccepted]_linkVars
  PROVE  [Channel!ChannelNext]_(Channel!channelVars)
<1>1. CASE UNCHANGED linkVars
  <2>1. UNCHANGED vars /\ UNCHANGED lineVars
    BY <1>1 DEF linkVars
  <2>2. called' = called /\ inFlight' = inFlight
    BY <2>1 DEF vars, lineVars
  <2>. QED
    BY <2>2 DEF Channel!channelVars
<1>2. CASE StartFrame
  <2>1. next \in 1 .. Len(Stream)
    BY <1>2, StreamAssumption DEF LinkInv, LineType, StartFrame
  <2>2. called' = <<>> /\ inFlight' = Append(inFlight, Sent(Stream[next]))
    BY <1>2 DEF StartFrame, NothingFed
  <2>. QED
    BY <2>1, <2>2 DEF Channel!ChannelNext, Channel!Send
<1>3. ASSUME IntactAccepted, Transmit PROVE Channel!ChannelNext
  <2>1. left # <<>> /\ Advance(1) /\ FeedByte(Head(left)) /\ Head(left) \in Byte
    BY <1>3, HeadTailProperties DEF Transmit, LinkInv, LineType
  <2>2. ChunkAccounted
    BY <2>1, FedInv DEF LinkInv
  <2>. QED
    BY <1>3, <2>1, <2>2, AdvanceChannel
<1>4. ASSUME IntactAccepted, DropByte \/ ChangeByte \/ InsertByte \/ Restart
      PROVE  Channel!ChannelNext
  <2>1. left # <<>> /\ (NothingFed \/ \E byte \in Byte : FeedByte(byte))
    BY <1>4, FaultSteps
  <2>2. PICK n \in {0, 1, Len(left)} : Advance(n)
    BY <1>4, FaultSteps
  <2>3. n \in Nat
    BY DEF LinkInv, LineType
  <2>4. called' = <<>> \/ ChunkAccounted
    BY <2>1, NothingAccounts, FedInv DEF LinkInv
  <2>. QED
    BY <1>4, <2>1, <2>2, <2>3, <2>4, AdvanceChannel
<1>. QED
  BY <1>1, <1>2, <1>3, <1>4 DEF LinkNext, Quiet

\* At first nothing was delivered, and one frame is on its way.
LEMMA ChannelStart == LinkInit => Channel!ChannelInit
<1>. SUFFICES ASSUME LinkInit PROVE Channel!ChannelInit
  OBVIOUS
<1>1. called = <<>> /\ inFlight = <<Sent(Stream[1])>>
  BY DEF LinkInit, Init
<1>2. 1 \in 1 .. Len(Stream)
  BY StreamAssumption
<1>3. PICK m \in Message : m = Sent(Stream[1])
  BY <1>2 DEF Message
<1>4. inFlight \in Seq(Message) /\ Len(inFlight) <= 1
  BY <1>1, <1>3
<1>. QED
  BY <1>1, <1>4 DEF Channel!ChannelInit, Message

\* As long as nothing else is accepted, the callback gets frames that were sent,
\* unchanged, each at most once and in order.
LEMMA IntactChannel ==
  LinkSpec /\ [][IntactAccepted]_linkVars => OnlyLosesFrames
<1>1. LinkInv /\ [LinkNext]_linkVars /\ [IntactAccepted]_linkVars
        => [Channel!ChannelNext]_(Channel!channelVars)
  BY ChannelStep
<1>. QED
  BY <1>1, LinkInitInv, LinkStepInv, ChannelStart, PTL
     DEF LinkSpec, OnlyLosesFrames, Channel!ChannelSpec

\* On a line without faults the first frame, which may be cut, is not accepted,
\* and every other frame is in step.
Faultless ==
  /\ left = <<>> => framed /\ tail = <<>>
  /\ left # <<>> /\ next = 2 =>
       ~framed /\ \E e \in Seq(Byte \ {DELIM}) : left = Append(e, DELIM)
  /\ left # <<>> /\ next # 2 => clean /\ aligned

\* At first the line carries the end of a frame, whose only zero is its last byte.
LEMMA FaultlessInit == LinkInit => Faultless
<1>. SUFFICES ASSUME LinkInit PROVE Faultless
  OBVIOUS
<1>1. ~framed /\ next = 2
  BY DEF LinkInit, Init
<1>2. PICK e \in Seq(Byte \ {DELIM}) :
        e = CobsEncode(Stream[1].bytes) /\ Append(e, DELIM) \in Seq(Byte)
  <2>1. 1 \in 1 .. Len(Stream)
    BY StreamAssumption
  <2>. QED
    BY <2>1, StreamEncoded DEF OnWire
<1>3. PICK k \in 1 .. Len(Append(e, DELIM)) :
        left = SubSeq(Append(e, DELIM), k, Len(Append(e, DELIM)))
  BY <1>2 DEF LinkInit, OnWire
<1>4. PICK len \in Nat : len = Len(e)
  OBVIOUS
<1>5. PICK w \in Seq(Byte) : w = Append(e, DELIM)
  BY <1>2
<1>6. /\ Len(w) = len + 1 /\ w[len + 1] = DELIM /\ k \in 1 .. len + 1
      /\ \A i \in 1 .. len : w[i] = e[i]
  BY <1>3, <1>4, <1>5, AppendProperties
<1>7. \A i \in k .. len : e[i] \in Byte \ {DELIM}
  BY <1>3, <1>4, ElementOfSeq
<1>8. PICK r \in Seq(Byte \ {DELIM}) :
        /\ Len(r) = (len + 1) - k
        /\ \A i \in 1 .. (len + 1) - k : r[i] = e[k + i - 1]
  <2>1. /\ SubSeq(e, k, len) \in Seq(Byte \ {DELIM})
        /\ Len(SubSeq(e, k, len)) = IF k <= len THEN len - k + 1 ELSE 0
        /\ \A i \in 1 .. len - k + 1 : SubSeq(e, k, len)[i] = e[k + i - 1]
    BY <1>7, SubSeqProperties
  <2>2. Len(SubSeq(e, k, len)) = (len + 1) - k /\ len - k + 1 = (len + 1) - k
    BY <1>6, <2>1
  <2>. QED
    BY <2>1, <2>2, Zenon
<1>9. PICK l \in Seq(Byte) :
        /\ l = left /\ Len(l) = (len + 1) - k + 1
        /\ \A i \in 1 .. (len + 1) - k + 1 : l[i] = w[k + i - 1]
  <2>1. \A i \in k .. len + 1 : w[i] \in Byte
    BY <1>3, <1>6, ElementOfSeq
  <2>2. /\ SubSeq(w, k, len + 1) \in Seq(Byte)
        /\ Len(SubSeq(w, k, len + 1)) = IF k <= len + 1 THEN (len + 1) - k + 1 ELSE 0
        /\ \A i \in 1 .. (len + 1) - k + 1 : SubSeq(w, k, len + 1)[i] = w[k + i - 1]
    BY <2>1, SubSeqProperties
  <2>3. left = SubSeq(w, k, len + 1) /\ k <= len + 1
    BY <1>3, <1>5, <1>6
  <2>. QED
    BY <2>2, <2>3
<1>10. PICK v \in Seq(Byte) :
         /\ v = Append(r, DELIM) /\ Len(v) = Len(r) + 1 /\ v[Len(r) + 1] = DELIM
         /\ \A i \in 1 .. Len(r) : v[i] = r[i]
  <2>1. r \in Seq(Byte) /\ DELIM \in Byte
    BY SeqMonotonic, ParserAssumption DEF DELIM
  <2>2. /\ Append(r, DELIM) \in Seq(Byte) /\ Len(Append(r, DELIM)) = Len(r) + 1
        /\ Append(r, DELIM)[Len(r) + 1] = DELIM
        /\ \A i \in 1 .. Len(r) : Append(r, DELIM)[i] = r[i]
    BY <2>1, AppendProperties
  <2>. QED
    BY <2>2, Zenon
<1>11. Len(l) = Len(v)
  BY <1>6, <1>8, <1>9, <1>10
<1>12. ASSUME NEW i \in 1 .. Len(l) PROVE l[i] = v[i]
  <2>1. CASE i = (len + 1) - k + 1
    <3>1. k + i - 1 = len + 1 /\ i = Len(r) + 1
      BY <1>6, <1>8, <2>1
    <3>. QED
      BY <1>6, <1>9, <1>10, <3>1
  <2>2. CASE i # (len + 1) - k + 1
    <3>1. i \in 1 .. (len + 1) - k /\ i \in 1 .. Len(r) /\ k + i - 1 \in 1 .. len
      BY <1>6, <1>8, <1>9, <2>2
    <3>2. l[i] = w[k + i - 1]
      BY <1>9
    <3>. QED
      BY <1>6, <1>8, <1>10, <3>1, <3>2
  <2>. QED
    BY <2>1, <2>2
<1>13. left = Append(r, DELIM)
  BY <1>9, <1>10, <1>11, <1>12, SeqEqual
<1>14. left # <<>>
  BY <1>9, <1>10, <1>11, <1>8, <1>6, EmptySeq
<1>. QED
  BY <1>1, <1>13, <1>14 DEF Faultless

\* Without faults there is nothing but intact frames to accept.
LEMMA FaultlessStep ==
  ASSUME MaxFaults = 0, LinkInv, Faultless, [LinkNext]_linkVars
  PROVE  Faultless' /\ [IntactAccepted]_linkVars
<1>1. faults = 0
  BY DEF LinkInv, LineType
<1>2. ~Fault
  BY <1>1 DEF Fault
<1>3. CASE UNCHANGED linkVars
  <2>1. UNCHANGED vars /\ UNCHANGED lineVars
    BY <1>3 DEF linkVars
  <2>2. /\ framed' = framed /\ tail' = tail /\ left' = left /\ next' = next
        /\ clean' = clean /\ aligned' = aligned
    BY <2>1 DEF vars, lineVars
  <2>. QED
    BY <1>3, <2>2 DEF Faultless
<1>4. CASE StartFrame
  <2>1. /\ next' = next + 1 /\ clean' = TRUE /\ aligned' = (framed /\ tail = <<>>)
        /\ left = <<>> /\ left' = OnWire(Stream[next]) /\ called' = <<>>
    BY <1>4 DEF StartFrame, NothingFed
  <2>2. clean' /\ aligned'
    BY <2>1 DEF Faultless
  <2>3. next \in 1 .. Len(Stream) /\ next' # 2
    BY <1>4, <2>1, StreamAssumption DEF LinkInv, LineType, StartFrame
  <2>4. left' # <<>>
    <3>1. PICK e \in Seq(Byte) : left' = Append(e, DELIM) /\ DELIM \in Byte
      <4>1. CobsEncode(Stream[next].bytes) \in Seq(Byte \ {DELIM})
        BY <2>3, StreamEncoded
      <4>2. CobsEncode(Stream[next].bytes) \in Seq(Byte)
        BY <4>1, SeqMonotonic
      <4>. QED
        BY <2>1, <4>2, ParserAssumption DEF OnWire, DELIM
    <3>. QED
      BY <3>1, AppendProperties
  <2>. QED
    BY <2>1, <2>2, <2>3, <2>4 DEF Faultless, IntactAccepted
<1>5. CASE Transmit
  <2>1. /\ left # <<>> /\ left \in Seq(Byte) /\ FeedByte(Head(left)) /\ Advance(1)
        /\ Head(left) \in Byte
        /\ next' = next /\ clean' = clean /\ aligned' = aligned
    BY <1>5, HeadTailProperties DEF Transmit, LinkInv, LineType
  <2>2. left' = Tail(left) /\ Len(left) \in Nat \ {0} /\ Len(Tail(left)) = Len(left) - 1
        /\ Tail(left) \in Seq(Byte)
    BY <2>1, AdvanceLeft, HeadTailProperties, EmptySeq
  <2>3. ChunkAccounted
    BY <2>1, FedInv DEF LinkInv
  <2>4. CASE next = 2
    <3>1. PICK e \in Seq(Byte \ {DELIM}) : left = Append(e, DELIM) /\ ~framed
      BY <2>1, <2>4 DEF Faultless
    <3>2. called' = <<>>
      BY <2>3, <3>1 DEF ChunkAccounted, ChunkClosed
    <3>3. /\ Head(left) = IF e = <<>> THEN DELIM ELSE Head(e)
          /\ Tail(left) = IF e = <<>> THEN <<>> ELSE Append(Tail(e), DELIM)
      BY <3>1, HeadTailAppend
    <3>4. CASE e = <<>>
      <4>1. Head(left) = DELIM /\ left' = <<>>
        BY <2>2, <3>3, <3>4
      <4>2. framed' /\ tail' = <<>>
        BY <2>1, <4>1 DEF FeedByte, Remember
      <4>. QED
        BY <3>2, <4>1, <4>2 DEF Faultless, IntactAccepted
    <3>5. CASE e # <<>>
      <4>1. Head(e) \in Byte \ {DELIM} /\ Tail(e) \in Seq(Byte \ {DELIM})
        BY <3>5, HeadTailProperties
      <4>2. Head(left) # DELIM /\ left' = Append(Tail(e), DELIM)
        BY <2>2, <3>3, <3>5, <4>1
      <4>3. ~framed'
        BY <2>1, <3>1, <4>2 DEF FeedByte, Remember
      <4>4. left' # <<>>
        BY <4>1, <4>2
      <4>. QED
        BY <2>1, <2>4, <3>2, <4>1, <4>2, <4>3, <4>4 DEF Faultless, IntactAccepted
    <3>. QED
      BY <3>4, <3>5
  <2>5. CASE next # 2
    <3>1. clean /\ aligned
      BY <2>1, <2>5 DEF Faultless
    <3>2. /\ Len(left) = 1 => ChunkClosed /\ tail = CobsEncode(Stream[next - 1].bytes)
          /\ Len(left) # 1 => tail' # <<>>
      BY <1>5, <3>1, TransmitInv
    <3>3. inFlight # <<>>
      BY <2>1, <3>1 DEF LinkInv, InStep
    <3>4. IntactAccepted
      <4>1. ASSUME called' # <<>> PROVE ChunkClosed
        BY <2>3, <4>1 DEF ChunkAccounted
      <4>2. ASSUME called' # <<>> PROVE Len(left) = 1
        BY <3>2, <4>1, <4>2 DEF ChunkClosed
      <4>. QED
        BY <3>2, <3>3, <4>2 DEF IntactAccepted
    <3>5. CASE Len(left) = 1
      <4>1. left' = <<>>
        BY <2>2, <3>5, EmptySeq
      <4>2. framed' /\ tail' = <<>>
        BY <3>2, <3>5 DEF ChunkClosed
      <4>. QED
        BY <3>4, <4>1, <4>2 DEF Faultless
    <3>6. CASE Len(left) # 1
      <4>1. left' # <<>>
        BY <2>2, <3>6, EmptySeq, SMTT(30)
      <4>. QED
        BY <2>1, <2>5, <3>1, <3>4, <4>1 DEF Faultless
    <3>. QED
      BY <3>5, <3>6
  <2>. QED
    BY <2>4, <2>5
<1>6. ~DropByte /\ ~ChangeByte /\ ~InsertByte /\ ~Restart
  BY <1>2 DEF DropByte, ChangeByte, InsertByte, Restart
<1>. QED
  BY <1>3, <1>4, <1>5, <1>6 DEF LinkNext, Quiet

\* On a line without faults nothing is needed of the checksum: opened in the
\* middle of a frame of any stream, the parser hands over what was sent, in
\* order, and only loses frames.
THEOREM FaultlessLine ==
  ASSUME MaxFaults = 0
  PROVE  LinkSpec => OnlyLosesFrames
<1>1. LinkInv /\ Faultless /\ [LinkNext]_linkVars => Faultless' /\ [IntactAccepted]_linkVars
  BY FaultlessStep
<1>. QED
  BY <1>1, LinkInitInv, LinkStepInv, FaultlessInit, IntactChannel, PTL DEF LinkSpec
=============================================================================
