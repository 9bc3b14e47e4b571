----------------------------- MODULE FrameParser -----------------------------
(***************************************************************************)
(* The byte-stream parser of oscp_imu.c, called by one thread at a time.   *)
(* Bytes are fed one by one; between two delimiters they accumulate in     *)
(* buf, and a delimiter closes the buffer: it is decoded, validated, and   *)
(* either handed to the callback or counted as one kind of error.          *)
(*                                                                         *)
(* `called' is what the callback received during the last step: <<>> or    *)
(* one frame.  `framed' and `tail' are history variables that no code      *)
(* reads: whether a delimiter was fed since the parser was initialised or  *)
(* reset, and the bytes fed since then or since the last delimiter.        *)
(***************************************************************************)
EXTENDS Cobs

CONSTANTS
  Byte,              \* values of a byte, 0 (OSCP_FRAME_DELIM) among them
  FRAME_MAX_LEN,     \* capacity of the buffer
  FRAME_MIN_LEN,     \* length of the shortest data frame
  FRAME_LEN,         \* frame type -> length of a frame of that type
  CMD_RSP_TABLE,     \* sequence of [suffix, type]: the replies to a command
  Crc16(_),          \* the checksum of a byte sequence: <<low, high>>
  StatMax            \* the largest value of a uint32 counter

ASSUME ParserAssumption ==
  /\ Byte \subseteq Nat /\ 0 \in Byte
  /\ FRAME_MAX_LEN \in Nat \ {0}
  /\ FRAME_MIN_LEN \in Nat \ {0}
  /\ FRAME_LEN \in Seq(Nat) /\ FRAME_LEN # <<>>
  /\ StatMax \in Nat

VARIABLES buf, synced, stats, called, framed, tail

parserVars == <<buf, synced, stats>>
vars == <<buf, synced, stats, called, framed, tail>>

DELIM == 0
Counter == {"frames_ok", "framing_errors", "crc_errors", "cobs_errors", "overflows"}

-----------------------------------------------------------------------------
(* Validation of a closed buffer: parser_buffer                            *)

HasSuffix(d, s) == /\ Len(d) >= Len(s)
                   /\ SubSeq(d, Len(d) - Len(s) + 1, Len(d)) = s

\* match_cmd_response: the first entry of the table d ends with, 0 for none.
MatchCmdResponse(d) ==
  LET hits == {i \in 1 .. Len(CMD_RSP_TABLE) : HasSuffix(d, CMD_RSP_TABLE[i].suffix)}
  IN  IF hits = {} THEN 0 ELSE CHOOSE i \in hits : \A j \in hits : i <= j

\* crc_check: the two bytes after the payload are its checksum, low byte first.
CrcCheck(d) == /\ Len(d) >= 3
               /\ Crc16(SubSeq(d, 1, Len(d) - 2)) = SubSeq(d, Len(d) - 1, Len(d))

FrameType(d) == d[1] % Len(FRAME_LEN)       \* dec[0] & 0x07

Reject(counter) == [counter |-> counter, frames |-> <<>>]
Accept(frame)   == [counter |-> "frames_ok", frames |-> <<frame>>]

\* Mutant of Verdict: the checksum is not compared.
VerdictUnchecked(chunk) ==
  LET dec == CobsDecode(chunk)
      d   == dec.out
      rsp == MatchCmdResponse(d)
  IN  IF ~dec.ok THEN Reject("cobs_errors")
      ELSE IF rsp # 0
           THEN Accept([type |-> CMD_RSP_TABLE[rsp].type, payload |-> <<>>])
      ELSE IF Len(d) < FRAME_MIN_LEN \/ Len(d) # FRAME_LEN[FrameType(d) + 1]
           THEN Reject("framing_errors")
      ELSE Accept([type |-> FrameType(d), payload |-> d])

\* What closing the buffer on chunk counts, and the frame it hands over.
\* Lengths are compared before the checksum, replies carry no checksum.
Verdict(chunk) ==
  LET dec == CobsDecode(chunk)
      d   == dec.out
      rsp == MatchCmdResponse(d)
  IN  IF ~dec.ok THEN Reject("cobs_errors")
      ELSE IF rsp # 0
           THEN Accept([type |-> CMD_RSP_TABLE[rsp].type, payload |-> <<>>])
      ELSE IF Len(d) < FRAME_MIN_LEN \/ Len(d) # FRAME_LEN[FrameType(d) + 1]
           THEN Reject("framing_errors")
      ELSE IF ~CrcCheck(d) THEN Reject("crc_errors")
      ELSE Accept([type |-> FrameType(d), payload |-> d])

\* Mutant of FrameDecode: the padding of a message counts as part of the frame.
FrameDecodeWithPadding(m) ==
  IF m = <<>> \/ Len(m) < FRAME_LEN[FrameType(m) + 1] \/ ~CrcCheck(m)
  THEN <<>>
  ELSE <<[type |-> FrameType(m), payload |-> m]>>

\* oscp_frame_decode: the frame in a whole CAN-FD message, which is padded to
\* one of the lengths a message may have; <<>> for an error.
FrameDecode(m) ==
  LET frame == SubSeq(m, 1, FRAME_LEN[FrameType(m) + 1])
  IN  IF m = <<>> \/ Len(m) < FRAME_LEN[FrameType(m) + 1] \/ ~CrcCheck(frame)
      THEN <<>>
      ELSE <<[type |-> FrameType(m), payload |-> frame]>>

-----------------------------------------------------------------------------
(* The operations                                                          *)

NoStats == [c \in Counter |-> 0]

\* counter++ on a uint32_t
Bumped(c) == [stats EXCEPT ![c] = IF @ = StatMax THEN 0 ELSE @ + 1]
Bump(c) == stats' = Bumped(c)

\* oscp_parser_init
Init == /\ buf = <<>>
        /\ synced = FALSE
        /\ stats = NoStats
        /\ called = <<>>
        /\ framed = FALSE
        /\ tail = <<>>

\* Mutant of FeedDelimiter: a rejected chunk stays in the buffer.
FeedDelimiterKeepsRejected ==
  /\ IF synced /\ buf # <<>>
     THEN LET verdict == Verdict(buf)
          IN  /\ Bump(verdict.counter) /\ called' = verdict.frames
              /\ buf' = IF verdict.frames = <<>> THEN buf ELSE <<>>
     ELSE UNCHANGED stats /\ called' = <<>> /\ buf' = <<>>
  /\ synced' = TRUE

\* Mutant of FeedDelimiter: any delimiter closes the buffer, synchronised or
\* not, empty or not.
FeedDelimiterUnsynced ==
  /\ LET verdict == Verdict(buf)
     IN  Bump(verdict.counter) /\ called' = verdict.frames
  /\ buf' = <<>>
  /\ synced' = TRUE

\* A delimiter closes the buffer when there is something in it, and in any
\* case empties it and asserts synchronisation.
FeedDelimiter ==
  /\ IF synced /\ buf # <<>>
     THEN LET verdict == Verdict(buf)
          IN  Bump(verdict.counter) /\ called' = verdict.frames
     ELSE UNCHANGED stats /\ called' = <<>>
  /\ buf' = <<>>
  /\ synced' = TRUE

\* Mutant of FeedData: the capacity test is off by one.
FeedDataPastTheEnd(byte) ==
  /\ called' = <<>>
  /\ synced
  /\ Len(buf) <= FRAME_MAX_LEN
  /\ buf' = Append(buf, byte)
  /\ UNCHANGED <<synced, stats>>

\* Mutant of FeedData: an overflow empties the buffer and stays synchronised.
FeedDataKeepsSync(byte) ==
  /\ called' = <<>>
  /\ IF synced /\ Len(buf) >= FRAME_MAX_LEN
     THEN Bump("overflows") /\ buf' = <<>> /\ UNCHANGED synced
     ELSE /\ buf' = IF synced THEN Append(buf, byte) ELSE buf
          /\ UNCHANGED <<synced, stats>>

\* Any other byte is appended, dropped while not synchronised, or finds the
\* buffer full: then the buffer and the synchronisation are dropped.
FeedData(byte) ==
  /\ called' = <<>>
  /\ \/ /\ ~synced
        /\ UNCHANGED parserVars
     \/ /\ synced /\ Len(buf) >= FRAME_MAX_LEN
        /\ Bump("overflows")
        /\ buf' = <<>>
        /\ synced' = FALSE
     \/ /\ synced /\ Len(buf) < FRAME_MAX_LEN
        /\ buf' = Append(buf, byte)
        /\ UNCHANGED <<synced, stats>>

\* oscp_parser_feed
Feed(byte) == IF byte = DELIM THEN FeedDelimiter ELSE FeedData(byte)

\* The history keeps one byte more than fits in buf.
Remember(byte) ==
  IF byte = DELIM
  THEN framed' = TRUE /\ tail' = <<>>
  ELSE /\ tail' = IF Len(tail) > FRAME_MAX_LEN THEN tail ELSE Append(tail, byte)
       /\ UNCHANGED framed

FeedByte(byte) == Feed(byte) /\ Remember(byte)

\* oscp_parser_reset
Reset == /\ buf' = <<>>
         /\ synced' = FALSE
         /\ called' = <<>>
         /\ framed' = FALSE /\ tail' = <<>>
         /\ UNCHANGED stats

\* oscp_parser_stats_reset
StatsReset == /\ stats' = NoStats
              /\ called' = <<>>
              /\ UNCHANGED <<buf, synced, framed, tail>>

Next == \/ \E byte \in Byte : FeedByte(byte)
        \/ Reset
        \/ StatsReset

Spec == Init /\ [][Next]_vars

-----------------------------------------------------------------------------
(* Properties                                                              *)

\* The parser's state has its shape; the buffer never holds a delimiter and
\* never more than FRAME_MAX_LEN bytes, the size of buf in oscp_parser_t.
TypeOK ==
  /\ buf \in Seq(Byte \ {DELIM}) /\ Len(buf) <= FRAME_MAX_LEN
  /\ synced \in BOOLEAN
  /\ stats \in [Counter -> 0 .. StatMax]
  /\ framed \in BOOLEAN
  /\ tail \in Seq(Byte \ {DELIM}) /\ Len(tail) <= FRAME_MAX_LEN + 1

\* Whatever was fed, reset or overflowed before, the buffer holds exactly the
\* bytes since the last delimiter, and the parser is out of sync exactly when
\* it saw no delimiter yet or those bytes do not fit.
BufferHoldsChunk ==
  /\ synced <=> framed /\ Len(tail) <= FRAME_MAX_LEN
  /\ buf = IF synced THEN tail ELSE <<>>

\* What the last step did to the stream, told from the history alone.
ChunkClosed  == framed /\ framed' /\ tail # <<>> /\ tail' = <<>>
ChunkTooLong == framed /\ Len(tail) = FRAME_MAX_LEN /\ Len(tail') > FRAME_MAX_LEN

ChunkAccounted ==
  IF ChunkClosed /\ Len(tail) <= FRAME_MAX_LEN
  THEN /\ called' = Verdict(tail).frames
       /\ stats' = Bumped(Verdict(tail).counter)
  ELSE /\ called' = <<>>
       /\ stats' \in IF ChunkTooLong THEN {Bumped("overflows")} ELSE {stats, NoStats}

\* No byte vanishes without a trace: every chunk between two delimiters that
\* fits the buffer is judged as a whole and counted once, as what it is, and a
\* frame reaches the callback exactly when it counts as frames_ok; a chunk that
\* does not fit counts once as an overflow, not again when its delimiter comes;
\* nothing else calls back or counts.
EveryChunkAccounted == [][ChunkAccounted]_vars

Padding == {<<>>} \cup {<<b>> : b \in Byte}

SameVerdictPadded ==
  LET d == CobsDecode(tail).out
      expected == FRAME_LEN[FrameType(d) + 1]
  IN  ChunkClosed /\ Len(tail) <= FRAME_MAX_LEN /\ CobsDecode(tail).ok
        /\ Len(d) >= FRAME_MIN_LEN /\ MatchCmdResponse(d) = 0
      => \A pad \in Padding :
           \/ Len(d) = expected /\ FrameDecode(d \o pad) = called'
           \/ Len(d) < expected /\ FrameDecode(d) = called'
           \/ Len(d) > expected /\ called' = <<>>

\* The two decoders of the library agree: what the stream parser makes of a
\* data frame between two delimiters, oscp_frame_decode makes of a message
\* with the same bytes, padded or not; one that is too short or whose checksum
\* is wrong passes neither.
TransportsAgree == [][SameVerdictPadded]_vars
=============================================================================
