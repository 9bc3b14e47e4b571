---------------------------- MODULE MCFrameParser ----------------------------
(* A parser small enough to be fed every byte stream: bytes 0 to 3, full     *)
(* COBS blocks of two bytes, two frame types of 3 and 4 bytes, one reply.    *)
EXTENDS FrameParser

MCFrameLen == <<3, 4>>
MCReplies  == <<[suffix |-> <<2, 2>>, type |-> 160],
                [suffix |-> <<3, 2>>, type |-> 161]>>

\* A checksum that depends on the length and on every byte, in range.
MCCrc16(d) == LET sum[i \in 0 .. Len(d)] == IF i = 0 THEN 0 ELSE sum[i - 1] + d[i]
              IN  <<sum[Len(d)] % 4, Len(d) % 4>>

=============================================================================
