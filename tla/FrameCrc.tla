------------------------------ MODULE FrameCrc ------------------------------
(* The checksum of a data frame, with its table (oscp_imu.c).  It needs the  *)
(* bitwise operators, so it stays out of the modules that are proved about.  *)
EXTENDS Integers, Sequences, Bitwise

\* CRC_LUT[2^k].  The table is linear: every other entry is the exclusive or
\* of the entries of the bits its index is made of.
CrcOfBit == <<\hA2EB, \hE73D, \h6C91, \hD922, \h10AF, \h215E, \h42BC, \h8578>>

CRC_LUT ==
  [i \in 0 .. 255 |->
     LET acc[k \in 0 .. 8] ==
           IF k = 0 THEN 0
           ELSE IF (i \div 2^(k - 1)) % 2 = 1 THEN acc[k - 1] ^^ CrcOfBit[k]
           ELSE acc[k - 1]
     IN  acc[8]]

\* oscp_crc16, as the two bytes that follow the payload on the wire.  step is a
\* function, not an operator, so that TLC evaluates its argument once.
FrameCrc16(d) ==
  LET step[crc \in 0 .. \hFFFF, byte \in 0 .. 255] ==
        ((crc % 256) * 256) ^^ CRC_LUT[(crc \div 256) ^^ byte]
      sum[k \in 0 .. Len(d)] == IF k = 0 THEN \hFFFF ELSE step[sum[k - 1], d[k]]
      bytes == [crc \in 0 .. \hFFFF |-> <<crc % 256, crc \div 256>>]
  IN  bytes[sum[Len(d)]]
=============================================================================
