-------------------------------- MODULE Cobs --------------------------------
(***************************************************************************)
(* Consistent Overhead Byte Stuffing, the framing of the RS-422 byte       *)
(* stream (cobs.c).  An encoded frame is a sequence of blocks: a code byte *)
(* n followed by n-1 non-zero bytes.  Between two blocks stands the zero   *)
(* the encoder removed, except after a full block (code CodeMax), so that  *)
(* the encoded frame has no zero and a zero can delimit it.                *)
(*                                                                         *)
(* Both directions are recursive functions over the position where a block *)
(* starts.  The byte loops of cobs.c compute the same result in place; the *)
(* destination is taken to be large enough, as it is when it has the size  *)
(* that cobs.h gives for it, and for the parser, which decodes into a      *)
(* buffer of the size of the encoded one.                                  *)
(***************************************************************************)
EXTENDS Integers, Sequences

CONSTANT CodeMax      \* the code byte of a full block; 0xFF in cobs.c

ASSUME CodeMaxAssumption == CodeMax \in Nat /\ CodeMax >= 2

\* How many bytes of s from i on are not zero, at most a full block of them.
RunLength(s, i) ==
  LET run[k \in 0 .. CodeMax - 1] ==
        IF k = CodeMax - 1 \/ i + k > Len(s) \/ s[i + k] = 0
        THEN k ELSE run[k + 1]
  IN  run[0]

\* cobs_encode: the encoded form of s, when the destination has room for it.
CobsEncode(s) ==
  LET enc[i \in 1 .. Len(s) + 1] ==
        LET n     == RunLength(s, i)
            next  == i + n
            block == <<n + 1>> \o SubSeq(s, i, next - 1)
        IN  IF next > Len(s)       THEN block
            ELSE IF n = CodeMax - 1 THEN block \o enc[next]
            ELSE block \o enc[next + 1]     \* s[next] = 0 is the zero removed
  IN  enc[1]

\* The size of a destination for n encoded bytes.
COBS_ENCODE_DST_BUF_LEN_MAX(n) ==
  IF n = 0 THEN 1 ELSE n + (n + CodeMax - 2) \div (CodeMax - 1)

Malformed == [ok |-> FALSE, out |-> <<>>]

\* cobs_decode: what b decodes to.  A zero in b or a block that runs past the
\* end of b is an error, and the caller then ignores the bytes written.
CobsDecode(b) ==
  LET dec[i \in 1 .. Len(b) + 1] ==
        IF i > Len(b) \/ b[i] = 0 \/ i + b[i] - 1 > Len(b)
        THEN Malformed
        ELSE LET next == i + b[i]
                 data == SubSeq(b, i + 1, next - 1)
                 gap  == IF b[i] = CodeMax THEN <<>> ELSE <<0>>
                 rest == dec[next]
             IN  IF \E k \in 1 .. Len(data) : data[k] = 0 THEN Malformed
                 ELSE IF next > Len(b) THEN [ok |-> TRUE, out |-> data]
                 ELSE IF rest.ok
                      THEN [ok |-> TRUE, out |-> data \o gap \o rest.out]
                 ELSE Malformed
  IN  IF b = <<>> THEN [ok |-> TRUE, out |-> <<>>] ELSE dec[1]

\* The size of a destination for what n bytes decode to.
COBS_DECODE_DST_BUF_LEN_MAX(n) == IF n = 0 THEN 0 ELSE n - 1
=============================================================================
