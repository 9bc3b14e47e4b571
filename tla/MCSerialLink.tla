---------------------------- MODULE MCSerialLink ----------------------------
(* The parser with the constants of oscp_imu.c, its checksum included, on a  *)
(* short stream of real frames: attitude frames of 25 bytes and the reply to *)
(* a command, with the faults a byte can meet on the line.                   *)
EXTENDS SerialLink, FrameCrc

\* "Command succeed.\r\n" and its three companions.
CommandSucceed == <<67, 111, 109, 109, 97, 110, 100, 32, 115, 117, 99, 99, 101, 101, 100, 46, 13, 10>>
CommandFailed  == <<67, 111, 109, 109, 97, 110, 100, 32, 102, 97, 105, 108, 101, 100, 46, 13, 10>>
IsErroneous    == <<32, 105, 115, 32, 101, 114, 114, 111, 110, 101, 111, 117, 115, 46, 13, 10>>
NotImplemented == <<32, 110, 111, 116, 32, 105, 109, 112, 108, 101, 109, 101, 110, 116, 101, 100,
                    32, 121, 101, 116, 46, 13, 10>>
ThisCommand    == <<84, 104, 105, 115, 32, 99, 111, 109, 109, 97, 110, 100>>

MCFrameLen == <<61, 25, 29, 49, 64, 58, 58, 40>>
MCReplies ==
  <<[suffix |-> CommandSucceed, type |-> 160],
    [suffix |-> CommandFailed, type |-> 161],
    [suffix |-> ThisCommand \o IsErroneous, type |-> 162],
    [suffix |-> ThisCommand \o NotImplemented, type |-> 163]>>

\* Attitude frames (type 1): header, counter, angles of which two are zero and
\* the checksum, which the assumption compares with oscp_crc16's.
EulerBytes ==
  << <<1, 1, 0, 0, 8, 15, 22, 29, 36, 43, 50, 57, 64, 71, 78, 0, 0, 0, 0, 0, 0, 0, 0, 172, 177>>,
     <<1, 2, 0, 0, 9, 16, 23, 30, 37, 44, 51, 58, 65, 72, 79, 0, 0, 0, 0, 0, 0, 0, 0, 109, 14>>,
     <<1, 3, 0, 0, 10, 17, 24, 31, 38, 45, 52, 59, 66, 73, 80, 0, 0, 0, 0, 0, 0, 0, 0, 145, 131>> >>
ASSUME EulerAssumption == \A i \in 1 .. 3 : CrcCheck(EulerBytes[i])

Euler(i) == [type |-> 1, payload |-> EulerBytes[i], bytes |-> EulerBytes[i]]

Succeeded == [type |-> 160, payload |-> <<>>, bytes |-> CommandSucceed]
Failed    == [type |-> 161, payload |-> <<>>, bytes |-> CommandFailed]

CONSTANT FlippedBits

\* Three attitude frames without their delimiters overflow the buffer.
MCStream == <<Succeeded, Euler(1), Euler(2), Euler(3), Failed>>
MCByte == 0 .. 255
MCCorrupted(byte) == {byte ^^ (2^k) : k \in FlippedBits}
MCCrc16(d) == FrameCrc16(d)
=============================================================================
