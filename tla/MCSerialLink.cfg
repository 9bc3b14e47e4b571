SPECIFICATION LinkSpec
CONSTANTS
  CodeMax = 255
  Byte <- MCByte
  FRAME_MAX_LEN = 72
  FRAME_MIN_LEN = 25
  FRAME_LEN <- MCFrameLen
  CMD_RSP_TABLE <- MCReplies
  Crc16 <- MCCrc16
  StatMax = 2147483647
  Stream <- MCStream
  Corrupted <- MCCorrupted
  MaxFaults = 2
  FlippedBits = {0, 6}
PROPERTY CleanFrameDelivered OnlyLosesFrames
