SPECIFICATION Spec
CONSTANTS
  CodeMax = 3
  Byte = {0, 1, 2, 3}
  FRAME_MAX_LEN = 5
  FRAME_MIN_LEN = 3
  FRAME_LEN <- MCFrameLen
  CMD_RSP_TABLE <- MCReplies
  Crc16 <- MCCrc16
  StatMax = 1
INVARIANT TypeOK BufferHoldsChunk
PROPERTY EveryChunkAccounted TransportsAgree
