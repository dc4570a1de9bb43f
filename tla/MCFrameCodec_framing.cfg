SPECIFICATION DecoderSpec
CONSTANTS
  Base = 4
  FLAG = 3
  ESC = 2
  ESC_XOR = 2
  Xor <- MCXor
  Checksum <- MCCrc
  TypeMax = 1
  BufSize = 1
  MaxRaw = 12
INVARIANTS
  CodecTypeOK
  FramesAreExact
  EncodedIsDecoded
