---------------------------- MODULE MCFrameCodec ----------------------------
(* FrameCodec for TLC: two-bit bytes with their CRC, payloads of up to one *)
(* byte.                                                                   *)
EXTENDS FrameCodec

LOCAL BitByBit == INSTANCE Bitwise
LOCAL Crc == INSTANCE Crc16 WITH Bits <- 2, Poly <- 3

MCXor(a, b) == BitByBit!^^(a, b)
MCCrc(bytes) == Crc!frame_crc16(bytes)
=============================================================================
