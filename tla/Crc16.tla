------------------------------- MODULE Crc16 -------------------------------
(***************************************************************************)
(* frame_crc16 of lib/framing/src/framing.c, with bytes of Bits bits.      *)
(***************************************************************************)
EXTENDS Naturals, SequencesExt, Bitwise

CONSTANTS
  Bits,
  Poly                     (* of the CRC, which has 2 * Bits bits *)

Width == 2 ^ (2 * Bits)

Shift(crc) == IF crc >= Width \div 2 THEN (2 * crc - Width) ^^ Poly ELSE 2 * crc
CrcByte(crc, b) == FoldSeq(LAMBDA bit, c : Shift(c), crc ^^ (b * 2 ^ Bits), [bit \in 1 .. Bits |-> bit])
frame_crc16(bytes) == FoldLeft(CrcByte, Width - 1, bytes)
=============================================================================
