----------------------------- MODULE FrameCodec -----------------------------
(***************************************************************************)
(* The framing codec (lib/framing/src/framing.c): frame_encode, and the    *)
(* decoder that is fed one byte at a time, against a reference that looks  *)
(* at a whole frame at once.  Bytes have Base values (256 in the code),    *)
(* and the header has two length bytes and the trailer two CRC bytes       *)
(* whatever that is.  The CRC itself is in Crc16.                          *)
(***************************************************************************)
EXTENDS Naturals, Sequences

CONSTANTS
  Base,
  FLAG, ESC, ESC_XOR,
  Xor(_, _),               (* of two bytes, bit by bit *)
  Checksum(_),             (* the checksum of a string of bytes *)
  TypeMax,                 (* FRAME_TYPE__MAX *)
  BufSize,                 (* payload_buf_size, at most FRAME_MAX_PAYLOAD *)
  MaxRaw                   (* bound: bytes between two FLAGs *)

Byte == 0 .. Base - 1

ASSUME CodecAssumption ==
  /\ Base \in Nat /\ Base > 1 /\ MaxRaw \in Nat
  /\ FLAG \in Byte /\ ESC \in Byte /\ FLAG # ESC
  /\ TypeMax \in Byte /\ BufSize \in Nat /\ BufSize < Base * Base

\* What is sent for a FLAG or an ESC is neither, and leads back to it.
ASSUME XorAssumption ==
  /\ \A b \in Byte : Xor(b, ESC_XOR) \in Byte
  /\ \A b \in {FLAG, ESC} :
       Xor(b, ESC_XOR) \notin {FLAG, ESC} /\ Xor(Xor(b, ESC_XOR), ESC_XOR) = b

Messages ==
  [seq : Byte, type : 0 .. TypeMax, payload : UNION {[1 .. n -> Byte] : n \in 0 .. BufSize}]

VARIABLES
  in_frame, field_idx, seq, type, declared_len,
  payload,                 (* payload_buf up to payload_idx *)
  crc_bytes,               (* up to crc_idx *)
  in_escape, dropping,
  raw,                     (* history: the bytes since the last FLAG *)
  heard,                   (* history: the callbacks since then *)
  closed                   (* history: the last step was the FLAG that ended them *)

decoder == <<in_frame, field_idx, seq, type, declared_len, payload, crc_bytes, in_escape, dropping>>
decoderVars == <<decoder, raw, heard, closed>>

-----------------------------------------------------------------------------
(* The encoder.                                                            *)

\* Mutant: only the FLAG is escaped.
EscapesFlag(b) == IF b = FLAG THEN <<ESC, Xor(b, ESC_XOR)>> ELSE <<b>>

emit_stuffed(b) == IF b \in {FLAG, ESC} THEN <<ESC, Xor(b, ESC_XOR)>> ELSE <<b>>

Stuffed(bytes) ==
  LET out[i \in 0 .. Len(bytes)] == IF i = 0 THEN <<>> ELSE out[i - 1] \o emit_stuffed(bytes[i])
  IN  out[Len(bytes)]

Header(f) == <<f.seq, f.type, Len(f.payload) % Base, Len(f.payload) \div Base>>
Trailer(crc) == <<crc % Base, crc \div Base>>
WorstCase(n) == 2 + 2 * (6 + n)

Content(f) ==
  LET body == Header(f) \o f.payload
  IN  body \o Trailer(Checksum(body))

\* frame_encode of a payload and a type it takes.
frame_encode(f) == <<FLAG>> \o Stuffed(Content(f)) \o <<FLAG>>

\* Two bytes hold the CRC.
ASSUME CrcAssumption ==
  \A f \in Messages : Checksum(Header(f) \o f.payload) \in 0 .. Base * Base - 1

-----------------------------------------------------------------------------
(* The decoder.                                                            *)

DecoderInit ==
  /\ in_frame = FALSE /\ field_idx = 0 /\ seq = 0 /\ type = 0 /\ declared_len = 0
  /\ payload = <<>> /\ crc_bytes = <<>> /\ in_escape = FALSE /\ dropping = FALSE
  /\ raw = <<>> /\ heard = <<>> /\ closed = FALSE

\* Mutant: the escape survives the FLAG.
KeepsEscape ==
  /\ field_idx' = 0 /\ seq' = 0 /\ type' = 0 /\ declared_len' = 0
  /\ payload' = <<>> /\ crc_bytes' = <<>> /\ UNCHANGED in_escape /\ dropping' = FALSE

decoder_clear_frame_state ==
  /\ field_idx' = 0 /\ seq' = 0 /\ type' = 0 /\ declared_len' = 0
  /\ payload' = <<>> /\ crc_bytes' = <<>> /\ in_escape' = FALSE /\ dropping' = FALSE

Error(err) == <<"error", err>>

\* The whole frame is there, and nothing more.
Whole == ~in_escape /\ field_idx = 4 /\ Len(payload) = declared_len /\ Len(crc_bytes) = 2

Intact ==
  Checksum(<<seq, type, declared_len % Base, declared_len \div Base>> \o payload)
    = crc_bytes[1] + Base * crc_bytes[2]

\* What decoder_finalize reports: nothing for an empty frame and for one that
\* was dropped, which has been reported.
Report ==
  IF dropping \/ (~in_escape /\ field_idx = 0) THEN <<>>
  ELSE IF ~Whole THEN <<Error("TRUNC")>>
  ELSE IF ~Intact THEN <<Error("CRC")>>
  ELSE IF type > TypeMax THEN <<Error("BAD_TYPE")>>
  ELSE << <<"frame", [seq |-> seq, type |-> type, payload |-> payload]>> >>

Flag ==
  /\ heard' = (IF closed THEN <<>> ELSE heard) \o (IF in_frame THEN Report ELSE <<>>)
  /\ closed' = in_frame
  /\ raw' = IF closed THEN <<>> ELSE raw
  /\ decoder_clear_frame_state
  /\ in_frame' = TRUE

\* decoder_drop, of a frame that is not dropped yet.
Drop(err) ==
  /\ dropping' = TRUE /\ heard' = Append(heard, Error(err))
  /\ UNCHANGED <<payload, crc_bytes>>

\* Mutant: a length is accepted that the buffer cannot hold.
OneTooLong(len) == len > BufSize + 1

TooLong(len) == len > BufSize

\* decoder_consume_byte.
HeaderByte(b) ==
  /\ field_idx < 4 /\ field_idx' = field_idx + 1
  /\ seq' = IF field_idx = 0 THEN b ELSE seq
  /\ type' = IF field_idx = 1 THEN b ELSE type
  /\ declared_len' = IF field_idx = 2 THEN b
                     ELSE IF field_idx = 3 THEN declared_len + Base * b ELSE declared_len
  /\ IF field_idx = 3 /\ TooLong(declared_len')
     THEN Drop("OVERSIZE")
     ELSE UNCHANGED <<dropping, heard, payload, crc_bytes>>

BodyByte(b) ==
  /\ field_idx = 4
  /\ \/ /\ Len(payload) < declared_len
        /\ payload' = Append(payload, b) /\ UNCHANGED <<crc_bytes, dropping, heard>>
     \/ /\ Len(payload) >= declared_len /\ Len(crc_bytes) < 2
        /\ crc_bytes' = Append(crc_bytes, b) /\ UNCHANGED <<payload, dropping, heard>>
     \/ /\ Len(payload) >= declared_len /\ Len(crc_bytes) >= 2
        /\ Drop("TRUNC")
  /\ UNCHANGED <<field_idx, seq, type, declared_len>>

decoder_consume_byte(b) ==
  IF dropping
  THEN UNCHANGED <<field_idx, seq, type, declared_len, payload, crc_bytes, dropping, heard>>
  ELSE HeaderByte(b) \/ BodyByte(b)

Escape ==
  /\ in_escape' = ~in_escape
  /\ IF in_escape /\ ~dropping THEN Drop("TRUNC") ELSE UNCHANGED <<dropping, heard, payload, crc_bytes>>
  /\ UNCHANGED <<field_idx, seq, type, declared_len>>

Unstuffed(b) == IF in_escape THEN Xor(b, ESC_XOR) ELSE b

\* frame_decoder_feed of a byte other than FLAG; outside of a frame it is ignored.
Feed(b) ==
  /\ ~closed /\ Len(raw) < MaxRaw /\ in_frame
  /\ raw' = Append(raw, b)
  /\ IF b = ESC THEN Escape ELSE in_escape' = FALSE /\ decoder_consume_byte(Unstuffed(b))
  /\ UNCHANGED <<in_frame, closed>>

\* A history step: the frame that has been reported is forgotten.
Forget == closed /\ closed' = FALSE /\ raw' = <<>> /\ heard' = <<>> /\ UNCHANGED decoder

frame_decoder_reset ==
  /\ in_frame' = FALSE
  /\ decoder_clear_frame_state
  /\ raw' = <<>> /\ heard' = <<>> /\ closed' = FALSE

DecoderNext ==
  \/ Flag \/ Forget \/ frame_decoder_reset
  \/ \E b \in Byte \ {FLAG} : Feed(b)

DecoderSpec == DecoderInit /\ [][DecoderNext]_decoderVars

-----------------------------------------------------------------------------
(* The reference, and properties.                                          *)

\* The bytes a line of them stands for; bad: an ESC was followed by another.
UnescapeByte(u, b) ==
  IF b = ESC THEN [bytes |-> u.bytes, esc |-> ~u.esc, bad |-> u.bad \/ u.esc]
  ELSE [bytes |-> Append(u.bytes, IF u.esc THEN Xor(b, ESC_XOR) ELSE b), esc |-> FALSE, bad |-> u.bad]

Unescaped(bytes) ==
  LET u[i \in 0 .. Len(bytes)] ==
        IF i = 0 THEN [bytes |-> <<>>, esc |-> FALSE, bad |-> FALSE]
        ELSE UnescapeByte(u[i - 1], bytes[i])
  IN  u[Len(bytes)]

\* The one frame that these bytes can be, if they are one.
Candidates(bytes) ==
  LET u == Unescaped(bytes).bytes
      n == Len(u) - 6
  IN  IF n \in 0 .. BufSize /\ u[2] \in 0 .. TypeMax
      THEN {[seq |-> u[1], type |-> u[2], payload |-> SubSeq(u, 5, 4 + n)]} ELSE {}

IsFrame(bytes, f) ==
  LET u == Unescaped(bytes)
  IN  ~u.bad /\ ~u.esc /\ u.bytes = Content(f)

CodecTypeOK ==
  /\ in_frame \in BOOLEAN /\ in_escape \in BOOLEAN /\ dropping \in BOOLEAN
  /\ field_idx \in 0 .. 4 /\ seq \in Byte /\ type \in Byte /\ declared_len < Base * Base
  /\ Len(payload) <= BufSize /\ Len(crc_bytes) <= 2

\* Whatever came before, a FLAG ends what is a frame with one delivery of that
\* frame, and anything else but nothing with one error: no damaged, truncated
\* or stale byte gets into a payload, and the decoder is in step again with the
\* next FLAG (framing.c:217-384).
FramesAreExact ==
  closed =>
    /\ raw = <<>> <=> heard = <<>>
    /\ Len(heard) <= 1
    /\ raw # <<>> /\ heard[1][1] = "frame" => IsFrame(raw, heard[1][2])
    /\ raw # <<>> /\ heard[1][1] = "error" => ~\E f \in Candidates(raw) : IsFrame(raw, f)

\* What frame_encode makes of a frame is delivered as that frame, and fits in
\* the worst case it demands of its caller (framing.c:59-147).
EncodedIsDecoded ==
  ~in_frame =>
    \A f \in Messages :
      LET out == frame_encode(f)
          inner == SubSeq(out, 2, Len(out) - 1)
      IN  /\ Len(out) <= WorstCase(Len(f.payload))
          /\ \A i \in 1 .. Len(inner) : inner[i] # FLAG
          /\ IsFrame(inner, f)
=============================================================================
