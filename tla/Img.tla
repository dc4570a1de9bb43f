-------------------------------- MODULE Img --------------------------------
(***************************************************************************)
(* lib/img and the boot loader's verify_slot: the pure decisions the boot  *)
(* path, the OTA receiver and the application handshake share.             *)
(*                                                                         *)
(* A metadata sector is what img_slot_metadata_parse makes of it: a record *)
(* of the three fields the code reads, or NoMeta when the blob does not    *)
(* parse (erased, torn or corrupt).  A slot's payload region is a function *)
(* from 64 KB units to what the unit holds: its part of a built image,     *)
(* Erased flash, or Garbage (a torn write, or bits of two images ANDed).   *)
(***************************************************************************)
EXTENDS Integers

CONSTANTS
  U32Max,     (* the largest uint32_t, UINT32_MAX                          *)
  SlotUnits,  (* FLASH_SLOT_SIZE in units of 64 KB                         *)
  Images,     (* built images: [version, signed, size]                     *)
  NoMeta,     (* a metadata sector that does not parse                     *)
  Erased, Garbage

U32 == 0 .. U32Max
Units == 0 .. SlotUnits - 1
IMG_FAIL_COUNT_MAX == 3

Metadata == [active : {0, 1},
             fail_count : 0 .. IMG_FAIL_COUNT_MAX,
             monotonic_counter : U32]

ASSUME U32Assumption == U32Max \in Nat
ASSUME UnitsAssumption == SlotUnits \in Nat \ {0}
\* Every image carries a uint32 version, whether verify_slot's type, SHA-256
\* and ECDSA checks accept it when it is stored whole, and its size in units.
ASSUME ImagesAssumption ==
  Images \subseteq [version : U32, signed : BOOLEAN, size : 1 .. SlotUnits]
ASSUME SentinelAssumption ==
  /\ NoMeta \notin Metadata
  /\ Erased \notin Images /\ Garbage \notin Images /\ Erased # Garbage

Content == [Units -> Images \cup {Erased, Garbage}]

-----------------------------------------------------------------------------
(* lib/img/src/img_header.c                                                *)

\* img_slot_metadata_parse(...) = IMG_OK.
img_slot_metadata_parse(md) == md # NoMeta

\* Mutant: the floor gate is not there.
NoFloorGate(version, floor) == TRUE

img_header_meets_floor(version, floor) == version >= floor

img_compute_new_floor(current, version) ==
  IF version > current THEN version ELSE current

\* The highest counter of the blobs that parse; 0 on a pristine chip.
img_compute_floor(a, b) ==
  LET counter(md) == IF img_slot_metadata_parse(md) THEN md.monotonic_counter ELSE 0
  IN  img_compute_new_floor(counter(a), counter(b))

img_fail_count_increment(fc) ==
  IF fc >= IMG_FAIL_COUNT_MAX THEN IMG_FAIL_COUNT_MAX ELSE fc + 1

img_fail_count_tripped(fc) == fc >= IMG_FAIL_COUNT_MAX

\* The decision tree of the boot path and of the OTA receiver.
img_pick_active_slot(a, b) ==
  IF img_slot_metadata_parse(a) /\ img_slot_metadata_parse(b)
  THEN IF a.active # b.active
       THEN IF a.active = 1 THEN "A" ELSE "B"
       ELSE IF b.monotonic_counter > a.monotonic_counter THEN "B" ELSE "A"
  ELSE IF ~img_slot_metadata_parse(a) /\ img_slot_metadata_parse(b) THEN "B" ELSE "A"

-----------------------------------------------------------------------------
(* apps/bootloader/loader/verify.c                                         *)

\* The header that img_header_parse accepts is the one of the image whose
\* first unit is at the slot's base.
img_header_parse(c) == c[0] \in Images

\* Mutant: the signature covers the header, and the payload's hash is not
\* compared with the header's.
HeaderOnly(c) == img_header_parse(c) /\ c[0].signed

\* verify_slot(...) = VERIFY_OK: a header parses, every byte the header covers
\* is that image's (SHA-256), and the image is an APP with a good signature.
verify_slot(c) ==
  /\ img_header_parse(c)
  /\ c[0].signed
  /\ \A u \in Units : u < c[0].size => c[u] = c[0]
=============================================================================
