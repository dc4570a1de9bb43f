----------------------------- MODULE FlashSlot -----------------------------
(***************************************************************************)
(* lib/flash over drivers/src/flash.c: erasing and programming the two     *)
(* slots' payload regions and metadata sectors, one flash operation per    *)
(* step, with the outcomes a failing or interrupted operation can leave.   *)
(***************************************************************************)
EXTENDS Img

CONSTANTS
  FlashFails,  (* may a flash operation report an error?                   *)
  Sectors,     (* Sectors[s]: the units flash_slot_erase(s) erases         *)
  NoCommit     (* no metadata commit is in progress                        *)

Slots == {"A", "B"}
Other(s) == IF s = "A" THEN "B" ELSE "A"
Commits == [slot : Slots, md : Metadata]

ASSUME SectorsAssumption == Sectors \in [Slots -> SUBSET Units]
ASSUME FlashAssumption == FlashFails \in BOOLEAN /\ NoCommit \notin Commits

VARIABLES
  pc,      (* where the one thread of the device is                        *)
  image,   (* payload regions: [Slots -> Content]                          *)
  meta,    (* metadata sectors: [Slots -> Metadata \cup {NoMeta}]          *)
  commit   (* arguments of the flash_slot_commit_metadata call in progress *)

flashVars == <<pc, image, meta, commit>>

-----------------------------------------------------------------------------
(* Payload regions.                                                        *)

AllErased == [u \in Units |-> Erased]

\* flash_slot_erase(s) = ERR_OK.
flash_slot_erase(s) ==
  image' = [image EXCEPT ![s] = [u \in Units |->
                                   IF u \in Sectors[s] THEN Erased ELSE image[s][u]]]

\* The erase goes from sector to sector.  When it fails or is interrupted, the
\* units below k are erased, those from k to j, of the sector it was working
\* on, hold nothing that parses or verifies, and the rest is untouched.
TornErase(s) ==
  \E k \in 0 .. SlotUnits : \E j \in k .. SlotUnits :
    image' = [image EXCEPT ![s] = [u \in Units |->
                CASE u \notin Sectors[s] \/ u >= j -> image[s][u]
                  [] u \in Sectors[s] /\ u < k -> Erased
                  [] OTHER -> Garbage]]

\* Programming can only clear bits: it yields the image's unit over erased
\* flash or over the same data, and garbage over anything else.
flash_write_bytes(s, u, img) ==
  image' = [image EXCEPT ![s][u] = IF image[s][u] \in {Erased, img} THEN img ELSE Garbage]

\* An interrupted or failing write stops before the first byte or after some.
TornWrite(s, u) ==
  image' = image \/ image' = [image EXCEPT ![s][u] = Garbage]

-----------------------------------------------------------------------------
(* flash_slot_commit_metadata: erase the sector, program the blob, compare *)
(* it with what is read back.  The caller says where control goes next.    *)

CommitErase(here, next, failed) ==
  /\ pc = here
  /\ \/ /\ meta' = [meta EXCEPT ![commit.slot] = NoMeta]
        /\ pc' = next
        /\ UNCHANGED commit
     \/ /\ FlashFails
        /\ \/ meta' = meta
           \/ meta' = [meta EXCEPT ![commit.slot] = NoMeta]
        /\ pc' = failed
        /\ commit' = NoCommit
  /\ UNCHANGED image

\* The CRC is the blob's last field: until its last byte is programmed the
\* sector does not parse, and neither does a blob that reads back different.
\* "then" is the commit the caller goes on with when this one succeeds.
CommitProgram(here, ok, then, failed) ==
  /\ pc = here
  /\ \/ /\ meta' = [meta EXCEPT ![commit.slot] = commit.md]
        /\ pc' = ok
        /\ commit' = then
     \/ /\ FlashFails
        /\ meta' = meta
        /\ pc' = failed
        /\ commit' = NoCommit
  /\ UNCHANGED image
=============================================================================
