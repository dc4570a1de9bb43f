---------------------------- MODULE MCBootloader ----------------------------
(* Instances of Bootloader for TLC: one unit per slot, so that a transfer   *)
(* is one chunk, and images that differ in version and signature only.      *)
EXTENDS Bootloader

SignedVersions(vs) == [version : vs, signed : {TRUE}, size : {1}]
ThreeReleases == SignedVersions(1 .. 3)
TwoReleasesOneBad == SignedVersions(1 .. 2) \cup [version : {2}, signed : {FALSE}, size : {1}]

MCSectors == [s \in Slots |-> Units]

\* Every place where a step of the device can be interrupted ...
CutAnywhere == PCs
\* ... and the ones outside the boot path's and the handshake's commits.
CutOutsideCommits == PCs \ {"boot_program", "clear_program"}
NoCut == {}

\* make flash writes slot A.
SlotA == {"A"}
NoSlots == {}

\* A host with the device's whole vocabulary, an image too big for a slot included.
MCHost ==
  [type : {"PING", "OTA_END"}, seq : Seqs]
    \cup [type : {"OTA_BEGIN"}, seq : Seqs, slot : Slots, size : {1, SlotUnits + 1}]
    \cup [type : {"OTA_CHUNK"}, seq : Seqs, offset : {0}, data : Images]
=============================================================================
