--------------------------- MODULE MCOtaTransfer ---------------------------
(* Instances of OtaTransfer for TLC: the real geometry of 64 KB units, an   *)
(* old release in the slots and newer ones, one of them unsigned, to send.  *)
EXTENDS OtaTransfer

Release(v, n) == [version |-> v, signed |-> TRUE, size |-> n]
Unsigned(v, n) == [version |-> v, signed |-> FALSE, size |-> n]

AllReleases == {Release(1, 3), Release(2, 3), Unsigned(2, 2)}
GoodReleases == {Release(1, 3), Release(2, 2)}

Filled(i) == [u \in Units |-> IF u < i.size THEN i ELSE Erased]
OldContents == {[u \in Units |-> Erased], Filled(Release(1, 3))}

\* flash_slot.c: slot A is sectors 4 and 5, slot B sector 6 alone.
RealSectors == [s \in Slots |-> IF s = "A" THEN 0 .. 2 ELSE 0 .. 1]

\* A slot B whose build fits the sector it erases.
WholeSectors == [s \in Slots |-> Units]

MCSeqs == 0 .. SeqMod - 1
=============================================================================
