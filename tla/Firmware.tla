------------------------------ MODULE Firmware ------------------------------
(***************************************************************************)
(* What the A/B boot loader promises its user, with slots, metadata, OTA   *)
(* frames and power cuts left out: the device holds one installed version, *)
(* runs that version and no other, and changes it only while nothing runs, *)
(* in one step, to a newer one.                                            *)
(***************************************************************************)
EXTENDS Naturals

CONSTANTS
  Versions,   (* a set of natural numbers *)
  NoVersion   (* not one of them *)

VARIABLES
  installed,  (* the version that the next start runs                      *)
  executing   (* the version that is running, NoVersion between runs       *)

fwVars == <<installed, executing>>

FwInit ==
  /\ installed \in Versions \cup {NoVersion}
  /\ executing = NoVersion

Start ==
  /\ executing = NoVersion /\ installed # NoVersion
  /\ executing' = installed
  /\ UNCHANGED installed

Stop ==
  /\ executing # NoVersion
  /\ executing' = NoVersion
  /\ UNCHANGED installed

Install(v) ==
  /\ executing = NoVersion
  /\ installed # NoVersion => v > installed
  /\ installed' = v
  /\ UNCHANGED executing

FwNext == Start \/ Stop \/ \E v \in Versions : Install(v)

FwSpec == FwInit /\ [][FwNext]_fwVars
=============================================================================
