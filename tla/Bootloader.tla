----------------------------- MODULE Bootloader -----------------------------
(***************************************************************************)
(* The A/B boot loader as one thread: apps/bootloader/loader/main.c (boot  *)
(* path), the OTA receiver of OtaReceiver, and the application's side of   *)
(* the contract (lib/bl_handshake and the ota_request command), with a     *)
(* power cut or reset possible before every flash operation.               *)
(*                                                                         *)
(* pc names the step that comes next:                                      *)
(*   boot                          reset vector, RTC magic not yet read    *)
(*   boot_erase, boot_program      commit_post_boot_metadata               *)
(*   app, app_up                   the application before and after its    *)
(*                                 handshake                               *)
(*   clear_erase, clear_program    bl_handshake_clear_fail_count           *)
(*   ota                           the OTA receive loop                    *)
(*   target_*, prev_*, done        swap_active_slot and the reset after it *)
(*   halt                          bootloader_halt                         *)
(***************************************************************************)
EXTENDS OtaReceiver

CONSTANTS
  CutAt,           (* values of pc at which a power cut may strike         *)
  ReusesVersions,  (* may an image be sent whose version equals the floor? *)
  HostSends,       (* the frames the host's end of the line can produce    *)
  MaxReceived,     (* bound: chunks a session accepts                      *)
  Provisioned      (* slots that hold an image when the chip is delivered  *)

AppSteps == {"app", "app_up", "clear_erase", "clear_program"}
PCs == {"boot", "boot_erase", "boot_program", "halt"} \cup AppSteps \cup OtaSteps

ASSUME CutAssumption == CutAt \subseteq PCs
ASSUME HostAssumption == HostSends \subseteq Frames /\ ReusesVersions \in BOOLEAN
ASSUME BoundAssumption == MaxReceived \in Nat
ASSUME ProvisionedAssumption == Provisioned \subseteq Slots

VARIABLES
  dr0,      (* does RTC_BKP_DR0 hold RTC_BACKUP_OTA_MAGIC?                 *)
  running,  (* the slot jumped to, as the application reads it from VTOR   *)
  floor,    (* the rollback floor main() computed at its latest boot       *)
  streak,   (* history: jumps to a slot's image since it was written or    *)
            (* its fail_count was last zero                                *)
  fresh     (* history: slot a finished OTA left for the next boot         *)

vars == <<pc, image, meta, commit, sess, dr0, running, floor, streak, fresh>>

-----------------------------------------------------------------------------
(* The boot decision of main().                                            *)

\* Mutant: the fail_count is written but never looked at.
TryWithoutFailCount(s, fl) ==
  /\ verify_slot(image[s])
  /\ img_header_meets_floor(image[s][0].version, fl)

try_boot_slot(s, fl) ==
  /\ ~(img_slot_metadata_parse(meta[s]) /\ img_fail_count_tripped(meta[s].fail_count))
  /\ verify_slot(image[s])
  /\ img_header_meets_floor(image[s][0].version, fl)

\* The slot main() would jump to from this flash content, or NoSlot.
BootChoice ==
  LET first == scan_active_slot
      fl    == scan_max_monotonic
  IN  IF try_boot_slot(first, fl) THEN first
      ELSE IF try_boot_slot(Other(first), fl) THEN Other(first)
      ELSE NoSlot

\* The blob commit_post_boot_metadata builds for the winning slot.
PostBootMeta(s) ==
  LET old   == meta[s]
      known == img_slot_metadata_parse(old)
      raised == img_compute_new_floor(scan_max_monotonic, image[s][0].version)
  IN  [active |-> 1,
       fail_count |-> img_fail_count_increment(IF known THEN old.fail_count ELSE 0),
       monotonic_counter |->
         IF known THEN img_compute_new_floor(raised, old.monotonic_counter) ELSE raised]

Stored(img) == [u \in Units |-> IF u < img.size THEN img ELSE Erased]

\* A chip as provisioned: the slots empty or flashed over the debug port, no
\* metadata yet.
Init ==
  /\ pc = "boot"
  /\ image \in [Slots -> {AllErased} \cup {Stored(i) : i \in Images}]
  /\ \A s \in Provisioned : image[s] # AllErased
  /\ meta = [s \in Slots |-> NoMeta]
  /\ commit = NoCommit
  /\ sess = NoSess
  /\ dr0 = FALSE
  /\ running = NoSlot
  /\ floor = 0
  /\ streak = [s \in Slots |-> 0]
  /\ fresh = NoSlot

-----------------------------------------------------------------------------
(* Boot path.                                                              *)

EnterOta ==
  /\ pc = "boot" /\ dr0
  /\ dr0' = FALSE
  /\ pc' = "ota"
  /\ sess' = NewSession
  /\ fresh' = NoSlot
  /\ UNCHANGED <<image, meta, commit, running, floor, streak>>

BootSlot ==
  /\ pc = "boot" /\ ~dr0
  /\ floor' = scan_max_monotonic
  /\ fresh' = NoSlot
  /\ IF BootChoice = NoSlot
     THEN pc' = "halt" /\ UNCHANGED <<commit, running>>
     ELSE /\ pc' = "boot_erase"
          /\ commit' = [slot |-> BootChoice, md |-> PostBootMeta(BootChoice)]
          /\ running' = BootChoice
  /\ UNCHANGED <<image, meta, sess, dr0, streak>>

\* commit_post_boot_metadata; the jump follows whether or not it succeeds.
CommitAndJump ==
  /\ \/ CommitErase("boot_erase", "boot_program", "app")
     \/ CommitProgram("boot_program", "app", NoCommit, "app")
  /\ streak' = IF pc' = "app" /\ streak[running] <= IMG_FAIL_COUNT_MAX
               THEN [streak EXCEPT ![running] = @ + 1] ELSE streak
  /\ UNCHANGED <<sess, dr0, running, floor, fresh>>

-----------------------------------------------------------------------------
(* The application.                                                        *)

\* Mutant: the blob is built afresh instead of from what was read.
ClearedAfresh(md) == [active |-> 1, fail_count |-> 0, monotonic_counter |-> 0]

ClearedMeta(md) == [md EXCEPT !.fail_count = 0]

\* bl_handshake_clear_fail_count on the slot VTOR points into: no commit when
\* the blob does not parse or its count is zero already.
AppHandshake ==
  /\ pc = "app"
  /\ LET md == meta[running]
     IN  IF img_slot_metadata_parse(md) /\ md.fail_count # 0
         THEN /\ pc' = "clear_erase"
              /\ commit' = [slot |-> running, md |-> ClearedMeta(md)]
         ELSE pc' = "app_up" /\ UNCHANGED commit
  /\ UNCHANGED <<image, meta, sess, dr0, running, floor, streak, fresh>>

CommitClear ==
  /\ \/ CommitErase("clear_erase", "clear_program", "app_up")
     \/ CommitProgram("clear_program", "app_up", NoCommit, "app_up")
  /\ streak' = IF img_slot_metadata_parse(meta'[running]) /\ meta'[running].fail_count = 0
               THEN [streak EXCEPT ![running] = 0] ELSE streak
  /\ UNCHANGED <<sess, dr0, running, floor, fresh>>

\* The reset that ends an application: crash, watchdog, reset pin or command,
\* and the reset button of a halted boot loader.
Restart ==
  /\ pc \in {"app", "app_up", "halt"}
  /\ pc' = "boot"
  /\ running' = NoSlot
  /\ UNCHANGED <<image, meta, commit, sess, dr0, floor, streak, fresh>>

\* cmd_ota_request; it runs from the command line, after the handshake.
AppRequestOta ==
  /\ pc = "app_up"
  /\ dr0' = TRUE
  /\ pc' = "boot"
  /\ running' = NoSlot
  /\ UNCHANGED <<image, meta, commit, sess, floor, streak, fresh>>

\* The documented recovery of a halted device: the operator sets the magic
\* over the debug port and resets.
OperatorForcesOta ==
  /\ pc = "halt"
  /\ dr0' = TRUE
  /\ pc' = "boot"
  /\ UNCHANGED <<image, meta, commit, sess, running, floor, streak, fresh>>

-----------------------------------------------------------------------------
(* The OTA session.                                                        *)

\* A slot that is rewritten starts a new count.
StreakFollowsImage ==
  streak' = [s \in Slots |-> IF image'[s] = image[s] THEN streak[s] ELSE 0]

HostMaySend(f) ==
  /\ f \in HostSends
  /\ f.type = "OTA_CHUNK" =>
       /\ sess.received_bytes < MaxReceived
       /\ f.data \in Images /\ f.data.version = sess.max_seen_counter => ReusesVersions

OtaFrame ==
  /\ pc = "ota"
  /\ \E f \in HostSends, r \in Replies \cup {None} : HostMaySend(f) /\ on_frame(f, r)
  /\ StreakFollowsImage
  /\ UNCHANGED <<dr0, running, floor, fresh>>

OtaSwapTarget ==
  /\ \E r \in Replies \cup {None} : SwapTarget(r)
  /\ IF pc' = "prev_erase"
     THEN /\ fresh' = sess.target_slot
          /\ streak' = [streak EXCEPT ![sess.target_slot] = 0]
     ELSE UNCHANGED <<fresh, streak>>
  /\ UNCHANGED <<dr0, running, floor>>

OtaSwapPrevious ==
  /\ \E r \in Replies \cup {None} : SwapPrevious(r)
  /\ UNCHANGED <<dr0, running, floor, streak, fresh>>

OtaDone ==
  /\ OtaReset
  /\ UNCHANGED <<dr0, running, floor, streak, fresh>>

-----------------------------------------------------------------------------
\* Power is lost and comes back.  An erase or write the receiver was doing is
\* torn; the RTC register survives only while the supply holds it.
PowerCut ==
  /\ pc \in CutAt
  /\ pc' = "boot"
  /\ dr0' \in {dr0, FALSE}
  /\ commit' = NoCommit
  /\ sess' = NoSess
  /\ running' = NoSlot
  /\ \/ image' = image
     \/ pc = "ota" /\ TornErase(Other(sess.prev_active))
     \/ /\ pc = "ota" /\ sess.state = "RECEIVING"
        /\ \E u \in 0 .. sess.expected_size - 1 : TornWrite(sess.target_slot, u)
  /\ StreakFollowsImage
  /\ UNCHANGED <<meta, floor, fresh>>

Next ==
  \/ EnterOta \/ BootSlot \/ CommitAndJump
  \/ AppHandshake \/ CommitClear \/ Restart \/ AppRequestOta
  \/ OperatorForcesOta
  \/ OtaFrame \/ OtaSwapTarget \/ OtaSwapPrevious \/ OtaDone
  \/ PowerCut

Spec == Init /\ [][Next]_vars

-----------------------------------------------------------------------------
(* Properties.                                                             *)

Before(target) == pc \in {"ota", "target_erase"} \/ (pc = "target_program" /\ pc' # target)

TypeOK ==
  /\ pc \in PCs
  /\ image \in [Slots -> Content]
  /\ meta \in [Slots -> Metadata \cup {NoMeta}]
  /\ commit \in Commits \cup {NoCommit}
  /\ sess \in Sessions \cup {NoSess}
  /\ dr0 \in BOOLEAN
  /\ running \in Slots \cup {NoSlot}
  /\ floor \in U32
  /\ streak \in [Slots -> 0 .. IMG_FAIL_COUNT_MAX + 1]
  /\ fresh \in Slots \cup {NoSlot}

\* Anti-rollback at run time: the image an application runs from is a
\* verified one, and no counter recorded anywhere in flash exceeds its
\* version, whatever was cut, torn or failed before (main.c, step 4).
RunningDominates ==
  pc \in AppSteps =>
    /\ verify_slot(image[running])
    /\ \A s \in Slots : img_slot_metadata_parse(meta[s]) =>
         meta[s].monotonic_counter <= image[running][0].version

\* Until the target's new metadata is in place, whatever the session does or
\* suffers - frames, failed or torn flash operations, a refusal, a power cut -
\* a previous slot that would boot still would (ota.c:35-39).
OldImageSurvives ==
  [][Before("prev_erase") /\ BootChoice = sess.prev_active
       => BootChoice' = sess.prev_active]_vars

\* Once the target's new metadata is in place, every later reset tries the
\* new image first, also from the middle of the second commit
\* (ota.c:45-48, ota.md:102-108).
FreshImageFirst ==
  fresh # NoSlot => scan_active_slot = fresh

\* ... and boots it: STATUS(ok) means a reset into the new image (main.c:8-10).
FreshImageBoots ==
  fresh # NoSlot => BootChoice = fresh

\* The floor never falls from one boot to a later one (img_header.h:154-159).
FloorMonotonic == [][floor' >= floor]_floor

\* An image that never reaches its handshake is jumped to at most
\* IMG_FAIL_COUNT_MAX times (img_header.h:169-173).
CrashLoopBounded == \A s \in Slots : streak[s] <= IMG_FAIL_COUNT_MAX

\* ... and so images cannot crash before their handshake over and over with
\* no handshake, no halt and no OTA session in between: try_boot_slot skips a
\* slot that has used up its count, and the other one too.
CrashLoopEnds ==
  []<><<pc = "app" /\ Restart>>_vars => []<>(pc \in {"app_up", "halt", "ota"})

-----------------------------------------------------------------------------
(* Bootloader implements Firmware.                                         *)

\* Metadata as it will be when the commit of the boot path or the handshake
\* that has erased its sector is complete.
SettledMeta ==
  IF pc \in {"boot_program", "clear_program"}
  THEN [meta EXCEPT ![commit.slot] = commit.md] ELSE meta

\* The version a slot can boot as far as signature and floor are concerned.
BootableVersion(s) ==
  IF /\ verify_slot(image[s])
     /\ img_header_meets_floor(image[s][0].version,
                               img_compute_floor(SettledMeta["A"], SettledMeta["B"]))
  THEN image[s][0].version ELSE NoSlot

\* Until its target's metadata is committed a session leaves the previous
\* slot the installed one; otherwise it is the first of the two that boots.
InstalledVersion ==
  LET first == IF pc \in {"ota", "target_erase", "target_program"} THEN sess.prev_active
               ELSE img_pick_active_slot(SettledMeta["A"], SettledMeta["B"])
  IN  IF BootableVersion(first) # NoSlot \/ pc \in {"ota", "target_erase", "target_program"}
      THEN BootableVersion(first) ELSE BootableVersion(Other(first))

ExecutingVersion ==
  IF pc \in AppSteps THEN image[running][0].version ELSE NoSlot

FW == INSTANCE Firmware WITH
        Versions <- U32, NoVersion <- NoSlot,
        installed <- InstalledVersion, executing <- ExecutingVersion

\* As long as releases bump the version and no power cut falls between the
\* erase and the program of a commit of the boot path or the handshake, slots, sessions, faults and fallbacks
\* look like one firmware register that only ever moves to newer versions.
ImplementsFirmware == FW!FwSpec
=============================================================================
