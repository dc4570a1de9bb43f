-------------------------- MODULE BootloaderProofs --------------------------
(***************************************************************************)
(* Theorems about Bootloader, for every number of units, set of images,    *)
(* set of SEQs, host, and every choice of flash failures and power cuts.   *)
(*                                                                         *)
(* The inductive invariants are built up in layers: TypeOK with WellFormed *)
(* (which values the variables hold at which pc), Dominates (anti-rollback *)
(* at run time), Protected and FreshWins (the OTA session and its swap);   *)
(* FloorKept: the floor never falls.  Upgrade: a new image boots.  Loops:  *)
(* crash loops are bounded.  OneInstalled: the refinement to Firmware.     *)
(***************************************************************************)
EXTENDS Bootloader, OtaReceiverProofs

CommitSteps == {"boot_erase", "boot_program", "clear_erase", "clear_program",
                "target_erase", "target_program", "prev_erase", "prev_program"}
RunSteps == AppSteps \cup {"boot_erase", "boot_program"}

\* What TypeOK leaves open: the arguments of a commit are there while it runs,
\* the session while the receiver runs, and the slot while one is started.
WellFormed ==
  /\ pc \in CommitSteps => commit \in Commits
  /\ pc \in OtaSteps =>
       /\ sess \in Sessions
       /\ pc # "ota" \/ sess.state = "RECEIVING" => sess.target_slot \in Slots
  /\ pc \in RunSteps => running \in Slots

TypeInv == TypeOK /\ WellFormed

LEMMA Typed == TypeInv => ReceiverTyped
BY DEF TypeInv, TypeOK, WellFormed, ReceiverTyped, CommitSteps, SwapCommits

-----------------------------------------------------------------------------
(* Types.                                                                  *)

\* What the two commit steps of FlashSlot do to a well-formed state.
LEMMA CommitStepTypes ==
  ASSUME TypeInv,
         NEW here \in CommitSteps, NEW p1 \in PCs, NEW p2 \in PCs,
         NEW then \in Commits \cup {NoCommit},
         CommitErase(here, p1, p2) \/ CommitProgram(here, p1, then, p2)
  PROVE  /\ pc = here /\ pc' \in {p1, p2}
         /\ image' = image
         /\ meta' \in [Slots -> Metadata \cup {NoMeta}]
         /\ commit' \in {commit, then, NoCommit}
         /\ commit' \in Commits \cup {NoCommit}
<1>1. pc = here /\ commit \in Commits /\ commit.slot \in Slots /\ commit.md \in Metadata
  BY DEF CommitErase, CommitProgram, TypeInv, WellFormed, Commits
<1>2. meta \in [Slots -> Metadata \cup {NoMeta}]
  BY DEF TypeInv, TypeOK
<1>3. CASE CommitErase(here, p1, p2)
  BY <1>1, <1>2, <1>3 DEF CommitErase
<1>4. CASE CommitProgram(here, p1, then, p2)
  BY <1>1, <1>2, <1>4 DEF CommitProgram
<1> QED
  BY <1>3, <1>4

\* The boot decision: a slot it names verifies and meets the floor.
LEMMA Choice ==
  ASSUME TypeInv
  PROVE  /\ BootChoice \in Slots \cup {NoSlot}
         /\ BootChoice # NoSlot =>
              /\ BootChoice \in Slots
              /\ verify_slot(image[BootChoice])
              /\ image[BootChoice][0].version \in U32
              /\ image[BootChoice][0].version >= scan_max_monotonic
         /\ scan_max_monotonic \in U32
         /\ scan_active_slot \in Slots
<1>1. /\ image \in [Slots -> Content]
      /\ meta["A"] \in Metadata \cup {NoMeta} /\ meta["B"] \in Metadata \cup {NoMeta}
  BY DEF TypeInv, TypeOK, Slots
<1>2. scan_max_monotonic \in U32
  BY <1>1, Floor DEF scan_max_monotonic
<1>3. scan_active_slot \in Slots /\ Other(scan_active_slot) \in Slots
  BY Pick DEF scan_active_slot, Other, Slots
<1>4. ASSUME NEW s \in Slots, try_boot_slot(s, scan_max_monotonic)
      PROVE  /\ verify_slot(image[s])
             /\ image[s][0].version \in U32
             /\ image[s][0].version >= scan_max_monotonic
  <2>1. verify_slot(image[s]) /\ image[s] \in Content
    BY <1>1, <1>4 DEF try_boot_slot
  <2> QED
    BY <1>4, <2>1, Verified DEF try_boot_slot, img_header_meets_floor
<1> QED
  BY <1>2, <1>3, <1>4, NoneAssumption DEF BootChoice

\* The blob of commit_post_boot_metadata carries exactly the winner's version:
\* every counter on the device, its own included, is at most that.
LEMMA PostBoot ==
  ASSUME TypeInv, BootChoice # NoSlot
  PROVE  /\ PostBootMeta(BootChoice) \in Metadata
         /\ PostBootMeta(BootChoice).monotonic_counter = image[BootChoice][0].version
<1> DEFINE s == BootChoice
           v == image[s][0].version
<1>1. s \in Slots /\ v \in U32 /\ scan_max_monotonic \in U32 /\ v >= scan_max_monotonic
  BY Choice
<1>2. /\ meta[s] \in Metadata \cup {NoMeta}
      /\ meta["A"] \in Metadata \cup {NoMeta} /\ meta["B"] \in Metadata \cup {NoMeta}
  BY <1>1 DEF TypeInv, TypeOK, Slots
<1>3. meta[s] # NoMeta => meta[s].monotonic_counter \in U32
                          /\ meta[s].monotonic_counter <= scan_max_monotonic
  BY <1>1, <1>2, Floor DEF scan_max_monotonic, Slots, Metadata
<1>4. img_compute_new_floor(scan_max_monotonic, v) = v
  BY <1>1, U32Assumption DEF img_compute_new_floor, U32
<1>5. meta[s] # NoMeta => img_compute_new_floor(v, meta[s].monotonic_counter) = v
  BY <1>1, <1>3, U32Assumption DEF img_compute_new_floor, U32
<1>6. PostBootMeta(s).monotonic_counter = v
  BY <1>4, <1>5 DEF PostBootMeta, img_slot_metadata_parse
<1>7. PostBootMeta(s).fail_count \in 0 .. IMG_FAIL_COUNT_MAX
  BY <1>2 DEF PostBootMeta, img_fail_count_increment, img_slot_metadata_parse,
              Metadata, IMG_FAIL_COUNT_MAX
<1>8. PostBootMeta(s) = [active |-> 1, fail_count |-> PostBootMeta(s).fail_count,
                         monotonic_counter |-> PostBootMeta(s).monotonic_counter]
  BY DEF PostBootMeta
<1> HIDE DEF s, v
<1>9. PostBootMeta(s) \in Metadata
  BY <1>1, <1>6, <1>7, <1>8 DEF Metadata
<1> QED
  BY <1>6, <1>9 DEF s, v

LEMMA TypeInit == Init => TypeInv
<1> SUFFICES ASSUME Init PROVE TypeInv
  OBVIOUS
<1>1. 0 \in U32
  BY U32Assumption DEF U32
<1>2. AllErased \in Content /\ \A i \in Images : Stored(i) \in Content
  BY DEF AllErased, Stored, Content
<1>3. image \in [Slots -> Content] /\ meta \in [Slots -> Metadata \cup {NoMeta}]
  BY <1>2 DEF Init
<1>4. streak \in [Slots -> 0 .. IMG_FAIL_COUNT_MAX + 1]
  BY DEF Init, IMG_FAIL_COUNT_MAX
<1> QED
  BY <1>1, <1>3, <1>4
     DEF Init, TypeInv, TypeOK, WellFormed, PCs, CommitSteps, OtaSteps, AppSteps, RunSteps

LEMMA TypeStep == TypeInv /\ [Next]_vars => TypeInv'
<1> SUFFICES ASSUME TypeInv, [Next]_vars PROVE TypeInv'
  OBVIOUS
<1> USE DEF TypeInv
<1>a. /\ pc \in PCs /\ image \in [Slots -> Content]
      /\ meta \in [Slots -> Metadata \cup {NoMeta}]
      /\ commit \in Commits \cup {NoCommit} /\ sess \in Sessions \cup {NoSess}
      /\ dr0 \in BOOLEAN /\ running \in Slots \cup {NoSlot} /\ floor \in U32
      /\ streak \in [Slots -> 0 .. IMG_FAIL_COUNT_MAX + 1] /\ fresh \in Slots \cup {NoSlot}
  BY DEF TypeOK
<1>b. scan_max_monotonic \in U32 /\ scan_active_slot \in Slots
  BY Choice
<1>c. StreakFollowsImage => streak' \in [Slots -> 0 .. IMG_FAIL_COUNT_MAX + 1]
  BY <1>a DEF StreakFollowsImage, IMG_FAIL_COUNT_MAX
<1>1. CASE EnterOta
  <2>1. NewSession \in Sessions
    BY <1>b, U32Assumption, UnitsAssumption DEF NewSession, Sessions, SlotIds
  <2>2. NewSession.state # "RECEIVING"
    BY DEF NewSession
  <2> QED
    BY <1>a, <1>1, <2>1, <2>2
       DEF EnterOta, TypeOK, WellFormed, PCs, CommitSteps, OtaSteps, AppSteps, RunSteps
<1>2. CASE BootSlot
  <2>1. CASE BootChoice = NoSlot
    BY <1>a, <1>b, <1>2, <2>1
       DEF BootSlot, TypeOK, WellFormed, PCs, CommitSteps, OtaSteps, AppSteps, RunSteps
  <2>2. CASE BootChoice # NoSlot
    <3>1. BootChoice \in Slots /\ PostBootMeta(BootChoice) \in Metadata
      BY <2>2, Choice, PostBoot
    <3>2. [slot |-> BootChoice, md |-> PostBootMeta(BootChoice)] \in Commits
      BY <3>1 DEF Commits
    <3> QED
      BY <1>a, <1>b, <1>2, <2>2, <3>1, <3>2
         DEF BootSlot, TypeOK, WellFormed, PCs, CommitSteps, OtaSteps, AppSteps, RunSteps
  <2> QED
    BY <2>1, <2>2
<1>3. CASE CommitAndJump
  <2>1. /\ pc \in {"boot_erase", "boot_program"} /\ pc' \in {"boot_program", "app"}
        /\ image' = image /\ meta' \in [Slots -> Metadata \cup {NoMeta}]
        /\ commit' \in Commits \cup {NoCommit}
        /\ pc' = "boot_program" => commit' = commit
    BY <1>3, CommitStepTypes DEF CommitAndJump, PCs, CommitSteps, AppSteps, CommitErase, CommitProgram
  <2>2. running \in Slots /\ commit \in Commits
    BY <2>1 DEF WellFormed, RunSteps, CommitSteps
  <2>3. streak' \in [Slots -> 0 .. IMG_FAIL_COUNT_MAX + 1]
    BY <1>a, <1>3, <2>2 DEF CommitAndJump, IMG_FAIL_COUNT_MAX
  <2> QED
    BY <1>a, <1>3, <2>1, <2>2, <2>3
       DEF CommitAndJump, TypeOK, WellFormed, PCs, CommitSteps, OtaSteps, AppSteps, RunSteps
<1>4. CASE AppHandshake
  <2>1. running \in Slots /\ meta[running] \in Metadata \cup {NoMeta}
    BY <1>a, <1>4 DEF AppHandshake, WellFormed, RunSteps, AppSteps
  <2>2. ASSUME meta[running] # NoMeta
        PROVE  [slot |-> running, md |-> ClearedMeta(meta[running])] \in Commits
    BY <2>1, <2>2 DEF Commits, Metadata, ClearedMeta, IMG_FAIL_COUNT_MAX
  <2> QED
    BY <1>a, <1>4, <2>1, <2>2
       DEF AppHandshake, img_slot_metadata_parse,
           TypeOK, WellFormed, PCs, CommitSteps, OtaSteps, AppSteps, RunSteps
<1>5. CASE CommitClear
  <2>1. /\ pc \in {"clear_erase", "clear_program"} /\ pc' \in {"clear_program", "app_up"}
        /\ image' = image /\ meta' \in [Slots -> Metadata \cup {NoMeta}]
        /\ commit' \in Commits \cup {NoCommit}
        /\ pc' = "clear_program" => commit' = commit
    BY <1>5, CommitStepTypes DEF CommitClear, PCs, CommitSteps, AppSteps, CommitErase, CommitProgram
  <2>2. running \in Slots /\ commit \in Commits
    BY <2>1 DEF WellFormed, RunSteps, AppSteps, CommitSteps
  <2>3. streak' \in [Slots -> 0 .. IMG_FAIL_COUNT_MAX + 1]
    BY <1>a, <1>5, <2>2 DEF CommitClear, IMG_FAIL_COUNT_MAX
  <2> QED
    BY <1>a, <1>5, <2>1, <2>2, <2>3
       DEF CommitClear, TypeOK, WellFormed, PCs, CommitSteps, OtaSteps, AppSteps, RunSteps
<1>6. CASE Restart \/ AppRequestOta \/ OperatorForcesOta
  BY <1>a, <1>6
     DEF Restart, AppRequestOta, OperatorForcesOta,
         TypeOK, WellFormed, PCs, CommitSteps, OtaSteps, AppSteps, RunSteps
<1>7. CASE OtaFrame
  <2>1. PICK f \in HostSends, r \in Replies \cup {None} : on_frame(f, r)
    BY <1>7 DEF OtaFrame
  <2>2. f \in Frames
    BY HostAssumption
  <2>3. streak' \in [Slots -> 0 .. IMG_FAIL_COUNT_MAX + 1]
    BY <1>7, <1>c DEF OtaFrame
  <2> QED
    BY <1>a, <1>7, <2>1, <2>2, <2>3, FrameTypes, Typed
       DEF OtaFrame, TypeOK, WellFormed, PCs, CommitSteps, OtaSteps, AppSteps, RunSteps
<1>8. CASE OtaSwapTarget
  <2>1. PICK r : SwapTarget(r)
    BY <1>8 DEF OtaSwapTarget
  <2>2. pc \in {"target_erase", "target_program"}
    BY <2>1 DEF SwapTarget, CommitErase, CommitProgram
  <2>3. sess \in Sessions /\ sess.target_slot \in Slots /\ sess.prev_active \in Slots
    BY <2>2 DEF WellFormed, OtaSteps, Sessions
  <2>4. [slot |-> sess.prev_active, md |-> PrevMeta] \in Commits
    <3>1. meta[sess.prev_active] \in Metadata \cup {NoMeta}
      BY <1>a, <2>3
    <3>2. PrevMeta \in Metadata
      BY <3>1, U32Assumption
         DEF PrevMeta, img_slot_metadata_parse, Metadata, IMG_FAIL_COUNT_MAX, U32
    <3> QED
      BY <2>3, <3>2 DEF Commits
  <2>5. /\ pc' \in {"target_program", "prev_erase", "halt"}
        /\ image' = image /\ meta' \in [Slots -> Metadata \cup {NoMeta}]
        /\ commit' \in Commits \cup {NoCommit}
        /\ pc' # "halt" => commit' \in Commits
    BY <2>1, <2>2, <2>4, CommitStepTypes
       DEF SwapTarget, PCs, CommitSteps, OtaSteps, CommitErase, CommitProgram, WellFormed
  <2>6. sess' \in Sessions \cup {NoSess} /\ (pc' # "halt" => sess' = sess)
    BY <2>1, <2>3 DEF SwapTarget
  <2>7. streak' \in [Slots -> 0 .. IMG_FAIL_COUNT_MAX + 1] /\ fresh' \in Slots \cup {NoSlot}
    BY <1>a, <1>8, <2>3 DEF OtaSwapTarget, IMG_FAIL_COUNT_MAX
  <2> QED
    BY <1>a, <1>8, <2>3, <2>5, <2>6, <2>7
       DEF OtaSwapTarget, TypeOK, WellFormed, PCs, CommitSteps, OtaSteps, AppSteps, RunSteps
<1>9. CASE OtaSwapPrevious
  <2>1. PICK r : SwapPrevious(r)
    BY <1>9 DEF OtaSwapPrevious
  <2>2. pc \in {"prev_erase", "prev_program"}
    BY <2>1 DEF SwapPrevious, CommitErase, CommitProgram
  <2>3. sess \in Sessions /\ sess.target_slot \in Slots /\ commit \in Commits
    BY <2>2 DEF WellFormed, OtaSteps, CommitSteps
  <2>4. /\ pc' \in {"prev_program", "done"}
        /\ image' = image /\ meta' \in [Slots -> Metadata \cup {NoMeta}]
        /\ commit' \in Commits \cup {NoCommit}
        /\ pc' = "prev_program" => commit' \in Commits
    BY <2>1, <2>3, CommitStepTypes
       DEF SwapPrevious, PCs, CommitSteps, OtaSteps, CommitErase, CommitProgram
  <2> QED
    BY <1>a, <1>9, <2>1, <2>3, <2>4
       DEF OtaSwapPrevious, SwapPrevious,
           TypeOK, WellFormed, PCs, CommitSteps, OtaSteps, AppSteps, RunSteps
<1>10. CASE OtaDone
  BY <1>a, <1>10
     DEF OtaDone, OtaReset, TypeOK, WellFormed, PCs, CommitSteps, OtaSteps, AppSteps, RunSteps
<1>11. CASE PowerCut
  <2>1. image' \in [Slots -> Content]
    <3>1. CASE image' = image
      BY <1>a, <3>1
    <3>2. CASE pc = "ota" /\ TornErase(Other(sess.prev_active))
      BY <1>a, <3>2, ImageErase DEF Other, Slots
    <3>3. CASE /\ pc = "ota" /\ sess.state = "RECEIVING"
               /\ \E u \in 0 .. sess.expected_size - 1 : TornWrite(sess.target_slot, u)
      <4>1. sess.target_slot \in Slots /\ sess.expected_size \in 0 .. SlotUnits
        BY <3>3 DEF WellFormed, OtaSteps, Sessions
      <4>2. PICK u \in 0 .. sess.expected_size - 1 : TornWrite(sess.target_slot, u)
        BY <3>3
      <4>3. u \in Units
        BY <4>1, UnitsAssumption DEF Units
      <4> QED
        BY <1>a, <4>1, <4>2, <4>3 DEF TornWrite, Content
    <3> QED
      BY <1>11, <3>1, <3>2, <3>3 DEF PowerCut
  <2>2. streak' \in [Slots -> 0 .. IMG_FAIL_COUNT_MAX + 1]
    BY <1>11, <1>c DEF PowerCut
  <2> QED
    BY <1>a, <1>11, <2>1, <2>2
       DEF PowerCut, TypeOK, WellFormed, PCs, CommitSteps, OtaSteps, AppSteps, RunSteps
<1>12. CASE UNCHANGED vars
  BY <1>12 DEF vars, TypeOK, WellFormed
<1> QED
  BY <1>1, <1>2, <1>3, <1>4, <1>5, <1>6, <1>7, <1>8, <1>9, <1>10, <1>11, <1>12 DEF Next

\* Every variable of the boot loader stays within its type, whatever is cut,
\* fails or is sent: the counters in uint32_t, the fail_count within its cap,
\* every written unit within the slot.
THEOREM TypeCorrect == Spec => []TypeOK
<1>1. Spec => []TypeInv
  BY TypeInit, TypeStep, PTL DEF Spec
<1>2. TypeInv => TypeOK
  BY DEF TypeInv
<1> QED
  BY <1>1, <1>2, PTL

-----------------------------------------------------------------------------
(* Anti-rollback at run time.                                              *)

\* RunningDominates holds from the boot decision on, before the jump, and the
\* counter that is about to be committed is bounded like the stored ones.
Dominates ==
  pc \in RunSteps =>
    /\ verify_slot(image[running])
    /\ \A s \in Slots : img_slot_metadata_parse(meta[s]) =>
         meta[s].monotonic_counter <= image[running][0].version
    /\ pc \in CommitSteps =>
         commit.md.monotonic_counter <= image[running][0].version

\* A commit step stores the pending blob, or leaves or loses the old one.
LEMMA CommitStepMeta ==
  ASSUME TypeInv, NEW here \in CommitSteps, NEW p1, NEW p2, NEW then,
         CommitErase(here, p1, p2) \/ CommitProgram(here, p1, then, p2)
  PROVE  /\ pc = here /\ image' = image
         /\ commit \in Commits
         /\ \A s \in Slots : meta'[s] \in {meta[s], NoMeta}
                             \/ (s = commit.slot /\ meta'[s] = commit.md)
<1>1. pc = here /\ image' = image /\ commit \in Commits
  BY DEF CommitErase, CommitProgram, TypeInv, WellFormed
<1>2. meta \in [Slots -> Metadata \cup {NoMeta}] /\ commit.slot \in Slots
  BY <1>1 DEF TypeInv, TypeOK, Commits
<1>3. \/ meta' = meta \/ meta' = [meta EXCEPT ![commit.slot] = NoMeta]
      \/ meta' = [meta EXCEPT ![commit.slot] = commit.md]
  BY DEF CommitErase, CommitProgram
<1> QED
  BY <1>1, <1>2, <1>3

LEMMA DominatesStep == TypeInv /\ Dominates /\ [Next]_vars => Dominates'
<1> SUFFICES ASSUME TypeInv, Dominates, [Next]_vars, pc' \in RunSteps
             PROVE  Dominates'
  BY DEF Dominates
<1> DEFINE v == image[running][0].version
<1>a. meta \in [Slots -> Metadata \cup {NoMeta}]
  BY DEF TypeInv, TypeOK
<1>1. CASE BootSlot
  <2>1. BootChoice # NoSlot /\ running' = BootChoice
        /\ commit' = [slot |-> BootChoice, md |-> PostBootMeta(BootChoice)]
        /\ UNCHANGED <<image, meta>>
    BY <1>1 DEF BootSlot, RunSteps, AppSteps
  <2>2. /\ BootChoice \in Slots /\ verify_slot(image[BootChoice])
        /\ image[BootChoice][0].version \in U32
        /\ image[BootChoice][0].version >= scan_max_monotonic
        /\ scan_max_monotonic \in U32
    BY <2>1, Choice
  <2>3. PostBootMeta(BootChoice).monotonic_counter = image[BootChoice][0].version
    BY <2>1, PostBoot
  <2>4. ASSUME NEW s \in Slots, meta[s] # NoMeta
        PROVE  meta[s].monotonic_counter <= image[BootChoice][0].version
    <3>1. /\ meta["A"] \in Metadata \cup {NoMeta} /\ meta["B"] \in Metadata \cup {NoMeta}
          /\ meta[s].monotonic_counter \in U32
      BY <1>a, <2>4 DEF Slots, Metadata
    <3>2. meta[s].monotonic_counter <= scan_max_monotonic
      BY <2>4, <3>1, Floor DEF Slots, scan_max_monotonic
    <3> QED
      BY <2>2, <3>1, <3>2, U32Assumption DEF U32
  <2> QED
    BY <2>1, <2>2, <2>3, <2>4, U32Assumption DEF Dominates, img_slot_metadata_parse, U32
<1>2. CASE CommitAndJump \/ CommitClear
  <2>1. /\ pc \in {"boot_erase", "boot_program", "clear_erase", "clear_program"}
        /\ image' = image /\ commit \in Commits
        /\ \A s \in Slots : meta'[s] \in {meta[s], NoMeta}
                            \/ (s = commit.slot /\ meta'[s] = commit.md)
        /\ running' = running
    BY <1>2, CommitStepMeta DEF CommitAndJump, CommitClear, CommitSteps
  <2>2. /\ verify_slot(image[running])
        /\ \A s \in Slots : img_slot_metadata_parse(meta[s]) => meta[s].monotonic_counter <= v
        /\ commit.md.monotonic_counter <= v
    BY <2>1 DEF Dominates, RunSteps, AppSteps, CommitSteps
  <2>3. pc' \in CommitSteps => commit' = commit
    BY <1>2, <2>1 DEF CommitAndJump, CommitClear, CommitErase, CommitProgram, CommitSteps
  <2> QED
    BY <2>1, <2>2, <2>3 DEF Dominates, img_slot_metadata_parse
<1>3. CASE AppHandshake
  <2>1. running \in Slots /\ pc = "app" /\ UNCHANGED <<image, meta, running>>
        /\ (pc' \in CommitSteps => meta[running] # NoMeta /\ commit' =
                      [slot |-> running, md |-> ClearedMeta(meta[running])])
    BY <1>3 DEF AppHandshake, TypeInv, WellFormed, RunSteps, AppSteps, CommitSteps,
                img_slot_metadata_parse
  <2>2. meta[running] # NoMeta =>
          ClearedMeta(meta[running]).monotonic_counter = meta[running].monotonic_counter
    BY <1>a, <2>1 DEF ClearedMeta, Metadata
  <2>3. /\ verify_slot(image[running])
        /\ \A s \in Slots : img_slot_metadata_parse(meta[s]) => meta[s].monotonic_counter <= v
    BY <2>1 DEF Dominates, RunSteps, AppSteps
  <2> QED
    BY <2>1, <2>2, <2>3 DEF Dominates, img_slot_metadata_parse
<1>4. CASE UNCHANGED vars
  BY <1>4 DEF vars, Dominates
<1>5. CASE OtaFrame
  BY <1>5, FrameTypes, Typed, HostAssumption DEF OtaFrame, RunSteps, AppSteps
<1>6. CASE EnterOta \/ Restart \/ AppRequestOta \/ OperatorForcesOta \/ OtaDone \/ PowerCut
  BY <1>6 DEF EnterOta, Restart, AppRequestOta, OperatorForcesOta, OtaDone, OtaReset, PowerCut,
              RunSteps, AppSteps
<1>7. CASE OtaSwapTarget \/ OtaSwapPrevious
  BY <1>7 DEF OtaSwapTarget, OtaSwapPrevious, SwapTarget, SwapPrevious,
              CommitErase, CommitProgram, RunSteps, AppSteps
<1> QED
  BY <1>1, <1>2, <1>3, <1>4, <1>5, <1>6, <1>7 DEF Next

\* No application ever runs from an image that does not verify or whose
\* version is below a counter stored in either slot's metadata (main.c, step 4).
THEOREM AntiRollback == Spec => []RunningDominates
<1>1. Init => TypeInv /\ Dominates
  BY TypeInit DEF Init, Dominates, RunSteps, AppSteps
<1>2. TypeInv /\ Dominates /\ [Next]_vars => (TypeInv /\ Dominates)'
  BY TypeStep, DominatesStep
<1>3. Dominates => RunningDominates
  BY DEF Dominates, RunningDominates, RunSteps
<1> QED
  BY <1>1, <1>2, <1>3, PTL DEF Spec

-----------------------------------------------------------------------------
(* The slot an OTA session leaves alone.                                   *)

\* What a power cut tears in a session is its target.
LEMMA CutProtects ==
  ASSUME TypeInv, Protected, PowerCut, pc \in Receiving
  PROVE  image'[sess.prev_active] = image[sess.prev_active] /\ meta' = meta
<1>1. sess \in Sessions /\ sess.prev_active \in Slots /\ image \in [Slots -> Content]
  BY DEF TypeInv, TypeOK, WellFormed, Receiving, OtaSteps, Sessions
<1>2. \A s \in Slots : Other(s) \in Slots /\ Other(Other(s)) = s /\ Other(s) # s
  BY DEF Other, Slots
<1>3. CASE image' = image
  BY <1>3 DEF PowerCut
<1>4. CASE TornErase(Other(sess.prev_active))
  BY <1>1, <1>2, <1>4, ImageErase DEF PowerCut
<1>5. CASE /\ pc = "ota" /\ sess.state = "RECEIVING"
           /\ \E u \in 0 .. sess.expected_size - 1 : TornWrite(sess.target_slot, u)
  <2>1. sess.target_slot = Other(sess.prev_active)
    BY <1>5 DEF Protected, OtaSteps
  <2> QED
    BY <1>1, <1>2, <1>5, <2>1 DEF TornWrite, PowerCut
<1> QED
  BY <1>3, <1>4, <1>5 DEF PowerCut

\* The commit steps of the swap, with the session they work for.
LEMMA SwapSteps ==
  ASSUME TypeInv, Protected, OtaSwapTarget \/ OtaSwapPrevious
  PROVE  /\ sess \in Sessions /\ sess.prev_active \in Slots
         /\ sess.target_slot = Other(sess.prev_active)
         /\ image' = image
         /\ pc' # "halt" => sess' = sess
         /\ \/ pc = "target_erase" /\ pc' \in {"target_program", "halt"}
            \/ pc = "target_program" /\ pc' \in {"prev_erase", "halt"}
            \/ pc \in {"prev_erase", "prev_program"} /\ pc' \in {"prev_program", "done"}
         /\ pc \in {"target_erase", "target_program"} /\ pc' # "prev_erase" =>
              /\ \A s \in Slots : meta'[s] \in {meta[s], NoMeta}
              /\ meta'[sess.prev_active] = meta[sess.prev_active]
BY Typed, SwapDoes DEF OtaSwapTarget, OtaSwapPrevious

\* The steps that neither are in a session nor start one.
LEMMA OutsideSession ==
  ASSUME [Next]_vars, ~EnterOta, ~OtaFrame, ~OtaSwapTarget, ~OtaSwapPrevious
  PROVE  \/ UNCHANGED vars
         \/ pc' \notin OtaSteps
BY DEF Next, BootSlot, CommitAndJump, AppHandshake, CommitClear, Restart, AppRequestOta,
       OperatorForcesOta, OtaDone, OtaReset, PowerCut, CommitErase, CommitProgram, OtaSteps

LEMMA ProtectedStep == TypeInv /\ Protected /\ [Next]_vars => Protected'
<1> SUFFICES ASSUME TypeInv, Protected, [Next]_vars PROVE Protected'
  OBVIOUS
<1>1. CASE EnterOta
  <2>1. /\ pc' = "ota" /\ sess' = NewSession /\ meta' = meta
        /\ sess'.state = "AWAIT_BEGIN" /\ sess'.prev_active = scan_active_slot
    BY <1>1 DEF EnterOta, NewSession
  <2> QED
    BY <2>1 DEF Protected, scan_active_slot, OtaSteps
<1>2. CASE OtaFrame
  BY <1>2, Typed, HostAssumption, FrameKeepsProtected DEF OtaFrame
<1>3. CASE OtaSwapTarget \/ OtaSwapPrevious
  BY <1>3, Typed, SwapKeepsProtected DEF OtaSwapTarget, OtaSwapPrevious
<1>4. CASE UNCHANGED vars
  BY <1>4 DEF vars, Protected, scan_active_slot
<1>5. CASE pc' \notin OtaSteps
  BY <1>5 DEF Protected, Receiving, OtaSteps
<1> QED
  BY <1>1, <1>2, <1>3, <1>4, <1>5, OutsideSession

LEMMA ProtectedInit == Init => Protected
BY DEF Init, Protected, Receiving, OtaSteps

\* A previous slot that would boot still would after any step of the session
\* that does not yet complete the target's metadata.
LEMMA OldSurvivesStep ==
  ASSUME TypeInv, Protected, [Next]_vars,
         pc \in Receiving, pc # "target_program" \/ pc' # "prev_erase",
         BootChoice = sess.prev_active
  PROVE  BootChoice' = sess.prev_active
<1> DEFINE s == sess.prev_active
<1>1. /\ sess \in Sessions /\ s \in Slots /\ scan_active_slot = s
      /\ meta \in [Slots -> Metadata \cup {NoMeta}] /\ meta' \in [Slots -> Metadata \cup {NoMeta}]
  BY TypeStep DEF TypeInv, TypeOK, WellFormed, Receiving, OtaSteps, Sessions, Protected
<1>2. try_boot_slot(s, scan_max_monotonic) /\ scan_max_monotonic \in U32
  <2>1. s # NoSlot /\ scan_max_monotonic \in U32
    BY <1>1, Choice, NoneAssumption
  <2>2. s # Other(s)
    BY <1>1 DEF Other, Slots
  <2> QED
    BY <1>1, <2>1, <2>2 DEF BootChoice
<1>3. /\ image'[s] = image[s] /\ meta'[s] = meta[s]
      /\ meta'[Other(s)] \in {meta[Other(s)], NoMeta}
  <2>1. CASE OtaFrame
    BY <2>1, FrameProtects, Typed, HostAssumption DEF OtaFrame
  <2>2. CASE OtaSwapTarget \/ OtaSwapPrevious
    BY <2>2, <1>1, SwapSteps DEF Receiving, Other, Slots
  <2>3. CASE PowerCut
    BY <2>3, CutProtects
  <2>4. CASE UNCHANGED vars
    BY <2>4 DEF vars
  <2> QED
    BY <2>1, <2>2, <2>3, <2>4
       DEF Next, EnterOta, BootSlot, CommitAndJump, AppHandshake, CommitClear, Restart,
           AppRequestOta, OperatorForcesOta, OtaDone, OtaReset, CommitErase, CommitProgram,
           Receiving
<1>4. scan_active_slot' = s
  BY <1>1, <1>3, PickStable DEF scan_active_slot
<1>5. scan_max_monotonic' <= scan_max_monotonic /\ scan_max_monotonic' \in U32
  BY <1>1, <1>3, FloorFalls, Floor DEF scan_max_monotonic, Slots
<1>6. image[s][0].version \in U32
  BY <1>1, <1>2, Verified DEF try_boot_slot, TypeInv, TypeOK
<1>7. /\ ~(img_slot_metadata_parse(meta'[s]) /\ img_fail_count_tripped(meta'[s].fail_count))
      /\ verify_slot(image'[s])
      /\ img_header_meets_floor(image'[s][0].version, scan_max_monotonic')
  BY <1>2, <1>3, <1>5, <1>6, U32Assumption
     DEF try_boot_slot, img_header_meets_floor, U32
<1> QED
  BY <1>4, <1>7 DEF BootChoice, try_boot_slot

\* The previous slot survives an OTA session: whatever the host sends and
\* wherever the power fails (ota.c:35-39).
THEOREM PreviousSlotSurvives == Spec => OldImageSurvives
<1>1. Init => TypeInv /\ Protected
  BY TypeInit, ProtectedInit
<1>2. TypeInv /\ Protected /\ [Next]_vars => (TypeInv /\ Protected)'
  BY TypeStep, ProtectedStep
<1>3. TypeInv /\ Protected /\ [Next]_vars =>
        [Before("prev_erase") /\ BootChoice = sess.prev_active
           => BootChoice' = sess.prev_active]_vars
  BY OldSurvivesStep DEF Before, Receiving
<1> QED
  BY <1>1, <1>2, <1>3, PTL DEF Spec, OldImageSurvives

-----------------------------------------------------------------------------
(* The order of the two commits of the slot swap.                          *)

\* The counter the target will get is above every stored one, so that it wins
\* while both slots are marked active; the demotion ends that state.
FreshWins ==
  /\ pc \in Receiving => \A s \in Slots : img_slot_metadata_parse(meta[s]) =>
       meta[s].monotonic_counter <= sess.max_seen_counter
  /\ pc \in {"target_erase", "target_program"} =>
       commit.md.active = 1 /\ commit.md.monotonic_counter > sess.max_seen_counter
  /\ pc \in {"prev_erase", "prev_program"} =>
       fresh = sess.target_slot /\ commit.slot = sess.prev_active /\ commit.md.active = 0
  /\ fresh # NoSlot =>
       /\ pc \in {"prev_erase", "prev_program", "done", "boot"}
       /\ img_slot_metadata_parse(meta[fresh]) /\ meta[fresh].active = 1
       /\ img_slot_metadata_parse(meta[Other(fresh)]) =>
            \/ meta[Other(fresh)].active = 0
            \/ meta[Other(fresh)].monotonic_counter < meta[fresh].monotonic_counter

\* The counter that OTA_END computes for the target exceeds all the session saw.
CounterWins ==
  pc = "ota" /\ pc' = "target_erase" => commit'.md.monotonic_counter > sess.max_seen_counter

LEMMA TopIsSpared == ASSUME VersionsBelowTop, TypeInv, Protected, [Next]_vars  PROVE CounterWins
<1> SUFFICES ASSUME pc = "ota", pc' = "target_erase"
             PROVE  commit'.md.monotonic_counter > sess.max_seen_counter
  BY DEF CounterWins
<1>1. PICK f \in Frames : \E r : on_frame(f, r)
  BY HostAssumption
     DEF Next, vars, EnterOta, BootSlot, CommitAndJump, AppHandshake, CommitClear, Restart,
         AppRequestOta, OperatorForcesOta, OtaFrame, OtaSwapTarget, OtaSwapPrevious, SwapTarget,
         SwapPrevious, OtaDone, OtaReset, PowerCut, CommitErase, CommitProgram
<1> QED
  BY <1>1, Typed, CounterRises

LEMMA FreshStep ==
  ASSUME CounterWins, TypeInv, Protected, FreshWins, [Next]_vars PROVE FreshWins'
<1>a. /\ meta \in [Slots -> Metadata \cup {NoMeta}]
      /\ fresh \in Slots \cup {NoSlot}
      /\ \A s \in Slots : meta[s] # NoMeta => meta[s].monotonic_counter \in U32
      /\ \A s \in Slots : Other(s) \in Slots /\ Other(s) # s /\ Other(Other(s)) = s
  BY DEF TypeInv, TypeOK, Metadata, Other, Slots
<1> USE DEF img_slot_metadata_parse
<1>1. CASE EnterOta
  <2>1. /\ pc' = "ota" /\ meta' = meta /\ fresh' = NoSlot
        /\ sess'.max_seen_counter = scan_max_monotonic
    BY <1>1 DEF EnterOta, NewSession
  <2>2. \A s \in Slots : meta[s] # NoMeta => meta[s].monotonic_counter <= scan_max_monotonic
    BY <1>a, Floor DEF scan_max_monotonic, Slots
  <2> QED
    BY <2>1, <2>2 DEF FreshWins, Receiving
<1>2. CASE OtaFrame
  <2>1. PICK f \in HostSends, r \in Replies \cup {None} : on_frame(f, r)
    BY <1>2 DEF OtaFrame
  <2>2. f \in Frames
    BY HostAssumption
  <2>3. /\ pc = "ota" /\ pc' \in {"ota", "halt", "target_erase"} /\ meta' = meta
        /\ sess \in Sessions /\ fresh = NoSlot /\ fresh' = NoSlot
        /\ image \in [Slots -> Content]
    BY <1>2, <2>1, <2>2, FrameTypes, Typed
       DEF FreshWins, OtaFrame, TypeInv, TypeOK, WellFormed, OtaSteps
  <2>4. \A s \in Slots : meta[s] # NoMeta =>
          meta[s].monotonic_counter <= sess.max_seen_counter
    BY <2>3 DEF FreshWins, Receiving
  <2>5. pc' # "halt" => sess'.max_seen_counter = sess.max_seen_counter
    BY <2>1, <2>2, FrameProtects, Typed
  <2>6. pc' = "target_erase" =>
          commit'.md.active = 1 /\ commit'.md.monotonic_counter > sess.max_seen_counter
    BY <2>1, <2>2, <2>3, FrameProtects, Typed DEF CounterWins, TargetMeta
  <2> QED
    BY <2>3, <2>4, <2>5, <2>6 DEF FreshWins, Receiving
<1>3. CASE OtaSwapTarget
  <2>1. /\ sess \in Sessions /\ sess.prev_active \in Slots /\ fresh = NoSlot
        /\ sess.target_slot = Other(sess.prev_active) /\ commit.slot = sess.target_slot
        /\ pc \in {"target_erase", "target_program"}
        /\ commit.md.active = 1 /\ commit.md.monotonic_counter > sess.max_seen_counter
        /\ \A s \in Slots : meta[s] # NoMeta =>
             meta[s].monotonic_counter <= sess.max_seen_counter
        /\ commit \in Commits
    <3>1. pc \in {"target_erase", "target_program"}
      BY <1>3 DEF OtaSwapTarget, SwapTarget, CommitErase, CommitProgram
    <3> QED
      BY <1>3, <3>1, SwapSteps
         DEF FreshWins, Protected, Receiving, TypeInv, WellFormed, CommitSteps
  <2>2. PICK r : SwapTarget(r)
    BY <1>3 DEF OtaSwapTarget
  <2>3. CASE pc' \in {"target_program", "halt"}
    <3>1. \A s \in Slots : meta'[s] \in {meta[s], NoMeta}
      BY <1>3, <2>1, <2>3, SwapSteps
    <3>2. pc' = "target_program" => commit' = commit /\ sess' = sess
      BY <2>2 DEF SwapTarget, CommitErase, CommitProgram
    <3>3. fresh' = NoSlot
      BY <1>3, <2>1, <2>3 DEF OtaSwapTarget
    <3> QED
      BY <2>1, <2>3, <3>1, <3>2, <3>3 DEF FreshWins, Receiving
  <2>4. CASE pc' = "prev_erase"
    <3>1. /\ meta' = [meta EXCEPT ![commit.slot] = commit.md]
          /\ commit' = [slot |-> sess.prev_active, md |-> PrevMeta]
          /\ sess' = sess /\ fresh' = sess.target_slot
      BY <1>3, <2>2, <2>4 DEF OtaSwapTarget, SwapTarget, CommitErase, CommitProgram
    <3>2. /\ meta'[sess.target_slot] = commit.md
          /\ meta'[Other(sess.target_slot)] = meta[Other(sess.target_slot)]
          /\ commit.md # NoMeta /\ commit.md.monotonic_counter \in U32
          /\ sess.max_seen_counter \in U32
      BY <1>a, <2>1, <3>1, SentinelAssumption DEF Commits, Metadata, Sessions
    <3>3. commit'.md.active = 0
      BY <3>1 DEF PrevMeta
    <3>4. meta'[Other(sess.target_slot)] # NoMeta =>
            meta'[Other(sess.target_slot)].monotonic_counter < commit.md.monotonic_counter
      BY <1>a, <2>1, <3>2, U32Assumption DEF U32
    <3> QED
      BY <2>1, <2>4, <3>1, <3>2, <3>3, <3>4 DEF FreshWins, Receiving
  <2> QED
    BY <1>3, <2>1, <2>3, <2>4, SwapSteps
<1>4. CASE OtaSwapPrevious
  <2>1. PICK r : SwapPrevious(r)
    BY <1>4 DEF OtaSwapPrevious
  <2>2. pc \in {"prev_erase", "prev_program"} /\ pc' \in {"prev_program", "done"}
    BY <2>1 DEF SwapPrevious, CommitErase, CommitProgram
  <2>3. /\ sess' = sess /\ fresh' = fresh /\ fresh = sess.target_slot
        /\ fresh \in Slots /\ commit.slot = Other(fresh) /\ commit.md.active = 0
        /\ meta[fresh] # NoMeta /\ meta[fresh].active = 1
        /\ meta[Other(fresh)] # NoMeta =>
             \/ meta[Other(fresh)].active = 0
             \/ meta[Other(fresh)].monotonic_counter < meta[fresh].monotonic_counter
    BY <1>4, <1>a, <2>2, SwapSteps, NoneAssumption DEF FreshWins, OtaSwapPrevious, SwapPrevious
  <2>4. meta'[fresh] = meta[fresh]
        /\ meta'[Other(fresh)] \in {meta[Other(fresh)], NoMeta, commit.md}
    BY <1>a, <2>1, <2>3 DEF SwapPrevious, CommitErase, CommitProgram
  <2>5. pc' = "prev_program" => commit' = commit
    BY <2>1 DEF SwapPrevious, CommitErase, CommitProgram
  <2> QED
    BY <2>2, <2>3, <2>4, <2>5 DEF FreshWins, Receiving
<1>5. CASE PowerCut \/ OtaDone
  BY <1>5 DEF PowerCut, OtaDone, OtaReset, FreshWins, Receiving
<1>6. CASE BootSlot
  BY <1>6 DEF BootSlot, FreshWins, Receiving
<1>7. CASE CommitAndJump \/ CommitClear
  BY <1>7 DEF CommitAndJump, CommitClear, CommitErase, CommitProgram, FreshWins, Receiving
<1>8. CASE AppHandshake \/ Restart \/ AppRequestOta \/ OperatorForcesOta
  BY <1>8 DEF AppHandshake, Restart, AppRequestOta, OperatorForcesOta, FreshWins, Receiving
<1>9. CASE UNCHANGED vars
  BY <1>9 DEF vars, FreshWins, Receiving
<1> QED
  BY <1>1, <1>2, <1>3, <1>4, <1>5, <1>6, <1>7, <1>8, <1>9 DEF Next

LEMMA FreshPicked == TypeInv /\ FreshWins => FreshImageFirst
<1> SUFFICES ASSUME TypeInv, FreshWins, fresh # NoSlot
             PROVE  img_pick_active_slot(meta["A"], meta["B"]) = fresh
  BY DEF FreshImageFirst, scan_active_slot
<1>1. fresh \in Slots /\ meta \in [Slots -> Metadata \cup {NoMeta}]
      /\ \A s \in Slots : meta[s] # NoMeta => meta[s].monotonic_counter \in Nat
                                              /\ meta[s].active \in {0, 1}
  BY U32Assumption DEF TypeInv, TypeOK, Metadata, U32
<1> QED
  BY <1>1 DEF FreshWins, img_pick_active_slot, img_slot_metadata_parse, Slots, Other

\* From the commit of the target's metadata on, every reset tries the new
\* image first, wherever the rest of the swap is cut or fails (ota.c:45-48):
\* true as long as no version is UINT32_MAX.
THEOREM NewImageFirst == VersionsBelowTop => (Spec => []FreshImageFirst)
<1> SUFFICES ASSUME VersionsBelowTop PROVE Spec => []FreshImageFirst
  OBVIOUS
<1>1. Init => TypeInv /\ Protected /\ FreshWins
  BY TypeInit, ProtectedInit DEF Init, FreshWins, Receiving
<1>2. TypeInv /\ Protected /\ FreshWins /\ [Next]_vars => (TypeInv /\ Protected /\ FreshWins)'
  BY TypeStep, ProtectedStep, TopIsSpared, FreshStep
<1>3. TypeInv /\ FreshWins => FreshImageFirst
  BY FreshPicked
<1> QED
  BY <1>1, <1>2, <1>3, PTL DEF Spec

-----------------------------------------------------------------------------
(* From here on, under an assumption that the code needs: CommitsComplete  *)
(* (no flash operation fails and no commit of the boot path or handshake   *)
(* is cut in half) and NewReleases (every image a session installs has a   *)
(* version of its own).                                                    *)

\* No power cut falls between the erase and the program of a commit of the boot
\* path or the handshake, and no flash operation fails.
CommitsComplete == ~FlashFails /\ CutAt \cap {"boot_program", "clear_program"} = {}

-----------------------------------------------------------------------------
(* The slot picked and its counter.                                        *)

MetaMaps == [Slots -> Metadata \cup {NoMeta}]

Counter(md) == IF md = NoMeta THEN 0 ELSE md.monotonic_counter
First(m) == img_pick_active_slot(m["A"], m["B"])
TopCounter(m) == Counter(m[First(m)])
Topped(m) == \A t \in Slots : Counter(m[t]) <= TopCounter(m)

LEMMA CounterType ==
  ASSUME NEW md \in Metadata \cup {NoMeta}  PROVE Counter(md) \in U32 /\ Counter(md) \in Nat
BY U32Assumption DEF Counter, Metadata, U32

LEMMA TwoSlots ==
  /\ Slots = {"A", "B"}
  /\ \A s \in Slots : Other(s) \in Slots /\ Other(s) # s /\ Other(Other(s)) = s
                      /\ \A t \in Slots : t = s \/ t = Other(s)
BY DEF Slots, Other

\* Where the slot that is picked has the highest counter, that is the floor.
LEMMA FloorIsTop ==
  ASSUME NEW m \in MetaMaps, Topped(m)
  PROVE  img_compute_floor(m["A"], m["B"]) = TopCounter(m)
<1>1. Counter(m["A"]) \in Nat /\ Counter(m["B"]) \in Nat /\ First(m) \in Slots
  BY CounterType, Pick, TwoSlots DEF MetaMaps, First
<1>2. img_compute_floor(m["A"], m["B"]) =
        IF Counter(m["B"]) > Counter(m["A"]) THEN Counter(m["B"]) ELSE Counter(m["A"])
  BY DEF img_compute_floor, img_compute_new_floor, img_slot_metadata_parse, Counter
<1>3. TopCounter(m) \in {Counter(m["A"]), Counter(m["B"])}
  BY <1>1, TwoSlots DEF TopCounter
<1>4. Counter(m["A"]) <= TopCounter(m) /\ Counter(m["B"]) <= TopCounter(m)
  BY TwoSlots DEF Topped
<1> QED  BY <1>1, <1>2, <1>3, <1>4

\* An active slot whose counter is not below the other's has the top counter.
LEMMA WinnerTops ==
  ASSUME NEW m \in MetaMaps, NEW w \in Slots, m[w] # NoMeta, m[w].active = 1,
         Counter(m[Other(w)]) <= Counter(m[w])
  PROVE  Topped(m) /\ TopCounter(m) = Counter(m[w])
<1>1. Counter(m[w]) \in Nat /\ Counter(m[Other(w)]) \in Nat /\ Other(w) \in Slots
  BY CounterType, TwoSlots DEF MetaMaps
<1>2. First(m) = w \/ (First(m) = Other(w) /\ m[Other(w)] # NoMeta
                       /\ m[Other(w)].monotonic_counter >= m[w].monotonic_counter)
  <2>1. m[w].monotonic_counter \in Nat /\ (m[Other(w)] # NoMeta =>
          m[Other(w)].monotonic_counter \in Nat /\ m[Other(w)].active \in {0, 1})
    BY <1>1 DEF Counter, MetaMaps, Metadata
  <2> QED  BY <2>1 DEF First, img_pick_active_slot, img_slot_metadata_parse, Slots, Other
<1>3. TopCounter(m) = Counter(m[w])
  BY <1>1, <1>2 DEF TopCounter, Counter
<1> QED  BY <1>1, <1>3, TwoSlots DEF Topped

\* Losing the other slot's metadata changes neither.
LEMMA LosesOther ==
  ASSUME NEW m1 \in MetaMaps, NEW m2 \in MetaMaps, Topped(m1), NEW s, s = First(m1),
         m2[s] = m1[s], m2[Other(s)] \in {m1[Other(s)], NoMeta}
  PROVE  Topped(m2) /\ TopCounter(m2) = TopCounter(m1)
<1>1. s \in Slots /\ Other(s) \in Slots
  BY Pick, TwoSlots DEF First
<1>2. First(m2) = s
  BY <1>1, PickStable DEF First, MetaMaps
<1>3. TopCounter(m2) = TopCounter(m1)
  BY <1>2 DEF TopCounter
<1>4. Counter(m1[s]) \in Nat
  BY <1>1, CounterType DEF MetaMaps
<1>5. ASSUME NEW t \in Slots  PROVE Counter(m2[t]) <= TopCounter(m1)
  <2>1. m2[t] \in {m1[t], NoMeta}
    BY <1>1, TwoSlots
  <2> QED  BY <1>4, <2>1 DEF Topped, TopCounter, Counter
<1> QED  BY <1>3, <1>5 DEF Topped

\* Neither depends on the fail_counts.
LEMMA SameCounters ==
  ASSUME NEW m1 \in MetaMaps, NEW m2 \in MetaMaps, Topped(m1), NEW s \in Slots,
         m2[Other(s)] = m1[Other(s)], m1[s] # NoMeta, m2[s] # NoMeta,
         m2[s].active = m1[s].active, m2[s].monotonic_counter = m1[s].monotonic_counter
  PROVE  Topped(m2) /\ TopCounter(m2) = TopCounter(m1)
<1>1. First(m2) = First(m1) /\ First(m1) \in Slots
  BY Pick DEF First, img_pick_active_slot, img_slot_metadata_parse, Slots, Other
<1>2. \A t \in Slots : Counter(m2[t]) = Counter(m1[t])
  BY TwoSlots DEF Counter
<1> QED  BY <1>1, <1>2 DEF Topped, TopCounter

-----------------------------------------------------------------------------
(* The floor.                                                              *)

SettledTop == TopCounter(SettledMeta)

\* The counter at the top is never lost: what is erased is not at the top, or
\* the commit that is under way brings it back.
FloorKept ==
  /\ Topped(SettledMeta) /\ floor <= SettledTop
  /\ pc = "boot_erase" =>
       commit.md.active = 1 /\ \A t \in Slots : Counter(meta[t]) <= commit.md.monotonic_counter
  /\ pc = "clear_erase" => meta[commit.slot] # NoMeta /\ commit.md = ClearedMeta(meta[commit.slot])
  /\ pc \in Receiving => \A t \in Slots : Counter(meta[t]) <= sess.max_seen_counter
  /\ pc \in {"target_erase", "target_program"} =>
       commit.md.active = 1 /\ sess.max_seen_counter <= commit.md.monotonic_counter
  /\ pc \in {"prev_erase", "prev_program"} =>
       LET w == Other(commit.slot)
       IN  /\ meta[w] # NoMeta /\ meta[w].active = 1
           /\ commit.md.monotonic_counter <= meta[w].monotonic_counter
           /\ Counter(meta[commit.slot]) <= meta[w].monotonic_counter

\* Outside the commits of the boot path and the handshake, the settled
\* metadata are those in flash.
SettledAs ==
  /\ SettledMeta \in MetaMaps /\ meta \in MetaMaps
  /\ pc \notin {"boot_program", "clear_program"} => SettledMeta = meta
  /\ pc \in {"boot_program", "clear_program"} =>
       /\ commit \in Commits
       /\ SettledMeta = [meta EXCEPT ![commit.slot] = commit.md]

LEMMA SettledIs == TypeInv => SettledAs
<1> SUFFICES ASSUME TypeInv  PROVE SettledAs
  OBVIOUS
<1>1. meta \in MetaMaps /\ (pc \in CommitSteps => commit \in Commits)
  BY DEF TypeInv, TypeOK, WellFormed, MetaMaps
<1>2. CASE pc \in {"boot_program", "clear_program"}
  <2>1. commit \in Commits
    BY <1>1, <1>2 DEF CommitSteps
  <2>2. [meta EXCEPT ![commit.slot] = commit.md] \in MetaMaps
    BY <1>1, <2>1 DEF MetaMaps, Commits
  <2> QED  BY <1>1, <1>2, <2>1, <2>2 DEF SettledMeta, SettledAs
<1>3. CASE pc \notin {"boot_program", "clear_program"}
  BY <1>1, <1>3 DEF SettledMeta, SettledAs
<1> QED  BY <1>2, <1>3

LEMMA SettledIsNext == TypeInv' => SettledAs'
BY SettledIs, PTL

LEMMA FloorKeptInit == Init => FloorKept
<1> SUFFICES ASSUME Init  PROVE FloorKept
  OBVIOUS
<1>1. pc = "boot" /\ floor = 0 /\ SettledMeta = [s \in Slots |-> NoMeta]
  BY DEF Init, SettledMeta
<1>2. First(SettledMeta) \in Slots
  BY Pick DEF First
<1>3. \A t \in Slots : Counter(SettledMeta[t]) = 0
  BY <1>1 DEF Counter
<1>4. SettledTop = 0 /\ Topped(SettledMeta)
  BY <1>2, <1>3 DEF SettledTop, TopCounter, Topped
<1> QED  BY <1>1, <1>4 DEF FloorKept, Receiving

\* A step that changes no metadata, and is not in a commit of the boot path or
\* the handshake before or after.
LEMMA MetaSame ==
  ASSUME TypeInv, TypeInv', meta' = meta,
         pc \notin {"boot_program", "clear_program"}, pc' \notin {"boot_program", "clear_program"}
  PROVE  SettledMeta' = SettledMeta
BY DEF SettledMeta

\* The new floor is kept if the settled metadata keep their top.
LEMMA TopsSame ==
  ASSUME Topped(SettledMeta), NEW m, SettledMeta' = m, Topped(m), TopCounter(m) >= SettledTop,
         floor <= SettledTop, floor' = floor, TypeInv, TypeInv'
  PROVE  Topped(SettledMeta)' /\ (floor <= SettledTop)' /\ SettledTop <= SettledTop'
<1>1. Topped(SettledMeta)' /\ SettledTop' = TopCounter(m)
  BY DEF Topped, SettledTop, TopCounter, First
<1>2. SettledTop \in Nat /\ floor \in Nat
  BY SettledIs, SettledIsNext, CounterType, Pick, U32Assumption DEF SettledTop, TopCounter, First, MetaMaps, TypeInv, TypeOK, U32, SettledAs
<1>3. SettledTop' \in Nat
  BY SettledIs, SettledIsNext, CounterType, Pick DEF SettledTop, TopCounter, First, MetaMaps, SettledAs
<1> QED  BY <1>1, <1>2, <1>3

LEMMA FloorKeptStep ==
  ASSUME CommitsComplete, TypeInv, TypeInv', Protected, FloorKept, [Next]_vars
  PROVE  FloorKept' /\ SettledTop <= SettledTop'
<1>a. /\ SettledMeta \in MetaMaps /\ meta \in MetaMaps /\ SettledMeta' \in MetaMaps /\ meta' \in MetaMaps
      /\ Topped(SettledMeta) /\ floor <= SettledTop
      /\ SettledTop \in Nat /\ floor \in Nat
  <2>1. SettledMeta \in MetaMaps /\ meta \in MetaMaps /\ SettledMeta' \in MetaMaps /\ meta' \in MetaMaps
    BY SettledIs, SettledIsNext DEF SettledAs
  <2>2. SettledTop \in Nat
    BY <2>1, CounterType, Pick DEF SettledTop, TopCounter, First, MetaMaps
  <2> QED  BY <2>1, <2>2, U32Assumption DEF FloorKept, TypeInv, TypeOK, U32
<1>b. \A t \in Slots : Counter(meta[t]) \in Nat /\ Counter(meta[t]) \in U32
  BY <1>a, CounterType DEF MetaMaps
<1>c. ASSUME UNCHANGED SettledMeta, floor' = floor
      PROVE  Topped(SettledMeta)' /\ (floor <= SettledTop)' /\ SettledTop <= SettledTop'
  BY <1>a, <1>c, TopsSame DEF SettledTop
<1>d. ~FlashFails
  BY DEF CommitsComplete
<1>1. CASE BootSlot
  <2>1. /\ pc = "boot" /\ pc' \in {"halt", "boot_erase"} /\ meta' = meta
        /\ floor' = scan_max_monotonic
    BY <1>1 DEF BootSlot
  <2>2. SettledMeta = meta /\ SettledMeta' = meta
    BY <2>1, SettledIs, SettledIsNext, MetaSame DEF SettledAs
  <2>3. floor' = SettledTop
    BY <1>a, <2>1, <2>2, FloorIsTop DEF SettledTop, scan_max_monotonic
  <2>4. SettledTop' = SettledTop /\ Topped(SettledMeta)'
    BY <1>a, <2>2 DEF SettledTop, TopCounter, First, Topped
  <2>5. pc' = "boot_erase" =>
          commit'.md.active = 1 /\ \A t \in Slots : Counter(meta[t]) <= commit'.md.monotonic_counter
    <3>1. SUFFICES ASSUME pc' = "boot_erase"
                   PROVE  commit'.md.active = 1 /\ commit'.md.monotonic_counter \in Nat
                          /\ commit'.md.monotonic_counter >= SettledTop
      BY <1>a, <1>b, <2>2, <2>3, U32Assumption DEF Topped, SettledTop
    <3>2. BootChoice # NoSlot /\ commit'.md = PostBootMeta(BootChoice)
      BY <1>1, <3>1 DEF BootSlot
    <3>3. commit'.md.monotonic_counter = image[BootChoice][0].version
          /\ image[BootChoice][0].version \in U32
          /\ image[BootChoice][0].version >= scan_max_monotonic
      BY <3>2, PostBoot, Choice
    <3> QED  BY <2>1, <2>3, <3>2, <3>3, U32Assumption DEF PostBootMeta, U32
  <2> QED  BY <1>a, <2>1, <2>3, <2>4, <2>5 DEF FloorKept, Receiving
<1>2. CASE CommitAndJump
  <2>1. CASE pc = "boot_erase"
    <3> DEFINE m == [meta EXCEPT ![commit.slot] = commit.md]
    <3>1. /\ pc' = "boot_program" /\ meta' = [meta EXCEPT ![commit.slot] = NoMeta] /\ UNCHANGED <<commit, floor>>
          /\ commit \in Commits
      BY <1>2, <1>d, <2>1 DEF CommitAndJump, CommitErase, CommitProgram, TypeInv, WellFormed, CommitSteps
    <3>2. SettledMeta = meta /\ SettledMeta' = m
      BY <1>a, <2>1, <3>1, SettledIs, SettledIsNext DEF SettledMeta, MetaMaps, Commits, SettledAs
    <3>3. m \in MetaMaps /\ m[commit.slot] = commit.md /\ commit.md # NoMeta
          /\ m[Other(commit.slot)] = meta[Other(commit.slot)]
          /\ commit.slot \in Slots /\ Other(commit.slot) \in Slots
          /\ commit.md.monotonic_counter \in Nat
      BY <1>a, <3>1, TwoSlots, SentinelAssumption, U32Assumption DEF Commits, MetaMaps, Metadata, U32
    <3>4. commit.md.active = 1 /\ \A t \in Slots : Counter(meta[t]) <= commit.md.monotonic_counter
      BY <2>1 DEF FloorKept
    <3> HIDE DEF m
    <3>5. Topped(m) /\ TopCounter(m) = commit.md.monotonic_counter
      BY <3>3, <3>4, WinnerTops DEF Counter
    <3>6. First(meta) \in Slots
      BY Pick DEF First
    <3>7. TopCounter(m) >= SettledTop
      BY <1>a, <3>2, <3>3, <3>4, <3>5, <3>6 DEF SettledTop, TopCounter
    <3> QED  BY <1>a, <3>1, <3>2, <3>5, <3>7, TopsSame DEF FloorKept, Receiving
  <2>2. CASE pc = "boot_program"
    <3>1. /\ pc' = "app" /\ meta' = [meta EXCEPT ![commit.slot] = commit.md] /\ floor' = floor
      BY <1>2, <1>d, <2>2 DEF CommitAndJump, CommitErase, CommitProgram
    <3>2. UNCHANGED SettledMeta
      BY <2>2, <3>1, SettledIs, SettledIsNext DEF SettledAs
    <3> QED  BY <1>c, <3>1, <3>2 DEF FloorKept, Receiving
  <2> QED  BY <1>2, <2>1, <2>2 DEF CommitAndJump, CommitErase, CommitProgram
<1>3. CASE CommitClear
  <2>1. CASE pc = "clear_erase"
    <3> DEFINE s == commit.slot
               m == [meta EXCEPT ![s] = commit.md]
    <3>1. /\ pc' = "clear_program" /\ meta' = [meta EXCEPT ![s] = NoMeta] /\ UNCHANGED <<commit, floor>>
          /\ commit \in Commits
      BY <1>3, <1>d, <2>1 DEF CommitClear, CommitErase, CommitProgram, TypeInv, WellFormed, CommitSteps
    <3>2. SettledMeta = meta /\ SettledMeta' = m
      BY <1>a, <2>1, <3>1, SettledIs, SettledIsNext DEF SettledMeta, MetaMaps, Commits, SettledAs
    <3>3. m \in MetaMaps /\ m[s] = commit.md /\ commit.md # NoMeta
          /\ m[Other(s)] = meta[Other(s)] /\ s \in Slots
      BY <1>a, <3>1, TwoSlots, SentinelAssumption DEF Commits, MetaMaps
    <3>4. /\ meta[s] # NoMeta /\ commit.md.active = meta[s].active
          /\ commit.md.monotonic_counter = meta[s].monotonic_counter
      BY <1>a, <2>1, <3>3 DEF FloorKept, ClearedMeta, MetaMaps, Metadata
    <3> HIDE DEF m, s
    <3>5. Topped(m) /\ TopCounter(m) = SettledTop
      BY <1>a, <3>2, <3>3, <3>4, SameCounters DEF SettledTop
    <3> QED  BY <1>a, <3>1, <3>2, <3>5, TopsSame DEF FloorKept, Receiving
  <2>2. CASE pc = "clear_program"
    <3>1. /\ pc' = "app_up" /\ meta' = [meta EXCEPT ![commit.slot] = commit.md] /\ floor' = floor
      BY <1>3, <1>d, <2>2 DEF CommitClear, CommitErase, CommitProgram
    <3>2. UNCHANGED SettledMeta
      BY <2>2, <3>1, SettledIs, SettledIsNext DEF SettledAs
    <3> QED  BY <1>c, <3>1, <3>2 DEF FloorKept, Receiving
  <2> QED  BY <1>3, <2>1, <2>2 DEF CommitClear, CommitErase, CommitProgram
<1>4. CASE AppHandshake
  <2>1. /\ pc = "app" /\ pc' \in {"clear_erase", "app_up"} /\ UNCHANGED <<meta, floor>>
        /\ pc' = "clear_erase" => meta[running] # NoMeta /\ commit'.slot = running
                                  /\ commit'.md = ClearedMeta(meta[running])
    BY <1>4 DEF AppHandshake, img_slot_metadata_parse
  <2>2. UNCHANGED SettledMeta
    BY <2>1, MetaSame
  <2> QED  BY <1>c, <2>1, <2>2 DEF FloorKept, Receiving
<1>5. CASE Restart \/ AppRequestOta \/ OperatorForcesOta \/ OtaDone \/ PowerCut
  <2>1. /\ pc' = "boot" /\ UNCHANGED <<meta, floor>> /\ pc \notin {"boot_program", "clear_program"}
    BY <1>5 DEF Restart, AppRequestOta, OperatorForcesOta, OtaDone, OtaReset, PowerCut, CommitsComplete
  <2>2. UNCHANGED SettledMeta
    BY <2>1, MetaSame
  <2> QED  BY <1>c, <2>1, <2>2 DEF FloorKept, Receiving
<1>6. CASE UNCHANGED vars
  <2>1. UNCHANGED <<pc, meta, commit, sess, floor>>
    BY <1>6 DEF vars
  <2>2. UNCHANGED SettledMeta
    BY <2>1 DEF SettledMeta
  <2> QED  BY <1>c, <2>1, <2>2 DEF FloorKept
<1>7. CASE EnterOta
  <2>1. /\ pc = "boot" /\ pc' = "ota" /\ UNCHANGED <<meta, floor>>
        /\ sess'.max_seen_counter = scan_max_monotonic
    BY <1>7 DEF EnterOta, NewSession
  <2>2. UNCHANGED SettledMeta /\ SettledMeta = meta
    BY <2>1, MetaSame, SettledIs, SettledIsNext DEF SettledAs
  <2>3. \A t \in Slots : Counter(meta'[t]) <= sess'.max_seen_counter
    BY <1>a, <2>1, <2>2, FloorIsTop DEF scan_max_monotonic, Topped
  <2> QED  BY <1>c, <2>1, <2>2, <2>3 DEF FloorKept
<1>8. CASE OtaFrame
  <2>1. PICK f \in HostSends, r \in Replies \cup {None} : on_frame(f, r)
    BY <1>8 DEF OtaFrame
  <2>2. f \in Frames
    BY HostAssumption
  <2>3. /\ pc = "ota" /\ pc' \in {"ota", "halt", "target_erase"} /\ UNCHANGED <<meta, floor>>
        /\ sess \in Sessions /\ image \in [Slots -> Content]
    BY <1>8, <2>1, <2>2, FrameTypes, Typed DEF OtaFrame, TypeInv, TypeOK, WellFormed, OtaSteps
  <2>4. UNCHANGED SettledMeta
    BY <2>3, MetaSame
  <2>5. pc' # "halt" => sess'.max_seen_counter = sess.max_seen_counter
    BY <2>1, <2>2, FrameProtects, Typed
  <2>6. pc' = "target_erase" =>
          commit'.md.active = 1 /\ sess.max_seen_counter <= commit'.md.monotonic_counter
    <3> SUFFICES ASSUME pc' = "target_erase"
                 PROVE  commit'.md.active = 1 /\ sess.max_seen_counter <= commit'.md.monotonic_counter
      OBVIOUS
    <3> DEFINE v == image[sess.target_slot][0].version
               n == (sess.max_seen_counter + 1) % (U32Max + 1)
    <3>1. /\ commit'.md = TargetMeta(v)
          /\ sess.target_slot \in Slots /\ verify_slot(image[sess.target_slot])
          /\ img_header_meets_floor(v, sess.max_seen_counter)
      BY <2>1, <2>2, FrameProtects, Typed
    <3>2. v \in U32 /\ sess.max_seen_counter \in U32
      BY <2>3, <3>1, Verified DEF Sessions
    <3>3. n \in U32
      BY <3>2, U32Assumption DEF U32
    <3>4. v >= sess.max_seen_counter
      BY <3>1 DEF img_header_meets_floor
    <3>5. commit'.md.active = 1 /\ commit'.md.monotonic_counter = img_compute_new_floor(n, v)
      BY <3>1 DEF TargetMeta, NewCounter
    <3> HIDE DEF v, n
    <3>6. img_compute_new_floor(n, v) \in U32 /\ img_compute_new_floor(n, v) >= v
      BY <3>2, <3>3, NewFloor
    <3> QED  BY <3>2, <3>4, <3>5, <3>6, U32Assumption DEF U32
  <2> QED  BY <1>c, <2>3, <2>4, <2>5, <2>6 DEF FloorKept, Receiving
<1>9. CASE OtaSwapTarget
  <2>0. PICK r : SwapTarget(r)
    BY <1>9 DEF OtaSwapTarget
  <2> DEFINE t == sess.target_slot
             p == sess.prev_active
  <2>1. /\ sess \in Sessions /\ p \in Slots /\ t = Other(p) /\ commit.slot = t /\ p = Other(t) /\ t \in Slots
        /\ pc \in {"target_erase", "target_program"}
        /\ commit \in Commits /\ floor' = floor
        /\ p = First(meta)
    BY <1>9, <2>0, SwapSteps, TwoSlots
       DEF OtaSwapTarget, SwapTarget, CommitErase, CommitProgram, Protected, Receiving, scan_active_slot,
           First, TypeInv, WellFormed, CommitSteps, OtaSteps
  <2> HIDE DEF t, p
  <2>2. SettledMeta = meta
    BY <2>1, SettledIs, SettledIsNext DEF SettledAs
  <2>3. /\ commit.md.active = 1 /\ sess.max_seen_counter <= commit.md.monotonic_counter
        /\ \A x \in Slots : Counter(meta[x]) <= sess.max_seen_counter
        /\ sess.max_seen_counter \in Nat /\ commit.md.monotonic_counter \in Nat /\ commit.md # NoMeta
    BY <2>1, SentinelAssumption, U32Assumption DEF FloorKept, Receiving, Sessions, Commits, Metadata, U32
  <2>4. CASE pc = "target_erase"
    <3>1. /\ pc' = "target_program" /\ meta' = [meta EXCEPT ![t] = NoMeta] /\ UNCHANGED <<commit, sess>>
      BY <1>d, <2>0, <2>1, <2>4 DEF SwapTarget, CommitErase, CommitProgram
    <3>2. SettledMeta' = meta'
      BY <3>1, SettledIs, SettledIsNext DEF SettledAs
    <3>3. meta'[p] = meta[p] /\ meta'[Other(p)] = NoMeta
      BY <1>a, <2>1, <3>1, TwoSlots DEF MetaMaps
    <3>4. Topped(meta') /\ TopCounter(meta') = SettledTop
      BY <1>a, <2>1, <2>2, <3>3, LosesOther DEF SettledTop
    <3>5. \A x \in Slots : Counter(meta'[x]) <= sess.max_seen_counter
      BY <1>a, <2>1, <2>3, <3>3, TwoSlots DEF Counter
    <3>6. Topped(SettledMeta)' /\ (floor <= SettledTop)' /\ SettledTop <= SettledTop'
      BY <1>a, <2>1, <3>2, <3>4, TopsSame
    <3> QED  BY <2>3, <3>1, <3>5, <3>6 DEF FloorKept, Receiving
  <2>5. CASE pc = "target_program"
    <3>1. /\ pc' = "prev_erase" /\ meta' = [meta EXCEPT ![t] = commit.md]
          /\ commit' = [slot |-> p, md |-> PrevMeta] /\ UNCHANGED sess
      BY <1>d, <2>0, <2>1, <2>5 DEF SwapTarget, CommitErase, CommitProgram, p
    <3>2. SettledMeta' = meta'
      BY <3>1, SettledIs, SettledIsNext DEF SettledAs
    <3>3. meta'[t] = commit.md /\ meta'[p] = meta[p]
      BY <1>a, <2>1, <3>1, TwoSlots DEF MetaMaps
    <3>4. Counter(meta[p]) \in Nat /\ Counter(meta[p]) <= commit.md.monotonic_counter
          /\ PrevMeta.monotonic_counter = Counter(meta[p])
      BY <1>b, <2>1, <2>3 DEF PrevMeta, Counter, img_slot_metadata_parse, p
    <3>5. Topped(meta') /\ TopCounter(meta') = commit.md.monotonic_counter
      BY <1>a, <2>1, <2>3, <3>3, <3>4, WinnerTops DEF Counter
    <3>6. TopCounter(meta') >= SettledTop
      BY <1>a, <2>1, <2>2, <2>3, <3>4, <3>5 DEF SettledTop, TopCounter
    <3>7. LET w == Other(commit'.slot)
          IN  /\ meta'[w] # NoMeta /\ meta'[w].active = 1
              /\ commit'.md.monotonic_counter <= meta'[w].monotonic_counter
              /\ Counter(meta'[commit'.slot]) <= meta'[w].monotonic_counter
      BY <2>1, <2>3, <3>1, <3>3, <3>4
    <3> QED  BY <1>a, <2>1, <3>1, <3>2, <3>5, <3>6, <3>7, TopsSame DEF FloorKept, Receiving, Counter
  <2> QED  BY <2>1, <2>4, <2>5
<1>10. CASE OtaSwapPrevious
  <2>0. PICK r : SwapPrevious(r)
    BY <1>10 DEF OtaSwapPrevious
  <2> DEFINE p == commit.slot
             w == Other(p)
  <2>1. /\ pc \in {"prev_erase", "prev_program"} /\ commit \in Commits /\ floor' = floor
        /\ p \in Slots /\ w \in Slots /\ w # p /\ Other(w) = p
        /\ commit.md # NoMeta /\ commit.md.monotonic_counter \in Nat
    BY <1>10, <2>0, TwoSlots, SentinelAssumption, U32Assumption
       DEF OtaSwapPrevious, SwapPrevious, CommitErase, CommitProgram, TypeInv, WellFormed, CommitSteps,
           Commits, Metadata, U32
  <2>2. /\ meta[w] # NoMeta /\ meta[w].active = 1
        /\ commit.md.monotonic_counter <= meta[w].monotonic_counter
        /\ Counter(meta[p]) <= meta[w].monotonic_counter
        /\ Counter(meta[w]) = meta[w].monotonic_counter /\ meta[w].monotonic_counter \in Nat
    BY <1>b, <2>1 DEF FloorKept, Counter
  <2>3. SettledMeta = meta /\ SettledTop = meta[w].monotonic_counter
    BY <1>a, <2>1, <2>2, SettledIs, SettledIsNext, WinnerTops DEF SettledTop, SettledAs
  <2>4. /\ pc' \in {"prev_program", "done"} /\ (pc' = "prev_program" => commit' = commit)
        /\ meta' = [meta EXCEPT ![p] = NoMeta] \/ meta' = [meta EXCEPT ![p] = commit.md]
    BY <1>d, <2>0 DEF SwapPrevious, CommitErase, CommitProgram
  <2>5. /\ meta'[w] = meta[w] /\ meta'[p] \in {NoMeta, commit.md} /\ SettledMeta' = meta'
    BY <1>a, <2>1, <2>4, SettledIs, SettledIsNext DEF MetaMaps, SettledAs
  <2> HIDE DEF p, w
  <2>6. Counter(meta'[p]) <= meta'[w].monotonic_counter
    BY <2>2, <2>5 DEF Counter
  <2>7. Topped(meta') /\ TopCounter(meta') = SettledTop
    BY <1>a, <2>1, <2>2, <2>3, <2>5, <2>6, WinnerTops DEF Counter
  <2> QED  BY <1>a, <2>1, <2>2, <2>4, <2>5, <2>6, <2>7, TopsSame DEF FloorKept, Receiving, p, w
<1> QED
  BY <1>1, <1>2, <1>3, <1>4, <1>5, <1>6, <1>7, <1>8, <1>9, <1>10 DEF Next

\* The rollback floor never falls from one boot to a later one, whatever is
\* sent and wherever else the power is cut (img_header.h:154-159).
THEOREM FloorNeverFalls == CommitsComplete => (Spec => FloorMonotonic)
<1> SUFFICES ASSUME CommitsComplete PROVE Spec => FloorMonotonic
  OBVIOUS
<1>1. Init => TypeInv /\ Protected /\ FloorKept
  BY TypeInit, ProtectedInit, FloorKeptInit
<1>2. TypeInv /\ Protected /\ FloorKept /\ [Next]_vars => (TypeInv /\ Protected /\ FloorKept)'
  BY TypeStep, ProtectedStep, FloorKeptStep
<1>3. TypeInv /\ Protected /\ FloorKept /\ [Next]_vars => [floor' >= floor]_floor
  <2> SUFFICES ASSUME TypeInv, Protected, FloorKept, [Next]_vars, floor' # floor  PROVE floor' >= floor
    OBVIOUS
  <2>1. BootSlot
    BY DEF Next, vars, EnterOta, CommitAndJump, AppHandshake, CommitClear, Restart, AppRequestOta,
           OperatorForcesOta, OtaFrame, OtaSwapTarget, OtaSwapPrevious, OtaDone, PowerCut
  <2>2. pc = "boot" /\ floor' = scan_max_monotonic
    BY <2>1 DEF BootSlot
  <2>3. SettledMeta = meta /\ meta \in MetaMaps
    BY <2>2, SettledIs, SettledIsNext DEF SettledAs
  <2>4. floor' = SettledTop
    BY <2>2, <2>3, FloorIsTop DEF FloorKept, SettledTop, scan_max_monotonic
  <2>5. floor \in Nat /\ floor' \in Nat
    BY <2>2, Choice, U32Assumption DEF TypeInv, TypeOK, U32
  <2> QED  BY <2>4, <2>5 DEF FloorKept
<1> QED  BY <1>1, <1>2, <1>3, PTL DEF Spec, FloorMonotonic

-----------------------------------------------------------------------------
(* The image a session installs.                                           *)

\* Releases bump the version, and erasing a slot erases its header.
NewReleases == ~ReusesVersions /\ HeadersErased

\* What a session finds at its target's base is not of the version it has seen,
\* so that what it installs is newer; a slot just installed can be booted.
Upgrade ==
  /\ pc = "ota" /\ sess.state = "RECEIVING" /\ image[sess.target_slot][0] \in Images =>
       image[sess.target_slot][0].version # sess.max_seen_counter
  /\ pc \in {"target_erase", "target_program"} =>
       LET v == image[sess.target_slot][0].version
       IN  /\ verify_slot(image[sess.target_slot]) /\ v > sess.max_seen_counter
           /\ commit.md = [active |-> 1, fail_count |-> 0, monotonic_counter |-> v]
  /\ pc \in {"prev_erase", "prev_program"} =>
       commit.md.monotonic_counter <= image[fresh][0].version
  /\ fresh # NoSlot =>
       /\ verify_slot(image[fresh])
       /\ meta[fresh] # NoMeta /\ meta[fresh].fail_count = 0
       /\ meta[fresh].monotonic_counter = image[fresh][0].version
       /\ Counter(meta[Other(fresh)]) <= image[fresh][0].version

\* No frame brings the version the session has seen to the target's base.
LEMMA FrameIsNewer ==
  ASSUME NewReleases, TypeInv, Protected, Upgrade, NEW f \in Frames, NEW r, on_frame(f, r),
         HostMaySend(f), pc' = "ota", sess'.state = "RECEIVING",
         image'[sess'.target_slot][0] \in Images
  PROVE  image'[sess'.target_slot][0].version # sess.max_seen_counter
<1>1. /\ pc = "ota" /\ sess \in Sessions /\ image \in [Slots -> Content]
      /\ sess.state = "RECEIVING" => sess.target_slot \in Slots
      /\ 0 \in Units /\ Garbage \notin Images /\ Erased \notin Images
  BY UnitsAssumption, SentinelAssumption DEF on_frame, TypeInv, TypeOK, WellFormed, OtaSteps, Units
<1>2. /\ Seen(f, sess).state = sess.state
      /\ Seen(f, sess).target_slot = sess.target_slot
  BY <1>1 DEF Seen, Sessions
<1>3. CASE image' = image /\ (sess' = sess \/ sess' = Seen(f, sess))
  BY <1>1, <1>2, <1>3 DEF Upgrade
<1>4. CASE f.type = "OTA_BEGIN" /\ handle_ota_begin(f, r)
  <2>1. CASE /\ BeginAccepted(f) /\ flash_slot_erase(f.slot)
             /\ sess' = Seen(f, [sess EXCEPT !.state = "RECEIVING", !.target_slot = f.slot,
                                             !.expected_size = f.size, !.received_bytes = 0])
    <3>1. f.slot \in Slots /\ sess'.target_slot = f.slot
      BY <1>1, <2>1 DEF BeginAccepted, Seen, Sessions
    <3>2. image'[f.slot][0] = Erased
      BY <1>1, <2>1, <3>1 DEF flash_slot_erase, NewReleases, HeadersErased
    <3> QED  BY <1>1, <3>1, <3>2
  <2>2. CASE BeginAccepted(f) /\ TornErase(f.slot) /\ Refuse(f, r)
    <3>1. /\ sess.state = "RECEIVING" /\ sess'.target_slot = sess.target_slot
          /\ f.slot \in Slots /\ sess.target_slot \in Slots
      BY <1>1, <1>2, <2>2 DEF Refuse, BeginAccepted
    <3>2. image'[sess.target_slot][0] \in {image[sess.target_slot][0], Erased, Garbage}
      BY <1>1, <2>2, <3>1 DEF TornErase
    <3> QED  BY <1>1, <3>1, <3>2 DEF Upgrade
  <2>3. CASE Refuse(f, r) /\ image' = image
    BY <1>3, <2>3 DEF Refuse
  <2> QED  BY <1>4, <2>1, <2>2, <2>3 DEF handle_ota_begin
<1>5. CASE f.type = "OTA_CHUNK" /\ handle_ota_chunk(f, r)
  <2>1. CASE Refuse(f, r) /\ image' = image
    BY <1>3, <2>1 DEF Refuse
  <2>2. CASE /\ ChunkAccepted(f)
             /\ \/ /\ flash_write_bytes(sess.target_slot, f.offset, f.data)
                   /\ sess' = Seen(f, [sess EXCEPT !.received_bytes = @ + 1])
                \/ TornWrite(sess.target_slot, f.offset) /\ Refuse(f, r)
    <3>1. /\ sess.state = "RECEIVING" /\ f.data \in Images /\ f.data.version # sess.max_seen_counter
          /\ sess'.target_slot = sess.target_slot /\ sess.target_slot \in Slots
          /\ f.offset \in Units
      <4>1. sess.state = "RECEIVING" /\ f.data \in Images /\ f.offset \in Nat /\ sess.target_slot \in Slots
        BY <1>1, <1>5, <2>2, FrameFields DEF ChunkAccepted
      <4>2. f.offset \in Units
        BY <1>1, <2>2, <4>1, UnitsAssumption DEF ChunkAccepted, Units, Sessions
      <4>3. sess'.target_slot = sess.target_slot
        BY <1>1, <1>2, <2>2 DEF Refuse, Seen, Sessions
      <4> QED  BY <1>5, <4>1, <4>2, <4>3 DEF HostMaySend, NewReleases
    <3>2. \/ image' = image
          \/ \E x \in {Garbage, f.data} : image' = [image EXCEPT ![sess.target_slot][f.offset] = x]
      BY <2>2 DEF flash_write_bytes, TornWrite
    <3>3. image'[sess.target_slot][0] \in {image[sess.target_slot][0], Garbage, f.data}
      BY <1>1, <3>1, <3>2 DEF Content
    <3> QED  BY <1>1, <3>1, <3>3 DEF Upgrade
  <2> QED  BY <1>5, <2>1, <2>2 DEF handle_ota_chunk
<1>6. CASE f.type = "OTA_END" /\ handle_ota_end(f, r)
  BY <1>6 DEF handle_ota_end, HaltWith
<1> QED
  BY <1>3, <1>4, <1>5, <1>6 DEF on_frame, Duplicate, Refuse, otaVars, flashVars

LEMMA UpgradeStep ==
  ASSUME NewReleases, TypeInv, Protected, FreshWins, Upgrade, [Next]_vars
  PROVE  Upgrade' /\ CounterWins
<1>a. /\ meta \in MetaMaps /\ image \in [Slots -> Content] /\ fresh \in Slots \cup {NoSlot}
      /\ fresh # NoSlot => pc \in {"prev_erase", "prev_program", "done", "boot"}
      /\ \A t \in Slots : Counter(meta[t]) \in Nat
      /\ \A t \in Slots : Other(t) \in Slots /\ Other(t) # t /\ Other(Other(t)) = t
  <2>1. meta \in MetaMaps
    BY DEF MetaMaps, TypeInv, TypeOK
  <2> QED  BY <2>1, CounterType, TwoSlots DEF MetaMaps, TypeInv, TypeOK, FreshWins
<1>1. CASE OtaFrame
  <2>1. PICK f \in HostSends, r \in Replies \cup {None} : HostMaySend(f) /\ on_frame(f, r)
    BY <1>1 DEF OtaFrame
  <2>2. f \in Frames
    BY HostAssumption
  <2>3. /\ pc = "ota" /\ pc' \in {"ota", "halt", "target_erase"} /\ sess \in Sessions
        /\ fresh = NoSlot /\ fresh' = NoSlot
        /\ pc' # "halt" => sess'.max_seen_counter = sess.max_seen_counter
    BY <1>1, <1>a, <2>1, <2>2, FrameTypes, FrameProtects, Typed
       DEF OtaFrame, TypeInv, WellFormed, OtaSteps
  <2>4. CASE pc' = "ota"
    BY <2>1, <2>2, <2>3, <2>4, FrameIsNewer DEF Upgrade, CounterWins
  <2>5. CASE pc' = "target_erase"
    <3> DEFINE i == image[sess.target_slot][0]
               v == i.version
               m == sess.max_seen_counter
    <3>1. image' = image /\ sess.state = "RECEIVING"
      BY <2>1, <2>3, <2>5
         DEF on_frame, Duplicate, otaVars, flashVars, Refuse, handle_ota_begin, handle_ota_chunk,
             handle_ota_end, HaltWith
    <3>2. /\ commit'.md = TargetMeta(v) /\ sess'.target_slot = sess.target_slot
          /\ sess.target_slot \in Slots /\ verify_slot(image[sess.target_slot])
          /\ img_header_meets_floor(v, m)
      BY <2>1, <2>2, <2>5, FrameProtects, Typed
    <3>3. i \in Images /\ v \in U32 /\ m \in U32
      BY <1>a, <2>3, <3>2, Verified DEF Sessions
    <3>4. v >= m /\ v # m
      BY <2>3, <3>1, <3>2, <3>3 DEF Upgrade, img_header_meets_floor
    <3>5. commit'.md = [active |-> 1, fail_count |-> 0, monotonic_counter |-> NewCounter(v)]
      BY <3>2 DEF TargetMeta
    <3>6. NewCounter(v) = img_compute_new_floor((m + 1) % (U32Max + 1), v)
      BY DEF NewCounter
    <3> HIDE DEF v, m, i
    <3>7. v > m /\ (m + 1) % (U32Max + 1) = m + 1 /\ m + 1 <= v
      BY <3>3, <3>4, U32Assumption DEF U32
    <3>8. NewCounter(v) = v
      BY <3>3, <3>6, <3>7, U32Assumption DEF img_compute_new_floor, U32
    <3>9. commit'.md.monotonic_counter = v
      BY <3>5, <3>8
    <3> USE DEF v, m, i
    <3>10. image'[sess'.target_slot] = image[sess.target_slot]
      BY <3>1, <3>2
    <3> QED  BY <2>3, <2>5, <3>2, <3>5, <3>7, <3>8, <3>9, <3>10 DEF Upgrade, CounterWins
  <2> QED  BY <2>3, <2>4, <2>5 DEF Upgrade, CounterWins
<1>2. CASE OtaSwapTarget
  <2> DEFINE t == sess.target_slot
             p == sess.prev_active
             v == image[t][0].version
  <2>1. /\ pc \in {"target_erase", "target_program"} /\ sess \in Sessions /\ p \in Slots
        /\ t = Other(p) /\ t \in Slots /\ image' = image /\ fresh = NoSlot
        /\ pc' \in {"target_program", "prev_erase", "halt"}
        /\ pc' # "halt" => sess' = sess
        /\ commit \in Commits /\ commit.slot = t
    BY <1>2, <1>a, SwapSteps
       DEF OtaSwapTarget, SwapTarget, CommitErase, CommitProgram, TypeInv, WellFormed, CommitSteps, Protected
  <2>2. /\ verify_slot(image[t]) /\ v > sess.max_seen_counter
        /\ commit.md = [active |-> 1, fail_count |-> 0, monotonic_counter |-> v]
        /\ Counter(meta[p]) <= sess.max_seen_counter
        /\ sess.max_seen_counter \in Nat /\ v \in Nat
    <3>1. /\ verify_slot(image[t]) /\ v > sess.max_seen_counter
          /\ commit.md = [active |-> 1, fail_count |-> 0, monotonic_counter |-> v]
      BY <2>1 DEF Upgrade
    <3>2. sess.max_seen_counter \in Nat /\ v \in Nat
      BY <1>a, <2>1, <3>1, Verified, U32Assumption DEF Sessions, U32
    <3>3. Counter(meta[p]) <= sess.max_seen_counter
      BY <2>1, <3>2 DEF FreshWins, Receiving, Counter, img_slot_metadata_parse
    <3> QED  BY <3>1, <3>2, <3>3
  <2>3. CASE pc' \in {"target_program", "halt"}
    <3>1. fresh' = NoSlot /\ (pc' = "target_program" => commit' = commit)
      BY <1>2, <2>1, <2>3 DEF OtaSwapTarget, SwapTarget, CommitErase, CommitProgram
    <3> QED  BY <2>1, <2>2, <2>3, <3>1 DEF Upgrade, CounterWins
  <2>4. CASE pc' = "prev_erase"
    <3>1. /\ meta' = [meta EXCEPT ![t] = commit.md] /\ commit'.md = PrevMeta /\ fresh' = t
      BY <1>2, <2>1, <2>4 DEF OtaSwapTarget, SwapTarget, CommitErase, CommitProgram
    <3>2. meta'[t] = commit.md /\ meta'[Other(t)] = meta[p] /\ commit.md # NoMeta
      BY <1>a, <2>1, <3>1, SentinelAssumption DEF MetaMaps, Commits
    <3>3. PrevMeta.monotonic_counter = Counter(meta[p])
      BY DEF PrevMeta, Counter, img_slot_metadata_parse
    <3>4. Counter(meta[p]) <= v
      BY <1>a, <2>1, <2>2
    <3>5. commit.md.fail_count = 0 /\ commit.md.monotonic_counter = v
      BY <2>2
    <3> HIDE DEF v
    <3>6. Upgrade'
      BY <2>1, <2>2, <2>4, <3>1, <3>2, <3>3, <3>4, <3>5 DEF Upgrade, v
    <3> QED  BY <2>1, <3>6 DEF CounterWins
  <2> QED  BY <2>1, <2>3, <2>4
<1>3. CASE OtaSwapPrevious
  <2>0. PICK r : SwapPrevious(r)
    BY <1>3 DEF OtaSwapPrevious
  <2>1. /\ pc \in {"prev_erase", "prev_program"} /\ pc' \in {"prev_program", "done"}
        /\ sess' = sess /\ fresh' = fresh /\ image' = image
        /\ (pc' = "prev_program" => commit' = commit)
        /\ \/ meta' = [meta EXCEPT ![commit.slot] = NoMeta] \/ meta' = meta
           \/ meta' = [meta EXCEPT ![commit.slot] = commit.md]
    BY <1>3, <2>0 DEF OtaSwapPrevious, SwapPrevious, CommitErase, CommitProgram
  <2>2. /\ fresh = sess.target_slot /\ commit.slot = Other(fresh) /\ fresh \in Slots
        /\ commit \in Commits /\ commit.md # NoMeta
    BY <1>3, <1>a, <2>1, SwapSteps, NoneAssumption, SentinelAssumption
       DEF FreshWins, TypeInv, WellFormed, CommitSteps, Commits
  <2>3. /\ verify_slot(image[fresh])
        /\ meta[fresh] # NoMeta /\ meta[fresh].fail_count = 0
        /\ meta[fresh].monotonic_counter = image[fresh][0].version
        /\ Counter(meta[Other(fresh)]) <= image[fresh][0].version
        /\ commit.md.monotonic_counter <= image[fresh][0].version
        /\ 0 <= image[fresh][0].version
    <3>1. /\ verify_slot(image[fresh]) /\ fresh # NoSlot
      BY <2>1, <2>2, NoneAssumption DEF Upgrade
    <3>2. 0 <= image[fresh][0].version
      BY <1>a, <2>2, <3>1, Verified, U32Assumption DEF U32
    <3> QED  BY <2>1, <3>1, <3>2 DEF Upgrade
  <2>4. meta'[fresh] = meta[fresh]
        /\ meta'[Other(fresh)] \in {meta[Other(fresh)], NoMeta, commit.md}
    BY <1>a, <2>1, <2>2 DEF MetaMaps
  <2>5. Counter(meta'[Other(fresh)]) <= image[fresh][0].version
    BY <2>2, <2>3, <2>4 DEF Counter
  <2> QED  BY <2>1, <2>3, <2>4, <2>5 DEF Upgrade, CounterWins
<1>4. CASE PowerCut \/ OtaDone
  <2>1. /\ pc' = "boot" /\ meta' = meta /\ fresh' = fresh
        /\ pc # "ota" => image' = image
    BY <1>4 DEF PowerCut, OtaDone, OtaReset
  <2> QED  BY <1>a, <2>1 DEF Upgrade, CounterWins
<1>5. CASE EnterOta \/ BootSlot
  BY <1>5 DEF EnterOta, BootSlot, NewSession, Upgrade, CounterWins
<1>6. CASE CommitAndJump \/ CommitClear
  BY <1>a, <1>6 DEF CommitAndJump, CommitClear, CommitErase, CommitProgram, Upgrade, CounterWins
<1>7. CASE AppHandshake \/ Restart \/ AppRequestOta \/ OperatorForcesOta
  BY <1>a, <1>7 DEF AppHandshake, Restart, AppRequestOta, OperatorForcesOta, Upgrade, CounterWins
<1>8. CASE UNCHANGED vars
  BY <1>8 DEF vars, Upgrade, CounterWins
<1> QED
  BY <1>1, <1>2, <1>3, <1>4, <1>5, <1>6, <1>7, <1>8 DEF Next

LEMMA FreshCanBoot == TypeInv /\ FreshWins /\ Upgrade => FreshImageBoots
<1> SUFFICES ASSUME TypeInv, FreshWins, Upgrade, fresh # NoSlot  PROVE BootChoice = fresh
  BY DEF FreshImageBoots
<1>1. scan_active_slot = fresh /\ fresh \in Slots
  BY FreshPicked DEF FreshImageFirst, TypeInv, TypeOK
<1>2. /\ meta \in MetaMaps /\ First(meta) = fresh /\ verify_slot(image[fresh])
      /\ meta[fresh] # NoMeta /\ meta[fresh].fail_count = 0
      /\ meta[fresh].monotonic_counter = image[fresh][0].version
      /\ Counter(meta[Other(fresh)]) <= image[fresh][0].version
      /\ meta[fresh].active = 1
  BY <1>1 DEF Upgrade, FreshWins, MetaMaps, TypeInv, TypeOK, First, scan_active_slot
<1>3. scan_max_monotonic = image[fresh][0].version
  BY <1>1, <1>2, WinnerTops, FloorIsTop DEF scan_max_monotonic, Counter
<1>4. image[fresh][0].version \in Nat
  BY <1>1, <1>2, Verified, U32Assumption DEF TypeInv, TypeOK, U32
<1> QED
  BY <1>1, <1>2, <1>3, <1>4
     DEF BootChoice, try_boot_slot, img_fail_count_tripped, IMG_FAIL_COUNT_MAX, img_header_meets_floor

\* STATUS(ok) means a reset into the new image: once the target's metadata is
\* stored, every reset up to the next boot decision chooses the image just
\* installed, wherever the demotion is cut or fails (main.c:8-10).
THEOREM NewImageBoots == NewReleases => (Spec => []FreshImageBoots)
<1> SUFFICES ASSUME NewReleases PROVE Spec => []FreshImageBoots
  OBVIOUS
<1>1. Init => TypeInv /\ Protected /\ FreshWins /\ Upgrade
  BY TypeInit, ProtectedInit DEF Init, FreshWins, Receiving, Upgrade
<1>2. TypeInv /\ Protected /\ FreshWins /\ Upgrade /\ [Next]_vars
        => (TypeInv /\ Protected /\ FreshWins /\ Upgrade)'
  BY TypeStep, ProtectedStep, UpgradeStep, FreshStep
<1>3. TypeInv /\ FreshWins /\ Upgrade => FreshImageBoots
  BY FreshCanBoot
<1> QED
  BY <1>1, <1>2, <1>3, PTL DEF Spec

-----------------------------------------------------------------------------
(* Crash loops.                                                            *)

\* The jumps to a slot's image are counted by its fail_count, unless a newer
\* image has been installed since, so that it can no longer be booted, or its
\* fail_count is just being cleared.
Counted(s) ==
  streak[s] > 0 =>
    /\ streak[s] <= IMG_FAIL_COUNT_MAX
    /\ verify_slot(image[s]) /\ image[s][0].version <= SettledTop
    /\ \/ SettledMeta[s] # NoMeta /\ streak[s] <= SettledMeta[s].fail_count
       \/ image[s][0].version < SettledTop
       \/ pc = "clear_program" /\ s = commit.slot

Loops ==
  /\ \A s \in Slots : Counted(s)
  /\ pc \in {"boot_erase", "boot_program"} =>
       /\ commit.slot = running /\ verify_slot(image[running])
       /\ commit.md.monotonic_counter = image[running][0].version
       /\ streak[running] < commit.md.fail_count
  /\ pc \in {"clear_erase", "clear_program"} => commit.slot = running /\ commit.md.fail_count = 0
  /\ (pc = "ota" /\ sess.state = "RECEIVING") \/ pc \in {"target_erase", "target_program"} =>
       streak[sess.target_slot] = 0
  /\ pc \in {"prev_erase", "prev_program"} =>
       \A s \in Slots : streak[s] > 0 => image[s][0].version < SettledTop

LEMMA CountedKept ==
  ASSUME TypeInv, FloorKept, NEW s \in Slots, Counted(s), pc # "clear_program",
         SettledTop <= SettledTop', SettledMeta'[s] = SettledMeta[s], SettledTop' \in Nat,
         streak'[s] = 0 \/ (streak'[s] = streak[s] /\ image'[s] = image[s])
  PROVE  Counted(s)'
<1> SUFFICES ASSUME streak'[s] > 0  PROVE Counted(s)'
  BY DEF Counted
<1>1. streak'[s] = streak[s] /\ image'[s] = image[s] /\ streak[s] > 0
  OBVIOUS
<1>2. verify_slot(image[s]) /\ image[s][0].version <= SettledTop
  BY <1>1 DEF Counted
<1>3. image[s][0].version \in Nat
  BY <1>2, Verified, U32Assumption DEF TypeInv, TypeOK, U32
<1>4. SettledTop \in Nat
  BY SettledIs, CounterType, Pick DEF SettledAs, SettledTop, TopCounter, First, MetaMaps
<1> QED  BY <1>1, <1>2, <1>3, <1>4 DEF Counted

\* A frame that opens a session for a slot erases what has been counted.
LEMMA FrameResets ==
  ASSUME NewReleases, TypeInv, Loops, NEW f \in Frames, NEW r, on_frame(f, r), StreakFollowsImage,
         (pc' = "ota" /\ sess'.state = "RECEIVING") \/ pc' = "target_erase"
  PROVE  streak'[sess'.target_slot] = 0
<1>1. /\ pc = "ota" /\ sess \in Sessions /\ image \in [Slots -> Content]
      /\ 0 \in Units /\ Erased \notin Images
      /\ sess.state = "RECEIVING" => sess.target_slot \in Slots
      /\ streak \in [Slots -> 0 .. IMG_FAIL_COUNT_MAX + 1]
  BY UnitsAssumption, SentinelAssumption DEF on_frame, TypeInv, TypeOK, WellFormed, OtaSteps, Units
<1>2. CASE sess.state = "RECEIVING" /\ sess'.target_slot = sess.target_slot
  BY <1>1, <1>2 DEF Loops, StreakFollowsImage
<1>3. CASE /\ BeginAccepted(f) /\ flash_slot_erase(f.slot) /\ sess'.target_slot = f.slot
  <2>1. f.slot \in Slots /\ image'[f.slot][0] = Erased
    BY <1>1, <1>3 DEF flash_slot_erase, NewReleases, HeadersErased, BeginAccepted
  <2>2. CASE streak[f.slot] = 0
    BY <1>3, <2>1, <2>2 DEF StreakFollowsImage
  <2>3. CASE streak[f.slot] # 0
    <3>1. image[f.slot][0] \in Images
      BY <1>1, <2>1, <2>3 DEF Loops, Counted, verify_slot, img_header_parse, IMG_FAIL_COUNT_MAX
    <3> QED  BY <1>1, <1>3, <2>1, <3>1 DEF StreakFollowsImage
  <2> QED  BY <2>2, <2>3
<1>4. /\ Seen(f, sess).state = sess.state
      /\ Seen(f, sess).target_slot = sess.target_slot
  BY <1>1 DEF Seen, Sessions
<1>5. CASE sess' = sess \/ sess' = Seen(f, sess)
  <2>1. sess.state = "RECEIVING"
    BY <1>1, <1>4, <1>5
       DEF on_frame, Duplicate, Refuse, handle_ota_begin, handle_ota_chunk, handle_ota_end, HaltWith,
           otaVars, flashVars
  <2> QED  BY <1>2, <1>4, <1>5, <2>1
<1>6. CASE f.type = "OTA_BEGIN" /\ handle_ota_begin(f, r)
  <2>1. CASE sess' = Seen(f, [sess EXCEPT !.state = "RECEIVING", !.target_slot = f.slot,
                                          !.expected_size = f.size, !.received_bytes = 0])
             /\ BeginAccepted(f) /\ flash_slot_erase(f.slot)
    <3>1. sess'.target_slot = f.slot
      BY <1>1, <2>1 DEF Seen, Sessions
    <3> QED  BY <1>3, <2>1, <3>1
  <2> QED  BY <1>5, <1>6, <2>1 DEF handle_ota_begin, Refuse
<1>7. CASE f.type = "OTA_CHUNK" /\ handle_ota_chunk(f, r)
  <2>1. CASE ChunkAccepted(f) /\ sess' = Seen(f, [sess EXCEPT !.received_bytes = @ + 1])
    <3>1. sess.state = "RECEIVING" /\ sess'.target_slot = sess.target_slot
      BY <1>1, <2>1 DEF ChunkAccepted, Seen, Sessions
    <3> QED  BY <1>2, <3>1
  <2> QED  BY <1>5, <1>7, <2>1 DEF handle_ota_chunk, Refuse
<1>8. CASE f.type = "OTA_END" /\ handle_ota_end(f, r)
  BY <1>5, <1>8 DEF handle_ota_end, HaltWith
<1> QED
  BY <1>5, <1>6, <1>7, <1>8 DEF on_frame, Duplicate, Refuse, otaVars

LEMMA LoopsStep ==
  ASSUME CommitsComplete, NewReleases, TypeInv, TypeInv', Protected, FreshWins, FloorKept, CounterWins,
         Upgrade, Loops, FloorKept', SettledTop <= SettledTop', [Next]_vars
  PROVE  Loops'
<1>a. /\ SettledMeta \in MetaMaps /\ meta \in MetaMaps /\ SettledMeta' \in MetaMaps /\ meta' \in MetaMaps
      /\ SettledTop \in Nat /\ SettledTop' \in Nat
      /\ streak \in [Slots -> 0 .. IMG_FAIL_COUNT_MAX + 1]
      /\ image \in [Slots -> Content]
  <2>1. SettledMeta \in MetaMaps /\ meta \in MetaMaps /\ SettledMeta' \in MetaMaps /\ meta' \in MetaMaps
    BY SettledIs, SettledIsNext DEF SettledAs
  <2>2. SettledTop \in Nat /\ SettledTop' \in Nat
    BY <2>1, CounterType, Pick DEF SettledTop, TopCounter, First, MetaMaps
  <2> QED  BY <2>1, <2>2 DEF TypeInv, TypeOK
<1>b. /\ \A t \in Slots : Counter(SettledMeta[t]) <= SettledTop /\ Counter(SettledMeta'[t]) <= SettledTop'
      /\ \A t \in Slots : Counted(t)
  BY DEF FloorKept, Topped, SettledTop, Loops
<1>c. ASSUME pc # "clear_program", UNCHANGED SettledMeta,
             \A s \in Slots : streak'[s] = 0 \/ (streak'[s] = streak[s] /\ image'[s] = image[s])
      PROVE  \A s \in Slots : Counted(s)'
  BY <1>a, <1>b, <1>c, CountedKept
<1>d. ~FlashFails
  BY DEF CommitsComplete
<1>1. CASE BootSlot
  <2> DEFINE r == BootChoice
  <2>1. /\ pc = "boot" /\ pc' \in {"halt", "boot_erase"} /\ UNCHANGED <<meta, image, streak>>
        /\ pc' = "boot_erase" => /\ r # NoSlot /\ running' = r
                                 /\ commit' = [slot |-> r, md |-> PostBootMeta(r)]
    BY <1>1 DEF BootSlot
  <2>2. UNCHANGED SettledMeta /\ SettledMeta = meta
    BY <2>1, MetaSame, SettledIs DEF SettledAs
  <2>3. ASSUME pc' = "boot_erase"
        PROVE  /\ verify_slot(image[r]) /\ PostBootMeta(r).monotonic_counter = image[r][0].version
               /\ streak[r] < PostBootMeta(r).fail_count
    <3>1. /\ r \in Slots /\ verify_slot(image[r]) /\ image[r][0].version \in U32
          /\ image[r][0].version >= scan_max_monotonic
          /\ PostBootMeta(r).monotonic_counter = image[r][0].version
      BY <2>1, <2>3, Choice, PostBoot
    <3>2. scan_max_monotonic = SettledTop
      BY <1>a, <2>2, FloorIsTop DEF SettledTop, scan_max_monotonic, FloorKept
    <3>3. try_boot_slot(r, scan_max_monotonic)
      BY <2>1, <2>3 DEF BootChoice
    <3>4. meta[r] # NoMeta => meta[r].fail_count \in 0 .. 3 /\ meta[r].fail_count < 3
      BY <1>a, <3>1, <3>3
         DEF MetaMaps, Metadata, IMG_FAIL_COUNT_MAX, try_boot_slot, img_fail_count_tripped,
             img_slot_metadata_parse
    <3>5. PostBootMeta(r).fail_count = IF meta[r] # NoMeta THEN meta[r].fail_count + 1 ELSE 1
      BY <3>4 DEF PostBootMeta, img_fail_count_increment, img_slot_metadata_parse, IMG_FAIL_COUNT_MAX
    <3>6. streak[r] > 0 => meta[r] # NoMeta /\ streak[r] <= meta[r].fail_count
      BY <1>a, <1>b, <2>1, <2>2, <3>1, <3>2, U32Assumption DEF Counted, U32
    <3> HIDE DEF r
    <3>7. streak[r] \in Nat
      BY <1>a, <3>1 DEF IMG_FAIL_COUNT_MAX
    <3> QED  BY <3>1, <3>4, <3>5, <3>6, <3>7
  <2> HIDE DEF r
  <2>4. pc' = "boot_erase" => /\ running' = r /\ commit'.slot = r /\ commit'.md = PostBootMeta(r)
    BY <2>1
  <2> QED  BY <1>c, <2>1, <2>2, <2>3, <2>4 DEF Loops
<1>2. CASE CommitAndJump
  <2>0. /\ pc \in {"boot_erase", "boot_program"} /\ commit \in Commits /\ running \in Slots
        /\ commit.slot = running /\ verify_slot(image[running])
        /\ commit.md.monotonic_counter = image[running][0].version
        /\ streak[running] < commit.md.fail_count /\ commit.md.fail_count \in 0 .. 3
        /\ commit.md # NoMeta /\ UNCHANGED <<image, running>>
    BY <1>2, SentinelAssumption
       DEF CommitAndJump, CommitErase, CommitProgram, Loops, TypeInv, WellFormed, CommitSteps, RunSteps,
           Commits, Metadata, IMG_FAIL_COUNT_MAX
  <2>1. CASE pc = "boot_erase"
    <3>1. /\ pc' = "boot_program" /\ meta' = [meta EXCEPT ![running] = NoMeta]
          /\ UNCHANGED <<commit, streak>>
      BY <1>2, <1>d, <2>0, <2>1 DEF CommitAndJump, CommitErase, CommitProgram
    <3>2. /\ SettledMeta'[running] = commit.md
          /\ \A s \in Slots : s # running => SettledMeta'[s] = SettledMeta[s]
      BY <1>a, <2>0, <2>1, <3>1, SettledIs DEF SettledMeta, MetaMaps, SettledAs
    <3>3. Counter(commit.md) <= SettledTop'
      BY <1>b, <2>0, <3>2
    <3>4. ASSUME NEW s \in Slots  PROVE Counted(s)'
      <4>1. CASE s # running
        BY <1>a, <1>b, <2>1, <3>1, <3>2, <2>0, <4>1, CountedKept
      <4>2. CASE s = running
        BY <1>a, <2>0, <3>1, <3>2, <3>3, <4>2 DEF Counted, Counter, IMG_FAIL_COUNT_MAX
      <4> QED  BY <4>1, <4>2
    <3> QED  BY <2>0, <3>1, <3>4 DEF Loops
  <2>2. CASE pc = "boot_program"
    <3>1. /\ pc' = "app" /\ meta' = [meta EXCEPT ![running] = commit.md]
          /\ streak' = IF streak[running] <= IMG_FAIL_COUNT_MAX
                       THEN [streak EXCEPT ![running] = @ + 1] ELSE streak
      BY <1>2, <1>d, <2>0, <2>2 DEF CommitAndJump, CommitErase, CommitProgram
    <3>2. UNCHANGED SettledMeta /\ SettledMeta'[running] = commit.md
      BY <1>a, <2>0, <2>2, <3>1, SettledIs, SettledIsNext DEF SettledAs, MetaMaps
    <3>3. Counter(commit.md) <= SettledTop'
      BY <1>b, <2>0, <3>2
    <3>4. streak'[running] <= commit.md.fail_count
          /\ \A s \in Slots : s # running => streak'[s] = streak[s]
      BY <1>a, <2>0, <3>1 DEF IMG_FAIL_COUNT_MAX
    <3>5. ASSUME NEW s \in Slots  PROVE Counted(s)'
      <4>1. CASE s # running
        BY <1>a, <1>b, <2>2, <3>2, <3>4, <2>0, <4>1, CountedKept
      <4>2. CASE s = running
        <5>1. streak'[running] <= 3
          BY <1>a, <2>0, <3>1 DEF IMG_FAIL_COUNT_MAX
        <5> QED  BY <2>0, <3>2, <3>3, <3>4, <4>2, <5>1 DEF Counted, Counter, IMG_FAIL_COUNT_MAX
      <4> QED  BY <4>1, <4>2
    <3> QED  BY <3>1, <3>5 DEF Loops
  <2> QED  BY <2>0, <2>1, <2>2
<1>3. CASE AppHandshake
  <2>1. /\ pc = "app" /\ pc' \in {"clear_erase", "app_up"} /\ UNCHANGED <<meta, image, streak, running>>
        /\ pc' = "clear_erase" => meta[running] # NoMeta /\ commit'.slot = running
                                  /\ commit'.md = ClearedMeta(meta[running])
    BY <1>3 DEF AppHandshake, img_slot_metadata_parse
  <2>2. running \in Slots
    BY <2>1 DEF TypeInv, WellFormed, RunSteps, AppSteps
  <2>3. meta[running] # NoMeta => ClearedMeta(meta[running]).fail_count = 0
    BY <1>a, <2>2 DEF MetaMaps, Metadata, ClearedMeta
  <2>4. UNCHANGED SettledMeta
    BY <2>1, MetaSame
  <2> QED  BY <1>c, <2>1, <2>3, <2>4 DEF Loops
<1>4. CASE CommitClear
  <2>0. /\ pc \in {"clear_erase", "clear_program"} /\ commit \in Commits /\ running \in Slots
        /\ commit.slot = running /\ commit.md.fail_count = 0 /\ commit.md # NoMeta
        /\ UNCHANGED <<image, running>>
    BY <1>4, SentinelAssumption
       DEF CommitClear, CommitErase, CommitProgram, Loops, TypeInv, WellFormed, CommitSteps, RunSteps,
           AppSteps, Commits
  <2>1. CASE pc = "clear_erase"
    <3>1. /\ pc' = "clear_program" /\ meta' = [meta EXCEPT ![running] = NoMeta]
          /\ UNCHANGED <<commit, streak>>
      <4>1. /\ pc' = "clear_program" /\ meta' = [meta EXCEPT ![running] = NoMeta] /\ UNCHANGED commit
        BY <1>4, <1>d, <2>0, <2>1 DEF CommitClear, CommitErase, CommitProgram
      <4>2. meta'[running] = NoMeta
        BY <1>a, <2>0, <4>1 DEF MetaMaps
      <4> QED  BY <1>4, <4>1, <4>2 DEF CommitClear, img_slot_metadata_parse
    <3>2. \A s \in Slots : s # running => SettledMeta'[s] = SettledMeta[s]
      BY <1>a, <2>0, <2>1, <3>1, SettledIs DEF SettledMeta, MetaMaps, SettledAs
    <3>3. ASSUME NEW s \in Slots  PROVE Counted(s)'
      <4>1. CASE s # running
        BY <1>a, <1>b, <2>1, <3>1, <3>2, <2>0, <4>1, CountedKept
      <4>2. CASE s = running
        <5>1. Counted(s)
          BY <1>b
        <5>2. verify_slot(image[s]) => image[s][0].version \in Nat
          BY <1>a, Verified, U32Assumption DEF U32
        <5> QED  BY <1>a, <2>0, <3>1, <4>2, <5>1, <5>2 DEF Counted
      <4> QED  BY <4>1, <4>2
    <3> QED  BY <2>0, <3>1, <3>3 DEF Loops
  <2>2. CASE pc = "clear_program"
    <3>1. /\ pc' = "app_up" /\ meta' = [meta EXCEPT ![running] = commit.md]
      BY <1>4, <1>d, <2>0, <2>2 DEF CommitClear, CommitErase, CommitProgram
    <3>2. UNCHANGED SettledMeta
      BY <1>a, <2>0, <2>2, <3>1, SettledIs, SettledIsNext DEF SettledAs
    <3>3. streak' = [streak EXCEPT ![running] = 0]
      <4>1. meta'[running] = commit.md
        BY <1>a, <2>0, <3>1 DEF MetaMaps
      <4> QED  BY <1>4, <2>0, <4>1 DEF CommitClear, img_slot_metadata_parse
    <3>4. ASSUME NEW s \in Slots  PROVE Counted(s)'
      <4>1. CASE s # running
        <5>1. Counted(s) /\ s # commit.slot /\ SettledTop' = SettledTop
          BY <1>b, <2>0, <3>2, <4>1 DEF SettledTop
        <5> QED  BY <1>a, <2>0, <3>2, <3>3, <4>1, <5>1 DEF Counted
      <4>2. CASE s = running
        BY <1>a, <2>0, <3>3, <4>2 DEF Counted
      <4> QED  BY <4>1, <4>2
    <3> QED  BY <3>1, <3>4 DEF Loops
  <2> QED  BY <2>0, <2>1, <2>2
<1>5. CASE Restart \/ AppRequestOta \/ OperatorForcesOta \/ OtaDone \/ PowerCut
  <2>1. /\ pc' = "boot" /\ meta' = meta /\ pc \notin {"boot_program", "clear_program"}
        /\ \A s \in Slots : streak'[s] = 0 \/ (streak'[s] = streak[s] /\ image'[s] = image[s])
    BY <1>5 DEF Restart, AppRequestOta, OperatorForcesOta, OtaDone, OtaReset, PowerCut, CommitsComplete,
                StreakFollowsImage
  <2>2. UNCHANGED SettledMeta
    BY <2>1, MetaSame
  <2> QED  BY <1>c, <2>1, <2>2 DEF Loops
<1>6. CASE UNCHANGED vars
  <2>1. UNCHANGED <<pc, meta, image, commit, sess, running, streak>>
    BY <1>6 DEF vars
  <2>2. UNCHANGED SettledMeta
    BY <2>1 DEF SettledMeta
  <2>3. \A s \in Slots : Counted(s)'
    BY <1>b, <2>1, <2>2 DEF Counted, SettledTop
  <2>4. /\ UNCHANGED <<commit.slot, running, verify_slot(image[running]), commit.md.monotonic_counter,
                      image[running][0].version, streak[running], commit.md.fail_count, sess.state,
                      streak[sess.target_slot]>>
        /\ \A s \in Slots : streak'[s] = streak[s] /\ image'[s][0].version = image[s][0].version
    BY <2>1
  <2>5. pc' = pc /\ SettledTop' = SettledTop
    BY <2>1, <2>2 DEF SettledTop
  <2> QED  BY <2>3, <2>4, <2>5 DEF Loops
<1>7. CASE EnterOta
  <2>1. /\ pc = "boot" /\ pc' = "ota" /\ UNCHANGED <<meta, image, streak>> /\ sess'.state = "AWAIT_BEGIN"
    BY <1>7 DEF EnterOta, NewSession
  <2>2. UNCHANGED SettledMeta
    BY <2>1, MetaSame
  <2> QED  BY <1>c, <2>1, <2>2 DEF Loops
<1>8. CASE OtaFrame
  <2>1. PICK f \in HostSends, r \in Replies \cup {None} : on_frame(f, r)
    BY <1>8 DEF OtaFrame
  <2>2. f \in Frames /\ StreakFollowsImage
    BY <1>8, HostAssumption DEF OtaFrame
  <2>3. pc = "ota" /\ pc' \in {"ota", "halt", "target_erase"} /\ meta' = meta
    BY <2>1, <2>2, FrameTypes, Typed
  <2>4. UNCHANGED SettledMeta
    BY <2>3, MetaSame
  <2>5. \A s \in Slots : streak'[s] = 0 \/ (streak'[s] = streak[s] /\ image'[s] = image[s])
    BY <2>2 DEF StreakFollowsImage
  <2>6. (pc' = "ota" /\ sess'.state = "RECEIVING") \/ pc' = "target_erase" =>
          streak'[sess'.target_slot] = 0
    BY <2>1, <2>2, FrameResets
  <2> QED  BY <1>c, <2>3, <2>4, <2>5, <2>6 DEF Loops
<1>9. CASE OtaSwapTarget
  <2>0. PICK r : SwapTarget(r)
    BY <1>9 DEF OtaSwapTarget
  <2> DEFINE t == sess.target_slot
             p == sess.prev_active
  <2>1. /\ pc \in {"target_erase", "target_program"} /\ p \in Slots /\ t = Other(p) /\ t \in Slots
        /\ p = Other(t) /\ p # t /\ commit.slot = t /\ commit \in Commits /\ image' = image
        /\ streak[t] = 0 /\ sess \in Sessions /\ commit.md # NoMeta
        /\ commit.md.monotonic_counter > sess.max_seen_counter
        /\ \A x \in Slots : Counter(meta[x]) <= sess.max_seen_counter
    <3>1. pc \in {"target_erase", "target_program"}
      BY <2>0 DEF SwapTarget, CommitErase, CommitProgram
    <3> QED  BY <1>9, <3>1, SwapSteps, TwoSlots, SentinelAssumption
             DEF Loops, FreshWins, Protected, FloorKept, Receiving, TypeInv, WellFormed, CommitSteps, Commits
  <2> HIDE DEF t, p
  <2>2. CASE pc = "target_erase"
    <3>1. /\ pc' = "target_program" /\ meta' = [meta EXCEPT ![t] = NoMeta]
          /\ UNCHANGED <<commit, sess, streak>>
      BY <1>9, <1>d, <2>0, <2>1, <2>2 DEF SwapTarget, CommitErase, CommitProgram, OtaSwapTarget
    <3>2. SettledMeta'[p] = SettledMeta[p]
      BY <1>a, <2>1, <2>2, <3>1, SettledIs, SettledIsNext DEF SettledAs, MetaMaps
    <3>3. ASSUME NEW s \in Slots  PROVE Counted(s)'
      <4>1. CASE s = t
        <5>1. streak'[s] = 0
          BY <2>1, <3>1, <4>1
        <5> QED  BY <5>1 DEF Counted
      <4>2. CASE s = p
        BY <1>a, <1>b, <2>1, <2>2, <3>1, <3>2, <4>2, CountedKept
      <4> QED  BY <2>1, <4>1, <4>2, TwoSlots
    <3> QED  BY <2>1, <3>1, <3>3 DEF Loops, t
  <2>3. CASE pc = "target_program"
    <3>1. /\ pc' = "prev_erase" /\ meta' = [meta EXCEPT ![t] = commit.md]
          /\ streak' = [streak EXCEPT ![t] = 0]
      BY <1>9, <1>d, <2>0, <2>1, <2>3 DEF SwapTarget, CommitErase, CommitProgram, OtaSwapTarget, t
    <3>2. SettledMeta' = meta' /\ SettledMeta = meta /\ meta'[p] = meta[p] /\ meta'[t] = commit.md
      BY <1>a, <2>1, <2>3, <3>1, SettledIs, SettledIsNext DEF SettledAs, MetaMaps
    <3>3. SettledTop < SettledTop'
      <4>1. SettledTop <= sess.max_seen_counter
        BY <2>1, <3>2, Pick DEF SettledTop, TopCounter, First
      <4>2. commit.md.monotonic_counter <= SettledTop'
        BY <1>b, <2>1, <3>2 DEF Counter
      <4>3. sess.max_seen_counter \in Nat /\ commit.md.monotonic_counter \in Nat
        BY <2>1, U32Assumption DEF Sessions, Commits, Metadata, U32
      <4> QED  BY <1>a, <2>1, <4>1, <4>2, <4>3
    <3>4. streak'[t] = 0 /\ streak'[p] = streak[p]
      BY <1>a, <2>1, <3>1
    <3>5. ASSUME NEW s \in Slots  PROVE Counted(s)' /\ (streak'[s] > 0 => image'[s][0].version < SettledTop')
      <4>1. CASE s = t
        BY <3>4, <4>1 DEF Counted
      <4>2. CASE s = p
        <5>1. Counted(s)'
          BY <1>a, <1>b, <2>1, <2>3, <3>2, <3>4, <4>2, CountedKept
        <5>2. streak[p] > 0 => verify_slot(image[p]) /\ image[p][0].version <= SettledTop
          BY <1>b, <2>1 DEF Counted
        <5>3. verify_slot(image[p]) => image[p][0].version \in Nat
          BY <1>a, <2>1, Verified, U32Assumption DEF U32
        <5> QED  BY <1>a, <2>1, <3>3, <3>4, <4>2, <5>1, <5>2, <5>3
      <4> QED  BY <2>1, <4>1, <4>2, TwoSlots
    <3> QED  BY <3>1, <3>5 DEF Loops
  <2> QED  BY <2>1, <2>2, <2>3
<1>10. CASE OtaSwapPrevious
  <2>0. PICK r : SwapPrevious(r)
    BY <1>10 DEF OtaSwapPrevious
  <2>1. /\ pc \in {"prev_erase", "prev_program"} /\ pc' \in {"prev_program", "done"}
        /\ UNCHANGED <<image, streak>>
        /\ \A s \in Slots : streak[s] > 0 => image[s][0].version < SettledTop
    BY <1>10, <1>d, <2>0 DEF OtaSwapPrevious, SwapPrevious, CommitErase, CommitProgram, Loops
  <2>2. ASSUME NEW s \in Slots, streak[s] > 0
        PROVE  Counted(s)' /\ image[s][0].version < SettledTop'
    <3>1. Counted(s) /\ image[s][0].version < SettledTop
      BY <1>b, <2>1, <2>2
    <3>2. image[s][0].version \in Nat
      BY <1>a, <2>2, <3>1, Verified, U32Assumption DEF U32, Counted
    <3> QED  BY <1>a, <2>1, <2>2, <3>1, <3>2 DEF Counted
  <2>3. ASSUME NEW s \in Slots  PROVE Counted(s)'
    BY <2>1, <2>2, <2>3 DEF Counted
  <2> QED  BY <2>1, <2>2, <2>3 DEF Loops
<1> QED
  BY <1>1, <1>2, <1>3, <1>4, <1>5, <1>6, <1>7, <1>8, <1>9, <1>10 DEF Next

ReleaseInv == TypeInv /\ Protected /\ FreshWins /\ FloorKept /\ Upgrade /\ Loops

LEMMA ReleaseInit == Init => ReleaseInv
<1> SUFFICES ASSUME Init  PROVE ReleaseInv
  OBVIOUS
<1>1. pc = "boot" /\ fresh = NoSlot /\ \A s \in Slots : streak[s] = 0
  BY DEF Init
<1>2. \A s \in Slots : Counted(s)
  BY <1>1 DEF Counted
<1> QED
  BY <1>1, <1>2, TypeInit, ProtectedInit, FloorKeptInit
     DEF ReleaseInv, FreshWins, Receiving, Upgrade, Loops

LEMMA ReleaseStep ==
  ASSUME CommitsComplete, NewReleases, ReleaseInv, [Next]_vars
  PROVE  ReleaseInv' /\ SettledTop <= SettledTop'
<1>1. TypeInv' /\ Protected'
  BY TypeStep, ProtectedStep DEF ReleaseInv
<1>2. Upgrade' /\ CounterWins
  BY UpgradeStep DEF ReleaseInv
<1>3. FloorKept' /\ SettledTop <= SettledTop'
  BY <1>1, FloorKeptStep DEF ReleaseInv
<1>4. FreshWins'
  BY <1>2, FreshStep DEF ReleaseInv
<1> QED  BY <1>1, <1>2, <1>3, <1>4, LoopsStep DEF ReleaseInv

\* An image that never reaches its handshake is jumped to at most
\* IMG_FAIL_COUNT_MAX times (img_header.h:169-173), whatever sessions, cuts and
\* fallbacks lie in between.
THEOREM CrashLoopsStayBounded ==
  CommitsComplete /\ NewReleases => (Spec => []CrashLoopBounded)
<1> SUFFICES ASSUME CommitsComplete, NewReleases  PROVE Spec => []CrashLoopBounded
  OBVIOUS
<1>1. Init => ReleaseInv
  BY ReleaseInit
<1>2. ReleaseInv /\ [Next]_vars => ReleaseInv'
  BY ReleaseStep
<1>3. ReleaseInv => CrashLoopBounded
  <2> SUFFICES ASSUME ReleaseInv, NEW s \in Slots  PROVE streak[s] <= IMG_FAIL_COUNT_MAX
    BY DEF CrashLoopBounded
  <2>1. streak[s] \in Nat /\ Counted(s)
    BY DEF ReleaseInv, TypeInv, TypeOK, Loops, IMG_FAIL_COUNT_MAX
  <2> QED  BY <2>1 DEF Counted, IMG_FAIL_COUNT_MAX
<1> QED
  BY <1>1, <1>2, <1>3, PTL DEF Spec

-----------------------------------------------------------------------------
(* The one firmware.                                                       *)

\* The chip is delivered with a good image in the slot tried first (make flash
\* writes slot A).
Shipped == verify_slot(image["A"])

SettledFirst == First(SettledMeta)
FirstVersion == image[SettledFirst][0].version

\* The slot picked first always holds the installed image.  From the first boot
\* on, its version is the highest counter, and an application runs that version.
OneInstalled ==
  /\ verify_slot(image[SettledFirst])
  /\ IF SettledMeta[SettledFirst] = NoMeta
     THEN /\ pc \in {"boot", "boot_erase"} /\ ~dr0
          /\ pc = "boot_erase" => running = SettledFirst
     ELSE FirstVersion = SettledTop
  /\ pc = "boot_program" \/ pc \in AppSteps =>
       verify_slot(image[running]) /\ image[running][0].version = SettledTop

LEMMA FirstIsInstalled ==
  ASSUME TypeInv, Protected, FloorKept, OneInstalled
  PROVE  /\ SettledFirst \in Slots /\ SettledTop \in Nat
         /\ FirstVersion \in U32 /\ FirstVersion \in Nat /\ FirstVersion >= SettledTop
         /\ InstalledVersion = FirstVersion
<1>1. SettledMeta \in MetaMaps /\ SettledFirst \in Slots /\ image \in [Slots -> Content]
  BY SettledIs, Pick DEF SettledAs, SettledFirst, First, TypeInv, TypeOK
<1>2. FirstVersion \in U32 /\ FirstVersion \in Nat /\ SettledTop \in Nat
  BY <1>1, Verified, CounterType, U32Assumption
     DEF OneInstalled, FirstVersion, SettledTop, TopCounter, SettledFirst, MetaMaps, U32
<1>3. FirstVersion >= SettledTop
  BY <1>2 DEF OneInstalled, SettledTop, TopCounter, SettledFirst, Counter
<1>4. BootableVersion(SettledFirst) = FirstVersion
  <2>1. img_compute_floor(SettledMeta["A"], SettledMeta["B"]) = SettledTop
    BY <1>1, FloorIsTop DEF FloorKept, SettledTop
  <2> QED  BY <1>3, <2>1 DEF BootableVersion, OneInstalled, img_header_meets_floor, FirstVersion
<1>5. pc \in {"ota", "target_erase", "target_program"} => sess.prev_active = SettledFirst
  BY SettledIs DEF SettledAs, Protected, Receiving, scan_active_slot, SettledFirst, First
<1>6. FirstVersion # NoSlot
  BY <1>2, NoneAssumption
<1> QED
  BY <1>1, <1>2, <1>3, <1>4, <1>5, <1>6 DEF InstalledVersion, SettledFirst, First

\* A step that leaves the settled metadata and the first slot's image alone.
LEMMA FirstStays ==
  ASSUME UNCHANGED SettledMeta, image'[SettledFirst] = image[SettledFirst]
  PROVE  /\ SettledFirst' = SettledFirst /\ SettledTop' = SettledTop /\ FirstVersion' = FirstVersion
         /\ SettledMeta'[SettledFirst'] = SettledMeta[SettledFirst]
         /\ verify_slot(image[SettledFirst])' = verify_slot(image[SettledFirst])
<1>1. SettledFirst' = SettledFirst /\ SettledTop' = SettledTop
  BY DEF SettledFirst, SettledTop
<1> QED  BY <1>1 DEF FirstVersion

\* The commit of the slot booted.
LEMMA BootedIsFirst ==
  ASSUME NEW m1 \in MetaMaps, NEW m2 \in MetaMaps, NEW w \in Slots, Topped(m1),
         m2[Other(w)] = m1[Other(w)], m2[w] # NoMeta, m2[w].active = 1,
         TopCounter(m1) <= Counter(m2[w])
  PROVE  \/ First(m2) = w
         \/ First(m2) = First(m1) /\ First(m1) = Other(w) /\ m1[First(m1)] # NoMeta
            /\ TopCounter(m1) = Counter(m2[w])
<1>1. /\ Counter(m1["A"]) \in Nat /\ Counter(m1["B"]) \in Nat /\ Counter(m2[w]) \in Nat
      /\ \A t \in Slots : m1[t] # NoMeta => m1[t].active \in {0, 1} /\ Counter(m1[t]) = m1[t].monotonic_counter
      /\ Counter(m2[w]) = m2[w].monotonic_counter
      /\ Other("A") = "B" /\ Other("B") = "A"
  BY CounterType DEF MetaMaps, Slots, Metadata, Counter, Other
<1>2. First(m1) \in Slots /\ Counter(m1["A"]) <= TopCounter(m1) /\ Counter(m1["B"]) <= TopCounter(m1)
      /\ TopCounter(m1) = Counter(m1[First(m1)])
  BY Pick DEF First, Topped, TopCounter, Slots
<1>3. CASE w = "A"
  BY <1>1, <1>2, <1>3 DEF First, img_pick_active_slot, img_slot_metadata_parse, Slots
<1>4. CASE w = "B"
  BY <1>1, <1>2, <1>4 DEF First, img_pick_active_slot, img_slot_metadata_parse, Slots
<1> QED  BY <1>3, <1>4 DEF Slots

LEMMA OneInstalledInit == Init /\ Shipped => OneInstalled
<1> SUFFICES ASSUME Init, Shipped  PROVE OneInstalled
  OBVIOUS
<1>1. pc = "boot" /\ ~dr0 /\ SettledMeta = [s \in Slots |-> NoMeta]
  BY DEF Init, SettledMeta
<1>2. SettledFirst = "A" /\ SettledMeta["A"] = NoMeta
  BY <1>1 DEF SettledFirst, First, img_pick_active_slot, img_slot_metadata_parse, Slots
<1> QED  BY <1>1, <1>2 DEF OneInstalled, Shipped, AppSteps

\* The installed version changes while nothing runs, to a newer one.
LEMMA OneInstalledStep ==
  ASSUME CommitsComplete, ReleaseInv, ReleaseInv', SettledTop <= SettledTop', OneInstalled, [Next]_vars
  PROVE  /\ OneInstalled'
         /\ FirstVersion' # FirstVersion =>
              pc \notin AppSteps /\ pc' \notin AppSteps /\ FirstVersion' > FirstVersion
<1> USE DEF ReleaseInv
<1>a. /\ SettledMeta \in MetaMaps /\ meta \in MetaMaps /\ SettledMeta' \in MetaMaps /\ meta' \in MetaMaps
      /\ SettledTop \in Nat /\ SettledTop' \in Nat /\ SettledFirst \in Slots
      /\ FirstVersion \in Nat /\ FirstVersion >= SettledTop /\ image \in [Slots -> Content]
  <2>1. SettledMeta \in MetaMaps /\ meta \in MetaMaps /\ SettledMeta' \in MetaMaps /\ meta' \in MetaMaps
    BY SettledIs, SettledIsNext DEF SettledAs
  <2>2. SettledTop' \in Nat
    BY <2>1, CounterType, Pick DEF SettledTop, TopCounter, First, MetaMaps
  <2> QED  BY <2>1, <2>2, FirstIsInstalled DEF TypeInv, TypeOK
<1>b. /\ verify_slot(image[SettledFirst])
      /\ pc \notin {"boot", "boot_erase"} \/ dr0 =>
           SettledMeta[SettledFirst] # NoMeta /\ FirstVersion = SettledTop
      /\ pc = "boot_program" \/ pc \in AppSteps =>
           verify_slot(image[running]) /\ image[running][0].version = SettledTop
  BY DEF OneInstalled
<1>c. ASSUME UNCHANGED SettledMeta, image'[SettledFirst] = image[SettledFirst],
             SettledMeta[SettledFirst] = NoMeta =>
               pc' \in {"boot", "boot_erase"} /\ ~dr0' /\ (pc' = "boot_erase" => running' = SettledFirst),
             pc' = "boot_program" \/ pc' \in AppSteps =>
               (pc = "boot_program" \/ pc \in AppSteps) /\ running' = running /\ image' = image
      PROVE  OneInstalled' /\ FirstVersion' = FirstVersion
  BY <1>c, FirstStays DEF OneInstalled
<1>d. ~FlashFails
  BY DEF CommitsComplete
<1>1. CASE EnterOta \/ Restart \/ AppRequestOta \/ OperatorForcesOta \/ OtaDone
  <2>1. /\ pc' \in {"boot", "ota"} /\ UNCHANGED <<meta, image>> /\ pc \notin {"boot_program", "clear_program"}
        /\ pc \notin {"boot", "boot_erase"} \/ dr0
    BY <1>1 DEF EnterOta, Restart, AppRequestOta, OperatorForcesOta, OtaDone, OtaReset
  <2>2. UNCHANGED SettledMeta
    BY <2>1, MetaSame
  <2> QED  BY <1>b, <1>c, <2>1, <2>2 DEF AppSteps
<1>2. CASE BootSlot
  <2>1. /\ pc = "boot" /\ pc' \in {"halt", "boot_erase"} /\ UNCHANGED <<meta, image, dr0>> /\ ~dr0
        /\ pc' = "halt" => BootChoice = NoSlot
        /\ pc' = "boot_erase" => running' = BootChoice
    BY <1>2 DEF BootSlot
  <2>2. UNCHANGED SettledMeta /\ SettledMeta = meta
    BY <2>1, MetaSame, SettledIs DEF SettledAs
  <2>3. SettledMeta[SettledFirst] = NoMeta => BootChoice = SettledFirst
    <3>1. scan_active_slot = SettledFirst /\ scan_max_monotonic = SettledTop
      BY <1>a, <2>2, FloorIsTop
         DEF scan_active_slot, scan_max_monotonic, SettledFirst, First, SettledTop, FloorKept
    <3> QED
      BY <1>a, <1>b, <2>2, <3>1
         DEF BootChoice, try_boot_slot, img_slot_metadata_parse, img_header_meets_floor, FirstVersion
  <2>4. SettledFirst # NoSlot
    BY <1>a, NoneAssumption
  <2>6. ~dr0'
    BY <2>1, Zenon
  <2>7. SettledMeta[SettledFirst] = NoMeta => pc' = "boot_erase" /\ running' = SettledFirst
    BY <2>1, <2>3, <2>4
  <2> QED  BY <1>c, <2>1, <2>2, <2>6, <2>7 DEF AppSteps
<1>3. CASE CommitAndJump
  <2>0. /\ pc \in {"boot_erase", "boot_program"} /\ commit \in Commits /\ running \in Slots
        /\ commit.slot = running /\ verify_slot(image[running])
        /\ commit.md.monotonic_counter = image[running][0].version
        /\ commit.md # NoMeta /\ UNCHANGED <<image, running, dr0>>
    BY <1>3, SentinelAssumption
       DEF CommitAndJump, CommitErase, CommitProgram, Loops, TypeInv, WellFormed, CommitSteps, RunSteps, Commits
  <2>1. CASE pc = "boot_erase"
    <3> DEFINE r == running
               o == Other(running)
    <3>1. /\ pc' = "boot_program" /\ meta' = [meta EXCEPT ![r] = NoMeta] /\ UNCHANGED commit
      BY <1>3, <1>d, <2>0, <2>1 DEF CommitAndJump, CommitErase, CommitProgram
    <3>2. /\ SettledMeta = meta /\ SettledMeta'[r] = commit.md /\ SettledMeta'[o] = SettledMeta[o]
          /\ r \in Slots
      BY <1>a, <2>0, <2>1, <3>1, SettledIs, TwoSlots DEF SettledMeta, MetaMaps, SettledAs
    <3>3. /\ commit.md.active = 1 /\ \A t \in Slots : Counter(meta[t]) <= commit.md.monotonic_counter
          /\ Counter(commit.md) = commit.md.monotonic_counter
      BY <2>0, <2>1 DEF FloorKept, Counter
    <3>4. Topped(SettledMeta) /\ SettledTop <= Counter(commit.md)
      BY <1>a, <3>2, <3>3 DEF FloorKept, SettledTop, TopCounter, SettledFirst
    <3>5. SettledTop' = Counter(commit.md) /\ image[r][0].version = SettledTop'
      <4>1. Counter(SettledMeta'[o]) <= Counter(commit.md)
        BY <2>0, <3>2, <3>3, TwoSlots
      <4>2. TopCounter(SettledMeta') = Counter(commit.md)
        BY <1>a, <2>0, <3>2, <3>3, <4>1, WinnerTops
      <4> QED  BY <2>0, <3>3, <4>2 DEF SettledTop
    <3>6. \/ SettledFirst' = r
          \/ SettledFirst' = SettledFirst /\ SettledFirst = o /\ SettledMeta[o] # NoMeta
             /\ SettledTop = SettledTop'
      BY <1>a, <2>0, <3>2, <3>3, <3>4, <3>5, BootedIsFirst DEF SettledFirst, SettledTop
    <3>7. verify_slot(image[SettledFirst])' /\ FirstVersion' = SettledTop'
          /\ SettledMeta'[SettledFirst'] # NoMeta
      <4>1. CASE SettledFirst' = r
        BY <2>0, <3>2, <3>5, <4>1 DEF FirstVersion
      <4>2. CASE SettledFirst' = SettledFirst /\ SettledFirst = o /\ SettledMeta[o] # NoMeta
                 /\ SettledTop = SettledTop'
        BY <1>b, <2>0, <3>2, <4>2 DEF FirstVersion, OneInstalled
      <4> QED  BY <3>6, <4>1, <4>2
    <3>8. OneInstalled'
      BY <2>0, <3>1, <3>5, <3>7 DEF OneInstalled
    <3>9. FirstVersion' # FirstVersion => FirstVersion' > FirstVersion
      <4>1. CASE SettledMeta[SettledFirst] # NoMeta
        BY <1>a, <3>7, <4>1 DEF OneInstalled
      <4>2. CASE SettledMeta[SettledFirst] = NoMeta
        BY <2>1, <3>5, <3>7, <4>2 DEF OneInstalled, FirstVersion
      <4> QED  BY <4>1, <4>2
    <3> QED  BY <2>1, <3>1, <3>8, <3>9 DEF AppSteps
  <2>2. CASE pc = "boot_program"
    <3>1. /\ pc' = "app" /\ meta' = [meta EXCEPT ![commit.slot] = commit.md]
      BY <1>3, <1>d, <2>2 DEF CommitAndJump, CommitErase, CommitProgram
    <3>2. UNCHANGED SettledMeta
      BY <2>2, <3>1, SettledIs, SettledIsNext DEF SettledAs
    <3> QED  BY <1>b, <1>c, <2>0, <2>2, <3>2
  <2> QED  BY <2>0, <2>1, <2>2
<1>4. CASE AppHandshake
  <2>1. /\ pc = "app" /\ pc' \in {"clear_erase", "app_up"} /\ UNCHANGED <<meta, image, running>>
    BY <1>4 DEF AppHandshake
  <2>2. UNCHANGED SettledMeta
    BY <2>1, MetaSame
  <2> QED  BY <1>b, <1>c, <2>1, <2>2 DEF AppSteps
<1>5. CASE CommitClear
  <2>0. /\ pc \in {"clear_erase", "clear_program"} /\ UNCHANGED <<image, running>> /\ commit \in Commits
        /\ pc \in AppSteps
    BY <1>5 DEF CommitClear, CommitErase, CommitProgram, TypeInv, WellFormed, CommitSteps, AppSteps
  <2>1. CASE pc = "clear_erase"
    <3> DEFINE s == commit.slot
    <3>1. /\ pc' = "clear_program" /\ meta' = [meta EXCEPT ![s] = NoMeta] /\ UNCHANGED commit
      BY <1>5, <1>d, <2>1 DEF CommitClear, CommitErase, CommitProgram
    <3>2. /\ SettledMeta = meta /\ SettledMeta'[s] = commit.md /\ SettledMeta'[Other(s)] = SettledMeta[Other(s)]
          /\ s \in Slots /\ commit.md # NoMeta /\ Other(s) \in Slots
      BY <1>a, <2>0, <2>1, <3>1, SettledIs, TwoSlots, SentinelAssumption
         DEF SettledMeta, MetaMaps, SettledAs, Commits
    <3>3. /\ meta[s] # NoMeta /\ commit.md.active = meta[s].active
          /\ commit.md.monotonic_counter = meta[s].monotonic_counter
      BY <1>a, <2>1, <3>2 DEF FloorKept, ClearedMeta, MetaMaps, Metadata
    <3> HIDE DEF s
    <3>4. SettledTop' = SettledTop
      BY <1>a, <3>2, <3>3, SameCounters DEF SettledTop, FloorKept
    <3>5. SettledFirst' = SettledFirst
      BY <3>2, <3>3 DEF SettledFirst, First, img_pick_active_slot, img_slot_metadata_parse, Slots, Other
    <3>6. SettledMeta'[SettledFirst] # NoMeta
      BY <1>a, <1>b, <2>1, <3>2, TwoSlots
    <3>7. pc' \in AppSteps
      BY <3>1 DEF AppSteps
    <3>8. FirstVersion' = FirstVersion
      BY <2>0, <3>5 DEF FirstVersion
    <3> QED  BY <1>b, <2>0, <2>1, <3>1, <3>4, <3>5, <3>6, <3>7, <3>8 DEF OneInstalled
  <2>2. CASE pc = "clear_program"
    <3>1. /\ pc' = "app_up" /\ meta' = [meta EXCEPT ![commit.slot] = commit.md]
      BY <1>5, <1>d, <2>2 DEF CommitClear, CommitErase, CommitProgram
    <3>2. UNCHANGED SettledMeta
      BY <2>2, <3>1, SettledIs, SettledIsNext DEF SettledAs
    <3> QED  BY <1>b, <1>c, <2>0, <2>2, <3>2
  <2> QED  BY <2>0, <2>1, <2>2
<1>6. CASE OtaFrame
  <2>1. PICK f \in HostSends, r \in Replies \cup {None} : on_frame(f, r)
    BY <1>6 DEF OtaFrame
  <2>2. f \in Frames
    BY HostAssumption
  <2>3. /\ pc = "ota" /\ pc' \in {"ota", "halt", "target_erase"} /\ meta' = meta
        /\ image'[sess.prev_active] = image[sess.prev_active]
    BY <2>1, <2>2, FrameTypes, FrameProtects, Typed
  <2>4. UNCHANGED SettledMeta /\ SettledMeta = meta
    BY <2>3, MetaSame, SettledIs DEF SettledAs
  <2>5. sess.prev_active = SettledFirst
    BY <2>3, <2>4 DEF Protected, Receiving, scan_active_slot, SettledFirst, First
  <2> QED  BY <1>b, <1>c, <2>3, <2>4, <2>5 DEF AppSteps
<1>7. CASE PowerCut
  <2>1. /\ pc' = "boot" /\ meta' = meta /\ pc \notin {"boot_program", "clear_program"}
        /\ pc # "ota" => image' = image
        /\ dr0' \in {dr0, FALSE}
    BY <1>7 DEF PowerCut, CommitsComplete
  <2>2. UNCHANGED SettledMeta /\ SettledMeta = meta
    BY <2>1, MetaSame, SettledIs DEF SettledAs
  <2>3. pc = "ota" => sess.prev_active = SettledFirst
    BY <2>2 DEF Protected, Receiving, scan_active_slot, SettledFirst, First
  <2>4. image'[SettledFirst] = image[SettledFirst]
    BY <1>7, <2>1, <2>3, CutProtects DEF Receiving
  <2>5. ~dr0 => ~dr0'
    BY <2>1, Zenon
  <2>6. SettledMeta[SettledFirst] = NoMeta => ~dr0
    BY Zenon DEF OneInstalled
  <2> QED  BY <1>c, <2>1, <2>2, <2>4, <2>5, <2>6 DEF AppSteps
<1>8. CASE OtaSwapTarget
  <2> DEFINE t == sess.target_slot
             p == sess.prev_active
  <2>0. PICK r : SwapTarget(r)
    BY <1>8 DEF OtaSwapTarget
  <2>1. /\ pc \in {"target_erase", "target_program"} /\ p \in Slots /\ t = Other(p) /\ t \in Slots
        /\ p = Other(t) /\ image' = image /\ commit.slot = t /\ sess \in Sessions
        /\ p = SettledFirst /\ SettledMeta = meta
    <3>1. pc \in {"target_erase", "target_program"}
      BY <2>0 DEF SwapTarget, CommitErase, CommitProgram
    <3>2. SettledMeta = meta
      BY <3>1, SettledIs DEF SettledAs
    <3> QED
      BY <1>8, <3>1, <3>2, SwapSteps, TwoSlots
         DEF Protected, Receiving, scan_active_slot, SettledFirst, First
  <2>2. SettledMeta[p] # NoMeta /\ FirstVersion = SettledTop
    BY <1>b, <2>1
  <2> HIDE DEF t, p
  <2>3. CASE pc = "target_erase"
    <3>1. /\ pc' = "target_program" /\ meta' = [meta EXCEPT ![t] = NoMeta]
      BY <1>d, <2>0, <2>1, <2>3 DEF SwapTarget, CommitErase, CommitProgram
    <3>2. /\ SettledMeta' = meta' /\ SettledMeta'[p] = SettledMeta[p] /\ SettledMeta'[t] = NoMeta
      BY <1>a, <2>1, <3>1, SettledIsNext, TwoSlots DEF SettledAs, MetaMaps
    <3>3. SettledTop' = SettledTop
      BY <1>a, <2>1, <3>2, LosesOther DEF SettledTop, FloorKept, SettledFirst
    <3>4. SettledFirst' = SettledFirst
      BY <2>1, <2>2, <3>2 DEF SettledFirst, First, img_pick_active_slot, img_slot_metadata_parse, Slots, Other
    <3>5. FirstVersion' = FirstVersion
      BY <2>1, <3>4 DEF FirstVersion
    <3> QED  BY <1>b, <2>1, <2>2, <3>1, <3>2, <3>3, <3>4, <3>5 DEF OneInstalled, AppSteps
  <2>4. CASE pc = "target_program"
    <3>1. /\ pc' = "prev_erase" /\ fresh' = t
      BY <1>8, <1>d, <2>0, <2>4 DEF SwapTarget, CommitErase, CommitProgram, OtaSwapTarget, t
    <3>2. SettledMeta' = meta' /\ t # NoSlot
      BY <2>1, <3>1, SettledIsNext, NoneAssumption DEF SettledAs
    <3>3. SettledFirst' = t /\ FreshImageFirst'
      <4>1. FreshImageFirst'
        BY FreshPicked, PTL
      <4> QED  BY <3>1, <3>2, <4>1 DEF FreshImageFirst, scan_active_slot, SettledFirst, First
    <3>4. /\ verify_slot(image[t]) /\ meta'[t] # NoMeta
          /\ meta'[t].monotonic_counter = image[t][0].version
      BY <2>1, <3>1, <3>2 DEF Upgrade
    <3>5. FirstVersion' = image[t][0].version /\ SettledTop' = image[t][0].version
      BY <2>1, <3>2, <3>3, <3>4 DEF FirstVersion, SettledTop, TopCounter, SettledFirst, Counter
    <3>6. FirstVersion' > FirstVersion
      <4>1. SettledTop <= sess.max_seen_counter /\ image[t][0].version > sess.max_seen_counter
        BY <1>a, <2>1, <2>4 DEF FloorKept, Receiving, SettledTop, TopCounter, SettledFirst, Upgrade, t
      <4>2. sess.max_seen_counter \in Nat /\ image[t][0].version \in Nat
        BY <1>a, <2>1, <3>4, Verified, U32Assumption DEF Sessions, U32
      <4> QED  BY <1>a, <2>2, <3>5, <4>1, <4>2
    <3> QED  BY <2>1, <2>4, <3>1, <3>2, <3>3, <3>4, <3>5, <3>6 DEF OneInstalled, AppSteps
  <2> QED  BY <2>1, <2>3, <2>4
<1>9. CASE OtaSwapPrevious
  <2>0. PICK r : SwapPrevious(r)
    BY <1>9 DEF OtaSwapPrevious
  <2>1. /\ pc \in {"prev_erase", "prev_program"} /\ pc' \in {"prev_program", "done"}
        /\ UNCHANGED <<image, fresh>> /\ fresh = sess.target_slot /\ fresh \in Slots /\ fresh # NoSlot
    BY <1>9, <1>d, <2>0, SwapSteps, TwoSlots, NoneAssumption
       DEF OtaSwapPrevious, SwapPrevious, CommitErase, CommitProgram, FreshWins
  <2>2. SettledMeta = meta /\ SettledMeta' = meta'
    BY <2>1, SettledIs, SettledIsNext DEF SettledAs
  <2>3. FreshImageFirst /\ FreshImageFirst'
    BY FreshPicked, PTL
  <2>4. SettledFirst = fresh /\ SettledFirst' = fresh
    BY <2>1, <2>2, <2>3 DEF FreshImageFirst, scan_active_slot, SettledFirst, First
  <2>5. /\ verify_slot(image[fresh]) /\ meta'[fresh] # NoMeta
        /\ meta'[fresh].monotonic_counter = image[fresh][0].version
    BY <2>1 DEF Upgrade
  <2>6. FirstVersion' = FirstVersion /\ SettledTop' = FirstVersion
    BY <2>1, <2>2, <2>4, <2>5 DEF FirstVersion, SettledTop, TopCounter, SettledFirst, Counter
  <2> QED  BY <2>1, <2>2, <2>4, <2>5, <2>6 DEF OneInstalled, AppSteps
<1>10. CASE UNCHANGED vars
  <2>1. UNCHANGED <<pc, meta, image, commit, dr0, running>>
    BY <1>10 DEF vars
  <2>2. UNCHANGED SettledMeta
    BY <2>1 DEF SettledMeta
  <2> QED  BY <1>c, <2>1, <2>2 DEF OneInstalled
<1> QED
  BY <1>1, <1>2, <1>3, <1>4, <1>5, <1>6, <1>7, <1>8, <1>9, <1>10 DEF Next

\* The two slots, their metadata and the sessions implement Firmware: one
\* installed version that is what runs, replaced only while nothing runs and
\* only by a newer one, in one step, across every fault and fallback.
THEOREM OneFirmware == CommitsComplete /\ NewReleases => (Spec /\ Shipped => ImplementsFirmware)
<1> SUFFICES ASSUME CommitsComplete, NewReleases  PROVE Spec /\ Shipped => ImplementsFirmware
  OBVIOUS
<1> DEFINE Inv == ReleaseInv /\ OneInstalled
<1>1. Init /\ Shipped => Inv
  BY ReleaseInit, OneInstalledInit
<1>2. Inv /\ [Next]_vars => Inv'
  BY ReleaseStep, OneInstalledStep
<1>3. ASSUME Inv  PROVE InstalledVersion = FirstVersion /\ FirstVersion \in U32 /\ FirstVersion # NoSlot
  BY <1>3, FirstIsInstalled, NoneAssumption DEF ReleaseInv
<1>4. ASSUME Inv, pc \in AppSteps  PROVE ExecutingVersion = FirstVersion
  BY <1>4, FirstIsInstalled DEF ReleaseInv, OneInstalled, ExecutingVersion, AppSteps
<1>5. pc \notin AppSteps => ExecutingVersion = NoSlot
  BY DEF ExecutingVersion
<1>6. Init /\ Shipped => FW!FwInit
  BY <1>1, <1>3, <1>5 DEF FW!FwInit, Init, AppSteps
<1>7. Inv /\ Inv' /\ [Next]_vars => [FW!FwNext]_(FW!fwVars)
  <2> SUFFICES ASSUME Inv, Inv', [Next]_vars  PROVE [FW!FwNext]_(FW!fwVars)
    OBVIOUS
  <2>1. FirstVersion' # FirstVersion =>
          pc \notin AppSteps /\ pc' \notin AppSteps /\ FirstVersion' > FirstVersion
    BY ReleaseStep, OneInstalledStep
  <2>2. /\ InstalledVersion = FirstVersion /\ FirstVersion # NoSlot
        /\ InstalledVersion' = FirstVersion' /\ FirstVersion' \in U32
    <3>1. Inv' => (InstalledVersion = FirstVersion /\ FirstVersion \in U32 /\ FirstVersion # NoSlot)'
      BY <1>3, PTL
    <3> QED  BY <1>3, <3>1
  <2>3. /\ ExecutingVersion = IF pc \in AppSteps THEN FirstVersion ELSE NoSlot
        /\ ExecutingVersion' = IF pc' \in AppSteps THEN FirstVersion' ELSE NoSlot
    <3>1. (Inv /\ pc \in AppSteps)' => (ExecutingVersion = FirstVersion)'
      BY <1>4, PTL
    <3>2. (pc \notin AppSteps)' => (ExecutingVersion = NoSlot)'
      BY <1>5, PTL
    <3> QED  BY <1>4, <1>5, <3>1, <3>2
  <2> QED
    BY <2>1, <2>2, <2>3 DEF FW!FwNext, FW!fwVars, FW!Start, FW!Stop, FW!Install
<1> QED
  BY <1>1, <1>2, <1>6, <1>7, PTL DEF Spec, ImplementsFirmware, FW!FwSpec
=============================================================================
