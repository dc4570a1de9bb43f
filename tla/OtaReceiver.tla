---------------------------- MODULE OtaReceiver ----------------------------
(***************************************************************************)
(* apps/bootloader/loader/ota.c: the OTA session the boot loader runs when *)
(* the RTC magic is set.  One frame is handled per step and answered with  *)
(* the frame r; OTA_END starts the two metadata commits of the slot swap,  *)
(* each of them an erase and a program step of FlashSlot.                  *)
(*                                                                         *)
(* A frame carries its SEQ and, by type, the slot and size of OTA_BEGIN    *)
(* (a slot outside Slots stands for any malformed BEGIN) or the unit and   *)
(* image an OTA_CHUNK is taken from (None stands for a chunk that is too   *)
(* short to carry data).  The reply None is an answer that comes later.    *)
(***************************************************************************)
EXTENDS FlashSlot

CONSTANTS Seqs, NoSeq, NoSess, NoSlot, None

ASSUME SeqAssumption == NoSeq \notin Seqs
ASSUME NoneAssumption == NoSlot \notin Slots /\ NoSlot \notin U32 /\ None \notin Images

VARIABLE sess   (* s_sess while the receiver runs, NoSess otherwise        *)

otaVars == <<flashVars, sess>>

\* The values of pc while the receiver runs.
OtaSteps == {"ota", "target_erase", "target_program",
             "prev_erase", "prev_program", "done"}

SlotIds == Slots \cup {NoSlot}
OtaStatuses == {"ok", "verify_failed", "write_failed", "protocol_error", "rollback_rejected"}

Frames ==
  [type : {"PING", "OTA_END", "OTHER"}, seq : Seqs]
    \cup [type : {"OTA_BEGIN"}, seq : Seqs, slot : SlotIds, size : Nat]
    \cup [type : {"OTA_CHUNK"}, seq : Seqs, offset : Nat, data : Images \cup {None}]

Replies ==
  [type : {"ACK", "NACK", "PONG"}, seq : Seqs]
    \cup [type : {"STATUS"}, seq : Seqs, status : OtaStatuses]

Sessions ==
  [state : {"AWAIT_BEGIN", "RECEIVING"},
   target_slot : SlotIds, prev_active : Slots,
   expected_size : 0 .. SlotUnits, received_bytes : Nat,
   last_rx_seq : Seqs \cup {NoSeq},
   max_seen_counter : U32]

Reply(f, t) == [type |-> t, seq |-> f.seq]
Status(seq, s) == [type |-> "STATUS", seq |-> seq, status |-> s]

-----------------------------------------------------------------------------
(* Session start: bootloader_ota_run up to its receive loop.               *)

scan_active_slot == img_pick_active_slot(meta["A"], meta["B"])
scan_max_monotonic == img_compute_floor(meta["A"], meta["B"])

NewSession ==
  [state |-> "AWAIT_BEGIN", target_slot |-> NoSlot,
   prev_active |-> scan_active_slot,
   expected_size |-> 0, received_bytes |-> 0, last_rx_seq |-> NoSeq,
   max_seen_counter |-> scan_max_monotonic]

-----------------------------------------------------------------------------
(* Frame handlers.  f is the frame, r the answer; on_frame records f.seq   *)
(* after every handler, also after one that refused.                       *)

Seen(f, s) == [s EXCEPT !.last_rx_seq = f.seq]

Refuse(f, r) ==
  /\ r = Reply(f, "NACK")
  /\ sess' = Seen(f, sess)
  /\ UNCHANGED <<pc, commit, meta>>

HaltWith(f, r, status) ==
  /\ r = Status(f.seq, status)
  /\ pc' = "halt"
  /\ sess' = NoSess
  /\ UNCHANGED <<image, meta, commit>>

\* Mutant: the host may also name the slot that is active.
BeginAnySlot(f) ==
  /\ f.slot \in Slots
  /\ f.size \in 1 .. SlotUnits

\* Mutant: the size the host announces is not compared with the slot's.
BeginAnySize(f) ==
  /\ f.slot \in Slots
  /\ f.slot # sess.prev_active
  /\ f.size > 0

BeginAccepted(f) ==
  /\ f.slot \in Slots
  /\ f.slot # sess.prev_active
  /\ f.size \in 1 .. SlotUnits

\* A BEGIN is accepted in every state of the session: it restarts it.
handle_ota_begin(f, r) ==
  \/ ~BeginAccepted(f) /\ Refuse(f, r) /\ UNCHANGED image
  \/ /\ BeginAccepted(f)
     /\ \/ /\ flash_slot_erase(f.slot)
           /\ sess' = Seen(f, [sess EXCEPT !.state = "RECEIVING",
                                           !.target_slot = f.slot,
                                           !.expected_size = f.size,
                                           !.received_bytes = 0])
           /\ r = Reply(f, "ACK")
           /\ UNCHANGED <<pc, meta, commit>>
        \/ FlashFails /\ TornErase(f.slot) /\ Refuse(f, r)

ChunkAccepted(f) ==
  /\ sess.state = "RECEIVING"
  /\ f.data # None
  /\ f.offset + 1 <= sess.expected_size

handle_ota_chunk(f, r) ==
  \/ ~ChunkAccepted(f) /\ Refuse(f, r) /\ UNCHANGED image
  \/ /\ ChunkAccepted(f)
     /\ \/ /\ flash_write_bytes(sess.target_slot, f.offset, f.data)
           /\ sess' = Seen(f, [sess EXCEPT !.received_bytes = @ + 1])
           /\ r = Reply(f, "ACK")
           /\ UNCHANGED <<pc, meta, commit>>
        \/ FlashFails /\ TornWrite(sess.target_slot, f.offset) /\ Refuse(f, r)

\* Mutants: the counter kept instead of bumped, the counter bumped by the swap
\* once more.
KeptCounter(version) == sess.max_seen_counter
TwiceBumped(version) ==
  img_compute_new_floor((sess.max_seen_counter + 2) % (U32Max + 1), version)

\* max_seen_counter + 1 in uint32_t, raised to the image's version.
NewCounter(version) ==
  img_compute_new_floor((sess.max_seen_counter + 1) % (U32Max + 1), version)

TargetMeta(version) ==
  [active |-> 1, fail_count |-> 0, monotonic_counter |-> NewCounter(version)]

\* The checks in the order of the code; when all pass, swap_active_slot
\* starts and answers later.
handle_ota_end(f, r) ==
  LET content == image[sess.target_slot]
  IN  IF sess.state # "RECEIVING" THEN HaltWith(f, r, "protocol_error")
      ELSE IF sess.received_bytes # sess.expected_size THEN HaltWith(f, r, "write_failed")
      ELSE IF ~verify_slot(content) THEN HaltWith(f, r, "verify_failed")
      ELSE IF ~img_header_meets_floor(content[0].version, sess.max_seen_counter)
           THEN HaltWith(f, r, "rollback_rejected")
      ELSE /\ pc' = "target_erase"
           /\ commit' = [slot |-> sess.target_slot, md |-> TargetMeta(content[0].version)]
           /\ sess' = Seen(f, sess)
           /\ r = None
           /\ UNCHANGED <<image, meta>>

\* Mutant: every frame is handled, however often it comes.
NeverDuplicate(f) == FALSE

IsDuplicate(f) == f.seq = sess.last_rx_seq

\* Mutant: a repeated chunk is refused, since its bytes are there already.
RefusesAgain(f) == IF f.type = "PING" THEN "PONG" ELSE "NACK"

DuplicateAnswer(f) ==
  CASE f.type \in {"OTA_BEGIN", "OTA_CHUNK"} -> "ACK"
    [] f.type = "PING" -> "PONG"
    [] OTHER -> "NACK"

\* A frame whose SEQ is the last one seen is answered without being handled.
Duplicate(f, r) == r = Reply(f, DuplicateAnswer(f)) /\ UNCHANGED otaVars

on_frame(f, r) ==
  /\ pc = "ota"
  /\ IF IsDuplicate(f) THEN Duplicate(f, r)
     ELSE \/ /\ f.type = "PING"
             /\ r = Reply(f, "PONG")
             /\ sess' = Seen(f, sess)
             /\ UNCHANGED flashVars
          \/ f.type = "OTA_BEGIN" /\ handle_ota_begin(f, r)
          \/ f.type = "OTA_CHUNK" /\ handle_ota_chunk(f, r)
          \/ f.type = "OTA_END" /\ handle_ota_end(f, r)
          \/ f.type = "OTHER" /\ Refuse(f, r) /\ UNCHANGED image

-----------------------------------------------------------------------------
(* swap_active_slot: commit the target, then demote the previous slot.  A  *)
(* failing target commit ends the session; a failing demotion is tolerated.*)

PrevMeta ==
  [active |-> 0, fail_count |-> 0,
   monotonic_counter |-> IF img_slot_metadata_parse(meta[sess.prev_active])
                         THEN meta[sess.prev_active].monotonic_counter ELSE 0]

Answer(r) == IF pc' = "halt" THEN r = Status(sess.last_rx_seq, "write_failed")
             ELSE IF pc' = "done" THEN r = Status(sess.last_rx_seq, "ok")
             ELSE r = None

SwapTarget(r) ==
  /\ \/ CommitErase("target_erase", "target_program", "halt")
     \/ CommitProgram("target_program", "prev_erase",
                      [slot |-> sess.prev_active, md |-> PrevMeta], "halt")
  /\ Answer(r)
  /\ sess' = IF pc' = "halt" THEN NoSess ELSE sess

SwapPrevious(r) ==
  /\ \/ CommitErase("prev_erase", "prev_program", "done")
     \/ CommitProgram("prev_program", "done", NoCommit, "done")
  /\ Answer(r)
  /\ UNCHANGED sess

\* STATUS(ok) is on the wire: NVIC_SystemReset.
OtaReset ==
  /\ pc = "done"
  /\ pc' = "boot"
  /\ sess' = NoSess
  /\ UNCHANGED <<image, meta, commit>>
=============================================================================
