------------------------- MODULE OtaReceiverProofs -------------------------
(***************************************************************************)
(* What the theorems about Bootloader and OtaTransfer share: lemmas about  *)
(* the operators of Img, FlashSlot and OtaReceiver, what one frame does to *)
(* a well-typed receiver, and which slot a session leaves alone.           *)
(***************************************************************************)
EXTENDS OtaReceiver, TLAPS

\* No release uses the last uint32_t as its version: max_seen_counter + 1 then
\* never wraps when an image is accepted.
VersionsBelowTop == \A i \in Images : i.version < U32Max

\* Erasing a slot erases its image header.
HeadersErased == \A s \in Slots : 0 \in Sectors[s]

SwapCommits == {"target_erase", "target_program", "prev_erase", "prev_program"}

\* The receiver's variables have their types, the session is there while the
\* receiver runs, and the arguments of a commit while it runs.
ReceiverTyped ==
  /\ image \in [Slots -> Content]
  /\ meta \in [Slots -> Metadata \cup {NoMeta}]
  /\ commit \in Commits \cup {NoCommit}
  /\ sess \in Sessions \cup {NoSess}
  /\ pc \in SwapCommits => commit \in Commits
  /\ pc \in OtaSteps =>
       /\ sess \in Sessions
       /\ pc # "ota" \/ sess.state = "RECEIVING" => sess.target_slot \in Slots

-----------------------------------------------------------------------------
(* Lemmas about the operators of Img, FlashSlot and OtaReceiver.           *)

\* img_compute_new_floor yields one of its arguments, at least both.
LEMMA NewFloor ==
  ASSUME NEW c \in U32, NEW v \in U32
  PROVE  /\ img_compute_new_floor(c, v) \in U32
         /\ img_compute_new_floor(c, v) >= c
         /\ img_compute_new_floor(c, v) >= v
         /\ img_compute_new_floor(c, v) \in {c, v}
BY U32Assumption DEF img_compute_new_floor, U32

\* img_compute_floor is a uint32 that no counter of a blob that parses exceeds.
LEMMA Floor ==
  ASSUME NEW a \in Metadata \cup {NoMeta}, NEW b \in Metadata \cup {NoMeta}
  PROVE  /\ img_compute_floor(a, b) \in U32
         /\ a # NoMeta => a.monotonic_counter <= img_compute_floor(a, b)
         /\ b # NoMeta => b.monotonic_counter <= img_compute_floor(a, b)
BY U32Assumption
   DEF img_compute_floor, img_compute_new_floor, img_slot_metadata_parse, Metadata, U32

\* The decision tree names a slot.
LEMMA Pick ==
  ASSUME NEW a, NEW b PROVE img_pick_active_slot(a, b) \in Slots
BY DEF img_pick_active_slot, Slots

\* What the fields of a frame are, by its type.
LEMMA FrameFields ==
  ASSUME NEW f \in Frames
  PROVE  /\ f.seq \in Seqs
         /\ f.type = "OTA_BEGIN" => f.slot \in SlotIds /\ f.size \in Nat
         /\ f.type = "OTA_CHUNK" => f.offset \in Nat /\ f.data \in Images \cup {None}
BY DEF Frames

\* A verified slot starts with a built image.
LEMMA Verified ==
  ASSUME NEW c \in Content, verify_slot(c)
  PROVE  c[0] \in Images /\ c[0].version \in U32
BY ImagesAssumption DEF verify_slot, img_header_parse

\* Rewriting units of one slot keeps the type of the payload regions.
LEMMA ImageErase ==
  ASSUME image \in [Slots -> Content], NEW s \in Slots,
         flash_slot_erase(s) \/ TornErase(s)
  PROVE  image' \in [Slots -> Content] /\ image'[Other(s)] = image[Other(s)]
<1>1. Other(s) \in Slots /\ Other(s) # s
  BY DEF Other, Slots
<1>2. ASSUME NEW c \in Content, image' = [image EXCEPT ![s] = c]
      PROVE  image' \in [Slots -> Content] /\ image'[Other(s)] = image[Other(s)]
  BY <1>1, <1>2
<1>3. CASE flash_slot_erase(s)
  <2> DEFINE c == [u \in Units |-> IF u \in Sectors[s] THEN Erased ELSE image[s][u]]
  <2>1. c \in Content
    BY DEF Content
  <2> QED  BY <1>2, <1>3, <2>1 DEF flash_slot_erase
<1>4. CASE TornErase(s)
  <2>1. PICK k \in 0 .. SlotUnits : \E j \in k .. SlotUnits :
               image' = [image EXCEPT ![s] = [u \in Units |->
                           CASE u \notin Sectors[s] \/ u >= j -> image[s][u]
                             [] u \in Sectors[s] /\ u < k -> Erased
                             [] OTHER -> Garbage]]
    BY <1>4 DEF TornErase
  <2>2. PICK j \in k .. SlotUnits :
               image' = [image EXCEPT ![s] = [u \in Units |->
                           CASE u \notin Sectors[s] \/ u >= j -> image[s][u]
                             [] u \in Sectors[s] /\ u < k -> Erased
                             [] OTHER -> Garbage]]
    BY <2>1
  <2> DEFINE c == [u \in Units |->
                     CASE u \notin Sectors[s] \/ u >= j -> image[s][u]
                       [] u \in Sectors[s] /\ u < k -> Erased
                       [] OTHER -> Garbage]
  <2>3. c \in Content
    BY DEF Content
  <2> QED  BY <1>2, <2>2, <2>3
<1> QED
  BY <1>3, <1>4

LEMMA ImageWrite ==
  ASSUME image \in [Slots -> Content], NEW s \in Slots, NEW u \in Units, NEW img \in Images,
         flash_write_bytes(s, u, img) \/ TornWrite(s, u)
  PROVE  image' \in [Slots -> Content] /\ image'[Other(s)] = image[Other(s)]
<1>1. Other(s) \in Slots /\ Other(s) # s
  BY DEF Other, Slots
<1>2. ASSUME NEW x \in Images \cup {Erased, Garbage}, image' = [image EXCEPT ![s][u] = x]
      PROVE  image' \in [Slots -> Content] /\ image'[Other(s)] = image[Other(s)]
  BY <1>1, <1>2 DEF Content
<1>3. CASE image' = image
  BY <1>3
<1> QED
  BY <1>2, <1>3 DEF flash_write_bytes, TornWrite

-----------------------------------------------------------------------------
(* Frames.                                                                 *)

\* One frame of an OTA session.
LEMMA FrameTypes ==
  ASSUME ReceiverTyped, NEW f \in Frames, NEW r, on_frame(f, r)
  PROVE  /\ pc = "ota" /\ pc' \in {"ota", "halt", "target_erase"}
         /\ image' \in [Slots -> Content]
         /\ meta' = meta
         /\ commit' \in Commits \cup {NoCommit}
         /\ pc' = "target_erase" => commit' \in Commits
         /\ sess' \in Sessions \cup {NoSess}
         /\ pc' # "halt" =>
              /\ sess' \in Sessions
              /\ pc' # "ota" \/ sess'.state = "RECEIVING" => sess'.target_slot \in Slots
<1>1. /\ pc = "ota" /\ sess \in Sessions
      /\ sess.state = "RECEIVING" => sess.target_slot \in Slots
  BY DEF on_frame, ReceiverTyped, OtaSteps
<1>2. /\ image \in [Slots -> Content] /\ meta \in [Slots -> Metadata \cup {NoMeta}]
      /\ commit \in Commits \cup {NoCommit}
  BY DEF ReceiverTyped
<1>3. f.seq \in Seqs
  BY FrameFields
<1>4. Seen(f, sess) \in Sessions /\ Seen(f, sess).state = sess.state
      /\ Seen(f, sess).target_slot = sess.target_slot
  BY <1>1, <1>3 DEF Seen, Sessions
<1>5. CASE Duplicate(f, r)
  BY <1>1, <1>2, <1>5 DEF Duplicate, otaVars, flashVars
<1>6. CASE Refuse(f, r) /\ image' = image
  BY <1>1, <1>2, <1>4, <1>6 DEF Refuse
<1>7. CASE f.type = "PING" /\ sess' = Seen(f, sess) /\ UNCHANGED flashVars
  BY <1>1, <1>2, <1>4, <1>7 DEF flashVars
<1>8. CASE f.type = "OTA_BEGIN" /\ handle_ota_begin(f, r)
  <2>1. CASE BeginAccepted(f) /\ flash_slot_erase(f.slot) /\
             sess' = Seen(f, [sess EXCEPT !.state = "RECEIVING", !.target_slot = f.slot,
                                          !.expected_size = f.size, !.received_bytes = 0])
             /\ UNCHANGED <<pc, meta, commit>>
    <3>1. f.slot \in Slots /\ f.size \in 0 .. SlotUnits
      BY <2>1, UnitsAssumption DEF BeginAccepted
    <3>2. sess' \in Sessions /\ sess'.target_slot \in Slots
      BY <1>1, <1>3, <2>1, <3>1 DEF Seen, Sessions, SlotIds
    <3> QED
      BY <1>1, <1>2, <2>1, <3>1, <3>2, ImageErase
  <2>2. CASE BeginAccepted(f) /\ TornErase(f.slot) /\ Refuse(f, r)
    <3>1. image' \in [Slots -> Content]
      BY <1>2, <2>2, ImageErase DEF BeginAccepted
    <3> QED
      BY <1>1, <1>2, <1>4, <2>2, <3>1 DEF Refuse
  <2> QED
    BY <1>6, <1>8, <2>1, <2>2 DEF handle_ota_begin
<1>9. CASE f.type = "OTA_CHUNK" /\ handle_ota_chunk(f, r)
  <2>1. ASSUME ChunkAccepted(f)
        PROVE  sess.target_slot \in Slots /\ f.offset \in Units /\ f.data \in Images
    <3>1. f.offset \in Nat /\ f.data \in Images \cup {None}
      BY <1>9, FrameFields
    <3>2. sess.expected_size \in 0 .. SlotUnits
      BY <1>1 DEF Sessions
    <3> QED
      BY <1>1, <2>1, <3>1, <3>2, UnitsAssumption DEF ChunkAccepted, Units
  <2>2. CASE ChunkAccepted(f) /\ flash_write_bytes(sess.target_slot, f.offset, f.data)
             /\ sess' = Seen(f, [sess EXCEPT !.received_bytes = @ + 1])
             /\ UNCHANGED <<pc, meta, commit>>
    <3>1. sess.received_bytes + 1 \in Nat
      BY <1>1 DEF Sessions
    <3>2. sess' = [sess EXCEPT !.received_bytes = sess.received_bytes + 1, !.last_rx_seq = f.seq]
      BY <1>1, <2>2 DEF Seen, Sessions
    <3>3. sess' \in Sessions /\ sess'.target_slot = sess.target_slot
      BY <1>1, <1>3, <3>1, <3>2 DEF Sessions
    <3>4. image' \in [Slots -> Content]
      BY <1>2, <2>1, <2>2, ImageWrite
    <3> QED
      BY <1>1, <1>2, <2>1, <2>2, <3>3, <3>4
  <2>3. CASE ChunkAccepted(f) /\ TornWrite(sess.target_slot, f.offset) /\ Refuse(f, r)
    <3>1. image' \in [Slots -> Content]
      BY <1>2, <2>1, <2>3, ImageWrite
    <3> QED
      BY <1>1, <1>2, <1>4, <2>3, <3>1 DEF Refuse
  <2> QED
    BY <1>6, <1>9, <2>2, <2>3 DEF handle_ota_chunk
<1>10. CASE f.type = "OTA_END" /\ handle_ota_end(f, r)
  <2>1. CASE \E st : HaltWith(f, r, st)
    BY <1>1, <1>2, <2>1 DEF HaltWith
  <2>2. CASE /\ sess.state = "RECEIVING" /\ verify_slot(image[sess.target_slot])
             /\ pc' = "target_erase"
             /\ commit' = [slot |-> sess.target_slot,
                           md |-> TargetMeta(image[sess.target_slot][0].version)]
             /\ sess' = Seen(f, sess)
             /\ UNCHANGED <<image, meta>>
    <3> DEFINE v == image[sess.target_slot][0].version
    <3>1. sess.target_slot \in Slots /\ v \in U32
      BY <1>1, <1>2, <2>2, Verified
    <3>2. (sess.max_seen_counter + 1) % (U32Max + 1) \in U32
      BY <1>1, U32Assumption DEF Sessions, U32
    <3>3. NewCounter(v) \in U32
      BY <3>1, <3>2, NewFloor DEF NewCounter
    <3>4. TargetMeta(v) \in Metadata
      BY <3>3 DEF TargetMeta, Metadata, IMG_FAIL_COUNT_MAX
    <3>5. commit' \in Commits
      BY <2>2, <3>1, <3>4 DEF Commits
    <3> QED
      BY <1>1, <1>2, <1>4, <2>2, <3>1, <3>5
  <2> QED
    BY <1>10, <2>1, <2>2 DEF handle_ota_end
<1> QED
  BY <1>5, <1>6, <1>7, <1>8, <1>9, <1>10 DEF on_frame

-----------------------------------------------------------------------------
(* The slot swap.                                                          *)

\* The two commits keep the types, and leave the payload regions alone.
LEMMA SwapTypes ==
  ASSUME ReceiverTyped, NEW r, SwapTarget(r) \/ SwapPrevious(r)
  PROVE  /\ ReceiverTyped' /\ image' = image
         /\ pc \in SwapCommits /\ pc' \in OtaSteps \cup {"halt"} /\ pc' # "ota"
<1>1. /\ pc \in SwapCommits /\ sess \in Sessions /\ sess.target_slot \in Slots
      /\ sess.prev_active \in Slots /\ commit \in Commits /\ commit.slot \in Slots
      /\ commit.md \in Metadata
  <2>1. pc \in SwapCommits
    BY DEF SwapTarget, SwapPrevious, CommitErase, CommitProgram, SwapCommits
  <2> QED  BY <2>1 DEF ReceiverTyped, SwapCommits, OtaSteps, Sessions, Commits
<1>2. /\ image \in [Slots -> Content] /\ meta \in [Slots -> Metadata \cup {NoMeta}]
  BY DEF ReceiverTyped
<1>3. [slot |-> sess.prev_active, md |-> PrevMeta] \in Commits
  <2>1. meta[sess.prev_active] \in Metadata \cup {NoMeta}
    BY <1>1, <1>2
  <2>2. PrevMeta \in Metadata
    BY <2>1, U32Assumption DEF PrevMeta, img_slot_metadata_parse, Metadata, IMG_FAIL_COUNT_MAX, U32
  <2> QED  BY <1>1, <2>2 DEF Commits
<1>4. /\ image' = image
      /\ meta' \in {meta, [meta EXCEPT ![commit.slot] = NoMeta],
                    [meta EXCEPT ![commit.slot] = commit.md]}
      /\ pc' \in {"target_program", "prev_erase", "prev_program", "done", "halt"}
      /\ commit' \in {commit, NoCommit, [slot |-> sess.prev_active, md |-> PrevMeta]}
      /\ pc' \in {"target_program", "prev_program"} => commit' = commit
      /\ pc' = "prev_erase" => commit' = [slot |-> sess.prev_active, md |-> PrevMeta]
  <2>1. CASE CommitErase("target_erase", "target_program", "halt")
    BY <2>1 DEF CommitErase
  <2>2. CASE CommitProgram("target_program", "prev_erase",
                           [slot |-> sess.prev_active, md |-> PrevMeta], "halt")
    BY <2>2 DEF CommitProgram
  <2>3. CASE CommitErase("prev_erase", "prev_program", "done")
    BY <2>3 DEF CommitErase
  <2>4. CASE CommitProgram("prev_program", "done", NoCommit, "done")
    BY <2>4 DEF CommitProgram
  <2> QED  BY <2>1, <2>2, <2>3, <2>4 DEF SwapTarget, SwapPrevious
<1>5. meta' \in [Slots -> Metadata \cup {NoMeta}]
  BY <1>1, <1>2, <1>4
<1>6. sess' \in Sessions \cup {NoSess} /\ (pc' # "halt" => sess' = sess)
  BY <1>1 DEF SwapTarget, SwapPrevious
<1>7. commit' \in Commits \cup {NoCommit} /\ (pc' \in SwapCommits => commit' \in Commits)
  BY <1>1, <1>3, <1>4 DEF SwapCommits
<1> QED
  BY <1>1, <1>2, <1>4, <1>5, <1>6, <1>7 DEF ReceiverTyped, OtaSteps

-----------------------------------------------------------------------------
(* The slot an OTA session leaves alone.                                   *)

Receiving == {"ota", "target_erase", "target_program"}

\* While a session receives, and until the target's metadata is stored, the
\* slot taken for active at its start is still the one the metadata names, and
\* everything the session erases, writes and commits is the other one.
Protected ==
  /\ pc \in Receiving => scan_active_slot = sess.prev_active
  /\ pc \in OtaSteps /\ (pc # "ota" \/ sess.state = "RECEIVING") =>
       sess.target_slot = Other(sess.prev_active)
  /\ pc \in {"target_erase", "target_program"} => commit.slot = sess.target_slot

\* Losing the metadata of the slot that was not picked changes no pick.
LEMMA PickStable ==
  ASSUME NEW m1 \in [Slots -> Metadata \cup {NoMeta}],
         NEW m2 \in [Slots -> Metadata \cup {NoMeta}], NEW s \in Slots,
         s = img_pick_active_slot(m1["A"], m1["B"]),
         m2[s] = m1[s], m2[Other(s)] \in {m1[Other(s)], NoMeta}
  PROVE  img_pick_active_slot(m2["A"], m2["B"]) = s
BY DEF img_pick_active_slot, img_slot_metadata_parse, Slots, Other

\* ... and raises no floor.
LEMMA FloorFalls ==
  ASSUME NEW m1 \in [Slots -> Metadata \cup {NoMeta}],
         NEW m2 \in [Slots -> Metadata \cup {NoMeta}], NEW s \in Slots,
         m2[s] = m1[s], m2[Other(s)] \in {m1[Other(s)], NoMeta}
  PROVE  img_compute_floor(m2["A"], m2["B"]) <= img_compute_floor(m1["A"], m1["B"])
<1>1. \A t \in Slots : m1[t] # NoMeta => m1[t].monotonic_counter \in Nat
  BY U32Assumption DEF Metadata, U32
<1> QED
  BY <1>1 DEF img_compute_floor, img_compute_new_floor, img_slot_metadata_parse, Slots, Other

\* One frame leaves the metadata and the protected slot as they are.
LEMMA FrameProtects ==
  ASSUME ReceiverTyped, Protected, NEW f \in Frames, NEW r, on_frame(f, r)
  PROVE  /\ meta' = meta
         /\ image'[sess.prev_active] = image[sess.prev_active]
         /\ pc' # "halt" => sess'.prev_active = sess.prev_active
                            /\ sess'.max_seen_counter = sess.max_seen_counter
         /\ pc' # "halt" /\ (pc' # "ota" \/ sess'.state = "RECEIVING") =>
              sess'.target_slot = Other(sess.prev_active)
         /\ pc' = "target_erase" =>
              /\ commit' = [slot |-> sess.target_slot,
                            md |-> TargetMeta(image[sess.target_slot][0].version)]
              /\ sess'.target_slot = sess.target_slot
              /\ sess.target_slot \in Slots
              /\ verify_slot(image[sess.target_slot])
              /\ img_header_meets_floor(image[sess.target_slot][0].version,
                                        sess.max_seen_counter)
<1>1. /\ pc = "ota" /\ sess \in Sessions /\ sess.prev_active \in Slots
      /\ sess.state = "RECEIVING" => /\ sess.target_slot \in Slots
                                     /\ sess.target_slot = Other(sess.prev_active)
  BY DEF on_frame, ReceiverTyped, OtaSteps, Protected, Sessions
<1>2. image \in [Slots -> Content] /\ meta' = meta
  BY FrameTypes DEF ReceiverTyped
<1>3. \A s \in Slots : Other(s) \in Slots /\ Other(Other(s)) = s /\ Other(s) # s
                       /\ \A t \in Slots : t # s => t = Other(s)
  BY DEF Other, Slots
<1>4. /\ Seen(f, sess).state = sess.state
      /\ Seen(f, sess).target_slot = sess.target_slot
      /\ Seen(f, sess).prev_active = sess.prev_active
      /\ Seen(f, sess).max_seen_counter = sess.max_seen_counter
  BY <1>1 DEF Seen, Sessions
<1>5. CASE Duplicate(f, r)
  BY <1>1, <1>5 DEF Duplicate, otaVars, flashVars
<1>6. CASE Refuse(f, r) /\ image' = image
  BY <1>1, <1>2, <1>4, <1>6 DEF Refuse
<1>7. CASE sess' = Seen(f, sess) /\ UNCHANGED flashVars
  BY <1>1, <1>4, <1>7 DEF flashVars
<1>8. CASE f.type = "OTA_BEGIN" /\ handle_ota_begin(f, r)
  <2>1. ASSUME BeginAccepted(f) PROVE f.slot \in Slots /\ f.slot = Other(sess.prev_active)
    BY <1>1, <1>3, <2>1 DEF BeginAccepted
  <2>2. CASE BeginAccepted(f) /\ flash_slot_erase(f.slot) /\
             sess' = Seen(f, [sess EXCEPT !.state = "RECEIVING", !.target_slot = f.slot,
                                          !.expected_size = f.size, !.received_bytes = 0])
             /\ UNCHANGED <<pc, meta, commit>>
    <3>1. sess'.prev_active = sess.prev_active /\ sess'.target_slot = f.slot
          /\ sess'.max_seen_counter = sess.max_seen_counter
      BY <1>1, <2>2 DEF Seen, Sessions
    <3> QED
      BY <1>1, <1>2, <1>3, <2>1, <2>2, <3>1, ImageErase
  <2>3. CASE BeginAccepted(f) /\ TornErase(f.slot) /\ Refuse(f, r)
    <3>1. image'[sess.prev_active] = image[sess.prev_active]
      BY <1>1, <1>2, <1>3, <2>1, <2>3, ImageErase
    <3> QED
      BY <1>1, <1>2, <1>4, <2>3, <3>1 DEF Refuse
  <2> QED
    BY <1>6, <1>8, <2>2, <2>3 DEF handle_ota_begin
<1>9. CASE f.type = "OTA_CHUNK" /\ handle_ota_chunk(f, r)
  <2>1. ASSUME ChunkAccepted(f),
               flash_write_bytes(sess.target_slot, f.offset, f.data)
               \/ TornWrite(sess.target_slot, f.offset)
        PROVE  image'[sess.prev_active] = image[sess.prev_active]
    <3>1. f.offset \in Nat /\ f.data \in Images
      BY <1>9, <2>1, FrameFields DEF ChunkAccepted
    <3>2. f.offset \in Units
      BY <1>1, <2>1, <3>1, UnitsAssumption DEF ChunkAccepted, Units, Sessions
    <3> QED
      BY <1>1, <1>2, <1>3, <2>1, <3>1, <3>2, ImageWrite DEF ChunkAccepted
  <2>2. CASE ChunkAccepted(f) /\ flash_write_bytes(sess.target_slot, f.offset, f.data)
             /\ sess' = Seen(f, [sess EXCEPT !.received_bytes = @ + 1])
             /\ UNCHANGED <<pc, meta, commit>>
    <3>1. sess'.prev_active = sess.prev_active /\ sess'.target_slot = sess.target_slot
          /\ sess'.state = sess.state /\ sess'.max_seen_counter = sess.max_seen_counter
      BY <1>1, <2>2 DEF Seen, Sessions
    <3> QED
      BY <1>1, <2>1, <2>2, <3>1
  <2>3. CASE ChunkAccepted(f) /\ TornWrite(sess.target_slot, f.offset) /\ Refuse(f, r)
    BY <1>1, <1>2, <1>4, <2>1, <2>3 DEF Refuse
  <2> QED
    BY <1>6, <1>9, <2>2, <2>3 DEF handle_ota_chunk
<1>10. CASE f.type = "OTA_END" /\ handle_ota_end(f, r)
  <2>1. CASE \E st : HaltWith(f, r, st)
    BY <1>1, <1>2, <2>1 DEF HaltWith
  <2>2. CASE /\ sess.state = "RECEIVING" /\ verify_slot(image[sess.target_slot])
             /\ img_header_meets_floor(image[sess.target_slot][0].version,
                                       sess.max_seen_counter)
             /\ pc' = "target_erase"
             /\ commit' = [slot |-> sess.target_slot,
                           md |-> TargetMeta(image[sess.target_slot][0].version)]
             /\ sess' = Seen(f, sess)
             /\ UNCHANGED <<image, meta>>
    BY <1>1, <1>2, <1>4, <2>2
  <2> QED
    BY <1>10, <2>1, <2>2 DEF handle_ota_end
<1> QED
  BY <1>5, <1>6, <1>7, <1>8, <1>9, <1>10 DEF on_frame

\* The counter that OTA_END computes for the target exceeds all the session saw.
LEMMA CounterRises ==
  ASSUME VersionsBelowTop, ReceiverTyped, Protected, NEW f \in Frames, NEW r, on_frame(f, r),
         pc' = "target_erase"
  PROVE  commit'.md.active = 1 /\ commit'.md.monotonic_counter > sess.max_seen_counter
<1> DEFINE i == image[sess.target_slot][0]
           m == sess.max_seen_counter
<1>1. /\ commit'.md = TargetMeta(i.version)
      /\ sess.target_slot \in Slots /\ verify_slot(image[sess.target_slot])
      /\ img_header_meets_floor(i.version, m)
  BY FrameProtects
<1>2. i \in Images /\ i.version \in U32 /\ m \in U32
  BY <1>1, FrameTypes, Verified DEF ReceiverTyped, OtaSteps, Sessions
<1>3. i.version >= m /\ i.version < U32Max
  BY <1>1, <1>2 DEF img_header_meets_floor, VersionsBelowTop
<1>4. (m + 1) % (U32Max + 1) = m + 1
  <2> HIDE DEF i, m
  <2> QED
    BY <1>2, <1>3, U32Assumption DEF U32
<1>5. m + 1 \in U32
  BY <1>2, <1>3, U32Assumption DEF U32
<1>6. NewCounter(i.version) >= m + 1 /\ NewCounter(i.version) \in U32
  BY <1>2, <1>4, <1>5, NewFloor DEF NewCounter
<1> QED
  BY <1>1, <1>2, <1>6, U32Assumption DEF TargetMeta, U32

\* The commit steps of the swap, with the session they work for.
LEMMA SwapDoes ==
  ASSUME ReceiverTyped, Protected, NEW r, SwapTarget(r) \/ SwapPrevious(r)
  PROVE  /\ sess \in Sessions /\ sess.prev_active \in Slots
         /\ sess.target_slot = Other(sess.prev_active)
         /\ image' = image
         /\ pc' # "halt" => sess' = sess
         /\ \/ pc = "target_erase" /\ pc' \in {"target_program", "halt"}
            \/ pc = "target_program" /\ pc' \in {"prev_erase", "halt"}
            \/ pc \in {"prev_erase", "prev_program"} /\ pc' \in {"prev_program", "done"}
         /\ pc' \in {"target_program", "prev_program"} => commit' = commit
         /\ pc \in {"target_erase", "target_program"} /\ pc' # "prev_erase" =>
              /\ \A s \in Slots : meta'[s] \in {meta[s], NoMeta}
              /\ meta'[sess.prev_active] = meta[sess.prev_active]
         /\ pc' = "prev_erase" =>
              /\ meta' = [meta EXCEPT ![commit.slot] = commit.md]
              /\ commit' = [slot |-> sess.prev_active, md |-> PrevMeta]
<1>1. pc \in SwapCommits
  BY SwapTypes
<1>2. /\ sess \in Sessions /\ sess.prev_active \in Slots
      /\ sess.target_slot = Other(sess.prev_active)
      /\ commit \in Commits
      /\ pc \in {"target_erase", "target_program"} => commit.slot = sess.target_slot
  BY <1>1 DEF ReceiverTyped, OtaSteps, SwapCommits, Protected, Sessions
<1>3. Other(sess.prev_active) # sess.prev_active /\ Other(sess.prev_active) \in Slots
  BY <1>2 DEF Other, Slots
<1>4. meta \in [Slots -> Metadata \cup {NoMeta}]
  BY DEF ReceiverTyped
<1>5. CASE SwapTarget(r)
  <2>1. CASE CommitErase("target_erase", "target_program", "halt")
    BY <1>2, <1>3, <1>4, <1>5, <2>1 DEF CommitErase, SwapTarget
  <2>2. CASE CommitProgram("target_program", "prev_erase",
                           [slot |-> sess.prev_active, md |-> PrevMeta], "halt")
    BY <1>2, <1>3, <1>4, <1>5, <2>2 DEF CommitProgram, SwapTarget
  <2> QED
    BY <1>5, <2>1, <2>2 DEF SwapTarget
<1>6. CASE SwapPrevious(r)
  BY <1>2, <1>6 DEF SwapPrevious, CommitErase, CommitProgram
<1> QED
  BY <1>5, <1>6

\* Neither a frame nor the swap ends the protection.
LEMMA FrameKeepsProtected ==
  ASSUME ReceiverTyped, Protected, NEW f \in Frames, NEW r, on_frame(f, r)
  PROVE  Protected'
<1>1. pc = "ota" /\ pc' \in {"ota", "halt", "target_erase"}
  BY FrameTypes
<1>2. scan_active_slot = sess.prev_active /\ scan_active_slot' = scan_active_slot
  BY <1>1, FrameTypes DEF Protected, Receiving, scan_active_slot
<1>3. pc' = "target_erase" => commit'.slot = sess'.target_slot
  BY FrameProtects
<1> QED
  BY <1>1, <1>2, <1>3, FrameProtects DEF Protected, Receiving, OtaSteps

LEMMA SwapKeepsProtected ==
  ASSUME ReceiverTyped, Protected, NEW r, SwapTarget(r) \/ SwapPrevious(r)
  PROVE  Protected'
<1>1. meta \in [Slots -> Metadata \cup {NoMeta}] /\ meta' \in [Slots -> Metadata \cup {NoMeta}]
  BY SwapTypes DEF ReceiverTyped
<1>2. pc \in {"target_erase", "target_program"} /\ pc' = "target_program" =>
        scan_active_slot' = sess.prev_active
  <2> SUFFICES ASSUME pc \in {"target_erase", "target_program"}, pc' = "target_program"
               PROVE  scan_active_slot' = sess.prev_active
    OBVIOUS
  <2>1. /\ sess.prev_active \in Slots
        /\ meta'[sess.prev_active] = meta[sess.prev_active]
        /\ meta'[Other(sess.prev_active)] \in {meta[Other(sess.prev_active)], NoMeta}
    BY SwapDoes DEF Other, Slots
  <2>2. sess.prev_active = img_pick_active_slot(meta["A"], meta["B"])
    BY DEF Protected, Receiving, scan_active_slot
  <2> QED
    BY <1>1, <2>1, <2>2, PickStable DEF scan_active_slot
<1> QED
  BY <1>2, SwapDoes DEF Protected, Receiving, OtaSteps
=============================================================================
