---------------------------- MODULE OtaTransfer ----------------------------
(***************************************************************************)
(* One run of tools/ota_send.py against the OTA receiver over a serial     *)
(* line that delivers frames in order but may lose or damage them (a       *)
(* damaged frame is dropped by the decoder's CRC), and delays them past    *)
(* the host's timeout.  The device stops when it resets or halts.          *)
(*                                                                         *)
(* The host's exchanges are numbered as it goes through them: 0 PING,      *)
(* 1 BEGIN, 2 .. N + 1 the N chunks of the image, N + 2 END.               *)
(***************************************************************************)
EXTENDS OtaReceiver, Sequences, FiniteSets

CONSTANTS
  SeqMod,         (* SEQ is a uint8_t: 256                                 *)
  MAX_RETRIES,    (* resends of one frame before the host gives up: 3      *)
  EagerTimeouts,  (* may the host time out while a frame is on its way?    *)
  MaxLosses,      (* bound: frames and replies lost in the run             *)
  MaxInFlight,    (* bound: frames and replies on the line at a time       *)
  PicksActive,    (* may the operator pass the active slot as --slot?      *)
  OldImages       (* contents the two slots may have before the run        *)

ASSUME HostToolAssumption ==
  /\ SeqMod \in Nat \ {0, 1} /\ Seqs = 0 .. SeqMod - 1
  /\ MAX_RETRIES \in Nat /\ MaxLosses \in Nat /\ MaxInFlight \in Nat
  /\ EagerTimeouts \in BOOLEAN /\ PicksActive \in BOOLEAN
  /\ OldImages \subseteq Content

VARIABLES
  toDev, toHost,  (* the two directions of the line                        *)
  host,           (* the host tool: what it sends and how far it is        *)
  losses,         (* frames lost so far                                    *)
  statusLost,     (* history: a STATUS reply was lost                      *)
  refused,        (* history: the frames a handler answered with NACK      *)
  floorBefore     (* history: the highest counter stored before the run    *)

tvars == <<pc, image, meta, commit, sess, toDev, toHost, host, losses, statusLost, refused,
           floorBefore>>

-----------------------------------------------------------------------------
(* The host tool.                                                          *)

LastStage(h) == h.image.size + 2

\* The frame of an exchange; sending it again sends the same SEQ.
Frame(h) ==
  LET s == [seq |-> h.stage % SeqMod]
  IN  CASE h.stage = 0 -> [type |-> "PING", seq |-> 0]
        [] h.stage = 1 -> [type |-> "OTA_BEGIN", seq |-> s.seq,
                           slot |-> h.slot, size |-> h.image.size]
        [] h.stage = LastStage(h) -> [type |-> "OTA_END", seq |-> s.seq]
        [] OTHER -> [type |-> "OTA_CHUNK", seq |-> s.seq,
                     offset |-> h.stage - 2, data |-> h.image]

ExpectedType(h) ==
  IF h.stage = 0 THEN "PONG" ELSE IF h.stage = LastStage(h) THEN "STATUS" ELSE "ACK"

\* Mutant: the SEQ of a reply is not compared.
AnswersByType(h, r) == r.type = ExpectedType(h)

Answers(h, r) == r.type = ExpectedType(h) /\ r.seq = Frame(h).seq

\* Mutant: one attempt more.
RetryOnceMore ==
  IF host.attempt <= MAX_RETRIES + 1
  THEN /\ host' = [host EXCEPT !.attempt = @ + 1]
       /\ toDev' = Append(toDev, Frame(host))
  ELSE /\ host' = [host EXCEPT !.result = "failed"]
       /\ UNCHANGED toDev

\* _send_and_await: a timeout, a NACK and a reply that is not the one awaited
\* all use up an attempt.
Retry ==
  IF host.attempt <= MAX_RETRIES
  THEN /\ host' = [host EXCEPT !.attempt = @ + 1]
       /\ toDev' = Append(toDev, Frame(host))
  ELSE /\ host' = [host EXCEPT !.result = "failed"]
       /\ UNCHANGED toDev

\* The next exchange, or the end of the run with the status.
Advance(r) ==
  IF host.stage = LastStage(host)
  THEN /\ host' = [host EXCEPT !.result = r.status]
       /\ UNCHANGED toDev
  ELSE /\ host' = [host EXCEPT !.stage = @ + 1, !.attempt = 1]
       /\ toDev' = Append(toDev, Frame(host'))

Init ==
  /\ pc = "ota"
  /\ image \in [Slots -> OldImages]
  /\ meta \in [Slots -> {NoMeta} \cup [active : {0, 1}, fail_count : {0},
                                       monotonic_counter : U32]]
  /\ \A s \in Slots : img_slot_metadata_parse(meta[s]) =>
       verify_slot(image[s]) /\ meta[s].monotonic_counter = image[s][0].version
  /\ commit = NoCommit
  /\ sess = NewSession
  /\ \E s \in Slots, i \in Images :
       /\ s = scan_active_slot => PicksActive
       /\ host = [stage |-> 0, attempt |-> 1, slot |-> s, image |-> i,
                  result |-> "busy"]
  /\ toDev = <<Frame(host)>>
  /\ toHost = <<>>
  /\ losses = 0
  /\ statusLost = FALSE
  /\ refused = {}
  /\ floorBefore = scan_max_monotonic

\* One read may bring n frames: the first is taken, the others are dropped.
HostReceive ==
  /\ host.result = "busy" /\ toHost # <<>>
  /\ \E n \in 1 .. Len(toHost) : toHost' = SubSeq(toHost, n + 1, Len(toHost))
  /\ IF Answers(host, Head(toHost)) THEN Advance(Head(toHost)) ELSE Retry
  /\ UNCHANGED <<otaVars, losses, statusLost, refused, floorBefore>>

\* No complete frame within the timeout.  A timeout that is not eager comes
\* only when nothing is on the line and the device is not working.
HostTimeout ==
  /\ host.result = "busy"
  /\ \/ toDev = <<>> /\ toHost = <<>> /\ pc \in {"ota", "boot", "halt"}
     \/ EagerTimeouts /\ Len(toDev) + Len(toHost) < MaxInFlight
  /\ Retry
  /\ UNCHANGED <<otaVars, toHost, losses, statusLost, refused, floorBefore>>

-----------------------------------------------------------------------------
(* The device, and the line.                                               *)

Transmit(r) == toHost' = IF r = None THEN toHost ELSE Append(toHost, r)

DeviceFrame ==
  /\ toDev # <<>>
  /\ toDev' = Tail(toDev)
  /\ \E r \in Replies \cup {None} :
       /\ on_frame(Head(toDev), r) /\ Transmit(r)
       /\ refused' = IF ~IsDuplicate(Head(toDev)) /\ r = Reply(Head(toDev), "NACK")
                     THEN refused \cup {Head(toDev)} ELSE refused
  /\ UNCHANGED <<host, losses, statusLost, floorBefore>>

DeviceSwap ==
  /\ \E r \in Replies \cup {None} : (SwapTarget(r) \/ SwapPrevious(r)) /\ Transmit(r)
  /\ UNCHANGED <<toDev, host, losses, statusLost, refused, floorBefore>>

DeviceReset ==
  /\ OtaReset
  /\ UNCHANGED <<toDev, toHost, host, losses, statusLost, refused, floorBefore>>

\* Nobody reads the receive register while the swap runs or after the session.
DeviceDeaf ==
  /\ pc # "ota" /\ toDev # <<>>
  /\ toDev' = Tail(toDev)
  /\ UNCHANGED <<otaVars, toHost, host, losses, statusLost, refused, floorBefore>>

LoseFrame ==
  /\ losses < MaxLosses
  /\ losses' = losses + 1
  /\ \/ /\ toDev # <<>> /\ toDev' = Tail(toDev)
        /\ UNCHANGED <<toHost, statusLost>>
     \/ /\ toHost # <<>> /\ toHost' = Tail(toHost)
        /\ statusLost' = (statusLost \/ Head(toHost).type = "STATUS")
        /\ UNCHANGED toDev
  /\ UNCHANGED <<otaVars, host, refused, floorBefore>>

\* The host has exited and the device is at rest.
Finished ==
  /\ host.result # "busy" /\ toDev = <<>> /\ pc \in {"ota", "boot", "halt"}
  /\ UNCHANGED tvars

TransferNext ==
  \/ HostReceive \/ HostTimeout
  \/ DeviceFrame \/ DeviceSwap \/ DeviceReset \/ DeviceDeaf
  \/ LoseFrame \/ Finished

TransferSpec == Init /\ [][TransferNext]_tvars

\* The device and the line make progress on what they have, and so does the
\* host: its timeout is a clock, and a frame that arrives is read.
FairTransferSpec ==
  /\ TransferSpec
  /\ WF_tvars(HostReceive) /\ WF_tvars(HostTimeout)
  /\ WF_tvars(DeviceFrame) /\ WF_tvars(DeviceSwap)
  /\ WF_tvars(DeviceReset) /\ WF_tvars(DeviceDeaf)

-----------------------------------------------------------------------------
(* Properties.                                                             *)

\* The sequences of frames and the host's progress stay within their types.
TransferTypeOK ==
  /\ pc \in OtaSteps \cup {"boot", "halt"}
  /\ sess \in Sessions \cup {NoSess}
  /\ image \in [Slots -> Content]
  /\ meta \in [Slots -> Metadata \cup {NoMeta}]
  /\ toDev \in Seq(Frames) /\ toHost \in Seq(Replies)
  /\ host.stage \in 0 .. LastStage(host) /\ host.attempt \in 1 .. MAX_RETRIES + 1
  /\ host.result \in OtaStatuses \cup {"busy", "failed"}
  /\ refused \subseteq Frames

\* Slot s is the one the boot path tries first, and it passes the gates of
\* try_boot_slot.
Boots(s) ==
  /\ scan_active_slot = s
  /\ img_slot_metadata_parse(meta[s]) => ~img_fail_count_tripped(meta[s].fail_count)
  /\ verify_slot(image[s])
  /\ img_header_meets_floor(image[s][0].version, scan_max_monotonic)

\* Exit code 0 means that the slot holds the image that was sent, completely,
\* under metadata that makes it the slot to try first, and that it passes the
\* gates of that boot exactly if its version exceeds every counter stored
\* before the run: an equal version is reported ok as well, but stored under
\* floor + 1 and refused (ota_send.py:259-262, ota.c:366-387, main.c:153).
OkMeansInstalled ==
  host.result = "ok" =>
    /\ \A u \in Units : u < host.image.size => image[host.slot][u] = host.image
    /\ scan_active_slot = host.slot
    /\ Boots(host.slot) <=> host.image.version > floorBefore

\* A chunk that arrives again, because its ACK was late or lost, is not
\* counted again: what received_bytes counts is in flash (ota.c:394-397).
CountedOnce ==
  pc = "ota" /\ sess.state = "RECEIVING" =>
    sess.received_bytes <= Cardinality({u \in Units : image[sess.target_slot][u] # Erased})

\* A chunk the host takes for acknowledged is in the slot, if OTA_BEGIN has
\* erased its place and neither BEGIN nor the chunk was refused (ota.md:59-64).
Acknowledged(u) == host.stage > u + 2
AckedIsWritten ==
  \A u \in Units \cap Sectors[host.slot] :
    u < host.image.size /\ Acknowledged(u) =>
      \/ image[host.slot][u] = host.image
      \/ \E f \in refused : f.type = "OTA_BEGIN" \/ (f.type = "OTA_CHUNK" /\ f.offset = u)

\* A BEGIN or chunk that is acknowledged as a duplicate was done the first
\* time: what is missing is only its ACK (ota.c:394-397).
DuplicateMeansMissedAck ==
  pc = "ota" /\ toDev # <<>> /\ IsDuplicate(Head(toDev))
    /\ DuplicateAnswer(Head(toDev)) = "ACK" => Head(toDev) \notin refused

\* Losses the retries cover do not fail an update (ota.md:62-66): the host
\* reports ok, unless it is the one STATUS of the session that is lost.
TransferCompletes == <>(host.result = "ok" \/ statusLost)
=============================================================================
