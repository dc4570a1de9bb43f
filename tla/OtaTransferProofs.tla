------------------------- MODULE OtaTransferProofs -------------------------
(***************************************************************************)
(* Theorems about OtaTransfer, for every set of images, slot geometry, SEQ *)
(* width and number of retries, and any losses, timeouts and failures.     *)
(*                                                                         *)
(* The argument: the line only holds frames of the host's exchange and the *)
(* one before (Line), so the device can tell them apart by their SEQs, and *)
(* what it counts, answers and commits belongs to the host's image         *)
(* (SessionFits, Written, Counted; SwapInv and OkInv for the slot swap).   *)
(***************************************************************************)
EXTENDS OtaTransfer, OtaReceiverProofs, FiniteSetTheorems

-----------------------------------------------------------------------------
(* The frames of the host tool.                                            *)

HostTools == [stage : Nat, attempt : 1 .. MAX_RETRIES + 1, slot : Slots, image : Images,
              result : OtaStatuses \cup {"busy", "failed"}]
HostTyped == host \in HostTools /\ host.stage \in 0 .. LastStage(host)

LEMMA FrameOf ==
  ASSUME NEW h \in HostTools, h.stage \in 0 .. LastStage(h)
  PROVE  /\ Frame(h) \in Frames /\ Frame(h).seq = h.stage % SeqMod /\ h.stage % SeqMod \in Seqs
         /\ h.image.size \in 1 .. SlotUnits /\ LastStage(h) \in Nat /\ LastStage(h) > 2
         /\ h.stage = 0 => Frame(h).type = "PING"
         /\ h.stage = 1 => /\ Frame(h).type = "OTA_BEGIN"
                           /\ Frame(h).slot = h.slot /\ Frame(h).size = h.image.size
         /\ h.stage \in 2 .. LastStage(h) - 1 =>
              /\ Frame(h).type = "OTA_CHUNK"
              /\ Frame(h).offset = h.stage - 2 /\ Frame(h).data = h.image
         /\ h.stage = LastStage(h) => Frame(h).type = "OTA_END"
<1>1. /\ SeqMod \in Nat /\ SeqMod >= 2 /\ Seqs = 0 .. SeqMod - 1
      /\ h.stage \in Nat /\ h.slot \in Slots /\ h.image \in Images
      /\ h.image.size \in 1 .. SlotUnits /\ h.image.size \in Nat /\ h.image.size >= 1
  BY HostToolAssumption, ImagesAssumption, UnitsAssumption DEF HostTools
<1>2. LastStage(h) = h.image.size + 2
  BY DEF LastStage
<1> DEFINE s == h.stage % SeqMod
<1>3. s \in Seqs /\ (h.stage = 0 => s = 0)
  BY <1>1
<1> HIDE DEF s
<1>4. CASE h.stage = 0
  <2>1. Frame(h) = [type |-> "PING", seq |-> 0]
    BY <1>1, <1>2, <1>4 DEF Frame
  <2> QED  BY <1>1, <1>2, <1>3, <1>4, <2>1 DEF Frames, s
<1>5. CASE h.stage = 1
  <2>1. Frame(h) = [type |-> "OTA_BEGIN", seq |-> s, slot |-> h.slot, size |-> h.image.size]
    BY <1>1, <1>2, <1>5 DEF Frame, s
  <2> QED  BY <1>1, <1>2, <1>3, <1>5, <2>1 DEF Frames, SlotIds, s
<1>6. CASE h.stage = LastStage(h)
  <2>1. Frame(h) = [type |-> "OTA_END", seq |-> s]
    BY <1>1, <1>2, <1>6 DEF Frame, s
  <2> QED  BY <1>1, <1>2, <1>3, <1>6, <2>1 DEF Frames, s
<1>7. CASE h.stage \in 2 .. LastStage(h) - 1
  <2>1. Frame(h) = [type |-> "OTA_CHUNK", seq |-> s, offset |-> h.stage - 2, data |-> h.image]
    BY <1>1, <1>2, <1>7 DEF Frame, s
  <2>2. h.stage - 2 \in Nat
    BY <1>1, <1>2, <1>7
  <2> QED  BY <1>1, <1>2, <1>3, <1>7, <2>1, <2>2 DEF Frames, s
<1> QED  BY <1>1, <1>2, <1>4, <1>5, <1>6, <1>7

-----------------------------------------------------------------------------
(* The two directions of the line.                                         *)

LEMMA TakeOne ==
  ASSUME NEW S, NEW q \in Seq(S), q # <<>>
  PROVE  /\ Tail(q) \in Seq(S) /\ Head(q) \in S /\ Head(q) = q[1]
         /\ Len(q) >= 1 /\ Len(q) \in Nat /\ Len(Tail(q)) = Len(q) - 1
         /\ \A i \in 1 .. Len(Tail(q)) : Tail(q)[i] = q[i + 1]
OBVIOUS

LEMMA TakeMany ==
  ASSUME NEW S, NEW q \in Seq(S), NEW n \in 1 .. Len(q)
  PROVE  LET p == SubSeq(q, n + 1, Len(q))
         IN  p \in Seq(S) /\ Len(p) = Len(q) - n /\ \A i \in 1 .. Len(p) : p[i] = q[i + n]
OBVIOUS

LEMMA PutOne ==
  ASSUME NEW S, NEW q \in Seq(S), NEW x \in S
  PROVE  /\ Append(q, x) \in Seq(S) /\ Len(q) \in Nat /\ Len(Append(q, x)) = Len(q) + 1
         /\ \A i \in 1 .. Len(q) + 1 :
              Append(q, x)[i] = IF i = Len(q) + 1 THEN x ELSE q[i]
OBVIOUS

\* First elements of old, then elements of new.
Sorted(q, old, new) ==
  \A i \in 1 .. Len(q) :
    /\ q[i] \in old \cup new
    /\ \A j \in 1 .. Len(q) : i < j /\ q[i] \in new => q[j] \in new

AllIn(q, S) == \A i \in 1 .. Len(q) : q[i] \in S

LEMMA TakenStaysSorted ==
  ASSUME NEW S, NEW q \in Seq(S), NEW n \in 1 .. Len(q), NEW old, NEW new
  PROVE  LET p == SubSeq(q, n + 1, Len(q))
         IN  /\ Sorted(q, old, new) => Sorted(p, old, new)
             /\ AllIn(q, new) => AllIn(p, new)
             /\ Sorted(q, old, new) /\ q[1] \in new => AllIn(p, new)
<1> DEFINE p == SubSeq(q, n + 1, Len(q))
<1>1. Len(p) = Len(q) - n /\ \A i \in 1 .. Len(p) : p[i] = q[i + n]
  BY TakeMany
<1>2. n \in Nat /\ n >= 1 /\ Len(q) \in Nat
  OBVIOUS
<1> HIDE DEF p
<1>3. \A i \in 1 .. Len(p) : i + n \in 1 .. Len(q) /\ 1 < i + n /\ 1 \in 1 .. Len(q)
  BY <1>1, <1>2
<1>4. \A i, j \in 1 .. Len(p) : i < j => i + n < j + n
  BY <1>1, <1>2
<1> QED  BY <1>1, <1>3, <1>4 DEF Sorted, AllIn, p

LEMMA TailStaysSorted ==
  ASSUME NEW S, NEW q \in Seq(S), q # <<>>, NEW old, NEW new
  PROVE  /\ Sorted(q, old, new) => Sorted(Tail(q), old, new)
         /\ AllIn(q, new) => AllIn(Tail(q), new)
         /\ Sorted(q, old, new) /\ Head(q) \in new => AllIn(q, new)
<1>1. 1 \in 1 .. Len(q) /\ Tail(q) = SubSeq(q, 2, Len(q)) /\ Head(q) = q[1]
  OBVIOUS
<1>2. Sorted(q, old, new) /\ q[1] \in new => AllIn(q, new)
  <2> SUFFICES ASSUME Sorted(q, old, new), q[1] \in new, NEW i \in 1 .. Len(q)  PROVE q[i] \in new
    BY DEF AllIn
  <2>1. i = 1 \/ 1 < i
    OBVIOUS
  <2> QED  BY <1>1, <2>1 DEF Sorted
<1>3. LET p == SubSeq(q, 1 + 1, Len(q))
      IN  /\ Sorted(q, old, new) => Sorted(p, old, new)
          /\ AllIn(q, new) => AllIn(p, new)
  BY <1>1, TakenStaysSorted
<1>4. SubSeq(q, 1 + 1, Len(q)) = Tail(q)
  BY <1>1
<1> QED  BY <1>1, <1>2, <1>3, <1>4

LEMMA PutStaysSorted ==
  ASSUME NEW S, NEW q \in Seq(S), NEW x \in S, NEW old, NEW new
  PROVE  /\ Sorted(q, old, new) /\ x \in new => Sorted(Append(q, x), old, new)
         /\ AllIn(q, new) /\ x \in new => AllIn(Append(q, x), new)
         /\ AllIn(q, old) /\ old \cap new = {} => Sorted(q, old, new)
<1>1. /\ Len(Append(q, x)) = Len(q) + 1 /\ Len(q) \in Nat
      /\ \A i \in 1 .. Len(q) + 1 : Append(q, x)[i] = IF i = Len(q) + 1 THEN x ELSE q[i]
  BY PutOne
<1>2. Sorted(q, old, new) /\ x \in new => Sorted(Append(q, x), old, new)
  <2> SUFFICES ASSUME Sorted(q, old, new), x \in new  PROVE Sorted(Append(q, x), old, new)
    OBVIOUS
  <2>1. ASSUME NEW i \in 1 .. Len(q) + 1  PROVE Append(q, x)[i] \in old \cup new
    BY <1>1 DEF Sorted
  <2>2. ASSUME NEW i \in 1 .. Len(q) + 1, NEW j \in 1 .. Len(q) + 1, i < j, Append(q, x)[i] \in new
        PROVE  Append(q, x)[j] \in new
    BY <1>1, <2>2 DEF Sorted
  <2> QED  BY <1>1, <2>1, <2>2 DEF Sorted
<1>3. AllIn(q, new) /\ x \in new => AllIn(Append(q, x), new)
  BY <1>1 DEF AllIn
<1>4. AllIn(q, old) /\ old \cap new = {} => Sorted(q, old, new)
  BY DEF AllIn, Sorted
<1> QED  BY <1>2, <1>3, <1>4

-----------------------------------------------------------------------------
(* Types.                                                                  *)

TransferInv == TransferTypeOK /\ ReceiverTyped /\ HostTyped

LEMMA RetryTypes ==
  ASSUME TransferInv, Retry
  PROVE  /\ HostTyped' /\ toDev' \in Seq(Frames)
         /\ host'.stage = host.stage /\ host'.slot = host.slot /\ host'.image = host.image
         /\ host'.result \in {host.result, "failed"}
         /\ toDev' = toDev \/ toDev' = Append(toDev, Frame(host))
<1>1. host \in HostTools /\ toDev \in Seq(Frames) /\ Frame(host) \in Frames
      /\ host.stage \in 0 .. LastStage(host)
  BY FrameOf DEF TransferInv, TransferTypeOK, HostTyped
<1>2. CASE /\ host.attempt <= MAX_RETRIES /\ host' = [host EXCEPT !.attempt = @ + 1]
           /\ toDev' = Append(toDev, Frame(host))
  <2>1. host.attempt + 1 \in 1 .. MAX_RETRIES + 1
    BY <1>1, <1>2, HostToolAssumption DEF HostTools
  <2>2. host' \in HostTools /\ host'.stage = host.stage /\ host'.slot = host.slot /\ host'.image = host.image
        /\ host'.result = host.result
    BY <1>1, <1>2, <2>1 DEF HostTools
  <2> QED  BY <1>1, <1>2, <2>2, PutOne DEF HostTyped, LastStage
<1>3. CASE host' = [host EXCEPT !.result = "failed"] /\ toDev' = toDev
  <2>1. host' \in HostTools /\ host'.stage = host.stage /\ host'.slot = host.slot /\ host'.image = host.image
        /\ host'.result = "failed"
    BY <1>1, <1>3 DEF HostTools
  <2> QED  BY <1>1, <1>3, <2>1 DEF HostTyped, LastStage
<1> QED  BY <1>2, <1>3 DEF Retry

LEMMA AdvanceTypes ==
  ASSUME TransferInv, NEW r \in Replies, Answers(host, r), Advance(r)
  PROVE  /\ HostTyped' /\ toDev' \in Seq(Frames)
         /\ host'.slot = host.slot /\ host'.image = host.image
         /\ \/ /\ host.stage = LastStage(host) /\ host'.stage = host.stage /\ toDev' = toDev
               /\ r.type = "STATUS" /\ host'.result = r.status
            \/ /\ host.stage # LastStage(host) /\ host'.stage = host.stage + 1
               /\ host'.result = host.result /\ toDev' = Append(toDev, Frame(host'))
<1>1. host \in HostTools /\ toDev \in Seq(Frames) /\ host.stage \in 0 .. LastStage(host)
      /\ LastStage(host) \in Nat /\ LastStage(host) > 2
  BY FrameOf DEF TransferInv, TransferTypeOK, HostTyped
<1>2. CASE host.stage = LastStage(host)
  <2>1. r.type = "STATUS" /\ host' = [host EXCEPT !.result = r.status] /\ toDev' = toDev
    BY <1>1, <1>2 DEF Answers, ExpectedType, Advance
  <2>2. r.status \in OtaStatuses
    BY <2>1 DEF Replies
  <2>3. host' \in HostTools /\ host'.stage = host.stage /\ host'.slot = host.slot /\ host'.image = host.image
        /\ host'.result = r.status
    BY <1>1, <2>1, <2>2 DEF HostTools
  <2> QED  BY <1>1, <1>2, <2>1, <2>3 DEF HostTyped, LastStage
<1>3. CASE host.stage # LastStage(host)
  <2>1. host' = [host EXCEPT !.stage = @ + 1, !.attempt = 1] /\ toDev' = Append(toDev, Frame(host'))
    BY <1>3 DEF Advance
  <2>2. 1 \in 1 .. MAX_RETRIES + 1 /\ host.stage + 1 \in Nat
    BY <1>1, HostToolAssumption
  <2>3. host' \in HostTools /\ host'.stage = host.stage + 1 /\ host'.slot = host.slot /\ host'.image = host.image
        /\ host'.result = host.result
    BY <1>1, <2>1, <2>2 DEF HostTools
  <2>4. host'.stage \in 0 .. LastStage(host') /\ LastStage(host') = LastStage(host)
    BY <1>1, <1>3, <2>3 DEF LastStage
  <2>5. Frame(host') \in Frames
    BY <2>3, <2>4, FrameOf
  <2> QED  BY <1>1, <1>3, <2>1, <2>3, <2>4, <2>5, PutOne DEF HostTyped
<1> QED  BY <1>2, <1>3

LEMMA TransferInvInit == Init => TransferInv
<1> SUFFICES ASSUME Init  PROVE TransferInv
  OBVIOUS
<1>1. /\ image \in [Slots -> Content]
      /\ meta \in [Slots -> Metadata \cup {NoMeta}]
  BY HostToolAssumption DEF Init, Metadata, IMG_FAIL_COUNT_MAX
<1>2. NewSession \in Sessions /\ NewSession.state = "AWAIT_BEGIN"
  <2>1. scan_active_slot \in Slots /\ scan_max_monotonic \in U32
    BY <1>1, Pick, Floor DEF scan_active_slot, scan_max_monotonic, Slots
  <2> QED  BY <2>1, UnitsAssumption DEF NewSession, Sessions, SlotIds
<1>3. PICK s \in Slots, i \in Images :
        host = [stage |-> 0, attempt |-> 1, slot |-> s, image |-> i, result |-> "busy"]
  BY DEF Init
<1>4. host \in HostTools /\ host.stage = 0 /\ host.attempt = 1 /\ host.result = "busy"
  BY <1>3, HostToolAssumption DEF HostTools
<1>5. LastStage(host) \in Nat
  BY <1>4, ImagesAssumption, UnitsAssumption DEF LastStage, HostTools
<1>6. HostTyped
  BY <1>4, <1>5 DEF HostTyped
<1>7. toDev = <<Frame(host)>> /\ Frame(host) \in Frames
  BY <1>6, FrameOf DEF Init, HostTyped
<1>8. TransferTypeOK
  BY <1>1, <1>2, <1>4, <1>5, <1>7, HostToolAssumption DEF Init, TransferTypeOK, OtaSteps
<1> QED  BY <1>1, <1>2, <1>6, <1>8 DEF Init, TransferInv, ReceiverTyped, SwapCommits

LEMMA TransferInvStep == TransferInv /\ [TransferNext]_tvars => TransferInv'
<1> SUFFICES ASSUME TransferInv, [TransferNext]_tvars  PROVE TransferInv'
  OBVIOUS
<1>a. /\ pc \in OtaSteps \cup {"boot", "halt"} /\ toDev \in Seq(Frames) /\ toHost \in Seq(Replies)
      /\ refused \subseteq Frames /\ ReceiverTyped /\ HostTyped
  BY DEF TransferInv, TransferTypeOK
<1>c. HostTyped' => (/\ host.stage \in 0 .. LastStage(host)
                     /\ host.attempt \in 1 .. MAX_RETRIES + 1
                     /\ host.result \in OtaStatuses \cup {"busy", "failed"})'
  BY DEF HostTyped, HostTools
<1>d. ASSUME pc' \in OtaSteps \cup {"boot", "halt"}, toDev' \in Seq(Frames), toHost' \in Seq(Replies),
             refused' \subseteq Frames, ReceiverTyped', HostTyped'
      PROVE  TransferInv'
  BY <1>c, <1>d DEF TransferInv, TransferTypeOK, ReceiverTyped
<1>e. UNCHANGED otaVars => UNCHANGED pc /\ ReceiverTyped'
  BY <1>a DEF otaVars, flashVars, ReceiverTyped
<1>f. UNCHANGED host => HostTyped'
  BY <1>a DEF HostTyped, LastStage
<1>g. ASSUME NEW r \in Replies \cup {None}, Transmit(r)  PROVE toHost' \in Seq(Replies)
  BY <1>a, <1>g, PutOne DEF Transmit
<1>1. CASE HostReceive
  <2>1. /\ UNCHANGED otaVars /\ refused' = refused /\ Head(toHost) \in Replies /\ toHost' \in Seq(Replies)
    <3>1. PICK n \in 1 .. Len(toHost) : toHost' = SubSeq(toHost, n + 1, Len(toHost))
      BY <1>1 DEF HostReceive
    <3> QED  BY <1>1, <1>a, <3>1, TakeMany, TakeOne DEF HostReceive
  <2>2. HostTyped' /\ toDev' \in Seq(Frames)
    BY <1>1, <2>1, RetryTypes, AdvanceTypes DEF HostReceive
  <2> QED  BY <1>a, <1>d, <1>e, <2>1, <2>2
<1>2. CASE HostTimeout
  BY <1>2, <1>a, <1>d, <1>e, RetryTypes DEF HostTimeout
<1>3. CASE DeviceFrame
  <2>1. toDev # <<>> /\ toDev' = Tail(toDev) /\ host' = host
    BY <1>3 DEF DeviceFrame
  <2>2. PICK r \in Replies \cup {None} :
          /\ on_frame(Head(toDev), r) /\ Transmit(r)
          /\ refused' = IF ~IsDuplicate(Head(toDev)) /\ r = Reply(Head(toDev), "NACK")
                        THEN refused \cup {Head(toDev)} ELSE refused
    BY <1>3 DEF DeviceFrame
  <2>3. Head(toDev) \in Frames /\ toDev' \in Seq(Frames)
    BY <1>a, <2>1, TakeOne
  <2>4. pc' \in {"ota", "halt", "target_erase"} /\ ReceiverTyped'
    BY <1>a, <2>2, <2>3, FrameTypes DEF ReceiverTyped, SwapCommits, OtaSteps
  <2>5. refused' \subseteq Frames /\ toHost' \in Seq(Replies)
    BY <1>a, <1>g, <2>2, <2>3
  <2> QED  BY <1>d, <1>f, <2>1, <2>3, <2>4, <2>5 DEF OtaSteps
<1>4. CASE DeviceSwap
  <2>1. PICK r \in Replies \cup {None} : (SwapTarget(r) \/ SwapPrevious(r)) /\ Transmit(r)
    BY <1>4 DEF DeviceSwap
  <2>2. ReceiverTyped' /\ pc' \in OtaSteps \cup {"halt"}
    BY <1>a, <2>1, SwapTypes
  <2> QED  BY <1>4, <1>a, <1>d, <1>f, <1>g, <2>1, <2>2 DEF DeviceSwap
<1>5. CASE DeviceReset
  <2>1. pc' = "boot" /\ ReceiverTyped'
    BY <1>5, <1>a DEF DeviceReset, OtaReset, ReceiverTyped, OtaSteps, SwapCommits
  <2> QED  BY <1>5, <1>a, <1>d, <1>f, <2>1 DEF DeviceReset
<1>6. CASE DeviceDeaf
  BY <1>6, <1>a, <1>d, <1>e, <1>f, TakeOne DEF DeviceDeaf
<1>7. CASE LoseFrame
  <2>1. toDev' \in Seq(Frames) /\ toHost' \in Seq(Replies)
    BY <1>7, <1>a, TakeOne DEF LoseFrame
  <2> QED  BY <1>7, <1>a, <1>d, <1>e, <1>f, <2>1 DEF LoseFrame
<1>8. CASE Finished \/ UNCHANGED tvars
  <2>1. UNCHANGED <<otaVars, host, toDev, toHost, refused>>
    BY <1>8 DEF Finished, tvars, otaVars, flashVars
  <2> QED  BY <1>a, <1>d, <1>e, <1>f, <2>1
<1> QED
  BY <1>1, <1>2, <1>3, <1>4, <1>5, <1>6, <1>7, <1>8 DEF TransferNext

\* The session, the slots and both directions of the line keep their types,
\* and the host's exchanges and attempts their bounds, whatever is lost.
THEOREM TransferTypes == TransferSpec => []TransferTypeOK
<1>1. TransferInv => TransferTypeOK
  BY DEF TransferInv
<1> QED
  BY <1>1, TransferInvInit, TransferInvStep, PTL DEF TransferSpec

-----------------------------------------------------------------------------
(* The line: the exchange the host is in, and the one before.              *)

CurSeq == host.stage % SeqMod
OldSeq == IF host.stage = 0 THEN NoSeq ELSE (host.stage - 1) % SeqMod
NewFrames == {Frame(host)}
OldFrames == {f \in Frames : f.seq = OldSeq}
NewReplies == {r \in Replies : r.seq = CurSeq}
OldReplies == {r \in Replies : r.seq = OldSeq}

\* The device has handled the host's current frame, or every frame up to n.
Arrived == pc # "ota" \/ sess.last_rx_seq = CurSeq
Done(n) == n < host.stage \/ (n = host.stage /\ Arrived)

\* What is on the line belongs to the current exchange or to the one before,
\* and the device has seen one of the two SEQs last; nothing of the one before
\* is on its way to the device once the current frame has been handled, and
\* nothing of the current one is on its way back until then.
Line ==
  /\ pc # "ota" => host.stage = LastStage(host)
  /\ pc \in OtaSteps => /\ sess.last_rx_seq \in {OldSeq, CurSeq}
                        /\ pc # "ota" => sess.last_rx_seq = CurSeq
  /\ Sorted(toDev, OldFrames, NewFrames) /\ (Arrived => AllIn(toDev, NewFrames))
  /\ Sorted(toHost, OldReplies, NewReplies) /\ (~Arrived => AllIn(toHost, OldReplies))

LEMMA OldIsSorted ==
  ASSUME NEW q, NEW old, NEW new, AllIn(q, old), old \cap new = {}
  PROVE  Sorted(q, old, new)
BY DEF AllIn, Sorted

LEMMA DivMod == \A m, n \in Int : m >= 2 => n % m = n - m * (n \div m)
BY Z3T(30)

\* Two exchanges in a row have different SEQs.
LEMMA SeqsDiffer ==
  ASSUME NEW n \in Nat
  PROVE  n % SeqMod # (n + 1) % SeqMod
<1> DEFINE m == SeqMod
<1>1. m \in Nat /\ m >= 2
  BY HostToolAssumption
<1> HIDE DEF m
<1> SUFFICES ASSUME n % m = (n + 1) % m  PROVE FALSE
  BY DEF m
<1>2. n \div m \in Int /\ (n + 1) \div m \in Int
  BY <1>1
<1>3. PICK p \in Int, q \in Int : n - m * p = (n + 1) - m * q
  <2>1. n - m * (n \div m) = (n + 1) - m * ((n + 1) \div m)
    BY <1>1, DivMod
  <2> QED  BY <1>2, <2>1
<1>4. m * (q - p) = 1 /\ q - p \in Int
  BY <1>1, <1>3
<1>5. CASE q - p <= 0
  BY <1>1, <1>4, <1>5
<1>6. CASE q - p >= 1
  BY <1>1, <1>4, <1>6
<1> QED  BY <1>4, <1>5, <1>6

LEMMA Exchanges ==
  ASSUME TransferInv
  PROVE  /\ host.stage \in Nat /\ host.stage \in 0 .. LastStage(host) /\ LastStage(host) \in Nat
         /\ OldSeq # CurSeq /\ CurSeq \in Seqs
         /\ Frame(host) \in Frames /\ Frame(host).seq = CurSeq
         /\ OldFrames \cap NewFrames = {} /\ OldReplies \cap NewReplies = {}
         /\ toDev \in Seq(Frames) /\ toHost \in Seq(Replies)
<1>1. host \in HostTools /\ host.stage \in 0 .. LastStage(host) /\ host.stage \in Nat
      /\ toDev \in Seq(Frames) /\ toHost \in Seq(Replies)
  BY DEF TransferInv, TransferTypeOK, HostTyped, HostTools
<1>2. /\ Frame(host) \in Frames /\ Frame(host).seq = CurSeq /\ CurSeq \in Seqs /\ LastStage(host) \in Nat
  BY <1>1, FrameOf DEF CurSeq
<1>3. OldSeq # CurSeq
  <2>1. CASE host.stage = 0
    BY <1>2, <2>1, SeqAssumption DEF OldSeq
  <2>2. CASE host.stage # 0
    <3>1. host.stage - 1 \in Nat /\ (host.stage - 1) + 1 = host.stage
      BY <1>1, <2>2
    <3>2. (host.stage - 1) % SeqMod # ((host.stage - 1) + 1) % SeqMod
      BY <3>1, SeqsDiffer
    <3> QED  BY <2>2, <3>1, <3>2 DEF OldSeq, CurSeq
  <2> QED  BY <2>1, <2>2
<1> QED  BY <1>1, <1>2, <1>3 DEF OldFrames, NewFrames, OldReplies, NewReplies

LEMMA SameExchange ==
  ASSUME host'.stage = host.stage, host'.slot = host.slot, host'.image = host.image
  PROVE  /\ CurSeq' = CurSeq /\ OldSeq' = OldSeq /\ LastStage(host') = LastStage(host)
         /\ Frame(host') = Frame(host)
         /\ NewFrames' = NewFrames /\ OldFrames' = OldFrames
         /\ NewReplies' = NewReplies /\ OldReplies' = OldReplies
<1>1. LastStage(host') = LastStage(host)
  BY DEF LastStage
<1>2. Frame(host') = Frame(host)
  BY <1>1 DEF Frame
<1> QED  BY <1>1, <1>2 DEF CurSeq, OldSeq, NewFrames, OldFrames, NewReplies, OldReplies

\* A frame that is not a duplicate is the current one, for the first time.
LEMMA FreshIsCurrent ==
  ASSUME TransferInv, Line, pc = "ota", toDev # <<>>, ~IsDuplicate(Head(toDev))
  PROVE  Head(toDev) = Frame(host) /\ ~Arrived /\ AllIn(toDev, NewFrames)
<1>1. Head(toDev) = toDev[1] /\ 1 \in 1 .. Len(toDev)
  BY Exchanges, TakeOne
<1>2. Head(toDev) \in OldFrames \cup NewFrames
  BY <1>1 DEF Line, Sorted
<1>3. sess.last_rx_seq \in {OldSeq, CurSeq} /\ sess.last_rx_seq # Head(toDev).seq
  BY DEF Line, OtaSteps, IsDuplicate
<1>4. sess.last_rx_seq # CurSeq
  <2> SUFFICES ASSUME sess.last_rx_seq = CurSeq  PROVE FALSE
    OBVIOUS
  <2>1. AllIn(toDev, NewFrames)
    BY DEF Line, Arrived
  <2> QED  BY <1>1, <1>3, <2>1, Exchanges DEF AllIn, NewFrames
<1>5. Head(toDev) \in NewFrames
  BY <1>2, <1>3, <1>4 DEF OldFrames
<1>6. AllIn(toDev, NewFrames)
  BY <1>5, Exchanges, TailStaysSorted DEF Line
<1> QED  BY <1>4, <1>5, <1>6 DEF Arrived, NewFrames

\* An answer carries the SEQ of its frame; a frame that was handled is the last
\* one seen, and only OTA_END ends the receive loop.
LEMMA FrameAnswered ==
  ASSUME ReceiverTyped, NEW f \in Frames, NEW r, on_frame(f, r)
  PROVE  /\ r # None => r.seq = f.seq
         /\ ~IsDuplicate(f) /\ pc' # "halt" => sess'.last_rx_seq = f.seq
         /\ pc' # "ota" => f.type = "OTA_END" /\ ~IsDuplicate(f)
         /\ IsDuplicate(f) => UNCHANGED otaVars
<1>1. pc = "ota" /\ sess \in Sessions
  BY DEF on_frame, ReceiverTyped, OtaSteps
<1>2. \A s \in Sessions : Seen(f, s).last_rx_seq = f.seq
  BY DEF Seen, Sessions
<1>3. \A t : Reply(f, t).seq = f.seq /\ Status(f.seq, t).seq = f.seq
  BY DEF Reply, Status
<1>4. CASE IsDuplicate(f)
  BY <1>1, <1>3, <1>4 DEF on_frame, Duplicate, otaVars, flashVars
<1>5. CASE Refuse(f, r) /\ ~IsDuplicate(f)
  BY <1>1, <1>2, <1>3, <1>5 DEF Refuse
<1>6. CASE f.type = "PING" /\ r = Reply(f, "PONG") /\ sess' = Seen(f, sess)
           /\ UNCHANGED flashVars /\ ~IsDuplicate(f)
  BY <1>1, <1>2, <1>3, <1>6 DEF flashVars
<1>7. CASE f.type = "OTA_BEGIN" /\ handle_ota_begin(f, r) /\ ~IsDuplicate(f)
  <2>1. CASE sess' = Seen(f, [sess EXCEPT !.state = "RECEIVING", !.target_slot = f.slot,
                                          !.expected_size = f.size, !.received_bytes = 0])
             /\ r = Reply(f, "ACK") /\ UNCHANGED <<pc, meta, commit>>
    <3>1. sess'.last_rx_seq = f.seq
      BY <1>1, <2>1 DEF Seen, Sessions
    <3> QED  BY <1>1, <1>3, <1>7, <2>1, <3>1
  <2> QED  BY <1>5, <1>7, <2>1 DEF handle_ota_begin
<1>8. CASE f.type = "OTA_CHUNK" /\ handle_ota_chunk(f, r) /\ ~IsDuplicate(f)
  <2>1. CASE sess' = Seen(f, [sess EXCEPT !.received_bytes = @ + 1])
             /\ r = Reply(f, "ACK") /\ UNCHANGED <<pc, meta, commit>>
    <3>1. sess'.last_rx_seq = f.seq
      BY <1>1, <2>1 DEF Seen, Sessions
    <3> QED  BY <1>1, <1>3, <1>8, <2>1, <3>1
  <2> QED  BY <1>5, <1>8, <2>1 DEF handle_ota_chunk
<1>9. CASE f.type = "OTA_END" /\ handle_ota_end(f, r) /\ ~IsDuplicate(f)
  <2>1. CASE \E st : HaltWith(f, r, st)
    BY <1>3, <1>9, <2>1 DEF HaltWith
  <2>2. CASE pc' = "target_erase" /\ sess' = Seen(f, sess) /\ r = None
    BY <1>1, <1>2, <1>9, <2>2
  <2> QED  BY <1>9, <2>1, <2>2 DEF handle_ota_end
<1> QED
  BY <1>4, <1>5, <1>6, <1>7, <1>8, <1>9 DEF on_frame

\* A step of the transfer leaves the device alone, or is the device's first
\* handling of the current frame, or a step of its swap or its reset.
Quiet == /\ UNCHANGED <<otaVars, refused>>
         /\ \A n \in Nat : Done(n)' <=> Done(n)

Fresh(r) ==
  /\ host' = host /\ pc = "ota" /\ ~Arrived /\ Arrived'
  /\ ~IsDuplicate(Frame(host)) /\ on_frame(Frame(host), r) /\ Transmit(r)
  /\ refused' = IF r = Reply(Frame(host), "NACK") THEN refused \cup {Frame(host)} ELSE refused

Steps == Quiet \/ (\E r \in Replies \cup {None} : Fresh(r)) \/ DeviceSwap \/ DeviceReset

LineKept == Line' /\ host'.slot = host.slot /\ host'.image = host.image /\ Steps

LEMMA QuietSteps ==
  ASSUME host'.stage = host.stage, host'.slot = host.slot, host'.image = host.image,
         UNCHANGED otaVars
  PROVE  /\ pc' = pc /\ sess' = sess /\ Arrived' = Arrived
         /\ refused' = refused => Quiet
<1>1. pc' = pc /\ sess' = sess
  BY DEF otaVars, flashVars
<1>2. CurSeq' = CurSeq
  BY SameExchange
<1> QED  BY <1>1, <1>2 DEF Quiet, Done, Arrived

\* The device's own answers come after those of the exchange before.
LEMMA AnswersInOrder ==
  ASSUME TransferInv, Line, NEW r \in Replies \cup {None}, Transmit(r),
         r # None => r.seq = CurSeq \/ (~Arrived /\ r.seq = OldSeq)
  PROVE  /\ Sorted(toHost', OldReplies, NewReplies)
         /\ ~Arrived /\ (r # None => r.seq = OldSeq) => AllIn(toHost', OldReplies)
<1>1. Sorted(toHost, OldReplies, NewReplies) /\ (~Arrived => AllIn(toHost, OldReplies))
      /\ toHost \in Seq(Replies) /\ OldReplies \cap NewReplies = {}
  BY Exchanges DEF Line
<1>2. CASE r = None
  BY <1>1, <1>2 DEF Transmit
<1>3. CASE r # None /\ ~Arrived /\ r.seq = OldSeq
  <2>1. r \in OldReplies /\ r \in Replies /\ toHost' = Append(toHost, r)
    BY <1>3 DEF OldReplies, Transmit
  <2>2. AllIn(toHost', OldReplies) /\ toHost' \in Seq(Replies)
    BY <1>1, <1>3, <2>1, PutStaysSorted, PutOne
  <2> QED  BY <1>1, <2>2, PutStaysSorted
<1>4. CASE r # None /\ r.seq = CurSeq
  <2>1. r \in NewReplies /\ r \in Replies /\ toHost' = Append(toHost, r)
    BY <1>4 DEF NewReplies, Transmit
  <2>2. r.seq # OldSeq
    BY <1>4, Exchanges
  <2> QED  BY <1>1, <1>4, <2>1, <2>2, PutStaysSorted
<1> QED  BY <1>2, <1>3, <1>4

LEMMA LineInit == Init => Line
<1> SUFFICES ASSUME Init  PROVE Line
  OBVIOUS
<1>1. TransferInv
  BY TransferInvInit
<1>2. pc = "ota" /\ host.stage = 0 /\ toDev = <<Frame(host)>> /\ toHost = <<>>
      /\ sess = NewSession
  BY DEF Init
<1>3. sess.last_rx_seq = OldSeq
  BY <1>2 DEF NewSession, OldSeq
<1>4. ~Arrived
  BY <1>1, <1>2, <1>3, Exchanges DEF Arrived
<1>5. Len(toDev) = 1 /\ toDev[1] = Frame(host) /\ Len(toHost) = 0
  BY <1>2
<1>6. Sorted(toDev, OldFrames, NewFrames) /\ Sorted(toHost, OldReplies, NewReplies)
      /\ AllIn(toHost, OldReplies)
  BY <1>5 DEF Sorted, AllIn, NewFrames
<1> QED  BY <1>2, <1>3, <1>4, <1>6 DEF Line

\* The host sends its frame again, or nothing.
LEMMA RetryLine ==
  ASSUME TransferInv, Line, Retry, UNCHANGED otaVars, UNCHANGED refused,
         Sorted(toHost', OldReplies, NewReplies), AllIn(toHost, OldReplies) => AllIn(toHost', OldReplies)
  PROVE  LineKept
<1>1. /\ host'.stage = host.stage /\ host'.slot = host.slot /\ host'.image = host.image
      /\ toDev' = toDev \/ toDev' = Append(toDev, Frame(host))
  BY RetryTypes
<1>2. pc' = pc /\ sess' = sess /\ Arrived' = Arrived /\ Quiet
  BY <1>1, QuietSteps
<1>3. Sorted(toDev', OldFrames, NewFrames) /\ (Arrived => AllIn(toDev', NewFrames))
  <2>1. CASE toDev' = toDev
    BY <2>1 DEF Line
  <2>2. CASE toDev' = Append(toDev, Frame(host))
    <3>1. Frame(host) \in NewFrames /\ Frame(host) \in Frames /\ toDev \in Seq(Frames)
      BY Exchanges DEF NewFrames
    <3> QED  BY <2>2, <3>1, PutStaysSorted DEF Line
  <2> QED  BY <1>1, <2>1, <2>2
<1> QED  BY <1>1, <1>2, <1>3, SameExchange DEF Line, LineKept, Steps

\* The host takes a reply to its current frame: the device has had the frame,
\* so nothing of an earlier exchange is left on the line.
LEMMA AdvanceLine ==
  ASSUME TransferInv, Line, TransferInv', UNCHANGED otaVars, UNCHANGED refused,
         toHost # <<>>, Answers(host, Head(toHost)), Advance(Head(toHost)),
         NEW n \in 1 .. Len(toHost), toHost' = SubSeq(toHost, n + 1, Len(toHost))
  PROVE  LineKept
<1> DEFINE r == Head(toHost)
<1>1. r \in Replies /\ r = toHost[1] /\ 1 \in 1 .. Len(toHost)
  BY Exchanges, TakeOne
<1>2. r.seq = CurSeq
  BY Exchanges DEF Answers
<1>3. r \in NewReplies /\ r \notin OldReplies
  BY <1>1, <1>2, Exchanges DEF NewReplies, OldReplies
<1>4. Arrived /\ AllIn(toDev, NewFrames) /\ AllIn(toHost', NewReplies)
  <2>1. Arrived
    BY <1>1, <1>3 DEF Line, AllIn
  <2>2. AllIn(toHost', NewReplies)
    BY <1>1, <1>3, Exchanges, TakenStaysSorted DEF Line
  <2> QED  BY <2>1, <2>2 DEF Line
<1>5. pc' = pc /\ sess' = sess
  BY DEF otaVars, flashVars
<1>6. host'.slot = host.slot /\ host'.image = host.image
  BY <1>1, AdvanceTypes
<1>7. CASE host.stage = LastStage(host) /\ host'.stage = host.stage /\ toDev' = toDev
  <2>1. Arrived' = Arrived /\ Quiet
    BY <1>6, <1>7, QuietSteps
  <2>2. Sorted(toHost', OldReplies, NewReplies)
    BY Exchanges, TakenStaysSorted DEF Line
  <2>3. Line'
    BY <1>4, <1>5, <1>6, <1>7, <2>1, <2>2, SameExchange DEF Line
  <2> QED  BY <1>6, <2>1, <2>3 DEF LineKept, Steps
<1>8. CASE host.stage # LastStage(host) /\ host'.stage = host.stage + 1
           /\ toDev' = Append(toDev, Frame(host'))
  <2>1. OldSeq' = CurSeq /\ pc = "ota" /\ sess.last_rx_seq = CurSeq
    BY <1>4, <1>8, Exchanges DEF OldSeq, CurSeq, Line, Arrived
  <2>2. CurSeq' # CurSeq /\ OldFrames' \cap NewFrames' = {} /\ OldReplies' \cap NewReplies' = {}
        /\ Frame(host)' \in Frames
    <3>1. (OldSeq # CurSeq /\ OldFrames \cap NewFrames = {} /\ OldReplies \cap NewReplies = {}
           /\ Frame(host) \in Frames)'
      BY Exchanges, PTL
    <3> QED  BY <2>1, <3>1
  <2>3. ~Arrived'
    BY <1>5, <2>1, <2>2 DEF Arrived
  <2>4. NewFrames \subseteq OldFrames' /\ NewReplies \subseteq OldReplies'
    BY <2>1, Exchanges DEF NewFrames, OldFrames, NewReplies, OldReplies
  <2>5. AllIn(toDev, OldFrames') /\ AllIn(toHost', OldReplies')
    BY <1>4, <2>4 DEF AllIn
  <2>6. toDev \in Seq(Frames) /\ toHost' \in Seq(Replies)
    BY DEF TransferInv, TransferTypeOK
  <2>7. Sorted(toDev, OldFrames', NewFrames') /\ Sorted(toHost', OldReplies', NewReplies')
    BY <2>2, <2>5, <2>6, OldIsSorted
  <2>8. Frame(host') \in NewFrames'
    BY DEF NewFrames
  <2>9. Sorted(toDev', OldFrames', NewFrames')
    BY <1>8, <2>2, <2>6, <2>7, <2>8, PutStaysSorted
  <2>10. Line'
    BY <1>5, <2>1, <2>3, <2>5, <2>7, <2>9 DEF Line, OtaSteps
  <2>11. Quiet
    BY <1>4, <1>8, <2>3, Exchanges DEF Quiet, Done
  <2> QED  BY <1>6, <2>10, <2>11 DEF LineKept, Steps
<1> QED  BY <1>1, <1>7, <1>8, AdvanceTypes

LEMMA LineStep ==
  ASSUME TransferInv, TransferInv', Line, [TransferNext]_tvars
  PROVE  LineKept
<1>1. CASE HostReceive
  <2>1. PICK n \in 1 .. Len(toHost) : toHost' = SubSeq(toHost, n + 1, Len(toHost))
    BY <1>1 DEF HostReceive
  <2>2. UNCHANGED otaVars /\ UNCHANGED refused /\ toHost # <<>>
    BY <1>1 DEF HostReceive
  <2>3. CASE Answers(host, Head(toHost)) /\ Advance(Head(toHost))
    BY <2>1, <2>2, <2>3, AdvanceLine
  <2>4. CASE Retry
    <3>1. /\ Sorted(toHost', OldReplies, NewReplies)
          /\ AllIn(toHost, OldReplies) => AllIn(toHost', OldReplies)
      BY <2>1, Exchanges, TakenStaysSorted DEF Line
    <3> QED  BY <2>2, <2>4, <3>1, RetryLine
  <2> QED  BY <1>1, <2>3, <2>4 DEF HostReceive
<1>2. CASE HostTimeout
  BY <1>2, RetryLine DEF HostTimeout, Line
<1>3. CASE DeviceFrame
  <2>1. toDev # <<>> /\ toDev' = Tail(toDev) /\ host' = host
    BY <1>3 DEF DeviceFrame
  <2> DEFINE f == Head(toDev)
  <2>2. PICK r \in Replies \cup {None} :
          /\ on_frame(f, r) /\ Transmit(r)
          /\ refused' = IF ~IsDuplicate(f) /\ r = Reply(f, "NACK")
                        THEN refused \cup {f} ELSE refused
    BY <1>3 DEF DeviceFrame
  <2>3. f \in Frames /\ pc = "ota" /\ f = toDev[1] /\ 1 \in 1 .. Len(toDev)
    BY <2>1, <2>2, Exchanges, TakeOne DEF on_frame
  <2>4. ReceiverTyped
    BY DEF TransferInv
  <2>5. /\ Sorted(toDev', OldFrames, NewFrames)
        /\ AllIn(toDev, NewFrames) => AllIn(toDev', NewFrames)
    BY <2>1, Exchanges, TailStaysSorted DEF Line
  <2>6. CASE IsDuplicate(f)
    <3>1. UNCHANGED otaVars /\ refused' = refused
      BY <2>2, <2>3, <2>4, <2>6, FrameAnswered
    <3>2. Quiet /\ Arrived' = Arrived /\ pc' = pc /\ sess' = sess
      BY <2>1, <3>1, QuietSteps
    <3>3. f \in OldFrames \cup NewFrames /\ (Arrived => f \in NewFrames)
      BY <2>3 DEF Line, Sorted, AllIn
    <3>4. (f.seq = CurSeq /\ Arrived) \/ (f.seq = OldSeq /\ ~Arrived)
      <4>1. f.seq \in {OldSeq, CurSeq} /\ (Arrived => f.seq = CurSeq)
        BY <3>3, Exchanges DEF OldFrames, NewFrames
      <4>2. f.seq = CurSeq => Arrived
        BY <2>6 DEF IsDuplicate, Arrived
      <4> QED  BY <4>1, <4>2
    <3>5. r # None => r.seq = f.seq
      BY <2>2, <2>3, <2>4, FrameAnswered
    <3>6. /\ Sorted(toHost', OldReplies, NewReplies)
          /\ ~Arrived => AllIn(toHost', OldReplies)
      BY <2>2, <3>4, <3>5, AnswersInOrder
    <3>7. Line'
      BY <2>1, <2>5, <3>2, <3>6, SameExchange DEF Line
    <3> QED  BY <2>1, <3>2, <3>7 DEF LineKept, Steps
  <2>7. CASE ~IsDuplicate(f)
    <3>1. f = Frame(host) /\ ~Arrived /\ AllIn(toDev, NewFrames) /\ f.seq = CurSeq
      BY <2>1, <2>3, <2>7, FreshIsCurrent, Exchanges
    <3>2. /\ r # None => r.seq = CurSeq
          /\ pc' # "halt" => sess'.last_rx_seq = CurSeq
          /\ pc' # "ota" => f.type = "OTA_END"
      BY <2>2, <2>3, <2>4, <2>7, <3>1, FrameAnswered
    <3>3. CurSeq' = CurSeq
      BY <2>1, SameExchange
    <3>4. Arrived'
      BY <3>2, <3>3 DEF Arrived
    <3>5. pc' # "ota" => host.stage = LastStage(host)
      <4>1. host \in HostTools /\ host.stage \in 0 .. LastStage(host)
        BY DEF TransferInv, HostTyped
      <4>2. host.stage = 0 \/ host.stage = 1 \/ host.stage \in 2 .. LastStage(host) - 1
              \/ host.stage = LastStage(host)
        BY <4>1, FrameOf
      <4> QED  BY <3>1, <3>2, <4>1, <4>2, FrameOf
    <3>6. Sorted(toHost', OldReplies, NewReplies)
      BY <2>2, <3>2, AnswersInOrder
    <3>7. "halt" \notin OtaSteps
      BY DEF OtaSteps
    <3>8. Line'
      BY <2>1, <2>5, <3>1, <3>2, <3>4, <3>5, <3>6, <3>7, SameExchange DEF Line
    <3>9. Fresh(r)
      BY <2>1, <2>2, <2>3, <2>7, <3>1, <3>4 DEF Fresh
    <3> QED  BY <2>1, <2>2, <3>8, <3>9 DEF LineKept, Steps
  <2> QED  BY <2>6, <2>7
<1>4. CASE DeviceSwap
  <2>1. PICK r \in Replies \cup {None} : (SwapTarget(r) \/ SwapPrevious(r)) /\ Transmit(r)
    BY <1>4 DEF DeviceSwap
  <2>2. toDev' = toDev /\ host' = host
    BY <1>4 DEF DeviceSwap
  <2>3. pc \in SwapCommits /\ pc' \in OtaSteps \cup {"halt"} /\ pc' # "ota"
    BY <2>1, SwapTypes DEF TransferInv
  <2>4. pc \in OtaSteps /\ pc # "ota"
    BY <2>3 DEF SwapCommits, OtaSteps
  <2>5. sess.last_rx_seq = CurSeq /\ host.stage = LastStage(host)
    BY <2>4 DEF Line
  <2>6. (pc' # "halt" => sess' = sess) /\ (r # None => r.seq = sess.last_rx_seq)
    BY <2>1 DEF SwapTarget, SwapPrevious, Answer, Status
  <2>7. Arrived /\ Arrived'
    BY <2>3, <2>4 DEF Arrived
  <2>8. Sorted(toHost', OldReplies, NewReplies)
    BY <2>1, <2>5, <2>6, AnswersInOrder
  <2>9. "halt" \notin OtaSteps
    BY DEF OtaSteps
  <2>10. Line'
    BY <2>2, <2>3, <2>5, <2>6, <2>7, <2>8, <2>9, SameExchange DEF Line
  <2> QED  BY <1>4, <2>2, <2>10 DEF LineKept, Steps
<1>5. CASE DeviceReset
  <2>1. pc = "done" /\ pc' = "boot" /\ UNCHANGED <<toDev, toHost, host>>
    BY <1>5 DEF DeviceReset, OtaReset
  <2>2. Arrived /\ Arrived' /\ pc' \notin OtaSteps
    BY <2>1 DEF Arrived, OtaSteps
  <2>3. Line'
    BY <2>1, <2>2, SameExchange DEF Line
  <2> QED  BY <1>5, <2>1, <2>3 DEF LineKept, Steps
<1>6. CASE /\ UNCHANGED <<otaVars, host, refused>>
           /\ toDev' = toDev \/ (toDev # <<>> /\ toDev' = Tail(toDev))
           /\ toHost' = toHost \/ (toHost # <<>> /\ toHost' = Tail(toHost))
  <2>1. Quiet /\ Arrived' = Arrived /\ pc' = pc /\ sess' = sess
    BY <1>6, QuietSteps
  <2>2. /\ Sorted(toDev', OldFrames, NewFrames)
        /\ AllIn(toDev, NewFrames) => AllIn(toDev', NewFrames)
    <3>1. CASE toDev # <<>> /\ toDev' = Tail(toDev)
      BY <3>1, Exchanges, TailStaysSorted DEF Line
    <3> QED  BY <1>6, <3>1 DEF Line
  <2>3. /\ Sorted(toHost', OldReplies, NewReplies)
        /\ AllIn(toHost, OldReplies) => AllIn(toHost', OldReplies)
    <3>1. CASE toHost # <<>> /\ toHost' = Tail(toHost)
      BY <3>1, Exchanges, TailStaysSorted DEF Line
    <3> QED  BY <1>6, <3>1 DEF Line
  <2>4. Line'
    BY <1>6, <2>1, <2>2, <2>3, SameExchange DEF Line
  <2> QED  BY <1>6, <2>1, <2>4 DEF LineKept, Steps
<1>7. CASE DeviceDeaf
  BY <1>6, <1>7 DEF DeviceDeaf
<1>8. CASE LoseFrame
  BY <1>6, <1>8 DEF LoseFrame
<1>9. CASE Finished \/ UNCHANGED tvars
  BY <1>6, <1>9 DEF Finished, tvars, otaVars, flashVars
<1> QED
  BY <1>1, <1>2, <1>3, <1>4, <1>5, <1>7, <1>8, <1>9 DEF TransferNext

-----------------------------------------------------------------------------
(* What the device makes of the current frame.                             *)

Receives == pc \in OtaSteps /\ (pc # "ota" \/ sess.state = "RECEIVING")

\* A session that receives has handled this host's BEGIN.
SessionFits ==
  Receives => Done(1) /\ sess.target_slot = host.slot /\ sess.expected_size = host.image.size

SessionKept ==
  /\ sess'.state = sess.state /\ sess'.target_slot = sess.target_slot
  /\ sess'.expected_size = sess.expected_size /\ sess'.received_bytes = sess.received_bytes

FreshPing == host.stage = 0 /\ pc' = "ota" /\ image' = image /\ SessionKept

FreshBegin ==
  /\ host.stage = 1 /\ pc' = "ota"
  /\ \/ /\ flash_slot_erase(host.slot)
        /\ sess'.state = "RECEIVING" /\ sess'.target_slot = host.slot
        /\ sess'.expected_size = host.image.size /\ sess'.received_bytes = 0
     \/ Frame(host) \in refused' /\ SessionKept

FreshChunk(u) ==
  /\ host.stage = u + 2 /\ u < host.image.size /\ pc' = "ota"
  /\ \/ /\ sess.state = "RECEIVING" /\ flash_write_bytes(host.slot, u, host.image)
        /\ sess'.state = "RECEIVING" /\ sess'.target_slot = sess.target_slot
        /\ sess'.expected_size = sess.expected_size
        /\ sess'.received_bytes = sess.received_bytes + 1
     \/ /\ Frame(host) \in refused' /\ SessionKept
        /\ image' = image \/ (sess.state = "RECEIVING" /\ TornWrite(host.slot, u))

FreshEnd ==
  /\ host.stage = LastStage(host) /\ image' = image
  /\ \/ pc' = "halt"
     \/ /\ pc' = "target_erase" /\ SessionKept
        /\ sess.state = "RECEIVING" /\ verify_slot(image[host.slot])

LEMMA FreshDoes ==
  ASSUME TransferInv, SessionFits, NEW r, Fresh(r)
  PROVE  /\ refused \subseteq refused'
         /\ FreshPing \/ FreshBegin \/ FreshEnd \/ \E u \in Units : FreshChunk(u)
<1> DEFINE f == Frame(host)
<1>1. /\ pc = "ota" /\ sess \in Sessions /\ host \in HostTools /\ host.stage \in 0 .. LastStage(host)
      /\ host.stage \in Nat /\ host.slot \in Slots /\ host.image \in Images
      /\ LastStage(host) = host.image.size + 2
  BY DEF TransferInv, ReceiverTyped, OtaSteps, HostTyped, Fresh, HostTools, LastStage
<1>2. /\ f \in Frames /\ host.image.size \in 1 .. SlotUnits
      /\ host.stage = 0 => f.type = "PING"
      /\ host.stage = 1 => f.type = "OTA_BEGIN" /\ f.slot = host.slot /\ f.size = host.image.size
      /\ host.stage \in 2 .. LastStage(host) - 1 =>
           f.type = "OTA_CHUNK" /\ f.offset = host.stage - 2 /\ f.data = host.image
      /\ host.stage = LastStage(host) => f.type = "OTA_END"
  BY <1>1, FrameOf
<1> HIDE DEF f
<1>3. /\ ~IsDuplicate(f) /\ on_frame(f, r)
      /\ refused \subseteq refused' /\ (r = Reply(f, "NACK") => f \in refused')
  BY DEF Fresh, f
<1>4. \A s \in Sessions : /\ Seen(f, s).state = s.state /\ Seen(f, s).target_slot = s.target_slot
                          /\ Seen(f, s).expected_size = s.expected_size
                          /\ Seen(f, s).received_bytes = s.received_bytes
  BY DEF Seen, Sessions
<1>5. Refuse(f, r) => Frame(host) \in refused' /\ SessionKept /\ pc' = "ota"
  BY <1>1, <1>3, <1>4 DEF Refuse, SessionKept, f
<1>6. sess.state = "RECEIVING" => /\ sess.target_slot = host.slot
                                  /\ sess.expected_size = host.image.size
  BY <1>1 DEF SessionFits, Receives, OtaSteps
<1>7. CASE host.stage = 0
  <2>1. sess' = Seen(f, sess) /\ UNCHANGED flashVars
    BY <1>2, <1>3, <1>7 DEF on_frame
  <2>2. FreshPing
    BY <1>1, <1>4, <1>7, <2>1 DEF FreshPing, SessionKept, flashVars
  <2> QED  BY <1>3, <2>2
<1>8. CASE host.stage = 1
  <2>1. handle_ota_begin(f, r)
    BY <1>2, <1>3, <1>8 DEF on_frame
  <2>2. CASE flash_slot_erase(f.slot) /\ UNCHANGED <<pc, meta, commit>>
             /\ sess' = Seen(f, [sess EXCEPT !.state = "RECEIVING", !.target_slot = f.slot,
                                             !.expected_size = f.size, !.received_bytes = 0])
    <3>1. /\ sess'.state = "RECEIVING" /\ sess'.target_slot = f.slot
          /\ sess'.expected_size = f.size /\ sess'.received_bytes = 0
      BY <1>1, <2>2 DEF Seen, Sessions
    <3>2. FreshBegin
      BY <1>1, <1>2, <1>8, <2>2, <3>1 DEF FreshBegin
    <3> QED  BY <1>3, <3>2
  <2>3. CASE Refuse(f, r)
    BY <1>3, <1>5, <1>8, <2>3 DEF FreshBegin
  <2> QED  BY <2>1, <2>2, <2>3 DEF handle_ota_begin
<1>9. CASE host.stage \in 2 .. LastStage(host) - 1
  <2> DEFINE u == host.stage - 2
  <2>1. handle_ota_chunk(f, r) /\ f.offset = u /\ f.data = host.image
    BY <1>2, <1>3, <1>9 DEF on_frame
  <2>2. u \in Units /\ host.stage = u + 2 /\ u < host.image.size
    BY <1>1, <1>2, <1>9, UnitsAssumption DEF Units
  <2> HIDE DEF u
  <2>3. CASE ChunkAccepted(f) /\ flash_write_bytes(sess.target_slot, f.offset, f.data)
             /\ sess' = Seen(f, [sess EXCEPT !.received_bytes = @ + 1])
             /\ UNCHANGED <<pc, meta, commit>>
    <3>1. /\ sess'.state = sess.state /\ sess'.target_slot = sess.target_slot
          /\ sess'.expected_size = sess.expected_size
          /\ sess'.received_bytes = sess.received_bytes + 1
      BY <1>1, <2>3 DEF Seen, Sessions
    <3>2. sess.state = "RECEIVING"
      BY <2>3 DEF ChunkAccepted
    <3>3. FreshChunk(u)
      BY <1>1, <1>6, <2>1, <2>2, <2>3, <3>1, <3>2 DEF FreshChunk
    <3> QED  BY <1>3, <2>2, <3>3
  <2>4. CASE Refuse(f, r) /\ (image' = image \/ (ChunkAccepted(f) /\ TornWrite(sess.target_slot, f.offset)))
    <3>1. image' = image \/ (sess.state = "RECEIVING" /\ TornWrite(host.slot, u))
      BY <1>6, <2>1, <2>4 DEF ChunkAccepted
    <3>2. FreshChunk(u)
      BY <1>5, <2>2, <2>4, <3>1 DEF FreshChunk
    <3> QED  BY <1>3, <2>2, <3>2
  <2> QED  BY <2>1, <2>3, <2>4 DEF handle_ota_chunk
<1>10. CASE host.stage = LastStage(host)
  <2>1. handle_ota_end(f, r)
    BY <1>2, <1>3, <1>10 DEF on_frame
  <2>2. CASE \E st : HaltWith(f, r, st)
    BY <1>3, <1>10, <2>2 DEF HaltWith, FreshEnd
  <2>3. CASE /\ sess.state = "RECEIVING" /\ verify_slot(image[sess.target_slot])
             /\ pc' = "target_erase" /\ sess' = Seen(f, sess) /\ UNCHANGED <<image, meta>>
    BY <1>1, <1>3, <1>4, <1>6, <1>10, <2>3 DEF FreshEnd, SessionKept
  <2> QED  BY <2>1, <2>2, <2>3 DEF handle_ota_end
<1> QED
  BY <1>1, <1>2, <1>7, <1>8, <1>9, <1>10

-----------------------------------------------------------------------------
(* What is in flash.                                                       *)

BeginRefused == \E f \in refused : f.type = "OTA_BEGIN"
ChunkRefused(u) == \E f \in refused : f.type = "OTA_CHUNK" /\ f.offset = u

\* What a unit of the target holds before and after its chunk is handled.
WrittenUnit(u) ==
  /\ Done(u + 2) => image[host.slot][u] = host.image \/ BeginRefused \/ ChunkRefused(u)
  /\ Done(1) /\ ~Done(u + 2) => image[host.slot][u] = Erased \/ BeginRefused

Written == \A u \in Units \cap Sectors[host.slot] : u < host.image.size => WrittenUnit(u)

\* received_bytes counts chunks that were handled and whose unit is not erased.
Covered == {u \in Units : Done(u + 2) /\ image[host.slot][u] # Erased}
Counted == pc = "ota" /\ sess.state = "RECEIVING" => sess.received_bytes <= Cardinality(Covered)

FlashInv == TransferInv /\ Line /\ SessionFits /\ Written /\ Counted

LEMMA DoneFresh ==
  ASSUME TransferInv, NEW r, Fresh(r), NEW n \in Nat
  PROVE  (Done(n) <=> n < host.stage) /\ (Done(n)' <=> n <= host.stage)
<1>1. host.stage \in Nat
  BY Exchanges
<1> QED  BY <1>1 DEF Fresh, Done

LEMMA DoneLater ==
  ASSUME Line, TransferInv, DeviceSwap \/ DeviceReset
  PROVE  /\ \A n \in Nat : Done(n)' <=> Done(n)
         /\ host' = host /\ refused' = refused /\ image' = image /\ pc' # "ota"
         /\ pc' \in OtaSteps => pc \in OtaSteps /\ pc # "ota" /\ sess' = sess
<1>1. CASE DeviceSwap
  <2>1. PICK r \in Replies \cup {None} : SwapTarget(r) \/ SwapPrevious(r)
    BY <1>1 DEF DeviceSwap
  <2>2. image' = image /\ pc \in SwapCommits /\ pc' # "ota"
    BY <2>1, SwapTypes DEF TransferInv
  <2>3. pc' # "halt" => sess' = sess
    BY <2>1 DEF SwapTarget, SwapPrevious
  <2>4. "halt" \notin OtaSteps /\ pc # "ota" /\ pc \in OtaSteps
    BY <2>2 DEF OtaSteps, SwapCommits
  <2>5. host' = host /\ refused' = refused
    BY <1>1 DEF DeviceSwap
  <2> QED  BY <2>2, <2>3, <2>4, <2>5 DEF Done, Arrived
<1>2. CASE DeviceReset
  <2>1. pc = "done" /\ pc' = "boot" /\ image' = image /\ host' = host /\ refused' = refused
    BY <1>2 DEF DeviceReset, OtaReset
  <2> QED  BY <2>1 DEF Done, Arrived, OtaSteps
<1> QED  BY <1>1, <1>2

LEMMA SessionFitsStep ==
  ASSUME TransferInv, Line, SessionFits, LineKept
  PROVE  SessionFits'
<1>1. CASE Quiet
  BY <1>1 DEF Quiet, LineKept, SessionFits, Receives, otaVars, flashVars
<1>2. CASE \E r : Fresh(r)
  <2>1. PICK r : Fresh(r)
    BY <1>2
  <2>2. host' = host /\ pc = "ota" /\ pc \in OtaSteps
    BY <2>1 DEF Fresh, OtaSteps
  <2>3. (Done(1) <=> 1 < host.stage) /\ (Done(1)' <=> 1 <= host.stage) /\ host.stage \in Nat
    BY <2>1, DoneFresh, Exchanges
  <2>4. sess.state = "RECEIVING" => Done(1) /\ sess.target_slot = host.slot
                                    /\ sess.expected_size = host.image.size
    BY <2>2 DEF SessionFits, Receives
  <2>5. CASE FreshPing
    BY <2>2, <2>3, <2>4, <2>5 DEF FreshPing, SessionKept, SessionFits, Receives
  <2>6. CASE FreshBegin
    BY <2>2, <2>3, <2>4, <2>6 DEF FreshBegin, SessionKept, SessionFits, Receives
  <2>7. CASE \E u \in Units : FreshChunk(u)
    BY <2>2, <2>3, <2>4, <2>7 DEF FreshChunk, SessionKept, SessionFits, Receives
  <2>8. CASE FreshEnd
    <3>1. "halt" \notin OtaSteps
      BY DEF OtaSteps
    <3> QED  BY <2>2, <2>3, <2>4, <2>8, <3>1 DEF FreshEnd, SessionKept, SessionFits, Receives
  <2> QED  BY <2>1, <2>5, <2>6, <2>7, <2>8, FreshDoes
<1>3. CASE DeviceSwap \/ DeviceReset
  BY <1>3, DoneLater DEF SessionFits, Receives
<1> QED  BY <1>1, <1>2, <1>3 DEF LineKept, Steps

LEMMA WrittenStep ==
  ASSUME FlashInv, LineKept
  PROVE  Written'
<1> SUFFICES ASSUME NEW u \in Units \cap Sectors[host'.slot], u < host'.image.size
             PROVE  WrittenUnit(u)'
  BY DEF Written
<1>1. /\ u \in Units \cap Sectors[host.slot] /\ u < host.image.size
      /\ host'.slot = host.slot /\ host'.image = host.image /\ u \in Nat /\ u + 2 \in Nat
  BY UnitsAssumption DEF LineKept, Units
<1>2. WrittenUnit(u) /\ TransferInv /\ Line /\ SessionFits
  BY <1>1 DEF Written, FlashInv
<1>3. CASE \/ Quiet
           \/ (image' = image /\ refused' = refused /\ \A n \in Nat : Done(n)' <=> Done(n))
  BY <1>1, <1>2, <1>3 DEF Quiet, WrittenUnit, BeginRefused, ChunkRefused, otaVars, flashVars
<1>4. CASE \E r : Fresh(r)
  <2>1. PICK r : Fresh(r)
    BY <1>4
  <2>2. /\ Done(u + 2) <=> u + 2 < host.stage
        /\ Done(u + 2)' <=> u + 2 <= host.stage
        /\ Done(1) <=> 1 < host.stage
        /\ Done(1)' <=> 1 <= host.stage
    BY <1>1, <1>2, <2>1, DoneFresh
  <2>3. refused \subseteq refused'
    BY <1>2, <2>1, FreshDoes
  <2>4. (BeginRefused => BeginRefused') /\ (ChunkRefused(u) => ChunkRefused(u)')
    BY <2>3 DEF BeginRefused, ChunkRefused
  <2>5. /\ image \in [Slots -> Content] /\ host.slot \in Slots /\ host \in HostTools
        /\ host.stage \in Nat /\ host.image \in Images /\ host.stage \in 0 .. LastStage(host)
        /\ LastStage(host) = host.image.size + 2 /\ host.image.size \in Nat
    BY <1>2, ImagesAssumption, UnitsAssumption
       DEF TransferInv, ReceiverTyped, HostTyped, HostTools, LastStage
  <2>6. CASE FreshPing
    BY <1>1, <1>2, <2>2, <2>4, <2>5, <2>6 DEF FreshPing, WrittenUnit
  <2>7. CASE FreshBegin
    <3>1. CASE flash_slot_erase(host.slot)
      <4>1. image'[host.slot][u] = Erased
        BY <1>1, <2>5, <3>1 DEF flash_slot_erase, Content
      <4> QED  BY <1>1, <2>2, <2>5, <2>7, <4>1 DEF FreshBegin, WrittenUnit
    <3>2. CASE Frame(host) \in refused'
      <4>1. BeginRefused'
        BY <2>5, <2>7, <3>2, FrameOf DEF FreshBegin, BeginRefused
      <4> QED  BY <4>1 DEF WrittenUnit
    <3> QED  BY <2>7, <3>1, <3>2 DEF FreshBegin
  <2>8. ASSUME NEW v \in Units, FreshChunk(v)  PROVE WrittenUnit(u)'
    <3>1. host.stage = v + 2 /\ v \in Nat /\ v + 2 \in 2 .. LastStage(host) - 1
      BY <2>5, <2>8, UnitsAssumption DEF FreshChunk, Units
    <3>2. CASE v # u
      <4>1. image'[host.slot][u] = image[host.slot][u]
        BY <1>1, <2>5, <2>8, <3>2 DEF FreshChunk, flash_write_bytes, TornWrite, Content
      <4> QED  BY <1>1, <1>2, <2>2, <2>4, <3>1, <3>2, <4>1 DEF WrittenUnit
    <3>3. CASE v = u /\ flash_write_bytes(host.slot, u, host.image)
      <4>1. image[host.slot][u] = Erased \/ BeginRefused
        BY <1>2, <2>2, <3>1, <3>3 DEF WrittenUnit
      <4>2. image[host.slot][u] = Erased => image'[host.slot][u] = host.image
        BY <1>1, <2>5, <3>3 DEF flash_write_bytes, Content
      <4> QED  BY <1>1, <2>2, <2>4, <3>1, <3>3, <4>1, <4>2 DEF WrittenUnit
    <3>4. CASE v = u /\ Frame(host) \in refused'
      <4>1. ChunkRefused(u)'
        BY <2>5, <3>1, <3>4, FrameOf DEF ChunkRefused
      <4> QED  BY <2>2, <3>1, <3>4, <4>1 DEF WrittenUnit
    <3> QED  BY <2>8, <3>2, <3>3, <3>4 DEF FreshChunk
  <2>9. CASE FreshEnd
    BY <1>1, <1>2, <2>2, <2>4, <2>5, <2>9 DEF FreshEnd, WrittenUnit
  <2> QED  BY <1>2, <2>1, <2>6, <2>7, <2>8, <2>9, FreshDoes
<1>5. CASE DeviceSwap \/ DeviceReset
  BY <1>2, <1>3, <1>5, DoneLater
<1> QED  BY <1>3, <1>4, <1>5 DEF LineKept, Steps

LEMMA CoveredFinite ==
  /\ IsFiniteSet(Covered) /\ Cardinality(Covered) \in Nat
  /\ \A S \in SUBSET Units : IsFiniteSet(S) /\ Cardinality(S) \in Nat
<1>1. IsFiniteSet(Units)
  BY FS_Interval, UnitsAssumption DEF Units
<1>2. \A S \in SUBSET Units : IsFiniteSet(S) /\ Cardinality(S) \in Nat
  BY <1>1, FS_Subset, FS_CardinalityType
<1>3. Covered \in SUBSET Units
  BY DEF Covered
<1> QED  BY <1>2, <1>3

LEMMA CoveredGrows ==
  ASSUME NEW S \in SUBSET Units, NEW T \in SUBSET Units
  PROVE  /\ S \subseteq T => Cardinality(S) <= Cardinality(T)
         /\ \A u \in Units : u \notin S /\ S \cup {u} \subseteq T =>
              Cardinality(S) + 1 <= Cardinality(T)
<1>1. IsFiniteSet(S) /\ IsFiniteSet(T) /\ Cardinality(S) \in Nat /\ Cardinality(T) \in Nat
  BY CoveredFinite
<1>2. S \subseteq T => Cardinality(S) <= Cardinality(T)
  BY <1>1, FS_Subset
<1>3. ASSUME NEW u \in Units, u \notin S, S \cup {u} \subseteq T
      PROVE  Cardinality(S) + 1 <= Cardinality(T)
  <2>1. Cardinality(S \cup {u}) = Cardinality(S) + 1
    BY <1>1, <1>3, FS_AddElement
  <2>2. Cardinality(S \cup {u}) <= Cardinality(T)
    BY <1>1, <1>3, FS_Subset
  <2> QED  BY <2>1, <2>2
<1> QED  BY <1>2, <1>3

LEMMA CountedStep ==
  ASSUME FlashInv, LineKept
  PROVE  Counted'
<1>1. host'.slot = host.slot /\ TransferInv /\ Line /\ SessionFits /\ Counted
  BY DEF LineKept, FlashInv
<1>2. CASE Quiet
  <2>1. Covered' = Covered
    <3>1. \A u \in Units : u + 2 \in Nat
      BY UnitsAssumption DEF Units
    <3> QED  BY <1>1, <1>2, <3>1 DEF Quiet, Covered, otaVars, flashVars
  <2> QED  BY <1>1, <1>2, <2>1 DEF Quiet, Counted, otaVars, flashVars
<1>3. CASE \E r : Fresh(r)
  <2> SUFFICES ASSUME pc' = "ota", sess'.state = "RECEIVING"
               PROVE  sess'.received_bytes <= Cardinality(Covered')
    BY DEF Counted
  <2>1. PICK r : Fresh(r)
    BY <1>3
  <2>2. \A u \in Units : u \in Nat /\ u + 2 \in Nat
    BY UnitsAssumption DEF Units
  <2>3. \A u \in Units : /\ Done(u + 2) <=> u + 2 < host.stage
                         /\ Done(u + 2)' <=> u + 2 <= host.stage
    BY <1>1, <2>1, <2>2, DoneFresh
  <2>4. /\ image \in [Slots -> Content] /\ host.slot \in Slots /\ host.image \in Images
        /\ host.stage \in Nat /\ sess \in Sessions /\ pc = "ota" /\ host' = host
        /\ sess.received_bytes \in Nat
    BY <1>1, <2>1 DEF Fresh, TransferInv, ReceiverTyped, HostTyped, HostTools, OtaSteps, Sessions
  <2>5. /\ sess.state = "RECEIVING" => 1 < host.stage
        /\ sess.state = "RECEIVING" => sess.received_bytes <= Cardinality(Covered)
    <3>1. Done(1) <=> 1 < host.stage
      BY <1>1, <2>1, DoneFresh
    <3> QED  BY <1>1, <2>4, <3>1 DEF Counted, SessionFits, Receives, OtaSteps
  <2>6. Covered \in SUBSET Units /\ Covered' \in SUBSET Units
        /\ Cardinality(Covered) \in Nat /\ Cardinality(Covered') \in Nat
    <3>1. Covered \in SUBSET Units /\ Covered' \in SUBSET Units
      BY DEF Covered
    <3> QED  BY <3>1, CoveredFinite
  <2>7. CASE FreshPing
    BY <2>4, <2>5, <2>7 DEF FreshPing, SessionKept
  <2>8. CASE FreshBegin
    BY <2>4, <2>5, <2>6, <2>8 DEF FreshBegin, SessionKept
  <2>9. ASSUME NEW v \in Units, FreshChunk(v)
        PROVE  sess'.received_bytes <= Cardinality(Covered')
    <3>1. host.stage = v + 2 /\ sess.state = "RECEIVING"
      BY <2>9 DEF FreshChunk, SessionKept
    <3>2. ASSUME NEW u \in Units, u # v  PROVE image'[host.slot][u] = image[host.slot][u]
      BY <2>4, <2>9, <3>2 DEF FreshChunk, flash_write_bytes, TornWrite, Content
    <3>3. v \notin Covered
      BY <2>2, <2>3, <3>1 DEF Covered
    <3>4. Covered \subseteq Covered'
      <4> SUFFICES ASSUME NEW u \in Covered  PROVE u \in Covered'
        OBVIOUS
      <4>1. u \in Units /\ u # v /\ Done(u + 2) /\ image[host.slot][u] # Erased
        BY <3>3 DEF Covered
      <4>2. Done(u + 2)'
        BY <2>2, <2>3, <2>4, <4>1
      <4>3. image'[host.slot][u] # Erased
        BY <3>2, <4>1
      <4> QED  BY <2>4, <4>1, <4>2, <4>3 DEF Covered
    <3>5. CASE /\ flash_write_bytes(host.slot, v, host.image)
               /\ sess'.received_bytes = sess.received_bytes + 1
      <4>1. image'[host.slot][v] \in {host.image, Garbage}
        BY <2>4, <3>5 DEF flash_write_bytes, Content
      <4>2. image'[host.slot][v] # Erased
        BY <2>4, <4>1, SentinelAssumption
      <4>3. v \in Covered'
        BY <2>2, <2>3, <2>4, <3>1, <4>2 DEF Covered
      <4>4. Cardinality(Covered) + 1 <= Cardinality(Covered')
        BY <2>6, <3>3, <3>4, <4>3, CoveredGrows
      <4> QED  BY <2>4, <2>5, <2>6, <3>1, <3>5, <4>4
    <3>6. CASE SessionKept
      <4>1. Cardinality(Covered) <= Cardinality(Covered')
        BY <2>6, <3>4, CoveredGrows
      <4> QED  BY <2>4, <2>5, <2>6, <3>1, <3>6, <4>1 DEF SessionKept
    <3> QED  BY <2>9, <3>5, <3>6 DEF FreshChunk
  <2>10. CASE FreshEnd
    BY <2>10 DEF FreshEnd
  <2> QED  BY <1>1, <2>1, <2>7, <2>8, <2>9, <2>10, FreshDoes
<1>4. CASE DeviceSwap \/ DeviceReset
  BY <1>1, <1>4, DoneLater DEF Counted
<1> QED  BY <1>2, <1>3, <1>4 DEF LineKept, Steps

LEMMA FlashInvInit == Init => FlashInv
<1> SUFFICES ASSUME Init  PROVE FlashInv
  OBVIOUS
<1>1. TransferInv /\ Line
  BY TransferInvInit, LineInit
<1>2. pc = "ota" /\ sess.state = "AWAIT_BEGIN" /\ host.stage = 0
  BY DEF Init, NewSession
<1>3. SessionFits /\ Counted
  BY <1>2 DEF SessionFits, Receives, Counted
<1>4. \A n \in Nat : Done(n) => n = 0
  <2>1. ~Arrived
    <3>1. sess.last_rx_seq = OldSeq
      BY <1>2 DEF Init, NewSession, OldSeq
    <3> QED  BY <1>1, <1>2, <3>1, Exchanges DEF Arrived
  <2> QED  BY <1>2, <2>1 DEF Done
<1>5. Written
  <2>1. \A u \in Units : u + 2 \in Nat /\ u + 2 # 0
    BY UnitsAssumption DEF Units
  <2> QED  BY <1>4, <2>1 DEF Written, WrittenUnit
<1> QED  BY <1>1, <1>3, <1>5 DEF FlashInv

LEMMA FlashInvStep == FlashInv /\ [TransferNext]_tvars => FlashInv'
<1> SUFFICES ASSUME FlashInv, [TransferNext]_tvars  PROVE FlashInv'
  OBVIOUS
<1>1. TransferInv' /\ LineKept
  BY TransferInvStep, LineStep DEF FlashInv
<1> QED
  BY <1>1, SessionFitsStep, WrittenStep, CountedStep DEF FlashInv, LineKept

\* What received_bytes counts is in flash, however often a chunk is sent.
THEOREM ReceivedIsWritten == TransferSpec => []CountedOnce
<1>1. FlashInv => CountedOnce
  <2> SUFFICES ASSUME FlashInv, pc = "ota", sess.state = "RECEIVING"
               PROVE  sess.received_bytes <= Cardinality({u \in Units : image[sess.target_slot][u] # Erased})
    BY DEF CountedOnce
  <2> DEFINE T == {u \in Units : image[sess.target_slot][u] # Erased}
  <2>1. sess.target_slot = host.slot /\ sess \in Sessions /\ sess.received_bytes \in Nat
    BY DEF FlashInv, SessionFits, Receives, OtaSteps, TransferInv, ReceiverTyped, Sessions
  <2>2. Covered \in SUBSET Units /\ T \in SUBSET Units /\ Covered \subseteq T
    BY <2>1 DEF Covered
  <2>3. /\ Cardinality(Covered) <= Cardinality(T)
        /\ Cardinality(Covered) \in Nat /\ Cardinality(T) \in Nat
    BY <2>2, CoveredGrows, CoveredFinite
  <2>4. sess.received_bytes <= Cardinality(Covered)
    BY DEF FlashInv, Counted
  <2> QED  BY <2>1, <2>3, <2>4
<1> QED
  BY <1>1, FlashInvInit, FlashInvStep, PTL DEF TransferSpec

\* A chunk the host takes for acknowledged is in the slot, unless the device
\* refused it or the BEGIN.
THEOREM AcknowledgedIsWritten == TransferSpec => []AckedIsWritten
<1>1. FlashInv => AckedIsWritten
  <2> SUFFICES ASSUME FlashInv, NEW u \in Units \cap Sectors[host.slot],
                      u < host.image.size, Acknowledged(u)
               PROVE  \/ image[host.slot][u] = host.image
                      \/ \E f \in refused : f.type = "OTA_BEGIN" \/ (f.type = "OTA_CHUNK" /\ f.offset = u)
    BY DEF AckedIsWritten
  <2>1. Done(u + 2)
    <3>1. host.stage \in Nat /\ u + 2 \in Nat
      BY UnitsAssumption, Exchanges DEF FlashInv, Units
    <3> QED  BY <3>1 DEF Acknowledged, Done
  <2>2. WrittenUnit(u)
    BY DEF FlashInv, Written
  <2> QED  BY <2>1, <2>2 DEF WrittenUnit, BeginRefused, ChunkRefused
<1> QED
  BY <1>1, FlashInvInit, FlashInvStep, PTL DEF TransferSpec

-----------------------------------------------------------------------------
(* What ok means.                                                          *)

\* The slot holds the host's image, and its metadata wins over the other's.
Whole == \A u \in Units : u < host.image.size => image[host.slot][u] = host.image
Wins ==
  /\ meta[host.slot] # NoMeta /\ meta[host.slot].active = 1
  /\ meta[Other(host.slot)] # NoMeta =>
       \/ meta[Other(host.slot)].active = 0
       \/ meta[Other(host.slot)].monotonic_counter < meta[host.slot].monotonic_counter

\* The header's place holds this image or nothing that parses, so that what
\* verifies at OTA_END is this image; the counter computed for it is above
\* every stored one, so that its slot wins as soon as its metadata is there.
SwapInv ==
  /\ Protected
  /\ pc = "ota" /\ sess.state = "RECEIVING" =>
       image[host.slot][0] \in {Erased, Garbage, host.image}
  /\ pc \in Receiving => \A s \in Slots : meta[s] # NoMeta =>
       meta[s].monotonic_counter <= sess.max_seen_counter
  /\ pc \in {"target_erase", "target_program"} =>
       commit.md.active = 1 /\ commit.md.monotonic_counter > sess.max_seen_counter
  /\ pc \in {"prev_erase", "prev_program"} =>
       commit.slot = Other(host.slot) /\ commit.md.active = 0
  /\ pc \in SwapCommits \cup {"done", "boot"} => Whole
  /\ pc \in {"prev_erase", "prev_program", "done", "boot"} => Wins

SaysOk(r) == r.type = "STATUS" /\ r.status = "ok"
OkComes == host.result = "ok" \/ \E i \in 1 .. Len(toHost) : SaysOk(toHost[i])
OkInv == OkComes => pc \in {"done", "boot"}

LEMMA SwapInvInit == Init => SwapInv
<1> SUFFICES ASSUME Init  PROVE SwapInv
  OBVIOUS
<1>1. pc = "ota" /\ sess.state = "AWAIT_BEGIN" /\ sess.prev_active = scan_active_slot
      /\ sess.max_seen_counter = scan_max_monotonic
  BY DEF Init, NewSession
<1>2. meta \in [Slots -> Metadata \cup {NoMeta}]
  BY TransferInvInit DEF TransferInv, ReceiverTyped
<1>3. \A s \in Slots : meta[s] # NoMeta => meta[s].monotonic_counter <= scan_max_monotonic
  BY <1>2, Floor DEF scan_max_monotonic, Slots
<1>4. Protected
  BY <1>1 DEF Protected, OtaSteps
<1> QED  BY <1>1, <1>3, <1>4 DEF SwapInv, SwapCommits

LEMMA SwapInvFresh ==
  ASSUME VersionsBelowTop, HeadersErased, FlashInv, SwapInv, NEW r, Fresh(r)
  PROVE  SwapInv'
<1>1. /\ TransferInv /\ ReceiverTyped /\ SessionFits /\ Protected
      /\ pc = "ota" /\ pc \in OtaSteps /\ host' = host /\ on_frame(Frame(host), r) /\ Frame(host) \in Frames
  BY Exchanges DEF FlashInv, TransferInv, SwapInv, Fresh, OtaSteps
<1>2. /\ image \in [Slots -> Content] /\ host.slot \in Slots /\ host.image \in Images
      /\ sess \in Sessions /\ host.stage \in Nat /\ 0 \in Units /\ 0 \in Sectors[host.slot]
  BY <1>1, UnitsAssumption
     DEF TransferInv, ReceiverTyped, HostTyped, HostTools, Units, HeadersErased
<1>3. Protected' /\ meta' = meta /\ pc' \in {"ota", "halt", "target_erase"}
      /\ (pc' # "halt" => sess'.max_seen_counter = sess.max_seen_counter)
  BY <1>1, FrameKeepsProtected, FrameProtects, FrameTypes
<1>4. pc' \in Receiving => \A s \in Slots : meta'[s] # NoMeta =>
        meta'[s].monotonic_counter <= sess'.max_seen_counter
  BY <1>1, <1>3 DEF SwapInv, Receiving
<1>5. pc' = "target_erase" =>
        commit'.md.active = 1 /\ commit'.md.monotonic_counter > sess'.max_seen_counter
  BY <1>1, <1>3, CounterRises
<1>6. sess.state = "RECEIVING" => /\ image[host.slot][0] \in {Erased, Garbage, host.image}
                                  /\ 1 < host.stage
  BY <1>1, <1>2, DoneFresh DEF SwapInv, SessionFits, Receives
<1>7. pc' = "ota" /\ sess'.state = "RECEIVING" =>
        image'[host.slot][0] \in {Erased, Garbage, host.image}
  <2>1. CASE FreshPing
    BY <1>6, <2>1 DEF FreshPing, SessionKept
  <2>2. CASE FreshBegin
    <3>1. CASE flash_slot_erase(host.slot)
      BY <1>2, <3>1 DEF flash_slot_erase, Content
    <3> QED  BY <1>2, <1>6, <2>2, <3>1 DEF FreshBegin, SessionKept
  <2>3. ASSUME NEW u \in Units, FreshChunk(u)
        PROVE  sess'.state = "RECEIVING" => image'[host.slot][0] \in {Erased, Garbage, host.image}
    BY <1>2, <1>6, <2>3 DEF FreshChunk, SessionKept, flash_write_bytes, TornWrite, Content
  <2>4. CASE FreshEnd
    BY <2>4 DEF FreshEnd
  <2> QED  BY <1>1, <2>1, <2>2, <2>3, <2>4, FreshDoes
<1>8. pc' = "target_erase" => Whole'
  <2> SUFFICES ASSUME pc' = "target_erase"  PROVE Whole'
    OBVIOUS
  <2>1. FreshEnd
    BY <1>1, FreshDoes DEF FreshPing, FreshBegin, FreshChunk
  <2>2. verify_slot(image[host.slot]) /\ sess.state = "RECEIVING" /\ image' = image
    BY <2>1 DEF FreshEnd
  <2>3. image[host.slot][0] = host.image
    BY <1>6, <2>2, SentinelAssumption DEF verify_slot, img_header_parse
  <2> QED  BY <1>1, <2>2, <2>3 DEF Whole, verify_slot
<1> QED
  BY <1>1, <1>3, <1>4, <1>5, <1>7, <1>8 DEF SwapInv, SwapCommits

LEMMA SwapInvSwap ==
  ASSUME FlashInv, SwapInv, DeviceSwap
  PROVE  SwapInv'
<1>1. PICK r \in Replies \cup {None} : SwapTarget(r) \/ SwapPrevious(r)
  BY DEF DeviceSwap
<1>2. ReceiverTyped /\ Protected /\ TransferInv /\ SessionFits /\ host' = host
  BY DEF FlashInv, SwapInv, TransferInv, DeviceSwap
<1>3. pc \in SwapCommits /\ ReceiverTyped' /\ Protected' /\ image' = image
  BY <1>1, <1>2, SwapTypes, SwapKeepsProtected
<1>4. /\ meta \in [Slots -> Metadata \cup {NoMeta}] /\ host.slot \in Slots
      /\ commit \in Commits /\ sess \in Sessions
      /\ sess.target_slot = host.slot /\ sess.prev_active = Other(host.slot)
      /\ Other(host.slot) \in Slots /\ Other(host.slot) # host.slot
      /\ \A s \in Slots : s = host.slot \/ s = Other(host.slot)
  <2>1. host.slot \in Slots /\ Receives
    BY <1>2, <1>3 DEF TransferInv, HostTyped, HostTools, Receives, SwapCommits, OtaSteps
  <2>2. sess.target_slot = Other(sess.prev_active) /\ sess.prev_active \in Slots /\ sess \in Sessions
    BY <1>1, <1>2, SwapDoes
  <2> QED  BY <1>2, <1>3, <2>1, <2>2 DEF ReceiverTyped, SessionFits, Other, Slots
<1>5. Whole /\ Whole'
  BY <1>2, <1>3 DEF SwapInv, Whole
<1>6. CASE pc \in {"target_erase", "target_program"}
  <2>1. /\ \A s \in Slots : meta[s] # NoMeta => meta[s].monotonic_counter <= sess.max_seen_counter
        /\ commit.md.active = 1 /\ commit.md.monotonic_counter > sess.max_seen_counter
        /\ commit.slot = host.slot
    BY <1>4, <1>6 DEF SwapInv, Receiving, Protected
  <2>2. CASE pc' \in {"target_program", "halt"}
    <3>1. \A s \in Slots : meta'[s] \in {meta[s], NoMeta}
      BY <1>1, <1>2, <1>6, <2>2, SwapDoes
    <3>2. pc' = "target_program" => commit' = commit /\ sess' = sess
      BY <1>1, <1>2, SwapDoes
    <3> QED  BY <1>3, <1>5, <2>1, <2>2, <3>1, <3>2 DEF SwapInv, Receiving, SwapCommits
  <2>3. CASE pc' = "prev_erase"
    <3>1. /\ meta' = [meta EXCEPT ![commit.slot] = commit.md]
          /\ commit' = [slot |-> sess.prev_active, md |-> PrevMeta]
      BY <1>1, <1>2, <2>3, SwapDoes
    <3>2. /\ meta'[host.slot] = commit.md /\ meta'[Other(host.slot)] = meta[Other(host.slot)]
          /\ commit.md # NoMeta /\ commit.md.monotonic_counter \in U32
          /\ sess.max_seen_counter \in U32
      BY <1>4, <2>1, <3>1, SentinelAssumption DEF Commits, Metadata, Sessions
    <3>3. commit'.md.active = 0 /\ commit'.slot = Other(host.slot)
      BY <1>4, <3>1 DEF PrevMeta
    <3>4. meta'[Other(host.slot)] # NoMeta =>
            meta'[Other(host.slot)].monotonic_counter < commit.md.monotonic_counter
      <4> SUFFICES ASSUME meta[Other(host.slot)] # NoMeta
                   PROVE  meta[Other(host.slot)].monotonic_counter < commit.md.monotonic_counter
        BY <3>2
      <4>1. meta[Other(host.slot)].monotonic_counter \in U32
        BY <1>4 DEF Metadata
      <4>2. meta[Other(host.slot)].monotonic_counter <= sess.max_seen_counter
        BY <1>4, <2>1
      <4> QED  BY <2>1, <3>2, <4>1, <4>2, U32Assumption DEF U32
    <3>5. Wins'
      BY <1>2, <2>1, <3>2, <3>4 DEF Wins
    <3> QED  BY <1>2, <1>3, <1>5, <2>3, <3>3, <3>5 DEF SwapInv, Receiving, SwapCommits
  <2> QED  BY <1>1, <1>2, <1>6, <2>2, <2>3, SwapDoes
<1>7. CASE pc \in {"prev_erase", "prev_program"}
  <2>1. /\ commit.slot = Other(host.slot) /\ commit.md.active = 0 /\ Wins
        /\ pc' \in {"prev_program", "done"}
    BY <1>1, <1>2, <1>7, SwapDoes DEF SwapInv
  <2>2. meta'[host.slot] = meta[host.slot]
        /\ meta'[Other(host.slot)] \in {meta[Other(host.slot)], NoMeta, commit.md}
    BY <1>1, <1>4, <1>7, <2>1 DEF SwapTarget, SwapPrevious, CommitErase, CommitProgram
  <2>3. Wins'
    BY <1>2, <2>1, <2>2 DEF Wins
  <2>4. pc' = "prev_program" => commit' = commit
    BY <1>1, <1>2, SwapDoes
  <2> QED  BY <1>2, <1>3, <1>5, <2>1, <2>3, <2>4 DEF SwapInv, Receiving, SwapCommits
<1> QED  BY <1>3, <1>6, <1>7 DEF SwapCommits

LEMMA SwapInvStep ==
  ASSUME VersionsBelowTop, HeadersErased, FlashInv, SwapInv, LineKept
  PROVE  SwapInv'
<1>1. CASE Quiet
  BY <1>1 DEF Quiet, LineKept, SwapInv, Whole, Wins, Protected, scan_active_slot, otaVars, flashVars
<1>2. CASE DeviceReset
  <2>1. pc = "done" /\ pc' = "boot" /\ UNCHANGED <<image, meta, commit, host>>
    BY <1>2 DEF DeviceReset, OtaReset
  <2> QED  BY <2>1 DEF SwapInv, Whole, Wins, Protected, Receiving, OtaSteps, SwapCommits
<1> QED  BY <1>1, <1>2, SwapInvFresh, SwapInvSwap DEF LineKept, Steps

\* The counter the image is stored under, from those stored before the run.
NewTop == IF host.image.version > floorBefore THEN host.image.version ELSE floorBefore + 1

\* The session remembers the highest counter stored before the run; OTA_END
\* checked the image, the swap stores it under NewTop with no failed boots, and
\* the other slot's counter stays below, also when its metadata is rewritten.
Stored ==
  /\ meta[host.slot].monotonic_counter = NewTop /\ meta[host.slot].fail_count = 0
  /\ meta[Other(host.slot)] # NoMeta =>
       meta[Other(host.slot)].monotonic_counter <= floorBefore
FloorInv ==
  /\ floorBefore \in U32
  /\ pc \in Receiving => sess.max_seen_counter = floorBefore
  /\ pc \in {"target_erase", "target_program"} =>
       commit.md.monotonic_counter = NewTop /\ commit.md.fail_count = 0
  /\ pc \in {"prev_erase", "prev_program"} => commit.md.monotonic_counter <= floorBefore
  /\ pc \in SwapCommits \cup {"done", "boot"} =>
       verify_slot(image[host.slot]) /\ image[host.slot][0] = host.image
  /\ pc \in {"prev_erase", "prev_program", "done", "boot"} => Stored

LEMMA FloorInvInit == Init => FloorInv
<1> SUFFICES ASSUME Init  PROVE FloorInv
  OBVIOUS
<1>1. pc = "ota" /\ sess.max_seen_counter = floorBefore /\ floorBefore = scan_max_monotonic
  BY DEF Init, NewSession
<1>2. meta \in [Slots -> Metadata \cup {NoMeta}]
  BY TransferInvInit DEF TransferInv, ReceiverTyped
<1>3. floorBefore \in U32
  BY <1>1, <1>2, Floor DEF scan_max_monotonic, Slots
<1> QED  BY <1>1, <1>3 DEF FloorInv, SwapCommits

LEMMA FloorInvFresh ==
  ASSUME VersionsBelowTop, HeadersErased, FlashInv, SwapInv, FloorInv,
         NEW r, Fresh(r), floorBefore' = floorBefore
  PROVE  FloorInv'
<1>1. /\ TransferInv /\ ReceiverTyped /\ SessionFits /\ Protected
      /\ pc = "ota" /\ pc \in OtaSteps /\ host' = host /\ on_frame(Frame(host), r) /\ Frame(host) \in Frames
  BY Exchanges DEF FlashInv, TransferInv, SwapInv, Fresh, OtaSteps
<1>2. /\ image \in [Slots -> Content] /\ host.slot \in Slots /\ host.image \in Images
      /\ floorBefore \in U32 /\ sess.max_seen_counter = floorBefore
  BY <1>1 DEF TransferInv, ReceiverTyped, HostTyped, HostTools, FloorInv, Receiving
<1>3. pc' \in {"ota", "halt", "target_erase"}
      /\ (pc' # "halt" => sess'.max_seen_counter = sess.max_seen_counter)
  BY <1>1, FrameProtects, FrameTypes
<1>4. CASE pc' # "target_erase"
  BY <1>1, <1>2, <1>3, <1>4 DEF FloorInv, Receiving, SwapCommits
<1>5. CASE pc' = "target_erase"
  <2>1. FreshEnd
    BY <1>1, <1>5, FreshDoes DEF FreshPing, FreshBegin, FreshChunk
  <2>2. verify_slot(image[host.slot]) /\ sess.state = "RECEIVING" /\ image' = image
    BY <1>5, <2>1 DEF FreshEnd
  <2>3. sess.target_slot = host.slot /\ image[host.slot][0] = host.image
    BY <1>1, <2>2, SentinelAssumption DEF verify_slot, img_header_parse, SwapInv, SessionFits, Receives
  <2>4. /\ commit'.md = TargetMeta(host.image.version)
        /\ img_header_meets_floor(host.image.version, floorBefore)
    BY <1>1, <1>2, <1>5, <2>3, FrameProtects
  <2>5. TargetMeta(host.image.version).monotonic_counter = NewTop
    <3>1. /\ host.image.version \in Nat /\ floorBefore \in Nat /\ U32Max \in Nat
          /\ floorBefore <= host.image.version /\ host.image.version < U32Max
      BY <1>2, <2>4, ImagesAssumption, U32Assumption
         DEF U32, img_header_meets_floor, VersionsBelowTop
    <3>2. (floorBefore + 1) % (U32Max + 1) = floorBefore + 1
      BY <3>1
    <3>3. NewCounter(host.image.version) = img_compute_new_floor(floorBefore + 1, host.image.version)
      BY <1>2, <3>2 DEF NewCounter
    <3>4. img_compute_new_floor(floorBefore + 1, host.image.version) = NewTop
      BY <3>1 DEF img_compute_new_floor, NewTop
    <3> QED  BY <3>3, <3>4 DEF TargetMeta
  <2>6. commit'.md.monotonic_counter = NewTop /\ commit'.md.fail_count = 0
    BY <2>4, <2>5 DEF TargetMeta
  <2>7. NewTop' = NewTop
    BY <1>1 DEF NewTop
  <2> QED  BY <1>1, <1>2, <1>3, <1>5, <2>2, <2>3, <2>6, <2>7 DEF FloorInv, Receiving, SwapCommits
<1> QED  BY <1>4, <1>5

LEMMA FloorInvSwap ==
  ASSUME FlashInv, SwapInv, FloorInv, DeviceSwap, floorBefore' = floorBefore
  PROVE  FloorInv'
<1>1. PICK r \in Replies \cup {None} : SwapTarget(r) \/ SwapPrevious(r)
  BY DEF DeviceSwap
<1>2. ReceiverTyped /\ Protected /\ TransferInv /\ SessionFits /\ host' = host
  BY DEF FlashInv, SwapInv, TransferInv, DeviceSwap
<1>3. pc \in SwapCommits /\ image' = image
  BY <1>1, <1>2, SwapTypes
<1>4. /\ meta \in [Slots -> Metadata \cup {NoMeta}] /\ host.slot \in Slots
      /\ commit \in Commits /\ sess.prev_active = Other(host.slot)
      /\ Other(host.slot) \in Slots /\ Other(host.slot) # host.slot
      /\ \A s \in Slots : s = host.slot \/ s = Other(host.slot)
  <2>1. host.slot \in Slots /\ Receives
    BY <1>2, <1>3 DEF TransferInv, HostTyped, HostTools, Receives, SwapCommits, OtaSteps
  <2>2. sess.target_slot = Other(sess.prev_active) /\ sess.prev_active \in Slots
    BY <1>1, <1>2, SwapDoes
  <2> QED  BY <1>2, <1>3, <2>1, <2>2 DEF ReceiverTyped, SessionFits, Other, Slots
<1>5. /\ floorBefore \in U32 /\ NewTop' = NewTop
      /\ verify_slot(image'[host'.slot]) /\ image'[host'.slot][0] = host'.image
  BY <1>2, <1>3 DEF FloorInv, NewTop
<1>6. CASE pc \in {"target_erase", "target_program"}
  <2>1. /\ \A s \in Slots : meta[s] # NoMeta => meta[s].monotonic_counter <= floorBefore
        /\ commit.md.monotonic_counter = NewTop /\ commit.md.fail_count = 0
        /\ commit.slot = host.slot /\ sess.max_seen_counter = floorBefore
    BY <1>4, <1>6, <1>2, <1>3 DEF SwapInv, FloorInv, Receiving, Protected, SessionFits, Receives, OtaSteps
  <2>2. CASE pc' \in {"target_program", "halt"}
    <3>1. pc' = "target_program" => commit' = commit /\ sess' = sess
      BY <1>1, <1>2, SwapDoes
    <3> QED  BY <1>5, <2>1, <2>2, <3>1 DEF FloorInv, Receiving, SwapCommits
  <2>3. CASE pc' = "prev_erase"
    <3>1. /\ meta' = [meta EXCEPT ![commit.slot] = commit.md]
          /\ commit' = [slot |-> sess.prev_active, md |-> PrevMeta]
      BY <1>1, <1>2, <2>3, SwapDoes
    <3>2. meta'[host.slot] = commit.md /\ meta'[Other(host.slot)] = meta[Other(host.slot)]
      BY <1>4, <2>1, <3>1
    <3>3. commit'.md.monotonic_counter <= floorBefore
      <4>1. PrevMeta.monotonic_counter \in
              {0} \cup {meta[s].monotonic_counter : s \in {t \in Slots : meta[t] # NoMeta}}
        BY <1>4 DEF PrevMeta, img_slot_metadata_parse
      <4>2. 0 <= floorBefore
        BY <1>5, U32Assumption DEF U32
      <4>3. commit'.md.monotonic_counter = PrevMeta.monotonic_counter
        BY <3>1
      <4> QED  BY <2>1, <4>1, <4>2, <4>3
    <3>4. Stored'
      BY <1>2, <1>4, <1>5, <2>1, <3>2 DEF Stored
    <3> QED  BY <1>5, <2>3, <3>3, <3>4 DEF FloorInv, Receiving, SwapCommits
  <2> QED  BY <1>1, <1>2, <1>6, <2>2, <2>3, SwapDoes
<1>7. CASE pc \in {"prev_erase", "prev_program"}
  <2>1. /\ commit.slot = Other(host.slot) /\ commit.md.monotonic_counter <= floorBefore /\ Stored
        /\ pc' \in {"prev_program", "done"}
    BY <1>1, <1>2, <1>7, SwapDoes DEF SwapInv, FloorInv
  <2>2. meta'[host.slot] = meta[host.slot]
        /\ meta'[Other(host.slot)] \in {meta[Other(host.slot)], NoMeta, commit.md}
    BY <1>1, <1>4, <1>7, <2>1 DEF SwapTarget, SwapPrevious, CommitErase, CommitProgram
  <2>3. Stored'
    BY <1>2, <1>5, <2>1, <2>2 DEF Stored
  <2>4. pc' = "prev_program" => commit' = commit
    BY <1>1, <1>2, SwapDoes
  <2> QED  BY <1>5, <2>1, <2>3, <2>4 DEF FloorInv, Receiving, SwapCommits
<1> QED  BY <1>3, <1>6, <1>7 DEF SwapCommits

LEMMA FloorInvStep ==
  ASSUME VersionsBelowTop, HeadersErased, FlashInv, SwapInv, FloorInv, LineKept,
         floorBefore' = floorBefore
  PROVE  FloorInv'
<1>1. CASE Quiet
  BY <1>1 DEF Quiet, LineKept, FloorInv, Stored, NewTop, otaVars, flashVars
<1>2. CASE DeviceReset
  <2>1. pc = "done" /\ pc' = "boot" /\ UNCHANGED <<image, meta, commit, host>>
    BY <1>2 DEF DeviceReset, OtaReset
  <2> QED  BY <2>1 DEF FloorInv, Stored, NewTop, Receiving, SwapCommits
<1> QED  BY <1>1, <1>2, FloorInvFresh, FloorInvSwap DEF LineKept, Steps

\* Only the swap answers ok, when it has reached its end.
LEMMA FramesSayNoOk ==
  ASSUME NEW f, NEW r, on_frame(f, r)  PROVE r = None \/ ~SaysOk(r)
<1>1. \A t \in {"ACK", "NACK", "PONG"} : ~SaysOk(Reply(f, t))
  BY DEF SaysOk, Reply
<1>2. \A q, st : st # "ok" => ~SaysOk(Status(q, st))
  BY DEF SaysOk, Status
<1>3. CASE Duplicate(f, r) \/ Refuse(f, r)
  BY <1>1, <1>3 DEF Duplicate, DuplicateAnswer, Refuse
<1>4. CASE handle_ota_begin(f, r) \/ handle_ota_chunk(f, r)
  BY <1>1, <1>3, <1>4 DEF handle_ota_begin, handle_ota_chunk
<1>5. CASE handle_ota_end(f, r)
  BY <1>2, <1>5 DEF handle_ota_end, HaltWith
<1> QED  BY <1>1, <1>3, <1>4, <1>5 DEF on_frame

\* What is added to the line decides whether an ok is new there.
LEMMA OkTransmitted ==
  ASSUME TransferInv, NEW r \in Replies \cup {None}, Transmit(r), host' = host, OkComes'
  PROVE  OkComes \/ (r # None /\ SaysOk(r))
<1>1. toHost \in Seq(Replies) /\ host'.result = host.result
  BY DEF TransferInv, TransferTypeOK
<1>2. CASE host.result = "ok" \/ toHost' = toHost
  BY <1>1, <1>2 DEF OkComes
<1>3. CASE r # None /\ toHost' = Append(toHost, r) /\ host.result # "ok"
  <2>1. /\ Len(toHost') = Len(toHost) + 1 /\ Len(toHost) \in Nat
        /\ \A i \in 1 .. Len(toHost) + 1 : toHost'[i] = IF i = Len(toHost) + 1 THEN r ELSE toHost[i]
    BY <1>1, <1>3, PutOne
  <2>2. PICK i \in 1 .. Len(toHost) + 1 : SaysOk(toHost'[i])
    BY <1>1, <1>3, <2>1 DEF OkComes
  <2> QED  BY <1>3, <2>1, <2>2 DEF OkComes
<1> QED  BY <1>2, <1>3 DEF Transmit

LEMMA OkInvStep ==
  ASSUME TransferInv, OkInv, [TransferNext]_tvars
  PROVE  OkInv'
<1> SUFFICES ASSUME OkComes'  PROVE pc' \in {"done", "boot"}
  BY DEF OkInv
<1>a. toHost \in Seq(Replies)
  BY DEF TransferInv, TransferTypeOK
<1>1. CASE HostReceive
  <2>1. PICK n \in 1 .. Len(toHost) : toHost' = SubSeq(toHost, n + 1, Len(toHost))
    BY <1>1 DEF HostReceive
  <2>2. Head(toHost) \in Replies /\ Head(toHost) = toHost[1] /\ 1 \in 1 .. Len(toHost)
        /\ n \in Nat /\ Len(toHost) \in Nat /\ UNCHANGED otaVars
    BY <1>1, <1>a, TakeOne DEF HostReceive
  <2>3. host'.result = "ok" => host.result = "ok" \/ SaysOk(Head(toHost))
    BY <1>1, <2>2, RetryTypes, AdvanceTypes DEF HostReceive, SaysOk
  <2>4. \A i \in 1 .. Len(toHost') : i + n \in 1 .. Len(toHost) /\ toHost'[i] = toHost[i + n]
    <3>1. Len(toHost') = Len(toHost) - n /\ \A i \in 1 .. Len(toHost') : toHost'[i] = toHost[i + n]
      BY <1>a, <2>1, TakeMany
    <3> QED  BY <2>2, <3>1
  <2>5. OkComes
    BY <2>2, <2>3, <2>4 DEF OkComes
  <2> QED  BY <2>2, <2>5 DEF OkInv, otaVars, flashVars
<1>2. CASE HostTimeout
  <2>1. host'.result \in {host.result, "failed"} /\ toHost' = toHost /\ pc' = pc
    BY <1>2, RetryTypes DEF HostTimeout, otaVars, flashVars
  <2> QED  BY <2>1 DEF OkInv, OkComes
<1>3. CASE DeviceFrame
  <2>1. PICK r \in Replies \cup {None} : on_frame(Head(toDev), r) /\ Transmit(r)
    BY <1>3 DEF DeviceFrame
  <2>2. host' = host /\ pc = "ota"
    BY <1>3, <2>1 DEF DeviceFrame, on_frame
  <2>3. OkComes
    BY <2>1, <2>2, FramesSayNoOk, OkTransmitted
  <2> QED  BY <2>2, <2>3 DEF OkInv
<1>4. CASE DeviceSwap
  <2>1. PICK r \in Replies \cup {None} : (SwapTarget(r) \/ SwapPrevious(r)) /\ Transmit(r)
    BY <1>4 DEF DeviceSwap
  <2>2. host' = host /\ pc \in SwapCommits
    BY <1>4, <2>1, SwapTypes DEF DeviceSwap, TransferInv
  <2>3. ~OkComes
    BY <2>2 DEF OkInv, SwapCommits
  <2>4. r # None /\ SaysOk(r)
    BY <2>1, <2>2, <2>3, OkTransmitted
  <2>5. Answer(r)
    BY <2>1 DEF SwapTarget, SwapPrevious
  <2> QED  BY <2>4, <2>5 DEF Answer, SaysOk, Status
<1>5. CASE DeviceReset
  BY <1>5 DEF DeviceReset, OtaReset
<1>6. CASE /\ UNCHANGED <<otaVars, host>>
           /\ toHost' = toHost \/ (toHost # <<>> /\ toHost' = Tail(toHost))
  <2>1. pc' = pc /\ host' = host
    BY <1>6 DEF otaVars, flashVars
  <2>2. CASE toHost # <<>> /\ toHost' = Tail(toHost)
    <3>1. /\ Len(toHost') = Len(toHost) - 1 /\ Len(toHost) \in Nat
          /\ \A i \in 1 .. Len(toHost') : toHost'[i] = toHost[i + 1]
      BY <1>a, <2>2, TakeOne
    <3>2. \A i \in 1 .. Len(toHost') : i + 1 \in 1 .. Len(toHost)
      BY <3>1
    <3> QED  BY <2>1, <3>1, <3>2 DEF OkInv, OkComes
  <2> QED  BY <1>6, <2>1, <2>2 DEF OkInv, OkComes
<1>7. CASE DeviceDeaf
  BY <1>6, <1>7 DEF DeviceDeaf
<1>8. CASE LoseFrame
  BY <1>6, <1>8 DEF LoseFrame
<1>9. CASE Finished \/ UNCHANGED tvars
  BY <1>6, <1>9 DEF Finished, tvars, otaVars, flashVars
<1> QED
  BY <1>1, <1>2, <1>3, <1>4, <1>5, <1>7, <1>8, <1>9 DEF TransferNext

LEMMA OkInvInit == Init => OkInv
<1> SUFFICES ASSUME Init, OkComes  PROVE FALSE
  BY DEF OkInv
<1>1. host.result = "busy" /\ toHost = <<>>
  BY DEF Init
<1>2. Len(toHost) = 0
  BY <1>1
<1> QED  BY <1>1, <1>2 DEF OkComes

\* When the tool reports ok, the slot holds the whole image that was sent and
\* the metadata makes it the one to try first; it passes the gates of that boot
\* exactly if its version exceeds every counter stored before the run.
THEOREM OkIsInstalled ==
  VersionsBelowTop /\ HeadersErased => (TransferSpec => []OkMeansInstalled)
<1> SUFFICES ASSUME VersionsBelowTop, HeadersErased  PROVE TransferSpec => []OkMeansInstalled
  OBVIOUS
<1> DEFINE Inv == FlashInv /\ SwapInv /\ FloorInv /\ OkInv
<1>1. Init => Inv
  BY FlashInvInit, SwapInvInit, FloorInvInit, OkInvInit
<1>2. Inv /\ [TransferNext]_tvars => Inv'
  <2> SUFFICES ASSUME Inv, [TransferNext]_tvars  PROVE Inv'
    OBVIOUS
  <2>1. TransferInv /\ Line /\ FlashInv' /\ OkInv'
    BY FlashInvStep, OkInvStep DEF FlashInv
  <2>2. LineKept
    BY <2>1, LineStep DEF FlashInv
  <2>3. floorBefore' = floorBefore
    BY DEF TransferNext, tvars, HostReceive, HostTimeout, DeviceFrame, DeviceSwap, DeviceReset,
           DeviceDeaf, LoseFrame, Finished
  <2>4. SwapInv' /\ FloorInv'
    BY <2>2, <2>3, SwapInvStep, FloorInvStep
  <2> QED  BY <2>1, <2>4
<1>3. Inv => OkMeansInstalled
  <2> SUFFICES ASSUME Inv, host.result = "ok"
               PROVE  Whole /\ scan_active_slot = host.slot
                      /\ (Boots(host.slot) <=> host.image.version > floorBefore)
    BY DEF OkMeansInstalled, Whole
  <2>1. pc \in {"done", "boot"}
    BY DEF OkInv, OkComes
  <2>2. /\ Whole /\ Wins /\ Stored
        /\ verify_slot(image[host.slot]) /\ image[host.slot][0] = host.image
    BY <2>1 DEF SwapInv, FloorInv
  <2>3. /\ host.slot \in Slots /\ meta \in [Slots -> Metadata \cup {NoMeta}]
        /\ host.image \in Images
    BY DEF FlashInv, TransferInv, ReceiverTyped, HostTyped, HostTools
  <2>4. meta[host.slot].monotonic_counter \in Nat
        /\ (meta[Other(host.slot)] # NoMeta =>
              /\ meta[Other(host.slot)].monotonic_counter \in Nat
              /\ meta[Other(host.slot)].active \in {0, 1})
    BY <2>2, <2>3, U32Assumption DEF Wins, Metadata, U32, Other, Slots
  <2>5. scan_active_slot = host.slot
    BY <2>2, <2>3, <2>4
       DEF Wins, scan_active_slot, img_pick_active_slot, img_slot_metadata_parse, Slots, Other
  <2>6. host.image.version \in Nat /\ floorBefore \in Nat
    BY <2>3, ImagesAssumption, U32Assumption DEF FloorInv, U32
  <2>7. scan_max_monotonic = NewTop
    <3>1. NewTop > floorBefore /\ NewTop \in Nat
      BY <2>6 DEF NewTop
    <3>2. /\ meta[host.slot] # NoMeta /\ meta[host.slot].monotonic_counter = NewTop
          /\ (meta[Other(host.slot)] # NoMeta =>
                meta[Other(host.slot)].monotonic_counter < NewTop)
      BY <2>2, <2>4, <2>6, <3>1 DEF Wins, Stored
    <3> QED
      BY <2>3, <2>4, <3>1, <3>2
         DEF scan_max_monotonic, img_compute_floor, img_compute_new_floor,
             img_slot_metadata_parse, Slots, Other
  <2>8. ~img_fail_count_tripped(meta[host.slot].fail_count)
    BY <2>2 DEF Stored, img_fail_count_tripped, IMG_FAIL_COUNT_MAX
  <2>9. Boots(host.slot) <=> host.image.version >= NewTop
    BY <2>2, <2>5, <2>7, <2>8 DEF Boots, img_header_meets_floor
  <2>10. host.image.version >= NewTop <=> host.image.version > floorBefore
    BY <2>6 DEF NewTop
  <2> QED  BY <2>2, <2>5, <2>9, <2>10
<1> QED
  BY <1>1, <1>2, <1>3, PTL DEF TransferSpec
=============================================================================
