----------------------------- MODULE FrameLink -----------------------------
(***************************************************************************)
(* frame_link of lib/framing: stop-and-wait ARQ between two endpoints over *)
(* a pipe that keeps the order of frames but may lose or damage them.  One *)
(* direction of data: the sending half of one frame_link_t, the receiving  *)
(* half of the other, and their callers, which do what framing.h asks of   *)
(* them: acknowledge every data frame, answer a damaged one with NACK, call *)
(* frame_link_tick regularly.                                              *)
(*                                                                         *)
(* Payloads are numbered.  On the way back an ACK is its SEQ and a NACK is *)
(* Nack, since frame_link_on_nack ignores the SEQ a NACK carries.          *)
(***************************************************************************)
EXTENDS Naturals, Sequences

CONSTANTS
  SeqMod,        (* SEQ is a uint8_t: 256                                  *)
  AttemptMod,    (* attempts is a uint8_t: 256                             *)
  MaxRetries,    (* link->max_retries                                      *)
  Resubmits,     (* does the caller send a payload that failed again?      *)
  MaxPayloads,   (* bound: payloads                                        *)
  MaxLosses,     (* bound: frames and answers damaged or lost on the line  *)
  MaxInFlight,   (* bound: frames, and answers, on the line at a time      *)
  None, Nack

Seqs == 0 .. SeqMod - 1

ASSUME WidthAssumption == SeqMod \in Nat /\ SeqMod >= 2 /\ AttemptMod \in Nat
ASSUME RetryAssumption == MaxRetries \in Nat /\ MaxRetries + 1 < AttemptMod
ASSUME LineAssumption == MaxPayloads \in Nat /\ MaxLosses \in Nat /\ MaxInFlight \in Nat
ASSUME CallerAssumption == Resubmits \in BOOLEAN
ASSUME SentinelAssumption == None \notin Seqs /\ Nack \notin Seqs

VARIABLES
  state, tx_seq, attempts,  (* the sending half of frame_link_t            *)
  submitted,                (* the payload in link->encoded                *)
  acked,                    (* the last payload on_ack reported            *)
  tries,                    (* history: writes tried for the current send  *)
  rx_last,                  (* rx_last_seq of the other side, or None      *)
  delivered,                (* the payloads its caller processed           *)
  toPeer, toUs,             (* the two directions of the line              *)
  losses

sender == <<state, tx_seq, attempts, submitted, acked, tries>>
receiver == <<rx_last, delivered>>
vars == <<sender, receiver, toPeer, toUs, losses>>

Frames == [seq : Seqs, data : Nat]

Init ==
  /\ state = "IDLE" /\ tx_seq = 0 /\ attempts = 0
  /\ submitted = 0 /\ acked = 0 /\ tries = 0
  /\ rx_last = None /\ delivered = <<>>
  /\ toPeer = <<>> /\ toUs = <<>>
  /\ losses = 0

-----------------------------------------------------------------------------
(* The sender.                                                             *)

\* link->write with the encoded frame of payload n; the callback may fail.
Writes(n) ==
  /\ Len(toPeer) < MaxInFlight
  /\ toPeer' = Append(toPeer, [seq |-> tx_seq, data |-> n])
WriteFails == UNCHANGED toPeer

NextPayload == IF Resubmits THEN acked + 1 ELSE submitted + 1

\* Send: a payload whose first write fails leaves the link idle.
frame_link_send ==
  /\ state = "IDLE"
  /\ NextPayload <= MaxPayloads
  /\ submitted' = NextPayload
  /\ tries' = 1
  /\ \/ Writes(NextPayload) /\ state' = "AWAITING_ACK" /\ attempts' = 1
     \/ WriteFails /\ UNCHANGED <<state, attempts>>
  /\ UNCHANGED <<tx_seq, acked, receiver, toUs, losses>>

\* Mutants: a failed write is not counted; an exhausted send is never given up.
UncountedWrite ==
  IF attempts > MaxRetries
  THEN state' = "IDLE" /\ UNCHANGED <<attempts, tries, toPeer>>
  ELSE /\ tries' = tries + 1
       /\ \/ Writes(submitted) /\ attempts' = (attempts + 1) % AttemptMod
          \/ WriteFails /\ UNCHANGED attempts
       /\ UNCHANGED state

NeverGivesUp ==
  IF attempts > MaxRetries
  THEN UNCHANGED <<state, attempts, tries, toPeer>>
  ELSE /\ attempts' = (attempts + 1) % AttemptMod
       /\ tries' = tries + 1
       /\ Writes(submitted) \/ WriteFails
       /\ UNCHANGED state

link_retransmit ==
  IF attempts > MaxRetries
  THEN state' = "IDLE" /\ UNCHANGED <<attempts, tries, toPeer>>
  ELSE /\ attempts' = (attempts + 1) % AttemptMod
       /\ tries' = tries + 1
       /\ Writes(submitted) \/ WriteFails
       /\ UNCHANGED state

\* The timeout has run out.  A tick before that does nothing.
frame_link_tick ==
  /\ state = "AWAITING_ACK"
  /\ link_retransmit
  /\ UNCHANGED <<tx_seq, submitted, acked, receiver, toUs, losses>>

frame_link_on_nack ==
  /\ toUs # <<>> /\ Head(toUs) = Nack
  /\ toUs' = Tail(toUs)
  /\ \/ state = "AWAITING_ACK" /\ link_retransmit
     \/ state # "AWAITING_ACK" /\ UNCHANGED <<state, attempts, tries, toPeer>>
  /\ UNCHANGED <<tx_seq, submitted, acked, receiver, losses>>

\* Mutant: any ACK ends the wait.
AnyAckMatches(seq) == state = "AWAITING_ACK"

Matches(seq) == state = "AWAITING_ACK" /\ seq = tx_seq

\* Mutant: a SEQ wider than the frame's byte.
WideSeq(seq) == seq + 1

NextSeq(seq) == (seq + 1) % SeqMod

frame_link_on_ack ==
  /\ toUs # <<>> /\ Head(toUs) # Nack
  /\ toUs' = Tail(toUs)
  /\ IF Matches(Head(toUs))
     THEN /\ state' = "IDLE"
          /\ tx_seq' = NextSeq(tx_seq)
          /\ acked' = submitted
     ELSE UNCHANGED <<state, tx_seq, acked>>
  /\ UNCHANGED <<attempts, submitted, tries, receiver, toPeer, losses>>

-----------------------------------------------------------------------------
(* The receiver, and the line.                                             *)

Answers(a) == Len(toUs) < MaxInFlight /\ toUs' = Append(toUs, a)

\* Mutant: no duplicate is ever recognised.
AlwaysFresh(seq) == TRUE

frame_link_on_rx(seq) == seq # rx_last

\* rx_cb of the peer's decoder: process a fresh payload, acknowledge any.
PeerReceive ==
  /\ toPeer # <<>>
  /\ LET f == Head(toPeer)
     IN  /\ IF frame_link_on_rx(f.seq)
            THEN rx_last' = f.seq /\ delivered' = Append(delivered, f.data)
            ELSE UNCHANGED receiver
         /\ Answers(f.seq)
  /\ toPeer' = Tail(toPeer)
  /\ UNCHANGED <<sender, losses>>

\* err_cb of the peer's decoder.
PeerRejects ==
  /\ toPeer # <<>> /\ losses < MaxLosses
  /\ toPeer' = Tail(toPeer)
  /\ Answers(Nack)
  /\ losses' = losses + 1
  /\ UNCHANGED <<sender, receiver>>

LoseFrame ==
  /\ losses < MaxLosses
  /\ losses' = losses + 1
  /\ \/ toPeer # <<>> /\ toPeer' = Tail(toPeer) /\ UNCHANGED toUs
     \/ toUs # <<>> /\ toUs' = Tail(toUs) /\ UNCHANGED toPeer
  /\ UNCHANGED <<sender, receiver>>

Finished ==
  /\ state = "IDLE" /\ NextPayload > MaxPayloads
  /\ toPeer = <<>> /\ toUs = <<>>
  /\ UNCHANGED vars

Next ==
  \/ frame_link_send \/ frame_link_tick \/ frame_link_on_ack \/ frame_link_on_nack
  \/ PeerReceive \/ PeerRejects \/ LoseFrame \/ Finished

Spec == Init /\ [][Next]_vars

\* The callers go on, the decoders hand on what arrives, and a transport that
\* is tried again and again accepts a frame now and then.  The last conjuncts
\* say that the timeout is not shorter than the round trip every time.
FairSpec ==
  /\ Spec
  /\ SF_vars(frame_link_send /\ state' # state) /\ WF_vars(frame_link_tick)
  /\ SF_vars(frame_link_tick /\ toPeer' # toPeer)
  /\ WF_vars(PeerReceive) /\ WF_vars(frame_link_on_ack) /\ WF_vars(frame_link_on_nack)
  /\ SF_vars(PeerReceive /\ state = "AWAITING_ACK")
  /\ SF_vars(frame_link_on_ack /\ acked' # acked)

-----------------------------------------------------------------------------
(* Properties.                                                             *)

LinkTypeOK ==
  /\ state \in {"IDLE", "AWAITING_ACK"}
  /\ tx_seq \in Seqs /\ rx_last \in Seqs \cup {None}
  /\ attempts \in 0 .. AttemptMod - 1
  /\ submitted \in Nat /\ acked \in Nat /\ tries \in Nat
  /\ delivered \in Seq(Nat)
  /\ toPeer \in Seq(Frames) /\ toUs \in Seq(Seqs \cup {Nack})

\* A send that succeeded has been processed by the other side: success means
\* that its ACK came (framing.h:172).
AckedIsDelivered == acked # 0 => \E i \in 1 .. Len(delivered) : delivered[i] = acked

\* One send tries 1 + max_retries writes at most, a failing transport's
\* included (framing.h:198, framing.c:479-482).
AttemptsBounded == tries <= 1 + MaxRetries

\* Whatever is lost, damaged or late, the two endpoints are a channel that
\* delivers every payload once and in order.
Channel == INSTANCE ReliableChannel
ImplementsChannel == Channel!ChannelSpec

\* Every payload is acknowledged in the end.
AllAcknowledged == <>(acked = MaxPayloads)
=============================================================================
