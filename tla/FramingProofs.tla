--------------------------- MODULE FramingProofs ---------------------------
(***************************************************************************)
(* lib/framing proved.  FrameLink, for every SEQ and attempt width, every  *)
(* number of retries and any losses: types, the bound on write attempts,   *)
(* and, for callers that send a failed payload again, that the link is the *)
(* channel of ReliableChannel.  FrameCodec, for every size of byte and     *)
(* buffer, every checksum and every string of bytes: the decoder delivers  *)
(* the frames and nothing else, and reads back what the encoder writes.    *)
(***************************************************************************)
EXTENDS FrameLink, FrameCodec, FiniteSetTheorems, SequenceTheorems, TLAPS

\* What the two ends of a line do to it.
LEMMA TakeOne ==
  ASSUME NEW S, NEW q \in Seq(S), q # <<>>
  PROVE  /\ Tail(q) \in Seq(S) /\ Head(q) \in S /\ Head(q) = q[1]
         /\ Len(q) >= 1 /\ Len(Tail(q)) = Len(q) - 1
         /\ \A i \in 1 .. Len(Tail(q)) : Tail(q)[i] = q[i + 1]
OBVIOUS

LEMMA PutOne ==
  ASSUME NEW S, NEW q \in Seq(S), NEW x \in S
  PROVE  /\ Append(q, x) \in Seq(S) /\ Len(Append(q, x)) = Len(q) + 1
         /\ \A i \in 1 .. Len(q) + 1 :
              Append(q, x)[i] = IF i = Len(q) + 1 THEN x ELSE q[i]
OBVIOUS

\* The SEQ before s, undoing NextSeq.
PrevSeq(s) == IF s = 0 THEN SeqMod - 1 ELSE s - 1

\* SEQs count through a ring of at least two.
LEMMA SeqRing ==
  ASSUME NEW s \in Seqs
  PROVE  /\ NextSeq(s) \in Seqs /\ PrevSeq(NextSeq(s)) = s
         /\ PrevSeq(s) \in Seqs /\ PrevSeq(s) # s
<1>1. SeqMod \in Nat /\ SeqMod >= 2 /\ s \in 0 .. SeqMod - 1
  BY WidthAssumption DEF Seqs
<1>2. NextSeq(s) = IF s = SeqMod - 1 THEN 0 ELSE s + 1
  BY <1>1 DEF NextSeq
<1> QED
  BY <1>1, <1>2 DEF Seqs, PrevSeq

\* The writes of a send are counted by attempts while it is awaited.
AttemptsCounted ==
  /\ tries <= 1 + MaxRetries
  /\ state = "AWAITING_ACK" => attempts = tries

TypesAndAttempts == LinkTypeOK /\ AttemptsCounted

LEMMA WriteTypes ==
  ASSUME NEW n \in Nat, tx_seq \in Seqs, toPeer \in Seq(Frames), Writes(n) \/ WriteFails
  PROVE  toPeer' \in Seq(Frames)
<1>1. [seq |-> tx_seq, data |-> n] \in Frames
  BY DEF Frames
<1>2. CASE Writes(n)
  BY <1>1, <1>2 DEF Writes
<1>3. CASE WriteFails
  BY <1>3 DEF WriteFails
<1> QED
  BY <1>2, <1>3

LEMMA RetransmitTypes ==
  ASSUME TypesAndAttempts, state = "AWAITING_ACK", link_retransmit
  PROVE  /\ state' \in {"IDLE", "AWAITING_ACK"} /\ attempts' \in 0 .. AttemptMod - 1
         /\ tries' \in Nat /\ toPeer' \in Seq(Frames) /\ AttemptsCounted'
<1>1. CASE attempts > MaxRetries
  BY <1>1 DEF TypesAndAttempts, LinkTypeOK, AttemptsCounted, link_retransmit
<1>2. CASE ~(attempts > MaxRetries)
  <2>1. attempts \in Nat /\ attempts = tries /\ attempts + 1 <= MaxRetries + 1
    BY <1>2, RetryAssumption, WidthAssumption
    DEF TypesAndAttempts, LinkTypeOK, AttemptsCounted
  <2>2. (attempts + 1) % AttemptMod = attempts + 1
    BY <2>1, RetryAssumption, WidthAssumption
  <2>3. toPeer' \in Seq(Frames)
    BY <1>2, WriteTypes DEF TypesAndAttempts, LinkTypeOK, link_retransmit
  <2> QED
    BY <1>2, <2>1, <2>2, <2>3, RetryAssumption, WidthAssumption
    DEF TypesAndAttempts, LinkTypeOK, AttemptsCounted, link_retransmit
<1> QED
  BY <1>1, <1>2

LEMMA TypesAndAttemptsStep == TypesAndAttempts /\ [Next]_vars => TypesAndAttempts'
<1> SUFFICES ASSUME TypesAndAttempts, [Next]_vars PROVE TypesAndAttempts'
  OBVIOUS
<1> USE DEF TypesAndAttempts
<1>1. CASE frame_link_send
  <2>1. NextPayload \in Nat
    BY DEF LinkTypeOK, NextPayload
  <2>2. toPeer' \in Seq(Frames)
    BY <1>1, <2>1, WriteTypes DEF frame_link_send, LinkTypeOK
  <2>3. UNCHANGED <<tx_seq, acked, rx_last, delivered, toUs>>
    BY <1>1 DEF frame_link_send, receiver
  <2> QED
    BY <1>1, <2>1, <2>2, <2>3, RetryAssumption, WidthAssumption
    DEF frame_link_send, LinkTypeOK, AttemptsCounted
<1>2. CASE frame_link_tick
  BY <1>2, RetransmitTypes DEF frame_link_tick, LinkTypeOK, receiver
<1>3. CASE frame_link_on_nack
  <2>1. toUs' \in Seq(Seqs \cup {Nack}) /\ UNCHANGED <<tx_seq, submitted, acked, rx_last, delivered>>
    BY <1>3 DEF frame_link_on_nack, LinkTypeOK, receiver
  <2>2. CASE state = "AWAITING_ACK" /\ link_retransmit
    BY <2>1, <2>2, RetransmitTypes DEF LinkTypeOK
  <2>3. CASE UNCHANGED <<state, attempts, tries, toPeer>>
    BY <2>1, <2>3 DEF LinkTypeOK, AttemptsCounted
  <2> QED
    BY <1>3, <2>2, <2>3 DEF frame_link_on_nack
<1>4. CASE frame_link_on_ack
  <2>1. toUs' \in Seq(Seqs \cup {Nack}) /\ UNCHANGED <<attempts, submitted, tries, rx_last, delivered, toPeer>>
    BY <1>4 DEF frame_link_on_ack, LinkTypeOK, receiver
  <2>2. NextSeq(tx_seq) \in Seqs
    BY SeqRing DEF LinkTypeOK
  <2> QED
    BY <1>4, <2>1, <2>2 DEF frame_link_on_ack, LinkTypeOK, AttemptsCounted
<1>5. CASE PeerReceive
  <2>1. Head(toPeer) \in Frames /\ toPeer' \in Seq(Frames)
    BY <1>5 DEF PeerReceive, LinkTypeOK
  <2>2. rx_last' \in Seqs \cup {None} /\ delivered' \in Seq(Nat)
    <3>1. Head(toPeer).seq \in Seqs /\ Head(toPeer).data \in Nat
      BY <2>1 DEF Frames
    <3>2. CASE frame_link_on_rx(Head(toPeer).seq)
      <4>1. rx_last' = Head(toPeer).seq /\ delivered' = Append(delivered, Head(toPeer).data)
        BY <1>5, <3>2 DEF PeerReceive
      <4> QED
        BY <3>1, <4>1 DEF LinkTypeOK
    <3>3. CASE ~frame_link_on_rx(Head(toPeer).seq)
      BY <1>5, <3>3 DEF PeerReceive, LinkTypeOK, receiver
    <3> QED
      BY <3>2, <3>3
  <2>3. toUs' \in Seq(Seqs \cup {Nack})
    BY <1>5, <2>1 DEF PeerReceive, Answers, LinkTypeOK, Frames
  <2> QED
    BY <1>5, <2>1, <2>2, <2>3 DEF PeerReceive, LinkTypeOK, AttemptsCounted, sender
<1>6. CASE PeerRejects
  BY <1>6 DEF PeerRejects, Answers, LinkTypeOK, AttemptsCounted, sender, receiver
<1>7. CASE LoseFrame
  <2>1. toPeer # <<>> => Tail(toPeer) \in Seq(Frames)
    BY TakeOne DEF LinkTypeOK
  <2>2. toUs # <<>> => Tail(toUs) \in Seq(Seqs \cup {Nack})
    BY TakeOne DEF LinkTypeOK
  <2> QED
    BY <1>7, <2>1, <2>2 DEF LoseFrame, LinkTypeOK, AttemptsCounted, sender, receiver
<1>8. CASE Finished \/ UNCHANGED vars
  BY <1>8 DEF Finished, LinkTypeOK, AttemptsCounted, vars, sender, receiver
<1> HIDE DEF TypesAndAttempts
<1> QED
  BY <1>1, <1>2, <1>3, <1>4, <1>5, <1>6, <1>7, <1>8 DEF Next

LEMMA TypesAndAttemptsInit == Init => TypesAndAttempts
  BY WidthAssumption, RetryAssumption
  DEF Init, TypesAndAttempts, LinkTypeOK, AttemptsCounted, Seqs

LEMMA TypesAndAttemptsInvariant == Spec => []TypesAndAttempts
  BY TypesAndAttemptsInit, TypesAndAttemptsStep, PTL DEF Spec

\* Every counter and both directions of the line keep their types.
THEOREM LinkTypes == Spec => []LinkTypeOK
<1>1. TypesAndAttempts => LinkTypeOK
  BY DEF TypesAndAttempts
<1> QED
  BY <1>1, TypesAndAttemptsInvariant, PTL

\* No send writes more than 1 + max_retries times, although attempts is only
\* a byte: RetryAssumption keeps it from wrapping.
THEOREM AttemptsStayBounded == Spec => []AttemptsBounded
<1>1. TypesAndAttempts => AttemptsBounded
  BY DEF TypesAndAttempts, AttemptsCounted, AttemptsBounded
<1> QED
  BY <1>1, TypesAndAttemptsInvariant, PTL

-----------------------------------------------------------------------------
(* The alternating SEQ.  While a payload is awaited, the line to the peer  *)
(* holds frames of the payload before it and then of this one; once the    *)
(* peer has this one, only of this one.  The line back holds ACKs in the   *)
(* same order.                                                             *)

\* The SEQ payload number submitted has, and the one the payload before had.
Cur == IF acked = submitted THEN PrevSeq(tx_seq) ELSE tx_seq
Old == PrevSeq(Cur)

Arrived == Len(delivered) = submitted

Counted ==
  /\ acked <= Len(delivered) /\ Len(delivered) <= submitted /\ submitted <= acked + 1
  /\ state = "AWAITING_ACK" => acked # submitted

InOrder == \A i \in 1 .. Len(delivered) : delivered[i] = i

PeerSeq == rx_last = IF delivered = <<>> THEN None ELSE IF Arrived THEN Cur ELSE Old

FrameOK(f) ==
  /\ f.data >= 1
  /\ \/ f.data = submitted /\ f.seq = Cur
     \/ f.data = submitted - 1 /\ f.seq = Old /\ ~Arrived

FramesOK ==
  /\ \A i \in 1 .. Len(toPeer) : FrameOK(toPeer[i])
  /\ \A i, j \in 1 .. Len(toPeer) : i < j => toPeer[i].data <= toPeer[j].data

AnswerOK(a) == a = Nack \/ (a = Cur /\ Arrived) \/ (a = Old /\ acked # submitted)

AnswersOK ==
  /\ \A i \in 1 .. Len(toUs) : AnswerOK(toUs[i])
  /\ \A i, j \in 1 .. Len(toUs) : i < j /\ toUs[i] = Cur => toUs[j] \in {Cur, Nack}

Alternates == Counted /\ InOrder /\ PeerSeq /\ FramesOK /\ AnswersOK

\* What the steps of the line leave alone.
Frozen == UNCHANGED <<tx_seq, submitted, acked, rx_last, delivered>>

LEMMA FrozenTerms ==
  ASSUME Frozen
  PROVE  /\ Cur' = Cur /\ Old' = Old /\ Arrived' = Arrived
         /\ \A f : FrameOK(f)' <=> FrameOK(f)
         /\ \A a : AnswerOK(a)' <=> AnswerOK(a)
BY DEF Frozen, Cur, Old, Arrived, FrameOK, AnswerOK, PrevSeq

LEMMA FrozenParts ==
  ASSUME Frozen, Alternates, state' = "AWAITING_ACK" => acked # submitted
  PROVE  Counted' /\ InOrder' /\ PeerSeq'
<1>1. Cur' = Cur /\ Old' = Old /\ Arrived' = Arrived
  BY FrozenTerms
<1> QED
  BY <1>1 DEF Frozen, Alternates, InOrder, PeerSeq, Counted

LEMMA CurAndOld == LinkTypeOK => Cur \in Seqs /\ Old \in Seqs /\ Cur # Old
  BY SeqRing DEF LinkTypeOK, Cur, Old

LEMMA SentFrame ==
  ASSUME LinkTypeOK, FramesOK, Frozen, Counted, acked # submitted,
         Writes(submitted) \/ WriteFails
  PROVE  FramesOK'
<1>1. CASE WriteFails
  BY <1>1, FrozenTerms DEF WriteFails, FramesOK
<1>2. CASE Writes(submitted)
  <2> DEFINE x == [seq |-> tx_seq, data |-> submitted]
  <2>1. x \in Frames /\ toPeer' = Append(toPeer, x) /\ toPeer \in Seq(Frames)
    BY <1>2 DEF Writes, LinkTypeOK, Frames
  <2>2. FrameOK(x)
    BY DEF LinkTypeOK, FrameOK, Cur, Counted
  <2>3. /\ Len(toPeer') = Len(toPeer) + 1
        /\ \A i \in 1 .. Len(toPeer) + 1 :
             toPeer'[i] = IF i = Len(toPeer) + 1 THEN x ELSE toPeer[i]
    BY <2>1, PutOne
  <2>4. \A i \in 1 .. Len(toPeer) : toPeer[i].data <= x.data /\ toPeer[i].data \in Nat
    <3> SUFFICES ASSUME NEW i \in 1 .. Len(toPeer)
                 PROVE  toPeer[i].data <= submitted /\ toPeer[i].data \in Nat
      OBVIOUS
    <3>1. toPeer[i] \in Frames /\ FrameOK(toPeer[i])
      BY <2>1 DEF FramesOK
    <3> QED
      BY <3>1 DEF FrameOK, LinkTypeOK, Frames
  <2> HIDE DEF x
  <2>5. Len(toPeer) \in Nat
    BY <2>1
  <2>6. \A i \in 1 .. Len(toPeer') : FrameOK(toPeer'[i])
    BY <2>2, <2>3, <2>5 DEF FramesOK
  <2>7. \A i, j \in 1 .. Len(toPeer') : i < j => toPeer'[i].data <= toPeer'[j].data
    BY <2>3, <2>4, <2>5 DEF FramesOK
  <2> QED
    BY <2>6, <2>7, FrozenTerms DEF FramesOK
<1> QED
  BY <1>1, <1>2

LEMMA TakenFrame ==
  ASSUME LinkTypeOK, FramesOK, toPeer # <<>>, toPeer' = Tail(toPeer),
         \A f \in Frames : FrameOK(f) /\ Head(toPeer).data <= f.data => FrameOK(f)'
  PROVE  FramesOK'
<1>1. /\ Len(toPeer) >= 1 /\ Len(toPeer') = Len(toPeer) - 1 /\ Len(toPeer) \in Nat
      /\ \A i \in 1 .. Len(toPeer') : toPeer'[i] = toPeer[i + 1]
      /\ Head(toPeer) = toPeer[1] /\ \A i \in 1 .. Len(toPeer) : toPeer[i] \in Frames
  BY TakeOne DEF LinkTypeOK
<1>2. \A i \in 1 .. Len(toPeer') :
        i + 1 \in 1 .. Len(toPeer) /\ FrameOK(toPeer[i + 1]) /\ toPeer[1].data <= toPeer[i + 1].data
  BY <1>1 DEF FramesOK
<1>3. (\A i \in 1 .. Len(toPeer) : FrameOK(toPeer[i]))'
  <2> SUFFICES ASSUME NEW i \in 1 .. Len(toPeer') PROVE FrameOK(toPeer[i])'
    OBVIOUS
  <2>1. PICK f \in Frames : f = toPeer[i + 1]
    BY <1>1, <1>2
  <2>2. FrameOK(f)'
    BY <1>1, <1>2, <2>1
  <2>3. toPeer'[i] = f
    BY <1>1, <2>1
  <2> QED
    BY <2>2, <2>3 DEF FrameOK
<1> QED
  BY <1>1, <1>2, <1>3 DEF FramesOK

LEMMA TakenAnswer ==
  ASSUME LinkTypeOK, AnswersOK, toUs # <<>>, toUs' = Tail(toUs), Cur' = Cur,
         \A a \in Seqs \cup {Nack} :
           AnswerOK(a) /\ (Head(toUs) = Cur => a \in {Cur, Nack}) => AnswerOK(a)'
  PROVE  AnswersOK'
<1>1. /\ Len(toUs) >= 1 /\ Len(toUs') = Len(toUs) - 1 /\ Len(toUs) \in Nat
      /\ \A i \in 1 .. Len(toUs') : toUs'[i] = toUs[i + 1]
      /\ Head(toUs) = toUs[1] /\ \A i \in 1 .. Len(toUs) : toUs[i] \in Seqs \cup {Nack}
  BY TakeOne DEF LinkTypeOK
<1>2. \A i \in 1 .. Len(toUs') :
        /\ i + 1 \in 1 .. Len(toUs) /\ AnswerOK(toUs[i + 1])
        /\ toUs[1] = Cur => toUs[i + 1] \in {Cur, Nack}
  BY <1>1 DEF AnswersOK
<1>3. (\A i \in 1 .. Len(toUs) : AnswerOK(toUs[i]))'
  <2> SUFFICES ASSUME NEW i \in 1 .. Len(toUs') PROVE AnswerOK(toUs[i])'
    OBVIOUS
  <2>1. PICK a \in Seqs \cup {Nack} : a = toUs[i + 1]
    BY <1>1, <1>2
  <2>2. AnswerOK(a)'
    BY <1>1, <1>2, <2>1
  <2>3. toUs'[i] = a
    BY <1>1, <2>1
  <2> QED
    BY <2>2, <2>3 DEF AnswerOK
<1> QED
  BY <1>1, <1>2, <1>3 DEF AnswersOK

\* a must be Cur once a Cur is on its way.
LEMMA GivenAnswer ==
  ASSUME LinkTypeOK, AnswersOK, NEW a \in Seqs \cup {Nack}, Answers(a), Cur' = Cur,
         \A b \in Seqs \cup {Nack} : AnswerOK(b) => AnswerOK(b)', AnswerOK(a)',
         a \in {Cur, Nack} \/ ~Arrived, Cur # Old, Cur # Nack
  PROVE  AnswersOK'
<1>1. /\ toUs' = Append(toUs, a) /\ Len(toUs) \in Nat /\ Len(toUs') = Len(toUs) + 1
      /\ \A i \in 1 .. Len(toUs) + 1 :
           toUs'[i] = IF i = Len(toUs) + 1 THEN a ELSE toUs[i]
      /\ \A i \in 1 .. Len(toUs) : toUs[i] \in Seqs \cup {Nack}
  BY PutOne DEF Answers, LinkTypeOK
<1>2. \A i \in 1 .. Len(toUs) : AnswerOK(toUs[i])
  BY DEF AnswersOK
<1>3. (\A i \in 1 .. Len(toUs) : AnswerOK(toUs[i]))'
  <2> SUFFICES ASSUME NEW i \in 1 .. Len(toUs') PROVE AnswerOK(toUs[i])'
    OBVIOUS
  <2>1. PICK b \in Seqs \cup {Nack} : b = toUs'[i] /\ AnswerOK(b)'
    BY <1>1, <1>2
  <2> QED
    BY <2>1 DEF AnswerOK
<1>4. \A i \in 1 .. Len(toUs) : toUs[i] = Cur => Arrived
  BY <1>2 DEF AnswerOK
<1>5. \A i, j \in 1 .. Len(toUs') : i < j /\ toUs'[i] = Cur => toUs'[j] \in {Cur, Nack}
  BY <1>1, <1>4 DEF AnswersOK
<1> QED
  BY <1>3, <1>5 DEF AnswersOK

-----------------------------------------------------------------------------
(* The steps.                                                              *)

LEMMA Resent ==
  ASSUME LinkTypeOK, Alternates, state = "AWAITING_ACK", link_retransmit, Frozen
  PROVE  Counted' /\ InOrder' /\ PeerSeq' /\ FramesOK'
<1>1. acked # submitted /\ Counted /\ FramesOK
  BY DEF Alternates, Counted
<1>2. FramesOK'
  <2>1. CASE attempts > MaxRetries
    BY <1>1, <2>1, FrozenTerms DEF link_retransmit, FramesOK
  <2>2. CASE ~(attempts > MaxRetries)
    BY <1>1, <2>2, SentFrame DEF link_retransmit
  <2> QED
    BY <2>1, <2>2
<1> QED
  BY <1>1, <1>2, FrozenParts

LEMMA SendAlternates ==
  ASSUME Resubmits, LinkTypeOK, Alternates, frame_link_send
  PROVE  Alternates'
<1>1. /\ submitted' = acked + 1 /\ state = "IDLE" /\ submitted \in Nat /\ acked \in Nat
      /\ UNCHANGED <<tx_seq, acked, rx_last, delivered, toUs>>
      /\ (Writes(submitted') \/ WriteFails)
  BY DEF frame_link_send, NextPayload, LinkTypeOK, receiver
<1>2. CASE acked # submitted
  <2>1. submitted' = submitted /\ Frozen
    BY <1>1, <1>2 DEF Alternates, Counted, Frozen
  <2>2. FramesOK'
    BY <1>1, <1>2, <2>1, SentFrame DEF Alternates
  <2>3. AnswersOK'
    BY <1>1, <2>1, FrozenTerms DEF Alternates, AnswersOK
  <2> QED
    BY <1>2, <2>1, <2>2, <2>3, FrozenParts DEF Alternates
<1>3. CASE acked = submitted
  <2>1. /\ submitted' = submitted + 1 /\ Cur' = tx_seq /\ Cur = PrevSeq(tx_seq) /\ Old' = Cur
        /\ ~Arrived' /\ Arrived
    BY <1>1, <1>3 DEF Alternates, Counted, Cur, Old, Arrived, LinkTypeOK
  <2>2. Cur' # Old'
    BY <2>1, SeqRing DEF LinkTypeOK
  <2>3. Counted' /\ InOrder' /\ PeerSeq'
    BY <1>1, <1>3, <2>1 DEF Alternates, Counted, InOrder, PeerSeq, LinkTypeOK
  <2>4. \A i \in 1 .. Len(toPeer) : toPeer[i] \in Frames /\ FrameOK(toPeer[i])
    BY DEF LinkTypeOK, Alternates, FramesOK
  <2>5. \A f \in Frames : FrameOK(f) => FrameOK(f)' /\ f.data = submitted
    BY <1>1, <2>1 DEF FrameOK, Frames
  <2>6. FramesOK'
    <3>1. CASE WriteFails
      BY <2>4, <2>5, <3>1 DEF WriteFails, FramesOK, FrameOK, Alternates
    <3>2. CASE Writes(submitted')
      <4>1. PICK x \in Frames : /\ x.data = submitted + 1 /\ x.seq = tx_seq
                                /\ toPeer' = Append(toPeer, x)
        <5>1. [seq |-> tx_seq, data |-> submitted'] \in Frames
          BY <1>1, <2>1 DEF LinkTypeOK, Frames
        <5> QED
          BY <2>1, <3>2, <5>1 DEF Writes
      <4>2. FrameOK(x)'
        BY <1>1, <2>1, <4>1 DEF FrameOK
      <4>3. /\ Len(toPeer') = Len(toPeer) + 1 /\ Len(toPeer) \in Nat
            /\ \A i \in 1 .. Len(toPeer) + 1 :
                 toPeer'[i] = IF i = Len(toPeer) + 1 THEN x ELSE toPeer[i]
        BY <4>1, PutOne DEF LinkTypeOK
      <4>4. (\A i \in 1 .. Len(toPeer) : FrameOK(toPeer[i]))'
        <5> SUFFICES ASSUME NEW i \in 1 .. Len(toPeer') PROVE FrameOK(toPeer[i])'
          OBVIOUS
        <5>1. CASE i = Len(toPeer) + 1
          BY <4>2, <4>3, <5>1 DEF FrameOK
        <5>2. CASE i # Len(toPeer) + 1
          <6>1. PICK f \in Frames : f = toPeer'[i] /\ FrameOK(f)
            BY <2>4, <4>3, <5>2
          <6> QED
            BY <2>5, <6>1 DEF FrameOK
        <5> QED
          BY <5>1, <5>2
      <4>5. \A i \in 1 .. Len(toPeer) : toPeer[i].data = submitted
        BY <2>4, <2>5
      <4>6. \A i, j \in 1 .. Len(toPeer') : i < j => toPeer'[i].data <= toPeer'[j].data
        BY <1>1, <4>1, <4>3, <4>5
      <4> QED
        BY <4>4, <4>6 DEF FramesOK
    <3> QED
      BY <1>1, <3>1, <3>2
  <2>7. \A i \in 1 .. Len(toUs) : toUs[i] = Nack \/ toUs[i] = Cur
    BY <1>3 DEF Alternates, AnswersOK, AnswerOK
  <2>8. Cur' # Nack /\ toUs' = toUs /\ acked' # submitted'
    BY <1>1, <1>3, <2>1, SentinelAssumption DEF LinkTypeOK
  <2>9. AnswersOK'
    BY <2>1, <2>2, <2>7, <2>8 DEF AnswersOK, AnswerOK
  <2> QED
    BY <2>3, <2>6, <2>9 DEF Alternates
<1> QED
  BY <1>2, <1>3

LEMMA NackAlternates ==
  ASSUME LinkTypeOK, Alternates, frame_link_on_nack
  PROVE  Alternates'
<1>1. Frozen /\ toUs # <<>> /\ toUs' = Tail(toUs)
  BY DEF frame_link_on_nack, Frozen, receiver
<1>2. AnswersOK'
  BY <1>1, FrozenTerms, TakenAnswer DEF Alternates
<1>3. CASE state = "AWAITING_ACK" /\ link_retransmit
  BY <1>1, <1>2, <1>3, Resent DEF Alternates
<1>4. CASE UNCHANGED <<state, toPeer>>
  <2>1. FramesOK'
    BY <1>1, <1>4, FrozenTerms DEF Alternates, FramesOK
  <2> QED
    BY <1>1, <1>2, <1>4, <2>1, FrozenParts DEF Alternates, Counted
<1> QED
  BY <1>3, <1>4 DEF frame_link_on_nack

LEMMA AckAlternates ==
  ASSUME LinkTypeOK, Alternates, frame_link_on_ack
  PROVE  Alternates'
<1>1. /\ toUs # <<>> /\ toUs' = Tail(toUs) /\ Head(toUs) # Nack
      /\ UNCHANGED <<submitted, rx_last, delivered, toPeer>>
  BY DEF frame_link_on_ack, receiver
<1>2. CASE Matches(Head(toUs))
  <2>1. /\ acked # submitted /\ Cur = tx_seq /\ Head(toUs) = Cur
        /\ state' = "IDLE" /\ acked' = submitted /\ tx_seq' = NextSeq(tx_seq)
    BY <1>2 DEF Alternates, Counted, Matches, Cur, frame_link_on_ack
  <2>2. Cur' = Cur
    BY <1>1, <2>1, SeqRing DEF Cur, LinkTypeOK
  <2>3. Arrived /\ Arrived' /\ Old' = Old
    <3>1. AnswerOK(Head(toUs))
      BY <1>1, TakeOne DEF Alternates, AnswersOK, LinkTypeOK
    <3> QED
      BY <1>1, <2>1, <2>2, <3>1, CurAndOld DEF AnswerOK, Arrived, Old
  <2>4. Counted' /\ InOrder' /\ PeerSeq'
    BY <1>1, <2>1, <2>2, <2>3 DEF Alternates, Counted, InOrder, PeerSeq, Arrived, LinkTypeOK
  <2>5. FramesOK'
    BY <1>1, <2>2, <2>3 DEF Alternates, FramesOK, FrameOK
  <2>6. \A a \in Seqs \cup {Nack} : a \in {Cur, Nack} => AnswerOK(a)'
    BY <2>2, <2>3 DEF AnswerOK
  <2>7. AnswersOK'
    BY <1>1, <2>1, <2>2, <2>6, TakenAnswer DEF Alternates
  <2> QED
    BY <2>4, <2>5, <2>7 DEF Alternates
<1>3. CASE ~Matches(Head(toUs))
  <2>1. Frozen /\ state' = state
    BY <1>1, <1>3 DEF frame_link_on_ack, Frozen
  <2>2. FramesOK' /\ AnswersOK'
    BY <1>1, <2>1, FrozenTerms, TakenAnswer DEF Alternates, FramesOK
  <2> QED
    BY <2>1, <2>2, FrozenParts DEF Alternates, Counted
<1> QED
  BY <1>2, <1>3

\* A frame is fresh for the peer exactly if it is the awaited one and has not
\* arrived yet.
LEMMA Freshness ==
  ASSUME LinkTypeOK, Alternates, NEW f \in Frames, FrameOK(f)
  PROVE  /\ Arrived => ~frame_link_on_rx(f.seq) /\ f.seq = Cur
         /\ ~Arrived /\ f.data = submitted => frame_link_on_rx(f.seq) /\ f.seq = Cur
         /\ ~Arrived /\ f.data # submitted =>
              ~frame_link_on_rx(f.seq) /\ f.seq = Old
<1>1. Cur \in Seqs /\ Old \in Seqs /\ Cur # Old /\ None \notin Seqs
  BY CurAndOld, SentinelAssumption
<1>2. /\ Len(delivered) \in Nat /\ submitted \in Nat /\ f.data \in Nat
      /\ delivered = <<>> <=> Len(delivered) = 0
  BY DEF LinkTypeOK, Frames
<1>3. ~Arrived => Len(delivered) = submitted - 1
  BY <1>2 DEF Alternates, Counted, Arrived, LinkTypeOK
<1> QED
  BY <1>1, <1>2, <1>3 DEF Alternates, PeerSeq, FrameOK, Arrived, frame_link_on_rx

LEMMA ReceiveAlternates ==
  ASSUME LinkTypeOK, Alternates, PeerReceive
  PROVE  Alternates'
<1>1. PICK f \in Frames : f = Head(toPeer) /\ FrameOK(f)
  BY TakeOne DEF PeerReceive, Alternates, FramesOK, LinkTypeOK
<1>2. /\ toPeer # <<>> /\ toPeer' = Tail(toPeer) /\ Answers(f.seq)
      /\ UNCHANGED <<state, tx_seq, submitted, acked>> /\ f.seq \in Seqs
  BY <1>1 DEF PeerReceive, sender, Frames
<1>3. Cur' = Cur /\ Old' = Old /\ Cur # Old /\ Cur # Nack
  BY <1>2, CurAndOld, SentinelAssumption DEF Cur, Old, PrevSeq
<1>4. CASE frame_link_on_rx(f.seq)
  <2>1. ~Arrived /\ f.data = submitted /\ f.seq = Cur
    BY <1>1, <1>4, Freshness
  <2>2. rx_last' = Cur /\ delivered' = Append(delivered, submitted)
    BY <1>1, <1>4, <2>1 DEF PeerReceive
  <2>3. /\ Len(delivered) = submitted - 1 /\ Len(delivered') = submitted
        /\ delivered' # <<>> /\ submitted \in Nat /\ Arrived'
        /\ \A i \in 1 .. Len(delivered') :
             delivered'[i] = IF i = submitted THEN submitted ELSE delivered[i]
    BY <1>2, <2>1, <2>2, PutOne DEF Alternates, Counted, Arrived, LinkTypeOK
  <2>4. Counted' /\ InOrder' /\ PeerSeq'
    BY <1>2, <1>3, <2>2, <2>3 DEF Alternates, Counted, InOrder, PeerSeq, LinkTypeOK
  <2>5. \A g \in Frames : FrameOK(g) /\ f.data <= g.data => FrameOK(g)'
    BY <1>2, <1>3, <2>1, <2>3 DEF FrameOK, Frames
  <2>6. FramesOK'
    BY <1>1, <1>2, <2>5, TakenFrame DEF Alternates
  <2>7. AnswerOK(f.seq)' /\ \A b \in Seqs \cup {Nack} : AnswerOK(b) => AnswerOK(b)'
    BY <1>2, <1>3, <2>1, <2>3 DEF AnswerOK
  <2>8. AnswersOK'
    BY <1>2, <1>3, <2>1, <2>7, GivenAnswer DEF Alternates
  <2> QED
    BY <2>4, <2>6, <2>8 DEF Alternates
<1>5. CASE ~frame_link_on_rx(f.seq)
  <2>1. Frozen
    BY <1>1, <1>2, <1>5 DEF PeerReceive, receiver, Frozen
  <2>2. FramesOK'
    BY <1>1, <1>2, <2>1, FrozenTerms, TakenFrame DEF Alternates
  <2>3. AnswerOK(f.seq) /\ (f.seq \in {Cur, Nack} \/ ~Arrived)
    <3>1. CASE Arrived
      BY <1>1, <3>1, Freshness DEF AnswerOK
    <3>2. CASE ~Arrived
      <4>1. f.seq = Old
        BY <1>1, <1>5, <3>2, Freshness
      <4>2. acked # submitted
        BY <3>2 DEF Alternates, Counted, Arrived, LinkTypeOK
      <4> QED
        BY <3>2, <4>1, <4>2 DEF AnswerOK
    <3> QED
      BY <3>1, <3>2
  <2>4. AnswersOK'
    BY <1>2, <1>3, <2>1, <2>3, FrozenTerms, GivenAnswer DEF Alternates
  <2> QED
    BY <1>2, <2>1, <2>2, <2>4, FrozenParts DEF Alternates, Counted
<1> QED
  BY <1>4, <1>5

LEMMA LossAlternates ==
  ASSUME LinkTypeOK, Alternates, PeerRejects \/ LoseFrame
  PROVE  Alternates'
<1>1. Frozen /\ state' = state
  BY DEF PeerRejects, LoseFrame, Frozen, sender, receiver
<1>2. toPeer' = toPeer => FramesOK'
  BY <1>1, FrozenTerms DEF Alternates, FramesOK
<1>3. toPeer # <<>> /\ toPeer' = Tail(toPeer) => FramesOK'
  BY <1>1, FrozenTerms, TakenFrame DEF Alternates
<1>4. toUs' = toUs => AnswersOK'
  BY <1>1, FrozenTerms DEF Alternates, AnswersOK
<1>5. toUs # <<>> /\ toUs' = Tail(toUs) => AnswersOK'
  BY <1>1, FrozenTerms, TakenAnswer DEF Alternates
<1>6. Answers(Nack) => AnswersOK'
  <2>1. AnswerOK(Nack)' /\ Cur # Old /\ Cur # Nack
    BY CurAndOld, SentinelAssumption DEF AnswerOK
  <2> QED
    BY <1>1, <2>1, FrozenTerms, GivenAnswer DEF Alternates
<1>7. FramesOK' /\ AnswersOK'
  BY <1>2, <1>3, <1>4, <1>5, <1>6 DEF PeerRejects, LoseFrame
<1> QED
  BY <1>1, <1>7, FrozenParts DEF Alternates, Counted

LEMMA AlternatesStep ==
  ASSUME Resubmits
  PROVE  TypesAndAttempts /\ Alternates /\ [Next]_vars => Alternates'
<1> SUFFICES ASSUME LinkTypeOK, Alternates, [Next]_vars PROVE Alternates'
  BY DEF TypesAndAttempts
<1>1. CASE frame_link_tick
  <2>1. Frozen /\ toUs' = toUs /\ state = "AWAITING_ACK" /\ link_retransmit
    BY <1>1 DEF frame_link_tick, Frozen, receiver
  <2>2. AnswersOK'
    BY <2>1, FrozenTerms DEF Alternates, AnswersOK
  <2> QED
    BY <2>1, <2>2, Resent DEF Alternates
<1>2. CASE Finished \/ UNCHANGED vars
  <2>1. Frozen /\ state' = state /\ toPeer' = toPeer /\ toUs' = toUs
    BY <1>2 DEF Finished, vars, Frozen, sender, receiver
  <2>2. FramesOK' /\ AnswersOK'
    BY <2>1, FrozenTerms DEF Alternates, FramesOK, AnswersOK
  <2> QED
    BY <2>1, <2>2, FrozenParts DEF Alternates, Counted
<1> QED
  BY <1>1, <1>2, SendAlternates, AckAlternates, NackAlternates, ReceiveAlternates,
     LossAlternates DEF Next

LEMMA AlternatesInvariant == Resubmits => (Spec => []Alternates)
<1> SUFFICES ASSUME Resubmits PROVE Spec => []Alternates
  OBVIOUS
<1>1. Init => Alternates
  BY DEF Init, Alternates, Counted, InOrder, PeerSeq, FramesOK, AnswersOK, Arrived
<1>2. TypesAndAttempts /\ Alternates /\ [Next]_vars => Alternates'
  BY AlternatesStep
<1> QED
  BY <1>1, <1>2, TypesAndAttemptsInvariant, PTL DEF Spec

\* Success is never reported for a payload the other side has not processed,
\* if a payload that failed is sent again.
THEOREM SuccessMeansDelivered == Resubmits => (Spec => []AckedIsDelivered)
<1> SUFFICES ASSUME Resubmits PROVE Spec => []AckedIsDelivered
  OBVIOUS
<1>1. LinkTypeOK /\ Alternates => AckedIsDelivered
  <2> SUFFICES ASSUME LinkTypeOK, Alternates, acked # 0 PROVE \E i \in 1 .. Len(delivered) : delivered[i] = acked
    BY DEF AckedIsDelivered
  <2>1. acked \in 1 .. Len(delivered) /\ delivered[acked] = acked
    BY DEF LinkTypeOK, Alternates, Counted, InOrder
  <2> QED
    BY <2>1
<1>2. Spec => []LinkTypeOK /\ []Alternates
  BY LinkTypes, AlternatesInvariant
<1> QED
  BY <1>1, <1>2, PTL

\* ... and the two endpoints implement the channel.
THEOREM LinkIsChannel == Resubmits => (Spec => ImplementsChannel)
<1> SUFFICES ASSUME Resubmits PROVE Spec => ImplementsChannel
  OBVIOUS
<1> DEFINE Step == Channel!Submit \/ Channel!Deliver \/ Channel!Acknowledge
<1> USE DEF Channel!cvars
<1>1. Init => Channel!ChannelInit
  BY DEF Init, Channel!ChannelInit
<1>2. ASSUME LinkTypeOK, Alternates, [Next]_vars
      PROVE  [Step]_(Channel!cvars)
  <2>1. CASE frame_link_send
    BY <1>2, <2>1 DEF frame_link_send, NextPayload, receiver, Channel!Submit, Alternates,
       Counted, LinkTypeOK
  <2>2. CASE frame_link_on_ack
    <3>1. CASE Matches(Head(toUs))
      <4>1. /\ acked # submitted /\ Head(toUs) = Cur /\ Head(toUs) # Nack /\ toUs # <<>>
            /\ acked' = submitted /\ UNCHANGED <<submitted, delivered>>
        BY <1>2, <2>2, <3>1
        DEF frame_link_on_ack, receiver, Alternates, Counted, Matches, Cur
      <4>2. AnswerOK(Head(toUs)) /\ Cur # Old
        BY <1>2, <4>1, TakeOne, CurAndOld DEF Alternates, AnswersOK, LinkTypeOK
      <4>3. Arrived
        BY <4>1, <4>2 DEF AnswerOK
      <4> QED
        BY <1>2, <4>1, <4>3 DEF Channel!Acknowledge, Arrived, Alternates, Counted, LinkTypeOK
    <3>2. CASE ~Matches(Head(toUs))
      BY <2>2, <3>2 DEF frame_link_on_ack, receiver
    <3> QED
      BY <3>1, <3>2
  <2>3. CASE PeerReceive
    <3>1. PICK f \in Frames : f = Head(toPeer) /\ FrameOK(f)
      BY <1>2, <2>3, TakeOne DEF PeerReceive, Alternates, FramesOK, LinkTypeOK
    <3>2. UNCHANGED <<submitted, acked>>
      BY <2>3 DEF PeerReceive, sender
    <3>3. CASE frame_link_on_rx(f.seq)
      <4>1. ~Arrived /\ f.data = submitted
        BY <1>2, <3>1, <3>3, Freshness
      <4>2. delivered' = Append(delivered, submitted) /\ Len(delivered) = submitted - 1
        BY <1>2, <2>3, <3>1, <3>3, <4>1
        DEF PeerReceive, Arrived, Alternates, Counted, LinkTypeOK
      <4>3. Len(delivered) + 1 = submitted /\ Len(delivered) < submitted
        BY <1>2, <4>2 DEF LinkTypeOK
      <4> QED
        BY <3>2, <4>2, <4>3 DEF Channel!Deliver
    <3>4. CASE ~frame_link_on_rx(f.seq)
      BY <2>3, <3>1, <3>2, <3>4 DEF PeerReceive, receiver
    <3> QED
      BY <3>3, <3>4
  <2>4. CASE frame_link_tick \/ frame_link_on_nack \/ PeerRejects \/ LoseFrame
             \/ Finished \/ UNCHANGED vars
    BY <2>4 DEF frame_link_tick, frame_link_on_nack, PeerRejects, LoseFrame, Finished, vars,
       sender, receiver
  <2> QED
    BY <1>2, <2>1, <2>2, <2>3, <2>4 DEF Next
<1>3. Spec => []LinkTypeOK /\ []Alternates
  BY LinkTypes, AlternatesInvariant
<1> QED
  BY <1>1, <1>2, <1>3, PTL
  DEF Spec, ImplementsChannel, Channel!ChannelSpec

-----------------------------------------------------------------------------
(* The codec: induction over strings of bytes.                             *)

\* A set of naturals has a smallest element: the order of the finite subsets
\* 1 .. n is well-founded.
LEMMA SmallestOf ==
  ASSUME NEW S \in SUBSET Nat, S # {}
  PROVE  \E m \in S : \A n \in S : m <= n
<1> DEFINE Below(n) == 1 .. n
           T == {Below(n) : n \in S}
<1>1. IsWellFoundedOn(StrictSubsetOrdering(Nat), FiniteSubsetsOf(Nat))
  BY FS_StrictSubsetOrderingWellFounded
<1>2. T \subseteq FiniteSubsetsOf(Nat)
  <2> SUFFICES ASSUME NEW n \in S  PROVE Below(n) \in FiniteSubsetsOf(Nat)
    OBVIOUS
  <2>1. IsFiniteSet(1 .. n)
    BY FS_Interval
  <2> QED  BY <2>1 DEF FiniteSubsetsOf
<1>3. T # {}
  OBVIOUS
<1> HIDE DEF T
<1>4. \E x \in T : \A y \in T : <<y, x>> \notin StrictSubsetOrdering(Nat)
  BY <1>1, <1>2, <1>3, WFMin, Zenon
<1>5. PICK x \in T : \A y \in T : <<y, x>> \notin StrictSubsetOrdering(Nat)
  BY <1>4
<1>6. PICK m \in S : x = Below(m)
  BY DEF T
<1>7. ASSUME NEW n \in S, n < m  PROVE FALSE
  <2>1. Below(n) \in T  BY DEF T
  <2>2. Below(n) \subseteq Below(m) /\ Below(n) # Below(m)
    <3>1. m \in Below(m) /\ m \notin Below(n)  BY <1>7
    <3> QED  BY <3>1, <1>7
  <2>3. <<Below(n), x>> \in (SUBSET Nat) \X (SUBSET Nat)
    BY <1>6
  <2>4. <<Below(n), x>> \in StrictSubsetOrdering(Nat)
    BY <2>2, <2>3, <1>6 DEF StrictSubsetOrdering
  <2> QED  BY <2>4, <2>1, <1>5
<1> QED  BY <1>7

\* So a set with 0 and the successors of its members has all naturals.
LEMMA Induction ==
  ASSUME NEW S, 0 \in S, \A n \in Nat : n \in S => n + 1 \in S
  PROVE  Nat \subseteq S
<1> DEFINE T == Nat \ S
<1> SUFFICES ASSUME T # {}  PROVE FALSE
  OBVIOUS
<1>1. PICK m \in T : \A n \in T : m <= n
  <2>1. T \in SUBSET Nat
    OBVIOUS
  <2> HIDE DEF T
  <2> QED  BY <2>1, SmallestOf
<1>2. m # 0 /\ m - 1 \in Nat /\ m = (m - 1) + 1
  BY <1>1
<1>3. m - 1 \in S
  BY <1>1, <1>2
<1> QED  BY <1>1, <1>2, <1>3

\* What Unescaped and Stuffed have made of the first n bytes.
Start == [bytes |-> <<>>, esc |-> FALSE, bad |-> FALSE]
Unescapes(u, s, n) ==
  u = [i \in 0 .. n |-> IF i = 0 THEN Start ELSE UnescapeByte(u[i - 1], s[i])]
Stuffs(out, s, n) ==
  out = [i \in 0 .. n |-> IF i = 0 THEN <<>> ELSE out[i - 1] \o emit_stuffed(s[i])]

\* Such a function exists for every string, as far as one likes.
LEMMA UnescapesExists ==
  ASSUME NEW s, NEW n \in Nat  PROVE \E u : Unescapes(u, s, n)
<1> DEFINE S == {k \in Nat : \E u : Unescapes(u, s, k)}
<1>1. 0 \in S
  <2> DEFINE u == [i \in 0 .. 0 |-> Start]
  <2>1. \A i \in 0 .. 0 : i = 0
    OBVIOUS
  <2>2. Unescapes(u, s, 0)
    BY <2>1 DEF Unescapes
  <2> QED  BY <2>2
<1>2. ASSUME NEW k \in Nat, k \in S  PROVE k + 1 \in S
  <2>1. PICK u : Unescapes(u, s, k)
    BY <1>2
  <2> DEFINE v == [i \in 0 .. k + 1 |-> IF i = k + 1 THEN UnescapeByte(u[k], s[k + 1]) ELSE u[i]]
             w == [i \in 0 .. k + 1 |-> IF i = 0 THEN Start ELSE UnescapeByte(v[i - 1], s[i])]
  <2>2. \A i \in 0 .. k : u[i] = IF i = 0 THEN Start ELSE UnescapeByte(u[i - 1], s[i])
    BY <2>1 DEF Unescapes
  <2>3. ASSUME NEW i \in 0 .. k + 1  PROVE v[i] = w[i]
    <3>1. CASE i = 0
      BY <2>2, <3>1
    <3>2. CASE i = k + 1
      BY <3>2
    <3>3. CASE i \in 1 .. k
      <4>1. v[i] = u[i] /\ v[i - 1] = u[i - 1] /\ i # 0 /\ i \in 0 .. k
        BY <3>3
      <4> QED  BY <2>2, <4>1
    <3> QED  BY <3>1, <3>2, <3>3
  <2>4. v = w
    <3> HIDE DEF Unescapes
    <3> QED  BY <2>3
  <2>5. Unescapes(v, s, k + 1)
    BY <2>4 DEF Unescapes
  <2> QED  BY <2>5
<1> HIDE DEF S
<1>3. Nat \subseteq S
  BY <1>1, <1>2, Induction
<1> QED  BY <1>3 DEF S

\* It depends on the bytes it has read, and on no others.
LEMMA UnescapesSame ==
  ASSUME NEW s, NEW t, NEW n \in Nat, NEW m \in Nat, n <= m, \A i \in 1 .. n : s[i] = t[i],
         NEW u, Unescapes(u, s, n), NEW v, Unescapes(v, t, m)
  PROVE  u[n] = v[n]
<1> DEFINE S == {k \in Nat : k <= n => u[k] = v[k]}
<1>1. \A i \in 0 .. n : u[i] = IF i = 0 THEN Start ELSE UnescapeByte(u[i - 1], s[i])
  BY DEF Unescapes
<1>2. \A i \in 0 .. m : v[i] = IF i = 0 THEN Start ELSE UnescapeByte(v[i - 1], t[i])
  BY DEF Unescapes
<1>3. 0 \in S
  BY <1>1, <1>2
<1>4. ASSUME NEW k \in Nat, k \in S  PROVE k + 1 \in S
  <2> SUFFICES ASSUME k + 1 <= n  PROVE u[k + 1] = v[k + 1]
    OBVIOUS
  <2>1. k + 1 \in 0 .. n /\ k + 1 \in 0 .. m /\ k + 1 # 0 /\ (k + 1) - 1 = k /\ k + 1 \in 1 .. n
    OBVIOUS
  <2>2. u[k] = v[k] /\ s[k + 1] = t[k + 1]
    BY <1>4, <2>1
  <2>3. u[k + 1] = UnescapeByte(u[k], s[k + 1]) /\ v[k + 1] = UnescapeByte(v[k], t[k + 1])
    BY <1>1, <1>2, <2>1
  <2> QED  BY <2>2, <2>3
<1> HIDE DEF S
<1>5. n \in S
  BY <1>3, <1>4, Induction
<1> QED  BY <1>5 DEF S

\* Unescaped reads byte after byte.
LEMMA UnescapedStep ==
  ASSUME NEW S, NEW s \in Seq(S), NEW b \in S
  PROVE  /\ Unescaped(<<>>) = Start
         /\ Unescaped(Append(s, b)) = UnescapeByte(Unescaped(s), b)
<1> DEFINE Run(t) == CHOOSE u : Unescapes(u, t, Len(t))
<1>1. ASSUME NEW t, Len(t) \in Nat  PROVE Unescapes(Run(t), t, Len(t)) /\ Unescaped(t) = Run(t)[Len(t)]
  <2>1. Unescapes(Run(t), t, Len(t))
    BY <1>1, UnescapesExists
  <2>2. Unescaped(t) = Run(t)[Len(t)]
    BY DEF Unescaped, Unescapes, Start
  <2> QED  BY <2>1, <2>2
<1> HIDE DEF Run
<1>2. Unescaped(<<>>) = Start
  <2>1. Len(<<>>) = 0
    OBVIOUS
  <2>2. Unescapes(Run(<<>>), <<>>, 0) /\ Unescaped(<<>>) = Run(<<>>)[0]
    BY <1>1, <2>1
  <2>3. 0 \in 0 .. 0
    OBVIOUS
  <2> QED  BY <2>2, <2>3 DEF Unescapes
<1> DEFINE t == Append(s, b)
           n == Len(s)
<1>3. t \in Seq(S) /\ Len(t) = n + 1 /\ n \in Nat /\ t[n + 1] = b /\ \A i \in 1 .. n : s[i] = t[i]
  OBVIOUS
<1>4. /\ Unescapes(Run(s), s, n) /\ Unescapes(Run(t), t, n + 1)
      /\ Unescaped(s) = Run(s)[n] /\ Unescaped(t) = Run(t)[n + 1]
  <2>1. Unescapes(Run(s), s, n) /\ Unescaped(s) = Run(s)[n]
    BY <1>1, <1>3
  <2>2. Len(t) \in Nat /\ Len(t) = n + 1
    BY <1>3
  <2> HIDE DEF t
  <2>3. Unescapes(Run(t), t, Len(t)) /\ Unescaped(t) = Run(t)[Len(t)]
    BY <1>1, <2>2
  <2> QED  BY <2>1, <2>2, <2>3
<1>5. Run(s)[n] = Run(t)[n]
  <2> HIDE DEF t, n
  <2> QED  BY <1>3, <1>4, UnescapesSame
<1>6. Run(t)[n + 1] = UnescapeByte(Run(t)[n], t[n + 1])
  <2>1. n + 1 \in 0 .. n + 1 /\ n + 1 # 0 /\ (n + 1) - 1 = n
    BY <1>3
  <2> HIDE DEF t, n
  <2> QED  BY <1>4, <2>1 DEF Unescapes
<1> QED
  BY <1>2, <1>3, <1>4, <1>5, <1>6

\* The same of Stuffed.
LEMMA StuffsExists ==
  ASSUME NEW s, NEW n \in Nat  PROVE \E u : Stuffs(u, s, n)
<1> DEFINE S == {k \in Nat : \E u : Stuffs(u, s, k)}
<1>1. 0 \in S
  <2> DEFINE u == [i \in 0 .. 0 |-> <<>>]
  <2>1. \A i \in 0 .. 0 : i = 0
    OBVIOUS
  <2>2. Stuffs(u, s, 0)
    BY <2>1 DEF Stuffs
  <2> QED  BY <2>2
<1>2. ASSUME NEW k \in Nat, k \in S  PROVE k + 1 \in S
  <2>1. PICK u : Stuffs(u, s, k)
    BY <1>2
  <2> DEFINE v == [i \in 0 .. k + 1 |-> IF i = k + 1 THEN u[k] \o emit_stuffed(s[k + 1]) ELSE u[i]]
             w == [i \in 0 .. k + 1 |-> IF i = 0 THEN <<>> ELSE v[i - 1] \o emit_stuffed(s[i])]
  <2>2. \A i \in 0 .. k : u[i] = IF i = 0 THEN <<>> ELSE u[i - 1] \o emit_stuffed(s[i])
    BY <2>1 DEF Stuffs
  <2>3. ASSUME NEW i \in 0 .. k + 1  PROVE v[i] = w[i]
    <3>1. CASE i = 0
      BY <2>2, <3>1
    <3>2. CASE i = k + 1
      BY <3>2
    <3>3. CASE i \in 1 .. k
      <4>1. v[i] = u[i] /\ v[i - 1] = u[i - 1] /\ i # 0 /\ i \in 0 .. k
        BY <3>3
      <4> QED  BY <2>2, <4>1
    <3> QED  BY <3>1, <3>2, <3>3
  <2>4. v = w
    <3> HIDE DEF Stuffs
    <3> QED  BY <2>3
  <2>5. Stuffs(v, s, k + 1)
    BY <2>4 DEF Stuffs
  <2> QED  BY <2>5
<1> HIDE DEF S
<1>3. Nat \subseteq S
  BY <1>1, <1>2, Induction
<1> QED  BY <1>3 DEF S

\* It depends on the bytes it has written, and on no others.
LEMMA StuffsSame ==
  ASSUME NEW s, NEW t, NEW n \in Nat, NEW m \in Nat, n <= m, \A i \in 1 .. n : s[i] = t[i],
         NEW u, Stuffs(u, s, n), NEW v, Stuffs(v, t, m)
  PROVE  u[n] = v[n]
<1> DEFINE S == {k \in Nat : k <= n => u[k] = v[k]}
<1>1. \A i \in 0 .. n : u[i] = IF i = 0 THEN <<>> ELSE u[i - 1] \o emit_stuffed(s[i])
  BY DEF Stuffs
<1>2. \A i \in 0 .. m : v[i] = IF i = 0 THEN <<>> ELSE v[i - 1] \o emit_stuffed(t[i])
  BY DEF Stuffs
<1>3. 0 \in S
  BY <1>1, <1>2
<1>4. ASSUME NEW k \in Nat, k \in S  PROVE k + 1 \in S
  <2> SUFFICES ASSUME k + 1 <= n  PROVE u[k + 1] = v[k + 1]
    OBVIOUS
  <2>1. k + 1 \in 0 .. n /\ k + 1 \in 0 .. m /\ k + 1 # 0 /\ (k + 1) - 1 = k /\ k + 1 \in 1 .. n
    OBVIOUS
  <2>2. u[k] = v[k] /\ s[k + 1] = t[k + 1]
    BY <1>4, <2>1
  <2>3. u[k + 1] = u[k] \o emit_stuffed(s[k + 1]) /\ v[k + 1] = v[k] \o emit_stuffed(t[k + 1])
    BY <1>1, <1>2, <2>1
  <2> QED  BY <2>2, <2>3
<1> HIDE DEF S
<1>5. n \in S
  BY <1>3, <1>4, Induction
<1> QED  BY <1>5 DEF S

\* Stuffed writes byte after byte.
LEMMA StuffedStep ==
  ASSUME NEW S, NEW s \in Seq(S), NEW b \in S
  PROVE  /\ Stuffed(<<>>) = <<>>
         /\ Stuffed(Append(s, b)) = Stuffed(s) \o emit_stuffed(b)
<1> DEFINE Run(t) == CHOOSE u : Stuffs(u, t, Len(t))
<1>1. ASSUME NEW t, Len(t) \in Nat  PROVE Stuffs(Run(t), t, Len(t)) /\ Stuffed(t) = Run(t)[Len(t)]
  <2>1. Stuffs(Run(t), t, Len(t))
    BY <1>1, StuffsExists
  <2>2. Stuffed(t) = Run(t)[Len(t)]
    BY DEF Stuffed, Stuffs
  <2> QED  BY <2>1, <2>2
<1> HIDE DEF Run
<1>2. Stuffed(<<>>) = <<>>
  <2>1. Len(<<>>) = 0
    OBVIOUS
  <2>2. Stuffs(Run(<<>>), <<>>, 0) /\ Stuffed(<<>>) = Run(<<>>)[0]
    BY <1>1, <2>1
  <2>3. 0 \in 0 .. 0
    OBVIOUS
  <2> QED  BY <2>2, <2>3 DEF Stuffs
<1> DEFINE t == Append(s, b)
           n == Len(s)
<1>3. t \in Seq(S) /\ Len(t) = n + 1 /\ n \in Nat /\ t[n + 1] = b /\ \A i \in 1 .. n : s[i] = t[i]
  OBVIOUS
<1>4. /\ Stuffs(Run(s), s, n) /\ Stuffs(Run(t), t, n + 1)
      /\ Stuffed(s) = Run(s)[n] /\ Stuffed(t) = Run(t)[n + 1]
  <2>1. Stuffs(Run(s), s, n) /\ Stuffed(s) = Run(s)[n]
    BY <1>1, <1>3
  <2>2. Len(t) \in Nat /\ Len(t) = n + 1
    BY <1>3
  <2> HIDE DEF t
  <2>3. Stuffs(Run(t), t, Len(t)) /\ Stuffed(t) = Run(t)[Len(t)]
    BY <1>1, <2>2
  <2> QED  BY <2>1, <2>2, <2>3
<1>5. Run(s)[n] = Run(t)[n]
  <2> HIDE DEF t, n
  <2> QED  BY <1>3, <1>4, StuffsSame
<1>6. Run(t)[n + 1] = Run(t)[n] \o emit_stuffed(t[n + 1])
  <2>1. n + 1 \in 0 .. n + 1 /\ n + 1 # 0 /\ (n + 1) - 1 = n
    BY <1>3
  <2> HIDE DEF t, n
  <2> QED  BY <1>4, <2>1 DEF Stuffs
<1> QED
  BY <1>2, <1>3, <1>4, <1>5, <1>6
-----------------------------------------------------------------------------
(* The codec: numbers of two bytes, and frames byte by byte.               *)

\* Two bytes, low one first, are a number, and the number has these bytes.
LEMMA TwoBytes ==
  ASSUME NEW a \in Byte, NEW b \in Byte
  PROVE  /\ a + Base * b \in 0 .. Base * Base - 1
         /\ (a + Base * b) % Base = a /\ (a + Base * b) \div Base = b
<1>1. Base \in Nat /\ Base > 1 /\ a \in Nat /\ a < Base /\ b \in Nat /\ b <= Base - 1
  BY SMT, CodecAssumption DEF Byte
<1> DEFINE x == a + Base * b
<1>2. Base * b \in Nat /\ Base * Base \in Nat /\ Base * b <= Base * Base - Base
  <2>1. Base * (Base - 1 - b) = Base * Base - Base - Base * b /\ Base * (Base - 1 - b) >= 0
    BY SMT, <1>1
  <2> QED  BY SMT, <1>1, <2>1
<1>3. x \in Nat /\ x < Base * Base
  BY SMT, <1>1, <1>2
<1>4. x = Base * (x \div Base) + (x % Base) /\ x \div Base \in Nat /\ x % Base \in 0 .. Base - 1
  BY SMT, <1>1, <1>3
<1> DEFINE q == x \div Base
           r == x % Base
<1>5. q = b
  <2>1. Base * q + r = Base * b + a /\ q \in Nat /\ r \in Nat /\ r < Base
    BY SMT, <1>1, <1>2, <1>4
  <2> HIDE DEF q, r, x
  <2>2. CASE q < b
    <3>1. Base * (b - q) >= Base /\ Base * (b - q) = Base * b - Base * q
      BY SMT, <1>1, <2>1, <2>2
    <3> QED  BY SMT, <1>1, <1>2, <2>1, <3>1
  <2>3. CASE q > b
    <3>1. Base * (q - b) >= Base /\ Base * (q - b) = Base * q - Base * b
      BY SMT, <1>1, <2>1, <2>3
    <3> QED  BY SMT, <1>1, <1>2, <2>1, <3>1
  <2> QED  BY SMT, <1>1, <2>1, <2>2, <2>3
<1>6. r = a
  <2> HIDE DEF q, r
  <2>1. Base * q + r = Base * b + a /\ r \in Nat
    BY SMT, <1>1, <1>2, <1>4 DEF q, r
  <2> QED  BY SMT, <1>1, <1>2, <1>5, <2>1
<1> QED
  BY SMT, <1>1, <1>2, <1>3, <1>5, <1>6

\* A number below Base * Base is made of its two bytes.
LEMMA BytesOf ==
  ASSUME NEW n \in Nat, n < Base * Base
  PROVE  n % Base \in Byte /\ n \div Base \in Byte /\ (n % Base) + Base * (n \div Base) = n
<1>1. Base \in Nat /\ Base > 1
  BY SMT, CodecAssumption
<1>2. n = Base * (n \div Base) + (n % Base) /\ n \div Base \in Nat /\ n % Base \in 0 .. Base - 1
  BY SMT, <1>1
<1>3. n \div Base < Base
  <2> DEFINE q == n \div Base
  <2>1. q \in Nat /\ Base * q <= n
    BY SMT, <1>1, <1>2
  <2> HIDE DEF q
  <2>2. CASE q >= Base
    <3>1. Base * q >= Base * Base
      BY SMT, <1>1, <2>1, <2>2
    <3> QED  BY SMT, <1>1, <2>1, <3>1
  <2> QED  BY SMT, <1>1, <2>1, <2>2 DEF q
<1>4. n % Base \in Byte /\ n \div Base \in Byte
  <2> DEFINE q == n \div Base
             r == n % Base
  <2>1. q \in Nat /\ q < Base /\ r \in 0 .. Base - 1
    BY SMT, <1>2, <1>3
  <2> HIDE DEF q, r
  <2>2. q \in Byte /\ r \in Byte
    BY SMT, <1>1, <2>1 DEF Byte
  <2> QED  BY <2>2 DEF q, r
<1> QED
  BY SMT, <1>1, <1>2, <1>4

\* The parts of a message.
LEMMA MessageType ==
  ASSUME NEW f \in Messages
  PROVE  /\ f.payload \in Seq(Byte) /\ Len(f.payload) \in 0 .. BufSize
         /\ f.seq \in Byte /\ f.type \in 0 .. TypeMax /\ f.type \in Byte
         /\ Header(f) \in Seq(Byte) /\ Header(f) \o f.payload \in Seq(Byte)
         /\ Checksum(Header(f) \o f.payload) \in 0 .. Base * Base - 1
<1>1. PICK n \in 0 .. BufSize : f.payload \in [1 .. n -> Byte]
  BY DEF Messages
<1>2. f.payload \in Seq(Byte) /\ Len(f.payload) = n
  BY <1>1, CodecAssumption
<1>3. f.seq \in Byte /\ f.type \in 0 .. TypeMax
  BY DEF Messages
<1>4. f.type \in Byte
  BY SMT, <1>3, CodecAssumption DEF Byte
<1>5. n \in Nat /\ n < Base * Base
  BY SMT, CodecAssumption
<1>6. n % Base \in Byte /\ n \div Base \in Byte
  BY <1>5, BytesOf
<1>7. Header(f) \in Seq(Byte)
  BY <1>2, <1>3, <1>4, <1>6 DEF Header
<1>8. Header(f) \o f.payload \in Seq(Byte)
  BY <1>2, <1>7, ConcatProperties
<1> QED
  BY <1>2, <1>3, <1>4, <1>7, <1>8, CrcAssumption

\* Where the bytes of a frame are.
Reads(u, f) ==
  LET n == Len(f.payload)
      crc == Checksum(Header(f) \o f.payload)
  IN  /\ Len(u) = 6 + n
      /\ u[1] = f.seq /\ u[2] = f.type /\ u[3] = n % Base /\ u[4] = n \div Base
      /\ \A i \in 1 .. n : u[4 + i] = f.payload[i]
      /\ u[5 + n] = crc % Base /\ u[6 + n] = crc \div Base

\* The content of a message has the bytes of its frame, in their places.
LEMMA ContentReads ==
  ASSUME NEW f \in Messages
  PROVE  Content(f) \in Seq(Byte) /\ Reads(Content(f), f)
<1> DEFINE n == Len(f.payload)
           crc == Checksum(Header(f) \o f.payload)
           body == Header(f) \o f.payload
<1>1. n \in Nat /\ f.payload \in Seq(Byte) /\ Header(f) \in Seq(Byte) /\ body \in Seq(Byte)
  BY SMT, MessageType, CodecAssumption
<1>2. Trailer(crc) \in Seq(Byte) /\ Len(Trailer(crc)) = 2
      /\ Trailer(crc)[1] = crc % Base /\ Trailer(crc)[2] = crc \div Base
  <2>1. crc \in Nat /\ crc < Base * Base
    BY SMT, MessageType, CodecAssumption
  <2> HIDE DEF crc
  <2>2. crc % Base \in Byte /\ crc \div Base \in Byte
    BY <2>1, BytesOf
  <2> QED  BY <2>2 DEF Trailer
<1>3. /\ Len(Header(f)) = 4 /\ Header(f)[1] = f.seq /\ Header(f)[2] = f.type
      /\ Header(f)[3] = n % Base /\ Header(f)[4] = n \div Base
  BY DEF Header
<1>4. /\ Len(body) = 4 + n
      /\ \A i \in 1 .. 4 + n : body[i] = IF i <= 4 THEN Header(f)[i] ELSE f.payload[i - 4]
  <2> DEFINE h == Header(f)
             p == f.payload
  <2>1. h \in Seq(Byte) /\ p \in Seq(Byte) /\ Len(h) = 4 /\ n = Len(p)
    BY <1>1, <1>3
  <2> HIDE DEF h, p
  <2>2. /\ Len(h \o p) = Len(h) + Len(p)
        /\ \A i \in 1 .. Len(h) + Len(p) : (h \o p)[i] = IF i <= Len(h) THEN h[i] ELSE p[i - Len(h)]
    BY <2>1, ConcatProperties
  <2>3. /\ Len(h \o p) = 4 + Len(p)
        /\ \A i \in 1 .. 4 + Len(p) : (h \o p)[i] = IF i <= 4 THEN h[i] ELSE p[i - 4]
    BY <2>1, <2>2
  <2> QED  BY <2>3 DEF h, p
<1>5. /\ body \o Trailer(crc) \in Seq(Byte) /\ Len(body \o Trailer(crc)) = 6 + n
      /\ \A i \in 1 .. 6 + n :
           (body \o Trailer(crc))[i] = IF i <= 4 + n THEN body[i] ELSE Trailer(crc)[i - (4 + n)]
  <2> DEFINE t == Trailer(crc)
  <2>1. body \in Seq(Byte) /\ t \in Seq(Byte) /\ Len(t) = 2 /\ Len(body) = 4 + n /\ n \in Nat
    BY <1>1, <1>2, <1>4
  <2> HIDE DEF body, crc, n, t
  <2>2. /\ body \o t \in Seq(Byte) /\ Len(body \o t) = Len(body) + Len(t)
        /\ \A i \in 1 .. Len(body) + Len(t) :
             (body \o t)[i] = IF i <= Len(body) THEN body[i] ELSE t[i - Len(body)]
    BY <2>1, ConcatProperties
  <2>3. Len(body) + Len(t) = 6 + n
    BY <2>1
  <2>4. /\ body \o t \in Seq(Byte) /\ Len(body \o t) = 6 + n
        /\ \A i \in 1 .. 6 + n : (body \o t)[i] = IF i <= 4 + n THEN body[i] ELSE t[i - (4 + n)]
    BY <2>1, <2>2, <2>3
  <2> QED  BY <2>4 DEF t
<1>6. Content(f) = body \o Trailer(crc)
  BY DEF Content
<1> DEFINE c == Content(f)
<1> HIDE DEF body, crc, n
<1>8. /\ Len(c) = 6 + n /\ \A i \in 1 .. 4 + n : c[i] = body[i]
      /\ c[5 + n] = Trailer(crc)[1] /\ c[6 + n] = Trailer(crc)[2]
  <2>1. \A i \in 1 .. 6 + n : c[i] = IF i <= 4 + n THEN body[i] ELSE Trailer(crc)[i - (4 + n)]
    BY <1>5, <1>6
  <2>2. 5 + n \in 1 .. 6 + n /\ 6 + n \in 1 .. 6 + n /\ (5 + n) - (4 + n) = 1 /\ (6 + n) - (4 + n) = 2
        /\ ~(5 + n <= 4 + n) /\ ~(6 + n <= 4 + n)
    BY <1>1
  <2>3. \A i \in 1 .. 4 + n : i \in 1 .. 6 + n /\ i <= 4 + n
    BY <1>1
  <2>4. Len(c) = 6 + n
    BY <1>5, <1>6
  <2> HIDE DEF c
  <2> QED  BY <2>1, <2>2, <2>3, <2>4
<1> HIDE DEF c
<1>7. /\ c[1] = Header(f)[1] /\ c[2] = Header(f)[2] /\ c[3] = Header(f)[3] /\ c[4] = Header(f)[4]
      /\ \A i \in 1 .. n : c[4 + i] = f.payload[i]
      /\ c[5 + n] = Trailer(crc)[1] /\ c[6 + n] = Trailer(crc)[2]
  BY <1>1, <1>4, <1>8
<1> QED
  BY <1>2, <1>3, <1>5, <1>6, <1>7, <1>8 DEF Reads, c, crc, n, body

\* They say all about it.
LEMMA ReadsContent ==
  ASSUME NEW f \in Messages, NEW u \in Seq(Byte), Reads(u, f)
  PROVE  u = Content(f)
<1> DEFINE c == Content(f)
           n == Len(f.payload)
<1>1. c \in Seq(Byte) /\ Reads(c, f) /\ n \in Nat
  BY SMT, ContentReads, MessageType, CodecAssumption
<1>2. Len(u) = 6 + n /\ Len(c) = 6 + n
  BY <1>1 DEF Reads
<1>3. ASSUME NEW i \in 1 .. 6 + n  PROVE u[i] = c[i]
  <2>1. CASE i \in {1, 2, 3, 4}
    BY <1>1, <2>1 DEF Reads
  <2>2. CASE i \in 5 .. 4 + n
    <3>1. i - 4 \in 1 .. n /\ i = 4 + (i - 4)
      BY <1>1, <2>2
    <3> QED  BY <1>1, <3>1 DEF Reads
  <2>3. CASE i \in {5 + n, 6 + n}
    BY <1>1, <2>3 DEF Reads
  <2> HIDE DEF n
  <2> QED  BY <1>1, <2>1, <2>2, <2>3
<1> HIDE DEF c, n
<1>4. u = c
  BY <1>1, <1>2, <1>3, SeqEqual
<1> QED  BY <1>4 DEF c

-----------------------------------------------------------------------------
(* The codec: the encoder's output.                                        *)

\* A string and one byte, or two.
LEMMA JoinOne ==
  ASSUME NEW S, NEW q \in Seq(S), NEW x \in S
  PROVE  q \o <<x>> = Append(q, x)
OBVIOUS

LEMMA JoinTwo ==
  ASSUME NEW S, NEW q \in Seq(S), NEW x \in S, NEW y \in S
  PROVE  q \o <<x, y>> = Append(Append(q, x), y)
OBVIOUS

\* What one byte does to a line that has been read up to there.
LEMMA OneByteMore ==
  ASSUME NEW s, NEW e \in BOOLEAN, NEW d \in BOOLEAN, NEW b
  PROVE  UnescapeByte([bytes |-> s, esc |-> e, bad |-> d], b) =
           IF b = ESC THEN [bytes |-> s, esc |-> ~e, bad |-> d \/ e]
           ELSE [bytes |-> Append(s, IF e THEN Xor(b, ESC_XOR) ELSE b), esc |-> FALSE, bad |-> d]
BY DEF UnescapeByte

\* What has been stuffed can be sent and read back.
Exact(s) ==
  /\ Stuffed(s) \in Seq(Byte) /\ Len(Stuffed(s)) <= 2 * Len(s)
  /\ \A i \in 1 .. Len(Stuffed(s)) : Stuffed(s)[i] # FLAG
  /\ Unescaped(Stuffed(s)) = [bytes |-> s, esc |-> FALSE, bad |-> FALSE]

\* One byte more is read back as well.
LEMMA ExactStep ==
  ASSUME NEW s \in Seq(Byte), NEW b \in Byte, Exact(s)
  PROVE  Exact(Append(s, b))
<1> DEFINE x == Stuffed(s)
           v == Xor(b, ESC_XOR)
<1>1. x \in Seq(Byte) /\ Len(x) \in Nat /\ Len(x) <= 2 * Len(s) /\ Len(s) \in Nat
      /\ (\A i \in 1 .. Len(x) : x[i] # FLAG)
      /\ Unescaped(x) = [bytes |-> s, esc |-> FALSE, bad |-> FALSE]
  BY DEF Exact
<1>2. Stuffed(Append(s, b)) = x \o emit_stuffed(b) /\ Len(Append(s, b)) = Len(s) + 1
  BY StuffedStep
<1>3. CASE b \notin {FLAG, ESC}
  <2> HIDE DEF x
  <2>1. emit_stuffed(b) = <<b>> /\ x \o <<b>> = Append(x, b)
    BY <1>1, <1>3, JoinOne DEF emit_stuffed
  <2>2. Unescaped(Append(x, b)) = [bytes |-> Append(s, b), esc |-> FALSE, bad |-> FALSE]
    <3>1. Unescaped(Append(x, b)) = UnescapeByte([bytes |-> s, esc |-> FALSE, bad |-> FALSE], b)
      BY <1>1, UnescapedStep
    <3> QED  BY <1>3, <3>1, OneByteMore
  <2>3. Append(x, b) \in Seq(Byte) /\ Len(Append(x, b)) = Len(x) + 1
        /\ \A i \in 1 .. Len(x) + 1 : Append(x, b)[i] # FLAG
    BY <1>1, <1>3
  <2> DEFINE z == Append(x, b)
  <2> HIDE DEF z
  <2>4. Stuffed(Append(s, b)) = z
    BY <1>2, <2>1 DEF z
  <2>5. Len(z) <= 2 * (Len(s) + 1)
    BY <1>1, <2>3 DEF z
  <2> QED  BY <1>1, <1>2, <2>2, <2>3, <2>4, <2>5 DEF Exact, z
<1>4. CASE b \in {FLAG, ESC}
  <2>0. v \in Byte /\ v \notin {FLAG, ESC} /\ Xor(v, ESC_XOR) = b /\ ESC \in Byte /\ ESC # FLAG
    BY <1>4, XorAssumption, CodecAssumption
  <2> HIDE DEF x, v
  <2> DEFINE y == Append(x, ESC)
  <2>1. emit_stuffed(b) = <<ESC, v>> /\ x \o <<ESC, v>> = Append(y, v)
    BY <1>1, <1>4, <2>0, JoinTwo DEF emit_stuffed, v
  <2>2. Unescaped(y) = [bytes |-> s, esc |-> TRUE, bad |-> FALSE]
    <3>1. Unescaped(y) = UnescapeByte([bytes |-> s, esc |-> FALSE, bad |-> FALSE], ESC)
      BY <1>1, <2>0, UnescapedStep
    <3> QED  BY <3>1, OneByteMore
  <2>3. y \in Seq(Byte) /\ Len(y) = Len(x) + 1 /\ \A i \in 1 .. Len(x) + 1 : y[i] # FLAG
    BY <1>1, <2>0
  <2> HIDE DEF y
  <2>4. Unescaped(Append(y, v)) = [bytes |-> Append(s, b), esc |-> FALSE, bad |-> FALSE]
    <3>1. Unescaped(Append(y, v)) = UnescapeByte([bytes |-> s, esc |-> TRUE, bad |-> FALSE], v)
      BY <2>0, <2>2, <2>3, UnescapedStep
    <3> QED  BY <2>0, <3>1, OneByteMore
  <2>5. Append(y, v) \in Seq(Byte) /\ Len(Append(y, v)) = Len(x) + 2
        /\ \A i \in 1 .. Len(x) + 2 : Append(y, v)[i] # FLAG
    BY <1>1, <2>0, <2>3
  <2> DEFINE z == Append(y, v)
  <2> HIDE DEF z
  <2>6. Stuffed(Append(s, b)) = z
    BY <1>2, <2>1 DEF z
  <2>7. Len(z) <= 2 * (Len(s) + 1)
    BY <1>1, <2>5 DEF z
  <2> QED  BY <1>1, <1>2, <2>4, <2>5, <2>6, <2>7 DEF Exact, z
<1> QED
  BY <1>3, <1>4

\* So every string is.
LEMMA AllExact ==
  ASSUME NEW s \in Seq(Byte)  PROVE Exact(s)
<1> DEFINE S == {n \in Nat : \A t \in Seq(Byte) : Len(t) = n => Exact(t)}
<1>1. 0 \in S
  <2> SUFFICES ASSUME NEW t \in Seq(Byte), Len(t) = 0  PROVE Exact(t)
    OBVIOUS
  <2>1. t = <<>> /\ <<>> \in Seq(Byte) /\ Len(<<>>) = 0
    BY EmptySeq
  <2>2. Stuffed(<<>>) = <<>> /\ Unescaped(<<>>) = Start
    <3>1. ESC \in Byte
      BY CodecAssumption
    <3> QED  BY <2>1, <3>1, UnescapedStep, StuffedStep
  <2>3. Len(Stuffed(<<>>)) = 0 /\ Stuffed(<<>>) \in Seq(Byte)
    BY <2>1, <2>2
  <2>4. Unescaped(Stuffed(<<>>)) = [bytes |-> <<>>, esc |-> FALSE, bad |-> FALSE]
    BY <2>2 DEF Start
  <2>5. \A i \in 1 .. Len(Stuffed(<<>>)) : Stuffed(<<>>)[i] # FLAG
    BY <2>3
  <2>6. Len(Stuffed(<<>>)) <= 2 * Len(<<>>)
    BY <2>1, <2>3
  <2>7. Exact(<<>>)
    BY <2>3, <2>4, <2>5, <2>6 DEF Exact
  <2> QED  BY <2>1, <2>7
<1>2. ASSUME NEW n \in Nat, n \in S  PROVE n + 1 \in S
  <2> SUFFICES ASSUME NEW t \in Seq(Byte), Len(t) = n + 1  PROVE Exact(t)
    OBVIOUS
  <2> DEFINE r == SubSeq(t, 1, n)
             b == t[n + 1]
  <2>1. r \in Seq(Byte) /\ Len(r) = n /\ b \in Byte /\ t = Append(r, b)
    OBVIOUS
  <2>2. Exact(r)
    BY <1>2, <2>1
  <2> HIDE DEF r, b
  <2> QED  BY <2>1, <2>2, ExactStep
<1> HIDE DEF S
<1>3. Nat \subseteq S
  BY <1>1, <1>2, Induction
<1>4. Len(s) \in S
  BY <1>3
<1> QED  BY <1>4 DEF S

\* Every message that frame_encode takes is, between its FLAGs, the bytes that
\* decode to it, and fits into the worst case asked of the caller, for every size
\* of byte and payload and every checksum (EncodedIsDecoded).
LEMMA EncoderIsExact == EncodedIsDecoded
<1> SUFFICES ASSUME NEW f \in Messages
             PROVE  LET out == frame_encode(f)
                        inner == SubSeq(out, 2, Len(out) - 1)
                    IN  /\ Len(out) <= WorstCase(Len(f.payload))
                        /\ \A i \in 1 .. Len(inner) : inner[i] # FLAG
                        /\ IsFrame(inner, f)
  BY DEF EncodedIsDecoded
<1> DEFINE c == Content(f)
           x == Stuffed(c)
           out == <<FLAG>> \o x \o <<FLAG>>
           inner == SubSeq(out, 2, Len(out) - 1)
<1>1. c \in Seq(Byte) /\ Len(c) = 6 + Len(f.payload) /\ Len(f.payload) \in Nat
  <2>1. c \in Seq(Byte) /\ Reads(c, f)
    BY ContentReads
  <2>2. Len(c) = 6 + Len(f.payload)
    BY <2>1 DEF Reads
  <2>3. Len(f.payload) \in Nat
    BY SMT, MessageType, CodecAssumption
  <2> QED  BY <2>1, <2>2, <2>3
<1> HIDE DEF c
<1>2. Exact(c)
  BY <1>1, AllExact
<1>3. x \in Seq(Byte) /\ Len(x) \in Nat
  BY <1>2 DEF Exact
<1>4. Len(out) = Len(x) + 2 /\ inner = x
  <2> HIDE DEF x
  <2>1. Len(out) = Len(x) + 2 /\ \A i \in 1 .. Len(x) : out[i + 1] = x[i]
    BY <1>3
  <2> HIDE DEF out
  <2>2. inner \in Seq(Byte) /\ Len(inner) = Len(x) /\ \A i \in 1 .. Len(x) : inner[i] = x[i]
    <3>1. \A i \in 2 .. Len(x) + 1 : out[i] \in Byte
      <4> SUFFICES ASSUME NEW i \in 2 .. Len(x) + 1  PROVE out[i] \in Byte
        OBVIOUS
      <4>1. i - 1 \in 1 .. Len(x) /\ i = (i - 1) + 1
        BY <1>3
      <4>2. out[(i - 1) + 1] = x[i - 1] /\ x[i - 1] \in Byte
        BY <1>3, <2>1, <4>1, ElementOfSeq
      <4> QED  BY <4>1, <4>2
    <3>2. Len(out) - 1 = Len(x) + 1
      BY <1>3, <2>1
    <3> QED  BY <1>3, <2>1, <3>1, <3>2, SubSeqProperties
  <2> HIDE DEF inner
  <2> QED  BY <1>3, <2>1, <2>2, SeqEqual
<1>5. Len(x) + 2 <= WorstCase(Len(f.payload))
  <2>1. Len(x) <= 2 * Len(c)
    BY <1>2 DEF Exact
  <2> HIDE DEF x, c
  <2> QED  BY SMT, <1>1, <1>3, <2>1 DEF WorstCase
<1>6. \A i \in 1 .. Len(x) : x[i] # FLAG
  BY <1>2 DEF Exact
<1>7. IsFrame(x, f)
  BY <1>2 DEF Exact, IsFrame, c
<1>8. frame_encode(f) = out
  BY DEF frame_encode, c
<1> HIDE DEF x, out, inner
<1>9. Len(out) <= WorstCase(Len(f.payload)) /\ (\A i \in 1 .. Len(inner) : inner[i] # FLAG) /\ IsFrame(inner, f)
  BY <1>4, <1>5, <1>6, <1>7
<1> QED
  BY <1>8, <1>9 DEF inner

-----------------------------------------------------------------------------
(* The codec: what the decoder knows of the bytes since the FLAG.          *)

Lines == [bytes : Seq(Byte), esc : BOOLEAN, bad : BOOLEAN]

DecoderTypes ==
  /\ in_frame \in BOOLEAN /\ in_escape \in BOOLEAN /\ dropping \in BOOLEAN /\ closed \in BOOLEAN
  /\ field_idx \in 0 .. 4 /\ seq \in Byte /\ type \in Byte
  /\ declared_len \in Nat /\ declared_len < Base * Base
  /\ payload \in Seq(Byte) /\ Len(payload) <= BufSize
  /\ crc_bytes \in Seq(Byte) /\ Len(crc_bytes) <= 2
  /\ raw \in Seq(Byte) /\ Unescaped(raw) \in Lines

Cleared ==
  /\ field_idx = 0 /\ seq = 0 /\ type = 0 /\ declared_len = 0
  /\ payload = <<>> /\ crc_bytes = <<>> /\ in_escape = FALSE /\ dropping = FALSE

\* The decoder has stored the unescaped bytes u.
Stored(u) ==
  /\ field_idx < 4 => Len(u) = field_idx /\ payload = <<>> /\ crc_bytes = <<>>
  /\ field_idx = 4 =>
       /\ Len(u) = 4 + Len(payload) + Len(crc_bytes)
       /\ declared_len = u[3] + Base * u[4] /\ declared_len <= BufSize
       /\ Len(payload) <= declared_len
       /\ crc_bytes # <<>> => Len(payload) = declared_len
  /\ field_idx > 0 => seq = u[1]
  /\ field_idx > 1 => type = u[2]
  /\ field_idx = 3 => declared_len = u[3]
  /\ \A i \in 1 .. Len(payload) : payload[i] = u[4 + i]
  /\ \A i \in 1 .. Len(crc_bytes) : crc_bytes[i] = u[4 + Len(payload) + i]

\* Whatever follows, this will be no frame.
TooMuch(u) ==
  /\ Len(u) >= 4
  /\ u[3] + Base * u[4] > BufSize \/ Len(u) > 6 + u[3] + Base * u[4]
Hopeless(line) == line.bad \/ TooMuch(line.bytes)

\* One error has been reported, or none.
Reported == \E err \in {"OVERSIZE", "TRUNC"} : heard = <<Error(err)>>

Reading ==
  /\ in_escape = Unescaped(raw).esc
  /\ raw # <<>> => Unescaped(raw).bytes # <<>> \/ Unescaped(raw).esc \/ Unescaped(raw).bad
  /\ ~dropping => heard = <<>> /\ ~Unescaped(raw).bad /\ Stored(Unescaped(raw).bytes)
  /\ dropping => Reported /\ Hopeless(Unescaped(raw))

DecoderInv ==
  /\ DecoderTypes
  /\ ~in_frame => ~closed /\ raw = <<>> /\ heard = <<>>
  /\ closed => in_frame /\ Cleared /\ FramesAreExact
  /\ in_frame /\ ~closed => Reading

FieldTypes ==
  /\ dropping \in BOOLEAN /\ field_idx \in 0 .. 4 /\ seq \in Byte /\ type \in Byte
  /\ declared_len \in Nat /\ declared_len < Base * Base
  /\ payload \in Seq(Byte) /\ Len(payload) <= BufSize
  /\ crc_bytes \in Seq(Byte) /\ Len(crc_bytes) <= 2

\* What decoder_consume_byte does with a byte of a frame that is not dropped.
Consumed(u, v) ==
  /\ FieldTypes'
  /\ ~dropping' => heard' = <<>> /\ Stored(Append(u, v))'
  /\ dropping' => Reported' /\ TooMuch(Append(u, v))

\* A header byte: a length too large for the buffer drops the frame.
LEMMA HeaderStep ==
  ASSUME FieldTypes, NEW u \in Seq(Byte), NEW v \in Byte,
         ~dropping, heard = <<>>, Stored(u), HeaderByte(v)
  PROVE  Consumed(u, v)
<1> DEFINE w == Append(u, v)
<1>1. /\ field_idx \in 0 .. 3 /\ field_idx' = field_idx + 1 /\ Len(u) = field_idx
      /\ payload = <<>> /\ crc_bytes = <<>> /\ payload' = payload /\ crc_bytes' = crc_bytes
      /\ seq' = IF field_idx = 0 THEN v ELSE seq
      /\ type' = IF field_idx = 1 THEN v ELSE type
      /\ declared_len' = IF field_idx = 2 THEN v
                         ELSE IF field_idx = 3 THEN declared_len + Base * v ELSE declared_len
  BY DEF HeaderByte, FieldTypes, Stored, Drop
<1>2. Len(w) = field_idx + 1 /\ w[field_idx + 1] = v /\ \A i \in 1 .. field_idx : w[i] = u[i]
  BY <1>1
<1>3. Base \in Nat /\ BufSize \in Nat /\ \A b \in Byte : b \in Nat /\ b < Base /\ b < Base * Base
  <2>1. Base \in Nat /\ Base > 1 /\ BufSize \in Nat
    BY SMT, CodecAssumption
  <2>2. Base <= Base * Base
    BY SMT, <2>1
  <2> QED  BY SMT, <2>1, <2>2 DEF Byte
<1>4. declared_len' \in Nat /\ declared_len' < Base * Base
  <2>1. CASE field_idx = 3
    <3>1. declared_len \in Byte
      <4>1. declared_len = u[3] /\ 3 \in 1 .. Len(u)
        BY <1>1, <2>1 DEF Stored
      <4> QED  BY <4>1, ElementOfSeq
    <3>2. declared_len + Base * v \in 0 .. Base * Base - 1
      BY <3>1, TwoBytes
    <3>3. Base * Base \in Nat
      BY SMT, <1>3
    <3> QED  BY SMT, <1>1, <2>1, <3>2, <3>3
  <2>2. CASE field_idx # 3
    BY <1>1, <1>3, <2>2 DEF FieldTypes
  <2> QED  BY <2>1, <2>2
<1>5. FieldTypes'
  <2>1. dropping' \in BOOLEAN
    BY DEF HeaderByte, Drop, FieldTypes
  <2>2. field_idx' \in 0 .. 4 /\ seq' \in Byte /\ type' \in Byte
    BY <1>1 DEF FieldTypes
  <2>3. payload' \in Seq(Byte) /\ Len(payload') <= BufSize /\ crc_bytes' \in Seq(Byte) /\ Len(crc_bytes') <= 2
    BY <1>1 DEF FieldTypes
  <2> QED  BY <1>4, <2>1, <2>2, <2>3 DEF FieldTypes
<1>6. field_idx = 3 => declared_len' = w[3] + Base * w[4]
  <2> SUFFICES ASSUME field_idx = 3  PROVE declared_len' = w[3] + Base * w[4]
    OBVIOUS
  <2>1. w[3] = u[3] /\ w[4] = v /\ declared_len = u[3]
    BY <1>1, <1>2 DEF Stored
  <2> QED  BY <1>1, <2>1
<1>7. ASSUME dropping'  PROVE Reported' /\ TooMuch(w)
  <2>1. field_idx = 3 /\ declared_len' > BufSize /\ heard' = Append(<<>>, Error("OVERSIZE"))
    BY <1>7 DEF HeaderByte, Drop, TooLong
  <2>2. heard' = <<Error("OVERSIZE")>>
    BY <2>1
  <2> QED  BY <1>2, <1>6, <2>1, <2>2 DEF Reported, TooMuch
<1>8. ASSUME ~dropping'  PROVE heard' = <<>> /\ Stored(w)'
  <2>1. heard' = <<>> /\ (field_idx = 3 => declared_len' <= BufSize)
    BY <1>3, <1>4, <1>8 DEF HeaderByte, Drop, TooLong
  <2>2. field_idx' = 4 <=> field_idx = 3
    BY <1>1
  <2>3. field_idx' < 4 => Len(w) = field_idx'
    BY <1>1, <1>2
  <2>4. field_idx' = 4 =>
          /\ Len(w) = 4 + Len(payload') + Len(crc_bytes')
          /\ declared_len' = w[3] + Base * w[4] /\ declared_len' <= BufSize
          /\ Len(payload') <= declared_len'
    BY <1>1, <1>2, <1>4, <1>6, <2>1, <2>2
  <2>5. (field_idx' > 0 => seq' = w[1]) /\ (field_idx' > 1 => type' = w[2])
        /\ (field_idx' = 3 => declared_len' = w[3])
    BY <1>1, <1>2 DEF Stored
  <2>6. Len(payload') = 0 /\ Len(crc_bytes') = 0 /\ payload' = <<>> /\ crc_bytes' = <<>>
    BY <1>1
  <2> HIDE DEF w
  <2> QED  BY <2>1, <2>3, <2>4, <2>5, <2>6 DEF Stored
<1> QED
  BY <1>5, <1>7, <1>8 DEF Consumed

\* A byte of payload or CRC, or one too many, which drops the frame.
LEMMA BodyStep ==
  ASSUME FieldTypes, NEW u \in Seq(Byte), NEW v \in Byte,
         ~dropping, heard = <<>>, Stored(u), BodyByte(v)
  PROVE  Consumed(u, v)
<1> DEFINE w == Append(u, v)
           n == Len(payload)
           k == Len(crc_bytes)
<1>1. /\ field_idx = 4 /\ UNCHANGED <<field_idx, seq, type, declared_len>>
      /\ Len(u) = 4 + n + k /\ n \in Nat /\ k \in Nat
      /\ declared_len = u[3] + Base * u[4] /\ declared_len <= BufSize
      /\ n <= declared_len /\ (k > 0 => n = declared_len)
      /\ declared_len \in Nat
  BY DEF BodyByte, FieldTypes, Stored
<1>2. Len(w) = 5 + n + k /\ w[5 + n + k] = v /\ \A i \in 1 .. 4 + n + k : w[i] = u[i]
  BY <1>1
<1>3. w[1] = u[1] /\ w[2] = u[2] /\ w[3] = u[3] /\ w[4] = u[4] /\ seq = u[1] /\ type = u[2]
  BY <1>1, <1>2 DEF Stored
<1>4. /\ \A i \in 1 .. n : payload[i] = w[4 + i]
      /\ \A i \in 1 .. k : crc_bytes[i] = w[4 + n + i]
  BY <1>1, <1>2 DEF Stored
<1>5. BufSize \in Nat
  BY CodecAssumption
<1>6. CASE n < declared_len
  <2>1. payload' = Append(payload, v) /\ UNCHANGED <<crc_bytes, dropping, heard>> /\ k = 0
    BY <1>1, <1>6 DEF BodyByte
  <2>2. /\ payload' \in Seq(Byte) /\ Len(payload') = n + 1 /\ payload'[n + 1] = v
        /\ \A i \in 1 .. n : payload'[i] = payload[i]
    BY <2>1 DEF FieldTypes
  <2>3. FieldTypes'
    BY <1>1, <1>5, <1>6, <2>1, <2>2 DEF FieldTypes
  <2>4. \A i \in 1 .. Len(payload') : payload'[i] = w[4 + i]
    <3>1. payload'[n + 1] = w[4 + (n + 1)]
      BY <1>1, <1>2, <2>1, <2>2
    <3> HIDE DEF w, n
    <3> QED  BY <1>1, <1>4, <2>2, <3>1
  <2>5. k = Len(crc_bytes') /\ Len(w) = 4 + Len(payload') + Len(crc_bytes') /\ crc_bytes' = <<>>
    BY <1>1, <1>2, <2>1, <2>2 DEF FieldTypes
  <2>6. Len(payload') <= declared_len'
    BY <1>1, <1>6, <2>2
  <2>7. \A i \in 1 .. Len(crc_bytes') : crc_bytes'[i] = w[4 + Len(payload') + i]
    BY <2>1, <2>5
  <2> HIDE DEF w
  <2>8. Stored(w)'
    BY <1>1, <1>3, <2>4, <2>5, <2>6, <2>7 DEF Stored
  <2> QED  BY <2>1, <2>3, <2>8 DEF Consumed, w
<1>7. CASE n >= declared_len /\ k < 2
  <2>1. crc_bytes' = Append(crc_bytes, v) /\ UNCHANGED <<payload, dropping, heard>> /\ n = declared_len
    BY <1>1, <1>7 DEF BodyByte
  <2>2. /\ crc_bytes' \in Seq(Byte) /\ Len(crc_bytes') = k + 1 /\ crc_bytes'[k + 1] = v
        /\ \A i \in 1 .. k : crc_bytes'[i] = crc_bytes[i]
    BY <2>1 DEF FieldTypes
  <2>3. FieldTypes'
    BY <1>1, <1>7, <2>1, <2>2 DEF FieldTypes
  <2>4. \A i \in 1 .. Len(crc_bytes') : crc_bytes'[i] = w[4 + Len(payload') + i]
    <3>1. Len(payload') = n /\ k \in Nat /\ n \in Nat
      BY <1>1, <2>1
    <3> HIDE DEF w, n, k
    <3>2. 4 + n + (k + 1) = 5 + n + k
      BY <3>1
    <3>3. crc_bytes'[k + 1] = w[4 + n + (k + 1)]
      BY <1>2, <2>2, <3>2
    <3>4. \A i \in 1 .. k : crc_bytes'[i] = w[4 + n + i]
      BY <1>4, <2>2
    <3> SUFFICES ASSUME NEW i \in 1 .. k + 1  PROVE crc_bytes'[i] = w[4 + n + i]
      BY <2>2, <3>1
    <3>5. i = k + 1 \/ i \in 1 .. k
      BY <3>1
    <3>6. CASE i = k + 1
      BY <3>3, <3>6
    <3>7. CASE i \in 1 .. k
      BY <3>4, <3>7
    <3> QED  BY <3>5, <3>6, <3>7
  <2>5. n = Len(payload') /\ Len(w) = 4 + Len(payload') + Len(crc_bytes')
    BY <1>1, <1>2, <2>1, <2>2
  <2>6. \A i \in 1 .. Len(payload') : payload'[i] = w[4 + i]
    BY <1>4, <2>1
  <2> HIDE DEF w
  <2>8. declared_len' = w[3] + Base * w[4] /\ declared_len' <= BufSize /\ Len(payload') = declared_len'
    BY <1>1, <1>3, <2>1
  <2>9. field_idx' = 4 /\ seq' = w[1] /\ type' = w[2]
    BY <1>1, <1>3
  <2>10. Len(payload') <= declared_len'
    BY <1>1, <2>1
  <2>7. Stored(w)'
    BY <2>4, <2>5, <2>6, <2>8, <2>9, <2>10 DEF Stored
  <2> QED  BY <2>1, <2>3, <2>7 DEF Consumed, w
<1>8. CASE n >= declared_len /\ k >= 2
  <2>1. /\ dropping' = TRUE /\ heard' = Append(<<>>, Error("TRUNC"))
        /\ UNCHANGED <<payload, crc_bytes>> /\ n = declared_len
    BY <1>1, <1>8 DEF BodyByte, Drop
  <2>2. heard' = <<Error("TRUNC")>>
    BY <2>1
  <2>3. FieldTypes'
    BY <1>1, <2>1 DEF FieldTypes
  <2>4. Len(w) > 6 + declared_len
    <3>1. n \in Nat /\ k \in Nat /\ k >= 2 /\ Len(w) = 5 + n + k /\ declared_len = n
      BY <1>1, <1>2, <1>8, <2>1
    <3> HIDE DEF n, k, w
    <3> QED  BY SMT, <3>1
  <2>5. declared_len = w[3] + Base * w[4] /\ Len(w) >= 4
    BY <1>1, <1>2, <1>3
  <2> HIDE DEF w
  <2>6. Len(w) > 6 + w[3] + Base * w[4]
    <3> DEFINE z == Base * w[4]
    <3>1. w[3] \in Nat /\ z \in Nat /\ Len(w) \in Nat
      <4>1. w[3] \in Byte /\ w[4] \in Byte
        BY <1>1, <1>3, ElementOfSeq
      <4>2. w[3] \in Nat /\ w[4] \in Nat /\ Base \in Nat
        BY SMT, <4>1, CodecAssumption DEF Byte
      <4> QED  BY SMT, <1>1, <1>2, <4>2
    <3> HIDE DEF z
    <3>2. declared_len = w[3] + z
      BY <2>5 DEF z
    <3>3. Len(w) > 6 + w[3] + z
      BY SMT, <2>4, <3>1, <3>2
    <3> QED  BY <3>3 DEF z
  <2> QED  BY <2>1, <2>2, <2>3, <2>5, <2>6 DEF Consumed, Reported, TooMuch, w
<1> QED
  BY <1>1, <1>6, <1>7, <1>8

\* A frame that is beyond hope stays so.
LEMMA TooMuchStays ==
  ASSUME NEW u \in Seq(Byte), NEW v \in Byte, TooMuch(u)
  PROVE  TooMuch(Append(u, v))
<1> DEFINE w == Append(u, v)
           most == 6 + u[3] + Base * u[4]
<1>1. Len(u) \in Nat /\ Len(u) >= 4 /\ Len(w) = Len(u) + 1 /\ w[3] = u[3] /\ w[4] = u[4]
  BY DEF TooMuch
<1>2. most \in Nat
  <2>1. u[3] \in Byte /\ u[4] \in Byte
    BY <1>1, ElementOfSeq
  <2> QED  BY SMT, <2>1, CodecAssumption DEF Byte
<1>3. u[3] + Base * u[4] > BufSize \/ Len(u) > most
  BY DEF TooMuch
<1>4. Len(u) > most => Len(w) > most
  <2> HIDE DEF w, most
  <2> QED  BY <1>1, <1>2
<1>5. (w[3] + Base * w[4] > BufSize <=> u[3] + Base * u[4] > BufSize)
      /\ (Len(w) > 6 + w[3] + Base * w[4] <=> Len(w) > most)
  BY <1>1
<1>6. Len(w) >= 4
  BY <1>1
<1> HIDE DEF w, most
<1> QED  BY <1>3, <1>4, <1>5, <1>6 DEF TooMuch, w

\* A byte keeps the type of a line.
LEMMA LineType ==
  ASSUME NEW line \in Lines, NEW b \in Byte
  PROVE  UnescapeByte(line, b) \in Lines
<1>1. line.bytes \in Seq(Byte) /\ line.esc \in BOOLEAN /\ line.bad \in BOOLEAN
  BY DEF Lines
<1>2. Xor(b, ESC_XOR) \in Byte
  BY XorAssumption
<1>3. \A v \in Byte : Append(line.bytes, v) \in Seq(Byte)
  BY <1>1
<1> QED
  BY <1>1, <1>2, <1>3 DEF UnescapeByte, Lines

\* A line that is beyond hope stays so.
LEMMA HopelessStays ==
  ASSUME NEW line \in Lines, NEW b \in Byte, Hopeless(line)
  PROVE  Hopeless(UnescapeByte(line, b))
<1>1. line.bytes \in Seq(Byte) /\ line.esc \in BOOLEAN /\ line.bad \in BOOLEAN
  BY DEF Lines
<1>2. Xor(b, ESC_XOR) \in Byte
  BY XorAssumption
<1>3. \A v \in Byte : TooMuch(line.bytes) => TooMuch(Append(line.bytes, v))
  BY <1>1, TooMuchStays
<1>4. CASE b = ESC
  BY <1>1, <1>4 DEF UnescapeByte, Hopeless
<1>5. CASE b # ESC
  <2> DEFINE v == IF line.esc THEN Xor(b, ESC_XOR) ELSE b
  <2>1. v \in Byte
    BY <1>2
  <2> HIDE DEF v
  <2>2. UnescapeByte(line, b).bytes = Append(line.bytes, v) /\ UnescapeByte(line, b).bad = line.bad
    BY <1>5 DEF UnescapeByte, v
  <2> QED  BY <1>3, <2>1, <2>2 DEF Hopeless
<1> QED  BY <1>4, <1>5

\* A byte after a FLAG.
LEMMA FeedStep ==
  ASSUME DecoderInv, NEW b \in Byte \ {FLAG}, Feed(b)
  PROVE  DecoderInv'
<1>0. PICK line : line = Unescaped(raw)
  OBVIOUS
<1> DEFINE next == UnescapeByte(line, b)
<1>1. DecoderTypes /\ Reading /\ in_frame /\ ~closed /\ in_frame' /\ ~closed' /\ raw' = Append(raw, b)
      /\ in_frame' = in_frame /\ closed' = closed
  BY DEF DecoderInv, Feed
<1>2. line \in Lines /\ raw \in Seq(Byte) /\ b \in Byte
  BY <1>0, <1>1 DEF DecoderTypes
<1>3. Unescaped(raw') = next /\ raw' \in Seq(Byte) /\ raw' # <<>> /\ next \in Lines
  BY <1>0, <1>1, <1>2, UnescapedStep, LineType
<1>4. /\ line.bytes \in Seq(Byte) /\ line.esc \in BOOLEAN /\ line.bad \in BOOLEAN
      /\ in_escape = line.esc /\ in_escape \in BOOLEAN /\ dropping \in BOOLEAN
      /\ ~dropping => heard = <<>> /\ ~line.bad /\ Stored(line.bytes)
      /\ dropping => Reported /\ Hopeless(line)
  BY <1>0, <1>1, <1>2 DEF Lines, Reading, DecoderTypes
<1>5. FieldTypes
  BY <1>1 DEF DecoderTypes, FieldTypes
<1>6. /\ FieldTypes' /\ in_escape' \in BOOLEAN /\ in_escape' = next.esc
      /\ next.bytes # <<>> \/ next.esc \/ next.bad
      /\ ~dropping' => heard' = <<>> /\ ~next.bad /\ Stored(next.bytes)'
      /\ dropping' => Reported' /\ Hopeless(next)
  <2>1. CASE b = ESC
    <3>1. next.bytes = line.bytes /\ next.esc = ~line.esc /\ next.bad = (line.bad \/ line.esc)
      BY <2>1 DEF UnescapeByte
    <3>2. /\ in_escape' = ~in_escape /\ UNCHANGED <<field_idx, seq, type, declared_len, payload, crc_bytes>>
          /\ IF in_escape /\ ~dropping THEN dropping' = TRUE /\ heard' = Append(heard, Error("TRUNC"))
             ELSE UNCHANGED <<dropping, heard>>
      BY <2>1 DEF Feed, Escape, Drop
    <3>3. FieldTypes' /\ in_escape' \in BOOLEAN
      BY <1>4, <1>5, <3>2 DEF FieldTypes
    <3>4. ASSUME in_escape, ~dropping  PROVE dropping' /\ Reported' /\ Hopeless(next)
      <4>1. heard' = <<Error("TRUNC")>>
        BY <1>4, <3>2, <3>4
      <4> QED  BY <1>4, <3>1, <3>2, <3>4, <4>1 DEF Reported, Hopeless
    <3>5. ASSUME ~in_escape, ~dropping
          PROVE ~dropping' /\ heard' = <<>> /\ ~next.bad /\ Stored(next.bytes)'
      <4>1. Stored(line.bytes)'
        BY <1>4, <3>2, <3>5 DEF Stored
      <4>2. ~dropping' /\ heard' = <<>> /\ ~next.bad
        BY <1>4, <3>1, <3>2, <3>5
      <4> HIDE DEF next
      <4> QED  BY <3>1, <4>1, <4>2
    <3>6. ASSUME dropping  PROVE dropping' /\ Reported' /\ Hopeless(next)
      <4>1. Hopeless(next)
        BY <1>2, <1>4, <3>6, HopelessStays
      <4> QED  BY <1>4, <3>2, <3>6, <4>1 DEF Reported
    <3> HIDE DEF next
    <3>7. in_escape' = next.esc /\ (next.bytes # <<>> \/ next.esc \/ next.bad)
      BY <1>4, <3>1, <3>2
    <3> QED  BY <1>4, <3>3, <3>4, <3>5, <3>6, <3>7
  <2>2. CASE b # ESC
    <3> DEFINE v == IF line.esc THEN Xor(b, ESC_XOR) ELSE b
    <3>1. v \in Byte
      BY <1>2, XorAssumption
    <3>2. next.bytes = Append(line.bytes, v) /\ next.esc = FALSE /\ next.bad = line.bad
      BY <2>2 DEF UnescapeByte
    <3>3. in_escape' = FALSE /\ decoder_consume_byte(v)
      BY <1>4, <2>2 DEF Feed, Unstuffed
    <3> HIDE DEF v
    <3>4. next.bytes # <<>>
      BY <1>4, <3>1, <3>2
    <3>5. CASE dropping
      <4>1. UNCHANGED <<field_idx, seq, type, declared_len, payload, crc_bytes, dropping, heard>>
        BY <3>3, <3>5 DEF decoder_consume_byte
      <4>2. Hopeless(next) /\ Reported
        BY <1>2, <1>4, <3>5, HopelessStays
      <4>3. FieldTypes' /\ Reported' /\ dropping'
        BY <1>5, <3>5, <4>1, <4>2 DEF FieldTypes, Reported
      <4> HIDE DEF next
      <4> QED  BY <3>2, <3>3, <3>4, <4>2, <4>3
    <3>6. CASE ~dropping
      <4>1. heard = <<>> /\ ~line.bad /\ Stored(line.bytes)
        BY <1>4, <3>6
      <4>2. HeaderByte(v) \/ BodyByte(v)
        BY <3>3, <3>6 DEF decoder_consume_byte
      <4>3. Consumed(line.bytes, v)
        BY <1>4, <1>5, <3>1, <3>6, <4>1, <4>2, HeaderStep, BodyStep
      <4>4. FieldTypes' /\ (~dropping' => heard' = <<>> /\ Stored(next.bytes)')
            /\ (dropping' => Reported' /\ TooMuch(next.bytes))
        <5> HIDE DEF next
        <5> QED  BY <3>2, <4>3 DEF Consumed
      <4>5. dropping' => Hopeless(next)
        BY <4>4 DEF Hopeless
      <4> HIDE DEF next
      <4> QED  BY <3>2, <3>3, <3>4, <4>1, <4>4, <4>5
    <3> QED  BY <3>5, <3>6
  <2> QED  BY <2>1, <2>2
<1>7. DecoderTypes'
  BY <1>1, <1>3, <1>6 DEF DecoderTypes, FieldTypes
<1>8. Reading'
  <2> HIDE DEF next
  <2> QED  BY <1>3, <1>6 DEF Reading
<1> QED
  BY <1>1, <1>7, <1>8 DEF DecoderInv

\* FramesAreExact, of what has been heard of a line.
Exactly(line, h) ==
  /\ line = <<>> <=> h = <<>>
  /\ Len(h) <= 1
  /\ line # <<>> /\ h[1][1] = "frame" => IsFrame(line, h[1][2])
  /\ line # <<>> /\ h[1][1] = "error" => ~\E f \in Candidates(line) : IsFrame(line, f)

\* The one frame that bytes can be has the type of a message.
LEMMA CandidatesType ==
  ASSUME NEW line, Unescaped(line) \in Lines
  PROVE  Candidates(line) \subseteq Messages
<1> DEFINE u == Unescaped(line).bytes
           n == Len(u) - 6
<1>1. u \in Seq(Byte) /\ Len(u) \in Nat
  BY DEF Lines
<1> SUFFICES ASSUME NEW f \in Candidates(line)  PROVE f \in Messages
  OBVIOUS
<1>2. n \in 0 .. BufSize /\ u[2] \in 0 .. TypeMax
      /\ f = [seq |-> u[1], type |-> u[2], payload |-> SubSeq(u, 5, 4 + n)]
  BY DEF Candidates
<1>3. u[1] \in Byte
  <2>1. 1 \in 1 .. Len(u)
    BY <1>1, <1>2, CodecAssumption
  <2> QED  BY <1>1, <2>1, ElementOfSeq
<1>4. SubSeq(u, 5, 4 + n) \in [1 .. n -> Byte]
  <2>1. n \in Nat /\ Len(u) = n + 6
    BY <1>1, <1>2, CodecAssumption
  <2> HIDE DEF n, u
  <2>2. SubSeq(u, 5, 4 + n) \in Seq(Byte) /\ Len(SubSeq(u, 5, 4 + n)) = n
    <3>1. \A i \in 5 .. 4 + n : u[i] \in Byte
      BY <1>1, <2>1, ElementOfSeq
    <3>2. /\ SubSeq(u, 5, 4 + n) \in Seq(Byte)
          /\ Len(SubSeq(u, 5, 4 + n)) = IF 5 <= 4 + n THEN (4 + n) - 5 + 1 ELSE 0
      BY <2>1, <3>1, SubSeqProperties
    <3> QED  BY <2>1, <3>2
  <2> DEFINE p == SubSeq(u, 5, 4 + n)
  <2> HIDE DEF p
  <2>3. p \in [1 .. Len(p) -> Byte] /\ Len(p) = n
    BY <2>2, LenProperties DEF p
  <2> QED  BY <2>3 DEF p
<1> HIDE DEF u, n
<1> QED  BY <1>2, <1>3, <1>4 DEF Messages

\* Beyond hope: no frame.
LEMMA HopelessIsNone ==
  ASSUME NEW line, Unescaped(line) \in Lines, Hopeless(Unescaped(line)), NEW f \in Messages
  PROVE  ~IsFrame(line, f)
<1> SUFFICES ASSUME IsFrame(line, f)  PROVE FALSE
  OBVIOUS
<1> DEFINE u == Unescaped(line).bytes
           n == Len(f.payload)
<1>1. u = Content(f) /\ TooMuch(u)
  BY DEF IsFrame, Hopeless
<1>2. n \in Nat /\ n <= BufSize /\ n < Base * Base
  BY SMT, MessageType, CodecAssumption
<1>3. Len(u) = 6 + n /\ u[3] = n % Base /\ u[4] = n \div Base
  BY <1>1, ContentReads DEF Reads
<1>4. u[3] + Base * u[4] = n
  <2> HIDE DEF n, u
  <2> QED  BY <1>2, <1>3, BytesOf
<1>5. n > BufSize \/ Len(u) > 6 + n
  <2>1. u[3] \in Nat /\ Base * u[4] \in Nat
    <3>1. u[3] \in Byte /\ u[4] \in Byte
      <4> HIDE DEF n, u
      <4> QED  BY <1>2, <1>3, BytesOf
    <3> HIDE DEF u
    <3> QED  BY SMT, <3>1, CodecAssumption DEF Byte
  <2> DEFINE z == Base * u[4]
  <2>2. n > BufSize \/ Len(u) > 6 + u[3] + z
    BY <1>1, <1>4 DEF TooMuch
  <2> HIDE DEF u, n, z
  <2>3. 6 + u[3] + z = 6 + n
    BY <1>2, <1>4, <2>1 DEF z
  <2> QED  BY <2>2, <2>3
<1> HIDE DEF u, n
<1> QED
  BY SMT, <1>2, <1>3, <1>5, CodecAssumption

\* What has been stored of a whole frame.
LEMMA StoredFrame ==
  ASSUME FieldTypes, NEW f \in Messages, Stored(Content(f)), ~in_escape
  PROVE  Whole /\ Intact /\ seq = f.seq /\ type = f.type /\ payload = f.payload
<1> DEFINE u == Content(f)
           n == Len(f.payload)
           crc == Checksum(Header(f) \o f.payload)
<1>1. /\ n \in Nat /\ n <= BufSize /\ n < Base * Base /\ f.payload \in Seq(Byte)
      /\ crc \in Nat /\ crc < Base * Base
  BY SMT, MessageType, CodecAssumption
<1>2. Reads(u, f)
  BY ContentReads
<1>3. /\ Len(u) = 6 + n /\ u[1] = f.seq /\ u[2] = f.type /\ u[3] = n % Base /\ u[4] = n \div Base
      /\ \A i \in 1 .. n : u[4 + i] = f.payload[i]
      /\ u[5 + n] = crc % Base /\ u[6 + n] = crc \div Base
  BY <1>2 DEF Reads
<1> HIDE DEF u, n, crc
<1>4. u[3] + Base * u[4] = n /\ (crc % Base) + Base * (crc \div Base) = crc
  BY <1>1, <1>3, BytesOf
<1>5. field_idx = 4
  <2>1. field_idx < 4 => Len(u) = field_idx
    BY DEF Stored, u
  <2> QED  BY <1>1, <1>3, <2>1 DEF FieldTypes
<1>6. /\ Len(u) = 4 + Len(payload) + Len(crc_bytes) /\ declared_len = n /\ Len(payload) <= n
      /\ seq = u[1] /\ type = u[2]
      /\ \A i \in 1 .. Len(payload) : payload[i] = u[4 + i]
      /\ \A i \in 1 .. Len(crc_bytes) : crc_bytes[i] = u[4 + Len(payload) + i]
  <2>1. Stored(u)
    BY DEF u
  <2>2. declared_len = u[3] + Base * u[4] /\ Len(payload) <= declared_len
    BY <1>5, <2>1 DEF Stored
  <2>3. Len(u) = 4 + Len(payload) + Len(crc_bytes) /\ seq = u[1] /\ type = u[2]
    BY <1>5, <2>1 DEF Stored
  <2>4. /\ \A i \in 1 .. Len(payload) : payload[i] = u[4 + i]
        /\ \A i \in 1 .. Len(crc_bytes) : crc_bytes[i] = u[4 + Len(payload) + i]
    BY <2>1 DEF Stored
  <2>5. declared_len = n /\ Len(payload) <= n
    BY <1>4, <2>2
  <2> QED  BY <2>3, <2>4, <2>5
<1>7. Len(payload) = n /\ Len(crc_bytes) = 2
  <2>1. Len(payload) \in Nat /\ Len(crc_bytes) \in Nat /\ Len(crc_bytes) <= 2
    BY DEF FieldTypes
  <2>2. 6 + n = 4 + Len(payload) + Len(crc_bytes) /\ Len(payload) <= n
    BY <1>3, <1>6
  <2>3. n \in Nat
    BY <1>1
  <2>4. \A p, c, m \in Nat : 6 + m = 4 + p + c /\ p <= m /\ c <= 2 => p = m /\ c = 2
    OBVIOUS
  <2> QED  BY <2>1, <2>2, <2>3, <2>4
<1>8. payload = f.payload
  <2>1. payload \in Seq(Byte) /\ \A i \in 1 .. n : payload[i] = f.payload[i]
    BY <1>3, <1>6, <1>7 DEF FieldTypes
  <2> QED  BY <1>1, <1>7, <2>1, SeqEqual DEF n
<1>9. crc_bytes[1] = crc % Base /\ crc_bytes[2] = crc \div Base
  <2>1. 4 + n + 1 = 5 + n /\ 4 + n + 2 = 6 + n /\ 1 \in 1 .. 2 /\ 2 \in 1 .. 2
    BY <1>1
  <2> QED  BY <1>3, <1>6, <1>7, <2>1
<1>10. Whole
  BY <1>5, <1>6, <1>7 DEF Whole
<1>11. Intact
  BY <1>3, <1>4, <1>6, <1>8, <1>9 DEF Intact, Header, n, crc
<1> QED
  BY <1>3, <1>6, <1>8, <1>10, <1>11

\* And a whole frame that is intact is one.
LEMMA DeliveredFrame ==
  ASSUME FieldTypes, NEW u \in Seq(Byte), Stored(u), Whole, Intact, type <= TypeMax
  PROVE  LET f == [seq |-> seq, type |-> type, payload |-> payload]
         IN  f \in Messages /\ u = Content(f)
<1> DEFINE f == [seq |-> seq, type |-> type, payload |-> payload]
           n == Len(payload)
<1>1. /\ n \in Nat /\ Len(u) = 6 + n /\ declared_len = n /\ n = u[3] + Base * u[4]
      /\ seq = u[1] /\ type = u[2] /\ Len(crc_bytes) = 2 /\ n <= BufSize
  <2>1. /\ field_idx = 4 /\ Len(payload) = declared_len /\ Len(crc_bytes) = 2 /\ Len(payload) \in Nat
        /\ Len(payload) <= BufSize
    BY DEF Whole, FieldTypes
  <2>2. Len(u) = 4 + Len(payload) + Len(crc_bytes) /\ declared_len = u[3] + Base * u[4]
        /\ seq = u[1] /\ type = u[2]
    BY <2>1 DEF Stored
  <2>3. Len(u) = 6 + Len(payload)
    BY <2>1, <2>2
  <2> QED  BY <2>1, <2>2, <2>3
<1>2. f \in Messages
  <2>1. payload \in [1 .. n -> Byte] /\ n \in 0 .. BufSize
    BY <1>1, CodecAssumption DEF FieldTypes
  <2>2. type \in 0 .. TypeMax /\ seq \in Byte
    <3>1. type \in Byte /\ seq \in Byte
      BY DEF FieldTypes
    <3> QED  BY SMT, <3>1, CodecAssumption DEF Byte
  <2> QED  BY <2>1, <2>2 DEF Messages
<1>3. u[3] = n % Base /\ u[4] = n \div Base
  <2>1. u[3] \in Byte /\ u[4] \in Byte
    BY <1>1, ElementOfSeq
  <2> HIDE DEF n
  <2> QED  BY <1>1, <2>1, TwoBytes
<1> DEFINE crc == crc_bytes[1] + Base * crc_bytes[2]
<1>4. crc_bytes[1] = u[5 + n] /\ crc_bytes[2] = u[6 + n]
  <2>1. \A i \in 1 .. 2 : crc_bytes[i] = u[4 + n + i]
    BY <1>1 DEF Stored
  <2>2. 4 + n + 1 = 5 + n /\ 4 + n + 2 = 6 + n /\ 1 \in 1 .. 2 /\ 2 \in 1 .. 2
    BY <1>1
  <2> HIDE DEF n
  <2> QED  BY <2>1, <2>2
<1>5. u[5 + n] = crc % Base /\ u[6 + n] = crc \div Base
  <2>1. crc_bytes[1] \in Byte /\ crc_bytes[2] \in Byte
    <3>1. crc_bytes \in Seq(Byte) /\ 1 \in 1 .. Len(crc_bytes) /\ 2 \in 1 .. Len(crc_bytes)
      BY <1>1 DEF FieldTypes
    <3> QED  BY <3>1, ElementOfSeq
  <2> HIDE DEF n
  <2> QED  BY <1>4, <2>1, TwoBytes
<1>6. Checksum(Header(f) \o f.payload) = crc
  BY <1>1 DEF Intact, Header
<1>7. \A i \in 1 .. n : u[4 + i] = f.payload[i]
  BY <1>1 DEF Stored
<1>8. Len(f.payload) = n /\ f.seq = u[1] /\ f.type = u[2]
  BY <1>1
<1> HIDE DEF n, crc, f
<1>9. Reads(u, f)
  BY <1>1, <1>3, <1>5, <1>6, <1>7, <1>8 DEF Reads
<1>10. u = Content(f)
  BY <1>2, <1>9, ReadsContent
<1> QED
  BY <1>2, <1>10 DEF f

\* The FLAG that ends a line reports it: one frame, or one error, or nothing of
\* nothing.
LEMMA ReportExact ==
  ASSUME DecoderTypes, Reading
  PROVE  Exactly(raw, heard \o Report)
<1> DEFINE line == Unescaped(raw)
           u == line.bytes
<1>1. /\ raw \in Seq(Byte) /\ line \in Lines /\ u \in Seq(Byte) /\ Candidates(raw) \subseteq Messages
      /\ FieldTypes /\ in_escape = line.esc /\ in_escape \in BOOLEAN
  BY CandidatesType DEF DecoderTypes, Lines, FieldTypes, Reading
<1>2. raw = <<>> => line = Start
  <2>1. ESC \in Byte /\ <<>> \in Seq(Byte)
    BY CodecAssumption, EmptySeq
  <2> QED  BY <2>1, UnescapedStep
<1>3. CASE dropping
  <2>1. Report = <<>> /\ Hopeless(line)
    BY <1>3 DEF Report, Reading
  <2>2. PICK err \in {"OVERSIZE", "TRUNC"} : heard = <<Error(err)>>
    BY <1>3 DEF Reading, Reported
  <2>3. heard \o Report = <<Error(err)>>
    BY <2>1, <2>2
  <2>4. raw # <<>>
    <3>1. ~Hopeless(Start)
      BY DEF Hopeless, TooMuch, Start
    <3> QED  BY <1>2, <2>1, <3>1
  <2>5. ~\E f \in Candidates(raw) : IsFrame(raw, f)
    BY <1>1, <2>1, HopelessIsNone
  <2>6. Exactly(raw, <<Error(err)>>)
    BY <2>4, <2>5 DEF Exactly, Error
  <2> QED  BY <2>3, <2>6
<1>4. CASE ~dropping
  <2>1. heard = <<>> /\ ~line.bad /\ Stored(u)
    BY <1>4 DEF Reading
  <2>2. CASE ~in_escape /\ field_idx = 0
    <3>1. Report = <<>>
      BY <2>2 DEF Report
    <3>2. u = <<>> /\ ~line.esc /\ ~line.bad
      <4>1. Len(u) = 0
        BY <2>1, <2>2 DEF Stored
      <4> QED  BY <1>1, <2>1, <2>2, <4>1, EmptySeq
    <3>3. raw = <<>>
      BY <3>2 DEF Reading
    <3>4. heard \o Report = <<>>
      BY <2>1, <3>1
    <3> QED  BY <3>3, <3>4 DEF Exactly
  <2>3. CASE ~(~in_escape /\ field_idx = 0)
    <3>1. raw # <<>>
      <4> SUFFICES ASSUME raw = <<>>  PROVE FALSE
        OBVIOUS
      <4>1. u = <<>> /\ ~in_escape
        BY <1>1, <1>2 DEF Start
      <4>2. Len(u) = 0 /\ Len(payload) \in Nat /\ Len(crc_bytes) \in Nat
        BY <1>1, <4>1 DEF FieldTypes
      <4>3. field_idx = 0
        <5>1. field_idx \in 0 .. 4
          BY <1>1 DEF FieldTypes
        <5>2. field_idx < 4 => Len(u) = field_idx
          BY <2>1 DEF Stored
        <5>3. field_idx = 4 => Len(u) = 4 + Len(payload) + Len(crc_bytes)
          BY <2>1 DEF Stored
        <5> HIDE DEF u
        <5> QED  BY <4>2, <5>1, <5>2, <5>3
      <4> QED  BY <2>3, <4>1, <4>3
    <3>2. \A f \in Candidates(raw) :
            IsFrame(raw, f) => Whole /\ Intact /\ type = f.type /\ f.type <= TypeMax
      <4> SUFFICES ASSUME NEW f \in Candidates(raw), IsFrame(raw, f)
                   PROVE  Whole /\ Intact /\ type = f.type /\ f.type <= TypeMax
        OBVIOUS
      <4>1. f \in Messages /\ u = Content(f) /\ ~in_escape
        BY <1>1 DEF IsFrame
      <4>2. f.type <= TypeMax
        BY SMT, <4>1, MessageType, CodecAssumption DEF Byte
      <4> QED  BY <1>1, <2>1, <4>1, <4>2, StoredFrame
    <3>3. ASSUME NEW err, Report = <<Error(err)>>, ~(Whole /\ Intact /\ type <= TypeMax)
          PROVE  Exactly(raw, heard \o Report)
      <4>1. ~\E f \in Candidates(raw) : IsFrame(raw, f)
        BY <3>2, <3>3
      <4>2. heard \o Report = <<Error(err)>>
        BY <2>1, <3>3
      <4>3. Exactly(raw, <<Error(err)>>)
        BY <3>1, <4>1 DEF Exactly, Error
      <4> QED  BY <4>2, <4>3
    <3>4. CASE ~Whole
      <4>1. Report = <<Error("TRUNC")>>
        BY <1>4, <2>3, <3>4 DEF Report
      <4> QED  BY <3>3, <3>4, <4>1
    <3>5. CASE Whole /\ ~Intact
      <4>1. Report = <<Error("CRC")>>
        BY <1>4, <2>3, <3>5 DEF Report
      <4> QED  BY <3>3, <3>5, <4>1
    <3>6. CASE Whole /\ Intact /\ type > TypeMax
      <4>1. Report = <<Error("BAD_TYPE")>>
        BY <1>4, <2>3, <3>6 DEF Report
      <4>2. ~(type <= TypeMax)
        <5>1. type \in Nat /\ TypeMax \in Nat
          BY SMT, <1>1, CodecAssumption DEF FieldTypes, Byte
        <5> QED  BY <3>6, <5>1
      <4> QED  BY <3>3, <4>1, <4>2
    <3>7. CASE Whole /\ Intact /\ ~(type > TypeMax)
      <4> DEFINE f == [seq |-> seq, type |-> type, payload |-> payload]
      <4>1. Report = << <<"frame", f>> >>
        BY <1>4, <2>3, <3>7 DEF Report
      <4>2. type <= TypeMax
        <5>1. type \in Nat /\ TypeMax \in Nat
          BY SMT, <1>1, CodecAssumption DEF FieldTypes, Byte
        <5> QED  BY <3>7, <5>1
      <4>3. u = Content(f)
        BY <1>1, <2>1, <3>7, <4>2, DeliveredFrame
      <4>4. IsFrame(raw, f)
        BY <1>1, <2>1, <3>7, <4>3 DEF IsFrame, Whole
      <4>5. heard \o Report = << <<"frame", f>> >>
        BY <2>1, <4>1
      <4> HIDE DEF f
      <4>6. Exactly(raw, << <<"frame", f>> >>)
        BY <3>1, <4>4 DEF Exactly
      <4> QED  BY <4>5, <4>6
    <3> QED  BY <3>4, <3>5, <3>6, <3>7
  <2> QED  BY <2>2, <2>3
<1> QED
  BY <1>1, <1>3, <1>4 DEF DecoderTypes

\* What a cleared field holds.
LEMMA Zero ==
  /\ 0 \in Byte /\ 0 \in Nat /\ 0 \in 0 .. 4 /\ 0 < Base * Base
  /\ <<>> \in Seq(Byte) /\ Len(<<>>) <= BufSize /\ Len(<<>>) <= 2
<1>1. Base \in Nat /\ Base > 1 /\ BufSize \in Nat
  BY SMT, CodecAssumption
<1>2. <<>> \in Seq(Byte) /\ Len(<<>>) = 0
  OBVIOUS
<1>3. 0 < Base * Base
  BY SMT, <1>1
<1>4. 0 \in Byte /\ 0 <= BufSize
  BY SMT, <1>1 DEF Byte
<1> QED
  BY <1>2, <1>3, <1>4

\* A cleared decoder has the types of its fields.
LEMMA ClearedTypes == Cleared => FieldTypes
<1> SUFFICES ASSUME Cleared  PROVE FieldTypes
  OBVIOUS
<1>1. dropping \in BOOLEAN
  BY DEF Cleared
<1>2. field_idx \in 0 .. 4 /\ seq \in Byte /\ type \in Byte
  BY Zero, Zenon DEF Cleared
<1>3. declared_len \in Nat /\ declared_len < Base * Base
  BY Zero, Zenon DEF Cleared
<1>4. payload \in Seq(Byte) /\ Len(payload) <= BufSize
  BY Zero, Zenon DEF Cleared
<1>5. crc_bytes \in Seq(Byte) /\ Len(crc_bytes) <= 2
  BY Zero, Zenon DEF Cleared
<1> QED
  BY <1>1, <1>2, <1>3, <1>4, <1>5 DEF FieldTypes

\* The empty string stands for no bytes.
LEMMA NothingRead ==
  Unescaped(<<>>) = Start /\ Start \in Lines /\ <<>> \in Seq(Byte)
<1>1. ESC \in Byte /\ <<>> \in Seq(Byte)
  BY CodecAssumption, EmptySeq
<1> QED  BY <1>1, UnescapedStep DEF Start, Lines

\* A decoder with nothing in it.
Empty ==
  Cleared /\ raw = <<>> /\ heard = <<>> /\ closed = FALSE /\ in_frame \in BOOLEAN

\* It is where init and reset put it.
LEMMA EmptyInv == Empty => DecoderInv
<1> SUFFICES ASSUME Empty  PROVE DecoderInv
  OBVIOUS
<1>1. Unescaped(raw) = Start /\ Start.bytes = <<>> /\ Start.esc = FALSE /\ Start.bad = FALSE
  BY NothingRead DEF Start, Empty
<1>2. Stored(<<>>)
  <2>1. Len(<<>>) = 0 /\ Len(payload) = 0 /\ Len(crc_bytes) = 0
    BY DEF Cleared, Empty
  <2> QED  BY <2>1 DEF Stored, Cleared, Empty
<1>3. Reading
  <2>1. in_escape = FALSE /\ dropping = FALSE /\ raw = <<>> /\ heard = <<>>
    BY DEF Empty, Cleared
  <2> QED  BY <1>1, <1>2, <2>1 DEF Reading
<1>4. DecoderTypes
  <2>1. raw \in Seq(Byte) /\ Unescaped(raw) \in Lines
    BY NothingRead DEF Empty
  <2>2. FieldTypes /\ in_escape \in BOOLEAN
    BY ClearedTypes DEF Empty, Cleared
  <2> QED  BY <2>1, <2>2 DEF Empty, DecoderTypes, FieldTypes
<1> QED
  BY <1>3, <1>4 DEF DecoderInv, Empty

\* A FLAG, in a frame or before the first one.
LEMMA FlagStep ==
  ASSUME DecoderInv, Flag
  PROVE  DecoderInv'
<1>1. Cleared' /\ in_frame' = TRUE /\ closed' = in_frame /\ in_frame \in BOOLEAN /\ closed \in BOOLEAN
  BY DEF Flag, decoder_clear_frame_state, Cleared, DecoderInv, DecoderTypes
<1>5. FieldTypes'
  <2>1. Cleared'
    BY <1>1
  <2> QED  BY <2>1, ClearedTypes, PTL
<1>2. CASE ~in_frame
  <2>1. raw' = <<>> /\ heard' = <<>> \o <<>> /\ closed' = FALSE
    BY <1>1, <1>2 DEF Flag, DecoderInv
  <2>2. Empty'
    BY <1>1, <2>1 DEF Empty
  <2> QED  BY <2>2, EmptyInv, PTL
<1>3. CASE in_frame /\ closed
  <2>1. Report = <<>>
    BY <1>3 DEF Report, Cleared, DecoderInv
  <2>2. raw' = <<>> /\ heard' = <<>> \o <<>> /\ closed' = TRUE
    BY <1>3, <1>1, <2>1 DEF Flag
  <2>3. heard' = <<>>
    BY <2>2
  <2>4. FramesAreExact'
    BY <2>2, <2>3 DEF FramesAreExact
  <2>5. DecoderTypes'
    <3>1. raw' \in Seq(Byte) /\ Unescaped(raw') \in Lines
      BY <2>2, NothingRead
    <3> QED  BY <1>1, <1>5, <2>2, <3>1 DEF DecoderTypes, FieldTypes, Cleared
  <2> QED  BY <1>1, <2>2, <2>4, <2>5 DEF DecoderInv
<1>4. CASE in_frame /\ ~closed
  <2>1. DecoderTypes /\ Reading
    BY <1>4 DEF DecoderInv
  <2>2. Exactly(raw, heard \o Report)
    BY <2>1, ReportExact
  <2>3. raw' = raw /\ heard' = heard \o Report /\ closed' = TRUE
    BY <1>4, <1>1 DEF Flag
  <2>4. FramesAreExact'
    <3>1. Exactly(raw', heard')
      BY <2>2, <2>3
    <3> QED  BY <3>1 DEF Exactly, FramesAreExact
  <2>5. DecoderTypes'
    <3>1. raw' \in Seq(Byte) /\ Unescaped(raw') \in Lines
      BY <2>1, <2>3 DEF DecoderTypes
    <3> QED  BY <1>1, <1>5, <2>3, <3>1 DEF DecoderTypes, FieldTypes, Cleared
  <2> QED  BY <1>1, <2>3, <2>4, <2>5 DEF DecoderInv
<1> QED
  BY <1>1, <1>2, <1>3, <1>4

\* The decoder starts with nothing in it.
LEMMA DecoderInitInv ==
  ASSUME DecoderInit
  PROVE  DecoderInv
<1>1. Empty
  BY DEF DecoderInit, Cleared, Empty
<1> QED  BY <1>1, EmptyInv

\* Every step keeps the invariant.
LEMMA DecoderStep ==
  ASSUME DecoderInv, [DecoderNext]_decoderVars
  PROVE  DecoderInv'
<1>1. CASE Flag
  BY <1>1, FlagStep
<1>2. CASE Forget
  <2>1. Empty'
    BY <1>2 DEF Forget, DecoderInv, DecoderTypes, Cleared, decoder, Empty
  <2> QED  BY <2>1, EmptyInv, PTL
<1>3. CASE frame_decoder_reset
  <2>1. Empty'
    BY <1>3 DEF frame_decoder_reset, decoder_clear_frame_state, Cleared, Empty
  <2> QED  BY <2>1, EmptyInv, PTL
<1>4. CASE \E b \in Byte \ {FLAG} : Feed(b)
  BY <1>4, FeedStep
<1>5. CASE UNCHANGED decoderVars
  BY <1>5 DEF decoderVars, decoder, DecoderInv, DecoderTypes, Cleared, FramesAreExact, Reading,
     Stored, Reported
<1> QED
  BY <1>1, <1>2, <1>3, <1>4, <1>5 DEF DecoderNext

\* So it holds for ever.
LEMMA DecoderInvariant == DecoderSpec => []DecoderInv
<1>1. DecoderInit => DecoderInv
  BY DecoderInitInv
<1>2. DecoderInv /\ [DecoderNext]_decoderVars => DecoderInv'
  BY DecoderStep
<1> QED
  BY <1>1, <1>2, PTL DEF DecoderSpec

\* The decoder's fields stay in their buffers: no length makes it write past the
\* payload buffer it was given, and no third CRC byte is stored (CodecTypeOK).
THEOREM CodecTypes == DecoderSpec => []CodecTypeOK
<1>1. DecoderInv => CodecTypeOK
  BY DEF DecoderInv, DecoderTypes, CodecTypeOK
<1> QED
  BY <1>1, DecoderInvariant, PTL

\* Whatever bytes came before, a FLAG delivers what is a frame, once and as it
\* was sent, and reports anything else once (FramesAreExact).
THEOREM DecodesExactly == DecoderSpec => []FramesAreExact
<1>1. DecoderInv => FramesAreExact
  BY DEF DecoderInv, FramesAreExact
<1> QED
  BY <1>1, DecoderInvariant, PTL

\* What frame_encode makes of any message is that message to the decoder, has
\* no FLAG inside, and fits the worst case it asks for (EncodedIsDecoded).
THEOREM EncodesExactly == DecoderSpec => []EncodedIsDecoded
BY EncoderIsExact, PTL
=============================================================================
