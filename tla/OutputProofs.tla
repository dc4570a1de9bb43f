---------------------------- MODULE OutputProofs ----------------------------
(***************************************************************************)
(* Buffered console output implements the byte queue, for buffers of any   *)
(* size and any characters: the two buffers and the stream that reads one  *)
(* of them are always in one of two relations, StreamBusy and StreamIdle,  *)
(* and Unsent changes as a queue does.                                     *)
(***************************************************************************)
EXTENDS OutputLoop, SequenceTheorems, TLAPS

\* While the stream is busy it reads tx_buffer, which is not the one that is
\* filled, and what it has read and has left add up to that buffer's index.
StreamBusy ==
  /\ src = tx_buffer /\ active # tx_buffer
  /\ next + ndtr = index[tx_buffer]
  /\ tcif <=> ndtr = 0

\* While it is idle the buffer that is not filled is empty.
StreamIdle == ndtr = 0 /\ ~tcif /\ index[1 - active] = 0

OutputInv ==
  /\ OutputTypeOK
  /\ tx_busy => StreamBusy
  /\ ~tx_busy => StreamIdle

LEMMA OutputInvInit == OutputInit => OutputInv
<1> SUFFICES ASSUME OutputInit PROVE OutputInv
  OBVIOUS
<1>1. mem \in [Buffers -> [0 .. Size - 1 -> Symbols]]
  <2>1. [i \in 0 .. Size - 1 |-> Blank] \in [0 .. Size - 1 -> Symbols]
    BY DEF Symbols
  <2> QED
    BY <2>1 DEF OutputInit
<1>2. index \in [Buffers -> 0 .. Size - 1] /\ index[1 - active] = 0
  BY SizeAssumption DEF OutputInit, Buffers
<1>3. /\ active \in Buffers /\ tx_buffer \in Buffers /\ src \in Buffers
      /\ pending_tx = FALSE /\ tx_busy = FALSE /\ tcif = FALSE
      /\ next \in 0 .. Size - 1 /\ ndtr \in 0 .. Size - 1 /\ ndtr = 0
  BY SizeAssumption DEF OutputInit, Buffers
<1> QED
  BY <1>1, <1>2, <1>3 DEF OutputInv, OutputTypeOK, StreamIdle

\* A putchar leaves the stream alone and keeps the active buffer within its room.
LEMMA PutTypes ==
  ASSUME OutputInv, NEW c \in Chars \cup {LF}, putchar(c)
  PROVE  /\ OutputTypeOK'
         /\ UNCHANGED <<active, tx_buffer, tx_busy, stream>>
         /\ index' = [index EXCEPT ![active] = index'[active]]
<1>1. index[active] \in 0 .. Size - 1 /\ active \in Buffers
  BY DEF OutputInv, OutputTypeOK
<1>2. CASE c = LF
  <2>1. PutLineEnd /\ UNCHANGED <<active, tx_buffer, tx_busy, stream>>
    BY <1>2 DEF putchar
  <2>2. CASE index[active] < Size - 2
    <3>1. /\ index' = [index EXCEPT ![active] = index[active] + 2]
          /\ mem' = [mem EXCEPT ![active] = [@ EXCEPT ![index[active]] = CR, ![index[active] + 1] = LF]]
          /\ pending_tx' = TRUE
      BY <2>1, <2>2 DEF PutLineEnd
    <3>2. index' \in [Buffers -> 0 .. Size - 1]
      BY <1>1, <2>2, <3>1, SizeAssumption DEF OutputInv, OutputTypeOK
    <3>3. mem' \in [Buffers -> [0 .. Size - 1 -> Symbols]]
      BY <1>1, <2>2, <3>1, SizeAssumption DEF OutputInv, OutputTypeOK, Symbols
    <3> QED
      BY <2>1, <3>1, <3>2, <3>3 DEF OutputInv, OutputTypeOK, stream
  <2>3. CASE ~(index[active] < Size - 2)
    BY <2>1, <2>3 DEF PutLineEnd, OutputInv, OutputTypeOK, stream
  <2> QED
    BY <2>2, <2>3
<1>3. CASE c # LF
  <2>1. PutPlain(c) /\ UNCHANGED <<active, tx_buffer, tx_busy, stream>>
    BY <1>3 DEF putchar
  <2>2. CASE index[active] < Size - 1
    <3>1. /\ index' = [index EXCEPT ![active] = index[active] + 1]
          /\ mem' = [mem EXCEPT ![active][index[active]] = c]
          /\ pending_tx' = (pending_tx \/ index[active] + 1 >= Size - 1)
      BY <2>1, <2>2 DEF PutPlain
    <3>2. index' \in [Buffers -> 0 .. Size - 1]
      BY <1>1, <2>2, <3>1, SizeAssumption DEF OutputInv, OutputTypeOK
    <3>3. mem' \in [Buffers -> [0 .. Size - 1 -> Symbols]]
      BY <1>1, <2>2, <3>1, SizeAssumption DEF OutputInv, OutputTypeOK, Symbols
    <3>4. pending_tx' \in BOOLEAN
      BY <3>1
    <3> QED
      BY <2>1, <3>1, <3>2, <3>3, <3>4 DEF OutputInv, OutputTypeOK, stream
  <2>3. CASE ~(index[active] < Size - 1)
    BY <2>1, <2>3 DEF PutPlain, OutputInv, OutputTypeOK, stream
  <2> QED
    BY <2>2, <2>3
<1> QED
  BY <1>2, <1>3

LEMMA PutInv ==
  ASSUME OutputInv, NEW c \in Chars \cup {LF}, putchar(c)
  PROVE  OutputInv'
<1>1. /\ OutputTypeOK' /\ UNCHANGED <<active, tx_buffer, tx_busy, src, next, ndtr, tcif>>
      /\ \A b \in Buffers \ {active} : index'[b] = index[b]
  BY PutTypes DEF OutputInv, OutputTypeOK, stream
<1>2. 1 - active \in Buffers \ {active}
  BY DEF OutputInv, OutputTypeOK, Buffers
<1> QED
  BY <1>1, <1>2 DEF OutputInv, OutputTypeOK, StreamBusy, StreamIdle

\* What both printf_dma_process and the flush do once they find the UART idle
\* and something to send.
SwapAndStart ==
  /\ ~tx_busy /\ index[active] > 0
  /\ active' = 1 - active
  /\ tx_buffer' = active
  /\ tx_busy' = TRUE /\ src' = active /\ next' = 0 /\ ndtr' = index[active] /\ tcif' = FALSE

LEMMA SwapCases ==
  ASSUME OutputInv, printf_dma_process \/ FlushStart
  PROVE  /\ UNCHANGED <<mem, index>>
         /\ pending_tx' \in BOOLEAN
         /\ SwapAndStart \/ UNCHANGED <<active, tx_buffer, tx_busy, src, next, ndtr, tcif>>
<1>1. CASE printf_dma_process
  BY <1>1 DEF printf_dma_process, SwapAndStart, uart_write_dma, stream, OutputInv, OutputTypeOK
<1>2. CASE FlushStart
  BY <1>2 DEF FlushStart, SwapAndStart, uart_write_dma, stream, OutputInv, OutputTypeOK
<1> QED
  BY <1>1, <1>2

LEMMA SwapInv ==
  ASSUME OutputInv, printf_dma_process \/ FlushStart
  PROVE  OutputInv'
<1>1. CASE SwapAndStart
  <2>1. /\ active \in Buffers /\ 1 - active \in Buffers /\ 1 - active # active
        /\ index[active] \in 0 .. Size - 1 /\ 0 \in 0 .. Size - 1
    BY SizeAssumption DEF OutputInv, OutputTypeOK, Buffers
  <2>2. OutputTypeOK'
    BY <1>1, <2>1, SwapCases DEF SwapAndStart, OutputInv, OutputTypeOK
  <2>3. tx_busy' = TRUE /\ tcif' = FALSE /\ src' = active /\ tx_buffer' = active
    BY <1>1 DEF SwapAndStart
  <2>4. active' # tx_buffer' /\ index'[tx_buffer'] = index[active]
    BY <1>1, <2>1, SwapCases DEF SwapAndStart
  <2>5. ndtr' # 0 /\ next' + ndtr' = index[active]
    BY <1>1, <2>1, SizeAssumption DEF SwapAndStart
  <2> QED
    BY <2>2, <2>3, <2>4, <2>5 DEF OutputInv, StreamBusy
<1>2. CASE UNCHANGED <<active, tx_buffer, tx_busy, src, next, ndtr, tcif>>
  BY <1>2, SwapCases DEF OutputInv, OutputTypeOK, StreamBusy, StreamIdle
<1> QED
  BY <1>1, <1>2, SwapCases

LEMMA TransmitInv ==
  ASSUME OutputInv, TransmitItem
  PROVE  OutputInv'
<1>1. tx_busy /\ StreamBusy
  BY DEF OutputInv, StreamIdle, TransmitItem
<1>2. index[tx_buffer] \in 0 .. Size - 1 /\ next \in 0 .. Size - 1 /\ ndtr \in 0 .. Size - 1
  BY DEF OutputInv, OutputTypeOK
<1>3. next' \in 0 .. Size - 1 /\ ndtr' \in 0 .. Size - 1
  BY <1>1, <1>2, SizeAssumption DEF TransmitItem, StreamBusy
<1>4. OutputTypeOK'
  BY <1>3 DEF TransmitItem, buffers, OutputInv, OutputTypeOK
<1>5. next' + ndtr' = next + ndtr /\ (ndtr = 1 <=> ndtr' = 0)
  BY <1>2 DEF TransmitItem
<1>6. tx_busy' /\ StreamBusy'
  BY <1>1, <1>5 DEF TransmitItem, buffers, StreamBusy
<1> QED
  BY <1>4, <1>6 DEF OutputInv

LEMMA CompleteInv ==
  ASSUME OutputInv, TxComplete
  PROVE  OutputInv'
<1>1. tx_busy /\ StreamBusy /\ ndtr = 0
  BY DEF OutputInv, StreamIdle, StreamBusy, TxComplete
<1>2. tx_buffer = 1 - active
  BY <1>1 DEF OutputInv, OutputTypeOK, StreamBusy, Buffers
<1>3. index' \in [Buffers -> 0 .. Size - 1] /\ index'[1 - active] = 0
  BY <1>2, SizeAssumption DEF TxComplete, IndexAfterTx, OutputInv, OutputTypeOK
<1> QED
  BY <1>1, <1>3 DEF TxComplete, OutputInv, OutputTypeOK, StreamIdle

LEMMA OutputInvStep == OutputInv /\ [OutputNext]_outputVars => OutputInv'
<1> SUFFICES ASSUME OutputInv, [OutputNext]_outputVars PROVE OutputInv'
  OBVIOUS
<1>1. CASE \E c \in Chars \cup {LF} : putchar(c)
  BY <1>1, PutInv
<1>2. CASE printf_dma_mark_pending
  BY <1>2 DEF printf_dma_mark_pending, stream, OutputInv, OutputTypeOK, StreamBusy, StreamIdle
<1>3. CASE printf_dma_process \/ FlushStart
  BY <1>3, SwapInv
<1>4. CASE TransmitItem \/ TxComplete
  BY <1>4, TransmitInv, CompleteInv
<1>5. CASE UNCHANGED outputVars
  BY <1>5 DEF outputVars, buffers, stream, OutputInv, OutputTypeOK, StreamBusy, StreamIdle
<1> QED
  BY <1>1, <1>2, <1>3, <1>4, <1>5 DEF OutputNext, OutputCall

\* The main loop, its sleep and the tick do nothing to output but call it.
THEOREM LoopOnlyCalls == Spec => OutputSpec
<1>1. Init => OutputInit
  BY DEF Init
<1>2. [Next]_vars => [OutputNext]_outputVars
  BY DEF Next, vars, Prints, MainStep, PutChar, Prompt, Flush, Flushed, Process, Again, Idle, Sleep,
         Transmit, TxInterrupt, Tick, OutputNext, OutputCall
<1> QED
  BY <1>1, <1>2, PTL DEF Spec, OutputSpec

LEMMA OutputInvariant == OutputSpec => []OutputInv
BY OutputInvInit, OutputInvStep, PTL DEF OutputSpec

\* Buffers, indices and the stream's count stay within the buffers' size.
THEOREM OutputTypes == Spec => []OutputTypeOK
<1>1. OutputInv => OutputTypeOK
  BY DEF OutputInv
<1> QED
  BY <1>1, LoopOnlyCalls, OutputInvariant, PTL

-----------------------------------------------------------------------------
(* The refinement.                                                         *)

\* Where the character is that leaves the queue as number i.
Place(i) == IF i <= ndtr THEN mem[src][next + i - 1] ELSE mem[active][i - ndtr - 1]

LEMMA UnsentIsSeq ==
  OutputInv =>
    /\ Unsent \in Seq(Symbols)
    /\ Len(Unsent) = ndtr + index[active]
    /\ \A i \in 1 .. ndtr + index[active] : Unsent[i] = Place(i)
<1> SUFFICES ASSUME OutputInv
             PROVE  /\ Unsent \in Seq(Symbols)
                    /\ Len(Unsent) = ndtr + index[active]
                    /\ \A i \in 1 .. ndtr + index[active] : Unsent[i] = Place(i)
  OBVIOUS
<1> DEFINE n == ndtr + index[active]
<1>1. /\ n \in Nat /\ ndtr \in 0 .. Size - 1 /\ index[active] \in 0 .. Size - 1
      /\ next \in 0 .. Size - 1 /\ index[tx_buffer] \in 0 .. Size - 1
      /\ mem[src] \in [0 .. Size - 1 -> Symbols] /\ mem[active] \in [0 .. Size - 1 -> Symbols]
  BY SizeAssumption DEF OutputInv, OutputTypeOK
<1>2. ndtr > 0 => next + ndtr <= Size - 1
  BY <1>1, SizeAssumption DEF OutputInv, StreamBusy, StreamIdle
<1>3. ASSUME NEW i \in 1 .. n PROVE Place(i) \in Symbols
  <2>1. CASE i <= ndtr
    <3>1. next + i - 1 \in 0 .. Size - 1
      BY <1>1, <1>2, <2>1, SizeAssumption
    <3> QED
      BY <1>1, <2>1, <3>1 DEF Place
  <2>2. CASE ~(i <= ndtr)
    <3>1. i - ndtr - 1 \in 0 .. Size - 1
      BY <1>1, <2>2, SizeAssumption
    <3> QED
      BY <1>1, <2>2, <3>1 DEF Place
  <2> QED
    BY <2>1, <2>2
<1>4. Unsent = [i \in 1 .. n |-> Place(i)]
  BY DEF Unsent, Place
<1> HIDE DEF n
<1>5. Unsent \in [1 .. n -> Symbols]
  BY <1>3, <1>4
<1>6. Unsent \in Seq(Symbols) /\ Len(Unsent) = n
  BY <1>1, <1>4, <1>5
<1> QED
  BY <1>4, <1>6 DEF n

\* A step that keeps the length and every place keeps the queue.
LEMMA SamePlaces ==
  ASSUME OutputInv, OutputInv',
         ndtr' + index'[active'] = ndtr + index[active],
         \A i \in 1 .. ndtr + index[active] : Place(i)' = Place(i)
  PROVE  Unsent' = Unsent
<1>1. (/\ Unsent \in Seq(Symbols)
       /\ Len(Unsent) = ndtr + index[active]
       /\ \A i \in 1 .. ndtr + index[active] : Unsent[i] = Place(i))'
  BY UnsentIsSeq, PTL
<1> QED
  BY <1>1, UnsentIsSeq, SeqEqual

LEMMA PutRefines ==
  ASSUME OutputInv, OutputInv', NEW c \in Chars \cup {LF}, putchar(c)
  PROVE  Queue!QueueNext \/ Unsent' = Unsent
<1>1. /\ index[active] \in 0 .. Size - 1 /\ active \in Buffers /\ src \in Buffers
      /\ ndtr \in 0 .. Size - 1 /\ next \in 0 .. Size - 1
      /\ ndtr > 0 => src # active
  BY DEF OutputInv, OutputTypeOK, StreamBusy, StreamIdle
<1>2. UNCHANGED <<active, src, next, ndtr>>
  BY DEF putchar, stream
<1>3. ASSUME NEW t \in Seq(Symbols), t \in {<<d>> : d \in Chars} \cup {<<CR, LF>>},
             index'[active] = index[active] + Len(t), Len(t) > 0,
             \A b \in Buffers, j \in 0 .. Size - 1 :
               b # active \/ j < index[active] => mem'[b][j] = mem[b][j],
             \A j \in 1 .. Len(t) : mem'[active][index[active] + j - 1] = t[j]
      PROVE  Queue!QueueNext
  <2> DEFINE n == ndtr + index[active]
  <2>1. /\ Unsent \in Seq(Symbols) /\ Len(Unsent) = n
        /\ \A i \in 1 .. n : Unsent[i] = Place(i)
    BY UnsentIsSeq
  <2>2. /\ Unsent' \in Seq(Symbols) /\ Len(Unsent') = n + Len(t)
        /\ \A i \in 1 .. n + Len(t) : Unsent'[i] = Place(i)'
    <3>1. (/\ Unsent \in Seq(Symbols)
           /\ Len(Unsent) = ndtr + index[active]
           /\ \A i \in 1 .. ndtr + index[active] : Unsent[i] = Place(i))'
      BY UnsentIsSeq, PTL
    <3>2. ndtr' + index'[active'] = n + Len(t)
      BY <1>1, <1>2, <1>3
    <3> QED
      BY <3>1, <3>2
  <2>3. index'[active] \in 0 .. Size - 1
    BY <1>2 DEF OutputInv, OutputTypeOK
  <2>4. ASSUME NEW i \in 1 .. n PROVE Place(i)' = Place(i)
    <3>1. CASE i <= ndtr
      <4>1. next + i - 1 \in 0 .. Size - 1
        BY <1>1, <3>1, SizeAssumption DEF OutputInv, OutputTypeOK, StreamBusy, StreamIdle
      <4> QED
        BY <1>1, <1>2, <1>3, <3>1, <4>1 DEF Place
    <3>2. CASE ~(i <= ndtr)
      <4>1. i - ndtr - 1 \in 0 .. Size - 1 /\ i - ndtr - 1 < index[active]
        BY <1>1, <3>2, SizeAssumption
      <4> QED
        BY <1>1, <1>2, <1>3, <3>2, <4>1 DEF Place
    <3> QED
      BY <3>1, <3>2
  <2>5. ASSUME NEW i \in n + 1 .. n + Len(t) PROVE Place(i)' = t[i - n]
    <3>1. /\ ~(i <= ndtr) /\ i - n \in 1 .. Len(t)
          /\ i - ndtr - 1 = index[active] + (i - n) - 1
      BY <1>1
    <3> QED
      BY <1>2, <1>3, <3>1 DEF Place
  <2>6. Unsent' = Unsent \o t
    <3>1. t \in Seq(Symbols) /\ n \in Nat /\ Len(t) \in Nat
      BY <1>1, <1>3
    <3> HIDE DEF n
    <3>2. /\ Unsent \o t \in Seq(Symbols) /\ Len(Unsent \o t) = Len(Unsent) + Len(t)
          /\ \A i \in 1 .. Len(Unsent) + Len(t) :
               (Unsent \o t)[i] = IF i <= Len(Unsent) THEN Unsent[i] ELSE t[i - Len(Unsent)]
      BY <2>1, <3>1, ConcatProperties
    <3>3. ASSUME NEW i \in 1 .. n + Len(t) PROVE Unsent'[i] = (Unsent \o t)[i]
      <4>1. CASE i <= n
        <5>1. i \in 1 .. n
          BY <3>1, <4>1
        <5> QED
          BY <2>1, <2>2, <2>4, <3>2, <4>1, <5>1
      <4>2. CASE ~(i <= n)
        <5>1. i \in n + 1 .. n + Len(t)
          BY <3>1, <4>2
        <5> QED
          BY <2>1, <2>2, <2>5, <3>2, <4>2, <5>1
      <4> QED
        BY <4>1, <4>2
    <3> QED
      BY <2>1, <2>2, <3>2, <3>3, SeqEqual
  <2>7. Len(Unsent) + Len(t) <= 2 * (Size - 1)
    BY <1>1, <1>3, <2>1, <2>3, SizeAssumption
  <2> QED
    BY <1>3, <2>6, <2>7 DEF Queue!QueueNext, Queue!Accept
<1>4. CASE c = LF
  <2>1. PutLineEnd
    BY <1>4 DEF putchar
  <2>2. CASE index[active] < Size - 2
    <3>1. /\ index' = [index EXCEPT ![active] = index[active] + 2]
          /\ mem' = [mem EXCEPT ![active] = [@ EXCEPT ![index[active]] = CR, ![index[active] + 1] = LF]]
      BY <2>1, <2>2 DEF PutLineEnd
    <3>2. <<CR, LF>> \in Seq(Symbols) /\ Len(<<CR, LF>>) = 2
      BY DEF Symbols
    <3>3. index'[active] = index[active] + 2
      BY <1>1, <3>1 DEF OutputInv, OutputTypeOK
    <3>4. /\ mem[active] \in [0 .. Size - 1 -> Symbols]
          /\ mem'[active] = [mem[active] EXCEPT ![index[active]] = CR, ![index[active] + 1] = LF]
          /\ \A b \in Buffers \ {active} : mem'[b] = mem[b]
      BY <1>1, <3>1 DEF OutputInv, OutputTypeOK
    <3>5. ASSUME NEW j \in 0 .. Size - 1, j < index[active] PROVE mem'[active][j] = mem[active][j]
      <4>1. j # index[active] /\ j # index[active] + 1
        BY <1>1, <3>5, SizeAssumption
      <4> QED
        BY <3>4, <4>1
    <3>6. mem'[active][index[active]] = CR /\ mem'[active][index[active] + 1] = LF
      BY <1>1, <2>2, <3>4, SizeAssumption
    <3>7. \A j \in 1 .. Len(<<CR, LF>>) : mem'[active][index[active] + j - 1] = <<CR, LF>>[j]
      <4>1. ASSUME NEW j \in {1, 2} PROVE mem'[active][index[active] + j - 1] = <<CR, LF>>[j]
        BY <1>1, <3>6
      <4> QED
        BY <3>2, <4>1
    <3>8. \A b \in Buffers, j \in 0 .. Size - 1 :
            b # active \/ j < index[active] => mem'[b][j] = mem[b][j]
      BY <3>4, <3>5
    <3>9. index'[active] = index[active] + Len(<<CR, LF>>) /\ Len(<<CR, LF>>) > 0
      BY <3>2, <3>3
    <3> QED
      BY <1>3, <3>2, <3>7, <3>8, <3>9
  <2>3. CASE ~(index[active] < Size - 2)
    <3>1. UNCHANGED <<mem, index>>
      BY <2>1, <2>3 DEF PutLineEnd
    <3> QED
      BY <1>2, <3>1 DEF Unsent
  <2> QED
    BY <2>2, <2>3
<1>5. CASE c # LF
  <2>1. PutPlain(c) /\ c \in Chars
    BY <1>5 DEF putchar
  <2>2. CASE index[active] < Size - 1
    <3>1. /\ index' = [index EXCEPT ![active] = index[active] + 1]
          /\ mem' = [mem EXCEPT ![active][index[active]] = c]
      BY <2>1, <2>2 DEF PutPlain
    <3>2. <<c>> \in Seq(Symbols) /\ Len(<<c>>) = 1
      BY <2>1 DEF Symbols
    <3>3. index'[active] = index[active] + 1
      BY <1>1, <3>1 DEF OutputInv, OutputTypeOK
    <3>4. /\ mem[active] \in [0 .. Size - 1 -> Symbols]
          /\ mem'[active] = [mem[active] EXCEPT ![index[active]] = c]
          /\ \A b \in Buffers \ {active} : mem'[b] = mem[b]
      BY <1>1, <3>1 DEF OutputInv, OutputTypeOK
    <3>5. \A j \in 0 .. Size - 1 : j < index[active] => mem'[active][j] = mem[active][j]
      BY <1>1, <3>4
    <3>6. mem'[active][index[active]] = c
      BY <1>1, <3>4
    <3>7. \A j \in 1 .. Len(<<c>>) : mem'[active][index[active] + j - 1] = <<c>>[j]
      <4>1. ASSUME NEW j \in {1} PROVE mem'[active][index[active] + j - 1] = <<c>>[j]
        BY <1>1, <3>6
      <4> QED
        BY <3>2, <4>1
    <3>8. \A b \in Buffers, j \in 0 .. Size - 1 :
            b # active \/ j < index[active] => mem'[b][j] = mem[b][j]
      BY <3>4, <3>5
    <3>9. index'[active] = index[active] + Len(<<c>>) /\ Len(<<c>>) > 0
      BY <3>2, <3>3
    <3> QED
      BY <1>3, <2>1, <3>2, <3>7, <3>8, <3>9
  <2>3. CASE ~(index[active] < Size - 1)
    <3>1. UNCHANGED <<mem, index>>
      BY <2>1, <2>3 DEF PutPlain
    <3> QED
      BY <1>2, <3>1 DEF Unsent
  <2> QED
    BY <2>2, <2>3
<1> QED
  BY <1>4, <1>5

LEMMA SwapRefines ==
  ASSUME OutputInv, OutputInv', printf_dma_process \/ FlushStart
  PROVE  Unsent' = Unsent
<1>1. CASE SwapAndStart
  <2>1. /\ ndtr = 0 /\ index[1 - active] = 0 /\ index[active] \in Nat /\ active \in Buffers
    BY <1>1, SizeAssumption DEF SwapAndStart, OutputInv, OutputTypeOK, StreamIdle
  <2>2. /\ mem' = mem /\ index' = index
        /\ active' = 1 - active /\ src' = active /\ next' = 0 /\ ndtr' = index[active]
    BY <1>1, SwapCases DEF SwapAndStart
  <2>3. ndtr' + index'[active'] = ndtr + index[active]
    BY <2>1, <2>2
  <2>4. ASSUME NEW i \in 1 .. ndtr + index[active] PROVE Place(i)' = Place(i)
    <3>1. i <= index[active] /\ ~(i <= ndtr) /\ 0 + i - 1 = i - ndtr - 1
      BY <2>1
    <3> QED
      BY <2>2, <3>1 DEF Place
  <2> QED
    BY <2>3, <2>4, SamePlaces
<1>2. CASE UNCHANGED <<active, tx_buffer, tx_busy, src, next, ndtr, tcif>>
  BY <1>2, SwapCases DEF Unsent
<1> QED
  BY <1>1, <1>2, SwapCases

LEMMA CompleteRefines ==
  ASSUME OutputInv, OutputInv', TxComplete
  PROVE  Unsent' = Unsent
<1>1. active # tx_buffer /\ UNCHANGED <<mem, active, src, next, ndtr>>
  BY DEF TxComplete, OutputInv, StreamBusy, StreamIdle
<1>2. index'[active] = index[active]
  BY <1>1 DEF TxComplete, IndexAfterTx, OutputInv, OutputTypeOK
<1> QED
  BY <1>1, <1>2 DEF Unsent

LEMMA TransmitRefines ==
  ASSUME OutputInv, OutputInv', TransmitItem
  PROVE  Queue!Send
<1> DEFINE n == ndtr + index[active]
<1>1. /\ ndtr \in Nat /\ ndtr > 0 /\ index[active] \in Nat /\ next \in Nat
      /\ ndtr' = ndtr - 1 /\ next' = next + 1
      /\ UNCHANGED <<mem, index, active, src>>
  BY SizeAssumption DEF TransmitItem, buffers, OutputInv, OutputTypeOK
<1>2. /\ Unsent \in Seq(Symbols) /\ Len(Unsent) = n
      /\ \A i \in 1 .. n : Unsent[i] = Place(i)
  BY UnsentIsSeq
<1>3. (/\ Unsent \in Seq(Symbols)
       /\ Len(Unsent) = ndtr + index[active]
       /\ \A i \in 1 .. ndtr + index[active] : Unsent[i] = Place(i))'
  BY UnsentIsSeq, PTL
<1>4. ndtr' + index'[active'] = n - 1 /\ n \in Nat /\ n > 0
  BY <1>1
<1>5. ASSUME NEW i \in 1 .. n - 1 PROVE Place(i)' = Place(i + 1)
  <2>1. CASE i + 1 <= ndtr
    <3>1. i <= ndtr - 1 /\ next + 1 + i - 1 = next + (i + 1) - 1
      BY <1>1, <2>1
    <3> QED
      BY <1>1, <2>1, <3>1 DEF Place
  <2>2. CASE ~(i + 1 <= ndtr)
    <3>1. ~(i <= ndtr - 1) /\ i - (ndtr - 1) - 1 = i + 1 - ndtr - 1
      BY <1>1, <2>2
    <3> QED
      BY <1>1, <2>2, <3>1 DEF Place
  <2> QED
    BY <2>1, <2>2
<1>6. Unsent # <<>>
  BY <1>2, <1>4
<1>7. /\ Tail(Unsent) \in Seq(Symbols) /\ Len(Tail(Unsent)) = Len(Unsent) - 1
      /\ \A i \in 1 .. Len(Tail(Unsent)) : Tail(Unsent)[i] = Unsent[i + 1]
  BY <1>2, <1>6, HeadTailProperties
<1>8. Len(Unsent') = n - 1 /\ Len(Tail(Unsent)) = n - 1
  BY <1>2, <1>3, <1>4, <1>7
<1>9. ASSUME NEW i \in 1 .. n - 1 PROVE Unsent'[i] = Tail(Unsent)[i]
  <2>1. i + 1 \in 1 .. n
    BY <1>4
  <2>2. Unsent'[i] = Place(i)'
    BY <1>3, <1>4
  <2>3. Tail(Unsent)[i] = Place(i + 1)
    BY <1>2, <1>7, <1>8, <2>1
  <2> QED
    BY <1>5, <2>2, <2>3
<1>10. Unsent' = Tail(Unsent)
  BY <1>3, <1>7, <1>8, <1>9, SeqEqual
<1> QED
  BY <1>6, <1>10 DEF Queue!Send

\* Whatever the order of calls, items moved and completion interrupts, the
\* characters taken leave once each and in order; those without room are refused.
THEOREM OutputIsQueue == OutputSpec => ImplementsByteQueue
<1>1. OutputInit => Queue!QueueInit
  <2> SUFFICES ASSUME OutputInit PROVE Unsent = <<>>
    BY DEF Queue!QueueInit
  <2>1. OutputInv /\ ndtr + index[active] = 0
    BY OutputInvInit DEF OutputInit, Buffers
  <2>2. Unsent \in Seq(Symbols) /\ Len(Unsent) = 0
    BY <2>1, UnsentIsSeq
  <2> QED
    BY <2>2, EmptySeq
<1>2. OutputInv /\ OutputInv' /\ [OutputNext]_outputVars => [Queue!QueueNext]_Unsent
  <2> SUFFICES ASSUME OutputInv, OutputInv', [OutputNext]_outputVars
               PROVE  Queue!QueueNext \/ Unsent' = Unsent
    OBVIOUS
  <2>1. CASE \E c \in Chars \cup {LF} : putchar(c)
    BY <2>1, PutRefines
  <2>2. CASE printf_dma_mark_pending
    BY <2>2 DEF printf_dma_mark_pending, stream, Unsent
  <2>3. CASE printf_dma_process \/ FlushStart
    BY <2>3, SwapRefines
  <2>4. CASE TransmitItem
    BY <2>4, TransmitRefines DEF Queue!QueueNext
  <2>5. CASE TxComplete
    BY <2>5, CompleteRefines
  <2>6. CASE UNCHANGED outputVars
    BY <2>6 DEF outputVars, buffers, stream, Unsent
  <2> QED
    BY <2>1, <2>2, <2>3, <2>4, <2>5, <2>6 DEF OutputNext, OutputCall
<1> QED
  BY <1>1, <1>2, OutputInvariant, PTL DEF OutputSpec, ImplementsByteQueue, Queue!QueueSpec

\* ... and so does the console's main loop.
THEOREM LoopIsQueue == Spec => ImplementsByteQueue
BY LoopOnlyCalls, OutputIsQueue
=============================================================================
