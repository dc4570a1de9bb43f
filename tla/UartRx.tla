------------------------------- MODULE UartRx -------------------------------
(***************************************************************************)
(* Continuous reception by DMA (drivers/src/uart.c): the stream writes a   *)
(* ring, and its transfer-complete interrupt and the UART's idle interrupt *)
(* both hand what is new in it to rx_dma_callback.  The first has the      *)
(* higher priority (irq_priorities.h) and may come in the middle of the    *)
(* second.  Bytes are numbered in the order they arrive.                   *)
(***************************************************************************)
EXTENDS DmaStreams, Sequences

CONSTANTS
  Uart,                    (* the client *)
  UartStream,              (* uart_hw_table[...].rx_dma_stream *)
  BufSize,                 (* rx_dma_buf_size *)
  Numbers,                 (* bound: bytes are numbered modulo this *)
  WrapsInside              (* a wrap of the ring may come inside the idle interrupt *)

ASSUME UartAssumption ==
  /\ Uart \in Clients /\ UartStream \in Streams
  /\ BufSize \in 1 .. MaxCount
  /\ Numbers \in Nat /\ Numbers > BufSize + 1 /\ WrapsInside \in BOOLEAN

VARIABLES
  rx_dma_active, rx_dma_last_ndtr,
  ring,                    (* rx_dma_buf *)
  idle,                    (* SR_IDLE *)
  isr,                     (* the idle interrupt: "none", "read", "delivered" *)
  seen,                    (* its local ndtr *)
  quiet,                   (* history: nothing arrived since the line went idle *)
  lapped,                  (* history: the ring got full of bytes not handed on *)
  received, due,           (* history: the next byte to arrive, and owed to the callback *)
  handed                   (* history: what the last step gave the callback *)

uartVars == <<rx_dma_active, rx_dma_last_ndtr, ring, idle, isr, seen, quiet, lapped, received, due, handed>>

\* What is in the buffer before anything was received.
OldRing == [i \in 0 .. BufSize - 1 |-> Numbers]

UartInit ==
  /\ rx_dma_active = FALSE /\ rx_dma_last_ndtr = 0
  /\ ring = OldRing
  /\ idle = FALSE /\ isr = "none" /\ seen = 0 /\ quiet = TRUE /\ lapped = FALSE
  /\ received = 0 /\ due = 0 /\ handed = <<>>

Ndtr == stream[UartStream].ndtr
Outstanding == (received + Numbers - due) % Numbers

\* uart_start_rx_dma, of a stream nobody has: the result of dma_stream_init is
\* not looked at.  The numbers start again.
uart_start_rx_dma ==
  /\ ~rx_dma_active /\ ~Allocated(UartStream)
  /\ rx_dma_active' = TRUE
  /\ rx_dma_last_ndtr' = BufSize
  /\ stream' = [stream EXCEPT ![UartStream] = Started(Configured(@, Uart, TRUE, TRUE), BufSize)]
  /\ received' = 0 /\ due' = 0 /\ handed' = <<>>
  /\ quiet' = TRUE /\ lapped' = FALSE /\ ring' = OldRing
  /\ UNCHANGED <<idle, isr, seen>>

uart_stop_rx_dma ==
  /\ rx_dma_active
  /\ rx_dma_active' = FALSE
  /\ stream' = [stream EXCEPT ![UartStream] = Released]
  /\ handed' = <<>>
  /\ UNCHANGED <<rx_dma_last_ndtr, ring, idle, isr, seen, quiet, lapped, received, due>>

\* The stream writes whether or not there is room: nobody stops it.  A ring full
\* of bytes not handed on is empty to the driver; its bytes are not owed any
\* more.  Where the run says so the ring does not wrap inside the idle interrupt.
ByteArrives ==
  /\ rx_dma_active /\ stream[UartStream].en
  /\ isr # "none" /\ Ndtr = 1 => WrapsInside
  /\ ring' = [ring EXCEPT ![BufSize - Ndtr] = received]
  /\ received' = (received + 1) % Numbers
  /\ stream' = [stream EXCEPT ![UartStream] = Moved(@)]
  /\ quiet' = FALSE
  /\ lapped' = (lapped \/ Outstanding + 1 >= BufSize)
  /\ due' = IF lapped' THEN received' ELSE due
  /\ handed' = <<>>
  /\ UNCHANGED <<rx_dma_active, rx_dma_last_ndtr, idle, isr, seen>>

LineIdle ==
  /\ ~quiet
  /\ quiet' = TRUE /\ idle' = TRUE
  /\ handed' = <<>>
  /\ UNCHANGED <<stream, rx_dma_active, rx_dma_last_ndtr, ring, isr, seen, lapped, received, due>>

\* What the callback is given for a count: from the tail to the head, or to the
\* end of the ring and then from its beginning.
NewIn(ndtr) ==
  LET head == BufSize - ndtr
      tail == BufSize - rx_dma_last_ndtr
      bytes == [i \in 1 .. BufSize |-> ring[i - 1]]
  IN  IF head >= tail THEN SubSeq(bytes, tail + 1, head)
      ELSE SubSeq(bytes, tail + 1, BufSize) \o SubSeq(bytes, 1, head)

\* Mutant: the transfer-complete callback leaves rx_dma_last_ndtr.
LastKept == rx_dma_last_ndtr

LastAfterTc == Ndtr

\* uart_rx_dma_tc_callback.
TransferComplete ==
  /\ InterruptDue(stream[UartStream]) /\ stream[UartStream].owner = Uart
  /\ stream' = [stream EXCEPT ![UartStream] = Served(@)]
  /\ IF rx_dma_active
     THEN /\ handed' = NewIn(Ndtr) /\ rx_dma_last_ndtr' = LastAfterTc
          /\ due' = IF lapped THEN due ELSE (due + Len(handed')) % Numbers
          /\ lapped' = FALSE
     ELSE handed' = <<>> /\ UNCHANGED <<due, lapped, rx_dma_last_ndtr>>
  /\ UNCHANGED <<rx_dma_active, ring, idle, isr, seen, quiet, received>>

\* Mutant: the ring is left to the transfer-complete interrupt.
IdleIgnores == UNCHANGED <<isr, seen>>

IdleBegins ==
  IF rx_dma_active THEN isr' = "read" /\ seen' = Ndtr ELSE UNCHANGED <<isr, seen>>

\* The idle interrupt in three steps; it does not begin while the stream's
\* interrupt is due.  Without reception by DMA it only clears the flag.
IdleReads ==
  /\ idle /\ isr = "none" /\ ~InterruptDue(stream[UartStream])
  /\ idle' = FALSE
  /\ IdleBegins
  /\ handed' = <<>>
  /\ UNCHANGED <<stream, rx_dma_active, rx_dma_last_ndtr, ring, quiet, lapped, received, due>>

IdleDelivers ==
  /\ isr = "read" /\ isr' = "delivered"
  /\ handed' = NewIn(seen)
  /\ due' = (due + Len(handed')) % Numbers
  /\ UNCHANGED <<stream, rx_dma_active, rx_dma_last_ndtr, ring, idle, seen, quiet, lapped, received>>

IdleEnds ==
  /\ isr = "delivered" /\ isr' = "none"
  /\ rx_dma_last_ndtr' = seen
  /\ seen' = 0
  /\ handed' = <<>>
  /\ UNCHANGED <<stream, rx_dma_active, ring, idle, quiet, lapped, received, due>>

UartCall == isr = "none" /\ (uart_start_rx_dma \/ uart_stop_rx_dma)
UartInterrupt == TransferComplete \/ IdleReads \/ IdleDelivers \/ IdleEnds
UartHardware == ByteArrives \/ LineIdle
=============================================================================
