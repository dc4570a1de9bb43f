----------------------------- MODULE PrintfDma -----------------------------
(***************************************************************************)
(* Buffered console output, utils/src/printf_dma.c, over the UART's TX DMA *)
(* (uart_write_dma and its completion callback).  printf calls _putchar in *)
(* the main loop only; the receive interrupt echoes through uart_write.    *)
(* The DMA reads the transmitted buffer one item at a time while the main  *)
(* loop fills the other one, and its completion interrupt may come between *)
(* any two calls.  A call is one step: the interrupt only clears tx_busy   *)
(* and the index of tx_buffer, which the call has either read before or    *)
(* not at all.                                                             *)
(***************************************************************************)
EXTENDS Naturals, Sequences

CONSTANTS
  Size,          (* PRINTF_BUFFER_SIZE *)
  Chars,         (* characters other than the line end *)
  CR, LF,
  Blank          (* what a buffer holds before the first character *)

ASSUME SizeAssumption == Size \in Nat /\ Size >= 3

VARIABLES
  mem,           (* printf_buffers *)
  index,         (* buffer_indices *)
  active, tx_buffer, pending_tx,
  tx_busy,       (* of uart.c *)
  src, next,     (* the TX stream: the buffer it reads and where it is *)
  ndtr,          (* items left *)
  tcif           (* transfer complete, interrupt not yet taken *)

buffers == <<mem, index, active, tx_buffer, pending_tx>>
stream == <<src, next, ndtr, tcif>>
outputVars == <<buffers, tx_busy, stream>>

Buffers == {0, 1}
Symbols == Chars \cup {CR, LF, Blank}

OutputInit ==
  /\ mem = [b \in Buffers |-> [i \in 0 .. Size - 1 |-> Blank]]
  /\ index = [b \in Buffers |-> 0]
  /\ active = 0 /\ tx_buffer = 0 /\ pending_tx = FALSE
  /\ tx_busy = FALSE
  /\ src = 0 /\ next = 0 /\ ndtr = 0 /\ tcif = FALSE

-----------------------------------------------------------------------------
(* Called from the main loop.                                              *)

\* A line end takes two places, CR and LF.
PutLineEnd ==
  LET n == index[active]
  IN  /\ IF n < Size - 2
         THEN /\ mem' = [mem EXCEPT ![active] = [@ EXCEPT ![n] = CR, ![n + 1] = LF]]
              /\ index' = [index EXCEPT ![active] = n + 2]
         ELSE UNCHANGED <<mem, index>>
      /\ pending_tx' = TRUE

\* Mutant: the last place is used, too.
PutInLast(c) ==
  LET n == index[active]
  IN  IF n < Size
      THEN /\ mem' = [mem EXCEPT ![active][n] = c]
           /\ index' = [index EXCEPT ![active] = n + 1]
           /\ pending_tx' = (pending_tx \/ n + 1 >= Size - 1)
      ELSE /\ pending_tx' = TRUE
           /\ UNCHANGED <<mem, index>>

PutPlain(c) ==
  LET n == index[active]
  IN  IF n < Size - 1
      THEN /\ mem' = [mem EXCEPT ![active][n] = c]
           /\ index' = [index EXCEPT ![active] = n + 1]
           /\ pending_tx' = (pending_tx \/ n + 1 >= Size - 1)
      ELSE /\ pending_tx' = TRUE
           /\ UNCHANGED <<mem, index>>

putchar(c) ==
  /\ IF c = LF THEN PutLineEnd ELSE PutPlain(c)
  /\ UNCHANGED <<active, tx_buffer, tx_busy, stream>>

printf_dma_mark_pending ==
  /\ pending_tx' = TRUE
  /\ UNCHANGED <<mem, index, active, tx_buffer, tx_busy, stream>>

\* The stream starts at the beginning of the buffer, its flags cleared.
uart_write_dma(b, n) ==
  IF tx_busy \/ n = 0
  THEN UNCHANGED <<tx_busy, stream>>
  ELSE tx_busy' = TRUE /\ src' = b /\ next' = 0 /\ ndtr' = n /\ tcif' = FALSE

\* Mutant: the buffers are swapped whether or not the stream is idle.
SwapAnyway ==
  /\ IF pending_tx /\ index[active] > 0
     THEN /\ active' = 1 - active
          /\ tx_buffer' = active
          /\ uart_write_dma(active, index[active])
     ELSE UNCHANGED <<active, tx_buffer, tx_busy, stream>>
  /\ pending_tx' = FALSE
  /\ UNCHANGED <<mem, index>>

\* Mutant: the pending flag is cleared although nothing could be started.
ForgetsPending ==
  /\ IF pending_tx /\ ~tx_busy /\ index[active] > 0
     THEN /\ active' = 1 - active
          /\ tx_buffer' = active
          /\ uart_write_dma(active, index[active])
     ELSE UNCHANGED <<active, tx_buffer, tx_busy, stream>>
  /\ pending_tx' = FALSE
  /\ UNCHANGED <<mem, index>>

\* printf_dma_process and try_swap_and_transmit.
printf_dma_process ==
  /\ IF pending_tx /\ ~tx_busy /\ index[active] > 0
     THEN /\ active' = 1 - active
          /\ tx_buffer' = active
          /\ uart_write_dma(active, index[active])
     ELSE UNCHANGED <<active, tx_buffer, tx_busy, stream>>
  /\ pending_tx' = (pending_tx /\ tx_busy)
  /\ UNCHANGED <<mem, index>>

\* printf_dma_flush up to its wait for tx_busy: mark pending and process.
FlushStart ==
  /\ IF ~tx_busy /\ index[active] > 0
     THEN /\ active' = 1 - active
          /\ tx_buffer' = active
          /\ uart_write_dma(active, index[active])
     ELSE UNCHANGED <<active, tx_buffer, tx_busy, stream>>
  /\ pending_tx' = tx_busy
  /\ UNCHANGED <<mem, index>>

-----------------------------------------------------------------------------
(* The hardware and its interrupt.                                         *)

TransmitItem ==
  /\ ndtr > 0
  /\ next' = next + 1
  /\ ndtr' = ndtr - 1
  /\ tcif' = (ndtr = 1)
  /\ UNCHANGED <<buffers, tx_busy, src>>

IndexAfterTx == [index EXCEPT ![tx_buffer] = 0]

\* uart_tx_dma_tc_callback and printf_dma_tx_complete_callback.
TxComplete ==
  /\ tcif
  /\ tcif' = FALSE
  /\ tx_busy' = FALSE
  /\ index' = IndexAfterTx
  /\ UNCHANGED <<mem, active, tx_buffer, pending_tx, src, next, ndtr>>

OutputCall ==
  \/ \E c \in Chars \cup {LF} : putchar(c)
  \/ printf_dma_mark_pending \/ printf_dma_process \/ FlushStart

OutputNext == OutputCall \/ TransmitItem \/ TxComplete

OutputSpec == OutputInit /\ [][OutputNext]_outputVars

-----------------------------------------------------------------------------
(* Properties.                                                             *)

OutputTypeOK ==
  /\ mem \in [Buffers -> [0 .. Size - 1 -> Symbols]]
  /\ index \in [Buffers -> 0 .. Size - 1]
  /\ active \in Buffers /\ tx_buffer \in Buffers /\ src \in Buffers
  /\ pending_tx \in BOOLEAN /\ tx_busy \in BOOLEAN /\ tcif \in BOOLEAN
  /\ next \in 0 .. Size - 1 /\ ndtr \in 0 .. Size - 1

\* What was printed and has not left: the rest of the buffer the stream reads,
\* then what the active one holds.
Unsent ==
  [i \in 1 .. ndtr + index[active] |->
     IF i <= ndtr THEN mem[src][next + i - 1] ELSE mem[active][i - ndtr - 1]]

\* Characters leave once each and in the order they were printed: the buffer
\* that is being transmitted is neither refilled nor emptied, and nothing of
\* it is forgotten when the two are swapped (printf_dma.c:44-99).
Queue == INSTANCE ByteQueue WITH
  queue <- Unsent,
  Capacity <- 2 * (Size - 1),
  Texts <- {<<c>> : c \in Chars} \cup {<<CR, LF>>}
ImplementsByteQueue == Queue!QueueSpec
=============================================================================
