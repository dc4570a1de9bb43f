----------------------------- MODULE DmaStreams -----------------------------
(***************************************************************************)
(* The DMA streams (drivers/src/dma.c) and what their hardware does.  A    *)
(* stream's state is a record; the driver's functions are operators that   *)
(* give the record after the call.  The clients are SpiDma and UartRx.     *)
(***************************************************************************)
EXTENDS Naturals

CONSTANTS
  Streams,
  Clients,     (* whose callback and context a stream can hold *)
  None,
  MaxCount     (* bound: the longest transfer *)

ASSUME ClientsAssumption == None \notin Clients

VARIABLE stream

Idle == [owner |-> None, circular |-> FALSE, irq |-> FALSE, en |-> FALSE,
         count |-> 0, ndtr |-> 0, tcif |-> FALSE]

StreamState == [owner : Clients \cup {None}, circular : BOOLEAN, irq : BOOLEAN, en : BOOLEAN,
                count : 0 .. MaxCount, ndtr : 0 .. MaxCount, tcif : BOOLEAN]

StreamsInit == stream = [s \in Streams |-> Idle]

Allocated(s) == stream[s].owner # None

\* dma_stream_init of a stream that is not allocated (otherwise: ERR_BUSY).  It
\* interrupts when the client has given a tc_callback.
Configured(st, client, circ, calls) ==
  [st EXCEPT !.en = FALSE, !.tcif = FALSE, !.owner = client, !.circular = circ, !.irq = calls]

\* dma_stream_start and dma_stream_start_config: flags cleared, count loaded, EN.
\* The count matters to a circular stream only.
Started(st, n) ==
  [st EXCEPT !.tcif = FALSE, !.count = IF st.circular THEN n ELSE 0, !.ndtr = n, !.en = TRUE]

\* dma_stream_release: stop, NVIC off, state cleared.  What the registers keep
\* is overwritten by the next init and start.
Released == Idle

\* Mutant: a circular stream does not reload.
NoReload(st) ==
  LET n == st.ndtr - 1
  IN  [st EXCEPT !.ndtr = n, !.tcif = @ \/ n = 0, !.en = n > 0 \/ st.circular]

\* The hardware moves one item; at the last one it sets TCIF and stops, or
\* reloads the count.
Moved(st) ==
  LET n == st.ndtr - 1
      reload == n = 0 /\ st.circular
  IN  [st EXCEPT !.ndtr = IF reload THEN st.count ELSE n,
                 !.tcif = @ \/ n = 0, !.en = n > 0 \/ reload]

\* dma_irq_handler runs, clears the flag, and calls the owner's callback.
InterruptDue(st) == st.tcif /\ st.irq
Served(st) == [st EXCEPT !.tcif = FALSE]
=============================================================================
