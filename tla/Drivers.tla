------------------------------ MODULE Drivers ------------------------------
(***************************************************************************)
(* The clients of the DMA streams together: SPI transfers and the UART's   *)
(* reception, whose streams overlap, called from one main loop.            *)
(***************************************************************************)
EXTENDS SpiDma, UartRx

ASSUME SeparateAssumption == Uart \notin Instances

vars == <<stream, spiVars, uartVars>>

Init == StreamsInit /\ SpiInit /\ UartInit

SpiStep == (SpiCall \/ SpiHardware) /\ UNCHANGED uartVars
UartStep ==
  /\ (call.at = "idle" /\ UartCall) \/ UartInterrupt \/ UartHardware
  /\ UNCHANGED spiVars

Next == SpiStep \/ UartStep

Spec == Init /\ [][Next]_vars

\* The main loop is inside a call until it returns; the shift register and the
\* streams run on their own; the interrupt is taken.
FairSpec ==
  /\ Spec
  /\ WF_vars((InitRx \/ InitTx \/ Enable \/ Start) /\ UNCHANGED uartVars)
  /\ \A i \in Instances :
       /\ WF_vars(ShiftByte(i) /\ UNCHANGED uartVars)
       /\ WF_vars(TakeByte(i) /\ UNCHANGED uartVars)
       /\ WF_vars(RxComplete(i) /\ UNCHANGED uartVars)

-----------------------------------------------------------------------------
(* Properties.                                                             *)

DriversTypeOK ==
  /\ stream \in [Streams -> StreamState]
  /\ handle \in [Handles -> [inst : Instances \cup {None}, dma_busy : BOOLEAN]]
  /\ spi_dma_initialized \in [Instances -> BOOLEAN] /\ enabled \in [Instances -> BOOLEAN]
  /\ dr \in [Instances -> {0, 1}]
  /\ call.at \in {"idle", "initRx", "initTx", "enable", "startRx", "startTx", "wait"}
  /\ rx_dma_active \in BOOLEAN /\ lapped \in BOOLEAN /\ rx_dma_last_ndtr \in 0 .. BufSize /\ seen \in 0 .. BufSize
  /\ isr \in {"none", "read", "delivered"}

Has(i) == stream[TxStream[i]].owner = i /\ stream[RxStream[i]].owner = i

\* Between calls a stream belongs to an SPI instance exactly when the instance
\* has both of its streams: a first transfer that finds the second stream taken
\* leaves nothing allocated (spi.c:270-314).
StreamsInPairs ==
  call.at = "idle" =>
    /\ \A i \in Instances : spi_dma_initialized[i] <=> Has(i)
    /\ \A s \in Streams, i \in Instances : stream[s].owner = i => Has(i)

\* When the RX stream completes the TX stream has stopped: the callback does
\* not stop it (spi.c:247-250).
TransmitterIsDone ==
  \A i \in Instances :
    stream[RxStream[i]].owner = i /\ stream[RxStream[i]].tcif => ~stream[TxStream[i]].en

\* A transfer completes, so that spi_transfer_dma_blocking returns.
TransferEnds == \A h \in Handles : handle[h].dma_busy ~> ~handle[h].dma_busy

\* The callback gets every byte once and in order (uart.h:189-198), unless the
\* ring was full of bytes not handed on: to the driver it is empty (uart.c:356)
\* and is skipped.  From the next byte on everything is handed on again.
HandedInOrderOnce ==
  [][rx_dma_active /\ ~lapped /\ ~lapped' /\ due' # due =>
       handed' = [i \in 1 .. (due' + Numbers - due) % Numbers |-> (due + i - 1) % Numbers]]_<<rx_dma_active, lapped, due, handed>>

\* When the line has gone idle and its interrupt is over, reading goes on where
\* writing does and every byte that was not skipped with a full ring has been
\* handed on.
IdleLeavesNothing ==
  rx_dma_active /\ quiet /\ ~idle /\ isr = "none" =>
    ~lapped /\ received = due /\ rx_dma_last_ndtr = Ndtr
=============================================================================
