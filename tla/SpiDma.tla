------------------------------- MODULE SpiDma -------------------------------
(***************************************************************************)
(* SPI transfers by DMA (drivers/src/spi.c): the main loop calls, the      *)
(* shift register and the two streams move bytes, and the RX stream's      *)
(* interrupt completes.  Instances share streams: SPI1 and SPI4 receive    *)
(* through the same one, SPI3 transmits through the one USART2 receives by. *)
(*                                                                         *)
(* Callers are those of spi_perf.c: one open handle per instance, no       *)
(* transfer and no deinit of a handle that is busy.                        *)
(***************************************************************************)
EXTENDS DmaStreams

CONSTANTS
  Instances,
  TxStream, RxStream,      (* spi_dma_map *)
  Handles,
  MaxLen                   (* bound: the longest transfer by SPI *)

VARIABLES
  handle,                  (* its config.instance, None while regs is NULL, and dma_busy *)
  spi_dma_initialized,
  enabled,                 (* SPE and the DMA requests, set and cleared together *)
  dr,                      (* bytes clocked in that the RX stream has not taken *)
  call                     (* where the main loop is: [at, h, n] *)

spiVars == <<handle, spi_dma_initialized, enabled, dr, call>>

ASSUME MapAssumption ==
  /\ Instances \subseteq Clients
  /\ TxStream \in [Instances -> Streams] /\ RxStream \in [Instances -> Streams]
  /\ \A i \in Instances : TxStream[i] # RxStream[i]
ASSUME LengthAssumption == MaxCount \in Nat /\ MaxLen \in 1 .. MaxCount

NoCall == [at |-> "idle", h |-> None, n |-> 0]
Lengths == 1 .. MaxLen

SpiInit ==
  /\ handle = [h \in Handles |-> [inst |-> None, dma_busy |-> FALSE]]
  /\ spi_dma_initialized = [i \in Instances |-> FALSE]
  /\ enabled = [i \in Instances |-> FALSE]
  /\ dr = [i \in Instances |-> 0]
  /\ call = NoCall

Open(h) == handle[h].inst # None
Inst == handle[call.h].inst
At(place) == call.at = place
Goes(place) == call' = [call EXCEPT !.at = place]

-----------------------------------------------------------------------------
(* Calls from the main loop.                                               *)

spi_init(h, i) ==
  /\ At("idle") /\ ~Open(h)
  /\ \A other \in Handles : handle[other].inst # i
  /\ handle' = [handle EXCEPT ![h].inst = i]
  /\ enabled' = [enabled EXCEPT ![i] = FALSE]
  /\ UNCHANGED <<stream, spi_dma_initialized, dr, call>>

\* spi_deinit, with spi_dma_release_for_deinit.
spi_deinit(h) ==
  LET i == handle[h].inst
  IN  /\ At("idle") /\ Open(h) /\ ~handle[h].dma_busy
      /\ handle' = [handle EXCEPT ![h].inst = None]
      /\ enabled' = [enabled EXCEPT ![i] = FALSE]
      /\ stream' = [s \in Streams |-> IF spi_dma_initialized[i] /\ s \in {TxStream[i], RxStream[i]}
                                      THEN Released ELSE stream[s]]
      /\ spi_dma_initialized' = [spi_dma_initialized EXCEPT ![i] = FALSE]
      /\ UNCHANGED <<dr, call>>

\* spi_transfer_dma: the first transfer of an instance allocates its streams.
Transfer(h) ==
  /\ At("idle") /\ Open(h) /\ ~handle[h].dma_busy
  /\ \E n \in Lengths :
       call' = [at |-> IF spi_dma_initialized[handle[h].inst] THEN "enable" ELSE "initRx", h |-> h, n |-> n]
  /\ UNCHANGED <<stream, handle, spi_dma_initialized, enabled, dr>>

\* spi_dma_init_streams: RX first.
InitRx ==
  /\ At("initRx")
  /\ IF Allocated(RxStream[Inst])
     THEN call' = NoCall /\ UNCHANGED stream
     ELSE stream' = [stream EXCEPT ![RxStream[Inst]] = Configured(@, Inst, FALSE, TRUE)]
          /\ Goes("initTx")
  /\ UNCHANGED <<handle, spi_dma_initialized, enabled, dr>>

\* Mutant: the RX stream is kept when the TX stream is taken.
KeepsRx == UNCHANGED stream

GivesUpRx == stream' = [stream EXCEPT ![RxStream[Inst]] = Released]

InitTx ==
  /\ At("initTx")
  /\ IF Allocated(TxStream[Inst])
     THEN /\ GivesUpRx /\ call' = NoCall
          /\ UNCHANGED spi_dma_initialized
     ELSE /\ stream' = [stream EXCEPT ![TxStream[Inst]] = Configured(@, Inst, FALSE, FALSE)]
          /\ spi_dma_initialized' = [spi_dma_initialized EXCEPT ![Inst] = TRUE]
          /\ Goes("enable")
  /\ UNCHANGED <<handle, enabled, dr>>

Enable ==
  /\ At("enable") /\ Goes("startRx")
  /\ handle' = [handle EXCEPT ![call.h].dma_busy = TRUE]
  /\ enabled' = [enabled EXCEPT ![Inst] = TRUE]
  /\ UNCHANGED <<stream, spi_dma_initialized, dr>>

\* Mutant: TX begins to clock before RX is ready.
TxFirst(place) == IF place = "startRx" THEN TxStream[Inst] ELSE RxStream[Inst]

\* "RX first so it is ready before TX begins clocking."
StartedAt(place) == IF place = "startRx" THEN RxStream[Inst] ELSE TxStream[Inst]

\* Mutant: TX sends one item more than RX takes.
OneMore == IF At("startTx") /\ call.n < MaxCount THEN call.n + 1 ELSE call.n

Count == call.n

\* dma_stream_start_config of one stream and then the other.  Then the call
\* returns; spi_transfer_dma_blocking waits until dma_busy is cleared.
Start ==
  /\ \/ At("startRx") /\ Goes("startTx")
     \/ At("startTx") /\ (Goes("wait") \/ call' = NoCall)
  /\ stream' = [stream EXCEPT ![StartedAt(call.at)] = Started(@, Count)]
  /\ UNCHANGED <<handle, spi_dma_initialized, enabled, dr>>

\* One round of the wait for dma_busy.
Waits ==
  /\ At("wait")
  /\ IF handle[call.h].dma_busy THEN UNCHANGED call ELSE call' = NoCall
  /\ UNCHANGED <<stream, handle, spi_dma_initialized, enabled, dr>>

-----------------------------------------------------------------------------
(* The hardware, and the interrupt.                                        *)

\* The TX stream gives a byte and another one comes in.  A byte that is still
\* in the data register when the next one is complete is lost; the RX stream
\* takes it before that if it is running.
ShiftByte(i) ==
  /\ enabled[i] /\ stream[TxStream[i]].en /\ stream[TxStream[i]].owner = i
  /\ dr[i] = 1 => ~stream[RxStream[i]].en
  /\ stream' = [stream EXCEPT ![TxStream[i]] = Moved(@)]
  /\ dr' = [dr EXCEPT ![i] = 1]
  /\ UNCHANGED <<handle, spi_dma_initialized, enabled, call>>

TakeByte(i) ==
  /\ enabled[i] /\ stream[RxStream[i]].en /\ stream[RxStream[i]].owner = i
  /\ dr[i] = 1
  /\ stream' = [stream EXCEPT ![RxStream[i]] = Moved(@)]
  /\ dr' = [dr EXCEPT ![i] = 0]
  /\ UNCHANGED <<handle, spi_dma_initialized, enabled, call>>

DoneWith(h) == [handle EXCEPT ![h].dma_busy = FALSE]

\* spi_dma_rx_complete_cb.  Its context is the handle that was open when the
\* streams were allocated, and the only one of its instance that is open.
RxComplete(i) ==
  /\ InterruptDue(stream[RxStream[i]]) /\ stream[RxStream[i]].owner = i
  /\ stream' = [stream EXCEPT ![RxStream[i]] = Served(@)]
  /\ enabled' = [enabled EXCEPT ![i] = FALSE]
  /\ \E h \in Handles : handle[h].inst = i /\ handle' = DoneWith(h)
  /\ UNCHANGED <<spi_dma_initialized, dr, call>>

SpiCall ==
  \/ \E h \in Handles : spi_deinit(h) \/ Transfer(h) \/ \E i \in Instances : spi_init(h, i)
  \/ InitRx \/ InitTx \/ Enable \/ Start \/ Waits

SpiHardware == \E i \in Instances : ShiftByte(i) \/ TakeByte(i) \/ RxComplete(i)
=============================================================================
