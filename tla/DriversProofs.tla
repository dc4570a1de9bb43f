--------------------------- MODULE DriversProofs ---------------------------
(***************************************************************************)
(* Theorems about Drivers, for every set of SPI instances and streams, any *)
(* map from one to the other, and any length of transfers and ring.        *)
(*                                                                         *)
(* The inductive invariants: Shapes (types), Ownership (who has which      *)
(* stream), InStep (the two streams of a transfer), RingInv (the UART).    *)
(***************************************************************************)
EXTENDS Drivers, SequenceTheorems, TLAPS

-----------------------------------------------------------------------------
(* The inductive invariants.                                               *)

\* A stream that is enabled has items left, and a circular one reloads some.
Sound(st) ==
  /\ st \in StreamState
  /\ st.en => st.ndtr > 0 /\ (st.circular => st.count > 0)

CallPlaces == {"idle", "initRx", "initTx", "enable", "startRx", "startTx", "wait"}

Calls == [at : CallPlaces, h : Handles \cup {None}, n : 0 .. MaxLen]

SoundStreams == stream \in [Streams -> StreamState] /\ \A s \in Streams : Sound(stream[s])
SpiShape ==
  /\ handle \in [Handles -> [inst : Instances \cup {None}, dma_busy : BOOLEAN]]
  /\ spi_dma_initialized \in [Instances -> BOOLEAN] /\ enabled \in [Instances -> BOOLEAN]
  /\ dr \in [Instances -> {0, 1}]
  /\ call \in Calls
  /\ call.at # "idle" => call.h \in Handles /\ call.n \in Lengths /\ Inst \in Instances
UartShape ==
  /\ rx_dma_active \in BOOLEAN /\ lapped \in BOOLEAN
  /\ rx_dma_last_ndtr \in 0 .. BufSize /\ seen \in 0 .. BufSize
  /\ isr \in {"none", "read", "delivered"}
UartsStream ==
  /\ rx_dma_active => stream[UartStream].owner = Uart
  /\ stream[UartStream].owner = Uart =>
       stream[UartStream].count = BufSize /\ stream[UartStream].ndtr <= BufSize

Shapes == SoundStreams /\ SpiShape /\ UartShape /\ UartsStream

Allocating == call.at \in {"initRx", "initTx"}

\* While a first transfer allocates, its instance has at most the RX stream;
\* apart from that an instance has both of its streams and no other, or none.
Ownership ==
  /\ \A i \in Instances : spi_dma_initialized[i] => Has(i)
  /\ Allocating => ~spi_dma_initialized[Inst]
  /\ call.at = "initTx" => stream[RxStream[Inst]].owner = Inst
  /\ call.at \in {"enable", "startRx", "startTx"} => spi_dma_initialized[Inst]
  /\ \A s \in Streams, i \in Instances :
       stream[s].owner = i =>
         \/ spi_dma_initialized[i] /\ s \in {TxStream[i], RxStream[i]}
         \/ call.at = "initTx" /\ i = Inst /\ s = RxStream[i]

OneHandle == \A g, h \in Handles : handle[g].inst = handle[h].inst /\ handle[g].inst # None => g = h

Busy(i) == \E h \in Handles : handle[h].inst = i /\ handle[h].dma_busy

\* The call is for i, and has not started its streams yet.
Before(i) == call.at \in {"initRx", "initTx", "enable", "startRx"} /\ Inst = i
Between(i) == call.at = "startTx" /\ Inst = i

\* A transfer moves as many items in as out: what RX has to take is what TX has
\* to give and what is in the data register.
Balanced(i) ==
  LET tx == stream[TxStream[i]]
      rx == stream[RxStream[i]]
  IN  /\ ~tx.circular /\ ~rx.circular
      /\ rx.en \/ rx.tcif => Busy(i) /\ ~Before(i)
      /\ rx.en => ~rx.tcif
      /\ ~rx.en => dr[i] = 0 /\ ~tx.en
      /\ rx.en /\ Between(i) => dr[i] = 0 /\ ~tx.en /\ rx.ndtr = call.n
      /\ rx.en /\ ~Between(i) => rx.ndtr = tx.ndtr + dr[i] /\ (~tx.en => tx.ndtr = 0)

\* A first transfer that has taken the RX stream has not started it.
Fresh(i) ==
  /\ dr[i] = 0
  /\ stream[RxStream[i]].owner = i =>
       ~stream[RxStream[i]].circular /\ ~stream[RxStream[i]].en /\ ~stream[RxStream[i]].tcif

Good(i) == IF spi_dma_initialized[i] THEN Balanced(i) ELSE Fresh(i)

InStep ==
  /\ OneHandle
  /\ call.at = "startRx" => handle[call.h].dma_busy
  /\ call.at = "startTx" => stream[RxStream[Inst]].en
  /\ \A i \in Instances : Good(i)

-----------------------------------------------------------------------------
(* What the operators on a stream make of it.                              *)

LEMMA CountsAssumed ==
  /\ MaxCount \in Nat /\ MaxLen \in 1 .. MaxCount /\ BufSize \in 1 .. MaxCount
  /\ None \notin Clients /\ Instances \subseteq Clients /\ Uart \in Clients /\ Uart \notin Instances
  /\ UartStream \in Streams
  /\ \A i \in Instances : TxStream[i] \in Streams /\ RxStream[i] \in Streams /\ TxStream[i] # RxStream[i]
BY ClientsAssumption, MapAssumption, LengthAssumption, UartAssumption, SeparateAssumption

LEMMA IdleStream ==
  Sound(Idle) /\ Idle.owner = None /\ ~Idle.en /\ ~Idle.tcif
BY CountsAssumed DEF Sound, Idle, StreamState

LEMMA ConfiguredStream ==
  ASSUME NEW st, Sound(st), NEW c \in Clients, NEW circ \in BOOLEAN, NEW calls \in BOOLEAN
  PROVE  LET new == Configured(st, c, circ, calls)
         IN  /\ Sound(new) /\ new.owner = c /\ new.circular = circ
             /\ ~new.en /\ ~new.tcif
BY DEF Sound, Configured, StreamState

LEMMA StartedStream ==
  ASSUME NEW st, Sound(st), NEW n \in 1 .. MaxCount
  PROVE  LET new == Started(st, n)
         IN  /\ Sound(new) /\ new.owner = st.owner /\ new.circular = st.circular
             /\ new.en /\ ~new.tcif /\ new.ndtr = n
             /\ new.count = IF st.circular THEN n ELSE 0
<1> DEFINE loaded == IF st.circular THEN n ELSE 0
<1>1. /\ n \in 0 .. MaxCount /\ n > 0 /\ loaded \in 0 .. MaxCount /\ (st.circular => loaded > 0)
      /\ st.owner \in Clients \cup {None} /\ st.circular \in BOOLEAN /\ st.irq \in BOOLEAN
  BY CountsAssumed DEF Sound, StreamState
<1>2. st \in StreamState
  BY DEF Sound
<1>3. Started(st, n) = [st EXCEPT !.tcif = FALSE, !.count = loaded, !.ndtr = n, !.en = TRUE]
  BY DEF Started
<1> HIDE DEF loaded
<1>4. Started(st, n) \in StreamState
  BY <1>1, <1>2, <1>3 DEF StreamState
<1>5. /\ Started(st, n).owner = st.owner /\ Started(st, n).circular = st.circular
      /\ Started(st, n).en = TRUE /\ Started(st, n).tcif = FALSE
      /\ Started(st, n).ndtr = n /\ Started(st, n).count = loaded
  BY <1>2, <1>3 DEF StreamState
<1> QED
  BY <1>1, <1>4, <1>5 DEF Sound, loaded

LEMMA MovedStream ==
  ASSUME NEW st, Sound(st), st.en
  PROVE  LET new == Moved(st)
         IN  /\ Sound(new) /\ new.owner = st.owner /\ new.circular = st.circular
             /\ new.count = st.count
             /\ new.ndtr <= st.ndtr \/ new.ndtr <= st.count
             /\ ~st.circular => /\ new.ndtr = st.ndtr - 1
                                /\ new.en <=> new.ndtr > 0
                                /\ new.tcif <=> st.tcif \/ new.ndtr = 0
<1> DEFINE n == st.ndtr - 1
           on == n > 0 \/ (n = 0 /\ st.circular)
           left == IF n = 0 /\ st.circular THEN st.count ELSE n
           flag == st.tcif \/ n = 0
<1>1. /\ st.ndtr \in 1 .. MaxCount /\ st.count \in 0 .. MaxCount /\ (st.circular => st.count > 0)
      /\ st.owner \in Clients \cup {None} /\ st.circular \in BOOLEAN /\ st.irq \in BOOLEAN
  BY CountsAssumed DEF Sound, StreamState
<1>2. n \in 0 .. MaxCount /\ left \in 0 .. MaxCount /\ (on => left > 0) /\ on \in BOOLEAN /\ flag \in BOOLEAN
  BY <1>1, CountsAssumed
<1>3. /\ left <= st.ndtr \/ left <= st.count
      /\ ~st.circular => left = st.ndtr - 1 /\ (on <=> left > 0) /\ (flag <=> st.tcif \/ left = 0)
  BY <1>1
<1>4. st \in StreamState
  BY DEF Sound
<1>5. Moved(st) = [st EXCEPT !.ndtr = left, !.tcif = flag, !.en = on]
  BY DEF Moved
<1> HIDE DEF on, left, flag
<1>6. Moved(st) \in StreamState
  BY <1>1, <1>2, <1>4, <1>5 DEF StreamState
<1>7. /\ Moved(st).owner = st.owner /\ Moved(st).circular = st.circular /\ Moved(st).count = st.count
      /\ Moved(st).en = on /\ Moved(st).tcif = flag /\ Moved(st).ndtr = left
  BY <1>4, <1>5 DEF StreamState
<1> QED
  BY <1>1, <1>2, <1>3, <1>6, <1>7 DEF Sound

LEMMA ServedStream ==
  ASSUME NEW st, Sound(st)
  PROVE  LET new == Served(st)
         IN  /\ Sound(new) /\ ~new.tcif /\ new.owner = st.owner /\ new.circular = st.circular
             /\ new.en = st.en /\ new.count = st.count /\ new.ndtr = st.ndtr
BY DEF Sound, Served, StreamState

-----------------------------------------------------------------------------
(* Types.                                                                  *)

LEMMA ShapesInit == Init => Shapes
<1> SUFFICES ASSUME Init  PROVE Shapes
  OBVIOUS
<1>1. SoundStreams
  BY IdleStream DEF Init, StreamsInit, Sound, SoundStreams
<1>2. SpiShape
  BY CountsAssumed DEF Init, SpiInit, SpiShape, NoCall, CallPlaces, Calls
<1>3. UartShape
  <2>1. 0 \in 0 .. BufSize  BY CountsAssumed
  <2> QED  BY <2>1 DEF Init, UartInit, UartShape
<1>4. UartsStream
  BY CountsAssumed, IdleStream DEF Init, UartInit, StreamsInit, UartsStream
<1> QED
  BY <1>1, <1>2, <1>3, <1>4 DEF Shapes

LEMMA ShapesAreTypes == Shapes => DriversTypeOK
BY DEF Shapes, SoundStreams, SpiShape, UartShape, DriversTypeOK, CallPlaces, Calls

\* A step that changes one stream leaves all of them sound if it leaves this one so.
LEMMA OneStream ==
  ASSUME SoundStreams, NEW s \in Streams, NEW new, Sound(new), stream' = [stream EXCEPT ![s] = new]
  PROVE  /\ SoundStreams'
         /\ stream'[s] = new
         /\ \A t \in Streams \ {s} : stream'[t] = stream[t]
<1>1. new \in StreamState  BY DEF Sound
<1>2. stream' \in [Streams -> StreamState]  BY <1>1 DEF SoundStreams
<1>3. stream'[s] = new /\ \A t \in Streams \ {s} : stream'[t] = stream[t]  BY DEF SoundStreams
<1>4. \A t \in Streams : Sound(stream'[t])  BY <1>3 DEF SoundStreams
<1> QED  BY <1>2, <1>3, <1>4 DEF SoundStreams, Sound

\* The steps by party.
SpiSteps ==
  \/ \E h \in Handles : spi_deinit(h) \/ Transfer(h) \/ \E i \in Instances : spi_init(h, i)
  \/ InitRx \/ InitTx \/ Enable \/ Start \/ Waits
  \/ \E i \in Instances : ShiftByte(i) \/ TakeByte(i) \/ RxComplete(i)
UartSteps ==
  \/ call.at = "idle" /\ (uart_start_rx_dma \/ uart_stop_rx_dma)
  \/ TransferComplete \/ IdleReads \/ IdleDelivers \/ IdleEnds \/ ByteArrives \/ LineIdle

LEMMA StepsByParty ==
  [Next]_vars => \/ UNCHANGED vars
                 \/ SpiSteps /\ UNCHANGED uartVars
                 \/ UartSteps /\ UNCHANGED spiVars
BY DEF Next, SpiStep, UartStep, SpiCall, SpiHardware, UartCall, UartInterrupt, UartHardware, SpiSteps, UartSteps

LEMMA NoCallGoes == NoCall \in Calls /\ NoCall.at = "idle"
BY CountsAssumed DEF NoCall, Calls, CallPlaces

LEMMA CallGoes ==
  ASSUME SpiShape, NEW place \in CallPlaces, Goes(place)
  PROVE  call' \in Calls /\ call'.at = place /\ call'.h = call.h /\ call'.n = call.n
BY DEF SpiShape, Goes, Calls

\* A step that leaves handles and flags typed, and goes on with the call or ends it.
LEMMA CallEnds ==
  ASSUME SpiShape, call' = NoCall, UNCHANGED <<handle, enabled, dr>>,
         spi_dma_initialized' \in [Instances -> BOOLEAN]
  PROVE  SpiShape'
BY NoCallGoes DEF SpiShape, Calls

LEMMA CallGoesOn ==
  ASSUME SpiShape, call.at # "idle", NEW place \in CallPlaces, Goes(place), UNCHANGED <<handle, enabled, dr>>,
         spi_dma_initialized' \in [Instances -> BOOLEAN]
  PROVE  SpiShape'
BY CallGoes DEF SpiShape, Calls, Inst

LEMMA SpiShapeStep ==
  ASSUME Shapes, SpiSteps  PROVE SpiShape'
<1> USE DEF Shapes, SpiShape
<1>1. ASSUME NEW h \in Handles, NEW i \in Instances, spi_init(h, i)  PROVE SpiShape'
  BY <1>1 DEF spi_init, At, Open, Calls
<1>2. ASSUME NEW h \in Handles, spi_deinit(h)  PROVE SpiShape'
  BY <1>2 DEF spi_deinit, At, Open, Calls
<1>3. ASSUME NEW h \in Handles, Transfer(h)  PROVE SpiShape'
  <2>1. PICK n \in Lengths :
          call' = [at |-> IF spi_dma_initialized[handle[h].inst] THEN "enable" ELSE "initRx", h |-> h, n |-> n]
    BY <1>3 DEF Transfer
  <2>2. n \in 0 .. MaxLen  BY CountsAssumed DEF Lengths
  <2> QED  BY <1>3, <2>1, <2>2 DEF Transfer, Open, Inst, CallPlaces, Calls
<1>4. CASE InitRx
  <2>1. /\ call.at # "idle" /\ UNCHANGED <<handle, enabled, dr>>
        /\ spi_dma_initialized' \in [Instances -> BOOLEAN]
        /\ UNCHANGED call \/ call' = NoCall \/ \E place \in CallPlaces : Goes(place)
    BY <1>4 DEF InitRx, At, CallPlaces
  <2> QED  BY <2>1, CallEnds, CallGoesOn DEF Inst
<1>5. CASE InitTx
  <2>1. /\ call.at # "idle" /\ UNCHANGED <<handle, enabled, dr>>
        /\ spi_dma_initialized' \in [Instances -> BOOLEAN]
        /\ UNCHANGED call \/ call' = NoCall \/ \E place \in CallPlaces : Goes(place)
    BY <1>5 DEF InitTx, At, CallPlaces
  <2> QED  BY <2>1, CallEnds, CallGoesOn DEF Inst
<1>6. CASE Enable
  <2>1. /\ call.at = "enable" /\ Goes("startRx") /\ UNCHANGED <<spi_dma_initialized, dr>>
        /\ handle' = [handle EXCEPT ![call.h].dma_busy = TRUE]
        /\ enabled' \in [Instances -> BOOLEAN]
    BY <1>6 DEF Enable, At
  <2>2. /\ handle' \in [Handles -> [inst : Instances \cup {None}, dma_busy : BOOLEAN]]
        /\ handle'[call.h].inst = handle[call.h].inst
    BY <2>1
  <2>3. call' \in Calls /\ call'.h = call.h /\ call'.n = call.n
    BY <2>1, CallGoes DEF CallPlaces
  <2> QED  BY <2>1, <2>2, <2>3 DEF Inst
<1>7. CASE Start
  <2>1. /\ call.at # "idle" /\ UNCHANGED <<handle, enabled, dr>>
        /\ spi_dma_initialized' \in [Instances -> BOOLEAN]
        /\ UNCHANGED call \/ call' = NoCall \/ \E place \in CallPlaces : Goes(place)
    BY <1>7 DEF Start, At, CallPlaces
  <2> QED  BY <2>1, CallEnds, CallGoesOn DEF Inst
<1>8. CASE Waits
  <2>1. /\ call.at # "idle" /\ UNCHANGED <<handle, enabled, dr>>
        /\ spi_dma_initialized' \in [Instances -> BOOLEAN]
        /\ UNCHANGED call \/ call' = NoCall \/ \E place \in CallPlaces : Goes(place)
    BY <1>8 DEF Waits, At, CallPlaces
  <2> QED  BY <2>1, CallEnds, CallGoesOn DEF Inst
<1>9. ASSUME NEW i \in Instances, ShiftByte(i) \/ TakeByte(i)  PROVE SpiShape'
  BY <1>9 DEF ShiftByte, TakeByte, Inst
<1>10. ASSUME NEW i \in Instances, RxComplete(i)  PROVE SpiShape'
  BY <1>10 DEF RxComplete, DoneWith, Inst
<1> QED  BY <1>1, <1>2, <1>3, <1>4, <1>5, <1>6, <1>7, <1>8, <1>9, <1>10 DEF SpiSteps

LEMMA UartShapeStep ==
  ASSUME Shapes, UartSteps  PROVE UartShape'
<1> USE DEF Shapes, UartShape
<1>1. CASE uart_start_rx_dma
  <2>1. BufSize \in 0 .. BufSize  BY CountsAssumed
  <2> QED  BY <1>1, <2>1 DEF uart_start_rx_dma
<1>2. CASE uart_stop_rx_dma  BY <1>2 DEF uart_stop_rx_dma
<1>3. ASSUME rx_dma_active \/ stream[UartStream].owner = Uart  PROVE Ndtr \in 0 .. BufSize
  BY <1>3, CountsAssumed DEF UartsStream, SoundStreams, Ndtr, StreamState
<1>4. CASE TransferComplete
  <2>1. UNCHANGED <<rx_dma_active, seen, isr>> /\ lapped' \in BOOLEAN
    BY <1>4 DEF TransferComplete
  <2>2. rx_dma_last_ndtr' \in 0 .. BufSize
    BY <1>3, <1>4 DEF TransferComplete, LastAfterTc
  <2> QED  BY <2>1, <2>2
<1>5. CASE IdleReads
  BY <1>3, <1>5 DEF IdleReads, IdleBegins
<1>6. CASE IdleDelivers  BY <1>6 DEF IdleDelivers
<1>7. CASE IdleEnds
  <2>1. 0 \in 0 .. BufSize  BY CountsAssumed
  <2> QED  BY <1>7, <2>1 DEF IdleEnds
<1>8. CASE ByteArrives
  <2>1. UNCHANGED <<rx_dma_active, rx_dma_last_ndtr, seen, isr>> /\ lapped' \in BOOLEAN
    BY <1>8 DEF ByteArrives
  <2> QED  BY <2>1
<1>9. CASE LineIdle  BY <1>9 DEF LineIdle
<1> QED  BY <1>1, <1>2, <1>4, <1>5, <1>6, <1>7, <1>8, <1>9 DEF UartSteps

-----------------------------------------------------------------------------
(* Who has which stream.                                                   *)

LEMMA OwnershipInit == Init => Ownership
BY IdleStream, CountsAssumed DEF Init, StreamsInit, SpiInit, NoCall, Ownership, Allocating

\* Ownership is about the owners, the flags and the call.
OwnersSame == \A s \in Streams : stream'[s].owner = stream[s].owner

LEMMA OwnersKept ==
  ASSUME SpiShape, Ownership, OwnersSame, UNCHANGED spi_dma_initialized,
         \/ UNCHANGED call /\ Inst' = Inst
         \/ /\ ~Allocating /\ ~Allocating'
            /\ call'.at \in {"enable", "startRx", "startTx"} => spi_dma_initialized[Inst']
  PROVE  Ownership'
<1>1. \A i \in Instances : Has(i)' <=> Has(i)
  BY CountsAssumed DEF Has, OwnersSame
<1>2. CASE UNCHANGED call /\ Inst' = Inst
  <2>1. call.at = "initTx" => stream'[RxStream[Inst]].owner = Inst'
    BY <1>2, CountsAssumed DEF SpiShape, Ownership, OwnersSame
  <2> QED  BY <1>1, <1>2, <2>1 DEF Ownership, Allocating, OwnersSame
<1>3. CASE /\ ~Allocating /\ ~Allocating'
           /\ call'.at \in {"enable", "startRx", "startTx"} => spi_dma_initialized[Inst']
  BY <1>1, <1>3 DEF Ownership, Allocating, OwnersSame
<1> QED  BY <1>2, <1>3

\* The UART's stream is its own as long as others touch only what is not.
LEMMA UartsKept ==
  ASSUME UartsStream, UNCHANGED rx_dma_active,
         \/ stream'[UartStream] = stream[UartStream]
         \/ stream[UartStream].owner # Uart /\ stream'[UartStream].owner # Uart
  PROVE  UartsStream'
BY DEF UartsStream

StreamsInv == SoundStreams /\ UartsStream /\ Ownership

\* A step that changes one stream, which is not the UART's, and keeps its owner.
LEMMA SpiStreamKept ==
  ASSUME Shapes, Ownership, NEW s \in Streams, stream[s].owner # Uart,
         NEW new, Sound(new), new.owner = stream[s].owner,
         stream' = [stream EXCEPT ![s] = new], UNCHANGED uartVars, UNCHANGED spi_dma_initialized,
         \/ UNCHANGED call /\ Inst' = Inst
         \/ /\ ~Allocating /\ ~Allocating'
            /\ call'.at \in {"enable", "startRx", "startTx"} => spi_dma_initialized[Inst']
  PROVE  StreamsInv'
<1>1. /\ SoundStreams' /\ stream'[s] = new
      /\ \A t \in Streams \ {s} : stream'[t] = stream[t]
  BY OneStream DEF Shapes
<1>2. OwnersSame
  BY <1>1 DEF OwnersSame
<1>3. Ownership'
  BY <1>2, OwnersKept DEF Shapes
<1>4. UartsStream'
  BY <1>1, UartsKept, CountsAssumed DEF Shapes, uartVars
<1> QED  BY <1>1, <1>3, <1>4 DEF StreamsInv

\* A step that changes no stream.
LEMMA StreamsSame ==
  ASSUME Shapes, Ownership, UNCHANGED stream, UNCHANGED rx_dma_active, UNCHANGED spi_dma_initialized,
         \/ UNCHANGED call /\ Inst' = Inst
         \/ /\ ~Allocating /\ ~Allocating'
            /\ call'.at \in {"enable", "startRx", "startTx"} => spi_dma_initialized[Inst']
  PROVE  StreamsInv'
<1>1. SoundStreams' /\ UartsStream' /\ OwnersSame
  BY DEF Shapes, SoundStreams, UartsStream, OwnersSame
<1> QED  BY <1>1, OwnersKept DEF Shapes, StreamsInv

LEMMA InitSteps ==
  ASSUME Shapes, Ownership, UNCHANGED uartVars, InitRx \/ InitTx
  PROVE  StreamsInv'
<1> DEFINE rx == RxStream[Inst]
           tx == TxStream[Inst]
<1>1. /\ Inst \in Instances /\ Inst \in Clients /\ Inst # Uart /\ Inst # None
      /\ rx \in Streams /\ tx \in Streams /\ rx # tx /\ ~spi_dma_initialized[Inst]
      /\ handle' = handle /\ Allocating
  BY CountsAssumed DEF Shapes, SpiShape, Ownership, Allocating, InitRx, InitTx, At
<1>2. ASSUME NEW s \in Streams, ~Allocated(s) \/ stream[s].owner = Inst,
             NEW new, Sound(new), new.owner \in {None, Inst}, stream' = [stream EXCEPT ![s] = new]
      PROVE  /\ SoundStreams' /\ UartsStream' /\ stream'[s] = new
             /\ \A t \in Streams \ {s} : stream'[t] = stream[t]
  <2>1. /\ SoundStreams' /\ stream'[s] = new
        /\ \A t \in Streams \ {s} : stream'[t] = stream[t]
    BY <1>2, OneStream DEF Shapes
  <2>2. UartsStream'
    BY <1>1, <1>2, <2>1, UartsKept, CountsAssumed DEF Shapes, uartVars, Allocated
  <2> QED  BY <2>1, <2>2
<1>3. \A i \in Instances : spi_dma_initialized[i] => Has(i)
  BY DEF Ownership
<1>4. CASE InitRx /\ Allocated(rx)
  <2>1. UNCHANGED <<stream, spi_dma_initialized>> /\ call' = NoCall
    BY <1>4 DEF InitRx
  <2>2. SoundStreams' /\ UartsStream'
    BY <2>1 DEF Shapes, SoundStreams, UartsStream, uartVars
  <2>3. Ownership'
    BY <1>4, <2>1 DEF Ownership, Allocating, Has, NoCall, InitRx, At
  <2> QED  BY <2>2, <2>3 DEF StreamsInv
<1>5. CASE InitRx /\ ~Allocated(rx)
  <2> DEFINE new == Configured(stream[rx], Inst, FALSE, TRUE)
  <2>1. /\ stream' = [stream EXCEPT ![rx] = new] /\ call' = [call EXCEPT !.at = "initTx"]
        /\ UNCHANGED spi_dma_initialized /\ call.at = "initRx"
    BY <1>1, <1>5 DEF InitRx, At, Goes, Shapes, SoundStreams
  <2>2. Sound(new) /\ new.owner = Inst
    BY <1>1, ConfiguredStream DEF Shapes, SoundStreams
  <2> HIDE DEF new
  <2>3. /\ SoundStreams' /\ UartsStream' /\ stream'[rx] = new
        /\ \A t \in Streams \ {rx} : stream'[t] = stream[t]
    BY <1>1, <1>2, <1>5, <2>1, <2>2
  <2>4. call'.at = "initTx" /\ Inst' = Inst
    BY <1>1, <2>1 DEF Shapes, SpiShape, Calls, Inst
  <2>5. \A i \in Instances : spi_dma_initialized[i] => Has(i)'
    BY <1>1, <1>3, <1>5, <2>3, CountsAssumed DEF Has, Allocated
  <2>6. \A s \in Streams, i \in Instances :
          stream'[s].owner = i =>
            \/ spi_dma_initialized[i] /\ s \in {TxStream[i], RxStream[i]}
            \/ i = Inst /\ s = RxStream[i]
    BY <1>1, <2>1, <2>2, <2>3 DEF Ownership
  <2>7. Ownership'
    BY <1>1, <2>1, <2>2, <2>3, <2>4, <2>5, <2>6 DEF Ownership, Allocating
  <2> QED  BY <2>3, <2>7 DEF StreamsInv
<1>6. CASE InitTx /\ Allocated(tx)
  <2>1. /\ stream' = [stream EXCEPT ![rx] = Idle] /\ call' = NoCall
        /\ UNCHANGED spi_dma_initialized /\ call.at = "initTx" /\ stream[rx].owner = Inst
    BY <1>1, <1>6 DEF InitTx, At, GivesUpRx, Released, Ownership
  <2>2. /\ SoundStreams' /\ UartsStream' /\ stream'[rx] = Idle
        /\ \A t \in Streams \ {rx} : stream'[t] = stream[t]
    BY <1>1, <1>2, <2>1, IdleStream
  <2>3. \A i \in Instances : spi_dma_initialized[i] => Has(i)'
    BY <1>1, <1>3, <2>1, <2>2, CountsAssumed DEF Has
  <2>4. \A s \in Streams, i \in Instances :
          stream'[s].owner = i => spi_dma_initialized[i] /\ s \in {TxStream[i], RxStream[i]}
    BY <2>1, <2>2, IdleStream, CountsAssumed DEF Ownership
  <2>5. Ownership'
    BY <2>1, <2>3, <2>4, NoCallGoes DEF Ownership, Allocating
  <2> QED  BY <2>2, <2>5 DEF StreamsInv
<1>7. CASE InitTx /\ ~Allocated(tx)
  <2> DEFINE new == Configured(stream[tx], Inst, FALSE, FALSE)
  <2>1. /\ stream' = [stream EXCEPT ![tx] = new] /\ call' = [call EXCEPT !.at = "enable"]
        /\ spi_dma_initialized' = [spi_dma_initialized EXCEPT ![Inst] = TRUE]
        /\ call.at = "initTx" /\ stream[rx].owner = Inst
    BY <1>1, <1>7 DEF InitTx, At, Goes, Ownership, Shapes, SoundStreams
  <2>2. Sound(new) /\ new.owner = Inst
    BY <1>1, ConfiguredStream DEF Shapes, SoundStreams
  <2> HIDE DEF new
  <2>3. /\ SoundStreams' /\ UartsStream' /\ stream'[tx] = new
        /\ \A t \in Streams \ {tx} : stream'[t] = stream[t]
    BY <1>1, <1>2, <1>7, <2>1, <2>2
  <2>4. call'.at = "enable" /\ Inst' = Inst
    BY <1>1, <2>1 DEF Shapes, SpiShape, Calls, Inst
  <2>5. /\ spi_dma_initialized'[Inst]
        /\ \A i \in Instances \ {Inst} : spi_dma_initialized'[i] = spi_dma_initialized[i]
    BY <1>1, <2>1 DEF Shapes, SpiShape
  <2>6. \A i \in Instances : spi_dma_initialized'[i] => Has(i)'
    BY <1>1, <1>3, <1>7, <2>1, <2>2, <2>3, <2>5, CountsAssumed DEF Has, Allocated
  <2>7. \A s \in Streams, i \in Instances :
          stream'[s].owner = i => spi_dma_initialized'[i] /\ s \in {TxStream[i], RxStream[i]}
    BY <1>1, <2>1, <2>2, <2>3, <2>5 DEF Ownership
  <2>8. Ownership'
    BY <2>4, <2>5, <2>6, <2>7 DEF Ownership, Allocating
  <2> QED  BY <2>3, <2>8 DEF StreamsInv
<1> QED  BY <1>4, <1>5, <1>6, <1>7

LEMMA DeinitStep ==
  ASSUME Shapes, Ownership, UNCHANGED uartVars, NEW h \in Handles, spi_deinit(h)
  PROVE  StreamsInv'
<1> DEFINE i == handle[h].inst
           gone(s) == spi_dma_initialized[i] /\ s \in {TxStream[i], RxStream[i]}
<1>1. /\ i \in Instances /\ call.at = "idle" /\ call' = call
      /\ stream' = [s \in Streams |-> IF gone(s) THEN Idle ELSE stream[s]]
      /\ spi_dma_initialized' = [spi_dma_initialized EXCEPT ![i] = FALSE]
  BY DEF spi_deinit, Open, At, Released, Shapes, SpiShape
<1>2. ~spi_dma_initialized'[i] /\ \A j \in Instances \ {i} : spi_dma_initialized'[j] = spi_dma_initialized[j]
  BY <1>1 DEF Shapes, SpiShape
<1>3. \A s \in Streams : gone(s) => stream[s].owner = i
  BY <1>1 DEF Ownership, Has
<1>4. \A s \in Streams : (gone(s) /\ stream'[s] = Idle) \/ (~gone(s) /\ stream'[s] = stream[s])
  BY <1>1
<1> HIDE DEF gone, i
<1>5. SoundStreams'
  <2>1. \A s \in Streams : Sound(stream'[s])
    BY <1>4, IdleStream DEF Shapes, SoundStreams
  <2>2. stream' \in [Streams -> StreamState]
    BY <1>1, IdleStream DEF Shapes, SoundStreams, Sound
  <2> QED  BY <2>1, <2>2 DEF SoundStreams
<1>6. UartsStream'
  BY <1>1, <1>3, <1>4, IdleStream, UartsKept, CountsAssumed DEF Shapes, uartVars
<1>7. \A j \in Instances : spi_dma_initialized'[j] => Has(j)'
  BY <1>1, <1>2, <1>3, <1>4, CountsAssumed DEF Has, Ownership
<1>8. \A s \in Streams, j \in Instances :
        stream'[s].owner = j => spi_dma_initialized'[j] /\ s \in {TxStream[j], RxStream[j]}
  <2>1. ASSUME NEW s \in Streams, NEW j \in Instances, stream'[s].owner = j
        PROVE  ~gone(s) /\ stream[s].owner = j
    BY <1>4, <2>1, IdleStream, CountsAssumed
  <2> QED  BY <1>1, <1>2, <2>1 DEF Ownership, gone
<1> QED  BY <1>1, <1>5, <1>6, <1>7, <1>8 DEF StreamsInv, Ownership, Allocating

LEMMA SpiStreamsStep ==
  ASSUME Shapes, Ownership, UNCHANGED uartVars, SpiSteps
  PROVE  StreamsInv'
<1> USE DEF Shapes
<1>1. UNCHANGED rx_dma_active
  BY DEF uartVars
<1>2. ASSUME NEW h \in Handles, NEW i \in Instances, spi_init(h, i)  PROVE StreamsInv'
  <2>1. /\ UNCHANGED <<stream, spi_dma_initialized>> /\ call.at = "idle" /\ call' = call
    BY <1>2 DEF spi_init, At
  <2> QED  BY <1>1, <2>1, StreamsSame DEF Allocating
<1>3. ASSUME NEW h \in Handles, Transfer(h)  PROVE StreamsInv'
  <2>1. /\ UNCHANGED <<stream, spi_dma_initialized, handle>> /\ call.at = "idle"
        /\ call'.at = IF spi_dma_initialized[handle[h].inst] THEN "enable" ELSE "initRx"
        /\ call'.h = h
    BY <1>3 DEF Transfer, At
  <2>2. Inst' = handle[h].inst
    BY <2>1 DEF Inst
  <2>3. CASE spi_dma_initialized[handle[h].inst]
    BY <1>1, <2>1, <2>2, <2>3, StreamsSame DEF Allocating
  <2>4. CASE ~spi_dma_initialized[handle[h].inst]
    <3>1. SoundStreams' /\ UartsStream'
      BY <1>1, <2>1 DEF SoundStreams, UartsStream
    <3>2. Ownership'
      BY <2>1, <2>2, <2>4 DEF Ownership, Allocating, Has
    <3> QED  BY <3>1, <3>2 DEF StreamsInv
  <2> QED  BY <2>3, <2>4
<1>4. CASE Enable
  <2>1. /\ UNCHANGED <<stream, spi_dma_initialized>> /\ call.at = "enable"
        /\ call' = [call EXCEPT !.at = "startRx"]
        /\ handle' = [handle EXCEPT ![call.h].dma_busy = TRUE]
    BY <1>4 DEF Enable, At, Goes
  <2>2. call'.at = "startRx" /\ Inst' = Inst
    BY <2>1 DEF SpiShape, Calls, Inst
  <2>3. spi_dma_initialized[Inst]
    BY <2>1 DEF Ownership
  <2> QED  BY <1>1, <2>1, <2>2, <2>3, StreamsSame DEF Allocating
<1>5. CASE Start
  <2> DEFINE s == StartedAt(call.at)
  <2>1. /\ call.at \in {"startRx", "startTx"} /\ UNCHANGED <<handle, spi_dma_initialized>>
        /\ stream' = [stream EXCEPT ![s] = Started(@, Count)]
        /\ call' = [call EXCEPT !.at = "startTx"] \/ call' = [call EXCEPT !.at = "wait"] \/ call' = NoCall
    BY <1>5 DEF Start, At, Goes
  <2>2. s \in Streams /\ stream[s].owner = Inst /\ Inst \in Instances /\ spi_dma_initialized[Inst]
    BY <2>1, CountsAssumed DEF SpiShape, Ownership, Has, StartedAt
  <2>3. Count \in 1 .. MaxCount
    BY <2>1, CountsAssumed DEF SpiShape, Count, Lengths
  <2>4. Sound(Started(stream[s], Count)) /\ Started(stream[s], Count).owner = stream[s].owner
    BY <2>2, <2>3, StartedStream DEF SoundStreams
  <2>5. stream' = [stream EXCEPT ![s] = Started(stream[s], Count)]
    BY <2>1, <2>2 DEF SoundStreams
  <2>6. call'.at \in {"startTx", "wait", "idle"} /\ (call'.at # "idle" => Inst' = Inst)
    BY <2>1, NoCallGoes DEF SpiShape, Calls, Inst
  <2> HIDE DEF s
  <2> QED  BY <2>1, <2>2, <2>4, <2>5, <2>6, SpiStreamKept, CountsAssumed DEF Allocating
<1>6. CASE Waits
  <2>1. /\ UNCHANGED <<stream, spi_dma_initialized, handle>> /\ call.at = "wait"
        /\ call' = call \/ call' = NoCall
    BY <1>6 DEF Waits, At
  <2> QED  BY <1>1, <2>1, NoCallGoes, StreamsSame DEF Allocating
<1>7. ASSUME NEW i \in Instances, ShiftByte(i) \/ TakeByte(i)  PROVE StreamsInv'
  <2>1. PICK s \in {TxStream[i], RxStream[i]} :
          /\ stream[s].en /\ stream[s].owner = i
          /\ stream' = [stream EXCEPT ![s] = Moved(@)]
    BY <1>7 DEF ShiftByte, TakeByte
  <2>2. UNCHANGED <<spi_dma_initialized, call, handle>>
    BY <1>7 DEF ShiftByte, TakeByte
  <2>3. s \in Streams /\ i # Uart
    BY CountsAssumed
  <2>4. Sound(Moved(stream[s])) /\ Moved(stream[s]).owner = stream[s].owner
    BY <2>1, <2>3, MovedStream DEF SoundStreams
  <2>5. stream' = [stream EXCEPT ![s] = Moved(stream[s])]
    BY <2>1, <2>3 DEF SoundStreams
  <2> QED  BY <2>1, <2>2, <2>3, <2>4, <2>5, SpiStreamKept DEF Inst
<1>8. ASSUME NEW i \in Instances, RxComplete(i)  PROVE StreamsInv'
  <2> DEFINE s == RxStream[i]
  <2>1. /\ stream[s].owner = i /\ UNCHANGED <<spi_dma_initialized, call>>
        /\ stream' = [stream EXCEPT ![s] = Served(@)]
    BY <1>8 DEF RxComplete
  <2>2. PICK h \in Handles : handle' = [handle EXCEPT ![h].dma_busy = FALSE]
    BY <1>8 DEF RxComplete, DoneWith
  <2>3. Inst' = Inst
    BY <2>1, <2>2 DEF SpiShape, Inst
  <2>4. s \in Streams /\ i # Uart
    BY CountsAssumed
  <2>5. Sound(Served(stream[s])) /\ Served(stream[s]).owner = stream[s].owner
    BY <2>4, ServedStream DEF SoundStreams
  <2>6. stream' = [stream EXCEPT ![s] = Served(stream[s])]
    BY <2>1, <2>4 DEF SoundStreams
  <2> HIDE DEF s
  <2> QED  BY <2>1, <2>3, <2>4, <2>5, <2>6, SpiStreamKept
<1> QED  BY <1>2, <1>3, <1>4, <1>5, <1>6, <1>7, <1>8, InitSteps, DeinitStep DEF SpiSteps

LEMMA UartStreamsStep ==
  ASSUME Shapes, Ownership, UNCHANGED spiVars, UartSteps
  PROVE  StreamsInv'
<1> USE DEF Shapes
<1>0. /\ UNCHANGED <<handle, spi_dma_initialized, call>> /\ Inst' = Inst
      /\ UartStream \in Streams /\ Uart \in Clients /\ Uart \notin Instances /\ Uart # None
  BY CountsAssumed DEF spiVars, Inst
<1>1. CASE call.at = "idle" /\ uart_start_rx_dma
  <2> DEFINE set == Configured(stream[UartStream], Uart, TRUE, TRUE)
             new == Started(set, BufSize)
  <2>1. ~Allocated(UartStream) /\ stream' = [stream EXCEPT ![UartStream] = new]
    BY <1>0, <1>1 DEF uart_start_rx_dma, SoundStreams
  <2>2. Sound(set) /\ set.owner = Uart /\ set.circular = TRUE
    BY <1>0, ConfiguredStream DEF SoundStreams
  <2> HIDE DEF set
  <2>3. Sound(new) /\ new.owner = Uart /\ new.count = BufSize /\ new.ndtr = BufSize
    BY <2>2, StartedStream, CountsAssumed
  <2> HIDE DEF new
  <2>4. /\ SoundStreams' /\ stream'[UartStream] = new
        /\ \A t \in Streams \ {UartStream} : stream'[t] = stream[t]
    BY <1>0, <2>1, <2>3, OneStream
  <2>5. UartsStream'
    BY <2>3, <2>4, CountsAssumed DEF UartsStream
  <2>6. \A i \in Instances : spi_dma_initialized[i] => Has(i)'
    BY <1>0, <2>1, <2>4, CountsAssumed DEF Ownership, Has, Allocated
  <2>7. \A s \in Streams, i \in Instances : stream'[s].owner = i => stream[s].owner = i
    BY <1>0, <2>3, <2>4
  <2>8. Ownership'
    BY <1>0, <1>1, <2>6, <2>7 DEF Ownership, Allocating
  <2> QED  BY <2>4, <2>5, <2>8 DEF StreamsInv
<1>2. CASE call.at = "idle" /\ uart_stop_rx_dma
  <2>1. /\ stream[UartStream].owner = Uart /\ ~rx_dma_active'
        /\ stream' = [stream EXCEPT ![UartStream] = Idle]
    BY <1>2 DEF uart_stop_rx_dma, Released, UartsStream
  <2>2. /\ SoundStreams' /\ stream'[UartStream] = Idle
        /\ \A t \in Streams \ {UartStream} : stream'[t] = stream[t]
    BY <1>0, <2>1, IdleStream, OneStream
  <2>3. UartsStream'
    BY <1>0, <2>1, <2>2, IdleStream DEF UartsStream
  <2>4. \A i \in Instances : spi_dma_initialized[i] => Has(i)'
    BY <1>0, <2>1, <2>2, CountsAssumed DEF Ownership, Has
  <2>5. \A s \in Streams, i \in Instances : stream'[s].owner = i => stream[s].owner = i
    BY <2>2, IdleStream, CountsAssumed
  <2>6. Ownership'
    BY <1>0, <1>2, <2>4, <2>5 DEF Ownership, Allocating
  <2> QED  BY <2>2, <2>3, <2>6 DEF StreamsInv
<1>3. CASE TransferComplete \/ ByteArrives
  <2>1. PICK new :
          /\ Sound(new) /\ new.owner = stream[UartStream].owner /\ new.count = stream[UartStream].count
          /\ new.ndtr <= stream[UartStream].ndtr \/ new.ndtr <= stream[UartStream].count
          /\ stream' = [stream EXCEPT ![UartStream] = new]
    <3>1. CASE TransferComplete
      <4>1. stream' = [stream EXCEPT ![UartStream] = Served(stream[UartStream])]
        BY <1>0, <3>1 DEF TransferComplete, SoundStreams
      <4>2. Sound(stream[UartStream]) /\ stream[UartStream].ndtr \in Nat
        BY <1>0, CountsAssumed DEF SoundStreams, StreamState
      <4>3. /\ Sound(Served(stream[UartStream]))
            /\ Served(stream[UartStream]).owner = stream[UartStream].owner
            /\ Served(stream[UartStream]).count = stream[UartStream].count
            /\ Served(stream[UartStream]).ndtr <= stream[UartStream].ndtr
        BY <4>2, ServedStream
      <4> QED  BY <4>1, <4>3
    <3>2. CASE ByteArrives
      <4>1. stream[UartStream].en /\ stream' = [stream EXCEPT ![UartStream] = Moved(stream[UartStream])]
        BY <1>0, <3>2 DEF ByteArrives, SoundStreams
      <4> QED  BY <1>0, <4>1, MovedStream DEF SoundStreams
    <3> QED  BY <1>3, <3>1, <3>2
  <2>2. UNCHANGED rx_dma_active
    BY <1>3 DEF TransferComplete, ByteArrives
  <2>3. /\ SoundStreams' /\ stream'[UartStream] = new
        /\ \A t \in Streams \ {UartStream} : stream'[t] = stream[t]
    BY <1>0, <2>1, OneStream
  <2>4. UartsStream'
    <3>1. new.ndtr \in Nat /\ stream[UartStream].ndtr \in Nat /\ stream[UartStream].count \in Nat
      BY <1>0, <2>1, CountsAssumed DEF Sound, SoundStreams, StreamState
    <3> QED  BY <2>1, <2>2, <2>3, <3>1, CountsAssumed DEF UartsStream
  <2>5. OwnersSame
    BY <2>1, <2>3 DEF OwnersSame
  <2> QED  BY <1>0, <2>3, <2>4, <2>5, OwnersKept DEF StreamsInv
<1>4. CASE IdleReads \/ IdleDelivers \/ IdleEnds \/ LineIdle
  <2>1. UNCHANGED <<stream, rx_dma_active>>
    BY <1>4 DEF IdleReads, IdleDelivers, IdleEnds, LineIdle
  <2> QED  BY <1>0, <2>1, StreamsSame
<1> QED  BY <1>1, <1>2, <1>3, <1>4 DEF UartSteps

LEMMA OwnershipStep == Shapes /\ Ownership /\ [Next]_vars => (Shapes /\ Ownership)'
<1> SUFFICES ASSUME Shapes, Ownership, [Next]_vars  PROVE (Shapes /\ Ownership)'
  OBVIOUS
<1>1. CASE UNCHANGED vars
  <2>1. UNCHANGED <<stream, rx_dma_active, lapped, rx_dma_last_ndtr, seen, isr,
                    handle, spi_dma_initialized, enabled, dr, call>> /\ Inst' = Inst
    BY <1>1 DEF vars, uartVars, spiVars, Inst
  <2>2. StreamsInv'
    BY <2>1, StreamsSame
  <2>3. SpiShape' /\ UartShape'
    BY <2>1 DEF Shapes, SpiShape, UartShape
  <2> QED  BY <2>2, <2>3 DEF StreamsInv, Shapes
<1>2. CASE SpiSteps /\ UNCHANGED uartVars
  <2>1. UartShape'
    BY <1>2 DEF Shapes, UartShape, uartVars
  <2> QED  BY <1>2, <2>1, SpiShapeStep, SpiStreamsStep DEF StreamsInv, Shapes
<1>3. CASE UartSteps /\ UNCHANGED spiVars
  <2>1. SpiShape'
    BY <1>3 DEF Shapes, SpiShape, spiVars, Inst
  <2> QED  BY <1>3, <2>1, UartShapeStep, UartStreamsStep DEF StreamsInv, Shapes
<1> QED  BY <1>1, <1>2, <1>3, StepsByParty

\* Types of both drivers and of every stream, for any lengths (DriversTypeOK).
THEOREM DriversTypes == Spec => []DriversTypeOK
<1>1. Init => Shapes /\ Ownership
  BY ShapesInit, OwnershipInit
<1> QED  BY <1>1, OwnershipStep, ShapesAreTypes, PTL DEF Spec

LEMMA OwnershipIsPairs == Shapes /\ Ownership => StreamsInPairs
BY CountsAssumed DEF Ownership, StreamsInPairs, Has

\* Whatever instances share streams, and in whatever order they are used,
\* between calls each has both of its streams or neither (StreamsInPairs).
THEOREM StreamsStayInPairs == Spec => []StreamsInPairs
<1>1. Init => Shapes /\ Ownership
  BY ShapesInit, OwnershipInit
<1> QED  BY <1>1, OwnershipStep, OwnershipIsPairs, PTL DEF Spec

-----------------------------------------------------------------------------
(* The two streams of a transfer are in step.                              *)

LEMMA InStepInit == Init => InStep
<1> SUFFICES ASSUME Init  PROVE InStep
  OBVIOUS
<1>1. OneHandle /\ call.at = "idle"
  BY DEF Init, SpiInit, OneHandle, NoCall
<1>2. ASSUME NEW i \in Instances  PROVE Good(i)
  BY CountsAssumed, IdleStream DEF Init, SpiInit, StreamsInit, Good, Fresh
<1> QED  BY <1>1, <1>2 DEF InStep

\* A step keeps an instance in step if it touches none of its streams, and only
\* makes it busier; a call for it begins while it is not busy.
LEMMA GoodKept ==
  ASSUME Ownership, NEW j \in Instances, Good(j),
         dr'[j] = dr[j], spi_dma_initialized'[j] = spi_dma_initialized[j],
         \A t \in Streams : stream'[t] = stream[t] \/ (stream[t].owner # j /\ stream'[t].owner # j),
         Busy(j) => Busy(j)',
         Before(j)' => Before(j) \/ ~Busy(j),
         Between(j)' <=> Between(j),
         Between(j)' => call'.n = call.n
  PROVE  Good(j)'
<1> DEFINE tx == TxStream[j]
           rx == RxStream[j]
<1>1. tx \in Streams /\ rx \in Streams
  BY CountsAssumed
<1>2. CASE spi_dma_initialized[j]
  <2>1. stream[tx].owner = j /\ stream[rx].owner = j
    BY <1>2 DEF Ownership, Has
  <2>2. stream'[tx] = stream[tx] /\ stream'[rx] = stream[rx]
    BY <1>1, <2>1
  <2>3. Balanced(j)
    BY <1>2 DEF Good
  <2>4. Balanced(j)'
    BY <2>2, <2>3 DEF Balanced
  <2> QED  BY <1>2, <2>4 DEF Good
<1>3. CASE ~spi_dma_initialized[j]
  <2>1. stream'[rx] = stream[rx] \/ stream'[rx].owner # j
    BY <1>1
  <2>2. Fresh(j)'
    BY <1>3, <2>1 DEF Good, Fresh
  <2> QED  BY <1>3, <2>2 DEF Good
<1> QED  BY <1>2, <1>3

\* The streams that are not an instance's before a step or after it.
NotIts(j) == \A t \in Streams : stream'[t] = stream[t] \/ (stream[t].owner # j /\ stream'[t].owner # j)

\* A step that changes one stream and gives it to nobody new.
LEMMA OneStreamNotIts ==
  ASSUME SoundStreams, NEW s \in Streams, NEW new, Sound(new), stream' = [stream EXCEPT ![s] = new],
         NEW j, stream[s].owner # j, new.owner # j
  PROVE  NotIts(j)
BY OneStream DEF NotIts

LEMMA UartInStep ==
  ASSUME Shapes, Ownership, InStep, UNCHANGED spiVars, UartSteps
  PROVE  InStep'
<1> USE DEF Shapes
<1>0. /\ UNCHANGED <<handle, spi_dma_initialized, call, dr>> /\ Inst' = Inst
      /\ UartStream \in Streams /\ Uart \in Clients /\ Uart \notin Instances /\ Uart # None
  BY CountsAssumed DEF spiVars, Inst
<1>1. ASSUME NEW j \in Instances  PROVE NotIts(j)
  <2>1. CASE call.at = "idle" /\ uart_start_rx_dma
    <3> DEFINE set == Configured(stream[UartStream], Uart, TRUE, TRUE)
               new == Started(set, BufSize)
    <3>1. stream' = [stream EXCEPT ![UartStream] = new] /\ stream[UartStream].owner = None
      BY <1>0, <2>1 DEF uart_start_rx_dma, SoundStreams, Allocated
    <3>2. Sound(set) /\ set.owner = Uart
      BY <1>0, ConfiguredStream DEF SoundStreams
    <3> HIDE DEF set
    <3>3. Sound(new) /\ new.owner = Uart
      BY <3>2, StartedStream, CountsAssumed
    <3> HIDE DEF new
    <3> QED  BY <1>0, <3>1, <3>3, OneStreamNotIts, CountsAssumed
  <2>2. CASE call.at = "idle" /\ uart_stop_rx_dma
    <3>1. stream' = [stream EXCEPT ![UartStream] = Idle] /\ stream[UartStream].owner = Uart
      BY <2>2 DEF uart_stop_rx_dma, Released, UartsStream
    <3> QED  BY <1>0, <3>1, OneStreamNotIts, IdleStream, CountsAssumed
  <2>3. CASE TransferComplete
    <3>1. stream' = [stream EXCEPT ![UartStream] = Served(stream[UartStream])] /\ stream[UartStream].owner = Uart
      BY <1>0, <2>3 DEF TransferComplete, SoundStreams
    <3>2. Sound(Served(stream[UartStream])) /\ Served(stream[UartStream]).owner = Uart
      BY <1>0, <3>1, ServedStream DEF SoundStreams
    <3> QED  BY <1>0, <3>1, <3>2, OneStreamNotIts
  <2>4. CASE ByteArrives
    <3>1. /\ stream' = [stream EXCEPT ![UartStream] = Moved(stream[UartStream])]
          /\ stream[UartStream].owner = Uart /\ stream[UartStream].en
      BY <1>0, <2>4 DEF ByteArrives, SoundStreams, UartsStream
    <3>2. Sound(Moved(stream[UartStream])) /\ Moved(stream[UartStream]).owner = Uart
      BY <1>0, <3>1, MovedStream DEF SoundStreams
    <3> QED  BY <1>0, <3>1, <3>2, OneStreamNotIts
  <2>5. CASE IdleReads \/ IdleDelivers \/ IdleEnds \/ LineIdle
    <3>1. UNCHANGED stream
      BY <2>5 DEF IdleReads, IdleDelivers, IdleEnds, LineIdle
    <3> QED  BY <3>1 DEF NotIts
  <2> QED  BY <2>1, <2>2, <2>3, <2>4, <2>5 DEF UartSteps
<1>2. ASSUME NEW j \in Instances  PROVE Good(j)'
  <2>1. Good(j)  BY DEF InStep
  <2>2. /\ Busy(j)' <=> Busy(j)
        /\ Before(j)' <=> Before(j)
        /\ Between(j)' <=> Between(j)
    BY <1>0 DEF Busy, Before, Between
  <2> QED  BY <1>0, <1>1, <2>1, <2>2, GoodKept DEF NotIts
<1>3. call.at = "startTx" => stream'[RxStream[Inst]].en
  <2>1. SUFFICES ASSUME call.at = "startTx"  PROVE stream'[RxStream[Inst]].en
    OBVIOUS
  <2>2. Inst \in Instances /\ stream[RxStream[Inst]].owner = Inst /\ RxStream[Inst] \in Streams
    BY <2>1, CountsAssumed DEF SpiShape, Ownership, Has
  <2> QED  BY <1>1, <2>1, <2>2 DEF NotIts, InStep
<1> QED  BY <1>0, <1>2, <1>3 DEF InStep, OneHandle

\* A step that changes neither the call nor a handle leaves the places.
LEMMA CallSame ==
  ASSUME UNCHANGED <<call, handle>>, NEW j \in Instances
  PROVE  /\ Inst' = Inst /\ Busy(j)' = Busy(j) /\ Before(j)' = Before(j) /\ Between(j)' = Between(j)
BY DEF Inst, Busy, Before, Between

LEMMA OpenInStep ==
  ASSUME Shapes, Ownership, InStep, NEW h \in Handles, NEW i \in Instances, spi_init(h, i)
  PROVE  InStep'
<1>1. /\ call' = call /\ call.at = "idle" /\ UNCHANGED <<stream, spi_dma_initialized, dr>>
      /\ handle' = [handle EXCEPT ![h].inst = i]
      /\ handle[h].inst = None /\ \A other \in Handles : handle[other].inst # i
  BY DEF spi_init, At, Open
<1>2. /\ handle'[h].inst = i
      /\ \A g \in Handles : handle'[g].dma_busy = handle[g].dma_busy
      /\ \A g \in Handles \ {h} : handle'[g] = handle[g]
  BY <1>1 DEF Shapes, SpiShape
<1>3. OneHandle'
  BY <1>1, <1>2 DEF InStep, OneHandle
<1>4. ASSUME NEW j \in Instances  PROVE Good(j)'
  <2>1. Busy(j) => Busy(j)'
    BY <1>1, <1>2, CountsAssumed DEF Busy
  <2>2. ~Before(j)' /\ ~Between(j) /\ ~Between(j)'
    BY <1>1 DEF Before, Between
  <2> QED  BY <1>1, <2>1, <2>2, GoodKept DEF InStep
<1> QED  BY <1>1, <1>3, <1>4 DEF InStep

LEMMA TransferInStep ==
  ASSUME Shapes, Ownership, InStep, NEW h \in Handles, Transfer(h)
  PROVE  InStep'
<1>1. /\ UNCHANGED <<stream, handle, spi_dma_initialized, dr>> /\ call.at = "idle"
      /\ call'.at \in {"enable", "initRx"} /\ call'.h = h
      /\ ~handle[h].dma_busy /\ handle[h].inst # None
  BY DEF Transfer, At, Open
<1>2. Inst' = handle[h].inst
  BY <1>1 DEF Inst
<1>3. ASSUME NEW j \in Instances  PROVE Good(j)'
  <2>1. Busy(j)' = Busy(j) /\ ~Between(j) /\ ~Between(j)'
    BY <1>1 DEF Busy, Between
  <2>2. Before(j)' => ~Busy(j)
    BY <1>1, <1>2 DEF Before, Busy, InStep, OneHandle
  <2> QED  BY <1>1, <2>1, <2>2, GoodKept DEF InStep
<1> QED  BY <1>1, <1>3 DEF InStep, OneHandle

LEMMA WaitsInStep ==
  ASSUME Shapes, Ownership, InStep, Waits
  PROVE  InStep'
<1>1. /\ UNCHANGED <<stream, handle, spi_dma_initialized, dr>> /\ call.at = "wait"
      /\ call'.at \in {"wait", "idle"}
  BY NoCallGoes DEF Waits, At
<1>2. ASSUME NEW j \in Instances  PROVE Good(j)'
  <2>1. /\ Busy(j)' = Busy(j) /\ ~Between(j) /\ ~Between(j)' /\ ~Before(j)'
    BY <1>1 DEF Busy, Before, Between
  <2> QED  BY <1>1, <2>1, GoodKept DEF InStep
<1> QED  BY <1>1, <1>2 DEF InStep, OneHandle

LEMMA EnableInStep ==
  ASSUME Shapes, Ownership, InStep, Enable
  PROVE  InStep'
<1>1. /\ UNCHANGED <<stream, spi_dma_initialized, dr>> /\ call.at = "enable"
      /\ call' = [call EXCEPT !.at = "startRx"]
      /\ handle' = [handle EXCEPT ![call.h].dma_busy = TRUE]
      /\ call.h \in Handles
  BY DEF Enable, At, Goes, Shapes, SpiShape
<1>2. /\ call'.at = "startRx" /\ call'.h = call.h /\ Inst' = Inst
      /\ handle'[call.h].dma_busy
      /\ \A g \in Handles : handle'[g].inst = handle[g].inst
      /\ \A g \in Handles : handle[g].dma_busy => handle'[g].dma_busy
  BY <1>1 DEF Shapes, SpiShape, Calls, Inst
<1>3. OneHandle'
  BY <1>2 DEF InStep, OneHandle
<1>4. ASSUME NEW j \in Instances  PROVE Good(j)'
  <2>1. Busy(j) => Busy(j)'
    BY <1>2 DEF Busy
  <2>2. Before(j)' = Before(j) /\ ~Between(j) /\ ~Between(j)'
    BY <1>1, <1>2 DEF Before, Between
  <2> QED  BY <1>1, <2>1, <2>2, GoodKept DEF InStep
<1> QED  BY <1>1, <1>2, <1>3, <1>4 DEF InStep

LEMMA DeinitInStep ==
  ASSUME Shapes, Ownership, InStep, NEW h \in Handles, spi_deinit(h)
  PROVE  InStep'
<1>0. PICK i \in Instances : i = handle[h].inst
  BY DEF spi_deinit, Open, Shapes, SpiShape
<1> DEFINE gone(s) == spi_dma_initialized[i] /\ s \in {TxStream[i], RxStream[i]}
<1>1. /\ call.at = "idle" /\ UNCHANGED <<call, dr>> /\ ~handle[h].dma_busy
      /\ stream' = [s \in Streams |-> IF gone(s) THEN Idle ELSE stream[s]]
      /\ spi_dma_initialized' = [spi_dma_initialized EXCEPT ![i] = FALSE]
      /\ handle' = [handle EXCEPT ![h].inst = None]
  BY <1>0 DEF spi_deinit, At, Released
<1>2. /\ ~spi_dma_initialized'[i]
      /\ \A j \in Instances \ {i} : spi_dma_initialized'[j] = spi_dma_initialized[j]
      /\ handle'[h].inst = None
      /\ \A g \in Handles \ {h} : handle'[g] = handle[g]
  BY <1>1 DEF Shapes, SpiShape
<1>3. OneHandle'
  BY <1>2 DEF InStep, OneHandle
<1>4. ASSUME NEW j \in Instances, j # i  PROVE Good(j)'
  <2>1. Busy(j) => Busy(j)'
    BY <1>0, <1>2, <1>4, CountsAssumed DEF Busy
  <2>2. ~Before(j)' /\ ~Between(j) /\ ~Between(j)'
    BY <1>1 DEF Before, Between
  <2>3. \A t \in Streams : stream'[t] = stream[t] \/ (stream[t].owner # j /\ stream'[t].owner # j)
    BY <1>1, <1>4, IdleStream, CountsAssumed DEF Ownership, Has
  <2> QED  BY <1>1, <1>2, <1>4, <2>1, <2>2, <2>3, GoodKept DEF InStep
<1>5. Good(i)'
  <2>1. dr[i] = 0
    <3>1. ~Busy(i)
      BY <1>0, <1>1, CountsAssumed DEF Busy, InStep, OneHandle
    <3> QED  BY <1>1, <3>1 DEF InStep, Good, Balanced, Fresh
  <2>2. stream'[RxStream[i]].owner # i
    <3>1. CASE spi_dma_initialized[i]
      BY <1>1, <3>1, IdleStream, CountsAssumed
    <3>2. CASE ~spi_dma_initialized[i]
      BY <1>1, <3>2, CountsAssumed DEF Ownership
    <3> QED  BY <3>1, <3>2
  <2> QED  BY <1>1, <1>2, <2>1, <2>2 DEF Good, Fresh
<1> QED  BY <1>1, <1>3, <1>4, <1>5 DEF InStep

LEMMA AllocateInStep ==
  ASSUME Shapes, Ownership, InStep, InitRx \/ InitTx
  PROVE  InStep'
<1>0. PICK i \in Instances : i = Inst
  BY DEF Shapes, SpiShape, InitRx, InitTx, At
<1> DEFINE rx == RxStream[i]
           tx == TxStream[i]
<1>1. /\ i \in Clients /\ i # None
      /\ rx \in Streams /\ tx \in Streams /\ rx # tx /\ ~spi_dma_initialized[i]
      /\ UNCHANGED <<handle, dr>> /\ Allocating
      /\ call'.at \in {"idle", "initTx", "enable"} /\ (call'.at # "idle" => Inst' = i)
  BY <1>0, CountsAssumed, NoCallGoes DEF Shapes, SpiShape, Calls, Ownership, Allocating, Inst, InitRx, InitTx, At, Goes
<1>2. ASSUME NEW j \in Instances, NotIts(j), spi_dma_initialized'[j] = spi_dma_initialized[j]  PROVE Good(j)'
  <2>1. /\ Busy(j)' = Busy(j) /\ (Before(j)' => Before(j))
        /\ ~Between(j) /\ ~Between(j)'
    BY <1>0, <1>1 DEF Busy, Before, Between, Allocating
  <2> QED  BY <1>1, <1>2, <2>1, GoodKept DEF InStep, NotIts
<1>3. dr[i] = 0
  BY <1>1 DEF InStep, Good, Fresh
<1>4. SUFFICES \A j \in Instances : Good(j)'
  BY <1>1 DEF InStep, OneHandle
<1>5. CASE InitRx /\ Allocated(rx)
  BY <1>0, <1>2, <1>5 DEF InitRx, NotIts
<1>6. CASE InitRx /\ ~Allocated(rx)
  <2> DEFINE new == Configured(stream[rx], i, FALSE, TRUE)
  <2>1. /\ stream' = [stream EXCEPT ![rx] = new] /\ UNCHANGED spi_dma_initialized /\ stream[rx].owner = None
    BY <1>0, <1>1, <1>6 DEF InitRx, Shapes, SoundStreams, Allocated
  <2>2. Sound(new) /\ new.owner = i /\ ~new.circular /\ ~new.en /\ ~new.tcif
    BY <1>1, ConfiguredStream DEF Shapes, SoundStreams
  <2> HIDE DEF new, rx
  <2>3. \A j \in Instances \ {i} : NotIts(j)
    BY <1>1, <2>1, <2>2, OneStreamNotIts, CountsAssumed DEF Shapes
  <2>4. stream'[rx] = new
    BY <1>1, <2>1, <2>2, OneStream DEF Shapes
  <2>5. Good(i)'
    BY <1>1, <1>3, <2>1, <2>2, <2>4 DEF Good, Fresh, rx
  <2> QED  BY <1>2, <2>1, <2>3, <2>5
<1>7. CASE InitTx /\ Allocated(tx)
  <2>1. /\ stream' = [stream EXCEPT ![rx] = Idle] /\ UNCHANGED spi_dma_initialized
        /\ stream[rx].owner = i
    BY <1>0, <1>1, <1>7 DEF InitTx, At, GivesUpRx, Released, Ownership
  <2> HIDE DEF rx
  <2>2. \A j \in Instances \ {i} : NotIts(j)
    BY <1>1, <2>1, IdleStream, OneStreamNotIts, CountsAssumed DEF Shapes
  <2>3. stream'[rx] = Idle
    BY <1>1, <2>1, IdleStream, OneStream DEF Shapes
  <2>4. Good(i)'
    BY <1>1, <1>3, <2>1, <2>3, IdleStream DEF Good, Fresh, rx
  <2> QED  BY <1>2, <2>1, <2>2, <2>4
<1>8. CASE InitTx /\ ~Allocated(tx)
  <2> DEFINE new == Configured(stream[tx], i, FALSE, FALSE)
  <2>1. /\ stream' = [stream EXCEPT ![tx] = new] /\ stream[tx].owner = None
        /\ spi_dma_initialized' = [spi_dma_initialized EXCEPT ![i] = TRUE]
        /\ stream[rx].owner = i /\ call'.at = "enable"
    BY <1>0, <1>1, <1>8 DEF InitTx, At, Goes, Shapes, SpiShape, Calls, SoundStreams, Allocated, Ownership
  <2>2. Sound(new) /\ new.owner = i /\ new.circular = FALSE /\ ~new.en /\ ~new.tcif
    BY <1>1, ConfiguredStream DEF Shapes, SoundStreams
  <2> HIDE DEF new, rx, tx
  <2>3. \A j \in Instances \ {i} : NotIts(j)
    BY <1>1, <2>1, <2>2, OneStreamNotIts, CountsAssumed DEF Shapes
  <2>4. stream'[tx] = new /\ stream'[rx] = stream[rx]
    BY <1>1, <2>1, <2>2, OneStream DEF Shapes
  <2>5. ~stream[rx].circular /\ ~stream[rx].en /\ ~stream[rx].tcif
    BY <1>1, <2>1 DEF InStep, Good, Fresh, rx
  <2>6. /\ spi_dma_initialized'[i]
        /\ \A j \in Instances \ {i} : spi_dma_initialized'[j] = spi_dma_initialized[j]
    BY <1>1, <2>1 DEF Shapes, SpiShape
  <2>7. Balanced(i)'
    BY <1>1, <1>3, <2>2, <2>4, <2>5 DEF Balanced, rx, tx
  <2> QED  BY <1>1, <1>2, <2>3, <2>6, <2>7 DEF Good
<1> QED  BY <1>5, <1>6, <1>7, <1>8

LEMMA StartInStep ==
  ASSUME Shapes, Ownership, InStep, Start
  PROVE  InStep'
<1>0. PICK i \in Instances : i = Inst
  BY DEF Shapes, SpiShape, Start, At
<1> DEFINE rx == RxStream[i]
           tx == TxStream[i]
           s == StartedAt(call.at)
           new == Started(stream[s], call.n)
<1>1. /\ i \in Clients /\ rx \in Streams /\ tx \in Streams /\ rx # tx
      /\ call.at \in {"startRx", "startTx"} /\ call.n \in 1 .. MaxCount
      /\ spi_dma_initialized[i] /\ stream[rx].owner = i /\ stream[tx].owner = i
  BY <1>0, CountsAssumed DEF Shapes, SpiShape, Lengths, Ownership, Has, Start, At
<1>2. /\ (call.at = "startRx" /\ s = rx) \/ (call.at = "startTx" /\ s = tx)
      /\ s \in Streams
  BY <1>0, <1>1 DEF StartedAt
<1> HIDE DEF s, rx, tx
<1>3. /\ stream' = [stream EXCEPT ![s] = new]
      /\ UNCHANGED <<handle, spi_dma_initialized, dr>>
  BY <1>2 DEF Start, Count, s, Shapes, SoundStreams
<1>4. /\ call.at = "startRx" => call'.at = "startTx" /\ call'.h = call.h /\ call'.n = call.n /\ Inst' = i
      /\ call.at = "startTx" => call'.at \in {"wait", "idle"}
  BY <1>0, <1>3, NoCallGoes DEF Start, At, Goes, Shapes, SpiShape, Calls, Inst
<1>5. /\ Sound(new) /\ new.owner = i /\ new.circular = stream[s].circular
      /\ new.en /\ ~new.tcif /\ new.ndtr = call.n
  BY <1>1, <1>2, StartedStream DEF Shapes, SoundStreams
<1> HIDE DEF new
<1>6. stream'[s] = new /\ \A t \in Streams \ {s} : stream'[t] = stream[t]
  BY <1>2, <1>3, <1>5, OneStream DEF Shapes
<1>7. ASSUME NEW j \in Instances, j # i  PROVE Good(j)'
  <2>1. NotIts(j)
    BY <1>1, <1>2, <1>3, <1>5, <1>7, OneStreamNotIts DEF Shapes
  <2>2. /\ Busy(j)' = Busy(j)
        /\ ~Before(j)' /\ ~Between(j) /\ ~Between(j)'
    BY <1>0, <1>1, <1>3, <1>4, <1>7 DEF Busy, Before, Between
  <2> QED  BY <1>3, <2>1, <2>2, GoodKept DEF InStep, NotIts
<1>8. Balanced(i)
  BY <1>1 DEF InStep, Good
<1>9. CASE call.at = "startRx"
  <2>1. ~stream[rx].en /\ ~stream[rx].tcif /\ Before(i)
    BY <1>0, <1>8, <1>9 DEF Balanced, Before, rx
  <2>2. /\ dr[i] = 0 /\ ~stream[tx].en /\ ~stream[tx].circular /\ ~stream[rx].circular
    BY <1>8, <2>1 DEF Balanced, rx, tx
  <2>3. Busy(i)
    BY <1>0, <1>9 DEF InStep, Busy, Inst, Shapes, SpiShape
  <2>4. /\ stream'[rx] = new /\ stream'[tx] = stream[tx] /\ ~new.circular
    BY <1>1, <1>2, <1>5, <1>6, <1>9, <2>2
  <2>5. Busy(i)' /\ ~Before(i)' /\ Between(i)'
    BY <1>3, <1>4, <1>9, <2>3 DEF Busy, Before, Between
  <2>6. Balanced(i)'
    BY <1>3, <1>4, <1>5, <1>9, <2>2, <2>4, <2>5 DEF Balanced, rx, tx
  <2>7. call'.at = "startTx" /\ stream'[RxStream[Inst']].en
    BY <1>4, <1>5, <1>9, <2>4 DEF rx
  <2> QED  BY <1>1, <1>3, <1>7, <2>6, <2>7 DEF InStep, OneHandle, Good
<1>10. CASE call.at = "startTx"
  <2>1. stream[rx].en /\ Between(i)
    BY <1>0, <1>10 DEF InStep, Between, rx
  <2>2. /\ dr[i] = 0 /\ ~stream[tx].circular /\ ~stream[rx].circular /\ stream[rx].ndtr = call.n
        /\ Busy(i) /\ ~stream[rx].tcif
    BY <1>8, <2>1 DEF Balanced, rx, tx
  <2>3. /\ stream'[tx] = new /\ stream'[rx] = stream[rx] /\ ~new.circular
    BY <1>1, <1>2, <1>5, <1>6, <1>10, <2>2
  <2>4. Busy(i)' /\ ~Before(i)' /\ ~Between(i)'
    BY <1>3, <1>4, <1>10, <2>2 DEF Busy, Before, Between
  <2>5. Balanced(i)'
    BY <1>1, <1>3, <1>5, <2>1, <2>2, <2>3, <2>4 DEF Balanced, rx, tx
  <2> QED  BY <1>1, <1>3, <1>4, <1>7, <1>10, <2>5 DEF InStep, OneHandle, Good
<1> QED  BY <1>2, <1>9, <1>10

\* What a step that leaves the call makes of the first conjuncts, and of the other instances.
LEMMA HardwareInStep ==
  ASSUME Shapes, Ownership, InStep, UNCHANGED <<call, handle, spi_dma_initialized>>,
         NEW i \in Instances, Good(i)', NEW s \in Streams, stream[s].owner = i, NEW new, Sound(new), new.owner = i,
         stream' = [stream EXCEPT ![s] = new],
         Between(i) => new.en = stream[s].en \/ s # RxStream[i],
         \A j \in Instances \ {i} : dr'[j] = dr[j]
  PROVE  InStep'
<1>1. ASSUME NEW j \in Instances, j # i  PROVE NotIts(j)
  BY <1>1, OneStreamNotIts DEF Shapes
<1>2. ASSUME NEW j \in Instances, j # i  PROVE Good(j)'
  BY <1>1, <1>2, CallSame, GoodKept DEF InStep, NotIts
<1>3. Inst' = Inst
  BY DEF Inst
<1>4. call.at = "startTx" => stream'[RxStream[Inst]].en
  <2>1. SUFFICES ASSUME call.at = "startTx"  PROVE stream'[RxStream[Inst]].en
    OBVIOUS
  <2>2. /\ Inst \in Instances /\ stream[RxStream[Inst]].en /\ RxStream[Inst] \in Streams
        /\ stream[RxStream[Inst]].owner = Inst
    BY <2>1, CountsAssumed DEF InStep, Shapes, SpiShape, Ownership, Has
  <2>3. stream'[s] = new /\ \A t \in Streams \ {s} : stream'[t] = stream[t]
    BY OneStream DEF Shapes
  <2> QED  BY <2>1, <2>2, <2>3 DEF Between
<1> QED  BY <1>2, <1>3, <1>4 DEF InStep, OneHandle

LEMMA ShiftInStep ==
  ASSUME Shapes, Ownership, InStep, NEW i \in Instances, ShiftByte(i)
  PROVE  InStep'
<1> DEFINE rx == RxStream[i]
           tx == TxStream[i]
           new == Moved(stream[tx])
<1>1. /\ rx \in Streams /\ tx \in Streams /\ rx # tx
      /\ stream[tx].en /\ stream[tx].owner = i /\ (dr[i] = 1 => ~stream[rx].en)
      /\ stream' = [stream EXCEPT ![tx] = new]
      /\ dr' = [dr EXCEPT ![i] = 1]
      /\ UNCHANGED <<call, handle, spi_dma_initialized>>
  BY CountsAssumed DEF ShiftByte, Shapes, SoundStreams
<1>2. spi_dma_initialized[i] /\ Balanced(i)
  BY <1>1 DEF Ownership, InStep, Good
<1> HIDE DEF rx
<1>3. /\ stream[rx].en /\ dr[i] = 0 /\ ~Between(i) /\ ~stream[tx].circular /\ ~stream[rx].circular
      /\ stream[rx].ndtr = stream[tx].ndtr /\ ~stream[rx].tcif /\ Busy(i) /\ ~Before(i)
      /\ stream[tx].ndtr \in Nat /\ stream[tx].ndtr > 0
  <2>1. Sound(stream[tx]) /\ Sound(stream[rx]) /\ dr[i] \in {0, 1}
    BY <1>1 DEF rx, Shapes, SoundStreams, SpiShape
  <2>2. stream[tx].ndtr \in Nat /\ stream[tx].ndtr > 0
    BY <1>1, <2>1, CountsAssumed DEF Sound, StreamState
  <2> HIDE DEF tx
  <2>3. stream[rx].en /\ dr[i] = 0 /\ ~stream[tx].circular /\ ~stream[rx].circular
    BY <1>1, <1>2, <2>1 DEF Balanced, rx, tx
  <2>4. ~Between(i) /\ ~stream[rx].tcif /\ Busy(i) /\ ~Before(i) /\ stream[rx].ndtr = stream[tx].ndtr + dr[i]
    BY <1>1, <1>2, <2>3 DEF Balanced, rx, tx
  <2> QED  BY <2>2, <2>3, <2>4
<1>4. /\ Sound(new) /\ new.owner = i /\ ~new.circular
      /\ new.ndtr = stream[tx].ndtr - 1 /\ (new.en <=> new.ndtr > 0)
  <2>1. Sound(stream[tx])
    BY <1>1 DEF Shapes, SoundStreams
  <2> HIDE DEF tx
  <2> QED  BY <1>1, <1>3, <2>1, MovedStream
<1> HIDE DEF tx, new
<1>5. /\ stream'[tx] = new /\ stream'[rx] = stream[rx] /\ dr'[i] = 1
      /\ \A j \in Instances \ {i} : dr'[j] = dr[j]
  <2>1. stream'[tx] = new /\ \A t \in Streams \ {tx} : stream'[t] = stream[t]
    BY <1>1, <1>4, OneStream DEF Shapes
  <2>2. dr'[i] = 1 /\ \A j \in Instances \ {i} : dr'[j] = dr[j]
    BY <1>1 DEF Shapes, SpiShape
  <2> QED  BY <1>1, <2>1, <2>2
<1>6. Busy(i)' /\ ~Before(i)' /\ ~Between(i)'
  BY <1>1, <1>3, CallSame
<1>7. Balanced(i)'
  BY <1>3, <1>4, <1>5, <1>6 DEF Balanced, rx, tx
<1>8. Good(i)'
  BY <1>1, <1>2, <1>7 DEF Good
<1> QED  BY <1>1, <1>3, <1>4, <1>5, <1>8, HardwareInStep

LEMMA TakeInStep ==
  ASSUME Shapes, Ownership, InStep, NEW i \in Instances, TakeByte(i)
  PROVE  InStep'
<1> DEFINE rx == RxStream[i]
           tx == TxStream[i]
           new == Moved(stream[rx])
<1>1. /\ rx \in Streams /\ tx \in Streams /\ rx # tx
      /\ stream[rx].en /\ stream[rx].owner = i /\ dr[i] = 1
      /\ stream' = [stream EXCEPT ![rx] = new]
      /\ dr' = [dr EXCEPT ![i] = 0]
      /\ UNCHANGED <<call, handle, spi_dma_initialized>>
  BY CountsAssumed DEF TakeByte, Shapes, SoundStreams
<1>2. spi_dma_initialized[i] /\ Balanced(i)
  BY <1>1 DEF InStep, Good, Fresh
<1> HIDE DEF tx
<1>3. /\ ~Between(i) /\ ~stream[tx].circular /\ ~stream[rx].circular
      /\ stream[rx].ndtr = stream[tx].ndtr + 1 /\ ~stream[rx].tcif /\ Busy(i) /\ ~Before(i)
      /\ (~stream[tx].en => stream[tx].ndtr = 0) /\ (stream[tx].en => stream[tx].ndtr > 0)
      /\ stream[tx].ndtr \in Nat
  BY <1>1, <1>2, CountsAssumed DEF Balanced, tx, Shapes, SoundStreams, Sound, StreamState
<1>4. /\ Sound(new) /\ new.owner = i /\ ~new.circular
      /\ new.ndtr = stream[tx].ndtr /\ (new.en <=> new.ndtr > 0) /\ (new.tcif <=> new.ndtr = 0)
  <2>1. Sound(stream[rx])
    BY <1>1 DEF Shapes, SoundStreams
  <2> HIDE DEF rx
  <2> QED  BY <1>1, <1>3, <2>1, MovedStream
<1> HIDE DEF rx, new
<1>5. /\ stream'[rx] = new /\ stream'[tx] = stream[tx] /\ dr'[i] = 0
      /\ \A j \in Instances \ {i} : dr'[j] = dr[j]
  <2>1. stream'[rx] = new /\ \A t \in Streams \ {rx} : stream'[t] = stream[t]
    BY <1>1, <1>4, OneStream DEF Shapes
  <2>2. dr'[i] = 0 /\ \A j \in Instances \ {i} : dr'[j] = dr[j]
    BY <1>1 DEF Shapes, SpiShape
  <2> QED  BY <1>1, <2>1, <2>2
<1>6. Busy(i)' /\ ~Before(i)' /\ ~Between(i)'
  BY <1>1, <1>3, CallSame
<1>7. Balanced(i)'
  BY <1>3, <1>4, <1>5, <1>6 DEF Balanced, rx, tx
<1>8. Good(i)'
  BY <1>1, <1>2, <1>7 DEF Good
<1> QED  BY <1>1, <1>3, <1>4, <1>5, <1>8, HardwareInStep

LEMMA RxCompleteInStep ==
  ASSUME Shapes, Ownership, InStep, NEW i \in Instances, RxComplete(i)
  PROVE  InStep'
<1> DEFINE rx == RxStream[i]
           tx == TxStream[i]
           new == Served(stream[rx])
<1>1. /\ rx \in Streams /\ tx \in Streams /\ rx # tx
      /\ stream[rx].tcif /\ stream[rx].owner = i
      /\ stream' = [stream EXCEPT ![rx] = new]
      /\ UNCHANGED <<call, dr, spi_dma_initialized>>
  BY CountsAssumed DEF RxComplete, InterruptDue, Shapes, SoundStreams
<1>2. PICK h \in Handles : handle[h].inst = i /\ handle' = [handle EXCEPT ![h].dma_busy = FALSE]
  BY DEF RxComplete, DoneWith
<1>3. spi_dma_initialized[i] /\ Balanced(i)
  BY <1>1 DEF InStep, Good, Fresh
<1> HIDE DEF tx
<1>4. /\ ~stream[rx].en /\ ~stream[tx].en /\ dr[i] = 0 /\ ~stream[tx].circular /\ ~stream[rx].circular
      /\ ~Before(i)
  BY <1>1, <1>3 DEF Balanced, tx
<1>5. Sound(new) /\ new.owner = i /\ ~new.circular /\ ~new.en /\ ~new.tcif
  <2>1. Sound(stream[rx])
    BY <1>1 DEF Shapes, SoundStreams
  <2> QED  BY <1>1, <1>4, <2>1, ServedStream
<1> HIDE DEF rx, new
<1>6. /\ stream'[rx] = new /\ \A t \in Streams \ {rx} : stream'[t] = stream[t]
  BY <1>1, <1>5, OneStream DEF Shapes
<1>7. /\ \A g \in Handles : handle'[g].inst = handle[g].inst
      /\ \A g \in Handles \ {h} : handle'[g] = handle[g]
  BY <1>2 DEF Shapes, SpiShape
<1>8. Inst' = Inst
  BY <1>1, <1>2 DEF Shapes, SpiShape, Inst
<1>9. Balanced(i)'
  BY <1>1, <1>4, <1>5, <1>6 DEF Balanced, rx, tx
<1>10. ASSUME NEW j \in Instances, j # i  PROVE Good(j)'
  <2>1. NotIts(j)
    BY <1>1, <1>5, <1>10, OneStreamNotIts DEF Shapes
  <2>2. Busy(j) => Busy(j)'
    BY <1>2, <1>7, <1>10 DEF Busy
  <2>3. Before(j)' = Before(j) /\ Between(j)' = Between(j)
    BY <1>1, <1>8 DEF Before, Between
  <2> QED  BY <1>1, <2>1, <2>2, <2>3, GoodKept DEF InStep, NotIts
<1>11. call.at = "startRx" => handle'[call.h].dma_busy
  BY <1>2, <1>4, <1>7 DEF Before, Inst, InStep, Shapes, SpiShape
<1>12. call.at = "startTx" => stream'[RxStream[Inst]].en
  <2>1. SUFFICES ASSUME call.at = "startTx"  PROVE stream'[RxStream[Inst]].en
    OBVIOUS
  <2>2. Inst \in Instances /\ stream[RxStream[Inst]].en /\ RxStream[Inst] \in Streams
    BY <2>1, CountsAssumed DEF InStep, Shapes, SpiShape
  <2>3. RxStream[Inst] # rx
    BY <1>4, <2>2
  <2> QED  BY <1>6, <2>2, <2>3
<1>13. OneHandle'
  BY <1>7 DEF InStep, OneHandle
<1>14. Good(i)'
  BY <1>1, <1>3, <1>9 DEF Good
<1> QED  BY <1>1, <1>8, <1>10, <1>11, <1>12, <1>13, <1>14 DEF InStep

LEMMA InStepStep == Shapes /\ Ownership /\ InStep /\ [Next]_vars => InStep'
<1> SUFFICES ASSUME Shapes, Ownership, InStep, [Next]_vars  PROVE InStep'
  OBVIOUS
<1>1. CASE UNCHANGED vars
  <2>1. UNCHANGED <<stream, handle, spi_dma_initialized, dr, call>> /\ Inst' = Inst
    BY <1>1 DEF vars, spiVars, Inst
  <2>2. \A j \in Instances : Good(j)'
    BY <2>1, CallSame, GoodKept DEF InStep
  <2> QED  BY <2>1, <2>2 DEF InStep, OneHandle
<1>2. CASE SpiSteps
  BY <1>2, OpenInStep, DeinitInStep, TransferInStep, AllocateInStep, EnableInStep, StartInStep,
     WaitsInStep, ShiftInStep, TakeInStep, RxCompleteInStep DEF SpiSteps
<1>3. CASE UartSteps /\ UNCHANGED spiVars
  BY <1>3, UartInStep
<1> QED  BY <1>1, <1>2, <1>3, StepsByParty

LEMMA InStepIsDone == Ownership /\ InStep => TransmitterIsDone
<1> SUFFICES ASSUME Ownership, InStep, NEW i \in Instances,
                    stream[RxStream[i]].owner = i, stream[RxStream[i]].tcif
             PROVE  ~stream[TxStream[i]].en
  BY DEF TransmitterIsDone
<1>1. spi_dma_initialized[i] /\ Balanced(i)
  BY DEF InStep, Good, Fresh
<1> QED  BY <1>1 DEF Balanced

\* Whatever the lengths and however instances that share streams alternate, the
\* TX stream has stopped when the RX stream completes (TransmitterIsDone).
THEOREM TransmitterStops == Spec => []TransmitterIsDone
<1>1. Init => Shapes /\ Ownership /\ InStep
  BY ShapesInit, OwnershipInit, InStepInit
<1>2. Shapes /\ Ownership /\ InStep /\ [Next]_vars => (Shapes /\ Ownership /\ InStep)'
  BY OwnershipStep, InStepStep
<1> QED  BY <1>1, <1>2, InStepIsDone, PTL DEF Spec

-----------------------------------------------------------------------------
(* The UART's ring.                                                        *)

\* An index or number that has gone round at most once.
Round(n, N) == IF n < N THEN n ELSE n - N

\* Where the callback will go on reading, and where the stream writes.
NextRead == BufSize - (IF isr = "delivered" THEN seen ELSE rx_dma_last_ndtr)
NextWrite == BufSize - Ndtr

\* The ring holds the bytes that are outstanding, in order, from NextRead on;
\* it has not wrapped since the last time the transfer-complete callback ran.
Holds ==
  /\ Outstanding \in 0 .. BufSize - 1
  /\ NextWrite = Round(NextRead + Outstanding, BufSize)
  /\ ~stream[UartStream].tcif => NextWrite = NextRead + Outstanding
  /\ \A k \in 0 .. Outstanding - 1 :
       ring[Round(NextRead + k, BufSize)] = Round(due + k, Numbers)

\* A ring that is full has wrapped, and its bytes are not owed any more.
Skips == stream[UartStream].tcif /\ due = received

\* Inside the idle interrupt the ring has not wrapped, and what it has seen is
\* between the two; once the line is idle and the interrupt has read the count,
\* that is all there is.
Seen ==
  /\ isr # "none" => seen \in 1 .. BufSize /\ ~stream[UartStream].tcif
  /\ isr = "read" => \E m \in 0 .. Outstanding : BufSize - seen = Round(NextRead + m, BufSize)
  /\ quiet /\ ~idle => ~lapped /\ IF isr = "read" THEN seen = Ndtr ELSE Outstanding = 0

Receiving ==
  LET st == stream[UartStream]
  IN  /\ st.circular /\ st.en /\ st.irq /\ st.ndtr \in 1 .. BufSize
      /\ rx_dma_last_ndtr \in 1 .. BufSize
      /\ lapped => Skips
      /\ ~lapped => Holds
      /\ Seen

RingInv ==
  /\ received \in 0 .. Numbers - 1 /\ due \in 0 .. Numbers - 1
  /\ ring \in [0 .. BufSize - 1 -> 0 .. Numbers]
  /\ isr # "none" => rx_dma_active
  /\ rx_dma_active => Receiving

LEMMA RingAssumed ==
  /\ BufSize \in Nat /\ BufSize >= 1 /\ Numbers \in Nat /\ Numbers > BufSize + 1
  /\ Uart # None /\ Uart \notin Instances /\ UartStream \in Streams
BY CountsAssumed, UartAssumption

LEMMA RoundIsMod ==
  ASSUME NEW N \in Nat, N > 0, NEW n \in 0 .. 2 * N - 1
  PROVE  n % N = Round(n, N)
<1>1. CASE n < N
  BY <1>1 DEF Round
<1>2. CASE n >= N
  <2>1. n % N = (n - N) % N
    BY <1>2
  <2> QED  BY <1>2, <2>1 DEF Round
<1> QED  BY <1>1, <1>2

\* The model's numbers in these terms.
LEMMA NumbersRound ==
  ASSUME NEW r \in 0 .. Numbers - 1, NEW d \in 0 .. Numbers - 1, NEW m \in 0 .. BufSize
  PROVE  /\ (r + Numbers - d) % Numbers = Round(r + Numbers - d, Numbers)
         /\ (d + m) % Numbers = Round(d + m, Numbers)
<1>1. /\ r + Numbers - d \in 0 .. 2 * Numbers - 1 /\ d + m \in 0 .. 2 * Numbers - 1
      /\ Numbers \in Nat /\ Numbers > 0
  BY RingAssumed
<1> QED  BY <1>1, RoundIsMod

\* Handing on m of the bytes outstanding.
LEMMA NumbersGoOn ==
  ASSUME NEW r \in 0 .. Numbers - 1, NEW d \in 0 .. Numbers - 1, NEW o \in 0 .. BufSize - 1,
         o = Round(r + Numbers - d, Numbers), NEW m \in 0 .. o, NEW e, e = Round(d + m, Numbers)
  PROVE  /\ e \in 0 .. Numbers - 1
         /\ Round(r + Numbers - e, Numbers) = o - m
         /\ Round(e + Numbers - d, Numbers) = m
         /\ \A k \in 0 .. o - m - 1 : Round(e + k, Numbers) = Round(d + (m + k), Numbers)
BY RingAssumed DEF Round

\* One more byte has arrived.
LEMMA NumbersArrive ==
  ASSUME NEW r \in 0 .. Numbers - 1, NEW d \in 0 .. Numbers - 1, NEW o \in 0 .. BufSize - 1,
         o = Round(r + Numbers - d, Numbers)
  PROVE  /\ Round(r + 1, Numbers) \in 0 .. Numbers - 1
         /\ Round(Round(r + 1, Numbers) + Numbers - d, Numbers) = o + 1
         /\ Round(d + o, Numbers) = r
BY RingAssumed DEF Round

\* Places in the ring: all different, and counted on from any of them.
LEMMA Places ==
  ASSUME NEW t \in 0 .. BufSize - 1, NEW m \in 0 .. BufSize - 1
  PROVE  /\ Round(t + m, BufSize) \in 0 .. BufSize - 1
         /\ \A k \in 0 .. BufSize - 1 : Round(t + k, BufSize) = Round(t + m, BufSize) => k = m
         /\ \A k \in 0 .. BufSize - 1 - m :
              Round(Round(t + m, BufSize) + k, BufSize) = Round(t + (m + k), BufSize)
         /\ Round(t + m, BufSize) >= t => Round(t + m, BufSize) = t + m
         /\ Round(t + m, BufSize) < t => Round(t + m, BufSize) = t + m - BufSize
BY RingAssumed DEF Round

\* What the callback is given: m bytes in the order of the ring.
LEMMA NewBytes ==
  ASSUME ring \in [0 .. BufSize - 1 -> 0 .. Numbers],
         rx_dma_last_ndtr \in 1 .. BufSize, NEW ndtr \in 1 .. BufSize, NEW m \in 0 .. BufSize - 1,
         BufSize - ndtr = Round(BufSize - rx_dma_last_ndtr + m, BufSize)
  PROVE  NewIn(ndtr) = [i \in 1 .. m |-> ring[Round(BufSize - rx_dma_last_ndtr + (i - 1), BufSize)]]
<1> DEFINE head == BufSize - ndtr
           tail == BufSize - rx_dma_last_ndtr
           bytes == [i \in 1 .. BufSize |-> ring[i - 1]]
           all == [i \in 1 .. m |-> ring[Round(tail + (i - 1), BufSize)]]
<1> SUFFICES NewIn(ndtr) = all
  OBVIOUS
<1>1. /\ head \in 0 .. BufSize - 1 /\ tail \in 0 .. BufSize - 1 /\ BufSize \in Nat
      /\ head = Round(tail + m, BufSize) /\ m \in Nat /\ m < BufSize
      /\ head \in Nat /\ tail \in Nat /\ head < BufSize /\ tail < BufSize /\ BufSize - tail \in Nat
  BY RingAssumed
<1>2. bytes \in Seq(0 .. Numbers) /\ Len(bytes) = BufSize /\ \A i \in 1 .. BufSize : bytes[i] = ring[i - 1]
  BY <1>1
<1>3. NewIn(ndtr) = IF head >= tail THEN SubSeq(bytes, tail + 1, head)
                    ELSE SubSeq(bytes, tail + 1, BufSize) \o SubSeq(bytes, 1, head)
  BY DEF NewIn
<1> HIDE DEF head, tail, bytes
<1>4. ASSUME NEW a \in 0 .. BufSize, NEW b \in a .. BufSize
      PROVE  LET s == SubSeq(bytes, a + 1, b)
             IN  /\ s \in Seq(0 .. Numbers) /\ Len(s) = b - a
                 /\ \A i \in 1 .. b - a : s[i] = ring[a + (i - 1)]
  <2>1. a + 1 \in Int /\ b \in Int /\ \A i \in a + 1 .. b : i \in 1 .. BufSize
    BY <1>1
  <2>2. \A i \in a + 1 .. b : bytes[i] \in 0 .. Numbers
    BY <1>1, <1>2, <2>1
  <2>3. \A i \in 1 .. b - a : (a + 1) + i - 1 \in 1 .. BufSize /\ ((a + 1) + i - 1) - 1 = a + (i - 1)
    BY <1>1
  <2>4. b - (a + 1) + 1 = b - a /\ (a + 1 <= b \/ b - a = 0)
    BY <1>1
  <2> DEFINE s == SubSeq(bytes, a + 1, b)
  <2>5. /\ s \in Seq(0 .. Numbers) /\ Len(s) = IF a + 1 <= b THEN b - (a + 1) + 1 ELSE 0
        /\ \A i \in 1 .. b - (a + 1) + 1 : s[i] = bytes[(a + 1) + i - 1]
    BY <2>1, <2>2, SubSeqProperties
  <2> HIDE DEF s
  <2>6. Len(s) = b - a
    BY <2>1, <2>4, <2>5
  <2>7. \A i \in 1 .. b - a : s[i] = ring[a + (i - 1)]
    BY <1>2, <2>3, <2>4, <2>5
  <2> QED  BY <2>5, <2>6, <2>7 DEF s
<1>5. ASSUME NEW s, s \in Seq(0 .. Numbers), Len(s) = m,
             \A i \in 1 .. m : s[i] = ring[Round(tail + (i - 1), BufSize)]
      PROVE  s = all
  <2>1. s = [i \in 1 .. m |-> s[i]]
    BY <1>5
  <2> QED  BY <1>5, <2>1
<1> HIDE DEF all
<1>6. CASE head >= tail
  <2>1. head = tail + m
    BY <1>1, <1>6, Places
  <2> DEFINE s == SubSeq(bytes, tail + 1, head)
  <2>2. s \in Seq(0 .. Numbers) /\ Len(s) = m /\ \A i \in 1 .. m : s[i] = ring[tail + (i - 1)]
    <3>0. /\ head = tail + m /\ tail \in Nat /\ m \in Nat /\ BufSize \in Nat
          /\ head < BufSize /\ tail < BufSize
      BY <1>1, <2>1
    <3>1. tail \in 0 .. BufSize /\ head \in tail .. BufSize /\ head - tail = m
      BY <3>0
    <3> HIDE DEF s
    <3>2. /\ s \in Seq(0 .. Numbers) /\ Len(s) = head - tail
          /\ \A i \in 1 .. head - tail : s[i] = ring[tail + (i - 1)]
      BY <3>1, <1>4 DEF s
    <3> QED  BY <3>1, <3>2
  <2>3. \A i \in 1 .. m : Round(tail + (i - 1), BufSize) = tail + (i - 1)
    BY <1>1, <2>1 DEF Round
  <2> HIDE DEF s
  <2>4. s = all
    BY <1>5, <2>2, <2>3
  <2> QED  BY <1>3, <1>6, <2>4 DEF s
<1>7. CASE head < tail
  <2>1. head = tail + m - BufSize
    BY <1>1, <1>7, Places
  <2> DEFINE one == SubSeq(bytes, tail + 1, BufSize)
             two == SubSeq(bytes, 1, head)
             l == BufSize - tail
  <2>2. /\ one \in Seq(0 .. Numbers) /\ Len(one) = l
        /\ \A i \in 1 .. l : one[i] = ring[tail + (i - 1)]
    <3>1. tail \in 0 .. BufSize /\ BufSize \in tail .. BufSize
      BY <1>1
    <3> QED  BY <3>1, <1>4
  <2>3. /\ two \in Seq(0 .. Numbers) /\ Len(two) = head
        /\ \A i \in 1 .. head : two[i] = ring[i - 1]
    <3>1. 0 \in 0 .. BufSize /\ head \in 0 .. BufSize /\ 0 + 1 = 1 /\ head - 0 = head
          /\ \A i \in 1 .. head : 0 + (i - 1) = i - 1
      BY <1>1
    <3> HIDE DEF two
    <3>2. /\ SubSeq(bytes, 0 + 1, head) \in Seq(0 .. Numbers) /\ Len(SubSeq(bytes, 0 + 1, head)) = head - 0
          /\ \A i \in 1 .. head - 0 : SubSeq(bytes, 0 + 1, head)[i] = ring[0 + (i - 1)]
      BY <3>1, <1>4
    <3> QED  BY <3>1, <3>2 DEF two
  <2>4. l + head = m /\ l \in Nat /\ head \in Nat
    <3>1. l \in Nat
      BY <1>1
    <3>2. head \in Nat
      BY <1>1
    <3>3. BufSize \in Nat /\ m \in Nat /\ tail \in Nat
      BY <1>1
    <3>4. l + head = m
      BY <3>3, <2>1
    <3> QED BY <3>1, <3>2, <3>4
  <2> DEFINE both == one \o two
  <2> HIDE DEF one, two, l
  <2>5. /\ both \in Seq(0 .. Numbers) /\ Len(both) = m
        /\ \A i \in 1 .. m : both[i] = IF i <= l THEN one[i] ELSE two[i - l]
    <3>1. Len(one) + Len(two) = m
      BY <2>2, <2>3, <2>4
    <3>2. /\ both \in Seq(0 .. Numbers) /\ Len(both) = Len(one) + Len(two)
          /\ \A i \in 1 .. Len(one) + Len(two) :
               both[i] = IF i <= Len(one) THEN one[i] ELSE two[i - Len(one)]
      BY <2>2, <2>3, ConcatProperties
    <3> HIDE DEF both
    <3> QED  BY <2>2, <3>1, <3>2
  <2> HIDE DEF both
  <2>6. ASSUME NEW i \in 1 .. m  PROVE both[i] = ring[Round(tail + (i - 1), BufSize)]
    <3>1. CASE i <= l
      <4>1. i \in 1 .. l /\ tail + (i - 1) < BufSize
        BY <1>1, <2>4, <3>1 DEF l
      <4>2. both[i] = one[i]
        BY <2>5, <3>1
      <4>3. one[i] = ring[tail + (i - 1)]
        BY <2>2, <4>1
      <4>4. Round(tail + (i - 1), BufSize) = tail + (i - 1)
        BY <4>1 DEF Round
      <4> QED  BY <4>2, <4>3, <4>4
    <3>2. CASE i > l
      <4>1. i - l \in 1 .. head /\ ~(i <= l) /\ ~(tail + (i - 1) < BufSize)
            /\ (tail + (i - 1)) - BufSize = (i - l) - 1
        <5>1. /\ l = BufSize - tail /\ l + head = m /\ i > l
              /\ l \in Nat /\ head \in Nat /\ m \in Nat /\ tail \in Nat /\ BufSize \in Nat
          BY <1>1, <2>4, <3>2 DEF l
        <5>2. i \in Nat /\ i <= m
          BY <5>1
        <5> QED  BY <5>1, <5>2
      <4>2. both[i] = ring[(i - l) - 1]
        BY <2>3, <2>5, <4>1
      <4> DEFINE at == tail + (i - 1)
      <4>3. ~(at < BufSize) /\ at - BufSize = (i - l) - 1
        BY <4>1
      <4> HIDE DEF at
      <4>4. Round(at, BufSize) = (i - l) - 1
        BY <4>3 DEF Round
      <4> QED  BY <4>2, <4>4 DEF at
    <3>3. i \in Int /\ l \in Int
      BY <1>1, <2>4
    <3> QED  BY <3>1, <3>2, <3>3
  <2>7. both = all
    BY <1>5, <2>5, <2>6
  <2>8. ~(head >= tail)
    BY <1>1, <1>7
  <2> QED  BY <1>3, <2>7, <2>8 DEF one, two, both
<1> QED  BY <1>1, <1>6, <1>7

\* What the callback has not been given is what has been received since.
Due(r, d) == Round(r + Numbers - d, Numbers)

LEMMA OutstandingIs ==
  /\ received \in 0 .. Numbers - 1 /\ due \in 0 .. Numbers - 1 => Outstanding = Due(received, due)
  /\ received' \in 0 .. Numbers - 1 /\ due' \in 0 .. Numbers - 1 => Outstanding' = Due(received', due')
<1>1. 0 \in 0 .. BufSize
  BY RingAssumed
<1> QED  BY <1>1, NumbersRound DEF Outstanding, Due

LEMMA RingInit == Init => RingInv
BY RingAssumed DEF Init, UartInit, RingInv, OldRing

\* A step that leaves the UART's variables and its stream leaves this invariant.
LEMMA RingKept ==
  ASSUME RingInv, UNCHANGED uartVars, rx_dma_active => stream'[UartStream] = stream[UartStream]
  PROVE  RingInv'
<1>1. /\ UNCHANGED <<rx_dma_active, rx_dma_last_ndtr, ring, idle, isr, seen, quiet, received, due>>
      /\ lapped' = lapped
  BY DEF uartVars
<1>2. Outstanding' = Outstanding /\ NextRead' = NextRead
  BY <1>1 DEF Outstanding, NextRead
<1>3. ASSUME rx_dma_active  PROVE Ndtr' = Ndtr /\ NextWrite' = NextWrite
  BY <1>3 DEF Ndtr, NextWrite
<1>4. ASSUME rx_dma_active  PROVE Receiving'
  <2>1. Receiving
    BY <1>4 DEF RingInv
  <2>2. ~lapped => Holds'
    BY <1>1, <1>2, <1>3, <1>4, <2>1 DEF Receiving, Holds
  <2>3. Seen'
    BY <1>1, <1>2, <1>3, <1>4, <2>1 DEF Receiving, Seen
  <2>4. lapped => Skips'
    BY <1>1, <1>4, <2>1 DEF Receiving, Skips
  <2> QED  BY <1>1, <1>4, <2>1, <2>2, <2>3, <2>4 DEF Receiving
<1> QED  BY <1>1, <1>4 DEF RingInv

\* No SPI instance moves a stream that the UART has.
LEMMA SpiLeavesUart ==
  ASSUME Shapes, Ownership, SpiSteps, stream[UartStream].owner = Uart
  PROVE  stream'[UartStream] = stream[UartStream]
<1> USE DEF Shapes, SoundStreams
<1>0. /\ Uart # None /\ Uart \notin Instances /\ UartStream \in Streams
      /\ \A i \in Instances : TxStream[i] \in Streams /\ RxStream[i] \in Streams
  BY CountsAssumed
<1>1. ASSUME NEW s \in Streams, stream[s].owner # Uart, NEW new,
             stream' = [stream EXCEPT ![s] = new]
      PROVE  stream'[UartStream] = stream[UartStream]
  BY <1>1
<1>2. ASSUME NEW h \in Handles, NEW i \in Instances, spi_init(h, i)
      PROVE  stream' = stream
  BY <1>2 DEF spi_init
<1>3. ASSUME NEW h \in Handles, spi_deinit(h)  PROVE stream'[UartStream] = stream[UartStream]
  <2>1. handle[h].inst \in Instances
    BY <1>3 DEF spi_deinit, Open, SpiShape
  <2>2. spi_dma_initialized[handle[h].inst] =>
          UartStream \notin {TxStream[handle[h].inst], RxStream[handle[h].inst]}
    BY <1>0, <2>1 DEF Ownership, Has
  <2> QED  BY <1>0, <1>3, <2>2 DEF spi_deinit
<1>4. ASSUME NEW h \in Handles, Transfer(h)  PROVE stream' = stream
  BY <1>4 DEF Transfer
<1>5. CASE InitRx
  <2>1. Inst \in Instances
    BY <1>5 DEF InitRx, At, SpiShape
  <2> QED  BY <1>0, <1>1, <1>5, <2>1 DEF InitRx, Allocated
<1>6. CASE InitTx
  <2>1. Inst \in Instances /\ stream[RxStream[Inst]].owner = Inst
    BY <1>6 DEF InitTx, At, SpiShape, Ownership
  <2> QED  BY <1>0, <1>1, <1>6, <2>1 DEF InitTx, Allocated, GivesUpRx
<1>7. CASE Enable \/ Waits
  BY <1>7 DEF Enable, Waits
<1>8. CASE Start
  <2>1. Inst \in Instances /\ Has(Inst)
    BY <1>8 DEF Start, At, SpiShape, Ownership
  <2>2. StartedAt(call.at) \in {TxStream[Inst], RxStream[Inst]}
    BY DEF StartedAt
  <2>3. StartedAt(call.at) \in Streams /\ stream[StartedAt(call.at)].owner # Uart
    BY <1>0, <2>1, <2>2 DEF Has
  <2> QED  BY <1>1, <1>8, <2>3 DEF Start
<1>9. ASSUME NEW i \in Instances, ShiftByte(i) \/ TakeByte(i) \/ RxComplete(i)
      PROVE  stream'[UartStream] = stream[UartStream]
  BY <1>0, <1>1, <1>9 DEF ShiftByte, TakeByte, RxComplete
<1> QED  BY <1>2, <1>3, <1>4, <1>5, <1>6, <1>7, <1>8, <1>9 DEF SpiSteps

\* What HandedInOrderOnce says of a step.
HandsOnInOrder ==
  rx_dma_active /\ ~lapped /\ ~lapped' /\ due' # due =>
    handed' = [i \in 1 .. (due' + Numbers - due) % Numbers |-> (due + i - 1) % Numbers]

\* The callback is given the bytes up to a place of the ring.
Gives(ndtr) == handed' = NewIn(ndtr) /\ due' = (due + Len(handed')) % Numbers

LEMMA HandsOn ==
  ASSUME RingInv, rx_dma_active, ~lapped, isr # "delivered", NEW m \in 0 .. Outstanding,
         NEW ndtr \in 1 .. BufSize, BufSize - ndtr = Round(NextRead + m, BufSize),
         Gives(ndtr), received' = received
  PROVE  /\ due' \in 0 .. Numbers - 1 /\ Outstanding' = Outstanding - m
         /\ \A k \in 0 .. Outstanding - m - 1 : Round(due' + k, Numbers) = Round(due + (m + k), Numbers)
         /\ HandsOnInOrder
<1>1. /\ received \in 0 .. Numbers - 1 /\ due \in 0 .. Numbers - 1
      /\ ring \in [0 .. BufSize - 1 -> 0 .. Numbers]
      /\ rx_dma_last_ndtr \in 1 .. BufSize
      /\ Outstanding \in 0 .. BufSize - 1 /\ Outstanding = Due(received, due)
      /\ NextRead = BufSize - rx_dma_last_ndtr
      /\ \A k \in 0 .. Outstanding - 1 :
           ring[Round(NextRead + k, BufSize)] = Round(due + k, Numbers)
  BY OutstandingIs DEF RingInv, Receiving, Holds, NextRead
<1>2. m \in 0 .. BufSize - 1 /\ m \in 0 .. BufSize
  BY <1>1, RingAssumed
<1>3. NewIn(ndtr) = [i \in 1 .. m |-> ring[Round(NextRead + (i - 1), BufSize)]]
  BY <1>1, <1>2, NewBytes
<1>4. ASSUME NEW i \in 1 .. m
      PROVE  /\ ring[Round(NextRead + (i - 1), BufSize)] = Round(due + (i - 1), Numbers)
             /\ (due + i - 1) % Numbers = Round(due + (i - 1), Numbers)
  <2>1. i - 1 \in 0 .. Outstanding - 1 /\ i - 1 \in 0 .. BufSize /\ due + i - 1 = due + (i - 1)
    BY <1>1, <1>2, RingAssumed
  <2> QED  BY <1>1, <2>1, NumbersRound
<1>5. NewIn(ndtr) = [i \in 1 .. m |-> (due + i - 1) % Numbers]
  BY <1>3, <1>4
<1>6. Len(NewIn(ndtr)) = m
  BY <1>2, <1>5
<1>7. due' = Round(due + m, Numbers) /\ handed' = NewIn(ndtr)
  BY <1>1, <1>2, <1>6, NumbersRound DEF Gives
<1>8. /\ due' \in 0 .. Numbers - 1
      /\ Due(received, due') = Outstanding - m
      /\ Due(due', due) = m
      /\ \A k \in 0 .. Outstanding - m - 1 : Round(due' + k, Numbers) = Round(due + (m + k), Numbers)
  <2>1. Outstanding = Round(received + Numbers - due, Numbers)
    BY <1>1 DEF Due
  <2>2. /\ due' \in 0 .. Numbers - 1
        /\ Round(received + Numbers - due', Numbers) = Outstanding - m
        /\ Round(due' + Numbers - due, Numbers) = m
        /\ \A k \in 0 .. Outstanding - m - 1 : Round(due' + k, Numbers) = Round(due + (m + k), Numbers)
    <3>1. /\ received \in 0 .. Numbers - 1 /\ due \in 0 .. Numbers - 1
          /\ Outstanding \in 0 .. BufSize - 1 /\ m \in 0 .. Outstanding
          /\ due' = Round(due + m, Numbers)
      BY <1>1, <1>7
    <3> QED  BY <2>1, <3>1, NumbersGoOn
  <2> QED  BY <2>2 DEF Due
<1>9. Outstanding' = Outstanding - m
  BY <1>1, <1>8, OutstandingIs
<1>10. (due' + Numbers - due) % Numbers = m
  BY <1>1, <1>2, <1>8, NumbersRound DEF Due
<1> QED  BY <1>5, <1>7, <1>8, <1>9, <1>10 DEF HandsOnInOrder

LEMMA TransferCompleteRing ==
  ASSUME Shapes, RingInv, TransferComplete  PROVE RingInv' /\ HandsOnInOrder
<1>1. /\ stream' = [stream EXCEPT ![UartStream] = Served(stream[UartStream])]
      /\ stream[UartStream].tcif
      /\ UNCHANGED <<rx_dma_active, ring, idle, isr, seen, quiet, received>>
  BY RingAssumed DEF TransferComplete, InterruptDue, Shapes, SoundStreams
<1>2. stream \in [Streams -> StreamState] /\ UartStream \in Streams
  BY RingAssumed DEF Shapes, SoundStreams
<1>3. CASE ~rx_dma_active
  BY <1>1, <1>3 DEF TransferComplete, RingInv, HandsOnInOrder
<1>4. CASE rx_dma_active
  <2>1. Receiving /\ isr = "none" /\ Ndtr \in 1 .. BufSize
    BY <1>1, <1>4 DEF RingInv, Receiving, Seen, Ndtr, UartShape
  <2>2. /\ handed' = NewIn(Ndtr) /\ rx_dma_last_ndtr' = Ndtr /\ lapped' = FALSE
        /\ lapped => due' = due
        /\ ~lapped => due' = (due + Len(handed')) % Numbers
    BY <1>4 DEF TransferComplete, LastAfterTc
  <2>3. due' \in 0 .. Numbers - 1 /\ Outstanding' = 0 /\ HandsOnInOrder
    <3>1. CASE lapped
      <4>1. due' = received' /\ due' \in 0 .. Numbers - 1 /\ received' \in 0 .. Numbers - 1
        BY <1>1, <2>1, <2>2, <3>1 DEF Receiving, Skips, RingInv
      <4>2. Outstanding' = Due(received', due')
        BY <4>1, OutstandingIs
      <4> DEFINE n == received'
      <4>3. n \in 0 .. Numbers - 1 /\ Numbers \in Nat /\ Outstanding' = Due(n, n)
        BY <4>1, <4>2, RingAssumed
      <4> HIDE DEF n
      <4>4. ~(n + Numbers - n < Numbers) /\ n + Numbers - n - Numbers = 0
        BY <4>3
      <4>5. Outstanding' = 0
        BY <4>3, <4>4 DEF Due, Round
      <4> QED  BY <3>1, <4>1, <4>5 DEF HandsOnInOrder
    <3>2. CASE ~lapped
      <4>1. /\ Outstanding \in 0 .. BufSize - 1 /\ Outstanding \in 0 .. Outstanding
            /\ BufSize - Ndtr = Round(NextRead + Outstanding, BufSize)
        BY <2>1, <3>2, RingAssumed DEF Receiving, Holds, NextWrite
      <4>2. due' \in 0 .. Numbers - 1 /\ Outstanding' = Outstanding - Outstanding /\ HandsOnInOrder
        BY <1>1, <1>4, <2>1, <2>2, <3>2, <4>1, HandsOn DEF Gives
      <4> QED  BY <4>1, <4>2, RingAssumed
    <3> QED  BY <3>1, <3>2
  <2>4. /\ Ndtr' = Ndtr /\ NextWrite' = NextWrite /\ NextRead' = NextWrite
        /\ stream'[UartStream] = Served(stream[UartStream])
    BY <1>1, <1>2, <2>1, <2>2 DEF Ndtr, NextWrite, NextRead, Served, StreamState
  <2>5. NextWrite \in 0 .. BufSize - 1 /\ NextWrite + 0 = NextWrite
    BY <2>1, RingAssumed DEF NextWrite
  <2>6. Holds'
    BY <2>3, <2>4, <2>5, RingAssumed DEF Holds, Round
  <2>7. Seen'
    BY <1>1, <2>1, <2>2, <2>3 DEF Seen
  <2>8. Receiving'
    BY <1>1, <1>2, <2>1, <2>2, <2>4, <2>6, <2>7 DEF Receiving, Served, StreamState, Ndtr
  <2> QED  BY <1>1, <1>4, <2>1, <2>3, <2>8 DEF RingInv
<1> QED  BY <1>3, <1>4 DEF Shapes, UartShape

LEMMA IdleReadsRing ==
  ASSUME Shapes, RingInv, IdleReads  PROVE RingInv' /\ HandsOnInOrder
<1>1. /\ UNCHANGED <<stream, rx_dma_active, rx_dma_last_ndtr, ring, quiet, lapped, received, due>>
      /\ isr = "none" /\ ~InterruptDue(stream[UartStream]) /\ idle' = FALSE
  BY DEF IdleReads
<1>2. HandsOnInOrder
  BY <1>1 DEF HandsOnInOrder
<1>3. CASE ~rx_dma_active
  BY <1>1, <1>2, <1>3 DEF IdleReads, IdleBegins, RingInv
<1>4. CASE rx_dma_active
  <2>1. isr' = "read" /\ seen' = Ndtr
    BY <1>4 DEF IdleReads, IdleBegins
  <2>2. Receiving /\ ~stream[UartStream].tcif /\ ~lapped /\ Ndtr \in 1 .. BufSize
    BY <1>1, <1>4 DEF RingInv, Receiving, Skips, InterruptDue, Ndtr
  <2>3. /\ Outstanding' = Outstanding /\ NextRead' = NextRead /\ Ndtr' = Ndtr /\ NextWrite' = NextWrite
    BY <1>1, <2>1 DEF Outstanding, NextRead, NextWrite, Ndtr
  <2>4. Holds'
    BY <1>1, <2>2, <2>3 DEF Receiving, Holds
  <2>5. Seen'
    <3>1. Outstanding \in 0 .. Outstanding /\ BufSize - Ndtr = Round(NextRead + Outstanding, BufSize)
      BY <2>2, RingAssumed DEF Receiving, Holds, NextWrite
    <3> QED  BY <1>1, <2>1, <2>2, <2>3, <3>1 DEF Seen
  <2> QED  BY <1>1, <1>2, <1>4, <2>2, <2>4, <2>5 DEF RingInv, Receiving
<1> QED  BY <1>3, <1>4 DEF Shapes, UartShape

LEMMA IdleDeliversRing ==
  ASSUME Shapes, RingInv, IdleDelivers  PROVE RingInv' /\ HandsOnInOrder
<1>1. /\ isr = "read" /\ isr' = "delivered" /\ handed' = NewIn(seen)
      /\ due' = (due + Len(handed')) % Numbers
      /\ UNCHANGED <<stream, rx_dma_active, rx_dma_last_ndtr, ring, idle, seen, quiet, lapped, received>>
  BY DEF IdleDelivers
<1>2. rx_dma_active /\ Receiving /\ seen \in 1 .. BufSize /\ ~stream[UartStream].tcif /\ ~lapped
  BY <1>1 DEF RingInv, Receiving, Seen, Skips
<1>3. PICK m \in 0 .. Outstanding : BufSize - seen = Round(NextRead + m, BufSize)
  BY <1>1, <1>2 DEF Receiving, Seen
<1>4. /\ due' \in 0 .. Numbers - 1 /\ Outstanding' = Outstanding - m /\ HandsOnInOrder
      /\ \A k \in 0 .. Outstanding - m - 1 : Round(due' + k, Numbers) = Round(due + (m + k), Numbers)
  BY <1>1, <1>2, <1>3, HandsOn DEF Gives
<1>5. /\ Outstanding \in 0 .. BufSize - 1 /\ NextRead \in 0 .. BufSize - 1 /\ m \in 0 .. BufSize - 1
      /\ Outstanding - m \in 0 .. BufSize - 1 - m
  <2>1. Outstanding \in 0 .. BufSize - 1 /\ rx_dma_last_ndtr \in 1 .. BufSize
    BY <1>2 DEF Receiving, Holds
  <2>2. NextRead \in 0 .. BufSize - 1
    BY <1>1, <2>1, RingAssumed DEF NextRead
  <2> QED  BY <1>3, <2>1, <2>2, RingAssumed
<1>6. NextWrite' = NextWrite /\ Ndtr' = Ndtr /\ NextRead' = Round(NextRead + m, BufSize)
  BY <1>1, <1>3 DEF NextWrite, Ndtr, NextRead
<1>7. Holds'
  <2>1. NextWrite = Round(NextRead + Outstanding, BufSize) /\ m + (Outstanding - m) = Outstanding
    BY <1>2, <1>5, RingAssumed DEF Receiving, Holds
  <2>2. Round(NextRead' + (Outstanding - m), BufSize) = Round(NextRead + (m + (Outstanding - m)), BufSize)
    BY <1>5, <1>6, Places
  <2>3. ASSUME NEW k \in 0 .. Outstanding - m - 1
        PROVE  ring[Round(NextRead' + k, BufSize)] = Round(due' + k, Numbers)
    <3>1. m + k \in 0 .. Outstanding - 1 /\ k \in 0 .. BufSize - 1 - m
      BY <1>5, RingAssumed
    <3>2. Round(NextRead' + k, BufSize) = Round(NextRead + (m + k), BufSize)
      BY <1>5, <1>6, <3>1, Places
    <3> QED  BY <1>2, <1>4, <3>1, <3>2 DEF Receiving, Holds
  <2>4. Outstanding - m \in 0 .. BufSize - 1
    BY <1>5, RingAssumed
  <2>5. NextWrite' = NextRead' + (Outstanding - m)
    <3>1. NextWrite = NextRead + Outstanding /\ NextWrite \in 0 .. BufSize - 1
      BY <1>2, RingAssumed DEF Receiving, Holds, NextWrite, Ndtr
    <3>2. Round(NextRead + m, BufSize) = NextRead + m
      BY <1>3, <1>5, <3>1, RingAssumed DEF Round
    <3> QED  BY <1>3, <1>5, <1>6, <3>1, <3>2, RingAssumed
  <2> QED  BY <1>1, <1>4, <1>6, <2>1, <2>2, <2>3, <2>4, <2>5 DEF Holds
<1>8. Seen'
  <2>1. ASSUME quiet, ~idle  PROVE Outstanding' = 0
    <3>1. Round(NextRead + m, BufSize) = Round(NextRead + Outstanding, BufSize)
      BY <1>1, <1>2, <1>3, <2>1 DEF Receiving, Seen, Holds, NextWrite
    <3>2. m = Outstanding
      BY <1>5, <3>1, Places
    <3> QED  BY <1>4, <1>5, <3>2, RingAssumed
  <2> QED  BY <1>1, <1>2, <2>1 DEF Receiving, Seen
<1> QED  BY <1>1, <1>2, <1>4, <1>7, <1>8 DEF RingInv, Receiving

LEMMA IdleEndsRing ==
  ASSUME Shapes, RingInv, IdleEnds  PROVE RingInv' /\ HandsOnInOrder
<1>1. /\ isr = "delivered" /\ isr' = "none" /\ rx_dma_last_ndtr' = seen
      /\ UNCHANGED <<stream, rx_dma_active, ring, idle, quiet, lapped, received, due>>
  BY DEF IdleEnds
<1>2. rx_dma_active /\ Receiving /\ seen \in 1 .. BufSize /\ ~lapped
  BY <1>1 DEF RingInv, Receiving, Seen, Skips
<1>3. Outstanding' = Outstanding /\ NextRead' = NextRead /\ Ndtr' = Ndtr /\ NextWrite' = NextWrite
  BY <1>1 DEF Outstanding, NextRead, NextWrite, Ndtr
<1>4. Holds'
  BY <1>1, <1>2, <1>3 DEF Receiving, Holds
<1>5. Seen'
  BY <1>1, <1>2, <1>3 DEF Receiving, Seen
<1> QED  BY <1>1, <1>2, <1>4, <1>5 DEF RingInv, Receiving, HandsOnInOrder

LEMMA LineIdleRing ==
  ASSUME Shapes, RingInv, LineIdle  PROVE RingInv' /\ HandsOnInOrder
<1>1. /\ idle' = TRUE
      /\ UNCHANGED <<stream, rx_dma_active, rx_dma_last_ndtr, ring, isr, seen, lapped, received, due>>
  BY DEF LineIdle
<1>2. Outstanding' = Outstanding /\ NextRead' = NextRead /\ Ndtr' = Ndtr /\ NextWrite' = NextWrite
  BY <1>1 DEF Outstanding, NextRead, NextWrite, Ndtr
<1>3. ASSUME rx_dma_active  PROVE Receiving'
  <2>1. Receiving
    BY <1>3 DEF RingInv
  <2>2. /\ ~lapped => Holds'
        /\ lapped => Skips'
        /\ Seen'
    BY <1>1, <1>2, <2>1 DEF Receiving, Holds, Seen, Skips
  <2> QED  BY <1>1, <2>1, <2>2 DEF Receiving
<1> QED  BY <1>1, <1>3 DEF RingInv, HandsOnInOrder

\* What a byte that arrives makes of the UART's stream.
LEMMA ByteMoves ==
  ASSUME Shapes, RingInv, ByteArrives
  PROVE  /\ stream'[UartStream].circular /\ stream'[UartStream].en /\ stream'[UartStream].irq
         /\ Ndtr \in 1 .. BufSize
         /\ Ndtr' = IF Ndtr = 1 THEN BufSize ELSE Ndtr - 1
         /\ stream'[UartStream].tcif <=> stream[UartStream].tcif \/ Ndtr = 1
<1> DEFINE st == stream[UartStream]
<1>1. /\ Receiving /\ st.count = BufSize /\ st \in StreamState /\ UartStream \in Streams
      /\ stream \in [Streams -> StreamState] /\ Ndtr = st.ndtr
  BY RingAssumed DEF ByteArrives, RingInv, Shapes, SoundStreams, UartsStream, Ndtr
<1>2. stream' = [stream EXCEPT ![UartStream] = Moved(st)]
  BY RingAssumed DEF ByteArrives, Shapes, SoundStreams
<1>3. stream'[UartStream] = Moved(st)
  BY <1>1, <1>2
<1>4. /\ st.circular /\ st.irq /\ st.ndtr \in 1 .. BufSize /\ st.ndtr \in Int
  BY <1>1, RingAssumed DEF Receiving
<1>5. st.ndtr - 1 = 0 <=> st.ndtr = 1
  BY <1>4
<1>6. st.ndtr - 1 > 0 \/ st.ndtr - 1 = 0
  BY <1>4, RingAssumed
<1> QED  BY <1>1, <1>3, <1>4, <1>5, <1>6 DEF Moved, Ndtr, StreamState

\* A byte that leaves room in the ring.
LEMMA ByteHasRoom ==
  ASSUME Shapes, RingInv, ByteArrives, ~WrapsInside, ~lapped, ~lapped'  PROVE RingInv'
<1> DEFINE st == stream[UartStream]
           o == Outstanding
<1>1. /\ rx_dma_active /\ (isr # "none" => Ndtr # 1)
      /\ ring' = [ring EXCEPT ![NextWrite] = received]
      /\ received' = (received + 1) % Numbers
      /\ stream' = [stream EXCEPT ![UartStream] = Moved(st)]
      /\ quiet' = FALSE /\ due' = due /\ ~(o + 1 >= BufSize)
      /\ UNCHANGED <<rx_dma_active, rx_dma_last_ndtr, idle, isr, seen>>
  BY RingAssumed DEF ByteArrives, NextWrite, Shapes, SoundStreams
<1>2. /\ Receiving /\ Holds /\ st.count = BufSize /\ st \in StreamState /\ UartStream \in Streams
      /\ received \in 0 .. Numbers - 1 /\ due \in 0 .. Numbers - 1
      /\ ring \in [0 .. BufSize - 1 -> 0 .. Numbers]
      /\ stream \in [Streams -> StreamState] /\ Ndtr = st.ndtr
  BY <1>1, RingAssumed DEF RingInv, Receiving, Shapes, SoundStreams, UartsStream, Ndtr
<1>3. /\ o \in 0 .. BufSize - 1 /\ o + 1 \in 0 .. BufSize - 1
      /\ NextRead \in 0 .. BufSize - 1 /\ NextWrite \in 0 .. BufSize - 1 /\ Ndtr \in 1 .. BufSize
      /\ NextWrite = Round(NextRead + o, BufSize) /\ o = Due(received, due)
  <2>1. NextRead \in 0 .. BufSize - 1
    BY <1>2, RingAssumed DEF Receiving, Seen, NextRead, Shapes, UartShape
  <2>2. o = Due(received, due) /\ o \in 0 .. BufSize - 1 /\ NextWrite = Round(NextRead + o, BufSize)
    BY <1>2, OutstandingIs DEF Receiving, Holds
  <2>3. o + 1 \in 0 .. BufSize - 1
    BY <1>1, <2>2, RingAssumed
  <2>4. Ndtr \in 1 .. BufSize
    BY <1>2 DEF Receiving
  <2>5. NextWrite \in 0 .. BufSize - 1
    BY <2>4, RingAssumed DEF NextWrite
  <2> QED  BY <2>1, <2>2, <2>3, <2>4, <2>5
<1>4. /\ stream'[UartStream].circular /\ stream'[UartStream].en /\ stream'[UartStream].irq
      /\ Ndtr' = IF Ndtr = 1 THEN BufSize ELSE Ndtr - 1
      /\ stream'[UartStream].tcif <=> st.tcif \/ Ndtr = 1
  BY ByteMoves
<1>5. /\ received' = Round(received + 1, Numbers) /\ received' \in 0 .. Numbers - 1
      /\ Due(received', due) = o + 1 /\ Round(due + o, Numbers) = received
  <2>1. (received + 1) % Numbers = Round(received + 1, Numbers)
    <3>1. 1 \in 0 .. BufSize /\ 0 \in 0 .. Numbers - 1
      BY RingAssumed
    <3> QED  BY <1>2, <3>1, NumbersRound
  <2> QED  BY <1>1, <1>2, <1>3, <2>1, NumbersArrive DEF Due
<1>6. Outstanding' = o + 1 /\ NextRead' = NextRead
  BY <1>1, <1>2, <1>5, OutstandingIs DEF NextRead
<1>7. NextWrite' = Round(NextRead + (o + 1), BufSize)
  <2>1. NextWrite' = Round(NextWrite + 1, BufSize)
    BY <1>3, <1>4, RingAssumed DEF NextWrite, Round
  <2>2. 1 \in 0 .. BufSize - 1 - o
    BY <1>3, RingAssumed
  <2> QED  BY <1>3, <2>1, <2>2, Places
<1>8. Holds'
  <2>1. ASSUME NEW k \in 0 .. o
        PROVE  ring'[Round(NextRead + k, BufSize)] = Round(due + k, Numbers)
    <3>1. CASE k = o
      BY <1>1, <1>2, <1>3, <1>5, <3>1
    <3>2. CASE k # o
      <4>1. k \in 0 .. o - 1 /\ k \in 0 .. BufSize - 1
        BY <1>3, <3>2, RingAssumed
      <4>2. Round(NextRead + k, BufSize) # NextWrite /\ Round(NextRead + k, BufSize) \in 0 .. BufSize - 1
        BY <1>3, <3>2, <4>1, Places
      <4> QED  BY <1>1, <1>2, <4>1, <4>2 DEF Receiving, Holds
    <3> QED  BY <3>1, <3>2
  <2>2. \A k \in 0 .. (o + 1) - 1 : k \in 0 .. o
    BY <1>3, RingAssumed
  <2>3. ~stream'[UartStream].tcif => NextWrite' = NextRead + (o + 1)
    <3>1. SUFFICES ASSUME ~st.tcif, Ndtr # 1  PROVE NextWrite' = NextRead + (o + 1)
      BY <1>4
    <3>2. NextWrite = NextRead + o /\ Ndtr' = Ndtr - 1
      BY <1>2, <1>4, <3>1 DEF Holds
    <3> QED  BY <1>3, <3>2, RingAssumed DEF NextWrite
  <2> HIDE DEF o
  <2> QED  BY <1>1, <1>3, <1>6, <1>7, <2>1, <2>2, <2>3 DEF Holds
<1>9. Seen'
  <2>1. isr # "none" => seen \in 1 .. BufSize /\ ~stream'[UartStream].tcif
    BY <1>1, <1>2, <1>4 DEF Receiving, Seen
  <2>2. isr = "read" => \E m \in 0 .. Outstanding' : BufSize - seen = Round(NextRead + m, BufSize)
    <3>1. \A m \in 0 .. o : m \in 0 .. o + 1
      BY <1>3, RingAssumed
    <3> QED  BY <1>2, <1>6, <3>1 DEF Receiving, Seen
  <2> QED  BY <1>1, <1>6, <2>1, <2>2 DEF Seen
<1>10. Receiving'
  <2>1. Ndtr' \in 1 .. BufSize
    BY <1>3, <1>4, RingAssumed
  <2> QED  BY <1>1, <1>2, <1>4, <1>8, <1>9, <2>1 DEF Receiving, Ndtr
<1>11. ring' \in [0 .. BufSize - 1 -> 0 .. Numbers]
  <2>1. received \in 0 .. Numbers
    BY <1>2, RingAssumed
  <2> QED  BY <1>1, <1>2, <1>3, <2>1
<1> QED  BY <1>1, <1>2, <1>5, <1>10, <1>11 DEF RingInv

\* A byte that fills the ring, or arrives in a full one.
LEMMA ByteFills ==
  ASSUME Shapes, RingInv, ByteArrives, ~WrapsInside, lapped'  PROVE RingInv'
<1>1. /\ rx_dma_active /\ (isr # "none" => Ndtr # 1)
      /\ ring' = [ring EXCEPT ![NextWrite] = received]
      /\ received' = (received + 1) % Numbers
      /\ quiet' = FALSE /\ due' = received' /\ (lapped \/ Outstanding + 1 >= BufSize)
      /\ UNCHANGED <<rx_dma_active, rx_dma_last_ndtr, idle, isr, seen>>
  BY DEF ByteArrives, NextWrite
<1>2. /\ Receiving /\ received \in 0 .. Numbers - 1 /\ ring \in [0 .. BufSize - 1 -> 0 .. Numbers]
      /\ rx_dma_last_ndtr \in 1 .. BufSize
  BY <1>1 DEF RingInv, Receiving
<1>3. stream[UartStream].tcif \/ Ndtr = 1
  <2> SUFFICES ASSUME ~stream[UartStream].tcif  PROVE Ndtr = 1
    OBVIOUS
  <2>1. ~lapped
    BY <1>2 DEF Receiving, Skips
  <2>2. /\ Outstanding \in 0 .. BufSize - 1 /\ NextWrite = NextRead + Outstanding
        /\ Outstanding + 1 >= BufSize
    BY <1>1, <1>2, <2>1 DEF Receiving, Holds
  <2>3. NextRead \in 0 .. BufSize - 1
    BY <1>2, RingAssumed DEF Receiving, Seen, NextRead
  <2>4. Ndtr \in 1 .. BufSize
    BY ByteMoves
  <2> QED  BY <2>2, <2>3, <2>4, RingAssumed DEF NextWrite
<1>4. isr = "none"
  BY <1>1, <1>2, <1>3 DEF Receiving, Seen
<1>5. received' \in 0 .. Numbers - 1 /\ ring' \in [0 .. BufSize - 1 -> 0 .. Numbers]
  <2>1. received \in Nat /\ received \in 0 .. Numbers /\ Numbers \in Nat /\ Numbers > 0
    BY <1>2, RingAssumed
  <2>2. received' \in 0 .. Numbers - 1
    BY <1>1, <2>1
  <2> QED  BY <1>1, <1>2, <2>1, <2>2
<1>6. Skips'
  BY <1>1, <1>3, ByteMoves DEF Skips
<1>7. Seen'
  BY <1>1, <1>4 DEF Seen
<1>8. Ndtr' \in 1 .. BufSize
  BY ByteMoves, RingAssumed
<1>9. Receiving'
  BY <1>1, <1>2, <1>6, <1>7, <1>8, ByteMoves DEF Receiving, Ndtr
<1> QED  BY <1>1, <1>4, <1>5, <1>9 DEF RingInv

LEMMA ByteArrivesRing ==
  ASSUME Shapes, RingInv, ByteArrives, ~WrapsInside  PROVE RingInv' /\ HandsOnInOrder
<1>1. ~lapped' => ~lapped /\ due' = due
  BY DEF ByteArrives
<1>2. HandsOnInOrder
  BY <1>1 DEF HandsOnInOrder
<1>3. RingInv'
  BY <1>1, ByteHasRoom, ByteFills
<1> QED  BY <1>2, <1>3

LEMMA UartCallsRing ==
  ASSUME Shapes, RingInv, UartCall  PROVE RingInv' /\ HandsOnInOrder
<1>1. CASE isr = "none" /\ uart_start_rx_dma
  <2>1. /\ ~rx_dma_active /\ rx_dma_last_ndtr' = BufSize
        /\ stream' = [stream EXCEPT ![UartStream] =
                        Started(Configured(stream[UartStream], Uart, TRUE, TRUE), BufSize)]
        /\ received' = 0 /\ due' = 0 /\ ring' = OldRing /\ isr' = "none" /\ lapped' = FALSE
    BY <1>1, RingAssumed DEF uart_start_rx_dma, Shapes, SoundStreams
  <2>2. /\ stream'[UartStream].circular /\ stream'[UartStream].en /\ stream'[UartStream].irq
        /\ stream'[UartStream].ndtr = BufSize
    <3>1. stream[UartStream] \in StreamState /\ UartStream \in Streams
          /\ stream \in [Streams -> StreamState]
      BY RingAssumed DEF Shapes, SoundStreams
    <3> QED  BY <2>1, <3>1 DEF Started, Configured, StreamState
  <2>3. Outstanding' = 0 /\ NextRead' = 0 /\ NextWrite' = 0
    <3>1. 0 \in 0 .. Numbers - 1 /\ Round(0 + Numbers - 0, Numbers) = 0 /\ BufSize - BufSize = 0
      BY RingAssumed DEF Round
    <3>2. Outstanding' = Due(0, 0)
      BY <2>1, <3>1, OutstandingIs
    <3>3. NextRead' = 0
      BY <2>1, <3>1 DEF NextRead
    <3>4. NextWrite' = 0
      BY <2>2, <3>1 DEF NextWrite, Ndtr
    <3> QED  BY <3>1, <3>2, <3>3, <3>4 DEF Due
  <2>4. Holds' /\ Seen'
    BY <2>1, <2>3, RingAssumed DEF Holds, Seen, Round
  <2>5. Receiving'
    <3>1. BufSize \in 1 .. BufSize
      BY RingAssumed
    <3> QED  BY <2>1, <2>2, <2>4, <3>1 DEF Receiving
  <2> QED  BY <2>1, <2>5, RingAssumed DEF RingInv, OldRing, HandsOnInOrder
<1>2. CASE isr = "none" /\ uart_stop_rx_dma
  BY <1>2 DEF uart_stop_rx_dma, RingInv, HandsOnInOrder
<1> QED  BY <1>1, <1>2 DEF UartCall

LEMMA RingStep ==
  ASSUME ~WrapsInside, Shapes, Ownership, RingInv, [Next]_vars  PROVE RingInv' /\ HandsOnInOrder
<1>1. CASE UNCHANGED vars
  BY <1>1, RingKept DEF vars, uartVars, HandsOnInOrder
<1>2. CASE SpiStep
  <2>1. SpiSteps /\ UNCHANGED uartVars
    BY <1>2 DEF SpiStep, SpiSteps, SpiCall, SpiHardware
  <2>2. rx_dma_active => stream'[UartStream] = stream[UartStream]
    BY <2>1, SpiLeavesUart DEF Shapes, UartsStream
  <2> QED  BY <2>1, <2>2, RingKept DEF uartVars, HandsOnInOrder
<1>3. CASE UartStep
  BY <1>3, UartCallsRing, TransferCompleteRing, IdleReadsRing, IdleDeliversRing, IdleEndsRing,
     ByteArrivesRing, LineIdleRing DEF UartStep, UartInterrupt, UartHardware
<1> QED  BY <1>1, <1>2, <1>3 DEF Next

\* Once the line is idle and its interrupt is over, the callback has been given
\* every byte but those of a ring that was full, and reads on where the stream
\* writes, for every length of the ring (IdleLeavesNothing).
THEOREM NothingIsLeft == ~WrapsInside => (Spec => []IdleLeavesNothing)
<1> SUFFICES ASSUME ~WrapsInside  PROVE Spec => []IdleLeavesNothing
  OBVIOUS
<1>1. Init => Shapes /\ Ownership /\ RingInv
  BY ShapesInit, OwnershipInit, RingInit
<1>2. Shapes /\ Ownership /\ RingInv /\ [Next]_vars => (Shapes /\ Ownership /\ RingInv)'
  BY OwnershipStep, RingStep
<1>3. RingInv => IdleLeavesNothing
  <2> SUFFICES ASSUME RingInv, rx_dma_active, quiet, ~idle, isr = "none"
               PROVE  ~lapped /\ received = due /\ rx_dma_last_ndtr = Ndtr
    BY DEF IdleLeavesNothing
  <2>1. /\ ~lapped /\ Outstanding = 0 /\ Due(received, due) = 0 /\ Holds
        /\ received \in 0 .. Numbers - 1 /\ due \in 0 .. Numbers - 1
        /\ Ndtr \in 1 .. BufSize /\ rx_dma_last_ndtr \in 1 .. BufSize
    BY OutstandingIs DEF RingInv, Receiving, Seen, Ndtr
  <2>2. received = due
    BY <2>1, RingAssumed DEF Due, Round
  <2>3. BufSize - Ndtr = BufSize - rx_dma_last_ndtr
    BY <2>1, RingAssumed DEF Holds, NextWrite, NextRead, Round
  <2> QED  BY <2>1, <2>2, <2>3, RingAssumed
<1> QED  BY <1>1, <1>2, <1>3, PTL DEF Spec

\* The callback gets every byte once and in order, as long as the ring does not
\* wrap inside the idle interrupt, unless the ring was full of bytes not handed
\* on (HandedInOrderOnce).
THEOREM BytesInOrderOnce == ~WrapsInside => (Spec => HandedInOrderOnce)
<1> SUFFICES ASSUME ~WrapsInside  PROVE Spec => HandedInOrderOnce
  OBVIOUS
<1>1. Init => Shapes /\ Ownership /\ RingInv
  BY ShapesInit, OwnershipInit, RingInit
<1>2. Shapes /\ Ownership /\ RingInv /\ [Next]_vars => (Shapes /\ Ownership /\ RingInv)'
  BY OwnershipStep, RingStep
<1>3. Shapes /\ Ownership /\ RingInv /\ [Next]_vars =>
        [HandsOnInOrder]_<<rx_dma_active, lapped, due, handed>>
  BY RingStep
<1> QED  BY <1>1, <1>2, <1>3, PTL DEF Spec, HandedInOrderOnce, HandsOnInOrder

=============================================================================
