----------------------------- MODULE MCDrivers -----------------------------
(***************************************************************************)
(* Drivers for TLC: SPI1, SPI3 and SPI4 with the board's streams.  SPI1    *)
(* and SPI4 share the RX stream, SPI3 transmits by the one USART2 uses.    *)
(***************************************************************************)
EXTENDS Drivers

MCStreams == {"2_3", "2_0", "1_5", "1_0", "2_1"}
MCInstances == {"SPI1", "SPI3", "SPI4"}
MCClients == MCInstances \cup {"USART2"}
MCTx == [i \in MCInstances |-> CASE i = "SPI1" -> "2_3" [] i = "SPI3" -> "1_5" [] i = "SPI4" -> "2_1"]
MCRx == [i \in MCInstances |-> IF i = "SPI3" THEN "1_0" ELSE "2_0"]
=============================================================================
