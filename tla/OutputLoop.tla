----------------------------- MODULE OutputLoop -----------------------------
(***************************************************************************)
(* Buffered output as the console's main loop drives it (cli_simple.c main, *)
(* enter_sleep_mode): handlers print, the loop offers the text to the DMA  *)
(* stream and sleeps until an interrupt.                                   *)
(***************************************************************************)
EXTENDS PrintfDma

VARIABLE pc      (* "run": handlers print; "flushing": inside printf_dma_flush *)

vars == <<outputVars, pc>>

Init == OutputInit /\ pc = "run"

At(here, there) == pc = here /\ pc' = there

\* A handler or the prompt.
PutChar == At("run", "run") /\ \E c \in Chars \cup {LF} : putchar(c)
Prompt == At("run", "run") /\ printf_dma_mark_pending
Flush == At("run", "flushing") /\ FlushStart
Flushed == At("flushing", "run") /\ ~tx_busy /\ UNCHANGED outputVars

\* The end of a round: process, then the check for a line, then WFI.
Process == At("run", "check") /\ printf_dma_process
Again == At("check", "run") /\ UNCHANGED outputVars
Idle == At("check", "wfi") /\ UNCHANGED outputVars
Sleep == At("wfi", "asleep") /\ UNCHANGED outputVars

Transmit == TransmitItem /\ UNCHANGED pc

\* uart_tx_dma_tc_callback's interrupt ends a WFI when it comes during one.
TxInterrupt == TxComplete /\ pc' = IF pc = "asleep" THEN "run" ELSE pc

\* SysTick_Handler, every millisecond.
Tick == At("asleep", "run") /\ UNCHANGED outputVars

Prints == PutChar \/ Prompt
MainStep == Flush \/ Flushed \/ Process \/ Again \/ Idle \/ Sleep

Next == Prints \/ MainStep \/ Transmit \/ TxInterrupt \/ Tick

Spec == Init /\ [][Next]_vars

\* The main loop gets to printf_dma_process again and again (a handler prints
\* something finite), the stream goes on, its interrupt is taken, SysTick ticks.
FairSpec ==
  /\ Spec
  /\ SF_vars(Process) /\ WF_vars(Flushed \/ Idle \/ Sleep)
  /\ WF_vars(Transmit) /\ WF_vars(TxInterrupt) /\ WF_vars(Tick)

-----------------------------------------------------------------------------
(* Properties.                                                             *)

\* Text whose transmission was requested is handed to the stream, whole, also when the
\* stream finishes between printf_dma_process and the WFI, where its interrupt
\* wakes nobody (cli_simple.c:112-129, printf_dma.c:35-39).
PendingIsSent == pending_tx ~> index[active] = 0
=============================================================================
