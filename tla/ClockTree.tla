----------------------------- MODULE ClockTree -----------------------------
(***************************************************************************)
(* The clock tree (drivers/src/rcc.c): rcc_init step by step over the RCC  *)
(* and FLASH registers, the frequencies it caches, and what is derived     *)
(* from them: UART divisor and SysTick reload.  Around it the program's    *)
(* life: reset, the jump from the bootloader into the app (memory cleared, *)
(* clocks kept), Stop mode and the way back (cmd_stop_mode).  Frequencies  *)
(* are in Hz.                                                              *)
(***************************************************************************)
EXTENDS Naturals

CONSTANTS
  Requests,                (* what rcc_init is called with: [source, target] *)
  Baud

ASSUME RequestsAssumption == Requests \subseteq [source : {"HSI", "HSE"}, target : Nat]

VARIABLES
  pllon, pllrdy, pll,      (* RCC_CR, and RCC_PLLCFGR as [src, m, n, p] *)
  sws,                     (* the system clock: "HSI" or "PLL" *)
  ws,                      (* FLASH_ACR: wait states *)
  ppre1, ppre2,            (* the APB dividers *)
  cached,                  (* s_sysclk and the others *)
  brr, load,               (* USART2 BRR, SysTick LOAD *)
  pc, req,                 (* where rcc_init or its caller is, and its arguments *)
  caller,                  (* where rcc_init returns to *)
  misled                   (* history: the cache was filled with a frequency nobody
                              compared with the hardware, or outlived its clock *)

hardware == <<pllon, pllrdy, pll, sws, ws, ppre1, ppre2>>
derived == <<brr, load>>
vars == <<hardware, cached, derived, pc, req, caller, misled>>

HSI_FREQ_HZ == 16000000
HSE_FREQ_HZ == 8000000
VCO_INPUT_TARGET == 2000000
VCO_OUTPUT_MIN == 100000000
VCO_OUTPUT_MAX == 432000000
SYSCLK_MAX == 100000000
APB1_MAX == 50000000
APB2_MAX == 100000000

SourceFreq(src) == IF src = "HSE" THEN HSE_FREQ_HZ ELSE HSI_FREQ_HZ

-----------------------------------------------------------------------------
(* Calculations.                                                           *)

flash_max_freq == [s \in 0 .. 3 |-> CASE s = 0 -> 30000000 [] s = 1 -> 64000000
                                      [] s = 2 -> 90000000 [] s = 3 -> 100000000]

\* Mutant: one wait state less than a frequency in the table needs.
TooFewStates(hclk) ==
  IF hclk > flash_max_freq[2] THEN 2
  ELSE CHOOSE s \in 0 .. 3 : hclk <= flash_max_freq[s] /\ \A t \in 0 .. s - 1 : hclk > flash_max_freq[t]

\* Mutant: counts from one.
OneStateOn(hclk) ==
  IF hclk > flash_max_freq[3] THEN 3
  ELSE 1 + CHOOSE s \in 0 .. 3 : hclk <= flash_max_freq[s] /\ \A t \in 0 .. s - 1 : hclk > flash_max_freq[t]

rcc_compute_flash_latency(hclk) ==
  IF hclk > flash_max_freq[3] THEN 3
  ELSE CHOOSE s \in 0 .. 3 : hclk <= flash_max_freq[s] /\ \A t \in 0 .. s - 1 : hclk > flash_max_freq[t]

\* compute_apb_prescaler: the least divider, or 16.
Divider(hclk, max) ==
  LET good == {d \in {1, 2, 4, 8, 16} : hclk \div d <= max}
  IN  IF good = {} THEN 16 ELSE CHOOSE d \in good : \A e \in good : d <= e

\* rcc_compute_pll_config: the values of PLLP that work, of which it takes the least.
PllM(src) == SourceFreq(src) \div VCO_INPUT_TARGET
VcoIn(src) == SourceFreq(src) \div PllM(src)
PllP(src, target) ==
  {p \in {2, 4, 6, 8} :
     LET n == (target * p) \div VcoIn(src)
     IN  /\ target * p \in VCO_OUTPUT_MIN .. VCO_OUTPUT_MAX
         /\ n * VcoIn(src) = target * p
         /\ n \in 50 .. 432}
Factors(src, target) ==
  LET p == CHOOSE x \in PllP(src, target) : \A y \in PllP(src, target) : x <= y
  IN  [src |-> src, m |-> PllM(src), n |-> (target * p) \div VcoIn(src), p |-> p]

\* clk / baud to the nearest, and what uint16_t keeps of it.
Divisor(clk, baud) == (clk + baud \div 2) \div baud
uart_compute_baud_divisor(clk, baud) == Divisor(clk, baud) % 65536

\* At a lower rate the divisor of the fastest bus would not fit into BRR.
ASSUME BaudAssumption == Baud \in Nat /\ Baud > APB1_MAX \div 65535

\* sysclk / 1000 - 1, in the 24 bits of SysTick LOAD.
SystickReload(sysclk) == (sysclk \div 1000 + 16777215) % 16777216

\* What the getters return when the buses are divided like this.
Clocks(sysclk, div1, div2) ==
  [sysclk |-> sysclk, ahb |-> sysclk, apb1 |-> sysclk \div div1, apb2 |-> sysclk \div div2,
   apb1_timer |-> (sysclk \div div1) * (IF div1 = 1 THEN 1 ELSE 2)]

\* What the hardware makes of its registers.
PllHz == ((SourceFreq(pll.src) \div pll.m) * pll.n) \div pll.p
Sysclk == IF sws = "PLL" THEN PllHz ELSE HSI_FREQ_HZ

-----------------------------------------------------------------------------
Undivided == ppre1 = 1 /\ ppre2 = 1

NoRequest == [source |-> "HSI", target |-> HSI_FREQ_HZ]
ResetPll == [src |-> "HSI", m |-> 16, n |-> 192, p |-> 2]
Unset == [sysclk |-> 0, ahb |-> 0, apb1 |-> 0, apb2 |-> 0, apb1_timer |-> 0]

Init ==
  /\ pllon = FALSE /\ pllrdy = FALSE /\ pll = ResetPll /\ sws = "HSI"
  /\ ws = 0 /\ ppre1 = 1 /\ ppre2 = 1
  /\ cached = Unset /\ brr = 0 /\ load = 0
  /\ pc = "reset" /\ req = NoRequest /\ caller = "reset" /\ misled = FALSE

At(here, there) == pc = here /\ pc' = there
Returns == pc' = caller /\ req' = NoRequest

\* SystemInit: the defaults first, so that they stand if rcc_init fails.
SystemInit ==
  /\ At("reset", "begin")
  /\ cached' = Clocks(HSI_FREQ_HZ, 1, 1)
  /\ misled' = (sws = "HSI" /\ ~Undivided)
  /\ req' = [source |-> "HSI", target |-> 100000000] /\ caller' = "uart_init"
  /\ UNCHANGED <<hardware, derived>>

\* The application calls rcc_init.
Reclock ==
  /\ At("run", "begin")
  /\ \E r \in Requests : req' = r
  /\ caller' = "uart_init"
  /\ UNCHANGED <<hardware, cached, derived, misled>>

\* Mutant: no fast path.
NeverInUse == FALSE

FastPath == pllon /\ pllrdy /\ sws = "PLL"

\* rcc_init ends with an error: after Stop mode the cache still tells the clock
\* of before, since cmd_stop_mode ignores the error.
Fails == Returns /\ misled' = (misled \/ caller = "reinit")

\* rcc_init up to the first register it writes.  With the PLL in use it takes
\* the argument for its frequency, and without a PLL the source's for that of
\* the system, which is HSI with the dividers it has.
Begin ==
  /\ pc = "begin"
  /\ \/ /\ FastPath
        /\ cached' = Clocks(req.target, ppre1, ppre2) /\ Returns
        /\ misled' = (req.target # PllHz)
     \/ /\ ~FastPath /\ req.target = SourceFreq(req.source)
        /\ cached' = Clocks(req.target, 1, 1) /\ Returns
        /\ misled' = (req.source # "HSI" \/ ~Undivided)
     \/ /\ ~FastPath /\ req.target # SourceFreq(req.source)
        /\ IF req.target > SYSCLK_MAX \/ PllP(req.source, req.target) = {}
           THEN Fails
           ELSE pc' = "latency" /\ UNCHANGED <<req, misled>>
        /\ UNCHANGED cached
  /\ UNCHANGED <<hardware, derived, caller>>

SetLatency ==
  /\ At("latency", "source")
  /\ ws' = rcc_compute_flash_latency(req.target)
  /\ UNCHANGED <<pllon, pllrdy, pll, sws, ppre1, ppre2, cached, derived, req, caller, misled>>

\* HSE is ready, or the wait for it ends with ERR_TIMEOUT.
EnableSource ==
  /\ pc = "source"
  /\ \/ pc' = "pllOff" /\ UNCHANGED <<req, misled>>
     \/ req.source = "HSE" /\ Fails
  /\ UNCHANGED <<hardware, cached, derived, caller>>

PllOff ==
  /\ At("pllOff", "pllOn")
  /\ pllon' = FALSE /\ pllrdy' = FALSE
  /\ UNCHANGED <<pll, sws, ws, ppre1, ppre2, cached, derived, req, caller, misled>>

PllOn ==
  /\ At("pllOn", "lock")
  /\ pll' = Factors(req.source, req.target)
  /\ pllon' = TRUE
  /\ UNCHANGED <<pllrdy, sws, ws, ppre1, ppre2, cached, derived, req, caller, misled>>

PllLocks == pllon /\ pllrdy' = TRUE /\ UNCHANGED <<pllon, pll, sws, ws, ppre1, ppre2, cached, derived, pc, req, caller, misled>>

\* Mutant: the wait for the lock ends in any case.
LockWaited == pc' = "prescale" /\ UNCHANGED <<req, misled>>

LockEnds ==
  \/ pllrdy /\ pc' = "prescale" /\ UNCHANGED <<req, misled>>
  \/ ~pllrdy /\ Fails

AwaitLock == pc = "lock" /\ LockEnds /\ UNCHANGED <<hardware, cached, derived, caller>>

SetPrescalers ==
  /\ At("prescale", "switch")
  /\ ppre1' = Divider(req.target, APB1_MAX) /\ ppre2' = Divider(req.target, APB2_MAX)
  /\ UNCHANGED <<pllon, pllrdy, pll, sws, ws, cached, derived, req, caller, misled>>

Switch ==
  /\ At("switch", "cache")
  /\ sws' = "PLL"
  /\ UNCHANGED <<pllon, pllrdy, pll, ws, ppre1, ppre2, cached, derived, req, caller, misled>>

\* Mutant: the timer clock is the bus clock.
TimerIsBus == [Clocks(req.target, ppre1, ppre2) EXCEPT !.apb1_timer = @ \div (IF ppre1 = 1 THEN 1 ELSE 2)]

CachedAfter == Clocks(req.target, ppre1, ppre2)

CacheClocks ==
  /\ pc = "cache"
  /\ cached' = CachedAfter /\ misled' = FALSE
  /\ Returns
  /\ UNCHANGED <<hardware, derived, caller>>

-----------------------------------------------------------------------------
(* The program around it.                                                  *)

\* uart_init takes the divisor from the APB1 clock, systick_init the reload.
UartInit ==
  /\ pc \in {"uart_init", "reinit"} /\ pc' = "systick_init"
  /\ brr' = uart_compute_baud_divisor(cached.apb1, Baud)
  /\ UNCHANGED <<hardware, cached, load, req, caller, misled>>

SystickInit ==
  /\ At("systick_init", "run")
  /\ load' = SystickReload(cached.sysclk)
  /\ UNCHANGED <<hardware, cached, brr, req, caller, misled>>

\* enter_stop_mode and the wake-up: the hardware is back on HSI, wait states and
\* dividers are as they were.  With an interrupt pending it does not stop.
\* Then cmd_stop_mode restores 100 MHz.
StopAndWake ==
  /\ At("run", "begin")
  /\ \/ sws' = "HSI" /\ pllon' = FALSE /\ pllrdy' = FALSE
     \/ sws = "PLL" /\ UNCHANGED <<sws, pllon, pllrdy>>
  /\ req' = [source |-> "HSI", target |-> 100000000] /\ caller' = "reinit"
  /\ UNCHANGED <<pll, ws, ppre1, ppre2, cached, derived, misled>>

\* Control goes to the application, with the clocks as they are; its
\* Reset_Handler clears .bss.
Jump ==
  /\ At("run", "reset")
  /\ cached' = Unset
  /\ UNCHANGED <<hardware, derived, req, caller, misled>>

SystemReset ==
  /\ pc' = "reset"
  /\ pllon' = FALSE /\ pllrdy' = FALSE /\ pll' = ResetPll /\ sws' = "HSI"
  /\ ws' = 0 /\ ppre1' = 1 /\ ppre2' = 1
  /\ cached' = Unset /\ brr' = 0 /\ load' = 0 /\ req' = NoRequest /\ caller' = "reset"
  /\ misled' = FALSE

rcc_init ==
  \/ Begin \/ SetLatency \/ EnableSource \/ PllOff \/ PllOn \/ AwaitLock
  \/ SetPrescalers \/ Switch \/ CacheClocks

Next ==
  \/ SystemInit \/ rcc_init \/ PllLocks \/ Reclock \/ UartInit \/ SystickInit
  \/ StopAndWake \/ Jump \/ SystemReset

Spec == Init /\ [][Next]_vars

-----------------------------------------------------------------------------
(* Properties.                                                             *)

ClockTypeOK ==
  /\ pllon \in BOOLEAN /\ pllrdy \in BOOLEAN /\ sws \in {"HSI", "PLL"}
  /\ ws \in 0 .. 3 /\ ppre1 \in {1, 2, 4, 8, 16} /\ ppre2 \in {1, 2, 4, 8, 16}
  /\ pll.src \in {"HSI", "HSE"} /\ pll.m \in 2 .. 63 /\ pll.n \in 50 .. 432 /\ pll.p \in {2, 4, 6, 8}
  /\ brr \in Nat /\ brr < 65536 /\ load \in Nat /\ load < 16777216 /\ misled \in BOOLEAN

\* At every moment, also between two register writes, after Stop mode and in an
\* application that finds the bootloader's clocks, flash has the wait states its
\* clock needs, and no bus is faster than it may be (rcc.c:186-236).
HardwareIsSafe ==
  /\ Sysclk <= flash_max_freq[ws]
  /\ Sysclk \div ppre1 <= APB1_MAX /\ Sysclk \div ppre2 <= APB2_MAX

\* The system never runs on a PLL that is not locked: rcc_init waits for the lock
\* before it switches, and it never turns off the PLL it runs on, not even
\* for an application that asks for another clock (rcc.c:139-146, 203-243).
RunsOnLockedPll == sws = "PLL" => pllon /\ pllrdy

\* While the application runs the cached frequencies are those of the hardware,
\* UART and SysTick were set up for them, and their registers hold divisor and
\* reload unabridged, also after a failed rcc_init at boot, a jump and a wake-up
\* (rcc.c:133-150, 239-247; cli_commands.c:466-475).  Not so once rcc_init was
\* called for another frequency than that of the PLL in use or for the HSE without
\* the PLL (rcc.c:144, 153), or failed after Stop mode, until it sets up the PLL.
CacheIsTrue ==
  pc = "run" /\ ~misled =>
    /\ cached = Clocks(Sysclk, ppre1, ppre2)
    /\ brr = Divisor(Sysclk \div ppre1, Baud)
    /\ load + 1 = Sysclk \div 1000
=============================================================================
