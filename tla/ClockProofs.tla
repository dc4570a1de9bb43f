---------------------------- MODULE ClockProofs ----------------------------
(***************************************************************************)
(* Proofs about ClockTree, for every set of requests: what the system runs *)
(* on is locked, slow enough for flash and buses at every register write,  *)
(* and known to the program while the application runs.  Leaves that      *)
(* compute with frequencies name SMT: Zenon counts in unary.               *)
(***************************************************************************)
EXTENDS ClockTree, TLAPS

-----------------------------------------------------------------------------
(* The inductive invariants.                                               *)

\* Where rcc_init is between its fast path and the switch.
OnTheWay == {"latency", "source", "pllOff", "pllOn", "lock", "prescale", "switch"}
Outside == {"reset", "uart_init", "reinit", "systick_init", "run"}
Places == OnTheWay \cup Outside \cup {"begin", "cache"}

\* rcc_init gets past its fast path only without the PLL in use.
Locked ==
  /\ pllon \in BOOLEAN /\ pllrdy \in BOOLEAN
  /\ pc \in Places /\ caller \in {"reset", "uart_init", "reinit"}
  /\ sws \in {"HSI", "PLL"}
  /\ sws = "PLL" => pllon /\ pllrdy
  /\ pc \in OnTheWay => sws = "HSI"
  /\ pc = "cache" => sws = "PLL"
  /\ pc = "lock" => pllon
  /\ pc \in {"prescale", "switch"} => pllon /\ pllrdy

Dividers == {1, 2, 4, 8, 16}

\* A frequency that flash and buses stand as they are set.
Bearable(f) ==
  /\ f <= flash_max_freq[ws]
  /\ f \div ppre1 <= APB1_MAX /\ f \div ppre2 <= APB2_MAX

\* What has been set is right for the frequency that is to come.
Prepared ==
  /\ ws \in 0 .. 3 /\ ppre1 \in Dividers /\ ppre2 \in Dividers
  /\ req.target \in Nat
  /\ sws = "PLL" => Bearable(PllHz)
  /\ pc \in OnTheWay => req.target <= SYSCLK_MAX /\ PllP(req.source, req.target) # {}
  /\ pc \in OnTheWay \ {"latency"} => req.target <= flash_max_freq[ws]
  /\ pc \in {"lock", "prescale", "switch"} => pll = Factors(req.source, req.target)
  /\ pc = "switch" => Bearable(req.target)
  /\ pc = "cache" => PllHz = req.target

InRccInit == OnTheWay \cup {"begin", "cache"}
Remembered == cached = Clocks(Sysclk, ppre1, ppre2)

\* What the program knows about the clocks, at each place, unless it is misled:
\* where rcc_init may still fail it must not forget, except after Stop mode.
Known ==
  /\ pc \in InRccInit => caller \in {"uart_init", "reinit"}
  /\ misled \in BOOLEAN
  /\ ~misled =>
       /\ pc \in InRccInit \ {"switch", "cache"} /\ caller = "uart_init" /\ sws = "HSI" => Remembered
       /\ pc \in {"uart_init", "reinit", "systick_init", "run"} => Remembered
       /\ pc \in {"systick_init", "run"} => brr = uart_compute_baud_divisor(Sysclk \div ppre1, Baud)
       /\ pc = "run" => load = SystickReload(Sysclk)

-----------------------------------------------------------------------------
(* The calculations.                                                       *)

\* rcc_compute_flash_latency gives the wait states that its argument needs.
LEMMA LatencyIsEnough ==
  ASSUME NEW f \in Nat, f <= SYSCLK_MAX
  PROVE  /\ rcc_compute_flash_latency(f) \in 0 .. 3
         /\ f <= flash_max_freq[rcc_compute_flash_latency(f)]
<1> DEFINE Least(s) == f <= flash_max_freq[s] /\ \A t \in 0 .. s - 1 : f > flash_max_freq[t]
<1>1. /\ flash_max_freq[0] = 30000000 /\ flash_max_freq[1] = 64000000
      /\ flash_max_freq[2] = 90000000 /\ flash_max_freq[3] = 100000000
  BY DEF flash_max_freq
<1>2. \E s \in 0 .. 3 : Least(s)
  <2>1. CASE f <= 30000000
    <3>1. Least(0)  BY <1>1, <2>1
    <3> QED  BY <3>1
  <2>2. CASE f > 30000000 /\ f <= 64000000
    <3>1. Least(1)  BY <1>1, <2>2
    <3> QED  BY <3>1
  <2>3. CASE f > 64000000 /\ f <= 90000000
    <3>1. Least(2)  BY <1>1, <2>3
    <3> QED  BY <3>1
  <2>4. CASE f > 90000000
    <3>1. Least(3)  BY <1>1, <2>4 DEF SYSCLK_MAX
    <3> QED  BY <3>1
  <2> QED  BY <2>1, <2>2, <2>3, <2>4
<1>3. rcc_compute_flash_latency(f) = CHOOSE s \in 0 .. 3 : Least(s)
  BY <1>1 DEF rcc_compute_flash_latency, SYSCLK_MAX
<1> HIDE DEF Least
<1>4. (CHOOSE s \in 0 .. 3 : Least(s)) \in 0 .. 3 /\ Least(CHOOSE s \in 0 .. 3 : Least(s))
  BY <1>2
<1> QED  BY <1>3, <1>4 DEF Least

\* compute_apb_prescaler keeps a bus within its limit if a divider of two does.
LEMMA DividerIsEnough ==
  ASSUME NEW f \in Nat, NEW max \in Nat, f \div 2 <= max
  PROVE  Divider(f, max) \in Dividers /\ f \div Divider(f, max) <= max
<1> DEFINE good == {d \in {1, 2, 4, 8, 16} : f \div d <= max}
           IsLeast(d) == \A e \in good : d <= e
<1>1. 2 \in good
  OBVIOUS
<1>2. \E d \in good : IsLeast(d)
  <2>1. CASE 1 \in good
    BY <2>1
  <2>2. CASE 1 \notin good
    BY <1>1, <2>2
  <2> QED  BY <2>1, <2>2
<1>3. Divider(f, max) = CHOOSE d \in good : IsLeast(d)
  BY <1>1 DEF Divider
<1> HIDE DEF IsLeast
<1>4. Divider(f, max) \in good
  BY <1>2, <1>3
<1> QED  BY <1>4 DEF Dividers

\* Where rcc_compute_pll_config finds factors, the PLL makes of them what was asked for.
LEMMA FactorsGiveTarget ==
  ASSUME NEW src, NEW f \in Nat, PllP(src, f) # {}, pll = Factors(src, f)
  PROVE  PllHz = f
<1> DEFINE P == PllP(src, f)
           IsLeast(p) == \A y \in P : p <= y
           n(p) == (f * p) \div 2000000
<1>1. VcoIn(src) = 2000000 /\ SourceFreq(src) \div PllM(src) = 2000000
  BY DEF VcoIn, PllM, SourceFreq, HSE_FREQ_HZ, HSI_FREQ_HZ, VCO_INPUT_TARGET
<1>2. \A p \in P : p \in {2, 4, 6, 8} /\ n(p) * 2000000 = f * p
  BY <1>1 DEF PllP
<1>3. \E p \in P : IsLeast(p)
  <2>1. P \subseteq {2, 4, 6, 8}  BY <1>2
  <2>2. CASE 2 \in P  BY <2>1, <2>2
  <2>3. CASE 2 \notin P /\ 4 \in P  BY <2>1, <2>3
  <2>4. CASE 2 \notin P /\ 4 \notin P /\ 6 \in P  BY <2>1, <2>4
  <2>5. CASE 2 \notin P /\ 4 \notin P /\ 6 \notin P  BY <2>1, <2>5
  <2> QED  BY <2>2, <2>3, <2>4, <2>5
<1> DEFINE p == CHOOSE x \in P : IsLeast(x)
<1>4. pll = [src |-> src, m |-> PllM(src), n |-> n(p), p |-> p]
  BY <1>1 DEF Factors
<1>5. p \in P
  <2> HIDE DEF IsLeast, P
  <2> QED  BY <1>3
<1>6. p \in {2, 4, 6, 8} /\ n(p) * 2000000 = f * p
  BY <1>2, <1>5
<1> HIDE DEF p, P
<1>7. PllHz = (2000000 * n(p)) \div p
  BY <1>1, <1>4 DEF PllHz
<1>8. (2000000 * n(p)) \div p = f
  <2>1. CASE p = 2  BY <1>6, <2>1
  <2>2. CASE p = 4  BY <1>6, <2>2
  <2>3. CASE p = 6  BY <1>6, <2>3
  <2>4. CASE p = 8  BY <1>6, <2>4
  <2> QED  BY <1>6, <2>1, <2>2, <2>3, <2>4
<1> QED  BY <1>7, <1>8

-----------------------------------------------------------------------------
(* The lock.                                                               *)

LEMMA LockedInit == Init => Locked
BY DEF Init, Locked, Places, Outside, OnTheWay

LEMMA LockedStep == Locked /\ [Next]_vars => Locked'
<1> SUFFICES ASSUME Locked, [Next]_vars
             PROVE  Locked'
  OBVIOUS
<1> USE DEF Locked, Places, Outside, OnTheWay
<1>1. CASE Begin
  BY <1>1 DEF Begin, FastPath, Fails, Returns, hardware, derived
<1>2. CASE SetLatency
  BY <1>2 DEF SetLatency, At
<1>3. CASE EnableSource
  BY <1>3 DEF EnableSource, Fails, Returns, hardware, derived
<1>4. CASE PllOff
  BY <1>4 DEF PllOff, At
<1>5. CASE PllOn
  BY <1>5 DEF PllOn, At
<1>6. CASE AwaitLock
  BY <1>6 DEF AwaitLock, LockEnds, Fails, Returns, hardware, derived
<1>7. CASE SetPrescalers
  BY <1>7 DEF SetPrescalers, At
<1>8. CASE Switch
  BY <1>8 DEF Switch, At
<1>9. CASE CacheClocks
  BY <1>9 DEF CacheClocks, Returns, hardware, derived
<1>10. CASE SystemInit
  BY SMT, <1>10 DEF SystemInit, At, hardware, derived
<1>11. CASE PllLocks
  BY <1>11 DEF PllLocks
<1>12. CASE Reclock
  BY <1>12 DEF Reclock, At, hardware, derived
<1>13. CASE UartInit
  BY <1>13 DEF UartInit, hardware
<1>14. CASE SystickInit
  BY <1>14 DEF SystickInit, At, hardware
<1>15. CASE StopAndWake
  <2>1. pc' = "begin" /\ caller' = "reinit"
    BY SMT, <1>15 DEF StopAndWake, At
  <2>2. \/ sws' = "HSI" /\ pllon' = FALSE /\ pllrdy' = FALSE
        \/ UNCHANGED <<sws, pllon, pllrdy>>
    BY SMT, <1>15 DEF StopAndWake
  <2> QED
    BY <2>1, <2>2
<1>16. CASE Jump
  BY <1>16 DEF Jump, At, hardware, derived
<1>17. CASE SystemReset
  BY Zenon, <1>17 DEF SystemReset
<1>18. CASE UNCHANGED vars
  BY <1>18 DEF vars, hardware, derived
<1> QED
  BY <1>1, <1>2, <1>3, <1>4, <1>5, <1>6, <1>7, <1>8, <1>9, <1>10, <1>11, <1>12, <1>13, <1>14,
     <1>15, <1>16, <1>17, <1>18 DEF Next, rcc_init

\* The system never runs on a PLL that is off or not locked, whatever rcc_init
\* is asked for and whatever fails (RunsOnLockedPll).
THEOREM PllIsLocked == Spec => []RunsOnLockedPll
<1>1. Locked => RunsOnLockedPll
  BY DEF Locked, RunsOnLockedPll
<1> QED
  BY LockedInit, LockedStep, <1>1, PTL DEF Spec

-----------------------------------------------------------------------------
(* Wait states and buses.                                                  *)

LEMMA PreparedInit == Init => Prepared
BY SMT DEF Init, Prepared, NoRequest, Dividers, OnTheWay, HSI_FREQ_HZ

LEMMA PreparedStep == Locked /\ Prepared /\ [Next]_vars => Prepared'
<1> SUFFICES ASSUME Locked, Prepared, [Next]_vars
             PROVE  Prepared'
  OBVIOUS
<1> USE DEF Prepared, OnTheWay
<1>1. CASE Begin
  <2>1. UNCHANGED <<pllon, pllrdy, pll, sws, ws, ppre1, ppre2>>
    BY <1>1 DEF Begin, hardware
  <2>2. Bearable(PllHz)' <=> Bearable(PllHz)
    BY <2>1 DEF Bearable, PllHz
  <2>3. CASE Returns
    <3>1. pc' \notin OnTheWay \cup {"cache"} /\ req'.target \in Nat
      BY SMT, <2>3 DEF Returns, Locked, NoRequest, HSI_FREQ_HZ
    <3> QED
      BY <2>1, <2>2, <3>1
  <2>4. CASE /\ req.target <= SYSCLK_MAX /\ PllP(req.source, req.target) # {}
             /\ pc' = "latency" /\ UNCHANGED req
    BY <2>1, <2>2, <2>4
  <2>5. req.target > SYSCLK_MAX <=> ~(req.target <= SYSCLK_MAX)
    BY SMT DEF SYSCLK_MAX
  <2> QED
    BY <1>1, <2>3, <2>4, <2>5 DEF Begin, Fails
<1>2. CASE SetLatency
  <2>1. ws' = rcc_compute_flash_latency(req.target) /\ pc = "latency" /\ pc' = "source" /\ sws' = "HSI"
    BY SMT, <1>2 DEF SetLatency, At, Locked
  <2>2. ws' \in 0 .. 3 /\ req.target <= flash_max_freq[ws']
    BY SMT, <2>1, LatencyIsEnough
  <2> QED
    BY SMT, <1>2, <2>1, <2>2 DEF SetLatency, flash_max_freq
<1>3. CASE EnableSource
  BY SMT, <1>3 DEF EnableSource, Locked, Fails, Returns, hardware, derived, NoRequest, HSI_FREQ_HZ, Bearable, PllHz
<1>4. CASE PllOff
  BY SMT, <1>4 DEF PllOff, At, Bearable, PllHz
<1>5. CASE PllOn
  BY SMT, <1>5 DEF PllOn, At, Locked
<1>6. CASE AwaitLock
  BY SMT, <1>6 DEF AwaitLock, LockEnds, Locked, Fails, Returns, hardware, derived, NoRequest, HSI_FREQ_HZ, Bearable, PllHz
<1>7. CASE SetPrescalers
  <2>1. /\ ppre1' = Divider(req.target, APB1_MAX) /\ ppre2' = Divider(req.target, APB2_MAX)
        /\ pc = "prescale" /\ pc' = "switch" /\ sws' = "HSI"
    BY SMT, <1>7 DEF SetPrescalers, At, Locked
  <2>2. req.target \div 2 <= APB1_MAX /\ req.target \div 2 <= APB2_MAX
    BY SMT, <2>1 DEF SYSCLK_MAX, APB1_MAX, APB2_MAX
  <2>3. ppre1' \in Dividers /\ req.target \div ppre1' <= APB1_MAX
    BY SMT, <2>1, <2>2, DividerIsEnough DEF APB1_MAX
  <2>4. ppre2' \in Dividers /\ req.target \div ppre2' <= APB2_MAX
    BY SMT, <2>1, <2>2, DividerIsEnough DEF APB2_MAX
  <2> QED
    BY SMT, <1>7, <2>1, <2>3, <2>4 DEF SetPrescalers, Bearable
<1>8. CASE Switch
  <2>1. PllHz = req.target
    BY SMT, <1>8, FactorsGiveTarget DEF Switch, At
  <2> QED
    BY SMT, <1>8, <2>1 DEF Switch, At, Bearable, PllHz
<1>9. CASE CacheClocks
  BY SMT, <1>9 DEF CacheClocks, Locked, Returns, hardware, derived, NoRequest, HSI_FREQ_HZ, Bearable, PllHz
<1>10. CASE SystemInit
  BY SMT, <1>10 DEF SystemInit, At, hardware, derived, Bearable, PllHz
<1>11. CASE PllLocks
  BY SMT, <1>11 DEF PllLocks, Bearable, PllHz
<1>12. CASE Reclock
  BY SMT, <1>12, RequestsAssumption DEF Reclock, At, hardware, derived, Bearable, PllHz
<1>13. CASE UartInit
  BY SMT, <1>13 DEF UartInit, hardware, Bearable, PllHz
<1>14. CASE SystickInit
  BY SMT, <1>14 DEF SystickInit, At, hardware, Bearable, PllHz
<1>15. CASE StopAndWake
  BY SMT, <1>15 DEF StopAndWake, At, derived, Bearable, PllHz
<1>16. CASE Jump
  BY SMT, <1>16 DEF Jump, At, hardware, derived, Bearable, PllHz
<1>17. CASE SystemReset
  BY SMT, <1>17 DEF SystemReset, NoRequest, HSI_FREQ_HZ, Dividers
<1>18. CASE UNCHANGED vars
  BY SMT, <1>18 DEF vars, hardware, derived, Bearable, PllHz
<1> QED
  BY SMT, <1>1, <1>2, <1>3, <1>4, <1>5, <1>6, <1>7, <1>8, <1>9, <1>10, <1>11, <1>12, <1>13, <1>14,
     <1>15, <1>16, <1>17, <1>18 DEF Next, rcc_init

LEMMA PreparedIsSafe == Locked /\ Prepared => HardwareIsSafe
<1> SUFFICES ASSUME Locked, Prepared
             PROVE  HardwareIsSafe
  OBVIOUS
<1>1. CASE sws = "PLL"
  BY SMT, <1>1 DEF Prepared, HardwareIsSafe, Sysclk, Bearable
<1>2. CASE sws = "HSI"
  <2>1. Sysclk = 16000000
    BY SMT, <1>2 DEF Sysclk, HSI_FREQ_HZ
  <2>2. 16000000 <= flash_max_freq[ws]
    BY SMT DEF Prepared, flash_max_freq
  <2>3. \A d \in Dividers : 16000000 \div d <= 50000000
    BY SMT DEF Dividers
  <2> QED
    BY SMT, <2>1, <2>2, <2>3 DEF Prepared, HardwareIsSafe, APB1_MAX, APB2_MAX, Dividers
<1> QED
  BY SMT, <1>1, <1>2 DEF Locked

\* Flash wait states and bus dividers are enough for the clock at every moment,
\* for every set of requests and also where the oscillator or the PLL fails
\* after Stop mode (HardwareIsSafe).
THEOREM HardwareStaysSafe == Spec => []HardwareIsSafe
<1>1. Init => Locked /\ Prepared
  BY SMT, LockedInit, PreparedInit
<1>2. Locked /\ Prepared /\ [Next]_vars => (Locked /\ Prepared)'
  BY SMT, LockedStep, PreparedStep
<1> QED
  BY <1>1, <1>2, PreparedIsSafe, PTL DEF Spec

-----------------------------------------------------------------------------
(* What the program knows.                                                 *)

LEMMA KnownInit == Init => Known
BY DEF Init, Known, InRccInit, OnTheWay

\* What no step of rcc_init but those below touches.
LEMMA SameClocks ==
  ASSUME UNCHANGED <<pll, sws, ppre1, ppre2>>
  PROVE  Sysclk' = Sysclk /\ PllHz' = PllHz /\ Undivided' = Undivided
BY DEF Sysclk, PllHz, Undivided

LEMMA KnownStep ==
  Locked /\ Prepared /\ Known /\ [Next]_vars => Known'
<1> SUFFICES ASSUME Locked, Prepared, Known, [Next]_vars
             PROVE  Known'
  OBVIOUS
<1> USE DEF Known, InRccInit, OnTheWay, Remembered
<1>0. sws = "HSI" => Sysclk = HSI_FREQ_HZ
  BY DEF Sysclk
\* When rcc_init fails on HSI.
<1>f. ASSUME UNCHANGED <<pll, sws, ppre1, ppre2, brr, load, caller, cached>>,
             pc \in InRccInit \ {"switch", "cache"}, sws = "HSI", Fails
      PROVE  Known'
  <2>1. Sysclk' = Sysclk /\ pc' = caller /\ misled' = (misled \/ caller = "reinit")
    BY <1>f, SameClocks DEF Fails, Returns
  <2>2. misled \in BOOLEAN /\ misled' \in BOOLEAN
    BY <2>1
  <2>3. ~misled' => ~misled /\ caller = "uart_init"
    BY <1>f, <2>1, <2>2
  <2>4. ~misled' => cached' = Clocks(Sysclk, ppre1, ppre2)
    BY <1>f, <2>3
  <2> QED
    BY <1>f, <2>1, <2>2, <2>3, <2>4
<1>1. CASE Begin
  <2>1. UNCHANGED <<pll, sws, ppre1, ppre2, brr, load, caller>> /\ pc = "begin"
    BY <1>1 DEF Begin, hardware, derived
  <2>2. Sysclk' = Sysclk /\ PllHz' = PllHz /\ Undivided' = Undivided
    BY <2>1, SameClocks
  <2>3. CASE FastPath /\ cached' = Clocks(req.target, ppre1, ppre2) /\ Returns
             /\ misled' = (req.target # PllHz)
    <3>1. ~misled' => cached' = Clocks(Sysclk, ppre1, ppre2)
      BY <2>1, <2>3 DEF FastPath, Sysclk
    <3>2. sws = "PLL" /\ pc' = caller /\ misled' \in BOOLEAN
      BY <2>3 DEF FastPath, Returns
    <3> QED
      BY <2>1, <2>2, <3>1, <3>2
  <2>4. CASE /\ ~FastPath /\ req.target = SourceFreq(req.source)
             /\ cached' = Clocks(req.target, 1, 1) /\ Returns
             /\ misled' = (req.source # "HSI" \/ ~Undivided)
    <3>1. sws = "HSI"
      BY <2>4 DEF FastPath, Locked
    <3>2. misled' \in BOOLEAN /\ (~misled' => req.target = HSI_FREQ_HZ /\ Undivided)
      BY <2>1, <2>4 DEF SourceFreq
    <3>3. ~misled' => cached' = Clocks(Sysclk, ppre1, ppre2)
      BY <1>0, <2>4, <3>1, <3>2 DEF Undivided
    <3>4. pc' = caller
      BY <2>4 DEF Returns
    <3> QED
      BY <2>1, <2>2, <3>2, <3>3, <3>4
  <2>5. CASE ~FastPath /\ Fails /\ UNCHANGED cached
    <3>1. sws = "HSI"
      BY <2>5 DEF FastPath, Locked
    <3> QED
      BY <1>f, <2>1, <2>5, <3>1
  <2>6. CASE ~FastPath /\ pc' = "latency" /\ UNCHANGED <<req, cached, misled>>
    BY <2>1, <2>2, <2>6
  <2> QED
    BY <1>1, <2>3, <2>4, <2>5, <2>6 DEF Begin
<1>2. CASE SetLatency \/ PllOff
  <2>1. /\ UNCHANGED <<pll, sws, ppre1, ppre2, cached, caller, misled>>
        /\ pc \in {"latency", "pllOff"} /\ pc' \in {"source", "pllOn"}
    BY <1>2 DEF SetLatency, PllOff, At
  <2> QED
    BY <2>1, SameClocks
<1>3. CASE EnableSource \/ AwaitLock
  <2>1. /\ UNCHANGED <<pll, sws, ppre1, ppre2, brr, load, caller, cached>>
        /\ pc \in {"source", "lock"}
    BY <1>3 DEF EnableSource, AwaitLock, hardware, derived
  <2>2. Sysclk' = Sysclk /\ PllHz' = PllHz /\ Undivided' = Undivided
    BY <2>1, SameClocks
  <2>3. CASE pc' \in {"pllOff", "prescale"} /\ misled' = misled
    BY <2>1, <2>2, <2>3
  <2>4. CASE Fails
    BY <1>f, <2>1, <2>4 DEF Locked
  <2> QED
    BY <1>3, <2>3, <2>4 DEF EnableSource, AwaitLock, LockEnds
<1>4. CASE PllOn
  <2>1. /\ UNCHANGED <<sws, ppre1, ppre2, cached, caller, misled>>
        /\ pc = "pllOn" /\ pc' = "lock"
    BY <1>4 DEF PllOn, At
  <2>2. sws = "HSI" /\ Sysclk' = Sysclk
    BY <2>1 DEF Locked, Sysclk
  <2> QED
    BY <2>1, <2>2
<1>5. CASE SetPrescalers
  BY <1>5 DEF SetPrescalers, At
<1>6. CASE Switch
  BY <1>6 DEF Switch, At
<1>7. CASE CacheClocks
  <2>1. /\ UNCHANGED <<pll, sws, ppre1, ppre2, brr, load, caller>> /\ pc = "cache"
        /\ pc' = caller /\ misled' = FALSE
    BY <1>7 DEF CacheClocks, Returns, hardware, derived
  <2>2. Sysclk' = req.target /\ sws' = "PLL"
    BY <2>1, SameClocks DEF Locked, Prepared, Sysclk
  <2>3. cached' = Clocks(Sysclk, ppre1, ppre2)'
    BY <1>7, <2>1, <2>2 DEF CacheClocks, CachedAfter, Clocks
  <2> QED
    BY <2>1, <2>2, <2>3
<1>8. CASE SystemInit
  <2>1. /\ UNCHANGED <<pll, sws, ppre1, ppre2>> /\ pc = "reset" /\ pc' = "begin"
        /\ cached' = Clocks(HSI_FREQ_HZ, 1, 1) /\ caller' = "uart_init"
        /\ misled' = (sws = "HSI" /\ ~Undivided)
    BY <1>8 DEF SystemInit, At, hardware, derived
  <2>2. misled' \in BOOLEAN /\ (~misled' /\ sws = "HSI" => Undivided)
    BY <2>1
  <2>3. ~misled' /\ sws = "HSI" => cached' = Clocks(Sysclk, ppre1, ppre2)
    BY <1>0, <2>1, <2>2 DEF Undivided
  <2> QED
    BY <2>1, <2>2, <2>3, SameClocks
<1>9. CASE Reclock
  <2>1. /\ UNCHANGED <<pll, sws, ppre1, ppre2, cached, misled>> /\ pc = "run" /\ pc' = "begin"
        /\ caller' = "uart_init"
    BY <1>9 DEF Reclock, At, hardware
  <2> QED
    BY <2>1, SameClocks
<1>10. CASE UartInit
  <2>1. /\ UNCHANGED <<pll, sws, ppre1, ppre2, cached, caller, misled>> /\ pc \in {"uart_init", "reinit"}
        /\ pc' = "systick_init" /\ brr' = uart_compute_baud_divisor(cached.apb1, Baud)
    BY <1>10 DEF UartInit, hardware
  <2>2. ~misled => cached.apb1 = Sysclk \div ppre1
    BY <2>1 DEF Clocks
  <2> QED
    BY <2>1, <2>2, SameClocks
<1>11. CASE SystickInit
  <2>1. /\ UNCHANGED <<pll, sws, ppre1, ppre2, cached, brr, caller, misled>> /\ pc = "systick_init"
        /\ pc' = "run" /\ load' = SystickReload(cached.sysclk)
    BY <1>11 DEF SystickInit, At, hardware
  <2>2. ~misled => cached.sysclk = Sysclk
    BY <2>1 DEF Clocks
  <2> QED
    BY <2>1, <2>2, SameClocks
<1>12. CASE StopAndWake
  <2>1. pc' = "begin" /\ caller' = "reinit" /\ misled' = misled
    BY SMT, <1>12 DEF StopAndWake, At
  <2> QED
    BY <2>1
<1>13. CASE Jump
  <2>1. pc' = "reset" /\ misled' = misled
    BY SMT, <1>13 DEF Jump, At
  <2> QED
    BY <2>1
<1>14. CASE SystemReset
  BY <1>14 DEF SystemReset
<1>15. CASE PllLocks
  <2>1. UNCHANGED <<pll, sws, ppre1, ppre2, cached, brr, load, pc, req, caller, misled>>
    BY <1>15 DEF PllLocks, derived
  <2> QED
    BY <2>1, SameClocks
<1>16. CASE UNCHANGED vars
  <2>1. UNCHANGED <<pll, sws, ppre1, ppre2, cached, brr, load, pc, req, caller, misled>>
    BY <1>16 DEF vars, hardware, derived
  <2> QED
    BY <2>1, SameClocks
<1> QED
  BY <1>1, <1>2, <1>3, <1>4, <1>5, <1>6, <1>7, <1>8, <1>9, <1>10, <1>11, <1>12, <1>13, <1>14,
     <1>15, <1>16 DEF Next, rcc_init

-----------------------------------------------------------------------------
(* The registers' widths.                                                  *)

KILOHERTZ == 1000

PllFields(c) ==
  c.src \in {"HSI", "HSE"} /\ c.m \in 2 .. 63 /\ c.n \in 50 .. 432 /\ c.p \in {2, 4, 6, 8}

\* Whatever is asked for, registers keep their ranges, what is computed from is a
\* natural number, and the PLL in use is not slow.
Bounded ==
  /\ req.source \in {"HSI", "HSE"}
  /\ cached.sysclk \in Nat /\ cached.apb1 \in Nat
  /\ sws = "PLL" => PllHz \in Nat /\ PllHz >= KILOHERTZ
  /\ PllFields(pll)
  /\ brr \in Nat /\ brr < 65536 /\ load \in Nat /\ load < 16777216

\* A quotient is small if its dividend is.
LEMMA QuotientFits ==
  ASSUME NEW a \in Nat, NEW d \in Nat, d > 0, a < 65536 * d
  PROVE  a \div d \in Nat /\ a \div d < 65536
BY SMT

\* The remainder of a number that fits is the number itself.
LEMMA SmallRemainder ==
  ASSUME NEW d \in Nat, d < 65536  PROVE d % 65536 = d
BY SMT

\* The divisor of a bus clock within its limit fits into BRR.
LEMMA DivisorFits ==
  ASSUME NEW clk \in Nat, clk <= APB1_MAX
  PROVE  uart_compute_baud_divisor(clk, Baud) = Divisor(clk, Baud)
<1>1. Baud \in Nat /\ Baud > 762
  BY SMT, BaudAssumption DEF APB1_MAX
<1>2. Baud \div 2 \in Nat /\ Baud \div 2 <= Baud
  BY SMT, <1>1
<1> DEFINE a == clk + Baud \div 2
<1>3. a \in Nat /\ a < 65536 * Baud
  BY SMT, <1>1, <1>2 DEF APB1_MAX
<1> HIDE DEF a
<1>4. a \div Baud \in Nat /\ a \div Baud < 65536
  BY SMT, <1>1, <1>3, QuotientFits
<1>5. Divisor(clk, Baud) = a \div Baud
  BY DEF a, Divisor
<1>6. (a \div Baud) % 65536 = a \div Baud
  BY <1>4, SmallRemainder
<1> QED  BY <1>5, <1>6 DEF uart_compute_baud_divisor

\* Of any other clock, 16 bits remain.
LEMMA DivisorIsCut ==
  ASSUME NEW clk \in Nat
  PROVE  uart_compute_baud_divisor(clk, Baud) \in Nat /\ uart_compute_baud_divisor(clk, Baud) < 65536
<1>1. Baud \in Nat /\ Baud > 762
  BY SMT, BaudAssumption DEF APB1_MAX
<1>2. Baud \div 2 \in Nat
  BY SMT, <1>1
<1>3. clk + Baud \div 2 \in Nat
  BY SMT, <1>2
<1> DEFINE a == clk + Baud \div 2
<1> HIDE DEF a
<1>4. Divisor(clk, Baud) = a \div Baud /\ a \in Nat
  BY <1>3 DEF a, Divisor
<1>5. Divisor(clk, Baud) \in Nat
  BY SMT, <1>1, <1>4
<1>6. \A x \in Nat : x % 65536 \in Nat /\ x % 65536 < 65536
  BY SMT
<1> QED  BY <1>5, <1>6 DEF uart_compute_baud_divisor

LEMMA ReloadFits ==
  ASSUME NEW f \in Nat, f >= KILOHERTZ, f <= SYSCLK_MAX
  PROVE  SystickReload(f) + 1 = f \div 1000
<1> DEFINE q == f \div 1000
<1>1. q \in Nat /\ q >= 1 /\ q <= 100000
  BY SMT DEF KILOHERTZ, SYSCLK_MAX
<1> HIDE DEF q
<1>2. (q + 16777215) % 16777216 = q - 1
  BY SMT, <1>1
<1>3. (q - 1) + 1 = q
  BY SMT, <1>1
<1> QED  BY <1>2, <1>3 DEF SystickReload, q

LEMMA ReloadIsCut ==
  ASSUME NEW f \in Nat
  PROVE  SystickReload(f) \in Nat /\ SystickReload(f) < 16777216
<1>1. f \div 1000 + 16777215 \in Nat
  BY SMT
<1>2. \A x \in Nat : x % 16777216 \in Nat /\ x % 16777216 < 16777216
  BY SMT
<1> QED  BY <1>1, <1>2 DEF SystickReload

\* The getters' values are natural numbers.
LEMMA ClocksAreNat ==
  ASSUME NEW f \in Nat, NEW d \in Dividers, NEW e
  PROVE  Clocks(f, d, e).sysclk \in Nat /\ Clocks(f, d, e).apb1 \in Nat
<1>1. f \div d \in Nat
  BY SMT DEF Dividers
<1>2. Clocks(f, d, e).sysclk = f /\ Clocks(f, d, e).apb1 = f \div d
  BY DEF Clocks
<1> QED  BY <1>1, <1>2

LEMMA FactorsFit ==
  ASSUME NEW src \in {"HSI", "HSE"}, NEW f \in Nat, PllP(src, f) # {}
  PROVE  PllFields(Factors(src, f))
<1> DEFINE P == PllP(src, f)
           IsLeast(p) == \A y \in P : p <= y
           p == CHOOSE x \in P : IsLeast(x)
<1>1. \E x \in P : IsLeast(x)
  <2>1. P \subseteq {2, 4, 6, 8}  BY DEF PllP
  <2>2. CASE 2 \in P  BY SMT, <2>1, <2>2
  <2>3. CASE 2 \notin P /\ 4 \in P  BY SMT, <2>1, <2>3
  <2>4. CASE 2 \notin P /\ 4 \notin P /\ 6 \in P  BY SMT, <2>1, <2>4
  <2>5. CASE 2 \notin P /\ 4 \notin P /\ 6 \notin P  BY SMT, <2>1, <2>5
  <2> QED  BY <2>2, <2>3, <2>4, <2>5
<1>2. p \in P
  <2> HIDE DEF IsLeast, P
  <2> QED  BY <1>1
<1>3. Factors(src, f) = [src |-> src, m |-> PllM(src), n |-> (f * p) \div VcoIn(src), p |-> p]
  BY DEF Factors
<1> HIDE DEF p
<1>4. p \in {2, 4, 6, 8} /\ (f * p) \div VcoIn(src) \in 50 .. 432
  BY <1>2 DEF PllP
<1>5. PllM(src) \in 2 .. 63
  <2>1. src = "HSE" => PllM(src) = 4
    BY SMT DEF PllM, SourceFreq, HSE_FREQ_HZ, VCO_INPUT_TARGET
  <2>2. src = "HSI" => PllM(src) = 8
    BY SMT DEF PllM, SourceFreq, HSI_FREQ_HZ, VCO_INPUT_TARGET
  <2> QED  BY SMT, <2>1, <2>2
<1> QED  BY <1>3, <1>4, <1>5 DEF PllFields

\* The PLL can make nothing slow.
LEMMA TargetIsFast ==
  ASSUME NEW src, NEW f \in Nat, PllP(src, f) # {}  PROVE f >= KILOHERTZ
<1>1. PICK p \in {2, 4, 6, 8} : f * p \in VCO_OUTPUT_MIN .. VCO_OUTPUT_MAX
  BY DEF PllP
<1>2. VCO_OUTPUT_MIN \in Nat /\ VCO_OUTPUT_MAX \in Nat
  BY SMT DEF VCO_OUTPUT_MIN, VCO_OUTPUT_MAX
<1>3. f * p >= VCO_OUTPUT_MIN
  BY SMT, <1>1, <1>2
<1> QED  BY SMT, <1>1, <1>3 DEF VCO_OUTPUT_MIN, KILOHERTZ

LEMMA ResetFits == PllFields(ResetPll)
BY SMT DEF PllFields, ResetPll

LEMMA BoundedInit == Init => Bounded
<1> SUFFICES ASSUME Init PROVE Bounded
  OBVIOUS
<1>1. NoRequest.source = "HSI" /\ Unset.sysclk = 0 /\ Unset.apb1 = 0
  BY DEF NoRequest, Unset
<1>2. 0 \in Nat /\ 0 < 65536 /\ 0 < 16777216
  BY SMT
<1> QED  BY ResetFits, <1>1, <1>2 DEF Init, Bounded

LEMMA BoundedStep == Locked /\ Prepared /\ Bounded /\ [Next]_vars => Bounded'
<1> SUFFICES ASSUME Locked, Prepared, Bounded, [Next]_vars
             PROVE  Bounded'
  OBVIOUS
<1> USE DEF Bounded
<1>0. ppre1 \in Dividers /\ 1 \in Dividers /\ req.target \in Nat /\ HSI_FREQ_HZ \in Nat
  BY SMT DEF Prepared, Dividers, HSI_FREQ_HZ
<1> DEFINE InNat == cached'.sysclk \in Nat /\ cached'.apb1 \in Nat
<1>a. ASSUME InNat, req'.source \in {"HSI", "HSE"}, UNCHANGED <<pll, sws, brr, load>>
      PROVE  Bounded'
  BY <1>a DEF PllHz
<1>1. CASE Begin
  <2>1. UNCHANGED <<pll, sws, ppre1, ppre2, brr, load>>
    BY <1>1 DEF Begin, hardware, derived
  <2>2. req'.source \in {"HSI", "HSE"}
    BY <1>1 DEF Begin, Fails, Returns, NoRequest
  <2>3. InNat
    BY <1>0, <1>1, ClocksAreNat DEF Begin
  <2> QED  BY <1>a, <2>1, <2>2, <2>3
<1>2. CASE PllOn
  <2>1. /\ UNCHANGED <<sws, cached, brr, load, req>> /\ pc = "pllOn"
        /\ pll' = Factors(req.source, req.target)
    BY <1>2 DEF PllOn, At, derived
  <2>2. PllP(req.source, req.target) # {} /\ sws = "HSI"
    BY <2>1 DEF Prepared, Locked, OnTheWay
  <2>3. PllFields(pll')
    BY <1>0, <2>1, <2>2, FactorsFit
  <2> QED  BY <2>1, <2>2, <2>3
<1>3. CASE CacheClocks
  <2>1. /\ UNCHANGED <<pll, sws, brr, load>>
        /\ cached' = Clocks(req.target, ppre1, ppre2) /\ req' = NoRequest
    BY <1>3 DEF CacheClocks, CachedAfter, Returns, hardware, derived
  <2>2. InNat
    BY <1>0, <2>1, ClocksAreNat
  <2> QED  BY <1>a, <2>1, <2>2 DEF NoRequest
<1>4. CASE SystemInit
  <2>1. /\ UNCHANGED <<pll, sws, brr, load>> /\ req'.source = "HSI"
        /\ cached' = Clocks(HSI_FREQ_HZ, 1, 1)
    BY <1>4 DEF SystemInit, At, hardware, derived
  <2>2. InNat
    BY <1>0, <2>1, ClocksAreNat
  <2> QED  BY <1>a, <2>1, <2>2
<1>5. CASE Reclock
  <2>1. PICK r \in Requests : req' = r
    BY <1>5 DEF Reclock
  <2>2. UNCHANGED <<pll, sws, cached, brr, load>> /\ r.source \in {"HSI", "HSE"}
    BY <1>5, RequestsAssumption DEF Reclock, At, hardware, derived
  <2> QED  BY <1>a, <2>1, <2>2
<1>6. CASE UartInit
  <2>1. /\ UNCHANGED <<pll, sws, cached, load, req>>
        /\ brr' = uart_compute_baud_divisor(cached.apb1, Baud)
    BY <1>6 DEF UartInit, hardware
  <2>2. brr' \in Nat /\ brr' < 65536
    BY <2>1, DivisorIsCut
  <2> QED  BY <2>1, <2>2 DEF PllHz
<1>7. CASE SystickInit
  <2>1. /\ UNCHANGED <<pll, sws, cached, brr, req>>
        /\ load' = SystickReload(cached.sysclk)
    BY <1>7 DEF SystickInit, At, hardware
  <2>2. load' \in Nat /\ load' < 16777216
    BY <2>1, ReloadIsCut
  <2> QED  BY <2>1, <2>2 DEF PllHz
<1>8. CASE StopAndWake
  <2>1. /\ UNCHANGED <<pll, cached, brr, load>> /\ req'.source = "HSI"
        /\ sws' = "HSI" \/ sws' = sws
    BY <1>8 DEF StopAndWake, At, derived
  <2> QED  BY <2>1 DEF PllHz
<1>9. CASE Jump
  <2>1. UNCHANGED <<pll, sws, brr, load, req>> /\ cached' = Unset
    BY <1>9 DEF Jump, At, hardware, derived
  <2>2. InNat
    BY SMT, <2>1 DEF Unset
  <2> QED  BY <1>a, <2>1, <2>2
<1>10. CASE SystemReset
  <2>1. /\ pll' = ResetPll /\ sws' = "HSI" /\ cached' = Unset /\ brr' = 0 /\ load' = 0
        /\ req' = NoRequest
    BY <1>10 DEF SystemReset
  <2>2. /\ brr' \in Nat /\ brr' < 65536 /\ load' \in Nat /\ load' < 16777216
        /\ InNat
    BY SMT, <2>1 DEF Unset
  <2> QED  BY <2>1, <2>2, ResetFits DEF NoRequest
<1>11. CASE EnableSource \/ AwaitLock
  <2>1. UNCHANGED <<pll, sws, cached, brr, load>> /\ (req' = req \/ req' = NoRequest)
    BY <1>11 DEF EnableSource, AwaitLock, LockEnds, Fails, Returns, hardware, derived
  <2> QED  BY <1>a, <2>1 DEF NoRequest
<1>12. CASE SetLatency \/ PllOff \/ SetPrescalers
  <2>1. UNCHANGED <<pll, sws, cached, brr, load, req>>
    BY <1>12 DEF SetLatency, PllOff, SetPrescalers, At, derived
  <2> QED  BY <1>a, <2>1
<1>13. CASE Switch
  <2>1. UNCHANGED <<pll, cached, brr, load, req>> /\ pc = "switch"
    BY <1>13 DEF Switch, At, derived
  <2>2. PllP(req.source, req.target) # {} /\ pll = Factors(req.source, req.target)
    BY <2>1 DEF Prepared, OnTheWay
  <2>3. PllHz = req.target /\ req.target >= KILOHERTZ
    BY <1>0, <2>2, FactorsGiveTarget, TargetIsFast
  <2> QED  BY <1>0, <2>1, <2>3 DEF PllHz
<1>14. CASE PllLocks \/ UNCHANGED vars
  <2>1. UNCHANGED <<pll, sws, cached, brr, load, req>>
    BY <1>14 DEF PllLocks, vars, hardware, derived
  <2> QED  BY <1>a, <2>1
<1> QED
  BY <1>1, <1>2, <1>3, <1>4, <1>5, <1>6, <1>7, <1>8, <1>9, <1>10, <1>11, <1>12, <1>13, <1>14
     DEF Next, rcc_init

\* Every register field keeps its range, whatever is asked for and whatever
\* fails: the factors of the PLL, wait states and dividers because rcc_init
\* computes them so, divisor and reload because the register cuts them off
\* (ClockTypeOK).
THEOREM ClockTypes == Spec => []ClockTypeOK
<1> DEFINE Inv == Locked /\ Prepared /\ Known /\ Bounded
<1>1. Init => Inv
  BY LockedInit, PreparedInit, KnownInit, BoundedInit
<1>2. Inv /\ [Next]_vars => Inv'
  BY LockedStep, PreparedStep, KnownStep, BoundedStep
<1>3. Inv => ClockTypeOK
  BY DEF Locked, Prepared, Known, Bounded, PllFields, Dividers, ClockTypeOK
<1> QED
  BY <1>1, <1>2, <1>3, PTL DEF Spec

\* The frequencies the program has cached, its UART divisor and its SysTick reload
\* are those of the hardware, unabridged, whenever the application runs and
\* is not misled, for every set of requests (CacheIsTrue).
THEOREM CacheStaysTrue == Spec => []CacheIsTrue
<1> DEFINE Inv == Locked /\ Prepared /\ Known /\ Bounded
<1>1. Init => Inv
  BY LockedInit, PreparedInit, KnownInit, BoundedInit
<1>2. Inv /\ [Next]_vars => Inv'
  BY LockedStep, PreparedStep, KnownStep, BoundedStep
<1>3. Inv => CacheIsTrue
  <2> SUFFICES ASSUME Inv, pc = "run", ~misled
               PROVE  /\ cached = Clocks(Sysclk, ppre1, ppre2)
                      /\ brr = Divisor(Sysclk \div ppre1, Baud)
                      /\ load + 1 = Sysclk \div 1000
    BY DEF CacheIsTrue
  <2>1. /\ Remembered /\ brr = uart_compute_baud_divisor(Sysclk \div ppre1, Baud)
        /\ load = SystickReload(Sysclk)
    BY DEF Known
  <2>2. HardwareIsSafe /\ ppre1 \in Dividers /\ ws \in 0 .. 3
    BY PreparedIsSafe DEF Prepared
  <2>3. Sysclk \in Nat /\ Sysclk >= KILOHERTZ
    <3>1. CASE sws = "PLL"
      BY <3>1 DEF Bounded, Sysclk
    <3>2. CASE sws = "HSI"
      BY SMT, <3>2 DEF Sysclk, HSI_FREQ_HZ, KILOHERTZ
    <3> QED  BY <3>1, <3>2 DEF Locked
  <2>4. Sysclk <= SYSCLK_MAX
    <3>1. /\ flash_max_freq[0] = 30000000 /\ flash_max_freq[1] = 64000000
          /\ flash_max_freq[2] = 90000000 /\ flash_max_freq[3] = 100000000
      BY DEF flash_max_freq
    <3>2. ws = 0 \/ ws = 1 \/ ws = 2 \/ ws = 3
      BY SMT, <2>2
    <3>3. flash_max_freq[ws] \in Nat /\ flash_max_freq[ws] <= SYSCLK_MAX
      BY SMT, <3>1, <3>2 DEF SYSCLK_MAX
    <3>4. Sysclk <= flash_max_freq[ws]
      BY <2>2 DEF HardwareIsSafe
    <3>5. SYSCLK_MAX \in Nat
      BY SMT DEF SYSCLK_MAX
    <3> HIDE DEF Inv
    <3> QED  BY SMT, <2>3, <3>3, <3>4, <3>5
  <2>5. Sysclk \div ppre1 \in Nat /\ Sysclk \div ppre1 <= APB1_MAX
    <3>1. \A d \in Dividers : \A x \in Nat : x \div d \in Nat
      BY SMT DEF Dividers
    <3> QED  BY <2>2, <2>3, <3>1 DEF HardwareIsSafe
  <2> QED
    BY <2>1, <2>3, <2>4, <2>5, DivisorFits, ReloadFits DEF Remembered
<1> QED
  BY <1>1, <1>2, <1>3, PTL DEF Spec
=============================================================================
