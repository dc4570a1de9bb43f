# Verification of stm32-bare-metal

TLA+ models of the firmware in `src/` (drivers, libraries and applications for an STM32F411), checked
with TLC and, where that is in its reach, proved with TLAPS. The core is the A/B boot loader with its OTA
receiver, anti-rollback floor and crash fallback; around it the OTA transfer from the host tool's side,
framing and the reliable link; then the concurrent parts of the drivers: buffered output, the console, DMA
with its two clients, and the clock tree that everything else derives its timing from.

## Inventory

| Part | State | Operations | Talks to | What is hard | Must hold |
|---|---|---|---|---|---|
| Image and metadata library, `lib/img` | none (pure) | parse, pick active slot, floor, fail_count | boot path, OTA, handshake | two blobs that disagree; counters at their ends | the decision is the same for boot path and OTA; the floor dominates both slots |
| Verification, `loader/verify.c` | none | `verify_slot` | boot path, OTA | partially written images | only complete, signed APP images pass |
| Flash slots, `lib/flash`, `drivers/flash.c` | two payload regions, two metadata sectors | erase, write, commit | boot path, OTA, handshake | erase and program are two operations; power cuts; errors halfway | a torn sector never parses or verifies |
| OTA receiver, `loader/ota.c` | `s_sess` | BEGIN, CHUNK, END, PING, duplicates, slot swap | host over framing/UART, flash | two commits that are not atomic; values read once per session; retries | the previous image survives; the new one wins after the swap |
| Boot path, `loader/main.c` | none in RAM; metadata in flash; RTC backup register | choose, commit, jump, halt | flash, application (fail_count, VTOR, RTC magic) | reset or power loss between any two steps | no rollback; bounded crash loops; fallback |
| Handshake and `ota_request` | metadata, RTC backup register | clear fail_count, request OTA | boot path | runs after an arbitrary boot, may be cut | does not lose the counter |
| Host tool, `tools/ota_send.py` | SEQ, retries | ping, begin, chunks, end | receiver | lost, late and damaged frames; retry of what was done | reported success means installed, and booted if the version is new |
| Framing codec, `lib/framing` (encoder, decoder) | decoder state | encode, feed, reset | receiver, link | byte loss and insertion, resynchronisation, lengths at the limit | exactly the encoded frames are delivered; in step again at the next FLAG |
| Reliable link, `lib/framing` (`frame_link`) | `tx_seq`, `rx_seq`, retry count, timer | send, on_ack, on_nack, tick, on_rx | any lossy byte pipe | loss, duplication, delay | in-order delivery, each payload at most once, ACK means delivered |
| Buffered output, `utils/printf_dma.c` | two buffers, flags | putchar, process, flush | UART TX DMA, its interrupt, the main loop | swaps race with the interrupt, full buffers, check-then-sleep | every character leaves once and in order |
| Console, `utils/cli.c`, `apps/cli` | line buffer, history ring, pending flag | process char, history, tab, execute | UART interrupt, main loop | the interrupt edits the buffer the main loop reads; check-then-sleep | what runs is the line that was on the screen, if no key came early |
| DMA streams, `drivers/dma.c` | stream ownership, callbacks | init, start, stop, release, IRQ | UART, SPI | streams shared by several peripherals | ownership in pairs or not at all |
| SPI driver, `drivers/spi.c` | per-instance transfers | init, deinit, transfer, completion | DMA | first transfer allocates; completion races the caller's wait | a transfer completes, with the transmitter done |
| UART driver, `drivers/uart.c` | DMA index, flags, callbacks | blocking I/O, TX DMA, circular RX DMA | two interrupts, DMA | two interrupts share one ring index | every received byte is handed on once, in order, unless the ring overflows |
| Clock tree, `drivers/rcc.c` | RCC/FLASH registers, cached frequencies | `rcc_init`, getters | UART divisor, SysTick, Stop mode, boot loader's jump | order of register writes, timeouts, state that outlives the program | wait states and bus limits hold at every write; the cache is what the hardware does |
| Watchdog, timers, GPIO, EXTI, CRC, LEDs | registers | configuration | hardware | integer rounding and ranges | the documented period or frequency |
| DSP libraries, `lib/prbs`, `modem`, `dsp`, `channel` | small filter and LFSR states | arithmetic | modem simulation | numerics | PRBS period |
| Signing tools, startup, demos, test harness, vendored code | - | - | - | - | - |

## Plan

Order of the modules, most important behaviour first; all of them exist.

1. `Img`, `FlashSlot`, `OtaReceiver`, `Bootloader` (one device), `Firmware` (what it promises),
   `MCBootloader`, `OtaReceiverProofs`, `BootloaderProofs`.
2. `OtaTransfer` = `OtaReceiver` + host tool + lossy serial line; `MCOtaTransfer`, `OtaTransferProofs`.
3. `FrameLink` over a lossy line with `ReliableChannel` as its abstract specification, `MCFrameLink`;
   `FrameCodec` against a reference decoding of byte strings, `Crc16`, `MCFrameCodec`; `FramingProofs`
   of both.
4. `PrintfDma` under the main loop `OutputLoop`, with `ByteQueue` as its abstract specification,
   `MCOutput`, `OutputProofs`.
5. `Cli` (line editor) under `Console` (interrupt and main loop), `MCConsole`, `ConsoleProofs`.
6. `DmaStreams` with its clients `SpiDma` and `UartRx`, together in `Drivers`, `MCDrivers`,
   `DriversProofs`.
7. `ClockTree`, `MCClockTree`, `ClockProofs`.

Every safety property that a passing run checks is proved as well; what stays with TLC, and why, is said
at the end.

## The boot loader

### Modules

| Module | Models | Correspondence |
|---|---|---|
| `Img` | `lib/img/src/img_header.c`, `loader/verify.c` | pure operators with the names of the C functions; a metadata sector is the record its parse yields or `NoMeta`; a payload region is a function from 64 KB units to the image part, `Erased` or `Garbage` in it |
| `FlashSlot` | `lib/flash`, `drivers/src/flash.c` | `flash_slot_erase`, `flash_write_bytes` (bits only clear), `CommitErase`/`CommitProgram` for the two halves of `flash_slot_commit_metadata`, `Torn*` for what an error or a cut leaves |
| `OtaReceiver` | `loader/ota.c` | `sess` is `s_sess`; one action per frame, `on_frame(f, r)` relates frame and answer; `SwapTarget`/`SwapPrevious` are the commits of `swap_active_slot` |
| `Bootloader` | `loader/main.c`, `lib/bl_handshake`, `cmd_ota_request` | `pc` is where the device's one thread is; `EnterOta`, `BootSlot`, `CommitAndJump` are `main()`; `AppHandshake`, `CommitClear`, `Restart`, `AppRequestOta` the application; `PowerCut` and `OperatorForcesOta` the environment |
| `Firmware` | nothing: the abstract specification | one installed version that only changes while nothing runs, and only to newer ones |
| `MCBootloader` | constants for TLC | |

A step of the model is a stretch of code between two flash operations (or two frames): everything in
between touches only RAM and happens in one step, and a power cut can strike before and after every
flash operation and, for the long ones of a session, in the middle (`TornErase`, at a sector's end or inside it, and `TornWrite`). A torn
metadata sector does not parse: the CRC is the last word of the blob. `floor` is the value `main`
computes at its latest boot; `streak` and `fresh` are history variables that no action reads.

### Runs

All instances have one 64 KB unit per slot, so a transfer is one chunk (multi-unit transfers belong to
`OtaTransfer`), two SEQ values (the receiver only compares a SEQ with the last one), images with versions
1..3 or 1..2, `U32Max = 3`, and at most two accepted chunks per session (`MaxReceived`), enough for a
second BEGIN and a repeated chunk. Initial states: every combination of empty and flashed slots.

| Run | Instance | Shows |
|---|---|---|
| `boot_faults` | flash may fail, cuts everywhere, an unsigned image, versions may be reused, an OTA_BEGIN of `SlotUnits + 1` | `TypeOK`, with counters up to `U32Max`. `RunningDominates`: whatever runs is verified and no older than any stored counter. `OldImageSurvives`: up to the commit of the target, a previous slot that would boot still would. `FreshImageFirst`: after it every reset tries the new slot first |
| `boot_release` | provisioned slot A, bumped versions, no cut between erase and program of a boot or handshake commit | `FreshImageBoots`: an update that was reported ok is what boots next. `FloorMonotonic`, `CrashLoopBounded`, `CrashLoopEnds`, refinement `ImplementsFirmware` |

The two instances differ in their assumptions because the code's guarantees do: a floor that is stored in
the sector being rewritten cannot survive a cut inside that rewrite, the count of an image that was demoted
halfway is forgotten, and an image whose version equals the floor cannot boot. Each of these is one of the
known divergences below.

No fairness is assumed. `CrashLoopEnds` has its progress in its hypothesis (the device keeps crashing);
that the boot loader gets from reset to the jump has no loop that could fail to.

### Proofs

`OtaReceiverProofs` has the lemmas that the proofs about one device and about the transfer share: what the
operators of `Img` and `FlashSlot` return, what one frame does to a well-typed receiver, which slot a session
leaves alone. On it rests `BootloaderProofs`, which proves, for every number of
units, set of images and SEQs, any host and any placement of faults and cuts:

| Theorem | States | Inductive invariant |
|---|---|---|
| `TypeCorrect` | `Spec => []TypeOK` | `WellFormed`: the commit's arguments exist while it runs, the session while the receiver runs, and its target once it receives |
| `AntiRollback` | `Spec => []RunningDominates` | `Dominates`: from the boot decision on, and for the counter about to be committed as well, since the commit becomes a stored counter two steps later. The step that matters is `PostBoot`: the committed counter is exactly the image's version |
| `PreviousSlotSurvives` | `Spec => OldImageSurvives` | `Protected`: the pick of the metadata is still the one made at session start, and everything written goes to the other slot. `PickStable` and `FloorFalls`: losing the target's metadata changes no pick and raises no floor |
| `NewImageFirst` | `VersionsBelowTop => (Spec => []FreshImageFirst)` | `FreshWins`: the pending counter is above all stored ones (no wrap, since the accepted version is at least the maximum and below `U32Max`), the demotion is pending for the other slot |
| `FloorNeverFalls` | `CommitsComplete => (Spec => FloorMonotonic)` | `FloorKept`: the slot that the metadata pick has the highest counter, counting a commit of the boot path or handshake that has erased its sector as done; what a session erases is the other slot. `WinnerTops` and `LosesOther`: the floor of the next boot is that counter, which no step lowers |
| `NewImageBoots` | `NewReleases => (Spec => []FreshImageBoots)` | `Upgrade`: what a session brings to its target's base is not of the version it has seen, so what is committed is newer and its counter is its own version: at the floor, not below it |
| `CrashLoopsStayBounded` | `CommitsComplete /\ NewReleases => (Spec => []CrashLoopBounded)` | `Counted`: jumps are covered by the stored fail_count, or the image has fallen below the floor since and cannot be booted again, or its count is just being cleared |
| `OneFirmware` | `CommitsComplete /\ NewReleases => (Spec /\ Shipped => ImplementsFirmware)` | `OneInstalled`: the slot picked first always holds a bootable image of the version that is the highest counter, and that version is what runs. Only the program half of the target's commit changes which slot that is |

They rest on the ASSUMEs of `Img`, `FlashSlot`, `OtaReceiver` and `Bootloader`, which TLC evaluates on every
run, and on these hypotheses:

- `VersionsBelowTop`: with an image of version `UINT32_MAX` `max_seen_counter + 1` wraps to 0, the new
  counter only equals the old slot's, and a cut before the demotion leaves the old image first
  (`ota.c:371`). `boot_faults` respects it (versions 1..2, `U32Max` 3), so TLC does not get to the wrap
  itself; `TypeCorrect` covers it. `NewImageBoots` does not need it: a newer version is its own counter.
- `CommitsComplete`: no flash operation fails, and no cut falls between the erase and the program of a boot or
  handshake commit. Cuts everywhere else, inside a session and its swap included, are covered. Without it the
  floor falls and the count of an image is forgotten (see Known divergences).
- `NewReleases`: images bump the version (`~ReusesVersions`), and erasing a slot erases its header
  (`HeadersErased`: the first sector of a slot is in its sector list). An image whose version is the floor is
  committed with `floor + 1` and cannot boot (see Known divergences).
- `Shipped`: the chip is delivered with a good image in slot A, as `make flash` writes it. With nothing
  installed there is no firmware to be the one that runs.

The refinement maps each step of `Bootloader` to a step of `Firmware` or a stutter: jump and reset to
`Start` and `Stop`, the commit of the target to `Install`, all else to a stutter.

`CrashLoopEnds` is liveness and only model-checked.

### Left out

SHA-256, ECDSA and CRC arithmetic (an image is signed and complete or not; a blob parses or not); UART
output of the boot loader; the receive loop's bytes (frames arrive whole: `FrameCodec`); a debugger that writes arbitrary metadata; flash wear. Not stated as a property: the fail_count of
a clean boot is always 1 when the handshake runs, so that the second commit `anti-rollback.md:160-162`
says is skipped is made at every boot.

## The OTA transfer

`OtaTransfer` extends `OtaReceiver` with the host tool and a serial line, one FIFO of frames in each
direction. `host` is the tool: `stage` counts its exchanges (PING, BEGIN, chunks, END), whose SEQ is
`stage % SeqMod`, `attempt` is the loop variable of `_send_and_await`, `result` the exit status.

| Action | Code |
|---|---|
| `HostReceive` | `_read_until_frame` returns the first frame of what it has read (later ones of the same read are dropped); `_send_and_await` takes it as the answer or uses up an attempt |
| `HostTimeout` | no frame until the deadline; resend or give up |
| `DeviceFrame` | one frame through `frame_decoder_feed` and `on_frame` |
| `DeviceSwap`, `DeviceReset` | the two commits after OTA_END and the reset |
| `DeviceDeaf` | bytes that arrive while nobody polls the receive register |
| `LoseFrame` | loss, or damage that the decoder's CRC turns into loss |

`statusLost` and `refused` are history variables. A unit of `SlotUnits = 3` stands for 64 KB, so the real
sector layout is visible: slot A erases all three units, slot B two (`RealSectors`), while OTA_BEGIN
accepts three for either (`flash_slot.h:67-69` says both are erased completely, `flash_slot.c:13-19`
says why B is not). `AckedIsWritten` therefore speaks of the erased part. A unit is sent as one chunk.

| Run | Instance | Shows |
|---|---|---|
| `ota_eager` | timeouts at any moment, two losses, failing flash, either slot named, old content in the slots, an unsigned image | `OkMeansInstalled`: exit code 0 means that the whole image is in the slot and the next boot tries that slot first; that this boot takes it, past fail_count, verification and floor (`Boots`, from `try_boot_slot`), if and only if its version exceeds every counter stored before the run. A chunk that arrives twice is counted once; the host never goes past a chunk that is not written unless a handler refused it |
| `ota_quiet` | three losses, no early timeout | every transfer ends in ok unless the one STATUS is lost |
| `ota_reack` | violation: failing flash, no loss | a refused BEGIN or chunk is acknowledged when it is sent again with the same SEQ |

Bounds: SEQ modulo 4 (five exchanges, so it wraps), `MAX_RETRIES = 3` as in the tool, at most four frames
on the line, up to three losses (the retries of one exchange). Fairness in `ota_quiet`: the device handles
what arrives, finishes its flash operations, and the host reads what arrives and its clock runs; these are
the polling loop, the hardware and the host's clock. The loss budget is what the retries cover.

The receiver has no timeout of its own: when the host gives up, the device stays in the session until it
is power-cycled, which is modelled in `Bootloader`.

### Proofs

`OtaTransferProofs` proves, for every set of images, slot geometry, number of retries, SEQ width from two
values on, and any losses, timeouts, deaf phases and flash failures:

| Theorem | States | Inductive invariant |
|---|---|---|
| `TransferTypes` | `TransferSpec => []TransferTypeOK` | with `HostTyped` and `ReceiverTyped` |
| `ReceivedIsWritten` | `TransferSpec => []CountedOnce` | `SessionFits`, `Counted`: the session is the host's, its target the slot the host names, and the count is at most the units that accepted chunks cover |
| `AcknowledgedIsWritten` | `TransferSpec => []AckedIsWritten` | `Written`: a unit the host has gone past is written, or its chunk or the BEGIN was refused; the same for one whose answer is on the line |
| `OkIsInstalled` | `VersionsBelowTop /\ HeadersErased => (TransferSpec => []OkMeansInstalled)` | `SwapInv`: during the swap the target is whole and wins the pick. `OkInv`: ok is on the line, or reported, only after that. `FloorInv`: the session's floor is the one stored before the run; the target's commit writes `NewTop`, the version or that floor plus one, whichever is larger, and no failed boots; after it the target holds that counter and the other slot none above the old floor. So the gate of the next boot opens exactly for a newer version |

All of them rest on `Line`: frames and answers on the line are of the host's exchange or of the one before,
the older first, and the SEQs of two exchanges in a row differ (`SeqsDiffer`, which is why two values of SEQ
are enough). A frame the device takes as new is therefore of the current exchange (`FreshIsCurrent`), and what
it takes as a repetition has been answered. `LineKept` splits every step into four kinds: nothing happens to
the flash (`Quiet`), one new frame is handled (`Fresh`), a commit of the swap, or the reset. The host's own
rule that an answer must carry the SEQ of its exchange is what keeps late answers apart. `TransferCompletes` is
liveness and stays with TLC; `DuplicateMeansMissedAck` is the property that fails.

## The reliable link

`FrameLink` models the two halves of `frame_link_t` that carry data in one direction, each function of
`framing.c` an action or operator of its own name. No application in the repository uses the link yet
(it is meant for the inter-board link of plan 002), so its two callers are modelled from what `framing.h`
asks of them: acknowledge every data frame, NACK a damaged one, call `frame_link_tick`, send again what
failed (`Resubmits`). Payloads are numbered; `delivered` is the sequence the peer's caller has processed.
A tick before the timeout does nothing; a tick after it may come at any moment, also while the ACK is on
its way. A write may fail at any time. `ReliableChannel` is the promise: each payload once, in order, one
at a time, and acknowledged only after it was delivered.

| Run | Shows |
|---|---|
| `link_reliable` | `ImplementsChannel`, `AckedIsDelivered`, `AttemptsBounded`, and `AllAcknowledged` under the fairness below; SEQ ring of 2, so that it wraps at every payload, three payloads, two retries, two losses |

Fairness of `AllAcknowledged`: ticks and arriving frames are handled (weak); a transport that is tried
again and again accepts a frame, and the timeout is not shorter than the round trip every single time
(strong). The first is what `framing.h` asks of callers, the second is the configuration's duty.

`FramingProofs` proves, for every width of SEQ and attempts, number of retries, line bound and losses:

| Theorem | Argument |
|---|---|
| `LinkTypes`, `AttemptsStayBounded` | `TypesAndAttempts`: while a send is awaited, `attempts` is the number of writes tried; it cannot wrap because of `RetryAssumption` (`max_retries < 255`). With 255 it would wrap to 0 and never exceed `max_retries` |
| `SuccessMeansDelivered`, `LinkIsChannel` | `Alternates`: the line holds frames of the previous payload followed by frames of this one, only of this one once it has arrived, and ACKs in the same order. `Freshness`: the peer's single remembered SEQ tells new from repeated exactly. Both assume `Resubmits`; see the known divergences |

`AllAcknowledged` is liveness and stays with TLC. Restarting one endpoint (`frame_link_init`) is left out:
the layer has no session start, and nothing in the code promises anything across one.

## The framing codec

`FrameCodec` is `frame_encode` and `frame_decoder_feed` with its helpers, byte by byte and with the names
of the C code; `tools/_framing.py` is the same codec in Python. The number of values of a byte, the
checksum and the exclusive or with which an escaped byte is sent are constants; `Crc16` is `frame_crc16`,
with the width of a byte as its parameter, and `MCFrameCodec` puts it in. The decoder is a state
machine whose step is a byte: `Flag`, or `Feed(b)` with `Escape`, `HeaderByte`, `BodyByte` and `Drop`;
`frame_decoder_reset` may come at any time. The reference, `IsFrame`, looks at the whole string between two
FLAGs at once: unescaped, is it header, payload and CRC of the frame?

| Run | Instance | Shows |
|---|---|---|
| `framing` | bytes of 2 bits (4 values, two of which are FLAG and ESC), a payload buffer of 1, types 0..1, every string of up to 12 bytes between FLAGs | `FramesAreExact`: between two FLAGs a frame is delivered exactly when the bytes are that frame, and one error is reported exactly when they are none, so nothing damaged is delivered, no frame is missed, and the decoder is in step again at the next FLAG whatever came before. `EncodedIsDecoded`: the encoder's output, within its worst-case length, decodes to the frame |

The header has four bytes, the trailer two, and a longest frame is 7 bytes, 14 when each of them is
escaped; twelve raw bytes are enough for every way a frame can be too short, too long or cut inside an
escape. `CodecTypeOK` bounds the decoder's indices, the hazard of a length field that claims more than the
buffer has.

`FramingProofs` proves the three properties for every number of values of a byte, every buffer up to what
two length bytes can say, every type limit and every string of bytes between FLAGs:

| Theorem | States | Argument |
|---|---|---|
| `CodecTypes` | `DecoderSpec => []CodecTypeOK` | a length above the buffer's drops the frame before a byte of payload is stored, and the third byte after the payload drops it too |
| `DecodesExactly` | `DecoderSpec => []FramesAreExact` | `DecoderInv`: as long as the frame is not dropped, the fields are, one for one, the unescaped bytes since the FLAG (`Stored`); once it is dropped, one error has been reported and the bytes hold two escapes in a row, a length above the buffer's or more bytes than the length says (`Hopeless`), which no later byte repairs. At the FLAG the fields that are complete and whose checksum agrees are the bytes of that frame (`DeliveredFrame`), and bytes that are a frame leave complete fields and an agreeing checksum (`StoredFrame`) |
| `EncodesExactly` | `DecoderSpec => []EncodedIsDecoded` | `AllExact`: every string, stuffed, has no FLAG, is at most twice as long, and reads back |

What the proofs assume of the constants: FLAG and ESC differ (`CodecAssumption`), two bytes hold a checksum
and a length (`CrcAssumption`), and what is sent for a FLAG or an ESC is neither and leads back to it
(`XorAssumption`; in the code, 0x7E and 0x7D with 0x20). Nothing is assumed of the checksum's quality: the
theorem says that what is delivered has the right one. TLC evaluates the assumptions for the instance of
`framing`.

`Unescaped` and `Stuffed` go through a string byte by byte, so these proofs need induction over its length.
The library's induction theorems take an operator and cannot be used; `Induction` is proved for sets
instead, from the well-foundedness of the finite subsets of Nat (`SmallestOf`), and then says that the
recursive functions exist (`UnescapesExists`) and depend only on the bytes they have read
(`UnescapesSame`).

## Buffered output

| Module | Models | Correspondence |
|---|---|---|
| `PrintfDma` | `utils/src/printf_dma.c`, `uart_write_dma` and its completion | `mem`, `index`, `active`, `tx_buffer`, `pending_tx` are the file's statics, `tx_busy` the UART's; `src`, `next`, `ndtr`, `tcif` the TX stream |
| `OutputLoop` | the main loop of `cli_simple.c` around it | `pc`: handlers print, `printf_dma_flush` spins, `Process`, the check, `WFI` |
| `ByteQueue` | nothing: the abstract specification | one bounded queue of characters; a text is taken whole or refused |
| `OutputProofs` | | the proofs below |

`_putchar` runs in the main loop only: the comment at `printf_dma.c:43` allows for interrupts as well, but
the receive interrupt echoes through `uart_write` (`cli_simple.c`), which does not touch these buffers.
With that, a call is one step: the completion interrupt clears `tx_busy` and the index of `tx_buffer`,
and each call has read both before, or neither.

| Run | Instance | Shows |
|---|---|---|
| `output` | two buffers of 4 bytes, two characters and the line end | `ImplementsByteQueue`: no character is lost, doubled or reordered by a swap or by the interrupt between any two calls; only a full buffer refuses. `PendingIsSent`: what was marked leaves, also when the interrupt comes between `printf_dma_process` and the WFI. `OutputTypeOK`: no index leaves its buffer |

Four bytes are the smallest buffer in which a line end, a character and a full buffer differ. Fairness:
the loop gets to `printf_dma_process` again and again (strong, since handlers print in between; a handler
prints something finite), its other steps, the stream, its interrupt and SysTick go on (weak). The last is
what ends a WFI that begins just after the completion interrupt.

| Theorem | States | Argument |
|---|---|---|
| `LoopOnlyCalls` | the main loop's `Spec => OutputSpec` | each of its steps is a call, hardware or a stutter of the output layer |
| `OutputTypes` | `Spec => []OutputTypeOK` | with `StreamBusy` and `StreamIdle`: while `tx_busy`, the stream reads `tx_buffer`, which is not the active one, and `next + ndtr` is its index; otherwise the other buffer is empty |
| `OutputIsQueue`, `LoopIsQueue` | `ImplementsByteQueue`, of the layer alone and under the loop | one lemma per call: the sequence `Unsent` grows at its end or loses its head or stays |

They hold for every `Size >= 3` and every character set. `PendingIsSent` is liveness and stays with TLC.

Not lost, but not as documented: `printf_dma_flush` says it waits until all is sent; if the transmitter is
busy when it is entered, the mark is left pending, it waits for the old transfer only and returns with text
unsent (`printf_dma.c:70-74`, `printf_dma.h:42-48`). `cmd_stop_mode` relies on it, and its
`printf_dma_init` after the wake-up then drops that text.

## The console

`Cli` is the line editor of `utils/src/cli.c`, `cli_process_char` in the receive interrupt, and what the main
loop's functions are built from. `Console` is `cli_simple.c` with `cli_history_save` and
`cli_execute_command`: `pc` is where its main loop is, and `CharReceived` is the interrupt, which may come
between any two steps, also several times. A step is one statement or one round of a loop: a character of the
comparison, a character of the copy, a command of the search. `buffer[buffer_pos] = 0` is two, since the position
is loaded before the NUL is stored; head, count and browse position are separate stores. Merged into one step are
the reads of a single condition: one command's test, and the search for the argument. The buffer and the
history's slots are memory, not strings: recall writes no NUL, and what lies behind `buffer_pos` is old text.

`prompt` says where the latest prompt is: owed, since the line has been given up; queued, when `printf` has taken
it; shown, when the DMA has sent it. Only then does a new `line` begin: what is echoed earlier stands before the
prompt. `line`, `past` (the lines saved) and `entered` (the line at Enter) are history variables; `early` says
that a key has come between Enter and the next prompt.

| Run | Instance | Shows |
|---|---|---|
| `console` | a letter, Enter, Backspace, Tab (which supplies the space), Up and Down; a line of 4 (3 usable), a history of 2, the commands "xx" and "xxx", one early key (an arrow counts as one) at any step of the main loop | `ScreenIsBuffer`: once the prompt is shown, what is shown is what Enter will run, unless a key was early; after it the next line is in step again. `RingIsPast`: at every step, also inside `cli_history_save`, the ring holds the latest lines in order, but for the oldest slot while it is overwritten. `RunsWhatWasEntered`: handler and argument are those of the entered line, if no key was early. `EnteredIsServed`: an Enter between the check and the WFI is served after the next tick |

One command is a prefix of the other so that completion stops at what they share and matching must look at
the end of the word; a history of two wraps at the third line. `MaxEarly = 1` bounds the early keys of a
behaviour, not where they come; the proofs are for any number. Keys other than Enter find the idle loop
asleep: its other steps touch nothing they do. Fairness: the main loop runs, SysTick ticks.

What an early key does is why three of the properties except it. It edits the buffer that is being read: the
length, the characters and the command are then of different moments, and if it comes between load and store of
`cli.c:29` or `:60`, the NUL overwrites the character that was echoed. What was typed before `buffer_pos = 0`
(`cli_simple.c:51`) is given up; what is typed after it is in the buffer, but on the screen it stands before the
prompt. An Enter pressed before `cli_simple.c:58` finds `command_pending` set and is forgotten. None of this
leaves the buffer, the stash or the ring (`CliTypeOK`). An empty Enter while browsing leaves `history_browse` where
it was, so the next Up goes on from there. The callbacks are attached (`cli_simple.c:103`) before `cli_init`
(`:108`); a key in between is left out.

### Proofs

`ConsoleProofs` proves, for every buffer and history size, set of characters and list of commands, and
wherever between the steps of the main loop keys come, any number of them early:

| Theorem | States | Conjuncts of `ConsoleInv` it rests on |
|---|---|---|
| `ConsoleTypes` | `Spec => []CliTypeOK` | `MemoryInv`, `HistoryInv`, `BrowseInv`, which hold whatever comes early: positions stay inside the line buffer and the ring, and the last place of each is a NUL |
| `ScreenShowsBuffer` | `Spec => []ScreenIsBuffer` | `LineInv`: without an early key the memory begins with the line's characters once the prompt is shown (nothing is claimed of what lies behind them), and the buffer is empty until then |
| `RingHoldsPast` | `Spec => []RingIsPast` | `HistoryInv`: entry n of the ring, counted from the latest, is `past[n + 1]`, but for the slot being copied; `Known` counts the new entry from the moment head moves. The lemmas that matter are `CopyRing` and `AdvanceRing`, since the oldest entry is overwritten before `past` drops it. `SaveInv`, `PastInv`: what has been copied, or found to be a repetition, is the line |
| `RightCommandRuns` | `Spec => []RunsWhatWasEntered` | `RunInv`: without an early key the pending line keeps its characters and its NUL until it is cleared, and handler and argument were read off that line. `MatchIsNamed`: matching byte by byte in memory finds the command that the first word names; `ArgsAreArgument`: the pointer `args` reads what is behind it |

`SmallestOf` (a non-empty set of naturals has a least
element) is proved from the well-foundedness of finite subsets: the loops of the code that stop at the first
character of a kind are CHOOSEs of a least position. The proofs assume `CliAssumption`: the sizes are
positive, command names are made of letters, and space, NUL and the control keys are no letters.
`EnteredIsServed` is liveness and stays with TLC.

## DMA, SPI and UART reception

`DmaStreams` has the stream's state and `dma.c`'s functions as operators on it; `SpiDma` and `UartRx` are its
clients and `Drivers` composes them: both use the same `stream` variable, and the map of instances to
streams is the board's. SPI1 and SPI4 receive through the same stream, and SPI3 transmits by the one
USART2 receives through.

| Action | Code |
|---|---|
| `Transfer`, `InitRx`, `InitTx`, `Enable`, `Start`, `Waits` | `spi_transfer_dma(_blocking)` cut at every write another party sees |
| `spi_init`, `spi_deinit` | the functions of that name |
| `ShiftByte`, `TakeByte`, `RxComplete` | shift register, RX stream, and `spi_dma_rx_complete_cb` |
| `uart_start_rx_dma`, `uart_stop_rx_dma` | the functions of that name |
| `ByteArrives`, `LineIdle`, `TransferComplete` | the ring, the idle flag, `uart_rx_dma_tc_callback` |
| `IdleReads`, `IdleDelivers`, `IdleEnds` | the idle interrupt: reads NDTR, calls back, stores it |

| Run | Instance | Shows |
|---|---|---|
| `drivers` | three SPI instances, two handles, transfers of 1 or 2, a ring of 3, bytes numbered modulo 5 | `StreamsInPairs`: an instance has both of its streams or neither. `TransmitterIsDone`: at RX completion TX has stopped, which the callback relies on. `TransferEnds`: the blocking call returns. `HandedInOrderOnce`, `IdleLeavesNothing`: the callback gets every byte, once and in order, and nothing stays behind when the line goes idle, except for a ring that got full before it was read: that is skipped as a whole, and reception is in step again afterwards |
| `uart_nested` | violation: the ring wraps inside the idle interrupt | the same bytes are handed on twice |

Five numbers are more than the ring's three places can hold outstanding, so a byte that is skipped or
repeated shows. Two handles and three instances give every pair of owners that compete for a stream.
Fairness: the code inside a call goes on, the hardware moves bytes, the interrupt is taken (all weak).

Nothing stops the stream: it writes on when the ring is full. With as many bytes in it as it is long, head
equals tail and the driver takes it for empty (`uart.c:356`, `458`). The history variable `lapped` is true from then
until the next transfer-complete interrupt, which sets `rx_dma_last_ndtr` behind the skipped bytes; the two
properties except exactly these bytes. A ring of one byte is full with each of them. TLC reaches a full ring in
the run `drivers`, at each position of the ring.

Callers are those of the repository: one open handle per instance, no transfer and no deinit of a busy
handle. Outside of that the code promises less than it may seem
to: `uart_start_rx_dma` ignores
the result of `dma_stream_init` (`uart.c:398`) and would start a stream SPI3 owns; `uart_deinit` releases no
stream, and the ERR_BUSY of a re-initialisation is ignored; the callback's context is the handle of the
first transfer (`spi.c:287`); `spi_deinit` of a busy handle leaves `dma_busy` set.

`DriversProofs` proves, for every map of instances to streams (any of them shared, also with the UART), and
every length of transfer and ring:

| Theorem | States | Inductive invariant |
|---|---|---|
| `DriversTypes` | `Spec => []DriversTypeOK` | `Shapes`: a stream that is enabled has items left, a circular one reloads some, and the call names an open handle |
| `StreamsStayInPairs` | `Spec => []StreamsInPairs` | `Ownership`: inside a first transfer the instance has at most its RX stream; apart from that both and no other, or none |
| `NothingIsLeft`, `BytesInOrderOnce` | `~WrapsInside => (Spec => []IdleLeavesNothing)`, `~WrapsInside => (Spec => HandedInOrderOnce)` | `RingInv`: from where the callback reads next the ring holds the outstanding bytes in order, up to where the stream writes, as long as they are fewer than the ring is long; inside the idle interrupt the count it has read lies between the two; once the line is idle that is all there is. `NewBytes` shows that the one or two pieces the callback is given are those bytes, also across the end of the ring |
| `TransmitterStops` | `Spec => []TransmitterIsDone` | `InStep`: per instance, what RX has still to take is what TX has to give and what is in the data register; only a busy handle's streams run. `GoodKept` carries it over the steps of other instances, whose streams are disjoint by `Ownership` |

They rest on the named assumptions of the modules (RX and TX of an instance differ, lengths are not
zero, the UART is not an SPI instance) and on the callers' rules above; for the UART there are none. `~WrapsInside` is the assumption of the
run `drivers`: with a wrap inside the idle interrupt the same bytes are handed on twice, which `uart_nested`
shows. `TransferEnds` is liveness and only model-checked.

## The clock tree

`ClockTree` is `rcc_init` register write by register write, with the calculations (wait states, APB dividers,
PLL factors, UART divisor, SysTick reload) as operators in Hz. Around it is the program's life:
`SystemInit` at reset, `Reclock` by an application, `StopAndWake` (Stop mode leaves the hardware on HSI, `cmd_stop_mode`
restores 100 MHz), and `Jump`: the boot loader's jump keeps the hardware's clocks and clears the cache.
`PllLocks` may happen at any moment, and a wait may time out instead.

| Run | Instance | Shows |
|---|---|---|
| `clock` | eleven requests, any of them in any state: both sources, 16 to 100 MHz, the HSE without PLL, two without PLL factors, one above the limit | `HardwareIsSafe`: flash wait states and bus limits hold between any two writes. `RunsOnLockedPll`. `CacheIsTrue`: while the application runs, cached frequencies, divisor and reload are those of the hardware, also after a failed `rcc_init` at boot, unless the program is `misled` |

The requests reach every number of wait states, every PLLP that has a use, an APB1 divider of 1 and 2,
and every early return. No counters, so the state space is finite without bounds.

No request is left out: the history variable `misled` names the three places where the cache goes wrong in the
code, and `CacheIsTrue` holds outside of them. With the PLL in use `rcc_init` takes the fast path and caches the
target it was asked for, whatever the hardware does (`rcc.c:144`). The direct path does not reset the APB
dividers and, for HSE, caches 8 MHz while SYSCLK stays on HSI (`rcc.c:153-155`). And a PLL timeout after Stop mode
leaves the cached 100 MHz over a 16 MHz clock, since `cmd_stop_mode` ignores the result (`cli_commands.c:472`).
`misled` ends when `rcc_init` has set up the PLL, or takes the fast path or the direct path with the frequency
that the hardware has. The first two properties hold in any case.

`ClockProofs` proves, for every set of requests:

| Theorem | States | Inductive invariant |
|---|---|---|
| `PllIsLocked` | `Spec => []RunsOnLockedPll` | `Locked`: rcc_init is past its fast path only while HSI is in use |
| `HardwareStaysSafe` | `Spec => []HardwareIsSafe` | `Prepared`: what has been written is right for the frequency that is to come; with `LatencyIsEnough`, `DividerIsEnough` and `FactorsGiveTarget` about the calculations. Holds for any frequency `rcc_init` may be asked for and any failure, after Stop mode as well |
| `CacheStaysTrue` | `Spec => []CacheIsTrue` | `Known`: per place, unless misled, what is cached and asked for against what the hardware has |
| `ClockTypes` | `Spec => []ClockTypeOK` | `Bounded`: PLL factors are within their fields because `rcc_init` computes or refuses them, whatever is asked for; the divisor and the reload because 16 and 24 bits of them are kept. That nothing is cut off while not misled is part of `CacheStaysTrue`: the divisor and the reload are there those of the hardware's clocks |

`CacheStaysTrue` rests on `BaudAssumption`, a baud rate above `APB1_MAX \div 65535`, that is 763 or more: for a lower
one the 16-bit result of `uart_compute_baud_divisor` would be cut on the fastest bus (`DivisorFits`). The code uses 115200.


## Known divergences

Where the code does not do what the repository says. Two of them are runs that TLC refutes:

- `ota_reack`: `ota.c:394-397` says that a duplicate SEQ always means a missed ACK. `on_frame` records the
  SEQ also of a frame it refused, so a BEGIN or chunk whose flash operation failed is acknowledged
  when it is sent again.
- `uart_nested`: `uart.h:193-195` says the callback is for new data. `irq_priorities.h:17-19` lets the
  stream's interrupt nest in the idle interrupt, which stores the index after the callback (`uart.c:470`).

The others are why an instance or a theorem has an assumption; TLC finds a counterexample to the property
named once the assumption is dropped:

- A version equal to the floor is accepted and reported ok, committed with `floor + 1` and refused at boot,
  as is the old slot: the device halts (`ota.c:371`, against `main.c:8-10` and the ok of `ota_send.py:261`).
  `FreshImageBoots` with `ReusesVersions = TRUE`. `OkMeansInstalled` states it as it is: after an ok the image
  is picked and verifies, and passes the gate exactly if its version is newer than the floor before the run.
- A cut between erase and program of a boot or handshake commit loses the counter in that sector, so
  the floor falls (`flash_slot.c:119`, against `anti-rollback.md:94`). `FloorMonotonic` with `CutAnywhere`.
- After an upgrade the crash fallback halts: the other slot is below the floor (`main.c:156`, against
  `anti-rollback.md:183-187`).
- After a fallback the session protects the slot that crashed and lets the host erase the one that boots:
  `ota.c:159` takes the metadata's pick, the boot path also counts and verifies (against `ota.c:35`).
  `OldImageSurvives` therefore speaks of the slot the metadata picks.
- A caller of the link that gives a payload up and sends the next one reuses its SEQ; if the first had
  arrived the second is dropped as a duplicate and reported as a success (`framing.c:475`, against
  `framing.h:172`). `AckedIsDelivered` with `Resubmits = FALSE`.

And these are named by a history variable, by which the property excepts them; the model goes through them, and
TLC finds a counterexample once the exception is dropped:

- A circular buffer that gets exactly full before it is read is taken for an empty one, and a whole ring of
  bytes is skipped (`uart.c:356`, `uart.c:458`, against `uart.h:193-195`). Nothing in the repository
  keeps a sender from it. `lapped` in `HandedInOrderOnce`; for `IdleLeavesNothing` what was skipped
  is not owed any more (`due`).
- Keys between a line's work and its prompt are kept but stand above the prompt (`cli_simple.c:51-55`); a key
  between load and store of the terminating NUL is overwritten after its echo (`cli.c:29`, `cli.c:60`); an
  Enter before `cli_simple.c:58` is forgotten. `early` in `ScreenIsBuffer` and `RunsWhatWasEntered`.
- The cached frequency is not the hardware's after the fast path with another target, the direct HSE path, and a
  PLL timeout after Stop mode (`rcc.c:144`, `rcc.c:153-155`, `cli_commands.c:472`). `misled` in `CacheIsTrue`.

## Not modelled

- SPI performance test, demos, modem simulation and the on-target test harness: straight-line code over
  drivers and libraries with no state of its own between calls.
- Independent watchdog, GPIO, EXTI, timers, CRC, LEDs: register writes with almost no state. What others need of
  them is modelled there: SysTick and WFI in `Console` and `OutputLoop`, Stop mode in `ClockTree`.
- Of the UART driver: blocking byte I/O, error flags and `uart_deinit`. Of SPI: polled transfers and pins. Of the
  console: what the commands do, except `ota_request` (`Bootloader`) and `stop_mode` (`ClockTree`).
- Fault handler and log: a register dump that is formatted and printed.
- DSP (PRBS, BPSK, RRC, AWGN): arithmetic on long buffers, whose errors are numerical.
- Cryptography: vendored SHA-256 and ECDSA; the models take their verdict.
- Startup code, linker scripts, signing and provisioning scripts: run once, with no interaction.
- Nearly all of the lines in `src/` are vendored CMSIS device headers (register addresses and masks of
  thirty STM32F4 parts), which have no behaviour.

What TLAPS cannot reach stays with TLC: liveness (`CrashLoopEnds`, `TransferCompletes`, `AllAcknowledged`,
`PendingIsSent`, `EnteredIsServed`, `TransferEnds`), and ENABLED. Of `Crc16` nothing is proved: it is shifts
and exclusive ors of bits, which the prover does not know, and the codec needs only its range.
