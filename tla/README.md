# CHIP-8 console: TLA+ specification

TLA+ models of the SystemVerilog CHIP-8 console (`src/rtl`) and of the Rust
reference and validation crate kept beside it (`src/validation/rust/chip8-model`),
the TLC runs that check them and the theorems TLAPS proves about them.
`PROJECT.json` lists the components, the runs, the mutants that show each
property can fail, the source lines of every definition, the findings, the
hazards and the theorems.

    tlc -workers 2 -config MCCore.cfg MCCore      # one run
    tlapm Chip8Core_proofs.tla                    # the proofs of a component

## 1. The system

| Component | State | Operations | Speaks to | What must hold |
|---|---|---|---|---|
| CPU core (`core/chip8/cpu`) | FSM state, pc, opcode, I, V0-VF, call stack, draw and burst counters, one prefetch entry | one FSM step per clock; 35 operations in 1 to 150 cycles | memory, display, timers, keypad by wires; `cpu_enable_i` from the SoC | executes the instruction set; no stale opcode; counters stay on their instruction; every instruction ends |
| Memory (`core/chip8/memory`) | RAM, registered read data, one-entry write skid, loader registers | read two bytes, write one per clock | core, ROM load port | a byte loaded or stored is seen by whoever reads after it |
| Display, timers, random generator, debug record | pixels; 60 Hz prescaler and two counters; LFSR; sticky fault flags | clear, XOR a pixel; count; shift; latch | core | collision flag; no underflow; period 255; fault recorded |
| Rust crate (`validation/rust`) | the architectural state | `step`, ALU reference, read-ahead contract, video pipeline, suite | test harness | is the oracle of the core; its suite passes |
| Bootloader (`soc/storage`) | FSM, enable, released, lba, length, loaded, log index | register writes, log a byte, request a read, pass bytes on, release | SD host, arbiter, UART, software | releases the core only with the image in memory |
| SD host | FSM, bit, byte and time-out counters, lba, length | start by software or bootloader; stream; pulse done or error | card, bootloader, software | every started read ends in exactly one pulse |
| DAP bridge and ROM chunk writer (`soc/debug`, `soc/storage/boot`) | parser, command engine, unlock, hold, two FIFOs, chunk counter | packets from UART/USB: unlock, lock, hold, ROM write, register access | AXI-Lite bus, ROM port, core enable | whole packets only, executed once; answers whole and in order; back to the next packet |
| AXI-Lite bridge (`soc/bus`) | skid buffer per channel, captured halves, pending response | one register access at a time | bus masters, register pages | each access performed once, none starved |
| IRQ controller, DMA page | pending and enable bits, status bits | set by events, cleared by software | peripherals, driver | the driver never sleeps on an event |
| Remote keypad, event ring | scan row, debounce, bitmap, ring, control | scan, compare, push, pop | driver, core keypad | core and driver end with the keys as they are |
| Core keypad | synchroniser, debounce | two registers each | core | the core ends with the keys as they are |
| 2D DMA engine | registers, pixel index, overlay memory | snapshot, clear, fill, invert; overlay on and off | software, live frame | the overlay is the frame of the Rust model |
| Camera pipeline, back ends, scaler, board tops | counters | scan out | pins | not modelled, see section 6 |

Everything runs on one clock: in each cycle all registers change together. What
is hard is not the interleaving of steps but what the environment does at each
edge - `cpu_enable_i` falls in the middle of a draw, a ROM byte arrives, a key
is pressed, software writes a register in the cycle of an event, the card stays
silent, the debug line loses a byte - and the latencies between blocks: a store
reaches RAM a cycle after it is issued, an opcode is read a cycle before it is
used, a pulse arrives a cycle after the condition that caused it.

The loader is not the only writer of the core's enable:
`core_rst_n = (boot_core_rst_n || prog_core_release) && !prog_core_hold`
(`chip8_axi_soc.sv:440`). `prog_core_release` is a pulse of one cycle, so without
an SD boot a released core runs for one cycle only.

## 2. Modules

| Module | Models |
|---|---|
| `Chip8Ops` | decoding, ALU, BCD, LFSR, sprite geometry: operators and recursive functions |
| `Chip8Core` | the core and everything clocked with it, one action per FSM state or group of operations |
| `Chip8Model` | `Chip8::step` of `model.rs` as operators on a machine record |
| `Chip8Oracle` | abstract specification: the instruction set as a state machine |
| `Chip8Lockstep` | `Chip8Core` with a retire monitor, the refinement of `Chip8Oracle`, and where the two part |
| `Chip8Reference` | `reference.rs`, `microarchitecture.rs`, the images of `rom.rs` |
| `Chip8Validation`, `Chip8VideoModel` | the passes of the Rust suite over `Chip8Model`; the Rust video pipeline |
| `Chip8SdHost`, `Chip8Bootloader` | the two state machines of the boot path, one disjunct per FSM state |
| `Chip8Boot` | their synchronous composition with the UART transmitter, the ROM port and software |
| `Chip8RegisterFile` | abstract specification: registers behind a queue per channel |
| `Chip8AxiLite` | skid buffers, bridge and a register page; refines `Chip8RegisterFile` |
| `Chip8DapPackets` | packets, commands, answers |
| `Chip8DapTarget` | abstract specification: what a host of the debug port is promised |
| `Chip8Dap` | line, FIFOs, parser, engine, chunk writer and `Chip8AxiLite`; refines `Chip8DapTarget` |
| `Chip8Keypad`, `Chip8Irq` | scanner to event ring and core keypad; controller and DMA page |
| `Chip8KeyEvents` | both under a driver, with keys pressed at any cycle |
| `Chip8Dma2d` | the 2D engine; its expected frame is `Chip8VideoModel!Dma2dApply` |
| `*_proofs` | theorems about `Chip8Core` and `Chip8Lockstep` (`Chip8Core_proofs`), `Chip8Boot`, `Chip8AxiLite`, `Chip8Dap` (two modules), `Chip8KeyEvents`, `Chip8Dma2d`, and the properties of the run `ops` (`MCOps_proofs`) |
| `Chip8Asm`, `MC*` | test programs, images, scripts and bounds for TLC |

In all of them an action is one clock edge (`Tick`), built from one conjunct per
`always_ff` block; the FSM of a block is a disjunction with one disjunct per
state. Where a register write and the FSM assign the same register the later
assignment of the source wins. Operators above the actions are the wires of the
cycle. Variables that are history, and no register, are named as such below.

### Chip8Core

Each variable is a register or a group of registers of `chip8_core.sv` and its
submodules (`draw`, `burst`, `stack`, `timers`, `pfq` are records). An action
fixes what the FSM state does and ends in `Clock`, what the surrounding
registers do at every edge. `enable` is the wire `cpu_enable_i` of the current
cycle; keys and loader bytes are chosen at the edge that samples them.
`LoadsWhileRunning` says whether the ROM port may be used while the core runs:
FALSE for the boot loader, which holds the core while it loads, TRUE where
`chip8_core_top.sv:74` ties the enable to 1, and for a host of the debug port that
sends a program without holding the core.

Left out: the read port and pixel-event outputs of the display, the overflow and
underflow pulses of the stack, the debug registers that mirror core signals, the
trace and breakpoint observers; nothing in the core reads them.

### Chip8Model, Chip8Oracle and Chip8Lockstep

`Chip8Model!Step` is `Chip8::step` of `model.rs`. Two things are left open in
`Chip8Oracle`, because the hardware does them otherwise by design: the value of
the random generator, and the number of timer periods between two instructions.
`Chip8Lockstep` adds the history `arch`, the architectural state at the last
instruction boundary; `Lockstep == Oracle!Spec` under `m <- arch` says that every
instruction the pipelined core completes is one the Rust model would have
executed from the same state. `Restart` of the oracle stands for the enable
line; the lockstep runs keep it high (`AlwaysRunning`), the held core is the
subject of the run `core`, and the proof of `Lockstep` covers both.

`Agreed` says of a cycle that none of the eight known differences shows in it
(section 3). It is the hypothesis of the proof, not of the run.

### Chip8Validation

A pass of the suite is a sequence of conditions, one per check of the source,
evaluated on machines run by `Chip8Model`; `ReportOf` counts as `record` does.
The stress and fuzz passes draw their bytes from a generator in the source; here
the byte is the variable of the run, so that all of them are covered and not
only those drawn.

### Chip8Boot

The content of the card is told apart by origin: `rom[k]` is the block and the
number of the byte stored at k. History: `asked`, the last boot request, and
`alone`, no write outside `Owned` so far. `drain` counts the cycles the last
byte needs from the ROM port into the RAM (loader skid, loader register, memory
skid, RAM), so that `HeldWhileLoading` is what `Chip8Core` assumes of its
environment with `LoadsWhileRunning = FALSE`. The three invariants are claimed
while `alone`: software that starts the SD host beside the bootloader, forces the
release or switches the flow off takes the responsibility itself, and the run
`stale_done` shows why. `LoadEnds` is claimed under any writes.

### Chip8AxiLite

`skid` is the content of the three skid buffers, `bridge` the registers of
`chip8_axi_lite_to_reg.sv`. The master is the environment: it holds valid until
ready and has up to `depth` accesses in flight per channel. A register's `odd`
bit flips with each write, so that a write performed twice is seen. In the
refinement the queue of a channel is the half the bridge has taken followed by
the skid buffer.

### Chip8Dap

The host sends a script of packets, at once (`burst`) or each after the line has
fallen silent (`wait`, as `scripts/programming/chip8_usb_dap.sh` does); in the
scripts of `Unreliable` one byte may be lost. A byte carries what it means, not
its bits; a checksum is the bytes it covers, and a payload holds plain bytes and
checksums of plain bytes, never the image of a packet with its own checksum.
(A payload that is such an image is executed after a lost byte; no framing
without escapes can prevent it.) `todo`, `doing` and `begun` are
history for the refinement: packets not executed, the one last executed, answers
begun. The register side is `Chip8AxiLite`'s own `Frontend` with one access in
flight, which is all the engine does.

The bridge looks at a part of two bytes, and `Chip8Dap` takes the same part: the
chunk writer is handed the low five bits of the length byte
(`chip8_usb_dap_uart_bridge.sv:346`; `ChunkLen` is `LengthByte % LengthSpan`, with
the span twice the longest chunk, 4 for the 32 of the hardware), and HOLD_CORE
takes bit 0 of its byte (line 588). HOLD_CORE with an even byte lets the core go by
a pulse of one cycle (`engine.release`). The target knows whole bytes: a chunk is as
long as its length byte says, 1 holds the core, 0 lets it go. The two agree on
packets that are `WellFormed` - a length below 32, a switch of 0 or 1, as
`chip8_usb_dap.sh` sends them (lines 225, 282) - and `MCDap` assumes that of its
scripts (`ScriptsFit`). What happens to others is in section 3.

### Chip8Keypad, Chip8Irq, Chip8KeyEvents

The ring is a sequence: the pointers of `chip8_keypad_dma.sv` wrap at the depth,
a power of two. The driver is external, written after docs/REG.md: enable, clear
the pending bits, read until empty, read the bitmap; on overflow switch the
keypad off and on, the only way the source offers to clear it. History: `replay`,
the bitmap as the events read so far make it; `view`, the bitmap the driver has
read; `exact`, every change so far came alone.

### Chip8Dma2d

`live` is the core's frame, drawn into at any cycle; `ram` the overlay memory;
`job` (history) the frame and the registers at the start of the operation and
whether anything interfered since. `ResultMatches` compares the overlay at DONE
with the Rust `dma2d_apply` for operations nobody interfered with, whose edges
do not wrap, and whose base is the overlay; `dma2d_first` drops the last
condition.

## 3. Runs

| Run | Shows | Bounds |
|---|---|---|
| `core` | types, read-ahead coherence, unused prefetch entry, sequencers, stack, fault record, every instruction ends; enable, reset, loader and keys free in every cycle | 5 programs that reach every FSM state, 64 bytes, stack of 2, halting on illegal opcodes |
| `lockstep` | the core implements the Rust instruction set | all 1225 ordered pairs of 35 operations, 5 longer programs; 64 bytes, 8x16 pixels, stack of 4 |
| `ops` | BCD, flags, bitwise operations, period of the generator; decoder against the read-ahead contract; Rust ALU against its reference; the Rust suite without a failing check | all pairs of bytes; for the stress and fuzz passes one of the two bytes is one of 64 |
| `boot` | released only with the whole block in memory and the loader empty; a load ends; every boot succeeds once the card answers | 2 blocks, lengths 0, 2, 3 of 8, 4-byte ROM, 2-bit bytes; 3 writes or resets at any cycle, 2 once a foreign write was made |
| `axi` | the port implements a register file; accepted writes and reads are served | 2 registers, 2 words, 1 or 2 accesses in flight, any order and distance |
| `dap` | the bridge implements what a host is promised; answers whole; every packet answered; back to the next packet; no time-out; a locked bridge quiet | after an unlock every pair of 15 packets, 75 pairs without one, two scripts with a lost byte; FIFOs of 2 and 8 bytes, 4-byte ROM; length bytes 1 to 3 for chunks of at most 2, HOLD_CORE 0 and 1 |
| `keypad` | events in order amount to the bitmap; no lost wakeup; ring and overflow served; core and driver settle on the keys | 2x2 matrix, 2 keys of a row, 3 presses or releases at any cycle, ring of 2, driver of any pace |
| `dma2d` | the overlay is the frame of the Rust model; every operation ends | 2x2 pixels, all operations, 4 rectangles, 5 writes or drawn pixels at any cycle |

Four runs find the violation of one property each; the findings say what it means:

| Run | Property | Shows |
|---|---|---|
| `store_ahead` | `Lockstep` | a store into the next instruction: the core executes the old byte |
| `stale_done` | `ImageComplete` | the done pulse of a software read ends the boot load |
| `dap_hold` | `LockedReleases` | a failed UNLOCK leaves the core held by a locked bridge |
| `dma2d_first` | `FirstResultMatches` | with the overlay off, all but the first pixel come from the overlay memory |

### Known differences without a run

The programs of `lockstep` stay clear of the places where core and Rust model
differ. `MCLockstep` has one program for each; with `Images` set to it in
`MCStoreAhead.cfg` TLC shows the difference (the stack of that configuration has
two entries). The last column is the conjunct of `Agreed` the program violates:

| Program | Core | Rust model | `Chip8Lockstep` |
|---|---|---|---|
| `ShiftVF` 8F06, 8F0E | flag wins | shifted value wins | `ShiftsFlag` |
| `EmptyDraw` Dxy0 | VF kept | VF := 0 | `DrawsNoRow` |
| `FullReturn` full stack, return | returns to the last caller | pointer has wrapped: returns to the first | `ReturnsAtTop` |
| `Overflow` a call on a full stack | push dropped | entry 0 overwritten | `Overflows` |
| `Underflow` return on an empty stack | last slot | slot 0 | `ReturnsAtTop` |
| `FontWrite` store below the program | lost behind the font ROM | visible | `WritesFont` |
| `SkipAtEnd` skip at the end of memory | wraps | pc leaves memory | `SkipsPastEnd` |
| `StoreAhead` Fx55 or Fx33 into the next instruction | old byte executed | new byte executed | `FetchesStale` |

The eighth conjunct, `LoadsRunning`, is a byte from the ROM port under a running
program, which the Rust model has no counterpart for. `Agreed` as an INVARIANT of
`MCLockstep.cfg` holds: the hypothesis of the theorem is met by all of its
programs. With `Images <- Parting` and `CONSTRAINTS AlwaysRunning Agreed` in
`MCStoreAhead.cfg` `Lockstep` holds: the differing programs differ in nothing
that happens before.

Others, met while modelling:

- With `LoadsWhileRunning = TRUE`, `PatchedImages` and `PatchedLoads` in
  `MCCore.cfg`, `PrefetchCoherent` fails: a byte loaded between the read-ahead of
  an opcode and its use is missed (`chip8_core.sv:311`, docs/ISA.md:302).
- ENABLE and MANUAL_START in one write to a disabled bootloader start the load
  with the core released (`chip8_bootloader.sv:213`, docs/ARCHITECTURE.md:392);
  switching off is not in `Owned`.
- The log port is ready a cycle too long: of `BOOT\n` bytes 0, 2 and 4 are sent
  (`chip8_bootloader.sv:223`, docs/REG.md:397).
- The chunk counter of the ROM writer is cleared by reset only: a second
  `load-rom` of the host script, or a chunk repeated after a lost answer, is
  refused with BAD_SEQ (`chip8_rom_chunk_writer.sv:144`).
- Of a ROM_WRITE length byte of 32 and more the writer sees the low five bits: 0x21
  with the checksum of one byte is a chunk of one byte, written and answered OK
  (`chip8_usb_dap_uart_bridge.sv:346`). An odd HOLD_CORE byte holds the core, an even
  one lets it go (line 588). With a chunk of length byte 5, or HOLD_CORE 2 or 3,
  among the scripts of `MCDap.cfg`, TLC finds `KeepsPromise` violated.
- The packet parser has no time-out: after a lost byte it takes the next packet
  as payload. `KeepsPromise` shows that nothing but whole packets is executed.
- With two writes in flight back to back a read waits for ever on AXI-Lite;
  `ReadsServed` is claimed for one, and tells nothing of that case.
- LAST_KEY reads 0 outside the cycle of an event (docs/REG.md:203); keys that
  change in one scan tick make one event; a write of DMA_CLEAR, of any bit, drops
  the events of its cycle (docs/REG.md:253) - `Served` does not depend on them, the event line and the sticky
  overflow of the ring wake the driver; the debounce compares two clock
  cycles while the scan changes once per tick, so it filters no bounce.
- The far edges of the 2D rectangle are sums of 7 and 6 bits and wrap, where the
  Rust model clips. A start written while the engine runs is ignored.

### Why the bounds are enough

Address space, screen, stack and timer period are constants: 64 bytes hold
program, subroutine and data with wrap-around, the stack is overrun by four
calls, a sprite of four rows wraps on both edges. The core has no state that
needs more than two consecutive instructions to interact, except memory, stack
and screen, which the longer programs work on. The font ROM is cut to the bytes
below the program; with 64 addresses `Fx29` wraps in both implementations alike.
In the boot path the number of bits per byte and command only stretches time;
lengths around the wrap of the byte count (0) are included. On AXI-Lite two
words and two registers tell stale, doubled and misplaced data apart, and the
skid buffers hold one entry each. In the debug bridge two packets after an
unlock reach every order of two commands in parser, engine and FIFO, the receive
FIFO overflows, and 8 bytes of transmit FIFO hold an answer and a part of the
next. The time limit of 45 cycles is one more than the worst command takes there
(`CommandTime` of `Chip8Dap_proofs`: the bus, the chunk, the bytes of the answer
behind those of the last one); in the hardware, 27 MHz and 115200 baud make a
byte of 2340 cycles and the worst command some 40 thousand, the limit is a
million (`COMMAND_TIMEOUT_CYCLES`). The ring of two events overflows on the third change; the two keys lie in
one row because a ring not larger than the number of rows with keys plus one is
refilled by the switching on and overflows for ever - the hardware has 16
entries for 4 rows. A 2x2 frame has a corner of every kind for the rectangle.

### Fairness

- Core, boot, debug bridge, keypad, 2D engine: weak fairness of `Tick` (of `Next`
  for the 2D engine): while reset is not asserted the clock runs. Writes, resets,
  presses and drawing are bounded by `MaxEvents`, `MaxForeign`, `MaxPresses`, so
  they do not go on for ever.
- `InstructionEnds` holds whatever the enable line does, because a held core
  returns to FETCH; a key wait is excepted.
- `BootEnds` has `CardAnswers` as hypothesis, strong fairness of `Answer`: a card
  that is asked again and again answers in time once.
- `axi`: weak fairness of the edges in which a register is ready and the answer
  is taken - all register pages of the SoC are always ready, and a master waits
  for its answer - and strong fairness of `Complete`, the master delivering the
  missing half of a write it has begun, which AXI demands.
- `keypad`: also weak fairness of `Serve`, a driver that runs. Nothing is assumed
  about its pace.

## 4. Proofs

Each for all values of the constants that the named assumption of the module
allows.

`Chip8Core` (`Chip8Core_proofs`, from `CoreAssumption` and the assumptions on
memory and display beside it):

- `TypeCorrect`: one lemma per group of registers, each step by cases on the
  action; range lemmas for the operators of `Chip8Ops`, BCD and LFSR from their
  definitions bit by bit.
- `StoredEntryNeverUsed`: a fill is accepted only in FETCH right after an eligible
  EXEC, and the EXEC that follows flushes it unless followed by a fill itself.
- `PrefetchNeverStale`, under `LoadsWhileRunning = FALSE`. Not inductive: the two
  bytes in the read registers must equal memory as the program sees it. The
  strengthening says that a fetch in flight has read the bytes at pc (`FillLive`),
  that the loader pipeline is empty while the core runs (`LoaderQuiet`), and that
  a write is pending only in the cycles after a store or BCD step, none of which
  precedes a fill (`WriteBound`).
- `HaltIsRecorded`, `StackConsistent` (arithmetic modulo an arbitrary depth,
  `ModStep`), `RngNeverSticks` (the shift is injective on bytes),
  `SequencersStayInStep`.

`Chip8Lockstep` (second part of `Chip8Core_proofs`, also from
`LockstepAssumption`: at least 16 bytes of memory, so that a burst of 16
registers does not overwrite itself):

- `CoreImplementsModel`: `LSpec /\ []Agreed => Lockstep`. The core implements the
  instruction set of the Rust model for every program, memory, display and stack
  size, illegal-opcode policy and behaviour of keys, enable, reset and loader, as
  long as none of the known differences shows. Each conjunct of `Agreed` has a
  program above that violates `Lockstep` without it (`LoadsRunning`: a load is no
  step of the oracle).
- The argument. `arch` is the state at the last instruction boundary. `InStep`
  relates the registers of the core to it in the middle of an instruction: what
  the instruction has not touched is as in `arch` (`Followed`), and what it has is
  `arch` with the work done so far applied - the first `burst.idx` bytes of a
  store (`Stored`), registers of a load (`Loaded`) or digits of a conversion
  (`Digits`); the pixels of a sprite before the current row and bit toggled, and
  the collision bit set when one of them was lit (`InDraw`, by `Drawn`, `Toggled`
  and the fact that a sprite meets no pixel twice, `SpotFresh`). `Quiet` says that
  no store is in flight when memory is compared, except those of the sequencer.
  Each cycle in the middle of an instruction adds one byte, register, digit or
  pixel and keeps `InStep`, while `arch` follows the timers, which is `Elapse` of
  the oracle or a stutter. Each cycle that ends an instruction has done the whole
  operand, and the step of `arch` is `Step` of the oracle: one lemma per operation
  (`...Completes`), over what the oracle computes for that opcode. Because the
  progress is measured by the counters of the sequencers, no induction over the
  cycles of an instruction is needed: `InStep` is an ordinary inductive invariant.
- It rests on `TypeOK`, `StackShape`, `SequencersInStep`, `HaltRecorded` and
  `StoredEntryUnused`, proved above: the sequencers stop at the last operand, the
  pointer of the stack is its depth modulo its size, a halted core stays on its
  opcode, and an opcode comes from the demand fetch or from the read-ahead of the
  cycle before.

`Chip8Boot` (`Chip8Boot_proofs`, from `BootPathAssumption` and that of the host):

- `BootTypeCorrect`, under any software.
- `ImageIsComplete`, `LoadedIsExact` under `SdLeftAlone` (`Owned` has no write to
  the SD page). `Handshake` relates the states of bootloader and host: while one
  asks the other is idle or works on this request; a done pulse is met in LOAD
  only. `Transfer` says that the bytes counted by the host are those in memory and
  in `loaded`; `StoreStep` adds the byte of the cycle.
- `CoreHeldWhileLoading` also under `HoldLeftAlone` (no write of `Owned` clears
  ENABLE or sets RELEASE) and `LoaderIsShort` (the loader pipeline is no longer
  than four bytes of the card, 4 <= 32 in the hardware): the checksum bytes that
  follow the last byte outlast the pipeline, which `Drained` counts.

It discharges what `PrefetchNeverStale` assumes of the loader for the boot loader.
The other writer of program memory, ROM_WRITE of the debug port, needs the unlock
and no hold (`chip8_usb_dap_uart_bridge.sv:638`): that the core is held while a
program is sent is left to the host, whose script sends HOLD_CORE first.

`Chip8AxiLite` (`Chip8AxiLite_proofs`): `PortTypeOK`, `PortKeepsRequests` by the
invariant `AxiTypeOK /\ RequestKept`, and `PortImplements`, the refinement of
`Chip8RegisterFile`: each disjunct of `Frontend` together with the skid buffers
maps to one step of the register file or to a stutter.

`Chip8Dap` (`Chip8Dap_proofs`, `Chip8DapPromise_proofs`, from `DapAssumption`):

- `DapTypes`, for every time limit: also past it, where the engine starts its
  answer again in every cycle.
- `NoneTimesOut`, `LockKeepsQuiet`, `AnswersArriveWhole` under `LimitIsAmple`
  (`TimeoutCycles > CommandTime`). Past the limit all three are false: the answer
  under way is overwritten and a write of the bus may still be pending. `InTime`
  bounds the time a command has run by what is left of it: a bus access is told
  by its age, at which skid buffers and bridge are in known states (`BusInv`); a
  chunk by the bytes the writer still has to check and write (`RomInv`); an answer
  by the bytes to hand over and the one waiting for the transmitter
  (`ResponseInv`). That a write under way, or a release, was unlocked (`UnlockInv`)
  holds because a command ends before the next is taken. `StreamInv` gives the bytes in FIFO and
  transmitter consecutive places in the answers begun, from the next byte the host
  expects to the next one the engine hands over.
- `PromiseKept`, under `LimitIsAmple` and `ScriptsFit`: the refinement of
  `Chip8DapTarget`, whatever is lost on the line. Without `ScriptsFit` it is false of
  the code (section 3). A packet of the script that is whole fits (`WholeFits`), so
  the length the writer takes is the length byte (`ChunkLenType`), and bit 0 of the
  switch is the switch. `HeldOrReleased`: the release pulse comes from HOLD_CORE with
  the unlock and from nothing else. Three invariants make it work. `PacketInv`: only
  the last byte of a packet is the second half of a checksum, so the bytes between
  host and parser are told by the packets they end (`mark`), one after the other,
  past every packet executed; the bytes before them may be of any packet, or lost.
  `ParserInv`: what the parser holds is what its checksum covers, so a packet that
  passes equals, field by field, the one whose last byte passed it (`PacketIs`),
  and it is one of those left. `WorkInv`: a value on its way through skid buffers
  and bridge, and the chunk at the writer, are those of the packet taken.
  `CommandPromise` then maps each command to its step of the target, `WritePromise`,
  `ReadPromise` and `LoadPromise` each cycle of a command under way: the one in
  which the register or the byte is written to its effect, the one that answers to
  `Finish`, every other to a stutter. Past the limit it is false: BUSY is answered
  while a write still pending may take effect, and the target has no such answer.

`MCOps_proofs`, of what `Chip8Ops` and the Rust reference compute, for all bytes:
`DecimalDigits` (the shift-and-add-3 recursion, by a function that satisfies its
equation), `ExactFlags`, `ExactBitwise` (bit by bit, against sums of powers),
`ReadAheadAsStated` (for every opcode), `AluAsReference`.

`Chip8KeyEvents` (`Chip8KeyEvents_proofs`): `Awake`. `NoLostWakeup` speaks of a
sleeping driver; `IInv` says at each place of the driver's loop what it may rely
on there - before its last look at the bitmap an event is signalled again or the
ring is empty; before ON the ring is cleared, and losses with it. `EventsTell`:
a key is in the amount of the ring as its last event there says, or as the bitmap
read so far says when there is none; reading the first event and adding one at
the end keep that (`AmountHead`, `AmountAppend`), and the keys of one scan that
changes a single key are the new event.

`Chip8Dma2d` (`Chip8Dma2d_proofs`): `FrameIsExpected`. `WrittenSoFar` says that the
pixels below `index` are those expected, `StartKept` that those above are still
the frame at the start; that pixel numbers and places correspond one to one
(`Frame`) needs division by an arbitrary width.

Only model-checked: liveness and fairness, which the prover cannot treat;
`RngIsMaximal`, the orbit of the generator over its 255 states, and
`SuiteIsClean`, folds over concrete images, both induction over data.

## 5. Plan

Done: sections 2 to 4. What a next sitting could take, in order:

1. The chunk writer and the bootloader on one ROM port (`chip8_rom_load_arbiter`):
   which bytes the programmer loses, and that the boot image stays whole.
2. A whole-SoC composition of `Chip8Boot` and `Chip8Core` on a small image.

## 6. Not modelled

- Display back ends (HDMI, LCD, TMDS, timing), video DMA reader, scaler,
  scanout: free-running counters and combinational encoders whose outputs leave
  the chip.
- Camera pipeline in hardware: the SoC ties its inputs off
  (`chip8_axi_soc.sv:567`); the Rust model of it is in `Chip8VideoModel`.
- Asynchronous FIFO and pulse synchroniser with their two-flop synchroniser, the
  common UART blocks, `chip8_bus` with its address decoder, `chip8_pc`, the trace and
  breakpoint blocks: no module of the SoC instantiates them.
- Outputs the core leaves open or unread: of `chip8_control` all but the legality of
  the opcode, of `chip8_io_mux` all but the delay timer and the first key, of
  `chip8_memory_map` the program range. The rest of these three, and `chip8_timer`,
  which wires the prescaler to the two counters, is part of `Chip8Core`.
- Reset controller, board tops, clocking: vendor primitives and a two-flop chain.
- SD checksums: received and compared with nothing. Packet checksums are modelled
  as the bytes they cover.
- Register interconnect: page decoding without state. The receiver of the debug
  UART fills registers that only software reads.
- Rust `main.rs`, `ffi.rs`, the pass over bundled ROM images; cocotb, formal
  benches, scripts, CI: tests and tooling.
