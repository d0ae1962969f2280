# GEMMrv32 in TLA+

GEMMrv32 is a NEORV32 system on chip in which the data memory has been replaced by a 256-bit wide block RAM that the
CPU shares, through a crossbar, with a matrix-multiply accelerator attached as the custom functions subsystem (CFS). A
C library, `sw/example/gemm_lib`, drives the accelerator.

The specifications model the hardware at clock-cycle level (one step is one rising clock edge of everything in the
model) and software at the level of bus accesses or of words of a stream. They concentrate on what is hard to simulate
exhaustively: two masters on one memory with different bus protocols, a watchdog on the bus, an engine programmed over
a pipelined bus, a write-back cache between the CPU and that memory; two cores that synchronise by atomic accesses over
an arbitrated bus; a DMA controller fed through a FIFO by software that may abort it; and a bootloader whose flash may
lose power in the middle of a word.

Paths below are relative to `src/`; VHDL files are in `rtl/core/`.

## 1. Inventory

### Components and their state

| Component | Source | State | Operations |
|---|---|---|---|
| GEMM accelerator | `neorv32_cfs.vhd` | eight registers, status, FSM of 12 states, row and k counters, fetched tiles `buf_A`, `buf_B`, dot products, accumulators `buf_C`, DMA request | register access; fetch A, fetch B, multiply, accumulate, store C |
| Memory crossbar | `neorv32_memory_crossbar.vhd` | arbiter state, latched lane of the CPU read | grant DMA, grant CPU, release; routing |
| Wide block RAM | `neorv32_wide_bram.vhd` | rows of eight words, read register, acknowledge | byte-enabled write, read, out-of-bounds access |
| Bus gateway and monitor ("keeper") | `neorv32_bus.vhd` 252-492 | state, lock, selected port, timeout counter | accept, count, time out, end of (locked) transfer |
| Bus switch | `neorv32_bus.vhd` 17-153 | state, last winner, locks, remembered strobes | arbitrate two hosts, lock |
| Register stage | `neorv32_bus.vhd` 166-227 | a registered request and response | pass on |
| Atomic units | `neorv32_bus.vhd` (`amo_rmw`, `amo_rvs`) | FSM, operands; reservation | read-modify-write; LR/SC |
| Data / instruction cache | `neorv32_cache.vhd`, `neorv32_cache_ram.vhd` | FSM of 17 states, valid and dirty bits, tags, data, pending flags | hit, miss, eviction, bypass, fence |
| CPU load/store unit, fetch engine | `neorv32_cpu_lsu.vhd`, `neorv32_cpu_frontend.vhd` | request registers; prefetch buffer | access; fetch, restart |
| CPU control, ALU, co-processors, CSRs, PMP, triggers | `neorv32_cpu_*.vhd` | architectural state | instruction execution, traps |
| System control | `neorv32_sys.vhd` | reset sequencer, clock dividers | reset |
| DMA controller | `neorv32_dma.vhd` | descriptor FIFO, FSM, address and count | copy, with configurable increment |
| External bus, serial memory controller | `neorv32_xbus.vhd`, `neorv32_smc.vhd` | FSMs | forward accesses off chip |
| Peripherals | `neorv32_{uart,spi,sdi,twi,twd,slink,onewire,neoled,gpio,pwm,gptmr,trng,wdt,clint,tracer}.vhd` | FIFOs, counters, serial engines | register accesses, line protocols |
| On-chip debugger | `neorv32_debug_*.vhd`, `sw/ocd-firmware` | DM registers, program buffer, handshake flags | halt, resume, execute |
| Matrix library | `sw/example/gemm_lib/gemmrv_hw.c` | loop variables | `gemmrv_mult`, `hw_gemm_tile`, `gemmrv_post_process` |
| DMA driver | `sw/lib/source/neorv32_dma.c` | none; reads and writes back `CTRL` | enable, disable, program, start, status, acknowledge |
| SMP start-up | `neorv32_smp.c`, `sw/common/crt0.S` | mailbox in `MTIMECMP[1]`, software interrupt | launch core 1 |
| Spin locks | `sw/example/demo_dual_core*/spinlock.c` | the lock word | lock, unlock, check |
| Bootloader | `sw/bootloader` | executable's base and size, flash address; main memory and flash contents | auto-boot, upload, load, store, boot |
| Runtime, other drivers | `sw/lib` | trap table | traps, thin register accesses |

### How they interact

```
 CPU LSU --[D-cache]--+                                    +-- IMEM, boot ROM
                      +- bus switch - [DMA switch] - AMO - gateway -- IO: register stage - switch - CFS registers
 fetch  ---[I-cache]--+                                    +-- crossbar CPU port --+
                                                                                   +-- wide block RAM
                                     CFS DMA port (256 bits) ------ crossbar ------+
```

* *Bus protocol.* A host strobes for one cycle and keeps the rest of its request until it receives one acknowledge,
  with or without an error. There is no "busy" signal: a device that cannot take a strobe must remember it.
* *Crossbar protocol.* The accelerator instead holds its strobe until it is acknowledged. The arbiter leaves a grant
  when it sees the granted strobe low.
* *Keeper.* The gateway counts cycles without an answer and ends the access with an error (16 cycles for the on-chip
  memories). A locked transfer is watched until its lock is released.
* *Programming the accelerator.* The driver writes base addresses, strides, bounds and a start bit, polls `done`, clears
  start and polls until `done` is gone. Nothing is shadowed: the engine reads the registers while it works.
* *Two cores* share one bus through a round-robin switch; behind it a prioritising switch lets the DMA controller in. The
  read-modify-write controller turns an AMO into two locked accesses, the reservation station makes a failing
  store-conditional vanish. The cores talk through memory and through the CLINT (mailbox, software interrupt).
* *DMA and application.* Descriptors go through a FIFO, three words each; start, status and interrupt through one control
  register whose flags change one after the other. Disabling clears the FIFO at once and stops the engine later.
* *Bootloader and flash.* A header (signature, base, size, checksum) and the executable. Storing writes the data first and
  the header last; loading trusts the signature and a checksum of the data.
* *The accelerator's own bus port* (`cfs_req_o`) is tied off (`neorv32_cfs.vhd:87`), so its bus switch only forwards.
* *Sharing the memory.* Neither the crossbar nor the caches keep CPU and accelerator coherent; software does (fences).

### What is hard, and what makes each part correct

* **Data-memory subsystem** - single-cycle strobes meet an arbiter that looks at them only when idle; the held strobe of
  the accelerator makes the block RAM execute and acknowledge each access twice; strobes that are not remembered are
  left to the keeper's timeout. *Correct if* every acknowledge answers the request it is taken for, the whole behaves as an atomic
  memory in which a failed access has had no effect, and every access ends.
* **Accelerator and driver** - two state machines that synchronise over a bus with a register stage in each direction;
  tiles that are smaller than the engine; accumulators that live across starts; a reset that clears only some registers.
  *Correct if* C = A*B for all sizes, nothing outside C changes, and the call returns.
* **Cache** - memories that answer one cycle late; fences that arrive during accesses; transfers that fail half-way;
  atomic accesses that bypass a block that may be cached and modified. *Correct if* reads are current, no write is lost,
  a fence is complete before the access that follows it, errors reach the access they belong to.
* **Cache on the crossbar memory** - the crossbar knows neither locks nor bursts.
* **Bus switch and atomic units, spin locks, launch** - strobes remembered while the switch is busy, locks that outlive an
  answer, reservations that any write must cancel, two cores stealing one reservation from each other. *Correct if* the
  memory sees one access at a time, each program gets atomic accesses in a fair order, the locks exclude, a core is
  launched with what it was given, and every access ends.
* **DMA controller and driver** - a synchronous FIFO read while it is filled, an engine that samples its enable bit once
  per element, chains that stop at an error. *Correct if* it executes the programmed descriptors in their order and
  exactly, its status is true, an abort is prompt, and every transfer ends.
* **Bootloader** - devices that fail, uploads that are mangled, flashes that stay busy, power failures during a store.
  *Correct if* only whole executables are started without asking, what was loaded is what the source holds or sends, a
  store is all or nothing at every instant, "OK" means that it will load, and the auto-boot sequence boots if nothing
  disturbs it.
* **Debugger, peripherals, traps** - planned, see section 7.

The hazards, each with the line where it bites and the properties that cover it, are listed in `PROJECT.json`.

## 2. Modules

| Module | Models | EXTENDS / composes |
|---|---|---|
| `WordTypes`, `DmemTypes` | bits, words with byte enables, rows, requests | |
| `MemoryCrossbar` | the crossbar | `DmemTypes` |
| `WideBram` | the block RAM | `DmemTypes` |
| `BusGateway` | the keeper and the response filter | |
| `BusReg` | the IO register stage | |
| `SharedMemory` | **abstract**: an atomic memory with two clients | `DmemTypes` |
| `DmemSystem` | host + gateway + crossbar + block RAM + DMA port | refines `SharedMemory` |
| `DmemSystem_proofs` | theorems about it | `DmemSystem`, `TLAPS` |
| `Sums` | sums and powers, as recursive functions | |
| `GemmCfs` | the accelerator, both processes | `DmemTypes`, `Sums` |
| `GemmDriver` | `gemmrv_mult` and `hw_gemm_tile` | |
| `GemmSoc` | driver + register stage + accelerator + crossbar + block RAM + other masters | |
| `GemmSoc_proofs` | what sums are, by induction; theorems about the system's handshake, memory port, frame and result | `GemmSoc`, `TLAPS` |
| `Cache` | the cache's control engine and memories | `WordTypes` |
| `CacheHost` | the CPU side of a cache: accesses and fences | `Cache` |
| `CacheSystem` | cache + a bus with arbitrary latency and errors + another writer | `CacheHost` |
| `CacheSystem_proofs` | theorems about its control, bus and errors, and on top of them about its contents | `CacheSystem`, `TLAPS` |
| `CachedDmem` | data cache + gateway + crossbar + block RAM + DMA port | `CacheHost`, the three above |
| `CachedDmem_proofs` | a theorem about its bus monitor | `CachedDmem`, `TLAPS` |
| `BusSwitch` | the arbiter of two hosts, both priorities | |
| `AmoRmw` | the read-modify-write controller | `BusSwitch` |
| `AmoRvs` | the reservation station | `BusSwitch` |
| `SpinLock` | **abstract**: a lock word, atomic accesses, reservations that any write cancels | |
| `SpinLock_proofs` | theorems about it | `SpinLock`, `TLAPS` |
| `DualCoreCode` | launch, both spin locks, the demos, as tables of accesses | `BusSwitch` |
| `DualCore` | two cores + DMA port + two switches + both atomic units + memory | refines `SpinLock` |
| `DualCore_proofs` | theorems about its buses, an access from core to memory, and locks, counter and launch | `DualCore`, `SpinLock_proofs`, `TLAPS` |
| `Dma` | the DMA controller and its FIFO | |
| `DmaDriver` | `neorv32_dma.c`, an application, the controller and a memory of any speed | `Dma` |
| `DmaDriver_proofs` | theorems about it | `DmaDriver`, `TLAPS` |
| `Bootloader` | auto-boot, console, load, store, boot; flashes, SD card, UART, power | |
| `Bootloader_proofs` | theorems about what it stores and starts | `Bootloader`, `TLAPS` |
| `MC*` | constants of the TLC runs | |

### Correspondence with the code

*State.* Each VHDL signal assigned under `rising_edge` is a variable (or a field of a record variable) with the source's
name. Combinational signals are operators (`mem_req`, `cpu_rsp`, `host_rsp`, `cache_req`, ...).

*Steps.* A clocked process is a `...Tick` action, the disjunction of one action per FSM state or per branch
(`FetchA`, `FetchAWait`, ..., `ArbGrantDma`, ...). A system's `Tick` conjoins the ticks of its parts with the wiring as
arguments, so there is no artificial interleaving inside a clock. What is really asynchronous - when the CPU accesses,
when a fence comes, when another master writes, when the system is reset - is nondeterministic.

*Driver.* `TileScript` is the sequence of volatile accesses of `hw_gemm_tile`; a read stands for its polling loop. Between
two accesses the CPU may pause as long as it likes (`DriverPause`), which covers instruction timing and interrupts.

*Two cores.* `DualCoreCode` gives every program place its bus access (`Instr`) and its successors (`After`); `DualCore`
adds the phases of an access in the load/store unit (strobe, wait, answer or trap). The switches are one operator
instantiated twice, as the entity is. The gateway and what is behind it are one memory that performs an access when
its strobe arrives and answers one or two cycles later, or with an error and no effect. `watch` and `overtaken` are history
variables. The refinement mapping reads a core's place with the access it waits for taken into account (`Place`): an
access counts when the memory has performed it, not when the core hears of it.

*DMA.* Each register and each FSM state of `neorv32_dma.vhd` is there, the FIFO with its registered `avail` flag and read
data. The words of the FIFO are records: an address, or a configuration; what a word of the wrong kind means as either is
one fixed junk value. `data_buf` is latched only with an acknowledge (in between it holds what nothing reads). The memory
answers in any later cycle; what lies behind it is a bus error. A driver function is its sequence of accesses, each
setter a read and a write of `CTRL`, with any number of cycles between two of them.

*Bootloader.* A step is a word of a stream, an erased sector, a device set up, or a key. Programming an SPI flash clears
bits (`Programmed`, half a word at a time; `Cleared` is a parameter, in the runs the bitwise and). A word that is being
written when the power fails, or when a TWI transfer is not acknowledged, may keep half of its old bytes (`Mix`); a
sector that is being erased is erased or not. A store behind the main memory traps, and the program has halted. After
every byte and sector the code polls the flash without end: a flash that stays busy, or answers no more, is the action
`FlashHangs`, after which only a reset helps (`spi_flash.c:158`, `227`, `twi_flash.c:94`); else the polling is part of the
step. The UART may mangle any word of an upload, of the header too, into one that is one too high (`Mangled`): a signature
ends the load, a size makes it wait for a word that never comes, a checksum or a word of data does not add up, and a base
address is taken (`misplaced`).

*Data.* A word is a function from byte positions to bytes, so byte enables mean what they mean in hardware. Runs use one
byte (memory, cache) or two bytes (accelerator, so that 2^w arithmetic, sign extension and the byte lanes of a word
matter). `BYTE_MOD`, the number of values of a byte, is 8 there: products are signed and sums wrap modulo `BYTE_MOD^2`,
as they wrap modulo 2^32 in the hardware. Addresses are their bit fields.

*Undefined.* The accelerator's performance counters are assigned in both of its processes, so a read returns any value of
`PerfValue`. `col_cnt` is only ever assigned 0 and is left out. `tile_N` is written and never read by the engine, which is
what `GemmSoc_vector_c` is about.

## 3. Runs

| Run | Question | Answer |
|---|---|---|
| `DmemSystem_safety` | Does every acknowledge answer the request it is taken for? Does the subsystem refine `SharedMemory`? Is `IInv` invariant? Is every accelerator request served and every CPU access ended? | yes |
| `GemmSoc_result` | Is C = A*B for all sizes up to 1.5 tiles in each direction, with row and column vectors as inputs? Does nothing else change? Also while other masters read C and write elsewhere, and when a reset interrupts the call anywhere and it is repeated? Is the handshake sound, does the call return? | yes |
| `GemmSoc_vector_c` | May C be a vector with stride 1, as the library's README says? | **no** |
| `Cache_data` | A data cache with bursts, atomic and uncached accesses, fences and another master; one without bursts on a failing bus; an instruction cache with `fence.i` at any time | reads are current, nothing is lost, fences are complete, errors go where they belong |
| `CachedDmem_single` | Does the data cache without bursts work on the crossbar memory while the accelerator uses it? | yes: transfers disturbed by it end with an error, and every access ends |
| `CachedDmem_burst` | And with bursts? | **no**: wrong words are cached |
| `DualCore_demo` | Do the locks of both demos exclude, is the atomic counter exact, is no access lost or overtaken twice, does the launch hand over what it should, do both programs return - next to a DMA, and with a bus error at any access of the swap lock or the counter? | yes |
| `DualCore_starvation` | Are load-reserved and store-conditional free of starvation? | **no** |
| `Bootloader_console` | Commands in any order, with a failing device, a mangled upload or a flash that hangs, and a power failure anywhere | what boots unasked is a whole executable, if not at a mangled address; a load takes what its source has; a store is all or nothing; what is stored loads; an undisturbed auto-boot boots |
| `Bootloader_sector` | Does "OK" mean that the executable can be booted? | **no** |
| `Dma_driver` | Does the DMA execute what was programmed, exactly and to the end, and tell the truth, whenever the application polls, sleeps or disables it? | yes (no descriptor writes bytes to words, see below) |
| `Dma_incomplete` | Does it wait for the rest of an incomplete descriptor? | **no** |

Each module's `TypeOK` documents the types of its variables. That of `DmemSystem` is part of `IInv`, checked and proved;
the others are not among the runs' properties, whose own definitions would fail to evaluate on an ill-typed state.

The runs marked **no** check a sentence of the repository's documentation that the code does not meet; each is quoted
under "findings" in `PROJECT.json`.

1. *Vectors* (`gemm_lib/README.md:7`). A row of C is always stored eight words wide.
2. *Bursts* (`soc_dmem.adoc:20`). The lane of a read is latched once per grant. Needs the optional data cache.
3. *Starvation* (`soc.adoc:728`). The turn changes only with a successful store-conditional, and a core may always renew
   its own reservation. Core 1 spinning in `spin_lock` executes LR only, since the lock is taken; with the turn on its side
   it takes the reservation from core 0 between core 0's LR and SC, again and again. The counterexample needs the two
   loops to stay in step, which two deterministic cores running the same instructions can do.
4. *Sectors* (`software_bootloader.adoc:264`). `num_sectors` is computed from the size of the executable, which starts
   16 bytes behind the base of the flash: the last words may lie in a sector that was not erased. `StoredLoads` holds for
   every size for which this does not happen (`Fits`), and the checksum keeps the damaged executable from booting.
5. *Incomplete descriptors* (`soc_dma.adoc:94`). `S_GET_3` does not look at the FIFO. The run lets the application program
   while an earlier chain runs, and the engine arrive between the second and the third word.

Divergences seen while modelling that no run is about:

* The CPU can lose an access without a fence in sight: a strobe that arrives while the accelerator is granted is
  forgotten, and ends in a bus error (`neorv32_memory_crossbar.vhd:5` promises first come, first served); the crossbar has
  no lock input (`cpu.adoc:579` promises exclusive access).
* C must start on a 32-byte memory row, because a stored row of C is shifted to the lane of its address and what crosses
  the row is dropped (`neorv32_cfs.vhd:339`); `gemmrv_hw.h:23` only asks for strides that are multiples of eight.
* A DMA transfer from bytes to words replicates the byte (`rep4_f`, `neorv32_dma.vhd:347`); `soc_dma.adoc:38` and example 4
  of `demo_dma/main.c` (lines 261-265) say zero-extended. `ElementByte` is what the manual says; no descriptor of
  `Dma_driver` widens, since `CopiesExact` would fail, and the theorem `MovesElements` says what the code does instead.
* Starting a DMA transfer clears the error flag by itself (`neorv32_dma.vhd:154`);
  `soc_dma.adoc:64` asks for a manual acknowledge.
* The base address of an executable is covered by no checksum (`system.c:146`): if the UART mangles it, the upload is
  accepted with "OK", stored if asked, and `e` starts it, without a question, elsewhere than it was made for.
  `software_bootloader.adoc:164` has the checksum ensure "the transfer and integrity of the executable", and line 221 an
  error during a transmission "certainly be detected". The properties of `Bootloader_console` allow exactly this
  (variable `misplaced`), which the run reaches.
* A power failure between the base and the size word of the header leaves size 0xFFFFFFFF behind a valid signature. The
  next auto-boot copies until it leaves the memory and traps, and the console promised by
  `software_bootloader.adoc:188` is not reached (`Overruns` in `AutoBoots`).
* Disabling the DMA while it fetches a descriptor leaves the engine waiting, busy, for the words that were cleared
  (`neorv32_dma.c:72` says the transfer is terminated). The properties excuse such descriptors (variable `cut`).

## 4. Bounds, and why they are enough

* **Geometry.** Two lanes per row instead of eight, rows of one-byte words. Lane selection, partial writes and
  out-of-bounds rows (`INDEX_ROWS` > `NUM_WORDS`) all occur with two; the theorems hold for every geometry.
* **Timeout.** `PortTmo` 2 instead of 16: the shortest in which an access is answered before it times out. A strobe that
  the crossbar takes is answered while the keeper's count is still zero (`CpuGrant` of `IInv`), so in `DmemSystem` a timeout
  never falls into the cycle of an answer, as it cannot with 16; in `CachedDmem`, under a lock, it may. `CachedDmem` uses 4: with 2 every transfer disturbed by the
  accelerator would fail. `MaxTmo`
  bounds the counter, which wraps in the model as it does in its bits.
* **Matrices.** A tile is 2x2. Sizes 1 to 3 in each direction give one full tile, one partial tile, and a full one
  followed by a partial one, in every combination: every branch of the tiling and masking code is taken. Two memory
  images, two offsets of A and B within a row; one image and one job with disturbance and reset.
  `MaxResets` = 1: after the second reset nothing differs from after the first except the accelerator's left-overs,
  and the first one already leaves any left-overs a call can produce.
* **Perf counters.** `PerfValue` = {0}: nothing reads them.
* **Two cores.** One lock, one neighbour in its granule (written by the DMA with the LR/SC lock), one counter. `WORD_MOD`
  5 keeps apart 0, the lock's value, a stack, the start-up code and `main`; the counter reaches 2. One bus error
  (`MaxErrs`), at any access of the swapping and the counting program. Answers come after one or two cycles, so that an answer can fall into any state of a
  switch. The starvation run has no such slack: its counterexample is the exact periodic schedule.
* **Bootloader.** A word is 16 bits, a sector four words (as long as the header), a flash three sectors, executables of two
  and four words with the same base: one that ends inside its sectors, one that ends in the sector behind the erased
  ones. Words were chosen so that no torn or bit-cleared word of the runs has the checksum of another: the checksum is a
  sum and can collide, which the model would show as it would happen. One upload, one store, one fault (a mangled word,
  an error of a device, or a flash that hangs), one power failure: enough for each to meet every step of the others. `FLASH_WORDS` wraps addresses, as a real flash does.
* **DMA.** FIFO of eight words, so that three descriptors of three words wrap its pointers and do not fit at once; counts
  up to seven; sixteen bytes of memory. Three descriptors: unaligned bytes with swapped order, words with swapped
  order, and a byte whose copies run out of memory at the second. Sources and destinations lie in different words.
  Addresses and configurations are told apart, so that a descriptor read out of step is recognised.
* **Caches.** Two blocks of two words, two cached tags and (in `Cache_data`) an uncached one: conflict misses, dirty
  evictions, hits to both blocks. `CachedDmem_burst` uses four-word blocks, the smallest where a burst spans two
  memory rows. Main memory starts as zeros (`CacheSystem`) or with neighbouring words that differ (`CachedDmem`);
  dirty bits, tags and (uniformly) data of the reset cache are arbitrary, since RAMs have no reset. The other master
  of `Cache_data` writes only a word in a block the CPU does not write (`SharingAssumption`): false sharing is software's
  to avoid. It writes next to the failing cache too, a word that is only read there.

## 5. Fairness

* *Clock:* `WF(Tick)`; the clock does not stop. `DmemSystem`'s liveness is stated without resets (a reset ends an access
  without an answer); nothing else is assumed, in particular no fairness between the two masters: that the CPU is
  eventually answered is the keeper's doing.
* *Cores:* `WF_clk` on the clock of `DualCore` and `DmaDriver` (a variable that changes with every cycle and with nothing
  else), and `Executes`: a core does not stay between two accesses forever, nor asleep with its interrupt pending. No
  fairness between the cores is assumed.
* *DMA:* the memory answers every request (at the latest the keeper does), a call of the driver is carried through, an
  application that waits polls, and the interrupt is taken. An application that does not wait need not do anything.
* *Bootloader:* weak fairness of the program's own steps, except while it waits for the sender of an upload or polls a
  flash that hangs, and of the count-down. Users need not press keys, and devices fail at most `MaxFaults` times.
* *Driver:* `WF(Tick /\ DriverAccess)`: a program that is not blocked makes its next access. In `GemmSoc` resets are
  bounded by `MaxResets`.
* *Bus of `CacheSystem`:* `WF(TickWith(BusAnswer))`: an outstanding request is answered, if only with an error; this is
  what the keeper provides; `CachedDmem_single` checks the same property with the real keeper instead, under `WF(Tick)`
  alone.

## 6. Proofs

`DmemSystem_proofs` proves, for every number of lanes, rows and word bytes, all timeouts of at least two cycles, and all
sets of requests:

| Theorem | States |
|---|---|
| `TypeCorrect` | `Spec => []TypeOK` |
| `Inductive` | `Spec => []IInv` |
| `KeeperFollows` | `Spec => []KeeperTracksHost` |
| `DmaAnswersTrue` | `Spec => []DmaAckTruthful` |
| `CpuAnswersTrue` | `Spec => []CpuAckTruthful` |
| `Implements` | `Spec => ImplementsSharedMemory`, the refinement |

*Assumptions.* Those named in the modules: positive sizes, `0 \in Byte`, `NUM_WORDS <= INDEX_ROWS`, the timeout of the
data-memory port a natural number above 1 (`DmemAssumption`; with a timeout of 1 the keeper would end every access), the
request sets contain strobes.

*The inductive invariant.* "Acknowledges are truthful" is not inductive: an acknowledge is the crossbar's grant combined
with a register of the block RAM set one cycle earlier. `IInv` says what relates them. `CpuGrant`: while the CPU holds the
grant, the host waits, the keeper is busy with a zero count (so it cannot fire in the cycle of the answer) and the block
RAM's registers and array agree with the host's request. `DmaGrant`: the same for the accelerator in the *one* cycle of
its grant in which its strobe is still high - the stale second acknowledge comes when the strobe is low, and this is
exactly where the argument needs the accelerator to lower its strobe. `StrobeFindsIdle` and `KeeperInStep` tie the keeper
to the host, which gives `KeeperTracksHost` its induction step. Each conjunct has its own lemma (`TickKeeper`,
`TickCpuGrant`, `TickDmaGrant`), resting on what one access does to the block RAM (`CpuAccess`, `DmaAccess`).

*The refinement.* An operation takes effect in the cycle in which its request passes through the idle arbiter
(`ArbGrantCpu`, `ArbGrantDma`); the phase of an operation is read off host, keeper and arbiter. A step that grants maps to
`CpuPerform` or `DmaPerform`, a timeout to `CpuFail`, everything else to steps of one side or to stuttering. The
accelerator's second write maps to a stutter because merging the same bytes twice changes nothing (`MergeRowTwice`) and
no CPU write can come between (the grant is still the accelerator's).

`SpinLock_proofs` proves, for any set of cores:

| Theorem | States |
|---|---|
| `SpinLockInvariant` | `Spec => []LockInv` |
| `SpinLockExcludes` | `Spec => []MutualExclusion` |

Mutual exclusion is not inductive: that a core which sees a free lock may enter depends on nobody being inside when the
word is 0 (`LockTells`), and that its store-conditional may rely on what the load saw depends on the word being still 0
while its reservation is intact (`WatchedFree`). `LocksImplemented` below shows that the hardware with the two locks' code
implements `SpinLock`; these theorems say what that is worth for any number of cores, with either lock or both mixed.

`DualCore_proofs` proves, for any addresses, granules, latency, number of bus errors and DMA accesses, of `DualCore`:

| Theorem | States |
|---|---|
| `OneAccess` | `Spec => []OneAccessAtATime` |
| `RoundRobin` | `Spec => []NotOvertaken` |

*One access at a time.* The property speaks of strobes and answers that are combinational through four stations, and
none of them knows whether an access is pending. `AccessInv` has one part per station. `CoreSide`: a waiting core is
connected by the first switch or its strobe is remembered there, and a connection outlives the core's access only under
the lock it was made with. `DmaSide`: the same of the second switch, for which the first one is a host like the DMA; its
lock is that of the core connected there. `MemSide`: the controller and the memory are at rest unless an access is served
(`Active`), and while one is, the memory is busy exactly in the controller's three waiting states. The steps are proved
station by station, each in terms of what the one before shows (`CoreStep`: rest, begin, wait, answered, release;
`AccessStep`: a strobe begins an access, the answer ends it), from three lemmas about one switch (`SwitchServes`,
`SwitchSleeps`, `SwitchGrants`) that serve both.

*Round robin.* `NotOvertaken` needs to know what the switch remembers: a core that was passed over once waits behind the
other one's access, or finds it selected last in the idle switch (`OvertakenInv`), and then it is next
(`PassedOverIsNext`).

Its second part proves, on top of `OneAccess`, what an access does on its way through two switches, the
read-modify-write controller and the reservation station, and when:

| Theorem | States |
|---|---|
| `FlightKept` | `Spec => []FlightInv` |
| `AtomicAccesses` | `Spec => [][Effect \/ GivesUp]_vars` |

*Atomic accesses.* `AtomicAccesses` is the abstract specification of the whole bus path, as an action: in a step at most one
access of one host takes effect, with the result an atomic memory with reservations gives at that instant (`CoreEffect`,
`DmaWrites`), and every other core merely goes on with an answer that was determined before (`Quiet`). The other
disjunct, `GivesUp`, is core 0 abandoning the launch. `FlightInv` carries it: `Fields` says that what a switch remembers or
passes on is the access of the program place of the core that waits, and `FlightSide` that the pending answer, the
controller's operands and the station's verdict belong to that access, and that what a read-modify-write has read is
still what the word holds.

Its third part proves what the programs make of that:

| Theorem | States |
|---|---|
| `LocksImplemented` | `Spec => ImplementsSpinLock`, the refinement |
| `OnlyOnePrints` | `Spec => []MutualExclusion` |
| `CountsExactly` | `Spec => []CountExact` |
| `LaunchesTruly` | `Spec => []LaunchTruthful` |

*Assumption.* `SharedAssumption`: the DMA writes none of the words the cores share (lock, counter, mailbox), and a word
holds the values the programs store. The DMA may write a neighbour of the lock, which cancels reservations.

*The refinement* takes the steps of `AtomicAccesses` one by one: an effect of a lock instruction is a step of `SpinLock`,
everything else stutters. It needs that a reservation the hardware keeps is one the abstract lock keeps too
(`ReservationSide`); the converse is false, hardware reservations are lost for more reasons, and a failing
store-conditional is always allowed. *Mutual exclusion* of the program counters is more than that of the lock, because
a core hears late of its last store: `SetFree` says that until it has, the lock is still free, since the other core's
access has to wait for the same bus. *The count* is tied to the performed increments (`CountSide`). *The launch* needs the whole
handshake (`Handshake`): which words core 0 has written, which of them core 1 has copied, and that core 1's
acknowledgement is not one of an earlier word.

`CacheSystem_proofs` proves, for any number of tags, blocks and words, with and without bursts, for data and instruction
caches, any accesses and fences, latency and errors of the bus:

| Theorem | States |
|---|---|
| `EngineInStep` | `Spec => []ControlInv` |
| `TypesKept` | `Spec => []TypeOK` |
| `LockHeld` | `Spec => []LockCoversTransfer` |
| `ErrorsAnswered` | `Spec => []ErrorsReported` |

and, on top of it, about the contents:

| Theorem | States |
|---|---|
| `WordsInPlace` | `Spec => []DataInv` |
| `ReadsLast` | `Spec => []ReadsCurrent` |
| `KeepsWords` | `Spec => []NothingLost` |
| `FenceFirst` | `Spec => []FenceBeforeBypass` |

*Assumptions.* `CacheAssumption`, `HostAssumption` (an instruction cache is not written) and `SharingAssumption` (the other
master writes no word of a block that the CPU writes in the cache): without the last one a write-back overwrites what
the other master wrote, as it does in the hardware.

*Control.* The engine has three offset counters, of which two run ahead of the answers, and the data RAM answers one
cycle late. `TransferSide` says that the unanswered requests are exactly the words from the answered to the requested
ones (`Outstanding`), `OffsetSide` relates the counters in each state and `ReadSide` says that the RAM shows the word that
is about to be sent. `HostSide` has each access waiting, remembered or served, `ErrorSide` ties the engine's error bit to
the access it belongs to.

*Contents.* `ReadsCurrent` says nothing about what is not read. `DataInv` says where every word is: in its dirty block,
or else in main memory; a clean block is a copy, up to words the other master wrote since the fence and blocks a fence
on its way will drop (`FenceAhead`). While a transfer is under way this holds of the part that has been moved
(`FillSide`, `WriteSide`), in `S_CHECK` of what the RAMs have shown (`CheckSide`), and between a bypassing write and its
answer of the word that is in memory but not in `ref` yet (`Performed`).

*What the proof found.* After a bus error the history variables no longer know a word's value (`lost`), and the first
successful read was taken to define it again. That is wrong for a read which may itself return something old, because the
other master has written the word since the fence or a fence passed the read: the invariant was not inductive there, and
`NothingLost` would have blamed the cache. Now such a read defines nothing (`Open` in `CacheSystem`). No hardware part of the
model changed.

`DmaDriver_proofs` proves, for every FIFO size, all descriptors and any latency of the memory:

| Theorem | States |
|---|---|
| `DmaAbortPrompt` | `Spec => []AbortPrompt` |
| `DriverInStep` | `"chain" \notin Habits => (Spec => []DriverInv)` |
| `FetchesInOrder` | `"chain" \notin Habits => (Spec => []FetchesDescriptors)` |
| `MovesElements` | `"chain" \notin Habits => (Spec => []MovesExact)` |
| `CopiesElements` | `"chain" \notin Habits /\ Narrow => (Spec => []CopiesExact)` |
| `AnswersTruly` | `"chain" \notin Habits => (Spec => []AnswersTrue)` |

*Assumptions.* `DescriptorAssumption`: whole words of memory, counts from 1 to the largest the register holds.
`DriverAssumption`: no transfer reads a word it writes, else "what the source held" is not defined. The hypothesis
`"chain" \notin Habits` says that the application programs only while the DMA is idle, as `Dma_driver` does; it cannot be
dropped, because `Dma_incomplete` shows `FetchesDescriptors` violated without it. Abort and errors are not restricted.
`Narrow`: no descriptor writes bytes to words. `MovesExact` needs no such hypothesis and says what the engine does of any
descriptor (`Moved`: a byte fills the word); where none widens this is what the manual says (`NarrowCopies`).

*The abort.* That no second element follows is not local to the element: the engine passes its check for the next
descriptor on the way, and the FIFO's output flag lags one cycle behind its pointers. `AbortInv` says that after a late
write the FIFO is empty and the engine has at most begun to fetch, with the flag low before it reaches the first word
(`Stopped`).

*The descriptors.* `DriverInv` follows a word from the driver's call to memory. `FifoSide`: behind the read pointer the
FIFO holds the words of the pending descriptors, less those fetched, plus those of a call under way, and the difference of
the pointers says how many. `FetchSide`: what the read data show in each fetching state. `TransferSide`: the engine's
registers in terms of the descriptor and of the elements moved, with the destination one element behind in
`S_READ_REQ`. `FlagSide` and `EnableSide` relate the flags, each a cycle behind the other, to how the transfer ended, which
makes the answers true. The step lemma (`StepDriver`) is proved part by part, for the FIFO from facts about pointers modulo
twice its depth, for memory from what one more element does to `Moved`.

`GemmSoc_proofs` proves, for any size of tile, matrices, memory, pauses of the program, accesses of other masters and
resets:

| Theorem | States |
|---|---|
| `DriverAndEngine` | `Spec => []StepInv` |
| `RegsHeld` | `Spec => RegsStableWhileBusy` |
| `HandshakeHolds` | `Spec => Handshake` |
| `PortInStep` | `Spec => []PortInv` |
| `PortObeyed` | `Spec => DmaPortProtocol` |
| `Framed` | `(\A j \in Jobs : WellFormed(j)) => (Spec => []FrameIntact)` |

*Assumptions.* `TileAssumption`: a tile's extent fits a byte of the bounds register. `JobsAssumption`: the arguments have
their types. `Framed` alone asks for `WellFormed`, what `gemmrv_hw.h` says of strides and what the registers' widths
demand: C is made of whole words, its stride is a multiple of the tile, is wide enough for the columns and fits 16 bits,
and C lies in the memory. The run `GemmSoc_vector_c` shows that the frame is broken without it, and `MCGemmSoc` that the
calls of `GemmSoc_result` satisfy it and those of `GemmSoc_vector_c` do not.

*Handshake.* No signal tells the engine how far the driver is: a register access takes four clocks, of which the register
file sees one. `StepInv` goes through "access i of the script was performed" (`Performed`), which becomes true when the
register file takes the access, before the driver hears of it. `IoSide` has the access at one of four stations, `RegSide`
says that what was performed is what the registers hold, and `EngineSide` that the engine is at work just between the
performed start write and the done that the first poll has seen, so that the second poll ends in `S_IDLE`. What a clock
edge does falls into three cases (`Onward`, `Performs`, `Takes`), and every part is proved along them.

*Memory port and frame.* `PortSide` ties the strobe to the waiting states, and the row and byte enables of a write to the
registers, which `RegsHeld` keeps until it is acknowledged; hence the write's second execution is the same write. `Framed`
is then arithmetic: registers truncated modulo their width hold the full address (`StoreAddress`), the enabled lanes of
the row are words from the element on (`SameRow`), these are columns of the tile, because `n` is a multiple of the tile
(`TileSide`), and no further than the stride (`TileColumns`).

On top of that it proves what the call computes, with `AllPlaced == \A j \in Jobs : WellFormed(j) /\
Placed(j)`:

| Theorem | States |
|---|---|
| `Typed` | `Spec => []TypeInv` |
| `Accumulates` | `AllPlaced => (Spec => []AccumulatorsPartial)` |
| `Multiplies` | `AllPlaced => (Spec => []ResultCorrect)` |

*Assumptions.* `Placed` is what the engine demands beyond the header: no dimension is zero, strides of A and B fit their 16-bit
fields, the matrices lie in the memory, A and B overlap neither C nor what other masters write meanwhile, and a row of a
tile does not cross a row of the memory, because the engine makes one access of it. `MCGemmSoc` checks that every call of
`GemmSoc_result` satisfies it, so the hypothesis is not empty. Nothing is assumed about the values of the matrices: sums wrap
modulo the word, as they do in the 32-bit accumulators and in C.

*The invariant.* `ResultCorrect` speaks only of the end, so `ResultInv` has to follow a byte of A from memory into C. `FetchSide`:
the rows fetched so far are those of the tile, with the columns of A and the rows of B that do not belong to it masked.
`MacSide`: the dot products of the row in work are the sum over the columns multiplied so far, modulo the word; multiplying
beyond K adds zeros, because B's rows are. `AccuSide`: an accumulator holds the product over the tiles of K that are done; it
says this also while the driver is between two starts (`Before`, `After`), when nothing in the engine says that the accumulators
still matter. `AnswerSide`: the row on the bus is that of the fetch it answers, which `RegsHeld` and the port's protocol keep.
`MemSide`: every element stored so far is the product, and the stores and other accesses that follow do not touch it. The
part about the drivers' loops, which runs from one tile to the next, is one lemma (`DriverMoves`); everything else is proved
along the engine's states. A reset needs no separate argument: it sends the driver back to the start of the call, where
`ResultInv` asks for nothing but types and an unchanged A and B.

*Induction over data.* The result is a sum over K, and the library's induction theorems cannot be instantiated by the
provers. `GemmSoc_proofs` proves induction for sets instead (a set that holds 0 and the successor of each of its members holds
every natural number), from it that a function defined by recursion exists and is unique, and from that the recursion
equations of `SumOf` and `Power` (`SumDef`, `PowerDef`), which are all the other proofs use.

`CachedDmem_proofs` proves `MonitorReady`, `Spec => []KeeperReadyForBlock`, for every cache geometry, with and without bursts,
every timeout above 1 and any accesses of the CPU and the accelerator. Its assumptions are those of the cache and that all of
the memory is cached (`UC_BEGIN = TAGS`), as it is in this system; hence no access bypasses the cache, and the monitor watches
nothing but locked block transfers. The property speaks of the first strobe of a transfer; what makes it true is how the
transfer before it ended. The monitor hears of the end of a lock a cycle after the engine, and its own timeout may fall into
the cycle of the last acknowledge, in which case it enters its error state when the engine has already gone on. `BlockInv` has
these tails: while the lock is held or in the cycle in which it is released (`Released`) the monitor may be busy or in error, in
the cycle after that (`Late`) only in error, and the engine needs one state more than that before it can start the next transfer.

`Bootloader_proofs` proves, for any executables, sizes of sectors, memory and flashes, contents of the flashes, numbers of
uploads, stores, faults, hanging flashes and power failures:

| Theorem | States |
|---|---|
| `BootloaderTyped` | `Spec => []TypeOK` |
| `StoresLoad` | `FlashLarge => (Spec => []StoredLoads)` |
| `LoadsTheSource` | `MaxFaults \in 0..WORD_MOD - 1 => (Spec => LoadsWhole)` |

*Assumptions.* `BootloaderAssumption`: executables are not empty and fit the memory, a flash holds at least a header, and
programming an erased half word gives what is programmed; nothing else is said about which bits a flash clears.
`FlashLarge`: a flash holds as many words as the memory and a header; reads and writes behind its end wrap, so a longer
executable would overwrite itself. The hypothesis of `LoadsTheSource` is what the checksum can do: `WORD_MOD` words, each one too high, have the
right sum.

*What is stored.* "OK" is decided at the last word of the header, and speaks of everything written before it, at other
addresses, and of the erasure before that. `MediaSide` keeps these together: the sectors erased so far, the data written so
far with blank words in front of and behind them, the fields of the header written so far; all of it only while no error
has been seen and, on the SPI flash, the executable ends inside the erased sectors (`Sound`), which is exactly where
`Bootloader_sector` shows the code to fail. From the first erased sector on, the flash counts as holding nothing (`reported`),
which is why a power failure needs no more than `Loadable`.

*What is loaded.* `DataSide` says what a load knows between two words: those of the header are the ones the source offers
or, of an upload, one too high (`Came`), and so are those of the data, with a running checksum that is the right one plus
the number of `mangled` words (`Checked`); a device that reports its error has ended the load's success instead (`job.rc`).
When the checksum comes out right nothing was mangled (`Passes`) but, perhaps, the base address: a mangled signature has
ended the load, a size one too high waits for a word that is not sent. So the image is the SD card's, the upload's, or
what the flash holds (`Accepted`). `g_exe_size` is zero from the start of a load to that check, so no executable counts as
loaded while the memory changes (`Keeps`). The theorem speaks of what the source *holds*: that a flash holds a whole
executable or none is `CrashConsistent`.

*Only model-checked:*

* Liveness under fairness (`RequestsEnd`, `Terminates`, `HostAnswered`, `AccessEnds`, `BothReturn`, `AutoBoots`,
  `TransfersEnd`) is out of the prover's reach.
* `ReadsCurrent` and `NothingLost` of `CachedDmem`. It does not implement `CacheSystem` step by step: there a transfer that
  ends with an error has had no effect on the bus, while the keeper may time out an access that the block RAM performs. The
  proof would need the contents argument of `CacheSystem_proofs` once more, over the four parts at once.
* `CrashConsistent` and with it `OnlyWholeImagesBoot` of `Bootloader`. They hold only as long as the checksum tells a
  mixture of two images from each of them: for every image they are false, and the run's images are chosen so that they
  do (section 4).

## 7. Plan

Done, with proofs: data-memory subsystem; caches; two cores with bus switch, atomic units, locks and launch; DMA
controller with driver; accelerator with driver and the product they compute; bootloader. Done, model-checked and in part
proved: cached data memory.

1. **Bus path.** External bus with arbitrary latency: late answers at the gateway, which ORs the answers of all ports.
2. **Traps.** The shared table of handlers that both cores of `demo_dual_core_rte` fill (core 0's `neorv32_rte_setup` in
   `app_main` may undo what core 1 has installed); trap entry and exit.
3. **Engines.** Instruction fetch with prefetch buffer and restart; the FIFO primitive against a sequence.
4. **Handshakes across hardware and software.** Debug module and park loop; CLINT's 64-bit time in two halves; watchdog.
5. **Peripherals** with FIFOs and line protocols (UART, TWI, SPI).
6. **Proofs.** The data cache on the crossbar memory, from `ControlInv` and `IInv`.

## 8. Not modelled, and why

* *ALU, co-processors, PMP comparators, decompressor:* wide combinational functions, better checked by equivalence
  checking or simulation than by enumeration.
* *IMEM, boot ROM, images:* plain memories and generated data.
* *TRNG:* an analog noise source.
* *Demos other than the dual-core ones, benchmarks, board set-ups, test benches, documentation:* not part of the product.
  The calls the demos make of `gemmrv_mult` are among the inputs of the `GemmSoc` runs.
* *The vendored TensorFlow Lite Micro tree, the FAT file system, generated weights and images:* by far the most lines of
  C and C++ in the repository, and none of its own logic. The system's own logic is in its VHDL and in a few hundred
  lines of C.
* *`gemmrv_post_process`:* a plain loop over 32-bit arithmetic.
* *Within modelled parts:* a cache of a single block or of one-word blocks (its RAM primitives degenerate to registers);
  the gateway's address decoder, reduced to "which port"; instruction fetches of the two cores, and their caches, in
  `DualCore`; accelerator writes behind the reservation station; a DMA descriptor with count 0, which the manual excludes,
  and a DMA enabled again before it has stopped; in the bootloader, direct boot (off by default), the help and
  information commands, executables of several base addresses, SPI flash errors other than a flash that stays busy, which
  its protocol cannot show, and a size of an upload that is mangled into a smaller one (it could only pass if the words
  left out have the sum 0) or into one that is not a multiple of four bytes; in the caches, the host's own lock, which
  the LSU raises for an atomic read-modify-write and a cache passes through on a bypass (`neorv32_cache.vhd:235`,
  `neorv32_cpu_lsu.vhd:79`): `cache_lock` is the lock of the cache's own transfers, and `LockCoversTransfer` leaves out
  `S_BYPASS`. `DualCore`, where that lock matters, has the cores without caches.

## 9. Running

```
tlc -config DmemSystem_safety.cfg MCDmemSystem.tla     # one run; see PROJECT.json for the module of each .cfg
tlapm DmemSystem_proofs.tla                            # proofs
tlapm SpinLock_proofs.tla
tlapm DualCore_proofs.tla
tlapm CacheSystem_proofs.tla
tlapm DmaDriver_proofs.tla
tlapm GemmSoc_proofs.tla
tlapm Bootloader_proofs.tla
tlapm CachedDmem_proofs.tla
```
