# A TLA+ verification development for riscv_workspace

`riscv_workspace` is a small RISC-V system on chip in SystemVerilog: a PicoRV32
processor and two image masters share, through an AXI4-Lite crossbar, a program
memory, a data memory, an image store, a register file and an APB bridge.  Beside
the SoC stand reusable blocks (`dip_*`): an asynchronous and two synchronous
FIFOs, a ready/valid handshake with a small arithmetic coprocessor built on it, a
video timing generator, a 5x5 median filter.

This directory holds TLA+ models of the author's own logic, the TLC
configurations that check them on small instances, and TLAPS proofs of their main
invariants and refinements for every value of the constants.

    tlc -config AsyncFifo.cfg AsyncFifo          # one run; PROJECT.json lists them all
    tlapm AsyncFifoProofs.tla                    # one proof module

A step of a model is a clock edge (or a coincidence of two clocks' edges, or an
asynchronous reset).  A register is a variable, a combinational `assign` an
operator named after its wire, an `always` block a conjunct of the clock action.
What the outside of a block drives is chosen with `\E`.  Definitions whose comment
begins with "Mutated:" are deliberately wrong variants of the definition that
follows them; nothing uses them except the mutation tests that `PROJECT.json`
lists, which show that each property fails when the design is broken in a
plausible way.

## 1. Inventory

All paths are under `src/`; `soc/` is `1-rtl/soc/`.  Names in bold are modelled, wholly
or in part.

| Component | State it keeps | Operations | What is hard | Correct when |
|---|---|---|---|---|
| **Asynchronous FIFO** `soc/dip_async_fifo` | read and write pointer (binary and Gray), full, empty, two 2-flop synchronizers, memory | write edge, read edge, reset | two unrelated clocks; each side sees a stale, possibly half-changed pointer | never overflows or underflows; a queue; a word or a free cell is always noticed |
| **Image masters, address channels** `soc/soc_top/mst_imp_r_ch.sv`, `mst_imp_w_ch.sv` | start-bit samples, processing, x/y counters, row base, address and its valid | start, accept an address, wait, next row, finish, reset | configuration is live registers; two flags set and cleared apart; 16- and 32-bit wraps | each pixel's address offered once, in row order, held until taken; a job ends |
| **Image masters, data channels** (same files) | R buffer/debug counter, W data pattern | take R, drive W | W is always valid whether or not an address was accepted | W beats match AW; nothing is lost |
| **Memories** `soc/soc_top/axi_lite_memory.sv`, `axi_lite_imp_memory.sv` | one-place AW and W buffers, RAMs and their output registers, read bank | accept AW, accept W, store, read, reset | AW and W arrive in either order and wait for each other; the answer's RAM is chosen a clock later | a write lands once, in order, whole, at its address; a read answers from its own address |
| **Register file and its map** `soc/soc_top/axi_lite_regfile_intf_wrap.sv` (over `axi_lite_regfile`, PULP's `axi_lite_regs` without direct loads) | 100 bytes | byte-strobed write, read | several stores make one configuration; the start bit is one of the bytes | the engine starts on what software meant |
| **Firmware** `2-sim/sim_soc/firmware/main.c` | program counter | fills both configurations, starts both masters, polls nothing | relies on the register layout | both jobs are started, on complete configurations |
| **Crossbar and address map** `soc/soc_top/BACKBONE.sv` (over PULP `axi_lite_xbar`, demux, mux) | per-port select FIFOs, arbiters, spill registers | route AW/W/B, AR/R, decode errors | ordering of responses across slaves; writes whose W comes late; locks | every request reaches the slave the map names and its response the master that asked |
| APB bridge and registers `soc/soc_top/apb_regs_intf_wrap.sv` (over PULP `axi_lite_to_apb`) | bridge state, registers | APB setup/access | its rules are decoded after the crossbar's, which lets no access through to them | (unreachable, section 5) |
| **One-clock FIFO** `soc/dip_sync_fifo/sync_fifo.v` | pointers, memory, output register | write, read, reset | full and empty differ by one bit | a queue |
| **One-port FIFO** `soc/dip_sync_fifo/sync_fifo.sv` | the same on a single-port RAM | write wins over read | two sides, one port | a queue; the loser is refused, not lost |
| **ALU coprocessor** `soc/dip_rdy_ack` (`alu_cop.v`, `alu.v`, `axi_like_handshake.sv`) | two FIFOs, two pipeline stages, the registers between them | feed, multiply, add, drain | room is judged a clock before it is used; back-pressure | every operation yields its result once, in order |
| **Timing generator** `soc/dip_timing_gen/timing_gen.sv` | counters, sync and data-enable flags | start, count | boundaries are 16-bit sums less one | data-enable is high for exactly the active pixels |
| **Median filter** `soc/dip_median_5x5/LLMF_5x5.sv` and its sorters | three pipeline stages of sorted values | sort rows, columns, diagonals | a sorting network is right or wrong on all inputs | the output is the median of its window |
| Median windows `soc/dip_median_5x5/median_5x5.sv`, `soc/dip_line_buf` | line buffers, output timing | shift a frame through | needs `timing_generator`, which the repository lacks | each pixel meets its neighbours |
| Clock and reset group `soc/soc_top/ma_clks_group_gen.sv`, `icg_posedge.sv` | dividers, gates | divide, gate, release resets | domains released apart | no domain runs before its reset |
| Processor `soc/dip_picorv32`, PULP `soc/dip_pulp_*`, `soc/dip_picorvsoc`, `1-rtl/share/yosys` | vendored | | | |

How they interact.  The firmware stores a configuration in the register file through
the crossbar; the register file's bytes are wires into the two image masters; a
rising start bit makes a master walk a rectangle of the image store (reads) or of
RAM1 (writes) through the crossbar's ports.  The masters run on the image clock
and the crossbar on the bus clock, with nothing in between that crosses from one to
the other: the models take the two as equal.  `axi_like_handshake.sv` is shared by the
memories and the coprocessor.

## 2. Modules

| Module | Models | Uses |
|---|---|---|
| `Fifo` | what a FIFO promises: a bounded queue that a reset empties | |
| `AsyncFifo` | `dip_async_fifo` with pointers as positions on a ring | `Fifo` |
| `AsyncFifoGray` | the same with Gray-coded words and bitwise sampling | `AsyncFifo` |
| `SyncFifo` | `sync_fifo.v` (`Spec`) and `sync_fifo.sv` (`PortSpec`) | `Fifo` |
| `AluCop`, `MCAluCop` | the coprocessor, with two instances of `SyncFifo` | `SyncFifo`, `Fifo` |
| `RegionScan` | what an image channel promises its bus | |
| `ImpScan`, `MCImpScan` | the address generator of both image masters | `RegionScan` |
| `ImpJob`, `MCImpJob` | one channel behind its byte registers, and the program that stores to them | `ImpScan` |
| `MemoryPort` | what a memory behind a port promises | |
| `AxiLiteMemory` | both memories | `MemoryPort` |
| `Crossbar`, `MCCrossbar` | processor, image master, crossbar, memories and registers, clock by clock | |
| `LLMF`, `MCLLMF` | the 5x5 median filter | |
| `TimingGen` | the video timing generator | |
| `RingLemmas` | lemmas: arithmetic of `\div` and `%`; two pointers into a memory hold a queue | |
| `AxiLiteMemoryProofs`, `LLMFProofs` | the proofs about each | |
| `AsyncFifoProofs`, `CrossbarProofs`, `TimingGenProofs` | the proofs about each | `RingLemmas` |
| `AluCopProofs` | the proofs about `SyncFifo` and about the coprocessor on top of it | `RingLemmas` |
| `ImpJobProofs` | the proofs about `ImpScan` and about `ImpJob` around it | `RingLemmas` |

### AsyncFifo and AsyncFifoGray

`WrEdge` is one `wr_clk` edge of `async_fifo_wptr_full.sv`, `async_fifo_memory.sv`
and the synchronizer that carries the read pointer over; `RdEdge` the same on the
other side.  `WrClk`, `RdClk` let one clock tick; `BothClk` lets both tick at once,
when each first synchronizer flop catches the other pointer before or after its
change.  `Reset` may strike at any time and resets both sides; a staggered
release is covered, since the side held longer is a side whose clock does not tick.
`rd_ran` remembers whether the read side has ticked since the reset: between the
two, `rd_empty` is low although the FIFO is empty (finding 1), and a reader that
believes it (`EagerReader`) underflows.  All other runs take a reader that waits for
its first edge.

`AsyncFifo` leaves out the Gray code.  `AsyncFifoGray` has it: a flop clocked while
a word changes catches each changing bit either way (`Caught`), full is the
comparison with two inverted bits of the source, and the module implements
`AsyncFifo` under the decoding `Position`.

### ImpScan

One clock edge (`Clk`) computes every register from the values before the edge, in
the groups of the source: `ProcessingStep`, `ValidStep`, `CountStep`, `AddrStep`, or
all of them set by `StartUp` when the sampled start bit has risen (`all_proc_trg`).
`cfg`, `IMP_ST` and `ready` are inputs: `Inputs` chooses them anew on every edge.
`MidJob` says what the CPU may do while a job runs or is about to: nothing,
`"config"` (rewrite the configuration), `"start"` (raise the start bit).  A
configuration is written in one step here; `ImpJob` puts the register file, which
takes several stores, in front.  `job` is a history variable, the configuration in
force at the start.  The read and the write channel share this code line for line;
their data halves are in `Crossbar`.

### ImpJob

The registers are 32 bytes `reg_q`, of which `Fields` and `StartBit` are the wires
of `axi_lite_regfile_intf_wrap.sv` into one channel's engine (`Ch` is the channel's
offset).  A program is the list of stores of one job, each of one, two or four bytes
(`Store`, `Written`); before every store it may wait as long as it likes, and it sets
up the next job only when the engine is idle (`SetUp`).  The engine's step is that of
`ImpScan`, unchanged; only its inputs, which `ImpScan` chooses freely, are now what
the bytes say.  `wanted` remembers the job that the program was written for.

### Crossbar

One step is one clock of everything from the processor's adapter to the memories'
RAMs.  Variables in `d_`, `m_`, `e_` are the demultiplexer of a master, the
multiplexer of a slave, the decode error slave of a master; each queue is one
`fifo_v3` or one `spill_register` of the instance that `BACKBONE.sv` configures
(`CUT_ALL_AX`).  The operators named `...Shown`, `...Taken`, `...Gnt` are the valid,
ready and grant wires, which run through the whole crossbar within a clock.
`Arbitrated` is `rr_arb_tree` for two requesters, with its locked choice and its fair
priority.  The processor (`CpuStep`) is the adapter, with flags that the reset leaves
alone, and a core that holds a request until it is answered.  The image master
(`ImpStep`) scans `Job` on both channels, with write data that are always valid.
`may` is the history of what a read may return, and `clk` counts clocks modulo two, so
that "the clock runs" can be said.  The address map is `BACKBONE.sv`'s, constants and
all, and the decoder's exclusive end is kept.  `AxiLiteMemory` is not instantiated
here, as its bus is not this one; `MemoryStep` is its buffers, store and fetch again
for a memory of one RAM.

### LLMF and TimingGen

`LLMF` has the sorters as operators and the three registers between the stages as
variables; only the values that reach the output are kept of the last stage.  `past`
is the history of the windows.  `TimingGen` has the two counters, the flags, and the
boundaries in 16 bits, with `Hor` and `Ver` the programmed times of a line and of a
frame.

### AxiLiteMemory

One module for both memories, which differ in the number of RAMs (`NBanks`, 38 and
1).  `Buffers` are the two `axi_like_handshake` instances, `Store` the RAM write,
`Fetch` the RAM's registered read with the bank register beside it.  The bus
(`Bus`) issues writes and offers the address and the data of each in any order, as
AXI allows; `issued`, `aw_sent`, `w_sent` are the history that tells which address
belongs to which data.  A RAM read and written at the same address on one edge
returns either word, as the RAM primitive is not in the repository.  `b_valid` and
`ar_ready` are constants of the code and therefore have no variable.

### SyncFifo and AluCop

`SyncFifo` is `sync_fifo.v` with its pointers: `Write`, `Read` and `Clk`.  `PortClk` is
the clock of the FIFO of the same name on a one-port RAM, where a write wins over a
read.  `AluCop` holds two instances, `PreFifo` and `PostFifo`, whose reads and writes
its clock drives.  `Feed`, `Alu` and `Drain` are the source's three groups of
registers.  `User` writes while fewer than `Credit` operations are owed.  The depth in
the code is `2^ADR_BIT`.

## 3. Runs

| Run | Checks | Shows | Bounds, and why they are enough |
|---|---|---|---|
| `async_fifo` | `TypeOK FlagsSafe IInv IsFifo WordSeen CellSeen` | stale flags never promise too much; the contents are a queue; nothing stays hidden | 4 cells, two data values: the ring wraps, both synchronizers can lag by several words, full and empty are reached in every phase |
| `async_fifo_gray` | `IsAsyncFifo` | the Gray-coded block implements the pointer-level one | 8 cells: 4-bit words, so that the two inverted bits differ from the others |
| `async_fifo_eager` | `EmptyOnReset`, violated | finding 1 | 4 cells |
| `imp_scan` | `OnPixel RunsWhatIsWanted IsRegionScan LastStoreStarts` | software that sets up one job after another starts each with its last store; the engine runs the job meant, whole, and offers each pixel's address once, in order | bytes of 4 values (16 sizes, 256 addresses); five shapes: abutting and overlapping rows, gaps and wrapping addresses in a rectangle shifted to the right, one row, one column up to the counter's top; each stored as the firmware does and byte by byte |
| `imp_job_firmware` | `LastStoreStarts`, violated | finding 2 | real bytes and offsets, the stores of `main.c:34-40` |
| `imp_scan_meddling` | `TypeOK Lockstep JobEnds` | a CPU that rewrites and restarts at will breaks no register, parts no flags and stops no job from ending | 8 sizes, 16 addresses; sizes 0 (ends wrap to the top) and larger, changed under the job |
| `axi_lite_memory` | `IInv IsMemoryPort WritesLand` | writes pair, land once and in order; reads answer from their own RAM; the channels never block each other | 2 RAMs of one word, two values, two writes under way: one stored while the next is accepted |
| `axi_lite_memory_strobes` | `IsMemoryPort`, violated | finding 3 | two byte lanes |
| `alu_cop` | `NothingLost IsFifo AreFifos Computed` | no result is lost, doubled or overtaken while no more operations are owed than a FIFO has words; each FIFO is a queue at the pipeline's pace; each operation is computed without a successor | FIFOs of 4, credit 4: post_fifo fills, every stage fills; no stage stalls within this credit, which is left to `alu_cop_offer` |
| `alu_cop_offer` | `OfferedUntilAcked`, violated | finding 4 | FIFOs of 2, credit 5: results are left until the ALU stalls |
| `crossbar` | `WordsInPlace ReadsFresh AnswersInOrder AnswersTaken OwnResponse CpuServed ScansEnd` | words land where they belong, reads see what was written although `b_valid` never waits, answers come in order to whoever asked and none of the memories' one-clock answers is missed; no access of the processor starves, no scan gets stuck | see below |
| `median` | `OutputIsMedian`, violated | finding 5 | two windows of two colours |

**The bounds of `crossbar`.**  The processor reads and writes a word of RAM1, a register
and an address that nobody owns, so all three kinds of slave answer it; the image
master scans two words of RAM1 again and again on both channels, so it contends with
the processor in one memory and its own scans meet there.  The crossbar's FIFOs hold
two entries, where `BACKBONE.sv` gives them four (`MaxMstTrans`, `MaxSlvTrans`): all
properties hold with four as well (146518 states), but no FIFO then ever fills.  With
two (242232 states) those of the read side do, and an arbiter's choice has to be kept
while it waits.  On the write side words follow their addresses so closely that no
FIFO holds more than one entry at either depth; a demultiplexer does lock an
address that waits for its slave, a multiplexer never, as the spill register behind it
always has a place.  One written value is
enough since a word is otherwise told by the pixel it belongs to and `Blank`.  A second
memory would add nothing but a port like the first.

No run disables deadlock checking: a clock can always tick.

**Fairness.**  A clock keeps running; nothing else is assumed of a design.
Weak fairness of an edge would be too strong where the edge carries a request: when
nothing else is left to change, it would force the user to ask for something.
`AsyncFifo!FairSpec` and `AluCop!LiveSpec` therefore say that edges come as long as
an edge *without* a request would change something.  `Crossbar!FairSpec` says that its
clock goes on ticking, whatever the masters do or leave.  `ImpScan!LiveSpec` assumes
besides that the slave is ready again and again (the crossbar's job, and what
`ScansEnd` shows of it), and `AxiLiteMemory!LiveSpec` that each channel of the bus again
and again has on offer what was issued, as AXI demands of a master that has a beat to
send.  No order of the two channels is assumed.

## 4. Proofs

| Theorem | Statement | Assumes |
|---|---|---|
| `AsyncFifoProofs!Inductive`, `TypeCorrect`, `FlagsAreSafe` | `Spec => []IInv`, `[]TypeOK`, `[]FlagsSafe` | depth at least 1; a reader that waits for its first edge |
| `AsyncFifoProofs!ImplementsFifo` | `Spec => IsFifo` | the same |
| `AluCopProofs!SyncFifoIsQueue`, `PortFifoIsQueue` | `Spec => IsFifo` of `sync_fifo.v`, `PortSpec => IsFifo` of `sync_fifo.sv` | depth at least 1 |
| `AluCopProofs!MachineHolds`, `FifosAreQueues` | `Spec => []Machine`, `AreFifos` | any depth and credit |
| `AluCopProofs!NothingIsLost`, `CoprocessorIsQueue` | `Spec => []NothingLost`, `IsFifo` | no more credit than a FIFO has words (finding 4) |
| `ImpJobProofs!Inductive`, `TypeCorrect`, `FlagsInLockstep` | `Spec => []IInv`, `[]TypeOK`, `[]Lockstep` of `ImpScan` | any widths and configurations, any CPU |
| `ImpJobProofs!JobOnPixel` | `Spec => []OnPixel` | `Calm`: rectangles that fit 16 bits, a CPU that leaves a running job alone |
| `ImpJobProofs!ImplementsRegionScan` | `Spec => IsRegionScan` | the same |
| `ImpJobProofs!RunsItsProgram`, `ProgramsStart` | `JobSpec => []RunsWhatIsWanted`, `LastStoreStarts` | `Sound` programs |
| `ImpJobProofs!ProgramsOnPixel`, `ProgramsScan` | `JobSpec => []OnPixel`, `IsRegionScan` | `Sound` programs whose rectangles fit |
| `CrossbarProofs!ResponsesAreOwn`, `AnswersAreTaken` | `Spec => []OwnResponse`, `[]AnswersTaken` | |
| `CrossbarProofs!WordsStayInPlace` | `Spec => []WordsInPlace` | `Deep`: FIFOs of at least two entries |
| `CrossbarProofs!ReadsAreFresh` | `Spec => []ReadsFresh` | `Deep`, `Apart`: the processor does not access what is scanned |
| `CrossbarProofs!AnswersComeInOrder` | `Spec => []AnswersInOrder` | the same and `NoneTwice`: a scan visits no address twice |
| `AxiLiteMemoryProofs!Inductive`, `TypeCorrect`, `BuffersPaired` | `Spec => []IInv`, `[]TypeOK`, `[]Paired` | any number and size of RAMs |
| `AxiLiteMemoryProofs!ImplementsMemoryPort` | `Spec => IsMemoryPort` | `WholeWords`: masters that strobe every lane (finding 3) |
| `LLMFProofs!MedianNear` | `Spec => []OutputNearMedian`: the 13th, 14th or 15th largest pixel | pixels are integers, 0 among them |
| `LLMFProofs!MedianMissed`, `TrueDiagonal` | a window whose output is not its median; with the wire of finding 5 corrected there is none | |
| `TimingGenProofs!Inductive`, `DataEnable`, `Syncs` | `Spec => []IInv`, `[]EnabledWhenActive`, `[]SyncWhenDue` | `Setting`: times that fit 16 bits, at least one sync and one active pixel |

**AsyncFifo.**  `FlagsSafe` speaks of the two true pointers, but each flag is
computed from one true and one stale pointer, so it is not inductive.  `Chain` orders
all six pointers in flight on the ring, seen from the oldest read pointer: the read
side's copies behind the read pointer, that behind the copies of the write pointer,
those behind the write pointer, all within one memory's length.  `FlagsKnown` says
what each flag knows of its own stale copy.  Each edge advances some of these within
the order (`WrAdvance`, `RdAdvance`), and when the oldest copy itself moves, the
order is measured from the new one (`ChainRebase`).  The action lemmas are one per
disjunct of `Next`.

**The FIFOs as queues.**  `RingLemmas` has the argument once for both: the words between
two positions on a ring of twice the memory's length are a queue as long as they are
at most the memory's length apart (`Ring`); a write at the back is `Append`, a move of
the front is `Tail`, and a write beside a move is both (`RingStep`).  For `SyncFifo`
(in `AluCopProofs`), full and empty say directly that the positions stay within that distance.  For
`AsyncFifo` it is `FlagsSafe` that says so, which is where `IInv` is used again.  A
one-port clock is a clock with one of the two requests, or with neither.

**AluCop.**  `Machine` says that both FIFOs are queues and that every register holds a
word of its kind; from it each clock of the pipeline is told as what it does to the two
queues (`ClkParts`), and neither pointer nor memory is mentioned again.  `Flight` is the
sequence of all results that are owed, from the oldest word of `post_fifo` through the
registers and stages to the newest operation of `pre_fifo`.  `IInv` adds `Owing`, whose
`NothingLost` says that as many are in flight as are owed.  With the credit at
most a FIFO's words it follows that a full `post_fifo` leaves nothing on its way
(`RoomBehind`), hence that no stage ever stalls (`NeverStalls`), hence that what is offered is
taken, and so `Flight` gains at its back what is written and loses at its front what is
read (`FlightStep`).  Without that bound finding 4 is a counterexample.

**ImpScan.**  `IInv` needs only that both flags are set and cleared under the same
condition and that `xcnt` stays below the end while it counts, which `>=` (and not
`=`) gives even when the end moves.  `OnPixel` adds the arithmetic: the row base is
the start plus rows times the pitch, modulo 2^32; a step adds one pitch or one pixel
and re-reduces (`ModPlus`).  The refinement maps the pair of counters to the number
of the pixel; it rests on `DivModUnique`, by which dividing that number by the width
gives the counters back.  `StartQuiet` is what makes a start find an idle engine.

**ImpJob.**  The engine's steps are those of `ImpScan`, and their lemmas are used again; what
is new is that its configuration is in no one's hands but the bytes'.  `Sound` is what these
ask of a program: it writes every byte of its job, clears the start bit on the way and sets it
with its last store only.  It says nothing of the order or the width of the stores before.
`FillingBehind(p, k)` is the invariant of a program that has made `k` of its stores: each byte is
already what the program leaves there or is covered by a store still to come, and a start
bit left from the last job will be cleared before the last store.  So a start is
sampled only when the bytes are complete (`Complete`), and they stay so while the engine is
busy, as nobody sets up another job meanwhile.  `MCImpJob!JobsSound` has TLC confirm that the
programs of the run, `main.c`'s stores for reads among them, are sound; the write job of
finding 2 is not.

**AxiLiteMemory.**  `Paired` says that what the two buffers hold are parts of the
same, oldest write.  It needs that each side can be at most one ahead, which the
handshake gives: a buffer is emptied only with the other.  Reads and stores then map
step by step to `MemoryPort`.

**Crossbar.**  None of the five properties is inductive: a response carries no name, and is
delivered by whatever two queues, one of the demultiplexer and one of the multiplexer,
say at their heads.  The invariants describe the crossbar as pipelines instead, in terms of a few
places that hold at most one access of each master and at most one of each slave (`Slots`):

- `Own` (`Typed` and `Owed`) are the processor's books: what its adapter has handed over and
  not had answered is in its own demultiplexer, once.  It needs nothing of the others, and gives
  `OwnResponse`.
- `Reading(one, two)`: the addresses accepted one and two clocks ago determine every queue of the
  read side, entry by entry, of demultiplexers, multiplexers and error slaves, and which memory shows
  its word.  Two queues then always agree on who is answered, which gives `AnswersTaken`,
  for every depth.
- `Writing(wr, rs)`: the same for addresses whose word comes now, and for words whose response
  comes now.  An address that waits at its demultiplexer is remembered there before it is accepted
  (`d_lock`).  A FIFO of one entry is full while that entry is in use, so that addresses and
  words then go at another pace than these pipelines'; hence `Deep`.  With one entry TLC
  finds the properties true as well, on the constants of the run (401644 states).
- `WriteOrder` and `ReadOrder` follow the image master's addresses from its counters through
  the spill registers (`Chain`); `CpuWrites` and `CpuReads` say that all the processor has under way
  is its present request.  They give `WordsInPlace` and, as a word tells its pixel, `AnswersInOrder`.
- `Fresh` says that each cell of the processor holds what a read may return, and that its write
  which is answered but not yet stored is in the memory's buffer.  A response comes in the clock
  at whose end the word is stored, so the next read finds it there: this is how
  `b_valid` can be constantly high.

`Deep`, `Apart` and `NoneTwice` are defined in `Crossbar`, and `MCCrossbar!MastersFit` has TLC
confirm them for the run.  `BACKBONE.sv` has FIFOs of four.  `Apart` is about the
properties rather than the crossbar: when both masters write one cell, only their
programs can say what a read should return.  A scan whose rows overlap meets `Deep` and
`Apart`, for which words are still in place and reads fresh; only the order of its answers can
then not be told from the words.

**LLMF.**  A sorter is characterised by ranks: for every threshold, its k-th output
reaches the threshold exactly when k of its inputs do (`Sort3Rank` to `Sort5Rank`).  The
bright pixels of a window, sorted by rows and then by columns, make a staircase, which
for each threshold is five numbers that do not increase; whether an output reaches the
threshold is then arithmetic on these five.  The proofs need no induction over windows, and
they hold for pixels of any width.

**TimingGen.**  Each flag changes a clock after its boundary is met, and each boundary is
the number before the one it stands for, so the flag agrees with its counter.  The
exception (`Early`) is a line whose active pixels begin at pixel 1: while the counters wait
at 0 after a reset, `h_de` is set too soon.  It does no harm because `v_de` is still
low, as the first line is a sync line.  `Setting` asks for a sync and an active
pixel because without the former the sync flag would never be cleared, and
without the latter the data enable would be set and cleared at one boundary, where
setting wins (`timing_gen.sv:112` before :114).

**Only model-checked.**  Liveness (`WordSeen`, `CellSeen`, `JobEnds`, `WritesLand`,
`Computed`, `CpuServed`, `ScansEnd`), as the provers do not treat `ENABLED` and
fairness; `IsAsyncFifo`, the Gray code, which needs bitwise operators.  Every other property of the
passing runs is stated by a theorem.

**Only proved.**  `TimingGen` and `SyncFifo!PortSpec` have theorems for all constants and
no run of their own; what a run would show on a few values is a special case.
`OutputNearMedian` likewise.

## 5. Findings

1. `async_fifo_rptr_empty.sv:79` resets `temp_rd_empty` to 0; the comment at :76
   says empty "on reset".  A request on the first read edge after a reset moves the
   read pointer past the write pointer.
2. `main.c:34-40` stores the write job at the byte offsets of an older register layout:
   the store commented as the start bit goes to byte 12, which is `MINX`
   (`axi_lite_regfile_intf_wrap.sv:69`), while the start bit is byte 14 (:71).  The job
   never starts.  The read job (`main.c:44-50`) uses the present layout.
3. `axi_lite_memory.sv:118` (and its larger sibling) ignores `s_w_strb`: a byte
   store overwrites the word.
4. `alu_cop.v:130` offers an operation to the ALU for one clock only.  If the ALU is
   stalled then, the operation is lost.  It takes a user that leaves more results
   unread than `post_fifo` holds.  In the same regime `alu_cop.v:141` may write a
   result to a `post_fifo` that has filled since the ALU was told there is room: with a
   credit of one more than a FIFO has words, TLC finds `NothingLost` violated by just
   this write (FIFOs of 4, credit 5), so the bound of `NothingIsLost` is exact.
5. `LLMF_5x5.sv:380` gives the third diagonal `pip_Third_col[2]` where the diagonal has
   `pip_Third_col[1]`.  The output can be the 14th or 15th largest pixel instead of
   the 13th (`MedianMissed`), never worse (`MedianNear`), and is exact with the wire
   corrected (`TrueDiagonal`).

Differences that no violated run states, and how the models treat them:

- `mst_imp_w_ch.sv:113` ends a row at `MINX + HSIZE - 1` but :156 starts it at 0: a row
  of a shifted rectangle has `MINX + HSIZE` pixels, from the base address on, while the
  port comments call `HSIZE` "pixels per row".  The y counter does start at `MINY`.  `ImpScan`
  does what the code does, and so does the region that `IsRegionScan` maps a configuration to
  (`RowPixels`); with `MINX = 0`, as the firmware has it, that is the documented one.
- The rules of the APB peripherals (0x0013_xxxx) lie in RAM1's window of the crossbar, while
  what the crossbar sends to the bridge (0x0011_xxxx) decodes to no peripheral:
  `MCCrossbar!ApbUnreachable`.  The comments at `BACKBONE.sv:85-91` and at
  `picorv_x_pulp_soc.sv:250` describe other maps.
- The map's ends are inclusive in `Global_define.svh` and exclusive in the decoder.  Only
  the last byte of a window is lost, and no word: `MCCrossbar!WindowsDecode`.
- `README___Addr_Map.md:23` and `reg.soc.h:85` end the image store at 0x412B_FFFF,
  `Global_define.svh:47` at 0x412F_FFFF; the model follows the latter.

## 6. Not modelled, and what is left

- *APB bridge and its registers.*  No access reaches them (section 5); a model
  behind this crossbar would never take a step.
- *Median windows, line buffer.*  `median_5x5.sv` takes its output timing from
  `timing_generator`, which is not in the repository; the buffers are only right in
  step with it.
- *The crossing from the image clock to the bus clock.*  There is none in the code.  The
  clocks are taken as equal, as they are after a reset with all dividers alike; for other
  settings the handshakes between them are undefined, and so is what a model should say.
- *A start while an address is still on the bus* replaces that address
  (`mst_imp_w_ch.sv:205`).  `ImpJob` assumes software that waits; `imp_scan_meddling` has
  software that does not, and shows that the engine survives it.
- *Clock and reset group.*  Its dividers and reset synchronizers (`ma_clk_div_n`,
  `ma_sync_rst`) are not in the repository.
- *Image input* (`image_source.v`, `image_capture.v`) reads and writes files.
- *`pre_full` and `pre_empty` of `sync_fifo.v`*, and the image masters' `imp_done`
  counter: nothing reads them.
- *Vendored code*: PicoRV32's instruction set, the PULP blocks beyond what the SoC uses of
  them, picosoc, and `1-rtl/share/yosys`.  Nearly all C and C++ of the repository is the
  latter's headers, PULP's test code and PicoRV32's demonstration programs; of it `main.c`
  is in `ImpJob`.  The author's own logic is SystemVerilog and Verilog, which is what
  the models stand for.
- The older handshakes in `soc/dip_rdy_ack`, which nothing instantiates.

What is left to prove is the Gray code: `IsAsyncFifo` for every width, for which words would
have to be functions from bit numbers to bits instead of numbers.

`PROJECT.json` lists for each definition the source lines it models, for each
property the mutation that breaks it, and the hazards of this code with the
properties that watch them.
