# Verification of the GreenRio 2.0 core in TLA+

GreenRio 2.0 is a dual-issue, out-of-order RV64IMAC core in Verilog. This
directory holds TLA+ models of its register and commit unit (RCU) and of parts
around it, models of the C++ programs that simulate and test it, the TLC
configurations that check them on small instances, and proofs, checked by
TLAPS, of the properties that can be shown for every size.

The models of the core are translated from the Verilog under `src/src`, those of
the simulator, the trace functions and the test benches from the C++ under
`src/sim`, `src/src/dpi_file` and `src/ut`. One step of a model is one rising
clock edge, the only point at which registers change and at which the benches
run their `eval()` functions; combinational signals are operators of the same
name as in the source. `PROJECT.json` maps every definition to its lines.

## 1. The system

| Component | State | Operations | Hard behaviour |
|---|---|---|---|
| Two-mode counter (`configurable_counter.v`) | `cnt_r` | count 0, 1 or 2, wrap | wraps at sizes that are not powers of two |
| Two-in two-out FIFO (`f2if2o.v`) | lines, write and read pointer, lap flag | write 0-2, read 0-2, reset | full and empty differ in one bit; no guard of its own |
| Free list (`f2if2o_freelist.v`) | lines, three pointers, two lap flags | allocate, free, retire, roll back | two readers at different speeds; never checks for empty |
| Reorder buffer, renaming, commit (`rcu.sv`) | bits and fields per entry, two indices, rename table and its committed copy | allocate two, complete up to five, commit two, flush | all of these in one cycle, with faults that must undo part of it |
| Issue logic (`rcu.sv`, `oldest2_abitter_bps_lss.v`) | selected bits, available table, pipeline registers, two queues | select two oldest ready entries, bypass new ones | order of loads and stores, full queues, stale bits |
| Functional units (`fu/`) | one-cycle ALUs, `md.v` with multiplier and divider | accept, answer, drop at a trap | slow answers against flushes; division edges |
| Load/store unit (`lsuv1/`) | load/store queue, memory control, write-back arbiter | accept, translate, replay, wake up, answer | late answers, replays, flush with requests in flight |
| Trap and CSR units (`csr/`) | CSRs, privilege mode, pending interrupts | access, trap, return | an access in flight at an interrupt; value of `mepc` |
| Decode (`decode/`) | decode FIFO | decode two, inject interrupts | handshake with the ROB |
| Fetch (`fetch/`) | pc, BTB, gshare, instruction buffer | predict, redirect, align | redirects against answers of the cache |
| MMU, cache link, peripherals (`rvh_mmu*`, `cache_ebi`, `perips`) | TLBs, page walker, link state, CLINT, PLIC, UART, bridges | | clock domain crossing, arbitration |

The programs around the core:

| Component | State | Operations | Hard behaviour |
|---|---|---|---|
| LSU bench (`sim/lsu_ut`) | request list of a fake RCU, three lists of the monitor, two memories | draw a request, offer, note handshakes, answer, wake up, commit, check | all of it at one edge; indices that wrap; requests replaced before they are taken |
| Fake cache, TLB, bus (`sim/lsu_ut`) | lists of requests with delays | accept, miss, kill, perform, answer | a kill one cycle late; ready bits; answers that collide |
| L1D bench and its memory (`sim/l1d`) | as above; lists of AXI requests and answers | read, write with beats, answer | address and data on two channels; cleaning up before the verdict |
| Self-checking tests (`sim/selfcheck`, `perfect_mem.hpp`) | request, waiting and flush queues, memory with delays | send, await, compare | ready sampled at another edge than used |
| Simulator (`simulator.cpp`, `core.cpp`, `memory.cpp`) | arguments, RAM, flags of the two ports, cycle count | parse, load, reset, serve, run, report | static flags between calls; memory that is not initialised |
| Trace and co-simulation logs (`tracelog.cpp`, `dpi_file/co_sim.cpp`) | copy of the register file, flags for CSR writes | sync, note a CSR write, print commits | three callbacks at different edges; registers reused |
| Back-end test (`ut/backend.cpp`) | CSV reader, noted request | feed, answer | answers tied to room in the ROB |

A bench is correct when it raises no alarm for a device that keeps its contract,
when its own records of what is in flight agree with the device, and when it
ends. That is what the models of the benches are asked; the device is its
contract, a nondeterministic machine that may do all a right device may do.

Fetch hands up to two instructions per cycle to decode, whose FIFO hands up to
two to the RCU. The RCU renames them, keeps them in the ROB, issues the two
oldest ready ones (also in the cycle of their allocation) to the pipeline
registers of the ALUs and the CSR unit or to the MD and LSU queues, collects the
answers by ROB index, and commits the two oldest finished ones. A trap, a
return, a misprediction at commit or an interrupt is one signal,
`global_speculate_fault`, that empties everything and restores the rename table
and the free list from their committed copies. There is no per-branch
checkpoint and no tag on answers: correctness rests on every queue and unit
being emptied by the same signal and on the committed copies being exact.

What makes the core correct: the entries in use are an interval in program
order; renaming follows program order although two instructions are renamed per
cycle; registers are neither lost nor owned twice, also after rollbacks; an
instruction is issued exactly once, with its true operands, and answered only
for the entry that issued it; what becomes architectural does so in order and
never on a wrong path; memory and CSR accesses keep their order; everything
that enters leaves; the arithmetic is what RISC-V defines. `PROJECT.json` lists
the hazards, each at its line, with the properties that would catch it.

## 2. Modules

| Module | Models | Uses |
|---|---|---|
| `TwoModeCounter` | the counter | |
| `BoundedQueue` | abstract specification of a FIFO | |
| `F2if2o` | the FIFO with the request gating of its users | `TwoModeCounter`, refines `BoundedQueue` |
| `FreeList` | the free list, as actions on its variables | `TwoModeCounter` |
| `RobRename` | ROB control bits, renaming, commit, rollback | extends `FreeList` |
| `OldestTwo` | the issue arbiter, and what it should compute | |
| `Rcu` | issue, queues, units; composes all of the RCU | extends `RobRename`, instance of `OldestTwo` |
| `RcuLive` | `Rcu` with a running clock and the units' fairness | extends `Rcu` |
| `Div` | the divider and the handshake of `md.v` | |
| `FakeRcu` | the reorder buffer of the benches, as operators of `eval()` | |
| `LsuBench` | monitor and main loop of the LSU test around an LSU | extends `FakeRcu` |
| `L1dBench` | the L1D test: its differences, and `main()` to the verdict | extends `LsuBench` |
| `CacheBench` | fake cache, TLB and bus behind the ports of the LSU | |
| `FakeMem` | the memories of both benches, side by side | |
| `AxiMem` | the memory behind the L1D cache | |
| `PerfectMem` | the word memory of the self-checking tests | |
| `NbLsuBench`, `DcacheBench` | the random self-checking tests | |
| `MagicMemory` | the memory of the simulator with the masters of the core | |
| `Simulator` | arguments, ELF file, main loop, exit code | extends `MagicMemory` |
| `CommitStream` | the core as the trace functions see it | |
| `TraceLog`, `CoSim` | the trace functions | extend `CommitStream` |
| `BackendUt` | the unit test of the back end | |
| `ProgramParts` | the parameters and variables of the programs that are proved about | extends `MagicMemory`, instances of `AxiMem`, `BackendUt` and `TraceLog` |
| `MC_Blocks` | FIFO and arbiter side by side, for one run | extends `F2if2o` and `MC_OldestTwo` |
| `MC_Programs` | the programs of `sim` and `ut`, one chosen by the initial state, with their bounds | extends `ProgramParts`, instances of all the others |
| `MC_ProgramsLive` | the same with a clock and fairness | extends `MC_Programs` |
| other `MC_*` | instances: instruction sets, views | |
| `CounterProofs`, `F2if2oProofs`, `OldestTwoProofs`, `DivProofs` | theorems about one module each | |
| `RobRenameProofs` | theorems about `RobRename`: ROB control and commit, renaming and the free list | extends `CounterProofs` |
| `RcuProofs` | theorems about `Rcu`: issue and the refinement of `RobRename`, operands | extends `RobRenameProofs` |
| `ProgramProofs` | theorems and inductive invariants of the programs in `ProgramParts` | |
| `MC_ProgramProofs` | theorems of `MC_Programs`, from those invariants | extends `MC_Programs`, `ProgramProofs` |

### RobRename

Per entry: `rob_used`, `rob_finish`, `rob_exp`, `rob_predict_miss`, the decode
fields `rob_op` (a record: class, destination, exception at decode), `rob_rd`,
`rob_prd`, `rob_lprd`. Besides: the two indices, `rename_reg`,
`rename_reg_backup`, the free list and `dff_cmt_miss_delay`, which stands for
the conjunction of `dff_cmt_jump` and `dff_predict_miss`, the only way in which
they are used by control.

`Flush` is an edge with `global_speculate_fault`; `Advance(dec, done)` one
without, where `dec` is the decode window (none, one or two instructions) and
`done` maps the entries answered in this cycle to the outcome. All always-blocks
of the source change state on every edge, so both are conjunctions over all of
them. `RobNext` takes `Flush` whenever it likes (an interrupt) and must take it
when the head faults (`CommitFault`). `global_wfi_i` is the constant 0 in
`excep_ctrl.v` and is left out. Program counters, immediates, causes and results
are not state: nothing in the control reads them except through the outcome of
an instruction. `done` may hold only entries in use and not finished; that the
units keep to this is `IssuedExactlyOnce` of `Rcu`.

Arrays without a reset in the source (`rob_op`, `rob_rd`, ...) start with
arbitrary classes in the model where it matters: the load/store flag of an
entry that was never used is read by the arbiter, and `cmt_miss` reads the jump
flag of the head.

### Rcu

Adds `rob_selected`, the source registers, `available_table`, the issue
registers `alu1`, `alu2`, `csru`, the queues `mdq` and `lsuq` (sequences, which
`F2if2o` justifies), `md_active` and `lsq`. `Ports` is the multiplexing of four
grants to two ports, with the parity rule for the second port. The arbiter is
represented by `TwoOldest`; the run `blocks` and the theorem
`ArbiterGrantsTwoOldest` show that its logic computes that. Operand values are not modelled; what is shown is that an operand comes
from its true producer after that has finished.

The functional units appear as the RCU sees them: the ALUs and the CSR unit
answer in the cycle after issue, the multiplier/divider holds one request and
answers at any time, the load/store unit accepts requests when it has place
and answers at most one per cycle, a store only after being woken up as the
oldest instruction, but for an exception, which the load/store queue reports without
waiting (`lsu_lsq.v:302`). Any ALU instruction may be found mispredicted (`fu.v`
compares the next pc for all of them).

### Div

All registers of `div.v` at half width `H` (32 in the source). The dividend is
kept as a number instead of bit-reversed, so that "the low bit after n shifts"
is bit `loop`. `req` records the operation for the properties. `active` is the
signal of `md.v` that admits requests, expressed by the divider's state. The powers
of two are a recursive function (`Pow2`), since the provers know nothing of `2^n`.

### LsuBench, FakeRcu and L1dBench

`Tick` is one odd value of `main_time`: the ports are wired with the values
before the edge, then `monitor->eval()`, `rcu->eval()` and the LSU take their
step, each a conjunct. What the monitor draws with `rand()` is an `\E`. Its
alarms (`throw`) set a status; `Finish` is the comparison of the memories and
the assertions after the loop. `FakeRcu` has one operator per part of `eval()`,
composed in the order of the code, because each part sees what the one before
it left. The LSU takes requests in order while it has room, performs them in
order (a store when it was woken up, a fenced store at the head only) and
answers one per edge. Values of stores are their numbers, so that a load tells
which store it saw. `L1dBench` reuses all of this with ROB indices from 0,
no fences and its own end of `main()`, where an object that was deleted answers
anything.

### CacheBench, FakeMem, AxiMem

`CacheBench` keeps the lists of the fake cache and bus with their delays; the
history variables hold the accesses that were performed and answered, each with the
ready bit that was shown when the cache took it.
`FakeMem` gives the same stores to the two memories and to the bus path, which
splits a double word, with `Base` instead of 256 values of a byte. `AxiMem` has
the waiting list, the request list and the response list of the code; reading
`front()` of an empty list, which is undefined, leads to a status of its own. The ready
bits of the cache are free at every edge; `popped` is whether the answer on the port has
left the list.

### NbLsuBench and DcacheBench

Both keep the queues of the test, the memory of class `PerfectMem` and the second
memory. Half of the requests of `NbLsuBench` have an I/O address: they go over Wishbone,
where an access is given to the memory at every edge until `wb_ack_i`, which the test
wires to the answers of reads. `TimeOut` is the end at `MAX_TIME` in both, and in
`LsuBench`. The LSU of both is a contract: its queue is not in the repository. The cache
of `DcacheBench` is `dcache.v`, whose differences from the cache that `lsu_dcache.v`
instantiates are listed at the head of the module.

### MagicMemory and Simulator

`D_Request` and `I_Request` are called once per cycle before the rising edge
(`Serve`), the core samples their acknowledges at the edge (`CoreEdge`). The
functions' static variables are part of the ports `d` and `i`. The latency, 0
in the code (`rand() % 1`), is a choice up to `MaxLatency`. A master keeps its
request until the acknowledge, as Wishbone demands. `count`, `stored` and
`could` are history: how often the transfer was performed, what the
acknowledged stores left, and what a fetch may return. `Simulator` adds the
argument parser, which is modelled letter by letter because its indices are the
point, the loader, the reset and the loop; the core may access `tohost` in any
cycle.

### TraceLog and CoSim

`CommitStream` is the RCU and the CSR unit reduced to what the trace functions are
shown: instructions are allocated (up to two per edge in the two-wide core), write back
and commit; a CSR access is issued at the head, writes its CSR at the next edge and
commits later; a fault throws out all that are in flight, also a CSR access that has
written. `TraceLog` runs on the stream with one commit per cycle and the two write ports
of its function; `orphan` is history: the CSR write noted is that of an access thrown
out. `CoSim` has five write ports and two commits per cycle, and the address wires of an
idle port show anything. The calls of these functions in the Verilog are commented out
(`csr.sv:103-115`), so ports and order are read off their signatures.

### BackendUt

A step is half a clock cycle, as in the loop. Memory lines are sequences of
sixteen digits that are all different, so that a wrong position shows. The back
end takes the instruction on its ports when it has room, shows the request of a
load for the cycle in which it is accepted, and finishes the load when an
answer with its index comes at or after that edge.

## 3. Runs

| Run | Shows | Bounds |
|---|---|---|
| `blocks` | FIFO: pointers in range, lap flag exact (`RecountIsLap`), implements the queue (`QueueSpec`); arbiter: `GrantsTwoOldest` | 4 lines, 3 payloads: all fill levels, wraps of reader and writer alone and together, and reordering of payloads are reached; arbiter of width 4, all inputs |
| `rename_2x3` | `RenameFollowsProgramOrder`, `PhysicalRegistersConserved`, `RollbackWindow`, `FreeListNeverUnderflows`, `PreciseCommit` | 2 entries, 2 renamable registers, 4 physical: both instructions of a window renaming the same or different registers, x0 as destination, every fault (misprediction, exception, return, interrupt) |
| `rename_3x2` | `RobContiguous`, `HandshakeAgrees`, and conservation, rollback window and precise commit again | 3 entries: with an odd size a pair of writes or commits can straddle the wrap, and the buffer can have one free slot |
| `rcu_2` | `IssuedExactlyOnce`, `SourcesFollowProgramOrder`, `IssuedWithOperands`, `CsrNotSpeculative` | 2 entries, every unit |
| `rcu_3` | `IssuedExactlyOnce`, `SourcesFollowProgramOrder`, `IssuedWithOperands` again, and `MemoryIssuedInOrder` | 3 entries for queues of 2 and the instructions that go through the queues, so that a queue can be full while a request waits |
| `rcu_live` | `EveryEntryLeaves` | 2 entries, the slow units, a load/store unit of one place |
| `div` | `QuotientCorrect`, `DivisionLoop` | H = 3: all pairs of 6-bit operands |
| `programs` | the C++ programs, see the next table | |
| `programs_live` | `ProgramsEnd`, made of `TestEnds`, `RandomTestEnds`, `EveryAccessAnswered`, `AllAnswered` and `EndsWithinLimit` | LSU test: 3 requests and two wake-up delays; fake cache: 3 accesses; memory behind the L1D cache: 2 requests; non-blocking LSU: 4 requests; simulator: three options |
| `rcu_wfi` | violation: the code issues a wfi | |
| `div_rv64m` | violation: 64-bit divisions with the half-width shortcut | |
| `cosim` | violation: the co-simulation's copy of the register file (`CopyInSync`) | 3 instructions, all five ports |

`MC_Programs` holds the programs as instances. They are separate executables that
share nothing: the variable `bench` chooses one in the initial state, and the
variables of the others keep a value without meaning. A property is a
conjunction of implications from `bench` to properties that the modules define:
`RightDevicesPass` (no test raises a false alarm), `InFlightAgrees` (what a test
believes to be in flight is in flight), `AccessesOnce`, `MemoriesAgree`,
`AxiInOrder`, `LogsAreProgram`, `BackendServed`, `SimulatorRuns`, and
`ProgramsTypeOK` for the type invariants. The three of `MagicMemory` are stated
for themselves, since they are also proved. The parts, program by program:

| `bench` | Parts | Bounds |
|---|---|---|
| `lsu` | `NoFalseAlarm`, `ScoreboardFollowsRcu`, `LsqMirrorsRcu`, `RegistersConserved` | RCU of 4, 4 requests, LSU of 2: the indices wrap, the LSU fills, two addresses meet |
| `l1d` | the first two, `RegistersConserved`, `AnswerFindsItsRequest` | RCU of 3, 4 requests |
| `cache` | `OneAnswerPerEdge`, `CachePerformsOnce`, `AnsweredOnce`, `BusPerformsOnce` | 3 accesses of two pages, hits, misses, kills, I/O double words, bus delays; a cache of 2 lines, so that the list is full while the LSU kills and repeats |
| `doubles` | `LoadsAgree`, `BusPathAgrees` | one double word, bytes of 4 values, two patterns with every sign |
| `words` | `WordsHoldBytes`, `SignedLoadsChecked` | two words, binary bytes: all contents |
| `axi` | `AnswersInOrder`, `NoThrow` | 3 requests, bursts of 2, delays that overtake each other, any ready bits |
| `nblsu` | `LsuHoldsWaiting`, `RightLsuPasses` | 5 requests, cached and I/O, LSU of 3, 2 MSHRs, delays up to 3; the test may run out of time at any edge |
| `dcache` | `AckOfThisTransfer`, `RightDevicePasses` | 3 sets, 5 requests: clean and dirty misses, hits |
| `memory` | `AckedOnce`, `LoadsSeeStores`, `FetchesFresh` | one RAM word of two binary lanes, the console, an unmapped address, latencies 0 and 1 |
| `simulator` | `ArgumentsTaken`, `ImageLoaded`, `VerdictFollowsProgram` | up to three options in every order, a segment that begins below the RAM and one above it, limits 0 (none) and 2; the core loads, stores a byte, or reaches past the RAM |
| `tracelog` | `TraceIsProgram`, `CopyInSync` | 4 instructions, 2 in flight, 3 registers: each register is reused; faults at any edge, a traced and an untraced CSR |
| `backend` | `LinesTakenOnce`, `AnswerOfThisRequest`, `LowLoadsRight` | 5 lines for a ROB of 3 |

The control of the RCU tells entries apart only by comparing indices, and looks
at no more than the two at either end, so two or three entries give all
relative positions of the write index, the commit index and an answered entry;
three are needed for a wrap inside a pair and for a queue of two to overflow.
The theorems below confirm the choice: every safety property of the runs on the
reorder buffer, the FIFO, the arbiter, the issue logic and the divider is also proved
for every size. Queue depths are 2
instead of 4, the least for which "almost full" and "full" differ from "empty".

Views. Most entry fields are never read when the entry is not in use, and free
list lines outside the window from the slow read pointer to the write pointer
never before being rewritten. The `View` of the MC modules leaves exactly these
out, and keeps the load/store flag of freed entries, which the arbiter does
read. `RcuLive` is checked without a view.

Deadlock is checked in every run: a clock edge is always possible, and a program
that has ended stays in its last state by an action of its own.

The bounds of the benches are chosen so that the lists with a limit (the fake RCU, the
LSU, the fake cache, the ROBs) can be full and every index can wrap once while older requests are still in flight. The properties
compare lists position by position, and the code looks only at the ends of its
lists and at one entry by index, so longer tests repeat these situations.

### Fairness

`rcu_live` assumes: the clock runs (`ClockTicks`; the variable `clk` makes an
edge that changes nothing a step, so that a stuck machine is a behaviour and not
a stuttering one); the multiplier/divider ends (`MdAnswers`; it counts down, see
`Div`); the load/store unit takes a request it has place for (`LsuTakes`) and
answers loads and woken stores (`LsuAnswers`). The last two are assumptions on
a unit that is not modelled yet. Nothing is assumed of decode, which may stop
sending. Interrupts are left out of this run: each one empties the ROB and
would hide a stuck entry.

`programs_live`: the loops of the programs go on. A variable `clk` makes an
iteration that changes nothing a step, as in `RcuLive`, and is fair
(`WF_clk(Tock)`); some iteration is always possible, which the deadlock check
confirms. Of the devices it is assumed that the LSU does not hold for ever what it
may perform or answer (`Performed`, `Responded`; what it may perform depends on
the wake-ups of the bench, which are under test), that `rand()` at last makes the
next request of the LSU test (`Drawn`), that the cache sends the beats of its
writes and does not keep its ready bit down for ever (`Received`), and that the
non-blocking LSU sends what it holds and reports what is
complete (`Sent`, `Reported`). The fake cache gets no assumption but the clock,
and the core, which may loop for ever, is not assumed to report to the simulator.

### Disagreements

* `rcu_wfi`. `spec/units/rcu_spec.md:201` lists "no mret, sret, wfi signal"
  among the conditions for issue. The bypass path excludes a wfi,
  `rob_select_ready` does not: a wfi is granted in the cycle after allocation.
  It has no unit, so the effect is a lost issue slot.
* `div_rv64m`. `div.v:72` treats a 64-bit division as a word division when both
  magnitudes fit 32 bits. The signs are then taken from bit 31 and the result is
  sign-extended from bit 31, which is wrong when an operand or the quotient is
  2^31 or more: +2^31 divided by 1 gives -2^31, signed or unsigned.
  `QuotientCorrect` shows that these are the only wrong answers: it covers every
  word operation, every full-width one, and the shortcut when operands and
  quotient fit 32 bits as signed numbers.

* `cosim`. A comment in `co_sim.cpp:38` has `preg_sync` keep the copy of the register
  file; lines 60, 64 and 72 test the valid bit of the first ALU for the second ALU, the
  multiplier and the CSR unit. Of the same file, without a run: only the first of two
  commits is printed (line 178, against the comment in line 160), and the flag that makes
  CSR writes noted is cleared where it is set (line 217), so none ever is.

Reading the C++ programs for the models showed these. They are in the models, but for
memory that is not zero, and a property that one stands in the way of says what holds
otherwise:


* `fake_cache.cpp:168` tests for room after the killed request was
  removed, while the ready bit was computed before: the cache takes a request in
  a cycle in which it showed not ready, and the LSU sends it again: it is performed
  twice, in succession (`CachePerformsOnce`).
* `l1d.cpp:326` asks a monitor it has deleted whether the test is
  done; after an exception everything is deleted twice.
* A `break` in the wrong place (`perfect_mem.hpp:69`) makes `ready()`
  look at entry 0 only; the second MSHR is never used.
* The RAM (`memory.cpp:98`) is not initialised and the ELF image is
  ORed into it. `ImageLoaded` checks the loader for memory that happens to be zero.
* The last argument is never looked at (`simulator.cpp:72`), a
  final `-h` in particular.
* The memory behind the L1D cache drops an answer by the ready bit of the `eval()` that
  shows it (`l1d/fake_mem.cpp:213`, `:219`), the cache takes it by the bit of the next
  edge: if the bit falls in between a beat is lost, if it rises the beat is taken twice.
  `AnswersInOrder` is about what is shown; only a cache with steady ready bits takes each
  answer once.
* `nblsu.cpp:468` wires `wb_ack_i` to the answers of reads, so a store over Wishbone is
  written at every edge and never acknowledged: a random test with one (a quarter of the
  requests) can only end at `MAX_TIME`, by the assertion in line 606. `RandomTestEnds`
  says that nothing else keeps it from its end.
* In `tracelog.cpp` a CSR write is noted at the write and printed with the next CSR commit,
  of which a comment (line 41) says it must be that of the write. A fault between the two
  leaves `csr_need_print` set, since the CSR unit's write is not undone (`csr.sv:131`), and
  the next CSR access to commit prints the stale line (93-96) unless it has noted a write.
* In `ut/backend.cpp` answers are given (line 119) only in the branch that reads
  a line, so that a request accepted while the ROB is full is lost; and
  `substr(start, end)` (line 217) is given an end where it takes a length. A wfi and an
  mret of the CSV file are read with `compare()`, which is 0 for equal texts (190, 194).

Two statements of the documents that the models made us read twice, without a
run: `rcu_spec.md:184` says the available table is cleared at commit (the code
clears at allocation; clearing at commit would make `IssuedWithOperands` fail),
and the FIXME in `rcu_spec.md:190`, that the second write does not look at the
first, is harmless: `HandshakeAlwaysAgrees` proves it for every size. Also, the
restoring of `fifo_recount` on a rollback is redundant at the depth chosen in
`params.vh`: the list is full only before the first commit.

## 4. Theorems

Proved for every value of the constants that satisfies the assumptions: sizes
and queue depths of at least 2, a load/store unit of at least one place,
`FRLIST_DEPTH = AREGS - 1 + ROB_SIZE` as in `params.vh` (47 = 31 + 16),
instructions of the classes the decoder knows, registers of at least two bits
(`H >= 1`), and for the programs `PartsAssumption`: page table lines are not data lines,
a burst has a beat, addresses of the CSV file lie in the memory image, physical register
0 is not one of those that instructions are given, values are natural numbers, and the
value for "nothing" is none of the beats, answers, requests and CSRs. All theorems are about behaviours
from reset, of the same specifications that the runs check.

* `CounterProofs`: the counter is addition modulo the size; it counts by going
  to the next line; circular intervals grow at one end and shrink at the other
  (`IntervalPush`, `IntervalPop`).
* `FifoTypesCorrect`, `FifoLapFlagExact`: `Spec => []TypeOK` and
  `Spec => []RecountIsLap`, from the lemma `FifoControl`. The two are inductive only
  together: the lap flag makes the fill level a difference of the pointers, from
  which the enables fit the free lines and the items; then writer and reader
  cannot pass each other, which keeps the flag exact.
* `FifoIsAQueue`: `Spec => QueueSpec`, the refinement of `BoundedQueue`. Items
  are addressed by distance from the reader (`LineAt`); the writer is fill-level
  lines ahead, so a write never hits an item that stays.
* `RobTypesCorrect`, `RobStaysContiguous`, from the inductive invariant
  `RobControl == RobTypeOK /\ RobContiguous`. Contiguity is needed for itself: if
  the second free slot could be free alone, one write would tear the interval
  (`SecondNeedsFirst`). The two writes are two pushes, the two commits two pops.
* `HandshakeAlwaysAgrees`, from the same invariant.
* `CommitsArePrecise`: `RobSpec => PreciseCommit`. The head has no older entry
  and its successor only the head; a step without fault means the head neither
  trapped nor missed unless it is a jump, and the second commit excludes the rest.
* `RobRenameProofs` also has `RenamingFollowsProgramOrder`, `RollbackTakesBackSquashed`,
  `FreeListSuffices` and `RegistersAreConserved`, from the inductive invariant
  `RenameInv == RobControl /\ FreeListLaps /\ RegistersOwned`. None of the four is
  inductive alone: a rollback restores the free list by moving one pointer, which
  is right only if the window behind it holds the registers of the entries in
  flight in program order, and a commit returns `rob_lprd`, which is right only if
  that is the register the committed table gives up. `Owned` says both over one
  window of the free list, counted from the slow pointer: the ranks of the entries
  in flight, then the free registers, and every register of the window or of the
  committed table at exactly one place. An edge is at most two pushes followed by
  at most two pops (`OwnedPush`, `OwnedPop`), a fault is `OwnedFlush`; between them
  only the naming of ages changes (`OwnedReorder`). That there is a free register
  for every free entry is counting: the window and the committed table hold all
  `FRLIST_DEPTH` registers, and the table at most `AREGS - 1`.
* `RcuProofs`: `RcuImplementsRob` (`RcuSpec => RobSpec`: whatever the issue logic and
  the units do is a completion the reorder buffer allows, so all theorems above
  hold of `Rcu`), `RcuTypesCorrect`, `IssuesAreExact`, `CsrsAreNotSpeculative` and
  `MemoryStaysInOrder`. The inductive invariant is
  `RcuControl == RobControl /\ IssueControl`; the heart of `IssueControl` is
  `OneRequest`: an entry that was issued and has not finished has its request
  outside, and every request outside is the one of such an entry. It needs that
  each place holds only its class (`Sorted`) and no request twice (`Apart`), and the
  queue depths of at least 2 for which "almost full" leaves room for both ports.
  `CsrNotSpeculative` and `MemoryIssuedInOrder` are inductive relative to it.
* `RcuProofs` also has `SourcesAreTrueProducers`, from
  `SourceControl == RcuControl /\ RenameInv /\ SourcesLeft`: what older entries
  leave in a register (`Leaves`) does not change when the oldest of them commit;
  and `OperandsAreThere`, which adds `TableFresh` (an available destination is that
  of a finished entry) and `IssuedReady`. The available table is cleared at
  allocation and never restored by a rollback, so the proof needs that the register
  being allocated is no source of an entry in flight: `OneOwner`, by counting (there
  are as many places as registers and every register has one, so none has two).
* `OldestTwoProofs`: `ArbiterGrantsTwoOldest`, for every width. `mid` and `mid_less`
  are recursive functions of the age; what they hold is shown by a function that
  satisfies the same equations and the well-foundedness of the naturals
  (`ChainsAgree`), and then the two one-hot vectors are the two least members of
  the set of eligible requests.
* `ProgramProofs`: `TransfersAckedOnce`, `LoadsReturnStores` and
  `FetchesReturnFresh`, for every RAM, set of lanes, byte values and latency, from
  `MemoryInvariant`. The three are not inductive: what has to be added is that
  the flag `finish` of a port belongs to the request on the bus (`PortOK`), that
  it is the transfer that was performed (`CountInv`), that the RAM is what the
  acknowledged stores left, plus the one performed and not yet acknowledged
  (`RamInv`), and what the data wires hold meanwhile (`LoadInv`, `FetchInv`). Each
  of the two steps, `Serve` and `CoreEdge`, has a lemma; `CallPort` says what one
  call does to a port and is used for both.
* `DivProofs`: `DivisionLoopCorrect` and `DividerIsRight`, for every width. The
  inductive invariant `LoopInv` says that in cycle `loop` the quotient and the
  remainder are those of the dividend's bits above it, divided by `b`, and that the
  signs and the width noted belong to the request: each cycle is one step of the
  schoolbook division (`Iteration`), which never leaves a remainder of `b` or more.
  `QuotientCorrect` follows from the last cycle: the signs and magnitudes of the
  operands are those of the numbers they stand for, on half or on all of the
  register, and negating and sign-extending the result undoes this. The case of a zero
  divisor is apart: there the loop yields all ones and the dividend. The facts about
  `Pow2` and about `\div` and `%` by a variable, which the provers do not know, are
  lemmas from the recursion and from the definition of a quotient.
* `AxiMemoryInOrder` (`MC_ProgramProofs`): `Spec => []AxiInOrder`, whatever the ready bits
  of the cache do. What the cache is
  owed was decided when it sent its requests, the memory decides when it serves them,
  so the property is not inductive. `AxiInv` links the two by a chain of stages, one per
  request that waits: the first is the memory as it is, each serves its request
  (`Handles`), the last is what the cache knows, and the answers of the stages, behind
  those already in the list, are what is owed. A write that still lacks beats is
  served with the beats to come, which the invariant finds in `w_todo` in order. Each
  part of `eval()` has a lemma: a beat, an arrival, the count-down, the move of the
  complete requests, and the answers.
* `BackendIsServed` (`MC_ProgramProofs`): `Spec => []BackendServed`, from `UtInv`: the
  lines the back end took are those read, up to the one on the ports (`UtTaken`); the
  request noted is the one shown, and the answer on the ports is that of a request, with
  the data the image gives for it (`UtAnswers`). That those data are the bytes of the
  address is shown size by size (`LowLoad`).
* `LogsFollowProgram` (`MC_ProgramProofs`): `Spec => []LogsAreProgram`, for every set
  of registers, values and CSRs, every program length and size of the ROB, with faults at
  any edge. The functions read the value of a commit from their own copy of the register
  file, at the commit. That it is the value the instruction computed needs what the core
  guarantees (`StreamOK`): no register is the destination of two instructions in flight,
  and a finished instruction finds its value in its register; the copy equals the register
  file. `CsrNoted` adds that the name, the value and the two flags that `log_print` and
  `csr_monitor` keep from one edge to a later one belong to the CSR access at the head of
  the ROB, unless `orphan` says that they were left by an access thrown out. The lemmas
  are what an edge leaves in flight (`StreamStep`), in the register file (`FileWritten`)
  and in the copy (`CopyWritten`).

Only model-checked: `EveryEntryLeaves` and `ProgramsEnd`, since liveness under
fairness is out of the prover's reach; and of `MC_Programs` `ProgramsTypeOK`,
`RightDevicesPass`, `InFlightAgrees`, `AccessesOnce`, `MemoriesAgree` and
`SimulatorRuns`. Each of these is a conjunction over several programs; those of the
simulator and of the memories of the benches are about folds over the arguments, the
segments or the bytes, where what is computed for every input needs an induction over
data that the provers cannot instantiate.

## 5. Plan

1. Model more of the core, in this order:
   `LsuLsq` (load/store queue: replay, wake-up, flush with requests in flight,
   an abstract memory order as its specification), replacing the assumption
   `LsuAnswers`; `Trap` (CSR file, interrupts, `mepc`, return) composed with the
   commit ports; `InsBuffer` and `Fetch` (prediction, redirect priority, stale
   cache answers) with the decode FIFO; `Md` with the multiplier against its
   reference; `Ebi` link, `AsyncFifo`, interrupt controller and bus arbiters; the
   page walker.
2. Abstract specifications worth stating: an in-order machine that `Rcu`
   implements (values in the register file instead of names); a FIFO across
   clock domains for `AsyncFifo`; program-ordered memory for the LSU.
3. Proofs: `LsqMirrorsRcu` and `ScoreboardFollowsRcu` of `LsuBench` for every size.

## 6. Not modelled

Operand values, the register file and bypass network (data path); the
arithmetic of the ALUs and the multiplier; the decoding tables; fetch, load/store
unit, CSR file, MMU, cache link and peripherals (planned above); the L1 data
cache and common cells, which are empty submodules here; the wiring of `core.sv`
and `uncore.sv`; older variants (`core_new.sv`, `core_prfree.sv`, `rcu_prf.sv`);
ISA tests and physical design data.

Of the C++ programs: wave-form drivers without state of their own (`decode.cpp`,
`fetch.cpp`, `btb.cpp`, `gshare.cpp`, `rvh_mmu.cpp` and others of `selfcheck`),
`new_fu.cpp`, most of which is commented out, `lsu_fake_dcache.cpp`, a variant of
`lsu_dcache.cpp`, the copies of the LSU bench under `uncore`, the stale
`perfect_mem.cpp` and `core_empty.cpp`; the directed cases of `nblsu.cpp`, which are
commented out; the simulator's options `-m` and `-l`,
its console and its performance counters; the texts the programs print. In
`CommitStream` nothing that writes a register commits at an edge with a fault: the RCU
masks such a commit (`rcu.sv:723`).

Hazards of parts that are not modelled yet, to start from: a load allocated with
an older CSR access may pass it (`rcu.sv:1336`); a store woken up one cycle after
a mispredicted jump committed (`rcu.sv:1268`); `mepc` taken from the ROB head when
the ROB is empty (`csr_regfile.v:659`); the exception bit of the LSQ answer without
its valid bit (`lsu_lsq.v:307`); answers of the data cache to loads that a flush
dropped (`uncore.sv:380`); a lone second instruction at the decode FIFO
(`decode.v:362`) and an interrupt injected into both instructions (`decode.v:307`);
the link value of the second ALU sign-extended from the first's next pc
(`fu.v:330`), and a misprediction of an instruction that is no branch (`fu.v:356`);
full and empty decided on delayed pointers in the asynchronous FIFO
(`async_fifo.v:55`).

The reset sequence is taken as long
enough: the fast read pointer of the free list is reset to the slow one, so
reset must last two cycles.
