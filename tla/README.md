# A formal model of the sisRV platform

sisRV is an RV32IMAC system on chip written in SystemVerilog: an in-order core
(`rtl/core`), two memory systems behind the same core ports (`rtl/bus`), the
peripherals (`rtl/periph`) and a JTAG debug path (`rtl/debug`), put together in
`rtl/sisPlatformTop.sv`. Python scripts beside it decide whether the core is
right and how fast it is: the lock-step comparison with Spike
(`verification/cosim`), the architecture tests (`verification/riscof`) and the
benchmarks (`scripts/run_benchmarks.py`). This directory holds TLA+ modules that
model the parts whose correctness depends on the order in which several things
happen, the TLC configurations that check them on small instances, and TLAPS
proofs of the results that hold for every instance.

All paths below are relative to the repository root.

## 1. How hardware and scripts are modelled

Every module of the design is clocked by the same clock, so **one step of a
hardware specification is one clock edge**. What happens in the cycle is decided
by the inputs of the part being modelled; they are a record `c` that the
next-state relation chooses (`\E c \in Inputs : Cycle(c)`), and each register
has one operator for its next value (`IfStateNext(c)`, `ExNext(c)`, ...). Where
the RTL assigns a register more than once in one `always_ff`, the last
assignment wins, so the alternatives of such an operator are written in reverse
order of the source. Splitting a cycle into several actions would invent
interleavings the hardware does not have; what does interleave is what the
inputs express: bus latency, stalls, interrupts, debug requests, and what the
other parts do.

In `Lockstep`, `ArchTest` and `Benchmarks` **one step is one stage of a
script**: an external program that is started and ends, a file that is written,
a result that is collected. Each way a stage can end, by an exit status, an
exception or a missing file, is a disjunct of its action.

Data is reduced to what the properties can tell apart. An instruction word is
*the place it was read from*, so a word taken from the wrong place is a wrong
value; an instruction in the back end is the behaviour the control logic
distinguishes; bus data is a member of a small set; a test program is its
length and the deviations a core may show on it.

Operators whose comment starts with `Variant:` are not part of the model. Each
is the neighbouring definition with one plausible mistake in it; replacing the
definition by its variant must break the property it belongs to. They document
what each property is sensitive to.

## 2. Inventory

| Part | State | Operations | Talks to |
|---|---|---|---|
| **IF stage** (`sisRvCore.sv` 87-122, 949-1034, 1272-1388, 1502-1538) | demand FSM `if_state`, `fetch_pc`, `fetch_req_pc`, `fetch_upper_hold`, one-word buffer `fbuf_*`, prefetch slot `pf_*`, two discard flags, IF/ID register | demand fetch, prefetch, serve from buffer, assemble straddling instruction, flush by redirect, flush by step stop | I port, `sisPmp` u_pmp_i, ID, EX (redirect), WB (privilege) |
| **ID/EX/WB** (`sisRvCore.sv` 605-945, 1048-1134, 1261-1270, 1390-1586; trap part of `sisCsr.sv`) | EX FSM, pipeline registers, `lr_valid/lr_addr`, `halted`, `step_active`, mstatus, mepc, `priv_q` | hand-over ID→EX→WB, load/store/LR/SC/AMO, redirect, trap entry, MRET, CSR write, halt/resume/step | D port, IF, interrupt lines, debug module |
| **Debug module** (`sisDm.sv`) | dm_active, haltreq, resumereq, step, `dmi_pending`, DATA0, abstract command state | DMI read and write, halt, resume, step, register access | core, DMI |
| **PMP** (`sisPmp.sv`, pmpcfg/pmpaddr of `sisCsr.sv`) | pmpcfg, pmpaddr | register write under locks; match, priority, permission | IF, EX, WB |
| **AXI4-Lite path** (`sisAxiLiteM.sv`, arbiter in `sisPlatformTop.sv` 567-608, `tb/models/sisAxiLiteSlave.sv`) | bridge FSM, request and response registers, `aw_done`/`w_done`, arbiter owner, slave read and write FSMs, memory | accept, AR/R, AW/W/B, answer | both core ports |
| **Corebus memory path** (`sisMemFabric.sv`, `sisRom.sv`, `sisRam.sv`, MMIO router and instruction ROM path in `sisPlatformTop.sv` 290-436) | `active_slave`, `has_pending`, `mmio_sel_r`, `irom_bad_pending`, `pending` and `rdata_reg` of each device | decode, route, respond | D port, I port (ROM) |
| **Interrupt controller** (`sisPlic.sv`) | gateways, enables, priorities, threshold, claim in service | register access, claim, complete, meip | D port, interrupt lines, hart |
| **Lock-step comparison** (`verification/cosim/spike_lockstep.py`) | pool of processes with a task queue, a directory per seed, main's counter | generate, build, run Spike, run Verilator, compare, collect | gcc, `elf2sisrv.py`, Spike, simulator |
| **ELF to hex** (`riscof/scripts/elf2sisrv.py`) | the two images | load segments, write rom.hex and ram.hex | both flows above and below |
| **Architecture tests** (`riscof/scripts/filter_*.py`, `riscof/plugins`) | filtered list, compiler prefix, work directories, signatures | filter, build, runTests of both plugins, compare | RISCOF, gcc, nm, make, Spike, simulator |
| **Benchmark runner** (`scripts/run_benchmarks.py`) | iterations, images under `build/bench`, rom.hex, rows, summary.json | build, pilot, calibrate, run, check, summarize | gcc, simulator |
| **JTAG transport** (`sisJtagDtm.sv`) | TAP FSM, IR, DR | scan, DMI request | debug module |
| **CSR file, the rest** (`sisCsr.sv`) | counters, HPM events, triggers, interrupt enables | CSR read/write, count | WB, trigger match |
| **Register file, bypass, interlock** (`sisRegFile.sv`, `sisRvCore.sv` 864-934) | 31 registers | read, write, forward, stall | ID, EX, WB |
| **CLINT, UART, GPIO, tohost** | registers, 64-bit mtime/mtimecmp, RX slot | register access, tick | D port, interrupt lines |
| **Decode, decompress, ALU, M unit** | none | combinational | ID, EX |
| **Benches, formal harnesses, software, other scripts** | - | drive and observe the design | - |

Which behaviours are hard:

* *Fetch.* Demand fetches and prefetches share one response channel without
  tags; a flush can catch either in flight, in the very cycle of its response;
  instructions straddle words; the PMP verdict is taken when the response
  arrives, while the privilege changes a cycle after the redirect.
* *Back end.* EX redirects fetch one cycle before WB decides about the trap,
  from conditions latched separately; EX reads CSRs an older instruction is
  still writing; an AMO is two accesses; halting, stepping, traps and bus
  accesses in progress overlap.
* *Debug.* Requests survive or are cleared by handshakes of other requests; a
  step meets traps and interrupts.
* *PMP.* Masks and bounds at the ends of the address space; locks that reach
  into the neighbouring entry.
* *Memory paths.* Two ports, one transaction; AW and W complete in either
  order; responses must reach the port that asked.
* *Interrupts.* Lines rise and fall while software claims and completes.
* *Lock-step.* Chunks come back in any order, workers fail or are killed, both
  logs are cut at arbitrary places.
* *Architecture tests, benchmarks.* Exit statuses are dropped, files of earlier
  runs lie about, one tool of many fails.
* *Timers and counters.* 64-bit values in two halves.

What makes each part correct, modelled or not: IF delivers the program, in
order, once, with the right fault bit. The back end completes the instructions
of the one path execution takes, makes each access once and traps precisely. The
debug module steps one instruction and halts behind it. PMP obeys the
lowest-numbered matching entry, and a locked region stays what it is. A memory
path is an atomic memory that answers each request at the port that made it. The
PLIC never loses a level interrupt and never invents one. A lock-step run passes
only if every seed ran and agreed, and never blames the core for a log that was
cut. An image is what an ELF loader would have loaded; a test passes only if the
core ran it; a benchmark row was measured on the image this invocation built.
Every run of a script ends. A register read sees the youngest older write. A
counter never runs backwards.

`PROJECT.json` lists the components with their status and, under `hazards`,
each hard spot with its line and the properties aimed at it.

## 3. Modules

```
InstrMem ── FetchStage ── FetchUnit ── MCFetchUnit          IF stage
   └─────── FetchStream ─────┘ └────── FetchProofs
BackEnd ─┬─ MCBackEnd                                       ID, EX, WB
         └─ DebugModule ─┬─ MCDebugModule                   with sisDm
                         └─ BackEndProofs
Pmp ─┬─ MCPmp                                               PMP
     └─ BackEndProofs
CoreBus ─┬─ AxilBridge ─┬─ AxilPath ──── AxilProofs         AXI memory path
         ├─ AxilSlave ──┘
         ├─ CorebusPath ─┬─ CorebusProofs                   corebus memory path
         │               └─ MCCorebusPath
         └─ PortMemory       INSTANCEd by AxilPath and CorebusPath
Plic ── PlicService ── PlicProofs                           interrupts
Lockstep ── LockstepProofs                                  spike_lockstep.py
HexImage ── ArchTest ─┬─ MCArchTest                         elf2sisrv.py, RISCOF
                      └─ ArchTestProofs
Benchmarks ─┬─ MCBenchmarks                                 run_benchmarks.py
            └─ BenchmarksProofs
```

### Instruction fetch

* `InstrMem`: program counters as (word, upper half), halfword contents, the
  PMP verdict for fetches, and `InstructionAt(pc, priv, wide)`, what memory
  holds at a pc: the reference for everything else.
* `FetchStage`: the IF stage as a circuit, `FetchEdge(c)`. `if_state`,
  `fetch_pc`, `fetch_req_pc`, `fetch_upper_hold`, `if_discard_rsp`, `pf_discard`
  keep the RTL's names; `fbuf`, `pf` and `if_id` are records that gather
  `fbuf_valid/fbuf_tag/fbuf_word/fbuf_err` and so on.
* `FetchUnit`: the stage with the instruction bus and as much of ID/EX/WB as
  decides about flushes and privilege. Three kinds of cycle: `Advance`,
  `Redirect`, `StepStop`. `Overlap` selects the bus: the ROM accepts a request
  in the cycle its answer is consumed, the AXI arbiter does not. With
  `Overlap = TRUE` the bus may accept in that cycle and need not, so the
  behaviours of both buses are covered.
* `FetchStream`: the abstract specification. No bus, no buffer: an instruction
  slot that receives `InstructionAt(next_pc, mode, wide)` in order, is taken,
  or is flushed.

### Back end and debug module

* `BackEnd`: one `Cycle(c)` for ID, EX and WB, the trap state of `sisCsr`
  (mstatus.MIE/MPIE/MPP, privilege, mepc), LR/SC, halt and step flags and the
  data bus. Register values do not occur; the interlock is an input
  (`c.hazard`), an instruction is one of the behaviours listed in `InstrSet`.
  The IF stage appears as what `FetchStream` promises. `due` and `accesses`
  are history variables.
* The two halves assume things of each other that each checks: `BackEnd` takes
  instructions the way `FetchStream` delivers them (`ImplementsStream`);
  `FetchUnit` assumes that the privilege changes one cycle behind a redirect
  (`PrivChangesBehindFlush`).
* `DebugModule`: `BackEnd` with its three debug requests driven by `sisDm`:
  both clocked in one step. `control` gathers dm_active, haltreq_r, resumereq_r
  and step_r, `abs` the abstract command, `data0` is who wrote DATA0 last.
  `stepping` and `retired` are history variables. The host discipline is part
  of the specification: one DMI request at a time, its response taken at once,
  and resume asked only of a core seen halted.

### Physical memory protection

* `Pmp`: the writes of pmpcfg and pmpaddr under their locks, and the matcher as
  operators (`napot_size_bytes`, `entry_matches`, `allow`) with the wrap-around
  of W-bit registers. `PlannedMatch` is the decode `docs/UMODE_PMP_PLAN.md`
  asks for.

### AXI memory path

* `CoreBus`: requests, responses, what a memory answers and stores.
* `AxilBridge` (`sisAxiLiteM`), `AxilSlave` (the handshake FSMs of
  `sisAxiLiteSlave`; its random stalls are inputs).
* `AxilPath`: the arbiter and the composition.
* `PortMemory`: the abstract specification: a memory that serves one request at
  a time, atomically, exactly once, and tells the port that asked.

### Corebus memory path

* `CorebusPath`: `sisMemFabric` (`active_slave`, `has_pending`), the MMIO
  router (`mmio_sel_r`), the handshake every device repeats (`pending`,
  `rdata_reg`), and the instruction port's own ROM with the error answer for
  all other addresses (`irom_*`). `Decode` is the address map. A device is a
  word of memory that reads back what was written; what CLINT, PLIC, GPIO, UART
  and tohost do with their registers is left out. The constants `Fetches`,
  `Loads` and `Stores` are the requests programs cause.
* Both ports are shown to see a `PortMemory`, each its own: the two paths share
  nothing but the contents of the ROM, and no store changes those.

### Interrupt controller

* `Plic`: gateways, the winner loop, claim/complete, register decode, corebus
  handshake. `Window` is the set of registers the decode lets through.
* `PlicService`: the hart of `sw/tests/asm/test_plic_irq.S` (claim, serve,
  complete; reconfiguring and reading outside the handler) and the lines.

### Scripts

* `Lockstep`: `main()` (check the tools, `CollectChunk`, `NextResult`, `Pass`)
  and the workers of the pool (`TakeChunk`, `BuildProgram`, `run_spike`,
  `run_verilator`, `CompareSeed`, `RaiseInWorker`, `WorkerDies`). A retired
  instruction is a pair (pc, insn); `Trace` is what a correct hart retires,
  `RtlLogs` what a core may that replaces, skips or repeats an instruction.
* `HexImage`: `elf2sisrv.py` byte by byte on a small address space (`RomHex`,
  `RamHex`, what it accepts), the memories `sisRom` and `sisRam` fill before
  `$readmemh` (`MemoryByte`, `Addresses`), and what an ELF loader puts in memory
  (`Placed`, `LoaderByte`), the reference.
* `ArchTest`: the two list filters and a RISCOF run with both plugins, from the
  filter to the report, with each exit on the way. RISCOF, the compilers, make,
  Spike and the simulator are what the plugins make of them.
* `Benchmarks`: `main` of `run_benchmarks.py` as a list of stages (pilot,
  performance, validation; pilot, dhrystone) for each ISA, with the files that
  outlive an invocation.

## 4. Runs

| Run | Question | Instance |
|---|---|---|
| `fetch_unit` | Does IF deliver the program, through either bus, and never wedge? `IInv`, refinement of `FetchStream`, progress. | 3 words that wrap, one faulting, one closed to U-mode; 8 programs that mix an aligned and two straddling 32-bit encodings; halts |
| `back_end` | Is the pipeline one path? Are traps precise: is the pipeline empty and fetch at the handler when WB enters one? Does privilege change only behind a flush? Is every access made once, owned and completed, and LR/SC sound, over traps, interrupts and halts? | 2 PCs: the exception vector, and the interrupt vector, which is also the reset vector; jump, ECALL, MRET, writes of MIE and MPP, store, LR, SC, AMO, an illegal load; the bus stalls, and may refuse LR and the store half of an AMO; interrupts, halts and resumes in any cycle |
| `debug_module` | Does a step retire one instruction and halt behind it, and does it end? | 2 PCs, computing and interrupt-enabling instructions, interrupts in any cycle; DMCONTROL writes that halt, resume, step, clear the requests, switch the module off; a register command that reads |
| `axi_path` | Is the AXI path an atomic memory? Are VALIDs stable, is everything answered? | a RAM word, a ROM word, an undecoded address; two values |
| `corebus_path` | Do fabric, router and devices agree, does each port see an atomic memory, is everything answered but a store to the ROM? | a word of ROM, one of RAM, a register in two MMIO devices, an undecoded address; loads from all, stores to all but one device, fetches inside and outside the ROM |
| `plic_service` | Are claims real, does a request stay until the completion of its own claim, is the highest served, and eventually? | 2 sources, one level, one pulsing; 3 priorities; whole register window (the slave's copy) |
| `lockstep` | Is a pass sound, are all seeds counted, is no correct core blamed, does main return? | 3 seeds in chunks of 2, 2 workers, at least 2 commits; 3 cuts of Spike's log and 2 of the core's; 2 places for a defect; one worker killed |
| `arch_test` | Is the image faithful, does a pass mean the test ran, is the report complete, do the filters account for every test? | 4 tests, 16 bytes of address space with 8 bytes of ROM and 4 of RAM at 8, 5 segment addresses, one or two segments; 7 hosts with different tools missing |
| `benchmarks` | Is a summary complete, are its rows measured on the right image, does calibration suffice, does every invocation end? | 3 lists of ISAs, costs of 3, 74 and 450 cycles, 2 invocations one after the other |
| `step_hangs`, `pmp_napot`, `exception_vector` | Disagreements, below. | `step_hangs`: stores and jumps, stepped; `pmp_napot`: addresses of 6 bits; `exception_vector`: 3 PCs, all instruction kinds that touch trap state |

The bounds are small because the state is. The fetch stage holds at most two
words in buffers and one in flight, so three words that wrap give every
relation between the demand word, its successor, the buffered word and a
redirect target. The pipeline holds at most three instructions and `InOrder`
compares each with its neighbour; two PCs tell an instruction from its successor
and one vector from the other. `back_end` puts accesses, traps, interrupts and
halts into one instance, where they meet in every order; to leave room for that
one instruction stands for those the control treats alike: a failing SC for what
only computes, LR for a legal load, CSR and MRET in U-mode for what faults before
any access. The memory paths have a single transaction;
two values tell a stale from a fresh one, and each class of address occurs. With
two PLIC sources every relation of two priorities and the threshold occurs; all
three loop positions beyond that repeat the same comparison. Three seeds in
chunks of two give a full and a short chunk, one for each worker. The addresses
of `arch_test` put segments into either memory, across its start, between words
and beyond the end of the RAM and of the address space; images that end in the
first word leave a ROM word to its initial fill. The literals of `run_benchmarks.py` are
scaled so that one cost is within the 2 % margin of calibration, one far below and one above the
cycle limit; an image of the first invocation is what a second could take by
mistake. The debugger of `debug_module` names an even register: bit 16 of a
command is the write bit and the lowest bit of the number (below), so an odd one
would only write. Each `arch_test` run starts from an empty work directory.

Deadlock is checked in all runs but three: in `lockstep` the script returns, or
waits for ever once a worker was killed; in `benchmarks` the number of
invocations is bounded; in `pmp_napot` the run ends at its violation.

### Disagreements found

Three runs expect a violation. Each checks one property that a document, a
comment or a test of the repository states.

| Run | What the run shows |
|---|---|
| `step_hangs` | `tb/verilator/pipeline_debug_main.cpp:77`: a single step must halt again. The step stop squashes an instruction in EX whose request the bus has taken; nobody listens to the response, the bus stays busy and the re-executed access is never accepted. |
| `pmp_napot` | `docs/UMODE_PMP_PLAN.md:86,112`: the matcher "must implement exactly" the decode on addr[33:2]. `sisPmp.sv:70` compares with base + size in 32 bits, so a NAPOT region that ends at the top of the address space matches nothing. |
| `exception_vector` | `docs/status.md:273`: exceptions always go to BASE; the comment at `sisRvCore.sv:776` says so of ECALL and EBREAK. `ex_pc_next` tests the interrupt first (line 767): with one pending and vectored mode the interrupt's vector is executed with the exception's cause. |

More are part of models that pass. No property of theirs asserts them; where a
property would meet one, it leaves the case out, as said here:

* `docs/INTERFACES.md:20` promises an access-fault trap for a bus error.
  `ex_mem_to_wb` (`sisRvCore.sv:742`) excludes AMOs, so an AMO whose load half
  is refused disappears from EX without trap or retirement. `back_end` has a bus
  that refuses no load half of an AMO, and `InOrder` is proved for such buses;
  `AccessedOnce` is proved for all.
* `docs/status.md:112`: MRET returns to mepc. EX reads the register
  (`sisRvCore.sv:778`) while the write in front of it is in WB, and the
  interlock covers rd only, so an MRET in the cycle behind `csrw mepc` returns to
  the old value (`PcNext` and `CsrNext` with `MepcWrite`). Twelve places in `sw/`
  have the two back to back. They get through as long as the CSR instruction
  does not wait in ID; when it does, behind a load for example, the MRET has
  been fetched meanwhile and follows in the next cycle.
* `docs/PROGRAMMERS_REFERENCE.md:19`: interrupts always deliver to M-mode. An
  MRET that meets one in EX sends fetch to the vector (line 767), WB executes the
  MRET and enters no trap (line 1114): the vector runs in the privilege of MPP.
  It takes a handler that sets MIE again before its MRET. `TrapPrecise` says
  nothing of where an MRET goes.
* `docs/status.md:187`: an interrupt is taken only when MIE is set. EX samples
  `irq_pending` (`sisCsr.sv:461`) while the write that clears MIE is in WB; the
  trap of the instruction behind it follows a cycle later (`TakesIrq`,
  `IrqTrap`).
* `docs/INTERFACES.md:25`: one response for each request. `sisRom.sv:48` accepts
  a store like any request and sets `pending` for reads only; in the corebus
  build a store to the ROM window is never answered and the core stops
  (`Unanswerable` in `Answered`). The same store through the AXI slave is
  answered and ignored.
* `docs/UVM_COVERAGE_BASELINE.md:45`: threshold and claim are reachable.
  `sisPlic.sv:42` compares bits 31:16 with the base, so 0x0C20_0000 and
  0x0C20_0004 never match; with sisPlic's own window nothing can be claimed.
  `plic_service` takes the window of the copy in `sisAxiLiteSlave`.

Further observations made while modelling, which no run isolates.

Core:

* The I port changes or withdraws requests the bus has not accepted (demand
  pre-empts prefetch, a flush drops both), against `docs/INTERFACES.md:24`. No
  bus of the platform depends on it; `FetchUnit` and `AxilPath` allow it.
* An instruction that an interrupt follows takes effect but does not raise
  `instr_retire`: minstret misses it, and a step over it goes on to the first
  instruction of the handler, as does a step over a trap.
* Nothing but a redirect discards the fetch buffer and the prefetch slot. The
  words in them outlive a write of pmpcfg or pmpaddr and, where code can be
  written (AXI build), a store to code followed by FENCE.I, which is a NOP
  (`docs/PROGRAMMERS_REFERENCE.md:13`), although the comment at
  `sisRvCore.sv:97` calls a buffered word always same-privilege and
  same-instruction-memory. `InstrMem` keeps code and PMP verdicts constant
  (`PmpAllow`), so what is proved about IF is about programs that change
  neither ahead of a redirect.
* A fetch-faulted straddling or an illegal memory instruction performs its
  access before it traps (`IllMem` in `BackEnd`; `AccessedOnce` covers it).
* PMP: TOR and NA4 drop pmpaddr bits 31:30; the all-ones pmpaddr excludes the
  last byte; pmpaddr 0x1FFF_FFFF and 0x3FFF_FFFF never match.

Debug:

* The write bit of COMMAND is bit 16 and the register number is taken from bits
  20:16 (`sisDm.sv:104-105`; the comment above says regno[15:0]): even
  registers can only be read, odd ones only written.
* `haltreq` and `resumereq` last until the response of their own request. If the
  response is taken late, or a DMI request follows back to back, resume is
  high for a second cycle, which clears `step_active`: the core runs on.
* A DATA0 or COMMAND write in the cycle in which a command completes takes the
  place of its result (`sisDm.sv:84`). A debug register write wins the write
  port over the write-back of an instruction in flight at the halt
  (`sisRegFile.sv:38`).
* `sisJtagDtm`: no state leads to ST_IR_SHIFT (lines 76-100), IR stays BYPASS
  and no DMI access is made; `docs/status.md:25` calls the path complete,
  `docs/UVM_COVERAGE_BASELINE.md:30` does not. `update_dr` is high for a whole
  tck period (line 121), which would repeat a request.

Memory and interrupts:

* In the corebus build the instruction port reaches the ROM only: a fetch from
  RAM is answered with an error (`IReady`, `IRsp` in `CorebusPath`). The AXI
  build executes from RAM.
* The fabric accepts a request in the cycle of the previous response without
  recording its target (`active_slave` is written only while nothing is
  pending). The core never does this (`DBusOwned` in `BackEnd`), and
  `CorebusPath` takes it as given.
* A PLIC claim with nothing to claim returns the id of the last one. ENABLE and
  PENDING read back shifted by one bit against what is written. Of equal
  priorities the highest id wins.

Scripts:

* A killed lock-step worker takes its chunk with it and `main()` waits for ever;
  `Returns` excludes it.
* The preamble of profile rv32imac-u-pmp is longer (17) than the least number of
  commits at the default `--insns`, so a core that stops on entering user mode
  can pass. Destination registers and data are not compared.
* The RISCOF plugins write into work directories that a second run may find
  filled: an old signature could stand in for a missing one. A filter that fails
  leaves an empty file behind for make.
* `elf2sisrv.py` checks no sizes, and the plugin's linker script offers 2048K of
  RAM where `sisPlatformTop.sv:461` has 256K; a larger image is cut or refused
  by `$readmemh`. `ArchTest` lets such a program compute no right signature
  (`Fits`). ROM bytes no segment covers are 0 up to the end of rom.hex and NOPs
  behind it; `ImageFaithful` says nothing of them.
* Two benchmark targets under `make -j` share rom.hex and summary.json.

## 5. Fairness

The clock is never assumed to do more than tick, an external program never more
than to end.

* `FetchUnit!FairSpec`: WF of a cycle in which the core runs, the bus answers
  what is outstanding and accepts a request when it is idle; accepting one in
  the cycle of an answer is not assumed, so progress holds on both buses. A
  debugger that halts for ever is excluded; ROM and AXI slave answer in bounded
  time.
* `BackEnd!FairSpec`: WF of a cycle in which the bus answers or accepts, IF
  delivers (`FetchProgress`) and no interlock holds ID. Debug requests other
  than the level of `step` are not assumed: `AccessCompletes` holds in a core
  halted half way. The bus is assumed to answer only when EX listens, which is
  what makes `step_hangs` possible.
* `DebugModule!DmFairSpec`: the same for the core; nothing is assumed of the
  debugger, whose registers are clocked with the core.
* `AxilPath!FairSpec`: WF of a cycle that moves the transaction; stalls end
  (they are random in the slave) and a waiting port listens
  (`i_rsp_ready`/`d_rsp_ready` follow the FSM states).
* `CorebusPath!FairSpec`: the clock ticks, and a data port that waits listens
  in the end. The instruction port listens as long as it waits
  (`i_rsp_ready` is high in `IF_WAIT`, `IF_SECOND_WAIT` and during a prefetch).
* `PlicService!FairSpec`: WF of the handler's steps, and SF of taking the
  interrupt: `meip` may be withdrawn by reconfiguration infinitely often, but
  a hart outside the handler with interrupts on samples it every instruction.
* `Lockstep!FairSpec`: WF of `main()` and of each worker's stages: the operating
  system runs every process, Spike is stopped after a second, the simulator at
  1500 cycles. Killing a worker is never assumed.
* `ArchTest!FairSpec`, `Benchmarks!FairSpec`: WF of the next stage: compilers
  end, the simulator has a cycle limit, the tests halt on Spike. Starting
  another benchmark invocation is not assumed.

## 6. Proofs

Eight modules hold theorems: `FetchProofs`, `BackEndProofs` (with the debug
module and the PMP, whose modules it extends), `AxilProofs`, `CorebusProofs`,
`PlicProofs`, `LockstepProofs`, `ArchTestProofs` and `BenchmarksProofs`. Every
safety property and every refinement that a passing run checks is the
conclusion of a theorem, five of them (`InOrder`, `DBusOwned`, `ReservedByLr`,
`ClaimIsReal`, `RequestsKept`) under a hypothesis that is named below. They
prove, for every value of the constants:

* `FetchUnit`: `IInv` is inductive (`Inductive`), hence `TypeCorrect`,
  `OneTransaction`, `NoStaleWord`, `NoStrayDiscard`; and `Refinement`, the
  stage implements `FetchStream`. Assumptions: `InstrMemAssumption` (a
  successor function on any set of words, any faulting and any U-executable
  words) and `FetchUnitAssumption` (reset vector, any set of programs).
* `BackEnd`: `IInv` is inductive, hence `TypeCorrect`, `PreciseTraps`,
  `Privilege`, `PrivilegeFlush`, `TrapsDropReservation` and `OneAccess`, for
  any set of instructions, any bus and any debugger. `Path` (`InOrder`) assumes
  in addition `AmoLoadsAnswered`: after an AMO that left EX without a redirect
  the pipeline is off the path. `DataBus` (`DBusOwned`) and `Reservation`
  (`ReservedByLr`) assume `StepsCompute`: either nobody steps, or no instruction
  accesses memory; a step that ends while an access is out breaks both
  (`step_hangs`). The run `back_end` satisfies the assumptions of the theorems
  about its properties. Assumption on the
  constants: `BackEndAssumption`.
* `DebugModule`: `DebugInv` is inductive (`StepInductive`), hence
  `OneInstruction` (`StepsOne`), for any program, bus and sequence of DMI
  requests of the host discipline; `DmTypeCorrect`. Assumptions:
  `BackEndAssumption`, `DebugAssumption`.
* `Pmp`: `LockedRegionKept` (`LockedKept`): what a locked entry says of every
  address never changes, for any width and any number of entries.
* `AxilPath`: `IInv` is inductive, hence `TypeCorrect` and `Agreement`;
  `Refinement`, the path implements `PortMemory`; `Stability`. Assumption:
  `CoreBusAssumption` (ROM and undecoded addresses are any sets of addresses).
* `CorebusPath`: `IInv` (`TypeOK`, `Agreed`, `OneAnswerOwed`) is inductive;
  `DataRefinement` and `InstrRefinement`, each port sees a `PortMemory`.
  Assumption: `CorebusAssumption` (any address map, any requests).
* `Plic` and `PlicService`, for any number of sources, priorities and lines:
  the priority loop finds the source it should (`WinnerCorrect`); `TypesHold`;
  `HighestIsServed`, `MeipIsStable`, for any address decode. If
  the decode lets the claim register through, `IInv` is inductive
  (`HandlerAgrees`), hence `ClaimsAreReal` and `RequestsAreKept`. The
  copy in `sisAxiLiteSlave`   satisfies that hypothesis; behind sisPlic's own decode nothing can be claimed
  (section 4), and the other theorems are what remains. Assumptions:
  `PlicAssumption`, `ServiceAssumption`.
* `Lockstep`: `IInv` is inductive, hence `Soundness` (`PassSound`) and
  `WrittenOnce` (`RunOnce`); with further invariants `EverySeedCounted`
  (`CountsSeeds`), `MismatchIsReal` (`NoFalseMismatch`) and `TypesHold`; for any
  number of seeds, workers, chunk size, deaths and any cuts and defects.
  Assumption: `LockstepAssumption`.
* `HexImage` and `ArchTest`: `HexIsImage`, memories of any size loaded with the
  hex files of any list of segments hold each byte an ELF loader places, and 0
  in the rest of the RAM; `RunInvariant` (`IInv` is
  inductive), hence `ImagesFaithful`, `PassesRan`, `ReportsComplete`;
  `TypesHold`, `CompilersFound`, `SmokePicksOne`, `FilterCounts`; for any suite,
  any files and every host of `Init`. Assumptions: `HexAssumption` and
  `ArchAssumption`, which says that a file is a list of segments at natural
  addresses.
* `Benchmarks`: `RunnerInvariant` (`IInv` is inductive), hence `TypesHold`,
  `SummariesComplete`, `RowsAreMeasured` and `CalibrationIsEnough`, for any ISAs,
  costs, limits and number of invocations. Assumption: `BenchAssumption`; its
  last conjunct, that CoreMark's least number of cycles is that of at most ten
  seconds, is how `run_benchmarks.py:229-230` chooses both numbers.

*Argument, fetch.* `SingleOutstanding`, `BuffersFresh` and `DiscardsAreOwed`
are not inductive: that an undiscarded response is the right word needs
`FetchingTheHead` (the FSM works for `fetch_pc` and holds its upper half), that
its fault bit is right needs `StalePrivDiscarded` (in the one cycle in which
`priv_o` lags, everything in flight is marked), and that no response overwrites
an instruction needs `RegisterFree`. Each step is reduced to one cycle with
some inputs (`StepIsCycle`), and each conjunct has a lemma; `ResponseFresh` and
`ServedFresh` say what a response or buffer brings and carry the refinement.

*Argument, back end.* `TrapPrecise` holds of WB because of what EX latched a
cycle before (`Retiring`): an instruction that will trap has redirected fetch
when it left EX (`TrapRedirects`), so nothing follows it and `fetch_pc` is the
address EX chose. `PrivOfPath` and `PrivChangesBehindFlush` need that too, and
of MRET (`AloneInWb`). `AccessedOnce` needs
`AccessesMade`, the accesses made in each state of the EX FSM, with the fact
that a store-conditional on the bus still holds its reservation. `InOrder` is
inductive with `NextIsDue`, which makes a debug stop resume at the right place.
`DBusOwned` follows because the only flush that can empty EX without a
response, the end of a step, finds no memory instruction there
(`StopsIdleBus`).

*Argument, debug module.* `StepsOne` is not inductive. `StepInv` adds the two
halves of a step: before the instruction retires the core runs with
`step_active` set, afterwards it is halted with EX and WB empty, so nothing can
retire. That no second request disturbs either half needs `RequestFresh`:
haltreq and resumereq are up only in the cycle in which their own DMI write is
answered.

*Argument, PMP.* A write changes an unlocked byte or an address that is not
blocked; a locked entry depends on its own byte, its own address and, as a TOR
region, the address below, and all three are blocked for it.

*Argument, AXI.* `Phase` relates the three FSMs, `Carried` the request
registers; together they determine from the bridge's state which abstract step
a cycle is: acceptance is `Ask`, the cycle in which the slave reads or executes
the write is `Perform`, the handover to the port is `Tell`, all others stutter.

*Argument, corebus.* `Agreed` says which device is busy with the access in
flight and that `Routed` points at it, so that an accepted request is `Serve`
(the device performs it in the same cycle) or, for a store to the ROM, `Ask`
and nothing after it; the response is `Tell`. On the instruction side an
accepted request is `Serve` also in the cycle of the last answer, which
`OneAnswerOwed` shows to be the answer of that very request.

*Argument, PLIC.* `BestIsBest` goes down the loop from the last source: the best
of those seen so far asks, and none of them outranks it. `ClaimIsReal` is not
inductive: that the id the hart keeps is real needs `Holds` (between the claim
and the completion it is `claimed_id`, and its gateway stays pending), that
there is something to claim on entry needs `Candidates` to survive until the
read, and `Asked` says that only the source just served may be pending without
being wanted. `InService` ties `claim_active` to the handler's place.
`RequestsKept` rests on the same: the completion alone clears a gateway
(`ClearedByFinish`), that of the id in the hart's hands, and a level source that
was raised since its service is still up (`LevelsUp`).

*Argument, lock-step.* A chunk is in the queue, with one worker, among the
results or collected, and never in two of these places (`IInv`), so no seed is
run twice and no log is overwritten. A verdict that a worker, a result or
`main()` holds is the comparison of the logs on disk, which `RunOnce` keeps; so
when all chunks are collected and none reported an error, all seeds agree.
`Counting` says that `completed` is the number of seeds in collected chunks that
`main()` no longer has before it; a seed is in one chunk, so each adds one.
`SpikeOK` says that what is left of Spike's log without its boot code is what a
correct hart retires first, up to the cut, so a position in which the core's log
differs is one in which the core deviates from the program; `ReportedOK` keeps
the reported verdict that of the logs on disk.

*Argument, architecture tests.* `write_hex` pads an image to whole words from
its base, so an address below its end reads as the byte of the image or 0; past
the end the memory keeps its fill, which is 0 in the RAM, and no segment has a
byte there; `load_segments` lets the later of two segments win, as the
loader does. In `IInv`, `ImageOK` ties the images to the file they were made
from, `SigOK` lets only a test that halted have a signature and keeps those
still to be run without one, and `VerdictOK` gives a verdict to exactly the
tests compared. `FilterCounts` needs that each excluded test is counted at one
part only, the first that hits, so that the counters partition the excluded
tests.

*Argument, benchmarks.* `OnTrack` says which prefix of the work list is done:
the rows are of what it asked for, and `todo` is the rest, so the summary is
complete when nothing is left. `Loaded` follows the image from the compiler to
the log it leaves, whatever earlier invocations left at the same path.
`Calibrated` is the margin: iterations times the pilot's cycles for one is at
least 102 % of the minimum. If the run is nevertheless too short, one of its
iterations costs less than 100/102 of the pilot's.

*Induction over data.* The library's induction theorems take an operator as a
parameter, which the provers cannot instantiate. `PlicProofs`, `LockstepProofs`,
`ArchTestProofs` and `BenchmarksProofs` use instead the well-foundedness of the
natural numbers (`NatLessThanWellFounded`, `WFMin`), which is about sets: a set
of numbers with 0 and every successor holds them all (`Induction`). For this
the loops of the model are recursive functions and folds, never RECURSIVE
operators; what one step of such a function computes is a lemma, and the set in
the induction is that of the indices for which the statement holds.

Only model-checked: liveness (`FetchProgress`, `AccessCompletes`, `StepEnds`,
`Answered` of both memory paths, `Served`, `Returns`, `RunEnds`, `Ends`), which
needs fairness and ENABLED; and the properties of the three runs that expect a
violation.
Of the `TypeOK` of `PlicService` one conjunct is not proved, that `rdata_reg` is
a number: the bit registers read back sums of powers of two, and the provers
have no facts about exponents.

## 7. Not modelled, and what could follow

* **JTAG transport** (`sisJtagDtm`): no DMI access can be made through it, so a
  model would do nothing; `DebugModule` puts a debugger on the DMI port.
* **Register file and bypass**: values through EX, WB and `sisRegFile` against
  a sequential register file would remove `c.hazard` from `BackEnd`.
* **CSR file**: counters with carries, HPM, triggers, WARL fields. **CLINT**
  (a timer in two halves), **UART**, **GPIO**, **tohost**: registers behind
  `CorebusPath` and the AXI slave; only their bus handshake is modelled.
* **The composition of `FetchUnit` and `BackEnd`**, which would turn the mutual
  assumptions of section 3 into one invariant; its state space is out of
  reach of the instances used here.
* **Two benchmark or RISCOF runs at the same time**, or over the same work
  directory.

Left out for good: decode, decompress, ALU and M unit (combinational functions
that `formal/` and cocotb test exhaustively or by random vectors), the
hardening wrapper, benches, UVM, software, and the scripts that only format
reports (`summarize_verilator_cov.py`) or drive synthesis.
