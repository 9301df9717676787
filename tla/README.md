# TLA+ models of the CVE2 core with the in-memory vector unit, and of its build tools

The repository is the CV32E20 core (RV32, two pipeline stages, `src/rtl/vcve2_*.sv`) with a
vector extension of its own: the vector registers are not in the core but in **data memory**,
and a sequencer, the VRF interface, fetches the operands of every vector instruction word by
word over the same data bus that the load/store unit uses. What is hard in this code is
mostly *protocol*: two request/grant/answer interfaces (OBI), an instruction queue that must
forget some of what it asked for, a data bus shared by two masters whose answers carry no tag,
misaligned accesses with two parts of which either may fail, buffers that must hold an operand
for exactly as long as a grant is late, and a controller that must find the one cycle in which
a trap, an interrupt or a debug request can be taken between two instructions.

Around the core, Python tools keep the repository in order, and a wrong one goes unnoticed for
long: `util/vendor.py` keeps copies of other repositories at the revision a lock file names, with local
patches; `util/cve2_config.py` and `util/check_tool_requirements.py` decide what the CI job checks and
with which tools; `util/sv2v_in_place.py` rewrites the sources that formal tools read. What is hard
there is *failure half way*: a run is interrupted between any two steps, a program it calls fails, upstream or
the user changes something, two builds run at once, and the next run must start from what is left.

How to run (inside this directory): `tlc -workers 2 -config MCVectorUnit.cfg MCVectorUnit.tla`
checks a model, `tlapm PipelineProofs.tla` the proofs.

## 1. The system

| component | source (`src/rtl/`) | state | operations | interacts with |
|---|---|---|---|---|
| prefetch buffer | `vcve2_prefetch_buffer.sv` | held request, its address, fetch address, queue of outstanding requests with discard bits | request, grant, answer, branch | instruction bus, fetch FIFO, IF stage |
| fetch FIFO | `vcve2_fetch_fifo.sv` | words with error bits, valid bits, PC | push, pop, clear; aligns 16/32-bit instructions | prefetch buffer, IF stage |
| IF stage | `vcve2_if_stage.sv` | IF-ID register, valid bit | PC selection, load/clear the register | prefetch buffer, compressed decoder, controller |
| ID stage | `vcve2_id_stage.sv` | FIRST_CYCLE / MULTI_CYCLE, branch flops, intermediate values | issue, stall, complete | decoder, controller, LSU, VRF, multiplier, write-back |
| decoder | `vcve2_decoder.sv` | none | control signals | ID stage, VRF, vector configuration |
| controller | `vcve2_controller.sv` | FSM of 10 states, debug/NMI mode, latched exceptions | exceptions, interrupts, debug, sleep, flush | IF, ID, LSU, CSRs, clock gate |
| load/store unit | `vcve2_load_store_unit.sv` | FSM of 5 states, last address, upper part of the first word, latched errors | aligned and misaligned loads and stores | data bus, PMP, ID, ALU (address) |
| VRF interface, AGU | `vcve2_vrf_interface.sv`, `vcve2_agu.sv` | FSM of 15 states, operand registers, delayed copy, slide buffer, iteration counters, one word counter per register group | arithmetic, moves, slides, loads and stores of vectors | data bus (through the switch), LSU, ALU, decoder |
| LSU vector interface | `vcve2_lsu_interface.sv` | address of strided accesses | multiplexes ID's and the VRF's requests to the LSU | ID, VRF, LSU |
| data memory switch | `vcve2_dmem_switch.sv` | whose access is outstanding | multiplexes the LSU and the VRF on the bus, routes answers | LSU, VRF, bus |
| write-back | `vcve2_wb.sv`, `vcve2_register_file_ff.sv` | scalar registers | one-hot selection of the result | ID, LSU, ALU, vector configuration |
| vector configuration | `vcve2_core.sv` 1057-1296 | vl, vtype | vset{i}vl{i}, effective widths | decoder, VRF, write-back |
| CSRs | `vcve2_cs_registers.sv`, `vcve2_csr.sv`, `vcve2_counter.sv` | trap stack, debug CSRs, counters, PMP configuration | read, write, save, restore | controller, PMP |
| PMP | `vcve2_pmp.sv` | none | matches regions | IF, LSU, VRF |
| multiplier/divider | `vcve2_multdiv_fast.sv`, `_slow.sv` | two FSMs, counter, numerator, quotient | multi-cycle arithmetic, lane-wise products | ID stage, ALU |
| ALU | `vcve2_alu.sv`, `vcve2_fracturable_adder.sv` | none | scalar and lane-wise operations | everything |
| top, sleep | `vcve2_top.sv` | registered busy bit | gates the clock | controller, prefetch buffer |
| platform | `src/shared/rtl` | bus arbitration, timer | example system | core |
| vendor tool | `src/util/vendor.py` | lock file, target directories, patches, git index and HEAD; a run's step | load, check, refresh patches, clone, import, write the lock, commit | upstream repositories, git, the user |
| configuration tool | `src/util/cve2_config.py`, `src/cve2_configs.yaml` | none | reads a file, writes options | CI job, FuseSoC |
| tool requirements check | `src/util/check_tool_requirements.py`, `src/tool_requirements.py` | none | compares versions | FuseSoC (pre-build hook), the installed tools |
| sv2v hook | `src/util/sv2v_in_place.py` | the files of a build root, a temporary directory | convert, copy back, empty headers | FuseSoC, sv2v, `make -j` |
| CI job | `src/ci/cve2-rtl-ci-steps.yml` | `CVE2_CONFIG_OPTS`, the last simulator built | configure, lint, compliance, CoreMark, for each configuration | configuration tool, FuseSoC, requirements check |

Everything else (tracer, package, formal and simulation set-ups, synthesis scripts, vendored
IP) keeps no state of the core or of these tools; see `PROJECT.json`, "components".

### What makes each part correct

* **Instruction fetch.** Nothing that was fetched is lost, duplicated or delivered with another
  address; nothing fetched before a branch is delivered after it; a request on the bus is
  neither changed nor withdrawn before its grant; fetching never starves, and stops when told.
* **Scalar memory.** A load or store of any size and alignment moves exactly its bytes, whatever
  the delays; it traps exactly when one of its parts fails, and then reports that part's
  address; one access gives one response; an access always ends.
* **Vector unit.** A vector instruction writes exactly the elements `vl` covers, with the right
  values, and no byte more; the answers on the shared bus reach the unit that asked; it leaves
  nothing outstanding to the next instruction; it always ends.
* **Controller and ID.** The pipeline behaves like a machine that executes one instruction after
  the other: each takes effect exactly once, or traps and does not; interrupts and debug
  requests come between two instructions; what is saved allows a return, at any nesting of NMI,
  trap and debug mode; nothing is taken while an access is under way; requests are honoured in
  the end, and sleep ends.
* **Vector configuration.** vl and vtype are what the executed vset instructions say, and vl
  elements always fit into their register group, also at the element width of a load or store.
* **Multiplier and divider.** Each instruction is given its result after the stated number of
  cycles, whatever the one before left in the registers they share.
* **Vendor tool.** A run that succeeds leaves exactly the copy its lock file names, with its patches, whatever
  earlier runs left; the lock file is never ahead of the copy; a commit holds the copy, its lock file and
  nothing of the user's; nobody has to clean up after a failure.
* **Configurations, tools and CI.** A job that passes has checked every configuration as the file has it, with
  tools that are recent enough; no error in a file, a name or a table goes unnoticed.
* **sv2v hook.** The formal tool reads a conversion of the sources only, never of what another conversion,
  another target or an earlier build has left; a failure leaves the sources.

### What is hard to test here

The full list, each item at its line, is in `PROJECT.json` under "hazards". Its themes:

1. Grants and answers arrive in any cycle, and each unit has moments at which a late one is
   fatal (operand registers overwritten, an address port that has moved on).
2. Branches, exceptions, interrupts and debug requests hit while requests wait for a grant or an
   answer, or while an instruction is in its second cycle, or in the very cycle of going to sleep.
3. The two parts of a misaligned access fail separately and overlap in time.
4. The VRF and the LSU share a bus whose answers have no tag.
5. Cutting `vl` and slide offsets into words and bytes has borrows that only some values show.
6. Signals derived from instruction bits alone outlive the instruction, since the IF-ID register
   keeps its bits when the instruction has left or was squashed.
7. Fields of three bits, partial sums with two bits above the word, versions put together from digits:
   arithmetic whose limits matter.
8. A tool is interrupted, or a program it calls fails, between two of its steps; files are rewritten in place;
   a branch of an upstream repository moves; a variable of a CI job outlives the step that should have set it.

## 2. How the models are written

The code is synchronous, so **one step of a model is one clock cycle**. In each module:

* the VARIABLES are the code's registers (`*_q`), one more variable `in` for the values that the
  module's inputs have in the current cycle, and where needed the environment's own state (the
  queue of accesses the memory still has to answer);
* a combinational signal is a state function with the source's name (`valid_new_req`,
  `data_addr_o`, ...), defined over registers and inputs as in the code;
* `Clock` loads every register with its next value (`ls_fsm_ns`, `rdata_outstanding_n`, ...) and
  draws the inputs of the next cycle. The rules for inputs (`BusRules`, `InputRules`) state what
  the surrounding parts may do. An input nothing looks at in a cycle is low in it, which
  keeps states that differ in nothing visible together.

A component module has its ports as VARIABLES; a composing module instantiates it with
expressions of its own for the inputs (`LoadStoreUnit` in `ScalarMemory` and `VectorUnit`,
`TrapCsrs` in `Pipeline`), as the SystemVerilog instantiation does.

Words are reduced to what the properties tell apart: an instruction word is its address, its
error flag and the kinds of its halves; a decoded instruction is a record of the decoder's
signals that matter; a data word is 4 bytes drawn from a small set, and a memory is a function
from word numbers to such words. Byte-lane multiplexers, rotations and byte enables are modelled
byte by byte, since moving bytes is what these units do. Addresses are counted in halfwords
(fetch) or bytes (data), in a small memory that wraps around, as the 32-bit address space does.

The tools are modelled by **one action per step of the program** that another program, the user or an
interrupt can see: a directory that begins to be removed or copied, a file that is opened for writing and one
that is written, a patch that is applied. `Abort` (or `Interrupt`) ends a run between any two of them. The contents of a file or
directory are one value that says where it comes from (revision, place, patches; source or
conversion, and what was read for it), or that it is half written.

The definitions next to a comment that begins with `mutant:` are not part of the
model: each is a variant of the following definition with a plausible bug, used to see that a
property notices it (PROJECT.json, "mutants").

## 3. The modules

| module | models | notes |
|---|---|---|
| `FetchFifo` | `vcve2_fetch_fifo.sv`: all registers and signals | ports as variables; `DEPTH = NUM_REQS + 1` |
| `PrefetchBuffer` | `vcve2_prefetch_buffer.sv` with a `FetchFifo`; instruction memory and IF stage as inputs | one action, `Clock` |
| `FetchStream` | abstract specification: what the IF stage is promised | actions `Consume`, `Jump`, `Wait` |
| `PrefetchBufferProofs` | theorems about `PrefetchBuffer` | section 6 |
| `LoadStoreUnit` | `vcve2_load_store_unit.sv`: FSM, address, byte lanes, errors | ports as variables |
| `ScalarMemory` | LSU + the ID FSM + IF-ID register + the controller's DECODE/FLUSH for memory exceptions + a bus with errors + the PMP's verdict | `Clock` |
| `ScalarMemoryProofs` | theorems about `ScalarMemory` and its `LoadStoreUnit` | section 6 |
| `VrfInterface` | `vcve2_vrf_interface.sv` and `vcve2_agu.sv`: 15 states, operand registers, byte enables, slide buffer, counters | ports as variables |
| `VectorUnit` | VRF + LSU + `vcve2_lsu_interface.sv` + `vcve2_dmem_switch.sv` + the ID FSM + the vector decoder + a bus and data memory | `Clock` |
| `TrapCsrs` | the CSRs that traps, returns and debug mode save and restore | ports as variables |
| `Pipeline` | controller, ID FSM and stalls, IF-ID register and PC multiplexers, `TrapCsrs`, clock gate | `Clock`, `CoreClock` when the clock is on |
| `Hart` | abstract specification: the sequential machine | `Fetch`, `Complete`, `Csr`, `Exception`, `DebugException`, `Mret`, `Dret`, `Interrupt`, `Halt`, `Ebreak` |
| `PipelineProofs` | theorems about `Pipeline` | section 6 |
| `VectorConfig` | vset{i}vl{i}: vl, vtype, vill, the write of rd, the LMUL of loads and stores, over the IF-ID register | `Clock` |
| `VectorUnitProofs` | theorems about `VectorUnit` | section 6 |
| `VectorConfigProofs` | theorems about `VectorConfig` | section 6 |
| `MultDiv` | `vcve2_multdiv_fast.sv`: both multipliers, lane-wise products, the divider, the intermediate value registers | `Clock`; the word width is a parameter |
| `MultDivProofs` | a theorem about `MultDiv` | section 6 |
| `Vendor` | `util/vendor.py`: a run step by step, git, the user and upstream around it | `Begin`, 16 steps, `Abort`, `User` |
| `VendorProofs` | theorems about `Vendor` | section 6 |
| `Cve2Config` | `util/cve2_config.py`: reading and checking a file, the options for FuseSoC | operators |
| `ToolRequirements` | `util/check_tool_requirements.py`: the requirements, the versions, the comparison | operators |
| `Ci` | the CI job of `ci/cve2-rtl-ci-steps.yml`, which uses both | `Configure`, `Check`, `CoreMark` |
| `Sv2vInPlace` | `util/sv2v_in_place.py` as FuseSoC and `make -j` run it | 9 actions of each target |
| `Build` | the CI job, or the formal targets | composition of `Ci` and `Sv2vInPlace` |
| `BuildProofs` | theorems about `Build` | section 6 |
| `MC*` | instances for TLC: small sets, programs, wire behaviour | |

### PrefetchBuffer and FetchStream

`PrefetchBuffer` implements `FetchStream`: the refinement mapping (`Stream` in
`PrefetchBuffer`) takes the address of the next instruction to be the FIFO's PC, and maps a cycle
in which IF takes an instruction to `Consume`, one with a branch to `Jump`, any other to `Wait`
(a stutter). The abstract specification says that what is delivered is the content of memory *at
that address*, with the error of exactly the half that failed, which is what the discarding of
stale answers, the aligner and the error flags together must achieve.

### ScalarMemory

The `in` record carries grant, answer and error bit. The next instruction is drawn when the
IF-ID register is loaded. Its access is described by type, size, sign extension, address and the
words the PMP refuses to it; the address port is the ALU's output, which the
ID stage turns into the next word's address when the LSU asks (`addr_incr_req_o`): the LSU's
hand-over with the ALU is in the model. Ghost state: the memory's queue of granted accesses, and
what the current instruction has done so far, against which the properties compare.

### VectorUnit

The program (a short sequence of vector and scalar instructions, `Programs`) is executed on a
data memory that holds the vector registers in its first words and plain data behind them.
`Result`, `StoredAt` and `Expected` give, byte by byte, the memory an instruction must leave; they
refer to the instruction's meaning only (elements, `vl`, offset), never to the FSM. When an
instruction has left ID and nothing is outstanding, memory must equal `Expected`
(`ResultCorrect`); bytes behind `vl` keep their values. Wires are parameters: `LateGrant`,
`LateAnswer` say which of the two units meet late grants or answers in which kind of instruction,
`Bubbles` whether the IF stage may leave ID empty between instructions.

### Pipeline and Hart

`Pipeline` has the registers of the controller, of the ID stage's FSM and branch flops, the IF-ID
register with the PCs of ID and IF, the CSRs of `TrapCsrs`, and `core_busy_q` of the clock gate.
The instruction is a decoded record (`Instrs`): its kind, fetch error, illegality, whether its
access fails, whether its branch is taken, and for CSR instructions register, operation and
operand. Any of `Instrs` may come from any address. The other units appear by their completion
signal (`in.done`), which may come in any cycle in which something is awaited: that it comes is
what the models of these units show (`AccessEnds`, `VectorEnds`, `Latency`), so the assumptions of
this model are the guarantees of the others.

`Hart` is what software is promised: `ir` is the instruction under way or none, `pc` its address or
that of the next one. The mapping (`Sequential` in `Pipeline`): an instruction is under way
(`Pending`) while `instr_valid_id_q` holds, except that a CSR instruction that flushes the pipeline
has already had its effect in FLUSH, and that an EBREAK that enters debug mode stays under way
through DBG_TAKEN_ID; `stepped` is the controller's `do_single_step_q` between two instructions.
All stalls, the two cycles of a branch, sleeping and waking are stutters.

### VectorConfig

The instruction in the IF-ID register stays there, valid or not, for any number of cycles, and the
configuration is computed in every one of them, from what the registers hold then. So a word says which registers
it reads and writes, for each of the forms vsetvli, vsetivli and vsetvl; operand b, an immediate or the register rs2,
is taken apart into `vsew_d` and `vlmul_d` in every cycle; and any of rd, rs1 and rs2 may be the same register, to see what a second
computation from a new AVL or a new type does. It changes nothing, unless rd is rs2 (`OverwritesType`, section 5).
`ConfigFollowsProgram` compares every step with the vector standard's rules for VLMAX and vl
(written with cross-multiplied integers instead of shifts) if a valid vset is in ID, and demands
that nothing changes otherwise; of a vsetvl that overwrites its type, which the code does again and again, it demands that
each time is a vset by these rules, from the operands of that cycle. The type is bits 5:0 of operand b; bits 7:6 (vma, vta) are
read by nothing, and higher ones not by the code.

### MultDiv

`H` is the number of bits of half a word; lanes are halves and quarters. `RV32M` is a variable that
never changes, so that one run has both multipliers. `Result` is the mathematical result, on
integers. `Latency` is the number of cycles that the comments state, and says at the same time that
both FSMs were at rest when the instruction began.

### Vendor

`work` is the working tree: the lock file, the target directory by paths, the patch directories. `pc` is the
next step of a run, `held` the lock file it has read, `up` and `new_rev` the upstream it uses and the revision it has
cloned, `item` and `todo` how far the import has come. The order of the steps is `main`'s:

    load -> check -> [unlink -> export -> format] -> clone -> rmtree -> rmtree_end
         -> { copy -> copy_end -> apply }* -> [open_lock -> write_lock] -> finish -> [commit]

A run that fails anywhere leaves the tree as it is (`End("failed")`). Between runs the user may write another
description, edit, remove or check out files, put a branch into the lock file, stage and commit. Upstream's branches may point
to any revision each time they are cloned. What is left out, because no property tells it apart:
exclude patterns (the same in every copy), the short log (its failure is caught), the text of commit messages,
`-D` overrides. A revision, directory or patch that upstream does not have ends in `Abort`. The paths
of a mapping are disjoint (`DescsAssumption`), and copies of different contents differ in a file git tracks.

### Build: Cve2Config, ToolRequirements, Ci, Sv2vInPlace

A configuration is a function from parameters to values, a value its Python type and value; a file is the
sequence of its configurations, or one of the ways in which it cannot be read. `FusesocOpts` is
the set of options (those for simulators are left out: nothing in the repository asks for them); `Given` in `Ci` is what FuseSoC makes of them with the defaults of the core's parameters. A version is
the sequence of its numbers, VCS's service pack and patch, and what follows. The CI job's environment (file, table
of requirements, installed versions) is chosen once; each step may fail; `ran` remembers on which
parameters each step ran, against which `GreenMeansChecked` compares.

Which builds have the tools checked follows from the `.core` files (`depend`, `Hooked`). The cores of the CPU do not lead there:
`vcve2_core.core` and `vcve2_top.core` define a fileset `files_check_tool_requirements`, and none of their targets lists it. The way is
through the assertion macros: `cve2_top_tracing.core` (lines 9-11) depends on `vcve2_tracer`; `cve2_tracer.core` (line 10) on
`lowrisc:prim:assert`; `vendor/lowrisc_ip/ip/prim/prim_assert.core` (lines 21 and 42, with Verilator) on `lowrisc:lint:common`; the default target of
`vendor/lowrisc_ip/lint/common.core` lists the fileset (line 32) that depends on `lowrisc:tool:check_tool_requirements` (line 24), whose core has the
hook (`check_tool_requirements.core`, line 31). `cve2_riscv_compliance` gets it through `vcve2_top_tracing`, and through `sim_shared`,
which depends on `lowrisc:prim:assert` as well. With Verible the same cores are taken in, and the hook's condition is false. That FuseSoC calls the
hooks of all cores of a build is external. `cve2_simple_system_cosim`, which CoreMark runs on, has no core in the repository,
so that no hook is assumed for it.

`Sv2vInPlace` has the files of each build root (`disk`), and for each target the place of its hook, the temporary
directory and which files were copied back or emptied. A conversion remembers whether everything it
read was a source (`pure`). FuseSoC copies the sources anew for each build.

## 4. The runs

| run | instance | shows |
|---|---|---|
| `prefetch` | NUM_REQS = 2, 3 words that wrap around with every alignment of 16/32-bit instructions and a failing word, branches to an unaligned address | `NoOverflow`, `QueuesAgree`, `RequestStable`, refinement of `FetchStream`, and under fairness `FetchProgress` and `Quiesces` |
| `scalar_memory` | loads and stores of 1, 2, 4 bytes at all alignments, both signs, wrap-around of the address space, any part refused by the PMP or by the bus, arbitrary delays | `NoOrphanResponse`, `LoadCorrect`, `StoreCorrect`, `ErrorReported`, `FaultAddress`, `RequestStable`, and under fairness `AccessEnds` |
| `vector` | three-instruction programs over arithmetic (two and one source), multiply-accumulate, slides, unit-stride and strided loads and stores, scalar accesses; `vl` of 0-9 bytes | `ResultCorrect`, `AnswerRouted`, `CleanStart`, `RequestStable`, and under fairness `VectorEnds` |
| `vector_bubble` | one instruction, ID empty behind it | violates `NoMemResponseWithoutInstruction` (section 5) |
| `pipeline` | loads (failing or not), vector, branch, WFI, MRET, fetch errors, CSR writes, with interrupts and NMIs, at both levels, `mstatus.tw` set | `AtRest`, `NoAccessAsleep`, `NmiTransparent`, refinement of `Hart`, `NmiTaken` |
| `pipeline_debug` | stores that fail, multiplications, jumps, branches, WFI, EBREAK (also illegal), DRET, writes of dcsr, with debug requests, interrupts and a breakpoint, `mstatus.tw` clear | refinement of `Hart`, `DebugRequestTaken`, `WakesUp` |
| `vector_config` | VLEN = 32, all types of SEW 8-32 and a reserved one with all LMULs, AVL around VLMAX and its double, AVL and types from two registers, rd being rs1 or rs2 or neither, in straight-line programs | `GroupHoldsVl`, `ConfigFollowsProgram` |
| `vset_wrong_path` | the same code with a branch | violates `ConfigFollowsProgram` (section 5) |
| `multdiv` | 8-bit words, operands at the limits of word, halves and lanes, any two instructions in a row, both multipliers | `ResultCorrect`, `Latency` |
| `multdiv_mulh` | MULH on the single-cycle multiplier | violates `ResultCorrect` (section 5) |
| `vendor` | two upstream repositories with two revisions each, a description with a patch repository, one with a mapping of two items, one that is refused; 4 troubles (edits, options, failures) | `SuccessMeansPinned`, `LockComesLast`, `CommitsItsOwn`, and under fairness `Recovers` |
| `build` | the CI job: two configurations, files with one error each, tables with errors, versions around every minimum; or two formal targets, each built twice, with a package, a file of its own define, a header and another file | `GreenMeansChecked`, `CoreMarkOrIssue`, `CheckExact`; `ToolReadsConversion`, `FailureLeavesSources` |

**Bounds.** Two requests is the code's own `NUM_REQS`; the FIFO then has its
own three entries. The fetch models have no counter to cut: memory is a ring, and programs run on
for ever. The scalar run does not bound the number of accesses either. Vector
instructions are bounded by `vl` (at most 9 bytes, i.e. 3 words: first, middle and last
iteration all occur, with and without a partial last word, and registers are crossed), a program
by three instructions (each vector instruction behind a load, a store, an arithmetic instruction
and a scalar store, and before one that uses the LSU and one that does not, so that what one
leaves behind is what the next one finds, and a scalar load of what was written). The pipeline runs bound nothing but the sets: two addresses in a ring, which
are enough to tell return address, target, handler and next address apart, and any
instruction from any address, so that every sequence of the listed instructions occurs, handlers
included. Instructions that the control cannot tell apart are represented by one (a load stands for
loads and stores where nothing differs, `op` for single-cycle instructions); the two runs
share the refinement and split its cases. `VLEN` = 32 makes every VLMAX from 1 to 32 occur and
fractional groups lose bits; `Avls` are the limits, their neighbours and odd values. The
multiplier's width is a parameter of the same algorithm: 8 bits have all positions (sign, carry,
half, quarter) of 32, and a division has the same states with 8 instead of 32 steps. Of two
instructions in a row one has operands in `Corners`.
`Vendor` bounds the *troubles*: what the user edits, runs with options, and failures; runs without options are
not bounded. Four are enough for an update that is interrupted, an edit, a second failure and a commit in one
behaviour; the safety properties are proved for any number. `Build` bounds the builds of a target (`MaxBuilds`): two, to see what
the first leaves to the second; that too is any number in the proofs. The CI instance is a product of files,
tables and installed versions, in which every error a reader or a comparison can make occurs alone.

**What the `vector` run assumes**, because the code fails without it (section 5). The VRF may meet
late grants for arithmetic, slides and the operands of stores, and the LSU late grants for loads
and scalar accesses, and late answers; but the VRF's answers come in the cycle after
the grant, grants for the LSU's part of stores and for the VRF's part of loads are immediate,
stores are aligned, ID is not empty between instructions, and moves from a scalar and
slide-downs of whole words by an offset that is not are left out. Slide offsets are below `vl`: an
offset at or above it makes the iteration count zero or negative, and the FSM then runs for up to 2^30
iterations, beyond what can be explored. The pipeline runs have no illegal or failing vector
instruction; the `vector_config` run has no branch, and no "keep vl" that the standard reserves
(`Reserved`).

**Fairness.** The clock never stops for ever: `WF_clocked(Clock)`, where `clocked` is all
registers without `in`. Leaving the inputs out matters: fairness then never
forces the environment to change its mind, and an input that stays as it is may do so for ever.
About the environment the liveness runs assume only, as `[]<>(waiting => event)`, that
a request is granted some time and a granted access answered some time, which OBI
requires of a slave, and at the joints between the models what the other model shows: the
prefetch buffer delivers while the IF stage is ready (`FetchProgress`), becomes idle when it is
disabled (`Quiesces`), and every unit completes what it started (`AccessEnds`, `VectorEnds`).
`DebugRequestTaken` and `NmiTaken` are about a line that is raised from some time on until it is
taken; neither assumes that the program stops or that the other lines are quiet.
`VectorEnds` is checked with the delays of the `vector` run, which are those under which the unit works.
`Vendor` assumes that a run goes on unless it is aborted (`WF_vars(Step)`), and that somebody now and
then starts one without options (`WF_vars(Begin(NoArgs))`); that troubles end, without which
nothing could recover, is their bound. The `build` run has no liveness and ends in deadlock when the job or
the last build is over (`CHECK_DEADLOCK FALSE`).

## 5. What the checks found

Three disagreements between the code and its own comments and assertions are runs of their own,
each with a counterexample of a few cycles:

1. `vector_bubble`: a vector instruction restarts after its completion whenever ID is empty for a cycle,
   and accesses memory on behalf of no instruction, because `vrf_req_o` depends on instruction bits
   alone.
2. `vset_wrong_path`: so does `vcfg_write_o`: a vset behind a taken branch, fetched but squashed, changes
   vl, vtype and its register rd.
3. `multdiv_mulh`: the single-cycle multiplier, the one the core builds by default, drops carry and sign of the lower
   partial sum, so that MULH, MULHSU and MULHU are wrong for operands whose partial sum needs them. The
   32-bit assignments at lines 181-296 are part of what was added for vectors; the fast multiplier is not concerned.

Further observations. Each can be reproduced by the parameter named; the passing instances leave
these cases out.

*Vector unit* (`VectorUnit`):

* `vmv.v.x` and `vmv.v.i` write one word more than `vl` covers: START writes the first word, WRITE then
  one per iteration (programs with kind `mv_x`).
* A slide down writes one word too many if `vl` is a whole number of words and the offset is not:
  the borrow between byte and word parts is missing (`Handled`).
* When the write-back part of a vector load waits for its grant for two cycles, the following word is
  written: the delayed copy is selected for one cycle only (`LateGrant` with `<<"load", "VRF">>`). Likewise a vector
  store whose grant is late sends the next operand (`<<"store", "LSU">>`).
* The second part of a misaligned vector store takes its data from the following operand, with
  every grant and answer immediate (stores at a lane other than 0).
* An answer to the first operand that is later than a cycle is lost, although a comment in the FSM gives a
  reason (a grant implies the previous answer) that does not hold for the first request
  (`LateAnswer` with `<<"arith", "VRF">>`).
* `vsub.vx`, `vnmsac`, `vmadd` and `vnmsub` are decoded as legal with no operand selection; the VRF takes
  them for an illegal operation, returns to IDLE and starts over, so that they never leave ID
  (kind `nosel`, decoder 761).
* The assertion `NoMemResponseWithoutPendingAccess` of the core (core.sv 833-847) does not know of the
  VRF's accesses: each of them violates it.
* Strided accesses of 8- and 16-bit elements move one element per word; strided accesses at a
  misaligned address advance from the aligned one; `vsub.vv` computes `vs1 - vs2`, the opposite of the
  standard's order, which is taken as the unit's definition here (its ALU is a parameter).

*Pipeline*:

* An illegal vector instruction keeps `vrf_req_o` (the decoder takes back the other requests at lines 863-871): it stalls
  and leaves the ID FSM in MULTI_CYCLE, where the handler's first instruction is executed as if it were in
  its second cycle (`Instrs` with an illegal `vec`; the assertion at id_stage.sv 863-864 names the stall).
  A vector access that fails leaves MULTI_CYCLE as well.
* `vrf_req_o && illegal_vec_csr_insn_i` (id_stage.sv 586) is not qualified by `instr_valid_i`, against the
  controller's terms at 193-206: the bits of a squashed vector instruction with a misaligned register group trap
  (`Instrs` with `group`).
* A single step that ends with an interrupt pending takes the interrupt only by the order in which
  FIRST_FETCH and DECODE look at debug first; `handle_irq` itself has no term for it, though the comments at
  controller.sv 293-297 and cs_registers.sv 566 say so. `Hart` (`Interrupt` requires `~stepped`) confirms the order suffices.
* MRET in debug mode changes the level to the saved one, and an EBREAK in debug mode does not restore M.
* In user mode interrupts are masked by `mstatus.mie`, as in machine mode. The clock gate exists in
  the simulation build only (top.sv 142-151).

*Vector configuration*:

* `vl_max_o` ("set vl to VLMAX", decoder.sv 109) is connected to nothing, so that vset with rs1 = x0 and rd # x0 sets vl to 0.
* A vsetvl with rd = rs2 is done twice if ID is empty for a cycle after it: its bits stay, and are computed again with
  the new vl, which is in rs2 now, as the type; the comment at core.sv 1100 speaks of "the values coming from the instruction". With VLEN = 32, a = 0 and b = 17,
  `vsetvl a, b, a` first sets vl to 4 under e8, m1 and then, with the type 4, the illegal configuration with vl = a = 0. (Without `OverwritesType` in
  `ConfigFollowsProgram` the `vector_config` run shows this in four states. `GroupHoldsVl` holds even then.)
* vsetvl ignores bits 31:8 of rs2, which the standard wants to be zero or else to set vill.
* `vill_q` is never read: an instruction under an unsupported type is executed. A "keep vl" that changes
  SEW/LMUL sets `vill_q` for one cycle only, since the next cycle compares the new type with itself; one that comes in an unsupported
  configuration makes it a supported one (`Reserved` = TRUE).
* An element width of a load or store whose scaled LMUL is not supported raises nothing, although the comment at
  core.sv 1287 says "raise illegal instruction exception"; the alignment of register groups is
  checked with `vlmul_q`, not with the scaled LMUL.

*Multiplier*: with RV32MFast (the default of `vcve2_top_tracing`) a vector multiplication does not wait for the
multiplier's FSM, which has four states there; the lane-wise multiplier exists in the single-cycle variant only.

*Tools*:

* `vendor.py` opens the lock file with `'w'` (line 731) before it writes it. A run that is interrupted then leaves
  a file that does not parse, and every later run ends with an error at line 649, those with `--update`
  too, which would not need it. `Recovers` excepts such files; the user has to remove it.
* A branch in a lock file (by hand) is compared with a revision and refused by every run without `--update`; `Recovers`
  excepts it.
* `--refresh-patches` deletes the patches before it clones; after a failure there, the next plain run copies
  upstream *without* them and ends well.
* `-D upstream.ref=...` is accepted (line 48) and has no effect: `Upstream` reads the key `rev` (line 219). So is a `-D`
  with two equal signs refused, since line 586 splits at both.
* `VcsToolReq.to_semver` (check_tool_requirements.py 238-260) puts month and service pack together without a dot
  and without padding, though its comment says that this "should work as long as the patch version isn't greater than 99": `2020.12` becomes `2020.120`, which is below `2020.3200` for the required 2020.03-SP2. A newer VCS
  without a service pack is refused. `CheckExact` excepts these versions.
* `azure-pipelines.yml:97` includes `ci/ibex-rtl-ci-steps.yml`, which does not exist; the file is
  `ci/cve2-rtl-ci-steps.yml`. `Ci` models the latter.
* The options for DSim (cve2_config.py 272-274) are defines for numbers and nothing for strings, and the other simulators get a number as a parameter.
  No flow of the repository asks for them.
* `cve2_riscv_compliance.core` declares no `WritebackStage` for its target (lines 98-109), which every configuration of `cve2_configs.yaml` sets, and the
  core `cve2_simple_system_cosim` is not in the repository. The model's `Declared` is one set of parameters for all builds, as the job
  intends.
* FuseSoC options omit a boolean that is false (`cve2_config.py:143`), so that a core whose default is true would keep it;
  the parameters of `cve2_configs.yaml` have no such default.
* CoreMark's failure is a logged issue, never a failed job, and after a failed build the simulator of an earlier
  configuration runs in its place. The issue is logged, which `CoreMarkOrIssue` shows.
* `git commit`'s failure is a warning (`vendor.py:580`): the run ends with success and the change stays staged.

## 6. What is proved

### Prefetch buffer

`PrefetchBufferProofs` proves, for **every** number of requests `NUM_REQS >= 2`, every memory size,
memory content and set of branch targets that satisfy the ASSUMEs named in `FetchFifo` and `PrefetchBuffer`:

| theorem | states |
|---|---|
| `TypeCorrect` | `Spec => []TypeOK` |
| `Invariance` | `Spec => []IInv`, the inductive invariant |
| `NeverOverflows` | `Spec => []NoOverflow` |
| `SlotsAreReserved` | `Spec => []SlotsReserved` |
| `AlwaysContiguous` | `Spec => []Contiguous` |
| `QueuesAlwaysAgree` | `Spec => []QueuesAgree` |
| `RequestIsStable` | `Spec => RequestStable`, the OBI rule for requests |
| `AlwaysInOrder` | `Spec => []InOrder`, where every word on its way belongs in the stream |
| `Implementation` | `Spec => ImplementsStream`, the refinement of `FetchStream` |

**The argument.** `NoOverflow` (a word that arrives finds a free entry) is not inductive: it says
nothing of the words still to come. The buffer issues a request only if `~&(busy | outstanding
reversed)` leaves a slot, an overlay that counts correctly only if both vectors are *prefixes* (valid
entries from the bottom, outstanding requests from the bottom). So `IInv` is the conjunction of the
types, of both prefix properties (`Contiguous`), of the agreement between the outstanding vector with
its discard bits and the memory's queue (`QueuesAgree`, and `StaleFirst`: what was asked for before the last
branch is in front), and of the reservation: the entries filled
plus the requests outstanding and not to be discarded, plus the one waiting for its grant, never
exceed the depth (`SlotsReserved`). Step lemmas treat in turn the queue's shift, the grant, the FIFO's
push and pop, and the branch that clears the FIFO and marks everything outstanding for discarding.

The refinement needs to know *which* words these are. `InOrder` numbers them from the one the program counter is in: the
valid FIFO entries are words 0, 1, ..., the requests under way that are not to be discarded are the next ones, then
comes the one that waits for its grant, then `fetch_addr_q`. Error flags are the memory's for the same words. With that,
what the FIFO offers is the instruction at the program counter, put together from one entry or two, or from an entry and the
word that arrives, with its own errors; taking it pops a word exactly if the next address lies in the next one; and what the stream
offers stays the same until it is taken or a branch comes. The memory is a ring, so words are counted modulo its size (`FromFacts`).

### Scalar loads and stores

`ScalarMemoryProofs` proves, for **every** memory of at least two words, every set of accesses (any size, alignment and
sign, any words the PMP refuses) and all delays and errors of the bus:

| theorem | states |
|---|---|
| `Invariance`, `DataInvariance` | `Spec => []IInv`, `Spec => [](IInv /\ DataInv)` |
| `ResponsesHaveOwners` | `Spec => []NoOrphanResponse` |
| `ErrorsReported`, `FaultAddressFirst` | `Spec => []ErrorReported`, `Spec => []FaultAddress` |
| `StoresComplete`, `LoadsReturn` | `Spec => []StoreCorrect`, `Spec => []LoadCorrect` |
| `RequestsStay` | `Spec => RequestStable` |

**The argument.** The state of the LSU's FSM alone does not say how far an access has come: IDLE is also the state in which
the last answer is awaited, WAIT_GNT serves the only request of an access and the second of two. So `IInv` says
which of five *phases* (`FirstAsked`, `BothAsked`, `BothGranted`, `SecondAsked`, `LastGranted`) an access is in, and in
each phase what the flags of the LSU mean: the memory's queue is exactly what was granted and not answered, `pmp_err_q` is
the PMP's verdict on the request awaited, `lsu_err_q` the failure of the first part, `addr_last_q` the address of
the part the next address or mtval is computed from. One lemma per phase takes a step. An access is under way if and only if the ID
stage's FSM is in MULTI_CYCLE (`PhaseInv`), which is what ties the two FSMs together, and gives `NoOrphanResponse`. `DataInv` adds what has been
transferred: a part of a store that was granted is written (`WrittenInv`), and the unit has kept the
type, sign and offset of the access and lanes 1 to 3 of its first word (`KeptInv`; no access that crosses
needs lane 0). `FirstBytes`, `SecondBytes` and `LoadedBytes` show that byte enables, rotation and alignment move byte `k` of
the access to and from its place.

### Pipeline

`PipelineProofs` proves, for **every** set of addresses and instructions that satisfy the ASSUMEs of
`Pipeline` (what the decoder can deliver), every placement of handlers and breakpoints, and with every line and delay:

| theorem | states |
|---|---|
| `TypeCorrect` | `Spec => []TypeOK` |
| `AccessCompletes` | `Spec => []NoAccessAsleep` |
| `EntersAtRest` | `VecSupported` implies `Spec => []AtRest` |
| `NmiIsTransparent` | `Spec => NmiTransparent` |
| `Precise` | `VecSupported` implies `Spec => ImplementsHart`, the refinement of `Hart` |

**The argument.** The types need one fact about two registers: the flop of a taken branch is set only
while a branch is in ID (`BranchFlop`), or the next PC would be an operand that is no address; a taken
branch stalls, so the IF-ID register keeps it for the second cycle. `NoAccessAsleep` becomes inductive with
`DecodeRuns` (the clock is on in DECODE, whose predecessors are busy states), `DoneRule` (no unit completes
what it was not given), and the facts that the access has no fetch error and is in its second cycle; the lemma
`NoSpecialRequest` collects what could end such an instruction (nothing in `special_req` is
raised), `Stays` that a stall then keeps instruction, validity and state. `AtRest` adds
`MultiRuns` (a second cycle is in DECODE) and is where the hypothesis is needed: an illegal or failing
vector instruction is exactly the case in which MULTI_CYCLE survives its instruction (section 5).
`NmiTransparent` follows from `NmiSaved`: what the NMI interrupted is in mstatus, mepc and mstack as
long as the history variable `saved` remembers it, through debug mode and returns from it.

`Precise` is the refinement step by step: each cycle of the pipeline is a stutter or one action of `Hart` (retire, or take an exception,
interrupt, NMI or debug entry, or return or wake up). Its invariant `HartInv` adds to `RestInv` what ties the controller's FSM to the instruction in
ID: in which states ID is occupied and by what (`Occupied`: in FLUSH the instruction whose exception was latched in the cycle before is still there, and the
latched requests are its own), that the PC of the IF stage is where the hart goes on (`NextPc`), and what has been
asked for and not answered (`Requested`). One lemma per state of the FSM shows which abstract action its cycle is. The hypothesis is that of `EntersAtRest`.

### Vector unit and its bus

`VectorUnitProofs` proves, for **every** memory, ALU, program, register and AGU size, unbounded delays of grants and any delay of the
answers to the LSU, provided the VRF's answers come in the cycle after the grant and ID always has an instruction (`Tolerated`):

| theorem | states |
|---|---|
| `Invariance` | `Tolerated` implies `Spec => []IInv` |
| `AnswersRouted` | `Tolerated` implies `Spec => []AnswerRouted` |
| `CleanStarts` | `Tolerated` implies `Spec => []CleanStart` |
| `ResponsesExpected` | `Tolerated` implies `Spec => []NoMemResponseWithoutInstruction` |
| `RequestsStay` | `Tolerated` and `InTime` imply `Spec => RequestStable` |
| `ResultsCorrect` | `Tolerated` implies `Spec => []ResultCorrect` for instructions of `ReadKinds`, and of `WordKinds` that are `InReach` |

**The argument.** `dmem_switch` remembers one bit, `prev_op_q`, for a bus on which the LSU may have two answers outstanding, and
the LSU is IDLE both at rest and while it waits for its last answer. So `IInv` says when the LSU has an access under way: exactly in the VRF's states that wait for it
(`LsuTurn`: LOAD but for the last iteration, STORE_WAITLSU but for the first), and then `prev_op_q` is "LSU" and what is outstanding is
the LSU's (`Accessing`); in all other states of the VRF at most its own request is outstanding. `VrfTurn` and `VrfOther` show that the
VRF enters such a state exactly with a request to the LSU and leaves it exactly with the LSU's response, `VrfDone` that it reports the end only when it has nothing left
to ask and no delayed grant to remember. Neither hypothesis can be dropped: with bubbles the run `vector_bubble` violates
`NoMemResponseWithoutInstruction` (section 5), and the VRF does not wait for the answer to its last write. The theorems allow more delays than the run
`vector` does, since a wrong *result* is possible where the routing is still right.

`RequestsStay` is about requests that are not granted at once. A write of an arithmetic instruction may wait for any time although the
operands it is computed from are overwritten by the read before: `rd_q` keeps the result (`VrfHeld`; `DelayInv` says in which
states `curr_state_delay` can be set, `KindInv` which state belongs to which instruction). `InTime` excludes the two requests for which
this is not so: the VRF's write of a load and the LSU's write of a store are kept for one cycle only (section 5). `LsuHeld` is the
same for the LSU, for both parts of a misaligned access (`PartInv`).

`ResultsCorrect` is about the data path: all arithmetic, multiply-accumulate and move instructions from vectors and the slides
(`WordKinds`), for every ALU, `vl`, slide offset, register group and delay of a grant, and the instructions that write no memory (`ReadKinds`). The
FSM computes one word while it reads the next, so that in each state the iteration counter, the AGU's counters, the operand registers, the slide
buffer and the answers outstanding belong to different words. `DataInv` says which: `Round` is how many
iterations the counter says have begun (`Counting`), and from it follow the word at which each AGU counter stands
(`Addressing`, with `Wrote` words written and `Asked` words of the first operand asked for) and what each operand register, the slide buffer
and the answer on its way hold (`Operands`, one part per state of the FSM; `AtDelayed` is the write that was not granted, whose
operands are gone and whose result is in `rd_q`). The memory is `Image(Wrote)`: exactly the first words of the
result, byte by byte, over what was there before. There is one lemma per state (`AtStart` to `AtNextRound`), and
`Turns` and `Targets` show that the byte enables of the first and last write are the bytes that `Written` promises. `Placed`
is what the argument needs of the code, and is what software that follows the standard gives it, but for the slide down:

* a register group lies in one block of the AGU's counter, which wraps around in it (`Fits`), and an operand's group is that of the result or lies such that
  no word is written before it is read (`Clear`): the standard's constraints on overlapping groups give both;
* slide offsets are below `vl`, and a slide down does not have a whole number of words as `vl` with an offset that is not: there the
  code writes the wrong words (section 5, and the hazard of the iteration count);
* `vl` is below 2^32 bytes (the 30-bit counter of iterations).

An instruction with `vl = 0` needs none of this (`InReach`). `InReach` is sufficient, and is not claimed to be necessary. The theorem does not speak of vector loads and stores, of SW, and of moves from a
scalar (`mv_x`), which write one word too many (section 5).

### Vector configuration

`VectorConfigProofs` proves, for **every** VLEN of `ConfigAssumption`, any registers, register values and types, and every straight-line program
that keeps vl only where the standard allows it (`Standard`; the run `vset_wrong_path` shows why branches are excluded):

| theorem | states |
|---|---|
| `GroupsHoldVl` | `Standard` implies `Spec => []GroupHoldsVl` |
| `ConfigFollows` | `Standard` implies `Spec => ConfigFollowsProgram` |

**The argument.** The hazard is that a vset whose bits stay in ID is computed in every cycle, from registers one of which it may just have
written. `Leftover` says that such bits compute what is there already, unless they overwrite their type; `Idempotent` that this is so after the vset has executed:
it finds its type where it was, and AVL or the new vl as AVL (`OperandsAgain`); the new vl fits
VLMAX, and an AVL that fits is its own vl. A vsetvl that overwrites its type needs no more than that each time is a vset by
the rules, after which vl fits (`ConfigStep`); so both theorems hold with it. VLMAX is `M * Groups(LMUL / SEW)` with `M = VLEN / 32` (`VlMaxValue`), so that types whose
SEW and LMUL scale alike have the same and others another (`SameVlMax`, `OtherVlMax`): the code's table of changes that keep vl is the
standard's rule, and an LMUL scaled in three bits either is the right one or is not supported (`ScaledLmul`).

### Multiplier and divider

`MultDivProofs` proves, for **every** width of words that the ASSUMEs of `MultDiv` allow, all operands and sequences of instructions:

| theorem | states |
|---|---|
| `LatencyFixed` | `Spec => []Latency` |
| `ResultsCorrect` | `MulhOnFast` implies `Spec => []ResultCorrect` |

**The argument.** The invariant says in which cycle of an instruction each FSM is in which state (`MultPhase`, `DivPhase`: in MD_COMP the
counter is the width plus 3 minus the cycle), and that the FSM of the unit that is not used, and both between instructions, are at rest.
`DataInv` adds what the registers hold in each state. For the fast multiplier these are partial sums of the four products of halves
(`FastData`); `SumsFit` bounds them, so that the accumulator of W + 2 bits loses nothing. The
single-cycle multiplier's lanes are products of the digits of the operands to base 2^(W/4), of which `LanesOfQuarters` and
`LanesOfHalves` pick those of the lane. The division is the school method, and needs no induction over the bits because the loop is in the
*specification*: `Long(r, q, c)` says that the bits of the dividend from position c on are the divisor times the quotient bits found so far, plus the remainder
`r`, and `LongStep` takes one bit, with the subtraction in W + 1 bits (`Subtraction`) and the quotient's next bit
set or left (`NextBit`). Signs are dropped first and put back last (`SignedDivision`), by zero and overflow as the standard
has them. `MulhOnFast` excludes MULH on the single-cycle multiplier, where `multdiv_mulh` shows the result wrong (section 5): without it
the proof fails exactly there.

### Vendor tool

`VendorProofs` proves, for **every** set of repositories, revisions, paths, patches and descriptions that satisfy the
ASSUMEs of `Vendor`, and any number of failures and edits:

| theorem | states |
|---|---|
| `Invariance`, `TypeCorrect` | `Spec => []IInv`, `Spec => []TypeOK` |
| `SuccessPins` | `Spec => SuccessMeansPinned` |
| `LockIsLast` | `Spec => LockComesLast` |
| `CommitsNothingElse` | `Spec => CommitsItsOwn` |

**The argument.** Between runs nothing is known: the user may do anything, and an aborted run may have left
anything. So every part of `IInv` is about a run under way, by the steps it has passed: what was read is what is there
(`HeldInv`: without `--update` the upstream used *is* the lock file's, until the lock is written); the cloned revision is the lock
file's or will become it (`CloneInv`); items before `item` are in place with all their patches, as later
items are other paths (`ItemsInv`, where the disjointness of a mapping is used); the current one has the patches
that are no longer in `todo` (`CurrentInv`); index and HEAD agree until `git add`, if the run is to commit (`GitInv`). At the
end, all items are in place and the lock file names what was cloned, which is `Pinned`.

### Builds

`BuildProofs` proves, for **every** number of targets with build roots of their own, any file list and any number of
builds; and for any files, configurations, tables and installations that satisfy the ASSUMEs of `Ci`:

| theorem | states |
|---|---|
| `HookInvariance` | `Spec => []FInv` |
| `ToolAlwaysReadsConversion` | `Spec => []ToolReadsConversion` |
| `FailureAlwaysLeavesSources` | `Spec => []FailureLeavesSources` |
| `JobInvariance` | `Spec => []CInv` |
| `CoreMarkAlwaysOrIssue` | `Spec => []CoreMarkOrIssue` |
| `GreenJobsCheckConfigurations` | `Spec => []ConfigurationsChecked`, the part of `GreenMeansChecked` that needs no comparison of versions |
| `CheckAlwaysExact` | `VcsComparable` implies `Spec => []CheckExact` |
| `GreenAlwaysMeansChecked` | `VcsComparable` implies `Spec => []GreenMeansChecked` |

**The argument.** While a hook works, every file is determined by how far it has come (`FileOf`): converted if copied
back, empty if emptied, half written if it is being copied, a source otherwise. A conversion is pure since nothing is
copied back before the last one (`OrderInv`), and what one target writes is no other's (`Others`, from
`RootsAssumption`: the Makefile's `mk-build-root`). In the job, the options are those of the current configuration in all
steps but the first (`OptsInv`), and `GivenIsMeant` shows that options and defaults together give each parameter the
value of the file; this needs that FuseSoC knows a boolean as a flag that is off by default (`FilesAssumption`).

`CheckExact` compares two orders of versions: the vendor's, number by number, and the code's, which compares three numbers with month,
service pack and patch of VCS joined as digits. `JoinedOrder` shows that both agree if service packs have one digit, patches two (the
code's own comment asks for that) and the minimum has a service pack, as the one of `tool_requirements.py`. That is `VcsComparable`,
which the `build` run evaluates on its instance (`VersionsAreComparable`). It cannot be dropped: with a minimum of 2020.03 a
2020.03-SP1 is taken for 2020.3100, and 2020.12 for older than 2020.03-SP2. For the other tools the
orders are the same. `ToolsInv` says that a job past the first Verilator step has passed the check, since the core that is linted
there has the hook (`LintIsHooked`, which follows the dependencies from core to core).

**Model-checked only:** liveness (`FetchProgress`, `Quiesces`, `AccessEnds`, `VectorEnds`, `NmiTaken`, `DebugRequestTaken`, `WakesUp`,
`Recovers`), since fairness and ENABLED are beyond the prover; and of `VectorUnit.ResultCorrect`, the vector loads and stores and SW,
which the `vector` run covers.

## 7. Plan

In order of importance; the first seven are modelled and checked.

1. `FetchFifo`, `PrefetchBuffer`, `FetchStream` and their proofs. *Done.*
2. `LoadStoreUnit`, `ScalarMemory` and their proofs. *Done.*
3. `VrfInterface`, `VectorUnit` and proofs of its control, its requests and the results of computing instructions. *Done*; next:
   `ResultCorrect` for loads and stores, with the LSU's accesses as steps of one word.
4. `Pipeline`, `TrapCsrs`, `Hart` and the refinement. *Done.*
5. `VectorConfig` and its proofs. *Done.*
6. `MultDiv` and the proofs of its latency and results. *Done.*
7. `Vendor`, `Cve2Config`, `ToolRequirements`, `Ci`, `Sv2vInPlace`, `Build` and their proofs. *Done.*
8. `Pmp`: region matching and priority against a reference definition; composition with the VRF's
   requests (a refused request is never granted, and the VRF does not look at `data_pmp_err_i`).
   The top level sets `PMPEnable` to 0.
9. The alignment check of register groups with the LMUL masks; a bus error in the middle of a vector
   instruction, in `Pipeline` composed with `VectorUnit`.
10. `Counter`, the fracturable adder (lanes against modular addition), the compressed decoder.
11. `Bus` and `Timer` of the example platform.

## 8. Not modelled, and why

* Decoding of scalar instructions, the ALU's operations and the compressed decoder's table: pure
  functions. The ALU appears in `VectorUnit` as a lane-wise operator parameter.
* mcause, mtval (but see `FaultAddress`), mie, mtvec: written with, or constant beside, what is modelled.
* Performance counters, tracing, RVFI ports, scan and test pins: no effect on the core's behaviour.
* Branch prediction: not instantiated here. The multiplier's slow variant: no configuration builds it.
* The clock gate of the synthesis build: there is none, the clock always runs.
* Reset: only as `Init`.
* Of the tools: the text of options, messages and logs; the regular expressions that cut a version out of a tool's
  output; `vars_to_logging_cmd.py`, which prints the variables of a YAML file as logging commands; `tool_requirements.py`
  is data, and the `build` run has its table. The installation of the CI machine, formatting and documentation jobs.
* FuseSoC, sv2v, git, the simulators and Azure: external; modelled only by what the tools rely on.
