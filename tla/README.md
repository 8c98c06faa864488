# Formal models of 16b4x

16b4x is a 16 bit computer: an instruction set (documentation/ISA.txt), an
assembler and a disassembler for it, the simulator *cosi*, a small operating
system, the FPGA core *helium*, a RAM module, and a screen peripheral.  This
directory holds TLA+ models of its stateful parts, TLC configurations that check
them on small instances, and proofs for every value of the constants.

Contents: [inventory](#inventory), [the RAM module](#the-ram-module),
[cosi](#cosi), [the assembler](#the-assembler), [the instruction
set](#the-instruction-set), [helium](#helium), [runs](#what-the-runs-check-and-show),
[proofs](#what-is-proved), [what is not modelled](#what-is-not-modelled-and-why),
[other divergences](#other-divergences-met), [plan](#plan).

To run: `tlc -config ram.cfg MemoryController`, `tlc -config cosi_flush.cfg
MCCosi`, `tlc -config asm.cfg MCAssembler`, `tlc -config isa.cfg MCIsa`, `tlc -config
helium.cfg MCHelium`, and likewise for the other configurations; `tlapm` on
`MemoryControllerProofs.tla`, `CosiProofs.tla`, `AssemblerProofs.tla`, `WordsProofs.tla`,
`EncodingProofs.tla`, `IsaProofs.tla`, `WrittenProofs.tla` and `HeliumProofs.tla` for the proofs.

## Inventory

Paths are below `src/`.

| component | state | operations | talks to |
|---|---|---|---|
| **RAM module** `fpga/memory/ram_v0` | controller state (8), driver state (8), its address and data registers, cache entries, sweep counter, chip words, address latches | read, write, reset, invalidation sweep | a client over `i_read/i_write/o_ready/o_output` and tristate `io_data`; the chip over one multiplexed bus |
| **cosi virtual memory** `simulator/src/memory.cpp` | 32 tlb lines, memory words (page tables among them), pid, page table address | translate, read, write, read for execution, flush, start-up identity mapping | control registers (pid, table address), privileges, interrupts |
| **cosi registers, privileges, interrupts** `cr.cpp`, `privilege.cpp`, `interrupt.cpp`, `internal_state.cpp` | CR file, privilege bits, saved context, handler table, request flags | `cr::read/write`, `privilege::check`, `raise`, `load_iht`, update requests | everything in cosi |
| **cosi instruction loop** `main.cpp`, `instruction.cpp` | ip, ui, general registers, flags, `interrupt_sw`, `halt` | one instruction, then the requests, then the software interrupt | all of cosi |
| **cosi io and disk** `io.cpp` | info of the port, disk address, image file | port reads and writes | instruction loop |
| **operating system** `os.sasm` | process table, page tables, scratch page | create process, page fault and timer handlers, disk driver | runs on cosi |
| **helium CPU** `fpga/helium/src/cpu.vhdl`, `decode.vhdl`, `register.vhdl`, `arithmetic.vhdl` | cycle, instruction, mode, a program counter and a prefix per mode, registers, tlb in the internal memory, px registers, privilege, pid, interrupt enable | fetch, execute, microcode for boot, refill and flush, interrupt, return | memory and ports through `main.vhdl` |
| **helium flash driver** `flash.vhdl` | SPI state machine, bit and wait counters | read, write, erase | CPU by ready |
| **helium PSRAM driver** `mem.vhdl`, device `ghdl_stub.vhdl` | a state machine at each end of a bus of 8 bits, address and word in halves | read, write | CPU by ready; device by a clock it makes |
| **helium top level, timer** `main.vhdl`, `timer.vhdl` | port registers, two counters | port multiplexing | CPU |
| **screen driver, video card** `fpga/peripherals/screen_square_spi` | initialisation list, SPI shift, frame buffer, row, column | initialise, transfer a frame, accept a write | CPU by writes; screen by SPI |
| **assembler front end** `tokenize.cpp`, `verify.cpp`, `main.cpp`, `save.cpp` | offset, tokens, three stacks of brackets, mode; cursor and expected pattern; rows and files | one iteration of each phase's loop | files; each phase takes the list of the one before |
| **assembler preprocessor** `preprocess.cpp`, `expressions.cpp` | cursor, stack of conditions, starts and counts of repetitions, names, labels, address | carry out a directive, pass over a section, copy a token | code generation by tokens and labels |
| **assembler code generation** `code_gen.cpp`, `instruction_info.h` | cursor, address counted anew, words | encode an instruction, a word, padding | save |
| **disassembler** `disassembler/src` | none that lasts | print the instruction of a word | shares the encoding with sasm and cosi by hand |
| **test runner**, **utilities**, **data and tooling** | none that lasts | run the tools and compare files | files |

### What is hard, and what makes each part correct

* **RAM module.**  Two clocked state machines, of which one waits for the other,
  share tristate buses with the client, the cache and an unclocked chip.  The word
  of a write passes from the client through the controller, which has no register for
  it, to the driver in exactly one cycle; a read is
  answered from the driver's register in the one cycle it is driven.  A reset may
  come at any edge, also in the sweep that a reset starts.  *Correct:* no bus is
  driven twice or sampled floating; a read returns what the chip holds, cached or
  not; the chip stores only what was answered; ready always comes back; the whole is
  an atomic memory that a reset makes forget at most one answered write.
* **cosi memory, registers, interrupts.**  A translation depends on a line that may
  be older than the page table, the pid and the table address; the flush that keeps
  them in step is asked for by one instruction and done after it, together with a
  reload that itself translates, may fault, and refills lines.  Dirty bits live in the
  line and in memory.  Interrupts save a context whether or not a handler is entered.
  *Correct:* an access ends as the current page table says; a line serves its own
  process only; a written page is marked dirty; programs without control register
  access cannot change a page table or raise their privileges but through a handler.
* **instruction set.**  sasm, dasm and cosi each have tables of their own of the same
  opcodes, split fields, signs and prefixes; flags are computed by hand in six places.
  *Correct:* a program does on cosi what it says as it is written, dasm prints it back,
  and conditions decide as their names say.
* **helium CPU.**  An instruction takes two cycles of any length.  A tlb miss comes in
  either, sends the CPU into microcode that uses the program's own registers, and the
  instruction starts over, so nothing may have been committed before.  Some
  registers wait for the end of the cycle, others do not.  *Correct:* a program cannot
  tell when lines are filled and how long memory takes.
* **PSRAM.**  Two machines with a clock that one derives from its state, halves of words
  on a shared bus, a ready of each for the other.  *Correct:* requests meet an idle
  driver, whole words arrive, every request is answered.
* **flash, video.**  Handshakes between machines with different pace: every
  request must be answered, no write lost at the edge where the driver asks for data.
* **os.sasm.**  Its flush protocol is what cosi's correctness rests on; a fault inside
  a handler overwrites the saved context.
* **assembler.**  Stacks that have to agree over every mistake a file can have; loops
  without a bound that rely on an earlier phase's check; conditions and repetitions
  carried out by moving a cursor; two passes that count addresses independently.
  *Correct:* it ends, with an error and untouched files or with the words the
  documentation says the file means, in every output format.

PROJECT.json lists each hazard at its line, with the properties that cover it or the
reason that none does yet.

## The RAM module

```
 MemTypes ── LowLevel ── SimRam ──┐
     └────── Cache ───────────────┴── MemoryController ── MemoryControllerProofs
                     AtomicMemory ─ ─ ─ (refinement) ┘
```

| module | code | correspondence |
|---|---|---|
| `MemTypes` | `cache.vhdl` slicing, std_logic resolution | an address is `<<tag, index>>`; `Z` is a floating bus, `X` a contended bus or a register never assigned; `Resolve` joins two drivers |
| `LowLevel` | `low_level.vhdl` | `ll_state`, `ll_addr`, `ll_data` are the three registers; unprimed operators the combinational outputs of a state; `LLTick`, `LLReset` the clocked process |
| `SimRam` | `simsrc/simram.vhdl` | the chip and its transparent latches have no clock: `RamFollow` compares the wires before and after the edge and stores on a falling `nwe` |
| `Cache` | `cache.vhdl` | `entry`, `is_init`, `init_addr`, and the generic `g_enabled`, which has either value from the start and keeps it; `CacheHit`, `CacheReady` and `CacheDrive` are combinational, `CacheTick` and `CacheReset` clocked |
| `MemoryController` | `high_level.vhdl` | `hl_state`; one action per state (and outcome) of the state process, each of which steps driver, cache, chip and client at the same edge |
| `AtomicMemory` | [promise] | the abstract specification, below |

A state of the model is the settled state of one clock cycle, and a step one rising
edge.  Outputs and buses are functions of the state, as in the code, where every
process but the clocked ones is combinational.

*The client* is any circuit that asks only in a cycle whose `o_ready` is high, holds
its wires until the cycle of the answer, and starts over or goes quiet then.  This is
the protocol of the test bench (`simsrc/tld.vhdl`) and of documentation/memory.txt.
It may raise `i_read` under a write, since the code gives writes precedence.

*AtomicMemory* says what a client may rely on: one access at a time, a read answered
with the last word answered for that address, a write visible from its answer on.
It has two copies of the memory, because the module answers a write two cycles before
the chip is strobed: `mem` is what reads return and `chip` what a reset leaves, and
they differ by at most one write.  The mapping takes `mem` to `MemoryView`, the
chip's words with the write still in the driver's registers laid over them.

*Fairness.*  `Spec` has `WF_vars(Tick)`: the clock runs, and the reset line is not held
for ever.  `ReadyAgain` assumes further that resets stop, since a module that is
reset again and again owes no answer.

*Bounds.*  Two words, two tags, cache lines 0 and 1 (`High = 1`).  The data path copies
words and never looks into them, so two tell any mix-up; two tags on a line give hits,
misses and replacement; two lines show that lines do not disturb each other and give
the sweep a first, a last and a state after the last.  The cache is there or not: both top
levels build the module without it, and then every read goes to the chip.  The proofs do away with the
bounds for safety.

## cosi

`VirtualMemory` models `memory.cpp`, `Cosi` the loop of `main.cpp` around it with the
instructions, control registers and interrupts; `MCCosi` is a small instance.

* `stage` is the place in the loop: `fetch` (`mem::read_execute` of ip), `execute` (one
  instruction), `update` (the requests at the end of the loop, then the software
  interrupt), `stopped`.  One pass of the loop is three steps, because the
  translation of the fetch, that of the instruction and those of the reload find
  different tlb contents and privileges.
* An instruction is one action by what it does to memory and control state: `Load`
  (mrd, srd, pop, ret), `Store` (mwr, swr, psh, cal), `Int`, `Irt`, `Hlt`, the
  control register writes one by one, `Reject` for encodings that are refused, `Compute`
  for the rest.  Operands are arbitrary, so *every* program is a behaviour of the
  model.  A refused privilege is an action of its own (`CwrRefused`, `IrtRefused`,
  `HltRefused`), as the three cases do three different things in the code.
* `ReadPid` is `cr::read(cr::pid)`, which returns 0 without control register access.
* `Update` is the tail of the loop in its order: the flush, the translation without
  checks that `load_iht` makes of ip for its message, the translation of the handler
  table, the clearing of both requests.
* `last`, `stored`, `raised` record what the step did; `raised` is dropped at the end of
  the loop as in the code.  `stale` is a history variable: the pids that may have lines
  that differ from their page table, which is what software has to keep track of.

*The program and the kernel.*  documentation/ISA.txt makes software flush the tlb
after it changed a page table or the translation.  The model lets privileged code do
anything, including storing new words into page tables, and asks one thing of it:
a program without control register access is not given the processor while its pid is
stale (`MayRun`).  With `FlushOnSwitch`, privileged code also holds every line
for stale after a write of CR[x0000] or CR[x0001]; this is what os.sasm does, which
writes the pid, the table address and the flush request in a row (os.sasm:281-288).
Without it, software relies on the pid tags.  Page tables lie in frames that are open
only to protected accesses (`CosiAssumption`), and only levels that include control
register access include protected memory access: with either left out, a process could
rewrite its own table by plain stores and nothing would hold.

*Abstractions.*  An address is its page; the offset is copied by translation.  Of
memory only the page table words are kept, with the bits translation looks at.  General
registers, flags and io are in the arbitrary program.  The interrupt masks, the
saved ip, and the information registers decide nothing in this code.

*Bounds.*  Two pages and two frames (a process page and frame, a kernel page whose
frame holds the page tables), two pids with a table each, page table words that open
or write-protect the process page, privilege levels none and all.  Two pids are needed
and enough to mistake one process for another; the handler table lies on the process
page, so the reload can fault and can refill a line that a process uses.

*Fairness.*  None is assumed and no liveness is claimed of an arbitrary program.
`cosi_*.cfg` switch deadlock checking off because the simulator stops on `hlt`.

## The assembler

```
 AsmTokens ── Tokenize, Verify, Save ───────────────────────────────┐
     └────── Expressions ── Preprocess, CodeGen ── Assembler ── AsmReference ── MCAssembler
 Words ── Encoding ──┘                                └── AssemblerProofs
```

| module | code | correspondence |
|---|---|---|
| `AsmTokens` | `types/token.h`, `instruction_info.h`, `utils.cpp` | pieces of a file, tokens, names, operand patterns, warnings that are errors; the variables of `main.cpp` |
| `Tokenize` | `tokenize.cpp` | an action per `case` of the loop over characters; strings and comments are modes; `expr`, `lists` and the lines of both are the stacks |
| `Verify` | `verify.cpp` | the pattern of a line against its operands; an embedded expression is the count `depth` |
| `Expressions` | `expressions.cpp`, `get_const_val`, `get_value` | the two evaluators as functions of tokens, names and labels, with the cursor they return and every way they fail |
| `Preprocess` | `preprocess.cpp` | an action per directive; `pmode` says which inner loop passes over a section |
| `CodeGen` | `code_gen.cpp` | an action per directive and the instructions by format, with `Encoding` for the words |
| `Save` | `save.cpp` | opening, rows, one write (taken whole, taken in part, or failed), the symbols one by one; each failure is an error, but not a write taken in part |
| `Assembler` | `main.cpp` | the phases in order; `job` is a file and the options that matter |
| `AsmReference` | `string_help.cpp`, `documentation/sasm.txt` | what a file means, by recursion over blocks: no cursor and no stacks |

A step is one iteration of a loop of the code.  A file is a sequence of *pieces*: a
character the tokeniser treats by itself, or a run of identifier characters, of which
there are a few of each kind; two runs next to each other have a blank between them.
There is one instruction of each operand format; the whole tables are in `Isa`.
Integers are those of the code with 24 bits (`BitAnd`), so that TLC can compute with
them; no job comes near the bound.

*Fairness.*  `WF_vars(Step)`: one thread, which goes on.

*Bounds.*  `BracketJobs`: every sequence of up to four pieces of nine that open, close
or end something, of eight that make comments and escapes, and of up to five of six.
`PairJobs`: every two pieces.  `BlockJobs`: every structure of conditions and
repetitions of depth two and every tangle of up to four or five block directives,
well nested or not.  `FeatureJobs`: a file for each group of directives, operators and
labels in several formats and with warnings as errors, and eighty files with a mistake
each.  Two more levels or pieces add states and no new path through the code.  Left out of
the passing run are two shapes on which the code departs from the documentation: a
condition in a section passed over because its own condition was false (`FalseJobs`,
run `asm_skipped_if`), and a repetition of none inside another (below).

## The instruction set

```
 Words ── Io ── Processor ──────────┐
   └── Encoding ── Disassembler ────┴── Isa ── MCIsa
             └── WrittenProgram ─ ─ ─ ─ ─┘ (refinement)     Isa ── IsaProofs ── WrittenProofs
```

| module | code | correspondence |
|---|---|---|
| `Words` | `uint16_t`, bit operators | numbers of 16 bits, with and without a sign |
| `Encoding` | `instruction_info.h`, formats of `code_gen.cpp` | the word of an instruction with operands |
| `Disassembler` | `disassemble.cpp` | the instruction printed for a word, or INVALID and RESERVED |
| `Io` | `io.cpp` | ports, what a port holds, the disk and what is loaded from it |
| `Processor` | `instruction.cpp`, `helper.cpp` | `instruction_execute` with its fields and flags; an action per kind of instruction, one for encodings refused |
| `WrittenProgram` | [promise] | a program of named instructions, operands and labels; no words, no flags |
| `Isa` | all three programs | `Placed` gives labels their distances as sasm does, `Image` the words, cosi runs them; mapped to `WrittenProgram` |

`WrittenProgram` has no flags: a condition is decided by the two numbers compared, or by
the result, and left open where that says nothing (so the unsigned conditions after a
comparison, see the finding).  Refinement therefore checks the encoding, the
decoding, the prefix, the sign of every immediate and the flags at once.  Reset leaves all
privileges and no translation, which is the state of `Processor`; translation, privileges and
interrupts are in `Cosi`, where instructions are arbitrary.  The product of two 16 bit
numbers overflows `int` in the code, which is undefined; the model takes the low 16 bits
that the build produces, the only ones used.

*Fairness.*  `WF_vars(Step)`: the loop of `main.cpp` runs.

*Bounds.*  Arithmetic on all pairs of eight values at the bounds of sign, carry and
shift; immediates at theirs with six prefixes; every condition after seven ways to set
the flags; programs with recursion, loops, calls, stack, ports, the loading of the disk,
and words that are no instructions.  `BootLines` is 18 where the code loads 512.

## helium

```
 Words ── HeliumUnits ── Psram ── Helium ── HeliumPromise ── MCHelium
               └── PagedProgram ─ ─ ─ ─ ─ ─ ┘ (refinement)   Helium ── HeliumProofs
```

| module | code | correspondence |
|---|---|---|
| `HeliumUnits` | `decode.vhdl`, `arithmetic.vhdl` | a row of a decode ROM is the set of lines that are '1'; fields, immediates, ALU, conditions |
| `Psram` | `mem.vhdl`, `ghdl_stub.vhdl` | `d_state`, `addr_saved`, `data_saved` of the driver; `m_state`, `m_addr`, `m_drive`, `ram` of the device, which steps when the driver's clock changes |
| `Helium` | `cpu.vhdl`, ports of `main.vhdl` | wires are operators with the names of the signals, registers are variables, `Edge` is every clocked process at one rising edge |
| `PagedProgram` | [promise] | instructions carried out one by one through the page table, with stack, interrupts and privileges as ISA.txt has them: no tlb, microcode, cycles or bus |
| `HeliumPromise` | [promise] | `Helium` beside a history of what the documents promise of the registers the code gets wrong, and the mapping to `PagedProgram` |

A step of `Helium` is an `Edge`, or `Stays` when `hcf` has ended the simulation; what an edge
does (wait for memory, miss, fetch, carry out, enter a handler) is in the wires.  Reset and the external interrupt are tied off in
`main.vhdl:143-145` and left out.  `sim_skip_init` makes px 3 one, so boot skips the
copy from flash; memory holds the program from the start, as `ram_data` does.

*The promise* is ISA.txt's: a push decrements SP and a pop increments it; INT 0 to 127, irt
and the registers of the system need a privilege, and are a violation, interrupt 2, without it;
an interrupt returns to the instruction after the one that caused it, a page fault to
that one, which leaves no trace; irt restores flags and privilege.  helium's are only the
numbers: of handlers (`x0200` and two words each), of interrupts, of the px registers
that stand for control registers.  Calls keep the return address in LR, as the programs for
helium rely on (`screen_driver.asm:64-89`); of px 12 to 14 nothing is promised.

*The mapping.*  Boot is invisible until its last line.  R0 and R1 are those
saved in the internal memory while microcode uses them.  A
store is over for the program when the driver has its word; memory is `MemoryView`, with the
word on its way.  Some registers hold on helium what the documents do not say: SP after a
push, R0 and R1 after a page fault, FL after a refill or an irt, and always the cause
and the return address of an interrupt, the privilege and the interrupt enable, since the
code overwrites px 10 to 14 at edges of no instruction and saves no privilege.  `doc`, a
history variable, keeps what is promised of them, a register until the
program writes it again.  It hides nothing but the register as such: an instruction
that reads the register, stores it, jumps by it or depends on the privilege takes the machine's
value, and the result differs from the promised one in a register, an address or
memory that is compared.  So the refinement holds of programs that do not look at these
registers while they differ, and `EndsAsDocumented`, in a run of its own, says that
at the end of a program they do not differ, which is not so.

*The contract.*  `PagedProgram` promises this to programs that flush after a change of a
table, use pages 0 to 23 (the flush reaches no more), access without privilege only pages
whose lines are there and allow it, enable interrupts before they need one (ISA.txt:664 and 806
start with them off, helium with them on), and leave out what has no meaning on helium:
irt outside a handler, bits 1 and 5 of px 31, the flash port.

*Fairness.*  `WF_vars(Tick)`: the clock runs.  `Ends` says each program of the instance
gets to its `hcf`; that needs every wait for memory and every refill to end.

*Bounds.*  Every two of 11 instructions after one another, fetched through pages, with the
word at an address the first may have changed; and programs for the cases of paging: a
page remapped and flushed, two address spaces told apart by the pid alone, code on another
page, a page that comes on demand, interrupts and returns, a change of privilege.  psh and pop
are in the program of `helium_documented` only, as is an INT that programs may not use.  Words,
addresses and microcode have their full width; nothing is scaled down.  Of the ALU the
programs add, subtract and compare; the rest is one operator on both sides of the mapping.

## What the runs check and show

| run | checks | shows |
|---|---|---|
| `ram` | `TypeOK`, `NoContention`, `SampledIsDriven`, `CacheCoherent`, `ReadReturnsChipWord`, `StoresOnlyAnswered`, `IInv`, `ReadyAgain`, `ImplementsAtomicMemory` | all hold with resets at any edge, with the cache (about 72 000 states) and without it, as both top levels build the module (`tld.vhdl`; about 165 000 states) |
| `cosi_flush` | `TypeOK`, `TlbShowsTable`, `AccessFollowsTable`, `PidChecked`, `WrittenPageDirty`, `TablesOnlyMarked`, `NoSelfMadePrivilege`, `IInv` | all hold for software that flushes on a switch (about 3 million states) |
| `cosi_tagged` | `PidChecked` | violated: software that relies on the tags |
| `cosi_entered` | `RaisedIsEntered` | violated |
| `cosi_blocked` | `BlockedStoreSuppressed` | violated |
| `asm` | `TypeOK`, `BracketsAgree`, `ExpressionsEnd`, `CountsForStarts`, `SpecialLabelsInRange`, `SavedWithoutErrors`, `OutputReadsBack`, `ReferencesMeetLabels`, `ExpandsAsDocumented`, `Terminates` | whatever the brackets, blocks and mistakes of a file: no index leaves its vector, the phases end, no file is touched once an error was reported, and what is saved is what the documentation says (about 300 000 states) |
| `asm_skipped_if` | `ExpandsAsDocumented` | violated |
| `isa` | `TypeOK`, `SignedConditionsDecide`, `DasmReassembles`, `ImplementsWritten`, `Terminates` | sasm, cosi and dasm have one instruction set (about 53 000 states) |
| `isa_unsigned` | `UnsignedConditionsDecide` | violated |
| `helium` | `TypeOK`, `RequestsMeetIdle`, `WordsArrive`, `MemoryAsPromised`, `ImplementsProgram`, `Ends` | a program on helium runs as if there were no tlb, no microcode and no bus (about 24 000 states) |
| `helium_documented` | `EndsAsDocumented` | violated |
| `helium_miss` | `PermissionByTable` | violated |

The seven violations are places where the code and its documentation differ:

1. *The pid is not always checked* (`memory.cpp:36`).  ISA.txt:709 says "pid is checked
   regardless of privilege setting".  The code compares the pid that `cr::read` shows
   the program, 0 without control register access, so lines of pid 0 serve every
   unprivileged process, and lines of its own never hit.  Software that flushes on
   every switch does not notice (`cosi_flush`); software that relies on the tags does.
2. *A raised interrupt is not entered* (`main.cpp:105`).  ISA.txt:859-864 has the
   instruction complete, the privileges raised and the handler entered, where interrupts are
   enabled.  In the code only `INT` gets there; with interrupts enabled and the handler
   table loaded, a fault saves the context and execution goes on.
3. *A store that faults writes physical word 0* (`memory.cpp:153`).  ISA.txt:881 says no
   memory is updated when the interrupt is blocked.
4. *The end of a nested condition ends the section around it* (`preprocess.cpp:225`).  While
   a section is passed over, a nested `%if` is pushed as minus its line and looked for as
   -1.  `%if 0, %if 1, nop, %end, %else, nop, %end` drops the section of `%else`;
   `string_help.cpp:271-274` says it is assembled.
5. *Unsigned conditions after a comparison* (`instruction.cpp:292`).  The carry of a
   subtraction is its borrow, and jae jumps when it is set; ISA.txt:1238-1245 reads it as
   above or equal.  After `cmp` of 1 and 2, jae jumps.
6. *Stack, interrupts and page faults of helium.*  One program shows four differences:
   psh adds one to SP (`cpu.vhdl:588`; ISA.txt:678-679); INT 9 without privilege is carried
   out (`decode.vhdl:172`; the comment above it and ISA.txt:801); px 11 is the address of the
   handler (`cpu.vhdl:554`; ISA.txt:867-869); a page fault leaves the microcode before R0
   and R1 are put back (`microcode.asm:28`; ISA.txt:919 has no state updated, and the handler of
   stub.asm:1188-1190 saves both as the program's).
7. *Permissions of an absent line* (`cpu.vhdl:509`).  The read and write bits are looked at
   in the cycle that misses, in whatever line is there, so a load that the page table
   lets raises interrupt 3 if its line is not in the tlb, against ISA.txt:741-742.

## What is proved

`MemoryControllerProofs` proves, for every set of words and tags, every cache size and
both values of `g_enabled`, from `MemAssumption` only:

* `Invariance`, `Spec => []IInv`, and from it `TypeCorrect`, `Coherent`,
  `ReadsReturnChipWord`, `BusesNeverContended`, `OnlyDrivenSampled` and the action
  property `ChipStoresAnswered`;
* `RefinesAtomicMemory`: initial states map to initial states of `AtomicMemory`, and every
  edge to one of its steps or to a stutter.

None of the properties is inductive alone.  `IInv` is `TypeOK`, `InStep` and
`Coherence`.  `InStep` says which pairs of states of the two machines occur and what
has been latched by then; it is why the word offered in `mem_write_1` meets a
driver that latches it.  `Coherence` compares the cache not with the chip but with
`CacheView`, the chip as it will be once the write in flight has landed, as the cache
takes a word four cycles before the chip does; and it says that the sweep leaves
nothing valid behind it, so that lines filled before a reset are gone when it ends.
The proof has a lemma per action for what that edge does to the registers
(`AcceptWriteEffect`, `AwaitReadEffect`, ...), `TickInv` with a case per action, and
`ResetInv`.

`CosiProofs` proves, for any pages, frames, pids, page tables, page table words and
levels that meet `VMAssumption` and `CosiAssumption`:

* for all software, `CosiTypeCorrect` and `PrivilegeOnlyByHandler`;
* for software that flushes on a switch (hypothesis `FlushOnSwitch`), `CosiInvariance`, and
  from it `TlbNeverStale`, `PidAlwaysChecked`, `AccessesFollowTable`, `WrittenPagesDirty` and
  `TablesOnlyMarkedByPrograms`.

The invariant joins five facts that need each other.  `TlbShowsTable` alone does not
survive a store, as the store could rewrite a table: `TablesOutOfReach` shows that
an unprivileged store cannot, since such a program runs on a settled table
(`RunsSettled`), is therefore shown the table's own word, that word is protected if it
leads to a page table (`TablesClosed`), and the program has no protected access
(`LevelsKnown`).  Nor does it survive the dirtying of a line of another process, of which
unprivileged programs could be served by pid 0; `SoleProcess` says that after a flush
there are none.  That is the place where the hypothesis enters, and `cosi_tagged` shows
that it is needed.

`AssemblerProofs` proves for any set of jobs that meets `JobsAssumption`, so for any
file:

* `StacksAgree` (`BracketsAgree`): the three stacks of the tokeniser hold the same brackets
  after every error.  `NestInv` adds to it that the mode fits the top of the stack.
* `ExpressionsAlwaysEnd` (`ExpressionsEnd`): `verify_expression()` finds the end it looks for
  without a bound.  `EndInv` carries the number of open expressions (`Open`) through two phases:
  in `tokenize()`, until an error, it is the length of `expressions_started` behind the last token
  and never negative before (`OpenStarted`), so nothing is open at the end of a file that passes;
  in `verify()` at least as many are open before the cursor as there are calls (`OpenVerified`),
  also behind the arguments of a directive, which are passed over by counting (`ArgEndWithin`).
* `CountsSuffice` (`CountsForStarts`): `%rpe` asks about starts and takes from counts; the
  invariant `RepInv` gives the lengths of both in every mode of `preprocess()`, and why
  the count of a repetition of none is not there while its section is passed over.
* `LabelsInRange` (`SpecialLabelsInRange`): `current_label` is the last place in `labels`, a
  list that only grows, so a place written into a token stays one (`LabelInv`).
* `FilesAfterErrors` (`SavedWithoutErrors`), by `SaveInv`: no step touches a file after an error
  was reported, of a phase or of saving; symbols are written only after a write of the
  output that was taken, whole or in part; a run that leaves a file empty has reported
  an error.  It does not say that the output is whole, which is not so (see [other
  divergences](#other-divergences-met)).
* `OutputHoldsResult` (`OutputReadsBack`): for every format, rows left out and the
  declared number of bytes give the result back.  `FormatInv` relates rows, count and
  the words still to come.

The last of these assumes `[]TypeOK` of the same specification, which the run checks: that the
result is a sequence hangs on the value of `%adr`, an expression that is evaluated by recursion.

`WordsProofs` has the facts about numbers of 16 bits that the others cite: `Word16` as an
interval, what `&`, `|` and `^` of words are bounded by, and that a set of numbers has a least
one, from which an induction over one set follows (`InductionOverSet`).

`EncodingProofs` proves of every instruction that the verifier lets through (`WellFormed`, the
table of patterns), with any register and an immediate of any size:

* `EncodedIsWord`: its encoding is a word of 16 bits, as no field reaches into the next;
* `RoundTrip`: dasm prints the word under the name it was written with, and sasm makes the
  same word of what is printed, but for mlu and mls of registers (see [other
  divergences](#other-divergences-met)).  The proof goes through the formats: for each, the
  fields of the word, the row of dasm's table that they select, and sasm's encoding of that.

`IsaProofs` proves for any programs that the verifier lets through and any words in the
registers, from `JobsAssumption` and, of lines read back from the disk, `BootLinesAssumption`:

* `WordsStayWords` (`TypeOK`), by `IsaInv`: no operation, load, flag or port makes a register more
  than a word.  It holds the ports, the disk and the prefix besides the registers, as a word that is
  loaded has come through them.
* `ConditionsDecide` (`SignedConditionsDecide`): flags of a comparison decide the signed
  conditions as the numbers are, for all pairs of 16 bit words, by arithmetic on the four
  cases of signs.
* `WordsArePrinted` (`DasmReassembles`): where the word about to be executed is the one that sasm
  wrote (`Untouched`), dasm prints it as that instruction.  The condition is needed, as a
  program may store over itself.

`WrittenProofs` proves, for the same programs and words, that cosi on the words of sasm does
what is written: `ExecutesAsWritten`, `Spec /\ []Orderly => ImplementsWritten`.  `Orderly` says
what a program must keep to for that, at each instruction it comes to: ip is at one of its
instructions, whose word is still the one that sasm made of it (no store went over it); it is
not a word of data; and each label or distance fits its field, or the prefix before it is what
the field leaves out.  These are the cases in which what is written has no other meaning: a
short field that drops a part of an address makes another address of it, and no warning
of sasm is an error unless asked for.  The hypothesis is not an empty one: in the instance of
`isa` every state of every program without a `ddw` meets it (TLC was asked), and on all of
its programs TLC checks `ImplementsWritten` without it.  The argument, in the order of the module:

* `ComputesAsWritten`: for all pairs of words and every operation of two operands, the word that
  `instruction_execute()` computes, from cut sums, an unsigned product and the operators of C, is
  the one `WrittenProgram` gives, from numbers with a sign and sets of bits.  A word is the sum
  of its bits (`Sum16`, by halves, so that no induction is needed), and shifts and masks
  are moves and restrictions of the set.
* From the format of each instruction, the fields of its word and hence the action of cosi that
  takes it (`FieldsDecide` and the lemmas before it); its operands are what the fields hold, and
  a distance that sasm made of a label leads back to that label.
* Conditions: the flags decide as the numbers do (`ConditionsDecide`) and as the last result does,
  which is an invariant of its own (`ResultDecides`, lemma `ResultsDecide`): z and s
  are those of the last result shown, as instructions that set flags show what they computed and
  all others leave both alone.
* An instruction at a time, the action of cosi is the step that is written, and
  `NextIsWritten` joins them.  It needs besides that the program stays what it was (`ProgramOK`) and that
  the disk is the program's image (`DiskIsImage`), as `prd` reads from it.

`HeliumProofs` proves for any programs of words (`ProgramsAssumption`):

* `RequestsMeet` (`RequestsMeetIdle`).  `InStep` says that `send_req` is down in all cycles
  of a request but the first, that the driver is busy only then, and that the
  lines that ask for memory stay as they are meanwhile.  The lemma `LineStays` is where the
  design shows: the CPU does not latch its request, and the same request is still on its wires
  only because no register behind them moves before `advance`, though several of them
  do not wait for it.
* `WholeWords` (`WordsArrive`).  `InPhase` gives for each state of the driver the state of
  the device, who drives the bus and what is latched by then at both ends.
* `RegistersHoldWords` (`TypeOK`), by `HeliumInv`, which adds to the two above: what the driver does
  is what the cycle asks for (`KindOK`), as the CPU takes a word when the driver is ready whatever
  it was doing; only bytes are on the bus and in the device (`BytesOK`), and never a floating
  bus where one is latched; what is decoded in the second cycle is a line of the microcode or a word
  of the program (`MicroOK`, `FetchedOK`), so that the counter of the microcode stays in its
  table.  None of these is inductive without the others.
* `MemoryIsSeen` (`MemoryAsPromised`): the part of `ImplementsProgram` about memory, of any program
  and not only of those that keep to the contract.  Each edge either takes a store, which is then in
  `MemoryView`, or leaves `MemoryView` as it is, through all the edges at which the device changes its
  array by halves (`ArrayChanges`, `ViewChanges`); what is fetched or loaded is its word at the
  address (`ReadBrings`).  That address is not latched for the translation, so the proof needs that it
  stays while a request is out (`AddressStays`).  In a fetch it does for a reason that is not plain in
  the code: page table registers are written at every edge by whatever is in the place of the
  instruction, which is the one before, a word of microcode seen by the decoder of programs, or a
  floating bus.  `PagingSettled` says that none of these begins paging there.

Only model-checked:

* liveness: `ReadyAgain`, the fairness half of `ImplementsAtomicMemory`, both `Terminates`,
  `Ends` (out of the prover's reach);
* `ExpandsAsDocumented` and `ReferencesMeetLabels`, whose reference is recursive, and `TypeOK` of the
  assembler, which needs the shape of every statement after `verify()` and the type of what the
  evaluators, recursive functions over the operators, return;
* `ImplementsWritten` where a program is not `Orderly`, so where it runs into words of data;
* `ImplementsProgram` of helium but for memory: the invariant would have to give the value of every
  register at every line of the microcode, not only its kind.

## What is not modelled, and why

* The RAM control registers of documentation/memory.txt: no code has them.
* Analog and timing facts (set-up times, metastability, the clock generator): VHDL
  below the level of clocked states.  The divider of `mem.vhdl` on the board (without
  `sim`) stretches each state of the driver over several edges; the model has the build
  of the simulation with the slow memory, where a state is one edge.  The models of
  `sim_fast_ram` and `sim_fast_flash` are tables.
* The command line (`input.cpp`, `config.cpp`): it fills in options, of which the format,
  the promoted warnings and the defines are part of a job.  `string_help.cpp` is
  the documentation that `AsmReference` is made from.  `%inc` (another file in place of
  a line), hexadecimal, binary and octal numbers, and the wording of messages.
* cosi: the debugger and the instruction limit of `main.cpp`; the refusal of a port without
  the io privilege, which `Processor` always has; the interrupt masks and the
  identification registers, which decide nothing.  `irt`, `int`, `crd` and `cwr` are in `Cosi`.
* The main loop of dasm: it reads words and calls `disassemble`.
* helium: reset and external interrupts (tied off), the copy from flash at boot, the
  flash driver, the timer (not connected), the screen.  `hlt` is invalid there.
* os.sasm as a program, and the video card: planned.
* The test runner and the utilities: they run the other tools and compare files.

## Other divergences met

No run is kept for these.  The models do what the code does, and no passing run has an
instance on which it would break a property, as said above.

* cosi: INT 0 to 127 needs no privilege (`instruction.cpp:411`; ISA.txt:801 asks for
  one).  The overflow flag of ADD is computed as that of a subtraction
  (`instruction.cpp:333`; ISA.txt:503).  A write to the disk data port only moves the disk address
  (`io.cpp:157`).  Opcodes 5 and 6, invalid, fall through to `lop`
  (`instruction.cpp:448-458`).
* sasm: `%assert` that holds is passed over by line number, so in a repetition only
  the first copy is looked at (`code_gen.cpp:143`).  A write of the
  output or of the symbols that takes a part of the bytes is taken for a whole one, so a cut
  image is left behind without an error (`save.cpp:367`, `save.cpp:410`; the comment at
  `save.cpp:16-19` has the function do error handling).  A repetition of none inside another pops the
  starts of the one around it (`preprocess.cpp:351`).
* dasm prints mul and INVALID for mlu and mls of two registers.
* helium, privileges: the line for privileged instructions is made from those of fin and irt
  (`decode.vhdl:172`), so only irt is ever refused.  A refused store is performed all the
  same, since `mem_we` does not look at `int` (`cpu.vhdl:183`).  irt lowers the privilege
  when it *was* there (`cpu.vhdl:471`).  A fetch from a page without execute permission or
  line is saved in `int_saved` and interrupts the microcode that fills the line
  (`cpu.vhdl:525`).
* helium, interrupts: they are enabled from the start (ISA.txt:664 and 806 have them off), and
  with px 11 as it is a handler returns only after it wrote px 11 or by enabling
  interrupts and jumping.
* helium, paging: a miss between the write of px 0 and that of the pid fills the line for
  the new pid and misses for the old one for ever.  The flush reaches pages 0 to 23 of 32
  (`x2E` at microcode line 32).  A refill changes the
  flags, so a `cmp` and its jump on two sides of a page are not safe.  A prefix never extends a
  jump, as `prev_ui_xwr` is never assigned.
* helium flash: a write waits for a count that nothing changes (`flash.vhdl:145`); the
  fast model swaps the bytes of a word.

## Plan

Done: the RAM module, cosi with its proofs, the assembler, the instruction set with io and the
disassembler, helium with its memory.  Next, in this order:

1. **Flash** (`flash.vhdl` with the stub of `ghdl_stub.vhdl`): the SPI machine and the CPU's
   ready; every request is answered, for which `state_write_en_2` is expected to
   be a counterexample.
2. **VideoCard** with the screen driver: no accepted write is lost, rows and columns move
   together, a frame ends.
3. **OperatingSystem**: os.sasm as the program of `Cosi`: the saved context of the
   interrupted process, nested faults, `FlushOnSwitch` as a property instead of a contract.
4. **Proofs**: `TypeOK` of the assembler, from the shape of statements after `verify()`;
   `ImplementsProgram` of helium, from the values of the registers at each line of the microcode.
