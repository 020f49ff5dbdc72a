# A TLA+ model of determinant

determinant is a RISC-V virtual machine (RV32I with M, A, C, Zba, Zbb, Zbs and Zicsr)
written in Zig, with a library for embedding it and a command-line program that runs
ELF executables and flat binaries. Its promise is determinism: the same program, input
and limit give the same states, output and digest on every host. This directory holds
the TLA+ modules that model it and the Python tools that test it (mutation testing, and
differential testing against Spike), the TLC configurations that check them, and the proofs
that TLAPS checks. Paths such as `src/cpu.zig` and `tools/mutation/mutate.py` are relative to the repository.

## 1. Inventory

| Component | State | Operations | What makes it correct |
|---|---|---|---|
| VM core `src/cpu.zig`, `src/cpu/exec_i.zig` | the struct: pc, regs, memory, cycle_count, reservation, mscratch, decode_cache, stop_pc | init, reset, loadProgram, read/write of registers and memory, clearReservation, fetch, step, run, runFor, describeFault | the cache never shows; a fault changes nothing; a store to the reserved word drops the reservation; x0 is zero; a bounded run returns, and not past its bound |
| Snapshots `src/cpu/state.zig` | none; 164 bytes of header and the memory | writeSnapshot, restoreSnapshot, stateDigest | what is written can be restored; what is restored satisfies the struct's invariants, also from a foreign or cut-off stream |
| Instruction semantics `src/instructions/*.zig` | none | execute of rv32m, rv32a, zba, zbb, zbs; Csr | the arithmetic of the ISA at the edges: division, mixed-sign products, rotations by zero, counts of zero, orders |
| Decoder `src/decoders/*.zig`, RV32C expansion | none (tables) | decode | both decoders agree; only defined encodings decode |
| Host-call ABI `src/hostcall.zig` | Env.input_pos; two writers | handle: read, write, exit | input is delivered once; output is what the guest asked for; only a0 and the buffer change |
| ELF loader `src/loader.zig` | none | parse, segments, loadElf | a rejected image changes nothing; segments, then zero fill, in order |
| Command line `src/main/args.zig` | locals of parse() | parse | what is accepted is what the arguments say, and fits the memory |
| CLI `src/main.zig`, `src/main/load.zig`, `report.zig` | two buffered streams, report sections | command, runProgram, execute, traceRun | output appears in the order it was produced; lost output is never status 0 |
| Listing and dump `src/main/disasm.zig`, `dump.zig` | none | printListing, dumpMemory | the text stands for the bytes |
| Mutation driver `tools/mutation/mutate.py` | on disk: the exported tree, `.mutation-in-progress.json`, `.zig-cache` with its baseline mark, the results file; in memory: the file's original bytes, the cache snapshot | run, --check, --report; recover, baseline, mutate, build twice, restore, prune, append | no source text is lost to a kill; a recorded verdict is true of its mutant; the report is true of the results; a resumed run repeats nothing decided and leaves out nothing else; a run ends |
| Spike generator `tools/spike_diff/gen.py` | reserved and noread registers, the loop being emitted | one method per category of item, program | two correct machines cannot end differently on a generated program |
| Spike campaigns `pipeline.py`, `fuzz.py`, `encsweep.py`, `directed.py` | files per program, over invocations; the log and counts of one | setup, build, run_spike, run_runner, compare | exit status, log and kept files are those of what the programs did |
| Spike trace `tools/spike_diff/trace.py` | dregs, ctr_off | align two logs | the first thing it reports is a difference of the machines; it passes over none in a register that Spike wrote last |
| Other tools `tools/` | none | LLVM oracle, decoder check, benchmarks, coverage, runner | (not modelled) |

How they interact. In the program everything is a call in one thread; there is no shared state
between threads and no callback. The host calls the machine; the machine calls the decoder and the
instruction semantics; `handle()` and `loadElf()` are hosts of the machine, the CLI is a host
of all three. The machine cannot defend its public fields: a host may write `memory`, `pc`
and `regs` directly between two calls.

What is hard. The order of the host's calls is unknown, and stale data lives between them: the
decode cache over code that was overwritten, the LR reservation over a word that was
overwritten, `stop_pc`, and the state `describeFault()` reads again after a fault. Failures
come in the middle: an instruction that has already read a CSR or memory and then faults, a
snapshot stream that ends inside the memory image, a writer that fails during a guest write.
And there are edges: the last halfword of memory, address wrap-around, the cycle counter
near 2^64, sizes near 2^32.

The tools are the opposite: little arithmetic, but processes, files and time. They meet each other
and their own earlier invocations only through files. The mutation driver changes the sources it
tests, runs builds that may never end, in a cache that outlives it, and may be killed or
interrupted between any two file operations. The campaigns run Spike and assemblers in worker
processes, in a directory where earlier invocations left files of the same names. The generator
must keep its random programs within what Spike and determinant promise alike (counters differ,
reservations differ after a store) with nothing but two sets of registers.
`PROJECT.json` lists each of these under "hazards".

## 2. Modules

    Words <- Isa <- Cpu <- HostCalls          Args       Cli
                        <- Loader
                 <- Hart (abstract; an INSTANCE of it in Cpu)
    Words <- AluOps      (the computing instructions; the branch conditions are in Words)
    Verdicts <- ZigBuild <- Mutate -> Mutants
    Pipeline <- Campaign      Gen      Trace         MCSpikeDiff composes the three
    MCMachine, MCCpu <- MCHart, MCX0, MCHost, MCAlu, MCCommand, MCMutate, MCSpikeDiff: instances for TLC
    MCHost composes Loader and HostCalls, MCCommand composes Args and Cli
    Cpu <- CpuProofs <- LoaderProofs (-> Loader), HostCallsProofs (-> HostCalls)
    MCAlu <- AluProofs    Args <- ArgsProofs    Cli <- CliProofs    Mutate <- MutateProofs
    Trace, Campaign, Gen <- SpikeDiffProofs

(`A <- B`: B extends A; the modules `..Proofs` hold the theorems of section 5.)

* **Words**: bytes of BYTE values, halfwords and words of two and four bytes, wrapping addition, sign
  extension, little-endian loads and stores, and the conditions of the branches. The real machine is
  BYTE = 256; nothing in the model depends on that number.
* **Isa**: the instruction record, the opcode classes, the CSR address classes, and the two parameters
  of the machine: `Decode`, the decoder, and `Alu`, the result of a computing instruction, with what the
  machine relies on as assumptions.
* **AluOps**: `Alu` as the code computes it, opcode by opcode. `And`, `Or` and `Xor` are the word with
  the bits they should have, put together by `FromBits`.
* **Cpu**: the struct is the record `vm`, a method is an operator from struct to struct with the
  method's checks and assignments in the method's order. A method that can fail returns the struct as
  far as it was written, so what a fault leaves behind is computed. The actions are the calls of a host:
  `Reset`, `LoadProgram`, `Write`, `WriteReg`, `SetPc`, `PokeMemory` (a direct write of the field with
  the clearReservation() it obliges the host to), `ClearReservation`, `WriteSnapshot`,
  `RestoreSnapshot`, `Step`, `Run`, `RunFor`, and the two ways `RunLimit` and `RunStep` through one
  iteration of run()'s loop. `call` is the run() in progress, `ret` what the last call returned, `image`
  the last snapshot the host wrote.
* **Hart**: the specification of the machine in SEMANTICS.md: the same state without cache and
  `stop_pc`, each instruction as one atomic effect written independently of the code's steps.
* **HostCalls**: `handle()` after an ECALL, with the actions `Exit`, `RejectedCall`, `WriteOk`,
  `WriteFailed`, `ReadOk` and `Unknown`, composed with every call of Cpu in between.
* **Args**: `parse()`, one action per iteration of its two loops and one for the checks after them. An
  argument is a sequence of lexemes (`--memory`, `=`, `8`, `KiB`), so that a value may be any of them,
  `--` and options included.
* **Loader**: `loadElf()`: `LoadElf` is the call with the header checks, and each visit of a program
  header in one of its three loops is a step (`OtherSegment`, `Reject`, `Accept`, `Copy`), as is the end
  of a loop (`LoopEnds`). It extends Cpu, so the machine it loads into may be in any state. A file is
  the record of its fields and bytes.
* **Cli**: `main.zig` as the writes and flushes it makes on its two buffered streams. Each function
  queues the operations it makes in `todo`; `Io` performs the next one and `IoFails` lets it fail, with
  the handler that the code has at that place. A piece of output is the number of the write that made
  it; the machine is its outcomes (limit, EBREAK, ECALL with any host call, fault).

* **Mutants**: the catalogue: its checks, the application of edits (an anchor must occur exactly
  once, in the text the edits before it left), the selection of ids. A text is a sequence of
  pieces, an anchor one piece.
* **Verdicts**: how a build's output becomes a status (the suites by position in the summary, the
  cross-checks with failing tests and commands), how two statuses become one, and what the report
  counts: `order` is the report's list, in which an item is an entry of the catalogue with its result,
  so an id that is listed twice is there twice, and `summarize` counts items.
* **ZigBuild** (external): what `zig build` prints and leaves in its cache for a source of a given
  behaviour, finished or killed, with the two hazards `mutate.py` defends against: a cache
  copied from elsewhere that answers for a changed source, and a manifest whose artifacts are gone.
* **Mutate**: the driver. One action per file operation (an `open(.., "w")` truncates, the write is
  the next action) and per build; `Interrupt` unwinds through the finally clause when it comes in
  the try, `Kill` does not; `OrphanEnds` is the build a killed driver left running. `truth`,
  `halfPruned` and `early` are outside the code: how the sources really behave, and whether one of
  two windows described in section 4 was hit.
* **Gen**: every line the generator emits is executed at once on an abstraction of both machines,
  in which a register is equal on both, an absolute counter (unequal), a pointer with its range and
  alignment, or a known count. An item is an action, an LR/SC or counter item one per part,
  because `reserved` and `noread` change in between; every random choice is a `\E`.
* **Pipeline**: the checks of `setup()`, what build and Spike leave of a program's files, and
  `compare()`, `compare_configs()` as the sets of differences they return.
* **Campaign**: the loops of the three scripts over batches and workers: `WriteAsm`, `Build`,
  `BuildFails`, `StartSpike`, `SpikeEnds` per program, `RunRunner`, then `Compare` or `CompareFailed`
  in order and `EndBatch`. A file is the number of the invocation that wrote it. What a program
  does on the machines is chosen when it is compared.
* **Trace**: the loop over the two logs; both machines take the next step, the logs show of it what
  they show. `checked` is outside the code: which registers a comparison has covered, and whether one
  has been changed since.

Operators whose name has an underscore and a capital (`writeReg_NoZero`) are deliberately wrong
variants of the definition they stand before. No specification uses them: each is what a
plausible slip in that code would be, and with it in place of the original a property fails.
`PROJECT.json` pairs them with properties under "mutants".

## 3. Runs

| Run | Module, cfg | Question |
|---|---|---|
| memory_system | MCCpu, MCCpu.cfg | Guest loads, stores, atomics, CSRs, jumps and faults interleaved with host writes, resets, and good, malformed and cut-off snapshots: are the struct's invariants kept, faults atomic and explained, a reserved word never changed under its reservation? |
| hart | MCHart, MCHart.cfg | Does the machine implement Hart, for every instruction of the encoding, for code that overwrites code already cached, and over runs? Do run() and runFor() stop at their bound, also where the counter saturates or wraps, and return at all? |
| host | MCHost, MCHost.cfg | Does a rejected image change nothing, is an accepted one in place, is `catch unreachable` unreachable? Is input delivered in order and once, by reads that stop in it, reach its end and come after it, output what the guest asked for, and nothing else touched, with good and bad arguments and a failing writer? Do loading and host calls drop the reservation of a word they write? |
| alu | MCAlu, MCAlu.cfg | Do division, products, shifts, rotations, byte permutations, single-bit operations, counts and orders agree with reference definitions (division as the quotient and remainder laws, high products as halves of the exact product, shifts and rotations bit by bit, the orders of SLT, MIN/MAX, the AMOs and the branches with each other)? ADD, SUB, the logic operations and SHxADD are not compared: each is one operator of Words or of the bits. |
| command_line | MCCommand, MCCommand.cfg | Is what parse() accepts what the arguments say, and does it fit the memory? When command() goes on with it, does output arrive in order, does lost output show in the exit status, is a failure reported? |
| mutation | MCMutate, MCMutate.cfg | Up to three invocations, with two kills, interrupts or timeouts of good builds at any point: is the tree recoverable, is every recorded verdict true (each but for the exceptions in section 4), is the report true of the results, does --resume repeat only what has no verdict (or what the command line names twice) and leave out only what has one, does every invocation end? |
| spike_diff | MCSpikeDiff, MCSpikeDiff.cfg | Can a generated program tell two correct machines apart or leave its data region? Do exit status, log and files of a campaign tell what its programs did, whatever an earlier invocation left? Does the trace script report only real differences, and pass over none in a register that Spike wrote last? Do all of them end? |
| fault_after_x0_write | MCX0, MCX0.cfg | Violation: see findings. |
| help_after_dashes_value | MCCommand, MCCommandHelp.cfg | Violation: see findings. |
| host_write_partial | MCHost, MCHostPartial.cfg | Violation: see findings. |
| interrupt_before_marker | MCMutate, MCMutateEarly.cfg | Violation: see findings. |
| trace_passes_over | MCSpikeDiff, MCSpikeDiffTrace.cfg | Violation: see findings. |

Every run switches deadlock checking off: the host may stop calling, and the bounded runs end.

**Bounds, and why they are enough.** The machine of the runs has 2-bit bytes (BYTE = 4), so 8-bit
words, 12 or 16 bytes of memory, and 3 or 6 registers. A word still has four bytes, addresses
still wrap (252 is 4 below zero), memory still ends inside the address space, and there are
aligned and misaligned addresses on both sides of its end, which is what the checks tell apart.
`MCMachine` gives this machine an encoding with 26 long and 8 compressed instructions, at least
one of each class of `execute`. The decode cache has 2 slots, so different code shares a slot.
CountMod is 6 in hart, so that the counter wraps within a run, and larger elsewhere, so that
it does not hide other states. MaxCalls is 6 in memory_system and in the first suite of hart: load, set
a register, and four free calls, which is LR, a store by someone, an SC or a snapshot, and a look at the
result. The second suite of hart, for run(), has no bound but the limits and programs. host has two
suites too: loadElf() of every ordered pair of some hundred segments, after any one call, and 12 calls
around a guest's host calls: five to set up, then two complete host calls with a change of argument
between them, among which a0 := 0, so that after a read of 2 bytes (which leaves 2 in a0) a second one
gets the rest of the input of three, or nothing is left for it after a read of 3 or 5. command_line
has every vector of up to three arguments and longer ones of the arguments whose order matters; for
the vectors with every combination of the options that steer the output (and help, no arguments and a
refused one) it goes on into command(), with buffers of two pieces, four host calls and up to three
trace lines per run, so each buffer fills, and both hold output at once.

mutation has a tree of two files and catalogues of two mutants of the same file, one with two
edits of which the second anchors in what the first wrote; a newer catalogue that moves an id to
another file; and six catalogues the driver must refuse (--report reads five of them, the one with an id listed
twice included). A mutant passes, fails the unit suite,
fails only a digest run, does not compile, does not compile for compliance and fails the unit suite, or
fails the cli suite and hangs in compliance; the run
takes three pairs in which each occurs. Three invocations and two faults are a run stopped in a
mutant, a run stopped in its recovery, and one that finishes. spike_diff has x0, the link register,
the stack pointer and two registers compressed instructions can name; blocks, loop bodies, trips
and windows of up to two, so that an item of each kind meets one of each kind, inside a loop and
after a jump; the mix with every category, of which the others are subsets. Two programs, in one
batch or two, and two invocations are enough for a stale file. The trace compares three steps of
two registers with values 0 to 2: one to learn, one to set the counter offset, one to apply it.

**Fairness.** RunReturns has weak fairness of one iteration of run()'s loop: run() is a loop in the
host's own thread without a wait in it. InvocationsEnd has weak fairness of the driver's steps: each
is a file operation or a build, and `run_cmd` bounds the build by its timeout and kills the process
group. ScriptsEnd has weak fairness of the generator (a loop of its own), of the campaign's own
steps (run_spike has a timeout, the runner executes at most MAX_STEPS) and of the trace. No
fairness makes anyone start a tool or stop one.

## 4. Findings

* **regs[0] and faults.** SEMANTICS.md says a fault leaves all registers as they were, and `src/cpu.zig`
  that it leaves the whole VM state. step() zeroes `regs[0]` after decoding and before executing. If the
  host wrote that field (which a comment and a test expect of hosts), a faulting instruction changes it,
  and with it the digest. Run fault_after_x0_write. Without such a host the promise holds and is proved
  (FaultsAreAtomic).
* **`--input -- --help`.** The first loop of parse() stops at `--`; the second takes it as the value of
  `--input`, then meets `--help`, whose arm is `unreachable, // handled above`. Run
  help_after_dashes_value.
* **A write that fails half-way.** `docs/design/host-calls.md` says a write is all-or-nothing. handle()
  gives the buffer to `writeAll` of the host's writer, which may accept a part and then fail. Run
  host_write_partial. OutputIsGuestMemory states what does hold: all of the buffer if the guest is
  resumed with the length, a beginning of it if the writer failed, and then a0 is as it was.
* **An interrupt before the marker is written.** A signal between the `try` of run_mutant and the end of
  the marker's write (`early`) makes the finally clause rewrite, and so truncate, a file that was not
  mutated; a kill or a second signal before the bytes are back leaves it truncated with no whole marker,
  although the README of the tool says the next run restores it. Run interrupt_before_marker. The text
  is then only in the export. It is the exception of RecoverableTree and one of VerdictsTrue: a later
  run of another file's mutants in that tree, which --fresh-cache starts without a baseline, can record
  a COMPILE_ERROR that is not theirs.
* **What trace.py passes over.** It compares a register only when Spike's line of the step names it and
  the runner has shown it before. A register that only determinant writes later is not compared, nor one
  that Spike wrote before the runner first showed it, so "the first step at which a register write
  differs" can go unreported. Run trace_passes_over. TraceSound claims the registers that were compared.

Observed while modelling the tools; the properties make an exception for each, or do not speak of it.

* --report does not check the catalogue, and its `order` is a list over the catalogue: an id that is
  there twice counts its one result twice, in the total, the kills and the denominator, although
  `mutate.py` says the last result per mutant wins. A run refuses such a catalogue, so it takes one
  edited after the run. ReportTrue claims the three counts for catalogues that list no id twice, and
  the rest for all.

* A kill between the open and the write of the marker leaves an empty marker file, and the next run ends
  in a traceback of `json.load`. The source itself is untouched; removing the file helps.
* A stop inside restore_cache, after the entries and before the manifests, leaves a manifest that
  describes a mutant whose artifacts are gone (`halfPruned`), under a valid baseline mark. That mutant
  can then be recorded as ERROR or KILLED; --fresh-cache or deleting the cache helps. It is the other
  exception of VerdictsTrue.
* After a second Ctrl-C inside the finally clause the driver still prints "interrupted; the mutated file
  was restored". The marker is there, so the next run restores it.
* A failed baseline, and a --no-baseline run, leave an unmarked cache which later runs refuse until it
  is deleted.
* `--ids P01 P01 --resume` runs the mutant twice: select() keeps the repetition and the set of done ids
  is read once, before the loop. ResumeExact makes the exception.
* A trap on Spike against an instruction that retires on determinant makes trace.py print the step, then
  "no divergence", status 0.
* encsweep.py takes a compressed access at its base register and excuses up to 256 bytes above the load
  address, so accesses near that line may be excused or not (`"near"` in Campaign; the exception of
  VerdictSound).
* A mutant that fails a suite of `test` and does not compile for compliance is KILLED if the second
  build times out, else COMPILE_ERROR, which the score leaves out: overall_status lets a compile error
  of either build decide.
* After a failed build the `.elf` and `.bin` of an earlier invocation may stand beside the new `.s`.

## 5. Proofs

Every theorem below is proved for every value of the constants its module's assumptions allow; the
run that checks the same property shows it on one small instance and has a mutant that breaks it.

### The machine (CpuProofs)

For every BYTE that is a multiple of 4, every memory size, register count, cache size, decoder, ALU and
set of host calls:

| Theorem | States |
|---|---|
| TypeCorrect | Spec => []TypeOK |
| ReservationAlwaysValid, X0AlwaysZero, CacheAlwaysCoherent | Spec => []ReservationValid, []X0Zero, []CacheCoherent |
| SnapshotsRestorable | Spec => []ImageRestorable |
| StopAlwaysNamed, FaultsAlwaysExplained | Spec => []StopPcNamesTheStop, []FaultExplained |
| RunsWithinLimit | Spec => []RunWithinLimit |
| FaultsAreAtomic, GuestKeepsPcEven, ReservedWordKept | Spec => FaultChangesNothing, GuestPcEven, ReservedWordStable |

*The inductive invariants* are `Inv == TypeOK /\ VmInv(vm) /\ ImageRestorable /\ RunQuiet` and, on top
of it, `Told`. None of the invariants is inductive alone: a fault is atomic only because x0 is zero
already when step() zeroes it; a cache hit returns the right instruction only because every slot is
coherent; the snapshot written next is restorable only because the reservation is valid now. `VmInv`
states these of any struct, so that it can be carried through the operators. `RunQuiet` says that
`ret` carries no error while a run is in progress. `Told` is `RunLoop` (the counter is where the
call of run() found it, or past that and within the limit; the limit of runFor() is the one it computed) with
StopPcNamesTheStop and FaultExplained: what describeFault() decodes again is what step() met only
because the fault left the state alone, so FaultExplained needs FaultsAreAtomic's lemmas.

*The argument.* The section "Words" has the facts about words: ranges of remainders, of little-endian
reads and stores, of sign extension. One lemma per operator says that it maps a struct with VmInv to
one with VmInv, and when it returns an error, to the same architectural state: WriteRegInv, the lemmas
on write, loadProgram, fetch (FetchType: the bits are never those that mark an empty slot),
DecodeCachedCorrect, one for each execute function, StepOK, and one for restoreSnapshot. The invariance
proofs then have a step per action. That pc stays even rests on the even offsets of DecodeAssumption and
on JALR's clearing of bit 0; that a reserved word stays, on the overlap test of each write.

*The refinement*: MachineImplementsHart, Spec => ImplementsHart. The initial states map to initial states; for
a step of the machine, one lemma per class of instruction shows that execute's checks and writes, in
the code's order, give the effect that Hart states at once, or the same error and no effect. The
cache and stop_pc are not visible to Hart: by CacheCoherent a hit decodes to what Hart decodes.

### The computing instructions (AluProofs)

For every pair of operands and every byte of two to eight bits, so words of 8 to 32 bits, the program's among
them; TLC checks the 8-bit words only:

| Theorem | States |
|---|---|
| DivisionAlwaysExact | Spec => []DivisionExact |
| ProductAlwaysWhole | Spec => []ProductHalves |
| BitsAlwaysMoveTo | Spec => []BitsMoveTo |
| CountsAlwaysAgree | Spec => []CountsAgree |
| OrdersAlwaysAgree | Spec => []OrdersAgree |
| ResultsAreWords | every computing opcode maps words to a word |

The inductive invariant, `AluInv`, only says that the operands are words; the argument is arithmetic. A
quotient and a remainder are the only numbers with x = d * q + r and r below d (DivIs), from which come
two divisions after one another (DivTwice), the signed word behind a wrapped one (SignedWrap), the upper
half of a product (UpperHalf) and the quotient that fits or is the one that overflows (QuotientFits). A
word is its bits (SameBits, WordIsBits), and each operator places them: BitShr, BitShl, BitNot,
BitSigned, FromBitsIs for the bitwise operators, ByteBits and FromBytesBits for the byte permutations.
The instructions of BitsMoveTo and CountsAgree then follow position by position. OrdersAgree relates
SLT/SLTU, MIN/MAX, the AMOs' and the branches' orders through the signed value of a word below and above
the sign bit. ResultsAreWords is what the machine's AluAssumption asks, so the theorems about the
machine hold for the code's ALU; that no result is `Illegal` is part of it. The facts for every number
of bits (Pow2Step, Pow2Add, FromBitsIs, SameBits) need induction: Induction derives it from the
well-founded order of the naturals, for a set of numbers instead of a predicate.

### The loader and the host calls (LoaderProofs, HostCallsProofs)

LoaderProofs, for every file, header table and memory: RejectedImagesChangeNothing ([]RejectedUnchanged),
LoaderNeverUnreachable ([]NeverUnreachable), LoadedImagesInPlace ([]SegmentsInPlace) and
LoadingKeepsReservedWord (ReservedWordStable of the composition with Cpu). `LoadInv` says what each of the
three loops has established for the headers before its index: the first that they fit the file, the
second that they fit the memory, the third that a byte of memory is that of the last copied segment that
covers it. The write never fails because the second loop checked the same bounds for the same header,
a whole loop earlier; nothing in the third loop says so.

HostCallsProofs, for every program, memory and input: InputIsReadOnce ([]InputReadOnce),
HandleAlwaysLocal, OutputAlwaysGuestMemory (all of the buffer if the guest resumes with its length) and
HostCallsKeepReservedWord (the action properties HandleIsLocal, OutputIsGuestMemory,
ReservedWordStable). `EnvInv` says that `received` is the first input_pos bytes of Input and that
input_pos stays in it. Both modules use CpuProofs' lemmas for the calls of Cpu in between.

### The command line (ArgsProofs, CliProofs)

ArgsProofs: AcceptedAlwaysFits ([]AcceptedFits), for vectors of any length, any width of the integers
and any suffix scale. `ArgsInv` says what the configuration holds while the options are read, before
it is checked as a whole (ParserOK, ConfigOK): a valid memory size, an even load address, a range that
parseRange() can return (RangeOK).

ConfigAlwaysMeansArguments ([]ConfigMeansArguments): what parse() returns for a run is what the vector
says, each option with the last text given for it, one program, nothing after `--` an option. The
property reads the vector by its own definition of what each argument is (Roles: an option, the value
the one before it takes, the terminator, a program), not by parse()'s index. `ReadInv` relates the two
before every iteration: the index is at no option's value, and the locals are what the arguments before
it say (Means, with a part for the flags, the numbers, the input and the dump). There is one lemma for
what an argument adds to the reading of a prefix and one for what `applied` adds to the configuration.

CliProofs: OutputArrivesInOrder ([]InOrder), OutputNeverLost ([]NothingLost), FailuresAlwaysReported
([]FailureReported), for every buffer size, number of trace lines and host calls, and failure of either
stream. InOrder speaks of what has arrived; `CliInv` speaks of the operations still to do: in `todo`, a
piece goes to one stream only where the other's buffer will be empty by then (Disciplined); what has
arrived with what is buffered is in order (Ordered), and, until a stream fails, every piece made (Exact);
a stream that failed shows in the status (Admitted); after a failure only the message is still written
(Failing), and it has arrived, is buffered or is to come (Announced).

### The tools (MutateProofs, SpikeDiffProofs)

MutateProofs, for every tree, catalogue, set of invocations, behaviour of the builds and any number of kills
and interrupts, has four theorems.

TreeRecoverable ([]RecoverableTree). *The inductive invariant* is `IInv`: unless an early
interrupt came, a changed file is the one a whole marker names (ChangedIsMarked); what the marker and the
driver's memory hold is the export's text (MarkerHolds, MemoryHolds); which marker exists at each point of
the driver (MarkerAt); and the file is back when the marker is about to go (RestoredAt). RecoverableTree
alone is not inductive: that the bytes written back are the right ones depends on what was read when the
file was still unchanged, several actions before. The proof has one lemma for each phase of a run (start,
recovery, between mutants, a mutant, a fault) over a few lemmas on steps that leave the tree alone.

VerdictsAreTrue ([]VerdictsTrue), for results recorded in a tree that was the export once the mutant was
taken out (Exported, of the tree with the file's original bytes put back), in a cache that no driver
left half pruned or that --fresh-cache set aside. It claims nothing for a tree that an interrupt before
the marker left damaged. A recorded verdict is true because the build ran on the export with exactly the
mutant's text in it, in a cache that answers for it. `CacheInv`: a cache from elsewhere is never marked
as the tree's own and no build uses one (GenuineAt); a manifest names artifacts the cache has, except
inside restore_cache (ManifestKept), and what the snapshot holds is never lost (SnapshotKept).
`ToldInv`: during a mutant's builds the tree is the export but for its text (Mutated), what is kept of
each build is its own end or a timeout (RecordTold, by `Tells`), and so is every result that counts
(ResultsTold). The lemmas on Verdicts show for every behaviour what parse_tree, analyse and
overall_status make of what such a build prints (Prints, VerdictSays).

ReportIsTrueOfMutants ([]ReportTrue): the report printed last is that of the results on disk (ReportIs),
and each item of its list is in the class its verdict names. The counts are of items (ItemsAre); they
are of mutants where the catalogue lists no id twice, because each result then has one item
(OneItemEach). That a decided result which is not stale is the mutant's own needs that its edits, and so
its text, are the catalogue's.

ResumeRepeatsNothing (ResumeExact): `ResumeInv` says that what a --resume run has still to do has no
verdict, and names nothing twice unless the command line did; what Remaining leaves out has one
(RemainingCovers). Remaining is described by its recursion and by Induction's argument (Rests, Kept),
since no library fact speaks of SelectSeq.

SpikeDiffProofs has one theorem for each part:

* TraceAlwaysSound, TraceSpec => []TraceSound, for every pair of logs, of the registers that Spike wrote
  after the runner's log had shown them and Determinant has not changed since. `TraceInv` relates what
  trace.py remembers of the registers to what the two machines hold, while nothing was reported.
* VerdictsAlwaysSound, CampaignSpec => []VerdictSound, for any programs, batches, workers and earlier
  invocations stopped anywhere. `CampaignInv`: for a program this invocation has still to compare
  (Left), its files are of this invocation as far as its job has come (Consistent); for one it has
  compared, count, log and files tell what it did (Told). A stale file is harmless only by Consistent,
  which relates the state of a program's job to the number on its files.
* ProgramsAlwaysAgree, GenSpec => []ProgramsAgree, for every set of registers, every mix, programs,
  loops and windows of any length and every random choice. `GenInv` says, between any two lines, that
  both machines agree where they must (Sound), that the base register holds the base (BaseHeld), what
  the loop counter, the address and the counter register hold inside an item (LoopHeld, AddressHeld,
  CounterHeld), that nothing outside `noread` holds a counter (CountersHidden) and that a reservation is
  held inside an LR/SC item and nowhere else (ReservationAt). Each line of gen.py writes one to four
  instructions; RunOne to RunFour unfold the execution for these lengths, and there is one lemma per
  kind of instruction, per item and per action.

### Assumptions

ByteAssumption, MachineAssumption (memory a multiple of four below the address space), CacheAssumption
(the code checks it at compile time), HostAssumption (types of the calls' arguments), DecodeAssumption
(the decoder returns an instruction that remembers its bits, with even offsets), AluAssumption (results
are words: ResultsAreWords, for the code's ALU), HostCallAssumption (the four registers and the call
numbers are different, the input is shorter than the address space), LoaderAssumption (a file's fields
say how long its parts are), CliAssumption, ArgsAssumption (integers; the default memory size is valid),
ArgvsAssumption (an argument is a sequence of texts, none of them the model's `null`), BitsAssumption (a
byte has two to eight bits), TraceAssumption (x0 is not traced), CampaignAssumption (no empty campaign,
no program in two places of it), GenAssumption (x0, ra and sp exist), PristineType (the export has the
tree's files), InvocationType, CatalogueType and BehaviourType (what argparse, the catalogue and the
builds can hand the driver), CacheType (a cache found in the tree was left by builds in it, or copied
and then not marked as its own), NullType and SummaryType (the values that stand for nothing are none of
the others). TLC evaluates each in a run for its instance.

### What proving changed in the model

HandleIsLocal takes the buffer of a read from how far the input moved, no longer from a0. ResumeExact
had no exception for an id given twice. Some CASEs (Excuse of Campaign, SetupError of Pipeline,
step_state of Verdicts) had guards that overlap, where TLA+ leaves the choice open and the code takes
the first: they are IF chains now, as the code's `if`/`elif` are. ReportTrue counted every mutant that
does not compile as a compile error: the proof met the one that fails a suite of `test` and does not
compile for compliance, which is recorded as KILLED when its second build times out and as COMPILE_ERROR
when it ends; the property now takes that one by its verdict, and the run has such a mutant. Recursion
is in functions (Remaining of Mutate, Pow2 and FromBits of AluOps in place of `^` and Bitwise) and what
the vector says is a function of it (Roles).

### Only model-checked, and why

* Liveness (RunReturns, InvocationsEnd, ScriptsEnd): the prover does not do fairness.
* That the project's decoder satisfies DecodeAssumption: it is not modelled (section 6); TLC evaluates
  the assumption for MCMachine's encoding.

Every safety property that a passing run checks is stated by a theorem.

## 6. Not modelled

The decoders and the RV32C expansion (the machine takes the decoder as a parameter); the flat
binary path of `src/main/load.zig`; the text of the disassembly, dump, report and help; the
compliance test driver.

Of the tools: the LLVM oracle, the decoder check, the benchmarks, the corpus digests, `coverage.py`
and `mkdtb.py`, each one pass over a fixed input; `mutants.py` and the bodies of the directed tests,
which are data; `check_tree` and `load_catalogue` of the mutation driver; Spike's clearing of a
reservation every 5,000 instructions, which the fuzz script only counts. Assumed: a line is appended to
the results file at once; --trust-cache is given only for a cache built from this tree; one driver
works on a tree at a time (tools/mutation/README.md); what stops a spike_diff script stops its process
group.

## 7. Plan

1. `Decoder`: field extraction, the branch decoder, the registry decoder, and their agreement;
   `Rv32c`: every halfword (2^16) through expand, against the immediates of the ISA, reserved
   encodings and hints. Both discharge DecodeAssumption by a run.
2. The flat-binary path of load.zig in Loader, with short reads; `Dump`: the collapsed lines against
   the memory they stand for, and the listing's walk over mixed-width code.
3. traceRun() composed with Cpu: a traced run reaches the states of run().
