------------------------------- MODULE Loader -------------------------------
(***************************************************************************)
(* The ELF loader of src/loader.zig on top of the machine.  loadElf() runs *)
(* through the program headers three times: parse() checks them against    *)
(* the file, then they are checked against the memory, then copied.  Each  *)
(* visit of a header is an action; the host makes no other call meanwhile. *)
(*                                                                         *)
(* A file is a record of its header fields, its program headers and its    *)
(* bytes, each read by the code with a little-endian read at its offset.   *)
(***************************************************************************)
EXTENDS Cpu

CONSTANTS
    elf_header_len,         \* 52
    program_header_len,     \* 32
    Files                   \* what the host passes to loadElf

VARIABLES
    elf,        \* the loadElf() in progress: its phase, file and index; its result
    before      \* history: the struct when loadElf() was called

loaderVars == <<vm, call, ret, image, elf, before>>

Segment == [pt_load: BOOLEAN, offset: Word, vaddr: Word, filesz: Word, memsz: Word]

\* riscv_exec: the magic, class, data encoding, version, type and machine fields
\* are those of a RISC-V ELF32 little-endian executable.
File == [len: Nat, riscv_exec: BOOLEAN, entry: Word, phoff: Word, phentsize: Half,
         phnum: Half, ph: Seq(Segment), bytes: Seq(Byte)]

ASSUME LoaderAssumption ==
    /\ elf_header_len \in Nat /\ program_header_len \in Nat \ {0}
    /\ Files \subseteq File
    /\ \A f \in Files : Len(f.bytes) = f.len /\ Len(f.ph) = f.phnum

-----------------------------------------------------------------------------

\* parse(): the checks before the loop.
headerInvalid(f) ==
    \/ f.len < elf_header_len \/ ~f.riscv_exec
    \/ f.entry % 2 # 0
    \/ f.phnum # 0 /\ f.phentsize < program_header_len
    \/ f.phoff + f.phentsize * f.phnum > f.len

\* The checks of a segment against the file and against the memory; the sums
\* are of u64.
segmentInvalid(f, s) == s.offset + s.filesz > f.len \/ s.filesz > s.memsz
outsideMemory_u32(s) == (s.vaddr + s.memsz) % WordMod > MemSize
outsideMemory(s) == s.vaddr + s.memsz > MemSize

\* The third loop: the file's bytes with loadProgram(), then @memset of the rest
\* and clearReservation(), both only if there is a rest.
zeroFill_Keeps(m, s) ==
    [m EXCEPT !.memory = [x \in Addrs |-> IF s.vaddr + s.filesz <= x /\ x < s.vaddr + s.memsz
                                          THEN 0 ELSE @[x]]]
zeroFill_Whole(m, s) ==
    [m EXCEPT !.memory = [x \in Addrs |-> IF s.vaddr <= x /\ x < s.vaddr + s.memsz THEN 0 ELSE @[x]],
              !.reservation = NoReservation]
zeroFill(m, s) ==
    IF s.memsz > s.filesz
    THEN [m EXCEPT !.memory = [x \in Addrs |-> IF s.vaddr + s.filesz <= x /\ x < s.vaddr + s.memsz
                                               THEN 0 ELSE @[x]],
                   !.reservation = NoReservation]
    ELSE m

fileBytes(f, s) == SubSeq(f.bytes, s.offset + 1, s.offset + s.filesz)

copied(f, s) ==
    zeroFill(loadProgram(vm, [at |-> s.vaddr, bytes |-> fileBytes(f, s)]).vm, s)

-----------------------------------------------------------------------------

NoFile == [len |-> 0, riscv_exec |-> FALSE, entry |-> 0, phoff |-> 0, phentsize |-> 0,
           phnum |-> 0, ph |-> <<>>, bytes |-> <<>>]

NotLoading(result) == [phase |-> "idle", file |-> NoFile, index |-> 0, result |-> result]

LoaderInit == Init /\ elf = NotLoading("none") /\ before = PowerOn

\* loadElf() returns an error, or the entry point.
Returns(result) ==
    /\ elf' = [elf EXCEPT !.phase = "idle", !.result = result]
    /\ ret' = Return("loadProgram", "ok", NoError)
    /\ UNCHANGED <<call, image, before>>

LoadElf(f) ==
    /\ elf.phase = "idle" /\ ~call.active
    /\ before' = vm
    /\ elf' = IF headerInvalid(f)
              THEN [phase |-> "idle", file |-> f, index |-> 0, result |-> "InvalidElf"]
              ELSE [phase |-> "parse", file |-> f, index |-> 0, result |-> "none"]
    /\ ret' = Return("loadProgram", "ok", NoError)
    /\ UNCHANGED <<vm, call, image>>

\* Segments.next(): the segment at index, if it is one to load.
segment == elf.file.ph[elf.index + 1]
AtSegment(phase) == elf.phase = phase /\ elf.index < elf.file.phnum /\ segment.pt_load
Visited == elf' = [elf EXCEPT !.index = @ + 1]

OtherSegment ==
    /\ elf.phase # "idle" /\ elf.index < elf.file.phnum /\ ~segment.pt_load
    /\ Visited
    /\ UNCHANGED <<vars, before>>

Reject ==
    /\ \/ AtSegment("parse") /\ segmentInvalid(elf.file, segment) /\ Returns("InvalidElf")
       \/ AtSegment("check") /\ outsideMemory(segment) /\ Returns("AddressOutOfBounds")
    /\ UNCHANGED vm

Accept ==
    /\ \/ AtSegment("parse") /\ ~segmentInvalid(elf.file, segment)
       \/ AtSegment("check") /\ ~outsideMemory(segment)
    /\ Visited
    /\ UNCHANGED <<vars, before>>

Copy ==
    /\ AtSegment("copy")
    /\ vm' = copied(elf.file, segment)
    /\ Visited
    /\ UNCHANGED <<call, ret, image, before>>

\* The loops of loadElf(), in their order.
nextPhase_CopyFirst(phase) ==
    CASE phase = "parse" -> "copy" [] phase = "copy" -> "check" [] OTHER -> "idle"
nextPhase(phase) ==
    CASE phase = "parse" -> "check" [] phase = "check" -> "copy" [] OTHER -> "idle"

LoopEnds ==
    /\ elf.phase # "idle" /\ elf.index = elf.file.phnum
    /\ elf' = [elf EXCEPT !.phase = nextPhase(@), !.index = 0,
                          !.result = IF nextPhase(elf.phase) = "idle" THEN "ok" ELSE "none"]
    /\ UNCHANGED <<vars, before>>

BetweenLoads ==
    /\ elf.phase = "idle"
    /\ Next
    /\ elf' = NotLoading("none")
    /\ UNCHANGED before

\* One visit of a header, or the end of a loop.
Loop == OtherSegment \/ Reject \/ Accept \/ Copy \/ LoopEnds

LoaderNext == (\E f \in Files : LoadElf(f)) \/ Loop \/ BetweenLoads

LoaderSpec == LoaderInit /\ [][LoaderNext]_loaderVars

-----------------------------------------------------------------------------
(* Properties. *)

\* "A rejected image leaves the VM unchanged": also when segments before the
\* rejected one are good.
RejectedUnchanged == elf.result \in {"InvalidElf", "AddressOutOfBounds"} => vm = before

\* What loadElf() takes for granted after its checks, at every header it visits:
\* the header lies in the file, and a segment it copies lies in the file and in
\* memory, so that loadProgram() does not fail where the code says unreachable.
NeverUnreachable ==
    elf.phase # "idle" /\ elf.index < elf.file.phnum =>
        /\ elf.file.phoff + elf.index * elf.file.phentsize + program_header_len <= elf.file.len
        /\ AtSegment("copy") =>
             /\ segment.offset + segment.filesz <= elf.file.len
             /\ segment.vaddr + segment.memsz <= MemSize
             /\ loadProgram(vm, [at |-> segment.vaddr,
                                 bytes |-> fileBytes(elf.file, segment)]).err = NoError

\* A loaded image is in memory: at each address the byte, or the zero, of the
\* last segment that covers it, and what was there before outside the segments;
\* no other field changes but the reservation, which is never a new one.
SegmentsInPlace ==
    elf.result = "ok" =>
        LET f == elf.file
            covers(i, x) == f.ph[i].pt_load /\ f.ph[i].vaddr <= x /\ x < f.ph[i].vaddr + f.ph[i].memsz
            last(x) == CHOOSE i \in 1 .. f.phnum :
                         covers(i, x) /\ \A j \in i + 1 .. f.phnum : ~covers(j, x)
            byte(s, k) == IF k < s.filesz THEN f.bytes[s.offset + k + 1] ELSE 0
        IN  /\ \A x \in Addrs :
                 vm.memory[x] = IF \E i \in 1 .. f.phnum : covers(i, x)
                                THEN byte(f.ph[last(x)], x - f.ph[last(x)].vaddr)
                                ELSE before.memory[x]
            /\ vm.reservation \in {before.reservation, NoReservation}
            /\ vm = [before EXCEPT !.memory = vm.memory, !.reservation = vm.reservation]

=============================================================================
