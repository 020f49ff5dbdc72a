-------------------------------- MODULE Cpu --------------------------------
(***************************************************************************)
(* The virtual machine of src/cpu.zig: CpuType / RuntimeCpuType.           *)
(*                                                                         *)
(* vm is the struct Self, and an operator named after a method maps the    *)
(* struct to the struct the method leaves behind, in the order the method  *)
(* makes its checks and its assignments.  A method that can fail returns   *)
(* a record with the struct AS FAR AS IT WAS WRITTEN and the error, so     *)
(* that what a fault leaves behind is computed, not assumed.               *)
(*                                                                         *)
(* The actions are the calls a host makes.  The machine is single threaded *)
(* and step() is one call, hence atomic; run() is the loop it is in the    *)
(* code, one action per iteration, so that its progress can be stated.     *)
(***************************************************************************)
EXTENDS Isa, Sequences

CONSTANTS
    CacheEntries,   \* Options.decode_cache_entries: a power of two, or 0
    Programs,       \* what the host passes to loadProgram: [at, bytes] records
    HostWrites,     \* host calls of writeByte/Halfword/Word: [at, width, value]
    HostRegs,       \* host calls of writeReg: [reg, value]
    HostPcs,        \* values the host assigns to the field pc
    Limits,         \* arguments of run (NONE is null)
    StepCounts,     \* arguments of runFor
    Images,         \* snapshots from elsewhere, some of them malformed
    ReadLengths     \* bytes of the memory image the reader delivers; NONE when
                    \* it fails inside the header

VARIABLES
    vm,             \* the struct
    call,           \* the run()/runFor() in progress, if any
    ret,            \* what the last call returned
    image           \* the last snapshot the host wrote

vars == <<vm, call, ret, image>>

NoError == "none"

-----------------------------------------------------------------------------
(* The struct and its power-on state. *)

Slots == 0 .. CacheEntries - 1

\* Marks an empty cache slot with bits that fetch() never returns.
EmptySlot == [op |-> "ECALL", rd |-> 0, rs1 |-> 0, rs2 |-> 0, imm |-> 0,
              csr |-> "other_rw", raw |-> WordMod - 4]

NoReservation == NONE

VM == [pc: Word, regs: [Regs -> Word], memory: [Addrs -> Byte],
       cycle_count: Count, reservation: Word \cup {NoReservation}, mscratch: Word,
       decode_cache: [Slots -> Instruction], stop_pc: Word]

EmptyCache == [i \in Slots |-> EmptySlot]

\* reset(): also what init() and initInPlace() leave behind.
PowerOn ==
    [pc |-> 0, regs |-> [r \in Regs |-> 0], memory |-> [a \in Addrs |-> 0],
     cycle_count |-> 0, reservation |-> NoReservation, mscratch |-> 0,
     decode_cache |-> EmptyCache, stop_pc |-> 0]

-----------------------------------------------------------------------------
(* Registers, memory accesses and the LR reservation. *)

writeReg_NoZero(s, r, v) == [s EXCEPT !.regs = [@ EXCEPT ![r] = v]]
writeReg(s, r, v) == [s EXCEPT !.regs = [@ EXCEPT ![r] = v, ![0] = 0]]

\* Alignment, then bounds, of a data access of n bytes.
accessError(a, n) ==
    IF a % n # 0 THEN "MisalignedAccess"
    ELSE IF a > MemSize - n THEN "AddressOutOfBounds"
    ELSE NoError

invalidateReservation_Exact(s, a) ==
    IF s.reservation = a THEN [s EXCEPT !.reservation = NoReservation] ELSE s
invalidateReservation(s, a) ==
    IF s.reservation = a - (a % 4) THEN [s EXCEPT !.reservation = NoReservation] ELSE s

invalidateReservationRange(s, start, len) ==
    IF /\ s.reservation # NoReservation
       /\ len # 0 /\ start < s.reservation + 4 /\ s.reservation < start + len
    THEN [s EXCEPT !.reservation = NoReservation] ELSE s

\* writeByte, writeHalfword, writeWord (n = 1, 2, 4).
write(s, a, n, v) ==
    LET e == accessError(a, n)
    IN  [err |-> e,
         vm  |-> IF e = NoError
                 THEN invalidateReservation([s EXCEPT !.memory = StoreLE(@, a, n, v)], a)
                 ELSE s]

\* loadProgram(bytes, at): bounds, copy, then drop an overlapped reservation.
loadProgram(s, p) ==
    LET len == Len(p.bytes)
    IN  IF len > MemSize \/ p.at > MemSize - len
        THEN [err |-> "AddressOutOfBounds", vm |-> s]
        ELSE [err |-> NoError,
              vm  |-> invalidateReservationRange(
                        [s EXCEPT !.memory =
                           [x \in Addrs |-> IF p.at <= x /\ x < p.at + len
                                            THEN p.bytes[x - p.at + 1] ELSE @[x]]],
                        p.at, len)]

-----------------------------------------------------------------------------
(* Fetch and the decode cache. *)

\* fetch(): the bits at pc, zero-extended when compressed.
fetch(s) ==
    LET low == HalfAt(s.memory, s.pc)
        got(e, raw) == [err |-> e, raw |-> raw]
    IN  IF s.pc % 2 # 0 THEN got("MisalignedPC", 0)
        ELSE IF s.pc > MemSize - 2 THEN got("PCOutOfBounds", 0)
        ELSE IF isCompressed(low) THEN got(NoError, low)
        ELSE IF s.pc > MemSize - 4 THEN got("PCOutOfBounds", 0)
        ELSE got(NoError, WordAt(s.memory, s.pc))

slotOf(s) == (s.pc \div 2) % CacheEntries

\* decodeCached(raw): a hit needs the slot to hold exactly raw; a miss decodes
\* and fills the slot, but only if decoding succeeds.
decodeCached_ByPc(s, raw) ==
    IF CacheEntries # 0 /\ s.decode_cache[slotOf(s)] # EmptySlot
    THEN [err |-> NoError, vm |-> s, inst |-> s.decode_cache[slotOf(s)]]
    ELSE [err |-> IF Decode(raw).op = "ILLEGAL" THEN "IllegalInstruction" ELSE NoError,
          vm |-> IF CacheEntries = 0 \/ Decode(raw).op = "ILLEGAL" THEN s
                 ELSE [s EXCEPT !.decode_cache = [@ EXCEPT ![slotOf(s)] = Decode(raw)]],
          inst |-> Decode(raw)]
decodeCached_KeyFirst(s, raw) ==
    LET inst    == Decode(raw)
        illegal == inst.op = "ILLEGAL"
        slot    == s.decode_cache[slotOf(s)]
    IN  [err  |-> IF illegal THEN "IllegalInstruction" ELSE NoError,
         vm   |-> [s EXCEPT !.decode_cache =
                     [@ EXCEPT ![slotOf(s)] = IF illegal THEN [slot EXCEPT !.raw = raw] ELSE inst]],
         inst |-> inst]
decodeCached(s, raw) ==
    LET inst    == Decode(raw)
        illegal == inst.op = "ILLEGAL"
        hit     == CacheEntries # 0 /\ s.decode_cache[slotOf(s)].raw = raw
    IN  IF hit THEN [err |-> NoError, vm |-> s, inst |-> s.decode_cache[slotOf(s)]]
        ELSE [err  |-> IF illegal THEN "IllegalInstruction" ELSE NoError,
              vm   |-> IF illegal \/ CacheEntries = 0 THEN s
                       ELSE [s EXCEPT !.decode_cache = [@ EXCEPT ![slotOf(s)] = inst]],
              inst |-> inst]

-----------------------------------------------------------------------------
(* Execution.  An execute operator returns the struct, the error, the result *)
(* of step() and next_pc.  s is the struct with regs[0] zeroed; a and b are   *)
(* rs1_val and rs2_val; next is pc plus the instruction's size.               *)

Executed(s, next)   == [vm |-> s, err |-> NoError, result |-> "continue", next_pc |-> next]
Stopped(s, r, next) == [vm |-> s, err |-> NoError, result |-> r, next_pc |-> next]
Faulted(s, e)       == [vm |-> s, err |-> e, result |-> "continue", next_pc |-> s.pc]

width(op) == CASE op \in {"LB", "LBU", "SB"} -> 1
               [] op \in {"LH", "LHU", "SH"} -> 2
               [] OTHER -> 4

\* What a load of memory m at a writes to rd: cascading bitcasts sign-extend.
loaded(m, op, a) ==
    CASE op = "LB"  -> SignExtend(m[a], BYTE)
      [] op = "LBU" -> m[a]
      [] op = "LH"  -> SignExtend(HalfAt(m, a), HalfMod)
      [] op = "LHU" -> HalfAt(m, a)
      [] OTHER      -> WordAt(m, a)

jalrTarget_Odd(a, imm) == AddW(a, imm)
jalrTarget(a, imm) == AddW(a, imm) - (AddW(a, imm) % 2)

\* executeI without the ALU operations.
executeI(s, i, a, b, next) ==
    LET addr   == AddW(a, i.imm)
        access == accessError(addr, width(i.op))
        stored == write(s, addr, width(i.op), b)
        target == AddW(s.pc, i.imm)
    IN  CASE i.op \in LoadOps ->
               IF access # NoError THEN Faulted(s, access)
               ELSE Executed(writeReg(s, i.rd, loaded(s.memory, i.op, addr)), next)
          [] i.op \in StoreOps ->
               IF stored.err # NoError THEN Faulted(stored.vm, stored.err)
               ELSE Executed(stored.vm, next)
          [] i.op \in BranchOps -> Executed(s, IF branchTaken(i.op, a, b) THEN target ELSE next)
          [] i.op = "LUI"    -> Executed(writeReg(s, i.rd, i.imm), next)
          [] i.op = "AUIPC"  -> Executed(writeReg(s, i.rd, target), next)
          [] i.op = "JAL"    -> Executed(writeReg(s, i.rd, next), target)
          [] i.op = "JALR"   -> Executed(writeReg(s, i.rd, next), jalrTarget(a, i.imm))
          [] i.op = "ECALL"  -> Stopped(s, "ecall", next)
          [] i.op = "EBREAK" -> Stopped(s, "ebreak", next)
          [] OTHER           -> Executed(s, next)   \* FENCE, FENCE_I

\* executeA: LR.W, SC.W and the AMOs, at address a.
executeA(s, i, a, b, next) ==
    LET check  == accessError(a, 4)
        old    == WordAt(s.memory, a)
        sc     == write(s, a, 4, b)
        amo    == write(s, a, 4, Alu(i.op, old, b))
    IN  CASE i.op = "LR_W" ->
               IF check # NoError THEN Faulted(s, check)
               ELSE Executed([writeReg(s, i.rd, old) EXCEPT !.reservation = a], next)
          [] i.op = "SC_W" ->
               IF check # NoError THEN Faulted(s, check)
               ELSE IF s.reservation # a
               THEN Executed([writeReg(s, i.rd, 1) EXCEPT !.reservation = NoReservation], next)
               ELSE IF sc.err # NoError THEN Faulted(sc.vm, sc.err)
               ELSE Executed([writeReg(sc.vm, i.rd, 0) EXCEPT !.reservation = NoReservation], next)
          [] OTHER ->
               IF check # NoError THEN Faulted(s, check)
               ELSE IF amo.err # NoError THEN Faulted(amo.vm, amo.err)
               ELSE Executed(writeReg(amo.vm, i.rd, old), next)

\* Csr.read and Csr.write.
csrReadable(c) == c \notin {"other_ro", "other_rw"}
csrRead(s, c) == CASE c \in {"cycle", "instret"}   -> s.cycle_count % WordMod
                   [] c \in {"cycleh", "instreth"} -> (s.cycle_count \div WordMod) % WordMod
                   [] OTHER -> s.mscratch
csrWrite(s, c, v) ==
    IF c \in ReadOnlyCsrs \/ c # "mscratch" THEN [err |-> "IllegalInstruction", vm |-> s]
    ELSE [err |-> NoError, vm |-> [s EXCEPT !.mscratch = v]]

\* executeCsr and Csr.execute.  The rs1 field is a register number or an
\* immediate; CSRRW reads only if rd is not x0, CSRRS and CSRRC write only if
\* the rs1 field is not 0.
executeCsr_RdFirst(s, i, a, b, next) ==
    LET src   == IF i.op \in {"CSRRW", "CSRRS", "CSRRC"} THEN a ELSE i.rs1
        wrote == csrWrite(writeReg(s, i.rd, csrRead(s, i.csr)), i.csr, src)
    IN  IF wrote.err # NoError THEN Faulted(wrote.vm, wrote.err) ELSE Executed(wrote.vm, next)
executeCsr(s, i, a, b, next) ==
    LET src    == IF i.op \in {"CSRRW", "CSRRS", "CSRRC"} THEN a ELSE i.rs1
        swap   == i.op \in {"CSRRW", "CSRRWI"}
        reads  == ~swap \/ i.rd # 0
        writes == swap \/ i.rs1 # 0
        old    == csrRead(s, i.csr)
        new    == CASE swap -> src
                    [] i.op \in {"CSRRS", "CSRRSI"} -> Alu("OR", old, src)
                    [] OTHER -> Alu("ANDN", old, src)
        wrote  == csrWrite(s, i.csr, new)
    IN  IF reads /\ ~csrReadable(i.csr) THEN Faulted(s, "IllegalInstruction")
        ELSE IF writes /\ wrote.err # NoError THEN Faulted(wrote.vm, wrote.err)
        ELSE LET t == IF writes THEN wrote.vm ELSE s
             IN  Executed(IF reads THEN writeReg(t, i.rd, old) ELSE t, next)

execute(s, i, a, b, next) ==
    CASE i.op \in AluRegOps -> Executed(writeReg(s, i.rd, Alu(i.op, a, b)), next)
      [] i.op \in AluImmOps -> Executed(writeReg(s, i.rd, Alu(i.op, a, i.imm)), next)
      [] i.op \in AmoOps \cup {"LR_W", "SC_W"} -> executeA(s, i, a, b, next)
      [] i.op \in CsrOps -> executeCsr(s, i, a, b, next)
      [] OTHER -> executeI(s, i, a, b, next)

\* The end of step(): stop_pc for a stop, then pc, then the count.
retired_NoWrap(x) ==
    [x.vm EXCEPT !.stop_pc = IF x.result # "continue" THEN x.vm.pc ELSE @,
                 !.pc = x.next_pc, !.cycle_count = @ + 1]
retired_StopPast(x) ==
    [x.vm EXCEPT !.stop_pc = IF x.result # "continue" THEN x.next_pc ELSE @,
                 !.pc = x.next_pc, !.cycle_count = (@ + 1) % CountMod]
retired(x) ==
    [x.vm EXCEPT !.stop_pc = IF x.result # "continue" THEN x.vm.pc ELSE @,
                 !.pc = x.next_pc, !.cycle_count = (@ + 1) % CountMod]

\* step(): the struct it leaves, the error it returns and its result.  Each
\* stage has the outcome of the one before: fetch f, decode d, execute x.
failed(s, e) == [vm |-> s, err |-> e, result |-> "continue"]

afterExecute(x) ==
    IF x.err # NoError THEN failed(x.vm, x.err)
    ELSE [vm |-> retired(x), err |-> NoError, result |-> x.result]

afterDecode(raw, d) ==
    LET z    == [d.vm EXCEPT !.regs = [@ EXCEPT ![0] = 0]]
        next == AddW(z.pc, IF isCompressed(raw) THEN 2 ELSE 4)
    IN  IF d.err # NoError THEN failed(d.vm, d.err)
        ELSE afterExecute(execute(z, d.inst, z.regs[d.inst.rs1], z.regs[d.inst.rs2], next))

afterFetch(s, f) ==
    IF f.err # NoError THEN failed(s, f.err) ELSE afterDecode(f.raw, decodeCached(s, f.raw))

step(s) == afterFetch(s, fetch(s))

\* describeFault(): raw and addr (NONE for null) of a fault that left s.
describeFault_NoOffset(s) ==
    LET f == fetch(s)
        i == Decode(f.raw)
        a == IF i.rs1 = 0 THEN 0 ELSE s.regs[i.rs1]
    IN  IF f.err # NoError THEN [raw |-> NONE, addr |-> s.pc]
        ELSE [raw  |-> f.raw,
              addr |-> IF i.op \in LoadOps \cup StoreOps \cup AmoOps \cup {"LR_W", "SC_W"}
                       THEN a ELSE NONE]
describeFault(s) ==
    LET f == fetch(s)
        i == Decode(f.raw)
        a == IF i.rs1 = 0 THEN 0 ELSE s.regs[i.rs1]
    IN  IF f.err # NoError THEN [raw |-> NONE, addr |-> s.pc]
        ELSE [raw  |-> f.raw,
              addr |-> CASE i.op \in LoadOps \cup StoreOps -> AddW(a, i.imm)
                         [] i.op \in AmoOps \cup {"LR_W", "SC_W"} -> a
                         [] OTHER -> NONE]

-----------------------------------------------------------------------------
(* Snapshots (cpu/state.zig): a header and the memory image. *)

Snapshots ==
    [magic: BOOLEAN, version: Nat, mem_size: Nat, pc: Word, regs: [Regs -> Word],
     cycle_count: Count, res_valid: Nat, res_addr: Word, mscratch: Word,
     memory: [Addrs -> Byte]]

\* encodeHeader and the memory image.  The digest is the hash of these.
Encode(s) ==
    [magic |-> TRUE, version |-> 1, mem_size |-> MemSize, pc |-> s.pc, regs |-> s.regs,
     cycle_count |-> s.cycle_count,
     res_valid |-> IF s.reservation = NoReservation THEN 0 ELSE 1,
     res_addr  |-> IF s.reservation = NoReservation THEN 0 ELSE s.reservation,
     mscratch |-> s.mscratch, memory |-> s.memory]

\* What the host holds before it has written a snapshot: no snapshot at all.
Blank == [Encode(PowerOn) EXCEPT !.magic = FALSE]

\* The validation of restoreSnapshot.
validHeader_Bounds(h) ==
    /\ h.magic /\ h.version = 1 /\ h.mem_size = MemSize /\ h.regs[0] = 0
    /\ \/ h.res_valid = 0 /\ h.res_addr = 0
       \/ h.res_valid = 1 /\ h.res_addr % 4 = 0 /\ h.res_addr < MemSize - 4
validHeader_Unaligned(h) ==
    /\ h.magic /\ h.version = 1 /\ h.mem_size = MemSize /\ h.regs[0] = 0
    /\ \/ h.res_valid = 0 /\ h.res_addr = 0
       \/ h.res_valid = 1 /\ h.res_addr <= MemSize - 4
validHeader(h) ==
    /\ h.magic /\ h.version = 1 /\ h.mem_size = MemSize /\ h.regs[0] = 0
    /\ \/ h.res_valid = 0 /\ h.res_addr = 0
       \/ h.res_valid = 1 /\ h.res_addr % 4 = 0 /\ h.res_addr <= MemSize - 4

\* restoreSnapshot from a reader that delivers n bytes of the memory image.
\* A header that is cut off or malformed changes nothing; a memory image that
\* is cut off leaves the struct partly restored, its cache and stop_pc as
\* they were.
restoreSnapshot(s, h, n) ==
    LET header == [s EXCEPT !.pc = h.pc, !.regs = h.regs, !.cycle_count = h.cycle_count,
                            !.reservation = IF h.res_valid = 1 THEN h.res_addr
                                            ELSE NoReservation,
                            !.mscratch = h.mscratch,
                            !.memory = [x \in Addrs |-> IF x < n THEN h.memory[x] ELSE @[x]]]
    IN  IF n = NONE THEN [err |-> "EndOfStream", vm |-> s]
        ELSE IF ~validHeader(h) THEN [err |-> "InvalidSnapshot", vm |-> s]
        ELSE IF n < MemSize THEN [err |-> "EndOfStream", vm |-> header]
        ELSE [err |-> NoError,
              vm  |-> [header EXCEPT !.decode_cache = EmptyCache, !.stop_pc = 0]]

-----------------------------------------------------------------------------
(* The host's calls. *)

\* The program checks the first at compile time; the rest are the types of the
\* calls' parameters.
ASSUME CacheAssumption ==
    CacheEntries \in Nat /\ (CacheEntries = 0 \/ \E k \in 0 .. 31 : CacheEntries = 2^k)
ASSUME HostAssumption ==
    /\ Programs \subseteq [at: Word, bytes: Seq(Byte)]
    /\ HostWrites \subseteq [at: Word, width: {1, 2, 4}, value: Word]
    /\ HostRegs \subseteq [reg: Regs, value: Word]
    /\ HostPcs \subseteq Word
    /\ Limits \subseteq Count \cup {NONE}
    /\ StepCounts \subseteq Nat
    /\ Images \subseteq Snapshots
    /\ ReadLengths \subseteq 0 .. MemSize \cup {NONE}

Idle == [active |-> FALSE, limit |-> NONE, since |-> 0, steps |-> NONE]

Return(name, result, err) == [call |-> name, result |-> result, err |-> err]

Init ==
    /\ vm = PowerOn
    /\ call = Idle
    /\ ret = Return("init", "ok", NoError)
    /\ image = Blank

\* A call that maps the struct to r.vm and returns r.err.
HostCall(name, r) ==
    /\ ~call.active
    /\ vm' = r.vm
    /\ ret' = Return(name, "ok", r.err)
    /\ call' = Idle
    /\ UNCHANGED image

NoFail(s) == [err |-> NoError, vm |-> s]

Reset == HostCall("reset", NoFail(PowerOn))

LoadProgram(p) == HostCall("loadProgram", loadProgram(vm, p))

Write(w) == HostCall("write", write(vm, w.at, w.width, w.value))

WriteReg(w) == HostCall("writeReg", NoFail(writeReg(vm, w.reg, w.value)))

SetPc(a) == HostCall("pc", NoFail([vm EXCEPT !.pc = a]))

\* A host that writes the field memory directly must call clearReservation():
\* the two together are one step of such a host.
PokeMemory(w) ==
    /\ w.at < MemSize
    /\ HostCall("poke", NoFail([vm EXCEPT !.memory = [@ EXCEPT ![w.at] = w.value % BYTE],
                                          !.reservation = NoReservation]))

ClearReservation ==
    HostCall("clearReservation", NoFail([vm EXCEPT !.reservation = NoReservation]))

WriteSnapshot ==
    /\ ~call.active
    /\ image' = Encode(vm)
    /\ ret' = Return("writeSnapshot", "ok", NoError)
    /\ call' = Idle
    /\ UNCHANGED vm

RestoreSnapshot(h, n) == HostCall("restoreSnapshot", restoreSnapshot(vm, h, n))

Stepped(r) ==
    /\ vm' = r.vm
    /\ ret' = Return("step", r.result, r.err)
    /\ call' = Idle
    /\ UNCHANGED image

Step == ~call.active /\ Stepped(step(vm))

\* run(limit) and runFor(steps): the call; the loop is RunLoop.
runForLimit_Wrap(count, steps) == (count + steps) % CountMod
runForLimit(count, steps) ==
    IF count + steps >= CountMod THEN CountMod - 1 ELSE count + steps

Run(limit) ==
    /\ ~call.active
    /\ call' = [active |-> TRUE, limit |-> limit, since |-> vm.cycle_count, steps |-> NONE]
    /\ ret' = Return("run", "running", NoError)
    /\ UNCHANGED <<vm, image>>

RunFor(n) ==
    /\ ~call.active
    /\ call' = [active |-> TRUE, limit |-> runForLimit(vm.cycle_count, n),
                since |-> vm.cycle_count, steps |-> n]
    /\ ret' = Return("run", "running", NoError)
    /\ UNCHANGED <<vm, image>>

\* One iteration of run's loop: return at the limit, otherwise step() and
\* return if it stopped or failed.
limitReached_Past(count, limit) == limit # NONE /\ count > limit
limitReached(count, limit) == limit # NONE /\ count >= limit

RunLimit ==
    /\ call.active
    /\ limitReached(vm.cycle_count, call.limit)
    /\ ret' = Return("run", "continue", NoError)
    /\ call' = [call EXCEPT !.active = FALSE]
    /\ UNCHANGED <<vm, image>>

Iterated(r) ==
    LET ends == r.err # NoError \/ r.result # "continue"
    IN  /\ vm' = r.vm
        /\ call' = [call EXCEPT !.active = ~ends]
        /\ ret' = IF ends THEN Return("run", r.result, r.err) ELSE ret
        /\ UNCHANGED image

RunStep ==
    /\ call.active
    /\ ~limitReached(vm.cycle_count, call.limit)
    /\ Iterated(step(vm))

Next ==
    \/ Reset
    \/ \E p \in Programs : LoadProgram(p)
    \/ \E w \in HostWrites : Write(w)
    \/ \E w \in HostWrites : PokeMemory(w)
    \/ \E w \in HostRegs : WriteReg(w)
    \/ \E a \in HostPcs : SetPc(a)
    \/ ClearReservation
    \/ WriteSnapshot
    \/ \E h \in Images \cup {image}, n \in ReadLengths : RestoreSnapshot(h, n)
    \/ Step
    \/ \E l \in Limits : Run(l)
    \/ \E n \in StepCounts : RunFor(n)
    \/ RunLimit
    \/ RunStep

\* run() is a loop in the host's thread: once called it keeps iterating.
Fairness == WF_vars(RunLimit \/ RunStep)

Spec == Init /\ [][Next]_vars
FairSpec == Spec /\ Fairness

-----------------------------------------------------------------------------
(* Properties. *)

StepErrors == {"IllegalInstruction", "MisalignedPC", "PCOutOfBounds",
               "MisalignedAccess", "AddressOutOfBounds"}
CallNames == {"init", "reset", "loadProgram", "write", "writeReg", "pc", "poke",
              "clearReservation", "writeSnapshot", "restoreSnapshot", "step", "run"}
Results == {"ok", "running", "continue", "ecall", "ebreak"}
\* The architectural state: the fields of the digest and of a snapshot.
Arch(s) == [pc |-> s.pc, regs |-> s.regs, memory |-> s.memory,
            cycle_count |-> s.cycle_count, reservation |-> s.reservation,
            mscratch |-> s.mscratch]

\* Every field of the struct keeps its type: registers and pc are words,
\* memory cells bytes, the cycle counter wraps instead of overflowing.
TypeOK ==
    /\ vm \in VM
    /\ call \in [active: BOOLEAN, limit: Count \cup {NONE}, since: Count,
                 steps: Nat \cup {NONE}]
    /\ ret \in [call: CallNames, result: Results,
                err: StepErrors \cup {NoError, "InvalidSnapshot", "EndOfStream"}]
    /\ image \in Snapshots

\* The reservation is word aligned and its word lies in memory, whoever made it
\* (LR.W, or a snapshot of any origin, even one cut off): executeA compares it
\* with an address by equality alone because of this.
ReservationValid ==
    vm.reservation # NoReservation => vm.reservation % 4 = 0 /\ vm.reservation <= MemSize - 4

\* regs[0] is zero between calls: step() and the snapshot header rely on it.
X0Zero == vm.regs[0] = 0

\* A cache slot is empty or holds what the decoder returns for the bits it
\* remembers, whatever was stored over the code, reset or restored since.
CacheCoherent ==
    \A i \in Slots :
        LET slot == vm.decode_cache[i]
        IN  slot = EmptySlot \/ (slot = Decode(slot.raw) /\ slot.op # "ILLEGAL")

\* Every snapshot this machine writes is one that restoreSnapshot accepts.
ImageRestorable == image # Blank => validHeader(image)

\* After step() or run() stops at an ECALL or EBREAK, stop_pc is the address
\* of that instruction and pc the one after it.
StopPcNamesTheStop ==
    ret.result \in {"ecall", "ebreak"} =>
        LET f == fetch([vm EXCEPT !.pc = vm.stop_pc])
        IN  /\ f.err = NoError
            /\ Decode(f.raw).op = IF ret.result = "ecall" THEN "ECALL" ELSE "EBREAK"
            /\ vm.pc = AddW(vm.stop_pc, IF isCompressed(f.raw) THEN 2 ELSE 4)

\* describeFault, called on the state a fault left, names the fault: the fetch
\* address if fetching failed, the data address that really is misaligned or
\* out of bounds if an access failed, and no address for an illegal instruction.
FaultExplained ==
    ret.call \in {"step", "run"} /\ ret.err # NoError =>
        LET d == describeFault(vm)
            i == Decode(d.raw)
        IN  CASE ret.err \in {"MisalignedPC", "PCOutOfBounds"} ->
                   d.raw = NONE /\ d.addr = vm.pc
              [] ret.err = "IllegalInstruction" -> d.raw # NONE /\ d.addr = NONE
              [] OTHER -> /\ d.raw # NONE /\ d.addr # NONE
                          /\ accessError(d.addr, width(i.op)) = ret.err

\* A fault of step() or run() leaves the architectural state exactly as it was
\* before the faulting instruction, although the instruction may already have
\* decoded, read a CSR or read memory.
FaultChangesNothing ==
    [][(Step \/ RunStep) /\ ret'.err # NoError => Arch(vm') = Arch(vm)]_vars

\* As long as a reservation is held, the reserved word is not written: any
\* store, AMO, SC.W, program load or host write that changes it drops the
\* reservation in the same step.  (Restoring a snapshot makes a new one.)
ReservedWordStable ==
    [][/\ vm.reservation # NoReservation
       /\ vm'.reservation = vm.reservation
       /\ ret'.call # "restoreSnapshot"
       => WordAt(vm'.memory, vm.reservation) = WordAt(vm.memory, vm.reservation)]_vars

\* No instruction makes pc odd: only the host can.
GuestPcEven ==
    [][(Step \/ RunStep) /\ vm'.pc # vm.pc => vm'.pc % 2 = 0]_vars

\* run(limit) and runFor(steps) never go past the limit, even where the counter
\* is about to wrap, and a runFor that returns "continue" has executed all its
\* steps unless the counter saturated.
RunWithinLimit ==
    LET executed == (vm.cycle_count - call.since) % CountMod
    IN  /\ call.limit # NONE =>
              \/ vm.cycle_count = call.since
              \/ call.since < vm.cycle_count /\ vm.cycle_count <= call.limit
        /\ call.steps # NONE => executed <= call.steps
        /\ call.steps # NONE /\ ~call.active /\ ret.result = "continue" /\ ret.err = NoError =>
              executed = call.steps \/ vm.cycle_count = CountMod - 1

\* A run with a limit returns, even if the guest loops forever.
RunReturns == (call.active /\ call.limit # NONE) ~> ~call.active

\* The machine implements the hart of SEMANTICS.md: its decode cache and the
\* order in which an instruction's checks and effects are made never show.
H == INSTANCE Hart WITH arch <- Arch(vm)
ImplementsHart == H!HartSpec

=============================================================================
