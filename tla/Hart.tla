-------------------------------- MODULE Hart --------------------------------
(***************************************************************************)
(* What the machine promises its host (SEMANTICS.md): an RV32 hart without *)
(* a decode cache, in which an instruction either passes all its checks    *)
(* and then takes all its effects in one step, or faults and changes       *)
(* nothing.  Module Cpu, which writes the struct field by field as the     *)
(* code does, is checked to implement this one.                            *)
(***************************************************************************)
EXTENDS Isa

VARIABLES
    arch,       \* pc, regs, memory, cycle_count, reservation, mscratch
    ret         \* what the host was last told: [call, result, err]

hartVars == <<arch, ret>>

-----------------------------------------------------------------------------
(* The instruction at pc. *)

Low == HalfAt(arch.memory, arch.pc)
InMemory(a, n) == a + n <= MemSize
Fetchable ==
    /\ arch.pc % 2 = 0
    /\ InMemory(arch.pc, 2)
    /\ isCompressed(Low) \/ InMemory(arch.pc, 4)
Inst == Decode(IF isCompressed(Low) THEN Low ELSE WordAt(arch.memory, arch.pc))
Following == AddW(arch.pc, IF isCompressed(Low) THEN 2 ELSE 4)

Reg(r) == IF r = 0 THEN 0 ELSE arch.regs[r]
Src1 == Reg(Inst.rs1)
Src2 == Reg(Inst.rs2)

\* The registers with v in r; x0 discards what is written to it.
SetReg(r, v) == [x \in Regs |-> IF x = r /\ r # 0 THEN v ELSE arch.regs[x]]

-----------------------------------------------------------------------------
(* Checks: what an instruction needs before it may retire. *)

Atomic == AmoOps \cup {"LR_W", "SC_W"}
DataAddr == IF Inst.op \in Atomic THEN Src1 ELSE AddW(Src1, Inst.imm)
Size == CASE Inst.op \in {"LB", "LBU", "SB"} -> 1
          [] Inst.op \in {"LH", "LHU", "SH"} -> 2
          [] OTHER -> 4
Aligned == DataAddr % Size = 0
UsesMemory == Inst.op \in LoadOps \cup StoreOps \cup Atomic

Swap      == Inst.op \in {"CSRRW", "CSRRWI"}
CsrReads  == ~Swap \/ Inst.rd # 0
CsrWrites == Swap \/ Inst.rs1 # 0
CsrLegal  ==
    /\ CsrReads => Inst.csr \notin {"other_ro", "other_rw"}
    /\ CsrWrites => Inst.csr = "mscratch"

Legal == Inst.op # "ILLEGAL" /\ (Inst.op \in CsrOps => CsrLegal)
Accessible == UsesMemory => Aligned /\ InMemory(DataAddr, Size)

\* The error of an instruction that may not retire, in the order of the checks.
FaultError ==
    IF arch.pc % 2 # 0 THEN "MisalignedPC"
    ELSE IF ~Fetchable THEN "PCOutOfBounds"
    ELSE IF ~Legal THEN "IllegalInstruction"
    ELSE IF ~Aligned THEN "MisalignedAccess" ELSE "AddressOutOfBounds"

-----------------------------------------------------------------------------
(* Effects: one action per class of instruction. *)

\* The reservation after a write to [a, a + n): it survives unless the write
\* touches one of the reserved word's four bytes.
Surviving(a, n) ==
    IF arch.reservation # NONE /\ a < arch.reservation + 4 /\ arch.reservation < a + n
    THEN NONE ELSE arch.reservation

\* The instruction at pc is one of ops and may retire.  It retires: the state is s, the count is one more, and
\* step() or the run() in progress continues.
Ready(ops) == Fetchable /\ Legal /\ Accessible /\ Inst.op \in ops
Retire(s) == arch' = [s EXCEPT !.cycle_count = (@ + 1) % CountMod]
Goes == ret'.err = "none" /\ ret'.result \in {"continue", "running"}

Writes(v) == [arch EXCEPT !.pc = Following, !.regs = SetReg(Inst.rd, v)]

Compute ==
    /\ Ready(AluRegOps \cup AluImmOps \cup {"LUI", "AUIPC"})
    /\ Retire(Writes(CASE Inst.op \in AluRegOps -> Alu(Inst.op, Src1, Src2)
                       [] Inst.op \in AluImmOps -> Alu(Inst.op, Src1, Inst.imm)
                       [] Inst.op = "LUI"       -> Inst.imm
                       [] OTHER                 -> AddW(arch.pc, Inst.imm)))
    /\ Goes

Load ==
    /\ Ready(LoadOps)
    /\ Retire(Writes(CASE Inst.op = "LB"  -> SignExtend(arch.memory[DataAddr], BYTE)
                       [] Inst.op = "LBU" -> arch.memory[DataAddr]
                       [] Inst.op = "LH"  -> SignExtend(HalfAt(arch.memory, DataAddr), HalfMod)
                       [] Inst.op = "LHU" -> HalfAt(arch.memory, DataAddr)
                       [] Inst.op = "LW"  -> WordAt(arch.memory, DataAddr)))
    /\ Goes

Store ==
    /\ Ready(StoreOps)
    /\ Retire([arch EXCEPT !.pc = Following,
                           !.memory = StoreLE(@, DataAddr, Size, Src2),
                           !.reservation = Surviving(DataAddr, Size)])
    /\ Goes

LoadReserved ==
    /\ Ready({"LR_W"})
    /\ Retire([Writes(WordAt(arch.memory, Src1)) EXCEPT !.reservation = Src1])
    /\ Goes

\* SC.W stores, and tells the guest so, only at the reserved address; the
\* reservation is used up either way.
StoreConditional ==
    /\ Ready({"SC_W"})
    /\ Retire(IF arch.reservation = Src1
              THEN [Writes(0) EXCEPT !.memory = StoreLE(@, Src1, 4, Src2), !.reservation = NONE]
              ELSE [Writes(1) EXCEPT !.reservation = NONE])
    /\ Goes

Amo ==
    /\ Ready(AmoOps)
    /\ LET old == WordAt(arch.memory, Src1)
       IN  Retire([Writes(old) EXCEPT !.memory = StoreLE(@, Src1, 4, Alu(Inst.op, old, Src2)),
                                      !.reservation = Surviving(Src1, 4)])
    /\ Goes

CsrAccess ==
    /\ Ready(CsrOps)
    /\ LET src == IF Inst.op \in {"CSRRW", "CSRRS", "CSRRC"} THEN Src1 ELSE Inst.rs1
           old == CASE Inst.csr \in {"cycle", "instret"} -> arch.cycle_count % WordMod
                    [] Inst.csr \in {"cycleh", "instreth"} -> (arch.cycle_count \div WordMod) % WordMod
                    [] OTHER -> arch.mscratch
           new == CASE Swap -> src
                    [] Inst.op \in {"CSRRS", "CSRRSI"} -> Alu("OR", old, src)
                    [] OTHER -> Alu("ANDN", old, src)
       IN  Retire([Writes(old) EXCEPT !.mscratch = IF CsrWrites THEN new ELSE @])
    /\ Goes

Jump ==
    /\ Ready(BranchOps \cup {"JAL", "JALR"})
    /\ LET taken  == CASE Inst.op = "BEQ"  -> Src1 = Src2
                       [] Inst.op = "BNE"  -> Src1 # Src2
                       [] Inst.op = "BLT"  -> Signed(Src1) < Signed(Src2)
                       [] Inst.op = "BGE"  -> Signed(Src1) >= Signed(Src2)
                       [] Inst.op = "BLTU" -> Src1 < Src2
                       [] Inst.op = "BGEU" -> Src1 >= Src2
                       [] OTHER -> TRUE
           sum    == AddW(IF Inst.op = "JALR" THEN Src1 ELSE arch.pc, Inst.imm)
           target == IF Inst.op = "JALR" THEN sum - (sum % 2) ELSE sum
       IN  Retire([arch EXCEPT !.pc = IF taken THEN target ELSE Following,
                               !.regs = IF Inst.op \in {"JAL", "JALR"}
                                        THEN SetReg(Inst.rd, Following) ELSE @])
    /\ Goes

NoOp ==
    /\ Ready({"FENCE", "FENCE_I"})
    /\ Retire([arch EXCEPT !.pc = Following])
    /\ Goes

\* ECALL and EBREAK retire and hand control to the host.
Stop ==
    /\ Ready({"ECALL", "EBREAK"})
    /\ Retire([arch EXCEPT !.pc = Following])
    /\ ret'.err = "none"
    /\ ret'.result = IF Inst.op = "ECALL" THEN "ecall" ELSE "ebreak"

Fault ==
    /\ ~(Fetchable /\ Legal /\ Accessible)
    /\ arch' = arch
    /\ ret'.call \in {"step", "run"} /\ ret'.err = FaultError

-----------------------------------------------------------------------------
(* What the host may do between instructions. *)

WellFormed(s) ==
    /\ s.regs[0] = 0
    /\ s.reservation # NONE => s.reservation % 4 = 0 /\ InMemory(s.reservation, 4)

PowerOnArch ==
    [pc |-> 0, regs |-> [r \in Regs |-> 0], memory |-> [a \in Addrs |-> 0],
     cycle_count |-> 0, reservation |-> NONE, mscratch |-> 0]

HostReset == arch' = PowerOnArch /\ ret'.call = "reset"

\* The host writes memory: a reservation is kept only if its word is unchanged.
HostMemory ==
    /\ ret'.call \in {"loadProgram", "write", "poke", "clearReservation"} /\ ret'.err = "none"
    /\ arch' = [arch EXCEPT !.memory = arch'.memory, !.reservation = arch'.reservation]
    /\ arch'.reservation \in {arch.reservation, NONE}
    /\ arch'.reservation # NONE =>
         WordAt(arch'.memory, arch.reservation) = WordAt(arch.memory, arch.reservation)

HostRegister ==
    /\ ret'.call \in {"writeReg", "pc"}
    /\ arch' = [arch EXCEPT !.regs = arch'.regs, !.pc = arch'.pc]
    /\ WellFormed(arch')

\* A snapshot is restored, all of it or (when the reader fails) a part.
HostRestore ==
    /\ ret'.call = "restoreSnapshot" /\ ret'.err \in {"none", "EndOfStream"}
    /\ WellFormed(arch')

\* Calls that only look, fail, or start or end a run at its limit.
HostQuiet ==
    /\ arch' = arch
    /\ \/ ret'.call \in {"loadProgram", "write", "restoreSnapshot"} /\ ret'.err # "none"
       \/ ret'.call = "writeSnapshot" /\ ret'.err = "none"
       \/ ret'.call = "run" /\ ret'.result \in {"running", "continue"} /\ ret'.err = "none"

HartInit == arch = PowerOnArch /\ ret = [call |-> "init", result |-> "ok", err |-> "none"]

HartNext ==
    \/ Compute \/ Load \/ Store \/ LoadReserved \/ StoreConditional \/ Amo
    \/ CsrAccess \/ Jump \/ NoOp \/ Stop \/ Fault
    \/ HostReset \/ HostMemory \/ HostRegister \/ HostRestore \/ HostQuiet

HartSpec == HartInit /\ [][HartNext]_hartVars

=============================================================================
