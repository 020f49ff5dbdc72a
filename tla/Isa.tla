-------------------------------- MODULE Isa --------------------------------
(***************************************************************************)
(* The decoded instruction (instructions.Instruction) and the parameters   *)
(* of the machine that executes it: its memory size, its decoder and its   *)
(* ALU.  The decoder is a parameter of the program too (Options.decode);   *)
(* the ALU is the pure part of execution (module Alu), a parameter here so *)
(* that what is proved of the machine holds whatever it computes.          *)
(***************************************************************************)
EXTENDS Words

CONSTANTS
    MemSize,        \* memory size in bytes: memSize()
    NumRegs,        \* 32 in the program
    CountMod,       \* number of values of cycle_count: 2^64 in the program
    Decode(_),      \* raw bits -> Instruction; op "ILLEGAL" for DecodeError
    Alu(_, _, _)    \* op, first operand, second operand -> result

Regs  == 0 .. NumRegs - 1
Addrs == 0 .. MemSize - 1
Count == 0 .. CountMod - 1

LoadOps   == {"LB", "LH", "LW", "LBU", "LHU"}
StoreOps  == {"SB", "SH", "SW"}
BranchOps == {"BEQ", "BNE", "BLT", "BGE", "BLTU", "BGEU"}
AmoOps    == {"AMOSWAP_W", "AMOADD_W", "AMOXOR_W", "AMOAND_W", "AMOOR_W",
              "AMOMIN_W", "AMOMAX_W", "AMOMINU_W", "AMOMAXU_W"}
CsrOps    == {"CSRRW", "CSRRS", "CSRRC", "CSRRWI", "CSRRSI", "CSRRCI"}

\* Operations that only compute rd from two operands.  The second operand is
\* rs2 for the R format and the immediate otherwise (for the Zbb unary
\* operations it is a selector that the ALU ignores).
AluRegOps == {"ADD", "SUB", "SLL", "SLT", "SLTU", "XOR", "SRL", "SRA", "OR", "AND",
              "MUL", "MULH", "MULHSU", "MULHU", "DIV", "DIVU", "REM", "REMU",
              "SH1ADD", "SH2ADD", "SH3ADD",
              "ANDN", "ORN", "XNOR", "MAX", "MAXU", "MIN", "MINU", "ROL", "ROR", "ZEXT_H",
              "BCLR", "BEXT", "BINV", "BSET"}
AluImmOps == {"ADDI", "SLTI", "SLTIU", "XORI", "ORI", "ANDI", "SLLI", "SRLI", "SRAI",
              "CLZ", "CTZ", "CPOP", "SEXT_B", "SEXT_H", "RORI", "ORC_B", "REV8",
              "BCLRI", "BEXTI", "BINVI", "BSETI"}
SystemOps == {"LUI", "AUIPC", "JAL", "JALR", "FENCE", "FENCE_I", "ECALL", "EBREAK"}

Ops == LoadOps \cup StoreOps \cup BranchOps \cup AmoOps \cup {"LR_W", "SC_W"}
         \cup CsrOps \cup AluRegOps \cup AluImmOps \cup SystemOps

\* The CSR addresses the program tells apart: the five it implements, and the
\* rest, split by bits [11:10] = 0b11 (read-only by convention) or not.
CsrAddrs == {"cycle", "instret", "cycleh", "instreth", "mscratch", "other_ro", "other_rw"}
ReadOnlyCsrs == CsrAddrs \ {"mscratch", "other_rw"}

\* instructions.Instruction.  imm is the immediate as an unsigned word
\* (immUnsigned); csr is csrAddr().
Instruction ==
    [op: Ops \cup {"ILLEGAL"}, rd: Regs, rs1: Regs, rs2: Regs, imm: Word,
     csr: CsrAddrs, raw: Word]

isCompressed(raw) == raw % 4 # 3

\* validMemorySize; the scaled counters and registers fit a word (pair).
ASSUME MachineAssumption ==
    /\ MemSize \in Nat /\ MemSize >= 4 /\ MemSize % 4 = 0 /\ MemSize < WordMod
    /\ NumRegs \in Nat /\ NumRegs > 0 /\ NumRegs <= WordMod
    /\ CountMod \in Nat /\ CountMod > 1 /\ CountMod <= WordMod * WordMod

\* What the machine relies on from its decoder: the instruction remembers the
\* bits it was decoded from (the decode cache is validated by them), and
\* branch and jump offsets are even.
ASSUME DecodeAssumption ==
    \A raw \in Word :
        /\ Decode(raw) \in Instruction
        /\ Decode(raw).raw = raw
        /\ Decode(raw).op \in BranchOps \cup {"JAL"} => Decode(raw).imm % 2 = 0

ASSUME AluAssumption ==
    \A op \in AluRegOps \cup AluImmOps \cup AmoOps, a, b \in Word : Alu(op, a, b) \in Word

=============================================================================
