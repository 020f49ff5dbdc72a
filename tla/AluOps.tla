------------------------------- MODULE AluOps -------------------------------
(***************************************************************************)
(* What the computing instructions compute: the ALU arms of executeI and   *)
(* the execute functions of rv32m, rv32a, zba, zbb and zbs, on the scaled  *)
(* words of module Words.  The machine takes its ALU as a parameter; this  *)
(* is the one TLC gives it.                                                *)
(***************************************************************************)
EXTENDS Words, FiniteSets

\* 2^n, and the number of bits of a word.  A byte of the program has eight.
Pow2[n \in Nat] == IF n = 0 THEN 1 ELSE 2 * Pow2[n - 1]
ASSUME BitsAssumption == \E n \in 2 .. 8 : Pow2[n] = BYTE
XLEN == CHOOSE n \in 1 .. 32 : Pow2[n] = WordMod

Wrap(i)  == i % WordMod                 \* i32 -> u32, and every +%, -%, *%
NotW(w)  == WordMod - 1 - w             \* ~w
Shamt(b) == b % XLEN                    \* @truncate(b & 0x1F) to u5
Shl(a, n) == (a * Pow2[n]) % WordMod
Shr(a, n) == a \div Pow2[n]
Bool(p)  == IF p THEN 1 ELSE 0
Bit(a, n) == Shr(a, n) % 2

\* The word with bits f, and the bitwise a & b, a | b and a ^ b.
FromBits(f) ==
    LET sum[n \in 0 .. XLEN] == IF n = 0 THEN 0 ELSE sum[n - 1] + f[n - 1] * Pow2[n - 1]
    IN  sum[XLEN]
And(a, b) == FromBits([n \in 0 .. XLEN - 1 |-> Bool(Bit(a, n) = 1 /\ Bit(b, n) = 1)])
Or(a, b)  == FromBits([n \in 0 .. XLEN - 1 |-> Bool(Bit(a, n) = 1 \/ Bit(b, n) = 1)])
Xor(a, b) == FromBits([n \in 0 .. XLEN - 1 |-> Bool(Bit(a, n) # Bit(b, n))])

\* @divTrunc and @rem: the quotient is rounded towards zero and the remainder
\* has the dividend's sign.
Abs(i) == IF i < 0 THEN -i ELSE i
DivTrunc(a, b) == IF (a < 0) = (b < 0) THEN Abs(a) \div Abs(b) ELSE -(Abs(a) \div Abs(b))
Rem(a, b) == IF a < 0 THEN -(Abs(a) % Abs(b)) ELSE a % Abs(b)

\* executeI: the R-type ALU arms; the I-type ones are the same with imm_u.
aluI(op, a, b) ==
    CASE op \in {"ADD", "ADDI"}   -> Wrap(a + b)
      [] op = "SUB"               -> Wrap(a - b)
      [] op \in {"SLL", "SLLI"}   -> Shl(a, Shamt(b))
      [] op \in {"SLT", "SLTI"}   -> Bool(Signed(a) < Signed(b))
      [] op \in {"SLTU", "SLTIU"} -> Bool(a < b)
      [] op \in {"XOR", "XORI"}   -> Xor(a, b)
      [] op \in {"SRL", "SRLI"}   -> Shr(a, Shamt(b))
      [] op \in {"SRA", "SRAI"}   -> Wrap(Signed(a) \div Pow2[Shamt(b)])
      [] op \in {"OR", "ORI"}     -> Or(a, b)
      [] op \in {"AND", "ANDI"}   -> And(a, b)

\* rv32m.execute.  A 64-bit product >> 32 is a division by WordMod rounded
\* down; the quotient of the most negative number by -1 overflows an
\* i32, which is illegal behaviour in the program.
MinInt == -(WordMod \div 2)
Illegal == -1       \* not a word
FromI32(i) == IF MinInt <= i /\ i < -MinInt THEN Wrap(i) ELSE Illegal
mulh(a, b)  == Wrap((Signed(a) * Signed(b)) \div WordMod)
mulhsu_Signed(a, b) == Wrap((Signed(a) * Signed(b)) \div WordMod)
mulhsu(a, b) == Wrap((Signed(a) * b) \div WordMod)
div_NoOverflowCase(a, b) ==
    FromI32(IF b = 0 THEN -1 ELSE DivTrunc(Signed(a), Signed(b)))
div(a, b) ==
    FromI32(IF b = 0 THEN -1
            ELSE IF Signed(a) = MinInt /\ Signed(b) = -1 THEN MinInt
            ELSE DivTrunc(Signed(a), Signed(b)))
rem(a, b) ==
    FromI32(IF b = 0 THEN Signed(a)
            ELSE IF Signed(a) = MinInt /\ Signed(b) = -1 THEN 0
            ELSE Rem(Signed(a), Signed(b)))
aluM(op, a, b) ==
    CASE op = "MUL"    -> Wrap(a * b)
      [] op = "MULH"   -> mulh(a, b)
      [] op = "MULHSU" -> mulhsu(a, b)
      [] op = "MULHU"  -> (a * b) \div WordMod
      [] op = "DIV"    -> div(a, b)
      [] op = "DIVU"   -> IF b = 0 THEN WordMod - 1 ELSE a \div b
      [] op = "REM"    -> rem(a, b)
      [] op = "REMU"   -> IF b = 0 THEN a ELSE a % b

MinS_Unsigned(a, b) == IF a < b THEN a ELSE b
MinS(a, b) == IF Signed(a) < Signed(b) THEN a ELSE b
MaxS(a, b) == IF Signed(a) < Signed(b) THEN b ELSE a
MinU(a, b) == IF a < b THEN a ELSE b
MaxU(a, b) == IF a < b THEN b ELSE a

\* rv32a.execute: a is the old memory word.
aluA(op, a, b) ==
    CASE op = "AMOSWAP_W" -> b
      [] op = "AMOADD_W"  -> Wrap(a + b)
      [] op = "AMOXOR_W"  -> Xor(a, b)
      [] op = "AMOAND_W"  -> And(a, b)
      [] op = "AMOOR_W"   -> Or(a, b)
      [] op = "AMOMIN_W"  -> MinS(a, b)
      [] op = "AMOMAX_W"  -> MaxS(a, b)
      [] op = "AMOMINU_W" -> MinU(a, b)
      [] op = "AMOMAXU_W" -> MaxU(a, b)

\* zba.execute.
aluZba(op, a, b) ==
    CASE op = "SH1ADD" -> Wrap(Shl(a, 1) + b)
      [] op = "SH2ADD" -> Wrap(Shl(a, 2) + b)
      [] op = "SH3ADD" -> Wrap(Shl(a, 3) + b)

\* zbb.execute.  The complement of a rotation is 0 -% shamt, so a rotation by
\* zero shifts by zero both ways.
Complement_Width(n) == XLEN - 1 - n
Complement(n) == (XLEN - n) % XLEN
FromBytes(f) == f[0] + BYTE * f[1] + HalfMod * (f[2] + BYTE * f[3])
Clz(a) == Cardinality({n \in 0 .. XLEN - 1 : Shr(a, n) = 0})
Ctz_Zero(a) == Cardinality({n \in 1 .. XLEN - 1 : a % Pow2[n] = 0})
Ctz(a) == Cardinality({n \in 1 .. XLEN : a % Pow2[n] = 0})
Cpop(a) == Cardinality({n \in 0 .. XLEN - 1 : Bit(a, n) = 1})
aluZbb(op, a, b) ==
    CASE op = "ANDN"   -> And(a, NotW(b))
      [] op = "ORN"    -> Or(a, NotW(b))
      [] op = "XNOR"   -> Xor(a, NotW(b))
      [] op = "CLZ"    -> Clz(a)
      [] op = "CTZ"    -> Ctz(a)
      [] op = "CPOP"   -> Cpop(a)
      [] op = "MAX"    -> MaxS(a, b)
      [] op = "MAXU"   -> MaxU(a, b)
      [] op = "MIN"    -> MinS(a, b)
      [] op = "MINU"   -> MinU(a, b)
      [] op = "SEXT_B" -> SignExtend(a % BYTE, BYTE)
      [] op = "SEXT_H" -> SignExtend(a % HalfMod, HalfMod)
      [] op = "ZEXT_H" -> a % HalfMod
      [] op = "ROL"    -> Or(Shl(a, Shamt(b)), Shr(a, Complement(Shamt(b))))
      [] op \in {"ROR", "RORI"} -> Or(Shr(a, Shamt(b)), Shl(a, Complement(Shamt(b))))
      [] op = "ORC_B"  -> FromBytes([i \in 0 .. 3 |-> IF ByteOf(a, i) # 0 THEN BYTE - 1 ELSE 0])
      [] op = "REV8"   -> FromBytes([i \in 0 .. 3 |-> ByteOf(a, 3 - i)])

\* zbs.execute.
aluZbs(op, a, b) ==
    LET mask == Shl(1, Shamt(b))
    IN  CASE op \in {"BCLR", "BCLRI"} -> And(a, NotW(mask))
          [] op \in {"BEXT", "BEXTI"} -> And(Shr(a, Shamt(b)), 1)
          [] op \in {"BINV", "BINVI"} -> Xor(a, mask)
          [] op \in {"BSET", "BSETI"} -> Or(a, mask)

OpsI   == {"ADD", "SUB", "SLL", "SLT", "SLTU", "XOR", "SRL", "SRA", "OR", "AND",
           "ADDI", "SLTI", "SLTIU", "XORI", "ORI", "ANDI", "SLLI", "SRLI", "SRAI"}
OpsM   == {"MUL", "MULH", "MULHSU", "MULHU", "DIV", "DIVU", "REM", "REMU"}
OpsA   == {"AMOSWAP_W", "AMOADD_W", "AMOXOR_W", "AMOAND_W", "AMOOR_W",
           "AMOMIN_W", "AMOMAX_W", "AMOMINU_W", "AMOMAXU_W"}
OpsZba == {"SH1ADD", "SH2ADD", "SH3ADD"}
OpsZbb == {"ANDN", "ORN", "XNOR", "MAX", "MAXU", "MIN", "MINU", "ROL", "ROR", "ZEXT_H",
           "CLZ", "CTZ", "CPOP", "SEXT_B", "SEXT_H", "RORI", "ORC_B", "REV8"}
OpsZbs == {"BCLR", "BEXT", "BINV", "BSET", "BCLRI", "BEXTI", "BINVI", "BSETI"}

\* The dispatch of step(): executeI, executeM, executeA, executeZba/Zbb/Zbs.
AluResult(op, a, b) ==
    CASE op \in OpsI   -> aluI(op, a, b)
      [] op \in OpsM   -> aluM(op, a, b)
      [] op \in OpsA   -> aluA(op, a, b)
      [] op \in OpsZba -> aluZba(op, a, b)
      [] op \in OpsZbb -> aluZbb(op, a, b)
      [] op \in OpsZbs -> aluZbs(op, a, b)

=============================================================================
