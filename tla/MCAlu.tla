------------------------------- MODULE MCAlu -------------------------------
(***************************************************************************)
(* The computing instructions on every pair of 8-bit words, against        *)
(* definitions that do not compute the same way: Euclidean division, the   *)
(* double-width product, and the position every result bit comes from.     *)
(***************************************************************************)
EXTENDS AluOps

VARIABLES a, b      \* rs1_val, and rs2_val or imm_u

Init == a = 0 /\ b \in Word
Next == a < WordMod - 1 /\ a' = a + 1 /\ b' = b
Spec == Init /\ [][Next]_<<a, b>>

Alu(op) == AluResult(op, a, b)
Bits == 0 .. XLEN - 1

\* rv32m's DIV/REM and DIVU/REMU are one division: quotient times divisor plus
\* remainder is the dividend, the remainder is smaller than the divisor and has
\* the dividend's sign; also for a zero divisor (remainder = dividend, quotient
\* all ones) and for the most negative number by -1, where a word cannot hold
\* the quotient and the code takes a branch of its own.
DivisionExact ==
    LET sa == Signed(a)
        sb == Signed(b)
        r  == Signed(Alu("REM"))
    IN  /\ Alu("DIV") \in Word /\ Alu("REM") \in Word
        /\ Wrap(Alu("DIV") * b + Alu("REM")) = a
        /\ Wrap(Alu("DIVU") * b + Alu("REMU")) = a
        /\ IF b = 0 THEN Alu("DIV") = WordMod - 1 /\ Alu("DIVU") = WordMod - 1
           ELSE /\ Abs(r) < Abs(sb) /\ (r = 0 \/ (r < 0) = (sa < 0))
                /\ Alu("REMU") < b /\ Alu("DIVU") * b <= a
                /\ (sa = MinInt /\ sb = -1) \/ Signed(Alu("DIV")) * sb + r = sa

\* rv32m's MULH, MULHU and MULHSU are each the upper half of the double-width
\* product whose lower half is MUL, for the three ways to read the operands' signs.
ProductHalves ==
    /\ Signed(Alu("MULH"))   * WordMod + Alu("MUL") = Signed(a) * Signed(b)
    /\ Signed(Alu("MULHSU")) * WordMod + Alu("MUL") = Signed(a) * b
    /\ Alu("MULHU")          * WordMod + Alu("MUL") = a * b

\* Where every bit of a shift, rotation, byte permutation or single-bit
\* instruction comes from, for every shift amount: a shift by zero, a rotation
\* by zero (zbb shifts by 0 -% shamt) and amounts of XLEN and more included.
BitsMoveTo ==
    LET n == Shamt(b)
        byteBits == XLEN \div 4
        top == XLEN - 1
        sll == Alu("SLL")
        srl == Alu("SRL")
        sra == Alu("SRA")
        rol == Alu("ROL")
        ror == Alu("ROR")
        rev8 == Alu("REV8")
        sextB == Alu("SEXT_B")
        sextH == Alu("SEXT_H")
        orcB == Alu("ORC_B")
        bset == Alu("BSET")
        bclr == Alu("BCLR")
        binv == Alu("BINV")
        from(w, i, src) == Bit(w, i) = IF src \in Bits THEN Bit(a, src) ELSE 0
    IN  /\ \A i \in Bits :
             /\ from(sll, i, i - n) /\ from(srl, i, i + n)
             /\ from(sra, i, IF i + n > top THEN top ELSE i + n)
             /\ from(rol, i, (i - n) % XLEN) /\ from(ror, i, (i + n) % XLEN)
             /\ from(rev8, i, (3 - (i \div byteBits)) * byteBits + (i % byteBits))
             /\ from(sextB, i, IF i < byteBits THEN i ELSE byteBits - 1)
             /\ from(sextH, i, IF i < 2 * byteBits THEN i ELSE 2 * byteBits - 1)
             /\ Bit(orcB, i) = Bool(ByteOf(a, i \div byteBits) # 0)
             /\ from(bset, i, IF i = n THEN -1 ELSE i) \/ (i = n /\ Bit(bset, i) = 1)
             /\ from(bclr, i, IF i = n THEN -1 ELSE i)
             /\ (Bit(binv, i) = Bit(a, i)) = (i # n)
        /\ Alu("BEXT") = Bit(a, n)

\* zbb's CLZ, CTZ and CPOP agree with one another and with the value: the
\* leading and trailing zeros bracket it, a zero word has XLEN of each, and
\* CTZ is the population of the bits below the lowest set one.
CountsAgree ==
    LET c == Alu("CLZ")
        t == Alu("CTZ")
    IN  /\ a < Pow2[XLEN - c] /\ (a # 0 => a >= Pow2[XLEN - c - 1])
        /\ a % Pow2[t] = 0 /\ (IF a = 0 THEN t = XLEN ELSE Bit(a, t) = 1)
        /\ t = AluResult("CPOP", And(NotW(a), Wrap(a - 1)), 0)
        /\ Alu("CPOP") + AluResult("CPOP", NotW(a), 0) = XLEN

\* The four writings of the orders (SLT/SLTU, zbb's MIN and MAX, the AMOs of rv32a
\* and the branches) order the same pairs the same way, across the sign boundary.
OrdersAgree ==
    /\ {Alu("MIN"), Alu("MAX")} = {a, b} /\ {Alu("MINU"), Alu("MAXU")} = {a, b}
    /\ Alu("AMOMIN_W") = Alu("MIN") /\ Alu("AMOMAX_W") = Alu("MAX")
    /\ Alu("AMOMINU_W") = Alu("MINU") /\ Alu("AMOMAXU_W") = Alu("MAXU")
    /\ (Alu("SLT") = 1) = (Alu("MIN") = a /\ a # b)
    /\ (Alu("SLTU") = 1) = (Alu("MAXU") = b /\ a # b)
    /\ branchTaken("BLT", a, b) = (Alu("SLT") = 1) /\ branchTaken("BLTU", a, b) = (Alu("SLTU") = 1)
    /\ branchTaken("BGE", a, b) = ~ branchTaken("BLT", a, b)
    /\ branchTaken("BGEU", a, b) = ~ branchTaken("BLTU", a, b)
    /\ branchTaken("BEQ", a, b) = (branchTaken("BGE", a, b) /\ branchTaken("BGE", b, a))
    /\ branchTaken("BNE", a, b) = ~ branchTaken("BEQ", a, b)
    /\ (Alu("SLT") = Alu("SLTU")) = (a = b \/ Bit(a, XLEN - 1) = Bit(b, XLEN - 1))

=============================================================================
