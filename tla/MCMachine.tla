----------------------------- MODULE MCMachine -----------------------------
(***************************************************************************)
(* The machine TLC runs:    2-bit bytes, 8-bit words, three registers,    *)
(* twelve bytes of memory, and an instruction encoding small enough to     *)
(* write programs in.  A 32-bit instruction is 3 + 4k, a compressed one a  *)
(* halfword below 16 whose low two bits are not 3.                         *)
(***************************************************************************)
EXTENDS Words, Sequences

A == INSTANCE AluOps

\* The operations the encoding below has, and the two that Csr.execute uses.
MCAlu(op, a, b) ==
    IF op \in {"ADD", "ADDI", "AMOADD_W", "OR", "ANDN"} THEN A!AluResult(op, a, b) ELSE 0

I(op, rd, rs1, rs2, imm, csr) ==
    [op |-> op, rd |-> rd, rs1 |-> rs1, rs2 |-> rs2, imm |-> imm, csr |-> csr]

Long ==
    <<I("LR_W", 1, 2, 0, 0, "other_rw"),        I("SC_W", 1, 2, 1, 0, "other_rw"),
      I("AMOADD_W", 1, 2, 1, 0, "other_rw"),    I("SW", 0, 2, 1, 0, "other_rw"),
      I("SB", 0, 2, 1, 1, "other_rw"),          I("SH", 0, 2, 1, 2, "other_rw"),
      I("LW", 1, 2, 0, 0, "other_rw"),          I("LB", 1, 2, 0, 3, "other_rw"),
      I("LHU", 1, 2, 0, 2, "other_rw"),         I("ADDI", 2, 2, 0, 4, "other_rw"),
      I("ADD", 1, 1, 2, 0, "other_rw"),         I("JAL", 1, 0, 0, 252, "other_rw"),
      I("JALR", 1, 1, 0, 1, "other_rw"),        I("BNE", 0, 1, 2, 252, "other_rw"),
      I("CSRRW", 1, 1, 0, 0, "mscratch"),       I("CSRRW", 1, 1, 0, 0, "cycle"),
      I("CSRRS", 1, 0, 0, 0, "cycle"),          I("CSRRCI", 1, 2, 0, 0, "mscratch"),
      I("CSRRS", 1, 1, 0, 0, "other_ro"),       I("CSRRW", 0, 1, 0, 0, "other_rw"),
      I("ECALL", 0, 0, 0, 0, "other_rw"),       I("LUI", 1, 0, 0, 48, "other_rw"),
      I("AUIPC", 1, 0, 0, 16, "other_rw"),      I("FENCE", 0, 0, 0, 0, "other_rw"),
      I("SB", 0, 0, 1, 4, "other_rw"),          I("CSRRSI", 1, 1, 0, 0, "mscratch")>>

Short ==
    [c \in {0, 1, 2, 4, 5, 6, 8, 9, 10, 12, 13, 14} |->
        CASE c = 1  -> I("ADDI", 0, 0, 0, 0, "other_rw")      \* c.nop
          [] c = 2  -> I("ADDI", 1, 1, 0, 1, "other_rw")      \* c.addi
          [] c = 4  -> I("EBREAK", 0, 0, 0, 0, "other_rw")    \* c.ebreak
          [] c = 5  -> I("SW", 0, 2, 1, 0, "other_rw")        \* c.sw
          [] c = 6  -> I("LW", 1, 2, 0, 0, "other_rw")        \* c.lw
          [] c = 8  -> I("JAL", 0, 0, 0, 254, "other_rw")     \* c.j
          [] c = 9  -> I("JALR", 0, 1, 0, 0, "other_rw")      \* c.jr
          [] c = 10 -> I("BEQ", 0, 1, 0, 4, "other_rw")       \* c.beqz
          [] OTHER  -> I("ILLEGAL", 0, 0, 0, 0, "other_rw")]

DecodeTable ==
    [raw \in Word |->
        LET i == CASE raw % 4 = 3 /\ raw \div 4 \in 1 .. Len(Long) -> Long[raw \div 4]
                   [] raw \in DOMAIN Short -> Short[raw]
                   [] OTHER -> I("ILLEGAL", 0, 0, 0, 0, "other_rw")
        IN  [op |-> i.op, rd |-> i.rd, rs1 |-> i.rs1, rs2 |-> i.rs2, imm |-> i.imm,
             csr |-> i.csr, raw |-> raw]]
MCDecode(raw) == DecodeTable[raw]

\* The bytes of the k-th 32-bit instruction, and of a compressed one.
L(k) == <<3, k % 4, (k \div 4) % 4, k \div 16>>
S(c) == <<c % 4, c \div 4>>
At(a, bytes) == [at |-> a, bytes |-> bytes]

=============================================================================
