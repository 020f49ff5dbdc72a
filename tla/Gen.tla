-------------------------------- MODULE Gen --------------------------------
(***************************************************************************)
(* The random program generator tools/spike_diff/gen.py, and the lock-step *)
(* execution of what it emits on Spike and on Determinant.                 *)
(*                                                                         *)
(* The generator keeps its programs comparable with two sets of registers: *)
(* reserved (not to be written) and noread (not to be read). Here every    *)
(* line it emits is executed at once on an abstraction of both machines:   *)
(* a register holds an unknown number equal on both (Same), an absolute     *)
(* counter, which differs (Ctr), an offset or a pointer into the data      *)
(* region with its range and alignment, or a known loop count. Every       *)
(* random choice is a \E. A loop body is emitted anew for every iteration: *)
(* the iterations of one body are among those executions.                  *)
(*                                                                         *)
(* One source register stands for the sources of an instruction, and of    *)
(* the registers without a counter one stands for all: as a source, they   *)
(* differ in nothing that is followed here.                                *)
(***************************************************************************)
EXTENDS Integers, Sequences

CONSTANTS
  Regs, CRegs,          \* the registers, with x0, and those a compressed field names
  Mixes,                \* the mixes the user asks for
  MaxItems, MaxBody, MaxTrips, MaxWindow  \* bounds: items, items of a loop, its trips, LR/SC and counter windows

\* x0, the link register and the stack pointer are registers.
ASSUME GenAssumption == {0, 1, 2} \subseteq Regs /\ CRegs \subseteq Regs

VARIABLES
  gpc,                  \* where the generator is
  mix, base,            \* of this program
  reserved, noread,     \* self.reserved, self.noread
  item,                 \* what the item being emitted remembers: its registers and its window
  loop,                 \* the counter and the length of the loop being emitted, and what follows it
  left, skip,           \* items still to emit in this block, and how many of them are jumped over
  mach                  \* the two machines

gvars == <<gpc, mix, base, reserved, noread, item, loop, left, skip, mach>>

NoItem == [t |-> 0, s |-> 0, w |-> 0]
NoLoop == [c |-> 0, n |-> 0, after |-> 0]

\* DATA_SIZE, and where BASE points.
DATA_SIZE == 2048
Middle == 1024

Categories == {"alu", "li_special", "c_alu", "c_hint", "load", "store", "c_mem", "amo", "lrsc", "sc_only",
               "branch", "c_branch", "jal", "c_jump", "jalr", "c_jr", "loop", "csr_scratch", "csr_counter", "fence"}

\* Which categories a mix draws from; "alu" stands for the seven of the register and immediate
\* operations, which every mix has one of.
MIXES ==
  [mixed  |-> Categories,
   alu    |-> {"alu", "li_special", "c_alu", "branch", "load", "store"},
   mem    |-> {"load", "store", "c_mem", "amo", "alu", "li_special", "branch", "loop", "lrsc"},
   comp   |-> {"c_alu", "c_hint", "c_mem", "c_branch", "c_jump", "c_jr", "alu", "li_special", "loop"},
   amo    |-> {"amo", "lrsc", "sc_only", "load", "store", "alu", "li_special"},
   branch |-> {"branch", "c_branch", "jal", "c_jump", "jalr", "c_jr", "loop", "alu", "li_special", "load", "store"},
   csr    |-> {"csr_scratch", "csr_counter", "alu", "li_special", "fence", "branch"}]

-----------------------------------------------------------------------------
\* The two machines (external: Spike, and Determinant as the other modules model it).
Same == [k |-> "any"]
Ctr == [k |-> "ctr"]
Off(lo, hi, al) == [k |-> "off", lo |-> lo, hi |-> hi, al |-> al]
Ptr(lo, hi, al) == [k |-> "ptr", lo |-> lo, hi |-> hi, al |-> al]
Num(n) == [k |-> "num", n |-> n]

Reg(m, r) == IF r = 0 THEN Same ELSE m.reg[r]
Set(m, r, v) == IF r = 0 THEN m ELSE [m EXCEPT !.reg[r] = v]
IsCtr(m, r) == Reg(m, r).k = "ctr"
Diverge(m, yes) == IF yes THEN [m EXCEPT !.diverged = TRUE] ELSE m
Tainted(m, S) == IF \E r \in S : IsCtr(m, r) THEN Ctr ELSE Same

\* An access of w bytes at v + imm stays in the data region and is aligned.
InData(v, imm, w) == v.k = "ptr" /\ v.lo + imm >= 0 /\ v.hi + imm + w <= DATA_SIZE /\ v.al % w = 0 /\ (v.lo + imm) % w = 0
Access(m, r, imm, w) == [Diverge(m, IsCtr(m, r)) EXCEPT !.stray = @ \/ ~ InData(Reg(m, r), imm, w)]

\* Moving a pointer or a count by a constant.
Shift(v, imm) == CASE v.k \in {"off", "ptr"} -> [v EXCEPT !.lo = @ + imm, !.hi = @ + imm]
                   [] v.k = "num" -> Num(v.n + imm)
                   [] OTHER -> v
Sum(v, u) == IF v.k = "off" /\ u.k = "ptr" THEN Ptr(v.lo + u.lo, v.hi + u.hi, v.al)
             ELSE IF "ctr" \in {v.k, u.k} THEN Ctr ELSE Same

\* A store by the hart itself drops Determinant's reservation and not Spike's.
Stored(m) == [m EXCEPT !.resv = IF @ = "held" THEN "differ" ELSE @]

Exec(m, i) ==
  CASE i.op = "alu"    -> Set(m, i.rd, Tainted(m, {i.rs}))
    [] i.op = "num"    -> Set(m, i.rd, Num(i.imm))
    [] i.op = "andi"   -> Set(m, i.rd, IF IsCtr(m, i.rs) THEN Ctr ELSE Off(0, i.imm, i.w))
    [] i.op = "add"    -> Set(m, i.rd, Sum(Reg(m, i.rd), Reg(m, i.rs)))
    [] i.op = "addi"   -> Set(m, i.rd, Shift(Reg(m, i.rs), i.imm))
    [] i.op = "sub"    -> Set(m, i.rd, IF IsCtr(m, i.rd) = IsCtr(m, i.rs) THEN Same ELSE Ctr)
    [] i.op = "load"   -> Set(Access(m, i.rs, i.imm, i.w), i.rd, Same)
    [] i.op = "store"  -> Stored(Diverge(Access(m, i.rs, i.imm, i.w), IsCtr(m, i.rd)))
    [] i.op = "amo"    -> Set(Stored(Diverge(Access(m, i.rs, 0, 4), IsCtr(m, i.w))), i.rd, Same)
    [] i.op = "lr"     -> Set([Access(m, i.rs, 0, 4) EXCEPT !.resv = "held"], i.rd, Same)
    [] i.op = "sc"     -> Set([Diverge(Access(m, i.rs, 0, 4), m.resv = "differ" \/ IsCtr(m, i.w)) EXCEPT !.resv = "none"],
                              i.rd, Same)
    [] i.op = "count"  -> Set(m, i.rd, Ctr)
    [] i.op = "csr"    -> Set(Diverge(m, IsCtr(m, i.rs)), i.rd, Same)
    [] i.op = "test"   -> Diverge(m, IsCtr(m, i.rs))
    [] OTHER           -> m

\* Lines are executed in order.
Run(m, lines) == LET after[i \in 0..Len(lines)] == IF i = 0 THEN m ELSE Exec(after[i - 1], lines[i])
                 IN  after[Len(lines)]

\* Between items only BASE and the loop counter are followed.
Settle(m, keep) ==
  [m EXCEPT !.reg = [r \in Regs \ {0} |-> IF r \in keep \/ m.reg[r].k = "ctr" THEN m.reg[r] ELSE Same]]

I(op, rd, rs, imm, w) == [op |-> op, rd |-> rd, rs |-> rs, imm |-> imm, w |-> w]
-----------------------------------------------------------------------------
\* The register choices of the generator.
wreg == (Regs \ reserved) \cup {0}
wreg0 == Regs \ (reserved \cup {0})
tmp(choices) == choices \ (reserved \cup {0})
Alike(S) == {r \in S : IsCtr(mach, r)}
              \cup (IF \A r \in S : IsCtr(mach, r) THEN {} ELSE {CHOOSE r \in S : ~ IsCtr(mach, r)})
rreg == Alike(Regs \ noread)
cw == tmp(CRegs)
cr == Alike(CRegs \ noread)

\* The lines that leave BASE + (a register & mask) in t.
addr(t, mask, w) == {<<I("andi", t, r, mask, w), I("add", t, base, 0, 0)>> : r \in rreg}

\* An address for an access of w bytes, as lines and the access's immediate: at most 1024 below
\* t, or t moved down by 2048 and the immediate up again.
mem_addr(t, w) ==
  {[lines |-> l, imm |-> i] : l \in addr(t, 1024 - w, w), i \in {- 1024, 0}}
  \cup {[lines |-> Append(l, I("addi", t, t, - 2048, 0)), imm |-> i] :
          l \in addr(t, 1024 - w, w), i \in {w * (1024 \div w), w * (2047 \div w)}}

\* The categories that are one straight line, as the sets of what they may emit.
alu_one == {<<I("alu", d, r, 0, 0)>> : d \in wreg, r \in rreg}
g_li_special == {<<I("alu", d, 0, 0, 0), I("addi", d, d, 0, 0)>> : d \in wreg}

g_c_alu ==
  {<<I("alu", d, d, 0, 0)>> : d \in wreg0}                               \* c.addi, c.slli
    \cup {<<I("alu", d, 0, 0, 0)>> : d \in wreg0 \cup tmp(Regs \ {2})}   \* c.li, c.lui
    \cup {<<I("alu", 2, 2, 0, 0)>> : x \in {2} \ reserved}               \* c.addi16sp
    \cup {<<I("alu", d, 2, 0, 0)>> : d \in cw}                           \* c.addi4spn
    \cup {<<I("alu", d, d, 0, 0)>> : d \in cw}                           \* c.srli, c.srai, c.andi
    \cup {<<I("alu", d, r, 0, 0)>> : d \in cw, r \in cr}                 \* c.sub, c.xor, c.or, c.and
    \cup {<<I("alu", d, r, 0, 0)>> : d \in wreg0, r \in Alike(Regs \ {0})} \* c.mv, c.add
    \cup {<<I("nop", 0, 0, 0, 0)>>}

\* The hints with a register keep its value: shift or addition of nothing.
g_c_hint == {<<I("alu", d, d, 0, 0)>> : d \in wreg0 \cup cw} \cup {<<I("nop", 0, 0, 0, 0)>>}

g_load == UNION {{Append(a.lines, I("load", d, t, a.imm, w)) : a \in mem_addr(t, w), d \in wreg} :
                   t \in tmp(Regs), w \in {1, 2, 4}}
g_store == UNION {{Append(a.lines, I("store", d, t, a.imm, w)) : a \in mem_addr(t, w), d \in rreg} :
                    t \in tmp(Regs), w \in {1, 2, 4}}

\* Compressed accesses: the masks leave room for the largest offset.
g_c_mem ==
  (UNION {{Append(l, I("load", d, t, off, 4)) : l \in addr(t, 892, 4), d \in cw, off \in {0, 4 * 31}} : t \in cw})
    \cup (UNION {{Append(l, I("store", d, t, off, 4)) : l \in addr(t, 892, 4), d \in cr, off \in {0, 4 * 31}} : t \in cw})
    \cup (IF 2 \in reserved THEN g_load
          ELSE {Append(l, I("load", d, 2, off, 4)) : l \in addr(2, 764, 4), d \in wreg0, off \in {0, 4 * 63}}
                 \cup {Append(l, I("store", d, 2, off, 4)) : l \in addr(2, 764, 4), d \in rreg, off \in {0, 4 * 63}})

g_amo == UNION {{Append(l, I("amo", d, t, 0, r)) : l \in addr(t, 1020, 4), d \in wreg, r \in rreg} : t \in tmp(Regs)}
g_sc_only == UNION {{Append(l, I("sc", d, t, 0, r)) : l \in addr(t, 1020, 4), d \in wreg, r \in rreg} : t \in tmp(Regs)}
g_csr_scratch == {<<I("csr", d, r, 0, 0)>> : d \in wreg, r \in rreg}
g_fence == {<<I("nop", 0, 0, 0, 0)>>}

Lines(cat) ==
  CASE cat = "alu" -> alu_one         [] cat = "li_special" -> g_li_special [] cat = "c_alu" -> g_c_alu
    [] cat = "c_hint" -> g_c_hint     [] cat = "load" -> g_load             [] cat = "store" -> g_store
    [] cat = "c_mem" -> g_c_mem       [] cat = "amo" -> g_amo               [] cat = "sc_only" -> g_sc_only
    [] cat = "csr_scratch" -> g_csr_scratch [] cat = "fence" -> g_fence

Straight == {"alu", "li_special", "c_alu", "c_hint", "load", "store", "c_mem", "amo", "sc_only",
             "csr_scratch", "fence"}

\* The categories that end in a forward jump: the lines before it, with the link register.
g_branch == {<<I("test", 0, r, 0, 0)>> : r \in rreg}
g_c_branch == {<<I("test", 0, r, 0, 0)>> : r \in cr}
g_jal == {<<I("alu", d, 0, 0, 0)>> : d \in wreg}
g_c_jump == {<<I("nop", 0, 0, 0, 0)>>} \cup (IF 1 \in reserved THEN {} ELSE {<<I("alu", 1, 0, 0, 0)>>})
g_jalr == {<<I("alu", t, 0, 0, 0), I("test", 0, t, 0, 0), I("alu", d, 0, 0, 0)>> : t \in tmp(Regs), d \in wreg}
g_c_jr == {<<I("alu", t, 0, 0, 0), I("test", 0, t, 0, 0)>> : t \in tmp(Regs)}
            \cup {<<I("alu", t, 0, 0, 0), I("test", 0, t, 0, 0), I("alu", 1, 0, 0, 0)>> :
                    t \in IF 1 \in reserved THEN {} ELSE tmp(Regs)}
Jumps(cat) ==
  CASE cat = "branch" -> g_branch [] cat = "c_branch" -> g_c_branch [] cat = "jal" -> g_jal
    [] cat = "c_jump" -> g_c_jump [] cat = "jalr" -> g_jalr         [] cat = "c_jr" -> g_c_jr
Jumping == {"branch", "c_branch", "jal", "c_jump", "jalr", "c_jr"}

-----------------------------------------------------------------------------
PowerOn == [reg |-> [r \in Regs \ {0} |-> Same], resv |-> "none", diverged |-> FALSE, stray |-> FALSE, stopped |-> FALSE]

GenInit == /\ gpc = "idle" /\ mix = "mixed" /\ base = 0 /\ reserved = {} /\ noread = {} /\ item = NoItem
           /\ loop = NoLoop /\ left = 0 /\ skip = 0 /\ mach = PowerOn

Emit(lines) == mach' = Run(mach, lines)
\* The item is complete: the next one, unless a jump passes it over.
Complete(lines) == /\ mach' = Settle(Run(mach, lines), {base, loop.c})
                   /\ left' = left - 1

\* Gen(seed, mix).program(items): the prologue sets every register and mscratch, and BASE last.
Program(x, b, n) ==
  /\ gpc \in {"idle", "done"} /\ gpc' = "block" /\ mix' = x /\ base' = b /\ reserved' = {b} /\ noread' = {}
  /\ item' = NoItem /\ loop' = NoLoop /\ left' = n /\ skip' = 0
  /\ mach' = Set(PowerOn, b, Ptr(Middle, Middle, 64))

\* An item of one straight line.
GenStraight(cat) ==
  /\ gpc = "block" /\ left > 0 /\ skip = 0
  /\ \E lines \in Lines(cat) : Complete(lines)
  /\ UNCHANGED <<gpc, mix, base, reserved, noread, item, loop, skip>>

\* An item a taken jump passes over: emitted, with reserved and noread back where they were.
GenSkipped ==
  /\ gpc = "block" /\ left > 0 /\ skip > 0 /\ left' = left - 1 /\ skip' = skip - 1
  /\ UNCHANGED <<gpc, mix, base, reserved, noread, item, loop, mach>>

\* resolve: the label is a boundary 1 to 8 items ahead, the end of the block at most; in a loop
\* the end is where the counter is decremented. A branch may also fall through.
GenJump(cat) ==
  /\ gpc = "block" /\ left > 0 /\ skip = 0
  /\ \E lines \in Jumps(cat) : Complete(lines)
  /\ \/ \E d \in 1..8 : d <= left /\ skip' = d - 1
     \/ cat \in {"branch", "c_branch"} /\ skip' = 0
  /\ UNCHANGED <<gpc, mix, base, reserved, noread, item, loop>>

-----------------------------------------------------------------------------
\* g_lrsc: the address and the LR; t stays reserved up to the SC.
GenLr(t, d) ==
  /\ gpc = "block" /\ left > 0 /\ skip = 0 /\ t \in tmp(Regs) /\ d \in wreg \ {t}
  /\ \E lines \in addr(t, 1020, 4) : Emit(Append(lines, I("lr", d, t, 0, 0)))
  /\ gpc' = "lrsc" /\ item' = [t |-> t, s |-> t, w |-> 0] /\ reserved' = reserved \cup {t}
  /\ UNCHANGED <<mix, base, noread, loop, left, skip>>

\* Loads and register operations between LR and SC, and between the two counter reads: no store,
\* no AMO. Only the LR/SC window has loads.
window(kind) == alu_one \cup (IF kind = "lrsc" THEN g_load ELSE {})

GenWindow ==
  /\ gpc \in {"lrsc", "counter"} /\ item.w < MaxWindow
  /\ \E lines \in window(gpc) : Emit(lines)
  /\ item' = [item EXCEPT !.w = @ + 1]
  /\ UNCHANGED <<gpc, mix, base, reserved, noread, loop, left, skip>>

\* An SC to an address of its own: that register is reserved as well.
GenScAddr(s) ==
  /\ gpc = "lrsc" /\ item.s = item.t /\ s \in tmp(Regs)
  /\ \E lines \in addr(s, 1020, 4) : Emit(lines)
  /\ item' = [item EXCEPT !.s = s, !.w = MaxWindow] /\ reserved' = reserved \cup {s}
  /\ UNCHANGED <<gpc, mix, base, noread, loop, left, skip>>

\* The SC that consumes the reservation, the last line unless a second one follows.
GenSc(second, d, r) ==
  /\ gpc = "lrsc"
  /\ reserved' = IF second THEN reserved ELSE reserved \ {item.t, item.s}
  /\ d \in (Regs \ reserved') \cup {0}
  /\ IF second THEN Emit(<<I("sc", d, item.s, 0, r)>>) /\ gpc' = "sc2" /\ UNCHANGED <<left, item>>
     ELSE Complete(<<I("sc", d, item.s, 0, r)>>) /\ gpc' = "block" /\ item' = NoItem
  /\ UNCHANGED <<mix, base, noread, loop, skip>>

GenSc2(d, r) ==
  /\ gpc = "sc2" /\ reserved' = reserved \ {item.t, item.s}
  /\ d \in (Regs \ reserved') \cup {0}
  /\ Complete(<<I("sc", d, item.s, 0, r)>>) /\ gpc' = "block" /\ item' = NoItem
  /\ UNCHANGED <<mix, base, noread, loop, skip>>

\* g_csr_counter: a holds the absolute count, so nothing may write it or read it until the delta.
GenCounter_Readable(a, b) ==
  /\ gpc = "block" /\ left > 0 /\ skip = 0 /\ a \in tmp(Regs) /\ b \in tmp(Regs) \ {a}
  /\ Emit(<<I("count", a, 0, 0, 0)>>)
  /\ reserved' = reserved \cup {a} /\ noread' = noread
  /\ gpc' = "counter" /\ item' = [t |-> a, s |-> b, w |-> 0]
  /\ UNCHANGED <<mix, base, loop, left, skip>>

GenCounter(a, b) ==
  /\ gpc = "block" /\ left > 0 /\ skip = 0 /\ a \in tmp(Regs) /\ b \in tmp(Regs) \ {a}
  /\ Emit(<<I("count", a, 0, 0, 0)>>)
  /\ reserved' = reserved \cup {a} /\ noread' = noread \cup {a}
  /\ gpc' = "counter" /\ item' = [t |-> a, s |-> b, w |-> 0]
  /\ UNCHANGED <<mix, base, loop, left, skip>>

GenDelta ==
  /\ gpc = "counter" /\ gpc' = "block" /\ item' = NoItem
  /\ Complete(<<I("count", item.s, 0, 0, 0), I("sub", item.s, item.t, 0, 0), I("addi", item.t, item.s, 0, 0)>>)
  /\ reserved' = reserved \ {item.t} /\ noread' = noread \ {item.t}
  /\ UNCHANGED <<mix, base, loop, skip>>

\* The high halves of the counters are 0 on both machines.
GenHigh(d) ==
  /\ gpc = "block" /\ left > 0 /\ skip = 0 /\ d \in wreg
  /\ Complete(<<I("alu", d, 0, 0, 0)>>)
  /\ UNCHANGED <<gpc, mix, base, reserved, noread, item, loop, skip>>

-----------------------------------------------------------------------------
\* g_loop: not inside another one; the counter is reserved while the body is emitted.
GenLoop(c, n, k) ==
  /\ gpc = "block" /\ left > 0 /\ skip = 0 /\ loop = NoLoop /\ c \in tmp(Regs \ {1, 2})
  /\ mach' = Run(mach, <<I("num", c, 0, n, 0)>>)
  /\ reserved' = reserved \cup {c}
  /\ loop' = [c |-> c, n |-> k, after |-> left - 1] /\ left' = k
  /\ UNCHANGED <<gpc, mix, base, noread, item, skip>>

\* The bottom of the loop: decrement, and around again while the counter is not zero. A counter
\* that is not the known one may go either way.
Bottom == Run(mach, <<I("addi", loop.c, loop.c, - 1, 0)>>)
GenLoopAgain ==
  /\ gpc = "block" /\ left = 0 /\ loop # NoLoop /\ Reg(Bottom, loop.c) # Num(0)
  /\ mach' = Diverge(Bottom, IsCtr(Bottom, loop.c)) /\ left' = loop.n /\ skip' = 0
  /\ UNCHANGED <<gpc, mix, base, reserved, noread, item, loop>>

GenLoopEnd ==
  /\ gpc = "block" /\ left = 0 /\ loop # NoLoop /\ (Reg(Bottom, loop.c).k = "num" => Reg(Bottom, loop.c) = Num(0))
  /\ mach' = Settle(Bottom, {base}) /\ left' = loop.after /\ loop' = NoLoop /\ reserved' = reserved \ {loop.c} /\ skip' = 0
  /\ UNCHANGED <<gpc, mix, base, noread, item>>

-----------------------------------------------------------------------------
\* terminator: a trap instruction, an access off its alignment or outside both memories, a jump
\* out of them, an illegal CSR access or encoding. All of them stop both machines.
MisalignedOffsets(w) == {w * n + r : n \in {- 100, 0, 100}, r \in 1..w - 1}
Unmapped == 327680   \* 0x50 << 12, the end of both memories
terminator ==
  {[how |-> "trap", at |-> 0, w |-> 1]}                                              \* ebreak, ecall, c.ebreak
    \cup (UNION {[how : {"access"}, at : MisalignedOffsets(w), w : {w}] : w \in {2, 4}}) \* loads and stores
    \cup {[how |-> "access", at |-> o, w |-> 4] : o \in {1, 2, 3, - 1, - 2, 6}}      \* AMO, LR, SC
    \cup {[how |-> "unmapped", at |-> Unmapped + o, w |-> w] : o \in {0, 4, 8, 2047}, w \in {1, 2, 4}}
    \cup {[how |-> "illegal", at |-> 0, w |-> 1]}                                    \* CSRs and encodings

Stops(m, e) == CASE e.how = "access" -> Reg(m, base).k = "ptr" /\ (Reg(m, base).lo + e.at) % e.w # 0
                 [] e.how = "unmapped" -> e.at >= Unmapped
                 [] OTHER -> TRUE

GenTerminator(e) ==
  /\ gpc = "block" /\ left = 0 /\ loop = NoLoop /\ e \in terminator
  /\ gpc' = "done" /\ mach' = [mach EXCEPT !.stopped = Stops(mach, e)] /\ skip' = 0
  /\ UNCHANGED <<mix, base, reserved, noread, item, loop, left>>

\* block(n): the weighted choice among the mix's categories.
GenItem ==
  \/ \E cat \in MIXES[mix] \cap Straight : GenStraight(cat)
  \/ \E cat \in MIXES[mix] \cap Jumping : GenJump(cat)
  \/ "lrsc" \in MIXES[mix] /\ \E t, d \in Regs : GenLr(t, d)
  \/ "csr_counter" \in MIXES[mix] /\ \E a, b \in Regs : GenCounter(a, b)
  \/ "csr_counter" \in MIXES[mix] /\ \E d \in Regs : GenHigh(d)
  \/ "loop" \in MIXES[mix] /\ \E c \in Regs, n \in 1..MaxTrips, k \in 1..MaxBody : GenLoop(c, n, k)
  \/ GenSkipped \/ GenWindow \/ GenDelta \/ GenLoopAgain \/ GenLoopEnd
  \/ \E s \in Regs : GenScAddr(s)
  \/ \E second \in BOOLEAN, d \in Regs, r \in rreg : GenSc(second, d, r)
  \/ \E d \in Regs, r \in rreg : GenSc2(d, r)
  \/ \E e \in terminator : GenTerminator(e)

\* A program of any mix, with BASE among x3 to x31.
GenStart == \E x \in Mixes, b \in Regs \ {0, 1, 2}, n \in 1..MaxItems : Program(x, b, n)

GenSpec == GenInit /\ [][GenStart \/ GenItem]_gvars

-----------------------------------------------------------------------------
(* Properties *)

\* No generated program can end differently on the two machines when both are right: no counter
\* value reaches memory, a CSR, a branch, an address or the final registers, no SC meets a
\* reservation that only one machine still holds, every access before the terminator is aligned and
\* inside the 2 KiB data region whatever the registers hold, and the terminator stops both. These are
\* the rules in the head of gen.py, kept by reserved and noread across windows, loops and jumps.
ProgramsAgree ==
  /\ ~ mach.diverged /\ ~ mach.stray
  /\ gpc = "done" => mach.stopped /\ \A r \in Regs : ~ IsCtr(mach, r)

=============================================================================
