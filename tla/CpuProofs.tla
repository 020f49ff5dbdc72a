----------------------------- MODULE CpuProofs -----------------------------
(***************************************************************************)
(* The machine of module Cpu, for every byte size, memory size, register   *)
(* count, cache size, decoder, ALU and host.  First the struct stays well  *)
(* formed: every method preserves VmInv.  Then what step() does to a       *)
(* well-formed struct, instruction by instruction, and the theorems about  *)
(* step() and run() that follow.  Last, the machine implements the hart of *)
(* module Hart: its initial state maps to an initial state of the hart,    *)
(* and every step of it to a step of the hart or to one that changes       *)
(* nothing the hart has.                                                   *)
(***************************************************************************)
EXTENDS Cpu, TLAPS

-----------------------------------------------------------------------------
(* Words: the scaled integers and the little-endian memory, for every size  *)
(* of a byte.                                                               *)

\* Multiplication is monotonic: the only nonlinear step about words.
LEMMA Monotone ==
    ASSUME NEW k \in Nat, NEW a \in Nat, NEW b \in Nat, a <= b
    PROVE  k * a <= k * b /\ k * a \in Nat
  OBVIOUS

\* A low digit x below m and a high part y below n make a number below m * n.
LEMMA Positional ==
    ASSUME NEW m \in Nat, NEW n \in Nat, m > 0, n > 0,
           NEW x \in 0 .. m - 1, NEW y \in 0 .. n - 1
    PROVE  x + m * y \in 0 .. m * n - 1
<1>1. m * y <= m * (n - 1) /\ m * y \in Nat
  BY Monotone
<1>2. m * (n - 1) = m * n - m
  OBVIOUS
<1> QED BY <1>1, <1>2

\* The moduli are positive, ordered, and multiples of four.
LEMMA Moduli ==
    /\ BYTE \in Nat /\ BYTE >= 4
    /\ HalfMod \in Nat /\ HalfMod >= 4 * BYTE
    /\ WordMod \in Nat /\ WordMod >= 4 * HalfMod
<1>1. BYTE \in Nat /\ BYTE >= 4
  BY ByteAssumption
<1>2. HalfMod \in Nat /\ HalfMod >= 4 * BYTE
  BY <1>1, Monotone DEF HalfMod
<1>3. WordMod \in Nat /\ WordMod >= 4 * HalfMod
  BY <1>1, <1>2, Monotone DEF WordMod
<1> QED BY <1>1, <1>2, <1>3

\* A remainder is below its divisor.
LEMMA ModRange ==
    ASSUME NEW a \in Int, NEW m \in Nat, m > 0
    PROVE  a % m \in 0 .. m - 1
  OBVIOUS

LEMMA AddWType ==
    ASSUME NEW a \in Int, NEW b \in Int
    PROVE  AddW(a, b) \in Word
  BY Moduli, ModRange DEF AddW, Word

\* Reading two or four bytes of a byte memory gives a halfword or a word.
LEMMA HalfAtType ==
    ASSUME NEW D, NEW m \in [D -> Byte], NEW a, a \in D, a + 1 \in D
    PROVE  HalfAt(m, a) \in Half
<1>1. m[a] \in 0 .. BYTE - 1 /\ m[a + 1] \in 0 .. BYTE - 1
  BY DEF Byte
<1>2. m[a] + BYTE * m[a + 1] \in 0 .. BYTE * BYTE - 1
  BY <1>1, Moduli, Positional
<1> QED BY <1>2 DEF HalfAt, Half, HalfMod

LEMMA WordAtType ==
    ASSUME NEW D, NEW m \in [D -> Byte], NEW a \in Int,
           a \in D, a + 1 \in D, a + 2 \in D, a + 3 \in D
    PROVE  WordAt(m, a) \in Word
<1>1. HalfAt(m, a) \in 0 .. HalfMod - 1
  BY HalfAtType DEF Half
<1>2. a + 2 + 1 = a + 3
  OBVIOUS
<1>3. HalfAt(m, a + 2) \in 0 .. HalfMod - 1
  BY <1>2, HalfAtType DEF Half
<1>4. HalfAt(m, a) + HalfMod * HalfAt(m, a + 2) \in 0 .. HalfMod * HalfMod - 1
  BY <1>1, <1>3, Moduli, Positional
<1> QED BY <1>4 DEF WordAt, Word, WordMod

LEMMA HalfIsWord == Half \subseteq Word
  BY Moduli DEF Half, Word

LEMMA ByteIsWord == Byte \subseteq Word
  BY Moduli DEF Byte, Word

LEMMA ByteOfType ==
    ASSUME NEW v \in Nat, NEW i \in 0 .. 3
    PROVE  ByteOf(v, i) \in Byte
<1>1. \A x \in Int : x % BYTE \in Byte
  BY Moduli, ModRange DEF Byte
<1>2. \A k \in Nat \ {0} : v \div k \in Int
  OBVIOUS
<1>3. HalfMod * BYTE \in Nat /\ HalfMod * BYTE # 0
  BY Moduli
<1>4. v \div BYTE \in Int /\ v \div HalfMod \in Int /\ v \div (HalfMod * BYTE) \in Int
  BY <1>2, <1>3, Moduli
<1> QED BY <1>1, <1>4 DEF ByteOf

\* Storing up to four bytes keeps a byte memory a byte memory.
LEMMA StoreLEType ==
    ASSUME NEW D, D \subseteq Int, NEW m \in [D -> Byte], NEW a \in Int, NEW n \in 0 .. 4, NEW v \in Nat
    PROVE  StoreLE(m, a, n, v) \in [D -> Byte]
<1>1. ASSUME NEW x \in D, a <= x, x < a + n
      PROVE  ByteOf(v, x - a) \in Byte
  <2>1. x - a \in 0 .. 3
    BY <1>1
  <2> QED BY <2>1, ByteOfType
<1> QED BY <1>1 DEF StoreLE

LEMMA SignExtendType ==
    /\ \A v \in Byte : SignExtend(v, BYTE) \in Word
    /\ \A v \in Half : SignExtend(v, HalfMod) \in Word
<1>1. ASSUME NEW k \in Nat, k <= WordMod, NEW v \in 0 .. k - 1
      PROVE  SignExtend(v, k) \in Word
  BY <1>1, Moduli DEF SignExtend, Word
<1> QED BY <1>1, Moduli DEF Byte, Half

\* Clearing bit 0 of a word leaves an even word.
LEMMA ClearBit0 ==
    ASSUME NEW w \in Word
    PROVE  w - (w % 2) \in Word /\ (w - (w % 2)) % 2 = 0
  BY Moduli DEF Word

\* Adding halfwords or words above a number leaves its low two bits alone.
LEMMA HalfModFour ==
    /\ WordMod % 4 = 0
    /\ \A h, x \in Nat : (h + HalfMod * x) % 4 = h % 4
<1> DEFINE j == BYTE \div 4
<1>1. j \in Nat /\ BYTE = 4 * j
  BY ByteAssumption
<1> HIDE DEF j
<1>2. HalfMod = 4 * (j * BYTE) /\ j * BYTE \in Nat
  BY <1>1, Moduli DEF HalfMod
<1>3. \A q \in Nat : HalfMod * q = 4 * ((j * BYTE) * q) /\ (j * BYTE) * q \in Nat
  BY <1>2
<1>4. \A h, y \in Nat : (h + 4 * y) % 4 = h % 4
  OBVIOUS
<1>5. WordMod % 4 = 0
  <2>1. PICK y \in Nat : WordMod = 4 * y
    BY <1>3, Moduli DEF WordMod
  <2> QED BY <2>1
<1> QED BY <1>3, <1>4, <1>5

-----------------------------------------------------------------------------
(* The struct. *)

\* The invariants of the struct that the safety properties are about; one
\* lemma per method shows that the method preserves them.
ReservationOK(s) ==
    s.reservation # NoReservation => s.reservation % 4 = 0 /\ s.reservation <= MemSize - 4
SlotOK(slot) == slot = EmptySlot \/ (slot = Decode(slot.raw) /\ slot.op # "ILLEGAL")
CacheOK(s) == \A i \in Slots : SlotOK(s.decode_cache[i])
VmInv(s) == s \in VM /\ ReservationOK(s) /\ s.regs[0] = 0 /\ CacheOK(s)

-----------------------------------------------------------------------------
(* The constants. *)

LEMMA Constants ==
    /\ MemSize \in Nat /\ MemSize >= 4 /\ MemSize % 4 = 0 /\ MemSize < WordMod
    /\ NumRegs \in Nat /\ NumRegs > 0 /\ 0 \in Regs /\ Regs \subseteq Word
    /\ CountMod \in Nat /\ CountMod > 1 /\ 0 \in Count
    /\ 0 \in Word /\ 1 \in Word /\ 0 \in Byte
    /\ CacheEntries \in Nat
  BY MachineAssumption, CacheAssumption, Moduli DEF Regs, Word, Count, Byte

LEMMA EmptySlotType == EmptySlot \in Instruction /\ SlotOK(EmptySlot)
<1>1. WordMod - 4 \in Word
  BY Moduli DEF Word
<1>2. "ECALL" \in Ops /\ "other_rw" \in CsrAddrs
  BY DEF Ops, SystemOps, CsrAddrs
<1> QED BY <1>1, <1>2, Constants DEF EmptySlot, Instruction, SlotOK

LEMMA PowerOnInv == VmInv(PowerOn)
<1>1. PowerOn \in VM
  BY Constants, EmptySlotType DEF PowerOn, VM, EmptyCache, NoReservation
<1>2. CacheOK(PowerOn)
  BY EmptySlotType DEF CacheOK, PowerOn, EmptyCache
<1> QED BY <1>1, <1>2, Constants DEF VmInv, ReservationOK, PowerOn, NoReservation

-----------------------------------------------------------------------------
(* Registers, memory and the reservation. *)

LEMMA WriteRegInv ==
    ASSUME NEW s, VmInv(s), NEW r \in Regs, NEW v \in Word
    PROVE  VmInv(writeReg(s, r, v))
  BY Constants DEF VmInv, VM, writeReg, ReservationOK, CacheOK

LEMMA DropReservation ==
    ASSUME NEW s, VmInv(s)
    PROVE  VmInv([s EXCEPT !.reservation = NoReservation])
  BY DEF VmInv, VM, ReservationOK, CacheOK

LEMMA WriteInv ==
    ASSUME NEW s, VmInv(s), NEW a \in Word, NEW n \in {1, 2, 4}, NEW v \in Word
    PROVE  VmInv(write(s, a, n, v).vm)
<1>1. StoreLE(s.memory, a, n, v) \in [Addrs -> Byte]
  <2>1. s.memory \in [Addrs -> Byte] /\ Addrs \subseteq Int
    BY DEF VmInv, VM, Addrs
  <2>2. a \in Int /\ n \in 0 .. 4 /\ v \in Nat
    BY DEF Word
  <2> QED BY <2>1, <2>2, StoreLEType
<1> DEFINE t == [s EXCEPT !.memory = StoreLE(s.memory, a, n, v)]
<1>2. VmInv(t)
  BY <1>1 DEF VmInv, VM, ReservationOK, CacheOK
<1>3. VmInv(invalidateReservation(t, a))
  BY <1>2, DropReservation DEF invalidateReservation
<1> QED BY <1>3 DEF write

LEMMA LoadProgramInv ==
    ASSUME NEW s, VmInv(s), NEW p \in [at: Word, bytes: Seq(Byte)]
    PROVE  VmInv(loadProgram(s, p).vm)
<1> DEFINE len == Len(p.bytes)
           m == [x \in Addrs |-> IF p.at <= x /\ x < p.at + len
                                 THEN p.bytes[x - p.at + 1] ELSE s.memory[x]]
           t == [s EXCEPT !.memory = m]
<1>1. m \in [Addrs -> Byte]
  <2>1. ASSUME NEW x \in Addrs, p.at <= x, x < p.at + len
        PROVE  p.bytes[x - p.at + 1] \in Byte
    <3>1. p.bytes \in Seq(Byte) /\ len \in Nat /\ p.at \in Nat /\ x \in Nat
      BY DEF Word, Addrs
    <3>2. x - p.at + 1 \in 1 .. len
      BY <3>1, <2>1
    <3> QED BY <3>1, <3>2
  <2>2. \A x \in Addrs : s.memory[x] \in Byte
    BY DEF VmInv, VM
  <2> QED BY <2>1, <2>2
<1>2. VmInv(t)
  BY <1>1 DEF VmInv, VM, ReservationOK, CacheOK
<1>3. VmInv(invalidateReservationRange(t, p.at, len))
  BY <1>2, DropReservation DEF invalidateReservationRange
<1> QED BY <1>3 DEF loadProgram

-----------------------------------------------------------------------------
(* Fetch and the decode cache. *)

\* The bits fetch returns are a word, and never the bits that mark an empty
\* slot: those are a multiple of four above every halfword.
LEMMA FetchType ==
    ASSUME NEW s, VmInv(s), fetch(s).err = NoError
    PROVE  fetch(s).raw \in Word /\ fetch(s).raw # WordMod - 4
<1> DEFINE low == HalfAt(s.memory, s.pc)
<1>1. s.memory \in [Addrs -> Byte] /\ s.pc \in Nat
  BY DEF VmInv, VM, Word
<1>2. s.pc <= MemSize - 2
  BY <1>1, Constants DEF fetch, NoError
<1>3. low \in Half
  <2>1. s.pc \in Addrs /\ s.pc + 1 \in Addrs
    BY <1>1, <1>2, Constants DEF Addrs
  <2> QED BY <1>1, <2>1, HalfAtType
<1>4. CASE isCompressed(low)
  <2>1. fetch(s).raw = low
    BY <1>2, <1>4, <1>1, Constants DEF fetch, NoError
  <2>2. low < WordMod - 4 /\ low \in Word
    BY <1>3, Moduli DEF Half, Word
  <2> QED BY <2>1, <2>2, <1>3, Moduli DEF Half
<1>5. CASE ~isCompressed(low)
  <2>1. s.pc <= MemSize - 4 /\ fetch(s).raw = WordAt(s.memory, s.pc)
    BY <1>1, <1>2, <1>5, Constants DEF fetch, NoError
  <2>2. s.pc \in Addrs /\ s.pc + 1 \in Addrs /\ s.pc + 2 \in Addrs /\ s.pc + 3 \in Addrs
    BY <2>1, <1>1, Constants DEF Addrs
  <2>3. WordAt(s.memory, s.pc) \in Word
    BY <1>1, <2>2, WordAtType
  <2>4. WordAt(s.memory, s.pc) % 4 = 3
    <3>1. HalfAt(s.memory, s.pc + 2) \in Nat
      <4>1. s.pc + 2 + 1 = s.pc + 3
        BY <1>1
      <4> QED BY <4>1, <1>1, <2>2, HalfAtType DEF Half
    <3>2. low % 4 = 3 /\ low \in Nat
      BY <1>5, <1>3 DEF isCompressed, Half
    <3> QED BY <3>1, <3>2, HalfModFour DEF WordAt
  <2>5. (WordMod - 4) % 4 = 0
    BY HalfModFour, Moduli
  <2> QED BY <2>1, <2>3, <2>4, <2>5
<1> QED BY <1>4, <1>5

LEMMA SlotIndex ==
    ASSUME NEW s, VmInv(s), CacheEntries # 0
    PROVE  slotOf(s) \in Slots
<1>1. s.pc \in Nat /\ s.pc \div 2 \in Int
  BY DEF VmInv, VM, Word
<1> QED BY <1>1, ModRange, Constants DEF slotOf, Slots

\* decodeCached returns what the decoder returns, hit or miss.
LEMMA DecodeCachedCorrect ==
    ASSUME NEW s, VmInv(s), NEW raw \in Word, raw # WordMod - 4
    PROVE  LET d == decodeCached(s, raw)
           IN  /\ VmInv(d.vm)
               /\ d.inst = Decode(raw)
               /\ d.err = IF Decode(raw).op = "ILLEGAL" THEN "IllegalInstruction" ELSE NoError
               /\ Arch(d.vm) = Arch(s)
               /\ d.vm.stop_pc = s.stop_pc
<1>1. Decode(raw) \in Instruction /\ Decode(raw).raw = raw
  BY DecodeAssumption
<1>2. CASE CacheEntries = 0
  BY <1>2 DEF decodeCached
<1>3. CASE CacheEntries # 0 /\ s.decode_cache[slotOf(s)].raw = raw
  <2>1. SlotOK(s.decode_cache[slotOf(s)])
    BY <1>3, SlotIndex DEF VmInv, CacheOK
  <2>2. s.decode_cache[slotOf(s)] = Decode(raw) /\ Decode(raw).op # "ILLEGAL"
    BY <1>3, <2>1 DEF SlotOK, EmptySlot
  <2> QED BY <1>3, <2>2 DEF decodeCached
<1>4. CASE CacheEntries # 0 /\ s.decode_cache[slotOf(s)].raw # raw
  <2>1. slotOf(s) \in Slots
    BY <1>4, SlotIndex
  <2>2. CASE Decode(raw).op = "ILLEGAL"
    BY <1>4, <2>2 DEF decodeCached
  <2>3. CASE Decode(raw).op # "ILLEGAL"
    <3> DEFINE t == [s EXCEPT !.decode_cache = [s.decode_cache EXCEPT ![slotOf(s)] = Decode(raw)]]
    <3>1. SlotOK(Decode(raw))
      BY <1>1, <2>3 DEF SlotOK
    <3>2. t \in VM
      BY <1>1, <2>1 DEF VmInv, VM
    <3>3. CacheOK(t)
      BY <3>1, <2>1 DEF VmInv, CacheOK, VM
    <3>4. VmInv(t) /\ Arch(t) = Arch(s) /\ t.stop_pc = s.stop_pc
      BY <3>2, <3>3 DEF VmInv, ReservationOK, VM, Arch
    <3>5. decodeCached(s, raw) = [err |-> NoError, vm |-> t, inst |-> Decode(raw)]
      BY <1>4, <2>3 DEF decodeCached
    <3> HIDE DEF t
    <3> QED BY <3>4, <3>5, <2>3
  <2> QED BY <2>2, <2>3
<1> QED BY <1>2, <1>3, <1>4

-----------------------------------------------------------------------------
(* Execution. *)

\* What an execute operator returns for the struct s: a well-formed struct,
\* and s itself when it faults.
ExecOK(s, x) ==
    /\ VmInv(x.vm)
    /\ x.err \in StepErrors \cup {NoError}
    /\ x.result \in {"continue", "ecall", "ebreak"}
    /\ x.next_pc \in Word
    /\ x.err # NoError => x.vm = s

LEMMA ExecutedOK ==
    ASSUME NEW s, NEW t, VmInv(t), NEW n \in Word
    PROVE  ExecOK(s, Executed(t, n))
  BY DEF ExecOK, Executed, NoError

LEMMA StoppedOK ==
    ASSUME NEW s, VmInv(s), NEW n \in Word, NEW r \in {"ecall", "ebreak"}
    PROVE  ExecOK(s, Stopped(s, r, n))
  BY DEF ExecOK, Stopped, NoError

LEMMA FaultedOK ==
    ASSUME NEW s, VmInv(s), NEW e \in StepErrors
    PROVE  ExecOK(s, Faulted(s, e))
  BY DEF ExecOK, Faulted, VmInv, VM

LEMMA AccessErrorType ==
    ASSUME NEW a \in Word, NEW n \in {1, 2, 4}
    PROVE  /\ accessError(a, n) \in StepErrors \cup {NoError}
           /\ accessError(a, n) = NoError => a % n = 0 /\ a <= MemSize - n
<1>1. a \in Int /\ a % n \in Int /\ MemSize - n \in Int
  BY Constants DEF Word
<1>2. "MisalignedAccess" # NoError /\ "AddressOutOfBounds" # NoError
  BY DEF NoError
<1>3. {"MisalignedAccess", "AddressOutOfBounds"} \subseteq StepErrors
  BY DEF StepErrors
<1> QED BY <1>1, <1>2, <1>3 DEF accessError

\* A failed write changes nothing.
LEMMA WriteFails ==
    ASSUME NEW s, NEW a, NEW n, NEW v, write(s, a, n, v).err # NoError
    PROVE  write(s, a, n, v).vm = s /\ write(s, a, n, v).err = accessError(a, n)
  BY DEF write

LEMMA WidthType ==
    ASSUME NEW op
    PROVE  width(op) \in {1, 2, 4}
  BY DEF width

\* A load whose access check passed writes a word to rd.
LEMMA LoadedType ==
    ASSUME NEW s, VmInv(s), NEW op, NEW a \in Word,
           op \in LoadOps \cup {"LR_W"}, accessError(a, width(op)) = NoError
    PROVE  loaded(s.memory, op, a) \in Word
<1>1. s.memory \in [Addrs -> Byte] /\ a \in Nat
  BY DEF VmInv, VM, Word
<1>2. a <= MemSize - width(op) /\ width(op) \in {1, 2, 4}
  BY WidthType, AccessErrorType
<1>3. CASE op \in {"LB", "LBU"}
  <2>1. a \in Addrs
    BY <1>1, <1>2, Constants DEF Addrs
  <2> QED BY <1>1, <1>3, <2>1, SignExtendType, ByteIsWord DEF loaded
<1>4. CASE op \in {"LH", "LHU"}
  <2>1. width(op) = 2
    BY <1>4 DEF width
  <2>2. a \in Addrs /\ a + 1 \in Addrs
    BY <1>1, <1>2, <2>1, Constants DEF Addrs
  <2>3. HalfAt(s.memory, a) \in Half
    BY <1>1, <2>2, HalfAtType
  <2> QED BY <1>4, <2>3, SignExtendType, HalfIsWord DEF loaded
<1>5. CASE op \in {"LW", "LR_W"}
  <2>1. width(op) = 4
    BY <1>5 DEF width
  <2>2. a \in Addrs /\ a + 1 \in Addrs /\ a + 2 \in Addrs /\ a + 3 \in Addrs
    BY <1>1, <1>2, <2>1, Constants DEF Addrs
  <2>3. a \in Int
    BY <1>1
  <2>4. WordAt(s.memory, a) \in Word
    BY <1>1, <2>2, <2>3, WordAtType
  <2> QED BY <2>4, <1>5, <2>3 DEF loaded
<1> QED BY <1>3, <1>4, <1>5 DEF LoadOps

\* The word at an accessible address.
LEMMA WordReadType ==
    ASSUME NEW s, VmInv(s), NEW a \in Word, accessError(a, 4) = NoError
    PROVE  WordAt(s.memory, a) \in Word /\ a % 4 = 0 /\ a <= MemSize - 4
<1>1. width("LR_W") = 4
  BY DEF width
<1>2. loaded(s.memory, "LR_W", a) = WordAt(s.memory, a)
  BY DEF loaded
<1> QED BY <1>1, <1>2, LoadedType, AccessErrorType

LEMMA ExecuteIOK ==
    ASSUME NEW s, VmInv(s), NEW i \in Instruction,
           NEW a \in Word, NEW b \in Word, NEW next \in Word
    PROVE  ExecOK(s, executeI(s, i, a, b, next))
<1> DEFINE addr   == AddW(a, i.imm)
           access == accessError(addr, width(i.op))
           stored == write(s, addr, width(i.op), b)
           target == AddW(s.pc, i.imm)
<1>1. i.rd \in Regs /\ i.imm \in Word /\ a \in Int /\ i.imm \in Int /\ s.pc \in Int
  BY DEF Instruction, VmInv, VM, Word
<1>2. addr \in Word /\ target \in Word
  BY <1>1, AddWType
<1>3. width(i.op) \in {1, 2, 4}
  BY WidthType
<1>4. CASE i.op \in LoadOps
  <2>1. CASE access # NoError
    <3>1. access \in StepErrors
      BY <1>2, <1>3, <2>1, AccessErrorType
    <3>2. executeI(s, i, a, b, next) = Faulted(s, access)
      BY <1>4, <2>1 DEF executeI, LoadOps, StoreOps, BranchOps
    <3> QED BY <3>1, <3>2, FaultedOK
  <2>2. CASE access = NoError
    <3>1. executeI(s, i, a, b, next) = Executed(writeReg(s, i.rd, loaded(s.memory, i.op, addr)), next)
      BY <1>4, <2>2 DEF executeI, LoadOps, StoreOps, BranchOps
    <3>2. loaded(s.memory, i.op, addr) \in Word
      BY <1>2, <1>4, <2>2, LoadedType
    <3> QED BY <1>1, <3>1, <3>2, WriteRegInv, ExecutedOK
  <2> QED BY <2>1, <2>2
<1>5. CASE i.op \in StoreOps
  <2>0. i.op \notin LoadOps
    BY <1>5 DEF StoreOps, LoadOps
  <2>1. CASE stored.err # NoError
    <3>1. stored.vm = s /\ stored.err \in StepErrors
      BY <1>2, <1>3, <2>1, WriteFails, AccessErrorType
    <3>2. executeI(s, i, a, b, next) = Faulted(stored.vm, stored.err)
      BY <1>5, <2>0, <2>1 DEF executeI, LoadOps, StoreOps, BranchOps
    <3> QED BY <3>1, <3>2, FaultedOK
  <2>2. CASE stored.err = NoError
    <3>1. executeI(s, i, a, b, next) = Executed(stored.vm, next)
      BY <1>5, <2>0, <2>2 DEF executeI, LoadOps, StoreOps, BranchOps
    <3>2. VmInv(stored.vm)
      BY <1>2, <1>3, WriteInv
    <3> QED BY <3>1, <3>2, ExecutedOK
  <2> QED BY <2>1, <2>2
<1>6. CASE i.op \in BranchOps
  <2>1. i.op \notin LoadOps \cup StoreOps
    BY <1>6 DEF BranchOps, StoreOps, LoadOps
  <2>2. executeI(s, i, a, b, next) = Executed(s, IF branchTaken(i.op, a, b) THEN target ELSE next)
    BY <1>6, <2>1 DEF executeI, LoadOps, StoreOps, BranchOps
  <2> QED BY <1>2, <2>2, ExecutedOK
<1>7. CASE i.op \notin LoadOps \cup StoreOps \cup BranchOps
  <2>1. jalrTarget(a, i.imm) \in Word
    BY <1>2, ClearBit0 DEF jalrTarget
  <2>2. CASE i.op = "LUI"
    <3>1. executeI(s, i, a, b, next) = Executed(writeReg(s, i.rd, i.imm), next)
      BY <1>7, <2>2 DEF executeI
    <3> QED BY <1>1, <3>1, WriteRegInv, ExecutedOK
  <2>3. CASE i.op = "AUIPC"
    <3>1. executeI(s, i, a, b, next) = Executed(writeReg(s, i.rd, target), next)
      BY <1>7, <2>3 DEF executeI
    <3> QED BY <1>1, <1>2, <3>1, WriteRegInv, ExecutedOK
  <2>4. CASE i.op = "JAL"
    <3>1. executeI(s, i, a, b, next) = Executed(writeReg(s, i.rd, next), target)
      BY <1>7, <2>4 DEF executeI
    <3> QED BY <1>1, <1>2, <3>1, WriteRegInv, ExecutedOK
  <2>5. CASE i.op = "JALR"
    <3>1. executeI(s, i, a, b, next) = Executed(writeReg(s, i.rd, next), jalrTarget(a, i.imm))
      BY <1>7, <2>5 DEF executeI
    <3> QED BY <1>1, <2>1, <3>1, WriteRegInv, ExecutedOK
  <2>6. CASE i.op = "ECALL"
    <3>1. executeI(s, i, a, b, next) = Stopped(s, "ecall", next)
      BY <1>7, <2>6 DEF executeI
    <3> QED BY <3>1, StoppedOK
  <2>7. CASE i.op = "EBREAK"
    <3>1. executeI(s, i, a, b, next) = Stopped(s, "ebreak", next)
      BY <1>7, <2>7 DEF executeI
    <3> QED BY <3>1, StoppedOK
  <2>8. CASE i.op \notin {"LUI", "AUIPC", "JAL", "JALR", "ECALL", "EBREAK"}
    <3>1. executeI(s, i, a, b, next) = Executed(s, next)
      BY <1>7, <2>8 DEF executeI
    <3> QED BY <3>1, ExecutedOK
  <2> QED BY <2>2, <2>3, <2>4, <2>5, <2>6, <2>7, <2>8
<1> QED BY <1>4, <1>5, <1>6, <1>7

LEMMA ExecuteAOK ==
    ASSUME NEW s, VmInv(s), NEW i \in Instruction, i.op \in AmoOps \cup {"LR_W", "SC_W"},
           NEW a \in Word, NEW b \in Word, NEW next \in Word
    PROVE  ExecOK(s, executeA(s, i, a, b, next))
<1> DEFINE check == accessError(a, 4)
           old   == WordAt(s.memory, a)
           sc    == write(s, a, 4, b)
           amo   == write(s, a, 4, Alu(i.op, old, b))
<1>1. i.rd \in Regs
  BY DEF Instruction
<1>2. CASE check # NoError
  <2>1. executeA(s, i, a, b, next) = Faulted(s, check)
    BY <1>2 DEF executeA
  <2>2. check \in StepErrors
    BY <1>2, AccessErrorType
  <2> QED BY <2>1, <2>2, FaultedOK
<1>3. CASE check = NoError
  <2>1. old \in Word /\ a % 4 = 0 /\ a <= MemSize - 4
    BY <1>3, WordReadType
  <2>2. CASE i.op = "LR_W"
    <3>1. executeA(s, i, a, b, next)
            = Executed([writeReg(s, i.rd, old) EXCEPT !.reservation = a], next)
      BY <1>3, <2>2 DEF executeA
    <3>2. VmInv(writeReg(s, i.rd, old))
      BY <1>1, <2>1, WriteRegInv
    <3>3. VmInv([writeReg(s, i.rd, old) EXCEPT !.reservation = a])
      BY <2>1, <3>2 DEF VmInv, VM, ReservationOK, CacheOK
    <3> QED BY <3>1, <3>3, ExecutedOK
  <2>3. CASE i.op = "SC_W"
    <3>1. sc.err = NoError /\ VmInv(sc.vm)
      BY <1>3, WriteInv DEF write
    <3>2. VmInv([writeReg(s, i.rd, 1) EXCEPT !.reservation = NoReservation])
      BY <1>1, WriteRegInv, DropReservation, Constants
    <3>3. VmInv([writeReg(sc.vm, i.rd, 0) EXCEPT !.reservation = NoReservation])
      BY <1>1, <3>1, WriteRegInv, DropReservation, Constants
    <3>4. executeA(s, i, a, b, next) =
            IF s.reservation # a
            THEN Executed([writeReg(s, i.rd, 1) EXCEPT !.reservation = NoReservation], next)
            ELSE Executed([writeReg(sc.vm, i.rd, 0) EXCEPT !.reservation = NoReservation], next)
      BY <1>3, <2>3, <3>1 DEF executeA
    <3> QED BY <3>2, <3>3, <3>4, ExecutedOK
  <2>4. CASE i.op \in AmoOps
    <3>1. Alu(i.op, old, b) \in Word
      BY <2>1, <2>4, AluAssumption
    <3>2. amo.err = NoError /\ VmInv(amo.vm)
      BY <1>3, <3>1, WriteInv DEF write
    <3>3. i.op # "LR_W" /\ i.op # "SC_W"
      BY <2>4 DEF AmoOps
    <3>4. executeA(s, i, a, b, next) = Executed(writeReg(amo.vm, i.rd, old), next)
      BY <1>3, <3>2, <3>3 DEF executeA
    <3> QED BY <1>1, <2>1, <3>2, <3>4, WriteRegInv, ExecutedOK
  <2> QED BY <2>2, <2>3, <2>4
<1> QED BY <1>2, <1>3

LEMMA CsrReadType ==
    ASSUME NEW s, VmInv(s), NEW c
    PROVE  csrRead(s, c) \in Word
<1>1. s.cycle_count \in Nat /\ s.mscratch \in Word
  BY DEF VmInv, VM, Count
<1>2. \A x \in Int : x % WordMod \in Word
  BY Moduli, ModRange DEF Word
<1>3. s.cycle_count \div WordMod \in Int
  BY <1>1, Moduli
<1> QED BY <1>1, <1>2, <1>3 DEF csrRead

LEMMA CsrWriteInv ==
    ASSUME NEW s, VmInv(s), NEW c, NEW v \in Word
    PROVE  /\ VmInv(csrWrite(s, c, v).vm)
           /\ csrWrite(s, c, v).err # NoError =>
                csrWrite(s, c, v).vm = s /\ csrWrite(s, c, v).err = "IllegalInstruction"
<1>1. VmInv([s EXCEPT !.mscratch = v])
  BY DEF VmInv, VM, ReservationOK, CacheOK
<1> QED BY <1>1 DEF csrWrite

LEMMA ExecuteCsrOK ==
    ASSUME NEW s, VmInv(s), NEW i \in Instruction, NEW a \in Word, NEW b, NEW next \in Word
    PROVE  ExecOK(s, executeCsr(s, i, a, b, next))
<1> DEFINE src    == IF i.op \in {"CSRRW", "CSRRS", "CSRRC"} THEN a ELSE i.rs1
           swap   == i.op \in {"CSRRW", "CSRRWI"}
           reads  == ~swap \/ i.rd # 0
           writes == swap \/ i.rs1 # 0
           old    == csrRead(s, i.csr)
           new    == CASE swap -> src
                       [] i.op \in {"CSRRS", "CSRRSI"} -> Alu("OR", old, src)
                       [] OTHER -> Alu("ANDN", old, src)
           wrote  == csrWrite(s, i.csr, new)
           t      == IF writes THEN wrote.vm ELSE s
<1>1. i.rd \in Regs /\ i.rs1 \in Word
  BY Constants DEF Instruction
<1>2. src \in Word /\ old \in Word
  BY <1>1, CsrReadType
<1>3. "OR" \in AluRegOps /\ "ANDN" \in AluRegOps
  BY DEF AluRegOps
<1>4. Alu("OR", old, src) \in Word /\ Alu("ANDN", old, src) \in Word
  BY <1>2, <1>3, AluAssumption
<1>5. new \in Word
  <2>1. CASE swap
    <3>1. new = src
      BY <2>1
    <3> QED BY <3>1, <1>2
  <2>2. CASE i.op \in {"CSRRS", "CSRRSI"}
    <3>1. new = Alu("OR", old, src)
      BY <2>2
    <3> QED BY <3>1, <1>4
  <2>3. CASE ~swap /\ i.op \notin {"CSRRS", "CSRRSI"}
    <3>1. new = Alu("ANDN", old, src)
      BY <2>3
    <3> QED BY <3>1, <1>4
  <2> QED BY <2>1, <2>2, <2>3
<1> HIDE DEF src, old, new
<1>6. VmInv(wrote.vm) /\ (wrote.err # NoError => wrote.vm = s /\ wrote.err = "IllegalInstruction")
  BY <1>5, CsrWriteInv
<1>7. VmInv(t) /\ VmInv(writeReg(t, i.rd, old))
  BY <1>1, <1>2, <1>6, WriteRegInv
<1>8. executeCsr(s, i, a, b, next) =
        IF reads /\ ~csrReadable(i.csr) THEN Faulted(s, "IllegalInstruction")
        ELSE IF writes /\ wrote.err # NoError THEN Faulted(wrote.vm, wrote.err)
        ELSE Executed(IF reads THEN writeReg(t, i.rd, old) ELSE t, next)
  BY DEF executeCsr, src, old, new
<1>9. "IllegalInstruction" \in StepErrors
  BY DEF StepErrors
<1> HIDE DEF wrote, t, reads, writes
<1> QED BY <1>6, <1>7, <1>8, <1>9, FaultedOK, ExecutedOK

LEMMA ExecuteOK ==
    ASSUME NEW s, VmInv(s), NEW i \in Instruction,
           NEW a \in Word, NEW b \in Word, NEW next \in Word
    PROVE  ExecOK(s, execute(s, i, a, b, next))
<1>1. i.rd \in Regs /\ i.imm \in Word
  BY DEF Instruction
<1>2. CASE i.op \in AluRegOps
  <2>1. Alu(i.op, a, b) \in Word
    BY <1>2, AluAssumption
  <2>2. execute(s, i, a, b, next) = Executed(writeReg(s, i.rd, Alu(i.op, a, b)), next)
    BY <1>2 DEF execute, AluRegOps, AluImmOps, AmoOps, CsrOps
  <2> QED BY <1>1, <2>1, <2>2, WriteRegInv, ExecutedOK
<1>3. CASE i.op \in AluImmOps
  <2>1. Alu(i.op, a, i.imm) \in Word
    BY <1>1, <1>3, AluAssumption
  <2>2. execute(s, i, a, b, next) = Executed(writeReg(s, i.rd, Alu(i.op, a, i.imm)), next)
    BY <1>3 DEF execute, AluRegOps, AluImmOps, AmoOps, CsrOps
  <2> QED BY <1>1, <2>1, <2>2, WriteRegInv, ExecutedOK
<1>4. CASE i.op \in AmoOps \cup {"LR_W", "SC_W"}
  <2>1. execute(s, i, a, b, next) = executeA(s, i, a, b, next)
    BY <1>4 DEF execute, AluRegOps, AluImmOps, AmoOps, CsrOps
  <2> QED BY <1>4, <2>1, ExecuteAOK
<1>5. CASE i.op \in CsrOps
  <2>1. execute(s, i, a, b, next) = executeCsr(s, i, a, b, next)
    BY <1>5 DEF execute, AluRegOps, AluImmOps, AmoOps, CsrOps
  <2> QED BY <2>1, ExecuteCsrOK
<1>6. CASE i.op \notin AluRegOps \cup AluImmOps \cup AmoOps \cup {"LR_W", "SC_W"} \cup CsrOps
  <2>1. execute(s, i, a, b, next) = executeI(s, i, a, b, next)
    BY <1>6 DEF execute
  <2> QED BY <2>1, ExecuteIOK
<1> QED BY <1>2, <1>3, <1>4, <1>5, <1>6

\* fetch fails only with the two fetch errors.
LEMMA FetchErrors ==
    ASSUME NEW s
    PROVE  fetch(s).err \in StepErrors \cup {NoError}
  BY DEF fetch, StepErrors

\* step() keeps the struct well formed, and a fault of it leaves the
\* architectural state alone: x0 is zeroed before execution, but it was zero.
LEMMA StepOK ==
    ASSUME NEW s, VmInv(s)
    PROVE  /\ VmInv(step(s).vm)
           /\ step(s).err \in StepErrors \cup {NoError}
           /\ step(s).result \in {"continue", "ecall", "ebreak"}
           /\ step(s).err # NoError => Arch(step(s).vm) = Arch(s)
<1> DEFINE f    == fetch(s)
           d    == decodeCached(s, f.raw)
           z    == [d.vm EXCEPT !.regs = [d.vm.regs EXCEPT ![0] = 0]]
           next == AddW(z.pc, IF isCompressed(f.raw) THEN 2 ELSE 4)
           x    == execute(z, d.inst, z.regs[d.inst.rs1], z.regs[d.inst.rs2], next)
           y    == retired(x)
<1>1. step(s) = IF f.err # NoError THEN failed(s, f.err)
                ELSE IF d.err # NoError THEN failed(d.vm, d.err)
                ELSE IF x.err # NoError THEN failed(x.vm, x.err)
                ELSE [vm |-> y, err |-> NoError, result |-> x.result]
  BY DEF step, afterFetch, afterDecode, afterExecute
<1>2. CASE f.err # NoError
  <2>1. step(s) = failed(s, f.err)
    BY <1>1, <1>2
  <2> QED BY <2>1, FetchErrors DEF failed
<1>3. CASE f.err = NoError
  <2>1. f.raw \in Word /\ f.raw # WordMod - 4
    BY <1>3, FetchType
  <2>2. /\ VmInv(d.vm) /\ d.inst = Decode(f.raw) /\ Arch(d.vm) = Arch(s)
        /\ d.err \in {"IllegalInstruction", NoError}
    BY <2>1, DecodeCachedCorrect
  <2>3. d.inst \in Instruction
    BY <2>1, <2>2, DecodeAssumption
  <2> HIDE DEF f, d
  <2>4. VmInv(z) /\ Arch(z) = Arch(d.vm)
    <3>1. [d.vm.regs EXCEPT ![0] = 0] = d.vm.regs
      BY <2>2, Constants DEF VmInv, VM
    <3>2. z = d.vm
      BY <2>2, <3>1 DEF VmInv, VM
    <3> QED BY <2>2, <3>2
  <2>5. next \in Word
    <3>1. z.pc \in Int
      BY <2>4 DEF VmInv, VM, Word
    <3> QED BY <3>1, AddWType
  <2> HIDE DEF next
  <2>6. z.regs[d.inst.rs1] \in Word /\ z.regs[d.inst.rs2] \in Word
    BY <2>3, <2>4 DEF VmInv, VM, Instruction
  <2> HIDE DEF z
  <2>7. ExecOK(z, x)
    BY <2>3, <2>5, <2>4, <2>6, ExecuteOK
  <2>8. CASE d.err # NoError
    <3>1. step(s) = failed(d.vm, d.err)
      BY <1>1, <1>3, <2>8
    <3>2. "IllegalInstruction" \in StepErrors
      BY DEF StepErrors
    <3> QED BY <2>2, <2>8, <3>1, <3>2 DEF failed
  <2>9. CASE d.err = NoError /\ x.err # NoError
    <3>1. step(s) = failed(x.vm, x.err)
      BY <1>1, <1>3, <2>9
    <3>2. x.vm = z
      BY <2>7, <2>9 DEF ExecOK
    <3> QED BY <2>2, <2>4, <2>7, <3>1, <3>2, SMTT(30) DEF ExecOK, failed
  <2>10. CASE d.err = NoError /\ x.err = NoError
    <3>1. step(s) = [vm |-> y, err |-> NoError, result |-> x.result]
      BY <1>1, <1>3, <2>10
    <3>2. VmInv(x.vm) /\ x.next_pc \in Word /\ x.result \in {"continue", "ecall", "ebreak"}
      BY <2>7 DEF ExecOK
    <3> HIDE DEF x
    <3>3. (x.vm.cycle_count + 1) % CountMod \in Count
      <4>1. x.vm.cycle_count + 1 \in Int
        BY <3>2 DEF VmInv, VM, Count
      <4> QED BY <4>1, ModRange, Constants DEF Count
    <3>4. VmInv(y)
      BY <3>2, <3>3 DEF VmInv, VM, ReservationOK, CacheOK, retired
    <3> HIDE DEF y
    <3> QED BY <3>1, <3>2, <3>4
  <2> QED BY <2>8, <2>9, <2>10
<1> QED BY <1>2, <1>3

-----------------------------------------------------------------------------
(* Snapshots. *)

\* Everything a well-formed machine writes is accepted back.
LEMMA EncodeValid ==
    ASSUME NEW s, VmInv(s)
    PROVE  Encode(s) \in Snapshots /\ validHeader(Encode(s))
<1>1. Encode(s) \in Snapshots
  BY Constants DEF Encode, Snapshots, VmInv, VM
<1>2. validHeader(Encode(s))
  BY DEF Encode, validHeader, VmInv, VM, ReservationOK
<1> QED BY <1>1, <1>2

\* However much of the memory image arrives, what restoreSnapshot leaves is
\* well formed.
LEMMA RestoreInv ==
    ASSUME NEW s, VmInv(s), NEW h \in Snapshots, NEW n \in 0 .. MemSize \cup {NONE}
    PROVE  /\ VmInv(restoreSnapshot(s, h, n).vm)
           /\ restoreSnapshot(s, h, n).err \in {NoError, "InvalidSnapshot", "EndOfStream"}
<1> DEFINE res == IF h.res_valid = 1 THEN h.res_addr ELSE NoReservation
           m   == [x \in Addrs |-> IF x < n THEN h.memory[x] ELSE s.memory[x]]
           t   == [s EXCEPT !.pc = h.pc, !.regs = h.regs, !.cycle_count = h.cycle_count,
                            !.reservation = res, !.mscratch = h.mscratch, !.memory = m]
           u   == [t EXCEPT !.decode_cache = EmptyCache, !.stop_pc = 0]
<1>1. restoreSnapshot(s, h, n) =
        IF n = NONE THEN [err |-> "EndOfStream", vm |-> s]
        ELSE IF ~validHeader(h) THEN [err |-> "InvalidSnapshot", vm |-> s]
        ELSE IF n < MemSize THEN [err |-> "EndOfStream", vm |-> t]
        ELSE [err |-> NoError, vm |-> u]
  BY DEF restoreSnapshot
<1>2. CASE n # NONE /\ validHeader(h)
  <2>1. m \in [Addrs -> Byte]
    BY DEF VmInv, VM, Snapshots
  <2>2. res \in Word \cup {NoReservation} /\ h.regs[0] = 0
    BY <1>2 DEF Snapshots, validHeader
  <2>3. res # NoReservation => res % 4 = 0 /\ res <= MemSize - 4
    BY <1>2 DEF validHeader
  <2> HIDE DEF res, m
  <2>4. VmInv(t)
    BY <2>1, <2>2, <2>3 DEF VmInv, VM, Snapshots, ReservationOK, CacheOK
  <2> HIDE DEF t
  <2>5. VmInv(u)
    <3>1. EmptyCache \in [Slots -> Instruction] /\ \A j \in Slots : SlotOK(EmptyCache[j])
      BY EmptySlotType DEF EmptyCache
    <3> HIDE DEF EmptyCache
    <3> QED BY <2>4, <3>1, Constants DEF VmInv, VM, ReservationOK, CacheOK
  <2> HIDE DEF u
  <2> QED BY <1>1, <1>2, <2>4, <2>5
<1>3. CASE n = NONE \/ ~validHeader(h)
  BY <1>1, <1>3
<1> QED BY <1>2, <1>3

-----------------------------------------------------------------------------
(* The invariant of the specification. *)

\* The inductive invariant: the properties TLC checks, with the struct's facts
\* gathered in VmInv because every method needs all of them.
RunQuiet == call.active => ret.err = NoError    \* a run in progress has not failed
Inv == TypeOK /\ VmInv(vm) /\ ImageRestorable /\ RunQuiet

LEMMA BlankType == Blank \in Snapshots
  BY PowerOnInv, EncodeValid DEF Blank, Snapshots

LEMMA IdleType == Idle \in [active: BOOLEAN, limit: Count \cup {NONE}, since: Count,
                            steps: Nat \cup {NONE}]
  BY Constants DEF Idle

LEMMA InitInv == Init => Inv
<1> SUFFICES ASSUME Init PROVE Inv
  OBVIOUS
<1>1. VmInv(vm) /\ vm \in VM
  BY PowerOnInv DEF Init, VmInv
<1>2. ret \in [call: CallNames, result: Results,
               err: StepErrors \cup {NoError, "InvalidSnapshot", "EndOfStream"}]
  BY DEF Init, Return, CallNames, Results
<1>3. image \in Snapshots /\ ImageRestorable
  BY BlankType DEF Init, ImageRestorable
<1> QED BY <1>1, <1>2, <1>3, IdleType DEF Init, Inv, TypeOK, RunQuiet, Idle

\* A host call whose method keeps the struct well formed keeps the invariant.
LEMMA HostCallInv ==
    ASSUME Inv, NEW name \in CallNames, NEW r, VmInv(r.vm), HostCall(name, r),
           r.err \in StepErrors \cup {NoError, "InvalidSnapshot", "EndOfStream"}
    PROVE  Inv'
<1>1. VmInv(vm)' /\ vm' \in VM
  BY DEF HostCall, VmInv
<1>2. ret' \in [call: CallNames, result: Results,
                err: StepErrors \cup {NoError, "InvalidSnapshot", "EndOfStream"}]
  BY DEF HostCall, Return, Results
<1>3. image' \in Snapshots /\ ImageRestorable'
  BY DEF HostCall, Inv, TypeOK, ImageRestorable
<1> QED BY <1>1, <1>2, <1>3, IdleType DEF HostCall, Inv, TypeOK, RunQuiet, Idle

LEMMA NextInv == Inv /\ [Next]_vars => Inv'
<1> SUFFICES ASSUME Inv, [Next]_vars PROVE Inv'
  OBVIOUS
<1> USE DEF NoFail
<1>0. VmInv(vm) /\ NoError \in StepErrors \cup {NoError, "InvalidSnapshot", "EndOfStream"}
  BY DEF Inv
<1>1. CASE Reset
  <2>1. "reset" \in CallNames
    BY DEF CallNames
  <2> QED BY <1>0, <1>1, <2>1, PowerOnInv, HostCallInv DEF Reset
<1>2. ASSUME NEW p \in Programs, LoadProgram(p) PROVE Inv'
  <2>1. VmInv(loadProgram(vm, p).vm)
    BY <1>0, HostAssumption, LoadProgramInv
  <2>2. loadProgram(vm, p).err \in StepErrors \cup {NoError}
    BY DEF loadProgram, StepErrors
  <2>3. "loadProgram" \in CallNames
    BY DEF CallNames
  <2> QED BY <1>2, <2>1, <2>2, <2>3, HostCallInv DEF LoadProgram
<1>3. ASSUME NEW w \in HostWrites, Write(w) PROVE Inv'
  <2>1. w.at \in Word /\ w.width \in {1, 2, 4} /\ w.value \in Word
    BY HostAssumption
  <2>2. VmInv(write(vm, w.at, w.width, w.value).vm)
    BY <1>0, <2>1, WriteInv
  <2>3. write(vm, w.at, w.width, w.value).err \in StepErrors \cup {NoError}
    BY <2>1, AccessErrorType DEF write
  <2>4. "write" \in CallNames
    BY DEF CallNames
  <2> QED BY <1>3, <2>2, <2>3, <2>4, HostCallInv DEF Write
<1>4. ASSUME NEW w \in HostWrites, PokeMemory(w) PROVE Inv'
  <2> DEFINE t == [vm EXCEPT !.memory = [vm.memory EXCEPT ![w.at] = w.value % BYTE],
                             !.reservation = NoReservation]
  <2>1. w.value % BYTE \in Byte
    <3>1. w.value \in Int
      BY HostAssumption DEF Word
    <3> QED BY <3>1, ModRange, Moduli DEF Byte
  <2>2. VmInv(t)
    BY <1>0, <2>1 DEF VmInv, VM, ReservationOK, CacheOK
  <2>3. HostCall("poke", [err |-> NoError, vm |-> t])
    BY <1>4 DEF PokeMemory
  <2>4. "poke" \in CallNames
    BY DEF CallNames
  <2> HIDE DEF t
  <2> QED BY <1>0, <2>2, <2>3, <2>4, HostCallInv
<1>5. ASSUME NEW w \in HostRegs, WriteReg(w) PROVE Inv'
  <2>1. VmInv(writeReg(vm, w.reg, w.value))
    BY <1>0, HostAssumption, WriteRegInv
  <2>2. "writeReg" \in CallNames
    BY DEF CallNames
  <2> QED BY <1>0, <1>5, <2>1, <2>2, HostCallInv DEF WriteReg
<1>6. ASSUME NEW a \in HostPcs, SetPc(a) PROVE Inv'
  <2>1. VmInv([vm EXCEPT !.pc = a])
    BY <1>0, HostAssumption DEF VmInv, VM, ReservationOK, CacheOK
  <2>2. "pc" \in CallNames
    BY DEF CallNames
  <2> QED BY <1>0, <1>6, <2>1, <2>2, HostCallInv DEF SetPc
<1>7. CASE ClearReservation
  <2>1. "clearReservation" \in CallNames
    BY DEF CallNames
  <2> QED BY <1>0, <1>7, <2>1, DropReservation, HostCallInv DEF ClearReservation
<1>8. CASE WriteSnapshot
  <2>1. image' \in Snapshots /\ ImageRestorable'
    BY <1>0, <1>8, EncodeValid DEF WriteSnapshot, ImageRestorable
  <2>2. ret' \in [call: CallNames, result: Results,
                  err: StepErrors \cup {NoError, "InvalidSnapshot", "EndOfStream"}]
    BY <1>8 DEF WriteSnapshot, Return, CallNames, Results
  <2> QED BY <1>8, <2>1, <2>2, IdleType DEF WriteSnapshot, Inv, TypeOK, RunQuiet, Idle
<1>9. ASSUME NEW h \in Images \cup {image}, NEW n \in ReadLengths, RestoreSnapshot(h, n) PROVE Inv'
  <2>1. h \in Snapshots /\ n \in 0 .. MemSize \cup {NONE}
    BY HostAssumption DEF Inv, TypeOK
  <2>2. /\ VmInv(restoreSnapshot(vm, h, n).vm)
        /\ restoreSnapshot(vm, h, n).err \in {NoError, "InvalidSnapshot", "EndOfStream"}
    BY <1>0, <2>1, RestoreInv
  <2>3. "restoreSnapshot" \in CallNames
    BY DEF CallNames
  <2> QED BY <1>9, <2>2, <2>3, HostCallInv DEF RestoreSnapshot
<1>10. CASE Step
  <2>1. VmInv(vm)' /\ vm' \in VM
    BY <1>0, <1>10, StepOK DEF Step, Stepped, VmInv
  <2>2. ret' \in [call: CallNames, result: Results,
                  err: StepErrors \cup {NoError, "InvalidSnapshot", "EndOfStream"}]
    BY <1>0, <1>10, StepOK DEF Step, Stepped, Return, CallNames, Results
  <2>3. image' \in Snapshots /\ ImageRestorable'
    BY <1>10 DEF Step, Stepped, Inv, TypeOK, ImageRestorable
  <2> QED BY <1>10, <2>1, <2>2, <2>3, IdleType DEF Step, Stepped, Inv, TypeOK, RunQuiet, Idle
<1>11. ASSUME NEW l \in Limits, Run(l) PROVE Inv'
  <2>1. call' \in [active: BOOLEAN, limit: Count \cup {NONE}, since: Count, steps: Nat \cup {NONE}]
    BY <1>0, <1>11, HostAssumption DEF Run, VmInv, VM
  <2>2. ret' \in [call: CallNames, result: Results,
                  err: StepErrors \cup {NoError, "InvalidSnapshot", "EndOfStream"}]
    BY <1>11 DEF Run, Return, CallNames, Results
  <2> QED BY <1>0, <1>11, <2>1, <2>2 DEF Run, Inv, TypeOK, ImageRestorable, RunQuiet, Return
<1>12. ASSUME NEW n \in StepCounts, RunFor(n) PROVE Inv'
  <2>1. n \in Nat /\ vm.cycle_count \in Count
    BY <1>0, HostAssumption DEF VmInv, VM
  <2>2. runForLimit(vm.cycle_count, n) \in Count
    BY <2>1, Constants DEF runForLimit, Count
  <2>3. call' \in [active: BOOLEAN, limit: Count \cup {NONE}, since: Count, steps: Nat \cup {NONE}]
    BY <1>12, <2>1, <2>2 DEF RunFor
  <2>4. ret' \in [call: CallNames, result: Results,
                  err: StepErrors \cup {NoError, "InvalidSnapshot", "EndOfStream"}]
    BY <1>12 DEF RunFor, Return, CallNames, Results
  <2> QED BY <1>0, <1>12, <2>3, <2>4 DEF RunFor, Inv, TypeOK, ImageRestorable, RunQuiet, Return
<1>13. CASE RunLimit
  <2>1. call' \in [active: BOOLEAN, limit: Count \cup {NONE}, since: Count, steps: Nat \cup {NONE}]
    BY <1>13 DEF RunLimit, Inv, TypeOK
  <2>2. ret' \in [call: CallNames, result: Results,
                  err: StepErrors \cup {NoError, "InvalidSnapshot", "EndOfStream"}]
    BY <1>13 DEF RunLimit, Return, CallNames, Results
  <2> QED BY <1>0, <1>13, <2>1, <2>2 DEF RunLimit, Inv, TypeOK, ImageRestorable, RunQuiet, Return
<1>14. CASE RunStep
  <2>1. VmInv(vm)' /\ vm' \in VM
    BY <1>0, <1>14, StepOK DEF RunStep, Iterated, VmInv
  <2>2. call' \in [active: BOOLEAN, limit: Count \cup {NONE}, since: Count, steps: Nat \cup {NONE}]
    BY <1>14 DEF RunStep, Iterated, Inv, TypeOK
  <2>3. ret' \in [call: CallNames, result: Results,
                  err: StepErrors \cup {NoError, "InvalidSnapshot", "EndOfStream"}]
    BY <1>0, <1>14, StepOK DEF RunStep, Iterated, Return, CallNames, Results, Inv, TypeOK
  <2>4. image' \in Snapshots /\ ImageRestorable'
    BY <1>14 DEF RunStep, Iterated, Inv, TypeOK, ImageRestorable
  <2>5. RunQuiet'
    BY <1>14 DEF RunStep, Iterated, RunQuiet, Inv, TypeOK
  <2> QED BY <2>1, <2>2, <2>3, <2>4, <2>5 DEF Inv, TypeOK
<1>15. CASE UNCHANGED vars
  BY <1>15 DEF vars, Inv, TypeOK, VmInv, ReservationOK, CacheOK, ImageRestorable, RunQuiet
<1> QED BY <1>1, <1>2, <1>3, <1>4, <1>5, <1>6, <1>7, <1>8, <1>9, <1>10, <1>11, <1>12,
           <1>13, <1>14, <1>15 DEF Next

LEMMA InvAlways == Spec => []Inv
  BY InitInv, NextInv, PTL DEF Spec

\* Every field keeps its type under every call of every host.
THEOREM TypeCorrect == Spec => []TypeOK
<1>1. Inv => TypeOK
  BY DEF Inv
<1> QED BY <1>1, InvAlways, PTL

\* The reservation is always word aligned and inside memory.
THEOREM ReservationAlwaysValid == Spec => []ReservationValid
<1>1. Inv => ReservationValid
  BY DEF Inv, VmInv, ReservationOK, ReservationValid
<1> QED BY <1>1, InvAlways, PTL

\* x0 is always zero: the reason a snapshot is restorable and a fault atomic.
THEOREM X0AlwaysZero == Spec => []X0Zero
<1>1. Inv => X0Zero
  BY DEF Inv, VmInv, X0Zero
<1> QED BY <1>1, InvAlways, PTL

\* Every cache slot always holds what the decoder says of its bits.
THEOREM CacheAlwaysCoherent == Spec => []CacheCoherent
<1>1. Inv => CacheCoherent
  BY DEF Inv, VmInv, CacheOK, SlotOK, CacheCoherent
<1> QED BY <1>1, InvAlways, PTL

\* Every snapshot the machine writes can be restored.
THEOREM SnapshotsRestorable == Spec => []ImageRestorable
<1>1. Inv => ImageRestorable
  BY DEF Inv
<1> QED BY <1>1, InvAlways, PTL

\* A fault changes nothing of the architectural state, for every instruction,
\* decoder and cache: checks precede effects in every execute function.
THEOREM FaultsAreAtomic == Spec => FaultChangesNothing
<1>1. Inv /\ [Next]_vars => [(Step \/ RunStep) /\ ret'.err # NoError => Arch(vm') = Arch(vm)]_vars
  <2> SUFFICES ASSUME Inv, Step \/ RunStep, ret'.err # NoError PROVE Arch(vm') = Arch(vm)
    OBVIOUS
  <2>0. VmInv(vm)
    BY DEF Inv
  <2>1. CASE Step
    BY <2>0, <2>1, StepOK DEF Step, Stepped, Return
  <2>2. CASE RunStep
    BY <2>0, <2>2, StepOK DEF RunStep, Iterated, Return, Inv, RunQuiet
  <2> QED BY <2>1, <2>2
<1> QED BY <1>1, InvAlways, PTL DEF Spec, FaultChangesNothing

-----------------------------------------------------------------------------
(* execute(), one equation per class of instructions. *)

LEMMA ExecAlu ==
    ASSUME NEW s, NEW i, NEW a, NEW b, NEW next, i.op \in AluRegOps \cup AluImmOps
    PROVE  execute(s, i, a, b, next) =
             Executed(writeReg(s, i.rd, Alu(i.op, a, IF i.op \in AluRegOps THEN b ELSE i.imm)), next)
  BY DEF execute, AluRegOps, AluImmOps, AmoOps, CsrOps

LEMMA ExecCsr ==
    ASSUME NEW s, NEW i, NEW a, NEW b, NEW next, i.op \in CsrOps
    PROVE  execute(s, i, a, b, next) = executeCsr(s, i, a, b, next)
  BY DEF execute, AluRegOps, AluImmOps, AmoOps, CsrOps

\* What LR.W, a failing SC.W and a successful SC.W leave.
lrLeaves(s, i, a) == [writeReg(s, i.rd, WordAt(s.memory, a)) EXCEPT !.reservation = a]
scRefused(s, i) == [writeReg(s, i.rd, 1) EXCEPT !.reservation = NoReservation]
scStored(w, i) == [writeReg(w, i.rd, 0) EXCEPT !.reservation = NoReservation]

LEMMA ExecLr ==
    ASSUME NEW s, NEW i, NEW a, NEW b, NEW next, i.op = "LR_W"
    PROVE  execute(s, i, a, b, next) =
             IF accessError(a, 4) # NoError THEN Faulted(s, accessError(a, 4))
             ELSE Executed(lrLeaves(s, i, a), next)
  BY DEF execute, executeA, lrLeaves, AluRegOps, AluImmOps, AmoOps, CsrOps

\* The store of an SC or an AMO cannot fail once the address was checked.
LEMMA ExecSc ==
    ASSUME NEW s, NEW i, NEW a, NEW b, NEW next, i.op = "SC_W"
    PROVE  execute(s, i, a, b, next) =
             IF accessError(a, 4) # NoError THEN Faulted(s, accessError(a, 4))
             ELSE IF s.reservation # a
             THEN Executed(scRefused(s, i), next)
             ELSE Executed(scStored(write(s, a, 4, b).vm, i), next)
<1>1. write(s, a, 4, b).err = accessError(a, 4)
  BY DEF write
<1>2. execute(s, i, a, b, next) = executeA(s, i, a, b, next)
  BY DEF execute, AluRegOps, AluImmOps, AmoOps, CsrOps
<1> QED BY <1>1, <1>2 DEF executeA, scRefused, scStored

LEMMA ExecAmo ==
    ASSUME NEW s, NEW i, NEW a, NEW b, NEW next, i.op \in AmoOps
    PROVE  execute(s, i, a, b, next) =
             IF accessError(a, 4) # NoError THEN Faulted(s, accessError(a, 4))
             ELSE Executed(writeReg(write(s, a, 4, Alu(i.op, WordAt(s.memory, a), b)).vm,
                                    i.rd, WordAt(s.memory, a)), next)
<1>1. write(s, a, 4, Alu(i.op, WordAt(s.memory, a), b)).err = accessError(a, 4)
  BY DEF write
<1>2. execute(s, i, a, b, next) = executeA(s, i, a, b, next) /\ i.op # "LR_W" /\ i.op # "SC_W"
  BY DEF execute, AluRegOps, AluImmOps, AmoOps, CsrOps
<1> QED BY <1>1, <1>2 DEF executeA

OtherOps == LoadOps \cup StoreOps \cup BranchOps \cup SystemOps

LEMMA ExecI ==
    ASSUME NEW s, NEW i, NEW a, NEW b, NEW next, i.op \in OtherOps
    PROVE  execute(s, i, a, b, next) = executeI(s, i, a, b, next)
  BY DEF execute, AluRegOps, AluImmOps, AmoOps, CsrOps, OtherOps, LoadOps, StoreOps, BranchOps, SystemOps

LEMMA ExecLoad ==
    ASSUME NEW s, NEW i, NEW a, NEW b, NEW next, i.op \in LoadOps
    PROVE  execute(s, i, a, b, next) =
             LET addr == AddW(a, i.imm)
                 e    == accessError(addr, width(i.op))
             IN  IF e # NoError THEN Faulted(s, e)
                 ELSE Executed(writeReg(s, i.rd, loaded(s.memory, i.op, addr)), next)
<1>1. execute(s, i, a, b, next) = executeI(s, i, a, b, next)
  BY ExecI DEF OtherOps
<1> QED BY <1>1 DEF executeI, LoadOps, StoreOps, BranchOps

LEMMA ExecStore ==
    ASSUME NEW s, NEW i, NEW a, NEW b, NEW next, i.op \in StoreOps
    PROVE  execute(s, i, a, b, next) =
             LET addr == AddW(a, i.imm)
                 e    == accessError(addr, width(i.op))
             IN  IF e # NoError THEN Faulted(s, e)
                 ELSE Executed(write(s, addr, width(i.op), b).vm, next)
<1>1. execute(s, i, a, b, next) = executeI(s, i, a, b, next)
  BY ExecI DEF OtherOps
<1>2. i.op \notin LoadOps
  BY DEF LoadOps, StoreOps
<1>3. executeI(s, i, a, b, next) =
        LET stored == write(s, AddW(a, i.imm), width(i.op), b)
        IN  IF stored.err # NoError THEN Faulted(stored.vm, stored.err)
            ELSE Executed(stored.vm, next)
  BY <1>2 DEF executeI, LoadOps, StoreOps, BranchOps
<1>4. write(s, AddW(a, i.imm), width(i.op), b).err = accessError(AddW(a, i.imm), width(i.op))
  BY DEF write
<1> QED BY <1>1, <1>3, <1>4, WriteFails

LEMMA ExecBranch ==
    ASSUME NEW s, NEW i, NEW a, NEW b, NEW next, i.op \in BranchOps
    PROVE  execute(s, i, a, b, next) =
             Executed(s, IF branchTaken(i.op, a, b) THEN AddW(s.pc, i.imm) ELSE next)
<1>1. execute(s, i, a, b, next) = executeI(s, i, a, b, next)
  BY ExecI DEF OtherOps
<1>2. i.op \notin LoadOps \cup StoreOps
  BY DEF LoadOps, StoreOps, BranchOps
<1> QED BY <1>1, <1>2 DEF executeI, LoadOps, StoreOps, BranchOps

LEMMA ExecSystem ==
    ASSUME NEW s, NEW i, NEW a, NEW b, NEW next, i.op \in SystemOps
    PROVE  execute(s, i, a, b, next) =
             CASE i.op = "LUI"    -> Executed(writeReg(s, i.rd, i.imm), next)
               [] i.op = "AUIPC"  -> Executed(writeReg(s, i.rd, AddW(s.pc, i.imm)), next)
               [] i.op = "JAL"    -> Executed(writeReg(s, i.rd, next), AddW(s.pc, i.imm))
               [] i.op = "JALR"   -> Executed(writeReg(s, i.rd, next), jalrTarget(a, i.imm))
               [] i.op = "ECALL"  -> Stopped(s, "ecall", next)
               [] i.op = "EBREAK" -> Stopped(s, "ebreak", next)
               [] OTHER           -> Executed(s, next)
<1>1. execute(s, i, a, b, next) = executeI(s, i, a, b, next)
  BY ExecI DEF OtherOps
<1>2. i.op \notin LoadOps \cup StoreOps \cup BranchOps
  BY DEF LoadOps, StoreOps, BranchOps, SystemOps
<1> QED BY <1>1, <1>2 DEF executeI, SystemOps

-----------------------------------------------------------------------------
(* The reserved word. *)

\* A method that leaves t where s was keeps the reserved word, or drops the
\* reservation.
KeepsReserved(s, t) ==
    s.reservation # NoReservation /\ t.reservation = s.reservation =>
        WordAt(t.memory, s.reservation) = WordAt(s.memory, s.reservation)

LEMMA SameWord ==
    ASSUME NEW m, NEW k, NEW r \in Nat,
           \A x \in {r, r + 1, r + 2, r + 3} : m[x] = k[x]
    PROVE  WordAt(m, r) = WordAt(k, r)
<1>1. r + 2 + 1 = r + 3
  OBVIOUS
<1> QED BY <1>1 DEF WordAt, HalfAt

LEMMA SameMemoryKeeps ==
    ASSUME NEW s, NEW t, t.memory = s.memory
    PROVE  KeepsReserved(s, t)
  BY DEF KeepsReserved

\* The four bytes of a reserved word are addresses.
LEMMA ReservedAddrs ==
    ASSUME NEW s, VmInv(s), s.reservation # NoReservation
    PROVE  LET r == s.reservation
           IN  r \in Nat /\ r % 4 = 0 /\ {r, r + 1, r + 2, r + 3} \subseteq Addrs
<1>1. s.reservation \in Nat /\ s.reservation % 4 = 0 /\ s.reservation <= MemSize - 4
  BY DEF VmInv, VM, ReservationOK, Word
<1> QED BY <1>1, Constants DEF Addrs

\* An aligned store outside the reserved word touches none of its bytes.
LEMMA StoreElsewhere ==
    ASSUME NEW a \in Nat, NEW n \in {1, 2, 4}, NEW r \in Nat,
           a % n = 0, r % 4 = 0, r # a - (a % 4)
    PROVE  \A x \in {r, r + 1, r + 2, r + 3} : ~(a <= x /\ x < a + n)
<1>1. CASE n = 1
  BY <1>1
<1>2. CASE n = 2
  BY <1>2
<1>3. CASE n = 4
  BY <1>3
<1> QED BY <1>1, <1>2, <1>3

LEMMA WriteKeepsReserved ==
    ASSUME NEW s, VmInv(s), NEW a \in Word, NEW n \in {1, 2, 4}, NEW v
    PROVE  KeepsReserved(s, write(s, a, n, v).vm)
<1> DEFINE w == write(s, a, n, v)
           t == [s EXCEPT !.memory = StoreLE(s.memory, a, n, v)]
<1>1. CASE accessError(a, n) # NoError
  BY <1>1 DEF write, KeepsReserved
<1>2. CASE accessError(a, n) = NoError
  <2>1. w.vm = invalidateReservation(t, a)
    BY <1>2 DEF write
  <2>2. s \in VM /\ t.reservation = s.reservation /\ t.memory = StoreLE(s.memory, a, n, v)
    BY DEF VmInv, VM
  <2>3. CASE s.reservation = a - (a % 4)
    <3>1. w.vm.reservation = NoReservation
      BY <2>1, <2>2, <2>3 DEF invalidateReservation, VM
    <3> QED BY <3>1 DEF KeepsReserved
  <2>4. CASE s.reservation # a - (a % 4)
    <3>1. w.vm = t
      BY <2>1, <2>2, <2>4 DEF invalidateReservation
    <3>2. ASSUME s.reservation # NoReservation
          PROVE  WordAt(t.memory, s.reservation) = WordAt(s.memory, s.reservation)
      <4> DEFINE r == s.reservation
      <4>1. r \in Nat /\ r % 4 = 0 /\ {r, r + 1, r + 2, r + 3} \subseteq Addrs
        BY <3>2, ReservedAddrs
      <4>2. a \in Nat /\ a % n = 0
        BY <1>2, AccessErrorType DEF Word
      <4>3. \A x \in {r, r + 1, r + 2, r + 3} : ~(a <= x /\ x < a + n)
        BY <4>1, <4>2, <2>4, StoreElsewhere
      <4>4. DOMAIN s.memory = Addrs
        BY DEF VmInv, VM
      <4>5. \A x \in {r, r + 1, r + 2, r + 3} : StoreLE(s.memory, a, n, v)[x] = s.memory[x]
        BY <4>1, <4>3, <4>4 DEF StoreLE
      <4> QED BY <2>2, <4>1, <4>5, SameWord
    <3> QED BY <3>1, <3>2 DEF KeepsReserved
  <2> QED BY <2>3, <2>4
<1> QED BY <1>1, <1>2

LEMMA LoadProgramKeepsReserved ==
    ASSUME NEW s, VmInv(s), NEW p \in [at: Word, bytes: Seq(Byte)]
    PROVE  KeepsReserved(s, loadProgram(s, p).vm)
<1> DEFINE len == Len(p.bytes)
           m == [x \in Addrs |-> IF p.at <= x /\ x < p.at + len
                                 THEN p.bytes[x - p.at + 1] ELSE s.memory[x]]
           t == [s EXCEPT !.memory = m]
<1>0. s \in VM /\ t.reservation = s.reservation /\ t.memory = m
  BY DEF VmInv, VM
<1>1. CASE loadProgram(s, p).vm = s
  BY <1>1 DEF KeepsReserved
<1>2. CASE loadProgram(s, p).vm = invalidateReservationRange(t, p.at, len)
  <2>1. CASE /\ s.reservation # NoReservation
             /\ len # 0 /\ p.at < s.reservation + 4 /\ s.reservation < p.at + len
    <3>1. loadProgram(s, p).vm.reservation = NoReservation
      BY <1>0, <1>2, <2>1 DEF invalidateReservationRange, VM
    <3> QED BY <3>1 DEF KeepsReserved
  <2>2. CASE ~(/\ s.reservation # NoReservation
               /\ len # 0 /\ p.at < s.reservation + 4 /\ s.reservation < p.at + len)
    <3>1. loadProgram(s, p).vm = t
      BY <1>0, <1>2, <2>2 DEF invalidateReservationRange
    <3>2. ASSUME s.reservation # NoReservation
          PROVE  WordAt(m, s.reservation) = WordAt(s.memory, s.reservation)
      <4> DEFINE r == s.reservation
      <4>1. r \in Nat /\ {r, r + 1, r + 2, r + 3} \subseteq Addrs
        BY <3>2, ReservedAddrs
      <4>2. p.at \in Nat /\ len \in Nat
        BY DEF Word
      <4>3. \A x \in {r, r + 1, r + 2, r + 3} : ~(p.at <= x /\ x < p.at + len)
        BY <2>2, <3>2, <4>1, <4>2
      <4>4. \A x \in {r, r + 1, r + 2, r + 3} : m[x] = s.memory[x]
        BY <4>1, <4>3
      <4> HIDE DEF m
      <4> QED BY <4>1, <4>4, SameWord
    <3> QED BY <1>0, <3>1, <3>2 DEF KeepsReserved
  <2> QED BY <2>1, <2>2
<1> QED BY <1>1, <1>2 DEF loadProgram

\* Outside memory only the reservation may differ, and only by being dropped.
OnlyLoaded(k, s) ==
    /\ s.pc = k.pc /\ s.regs = k.regs /\ s.cycle_count = k.cycle_count
    /\ s.mscratch = k.mscratch /\ s.decode_cache = k.decode_cache /\ s.stop_pc = k.stop_pc
    /\ s.reservation \in {k.reservation, NoReservation}

\* loadProgram() of bytes that fit the memory.
LEMMA LoadProgramEffect ==
    ASSUME NEW s, VmInv(s), NEW p \in [at: Word, bytes: Seq(Byte)], p.at + Len(p.bytes) <= MemSize
    PROVE  LET r == loadProgram(s, p)
           IN  /\ r.err = NoError /\ OnlyLoaded(s, r.vm)
               /\ r.vm.reservation # s.reservation =>
                    /\ s.reservation # NoReservation /\ Len(p.bytes) # 0
                    /\ p.at < s.reservation + 4 /\ s.reservation < p.at + Len(p.bytes)
               /\ r.vm.memory = [x \in Addrs |-> IF p.at <= x /\ x < p.at + Len(p.bytes)
                                                 THEN p.bytes[x - p.at + 1] ELSE s.memory[x]]
<1> DEFINE m == [x \in Addrs |-> IF p.at <= x /\ x < p.at + Len(p.bytes)
                                 THEN p.bytes[x - p.at + 1] ELSE s.memory[x]]
           t == [s EXCEPT !.memory = m]
<1>1. p.at \in Nat /\ Len(p.bytes) \in Nat
  BY DEF Word
<1>2. Len(p.bytes) <= MemSize /\ p.at <= MemSize - Len(p.bytes)
  BY <1>1, Constants
<1>3. loadProgram(s, p) = [err |-> NoError, vm |-> invalidateReservationRange(t, p.at, Len(p.bytes))]
  BY <1>1, <1>2, Constants DEF loadProgram
<1>4. t.memory = m /\ OnlyLoaded(s, t) /\ t \in VM /\ t.reservation = s.reservation
  <2>1. m \in [Addrs -> Byte]
    <3>1. ASSUME NEW x \in Addrs, p.at <= x, x < p.at + Len(p.bytes)
          PROVE  p.bytes[x - p.at + 1] \in Byte
      <4>1. x \in Nat /\ p.bytes \in Seq(Byte)
        BY DEF Addrs
      <4> QED BY <1>1, <3>1, <4>1
    <3> QED BY <3>1 DEF VmInv, VM
  <2> HIDE DEF m
  <2> QED BY <2>1 DEF VmInv, VM, OnlyLoaded
<1> HIDE DEF t, m
<1>5. LET u == invalidateReservationRange(t, p.at, Len(p.bytes))
      IN  /\ u.memory = m /\ OnlyLoaded(s, u)
          /\ u.reservation # s.reservation =>
               /\ s.reservation # NoReservation /\ Len(p.bytes) # 0
               /\ p.at < s.reservation + 4 /\ s.reservation < p.at + Len(p.bytes)
  BY <1>4 DEF invalidateReservationRange, VM, OnlyLoaded
<1> QED BY <1>3, <1>5 DEF m

-----------------------------------------------------------------------------
(* What an instruction may do. *)

\* The fields no execute operator writes.
SameFrame(s, t) == t.pc = s.pc /\ t.cycle_count = s.cycle_count /\ t.stop_pc = s.stop_pc

DataOps == LoadOps \cup StoreOps \cup AmoOps \cup {"LR_W", "SC_W"}

\* The data address of i when its first source register holds a.
dataAddr(i, a) == IF i.op \in LoadOps \cup StoreOps THEN AddW(a, i.imm) ELSE a

\* e is the error of an access or CSR check of instruction i.
Explains(i, a, e) ==
    \/ e = "IllegalInstruction" /\ i.op \in CsrOps
    \/ /\ e \in {"MisalignedAccess", "AddressOutOfBounds"}
       /\ i.op \in DataOps
       /\ e = accessError(dataAddr(i, a), width(i.op))

EvenJumps(s, i, next) ==
    s.pc % 2 = 0 /\ next % 2 = 0 /\ (i.op \in BranchOps \cup {"JAL"} => i.imm % 2 = 0)

Effects(s, i, a, next, x) ==
    /\ SameFrame(s, x.vm)
    /\ KeepsReserved(s, x.vm)
    /\ EvenJumps(s, i, next) => x.next_pc % 2 = 0
    /\ x.result # "continue" =>
         /\ x.vm = s /\ x.next_pc = next
         /\ i.op = IF x.result = "ecall" THEN "ECALL" ELSE "EBREAK"
    /\ x.err # NoError => Explains(i, a, x.err)

LEMMA EvenAddW ==
    ASSUME NEW a \in Word, NEW b \in Word, a % 2 = 0, b % 2 = 0
    PROVE  AddW(a, b) % 2 = 0
<1>1. AddW(a, b) = IF a + b < WordMod THEN a + b ELSE a + b - WordMod
  BY Moduli DEF AddW, Word
<1>2. WordMod % 2 = 0
  BY HalfModFour, Moduli
<1> QED BY <1>1, <1>2, Moduli DEF Word

LEMMA ExecutedEffects ==
    ASSUME NEW s, NEW i, NEW a, NEW next, NEW t, NEW n,
           SameFrame(s, t), KeepsReserved(s, t), EvenJumps(s, i, next) => n % 2 = 0
    PROVE  Effects(s, i, a, next, Executed(t, n))
  BY DEF Effects, Executed

LEMMA FaultedEffects ==
    ASSUME NEW s, NEW i, NEW a, NEW next, NEW e, Explains(i, a, e)
    PROVE  Effects(s, i, a, next, Faulted(s, e))
  BY DEF Effects, Faulted, SameFrame, KeepsReserved, EvenJumps

\* Writing a register, the reservation or mscratch leaves the rest alone.
LEMMA WriteRegFrame ==
    ASSUME NEW s, VmInv(s), NEW r, NEW v
    PROVE  /\ writeReg(s, r, v).memory = s.memory
           /\ writeReg(s, r, v).reservation = s.reservation
           /\ writeReg(s, r, v).mscratch = s.mscratch
           /\ writeReg(s, r, v).decode_cache = s.decode_cache
           /\ SameFrame(s, writeReg(s, r, v))
  BY DEF VmInv, VM, writeReg, SameFrame

LEMMA WriteFrame ==
    ASSUME NEW s, VmInv(s), NEW a, NEW n, NEW v
    PROVE  /\ SameFrame(s, write(s, a, n, v).vm)
           /\ write(s, a, n, v).vm.regs = s.regs
           /\ write(s, a, n, v).vm.mscratch = s.mscratch
           /\ write(s, a, n, v).vm.decode_cache = s.decode_cache
  BY DEF VmInv, VM, write, invalidateReservation, SameFrame

LEMMA AccessExplains ==
    ASSUME NEW i, NEW a, i.op \in DataOps, dataAddr(i, a) \in Word,
           accessError(dataAddr(i, a), width(i.op)) # NoError
    PROVE  Explains(i, a, accessError(dataAddr(i, a), width(i.op)))
  BY DEF Explains, accessError

LEMMA AluEffects ==
    ASSUME NEW s, VmInv(s), NEW i \in Instruction, NEW a, NEW b, NEW next,
           i.op \in AluRegOps \cup AluImmOps
    PROVE  Effects(s, i, a, next, execute(s, i, a, b, next))
  BY ExecAlu, WriteRegFrame, SameMemoryKeeps, ExecutedEffects DEF EvenJumps

LEMMA LoadEffects ==
    ASSUME NEW s, VmInv(s), NEW i \in Instruction, NEW a \in Word, NEW b, NEW next, i.op \in LoadOps
    PROVE  Effects(s, i, a, next, execute(s, i, a, b, next))
<1> DEFINE addr == AddW(a, i.imm)
           e    == accessError(addr, width(i.op))
<1>1. addr \in Word
  BY AddWType DEF Instruction, Word
<1>2. dataAddr(i, a) = addr /\ i.op \in DataOps
  BY DEF dataAddr, DataOps
<1>3. CASE e # NoError
  <2>1. Explains(i, a, e)
    BY <1>1, <1>2, <1>3, AccessExplains
  <2> QED BY <1>3, <2>1, ExecLoad, FaultedEffects
<1>4. CASE e = NoError
  BY <1>4, ExecLoad, WriteRegFrame, SameMemoryKeeps, ExecutedEffects DEF EvenJumps
<1> QED BY <1>3, <1>4

LEMMA StoreEffects ==
    ASSUME NEW s, VmInv(s), NEW i \in Instruction, NEW a \in Word, NEW b, NEW next, i.op \in StoreOps
    PROVE  Effects(s, i, a, next, execute(s, i, a, b, next))
<1> DEFINE addr == AddW(a, i.imm)
           e    == accessError(addr, width(i.op))
<1>1. addr \in Word
  BY AddWType DEF Instruction, Word
<1>2. dataAddr(i, a) = addr /\ i.op \in DataOps
  BY DEF dataAddr, DataOps
<1>3. CASE e # NoError
  <2>1. Explains(i, a, e)
    BY <1>1, <1>2, <1>3, AccessExplains
  <2> QED BY <1>3, <2>1, ExecStore, FaultedEffects
<1>4. CASE e = NoError
  <2>1. KeepsReserved(s, write(s, addr, width(i.op), b).vm)
    BY <1>1, WidthType, WriteKeepsReserved
  <2>2. SameFrame(s, write(s, addr, width(i.op), b).vm)
    BY WriteFrame
  <2> QED BY <1>4, <2>1, <2>2, ExecStore, ExecutedEffects DEF EvenJumps
<1> QED BY <1>3, <1>4

LEMMA AtomicEffects ==
    ASSUME NEW s, VmInv(s), NEW i \in Instruction, NEW a \in Word, NEW b \in Word, NEW next,
           i.op \in AmoOps \cup {"LR_W", "SC_W"}
    PROVE  Effects(s, i, a, next, execute(s, i, a, b, next))
<1> DEFINE e == accessError(a, 4)
<1>1. dataAddr(i, a) = a /\ i.op \in DataOps /\ width(i.op) = 4
  BY DEF dataAddr, DataOps, width, AmoOps, LoadOps, StoreOps
<1>2. CASE e # NoError
  <2>1. Explains(i, a, e)
    BY <1>1, <1>2, AccessExplains
  <2>2. execute(s, i, a, b, next) = Faulted(s, e)
    <3>1. CASE i.op = "LR_W"
      BY <1>2, <3>1, ExecLr
    <3>2. CASE i.op = "SC_W"
      BY <1>2, <3>2, ExecSc
    <3>3. CASE i.op \in AmoOps
      BY <1>2, <3>3, ExecAmo
    <3> QED BY <3>1, <3>2, <3>3
  <2> QED BY <2>1, <2>2, FaultedEffects
<1>3. CASE e = NoError
  <2>1. CASE i.op = "LR_W"
    <3>1. lrLeaves(s, i, a).memory = s.memory /\ SameFrame(s, lrLeaves(s, i, a))
      BY DEF lrLeaves, writeReg, VmInv, VM, SameFrame
    <3>2. execute(s, i, a, b, next) = Executed(lrLeaves(s, i, a), next)
      BY <1>3, <2>1, ExecLr
    <3> QED BY <3>1, <3>2, SameMemoryKeeps, ExecutedEffects DEF EvenJumps
  <2>2. CASE i.op = "SC_W"
    <3> DEFINE w == write(s, a, 4, b).vm
               t == scRefused(s, i)
               u == scStored(w, i)
    <3>1. VmInv(w) /\ SameFrame(s, w)
      BY WriteInv, WriteFrame
    <3>2. SameFrame(s, t) /\ t.reservation = NoReservation
      BY DEF scRefused, writeReg, VmInv, VM, SameFrame
    <3>3. SameFrame(s, u) /\ u.reservation = NoReservation
      BY <3>1 DEF scStored, writeReg, VmInv, VM, SameFrame
    <3>4. KeepsReserved(s, t) /\ KeepsReserved(s, u)
      BY <3>2, <3>3 DEF KeepsReserved
    <3>5. execute(s, i, a, b, next) =
            IF s.reservation # a THEN Executed(t, next) ELSE Executed(u, next)
      BY <1>3, <2>2, ExecSc
    <3> HIDE DEF t, u
    <3> QED BY <3>2, <3>3, <3>4, <3>5, ExecutedEffects DEF EvenJumps
  <2>3. CASE i.op \in AmoOps
    <3> DEFINE v == Alu(i.op, WordAt(s.memory, a), b)
               w == write(s, a, 4, v).vm
               t == writeReg(w, i.rd, WordAt(s.memory, a))
    <3>1. v \in Word
      BY <1>3, <2>3, WordReadType, AluAssumption
    <3>2. VmInv(w) /\ SameFrame(s, w) /\ KeepsReserved(s, w)
      BY <3>1, WriteInv, WriteFrame, WriteKeepsReserved
    <3>3. t.memory = w.memory /\ t.reservation = w.reservation /\ SameFrame(w, t)
      BY <3>2, WriteRegFrame
    <3>4. SameFrame(s, t) /\ KeepsReserved(s, t)
      BY <3>2, <3>3 DEF SameFrame, KeepsReserved
    <3>5. execute(s, i, a, b, next) = Executed(t, next)
      BY <1>3, <2>3, ExecAmo
    <3> HIDE DEF t
    <3> QED BY <3>4, <3>5, ExecutedEffects DEF EvenJumps
  <2> QED BY <2>1, <2>2, <2>3
<1> QED BY <1>2, <1>3

\* What a CSR access leaves: the struct with mscratch and rd written, or a fault.
LEMMA CsrShape ==
    ASSUME NEW s, NEW i, NEW a, NEW b, NEW next
    PROVE  LET x == executeCsr(s, i, a, b, next)
           IN  \/ x = Faulted(s, "IllegalInstruction")
               \/ \E t, v : /\ t = s \/ \E c : t = [s EXCEPT !.mscratch = c]
                            /\ x = Executed(t, next) \/ x = Executed(writeReg(t, i.rd, v), next)
<1> DEFINE src    == IF i.op \in {"CSRRW", "CSRRS", "CSRRC"} THEN a ELSE i.rs1
           swap   == i.op \in {"CSRRW", "CSRRWI"}
           reads  == ~swap \/ i.rd # 0
           writes == swap \/ i.rs1 # 0
           old    == csrRead(s, i.csr)
           new    == CASE swap -> src
                       [] i.op \in {"CSRRS", "CSRRSI"} -> Alu("OR", old, src)
                       [] OTHER -> Alu("ANDN", old, src)
           wrote  == csrWrite(s, i.csr, new)
           t      == IF writes THEN wrote.vm ELSE s
<1>1. executeCsr(s, i, a, b, next) =
        IF reads /\ ~csrReadable(i.csr) THEN Faulted(s, "IllegalInstruction")
        ELSE IF writes /\ wrote.err # NoError THEN Faulted(wrote.vm, wrote.err)
        ELSE Executed(IF reads THEN writeReg(t, i.rd, old) ELSE t, next)
  BY DEF executeCsr
<1> HIDE DEF old, new, reads, writes
<1>2. wrote.err # NoError => wrote.vm = s /\ wrote.err = "IllegalInstruction"
  BY DEF csrWrite
<1>3. wrote.vm = s \/ wrote.vm = [s EXCEPT !.mscratch = new]
  BY DEF csrWrite
<1> HIDE DEF wrote
<1>4. t = s \/ \E c : t = [s EXCEPT !.mscratch = c]
  BY <1>3
<1> HIDE DEF t
<1> QED BY <1>1, <1>2, <1>4

LEMMA CsrEffects ==
    ASSUME NEW s, VmInv(s), NEW i \in Instruction, NEW a \in Word, NEW b, NEW next, i.op \in CsrOps
    PROVE  Effects(s, i, a, next, execute(s, i, a, b, next))
<1> DEFINE x == execute(s, i, a, b, next)
<1>1. CASE x = Faulted(s, "IllegalInstruction")
  <2>1. Explains(i, a, "IllegalInstruction")
    BY DEF Explains
  <2> QED BY <1>1, <2>1, FaultedEffects
<1>2. ASSUME NEW t, NEW v, t = s \/ \E c : t = [s EXCEPT !.mscratch = c],
             x = Executed(t, next) \/ x = Executed(writeReg(t, i.rd, v), next)
      PROVE  Effects(s, i, a, next, x)
  <2>1. t.memory = s.memory /\ SameFrame(s, t)
    BY <1>2 DEF SameFrame, VmInv, VM
  <2>2. writeReg(t, i.rd, v).memory = s.memory /\ SameFrame(s, writeReg(t, i.rd, v))
    BY <1>2 DEF SameFrame, VmInv, VM, writeReg
  <2>3. KeepsReserved(s, t) /\ KeepsReserved(s, writeReg(t, i.rd, v))
    BY <2>1, <2>2, SameMemoryKeeps
  <2> HIDE DEF x
  <2> QED BY <1>2, <2>1, <2>2, <2>3, ExecutedEffects DEF EvenJumps
<1> QED BY <1>1, <1>2, ExecCsr, CsrShape

LEMMA BranchEffects ==
    ASSUME NEW s, VmInv(s), NEW i \in Instruction, NEW a \in Word, NEW b, NEW next, i.op \in BranchOps
    PROVE  Effects(s, i, a, next, execute(s, i, a, b, next))
<1> DEFINE n == IF branchTaken(i.op, a, b) THEN AddW(s.pc, i.imm) ELSE next
<1>1. SameFrame(s, s) /\ KeepsReserved(s, s)
  BY DEF SameFrame, KeepsReserved
<1>2. s.pc \in Word /\ i.imm \in Word
  BY DEF VmInv, VM, Instruction
<1>3. EvenJumps(s, i, next) => n % 2 = 0
  BY <1>2, EvenAddW DEF EvenJumps
<1> HIDE DEF n
<1> QED BY <1>1, <1>3, ExecBranch, ExecutedEffects DEF n

LEMMA SystemEffects ==
    ASSUME NEW s, VmInv(s), NEW i \in Instruction, NEW a \in Word, NEW b, NEW next \in Word,
           i.op \in SystemOps
    PROVE  Effects(s, i, a, next, execute(s, i, a, b, next))
<1> DEFINE x == execute(s, i, a, b, next)
<1>1. SameFrame(s, s) /\ KeepsReserved(s, s)
  BY DEF SameFrame, KeepsReserved
<1>2. s.pc \in Word /\ i.imm \in Word
  BY DEF VmInv, VM, Instruction
<1>3. \A v : SameFrame(s, writeReg(s, i.rd, v)) /\ KeepsReserved(s, writeReg(s, i.rd, v))
  BY WriteRegFrame, SameMemoryKeeps
<1>4. jalrTarget(a, i.imm) % 2 = 0
  <2>1. a \in Int /\ i.imm \in Int
    BY <1>2 DEF Word
  <2>2. AddW(a, i.imm) \in Word
    BY <2>1, AddWType
  <2> QED BY <2>2, ClearBit0 DEF jalrTarget
<1>5. CASE i.op = "JAL"
  <2>1. EvenJumps(s, i, next) => AddW(s.pc, i.imm) % 2 = 0
    BY <1>2, <1>5, EvenAddW DEF EvenJumps
  <2>2. x = Executed(writeReg(s, i.rd, next), AddW(s.pc, i.imm))
    BY <1>5, ExecSystem
  <2> QED BY <1>3, <2>1, <2>2, ExecutedEffects
<1>6. CASE i.op = "JALR"
  <2>1. x = Executed(writeReg(s, i.rd, next), jalrTarget(a, i.imm))
    BY <1>6, ExecSystem
  <2> QED BY <1>3, <1>4, <2>1, ExecutedEffects
<1>7. CASE i.op \in {"LUI", "AUIPC"}
  <2>1. \E v : x = Executed(writeReg(s, i.rd, v), next)
    BY <1>7, ExecSystem
  <2> QED BY <1>3, <2>1, ExecutedEffects DEF EvenJumps
<1>8. CASE i.op \in {"FENCE", "FENCE_I"}
  <2>1. x = Executed(s, next)
    BY <1>8, ExecSystem
  <2> QED BY <1>1, <2>1, ExecutedEffects DEF EvenJumps
<1>9. CASE i.op = "ECALL"
  <2>1. x = Stopped(s, "ecall", next)
    BY <1>9, ExecSystem
  <2> QED BY <1>1, <1>9, <2>1 DEF Effects, Stopped, EvenJumps
<1>10. CASE i.op = "EBREAK"
  <2>1. x = Stopped(s, "ebreak", next)
    BY <1>10, ExecSystem
  <2> QED BY <1>1, <1>10, <2>1 DEF Effects, Stopped, EvenJumps
<1> QED BY <1>5, <1>6, <1>7, <1>8, <1>9, <1>10 DEF SystemOps

LEMMA ExecuteEffects ==
    ASSUME NEW s, VmInv(s), NEW i \in Instruction, i.op # "ILLEGAL",
           NEW a \in Word, NEW b \in Word, NEW next \in Word
    PROVE  Effects(s, i, a, next, execute(s, i, a, b, next))
<1>1. i.op \in Ops
  BY DEF Instruction
<1> QED BY <1>1, AluEffects, LoadEffects, StoreEffects, AtomicEffects, CsrEffects, BranchEffects,
           SystemEffects DEF Ops

-----------------------------------------------------------------------------
(* step(): fetch, decode, execute, and the end of the function. *)

\* pc plus the size of the instruction with bits raw.
after(s, raw) == AddW(s.pc, IF isCompressed(raw) THEN 2 ELSE 4)

\* The outcome of executing instruction i, fetched as raw, on the struct z.
executed(z, raw) ==
    LET i == Decode(raw)
    IN  execute(z, i, z.regs[i.rs1], z.regs[i.rs2], after(z, raw))

\* step() ends at fetch, at decode, or with the outcome of execute on a struct
\* that differs from the one before the call only in its decode cache.
LEMMA StepStages ==
    ASSUME NEW s, VmInv(s)
    PROVE  LET f == fetch(s)
           IN  \/ f.err # NoError /\ step(s) = failed(s, f.err)
               \/ /\ f.err = NoError
                  /\ f.raw \in Word
                  /\ \E z : /\ VmInv(z) /\ Arch(z) = Arch(s)
                            /\ \/ /\ Decode(f.raw).op = "ILLEGAL"
                                  /\ step(s) = failed(z, "IllegalInstruction")
                               \/ /\ Decode(f.raw).op # "ILLEGAL"
                                  /\ step(s) = afterExecute(executed(z, f.raw))
<1> DEFINE f    == fetch(s)
           d    == decodeCached(s, f.raw)
           z    == [d.vm EXCEPT !.regs = [d.vm.regs EXCEPT ![0] = 0]]
           next == AddW(z.pc, IF isCompressed(f.raw) THEN 2 ELSE 4)
           x    == execute(z, d.inst, z.regs[d.inst.rs1], z.regs[d.inst.rs2], next)
<1>1. step(s) = IF f.err # NoError THEN failed(s, f.err)
                ELSE IF d.err # NoError THEN failed(d.vm, d.err)
                ELSE afterExecute(x)
  BY DEF step, afterFetch, afterDecode
<1>2. CASE f.err # NoError
  BY <1>1, <1>2
<1>3. CASE f.err = NoError
  <2>1. f.raw \in Word /\ f.raw # WordMod - 4
    BY <1>3, FetchType
  <2>2. /\ VmInv(d.vm) /\ d.inst = Decode(f.raw) /\ Arch(d.vm) = Arch(s)
        /\ d.err = IF Decode(f.raw).op = "ILLEGAL" THEN "IllegalInstruction" ELSE NoError
    BY <2>1, DecodeCachedCorrect
  <2> HIDE DEF f, d
  <2>3. z = d.vm
    <3>1. [d.vm.regs EXCEPT ![0] = 0] = d.vm.regs
      BY <2>2, Constants DEF VmInv, VM
    <3> QED BY <2>2, <3>1 DEF VmInv, VM
  <2>4. VmInv(z) /\ Arch(z) = Arch(s)
    BY <2>2, <2>3
  <2>5. x = executed(z, f.raw)
    BY <2>2 DEF executed, after
  <2>6. CASE Decode(f.raw).op = "ILLEGAL"
    <3>1. d.err = "IllegalInstruction" /\ d.err # NoError
      BY <2>2, <2>6 DEF NoError
    <3> HIDE DEF z
    <3> QED BY <1>1, <1>3, <2>1, <2>3, <2>4, <2>6, <3>1 DEF f
  <2>7. CASE Decode(f.raw).op # "ILLEGAL"
    <3> HIDE DEF z, x
    <3> QED BY <1>1, <1>3, <2>1, <2>2, <2>4, <2>5, <2>7 DEF f
  <2> QED BY <2>6, <2>7
<1> QED BY <1>2, <1>3

LEMMA ArchFields ==
    ASSUME NEW s, NEW t, Arch(s) = Arch(t)
    PROVE  /\ s.pc = t.pc /\ s.regs = t.regs /\ s.memory = t.memory
           /\ s.cycle_count = t.cycle_count /\ s.reservation = t.reservation
           /\ s.mscratch = t.mscratch
  BY DEF Arch

\* fetch() reads pc and memory only.
LEMMA FetchReads ==
    ASSUME NEW s, NEW t, s.pc = t.pc, s.memory = t.memory
    PROVE  fetch(s) = fetch(t)
  BY DEF fetch

\* The address of an instruction that was fetched is even, and so is the next.
LEMMA FetchEven ==
    ASSUME NEW s, VmInv(s), fetch(s).err = NoError
    PROVE  s.pc % 2 = 0 /\ after(s, fetch(s).raw) \in Word /\ after(s, fetch(s).raw) % 2 = 0
<1>1. s.pc % 2 = 0 /\ s.pc \in Word
  BY DEF fetch, NoError, VmInv, VM
<1>2. 2 \in Word /\ 4 \in Word
  BY Moduli DEF Word
<1>3. \A k \in {2, 4} : AddW(s.pc, k) % 2 = 0
  BY <1>1, <1>2, EvenAddW
<1>4. AddW(s.pc, 2) \in Word /\ AddW(s.pc, 4) \in Word
  <2>1. s.pc \in Int
    BY <1>1 DEF Word
  <2> QED BY <2>1, AddWType
<1> QED BY <1>1, <1>3, <1>4 DEF after

\* What execute() does within step().
LEMMA ExecutedFacts ==
    ASSUME NEW z, VmInv(z), fetch(z).err = NoError, Decode(fetch(z).raw).op # "ILLEGAL"
    PROVE  LET raw == fetch(z).raw
               i   == Decode(raw)
           IN  /\ i \in Instruction
               /\ ExecOK(z, executed(z, raw))
               /\ Effects(z, i, z.regs[i.rs1], after(z, raw), executed(z, raw))
               /\ EvenJumps(z, i, after(z, raw))
<1> DEFINE raw == fetch(z).raw
           i   == Decode(raw)
<1>1. raw \in Word
  BY FetchType
<1>2. i \in Instruction /\ (i.op \in BranchOps \cup {"JAL"} => i.imm % 2 = 0)
  BY <1>1, DecodeAssumption
<1>3. z.regs[i.rs1] \in Word /\ z.regs[i.rs2] \in Word
  BY <1>2 DEF VmInv, VM, Instruction
<1>4. after(z, raw) \in Word /\ EvenJumps(z, i, after(z, raw))
  BY <1>2, FetchEven DEF EvenJumps
<1> HIDE DEF raw
<1> QED BY <1>2, <1>3, <1>4, ExecuteOK, ExecuteEffects DEF executed, raw

\* The address and the cause of a fault are what describeFault() finds again in
\* the state the fault left.
Described(s, e) ==
    LET d == describeFault(s)
        i == Decode(d.raw)
    IN  CASE e \in {"MisalignedPC", "PCOutOfBounds"} -> d.raw = NONE /\ d.addr = s.pc
          [] e = "IllegalInstruction" -> d.raw # NONE /\ d.addr = NONE
          [] OTHER -> /\ d.raw # NONE /\ d.addr # NONE
                      /\ accessError(d.addr, width(i.op)) = e

\* stop_pc is the address of the instruction that stopped the machine with r.
StoppedAt(s, r) ==
    LET f == fetch([s EXCEPT !.pc = s.stop_pc])
    IN  /\ f.err = NoError
        /\ Decode(f.raw).op = IF r = "ecall" THEN "ECALL" ELSE "EBREAK"
        /\ s.pc = AddW(s.stop_pc, IF isCompressed(f.raw) THEN 2 ELSE 4)

\* describeFault() reads pc, regs and memory only.
LEMMA DescribedReads ==
    ASSUME NEW s, NEW t, Arch(s) = Arch(t), NEW e, Described(s, e)
    PROVE  Described(t, e)
<1>1. s.pc = t.pc /\ s.regs = t.regs /\ fetch(s) = fetch(t)
  BY ArchFields, FetchReads
<1>2. describeFault(s) = describeFault(t)
  BY <1>1 DEF describeFault
<1> QED BY <1>1, <1>2 DEF Described

LEMMA DescribesFetch ==
    ASSUME NEW s, fetch(s).err # NoError
    PROVE  Described(s, fetch(s).err)
<1>1. fetch(s).err \in {"MisalignedPC", "PCOutOfBounds"}
  BY DEF fetch
<1>2. describeFault(s) = [raw |-> NONE, addr |-> s.pc]
  BY DEF describeFault
<1> QED BY <1>1, <1>2 DEF Described

LEMMA DescribesIllegal ==
    ASSUME NEW s, VmInv(s), fetch(s).err = NoError,
           Decode(fetch(s).raw).op \in CsrOps \cup {"ILLEGAL"}
    PROVE  Described(s, "IllegalInstruction")
<1>1. fetch(s).raw \in Word
  BY FetchType
<1>2. Decode(fetch(s).raw).op \notin DataOps
  BY DEF DataOps, CsrOps, LoadOps, StoreOps, AmoOps
<1>3. describeFault(s) = [raw |-> fetch(s).raw, addr |-> NONE]
  BY <1>2 DEF describeFault, DataOps
<1> QED BY <1>1, <1>3 DEF Described, Word, NONE

LEMMA DescribesAccess ==
    ASSUME NEW s, VmInv(s), fetch(s).err = NoError, NEW e,
           LET i == Decode(fetch(s).raw)
           IN  /\ e \in {"MisalignedAccess", "AddressOutOfBounds"}
               /\ i.op \in DataOps
               /\ e = accessError(dataAddr(i, s.regs[i.rs1]), width(i.op))
    PROVE  Described(s, e)
<1> DEFINE raw == fetch(s).raw
           i == Decode(raw)
           a == s.regs[i.rs1]
<1>1. raw \in Word /\ i \in Instruction
  BY FetchType, DecodeAssumption
<1>2. a \in Word /\ a = IF i.rs1 = 0 THEN 0 ELSE s.regs[i.rs1]
  BY <1>1 DEF VmInv, VM, Instruction
<1>3. dataAddr(i, a) \in Word
  <2>1. a \in Int /\ i.imm \in Int
    BY <1>1, <1>2 DEF Instruction, Word
  <2> QED BY <1>2, <2>1, AddWType DEF dataAddr
<1>4. describeFault(s) = [raw |-> raw, addr |-> dataAddr(i, a)]
  <2>0. describeFault(s) =
          [raw  |-> raw,
           addr |-> CASE i.op \in LoadOps \cup StoreOps -> AddW(a, i.imm)
                      [] i.op \in AmoOps \cup {"LR_W", "SC_W"} -> a
                      [] OTHER -> NONE]
    <3>1. CASE i.rs1 = 0
      <4>1. a = 0
        BY <1>2, <3>1
      <4> HIDE DEF a
      <4> QED BY <3>1, <4>1 DEF describeFault
    <3>2. CASE i.rs1 # 0
      BY <3>2 DEF describeFault
    <3> QED BY <3>1, <3>2
  <2>1. CASE i.op \in LoadOps \cup StoreOps
    <3>1. dataAddr(i, a) = AddW(a, i.imm) /\ i.op \notin AmoOps \cup {"LR_W", "SC_W"}
      BY <2>1 DEF dataAddr, AmoOps, LoadOps, StoreOps
    <3> QED BY <2>0, <2>1, <3>1
  <2>2. CASE i.op \in AmoOps \cup {"LR_W", "SC_W"}
    <3>1. i.op \notin LoadOps \cup StoreOps
      BY <2>2 DEF AmoOps, LoadOps, StoreOps
    <3> QED BY <2>0, <2>2, <3>1 DEF dataAddr
  <2> QED BY <2>1, <2>2 DEF DataOps
<1> HIDE DEF raw, i
<1> QED BY <1>1, <1>3, <1>4 DEF Described, Word, NONE, i, raw

\* What the host sees of one step(): a fault is described by the state it left,
\* a stop is where stop_pc says, and an instruction that retired counted one
\* cycle, left pc even and the reserved word as it was.
LEMMA StepFacts ==
    ASSUME NEW s, VmInv(s)
    PROVE  LET r == step(s)
           IN  /\ r.err # NoError => Described(r.vm, r.err)
               /\ r.result # "continue" => r.err = NoError /\ StoppedAt(r.vm, r.result)
               /\ r.err = NoError => /\ r.vm.cycle_count = (s.cycle_count + 1) % CountMod
                                     /\ r.vm.pc % 2 = 0
               /\ KeepsReserved(s, r.vm)
<1> DEFINE f == fetch(s)
           r == step(s)
<1>1. CASE f.err # NoError /\ r = failed(s, f.err)
  BY <1>1, DescribesFetch DEF failed, KeepsReserved
<1>2. ASSUME f.err = NoError, f.raw \in Word, NEW z, VmInv(z), Arch(z) = Arch(s),
             Decode(f.raw).op = "ILLEGAL", r = failed(z, "IllegalInstruction")
      PROVE  /\ Described(r.vm, r.err)
             /\ r.err # NoError /\ r.result = "continue" /\ KeepsReserved(s, r.vm)
  <2>1. Described(s, "IllegalInstruction")
    BY <1>2, DescribesIllegal
  <2>2. Described(z, "IllegalInstruction")
    BY <1>2, <2>1, DescribedReads
  <2>3. z.memory = s.memory
    BY <1>2, ArchFields
  <2> QED BY <1>2, <2>2, <2>3, SameMemoryKeeps DEF failed, NoError
<1>3. ASSUME f.err = NoError, f.raw \in Word, NEW z, VmInv(z), Arch(z) = Arch(s),
             Decode(f.raw).op # "ILLEGAL", r = afterExecute(executed(z, f.raw))
      PROVE  /\ r.err # NoError => Described(r.vm, r.err)
             /\ r.result # "continue" => r.err = NoError /\ StoppedAt(r.vm, r.result)
             /\ r.err = NoError => /\ r.vm.cycle_count = (s.cycle_count + 1) % CountMod
                                   /\ r.vm.pc % 2 = 0
             /\ KeepsReserved(s, r.vm)
  <2> DEFINE i == Decode(f.raw)
             x == executed(z, f.raw)
             a == z.regs[i.rs1]
             next == after(z, f.raw)
  <2>1. z.pc = s.pc /\ z.memory = s.memory /\ z.cycle_count = s.cycle_count
        /\ z.reservation = s.reservation /\ f = fetch(z)
    BY <1>3, ArchFields, FetchReads
  <2>2. i \in Instruction /\ ExecOK(z, x) /\ Effects(z, i, a, next, x) /\ EvenJumps(z, i, next)
    BY <1>3, <2>1, ExecutedFacts
  <2> HIDE DEF x
  <2>3. CASE x.err # NoError
    <3>1. r = failed(x.vm, x.err) /\ x.vm = z
      BY <1>3, <2>2, <2>3 DEF afterExecute, ExecOK, x
    <3>2. Explains(i, a, x.err)
      BY <2>2, <2>3 DEF Effects
    <3>3. Described(z, x.err)
      BY <1>3, <2>1, <3>2, DescribesIllegal, DescribesAccess DEF Explains
    <3> QED BY <2>1, <2>3, <3>1, <3>3, SameMemoryKeeps DEF failed
  <2>4. CASE x.err = NoError
    <3>1. r = [vm |-> retired(x), err |-> NoError, result |-> x.result]
      BY <1>3, <2>4 DEF afterExecute, x
    <3>2. /\ retired(x).cycle_count = (x.vm.cycle_count + 1) % CountMod
          /\ retired(x).pc = x.next_pc /\ retired(x).memory = x.vm.memory
          /\ retired(x).reservation = x.vm.reservation
          /\ x.result # "continue" => retired(x).stop_pc = x.vm.pc
      BY <2>2 DEF ExecOK, VmInv, VM, retired
    <3>3. x.vm.cycle_count = s.cycle_count /\ KeepsReserved(s, x.vm) /\ x.next_pc % 2 = 0
      BY <2>1, <2>2 DEF Effects, SameFrame, KeepsReserved
    <3>4. KeepsReserved(s, retired(x))
      BY <3>2, <3>3 DEF KeepsReserved
    <3>5. ASSUME x.result # "continue"
          PROVE  StoppedAt(retired(x), x.result)
      <4> DEFINE t == retired(x)
      <4>1. x.vm = z /\ x.next_pc = next /\ i.op = IF x.result = "ecall" THEN "ECALL" ELSE "EBREAK"
        BY <2>2, <3>5 DEF Effects
      <4>2. t.stop_pc = s.pc /\ t.memory = s.memory /\ t.pc = next /\ next = after(s, f.raw)
        BY <2>1, <3>2, <3>5, <4>1 DEF after
      <4>3. [t EXCEPT !.pc = t.stop_pc].pc = s.pc /\ [t EXCEPT !.pc = t.stop_pc].memory = s.memory
        BY <1>3, <4>2, <4>1 DEF retired, VmInv, VM
      <4>4. fetch([t EXCEPT !.pc = t.stop_pc]) = f
        BY <4>3, FetchReads
      <4> HIDE DEF t
      <4>5. t.pc = AddW(t.stop_pc, IF isCompressed(f.raw) THEN 2 ELSE 4)
        BY <4>2 DEF after
      <4> QED BY <1>3, <4>1, <4>4, <4>5 DEF StoppedAt, t
    <3> HIDE DEF r
    <3> QED BY <3>1, <3>2, <3>3, <3>4, <3>5
  <2> QED BY <2>3, <2>4
<1> HIDE DEF r
<1> QED BY <1>1, <1>2, <1>3, StepStages DEF r, failed

-----------------------------------------------------------------------------
(* What the host is told: the invariant of step() and of run()'s loop. *)

\* While run() loops the host was told nothing yet; the counter is where the
\* call found it, or past that and within the limit; the limit of runFor() is
\* the one it computed; and a runFor() that came to its end is at the limit.
RunLoop ==
    /\ call.active => ret = Return("run", "running", NoError)
    /\ call.limit # NONE =>
         \/ vm.cycle_count = call.since
         \/ call.since < vm.cycle_count /\ vm.cycle_count <= call.limit
    /\ call.steps # NONE => call.limit = runForLimit(call.since, call.steps)
    /\ call.steps # NONE /\ ~call.active /\ ret.result = "continue" /\ ret.err = NoError =>
         vm.cycle_count >= call.limit

Told == RunLoop /\ StopPcNamesTheStop /\ FaultExplained

LEMMA InitTold == Init => Told
  BY DEF Init, Told, RunLoop, StopPcNamesTheStop, FaultExplained, Idle, Return, NoError

\* A call other than step() and run() ends any run and tells of no stop and no
\* fault.
LEMMA QuietTold ==
    ASSUME call' = Idle, NEW name, NEW e, name \notin {"step", "run"}, ret' = Return(name, "ok", e)
    PROVE  Told'
<1>1. RunLoop'
  BY DEF RunLoop, Idle, Return, NONE
<1> QED BY <1>1 DEF Told, StopPcNamesTheStop, FaultExplained, Return

LEMMA NextTold == Inv /\ Told /\ [Next]_vars => Told'
<1> SUFFICES ASSUME Inv, Told, [Next]_vars PROVE Told'
  OBVIOUS
<1>0. VmInv(vm) /\ vm.cycle_count \in Count
  BY DEF Inv, VmInv, VM
<1>1. ASSUME NEW name, NEW r, HostCall(name, r), name \notin {"step", "run"} PROVE Told'
  BY <1>1, QuietTold DEF HostCall
<1>2. CASE WriteSnapshot
  BY <1>2, QuietTold DEF WriteSnapshot
<1>3. CASE Step
  <2>1. ret' = Return("step", step(vm).result, step(vm).err) /\ vm' = step(vm).vm /\ call' = Idle
    BY <1>3 DEF Step, Stepped
  <2>2. RunLoop'
    BY <2>1 DEF RunLoop, Idle, NONE
  <2>3. StopPcNamesTheStop'
    <3>1. ret'.result \in {"ecall", "ebreak"} => StoppedAt(vm', ret'.result)
      BY <1>0, <2>1, StepFacts DEF Return
    <3> QED BY <3>1 DEF StopPcNamesTheStop, StoppedAt
  <2>4. FaultExplained'
    <3>1. ret'.err # NoError => Described(vm', ret'.err)
      BY <1>0, <2>1, StepFacts DEF Return
    <3> QED BY <3>1 DEF FaultExplained, Described
  <2> QED BY <2>2, <2>3, <2>4 DEF Told
<1>4. ASSUME NEW l \in Limits, Run(l) PROVE Told'
  <2>1. RunLoop'
    BY <1>4 DEF Run, RunLoop, NONE
  <2> QED BY <1>4, <2>1 DEF Run, Told, StopPcNamesTheStop, FaultExplained, Return, NoError
<1>5. ASSUME NEW n \in StepCounts, RunFor(n) PROVE Told'
  <2>1. RunLoop'
    BY <1>5 DEF RunFor, RunLoop
  <2> QED BY <1>5, <2>1 DEF RunFor, Told, StopPcNamesTheStop, FaultExplained, Return, NoError
<1>6. CASE RunLimit
  <2>1. RunLoop'
    BY <1>6 DEF RunLimit, Told, RunLoop, limitReached, Inv, TypeOK
  <2> QED BY <1>6, <2>1 DEF RunLimit, Told, StopPcNamesTheStop, FaultExplained, Return, NoError
<1>7. CASE RunStep
  <2> DEFINE r == step(vm)
             ends == r.err # NoError \/ r.result # "continue"
  <2>1. /\ vm' = r.vm /\ call' = [call EXCEPT !.active = ~ends]
        /\ ret' = IF ends THEN Return("run", r.result, r.err) ELSE ret
        /\ call.active /\ ~limitReached(vm.cycle_count, call.limit)
    BY <1>7 DEF RunStep, Iterated
  <2>2. ret = Return("run", "running", NoError)
    BY <2>1 DEF Told, RunLoop
  <2>4. /\ call'.limit = call.limit /\ call'.since = call.since /\ call'.steps = call.steps
        /\ (call'.active <=> ~ends) /\ call.limit \in Count \cup {NONE} /\ call.since \in Count
    BY <2>1 DEF Inv, TypeOK
  <2>5. vm'.cycle_count = IF r.err = NoError THEN (vm.cycle_count + 1) % CountMod ELSE vm.cycle_count
    BY <1>0, <2>1, StepFacts, StepOK, ArchFields
  <2>6. call.limit # NONE =>
          \/ vm'.cycle_count = call.since
          \/ call.since < vm'.cycle_count /\ vm'.cycle_count <= call.limit
    <3> SUFFICES ASSUME call.limit # NONE
                 PROVE  \/ vm'.cycle_count = call.since
                        \/ call.since < vm'.cycle_count /\ vm'.cycle_count <= call.limit
      OBVIOUS
    <3>1. vm.cycle_count < call.limit /\ vm.cycle_count >= call.since
      BY <1>0, <2>1, <2>4 DEF limitReached, Told, RunLoop, Count
    <3>2. vm.cycle_count + 1 < CountMod /\ (vm.cycle_count + 1) % CountMod = vm.cycle_count + 1
      BY <1>0, <2>4, <3>1, Constants DEF Count
    <3> QED BY <1>0, <2>4, <2>5, <3>1, <3>2 DEF Told, RunLoop, Count
  <2> HIDE DEF r
  <2>7. RunLoop'
    <3>1. call'.active => ret' = Return("run", "running", NoError)
      BY <2>1, <2>2, <2>4
    <3>2. ~call'.active => ~(ret'.result = "continue" /\ ret'.err = NoError)
      BY <2>1, <2>4 DEF Return
    <3> QED BY <2>4, <2>6, <3>1, <3>2 DEF Told, RunLoop
  <2>8. StopPcNamesTheStop'
    <3>1. ret'.result \in {"ecall", "ebreak"} => StoppedAt(vm', ret'.result)
      BY <1>0, <2>1, <2>2, StepFacts DEF Return, r
    <3> QED BY <3>1 DEF StopPcNamesTheStop, StoppedAt
  <2>9. FaultExplained'
    <3>1. ret'.err # NoError => Described(vm', ret'.err)
      BY <1>0, <2>1, <2>2, StepFacts DEF Return, r
    <3> QED BY <3>1 DEF FaultExplained, Described
  <2> QED BY <2>7, <2>8, <2>9 DEF Told
<1>8. CASE UNCHANGED vars
  BY <1>8 DEF vars, Told, RunLoop, StopPcNamesTheStop, FaultExplained
<1>9. CASE Reset \/ ClearReservation
  BY <1>1, <1>9 DEF Reset, ClearReservation
<1>10. ASSUME NEW p, LoadProgram(p) PROVE Told'
  BY <1>1, <1>10 DEF LoadProgram
<1>11. ASSUME NEW w, Write(w) \/ PokeMemory(w) PROVE Told'
  BY <1>1, <1>11 DEF Write, PokeMemory
<1>12. ASSUME NEW w, WriteReg(w) \/ SetPc(w) PROVE Told'
  BY <1>1, <1>12 DEF WriteReg, SetPc
<1>13. ASSUME NEW h, NEW n, RestoreSnapshot(h, n) PROVE Told'
  BY <1>1, <1>13 DEF RestoreSnapshot
<1> QED BY <1>2, <1>3, <1>4, <1>5, <1>6, <1>7, <1>8, <1>9, <1>10, <1>11, <1>12, <1>13 DEF Next

LEMMA ToldAlways == Spec => []Told
<1>1. Init => Inv
  BY InitInv
<1>2. Inv /\ [Next]_vars => Inv'
  BY NextInv
<1> QED BY <1>1, <1>2, InitTold, NextTold, PTL DEF Spec

\* After an ECALL or EBREAK, stop_pc names the instruction that stopped and pc
\* the one after it: for every program, however step() and run() are mixed
\* with the host's other calls.
THEOREM StopAlwaysNamed == Spec => []StopPcNamesTheStop
<1>1. Told => StopPcNamesTheStop
  BY DEF Told
<1> QED BY <1>1, ToldAlways, PTL

\* describeFault() recomputes the cause and the address of every fault from the
\* state the fault left: it repeats fetch and decode instead of recording them.
THEOREM FaultsAlwaysExplained == Spec => []FaultExplained
<1>1. Told => FaultExplained
  BY DEF Told
<1> QED BY <1>1, ToldAlways, PTL

\* No run() passes its limit and no runFor() executes more or, unless the
\* counter saturates, fewer steps than asked: for every counter width.
THEOREM RunsWithinLimit == Spec => []RunWithinLimit
<1>1. Inv /\ Told => RunWithinLimit
  <2> SUFFICES ASSUME Inv, Told PROVE RunWithinLimit
    OBVIOUS
  <2> DEFINE executedSteps == (vm.cycle_count - call.since) % CountMod
  <2>1. /\ vm.cycle_count \in Count /\ call.since \in Count
        /\ call.limit \in Count \cup {NONE} /\ call.steps \in Nat \cup {NONE}
    BY DEF Inv, TypeOK, VM
  <2>2. ASSUME call.steps # NONE
        PROVE  /\ executedSteps <= call.steps
               /\ ~call.active /\ ret.result = "continue" /\ ret.err = NoError =>
                    executedSteps = call.steps \/ vm.cycle_count = CountMod - 1
    <3>1. call.limit = runForLimit(call.since, call.steps) /\ call.steps \in Nat
      BY <2>1, <2>2 DEF Told, RunLoop
    <3>2. /\ call.since <= call.limit /\ call.limit <= call.since + call.steps
          /\ call.limit # NONE
          /\ call.limit = call.since + call.steps \/ call.limit = CountMod - 1
      BY <2>1, <3>1, Constants DEF runForLimit, Count, NONE
    <3>3. /\ call.since <= vm.cycle_count /\ vm.cycle_count <= call.limit
      BY <2>1, <3>2 DEF Told, RunLoop, Count, NONE
    <3>4. executedSteps = vm.cycle_count - call.since
      BY <2>1, <3>3, Constants DEF Count
    <3>5. ~call.active /\ ret.result = "continue" /\ ret.err = NoError => vm.cycle_count = call.limit
      BY <2>1, <2>2, <3>2, <3>3 DEF Told, RunLoop, Count, NONE
    <3> HIDE DEF executedSteps
    <3> QED BY <2>1, <3>1, <3>2, <3>3, <3>4, <3>5 DEF Count, NONE
  <2> QED BY <2>2 DEF Told, RunLoop, RunWithinLimit
<1> QED BY <1>1, InvAlways, ToldAlways, PTL

\* Only the host can make pc odd: the target of every jump, branch and return,
\* wrapped or not, is even.
THEOREM GuestKeepsPcEven == Spec => GuestPcEven
<1>1. Inv /\ [Next]_vars => [(Step \/ RunStep) /\ vm'.pc # vm.pc => vm'.pc % 2 = 0]_vars
  <2> SUFFICES ASSUME Inv, Step \/ RunStep, vm'.pc # vm.pc PROVE vm'.pc % 2 = 0
    OBVIOUS
  <2>1. VmInv(vm) /\ vm' = step(vm).vm
    BY DEF Inv, Step, Stepped, RunStep, Iterated
  <2>2. step(vm).err = NoError
    BY <2>1, StepOK, ArchFields
  <2> QED BY <2>1, <2>2, StepFacts
<1> QED BY <1>1, InvAlways, PTL DEF Spec, GuestPcEven

\* Every step keeps the reserved word, or drops the reservation, or is a restore.
LEMMA NextKeepsReserved ==
    ASSUME Inv, Next
    PROVE  KeepsReserved(vm, vm') \/ ret'.call = "restoreSnapshot"
<1>0. VmInv(vm)
  BY DEF Inv
<1>1. ASSUME vm'.memory = vm.memory \/ vm'.reservation = NoReservation
      PROVE  KeepsReserved(vm, vm')
  BY <1>1 DEF KeepsReserved
<1>2. CASE Step \/ RunStep
  BY <1>0, <1>2, StepFacts DEF Step, Stepped, RunStep, Iterated
<1>3. ASSUME NEW p \in Programs, LoadProgram(p) PROVE KeepsReserved(vm, vm')
  BY <1>0, <1>3, LoadProgramKeepsReserved, HostAssumption DEF LoadProgram, HostCall
<1>4. ASSUME NEW w \in HostWrites, Write(w) PROVE KeepsReserved(vm, vm')
  <2>1. w.at \in Word /\ w.width \in {1, 2, 4}
    BY HostAssumption
  <2> QED BY <1>0, <1>4, <2>1, WriteKeepsReserved DEF Write, HostCall
<1>5. ASSUME NEW w \in HostWrites, PokeMemory(w) PROVE KeepsReserved(vm, vm')
  <2>1. vm'.reservation = NoReservation
    BY <1>0, <1>5 DEF PokeMemory, HostCall, NoFail, VmInv, VM
  <2> QED BY <1>1, <2>1
<1>6. ASSUME NEW w \in HostRegs, WriteReg(w) PROVE KeepsReserved(vm, vm')
  <2>1. vm'.memory = vm.memory
    BY <1>0, <1>6, WriteRegFrame DEF WriteReg, HostCall, NoFail
  <2> QED BY <1>1, <2>1
<1>7. ASSUME NEW a \in HostPcs, SetPc(a) PROVE KeepsReserved(vm, vm')
  <2>1. vm'.memory = vm.memory
    BY <1>0, <1>7 DEF SetPc, HostCall, NoFail, VmInv, VM
  <2> QED BY <1>1, <2>1
<1>8. CASE ClearReservation \/ Reset
  <2>1. vm'.reservation = NoReservation
    BY <1>0, <1>8 DEF ClearReservation, Reset, PowerOn, HostCall, NoFail, VmInv, VM
  <2> QED BY <1>1, <2>1
<1>9. CASE WriteSnapshot \/ RunLimit \/ (\E l \in Limits : Run(l)) \/ (\E n \in StepCounts : RunFor(n))
  <2>1. vm' = vm
    BY <1>9 DEF WriteSnapshot, RunLimit, Run, RunFor
  <2> QED BY <1>1, <2>1
<1>10. ASSUME NEW h, NEW n, RestoreSnapshot(h, n) PROVE ret'.call = "restoreSnapshot"
  BY <1>10 DEF RestoreSnapshot, HostCall, Return
<1> QED BY <1>2, <1>3, <1>4, <1>5, <1>6, <1>7, <1>8, <1>9, <1>10 DEF Next

\* While a reservation is held nothing changes the reserved word: the property
\* SC.W needs, whoever writes to memory and however wide the write is.
THEOREM ReservedWordKept == Spec => ReservedWordStable
<1> DEFINE A == /\ vm.reservation # NoReservation
                /\ vm'.reservation = vm.reservation
                /\ ret'.call # "restoreSnapshot"
                => WordAt(vm'.memory, vm.reservation) = WordAt(vm.memory, vm.reservation)
<1>1. Inv /\ [Next]_vars => [A]_vars
  BY NextKeepsReserved DEF KeepsReserved
<1> QED BY <1>1, InvAlways, PTL DEF Spec, ReservedWordStable

-----------------------------------------------------------------------------
(* The hart's vocabulary is the machine's. *)

LEMMA SameOps ==
    /\ H!LoadOps = LoadOps /\ H!StoreOps = StoreOps /\ H!BranchOps = BranchOps
    /\ H!AmoOps = AmoOps /\ H!CsrOps = CsrOps /\ H!AluRegOps = AluRegOps
    /\ H!AluImmOps = AluImmOps
  BY DEF H!LoadOps, LoadOps, H!StoreOps, StoreOps, H!BranchOps, BranchOps, H!AmoOps, AmoOps,
         H!CsrOps, CsrOps, H!AluRegOps, AluRegOps, H!AluImmOps, AluImmOps

LEMMA SameNumbers ==
    /\ H!WordMod = WordMod /\ H!HalfMod = HalfMod /\ H!Regs = Regs /\ H!Addrs = Addrs
    /\ H!NONE = NONE
    /\ \A a, b : H!AddW(a, b) = AddW(a, b)
    /\ \A a : H!Signed(a) = Signed(a)
    /\ \A a, m : H!SignExtend(a, m) = SignExtend(a, m)
    /\ \A a : H!isCompressed(a) = isCompressed(a)
<1>1. H!WordMod = WordMod /\ H!HalfMod = HalfMod
  BY DEF H!HalfMod, HalfMod, H!WordMod, WordMod
<1> QED BY <1>1 DEF H!AddW, AddW, H!Signed, Signed, H!SignExtend, SignExtend, H!isCompressed,
                    isCompressed, H!Regs, Regs, H!Addrs, Addrs, H!NONE, NONE

LEMMA SameMemory ==
    /\ \A m, a : H!HalfAt(m, a) = HalfAt(m, a)
    /\ \A m, a : H!WordAt(m, a) = WordAt(m, a)
    /\ \A m, a, n, v : H!StoreLE(m, a, n, v) = StoreLE(m, a, n, v)
<1>1. \A v, i : H!ByteOf(v, i) = ByteOf(v, i)
  BY SameNumbers DEF H!ByteOf, ByteOf
<1>2. \A m, a : H!HalfAt(m, a) = HalfAt(m, a)
  BY DEF H!HalfAt, HalfAt
<1>3. \A m, a : H!WordAt(m, a) = WordAt(m, a)
  BY <1>2, SameNumbers DEF H!WordAt, WordAt
<1>4. \A m, a, n, v : H!StoreLE(m, a, n, v) = StoreLE(m, a, n, v)
  BY <1>1 DEF H!StoreLE, StoreLE
<1> QED BY <1>2, <1>3, <1>4

-----------------------------------------------------------------------------
(* The hart's view of the instruction at pc. *)

LEMMA ViewFetch ==
    ASSUME VmInv(vm)
    PROVE  LET f == fetch(vm)
           IN  /\ H!Fetchable <=> f.err = NoError
               /\ f.err # NoError => f.err = H!FaultError
               /\ f.err = NoError => H!Inst = Decode(f.raw) /\ H!Following = after(vm, f.raw)
<1> DEFINE low == HalfAt(vm.memory, vm.pc)
<1>1. Arch(vm).pc = vm.pc /\ Arch(vm).memory = vm.memory
  BY DEF Arch
<1>2. vm.pc \in Nat /\ MemSize \in Nat
  BY Constants DEF VmInv, VM, Word
<1>3. H!Low = low /\ (H!isCompressed(H!Low) <=> isCompressed(low))
  BY <1>1, SameMemory, SameNumbers DEF H!Low
<1>4. H!Fetchable <=> /\ vm.pc % 2 = 0 /\ vm.pc <= MemSize - 2
                      /\ isCompressed(low) \/ vm.pc <= MemSize - 4
  BY <1>1, <1>2, <1>3 DEF H!Fetchable, H!InMemory
<1>5. H!Inst = IF isCompressed(low) THEN Decode(low) ELSE Decode(WordAt(vm.memory, vm.pc))
  BY <1>1, <1>3, SameMemory DEF H!Inst
<1>6. H!Following = IF isCompressed(low) THEN AddW(vm.pc, 2) ELSE AddW(vm.pc, 4)
  BY <1>1, <1>3, SameNumbers DEF H!Following
<1>7. ~H!Fetchable => H!FaultError = IF vm.pc % 2 # 0 THEN "MisalignedPC" ELSE "PCOutOfBounds"
  BY <1>1 DEF H!FaultError
<1>8. ~isCompressed(low) /\ fetch(vm).err = NoError => ~isCompressed(WordAt(vm.memory, vm.pc))
  <2> SUFFICES ASSUME ~isCompressed(low), fetch(vm).err = NoError
               PROVE  ~isCompressed(WordAt(vm.memory, vm.pc))
    OBVIOUS
  <2>1. vm.pc <= MemSize - 4
    BY <1>2 DEF fetch, NoError
  <2>2. {vm.pc, vm.pc + 1, vm.pc + 2, vm.pc + 3} \subseteq Addrs
    BY <1>2, <2>1 DEF Addrs
  <2>3. low \in Half /\ HalfAt(vm.memory, vm.pc + 2) \in Half
    <3>1. vm.memory \in [Addrs -> Byte] /\ vm.pc + 2 + 1 = vm.pc + 3
      BY <1>2 DEF VmInv, VM
    <3> QED BY <2>2, <3>1, HalfAtType
  <2>4. WordAt(vm.memory, vm.pc) % 4 = low % 4
    <3>1. low \in Nat /\ HalfAt(vm.memory, vm.pc + 2) \in Nat
      BY <2>3, Moduli DEF Half
    <3> HIDE DEF low
    <3>2. (low + HalfMod * HalfAt(vm.memory, vm.pc + 2)) % 4 = low % 4
      BY <3>1, HalfModFour
    <3> QED BY <3>2 DEF WordAt, low
  <2> QED BY <2>4 DEF isCompressed
<1>9. \/ /\ ~H!Fetchable
         /\ fetch(vm).err = IF vm.pc % 2 # 0 THEN "MisalignedPC" ELSE "PCOutOfBounds"
      \/ /\ H!Fetchable /\ fetch(vm).err = NoError
         /\ fetch(vm).raw = IF isCompressed(low) THEN low ELSE WordAt(vm.memory, vm.pc)
  <2>1. CASE vm.pc % 2 # 0 \/ vm.pc > MemSize - 2
    BY <1>2, <1>4, <2>1 DEF fetch
  <2>2. CASE vm.pc % 2 = 0 /\ vm.pc <= MemSize - 2 /\ isCompressed(low)
    BY <1>2, <1>4, <2>2 DEF fetch
  <2>3. CASE vm.pc % 2 = 0 /\ vm.pc <= MemSize - 2 /\ ~isCompressed(low)
    BY <1>2, <1>4, <2>3 DEF fetch
  <2> QED BY <1>2, <2>1, <2>2, <2>3
<1>10. CASE ~H!Fetchable
  BY <1>7, <1>9, <1>10 DEF NoError
<1>11. CASE H!Fetchable
  <2>1. fetch(vm).err = NoError /\ (isCompressed(fetch(vm).raw) <=> isCompressed(low))
    BY <1>8, <1>9, <1>11
  <2>2. H!Inst = Decode(fetch(vm).raw)
    BY <1>5, <1>9, <1>11
  <2>3. H!Following = after(vm, fetch(vm).raw)
    BY <1>6, <2>1 DEF after
  <2> QED BY <1>11, <2>1, <2>2, <2>3
<1> QED BY <1>10, <1>11

\* The instruction i, with raw bits raw, is fetched and decoded from vm.
Fetched(raw, i) ==
    /\ fetch(vm).err = NoError /\ raw = fetch(vm).raw /\ i = Decode(raw)
    /\ i \in Instruction

LEMMA ViewInst ==
    ASSUME VmInv(vm), NEW raw, NEW i, Fetched(raw, i)
    PROVE  /\ H!Fetchable /\ H!Inst = i /\ H!Following = after(vm, raw)
           /\ H!Src1 = vm.regs[i.rs1] /\ H!Src2 = vm.regs[i.rs2]
           /\ vm.regs[i.rs1] \in Word /\ vm.regs[i.rs2] \in Word
           /\ H!Size = width(i.op)
<1>1. H!Fetchable /\ H!Inst = i /\ H!Following = after(vm, raw)
  BY ViewFetch DEF Fetched
<1>2. /\ vm.regs[i.rs1] \in Word /\ vm.regs[i.rs2] \in Word
      /\ vm.regs[0] = 0 /\ Arch(vm).regs = vm.regs
  BY DEF Fetched, VmInv, VM, Instruction, Arch
<1>3. H!Src1 = vm.regs[i.rs1] /\ H!Src2 = vm.regs[i.rs2]
  BY <1>1, <1>2 DEF H!Src1, H!Src2, H!Reg
<1>4. H!Size = width(i.op)
  BY <1>1 DEF H!Size, width
<1> QED BY <1>1, <1>2, <1>3, <1>4

LEMMA ViewAccess ==
    ASSUME VmInv(vm), NEW raw, NEW i, Fetched(raw, i)
    PROVE  LET e == accessError(dataAddr(i, vm.regs[i.rs1]), width(i.op))
           IN  /\ H!UsesMemory <=> i.op \in DataOps
               /\ i.op \in DataOps => /\ H!DataAddr = dataAddr(i, vm.regs[i.rs1])
                                      /\ H!DataAddr \in Word
                                      /\ H!Accessible <=> e = NoError
                                      /\ e # NoError => e = IF H!Aligned THEN "AddressOutOfBounds"
                                                            ELSE "MisalignedAccess"
               /\ i.op \notin DataOps => H!Accessible
<1> DEFINE a == vm.regs[i.rs1]
           addr == dataAddr(i, a)
           n == width(i.op)
<1>1. H!Inst = i /\ H!Src1 = a /\ a \in Word /\ H!Size = n
  BY ViewInst
<1>2. n \in {1, 2, 4}
  BY WidthType
<1>3. H!UsesMemory <=> i.op \in DataOps
  BY <1>1, SameOps DEF H!UsesMemory, H!Atomic, DataOps
<1>4. ASSUME i.op \in DataOps
      PROVE  H!DataAddr = addr /\ addr \in Word
  <2>1. i.op \in LoadOps \cup StoreOps <=> i.op \notin AmoOps \cup {"LR_W", "SC_W"}
    BY <1>4 DEF DataOps, LoadOps, StoreOps, AmoOps
  <2>2. H!DataAddr = addr
    <3>1. CASE i.op \in LoadOps \cup StoreOps
      BY <1>1, <2>1, <3>1, SameOps, SameNumbers DEF H!DataAddr, H!Atomic, dataAddr
    <3>2. CASE i.op \notin LoadOps \cup StoreOps
      BY <1>1, <2>1, <3>2, SameOps DEF H!DataAddr, H!Atomic, dataAddr
    <3> QED BY <3>1, <3>2
  <2>3. a \in Int /\ i.imm \in Int
    BY <1>1 DEF Fetched, Instruction, Word
  <2> QED BY <1>1, <2>2, <2>3, AddWType DEF dataAddr
<1> HIDE DEF addr, n
<1>5. ASSUME i.op \in DataOps
      PROVE  /\ H!Accessible <=> accessError(addr, n) = NoError
             /\ accessError(addr, n) # NoError =>
                  accessError(addr, n) = IF H!Aligned THEN "AddressOutOfBounds" ELSE "MisalignedAccess"
  <2>1. H!Aligned <=> addr % n = 0
    BY <1>1, <1>4, <1>5 DEF H!Aligned
  <2>2. H!InMemory(addr, n) <=> addr <= MemSize - n
    BY <1>2, <1>4, <1>5, Constants DEF H!InMemory, Word
  <2>3. H!Accessible <=> H!Aligned /\ H!InMemory(addr, n)
    BY <1>1, <1>3, <1>4, <1>5 DEF H!Accessible
  <2>4. addr \in Int /\ MemSize - n \in Int
    BY <1>2, <1>4, <1>5, Constants DEF Word
  <2> QED BY <2>1, <2>2, <2>3, <2>4 DEF accessError, NoError
<1> QED BY <1>3, <1>4, <1>5 DEF H!Accessible, addr, n

\* A register written by the machine and by the hart.
LEMMA ViewSetReg ==
    ASSUME VmInv(vm), NEW r \in Regs, NEW v
    PROVE  H!SetReg(r, v) = [vm.regs EXCEPT ![r] = v, ![0] = 0]
<1>1. Arch(vm).regs = vm.regs /\ vm.regs \in [Regs -> Word] /\ vm.regs[0] = 0 /\ 0 \in Regs
  BY Constants DEF Arch, VmInv, VM
<1>2. H!SetReg(r, v) = [x \in Regs |-> IF x = r /\ r # 0 THEN v ELSE vm.regs[x]]
  BY <1>1, SameNumbers DEF H!SetReg
<1>3. [vm.regs EXCEPT ![r] = v, ![0] = 0] =
        [x \in Regs |-> IF x = 0 THEN 0 ELSE IF x = r THEN v ELSE vm.regs[x]]
  BY <1>1
<1> QED BY <1>1, <1>2, <1>3

\* The reservation after an aligned store: dropped exactly when the store
\* touches the reserved word.
LEMMA ViewSurviving ==
    ASSUME VmInv(vm), NEW a \in Nat, NEW n \in {1, 2, 4}, a % n = 0
    PROVE  H!Surviving(a, n) = IF vm.reservation = a - (a % 4) THEN NoReservation ELSE vm.reservation
<1> DEFINE r == vm.reservation
<1>1. Arch(vm).reservation = r /\ H!NONE = NoReservation
  BY SameNumbers DEF Arch, NoReservation
<1>2. H!Surviving(a, n) = IF r # NoReservation /\ a < r + 4 /\ r < a + n THEN NoReservation ELSE r
  BY <1>1 DEF H!Surviving
<1>3. r # NoReservation => r \in Nat /\ r % 4 = 0
  BY ReservedAddrs
<1>4. r = a - (a % 4) => r # NoReservation
  BY DEF NoReservation, NONE
<1> HIDE DEF r
<1>5. ASSUME r # NoReservation
      PROVE  (a < r + 4 /\ r < a + n) <=> r = a - (a % 4)
  <2>1. CASE n = 1
    BY <1>3, <1>5, <2>1
  <2>2. CASE n = 2
    BY <1>3, <1>5, <2>2
  <2>3. CASE n = 4
    BY <1>3, <1>5, <2>3
  <2> QED BY <2>1, <2>2, <2>3
<1> QED BY <1>2, <1>4, <1>5 DEF r

-----------------------------------------------------------------------------
(* Instructions that retire. *)

\* The machine has fetched i, not illegal, and is about to execute it on z.
About(z, raw, i) ==
    /\ VmInv(vm) /\ Fetched(raw, i) /\ i.op # "ILLEGAL"
    /\ VmInv(z) /\ Arch(z) = Arch(vm)

\* The hart's state with these fields, its counter as it was.
HartState(pc, regs, memory, reservation, mscratch) ==
    [pc |-> pc, regs |-> regs, memory |-> memory, cycle_count |-> vm.cycle_count,
     reservation |-> reservation, mscratch |-> mscratch]

LEMMA RetireAs ==
    ASSUME NEW x, VmInv(x.vm), x.vm.cycle_count = vm.cycle_count, vm' = retired(x)
    PROVE  H!Retire(HartState(x.next_pc, x.vm.regs, x.vm.memory, x.vm.reservation, x.vm.mscratch))
<1>1. /\ vm'.pc = x.next_pc /\ vm'.regs = x.vm.regs /\ vm'.memory = x.vm.memory
      /\ vm'.cycle_count = (vm.cycle_count + 1) % CountMod
      /\ vm'.reservation = x.vm.reservation /\ vm'.mscratch = x.vm.mscratch
  BY DEF VmInv, VM, retired
<1> QED BY <1>1 DEF H!Retire, HartState, Arch

LEMMA WritesAs ==
    ASSUME VmInv(vm), NEW raw, NEW i, Fetched(raw, i), NEW v
    PROVE  H!Writes(v) = HartState(after(vm, raw), [vm.regs EXCEPT ![i.rd] = v, ![0] = 0], vm.memory,
                                   vm.reservation, vm.mscratch)
<1>1. i.rd \in Regs
  BY DEF Fetched, Instruction
<1>2. H!SetReg(i.rd, v) = [vm.regs EXCEPT ![i.rd] = v, ![0] = 0]
  BY <1>1, ViewSetReg
<1>3. H!Inst = i /\ H!Following = after(vm, raw)
  BY ViewInst
<1> DEFINE regs == [vm.regs EXCEPT ![i.rd] = v, ![0] = 0]
<1>4. H!Writes(v) = [Arch(vm) EXCEPT !.pc = after(vm, raw), !.regs = regs]
  BY <1>2, <1>3 DEF H!Writes
<1> HIDE DEF regs
<1>5. H!Writes(v) = HartState(after(vm, raw), regs, vm.memory, vm.reservation, vm.mscratch)
  BY <1>4 DEF HartState, Arch
<1> QED BY <1>5 DEF regs

LEMMA ExecutedIs ==
    ASSUME NEW z, NEW raw, NEW i, About(z, raw, i)
    PROVE  /\ executed(z, raw) = execute(z, i, vm.regs[i.rs1], vm.regs[i.rs2], after(vm, raw))
           /\ after(vm, raw) \in Word
           /\ z.pc = vm.pc /\ z.regs = vm.regs /\ z.memory = vm.memory
           /\ z.cycle_count = vm.cycle_count /\ z.reservation = vm.reservation
           /\ z.mscratch = vm.mscratch
<1>1. /\ z.pc = vm.pc /\ z.regs = vm.regs /\ z.memory = vm.memory
      /\ z.cycle_count = vm.cycle_count /\ z.reservation = vm.reservation
      /\ z.mscratch = vm.mscratch
  BY ArchFields DEF About
<1> QED BY <1>1, FetchEven DEF About, Fetched, executed, after

\* An instruction that only writes rd.
LEMMA WriteRetires ==
    ASSUME NEW z, NEW raw, NEW i, About(z, raw, i), NEW v \in Word, NEW n,
           vm' = retired(Executed(writeReg(z, i.rd, v), n))
    PROVE  H!Retire(HartState(n, [vm.regs EXCEPT ![i.rd] = v, ![0] = 0], vm.memory,
                              vm.reservation, vm.mscratch))
<1> DEFINE x == Executed(writeReg(z, i.rd, v), n)
           t == writeReg(z, i.rd, v)
<1>1. i.rd \in Regs /\ VmInv(z)
  BY DEF About, Fetched, Instruction
<1>2. VmInv(t) /\ x.vm = t /\ x.next_pc = n
  BY <1>1, WriteRegInv DEF Executed
<1>3. /\ t.regs = [vm.regs EXCEPT ![i.rd] = v, ![0] = 0] /\ t.memory = vm.memory
      /\ t.reservation = vm.reservation /\ t.mscratch = vm.mscratch
      /\ t.cycle_count = vm.cycle_count
  BY <1>1, ExecutedIs DEF writeReg, VmInv, VM
<1> HIDE DEF t
<1>4. H!Retire(HartState(x.next_pc, x.vm.regs, x.vm.memory, x.vm.reservation, x.vm.mscratch))
  BY <1>2, <1>3, RetireAs
<1> QED BY <1>2, <1>3, <1>4

LEMMA WritesRetires ==
    ASSUME NEW z, NEW raw, NEW i, About(z, raw, i), NEW v \in Word,
           executed(z, raw) = Executed(writeReg(z, i.rd, v), after(vm, raw)),
           vm' = retired(executed(z, raw))
    PROVE  H!Retire(H!Writes(v))
<1>1. H!Retire(HartState(after(vm, raw), [vm.regs EXCEPT ![i.rd] = v, ![0] = 0], vm.memory,
                         vm.reservation, vm.mscratch))
  BY WriteRetires
<1>2. VmInv(vm) /\ Fetched(raw, i)
  BY DEF About
<1> QED BY <1>1, <1>2, WritesAs

PlainOps == AluRegOps \cup AluImmOps \cup BranchOps \cup SystemOps

LEMMA PlainReady ==
    ASSUME NEW z, NEW raw, NEW i, About(z, raw, i), NEW ops, i.op \in PlainOps, i.op \in ops
    PROVE  H!Ready(ops)
<1>1. i.op \notin DataOps \cup CsrOps
  BY DEF PlainOps, DataOps, AluRegOps, AluImmOps, BranchOps, SystemOps, CsrOps, LoadOps, StoreOps, AmoOps
<1> QED BY <1>1, ViewInst, ViewAccess, SameOps DEF About, H!Ready, H!Legal

LEMMA ComputeHart ==
    ASSUME NEW z, NEW raw, NEW i, About(z, raw, i), i.op \in AluRegOps \cup AluImmOps \cup {"LUI", "AUIPC"},
           vm' = retired(executed(z, raw)), H!Goes
    PROVE  H!Compute
<1> DEFINE a == vm.regs[i.rs1]
           b == vm.regs[i.rs2]
           n == after(vm, raw)
<1>1. H!Inst = i /\ H!Src1 = a /\ H!Src2 = b /\ a \in Word /\ b \in Word /\ i.imm \in Word
  BY ViewInst DEF About, Fetched, Instruction
<1>2. H!Ready(AluRegOps \cup AluImmOps \cup {"LUI", "AUIPC"})
  BY PlainReady DEF PlainOps, SystemOps
<1>3. executed(z, raw) = execute(z, i, a, b, n) /\ z.pc = vm.pc
  BY ExecutedIs
<1>4. ASSUME NEW v \in Word, executed(z, raw) = Executed(writeReg(z, i.rd, v), n)
      PROVE  H!Retire(H!Writes(v))
  BY <1>4, WritesRetires
<1>5. H!AddW(Arch(vm).pc, i.imm) = AddW(vm.pc, i.imm) /\ AddW(vm.pc, i.imm) \in Word
  <2>1. vm.pc \in Int /\ i.imm \in Int
    BY <1>1 DEF About, VmInv, VM, Word
  <2> QED BY <2>1, AddWType, SameNumbers DEF Arch
<1>6. CASE i.op \in AluRegOps
  <2>1. i.op \notin AluImmOps \cup {"LUI", "AUIPC"}
    BY <1>6 DEF AluRegOps, AluImmOps
  <2>2. Alu(i.op, a, b) \in Word /\ executed(z, raw) = Executed(writeReg(z, i.rd, Alu(i.op, a, b)), n)
    BY <1>1, <1>3, <1>6, ExecAlu, AluAssumption
  <2>3. H!Retire(H!Writes(Alu(i.op, a, b)))
    BY <1>4, <2>2
  <2> QED BY <1>1, <1>2, <1>6, <2>1, <2>3, SameOps DEF H!Compute
<1>7. CASE i.op \in AluImmOps
  <2>1. i.op \notin AluRegOps \cup {"LUI", "AUIPC"}
    BY <1>7 DEF AluRegOps, AluImmOps
  <2>2. Alu(i.op, a, i.imm) \in Word /\ executed(z, raw) = Executed(writeReg(z, i.rd, Alu(i.op, a, i.imm)), n)
    BY <1>1, <1>3, <1>7, <2>1, ExecAlu, AluAssumption
  <2>3. H!Retire(H!Writes(Alu(i.op, a, i.imm)))
    BY <1>4, <2>2
  <2> QED BY <1>1, <1>2, <1>7, <2>1, <2>3, SameOps DEF H!Compute
<1>8. CASE i.op = "LUI"
  <2>1. i.op \notin AluRegOps \cup AluImmOps
    BY <1>8 DEF AluRegOps, AluImmOps
  <2>2. executed(z, raw) = Executed(writeReg(z, i.rd, i.imm), n)
    BY <1>3, <1>8, ExecSystem DEF SystemOps
  <2>3. H!Retire(H!Writes(i.imm))
    BY <1>1, <1>4, <2>2
  <2> QED BY <1>1, <1>2, <1>8, <2>1, <2>3, SameOps DEF H!Compute
<1>9. CASE i.op = "AUIPC"
  <2>1. i.op \notin AluRegOps \cup AluImmOps
    BY <1>9 DEF AluRegOps, AluImmOps
  <2>2. executed(z, raw) = Executed(writeReg(z, i.rd, AddW(vm.pc, i.imm)), n)
    BY <1>3, <1>9, ExecSystem DEF SystemOps
  <2>3. H!Retire(H!Writes(AddW(vm.pc, i.imm)))
    BY <1>4, <1>5, <2>2
  <2> QED BY <1>1, <1>2, <1>5, <1>9, <2>1, <2>3, SameOps DEF H!Compute
<1> QED BY <1>6, <1>7, <1>8, <1>9

LEMMA DataReady ==
    ASSUME NEW z, NEW raw, NEW i, About(z, raw, i), NEW ops, i.op \in DataOps, i.op \in ops,
           accessError(dataAddr(i, vm.regs[i.rs1]), width(i.op)) = NoError
    PROVE  H!Ready(ops)
<1>1. i.op \notin CsrOps
  BY DEF DataOps, CsrOps, LoadOps, StoreOps, AmoOps
<1> QED BY <1>1, ViewInst, ViewAccess, SameOps DEF About, H!Ready, H!Legal

LEMMA LoadHart ==
    ASSUME NEW z, NEW raw, NEW i, About(z, raw, i), i.op \in LoadOps,
           executed(z, raw).err = NoError, vm' = retired(executed(z, raw)), H!Goes
    PROVE  H!Load
<1> DEFINE a == vm.regs[i.rs1]
           addr == AddW(a, i.imm)
           v == loaded(vm.memory, i.op, addr)
<1>1. H!Inst = i /\ a \in Word /\ VmInv(z) /\ H!DataAddr = addr /\ addr \in Word /\ dataAddr(i, a) = addr
  BY ViewInst, ViewAccess DEF About, DataOps, dataAddr
<1>2. executed(z, raw) =
        IF accessError(addr, width(i.op)) # NoError THEN Faulted(z, accessError(addr, width(i.op)))
        ELSE Executed(writeReg(z, i.rd, v), after(vm, raw))
  BY ExecutedIs, ExecLoad
<1>3. accessError(addr, width(i.op)) = NoError
  BY <1>2 DEF Faulted
<1>4. H!Ready(LoadOps)
  BY <1>1, <1>3, DataReady DEF DataOps
<1>5. v \in Word
  BY <1>1, <1>3, LoadedType, ExecutedIs
<1>6. H!Retire(H!Writes(v))
  BY <1>2, <1>3, <1>5, WritesRetires
<1>7. v = CASE i.op = "LB"  -> H!SignExtend(Arch(vm).memory[addr], BYTE)
            [] i.op = "LBU" -> Arch(vm).memory[addr]
            [] i.op = "LH"  -> H!SignExtend(H!HalfAt(Arch(vm).memory, addr), H!HalfMod)
            [] i.op = "LHU" -> H!HalfAt(Arch(vm).memory, addr)
            [] i.op = "LW"  -> H!WordAt(Arch(vm).memory, addr)
  BY SameNumbers, SameMemory DEF loaded, LoadOps, Arch
<1> HIDE DEF v, addr
<1> QED BY <1>1, <1>4, <1>6, <1>7, SameOps DEF H!Load

\* What a store whose checks passed leaves.
LEMMA StoreLeaves ==
    ASSUME NEW z, NEW raw, NEW i, About(z, raw, i), NEW a \in Word, NEW n \in {1, 2, 4}, NEW v,
           accessError(a, n) = NoError
    PROVE  LET w == write(z, a, n, v).vm
           IN  /\ w.memory = StoreLE(vm.memory, a, n, v)
               /\ w.reservation = H!Surviving(a, n)
               /\ w.regs = vm.regs /\ w.mscratch = vm.mscratch /\ w.cycle_count = vm.cycle_count
<1> DEFINE t == [z EXCEPT !.memory = StoreLE(z.memory, a, n, v)]
           w == write(z, a, n, v).vm
<1>1. w = invalidateReservation(t, a)
  BY DEF write
<1>2. VmInv(z) /\ VmInv(vm) /\ a \in Nat /\ a % n = 0
  BY AccessErrorType DEF About, Word
<1>3. t.memory = StoreLE(vm.memory, a, n, v) /\ t.reservation = vm.reservation /\ t.regs = vm.regs
      /\ t.mscratch = vm.mscratch /\ t.cycle_count = vm.cycle_count
  BY <1>2, ExecutedIs DEF VmInv, VM
<1>4. w.reservation = IF vm.reservation = a - (a % 4) THEN NoReservation ELSE vm.reservation
  BY <1>1, <1>2, <1>3 DEF invalidateReservation, VmInv, VM
<1>5. /\ w.memory = t.memory /\ w.regs = t.regs /\ w.mscratch = t.mscratch
      /\ w.cycle_count = t.cycle_count
  BY <1>1, <1>2 DEF invalidateReservation, VmInv, VM
<1> HIDE DEF w, t
<1> QED BY <1>2, <1>3, <1>4, <1>5, ViewSurviving DEF w

LEMMA StoreState ==
    ASSUME NEW p, NEW m, NEW r
    PROVE  [Arch(vm) EXCEPT !.pc = p, !.memory = m, !.reservation = r]
             = HartState(p, vm.regs, m, r, vm.mscratch)
<1> DEFINE t0 == Arch(vm)
           t1 == [t0 EXCEPT !.pc = p]
           t2 == [t1 EXCEPT !.memory = m]
           t3 == [t2 EXCEPT !.reservation = r]
<1>0. t3 = [t0 EXCEPT !.pc = p, !.memory = m, !.reservation = r]
  OBVIOUS
<1>1. t1 = HartState(p, vm.regs, vm.memory, vm.reservation, vm.mscratch)
  BY DEF HartState, Arch
<1> HIDE DEF t1
<1>2. t2 = HartState(p, vm.regs, m, vm.reservation, vm.mscratch)
  BY <1>1 DEF HartState
<1> HIDE DEF t2
<1>3. t3 = HartState(p, vm.regs, m, r, vm.mscratch)
  BY <1>2 DEF HartState
<1> QED BY <1>0, <1>3

LEMMA StoreHart ==
    ASSUME NEW z, NEW raw, NEW i, About(z, raw, i), i.op \in StoreOps,
           executed(z, raw).err = NoError, vm' = retired(executed(z, raw)), H!Goes
    PROVE  H!Store
<1> DEFINE a == vm.regs[i.rs1]
           b == vm.regs[i.rs2]
           addr == AddW(a, i.imm)
           n == width(i.op)
           w == write(z, addr, n, b).vm
           x == executed(z, raw)
<1>1. /\ H!Inst = i /\ a \in Word /\ b \in Word /\ VmInv(z) /\ H!DataAddr = addr /\ addr \in Word
      /\ dataAddr(i, a) = addr /\ H!Src2 = b /\ H!Size = n /\ H!Following = after(vm, raw)
  BY ViewInst, ViewAccess DEF About, DataOps, dataAddr
<1>2. x = IF accessError(addr, n) # NoError THEN Faulted(z, accessError(addr, n))
          ELSE Executed(w, after(vm, raw))
  BY ExecutedIs, ExecStore
<1>3. accessError(addr, n) = NoError /\ n \in {1, 2, 4}
  BY <1>2, WidthType DEF Faulted
<1>4. H!Ready(StoreOps)
  BY <1>1, <1>3, DataReady DEF DataOps
<1>5. /\ w.memory = StoreLE(vm.memory, addr, n, b) /\ w.reservation = H!Surviving(addr, n)
      /\ w.regs = vm.regs /\ w.mscratch = vm.mscratch /\ w.cycle_count = vm.cycle_count
      /\ VmInv(w)
  <2> HIDE DEF addr, n, b
  <2>1. VmInv(w)
    BY <1>1, <1>3, WriteInv
  <2> QED BY <1>1, <1>3, <2>1, StoreLeaves
<1> HIDE DEF w, addr, n, b
<1>6. x.vm = w /\ x.next_pc = after(vm, raw)
  BY <1>2, <1>3 DEF Executed
<1> HIDE DEF x
<1>7. H!Retire(HartState(after(vm, raw), vm.regs, StoreLE(vm.memory, addr, n, b),
                         H!Surviving(addr, n), vm.mscratch))
  <2>1. H!Retire(HartState(x.next_pc, x.vm.regs, x.vm.memory, x.vm.reservation, x.vm.mscratch))
    BY <1>5, <1>6, RetireAs DEF x
  <2> QED BY <1>5, <1>6, <2>1
<1> DEFINE m == H!StoreLE(Arch(vm).memory, addr, n, b)
<1>8. m = StoreLE(vm.memory, addr, n, b)
  BY SameMemory DEF Arch
<1>9. [Arch(vm) EXCEPT !.pc = H!Following, !.memory = m, !.reservation = H!Surviving(addr, n)]
        = HartState(after(vm, raw), vm.regs, m, H!Surviving(addr, n), vm.mscratch)
  <2> HIDE DEF m
  <2> QED BY <1>1, StoreState
<1>10. H!Retire([Arch(vm) EXCEPT !.pc = H!Following, !.memory = m, !.reservation = H!Surviving(addr, n)])
  <2> HIDE DEF m
  <2> QED BY <1>7, <1>8, <1>9
<1> QED BY <1>1, <1>4, <1>10, SameOps DEF H!Store

LEMMA LoadReservedHart ==
    ASSUME NEW z, NEW raw, NEW i, About(z, raw, i), i.op = "LR_W",
           executed(z, raw).err = NoError, vm' = retired(executed(z, raw)), H!Goes
    PROVE  H!LoadReserved
<1> DEFINE a == vm.regs[i.rs1]
           v == WordAt(vm.memory, a)
           regs == [vm.regs EXCEPT ![i.rd] = v, ![0] = 0]
           t == lrLeaves(z, i, a)
           x == executed(z, raw)
<1>1. /\ H!Inst = i /\ a \in Word /\ VmInv(z) /\ VmInv(vm) /\ Fetched(raw, i) /\ H!Src1 = a
      /\ dataAddr(i, a) = a /\ i.op \in DataOps /\ width(i.op) = 4 /\ i.rd \in Regs
  BY ViewInst DEF About, DataOps, dataAddr, LoadOps, StoreOps, width, Fetched, Instruction
<1>2. x = IF accessError(a, 4) # NoError THEN Faulted(z, accessError(a, 4))
          ELSE Executed(t, after(vm, raw))
  BY ExecutedIs, ExecLr
<1>3. accessError(a, 4) = NoError
  BY <1>2 DEF Faulted
<1>4. H!Ready({"LR_W"})
  BY <1>1, <1>3, DataReady
<1>5. /\ t.regs = regs /\ t.memory = vm.memory /\ t.reservation = a /\ t.mscratch = vm.mscratch
      /\ t.cycle_count = vm.cycle_count
  BY <1>1, ExecutedIs DEF lrLeaves, writeReg, VmInv, VM
<1>6. x.vm = t /\ x.next_pc = after(vm, raw)
  BY <1>2, <1>3 DEF Executed
<1>7. VmInv(x.vm)
  BY ExecutedFacts, ExecutedIs, FetchReads DEF ExecOK, About, Fetched
<1> HIDE DEF x, t, v
<1>8. H!Retire(HartState(after(vm, raw), regs, vm.memory, a, vm.mscratch))
  <2>1. H!Retire(HartState(x.next_pc, x.vm.regs, x.vm.memory, x.vm.reservation, x.vm.mscratch))
    BY <1>5, <1>6, <1>7, RetireAs DEF x
  <2> QED BY <1>5, <1>6, <2>1
<1> HIDE DEF regs
<1>9. [H!Writes(v) EXCEPT !.reservation = a] = HartState(after(vm, raw), regs, vm.memory, a, vm.mscratch)
  <2>1. H!Writes(v) = HartState(after(vm, raw), regs, vm.memory, vm.reservation, vm.mscratch)
    BY <1>1, WritesAs DEF regs
  <2> QED BY <2>1 DEF HartState
<1>10. H!WordAt(Arch(vm).memory, a) = v
  BY SameMemory DEF Arch, v
<1> QED BY <1>1, <1>4, <1>8, <1>9, <1>10 DEF H!LoadReserved

\* The hart's states after an instruction that writes v to rd and the
\* reservation r, and (an SC or AMO) the memory m.
WroteRes(v, r) == [H!Writes(v) EXCEPT !.reservation = r]
WroteMem(v, m, r) == [H!Writes(v) EXCEPT !.memory = m, !.reservation = r]

LEMMA WroteResIs ==
    ASSUME VmInv(vm), NEW raw, NEW i, Fetched(raw, i), NEW v, NEW r
    PROVE  WroteRes(v, r) = HartState(after(vm, raw), [vm.regs EXCEPT ![i.rd] = v, ![0] = 0],
                                      vm.memory, r, vm.mscratch)
<1> DEFINE g == [vm.regs EXCEPT ![i.rd] = v, ![0] = 0]
<1>1. H!Writes(v) = HartState(after(vm, raw), g, vm.memory, vm.reservation, vm.mscratch)
  BY WritesAs
<1> HIDE DEF g
<1>2. WroteRes(v, r) = HartState(after(vm, raw), g, vm.memory, r, vm.mscratch)
  BY <1>1 DEF HartState, WroteRes
<1> QED BY <1>2 DEF g

LEMMA WroteMemIs ==
    ASSUME VmInv(vm), NEW raw, NEW i, Fetched(raw, i), NEW v, NEW m, NEW r
    PROVE  /\ WroteMem(v, m, r) = HartState(after(vm, raw), [vm.regs EXCEPT ![i.rd] = v, ![0] = 0],
                                            m, r, vm.mscratch)
           /\ H!Writes(v).memory = vm.memory
<1> DEFINE t  == H!Writes(v)
           t1 == [t EXCEPT !.memory = m]
           t2 == [t1 EXCEPT !.reservation = r]
           g  == [vm.regs EXCEPT ![i.rd] = v, ![0] = 0]
           n  == after(vm, raw)
<1>0. t2 = WroteMem(v, m, r)
  BY DEF WroteMem
<1>1. t = HartState(n, g, vm.memory, vm.reservation, vm.mscratch)
  BY WritesAs
<1> HIDE DEF t, g, n
<1>2. t1 = HartState(n, g, m, vm.reservation, vm.mscratch)
  BY <1>1 DEF HartState
<1>3. t.memory = vm.memory
  BY <1>1 DEF HartState
<1> HIDE DEF t1
<1>4. t2 = HartState(n, g, m, r, vm.mscratch)
  BY <1>2 DEF HartState
<1> QED BY <1>0, <1>3, <1>4 DEF t, g, n

\* The outcome of an instruction that retires is a well-formed struct.
LEMMA RetiredInv ==
    ASSUME NEW z, NEW raw, NEW i, About(z, raw, i)
    PROVE  VmInv(executed(z, raw).vm) /\ executed(z, raw).vm.cycle_count = vm.cycle_count
<1>1. fetch(z) = fetch(vm) /\ VmInv(z) /\ z.cycle_count = vm.cycle_count
  BY ExecutedIs, FetchReads DEF About
<1>2. ExecOK(z, executed(z, raw)) /\ SameFrame(z, executed(z, raw).vm)
  BY <1>1, ExecutedFacts DEF About, Fetched, Effects
<1> QED BY <1>1, <1>2 DEF ExecOK, SameFrame

\* Every instruction that retires with struct w and next_pc n.
LEMMA RetiresTo ==
    ASSUME NEW z, NEW raw, NEW i, About(z, raw, i), vm' = retired(executed(z, raw)),
           NEW w, NEW n, executed(z, raw).vm = w, executed(z, raw).next_pc = n
    PROVE  H!Retire(HartState(n, w.regs, w.memory, w.reservation, w.mscratch))
  BY RetiredInv, RetireAs

LEMMA StoreConditionalHart ==
    ASSUME NEW z, NEW raw, NEW i, About(z, raw, i), i.op = "SC_W",
           executed(z, raw).err = NoError, vm' = retired(executed(z, raw)), H!Goes
    PROVE  H!StoreConditional
<1> DEFINE a == vm.regs[i.rs1]
           b == vm.regs[i.rs2]
           w == write(z, a, 4, b).vm
           regs(v) == [vm.regs EXCEPT ![i.rd] = v, ![0] = 0]
           x == executed(z, raw)
           m == H!StoreLE(vm.memory, a, 4, b)
<1>1. /\ H!Inst = i /\ a \in Word /\ b \in Word /\ VmInv(z) /\ VmInv(vm) /\ Fetched(raw, i)
      /\ H!Src1 = a /\ H!Src2 = b /\ dataAddr(i, a) = a /\ i.op \in DataOps /\ width(i.op) = 4
      /\ i.rd \in Regs
  BY ViewInst DEF About, DataOps, dataAddr, LoadOps, StoreOps, width, Fetched, Instruction
<1>2. x = IF accessError(a, 4) # NoError THEN Faulted(z, accessError(a, 4))
          ELSE IF vm.reservation # a THEN Executed(scRefused(z, i), after(vm, raw))
          ELSE Executed(scStored(w, i), after(vm, raw))
  BY ExecutedIs, ExecSc
<1>3. accessError(a, 4) = NoError
  BY <1>2 DEF Faulted
<1>4. H!Ready({"SC_W"})
  BY <1>1, <1>3, DataReady
<1>5. Arch(vm).reservation = vm.reservation /\ Arch(vm).memory = vm.memory /\ H!NONE = NoReservation
  BY SameNumbers DEF Arch, NoReservation
<1>6. CASE vm.reservation # a
  <2> DEFINE t == scRefused(z, i)
  <2>1. /\ t.regs = regs(1) /\ t.memory = vm.memory /\ t.reservation = NoReservation
        /\ t.mscratch = vm.mscratch
    BY <1>1, ExecutedIs DEF scRefused, writeReg, VmInv, VM
  <2>2. x.vm = t /\ x.next_pc = after(vm, raw)
    BY <1>2, <1>3, <1>6 DEF Executed
  <2> HIDE DEF x, t
  <2>3. H!Retire(HartState(after(vm, raw), regs(1), vm.memory, NoReservation, vm.mscratch))
    BY <2>1, <2>2, RetiresTo DEF x
  <2>4. H!Retire(WroteRes(1, NoReservation))
    BY <1>1, <2>3, WroteResIs
  <2> QED BY <1>1, <1>4, <1>5, <1>6, <2>4 DEF H!StoreConditional, WroteRes
<1>7. CASE vm.reservation = a
  <2> DEFINE t == scStored(w, i)
  <2>1. VmInv(w) /\ w.memory = m /\ w.regs = vm.regs /\ w.mscratch = vm.mscratch
    <3>1. VmInv(w)
      BY <1>1, WriteInv
    <3>2. w.memory = StoreLE(vm.memory, a, 4, b) /\ w.regs = vm.regs /\ w.mscratch = vm.mscratch
      BY <1>1, <1>3, StoreLeaves
    <3> QED BY <3>1, <3>2, SameMemory
  <2> HIDE DEF w
  <2>2. /\ t.regs = regs(0) /\ t.memory = m /\ t.reservation = NoReservation
        /\ t.mscratch = vm.mscratch
    BY <1>1, <2>1 DEF scStored, writeReg, VmInv, VM
  <2>3. x.vm = t /\ x.next_pc = after(vm, raw)
    BY <1>2, <1>3, <1>7 DEF Executed
  <2> HIDE DEF x, t, m
  <2>4. H!Retire(HartState(after(vm, raw), regs(0), m, NoReservation, vm.mscratch))
    BY <2>2, <2>3, RetiresTo DEF x
  <2>5. H!Retire(WroteMem(0, m, NoReservation)) /\ H!Writes(0).memory = vm.memory
    BY <1>1, <2>4, WroteMemIs, SMTT(30)
  <2> QED BY <1>1, <1>4, <1>5, <1>7, <2>5 DEF H!StoreConditional, WroteMem, m
<1> QED BY <1>6, <1>7

LEMMA AmoHart ==
    ASSUME NEW z, NEW raw, NEW i, About(z, raw, i), i.op \in AmoOps,
           executed(z, raw).err = NoError, vm' = retired(executed(z, raw)), H!Goes
    PROVE  H!Amo
<1> DEFINE a == vm.regs[i.rs1]
           b == vm.regs[i.rs2]
           old == WordAt(vm.memory, a)
           new == Alu(i.op, old, b)
           w == write(z, a, 4, new).vm
           regs == [vm.regs EXCEPT ![i.rd] = old, ![0] = 0]
           x == executed(z, raw)
           m == H!StoreLE(vm.memory, a, 4, new)
           t == writeReg(w, i.rd, old)
<1>1. /\ H!Inst = i /\ a \in Word /\ b \in Word /\ VmInv(z) /\ VmInv(vm) /\ Fetched(raw, i)
      /\ H!Src1 = a /\ H!Src2 = b /\ dataAddr(i, a) = a /\ i.op \in DataOps /\ width(i.op) = 4
      /\ i.rd \in Regs
  BY ViewInst DEF About, DataOps, dataAddr, LoadOps, StoreOps, AmoOps, width, Fetched, Instruction
<1>2. x = IF accessError(a, 4) # NoError THEN Faulted(z, accessError(a, 4))
          ELSE Executed(t, after(vm, raw))
  BY ExecutedIs, ExecAmo
<1>3. accessError(a, 4) = NoError
  BY <1>2 DEF Faulted
<1>4. H!Ready(AmoOps)
  BY <1>1, <1>3, DataReady
<1>5. old \in Word /\ new \in Word
  BY <1>1, <1>3, WordReadType, AluAssumption
<1>6. VmInv(w) /\ w.memory = m /\ w.regs = vm.regs /\ w.mscratch = vm.mscratch
      /\ w.reservation = H!Surviving(a, 4)
  <2> HIDE DEF new
  <2>1. VmInv(w)
    BY <1>1, <1>5, WriteInv
  <2>2. /\ w.memory = StoreLE(vm.memory, a, 4, new) /\ w.regs = vm.regs /\ w.mscratch = vm.mscratch
        /\ w.reservation = H!Surviving(a, 4)
    BY <1>1, <1>3, StoreLeaves
  <2> QED BY <2>1, <2>2, SameMemory
<1>7. Arch(vm).memory = vm.memory /\ H!WordAt(vm.memory, a) = old
  BY SameMemory DEF Arch
<1> HIDE DEF w, old, new, m
<1>8. /\ t.regs = regs /\ t.memory = m /\ t.reservation = H!Surviving(a, 4)
      /\ t.mscratch = vm.mscratch
  BY <1>6 DEF writeReg, VmInv, VM
<1>9. x.vm = t /\ x.next_pc = after(vm, raw)
  BY <1>2, <1>3 DEF Executed
<1> HIDE DEF x, t
<1>10. H!Retire(HartState(after(vm, raw), regs, m, H!Surviving(a, 4), vm.mscratch))
  BY <1>8, <1>9, RetiresTo DEF x
<1>11. H!Retire(WroteMem(old, m, H!Surviving(a, 4))) /\ H!Writes(old).memory = vm.memory
  BY <1>1, <1>10, WroteMemIs
<1> QED BY <1>1, <1>4, <1>7, <1>11, SameOps DEF H!Amo, WroteMem, m, new

WroteCsr(v, c) == [H!Writes(v) EXCEPT !.mscratch = c]

LEMMA WroteCsrIs ==
    ASSUME VmInv(vm), NEW raw, NEW i, Fetched(raw, i), NEW v, NEW c
    PROVE  /\ WroteCsr(v, c) = HartState(after(vm, raw), [vm.regs EXCEPT ![i.rd] = v, ![0] = 0],
                                         vm.memory, vm.reservation, c)
           /\ H!Writes(v).mscratch = vm.mscratch
<1> DEFINE g == [vm.regs EXCEPT ![i.rd] = v, ![0] = 0]
<1>1. H!Writes(v) = HartState(after(vm, raw), g, vm.memory, vm.reservation, vm.mscratch)
  BY WritesAs
<1> HIDE DEF g
<1>2. WroteCsr(v, c) = HartState(after(vm, raw), g, vm.memory, vm.reservation, c)
  BY <1>1 DEF HartState, WroteCsr
<1>3. H!Writes(v).mscratch = vm.mscratch
  BY <1>1 DEF HartState
<1> QED BY <1>2, <1>3 DEF g

\* Csr.execute's checks: it fails exactly when the hart calls the access illegal.
LEMMA CsrChecks ==
    ASSUME NEW z, NEW raw, NEW i, About(z, raw, i), i.op \in CsrOps
    PROVE  /\ executed(z, raw).err = NoError <=> H!CsrLegal
           /\ executed(z, raw).err \in {NoError, "IllegalInstruction"}
<1> DEFINE x      == executed(z, raw)
           swap   == i.op \in {"CSRRW", "CSRRWI"}
           reads  == ~swap \/ i.rd # 0
           writes == swap \/ i.rs1 # 0
           src    == IF i.op \in {"CSRRW", "CSRRS", "CSRRC"} THEN vm.regs[i.rs1] ELSE i.rs1
           old    == csrRead(z, i.csr)
           new    == CASE swap -> src
                       [] i.op \in {"CSRRS", "CSRRSI"} -> Alu("OR", old, src)
                       [] OTHER -> Alu("ANDN", old, src)
           wrote  == csrWrite(z, i.csr, new)
           t      == IF writes THEN wrote.vm ELSE z
<1>1. x = IF reads /\ ~csrReadable(i.csr) THEN Faulted(z, "IllegalInstruction")
          ELSE IF writes /\ wrote.err # NoError THEN Faulted(wrote.vm, wrote.err)
          ELSE Executed(IF reads THEN writeReg(t, i.rd, old) ELSE t, after(vm, raw))
  BY ExecutedIs, ExecCsr DEF executeCsr
<1>2. H!Inst = i /\ i.csr \in CsrAddrs
  BY ViewInst DEF About, Fetched, Instruction
<1>3. (H!CsrReads <=> reads) /\ (H!CsrWrites <=> writes)
  BY <1>2 DEF H!Swap, H!CsrReads, H!CsrWrites
<1>4. H!CsrLegal <=> (reads => csrReadable(i.csr)) /\ (writes => i.csr = "mscratch")
  BY <1>2, <1>3 DEF H!CsrLegal, csrReadable
<1> HIDE DEF x, reads, writes, old, new, t
<1>5. wrote.err = IF i.csr = "mscratch" THEN NoError ELSE "IllegalInstruction"
  BY DEF csrWrite, ReadOnlyCsrs
<1> HIDE DEF wrote
<1>6. (x.err = NoError <=> H!CsrLegal) /\ x.err \in {NoError, "IllegalInstruction"}
  BY <1>1, <1>4, <1>5 DEF Faulted, Executed, NoError
<1> QED BY <1>6 DEF x

\* Csr.execute past its checks: what it reads, and what it writes to mscratch and rd.
LEMMA CsrOutcome ==
    ASSUME NEW z, NEW raw, NEW i, About(z, raw, i), i.op \in CsrOps
    PROVE  LET x      == executed(z, raw)
               swap   == i.op \in {"CSRRW", "CSRRWI"}
               reads  == ~swap \/ i.rd # 0
               writes == swap \/ i.rs1 # 0
               src    == IF i.op \in {"CSRRW", "CSRRS", "CSRRC"} THEN vm.regs[i.rs1] ELSE i.rs1
               old    == csrRead(vm, i.csr)
               new    == CASE swap -> src
                           [] i.op \in {"CSRRS", "CSRRSI"} -> Alu("OR", old, src)
                           [] OTHER -> Alu("ANDN", old, src)
           IN  /\ (H!CsrReads <=> reads) /\ (H!CsrWrites <=> writes) /\ (H!Swap <=> swap)
               /\ x.err = NoError =>
                    /\ x.vm.regs = [vm.regs EXCEPT ![i.rd] = old, ![0] = 0]
                    /\ x.vm.mscratch = IF writes THEN new ELSE vm.mscratch
                    /\ x.vm.memory = vm.memory /\ x.vm.reservation = vm.reservation
                    /\ x.next_pc = after(vm, raw) /\ x.result = "continue"
<1> DEFINE x      == executed(z, raw)
           swap   == i.op \in {"CSRRW", "CSRRWI"}
           reads  == ~swap \/ i.rd # 0
           writes == swap \/ i.rs1 # 0
           src    == IF i.op \in {"CSRRW", "CSRRS", "CSRRC"} THEN vm.regs[i.rs1] ELSE i.rs1
           old    == csrRead(z, i.csr)
           new    == CASE swap -> src
                       [] i.op \in {"CSRRS", "CSRRSI"} -> Alu("OR", old, src)
                       [] OTHER -> Alu("ANDN", old, src)
           wrote  == csrWrite(z, i.csr, new)
           t      == IF writes THEN wrote.vm ELSE z
           n      == after(vm, raw)
<1>0. csrRead(vm, i.csr) = old
  BY ExecutedIs DEF csrRead
<1>1. x = IF reads /\ ~csrReadable(i.csr) THEN Faulted(z, "IllegalInstruction")
          ELSE IF writes /\ wrote.err # NoError THEN Faulted(wrote.vm, wrote.err)
          ELSE Executed(IF reads THEN writeReg(t, i.rd, old) ELSE t, n)
  BY ExecutedIs, ExecCsr DEF executeCsr
<1>2. /\ H!Inst = i /\ VmInv(z) /\ VmInv(vm) /\ i.rd \in Regs /\ i.csr \in CsrAddrs
      /\ z.regs = vm.regs /\ z.memory = vm.memory /\ z.reservation = vm.reservation
      /\ z.mscratch = vm.mscratch
  BY ViewInst, ExecutedIs DEF About, Fetched, Instruction
<1>3. (H!Swap <=> swap) /\ (H!CsrReads <=> reads) /\ (H!CsrWrites <=> writes)
  BY <1>2 DEF H!Swap, H!CsrReads, H!CsrWrites
<1>4. H!CsrLegal <=> (reads => csrReadable(i.csr)) /\ (writes => i.csr = "mscratch")
  BY <1>2, <1>3 DEF H!CsrLegal, csrReadable
<1> HIDE DEF old, new
<1>5. wrote = IF i.csr = "mscratch" THEN [err |-> NoError, vm |-> [z EXCEPT !.mscratch = new]]
              ELSE [err |-> "IllegalInstruction", vm |-> z]
  BY DEF csrWrite, ReadOnlyCsrs
<1> HIDE DEF swap, reads, writes, wrote
<1>6. wrote.err # NoError <=> i.csr # "mscratch"
  BY <1>5 DEF NoError
<1>7. x.err = NoError <=> H!CsrLegal
  BY CsrChecks
<1>8. ASSUME x.err = NoError
      PROVE  /\ x.vm.regs = [vm.regs EXCEPT ![i.rd] = old, ![0] = 0]
             /\ x.vm.mscratch = IF writes THEN new ELSE vm.mscratch
             /\ x.vm.memory = vm.memory /\ x.vm.reservation = vm.reservation
             /\ x.next_pc = n /\ x.result = "continue"
  <2>1. writes => i.csr = "mscratch"
    BY <1>4, <1>7, <1>8
  <2>2. x = Executed(IF reads THEN writeReg(t, i.rd, old) ELSE t, n)
    BY <1>1, <1>4, <1>6, <1>7, <1>8
  <2>3. /\ t \in VM /\ t.regs = vm.regs /\ t.mscratch = IF writes THEN new ELSE vm.mscratch
        /\ t.memory = vm.memory /\ t.reservation = vm.reservation
    <3>1. CASE writes
      <4>1. t = [z EXCEPT !.mscratch = new]
        BY <1>5, <2>1, <3>1
      <4>2. new \in Word
        <5>1. vm.regs[i.rs1] \in Word /\ i.rs1 \in Word /\ old \in Word
          BY <1>2, ViewInst, Constants, CsrReadType DEF About, Fetched, Instruction, old
        <5>2. "OR" \in AluRegOps /\ "ANDN" \in AluRegOps /\ src \in Word
          BY <5>1 DEF AluRegOps
        <5> QED BY <5>1, <5>2, AluAssumption DEF new
      <4> QED BY <1>2, <3>1, <4>1, <4>2 DEF VmInv, VM
    <3>2. CASE ~writes
      BY <1>2, <3>2 DEF VmInv
    <3> QED BY <3>1, <3>2
  <2> HIDE DEF t, n
  <2>4. CASE reads
    BY <2>2, <2>3, <2>4 DEF Executed, writeReg, VM
  <2>5. CASE ~reads
    <3>1. i.rd = 0 /\ vm.regs[0] = 0 /\ vm.regs \in [Regs -> Word]
      BY <1>2, <2>5 DEF reads, VmInv, VM
    <3>2. [vm.regs EXCEPT ![i.rd] = old, ![0] = 0] = vm.regs
      BY <3>1, Constants
    <3> QED BY <2>2, <2>3, <2>5, <3>2 DEF Executed
  <2> QED BY <2>4, <2>5
<1> QED BY <1>0, <1>3, <1>8 DEF swap, reads, writes, new, n

LEMMA CsrHart ==
    ASSUME NEW z, NEW raw, NEW i, About(z, raw, i), i.op \in CsrOps,
           executed(z, raw).err = NoError, vm' = retired(executed(z, raw)), H!Goes
    PROVE  H!CsrAccess
<1> DEFINE x   == executed(z, raw)
           src == IF i.op \in {"CSRRW", "CSRRS", "CSRRC"} THEN vm.regs[i.rs1] ELSE i.rs1
           old == csrRead(vm, i.csr)
           new == CASE i.op \in {"CSRRW", "CSRRWI"} -> src
                    [] i.op \in {"CSRRS", "CSRRSI"} -> Alu("OR", old, src)
                    [] OTHER -> Alu("ANDN", old, src)
           c   == IF H!CsrWrites THEN new ELSE vm.mscratch
           regs == [vm.regs EXCEPT ![i.rd] = old, ![0] = 0]
<1>1. /\ x.vm.regs = regs /\ x.vm.mscratch = c /\ x.vm.memory = vm.memory
      /\ x.vm.reservation = vm.reservation /\ x.next_pc = after(vm, raw)
      /\ (H!Swap <=> i.op \in {"CSRRW", "CSRRWI"})
  BY CsrOutcome
<1>2. /\ H!Inst = i /\ H!Src1 = vm.regs[i.rs1] /\ VmInv(vm) /\ Fetched(raw, i) /\ H!Fetchable
      /\ i.op # "ILLEGAL"
  BY ViewInst DEF About
<1>3. i.op \notin DataOps
  BY DEF DataOps, CsrOps, LoadOps, StoreOps, AmoOps
<1>4. H!Ready(CsrOps)
  BY <1>2, <1>3, CsrChecks, ViewAccess, SameOps DEF H!Ready, H!Legal
<1>5. old = CASE i.csr \in {"cycle", "instret"} -> Arch(vm).cycle_count % H!WordMod
              [] i.csr \in {"cycleh", "instreth"} -> (Arch(vm).cycle_count \div H!WordMod) % H!WordMod
              [] OTHER -> Arch(vm).mscratch
  BY SameNumbers DEF csrRead, Arch
<1> HIDE DEF x, old, c, regs
<1>6. H!Retire(HartState(after(vm, raw), regs, vm.memory, vm.reservation, c))
  BY <1>1, RetiresTo DEF x
<1>7. H!Retire(WroteCsr(old, c)) /\ H!Writes(old).mscratch = vm.mscratch
  BY <1>2, <1>6, WroteCsrIs DEF regs
<1>8. H!CsrAccess <=>
        /\ H!Ready(CsrOps)
        /\ H!Retire(WroteCsr(old, IF H!CsrWrites THEN new ELSE H!Writes(old).mscratch))
        /\ H!Goes
  BY <1>1, <1>2, <1>5, SameOps DEF H!CsrAccess, WroteCsr
<1> QED BY <1>4, <1>7, <1>8 DEF c

LEMMA JumpState ==
    ASSUME NEW p, NEW g
    PROVE  [Arch(vm) EXCEPT !.pc = p, !.regs = g] = HartState(p, g, vm.memory, vm.reservation, vm.mscratch)
<1> DEFINE t1 == [Arch(vm) EXCEPT !.pc = p]
           t2 == [t1 EXCEPT !.regs = g]
<1>0. t2 = [Arch(vm) EXCEPT !.pc = p, !.regs = g]
  OBVIOUS
<1>1. t1 = HartState(p, vm.regs, vm.memory, vm.reservation, vm.mscratch)
  BY DEF HartState, Arch
<1> HIDE DEF t1
<1>2. t2 = HartState(p, g, vm.memory, vm.reservation, vm.mscratch)
  BY <1>1 DEF HartState
<1> QED BY <1>0, <1>2

LEMMA PcState ==
    ASSUME NEW p
    PROVE  [Arch(vm) EXCEPT !.pc = p] = HartState(p, vm.regs, vm.memory, vm.reservation, vm.mscratch)
  BY DEF HartState, Arch

\* FENCE, FENCE.I, ECALL and EBREAK change only pc and the count.
LEMMA PcRetires ==
    ASSUME NEW z, NEW raw, NEW i, About(z, raw, i), NEW n,
           executed(z, raw).vm = z, executed(z, raw).next_pc = n, vm' = retired(executed(z, raw))
    PROVE  H!Retire(HartState(n, vm.regs, vm.memory, vm.reservation, vm.mscratch))
  BY RetiresTo, ExecutedIs

LEMMA NoOpHart ==
    ASSUME NEW z, NEW raw, NEW i, About(z, raw, i), i.op \in {"FENCE", "FENCE_I"},
           vm' = retired(executed(z, raw)), H!Goes
    PROVE  H!NoOp
<1>1. executed(z, raw) = Executed(z, after(vm, raw))
  BY ExecutedIs, ExecSystem DEF SystemOps
<1>2. H!Ready({"FENCE", "FENCE_I"})
  BY PlainReady DEF PlainOps, SystemOps
<1>3. H!Following = after(vm, raw)
  BY ViewInst DEF About
<1>4. H!Retire(HartState(after(vm, raw), vm.regs, vm.memory, vm.reservation, vm.mscratch))
  BY <1>1, PcRetires DEF Executed
<1> QED BY <1>2, <1>3, <1>4, PcState DEF H!NoOp

LEMMA StopHart ==
    ASSUME NEW z, NEW raw, NEW i, About(z, raw, i), i.op \in {"ECALL", "EBREAK"},
           vm' = retired(executed(z, raw)), ret'.err = "none", ret'.result = executed(z, raw).result
    PROVE  H!Stop
<1> DEFINE r == IF i.op = "ECALL" THEN "ecall" ELSE "ebreak"
<1>1. executed(z, raw) = Stopped(z, r, after(vm, raw))
  <2>1. CASE i.op = "ECALL"
    BY <2>1, ExecutedIs, ExecSystem DEF SystemOps
  <2>2. CASE i.op = "EBREAK"
    BY <2>2, ExecutedIs, ExecSystem DEF SystemOps
  <2> QED BY <2>1, <2>2
<1>2. H!Ready({"ECALL", "EBREAK"})
  BY PlainReady DEF PlainOps, SystemOps
<1>3. H!Following = after(vm, raw) /\ H!Inst = i
  BY ViewInst DEF About
<1>4. H!Retire(HartState(after(vm, raw), vm.regs, vm.memory, vm.reservation, vm.mscratch))
  BY <1>1, PcRetires DEF Stopped
<1> QED BY <1>1, <1>2, <1>3, <1>4, PcState DEF H!Stop, Stopped

\* Branches, JAL and JALR.
LEMMA JumpHart ==
    ASSUME NEW z, NEW raw, NEW i, About(z, raw, i), i.op \in BranchOps \cup {"JAL", "JALR"},
           vm' = retired(executed(z, raw)), H!Goes
    PROVE  H!Jump
<1> DEFINE a == vm.regs[i.rs1]
           b == vm.regs[i.rs2]
           n == after(vm, raw)
           taken  == CASE i.op = "BEQ"  -> a = b
                       [] i.op = "BNE"  -> a # b
                       [] i.op = "BLT"  -> Signed(a) < Signed(b)
                       [] i.op = "BGE"  -> Signed(a) >= Signed(b)
                       [] i.op = "BLTU" -> a < b
                       [] i.op = "BGEU" -> a >= b
                       [] OTHER -> TRUE
           sum    == AddW(IF i.op = "JALR" THEN a ELSE vm.pc, i.imm)
           target == IF i.op = "JALR" THEN sum - (sum % 2) ELSE sum
           p == IF taken THEN target ELSE n
           g == IF i.op \in {"JAL", "JALR"} THEN [vm.regs EXCEPT ![i.rd] = n, ![0] = 0] ELSE vm.regs
<1>1. /\ H!Inst = i /\ H!Src1 = a /\ H!Src2 = b /\ H!Following = n /\ n \in Word
      /\ VmInv(vm) /\ i.rd \in Regs
  BY ViewInst, ExecutedIs DEF About, Fetched, Instruction
<1>2. H!Ready(BranchOps \cup {"JAL", "JALR"})
  BY PlainReady DEF PlainOps, SystemOps
<1>3. H!Retire(HartState(p, g, vm.memory, vm.reservation, vm.mscratch))
  <2>1. CASE i.op \in BranchOps
    <3>1. taken <=> branchTaken(i.op, a, b)
      BY <2>1 DEF branchTaken, BranchOps
    <3>2. g = vm.regs /\ p = IF taken THEN AddW(vm.pc, i.imm) ELSE n
      BY <2>1 DEF BranchOps
    <3>3. executed(z, raw) = Executed(z, IF branchTaken(i.op, a, b) THEN AddW(vm.pc, i.imm) ELSE n)
      BY <2>1, ExecutedIs, ExecBranch
    <3> HIDE DEF p, g, taken
    <3>4. executed(z, raw) = Executed(z, p)
      BY <3>1, <3>2, <3>3
    <3> QED BY <3>2, <3>4, PcRetires DEF Executed
  <2>2. CASE i.op = "JAL"
    <3>1. executed(z, raw) = Executed(writeReg(z, i.rd, n), AddW(vm.pc, i.imm))
      BY <2>2, ExecutedIs, ExecSystem DEF SystemOps
    <3>2. p = AddW(vm.pc, i.imm) /\ g = [vm.regs EXCEPT ![i.rd] = n, ![0] = 0]
      BY <2>2
    <3> HIDE DEF p, g
    <3> QED BY <1>1, <3>1, <3>2, WriteRetires
  <2>3. CASE i.op = "JALR"
    <3>1. executed(z, raw) = Executed(writeReg(z, i.rd, n), jalrTarget(a, i.imm))
      BY <2>3, ExecutedIs, ExecSystem DEF SystemOps
    <3>2. p = jalrTarget(a, i.imm) /\ g = [vm.regs EXCEPT ![i.rd] = n, ![0] = 0]
      BY <2>3 DEF jalrTarget
    <3> HIDE DEF p, g
    <3> QED BY <1>1, <3>1, <3>2, WriteRetires
  <2> QED BY <2>1, <2>2, <2>3
<1>4. H!SetReg(i.rd, n) = [vm.regs EXCEPT ![i.rd] = n, ![0] = 0]
  BY <1>1, ViewSetReg
<1>5. Arch(vm).pc = vm.pc /\ Arch(vm).regs = vm.regs
  BY DEF Arch
<1>6. H!Retire([Arch(vm) EXCEPT !.pc = p, !.regs = g])
  BY <1>3, JumpState
<1>7. H!Jump <=>
        /\ H!Ready(BranchOps \cup {"JAL", "JALR"})
        /\ H!Retire([Arch(vm) EXCEPT !.pc = p, !.regs = g])
        /\ H!Goes
  BY <1>1, <1>4, <1>5, SameOps, SameNumbers DEF H!Jump
<1> QED BY <1>2, <1>6, <1>7

-----------------------------------------------------------------------------
(* step() and the iterations of run(). *)

\* What the host is told of a step with outcome r.
Tells(r) ==
    /\ vm' = r.vm
    /\ ret'.call \in {"step", "run"} /\ ret'.err = r.err
    /\ r.err = NoError =>
         IF r.result = "continue" THEN ret'.result \in {"continue", "running"}
         ELSE ret'.result = r.result

LEMMA StepTells ==
    ASSUME Told, Step \/ RunStep
    PROVE  Tells(step(vm))
<1>1. CASE Step
  BY <1>1 DEF Step, Stepped, Return, Tells
<1>2. CASE RunStep
  <2>1. ret = Return("run", "running", NoError)
    BY <1>2 DEF RunStep, Told, RunLoop
  <2> QED BY <1>2, <2>1 DEF RunStep, Iterated, Return, Tells
<1> QED BY <1>1, <1>2

\* A fault of the machine is a fault of the hart, with the same error.
LEMMA FaultHart ==
    ASSUME NEW e, NEW t, Tells(failed(t, e)), e # NoError, Arch(t) = Arch(vm),
           ~(H!Fetchable /\ H!Legal /\ H!Accessible), e = H!FaultError
    PROVE  H!Fault
<1>1. Arch(vm)' = Arch(vm)
  BY DEF Tells, failed
<1> QED BY <1>1 DEF H!Fault, Tells, failed

LEMMA ExecutedHart ==
    ASSUME NEW z, NEW raw, NEW i, About(z, raw, i), Tells(afterExecute(executed(z, raw)))
    PROVE  H!HartNext
<1> DEFINE x == executed(z, raw)
           a == vm.regs[i.rs1]
<1>1. fetch(z) = fetch(vm) /\ z.regs = vm.regs /\ VmInv(z) /\ Arch(z) = Arch(vm)
  BY ExecutedIs, FetchReads DEF About
<1>2. i \in Instruction /\ ExecOK(z, x) /\ Effects(z, i, a, after(z, raw), x)
  BY <1>1, ExecutedFacts DEF About, Fetched
<1>3. H!Fetchable /\ H!Inst = i /\ i.op # "ILLEGAL" /\ VmInv(vm) /\ Fetched(raw, i)
  BY ViewInst DEF About
<1>4. Arch(vm).pc % 2 = 0
  BY <1>3 DEF H!Fetchable
<1>5. CASE x.err # NoError
  <2>1. Tells(failed(z, x.err)) /\ Explains(i, a, x.err)
    BY <1>2, <1>5 DEF afterExecute, ExecOK, Effects
  <2>2. CASE x.err = "IllegalInstruction" /\ i.op \in CsrOps
    <3>1. ~H!CsrLegal
      BY <1>5, <2>2, CsrChecks
    <3>2. ~H!Legal
      BY <1>3, <2>2, <3>1, SameOps DEF H!Legal
    <3>3. H!FaultError = x.err
      BY <1>3, <1>4, <2>2, <3>2 DEF H!FaultError
    <3>4. H!Fault
      BY <1>1, <1>5, <2>1, <3>2, <3>3, FaultHart
    <3> QED BY <3>4 DEF H!HartNext
  <2>3. CASE /\ x.err \in {"MisalignedAccess", "AddressOutOfBounds"}
             /\ i.op \in DataOps
             /\ x.err = accessError(dataAddr(i, a), width(i.op))
    <3>1. ~H!Accessible /\ x.err = IF H!Aligned THEN "AddressOutOfBounds" ELSE "MisalignedAccess"
      BY <1>3, <1>5, <2>3, ViewAccess
    <3>2. H!Legal
      <4>1. i.op \notin CsrOps
        BY <2>3 DEF DataOps, CsrOps, LoadOps, StoreOps, AmoOps
      <4> QED BY <1>3, <4>1, SameOps DEF H!Legal
    <3>3. H!FaultError = x.err
      BY <1>3, <1>4, <3>1, <3>2 DEF H!FaultError
    <3>4. H!Fault
      BY <1>1, <1>5, <2>1, <3>1, <3>3, FaultHart
    <3> QED BY <3>4 DEF H!HartNext
  <2> QED BY <2>1, <2>2, <2>3 DEF Explains
<1>6. CASE x.err = NoError
  <2>1. /\ vm' = retired(x) /\ ret'.err = "none"
        /\ IF x.result = "continue" THEN ret'.result \in {"continue", "running"}
           ELSE ret'.result = x.result
    BY <1>6 DEF afterExecute, Tells, NoError
  <2>2. CASE i.op \in {"ECALL", "EBREAK"}
    <3>1. x.result \in {"ecall", "ebreak"}
      <4>1. CASE i.op = "ECALL"
        BY <4>1, ExecutedIs, ExecSystem DEF SystemOps, Stopped
      <4>2. CASE i.op = "EBREAK"
        BY <4>2, ExecutedIs, ExecSystem DEF SystemOps, Stopped
      <4> QED BY <2>2, <4>1, <4>2
    <3>2. H!Stop
      BY <2>1, <2>2, <3>1, StopHart
    <3> QED BY <3>2 DEF H!HartNext
  <2>3. CASE i.op \notin {"ECALL", "EBREAK"}
    <3>1. x.result = "continue"
      BY <1>2, <2>3 DEF Effects
    <3>2. H!Goes
      BY <2>1, <3>1 DEF H!Goes
    <3> HIDE DEF x
    <3>3. CASE i.op \in AluRegOps \cup AluImmOps \cup {"LUI", "AUIPC"}
      BY <2>1, <3>2, <3>3, ComputeHart DEF H!HartNext, x
    <3>4. CASE i.op \in LoadOps
      BY <1>6, <2>1, <3>2, <3>4, LoadHart DEF H!HartNext, x
    <3>5. CASE i.op \in StoreOps
      BY <1>6, <2>1, <3>2, <3>5, StoreHart DEF H!HartNext, x
    <3>6. CASE i.op = "LR_W"
      BY <1>6, <2>1, <3>2, <3>6, LoadReservedHart DEF H!HartNext, x
    <3>7. CASE i.op = "SC_W"
      BY <1>6, <2>1, <3>2, <3>7, StoreConditionalHart DEF H!HartNext, x
    <3>8. CASE i.op \in AmoOps
      BY <1>6, <2>1, <3>2, <3>8, AmoHart DEF H!HartNext, x
    <3>9. CASE i.op \in CsrOps
      BY <1>6, <2>1, <3>2, <3>9, CsrHart DEF H!HartNext, x
    <3>10. CASE i.op \in BranchOps \cup {"JAL", "JALR"}
      BY <2>1, <3>2, <3>10, JumpHart DEF H!HartNext, x
    <3>11. CASE i.op \in {"FENCE", "FENCE_I"}
      BY <2>1, <3>2, <3>11, NoOpHart DEF H!HartNext, x
    <3>12. i.op \in Ops
      BY <1>2, <1>3 DEF Instruction
    <3> QED BY <2>3, <3>3, <3>4, <3>5, <3>6, <3>7, <3>8, <3>9, <3>10, <3>11, <3>12 DEF Ops, SystemOps
  <2> QED BY <2>2, <2>3
<1> QED BY <1>5, <1>6

LEMMA StepHart ==
    ASSUME Inv, Told, Step \/ RunStep
    PROVE  H!HartNext
<1> DEFINE f == fetch(vm)
           i == Decode(f.raw)
<1>0. VmInv(vm) /\ Tells(step(vm))
  BY StepTells DEF Inv
<1>1. CASE f.err # NoError /\ step(vm) = failed(vm, f.err)
  <2>1. ~H!Fetchable /\ f.err = H!FaultError
    BY <1>0, <1>1, ViewFetch
  <2>2. H!Fault
    BY <1>0, <1>1, <2>1, FaultHart
  <2> QED BY <2>2 DEF H!HartNext
<1>2. ASSUME f.err = NoError, f.raw \in Word, NEW z, VmInv(z), Arch(z) = Arch(vm), i.op = "ILLEGAL",
             step(vm) = failed(z, "IllegalInstruction")
      PROVE  H!HartNext
  <2>1. H!Fetchable /\ H!Inst = i
    BY <1>0, <1>2, ViewFetch
  <2>2. ~H!Legal /\ Arch(vm).pc % 2 = 0
    BY <1>2, <2>1 DEF H!Legal, H!Fetchable
  <2>3. H!FaultError = "IllegalInstruction"
    BY <2>1, <2>2 DEF H!FaultError
  <2>4. "IllegalInstruction" # NoError
    BY DEF NoError
  <2>5. H!Fault
    BY <1>0, <1>2, <2>2, <2>3, <2>4, FaultHart
  <2> QED BY <2>5 DEF H!HartNext
<1>3. ASSUME f.err = NoError, f.raw \in Word, NEW z, VmInv(z), Arch(z) = Arch(vm), i.op # "ILLEGAL",
             step(vm) = afterExecute(executed(z, f.raw))
      PROVE  H!HartNext
  <2>1. About(z, f.raw, i)
    BY <1>0, <1>3, DecodeAssumption DEF About, Fetched
  <2> QED BY <1>0, <1>3, <2>1, ExecutedHart
<1> QED BY <1>0, <1>1, <1>2, <1>3, StepStages

-----------------------------------------------------------------------------
(* The host's calls. *)

LEMMA WellFormedHart ==
    ASSUME NEW t, VmInv(t)
    PROVE  H!WellFormed(Arch(t))
<1>1. Arch(t).regs = t.regs /\ Arch(t).reservation = t.reservation
  BY DEF Arch
<1>2. t.reservation # NONE => t.reservation \in Nat /\ t.reservation % 4 = 0 /\ t.reservation <= MemSize - 4
  BY DEF VmInv, VM, ReservationOK, NoReservation, Word
<1> QED BY <1>1, <1>2, Constants, SameNumbers DEF H!WellFormed, H!InMemory, VmInv

LEMMA MemoryHart ==
    ASSUME NEW name \in {"loadProgram", "write", "poke", "clearReservation"}, NEW r,
           HostCall(name, r), r.err = NoError, KeepsReserved(vm, r.vm),
           r.vm.pc = vm.pc, r.vm.regs = vm.regs, r.vm.cycle_count = vm.cycle_count,
           r.vm.mscratch = vm.mscratch, r.vm.reservation \in {vm.reservation, NoReservation}
    PROVE  H!HostMemory
<1> DEFINE t == r.vm
<1>1. vm' = t /\ ret'.call = name /\ ret'.err = "none"
  BY DEF HostCall, Return, NoError
<1> DEFINE u  == Arch(vm)
           u1 == [u EXCEPT !.memory = t.memory]
           u2 == [u1 EXCEPT !.reservation = t.reservation]
<1>2. u2 = [Arch(vm) EXCEPT !.memory = t.memory, !.reservation = t.reservation]
  OBVIOUS
<1>3. u1 = HartState(vm.pc, vm.regs, t.memory, vm.reservation, vm.mscratch)
  BY DEF Arch, HartState
<1> HIDE DEF u1
<1>4. u2 = HartState(vm.pc, vm.regs, t.memory, t.reservation, vm.mscratch)
  BY <1>3 DEF HartState
<1>5. Arch(t) = HartState(vm.pc, vm.regs, t.memory, t.reservation, vm.mscratch)
  BY DEF Arch, HartState
<1>6. Arch(vm)' = [Arch(vm) EXCEPT !.memory = t.memory, !.reservation = t.reservation]
  BY <1>1, <1>2, <1>4, <1>5
<1>7. /\ Arch(vm)'.memory = t.memory /\ Arch(vm)'.reservation = t.reservation
      /\ Arch(vm).memory = vm.memory /\ Arch(vm).reservation = vm.reservation
  BY <1>1 DEF Arch
<1>8. t.reservation # NoReservation =>
        H!WordAt(t.memory, vm.reservation) = H!WordAt(vm.memory, vm.reservation)
  BY SameMemory DEF KeepsReserved
<1>9. H!NONE = NoReservation
  BY SameNumbers DEF NoReservation
<1> QED BY <1>1, <1>6, <1>7, <1>8, <1>9 DEF H!HostMemory

LEMMA RegisterHart ==
    ASSUME NEW name \in {"writeReg", "pc"}, NEW r, HostCall(name, r), VmInv(r.vm),
           r.vm.memory = vm.memory, r.vm.cycle_count = vm.cycle_count,
           r.vm.mscratch = vm.mscratch, r.vm.reservation = vm.reservation
    PROVE  H!HostRegister
<1> DEFINE t == r.vm
<1>1. vm' = t /\ ret'.call = name
  BY DEF HostCall, Return
<1> DEFINE u1 == [Arch(vm) EXCEPT !.regs = t.regs]
           u2 == [u1 EXCEPT !.pc = t.pc]
<1>2. u2 = [Arch(vm) EXCEPT !.regs = t.regs, !.pc = t.pc]
  OBVIOUS
<1>3. u1 = HartState(vm.pc, t.regs, vm.memory, vm.reservation, vm.mscratch)
  BY DEF Arch, HartState
<1> HIDE DEF u1
<1>4. u2 = HartState(t.pc, t.regs, vm.memory, vm.reservation, vm.mscratch)
  BY <1>3 DEF HartState
<1>5. Arch(t) = HartState(t.pc, t.regs, vm.memory, vm.reservation, vm.mscratch)
  BY DEF Arch, HartState
<1>6. Arch(vm)' = [Arch(vm) EXCEPT !.regs = t.regs, !.pc = t.pc]
  BY <1>1, <1>2, <1>4, <1>5
<1>7. Arch(vm)'.regs = t.regs /\ Arch(vm)'.pc = t.pc
  BY <1>1 DEF Arch
<1>8. H!WellFormed(Arch(vm)')
  BY <1>1, WellFormedHart
<1> QED BY <1>1, <1>6, <1>7, <1>8 DEF H!HostRegister

LEMMA HostHart ==
    ASSUME Inv, Next, ~(Step \/ RunStep)
    PROVE  H!HartNext
<1>0. VmInv(vm)
  BY DEF Inv
<1>1. CASE Reset
  <2>1. vm' = PowerOn /\ ret'.call = "reset"
    BY <1>1 DEF Reset, HostCall, NoFail, Return
  <2>2. Arch(PowerOn) = H!PowerOnArch
    BY SameNumbers DEF Arch, PowerOn, H!PowerOnArch, NoReservation
  <2> QED BY <2>1, <2>2 DEF H!HostReset, H!HartNext
<1>2. ASSUME NEW p \in Programs, LoadProgram(p) PROVE H!HartNext
  <2> DEFINE r == loadProgram(vm, p)
  <2>1. HostCall("loadProgram", r) /\ p \in [at: Word, bytes: Seq(Byte)]
    BY <1>2, HostAssumption DEF LoadProgram
  <2>2. CASE r.err # NoError
    <3>1. r.vm = vm
      BY <2>2 DEF loadProgram
    <3>2. Arch(vm)' = Arch(vm) /\ ret'.call = "loadProgram" /\ ret'.err # "none"
      BY <2>1, <2>2, <3>1 DEF HostCall, Return, NoError
    <3> QED BY <3>2 DEF H!HostQuiet, H!HartNext
  <2>3. CASE r.err = NoError
    <3>1. KeepsReserved(vm, r.vm)
      BY <1>0, <2>1, LoadProgramKeepsReserved
    <3>2. /\ r.vm.pc = vm.pc /\ r.vm.regs = vm.regs /\ r.vm.cycle_count = vm.cycle_count
          /\ r.vm.mscratch = vm.mscratch /\ r.vm.reservation \in {vm.reservation, NoReservation}
      BY <1>0 DEF loadProgram, invalidateReservationRange, VmInv, VM
    <3> HIDE DEF r
    <3>3. H!HostMemory
      BY <2>1, <2>3, <3>1, <3>2, MemoryHart
    <3> QED BY <3>3 DEF H!HartNext
  <2> QED BY <2>2, <2>3
<1>3. ASSUME NEW w \in HostWrites, Write(w) PROVE H!HartNext
  <2> DEFINE r == write(vm, w.at, w.width, w.value)
  <2>1. HostCall("write", r) /\ w.at \in Word /\ w.width \in {1, 2, 4}
    BY <1>3, HostAssumption DEF Write
  <2>2. CASE r.err # NoError
    <3>1. r.vm = vm
      BY <2>2 DEF write
    <3>2. Arch(vm)' = Arch(vm) /\ ret'.call = "write" /\ ret'.err # "none"
      BY <2>1, <2>2, <3>1 DEF HostCall, Return, NoError
    <3> QED BY <3>2 DEF H!HostQuiet, H!HartNext
  <2>3. CASE r.err = NoError
    <3>1. KeepsReserved(vm, r.vm)
      BY <1>0, <2>1, WriteKeepsReserved
    <3>2. /\ r.vm.pc = vm.pc /\ r.vm.regs = vm.regs /\ r.vm.cycle_count = vm.cycle_count
          /\ r.vm.mscratch = vm.mscratch /\ r.vm.reservation \in {vm.reservation, NoReservation}
      BY <1>0 DEF write, invalidateReservation, VmInv, VM
    <3> HIDE DEF r
    <3>3. H!HostMemory
      BY <2>1, <2>3, <3>1, <3>2, MemoryHart
    <3> QED BY <3>3 DEF H!HartNext
  <2> QED BY <2>2, <2>3
<1>4. ASSUME NEW w \in HostWrites, PokeMemory(w) PROVE H!HartNext
  <2> DEFINE t == [vm EXCEPT !.memory = [vm.memory EXCEPT ![w.at] = w.value % BYTE],
                             !.reservation = NoReservation]
             r == NoFail(t)
  <2>1. HostCall("poke", r) /\ r.err = NoError /\ r.vm = t
    BY <1>4 DEF PokeMemory, NoFail
  <2>2. /\ t.pc = vm.pc /\ t.regs = vm.regs /\ t.cycle_count = vm.cycle_count
        /\ t.mscratch = vm.mscratch /\ t.reservation = NoReservation
    BY <1>0 DEF VmInv, VM
  <2> HIDE DEF t, r
  <2>3. KeepsReserved(vm, r.vm)
    BY <2>1, <2>2 DEF KeepsReserved
  <2>4. H!HostMemory
    BY <2>1, <2>2, <2>3, MemoryHart
  <2> QED BY <2>4 DEF H!HartNext
<1>5. CASE ClearReservation
  <2> DEFINE t == [vm EXCEPT !.reservation = NoReservation]
             r == NoFail(t)
  <2>1. HostCall("clearReservation", r) /\ r.err = NoError /\ r.vm = t
    BY <1>5 DEF ClearReservation, NoFail
  <2>2. /\ t.pc = vm.pc /\ t.regs = vm.regs /\ t.cycle_count = vm.cycle_count
        /\ t.mscratch = vm.mscratch /\ t.reservation = NoReservation
    BY <1>0 DEF VmInv, VM
  <2> HIDE DEF t, r
  <2>3. KeepsReserved(vm, r.vm)
    BY <2>1, <2>2 DEF KeepsReserved
  <2>4. H!HostMemory
    BY <2>1, <2>2, <2>3, MemoryHart
  <2> QED BY <2>4 DEF H!HartNext
<1>6. ASSUME NEW w \in HostRegs, WriteReg(w) PROVE H!HartNext
  <2> DEFINE t == writeReg(vm, w.reg, w.value)
             r == NoFail(t)
  <2>1. HostCall("writeReg", r) /\ r.vm = t
    BY <1>6 DEF WriteReg, NoFail
  <2>2. VmInv(t)
    BY <1>0, HostAssumption, WriteRegInv
  <2>3. /\ t.memory = vm.memory /\ t.cycle_count = vm.cycle_count
        /\ t.mscratch = vm.mscratch /\ t.reservation = vm.reservation
    BY <1>0, WriteRegFrame DEF SameFrame
  <2> HIDE DEF t, r
  <2>4. H!HostRegister
    BY <2>1, <2>2, <2>3, RegisterHart
  <2> QED BY <2>4 DEF H!HartNext
<1>7. ASSUME NEW a \in HostPcs, SetPc(a) PROVE H!HartNext
  <2> DEFINE t == [vm EXCEPT !.pc = a]
             r == NoFail(t)
  <2>1. HostCall("pc", r) /\ r.vm = t
    BY <1>7 DEF SetPc, NoFail
  <2>2. VmInv(t)
    BY <1>0, HostAssumption DEF VmInv, VM, ReservationOK, CacheOK
  <2>3. /\ t.memory = vm.memory /\ t.cycle_count = vm.cycle_count
        /\ t.mscratch = vm.mscratch /\ t.reservation = vm.reservation
    BY <1>0 DEF VmInv, VM
  <2> HIDE DEF t, r
  <2>4. H!HostRegister
    BY <2>1, <2>2, <2>3, RegisterHart
  <2> QED BY <2>4 DEF H!HartNext
<1>8. CASE WriteSnapshot
  <2>1. Arch(vm)' = Arch(vm) /\ ret'.call = "writeSnapshot" /\ ret'.err = "none"
    BY <1>8 DEF WriteSnapshot, Return, NoError
  <2> QED BY <2>1 DEF H!HostQuiet, H!HartNext
<1>9. ASSUME NEW h \in Images \cup {image}, NEW n \in ReadLengths, RestoreSnapshot(h, n) PROVE H!HartNext
  <2> DEFINE r == restoreSnapshot(vm, h, n)
  <2>1. h \in Snapshots /\ n \in 0 .. MemSize \cup {NONE}
    BY HostAssumption DEF Inv, TypeOK
  <2>2. VmInv(r.vm) /\ r.err \in {NoError, "InvalidSnapshot", "EndOfStream"}
    BY <1>0, <2>1, RestoreInv
  <2>3. r.err = "InvalidSnapshot" => r.vm = vm
    BY DEF restoreSnapshot, NoError
  <2>4. vm' = r.vm /\ ret'.call = "restoreSnapshot" /\ ret'.err = r.err
    BY <1>9 DEF RestoreSnapshot, HostCall, Return
  <2> HIDE DEF r
  <2>5. CASE r.err = "InvalidSnapshot"
    <3>1. Arch(vm)' = Arch(vm) /\ ret'.err # "none"
      BY <2>3, <2>4, <2>5
    <3> QED BY <2>4, <3>1 DEF H!HostQuiet, H!HartNext
  <2>6. CASE r.err # "InvalidSnapshot"
    <3>1. H!WellFormed(Arch(vm)')
      BY <2>2, <2>4, WellFormedHart
    <3>2. ret'.err \in {"none", "EndOfStream"}
      BY <2>2, <2>4, <2>6 DEF NoError
    <3> QED BY <2>4, <3>1, <3>2 DEF H!HostRestore, H!HartNext
  <2> QED BY <2>5, <2>6
<1>10. CASE RunLimit \/ (\E l \in Limits : Run(l)) \/ (\E n \in StepCounts : RunFor(n))
  <2>1. /\ Arch(vm)' = Arch(vm) /\ ret'.call = "run" /\ ret'.result \in {"running", "continue"}
        /\ ret'.err = "none"
    BY <1>10 DEF RunLimit, Run, RunFor, Return, NoError
  <2> QED BY <2>1 DEF H!HostQuiet, H!HartNext
<1> QED BY <1>1, <1>2, <1>3, <1>4, <1>5, <1>6, <1>7, <1>8, <1>9, <1>10 DEF Next

\* The machine implements the hart: for every program, host, decoder, memory
\* and cache size, what the host sees of it is what a hart without a cache,
\* whose instructions take effect at once or not at all, could do.
THEOREM MachineImplementsHart == Spec => ImplementsHart
<1>1. Init => H!HartInit
  <2>1. Arch(PowerOn) = H!PowerOnArch
    BY SameNumbers DEF Arch, PowerOn, H!PowerOnArch, NoReservation
  <2> QED BY <2>1 DEF Init, H!HartInit, Return, NoError
<1>2. Inv /\ Told /\ [Next]_vars => [H!HartNext]_(H!hartVars)
  <2> SUFFICES ASSUME Inv, Told, [Next]_vars PROVE H!HartNext \/ UNCHANGED H!hartVars
    OBVIOUS
  <2>1. CASE Step \/ RunStep
    BY <2>1, StepHart
  <2>2. CASE Next /\ ~(Step \/ RunStep)
    BY <2>2, HostHart
  <2>3. CASE UNCHANGED vars
    BY <2>3 DEF vars, H!hartVars
  <2> QED BY <2>1, <2>2, <2>3
<1> QED BY <1>1, <1>2, InvAlways, ToldAlways, PTL DEF Spec, ImplementsHart, H!HartSpec

=============================================================================
