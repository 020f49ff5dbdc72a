-------------------------- MODULE HostCallsProofs --------------------------
(***************************************************************************)
(* handle() of module HostCalls, for every guest, every host and every     *)
(* input: reads deliver the input once, writes emit guest memory, and a    *)
(* call touches nothing else.                                              *)
(***************************************************************************)
EXTENDS CpuProofs, HostCalls, SequenceTheorems

\* The inductive invariant: the machine's own, the type of Env, and the input
\* delivered so far.
EnvInv ==
    /\ env = [input_pos |-> env.input_pos, out |-> env.out]
    /\ env.input_pos \in 0 .. Len(Input)
    /\ env.out \in [{1, 2} -> Seq(Byte)]
    /\ received = SubSeq(Input, 1, env.input_pos)

-----------------------------------------------------------------------------
(* Buffers. *)

LEMMA InputFacts ==
    /\ Input \in Seq(Byte) /\ Len(Input) \in Nat /\ Len(Input) < WordMod
    /\ A0 \in Regs /\ A1 \in Regs /\ A2 \in Regs /\ A7 \in Regs /\ A0 # 0
    /\ Ebadf \in Word /\ Efault \in Word
  BY HostCallAssumption

LEMMA ArgumentTypes ==
    ASSUME VmInv(vm)
    PROVE  a0 \in Word /\ a1 \in Word /\ a2 \in Word /\ a1 \in Nat /\ a2 \in Nat
  BY InputFacts DEF VmInv, VM, a0, a1, a2, Word

\* A buffer inside memory is a sequence of bytes.
LEMMA BytesType ==
    ASSUME NEW m \in [Addrs -> Byte], NEW a \in Nat, NEW n \in Nat, a + n <= MemSize
    PROVE  Bytes(m, a, n) \in Seq(Byte) /\ Len(Bytes(m, a, n)) = n
<1>1. \A k \in 1 .. n : a + k - 1 \in Addrs
  BY Constants DEF Addrs
<1>2. \A k \in 1 .. n : m[a + k - 1] \in Byte
  BY <1>1
<1> QED BY <1>2 DEF Bytes

LEMMA GuestBuffer ==
    ASSUME VmInv(vm), guestBytes(a1, a2)
    PROVE  a1 + a2 <= MemSize
  BY ArgumentTypes, Constants DEF guestBytes

\* The bytes a read takes from the input: as many as asked for and as are left.
LEMMA ReadLength ==
    ASSUME NEW n \in Nat, NEW pos \in 0 .. Len(Input)
    PROVE  /\ readLength(n, pos) \in Nat /\ readLength(n, pos) <= n
           /\ pos + readLength(n, pos) \in pos .. Len(Input)
           /\ readLength(n, pos) \in Word
  BY InputFacts, Moduli DEF readLength, Word

LEMMA InputPart ==
    ASSUME NEW pos \in Nat, NEW n \in Nat, pos + n <= Len(Input)
    PROVE  LET part == SubSeq(Input, pos + 1, pos + n)
           IN  part \in Seq(Byte) /\ Len(part) = n /\ part = [k \in 1 .. n |-> part[k]]
<1> DEFINE i == pos + 1
           j == pos + n
           part == SubSeq(Input, i, j)
<1>1. i \in Int /\ j \in Int /\ \A k \in i .. j : Input[k] \in Byte
  BY InputFacts
<1>2. (IF i <= j THEN j - i + 1 ELSE 0) = n
  OBVIOUS
<1> HIDE DEF i, j
<1>3. part \in Seq(Byte) /\ Len(part) = n
  BY <1>1, <1>2, SubSeqProperties
<1> HIDE DEF part
<1>4. part = [k \in 1 .. n |-> part[k]]
  BY <1>3
<1> QED BY <1>3, <1>4 DEF part, i, j


-----------------------------------------------------------------------------
(* The calls. *)

\* setResult() after memory and reservation changed as loadProgram() may.
LEMMA ResumedFacts ==
    ASSUME NEW s, VmInv(s), VmInv(vm), NEW v \in Word, OnlyLoaded(vm, s), Resumed(s, v)
    PROVE  /\ VmInv(vm') /\ vm'.regs[A0] = v /\ \A r \in Regs \ {A0} : vm'.regs[r] = vm.regs[r]
           /\ vm'.memory = s.memory /\ vm'.reservation = s.reservation
           /\ vm'.pc = vm.pc /\ vm'.cycle_count = vm.cycle_count /\ vm'.mscratch = vm.mscratch
<1>1. vm' = writeReg(s, A0, v) /\ VmInv(vm')
  BY InputFacts, WriteRegInv DEF Resumed
<1>2. s \in VM /\ s.regs \in [Regs -> Word]
  BY DEF VmInv, VM
<1>3. writeReg(s, A0, v) = [s EXCEPT !.regs[A0] = v]
  BY InputFacts DEF writeReg
<1>4. vm'.regs = [s.regs EXCEPT ![A0] = v]
      /\ vm'.memory = s.memory /\ vm'.reservation = s.reservation
      /\ vm'.pc = s.pc /\ vm'.cycle_count = s.cycle_count /\ vm'.mscratch = s.mscratch
  BY <1>1, <1>2, <1>3 DEF VM
<1> QED BY <1>1, <1>2, <1>4, InputFacts DEF OnlyLoaded

\* A read copies the next part of the input into the buffer, which lies in
\* memory, and reports its length.
LEMMA ReadFacts ==
    ASSUME VmInv(vm), EnvInv, ReadOk
    PROVE  LET n == readLength(a2, env.input_pos)
           IN  /\ VmInv(vm') /\ KeepsReserved(vm, vm')
               /\ n \in Nat /\ a1 + n <= MemSize
               /\ env' = [input_pos |-> env.input_pos + n, out |-> env.out]
               /\ env.input_pos + n \in env.input_pos .. Len(Input)
               /\ vm'.regs[A0] = n /\ \A r \in Regs \ {A0} : vm'.regs[r] = vm.regs[r]
               /\ vm'.pc = vm.pc /\ vm'.cycle_count = vm.cycle_count /\ vm'.mscratch = vm.mscratch
               /\ \A x \in Addrs \ (a1 .. a1 + n - 1) : vm'.memory[x] = vm.memory[x]
               /\ Bytes(vm'.memory, a1, n) = SubSeq(Input, env.input_pos + 1, env.input_pos + n)
               /\ received' = received \o Bytes(vm'.memory, a1, n)
               /\ vm'.reservation # vm.reservation =>
                    /\ vm.reservation # NoReservation /\ n # 0
                    /\ a1 < vm.reservation + 4 /\ vm.reservation < a1 + n
<1> DEFINE pos == env.input_pos
           n   == readLength(a2, pos)
           part == SubSeq(Input, pos + 1, pos + n)
           p   == [at |-> a1, bytes |-> part]
           s   == loadProgram(vm, p).vm
<1>1. /\ pos \in 0 .. Len(Input) /\ a1 \in Word /\ a1 \in Nat /\ a2 \in Nat
      /\ env = [input_pos |-> pos, out |-> env.out]
  BY ArgumentTypes DEF EnvInv
<1>2. n \in Nat /\ n \in Word /\ n <= a2 /\ pos + n \in pos .. Len(Input)
  BY <1>1, ReadLength
<1>3. a1 + n <= MemSize
  <2>1. guestBytes(a1, a2)
    BY DEF ReadOk, rejected
  <2> QED BY <1>1, <1>2, <2>1, GuestBuffer, Constants
<1>4. Resumed(s, n) /\ env' = [input_pos |-> pos + n, out |-> env.out]
      /\ received' = received \o Bytes(vm'.memory, a1, n)
  <2>1. /\ Resumed(s, n) /\ received' = received \o Bytes(vm'.memory, a1, n)
        /\ env' = [env EXCEPT !.input_pos = advance(a2, pos)]
    BY Zenon DEF ReadOk, copyIn
  <2>2. advance(a2, pos) = pos + n
    BY DEF advance
  <2> QED BY <1>1, <2>1, <2>2
<1> HIDE DEF n
<1>5. part \in Seq(Byte) /\ Len(part) = n /\ part = [k \in 1 .. n |-> part[k]]
  <2>1. pos \in Nat /\ pos + n <= Len(Input)
    BY <1>1, <1>2, InputFacts
  <2> QED BY <1>2, <2>1, InputPart
<1> HIDE DEF part
<1>6. p \in [at: Word, bytes: Seq(Byte)] /\ p.at = a1 /\ p.bytes = part
      /\ p.at + Len(p.bytes) <= MemSize
  BY <1>1, <1>3, <1>5
<1> HIDE DEF p
<1>7. VmInv(s) /\ KeepsReserved(vm, s)
  BY <1>6, LoadProgramInv, LoadProgramKeepsReserved
<1>8. /\ OnlyLoaded(vm, s)
      /\ s.reservation # vm.reservation =>
           /\ vm.reservation # NoReservation /\ Len(p.bytes) # 0
           /\ p.at < vm.reservation + 4 /\ vm.reservation < p.at + Len(p.bytes)
      /\ s.memory = [x \in Addrs |-> IF p.at <= x /\ x < p.at + Len(p.bytes)
                                     THEN p.bytes[x - p.at + 1] ELSE vm.memory[x]]
  BY <1>6, LoadProgramEffect
<1> HIDE DEF s
<1>9. /\ VmInv(vm') /\ vm'.regs[A0] = n /\ \A r \in Regs \ {A0} : vm'.regs[r] = vm.regs[r]
      /\ vm'.memory = s.memory /\ vm'.reservation = s.reservation
      /\ vm'.pc = vm.pc /\ vm'.cycle_count = vm.cycle_count /\ vm'.mscratch = vm.mscratch
  BY <1>2, <1>4, <1>7, <1>8, ResumedFacts
<1>10. KeepsReserved(vm, vm')
  BY <1>7, <1>9 DEF KeepsReserved
<1>11. \A x \in Addrs \ (a1 .. a1 + n - 1) : vm'.memory[x] = vm.memory[x]
  BY <1>1, <1>2, <1>5, <1>6, <1>8, <1>9 DEF Addrs
<1>12. Bytes(vm'.memory, a1, n) = part
  <2>1. ASSUME NEW k \in 1 .. n PROVE vm'.memory[a1 + k - 1] = part[k]
    <3>1. k \in Nat /\ k >= 1 /\ k <= n /\ n \in Nat /\ a1 \in Nat /\ MemSize \in Nat
      <4>1. n \in Nat /\ a1 \in Nat /\ MemSize \in Nat
        BY <1>1, <1>2, Constants
      <4> HIDE DEF pos
      <4> QED BY <4>1
    <3>2. /\ a1 + k - 1 \in Addrs /\ a1 <= a1 + k - 1 /\ a1 + k - 1 < a1 + n
          /\ (a1 + k - 1) - a1 + 1 = k
      BY <1>3, <3>1 DEF Addrs
    <3>3. \A x \in Addrs : a1 <= x /\ x < a1 + n => vm'.memory[x] = part[x - a1 + 1]
      BY <1>5, <1>6, <1>8, <1>9
    <3> QED BY <3>2, <3>3
  <2> QED BY <1>5, <2>1 DEF Bytes
<1>13. vm'.reservation # vm.reservation =>
         /\ vm.reservation # NoReservation /\ n # 0
         /\ a1 < vm.reservation + 4 /\ vm.reservation < a1 + n
  BY <1>5, <1>6, <1>8, <1>9
<1> QED BY <1>2, <1>3, <1>4, <1>9, <1>10, <1>11, <1>12, <1>13 DEF n, part


\* A write appends the first n bytes of the buffer, all of them if it succeeds.
LEMMA WriteFacts ==
    ASSUME VmInv(vm), EnvInv, WriteOk \/ WriteFailed
    PROVE  /\ a0 \in {1, 2} /\ guestBytes(a1, a2) /\ vm.regs[A7] = WriteCall
           /\ \E n \in 0 .. a2 :
                /\ env' = [input_pos |-> env.input_pos,
                           out |-> [env.out EXCEPT ![a0] = @ \o Bytes(vm.memory, a1, n)]]
                /\ Bytes(vm.memory, a1, n) \in Seq(Byte) /\ Len(Bytes(vm.memory, a1, n)) = n
                /\ outcome' = "resumed" => n = a2 /\ vm'.regs[A0] = a2
<1>1. a0 \in {1, 2} /\ guestBytes(a1, a2) /\ vm.regs[A7] = WriteCall
  BY DEF WriteOk, WriteFailed, Handling, rejected
<1>2. a1 \in Nat /\ a2 \in Nat /\ a2 \in Word /\ a1 + a2 <= MemSize /\ vm.memory \in [Addrs -> Byte]
  BY <1>1, ArgumentTypes, GuestBuffer DEF VmInv, VM
<1>3. ASSUME NEW n \in 0 .. a2
      PROVE  Bytes(vm.memory, a1, n) \in Seq(Byte) /\ Len(Bytes(vm.memory, a1, n)) = n
  <2>1. n \in Nat /\ a1 + n <= MemSize
    BY <1>2, Constants
  <2> QED BY <1>2, <2>1, BytesType
<1>4. \E n \in 0 .. a2 : env' = [env EXCEPT !.out[a0] = @ \o Bytes(vm.memory, a1, n)]
                         /\ (outcome' = "resumed" => n = a2 /\ vm'.regs[A0] = a2)
  <2>1. CASE WriteOk
    <3>1. a2 \in 0 .. a2 /\ env' = [env EXCEPT !.out[a0] = @ \o Bytes(vm.memory, a1, a2)]
      BY <1>2, <2>1 DEF WriteOk, writeAll
    <3>2. vm'.regs[A0] = a2
      <4>1. OnlyLoaded(vm, vm) /\ Resumed(vm, a2)
        BY <2>1 DEF OnlyLoaded, WriteOk
      <4> QED BY <1>2, <4>1, ResumedFacts
    <3> QED BY <3>1, <3>2
  <2>2. CASE WriteFailed
    BY <2>2 DEF WriteFailed
  <2> QED BY <2>1, <2>2
<1>5. PICK n \in 0 .. a2 : env' = [env EXCEPT !.out[a0] = @ \o Bytes(vm.memory, a1, n)]
                           /\ (outcome' = "resumed" => n = a2 /\ vm'.regs[A0] = a2)
  BY <1>4
<1>6. env' = [input_pos |-> env.input_pos,
              out |-> [env.out EXCEPT ![a0] = @ \o Bytes(vm.memory, a1, n)]]
  BY <1>5 DEF EnvInv
<1> QED BY <1>1, <1>3, <1>5, <1>6

\* The calls other than a read touch neither memory nor the reservation nor the
\* input, and only a0 of the registers.
LEMMA OtherFacts ==
    ASSUME VmInv(vm), EnvInv, Exit \/ RejectedCall \/ WriteOk \/ WriteFailed \/ Unknown
    PROVE  /\ VmInv(vm') /\ vm'.memory = vm.memory /\ vm'.reservation = vm.reservation
           /\ vm'.pc = vm.pc /\ vm'.cycle_count = vm.cycle_count /\ vm'.mscratch = vm.mscratch
           /\ \A r \in Regs \ {A0} : vm'.regs[r] = vm.regs[r]
           /\ outcome' # "resumed" => vm' = vm
           /\ env'.input_pos = env.input_pos /\ received' = received
<1>1. env'.input_pos = env.input_pos
  <2>1. CASE WriteOk \/ WriteFailed
    <3>1. \E out : env' = [input_pos |-> env.input_pos, out |-> out]
      BY <2>1, WriteFacts
    <3> QED BY <3>1
  <2> QED BY <2>1 DEF Exit, RejectedCall, Unknown
<1>2. received' = received
  BY DEF Exit, RejectedCall, WriteOk, WriteFailed, Unknown
<1>3. CASE Exit \/ WriteFailed \/ Unknown
  BY <1>1, <1>2, <1>3 DEF Exit, WriteFailed, Unknown
<1>4. CASE RejectedCall \/ WriteOk
  <2>1. PICK v \in Word : Resumed(vm, v)
    <3>1. CASE RejectedCall
      <4>1. fdError({1, 2}) \in Word /\ fdError({0}) \in Word
        BY InputFacts DEF fdError
      <4>2. Resumed(vm, fdError({1, 2})) \/ Resumed(vm, fdError({0}))
        BY <3>1 DEF RejectedCall
      <4> QED BY <4>1, <4>2
    <3>2. CASE WriteOk
      BY <3>2, ArgumentTypes DEF WriteOk
    <3> QED BY <1>4, <3>1, <3>2
  <2>2. OnlyLoaded(vm, vm) /\ outcome' = "resumed"
    BY <2>1 DEF OnlyLoaded, Resumed
  <2> QED BY <1>1, <1>2, <2>1, <2>2, ResumedFacts
<1> QED BY <1>3, <1>4

-----------------------------------------------------------------------------
(* The invariant. *)

LEMMA InitHost == HostInit => Inv /\ EnvInv
<1> SUFFICES ASSUME HostInit PROVE Inv /\ EnvInv
  OBVIOUS
<1>1. Inv
  BY InitInv DEF HostInit
<1>2. env = [input_pos |-> 0, out |-> [fd \in {1, 2} |-> <<>>]] /\ received = <<>>
  BY DEF HostInit
<1>3. SubSeq(Input, 1, 0) = <<>>
  BY SubSeqEmpty
<1>4. 0 \in 0 .. Len(Input) /\ <<>> \in Seq(Byte)
  BY InputFacts
<1> QED BY <1>1, <1>2, <1>3, <1>4 DEF EnvInv

\* A host call leaves a machine between two calls.
LEMMA HandleInv ==
    ASSUME Inv, VmInv(vm'), Handle
    PROVE  Inv'
<1>1. call' = Idle /\ image' = image
  BY DEF Handle, Exit, RejectedCall, WriteOk, WriteFailed, ReadOk, Unknown, Handling
<1>2. ret' = ret \/ ret' = Return("writeReg", "ok", NoError)
  BY DEF Handle, Exit, RejectedCall, WriteOk, WriteFailed, ReadOk, Unknown, Resumed
<1>3. ret' \in [call: CallNames, result: Results,
                err: StepErrors \cup {NoError, "InvalidSnapshot", "EndOfStream"}]
  BY <1>2 DEF Inv, TypeOK, Return, CallNames, Results
<1> QED BY <1>1, <1>3, IdleType DEF Inv, TypeOK, VmInv, ReservationOK, CacheOK, ImageRestorable,
           RunQuiet, Idle

LEMMA ReadInv ==
    ASSUME VmInv(vm), EnvInv, ReadOk
    PROVE  EnvInv'
<1> DEFINE pos == env.input_pos
           n   == readLength(a2, pos)
<1>1. /\ n \in Nat /\ env' = [input_pos |-> pos + n, out |-> env.out]
      /\ pos + n \in pos .. Len(Input)
      /\ received' = received \o SubSeq(Input, pos + 1, pos + n)
  BY ReadFacts
<1>2. pos \in 0 .. Len(Input) /\ received = SubSeq(Input, 1, pos) /\ env.out \in [{1, 2} -> Seq(Byte)]
  BY DEF EnvInv
<1> DEFINE j == pos + n
<1>3. Input \in Seq(Byte) /\ 1 \in 1 .. Len(Input) + 1 /\ pos \in 1 - 1 .. Len(Input) /\ j \in pos .. Len(Input)
      /\ j \in 0 .. Len(Input)
  <2>1. Input \in Seq(Byte) /\ Len(Input) \in Nat
    BY InputFacts
  <2>2. pos \in 0 .. Len(Input) /\ j \in pos .. Len(Input)
    BY <1>1, <1>2
  <2> HIDE DEF j, pos
  <2> QED BY <2>1, <2>2
<1>4. SubSeq(Input, 1, pos) \o SubSeq(Input, pos + 1, j) = SubSeq(Input, 1, j)
  <2> HIDE DEF j, pos
  <2> QED BY <1>3, ConcatAdjacentSubSeq
<1>5. received' = SubSeq(Input, 1, j) /\ env' = [input_pos |-> j, out |-> env.out]
  BY <1>1, <1>2, <1>4
<1> HIDE DEF j
<1> QED BY <1>2, <1>3, <1>5 DEF EnvInv

LEMMA WriteInvHost ==
    ASSUME VmInv(vm), EnvInv, WriteOk \/ WriteFailed
    PROVE  EnvInv'
<1>1. PICK n \in 0 .. a2 :
         /\ env' = [input_pos |-> env.input_pos,
                    out |-> [env.out EXCEPT ![a0] = @ \o Bytes(vm.memory, a1, n)]]
         /\ Bytes(vm.memory, a1, n) \in Seq(Byte)
  BY WriteFacts
<1>2. env.out \in [{1, 2} -> Seq(Byte)] /\ a0 \in {1, 2} /\ received' = received
  BY WriteFacts, OtherFacts DEF EnvInv
<1>3. env.out[a0] \o Bytes(vm.memory, a1, n) \in Seq(Byte)
  BY <1>1, <1>2
<1>4. env'.out \in [{1, 2} -> Seq(Byte)]
  BY <1>1, <1>2, <1>3
<1> QED BY <1>1, <1>2, <1>4 DEF EnvInv

LEMMA NextHost ==
    ASSUME Inv, EnvInv, HostNext
    PROVE  /\ Inv' /\ EnvInv'
           /\ KeepsReserved(vm, vm') \/ ret'.call = "restoreSnapshot"
<1>0. VmInv(vm)
  BY DEF Inv
<1>1. CASE ReadOk
  <2>1. VmInv(vm') /\ KeepsReserved(vm, vm')
    BY <1>0, <1>1, ReadFacts
  <2> QED BY <1>0, <1>1, <2>1, ReadInv, HandleInv DEF Handle
<1>2. CASE Exit \/ RejectedCall \/ WriteOk \/ WriteFailed \/ Unknown
  <2>1. VmInv(vm') /\ vm'.memory = vm.memory
    BY <1>0, <1>2, OtherFacts
  <2>2. Inv' /\ KeepsReserved(vm, vm')
    BY <1>2, <2>1, HandleInv DEF Handle, KeepsReserved
  <2>3. CASE WriteOk \/ WriteFailed
    BY <1>0, <2>2, <2>3, WriteInvHost
  <2>4. CASE Exit \/ RejectedCall \/ Unknown
    BY <2>2, <2>4 DEF Exit, RejectedCall, Unknown, EnvInv
  <2> QED BY <1>2, <2>3, <2>4
<1>3. CASE OtherCall
  <2>1. Next /\ env' = env /\ received' = received
    BY <1>3 DEF OtherCall
  <2> QED BY <2>1, NextInv, NextKeepsReserved DEF EnvInv
<1> QED BY <1>1, <1>2, <1>3 DEF HostNext, Handle

LEMMA StutterHost ==
    ASSUME Inv, EnvInv, UNCHANGED hostVars
    PROVE  Inv' /\ EnvInv'
<1>1. UNCHANGED vars /\ env' = env /\ received' = received
  BY DEF hostVars, vars
<1>2. Inv'
  BY <1>1, NextInv
<1> QED BY <1>1, <1>2 DEF EnvInv

LEMMA HostAlways == HostSpec => [](Inv /\ EnvInv)
<1>1. HostInit => Inv /\ EnvInv
  BY InitHost
<1>2. Inv /\ EnvInv /\ [HostNext]_hostVars => (Inv /\ EnvInv)'
  BY NextHost, StutterHost
<1> QED BY <1>1, <1>2, PTL DEF HostSpec


-----------------------------------------------------------------------------
(* The theorems. *)

\* Reads deliver the input once and in order, whatever the guest asks for and
\* whatever the host does between two calls.
THEOREM InputIsReadOnce == HostSpec => []InputReadOnce
<1>1. EnvInv => InputReadOnce
  BY InputFacts DEF EnvInv, InputReadOnce
<1> QED BY <1>1, HostAlways, PTL

LEMMA ArchKept ==
    ASSUME NEW s, NEW t, t.pc = s.pc, t.cycle_count = s.cycle_count, t.mscratch = s.mscratch
    PROVE  Arch(t) = [Arch(s) EXCEPT !.regs = t.regs, !.memory = t.memory,
                                     !.reservation = t.reservation]
<1> DEFINE x == [Arch(s) EXCEPT !.regs = t.regs]
           y == [x EXCEPT !.memory = t.memory]
           z == [y EXCEPT !.reservation = t.reservation]
<1>1. x = [pc |-> s.pc, regs |-> t.regs, memory |-> s.memory, cycle_count |-> s.cycle_count,
           reservation |-> s.reservation, mscratch |-> s.mscratch]
  BY DEF Arch
<1>2. y = [pc |-> s.pc, regs |-> t.regs, memory |-> t.memory, cycle_count |-> s.cycle_count,
           reservation |-> s.reservation, mscratch |-> s.mscratch]
  <2> HIDE DEF x
  <2> QED BY <1>1
<1>3. z = [pc |-> s.pc, regs |-> t.regs, memory |-> t.memory, cycle_count |-> s.cycle_count,
           reservation |-> t.reservation, mscratch |-> s.mscratch]
  <2> HIDE DEF y
  <2> QED BY <1>2
<1>4. z = Arch(t)
  <2> HIDE DEF z
  <2> QED BY <1>3 DEF Arch
<1> QED BY <1>4

\* handle() changes a0 and, for a read, the bytes that took input; it drops a
\* reservation only on a word it overwrote.
THEOREM HandleAlwaysLocal == HostSpec => HandleIsLocal
<1> DEFINE count  == env'.input_pos - env.input_pos
           buffer == a1 .. a1 + count - 1
           Local  == /\ Arch(vm') = [Arch(vm) EXCEPT !.regs = vm'.regs, !.memory = vm'.memory,
                                                     !.reservation = vm'.reservation]
                     /\ \A r \in Regs \ {A0} : vm'.regs[r] = vm.regs[r]
                     /\ outcome' # "resumed" => vm' = vm
                     /\ count # 0 => outcome' = "resumed" /\ vm.regs[A7] = ReadCall
                                     /\ vm'.regs[A0] = count
                     /\ buffer \subseteq Addrs
                     /\ \A x \in Addrs \ buffer : vm'.memory[x] = vm.memory[x]
                     /\ vm'.reservation # vm.reservation =>
                          buffer \cap vm.reservation .. vm.reservation + 3 # {}
<1>1. Inv /\ EnvInv /\ [HostNext]_hostVars => [Handle => Local]_hostVars
  <2> SUFFICES ASSUME Inv, EnvInv, Handle PROVE Local
    OBVIOUS
  <2>0. VmInv(vm) /\ a1 \in Nat /\ env.input_pos \in Nat
    BY ArgumentTypes, InputFacts DEF Inv, EnvInv
  <2>1. CASE ReadOk
    <3> DEFINE n == readLength(a2, env.input_pos)
    <3>1. /\ n \in Nat /\ a1 + n <= MemSize /\ env'.input_pos = env.input_pos + n
          /\ vm'.regs[A0] = n /\ \A r \in Regs \ {A0} : vm'.regs[r] = vm.regs[r]
          /\ vm'.pc = vm.pc /\ vm'.cycle_count = vm.cycle_count /\ vm'.mscratch = vm.mscratch
          /\ \A x \in Addrs \ (a1 .. a1 + n - 1) : vm'.memory[x] = vm.memory[x]
          /\ vm'.reservation # vm.reservation =>
               /\ vm.reservation # NoReservation /\ n # 0
               /\ a1 < vm.reservation + 4 /\ vm.reservation < a1 + n
      BY <2>0, <2>1, ReadFacts
    <3> HIDE DEF n
    <3>2. count = n
      BY <2>0, <3>1
    <3>3. outcome' = "resumed" /\ vm.regs[A7] = ReadCall
      BY <2>1 DEF ReadOk, Resumed, Handling
    <3>4. buffer \subseteq Addrs
      BY <2>0, <3>1, <3>2, Constants DEF Addrs
    <3>5. ASSUME vm'.reservation # vm.reservation
          PROVE  buffer \cap vm.reservation .. vm.reservation + 3 # {}
      <4> DEFINE r == vm.reservation
      <4>1. r \in Nat /\ n # 0 /\ a1 < r + 4 /\ r < a1 + n
        BY <2>0, <3>1, <3>5 DEF VmInv, VM, Word
      <4> HIDE DEF r
      <4>2. CASE a1 <= r
        <5>1. r \in a1 .. a1 + n - 1 /\ r \in r .. r + 3
          BY <2>0, <3>1, <4>1, <4>2
        <5> QED BY <3>2, <5>1 DEF r
      <4>3. CASE r < a1
        <5>1. a1 \in a1 .. a1 + n - 1 /\ a1 \in r .. r + 3
          BY <2>0, <3>1, <4>1, <4>3
        <5> QED BY <3>2, <5>1 DEF r
      <4> QED BY <2>0, <4>1, <4>2, <4>3
    <3>6. Arch(vm') = [Arch(vm) EXCEPT !.regs = vm'.regs, !.memory = vm'.memory,
                                       !.reservation = vm'.reservation]
      BY <3>1, ArchKept
    <3> HIDE DEF count
    <3> QED BY <3>1, <3>2, <3>3, <3>4, <3>5, <3>6
  <2>2. CASE Exit \/ RejectedCall \/ WriteOk \/ WriteFailed \/ Unknown
    <3>1. /\ vm'.memory = vm.memory /\ vm'.reservation = vm.reservation
          /\ vm'.pc = vm.pc /\ vm'.cycle_count = vm.cycle_count /\ vm'.mscratch = vm.mscratch
          /\ \A r \in Regs \ {A0} : vm'.regs[r] = vm.regs[r]
          /\ outcome' # "resumed" => vm' = vm
          /\ env'.input_pos = env.input_pos
      BY <2>0, <2>2, OtherFacts
    <3>2. count = 0 /\ buffer = {}
      BY <2>0, <3>1
    <3>3. Arch(vm') = [Arch(vm) EXCEPT !.regs = vm'.regs, !.memory = vm'.memory,
                                       !.reservation = vm'.reservation]
      BY <3>1, ArchKept
    <3> HIDE DEF count, buffer
    <3> QED BY <3>1, <3>2, <3>3
  <2> QED BY <2>1, <2>2 DEF Handle
<1> QED BY <1>1, HostAlways, PTL DEF HostSpec, HandleIsLocal

\* A write call that was not rejected leaves all of the buffer in its file, or
\* fails after a beginning of it.
LEMMA GrantedWrite ==
    ASSUME VmInv(vm), EnvInv, WriteOk \/ WriteFailed
    PROVE  \E n \in 0 .. a2 :
             /\ \A fd \in {1, 2} :
                  env'.out[fd] = IF fd = a0 THEN env.out[fd] \o Bytes(vm.memory, a1, n)
                                            ELSE env.out[fd]
             /\ \/ outcome' = "resumed" /\ vm'.regs[A0] = a2 /\ n = a2
                \/ outcome' = "WriteFailed" /\ vm' = vm
<1> DEFINE Got(n) == \A fd \in {1, 2} :
                       env'.out[fd] = IF fd = a0 THEN env.out[fd] \o Bytes(vm.memory, a1, n)
                                                 ELSE env.out[fd]
<1>1. PICK n \in 0 .. a2 :
        /\ env' = [input_pos |-> env.input_pos,
                   out |-> [env.out EXCEPT ![a0] = @ \o Bytes(vm.memory, a1, n)]]
        /\ outcome' = "resumed" => n = a2 /\ vm'.regs[A0] = a2
  BY WriteFacts
<1>2. Got(n)
  <2> DEFINE b == Bytes(vm.memory, a1, n)
  <2>1. env'.out = [env.out EXCEPT ![a0] = @ \o b]
    BY <1>1
  <2> HIDE DEF b
  <2>2. \A fd \in {1, 2} : env'.out[fd] = IF fd = a0 THEN env.out[fd] \o b ELSE env.out[fd]
    BY <2>1 DEF EnvInv
  <2> QED BY <2>2 DEF b
<1>3. outcome' = "resumed" \/ (outcome' = "WriteFailed" /\ vm' = vm)
  <2>1. outcome' = "resumed" \/ outcome' = "WriteFailed"
    BY DEF WriteOk, WriteFailed, Resumed
  <2>2. outcome' # "resumed" => vm' = vm
    BY OtherFacts
  <2> QED BY <2>1, <2>2
<1> HIDE DEF Got
<1>4. \E k \in 0 .. a2 : /\ Got(k)
                         /\ \/ outcome' = "resumed" /\ vm'.regs[A0] = a2 /\ k = a2
                            \/ outcome' = "WriteFailed" /\ vm' = vm
  BY <1>1, <1>2, <1>3
<1> QED BY <1>4 DEF Got

\* A rejected call reports an error of its own and appends nothing.
LEMMA RejectedWrite ==
    ASSUME VmInv(vm), RejectedCall
    PROVE  env' = env /\ outcome' = "resumed" /\ vm'.regs[A0] \in {Ebadf, Efault}
<1>1. PICK v \in {Ebadf, Efault} : Resumed(vm, v)
  <2>1. fdError({1, 2}) \in {Ebadf, Efault} /\ fdError({0}) \in {Ebadf, Efault}
    BY DEF fdError
  <2> QED BY <2>1 DEF RejectedCall
<1>2. OnlyLoaded(vm, vm) /\ v \in Word
  BY InputFacts DEF OnlyLoaded
<1>3. vm'.regs[A0] = v
  BY <1>1, <1>2, ResumedFacts
<1> QED BY <1>1, <1>3 DEF RejectedCall, Resumed

\* guestBytes() decides in machine arithmetic whether the buffer lies in memory.
LEMMA BufferInMemory ==
    ASSUME VmInv(vm)
    PROVE  guestBytes(a1, a2) <=> a1 + a2 <= MemSize
  BY ArgumentTypes, Constants DEF guestBytes

\* A granted write appends the guest's whole buffer to its file, or a beginning
\* of it if the writer fails; a call that reports an error appends nothing, nor
\* does any other call.
THEOREM OutputAlwaysGuestMemory == HostSpec => OutputIsGuestMemory
<1> DEFINE asked  == Handle /\ vm.regs[A7] = WriteCall
           Got(n) == \A fd \in {1, 2} :
                        env'.out[fd] = IF fd = a0 THEN env.out[fd] \o Bytes(vm.memory, a1, n)
                                                  ELSE env.out[fd]
           Right  == IF asked /\ a0 \in {1, 2} /\ a1 + a2 <= MemSize
                     THEN \/ outcome' = "resumed" /\ vm'.regs[A0] = a2 /\ Got(a2)
                          \/ outcome' = "WriteFailed" /\ vm' = vm /\ \E n \in 0 .. a2 : Got(n)
                     ELSE /\ env'.out = env.out
                          /\ asked => outcome' = "resumed" /\ vm'.regs[A0] \in {Ebadf, Efault}
<1>1. Inv /\ EnvInv /\ [HostNext]_hostVars => [Right]_hostVars
  <2> SUFFICES ASSUME Inv, EnvInv, HostNext PROVE Right
    OBVIOUS
  <2>0. VmInv(vm) /\ (guestBytes(a1, a2) <=> a1 + a2 <= MemSize)
    BY BufferInMemory DEF Inv
  <2>1. CASE WriteOk \/ WriteFailed
    <3>1. asked /\ a0 \in {1, 2} /\ a1 + a2 <= MemSize
      BY <2>0, <2>1, WriteFacts DEF Handle
    <3>2. \E n \in 0 .. a2 : /\ Got(n)
                              /\ \/ outcome' = "resumed" /\ vm'.regs[A0] = a2 /\ n = a2
                                 \/ outcome' = "WriteFailed" /\ vm' = vm
      BY <2>0, <2>1, GrantedWrite
    <3> HIDE DEF asked, Got
    <3> QED BY <3>1, <3>2
  <2>2. CASE RejectedCall
    <3>1. env' = env /\ outcome' = "resumed" /\ vm'.regs[A0] \in {Ebadf, Efault}
      BY <2>0, <2>2, RejectedWrite
    <3>2. ~(asked /\ a0 \in {1, 2} /\ a1 + a2 <= MemSize)
      <4>1. vm.regs[A7] = WriteCall => rejected({1, 2})
        BY <2>2, HostCallAssumption DEF RejectedCall, Handling
      <4> QED BY <2>0, <4>1 DEF rejected
    <3> HIDE DEF asked, Got
    <3> QED BY <3>1, <3>2
  <2>3. CASE ReadOk \/ Exit \/ Unknown \/ OtherCall
    <3>1. ~asked
      <4>1. CASE OtherCall
        BY <4>1 DEF OtherCall, Handle, Exit, RejectedCall, WriteOk, WriteFailed, ReadOk, Unknown,
                     Resumed
      <4>2. CASE ReadOk \/ Exit \/ Unknown
        BY <4>2, HostCallAssumption DEF ReadOk, Exit, Unknown, Handling
      <4> QED BY <2>3, <4>1, <4>2
    <3>2. env'.out = env.out
      <4>1. CASE ReadOk
        <5>1. PICK p : env' = [input_pos |-> p, out |-> env.out]
          BY <2>0, <4>1, ReadFacts
        <5> QED BY <5>1
      <4>2. CASE Exit \/ Unknown \/ OtherCall
        BY <4>2 DEF Exit, Unknown, OtherCall
      <4> QED BY <2>3, <4>1, <4>2
    <3> HIDE DEF asked, Got
    <3> QED BY <3>1, <3>2
  <2> QED BY <2>1, <2>2, <2>3 DEF HostNext, Handle
<1> QED BY <1>1, HostAlways, PTL DEF HostSpec, OutputIsGuestMemory

\* A host call respects the reservation: a word a read overwrites is no longer
\* reserved.
THEOREM HostCallsKeepReservedWord == HostSpec => ReservedWordStable
<1> DEFINE A == /\ vm.reservation # NoReservation
                /\ vm'.reservation = vm.reservation
                /\ ret'.call # "restoreSnapshot"
                => WordAt(vm'.memory, vm.reservation) = WordAt(vm.memory, vm.reservation)
<1>1. Inv /\ EnvInv /\ [HostNext]_hostVars => [A]_vars
  <2> SUFFICES ASSUME Inv, EnvInv, [HostNext]_hostVars PROVE A \/ UNCHANGED vars
    OBVIOUS
  <2>1. CASE HostNext
    BY <2>1, NextHost DEF KeepsReserved
  <2>2. CASE UNCHANGED hostVars
    BY <2>2 DEF hostVars, vars
  <2> QED BY <2>1, <2>2
<1> QED BY <1>1, HostAlways, PTL DEF HostSpec, ReservedWordStable

=============================================================================
