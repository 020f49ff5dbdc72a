---------------------------- MODULE LoaderProofs ----------------------------
(***************************************************************************)
(* loadElf() of module Loader, for every file and every machine: a         *)
(* rejected image leaves the machine as it was, a loaded one is in memory, *)
(* and no call it makes fails where the code says unreachable.             *)
(***************************************************************************)
EXTENDS CpuProofs, Loader, SequenceTheorems

-----------------------------------------------------------------------------
(* The inductive invariant: what each of the three loops has established   *)
(* for the headers before its index, and the loops before it for all.      *)

\* The headers 1 .. n that are segments to load fit the file, and the memory.
FitsFile(f, n) == \A i \in 1 .. n : f.ph[i].pt_load => ~segmentInvalid(f, f.ph[i])
FitsMemory(f, n) == \A i \in 1 .. n : f.ph[i].pt_load => ~outsideMemory(f.ph[i])

\* What the segment s of f puts at the address x.
Covers(s, x) == s.pt_load /\ s.vaddr <= x /\ x < s.vaddr + s.memsz
SegByte(f, s, x) == IF x - s.vaddr < s.filesz THEN f.bytes[s.offset + (x - s.vaddr) + 1] ELSE 0

\* i is the last of the headers 1 .. n that covers x.
LastCover(f, n, i, x) ==
    i \in 1 .. n /\ Covers(f.ph[i], x) /\ \A j \in i + 1 .. n : ~Covers(f.ph[j], x)

\* The memory m is k with the segments 1 .. n of f copied in their order.
Landed(f, n, k, m) ==
    \A x \in Addrs :
        /\ (\A i \in 1 .. n : ~Covers(f.ph[i], x)) => m[x] = k[x]
        /\ \A i \in 1 .. n : LastCover(f, n, i, x) => m[x] = SegByte(f, f.ph[i], x)
        /\ (\E i \in 1 .. n : Covers(f.ph[i], x)) => \E i \in 1 .. n : LastCover(f, n, i, x)

\* The states of the loops.
Loading ==
    /\ elf.file \in Files /\ ~headerInvalid(elf.file)
    /\ elf.index \in 0 .. elf.file.phnum
    /\ elf.result = "none"
    /\ elf.phase \in {"parse", "check"} => vm = before
    /\ FitsFile(elf.file, IF elf.phase = "parse" THEN elf.index ELSE elf.file.phnum)
    /\ elf.phase = "check" => FitsMemory(elf.file, elf.index)
    /\ elf.phase = "copy" =>
         /\ FitsMemory(elf.file, elf.file.phnum)
         /\ Landed(elf.file, elf.index, before.memory, vm.memory)
         /\ OnlyLoaded(before, vm)

\* The states between two calls of loadElf().
Loaded ==
    /\ elf.result \in {"none", "InvalidElf", "AddressOutOfBounds", "ok"}
    /\ elf.result \in {"InvalidElf", "AddressOutOfBounds"} => vm = before
    /\ elf.result = "ok" =>
         /\ Landed(elf.file, elf.file.phnum, before.memory, vm.memory)
         /\ OnlyLoaded(before, vm)

LoadInv ==
    /\ elf = [phase |-> elf.phase, file |-> elf.file, index |-> elf.index, result |-> elf.result]
    /\ elf.phase \in {"idle", "parse", "check", "copy"}
    /\ VmInv(before)
    /\ elf.phase # "idle" => Loading
    /\ elf.phase = "idle" => Loaded


-----------------------------------------------------------------------------
(* One segment. *)

LEMMA FileFacts ==
    ASSUME NEW f \in Files
    PROVE  /\ f.len \in Nat /\ f.phoff \in Nat /\ f.phentsize \in Nat /\ f.phnum \in Nat
           /\ f.ph \in Seq(Segment) /\ Len(f.ph) = f.phnum
           /\ f.bytes \in Seq(Byte) /\ Len(f.bytes) = f.len
           /\ \A i \in 1 .. f.phnum : f.ph[i] \in Segment
  BY LoaderAssumption DEF File, Half, Word

\* The bytes of a segment that fits the file are filesz bytes of it.
LEMMA FileBytes ==
    ASSUME NEW f \in Files, NEW s \in Segment, ~segmentInvalid(f, s)
    PROVE  /\ fileBytes(f, s) \in Seq(Byte) /\ Len(fileBytes(f, s)) = s.filesz
           /\ \A k \in 1 .. s.filesz : fileBytes(f, s)[k] = f.bytes[s.offset + k]
           /\ s.filesz <= s.memsz
<1>1. /\ s.offset \in Nat /\ s.filesz \in Nat /\ s.memsz \in Nat
      /\ s.offset + s.filesz <= f.len /\ s.filesz <= s.memsz
  BY FileFacts DEF segmentInvalid, Segment, Word
<1>2. f.bytes \in Seq(Byte) /\ Len(f.bytes) = f.len
  BY FileFacts
<1> DEFINE m == s.offset + 1
           n == s.offset + s.filesz
           sub == SubSeq(f.bytes, m, n)
<1>3. m \in Int /\ n \in Int /\ \A k \in m .. n : f.bytes[k] \in Byte
  BY <1>1, <1>2
<1>4. n - m + 1 = s.filesz /\ (IF m <= n THEN n - m + 1 ELSE 0) = s.filesz
  BY <1>1
<1>5. \A k \in 1 .. s.filesz : m + k - 1 = s.offset + k
  BY <1>1
<1>6. fileBytes(f, s) = sub
  BY DEF fileBytes
<1> HIDE DEF m, n
<1>7. /\ sub \in Seq(Byte) /\ Len(sub) = IF m <= n THEN n - m + 1 ELSE 0
      /\ \A k \in 1 .. n - m + 1 : sub[k] = f.bytes[m + k - 1]
  BY <1>3, SubSeqProperties
<1> HIDE DEF sub
<1>8. Len(sub) = s.filesz
  BY <1>4, <1>7
<1>9. ASSUME NEW k \in 1 .. s.filesz PROVE sub[k] = f.bytes[s.offset + k]
  BY <1>4, <1>5, <1>7
<1> QED BY <1>1, <1>6, <1>7, <1>8, <1>9

\* The third loop copies a segment that passed both checks: its bytes and its
\* zeros land, and nothing else changes but a dropped reservation.
LEMMA CopiedEffect ==
    ASSUME VmInv(vm), NEW f \in Files, NEW s \in Segment, s.pt_load,
           ~segmentInvalid(f, s), ~outsideMemory(s)
    PROVE  /\ VmInv(copied(f, s)) /\ KeepsReserved(vm, copied(f, s))
           /\ OnlyLoaded(vm, copied(f, s))
           /\ \A x \in Addrs : copied(f, s).memory[x] =
                IF Covers(s, x) THEN SegByte(f, s, x) ELSE vm.memory[x]
           /\ loadProgram(vm, [at |-> s.vaddr, bytes |-> fileBytes(f, s)]).err = NoError
<1> DEFINE p == [at |-> s.vaddr, bytes |-> fileBytes(f, s)]
           r == loadProgram(vm, p)
           z == [x \in Addrs |-> IF s.vaddr + s.filesz <= x /\ x < s.vaddr + s.memsz
                                 THEN 0 ELSE r.vm.memory[x]]
           t == [r.vm EXCEPT !.memory = z]
           u == [t EXCEPT !.reservation = NoReservation]
           c == copied(f, s)
<1>1. /\ s.vaddr \in Word /\ s.vaddr \in Nat /\ s.filesz \in Nat /\ s.memsz \in Nat
      /\ s.offset \in Nat
  BY DEF Segment, Word
<1>2. /\ fileBytes(f, s) \in Seq(Byte) /\ Len(fileBytes(f, s)) = s.filesz /\ s.filesz <= s.memsz
      /\ \A k \in 1 .. s.filesz : fileBytes(f, s)[k] = f.bytes[s.offset + k]
  BY FileBytes
<1>3. s.vaddr + s.memsz <= MemSize
  BY <1>1, Constants DEF outsideMemory
<1>4. p \in [at: Word, bytes: Seq(Byte)] /\ p.at + Len(p.bytes) <= MemSize
      /\ p.at = s.vaddr /\ p.bytes = fileBytes(f, s)
  BY <1>1, <1>2, <1>3, Constants
<1> HIDE DEF p
<1>5. /\ r.err = NoError /\ OnlyLoaded(vm, r.vm)
      /\ r.vm.memory = [x \in Addrs |-> IF p.at <= x /\ x < p.at + Len(p.bytes)
                                        THEN p.bytes[x - p.at + 1] ELSE vm.memory[x]]
  BY <1>4, LoadProgramEffect
<1>6. VmInv(r.vm) /\ KeepsReserved(vm, r.vm)
  BY <1>4, LoadProgramInv, LoadProgramKeepsReserved
<1>7. \A x \in Addrs : r.vm.memory[x] =
         IF s.vaddr <= x /\ x < s.vaddr + s.filesz
         THEN f.bytes[s.offset + (x - s.vaddr) + 1] ELSE vm.memory[x]
  <2> SUFFICES ASSUME NEW x \in Addrs
               PROVE  r.vm.memory[x] = IF s.vaddr <= x /\ x < s.vaddr + s.filesz
                                       THEN f.bytes[s.offset + (x - s.vaddr) + 1] ELSE vm.memory[x]
    OBVIOUS
  <2>1. x \in Nat
    BY DEF Addrs
  <2>2. r.vm.memory[x] = IF s.vaddr <= x /\ x < s.vaddr + s.filesz
                         THEN fileBytes(f, s)[x - s.vaddr + 1] ELSE vm.memory[x]
    BY <1>2, <1>4, <1>5
  <2>3. CASE s.vaddr <= x /\ x < s.vaddr + s.filesz
    <3>1. x - s.vaddr + 1 \in 1 .. s.filesz
          /\ s.offset + (x - s.vaddr) + 1 = s.offset + (x - s.vaddr + 1)
      BY <1>1, <2>1, <2>3
    <3> QED BY <1>2, <2>2, <2>3, <3>1
  <2> QED BY <2>2, <2>3
<1> HIDE DEF r
<1>8. CASE s.memsz > s.filesz
  <2>1. c = u
    BY <1>8 DEF copied, zeroFill, r, p
  <2>2. z \in [Addrs -> Byte]
    BY <1>6, Constants DEF VmInv, VM
  <2>3. /\ t \in VM /\ t.memory = z /\ OnlyLoaded(vm, t) /\ VmInv(t)
    <3> HIDE DEF z
    <3> QED BY <1>5, <1>6, <2>2 DEF VmInv, VM, OnlyLoaded, ReservationOK, CacheOK
  <2>4. VmInv(u)
    BY <2>3, DropReservation
  <2>5. u.memory = z /\ u.reservation = NoReservation /\ OnlyLoaded(vm, u)
    <3> HIDE DEF t, z
    <3> QED BY <2>3 DEF VM, OnlyLoaded
  <2>6. KeepsReserved(vm, u)
    BY <2>5 DEF KeepsReserved
  <2>7. \A x \in Addrs : z[x] = IF Covers(s, x) THEN SegByte(f, s, x) ELSE vm.memory[x]
    BY <1>1, <1>2, <1>7 DEF Covers, SegByte, Addrs
  <2> HIDE DEF u, z
  <2> QED BY <1>5, <2>1, <2>4, <2>5, <2>6, <2>7 DEF r, p
<1>9. CASE s.memsz = s.filesz
  <2>1. c = r.vm
    BY <1>1, <1>9 DEF copied, zeroFill, r, p
  <2>2. \A x \in Addrs : r.vm.memory[x] = IF Covers(s, x) THEN SegByte(f, s, x) ELSE vm.memory[x]
    BY <1>1, <1>7, <1>9 DEF Covers, SegByte, Addrs
  <2> QED BY <1>5, <1>6, <2>1, <2>2 DEF r, p
<1> QED BY <1>1, <1>2, <1>8, <1>9


-----------------------------------------------------------------------------
(* The loops. *)

\* One more segment: the last cover of an address it covers is the new one, of
\* any other address it is the old one.
LEMMA LandedStep ==
    ASSUME NEW f, NEW n \in Nat, NEW k, NEW m, NEW w, Landed(f, n, k, m),
           \A x \in Addrs : w[x] = IF Covers(f.ph[n + 1], x)
                                   THEN SegByte(f, f.ph[n + 1], x) ELSE m[x]
    PROVE  Landed(f, n + 1, k, w)
<1> SUFFICES ASSUME NEW x \in Addrs
             PROVE  /\ (\A i \in 1 .. n + 1 : ~Covers(f.ph[i], x)) => w[x] = k[x]
                    /\ \A i \in 1 .. n + 1 : LastCover(f, n + 1, i, x) => w[x] = SegByte(f, f.ph[i], x)
                    /\ (\E i \in 1 .. n + 1 : Covers(f.ph[i], x)) =>
                          \E i \in 1 .. n + 1 : LastCover(f, n + 1, i, x)
  BY DEF Landed
<1>1. \A i : i \in 1 .. n + 1 <=> i \in 1 .. n \/ i = n + 1
  OBVIOUS
<1>2. CASE Covers(f.ph[n + 1], x)
  <2>1. w[x] = SegByte(f, f.ph[n + 1], x)
    BY <1>2
  <2>2. \A i \in 1 .. n : n + 1 \in i + 1 .. n + 1
    OBVIOUS
  <2>3. n + 1 + 1 .. n + 1 = {}
    OBVIOUS
  <2>4. LastCover(f, n + 1, n + 1, x)
    BY <1>1, <1>2, <2>3 DEF LastCover
  <2>5. \A i \in 1 .. n : ~LastCover(f, n + 1, i, x)
    BY <1>2, <2>2 DEF LastCover
  <2> QED BY <1>1, <1>2, <2>1, <2>4, <2>5
<1>3. CASE ~Covers(f.ph[n + 1], x)
  <2>1. w[x] = m[x]
    BY <1>3
  <2>2. \A i \in 1 .. n : \A j : j \in i + 1 .. n + 1 <=> j \in i + 1 .. n \/ j = n + 1
    OBVIOUS
  <2>3. \A i \in 1 .. n : LastCover(f, n + 1, i, x) <=> LastCover(f, n, i, x)
    BY <1>1, <1>3, <2>2 DEF LastCover
  <2>4. ~LastCover(f, n + 1, n + 1, x)
    BY <1>3 DEF LastCover
  <2>5. /\ (\A i \in 1 .. n : ~Covers(f.ph[i], x)) => m[x] = k[x]
        /\ \A i \in 1 .. n : LastCover(f, n, i, x) => m[x] = SegByte(f, f.ph[i], x)
        /\ (\E i \in 1 .. n : Covers(f.ph[i], x)) => \E i \in 1 .. n : LastCover(f, n, i, x)
    BY DEF Landed
  <2> QED BY <1>1, <1>3, <2>1, <2>3, <2>4, <2>5
<1> QED BY <1>2, <1>3

LEMMA LandedNothing ==
    ASSUME NEW f, NEW k
    PROVE  Landed(f, 0, k, k)
  BY DEF Landed

LEMMA FitsNothing ==
    ASSUME NEW f
    PROVE  FitsFile(f, 0) /\ FitsMemory(f, 0)
  BY DEF FitsFile, FitsMemory

\* One more header that is no segment, or that passed the check.
LEMMA FitsStep ==
    ASSUME NEW f, NEW n \in Nat
    PROVE  /\ FitsFile(f, n) /\ (f.ph[n + 1].pt_load => ~segmentInvalid(f, f.ph[n + 1]))
                => FitsFile(f, n + 1)
           /\ FitsMemory(f, n) /\ (f.ph[n + 1].pt_load => ~outsideMemory(f.ph[n + 1]))
                => FitsMemory(f, n + 1)
<1>1. \A i \in 1 .. n + 1 : i \in 1 .. n \/ i = n + 1
  OBVIOUS
<1> QED BY <1>1 DEF FitsFile, FitsMemory

LEMMA OnlyLoadedTransitive ==
    ASSUME NEW k, NEW s, NEW t, OnlyLoaded(k, s), OnlyLoaded(s, t)
    PROVE  OnlyLoaded(k, t)
  BY DEF OnlyLoaded

LEMMA InitLoad == LoaderInit => Inv /\ LoadInv
<1> SUFFICES ASSUME LoaderInit PROVE Inv /\ LoadInv
  OBVIOUS
<1>1. Inv
  BY InitInv DEF LoaderInit
<1> QED BY <1>1, PowerOnInv DEF LoaderInit, LoadInv, Loaded, NotLoading

\* A step that leaves the machine and what the last call returned well typed.
LEMMA LoaderKeepsInv ==
    ASSUME Inv, VmInv(vm'), call' = call, image' = image,
           ret' = ret \/ ret' = Return("loadProgram", "ok", NoError)
    PROVE  Inv'
<1>1. ret' \in [call: CallNames, result: Results,
                err: StepErrors \cup {NoError, "InvalidSnapshot", "EndOfStream"}]
  BY DEF Inv, TypeOK, Return, CallNames, Results
<1>2. ret'.err = ret.err \/ ret'.err = NoError
  BY DEF Return
<1> QED BY <1>1, <1>2 DEF Inv, TypeOK, VmInv, ReservationOK, CacheOK, ImageRestorable, RunQuiet


\* The header at index is one of the file's.
LEMMA AtHeader ==
    ASSUME LoadInv, elf.phase # "idle", elf.index < elf.file.phnum
    PROVE  /\ elf.file \in Files /\ elf.index \in Nat
           /\ elf.index + 1 \in 1 .. elf.file.phnum /\ elf.index + 1 \in 0 .. elf.file.phnum
           /\ segment \in Segment
<1>1. elf.file \in Files /\ elf.index \in 0 .. elf.file.phnum
  BY DEF LoadInv, Loading
<1>2. elf.file.phnum \in Nat /\ \A i \in 1 .. elf.file.phnum : elf.file.ph[i] \in Segment
  BY <1>1, FileFacts
<1>3. elf.index + 1 \in 1 .. elf.file.phnum /\ elf.index + 1 \in 0 .. elf.file.phnum
  BY <1>1, <1>2
<1> QED BY <1>1, <1>2, <1>3 DEF segment

\* The fields of elf after a visit.
LEMMA VisitedFields ==
    ASSUME LoadInv, Visited
    PROVE  /\ elf'.phase = elf.phase /\ elf'.file = elf.file /\ elf'.result = elf.result
           /\ elf'.index = elf.index + 1
           /\ elf' = [phase |-> elf.phase, file |-> elf.file, index |-> elf.index + 1,
                      result |-> elf.result]
<1>1. elf = [phase |-> elf.phase, file |-> elf.file, index |-> elf.index, result |-> elf.result]
  BY DEF LoadInv
<1>2. elf' = [phase |-> elf.phase, file |-> elf.file, index |-> elf.index + 1,
              result |-> elf.result]
  BY <1>1 DEF Visited
<1> QED BY <1>2

\* A visit keeps the loop's state if the header passes the loop's check and, in
\* the third loop, lands.
LEMMA VisitLoad ==
    ASSUME LoadInv, elf.phase # "idle", elf.index < elf.file.phnum, Visited, before' = before,
           elf.phase \in {"parse", "check"} => vm' = vm,
           elf.phase = "parse" => (segment.pt_load => ~segmentInvalid(elf.file, segment)),
           elf.phase = "check" => (segment.pt_load => ~outsideMemory(segment)),
           elf.phase = "copy" =>
             /\ OnlyLoaded(vm, vm')
             /\ \A x \in Addrs : vm'.memory[x] =
                  IF Covers(segment, x) THEN SegByte(elf.file, segment, x) ELSE vm.memory[x]
    PROVE  LoadInv'
<1> DEFINE f == elf.file
           n == elf.index
<1>0. Loading /\ elf.phase \in {"parse", "check", "copy"}
  BY DEF LoadInv
<1>1. f \in Files /\ n \in Nat /\ n + 1 \in 0 .. f.phnum
  BY AtHeader
<1>2. /\ elf'.phase = elf.phase /\ elf'.file = f /\ elf'.result = elf.result /\ elf'.index = n + 1
      /\ elf' = [phase |-> elf.phase, file |-> f, index |-> n + 1, result |-> elf.result]
  BY VisitedFields
<1>3. segment = f.ph[n + 1]
  BY DEF segment
<1>4. ASSUME elf.phase = "parse" PROVE FitsFile(f, n + 1)
  BY <1>0, <1>1, <1>3, <1>4, FitsStep DEF Loading
<1>5. ASSUME elf.phase = "check" PROVE FitsMemory(f, n + 1)
  BY <1>0, <1>1, <1>3, <1>5, FitsStep DEF Loading
<1>6. ASSUME elf.phase = "copy"
      PROVE  Landed(f, n + 1, before.memory, vm'.memory) /\ OnlyLoaded(before, vm')
  <2>1. Landed(f, n, before.memory, vm.memory) /\ OnlyLoaded(before, vm)
    BY <1>0, <1>6 DEF Loading
  <2>2. OnlyLoaded(before, vm')
    BY <1>6, <2>1, OnlyLoadedTransitive
  <2>3. \A x \in Addrs : vm'.memory[x] = IF Covers(f.ph[n + 1], x)
                                         THEN SegByte(f, f.ph[n + 1], x) ELSE vm.memory[x]
    BY <1>3, <1>6
  <2> HIDE DEF f, n
  <2>4. Landed(f, n + 1, before.memory, vm'.memory)
    BY <1>1, <2>1, <2>3, LandedStep
  <2> QED BY <2>2, <2>4
<1>7. Loading'
  <2>1. /\ elf'.file \in Files /\ ~headerInvalid(elf'.file)
        /\ elf'.index \in 0 .. elf'.file.phnum /\ elf'.result = "none"
    BY <1>0, <1>1, <1>2 DEF Loading
  <2>2. elf'.phase \in {"parse", "check"} => vm' = before'
    BY <1>0, <1>2 DEF Loading
  <2>3. FitsFile(elf'.file, IF elf'.phase = "parse" THEN elf'.index ELSE elf'.file.phnum)
    BY <1>0, <1>2, <1>4 DEF Loading
  <2>4. elf'.phase = "check" => FitsMemory(elf'.file, elf'.index)
    BY <1>2, <1>5
  <2>5. elf'.phase = "copy" =>
          /\ FitsMemory(elf'.file, elf'.file.phnum)
          /\ Landed(elf'.file, elf'.index, before'.memory, vm'.memory)
          /\ OnlyLoaded(before', vm')
    BY <1>0, <1>2, <1>6 DEF Loading
  <2> QED BY <2>1, <2>2, <2>3, <2>4, <2>5 DEF Loading
<1>8. VmInv(before')
  BY DEF LoadInv
<1> QED BY <1>0, <1>2, <1>7, <1>8 DEF LoadInv

\* What loadElf() returns is true of the machine.
LEMMA ReturnsLoad ==
    ASSUME LoadInv, elf.phase \in {"parse", "check"}, vm' = vm,
           NEW result \in {"InvalidElf", "AddressOutOfBounds"}, Returns(result)
    PROVE  LoadInv'
<1>1. elf = [phase |-> elf.phase, file |-> elf.file, index |-> elf.index, result |-> elf.result]
  BY DEF LoadInv
<1>2. elf' = [phase |-> "idle", file |-> elf.file, index |-> elf.index, result |-> result]
  BY <1>1 DEF Returns
<1>3. vm' = before' /\ VmInv(before')
  BY DEF LoadInv, Loading, Returns
<1> QED BY <1>2, <1>3 DEF LoadInv, Loaded

LEMMA LoadElfLoad ==
    ASSUME Inv, LoadInv, NEW f \in Files, LoadElf(f)
    PROVE  LoadInv'
<1>1. VmInv(before') /\ vm' = before'
  BY DEF LoadElf, Inv
<1>2. CASE headerInvalid(f)
  <2>1. elf' = [phase |-> "idle", file |-> f, index |-> 0, result |-> "InvalidElf"]
    BY <1>2 DEF LoadElf
  <2> QED BY <1>1, <2>1 DEF LoadInv, Loaded
<1>3. CASE ~headerInvalid(f)
  <2>1. elf' = [phase |-> "parse", file |-> f, index |-> 0, result |-> "none"]
    BY <1>3 DEF LoadElf
  <2>2. 0 \in 0 .. f.phnum
    BY FileFacts
  <2>3. Loading'
    BY <1>1, <1>3, <2>1, <2>2, FitsNothing DEF Loading
  <2> QED BY <1>1, <2>1, <2>3 DEF LoadInv
<1> QED BY <1>2, <1>3

\* The end of a loop: its check holds of every header.
LEMMA LoopEndsLoad ==
    ASSUME LoadInv, LoopEnds
    PROVE  LoadInv'
<1> DEFINE f == elf.file
           next(p, r) == [phase |-> p, file |-> f, index |-> 0, result |-> r]
<1>0. /\ Loading /\ elf.index = f.phnum /\ vm' = vm /\ before' = before /\ VmInv(before')
      /\ elf.phase \in {"parse", "check", "copy"}
  BY DEF LoadInv, LoopEnds, vars
<1>1. elf' = [phase |-> nextPhase(elf.phase), file |-> f, index |-> 0,
              result |-> IF nextPhase(elf.phase) = "idle" THEN "ok" ELSE "none"]
  <2>1. elf = [phase |-> elf.phase, file |-> elf.file, index |-> elf.index, result |-> elf.result]
    BY DEF LoadInv
  <2> QED BY <2>1 DEF LoopEnds
<1>2. 0 \in 0 .. f.phnum
  BY <1>0, FileFacts DEF Loading
<1>3. CASE elf.phase = "parse"
  <2>1. elf' = next("check", "none")
    BY <1>1, <1>3 DEF nextPhase
  <2>2. FitsFile(f, f.phnum)
    BY <1>0, <1>3 DEF Loading
  <2>3. Loading'
    BY <1>0, <1>2, <1>3, <2>1, <2>2, FitsNothing DEF Loading
  <2> QED BY <1>0, <2>1, <2>3 DEF LoadInv
<1>4. CASE elf.phase = "check"
  <2>1. elf' = next("copy", "none")
    BY <1>1, <1>4 DEF nextPhase
  <2>2. FitsFile(f, f.phnum) /\ FitsMemory(f, f.phnum) /\ vm' = before'
    BY <1>0, <1>4 DEF Loading
  <2>3. Landed(f, 0, before'.memory, vm'.memory) /\ OnlyLoaded(before', vm')
    BY <2>2, LandedNothing DEF OnlyLoaded
  <2>4. Loading'
    BY <1>0, <1>2, <1>4, <2>1, <2>2, <2>3 DEF Loading
  <2> QED BY <1>0, <2>1, <2>4 DEF LoadInv
<1>5. CASE elf.phase = "copy"
  <2>1. elf' = next("idle", "ok")
    BY <1>1, <1>5 DEF nextPhase
  <2>2. Landed(f, f.phnum, before'.memory, vm'.memory) /\ OnlyLoaded(before', vm')
    BY <1>0, <1>5 DEF Loading
  <2> QED BY <1>0, <2>1, <2>2 DEF LoadInv, Loaded
<1> QED BY <1>0, <1>3, <1>4, <1>5


LEMMA NextLoad ==
    ASSUME Inv, LoadInv, LoaderNext
    PROVE  /\ Inv' /\ LoadInv'
           /\ KeepsReserved(vm, vm') \/ ret'.call = "restoreSnapshot"
<1>0. VmInv(vm) /\ (vm' = vm => VmInv(vm')) /\ (vm' = vm => KeepsReserved(vm, vm'))
  BY DEF Inv, KeepsReserved
<1>1. ASSUME NEW f \in Files, LoadElf(f) PROVE Inv' /\ LoadInv' /\ KeepsReserved(vm, vm')
  <2>1. Inv' /\ KeepsReserved(vm, vm')
    BY <1>0, <1>1, LoaderKeepsInv DEF LoadElf
  <2> QED BY <1>1, <2>1, LoadElfLoad
<1>2. CASE OtherSegment
  <2>1. vm' = vm /\ call' = call /\ ret' = ret /\ image' = image /\ before' = before
    BY <1>2 DEF OtherSegment, vars
  <2>2. Inv' /\ KeepsReserved(vm, vm')
    BY <1>0, <2>1, LoaderKeepsInv
  <2>3. elf.phase # "idle" /\ elf.index < elf.file.phnum /\ Visited /\ ~segment.pt_load
    BY <1>2 DEF OtherSegment
  <2>4. OnlyLoaded(vm, vm') /\ \A x : ~Covers(segment, x)
    BY <2>1, <2>3 DEF OnlyLoaded, Covers
  <2>5. LoadInv'
    BY <2>1, <2>3, <2>4, VisitLoad
  <2> QED BY <2>2, <2>5
<1>3. CASE Reject
  <2>1. PICK result \in {"InvalidElf", "AddressOutOfBounds"} :
          elf.phase \in {"parse", "check"} /\ Returns(result)
    BY <1>3 DEF Reject, AtSegment
  <2>2. vm' = vm
    BY <1>3 DEF Reject
  <2>3. Inv' /\ KeepsReserved(vm, vm')
    BY <1>0, <2>1, <2>2, LoaderKeepsInv DEF Returns
  <2> QED BY <2>1, <2>2, <2>3, ReturnsLoad
<1>4. CASE Accept
  <2>1. vm' = vm /\ call' = call /\ ret' = ret /\ image' = image /\ before' = before
    BY <1>4 DEF Accept, vars
  <2>2. Inv' /\ KeepsReserved(vm, vm')
    BY <1>0, <2>1, LoaderKeepsInv
  <2>3. /\ elf.phase \in {"parse", "check"} /\ elf.index < elf.file.phnum /\ Visited
        /\ elf.phase = "parse" => ~segmentInvalid(elf.file, segment)
        /\ elf.phase = "check" => ~outsideMemory(segment)
    BY <1>4 DEF Accept, AtSegment
  <2>4. LoadInv'
    BY <2>1, <2>3, VisitLoad
  <2> QED BY <2>2, <2>4
<1>5. CASE Copy
  <2>1. /\ elf.phase = "copy" /\ elf.index < elf.file.phnum /\ segment.pt_load
        /\ Visited /\ vm' = copied(elf.file, segment)
        /\ call' = call /\ ret' = ret /\ image' = image /\ before' = before
    BY <1>5 DEF Copy, AtSegment
  <2>2. elf.file \in Files /\ segment \in Segment /\ elf.index + 1 \in 1 .. elf.file.phnum
    BY <2>1, AtHeader
  <2>3. ~segmentInvalid(elf.file, segment) /\ ~outsideMemory(segment)
    BY <2>1, <2>2 DEF LoadInv, Loading, FitsFile, FitsMemory, segment
  <2>4. /\ VmInv(vm') /\ KeepsReserved(vm, vm') /\ OnlyLoaded(vm, vm')
        /\ \A x \in Addrs : vm'.memory[x] =
             IF Covers(segment, x) THEN SegByte(elf.file, segment, x) ELSE vm.memory[x]
    BY <1>0, <2>1, <2>2, <2>3, CopiedEffect
  <2>5. Inv'
    BY <2>1, <2>4, LoaderKeepsInv
  <2>6. LoadInv'
    BY <2>1, <2>4, VisitLoad
  <2> QED BY <2>4, <2>5, <2>6
<1>6. CASE LoopEnds
  <2>1. vm' = vm /\ call' = call /\ ret' = ret /\ image' = image
    BY <1>6 DEF LoopEnds, vars
  <2>2. Inv' /\ KeepsReserved(vm, vm')
    BY <1>0, <2>1, LoaderKeepsInv
  <2> QED BY <1>6, <2>2, LoopEndsLoad
<1>7. CASE BetweenLoads
  <2>1. Next /\ elf' = NotLoading("none") /\ before' = before
    BY <1>7 DEF BetweenLoads
  <2>2. Inv'
    BY <2>1, NextInv
  <2>3. LoadInv'
    BY <2>1 DEF LoadInv, Loaded, NotLoading
  <2> QED BY <2>1, <2>2, <2>3, NextKeepsReserved
<1> QED BY <1>1, <1>2, <1>3, <1>4, <1>5, <1>6, <1>7 DEF LoaderNext, Loop

LEMMA StutterLoad ==
    ASSUME Inv, LoadInv, UNCHANGED loaderVars
    PROVE  Inv' /\ LoadInv'
<1>1. vm' = vm /\ call' = call /\ ret' = ret /\ image' = image /\ elf' = elf /\ before' = before
  BY DEF loaderVars
<1>2. Inv'
  BY <1>1, LoaderKeepsInv DEF Inv
<1>3. LoadInv'
  BY <1>1 DEF LoadInv, Loading, Loaded
<1> QED BY <1>2, <1>3

LEMMA LoadAlways == LoaderSpec => [](Inv /\ LoadInv)
<1>1. LoaderInit => Inv /\ LoadInv
  BY InitLoad
<1>2. Inv /\ LoadInv /\ [LoaderNext]_loaderVars => (Inv /\ LoadInv)'
  BY NextLoad, StutterLoad
<1> QED BY <1>1, <1>2, PTL DEF LoaderSpec

-----------------------------------------------------------------------------
(* The theorems. *)

\* "A rejected image leaves the VM unchanged", whichever header is the bad one:
\* both checking loops end before the first byte is copied.
THEOREM RejectedImagesChangeNothing == LoaderSpec => []RejectedUnchanged
<1>1. LoadInv => RejectedUnchanged
  BY DEF LoadInv, Loading, Loaded, RejectedUnchanged
<1> QED BY <1>1, LoadAlways, PTL

\* Every header that loadElf() reads lies in the file, every segment it copies
\* lies in the file and in memory, and loadProgram() does not fail there.
THEOREM LoaderNeverUnreachable == LoaderSpec => []NeverUnreachable
<1>1. Inv /\ LoadInv => NeverUnreachable
  <2> SUFFICES ASSUME Inv, LoadInv, elf.phase # "idle", elf.index < elf.file.phnum
               PROVE  /\ elf.file.phoff + elf.index * elf.file.phentsize + program_header_len
                           <= elf.file.len
                      /\ AtSegment("copy") =>
                           /\ segment.offset + segment.filesz <= elf.file.len
                           /\ segment.vaddr + segment.memsz <= MemSize
                           /\ loadProgram(vm, [at |-> segment.vaddr,
                                               bytes |-> fileBytes(elf.file, segment)]).err = NoError
    BY DEF NeverUnreachable
  <2>1. elf.file \in Files /\ segment \in Segment /\ elf.index + 1 \in 1 .. elf.file.phnum
        /\ elf.index \in Nat
    BY AtHeader
  <2>2. elf.file.phoff + elf.index * elf.file.phentsize + program_header_len <= elf.file.len
    <3> DEFINE o == elf.file.phoff
               e == elf.file.phentsize
               n == elf.file.phnum
               i == elf.index
               l == elf.file.len
    <3>1. o \in Nat /\ e \in Nat /\ n \in Nat /\ i \in Nat /\ l \in Nat /\ program_header_len \in Nat
      BY <2>1, FileFacts, LoaderAssumption
    <3>2. ~headerInvalid(elf.file)
      BY DEF LoadInv, Loading
    <3>3. program_header_len <= e /\ o + e * n <= l /\ i + 1 <= n
      BY <2>1, <3>1, <3>2 DEF headerInvalid
    <3> HIDE DEF o, e, n, i, l
    <3>4. (i + 1) * e <= n * e /\ (i + 1) * e = i * e + e /\ e * n = n * e
      <4>1. PICK d \in Nat : n = i + 1 + d
        <5>1. n - (i + 1) \in Nat /\ n = i + 1 + (n - (i + 1))
          BY <3>1, <3>3
        <5> QED BY <5>1
      <4>2. n * e = (i + 1) * e + d * e /\ d * e \in Nat
        BY <3>1, <4>1
      <4> QED BY <3>1, <4>2
    <3>5. i * e \in Nat /\ e * n \in Nat /\ n * e \in Nat /\ (i + 1) * e \in Nat
      BY <3>1
    <3>6. o + i * e + program_header_len <= l
      BY <3>1, <3>3, <3>4, <3>5
    <3> QED BY <3>6 DEF o, e, n, i, l
  <2>3. ASSUME AtSegment("copy")
        PROVE  /\ segment.offset + segment.filesz <= elf.file.len
               /\ segment.vaddr + segment.memsz <= MemSize
               /\ loadProgram(vm, [at |-> segment.vaddr,
                                   bytes |-> fileBytes(elf.file, segment)]).err = NoError
    <3>1. elf.phase = "copy" /\ segment.pt_load
      BY <2>3 DEF AtSegment
    <3>2. ~segmentInvalid(elf.file, segment) /\ ~outsideMemory(segment)
      BY <2>1, <3>1 DEF LoadInv, Loading, FitsFile, FitsMemory, segment
    <3>3. loadProgram(vm, [at |-> segment.vaddr, bytes |-> fileBytes(elf.file, segment)]).err = NoError
      BY <2>1, <3>1, <3>2, CopiedEffect DEF Inv
    <3>4. /\ segment.offset \in Nat /\ segment.filesz \in Nat /\ segment.vaddr \in Nat
          /\ segment.memsz \in Nat /\ elf.file.len \in Nat
      BY <2>1, FileFacts DEF Segment, Word
    <3> HIDE DEF segment
    <3> QED BY <3>2, <3>3, <3>4, Constants DEF segmentInvalid, outsideMemory
  <2> QED BY <2>2, <2>3
<1> QED BY <1>1, LoadAlways, PTL

\* A loaded image is in memory, segment over segment in the order of the
\* headers, with its zeros; nothing else of the machine changes but a
\* reservation that is dropped.
THEOREM LoadedImagesInPlace == LoaderSpec => []SegmentsInPlace
<1>1. Inv /\ LoadInv => SegmentsInPlace
  <2> SUFFICES ASSUME Inv, LoadInv, elf.result = "ok" PROVE SegmentsInPlace
    BY DEF SegmentsInPlace
  <2> DEFINE f == elf.file
             covers(i, x) == f.ph[i].pt_load /\ f.ph[i].vaddr <= x /\ x < f.ph[i].vaddr + f.ph[i].memsz
             last(x) == CHOOSE i \in 1 .. f.phnum :
                          covers(i, x) /\ \A j \in i + 1 .. f.phnum : ~covers(j, x)
             byte(s, k) == IF k < s.filesz THEN f.bytes[s.offset + k + 1] ELSE 0
  <2>1. Landed(f, f.phnum, before.memory, vm.memory) /\ OnlyLoaded(before, vm)
    BY DEF LoadInv, Loading, Loaded
  <2>2. ASSUME NEW x \in Addrs, \E i \in 1 .. f.phnum : covers(i, x)
        PROVE  vm.memory[x] = byte(f.ph[last(x)], x - f.ph[last(x)].vaddr)
    <3>1. \E i \in 1 .. f.phnum : Covers(f.ph[i], x)
      BY <2>2 DEF Covers
    <3>2. \E i \in 1 .. f.phnum : LastCover(f, f.phnum, i, x)
      BY <2>1, <3>1 DEF Landed
    <3>3. \E i \in 1 .. f.phnum : covers(i, x) /\ \A j \in i + 1 .. f.phnum : ~covers(j, x)
      BY <3>2 DEF LastCover, Covers
    <3>4. last(x) \in 1 .. f.phnum /\ covers(last(x), x)
          /\ \A j \in last(x) + 1 .. f.phnum : ~covers(j, x)
      BY <3>3
    <3> HIDE DEF last
    <3>5. LastCover(f, f.phnum, last(x), x)
      BY <3>4 DEF LastCover, Covers
    <3>6. vm.memory[x] = SegByte(f, f.ph[last(x)], x)
      BY <2>1, <3>4, <3>5 DEF Landed
    <3> QED BY <3>6 DEF SegByte
  <2>3. ASSUME NEW x \in Addrs, ~(\E i \in 1 .. f.phnum : covers(i, x))
        PROVE  vm.memory[x] = before.memory[x]
    <3>1. \A i \in 1 .. f.phnum : ~Covers(f.ph[i], x)
      BY <2>3 DEF Covers
    <3> QED BY <2>1, <3>1 DEF Landed
  <2>4. vm = [before EXCEPT !.memory = vm.memory, !.reservation = vm.reservation]
    <3>1. vm \in VM /\ before \in VM
      BY DEF Inv, LoadInv, VmInv
    <3> QED BY <2>1, <3>1 DEF VM, OnlyLoaded
  <2>5. vm.reservation \in {before.reservation, NoReservation}
    BY <2>1 DEF OnlyLoaded
  <2> QED BY <2>2, <2>3, <2>4, <2>5 DEF SegmentsInPlace
<1> QED BY <1>1, LoadAlways, PTL

\* Loading respects the reservation: a word a segment overwrites or clears is
\* no longer reserved.
THEOREM LoadingKeepsReservedWord == LoaderSpec => ReservedWordStable
<1> DEFINE A == /\ vm.reservation # NoReservation
                /\ vm'.reservation = vm.reservation
                /\ ret'.call # "restoreSnapshot"
                => WordAt(vm'.memory, vm.reservation) = WordAt(vm.memory, vm.reservation)
<1>1. Inv /\ LoadInv /\ [LoaderNext]_loaderVars => [A]_vars
  <2> SUFFICES ASSUME Inv, LoadInv, [LoaderNext]_loaderVars PROVE A \/ UNCHANGED vars
    OBVIOUS
  <2>1. CASE LoaderNext
    BY <2>1, NextLoad DEF KeepsReserved
  <2>2. CASE UNCHANGED loaderVars
    BY <2>2 DEF loaderVars, vars
  <2> QED BY <2>1, <2>2
<1> QED BY <1>1, LoadAlways, PTL DEF LoaderSpec, ReservedWordStable

=============================================================================
