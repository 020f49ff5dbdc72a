------------------------------- MODULE MCHost -------------------------------
(***************************************************************************)
(* The host's work on the machine, in two suites of calls.  In the first   *)
(* loadElf() gets files with up to two segments that overlap, touch or     *)
(* leave the memory and the file, for a machine that is fresh or holds a   *)
(* reservation and old data.  In the second a guest reserves the word at   *)
(* a1 and then makes host calls in a loop, while the host changes the      *)
(* argument registers between them.                                        *)
(***************************************************************************)
EXTENDS Loader, HostCalls, MCMachine

CONSTANT MaxCalls       \* how many calls a behaviour of the second suite has

VARIABLE calls          \* negative in the first suite, their number in the second

RunLimits == {NONE}

Seg(offset, vaddr, filesz, memsz) ==
    [pt_load |-> TRUE, offset |-> offset, vaddr |-> vaddr, filesz |-> filesz, memsz |-> memsz]
Segs == {Seg(o, v, n, n + z) : o \in {4, 5, 250}, v \in {0, 6, 12, 252}, n \in {0, 3, 4}, z \in {0, 1, 2}}
          \cup {Seg(4, 0, 4, 3), Seg(4, 0, 0, 16), Seg(4, 13, 4, 5),
                [Seg(255, 255, 255, 0) EXCEPT !.pt_load = FALSE]}

ElfFile(phentsize, phs) ==
    [len |-> 8, riscv_exec |-> TRUE, entry |-> 4, phoff |-> 4, phentsize |-> phentsize,
     phnum |-> Len(phs), ph |-> phs, bytes |-> <<3, 1, 1, 3, 1, 2, 3, 2>>]
Good == ElfFile(2, <<Seg(4, 0, 4, 4), Seg(5, 6, 2, 10)>>)

ElfFiles ==
    {ElfFile(2, <<s, t>>) : s, t \in Segs}
      \cup {Good, ElfFile(2, <<>>), ElfFile(1, <<>>), ElfFile(1, <<Seg(4, 0, 4, 4)>>),
            ElfFile(3, <<Seg(4, 0, 4, 4), Seg(4, 0, 4, 4)>>), [Good EXCEPT !.entry = 5],
            [Good EXCEPT !.riscv_exec = FALSE], [Good EXCEPT !.phoff = 5],
            [Good EXCEPT !.len = 3, !.bytes = <<3, 1, 1>>],
            ElfFile(2, <<[Seg(4, 0, 4, 4) EXCEPT !.pt_load = FALSE], Seg(4, 4, 4, 8)>>)}

UsedImage == [Encode(PowerOn) EXCEPT !.res_valid = 1, !.res_addr = 12, !.pc = 4,
                                     !.memory = [a \in Addrs |-> (a + 1) % 4]]
UsedImages == {UsedImage}
AllRead == {MemSize}

\* One call of the host that needs no argument, and then a load.
LoadNext ==
    \/ calls = -3 /\ BetweenLoads /\ ret'.call # "writeReg" /\ ~call'.active /\ calls' = -2
    \/ calls = -2 /\ (\E f \in Files : LoadElf(f)) /\ calls' = -1
    \/ calls = -1 /\ Loop /\ UNCHANGED calls

ThreeBytes == <<1, 2, 3>>

\* lr.w at a1, ecall, and a jump back to the ecall.
Guest == L(1) \o L(21) \o L(12)

\* The arguments: calls read, write, exit and one of no number; the standard
\* and a bad fd; lengths that are empty, inside, at the end and past the end of
\* memory, buffers that cover, touch and miss the reserved word.  A0 := 0 after
\* a read lets the loop read on, up to a read past the end of the input.
Numbers == {63, 64, 93, 7}
Fds     == {0, 1, 3}
Lengths == {0, 2, 3, 5}
ArgRegs == {[reg |-> A1, value |-> x] : x \in {13, 11, 252}}
             \cup {[reg |-> A0, value |-> x] : x \in {0, 2}}
             \cup {[reg |-> A2, value |-> 1], [reg |-> A7, value |-> 63]}

Arg(r, values) == (\E v \in values : WriteReg([reg |-> r, value |-> v])) /\ UNCHANGED <<env, outcome, received>>

\* The host loads the guest, sets its arguments, and then calls what it likes
\* but restoreSnapshot.
CallsNext ==
    /\ calls \in 0 .. MaxCalls - 1
    /\ calls' = calls + 1
    /\ \/ calls = 0 /\ LoadProgram(At(0, Guest)) /\ UNCHANGED <<env, outcome, received>>
       \/ calls = 1 /\ Arg(A7, Numbers)
       \/ calls = 2 /\ Arg(A0, Fds)
       \/ calls = 3 /\ Arg(A2, Lengths)
       \/ calls = 4 /\ Arg(A1, {12})
       \/ calls > 4 /\ HostNext /\ ret'.call # "restoreSnapshot"

MCInit == LoaderInit /\ HostInit /\ calls \in {-3, 0}
MCNext ==
    \/ LoadNext /\ UNCHANGED <<env, outcome, received>>
    \/ CallsNext /\ UNCHANGED <<elf, before>>
MCSpec == MCInit /\ [][MCNext]_<<vars, elf, before, env, outcome, received, calls>>

=============================================================================
