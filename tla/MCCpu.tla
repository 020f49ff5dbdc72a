------------------------------- MODULE MCCpu -------------------------------
(***************************************************************************)
(* The memory system: guest and host writes, atomics, CSRs, faults and     *)
(* snapshots, in every order of a bounded number of calls.                 *)
(***************************************************************************)
EXTENDS Cpu, MCMachine

CONSTANTS
    MaxCalls,       \* how many calls a behaviour has
    Guests          \* the programs the host starts with

VARIABLE calls

MemGuests ==
    {L(1) \o L(2), L(1) \o L(5), L(1) \o L(3), L(6) \o L(2), S(2) \o S(5) \o L(1),
     L(16) \o L(21), L(15) \o L(26), L(19) \o L(17), L(20) \o L(18), L(13) \o L(8),
     L(25) \o S(2) \o S(4)}
DataAddrs == {8, 11, 252}

\* Every instruction of the encoding, followed by a store over code already
\* executed (address 4) or by a load of it.
IsaGuests == {L(k) \o L(n) : k \in 1 .. Len(Long), n \in {25, 12}}
               \cup {S(c) \o S(d) \o S(8) : c \in DOMAIN Short, d \in {2, 5}}
IsaWrites == {[at |-> 4, width |-> 2, value |-> 4]}
IsaRegs   == {[reg |-> 1, value |-> 6]}
IsaImages == {[Encode(PowerOn) EXCEPT !.res_valid = 1, !.res_addr = 8, !.cycle_count = CountMod - 1,
                                      !.memory = [a \in Addrs |-> (L(17) \o L(2) \o L(1))[a + 1]],
                                      !.regs = [r \in Regs |-> IF r = 0 THEN 0 ELSE 8]]}

Patches == {At(6, <<1, 2, 3>>), At(10, <<1, 2, 3>>)}
MemWrites == {[at |-> 8, width |-> 1, value |-> 77], [at |-> 11, width |-> 1, value |-> 2],
              [at |-> 10, width |-> 2, value |-> 9], [at |-> 12, width |-> 4, value |-> 1],
              [at |-> 4, width |-> 2, value |-> 4]}
MemRegs   == {[reg |-> 1, value |-> 5], [reg |-> 0, value |-> 9]}
MemPcs    == {0, 4, 5, 10}
GoodImage == [Encode(PowerOn) EXCEPT !.res_valid = 1, !.res_addr = 8, !.pc = 4,
                                     !.cycle_count = CountMod - 1]
MemImages == {GoodImage, [GoodImage EXCEPT !.res_addr = 6], [GoodImage EXCEPT !.res_addr = 12],
              [GoodImage EXCEPT !.res_valid = 2], [GoodImage EXCEPT !.regs[0] = 1]}

MemLengths == {NONE, 9, MemSize}
IsaLengths == {MemSize}

\* The host loads a program, sets x2 to an address, and then calls what it likes.
MCInit == Init /\ calls = 0
MCNext ==
    /\ calls < MaxCalls
    /\ calls' = calls + 1
    /\ \/ calls = 0 /\ \E p \in Guests : LoadProgram(At(0, p))
       \/ calls = 1 /\ \E x \in DataAddrs : WriteReg([reg |-> 2, value |-> x])
       \/ calls > 1 /\ Next
MCSpec == MCInit /\ [][MCNext]_<<vars, calls>>

=============================================================================
