-------------------------------- MODULE MCX0 --------------------------------
(***************************************************************************)
(* The machine with a host that also writes the field regs[0], which       *)
(* step() expects (src/cpu.zig:391) and a test does (cpu/init_test.zig).   *)
(***************************************************************************)
EXTENDS Cpu, MCMachine

\* A load through x2, so that the address the host put there decides whether it faults.
X0Programs == {At(0, L(7))}
X0Regs == {[reg |-> 2, value |-> 252]}

PokeReg0 == HostCall("writeReg", NoFail([vm EXCEPT !.regs = [@ EXCEPT ![0] = 9]]))

X0Spec == Init /\ [][Next \/ PokeReg0]_vars

=============================================================================
