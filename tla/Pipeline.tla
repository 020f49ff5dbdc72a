------------------------------ MODULE Pipeline ------------------------------
(***************************************************************************)
(* tools/spike_diff/pipeline.py: the files of a program, what a build and  *)
(* a Spike run leave of them, and the comparison of Spike's final state    *)
(* with the runner's records. Campaign takes these steps in the order of   *)
(* the three scripts.                                                      *)
(*                                                                         *)
(* A file is the number of the invocation that wrote it, or None. A final  *)
(* state keeps the fields that are compared, with one or two values where  *)
(* the code has a register file or an image.                               *)
(***************************************************************************)
EXTENDS Integers, FiniteSets

None == 0
Extensions == {"s", "o", "elf", "bin", "sig"}
NoFiles == [e \in Extensions |-> None]

LOAD_ADDR == 65536
SPIKE_INSTRET_OFFSET == 9
CONFIGS == {"cache", "nocache", "runtime"}

\* Spike's mcause for each runner status; "limit" has none.
CAUSES ==
  [ebreak |-> {3}, ecall |-> {11}, IllegalInstruction |-> {2}, MisalignedAccess |-> {4, 6},
   AddressOutOfBounds |-> {5, 7}, PCOutOfBounds |-> {1}, MisalignedPC |-> {0}]

-----------------------------------------------------------------------------
\* setup(): what must be true before a script touches its directory, in the order of the checks.
\* env says what the machine offers, args what the user passed.
SetupError(env, args) ==
  IF args.inside THEN "work directory inside the repository"
  ELSE IF args.space THEN "work directory with whitespace"
  ELSE IF ~ env.spike THEN "Spike not found"
  ELSE IF ~ env.cross THEN "GNU toolchain not found"
  ELSE IF args.runner /\ ~ env.runner THEN "not an executable"
  ELSE IF ~ args.runner /\ ~ env.zig THEN "zig not found"
  ELSE IF ~ args.runner /\ ~ env.builds THEN "building the runner failed"
  ELSE "none"

-----------------------------------------------------------------------------
\* The files after build() has run its commands up to, and without, the one that fails. The file
\* a failing command would have written keeps what it held.
Commands == <<"o", "elf", "bin", "symbols">>
AfterBuild(files, v, failing) ==
  [e \in Extensions |-> IF \E i \in 1..failing - 1 : Commands[i] = e THEN v ELSE files[e]]

remove_artifacts(files) == NoFiles

\* run_spike(): the old signature goes first, then Spike runs. It writes its signature when it ends
\* (how = "sig"), or ends without one ("nosig"), or hangs and is killed by the timeout ("hang").
OldSignature_Stays(files) == files
OldSignature(files) == [files EXCEPT !.sig = None]

AfterSpike(files, v, how) == IF how = "sig" THEN [files EXCEPT !.sig = v] ELSE files

\* What run_spike() returns: the signature it finds, by the invocation that wrote it.
Words(files, how) == IF how = "hang" THEN None ELSE files.sig

-----------------------------------------------------------------------------
\* spike_state(): the fields of the dump that the trap handler left in the signature.
DUMP_MARKER == 1611514078
spike_state(words) ==
  [marker_ok |-> words.marker = DUMP_MARKER, regs |-> words.regs, mscratch |-> words.mscratch,
   mcause |-> words.mcause, mepc |-> words.mepc, minstret |-> words.minstret, mem |-> words.mem]

Stopped == {"ebreak", "ecall"}

\* compare(): the fields in which Spike's state and one runner record differ. The three checks of
\* how the program stopped are a chain: the first that fails hides the others.
compare(sp, det) ==
  IF ~ sp.marker_ok THEN {"marker"}
  ELSE LET known == det.status \in DOMAIN CAUSES /\ sp.mcause \in CAUSES[det.status]
           \* ECALL and EBREAK retire on Determinant and trap on Spike.
           want == sp.minstret - SPIKE_INSTRET_OFFSET + (IF det.status \in Stopped THEN 1 ELSE 0)
       IN  (IF ~ known THEN {"outcome"}
            ELSE IF sp.mepc # det.epc THEN {"epc"}
            ELSE IF det.retired # want THEN {"retired"} ELSE {})
             \cup {"x0" : x \in {det.x0} \ {0}}
             \cup {<<"x", r>> : r \in {q \in DOMAIN sp.regs : sp.regs[q] # det.regs[q]}}
             \cup {f \in {"mscratch", "mem"} : sp[f] # det[f]}

\* compare_configs(): the missing records, or the fields in which the others differ from "cache".
compare_configs(rec) ==
  IF DOMAIN rec # CONFIGS THEN {<<c, "missing">> : c \in CONFIGS \ DOMAIN rec}
  ELSE {d \in {"nocache", "runtime"} \X DOMAIN rec["cache"] : rec[d[1]][d[2]] # rec["cache"][d[2]]}

=============================================================================
