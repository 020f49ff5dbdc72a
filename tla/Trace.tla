-------------------------------- MODULE Trace --------------------------------
(***************************************************************************)
(* tools/spike_diff/trace.py: Spike's commit log and the runner's trace of *)
(* one program, aligned step by step up to the first difference.           *)
(*                                                                         *)
(* The two logs do not say the same things. Spike's begins in its boot ROM *)
(* and names every register an instruction writes; the runner's begins at  *)
(* the program and names only the registers whose value changed. Here both *)
(* machines execute the next step, the logs show of it what they show, and *)
(* the script's loop takes it. The register files themselves (spikeRegs,   *)
(* detRegs) are out of the script's sight.                                 *)
(***************************************************************************)
EXTENDS Integers, FiniteSets

CONSTANTS
  TraceRegs,              \* the registers but x0
  Width,                  \* registers hold 0..Width-1 and wrap there, 2^32 in the code
  MaxAligned              \* bound: steps compared

ASSUME TraceAssumption == 0 \notin TraceRegs /\ Width \in Nat \ {0} /\ MaxAligned \in Nat

VARIABLES
  tpc,                    \* "idle", "boot", "align", "found", "same", "failed"
  n,                      \* steps aligned so far
  dregs,                  \* dregs: what the runner's trace has shown of each register, or Unknown
  ctr_off,                \* ctr_off, or Unknown
  spikeRegs, detRegs,     \* the machines
  checked,                \* what the script has made of each register: "no" until Spike writes it, "alone" when
                          \* only Spike's log has spoken of it, "value" or "counter" when Spike's last write was
                          \* compared, "changed" when Determinant has changed the register since
  problems                \* the problems of the last step

tvars == <<tpc, n, dregs, ctr_off, spikeRegs, detRegs, checked, problems>>

Unknown == - 1
Vals == 0..Width - 1
Sub(v, u) == (v - u + Width) % Width

NoRegs == [r \in TraceRegs |-> Unknown]
Cleared == [r \in TraceRegs |-> 0]

TraceInit ==
  /\ tpc = "idle" /\ n = 0 /\ dregs = NoRegs /\ ctr_off = Unknown
  /\ spikeRegs = Cleared /\ detRegs = Cleared /\ checked = [r \in TraceRegs |-> "no"] /\ problems = {}

-----------------------------------------------------------------------------
\* One instruction on a machine (external): whether the pc is the other's, the register it writes, if
\* any, and mscratch as the log shows it. The disassembly tells a counter read.
Commits == [rd : TraceRegs, v : Vals, ms : {Unknown}, counter : BOOLEAN]
             \cup [rd : {0}, v : {0}, ms : {Unknown, 0, 1}, counter : {FALSE}]
Retired == [rd : TraceRegs, v : Vals, ms : {Unknown}, pc : BOOLEAN]
             \cup [rd : {0}, v : {0}, ms : {Unknown, 0, 1}, pc : BOOLEAN]
Writes(regs, i) == IF i.rd = 0 THEN regs ELSE [regs EXCEPT ![i.rd] = i.v]

\* det_trace: the registers that changed, with their new values.
Changed(old, d) == {r \in {d.rd} \ {0} : d.v # old[r]}

\* The runner's line goes into dregs, which the comparison reads.
Learn_NotYet(shown, d, changed) == shown

Learn(shown, d, changed) == [r \in TraceRegs |-> IF r \in changed THEN d.v ELSE shown[r]]

\* The registers of Spike's line that differ from what is known of Determinant's.
Differing(shown, s) == {r \in {s.rd} \ {0} : shown[r] # Unknown /\ shown[r] # s.v}

\* Spike's counters run ahead by a constant, taken from the first counter read that differs.
Offset(off, shown, s) ==
  IF off = Unknown /\ s.counter /\ Differing(shown, s) # {} THEN Sub(s.v, shown[s.rd]) ELSE off

Problems(off, shown, s, d) ==
  (IF d.pc THEN {} ELSE {<<"pc", 0>>})
    \cup {<<"x", r>> : r \in {q \in Differing(shown, s) : ~ (s.counter /\ Sub(s.v, shown[q]) = off)}}
    \cup (IF Unknown \notin {s.ms, d.ms} /\ s.ms # d.ms THEN {<<"mscratch", 0>>} ELSE {})

\* What the script compares are the registers of Spike's line, if Determinant's log has shown them.
Compared(c, s, touched, changed) ==
  [r \in TraceRegs |-> IF r = s.rd THEN IF r \notin touched THEN "alone" ELSE IF s.counter THEN "counter" ELSE "value"
                       ELSE IF r \in changed /\ c[r] # "no" THEN "changed" ELSE c[r]]
Touched == {r \in TraceRegs : dregs[r] # Unknown}

-----------------------------------------------------------------------------
TraceStart == /\ tpc = "idle" /\ tpc' = "boot"
              /\ UNCHANGED <<n, dregs, ctr_off, spikeRegs, detRegs, checked, problems>>

\* spike_trace skips the commits up to the one at test_start, where the runner's trace begins. Spike may
\* hang, and the runner may fail.
TraceOn(outcome) == /\ tpc = "boot" /\ outcome \in {"align", "failed"} /\ tpc' = outcome
                    /\ UNCHANGED <<n, dregs, ctr_off, spikeRegs, detRegs, checked, problems>>

\* The next pair of lines: learn, compare, and stop at the first problem.
Align(s, d, changed, shown, off) ==
  /\ dregs' = shown /\ ctr_off' = off
  /\ problems' = Problems(off, shown, s, d)
  /\ tpc' = (IF problems' = {} THEN "align" ELSE "found")
  /\ spikeRegs' = Writes(spikeRegs, s) /\ detRegs' = Writes(detRegs, d)
  /\ checked' = Compared(checked, s, Touched \cup changed, changed)
  /\ n' = n + 1

TraceStep(s, d) ==
  /\ tpc = "align" /\ n < MaxAligned
  /\ LET changed == Changed(detRegs, d)
         shown == Learn(dregs, d, changed)
     IN  Align(s, d, changed, shown, Offset(ctr_off, shown, s))

\* A trap on Spike, the end of the runner's trace, or of either log: no divergence in what was aligned.
TraceEnd == /\ tpc = "align" /\ tpc' = "same"
            /\ UNCHANGED <<n, dregs, ctr_off, spikeRegs, detRegs, checked, problems>>

TraceNext == \/ TraceStart \/ TraceEnd
             \/ \E outcome \in {"align", "failed"} : TraceOn(outcome)
             \/ \E s \in Commits, d \in Retired : TraceStep(s, d)

TraceSpec == TraceInit /\ [][TraceNext]_tvars

-----------------------------------------------------------------------------
(* Properties *)

\* The script localizes, as far as it compares: while it reports nothing, every register that Spike
\* wrote after Determinant's log had shown it, and that Determinant has not changed since, holds the same
\* value on both machines, or a counter ahead by the one constant; and a register it reports in the first
\* divergence does differ between the machines, whatever their logs leave out. A register that Determinant
\* alone writes later is not among them (FirstDifferenceReported).
TraceSound ==
  /\ tpc \in {"align", "same"} =>
       \A r \in TraceRegs :
         /\ checked[r] = "value" => spikeRegs[r] = detRegs[r]
         /\ checked[r] = "counter" => Sub(spikeRegs[r], detRegs[r]) \in {0, ctr_off}
  /\ \A p \in problems : p[1] = "x" => spikeRegs[p[2]] # detRegs[p[2]]

\* "Prints the first step at which the pc, a register write or mscratch differs" (trace.py): when the
\* script ends with "no divergence", every register that both logs have spoken of holds the same value on
\* both machines; the offset of a counter is left aside.
FirstDifferenceReported ==
  tpc = "same" /\ ctr_off = Unknown =>
    \A r \in TraceRegs : dregs[r] # Unknown /\ checked[r] # "no" => spikeRegs[r] = detRegs[r]

=============================================================================
