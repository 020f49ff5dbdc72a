------------------------------- MODULE MCHart -------------------------------
(***************************************************************************)
(* The machine against the hart, in two suites of calls.  In the first the *)
(* host loads a program over the whole encoding and steps it; in the       *)
(* second it calls run() and runFor() on programs that loop, stop or       *)
(* fault.  The snapshot both restore has a cycle counter about to wrap.    *)
(***************************************************************************)
EXTENDS MCCpu

\* Six compressed instructions fill the memory.
Fill(c1, c2, c3) == S(c1) \o S(c2) \o S(c3) \o S(1) \o S(1) \o S(1)
RunPrograms == {At(0, Fill(1, 8, 1)), At(0, Fill(1, 4, 1)), At(0, Fill(1, 1, 14))}
RunLimits == {NONE, 0, 2, CountMod - 1}

\* The calls of the second suite, in any order and number: every one but the
\* host's writes and writeSnapshot, which no run depends on.
RunSuite == MaxCalls + 1
RunNext ==
    /\ Next
    /\ ret'.call \in {"reset", "loadProgram", "clearReservation", "restoreSnapshot", "step", "run"}

HartInit == Init /\ calls \in {0, RunSuite}
HartNext ==
    \/ /\ calls < RunSuite /\ MCNext
       /\ ret'.call # "run" /\ (calls > 1 => ret'.call # "loadProgram")
    \/ calls = RunSuite /\ RunNext /\ UNCHANGED calls
HartSpec == HartInit /\ [][HartNext]_<<vars, calls>> /\ Fairness

=============================================================================
