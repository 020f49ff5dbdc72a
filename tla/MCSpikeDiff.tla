---------------------------- MODULE MCSpikeDiff ----------------------------
(***************************************************************************)
(* tools/spike_diff for TLC: the generator, the campaigns and the trace    *)
(* script, one of them at a time. They meet in files only: the campaigns   *)
(* take a program as something that may do anything on the two machines,   *)
(* Gen shows what generated ones do, and Trace reads what a campaign kept. *)
(***************************************************************************)
EXTENDS Gen, Campaign, Trace

CONSTANTS p1, p2          \* two programs; p2 is the test that is expected to diverge

MCPrograms == {p1, p2}
MCExpectedToDiverge == {p2}
\* One batch of two, or two of one.
MCBatchings == {<<<<p1, p2>>>>, <<<<p1>>, <<p2>>>>}
\* x0, the link register, the stack pointer and two that compressed instructions name.
MCRegs == {0, 1, 2, 8, 9}
MCCRegs == {8, 9}
MCMixes == {"mixed"}
MCTraceRegs == {1, 2}

MCInit == GenInit /\ CampaignInit /\ TraceInit

\* One tool at a time.
Generating == script = "fuzz" /\ inv = 0 /\ tpc = "idle"
Campaigning == gpc = "idle" /\ tpc = "idle"
Tracing == script = "fuzz" /\ inv = 0 /\ gpc = "idle"

GenStep == Generating /\ ((gpc = "idle" /\ GenStart) \/ GenItem) /\ UNCHANGED <<cvars, tvars>>
ScriptStep == Campaigning /\ CampaignNext /\ UNCHANGED <<gvars, tvars>>
LocalizeStep == Tracing /\ TraceNext /\ UNCHANGED <<gvars, cvars>>

MCNext == GenStep \/ ScriptStep \/ LocalizeStep

mcvars == <<gvars, cvars, tvars>>

\* The generator goes on, the operating system runs the scripts, their workers and Spike, and a trace
\* comes to its end; nothing says that a script is ever started or stopped.
MCFairness ==
  /\ WF_mcvars(Generating /\ gpc # "idle" /\ GenItem /\ UNCHANGED <<cvars, tvars>>)
  /\ WF_mcvars(Campaigning /\ Running /\ CampaignStep /\ UNCHANGED <<gvars, tvars>>)
  /\ WF_mcvars(Tracing /\ tpc # "idle" /\ TraceNext /\ UNCHANGED <<gvars, cvars>>)

MCSpec == MCInit /\ [][MCNext]_mcvars /\ MCFairness

-----------------------------------------------------------------------------
(* Property *)

\* Whatever is started ends: a program's generation and execution (its loops count down a register
\* nothing else writes), a script over programs that fail, hang Spike or diverge, and a trace.
ScriptsEnd ==
  /\ (gpc = "block") ~> (gpc = "done")
  /\ Running ~> ~ Running
  /\ (tpc = "boot") ~> (tpc \in {"same", "found", "failed"})

=============================================================================
