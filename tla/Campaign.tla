------------------------------ MODULE Campaign ------------------------------
(***************************************************************************)
(* The three scripts of tools/spike_diff that compare programs on Spike    *)
(* and on the runner: fuzz.py, encsweep.py and directed.py. Each works in  *)
(* a directory of its own, so one script is followed, over several         *)
(* invocations: an invocation finds the files the earlier ones left, and   *)
(* may be stopped at any point.                                            *)
(*                                                                         *)
(* What a program does on the two machines is chosen when the script looks *)
(* at it. truth remembers, outside the scripts, what their verdict ought   *)
(* to be.                                                                  *)
(***************************************************************************)
EXTENDS Pipeline, Sequences

CONSTANTS
  Programs,                \* the programs, named by seed or test
  Batchings,               \* how --start, --count and --batch cut them: sequences of batches
  Jobs,                    \* --jobs
  ExpectedToDiverge,       \* directed.py: the tests whose expect is not "match"
  MaxInvocations           \* bound: how often the script is started

VARIABLES
  cpc,                     \* "idle", "pool", "compare", "ended", "aborted"
  script, keep,            \* which script, and --keep
  inv,                     \* the number of this invocation
  batches, seen,           \* the batches left, the first being worked on, and how many of it are compared
  job,                     \* the workers' programs: where prepare() is, and what it has found
  files,                   \* the files of each program
  log, bad, status,        \* this invocation's lines, its count of bad programs, its exit status
  truth                    \* what each program of this invocation really did

cvars == <<cpc, script, keep, inv, batches, seen, job, files, log, bad, status, truth>>

\* A script works through at least one batch, and no program occurs twice: the seeds are a range,
\* and a mix or a test is named once.
ASSUME CampaignAssumption ==
  \A bs \in Batchings :
    /\ bs \in Seq(Seq(Programs)) /\ bs # <<>>
    /\ \A i, k \in DOMAIN bs : \A j \in DOMAIN bs[i], l \in DOMAIN bs[k] :
         bs[i][j] = bs[k][l] => i = k /\ j = l

NoJob == [st |-> "wait", how |-> "none", words |-> None]
Batch == Head(batches)
Elements(s) == {s[i] : i \in 1..Len(s)}
Running == cpc \in {"pool", "compare"}

CampaignInit ==
  /\ cpc = "idle" /\ script \in {"fuzz", "encsweep", "directed"} /\ keep = FALSE /\ inv = 0
  /\ batches = <<>> /\ seen = 0 /\ job = [p \in Programs |-> NoJob]
  /\ files = [p \in Programs |-> NoFiles] /\ log = {} /\ bad = 0 /\ status = 0
  /\ truth = [p \in Programs |-> "unseen"]

\* An exit by an uncaught exception or fail(): status 1, nothing cleaned up.
Abort == cpc' = "aborted" /\ status' = 1 /\ batches' = <<>>

-----------------------------------------------------------------------------
\* The work directory and the tools, as setup() may find them.
Args == [inside : BOOLEAN, space : BOOLEAN, runner : BOOLEAN]
Env == [spike : BOOLEAN, cross : BOOLEAN, runner : BOOLEAN, zig : BOOLEAN, builds : BOOLEAN]
SetupResults == {SetupError(e, a) : e \in Env, a \in Args}

\* main() up to its loop. directed.py has one batch and keeps everything.
Invoke(bs, k) ==
  /\ ~ Running /\ inv < MaxInvocations /\ inv' = inv + 1
  /\ script = "directed" => Len(bs) = 1
  /\ keep' = (k \/ script = "directed") /\ (k => script = "fuzz")
  /\ job' = [p \in Programs |-> NoJob] /\ truth' = [p \in Programs |-> "unseen"]
  /\ log' = {} /\ bad' = 0 /\ seen' = 0
  /\ \E result \in SetupResults :
       \/ result = "none" /\ cpc' = "pool" /\ batches' = bs /\ status' = 0
       \/ result # "none" /\ Abort
  /\ UNCHANGED <<script, files>>

-----------------------------------------------------------------------------
\* The worker processes: ex.map hands the tasks out in order; directed.py does them itself.
Workers == IF script = "directed" THEN 1 ELSE Jobs
Active == {p \in Programs : job[p].st \notin {"wait", "done"}}
Due == {i \in 1..Len(Batch) : job[Batch[i]].st = "wait" /\ \A j \in 1..i - 1 : job[Batch[j]].st # "wait"}

\* The assembly file is written.
WriteAsm(p) ==
  /\ cpc = "pool" /\ Cardinality(Active) < Workers /\ \E i \in Due : p = Batch[i]
  /\ job' = [job EXCEPT ![p].st = "build"] /\ files' = [files EXCEPT ![p].s = inv]
  /\ UNCHANGED <<cpc, script, keep, inv, batches, seen, log, bad, status, truth>>

\* build() succeeds, or its command number c fails: a build error of that program, and the end of
\* directed.py, which does not catch it.
Build(p) ==
  /\ cpc = "pool" /\ job[p].st = "build"
  /\ files' = [files EXCEPT ![p] = AfterBuild(@, inv, Len(Commands) + 1)]
  /\ job' = [job EXCEPT ![p].st = "spike"]
  /\ UNCHANGED <<cpc, script, keep, inv, batches, seen, log, bad, status, truth>>

BuildFails(p, c) ==
  /\ cpc = "pool" /\ job[p].st = "build"
  /\ files' = [files EXCEPT ![p] = AfterBuild(@, inv, c)]
  /\ job' = [job EXCEPT ![p] = [st |-> "done", how |-> "error", words |-> None]]
  /\ truth' = [truth EXCEPT ![p] = "failed"]
  /\ IF script = "directed" THEN Abort ELSE UNCHANGED <<cpc, status, batches>>
  /\ UNCHANGED <<script, keep, inv, seen, log, bad>>

\* run_spike(): Spike is started, and what it will do is settled.
StartSpike(p, how) ==
  /\ cpc = "pool" /\ job[p].st = "spike"
  /\ files' = [files EXCEPT ![p] = OldSignature(@)]
  /\ job' = [job EXCEPT ![p].st = "run", ![p].how = how]
  /\ truth' = [truth EXCEPT ![p] = IF how = "sig" THEN "ran" ELSE "failed"]
  /\ UNCHANGED <<cpc, script, keep, inv, batches, seen, log, bad, status>>

\* Spike ends by itself, or the timeout kills it.
SpikeEnds_NoTimeout(p) ==
  /\ cpc = "pool" /\ job[p].st = "run" /\ job[p].how # "hang"
  /\ files' = [files EXCEPT ![p] = AfterSpike(@, inv, job[p].how)]
  /\ job' = [job EXCEPT ![p].st = "done", ![p].words = Words(files'[p], job[p].how)]
  /\ UNCHANGED <<cpc, script, keep, inv, batches, seen, log, bad, status, truth>>

SpikeEnds(p) ==
  /\ cpc = "pool" /\ job[p].st = "run"
  /\ files' = [files EXCEPT ![p] = AfterSpike(@, inv, job[p].how)]
  /\ job' = [job EXCEPT ![p].st = "done", ![p].words = Words(files'[p], job[p].how)]
  /\ UNCHANGED <<cpc, script, keep, inv, batches, seen, log, bad, status, truth>>

-----------------------------------------------------------------------------
\* Every task of the batch has answered: the manifest, and the runner if there is anything to run.
\* directed.py runs every test it built.
Runnable == {p \in Elements(Batch) : job[p].how # "error" /\ (script = "directed" \/ job[p].words # None)}

RunRunner ==
  /\ cpc = "pool" /\ \A p \in Elements(Batch) : job[p].st = "done"
  /\ cpc' = "compare" /\ seen' = 0
  /\ UNCHANGED <<script, keep, inv, batches, job, files, log, bad, status, truth>>

\* Its failure, or a program missing from its output, is an exception nobody catches.
RunnerFails ==
  /\ cpc = "pool" /\ (\A p \in Elements(Batch) : job[p].st = "done") /\ Runnable # {}
  /\ Abort
  /\ UNCHANGED <<script, keep, inv, seen, job, files, log, bad, truth>>

-----------------------------------------------------------------------------
\* The final states (external: Spike, and the runner's three records). A dump says how the program
\* stopped, or is still empty when Spike never came to the trap handler; a record repeats it but for
\* one deviation, and the other records repeat the first but for one.
Final == <<100, 200>>
Dumps ==
  [marker : {DUMP_MARKER}, mcause : UNION {CAUSES[s] : s \in DOMAIN CAUSES}, mepc : {LOAD_ADDR + 64},
   minstret : {SPIKE_INSTRET_OFFSET, SPIKE_INSTRET_OFFSET + 3}, regs : {Final}, mscratch : {1}, mem : {1}]
    \cup [marker : {0}, mcause : {0}, mepc : {0}, minstret : {0}, regs : {<<0, 0>>}, mscratch : {0}, mem : {1}]
Deviations == {"none", "limit", "status", "epc", "retired", "x0", "reg", "count", "mscratch", "mem", "pc"}
Others == {"same", "nocache", "runtime", "missing"}

RunnerStatus(mcause) == CHOOSE s \in DOMAIN CAUSES : mcause \in CAUSES[s]
Record(w, dev, rd) ==
  LET stop == RunnerStatus(w.mcause)
      st == CASE dev = "limit" -> "limit" [] dev = "status" -> CHOOSE s \in DOMAIN CAUSES : s # stop [] OTHER -> stop
      off(d) == IF dev = d THEN 4 ELSE 0
      past == IF stop \in Stopped THEN 1 ELSE 0
  IN  [status |-> st, epc |-> w.mepc + off("epc"), retired |-> w.minstret - SPIKE_INSTRET_OFFSET + past + off("retired"),
       x0 |-> off("x0"), mscratch |-> w.mscratch + off("mscratch"), mem |-> w.mem + off("mem"),
       final_pc |-> w.mepc + off("epc") + 4 * past + off("pc") * 2,
       regs |-> [r \in 1..2 |-> IF r # rd THEN Final[r] ELSE Final[r] - off("reg") - 2 * off("count")],
       digest |-> 0]

Records(rec, other) ==
  [c \in IF other = "missing" THEN CONFIGS \ {"runtime"} ELSE CONFIGS |->
     IF c = other THEN [rec EXCEPT !.digest = 1] ELSE rec]

\* The machines differ in what compare() is for; the final pc is not part of it.
Differs(w, dev) == w.marker # DUMP_MARKER \/ dev \notin {"none", "pc"}

\* What the loop body of a script makes of one compared program: whether it counts as bad, the kinds
\* of its log lines, whether its files are removed; and what it really did.
Verdict(isBad, kinds, removed, really) == [bad |-> isBad, kinds |-> kinds, removed |-> removed, really |-> really]

\* fuzz.py
FuzzVerdict(w, dev, other) ==
  LET rec == Records(Record(w, dev, 1), other)
      dd == compare_configs(rec)
      diffs == compare(spike_state(w), rec["cache"])
  IN  Verdict(dd # {} \/ diffs # {},
              (IF dd # {} THEN {"configs"} ELSE {}) \cup (IF diffs # {} THEN {"spike_vs_det"} ELSE {}),
              dd = {} /\ diffs = {},
              IF Differs(w, dev) \/ other # "same" THEN "diverged" ELSE "clean")

\* encsweep.py: the instruction word of a program, its fields and the initial value of its base
\* register. Addresses wrap at AddressSpace, 2^32 in the code.
AddressSpace == 1048576
NoAddress == - 1
CsrWords == [form : {"csr"}, counter : BOOLEAN, rd : 0..1, base : {0}, imm : {0}]
BaseWords == [form : {"compressed", "amo"}, counter : {FALSE}, rd : {1}, base : {LOAD_ADDR - 4, LOAD_ADDR + 8192}, imm : {0, 252}]
OffsetWords == [form : {"load", "store", "jalr"}, counter : {FALSE}, rd : {1},
                base : {LOAD_ADDR, LOAD_ADDR + 8192, AddressSpace - 4}, imm : {- 8, 0, 16}]
OtherWords == [form : {"other"}, counter : {FALSE}, rd : {1}, base : {0}, imm : {0}]
SweepWords == CsrWords \cup BaseWords \cup OffsetWords \cup OtherWords

\* effective_address(): a compressed access is taken at its base.
effective_address(word) ==
  CASE word.form \in {"compressed", "amo"} -> word.base
    [] word.form \in {"load", "store", "jalr"} -> (word.base + word.imm) % AddressSpace
    [] OTHER -> NoAddress

\* known_class(): an absolute counter, 8 apart and nothing else, or an address that only
\* Determinant has.
known_class(word, sp, det, diffs) ==
  IF /\ word.form = "csr" /\ word.counter /\ Cardinality(diffs) = 1 /\ word.rd # 0
     /\ (sp.regs[word.rd] - det.regs[word.rd]) % AddressSpace = 8 THEN "counter"
  ELSE IF effective_address(word) # NoAddress /\ effective_address(word) < LOAD_ADDR + 256 THEN "memory_map"
  ELSE "none"

\* What the sweep may excuse: a counter read that differs by the 8 instructions Spike ran before,
\* and an access below the load address. Up to 512 above it, it may excuse or not.
Address(word) == IF word.form \in {"csr", "other"} THEN NoAddress
                 ELSE (word.base + IF word.form = "amo" THEN 0 ELSE word.imm) % AddressSpace
Excuse(w, word, dev) ==
  IF w.marker = DUMP_MARKER /\ word.form = "csr" /\ word.counter /\ dev = "count" THEN "known"
  ELSE IF Address(word) = NoAddress \/ Address(word) >= LOAD_ADDR + 512 THEN "diverged"
  ELSE IF Address(word) < LOAD_ADDR THEN "known" ELSE "near"

SweepVerdict(w, word, dev, other) ==
  LET rec == Records(Record(w, dev, word.rd), other)
      dd == compare_configs(rec)
      diffs == compare(spike_state(w), rec["cache"])
      known == known_class(word, spike_state(w), rec["cache"], diffs)
      real == IF word.rd = 0 /\ dev \in {"reg", "count"} THEN "none" ELSE dev
  IN  Verdict(dd # {} \/ (diffs # {} /\ known = "none"),
              (IF dd # {} THEN {"configs"} ELSE {}) \cup (IF diffs # {} THEN {"divergence"} ELSE {}),
              dd = {} /\ diffs = {},
              IF other # "same" THEN "diverged" ELSE IF Differs(w, real) THEN Excuse(w, word, dev) ELSE "clean")

\* directed.py: it also looks at where the pc came to rest, and knows which tests diverge.
PcRests(det) == IF det.status \in Stopped THEN det.final_pc - det.epc = 4 ELSE det.final_pc = det.epc

DirectedVerdict(w, expect, dev, other) ==
  LET rec == Records(Record(w, dev, 1), other)
      match == compare(spike_state(w), rec["cache"]) = {} /\ PcRests(rec["cache"])
      ok == match = (expect = "match") /\ compare_configs(rec) = {}
  IN  Verdict(~ ok, IF ok THEN {} ELSE {"unexpected"}, FALSE,
              IF other = "same" /\ (Differs(w, dev) \/ dev = "pc") = (expect # "match") THEN "clean" ELSE "diverged")

FuzzVerdicts == {FuzzVerdict(w, dev, other) : w \in Dumps, dev \in Deviations, other \in Others}
SweepVerdicts == {SweepVerdict(w, word, dev, other) : w \in Dumps, word \in SweepWords, dev \in Deviations, other \in Others}
DirectedVerdicts == [x \in {"match", "diverge"} |->
                       {DirectedVerdict(w, x, dev, other) : w \in Dumps, dev \in Deviations, other \in Others}]

Current == Batch[seen + 1]
VerdictsOn(p) ==
  CASE script = "fuzz" -> FuzzVerdicts
    [] script = "encsweep" -> SweepVerdicts
    [] script = "directed" -> DirectedVerdicts[IF p \in ExpectedToDiverge THEN "diverge" ELSE "match"]

\* The next program of the batch, when it could be built and has a signature.
Compare(v) ==
  /\ cpc = "compare" /\ seen < Len(Batch) /\ job[Current].words # None
  /\ bad' = bad + (IF v.bad THEN 1 ELSE 0)
  /\ log' = log \cup ({Current} \X v.kinds)
  /\ files' = IF v.removed /\ ~ keep THEN [files EXCEPT ![Current] = remove_artifacts(@)] ELSE files
  /\ truth' = [truth EXCEPT ![Current] = IF @ = "ran" THEN v.really ELSE @]
  /\ seen' = seen + 1
  /\ UNCHANGED <<cpc, script, keep, inv, batches, job, status>>

\* And when not: its files stay.
CompareFailed ==
  /\ cpc = "compare" /\ seen < Len(Batch) /\ job[Current].words = None
  /\ bad' = bad + 1 /\ seen' = seen + 1
  /\ log' = log \cup {<<Current, IF job[Current].how = "error" THEN "build_error" ELSE "spike_error">>}
  /\ UNCHANGED <<cpc, script, keep, inv, batches, job, files, status, truth>>

\* The batch is done: its manifest is removed and the log flushed; after the last one, the verdict.
EndBatch ==
  /\ cpc = "compare" /\ seen = Len(Batch)
  /\ batches' = Tail(batches)
  /\ IF batches' = <<>> THEN cpc' = "ended" /\ status' = (IF bad > 0 THEN 1 ELSE 0)
     ELSE cpc' = "pool" /\ UNCHANGED status
  /\ UNCHANGED <<script, keep, inv, seen, job, files, log, bad, truth>>

\* Ctrl-C or a kill of the process group: the workers and Spike die with the script.
StopScript ==
  /\ Running /\ cpc' = "idle" /\ batches' = <<>>
  /\ UNCHANGED <<script, keep, inv, seen, job, files, log, bad, status, truth>>

CampaignStep ==
  \/ \E p \in Programs : WriteAsm(p) \/ Build(p) \/ SpikeEnds(p)
  \/ \E p \in Programs, c \in 1..Len(Commands) : BuildFails(p, c)
  \/ \E p \in Programs, how \in {"sig", "nosig", "hang"} : StartSpike(p, how)
  \/ RunRunner \/ RunnerFails \/ CompareFailed \/ EndBatch
  \/ cpc = "compare" /\ seen < Len(Batch) /\ \E v \in VerdictsOn(Current) : Compare(v)

CampaignNext ==
  \/ \E bs \in Batchings, k \in BOOLEAN : Invoke(bs, k)
  \/ CampaignStep \/ StopScript

CampaignSpec == CampaignInit /\ [][CampaignNext]_cvars

-----------------------------------------------------------------------------
(* Properties *)

Attempted == {p \in Programs : truth[p] # "unseen"}
Bad(p) == truth[p] \in {"failed", "diverged"}

\* A script that comes to its end tells the truth: its exit status is 1 if a program failed or
\* diverged and 0 if none did, whatever earlier invocations left behind (a signature above all). The
\* exception is "near": a divergence of a word of encsweep's whose access lies up to 512 bytes above
\* LOAD_ADDR, which known_class takes for one of the memory map or not, may count as bad or not.
\* Every program reported is in the log, and the files of a divergence are those of the program
\* that diverged; programs that pass leave nothing, unless --keep.
VerdictSound ==
  /\ cpc = "ended" =>
       /\ status = 0 => \A p \in Programs : ~ Bad(p)
       /\ status = 1 => \E p \in Programs : Bad(p) \/ truth[p] = "near"
       /\ \A p \in Attempted : Bad(p) => \E l \in log : l[1] = p
       /\ \A p \in Attempted : truth[p] = "clean" /\ ~ keep => files[p] = NoFiles
  /\ \A l \in log : l[2] \in {"configs", "spike_vs_det", "divergence", "unexpected"} =>
       \A e \in Extensions : files[l[1]][e] = inv

=============================================================================
