-------------------------- MODULE SpikeDiffProofs --------------------------
(***************************************************************************)
(* The scripts of tools/spike_diff: the trace script names real            *)
(* differences and misses none in a register Spike wrote last; a           *)
(* campaign's verdict is true, for every set of programs and batches; and  *)
(* no program that the generator emits can tell two right machines apart.  *)
(***************************************************************************)
EXTENDS Trace, Campaign, Gen, TLAPS, FiniteSetTheorems, SequenceTheorems

-----------------------------------------------------------------------------
(* The trace. *)

\* What the runner's lines have shown of a register is its value.
ShownIsTrue == \A r \in TraceRegs : dregs[r] # Unknown => dregs[r] = detRegs[r]

\* The inductive invariant.
TraceInv ==
  /\ spikeRegs \in [TraceRegs -> Vals] /\ detRegs \in [TraceRegs -> Vals]
  /\ dregs \in [TraceRegs -> Vals \cup {Unknown}] /\ ctr_off \in Vals \cup {Unknown}
  /\ checked \in [TraceRegs -> {"no", "alone", "value", "counter", "changed"}]
  /\ tpc \in {"idle", "boot"} => \A r \in TraceRegs : checked[r] = "no"
  /\ ShownIsTrue /\ TraceSound

LEMMA SubFacts ==
  ASSUME NEW v \in Vals, NEW u \in Vals
  PROVE  Sub(v, u) \in Vals /\ Sub(v, v) = 0 /\ 0 \in Vals /\ Unknown \notin Vals
<1>1. Width \in Nat /\ Width > 0
  BY TraceAssumption
<1>2. (v - u + Width) % Width \in 0 .. Width - 1
  BY <1>1 DEF Vals
<1>3. Width % Width = 0
  BY <1>1
<1>4. v - v + Width = Width
  BY <1>1 DEF Vals
<1> QED BY <1>1, <1>2, <1>3, <1>4 DEF Sub, Vals, Unknown

LEMMA StepRegs ==
  ASSUME TraceInv, NEW s \in Commits, NEW d \in Retired
  PROVE  /\ s.rd \in TraceRegs \cup {0} /\ d.rd \in TraceRegs \cup {0} /\ s.counter \in BOOLEAN
         /\ s.v \in Vals /\ d.v \in Vals
         /\ \A r \in TraceRegs : Writes(spikeRegs, s)[r] = IF r = s.rd THEN s.v ELSE spikeRegs[r]
         /\ \A r \in TraceRegs : Writes(detRegs, d)[r] = IF r = d.rd THEN d.v ELSE detRegs[r]
         /\ Writes(spikeRegs, s) \in [TraceRegs -> Vals] /\ Writes(detRegs, d) \in [TraceRegs -> Vals]
         /\ Changed(detRegs, d) \subseteq TraceRegs
<1>1. 0 \in Vals /\ 0 \notin TraceRegs
  BY TraceAssumption DEF Vals
<1>2. /\ s.rd \in TraceRegs \cup {0} /\ d.rd \in TraceRegs \cup {0} /\ s.counter \in BOOLEAN
      /\ s.v \in Vals /\ d.v \in Vals
  BY <1>1 DEF Commits, Retired
<1>3. /\ \A r \in TraceRegs : Writes(spikeRegs, s)[r] = IF r = s.rd THEN s.v ELSE spikeRegs[r]
      /\ Writes(spikeRegs, s) \in [TraceRegs -> Vals]
  BY <1>1, <1>2 DEF TraceInv, Writes
<1>4. /\ \A r \in TraceRegs : Writes(detRegs, d)[r] = IF r = d.rd THEN d.v ELSE detRegs[r]
      /\ Writes(detRegs, d) \in [TraceRegs -> Vals]
  BY <1>1, <1>2 DEF TraceInv, Writes
<1>5. Changed(detRegs, d) \subseteq TraceRegs
  BY <1>2 DEF Changed
<1> QED BY <1>2, <1>3, <1>4, <1>5

LEMMA AlignKeeps ==
  ASSUME TraceInv, NEW s \in Commits, NEW d \in Retired, TraceStep(s, d)
  PROVE  TraceInv'
<1> DEFINE changed == Changed(detRegs, d)
           shown == Learn(dregs, d, changed)
           off == Offset(ctr_off, shown, s)
<1>1. /\ dregs' = shown /\ ctr_off' = off /\ problems' = Problems(off, shown, s, d)
      /\ tpc = "align" /\ tpc' = (IF problems' = {} THEN "align" ELSE "found")
      /\ spikeRegs' = Writes(spikeRegs, s) /\ detRegs' = Writes(detRegs, d)
      /\ checked' = Compared(checked, s, Touched \cup changed, changed)
  BY DEF TraceStep, Align
<1>2. /\ s.rd \in TraceRegs \cup {0} /\ d.rd \in TraceRegs \cup {0} /\ s.counter \in BOOLEAN
      /\ s.v \in Vals /\ d.v \in Vals
      /\ \A r \in TraceRegs : spikeRegs'[r] = IF r = s.rd THEN s.v ELSE spikeRegs[r]
      /\ \A r \in TraceRegs : detRegs'[r] = IF r = d.rd THEN d.v ELSE detRegs[r]
      /\ spikeRegs' \in [TraceRegs -> Vals] /\ detRegs' \in [TraceRegs -> Vals]
      /\ changed \subseteq TraceRegs
  BY <1>1, StepRegs
<1>3. \A r \in TraceRegs : r \in changed <=> r = d.rd /\ d.v # detRegs[r]
  BY TraceAssumption DEF Changed
<1>4. shown \in [TraceRegs -> Vals \cup {Unknown}] /\ \A r \in TraceRegs : shown[r] = IF r \in changed THEN d.v ELSE dregs[r]
  BY <1>2 DEF Learn, TraceInv
<1> HIDE DEF changed, shown
<1>5. \A r \in TraceRegs : shown[r] # Unknown => shown[r] = detRegs'[r]
  BY <1>2, <1>3, <1>4 DEF TraceInv, ShownIsTrue
<1>6. \A r \in TraceRegs : r \in Differing(shown, s) <=> r = s.rd /\ shown[r] # Unknown /\ shown[r] # s.v
  BY TraceAssumption DEF Differing
<1>7. off \in Vals \cup {Unknown} /\ (ctr_off # Unknown => off = ctr_off)
  <2>1. CASE ctr_off = Unknown /\ s.counter /\ Differing(shown, s) # {}
    <3>1. s.rd \in TraceRegs /\ shown[s.rd] # Unknown
      BY <1>2, <2>1 DEF Differing
    <3>2. shown[s.rd] \in Vals
      BY <1>4, <3>1
    <3> QED BY <1>2, <2>1, <3>2, SubFacts DEF Offset
  <2>2. CASE ~(ctr_off = Unknown /\ s.counter /\ Differing(shown, s) # {})
    BY <2>2 DEF Offset, TraceInv
  <2> QED BY <2>1, <2>2
<1>8. ShownIsTrue'
  BY <1>1, <1>5 DEF ShownIsTrue
<1> HIDE DEF off
<1>9. /\ checked' \in [TraceRegs -> {"no", "alone", "value", "counter", "changed"}]
      /\ \A r \in TraceRegs : checked'[r] = IF r = s.rd
                                THEN IF r \notin Touched \cup changed THEN "alone" ELSE IF s.counter THEN "counter" ELSE "value"
                                ELSE IF r \in changed /\ checked[r] # "no" THEN "changed" ELSE checked[r]
  BY <1>1 DEF Compared, TraceInv
<1>10. \A r \in TraceRegs : <<"x", r>> \in problems' <=>
                              r \in Differing(shown, s) /\ ~(s.counter /\ Sub(s.v, shown[r]) = off)
  BY <1>1, <1>6 DEF Problems
<1>11. ASSUME NEW p \in problems', p[1] = "x" PROVE spikeRegs'[p[2]] # detRegs'[p[2]]
  <2>1. PICK r \in Differing(shown, s) : p = <<"x", r>>
    BY <1>1, <1>11 DEF Problems
  <2>2. r \in TraceRegs /\ r = s.rd /\ shown[r] # Unknown /\ shown[r] # s.v
    BY <1>2, <2>1 DEF Differing
  <2> QED BY <1>2, <1>5, <2>1, <2>2
<1>12. ASSUME tpc' = "align", NEW r \in TraceRegs
       PROVE  /\ checked'[r] = "value" => spikeRegs'[r] = detRegs'[r]
              /\ checked'[r] = "counter" => Sub(spikeRegs'[r], detRegs'[r]) \in {0, off}
  <2>1. problems' = {}
    BY <1>1, <1>12
  <2>2. CASE r = s.rd /\ r \in Touched \cup changed
    <3>1. shown[r] # Unknown /\ shown[r] = detRegs'[r] /\ spikeRegs'[r] = s.v /\ shown[r] \in Vals
      <4>1. shown[r] # Unknown
        BY <1>2, <1>4, <2>2, SubFacts DEF Touched
      <4> QED BY <1>2, <1>4, <1>5, <2>2, <4>1
    <3>2. shown[r] = s.v \/ (s.counter /\ Sub(s.v, shown[r]) = off)
      BY <1>6, <1>10, <2>1, <2>2, <3>1
    <3>3. checked'[r] = IF s.counter THEN "counter" ELSE "value"
      BY <1>9, <2>2
    <3>4. Sub(s.v, s.v) = 0
      BY <1>2, SubFacts
    <3> QED BY <1>2, <3>1, <3>2, <3>3, <3>4
  <2>3. CASE r # s.rd /\ r \notin changed
    <3>1. checked'[r] = checked[r] /\ spikeRegs'[r] = spikeRegs[r] /\ detRegs'[r] = detRegs[r]
      BY <1>2, <1>3, <1>9, <2>3
    <3>2. /\ checked[r] = "value" => spikeRegs[r] = detRegs[r]
          /\ checked[r] = "counter" => Sub(spikeRegs[r], detRegs[r]) \in {0, ctr_off}
      BY <1>1 DEF TraceInv, TraceSound
    <3>3. Sub(spikeRegs[r], detRegs[r]) # Unknown
      BY SubFacts DEF TraceInv
    <3> QED BY <1>7, <3>1, <3>2, <3>3
  <2>4. CASE ~(r = s.rd /\ r \in Touched \cup changed) /\ ~(r # s.rd /\ r \notin changed)
    BY <1>9, <2>4
  <2> QED BY <2>2, <2>3, <2>4
<1>13. TraceSound'
  BY <1>1, <1>11, <1>12 DEF TraceSound
<1> QED BY <1>1, <1>2, <1>4, <1>7, <1>8, <1>9, <1>13 DEF TraceInv

LEMMA TraceInvInit == TraceInit => TraceInv
<1> SUFFICES ASSUME TraceInit PROVE TraceInv
  OBVIOUS
<1>1. 0 \in Vals
  BY TraceAssumption DEF Vals
<1> QED BY <1>1 DEF TraceInit, TraceInv, NoRegs, Cleared, ShownIsTrue, TraceSound

LEMMA TraceInvNext == TraceInv /\ [TraceNext]_tvars => TraceInv'
<1> SUFFICES ASSUME TraceInv, [TraceNext]_tvars PROVE TraceInv'
  OBVIOUS
<1>1. ASSUME NEW s \in Commits, NEW d \in Retired, TraceStep(s, d) PROVE TraceInv'
  BY <1>1, AlignKeeps
<1>2. CASE TraceStart \/ TraceEnd \/ \E outcome \in {"align", "failed"} : TraceOn(outcome)
  <2>1. /\ UNCHANGED <<dregs, ctr_off, spikeRegs, detRegs, checked, problems>>
        /\ tpc' = "align" => tpc = "boot"
        /\ tpc' = "same" => tpc = "align"
        /\ tpc' \in {"idle", "boot"} => tpc = "idle"
    BY <1>2 DEF TraceStart, TraceEnd, TraceOn
  <2> QED BY <1>2, <2>1 DEF TraceInv, ShownIsTrue, TraceSound
<1>3. CASE UNCHANGED tvars
  BY <1>3 DEF tvars, TraceInv, ShownIsTrue, TraceSound
<1> QED BY <1>1, <1>2, <1>3 DEF TraceNext

\* For every register file and word width, and whatever the two machines execute:
\* while trace.py reports nothing, the registers that Spike wrote last, once Determinant's log had
\* shown them, agree up to the offset of the counters, and a register it reports in the first
\* divergence differs between the machines.
THEOREM TraceAlwaysSound == TraceSpec => []TraceSound
<1>1. TraceInv => TraceSound
  BY DEF TraceInv
<1> QED BY <1>1, TraceInvInit, TraceInvNext, PTL DEF TraceSpec

-----------------------------------------------------------------------------
(* What the scripts make of one compared program. *)

\* The two kinds of dumps: of a program that came to the trap handler, and of
\* one that did not.
LEMMA DumpFields ==
  ASSUME NEW w \in Dumps
  PROVE  \/ /\ w.marker = 0 /\ w.regs = <<0, 0>>
         \/ /\ w.marker = DUMP_MARKER /\ w.mcause \in UNION {CAUSES[s] : s \in DOMAIN CAUSES}
            /\ w.mepc \in Int /\ w.minstret \in Int /\ w.regs = Final /\ w.mscratch = 1 /\ w.mem = 1
  BY DEF Dumps, LOAD_ADDR, SPIKE_INSTRET_OFFSET

\* A cause belongs to one status.
LEMMA StatusOfCause ==
  ASSUME NEW c \in UNION {CAUSES[s] : s \in DOMAIN CAUSES}
  PROVE  /\ RunnerStatus(c) \in DOMAIN CAUSES /\ c \in CAUSES[RunnerStatus(c)]
         /\ \A s \in DOMAIN CAUSES : c \in CAUSES[s] => s = RunnerStatus(c)
         /\ "limit" \notin DOMAIN CAUSES /\ \E s \in DOMAIN CAUSES : s # RunnerStatus(c)
<1>1. \E s \in DOMAIN CAUSES : c \in CAUSES[s]
  OBVIOUS
<1>2. RunnerStatus(c) \in DOMAIN CAUSES /\ c \in CAUSES[RunnerStatus(c)]
  BY <1>1 DEF RunnerStatus
<1>3. \A s, t \in DOMAIN CAUSES : c \in CAUSES[s] /\ c \in CAUSES[t] => s = t
  BY DEF CAUSES
<1>4. DOMAIN CAUSES = {"ebreak", "ecall", "IllegalInstruction", "MisalignedAccess",
                       "AddressOutOfBounds", "PCOutOfBounds", "MisalignedPC"}
  BY DEF CAUSES
<1>5. \E s \in DOMAIN CAUSES : s # RunnerStatus(c)
  BY <1>4
<1> QED BY <1>2, <1>3, <1>4, <1>5

\* The records of a program agree exactly if none deviates and none is missing.
LEMMA ConfigsAgree ==
  ASSUME NEW rec, "digest" \in DOMAIN rec, rec["digest"] = 0, NEW other \in Others
  PROVE  /\ Records(rec, other)["cache"] = rec
         /\ compare_configs(Records(rec, other)) = {} <=> other = "same"
<1> DEFINE all == Records(rec, other)
<1>1. DOMAIN all = IF other = "missing" THEN {"cache", "nocache"} ELSE CONFIGS
  BY DEF Records, CONFIGS
<1>2. all["cache"] = rec
  BY DEF Records, CONFIGS, Others
<1>3. CASE other = "missing"
  <2>1. DOMAIN all # CONFIGS /\ "runtime" \in CONFIGS \ DOMAIN all
    BY <1>1, <1>3 DEF CONFIGS
  <2>2. <<"runtime", "missing">> \in compare_configs(all)
    BY <2>1 DEF compare_configs
  <2> QED BY <1>2, <1>3, <2>2
<1>4. CASE other = "same"
  <2>1. all["nocache"] = rec /\ all["runtime"] = rec
    BY <1>4 DEF Records, CONFIGS
  <2>2. compare_configs(all) = {}
    BY <1>1, <1>2, <1>4, <2>1 DEF compare_configs
  <2> QED BY <1>2, <1>4, <2>2
<1>5. CASE other \in {"nocache", "runtime"}
  <2>1. all[other] = [rec EXCEPT !.digest = 1]
    BY <1>5 DEF Records, CONFIGS
  <2>2. all[other]["digest"] # all["cache"]["digest"]
    BY <1>2, <2>1
  <2>3. <<other, "digest">> \in compare_configs(all)
    BY <1>1, <1>2, <1>5, <2>2 DEF compare_configs
  <2> QED BY <1>2, <1>5, <2>3
<1> QED BY <1>3, <1>4, <1>5 DEF Others

\* The fields of a record that compare() reads.
LEMMA RecordFields ==
  ASSUME NEW w, NEW dev \in Deviations, NEW rd \in 0 .. 1
  PROVE  LET det == Record(w, dev, rd)
             off(d) == IF dev = d THEN 4 ELSE 0
             stop == RunnerStatus(w.mcause)
             past == IF stop \in Stopped THEN 1 ELSE 0
         IN  /\ "digest" \in DOMAIN det /\ det["digest"] = 0
             /\ det.status = CASE dev = "limit" -> "limit"
                               [] dev = "status" -> (CHOOSE s \in DOMAIN CAUSES : s # stop)
                               [] OTHER -> stop
             /\ det.epc = w.mepc + off("epc")
             /\ det.retired = w.minstret - SPIKE_INSTRET_OFFSET + past + off("retired")
             /\ det.x0 = off("x0") /\ det["mscratch"] = w.mscratch + off("mscratch") /\ det["mem"] = w.mem + off("mem")
             /\ det.final_pc = w.mepc + off("epc") + 4 * past + off("pc") * 2
             /\ det.regs = [r \in 1..2 |-> IF r # rd THEN Final[r] ELSE Final[r] - off("reg") - 2 * off("count")]
  BY DEF Record

\* A deviation that shows: one of register x0's own kind does not.
Real(dev, rd) == IF rd = 0 /\ dev \in {"reg", "count"} THEN "none" ELSE dev

\* compare() finds no difference exactly if the machines do not differ, and of
\* a counter's value only that register.
LEMMA CompareSays ==
  ASSUME NEW w \in Dumps, NEW dev \in Deviations, NEW rd \in 0 .. 1
  PROVE  LET diffs == compare(spike_state(w), Record(w, dev, rd))
         IN  /\ diffs = {} <=> ~ Differs(w, Real(dev, rd))
             /\ w.marker = DUMP_MARKER /\ dev = "count" /\ rd = 1 => diffs = {<<"x", 1>>}
<1> DEFINE det == Record(w, dev, rd)
           sp == spike_state(w)
           diffs == compare(sp, det)
           off(d) == IF dev = d THEN 4 ELSE 0
           stop == RunnerStatus(w.mcause)
           past == IF stop \in Stopped THEN 1 ELSE 0
           known == det.status \in DOMAIN CAUSES /\ sp.mcause \in CAUSES[det.status]
           want == sp.minstret - SPIKE_INSTRET_OFFSET + (IF det.status \in Stopped THEN 1 ELSE 0)
           how == IF ~ known THEN {"outcome"}
                  ELSE IF sp.mepc # det.epc THEN {"epc"}
                  ELSE IF det.retired # want THEN {"retired"} ELSE {}
           zero == {"x0" : x \in {det.x0} \ {0}}
           regs == {<<"x", r>> : r \in {q \in DOMAIN sp.regs : sp.regs[q] # det.regs[q]}}
           rest == {f \in {"mscratch", "mem"} : sp[f] # det[f]}
<1>1. CASE w.marker = 0
  <2>1. w.marker # DUMP_MARKER
    BY <1>1 DEF DUMP_MARKER
  <2>2. diffs = {"marker"}
    BY <2>1 DEF compare, spike_state
  <2> QED BY <2>1, <2>2 DEF Differs
<1>2. CASE w.marker # 0
  <2>0. /\ w.marker = DUMP_MARKER /\ w.mcause \in UNION {CAUSES[s] : s \in DOMAIN CAUSES}
        /\ w.mepc \in Int /\ w.minstret \in Int /\ w.regs = Final /\ w.mscratch = 1 /\ w.mem = 1
    BY <1>2, DumpFields
  <2>1. /\ sp.marker_ok = (w.marker = DUMP_MARKER) /\ sp.regs = Final /\ sp["mscratch"] = 1 /\ sp.mcause = w.mcause
        /\ sp.mepc = w.mepc /\ sp.minstret = w.minstret /\ sp["mem"] = 1
    BY <2>0 DEF spike_state
  <2>2. diffs = how \cup zero \cup regs \cup rest
    BY <2>0, <2>1 DEF compare
  <2>3. how = {} <=> dev \notin {"limit", "status", "epc", "retired"}
    <3>1. /\ stop \in DOMAIN CAUSES /\ w.mcause \in CAUSES[stop]
          /\ \A s \in DOMAIN CAUSES : w.mcause \in CAUSES[s] => s = stop
          /\ "limit" \notin DOMAIN CAUSES /\ \E s \in DOMAIN CAUSES : s # stop
      BY <2>0, StatusOfCause
    <3>2. det.status = CASE dev = "limit" -> "limit"
                         [] dev = "status" -> (CHOOSE s \in DOMAIN CAUSES : s # stop)
                         [] OTHER -> stop
      BY RecordFields, ZenonT(40)
    <3>3. known <=> dev \notin {"limit", "status"}
      <4>1. CASE dev = "limit"
        BY <3>1, <3>2, <4>1
      <4>2. CASE dev = "status"
        <5>1. det.status \in DOMAIN CAUSES /\ det.status # stop
          BY <3>1, <3>2, <4>2
        <5> QED BY <3>1, <5>1, <4>2, <2>1
      <4>3. CASE dev \notin {"limit", "status"}
        BY <3>1, <3>2, <4>3, <2>1
      <4> QED BY <4>1, <4>2, <4>3
    <3>4. dev \notin {"limit", "status"} => det.status = stop
      BY <3>2
    <3>5. det.epc = w.mepc + off("epc")
      BY RecordFields, ZenonT(60)
    <3>6. det.retired = w.minstret - SPIKE_INSTRET_OFFSET + past + off("retired")
      BY RecordFields, ZenonT(80)
    <3> HIDE DEF det, sp, known, stop
    <3> QED BY <2>0, <2>1, <3>3, <3>4, <3>5, <3>6 DEF SPIKE_INSTRET_OFFSET
  <2>4. zero = {} <=> dev # "x0"
    <3>1. det.x0 = off("x0")
      BY RecordFields, ZenonT(40)
    <3> HIDE DEF det
    <3> QED BY <3>1
  <2>5. regs = IF rd = 1 /\ dev \in {"reg", "count"} THEN {<<"x", 1>>} ELSE {}
    <3>1. det.regs = [r \in 1..2 |-> IF r # rd THEN Final[r] ELSE Final[r] - off("reg") - 2 * off("count")]
      BY DEF Record
    <3>2. DOMAIN sp.regs = 1 .. 2 /\ sp.regs[1] = 100 /\ sp.regs[2] = 200
      BY <2>1 DEF Final
    <3>3. /\ det.regs[2] = 200
          /\ det.regs[1] = IF rd # 1 THEN 100 ELSE 100 - off("reg") - 2 * off("count")
      BY <3>1 DEF Final
    <3> HIDE DEF det, sp
    <3>4. {q \in DOMAIN sp.regs : sp.regs[q] # det.regs[q]} = IF rd = 1 /\ dev \in {"reg", "count"} THEN {1} ELSE {}
      BY <3>2, <3>3
    <3> QED BY <3>4
  <2>6. rest = {} <=> dev \notin {"mscratch", "mem"}
    <3>1. det["mscratch"] = w.mscratch + off("mscratch") /\ det["mem"] = w.mem + off("mem")
      BY RecordFields, ZenonT(40)
    <3> HIDE DEF det, sp
    <3> QED BY <2>0, <2>1, <3>1
  <2>7. Differs(w, Real(dev, rd)) <=> Real(dev, rd) \notin {"none", "pc"}
    BY <2>0 DEF Differs
  <2>8. Real(dev, rd) \notin {"none", "pc"}
          <=> \/ dev \in {"limit", "status", "epc", "retired"} \/ dev = "x0" \/ dev \in {"mscratch", "mem"}
              \/ rd = 1 /\ dev \in {"reg", "count"}
    BY DEF Real, Deviations
  <2> HIDE DEF how, zero, regs, rest
  <2>9. diffs = {} <=> how = {} /\ zero = {} /\ regs = {} /\ rest = {}
    BY <2>2
  <2>10. dev = "count" => how = {} /\ zero = {} /\ rest = {}
    BY <2>3, <2>4, <2>6
  <2> HIDE DEF diffs
  <2>11. dev = "count" /\ rd = 1 => diffs = {<<"x", 1>>}
    BY <2>2, <2>5, <2>10
  <2>12. diffs = {} <=> ~ Differs(w, Real(dev, rd))
    BY <2>3, <2>4, <2>5, <2>6, <2>7, <2>8, <2>9
  <2> QED BY <2>11, <2>12 DEF diffs
<1> QED BY <1>1, <1>2

DivergenceKinds == {"configs", "spike_vs_det", "divergence", "unexpected"}

\* What makes the verdict on a program honest: it counts exactly what went
\* wrong (where the sweep may excuse it or not, either will do), a line says
\* so, and the files of a program that is reported stay.
Honest(v) ==
  /\ v.kinds \subseteq DivergenceKinds
  /\ v.really \in {"diverged", "clean", "known", "near"}
  /\ v.bad => v.really \in {"diverged", "near"}
  /\ v.really = "diverged" => v.bad /\ v.kinds # {}
  /\ v.removed => v.kinds = {}

\* One that passes leaves no files.
Tidy(v) == v.really = "clean" => v.removed

\* fuzz.py
LEMMA FuzzHonest ==
  ASSUME NEW v \in FuzzVerdicts
  PROVE  Honest(v) /\ Tidy(v)
<1>1. PICK w \in Dumps, dev \in Deviations, other \in Others : v = FuzzVerdict(w, dev, other)
  BY DEF FuzzVerdicts
<1> DEFINE det == Record(w, dev, 1)
           dd == compare_configs(Records(det, other))
           diffs == compare(spike_state(w), Records(det, other)["cache"])
           kinds == (IF dd # {} THEN {"configs"} ELSE {}) \cup (IF diffs # {} THEN {"spike_vs_det"} ELSE {})
           really == IF Differs(w, dev) \/ other # "same" THEN "diverged" ELSE "clean"
<1>2. "digest" \in DOMAIN det /\ det["digest"] = 0
  BY DEF Record
<1>3. Records(det, other)["cache"] = det /\ (dd = {} <=> other = "same")
  <2> HIDE DEF det
  <2> QED BY <1>2, ConfigsAgree
<1>4. diffs = {} <=> ~ Differs(w, dev)
  BY <1>3, CompareSays DEF Real
<1>5. /\ v.bad <=> dd # {} \/ diffs # {}
      /\ v.kinds = kinds /\ v.really = really
      /\ v.removed <=> dd = {} /\ diffs = {}
  BY <1>1 DEF FuzzVerdict, Verdict
<1> HIDE DEF det, dd, diffs
<1> QED BY <1>3, <1>4, <1>5 DEF Honest, Tidy, DivergenceKinds

\* directed.py
LEMMA DirectedHonest ==
  ASSUME NEW x \in {"match", "diverge"}, NEW v \in DirectedVerdicts[x]
  PROVE  Honest(v)
<1>1. PICK w \in Dumps, dev \in Deviations, other \in Others : v = DirectedVerdict(w, x, dev, other)
  BY DEF DirectedVerdicts
<1> DEFINE det == Record(w, dev, 1)
           dd == compare_configs(Records(det, other))
           diffs == compare(spike_state(w), Records(det, other)["cache"])
           match == diffs = {} /\ PcRests(Records(det, other)["cache"])
           ok == match = (x = "match") /\ dd = {}
           kinds == IF ok THEN {} ELSE {"unexpected"}
           clean == other = "same" /\ (Differs(w, dev) \/ dev = "pc") = (x # "match")
           really == IF clean THEN "clean" ELSE "diverged"
<1>2. "digest" \in DOMAIN det /\ det["digest"] = 0
  BY DEF Record
<1>3. Records(det, other)["cache"] = det /\ (dd = {} <=> other = "same")
  <2> HIDE DEF det
  <2> QED BY <1>2, ConfigsAgree
<1>4. diffs = {} <=> ~ Differs(w, dev)
  BY <1>3, CompareSays DEF Real
<1>5. /\ v.bad <=> ~ ok
      /\ v.kinds = kinds /\ v.really = really /\ v.removed = FALSE
  BY <1>1 DEF DirectedVerdict, Verdict
<1>6. diffs = {} => (PcRests(det) <=> dev # "pc")
  <2> SUFFICES ASSUME diffs = {} PROVE PcRests(det) <=> dev # "pc"
    OBVIOUS
  <2>1. w.marker = DUMP_MARKER /\ dev \in {"none", "pc"}
    BY <1>4 DEF Differs
  <2>2. w.mepc \in Int
    BY <2>1, DumpFields DEF DUMP_MARKER
  <2>3. /\ det.status = RunnerStatus(w.mcause)
        /\ det.epc = w.mepc + 0
        /\ det.final_pc = w.mepc + 0 + 4 * (IF RunnerStatus(w.mcause) \in Stopped THEN 1 ELSE 0)
                            + (IF dev = "pc" THEN 4 ELSE 0) * 2
    BY <2>1 DEF Record
  <2> HIDE DEF det
  <2> QED BY <2>1, <2>2, <2>3 DEF PcRests
<1> HIDE DEF det, dd, diffs
<1>7. ok <=> clean
  <2>1. match <=> ~ (Differs(w, dev) \/ dev = "pc")
    BY <1>3, <1>4, <1>6
  <2>2. Differs(w, dev) \in BOOLEAN
    BY DEF Differs
  <2> QED BY <2>1, <2>2, <1>3
<1> HIDE DEF ok, clean
<1> QED BY <1>5, <1>7 DEF Honest, DivergenceKinds

\* encsweep.py: the two addresses of an access agree on which side of the line
\* it is, but near it.
LEMMA SweepAddresses ==
  ASSUME NEW word \in SweepWords
  PROVE  /\ word.rd \in 0 .. 1
         /\ word.form \in {"csr", "other"} => Address(word) = NoAddress /\ effective_address(word) = NoAddress
         /\ word.form \notin {"csr", "other"} =>
              /\ Address(word) # NoAddress /\ effective_address(word) # NoAddress
              /\ Address(word) < LOAD_ADDR => effective_address(word) < LOAD_ADDR + 256
              /\ Address(word) >= LOAD_ADDR + 512 => effective_address(word) >= LOAD_ADDR + 256
              /\ Address(word) \in Int /\ effective_address(word) \in Int
<1>0. word \in CsrWords \/ word \in BaseWords \/ word \in OffsetWords \/ word \in OtherWords
  BY DEF SweepWords
<1>1. CASE word \in CsrWords \/ word \in OtherWords
  <2>1. word.form \in {"csr", "other"} /\ word.rd \in 0 .. 1
    <3>1. CASE word \in CsrWords
      BY <3>1, Zenon DEF CsrWords
    <3>2. CASE word \in OtherWords
      BY <3>2 DEF OtherWords
    <3> QED BY <1>1, <3>1, <3>2
  <2> QED BY <2>1 DEF NoAddress, Address, effective_address
<1>2. CASE word \in BaseWords
  <2>1. word.form \in {"compressed", "amo"} /\ word.rd \in {1} /\ word.imm \in {0, 252}
    BY <1>2 DEF BaseWords
  <2>2. word.base \in {65536 - 4, 65536 + 8192}
    BY <1>2 DEF BaseWords, LOAD_ADDR
  <2> QED BY <2>1, <2>2 DEF LOAD_ADDR, AddressSpace, NoAddress, Address, effective_address
<1>3. CASE word \in OffsetWords
  <2>1. word.form \in {"load", "store", "jalr"} /\ word.rd \in {1} /\ word.imm \in {- 8, 0, 16}
    BY <1>3 DEF OffsetWords
  <2>2. word.base \in {65536, 65536 + 8192, 1048576 - 4}
    BY <1>3 DEF OffsetWords, LOAD_ADDR, AddressSpace
  <2> QED BY <2>1, <2>2 DEF LOAD_ADDR, AddressSpace, NoAddress, Address, effective_address
<1> QED BY <1>0, <1>1, <1>2, <1>3

LEMMA SweepExcuses ==
  ASSUME NEW w \in Dumps, NEW word \in SweepWords, NEW dev \in Deviations, Differs(w, Real(dev, word.rd))
  PROVE  LET det == Record(w, dev, word.rd)
             sp == spike_state(w)
             known == known_class(word, sp, det, compare(sp, det))
         IN  /\ Excuse(w, word, dev) \in {"known", "diverged", "near"}
             /\ Excuse(w, word, dev) = "known" => known # "none"
             /\ Excuse(w, word, dev) = "diverged" => known = "none"
<1> DEFINE det == Record(w, dev, word.rd)
           sp == spike_state(w)
           diffs == compare(sp, det)
           known == known_class(word, sp, det, diffs)
           counts == /\ word.form = "csr" /\ word.counter /\ Cardinality(diffs) = 1 /\ word.rd # 0
                     /\ (sp.regs[word.rd] - det.regs[word.rd]) % AddressSpace = 8
           low == effective_address(word) # NoAddress /\ effective_address(word) < LOAD_ADDR + 256
           mine == w.marker = DUMP_MARKER /\ word.form = "csr" /\ word.counter /\ dev = "count"
<1>0. word.rd \in 0 .. 1
  BY SweepAddresses
<1>1. known = IF counts THEN "counter" ELSE IF low THEN "memory_map" ELSE "none"
  BY DEF known_class
<1>2. counts <=> mine
  <2>1. CASE word.form # "csr"
    BY <2>1
  <2>2. CASE word.rd = 0
    <3>1. ~ mine
      BY <2>2 DEF Differs, Real
    <3> QED BY <2>2, <3>1
  <2>3. CASE word.form = "csr" /\ word.rd = 1
    <3>1. det.regs[1] = 100 - (IF dev = "reg" THEN 4 ELSE 0) - 2 * (IF dev = "count" THEN 4 ELSE 0)
      BY <2>3 DEF Record, Final
    <3>2. sp.regs[1] = IF w.marker = DUMP_MARKER THEN 100 ELSE 0
      BY DumpFields DEF spike_state, Final, DUMP_MARKER
    <3>3. mine => Cardinality(diffs) = 1
      <4>1. mine => diffs = {<<"x", 1>>}
        BY <2>3, CompareSays, <1>0
      <4>2. Cardinality({<<"x", 1>>}) = 1
        BY FS_Singleton
      <4> QED BY <4>1, <4>2
    <3> HIDE DEF det, sp, diffs
    <3>4. (sp.regs[1] - det.regs[1]) % AddressSpace = 8 <=> w.marker = DUMP_MARKER /\ dev = "count"
      BY <3>1, <3>2 DEF AddressSpace
    <3> QED BY <2>3, <3>3, <3>4
  <2> QED BY <1>0, <2>1, <2>2, <2>3
<1> DEFINE else == IF Address(word) = NoAddress \/ Address(word) >= LOAD_ADDR + 512 THEN "diverged"
                   ELSE IF Address(word) < LOAD_ADDR THEN "known" ELSE "near"
<1>3. /\ mine => Excuse(w, word, dev) = "known"
      /\ ~ mine /\ word.form \notin {"csr", "other"} /\ Address(word) # NoAddress => Excuse(w, word, dev) = else
      /\ ~ mine /\ Address(word) = NoAddress => Excuse(w, word, dev) = "diverged"
  BY DEF Excuse
<1>4. mine => word.form = "csr"
  OBVIOUS
<1> DEFINE excuse == Excuse(w, word, dev)
<1> HIDE DEF counts, known, mine, excuse
<1>5. CASE word.form \in {"csr", "other"}
  <2>1. Address(word) = NoAddress /\ ~ low
    BY <1>5, SweepAddresses
  <2>2. excuse = IF mine THEN "known" ELSE "diverged"
    BY <1>3, <2>1 DEF excuse
  <2>3. known = IF mine THEN "counter" ELSE "none"
    BY <1>1, <1>2, <2>1
  <2>4. excuse \in {"known", "diverged", "near"} /\ (excuse = "known" => known # "none")
          /\ (excuse = "diverged" => known = "none")
    BY <2>2, <2>3
  <2> QED BY <2>4 DEF excuse, known
<1>6. CASE word.form \notin {"csr", "other"}
  <2>1. ~ mine
    BY <1>4, <1>6
  <2>2. excuse = IF Address(word) >= LOAD_ADDR + 512 THEN "diverged"
                 ELSE IF Address(word) < LOAD_ADDR THEN "known" ELSE "near"
    <3>1. Address(word) # NoAddress
      BY <1>6, SweepAddresses
    <3> QED BY <1>3, <1>6, <2>1, <3>1 DEF excuse
  <2>3. known = IF low THEN "memory_map" ELSE "none"
    BY <1>1, <1>2, <2>1
  <2>4. /\ Address(word) \in Int /\ effective_address(word) \in Int
        /\ Address(word) < LOAD_ADDR => low
        /\ Address(word) >= LOAD_ADDR + 512 => ~ low
    BY <1>6, SweepAddresses DEF LOAD_ADDR
  <2>5. excuse \in {"known", "diverged", "near"} /\ (excuse = "known" => known # "none")
          /\ (excuse = "diverged" => known = "none")
    <3> HIDE DEF low
    <3> QED BY <2>2, <2>3, <2>4
  <2> QED BY <2>5 DEF excuse, known
<1> QED BY <1>5, <1>6

LEMMA SweepHonest ==
  ASSUME NEW v \in SweepVerdicts
  PROVE  Honest(v) /\ Tidy(v)
<1>1. PICK w \in Dumps, word \in SweepWords, dev \in Deviations, other \in Others :
        v = SweepVerdict(w, word, dev, other)
  BY DEF SweepVerdicts
<1> DEFINE det == Record(w, dev, word.rd)
           dd == compare_configs(Records(det, other))
           diffs == compare(spike_state(w), Records(det, other)["cache"])
           known == known_class(word, spike_state(w), Records(det, other)["cache"], diffs)
           kinds == (IF dd # {} THEN {"configs"} ELSE {}) \cup (IF diffs # {} THEN {"divergence"} ELSE {})
           real == Real(dev, word.rd)
           really == IF other # "same" THEN "diverged"
                     ELSE IF Differs(w, real) THEN Excuse(w, word, dev) ELSE "clean"
<1>0. word.rd \in 0 .. 1
  BY SweepAddresses
<1>2. "digest" \in DOMAIN det /\ det["digest"] = 0
  BY DEF Record
<1>3. Records(det, other)["cache"] = det /\ (dd = {} <=> other = "same")
  <2> HIDE DEF det
  <2> QED BY <1>2, ConfigsAgree
<1>4. diffs = {} <=> ~ Differs(w, real)
  BY <1>0, <1>3, CompareSays
<1>5. /\ v.bad <=> dd # {} \/ (diffs # {} /\ known = "none")
      /\ v.kinds = kinds /\ v.really = really
      /\ v.removed <=> dd = {} /\ diffs = {}
  BY <1>1 DEF SweepVerdict, Verdict, Real
<1>6. Differs(w, real) => /\ Excuse(w, word, dev) \in {"known", "diverged", "near"}
                          /\ Excuse(w, word, dev) = "known" => known # "none"
                          /\ Excuse(w, word, dev) = "diverged" => known = "none"
  BY <1>3, SweepExcuses
<1> HIDE DEF det, dd, diffs, known, real
<1> QED BY <1>3, <1>4, <1>5, <1>6 DEF Honest, Tidy, DivergenceKinds

\* The verdict of whichever script runs; directed.py keeps every file.
LEMMA VerdictsHonest ==
  ASSUME NEW p, script \in {"fuzz", "encsweep", "directed"}, NEW v \in VerdictsOn(p)
  PROVE  Honest(v) /\ (script # "directed" => Tidy(v))
<1>1. CASE script = "fuzz"
  BY <1>1, FuzzHonest DEF VerdictsOn
<1>2. CASE script = "encsweep"
  BY <1>2, SweepHonest DEF VerdictsOn
<1>3. CASE script = "directed"
  BY <1>3, DirectedHonest DEF VerdictsOn
<1> QED BY <1>1, <1>2, <1>3

-----------------------------------------------------------------------------
(* The campaigns. *)

\* No program occurs twice.
Distinct(bs) ==
  \A i, k \in DOMAIN bs : \A j \in DOMAIN bs[i], l \in DOMAIN bs[k] : bs[i][j] = bs[k][l] => i = k /\ j = l

\* The programs this invocation has still to compare.
Left(p) ==
  Running /\ \E i \in DOMAIN batches : \E j \in DOMAIN batches[i] :
               batches[i][j] = p /\ (cpc = "compare" /\ i = 1 => j > seen)

Built == Extensions \ {"sig"}

\* What a program's job, files and truth say of each other until it is compared.
Consistent(p) ==
  /\ job[p].st \in {"wait", "build", "spike", "run", "done"}
  /\ job[p].st \in {"wait", "build", "spike"} => truth[p] = "unseen"
  /\ job[p].st = "build" => files[p]["s"] = inv
  /\ job[p].st \in {"spike", "run"} => \A e \in Built : files[p][e] = inv
  /\ job[p].st = "run" =>
       /\ files[p]["sig"] = None /\ job[p].how \in {"sig", "nosig", "hang"}
       /\ truth[p] = IF job[p].how = "sig" THEN "ran" ELSE "failed"
  /\ job[p].st = "done" =>
       \/ job[p].words = None /\ truth[p] = "failed"
       \/ /\ job[p].words # None /\ truth[p] = "ran"
          /\ \A e \in Extensions : files[p][e] = inv

\* What has been told of a program that is no longer left.
Told(p) ==
  truth[p] # "unseen" =>
    /\ truth[p] \in {"failed", "diverged", "clean", "known", "near"}
    /\ Bad(p) => bad > 0 /\ \E l \in log : l[1] = p
    /\ truth[p] = "clean" /\ ~ keep => files[p] = NoFiles

CampaignType ==
  /\ cpc \in {"idle", "pool", "compare", "ended", "aborted"}
  /\ script \in {"fuzz", "encsweep", "directed"}
  /\ inv \in Nat /\ seen \in Nat /\ bad \in Nat
  /\ job \in [Programs -> [st : {"wait", "build", "spike", "run", "done"},
                           how : {"none", "error", "sig", "nosig", "hang"}, words : Nat]]
  /\ files \in [Programs -> [Extensions -> Nat]]
  /\ DOMAIN truth = Programs
  /\ log \in SUBSET (Programs \X (DivergenceKinds \cup {"build_error", "spike_error"}))

\* The inductive invariant.
CampaignInv ==
  /\ CampaignType
  /\ Running => /\ batches \in Seq(Seq(Programs)) /\ batches # <<>> /\ Distinct(batches) /\ inv > 0
                /\ script = "directed" => keep
  /\ cpc = "compare" => \A p \in Elements(Batch) : job[p].st = "done"
  /\ \A p \in Programs : Left(p) => Consistent(p) /\ \A l \in log : l[1] # p
  /\ Running => \A p \in Programs : job[p].st \notin {"wait", "done"} => Left(p)
  /\ Running \/ cpc = "ended" => \A p \in Programs : ~ Left(p) => Told(p)
  /\ bad > 0 => \E p \in Programs : Bad(p) \/ truth[p] = "near"
  /\ cpc = "ended" => status = IF bad > 0 THEN 1 ELSE 0
  /\ \A l \in log : l[2] \in DivergenceKinds => \A e \in Extensions : files[l[1]][e] = inv

LEMMA FrontBatch ==
  ASSUME batches \in Seq(Seq(Programs)), batches # <<>>
  PROVE  /\ Batch = batches[1] /\ Batch \in Seq(Programs) /\ DOMAIN Batch = 1 .. Len(Batch) /\ Len(Batch) \in Nat
         /\ DOMAIN batches = 1 .. Len(batches) /\ Len(batches) \in Nat /\ Len(batches) >= 1
         /\ \A i \in DOMAIN batches : batches[i] \in Seq(Programs) /\ DOMAIN batches[i] = 1 .. Len(batches[i])
         /\ Elements(Batch) \subseteq Programs
  BY DEF Batch, Elements

\* The programs of the first batch are left while the workers are at it.
LEMMA BatchLeft ==
  ASSUME CampaignInv, cpc = "pool", NEW i \in 1 .. Len(Batch)
  PROVE  Batch[i] \in Programs /\ Left(Batch[i])
<1>1. batches \in Seq(Seq(Programs)) /\ batches # <<>>
  BY DEF CampaignInv, Running
<1>2. 1 \in DOMAIN batches /\ batches[1] = Batch /\ i \in DOMAIN batches[1] /\ Batch[i] \in Programs
  BY <1>1, FrontBatch
<1> QED BY <1>2 DEF Left, Running

\* A worker's step on its program.
LEMMA WorkKeeps ==
  ASSUME CampaignInv, cpc = "pool", NEW p \in Programs, Left(p), CampaignType',
         UNCHANGED <<cpc, script, keep, inv, batches, seen, log, bad, status>>,
         \A q \in Programs \ {p} : job'[q] = job[q] /\ files'[q] = files[q] /\ truth'[q] = truth[q],
         truth'[p] = truth[p] \/ truth[p] = "unseen",
         Consistent(p)'
  PROVE  CampaignInv'
<1>1. \A q \in Programs : Left(q)' <=> Left(q)
  BY DEF Left, Running
<1>2. (\A q \in Programs : Left(q) => Consistent(q) /\ \A l \in log : l[1] # q)'
  BY <1>1 DEF CampaignInv, Consistent
<1>3. (Running => \A q \in Programs : job[q].st \notin {"wait", "done"} => Left(q))'
  BY <1>1 DEF CampaignInv, Running
<1>4. (Running \/ cpc = "ended" => \A q \in Programs : ~ Left(q) => Told(q))'
  BY <1>1 DEF CampaignInv, Running, Told, Bad
<1>5. (bad > 0 => \E q \in Programs : Bad(q) \/ truth[q] = "near")'
  BY DEF CampaignInv, Bad
<1>6. (\A l \in log : l[2] \in DivergenceKinds => \A e \in Extensions : files[l[1]][e] = inv)'
  <2> SUFFICES ASSUME NEW l \in log, l[2] \in DivergenceKinds, NEW e \in Extensions
               PROVE  files'[l[1]][e] = inv
    OBVIOUS
  <2>1. l[1] \in Programs /\ l[1] # p /\ files[l[1]][e] = inv
    BY DEF CampaignInv, CampaignType
  <2> QED BY <2>1
<1>7. (Running => /\ batches \in Seq(Seq(Programs)) /\ batches # <<>> /\ Distinct(batches) /\ inv > 0
                  /\ script = "directed" => keep)'
  BY DEF CampaignInv, Running
<1> QED BY <1>2, <1>3, <1>4, <1>5, <1>6, <1>7 DEF CampaignInv

\* An exception nobody catches, and a stop.
LEMMA StopKeeps ==
  ASSUME CampaignInv, CampaignType', cpc' \in {"aborted", "idle"}, UNCHANGED <<inv, log, bad>>,
         \A l \in log : files'[l[1]] = files[l[1]],
         \A q \in Programs : truth'[q] = truth[q] \/ truth[q] = "unseen"
  PROVE  CampaignInv'
<1>1. ~ Running' /\ \A q : ~ Left(q)'
  BY DEF Running, Left
<1>2. (bad > 0 => \E q \in Programs : Bad(q) \/ truth[q] = "near")'
  BY DEF CampaignInv, Bad
<1>3. (\A l \in log : l[2] \in DivergenceKinds => \A e \in Extensions : files[l[1]][e] = inv)'
  BY DEF CampaignInv
<1> QED BY <1>1, <1>2, <1>3 DEF CampaignInv

LEMMA InvokeKeeps ==
  ASSUME CampaignInv, NEW bs \in Batchings, NEW k \in BOOLEAN, Invoke(bs, k)
  PROVE  CampaignInv'
<1>1. /\ job' = [p \in Programs |-> NoJob] /\ truth' = [p \in Programs |-> "unseen"]
      /\ log' = {} /\ bad' = 0 /\ seen' = 0 /\ inv' = inv + 1 /\ UNCHANGED <<script, files>>
      /\ script = "directed" => keep'
      /\ (cpc' = "pool" /\ batches' = bs) \/ cpc' = "aborted"
  BY DEF Invoke, Abort
<1>2. CampaignType'
  BY <1>1 DEF CampaignInv, CampaignType, NoJob, None
<1>3. \A p \in Programs : Consistent(p)' /\ Told(p)'
  BY <1>1 DEF Consistent, Told, NoJob
<1>4. (Running => /\ batches \in Seq(Seq(Programs)) /\ batches # <<>> /\ Distinct(batches) /\ inv > 0
                  /\ script = "directed" => keep)'
  BY <1>1, CampaignAssumption DEF CampaignInv, CampaignType, Running, Distinct
<1>5. \A p \in Programs : job'[p].st = "wait"
  BY <1>1 DEF NoJob
<1> QED BY <1>1, <1>2, <1>3, <1>4, <1>5 DEF CampaignInv, Running

\* A field of one worker's job.
LEMMA JobFields ==
  ASSUME CampaignInv, NEW p \in Programs
  PROVE  /\ job[p] \in [st : {"wait", "build", "spike", "run", "done"},
                        how : {"none", "error", "sig", "nosig", "hang"}, words : Nat]
         /\ files[p] \in [Extensions -> Nat] /\ inv \in Nat
         /\ DOMAIN job = Programs /\ DOMAIN files = Programs /\ DOMAIN truth = Programs
  BY DEF CampaignInv, CampaignType

LEMMA ExtensionNames == "s" \in Built /\ "sig" \in Extensions /\ "sig" \notin Built /\ Built \subseteq Extensions
  BY DEF Built, Extensions

\* build() up to the failing command leaves files; a whole one leaves all but
\* the signature, together with the assembly written before.
LEMMA BuildLeaves ==
  ASSUME NEW f \in [Extensions -> Nat], NEW v \in Nat, NEW c
  PROVE  /\ AfterBuild(f, v, c) \in [Extensions -> Nat]
         /\ f["s"] = v => \A e \in Built : AfterBuild(f, v, Len(Commands) + 1)[e] = v
<1>1. AfterBuild(f, v, c) \in [Extensions -> Nat]
  BY DEF AfterBuild
<1>2. Len(Commands) = 4 /\ Commands[1] = "o" /\ Commands[2] = "elf" /\ Commands[3] = "bin"
  BY DEF Commands
<1>3. ASSUME f["s"] = v, NEW e \in Built PROVE AfterBuild(f, v, Len(Commands) + 1)[e] = v
  <2>1. e \in Extensions /\ (e = "s" \/ e = "o" \/ e = "elf" \/ e = "bin")
    BY DEF Built, Extensions
  <2>2. CASE e = "s"
    BY <1>3, <2>1, <2>2 DEF AfterBuild
  <2>3. CASE e # "s"
    <3>1. \E i \in 1 .. Len(Commands) + 1 - 1 : Commands[i] = e
      BY <1>2, <2>1, <2>3
    <3> QED BY <2>1, <3>1 DEF AfterBuild
  <2> QED BY <2>2, <2>3
<1> QED BY <1>1, <1>3

LEMMA WriteAsmKeeps ==
  ASSUME CampaignInv, NEW p \in Programs, WriteAsm(p)
  PROVE  CampaignInv'
<1>1. PICK i \in Due : p = Batch[i]
  BY DEF WriteAsm
<1>2. i \in 1 .. Len(Batch) /\ job[p].st = "wait" /\ cpc = "pool"
  BY <1>1 DEF Due, WriteAsm
<1>3. Left(p)
  BY <1>1, <1>2, BatchLeft
<1>4. Consistent(p)
  BY <1>3 DEF CampaignInv
<1>5. /\ job' = [job EXCEPT ![p].st = "build"] /\ files' = [files EXCEPT ![p].s = inv]
      /\ UNCHANGED <<cpc, script, keep, inv, batches, seen, log, bad, status, truth>>
  BY DEF WriteAsm
<1>6. job'[p].st = "build" /\ files'[p]["s"] = inv /\ truth'[p] = "unseen"
  BY <1>2, <1>4, <1>5, JobFields, ExtensionNames DEF Consistent
<1>7. CampaignType'
  BY <1>5, ZenonT(40) DEF CampaignInv, CampaignType
<1>8. Consistent(p)'
  BY <1>5, <1>6 DEF Consistent
<1> QED BY <1>2, <1>3, <1>5, <1>7, <1>8, JobFields, WorkKeeps

\* A program in a worker's hands is left, and what is known of it holds.
LEMMA ActiveLeft ==
  ASSUME CampaignInv, cpc = "pool", NEW p \in Programs, job[p].st \in {"build", "spike", "run"}
  PROVE  Left(p) /\ Consistent(p)
  BY DEF CampaignInv, Running

LEMMA BuildKeeps ==
  ASSUME CampaignInv, NEW p \in Programs, Build(p)
  PROVE  CampaignInv'
<1>1. /\ cpc = "pool" /\ job[p].st = "build"
      /\ files' = [files EXCEPT ![p] = AfterBuild(@, inv, Len(Commands) + 1)]
      /\ job' = [job EXCEPT ![p].st = "spike"]
      /\ UNCHANGED <<cpc, script, keep, inv, batches, seen, log, bad, status, truth>>
  BY DEF Build
<1>2. Left(p) /\ Consistent(p)
  BY <1>1, ActiveLeft
<1>3. /\ AfterBuild(files[p], inv, Len(Commands) + 1) \in [Extensions -> Nat]
      /\ \A e \in Built : AfterBuild(files[p], inv, Len(Commands) + 1)[e] = inv
  BY <1>1, <1>2, JobFields, BuildLeaves DEF Consistent
<1>4. /\ job'[p].st = "spike" /\ truth'[p] = "unseen" /\ \A e \in Built : files'[p][e] = inv
  BY <1>1, <1>2, <1>3, JobFields DEF Consistent
<1>5. CampaignType'
  BY <1>1, <1>3, ZenonT(40) DEF CampaignInv, CampaignType
<1>6. Consistent(p)'
  BY <1>1, <1>4 DEF Consistent
<1> QED BY <1>1, <1>2, <1>5, <1>6, JobFields, WorkKeeps

LEMMA BuildFailsKeeps ==
  ASSUME CampaignInv, NEW p \in Programs, NEW c, BuildFails(p, c)
  PROVE  CampaignInv'
<1>1. /\ cpc = "pool" /\ job[p].st = "build"
      /\ files' = [files EXCEPT ![p] = AfterBuild(@, inv, c)]
      /\ job' = [job EXCEPT ![p] = [st |-> "done", how |-> "error", words |-> None]]
      /\ truth' = [truth EXCEPT ![p] = "failed"]
      /\ cpc' = "aborted" \/ UNCHANGED <<cpc, status, batches>>
      /\ UNCHANGED <<script, keep, inv, seen, log, bad>>
  BY DEF BuildFails, Abort
<1>2. Left(p) /\ Consistent(p)
  BY <1>1, ActiveLeft
<1>3. AfterBuild(files[p], inv, c) \in [Extensions -> Nat]
  BY JobFields, BuildLeaves
<1>4. job'[p] = [st |-> "done", how |-> "error", words |-> None] /\ truth'[p] = "failed" /\ truth[p] = "unseen"
  BY <1>1, <1>2, JobFields DEF Consistent
<1>5. CampaignType'
  BY <1>1, <1>3 DEF CampaignInv, CampaignType, None
<1>6. Consistent(p)'
  BY <1>4 DEF Consistent
<1>7. CASE cpc' = "aborted"
  <2>1. \A l \in log : files'[l[1]] = files[l[1]]
    BY <1>1, <1>2 DEF CampaignInv, CampaignType
  <2>2. \A q \in Programs : truth'[q] = truth[q] \/ truth[q] = "unseen"
    BY <1>1, <1>4, JobFields
  <2> QED BY <1>1, <1>5, <1>7, <2>1, <2>2, StopKeeps
<1>8. CASE UNCHANGED <<cpc, status, batches>>
  BY <1>1, <1>2, <1>4, <1>5, <1>6, <1>8, JobFields, WorkKeeps
<1> QED BY <1>1, <1>7, <1>8

LEMMA StartSpikeKeeps ==
  ASSUME CampaignInv, NEW p \in Programs, NEW how \in {"sig", "nosig", "hang"}, StartSpike(p, how)
  PROVE  CampaignInv'
<1>1. /\ cpc = "pool" /\ job[p].st = "spike"
      /\ files' = [files EXCEPT ![p] = OldSignature(@)]
      /\ job' = [job EXCEPT ![p].st = "run", ![p].how = how]
      /\ truth' = [truth EXCEPT ![p] = IF how = "sig" THEN "ran" ELSE "failed"]
      /\ UNCHANGED <<cpc, script, keep, inv, batches, seen, log, bad, status>>
  BY DEF StartSpike
<1>2. Left(p) /\ Consistent(p)
  BY <1>1, ActiveLeft
<1>3. /\ OldSignature(files[p]) \in [Extensions -> Nat] /\ OldSignature(files[p])["sig"] = None
      /\ \A e \in Built : OldSignature(files[p])[e] = inv
  BY <1>1, <1>2, JobFields, ExtensionNames DEF OldSignature, Consistent, None
<1>4. /\ job'[p].st = "run" /\ job'[p].how = how /\ truth[p] = "unseen"
      /\ truth'[p] = IF how = "sig" THEN "ran" ELSE "failed"
      /\ files'[p] = OldSignature(files[p])
  BY <1>1, <1>2, JobFields DEF Consistent
<1>5. CampaignType'
  <2>1. job' = [job EXCEPT ![p] = [job[p] EXCEPT !.st = "run", !.how = how]]
    BY <1>1, JobFields
  <2>2. [job[p] EXCEPT !.st = "run", !.how = how] \in
          [st : {"wait", "build", "spike", "run", "done"},
           how : {"none", "error", "sig", "nosig", "hang"}, words : Nat]
    BY JobFields
  <2> QED BY <1>1, <1>3, <2>1, <2>2 DEF CampaignInv, CampaignType
<1>6. Consistent(p)'
  BY <1>1, <1>3, <1>4 DEF Consistent
<1> QED BY <1>1, <1>2, <1>4, <1>5, <1>6, JobFields, WorkKeeps

LEMMA SpikeEndsKeeps ==
  ASSUME CampaignInv, NEW p \in Programs, SpikeEnds(p)
  PROVE  CampaignInv'
<1> DEFINE how == job[p].how
           kept == AfterSpike(files[p], inv, how)
<1>1. /\ cpc = "pool" /\ job[p].st = "run"
      /\ files' = [files EXCEPT ![p] = AfterSpike(@, inv, job[p].how)]
      /\ job' = [job EXCEPT ![p].st = "done", ![p].words = Words(files'[p], job[p].how)]
      /\ UNCHANGED <<cpc, script, keep, inv, batches, seen, log, bad, status, truth>>
  BY DEF SpikeEnds
<1>2. Left(p) /\ Consistent(p)
  BY <1>1, ActiveLeft
<1>3. /\ how \in {"sig", "nosig", "hang"} /\ truth[p] = IF how = "sig" THEN "ran" ELSE "failed"
      /\ files[p]["sig"] = None /\ \A e \in Built : files[p][e] = inv
  BY <1>1, <1>2 DEF Consistent
<1>4. inv > 0 /\ None = 0
  BY <1>1 DEF CampaignInv, Running, None
<1>5. /\ kept \in [Extensions -> Nat]
      /\ kept["sig"] = IF how = "sig" THEN inv ELSE None
      /\ \A e \in Built : kept[e] = inv
  BY <1>3, JobFields, ExtensionNames DEF AfterSpike
<1>6. files'[p] = kept /\ \A q \in Programs \ {p} : files'[q] = files[q]
  BY <1>1, JobFields
<1> HIDE DEF kept
<1>7. Words(files'[p], how) = IF how = "sig" THEN inv ELSE None
  BY <1>3, <1>5, <1>6 DEF Words
<1>8. job'[p].st = "done" /\ job'[p].words = (IF how = "sig" THEN inv ELSE None)
  BY <1>1, <1>7, JobFields
<1>9. CampaignType'
  <2>1. files' \in [Programs -> [Extensions -> Nat]]
    BY <1>1, <1>5 DEF CampaignInv, CampaignType, kept
  <2>2. (IF how = "sig" THEN inv ELSE None) \in Nat
    BY <1>4, JobFields
  <2> DEFINE after == [job[p] EXCEPT !.st = "done", !.words = IF how = "sig" THEN inv ELSE None]
  <2>3. job' = [job EXCEPT ![p] = after]
    BY <1>1, <1>7, JobFields
  <2>4. after \in [st : {"wait", "build", "spike", "run", "done"},
                    how : {"none", "error", "sig", "nosig", "hang"}, words : Nat]
    BY <2>2, JobFields
  <2> HIDE DEF after, how
  <2>5. job' \in [Programs -> [st : {"wait", "build", "spike", "run", "done"},
                               how : {"none", "error", "sig", "nosig", "hang"}, words : Nat]]
    BY <2>3, <2>4 DEF CampaignInv, CampaignType
  <2> QED BY <1>1, <2>1, <2>5 DEF CampaignInv, CampaignType
<1>10. Consistent(p)'
  <2>1. CASE how = "sig"
    <3>1. \A e \in Extensions : files'[p][e] = inv
      BY <1>5, <1>6, <2>1 DEF Built
    <3> QED BY <1>1, <1>3, <1>4, <1>8, <2>1, <3>1 DEF Consistent
  <2>2. CASE how # "sig"
    BY <1>1, <1>3, <1>8, <2>2 DEF Consistent
  <2> QED BY <2>1, <2>2
<1> QED BY <1>1, <1>2, <1>6, <1>9, <1>10, JobFields, WorkKeeps

LEMMA RunRunnerKeeps ==
  ASSUME CampaignInv, RunRunner
  PROVE  CampaignInv'
<1>1. /\ cpc = "pool" /\ cpc' = "compare" /\ seen' = 0
      /\ \A p \in Elements(Batch) : job[p].st = "done"
      /\ UNCHANGED <<script, keep, inv, batches, job, files, log, bad, status, truth>>
  BY DEF RunRunner
<1>2. \A p : Left(p)' <=> Left(p)
  <2> SUFFICES ASSUME NEW i \in DOMAIN batches, NEW j \in DOMAIN batches[i] PROVE j > 0
    BY <1>1 DEF Left, Running
  <2> QED BY <1>1, FrontBatch DEF CampaignInv, Running
<1>3. \A p \in Programs : (Consistent(p)' <=> Consistent(p)) /\ (Told(p)' <=> Told(p))
  BY <1>1 DEF Consistent, Told, Bad
<1>4. Elements(Batch)' = Elements(Batch)
  BY <1>1 DEF Elements, Batch
<1>5. CampaignType'
  BY <1>1 DEF CampaignInv, CampaignType
<1>6. (bad > 0 => \E p \in Programs : Bad(p) \/ truth[p] = "near")'
  BY <1>1 DEF CampaignInv, Bad
<1>7. (Running => /\ batches \in Seq(Seq(Programs)) /\ batches # <<>> /\ Distinct(batches) /\ inv > 0
                  /\ script = "directed" => keep)'
  BY <1>1 DEF CampaignInv, Running
<1>8. (cpc = "compare" => \A p \in Elements(Batch) : job[p].st = "done")'
  BY <1>1, <1>4
<1>9. Running /\ Running'
  BY <1>1 DEF Running
<1> QED BY <1>1, <1>2, <1>3, <1>5, <1>6, <1>7, <1>8, <1>9 DEF CampaignInv

\* The program looked at next is the first of its batch that is left, and has
\* been through the workers.
LEMMA CurrentLeft ==
  ASSUME CampaignInv, cpc = "compare", seen < Len(Batch)
  PROVE  /\ Current \in Programs /\ Left(Current) /\ Consistent(Current) /\ job[Current].st = "done"
         /\ \A l \in log : l[1] # Current
<1>1. /\ batches \in Seq(Seq(Programs)) /\ batches # <<>> /\ seen \in Nat
  BY DEF CampaignInv, CampaignType, Running
<1>2. /\ 1 \in DOMAIN batches /\ Batch = batches[1] /\ seen + 1 \in DOMAIN batches[1] /\ seen + 1 > seen
      /\ Current \in Programs /\ Current \in Elements(Batch)
  BY <1>1, FrontBatch DEF Current, Elements
<1>3. Left(Current)
  BY <1>2 DEF Left, Running, Current
<1> QED BY <1>2, <1>3 DEF CampaignInv

\* One more program is compared: what is told of it must be true, and of the
\* others nothing changes.
LEMMA CountKeeps ==
  ASSUME CampaignInv, cpc = "compare", seen < Len(Batch), NEW c, c = Current, CampaignType', seen' = seen + 1,
         UNCHANGED <<cpc, script, keep, inv, batches, job, status>>,
         \A q \in Programs \ {c} : files'[q] = files[q] /\ truth'[q] = truth[q],
         truth'[c] = truth[c] \/ truth[c] = "ran",
         log \subseteq log', \A l \in log' \ log : l[1] = c,
         bad' >= bad, bad' > bad => truth'[c] \in {"failed", "diverged", "near"},
         Told(c)',
         \A l \in log' \ log : l[2] \in DivergenceKinds => \A e \in Extensions : files'[c][e] = inv
  PROVE  CampaignInv'
<1>1. /\ c \in Programs /\ Left(c) /\ \A l \in log : l[1] # c
  BY CurrentLeft
<1>2. bad \in Nat /\ bad' \in Nat /\ seen \in Nat /\ log \subseteq Programs \X (DivergenceKinds \cup {"build_error", "spike_error"})
  BY DEF CampaignInv, CampaignType
<1>3. Running /\ Running' /\ batches \in Seq(Seq(Programs)) /\ batches # <<>> /\ Distinct(batches)
  BY DEF CampaignInv, Running
<1>4. /\ 1 \in DOMAIN batches /\ Batch = batches[1] /\ seen + 1 \in DOMAIN batches[1] /\ c = batches[1][seen + 1]
      /\ \A i \in DOMAIN batches : DOMAIN batches[i] \subseteq Nat
  BY <1>2, <1>3, FrontBatch DEF Current
<1>5. \A q \in Programs : Left(q)' <=> Left(q) /\ q # c
  <2>1. ASSUME NEW q \in Programs, Left(q)' PROVE Left(q) /\ q # c
    <3>1. PICK i, j : i \in DOMAIN batches /\ j \in DOMAIN batches[i] /\ batches[i][j] = q /\ (i = 1 => j > seen + 1)
      BY <2>1 DEF Left
    <3>2. i = 1 => j > seen
      BY <1>2, <1>4, <3>1
    <3>3. Left(q)
      BY <1>3, <3>1, <3>2 DEF Left
    <3>4. q = c => i = 1 /\ j = seen + 1
      BY <1>3, <1>4, <3>1 DEF Distinct
    <3> QED BY <1>2, <1>4, <3>1, <3>3, <3>4
  <2>2. ASSUME NEW q \in Programs, Left(q), q # c PROVE Left(q)'
    <3>1. PICK i, j : i \in DOMAIN batches /\ j \in DOMAIN batches[i] /\ batches[i][j] = q /\ (i = 1 => j > seen)
      BY <2>2 DEF Left
    <3>2. i = 1 => j # seen + 1
      BY <1>4, <2>2, <3>1
    <3>3. i = 1 => j > seen + 1
      BY <1>2, <1>4, <3>1, <3>2
    <3> QED BY <1>3, <3>1, <3>3 DEF Left
  <2> QED BY <2>1, <2>2
<1>6. \A q \in Programs \ {c} : files'[q] = files[q] /\ truth'[q] = truth[q]
  OBVIOUS
<1>7. (cpc = "compare" => \A q \in Elements(Batch) : job[q].st = "done")'
  BY DEF CampaignInv, Elements, Batch
<1>8. (\A q \in Programs : Left(q) => Consistent(q) /\ \A l \in log : l[1] # q)'
  <2> SUFFICES ASSUME NEW q \in Programs, Left(q)' PROVE Consistent(q)' /\ \A l \in log' : l[1] # q
    OBVIOUS
  <2>1. Left(q) /\ q # c
    BY <1>5
  <2>2. Consistent(q) /\ \A l \in log : l[1] # q
    BY <2>1 DEF CampaignInv
  <2>3. Consistent(q)'
    BY <1>6, <2>1, <2>2 DEF Consistent
  <2>4. \A l \in log' : l[1] # q
    BY <2>1, <2>2
  <2> QED BY <2>3, <2>4
<1>9. (\A q \in Programs : job[q].st \notin {"wait", "done"} => Left(q))'
  <2>1. job[c].st = "done"
    BY CurrentLeft
  <2> QED BY <1>3, <1>5, <2>1 DEF CampaignInv
<1>10. (\A q \in Programs : ~ Left(q) => Told(q))'
  <2> SUFFICES ASSUME NEW q \in Programs, ~ Left(q)' PROVE Told(q)'
    OBVIOUS
  <2>1. CASE q = c
    BY <2>1
  <2>2. CASE q # c
    <3>1. ~ Left(q)
      BY <1>5, <2>2
    <3>2. Told(q)
      BY <1>3, <3>1 DEF CampaignInv
    <3> QED BY <1>2, <1>6, <2>2, <3>2 DEF Told, Bad
  <2> QED BY <2>1, <2>2
<1>11. (bad > 0 => \E q \in Programs : Bad(q) \/ truth[q] = "near")'
  <2> SUFFICES ASSUME bad' > 0 PROVE \E q \in Programs : Bad(q)' \/ truth'[q] = "near"
    OBVIOUS
  <2>1. CASE bad' > bad
    <3>1. truth'[c] \in {"failed", "diverged", "near"}
      BY <2>1
    <3>2. Bad(c)' \/ truth'[c] = "near"
      BY <3>1 DEF Bad
    <3> QED BY <1>1, <3>2
  <2>2. CASE bad' = bad
    <3>1. PICK q \in Programs : Bad(q) \/ truth[q] = "near"
      BY <2>2 DEF CampaignInv
    <3>2. truth'[q] = truth[q]
      BY <1>6, <3>1 DEF Bad
    <3> QED BY <3>1, <3>2 DEF Bad
  <2> QED BY <1>2, <2>1, <2>2
<1>12. (\A l \in log : l[2] \in DivergenceKinds => \A e \in Extensions : files[l[1]][e] = inv)'
  <2> SUFFICES ASSUME NEW l \in log', l[2] \in DivergenceKinds, NEW e \in Extensions PROVE files'[l[1]][e] = inv
    OBVIOUS
  <2>1. CASE l \in log
    <3>1. l[1] \in Programs /\ l[1] # c /\ files[l[1]][e] = inv
      BY <1>1, <1>2, <2>1 DEF CampaignInv
    <3> QED BY <1>6, <3>1
  <2>2. CASE l \notin log
    BY <2>2
  <2> QED BY <2>1, <2>2
<1>13. (Running => /\ batches \in Seq(Seq(Programs)) /\ batches # <<>> /\ Distinct(batches) /\ inv > 0
                   /\ script = "directed" => keep)'
  BY <1>3 DEF CampaignInv
<1> QED BY <1>3, <1>7, <1>8, <1>9, <1>10, <1>11, <1>12, <1>13 DEF CampaignInv

LEMMA CompareKeeps ==
  ASSUME CampaignInv, NEW v \in VerdictsOn(Current), Compare(v)
  PROVE  CampaignInv'
<1> SUFFICES ASSUME NEW c, c = Current PROVE CampaignInv'
  OBVIOUS
<1>1. /\ cpc = "compare" /\ seen < Len(Batch) /\ job[c].words # None
      /\ bad' = bad + (IF v.bad THEN 1 ELSE 0)
      /\ log' = log \cup ({c} \X v.kinds)
      /\ files' = IF v.removed /\ ~ keep THEN [files EXCEPT ![c] = remove_artifacts(@)] ELSE files
      /\ truth' = [truth EXCEPT ![c] = IF @ = "ran" THEN v.really ELSE @]
      /\ seen' = seen + 1
      /\ UNCHANGED <<cpc, script, keep, inv, batches, job, status>>
  BY DEF Compare
<1>2. /\ c \in Programs /\ Consistent(c) /\ job[c].st = "done" /\ \A l \in log : l[1] # c
  BY <1>1, CurrentLeft
<1>3. truth[c] = "ran" /\ \A e \in Extensions : files[c][e] = inv
  BY <1>1, <1>2 DEF Consistent
<1>4. /\ script \in {"fuzz", "encsweep", "directed"} /\ (script = "directed" => keep)
      /\ bad \in Nat /\ seen \in Nat
  BY <1>1 DEF CampaignInv, CampaignType, Running
<1>5. Honest(v) /\ (script # "directed" => Tidy(v))
  BY <1>4, VerdictsHonest
<1>6. truth'[c] = v.really /\ \A q \in Programs \ {c} : truth'[q] = truth[q]
  BY <1>1, <1>2, <1>3, JobFields
<1>7. /\ \A q \in Programs \ {c} : files'[q] = files[q]
      /\ v.removed /\ ~ keep => files'[c] = NoFiles
      /\ ~ (v.removed /\ ~ keep) => files'[c] = files[c]
  BY <1>1, <1>2, JobFields DEF remove_artifacts
<1>8. bad' \in Nat /\ bad' >= bad /\ (bad' > bad => v.bad) /\ (v.bad => bad' > 0)
  BY <1>1, <1>4
<1>9. CampaignType'
  <2>1. files' \in [Programs -> [Extensions -> Nat]]
    BY <1>1 DEF CampaignInv, CampaignType, remove_artifacts, NoFiles, None
  <2>2. log' \in SUBSET (Programs \X (DivergenceKinds \cup {"build_error", "spike_error"}))
    BY <1>1, <1>2, <1>5 DEF CampaignInv, CampaignType, Honest
  <2>3. DOMAIN truth' = Programs
    BY <1>1, JobFields, <1>2
  <2> QED BY <1>1, <1>8, <2>1, <2>2, <2>3 DEF CampaignInv, CampaignType
<1>10. log \subseteq log' /\ \A l \in log' \ log : l[1] = c /\ l[2] \in v.kinds
  BY <1>1
<1>11. Told(c)'
  <2>1. v.really \in {"failed", "diverged"} => bad' > 0 /\ \E l \in log' : l[1] = c
    <3> SUFFICES ASSUME v.really \in {"failed", "diverged"} PROVE bad' > 0 /\ \E l \in log' : l[1] = c
      OBVIOUS
    <3>1. v.bad /\ v.kinds # {}
      BY <1>5 DEF Honest
    <3>2. PICK k \in v.kinds : TRUE
      BY <3>1
    <3>3. <<c, k>> \in log' /\ <<c, k>>[1] = c
      BY <1>1
    <3> QED BY <1>8, <3>1, <3>3
  <2>2. v.really = "clean" /\ ~ keep => files'[c] = NoFiles
    BY <1>4, <1>5, <1>7 DEF Tidy
  <2>3. v.really \in {"failed", "diverged", "clean", "known", "near"}
    BY <1>5 DEF Honest
  <2>4. keep' = keep
    BY <1>1
  <2> QED BY <1>6, <2>1, <2>2, <2>3, <2>4 DEF Told, Bad
<1>12. bad' > bad => truth'[c] \in {"failed", "diverged", "near"}
  BY <1>5, <1>6, <1>8 DEF Honest
<1>13. \A l \in log' \ log : l[2] \in DivergenceKinds => \A e \in Extensions : files'[c][e] = inv
  <2> SUFFICES ASSUME NEW l \in log' \ log PROVE files'[c] = files[c]
    BY <1>3
  <2>1. ~ v.removed
    BY <1>5, <1>10 DEF Honest
  <2> QED BY <1>7, <2>1
<1> QED BY <1>1, <1>3, <1>6, <1>7, <1>8, <1>9, <1>10, <1>11, <1>12, <1>13, CountKeeps

LEMMA CompareFailedKeeps ==
  ASSUME CampaignInv, CompareFailed
  PROVE  CampaignInv'
<1> SUFFICES ASSUME NEW c, c = Current PROVE CampaignInv'
  OBVIOUS
<1>1. /\ cpc = "compare" /\ seen < Len(Batch) /\ job[c].words = None
      /\ bad' = bad + 1 /\ seen' = seen + 1
      /\ log' = log \cup {<<c, IF job[c].how = "error" THEN "build_error" ELSE "spike_error">>}
      /\ UNCHANGED <<cpc, script, keep, inv, batches, job, files, status, truth>>
  BY DEF CompareFailed
<1>2. /\ c \in Programs /\ Consistent(c) /\ job[c].st = "done" /\ \A l \in log : l[1] # c
  BY <1>1, CurrentLeft
<1>3. truth[c] = "failed"
  BY <1>1, <1>2 DEF Consistent
<1>4. bad \in Nat /\ bad' \in Nat /\ bad' >= bad /\ bad' > 0
  BY <1>1 DEF CampaignInv, CampaignType
<1>5. CampaignType'
  BY <1>1, <1>2, <1>4 DEF CampaignInv, CampaignType
<1>6. \E l \in log' : l[1] = c
  <2> DEFINE kind == IF job[c].how = "error" THEN "build_error" ELSE "spike_error"
  <2>1. <<c, kind>> \in log'
    BY <1>1
  <2>2. <<c, kind>>[1] = c
    OBVIOUS
  <2> QED BY <2>1, <2>2
<1>7. Told(c)'
  BY <1>1, <1>3, <1>4, <1>6 DEF Told, Bad
<1>8. \A l \in log' \ log : l[1] = c /\ l[2] \notin DivergenceKinds
  BY <1>1 DEF DivergenceKinds
<1>9. log \subseteq log'
  BY <1>1
<1> QED BY <1>1, <1>3, <1>4, <1>5, <1>7, <1>8, <1>9, CountKeeps

LEMMA EndBatchKeeps ==
  ASSUME CampaignInv, EndBatch
  PROVE  CampaignInv'
<1>1. /\ cpc = "compare" /\ seen = Len(Batch) /\ batches' = Tail(batches)
      /\ \/ batches' = <<>> /\ cpc' = "ended" /\ status' = (IF bad > 0 THEN 1 ELSE 0)
         \/ batches' # <<>> /\ cpc' = "pool" /\ UNCHANGED status
      /\ UNCHANGED <<script, keep, inv, seen, job, files, log, bad, truth>>
  BY DEF EndBatch
<1>2. /\ Running /\ batches \in Seq(Seq(Programs)) /\ batches # <<>> /\ Distinct(batches) /\ inv > 0
      /\ script = "directed" => keep
  BY <1>1 DEF CampaignInv, Running
<1>3. /\ batches' \in Seq(Seq(Programs)) /\ Len(batches') = Len(batches) - 1 /\ Len(batches) \in Nat
      /\ \A i \in 1 .. Len(batches) - 1 : batches'[i] = batches[i + 1]
  BY <1>1, <1>2, HeadTailProperties
<1>4. /\ DOMAIN batches = 1 .. Len(batches) /\ DOMAIN batches' = 1 .. Len(batches) - 1
      /\ \A i \in DOMAIN batches : DOMAIN batches[i] = 1 .. Len(batches[i])
      /\ Batch = batches[1]
  BY <1>2, <1>3, FrontBatch
<1>5. Distinct(batches')
  <2> SUFFICES ASSUME NEW i \in DOMAIN batches', NEW k \in DOMAIN batches',
                      NEW j \in DOMAIN batches'[i], NEW l \in DOMAIN batches'[k], batches'[i][j] = batches'[k][l]
               PROVE  i = k /\ j = l
    BY DEF Distinct
  <2>1. /\ i \in Nat /\ k \in Nat /\ i + 1 \in DOMAIN batches /\ k + 1 \in DOMAIN batches
        /\ batches'[i] = batches[i + 1] /\ batches'[k] = batches[k + 1]
    BY <1>3, <1>4, SMTT(30)
  <2>2. i + 1 = k + 1 /\ j = l
    BY <1>2, <2>1 DEF Distinct
  <2> QED BY <2>1, <2>2
<1>6. \A q : Left(q) <=> \E i \in DOMAIN batches' : \E j \in DOMAIN batches'[i] : batches'[i][j] = q
  <2>1. ASSUME NEW q, Left(q) PROVE \E i \in DOMAIN batches' : \E j \in DOMAIN batches'[i] : batches'[i][j] = q
    <3>1. PICK i, j : i \in DOMAIN batches /\ j \in DOMAIN batches[i] /\ batches[i][j] = q /\ (i = 1 => j > seen)
      BY <1>1, <2>1 DEF Left
    <3>2. i # 1
      BY <1>1, <1>4, <3>1
    <3>3. i - 1 \in DOMAIN batches' /\ batches'[i - 1] = batches[i]
      BY <1>3, <1>4, <3>1, <3>2
    <3> QED BY <3>1, <3>3
  <2>2. ASSUME NEW q, NEW i \in DOMAIN batches', NEW j \in DOMAIN batches'[i], batches'[i][j] = q PROVE Left(q)
    <3>1. i \in Nat /\ i + 1 \in DOMAIN batches /\ batches'[i] = batches[i + 1] /\ i + 1 # 1
      BY <1>3, <1>4
    <3> QED BY <1>2, <2>2, <3>1 DEF Left
  <2> QED BY <2>1, <2>2
<1>7. \A q : Left(q)' <=> Left(q)
  <2>1. CASE batches' = <<>>
    <3>1. cpc' = "ended" /\ ~ Running' /\ DOMAIN batches' = {}
      BY <1>1, <2>1 DEF Running
    <3> QED BY <1>6, <3>1 DEF Left
  <2>2. CASE batches' # <<>>
    <3>1. cpc' = "pool" /\ Running'
      BY <1>1, <2>2 DEF Running
    <3>2. \A q : Left(q)' <=> \E i \in DOMAIN batches' : \E j \in DOMAIN batches'[i] : batches'[i][j] = q
      BY <3>1 DEF Left
    <3> QED BY <1>6, <3>2
  <2> QED BY <2>1, <2>2
<1>8. \A p \in Programs : (Consistent(p)' <=> Consistent(p)) /\ (Told(p)' <=> Told(p))
  BY <1>1 DEF Consistent, Told, Bad
<1>9. CampaignType'
  BY <1>1 DEF CampaignInv, CampaignType
<1>10. (bad > 0 => \E p \in Programs : Bad(p) \/ truth[p] = "near")'
  BY <1>1 DEF CampaignInv, Bad
<1>11. (Running => /\ batches \in Seq(Seq(Programs)) /\ batches # <<>> /\ Distinct(batches) /\ inv > 0
                   /\ script = "directed" => keep)'
  BY <1>1, <1>2, <1>3, <1>5 DEF Running
<1> QED BY <1>1, <1>2, <1>7, <1>8, <1>9, <1>10, <1>11 DEF CampaignInv

LEMMA CampaignInvInit == CampaignInit => CampaignInv
<1> SUFFICES ASSUME CampaignInit PROVE CampaignInv
  OBVIOUS
<1>1. CampaignType
  BY DEF CampaignInit, CampaignType, NoJob, NoFiles, None
<1>2. ~ Running /\ \A p : ~ Left(p)
  BY DEF CampaignInit, Running, Left
<1> QED BY <1>1, <1>2 DEF CampaignInit, CampaignInv

LEMMA CampaignInvNext == CampaignInv /\ [CampaignNext]_cvars => CampaignInv'
<1> SUFFICES ASSUME CampaignInv, [CampaignNext]_cvars PROVE CampaignInv'
  OBVIOUS
<1>1. CASE \E bs \in Batchings, k \in BOOLEAN : Invoke(bs, k)
  BY <1>1, InvokeKeeps
<1>2. CASE \E p \in Programs : WriteAsm(p) \/ Build(p) \/ SpikeEnds(p)
  BY <1>2, WriteAsmKeeps, BuildKeeps, SpikeEndsKeeps
<1>3. CASE \E p \in Programs, c \in 1..Len(Commands) : BuildFails(p, c)
  BY <1>3, BuildFailsKeeps
<1>4. CASE \E p \in Programs, how \in {"sig", "nosig", "hang"} : StartSpike(p, how)
  BY <1>4, StartSpikeKeeps
<1>5. CASE RunRunner
  BY <1>5, RunRunnerKeeps
<1>6. CASE RunnerFails \/ StopScript
  <2>1. /\ cpc' \in {"aborted", "idle"} /\ CampaignType'
        /\ UNCHANGED <<inv, log, bad, files, truth>>
    BY <1>6 DEF RunnerFails, StopScript, Abort, CampaignInv, CampaignType
  <2> QED BY <2>1, StopKeeps
<1>7. CASE CompareFailed
  BY <1>7, CompareFailedKeeps
<1>8. CASE EndBatch
  BY <1>8, EndBatchKeeps
<1>9. CASE \E v \in VerdictsOn(Current) : Compare(v)
  BY <1>9, CompareKeeps
<1>10. CASE UNCHANGED cvars
  <2>1. UNCHANGED <<cpc, script, keep, inv, batches, seen, job, files, log, bad, status, truth>>
    BY <1>10 DEF cvars
  <2>2. \A p : Left(p)' <=> Left(p)
    BY <2>1 DEF Left, Running
  <2>3. \A p : (Consistent(p)' <=> Consistent(p)) /\ (Told(p)' <=> Told(p)) /\ (Bad(p)' <=> Bad(p))
    BY <2>1 DEF Consistent, Told, Bad
  <2>4. (cpc = "compare" => \A p \in Elements(Batch) : job[p].st = "done")'
    BY <2>1 DEF CampaignInv, Elements, Batch
  <2>5. (Running => /\ batches \in Seq(Seq(Programs)) /\ batches # <<>> /\ Distinct(batches) /\ inv > 0
                    /\ script = "directed" => keep)'
    BY <2>1 DEF CampaignInv, Running
  <2>6. CampaignType'
    BY <2>1 DEF CampaignInv, CampaignType
  <2> QED BY <2>1, <2>2, <2>3, <2>4, <2>5, <2>6 DEF CampaignInv, Running
<1> QED BY <1>1, <1>2, <1>3, <1>4, <1>5, <1>6, <1>7, <1>8, <1>9, <1>10 DEF CampaignNext, CampaignStep

LEMMA EndedSound == CampaignInv => VerdictSound
<1> SUFFICES ASSUME CampaignInv PROVE VerdictSound
  OBVIOUS
<1>1. ASSUME cpc = "ended"
      PROVE  /\ status = 0 => \A p \in Programs : ~ Bad(p)
             /\ status = 1 => \E p \in Programs : Bad(p) \/ truth[p] = "near"
             /\ \A p \in Attempted : Bad(p) => \E l \in log : l[1] = p
             /\ \A p \in Attempted : truth[p] = "clean" /\ ~ keep => files[p] = NoFiles
  <2>1. \A p \in Programs : Told(p)
    BY <1>1 DEF CampaignInv, Left, Running
  <2>2. status = IF bad > 0 THEN 1 ELSE 0
    BY <1>1 DEF CampaignInv
  <2>3. bad > 0 => \E p \in Programs : Bad(p) \/ truth[p] = "near"
    BY DEF CampaignInv
  <2> QED BY <2>1, <2>2, <2>3 DEF Told, Attempted, Bad
<1>2. \A l \in log : l[2] \in {"configs", "spike_vs_det", "divergence", "unexpected"} =>
        \A e \in Extensions : files[l[1]][e] = inv
  BY DEF CampaignInv, DivergenceKinds
<1> QED BY <1>1, <1>2 DEF VerdictSound

\* Whatever the programs do, however builds and Spike fail, whatever earlier
\* invocations left and wherever they were stopped, a script that comes to its
\* end tells the truth: status, log and the files it keeps are those of what
\* the programs of this invocation did.
THEOREM VerdictsAlwaysSound == CampaignSpec => []VerdictSound
<1>1. CampaignSpec => []CampaignInv
  BY CampaignInvInit, CampaignInvNext, PTL DEF CampaignSpec
<1> QED BY <1>1, EndedSound, PTL

-----------------------------------------------------------------------------
(* The generator. *)

\* A machine whose run agrees with the other one so far.
Sound(m) ==
  /\ m = [reg |-> m.reg, resv |-> m.resv, diverged |-> m.diverged, stray |-> m.stray, stopped |-> m.stopped]
  /\ ~ m.diverged /\ ~ m.stray
  /\ m.reg = [r \in Regs \ {0} |-> m.reg[r]]

\* What lines emitted now may make of the machine: no reserved register changes, and the only
\* counter values are where they were.
Kept(m) ==
  /\ Sound(m) /\ m.resv = mach.resv
  /\ \A r \in reserved : m.reg[r] = mach.reg[r]
  /\ \A r \in Regs \ ({0} \cup noread) : m.reg[r].k # "ctr"

\* An address that addr() leaves in a register for an LR, an SC or an AMO.
WordPtr == Ptr(Middle, Middle + 1020, 4)

\* The parts of the inductive invariant: what the reserved registers hold,
BaseHeld ==
  /\ base \in Regs \ {0, 1, 2} /\ base \in reserved /\ reserved \subseteq Regs \ {0}
  /\ mach.reg[base] = Ptr(Middle, Middle, 64)
LoopHeld == loop.c # 0 => loop.c \in reserved \ {base} /\ mach.reg[loop.c].k = "num"
AddressHeld ==
  gpc \in {"lrsc", "sc2"} => \A r \in {item.t, item.s} : r \in reserved \ {base, loop.c} /\ mach.reg[r] = WordPtr
CounterHeld ==
  gpc = "counter" => /\ item.t \in reserved \ {base, loop.c} /\ mach.reg[item.t] = Ctr
                     /\ item.s \in Regs \ (reserved \cup {0})
\* where a counter value may be,
CountersHidden ==
  /\ noread = IF gpc = "counter" THEN {item.t} ELSE {}
  /\ \A r \in Regs \ ({0} \cup noread) : mach.reg[r].k # "ctr"
\* and whether a reservation is held.
ReservationAt == mach.resv = IF gpc = "lrsc" THEN "held" ELSE "none"

GenInv ==
  /\ gpc \in {"idle", "block", "lrsc", "sc2", "counter", "done"}
  /\ Sound(mach) /\ (gpc = "done" => mach.stopped)
  /\ item = [t |-> item.t, s |-> item.s, w |-> item.w]
  /\ gpc # "idle" => BaseHeld /\ LoopHeld /\ AddressHeld /\ CounterHeld /\ CountersHidden /\ ReservationAt

-----------------------------------------------------------------------------
\* Every instruction is one case of Exec.
LEMMA ExecAlu == ASSUME NEW m, NEW d, NEW r, NEW imm, NEW w
  PROVE  Exec(m, I("alu", d, r, imm, w)) = Set(m, d, Tainted(m, {r}))
  BY DEF Exec, I
LEMMA ExecNum == ASSUME NEW m, NEW d, NEW r, NEW imm, NEW w
  PROVE  Exec(m, I("num", d, r, imm, w)) = Set(m, d, Num(imm))
  BY DEF Exec, I
LEMMA ExecAndi == ASSUME NEW m, NEW d, NEW r, NEW imm, NEW w
  PROVE  Exec(m, I("andi", d, r, imm, w)) = Set(m, d, IF IsCtr(m, r) THEN Ctr ELSE Off(0, imm, w))
  BY DEF Exec, I
LEMMA ExecAdd == ASSUME NEW m, NEW d, NEW r, NEW imm, NEW w
  PROVE  Exec(m, I("add", d, r, imm, w)) = Set(m, d, Sum(Reg(m, d), Reg(m, r)))
  BY DEF Exec, I
LEMMA ExecAddi == ASSUME NEW m, NEW d, NEW r, NEW imm, NEW w
  PROVE  Exec(m, I("addi", d, r, imm, w)) = Set(m, d, Shift(Reg(m, r), imm))
  BY DEF Exec, I
LEMMA ExecSub == ASSUME NEW m, NEW d, NEW r, NEW imm, NEW w
  PROVE  Exec(m, I("sub", d, r, imm, w)) = Set(m, d, IF IsCtr(m, d) = IsCtr(m, r) THEN Same ELSE Ctr)
  BY DEF Exec, I
LEMMA ExecLoad == ASSUME NEW m, NEW d, NEW r, NEW imm, NEW w
  PROVE  Exec(m, I("load", d, r, imm, w)) = Set(Access(m, r, imm, w), d, Same)
  BY DEF Exec, I
LEMMA ExecStore == ASSUME NEW m, NEW d, NEW r, NEW imm, NEW w
  PROVE  Exec(m, I("store", d, r, imm, w)) = Stored(Diverge(Access(m, r, imm, w), IsCtr(m, d)))
  BY DEF Exec, I
LEMMA ExecAmo == ASSUME NEW m, NEW d, NEW r, NEW imm, NEW w
  PROVE  Exec(m, I("amo", d, r, imm, w)) = Set(Stored(Diverge(Access(m, r, 0, 4), IsCtr(m, w))), d, Same)
  BY DEF Exec, I
LEMMA ExecLr == ASSUME NEW m, NEW d, NEW r, NEW imm, NEW w
  PROVE  Exec(m, I("lr", d, r, imm, w)) = Set([Access(m, r, 0, 4) EXCEPT !.resv = "held"], d, Same)
  BY DEF Exec, I
LEMMA ExecSc == ASSUME NEW m, NEW d, NEW r, NEW imm, NEW w
  PROVE  Exec(m, I("sc", d, r, imm, w)) = Set([Diverge(Access(m, r, 0, 4), m.resv = "differ" \/ IsCtr(m, w))
           EXCEPT !.resv = "none"], d, Same)
  BY DEF Exec, I
LEMMA ExecCount == ASSUME NEW m, NEW d, NEW r, NEW imm, NEW w
  PROVE  Exec(m, I("count", d, r, imm, w)) = Set(m, d, Ctr)
  BY DEF Exec, I
LEMMA ExecCsr == ASSUME NEW m, NEW d, NEW r, NEW imm, NEW w
  PROVE  Exec(m, I("csr", d, r, imm, w)) = Set(Diverge(m, IsCtr(m, r)), d, Same)
  BY DEF Exec, I
LEMMA ExecTest == ASSUME NEW m, NEW d, NEW r, NEW imm, NEW w
  PROVE  Exec(m, I("test", d, r, imm, w)) = Diverge(m, IsCtr(m, r))
  BY DEF Exec, I
LEMMA ExecNop == ASSUME NEW m, NEW d, NEW r, NEW imm, NEW w
  PROVE  Exec(m, I("nop", d, r, imm, w)) = m
  BY DEF Exec, I

\* The lines are executed one after the other: for each length they have, the function that Run
\* defines by recursion exists, and its last value is the one meant.
Executes(g, m, lines) == g = [i \in 0..Len(lines) |-> IF i = 0 THEN m ELSE Exec(g[i - 1], lines[i])]

LEMMA RunIsLast ==
  ASSUME NEW m, NEW lines, NEW w, Executes(w, m, lines)
  PROVE  \E g : Executes(g, m, lines) /\ Run(m, lines) = g[Len(lines)]
<1> DEFINE g == CHOOSE f : f = [i \in 0..Len(lines) |-> IF i = 0 THEN m ELSE Exec(f[i - 1], lines[i])]
<1>1. g = [i \in 0..Len(lines) |-> IF i = 0 THEN m ELSE Exec(g[i - 1], lines[i])]
  BY DEF Executes
<1>2. Run(m, lines) = g[Len(lines)]
  BY DEF Run
<1> HIDE DEF g
<1> QED BY <1>1, <1>2 DEF Executes

LEMMA RunOne ==
  ASSUME NEW m, NEW a
  PROVE  Run(m, <<a>>) = Exec(m, a)
<1> DEFINE m1 == Exec(m, a)
           f == [i \in 0..1 |-> CASE i = 0 -> m [] i = 1 -> m1]
<1>1. Len(<<a>>) = 1 /\ Executes(f, m, <<a>>)
  BY DEF Executes
<1>2. PICK g : Executes(g, m, <<a>>) /\ Run(m, <<a>>) = g[1]
  BY <1>1, RunIsLast
<1> QED BY <1>1, <1>2 DEF Executes

LEMMA RunTwo ==
  ASSUME NEW m, NEW a, NEW b
  PROVE  Run(m, <<a, b>>) = Exec(Exec(m, a), b)
<1> DEFINE m1 == Exec(m, a)
           m2 == Exec(m1, b)
           f == [i \in 0..2 |-> CASE i = 0 -> m [] i = 1 -> m1 [] i = 2 -> m2]
<1>1. Len(<<a, b>>) = 2 /\ Executes(f, m, <<a, b>>)
  BY DEF Executes
<1>2. PICK g : Executes(g, m, <<a, b>>) /\ Run(m, <<a, b>>) = g[2]
  BY <1>1, RunIsLast
<1> QED BY <1>1, <1>2 DEF Executes

LEMMA RunThree ==
  ASSUME NEW m, NEW a, NEW b, NEW c
  PROVE  Run(m, <<a, b, c>>) = Exec(Exec(Exec(m, a), b), c)
<1> DEFINE m1 == Exec(m, a)
           m2 == Exec(m1, b)
           m3 == Exec(m2, c)
           f == [i \in 0..3 |-> CASE i = 0 -> m [] i = 1 -> m1 [] i = 2 -> m2 [] i = 3 -> m3]
<1>1. Len(<<a, b, c>>) = 3 /\ Executes(f, m, <<a, b, c>>)
  BY DEF Executes
<1>2. PICK g : Executes(g, m, <<a, b, c>>) /\ Run(m, <<a, b, c>>) = g[3]
  BY <1>1, RunIsLast
<1>3. g[0] = m /\ g[1] = m1 /\ g[2] = m2
  BY <1>1, <1>2 DEF Executes
<1> QED BY <1>1, <1>2, <1>3 DEF Executes

LEMMA RunFour ==
  ASSUME NEW m, NEW a, NEW b, NEW c, NEW d
  PROVE  Run(m, <<a, b, c, d>>) = Exec(Exec(Exec(Exec(m, a), b), c), d)
<1> DEFINE m1 == Exec(m, a)
           m2 == Exec(m1, b)
           m3 == Exec(m2, c)
           m4 == Exec(m3, d)
           f == [i \in 0..4 |-> CASE i = 0 -> m [] i = 1 -> m1 [] i = 2 -> m2 [] i = 3 -> m3 [] i = 4 -> m4]
<1>1. Len(<<a, b, c, d>>) = 4 /\ Executes(f, m, <<a, b, c, d>>)
  BY DEF Executes
<1>2. PICK g : Executes(g, m, <<a, b, c, d>>) /\ Run(m, <<a, b, c, d>>) = g[4]
  BY <1>1, RunIsLast
<1>3. g[0] = m /\ g[1] = m1 /\ g[2] = m2 /\ g[3] = m3
  BY <1>1, <1>2 DEF Executes
<1> QED BY <1>1, <1>2, <1>3 DEF Executes

-----------------------------------------------------------------------------
LEMMA RegChanged ==
  ASSUME NEW m, NEW s, NEW q1, NEW q2, NEW q3, NEW q4, NEW q5,
         m = [reg |-> q1, resv |-> q2, diverged |-> q3, stray |-> q4, stopped |-> q5]
  PROVE  [m EXCEPT !.reg = s] = [reg |-> s, resv |-> q2, diverged |-> q3, stray |-> q4, stopped |-> q5]
  OBVIOUS

\* Writing a register.
LEMMA SetFacts ==
  ASSUME NEW m, Sound(m), NEW d \in Regs, NEW v
  PROVE  /\ Sound(Set(m, d, v)) /\ Set(m, d, v).resv = m.resv /\ Set(m, d, v).stopped = m.stopped
         /\ \A r \in Regs \ {0} : Set(m, d, v).reg[r] = IF r = d THEN v ELSE m.reg[r]
<1>1. CASE d = 0
  BY <1>1 DEF Set
<1>2. CASE d # 0
  <2> DEFINE z == [m EXCEPT !.reg[d] = v]
             s == [m.reg EXCEPT ![d] = v]
  <2>1. z = [reg |-> s, resv |-> m.resv, diverged |-> m.diverged, stray |-> m.stray, stopped |-> m.stopped]
    <3>1. z = [m EXCEPT !.reg = s]
      OBVIOUS
    <3>2. m = [reg |-> m.reg, resv |-> m.resv, diverged |-> m.diverged, stray |-> m.stray, stopped |-> m.stopped]
      BY DEF Sound
    <3> HIDE DEF s, z
    <3> QED BY <3>1, <3>2, RegChanged
  <2>2. s = [r \in Regs \ {0} |-> s[r]] /\ \A r \in Regs \ {0} : s[r] = IF r = d THEN v ELSE m.reg[r]
    BY <1>2 DEF Sound
  <2>3. Set(m, d, v) = z
    BY <1>2 DEF Set
  <2> HIDE DEF s, z
  <2>4. z.reg = s /\ z.resv = m.resv /\ z.stopped = m.stopped /\ ~ z.diverged /\ ~ z.stray
    BY <2>1 DEF Sound
  <2> QED BY <2>1, <2>2, <2>3, <2>4 DEF Sound
<1> QED BY <1>1, <1>2

LEMMA SetRegs ==
  ASSUME NEW m, Sound(m), NEW d \in Regs \ {0}, NEW v
  PROVE  /\ Reg(Set(m, d, v), d) = v
         /\ \A r \in Regs \ {d} : Reg(Set(m, d, v), r) = Reg(m, r)
  BY SetFacts DEF Reg

\* Lines may write any register that is not reserved.
LEMMA KeptSet ==
  ASSUME GenInv, gpc # "idle", NEW m, Kept(m), NEW d \in wreg, NEW v, v.k # "ctr"
  PROVE  Kept(Set(m, d, v))
<1>1. d \in Regs /\ d \notin reserved /\ reserved \subseteq Regs \ {0}
  BY GenAssumption DEF wreg, GenInv, BaseHeld
<1> QED BY <1>1, SetFacts DEF Kept

LEMMA KeptNow ==
  ASSUME GenInv, gpc # "idle"
  PROVE  Kept(mach)
  BY DEF GenInv, Kept, CountersHidden

\* No register that may be read holds a counter value, and x0 never does.
LEMMA NoCounter ==
  ASSUME NEW m, Kept(m), NEW r \in Regs \ noread
  PROVE  ~ IsCtr(m, r)
  BY DEF IsCtr, Reg, Kept, Same

LEMMA Sources ==
  ASSUME GenInv, gpc # "idle"
  PROVE  rreg \subseteq Regs \ noread /\ cr \subseteq Regs \ noread /\ Alike(Regs \ {0}) \subseteq Regs
<1>1. ASSUME NEW S PROVE Alike(S) \subseteq S
  BY DEF Alike
<1> QED BY <1>1, GenAssumption DEF rreg, cr

\* An access to the data region, and a store while no reservation is held, change neither machine.
LEMMA AccessFacts ==
  ASSUME NEW m, Sound(m), NEW r, ~ IsCtr(m, r), NEW imm, NEW w, InData(Reg(m, r), imm, w)
  PROVE  Access(m, r, imm, w) = m
<1>1. Diverge(m, IsCtr(m, r)) = m
  BY DEF Diverge
<1>2. (m.stray \/ ~ InData(Reg(m, r), imm, w)) = FALSE
  BY DEF Sound
<1>3. Access(m, r, imm, w) = [m EXCEPT !.stray = FALSE]
  BY <1>1, <1>2 DEF Access
<1> QED BY <1>3 DEF Sound

LEMMA StoredFacts ==
  ASSUME NEW m, Sound(m), m.resv = "none"
  PROVE  Stored(m) = m
<1>1. Stored(m) = [m EXCEPT !.resv = "none"]
  BY DEF Stored
<1> QED BY <1>1 DEF Sound

-----------------------------------------------------------------------------
\* The instructions, on a machine that lines have kept so far.
LEMMA KeptAlu ==
  ASSUME GenInv, gpc # "idle", NEW m, Kept(m), NEW d \in wreg, NEW r \in Regs \ noread, NEW imm, NEW w
  PROVE  Exec(m, I("alu", d, r, imm, w)) = Set(m, d, Same) /\ Kept(Exec(m, I("alu", d, r, imm, w)))
<1>1. ~ IsCtr(m, r)
  BY NoCounter
<1>2. Exec(m, I("alu", d, r, imm, w)) = Set(m, d, Same)
  BY <1>1, ExecAlu DEF Tainted
<1>3. Same.k # "ctr"
  BY DEF Same
<1> QED BY <1>2, <1>3, KeptSet

LEMMA KeptLoad ==
  ASSUME GenInv, gpc # "idle", NEW m, Kept(m), NEW d \in wreg, NEW t \in Regs \ noread, NEW imm, NEW w,
         InData(Reg(m, t), imm, w)
  PROVE  Kept(Exec(m, I("load", d, t, imm, w)))
<1>1. Access(m, t, imm, w) = m
  BY NoCounter, AccessFacts DEF Kept
<1>2. Exec(m, I("load", d, t, imm, w)) = Set(m, d, Same)
  BY <1>1, ExecLoad
<1>3. Same.k # "ctr"
  BY DEF Same
<1> QED BY <1>2, <1>3, KeptSet

LEMMA KeptStore ==
  ASSUME GenInv, gpc = "block", NEW m, Kept(m), NEW r \in Regs \ noread, NEW t \in Regs \ noread, NEW imm, NEW w,
         InData(Reg(m, t), imm, w)
  PROVE  Kept(Exec(m, I("store", r, t, imm, w)))
<1>1. Access(m, t, imm, w) = m
  BY NoCounter, AccessFacts DEF Kept
<1>2. Diverge(m, IsCtr(m, r)) = m
  BY NoCounter DEF Diverge
<1>3. Stored(m) = m
  BY StoredFacts DEF Kept, GenInv, ReservationAt
<1>4. Exec(m, I("store", r, t, imm, w)) = m
  BY <1>1, <1>2, <1>3, ExecStore
<1> QED BY <1>4

LEMMA KeptAmo ==
  ASSUME GenInv, gpc = "block", NEW m, Kept(m), NEW d \in wreg, NEW r \in Regs \ noread, NEW t \in Regs \ noread,
         InData(Reg(m, t), 0, 4)
  PROVE  Kept(Exec(m, I("amo", d, t, 0, r)))
<1>1. Access(m, t, 0, 4) = m
  BY NoCounter, AccessFacts DEF Kept
<1>2. Diverge(m, IsCtr(m, r)) = m
  BY NoCounter DEF Diverge
<1>3. Stored(m) = m
  BY StoredFacts DEF Kept, GenInv, ReservationAt
<1>4. Exec(m, I("amo", d, t, 0, r)) = Set(m, d, Same)
  BY <1>1, <1>2, <1>3, ExecAmo
<1>5. Same.k # "ctr"
  BY DEF Same
<1> QED BY <1>4, <1>5, KeptSet

\* An SC drops a reservation both machines agree on.
LEMMA ScFacts ==
  ASSUME NEW m, Sound(m), m.resv # "differ", NEW d, NEW r, ~ IsCtr(m, r), NEW t, ~ IsCtr(m, t),
         InData(Reg(m, t), 0, 4)
  PROVE  /\ Exec(m, I("sc", d, t, 0, r)) = Set([m EXCEPT !.resv = "none"], d, Same)
         /\ Sound([m EXCEPT !.resv = "none"]) /\ [m EXCEPT !.resv = "none"].reg = m.reg
         /\ [m EXCEPT !.resv = "none"].stopped = m.stopped /\ [m EXCEPT !.resv = "none"].resv = "none"
<1>1. Access(m, t, 0, 4) = m
  BY AccessFacts
<1>2. Diverge(m, m.resv = "differ" \/ IsCtr(m, r)) = m
  BY DEF Diverge
<1>3. Exec(m, I("sc", d, t, 0, r)) = Set([m EXCEPT !.resv = "none"], d, Same)
  BY <1>1, <1>2, ExecSc
<1>4. m = [reg |-> m.reg, resv |-> m.resv, diverged |-> m.diverged, stray |-> m.stray, stopped |-> m.stopped]
  BY DEF Sound
<1> DEFINE z == [m EXCEPT !.resv = "none"]
<1>5. z = [reg |-> m.reg, resv |-> "none", diverged |-> m.diverged, stray |-> m.stray, stopped |-> m.stopped]
  BY <1>4
<1> HIDE DEF z
<1>6. z.reg = m.reg /\ z.resv = "none" /\ z.stopped = m.stopped /\ ~ z.diverged /\ ~ z.stray
  BY <1>5 DEF Sound
<1>7. Sound(z)
  BY <1>5, <1>6 DEF Sound
<1> QED BY <1>3, <1>6, <1>7 DEF z

LEMMA KeptSc ==
  ASSUME GenInv, gpc = "block", NEW m, Kept(m), NEW d \in wreg, NEW r \in Regs \ noread, NEW t \in Regs \ noread,
         InData(Reg(m, t), 0, 4)
  PROVE  Kept(Exec(m, I("sc", d, t, 0, r)))
<1>1. m.resv = "none"
  BY DEF Kept, GenInv, ReservationAt
<1> DEFINE z == [m EXCEPT !.resv = "none"]
<1>2. Sound(m) /\ ~ IsCtr(m, r) /\ ~ IsCtr(m, t)
  BY NoCounter DEF Kept
<1>3. Exec(m, I("sc", d, t, 0, r)) = Set(z, d, Same) /\ Sound(z) /\ z.reg = m.reg /\ z.resv = "none"
  BY <1>1, <1>2, ScFacts
<1> HIDE DEF z
<1>4. Kept(z)
  BY <1>1, <1>3 DEF Kept
<1>5. Same.k # "ctr"
  BY DEF Same
<1> QED BY <1>3, <1>4, <1>5, KeptSet

LEMMA KeptTest ==
  ASSUME NEW m, Kept(m), NEW r \in Regs \ noread
  PROVE  /\ Kept(Exec(m, I("test", 0, r, 0, 0))) /\ Kept(Exec(m, I("nop", 0, 0, 0, 0)))
<1>1. ~ IsCtr(m, r)
  BY NoCounter
<1>2. Exec(m, I("test", 0, r, 0, 0)) = m /\ Exec(m, I("nop", 0, 0, 0, 0)) = m
  BY <1>1, ExecTest, ExecNop DEF Diverge
<1> QED BY <1>2

LEMMA KeptCsr ==
  ASSUME GenInv, gpc # "idle", NEW m, Kept(m), NEW d \in wreg, NEW r \in Regs \ noread
  PROVE  Kept(Exec(m, I("csr", d, r, 0, 0)))
<1>1. ~ IsCtr(m, r)
  BY NoCounter
<1>2. Exec(m, I("csr", d, r, 0, 0)) = Set(m, d, Same)
  BY <1>1, ExecCsr DEF Diverge
<1>3. Same.k # "ctr"
  BY DEF Same
<1> QED BY <1>2, <1>3, KeptSet

-----------------------------------------------------------------------------
\* addr: BASE + (r & mask) is in t afterwards, with that range and alignment.
LEMMA AddrFacts ==
  ASSUME GenInv, gpc # "idle", NEW t \in tmp(Regs), NEW mask \in Int, NEW w, NEW l \in addr(t, mask, w)
  PROVE  \E a, b, z : /\ l = <<a, b>> /\ z = Exec(Exec(mach, a), b) /\ Kept(z)
                      /\ Reg(z, t) = Ptr(Middle, Middle + mask, w)
<1>1. PICK r \in rreg : l = <<I("andi", t, r, mask, w), I("add", t, base, 0, 0)>>
  BY DEF addr
<1>2. r \in Regs \ noread
  BY Sources
<1>3. /\ t \in wreg /\ t \in Regs \ {0} /\ t # base /\ base \in Regs \ {0} /\ Sound(mach) /\ Kept(mach)
      /\ Reg(mach, base) = Ptr(Middle, Middle, 64)
  BY KeptNow DEF tmp, wreg, GenInv, BaseHeld, Reg
<1> DEFINE n1 == Set(mach, t, Off(0, mask, w))
           n2 == Set(n1, t, Ptr(Middle, Middle + mask, w))
<1>4. Exec(mach, I("andi", t, r, mask, w)) = n1
  BY <1>2, <1>3, NoCounter, ExecAndi
<1>5. Kept(n1) /\ Sound(n1)
  <2>1. Off(0, mask, w).k # "ctr"
    BY DEF Off
  <2> QED BY <1>3, <2>1, KeptSet DEF Kept
<1>6. Reg(n1, t) = Off(0, mask, w) /\ Reg(n1, base) = Ptr(Middle, Middle, 64)
  BY <1>3, SetRegs
<1>7. Sum(Off(0, mask, w), Ptr(Middle, Middle, 64)) = Ptr(Middle, Middle + mask, w)
  <2>1. 0 + Middle = Middle /\ mask + Middle = Middle + mask
    BY DEF Middle
  <2> QED BY <2>1 DEF Sum, Off, Ptr
<1> HIDE DEF n1
<1>8. Exec(n1, I("add", t, base, 0, 0)) = n2
  BY <1>6, <1>7, ExecAdd
<1>9. Kept(n2)
  <2>1. Ptr(Middle, Middle + mask, w).k # "ctr"
    BY DEF Ptr
  <2> QED BY <1>3, <1>5, <2>1, KeptSet
<1>10. Reg(n2, t) = Ptr(Middle, Middle + mask, w)
  BY <1>3, <1>5, SetRegs
<1> QED BY <1>1, <1>4, <1>8, <1>9, <1>10

\* The access after it stays in the data region.
LEMMA PtrInData ==
  ASSUME NEW lo \in Int, NEW hi \in Int, NEW w \in {1, 2, 4}, NEW imm \in Int, lo + imm >= 0,
         hi + imm + w <= DATA_SIZE, (lo + imm) % w = 0
  PROVE  InData(Ptr(lo, hi, w), imm, w)
<1>1. w % w = 0
  OBVIOUS
<1> QED BY <1>1 DEF InData, Ptr

LEMMA ShiftPtr ==
  ASSUME NEW lo, NEW hi, NEW al, NEW imm
  PROVE  Shift(Ptr(lo, hi, al), imm) = Ptr(lo + imm, hi + imm, al)
<1>1. Ptr(lo, hi, al).k = "ptr"
  BY DEF Ptr
<1>2. Shift(Ptr(lo, hi, al), imm) = [Ptr(lo, hi, al) EXCEPT !.lo = @ + imm, !.hi = @ + imm]
  BY <1>1 DEF Shift
<1> QED BY <1>2 DEF Ptr

LEMMA AppendThird ==
  ASSUME NEW a, NEW b, NEW c
  PROVE  Append(<<a, b>>, c) = <<a, b, c>>
<1> DEFINE S == {a, b, c}
<1>1. <<a, b>> \in Seq(S) /\ <<a, b, c>> \in Seq(S) /\ c \in S
  OBVIOUS
<1>2. /\ Append(<<a, b>>, c) \in Seq(S) /\ Len(Append(<<a, b>>, c)) = 3
      /\ Append(<<a, b>>, c)[1] = a /\ Append(<<a, b>>, c)[2] = b /\ Append(<<a, b>>, c)[3] = c
  BY <1>1, AppendProperties
<1>3. Len(<<a, b, c>>) = 3 /\ <<a, b, c>>[1] = a /\ <<a, b, c>>[2] = b /\ <<a, b, c>>[3] = c
  OBVIOUS
<1>4. \A i \in 1..3 : i \in {1, 2, 3}
  OBVIOUS
<1> DEFINE s == Append(<<a, b>>, c)
           t == <<a, b, c>>
<1> HIDE DEF S, s, t
<1>5. \A i \in 1..Len(s) : s[i] = t[i]
  BY <1>2, <1>3, <1>4 DEF s, t
<1>6. s \in Seq(S) /\ t \in Seq(S) /\ Len(s) = Len(t)
  BY <1>1, <1>2, <1>3 DEF s, t
<1>7. s = t
  BY <1>5, <1>6, SeqEqual
<1> QED BY <1>7 DEF s, t

LEMMA AppendFourth ==
  ASSUME NEW a, NEW b, NEW c, NEW d
  PROVE  Append(<<a, b, c>>, d) = <<a, b, c, d>>
<1> DEFINE S == {a, b, c, d}
<1>1. <<a, b, c>> \in Seq(S) /\ <<a, b, c, d>> \in Seq(S) /\ d \in S
  OBVIOUS
<1>2. /\ Append(<<a, b, c>>, d) \in Seq(S) /\ Len(Append(<<a, b, c>>, d)) = 4
      /\ Append(<<a, b, c>>, d)[1] = a /\ Append(<<a, b, c>>, d)[2] = b
      /\ Append(<<a, b, c>>, d)[3] = c /\ Append(<<a, b, c>>, d)[4] = d
  BY <1>1, AppendProperties
<1>3. /\ Len(<<a, b, c, d>>) = 4 /\ <<a, b, c, d>>[1] = a /\ <<a, b, c, d>>[2] = b
      /\ <<a, b, c, d>>[3] = c /\ <<a, b, c, d>>[4] = d
  OBVIOUS
<1>4. \A i \in 1..4 : i \in {1, 2, 3, 4}
  OBVIOUS
<1> DEFINE s == Append(<<a, b, c>>, d)
           t == <<a, b, c, d>>
<1> HIDE DEF S, s, t
<1>5. \A i \in 1..Len(s) : s[i] = t[i]
  BY <1>2, <1>3, <1>4 DEF s, t
<1>6. s \in Seq(S) /\ t \in Seq(S) /\ Len(s) = Len(t)
  BY <1>1, <1>2, <1>3 DEF s, t
<1>7. s = t
  BY <1>5, <1>6, SeqEqual
<1> QED BY <1>7 DEF s, t

\* mem_addr: the lines leave an address for which the immediate is right.
LEMMA MemAddrFacts ==
  ASSUME GenInv, gpc # "idle", NEW t \in tmp(Regs), NEW w \in {1, 2, 4}, NEW x \in mem_addr(t, w), NEW i
  PROVE  \E z : /\ Run(mach, Append(x.lines, i)) = Exec(z, i) /\ Kept(z) /\ InData(Reg(z, t), x.imm, w)
<1>0. 1024 - w \in Int
  OBVIOUS
<1>1. CASE \E l \in addr(t, 1024 - w, w), imm \in {- 1024, 0} : x = [lines |-> l, imm |-> imm]
  <2>1. PICK l \in addr(t, 1024 - w, w), imm \in {- 1024, 0} : x = [lines |-> l, imm |-> imm]
    BY <1>1
  <2>2. PICK a, b, z : /\ l = <<a, b>> /\ z = Exec(Exec(mach, a), b) /\ Kept(z)
                       /\ Reg(z, t) = Ptr(Middle, Middle + (1024 - w), w)
    BY <1>0, AddrFacts
  <2>3. x.lines = l /\ x.imm = imm
    BY <2>1
  <2>4. Append(x.lines, i) = <<a, b, i>>
    BY <2>2, <2>3, AppendThird
  <2>5. Run(mach, Append(x.lines, i)) = Exec(z, i)
    <3>1. Run(mach, <<a, b, i>>) = Exec(Exec(Exec(mach, a), b), i)
      BY RunThree
    <3> QED BY <2>2, <2>4, <3>1
  <2>6. /\ imm \in Int /\ Middle \in Int /\ Middle + (1024 - w) \in Int
        /\ (Middle + imm) % w = 0 /\ Middle + imm >= 0 /\ Middle + (1024 - w) + imm + w <= DATA_SIZE
    BY DEF Middle, DATA_SIZE
  <2>7. InData(Reg(z, t), x.imm, w)
    BY <2>2, <2>3, <2>6, PtrInData
  <2> QED BY <2>2, <2>5, <2>7
<1>2. CASE \E l \in addr(t, 1024 - w, w), imm \in {w * (1024 \div w), w * (2047 \div w)} :
             x = [lines |-> Append(l, I("addi", t, t, - 2048, 0)), imm |-> imm]
  <2>1. PICK l \in addr(t, 1024 - w, w), imm \in {w * (1024 \div w), w * (2047 \div w)} :
               x = [lines |-> Append(l, I("addi", t, t, - 2048, 0)), imm |-> imm]
    BY <1>2, ZenonT(60)
  <2>2. PICK a, b, z : /\ l = <<a, b>> /\ z = Exec(Exec(mach, a), b) /\ Kept(z)
                       /\ Reg(z, t) = Ptr(Middle, Middle + (1024 - w), w)
    BY <1>0, AddrFacts
  <2> DEFINE c == I("addi", t, t, - 2048, 0)
             low == Ptr(Middle - 2048, Middle + (1024 - w) - 2048, w)
             k == Set(z, t, low)
  <2>3. x.lines = Append(l, c) /\ x.imm = imm
    BY <2>1
  <2>4. Shift(Reg(z, t), - 2048) = low
    <3>1. Shift(Reg(z, t), - 2048) = Ptr(Middle + (- 2048), (Middle + (1024 - w)) + (- 2048), w)
      BY <2>2, ShiftPtr
    <3>2. Middle + (- 2048) = Middle - 2048 /\ (Middle + (1024 - w)) + (- 2048) = Middle + (1024 - w) - 2048
      BY DEF Middle
    <3> QED BY <3>1, <3>2
  <2>5. Exec(z, c) = k
    BY <2>4, ExecAddi
  <2>6. t \in wreg /\ t \in Regs \ {0}
    BY DEF tmp, wreg
  <2>7. low.k # "ctr"
    BY DEF Ptr
  <2> HIDE DEF c, low
  <2>8. Kept(k) /\ Reg(k, t) = low
    BY <2>2, <2>6, <2>7, KeptSet, SetRegs DEF Kept
  <2> HIDE DEF k
  <2>9. Append(x.lines, i) = <<a, b, c, i>>
    <3>1. x.lines = <<a, b, c>>
      BY <2>2, <2>3, AppendThird
    <3> QED BY <3>1, AppendFourth
  <2>10. Run(mach, Append(x.lines, i)) = Exec(k, i)
    <3>1. Run(mach, <<a, b, c, i>>) = Exec(Exec(Exec(Exec(mach, a), b), c), i)
      BY RunFour
    <3> QED BY <2>2, <2>5, <2>9, <3>1
  <2>11. /\ imm \in Int /\ Middle - 2048 \in Int /\ Middle + (1024 - w) - 2048 \in Int
         /\ (Middle - 2048 + imm) % w = 0 /\ Middle - 2048 + imm >= 0
         /\ Middle + (1024 - w) - 2048 + imm + w <= DATA_SIZE
    BY DEF Middle, DATA_SIZE
  <2>12. InData(Reg(k, t), x.imm, w)
    <3> DEFINE lo == Middle - 2048
               hi == Middle + (1024 - w) - 2048
    <3>1. Reg(k, t) = Ptr(lo, hi, w) /\ x.imm = imm
      BY <2>3, <2>8 DEF low
    <3>2. /\ lo \in Int /\ hi \in Int /\ imm \in Int /\ lo + imm >= 0
          /\ hi + imm + w <= DATA_SIZE /\ (lo + imm) % w = 0
      BY <2>11
    <3> HIDE DEF lo, hi
    <3>3. InData(Ptr(lo, hi, w), imm, w)
      BY <3>2, PtrInData
    <3> QED BY <3>1, <3>3
  <2> QED BY <2>8, <2>10, <2>12
<1> QED BY <1>1, <1>2 DEF mem_addr

LEMMA AddrAccess ==
  ASSUME GenInv, gpc # "idle", NEW t \in tmp(Regs), NEW mask \in Int, NEW l \in addr(t, mask, 4), NEW i,
         NEW off \in {0, 124, 252}, mask + off <= 1020
  PROVE  \E z : /\ Run(mach, Append(l, i)) = Exec(z, i) /\ Kept(z)
                /\ Reg(z, t) = Ptr(Middle, Middle + mask, 4) /\ InData(Reg(z, t), off, 4)
<1>1. PICK a, b, z : /\ l = <<a, b>> /\ z = Exec(Exec(mach, a), b) /\ Kept(z)
                     /\ Reg(z, t) = Ptr(Middle, Middle + mask, 4)
  BY AddrFacts
<1>2. Append(l, i) = <<a, b, i>>
  BY <1>1, AppendThird
<1>3. Run(mach, <<a, b, i>>) = Exec(Exec(Exec(mach, a), b), i)
  BY RunThree
<1>4. /\ off \in Int /\ Middle \in Int /\ Middle + mask \in Int /\ 4 \in {1, 2, 4}
      /\ Middle + off >= 0 /\ (Middle + off) % 4 = 0 /\ Middle + mask + off + 4 <= DATA_SIZE
  BY DEF Middle, DATA_SIZE
<1>5. InData(Reg(z, t), off, 4)
  BY <1>1, <1>4, PtrInData
<1> QED BY <1>1, <1>2, <1>3, <1>5, ZenonT(40)

\* Which registers lines may write and read, between items and inside one.
LEMMA Choices ==
  ASSUME GenInv, gpc # "idle"
  PROVE  /\ wreg0 \subseteq wreg /\ cw \subseteq wreg
         /\ \A S \in SUBSET Regs : tmp(S) \subseteq wreg /\ tmp(S) \subseteq Regs
         /\ cw \subseteq tmp(Regs) /\ wreg \subseteq Regs /\ 0 \in wreg /\ 0 \in Regs \ noread
         /\ tmp(Regs) \subseteq Regs \ noread
         /\ \A r \in {1, 2} : r \notin reserved => r \in wreg /\ r \in tmp(Regs)
<1>1. noread \subseteq reserved /\ 0 \notin reserved
  BY DEF GenInv, CountersHidden, CounterHeld, BaseHeld
<1>2. wreg0 \subseteq wreg /\ wreg \subseteq Regs /\ 0 \in wreg /\ 0 \in Regs \ noread
  BY <1>1, GenAssumption DEF wreg, wreg0
<1>3. \A S \in SUBSET Regs : tmp(S) \subseteq wreg /\ tmp(S) \subseteq Regs
  BY DEF wreg, tmp
<1>4. cw \subseteq wreg /\ cw \subseteq tmp(Regs) /\ tmp(Regs) \subseteq Regs \ noread
  BY <1>1, GenAssumption DEF wreg, cw, tmp
<1>5. \A r \in {1, 2} : r \notin reserved => r \in wreg /\ r \in tmp(Regs)
  BY GenAssumption DEF wreg, tmp
<1> QED BY <1>2, <1>3, <1>4, <1>5

LEMMA AluKept ==
  ASSUME GenInv, gpc # "idle", NEW d \in wreg, NEW r \in Regs \ noread
  PROVE  Kept(Run(mach, <<I("alu", d, r, 0, 0)>>))
  BY KeptNow, KeptAlu, RunOne

LEMMA AluOneKept ==
  ASSUME GenInv, gpc # "idle", NEW lines \in alu_one
  PROVE  Kept(Run(mach, lines))
<1>1. PICK d \in wreg, r \in rreg : lines = <<I("alu", d, r, 0, 0)>>
  BY DEF alu_one
<1> QED BY <1>1, Sources, AluKept

LEMMA LoadKept ==
  ASSUME GenInv, gpc # "idle", NEW lines \in g_load
  PROVE  Kept(Run(mach, lines))
<1>0. PICK t \in tmp(Regs), w \in {1, 2, 4} :
             \E x \in mem_addr(t, w), d \in wreg : lines = Append(x.lines, I("load", d, t, x.imm, w))
  BY DEF g_load
<1>1. PICK x \in mem_addr(t, w), d \in wreg : lines = Append(x.lines, I("load", d, t, x.imm, w))
  BY <1>0
<1> DEFINE i == I("load", d, t, x.imm, w)
<1>2. PICK z : Run(mach, Append(x.lines, i)) = Exec(z, i) /\ Kept(z) /\ InData(Reg(z, t), x.imm, w)
  BY MemAddrFacts
<1>3. Kept(Exec(z, i))
  BY <1>2, KeptLoad, Choices
<1> QED BY <1>1, <1>2, <1>3

LEMMA StoreKept ==
  ASSUME GenInv, gpc = "block", NEW lines \in g_store
  PROVE  Kept(Run(mach, lines))
<1>0. PICK t \in tmp(Regs), w \in {1, 2, 4} :
             \E x \in mem_addr(t, w), d \in rreg : lines = Append(x.lines, I("store", d, t, x.imm, w))
  BY DEF g_store
<1>1. PICK x \in mem_addr(t, w), d \in rreg : lines = Append(x.lines, I("store", d, t, x.imm, w))
  BY <1>0
<1> DEFINE i == I("store", d, t, x.imm, w)
<1>2. PICK z : Run(mach, Append(x.lines, i)) = Exec(z, i) /\ Kept(z) /\ InData(Reg(z, t), x.imm, w)
  BY MemAddrFacts
<1>3. Kept(Exec(z, i))
  BY <1>2, KeptStore, Choices, Sources
<1> QED BY <1>1, <1>2, <1>3

\* The accesses at a fixed distance from addr(): compressed ones, AMOs and lone SCs.
LEMMA WordAccessKept ==
  ASSUME GenInv, gpc = "block", NEW t \in tmp(Regs), NEW mask \in Int, NEW l \in addr(t, mask, 4),
         NEW off \in {0, 124, 252}, mask + off <= 1020, NEW d \in wreg, NEW r \in Regs \ noread
  PROVE  /\ Kept(Run(mach, Append(l, I("load", d, t, off, 4))))
         /\ Kept(Run(mach, Append(l, I("store", r, t, off, 4))))
         /\ off = 0 => /\ Kept(Run(mach, Append(l, I("amo", d, t, 0, r))))
                       /\ Kept(Run(mach, Append(l, I("sc", d, t, 0, r))))
<1>0. gpc # "idle" /\ t \in Regs \ noread
  BY Choices
<1>1. ASSUME NEW i
      PROVE  \E z : Run(mach, Append(l, i)) = Exec(z, i) /\ Kept(z) /\ InData(Reg(z, t), off, 4)
  BY <1>0, AddrAccess
<1>2. Kept(Run(mach, Append(l, I("load", d, t, off, 4))))
  BY <1>0, <1>1, KeptLoad
<1>3. Kept(Run(mach, Append(l, I("store", r, t, off, 4))))
  BY <1>0, <1>1, KeptStore
<1>4. ASSUME off = 0 PROVE Kept(Run(mach, Append(l, I("amo", d, t, 0, r))))
  BY <1>0, <1>1, <1>4, KeptAmo
<1>5. ASSUME off = 0 PROVE Kept(Run(mach, Append(l, I("sc", d, t, 0, r))))
  BY <1>0, <1>1, <1>5, KeptSc
<1> QED BY <1>2, <1>3, <1>4, <1>5

\* The straight items, and the lines before a jump.
LEMMA StraightKept ==
  ASSUME GenInv, gpc = "block", NEW cat \in Straight, NEW lines \in Lines(cat)
  PROVE  Kept(Run(mach, lines))
<1>0. gpc # "idle" /\ noread = {} /\ 0 \in Regs /\ 2 \in Regs /\ 0 \in wreg
  BY GenAssumption, Choices DEF GenInv, CountersHidden
<1>1. ASSUME lines = <<I("nop", 0, 0, 0, 0)>> PROVE Kept(Run(mach, lines))
  BY <1>0, <1>1, KeptNow, KeptTest, RunOne
<1>2. ASSUME NEW d \in wreg, NEW r \in Regs, lines = <<I("alu", d, r, 0, 0)>> PROVE Kept(Run(mach, lines))
  BY <1>0, <1>2, AluKept
<1>3. CASE cat = "alu"
  BY <1>0, <1>3, AluOneKept DEF Lines
<1>4. CASE cat = "li_special"
  <2>1. PICK d \in wreg : lines = <<I("alu", d, 0, 0, 0), I("addi", d, d, 0, 0)>>
    BY <1>4 DEF Lines, g_li_special
  <2> DEFINE z == Set(mach, d, Same)
  <2>2. Exec(mach, I("alu", d, 0, 0, 0)) = z /\ Kept(z) /\ Sound(z)
    BY <1>0, KeptNow, KeptAlu DEF Kept
  <2>3. Reg(z, d) = Same
    BY <1>0, Choices, KeptNow, SetRegs DEF Reg, Kept
  <2>4. Shift(Same, 0) = Same /\ Same.k # "ctr"
    BY DEF Shift, Same
  <2> HIDE DEF z
  <2>5. Exec(z, I("addi", d, d, 0, 0)) = Set(z, d, Same)
    BY <2>3, <2>4, ExecAddi
  <2>6. Kept(Set(z, d, Same))
    BY <1>0, <2>2, <2>4, KeptSet
  <2> QED BY <2>1, <2>2, <2>5, <2>6, RunTwo
<1>5. CASE cat = "c_alu"
  <2>1. lines \in g_c_alu
    BY <1>5 DEF Lines
  <2>2. cr \subseteq Regs /\ Alike(Regs \ {0}) \subseteq Regs /\ tmp(Regs \ {2}) \subseteq wreg
    BY <1>0, Sources, Choices
  <2>3. \/ \E d \in wreg0 \cup cw : lines = <<I("alu", d, d, 0, 0)>>
        \/ \E d \in wreg0 \cup tmp(Regs \ {2}) : lines = <<I("alu", d, 0, 0, 0)>>
        \/ 2 \notin reserved /\ lines = <<I("alu", 2, 2, 0, 0)>>
        \/ \E d \in cw : lines = <<I("alu", d, 2, 0, 0)>>
        \/ \E d \in cw, r \in cr : lines = <<I("alu", d, r, 0, 0)>>
        \/ \E d \in wreg0, r \in Alike(Regs \ {0}) : lines = <<I("alu", d, r, 0, 0)>>
        \/ lines = <<I("nop", 0, 0, 0, 0)>>
    BY <2>1, SMTT(30) DEF g_c_alu
  <2>4. wreg0 \subseteq wreg /\ cw \subseteq wreg /\ wreg \subseteq Regs /\ (2 \notin reserved => 2 \in wreg)
    BY <1>0, Choices
  <2>5. \/ \E d \in wreg, r \in Regs : lines = <<I("alu", d, r, 0, 0)>>
        \/ lines = <<I("nop", 0, 0, 0, 0)>>
    BY <1>0, <2>2, <2>3, <2>4
  <2> QED BY <1>1, <1>2, <2>5
<1>6. CASE cat = "c_hint"
  BY <1>0, <1>1, <1>2, <1>6, Choices DEF Lines, g_c_hint
<1>7. CASE cat = "load"
  BY <1>0, <1>7, LoadKept DEF Lines
<1>8. CASE cat = "store"
  BY <1>8, StoreKept DEF Lines
<1>9. CASE cat = "c_mem"
  <2>1. lines \in g_c_mem
    BY <1>9 DEF Lines
  <2>2. ASSUME NEW t \in cw, NEW l \in addr(t, 892, 4), NEW d \in cw, NEW off \in {0, 4 * 31},
               lines = Append(l, I("load", d, t, off, 4))
        PROVE  Kept(Run(mach, lines))
    BY <1>0, <2>2, WordAccessKept, Choices
  <2>3. ASSUME NEW t \in cw, NEW l \in addr(t, 892, 4), NEW d \in cr, NEW off \in {0, 4 * 31},
               lines = Append(l, I("store", d, t, off, 4))
        PROVE  Kept(Run(mach, lines))
    BY <1>0, <2>3, WordAccessKept, Choices, Sources
  <2>4. ASSUME 2 \notin reserved, NEW l \in addr(2, 764, 4), NEW d \in wreg0, NEW off \in {0, 4 * 63},
               lines = Append(l, I("load", d, 2, off, 4))
        PROVE  Kept(Run(mach, lines))
    BY <1>0, <2>4, WordAccessKept, Choices
  <2>5. ASSUME 2 \notin reserved, NEW l \in addr(2, 764, 4), NEW d \in rreg, NEW off \in {0, 4 * 63},
               lines = Append(l, I("store", d, 2, off, 4))
        PROVE  Kept(Run(mach, lines))
    BY <1>0, <2>5, WordAccessKept, Choices, Sources
  <2>6. CASE lines \in g_load
    BY <1>0, <2>6, LoadKept
  <2> DEFINE clw(t) == {Append(l, I("load", d, t, off, 4)) : l \in addr(t, 892, 4), d \in cw, off \in {0, 4 * 31}}
             csw(t) == {Append(l, I("store", d, t, off, 4)) : l \in addr(t, 892, 4), d \in cr, off \in {0, 4 * 31}}
             clwsp == {Append(l, I("load", d, 2, off, 4)) : l \in addr(2, 764, 4), d \in wreg0, off \in {0, 4 * 63}}
             cswsp == {Append(l, I("store", d, 2, off, 4)) : l \in addr(2, 764, 4), d \in rreg, off \in {0, 4 * 63}}
  <2>7. g_c_mem = (UNION {clw(t) : t \in cw}) \cup (UNION {csw(t) : t \in cw})
                    \cup (IF 2 \in reserved THEN g_load ELSE clwsp \cup cswsp)
    BY DEF g_c_mem
  <2>8. ASSUME NEW t \in cw, lines \in clw(t) PROVE Kept(Run(mach, lines))
    BY <2>2, <2>8
  <2>9. ASSUME NEW t \in cw, lines \in csw(t) PROVE Kept(Run(mach, lines))
    BY <2>3, <2>9
  <2>10. ASSUME 2 \notin reserved, lines \in clwsp \cup cswsp PROVE Kept(Run(mach, lines))
    BY <2>4, <2>5, <2>10
  <2> HIDE DEF clw, csw, clwsp, cswsp
  <2>11. \/ \E t \in cw : lines \in clw(t) \/ lines \in csw(t)
         \/ lines \in g_load \/ (2 \notin reserved /\ lines \in clwsp \cup cswsp)
    BY <2>1, <2>7
  <2> QED BY <2>6, <2>8, <2>9, <2>10, <2>11
<1>10. CASE cat = "amo"
  <2>1. PICK t \in tmp(Regs) : \E l \in addr(t, 1020, 4), d \in wreg, r \in rreg : lines = Append(l, I("amo", d, t, 0, r))
    BY <1>10 DEF Lines, g_amo
  <2> QED BY <1>0, <2>1, WordAccessKept, Sources
<1>11. CASE cat = "sc_only"
  <2>1. PICK t \in tmp(Regs) : \E l \in addr(t, 1020, 4), d \in wreg, r \in rreg : lines = Append(l, I("sc", d, t, 0, r))
    BY <1>11 DEF Lines, g_sc_only
  <2> QED BY <1>0, <2>1, WordAccessKept, Sources
<1>12. CASE cat = "csr_scratch"
  <2>1. PICK d \in wreg, r \in rreg : lines = <<I("csr", d, r, 0, 0)>>
    BY <1>12 DEF Lines, g_csr_scratch
  <2> QED BY <1>0, <2>1, KeptNow, KeptCsr, Sources, RunOne
<1>13. CASE cat = "fence"
  BY <1>1, <1>13 DEF Lines, g_fence
<1> QED BY <1>3, <1>4, <1>5, <1>6, <1>7, <1>8, <1>9, <1>10, <1>11, <1>12, <1>13 DEF Straight

LEMMA JumpKept ==
  ASSUME GenInv, gpc = "block", NEW cat \in Jumping, NEW lines \in Jumps(cat)
  PROVE  Kept(Run(mach, lines))
<1>0. gpc # "idle" /\ noread = {} /\ 0 \in Regs /\ 1 \in Regs /\ 0 \in wreg
  BY GenAssumption, Choices DEF GenInv, CountersHidden
<1>1. ASSUME lines = <<I("nop", 0, 0, 0, 0)>> PROVE Kept(Run(mach, lines))
  BY <1>0, <1>1, KeptNow, KeptTest, RunOne
<1>2. ASSUME NEW d \in wreg, lines = <<I("alu", d, 0, 0, 0)>> PROVE Kept(Run(mach, lines))
  BY <1>0, <1>2, AluKept
<1>3. ASSUME NEW r \in Regs, lines = <<I("test", 0, r, 0, 0)>> PROVE Kept(Run(mach, lines))
  BY <1>0, <1>3, KeptNow, KeptTest, RunOne
<1>4. ASSUME NEW t \in tmp(Regs)
      PROVE  \E m : /\ Kept(m) /\ Exec(Exec(mach, I("alu", t, 0, 0, 0)), I("test", 0, t, 0, 0)) = m
  BY <1>0, KeptNow, KeptAlu, KeptTest, Choices
<1>5. ASSUME NEW t \in tmp(Regs), lines = <<I("alu", t, 0, 0, 0), I("test", 0, t, 0, 0)>>
      PROVE  Kept(Run(mach, lines))
  BY <1>4, <1>5, RunTwo
<1>6. ASSUME NEW t \in tmp(Regs), NEW d \in wreg,
             lines = <<I("alu", t, 0, 0, 0), I("test", 0, t, 0, 0), I("alu", d, 0, 0, 0)>>
      PROVE  Kept(Run(mach, lines))
  BY <1>0, <1>4, <1>6, KeptAlu, RunThree
<1>7. CASE cat \in {"branch", "c_branch"}
  BY <1>0, <1>3, <1>7, Sources DEF Jumps, g_branch, g_c_branch
<1>8. CASE cat = "jal"
  BY <1>2, <1>8 DEF Jumps, g_jal
<1>9. CASE cat = "c_jump"
  BY <1>0, <1>1, <1>2, <1>9, Choices DEF Jumps, g_c_jump
<1>10. CASE cat = "jalr"
  BY <1>6, <1>10 DEF Jumps, g_jalr
<1>11. CASE cat = "c_jr"
  BY <1>0, <1>5, <1>6, <1>11, Choices DEF Jumps, g_c_jr
<1> QED BY <1>7, <1>8, <1>9, <1>10, <1>11 DEF Jumping

-----------------------------------------------------------------------------
\* The invariant's step. Lines that keep what they must keep the invariant inside an item,
LEMMA WindowKeeps ==
  ASSUME GenInv, gpc \notin {"idle", "done"}, Kept(mach'), UNCHANGED <<gpc, base, reserved, noread, loop>>,
         item' = [t |-> item.t, s |-> item.s, w |-> item'.w]
  PROVE  GenInv'
<1>1. item'.t = item.t /\ item'.s = item.s
  OBVIOUS
<1>2. gpc \in {"block", "lrsc", "sc2", "counter"} /\ Sound(mach)' /\ mach'.resv = mach.resv
  BY DEF GenInv, Kept, Sound
<1>3. BaseHeld'
  BY DEF GenInv, BaseHeld, Kept
<1>4. LoopHeld'
  BY DEF GenInv, LoopHeld, Kept
<1>5. AddressHeld' /\ CounterHeld'
  BY <1>1 DEF GenInv, AddressHeld, CounterHeld, Kept
<1>6. CountersHidden' /\ ReservationAt'
  BY <1>1, <1>2 DEF GenInv, CountersHidden, ReservationAt, Kept
<1>7. item' = [t |-> item'.t, s |-> item'.s, w |-> item'.w]
  BY <1>1
<1> QED BY <1>2, <1>3, <1>4, <1>5, <1>6, <1>7 DEF GenInv

\* and between items it is enough that BASE and the loop's counter are as they were.
LEMMA BlockKeeps ==
  ASSUME gpc' = "block", Sound(mach'), mach'.resv = "none", noread' = {}, BaseHeld', LoopHeld',
         item' = [t |-> item'.t, s |-> item'.s, w |-> item'.w],
         \A r \in Regs \ {0} : mach'.reg[r].k # "ctr"
  PROVE  GenInv'
  BY DEF GenInv, Sound, AddressHeld, CounterHeld, CountersHidden, ReservationAt

LEMMA SettleFacts ==
  ASSUME NEW m, Sound(m), NEW S
  PROVE  /\ Sound(Settle(m, S)) /\ Settle(m, S).resv = m.resv
         /\ \A r \in Regs \ {0} : Settle(m, S).reg[r] = IF r \in S \/ m.reg[r].k = "ctr" THEN m.reg[r] ELSE Same
<1> DEFINE s == [r \in Regs \ {0} |-> IF r \in S \/ m.reg[r].k = "ctr" THEN m.reg[r] ELSE Same]
           z == [m EXCEPT !.reg = s]
<1>1. Settle(m, S) = z
  BY DEF Settle
<1>2. s = [r \in Regs \ {0} |-> s[r]]
      /\ \A r \in Regs \ {0} : s[r] = IF r \in S \/ m.reg[r].k = "ctr" THEN m.reg[r] ELSE Same
  OBVIOUS
<1>3. m = [reg |-> m.reg, resv |-> m.resv, diverged |-> m.diverged, stray |-> m.stray, stopped |-> m.stopped]
  BY DEF Sound
<1> HIDE DEF s
<1>4. z = [reg |-> s, resv |-> m.resv, diverged |-> m.diverged, stray |-> m.stray, stopped |-> m.stopped]
  BY <1>3, RegChanged
<1> HIDE DEF z
<1>5. z.reg = s /\ z.resv = m.resv /\ ~ z.diverged /\ ~ z.stray
  BY <1>4 DEF Sound
<1>6. Sound(z)
  BY <1>2, <1>4, <1>5 DEF Sound
<1> QED BY <1>1, <1>2, <1>5, <1>6

\* An item is complete: its registers are no longer followed.
LEMMA CompleteKeeps ==
  ASSUME GenInv, gpc # "idle", NEW m, Sound(m), m.resv = "none", \A r \in Regs \ {0} : m.reg[r].k # "ctr",
         \A r \in {base, loop.c} \ {0} : m.reg[r] = mach.reg[r],
         mach' = Settle(m, {base, loop.c}), gpc' = "block", UNCHANGED <<base, loop>>, noread' = {},
         reserved' \subseteq reserved, {base, loop.c} \cap reserved \subseteq reserved',
         item' = [t |-> item'.t, s |-> item'.s, w |-> item'.w]
  PROVE  GenInv'
<1>1. Sound(mach') /\ mach'.resv = "none"
  BY SettleFacts
<1>2. \A r \in Regs \ {0} : mach'.reg[r] = IF r \in {base, loop.c} THEN mach.reg[r] ELSE Same
  BY SettleFacts
<1>3. BaseHeld'
  BY <1>2 DEF GenInv, BaseHeld
<1>4. LoopHeld'
  BY <1>2 DEF GenInv, BaseHeld, LoopHeld
<1>5. \A r \in Regs \ {0} : mach'.reg[r].k # "ctr"
  <2>1. Same.k # "ctr"
    BY DEF Same
  <2>2. \A r \in Regs \ {0} : mach'.reg[r] = Same \/ (r \in {base, loop.c} \ {0} /\ mach'.reg[r] = m.reg[r])
    BY <1>2
  <2> QED BY <2>1, <2>2
<1> QED BY <1>1, <1>3, <1>4, <1>5, BlockKeeps

LEMMA ItemKeeps ==
  ASSUME GenInv, gpc = "block", NEW lines, Kept(Run(mach, lines)), mach' = Settle(Run(mach, lines), {base, loop.c}),
         UNCHANGED <<gpc, base, loop, reserved, noread, item>>
  PROVE  GenInv'
<1>1. noread = {} /\ mach.resv = "none" /\ item = [t |-> item.t, s |-> item.s, w |-> item.w]
  BY DEF GenInv, CountersHidden, ReservationAt
<1>2. base \in reserved /\ (loop.c # 0 => loop.c \in reserved)
  BY DEF GenInv, BaseHeld, LoopHeld
<1> DEFINE m == Run(mach, lines)
<1> HIDE DEF m
<1>3. /\ Sound(m) /\ m.resv = "none" /\ \A r \in Regs \ {0} : m.reg[r].k # "ctr"
      /\ \A r \in {base, loop.c} \ {0} : m.reg[r] = mach.reg[r]
  BY <1>1, <1>2 DEF Kept, m
<1>4. mach' = Settle(m, {base, loop.c})
  BY DEF m
<1> QED BY <1>1, <1>3, <1>4, CompleteKeeps

LEMMA ProgramKeeps ==
  ASSUME NEW x, NEW b \in Regs \ {0, 1, 2}, NEW z, Program(x, b, z)
  PROVE  GenInv'
<1>1. Sound(PowerOn) /\ PowerOn.resv = "none" /\ \A r \in Regs \ {0} : PowerOn.reg[r] = Same
  BY DEF PowerOn, Sound
<1>2. mach' = Set(PowerOn, b, Ptr(Middle, Middle, 64)) /\ reserved' = {b} /\ base' = b /\ loop'.c = 0 /\ noread' = {}
      /\ gpc' = "block" /\ item' = NoItem
  BY DEF Program, NoLoop
<1>3. Sound(mach') /\ mach'.resv = "none"
  BY <1>1, <1>2, SetFacts
<1>4. \A r \in Regs \ {0} : mach'.reg[r] = IF r = b THEN Ptr(Middle, Middle, 64) ELSE Same
  BY <1>1, <1>2, SetFacts
<1>5. \A r \in Regs \ {0} : mach'.reg[r].k # "ctr"
  BY <1>4 DEF Ptr, Same
<1>6. BaseHeld' /\ LoopHeld'
  BY <1>2, <1>4 DEF BaseHeld, LoopHeld
<1>7. item' = [t |-> item'.t, s |-> item'.s, w |-> item'.w]
  BY <1>2 DEF NoItem
<1> QED BY <1>2, <1>3, <1>5, <1>6, <1>7, BlockKeeps

-----------------------------------------------------------------------------
\* Taking a reservation changes nothing else.
LEMMA HeldFacts ==
  ASSUME NEW m, Sound(m)
  PROVE  LET h == [m EXCEPT !.resv = "held"] IN Sound(h) /\ h.reg = m.reg /\ h.resv = "held"
<1> DEFINE h == [m EXCEPT !.resv = "held"]
<1>1. m = [reg |-> m.reg, resv |-> m.resv, diverged |-> m.diverged, stray |-> m.stray, stopped |-> m.stopped]
  BY DEF Sound
<1>2. h = [reg |-> m.reg, resv |-> "held", diverged |-> m.diverged, stray |-> m.stray, stopped |-> m.stopped]
  BY <1>1
<1> HIDE DEF h
<1>3. h.reg = m.reg /\ h.resv = "held" /\ ~ h.diverged /\ ~ h.stray
  BY <1>2 DEF Sound
<1>4. Sound(h)
  BY <1>2, <1>3 DEF Sound
<1> QED BY <1>3, <1>4 DEF h

LEMMA LrKeeps ==
  ASSUME GenInv, NEW t, NEW d, GenLr(t, d)
  PROVE  GenInv'
<1>0. /\ gpc = "block" /\ gpc # "idle" /\ t \in tmp(Regs) /\ d \in wreg \ {t} /\ gpc' = "lrsc"
      /\ item' = [t |-> t, s |-> t, w |-> 0] /\ reserved' = reserved \cup {t}
      /\ UNCHANGED <<base, noread, loop>>
  BY DEF GenLr
<1>1. t \in Regs \ {0} /\ t \notin reserved /\ d \in Regs /\ t \in Regs \ noread /\ d \notin reserved
  BY <1>0, Choices DEF tmp, wreg, GenInv, BaseHeld
<1>2. PICK l \in addr(t, 1020, 4) : mach' = Run(mach, Append(l, I("lr", d, t, 0, 0)))
  BY DEF GenLr, Emit
<1> DEFINE i == I("lr", d, t, 0, 0)
<1>3. PICK z : Run(mach, Append(l, i)) = Exec(z, i) /\ Kept(z) /\ Reg(z, t) = WordPtr /\ InData(Reg(z, t), 0, 4)
  <2>1. 1020 \in Int /\ 0 \in {0, 124, 252} /\ 1020 + 0 <= 1020
    OBVIOUS
  <2> QED BY <1>0, <2>1, AddrAccess DEF WordPtr
<1> DEFINE h == [z EXCEPT !.resv = "held"]
<1>4. Sound(z) /\ Sound(h) /\ h.reg = z.reg /\ h.resv = "held"
  BY <1>3, HeldFacts DEF Kept
<1>5. Access(z, t, 0, 4) = z
  BY <1>1, <1>3, <1>4, NoCounter, AccessFacts
<1>6. mach' = Set(h, d, Same)
  BY <1>2, <1>3, <1>5, ExecLr
<1> HIDE DEF h
<1>7. Sound(mach') /\ mach'.resv = "held"
  BY <1>1, <1>4, <1>6, SetFacts
<1>8. \A r \in Regs \ {0} : mach'.reg[r] = IF r = d THEN Same ELSE z.reg[r]
  BY <1>1, <1>4, <1>6, SetFacts
<1>9. /\ z.reg[t] = WordPtr /\ \A r \in reserved : z.reg[r] = mach.reg[r]
      /\ \A r \in Regs \ ({0} \cup noread) : z.reg[r].k # "ctr"
  BY <1>1, <1>3 DEF Kept, Reg
<1>10. noread = {}
  BY <1>0 DEF GenInv, CountersHidden
<1>11. BaseHeld'
  BY <1>0, <1>1, <1>8, <1>9 DEF GenInv, BaseHeld
<1>12. LoopHeld'
  BY <1>0, <1>1, <1>8, <1>9 DEF GenInv, BaseHeld, LoopHeld
<1>13. item'.t = t /\ item'.s = t /\ item' = [t |-> item'.t, s |-> item'.s, w |-> item'.w]
  BY <1>0
<1>14. mach'.reg[t] = WordPtr
  BY <1>0, <1>1, <1>8, <1>9
<1>15. t \in reserved' \ {base, loop.c}
  BY <1>0, <1>1 DEF GenInv, BaseHeld, LoopHeld
<1>16. AddressHeld' /\ CounterHeld' /\ ReservationAt'
  BY <1>0, <1>7, <1>13, <1>14, <1>15 DEF AddressHeld, CounterHeld, ReservationAt, WordPtr
<1>17. CountersHidden'
  BY <1>0, <1>8, <1>9, <1>10 DEF CountersHidden, Same
<1> QED BY <1>0, <1>7, <1>11, <1>12, <1>13, <1>16, <1>17 DEF GenInv, Sound

LEMMA ScAddrKeeps ==
  ASSUME GenInv, NEW s, GenScAddr(s)
  PROVE  GenInv'
<1>0. /\ gpc = "lrsc" /\ gpc # "idle" /\ s \in tmp(Regs) /\ gpc' = "lrsc"
      /\ item' = [item EXCEPT !.s = s, !.w = MaxWindow] /\ reserved' = reserved \cup {s}
      /\ UNCHANGED <<base, noread, loop>>
  BY DEF GenScAddr
<1>1. s \in Regs \ {0} /\ s \notin reserved
  BY <1>0 DEF tmp
<1>2. PICK l \in addr(s, 1020, 4) : mach' = Run(mach, l)
  BY DEF GenScAddr, Emit
<1>3. PICK a, b, z : l = <<a, b>> /\ z = Exec(Exec(mach, a), b) /\ Kept(z) /\ Reg(z, s) = WordPtr
  <2>1. 1020 \in Int
    OBVIOUS
  <2> QED BY <1>0, <2>1, AddrFacts DEF WordPtr
<1>4. mach' = z
  BY <1>2, <1>3, RunTwo
<1>5. /\ Sound(mach') /\ mach'.resv = mach.resv /\ \A r \in reserved : mach'.reg[r] = mach.reg[r]
      /\ \A r \in Regs \ ({0} \cup noread) : mach'.reg[r].k # "ctr"
  BY <1>3, <1>4 DEF Kept
<1>6. mach'.reg[s] = WordPtr
  BY <1>1, <1>3, <1>4 DEF Reg
<1>7. item' = [t |-> item.t, s |-> s, w |-> MaxWindow]
  <2>1. item = [t |-> item.t, s |-> item.s, w |-> item.w]
    BY DEF GenInv
  <2> QED BY <1>0, <2>1
<1>8. item'.t = item.t /\ item'.s = s /\ item' = [t |-> item'.t, s |-> item'.s, w |-> item'.w]
  BY <1>7
<1>9. BaseHeld'
  BY <1>0, <1>1, <1>5 DEF GenInv, BaseHeld
<1>10. LoopHeld'
  BY <1>0, <1>1, <1>5 DEF GenInv, BaseHeld, LoopHeld
<1>11. item.t \in reserved \ {base, loop.c} /\ mach'.reg[item.t] = WordPtr
  BY <1>0, <1>5 DEF GenInv, AddressHeld
<1>12. s \in reserved' \ {base, loop.c}
  BY <1>0, <1>1 DEF GenInv, BaseHeld, LoopHeld
<1>13. AddressHeld' /\ CounterHeld' /\ ReservationAt'
  BY <1>0, <1>5, <1>6, <1>8, <1>11, <1>12 DEF AddressHeld, CounterHeld, ReservationAt, GenInv, WordPtr
<1>14. CountersHidden'
  BY <1>0, <1>5 DEF CountersHidden, GenInv
<1> QED BY <1>0, <1>5, <1>8, <1>9, <1>10, <1>13, <1>14 DEF GenInv, Sound

\* The SC of an LR/SC item, wherever it is: its address is the one kept for it.
LEMMA ScDone ==
  ASSUME GenInv, gpc \in {"lrsc", "sc2"}, NEW d \in Regs, NEW r \in rreg
  PROVE  LET m == Run(mach, <<I("sc", d, item.s, 0, r)>>)
         IN  /\ Sound(m) /\ m.resv = "none"
             /\ \A x \in Regs \ {0} : m.reg[x] = IF x = d THEN Same ELSE mach.reg[x]
             /\ \A x \in Regs \ {0} : m.reg[x].k # "ctr"
<1>0. gpc # "idle" /\ noread = {} /\ mach.resv # "differ" /\ Kept(mach) /\ Sound(mach)
  BY KeptNow DEF GenInv, CountersHidden, ReservationAt
<1>1. item.s \in Regs \ {0} /\ mach.reg[item.s] = WordPtr /\ r \in Regs
  BY <1>0, Sources DEF GenInv, AddressHeld, BaseHeld
<1>2. InData(Reg(mach, item.s), 0, 4)
  <2>1. /\ Middle \in Int /\ Middle + 1020 \in Int /\ 4 \in {1, 2, 4} /\ 0 \in Int /\ Middle + 0 >= 0
        /\ Middle + 1020 + 0 + 4 <= DATA_SIZE /\ (Middle + 0) % 4 = 0
    BY DEF Middle, DATA_SIZE
  <2>2. InData(WordPtr, 0, 4)
    BY <2>1, PtrInData DEF WordPtr
  <2> QED BY <1>1, <2>2 DEF Reg
<1> DEFINE z == [mach EXCEPT !.resv = "none"]
<1>3. /\ Exec(mach, I("sc", d, item.s, 0, r)) = Set(z, d, Same)
      /\ Sound(z) /\ z.reg = mach.reg /\ z.resv = "none"
  BY <1>0, <1>1, <1>2, NoCounter, ScFacts
<1> HIDE DEF z
<1>4. Run(mach, <<I("sc", d, item.s, 0, r)>>) = Set(z, d, Same)
  BY <1>3, RunOne
<1>5. /\ Sound(Set(z, d, Same)) /\ Set(z, d, Same).resv = "none"
      /\ \A x \in Regs \ {0} : Set(z, d, Same).reg[x] = IF x = d THEN Same ELSE mach.reg[x]
  BY <1>3, SetFacts
<1>6. \A x \in Regs \ {0} : mach.reg[x].k # "ctr"
  BY <1>0 DEF Kept
<1>7. Same.k # "ctr"
  BY DEF Same
<1>8. \A x \in Regs \ {0} : Set(z, d, Same).reg[x].k # "ctr"
  BY <1>5, <1>6, <1>7
<1> QED BY <1>4, <1>5, <1>8

\* After the last SC of an item the address registers are free again.
LEMMA LastScKeeps ==
  ASSUME GenInv, gpc \in {"lrsc", "sc2"}, NEW d \in Regs, NEW r \in rreg,
         reserved' = reserved \ {item.t, item.s}, d \in (Regs \ reserved') \cup {0},
         mach' = Settle(Run(mach, <<I("sc", d, item.s, 0, r)>>), {base, loop.c}), gpc' = "block", item' = NoItem,
         UNCHANGED <<base, noread, loop>>
  PROVE  GenInv'
<1>0. gpc # "idle" /\ noread' = {} /\ item' = [t |-> item'.t, s |-> item'.s, w |-> item'.w]
  BY DEF GenInv, CountersHidden, NoItem
<1> DEFINE m == Run(mach, <<I("sc", d, item.s, 0, r)>>)
<1>1. /\ Sound(m) /\ m.resv = "none" /\ \A x \in Regs \ {0} : m.reg[x].k # "ctr"
      /\ \A x \in Regs \ {0} : m.reg[x] = IF x = d THEN Same ELSE mach.reg[x]
  BY ScDone
<1>2. mach' = Settle(m, {base, loop.c})
  OBVIOUS
<1> HIDE DEF m
<1>3. {base, loop.c} \cap reserved \subseteq reserved' /\ reserved' \subseteq reserved
  BY DEF GenInv, AddressHeld
<1>4. /\ base \in reserved' /\ (loop.c # 0 => loop.c \in reserved') /\ reserved \subseteq Regs \ {0}
  BY <1>0, <1>3 DEF GenInv, BaseHeld, LoopHeld
<1>5. \A x \in {base, loop.c} \ {0} : m.reg[x] = mach.reg[x]
  BY <1>1, <1>3, <1>4
<1> QED BY <1>0, <1>1, <1>2, <1>3, <1>5, CompleteKeeps

LEMMA ScKeeps ==
  ASSUME GenInv, NEW second \in BOOLEAN, NEW d \in Regs, NEW r \in rreg, GenSc(second, d, r)
  PROVE  GenInv'
<1>1. CASE ~ second
  BY <1>1, LastScKeeps DEF GenSc, Complete
<1>2. CASE second
  <2>0. /\ gpc = "lrsc" /\ gpc # "idle" /\ gpc' = "sc2" /\ reserved' = reserved /\ d \in (Regs \ reserved) \cup {0}
        /\ mach' = Run(mach, <<I("sc", d, item.s, 0, r)>>) /\ UNCHANGED <<item, base, noread, loop>>
    BY <1>2 DEF GenSc, Emit
  <2>1. /\ Sound(mach') /\ mach'.resv = "none" /\ \A x \in Regs \ {0} : mach'.reg[x].k # "ctr"
        /\ \A x \in Regs \ {0} : mach'.reg[x] = IF x = d THEN Same ELSE mach.reg[x]
    BY <2>0, ScDone
  <2>2. \A x \in reserved : x \in Regs \ {0} /\ mach'.reg[x] = mach.reg[x]
    BY <2>0, <2>1 DEF GenInv, BaseHeld
  <2>3. BaseHeld'
    BY <2>0, <2>2 DEF GenInv, BaseHeld
  <2>4. LoopHeld'
    BY <2>0, <2>2 DEF GenInv, LoopHeld
  <2>5. AddressHeld' /\ CounterHeld' /\ ReservationAt'
    BY <2>0, <2>1, <2>2 DEF GenInv, AddressHeld, CounterHeld, ReservationAt, WordPtr
  <2>6. CountersHidden'
    BY <2>0, <2>1 DEF GenInv, CountersHidden
  <2> QED BY <2>0, <2>1, <2>3, <2>4, <2>5, <2>6 DEF GenInv, Sound
<1> QED BY <1>1, <1>2

LEMMA CounterKeeps ==
  ASSUME GenInv, NEW a, NEW b, GenCounter(a, b)
  PROVE  GenInv'
<1>0. /\ gpc = "block" /\ gpc # "idle" /\ a \in tmp(Regs) /\ b \in tmp(Regs) \ {a} /\ gpc' = "counter"
      /\ mach' = Run(mach, <<I("count", a, 0, 0, 0)>>)
      /\ item' = [t |-> a, s |-> b, w |-> 0] /\ reserved' = reserved \cup {a} /\ noread' = noread \cup {a}
      /\ UNCHANGED <<base, loop>>
  BY DEF GenCounter, Emit
<1>1. a \in Regs \ {0} /\ a \notin reserved /\ b \in Regs \ ({0} \cup reserved') /\ Sound(mach)
  BY <1>0 DEF tmp, GenInv
<1>2. mach' = Set(mach, a, Ctr)
  BY <1>0, RunOne, ExecCount
<1>3. Sound(mach') /\ mach'.resv = mach.resv /\ \A r \in Regs \ {0} : mach'.reg[r] = IF r = a THEN Ctr ELSE mach.reg[r]
  BY <1>1, <1>2, SetFacts
<1>4. noread' = {a} /\ mach'.resv = "none" /\ \A r \in Regs \ {0} : mach.reg[r].k # "ctr"
  BY <1>0, <1>3 DEF GenInv, CountersHidden, ReservationAt
<1>5. \A x \in reserved : x \in Regs \ {0} /\ mach'.reg[x] = mach.reg[x]
  BY <1>0, <1>1, <1>3 DEF GenInv, BaseHeld
<1>6. BaseHeld'
  BY <1>0, <1>1, <1>5 DEF GenInv, BaseHeld
<1>7. LoopHeld'
  BY <1>0, <1>1, <1>5 DEF GenInv, LoopHeld
<1>8. item'.t = a /\ item'.s = b /\ item' = [t |-> item'.t, s |-> item'.s, w |-> item'.w]
  BY <1>0
<1>9. a \in reserved' \ {base, loop.c} /\ mach'.reg[a] = Ctr
  BY <1>0, <1>1, <1>3 DEF GenInv, BaseHeld, LoopHeld
<1>10. AddressHeld' /\ CounterHeld' /\ ReservationAt'
  BY <1>0, <1>1, <1>4, <1>8, <1>9 DEF AddressHeld, CounterHeld, ReservationAt, Ctr
<1>11. CountersHidden'
  BY <1>0, <1>3, <1>4, <1>8 DEF CountersHidden
<1> QED BY <1>0, <1>3, <1>6, <1>7, <1>8, <1>10, <1>11 DEF GenInv, Sound

\* The delta of two counts is the same on both machines, and replaces the count itself.
LEMMA DeltaKeeps ==
  ASSUME GenInv, GenDelta
  PROVE  GenInv'
<1> DEFINE t == item.t
           s == item.s
           m1 == Set(mach, s, Ctr)
           m2 == Set(m1, s, Same)
           m3 == Set(m2, t, Same)
<1>0. /\ gpc = "counter" /\ gpc # "idle" /\ gpc' = "block" /\ item' = NoItem /\ reserved' = reserved \ {t}
      /\ noread' = noread \ {t} /\ UNCHANGED <<base, loop>>
      /\ mach' = Settle(Run(mach, <<I("count", s, 0, 0, 0), I("sub", s, t, 0, 0), I("addi", t, s, 0, 0)>>), {base, loop.c})
  BY DEF GenDelta, Complete
<1>1. /\ t \in Regs \ {0} /\ t \in reserved \ {base, loop.c} /\ mach.reg[t] = Ctr
      /\ s \in Regs \ {0} /\ s \notin reserved /\ s # t /\ Sound(mach) /\ mach.resv = "none" /\ noread = {t}
  BY <1>0 DEF GenInv, CounterHeld, BaseHeld, CountersHidden, ReservationAt
<1>2. Exec(mach, I("count", s, 0, 0, 0)) = m1
  BY ExecCount
<1> HIDE DEF s, t
<1>3. Sound(m1) /\ m1.resv = "none" /\ Reg(m1, s) = Ctr /\ Reg(m1, t) = Ctr
  BY <1>1, SetFacts, SetRegs DEF Reg
<1>4. \A r \in Regs \ {0} : m1.reg[r] = IF r = s THEN Ctr ELSE mach.reg[r]
  BY <1>1, SetFacts
<1> HIDE DEF m1
<1>5. Exec(m1, I("sub", s, t, 0, 0)) = m2
  <2>1. IsCtr(m1, s) = IsCtr(m1, t)
    BY <1>3 DEF IsCtr
  <2> QED BY <2>1, ExecSub
<1>6. Sound(m2) /\ m2.resv = "none" /\ Reg(m2, s) = Same
  BY <1>1, <1>3, SetFacts, SetRegs
<1>7. \A r \in Regs \ {0} : m2.reg[r] = IF r = s THEN Same ELSE mach.reg[r]
  <2>1. \A r \in Regs \ {0} : m2.reg[r] = IF r = s THEN Same ELSE m1.reg[r]
    BY <1>1, <1>3, SetFacts
  <2> HIDE DEF m2
  <2> QED BY <1>4, <2>1
<1> HIDE DEF m2
<1>8. Exec(m2, I("addi", t, s, 0, 0)) = m3
  <2>1. Shift(Same, 0) = Same
    BY DEF Shift, Same
  <2> QED BY <1>6, <2>1, ExecAddi
<1>9. Sound(m3) /\ m3.resv = "none" /\ \A r \in Regs \ {0} : m3.reg[r] = IF r \in {s, t} THEN Same ELSE mach.reg[r]
  BY <1>1, <1>6, <1>7, SetFacts
<1> HIDE DEF m3
<1>10. mach' = Settle(m3, {base, loop.c})
  BY <1>0, <1>2, <1>5, <1>8, RunThree
<1>11. \A r \in Regs \ {0} : m3.reg[r].k # "ctr"
  <2>1. \A r \in Regs \ {0, t} : mach.reg[r].k # "ctr"
    BY <1>0, <1>1 DEF GenInv, CountersHidden
  <2>2. Same.k # "ctr"
    BY DEF Same
  <2> QED BY <1>9, <2>1, <2>2
<1>12. {base, loop.c} \cap reserved \subseteq reserved' /\ reserved' \subseteq reserved /\ noread' = {}
  BY <1>0, <1>1
<1>13. \A r \in {base, loop.c} \ {0} : m3.reg[r] = mach.reg[r]
  <2>1. base \in reserved /\ (loop.c # 0 => loop.c \in reserved) /\ reserved \subseteq Regs \ {0}
    BY <1>0 DEF GenInv, BaseHeld, LoopHeld
  <2> QED BY <1>1, <1>9, <2>1
<1>14. item' = [t |-> item'.t, s |-> item'.s, w |-> item'.w]
  BY <1>0 DEF NoItem
<1> QED BY <1>0, <1>9, <1>10, <1>11, <1>12, <1>13, <1>14, CompleteKeeps

LEMMA LoopKeeps ==
  ASSUME GenInv, NEW c, NEW z, NEW k, GenLoop(c, z, k)
  PROVE  GenInv'
<1>0. /\ gpc = "block" /\ gpc # "idle" /\ gpc' = "block" /\ c \in tmp(Regs \ {1, 2})
      /\ mach' = Run(mach, <<I("num", c, 0, z, 0)>>) /\ reserved' = reserved \cup {c} /\ loop'.c = c
      /\ loop = NoLoop /\ UNCHANGED <<base, noread, item>>
  BY DEF GenLoop
<1>1. c \in Regs \ {0} /\ c \notin reserved /\ Sound(mach)
  BY <1>0 DEF tmp, GenInv
<1>2. mach' = Set(mach, c, Num(z))
  BY <1>0, RunOne, ExecNum
<1>3. Sound(mach') /\ mach'.resv = mach.resv /\ \A r \in Regs \ {0} : mach'.reg[r] = IF r = c THEN Num(z) ELSE mach.reg[r]
  BY <1>1, <1>2, SetFacts
<1>4. /\ noread' = {} /\ mach'.resv = "none" /\ item' = [t |-> item'.t, s |-> item'.s, w |-> item'.w]
      /\ \A r \in Regs \ {0} : mach.reg[r].k # "ctr"
  BY <1>0, <1>3 DEF GenInv, CountersHidden, ReservationAt
<1>5. Num(z).k = "num" /\ Num(z).k # "ctr"
  BY DEF Num
<1>6. \A r \in Regs \ {0} : mach'.reg[r].k # "ctr"
  BY <1>3, <1>4, <1>5
<1>7. BaseHeld'
  BY <1>0, <1>1, <1>3 DEF GenInv, BaseHeld
<1>8. LoopHeld'
  BY <1>0, <1>1, <1>3, <1>5 DEF GenInv, BaseHeld, LoopHeld
<1> QED BY <1>0, <1>3, <1>4, <1>6, <1>7, <1>8, BlockKeeps

\* The bottom of a loop changes its counter and nothing else.
LEMMA BottomFacts ==
  ASSUME GenInv, gpc = "block", loop.c \in Regs
  PROVE  /\ Sound(Bottom) /\ Bottom.resv = "none" /\ ~ IsCtr(Bottom, loop.c)
         /\ loop.c # 0 => Bottom.reg[loop.c].k = "num"
         /\ \A r \in Regs \ {0, loop.c} : Bottom.reg[r] = mach.reg[r]
<1>0. gpc # "idle" /\ Sound(mach) /\ mach.resv = "none"
  BY DEF GenInv, ReservationAt
<1> DEFINE c == loop.c
           v == Shift(Reg(mach, c), - 1)
<1>1. Bottom = Set(mach, c, v)
  BY RunOne, ExecAddi DEF Bottom
<1>2. CASE c = 0
  <2>1. Bottom = mach
    BY <1>1, <1>2 DEF Set
  <2>2. ~ IsCtr(mach, 0)
    BY DEF IsCtr, Reg, Same
  <2> QED BY <1>0, <1>2, <2>1, <2>2
<1>3. CASE c # 0
  <2>1. mach.reg[c].k = "num"
    BY <1>0, <1>3 DEF GenInv, LoopHeld
  <2>2. v = Num(mach.reg[c].n + (- 1))
    BY <1>3, <2>1 DEF Shift, Reg
  <2>3. v.k = "num"
    BY <2>2 DEF Num
  <2> HIDE DEF v
  <2>4. /\ Sound(Bottom) /\ Bottom.resv = "none"
        /\ \A r \in Regs \ {0} : Bottom.reg[r] = IF r = c THEN v ELSE mach.reg[r]
    BY <1>0, <1>1, SetFacts
  <2>5. ~ IsCtr(Bottom, c)
    BY <1>3, <2>3, <2>4 DEF IsCtr, Reg
  <2> QED BY <1>3, <2>3, <2>4, <2>5
<1> QED BY <1>2, <1>3

LEMMA BottomKeeps ==
  ASSUME GenInv, GenLoopAgain \/ GenLoopEnd
  PROVE  GenInv'
<1>0. gpc = "block" /\ gpc' = "block" /\ gpc # "idle" /\ UNCHANGED <<base, noread, item>>
  BY DEF GenLoopAgain, GenLoopEnd
<1>1. /\ noread' = {} /\ item' = [t |-> item'.t, s |-> item'.s, w |-> item'.w] /\ noread = {}
      /\ \A r \in Regs \ {0} : mach.reg[r].k # "ctr"
  BY <1>0 DEF GenInv, CountersHidden
<1>2. /\ base \in Regs \ {0} /\ base \in reserved /\ reserved \subseteq Regs \ {0} /\ loop.c \in Regs
      /\ loop.c # base /\ (loop.c # 0 => loop.c \in reserved) /\ mach.reg[base] = Ptr(Middle, Middle, 64)
  BY <1>0, GenAssumption DEF GenInv, BaseHeld, LoopHeld
<1>3. /\ Sound(Bottom) /\ Bottom.resv = "none" /\ ~ IsCtr(Bottom, loop.c)
      /\ loop.c # 0 => Bottom.reg[loop.c].k = "num"
      /\ \A r \in Regs \ {0, loop.c} : Bottom.reg[r] = mach.reg[r]
  BY <1>0, <1>2, BottomFacts
<1>4. \A r \in Regs \ {0} : Bottom.reg[r].k # "ctr"
  BY <1>1, <1>3
<1>5. CASE GenLoopAgain
  <2>1. mach' = Bottom /\ UNCHANGED <<reserved, loop>>
    BY <1>3, <1>5 DEF GenLoopAgain, Diverge
  <2>2. BaseHeld'
    BY <1>0, <1>2, <1>3, <2>1 DEF GenInv, BaseHeld
  <2>3. LoopHeld'
    BY <1>0, <1>2, <1>3, <2>1 DEF GenInv, LoopHeld
  <2> QED BY <1>0, <1>1, <1>3, <1>4, <2>1, <2>2, <2>3, BlockKeeps
<1>6. CASE GenLoopEnd
  <2>1. mach' = Settle(Bottom, {base}) /\ loop'.c = 0 /\ reserved' = reserved \ {loop.c}
    BY <1>6 DEF GenLoopEnd, NoLoop
  <2>2. /\ Sound(mach') /\ mach'.resv = "none"
        /\ \A r \in Regs \ {0} : mach'.reg[r] = IF r = base THEN Bottom.reg[r] ELSE Same
    BY <1>3, <1>4, <2>1, SettleFacts
  <2>3. BaseHeld'
    BY <1>0, <1>2, <1>3, <2>1, <2>2 DEF GenInv, BaseHeld
  <2>4. LoopHeld'
    BY <2>1 DEF LoopHeld
  <2>5. \A r \in Regs \ {0} : mach'.reg[r].k # "ctr"
    BY <1>4, <2>2 DEF Same
  <2> QED BY <1>0, <1>1, <2>2, <2>3, <2>4, <2>5, BlockKeeps
<1> QED BY <1>5, <1>6

\* Every terminator stops both machines.
LEMMA TerminatorStops ==
  ASSUME GenInv, gpc = "block", NEW e \in terminator
  PROVE  Stops(mach, e)
<1>1. Reg(mach, base).k = "ptr" /\ Reg(mach, base).lo = Middle
  BY DEF GenInv, BaseHeld, Reg, Ptr
<1>2. CASE e.how = "access"
  <2>1. \/ \E w \in {2, 4} : e.w = w /\ e.at \in MisalignedOffsets(w)
        \/ e.w = 4 /\ e.at \in {1, 2, 3, - 1, - 2, 6}
    BY <1>2 DEF terminator
  <2>2. ASSUME NEW w \in {2, 4}, NEW x \in MisalignedOffsets(w) PROVE (Middle + x) % w # 0
    BY DEF MisalignedOffsets, Middle
  <2>3. \A x \in {1, 2, 3, - 1, - 2, 6} : (Middle + x) % 4 # 0
    BY DEF Middle
  <2>4. (Middle + e.at) % e.w # 0
    BY <2>1, <2>2, <2>3
  <2> QED BY <1>1, <1>2, <2>4 DEF Stops
<1>3. CASE e.how = "unmapped"
  <2>1. PICK o \in {0, 4, 8, 2047} : e.at = Unmapped + o
    BY <1>3 DEF terminator
  <2>2. e.at >= Unmapped
    BY <2>1 DEF Unmapped
  <2> QED BY <1>3, <2>2 DEF Stops
<1>4. CASE e.how \notin {"access", "unmapped"}
  BY <1>4 DEF Stops
<1> QED BY <1>2, <1>3, <1>4

LEMMA TerminatorKeeps ==
  ASSUME GenInv, NEW e \in terminator, GenTerminator(e)
  PROVE  GenInv'
<1>0. /\ gpc = "block" /\ gpc # "idle" /\ gpc' = "done" /\ mach' = [mach EXCEPT !.stopped = Stops(mach, e)]
      /\ UNCHANGED <<base, reserved, noread, item, loop>>
  BY DEF GenTerminator
<1>1. mach = [reg |-> mach.reg, resv |-> mach.resv, diverged |-> mach.diverged, stray |-> mach.stray,
              stopped |-> mach.stopped]
  BY DEF GenInv, Sound
<1> DEFINE y == Stops(mach, e)
<1>2. y
  BY <1>0, TerminatorStops
<1> HIDE DEF y
<1>3. mach' = [reg |-> mach.reg, resv |-> mach.resv, diverged |-> mach.diverged, stray |-> mach.stray, stopped |-> y]
  BY <1>0, <1>1 DEF y
<1>4. /\ mach'.reg = mach.reg /\ mach'.resv = mach.resv /\ mach'.diverged = mach.diverged
      /\ mach'.stray = mach.stray /\ mach'.stopped = y
  BY <1>3
<1>5. Sound(mach')
  BY <1>3, <1>4 DEF GenInv, Sound
<1>6. BaseHeld' /\ LoopHeld' /\ AddressHeld' /\ CounterHeld' /\ CountersHidden' /\ ReservationAt'
  BY <1>0, <1>4 DEF GenInv, BaseHeld, LoopHeld, AddressHeld, CounterHeld, CountersHidden, ReservationAt
<1> QED BY <1>0, <1>2, <1>4, <1>5, <1>6 DEF GenInv, Sound

LEMMA GenItemKeeps ==
  ASSUME GenInv, GenItem
  PROVE  GenInv'
<1>1. ASSUME NEW cat \in Straight, GenStraight(cat) PROVE GenInv'
  BY <1>1, StraightKept, ItemKeeps DEF GenStraight, Complete
<1>2. ASSUME NEW cat \in Jumping, GenJump(cat) PROVE GenInv'
  BY <1>2, JumpKept, ItemKeeps DEF GenJump, Complete
<1>3. ASSUME NEW d \in Regs, GenHigh(d) PROVE GenInv'
  <2>1. gpc # "idle" /\ d \in wreg /\ 0 \in Regs \ noread
    BY <1>3, Choices DEF GenHigh
  <2>2. Kept(Run(mach, <<I("alu", d, 0, 0, 0)>>))
    BY <2>1, AluKept
  <2> QED BY <1>3, <2>2, ItemKeeps DEF GenHigh, Complete
<1>4. CASE GenSkipped
  BY <1>4 DEF GenSkipped, GenInv, BaseHeld, LoopHeld, AddressHeld, CounterHeld, CountersHidden, ReservationAt, Sound
<1>5. CASE GenWindow
  <2>1. PICK lines \in window(gpc) : mach' = Run(mach, lines)
    BY <1>5 DEF GenWindow, Emit
  <2>2. gpc \notin {"idle", "done"} /\ UNCHANGED <<gpc, base, reserved, noread, loop>>
    BY <1>5 DEF GenWindow
  <2>3. Kept(mach')
    BY <2>1, <2>2, AluOneKept, LoadKept DEF window
  <2>4. item' = [t |-> item.t, s |-> item.s, w |-> item.w + 1]
    <3>1. item = [t |-> item.t, s |-> item.s, w |-> item.w]
      BY DEF GenInv
    <3>2. item' = [item EXCEPT !.w = item.w + 1]
      BY <1>5 DEF GenWindow
    <3> QED BY <3>1, <3>2
  <2>5. item' = [t |-> item.t, s |-> item.s, w |-> item'.w]
    BY <2>4
  <2> QED BY <2>2, <2>3, <2>5, WindowKeeps
<1>6. ASSUME NEW d \in Regs, NEW r \in rreg, GenSc2(d, r) PROVE GenInv'
  BY <1>6, LastScKeeps DEF GenSc2, Complete
<1> QED BY <1>1, <1>2, <1>3, <1>4, <1>5, <1>6, LrKeeps, ScAddrKeeps, ScKeeps, CounterKeeps, DeltaKeeps, LoopKeeps,
           BottomKeeps, TerminatorKeeps DEF GenItem

\* For every set of registers, every mix, programs of any length with loops of any length and any
\* number of trips, and every random choice of gen.py: a generated program ends alike on two
\* correct machines. It shows no counter value, no SC meets a reservation only one machine holds,
\* every access is aligned and in the data region, and the terminator stops both.
THEOREM ProgramsAlwaysAgree == GenSpec => []ProgramsAgree
<1>1. GenInit => GenInv
  <2>1. Sound(PowerOn)
    BY DEF PowerOn, Sound
  <2> QED BY <2>1 DEF GenInit, GenInv, NoItem, Sound
<1>2. GenInv /\ [GenStart \/ GenItem]_gvars => GenInv'
  <2> SUFFICES ASSUME GenInv, [GenStart \/ GenItem]_gvars PROVE GenInv'
    OBVIOUS
  <2>1. CASE GenStart
    BY <2>1, ProgramKeeps DEF GenStart
  <2>2. CASE GenItem
    BY <2>2, GenItemKeeps
  <2>3. CASE UNCHANGED gvars
    BY <2>3 DEF gvars, GenInv, BaseHeld, LoopHeld, AddressHeld, CounterHeld, CountersHidden, ReservationAt, Sound
  <2> QED BY <2>1, <2>2, <2>3
<1>3. GenInv => ProgramsAgree
  BY DEF GenInv, Sound, ProgramsAgree, CountersHidden, IsCtr, Reg, Same
<1> QED BY <1>1, <1>2, <1>3, PTL DEF GenSpec

=============================================================================
