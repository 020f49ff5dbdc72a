------------------------------- MODULE Mutate -------------------------------
(***************************************************************************)
(* The mutation driver, tools/mutation/mutate.py, and what survives it: the*)
(* exported source tree, the in-progress marker, the tree's .zig-cache and *)
(* the results file. The driver can be killed between any two of its file  *)
(* operations and interrupted (Ctrl-C, SIGTERM) at any of them; it is then *)
(* started again, with or without --resume.                                *)
(*                                                                         *)
(* An open for writing truncates and the write follows: two actions. Texts *)
(* are those of Mutants, builds and caches those of ZigBuild.              *)
(***************************************************************************)
EXTENDS Mutants, ZigBuild

CONSTANTS
  Files, Pristine,       \* the source files, and the text of each in the export
  Catalogues,            \* the catalogues a --catalogue names, by name
  Invocations,           \* the argument records of the runs the user makes
  Behaviours,            \* how a mutated source may behave
  PristineBehaviours,    \* how the export itself may behave
  InitialCaches,         \* the .zig-cache found in the tree at first
  MaxRuns, MaxFaults     \* bounds on the runs, and on the stops and the timeouts of a busy machine

ASSUME PristineType == Pristine = [f \in Files |-> Pristine[f]]
ASSUME BoundsType == MaxRuns \in Nat /\ MaxFaults \in Nat

\* The arguments argparse accepts, and the modules --catalogue can name.
ASSUME InvocationType ==
  \A a \in Invocations : /\ a = [catalogue |-> a.catalogue, ids |-> a.ids, resume |-> a.resume, fresh |-> a.fresh,
                                 no_baseline |-> a.no_baseline, trust |-> a.trust]
                         /\ a.catalogue \in DOMAIN Catalogues /\ a.ids \in Seq(ToSet(a.ids))
                         /\ {a.resume, a.fresh, a.no_baseline, a.trust} \subseteq BOOLEAN
ASSUME CatalogueType ==
  \A c \in DOMAIN Catalogues : Catalogues[c].MUTANTS \in Seq(ToSet(Catalogues[c].MUTANTS))

ASSUME BehaviourType ==
  Behaviours \cup PristineBehaviours
    \subseteq [errors : {"none", "lib", "compliance"}, fails : SUBSET SUITES, hangs : SUBSET SUITES]

\* A cache found in the tree was left by builds made there, which keep the artifacts their manifest
\* names, or copied from another tree, whose mark then is not this tree's.
ASSUME CacheType ==
  \A c \in InitialCaches \ {Null} :
    /\ c = [mark |-> c.mark, foreign |-> c.foreign, manifest |-> c.manifest, arts |-> c.arts]
    /\ IF c.foreign THEN c.mark # "own" ELSE c.manifest \in c.arts \cup {Null}

VARIABLES
  tree, marker, cache, results,                       \* on disk
  pc, args, todo, snapshot, original, rec, stopping,  \* the driver
  orphan,                                             \* the source of a build its driver left running
  exit, report,                                       \* how the last command ended, what it printed
  truth,                                              \* how every source behaves: never changes
  halfPruned,                                         \* a driver stopped inside restore_cache
  early,                                              \* an interrupt came before the marker was written
  budget                                              \* runs and faults so far

disk == <<tree, marker, cache, results>>
driver == <<args, todo, snapshot, original, rec, stopping>>
observed == <<report, truth, halfPruned, early>>
vars == <<disk, pc, driver, orphan, exit, observed, budget>>

Empty == <<>>   \* a truncated file

\* The marker file: absent, opened and not yet written, or holding a file's original bytes.
NoMarker == [state |-> "none"]
TornMarker == [state |-> "torn"]
Marker(m, bytes) == [state |-> "whole", id |-> m.id, file |-> m.file, original |-> bytes]

mod == Catalogues[args.catalogue]
MutatedText(m) == apply_edits(Pristine[m.file], m.edits)

\* How a tree behaves: the export, exactly one mutant, or anything else.
BehaviourOf(t) ==
  IF t = Pristine THEN truth.pristine
  ELSE IF \E f \in Files : t = [Pristine EXCEPT ![f] = t[f]] /\ t[f] \in DOMAIN truth.mutants
       THEN truth.mutants[t[CHOOSE f \in Files : t[f] # Pristine[f]]]
       ELSE Broken

AllMutants == {m \in UNION {ToSet(Catalogues[c].MUTANTS) : c \in DOMAIN Catalogues} :
                 {"file", "edits"} \subseteq DOMAIN m /\ m.file \in Files /\ MutatedText(m) \notin {EditError, Pristine[m.file]}}

\* Null stands for no tree.
ASSUME NullType == Null # Pristine /\ \A m \in AllMutants : Null # [Pristine EXCEPT ![m.file] = MutatedText(m)]

Init == /\ tree = Pristine /\ marker = NoMarker /\ cache \in InitialCaches /\ results = <<>>
        /\ pc = "idle" /\ args = Null /\ todo = <<>> /\ snapshot = Null /\ original = Empty
        /\ rec = Null /\ stopping = FALSE /\ orphan = Null /\ exit = "none" /\ report = Null
        /\ truth \in [pristine : PristineBehaviours, mutants : [{MutatedText(m) : m \in AllMutants} -> Behaviours]]
        /\ halfPruned = FALSE /\ early = FALSE /\ budget = [runs |-> 0, faults |-> 0]

-----------------------------------------------------------------------------
\* The driver ends, and with it what it held in memory.
Exit(status) ==
  /\ pc' = "idle" /\ exit' = status
  /\ args' = Null /\ todo' = <<>> /\ snapshot' = Null /\ original' = Empty /\ rec' = Null /\ stopping' = FALSE

Step(from, to) == pc = from /\ pc' = to /\ exit' = exit

\* main: a run starts with whatever an earlier one left on disk.
Start(a) ==
  /\ pc = "idle" /\ budget.runs < MaxRuns
  /\ ~ (a.trust /\ cache # Null /\ cache.foreign)   \* "if you know it was built from this tree alone"
  /\ pc' = "recover" /\ args' = a /\ exit' = "none" /\ report' = Null
  /\ budget' = [budget EXCEPT !.runs = @ + 1]
  /\ UNCHANGED <<disk, todo, snapshot, original, rec, stopping, orphan, truth, halfPruned, early>>

\* recover_in_progress: put back the bytes the marker holds, then remove it.
Recover ==
  /\ pc = "recover"
  /\ \/ marker.state = "none" /\ Step("recover", "select") /\ UNCHANGED <<tree, driver>>
     \/ marker.state = "torn" /\ Exit("traceback") /\ UNCHANGED tree
     \/ /\ marker.state = "whole" /\ Step("recover", "recover_write")
        /\ tree' = [tree EXCEPT ![marker.file] = Empty] /\ UNCHANGED driver
  /\ UNCHANGED <<marker, cache, results, orphan, observed, budget>>

RecoverWrite ==
  /\ Step("recover_write", "recover_unmark")
  /\ tree' = [tree EXCEPT ![marker.file] = marker.original]
  /\ UNCHANGED <<marker, cache, results, driver, orphan, observed, budget>>

RecoverUnmark ==
  /\ Step("recover_unmark", "select") /\ marker' = NoMarker
  /\ UNCHANGED <<tree, cache, results, driver, orphan, observed, budget>>

\* done_ids: the mutants with a result other than ERROR.
done_ids_Errors(lines) == {r.id : r \in {x \in ToSet(lines) : x.kind = "mutant"}}

done_ids(lines) == {r.id : r \in {x \in ToSet(lines) : x.kind = "mutant" /\ x.status # "ERROR"}}

\* check_cache: only a cache marked as built by a baseline in this very directory.
check_cache_AnyMark(c, trust) == c = Null \/ trust \/ c.mark # "none"

check_cache(c, trust) == c = Null \/ trust \/ c.mark = "own"

\* Which mutants remain to be run.
Remaining(mutants, done) ==
  LET rest[k \in 0..Len(mutants)] ==
        IF k = 0 THEN <<>>
        ELSE IF mutants[k].id \in done THEN rest[k - 1] ELSE Append(rest[k - 1], mutants[k])
  IN  rest[Len(mutants)]

\* cmd_run from select to the cache check: everything that can refuse the run.
Refusal(mutants) ==
  CASE ValidateRaises(tree, mutants) -> "traceback"
    [] ~ ValidateRaises(tree, mutants) /\ catalogue_problems(mod) \cup validate(tree, mutants) # {} -> "invalid"
    [] ~ ValidateRaises(tree, mutants) /\ catalogue_problems(mod) \cup validate(tree, mutants) = {}
         /\ ~ args.fresh /\ ~ check_cache(cache, args.trust) -> "cache refused"
    [] OTHER -> "none"

Select ==
  /\ pc = "select"
  /\ \/ KeyMissing(mod) /\ Exit("traceback")
     \/ ~ KeyMissing(mod) /\ UnknownIds(mod, args.ids) # {} /\ Exit("unknown ids")
     \/ /\ ~ KeyMissing(mod) /\ UnknownIds(mod, args.ids) = {}
        /\ \E why \in {Refusal(select(mod, args.ids))} :
             \/ why # "none" /\ Exit(why)
             \/ /\ why = "none"
                /\ todo' = IF args.resume THEN Remaining(select(mod, args.ids), done_ids(results))
                           ELSE select(mod, args.ids)
                /\ pc' = IF args.fresh THEN "next"
                         ELSE IF ~ args.no_baseline /\ cache = Null THEN "baseline_all" ELSE "snapshot"
                /\ UNCHANGED <<exit, args, snapshot, original, rec, stopping>>
  /\ UNCHANGED <<disk, orphan, observed, budget>>

-----------------------------------------------------------------------------
\* run_cmd: how a build of the tree in a cache can end. It runs to its end, or its timeout
\* kills the process group: always when it hangs, and now and then on a busy machine.
run_cmd_NoTimeout(step, c, b) ==
  {[out |-> o, cache |-> CacheAfter(step, c, tree, b), spurious |-> FALSE] :
     o \in IF Hangs(step, b) THEN {} ELSE Outputs(step, c, tree, b)}

run_cmd(step, c, b) ==
  {[out |-> o, cache |-> CacheAfter(step, c, tree, b), spurious |-> FALSE] :
     o \in IF Hangs(step, b) THEN {} ELSE Outputs(step, c, tree, b)}
  \cup
  {[out |-> Killed(b), cache |-> k, spurious |-> ~ Hangs(step, b)] :
     k \in IF Hangs(step, b) \/ budget.faults < MaxFaults THEN CachesKilled(c, tree, b) ELSE {}}

\* The builds of a run are made in the tree's own cache, or with --fresh-cache in one of its own
\* that is removed again.
Builds(step) == run_cmd(step, IF args.fresh THEN Null ELSE cache, BehaviourOf(tree))
Ended(e) == /\ cache' = IF args.fresh THEN cache ELSE e.cache
            /\ budget' = IF e.spurious THEN [budget EXCEPT !.faults = @ + 1] ELSE budget

\* run_baseline: test-all and then test must pass on the export; the mark comes last.
Baseline(step, next) ==
  \E e \in Builds(step) :
     /\ Ended(e)
     /\ IF analyse(step, e.out).status = "SURVIVED"
        THEN pc' = next /\ UNCHANGED <<exit, driver>>
        ELSE Exit("baseline failed")
BaselineAll == /\ pc = "baseline_all" /\ Baseline("test_all", "baseline_test")
               /\ UNCHANGED <<tree, marker, results, orphan, observed>>
BaselineTest == /\ pc = "baseline_test" /\ Baseline("test", "baseline_mark")
                /\ UNCHANGED <<tree, marker, results, orphan, observed>>

BaselineMark ==
  /\ Step("baseline_mark", "baseline_append")
  /\ cache' = [cache EXCEPT !.mark = "own"]
  /\ UNCHANGED <<tree, marker, results, driver, orphan, observed, budget>>

BaselineAppend ==
  /\ Step("baseline_append", "snapshot")
  /\ results' = Append(results, [kind |-> "baseline"])
  /\ UNCHANGED <<tree, marker, cache, driver, orphan, observed, budget>>

\* snapshot_cache: the entries, and the contents of the manifests; nothing without a cache.
snapshot_cache(c) == [arts |-> Opened(c).arts, manifest |-> Opened(c).manifest]

Snapshot ==
  /\ Step("snapshot", "next") /\ snapshot' = snapshot_cache(cache)
  /\ UNCHANGED <<disk, args, todo, original, rec, stopping, orphan, observed, budget>>

-----------------------------------------------------------------------------
\* run_mutant. The next mutant: its file's bytes are read, and kept in memory.
NextMutant ==
  /\ pc = "next"
  /\ \/ todo = <<>> /\ Exit("done")
     \/ /\ todo # <<>> /\ Step("next", "mark_open")
        /\ original' = tree[Head(todo).file]
        /\ rec' = [test |-> Null, test_all |-> Null]
        /\ UNCHANGED <<args, todo, snapshot, stopping>>
  /\ UNCHANGED <<disk, orphan, observed, budget>>

\* The marker first, in two steps; then the mutated text, in two steps.
MarkOpen ==
  /\ Step("mark_open", "mark_write") /\ marker' = TornMarker
  /\ UNCHANGED <<tree, cache, results, driver, orphan, observed, budget>>

MarkWrite ==
  /\ Step("mark_write", "truncate")
  /\ marker' = Marker(Head(todo), original)
  /\ UNCHANGED <<tree, cache, results, driver, orphan, observed, budget>>

Truncate ==
  /\ Step("truncate", "mutate") /\ tree' = [tree EXCEPT ![Head(todo).file] = Empty]
  /\ UNCHANGED <<marker, cache, results, driver, orphan, observed, budget>>

WriteMutated ==
  /\ Step("mutate", "test")
  /\ tree' = [tree EXCEPT ![Head(todo).file] = apply_edits(original, Head(todo).edits)]
  /\ UNCHANGED <<marker, cache, results, driver, orphan, observed, budget>>

\* zig build test, then zig build test-all.
BuildTest ==
  /\ Step("test", "test_all")
  /\ \E e \in Builds("test") : Ended(e) /\ rec' = [rec EXCEPT !.test = analyse("test", e.out)]
  /\ UNCHANGED <<tree, marker, results, args, todo, snapshot, original, stopping, orphan, observed>>

BuildTestAll ==
  /\ Step("test_all", "restore_truncate")
  /\ \E e \in Builds("test_all") : Ended(e) /\ rec' = [rec EXCEPT !.test_all = analyse("test_all", e.out)]
  /\ UNCHANGED <<tree, marker, results, args, todo, snapshot, original, stopping, orphan, observed>>

\* The finally clause: the original text, in two steps; the marker; the cache.
RestoreTruncate_Unmarks ==
  /\ Step("restore_truncate", "restore") /\ tree' = [tree EXCEPT ![Head(todo).file] = Empty]
  /\ marker' = NoMarker
  /\ UNCHANGED <<cache, results, driver, orphan, observed, budget>>

RestoreTruncate ==
  /\ Step("restore_truncate", "restore") /\ tree' = [tree EXCEPT ![Head(todo).file] = Empty]
  /\ UNCHANGED <<marker, cache, results, driver, orphan, observed, budget>>

Restore ==
  /\ Step("restore", "unmark") /\ tree' = [tree EXCEPT ![Head(todo).file] = original]
  /\ UNCHANGED <<marker, cache, results, driver, orphan, observed, budget>>

Unmark ==
  /\ Step("unmark", "prune_entries") /\ marker' = NoMarker
  /\ UNCHANGED <<tree, cache, results, driver, orphan, observed, budget>>

\* restore_cache: first the entries created since the snapshot go, then the manifests that
\* were rewritten come back.
PruneEntries ==
  /\ Step("prune_entries", "prune_manifests")
  /\ cache' = IF snapshot = Null \/ cache = Null THEN cache
              ELSE [cache EXCEPT !.arts = @ \cap snapshot.arts]
  /\ UNCHANGED <<tree, marker, results, driver, orphan, observed, budget>>

restore_manifest(c, snap) == [c EXCEPT !.manifest = snap.manifest]

PruneManifests ==
  /\ pc = "prune_manifests"
  /\ cache' = IF snapshot = Null \/ cache = Null THEN cache ELSE restore_manifest(cache, snapshot)
  /\ IF stopping THEN Exit("interrupted") ELSE pc' = "append" /\ UNCHANGED <<exit, driver>>
  /\ UNCHANGED <<tree, marker, results, orphan, observed, budget>>

\* The verdict, and its line in the results file.
Record(m) == [kind |-> "mutant", id |-> m.id, file |-> m.file, edits |-> m.edits,
              test |-> rec.test, test_all |-> rec.test_all,
              status |-> overall_status(rec.test, rec.test_all), fresh |-> args.fresh,
              clean |-> tree = Pristine /\ (args.fresh \/ ~ halfPruned)]

AppendResult ==
  /\ Step("append", "next")
  /\ results' = Append(results, Record(Head(todo)))
  /\ todo' = Tail(todo) /\ rec' = Null /\ original' = Empty
  /\ UNCHANGED <<tree, marker, cache, args, snapshot, stopping, orphan, observed, budget>>

-----------------------------------------------------------------------------
\* The two commands that write nothing.
cmd_check(catalogue, ids) ==
  IF marker.state # "none" THEN "mutated file left"
  ELSE IF KeyMissing(catalogue) THEN "traceback"
  ELSE IF UnknownIds(catalogue, ids) # {} THEN "unknown ids"
  ELSE IF ValidateRaises(tree, select(catalogue, ids)) THEN "traceback"
  ELSE IF catalogue_problems(catalogue) \cup validate(tree, select(catalogue, ids)) # {} THEN "invalid"
  ELSE "validated"

Check(a) ==
  /\ pc = "idle" /\ exit' = cmd_check(Catalogues[a.catalogue], a.ids)
  /\ UNCHANGED <<disk, pc, driver, orphan, observed, budget>>

\* --report reads a results file, and checks nothing of the catalogue.
cmd_report(a) ==
  /\ pc = "idle" /\ results # <<>> /\ ~ ReportRaises(LastResults(results), Catalogues[a.catalogue])
  /\ report' = [catalogue |-> a.catalogue, printed |-> Report(LastResults(results), Catalogues[a.catalogue])]
  /\ UNCHANGED <<disk, pc, driver, orphan, exit, truth, halfPruned, early, budget>>

-----------------------------------------------------------------------------
\* What stops the driver.
TryBlock == {"mark_open", "mark_write", "truncate", "mutate", "test", "test_all"}
FinallyBlock == {"restore_truncate", "restore", "unmark", "prune_entries", "prune_manifests"}
Building == {"baseline_all", "baseline_test", "test", "test_all"}

Stop == /\ pc # "idle" /\ budget.faults < MaxFaults
        /\ budget' = [budget EXCEPT !.faults = @ + 1]
        /\ halfPruned' = (halfPruned \/ (pc = "prune_manifests" /\ snapshot # Null))

\* KeyboardInterrupt: it unwinds through run_mutant's finally when it comes inside its try,
\* and ends the driver where it is anywhere else. A build's process group is killed first.
Interrupt ==
  /\ Stop
  /\ cache' \in IF pc \in Building /\ (args.fresh => pc \notin TryBlock)
                THEN CachesKilled(cache, tree, BehaviourOf(tree)) ELSE {cache}
  /\ IF pc \in TryBlock
     THEN pc' = "restore_truncate" /\ stopping' = TRUE /\ UNCHANGED <<exit, args, todo, snapshot, original, rec>>
     ELSE Exit("interrupted")
  /\ early' = (early \/ pc \in {"mark_open", "mark_write"})
  /\ UNCHANGED <<tree, marker, results, orphan, report, truth>>

\* SIGKILL: nothing is unwound, and a build that is running goes on without its driver.
Kill ==
  /\ Stop /\ Exit("killed")
  /\ orphan' = IF pc \in Building /\ ~ args.fresh THEN tree ELSE orphan
  /\ UNCHANGED <<disk, report, truth, early>>

\* The build a killed driver left behind ends.
OrphanEnds ==
  /\ orphan # Null /\ orphan' = Null
  /\ cache' \in CachesKilled(cache, orphan, BehaviourOf(orphan))
  /\ UNCHANGED <<tree, marker, results, pc, driver, exit, observed, budget>>

\* The user deletes a cache the driver refuses.
DeleteCache ==
  /\ pc = "idle" /\ cache # Null /\ exit = "cache refused"
  /\ cache' = Null /\ halfPruned' = FALSE /\ exit' = "none"
  /\ UNCHANGED <<tree, marker, results, pc, driver, orphan, report, truth, early, budget>>

DriverStep == \/ Recover \/ RecoverWrite \/ RecoverUnmark \/ Select
              \/ BaselineAll \/ BaselineTest \/ BaselineMark \/ BaselineAppend \/ Snapshot
              \/ NextMutant \/ MarkOpen \/ MarkWrite \/ Truncate \/ WriteMutated \/ BuildTest \/ BuildTestAll
              \/ RestoreTruncate \/ Restore \/ Unmark \/ PruneEntries \/ PruneManifests \/ AppendResult

Next == \/ \E a \in Invocations : Start(a) \/ Check(a) \/ cmd_report(a)
        \/ DriverStep \/ Interrupt \/ Kill \/ OrphanEnds \/ DeleteCache

\* A started driver runs on: run_cmd bounds every wait of its own.
Fairness == WF_vars(DriverStep)

Spec == Init /\ [][Next]_vars /\ Fairness

-----------------------------------------------------------------------------
(* Properties *)

MutantResults == {r \in ToSet(results) : r.kind = "mutant"}
BehaviourOfResult(r) == truth.mutants[MutatedText(r)]

\* A file whose text is not the export's can be put back: the marker is whole, names that file
\* and holds its original text, at every instant a kill can come (recover_in_progress, run_mutant;
\* README: "the next run restores them"). The exception is an interrupt that came after the try
\* began and before the marker was written: the finally clause then truncates an unmarked file.
RecoverableTree ==
  \A f \in Files : tree[f] # Pristine[f] =>
    early \/ (marker.state = "whole" /\ marker.file = f /\ marker.original = Pristine[f])

\* A recorded verdict is true of the mutant it names, whatever kills, interrupts, timeouts, resumed
\* runs and left-over caches preceded it: KILLED has a failing suite, SURVIVED passes everything,
\* COMPILE_ERROR does not compile, ERROR is a timeout of the first build that the second did not
\* repeat, and every suite reported as failed fails. Two kinds of results are excepted: those recorded
\* in a tree that was not the export once the mutant was taken out again, which an early interrupt and
\* a second stop can leave (KilledIsRestored), also with --fresh-cache; and those of a cache that a
\* driver stopped inside restore_cache left half pruned, unless --fresh-cache left that cache aside.
VerdictsTrue ==
  \A r \in {x \in MutantResults : x.clean} :
    LET b == BehaviourOfResult(r)
    IN  /\ r.status = "KILLED" => b.errors # "lib" /\ b.fails # {}
        /\ r.status = "SURVIVED" => b = Passing
        /\ r.status = "COMPILE_ERROR" => b.errors # "none"
        /\ r.status = "ERROR" => r.test.status = "TIMEOUT"
        /\ r.status = "KILLED" => failed_suites(r) \subseteq b.fails
        /\ ~ r.test.warnings /\ ~ r.test_all.warnings

\* A catalogue that lists no id twice (--report does not ask catalogue_problems).
NoIdTwice(c) == \A j, k \in DOMAIN c.MUTANTS : c.MUTANTS[j].id = c.MUTANTS[k].id => j = k

\* What the report prints agrees with the mutants themselves: of the mutants whose last result is
\* decided, the gaps are exactly those that pass everything and are not EQUIVALENT; kills found only
\* by compliance or digests do pass the unit and CLI suites; the EQUIVALENT entries it doubts are those
\* without a passing result; the new and the ported mutants add up to all; a decided result that is not
\* reported as stale is that of the mutant the catalogue has under its id, if it is in the same file;
\* and, of a catalogue that lists no id twice, the score divides the mutants that fail a suite by those
\* that compile and are no equivalent survivors. A mutant that fails a suite of `test` and does not
\* compile for compliance is either, as its result says: the timeout of its second build makes it
\* KILLED, its compile error COMPILE_ERROR (cmd_report, summarize, overall_status).
ReportTrue ==
  report # Null /\ (\A r \in MutantResults : r.clean) =>
    LET recs == LastResults(results)
        catalogue == Catalogues[report.catalogue]
        decided == {r \in recs : r.status \notin {"TIMEOUT", "ERROR"}}
        Ids(P(_)) == {r.id : r \in {x \in decided : P(BehaviourOfResult(x))}}
        passing == Ids(LAMBDA b : b = Passing)
        Either(b) == b.errors = "compliance" /\ b.fails \cap SuitesOf("test") # {}
        told(status) == {r.id : r \in {x \in decided : Either(BehaviourOfResult(x)) /\ x.status = status}}
        failing == Ids(LAMBDA b : b.errors = "none" /\ b.fails # {}) \cup told("KILLED")
        stillborn == Ids(LAMBDA b : b.errors # "none" /\ ~ Either(b)) \cup told("COMPILE_ERROR")
        late == Ids(LAMBDA b : b.fails # {} /\ b.fails \cap SuitesOf("test") = {})
        equivalent == catalogue.EQUIVALENT
        p == report.printed
        Printed(items) == {i.rec.id : i \in items}
    IN  /\ Printed(p.gaps) = passing \ equivalent
        /\ p.contradictions = ({r.id : r \in recs} \cap equivalent) \ passing
        /\ Printed(p.late) \subseteq late
        /\ p.all.killed = p.new.killed + p.ported.killed /\ p.all.denom = p.new.denom + p.ported.denom
        /\ \A r \in decided : \A m \in {by_id(catalogue, x.id) : x \in ToSet(catalogue.MUTANTS)} :
              m.id = r.id /\ m.file = r.file /\ r.id \notin Printed(p.stale)
                => BehaviourOfResult(r) = truth.mutants[MutatedText(m)]
        /\ NoIdTwice(catalogue) =>
             /\ p.all.total = Cardinality(recs) /\ p.all.killed = Cardinality(failing)
             /\ p.all.denom = Cardinality(recs) - Cardinality(passing \cap equivalent) - Cardinality(stillborn)

\* "If the driver is killed outright, the original bytes are kept in <tree>/.mutation-in-progress.json,
\* and the next run restores them" (README): a kill never finds the exception of RecoverableTree.
KilledIsRestored ==
  pc = "idle" /\ exit = "killed" =>
    \A f \in Files : tree[f] # Pristine[f] =>
      marker.state = "whole" /\ marker.file = f /\ marker.original = Pristine[f]

\* A --resume run repeats no mutant that had a verdict when it started, and leaves out no other: of the
\* results it appends, only an ERROR is followed by another result of the same mutant, unless the command
\* line names the mutant twice; and what it does not run has a verdict, which an ERROR and a mutant whose
\* run was cut off have not (done_ids, cmd_run, select).
NamedTwice(id) == \E j, k \in DOMAIN args.ids : j # k /\ args.ids[j] = id /\ args.ids[k] = id
ResumeExact ==
  [][args # Null /\ args.resume =>
       /\ results' # results /\ Last(results').kind = "mutant" =>
            LET id == Last(results').id
            IN  NamedTwice(id) \/ \A r \in MutantResults : r.id = id => r.status = "ERROR"
       /\ pc = "select" /\ pc' \notin {"select", "idle"} =>
            \A m \in ToSet(select(mod, args.ids)) \ ToSet(todo') :
              \E r \in MutantResults : r.id = m.id /\ r.status # "ERROR"]_vars

\* Every invocation comes to an end, although a mutant's tests may never do.
InvocationsEnd == (pc # "idle") ~> (pc = "idle")

=============================================================================
