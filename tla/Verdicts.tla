------------------------------ MODULE Verdicts ------------------------------
(***************************************************************************)
(* How the mutation driver reads the output of `zig build` and turns two   *)
(* builds into one verdict, and what the report counts.                    *)
(*                                                                         *)
(* A build's output is a record: its exit code rc is 0 or not, timed_out,  *)
(* errors (some line is a compile error), failing (the module prefixes of  *)
(* the failing test names), tree (the words of the "run test" steps in the *)
(* build summary, in build.zig order, or NoSummary), digests (the words of *)
(* the corpus-digests runs) and cmds (the digest runs whose command is     *)
(* reported as failed).                                                    *)
(***************************************************************************)
EXTENDS Mutants

CONSTANT NoSummary

\* NoSummary is none of the summaries.
ASSUME SummaryType == \A n \in {2, 3} : NoSummary \notin [1..n -> SUBSET {"transitive", "failure", "pass", "skipped"}]

RUN_TESTS == [test |-> <<"unit", "cli">>, test_all |-> <<"unit", "cli", "compliance">>]
DIGEST_RUNS == <<"digests", "digests_nocache", "digests_runtime">>
SUITES == {"unit", "cli", "compliance", "digests", "digests_nocache", "digests_runtime"}
SuitesOf(step) == ToSet(RUN_TESTS[step]) \cup (IF step = "test_all" THEN ToSet(DIGEST_RUNS) ELSE {})

\* The suite of a failing test, from the first part of its qualified name.
suite_of_test(prefix) == CASE prefix = "compliance" -> "compliance"
                           [] prefix = "main" -> "cli"
                           [] OTHER -> "unit"

\* The state of a step, from the words after its name in the build summary.
step_state(words) ==
  IF words \cap {"failure", "crash", "timeout", "errors", "leaks"} # {} THEN "FAIL"
  ELSE IF words \cap {"pass", "success", "cached"} # {} THEN "pass"
  ELSE IF "skipped" \in words THEN "skipped" ELSE "?"

\* The children of the requested step: the words of the run-test steps and of the digest runs;
\* a build that was killed printed no summary and has neither.
parse_tree(out) == IF out.tree = NoSummary THEN [tests |-> <<>>, digests |-> <<>>]
                   ELSE [tests |-> out.tree, digests |-> out.digests]

\* zip: names by position, the shorter list decides.
Named(names, words) ==
  {<<names[i], step_state(words[i])>> : i \in DOMAIN names \cap DOMAIN words}

\* The state of every suite of a step, as a set of (suite, state); a failed command overrides
\* the state of its digest run.
SuiteStates(step, out) ==
  LET seen == Named(RUN_TESTS[step], parse_tree(out).tests)
                \cup (IF step = "test_all" THEN Named(DIGEST_RUNS, parse_tree(out).digests) ELSE {})
      failed == IF step = "test_all" /\ out.tree # NoSummary THEN out.cmds ELSE {}
  IN  {p \in seen : p[1] \notin failed} \cup {<<s, "FAIL">> : s \in failed}

\* A disagreement that is recorded: a step count, a digest command or a test name that the
\* summary does not confirm.
Warned(step, out) ==
  \/ out.tree # NoSummary /\ Len(out.tree) # Len(RUN_TESTS[step])
  \/ out.tree # NoSummary /\ step = "test_all"
       /\ \E s \in out.cmds : <<s, "FAIL">> \notin Named(DIGEST_RUNS, parse_tree(out).digests)
  \/ \E p \in out.failing : <<suite_of_test(p), "FAIL">> \notin SuiteStates(step, out)

\* The status of one build; the tests of the code, in their order.
StatusOf(states, out) ==
  IF out.timed_out THEN "TIMEOUT"
  ELSE IF out.errors THEN "COMPILE_ERROR"
  ELSE IF out.rc = 0 THEN "SURVIVED"
  ELSE IF (\E s \in SUITES : <<s, "FAIL">> \in states) \/ out.failing # {} THEN "KILLED"
  ELSE "ERROR"

analyse(step, out) == [status   |-> StatusOf(SuiteStates(step, out), out),
                       suites   |-> SuiteStates(step, out),
                       warnings |-> Warned(step, out)]

\* The verdict on a mutant, from its two builds.
overall_status(test, test_all) ==
  IF "COMPILE_ERROR" \in {test.status, test_all.status} THEN "COMPILE_ERROR"
  ELSE IF test_all.status = "TIMEOUT" /\ test.status = "KILLED" THEN "KILLED"
  ELSE IF test_all.status = "SURVIVED" /\ test.status # "SURVIVED" THEN "ERROR"
  ELSE test_all.status

failed_suites(rec) == {s \in SUITES : <<s, "FAIL">> \in rec.test_all.suites}

-----------------------------------------------------------------------------
\* The report: the last result of every mutant stands.
LastResults(results) ==
  LET lines == {k \in DOMAIN results : results[k].kind = "mutant"}
  IN  {results[k] : k \in {k \in lines : \A j \in lines : results[j].id = results[k].id => j <= k}}

\* The list order: first every entry of the catalogue that has a result, so that an id the catalogue
\* lists twice is there twice, then the results of no entry. An item is the place of its entry, 0
\* without one, and the result.
order(recs, mod) ==
  {i \in [at : 0..Len(mod.MUTANTS), rec : recs] :
     IF i.at = 0 THEN \A m \in ToSet(mod.MUTANTS) : m.id # i.rec.id
     ELSE mod.MUTANTS[i.at].id = i.rec.id}

\* The items with a status; the counts of one group of items.
OfStatus(ids, status) == {i \in ids : i.rec.status = status}

summarize_Stillborn(ids, equivalent) ==
  [total |-> Cardinality(ids), killed |-> Cardinality(OfStatus(ids, "KILLED")),
   timeouts |-> Cardinality(OfStatus(ids, "TIMEOUT")),
   denom |-> Cardinality(ids) - Cardinality({i \in OfStatus(ids, "SURVIVED") : i.rec.id \in equivalent})]

summarize(ids, equivalent) ==
  [total |-> Cardinality(ids), killed |-> Cardinality(OfStatus(ids, "KILLED")),
   timeouts |-> Cardinality(OfStatus(ids, "TIMEOUT")),
   denom |-> Cardinality(ids) - Cardinality({i \in OfStatus(ids, "SURVIVED") : i.rec.id \in equivalent})
               - Cardinality(OfStatus(ids, "COMPILE_ERROR"))]

\* An entry without an id, or one with a result and without edits, ends the report with a KeyError.
ReportRaises(recs, mod) ==
  KeyMissing(mod) \/ \E i \in order(recs, mod) : i.at # 0 /\ "edits" \notin DOMAIN by_id(mod, i.rec.id)

\* What cmd_report prints of the results, list items as they are listed: the mutants without a result,
\* the items whose edits are no longer the catalogue's, the counts of all, new and ported mutants, how
\* many kills each suite caught, the kills only compliance or digests caught, the gaps, and the
\* EQUIVALENT entries a result contradicts.
Report(recs, mod) ==
  LET listed == order(recs, mod)
      killed == OfStatus(listed, "KILLED")
  IN  [missing |-> {m.id : m \in ToSet(mod.MUTANTS)} \ {r.id : r \in recs},
       stale   |-> {i \in listed : i.at # 0 /\ by_id(mod, i.rec.id).edits # i.rec.edits},
       all     |-> summarize(listed, mod.EQUIVALENT),
       new     |-> summarize({i \in listed : i.rec.id \in mod.new_ids}, mod.EQUIVALENT),
       ported  |-> summarize({i \in listed : i.rec.id \notin mod.new_ids}, mod.EQUIVALENT),
       caught  |-> [s \in SUITES |-> Cardinality({i \in killed : s \in failed_suites(i.rec)})],
       late    |-> {i \in killed : i.rec.test.status = "SURVIVED"},
       gaps    |-> {i \in OfStatus(listed, "SURVIVED") : i.rec.id \notin mod.EQUIVALENT},
       contradictions |-> {r.id : r \in {x \in recs : x.id \in mod.EQUIVALENT /\ x.status # "SURVIVED"}}]

=============================================================================
