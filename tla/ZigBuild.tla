------------------------------ MODULE ZigBuild ------------------------------
(***************************************************************************)
(* `zig build` and its .zig-cache as the mutation driver meets them. Both  *)
(* are external: what they do is taken from how mutate.py and its README   *)
(* ("The Zig cache hazard") use them.                                      *)
(*                                                                         *)
(* A source behaves as a record: errors says what does not compile ("none",*)
(* "lib" or only the "compliance" tests), fails and hangs which suites     *)
(* fail or never end. A cache is Null (no directory) or a record: who      *)
(* marked it ("none", "own", "other"), whether it was copied from another  *)
(* tree (foreign), the source its compile manifest describes and the       *)
(* sources whose artifacts it holds.                                       *)
(***************************************************************************)
EXTENDS Verdicts

Null == [null |-> TRUE]   \* nothing: no cache, no source

Passing == [errors |-> "none", fails |-> {}, hangs |-> {}]
Broken == [errors |-> "lib", fails |-> {}, hangs |-> {}]

Compiles(step, b) == b.errors = "none" \/ (b.errors = "compliance" /\ step = "test")
Hangs(step, b) == Compiles(step, b) /\ b.hangs \cap SuitesOf(step) # {}
Prefix(suite) == CASE suite = "compliance" -> "compliance" [] suite = "cli" -> "main" [] OTHER -> "cpu"

\* The output of a build that ran to its end, and of one that was killed.
Finished(step, b) ==
  LET words(s) == IF b.errors = "lib" \/ (b.errors = "compliance" /\ s = "compliance")
                    THEN {"transitive", "failure"}
                    ELSE IF s \in b.fails THEN {"failure"} ELSE {"pass"}
      ran == IF b.errors = "lib" THEN {}
             ELSE (b.fails \cap SuitesOf(step)) \ (IF Compiles(step, b) THEN {} ELSE {"compliance"})
  IN  [rc |-> IF Compiles(step, b) /\ ran = {} THEN 0 ELSE 1, timed_out |-> FALSE,
       errors |-> ~ Compiles(step, b), failing |-> {Prefix(s) : s \in ran \ ToSet(DIGEST_RUNS)},
       tree |-> [i \in DOMAIN RUN_TESTS[step] |-> words(RUN_TESTS[step][i])],
       digests |-> IF step = "test" THEN <<>> ELSE [i \in DOMAIN DIGEST_RUNS |-> words(DIGEST_RUNS[i])],
       cmds |-> ran \cap ToSet(DIGEST_RUNS)]

Killed(b) == [rc |-> 1, timed_out |-> TRUE, errors |-> b.errors = "lib", failing |-> {},
              tree |-> NoSummary, digests |-> <<>>, cmds |-> {}]

\* A manifest that names artifacts which are gone: the steps that need them fail or are skipped.
Lost(words, step) ==
  [rc |-> 1, timed_out |-> FALSE, errors |-> FALSE, failing |-> {},
   tree |-> [i \in DOMAIN RUN_TESTS[step] |-> {words}], digests |-> <<>>, cmds |-> {}]

EmptyCache == [mark |-> "none", foreign |-> FALSE, manifest |-> Null, arts |-> {}]
Opened(cache) == IF cache = Null THEN EmptyCache ELSE cache
Built(cache, src) == [Opened(cache) EXCEPT !.manifest = src, !.arts = @ \cup {src}]

\* The manifest describes the source; with its artifacts gone the build cannot use it.
LosesArtifacts(cache, src) == cache # Null /\ cache.manifest = src /\ src \notin cache.arts

\* What a finished build of src, which behaves as b, can print: a copied cache may answer with
\* the pass it holds, a manifest without artifacts fails the build.
Outputs(step, cache, src, b) ==
  IF LosesArtifacts(cache, src) THEN {Lost(w, step) : w \in {"failure", "skipped"}}
  ELSE {Finished(step, b)} \cup (IF cache # Null /\ cache.foreign THEN {Finished(step, Passing)} ELSE {})

\* The cache after a finished build, and the caches a killed build can leave behind.
CacheAfter(step, cache, src, b) ==
  IF LosesArtifacts(cache, src) \/ ~ Compiles(step, b) THEN Opened(cache) ELSE Built(cache, src)
CachesKilled(cache, src, b) ==
  {cache, Opened(cache)}
    \cup (IF LosesArtifacts(cache, src) \/ b.errors = "lib" THEN {}
          ELSE {Built(cache, src), [Opened(cache) EXCEPT !.arts = @ \cup {src}]})

=============================================================================
