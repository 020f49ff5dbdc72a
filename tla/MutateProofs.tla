---------------------------- MODULE MutateProofs ----------------------------
(***************************************************************************)
(* Whatever the tree, the catalogues, the invocations, the builds and the  *)
(* number of kills and interrupts, the mutation driver never loses a       *)
(* file's original text, records only true verdicts, prints a true report  *)
(* and repeats nothing when it resumes.                                    *)
(***************************************************************************)
EXTENDS Mutate, TLAPS, SequenceTheorems, FiniteSetTheorems, WellFoundedInduction

\* The pc values at which the driver has no marker on disk, and at which it has a whole one.
Unmarked == {"select", "baseline_all", "baseline_test", "baseline_mark", "baseline_append", "snapshot",
             "next", "mark_open", "prune_entries", "prune_manifests", "append"}
Marked == {"truncate", "mutate", "test", "test_all", "restore_truncate", "restore", "unmark"}
Holding == {"mark_open", "mark_write"} \cup Marked   \* the original text is in memory
Current == Head(todo).file

\* A file that was changed is the one a whole marker names.
ChangedIsMarked == \A f \in Files : tree[f] # Pristine[f] => marker.state = "whole" /\ marker.file = f
\* What the marker and the driver's memory hold is the export's text.
MarkerHolds == marker.state = "whole" /\ marker.file \in Files => marker.original = Pristine[marker.file]
MemoryHolds == pc \in Holding /\ Current \in Files => original = Pristine[Current]
\* Which marker there is at each point of the driver.
MarkerAt == /\ marker.state \in {"none", "torn", "whole"}
            /\ pc \in Unmarked => marker.state = "none"
            /\ pc = "mark_write" => marker.state = "torn"
            /\ pc \in Marked => marker.state = "whole" /\ marker.file = Current
            /\ pc \in {"recover_write", "recover_unmark"} => marker.state = "whole"
\* The marker goes only when its file is back.
RestoredAt == /\ pc = "unmark" /\ Current \in Files => tree[Current] = Pristine[Current]
              /\ pc = "recover_unmark" /\ marker.file \in Files => tree[marker.file] = Pristine[marker.file]

Protected == ChangedIsMarked /\ MarkerHolds /\ MemoryHolds /\ MarkerAt /\ RestoredAt
IInv == DOMAIN tree = Files /\ early \in BOOLEAN /\ (~ early => Protected)

-----------------------------------------------------------------------------
LEMMA InitIInv == Init => IInv
<1> SUFFICES ASSUME Init PROVE IInv
  OBVIOUS
<1>1. tree = Pristine /\ marker = NoMarker /\ pc = "idle" /\ early = FALSE
  BY DEF Init
<1>2. DOMAIN tree = Files
  BY <1>1, PristineType
<1> QED BY <1>1, <1>2 DEF IInv, Protected, ChangedIsMarked, MarkerHolds, MemoryHolds, MarkerAt, RestoredAt,
                          NoMarker, Unmarked, Marked, Holding

\* A driver that ends where it is leaves the tree as protected as it found it.
LEMMA StopKeeps ==
  ASSUME IInv, pc' = "idle", UNCHANGED <<tree, marker>>, early' \in BOOLEAN, ~ early' => ~ early
  PROVE  IInv'
  BY DEF IInv, Protected, ChangedIsMarked, MarkerHolds, MemoryHolds, MarkerAt, RestoredAt,
         Unmarked, Marked, Holding

\* So does whatever touches none of the variables the invariant reads.
LEMMA FrameKeeps ==
  ASSUME IInv, UNCHANGED <<tree, marker, early, pc, todo, original>>
  PROVE  IInv'
  BY DEF IInv, Protected, ChangedIsMarked, MarkerHolds, MemoryHolds, MarkerAt, RestoredAt, Current

\* Steps between two points without a marker.
LEMMA UnmarkedKeeps ==
  ASSUME IInv, pc \in Unmarked, pc' \in Unmarked \ {"mark_open"}, UNCHANGED <<tree, marker, early>>
  PROVE  IInv'
  BY DEF IInv, Protected, ChangedIsMarked, MarkerHolds, MemoryHolds, MarkerAt, RestoredAt,
         Unmarked, Marked, Holding

LEMMA StartKeeps ==
  ASSUME IInv, NEW a, Start(a)
  PROVE  IInv'
  BY DEF Start, disk, IInv, Protected, ChangedIsMarked, MarkerHolds, MemoryHolds, MarkerAt, RestoredAt,
         Unmarked, Marked, Holding

LEMMA RecoveryKeeps ==
  ASSUME IInv, Recover \/ RecoverWrite \/ RecoverUnmark
  PROVE  IInv'
<1> USE DEF IInv, Protected, ChangedIsMarked, MarkerHolds, MemoryHolds, MarkerAt, RestoredAt,
            Unmarked, Marked, Holding, Step, observed
<1>1. CASE Recover
  <2>1. CASE Exit("traceback") /\ UNCHANGED tree
    BY <1>1, <2>1, StopKeeps DEF Recover, Exit
  <2>2. CASE marker.state = "none" /\ Step("recover", "select") /\ UNCHANGED <<tree, driver>>
    BY <1>1, <2>2 DEF Recover
  <2>3. CASE /\ marker.state = "whole" /\ Step("recover", "recover_write")
             /\ tree' = [tree EXCEPT ![marker.file] = Empty]
    BY <1>1, <2>3 DEF Recover
  <2> QED BY <1>1, <2>1, <2>2, <2>3 DEF Recover
<1>2. CASE RecoverWrite
  BY <1>2 DEF RecoverWrite
<1>3. CASE RecoverUnmark
  BY <1>3 DEF RecoverUnmark, NoMarker
<1> QED BY <1>1, <1>2, <1>3

\* Up to the first mutant, and from one mutant to the next, there is no marker.
LEMMA BetweenKeeps ==
  ASSUME IInv, \/ Select \/ BaselineAll \/ BaselineTest \/ BaselineMark \/ BaselineAppend \/ Snapshot
               \/ PruneEntries \/ PruneManifests \/ AppendResult
  PROVE  IInv'
<1> USE DEF Unmarked, Step, observed, disk
<1> DEFINE Move == pc \in Unmarked /\ pc' \in Unmarked \ {"mark_open"} /\ UNCHANGED <<tree, marker, early>>
           Ends == pc' = "idle" /\ UNCHANGED <<tree, marker, early>>
<1>1. CASE Select
  BY <1>1, StopKeeps, UnmarkedKeeps DEF Select, Exit, IInv
<1>2. CASE BaselineAll
  BY <1>2, StopKeeps, UnmarkedKeeps DEF BaselineAll, Baseline, Exit, IInv
<1>3. CASE BaselineTest
  BY <1>3, StopKeeps, UnmarkedKeeps DEF BaselineTest, Baseline, Exit, IInv
<1>4. CASE BaselineMark \/ BaselineAppend \/ Snapshot
  BY <1>4, UnmarkedKeeps DEF BaselineMark, BaselineAppend, Snapshot
<1>5. CASE PruneEntries \/ AppendResult
  BY <1>5, UnmarkedKeeps DEF PruneEntries, AppendResult
<1>6. CASE PruneManifests
  BY <1>6, StopKeeps, UnmarkedKeeps DEF PruneManifests, Exit, IInv
<1> QED BY <1>1, <1>2, <1>3, <1>4, <1>5, <1>6

\* One mutant: the marker is whole before the file is touched and goes after it is back.
LEMMA MutantKeeps ==
  ASSUME IInv, \/ NextMutant \/ MarkOpen \/ MarkWrite \/ Truncate \/ WriteMutated \/ BuildTest \/ BuildTestAll
               \/ RestoreTruncate \/ Restore \/ Unmark
  PROVE  IInv'
<1> USE DEF IInv, Protected, ChangedIsMarked, MarkerHolds, MemoryHolds, MarkerAt, RestoredAt,
            Unmarked, Marked, Holding, Step, observed, driver, Current
<1>1. CASE NextMutant
  <2>1. CASE Exit("done")
    BY <1>1, <2>1, StopKeeps DEF NextMutant, Exit, disk
  <2>2. CASE /\ todo # <<>> /\ Step("next", "mark_open") /\ original' = tree[Head(todo).file] /\ UNCHANGED todo
    BY <1>1, <2>2 DEF NextMutant, disk
  <2> QED BY <1>1, <2>1, <2>2 DEF NextMutant
<1>2. CASE MarkOpen
  BY <1>2 DEF MarkOpen, TornMarker
<1>3. CASE MarkWrite
  BY <1>3 DEF MarkWrite, Marker
<1>4. CASE Truncate
  BY <1>4 DEF Truncate
<1>5. CASE WriteMutated
  BY <1>5 DEF WriteMutated
<1>6. CASE BuildTest
  BY <1>6 DEF BuildTest
<1>7. CASE BuildTestAll
  BY <1>7 DEF BuildTestAll
<1>8. CASE RestoreTruncate
  BY <1>8 DEF RestoreTruncate
<1>9. CASE Restore
  BY <1>9 DEF Restore
<1>10. CASE Unmark
  BY <1>10 DEF Unmark, NoMarker
<1> QED BY <1>1, <1>2, <1>3, <1>4, <1>5, <1>6, <1>7, <1>8, <1>9, <1>10

LEMMA FaultKeeps ==
  ASSUME IInv, Interrupt \/ Kill \/ OrphanEnds \/ DeleteCache
  PROVE  IInv'
<1>1. CASE Interrupt
  <2>1. CASE pc \in TryBlock
    BY <1>1, <2>1 DEF Interrupt, Stop, TryBlock, IInv, Protected, ChangedIsMarked, MarkerHolds, MemoryHolds,
                      MarkerAt, RestoredAt, Unmarked, Marked, Holding, Current
  <2>2. CASE pc \notin TryBlock
    BY <1>1, <2>2, StopKeeps DEF Interrupt, Exit, IInv
  <2> QED BY <2>1, <2>2
<1>2. CASE Kill
  BY <1>2, StopKeeps DEF Kill, Exit, disk, IInv
<1>3. CASE OrphanEnds \/ DeleteCache
  BY <1>3, FrameKeeps DEF OrphanEnds, DeleteCache, driver, observed
<1> QED BY <1>1, <1>2, <1>3

LEMMA NextIInv == IInv /\ [Next]_vars => IInv'
<1> SUFFICES ASSUME IInv, [Next]_vars PROVE IInv'
  OBVIOUS
<1>1. ASSUME NEW a \in Invocations, Start(a) PROVE IInv'
  BY <1>1, StartKeeps
<1>2. ASSUME NEW a \in Invocations, Check(a) \/ cmd_report(a) PROVE IInv'
  BY <1>2, FrameKeeps DEF Check, cmd_report, disk, driver, observed
<1>3. CASE DriverStep
  BY <1>3, RecoveryKeeps, BetweenKeeps, MutantKeeps DEF DriverStep
<1>4. CASE Interrupt \/ Kill \/ OrphanEnds \/ DeleteCache
  BY <1>4, FaultKeeps
<1>5. CASE UNCHANGED vars
  BY <1>5, FrameKeeps DEF vars, disk, driver, observed
<1> QED BY <1>1, <1>2, <1>3, <1>4, <1>5 DEF Next

\* Of every run of the driver, over any tree and catalogue and with any number of kills, interrupts
\* and restarts: a file whose text is not the export's is the one a whole marker names, and the
\* marker holds its original text, unless an interrupt came before the first marker was written
\* (run_mutant, recover_in_progress).
THEOREM TreeRecoverable == Spec => []RecoverableTree
<1>1. IInv => RecoverableTree
  BY DEF IInv, Protected, ChangedIsMarked, MarkerHolds, RecoverableTree
<1> QED BY <1>1, InitIInv, NextIInv, PTL DEF Spec

-----------------------------------------------------------------------------
(* Where the driver is, and what it then holds. *)

Before == {"recover", "recover_write", "recover_unmark", "select"}
Baselines == {"baseline_all", "baseline_test", "baseline_mark", "baseline_append", "snapshot"}
OnMutant == TryBlock \cup FinallyBlock \cup {"append"}

TruthType == truth \in [pristine : PristineBehaviours, mutants : [{MutatedText(m) : m \in AllMutants} -> Behaviours]]
Held == /\ pc \in {"idle", "next"} \cup Before \cup Baselines \cup OnMutant
        /\ IF pc = "idle" THEN args = Null /\ todo = <<>> /\ snapshot = Null /\ ~ stopping ELSE args \in Invocations
        /\ pc \in Before => todo = <<>> /\ snapshot = Null
        /\ pc \in Baselines => ~ args.fresh
        /\ pc \in OnMutant => todo # <<>>
        /\ pc = "append" => ~ stopping
        /\ halfPruned \in BOOLEAN /\ stopping \in BOOLEAN
Listed == (\E S : todo \in Seq(S)) /\ (\E S : results \in Seq(S))

TypeInv == TruthType /\ Held /\ Listed

LEMMA InitType == Init => TypeInv
<1> SUFFICES ASSUME Init PROVE TypeInv
  OBVIOUS
<1>1. <<>> \in Seq({})
  OBVIOUS
<1> QED BY <1>1 DEF Init, TypeInv, TruthType, Held, Listed, Before, Baselines, OnMutant, TryBlock, FinallyBlock

LEMMA TruthStays == [Next]_vars => truth' = truth
<1> SUFFICES ASSUME [Next]_vars PROVE truth' = truth
  OBVIOUS
<1> USE DEF disk, driver, observed
<1>1. ASSUME NEW a, Start(a) \/ Check(a) \/ cmd_report(a) PROVE truth' = truth
  BY <1>1 DEF Start, Check, cmd_report
<1>2. CASE DriverStep
  BY <1>2 DEF DriverStep, Recover, RecoverWrite, RecoverUnmark, Select, BaselineAll, BaselineTest, BaselineMark,
              BaselineAppend, Snapshot, NextMutant, MarkOpen, MarkWrite, Truncate, WriteMutated, BuildTest,
              BuildTestAll, RestoreTruncate, Restore, Unmark, PruneEntries, PruneManifests, AppendResult
<1>3. CASE Interrupt \/ Kill \/ OrphanEnds \/ DeleteCache
  BY <1>3 DEF Interrupt, Kill, OrphanEnds, DeleteCache
<1> QED BY <1>1, <1>2, <1>3 DEF Next, vars

LEMMA NextTruth == TruthType /\ [Next]_vars => TruthType'
  BY TruthStays DEF TruthType, AllMutants, MutatedText

-----------------------------------------------------------------------------
(* Induction over the natural numbers, from the well-foundedness of <. *)

LEMMA LeastNat ==
  ASSUME NEW T \in SUBSET Nat, T # {}
  PROVE  \E n \in T : \A k \in T : n <= k
<1> DEFINE Less == {p \in Nat \X Nat : p[1] < p[2]}
<1>1. IsWellFoundedOn(Less, Nat)
  BY NatLessThanWellFounded DEF OpToRel
<1>2. \A k, n \in Nat : k < n => <<k, n>> \in Less
  OBVIOUS
<1> HIDE DEF Less
<1>3. PICK n \in T : \A k \in T : ~ (<<k, n>> \in Less)
  BY <1>1, WFMin
<1>4. \A k \in T : ~ (k < n)
  BY <1>2, <1>3
<1> QED BY <1>4

\* A set of numbers that has 0 and with each number the next has them all.
LEMMA Induction ==
  ASSUME NEW S \in SUBSET Nat, 0 \in S, \A n \in S : n + 1 \in S
  PROVE  S = Nat
<1> SUFFICES ASSUME NEW m \in Nat, m \notin S PROVE FALSE
  OBVIOUS
<1>1. PICK n \in Nat \ S : \A k \in Nat \ S : n <= k
  BY LeastNat
<1>2. n # 0 /\ n - 1 \in Nat
  BY <1>1
<1>3. n - 1 \in S
  BY <1>1, <1>2
<1>4. (n - 1) + 1 \in S
  BY <1>3
<1> QED BY <1>1, <1>2, <1>4

-----------------------------------------------------------------------------
(* What --resume leaves of a list of mutants. *)

\* The list that Remaining builds up, as a function g of how far it has come.
Rests(g, mutants, done, n) ==
  g = [k \in 0..n |-> IF k = 0 THEN <<>>
                      ELSE IF mutants[k].id \in done THEN g[k - 1] ELSE Append(g[k - 1], mutants[k])]

LEMMA RestsAt ==
  ASSUME NEW g, NEW mutants, NEW done, NEW n \in Nat, Rests(g, mutants, done, n)
  PROVE  /\ g[0] = <<>>
         /\ \A k \in 1..n : g[k] = IF mutants[k].id \in done THEN g[k - 1] ELSE Append(g[k - 1], mutants[k])
<1>1. \A k \in 0..n : g[k] = IF k = 0 THEN <<>>
                             ELSE IF mutants[k].id \in done THEN g[k - 1] ELSE Append(g[k - 1], mutants[k])
  BY DEF Rests
<1>2. 0 \in 0..n /\ \A k \in 1..n : k \in 0..n /\ k # 0
  OBVIOUS
<1> QED BY <1>1, <1>2

LEMMA RestsExist ==
  ASSUME NEW mutants, NEW done
  PROVE  \A n \in Nat : \E g : Rests(g, mutants, done, n)
<1> DEFINE S == {n \in Nat : \E g : Rests(g, mutants, done, n)}
<1>1. 0 \in S
  <2>1. Rests([k \in 0..0 |-> <<>>], mutants, done, 0)
    BY DEF Rests
  <2> QED BY <2>1
<1>2. ASSUME NEW n \in S PROVE n + 1 \in S
  <2>1. PICK g : Rests(g, mutants, done, n)
    BY <1>2
  <2> DEFINE last == IF mutants[n + 1].id \in done THEN g[n] ELSE Append(g[n], mutants[n + 1])
             h == [k \in 0..n + 1 |-> IF k = n + 1 THEN last ELSE g[k]]
  <2>2. \A k \in 0..n + 1 : h[k] = IF k = n + 1 THEN last ELSE g[k]
    OBVIOUS
  <2>3. h[n] = g[n]
    BY <2>2
  <2>4. \A k \in 0..n : g[k] = IF k = 0 THEN <<>>
                               ELSE IF mutants[k].id \in done THEN g[k - 1] ELSE Append(g[k - 1], mutants[k])
    BY <2>1 DEF Rests
  <2>5. h = [k \in 0..n + 1 |-> h[k]]
    OBVIOUS
  <2> HIDE DEF h
  <2>6. \A k \in 0..n + 1 : h[k] = IF k = 0 THEN <<>>
                                   ELSE IF mutants[k].id \in done THEN h[k - 1] ELSE Append(h[k - 1], mutants[k])
    <3> SUFFICES ASSUME NEW k \in 0..n + 1
                 PROVE  h[k] = IF k = 0 THEN <<>>
                               ELSE IF mutants[k].id \in done THEN h[k - 1] ELSE Append(h[k - 1], mutants[k])
      OBVIOUS
    <3>1. CASE k = n + 1
      <4>1. k # 0 /\ k - 1 = n /\ h[k] = last
        BY <3>1, <2>2
      <4> QED BY <3>1, <4>1, <2>3
    <3>2. CASE k \in 0..n
      <4>1. h[k] = g[k] /\ (k # 0 => h[k - 1] = g[k - 1])
        BY <3>2, <2>2
      <4> QED BY <3>2, <4>1, <2>4
    <3> QED BY <3>1, <3>2
  <2>7. Rests(h, mutants, done, n + 1)
    BY <2>5, <2>6 DEF Rests
  <2> QED BY <2>7
<1> HIDE DEF S
<1>3. S = Nat
  BY <1>1, <1>2, Induction DEF S
<1> QED BY <1>3 DEF S

\* t is some of the elements of s, each from a place of its own up to n, and none of them done.
Kept(t, s, done, n) ==
  \E h \in [1..Len(t) -> 1..n] :
    /\ \A x \in 1..Len(t) : t[x] = s[h[x]] /\ s[h[x]].id \notin done
    /\ \A x, y \in 1..Len(t) : h[x] = h[y] => x = y

LEMMA KeepsOne ==
  ASSUME NEW S, NEW t \in Seq(S), NEW s, NEW done, NEW n \in Nat, Kept(t, s, done, n)
  PROVE  /\ Kept(t, s, done, n + 1)
         /\ s[n + 1] \in S /\ s[n + 1].id \notin done => Kept(Append(t, s[n + 1]), s, done, n + 1)
<1>1. PICK h \in [1..Len(t) -> 1..n] :
        /\ \A x \in 1..Len(t) : t[x] = s[h[x]] /\ s[h[x]].id \notin done
        /\ \A x, y \in 1..Len(t) : h[x] = h[y] => x = y
  BY DEF Kept
<1>2. h \in [1..Len(t) -> 1..n + 1]
  BY <1>1
<1>3. Kept(t, s, done, n + 1)
  BY <1>1, <1>2 DEF Kept
<1>4. ASSUME s[n + 1] \in S, s[n + 1].id \notin done
      PROVE  Kept(Append(t, s[n + 1]), s, done, n + 1)
  <2> DEFINE u == Append(t, s[n + 1])
             g == [x \in 1..Len(t) + 1 |-> IF x = Len(t) + 1 THEN n + 1 ELSE h[x]]
  <2>1. /\ Len(t) \in Nat /\ Len(u) = Len(t) + 1 /\ u[Len(t) + 1] = s[n + 1]
        /\ \A x \in 1..Len(t) : u[x] = t[x]
    BY <1>4, AppendProperties
  <2>2. g \in [1..Len(t) + 1 -> 1..n + 1]
    BY <1>1, <2>1
  <2>3. g[Len(t) + 1] = n + 1 /\ \A x \in 1..Len(t) : g[x] = h[x] /\ g[x] \in 1..n
    BY <1>1, <2>1
  <2> HIDE DEF u, g
  <2>4. \A x \in 1..Len(u) : u[x] = s[g[x]] /\ s[g[x]].id \notin done
    <3> SUFFICES ASSUME NEW x \in 1..Len(t) + 1 PROVE u[x] = s[g[x]] /\ s[g[x]].id \notin done
      BY <2>1
    <3>1. CASE x = Len(t) + 1
      BY <3>1, <1>4, <2>1, <2>3
    <3>2. CASE x \in 1..Len(t)
      BY <3>2, <1>1, <2>1, <2>3
    <3> QED BY <3>1, <3>2, <2>1
  <2>5. \A x, y \in 1..Len(u) : g[x] = g[y] => x = y
    BY <1>1, <2>1, <2>3
  <2> QED BY <2>1, <2>2, <2>4, <2>5 DEF Kept, u
<1> QED BY <1>3, <1>4

LEMMA RemainingIs ==
  ASSUME NEW S, NEW mutants \in Seq(S), NEW done
  PROVE  /\ Remaining(mutants, done) \in Seq(S)
         /\ Kept(Remaining(mutants, done), mutants, done, Len(mutants))
<1> DEFINE n == Len(mutants)
           f == CHOOSE g : Rests(g, mutants, done, n)
<1>1. n \in Nat /\ \A k \in 1..n : mutants[k] \in S
  OBVIOUS
<1>2. Rests(f, mutants, done, n)
  BY <1>1, RestsExist
<1>3. Remaining(mutants, done) = f[n]
  BY DEF Remaining, Rests
<1> HIDE DEF f
<1>4. /\ f[0] = <<>>
      /\ \A k \in 1..n : f[k] = IF mutants[k].id \in done THEN f[k - 1] ELSE Append(f[k - 1], mutants[k])
  BY <1>1, <1>2, RestsAt
<1> HIDE DEF n
<1> DEFINE T == {k \in Nat : k <= n => f[k] \in Seq(S) /\ Kept(f[k], mutants, done, k)}
<1>5. 0 \in T
  <2>1. <<>> \in Seq(S) /\ Len(<<>>) = 0
    OBVIOUS
  <2>2. [x \in {} |-> 0] \in [1..0 -> 1..0]
    OBVIOUS
  <2>3. Kept(<<>>, mutants, done, 0)
    BY <2>1, <2>2 DEF Kept
  <2> QED BY <1>1, <1>4, <2>1, <2>3
<1>6. ASSUME NEW k \in T PROVE k + 1 \in T
  <2> SUFFICES ASSUME k + 1 <= n PROVE f[k + 1] \in Seq(S) /\ Kept(f[k + 1], mutants, done, k + 1)
    BY <1>6
  <2>1. k \in Nat /\ f[k] \in Seq(S) /\ Kept(f[k], mutants, done, k) /\ k + 1 \in 1..n /\ mutants[k + 1] \in S
    BY <1>1, <1>6
  <2>2. f[k + 1] = IF mutants[k + 1].id \in done THEN f[k] ELSE Append(f[k], mutants[k + 1])
    <3>1. (k + 1) - 1 = k
      BY <2>1
    <3> QED BY <1>4, <2>1, <3>1
  <2>3. /\ Kept(f[k], mutants, done, k + 1)
        /\ mutants[k + 1].id \notin done => Kept(Append(f[k], mutants[k + 1]), mutants, done, k + 1)
    BY <2>1, KeepsOne
  <2> QED BY <2>1, <2>2, <2>3
<1> HIDE DEF T
<1>7. T = Nat
  BY <1>5, <1>6, Induction DEF T
<1>8. n \in T
  BY <1>1, <1>7
<1> QED BY <1>1, <1>3, <1>8 DEF T, n

\* t has every element of s up to n that is not done.
Covers(t, s, done, n) == \A k \in 1..n : s[k].id \notin done => \E x \in 1..Len(t) : t[x] = s[k]

LEMMA RemainingCovers ==
  ASSUME NEW S, NEW mutants \in Seq(S), NEW done
  PROVE  Covers(Remaining(mutants, done), mutants, done, Len(mutants))
<1> DEFINE n == Len(mutants)
           f == CHOOSE g : Rests(g, mutants, done, n)
<1>1. n \in Nat /\ \A k \in 1..n : mutants[k] \in S
  OBVIOUS
<1>2. Rests(f, mutants, done, n)
  BY <1>1, RestsExist
<1>3. Remaining(mutants, done) = f[n]
  BY DEF Remaining, Rests
<1> HIDE DEF f
<1>4. /\ f[0] = <<>>
      /\ \A k \in 1..n : f[k] = IF mutants[k].id \in done THEN f[k - 1] ELSE Append(f[k - 1], mutants[k])
  BY <1>1, <1>2, RestsAt
<1> HIDE DEF n
<1> DEFINE T == {k \in Nat : k <= n => f[k] \in Seq(S) /\ Covers(f[k], mutants, done, k)}
<1>5. 0 \in T
  <2>1. <<>> \in Seq(S) /\ Covers(<<>>, mutants, done, 0)
    BY DEF Covers
  <2> QED BY <1>1, <1>4, <2>1
<1>6. ASSUME NEW k \in T PROVE k + 1 \in T
  <2> SUFFICES ASSUME k + 1 <= n PROVE f[k + 1] \in Seq(S) /\ Covers(f[k + 1], mutants, done, k + 1)
    BY <1>6
  <2>1. k \in Nat /\ f[k] \in Seq(S) /\ Covers(f[k], mutants, done, k) /\ k + 1 \in 1..n /\ mutants[k + 1] \in S
    BY <1>1, <1>6
  <2>2. f[k + 1] = IF mutants[k + 1].id \in done THEN f[k] ELSE Append(f[k], mutants[k + 1])
    <3>1. (k + 1) - 1 = k
      BY <2>1
    <3> QED BY <1>4, <2>1, <3>1
  <2>3. \A j \in 1..k + 1 : j = k + 1 \/ j \in 1..k
    BY <2>1
  <2>4. CASE mutants[k + 1].id \in done
    BY <2>1, <2>2, <2>3, <2>4 DEF Covers
  <2>5. CASE mutants[k + 1].id \notin done
    <3> DEFINE u == Append(f[k], mutants[k + 1])
    <3>1. /\ u \in Seq(S) /\ Len(f[k]) \in Nat /\ Len(u) = Len(f[k]) + 1 /\ u[Len(f[k]) + 1] = mutants[k + 1]
          /\ \A x \in 1..Len(f[k]) : u[x] = f[k][x]
      BY <2>1, AppendProperties
    <3>2. f[k + 1] = u
      BY <2>2, <2>5
    <3> HIDE DEF u
    <3>3. Len(f[k]) + 1 \in 1..Len(u) /\ \A x \in 1..Len(f[k]) : x \in 1..Len(u)
      BY <3>1
    <3>4. ASSUME NEW j \in 1..k + 1, mutants[j].id \notin done PROVE \E x \in 1..Len(u) : u[x] = mutants[j]
      <4>1. CASE j = k + 1
        BY <3>1, <3>3, <4>1
      <4>2. CASE j \in 1..k
        <5>1. PICK x \in 1..Len(f[k]) : f[k][x] = mutants[j]
          BY <2>1, <3>4, <4>2 DEF Covers
        <5> QED BY <3>1, <3>3, <5>1
      <4> QED BY <2>3, <4>1, <4>2
    <3> QED BY <3>1, <3>2, <3>4 DEF Covers
  <2> QED BY <2>4, <2>5
<1> HIDE DEF T
<1>7. T = Nat
  BY <1>5, <1>6, Induction DEF T
<1>8. n \in T
  BY <1>1, <1>7
<1> QED BY <1>1, <1>3, <1>8 DEF T, n

-----------------------------------------------------------------------------
(* The mutants a run selects. *)

LEMMA MaxIsIn ==
  ASSUME NEW n \in Nat, NEW S \in SUBSET (1..n), S # {}
  PROVE  Max(S) \in S
<1> DEFINE U == {k \in Nat : \A y \in S : y <= k}
<1>1. n \in U
  OBVIOUS
<1>2. PICK u \in U : \A k \in U : u <= k
  BY <1>1, LeastNat
<1>3. u \in S
  <2> SUFFICES ASSUME u \notin S PROVE FALSE
    OBVIOUS
  <2>1. \A y \in S : y \in Nat /\ y >= 1 /\ y <= u /\ y # u
    BY <1>2
  <2>2. PICK y \in S : TRUE
    OBVIOUS
  <2>3. u \in Nat /\ u - 1 \in Nat /\ \A z \in S : z <= u - 1
    BY <1>2, <2>1, <2>2
  <2>4. u - 1 \in U
    BY <2>3
  <2> QED BY <1>2, <2>3, <2>4
<1>4. \E x \in S : \A y \in S : x >= y
  BY <1>2, <1>3
<1> QED BY <1>4 DEF Max

LEMMA SelectIs ==
  ASSUME args \in Invocations, UnknownIds(mod, args.ids) = {}
  PROVE  /\ select(mod, args.ids) \in Seq(ToSet(mod.MUTANTS))
         /\ args.ids # <<>> => /\ DOMAIN select(mod, args.ids) = DOMAIN args.ids
                               /\ \A k \in DOMAIN args.ids : select(mod, args.ids)[k].id = args.ids[k]
<1> DEFINE M == mod.MUTANTS
           ids == args.ids
<1>1. M \in Seq(ToSet(M)) /\ ids \in Seq(ToSet(ids))
  BY CatalogueType, InvocationType DEF mod
<1>2. /\ Len(M) \in Nat /\ DOMAIN M = 1..Len(M)
      /\ Len(ids) \in Nat /\ DOMAIN ids = 1..Len(ids)
  BY <1>1
<1>3. ASSUME NEW k \in DOMAIN ids PROVE by_id(mod, ids[k]) \in ToSet(M) /\ by_id(mod, ids[k]).id = ids[k]
  <2> DEFINE S == {i \in DOMAIN M : M[i].id = ids[k]}
  <2>1. ids[k] \in ToSet(ids)
    BY <1>3 DEF ToSet
  <2>2. PICK m \in ToSet(M) : m.id = ids[k]
    BY <2>1 DEF UnknownIds
  <2>3. S # {} /\ S \in SUBSET (1..Len(M))
    BY <1>2, <2>2 DEF ToSet
  <2>4. Max(S) \in S
    BY <1>2, <2>3, MaxIsIn
  <2>5. by_id(mod, ids[k]) = M[Max(S)]
    BY DEF by_id
  <2> HIDE DEF S
  <2> QED BY <2>4, <2>5 DEF S, ToSet
<1>4. CASE ids = <<>>
  BY <1>1, <1>4 DEF select
<1>5. CASE ids # <<>>
  <2>1. select(mod, ids) = [k \in DOMAIN ids |-> by_id(mod, ids[k])]
    BY <1>5 DEF select
  <2>2. select(mod, ids) \in [1..Len(ids) -> ToSet(M)]
    BY <1>2, <1>3, <2>1
  <2> QED BY <1>2, <1>3, <2>1, <2>2, SeqDef
<1> QED BY <1>4, <1>5

-----------------------------------------------------------------------------
LEMMA SelectListed ==
  ASSUME args \in Invocations, Select, ~ KeyMissing(mod), UnknownIds(mod, args.ids) = {}, pc' # "idle"
  PROVE  todo' \in Seq(ToSet(mod.MUTANTS))
<1>1. todo' = IF args.resume THEN Remaining(select(mod, args.ids), done_ids(results)) ELSE select(mod, args.ids)
  BY DEF Select, Exit
<1>2. select(mod, args.ids) \in Seq(ToSet(mod.MUTANTS))
  BY SelectIs
<1>3. Remaining(select(mod, args.ids), done_ids(results)) \in Seq(ToSet(mod.MUTANTS))
  BY <1>2, RemainingIs
<1> QED BY <1>1, <1>2, <1>3

LEMMA ListedKept == ASSUME Listed, UNCHANGED <<todo, results>> PROVE Listed'
  BY DEF Listed

LEMMA ListedEnds == ASSUME Listed, todo' = <<>>, UNCHANGED results PROVE Listed'
<1>1. <<>> \in Seq({})
  OBVIOUS
<1> QED BY <1>1 DEF Listed

LEMMA ListedAppended ==
  ASSUME Listed, NEW r, results' = Append(results, r), todo' = todo \/ (todo # <<>> /\ todo' = Tail(todo))
  PROVE  Listed'
<1>1. PICK S : todo \in Seq(S)
  BY DEF Listed
<1>2. todo' \in Seq(S)
  BY <1>1
<1>3. PICK R : results \in Seq(R)
  BY DEF Listed
<1>4. results \in Seq(R \cup {r})
  BY <1>3, SeqMonotonic
<1>5. results' \in Seq(R \cup {r})
  BY <1>4
<1> QED BY <1>2, <1>5 DEF Listed

LEMMA NextListed ==
  ASSUME TypeInv, [Next]_vars
  PROVE  Listed'
<1> USE DEF disk, driver, observed, TypeInv, Step
<1>1. ASSUME NEW a, Start(a) \/ Check(a) \/ cmd_report(a) PROVE Listed'
  BY <1>1, ListedKept DEF Start, Check, cmd_report
<1>2. CASE DriverStep
  <2>1. CASE Select
    <3>1. CASE pc' = "idle"
      BY <2>1, <3>1, ListedEnds DEF Select, Exit
    <3>2. CASE pc' # "idle"
      <4>1. ~ KeyMissing(mod) /\ UnknownIds(mod, args.ids) = {} /\ results' = results /\ pc # "idle"
        BY <2>1, <3>2 DEF Select, Exit
      <4>2. todo' \in Seq(ToSet(mod.MUTANTS))
        BY <2>1, <3>2, <4>1, SelectListed DEF Held
      <4> QED BY <4>1, <4>2 DEF Listed
    <3> QED BY <3>1, <3>2
  <2>2. CASE AppendResult
    BY <2>2, ListedAppended DEF AppendResult, Held, OnMutant
  <2>3. CASE BaselineAppend
    BY <2>3, ListedAppended DEF BaselineAppend
  <2>4. CASE Recover \/ NextMutant \/ PruneManifests \/ BaselineAll \/ BaselineTest
    BY <2>4, ListedKept, ListedEnds DEF Recover, NextMutant, PruneManifests, BaselineAll, BaselineTest, Baseline, Exit
  <2>5. CASE \/ RecoverWrite \/ RecoverUnmark \/ BaselineMark \/ Snapshot \/ MarkOpen \/ MarkWrite \/ Truncate
             \/ WriteMutated \/ BuildTest \/ BuildTestAll \/ RestoreTruncate \/ Restore \/ Unmark \/ PruneEntries
    BY <2>5, ListedKept DEF RecoverWrite, RecoverUnmark, BaselineMark, Snapshot, MarkOpen, MarkWrite, Truncate,
              WriteMutated, BuildTest, BuildTestAll, RestoreTruncate, Restore, Unmark, PruneEntries
  <2> QED BY <1>2, <2>1, <2>2, <2>3, <2>4, <2>5 DEF DriverStep
<1>3. CASE Interrupt \/ Kill \/ OrphanEnds \/ DeleteCache
  BY <1>3, ListedKept, ListedEnds DEF Interrupt, Kill, OrphanEnds, DeleteCache, Exit
<1>4. CASE UNCHANGED vars
  BY <1>4, ListedKept DEF vars
<1> QED BY <1>1, <1>2, <1>3, <1>4 DEF Next

LEMMA NextHeld ==
  ASSUME TypeInv, [Next]_vars
  PROVE  Held'
<1> USE DEF TypeInv, Held, Before, Baselines, OnMutant, TryBlock, FinallyBlock
<1>1. ASSUME NEW a \in Invocations, Start(a) \/ Check(a) \/ cmd_report(a) PROVE Held'
  BY <1>1, InvocationType DEF Start, Check, cmd_report, disk, driver, observed
<1>2. CASE DriverStep
  <2> USE DEF driver, observed, disk, Step, Exit
  <2>1. CASE Recover \/ RecoverWrite \/ RecoverUnmark
    BY <2>1, InvocationType DEF Recover, RecoverWrite, RecoverUnmark
  <2>2. CASE Select
    BY <2>2, InvocationType DEF Select
  <2>3. CASE BaselineAll \/ BaselineTest
    BY <2>3, InvocationType DEF BaselineAll, BaselineTest, Baseline
  <2>4. CASE BaselineMark \/ BaselineAppend \/ Snapshot
    BY <2>4, InvocationType DEF BaselineMark, BaselineAppend, Snapshot
  <2>5. CASE NextMutant
    BY <2>5, InvocationType DEF NextMutant
  <2>6. CASE MarkOpen \/ MarkWrite \/ Truncate \/ WriteMutated
    BY <2>6, InvocationType DEF MarkOpen, MarkWrite, Truncate, WriteMutated
  <2>7. CASE BuildTest \/ BuildTestAll
    BY <2>7, InvocationType DEF BuildTest, BuildTestAll
  <2>8. CASE RestoreTruncate \/ Restore \/ Unmark \/ PruneEntries
    BY <2>8, InvocationType DEF RestoreTruncate, Restore, Unmark, PruneEntries
  <2>9. CASE PruneManifests
    BY <2>9, InvocationType DEF PruneManifests
  <2>10. CASE AppendResult
    BY <2>10, InvocationType DEF AppendResult
  <2> QED BY <1>2, <2>1, <2>2, <2>3, <2>4, <2>5, <2>6, <2>7, <2>8, <2>9, <2>10 DEF DriverStep
<1>3. CASE Interrupt
  BY <1>3, InvocationType DEF Interrupt, Stop, Exit
<1>4. CASE Kill
  BY <1>4, InvocationType DEF Kill, Stop, Exit
<1>5. CASE OrphanEnds
  BY <1>5 DEF OrphanEnds, driver, observed
<1>6. CASE DeleteCache
  BY <1>6 DEF DeleteCache, driver
<1>7. CASE UNCHANGED vars
  BY <1>7 DEF vars, disk, driver, observed
<1> QED BY <1>1, <1>2, <1>3, <1>4, <1>5, <1>6, <1>7 DEF Next

LEMMA NextType == TypeInv /\ [Next]_vars => TypeInv'
  BY NextTruth, NextHeld, NextListed DEF TypeInv

-----------------------------------------------------------------------------
(* The cache, and what a build of the one mutated tree tells of its mutant. *)

Past == {"next"} \cup Baselines \cup OnMutant   \* the run was not refused

\* A cache is a record, and one copied from another tree is never marked as this tree's own.
CacheForm == cache # Null =>
  /\ cache = [mark |-> cache.mark, foreign |-> cache.foreign, manifest |-> cache.manifest, arts |-> cache.arts]
  /\ ~ (cache.foreign /\ cache.mark = "own")
\* The cache was built in this tree: so it is whenever a build can use it.
Genuine == cache # Null => ~ cache.foreign
GenuineAt == /\ pc \in Before /\ args.trust => Genuine
             /\ pc \in Past /\ ~ args.fresh => Genuine
\* A manifest names artifacts the cache has, except inside restore_cache and after a stop there.
MidPrune == pc = "prune_manifests" /\ snapshot # Null
NamesOwn(c) == c # Null /\ ~ c.foreign => c.manifest \in c.arts \cup {Null}
ManifestKept == ~ halfPruned /\ ~ MidPrune => NamesOwn(cache)
\* The snapshot is of a cache that had what its manifest names, and nothing of it is gone.
SnapshotKept == snapshot # Null =>
  /\ ~ args.fresh /\ snapshot = [arts |-> snapshot.arts, manifest |-> snapshot.manifest]
  /\ snapshot.arts \subseteq Opened(cache).arts
  /\ ~ halfPruned => snapshot.manifest \in snapshot.arts \cup {Null}

CacheInv == CacheForm /\ GenuineAt /\ ManifestKept /\ SnapshotKept

\* The tree with the mutant taken out again. When it is the export, every mutant of the run applies to
\* the export, and during the builds the tree is the export but for one mutant's text.
TreeForm == tree = [f \in Files |-> tree[f]]
Base == IF pc \in Holding THEN [tree EXCEPT ![Current] = original] ELSE tree
Exported == Base = Pristine
Restored == pc = "unmark" => tree = [tree EXCEPT ![Current] = original]
Applicable == Exported /\ pc \in Past => \A k \in DOMAIN todo : todo[k] \in AllMutants
Mutated == Exported /\ pc \in {"test", "test_all"} => tree = [Pristine EXCEPT ![Current] = MutatedText(Head(todo))]

\* What a build of a source that behaves as b can be recorded as: its own end, or a timeout.
Tells(step, b, a) == \/ ~ Hangs(step, b) /\ a = analyse(step, Finished(step, b))
                     \/ a = analyse(step, Killed(b))
Sound == Exported /\ (args.fresh \/ ~ halfPruned)
RecordForm == pc \in OnMutant => rec = [test |-> rec.test, test_all |-> rec.test_all]
RecordTold ==
  pc \in OnMutant /\ Sound /\ ~ stopping =>
    /\ pc \in {"test_all", "append"} \cup FinallyBlock => Tells("test", truth.mutants[MutatedText(Head(todo))], rec.test)
    /\ pc \in {"append"} \cup FinallyBlock => Tells("test_all", truth.mutants[MutatedText(Head(todo))], rec.test_all)

\* A result that counts tells of a mutant of the catalogues.
Told(r) == /\ MutatedText(r) \in DOMAIN truth.mutants
           /\ Tells("test", BehaviourOfResult(r), r.test) /\ Tells("test_all", BehaviourOfResult(r), r.test_all)
           /\ r.status = overall_status(r.test, r.test_all)
ResultsTold == \A r \in MutantResults : r.clean => Told(r)

ToldInv == TreeForm /\ Restored /\ Applicable /\ Mutated /\ RecordForm /\ RecordTold /\ ResultsTold

\* The report printed last is that of the results on disk.
ReportIs == report # Null =>
  /\ pc = "idle" /\ report.catalogue \in DOMAIN Catalogues
  /\ report.printed = Report(LastResults(results), Catalogues[report.catalogue])

\* What a --resume run still has to do has no verdict, and names no mutant twice unless the user did.
ResumeInv == pc \in Past /\ args.resume =>
  /\ \A k \in DOMAIN todo : NamedTwice(todo[k].id) \/ \A r \in MutantResults : r.id = todo[k].id => r.status = "ERROR"
  /\ \A j, k \in DOMAIN todo : j # k /\ todo[j].id = todo[k].id => NamedTwice(todo[k].id)

\* How a build changes a cache: the record stays one, and no artifact goes.
Grown(c, d) == /\ d.mark = Opened(c).mark /\ d.foreign = Opened(c).foreign
               /\ Opened(c).arts \subseteq d.arts
               /\ d = [mark |-> d.mark, foreign |-> d.foreign, manifest |-> d.manifest, arts |-> d.arts]
               /\ \/ d.manifest = Opened(c).manifest
                  \/ d.manifest \in d.arts

FormOf(c) == c # Null => c = [mark |-> c.mark, foreign |-> c.foreign, manifest |-> c.manifest, arts |-> c.arts]

LEMMA NullIsNoCache == \A mark, foreign, manifest, arts :
  Null # [mark |-> mark, foreign |-> foreign, manifest |-> manifest, arts |-> arts]
<1> SUFFICES ASSUME NEW mark, NEW foreign, NEW manifest, NEW arts
             PROVE  DOMAIN [mark |-> mark, foreign |-> foreign, manifest |-> manifest, arts |-> arts] # DOMAIN Null
  OBVIOUS
<1> QED BY DEF Null

LEMMA BuildGrows ==
  ASSUME NEW c, FormOf(c), NEW step, NEW src, NEW b
  PROVE  /\ Grown(c, CacheAfter(step, c, src, b))
         /\ \A d \in CachesKilled(c, src, b) : d = c \/ Grown(c, d)
<1> DEFINE o == Opened(c)
<1>1. o = [mark |-> o.mark, foreign |-> o.foreign, manifest |-> o.manifest, arts |-> o.arts]
  BY DEF Opened, EmptyCache, FormOf
<1> HIDE DEF o
<1>2. Grown(c, Opened(c))
  BY <1>1 DEF Grown, o
<1>3. Grown(c, Built(c, src))
  <2>1. Built(c, src) = [o EXCEPT !.manifest = src, !.arts = @ \cup {src}]
    BY DEF Built, o
  <2>2. Built(c, src) = [mark |-> o.mark, foreign |-> o.foreign, manifest |-> src, arts |-> o.arts \cup {src}]
    BY <1>1, <2>1
  <2> QED BY <2>2 DEF Grown, o
<1>4. Grown(c, [Opened(c) EXCEPT !.arts = @ \cup {src}])
  <2>1. [o EXCEPT !.arts = @ \cup {src}]
          = [mark |-> o.mark, foreign |-> o.foreign, manifest |-> o.manifest, arts |-> o.arts \cup {src}]
    BY <1>1
  <2> QED BY <2>1 DEF Grown, o
<1> QED BY <1>2, <1>3, <1>4 DEF CacheAfter, CachesKilled

LEMMA BuildsGrow ==
  ASSUME NEW c, FormOf(c), NEW step, NEW b, NEW e \in run_cmd(step, c, b)
  PROVE  e.cache = c \/ Grown(c, e.cache)
<1>1. Grown(c, CacheAfter(step, c, tree, b)) /\ \A d \in CachesKilled(c, tree, b) : d = c \/ Grown(c, d)
  BY BuildGrows
<1> QED BY <1>1 DEF run_cmd

LEMMA GrownKeeps ==
  ASSUME CacheForm, cache' = cache \/ Grown(cache, cache')
  PROVE  /\ CacheForm' /\ (Genuine => Genuine') /\ (NamesOwn(cache) => NamesOwn(cache'))
         /\ Opened(cache).arts \subseteq Opened(cache').arts
<1>1. CASE cache' = cache
  BY <1>1 DEF CacheForm, Genuine
<1>2. CASE Grown(cache, cache')
  <2>1. CASE cache = Null
    <3>1. Opened(cache) = EmptyCache
      BY <2>1 DEF Opened
    <3>2. cache'.foreign = FALSE /\ cache'.mark = "none" /\ cache'.manifest \in cache'.arts \cup {Null}
      BY <1>2, <3>1 DEF Grown, EmptyCache
    <3> QED BY <1>2, <2>1, <3>1, <3>2 DEF CacheForm, Genuine, NamesOwn, Grown, Opened, EmptyCache
  <2>2. CASE cache # Null
    <3>1. Opened(cache) = cache
      BY <2>2 DEF Opened
    <3>2. /\ cache'.foreign = cache.foreign /\ cache'.mark = cache.mark /\ cache.arts \subseteq cache'.arts
          /\ cache' = [mark |-> cache'.mark, foreign |-> cache'.foreign, manifest |-> cache'.manifest, arts |-> cache'.arts]
          /\ cache'.manifest = cache.manifest \/ cache'.manifest \in cache'.arts
      BY <1>2, <3>1 DEF Grown
    <3>3. cache' # Null
      BY <3>2, NullIsNoCache
    <3>4. Opened(cache') = cache'
      BY <3>3 DEF Opened
    <3> QED BY <2>2, <3>1, <3>2, <3>4 DEF CacheForm, Genuine, NamesOwn
  <2> QED BY <2>1, <2>2
<1> QED BY <1>1, <1>2

\* Steps of a build, and steps that leave the cache alone, keep what is known of the cache.
LEMMA GrowthKeepsCache ==
  ASSUME CacheInv, cache' = cache \/ Grown(cache, cache'), UNCHANGED <<args, halfPruned>>,
         snapshot' = snapshot, MidPrune' => MidPrune,
         pc' \in Before /\ args.trust => pc \in Before \/ Genuine,
         pc' \in Past /\ ~ args.fresh => pc \in Past \/ Genuine,
         ~ MidPrune' /\ MidPrune => NamesOwn(cache)
  PROVE  CacheInv'
<1>1. /\ CacheForm' /\ (Genuine => Genuine') /\ (NamesOwn(cache) => NamesOwn(cache'))
      /\ Opened(cache).arts \subseteq Opened(cache').arts
  BY GrownKeeps DEF CacheInv
<1>2. GenuineAt'
  BY <1>1 DEF CacheInv, GenuineAt
<1>3. ManifestKept'
  BY <1>1 DEF CacheInv, ManifestKept, NamesOwn
<1>4. SnapshotKept'
  BY <1>1 DEF CacheInv, SnapshotKept
<1> QED BY <1>1, <1>2, <1>3, <1>4 DEF CacheInv

\* A driver that ends, wherever it is; halfPruned records that it was inside restore_cache.
LEMMA EndKeepsCache ==
  ASSUME CacheInv, cache' = cache \/ Grown(cache, cache'), pc' = "idle", snapshot' = Null,
         (halfPruned' = halfPruned /\ ~ MidPrune) \/ halfPruned' = (halfPruned \/ MidPrune), halfPruned \in BOOLEAN
  PROVE  CacheInv'
<1>1. /\ CacheForm' /\ (Genuine => Genuine') /\ (NamesOwn(cache) => NamesOwn(cache'))
  BY GrownKeeps DEF CacheInv
<1>2. GenuineAt'
  BY DEF GenuineAt, Before, Past, Baselines, OnMutant, TryBlock, FinallyBlock
<1>3. ManifestKept'
  BY <1>1 DEF CacheInv, ManifestKept, NamesOwn
<1>4. SnapshotKept'
  BY DEF SnapshotKept
<1> QED BY <1>1, <1>2, <1>3, <1>4 DEF CacheInv

LEMMA EndedGrows ==
  ASSUME CacheForm, NEW step, NEW e \in Builds(step), Ended(e)
  PROVE  cache' = cache \/ Grown(cache, cache')
<1>1. CASE args.fresh
  BY <1>1 DEF Ended
<1>2. CASE ~ args.fresh
  <2>1. e \in run_cmd(step, cache, BehaviourOf(tree)) /\ cache' = e.cache
    BY <1>2 DEF Builds, Ended
  <2>2. FormOf(cache)
    BY DEF CacheForm, FormOf
  <2> QED BY <2>1, <2>2, BuildsGrow
<1> QED BY <1>1, <1>2

LEMMA MarksNothing == [Null EXCEPT !.mark = "own"] = Null
  BY DEF Null

LEMMA InitCache == Init => CacheInv
<1> SUFFICES ASSUME Init PROVE CacheInv
  OBVIOUS
<1>1. cache \in InitialCaches /\ pc = "idle" /\ snapshot = Null /\ halfPruned = FALSE
  BY DEF Init
<1>2. CacheForm /\ NamesOwn(cache)
  BY <1>1, CacheType DEF CacheForm, NamesOwn
<1> QED BY <1>1, <1>2 DEF CacheInv, GenuineAt, ManifestKept, SnapshotKept, Before, Past, Baselines, OnMutant,
                          TryBlock, FinallyBlock

LEMMA CommandsKeepCache ==
  ASSUME TypeInv, CacheInv, NEW a \in Invocations, Start(a) \/ Check(a) \/ cmd_report(a)
  PROVE  CacheInv'
<1>1. CASE Check(a) \/ cmd_report(a)
  BY <1>1, GrowthKeepsCache DEF Check, cmd_report, disk, driver, observed, MidPrune
<1>2. CASE Start(a)
  <2>1. /\ pc = "idle" /\ pc' = "recover" /\ cache' = cache /\ snapshot' = snapshot /\ snapshot = Null
        /\ halfPruned' = halfPruned /\ args' = a /\ ~ (a.trust /\ cache # Null /\ cache.foreign)
    BY <1>2 DEF Start, disk, TypeInv, Held
  <2>2. GenuineAt'
    BY <2>1 DEF GenuineAt, Genuine, Past, Baselines, OnMutant, TryBlock, FinallyBlock
  <2> QED BY <2>1, <2>2 DEF CacheInv, CacheForm, ManifestKept, MidPrune, NamesOwn, SnapshotKept
<1> QED BY <1>1, <1>2

LEMMA SelectGenuine ==
  ASSUME TypeInv, CacheInv, Select, pc' # "idle", ~ args.fresh
  PROVE  Genuine
<1>1. PICK why \in {Refusal(select(mod, args.ids))} : why = "none"
  BY DEF Select, Exit
<1>2. check_cache(cache, args.trust)
  BY <1>1 DEF Refusal
<1> QED BY <1>2 DEF check_cache, CacheInv, CacheForm, GenuineAt, Genuine, Before, Select

LEMMA DriverKeepsCache ==
  ASSUME TypeInv, CacheInv, DriverStep
  PROVE  CacheInv'
<1> USE DEF TypeInv, Held, Before, Past, Baselines, OnMutant, TryBlock, FinallyBlock, MidPrune, Step
<1>0. halfPruned \in BOOLEAN
  OBVIOUS
<1>1. CASE Recover
  <2>1. CASE pc' = "idle"
    BY <1>0, <1>1, <2>1, EndKeepsCache DEF Recover, Exit, observed
  <2>2. CASE pc' # "idle"
    BY <1>1, <2>2, GrowthKeepsCache DEF Recover, Exit, driver, observed
  <2> QED BY <2>1, <2>2
<1>2. CASE RecoverWrite \/ RecoverUnmark
  BY <1>2, GrowthKeepsCache DEF RecoverWrite, RecoverUnmark, driver, observed
<1>3. CASE Select
  <2>1. CASE pc' = "idle"
    BY <1>0, <1>3, <2>1, EndKeepsCache DEF Select, Exit, observed, disk
  <2>2. CASE pc' # "idle"
    <3>1. pc = "select" /\ UNCHANGED <<args, cache, snapshot, halfPruned>> /\ pc' \in Past
      BY <1>3, <2>2 DEF Select, Exit, driver, observed, disk
    <3>2. ~ args.fresh => Genuine
      BY <1>3, <2>2, SelectGenuine
    <3>3. ~ MidPrune' /\ ~ MidPrune /\ pc' \notin Before
      BY <1>3, <2>2 DEF Select, Exit, driver, observed, disk
    <3> QED BY <3>1, <3>2, <3>3, GrowthKeepsCache
  <2> QED BY <2>1, <2>2
<1>4. CASE BaselineAll \/ BaselineTest
  <2>1. PICK step \in {"test", "test_all"} : \E e \in Builds(step) : Ended(e)
    BY <1>4 DEF BaselineAll, BaselineTest, Baseline
  <2>2. cache' = cache \/ Grown(cache, cache')
    BY <2>1, EndedGrows DEF CacheInv
  <2>3. CASE pc' = "idle"
    BY <1>0, <1>4, <2>2, <2>3, EndKeepsCache DEF BaselineAll, BaselineTest, Baseline, Exit, observed
  <2>4. CASE pc' # "idle"
    BY <1>4, <2>2, <2>4, GrowthKeepsCache DEF BaselineAll, BaselineTest, Baseline, Exit, driver, observed
  <2> QED BY <2>3, <2>4
<1>5. CASE BaselineMark
  <2>1. /\ pc = "baseline_mark" /\ pc' = "baseline_append" /\ cache' = [cache EXCEPT !.mark = "own"]
        /\ UNCHANGED <<args, snapshot, halfPruned>> /\ ~ args.fresh
    BY <1>5 DEF BaselineMark, driver, observed
  <2>2. Genuine
    BY <2>1 DEF CacheInv, GenuineAt
  <2>3. CASE cache = Null
    BY <2>1, <2>3, MarksNothing, GrowthKeepsCache
  <2>4. CASE cache # Null
    <3>1. cache' = [mark |-> "own", foreign |-> cache.foreign, manifest |-> cache.manifest, arts |-> cache.arts]
      BY <2>1, <2>4 DEF CacheInv, CacheForm
    <3>2. /\ cache'.foreign = cache.foreign /\ cache'.manifest = cache.manifest /\ cache'.arts = cache.arts
          /\ ~ cache.foreign /\ cache' # Null
      BY <2>2, <2>4, <3>1, NullIsNoCache DEF Genuine
    <3>3. CacheForm' /\ GenuineAt' /\ ManifestKept'
      BY <2>1, <2>4, <3>1, <3>2 DEF CacheInv, CacheForm, GenuineAt, Genuine, ManifestKept, NamesOwn
    <3>4. SnapshotKept'
      BY <2>1, <2>4, <3>2 DEF CacheInv, SnapshotKept, Opened
    <3> QED BY <3>3, <3>4 DEF CacheInv
  <2> QED BY <2>3, <2>4
<1>6. CASE BaselineAppend
  BY <1>6, GrowthKeepsCache DEF BaselineAppend, driver, observed
<1>7. CASE Snapshot
  <2>1. /\ pc = "snapshot" /\ pc' = "next" /\ UNCHANGED <<args, cache, halfPruned>> /\ ~ args.fresh
        /\ snapshot' = [arts |-> Opened(cache).arts, manifest |-> Opened(cache).manifest]
    BY <1>7 DEF Snapshot, observed, disk, snapshot_cache
  <2>2. Genuine /\ (~ halfPruned => NamesOwn(cache))
    BY <2>1 DEF CacheInv, GenuineAt, ManifestKept
  <2>3. SnapshotKept'
    BY <2>1, <2>2 DEF SnapshotKept, Genuine, NamesOwn, Opened, EmptyCache
  <2> QED BY <2>1, <2>2, <2>3 DEF CacheInv, CacheForm, GenuineAt, Genuine, ManifestKept, NamesOwn
<1>8. CASE NextMutant
  <2>1. CASE pc' = "idle"
    BY <1>0, <1>8, <2>1, EndKeepsCache DEF NextMutant, Exit, observed, disk
  <2>2. CASE pc' # "idle"
    BY <1>8, <2>2, GrowthKeepsCache DEF NextMutant, Exit, observed, disk
  <2> QED BY <2>1, <2>2
<1>9. CASE MarkOpen \/ MarkWrite \/ Truncate \/ WriteMutated \/ RestoreTruncate \/ Restore \/ Unmark \/ AppendResult
  BY <1>9, GrowthKeepsCache DEF MarkOpen, MarkWrite, Truncate, WriteMutated, RestoreTruncate, Restore, Unmark,
                                AppendResult, driver, observed
<1>10. CASE BuildTest \/ BuildTestAll
  <2>1. PICK step \in {"test", "test_all"} : \E e \in Builds(step) : Ended(e)
    BY <1>10 DEF BuildTest, BuildTestAll
  <2>2. cache' = cache \/ Grown(cache, cache')
    BY <2>1, EndedGrows DEF CacheInv
  <2> QED BY <1>10, <2>2, GrowthKeepsCache DEF BuildTest, BuildTestAll, observed
<1>11. CASE PruneEntries
  <2>1. /\ pc = "prune_entries" /\ pc' = "prune_manifests" /\ UNCHANGED <<args, snapshot, halfPruned>>
        /\ cache' = IF snapshot = Null \/ cache = Null THEN cache ELSE [cache EXCEPT !.arts = @ \cap snapshot.arts]
    BY <1>11 DEF PruneEntries, driver, observed
  <2>2. CASE snapshot = Null \/ cache = Null
    BY <2>1, <2>2 DEF CacheInv, CacheForm, GenuineAt, Genuine, ManifestKept, NamesOwn, SnapshotKept
  <2>3. CASE snapshot # Null /\ cache # Null
    <3>1. /\ cache' = [mark |-> cache.mark, foreign |-> cache.foreign, manifest |-> cache.manifest,
                       arts |-> cache.arts \cap snapshot.arts]
          /\ snapshot.arts \subseteq cache.arts
      BY <2>1, <2>3 DEF CacheInv, CacheForm, SnapshotKept, Opened
    <3>2. /\ cache'.foreign = cache.foreign /\ cache'.mark = cache.mark /\ cache' # Null
          /\ cache'.manifest = cache.manifest /\ cache'.arts = cache.arts \cap snapshot.arts
      BY <3>1, NullIsNoCache
    <3>3. CacheForm' /\ GenuineAt' /\ ManifestKept'
      BY <2>1, <2>3, <3>1, <3>2 DEF CacheInv, CacheForm, GenuineAt, Genuine, ManifestKept, NamesOwn
    <3>4. SnapshotKept'
      BY <2>1, <2>3, <3>1, <3>2 DEF CacheInv, SnapshotKept, Opened
    <3> QED BY <3>3, <3>4 DEF CacheInv
  <2> QED BY <2>2, <2>3
<1>12. CASE PruneManifests
  <2>1. /\ pc = "prune_manifests" /\ UNCHANGED halfPruned
        /\ cache' = IF snapshot = Null \/ cache = Null THEN cache ELSE [cache EXCEPT !.manifest = snapshot.manifest]
        /\ \/ pc' = "idle" /\ snapshot' = Null
           \/ pc' = "append" /\ UNCHANGED <<args, snapshot>>
    BY <1>12 DEF PruneManifests, Exit, driver, observed, restore_manifest
  <2>2. CASE snapshot = Null \/ cache = Null
    <3>1. NamesOwn(cache) \/ halfPruned
      BY <2>2 DEF CacheInv, ManifestKept, NamesOwn
    <3> QED BY <2>1, <2>2, <3>1 DEF CacheInv, CacheForm, GenuineAt, Genuine, ManifestKept, NamesOwn, SnapshotKept
  <2>3. CASE snapshot # Null /\ cache # Null
    <3>1. /\ cache' = [mark |-> cache.mark, foreign |-> cache.foreign, manifest |-> snapshot.manifest, arts |-> cache.arts]
          /\ snapshot.arts \subseteq cache.arts
          /\ ~ halfPruned => snapshot.manifest \in snapshot.arts \cup {Null}
      BY <2>1, <2>3 DEF CacheInv, CacheForm, SnapshotKept, Opened
    <3>2. /\ cache'.foreign = cache.foreign /\ cache'.mark = cache.mark /\ cache' # Null
          /\ cache'.manifest = snapshot.manifest /\ cache'.arts = cache.arts
      BY <3>1, NullIsNoCache
    <3>3. CacheForm' /\ GenuineAt' /\ ManifestKept'
      BY <2>1, <2>3, <3>1, <3>2 DEF CacheInv, CacheForm, GenuineAt, Genuine, ManifestKept, NamesOwn
    <3>4. SnapshotKept'
      BY <2>1, <2>3, <3>1, <3>2 DEF CacheInv, SnapshotKept, Opened
    <3> QED BY <3>3, <3>4 DEF CacheInv
  <2> QED BY <2>2, <2>3
<1> QED BY <1>1, <1>2, <1>3, <1>4, <1>5, <1>6, <1>7, <1>8, <1>9, <1>10, <1>11, <1>12 DEF DriverStep

LEMMA FaultKeepsCache ==
  ASSUME TypeInv, CacheInv, Interrupt \/ Kill \/ OrphanEnds \/ DeleteCache
  PROVE  CacheInv'
<1> USE DEF TypeInv, Held, Before, Past, Baselines, OnMutant, TryBlock, FinallyBlock, MidPrune
<1>0. halfPruned \in BOOLEAN /\ FormOf(cache)
  BY DEF CacheInv, CacheForm, FormOf
<1>1. CASE Interrupt
  <2>1. cache' = cache \/ Grown(cache, cache')
    BY <1>0, <1>1, BuildGrows DEF Interrupt
  <2>2. CASE pc \in TryBlock
    <3>1. pc' = "restore_truncate" /\ UNCHANGED <<args, snapshot>> /\ pc # "prune_manifests" /\ halfPruned' = halfPruned
      BY <1>0, <1>1, <2>2 DEF Interrupt, Stop
    <3> QED BY <2>1, <2>2, <3>1, GrowthKeepsCache
  <2>3. CASE pc \notin TryBlock
    BY <1>0, <1>1, <2>1, <2>3, EndKeepsCache DEF Interrupt, Stop, Exit
  <2> QED BY <2>2, <2>3
<1>2. CASE Kill
  BY <1>0, <1>2, EndKeepsCache DEF Kill, Stop, Exit, disk
<1>3. CASE OrphanEnds
  <2>1. cache' = cache \/ Grown(cache, cache')
    BY <1>0, <1>3, BuildGrows DEF OrphanEnds
  <2> QED BY <1>3, <2>1, GrowthKeepsCache DEF OrphanEnds, driver, observed
<1>4. CASE DeleteCache
  BY <1>4 DEF DeleteCache, driver, CacheInv, CacheForm, GenuineAt, Genuine, ManifestKept, NamesOwn, SnapshotKept
<1> QED BY <1>1, <1>2, <1>3, <1>4

LEMMA NextCache == TypeInv /\ CacheInv /\ [Next]_vars => CacheInv'
<1> SUFFICES ASSUME TypeInv, CacheInv, [Next]_vars PROVE CacheInv'
  OBVIOUS
<1>1. CASE UNCHANGED vars
  BY <1>1, GrowthKeepsCache DEF vars, disk, driver, observed, MidPrune
<1> QED BY <1>1, CommandsKeepCache, DriverKeepsCache, FaultKeepsCache DEF Next

-----------------------------------------------------------------------------
(* The mutants of a run apply to the export; a build tells what they do. *)

LEMMA NotRefused ==
  ASSUME Select, pc' # "idle"
  PROVE  /\ pc = "select" /\ ~ KeyMissing(mod) /\ UnknownIds(mod, args.ids) = {}
         /\ ~ ValidateRaises(tree, select(mod, args.ids))
         /\ catalogue_problems(mod) = {} /\ validate(tree, select(mod, args.ids)) = {}
         /\ todo' = IF args.resume THEN Remaining(select(mod, args.ids), done_ids(results)) ELSE select(mod, args.ids)
         /\ UNCHANGED <<disk, args, snapshot, original, rec, stopping, orphan, observed, budget>>
         /\ pc' \in {"next"} \cup Baselines
<1>1. PICK why \in {Refusal(select(mod, args.ids))} : why = "none"
  BY DEF Select, Exit
<1>2. ~ ValidateRaises(tree, select(mod, args.ids)) /\ catalogue_problems(mod) \cup validate(tree, select(mod, args.ids)) = {}
  BY <1>1 DEF Refusal
<1> QED BY <1>2 DEF Select, Exit, Baselines

LEMMA ValidMutants ==
  ASSUME args \in Invocations, NEW mutants \in Seq(ToSet(mod.MUTANTS)),
         ~ ValidateRaises(Pristine, mutants), validate(Pristine, mutants) = {}
  PROVE  mutants \in Seq(AllMutants)
<1>1. ASSUME NEW k \in DOMAIN mutants PROVE mutants[k] \in AllMutants
  <2> DEFINE m == mutants[k]
             at == {x.id : x \in {x \in ToSet(mutants) : ~ EditsApply(Pristine, x)}}
  <2>1. m \in ToSet(mutants) /\ m \in ToSet(mod.MUTANTS)
    BY DEF ToSet
  <2>2. at = {}
    <3> SUFFICES ASSUME NEW i \in at PROVE FALSE
      OBVIOUS
    <3>1. [kind |-> "edits do not apply", at |-> i] \in validate(Pristine, mutants)
      BY DEF validate
    <3> QED BY <3>1
  <2>3. EditsApply(Pristine, m)
    BY <2>1, <2>2
  <2>4. m.file \in Files /\ MutatedText(m) \notin {EditError, Pristine[m.file]}
    BY <2>3, PristineType DEF EditsApply, MutatedText
  <2>5. {"file", "edits"} \subseteq DOMAIN m
    BY <2>1, <2>4, PristineType DEF ValidateRaises
  <2>6. m \in UNION {ToSet(Catalogues[c].MUTANTS) : c \in DOMAIN Catalogues}
    BY <2>1, InvocationType DEF mod
  <2> HIDE DEF m
  <2> QED BY <2>4, <2>5, <2>6 DEF AllMutants, m
<1>2. mutants \in [1..Len(mutants) -> AllMutants] /\ Len(mutants) \in Nat
  BY <1>1
<1> QED BY <1>2, SeqDef

LEMMA SelectApplies ==
  ASSUME TypeInv, Select, pc' # "idle", tree = Pristine
  PROVE  todo' \in Seq(AllMutants)
<1>1. args \in Invocations
  BY NotRefused DEF TypeInv, Held
<1>2. select(mod, args.ids) \in Seq(ToSet(mod.MUTANTS))
  BY <1>1, NotRefused, SelectIs
<1>3. select(mod, args.ids) \in Seq(AllMutants)
  BY <1>1, <1>2, NotRefused, ValidMutants
<1>4. Remaining(select(mod, args.ids), done_ids(results)) \in Seq(AllMutants)
  BY <1>3, RemainingIs
<1> QED BY <1>3, <1>4, NotRefused

LEMMA MutantBehaves ==
  ASSUME TruthType, NEW m \in AllMutants, NEW t, t = [Pristine EXCEPT ![m.file] = MutatedText(m)]
  PROVE  /\ MutatedText(m) \in DOMAIN truth.mutants /\ truth.mutants[MutatedText(m)] \in Behaviours
         /\ BehaviourOf(t) = truth.mutants[MutatedText(m)] /\ t # Null
<1>1. m.file \in Files /\ MutatedText(m) # Pristine[m.file]
  BY DEF AllMutants
<1>2. t[m.file] = MutatedText(m) /\ \A f \in Files : f # m.file => t[f] = Pristine[f]
  BY <1>1, PristineType
<1>3. MutatedText(m) \in DOMAIN truth.mutants /\ truth.mutants[MutatedText(m)] \in Behaviours
  BY DEF TruthType
<1>4. t # Pristine
  BY <1>1, <1>2
<1>5. (CHOOSE f \in Files : t[f] # Pristine[f]) = m.file
  BY <1>1, <1>2
<1>6. \E f \in Files : t = [Pristine EXCEPT ![f] = t[f]] /\ t[f] \in DOMAIN truth.mutants
  BY <1>1, <1>2, <1>3
<1>7. t # Null
  BY NullType
<1> QED BY <1>2, <1>3, <1>4, <1>5, <1>6, <1>7 DEF BehaviourOf

\* Of a source whose artifacts the cache has when its manifest names it, in a cache built here.
LEMMA FinishedOrKilled ==
  ASSUME NEW step, NEW c, NEW b, tree # Null, c # Null => ~ c.foreign, NamesOwn(c), NEW e \in run_cmd(step, c, b)
  PROVE  Tells(step, b, analyse(step, e.out))
<1>1. ~ LosesArtifacts(c, tree)
  BY DEF LosesArtifacts, NamesOwn
<1>2. Outputs(step, c, tree, b) = {Finished(step, b)}
  BY <1>1 DEF Outputs
<1> QED BY <1>2 DEF run_cmd, Tells

LEMMA BuildTells ==
  ASSUME TypeInv, CacheInv, ToldInv, Sound, pc \in {"test", "test_all"}, NEW step, NEW e \in Builds(step)
  PROVE  Tells(step, truth.mutants[MutatedText(Head(todo))], analyse(step, e.out))
<1> DEFINE m == Head(todo)
<1>1. m \in AllMutants
  <2>1. todo # <<>> /\ pc \in Past /\ Exported
    BY DEF TypeInv, Held, OnMutant, TryBlock, Past, Sound
  <2>2. PICK S : todo \in Seq(S)
    BY DEF TypeInv, Listed
  <2>3. 1 \in DOMAIN todo /\ m = todo[1]
    BY <2>1, <2>2
  <2> HIDE DEF m
  <2> QED BY <2>1, <2>3 DEF ToldInv, Applicable
<1>2. tree = [Pristine EXCEPT ![m.file] = MutatedText(m)]
  BY DEF ToldInv, Mutated, Current, Sound
<1> HIDE DEF m
<1>3. BehaviourOf(tree) = truth.mutants[MutatedText(m)] /\ tree # Null
  BY <1>1, <1>2, MutantBehaves DEF TypeInv
<1>4. CASE args.fresh
  <2>1. e \in run_cmd(step, Null, BehaviourOf(tree))
    BY <1>4 DEF Builds
  <2> QED BY <1>3, <2>1, FinishedOrKilled DEF NamesOwn, m
<1>5. CASE ~ args.fresh
  <2>1. e \in run_cmd(step, cache, BehaviourOf(tree))
    BY <1>5 DEF Builds
  <2>2. (cache # Null => ~ cache.foreign) /\ NamesOwn(cache)
    BY <1>5 DEF CacheInv, GenuineAt, Genuine, ManifestKept, MidPrune, Past, OnMutant, TryBlock, Sound
  <2> QED BY <1>3, <2>1, <2>2, FinishedOrKilled DEF m
<1> QED BY <1>4, <1>5

-----------------------------------------------------------------------------
(* What is recorded of a mutant is what its builds told. *)

LEMMA InitTold == Init => ToldInv
<1> SUFFICES ASSUME Init PROVE ToldInv
  OBVIOUS
<1>1. tree = Pristine /\ pc = "idle" /\ results = <<>>
  BY DEF Init
<1>2. MutantResults = {}
  BY <1>1 DEF MutantResults, ToSet
<1> QED BY <1>1, <1>2, PristineType DEF ToldInv, TreeForm, Restored, Applicable, Mutated, RecordForm, RecordTold, ResultsTold,
                                        Past, Baselines, OnMutant, TryBlock, FinallyBlock

LEMMA NextTreeForm ==
  ASSUME TreeForm, [Next]_vars
  PROVE  TreeForm'
<1>1. ASSUME tree' = tree PROVE TreeForm'
  BY <1>1 DEF TreeForm
<1>2. ASSUME NEW f, NEW text, tree' = [tree EXCEPT ![f] = text] PROVE TreeForm'
  BY <1>2 DEF TreeForm
<1> USE DEF disk, driver, observed
<1>3. ASSUME NEW a, Start(a) \/ Check(a) \/ cmd_report(a) PROVE TreeForm'
  BY <1>1, <1>3 DEF Start, Check, cmd_report
<1>4. CASE DriverStep
  <2>1. CASE Recover \/ RecoverWrite \/ Truncate \/ WriteMutated \/ RestoreTruncate \/ Restore
    BY <1>1, <1>2, <2>1 DEF Recover, RecoverWrite, Truncate, WriteMutated, RestoreTruncate, Restore
  <2>2. CASE ~ (Recover \/ RecoverWrite \/ Truncate \/ WriteMutated \/ RestoreTruncate \/ Restore)
    BY <1>1, <1>4, <2>2 DEF DriverStep, RecoverUnmark, Select, BaselineAll, BaselineTest, BaselineMark,
              BaselineAppend, Snapshot, NextMutant, MarkOpen, MarkWrite, BuildTest,
              BuildTestAll, Unmark, PruneEntries, PruneManifests, AppendResult
  <2> QED BY <2>1, <2>2
<1>5. CASE Interrupt \/ Kill \/ OrphanEnds \/ DeleteCache
  BY <1>1, <1>5 DEF Interrupt, Kill, OrphanEnds, DeleteCache
<1>6. CASE UNCHANGED vars
  BY <1>1, <1>6 DEF vars
<1> QED BY <1>3, <1>4, <1>5, <1>6 DEF Next

LEMMA ResultsStayTold ==
  ASSUME ResultsTold, truth' = truth, results' = results
  PROVE  ResultsTold'
  BY DEF ResultsTold, MutantResults, Told, BehaviourOfResult

LEMMA ResultsGrow ==
  ASSUME Listed, NEW r
  PROVE  /\ ToSet(Append(results, r)) = ToSet(results) \cup {r}
         /\ Last(Append(results, r)) = r /\ Append(results, r) # results
<1>1. PICK R : results \in Seq(R)
  BY DEF Listed
<1>2. results \in Seq(R \cup {r}) /\ r \in R \cup {r}
  BY <1>1, SeqMonotonic
<1> DEFINE s == Append(results, r)
           n == Len(results)
<1>3. /\ n \in Nat /\ DOMAIN results = 1..n /\ DOMAIN s = 1..n + 1 /\ s[n + 1] = r /\ Len(s) = n + 1
      /\ \A k \in 1..n : s[k] = results[k]
  BY <1>2, AppendProperties
<1>4. 1..n + 1 = 1..n \cup {n + 1} /\ n + 1 \notin 1..n
  BY <1>3
<1> HIDE DEF s
<1>5. s # results
  BY <1>3, <1>4
<1>6. Last(s) = r
  BY <1>3 DEF Last
<1> HIDE DEF n
<1>7. ToSet(s) = ToSet(results) \cup {r}
  BY <1>3, <1>4 DEF ToSet
<1> QED BY <1>5, <1>6, <1>7 DEF s

LEMMA ResultsGrowTold ==
  ASSUME TypeInv, ResultsTold, truth' = truth, NEW r, results' = Append(results, r),
         r.kind = "mutant" /\ r.clean => Told(r)
  PROVE  ResultsTold'
<1>1. ToSet(results') = ToSet(results) \cup {r}
  BY ResultsGrow DEF TypeInv
<1>2. MutantResults' \subseteq MutantResults \cup {x \in {r} : x.kind = "mutant"}
  BY <1>1 DEF MutantResults
<1>3. \A x : Told(x) => Told(x)'
  BY DEF Told, BehaviourOfResult
<1> QED BY <1>2, <1>3 DEF ResultsTold

LEMMA FrameTold ==
  ASSUME ToldInv, UNCHANGED <<tree, results, pc, args, todo, rec, stopping, truth, halfPruned, original>>
  PROVE  ToldInv'
<1>1. ResultsTold'
  BY ResultsStayTold DEF ToldInv
<1>2. Current' = Current /\ (Exported' <=> Exported)
  BY DEF Exported, Base, Current
<1> QED BY <1>1, <1>2 DEF ToldInv, TreeForm, Restored, Applicable, Mutated, RecordForm, RecordTold, Sound

\* Steps that end a run, or come before its first mutant, or between two.
LEMMA BetweenTold ==
  ASSUME ToldInv, TreeForm', ResultsTold', pc' \notin OnMutant,
         pc' \in Past => pc \in Past /\ todo' = todo /\ Base' = Base
  PROVE  ToldInv'
<1>1. Applicable'
  BY DEF ToldInv, Applicable, Exported
<1> QED BY <1>1 DEF ToldInv, Restored, Mutated, RecordForm, RecordTold, OnMutant, TryBlock, FinallyBlock

\* Steps on a mutant that are neither builds nor lead to one.
LEMMA OnMutantTold ==
  ASSUME ToldInv, TreeForm', UNCHANGED <<truth, results, todo, args, rec, halfPruned>>,
         Base' = Base, pc' = "unmark" => Restored',
         pc \in OnMutant, pc' \in OnMutant \ {"test", "test_all"}, ~ stopping' => ~ stopping,
         ~ stopping' /\ pc' \in {"append"} \cup FinallyBlock => pc \in {"append"} \cup FinallyBlock
  PROVE  ToldInv'
<1>1. ResultsTold'
  BY ResultsStayTold DEF ToldInv
<1>2. (Exported' <=> Exported) /\ Restored'
  BY DEF Exported, Restored
<1>3. Applicable' /\ Mutated' /\ RecordForm'
  BY <1>2 DEF ToldInv, Applicable, Mutated, RecordForm, Past
<1>4. RecordTold'
  BY <1>2 DEF ToldInv, RecordTold, Sound, OnMutant, TryBlock, FinallyBlock
<1> QED BY <1>1, <1>2, <1>3, <1>4 DEF ToldInv

LEMMA HeadApplies ==
  ASSUME TypeInv, ToldInv, Exported, pc \in OnMutant
  PROVE  Head(todo) \in AllMutants
<1>1. todo # <<>> /\ pc \in Past
  BY DEF TypeInv, Held, Past
<1>2. PICK S : todo \in Seq(S)
  BY DEF TypeInv, Listed
<1>3. 1 \in DOMAIN todo /\ Head(todo) = todo[1]
  BY <1>1, <1>2
<1> QED BY <1>1, <1>3 DEF ToldInv, Applicable

LEMMA BuildStepTold ==
  ASSUME TypeInv, CacheInv, ToldInv, BuildTest \/ BuildTestAll
  PROVE  ToldInv'
<1> USE DEF Step, observed, OnMutant, TryBlock, FinallyBlock
<1>1. /\ UNCHANGED <<tree, truth, results, todo, args, halfPruned, original, stopping>>
      /\ pc \in OnMutant /\ pc' \in OnMutant /\ pc \in Holding /\ pc' \in Holding \ {"unmark"}
  BY DEF BuildTest, BuildTestAll, Holding, Marked
<1>0. (Exported' <=> Exported) /\ Restored'
  BY <1>1 DEF Exported, Base, Current, Restored
<1>2. TreeForm' /\ ResultsTold' /\ Applicable'
  BY <1>0, <1>1, ResultsStayTold DEF ToldInv, TreeForm, Applicable, Past
<1>3. rec = [test |-> rec.test, test_all |-> rec.test_all]
  BY <1>1 DEF ToldInv, RecordForm
<1>4. CASE BuildTest
  <2>1. PICK e \in Builds("test") : rec' = [rec EXCEPT !.test = analyse("test", e.out)]
    BY <1>4 DEF BuildTest
  <2>2. pc = "test" /\ pc' = "test_all"
    BY <1>4 DEF BuildTest
  <2>3. rec' = [test |-> analyse("test", e.out), test_all |-> rec.test_all]
    BY <1>3, <2>1
  <2>4. Sound => Tells("test", truth.mutants[MutatedText(Head(todo))], rec'.test)
    BY <2>2, <2>3, BuildTells
  <2>5. Mutated' /\ RecordForm'
    BY <1>0, <1>1, <2>2, <2>3 DEF ToldInv, Mutated, RecordForm, Current
  <2>6. RecordTold'
    BY <1>0, <1>1, <2>2, <2>4 DEF RecordTold, Sound
  <2> QED BY <1>0, <1>2, <2>5, <2>6 DEF ToldInv
<1>5. CASE BuildTestAll
  <2>1. PICK e \in Builds("test_all") : rec' = [rec EXCEPT !.test_all = analyse("test_all", e.out)]
    BY <1>5 DEF BuildTestAll
  <2>2. pc = "test_all" /\ pc' = "restore_truncate"
    BY <1>5 DEF BuildTestAll
  <2>3. rec' = [test |-> rec.test, test_all |-> analyse("test_all", e.out)]
    BY <1>3, <2>1
  <2>4. Sound => Tells("test_all", truth.mutants[MutatedText(Head(todo))], rec'.test_all)
    BY <2>2, <2>3, BuildTells
  <2>5. Sound /\ ~ stopping => Tells("test", truth.mutants[MutatedText(Head(todo))], rec'.test)
    BY <2>2, <2>3 DEF ToldInv, RecordTold
  <2>6. Mutated' /\ RecordForm'
    BY <2>2, <2>3 DEF Mutated, RecordForm
  <2>7. RecordTold'
    BY <1>0, <1>1, <2>2, <2>4, <2>5 DEF RecordTold, Sound
  <2> QED BY <1>0, <1>2, <2>6, <2>7 DEF ToldInv
<1> QED BY <1>4, <1>5

LEMMA WriteTold ==
  ASSUME TypeInv, ToldInv, WriteMutated
  PROVE  ToldInv'
<1>1. /\ pc = "mutate" /\ pc' = "test" /\ UNCHANGED <<truth, results, todo, args, rec, halfPruned, original, stopping>>
      /\ tree' = [tree EXCEPT ![Current] = apply_edits(original, Head(todo).edits)]
  BY DEF WriteMutated, Step, driver, observed, Current
<1>2. pc \in OnMutant /\ pc' \in OnMutant /\ pc \in Past /\ pc \in Holding /\ pc' \in Holding
  BY <1>1 DEF OnMutant, TryBlock, Past, Holding, Marked
<1>3. tree = [f \in Files |-> tree[f]] /\ TreeForm' /\ ResultsTold'
  BY <1>1, ResultsStayTold DEF ToldInv, TreeForm
<1>4. Exported' <=> Exported
  <2>1. Current' = Current
    BY <1>1 DEF Current
  <2>2. Base = [tree EXCEPT ![Current] = original] /\ Base' = [tree' EXCEPT ![Current] = original]
    BY <1>1, <1>2, <2>1 DEF Base
  <2>3. Base' = Base
    BY <1>1, <1>3, <2>2
  <2> QED BY <2>3 DEF Exported
<1>5. Applicable' /\ RecordForm' /\ RecordTold' /\ Restored'
  BY <1>1, <1>2, <1>4 DEF ToldInv, Applicable, RecordForm, RecordTold, FinallyBlock, Restored
<1>6. Mutated'
  <2> SUFFICES ASSUME Exported PROVE tree' = [Pristine EXCEPT ![Current] = MutatedText(Head(todo))]
    BY <1>1, <1>4 DEF Mutated, Current
  <2>1. Current \in Files
    BY <1>2, HeadApplies DEF AllMutants, Current
  <2>2. [tree EXCEPT ![Current] = original] = Pristine
    BY <1>2 DEF Exported, Base
  <2>3. original = Pristine[Current]
    BY <1>3, <2>1, <2>2
  <2>4. apply_edits(original, Head(todo).edits) = MutatedText(Head(todo))
    BY <2>3 DEF MutatedText, Current
  <2> DEFINE text == MutatedText(Head(todo))
  <2>5. tree' = [tree EXCEPT ![Current] = text]
    BY <1>1, <2>4
  <2> HIDE DEF text
  <2>6. tree' = [Pristine EXCEPT ![Current] = text]
    BY <1>3, <2>2, <2>5
  <2> QED BY <2>6 DEF text
<1> QED BY <1>3, <1>5, <1>6 DEF ToldInv

LEMMA AppendTold ==
  ASSUME TypeInv, ToldInv, AppendResult
  PROVE  ToldInv'
<1> DEFINE r == Record(Head(todo))
<1>1. /\ pc = "append" /\ pc' = "next" /\ results' = Append(results, r) /\ todo' = Tail(todo)
      /\ UNCHANGED <<tree, truth>> /\ todo # <<>> /\ ~ stopping
  BY DEF AppendResult, Step, observed, TypeInv, Held, OnMutant
<1>0. Base = tree /\ Base' = tree'
  BY <1>1 DEF Base, Holding, Marked
<1>2. r.kind = "mutant" /\ r.clean => Told(r)
  <2> SUFFICES ASSUME Sound PROVE Told(r)
    BY <1>0 DEF Record, Sound, Exported
  <2> DEFINE m == Head(todo)
  <2>1. m \in AllMutants
    BY <1>1, HeadApplies DEF Sound, OnMutant
  <2>2. MutatedText(r) = MutatedText(m)
    BY DEF MutatedText, Record
  <2>3. MutatedText(m) \in DOMAIN truth.mutants
    BY <2>1, MutantBehaves DEF TypeInv
  <2>4. Tells("test", truth.mutants[MutatedText(m)], rec.test) /\ Tells("test_all", truth.mutants[MutatedText(m)], rec.test_all)
    BY <1>1 DEF ToldInv, RecordTold, OnMutant
  <2>5. r.test = rec.test /\ r.test_all = rec.test_all /\ r.status = overall_status(rec.test, rec.test_all)
    BY DEF Record
  <2> HIDE DEF r, m
  <2> QED BY <2>2, <2>3, <2>4, <2>5 DEF Told, BehaviourOfResult
<1> HIDE DEF r
<1>3. ResultsTold'
  BY <1>1, <1>2, ResultsGrowTold DEF ToldInv
<1>4. PICK S : todo \in Seq(S)
  BY DEF TypeInv, Listed
<1>5. Len(todo) \in Nat /\ DOMAIN todo = 1..Len(todo) /\ DOMAIN todo' = 1..(Len(todo) - 1)
  BY <1>1, <1>4
<1>6. \A k \in DOMAIN todo' : k + 1 \in DOMAIN todo /\ todo'[k] = todo[k + 1]
  BY <1>1, <1>4, <1>5
<1>7. Applicable'
  BY <1>0, <1>1, <1>6 DEF ToldInv, Applicable, Exported, Past, OnMutant
<1> QED BY <1>1, <1>3, <1>7 DEF ToldInv, TreeForm, Restored, Mutated, RecordForm, RecordTold, OnMutant, TryBlock, FinallyBlock

LEMMA SelectTold ==
  ASSUME TypeInv, ToldInv, Select
  PROVE  ToldInv'
<1>1. UNCHANGED <<tree, results, truth>>
  BY DEF Select, disk, observed
<1>2. TreeForm' /\ ResultsTold'
  BY <1>1, ResultsStayTold DEF ToldInv, TreeForm
<1>3. CASE pc' = "idle"
  BY <1>1, <1>2, <1>3, BetweenTold DEF OnMutant, TryBlock, FinallyBlock, Past, Baselines
<1>4. CASE pc' # "idle"
  <2>1. pc' \in {"next"} \cup Baselines
    BY <1>4, NotRefused
  <2>2. Exported' => tree = Pristine
    BY <1>1, <2>1 DEF Exported, Base, Holding, Marked, Baselines
  <2>3. tree = Pristine => todo' \in Seq(AllMutants)
    BY <1>4, SelectApplies
  <2>4. Applicable'
    BY <2>2, <2>3 DEF Applicable
  <2> QED BY <1>2, <2>1, <2>4 DEF ToldInv, Restored, Mutated, RecordForm, RecordTold, OnMutant, TryBlock,
                                  FinallyBlock, Baselines
<1> QED BY <1>3, <1>4

\* Between reading a file's bytes and writing them back, no step changes another file.
LEMMA RewritingKeepsBase ==
  ASSUME ToldInv, pc \in Holding, pc' \in Holding, UNCHANGED <<todo, original>>,
         tree' = tree \/ \E text : tree' = [tree EXCEPT ![Current] = text]
  PROVE  Base' = Base
<1>1. tree = [f \in Files |-> tree[f]] /\ Current' = Current
  BY DEF ToldInv, TreeForm, Current
<1>2. Base = [tree EXCEPT ![Current] = original] /\ Base' = [tree' EXCEPT ![Current] = original]
  BY <1>1 DEF Base
<1>3. CASE tree' = tree
  BY <1>2, <1>3
<1>4. CASE \E text : tree' = [tree EXCEPT ![Current] = text]
  BY <1>1, <1>2, <1>4
<1> QED BY <1>3, <1>4

LEMMA RestoreRestores ==
  ASSUME ToldInv, Restore
  PROVE  Restored'
<1>1. tree' = [tree EXCEPT ![Current] = original] /\ original' = original /\ Current' = Current
  BY DEF Restore, Current, driver
<1>2. tree = [f \in Files |-> tree[f]]
  BY DEF ToldInv, TreeForm
<1>3. tree' = [tree' EXCEPT ![Current] = original]
  BY <1>1, <1>2
<1> QED BY <1>1, <1>3 DEF Restored

LEMMA DriverTold ==
  ASSUME TypeInv, CacheInv, ToldInv, DriverStep
  PROVE  ToldInv'
<1> USE DEF Step, driver, observed, disk
<1>0. TreeForm' /\ truth' = truth /\ (results' = results => ResultsTold')
  <2>1. [Next]_vars
    BY DEF Next
  <2> QED BY <2>1, NextTreeForm, TruthStays, ResultsStayTold DEF ToldInv
<1>1. CASE Recover \/ RecoverWrite \/ RecoverUnmark
  <2>1. results' = results /\ pc' \in {"idle"} \cup Before
    BY <1>1 DEF Recover, RecoverWrite, RecoverUnmark, Exit, Before
  <2> QED BY <1>0, <2>1, BetweenTold DEF Before, OnMutant, TryBlock, FinallyBlock, Past, Baselines
<1>2. CASE Select
  BY <1>2, SelectTold
<1>3. CASE BaselineAll \/ BaselineTest \/ BaselineMark \/ Snapshot
  <2>1. /\ results' = results /\ tree' = tree
        /\ pc \in Baselines /\ pc' \in {"idle", "next"} \cup Baselines /\ (pc' # "idle" => todo' = todo)
    BY <1>3 DEF BaselineAll, BaselineTest, Baseline, BaselineMark, Snapshot, Exit, Baselines
  <2>2. Base' = Base
    BY <2>1 DEF Base, Holding, Marked, Baselines
  <2> QED BY <1>0, <2>1, <2>2, BetweenTold DEF OnMutant, TryBlock, FinallyBlock, Past, Baselines
<1>4. CASE BaselineAppend
  <2>1. ResultsTold'
    BY <1>0, <1>4, ResultsGrowTold DEF ToldInv, BaselineAppend
  <2>2. Base' = Base
    BY <1>4 DEF BaselineAppend, Base, Holding, Marked
  <2> QED BY <1>0, <1>4, <2>1, <2>2, BetweenTold DEF BaselineAppend, OnMutant, TryBlock, FinallyBlock, Past, Baselines
<1>5. CASE NextMutant
  <2>1. CASE pc' = "idle"
    BY <1>0, <1>5, <2>1, BetweenTold DEF NextMutant, OnMutant, TryBlock, FinallyBlock, Past, Baselines
  <2>2. CASE pc' # "idle"
    <3>1. /\ pc = "next" /\ pc' = "mark_open" /\ UNCHANGED <<tree, results, todo>>
          /\ rec' = [test |-> Null, test_all |-> Null] /\ original' = tree[Current]
      BY <1>5, <2>2 DEF NextMutant, Exit, Current
    <3>2. Base' = Base
      <4>1. Current' = Current
        BY <3>1 DEF Current
      <4>2. Base = tree /\ Base' = [tree EXCEPT ![Current] = tree[Current]]
        BY <3>1, <4>1 DEF Base, Holding, Marked
      <4>3. tree = [f \in Files |-> tree[f]]
        BY DEF ToldInv, TreeForm
      <4> QED BY <4>2, <4>3
    <3> QED BY <1>0, <3>1, <3>2 DEF ToldInv, Exported, Restored, Applicable, Mutated, RecordForm, RecordTold, FinallyBlock,
                                    Past
  <2> QED BY <2>1, <2>2
<1>6. CASE MarkOpen \/ MarkWrite \/ Truncate
  <2>1. Base' = Base
    BY <1>6, RewritingKeepsBase DEF MarkOpen, MarkWrite, Truncate, Current, Holding, Marked
  <2> QED BY <1>0, <1>6, <2>1, OnMutantTold DEF MarkOpen, MarkWrite, Truncate, OnMutant, TryBlock, FinallyBlock
<1>7. CASE WriteMutated
  BY <1>7, WriteTold
<1>8. CASE BuildTest \/ BuildTestAll
  BY <1>8, BuildStepTold
<1>9. CASE RestoreTruncate \/ Restore \/ Unmark \/ PruneEntries
  <2>1. CASE RestoreTruncate \/ Restore
    <3>1. Base' = Base
      BY <2>1, RewritingKeepsBase DEF RestoreTruncate, Restore, Current, Holding, Marked
    <3>2. pc' = "unmark" => Restored'
      BY <2>1, RestoreRestores DEF RestoreTruncate
    <3> QED BY <1>0, <2>1, <3>1, <3>2, OnMutantTold DEF RestoreTruncate, Restore, OnMutant, TryBlock, FinallyBlock
  <2>2. CASE Unmark \/ PruneEntries
    <3>1. Base' = Base
      BY <2>2 DEF ToldInv, Restored, Unmark, PruneEntries, Base, Holding, Marked
    <3> QED BY <1>0, <2>2, <3>1, OnMutantTold DEF Unmark, PruneEntries, OnMutant, TryBlock, FinallyBlock
  <2> QED BY <1>9, <2>1, <2>2
<1>10. CASE PruneManifests
  <2>1. CASE pc' = "idle"
    BY <1>0, <1>10, <2>1, BetweenTold DEF PruneManifests, OnMutant, TryBlock, FinallyBlock, Past, Baselines
  <2>2. CASE pc' # "idle"
    <3>1. Base' = Base
      BY <1>10, <2>2 DEF PruneManifests, Exit, Base, Holding, Marked
    <3> QED BY <1>0, <1>10, <2>2, <3>1, OnMutantTold DEF PruneManifests, Exit, OnMutant, TryBlock, FinallyBlock
  <2> QED BY <2>1, <2>2
<1>11. CASE AppendResult
  BY <1>11, AppendTold
<1> QED BY <1>1, <1>2, <1>3, <1>4, <1>5, <1>6, <1>7, <1>8, <1>9, <1>10, <1>11 DEF DriverStep

LEMMA NextTold == TypeInv /\ CacheInv /\ ToldInv /\ [Next]_vars => ToldInv'
<1> SUFFICES ASSUME TypeInv, CacheInv, ToldInv, [Next]_vars PROVE ToldInv'
  OBVIOUS
<1> USE DEF disk, driver, observed
<1>0. TreeForm' /\ truth' = truth /\ (results' = results => ResultsTold')
  BY NextTreeForm, TruthStays, ResultsStayTold DEF ToldInv
<1>1. ASSUME NEW a \in Invocations, Start(a) PROVE ToldInv'
  BY <1>0, <1>1, BetweenTold DEF Start, OnMutant, TryBlock, FinallyBlock, Past, Baselines
<1>2. ASSUME NEW a \in Invocations, Check(a) \/ cmd_report(a) PROVE ToldInv'
  BY <1>2, FrameTold DEF Check, cmd_report
<1>3. CASE DriverStep
  BY <1>3, DriverTold
<1>4. CASE Interrupt
  <2>1. CASE pc \in TryBlock
    <3>1. halfPruned' = halfPruned
      BY <1>4, <2>1 DEF Interrupt, Stop, TryBlock, TypeInv, Held
    <3>2. Base' = Base
      BY <1>4, <2>1, RewritingKeepsBase DEF Interrupt, TryBlock, Holding, Marked
    <3> QED BY <1>0, <1>4, <2>1, <3>1, <3>2, OnMutantTold DEF Interrupt, OnMutant, TryBlock, FinallyBlock
  <2>2. CASE pc \notin TryBlock
    BY <1>0, <1>4, <2>2, BetweenTold DEF Interrupt, Exit, OnMutant, TryBlock, FinallyBlock, Past, Baselines
  <2> QED BY <2>1, <2>2
<1>5. CASE Kill
  BY <1>0, <1>5, BetweenTold DEF Kill, Exit, OnMutant, TryBlock, FinallyBlock, Past, Baselines
<1>6. CASE OrphanEnds
  BY <1>6, FrameTold DEF OrphanEnds
<1>7. CASE DeleteCache
  BY <1>0, <1>7, BetweenTold DEF DeleteCache, OnMutant, TryBlock, FinallyBlock, Past, Baselines
<1>8. CASE UNCHANGED vars
  BY <1>8, FrameTold DEF vars
<1> QED BY <1>1, <1>2, <1>3, <1>4, <1>5, <1>6, <1>7, <1>8 DEF Next

-----------------------------------------------------------------------------
(* What the analysis makes of a build's output. *)

BehaviourSet == [errors : {"none", "lib", "compliance"}, fails : SUBSET SUITES, hangs : SUBSET SUITES]
Steps == {"test", "test_all"}

LEMMA SuitesAre ==
  /\ DOMAIN RUN_TESTS["test"] = 1..2 /\ DOMAIN RUN_TESTS["test_all"] = 1..3 /\ DOMAIN DIGEST_RUNS = 1..3
  /\ ToSet(RUN_TESTS["test"]) = {"unit", "cli"} /\ ToSet(RUN_TESTS["test_all"]) = {"unit", "cli", "compliance"}
  /\ ToSet(DIGEST_RUNS) = {"digests", "digests_nocache", "digests_runtime"}
  /\ SuitesOf("test") = {"unit", "cli"} /\ SuitesOf("test_all") = SUITES
<1>1. RUN_TESTS["test"] = <<"unit", "cli">> /\ RUN_TESTS["test_all"] = <<"unit", "cli", "compliance">>
  BY DEF RUN_TESTS
<1>2. 1..2 = {1, 2} /\ 1..3 = {1, 2, 3}
  OBVIOUS
<1>3. DOMAIN <<"unit", "cli">> = 1..2 /\ DOMAIN <<"unit", "cli", "compliance">> = 1..3 /\ DOMAIN DIGEST_RUNS = 1..3
  BY DEF DIGEST_RUNS
<1>4. ToSet(RUN_TESTS["test"]) = {"unit", "cli"}
  BY <1>1, <1>2, <1>3 DEF ToSet
<1>5. ToSet(RUN_TESTS["test_all"]) = {"unit", "cli", "compliance"}
  BY <1>1, <1>2, <1>3 DEF ToSet
<1>6. ToSet(DIGEST_RUNS) = {"digests", "digests_nocache", "digests_runtime"}
  <2>1. ToSet(DIGEST_RUNS) = {DIGEST_RUNS[i] : i \in {1, 2, 3}}
    BY <1>2, <1>3 DEF ToSet
  <2>2. DIGEST_RUNS[1] = "digests" /\ DIGEST_RUNS[2] = "digests_nocache" /\ DIGEST_RUNS[3] = "digests_runtime"
    BY DEF DIGEST_RUNS
  <2> QED BY <2>1, <2>2
<1> QED BY <1>1, <1>3, <1>4, <1>5, <1>6 DEF SuitesOf, SUITES

\* The words that build prints after a suite's name, and whether they say that it failed.
WordsOf(b) == [s \in SUITES |-> IF b.errors = "lib" \/ (b.errors = "compliance" /\ s = "compliance")
                                THEN {"transitive", "failure"}
                                ELSE IF s \in b.fails THEN {"failure"} ELSE {"pass"}]
Shown(b, s) == b.errors = "lib" \/ (b.errors = "compliance" /\ s = "compliance") \/ s \in b.fails
\* The suites that ran and failed.
Ran(step, b) == IF b.errors = "lib" THEN {}
                ELSE (b.fails \cap SuitesOf(step)) \ (IF Compiles(step, b) THEN {} ELSE {"compliance"})

LEMMA WordsSay ==
  ASSUME NEW b, NEW s \in SUITES
  PROVE  /\ WordsOf(b)[s] \in SUBSET {"transitive", "failure", "pass", "skipped"}
         /\ step_state(WordsOf(b)[s]) = IF Shown(b, s) THEN "FAIL" ELSE "pass"
  BY DEF WordsOf, Shown, step_state

LEMMA NamedWords ==
  ASSUME NEW names, NEW w
  PROVE  Named(names, [i \in DOMAIN names |-> w[names[i]]]) = {<<s, step_state(w[s])>> : s \in ToSet(names)}
  BY DEF Named, ToSet

\* What a finished build prints, field by field.
Prints(out, step, b) ==
  /\ out.rc = (IF Compiles(step, b) /\ Ran(step, b) = {} THEN 0 ELSE 1)
  /\ out.timed_out = FALSE /\ out.errors = ~ Compiles(step, b)
  /\ out.failing = {Prefix(s) : s \in Ran(step, b) \ ToSet(DIGEST_RUNS)}
  /\ out.tree = [i \in DOMAIN RUN_TESTS[step] |-> WordsOf(b)[RUN_TESTS[step][i]]]
  /\ out.digests = IF step = "test" THEN <<>> ELSE [i \in DOMAIN DIGEST_RUNS |-> WordsOf(b)[DIGEST_RUNS[i]]]
  /\ out.cmds = Ran(step, b) \cap ToSet(DIGEST_RUNS)
  /\ out.tree # NoSummary /\ Len(out.tree) = Len(RUN_TESTS[step])

LEMMA FinishedIs ==
  ASSUME NEW step \in Steps, NEW b
  PROVE  Prints(Finished(step, b), step, b)
<1> DEFINE out == Finished(step, b)
<1>1. \A i \in DOMAIN RUN_TESTS[step] : RUN_TESTS[step][i] \in SUITES
  BY SuitesAre DEF ToSet, SUITES, Steps
<1>2. \A i \in DOMAIN DIGEST_RUNS : DIGEST_RUNS[i] \in SUITES
  BY SuitesAre DEF ToSet, SUITES
<1>3. out.tree = [i \in DOMAIN RUN_TESTS[step] |-> WordsOf(b)[RUN_TESTS[step][i]]]
  BY <1>1 DEF Finished, WordsOf
<1>4. out.digests = IF step = "test" THEN <<>> ELSE [i \in DOMAIN DIGEST_RUNS |-> WordsOf(b)[DIGEST_RUNS[i]]]
  BY <1>2 DEF Finished, WordsOf
<1>5. \E n \in {2, 3} : /\ DOMAIN RUN_TESTS[step] = 1..n /\ Len(RUN_TESTS[step]) = n
                        /\ out.tree \in [1..n -> SUBSET {"transitive", "failure", "pass", "skipped"}]
  <2>1. \A i \in DOMAIN RUN_TESTS[step] :
          WordsOf(b)[RUN_TESTS[step][i]] \in SUBSET {"transitive", "failure", "pass", "skipped"}
    BY <1>1, WordsSay
  <2>2. PICK n \in {2, 3} : DOMAIN RUN_TESTS[step] = 1..n /\ Len(RUN_TESTS[step]) = n
    BY SuitesAre DEF Steps, RUN_TESTS
  <2> HIDE DEF out
  <2> DEFINE names == RUN_TESTS[step]
             w == WordsOf(b)
  <2>3. /\ out.tree = [i \in DOMAIN names |-> w[names[i]]] /\ DOMAIN names = 1..n
        /\ \A i \in DOMAIN names : w[names[i]] \in SUBSET {"transitive", "failure", "pass", "skipped"}
    BY <1>3, <2>1, <2>2
  <2> HIDE DEF names, w
  <2>4. out.tree \in [1..n -> SUBSET {"transitive", "failure", "pass", "skipped"}]
    BY <2>3
  <2> QED BY <2>2, <2>4
<1>6. out.tree # NoSummary /\ Len(out.tree) = Len(RUN_TESTS[step])
  <2> HIDE DEF out
  <2>1. PICK n \in {2, 3} : /\ Len(RUN_TESTS[step]) = n
                            /\ out.tree \in [1..n -> SUBSET {"transitive", "failure", "pass", "skipped"}]
    BY <1>5
  <2>2. Len(out.tree) = n
    BY <2>1, LenProperties, SeqDef
  <2> QED BY <2>1, <2>2, SummaryType
<1>7. /\ out.rc = (IF Compiles(step, b) /\ Ran(step, b) = {} THEN 0 ELSE 1)
      /\ out.timed_out = FALSE /\ out.errors = ~ Compiles(step, b)
      /\ out.failing = {Prefix(s) : s \in Ran(step, b) \ ToSet(DIGEST_RUNS)}
      /\ out.cmds = Ran(step, b) \cap ToSet(DIGEST_RUNS)
  BY DEF Finished, Ran
<1> HIDE DEF out
<1>8. Prints(out, step, b)
  BY <1>3, <1>4, <1>6, <1>7 DEF Prints
<1> QED BY <1>8 DEF out

\* A suite is recorded as failed when its words say so, and only then.
LEMMA FinishedStates ==
  ASSUME NEW step \in Steps, NEW b \in BehaviourSet
  PROVE  SuiteStates(step, Finished(step, b))
           = {<<s, IF Shown(b, s) THEN "FAIL" ELSE "pass">> : s \in SuitesOf(step)}
<1> DEFINE out == Finished(step, b)
           ran == Ran(step, b)
           w == WordsOf(b)
           cmds == IF step = "test_all" THEN out.cmds ELSE {}
           digests == IF step = "test_all" THEN Named(DIGEST_RUNS, out.digests) ELSE {}
<1>0. Prints(out, step, b)
  BY FinishedIs
<1> HIDE DEF out
<1>1. /\ out.tree # NoSummary /\ out.cmds = ran \cap ToSet(DIGEST_RUNS)
      /\ out.tree = [i \in DOMAIN RUN_TESTS[step] |-> w[RUN_TESTS[step][i]]]
      /\ out.digests = IF step = "test" THEN <<>> ELSE [i \in DOMAIN DIGEST_RUNS |-> w[DIGEST_RUNS[i]]]
  BY <1>0 DEF Prints
<1> HIDE DEF ran, w
<1>2. Named(RUN_TESTS[step], out.tree) = {<<s, step_state(w[s])>> : s \in ToSet(RUN_TESTS[step])}
  <2> DEFINE names == RUN_TESTS[step]
  <2>1. out.tree = [i \in DOMAIN names |-> w[names[i]]]
    BY <1>1
  <2> HIDE DEF names
  <2>2. Named(names, [i \in DOMAIN names |-> w[names[i]]]) = {<<s, step_state(w[s])>> : s \in ToSet(names)}
    BY NamedWords
  <2>3. Named(names, out.tree) = {<<s, step_state(w[s])>> : s \in ToSet(names)}
    BY <2>1, <2>2
  <2> QED BY <2>3 DEF names
<1>3. digests = {<<s, step_state(w[s])>> : s \in SuitesOf(step) \ ToSet(RUN_TESTS[step])}
  <2>1. CASE step = "test"
    BY <2>1, SuitesAre
  <2>2. CASE step = "test_all"
    <3>0. out.digests = [i \in DOMAIN DIGEST_RUNS |-> w[DIGEST_RUNS[i]]]
      BY <1>1, <2>2
    <3>1. Named(DIGEST_RUNS, out.digests) = {<<s, step_state(w[s])>> : s \in ToSet(DIGEST_RUNS)}
      BY <3>0, NamedWords
    <3>2. SuitesOf(step) \ ToSet(RUN_TESTS[step]) = ToSet(DIGEST_RUNS)
      BY <2>2, SuitesAre DEF SUITES
    <3> QED BY <2>2, <3>1, <3>2
  <2> QED BY <2>1, <2>2 DEF Steps
<1>4. SuiteStates(step, out) = {p \in Named(RUN_TESTS[step], out.tree) \cup digests : p[1] \notin cmds}
                                 \cup {<<s, "FAIL">> : s \in cmds}
  BY <1>1 DEF SuiteStates, parse_tree
<1>5. ToSet(RUN_TESTS[step]) \subseteq SuitesOf(step) /\ SuitesOf(step) \subseteq SUITES
  BY SuitesAre DEF Steps, SUITES
<1>6. \A s \in SuitesOf(step) : step_state(w[s]) = IF Shown(b, s) THEN "FAIL" ELSE "pass"
  BY <1>5, WordsSay DEF w
<1>7. \A s \in cmds : s \in SuitesOf(step) /\ Shown(b, s)
  BY <1>1 DEF ran, Ran, Shown
<1> HIDE DEF cmds, digests
<1>8. Named(RUN_TESTS[step], out.tree) \cup digests = {<<s, IF Shown(b, s) THEN "FAIL" ELSE "pass">> : s \in SuitesOf(step)}
  BY <1>2, <1>3, <1>5, <1>6
<1>9. SuiteStates(step, out) = {<<s, IF Shown(b, s) THEN "FAIL" ELSE "pass">> : s \in SuitesOf(step)}
  BY <1>4, <1>7, <1>8
<1> QED BY <1>9 DEF out

LEMMA FailsShown ==
  ASSUME NEW step \in Steps, NEW b \in BehaviourSet, NEW s
  PROVE  <<s, "FAIL">> \in SuiteStates(step, Finished(step, b)) <=> s \in SuitesOf(step) /\ Shown(b, s)
  BY FinishedStates

\* A build of a source that does not compile, that fails a suite of the step, and that fails none.
LEMMA FinishedStatus ==
  ASSUME NEW step \in Steps, NEW b \in BehaviourSet
  PROVE  LET a == analyse(step, Finished(step, b))
         IN  /\ a.status = IF ~ Compiles(step, b) THEN "COMPILE_ERROR"
                           ELSE IF b.fails \cap SuitesOf(step) = {} THEN "SURVIVED" ELSE "KILLED"
             /\ Compiles(step, b) => \A s : <<s, "FAIL">> \in a.suites => s \in b.fails
             /\ ~ a.warnings
<1> DEFINE out == Finished(step, b)
           states == SuiteStates(step, out)
<1>1. analyse(step, out) = [status |-> StatusOf(states, out), suites |-> states, warnings |-> Warned(step, out)]
  BY DEF analyse
<1>0. Prints(out, step, b)
  BY FinishedIs
<1> HIDE DEF out
<1>2. /\ out.rc = (IF Compiles(step, b) /\ Ran(step, b) = {} THEN 0 ELSE 1)
      /\ out.timed_out = FALSE /\ out.errors = ~ Compiles(step, b)
      /\ out.failing = {Prefix(s) : s \in Ran(step, b) \ ToSet(DIGEST_RUNS)}
      /\ out.digests = IF step = "test" THEN <<>> ELSE [i \in DOMAIN DIGEST_RUNS |-> WordsOf(b)[DIGEST_RUNS[i]]]
      /\ out.cmds = Ran(step, b) \cap ToSet(DIGEST_RUNS)
      /\ out.tree # NoSummary /\ Len(out.tree) = Len(RUN_TESTS[step])
  BY <1>0 DEF Prints
<1>3. \A s : <<s, "FAIL">> \in states <=> s \in SuitesOf(step) /\ Shown(b, s)
  BY FailsShown DEF out
<1>4. SuitesOf(step) \subseteq SUITES /\ b.fails \subseteq SUITES
  BY SuitesAre DEF Steps, SUITES, BehaviourSet
<1>5. Compiles(step, b) => b.errors # "lib" /\ (b.errors = "compliance" => "compliance" \notin SuitesOf(step))
  BY SuitesAre DEF Compiles
<1> HIDE DEF states
<1>6. StatusOf(states, out) = IF ~ Compiles(step, b) THEN "COMPILE_ERROR"
                              ELSE IF b.fails \cap SuitesOf(step) = {} THEN "SURVIVED" ELSE "KILLED"
  <2>1. CASE ~ Compiles(step, b)
    BY <1>2, <2>1 DEF StatusOf
  <2>2. CASE Compiles(step, b)
    <3>1. Ran(step, b) = b.fails \cap SuitesOf(step)
      BY <1>5, <2>2 DEF Ran
    <3>2. CASE Ran(step, b) = {}
      BY <1>2, <2>2, <3>1, <3>2 DEF StatusOf
    <3>3. CASE Ran(step, b) # {}
      <4>1. \E s \in SUITES : <<s, "FAIL">> \in states
        BY <1>3, <1>4, <3>1, <3>3 DEF Shown
      <4>2. out.timed_out = FALSE /\ out.errors = FALSE /\ out.rc = 1
        BY <1>2, <2>2, <3>3
      <4>3. StatusOf(states, out) = "KILLED"
        BY <4>1, <4>2 DEF StatusOf
      <4> QED BY <2>2, <3>1, <3>3, <4>3
    <3> QED BY <3>2, <3>3
  <2> QED BY <2>1, <2>2
<1>7. Compiles(step, b) => \A s : <<s, "FAIL">> \in states => s \in b.fails
  BY <1>3, <1>5 DEF Shown
<1>8. ~ Warned(step, out)
  <2>1. ASSUME step = "test_all", NEW s \in out.cmds
        PROVE  <<s, "FAIL">> \in Named(DIGEST_RUNS, parse_tree(out).digests)
    <3>0. parse_tree(out).digests = [i \in DOMAIN DIGEST_RUNS |-> WordsOf(b)[DIGEST_RUNS[i]]]
      BY <1>2, <2>1 DEF parse_tree
    <3>1. Named(DIGEST_RUNS, parse_tree(out).digests) = {<<d, step_state(WordsOf(b)[d])>> : d \in ToSet(DIGEST_RUNS)}
      BY <3>0, NamedWords
    <3>2. s \in ToSet(DIGEST_RUNS) /\ s \in SUITES /\ Shown(b, s)
      BY <1>2, <1>4, <2>1 DEF Ran, Shown
    <3>3. step_state(WordsOf(b)[s]) = "FAIL"
      BY <3>2, WordsSay
    <3> QED BY <3>1, <3>2, <3>3
  <2>2. ASSUME NEW p \in out.failing PROVE <<suite_of_test(p), "FAIL">> \in states
    <3>1. PICK s \in Ran(step, b) \ ToSet(DIGEST_RUNS) : p = Prefix(s)
      BY <1>2, <2>2
    <3>2. s \in {"unit", "cli", "compliance"} /\ s \in SuitesOf(step) /\ Shown(b, s)
      BY <1>4, <3>1, SuitesAre DEF Ran, SUITES, Shown
    <3>3. suite_of_test(Prefix(s)) = s
      BY <3>2 DEF suite_of_test, Prefix
    <3> QED BY <1>3, <3>1, <3>2, <3>3
  <2> QED BY <1>2, <2>1, <2>2 DEF Warned, states
<1> QED BY <1>1, <1>6, <1>7, <1>8 DEF out

\* A build that was killed tells that it was.
LEMMA KilledStatus ==
  ASSUME NEW step \in Steps, NEW b
  PROVE  LET a == analyse(step, Killed(b))
         IN  a.status = "TIMEOUT" /\ a.suites = {} /\ ~ a.warnings
<1> DEFINE out == Killed(b)
<1>1. out.timed_out = TRUE /\ out.tree = NoSummary /\ out.failing = {}
  BY DEF Killed
<1> HIDE DEF out
<1>2. parse_tree(out) = [tests |-> <<>>, digests |-> <<>>]
  BY <1>1 DEF parse_tree
<1>3. \A names : Named(names, <<>>) = {}
  BY DEF Named
<1>4. SuiteStates(step, out) = {}
  BY <1>1, <1>2, <1>3 DEF SuiteStates
<1>5. ~ Warned(step, out)
  BY <1>1 DEF Warned
<1> QED BY <1>1, <1>4, <1>5 DEF analyse, StatusOf, out

-----------------------------------------------------------------------------
(* The verdict on a mutant. *)

Either(b) == b.errors = "compliance" /\ b.fails \cap SuitesOf("test") # {}

\* What the two builds of a source, and the verdict on them, say about it.
LEMMA VerdictSays ==
  ASSUME NEW b \in BehaviourSet, NEW test, NEW test_all, Tells("test", b, test), Tells("test_all", b, test_all)
  PROVE  /\ overall_status(test, test_all) \in {"KILLED", "SURVIVED", "COMPILE_ERROR", "TIMEOUT", "ERROR"}
         /\ overall_status(test, test_all) = "KILLED" =>
              /\ b.errors # "lib" /\ b.fails # {} /\ (b.errors = "none" \/ Either(b))
              /\ \A s : <<s, "FAIL">> \in test_all.suites => s \in b.fails
              /\ test.status = "SURVIVED" => b.fails \cap SuitesOf("test") = {}
         /\ overall_status(test, test_all) = "SURVIVED" => b = Passing
         /\ overall_status(test, test_all) = "COMPILE_ERROR" => b.errors # "none"
         /\ overall_status(test, test_all) = "ERROR" => test.status = "TIMEOUT"
         /\ overall_status(test, test_all) \notin {"TIMEOUT", "ERROR"} =>
              /\ b.errors = "none" /\ b.fails # {} => overall_status(test, test_all) = "KILLED"
              /\ b = Passing => overall_status(test, test_all) = "SURVIVED"
              /\ b.errors # "none" /\ ~ Either(b) => overall_status(test, test_all) = "COMPILE_ERROR"
              /\ Either(b) => overall_status(test, test_all) \in {"KILLED", "COMPILE_ERROR"}
         /\ ~ test.warnings /\ ~ test_all.warnings
<1> DEFINE unit == b.fails \cap SuitesOf("test")
           Status(step, a) == a.status = IF ~ Compiles(step, b) THEN "COMPILE_ERROR"
                                         ELSE IF b.fails \cap SuitesOf(step) = {} THEN "SURVIVED" ELSE "KILLED"
<1>1. "test" \in Steps /\ "test_all" \in Steps
  BY DEF Steps
<1>2. ASSUME NEW step \in Steps, NEW a, Tells(step, b, a)
      PROVE  /\ \/ ~ Hangs(step, b) /\ Status(step, a)
                \/ a.status = "TIMEOUT"
             /\ a.status # "COMPILE_ERROR" => \A s : <<s, "FAIL">> \in a.suites => s \in b.fails
             /\ ~ a.warnings
  <2>1. CASE ~ Hangs(step, b) /\ a = analyse(step, Finished(step, b))
    BY <2>1, FinishedStatus
  <2>2. CASE a = analyse(step, Killed(b))
    BY <2>2, KilledStatus
  <2> QED BY <1>2, <2>1, <2>2 DEF Tells
<1>3. /\ ~ test.warnings /\ ~ test_all.warnings
      /\ (~ Hangs("test", b) /\ Status("test", test)) \/ test.status = "TIMEOUT"
      /\ (~ Hangs("test_all", b) /\ Status("test_all", test_all)) \/ test_all.status = "TIMEOUT"
      /\ test_all.status # "COMPILE_ERROR" => \A s : <<s, "FAIL">> \in test_all.suites => s \in b.fails
  BY <1>1, <1>2
<1>4. b.fails \cap SuitesOf("test_all") = b.fails /\ b.hangs \cap SuitesOf("test_all") = b.hangs
  BY SuitesAre DEF BehaviourSet
<1>5. b.errors \in {"none", "lib", "compliance"}
  BY DEF BehaviourSet
<1>6. b = Passing <=> b.errors = "none" /\ b.fails = {} /\ b.hangs = {}
  BY DEF BehaviourSet, Passing
<1>7. /\ Compiles("test", b) <=> b.errors # "lib"
      /\ Compiles("test_all", b) <=> b.errors = "none"
  BY <1>5 DEF Compiles
<1>8. Hangs("test_all", b) <=> b.errors = "none" /\ b.hangs # {}
  BY <1>4, <1>7 DEF Hangs
<1>9. \/ test.status = "TIMEOUT"
      \/ test.status = "COMPILE_ERROR" /\ b.errors = "lib"
      \/ test.status = "SURVIVED" /\ b.errors # "lib" /\ unit = {}
      \/ test.status = "KILLED" /\ b.errors # "lib" /\ unit # {}
  BY <1>3, <1>7
<1>10. \/ test_all.status = "TIMEOUT"
       \/ test_all.status = "COMPILE_ERROR" /\ b.errors # "none"
       \/ test_all.status = "SURVIVED" /\ b.errors = "none" /\ b.fails = {} /\ b.hangs = {}
       \/ test_all.status = "KILLED" /\ b.errors = "none" /\ b.fails # {}
  BY <1>3, <1>4, <1>7, <1>8
<1>11. unit # {} => b.fails # {}
  OBVIOUS
<1>12. Either(b) <=> b.errors = "compliance" /\ unit # {}
  BY DEF Either
<1> HIDE DEF unit
<1>13. overall_status(test, test_all) =
         IF "COMPILE_ERROR" \in {test.status, test_all.status} THEN "COMPILE_ERROR"
         ELSE IF test_all.status = "TIMEOUT" /\ test.status = "KILLED" THEN "KILLED"
         ELSE IF test_all.status = "SURVIVED" /\ test.status # "SURVIVED" THEN "ERROR"
         ELSE test_all.status
  BY DEF overall_status
<1> DEFINE o == overall_status(test, test_all)
<1> HIDE DEF o
<1>14. /\ o \in {"KILLED", "SURVIVED", "COMPILE_ERROR", "TIMEOUT", "ERROR"}
       /\ o = "KILLED" => /\ b.errors # "lib" /\ b.fails # {} /\ (b.errors = "none" \/ Either(b))
                          /\ test_all.status # "COMPILE_ERROR"
                          /\ test.status = "SURVIVED" => unit = {}
       /\ o = "SURVIVED" => b = Passing
       /\ o = "COMPILE_ERROR" => b.errors # "none"
       /\ o = "ERROR" => test.status = "TIMEOUT"
  BY <1>5, <1>6, <1>9, <1>10, <1>11, <1>12, <1>13 DEF o
<1>15. o \notin {"TIMEOUT", "ERROR"} => /\ b.errors = "none" /\ b.fails # {} => o = "KILLED"
                                        /\ b = Passing => o = "SURVIVED"
                                        /\ b.errors # "none" /\ ~ Either(b) => o = "COMPILE_ERROR"
                                        /\ Either(b) => o \in {"KILLED", "COMPILE_ERROR"}
  BY <1>5, <1>6, <1>9, <1>10, <1>11, <1>12, <1>13 DEF o
<1> QED BY <1>3, <1>14, <1>15 DEF o, unit

LEMMA ToldBehaves ==
  ASSUME TruthType, NEW r, Told(r)
  PROVE  BehaviourOfResult(r) \in BehaviourSet
<1>1. BehaviourOfResult(r) \in Behaviours
  BY DEF TruthType, Told, BehaviourOfResult
<1> QED BY <1>1, BehaviourType DEF BehaviourSet

LEMMA ToldTrue == TypeInv /\ ToldInv => VerdictsTrue
<1> SUFFICES ASSUME TypeInv, ToldInv, NEW r \in MutantResults, r.clean
             PROVE  LET b == BehaviourOfResult(r)
                    IN  /\ r.status = "KILLED" => b.errors # "lib" /\ b.fails # {}
                        /\ r.status = "SURVIVED" => b = Passing
                        /\ r.status = "COMPILE_ERROR" => b.errors # "none"
                        /\ r.status = "ERROR" => r.test.status = "TIMEOUT"
                        /\ r.status = "KILLED" => failed_suites(r) \subseteq b.fails
                        /\ ~ r.test.warnings /\ ~ r.test_all.warnings
  BY DEF VerdictsTrue
<1> DEFINE b == BehaviourOfResult(r)
<1>1. Told(r)
  BY DEF ToldInv, ResultsTold
<1>2. b \in BehaviourSet
  BY <1>1, ToldBehaves DEF TypeInv
<1>3. Tells("test", b, r.test) /\ Tells("test_all", b, r.test_all) /\ r.status = overall_status(r.test, r.test_all)
  BY <1>1 DEF Told
<1> HIDE DEF b
<1>4. /\ r.status = "KILLED" => /\ b.errors # "lib" /\ b.fails # {}
                                /\ \A s : <<s, "FAIL">> \in r.test_all.suites => s \in b.fails
      /\ r.status = "SURVIVED" => b = Passing
      /\ r.status = "COMPILE_ERROR" => b.errors # "none"
      /\ r.status = "ERROR" => r.test.status = "TIMEOUT"
      /\ ~ r.test.warnings /\ ~ r.test_all.warnings
  BY <1>2, <1>3, VerdictSays
<1>5. r.status = "KILLED" => failed_suites(r) \subseteq b.fails
  BY <1>4 DEF failed_suites
<1> QED BY <1>4, <1>5 DEF b

\* Of every run of the driver, over any catalogues, behaviours, caches found in the tree and any number
\* of kills, interrupts, timeouts and resumed runs: a recorded verdict is true of the mutant it names,
\* every suite a kill names fails, and an ERROR comes from a timeout; for every result whose tree without
\* the mutant was the export, and whose cache no driver left half pruned unless --fresh-cache left it
\* aside (run_mutant, analyse, overall_status, check_cache, restore_cache).
THEOREM VerdictsAreTrue == Spec => []VerdictsTrue
<1>1. Init => TypeInv /\ CacheInv /\ ToldInv
  BY InitType, InitCache, InitTold
<1>2. TypeInv /\ CacheInv /\ ToldInv /\ [Next]_vars => (TypeInv /\ CacheInv /\ ToldInv)'
  BY NextType, NextCache, NextTold
<1> QED BY <1>1, <1>2, ToldTrue, PTL DEF Spec

-----------------------------------------------------------------------------
(* The report. *)

LEMMA InitReport == Init => ReportIs
  BY DEF Init, ReportIs

LEMMA NextReport == ReportIs /\ [Next]_vars => ReportIs'
<1> SUFFICES ASSUME ReportIs, [Next]_vars PROVE ReportIs'
  OBVIOUS
<1> USE DEF disk, driver, observed
<1>1. ASSUME NEW a \in Invocations, Start(a) PROVE ReportIs'
  BY <1>1 DEF Start, ReportIs
<1>2. ASSUME NEW a \in Invocations, cmd_report(a) PROVE ReportIs'
  <2>1. /\ report' = [catalogue |-> a.catalogue, printed |-> Report(LastResults(results), Catalogues[a.catalogue])]
        /\ results' = results /\ pc' = "idle"
    BY <1>2 DEF cmd_report
  <2>2. report'.catalogue = a.catalogue /\ report'.printed = Report(LastResults(results), Catalogues[a.catalogue])
    BY <2>1
  <2> QED BY <2>1, <2>2, InvocationType DEF ReportIs
<1>3. ASSUME report' = report, pc = "idle" => UNCHANGED <<pc, results>> PROVE ReportIs'
  BY <1>3 DEF ReportIs
<1>4. ASSUME NEW a \in Invocations, Check(a) PROVE ReportIs'
  BY <1>3, <1>4 DEF Check
<1>5. CASE DriverStep
  <2>1. report' = report /\ pc # "idle"
    BY <1>5 DEF DriverStep, Step, Recover, RecoverWrite, RecoverUnmark, Select, BaselineAll, BaselineTest, BaselineMark,
              BaselineAppend, Snapshot, NextMutant, MarkOpen, MarkWrite, Truncate, WriteMutated, BuildTest,
              BuildTestAll, RestoreTruncate, Restore, Unmark, PruneEntries, PruneManifests, AppendResult
  <2> QED BY <1>3, <2>1
<1>6. CASE Interrupt \/ Kill \/ OrphanEnds \/ DeleteCache
  BY <1>3, <1>6 DEF Interrupt, Kill, Stop, OrphanEnds, DeleteCache
<1>7. CASE UNCHANGED vars
  BY <1>3, <1>7 DEF vars
<1> QED BY <1>1, <1>2, <1>4, <1>5, <1>6, <1>7 DEF Next

LEMMA FiniteImage ==
  ASSUME NEW S, IsFiniteSet(S), NEW f
  PROVE  IsFiniteSet({f[x] : x \in S})
<1> DEFINE T == {f[x] : x \in S}
           g == [x \in S |-> f[x]]
<1>1. g \in Surjection(S, T)
  BY DEF Surjection
<1> HIDE DEF T, g
<1>2. IsFiniteSet(T)
  BY <1>1, FS_Surjection
<1> QED BY <1>2 DEF T

\* One result stands for each mutant.
LEMMA LastOnes ==
  ASSUME Listed
  PROVE  /\ LastResults(results) \subseteq MutantResults /\ IsFiniteSet(LastResults(results))
         /\ \A r, s \in LastResults(results) : r.id = s.id => r = s
<1> DEFINE lines == {k \in DOMAIN results : results[k].kind = "mutant"}
           last == {k \in lines : \A j \in lines : results[j].id = results[k].id => j <= k}
<1>1. LastResults(results) = {results[k] : k \in last}
  BY DEF LastResults
<1>2. PICK R : results \in Seq(R)
  BY DEF Listed
<1>3. Len(results) \in Nat /\ DOMAIN results = 1..Len(results)
  BY <1>2
<1>4. last \subseteq 1..Len(results) /\ IsFiniteSet(1..Len(results))
  BY <1>3, FS_Interval
<1>5. IsFiniteSet(last)
  BY <1>4, FS_Subset
<1>6. \A r \in LastResults(results) : r \in MutantResults
  BY <1>1 DEF MutantResults, ToSet
<1>7. \A r, s \in LastResults(results) : r.id = s.id => r = s
  <2> SUFFICES ASSUME NEW j \in last, NEW k \in last, results[j].id = results[k].id PROVE j = k
    BY <1>1
  <2>1. j \in Nat /\ k \in Nat /\ j <= k /\ k <= j
    BY <1>3, <1>4
  <2> QED BY <2>1
<1> HIDE DEF last
<1>8. IsFiniteSet({results[k] : k \in last})
  BY <1>5, FiniteImage
<1> QED BY <1>1, <1>6, <1>7, <1>8

\* What the verdict of a result that counts says of its mutant, and the other way round.
LEMMA ResultSays ==
  ASSUME TypeInv, ToldInv, NEW r \in MutantResults, r.clean, NEW b, b = BehaviourOfResult(r)
  PROVE  /\ r.status = "KILLED" <=> /\ r.status \notin {"TIMEOUT", "ERROR"}
                                    /\ (b.errors = "none" /\ b.fails # {}) \/ (Either(b) /\ r.status = "KILLED")
         /\ r.status = "SURVIVED" <=> r.status \notin {"TIMEOUT", "ERROR"} /\ b = Passing
         /\ r.status = "COMPILE_ERROR" <=>
              /\ r.status \notin {"TIMEOUT", "ERROR"}
              /\ (b.errors # "none" /\ ~ Either(b)) \/ (Either(b) /\ r.status = "COMPILE_ERROR")
         /\ r.status = "KILLED" /\ r.test.status = "SURVIVED" => b.fails # {} /\ b.fails \cap SuitesOf("test") = {}
<1>1. Told(r)
  BY DEF ToldInv, ResultsTold
<1>2. b \in BehaviourSet
  BY <1>1, ToldBehaves DEF TypeInv
<1>3. Tells("test", b, r.test) /\ Tells("test_all", b, r.test_all) /\ r.status = overall_status(r.test, r.test_all)
  BY <1>1 DEF Told
<1>4. /\ r.status \in {"KILLED", "SURVIVED", "COMPILE_ERROR", "TIMEOUT", "ERROR"}
      /\ r.status = "KILLED" => /\ b.fails # {} /\ (b.errors = "none" \/ Either(b))
                                /\ r.test.status = "SURVIVED" => b.fails \cap SuitesOf("test") = {}
      /\ r.status = "SURVIVED" => b = Passing
      /\ r.status = "COMPILE_ERROR" => b.errors # "none"
      /\ r.status \notin {"TIMEOUT", "ERROR"} =>
           /\ b.errors = "none" /\ b.fails # {} => r.status = "KILLED"
           /\ b = Passing => r.status = "SURVIVED"
           /\ b.errors # "none" /\ ~ Either(b) => r.status = "COMPILE_ERROR"
  BY <1>2, <1>3, VerdictSays
<1> QED BY <1>4

\* The ids of the results of a set that have a status.
IdsOf(recs, status) == {r.id : r \in {x \in recs : x.status = status}}

LEMMA DisjointAdd ==
  ASSUME NEW S, IsFiniteSet(S), NEW T, IsFiniteSet(T), S \cap T = {}
  PROVE  /\ Cardinality(S \cup T) = Cardinality(S) + Cardinality(T)
         /\ Cardinality(S) \in Nat /\ Cardinality(T) \in Nat
<1>1. Cardinality(S \cap T) = 0
  BY FS_EmptySet
<1>2. Cardinality(S) \in Nat /\ Cardinality(T) \in Nat
  BY FS_CardinalityType
<1>3. Cardinality(S \cup T) = Cardinality(S) + Cardinality(T) - Cardinality(S \cap T)
  BY FS_Union
<1>4. Cardinality(S) + Cardinality(T) - 0 = Cardinality(S) + Cardinality(T)
  BY <1>2
<1> QED BY <1>1, <1>2, <1>3, <1>4

\* The items of the report's list are finitely many, each is a result, and each result is one.
LEMMA ItemsFinite ==
  ASSUME NEW recs, IsFiniteSet(recs), NEW c, c.MUTANTS \in Seq(ToSet(c.MUTANTS))
  PROVE  IsFiniteSet(order(recs, c))
<1> DEFINE A == 0..Len(c.MUTANTS)
           f == [x \in A \X recs |-> [at |-> x[1], rec |-> x[2]]]
           T == [at : A, rec : recs]
<1>1. IsFiniteSet(A)
  BY FS_Interval
<1>2. IsFiniteSet(A \X recs)
  BY <1>1, FS_Product
<1>3. T = {f[x] : x \in A \X recs}
  <2>1. ASSUME NEW i \in T PROVE \E x \in A \X recs : f[x] = i
    <3>1. <<i.at, i.rec>> \in A \X recs /\ i = [at |-> i.at, rec |-> i.rec]
      OBVIOUS
    <3>2. f[<<i.at, i.rec>>] = i
      BY <3>1
    <3> QED BY <3>1, <3>2
  <2>2. ASSUME NEW x \in A \X recs PROVE f[x] \in T
    OBVIOUS
  <2> HIDE DEF T, f
  <2>3. T \subseteq {f[x] : x \in A \X recs}
    BY <2>1
  <2>4. {f[x] : x \in A \X recs} \subseteq T
    BY <2>2
  <2> QED BY <2>3, <2>4
<1>4. order(recs, c) \in SUBSET T
  BY DEF order
<1> HIDE DEF T, A, f
<1>5. IsFiniteSet(T)
  BY <1>2, <1>3, FiniteImage
<1> QED BY <1>4, <1>5, FS_Subset

LEMMA ItemsAre ==
  ASSUME NEW recs, NEW c, c.MUTANTS \in Seq(ToSet(c.MUTANTS))
  PROVE  /\ \A i \in order(recs, c) : /\ i = [at |-> i.at, rec |-> i.rec] /\ i.rec \in recs
                                      /\ i.at # 0 => i.at \in DOMAIN c.MUTANTS /\ c.MUTANTS[i.at].id = i.rec.id
                                      /\ i.at = 0 => \A m \in ToSet(c.MUTANTS) : m.id # i.rec.id
         /\ \A k \in DOMAIN c.MUTANTS : \A r \in recs :
              c.MUTANTS[k].id = r.id => [at |-> k, rec |-> r] \in order(recs, c) /\ k # 0
         /\ \A r \in recs : \E i \in order(recs, c) : i.rec = r
<1> DEFINE M == c.MUTANTS
<1>1. Len(M) \in Nat /\ DOMAIN M = 1..Len(M) /\ ToSet(M) = {M[k] : k \in DOMAIN M}
  BY DEF ToSet
<1>2. ASSUME NEW i \in order(recs, c)
      PROVE  /\ i = [at |-> i.at, rec |-> i.rec] /\ i.rec \in recs
             /\ i.at # 0 => i.at \in DOMAIN M /\ M[i.at].id = i.rec.id
             /\ i.at = 0 => \A m \in ToSet(M) : m.id # i.rec.id
  BY <1>1 DEF order
<1>3. ASSUME NEW k \in DOMAIN M, NEW r \in recs, M[k].id = r.id
      PROVE  [at |-> k, rec |-> r] \in order(recs, c) /\ k # 0
  <2> DEFINE i == [at |-> k, rec |-> r]
  <2>1. i \in [at : 0..Len(M), rec : recs] /\ i.at = k /\ i.rec = r /\ k # 0
    BY <1>1
  <2> HIDE DEF i
  <2>2. i \in order(recs, c)
    BY <1>3, <2>1 DEF order
  <2> QED BY <2>1, <2>2 DEF i
<1>4. ASSUME NEW r \in recs PROVE \E i \in order(recs, c) : i.rec = r
  <2>1. CASE \E k \in DOMAIN M : M[k].id = r.id
    BY <1>3, <2>1
  <2>2. CASE \A k \in DOMAIN M : M[k].id # r.id
    <3> DEFINE i == [at |-> 0, rec |-> r]
    <3>1. i \in [at : 0..Len(M), rec : recs] /\ i.at = 0 /\ i.rec = r
      BY <1>1
    <3> HIDE DEF i
    <3>2. i \in order(recs, c)
      BY <1>1, <2>2, <3>1 DEF order
    <3> QED BY <3>1, <3>2
  <2> QED BY <2>1, <2>2
<1> QED BY <1>2, <1>3, <1>4

\* The items and the mutants of a set of results; they are as many if the catalogue lists no id twice.
ItemsOf(recs, c, S) == {i \in order(recs, c) : i.rec \in S}
IdsIn(S) == {r.id : r \in S}

LEMMA OneItemEach ==
  ASSUME NEW recs, IsFiniteSet(recs), \A r, s \in recs : r.id = s.id => r = s,
         NEW c, c.MUTANTS \in Seq(ToSet(c.MUTANTS)), NoIdTwice(c), NEW S \in SUBSET recs
  PROVE  Cardinality(ItemsOf(recs, c, S)) = Cardinality(IdsIn(S)) /\ Cardinality(ItemsOf(recs, c, S)) = Cardinality(S)
<1> DEFINE items == {i \in order(recs, c) : i.rec \in S}
           ids == {r.id : r \in S}
           f == [i \in items |-> i.rec.id]
           g == [i \in items |-> i.rec]
<1>1. \A i \in items : i \in order(recs, c) /\ i.rec \in S /\ i.rec \in recs
  OBVIOUS
<1>2. ASSUME NEW i \in items, NEW j \in items, i.rec.id = j.rec.id PROVE i = j
  <2>1. i.rec = j.rec
    BY <1>1, <1>2
  <2>2. i.at = j.at
    <3> DEFINE M == c.MUTANTS
    <3>1. /\ i.at # 0 => i.at \in DOMAIN M /\ M[i.at].id = i.rec.id
          /\ i.at = 0 => \A k \in DOMAIN M : M[k].id # i.rec.id
          /\ j.at # 0 => j.at \in DOMAIN M /\ M[j.at].id = j.rec.id
          /\ j.at = 0 => \A k \in DOMAIN M : M[k].id # j.rec.id
      <4>1. \A k \in DOMAIN M : M[k] \in ToSet(M)
        BY DEF ToSet
      <4> HIDE DEF M
      <4>2. i \in order(recs, c) /\ j \in order(recs, c)
        BY <1>1
      <4> HIDE DEF items
      <4> QED BY <4>1, <4>2, ItemsAre DEF M
    <3>2. \A k, l \in DOMAIN M : M[k].id = M[l].id => k = l
      BY DEF NoIdTwice
    <3> HIDE DEF M, items
    <3> QED BY <1>2, <3>1, <3>2
  <2>3. i = [at |-> i.at, rec |-> i.rec] /\ j = [at |-> j.at, rec |-> j.rec]
    BY <1>1, ItemsAre
  <2> QED BY <2>1, <2>2, <2>3
<1>3. \A r \in S : \E i \in items : i.rec = r
  <2> SUFFICES ASSUME NEW r \in S PROVE \E i \in items : i.rec = r
    OBVIOUS
  <2>1. PICK i \in order(recs, c) : i.rec = r
    BY ItemsAre
  <2> QED BY <2>1
<1>4. IsFiniteSet(items)
  <2>1. items \in SUBSET order(recs, c)
    OBVIOUS
  <2> HIDE DEF items
  <2> QED BY <2>1, ItemsFinite, FS_Subset
<1> HIDE DEF items
<1>5. f \in Bijection(items, ids)
  <2>1. f \in [items -> ids]
    BY <1>1
  <2>2. \A i, j \in items : f[i] = f[j] => i = j
    BY <1>2
  <2>3. \A x \in ids : \E i \in items : f[i] = x
    BY <1>3
  <2> HIDE DEF f, ids
  <2> QED BY <2>1, <2>2, <2>3 DEF Bijection, Injection, Surjection, IsInjective
<1>6. g \in Bijection(items, S)
  <2>1. g \in [items -> S]
    BY <1>1
  <2>2. \A i, j \in items : g[i] = g[j] => i = j
    BY <1>2
  <2>3. \A x \in S : \E i \in items : g[i] = x
    BY <1>3
  <2> HIDE DEF g
  <2> QED BY <2>1, <2>2, <2>3 DEF Bijection, Injection, Surjection, IsInjective
<1> HIDE DEF f, g, ids
<1>7. Cardinality(items) = Cardinality(ids) /\ Cardinality(items) = Cardinality(S)
  BY <1>4, <1>5, <1>6, FS_Bijection DEF ExistsBijection
<1> QED BY <1>7 DEF items, ids, ItemsOf, IdsIn

\* The counts of the new and of the ported mutants add up to those of all.
LEMMA GroupsAdd ==
  ASSUME NEW items, IsFiniteSet(items), NEW equivalent, NEW N, NEW P, N \cup P = items, N \cap P = {}
  PROVE  /\ summarize(items, equivalent).killed = summarize(N, equivalent).killed + summarize(P, equivalent).killed
         /\ summarize(items, equivalent).denom = summarize(N, equivalent).denom + summarize(P, equivalent).denom
<1> DEFINE E(S) == {i \in OfStatus(S, "SURVIVED") : i.rec.id \in equivalent}
           C(S) == OfStatus(S, "COMPILE_ERROR")
           K(S) == OfStatus(S, "KILLED")
           c(S) == Cardinality(S)
<1>1. ASSUME NEW A, NEW B, A \subseteq N, B \subseteq P
      PROVE  c(A \cup B) = c(A) + c(B) /\ c(A) \in Nat /\ c(B) \in Nat
  <2>1. A \in SUBSET items /\ B \in SUBSET items /\ A \cap B = {}
    BY <1>1
  <2>2. IsFiniteSet(A) /\ IsFiniteSet(B)
    BY <2>1, FS_Subset
  <2> QED BY <2>1, <2>2, DisjointAdd
<1>2. /\ E(items) = E(N) \cup E(P) /\ E(N) \subseteq N /\ E(P) \subseteq P
      /\ C(items) = C(N) \cup C(P) /\ C(N) \subseteq N /\ C(P) \subseteq P
      /\ K(items) = K(N) \cup K(P) /\ K(N) \subseteq N /\ K(P) \subseteq P
  BY DEF OfStatus
<1>3. \A S : summarize(S, equivalent).killed = c(K(S)) /\ summarize(S, equivalent).denom = c(S) - c(E(S)) - c(C(S))
  BY DEF summarize
<1> HIDE DEF E, C, K, c
<1>4. c(items) = c(N) + c(P) /\ c(N) \in Nat /\ c(P) \in Nat
  BY <1>1
<1>5. c(E(items)) = c(E(N)) + c(E(P)) /\ c(E(N)) \in Nat /\ c(E(P)) \in Nat
  BY <1>1, <1>2
<1>6. c(C(items)) = c(C(N)) + c(C(P)) /\ c(C(N)) \in Nat /\ c(C(P)) \in Nat
  BY <1>1, <1>2
<1>7. c(K(items)) = c(K(N)) + c(K(P))
  BY <1>1, <1>2
<1>8. c(items) - c(E(items)) - c(C(items)) = (c(N) - c(E(N)) - c(C(N))) + (c(P) - c(E(P)) - c(C(P)))
  BY <1>4, <1>5, <1>6
<1> QED BY <1>3, <1>7, <1>8

LEMMA ReportIsTrue == TypeInv /\ ToldInv /\ ReportIs => ReportTrue
<1> SUFFICES ASSUME TypeInv, ToldInv, ReportIs, report # Null, \A r \in MutantResults : r.clean PROVE ReportTrue
  BY DEF ReportTrue
<1> DEFINE recs == LastResults(results)
           mod_ == Catalogues[report.catalogue]
           equivalent == mod_.EQUIVALENT
           listed == order(recs, mod_)
           B(r) == BehaviourOfResult(r)
           decided == {r \in recs : r.status \notin {"TIMEOUT", "ERROR"}}
           passing == {r.id : r \in {x \in decided : B(x) = Passing}}
           told(status) == {r.id : r \in {x \in decided : Either(B(x)) /\ x.status = status}}
           failing == {r.id : r \in {x \in decided : B(x).errors = "none" /\ B(x).fails # {}}} \cup told("KILLED")
           stillborn == {r.id : r \in {x \in decided : B(x).errors # "none" /\ ~ Either(B(x))}} \cup told("COMPILE_ERROR")
           late == {r.id : r \in {x \in decided : B(x).fails # {} /\ B(x).fails \cap SuitesOf("test") = {}}}
           p == report.printed
           Printed(items) == {i.rec.id : i \in items}
<1>1. p = Report(recs, mod_) /\ mod_.MUTANTS \in Seq(ToSet(mod_.MUTANTS))
  BY CatalogueType DEF ReportIs
<1>2. /\ recs \subseteq MutantResults /\ IsFiniteSet(recs)
      /\ \A r, s \in recs : r.id = s.id => r = s
  BY LastOnes DEF TypeInv
<1>3. \A r \in recs :
         /\ r.status = "KILLED" <=> /\ r.status \notin {"TIMEOUT", "ERROR"}
                                    /\ (B(r).errors = "none" /\ B(r).fails # {}) \/ (Either(B(r)) /\ r.status = "KILLED")
         /\ r.status = "SURVIVED" <=> r.status \notin {"TIMEOUT", "ERROR"} /\ B(r) = Passing
         /\ r.status = "COMPILE_ERROR" <=>
              /\ r.status \notin {"TIMEOUT", "ERROR"}
              /\ (B(r).errors # "none" /\ ~ Either(B(r))) \/ (Either(B(r)) /\ r.status = "COMPILE_ERROR")
         /\ r.status = "KILLED" /\ r.test.status = "SURVIVED" => B(r).fails # {} /\ B(r).fails \cap SuitesOf("test") = {}
  BY <1>2, ResultSays
<1>4. /\ p.gaps = {i \in OfStatus(listed, "SURVIVED") : i.rec.id \notin equivalent}
      /\ p.contradictions = {r.id : r \in {x \in recs : x.id \in equivalent /\ x.status # "SURVIVED"}}
      /\ p.late = {i \in OfStatus(listed, "KILLED") : i.rec.test.status = "SURVIVED"}
      /\ p.stale = {i \in listed : i.at # 0 /\ by_id(mod_, i.rec.id).edits # i.rec.edits}
      /\ p.all = summarize(listed, equivalent)
      /\ p.new = summarize({i \in listed : i.rec.id \in mod_.new_ids}, equivalent)
      /\ p.ported = summarize({i \in listed : i.rec.id \notin mod_.new_ids}, equivalent)
  BY <1>1 DEF Report
<1> HIDE DEF recs, mod_, B, p
<1>5. \A i \in listed : i.rec \in recs
  BY <1>1, ItemsAre
<1>6. \A r \in recs : \E i \in listed : i.rec = r
  BY <1>1, ItemsAre
<1>7. p.all.killed = p.new.killed + p.ported.killed /\ p.all.denom = p.new.denom + p.ported.denom
  <2> DEFINE N == {i \in listed : i.rec.id \in mod_.new_ids}
             P == {i \in listed : i.rec.id \notin mod_.new_ids}
  <2>1. p.new = summarize(N, equivalent) /\ p.ported = summarize(P, equivalent) /\ p.all = summarize(listed, equivalent)
    BY <1>4
  <2>2. N \cup P = listed /\ N \cap P = {}
    OBVIOUS
  <2>3. IsFiniteSet(listed)
    BY <1>1, <1>2, ItemsFinite
  <2> HIDE DEF N, P, listed, equivalent
  <2>4. /\ summarize(listed, equivalent).killed = summarize(N, equivalent).killed + summarize(P, equivalent).killed
        /\ summarize(listed, equivalent).denom = summarize(N, equivalent).denom + summarize(P, equivalent).denom
    BY <2>2, <2>3, GroupsAdd
  <2> QED BY <2>1, <2>4
<1>8. \A r \in decided : \A m \in {by_id(mod_, x.id) : x \in ToSet(mod_.MUTANTS)} :
         m.id = r.id /\ m.file = r.file /\ r.id \notin Printed(p.stale)
           => BehaviourOfResult(r) = truth.mutants[MutatedText(m)]
  <2> SUFFICES ASSUME NEW r \in decided, NEW x \in ToSet(mod_.MUTANTS), NEW m, m = by_id(mod_, x.id),
                      m.id = r.id, m.file = r.file, r.id \notin Printed(p.stale)
               PROVE  BehaviourOfResult(r) = truth.mutants[MutatedText(m)]
    OBVIOUS
  <2> DEFINE M == mod_.MUTANTS
             same == {i \in DOMAIN M : M[i].id = x.id}
             k == Max(same)
  <2>1. Len(M) \in Nat /\ DOMAIN M = 1..Len(M) /\ r \in recs
    BY <1>1
  <2>2. same \in SUBSET (1..Len(M)) /\ same # {}
    BY <2>1 DEF ToSet
  <2>3. k \in same
    <3> HIDE DEF same
    <3> QED BY <2>1, <2>2, MaxIsIn
  <2>4. m = M[k] /\ k \in DOMAIN M /\ m.id = x.id
    BY <2>3 DEF by_id
  <2> HIDE DEF k
  <2>5. [at |-> k, rec |-> r] \in listed /\ k # 0
    BY <1>1, <2>1, <2>4, ItemsAre
  <2>6. m = by_id(mod_, r.id)
    BY <2>4
  <2>7. m.edits = r.edits
    <3> DEFINE i == [at |-> k, rec |-> r]
    <3>1. i \in listed /\ i.at # 0 /\ i.rec = r
      BY <2>5
    <3> HIDE DEF i, listed
    <3>2. i \notin p.stale
      BY <3>1
    <3> QED BY <1>4, <2>6, <3>1, <3>2
  <2> QED BY <2>7 DEF BehaviourOfResult, MutatedText
<1> HIDE DEF listed
<1>9. IdsOf(recs, "SURVIVED") = passing
  BY <1>3 DEF IdsOf
<1>10. IdsOf(recs, "KILLED") = failing
  BY <1>3 DEF IdsOf
<1>11. IdsOf(recs, "COMPILE_ERROR") = stillborn
  BY <1>3 DEF IdsOf
<1>12. Printed(p.late) \subseteq late
  BY <1>3, <1>4, <1>5 DEF OfStatus
<1>13. p.contradictions = ({r.id : r \in recs} \cap equivalent) \ passing
  <2> HIDE DEF passing, equivalent, failing, stillborn, late, decided
  <2>1. \A r \in recs : r.id \in passing <=> r.status = "SURVIVED"
    BY <1>2, <1>9 DEF IdsOf
  <2> QED BY <1>4, <2>1
<1>14. Printed(p.gaps) = passing \ equivalent
  <2>1. Printed(p.gaps) = IdsOf(recs, "SURVIVED") \ equivalent
    BY <1>4, <1>5, <1>6 DEF OfStatus, IdsOf
  <2> QED BY <1>9, <2>1
<1>15. ASSUME NoIdTwice(mod_)
       PROVE  /\ p.all.total = Cardinality(recs) /\ p.all.killed = Cardinality(failing)
              /\ p.all.denom = Cardinality(recs) - Cardinality(passing \cap equivalent) - Cardinality(stillborn)
  <2> HIDE DEF passing, failing, stillborn, equivalent
  <2>1. ASSUME NEW S \in SUBSET recs
        PROVE  /\ Cardinality({i \in listed : i.rec \in S}) = Cardinality({r.id : r \in S})
               /\ Cardinality({i \in listed : i.rec \in S}) = Cardinality(S)
    <3>1. IsFiniteSet(recs) /\ mod_.MUTANTS \in Seq(ToSet(mod_.MUTANTS)) /\ NoIdTwice(mod_)
      BY <1>1, <1>2, <1>15
    <3>2. \A r, s \in recs : r.id = s.id => r = s
      BY <1>2
    <3>3. /\ Cardinality(ItemsOf(recs, mod_, S)) = Cardinality(IdsIn(S))
          /\ Cardinality(ItemsOf(recs, mod_, S)) = Cardinality(S)
      BY <3>1, <3>2, OneItemEach
    <3>4. ItemsOf(recs, mod_, S) = {i \in listed : i.rec \in S} /\ IdsIn(S) = {r.id : r \in S}
      BY DEF ItemsOf, IdsIn, listed
    <3> QED BY <3>3, <3>4
  <2>2. listed = {i \in listed : i.rec \in recs}
    BY <1>5
  <2>3. Cardinality(listed) = Cardinality(recs)
    BY <2>1, <2>2
  <2>4. ASSUME NEW status PROVE Cardinality(OfStatus(listed, status)) = Cardinality(IdsOf(recs, status))
    <3> DEFINE S == {x \in recs : x.status = status}
    <3>1. OfStatus(listed, status) = {i \in listed : i.rec \in S} /\ IdsOf(recs, status) = {r.id : r \in S}
      BY <1>5 DEF OfStatus, IdsOf
    <3>2. S \in SUBSET recs
      OBVIOUS
    <3> HIDE DEF S
    <3> QED BY <2>1, <3>1, <3>2
  <2>5. Cardinality({i \in OfStatus(listed, "SURVIVED") : i.rec.id \in equivalent}) = Cardinality(passing \cap equivalent)
    <3> DEFINE S == {x \in recs : x.status = "SURVIVED" /\ x.id \in equivalent}
    <3>1. {i \in OfStatus(listed, "SURVIVED") : i.rec.id \in equivalent} = {i \in listed : i.rec \in S}
      BY <1>5 DEF OfStatus
    <3>2. IdsOf(recs, "SURVIVED") \cap equivalent = {r.id : r \in S}
      BY DEF IdsOf
    <3>3. S \in SUBSET recs
      OBVIOUS
    <3> HIDE DEF S
    <3> QED BY <1>9, <2>1, <3>1, <3>2, <3>3
  <2>6. /\ p.all.total = Cardinality(listed) /\ p.all.killed = Cardinality(OfStatus(listed, "KILLED"))
        /\ p.all.denom = Cardinality(listed) - Cardinality({i \in OfStatus(listed, "SURVIVED") : i.rec.id \in equivalent})
                           - Cardinality(OfStatus(listed, "COMPILE_ERROR"))
    BY <1>4 DEF summarize
  <2> QED BY <1>10, <1>11, <2>3, <2>4, <2>5, <2>6
<1> HIDE DEF passing, failing, stillborn, late, equivalent
<1>16. /\ Printed(p.gaps) = passing \ equivalent
       /\ p.contradictions = ({r.id : r \in recs} \cap equivalent) \ passing
       /\ Printed(p.late) \subseteq late
       /\ p.all.killed = p.new.killed + p.ported.killed /\ p.all.denom = p.new.denom + p.ported.denom
  BY <1>7, <1>12, <1>13, <1>14
<1> QED BY <1>8, <1>15, <1>16
        DEF ReportTrue, passing, failing, stillborn, late, equivalent, recs, mod_, B, p, Either

\* Of every run of the driver over any catalogues and behaviours: what cmd_report prints of results that
\* all count agrees with how the mutants behave. Its gaps pass every suite, the EQUIVALENT entries it
\* doubts have no passing result, its two groups add up to the whole, and a decided result it does not
\* call stale is that of the catalogue's mutant of the same file. Of a catalogue that lists no id twice,
\* its score divides the mutants that fail a suite by those that compile and are no equivalent survivors
\* (cmd_report, summarize, latest results).
THEOREM ReportIsTrueOfMutants == Spec => []ReportTrue
<1>1. Init => TypeInv /\ CacheInv /\ ToldInv /\ ReportIs
  BY InitType, InitCache, InitTold, InitReport
<1>2. TypeInv /\ CacheInv /\ ToldInv /\ ReportIs /\ [Next]_vars => (TypeInv /\ CacheInv /\ ToldInv /\ ReportIs)'
  BY NextType, NextCache, NextTold, NextReport
<1> QED BY <1>1, <1>2, ReportIsTrue, PTL DEF Spec

-----------------------------------------------------------------------------
(* --resume. *)

LEMMA NoDuplicates ==
  ASSUME NEW c, c.MUTANTS \in Seq(ToSet(c.MUTANTS)), ~ KeyMissing(c), catalogue_problems(c) = {},
         NEW i \in DOMAIN c.MUTANTS, NEW j \in DOMAIN c.MUTANTS, c.MUTANTS[i].id = c.MUTANTS[j].id
  PROVE  i = j
<1> DEFINE M == c.MUTANTS
<1>1. Len(M) \in Nat /\ DOMAIN M = 1..Len(M)
  OBVIOUS
<1>2. \A k \in DOMAIN M : IdOf(M[k]) = M[k].id
  BY DEF KeyMissing, IdOf, ToSet
<1>3. ASSUME NEW k \in DOMAIN M, NEW l \in DOMAIN M, l < k, M[l].id = M[k].id PROVE FALSE
  <2>1. l \in 1..k - 1
    BY <1>1, <1>3
  <2>2. k \in {x \in DOMAIN M : \E y \in 1..x - 1 : IdOf(M[y]) = IdOf(M[x])}
    BY <1>2, <1>3, <2>1
  <2>3. [kind |-> "duplicate id", at |-> k] \in catalogue_problems(c)
    BY <2>2 DEF catalogue_problems
  <2> QED BY <2>3
<1>4. i \in Int /\ j \in Int /\ ~ (i < j) /\ ~ (j < i)
  BY <1>1, <1>3
<1> QED BY <1>4

LEMMA ResumeFrame ==
  ASSUME ResumeInv, pc' \in Past => pc \in Past /\ UNCHANGED <<todo, args>> /\ MutantResults' = MutantResults
  PROVE  ResumeInv'
  BY DEF ResumeInv, NamedTwice

LEMMA SelectResumes ==
  ASSUME TypeInv, Select, pc' # "idle"
  PROVE  ResumeInv'
<1> SUFFICES ASSUME args.resume
             PROVE  /\ \A k \in DOMAIN todo' :
                         NamedTwice(todo'[k].id) \/ \A r \in MutantResults : r.id = todo'[k].id => r.status = "ERROR"
                    /\ \A j, k \in DOMAIN todo' : j # k /\ todo'[j].id = todo'[k].id => NamedTwice(todo'[k].id)
  <2>1. UNCHANGED <<args, results>>
    BY NotRefused DEF disk
  <2>2. MutantResults' = MutantResults /\ \A id : NamedTwice(id)' <=> NamedTwice(id)
    BY <2>1 DEF MutantResults, NamedTwice
  <2> QED BY <2>1, <2>2 DEF ResumeInv
<1> DEFINE sel == select(mod, args.ids)
           done == done_ids(results)
           n == Len(sel)
<1>1. args \in Invocations /\ UnknownIds(mod, args.ids) = {} /\ todo' = Remaining(sel, done)
  BY NotRefused DEF TypeInv, Held
<1>2. /\ sel \in Seq(ToSet(mod.MUTANTS))
      /\ args.ids # <<>> => DOMAIN sel = DOMAIN args.ids /\ \A k \in DOMAIN args.ids : sel[k].id = args.ids[k]
  BY <1>1, SelectIs
<1>3. /\ args.ids = <<>> => sel = mod.MUTANTS
      /\ mod.MUTANTS \in Seq(ToSet(mod.MUTANTS)) /\ ~ KeyMissing(mod) /\ catalogue_problems(mod) = {}
  BY <1>1, NotRefused, InvocationType, CatalogueType DEF select, mod
<1> HIDE DEF sel, done
<1>4. todo' \in Seq(ToSet(mod.MUTANTS)) /\ Kept(todo', sel, done, n)
  BY <1>1, <1>2, RemainingIs
<1>5. DOMAIN todo' = 1..Len(todo') /\ DOMAIN sel = 1..n
  BY <1>2, <1>4
<1>6. PICK h \in [1..Len(todo') -> 1..n] :
        /\ \A x \in 1..Len(todo') : todo'[x] = sel[h[x]] /\ sel[h[x]].id \notin done
        /\ \A x, y \in 1..Len(todo') : h[x] = h[y] => x = y
  BY <1>4 DEF Kept
<1>7. ASSUME NEW k \in DOMAIN todo', NEW r \in MutantResults, r.id = todo'[k].id PROVE r.status = "ERROR"
  <2>1. r.id \notin done
    BY <1>5, <1>6, <1>7
  <2> QED BY <2>1 DEF done, done_ids, MutantResults
<1>8. ASSUME NEW j \in DOMAIN todo', NEW k \in DOMAIN todo', j # k, todo'[j].id = todo'[k].id
      PROVE  NamedTwice(todo'[k].id)
  <2>1. /\ h[j] \in DOMAIN sel /\ h[k] \in DOMAIN sel /\ h[j] # h[k]
        /\ todo'[j] = sel[h[j]] /\ todo'[k] = sel[h[k]]
    BY <1>5, <1>6, <1>8
  <2>2. CASE args.ids = <<>>
    <3> DEFINE ms == mod.MUTANTS
    <3>1. ms \in Seq(ToSet(ms)) /\ sel = ms
      BY <1>3, <2>2
    <3>2. \A x, y \in DOMAIN ms : ms[x].id = ms[y].id => x = y
      BY <1>3, NoDuplicates
    <3> HIDE DEF ms
    <3> QED BY <1>8, <2>1, <3>1, <3>2
  <2>3. CASE args.ids # <<>>
    BY <1>2, <1>8, <2>1, <2>3 DEF NamedTwice
  <2> QED BY <2>2, <2>3
<1> QED BY <1>7, <1>8

LEMMA AppendResumes ==
  ASSUME TypeInv, ResumeInv, AppendResult
  PROVE  ResumeInv'
<1> DEFINE r == Record(Head(todo))
<1>1. /\ pc \in Past /\ results' = Append(results, r) /\ todo' = Tail(todo) /\ args' = args /\ todo # <<>>
  BY DEF AppendResult, Step, TypeInv, Held, Past, OnMutant
<1>2. PICK S : todo \in Seq(S)
  BY DEF TypeInv, Listed
<1>3. /\ Len(todo) \in Nat /\ DOMAIN todo = 1..Len(todo) /\ DOMAIN todo' = 1..(Len(todo) - 1)
      /\ Head(todo) = todo[1] /\ 1 \in DOMAIN todo
  BY <1>1, <1>2
<1>4. \A k \in DOMAIN todo' : k + 1 \in DOMAIN todo /\ k + 1 # 1 /\ todo'[k] = todo[k + 1]
  BY <1>1, <1>2, <1>3
<1>5. r.id = todo[1].id /\ r.kind = "mutant"
  BY <1>3 DEF Record
<1> HIDE DEF r
<1>6. MutantResults' \subseteq MutantResults \cup {r}
  BY <1>1, ResultsGrow DEF TypeInv, MutantResults
<1>7. \A id : NamedTwice(id)' <=> NamedTwice(id)
  BY <1>1 DEF NamedTwice
<1> SUFFICES ASSUME args.resume
             PROVE  /\ \A k \in DOMAIN todo' :
                         NamedTwice(todo'[k].id) \/ \A x \in MutantResults' : x.id = todo'[k].id => x.status = "ERROR"
                    /\ \A j, k \in DOMAIN todo' : j # k /\ todo'[j].id = todo'[k].id => NamedTwice(todo'[k].id)
  BY <1>1, <1>7 DEF ResumeInv
<1>8. ASSUME NEW k \in DOMAIN todo', ~ NamedTwice(todo'[k].id), NEW x \in MutantResults', x.id = todo'[k].id
      PROVE  x.status = "ERROR"
  <2>1. x # r
    BY <1>1, <1>3, <1>4, <1>5, <1>8 DEF ResumeInv
  <2> QED BY <1>1, <1>4, <1>6, <1>8, <2>1 DEF ResumeInv
<1>9. ASSUME NEW j \in DOMAIN todo', NEW k \in DOMAIN todo', j # k, todo'[j].id = todo'[k].id
      PROVE  NamedTwice(todo'[k].id)
  <2>1. j + 1 # k + 1
    BY <1>3, <1>9
  <2> QED BY <1>1, <1>4, <1>9, <2>1 DEF ResumeInv
<1> QED BY <1>8, <1>9

LEMMA NextResume == TypeInv /\ ResumeInv /\ [Next]_vars => ResumeInv'
<1> SUFFICES ASSUME TypeInv, ResumeInv, [Next]_vars PROVE ResumeInv'
  OBVIOUS
<1> USE DEF disk, driver, observed, Step
<1>0. results' = results => MutantResults' = MutantResults
  BY DEF MutantResults
<1>1. ASSUME NEW a \in Invocations, Start(a) PROVE ResumeInv'
  BY <1>1, ResumeFrame DEF Start, Past, Baselines, OnMutant, TryBlock, FinallyBlock
<1>2. ASSUME NEW a \in Invocations, Check(a) \/ cmd_report(a) PROVE ResumeInv'
  BY <1>0, <1>2, ResumeFrame DEF Check, cmd_report
<1>3. CASE DriverStep
  <2>1. CASE Recover \/ RecoverWrite \/ RecoverUnmark
    <3>1. pc' \notin Past
      BY <2>1 DEF Recover, RecoverWrite, RecoverUnmark, Exit, Past, Baselines, OnMutant, TryBlock, FinallyBlock
    <3> QED BY <3>1, ResumeFrame
  <2>2. CASE Select
    <3>1. CASE pc' = "idle"
      BY <3>1, ResumeFrame DEF Past, Baselines, OnMutant, TryBlock, FinallyBlock
    <3> QED BY <2>2, <3>1, SelectResumes
  <2>3. CASE BaselineAppend
    <3>1. MutantResults' = MutantResults
      BY <2>3, ResultsGrow DEF BaselineAppend, TypeInv, MutantResults
    <3> QED BY <2>3, <3>1, ResumeFrame DEF BaselineAppend, Past, Baselines
  <2>4. CASE AppendResult
    BY <2>4, AppendResumes
  <2>5. CASE BaselineAll \/ BaselineTest \/ NextMutant \/ PruneManifests
    <3>1. /\ results' = results /\ pc \in Past
          /\ pc' = "idle" \/ UNCHANGED <<todo, args>>
      BY <2>5 DEF BaselineAll, BaselineTest, Baseline, NextMutant, PruneManifests, Exit, Past, Baselines, OnMutant,
                  FinallyBlock
    <3>2. "idle" \notin Past
      BY DEF Past, Baselines, OnMutant, TryBlock, FinallyBlock
    <3> QED BY <1>0, <3>1, <3>2, ResumeFrame
  <2>6. CASE \/ BaselineMark \/ Snapshot \/ MarkOpen \/ MarkWrite \/ Truncate \/ WriteMutated \/ BuildTest
             \/ BuildTestAll \/ RestoreTruncate \/ Restore \/ Unmark \/ PruneEntries
    <3>1. results' = results /\ pc \in Past /\ UNCHANGED <<todo, args>>
      BY <2>6 DEF BaselineMark, Snapshot, MarkOpen, MarkWrite, Truncate, WriteMutated, BuildTest, BuildTestAll,
                  RestoreTruncate, Restore, Unmark, PruneEntries, Past, Baselines, OnMutant, TryBlock, FinallyBlock
    <3> QED BY <1>0, <3>1, ResumeFrame
  <2> QED BY <1>3, <2>1, <2>2, <2>3, <2>4, <2>5, <2>6 DEF DriverStep
<1>4. CASE Interrupt \/ Kill
  <2>1. /\ results' = results
        /\ pc' = "idle" \/ (pc \in TryBlock /\ UNCHANGED <<todo, args>>)
    BY <1>4 DEF Interrupt, Kill, Exit
  <2> QED BY <1>0, <2>1, ResumeFrame DEF Past, Baselines, OnMutant, TryBlock, FinallyBlock
<1>5. CASE OrphanEnds \/ DeleteCache
  BY <1>0, <1>5, ResumeFrame DEF OrphanEnds, DeleteCache
<1>6. CASE UNCHANGED vars
  BY <1>0, <1>6, ResumeFrame DEF vars
<1> QED BY <1>1, <1>2, <1>3, <1>4, <1>5, <1>6 DEF Next

\* The results file changes only where a line is appended to it.
LEMMA ResultsChange ==
  ASSUME [Next]_vars, results' # results
  PROVE  BaselineAppend \/ AppendResult
<1> USE DEF disk, driver, observed, Step
<1>1. ASSUME NEW a \in Invocations, Start(a) \/ Check(a) \/ cmd_report(a) PROVE FALSE
  BY <1>1 DEF Start, Check, cmd_report
<1>2. CASE DriverStep
  BY <1>2 DEF DriverStep, Recover, RecoverWrite, RecoverUnmark, Select, BaselineAll, BaselineTest, BaselineMark,
              Snapshot, NextMutant, MarkOpen, MarkWrite, Truncate, WriteMutated, BuildTest,
              BuildTestAll, RestoreTruncate, Restore, Unmark, PruneEntries, PruneManifests
<1>3. CASE Interrupt \/ Kill \/ OrphanEnds \/ DeleteCache
  BY <1>3 DEF Interrupt, Kill, OrphanEnds, DeleteCache
<1> QED BY <1>1, <1>2, <1>3 DEF Next, vars

\* What a step of a resumed run may append, and what it may leave out.
AppendStep ==
  results' # results /\ Last(results').kind = "mutant" =>
    LET id == Last(results').id
    IN  NamedTwice(id) \/ \A r \in MutantResults : r.id = id => r.status = "ERROR"
SelectStep ==
  pc = "select" /\ pc' \notin {"select", "idle"} =>
    \A m \in ToSet(select(mod, args.ids)) \ ToSet(todo') :
      \E r \in MutantResults : r.id = m.id /\ r.status # "ERROR"
ResumeStep == args # Null /\ args.resume => /\ AppendStep
                                            /\ SelectStep

LEMMA NextAppendStep == TypeInv /\ ResumeInv /\ [Next]_vars /\ args.resume => AppendStep
<1> SUFFICES ASSUME TypeInv, ResumeInv, [Next]_vars, args.resume, results' # results, Last(results').kind = "mutant"
             PROVE  \/ NamedTwice(Last(results').id)
                    \/ \A r \in MutantResults : r.id = Last(results').id => r.status = "ERROR"
  BY DEF AppendStep
<1>1. CASE BaselineAppend
  <2>1. Last(results') = [kind |-> "baseline"]
    BY <1>1, ResultsGrow DEF BaselineAppend, TypeInv
  <2> QED BY <2>1
<1>2. CASE AppendResult
  <2>1. Last(results') = Record(Head(todo)) /\ pc \in Past /\ todo # <<>>
    BY <1>2, ResultsGrow DEF AppendResult, Step, TypeInv, Held, Past, OnMutant
  <2>2. PICK S : todo \in Seq(S)
    BY DEF TypeInv, Listed
  <2>3. 1 \in DOMAIN todo /\ Head(todo) = todo[1]
    BY <2>1, <2>2
  <2>4. Last(results').id = todo[1].id
    BY <2>1, <2>3 DEF Record
  <2> QED BY <2>1, <2>3, <2>4 DEF ResumeInv
<1> QED BY <1>1, <1>2, ResultsChange

\* Only Select takes the driver on from there.
LEMMA SelectGoesOn ==
  ASSUME [Next]_vars, pc = "select", pc' \notin {"select", "idle"}
  PROVE  Select
<1> USE DEF disk, driver, observed, Step
<1>1. ASSUME NEW a \in Invocations, Start(a) \/ Check(a) \/ cmd_report(a) PROVE FALSE
  BY <1>1 DEF Start, Check, cmd_report
<1>2. CASE DriverStep
  BY <1>2 DEF DriverStep, Recover, RecoverWrite, RecoverUnmark, BaselineAll, BaselineTest, BaselineMark, BaselineAppend,
              Snapshot, NextMutant, MarkOpen, MarkWrite, Truncate, WriteMutated, BuildTest,
              BuildTestAll, RestoreTruncate, Restore, Unmark, PruneEntries, PruneManifests, AppendResult
<1>3. CASE Interrupt \/ Kill \/ OrphanEnds \/ DeleteCache
  BY <1>3 DEF Interrupt, Kill, Exit, TryBlock, OrphanEnds, DeleteCache
<1> QED BY <1>1, <1>2, <1>3 DEF Next, vars

LEMMA NextSelectStep == TypeInv /\ [Next]_vars /\ args.resume => SelectStep
<1> SUFFICES ASSUME TypeInv, [Next]_vars, args.resume, pc = "select", pc' \notin {"select", "idle"},
                    NEW m \in ToSet(select(mod, args.ids)) \ ToSet(todo')
             PROVE  \E r \in MutantResults : r.id = m.id /\ r.status # "ERROR"
  BY DEF SelectStep
<1> DEFINE sel == select(mod, args.ids)
           done == done_ids(results)
<1>1. Select
  BY SelectGoesOn
<1>2. args \in Invocations /\ UnknownIds(mod, args.ids) = {} /\ todo' = Remaining(sel, done)
  BY <1>1, NotRefused DEF TypeInv, Held
<1>3. sel \in Seq(ToSet(mod.MUTANTS))
  BY <1>2, SelectIs
<1>4. PICK k \in DOMAIN sel : m = sel[k]
  BY DEF ToSet
<1> HIDE DEF sel, done
<1>5. /\ todo' \in Seq(ToSet(mod.MUTANTS)) /\ Covers(todo', sel, done, Len(sel))
      /\ DOMAIN sel = 1..Len(sel) /\ DOMAIN todo' = 1..Len(todo')
  BY <1>2, <1>3, RemainingIs, RemainingCovers
<1>6. m.id \in done
  <2> SUFFICES ASSUME m.id \notin done PROVE FALSE
    OBVIOUS
  <2>1. PICK x \in DOMAIN todo' : todo'[x] = m
    BY <1>4, <1>5 DEF Covers
  <2> QED BY <2>1 DEF ToSet
<1> QED BY <1>6 DEF done, done_ids, MutantResults

LEMMA NextResumeStep == TypeInv /\ ResumeInv /\ [Next]_vars => ResumeStep
  BY NextAppendStep, NextSelectStep DEF ResumeStep

LEMMA InitResume == Init => ResumeInv
  BY DEF Init, ResumeInv, Past, Baselines, OnMutant, TryBlock, FinallyBlock

\* Of every run of the driver over any catalogue and results file: a --resume run appends a result only
\* of a mutant whose earlier results are all ERROR, unless the command line names the mutant twice, and
\* leaves out of the mutants it selects only those with a result other than ERROR (done_ids, select,
\* cmd_run). Catalogue ids are distinct because a run is refused otherwise.
THEOREM ResumeRepeatsNothing == Spec => ResumeExact
<1>1. Init => TypeInv /\ ResumeInv
  BY InitType, InitResume
<1>2. TypeInv /\ ResumeInv /\ [Next]_vars => (TypeInv /\ ResumeInv)' /\ ResumeStep
  BY NextType, NextResume, NextResumeStep
<1>3. ResumeExact <=> [][ResumeStep]_vars
  BY DEF ResumeExact, ResumeStep, AppendStep, SelectStep
<1> QED BY <1>1, <1>2, <1>3, PTL DEF Spec

=============================================================================
