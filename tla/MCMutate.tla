------------------------------ MODULE MCMutate ------------------------------
(***************************************************************************)
(* The mutation driver on a tree of two files. Catalogue "good" has two    *)
(* mutants of the same file, the second with two edits of which the second *)
(* anchors in the text the first one wrote; "newer" has one mutant with    *)
(* other edits under the same id; the others are catalogues the driver     *)
(* must refuse.                                                            *)
(***************************************************************************)
EXTENDS Mutate

Text == [cpu |-> <<"a", "b", "b">>, isa |-> <<"c">>]
E(orig, repl) == [orig |-> orig, repl |-> repl]
M(id, file, edits) == [id |-> id, file |-> file, desc |-> "", edits |-> edits]

m1 == M("P01", "cpu", <<E("a", <<"x">>)>>)
m2 == M("I02", "cpu", <<E("a", <<"y", "z">>), E("z", <<>>)>>)
m3 == M("I02", "isa", <<E("c", <<"d">>)>>)

Catalogue(mutants, equivalent) == [MUTANTS |-> mutants, new_ids |-> {"P01"}, EQUIVALENT |-> equivalent]
MCCatalogues ==
  [good      |-> Catalogue(<<m1, m2>>, {"I02"}),
   newer     |-> Catalogue(<<m1, m3>>, {}),
   twice     |-> Catalogue(<<m1, m1>>, {"P01"}),
   ambiguous |-> Catalogue(<<M("P01", "cpu", <<E("b", <<"x">>)>>)>>, {}),
   nofile    |-> Catalogue(<<M("P01", "csr", <<E("a", <<"x">>)>>)>>, {}),
   noedits   |-> Catalogue(<<M("P01", "cpu", <<>>)>>, {}),
   nokey     |-> Catalogue(<<[id |-> "P01", desc |-> "", edits |-> <<>>]>>, {}),
   noid      |-> Catalogue(<<[file |-> "cpu", desc |-> "", edits |-> <<>>]>>, {})]

A(c, ids, flags) == [catalogue |-> c, ids |-> ids, resume |-> "resume" \in flags, fresh |-> "fresh" \in flags,
                     no_baseline |-> "no_baseline" \in flags, trust |-> "trust" \in flags]
Rejected == DOMAIN MCCatalogues \ {"good", "newer"}
MCInvocations ==
  {A("good", <<>>, {"resume"}), A("good", <<"I02">>, {"fresh"}), A("good", <<"P01", "P01">>, {"trust", "resume"}),
   A("newer", <<"I02">>, {"no_baseline"}), A("good", <<"zz">>, {})} \cup {A(c, <<>>, {}) : c \in Rejected}

B(errors, fails, hangs) == [errors |-> errors, fails |-> fails, hangs |-> hangs]
MCBehaviours == {Passing, B("none", {"unit"}, {}), B("none", {"digests_nocache"}, {}),
                 B("lib", {}, {}), B("compliance", {"unit"}, {}), B("none", {"cli"}, {"compliance"})}
MCPristine == {Passing}
MCCaches == {Null, [mark |-> "other", foreign |-> TRUE, manifest |-> Text, arts |-> {Text}]}

\* Pairs of behaviours in which every behaviour occurs, instead of all pairs.
Pairs == {<<B("none", {"unit"}, {}), Passing>>, <<B("none", {"digests_nocache"}, {}), B("lib", {}, {})>>,
          <<B("compliance", {"unit"}, {}), B("none", {"cli"}, {"compliance"})>>}
MCInit == Init /\ \E p \in Pairs : /\ cache # Null => p[2] = Passing
                                   /\ truth.mutants[<<"x", "b", "b">>] = p[1]
                                   /\ truth.mutants[<<"y", "b", "b">>] = p[2]
                                   /\ truth.mutants[<<"d">>] = p[1]

\* The invocations that differ only before the first mutant are tried first thing; on a tree that
\* was left marked, one refused run and one --check are. The third run continues stopped ones.
Whole == {a \in Invocations : a.ids = <<>> /\ a.catalogue = "good"}
Once(a) == a.catalogue \in Rejected \/ a.ids = <<"zz">>
MCNext == \/ \E a \in Invocations : /\ Once(a) => budget.runs = 0 \/ (marker.state # "none" /\ a.ids = <<"zz">>)
                                    /\ budget.runs = 2 => a \in Whole /\ budget.faults > 0
                                    /\ Start(a)
          \/ \E a \in Invocations : /\ budget.runs = 0 \/ (marker.state # "none" /\ a \in Whole)
                                    /\ Check(a)
          \/ \E a \in Invocations : /\ a \in Whole \/ a.catalogue = "newer"
                                    /\ cmd_report(a)
          \/ DriverStep \/ Interrupt \/ Kill \/ OrphanEnds \/ DeleteCache
MCSpec == MCInit /\ [][MCNext]_vars /\ Fairness

=============================================================================
