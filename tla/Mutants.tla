------------------------------ MODULE Mutants ------------------------------
(***************************************************************************)
(* The mutant catalogue of tools/mutation: its edits, how they apply to a  *)
(* file, and what the driver rejects before it touches the tree.           *)
(*                                                                         *)
(* A file's text is a sequence of fragments. An edit replaces the one      *)
(* fragment orig by the fragments repl; NoText is the empty anchor. A      *)
(* catalogue is a record of the sequence MUTANTS, the set new_ids of the   *)
(* ids in NEW and the set EQUIVALENT of ids.                               *)
(***************************************************************************)
EXTENDS Naturals, Sequences, SequencesExt

CONSTANTS NoText, EditError

Keys == {"id", "file", "desc", "edits"}

\* Places where an anchor occurs; the empty anchor occurs before every fragment and at the end.
Occurrences(text, orig) ==
  IF orig = NoText THEN 1..Len(text) + 1 ELSE {i \in DOMAIN text : text[i] = orig}

\* One edit: its anchor must occur exactly once in the text as it stands.
apply_edit(text, edit) ==
  IF text = EditError \/ Cardinality(Occurrences(text, edit.orig)) # 1 THEN EditError
  ELSE ReplaceSubSeqAt(Min(Occurrences(text, edit.orig)), edit.repl, <<edit.orig>>, text)

apply_edits(text, edits) == FoldLeft(apply_edit, text, edits)

\* A bad edit: the empty anchor, or a replacement equal to it.
BadEdit(edit) == edit.orig = NoText \/ edit.repl = <<edit.orig>>

\* m.get("id", "?") and m.get("edits", []).
IdOf(m) == IF "id" \in DOMAIN m THEN m.id ELSE "?"
EditsOf(m) == IF "edits" \in DOMAIN m THEN m.edits ELSE <<>>

\* What is wrong with the catalogue itself: every problem, with the entry it is in.
catalogue_problems(mod) ==
  LET Entries(P(_)) == {i \in DOMAIN mod.MUTANTS : P(i)}
      m(i) == mod.MUTANTS[i]
      Missing(i) == ~ Keys \subseteq DOMAIN m(i)
      Duplicate(i) == \E j \in 1..i - 1 : IdOf(m(j)) = IdOf(m(i))
      NoEdits(i) == EditsOf(m(i)) = <<>>
      Bad(i) == \E e \in ToSet(EditsOf(m(i))) : BadEdit(e)
  IN  [kind : {"missing key"}, at : Entries(Missing)] \cup [kind : {"duplicate id"}, at : Entries(Duplicate)]
        \cup [kind : {"no edits"}, at : Entries(NoEdits)] \cup [kind : {"bad edit"}, at : Entries(Bad)]
        \cup [kind : {"unknown equivalent"}, at : mod.EQUIVALENT \ {IdOf(m(i)) : i \in DOMAIN mod.MUTANTS}]

\* The problem one mutant has with the tree: no such file, an anchor that is not there exactly
\* once, or edits without effect.
EditsApply(tree, m) ==
  /\ m.file \in DOMAIN tree
  /\ apply_edits(tree[m.file], m.edits) \notin {EditError, tree[m.file]}

validate(tree, mutants) ==
  [kind : {"edits do not apply"}, at : {m.id : m \in {x \in ToSet(mutants) : ~ EditsApply(tree, x)}}]

\* by_id: of two entries with one id the later one stands.
by_id(mod, id) == mod.MUTANTS[Max({i \in DOMAIN mod.MUTANTS : mod.MUTANTS[i].id = id})]

\* select reads m["id"] of every entry, validate m["file"] and then, of a file that is there,
\* m["edits"]: an entry without the key ends the script with a KeyError.
KeyMissing(mod) == \E m \in ToSet(mod.MUTANTS) : "id" \notin DOMAIN m
ValidateRaises(tree, mutants) ==
  \E m \in ToSet(mutants) : "file" \notin DOMAIN m \/ (m.file \in DOMAIN tree /\ "edits" \notin DOMAIN m)

UnknownIds(mod, ids) == {i \in ToSet(ids) : \A m \in ToSet(mod.MUTANTS) : m.id # i}

\* The mutants an invocation names, in its order; all of them when it names none.
select(mod, ids) ==
  IF ids = <<>> THEN mod.MUTANTS ELSE [k \in DOMAIN ids |-> by_id(mod, ids[k])]

=============================================================================
