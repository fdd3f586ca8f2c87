----------------------------- MODULE MCTaxonomy -----------------------------
(***************************************************************************)
(* Small instances of Taxonomy for TLC.                                    *)
(***************************************************************************)
EXTENDS Taxonomy, TLC

CONSTANTS w1, w2, p1, p2, c1, c2, t1, t2, t3

Lowered == [n \in Names |-> CASE n = "A" -> "a" [] n = " " -> None [] OTHER -> n]

TagsOf(s) == [tables |-> {TagIds}, categories |-> {}, tags |-> s]

BothOf(c, s) == [tables |-> {CategoryIds, TagIds}, categories |-> {c}, tags |-> s]

\* A name in capitals that is a live, a deleted or no tag; a tag and a category.
CategoryBodies == {TagsOf(<<" ">>), BothOf(c1, <<"A">>)}

AllNames == [table : {CategoryIds, TagIds}, name : {"a", "A"}]

\* Names in opposite orders.
TagBodies == {TagsOf(<<"a", "b">>), TagsOf(<<"b", "a">>)}

OneTag == {[table |-> TagIds, name |-> "a"]}

\* Workers, prompts and tags can be exchanged; c1 is in the bodies.
Symmetry == Permutations(Workers) \cup Permutations(PromptIds) \cup Permutations(TagIds)
=============================================================================
