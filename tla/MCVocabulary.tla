----------------------------- MODULE MCVocabulary -----------------------------
(* Vocabulary for TLC: two keys of one language and an import in two orders. *)
EXTENDS Vocabulary, TLC

CONSTANTS cat, dog, en, uk

MCKey == {cat, dog}
MCLanguageOf == [k \in MCKey |-> en]
MCImports == {<<cat, None, dog>>, <<dog, cat, dog>>}

Symmetry == Permutations(Request)
=============================================================================
