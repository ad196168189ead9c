---------------------------- MODULE MCExercisePool ----------------------------
(* Instances of ExercisePool for TLC, and ExerciseContent over bounded inputs. *)
EXTENDS ExercisePool, ExerciseContent

RequestSymmetry == Permutations(Request)
RefillerSymmetry == Permutations(Refiller)

-----------------------------------------------------------------------------
\* Two words; texts of at most three tokens, replies of at most two blanks.
A == "a"
B == "b"
Plain == {Exact(A), Form(A, "start"), Form(A, "inside"), Exact(B)}
GappedTexts == SeqOf(Plain \cup {Gap(1), Gap(2)}, 3)
Replies == SeqOf([index : 1..2, answer : {A, B}, options : {{}, {B}}], 2)
Requests == {{A}, {A, B}}

\* Definitions of one token, and up to four distractors.
Definitions == SeqOf(Plain, 1)

\* Words of a vocabulary in two languages, and all their translations.
Entry == [lemma : {A, B}, language : {"en", "pl"}]

ASSUME ContentSound ==
    /\ FillInBlankAnswerable(GappedTexts, Replies, Requests)
    /\ FillInBlankRepaired(GappedTexts, Replies, Requests)
    /\ ChoiceUnambiguous(Definitions, SeqOf(Definitions, 4), {A})
    /\ CardsUsable(SeqOf(Plain, 2), {A})
    /\ TypingFaithful(SeqOf(Plain, 4), {Missing, B}, {A})
    /\ RoundUnambiguous(SeqOf(Entry, 3), [Entry -> {Missing, 1, 2}], 2)
=============================================================================
