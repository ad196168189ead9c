-------------------------- MODULE MCSpacedRepetition --------------------------
(* SpacedRepetition for TLC: one round over two words, one of them well known. *)
EXTENDS SpacedRepetition, TLC

CONSTANTS w1, w2, round

MCWord == {w1, w2}
MCExercise == {round}
MCWords == [e \in MCExercise |-> MCWord]
MCMaxReviews == [w \in MCWord |-> IF w = w1 THEN 4 ELSE 0]

\* A word captured and answered correctly three times on the day it all begins.
KnownWell ==
    [uuid |-> 1, mastery_level |-> "REVIEW", ease_factor |-> 280, interval_days |-> 17,
     repetitions |-> 3, correct_count |-> 3, incorrect_count |-> 0,
     last_reviewed_at |-> 0, due_at |-> 17]

MCStart == [w \in MCWord |-> IF w = w1 THEN KnownWell ELSE None]
Empty == [w \in MCWord |-> None]

RequestSymmetry == Permutations(Request)
=============================================================================
