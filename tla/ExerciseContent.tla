---------------------------- MODULE ExerciseContent ----------------------------
(***************************************************************************)
(* What an exercise says and how an answer to it is matched                *)
(* (app/services/ai/exercise_generation.py, and the cards and rounds of    *)
(* app/services/learning/exercise_service.py): whether the reply of the    *)
(* model becomes an exercise, which StoreCard and SkipCard of ExercisePool *)
(* leave open.                                                             *)
(*                                                                         *)
(* A text is a sequence of tokens up to case and surrounding blanks: a     *)
(* numbered gap (___N___), or a form of a word: the word itself, something *)
(* longer that begins with it, or something with it elsewhere inside, as   *)
(* "cat" has "at".                                                         *)
(***************************************************************************)
EXTENDS Integers, FiniteSets, Sequences, SequencesExt

CONSTANTS
    Rejected,  \* AIResponseValidationError, or no round
    Missing    \* Python's None

Gap(index) == [gap |-> index]
Form(word, place) == [word |-> word, place |-> place]
Exact(word) == Form(word, "all")
IsForm(token, word) == token \in {Form(word, place) : place \in {"all", "start", "inside"}}

\* _contains_word: \bword, with no boundary after it.
ContainsWord(text, word) == \E k \in DOMAIN text : text[k] \in {Exact(word), Form(word, "start")}

Has(text, token) == \E k \in DOMAIN text : text[k] = token

\* re.subn(..., count=1)
ReplaceFirst(text, token, by) ==
    [k \in DOMAIN text |->
        IF text[k] = token /\ \A j \in 1..(k - 1) : text[j] # token THEN by ELSE text[k]]

-----------------------------------------------------------------------------
(* Fill in the blanks *)

\* A reply declares blanks, each [index, answer, options]; options are a set of
\* words, empty for free input.
Offered(blank) ==
    IF blank.options = {} THEN blank ELSE [blank EXCEPT !.options = @ \cup {blank.answer}]

\* One turn of the loop of _normalize; `words` are the requested ones.
Normalized(exercise, blank, words) ==
    LET gap == Gap(blank.index)
        text == IF Has(exercise.text, gap) THEN exercise.text
                ELSE ReplaceFirst(exercise.text, Exact(blank.answer), gap)
    IN
    IF Has(text, gap) THEN [text |-> text, blanks |-> Append(exercise.blanks, Offered(blank))]
    ELSE IF blank.answer \in words THEN Rejected
    ELSE exercise

Practised(blanks) == {blanks[k].answer : k \in DOMAIN blanks}

FillInBlank(text, blanks, words) ==
    LET step(exercise, blank) ==
            IF exercise = Rejected THEN Rejected ELSE Normalized(exercise, blank, words)
    IN
    IF words \subseteq Practised(blanks)
    THEN FoldLeft(step, [text |-> text, blanks |-> <<>>], blanks)
    ELSE Rejected

\* Exercise.answer: of two blanks with one index the later wins.
AnswerKey(blanks) ==
    [index \in {blanks[k].index : k \in DOMAIN blanks} |->
        blanks[SelectLastInSeq(blanks, LAMBDA blank : blank.index = index)].answer]

-----------------------------------------------------------------------------
(* The other types *)

MultipleChoice(definition, distractors, word) ==
    LET usable(d) == d # <<>> /\ d # definition /\ ~ContainsWord(d, word)
        kept == SelectSeq(distractors, usable)
    IN
    IF definition = <<>> \/ ContainsWord(definition, word) \/ Len(kept) < 2 THEN Rejected
    ELSE [definition |-> definition, distractors |-> SubSeq(kept, 1, Min({Len(kept), 3}))]

Flashcard(definition, example, word) ==
    IF definition = <<>> \/ ContainsWord(definition, word) THEN Rejected
    ELSE [definition |-> definition,
          example |-> IF example # Missing /\ ContainsWord(example, word) THEN example ELSE Missing]

\* _parse_translation and _normalize_translation: `others` are the strings the
\* reply has under other keys, nothing but blanks left out.
Translation(translation, others, word) ==
    LET value == IF translation # Missing THEN translation
                 ELSE IF Len(others) = 1 THEN others[1] ELSE <<>>
    IN  IF value \in {<<>>, <<Exact(word)>>} THEN Rejected ELSE value

\* Where a sentence has the word, on a boundary or not; 0 is nowhere.
FirstForm(sentence, word) == SelectInSeq(sentence, LAMBDA token : IsForm(token, word))

\* _blank_word: the word where it stands as a word, or else wherever it occurs
\* (the rest of that token is left out here).
Blanked(sentence, word) ==
    IF Has(sentence, Exact(word)) THEN ReplaceFirst(sentence, Exact(word), Gap(1))
    ELSE [sentence EXCEPT ![FirstForm(sentence, word)] = Gap(1)]

\* A typing card blanks out the form seen in the sentence, or else the lemma.
Typing(sentence, surface_form, lemma) ==
    LET candidates == SelectSeq(<<surface_form, lemma>>,
                                LAMBDA c : c # Missing /\ FirstForm(sentence, c) # 0)
    IN  IF candidates = <<>> THEN Rejected
        ELSE [text |-> Blanked(sentence, candidates[1]), target |-> candidates[1]]

\* translate_words: by lemma, so that of two words with one lemma the later counts.
Translations(words, translation) ==
    [lemma \in {words[k].lemma : k \in {j \in DOMAIN words : translation[words[j]] # Missing}} |->
        translation[words[SelectLastInSeq(words, LAMBDA w : w.lemma = lemma /\ translation[w] # Missing)]]]

\* The pairs of a match-pairs round.
Pairs(words, translation) ==
    LET known == Translations(words, translation)
        step(pairs, w) ==
            IF w.lemma \notin DOMAIN known
               \/ \E k \in DOMAIN pairs : pairs[k].translation = known[w.lemma]
            THEN pairs
            ELSE Append(pairs, [word |-> w, translation |-> known[w.lemma]])
    IN  FoldLeft(step, <<>>, words)

Round(words, translation, visible) ==
    IF Len(words) < visible \/ Len(Pairs(words, translation)) < visible THEN Rejected
    ELSE Pairs(words, translation)

-----------------------------------------------------------------------------
(* What is promised of them, over bounded inputs *)

DistinctIndexes(blanks) ==
    \A j, k \in DOMAIN blanks : blanks[j].index = blanks[k].index => j = k

(***************************************************************************)
(* Every requested word is asked for, every key has its gap, and a choice  *)
(* of words has the right one in it: whatever the model replied, as long   *)
(* as no two of its blanks share an index, the exercise can be answered.   *)
(***************************************************************************)
FillInBlankAnswerable(texts, replies, requests) ==
    \A text \in texts, blanks \in replies, words \in requests :
        LET exercise == FillInBlank(text, blanks, words)
            key == AnswerKey(exercise.blanks)
        IN
        (DistinctIndexes(blanks) /\ exercise # Rejected) =>
            /\ \A word \in words : \E index \in DOMAIN key : key[index] = word
            /\ \A index \in DOMAIN key : Has(exercise.text, Gap(index))
            /\ \A k \in DOMAIN exercise.blanks :
                  LET blank == exercise.blanks[k] IN
                  blank.options # {} => key[blank.index] \in blank.options

(***************************************************************************)
(* exercise_generation.py:186 "only problems with the requested words      *)
(* reject the whole exercise": when each of them has one blank, whose gap  *)
(* or whose word is in the text, no other blank can spoil the exercise,    *)
(* although repairing the blanks before it changes the text.               *)
(***************************************************************************)
FillInBlankRepaired(texts, replies, requests) ==
    \A text \in texts, blanks \in replies, words \in requests :
        LET of(word) == {k \in DOMAIN blanks : blanks[k].answer = word} IN
        (\A word \in words :
            /\ Cardinality(of(word)) = 1
            /\ \A k \in of(word) : Has(text, Gap(blanks[k].index)) \/ Has(text, Exact(word)))
        => FillInBlank(text, blanks, words) # Rejected

(***************************************************************************)
(* Of the options of a multiple choice exactly one is graded correct, none *)
(* of the others is lost in making them distinct from it, and none names   *)
(* the word.                                                               *)
(***************************************************************************)
ChoiceUnambiguous(definitions, lists, words) ==
    \A definition \in definitions, distractors \in lists, word \in words :
        LET exercise == MultipleChoice(definition, distractors, word)
            options == <<exercise.definition>> \o exercise.distractors
        IN
        exercise # Rejected =>
            /\ Len(options) \in 3..4
            /\ \A k \in DOMAIN options : ~ContainsWord(options[k], word)
            /\ Cardinality({k \in DOMAIN options : options[k] = definition}) = 1

(***************************************************************************)
(* A flashcard and a translation never give the word itself for its        *)
(* meaning; a broken example costs no card, and a translation under        *)
(* another key is as good as one where it was asked for.                   *)
(***************************************************************************)
CardsUsable(texts, words) ==
    \A text, example \in texts, word \in words :
        /\ Flashcard(text, example, word) = Rejected <=> Flashcard(text, Missing, word) = Rejected
        /\ Flashcard(text, example, word) # Rejected => ~ContainsWord(text, word)
        /\ Translation(text, <<example>>, word) = Rejected <=> text \in {<<>>, <<Exact(word)>>}
        /\ Translation(Missing, <<text>>, word) = Translation(text, <<>>, word)
        /\ Translation(Missing, <<text, example>>, word) = Rejected

(***************************************************************************)
(* The gap of a typing card stands where the sentence has the expected     *)
(* word, inside another only when it has it nowhere by itself; and the     *)
(* form the learner met is asked for whenever the sentence has it.         *)
(***************************************************************************)
TypingFaithful(sentences, forms, lemmas) ==
    \A sentence \in sentences, form \in forms, lemma \in lemmas :
        LET card == Typing(sentence, form, lemma) IN
        card # Rejected =>
            /\ form # Missing /\ FirstForm(sentence, form) # 0 => card.target = form
            /\ \E k \in DOMAIN sentence :
                  /\ IsForm(sentence[k], card.target)
                  /\ card.text = [sentence EXCEPT ![k] = Gap(1)]
                  /\ Has(sentence, Exact(card.target)) => sentence[k] = Exact(card.target)

(***************************************************************************)
(* A round never shows one translation twice, and leaves a translated word *)
(* out only for an earlier one with its translation; each pair is right    *)
(* for its word as long as no two words of it share a lemma.               *)
(***************************************************************************)
RoundUnambiguous(lists, translations, visible) ==
    \A words \in lists, translation \in translations :
        LET round == Round(words, translation, visible)
            lemmas == {words[k].lemma : k \in DOMAIN words}
        IN
        round # Rejected =>
            /\ \A j, k \in DOMAIN round : round[j].translation = round[k].translation => j = k
            /\ Cardinality(lemmas) = Len(words) =>
                  /\ \A k \in DOMAIN round : round[k].translation = translation[round[k].word]
                  /\ \A k \in DOMAIN words :
                        translation[words[k]] # Missing =>
                            \E j \in DOMAIN round :
                                round[j].translation = translation[words[k]]
=============================================================================
