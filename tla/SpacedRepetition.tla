--------------------------- MODULE SpacedRepetition ---------------------------
(***************************************************************************)
(* SM-2 over the vocabulary of one learner, fed by reviews and by graded   *)
(* answers (app/services/learning/spaced_repetition.py and the grading     *)
(* half of exercise_service.py).                                           *)
(*                                                                         *)
(* A review reads the row, computes the next schedule from what it read,   *)
(* and UPDATEs the columns that differ from what it read.  Ease factors    *)
(* are in hundredths, as Numeric(4, 2) stores them.                        *)
(***************************************************************************)
EXTENDS Integers, FiniteSets

CONSTANTS
    Word,         \* dictionary words the learner may have captured
    Exercise,     \* exercises handed out to the learner
    Words,        \* the words of each exercise: one for a card, many for a round
    Round,        \* the match-pairs rounds among the exercises
    MaxMistakes,  \* MATCH_PAIRS_MAX_MISTAKES
    Quality,      \* the grades the client sends to /review
    Request,      \* slots for concurrently running requests
    None,         \* SQL NULL and "no such row"
    MaxInterval,  \* days from now to the last date a datetime can hold
    Start,        \* the vocabulary at the start
    MaxDay,       \* bound: the last day
    MaxCaptures,  \* bound: rows of user_words ever inserted
    MaxReviews    \* bound: reviews of each word before no further one starts

ASSUME SpacedRepetitionAssumption ==
    /\ IsFiniteSet(Word)
    /\ Words \in [Exercise -> SUBSET Word]
    /\ Quality \subseteq 0..5
    /\ MaxMistakes \in Nat
    /\ MaxInterval \in Nat
    /\ MaxDay \in Nat
    /\ MaxCaptures \in Nat
    /\ MaxReviews \in [Word -> Nat]
    /\ None \notin Int
    /\ None \notin Word
    /\ None \notin Exercise

VARIABLES
    today,       \* the date of _utcnow()
    captures,    \* rows of user_words inserted so far
    user_words,  \* the learner's row for each word, None where there is none
    completed,   \* exercises with status COMPLETED
    attempts,    \* rows of exercise_attempts
    reviews,     \* history: reviews written to the row of each word
    raced,       \* history: words whose row had changed since a review read it
    req          \* the request running in each slot

vars == <<today, captures, user_words, completed, attempts, reviews, raced, req>>

-----------------------------------------------------------------------------
(* SM-2 *)

MasteryLevel == {"NEW", "LEARNING", "REVIEW", "MASTERED"}

UserWord ==
    [uuid : Nat, mastery_level : MasteryLevel, ease_factor : Int,
     interval_days : Int, repetitions : Nat, correct_count : Nat, incorrect_count : Nat,
     last_reviewed_at : Int \cup {None}, due_at : Int \cup {None}]

NewUserWord(uuid) ==
    [uuid |-> uuid, mastery_level |-> "NEW", ease_factor |-> 250,
     interval_days |-> 0, repetitions |-> 0, correct_count |-> 0, incorrect_count |-> 0,
     last_reviewed_at |-> None, due_at |-> None]

EaseAfter(ease, quality) ==
    LET e == ease + 10 - (5 - quality) * (8 + (5 - quality) * 2)
    IN  IF e < 130 THEN 130 ELSE e

\* round() of a number of hundredths; on a tie the float product may lie on
\* either side, and an exact one goes to the even neighbour.
Rounded(n) ==
    (IF n % 100 <= 50 THEN {n \div 100} ELSE {})
        \cup (IF n % 100 >= 50 THEN {n \div 100 + 1} ELSE {})

IntervalsAfter(row, quality) ==
    IF quality < 3 \/ row.repetitions = 0 THEN {1}
    ELSE IF row.repetitions = 1 THEN {6}
    ELSE {IF i < 1 THEN 1 ELSE i :
              i \in Rounded(row.interval_days * EaseAfter(row.ease_factor, quality))}

Mastery(quality, repetitions, interval) ==
    IF quality < 3 THEN "LEARNING"
    ELSE IF interval >= 21 THEN "MASTERED"
    ELSE IF repetitions >= 2 THEN "REVIEW"
    ELSE "LEARNING"

\* Mutant: a failed review does not break the streak.
RepetitionsKept(row, quality) == row.repetitions + 1

RepetitionsAfter(row, quality) == IF quality < 3 THEN 0 ELSE row.repetitions + 1

\* Mutant: the mastery level is judged by the interval before the review.
ReviewedStaleMastery(row, quality, interval) ==
    [uuid |-> row.uuid,
     mastery_level |-> Mastery(quality, RepetitionsAfter(row, quality), row.interval_days),
     ease_factor |-> EaseAfter(row.ease_factor, quality),
     interval_days |-> interval,
     repetitions |-> RepetitionsAfter(row, quality),
     correct_count |-> row.correct_count + (IF quality >= 3 THEN 1 ELSE 0),
     incorrect_count |-> row.incorrect_count + (IF quality >= 3 THEN 0 ELSE 1),
     last_reviewed_at |-> today,
     due_at |-> today + interval]

\* What review() is to write, computed from the row it read.
Reviewed(row, quality, interval) ==
    [uuid |-> row.uuid,
     mastery_level |-> Mastery(quality, RepetitionsAfter(row, quality), interval),
     ease_factor |-> EaseAfter(row.ease_factor, quality),
     interval_days |-> interval,
     repetitions |-> RepetitionsAfter(row, quality),
     correct_count |-> row.correct_count + (IF quality >= 3 THEN 1 ELSE 0),
     incorrect_count |-> row.incorrect_count + (IF quality >= 3 THEN 0 ELSE 1),
     last_reviewed_at |-> today,
     due_at |-> today + interval]

Column(now, read, new) == IF new # read THEN new ELSE now

\* update_one: the columns that differ from the row as read.  Two reviews never
\* read the same microsecond, so the two timestamps always differ.
Updated(now, read, new) ==
    [uuid |-> now.uuid,
     mastery_level |-> Column(now.mastery_level, read.mastery_level, new.mastery_level),
     ease_factor |-> Column(now.ease_factor, read.ease_factor, new.ease_factor),
     interval_days |-> Column(now.interval_days, read.interval_days, new.interval_days),
     repetitions |-> Column(now.repetitions, read.repetitions, new.repetitions),
     correct_count |-> Column(now.correct_count, read.correct_count, new.correct_count),
     incorrect_count |-> Column(now.incorrect_count, read.incorrect_count, new.incorrect_count),
     last_reviewed_at |-> new.last_reviewed_at,
     due_at |-> new.due_at]

\* A row whose every column some review may have left behind.
RowSound(row) ==
    /\ row.ease_factor >= 130
    /\ row.repetitions <= row.correct_count
    /\ row.mastery_level = "NEW" <=> row.last_reviewed_at = None
    /\ IF row.last_reviewed_at = None THEN row.interval_days = 0
       ELSE row.interval_days >= 1 /\ row.due_at > row.last_reviewed_at

\* A row that `n` reviews, one after the other, have left behind.
RowConsistent(row, n) ==
    /\ row.correct_count + row.incorrect_count = n
    /\ row.last_reviewed_at # None =>
          /\ row.due_at = row.last_reviewed_at + row.interval_days
          /\ row.mastery_level = "MASTERED" <=> row.interval_days >= 21
          /\ row.mastery_level = "REVIEW" <=> (row.interval_days < 21 /\ row.repetitions >= 2)

ReviewsOf(row) == IF row = None THEN 0 ELSE row.correct_count + row.incorrect_count

StartWords == {w \in Word : Start[w] # None}

ASSUME StartAssumption ==
    /\ None \notin UserWord
    /\ Start \in [Word -> UserWord \cup {None}]
    /\ Cardinality(StartWords) <= MaxCaptures
    /\ \A w \in StartWords :
          /\ Start[w].uuid <= Cardinality(StartWords)
          /\ RowSound(Start[w])
          /\ RowConsistent(Start[w], ReviewsOf(Start[w]))
    /\ \A v, w \in StartWords : Start[v].uuid = Start[w].uuid => v = w

-----------------------------------------------------------------------------
(* Requests and rows *)

AttemptResult == {"CORRECT", "INCORRECT"}

\* `todo` are the words an answer has still to review, with their grades.
RequestState ==
    [at : {"idle", "attempt", "complete", "feed", "write", "reload"},
     word : Word \cup {None}, read : UserWord \cup {None}, new : UserWord \cup {None},
     exercise : Exercise \cup {None}, result : AttemptResult \cup {None},
     todo : SUBSET (Word \X (0..5))]

Idle ==
    [at |-> "idle", word |-> None, read |-> None, new |-> None,
     exercise |-> None, result |-> None, todo |-> {}]

Goto(r, state) == req' = [req EXCEPT ![r] = state]
Finish(r) == Goto(r, Idle)

Stored(w) == user_words[w] # None

TypeOK ==
    /\ today \in 0..MaxDay
    /\ captures \in 0..MaxCaptures
    /\ user_words \in [Word -> UserWord \cup {None}]
    /\ completed \in SUBSET Exercise
    /\ attempts \in [Exercise -> SUBSET AttemptResult]
    /\ reviews \in [Word -> Nat]
    /\ raced \in SUBSET Word
    /\ req \in [Request -> RequestState]

Init ==
    /\ today = 0
    /\ captures = Cardinality(StartWords)
    /\ user_words = Start
    /\ completed = {}
    /\ attempts = [e \in Exercise |-> {}]
    /\ reviews = [w \in Word |-> ReviewsOf(Start[w])]
    /\ raced = {}
    /\ req = [r \in Request |-> Idle]

-----------------------------------------------------------------------------
(* review *)

\* review() up to its UPDATE, on behalf of a request that goes on as `rest`.
\* A due date past the end of the calendar raises OverflowError.
ReadForReview(r, w, quality, rest) ==
    \E interval \in IntervalsAfter(user_words[w], quality) :
        IF today + interval > MaxInterval
        THEN Finish(r)
        ELSE Goto(r, [rest EXCEPT !.at = "write", !.word = w, !.read = user_words[w],
                                  !.new = Reviewed(user_words[w], quality, interval)])

Review(r, w, quality) ==
    /\ req[r].at = "idle"
    /\ Stored(w)
    /\ reviews[w] < MaxReviews[w]
    /\ ReadForReview(r, w, quality, Idle)
    /\ UNCHANGED <<today, captures, user_words, completed, attempts, reviews, raced>>

\* The UPDATE; it fails when the row read is gone.
WriteReview(r) ==
    LET w == req[r].word
        read == req[r].read
    IN
    /\ req[r].at = "write"
    /\ IF Stored(w) /\ user_words[w].uuid = read.uuid
       THEN /\ user_words' = [user_words EXCEPT ![w] = Updated(user_words[w], read, req[r].new)]
            /\ reviews' = [reviews EXCEPT ![w] = @ + 1]
            /\ raced' = IF user_words[w] = read THEN raced ELSE raced \cup {w}
            /\ Goto(r, [req[r] EXCEPT !.at = "reload", !.read = None, !.new = None])
       ELSE /\ Finish(r)
            /\ UNCHANGED <<user_words, reviews, raced>>
    /\ UNCHANGED <<today, captures, completed, attempts>>

\* The row is read again for the answer; without one the request fails.
Reload(r) ==
    /\ req[r].at = "reload"
    /\ IF Stored(req[r].word) /\ req[r].todo # {}
       THEN Goto(r, [req[r] EXCEPT !.at = "feed", !.word = None])
       ELSE Finish(r)
    /\ UNCHANGED <<today, captures, user_words, completed, attempts, reviews, raced>>

-----------------------------------------------------------------------------
(* submit_attempt *)

\* Mutant: every answer within the time and the mistakes is right.
GradeByClock(e, right, timed_out, mistakes) ==
    IF ~timed_out /\ (e \in Round /\ MaxMistakes > 0 => mistakes < MaxMistakes)
    THEN "CORRECT" ELSE "INCORRECT"

\* _matched_keys and _mistake_budget_blown
Grade(e, right, timed_out, mistakes) ==
    IF /\ right = Words[e]
       /\ ~timed_out
       /\ e \in Round /\ MaxMistakes > 0 => mistakes < MaxMistakes
    THEN "CORRECT" ELSE "INCORRECT"

\* _feed_pairs reviews each pair reached by itself, _feed_spaced_repetition the
\* one word of a card with the result as a whole (_QUALITY_CORRECT, _QUALITY_INCORRECT).
Graded(e, result, reached, right) ==
    IF e \in Round
    THEN {<<w, IF w \in right THEN 5 ELSE 2>> : w \in reached}
    ELSE {<<w, IF result = "CORRECT" THEN 5 ELSE 2>> : w \in Words[e]}

SubmitAttempt(r, e) ==
    /\ req[r].at = "idle"
    /\ e \notin completed
    /\ \E reached \in SUBSET Words[e], timed_out \in BOOLEAN, mistakes \in 0..MaxMistakes :
       \E right \in SUBSET reached :
          LET result == Grade(e, right, timed_out, mistakes) IN
          Goto(r, [Idle EXCEPT !.at = "attempt", !.exercise = e, !.result = result,
                               !.todo = Graded(e, result, reached, right)])
    /\ UNCHANGED <<today, captures, user_words, completed, attempts, reviews, raced>>

RecordAttempt(r) ==
    /\ req[r].at = "attempt"
    /\ attempts' = [attempts EXCEPT ![req[r].exercise] = @ \cup {req[r].result}]
    /\ Goto(r, [req[r] EXCEPT !.at = "complete"])
    /\ UNCHANGED <<today, captures, user_words, completed, reviews, raced>>

Complete(r) ==
    /\ req[r].at = "complete"
    /\ completed' = completed \cup {req[r].exercise}
    /\ IF req[r].todo = {} THEN Finish(r)
       ELSE Goto(r, [req[r] EXCEPT !.at = "feed", !.result = None])
    /\ UNCHANGED <<today, captures, user_words, attempts, reviews, raced>>

\* One word of the answer; one no longer in the vocabulary is passed over.
Feed(r, w, quality) ==
    LET rest == [req[r] EXCEPT !.todo = @ \ {<<w, quality>>}] IN
    /\ req[r].at = "feed"
    /\ <<w, quality>> \in req[r].todo
    /\ \/ /\ Stored(w)
          /\ ReadForReview(r, w, quality, rest)
       \/ /\ ~Stored(w)
          /\ IF rest.todo = {} THEN Finish(r) ELSE Goto(r, rest)
    /\ UNCHANGED <<today, captures, user_words, completed, attempts, reviews, raced>>

-----------------------------------------------------------------------------
(* Vocabulary changes, time and crashes *)

\* The user_words row of capture(); a removed word starts anew.
Capture(w) ==
    /\ ~Stored(w)
    /\ captures < MaxCaptures
    /\ captures' = captures + 1
    /\ user_words' = [user_words EXCEPT ![w] = NewUserWord(captures + 1)]
    /\ reviews' = [reviews EXCEPT ![w] = 0]
    /\ raced' = raced \ {w}
    /\ UNCHANGED <<today, completed, attempts, req>>

\* Mutant: the row is blanked, not deleted.
RemoveBlanks(w) ==
    /\ Stored(w)
    /\ user_words' = [user_words EXCEPT ![w] = NewUserWord(None)]
    /\ UNCHANGED <<today, captures, completed, attempts, reviews, raced, req>>

Remove(w) ==
    /\ Stored(w)
    /\ user_words' = [user_words EXCEPT ![w] = None]
    /\ UNCHANGED <<today, captures, completed, attempts, reviews, raced, req>>

Tomorrow ==
    /\ today < MaxDay
    /\ today' = today + 1
    /\ UNCHANGED <<captures, user_words, completed, attempts, reviews, raced, req>>

\* The server dies, or any statement of the request fails.
Abort(r) ==
    /\ req[r].at # "idle"
    /\ Finish(r)
    /\ UNCHANGED <<today, captures, user_words, completed, attempts, reviews, raced>>

-----------------------------------------------------------------------------

Next ==
    \/ \E r \in Request, w \in Word, quality \in Quality : Review(r, w, quality)
    \/ \E r \in Request, e \in Exercise : SubmitAttempt(r, e)
    \/ \E r \in Request, w \in Word, quality \in {2, 5} : Feed(r, w, quality)
    \/ \E r \in Request :
          WriteReview(r) \/ Reload(r) \/ RecordAttempt(r) \/ Complete(r) \/ Abort(r)
    \/ \E w \in Word : Capture(w) \/ Remove(w)
    \/ Tomorrow

Spec == Init /\ [][Next]_vars

-----------------------------------------------------------------------------
(* Which words come next *)

DueWords == {w \in Word : Stored(w) /\ (user_words[w].due_at # None => user_words[w].due_at <= today)}

\* The first `limit` of S, in the order that `before` puts two of its words.
FirstOf(S, before, limit) == {w \in S : Cardinality({v \in S : <<v, w>> \in before}) < limit}

\* New words first, then the soonest; here the older row breaks a tie.
SoonerRow(v, w) ==
    \/ v.due_at = None /\ w.due_at # None
    \/ v.due_at # None /\ w.due_at # None /\ v.due_at < w.due_at
    \/ v.due_at = w.due_at /\ v.uuid < w.uuid

Sooner(S) == {p \in S \X S : SoonerRow(user_words[p[1]], user_words[p[2]])}

list_due(limit) == FirstOf(DueWords, Sooner(DueWords), limit)

Newer(S) == {p \in S \X S : user_words[p[1]].uuid > user_words[p[2]].uuid}

\* list_for_user: the newest first, of those in S.
newest(S, limit) == FirstOf(S, Newer(S), limit)

\* Mutant: the newest words are cut to size before the due ones are left out.
TopUpCutFirst(due, limit) ==
    newest({w \in Word : Stored(w)}, limit - Cardinality(due)) \ due

TopUp(due, limit) ==
    LET rows == newest({w \in Word : Stored(w)}, limit)
    IN  newest(rows \ due, limit - Cardinality(due))

_candidate_words(limit) ==
    LET due == list_due(limit)
    IN  IF Cardinality(due) >= limit THEN due ELSE due \cup TopUp(due, limit)

-----------------------------------------------------------------------------
(* Properties *)

(***************************************************************************)
(* Whatever overlaps, every column a review leaves behind is one a review  *)
(* may leave: the ease factor keeps its floor of 1.3, a reviewed word is   *)
(* due at least a day after its last review, a streak never outgrows the   *)
(* correct answers on the row, and a word without a review, and no other,  *)
(* is NEW and has no interval.                                             *)
(***************************************************************************)
ScheduleSound == \A w \in Word : Stored(w) => RowSound(user_words[w])

(***************************************************************************)
(* The only thing that can tear a row is a review that overwrites another: *)
(* as long as none has, every review is counted once, the due date is the  *)
(* interval after the last review, and the mastery level is the one the    *)
(* stored streak and interval stand for.                                   *)
(***************************************************************************)
ScheduleConsistent ==
    \A w \in Word \ raced : Stored(w) => RowConsistent(user_words[w], reviews[w])

(***************************************************************************)
(* The grade of an answer and the reviews it feeds are worked out in two   *)
(* places and agree: a CORRECT answer reviews each of its words as known,  *)
(* and a word an answer marks as failed has an INCORRECT attempt on record *)
(* before its schedule is touched.                                         *)
(***************************************************************************)
GradesAgree ==
    \A r \in Request :
        req[r].exercise # None =>
            /\ (req[r].at \in {"attempt", "complete"} /\ req[r].result = "CORRECT") =>
                  req[r].todo = Words[req[r].exercise] \X {5}
            /\ (\E t \in req[r].todo : t[2] < 3) =>
                  IF req[r].at = "attempt" THEN req[r].result = "INCORRECT"
                  ELSE "INCORRECT" \in attempts[req[r].exercise]

(***************************************************************************)
(* exercise_service.py:267-270: a vocabulary large enough never leaves a   *)
(* refill short of words, and due words are taken before any other.        *)
(***************************************************************************)
CandidatesFill ==
    \A limit \in 1..Cardinality(Word) :
        LET known == {w \in Word : Stored(w)}
            words == _candidate_words(limit)
        IN
        /\ Cardinality(words) = IF Cardinality(known) < limit THEN Cardinality(known) ELSE limit
        /\ words \subseteq DueWords \/ DueWords \subseteq words

-----------------------------------------------------------------------------
(* What comments of the repository claim and the code does not do *)

\* routers/learning.py:65 "recomputes the SM-2 interval and next due date": every
\* word of the vocabulary has a next due date to recompute, whatever its grade.
EveryGradeScheduled ==
    \A w \in Word, quality \in Quality :
        Stored(w) =>
            \A interval \in IntervalsAfter(user_words[w], quality) : today + interval <= MaxInterval
=============================================================================
