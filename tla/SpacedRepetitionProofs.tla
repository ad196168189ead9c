------------------------ MODULE SpacedRepetitionProofs ------------------------
(***************************************************************************)
(* Theorems about SpacedRepetition, for every vocabulary, every set of     *)
(* exercises and any number of overlapping requests.                       *)
(*                                                                         *)
(* A row that mixes the columns of two reviews is sound because of what    *)
(* each of them leaves out: a column is kept only where the review agrees  *)
(* with the row it read, which was sound itself (TornSound).               *)
(*                                                                         *)
(* Which words come next is a matter of positions in a finite order        *)
(* (FirstOfCardinality).                                                   *)
(***************************************************************************)
EXTENDS SpacedRepetition, FiniteSetTheorems, TLAPS

\* What a review makes of the row it read.
NextRow(row, new) ==
    /\ new.ease_factor >= 130
    /\ new.interval_days >= 1
    /\ new.last_reviewed_at \in Int
    /\ new.due_at = new.last_reviewed_at + new.interval_days
    /\ new.mastery_level # "NEW"
    /\ new.mastery_level = "MASTERED" <=> new.interval_days >= 21
    /\ new.mastery_level = "REVIEW" <=> (new.interval_days < 21 /\ new.repetitions >= 2)
    /\ \/ /\ new.repetitions = 0
          /\ new.correct_count = row.correct_count
          /\ new.incorrect_count = row.incorrect_count + 1
       \/ /\ new.repetitions = row.repetitions + 1
          /\ new.correct_count = row.correct_count + 1
          /\ new.incorrect_count = row.incorrect_count

\* A request about to write read a sound row, and its row, if it is still
\* there, has not become unreviewed since.
ReadSound(s) ==
    s.at = "write" =>
        /\ s.word \in Word
        /\ s.read \in UserWord
        /\ s.new \in UserWord
        /\ RowSound(s.read)
        /\ NextRow(s.read, s.new)
        /\ s.read.uuid <= captures
        /\ (Stored(s.word) /\ user_words[s.word].uuid = s.read.uuid
            /\ s.read.last_reviewed_at # None) => user_words[s.word].last_reviewed_at # None

ReadsSound == \A r \in Request : ReadSound(req[r])

\* Rows are numbered in the order of insertion.
RowsNumbered ==
    /\ \A w \in Word : Stored(w) => user_words[w].uuid <= captures
    /\ \A v, w \in Word : Stored(v) /\ Stored(w) /\ user_words[v].uuid = user_words[w].uuid => v = w

\* An answer knows its exercise, and its result until it has recorded it.
ResultKnown ==
    \A r \in Request :
        /\ req[r].at \in {"attempt", "complete"} => req[r].exercise \in Exercise
        /\ req[r].at = "attempt" => req[r].result \in AttemptResult

IInv ==
    /\ TypeOK
    /\ ScheduleSound
    /\ ScheduleConsistent
    /\ RowsNumbered
    /\ ReadsSound
    /\ ResultKnown
    /\ GradesAgree

USE SpacedRepetitionAssumption, StartAssumption

-----------------------------------------------------------------------------
(* SM-2 *)

LEMMA EaseFloor ==
    ASSUME NEW ease \in Int, NEW quality \in 0..5
    PROVE  EaseAfter(ease, quality) \in Int /\ EaseAfter(ease, quality) >= 130
<1>1. quality \in {0, 1, 2, 3, 4, 5}
    OBVIOUS
<1>2. QED
    BY <1>1 DEF EaseAfter

LEMMA IntervalAtLeastOne ==
    ASSUME NEW row \in UserWord, NEW quality \in 0..5, NEW interval \in IntervalsAfter(row, quality)
    PROVE  interval \in Int /\ interval >= 1 /\ (quality < 3 => interval = 1)
<1>1. \A n \in Int : Rounded(n) \subseteq Int
    BY DEF Rounded
<1>2. row.interval_days \in Int /\ EaseAfter(row.ease_factor, quality) \in Int
    BY EaseFloor DEF UserWord
<1>3. row.interval_days * EaseAfter(row.ease_factor, quality) \in Int
    BY <1>2
<1>4. QED
    BY <1>1, <1>3 DEF IntervalsAfter

LEMMA ReviewedRow ==
    ASSUME NEW row \in UserWord, NEW quality \in 0..5, NEW interval \in IntervalsAfter(row, quality),
           today \in Int
    PROVE  Reviewed(row, quality, interval) \in UserWord /\ NextRow(row, Reviewed(row, quality, interval))
<1> DEFINE new == Reviewed(row, quality, interval)
<1>1. interval \in Int /\ interval >= 1 /\ (quality < 3 => interval = 1)
    BY IntervalAtLeastOne
<1>2. EaseAfter(row.ease_factor, quality) \in Int /\ EaseAfter(row.ease_factor, quality) >= 130
    BY EaseFloor DEF UserWord
<1>3. /\ row.uuid \in Nat /\ row.repetitions \in Nat
      /\ row.correct_count \in Nat /\ row.incorrect_count \in Nat
    BY DEF UserWord
<1>4. Mastery(quality, RepetitionsAfter(row, quality), interval) \in MasteryLevel
    BY DEF Mastery, MasteryLevel
<1>5. new \in UserWord
    BY <1>1, <1>2, <1>3, <1>4 DEF Reviewed, UserWord, RepetitionsAfter
<1>6. /\ new.ease_factor >= 130
      /\ new.interval_days >= 1
      /\ new.last_reviewed_at \in Int
      /\ new.due_at = new.last_reviewed_at + new.interval_days
    BY <1>1, <1>2 DEF Reviewed
<1>7. /\ new.mastery_level # "NEW"
      /\ new.mastery_level = "MASTERED" <=> new.interval_days >= 21
      /\ new.mastery_level = "REVIEW" <=> (new.interval_days < 21 /\ new.repetitions >= 2)
    BY <1>1, <1>3 DEF Reviewed, Mastery, RepetitionsAfter
<1>8. \/ /\ new.repetitions = 0
         /\ new.correct_count = row.correct_count
         /\ new.incorrect_count = row.incorrect_count + 1
      \/ /\ new.repetitions = row.repetitions + 1
         /\ new.correct_count = row.correct_count + 1
         /\ new.incorrect_count = row.incorrect_count
    BY <1>3 DEF Reviewed, RepetitionsAfter
<1>9. QED
    BY <1>5, <1>6, <1>7, <1>8 DEF NextRow

-----------------------------------------------------------------------------
(* What the UPDATE of a review leaves in the row *)

LEMMA UpdatedType ==
    ASSUME NEW now \in UserWord, NEW read \in UserWord, NEW new \in UserWord
    PROVE  Updated(now, read, new) \in UserWord
    BY DEF Updated, Column, UserWord

LEMMA TornSound ==
    ASSUME NEW now \in UserWord, NEW read \in UserWord, NEW new \in UserWord,
           RowSound(now), RowSound(read), NextRow(read, new),
           read.last_reviewed_at # None => now.last_reviewed_at # None
    PROVE  RowSound(Updated(now, read, new))
<1> DEFINE row == Updated(now, read, new)
<1>1. new.last_reviewed_at # None /\ row.last_reviewed_at = new.last_reviewed_at /\ row.due_at = new.due_at
    BY DEF NextRow, Updated
<1>2. row.ease_factor >= 130
    BY DEF Updated, Column, RowSound, NextRow
<1>3. row.repetitions <= row.correct_count
    BY DEF Updated, Column, RowSound, NextRow, UserWord
<1>4. row.mastery_level # "NEW"
    BY DEF Updated, Column, RowSound, NextRow
<1>5. row.interval_days >= 1
    BY DEF Updated, Column, RowSound, NextRow
<1>6. new.due_at > new.last_reviewed_at
    BY DEF NextRow, UserWord
<1>7. QED
    BY <1>1, <1>2, <1>3, <1>4, <1>5, <1>6 DEF RowSound

\* A review that finds the row as it read it writes the row it computed.
LEMMA UpdatedFresh ==
    ASSUME NEW read \in UserWord, NEW new \in UserWord, NextRow(read, new),
           NEW n \in Nat, RowConsistent(read, n)
    PROVE  RowConsistent(Updated(read, read, new), n + 1)
<1> DEFINE row == Updated(read, read, new)
<1>1. /\ row.mastery_level = new.mastery_level
      /\ row.interval_days = new.interval_days
      /\ row.repetitions = new.repetitions
      /\ row.correct_count = new.correct_count
      /\ row.incorrect_count = new.incorrect_count
      /\ row.last_reviewed_at = new.last_reviewed_at
      /\ row.due_at = new.due_at
    BY DEF Updated, Column
<1>2. row.correct_count + row.incorrect_count = n + 1
    BY <1>1 DEF NextRow, RowConsistent, UserWord
<1> HIDE DEF row
<1>3. row.due_at = row.last_reviewed_at + row.interval_days
    BY <1>1 DEF NextRow
<1>4. row.mastery_level = "MASTERED" <=> row.interval_days >= 21
    BY <1>1 DEF NextRow
<1>5. row.mastery_level = "REVIEW" <=> (row.interval_days < 21 /\ row.repetitions >= 2)
    BY <1>1 DEF NextRow
<1>6. RowConsistent(row, n + 1)
    BY <1>2, <1>3, <1>4, <1>5 DEF RowConsistent
<1>7. QED
    BY <1>6 DEF row
-----------------------------------------------------------------------------
(* Requests *)

LEMMA Moves ==
    ASSUME TypeOK, NEW r \in Request, NEW state \in RequestState, Goto(r, state)
    PROVE  /\ req' \in [Request -> RequestState]
           /\ \A q \in Request : req'[q] = IF q = r THEN state ELSE req[q]
    BY DEF Goto, TypeOK

LEMMA IdleQuiet == Idle \in RequestState /\ Idle.at = "idle" /\ Idle.exercise = None /\ Idle.todo = {}
    BY DEF Idle, RequestState

\* A request that reads a row for a review fails, or is about to write it and
\* goes on with the same answer.
LEMMA ForReview ==
    ASSUME IInv, NEW r \in Request, NEW w \in Word, NEW quality \in 0..5, NEW rest \in RequestState,
           Stored(w), ReadForReview(r, w, quality, rest)
    PROVE  \E state \in RequestState :
               /\ Goto(r, state)
               /\ ReadSound(state)
               /\ state.at \notin {"attempt", "complete"}
               /\ \/ state = Idle
                  \/ state.at = "write" /\ state.exercise = rest.exercise /\ state.todo = rest.todo
<1>1. CASE Finish(r)
    BY <1>1, IdleQuiet DEF Finish, ReadSound
<1>2. CASE ~Finish(r)
  <2>1. PICK interval \in IntervalsAfter(user_words[w], quality) :
            Goto(r, [rest EXCEPT !.at = "write", !.word = w, !.read = user_words[w],
                                 !.new = Reviewed(user_words[w], quality, interval)])
      BY <1>2 DEF ReadForReview
  <2> DEFINE row == user_words[w]
             new == Reviewed(row, quality, interval)
             state == [rest EXCEPT !.at = "write", !.word = w, !.read = row, !.new = new]
  <2>2. row \in UserWord /\ RowSound(row) /\ row.uuid <= captures /\ today \in Int
      BY DEF IInv, TypeOK, ScheduleSound, RowsNumbered, Stored
  <2>3. new \in UserWord /\ NextRow(row, new)
      BY <2>2, ReviewedRow
  <2> HIDE DEF new
  <2>4. state \in RequestState
      BY <2>2, <2>3 DEF RequestState
  <2>5. state.at = "write" /\ state.word = w /\ state.read = row /\ state.new = new
      BY DEF RequestState
  <2>6. ReadSound(state)
      BY <2>2, <2>3, <2>5 DEF ReadSound
  <2>7. state.exercise = rest.exercise /\ state.todo = rest.todo
      BY DEF RequestState
  <2>8. Goto(r, state)
      BY <2>1 DEF new
  <2> HIDE DEF state
  <2>9. QED
      BY <2>4, <2>5, <2>6, <2>7, <2>8
<1>3. QED
    BY <1>1, <1>2

\* Steps that touch neither the rows nor their histories.
LEMMA RowsUntouched ==
    ASSUME IInv, UNCHANGED <<user_words, captures, reviews, raced>>,
           \A r \in Request : ReadSound(req'[r])
    PROVE  ScheduleSound' /\ ScheduleConsistent' /\ RowsNumbered' /\ ReadsSound'
<1>1. \A r \in Request : ReadSound(req'[r]) => ReadSound(req[r])'
    BY DEF ReadSound, Stored
<1>2. QED
    BY <1>1 DEF IInv, ScheduleSound, ScheduleConsistent, RowsNumbered, ReadsSound, Stored

\* Steps that leave the grades of each running answer alone, or forget some.
LEMMA AnswersUntouched ==
    ASSUME IInv, \A e \in Exercise : attempts[e] \subseteq attempts'[e],
           \A r \in Request :
               \/ req'[r] = req[r]
               \/ req'[r].exercise = None /\ req'[r].at \notin {"attempt", "complete"}
               \/ /\ req'[r].exercise = req[r].exercise
                  /\ req'[r].at \notin {"attempt", "complete"}
                  /\ req[r].at # "attempt"
                  /\ req'[r].todo \subseteq req[r].todo
    PROVE  ResultKnown' /\ GradesAgree'
<1>1. \A r \in Request : req[r].exercise = None \/ req[r].exercise \in Exercise
    BY DEF IInv, TypeOK, RequestState
<1>2. QED
    BY <1>1 DEF IInv, ResultKnown, GradesAgree

-----------------------------------------------------------------------------
(* The steps of a request that leave the rows alone *)

LEMMA ReviewStep ==
    ASSUME IInv, NEW r \in Request, NEW w \in Word, NEW quality \in Quality, Review(r, w, quality)
    PROVE  IInv'
<1>1. quality \in 0..5
    OBVIOUS
<1>2. PICK state \in RequestState :
          /\ Goto(r, state) /\ ReadSound(state) /\ state.exercise = None
          /\ state.at \notin {"attempt", "complete"}
    BY <1>1, ForReview, IdleQuiet DEF Review
<1>3. req' \in [Request -> RequestState] /\ \A q \in Request : req'[q] = IF q = r THEN state ELSE req[q]
    BY <1>2, Moves DEF IInv
<1>4. ScheduleSound' /\ ScheduleConsistent' /\ RowsNumbered' /\ ReadsSound'
    BY <1>2, <1>3, RowsUntouched DEF Review, IInv, ReadsSound
<1>5. ResultKnown' /\ GradesAgree'
    BY <1>2, <1>3, AnswersUntouched DEF Review
<1>6. TypeOK'
    BY <1>3 DEF Review, IInv, TypeOK
<1>7. QED
    BY <1>4, <1>5, <1>6 DEF IInv

LEMMA FeedStep ==
    ASSUME IInv, NEW r \in Request, NEW w \in Word, NEW quality \in {2, 5}, Feed(r, w, quality)
    PROVE  IInv'
<1> DEFINE rest == [req[r] EXCEPT !.todo = @ \ {<<w, quality>>}]
<1>0. req[r] \in RequestState /\ req[r].at = "feed"
    BY DEF Feed, IInv, TypeOK
<1>1. rest \in RequestState /\ rest.exercise = req[r].exercise /\ rest.todo \subseteq req[r].todo
      /\ rest.at = "feed"
    BY <1>0 DEF RequestState
<1> HIDE DEF rest
<1>2. PICK state \in RequestState :
          /\ Goto(r, state) /\ ReadSound(state)
          /\ state = Idle \/ (state.at \in {"write", "feed"} /\ state.exercise = rest.exercise
                               /\ state.todo = rest.todo)
  <2>1. CASE Stored(w) /\ ReadForReview(r, w, quality, rest)
    <3>1. quality \in 0..5
        OBVIOUS
    <3>2. QED
        BY <1>1, <2>1, <3>1, ForReview
  <2>2. CASE Finish(r)
      BY <2>2, IdleQuiet DEF Finish, ReadSound
  <2>3. CASE Goto(r, rest)
      BY <1>1, <2>3 DEF ReadSound
  <2>4. QED
      BY <2>1, <2>2, <2>3 DEF Feed, rest
<1>3. req' \in [Request -> RequestState] /\ \A q \in Request : req'[q] = IF q = r THEN state ELSE req[q]
    BY <1>2, Moves DEF IInv
<1>4. ScheduleSound' /\ ScheduleConsistent' /\ RowsNumbered' /\ ReadsSound'
    BY <1>2, <1>3, RowsUntouched DEF Feed, IInv, ReadsSound
<1>5. ResultKnown' /\ GradesAgree'
    BY <1>0, <1>1, <1>2, <1>3, AnswersUntouched, IdleQuiet DEF Feed
<1>6. TypeOK'
    BY <1>3 DEF Feed, IInv, TypeOK
<1>7. QED
    BY <1>4, <1>5, <1>6 DEF IInv

\* Reload and Abort.
LEMMA MoveOnStep ==
    ASSUME IInv, NEW r \in Request, Reload(r) \/ Abort(r)
    PROVE  IInv'
<1>1. PICK state \in RequestState :
          /\ Goto(r, state)
          /\ \/ state = Idle
             \/ /\ state.at = "feed" /\ state.exercise = req[r].exercise
                /\ state.todo = req[r].todo /\ req[r].at = "reload"
  <2>0. req[r] \in RequestState
      BY DEF IInv, TypeOK
  <2>1. [req[r] EXCEPT !.at = "feed", !.word = None] \in RequestState
      BY <2>0 DEF RequestState
  <2>2. CASE Finish(r)
      BY <2>2, IdleQuiet DEF Finish
  <2>3. CASE req[r].at = "reload" /\ Goto(r, [req[r] EXCEPT !.at = "feed", !.word = None])
      BY <2>1, <2>3 DEF IInv, TypeOK, RequestState
  <2>4. QED
      BY <2>2, <2>3 DEF Reload, Abort
<1>2. req' \in [Request -> RequestState] /\ \A q \in Request : req'[q] = IF q = r THEN state ELSE req[q]
    BY <1>1, Moves DEF IInv
<1>3. ReadSound(state)
    BY <1>1, IdleQuiet DEF ReadSound
<1>4. ScheduleSound' /\ ScheduleConsistent' /\ RowsNumbered' /\ ReadsSound'
    BY <1>2, <1>3, RowsUntouched DEF Reload, Abort, IInv, ReadsSound
<1>5. ResultKnown' /\ GradesAgree'
    BY <1>1, <1>2, AnswersUntouched, IdleQuiet DEF Reload, Abort
<1>6. TypeOK'
    BY <1>2 DEF Reload, Abort, IInv, TypeOK
<1>7. QED
    BY <1>4, <1>5, <1>6 DEF IInv

\* A day passes.
LEMMA TomorrowStep == ASSUME IInv, Tomorrow PROVE IInv'
<1>1. ScheduleSound' /\ ScheduleConsistent' /\ RowsNumbered' /\ ReadsSound'
    BY RowsUntouched DEF Tomorrow, IInv, ReadsSound
<1>2. ResultKnown' /\ GradesAgree'
    BY AnswersUntouched DEF Tomorrow
<1>3. TypeOK'
    BY DEF Tomorrow, IInv, TypeOK
<1>4. QED
    BY <1>1, <1>2, <1>3 DEF IInv

-----------------------------------------------------------------------------
(* An answer and its grades *)

\* Every word of a CORRECT answer is known, and a failed word makes it INCORRECT.
LEMMA Graded5 ==
    ASSUME NEW e \in Exercise, NEW reached \in SUBSET Words[e], NEW right \in SUBSET reached,
           NEW timed_out \in BOOLEAN, NEW mistakes \in 0..MaxMistakes
    PROVE  LET result == Grade(e, right, timed_out, mistakes)
               todo == Graded(e, result, reached, right)
           IN  /\ result \in AttemptResult
               /\ todo \in SUBSET (Word \X (0..5))
               /\ result = "CORRECT" => todo = Words[e] \X {5}
               /\ (\E t \in todo : t[2] < 3) => result = "INCORRECT"
<1> DEFINE result == Grade(e, right, timed_out, mistakes)
           todo == Graded(e, result, reached, right)
<1>1. result \in AttemptResult /\ (result = "CORRECT" => right = Words[e])
    BY DEF Grade, AttemptResult
<1>2. Words[e] \subseteq Word
    OBVIOUS
<1> HIDE DEF result
<1>3. todo \in SUBSET (Word \X (0..5))
    BY <1>2 DEF Graded
<1>4. result = "CORRECT" => todo = Words[e] \X {5}
    BY <1>1 DEF Graded
<1>5. (\E t \in todo : t[2] < 3) => result = "INCORRECT"
    BY <1>1, <1>4 DEF AttemptResult
<1>6. QED
    BY <1>1, <1>3, <1>4, <1>5 DEF result

LEMMA SubmitStep ==
    ASSUME IInv, NEW r \in Request, NEW e \in Exercise, SubmitAttempt(r, e)
    PROVE  IInv'
<1>0. PICK reached \in SUBSET Words[e], timed_out \in BOOLEAN, mistakes \in 0..MaxMistakes :
          \E right \in SUBSET reached :
              LET result == Grade(e, right, timed_out, mistakes) IN
              Goto(r, [Idle EXCEPT !.at = "attempt", !.exercise = e, !.result = result,
                                   !.todo = Graded(e, result, reached, right)])
    BY DEF SubmitAttempt
<1>1. PICK right \in SUBSET reached :
          LET result == Grade(e, right, timed_out, mistakes) IN
          Goto(r, [Idle EXCEPT !.at = "attempt", !.exercise = e, !.result = result,
                               !.todo = Graded(e, result, reached, right)])
    BY <1>0
<1> DEFINE result == Grade(e, right, timed_out, mistakes)
           todo == Graded(e, result, reached, right)
           state == [Idle EXCEPT !.at = "attempt", !.exercise = e, !.result = result, !.todo = todo]
<1>2. /\ result \in AttemptResult
      /\ todo \in SUBSET (Word \X (0..5))
      /\ result = "CORRECT" => todo = Words[e] \X {5}
      /\ (\E t \in todo : t[2] < 3) => result = "INCORRECT"
    BY Graded5
<1>3. Goto(r, state)
    BY <1>1
<1> HIDE DEF todo, result
<1>4. state \in RequestState /\ state.at = "attempt" /\ state.exercise = e /\ state.result = result
      /\ state.todo = todo
    BY <1>2, IdleQuiet DEF RequestState
<1> HIDE DEF state
<1>5. req' \in [Request -> RequestState] /\ \A q \in Request : req'[q] = IF q = r THEN state ELSE req[q]
    BY <1>3, <1>4, Moves DEF IInv
<1>6. ScheduleSound' /\ ScheduleConsistent' /\ RowsNumbered' /\ ReadsSound'
  <2>1. ReadSound(state)
      BY <1>4 DEF ReadSound
  <2>2. QED
      BY <1>5, <2>1, RowsUntouched DEF SubmitAttempt, IInv, ReadsSound
<1>7. ResultKnown'
    BY <1>2, <1>4, <1>5 DEF IInv, ResultKnown
<1>8. GradesAgree'
    BY <1>2, <1>4, <1>5 DEF IInv, GradesAgree, SubmitAttempt
<1>9. TypeOK'
    BY <1>5 DEF SubmitAttempt, IInv, TypeOK
<1>10. QED
    BY <1>6, <1>7, <1>8, <1>9 DEF IInv

LEMMA RecordStep ==
    ASSUME IInv, NEW r \in Request, RecordAttempt(r)
    PROVE  IInv'
<1> DEFINE state == [req[r] EXCEPT !.at = "complete"]
           e == req[r].exercise
<1>1. /\ req[r] \in RequestState /\ req[r].at = "attempt"
      /\ e \in Exercise /\ req[r].result \in AttemptResult
    BY DEF RecordAttempt, IInv, TypeOK, ResultKnown
<1>2. /\ state \in RequestState /\ state.at = "complete" /\ state.exercise = e
      /\ state.result = req[r].result /\ state.todo = req[r].todo
    BY <1>1 DEF RequestState
<1>3. Goto(r, state)
    BY DEF RecordAttempt
<1> HIDE DEF state, e
<1>4. req' \in [Request -> RequestState] /\ \A q \in Request : req'[q] = IF q = r THEN state ELSE req[q]
    BY <1>2, <1>3, Moves DEF IInv
<1>5. attempts' = [attempts EXCEPT ![e] = @ \cup {req[r].result}]
    BY DEF RecordAttempt, e
<1>6. /\ attempts' \in [Exercise -> SUBSET AttemptResult]
      /\ req[r].result \in attempts'[e]
      /\ \A d \in Exercise : attempts[d] \subseteq attempts'[d]
    BY <1>1, <1>5 DEF IInv, TypeOK
<1>7. ScheduleSound' /\ ScheduleConsistent' /\ RowsNumbered' /\ ReadsSound'
  <2>1. ReadSound(state)
      BY <1>2 DEF ReadSound
  <2>2. QED
      BY <1>4, <2>1, RowsUntouched DEF RecordAttempt, IInv, ReadsSound
<1>8. ResultKnown'
    BY <1>1, <1>2, <1>4 DEF IInv, ResultKnown
<1>9. GradesAgree'
  <2> SUFFICES ASSUME NEW q \in Request, req'[q].exercise # None
               PROVE  /\ (req'[q].at \in {"attempt", "complete"} /\ req'[q].result = "CORRECT") =>
                            req'[q].todo = Words[req'[q].exercise] \X {5}
                      /\ (\E t \in req'[q].todo : t[2] < 3) =>
                            IF req'[q].at = "attempt" THEN req'[q].result = "INCORRECT"
                            ELSE "INCORRECT" \in attempts'[req'[q].exercise]
      BY DEF GradesAgree
  <2>1. CASE q = r
    <3>1. (\E t \in req[r].todo : t[2] < 3) => req[r].result = "INCORRECT"
        BY <1>1, <1>2, <1>4, <2>1 DEF IInv, GradesAgree, e
    <3>2. req[r].result = "CORRECT" => req[r].todo = Words[e] \X {5}
        BY <1>1, <1>2, <1>4, <2>1 DEF IInv, GradesAgree, e
    <3>3. QED
        BY <1>2, <1>4, <1>6, <2>1, <3>1, <3>2
  <2>2. CASE q # r
    <3>1. req'[q] = req[q] /\ req[q].exercise \in Exercise
        BY <1>4, <2>2 DEF IInv, TypeOK, RequestState
    <3>2. QED
        BY <1>6, <3>1 DEF IInv, GradesAgree
  <2>3. QED
      BY <2>1, <2>2
<1>10. TypeOK'
    BY <1>4, <1>6 DEF RecordAttempt, IInv, TypeOK
<1>11. QED
    BY <1>7, <1>8, <1>9, <1>10 DEF IInv

LEMMA CompleteStep ==
    ASSUME IInv, NEW r \in Request, Complete(r)
    PROVE  IInv'
<1>1. req[r] \in RequestState /\ req[r].at = "complete"
    BY DEF Complete, IInv, TypeOK
<1>2. PICK state \in RequestState :
          /\ Goto(r, state)
          /\ state = Idle \/ (state.at = "feed" /\ state.exercise = req[r].exercise
                               /\ state.todo = req[r].todo)
  <2>1. CASE Finish(r)
      BY <2>1, IdleQuiet DEF Finish
  <2>2. CASE Goto(r, [req[r] EXCEPT !.at = "feed", !.result = None])
    <3> DEFINE state == [req[r] EXCEPT !.at = "feed", !.result = None]
    <3>1. /\ state \in RequestState /\ state.at = "feed" /\ state.exercise = req[r].exercise
          /\ state.todo = req[r].todo
        BY <1>1 DEF RequestState
    <3>2. QED
        BY <2>2, <3>1
  <2>3. QED
      BY <2>1, <2>2 DEF Complete
<1>3. req' \in [Request -> RequestState] /\ \A q \in Request : req'[q] = IF q = r THEN state ELSE req[q]
    BY <1>2, Moves DEF IInv
<1>4. ScheduleSound' /\ ScheduleConsistent' /\ RowsNumbered' /\ ReadsSound'
  <2>1. ReadSound(state)
      BY <1>2, IdleQuiet DEF ReadSound
  <2>2. QED
      BY <1>3, <2>1, RowsUntouched DEF Complete, IInv, ReadsSound
<1>5. ResultKnown' /\ GradesAgree'
    BY <1>1, <1>2, <1>3, AnswersUntouched, IdleQuiet DEF Complete
<1>6. TypeOK'
  <2>1. completed' \in SUBSET Exercise
      BY <1>1 DEF Complete, IInv, TypeOK, ResultKnown
  <2>2. QED
      BY <1>3, <2>1 DEF Complete, IInv, TypeOK
<1>7. QED
    BY <1>4, <1>5, <1>6 DEF IInv

-----------------------------------------------------------------------------
(* The steps that change the rows *)

LEMMA WriteStep ==
    ASSUME IInv, NEW r \in Request, WriteReview(r)
    PROVE  IInv'
<1> DEFINE w == req[r].word
           read == req[r].read
           new == req[r].new
           now == user_words[w]
           state == [req[r] EXCEPT !.at = "reload", !.read = None, !.new = None]
<1>1. req[r] \in RequestState /\ req[r].at = "write" /\ ReadSound(req[r])
    BY DEF WriteReview, IInv, TypeOK, ReadsSound
<1>2. /\ w \in Word /\ read \in UserWord /\ new \in UserWord
      /\ RowSound(read) /\ NextRow(read, new) /\ read.uuid <= captures
    BY <1>1 DEF ReadSound
<1>3. CASE ~(Stored(w) /\ now.uuid = read.uuid)
  <2>1. Finish(r) /\ UNCHANGED <<today, captures, user_words, completed, attempts, reviews, raced>>
      BY <1>3 DEF WriteReview
  <2>2. req' \in [Request -> RequestState] /\ \A q \in Request : req'[q] = IF q = r THEN Idle ELSE req[q]
      BY <2>1, Moves, IdleQuiet DEF IInv, Finish
  <2>3. ScheduleSound' /\ ScheduleConsistent' /\ RowsNumbered' /\ ReadsSound'
      BY <2>1, <2>2, RowsUntouched, IdleQuiet DEF IInv, ReadsSound, ReadSound
  <2>4. ResultKnown' /\ GradesAgree'
      BY <2>1, <2>2, AnswersUntouched, IdleQuiet
  <2>5. TypeOK'
      BY <2>1, <2>2 DEF IInv, TypeOK
  <2>6. QED
      BY <2>3, <2>4, <2>5 DEF IInv
<1>4. CASE Stored(w) /\ now.uuid = read.uuid
  <2> DEFINE row == Updated(now, read, new)
  <2>1. /\ user_words' = [user_words EXCEPT ![w] = row]
        /\ reviews' = [reviews EXCEPT ![w] = @ + 1]
        /\ raced' = IF now = read THEN raced ELSE raced \cup {w}
        /\ Goto(r, state)
        /\ UNCHANGED <<today, captures, completed, attempts>>
      BY <1>4 DEF WriteReview
  <2>2. now \in UserWord /\ RowSound(now) /\ now.uuid <= captures
      BY <1>2, <1>4 DEF IInv, TypeOK, ScheduleSound, RowsNumbered, Stored
  <2>3. read.last_reviewed_at # None => now.last_reviewed_at # None
      BY <1>1, <1>4 DEF ReadSound
  <2>4. /\ row \in UserWord /\ RowSound(row) /\ row # None
        /\ row.uuid = now.uuid /\ row.last_reviewed_at # None
    <3>1. row.uuid = now.uuid /\ row.last_reviewed_at = new.last_reviewed_at
        BY DEF Updated
    <3>2. new.last_reviewed_at # None
        BY <1>2 DEF NextRow
    <3>3. row \in UserWord
        BY <1>2, <2>2, UpdatedType
    <3>4. RowSound(row)
        BY <1>2, <2>2, <2>3, TornSound
    <3>5. QED
        BY <3>1, <3>2, <3>3, <3>4
  <2>5. \A v \in Word : user_words'[v] = IF v = w THEN row ELSE user_words[v]
      BY <2>1 DEF IInv, TypeOK
  <2>6. \A v \in Word : reviews'[v] = IF v = w THEN reviews[w] + 1 ELSE reviews[v]
      BY <2>1 DEF IInv, TypeOK
  <2>7. RowsNumbered' /\ ScheduleSound'
      BY <2>1, <2>2, <2>4, <2>5 DEF IInv, RowsNumbered, ScheduleSound, Stored
  <2>8. ScheduleConsistent'
    <3> SUFFICES ASSUME NEW v \in Word, v \notin raced', Stored(v)'
                 PROVE  RowConsistent(user_words'[v], reviews'[v])
        BY DEF ScheduleConsistent
    <3>1. CASE v # w
      <4>1. user_words'[v] = user_words[v] /\ reviews'[v] = reviews[v] /\ v \notin raced /\ Stored(v)
          BY <2>1, <2>5, <2>6, <3>1 DEF Stored
      <4>2. QED
          BY <4>1 DEF IInv, ScheduleConsistent
    <3>2. CASE v = w
      <4>1. now = read /\ w \notin raced
          BY <2>1, <3>2
      <4>2. RowConsistent(read, reviews[w]) /\ reviews[w] \in Nat
          BY <1>2, <1>4, <4>1 DEF IInv, ScheduleConsistent, TypeOK
      <4>3. RowConsistent(Updated(read, read, new), reviews[w] + 1)
          BY <1>2, <4>2, UpdatedFresh
      <4>4. QED
          BY <2>5, <2>6, <3>2, <4>1, <4>3
    <3>3. QED
        BY <3>1, <3>2
  <2> HIDE DEF row
  <2>9. /\ state \in RequestState /\ state.at = "reload" /\ state.exercise = req[r].exercise
        /\ state.todo = req[r].todo
      BY <1>1 DEF RequestState
  <2> HIDE DEF state
  <2>10. req' \in [Request -> RequestState] /\ \A q \in Request : req'[q] = IF q = r THEN state ELSE req[q]
      BY <2>1, <2>9, Moves DEF IInv
  <2>11. ReadsSound'
    <3> SUFFICES ASSUME NEW q \in Request PROVE ReadSound(req[q])'
        BY DEF ReadsSound
    <3>1. CASE q = r
        BY <2>9, <2>10, <3>1 DEF ReadSound
    <3>2. CASE q # r
      <4>1. req'[q] = req[q] /\ ReadSound(req[q])
          BY <2>10, <3>2 DEF IInv, ReadsSound
      <4>2. \A v \in Word : (Stored(v)' /\ user_words'[v].last_reviewed_at = None) =>
                user_words'[v] = user_words[v]
          BY <2>4, <2>5
      <4>3. QED
          BY <2>1, <4>1, <4>2 DEF ReadSound, Stored
    <3>3. QED
        BY <3>1, <3>2
  <2>12. ResultKnown' /\ GradesAgree'
      BY <1>1, <2>1, <2>9, <2>10, AnswersUntouched
  <2>13. TypeOK'
    <3>1. user_words' \in [Word -> UserWord \cup {None}]
        BY <2>1, <2>4 DEF IInv, TypeOK
    <3>2. reviews' \in [Word -> Nat]
        BY <1>2, <2>1 DEF IInv, TypeOK
    <3>3. raced' \in SUBSET Word
        BY <1>2, <2>1 DEF IInv, TypeOK
    <3>4. QED
        BY <2>1, <2>10, <3>1, <3>2, <3>3 DEF IInv, TypeOK
  <2>14. QED
      BY <2>7, <2>8, <2>11, <2>12, <2>13 DEF IInv
<1>5. QED
    BY <1>3, <1>4

LEMMA NewRow ==
    ASSUME NEW uuid \in Nat
    PROVE  /\ NewUserWord(uuid) \in UserWord
           /\ NewUserWord(uuid).uuid = uuid
           /\ RowSound(NewUserWord(uuid))
           /\ RowConsistent(NewUserWord(uuid), 0)
    BY DEF NewUserWord, UserWord, MasteryLevel, RowSound, RowConsistent

LEMMA CaptureStep == ASSUME IInv, NEW w \in Word, Capture(w) PROVE IInv'
<1> DEFINE row == NewUserWord(captures + 1)
<1>1. captures \in Nat /\ captures' = captures + 1 /\ captures' \in 0..MaxCaptures
    BY DEF Capture, IInv, TypeOK
<1>2. row \in UserWord /\ row.uuid = captures + 1 /\ RowSound(row) /\ RowConsistent(row, 0) /\ row # None
    BY <1>1, NewRow
<1>3. user_words' = [user_words EXCEPT ![w] = row]
    BY DEF Capture
<1> HIDE DEF row
<1>4. \A v \in Word : user_words'[v] = IF v = w THEN row ELSE user_words[v]
    BY <1>3 DEF IInv, TypeOK
<1>5. /\ reviews' \in [Word -> Nat]
      /\ \A v \in Word : reviews'[v] = IF v = w THEN 0 ELSE reviews[v]
      /\ raced' = raced \ {w} /\ req' = req
    BY DEF Capture, IInv, TypeOK
<1>6. \A v \in Word : Stored(v) => user_words[v] \in UserWord /\ user_words[v].uuid <= captures
    BY DEF IInv, TypeOK, RowsNumbered, Stored
<1>7. RowsNumbered' /\ ScheduleSound'
  <2>1. \A v \in Word : Stored(v)' => RowSound(user_words'[v])
      BY <1>2, <1>4 DEF IInv, ScheduleSound, Stored
  <2>2. \A v \in Word : Stored(v)' => user_words'[v].uuid <= captures'
      BY <1>1, <1>2, <1>4, <1>6 DEF Stored, UserWord
  <2>3. \A v \in Word : Stored(v)' /\ v # w => Stored(v) /\ user_words'[v].uuid < row.uuid
      BY <1>1, <1>2, <1>4, <1>6 DEF Stored, UserWord
  <2>4. \A u, v \in Word : Stored(u)' /\ Stored(v)' /\ user_words'[u].uuid = user_words'[v].uuid => u = v
      BY <1>2, <1>4, <2>3 DEF IInv, RowsNumbered, Stored, UserWord
  <2>5. QED
      BY <2>1, <2>2, <2>4 DEF RowsNumbered, ScheduleSound
<1>8. ScheduleConsistent'
  <2> SUFFICES ASSUME NEW v \in Word, v \notin raced', Stored(v)'
               PROVE  RowConsistent(user_words'[v], reviews'[v])
      BY DEF ScheduleConsistent
  <2>1. CASE v = w
      BY <1>2, <1>4, <1>5, <2>1
  <2>2. CASE v # w
    <3>1. user_words'[v] = user_words[v] /\ reviews'[v] = reviews[v] /\ v \notin raced /\ Stored(v)
        BY <1>4, <1>5, <2>2 DEF Stored
    <3>2. QED
        BY <3>1 DEF IInv, ScheduleConsistent
  <2>3. QED
      BY <2>1, <2>2
<1>9. ReadsSound'
  <2> SUFFICES ASSUME NEW q \in Request PROVE ReadSound(req[q])'
      BY DEF ReadsSound
  <2>1. ReadSound(req[q]) /\ req'[q] = req[q]
      BY <1>5 DEF IInv, ReadsSound
  <2>2. req[q].at = "write" => req[q].read.uuid \in Nat
      BY <2>1 DEF ReadSound, UserWord
  <2>3. CASE req[q].at = "write"
    <3>1. req[q].read.uuid <= captures' /\ req[q].read.uuid # row.uuid
        BY <1>1, <1>2, <2>1, <2>2, <2>3 DEF ReadSound
    <3>2. QED
        BY <1>4, <2>1, <3>1 DEF ReadSound, Stored
  <2>4. QED
      BY <2>1, <2>3 DEF ReadSound
<1>10. ResultKnown' /\ GradesAgree'
    BY AnswersUntouched DEF Capture
<1>11. TypeOK'
  <2>1. user_words' \in [Word -> UserWord \cup {None}]
      BY <1>2, <1>3 DEF IInv, TypeOK
  <2>2. QED
      BY <1>1, <1>5, <2>1 DEF Capture, IInv, TypeOK
<1>12. QED
    BY <1>7, <1>8, <1>9, <1>10, <1>11 DEF IInv

LEMMA RemoveStep == ASSUME IInv, NEW w \in Word, Remove(w) PROVE IInv'
<1>1. \A v \in Word : user_words'[v] = IF v = w THEN None ELSE user_words[v]
    BY DEF Remove, IInv, TypeOK
<1>2. UNCHANGED <<captures, reviews, raced, req>>
    BY DEF Remove
<1>3. ScheduleSound' /\ ScheduleConsistent' /\ RowsNumbered'
    BY <1>1, <1>2 DEF IInv, ScheduleSound, ScheduleConsistent, RowsNumbered, Stored
<1>4. ReadsSound'
    BY <1>1, <1>2 DEF IInv, ReadsSound, ReadSound, Stored
<1>5. ResultKnown' /\ GradesAgree'
    BY AnswersUntouched DEF Remove
<1>6. TypeOK'
    BY DEF Remove, IInv, TypeOK
<1>7. QED
    BY <1>3, <1>4, <1>5, <1>6 DEF IInv

-----------------------------------------------------------------------------
(* Which words come next *)

StrictOrder(before, S) ==
    /\ \A v \in S : <<v, v>> \notin before
    /\ \A u, v, w \in S : <<u, v>> \in before /\ <<v, w>> \in before => <<u, w>> \in before
    /\ \A v, w \in S : v = w \/ <<v, w>> \in before \/ <<w, v>> \in before

AtMost(n, limit) == IF n < limit THEN n ELSE limit

\* A word's position in S is the number of words before it: no two share one.
LEMMA FirstOfCardinality ==
    ASSUME NEW S, IsFiniteSet(S), NEW before, StrictOrder(before, S), NEW limit \in Nat
    PROVE  /\ FirstOf(S, before, limit) \subseteq S
           /\ Cardinality(FirstOf(S, before, limit)) = AtMost(Cardinality(S), limit)
<1> DEFINE Below(w) == {v \in S : <<v, w>> \in before}
           pos == [w \in S |-> Cardinality(Below(w))]
           n == Cardinality(S)
           first == FirstOf(S, before, limit)
           m == AtMost(n, limit)
<1>0. n \in Nat /\ m \in Nat /\ first \subseteq S
    BY FS_CardinalityType DEF AtMost, FirstOf
<1>1. \A w \in S : IsFiniteSet(Below(w)) /\ Cardinality(Below(w)) \in 0..(n - 1)
  <2> TAKE w \in S
  <2>1. IsFiniteSet(S \ {w}) /\ Cardinality(S \ {w}) = n - 1
      BY FS_RemoveElement
  <2>2. Below(w) \subseteq S \ {w}
      BY DEF StrictOrder
  <2> HIDE DEF Below
  <2>3. IsFiniteSet(Below(w)) /\ Cardinality(Below(w)) <= n - 1
      BY <2>1, <2>2, FS_Subset
  <2>4. QED
      BY <1>0, <2>3, FS_CardinalityType
<1>2. \A v, w \in S : <<v, w>> \in before => Cardinality(Below(v)) < Cardinality(Below(w))
  <2> SUFFICES ASSUME NEW v \in S, NEW w \in S, <<v, w>> \in before
               PROVE  Cardinality(Below(v)) < Cardinality(Below(w))
      OBVIOUS
  <2>1. Below(v) \subseteq Below(w) /\ v \in Below(w) /\ v \notin Below(v)
      BY DEF StrictOrder
  <2> HIDE DEF Below
  <2>2. Cardinality(Below(v)) <= Cardinality(Below(w)) /\ Cardinality(Below(v)) # Cardinality(Below(w))
      BY <1>1, <2>1, FS_Subset
  <2>3. QED
      BY <1>1, <2>2
<1> HIDE DEF Below
<1>3. pos \in Injection(S, 0..(n - 1))
  <2>1. pos \in [S -> 0..(n - 1)]
      BY <1>1
  <2>2. ASSUME NEW v \in S, NEW w \in S, v # w PROVE pos[v] # pos[w]
    <3>1. Cardinality(Below(v)) \in Int /\ Cardinality(Below(w)) \in Int
        BY <1>1
    <3>2. Cardinality(Below(v)) < Cardinality(Below(w)) \/ Cardinality(Below(w)) < Cardinality(Below(v))
        BY <1>2, <2>2 DEF StrictOrder
    <3>3. QED
        BY <3>1, <3>2
  <2>3. QED
      BY <2>1, <2>2 DEF Injection, IsInjective
<1>4. pos \in Surjection(S, 0..(n - 1))
  <2>1. IsFiniteSet(0..(n - 1)) /\ Cardinality(0..(n - 1)) = n
    <3> HIDE DEF n
    <3>1. 0 \in Int /\ n - 1 \in Int
        BY <1>0
    <3>2. IsFiniteSet(0..(n - 1))
          /\ Cardinality(0..(n - 1)) = IF 0 > n - 1 THEN 0 ELSE (n - 1) - 0 + 1
        BY <3>1, FS_Interval, Zenon
    <3>3. QED
        BY <1>0, <3>2
  <2>2. QED
      BY <1>3, <2>1, FS_Injection
<1>5. \A w \in S : w \in first <=> pos[w] < limit
    BY DEF FirstOf, Below
<1>6. \A w \in first : pos[w] \in 0..(m - 1)
    BY <1>0, <1>1, <1>5 DEF AtMost
<1> DEFINE place == [w \in first |-> pos[w]]
<1>7. place \in Bijection(first, 0..(m - 1))
  <2>1. place \in Injection(first, 0..(m - 1))
    <3>1. \A v, w \in S : pos[v] = pos[w] => v = w
        BY <1>3 DEF Injection, IsInjective
    <3>2. place \in [first -> 0..(m - 1)]
        BY <1>6
    <3> HIDE DEF pos, first
    <3>3. \A v, w \in first : place[v] = place[w] => v = w
        BY <1>0, <3>1
    <3>4. QED
        BY <3>2, <3>3 DEF Injection, IsInjective
  <2>2. \A i \in 0..(m - 1) : \E w \in first : pos[w] = i
    <3> SUFFICES ASSUME NEW i \in 0..(m - 1) PROVE \E w \in first : pos[w] = i
        OBVIOUS
    <3>1. i \in 0..(n - 1) /\ i < limit
        BY <1>0 DEF AtMost
    <3> HIDE DEF pos, first, n, m
    <3>2. PICK w \in S : pos[w] = i
        BY <1>4, <3>1 DEF Surjection
    <3>3. QED
        BY <1>5, <3>1, <3>2
  <2>3. QED
      BY <2>1, <2>2 DEF Injection, Surjection, Bijection
<1>8. IsFiniteSet(first)
    BY <1>0, FS_Subset
<1>9. Cardinality(first) = m
  <2>1. Cardinality(0..(m - 1)) = m
      BY <1>0, FS_Interval
  <2>2. QED
      BY <1>7, <1>8, <2>1, FS_Bijection DEF ExistsBijection
<1>10. QED
    BY <1>0, <1>9

Known == {w \in Word : Stored(w)}

LEMMA KnownRows ==
    ASSUME TypeOK, RowsNumbered
    PROVE  /\ IsFiniteSet(Known) /\ DueWords \subseteq Known
           /\ \A w \in Known : user_words[w] \in UserWord
           /\ \A v, w \in Known : user_words[v].uuid = user_words[w].uuid => v = w
    BY FS_Subset DEF Known, DueWords, TypeOK, RowsNumbered, Stored

LEMMA NewestFirst ==
    ASSUME TypeOK, RowsNumbered, NEW S \in SUBSET Known, NEW limit \in Nat
    PROVE  /\ newest(S, limit) \subseteq S
           /\ Cardinality(newest(S, limit)) = AtMost(Cardinality(S), limit)
<1>1. IsFiniteSet(S)
    BY KnownRows, FS_Subset
<1>2. \A v, w \in S : <<v, w>> \in Newer(S) <=> user_words[v].uuid > user_words[w].uuid
    BY DEF Newer
<1>3. \A v \in S : user_words[v].uuid \in Nat
    BY KnownRows DEF UserWord
<1>4. StrictOrder(Newer(S), S)
    BY <1>2, <1>3, KnownRows DEF StrictOrder
<1>5. QED
    BY <1>1, <1>4, FirstOfCardinality DEF newest

LEMMA DueFirst ==
    ASSUME TypeOK, RowsNumbered, NEW limit \in Nat
    PROVE  /\ list_due(limit) \subseteq DueWords
           /\ Cardinality(list_due(limit)) = AtMost(Cardinality(DueWords), limit)
<1>1. IsFiniteSet(DueWords)
    BY KnownRows, FS_Subset
<1>2. \A v, w \in DueWords : <<v, w>> \in Sooner(DueWords) <=> SoonerRow(user_words[v], user_words[w])
    BY DEF Sooner
<1>3. \A v \in DueWords : user_words[v].uuid \in Nat /\ user_words[v].due_at \in Int \cup {None}
    BY KnownRows DEF UserWord
<1>4. \A v, w \in DueWords : user_words[v].uuid = user_words[w].uuid => v = w
    BY KnownRows
<1>5. StrictOrder(Sooner(DueWords), DueWords)
    BY <1>2, <1>3, <1>4 DEF StrictOrder, SoonerRow
<1>6. QED
    BY <1>1, <1>5, FirstOfCardinality DEF list_due

LEMMA RefillFills == ASSUME TypeOK, RowsNumbered PROVE CandidatesFill
<1> SUFFICES ASSUME NEW limit \in 1..Cardinality(Word)
             PROVE  /\ Cardinality(_candidate_words(limit)) = AtMost(Cardinality(Known), limit)
                    /\ _candidate_words(limit) \subseteq DueWords \/ DueWords \subseteq _candidate_words(limit)
    BY DEF CandidatesFill, Known, AtMost
<1> DEFINE due == list_due(limit)
           rows == newest(Known, limit)
           rest == limit - Cardinality(due)
           topup == newest(rows \ due, rest)
<1>1. IsFiniteSet(Known) /\ IsFiniteSet(DueWords) /\ IsFiniteSet(due) /\ DueWords \subseteq Known
      /\ due \subseteq DueWords
    BY KnownRows, DueFirst, FS_Subset
<1>2. /\ Cardinality(Known) \in Nat /\ Cardinality(DueWords) \in Nat /\ Cardinality(due) \in Nat
      /\ Cardinality(DueWords) <= Cardinality(Known) /\ limit \in Nat
    BY <1>1, FS_CardinalityType, FS_Subset
<1>3. Cardinality(due) = AtMost(Cardinality(DueWords), limit)
    BY <1>2, DueFirst
<1>4. CASE Cardinality(due) >= limit
  <2>1. _candidate_words(limit) = due
      BY <1>4 DEF _candidate_words
  <2>2. Cardinality(due) = AtMost(Cardinality(Known), limit)
      BY <1>2, <1>3, <1>4 DEF AtMost
  <2>3. QED
      BY <1>1, <2>1, <2>2
<1>5. CASE Cardinality(due) < limit
  <2>1. _candidate_words(limit) = due \cup topup
      BY <1>2, <1>5 DEF _candidate_words, TopUp, Known
  <2>2. due = DueWords
      BY <1>1, <1>2, <1>3, <1>5, FS_Subset DEF AtMost
  <2>3. rows \subseteq Known /\ IsFiniteSet(rows) /\ Cardinality(rows) = AtMost(Cardinality(Known), limit)
      BY <1>1, <1>2, NewestFirst, FS_Subset
  <2>4. rest \in Nat
      BY <1>2, <1>5
  <2> HIDE DEF due, rows, rest
  <2>5. IsFiniteSet(rows \ due) /\ Cardinality(rows \ due) \in Nat
        /\ Cardinality(rows \ due) = Cardinality(rows) - Cardinality(rows \cap due)
      BY <2>3, FS_Difference, FS_CardinalityType
  <2>6. topup \subseteq rows \ due /\ IsFiniteSet(topup) /\ Cardinality(topup) = AtMost(Cardinality(rows \ due), rest)
      BY <2>3, <2>4, <2>5, NewestFirst, FS_Subset
  <2> HIDE DEF topup
  <2>7. Cardinality(due \cup topup) = Cardinality(due) + Cardinality(topup)
    <3>1. due \cap topup = {}
        BY <2>6
    <3>2. Cardinality(due \cup topup) = Cardinality(due) + Cardinality(topup) - Cardinality(due \cap topup)
        BY <1>1, <2>6, FS_Union
    <3>3. Cardinality(due \cap topup) = 0 /\ Cardinality(topup) \in Nat
        BY <2>6, <3>1, FS_EmptySet, FS_CardinalityType
    <3>4. QED
        BY <1>2, <3>2, <3>3
  <2>8. /\ Cardinality(rows \cap due) \in Nat
        /\ Cardinality(rows \cap due) <= Cardinality(due)
        /\ Cardinality(rows) \in Nat
      BY <1>1, <2>3, FS_Intersection, FS_CardinalityType
  <2>9. Cardinality(Known) < limit => Cardinality(rows \cap due) = Cardinality(due)
    <3> SUFFICES ASSUME Cardinality(Known) < limit PROVE Cardinality(rows \cap due) = Cardinality(due)
        OBVIOUS
    <3>1. Cardinality(rows) = Cardinality(Known)
        BY <2>3 DEF AtMost
    <3>2. rows = Known
        BY <1>1, <2>3, <3>1, FS_Subset
    <3>3. rows \cap due = due
        BY <1>1, <3>2
    <3>4. QED
        BY <3>3
  <2>10. Cardinality(due) + Cardinality(topup) = AtMost(Cardinality(Known), limit)
      BY <1>2, <1>5, <2>3, <2>5, <2>6, <2>8, <2>9 DEF AtMost, rest
  <2>11. QED
      BY <2>1, <2>2, <2>7, <2>10
<1>6. QED
    BY <1>2, <1>4, <1>5

-----------------------------------------------------------------------------
(* Theorems *)

LEMMA InitInv == Init => IInv
<1> SUFFICES ASSUME Init PROVE IInv
    OBVIOUS
<1>1. \A w \in Word : Stored(w) =>
          /\ w \in StartWords /\ user_words[w] \in UserWord /\ user_words[w].uuid <= captures
          /\ RowSound(user_words[w]) /\ RowConsistent(user_words[w], ReviewsOf(user_words[w]))
    BY DEF Init, Stored, StartWords
<1>2. \A w \in Word : ReviewsOf(Start[w]) \in Nat
    BY DEF ReviewsOf, UserWord
<1>3. TypeOK
  <2>1. captures \in 0..MaxCaptures
      BY FS_Subset, FS_CardinalityType DEF Init, StartWords
  <2>2. QED
      BY <1>2, <2>1, IdleQuiet DEF Init, TypeOK
<1>4. ScheduleSound /\ RowsNumbered
    BY <1>1 DEF Init, ScheduleSound, RowsNumbered
<1>5. ScheduleConsistent
    BY <1>1 DEF Init, ScheduleConsistent
<1>6. ReadsSound /\ ResultKnown /\ GradesAgree
    BY IdleQuiet DEF Init, ReadsSound, ReadSound, ResultKnown, GradesAgree
<1>7. QED
    BY <1>3, <1>4, <1>5, <1>6 DEF IInv

LEMMA Invariance == Spec => []IInv
<1>1. IInv /\ [Next]_vars => IInv'
  <2> SUFFICES ASSUME IInv, [Next]_vars PROVE IInv'
      OBVIOUS
  <2>1. CASE Next
      BY <2>1, ReviewStep, SubmitStep, FeedStep, WriteStep, MoveOnStep, RecordStep, CompleteStep,
         CaptureStep, RemoveStep, TomorrowStep
         DEF Next
  <2>2. CASE UNCHANGED vars
      BY <2>2 DEF vars, IInv, TypeOK, ScheduleSound, ScheduleConsistent, RowsNumbered, ReadsSound,
                  ReadSound, ResultKnown, GradesAgree, Stored
  <2>3. QED
      BY <2>1, <2>2
<1>2. QED
    BY <1>1, InitInv, PTL DEF Spec

(***************************************************************************)
(* The vocabulary, the attempts and the requests keep their types, for any *)
(* words, exercises and number of requests.                                *)
(***************************************************************************)
THEOREM TypeCorrect == Spec => []TypeOK
    BY Invariance, PTL DEF IInv

(***************************************************************************)
(* However reviews overlap and overwrite each other's columns, the ease    *)
(* factor keeps its floor, a reviewed word is due after its last review, a *)
(* streak is covered by correct answers, and NEW means unreviewed.         *)
(***************************************************************************)
THEOREM TornRowsStaySound == Spec => []ScheduleSound
    BY Invariance, PTL DEF IInv

(***************************************************************************)
(* A row no review has overwritten unread counts each of its reviews once, *)
(* and its due date and mastery level are those its streak and interval    *)
(* stand for.                                                              *)
(***************************************************************************)
THEOREM ReviewsAreSerial == Spec => []ScheduleConsistent
    BY Invariance, PTL DEF IInv

(***************************************************************************)
(* The result recorded for an answer and the reviews it feeds agree, for   *)
(* cards and rounds of any size and any limit on mistakes.                 *)
(***************************************************************************)
THEOREM GradesAlwaysAgree == Spec => []GradesAgree
    BY Invariance, PTL DEF IInv

(***************************************************************************)
(* A refill asked for `limit` words gets that many, or the whole of a      *)
(* smaller vocabulary, and takes no other word while one that is due is    *)
(* left, for any vocabulary and any due dates.                             *)
(***************************************************************************)
THEOREM RefillsAreFilled == Spec => []CandidatesFill
<1>1. IInv => CandidatesFill
    BY RefillFills DEF IInv
<1>2. QED
    BY <1>1, Invariance, PTL
=============================================================================
