CONSTANTS
    None = None
    w1 = w1
    w2 = w2
    round = round
    Word <- MCWord
    Exercise <- MCExercise
    Words <- MCWords
    Round = {round}
    MaxMistakes = 1
    Quality = {4}
    Request = {r1, r2}
    MaxInterval = 100
    MaxDay = 1
    MaxCaptures = 2
    MaxReviews <- MCMaxReviews
    Start <- MCStart
SPECIFICATION Spec
SYMMETRY RequestSymmetry
INVARIANTS TypeOK ScheduleSound ScheduleConsistent GradesAgree CandidatesFill
CHECK_DEADLOCK FALSE
