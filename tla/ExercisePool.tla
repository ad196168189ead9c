----------------------------- MODULE ExercisePool -----------------------------
(***************************************************************************)
(* The exercise pool of one learner in one practice language: refills,     *)
(* serving, answering and the type preferences                             *)
(* (app/services/learning/exercise_service.py).                            *)
(*                                                                         *)
(* A refill runs in the Celery worker, or in the web process when there is *)
(* none; web requests run beside it.  One action is one database statement *)
(* of one of them with the Python that follows it; consecutive reads that  *)
(* decide one thing are one action.  Every repository call commits.        *)
(***************************************************************************)
EXTENDS UsageLimits, FiniteSets

CONSTANTS
    CardType,      \* the single-word exercise types
    OnDemand,      \* the types learners ask for by name
    Refiller,      \* slots for refills; the worker has one
    Request,       \* slots for concurrently running web requests
    Target,        \* EXERCISE_POOL_TARGET
    PerType,       \* _ON_DEMAND_PER_TYPE
    RoundWords,    \* MATCH_PAIRS_TOTAL
    AdminStatus,   \* the statuses the admin panel sets
    MaxExercises,  \* bound: exercises ever stored
    MaxAttempts    \* bound: attempts at an exercise before no further one starts

MATCH_PAIRS == "MATCH_PAIRS"
ExerciseStatus == {"READY", "SERVED", "COMPLETED"}
Type == CardType \cup {MATCH_PAIRS}
ExerciseId == 1..MaxExercises

ASSUME ExercisePoolAssumption ==
    /\ IsFiniteSet(CardType)
    /\ IsFiniteSet(Refiller)
    /\ IsFiniteSet(Request)
    /\ MATCH_PAIRS \notin CardType
    /\ OnDemand \subseteq Type
    /\ AdminStatus \subseteq ExerciseStatus
    /\ Target \in Nat
    /\ PerType \in Nat
    /\ RoundWords \in Nat
    /\ MaxExercises \in Nat
    /\ MaxAttempts \in Nat
    /\ None \notin Type

VARIABLES
    preferences,  \* the types in User.preferences
    last,         \* exercises stored so far; ids in created_at order
    exercises,    \* the rows of exercises, None where there is none
    attempts,     \* rows of exercise_attempts per exercise
    reviews,      \* history: SM-2 reviews fed from answers of the exercise
    refill,       \* the refill running in each slot
    web           \* the web request running in each slot

pool == <<preferences, last, exercises, attempts, reviews>>
vars == <<quota, pool, refill, web>>

Exercise ==
    [exercise_type : Type, status : ExerciseStatus, created_at : Day]

-----------------------------------------------------------------------------
(* The pool *)

Stored(e) == exercises[e] # None
Pending == {e \in ExerciseId : Stored(e) /\ exercises[e].status \in {"READY", "SERVED"}}
PendingOf(types) == {e \in Pending : exercises[e].exercise_type \in types}

\* next_pending: a served one first, then the oldest.
NextPending(types) ==
    LET served == {e \in PendingOf(types) : exercises[e].status = "SERVED"}
        from == IF served # {} THEN served ELSE PendingOf(types)
    IN  {e \in from : \A f \in from : e <= f}

Store(type) ==
    /\ last < MaxExercises
    /\ last' = last + 1
    /\ exercises' = [exercises EXCEPT ![last + 1] =
                        [exercise_type |-> type, status |-> "READY", created_at |-> day]]

SetStatus(e, status) ==
    exercises' = [exercises EXCEPT ![e] =
                     [exercise_type |-> @.exercise_type, status |-> status,
                      created_at |-> @.created_at]]

\* Rows go with their attempts (ON DELETE CASCADE).
Drop(ids) ==
    /\ exercises' = [e \in ExerciseId |-> IF e \in ids THEN None ELSE exercises[e]]
    /\ attempts' = [e \in ExerciseId |-> IF e \in ids THEN 0 ELSE attempts[e]]

-----------------------------------------------------------------------------
(* What a refill and a web request hold in their local variables *)

RefillStage == {"idle", "budget", "pairs", "store_pairs", "count", "store", "consume", "charge"}

RefillState ==
    [at : RefillStage, only : Type \cup {None}, enabled : SUBSET Type,
     budget : Nat \cup {None}, left : Nat, created : Nat,
     period : Day \cup {None}, row : Nat \cup {None}]

NoRefill ==
    [at |-> "idle", only |-> None, enabled |-> {}, budget |-> None, left |-> 0,
     created |-> 0, period |-> None, row |-> None]

WebStage == {"idle", "serve", "attempt", "complete", "feed", "preferences", "drop"}

WebState ==
    [at : WebStage, exercise : ExerciseId \cup {None}, left : Nat,
     types : SUBSET Type, read : SUBSET Type]

NoRequest == [at |-> "idle", exercise |-> None, left |-> 0, types |-> {}, read |-> {}]

Answering(at, e, left) ==
    [at |-> at, exercise |-> e, left |-> left, types |-> {}, read |-> {}]
Choosing(at, types, read) ==
    [at |-> at, exercise |-> None, left |-> 0, types |-> types, read |-> read]

Run(f, state) == refill' = [refill EXCEPT ![f] = state]
EndRefill(f) == Run(f, NoRefill)
Serve(r, state) == web' = [web EXCEPT ![r] = state]
EndRequest(r) == Serve(r, NoRequest)

TypeOK ==
    /\ QuotaTypeOK
    /\ preferences \in (SUBSET Type) \ {{}}
    /\ last \in 0..MaxExercises
    /\ exercises \in [ExerciseId -> Exercise \cup {None}]
    /\ attempts \in [ExerciseId -> Nat]
    /\ reviews \in [ExerciseId -> Nat]
    /\ refill \in [Refiller -> RefillState]
    /\ web \in [Request -> WebState]

\* Every type is on until the user says otherwise.
Init ==
    /\ QuotaInit
    /\ preferences = Type
    /\ last = 0
    /\ exercises = [e \in ExerciseId |-> None]
    /\ attempts = [e \in ExerciseId |-> 0]
    /\ reviews = [e \in ExerciseId |-> 0]
    /\ refill = [f \in Refiller |-> NoRefill]
    /\ web = [r \in Request |-> NoRequest]

-----------------------------------------------------------------------------
(* replenish and _generate_of_type *)

\* What is left to do once a refill has `left` words to try.
Trying(state, left, created) ==
    [state EXCEPT !.at = IF left > 0 THEN "store" ELSE "consume",
                  !.left = left, !.created = created]

\* A top-up reads the preferences; a request by name ignores them.
StartRefill(f, only) ==
    /\ refill[f].at = "idle"
    /\ Run(f, [NoRefill EXCEPT !.at = "budget", !.only = only,
                               !.enabled = IF only = None THEN preferences ELSE {}])
    /\ UNCHANGED <<quota, pool, web>>

\* Words to build from are a choice: as many as there are, up to the number wanted.
ReadBudget(f) ==
    LET budget == generation_budget
        state == [refill[f] EXCEPT !.budget = budget]
        want == IF budget = None \/ PerType <= budget THEN PerType ELSE budget
    IN
    /\ refill[f].at = "budget"
    /\ \/ /\ budget = 0
          /\ EndRefill(f)
       \/ /\ budget # 0
          /\ \/ /\ state.only = MATCH_PAIRS \/ MATCH_PAIRS \in state.enabled
                /\ Run(f, [state EXCEPT !.at = "pairs"])
             \/ /\ state.only = None /\ MATCH_PAIRS \notin state.enabled
                /\ Run(f, [state EXCEPT !.at = "count"])
             \/ /\ state.only \in CardType
                /\ \E words \in 0..want : Run(f, Trying(state, words, 0))
    /\ UNCHANGED <<quota, pool, web>>

\* _generate_match_pairs up to its INSERT: a pending round, too few words, or
\* too few translations leave it without a round.
CheckPairs(f) ==
    /\ refill[f].at = "pairs"
    /\ \/ /\ PendingOf({MATCH_PAIRS}) = {}
          /\ Run(f, [refill[f] EXCEPT !.at = "store_pairs"])
       \/ Run(f, [refill[f] EXCEPT !.at = IF refill[f].only = None THEN "count" ELSE "consume"])
    /\ UNCHANGED <<quota, pool, web>>

StorePairs(f) ==
    /\ refill[f].at = "store_pairs"
    /\ Store(MATCH_PAIRS)
    /\ Run(f, [refill[f] EXCEPT !.at = IF refill[f].only = None THEN "count" ELSE "consume",
                                !.created = @ + 1])
    /\ UNCHANGED <<quota, preferences, attempts, reviews, web>>

\* Mutant: the exercises pending already are not counted.
NeedIgnoresPending(state) ==
    IF state.budget = None \/ Target <= state.budget - state.created
    THEN Target ELSE state.budget - state.created

\* How many cards a top-up is to make.
Need(state) ==
    LET room == Target - Cardinality(Pending) IN
    IF state.budget = None \/ room <= state.budget - state.created
    THEN room ELSE state.budget - state.created

CountPending(f) ==
    LET cards == refill[f].enabled \ {MATCH_PAIRS} IN
    /\ refill[f].at = "count"
    /\ IF cards = {} \/ Need(refill[f]) <= 0
       THEN Run(f, Trying(refill[f], 0, refill[f].created))
       ELSE \E words \in 0..Need(refill[f]) : Run(f, Trying(refill[f], words, refill[f].created))
    /\ UNCHANGED <<quota, pool, web>>

\* _generate_and_store: the type is the next of the rotation, here any of it.
StoreCard(f, type) ==
    /\ refill[f].at = "store"
    /\ IF refill[f].only = None THEN type \in refill[f].enabled ELSE type = refill[f].only
    /\ Store(type)
    /\ Run(f, Trying(refill[f], refill[f].left - 1, refill[f].created + 1))
    /\ UNCHANGED <<quota, preferences, attempts, reviews, web>>

\* The AI provider fails, or its answer is not a valid exercise.
SkipCard(f) ==
    /\ refill[f].at = "store"
    /\ Run(f, Trying(refill[f], refill[f].left - 1, refill[f].created))
    /\ UNCHANGED <<quota, pool, web>>

\* consume_generations: the day and the access are those of now.
ReadUsage(f) ==
    /\ refill[f].at = "consume"
    /\ IF refill[f].created <= 0 \/ Unlimited
       THEN EndRefill(f)
       ELSE Run(f, [refill[f] EXCEPT !.at = "charge", !.period = day, !.row = used[day]])
    /\ UNCHANGED <<quota, pool, web>>

Charge(f) ==
    /\ refill[f].at = "charge"
    /\ IF ConsumptionRefused(refill[f].period, refill[f].row)
       THEN UNCHANGED used
       ELSE ConsumeGenerations(refill[f].period, refill[f].row, refill[f].created)
    /\ EndRefill(f)
    /\ UNCHANGED <<day, premium, plan_changes, pool, web>>

\* A crash, the task's time limit or any other exception; a retry of the task
\* is a new refill.
AbortRefill(f) ==
    /\ refill[f].at # "idle"
    /\ EndRefill(f)
    /\ UNCHANGED <<quota, pool, web>>

-----------------------------------------------------------------------------
(* get_next and submit_attempt *)

\* One that is SERVED already is handed out again with nothing written.
GetNext(r, types) ==
    /\ web[r].at = "idle"
    /\ \E e \in NextPending(types) :
          /\ exercises[e].status = "READY"
          /\ Serve(r, Answering("serve", e, 0))
    /\ UNCHANGED <<quota, pool, refill>>

\* The UPDATE writes what it read as READY; it fails when the row is gone.
MarkServed(r) ==
    LET e == web[r].exercise IN
    /\ web[r].at = "serve"
    /\ IF Stored(e) THEN SetStatus(e, "SERVED") ELSE UNCHANGED exercises
    /\ EndRequest(r)
    /\ UNCHANGED <<quota, preferences, last, attempts, reviews, refill>>

\* Mutant: every exercise is fed like a round.
SubmitAsRound(r, e) ==
    /\ web[r].at = "idle"
    /\ Stored(e)
    /\ exercises[e].status # "COMPLETED"
    /\ attempts[e] < MaxAttempts
    /\ \E words \in 0..RoundWords : Serve(r, Answering("attempt", e, words))
    /\ UNCHANGED <<quota, pool, refill>>

\* One review for a card whose word is still in the vocabulary, one per word
\* reached for a round.
SubmitAttempt(r, e) ==
    /\ web[r].at = "idle"
    /\ Stored(e)
    /\ exercises[e].status # "COMPLETED"
    /\ attempts[e] < MaxAttempts
    /\ \E words \in 0..(IF exercises[e].exercise_type = MATCH_PAIRS THEN RoundWords ELSE 1) :
          Serve(r, Answering("attempt", e, words))
    /\ UNCHANGED <<quota, pool, refill>>

\* The foreign key refuses an attempt at an exercise dropped meanwhile.
RecordAttempt(r) ==
    LET e == web[r].exercise IN
    /\ web[r].at = "attempt"
    /\ IF Stored(e)
       THEN /\ attempts' = [attempts EXCEPT ![e] = @ + 1]
            /\ Serve(r, Answering("complete", e, web[r].left))
       ELSE /\ EndRequest(r)
            /\ UNCHANGED attempts
    /\ UNCHANGED <<quota, preferences, last, exercises, reviews, refill>>

Complete(r) ==
    LET e == web[r].exercise IN
    /\ web[r].at = "complete"
    /\ IF Stored(e)
       THEN /\ SetStatus(e, "COMPLETED")
            /\ Serve(r, IF web[r].left = 0 THEN NoRequest ELSE Answering("feed", e, web[r].left))
       ELSE /\ EndRequest(r)
            /\ UNCHANGED exercises
    /\ UNCHANGED <<quota, preferences, last, attempts, reviews, refill>>

\* Mutant: the last word does not end the request.
FeedOneTooMany(r) ==
    LET e == web[r].exercise IN
    /\ web[r].at = "feed"
    /\ reviews' = reviews
    /\ Serve(r, Answering("feed", e, web[r].left - 1))
    /\ UNCHANGED <<quota, preferences, last, exercises, attempts, refill>>

\* One SM-2 review of _feed_spaced_repetition.
Feed(r) ==
    LET e == web[r].exercise IN
    /\ web[r].at = "feed"
    /\ reviews' = [reviews EXCEPT ![e] = @ + 1]
    /\ Serve(r, IF web[r].left = 1 THEN NoRequest ELSE Answering("feed", e, web[r].left - 1))
    /\ UNCHANGED <<quota, preferences, last, exercises, attempts, refill>>

-----------------------------------------------------------------------------
(* set_preferences, moderation, crashes *)

SetPreferences(r, types) ==
    /\ web[r].at = "idle"
    /\ Serve(r, Choosing("preferences", types, preferences))
    /\ UNCHANGED <<quota, pool, refill>>

\* The UPDATE is not sent when the new value equals the one read.
WritePreferences(r) ==
    /\ web[r].at = "preferences"
    /\ preferences' = IF web[r].types # web[r].read THEN web[r].types ELSE preferences
    /\ Serve(r, Choosing("drop", web[r].types, {}))
    /\ UNCHANGED <<quota, last, exercises, attempts, reviews, refill>>

\* drop_ready_of_types
DropDisabled(r) ==
    /\ web[r].at = "drop"
    /\ Drop({e \in PendingOf(Type \ web[r].types) : exercises[e].status = "READY"})
    /\ EndRequest(r)
    /\ UNCHANGED <<quota, preferences, last, reviews, refill>>

\* delete_exercise of the admin panel.
DeleteExercise(e) ==
    /\ Stored(e)
    /\ Drop({e})
    /\ UNCHANGED <<quota, preferences, last, reviews, refill, web>>

\* update_exercise of the admin panel: any status, whatever it was.
UpdateExercise(e, status) ==
    /\ Stored(e)
    /\ SetStatus(e, status)
    /\ UNCHANGED <<quota, preferences, last, attempts, reviews, refill, web>>

\* The server dies or a statement of the request fails.
AbortRequest(r) ==
    /\ web[r].at # "idle"
    /\ EndRequest(r)
    /\ UNCHANGED <<quota, pool, refill>>

-----------------------------------------------------------------------------

Refilling(f) ==
    \/ ReadBudget(f) \/ CheckPairs(f) \/ StorePairs(f) \/ CountPending(f)
    \/ \E type \in CardType : StoreCard(f, type)
    \/ SkipCard(f) \/ ReadUsage(f) \/ Charge(f)

Serving(r) ==
    \/ MarkServed(r) \/ RecordAttempt(r) \/ Complete(r) \/ Feed(r)
    \/ WritePreferences(r) \/ DropDisabled(r)

Next ==
    \/ \E f \in Refiller : \E only \in OnDemand \cup {None} : StartRefill(f, only)
    \/ \E f \in Refiller : Refilling(f) \/ AbortRefill(f)
    \/ \E r \in Request : \E types \in {Type} \cup {{t} : t \in OnDemand} : GetNext(r, types)
    \/ \E r \in Request, e \in ExerciseId : SubmitAttempt(r, e)
    \/ \E r \in Request : \E types \in (SUBSET Type) \ {{}} : SetPreferences(r, types)
    \/ \E r \in Request : Serving(r) \/ AbortRequest(r)
    \/ \E e \in ExerciseId : DeleteExercise(e) \/ \E status \in AdminStatus : UpdateExercise(e, status)
    \/ NewDay /\ UNCHANGED <<pool, refill, web>>
    \/ ChangePlan /\ UNCHANGED <<pool, refill, web>>

Spec == Init /\ [][Next]_vars

-----------------------------------------------------------------------------
(* Properties *)

(***************************************************************************)
(* Spaced repetition is fed from recorded attempts only, each word of an   *)
(* exercise at most once per attempt, whatever crashes or overlaps.        *)
(***************************************************************************)
ReviewsEarned ==
    \A e \in ExerciseId :
        Stored(e) =>
            reviews[e] <= attempts[e] *
                (IF exercises[e].exercise_type = MATCH_PAIRS THEN RoundWords ELSE 1)

(***************************************************************************)
(* The learner is never charged for more generations than were stored:     *)
(* failed words, lost updates, refused inserts and aborted refills all err *)
(* in the learner's favour.                                                *)
(***************************************************************************)
NeverOvercharged ==
    Cardinality(UNION {{d} \X (1..used[d]) : d \in {d \in Day : used[d] # None}}) <= last

(***************************************************************************)
(* With one refill at a time and an unchanged plan the counter of a day    *)
(* never passes the free limit, whichever refills abort and are repeated.  *)
(***************************************************************************)
WithinQuota == \A d \in Day : used[d] # None => used[d] <= Limit

ToppingUp(f) == refill[f].only = None /\ \E type \in CardType : StoreCard(f, type)

(***************************************************************************)
(* A top-up stops at the target: no card it stores brings the unanswered   *)
(* inventory above EXERCISE_POOL_TARGET, answers, drops and preference     *)
(* changes during the refill included, with one request at a time.  For an *)
(* answered one to be pending again it takes an admin editing statuses, or *)
(* a SERVED that one request writes after another has answered.            *)
(***************************************************************************)
TopUpStopsAtTarget ==
    [][\A f \in Refiller : ToppingUp(f) => Cardinality(Pending') <= Target]_vars

-----------------------------------------------------------------------------
(* What documents and comments of the repository claim and the code does not *)

\* usage_limit_service.py:1 "Free tier is capped per day": of the exercises a
\* free learner has, at most Limit were made on any day.
FreeTierCapped ==
    (plan_changes = 0 /\ Limit > 0) =>
        \A d \in Day : Cardinality({e \in ExerciseId : Stored(e) /\ exercises[e].created_at = d}) <= Limit

\* exercise_service.py:296 "keep one pending per language": at most one
\* match-pairs round waits to be answered.
OneRoundPending == Cardinality(PendingOf({MATCH_PAIRS})) <= 1

\* models/exercise.py:16 "pre-generated (READY) -> served -> completed": there is
\* no way back.
CompletedIsFinal ==
    [][\A e \in ExerciseId :
        (Stored(e) /\ exercises[e].status = "COMPLETED") =>
            exercises'[e] = None \/ exercises'[e].status = "COMPLETED"]_vars

\* exercise_service.py:138 "Exercise already answered": a second answer is refused.
AnsweredOnce == \A e \in ExerciseId : attempts[e] <= 1

\* routers/exercises.py:47 "disabled ones leave the pool": with no request of
\* theirs running, what waits to be served is of the enabled types.
DisabledLeaveThePool ==
    ((\A r \in Request : web[r].at = "idle") /\ OnDemand = {}) =>
        \A e \in Pending :
            exercises[e].status = "READY" => exercises[e].exercise_type \in preferences
=============================================================================
