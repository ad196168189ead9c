-------------------------- MODULE ExercisePoolProofs --------------------------
(***************************************************************************)
(* Theorems about ExercisePool, for any exercise types, targets, limits,   *)
(* days and overlapping requests.                                          *)
(*                                                                         *)
(* The daily limit is kept although the budget is read long before it is   *)
(* charged: a single refill is the only one to move the counter, and a day *)
(* that begins meanwhile begins with an unused one.                        *)
(*                                                                         *)
(* Sums over days and requests are never taken.  What is charged, owed or  *)
(* still to be paid is a set of tokens, and a step moves tokens from one   *)
(* set to another.                                                         *)
(***************************************************************************)
EXTENDS ExercisePool, FiniteSetTheorems, TLAPS

-----------------------------------------------------------------------------
(* Counting *)

LEMMA UpTo ==
    ASSUME NEW n \in Nat
    PROVE  IsFiniteSet(1..n) /\ Cardinality(1..n) = n
<1>1. IsFiniteSet(1..n) /\ Cardinality(1..n) = IF 1 > n THEN 0 ELSE n - 1 + 1
    BY FS_Interval
<1>2. QED
    BY <1>1

\* The first n tokens of one owner, and of each of several.
LEMMA Tokens ==
    ASSUME NEW x, NEW n \in Nat
    PROVE  IsFiniteSet({x} \X (1..n)) /\ Cardinality({x} \X (1..n)) = n
<1>1. IsFiniteSet({x}) /\ Cardinality({x}) = 1
    BY FS_Singleton
<1>2. IsFiniteSet(1..n) /\ Cardinality(1..n) = n
    BY UpTo
<1>3. /\ IsFiniteSet({x} \X (1..n))
      /\ Cardinality({x} \X (1..n)) = Cardinality({x}) * Cardinality(1..n)
    BY <1>1, <1>2, FS_Product
<1>4. QED
    BY <1>1, <1>2, <1>3

LEMMA TokensOfAll ==
    ASSUME NEW S, IsFiniteSet(S), NEW n \in Nat
    PROVE  IsFiniteSet(S \X (1..n))
    BY UpTo, FS_Product

USE UsageLimitsAssumption, ExercisePoolAssumption

-----------------------------------------------------------------------------
(* Types *)

LEMMA PendingFinite == IsFiniteSet(Pending) /\ Cardinality(Pending) \in Nat
<1>1. IsFiniteSet(ExerciseId)
    BY FS_Interval DEF ExerciseId
<1>2. QED
    BY <1>1, FS_Subset, FS_CardinalityType DEF Pending

LEMMA BudgetTyped ==
    ASSUME QuotaTypeOK
    PROVE  generation_budget \in Nat \cup {None}
    BY DEF QuotaTypeOK, generation_budget

\* A refill that goes on as `state`, and one that makes a number of tries.
LEMMA RunTyped ==
    ASSUME TypeOK, NEW f \in Refiller, NEW state \in RefillState, Run(f, state)
    PROVE  /\ refill' \in [Refiller -> RefillState]
           /\ \A g \in Refiller : refill'[g] = IF g = f THEN state ELSE refill[g]
    BY DEF TypeOK, Run

\* A refill knows how many words it has left, and never plans past its budget.
Past == {"pairs", "store_pairs", "count", "store", "consume", "charge"}

RefillSound(s) ==
    /\ s.at = "budget" => s.created = 0 /\ s.left = 0
    /\ s.at = "store" => s.left > 0
    /\ s.at \in {"pairs", "store_pairs"} => s.created = 0 /\ s.budget # 0
    /\ s.at \in {"pairs", "store_pairs", "count"} => s.left = 0
    /\ s.at \in Past /\ s.budget # None => s.created + s.left <= s.budget
    /\ s.at = "charge" => s.period \in Day

\* How the budget and the row a refill holds come about in a step.
Holds(old, s) ==
    \/ s.at \in {"idle", "budget"}
    \/ /\ old.at = "budget" /\ s.at \in Past \ {"charge"}
       /\ s.budget = generation_budget
    \/ /\ old.at \in Past \ {"charge"} /\ s.at \in Past \ {"charge"}
       /\ s.budget = old.budget
    \/ /\ old.at = "consume" /\ s.at = "charge" /\ ~Unlimited
       /\ s.budget = old.budget /\ s.created = old.created
       /\ s.period = day /\ s.row = used[day]

LEMMA TryingTyped ==
    ASSUME NEW state \in RefillState, NEW left \in Nat, NEW created \in Nat
    PROVE  /\ Trying(state, left, created) \in RefillState
           /\ Trying(state, left, created).budget = state.budget
           /\ Trying(state, left, created).at = IF left > 0 THEN "store" ELSE "consume"
           /\ Trying(state, left, created).left = left
           /\ Trying(state, left, created).created = created
    BY DEF Trying, RefillState, RefillStage

\* What a refill makes of the words it has: as many tries as fit the budget.
LEMMA TryingSound ==
    ASSUME NEW state \in RefillState, NEW left \in Nat, NEW created \in Nat,
           state.budget # None => created + left <= state.budget
    PROVE  /\ Trying(state, left, created) \in RefillState
           /\ RefillSound(Trying(state, left, created))
           /\ Trying(state, left, created).budget = state.budget
           /\ Trying(state, left, created).at \in {"store", "consume"}
<1> DEFINE s == Trying(state, left, created)
<1>1. /\ s \in RefillState /\ s.budget = state.budget
      /\ s.at = (IF left > 0 THEN "store" ELSE "consume") /\ s.left = left /\ s.created = created
    BY TryingTyped
<1> HIDE DEF s
<1>2. RefillSound(s)
    BY <1>1 DEF RefillSound
<1>3. QED
    BY <1>1, <1>2 DEF s

LEMMA NoRefillSound == NoRefill \in RefillState /\ NoRefill.at = "idle" /\ RefillSound(NoRefill)
    BY DEF NoRefill, RefillState, RefillStage, RefillSound, Past

LEMMA NeedTyped ==
    ASSUME NEW state \in RefillState
    PROVE  Need(state) \in Int
    BY PendingFinite DEF Need, RefillState

LEMMA StoreTyped ==
    ASSUME TypeOK, NEW type \in Type, Store(type)
    PROVE  /\ last' \in 0..MaxExercises
           /\ exercises' \in [ExerciseId -> Exercise \cup {None}]
<1>1. day \in Day /\ last \in 0..MaxExercises
    BY DEF TypeOK, QuotaTypeOK
<1>2. [exercise_type |-> type, status |-> "READY", created_at |-> day] \in Exercise
    BY <1>1 DEF Exercise, ExerciseStatus
<1>3. QED
    BY <1>1, <1>2 DEF Store, TypeOK, ExerciseId

LEMMA SetStatusTyped ==
    ASSUME TypeOK, NEW e \in ExerciseId, Stored(e), NEW status \in ExerciseStatus, SetStatus(e, status)
    PROVE  exercises' \in [ExerciseId -> Exercise \cup {None}]
<1>1. exercises[e] \in Exercise
    BY DEF TypeOK, Stored
<1>2. [exercise_type |-> exercises[e].exercise_type, status |-> status,
       created_at |-> exercises[e].created_at] \in Exercise
    BY <1>1 DEF Exercise
<1>3. QED
    BY <1>2 DEF SetStatus, TypeOK

LEMMA DropTyped ==
    ASSUME TypeOK, NEW ids, Drop(ids)
    PROVE  /\ exercises' \in [ExerciseId -> Exercise \cup {None}]
           /\ attempts' \in [ExerciseId -> Nat]
    BY DEF Drop, TypeOK

LEMMA WebTyped ==
    /\ NoRequest \in WebState
    /\ \A at \in WebStage, e \in ExerciseId, left \in Nat : Answering(at, e, left) \in WebState
    /\ \A at \in WebStage, types, read \in SUBSET Type : Choosing(at, types, read) \in WebState
    BY DEF NoRequest, Answering, Choosing, WebState, WebStage


-----------------------------------------------------------------------------
(* The stages of a refill *)

\* The goal of the lemmas of this part.
Proceeds(f) ==
    \E s \in RefillState : Run(f, s) /\ RefillSound(s) /\ Holds(refill[f], s)

LEMMA Ends ==
    ASSUME NEW f, EndRefill(f)
    PROVE  Proceeds(f)
    BY NoRefillSound DEF EndRefill, Proceeds, Holds

LEMMA Tries ==
    ASSUME NEW f, NEW state \in RefillState, NEW left \in Nat, NEW created \in Nat,
           state.budget # None => created + left <= state.budget,
           Run(f, Trying(state, left, created)),
           \/ refill[f].at = "budget" /\ state.budget = generation_budget
           \/ refill[f].at \in Past \ {"charge"} /\ state.budget = refill[f].budget
    PROVE  Proceeds(f)
<1>1. PICK s : s = Trying(state, left, created)
    OBVIOUS
<1>2. /\ s \in RefillState /\ RefillSound(s) /\ s.budget = state.budget
      /\ s.at \in {"store", "consume"}
    BY <1>1, TryingSound
<1>3. Holds(refill[f], s)
    BY <1>2 DEF Holds, Past
<1>4. QED
    BY <1>1, <1>2, <1>3 DEF Proceeds

LEMMA StartRefillProceeds ==
    ASSUME TypeOK, NEW f \in Refiller, NEW only \in OnDemand \cup {None}, StartRefill(f, only)
    PROVE  Proceeds(f)
<1>1. PICK enabled \in SUBSET Type : enabled = IF only = None THEN preferences ELSE {}
    BY DEF TypeOK
<1>2. PICK s : s = [NoRefill EXCEPT !.at = "budget", !.only = only, !.enabled = enabled]
    OBVIOUS
<1>3. s \in RefillState /\ s.at = "budget" /\ s.created = 0 /\ s.left = 0
    BY <1>1, <1>2 DEF NoRefill, RefillState, RefillStage
<1>4. RefillSound(s) /\ Holds(refill[f], s)
    BY <1>3 DEF RefillSound, Holds, Past
<1>5. Run(f, s)
    BY <1>1, <1>2 DEF StartRefill
<1>6. QED
    BY <1>3, <1>4, <1>5 DEF Proceeds

LEMMA ReadBudgetProceeds ==
    ASSUME TypeOK, NEW f \in Refiller, RefillSound(refill[f]), ReadBudget(f)
    PROVE  Proceeds(f)
<1>1. refill[f] \in RefillState /\ refill[f].at = "budget" /\ refill[f].created = 0 /\ refill[f].left = 0
    BY DEF TypeOK, ReadBudget, RefillSound
<1>2. PICK budget \in Nat \cup {None} : budget = generation_budget
    BY BudgetTyped DEF TypeOK
<1>3. PICK state : state = [refill[f] EXCEPT !.budget = budget]
    OBVIOUS
<1>4. state \in RefillState /\ state.budget = budget /\ state.created = 0 /\ state.left = 0
    BY <1>1, <1>2, <1>3 DEF RefillState
<1>5. CASE budget = 0
    BY <1>2, <1>5, Ends DEF ReadBudget
<1>6. ASSUME NEW at \in {"pairs", "count"}, budget # 0, Run(f, [state EXCEPT !.at = at])
      PROVE  Proceeds(f)
  <2>1. PICK s : s = [state EXCEPT !.at = at]
      OBVIOUS
  <2>2. s \in RefillState /\ s.at = at /\ s.budget = budget /\ s.created = 0 /\ s.left = 0
      BY <1>4, <2>1 DEF RefillState, RefillStage
  <2>3. RefillSound(s)
      BY <1>2, <1>6, <2>2 DEF RefillSound
  <2>4. Holds(refill[f], s)
      BY <1>1, <1>2, <2>2 DEF Holds, Past
  <2>5. QED
      BY <1>6, <2>1, <2>2, <2>3, <2>4 DEF Proceeds
<1>7. ASSUME NEW words \in 0..(IF budget = None \/ PerType <= budget THEN PerType ELSE budget),
             Run(f, Trying(state, words, 0))
      PROVE  Proceeds(f)
  <2>1. words \in Nat /\ (budget # None => words <= budget)
      BY <1>2, <1>7
  <2>2. QED
      BY <1>1, <1>2, <1>4, <1>7, <2>1, Tries
<1>8. QED
    BY <1>2, <1>3, <1>5, <1>6, <1>7 DEF ReadBudget

\* A refill that goes on within its budget.
LEMMA GoesOn ==
    ASSUME NEW f \in Refiller, NEW s \in RefillState, Run(f, s),
           refill[f].at \in Past \ {"charge"}, s.at \in {"store_pairs", "count", "consume"},
           s.budget = refill[f].budget, s.left = 0,
           s.at = "store_pairs" => s.created = 0 /\ s.budget # 0,
           s.budget # None => s.created <= s.budget
    PROVE  Proceeds(f)
<1>1. RefillSound(s)
    BY DEF RefillSound, RefillState
<1>2. Holds(refill[f], s)
    BY DEF Holds, Past
<1>3. QED
    BY <1>1, <1>2 DEF Proceeds

LEMMA CheckPairsProceeds ==
    ASSUME TypeOK, NEW f \in Refiller, RefillSound(refill[f]), CheckPairs(f)
    PROVE  Proceeds(f)
<1>1. /\ refill[f] \in RefillState /\ refill[f].at = "pairs"
      /\ refill[f].created = 0 /\ refill[f].left = 0 /\ refill[f].budget # 0
      /\ refill[f].at \in Past \ {"charge"}
    BY DEF TypeOK, CheckPairs, RefillSound, Past
<1>2. PICK at \in {"store_pairs", "count", "consume"} : Run(f, [refill[f] EXCEPT !.at = at])
    BY DEF CheckPairs
<1>3. PICK s : s = [refill[f] EXCEPT !.at = at]
    OBVIOUS
<1>4. /\ s \in RefillState /\ s.at = at /\ s.created = 0 /\ s.left = 0
      /\ s.budget = refill[f].budget
    BY <1>1, <1>3 DEF RefillState, RefillStage
<1>5. s.budget # None => s.created <= s.budget
    BY <1>1, <1>4 DEF RefillState
<1>6. QED
    BY <1>1, <1>2, <1>3, <1>4, <1>5, GoesOn

LEMMA StorePairsProceeds ==
    ASSUME TypeOK, NEW f \in Refiller, RefillSound(refill[f]), StorePairs(f)
    PROVE  Proceeds(f)
<1>1. /\ refill[f] \in RefillState /\ refill[f].at = "store_pairs"
      /\ refill[f].created = 0 /\ refill[f].left = 0 /\ refill[f].budget # 0
      /\ refill[f].at \in Past \ {"charge"}
    BY DEF TypeOK, StorePairs, RefillSound, Past
<1>2. PICK at \in {"count", "consume"} :
          at = IF refill[f].only = None THEN "count" ELSE "consume"
    OBVIOUS
<1>3. PICK s : s = [refill[f] EXCEPT !.at = at, !.created = @ + 1]
    OBVIOUS
<1>4. /\ s \in RefillState /\ s.at = at /\ s.created = 1 /\ s.left = 0
      /\ s.budget = refill[f].budget
  <2>1. s = [refill[f] EXCEPT !.at = at, !.created = 1]
      BY <1>1, <1>3
  <2>2. QED
      BY <1>1, <2>1 DEF RefillState, RefillStage
<1>5. s.budget # None => s.created <= s.budget
    BY <1>1, <1>4 DEF RefillState
<1>6. Run(f, s)
    BY <1>2, <1>3 DEF StorePairs
<1>7. QED
    BY <1>1, <1>4, <1>5, <1>6, GoesOn

LEMMA CountPendingProceeds ==
    ASSUME TypeOK, NEW f \in Refiller, RefillSound(refill[f]), CountPending(f)
    PROVE  Proceeds(f)
<1> DEFINE created == refill[f].created
           budget == refill[f].budget
<1>1. /\ refill[f] \in RefillState /\ refill[f].at = "count" /\ refill[f].left = 0
      /\ refill[f].at \in Past \ {"charge"} /\ created \in Nat /\ budget \in Nat \cup {None}
      /\ budget # None => created + 0 <= budget
    BY DEF TypeOK, CountPending, RefillSound, Past, RefillState
<1>2. /\ Need(refill[f]) \in Int
      /\ budget # None => Need(refill[f]) <= budget - created
    BY <1>1, PendingFinite DEF Need
<1>3. PICK words \in Nat : /\ Run(f, Trying(refill[f], words, created))
                           /\ words = 0 \/ words <= Need(refill[f])
    BY <1>2 DEF CountPending
<1>4. budget # None => created + words <= budget
    BY <1>1, <1>2, <1>3
<1>5. QED
    BY <1>1, <1>3, <1>4, Tries

\* One word is tried, and makes a card or not.
LEMMA CardProceeds ==
    ASSUME TypeOK, NEW f \in Refiller, RefillSound(refill[f]),
           SkipCard(f) \/ \E type \in CardType : StoreCard(f, type)
    PROVE  Proceeds(f)
<1>1. /\ refill[f] \in RefillState /\ refill[f].at = "store" /\ refill[f].at \in Past \ {"charge"}
      /\ refill[f].left \in Nat /\ refill[f].left > 0 /\ refill[f].created \in Nat
      /\ refill[f].budget \in Nat \cup {None}
      /\ refill[f].budget # None => refill[f].created + refill[f].left <= refill[f].budget
    BY DEF TypeOK, SkipCard, StoreCard, RefillSound, Past, RefillState
<1>2. PICK left \in Nat, made \in {0, 1} :
          /\ left = refill[f].left - 1
          /\ Run(f, Trying(refill[f], left, refill[f].created + made))
  <2>1. refill[f].left - 1 \in Nat /\ refill[f].created + 0 = refill[f].created
      BY <1>1
  <2>2. QED
      BY <2>1 DEF SkipCard, StoreCard
<1>3. PICK created \in Nat : created = refill[f].created + made
    BY <1>1
<1>4. refill[f].budget # None => created + left <= refill[f].budget
    BY <1>1, <1>2, <1>3
<1>5. QED
    BY <1>1, <1>2, <1>3, <1>4, Tries

LEMMA ReadUsageProceeds ==
    ASSUME TypeOK, NEW f \in Refiller, RefillSound(refill[f]), ReadUsage(f)
    PROVE  Proceeds(f)
<1>1. /\ refill[f] \in RefillState /\ refill[f].at = "consume"
      /\ refill[f].budget # None => refill[f].created + refill[f].left <= refill[f].budget
    BY DEF TypeOK, ReadUsage, RefillSound, Past
<1>2. CASE EndRefill(f)
    BY <1>2, Ends
<1>3. CASE ~EndRefill(f)
  <2>1. PICK row : row = used[day]
      OBVIOUS
  <2>2. day \in Day /\ row \in Nat \cup {None}
      BY <2>1 DEF TypeOK, QuotaTypeOK
  <2>3. PICK s : s = [refill[f] EXCEPT !.at = "charge", !.period = day, !.row = row]
      OBVIOUS
  <2>4. /\ s \in RefillState /\ s.at = "charge" /\ s.period = day /\ s.row = row
        /\ s.budget = refill[f].budget /\ s.created = refill[f].created /\ s.left = refill[f].left
      BY <1>1, <2>2, <2>3 DEF RefillState, RefillStage
  <2>5. RefillSound(s)
      BY <1>1, <2>2, <2>4 DEF RefillSound
  <2>6. Run(f, s) /\ ~Unlimited
      BY <1>3, <2>1, <2>3 DEF ReadUsage
  <2>7. Holds(refill[f], s)
      BY <1>1, <2>1, <2>4, <2>6 DEF Holds
  <2>8. QED
      BY <2>4, <2>5, <2>6, <2>7 DEF Proceeds
<1>4. QED
    BY <1>2, <1>3

LEMMA RefillProceeds ==
    ASSUME TypeOK, NEW f \in Refiller, RefillSound(refill[f]),
           \/ Refilling(f) \/ AbortRefill(f)
           \/ \E only \in OnDemand \cup {None} : StartRefill(f, only)
    PROVE  Proceeds(f)
<1>1. CASE Charge(f) \/ AbortRefill(f)
    BY <1>1, Ends DEF Charge, AbortRefill
<1>2. QED
    BY <1>1, StartRefillProceeds, ReadBudgetProceeds, CheckPairsProceeds, StorePairsProceeds,
       CountPendingProceeds, CardProceeds, ReadUsageProceeds
       DEF Refilling

-----------------------------------------------------------------------------
(* The stages of a web request *)

\* A request about an exercise knows it, and feeds while it has words left.
WebSound(s) ==
    /\ s.at \in {"serve", "attempt", "complete", "feed"} => s.exercise \in ExerciseId
    /\ s.at = "feed" => s.left > 0
    /\ s.at = "preferences" => s.types # {}

Replies(r) == \E s \in WebState : Serve(r, s) /\ WebSound(s)

LEMMA RequestEnds ==
    ASSUME NEW r, EndRequest(r)
    PROVE  Replies(r)
<1>1. NoRequest \in WebState /\ WebSound(NoRequest)
    BY DEF NoRequest, WebState, WebStage, WebSound
<1>2. QED
    BY <1>1 DEF Replies, EndRequest

LEMMA Answers ==
    ASSUME NEW r, NEW at \in {"serve", "attempt", "complete", "feed"}, NEW e \in ExerciseId,
           NEW left \in Nat, at = "feed" => left > 0, Serve(r, Answering(at, e, left))
    PROVE  Replies(r)
<1>1. PICK s : s = Answering(at, e, left)
    OBVIOUS
<1>2. s \in WebState
    BY <1>1 DEF Answering, WebState, WebStage
<1>3. s.at = at /\ s.exercise = e /\ s.left = left
    BY <1>1 DEF Answering
<1>4. WebSound(s)
    BY <1>3 DEF WebSound
<1>5. QED
    BY <1>1, <1>2, <1>4 DEF Replies

LEMMA Chooses ==
    ASSUME NEW r, NEW at \in {"preferences", "drop"}, NEW types \in SUBSET Type,
           NEW read \in SUBSET Type, at = "preferences" => types # {},
           Serve(r, Choosing(at, types, read))
    PROVE  Replies(r)
<1>1. PICK s : s = Choosing(at, types, read)
    OBVIOUS
<1>2. s \in WebState
    BY <1>1 DEF Choosing, WebState, WebStage
<1>3. s.at = at /\ s.types = types
    BY <1>1 DEF Choosing
<1>4. WebSound(s)
    BY <1>3 DEF WebSound
<1>5. QED
    BY <1>1, <1>2, <1>4 DEF Replies

LEMMA RequestStarts ==
    ASSUME TypeOK, NEW r \in Request,
           \/ \E types \in {Type} \cup {{t} : t \in OnDemand} : GetNext(r, types)
           \/ \E e \in ExerciseId : SubmitAttempt(r, e)
           \/ \E types \in (SUBSET Type) \ {{}} : SetPreferences(r, types)
    PROVE  Replies(r)
<1>1. ASSUME NEW types, GetNext(r, types)
      PROVE  Replies(r)
  <2>1. PICK e \in NextPending(types) : Serve(r, Answering("serve", e, 0))
      BY <1>1 DEF GetNext
  <2>2. e \in ExerciseId
      BY DEF NextPending, PendingOf, Pending
  <2>3. QED
      BY <2>1, <2>2, Answers
<1>2. ASSUME NEW e \in ExerciseId, SubmitAttempt(r, e)
      PROVE  Replies(r)
  <2>1. PICK words \in Nat : Serve(r, Answering("attempt", e, words))
      BY <1>2 DEF SubmitAttempt
  <2>2. QED
      BY <2>1, Answers
<1>3. ASSUME NEW types \in (SUBSET Type) \ {{}}, SetPreferences(r, types)
      PROVE  Replies(r)
    BY <1>3, Chooses DEF SetPreferences, TypeOK
<1>4. QED
    BY <1>1, <1>2, <1>3

LEMMA RequestReplies ==
    ASSUME TypeOK, NEW r \in Request, WebSound(web[r]), Serving(r) \/ AbortRequest(r)
    PROVE  Replies(r)
<1> DEFINE e == web[r].exercise
           left == web[r].left
<1>1. left \in Nat /\ web[r].types \in SUBSET Type /\ {} \in SUBSET Type
    BY DEF TypeOK, WebState
<1>2. CASE MarkServed(r) \/ DropDisabled(r) \/ AbortRequest(r)
    BY <1>2, RequestEnds DEF MarkServed, DropDisabled, AbortRequest
<1>3. CASE RecordAttempt(r)
  <2>1. e \in ExerciseId
      BY <1>3 DEF RecordAttempt, WebSound
  <2>2. QED
      BY <1>1, <1>3, <2>1, RequestEnds, Answers DEF RecordAttempt
<1>4. CASE Complete(r)
  <2>1. e \in ExerciseId
      BY <1>4 DEF Complete, WebSound
  <2>2. EndRequest(r) \/ (left > 0 /\ Serve(r, Answering("feed", e, left)))
      BY <1>1, <1>4 DEF Complete, EndRequest
  <2>3. QED
      BY <1>1, <2>1, <2>2, RequestEnds, Answers
<1>5. CASE Feed(r)
  <2>1. e \in ExerciseId /\ left > 0
      BY <1>5 DEF Feed, WebSound
  <2>2. PICK n \in Nat : n = left - 1
      BY <1>1, <2>1
  <2>3. EndRequest(r) \/ (n > 0 /\ Serve(r, Answering("feed", e, n)))
      BY <1>1, <1>5, <2>2 DEF Feed, EndRequest
  <2>4. QED
      BY <2>1, <2>2, <2>3, RequestEnds, Answers
<1>6. CASE WritePreferences(r)
    BY <1>1, <1>6, Chooses DEF WritePreferences
<1>7. QED
    BY <1>2, <1>3, <1>4, <1>5, <1>6 DEF Serving

-----------------------------------------------------------------------------
(* The invariant *)

IInv ==
    /\ TypeOK
    /\ \A f \in Refiller : RefillSound(refill[f])
    /\ \A r \in Request : WebSound(web[r])

PoolTyped ==
    /\ preferences \in (SUBSET Type) \ {{}}
    /\ last \in 0..MaxExercises
    /\ exercises \in [ExerciseId -> Exercise \cup {None}]
    /\ attempts \in [ExerciseId -> Nat]
    /\ reviews \in [ExerciseId -> Nat]

\* A step of a refill.
LEMMA RefillKeeps ==
    ASSUME IInv, NEW f \in Refiller, Proceeds(f), QuotaTypeOK', PoolTyped', UNCHANGED web
    PROVE  IInv'
<1>1. PICK s \in RefillState : Run(f, s) /\ RefillSound(s)
    BY DEF Proceeds
<1>2. /\ refill' \in [Refiller -> RefillState]
      /\ \A g \in Refiller : refill'[g] = IF g = f THEN s ELSE refill[g]
    BY <1>1, RunTyped DEF IInv
<1>3. \A g \in Refiller : RefillSound(refill'[g])
    BY <1>1, <1>2 DEF IInv
<1>4. TypeOK'
    BY <1>2 DEF IInv, TypeOK, PoolTyped
<1>5. QED
    BY <1>3, <1>4 DEF IInv, RefillSound

\* A step of a web request.
LEMMA RequestKeeps ==
    ASSUME IInv, NEW r \in Request, Replies(r), PoolTyped', UNCHANGED <<quota, refill>>
    PROVE  IInv'
<1>1. PICK s \in WebState : Serve(r, s) /\ WebSound(s)
    BY DEF Replies
<1>2. /\ web' \in [Request -> WebState]
      /\ \A q \in Request : web'[q] = IF q = r THEN s ELSE web[q]
    BY <1>1 DEF IInv, TypeOK, Serve
<1>3. \A q \in Request : WebSound(web'[q])
    BY <1>1, <1>2 DEF IInv
<1>4. TypeOK'
    BY <1>2 DEF IInv, TypeOK, PoolTyped, quota, QuotaTypeOK
<1>5. QED
    BY <1>3, <1>4 DEF IInv, WebSound

LEMMA RefillStep ==
    ASSUME IInv, NEW f \in Refiller,
           \/ Refilling(f) \/ AbortRefill(f)
           \/ \E only \in OnDemand \cup {None} : StartRefill(f, only)
    PROVE  IInv'
<1>1. Proceeds(f)
    BY RefillProceeds DEF IInv
<1>2. CASE Charge(f)
  <2>1. UNCHANGED <<day, premium, plan_changes, pool, web>>
      BY <1>2 DEF Charge
  <2>2. /\ refill[f] \in RefillState
        /\ used' = used \/ ConsumeGenerations(refill[f].period, refill[f].row, refill[f].created)
      BY <1>2 DEF Charge, IInv, TypeOK
  <2>3. used' \in [Day -> Nat \cup {None}]
    <3>1. (IF refill[f].row = None THEN refill[f].created ELSE refill[f].row + refill[f].created) \in Nat
        BY <2>2 DEF RefillState
    <3>2. QED
        BY <2>2, <3>1 DEF ConsumeGenerations, IInv, TypeOK, QuotaTypeOK
  <2>4. QuotaTypeOK' /\ PoolTyped' /\ web' = web
      BY <2>1, <2>3 DEF IInv, TypeOK, QuotaTypeOK, PoolTyped, pool
  <2>5. QED
      BY <1>1, <2>4, RefillKeeps
<1>3. ASSUME NEW type \in Type, Store(type), UNCHANGED <<quota, preferences, attempts, reviews, web>>
      PROVE  IInv'
  <2>1. QuotaTypeOK' /\ PoolTyped' /\ web' = web
      BY <1>3, StoreTyped DEF IInv, TypeOK, QuotaTypeOK, PoolTyped, quota
  <2>2. QED
      BY <1>1, <2>1, RefillKeeps
<1>4. CASE UNCHANGED <<quota, pool, web>>
  <2>1. QuotaTypeOK' /\ PoolTyped' /\ web' = web
      BY <1>4 DEF IInv, TypeOK, QuotaTypeOK, PoolTyped, quota, pool
  <2>2. QED
      BY <1>1, <2>1, RefillKeeps
<1>5. CASE StorePairs(f) \/ \E type \in CardType : StoreCard(f, type)
    BY <1>3, <1>5 DEF StorePairs, StoreCard, Type
<1>6. QED
    BY <1>2, <1>4, <1>5
       DEF Refilling, ReadBudget, CheckPairs, CountPending, SkipCard, ReadUsage, AbortRefill,
           StartRefill

LEMMA RequestStep ==
    ASSUME IInv, NEW r \in Request,
           \/ Serving(r) \/ AbortRequest(r)
           \/ \E types \in {Type} \cup {{t} : t \in OnDemand} : GetNext(r, types)
           \/ \E e \in ExerciseId : SubmitAttempt(r, e)
           \/ \E types \in (SUBSET Type) \ {{}} : SetPreferences(r, types)
    PROVE  IInv'
<1> DEFINE e == web[r].exercise
<1>1. Replies(r)
    BY RequestStarts, RequestReplies DEF IInv
<1>2. web[r] \in WebState /\ WebSound(web[r])
    BY DEF IInv, TypeOK
<1>3. UNCHANGED <<quota, refill>>
    BY DEF Serving, AbortRequest, GetNext, SubmitAttempt, SetPreferences, MarkServed, RecordAttempt,
           Complete, Feed, WritePreferences, DropDisabled
<1>4. PoolTyped'
  <2>1. CASE UNCHANGED pool
      BY <2>1 DEF IInv, TypeOK, PoolTyped, pool
  <2>2. CASE MarkServed(r) \/ Complete(r)
    <3>1. e \in ExerciseId
        BY <1>2, <2>2 DEF MarkServed, Complete, WebSound
    <3>2. exercises' \in [ExerciseId -> Exercise \cup {None}]
      <4>1. CASE UNCHANGED exercises
          BY <4>1 DEF IInv, TypeOK
      <4>2. CASE Stored(e) /\ (SetStatus(e, "SERVED") \/ SetStatus(e, "COMPLETED"))
          BY <3>1, <4>2, SetStatusTyped DEF IInv, ExerciseStatus
      <4>3. QED
          BY <2>2, <4>1, <4>2 DEF MarkServed, Complete
    <3>3. QED
        BY <2>2, <3>2 DEF MarkServed, Complete, IInv, TypeOK, PoolTyped
  <2>3. CASE RecordAttempt(r)
    <3>1. e \in ExerciseId /\ attempts[e] + 1 \in Nat
          /\ attempts' \in {attempts, [attempts EXCEPT ![e] = attempts[e] + 1]}
        BY <1>2, <2>3 DEF RecordAttempt, WebSound, IInv, TypeOK
    <3>2. QED
        BY <2>3, <3>1 DEF RecordAttempt, IInv, TypeOK, PoolTyped
  <2>4. CASE Feed(r)
    <3>1. e \in ExerciseId /\ reviews[e] + 1 \in Nat /\ reviews' = [reviews EXCEPT ![e] = reviews[e] + 1]
        BY <1>2, <2>4 DEF Feed, WebSound, IInv, TypeOK
    <3>2. QED
        BY <2>4, <3>1 DEF Feed, IInv, TypeOK, PoolTyped
  <2>5. CASE WritePreferences(r)
    <3>1. preferences' \in (SUBSET Type) \ {{}}
        BY <1>2, <2>5 DEF WritePreferences, WebSound, WebState, IInv, TypeOK
    <3>2. QED
        BY <2>5, <3>1 DEF WritePreferences, IInv, TypeOK, PoolTyped
  <2>6. CASE DropDisabled(r)
      BY <2>6, DropTyped DEF DropDisabled, IInv, TypeOK, PoolTyped
  <2>7. QED
      BY <2>1, <2>2, <2>3, <2>4, <2>5, <2>6
         DEF Serving, AbortRequest, GetNext, SubmitAttempt, SetPreferences
<1>5. QED
    BY <1>1, <1>3, <1>4, RequestKeeps

\* The admin, the calendar, the plan, and nothing.
LEMMA OtherStep ==
    ASSUME IInv,
           \/ \E e \in ExerciseId :
                 DeleteExercise(e) \/ \E status \in AdminStatus : UpdateExercise(e, status)
           \/ NewDay /\ UNCHANGED <<pool, refill, web>>
           \/ ChangePlan /\ UNCHANGED <<pool, refill, web>>
           \/ UNCHANGED vars
    PROVE  IInv'
<1>1. UNCHANGED <<refill, web>>
    BY DEF DeleteExercise, UpdateExercise, vars
<1>2. QuotaTypeOK'
  <2>1. CASE NewDay
      BY <2>1 DEF NewDay, IInv, TypeOK, QuotaTypeOK, Day
  <2>2. CASE ChangePlan
    <3>1. premium' \in BOOLEAN
        BY <2>2 DEF ChangePlan
    <3>2. plan_changes' \in 0..MaxPlanChanges
        BY <2>2 DEF ChangePlan, IInv, TypeOK, QuotaTypeOK
    <3>3. QED
        BY <2>2, <3>1, <3>2 DEF ChangePlan, IInv, TypeOK, QuotaTypeOK
  <2>3. CASE UNCHANGED quota
      BY <2>3 DEF IInv, TypeOK, QuotaTypeOK, quota
  <2>4. QED
      BY <2>1, <2>2, <2>3 DEF DeleteExercise, UpdateExercise, vars
<1>3. PoolTyped'
  <2>1. CASE UNCHANGED pool
      BY <2>1 DEF IInv, TypeOK, PoolTyped, pool
  <2>2. ASSUME NEW e \in ExerciseId, DeleteExercise(e)
        PROVE  PoolTyped'
      BY <2>2, DropTyped DEF DeleteExercise, IInv, TypeOK, PoolTyped
  <2>3. ASSUME NEW e \in ExerciseId, NEW status \in AdminStatus, UpdateExercise(e, status)
        PROVE  PoolTyped'
    <3>1. exercises' \in [ExerciseId -> Exercise \cup {None}]
        BY <2>3, SetStatusTyped DEF UpdateExercise, IInv
    <3>2. QED
        BY <2>3, <3>1 DEF UpdateExercise, IInv, TypeOK, PoolTyped
  <2>4. QED
      BY <2>1, <2>2, <2>3 DEF vars
<1>4. TypeOK'
    BY <1>1, <1>2, <1>3 DEF IInv, TypeOK, PoolTyped
<1>5. QED
    BY <1>1, <1>4 DEF IInv

-----------------------------------------------------------------------------
(* Theorems *)

LEMMA InitInv == Init => IInv
<1> SUFFICES ASSUME Init PROVE IInv
    OBVIOUS
<1>1. QuotaTypeOK
  <2>1. day \in Day /\ plan_changes \in 0..MaxPlanChanges
      BY DEF Init, QuotaInit, Day
  <2>2. premium \in BOOLEAN /\ used \in [Day -> Nat \cup {None}]
      BY DEF Init, QuotaInit
  <2>3. QED
      BY <2>1, <2>2 DEF QuotaTypeOK
<1>2. PoolTyped
    BY DEF Init, PoolTyped, Type
<1>3. NoRequest \in WebState /\ WebSound(NoRequest)
    BY DEF NoRequest, WebState, WebStage, WebSound
<1>4. TypeOK
    BY <1>1, <1>2, <1>3, NoRefillSound DEF Init, TypeOK, PoolTyped
<1>5. QED
    BY <1>3, <1>4, NoRefillSound DEF Init, IInv

LEMMA EveryStep ==
    ASSUME IInv, [Next]_vars
    PROVE  IInv'
    BY RefillStep, RequestStep, OtherStep DEF Next

LEMMA Invariance == Spec => []IInv
<1>1. IInv /\ [Next]_vars => IInv'
    BY EveryStep
<1>2. QED
    BY <1>1, InitInv, PTL DEF Spec

(***************************************************************************)
(* The pool, the counters and whatever refills and requests hold in their  *)
(* local variables keep their types, for any types, limits and number of   *)
(* overlapping refills and requests.                                       *)
(***************************************************************************)
THEOREM TypeCorrect == Spec => []TypeOK
    BY Invariance, PTL DEF IInv

-----------------------------------------------------------------------------
(* Reviews are earned by attempts *)

\* The reviews a request has still to feed for an exercise, its last one first,
\* and those of all requests.
OwedBy(s, e) == IF s.exercise = e /\ s.at \in {"complete", "feed"} THEN 1..s.left ELSE {}
Owed(e) == {p \in Request \X Nat : p[2] \in OwedBy(web[p[1]], e)}

Words(e) == IF exercises[e].exercise_type = MATCH_PAIRS THEN RoundWords ELSE 1

Unborn == \A e \in ExerciseId : e > last => ~Stored(e) /\ attempts[e] = 0 /\ reviews[e] = 0

AnswersSound(s) ==
    /\ s.exercise # None => s.exercise <= last
    /\ (s.at \in {"attempt", "complete", "feed"} /\ Stored(s.exercise)) => s.left <= Words(s.exercise)

Covered(e) == Stored(e) => reviews[e] + Cardinality(Owed(e)) <= attempts[e] * Words(e)

RInv ==
    /\ IInv
    /\ Unborn
    /\ \A r \in Request : AnswersSound(web[r])
    /\ \A e \in ExerciseId : Covered(e)

LEMMA OwedFinite ==
    ASSUME RInv, NEW e \in ExerciseId, Stored(e)
    PROVE  /\ IsFiniteSet(Owed(e))
           /\ Cardinality(Owed(e)) \in Nat
           /\ Words(e) \in Nat
<1>1. Words(e) \in Nat
    BY DEF Words
<1>2. Owed(e) \subseteq Request \X (1..Words(e))
  <2> SUFFICES ASSUME NEW p \in Owed(e) PROVE p \in Request \X (1..Words(e))
      OBVIOUS
  <2>1. /\ p \in Request \X Nat /\ web[p[1]].exercise = e
        /\ web[p[1]].at \in {"complete", "feed"} /\ p[2] \in 1..web[p[1]].left
      BY DEF Owed, OwedBy
  <2>2. web[p[1]].left <= Words(e) /\ web[p[1]].left \in Nat
      BY <2>1 DEF RInv, AnswersSound, IInv, TypeOK, WebState
  <2>3. QED
      BY <1>1, <2>1, <2>2
<1>3. IsFiniteSet(Request \X (1..Words(e)))
    BY <1>1, TokensOfAll
<1>4. QED
    BY <1>1, <1>2, <1>3, FS_Subset, FS_CardinalityType

\* What one request owes less or more moves the total.
LEMMA OwedLess ==
    ASSUME RInv, NEW e \in ExerciseId, Stored(e), NEW r \in Request, NEW s, Serve(r, s),
           OwedBy(s, e) \subseteq OwedBy(web[r], e)
    PROVE  Cardinality(Owed(e)') \in Nat /\ Cardinality(Owed(e)') <= Cardinality(Owed(e))
<1>1. \A q \in Request : web'[q] = IF q = r THEN s ELSE web[q]
    BY DEF Serve, RInv, IInv, TypeOK
<1>2. Owed(e)' \subseteq Owed(e)
    BY <1>1 DEF Owed, OwedBy
<1>3. QED
    BY <1>2, OwedFinite, FS_Subset, FS_CardinalityType

LEMMA OwedMore ==
    ASSUME RInv, NEW e \in ExerciseId, Stored(e), NEW r \in Request, NEW s, Serve(r, s),
           NEW n \in Nat, OwedBy(s, e) = 1..n
    PROVE  /\ Cardinality(Owed(e)') \in Nat
           /\ Cardinality(Owed(e)') <= Cardinality(Owed(e)) + n
<1>1. \A q \in Request : web'[q] = IF q = r THEN s ELSE web[q]
    BY DEF Serve, RInv, IInv, TypeOK
<1> DEFINE T == {r} \X (1..n)
<1>2. Owed(e)' \subseteq Owed(e) \cup T
    BY <1>1 DEF Owed, OwedBy
<1>3. IsFiniteSet(T) /\ Cardinality(T) = n
    BY Tokens
<1> HIDE DEF T
<1>4. /\ IsFiniteSet(Owed(e)) /\ Cardinality(Owed(e)) \in Nat
      /\ IsFiniteSet(Owed(e) \cup T)
      /\ Cardinality(Owed(e) \cup T) = Cardinality(Owed(e)) + n - Cardinality(Owed(e) \cap T)
    BY <1>3, OwedFinite, FS_Union
<1>5. Cardinality(Owed(e) \cap T) \in Nat
    BY <1>3, FS_Intersection, FS_CardinalityType
<1>6. /\ IsFiniteSet(Owed(e)') /\ Cardinality(Owed(e)') \in Nat
      /\ Cardinality(Owed(e)') <= Cardinality(Owed(e) \cup T)
    BY <1>2, <1>4, FS_Subset, FS_CardinalityType
<1>7. QED
    BY <1>3, <1>4, <1>5, <1>6

LEMMA OwedOneLess ==
    ASSUME RInv, NEW e \in ExerciseId, Stored(e), NEW r \in Request, NEW s, Serve(r, s),
           NEW n \in Nat, n > 0, OwedBy(web[r], e) = 1..n, OwedBy(s, e) = 1..(n - 1)
    PROVE  /\ Cardinality(Owed(e)') \in Nat
           /\ Cardinality(Owed(e)') + 1 = Cardinality(Owed(e))
<1>1. \A q \in Request : web'[q] = IF q = r THEN s ELSE web[q]
    BY DEF Serve, RInv, IInv, TypeOK
<1>2. /\ <<r, n>> \in Owed(e)
      /\ Owed(e)' = Owed(e) \ {<<r, n>>}
  <2>1. n \in OwedBy(web[r], e) /\ n \notin OwedBy(s, e)
        /\ OwedBy(s, e) = OwedBy(web[r], e) \ {n}
      OBVIOUS
  <2>2. ASSUME NEW p \in Request \X Nat
        PROVE  p[2] \in OwedBy(web'[p[1]], e) <=> p[2] \in OwedBy(web[p[1]], e) /\ p # <<r, n>>
    <3>1. PICK q \in Request, i \in Nat : p = <<q, i>>
        OBVIOUS
    <3>2. CASE q = r
        BY <1>1, <2>1, <3>1, <3>2
    <3>3. CASE q # r
        BY <1>1, <3>1, <3>3
    <3>4. QED
        BY <3>2, <3>3
  <2>3. Owed(e)' = {p \in Request \X Nat : p[2] \in OwedBy(web'[p[1]], e)}
      BY DEF Owed, OwedBy
  <2>4. QED
      BY <2>1, <2>2, <2>3 DEF Owed
<1>3. IsFiniteSet(Owed(e)) /\ Cardinality(Owed(e)) \in Nat
    BY OwedFinite
<1>4. /\ IsFiniteSet(Owed(e) \ {<<r, n>>})
      /\ Cardinality(Owed(e) \ {<<r, n>>}) = Cardinality(Owed(e)) - 1
    BY <1>2, <1>3, FS_RemoveElement
<1>5. QED
    BY <1>2, <1>3, <1>4, FS_CardinalityType

\* No row is added or changes its type.
SameRows ==
    /\ last' = last
    /\ \A e \in ExerciseId :
          Stored(e)' => Stored(e) /\ exercises'[e].exercise_type = exercises[e].exercise_type

LEMMA StatusRows ==
    ASSUME TypeOK, NEW e \in ExerciseId, Stored(e), NEW status \in ExerciseStatus,
           SetStatus(e, status), last' = last
    PROVE  SameRows
<1>1. \A d \in ExerciseId : d # e => exercises'[d] = exercises[d]
    BY DEF SetStatus, TypeOK
<1>2. exercises'[e].exercise_type = exercises[e].exercise_type
    BY DEF SetStatus, TypeOK
<1>3. QED
    BY <1>1, <1>2 DEF SameRows, Stored

LEMMA DropRows ==
    ASSUME TypeOK, NEW ids, Drop(ids), last' = last
    PROVE  /\ SameRows
           /\ \A e \in ExerciseId : Stored(e)' => attempts'[e] = attempts[e]
           /\ \A e \in ExerciseId : attempts'[e] \in {0, attempts[e]}
    BY DEF Drop, SameRows, Stored, TypeOK

LEMMA SameWords ==
    ASSUME SameRows, NEW e \in ExerciseId, Stored(e)'
    PROVE  Stored(e) /\ Words(e)' = Words(e)
    BY DEF SameRows, Words

LEMMA StatesRead ==
    /\ \A e : OwedBy(NoRequest, e) = {}
    /\ NoRequest.exercise = None /\ NoRequest.at = "idle"
    /\ \A at, e, left : /\ Answering(at, e, left).at = at
                        /\ Answering(at, e, left).exercise = e
                        /\ Answering(at, e, left).left = left
    /\ \A at, types, read : /\ Choosing(at, types, read).at = at
                            /\ Choosing(at, types, read).exercise = None
    BY DEF OwedBy, NoRequest, Answering, Choosing

\* A step of one request, or none.
LEMMA AnswerKeeps ==
    ASSUME RInv, IInv', SameRows, NEW r \in Request, NEW s, Serve(r, s),
           s.exercise # None => s.exercise \in 1..last,
           (s.at \in {"attempt", "complete", "feed"} /\ s.exercise # None /\ Stored(s.exercise)) =>
               s.left <= Words(s.exercise),
           \A e \in ExerciseId : e > last => attempts'[e] = 0 /\ reviews'[e] = 0,
           \A e \in ExerciseId : Stored(e) /\ Stored(e)' =>
               reviews'[e] + Cardinality(Owed(e)') <= attempts'[e] * Words(e)
    PROVE  RInv'
<1>1. \A q \in Request : web'[q] = IF q = r THEN s ELSE web[q]
    BY DEF Serve, RInv, IInv, TypeOK
<1>2. last \in 0..MaxExercises /\ last' = last
    BY DEF RInv, IInv, TypeOK, SameRows
<1>3. Unborn'
    BY <1>2 DEF Unborn, RInv, SameRows
<1>4. ASSUME NEW q \in Request
      PROVE  AnswersSound(web[q])'
  <2>1. PICK t : t = web'[q]
      OBVIOUS
  <2>2. /\ t.exercise # None => t.exercise \in ExerciseId /\ t.exercise <= last
        /\ (t.at \in {"attempt", "complete", "feed"} /\ t.exercise # None /\ Stored(t.exercise)) =>
               t.left <= Words(t.exercise)
    <3>1. CASE q = r
        BY <1>1, <1>2, <2>1, <3>1 DEF ExerciseId
    <3>2. CASE q # r
      <4>1. t = web[q] /\ t \in WebState /\ AnswersSound(t)
          BY <1>1, <2>1, <3>2 DEF RInv, IInv, TypeOK
      <4>2. QED
          BY <4>1 DEF AnswersSound, WebState
    <3>3. QED
        BY <3>1, <3>2
  <2>3. t.at \in {"attempt", "complete", "feed"} => t.exercise \in ExerciseId
      BY <2>1 DEF IInv, WebSound
  <2>4. None \notin ExerciseId
      BY DEF ExerciseId
  <2>5. (t.at \in {"attempt", "complete", "feed"} /\ Stored(t.exercise)') =>
            t.left <= Words(t.exercise)'
    <3> SUFFICES ASSUME t.at \in {"attempt", "complete", "feed"}, Stored(t.exercise)'
                 PROVE  t.left <= Words(t.exercise)'
        OBVIOUS
    <3>1. PICK d \in ExerciseId : d = t.exercise
        BY <2>3
    <3>2. Stored(d) /\ Words(d)' = Words(d)
        BY <3>1, SameWords
    <3>3. QED
        BY <2>2, <2>4, <3>1, <3>2
  <2>6. QED
      BY <1>2, <2>1, <2>2, <2>5 DEF AnswersSound
<1>5. ASSUME NEW e \in ExerciseId
      PROVE  Covered(e)'
    BY SameWords DEF Covered
<1>6. QED
    BY <1>3, <1>4, <1>5 DEF RInv

\* As many attempts, and no more reviews made or owed.
LEMMA Lighter ==
    ASSUME RInv, NEW e \in ExerciseId, Stored(e),
           Cardinality(Owed(e)') \in Nat, Cardinality(Owed(e)') <= Cardinality(Owed(e)),
           attempts'[e] = attempts[e], reviews'[e] = reviews[e]
    PROVE  reviews'[e] + Cardinality(Owed(e)') <= attempts'[e] * Words(e)
<1>1. reviews[e] + Cardinality(Owed(e)) <= attempts[e] * Words(e)
    BY DEF RInv, Covered
<1>2. /\ reviews[e] \in Nat /\ attempts[e] \in Nat /\ Words(e) \in Nat
      /\ Cardinality(Owed(e)) \in Nat
    BY OwedFinite DEF RInv, IInv, TypeOK
<1>3. PICK x \in Nat : x = attempts[e] * Words(e)
    BY <1>2
<1>4. QED
    BY <1>1, <1>2, <1>3

\* A request that ends, or goes on owing no review.
LEMMA OwesNothing ==
    ASSUME RInv, NEW e \in ExerciseId, Stored(e), NEW r \in Request, NEW s, Serve(r, s),
           s.at \notin {"complete", "feed"},
           attempts'[e] = attempts[e], reviews'[e] = reviews[e]
    PROVE  reviews'[e] + Cardinality(Owed(e)') <= attempts'[e] * Words(e)
<1>1. OwedBy(s, e) = {}
    BY DEF OwedBy
<1>2. Cardinality(Owed(e)') \in Nat /\ Cardinality(Owed(e)') <= Cardinality(Owed(e))
    BY <1>1, OwedLess
<1>3. QED
    BY <1>2, Lighter

\* The steps of requests.
LEMMA AnswerStep ==
    ASSUME RInv, IInv', NEW r \in Request,
           \/ Serving(r) \/ AbortRequest(r)
           \/ \E types \in {Type} \cup {{t} : t \in OnDemand} : GetNext(r, types)
           \/ \E e \in ExerciseId : SubmitAttempt(r, e)
           \/ \E types \in (SUBSET Type) \ {{}} : SetPreferences(r, types)
    PROVE  RInv'
<1>1. /\ TypeOK /\ web[r] \in WebState /\ WebSound(web[r]) /\ AnswersSound(web[r])
      /\ last \in 0..MaxExercises
      /\ \A e \in ExerciseId : e > last => attempts[e] = 0 /\ reviews[e] = 0
    BY DEF RInv, IInv, TypeOK, Unborn
<1>2. \A e \in ExerciseId : Stored(e) => e \in 1..last
    BY <1>1 DEF RInv, Unborn, ExerciseId
\* Requests that neither write attempts nor reviews, nor owe any.
<1>3. ASSUME NEW s, Serve(r, s), s.at \notin {"complete", "feed"}, SameRows,
             s.exercise # None => s.exercise \in 1..last,
             s.at = "attempt" => s.left <= Words(s.exercise),
             \A e \in ExerciseId : Stored(e)' => attempts'[e] = attempts[e],
             \A e \in ExerciseId : attempts'[e] \in {0, attempts[e]},
             UNCHANGED reviews
      PROVE  RInv'
  <2>1. ASSUME NEW e \in ExerciseId, Stored(e), Stored(e)'
        PROVE  reviews'[e] + Cardinality(Owed(e)') <= attempts'[e] * Words(e)
      BY <1>3, <2>1, OwesNothing
  <2>2. \A e \in ExerciseId : e > last => attempts'[e] = 0 /\ reviews'[e] = 0
      BY <1>1, <1>3
  <2>3. QED
      BY <1>3, <2>1, <2>2, AnswerKeeps
<1>4. UNCHANGED <<last, exercises>> => SameRows
    BY DEF SameRows, Stored
<1>5. CASE EndRequest(r) /\ UNCHANGED <<last, exercises, attempts, reviews>>
    BY <1>3, <1>4, <1>5, StatesRead DEF EndRequest
<1>6. CASE \E types : GetNext(r, types)
  <2>1. PICK e \in ExerciseId : Stored(e) /\ Serve(r, Answering("serve", e, 0))
      BY <1>6 DEF GetNext, NextPending, PendingOf, Pending
  <2>2. UNCHANGED <<last, exercises, attempts, reviews>>
      BY <1>6 DEF GetNext, pool
  <2>3. QED
      BY <1>2, <1>3, <1>4, <2>1, <2>2, StatesRead
<1>7. CASE \E e \in ExerciseId : SubmitAttempt(r, e)
  <2>1. PICK e \in ExerciseId : SubmitAttempt(r, e)
      BY <1>7
  <2>2. PICK words \in 0..Words(e) : Serve(r, Answering("attempt", e, words))
      BY <2>1 DEF SubmitAttempt, Words
  <2>3. UNCHANGED <<last, exercises, attempts, reviews>> /\ Stored(e)
      BY <2>1 DEF SubmitAttempt, pool
  <2>4. words <= Words(e)
      BY <2>2 DEF Words
  <2>5. QED
      BY <1>2, <1>3, <1>4, <2>2, <2>3, <2>4, StatesRead
<1>8. CASE SetPreferences(r, web'[r].types) \/ \E types : SetPreferences(r, types)
  <2>1. PICK s : Serve(r, s) /\ s.at = "preferences" /\ s.exercise = None
      BY <1>8, StatesRead DEF SetPreferences
  <2>2. UNCHANGED <<last, exercises, attempts, reviews>>
      BY <1>8 DEF SetPreferences, pool
  <2>3. QED
      BY <1>3, <1>4, <2>1, <2>2
<1>9. CASE WritePreferences(r)
  <2>1. PICK s : Serve(r, s) /\ s.at = "drop" /\ s.exercise = None
      BY <1>9, StatesRead DEF WritePreferences
  <2>2. UNCHANGED <<last, exercises, attempts, reviews>>
      BY <1>9 DEF WritePreferences
  <2>3. QED
      BY <1>3, <1>4, <2>1, <2>2
<1>10. CASE DropDisabled(r)
  <2>1. PICK ids : Drop(ids)
      BY <1>10 DEF DropDisabled
  <2>2. Serve(r, NoRequest) /\ UNCHANGED <<last, reviews>>
      BY <1>10 DEF DropDisabled, EndRequest
  <2>3. QED
      BY <1>1, <1>3, <2>1, <2>2, DropRows, StatesRead
<1>11. CASE MarkServed(r)
  <2>1. web[r].exercise \in ExerciseId
      BY <1>1, <1>11 DEF MarkServed, WebSound
  <2>2. Serve(r, NoRequest) /\ UNCHANGED <<last, attempts, reviews>>
      BY <1>11 DEF MarkServed, EndRequest
  <2>3. SameRows
      BY <1>1, <1>4, <1>11, <2>1, <2>2, StatusRows DEF MarkServed, ExerciseStatus
  <2>4. QED
      BY <1>3, <2>2, <2>3, StatesRead
<1>12. CASE RecordAttempt(r)
  <2> DEFINE e == web[r].exercise
             n == web[r].left
             s == Answering("complete", e, n)
  <2>1. /\ e \in ExerciseId /\ n \in Nat /\ UNCHANGED <<last, exercises, reviews>>
      BY <1>1, <1>12 DEF RecordAttempt, WebSound, WebState
  <2>2. CASE ~Stored(e)
      BY <1>5, <1>12, <2>1, <2>2 DEF RecordAttempt
  <2>3. CASE Stored(e)
    <3>1. Serve(r, s) /\ attempts' = [attempts EXCEPT ![e] = attempts[e] + 1]
        BY <1>12, <2>3 DEF RecordAttempt
    <3>2. s.at = "complete" /\ s.exercise = e /\ s.left = n
        BY StatesRead
    <3>3. n <= Words(e) /\ e \in 1..last
        BY <1>1, <1>2, <1>12, <2>1, <2>3 DEF RecordAttempt, AnswersSound
    <3> HIDE DEF s
    <3>4. ASSUME NEW d \in ExerciseId, Stored(d)
          PROVE  reviews'[d] + Cardinality(Owed(d)') <= attempts'[d] * Words(d)
      <4>1. CASE d # e
        <5>1. attempts'[d] = attempts[d] /\ OwedBy(s, d) = {}
            BY <1>1, <3>1, <3>2, <4>1 DEF OwedBy, TypeOK
        <5>2. /\ Cardinality(Owed(d)') \in Nat
              /\ Cardinality(Owed(d)') <= Cardinality(Owed(d))
            BY <3>1, <3>4, <5>1, OwedLess
        <5>3. QED
            BY <2>1, <3>4, <5>1, <5>2, Lighter
      <4>2. CASE d = e
        <5>1. attempts'[d] = attempts[d] + 1 /\ OwedBy(s, d) = 1..n
            BY <1>1, <2>1, <3>1, <3>2, <4>2 DEF OwedBy, TypeOK
        <5>2. /\ Cardinality(Owed(d)') \in Nat
              /\ Cardinality(Owed(d)') <= Cardinality(Owed(d)) + n
            BY <2>1, <3>1, <3>4, <5>1, OwedMore
        <5>3. /\ reviews[d] \in Nat /\ attempts[d] \in Nat /\ Words(d) \in Nat
              /\ Cardinality(Owed(d)) \in Nat
              /\ reviews[d] + Cardinality(Owed(d)) <= attempts[d] * Words(d)
            BY <1>1, <3>4, OwedFinite DEF RInv, Covered, TypeOK
        <5>4. (attempts[d] + 1) * Words(d) = attempts[d] * Words(d) + Words(d)
            BY <5>3
        <5>5. PICK x \in Nat : x = attempts[d] * Words(d)
            BY <5>3
        <5>6. reviews'[d] + Cardinality(Owed(d)') <= x + Words(d)
            BY <2>1, <3>3, <4>2, <5>2, <5>3, <5>5
        <5>7. QED
            BY <5>1, <5>4, <5>5, <5>6
      <4>3. QED
          BY <4>1, <4>2
    <3>5. \A d \in ExerciseId : d > last => attempts'[d] = 0 /\ reviews'[d] = 0
        BY <1>1, <2>1, <3>1, <3>3 DEF TypeOK
    <3>6. QED
        BY <1>4, <2>1, <3>1, <3>2, <3>3, <3>4, <3>5, AnswerKeeps
  <2>4. QED
      BY <2>2, <2>3
<1>13. CASE Complete(r)
  <2> DEFINE e == web[r].exercise
             n == web[r].left
  <2>1. /\ e \in ExerciseId /\ n \in Nat /\ UNCHANGED <<last, attempts, reviews>>
        /\ web[r].at = "complete"
      BY <1>1, <1>13 DEF Complete, WebSound, WebState
  <2>2. CASE ~Stored(e)
      BY <1>5, <1>13, <2>1, <2>2 DEF Complete
  <2>3. CASE Stored(e)
    <3>1. PICK s : /\ Serve(r, s)
                   /\ s = IF n = 0 THEN NoRequest ELSE Answering("feed", e, n)
        BY <1>13, <2>3 DEF Complete
    <3>2. SameRows
        BY <1>1, <1>13, <2>1, <2>3, StatusRows DEF Complete, ExerciseStatus
    <3>3. /\ s.exercise # None => s.exercise \in 1..last
          /\ s.at # "idle" => s.exercise = e /\ s.left = n /\ s.at = "feed"
          /\ s.at = "idle" => s.exercise = None
          /\ s.at \in {"idle", "feed"}
        BY <1>2, <2>1, <2>3, <3>1, StatesRead
    <3>4. n <= Words(e)
        BY <1>1, <2>1, <2>3 DEF AnswersSound
    <3>5. ASSUME NEW d \in ExerciseId, Stored(d)
          PROVE  reviews'[d] + Cardinality(Owed(d)') <= attempts'[d] * Words(d)
      <4>1. OwedBy(s, d) \subseteq OwedBy(web[r], d)
          BY <2>1, <3>3 DEF OwedBy
      <4>2. /\ Cardinality(Owed(d)') \in Nat
            /\ Cardinality(Owed(d)') <= Cardinality(Owed(d))
          BY <3>1, <3>5, <4>1, OwedLess
      <4>3. QED
          BY <2>1, <3>5, <4>2, Lighter
    <3>6. \A d \in ExerciseId : d > last => attempts'[d] = 0 /\ reviews'[d] = 0
        BY <1>1, <2>1
    <3>7. (s.at \in {"attempt", "complete", "feed"} /\ s.exercise # None /\ Stored(s.exercise)) =>
              s.left <= Words(s.exercise)
        BY <3>3, <3>4
    <3>8. QED
        BY <3>1, <3>2, <3>3, <3>5, <3>6, <3>7, AnswerKeeps
  <2>4. QED
      BY <2>2, <2>3
<1>14. CASE Feed(r)
  <2> DEFINE e == web[r].exercise
             n == web[r].left
  <2>1. /\ e \in ExerciseId /\ n \in Nat /\ n > 0 /\ UNCHANGED <<last, exercises, attempts>>
        /\ web[r].at = "feed" /\ e # None
      BY <1>1, <1>14 DEF Feed, WebSound, WebState, ExerciseId
  <2>2. PICK s : /\ Serve(r, s)
                 /\ s = IF n = 1 THEN NoRequest ELSE Answering("feed", e, n - 1)
      BY <1>14 DEF Feed
  <2>3. /\ reviews' = [reviews EXCEPT ![e] = reviews[e] + 1]
        /\ e \in 1..last
      BY <1>1, <1>14, <2>1 DEF Feed, AnswersSound, ExerciseId
  <2>4. /\ s.exercise # None => s.exercise \in 1..last
        /\ s.at # "idle" => s.exercise = e /\ s.left = n - 1 /\ s.at = "feed" /\ n # 1
        /\ s.at = "idle" => s.exercise = None /\ n = 1
        /\ s.at \in {"idle", "feed"}
      BY <2>1, <2>2, <2>3, StatesRead
  <2>5. Stored(e) => n <= Words(e)
      BY <1>1, <2>1 DEF AnswersSound
  <2>6. ASSUME NEW d \in ExerciseId, Stored(d)
        PROVE  reviews'[d] + Cardinality(Owed(d)') <= attempts'[d] * Words(d)
    <3>1. CASE d # e
      <4>1. reviews'[d] = reviews[d] /\ OwedBy(s, d) = {}
          BY <1>1, <2>3, <2>4, <3>1 DEF OwedBy, TypeOK, ExerciseId
      <4>2. /\ Cardinality(Owed(d)') \in Nat
            /\ Cardinality(Owed(d)') <= Cardinality(Owed(d))
          BY <2>2, <2>6, <4>1, OwedLess
      <4>3. QED
          BY <2>1, <2>6, <4>1, <4>2, Lighter
    <3>2. CASE d = e
      <4>1. reviews'[d] = reviews[d] + 1 /\ OwedBy(web[r], d) = 1..n
          BY <1>1, <2>1, <2>3, <3>2 DEF OwedBy, TypeOK
      <4>2. OwedBy(s, d) = 1..(n - 1)
          BY <2>1, <2>4, <3>2 DEF OwedBy
      <4>3. Cardinality(Owed(d)') \in Nat /\ Cardinality(Owed(d)') + 1 = Cardinality(Owed(d))
          BY <2>1, <2>2, <2>6, <4>1, <4>2, OwedOneLess
      <4>4. /\ reviews[d] \in Nat /\ attempts[d] \in Nat /\ Words(d) \in Nat
            /\ reviews[d] + Cardinality(Owed(d)) <= attempts[d] * Words(d)
          BY <1>1, <2>6, OwedFinite DEF RInv, Covered, TypeOK
      <4>5. PICK x \in Nat : x = attempts[d] * Words(d)
          BY <4>4
      <4>6. reviews[d] + Cardinality(Owed(d)) <= x /\ reviews[d] \in Nat
          BY <4>4, <4>5
      <4>7. reviews'[d] + Cardinality(Owed(d)') <= x
          BY <4>1, <4>3, <4>6
      <4>8. attempts'[d] = attempts[d]
          BY <2>1
      <4>9. QED
          BY <4>5, <4>7, <4>8
    <3>3. QED
        BY <3>1, <3>2
  <2>7. \A d \in ExerciseId : d > last => attempts'[d] = 0 /\ reviews'[d] = 0
      BY <1>1, <2>1, <2>3 DEF TypeOK
  <2>8. (s.at \in {"attempt", "complete", "feed"} /\ s.exercise # None /\ Stored(s.exercise)) =>
            s.left <= Words(s.exercise)
      BY <2>1, <2>4, <2>5 DEF Words
  <2>9. QED
      BY <1>4, <2>1, <2>2, <2>4, <2>6, <2>7, <2>8, AnswerKeeps
<1>15. QED
    BY <1>5, <1>6, <1>7, <1>8, <1>9, <1>10, <1>11, <1>12, <1>13, <1>14
       DEF Serving, AbortRequest, pool

\* A refill stores a row with the next id, or leaves the rows alone.
LEMMA StoreAnswers ==
    ASSUME RInv, IInv', NEW type, Store(type), UNCHANGED <<attempts, reviews, web>>
    PROVE  RInv'
<1>1. /\ TypeOK /\ last' = last + 1 /\ last + 1 \in ExerciseId /\ last \in Nat
      /\ \A e \in ExerciseId : e # last + 1 => exercises'[e] = exercises[e]
    BY DEF Store, RInv, IInv, TypeOK, ExerciseId
<1>2. Unborn'
    BY <1>1 DEF Unborn, RInv, Stored, ExerciseId
<1>3. ASSUME NEW r \in Request
      PROVE  /\ web[r].exercise # None => web[r].exercise \in 1..last
             /\ AnswersSound(web[r])'
  <2>1. web[r] \in WebState /\ WebSound(web[r]) /\ AnswersSound(web[r]) /\ web' = web
      BY DEF RInv, IInv, TypeOK
  <2>2. web[r].exercise # None => web[r].exercise \in 1..last
      BY <1>1, <2>1 DEF AnswersSound, WebState, ExerciseId
  <2>3. web[r].at \in {"attempt", "complete", "feed"} =>
            /\ web[r].exercise \in 1..last /\ web[r].exercise \in ExerciseId
            /\ exercises'[web[r].exercise] = exercises[web[r].exercise]
    <3>1. web[r].at \in {"attempt", "complete", "feed"} => web[r].exercise \in ExerciseId
        BY <2>1 DEF WebSound
    <3>2. None \notin ExerciseId
        BY DEF ExerciseId
    <3>3. QED
        BY <1>1, <2>2, <3>1, <3>2
  <2>4. QED
      BY <1>1, <2>1, <2>2, <2>3 DEF AnswersSound, Stored, Words
<1>4. ASSUME NEW e \in ExerciseId, Stored(e)'
      PROVE  reviews'[e] + Cardinality(Owed(e)') <= attempts'[e] * Words(e)'
  <2>1. Owed(e)' = Owed(e)
      BY DEF Owed, OwedBy
  <2>2. CASE e # last + 1
    <3>1. Stored(e) /\ Words(e)' = Words(e)
        BY <1>1, <1>4, <2>2 DEF Stored, Words
    <3>2. QED
        BY <2>1, <3>1 DEF RInv, Covered
  <2>3. CASE e = last + 1
    <3>1. Owed(e) = {}
        BY <1>1, <1>3, <2>3 DEF Owed, OwedBy
    <3>2. reviews[e] = 0 /\ attempts[e] = 0
        BY <1>1, <2>3 DEF RInv, Unborn
    <3>3. Cardinality({}) = 0 /\ Words(e)' \in Nat
        BY FS_EmptySet DEF Words
    <3>4. QED
        BY <2>1, <3>1, <3>2, <3>3
  <2>4. QED
      BY <2>2, <2>3
<1>5. QED
    BY <1>2, <1>3, <1>4 DEF RInv, Covered

LEMMA PoolAnswers ==
    ASSUME RInv, IInv', UNCHANGED <<pool, web>>
    PROVE  RInv'
<1>1. UNCHANGED <<last, exercises, attempts, reviews, web>>
    BY DEF pool
<1>2. Unborn'
    BY <1>1 DEF RInv, Unborn, Stored
<1>3. ASSUME NEW r \in Request PROVE AnswersSound(web[r])'
    BY <1>1 DEF RInv, AnswersSound, Stored, Words
<1>4. ASSUME NEW e \in ExerciseId PROVE Covered(e)'
  <2>1. Owed(e)' = Owed(e) /\ Words(e)' = Words(e) /\ Stored(e)' = Stored(e)
      BY <1>1 DEF Owed, OwedBy, Words, Stored
  <2>2. QED
      BY <1>1, <2>1 DEF RInv, Covered
<1>5. QED
    BY <1>2, <1>3, <1>4 DEF RInv

\* A request's slot stays as it is while the admin edits rows.
LEMMA AdminAnswers ==
    ASSUME RInv, IInv', SameRows, UNCHANGED <<reviews, web>>,
           \A e \in ExerciseId : Stored(e)' => attempts'[e] = attempts[e],
           \A e \in ExerciseId : attempts'[e] \in {0, attempts[e]}
    PROVE  RInv'
<1>1. Unborn'
    BY DEF RInv, Unborn, SameRows
<1>2. ASSUME NEW r \in Request PROVE AnswersSound(web[r])'
  <2>1. /\ AnswersSound(web[r]) /\ web' = web /\ last' = last
        /\ web[r].at \in {"attempt", "complete", "feed"} => web[r].exercise \in ExerciseId
      BY DEF RInv, SameRows, IInv, WebSound
  <2>2. QED
      BY <2>1, SameWords DEF AnswersSound
<1>3. ASSUME NEW e \in ExerciseId PROVE Covered(e)'
  <2>1. Owed(e)' = Owed(e)
      BY DEF Owed, OwedBy
  <2>2. QED
      BY <2>1, SameWords DEF RInv, Covered
<1>4. QED
    BY <1>1, <1>2, <1>3 DEF RInv

LEMMA ReviewsStep ==
    ASSUME RInv, [Next]_vars
    PROVE  RInv'
<1>1. IInv'
    BY EveryStep DEF RInv
<1>2. CASE UNCHANGED <<pool, web>>
    BY <1>1, <1>2, PoolAnswers
<1>3. ASSUME NEW f \in Refiller, StorePairs(f) \/ \E type \in CardType : StoreCard(f, type)
      PROVE  RInv'
    BY <1>1, <1>3, StoreAnswers DEF StorePairs, StoreCard
<1>4. ASSUME NEW f \in Refiller, Refilling(f) \/ AbortRefill(f)
      PROVE  RInv'
    BY <1>2, <1>3, <1>4
       DEF Refilling, ReadBudget, CheckPairs, CountPending, SkipCard, ReadUsage, Charge, AbortRefill
<1>5. ASSUME NEW e \in ExerciseId, DeleteExercise(e)
      PROVE  RInv'
  <2>1. Drop({e}) /\ UNCHANGED <<last, reviews, web>> /\ TypeOK
      BY <1>5 DEF DeleteExercise, RInv, IInv
  <2>2. QED
      BY <1>1, <2>1, DropRows, AdminAnswers
<1>6. ASSUME NEW e \in ExerciseId, NEW status \in AdminStatus, UpdateExercise(e, status)
      PROVE  RInv'
  <2>1. /\ SetStatus(e, status) /\ Stored(e) /\ UNCHANGED <<last, attempts, reviews, web>>
        /\ TypeOK /\ status \in ExerciseStatus
      BY <1>6 DEF UpdateExercise, RInv, IInv
  <2>2. SameRows
      BY <2>1, StatusRows
  <2>3. QED
      BY <1>1, <2>1, <2>2, AdminAnswers
<1>7. CASE UNCHANGED vars \/ (NewDay /\ UNCHANGED <<pool, refill, web>>)
    BY <1>2, <1>7 DEF vars
<1>8. CASE ChangePlan /\ UNCHANGED <<pool, refill, web>>
    BY <1>2, <1>8
<1>9. ASSUME NEW f \in Refiller, \E only \in OnDemand \cup {None} : StartRefill(f, only)
      PROVE  RInv'
    BY <1>2, <1>9 DEF StartRefill
<1>10. ASSUME NEW r \in Request,
           \/ Serving(r) \/ AbortRequest(r)
           \/ \E types \in {Type} \cup {{t} : t \in OnDemand} : GetNext(r, types)
           \/ \E e \in ExerciseId : SubmitAttempt(r, e)
           \/ \E types \in (SUBSET Type) \ {{}} : SetPreferences(r, types)
      PROVE  RInv'
    BY <1>1, <1>10, AnswerStep
<1>11. QED
    BY <1>2, <1>4, <1>5, <1>6, <1>7, <1>8, <1>9, <1>10 DEF Next, vars

LEMMA ReviewsInit == Init => RInv
<1> SUFFICES ASSUME Init PROVE RInv
    OBVIOUS
<1>1. IInv /\ Unborn
    BY InitInv DEF Init, Unborn, Stored
<1>2. ASSUME NEW r \in Request PROVE AnswersSound(web[r])
    BY StatesRead DEF Init, AnswersSound
<1>3. ASSUME NEW e \in ExerciseId PROVE Covered(e)
    BY DEF Init, Covered, Stored
<1>4. QED
    BY <1>1, <1>2, <1>3 DEF RInv

(***************************************************************************)
(* Spaced repetition is fed from recorded attempts only, each word of an   *)
(* exercise at most once per attempt, for any number of answers that       *)
(* overlap, retry or die half-way: what the running requests still owe is  *)
(* covered by the attempts they have recorded.                             *)
(***************************************************************************)
THEOREM ReviewsAreEarned == Spec => []ReviewsEarned
<1>1. RInv /\ [Next]_vars => RInv'
    BY ReviewsStep
<1>2. ASSUME RInv PROVE ReviewsEarned
  <2>1. ASSUME NEW e \in ExerciseId, Stored(e)
        PROVE  reviews[e] <= attempts[e] * Words(e)
    <3>1. /\ reviews[e] + Cardinality(Owed(e)) <= attempts[e] * Words(e)
          /\ reviews[e] \in Nat /\ attempts[e] \in Nat /\ Words(e) \in Nat
          /\ Cardinality(Owed(e)) \in Nat
        BY <1>2, <2>1, OwedFinite DEF RInv, Covered, IInv, TypeOK
    <3>2. PICK x \in Nat : x = attempts[e] * Words(e)
        BY <3>1
    <3>3. QED
        BY <3>1, <3>2
  <2>2. QED
      BY <2>1 DEF ReviewsEarned, Words
<1>3. QED
    BY <1>1, <1>2, ReviewsInit, PTL DEF Spec

-----------------------------------------------------------------------------
(* Charges are for exercises stored *)

\* One token for each generation a day's counter stands at, or stood at when a
\* refill read it; and one for each exercise a running refill has stored.
Standing(d) == IF used[d] = None THEN 0 ELSE used[d]
Read(s, d) == IF s.at = "charge" /\ s.period = d /\ s.row # None THEN s.row ELSE 0

Charges ==
    {p \in Day \X Nat :
        /\ p[2] >= 1
        /\ \/ p[2] <= Standing(p[1])
           \/ \E f \in Refiller : p[2] <= Read(refill[f], p[1])}
Unpaid == {p \in Refiller \X Nat : p[2] \in 1..refill[p[1]].created}

\* A generation is charged, or still to be charged, for a stored exercise each.
OInv ==
    /\ IInv
    /\ IsFiniteSet(Charges)
    /\ IsFiniteSet(Unpaid)
    /\ Cardinality(Charges) + Cardinality(Unpaid) <= last

\* What a step does to the tokens of the refill it is of.
LEMMA UnpaidLess ==
    ASSUME IInv, IsFiniteSet(Unpaid), NEW f \in Refiller, NEW s \in RefillState, Run(f, s),
           s.created <= refill[f].created
    PROVE  /\ IsFiniteSet(Unpaid') /\ Cardinality(Unpaid') \in Nat
           /\ Cardinality(Unpaid') <= Cardinality(Unpaid)
<1>1. \A g \in Refiller : refill'[g] = IF g = f THEN s ELSE refill[g]
    BY RunTyped DEF IInv
<1>2. s.created \in Nat /\ refill[f].created \in Nat
    BY DEF IInv, TypeOK, RefillState
<1>3. Unpaid' \subseteq Unpaid
  <2> SUFFICES ASSUME NEW p \in Unpaid' PROVE p \in Unpaid
      OBVIOUS
  <2>1. PICK g \in Refiller, i \in Nat : p = <<g, i>> /\ i \in 1..refill'[g].created
      BY DEF Unpaid
  <2>2. i \in 1..refill[g].created
      BY <1>1, <1>2, <2>1
  <2>3. QED
      BY <2>1, <2>2 DEF Unpaid
<1>4. QED
    BY <1>3, FS_Subset, FS_CardinalityType

LEMMA UnpaidMore ==
    ASSUME IInv, IsFiniteSet(Unpaid), NEW f \in Refiller, NEW s \in RefillState, Run(f, s),
           s.created = refill[f].created + 1
    PROVE  /\ IsFiniteSet(Unpaid') /\ Cardinality(Unpaid') \in Nat
           /\ Cardinality(Unpaid') <= Cardinality(Unpaid) + 1
<1>1. \A g \in Refiller : refill'[g] = IF g = f THEN s ELSE refill[g]
    BY RunTyped DEF IInv
<1>2. s.created \in Nat /\ refill[f].created \in Nat
    BY DEF IInv, TypeOK, RefillState
<1> DEFINE T == Unpaid \cup {<<f, s.created>>}
<1>3. Unpaid' \subseteq T
  <2> SUFFICES ASSUME NEW p \in Unpaid' PROVE p \in T
      OBVIOUS
  <2>1. PICK g \in Refiller, i \in Nat : p = <<g, i>> /\ i \in 1..refill'[g].created
      BY DEF Unpaid
  <2>2. i \in 1..refill[g].created \/ (g = f /\ i = s.created)
      BY <1>1, <1>2, <2>1
  <2>3. QED
      BY <2>1, <2>2 DEF Unpaid
<1>4. /\ IsFiniteSet(T) /\ Cardinality(T) \in Nat /\ Cardinality(Unpaid) \in Nat
      /\ Cardinality(T) <= Cardinality(Unpaid) + 1
  <2>1. PICK x : x = <<f, s.created>>
      OBVIOUS
  <2>2. /\ IsFiniteSet(Unpaid \cup {x}) /\ Cardinality(Unpaid) \in Nat
        /\ Cardinality(Unpaid \cup {x}) \in {Cardinality(Unpaid), Cardinality(Unpaid) + 1}
      BY FS_AddElement, FS_CardinalityType
  <2>3. QED
      BY <2>1, <2>2
<1> HIDE DEF T
<1>5. QED
    BY <1>3, <1>4, FS_Subset, FS_CardinalityType

LEMMA Settled ==
    ASSUME IInv, IsFiniteSet(Unpaid), NEW f \in Refiller, EndRefill(f)
    PROVE  /\ IsFiniteSet(Unpaid') /\ Cardinality(Unpaid') \in Nat
           /\ Cardinality(Unpaid') + refill[f].created = Cardinality(Unpaid)
<1>1. \A g \in Refiller : refill'[g] = IF g = f THEN NoRefill ELSE refill[g]
    BY RunTyped, NoRefillSound DEF IInv, EndRefill
<1>2. NoRefill.created = 0
    BY DEF NoRefill
<1>3. PICK n \in Nat : n = refill[f].created
    BY DEF IInv, TypeOK, RefillState
<1> DEFINE T == {f} \X (1..n)
<1>4. IsFiniteSet(T) /\ Cardinality(T) = n
    BY Tokens
<1>5. Unpaid \cap T = T
  <2> SUFFICES ASSUME NEW p \in T PROVE p \in Unpaid
      OBVIOUS
  <2>1. PICK i \in 1..n : p = <<f, i>>
      OBVIOUS
  <2>2. QED
      BY <1>3, <2>1 DEF Unpaid
<1>6. Unpaid' = Unpaid \ T
  <2>1. ASSUME NEW g \in Refiller, NEW i \in Nat
        PROVE  i \in 1..refill'[g].created <=> i \in 1..refill[g].created /\ <<g, i>> \notin T
    <3>1. CASE g = f
        BY <1>1, <1>2, <1>3, <3>1
    <3>2. CASE g # f
        BY <1>1, <3>2
    <3>3. QED
        BY <3>1, <3>2
  <2>2. QED
      BY <2>1 DEF Unpaid
<1> HIDE DEF T
<1>7. /\ IsFiniteSet(Unpaid \ T) /\ Cardinality(Unpaid) \in Nat
      /\ Cardinality(Unpaid \ T) = Cardinality(Unpaid) - Cardinality(Unpaid \cap T)
    BY FS_Difference, FS_CardinalityType
<1>8. /\ IsFiniteSet(Unpaid') /\ Cardinality(Unpaid') \in Nat
      /\ Cardinality(Unpaid') = Cardinality(Unpaid) - n
    BY <1>4, <1>5, <1>6, <1>7, FS_CardinalityType
<1>9. QED
    BY <1>3, <1>7, <1>8

LEMMA ChargesLess ==
    ASSUME IInv, IsFiniteSet(Charges), NEW f \in Refiller, NEW s \in RefillState, Run(f, s),
           UNCHANGED used, \A d \in Day : Read(s, d) <= Standing(d)
    PROVE  /\ IsFiniteSet(Charges') /\ Cardinality(Charges') \in Nat
           /\ Cardinality(Charges') <= Cardinality(Charges)
<1>1. \A g \in Refiller : refill'[g] = IF g = f THEN s ELSE refill[g]
    BY RunTyped DEF IInv
<1>2. Charges' \subseteq Charges
  <2> SUFFICES ASSUME NEW p \in Charges' PROVE p \in Charges
      OBVIOUS
  <2>1. PICK d \in Day, i \in Nat :
            /\ p = <<d, i>> /\ i >= 1
            /\ \/ i <= Standing(d)
               \/ \E g \in Refiller : i <= Read(refill'[g], d)
      BY DEF Charges, Standing, Read
  <2>2. Standing(d) \in Nat /\ Read(s, d) \in Nat
      BY DEF Standing, Read, IInv, TypeOK, QuotaTypeOK, RefillState
  <2>3. i <= Standing(d) \/ \E g \in Refiller : i <= Read(refill[g], d)
      BY <1>1, <2>1, <2>2
  <2>4. QED
      BY <2>1, <2>3 DEF Charges
<1>3. QED
    BY <1>2, FS_Subset, FS_CardinalityType

\* A charge stands above the row read by the number of exercises charged for.
LEMMA ChargesMore ==
    ASSUME IInv, IsFiniteSet(Charges), NEW f \in Refiller, refill[f].at = "charge", EndRefill(f),
           ConsumeGenerations(refill[f].period, refill[f].row, refill[f].created)
    PROVE  /\ IsFiniteSet(Charges') /\ Cardinality(Charges') \in Nat
           /\ Cardinality(Charges') <= Cardinality(Charges) + refill[f].created
<1>1. /\ \A g \in Refiller : refill'[g] = IF g = f THEN NoRefill ELSE refill[g]
      /\ NoRefill.at = "idle"
    BY RunTyped, NoRefillSound DEF IInv, EndRefill
<1>2. PICK n \in Nat, period \in Day, row \in Nat \cup {None} :
          n = refill[f].created /\ period = refill[f].period /\ row = refill[f].row
    BY DEF IInv, TypeOK, RefillState, RefillSound
<1>3. PICK base \in Nat : base = Read(refill[f], period)
    BY <1>2 DEF Read
<1>4. \A d \in Day : Standing(d)' = IF d = period THEN base + n ELSE Standing(d)
  <2>1. used \in [Day -> Nat \cup {None}] /\ None \notin Nat
      BY DEF IInv, TypeOK, QuotaTypeOK
  <2>2. PICK sum \in Nat : sum = IF row = None THEN n ELSE row + n
      BY <1>2
  <2>3. sum = base + n
      BY <1>2, <1>3, <2>2 DEF Read
  <2>4. used' = [used EXCEPT ![period] = sum]
      BY <1>2, <2>2 DEF ConsumeGenerations
  <2>5. QED
      BY <2>1, <2>3, <2>4 DEF Standing
<1> DEFINE raise == [i \in 1..n |-> <<period, base + i>>]
           T == {<<period, base + i>> : i \in 1..n}
<1>5. IsFiniteSet(T) /\ Cardinality(T) <= n /\ Cardinality(T) \in Nat
  <2>1. IsFiniteSet(1..n) /\ Cardinality(1..n) = n
      BY UpTo
  <2>2. raise \in Surjection(1..n, T)
      BY DEF Surjection
  <2>3. QED
      BY <2>1, <2>2, FS_Surjection, FS_CardinalityType
<1>6. Charges' \subseteq Charges \cup T
  <2> SUFFICES ASSUME NEW p \in Charges' PROVE p \in Charges \cup T
      OBVIOUS
  <2>1. PICK d \in Day, i \in Nat :
            /\ p = <<d, i>> /\ i >= 1
            /\ \/ i <= Standing(d)'
               \/ \E g \in Refiller : i <= Read(refill'[g], d)
      BY DEF Charges, Standing, Read
  <2>2. CASE \E g \in Refiller : i <= Read(refill'[g], d)
    <3>1. PICK g \in Refiller : i <= Read(refill'[g], d)
        BY <2>2
    <3>2. g # f
        BY <1>1, <2>1, <3>1 DEF Read
    <3>3. QED
        BY <1>1, <2>1, <3>1, <3>2 DEF Charges
  <2>3. CASE i <= Standing(d)' /\ d # period
      BY <1>4, <2>1, <2>3 DEF Charges
  <2>4. CASE i <= Standing(d)' /\ d = period /\ i <= base
      BY <1>3, <2>1, <2>4 DEF Charges
  <2>5. CASE i <= Standing(d)' /\ d = period /\ i > base
    <3>1. i - base \in 1..n /\ i = base + (i - base)
        BY <1>4, <2>1, <2>5
    <3>2. QED
        BY <2>1, <2>5, <3>1
  <2>6. QED
      BY <2>1, <2>2, <2>3, <2>4, <2>5
<1> HIDE DEF T
<1>7. /\ IsFiniteSet(Charges \cup T) /\ Cardinality(Charges) \in Nat
      /\ Cardinality(Charges \cup T) =
             Cardinality(Charges) + Cardinality(T) - Cardinality(Charges \cap T)
      /\ Cardinality(Charges \cap T) \in Nat
    BY <1>5, FS_Union, FS_Intersection, FS_CardinalityType
<1>8. /\ IsFiniteSet(Charges') /\ Cardinality(Charges') \in Nat
      /\ Cardinality(Charges') <= Cardinality(Charges \cup T)
    BY <1>6, <1>7, FS_Subset, FS_CardinalityType
<1>9. QED
    BY <1>2, <1>5, <1>7, <1>8

\* The exercises a refill counts as made, in the steps other than its charge.
LEMMA CreatedBy ==
    ASSUME IInv, NEW f \in Refiller,
           \/ Refilling(f) /\ ~Charge(f)
           \/ AbortRefill(f)
           \/ \E only \in OnDemand \cup {None} : StartRefill(f, only)
    PROVE  \/ refill'[f].created <= refill[f].created /\ last' = last
           \/ refill'[f].created = refill[f].created + 1 /\ last' = last + 1
<1>1. /\ refill \in [Refiller -> RefillState] /\ refill[f].created \in Nat
      /\ RefillSound(refill[f])
    BY DEF IInv, TypeOK, RefillState
<1>2. \A s : Run(f, s) => refill'[f] = s
    BY <1>1 DEF Run
<1>3. NoRefill.created = 0
    BY DEF NoRefill
<1>4. CASE EndRefill(f) /\ last' = last
    BY <1>1, <1>2, <1>3, <1>4 DEF EndRefill
<1>a. ASSUME UNCHANGED <<quota, pool, web>>, NEW s, Run(f, s), s.created <= refill[f].created
      PROVE  refill'[f].created <= refill[f].created /\ last' = last
  <2>1. last' = last
      BY <1>a DEF pool
  <2>2. QED
      BY <1>2, <1>a, <2>1
<1>5. CASE \E only \in OnDemand \cup {None} : StartRefill(f, only)
  <2>1. PICK only : StartRefill(f, only)
      BY <1>5
  <2>2. PICK enabled : Run(f, [NoRefill EXCEPT !.at = "budget", !.only = only, !.enabled = enabled])
      BY <2>1 DEF StartRefill
  <2>3. [NoRefill EXCEPT !.at = "budget", !.only = only, !.enabled = enabled].created = 0
      BY DEF NoRefill
  <2>4. UNCHANGED <<quota, pool, web>>
      BY <2>1 DEF StartRefill
  <2>5. PICK s : Run(f, s) /\ s.created = 0
      BY <2>2, <2>3
  <2>6. QED
      BY <1>1, <1>a, <2>4, <2>5
<1>6. ASSUME NEW state, state \in RefillState, NEW left, NEW created, created <= refill[f].created,
             created \in Nat, Run(f, Trying(state, left, created)), last' = last
      PROVE  refill'[f].created <= refill[f].created
  <2>1. Trying(state, left, created).created = created
      BY <1>6 DEF Trying, RefillState
  <2>2. QED
      BY <1>2, <1>6, <2>1
<1>7. CASE ReadBudget(f)
  <2>1. refill[f].created = 0 /\ last' = last
      BY <1>1, <1>7 DEF ReadBudget, RefillSound, pool
  <2>2. PICK budget \in Nat \cup {None} : budget = generation_budget
      BY BudgetTyped DEF IInv, TypeOK
  <2>3. PICK state : state = [refill[f] EXCEPT !.budget = budget]
      OBVIOUS
  <2>4. state \in RefillState /\ state.created = 0
      BY <1>1, <2>1, <2>2, <2>3 DEF RefillState
  <2>5. \A at : [state EXCEPT !.at = at].created = 0
      BY <2>4 DEF RefillState
  <2>6. \/ EndRefill(f)
        \/ \E at : Run(f, [state EXCEPT !.at = at])
        \/ \E words : Run(f, Trying(state, words, 0))
      BY <1>7, <2>2, <2>3 DEF ReadBudget
  <2>7. CASE \E at : Run(f, [state EXCEPT !.at = at])
    <3>1. PICK at : Run(f, [state EXCEPT !.at = at])
        BY <2>7
    <3>2. refill'[f].created = 0
        BY <1>2, <2>5, <3>1
    <3>3. QED
        BY <2>1, <3>2
  <2>8. CASE \E words : Run(f, Trying(state, words, 0))
      BY <1>1, <1>6, <2>1, <2>4, <2>8
  <2>9. QED
      BY <1>4, <2>1, <2>6, <2>7, <2>8
<1>8. CASE CheckPairs(f)
  <2>1. PICK at : Run(f, [refill[f] EXCEPT !.at = at])
      BY <1>8 DEF CheckPairs
  <2>2. [refill[f] EXCEPT !.at = at].created = refill[f].created
      BY <1>1 DEF RefillState
  <2>3. UNCHANGED <<quota, pool, web>>
      BY <1>8 DEF CheckPairs
  <2>4. PICK s : Run(f, s) /\ s.created = refill[f].created
      BY <2>1, <2>2
  <2>5. QED
      BY <1>1, <1>a, <2>3, <2>4
<1>9. CASE StorePairs(f)
  <2>1. PICK at : Run(f, [refill[f] EXCEPT !.at = at, !.created = refill[f].created + 1])
      BY <1>9 DEF StorePairs
  <2>2. [refill[f] EXCEPT !.at = at, !.created = refill[f].created + 1].created = refill[f].created + 1
      BY <1>1 DEF RefillState
  <2>3. QED
      BY <1>2, <1>9, <2>1, <2>2 DEF StorePairs, Store
<1>10. CASE CountPending(f)
  <2>1. PICK words : Run(f, Trying(refill[f], words, refill[f].created))
      BY <1>10 DEF CountPending
  <2>2. QED
      BY <1>1, <1>6, <1>10, <2>1 DEF CountPending, pool
<1>11. CASE \E type \in CardType : StoreCard(f, type)
  <2>1. PICK left : Run(f, Trying(refill[f], left, refill[f].created + 1))
      BY <1>11 DEF StoreCard
  <2>2. Trying(refill[f], left, refill[f].created + 1).created = refill[f].created + 1
      BY <1>1 DEF Trying, RefillState
  <2>3. QED
      BY <1>2, <1>11, <2>1, <2>2 DEF StoreCard, Store
<1>12. CASE SkipCard(f)
    BY <1>1, <1>6, <1>12 DEF SkipCard, pool
<1>13. CASE ReadUsage(f)
  <2>1. CASE EndRefill(f)
      BY <1>4, <1>13, <2>1 DEF ReadUsage, pool
  <2>2. CASE Run(f, [refill[f] EXCEPT !.at = "charge", !.period = day, !.row = used[day]])
    <3>1. [refill[f] EXCEPT !.at = "charge", !.period = day, !.row = used[day]].created
              = refill[f].created
        BY <1>1 DEF RefillState
    <3>2. UNCHANGED <<quota, pool, web>>
        BY <1>13 DEF ReadUsage
    <3>3. PICK s : Run(f, s) /\ s.created = refill[f].created
        BY <2>2, <3>1
    <3>4. QED
        BY <1>1, <1>a, <3>2, <3>3
  <2>3. QED
      BY <1>13, <2>1, <2>2 DEF ReadUsage
<1>14. QED
    BY <1>4, <1>5, <1>7, <1>8, <1>9, <1>10, <1>11, <1>12, <1>13 DEF Refilling, AbortRefill, pool

LEMMA RefillCharges ==
    ASSUME OInv, IInv', NEW f \in Refiller,
           \/ Refilling(f) /\ ~Charge(f)
           \/ AbortRefill(f)
           \/ \E only \in OnDemand \cup {None} : StartRefill(f, only)
    PROVE  OInv'
<1>1. PICK s \in RefillState : Run(f, s) /\ RefillSound(s) /\ Holds(refill[f], s)
    BY RefillProceeds DEF OInv, IInv, Proceeds
<1>2. refill'[f] = s
    BY <1>1, RunTyped DEF OInv, IInv
<1>3. /\ s.created \in Nat /\ refill[f].created \in Nat /\ last \in Nat
      /\ day \in Day /\ used \in [Day -> Nat \cup {None}]
    BY DEF OInv, IInv, TypeOK, QuotaTypeOK, RefillState
<1>4. \A d \in Day : Read(s, d) <= Standing(d)
  <2>1. s.at # "charge" \/ (s.period = day /\ s.row = used[day])
      BY <1>1 DEF Holds, Past
  <2>2. QED
      BY <1>3, <2>1 DEF Read, Standing
<1>5. UNCHANGED used
    BY DEF Refilling, ReadBudget, CheckPairs, StorePairs, CountPending, StoreCard, SkipCard,
           ReadUsage, AbortRefill, StartRefill, quota
<1>6. /\ IsFiniteSet(Charges') /\ Cardinality(Charges') \in Nat
      /\ Cardinality(Charges') <= Cardinality(Charges) /\ Cardinality(Charges) \in Nat
    BY <1>1, <1>4, <1>5, ChargesLess, FS_CardinalityType DEF OInv
<1>7. CASE s.created <= refill[f].created /\ last' = last
  <2>1. /\ IsFiniteSet(Unpaid') /\ Cardinality(Unpaid') \in Nat
        /\ Cardinality(Unpaid') <= Cardinality(Unpaid) /\ Cardinality(Unpaid) \in Nat
      BY <1>1, <1>7, UnpaidLess, FS_CardinalityType DEF OInv
  <2>2. QED
      BY <1>3, <1>6, <1>7, <2>1 DEF OInv
<1>8. CASE s.created = refill[f].created + 1 /\ last' = last + 1
  <2>1. /\ IsFiniteSet(Unpaid') /\ Cardinality(Unpaid') \in Nat
        /\ Cardinality(Unpaid') <= Cardinality(Unpaid) + 1 /\ Cardinality(Unpaid) \in Nat
      BY <1>1, <1>8, UnpaidMore, FS_CardinalityType DEF OInv
  <2>2. QED
      BY <1>3, <1>6, <1>8, <2>1 DEF OInv
<1>9. QED
    BY <1>2, <1>7, <1>8, CreatedBy DEF OInv

LEMMA ChargeCharges ==
    ASSUME OInv, IInv', NEW f \in Refiller, Charge(f)
    PROVE  OInv'
<1>1. /\ EndRefill(f) /\ refill[f].at = "charge" /\ last' = last
      /\ last \in Nat /\ refill[f].created \in Nat
    BY DEF Charge, pool, OInv, IInv, TypeOK, RefillState
<1>2. /\ IsFiniteSet(Unpaid') /\ Cardinality(Unpaid') \in Nat
      /\ Cardinality(Unpaid') + refill[f].created = Cardinality(Unpaid)
    BY <1>1, Settled DEF OInv
<1>3. Cardinality(Charges) \in Nat /\ Cardinality(Charges) + Cardinality(Unpaid) <= last
    BY FS_CardinalityType DEF OInv
<1>4. /\ IsFiniteSet(Charges') /\ Cardinality(Charges') \in Nat
      /\ Cardinality(Charges') <= Cardinality(Charges) + refill[f].created
  <2>1. CASE UNCHANGED used
    <3>1. \A d \in Day : Read(NoRefill, d) = 0 /\ Standing(d) \in Nat
        BY DEF Read, NoRefill, Standing, OInv, IInv, TypeOK, QuotaTypeOK
    <3>2. \A d \in Day : Read(NoRefill, d) <= Standing(d)
        BY <3>1
    <3>3. Cardinality(Charges') \in Nat /\ Cardinality(Charges') <= Cardinality(Charges)
          /\ IsFiniteSet(Charges')
        BY <1>1, <2>1, <3>2, ChargesLess, NoRefillSound DEF EndRefill, OInv
    <3>4. QED
        BY <1>1, <1>3, <3>3
  <2>2. CASE ConsumeGenerations(refill[f].period, refill[f].row, refill[f].created)
      BY <1>1, <2>2, ChargesMore DEF OInv
  <2>3. QED
      BY <2>1, <2>2 DEF Charge
<1>5. QED
    BY <1>1, <1>2, <1>3, <1>4 DEF OInv

LEMMA ChargesStep ==
    ASSUME OInv, [Next]_vars
    PROVE  OInv'
<1>1. IInv'
    BY EveryStep DEF OInv
<1>2. CASE UNCHANGED <<used, refill, last>>
  <2>1. Charges' = Charges /\ Unpaid' = Unpaid
      BY <1>2 DEF Charges, Standing, Read, Unpaid
  <2>2. QED
      BY <1>1, <1>2, <2>1 DEF OInv
<1>3. ASSUME NEW f \in Refiller, Refilling(f) \/ AbortRefill(f)
      PROVE  OInv'
    BY <1>1, <1>3, RefillCharges, ChargeCharges
<1>4. ASSUME NEW f \in Refiller, \E only \in OnDemand \cup {None} : StartRefill(f, only)
      PROVE  OInv'
    BY <1>1, <1>4, RefillCharges
<1>5. ASSUME NEW r \in Request, Serving(r) \/ AbortRequest(r)
      PROVE  OInv'
    BY <1>2, <1>5
       DEF Serving, MarkServed, RecordAttempt, Complete, Feed, WritePreferences, DropDisabled,
           AbortRequest, quota, pool
<1>6. ASSUME NEW r \in Request,
             \/ \E types : GetNext(r, types) \/ SetPreferences(r, types)
             \/ \E e : SubmitAttempt(r, e)
      PROVE  OInv'
    BY <1>2, <1>6 DEF GetNext, SetPreferences, SubmitAttempt, quota, pool
<1>7. ASSUME NEW e \in ExerciseId, DeleteExercise(e) \/ \E status : UpdateExercise(e, status)
      PROVE  OInv'
    BY <1>2, <1>7 DEF DeleteExercise, UpdateExercise, quota
<1>8. CASE (NewDay \/ ChangePlan) /\ UNCHANGED <<pool, refill, web>>
    BY <1>2, <1>8 DEF NewDay, ChangePlan, pool
<1>9. CASE UNCHANGED vars
    BY <1>2, <1>9 DEF vars, quota, pool
<1>10. QED
    BY <1>3, <1>4, <1>5, <1>6, <1>7, <1>8, <1>9 DEF Next

LEMMA ChargesInit == Init => OInv
<1> SUFFICES ASSUME Init PROVE OInv
    OBVIOUS
<1>1. Charges = {}
    BY DEF Init, QuotaInit, Charges, Standing, Read, NoRefill
<1>2. Unpaid = {}
    BY DEF Init, Unpaid, NoRefill
<1>3. IsFiniteSet({}) /\ Cardinality({}) = 0 /\ last = 0
    BY FS_EmptySet DEF Init
<1>4. QED
    BY <1>1, <1>2, <1>3, InitInv DEF OInv

(***************************************************************************)
(* The learner is never charged for more generations than were stored, for *)
(* any number of overlapping refills, days and plan changes: each unit a   *)
(* counter has reached, and each unit a running refill may still add, is   *)
(* paid for by a stored exercise of its own.                               *)
(***************************************************************************)
THEOREM IsNeverOvercharged == Spec => []NeverOvercharged
<1>1. OInv /\ [Next]_vars => OInv'
    BY ChargesStep
<1>2. ASSUME OInv PROVE NeverOvercharged
  <2> DEFINE S == UNION {{d} \X (1..used[d]) : d \in {d \in Day : used[d] # None}}
  <2>1. S \subseteq Charges
    <3> SUFFICES ASSUME NEW d \in Day, used[d] # None, NEW p \in {d} \X (1..used[d])
                 PROVE  p \in Charges
        OBVIOUS
    <3>1. used[d] \in Nat
        BY <1>2 DEF OInv, IInv, TypeOK, QuotaTypeOK
    <3>2. PICK i \in 1..used[d] : p = <<d, i>>
        OBVIOUS
    <3>3. QED
        BY <3>1, <3>2 DEF Charges, Standing
  <2>2. Cardinality(S) <= Cardinality(Charges) /\ Cardinality(S) \in Nat
      BY <1>2, <2>1, FS_Subset, FS_CardinalityType DEF OInv
  <2> HIDE DEF S
  <2>3. /\ Cardinality(Charges) \in Nat /\ Cardinality(Unpaid) \in Nat /\ last \in Nat
        /\ Cardinality(Charges) + Cardinality(Unpaid) <= last
      BY <1>2, FS_CardinalityType DEF OInv, IInv, TypeOK
  <2>4. Cardinality(S) <= last
      BY <2>2, <2>3
  <2>5. QED
      BY <2>4 DEF NeverOvercharged, S
<1>3. QED
    BY <1>1, <1>2, ChargesInit, PTL DEF Spec

-----------------------------------------------------------------------------
(* One refill at a time *)

\* The budget a refill read is still to be had today; what it is about to write
\* is within the limit, and the counter is as it read it.
HeldWithin(s) ==
    /\ s.at \in Past \ {"charge"} =>
          IF s.budget = None THEN Limit = 0
          ELSE s.budget <= Limit /\ (used[day] # None => used[day] + s.budget <= Limit)
    /\ s.at = "charge" =>
          /\ s.period <= day
          /\ s.row = used[s.period]
          /\ (IF s.row = None THEN s.created ELSE s.row + s.created) <= Limit

FutureUnused == \A d \in Day : d > day => used[d] = None

QInv ==
    /\ IInv
    /\ ~premium
    /\ WithinQuota
    /\ FutureUnused
    /\ \A f \in Refiller : HeldWithin(refill[f])

LEMMA BudgetWithin ==
    ASSUME QInv
    PROVE  IF generation_budget = None THEN Limit = 0
           ELSE /\ generation_budget \in Nat /\ generation_budget <= Limit
                /\ used[day] # None => used[day] + generation_budget <= Limit
<1>1. day \in Day /\ used[day] \in Nat \cup {None} /\ (used[day] # None => used[day] <= Limit)
    BY DEF QInv, IInv, TypeOK, QuotaTypeOK, WithinQuota
<1>2. Unlimited <=> Limit = 0
    BY DEF QInv, Unlimited
<1>3. CASE Limit = 0
    BY <1>2, <1>3 DEF generation_budget
<1>4. CASE Limit # 0
  <2>1. CASE used[day] = None
      BY <1>2, <1>4, <2>1 DEF generation_budget
  <2>2. CASE used[day] # None
      BY <1>1, <1>2, <1>4, <2>2 DEF generation_budget
  <2>3. QED
      BY <2>1, <2>2
<1>5. QED
    BY <1>3, <1>4

\* A step of a refill that leaves the counter alone.
LEMMA HoldsWithin ==
    ASSUME QInv, NEW f \in Refiller, NEW s \in RefillState, RefillSound(s), Holds(refill[f], s)
    PROVE  HeldWithin(s)
<1>1. refill[f] \in RefillState /\ HeldWithin(refill[f]) /\ RefillSound(refill[f])
    BY DEF QInv, IInv, TypeOK
<1>2. CASE s.at \in {"idle", "budget"}
    BY <1>2 DEF HeldWithin, Past
<1>3. CASE s.at \in Past \ {"charge"} /\ s.budget = generation_budget
    BY <1>3, BudgetWithin DEF HeldWithin
<1>4. CASE /\ refill[f].at \in Past \ {"charge"} /\ s.at \in Past \ {"charge"}
           /\ s.budget = refill[f].budget
    BY <1>1, <1>4 DEF HeldWithin
<1>5. CASE /\ refill[f].at = "consume" /\ s.at = "charge" /\ ~Unlimited
           /\ s.budget = refill[f].budget /\ s.created = refill[f].created
           /\ s.period = day /\ s.row = used[day]
  <2>1. day \in Day /\ used[day] \in Nat \cup {None} /\ day \in Nat
      BY DEF QInv, IInv, TypeOK, QuotaTypeOK, Day
  <2>2. Limit # 0
      BY <1>5 DEF Unlimited
  <2>3. /\ s.budget # None /\ s.budget <= Limit
        /\ used[day] # None => used[day] + s.budget <= Limit
      BY <1>1, <1>5, <2>2 DEF HeldWithin, Past
  <2>4. /\ s.budget \in Nat /\ s.created \in Nat /\ s.left \in Nat
        /\ s.created + s.left <= s.budget
      BY <1>5, <2>3 DEF RefillState, RefillSound, Past
  <2>5. (IF s.row = None THEN s.created ELSE s.row + s.created) <= Limit
    <3>1. CASE s.row = None
        BY <2>3, <2>4, <3>1
    <3>2. CASE s.row # None
        BY <1>5, <2>1, <2>3, <2>4, <3>2
    <3>3. QED
        BY <3>1, <3>2
  <2>6. QED
      BY <1>5, <2>1, <2>5 DEF HeldWithin
<1>6. QED
    BY <1>2, <1>3, <1>4, <1>5 DEF Holds

LEMMA ChargeWithin ==
    ASSUME QInv, NEW f \in Refiller, \A g \in Refiller : f = g, Charge(f), IInv'
    PROVE  QInv'
<1> DEFINE period == refill[f].period
           sum == IF refill[f].row = None THEN refill[f].created ELSE refill[f].row + refill[f].created
<1>1. UNCHANGED <<day, premium>>
    BY DEF Charge
<1>2. period \in Day /\ period <= day /\ sum <= Limit
    BY DEF Charge, QInv, IInv, RefillSound, HeldWithin
<1> HIDE DEF sum
<1>3. used' = used \/ used' = [used EXCEPT ![period] = sum]
    BY DEF Charge, ConsumeGenerations, sum
<1>4. \A d \in Day : used'[d] = used[d] \/ (d = period /\ used'[d] = sum)
    BY <1>2, <1>3 DEF QInv, IInv, TypeOK, QuotaTypeOK
<1>5. WithinQuota'
    BY <1>2, <1>4 DEF QInv, WithinQuota
<1>6. FutureUnused'
  <2> SUFFICES ASSUME NEW d \in Day, d > day PROVE used'[d] = None
      BY <1>1 DEF FutureUnused
  <2>1. d # period
      BY <1>2 DEF QInv, IInv, TypeOK, QuotaTypeOK, Day
  <2>2. QED
      BY <1>4, <2>1 DEF QInv, FutureUnused
<1>7. \A g \in Refiller : refill'[g].at = "idle"
  <2>1. refill' = [refill EXCEPT ![f] = NoRefill]
      BY DEF Charge, EndRefill, Run
  <2>2. refill'[f] = NoRefill
      BY <2>1 DEF QInv, IInv, TypeOK
  <2>3. QED
      BY <2>2 DEF NoRefill
<1>8. \A g \in Refiller : HeldWithin(refill[g])'
    BY <1>7 DEF HeldWithin, Past
<1>9. QED
    BY <1>1, <1>5, <1>6, <1>8 DEF QInv

LEMMA QuotaStep ==
    ASSUME QInv, [Next]_vars, \A f, g \in Refiller : f = g, MaxPlanChanges = 0
    PROVE  QInv'
<1>1. IInv'
    BY EveryStep DEF QInv
<1>2. ASSUME NEW f \in Refiller,
             \/ Refilling(f) \/ AbortRefill(f)
             \/ \E only \in OnDemand \cup {None} : StartRefill(f, only)
      PROVE  QInv'
  <2>1. CASE Charge(f)
      BY <1>1, <2>1, ChargeWithin
  <2>2. CASE UNCHANGED <<day, premium, used>>
    <3>1. PICK s \in RefillState : Run(f, s) /\ RefillSound(s) /\ Holds(refill[f], s)
        BY <1>2, RefillProceeds DEF QInv, IInv, Proceeds
    <3>2. HeldWithin(s)
        BY <3>1, HoldsWithin
    <3>3. \A g \in Refiller : refill'[g] = IF g = f THEN s ELSE refill[g]
        BY <3>1, RunTyped DEF QInv, IInv
    <3>4. \A g \in Refiller : HeldWithin(refill'[g])
        BY <3>2, <3>3 DEF QInv
    <3>5. \A g \in Refiller : HeldWithin(refill[g])'
        BY <2>2, <3>4 DEF HeldWithin
    <3>6. QED
        BY <1>1, <2>2, <3>5 DEF QInv, WithinQuota, FutureUnused
  <2>3. QED
      BY <1>2, <2>1, <2>2
         DEF Refilling, ReadBudget, CheckPairs, StorePairs, CountPending, StoreCard, SkipCard,
             ReadUsage, AbortRefill, StartRefill, quota
<1>3. CASE NewDay /\ UNCHANGED <<pool, refill, web>>
  <2>1. /\ day' = day + 1 /\ day \in Day /\ day' \in Day /\ UNCHANGED <<used, premium, refill>>
        /\ day' > day
      BY <1>1, <1>3 DEF NewDay, QInv, IInv, TypeOK, QuotaTypeOK, Day
  <2>2. used'[day'] = None
      BY <2>1 DEF QInv, FutureUnused
  <2>3. FutureUnused'
    <3> SUFFICES ASSUME NEW d \in Day, d > day' PROVE used[d] = None
        BY <2>1 DEF FutureUnused
    <3>1. d > day
        BY <2>1 DEF Day
    <3>2. QED
        BY <3>1 DEF QInv, FutureUnused
  <2>4. \A g \in Refiller : HeldWithin(refill[g])'
    <3> SUFFICES ASSUME NEW g \in Refiller PROVE HeldWithin(refill[g])'
        OBVIOUS
    <3>1. HeldWithin(refill[g]) /\ RefillSound(refill[g])
        BY DEF QInv, IInv
    <3>2. refill[g].at = "charge" => refill[g].period <= day'
        BY <2>1, <3>1 DEF HeldWithin, RefillSound, Day
    <3>3. QED
        BY <2>1, <2>2, <3>1, <3>2 DEF HeldWithin
  <2>5. QED
      BY <1>1, <2>1, <2>3, <2>4 DEF QInv, WithinQuota
<1>4. CASE ChangePlan
    BY <1>4 DEF ChangePlan, QInv, IInv, TypeOK, QuotaTypeOK
<1>5. CASE UNCHANGED <<quota, refill>>
    BY <1>1, <1>5 DEF QInv, quota, WithinQuota, FutureUnused, HeldWithin
<1>6. QED
    BY <1>2, <1>3, <1>4, <1>5
       DEF Next, GetNext, SubmitAttempt, SetPreferences, Serving, AbortRequest, MarkServed,
           RecordAttempt, Complete, Feed, WritePreferences, DropDisabled, DeleteExercise,
           UpdateExercise, vars

(***************************************************************************)
(* With one worker and an unchanged plan a learner is never charged past   *)
(* the daily limit, although a refill reads the budget long before it      *)
(* charges it: across midnights, aborted and repeated refills, and for any *)
(* limit, target and number of words.                                      *)
(***************************************************************************)
THEOREM OneWorkerWithinQuota ==
    ASSUME \A f, g \in Refiller : f = g, MaxPlanChanges = 0
    PROVE  Spec => []WithinQuota
<1>1. Init => QInv
  <2> SUFFICES ASSUME Init PROVE QInv
      OBVIOUS
  <2>1. ~premium /\ \A d \in Day : used[d] = None
      BY DEF Init, QuotaInit
  <2>2. \A f \in Refiller : HeldWithin(refill[f])
      BY DEF Init, NoRefill, HeldWithin, Past
  <2>3. QED
      BY <2>1, <2>2, InitInv DEF QInv, WithinQuota, FutureUnused
<1>2. QInv /\ [Next]_vars => QInv'
    BY QuotaStep
<1>3. QInv => WithinQuota
    BY DEF QInv
<1>4. QED
    BY <1>1, <1>2, <1>3, PTL DEF Spec

-----------------------------------------------------------------------------
(* A top-up stops at the target *)

\* A top-up has no more cards to try than the inventory has room for.
RoomLeft(s) ==
    (s.at = "store" /\ s.only = None) => Cardinality(Pending) + s.left <= Target

\* A request that is to write SERVED does so to an unanswered exercise.
HandsOut(s) == (s.at = "serve" /\ Stored(s.exercise)) => s.exercise \in Pending

PInv ==
    /\ RInv
    /\ \A f \in Refiller : RoomLeft(refill[f])
    /\ \A r \in Request : HandsOut(web[r])

LEMMA PendingLess ==
    ASSUME Pending' \subseteq Pending
    PROVE  Cardinality(Pending') \in Nat /\ Cardinality(Pending') <= Cardinality(Pending)
<1>1. IsFiniteSet(Pending)
    BY PendingFinite
<1>2. QED
    BY <1>1, FS_Subset, FS_CardinalityType

LEMMA PendingOneMore ==
    ASSUME TypeOK, NEW type, Store(type)
    PROVE  Cardinality(Pending') \in Nat /\ Cardinality(Pending') <= Cardinality(Pending) + 1
<1>1. IsFiniteSet(Pending)
    BY PendingFinite
<1>2. PICK e : e = last + 1
    OBVIOUS
<1>3. \A d \in ExerciseId : d # e => exercises'[d] = exercises[d]
    BY <1>2 DEF Store, TypeOK
<1>4. Pending' \subseteq Pending \cup {e}
    BY <1>3 DEF Pending, Stored
<1>5. /\ IsFiniteSet(Pending \cup {e}) /\ Cardinality(Pending) \in Nat
      /\ Cardinality(Pending \cup {e}) \in {Cardinality(Pending), Cardinality(Pending) + 1}
    BY <1>1, FS_AddElement, FS_CardinalityType
<1>6. Cardinality(Pending') \in Nat /\ Cardinality(Pending') <= Cardinality(Pending \cup {e})
    BY <1>4, <1>5, FS_Subset, FS_CardinalityType
<1>7. QED
    BY <1>5, <1>6

\* What answers, drops and deletions do to the inventory.
LEMMA StatusPending ==
    ASSUME TypeOK, NEW e \in ExerciseId, NEW status, SetStatus(e, status),
           status = "COMPLETED" \/ e \in Pending
    PROVE  Pending' \subseteq Pending
<1>1. \A d \in ExerciseId : d # e => exercises'[d] = exercises[d]
    BY DEF SetStatus, TypeOK
<1>2. exercises'[e].status = status
    BY DEF SetStatus, TypeOK
<1>3. QED
    BY <1>1, <1>2 DEF Pending, Stored

LEMMA DropPending ==
    ASSUME TypeOK, NEW ids, Drop(ids)
    PROVE  Pending' \subseteq Pending
    BY DEF Drop, Pending, Stored, TypeOK

\* A refill that stores a row, and what it has left to do then.
LEMMA StoreRoom ==
    ASSUME PInv, NEW f \in Refiller, StorePairs(f) \/ \E type \in CardType : StoreCard(f, type)
    PROVE  /\ RoomLeft(refill[f])'
           /\ ToppingUp(f) => Cardinality(Pending') <= Target
<1>1. /\ TypeOK /\ refill[f] \in RefillState /\ RefillSound(refill[f]) /\ RoomLeft(refill[f])
      /\ Cardinality(Pending) \in Nat
    BY PendingFinite DEF PInv, RInv, IInv, TypeOK
<1>2. PICK type : Store(type)
    BY DEF StorePairs, StoreCard
<1>3. Cardinality(Pending') \in Nat /\ Cardinality(Pending') <= Cardinality(Pending) + 1
    BY <1>1, <1>2, PendingOneMore
<1>4. \A s : Run(f, s) => refill'[f] = s
    BY <1>1 DEF Run, TypeOK
<1>5. CASE StorePairs(f)
  <2>1. PICK at \in {"count", "consume"} :
            Run(f, [refill[f] EXCEPT !.at = at, !.created = refill[f].created + 1])
      BY <1>5 DEF StorePairs
  <2>2. [refill[f] EXCEPT !.at = at, !.created = refill[f].created + 1].at = at
      BY <1>1 DEF RefillState
  <2>3. refill'[f].at # "store" /\ refill[f].at # "store"
      BY <1>4, <1>5, <2>1, <2>2 DEF StorePairs
  <2>4. QED
      BY <2>3 DEF RoomLeft, ToppingUp, StoreCard
<1>6. CASE \E t \in CardType : StoreCard(f, t)
  <2>1. PICK left, created :
            /\ left = refill[f].left - 1
            /\ refill'[f] = Trying(refill[f], left, created)
      BY <1>4, <1>6 DEF StoreCard
  <2>2. /\ Trying(refill[f], left, created).only = refill[f].only
        /\ Trying(refill[f], left, created).left = left
      BY <1>1 DEF Trying, RefillState
  <2>3. refill'[f].only = refill[f].only /\ refill'[f].left = left
      BY <2>1, <2>2
  <2>4. refill[f].at = "store" /\ refill[f].left \in Nat /\ refill[f].left > 0
      BY <1>1, <1>6 DEF StoreCard, RefillSound, RefillState
  <2>5. ASSUME refill[f].only = None
        PROVE  Cardinality(Pending') + left <= Target /\ Cardinality(Pending') <= Target
      BY <1>1, <1>3, <2>1, <2>4, <2>5 DEF RoomLeft
  <2>6. QED
      BY <2>3, <2>5 DEF RoomLeft, ToppingUp
<1>7. QED
    BY <1>5, <1>6

\* A refill that stores none.
LEMMA OtherRoom ==
    ASSUME PInv, NEW f \in Refiller, UNCHANGED pool,
           \/ Refilling(f) \/ AbortRefill(f)
           \/ \E only \in OnDemand \cup {None} : StartRefill(f, only)
    PROVE  RoomLeft(refill[f])'
<1>1. /\ TypeOK /\ refill[f] \in RefillState /\ RefillSound(refill[f]) /\ RoomLeft(refill[f])
      /\ Cardinality(Pending) \in Nat /\ None \notin CardType
    BY PendingFinite DEF PInv, RInv, IInv, TypeOK, Type
<1>2. Pending' = Pending
    BY DEF pool, Pending, Stored
<1>3. \A s : Run(f, s) => refill'[f] = s
    BY <1>1 DEF Run, TypeOK
<1>4. ASSUME NEW state \in RefillState, NEW left, NEW created, Run(f, Trying(state, left, created)),
             state.only # None \/ left = 0 \/ Cardinality(Pending) + left <= Target
      PROVE  RoomLeft(refill[f])'
  <2>1. /\ Trying(state, left, created).only = state.only
        /\ Trying(state, left, created).left = left
        /\ Trying(state, left, created).at = IF left > 0 THEN "store" ELSE "consume"
      BY <1>4 DEF Trying, RefillState
  <2>2. /\ refill'[f].only = state.only /\ refill'[f].left = left
        /\ refill'[f].at = IF left > 0 THEN "store" ELSE "consume"
      BY <1>3, <1>4, <2>1
  <2>3. QED
      BY <1>2, <1>4, <2>2 DEF RoomLeft
<1>5. ASSUME NEW s, Run(f, s), s.at # "store"
      PROVE  RoomLeft(refill[f])'
    BY <1>3, <1>5 DEF RoomLeft
<1>6. CASE EndRefill(f)
    BY <1>5, <1>6, NoRefillSound DEF EndRefill
<1>7. CASE StartRefill(f, None) \/ \E only \in OnDemand : StartRefill(f, only)
  <2>1. PICK only, enabled :
            Run(f, [NoRefill EXCEPT !.at = "budget", !.only = only, !.enabled = enabled])
      BY <1>7 DEF StartRefill
  <2>2. [NoRefill EXCEPT !.at = "budget", !.only = only, !.enabled = enabled].at = "budget"
      BY DEF NoRefill
  <2>3. PICK s : Run(f, s) /\ s.at = "budget"
      BY <2>1, <2>2
  <2>4. QED
      BY <1>5, <2>3
<1>8. CASE ReadBudget(f)
  <2>1. PICK budget \in Nat \cup {None} : budget = generation_budget
      BY <1>1, BudgetTyped DEF TypeOK
  <2>2. PICK state : state = [refill[f] EXCEPT !.budget = budget]
      OBVIOUS
  <2>3. state \in RefillState
      BY <1>1, <2>1, <2>2 DEF RefillState
  <2>4. \/ EndRefill(f)
        \/ \E at \in {"pairs", "count"} : Run(f, [state EXCEPT !.at = at])
        \/ state.only \in CardType /\ \E words : Run(f, Trying(state, words, 0))
      BY <1>8, <2>1, <2>2 DEF ReadBudget
  <2>5. ASSUME NEW at \in {"pairs", "count"}, Run(f, [state EXCEPT !.at = at])
        PROVE  RoomLeft(refill[f])'
    <3>1. [state EXCEPT !.at = at].at = at
        BY <2>3 DEF RefillState
    <3>2. PICK s : Run(f, s) /\ s.at = at
        BY <2>5, <3>1
    <3>3. QED
        BY <1>5, <3>2
  <2>6. QED
      BY <1>1, <1>4, <1>6, <2>3, <2>4, <2>5
<1>9. CASE CheckPairs(f)
  <2>1. PICK at \in {"store_pairs", "count", "consume"} : Run(f, [refill[f] EXCEPT !.at = at])
      BY <1>9 DEF CheckPairs
  <2>2. [refill[f] EXCEPT !.at = at].at = at
      BY <1>1 DEF RefillState
  <2>3. PICK s : Run(f, s) /\ s.at = at
      BY <2>1, <2>2
  <2>4. QED
      BY <1>5, <2>3
<1>10. CASE CountPending(f)
  <2>1. PICK words \in Nat : /\ Run(f, Trying(refill[f], words, refill[f].created))
                             /\ words = 0 \/ words <= Need(refill[f])
    <3>1. Need(refill[f]) \in Int
        BY <1>1, NeedTyped
    <3>2. QED
        BY <1>10, <3>1 DEF CountPending
  <2>2. Need(refill[f]) <= Target - Cardinality(Pending)
      BY <1>1 DEF Need, RefillState
  <2>3. words = 0 \/ Cardinality(Pending) + words <= Target
    <3>1. Need(refill[f]) \in Int
        BY <1>1, NeedTyped
    <3>2. QED
        BY <1>1, <2>1, <2>2, <3>1
  <2>4. QED
      BY <1>1, <1>4, <2>1, <2>3
<1>11. CASE SkipCard(f)
  <2>1. /\ Run(f, Trying(refill[f], refill[f].left - 1, refill[f].created))
        /\ refill[f].at = "store" /\ refill[f].left \in Nat
      BY <1>1, <1>11 DEF SkipCard, RefillState
  <2>2. refill[f].only # None \/ Cardinality(Pending) + (refill[f].left - 1) <= Target
      BY <1>1, <2>1 DEF RoomLeft
  <2>3. QED
      BY <1>1, <1>4, <2>1, <2>2
<1>12. CASE ReadUsage(f)
  <2>1. CASE Run(f, [refill[f] EXCEPT !.at = "charge", !.period = day, !.row = used[day]])
    <3>1. [refill[f] EXCEPT !.at = "charge", !.period = day, !.row = used[day]].at = "charge"
        BY <1>1 DEF RefillState
    <3>2. PICK s : Run(f, s) /\ s.at = "charge"
        BY <2>1, <3>1
    <3>3. QED
        BY <1>5, <3>2
  <2>2. QED
      BY <1>6, <1>12, <2>1 DEF ReadUsage
<1>13. CASE StorePairs(f) \/ \E type \in CardType : StoreCard(f, type)
  <2>1. PICK type : Store(type)
      BY <1>13 DEF StorePairs, StoreCard
  <2>2. last' = last + 1 /\ last' = last /\ last \in Nat
      BY <1>1, <2>1 DEF Store, pool, TypeOK
  <2>3. QED
      BY <2>2
<1>14. QED
    BY <1>6, <1>7, <1>8, <1>9, <1>10, <1>11, <1>12, <1>13
       DEF Refilling, AbortRefill, Charge

LEMMA RequestPending ==
    ASSUME PInv, NEW r \in Request,
           \/ Serving(r) \/ AbortRequest(r)
           \/ \E types \in {Type} \cup {{t} : t \in OnDemand} : GetNext(r, types)
           \/ \E e \in ExerciseId : SubmitAttempt(r, e)
           \/ \E types \in (SUBSET Type) \ {{}} : SetPreferences(r, types)
    PROVE  Pending' \subseteq Pending /\ HandsOut(web[r])'
<1>1. TypeOK /\ web[r] \in WebState /\ WebSound(web[r]) /\ HandsOut(web[r])
    BY DEF PInv, RInv, IInv, TypeOK
<1>2. \A s : Serve(r, s) => web'[r] = s
    BY <1>1 DEF Serve, TypeOK
<1>3. ASSUME NEW s, Serve(r, s), s.at # "serve"
      PROVE  HandsOut(web[r])'
    BY <1>2, <1>3 DEF HandsOut
<1>4. UNCHANGED exercises => Pending' = Pending
    BY DEF Pending, Stored
<1>5. CASE \E types : GetNext(r, types)
  <2>1. PICK e \in Pending : Serve(r, Answering("serve", e, 0))
      BY <1>5 DEF GetNext, NextPending, PendingOf
  <2>2. UNCHANGED exercises /\ web'[r].exercise = e
      BY <1>2, <1>5, <2>1, StatesRead DEF GetNext, pool
  <2>3. QED
      BY <1>4, <2>1, <2>2 DEF HandsOut
<1>6. CASE EndRequest(r) /\ UNCHANGED exercises
    BY <1>3, <1>4, <1>6, StatesRead DEF EndRequest
<1>7. CASE \E e \in ExerciseId : SubmitAttempt(r, e)
  <2>1. PICK s : Serve(r, s) /\ s.at = "attempt"
      BY <1>7, StatesRead DEF SubmitAttempt
  <2>2. QED
      BY <1>3, <1>4, <1>7, <2>1 DEF SubmitAttempt, pool
<1>8. CASE \E types : SetPreferences(r, types)
  <2>1. PICK s : Serve(r, s) /\ s.at = "preferences"
      BY <1>8, StatesRead DEF SetPreferences
  <2>2. QED
      BY <1>3, <1>4, <1>8, <2>1 DEF SetPreferences, pool
<1>9. CASE WritePreferences(r)
  <2>1. PICK s : Serve(r, s) /\ s.at = "drop"
      BY <1>9, StatesRead DEF WritePreferences
  <2>2. QED
      BY <1>3, <1>4, <1>9, <2>1 DEF WritePreferences
<1>10. CASE DropDisabled(r)
  <2>1. PICK ids : Drop(ids)
      BY <1>10 DEF DropDisabled
  <2>2. QED
      BY <1>1, <1>3, <1>10, <2>1, DropPending, StatesRead DEF DropDisabled, EndRequest
<1>11. CASE MarkServed(r)
  <2>1. web[r].exercise \in ExerciseId /\ web[r].at = "serve"
      BY <1>1, <1>11 DEF MarkServed, WebSound
  <2>2. CASE Stored(web[r].exercise)
    <3>1. web[r].exercise \in Pending /\ SetStatus(web[r].exercise, "SERVED")
        BY <1>1, <1>11, <2>1, <2>2 DEF HandsOut, MarkServed
    <3>2. Pending' \subseteq Pending
        BY <1>1, <2>1, <3>1, StatusPending
    <3>3. QED
        BY <1>3, <1>11, <3>2, StatesRead DEF MarkServed, EndRequest
  <2>3. QED
      BY <1>6, <1>11, <2>2 DEF MarkServed
<1>12. CASE RecordAttempt(r)
  <2>1. PICK s : Serve(r, s) /\ s.at \in {"complete", "idle"}
      BY <1>12, StatesRead DEF RecordAttempt, EndRequest
  <2>2. QED
      BY <1>3, <1>4, <1>12, <2>1 DEF RecordAttempt
<1>13. CASE Complete(r)
  <2>1. PICK s : Serve(r, s) /\ s.at \in {"feed", "idle"}
      BY <1>13, StatesRead DEF Complete, EndRequest
  <2>2. web[r].exercise \in ExerciseId
      BY <1>1, <1>13 DEF Complete, WebSound
  <2>3. Pending' \subseteq Pending
      BY <1>1, <1>4, <1>13, <2>2, StatusPending DEF Complete
  <2>4. QED
      BY <1>3, <2>1, <2>3
<1>14. CASE Feed(r)
  <2>1. PICK s : Serve(r, s) /\ s.at \in {"feed", "idle"}
      BY <1>14, StatesRead DEF Feed
  <2>2. QED
      BY <1>3, <1>4, <1>14, <2>1 DEF Feed
<1>15. QED
    BY <1>5, <1>6, <1>7, <1>8, <1>9, <1>10, <1>11, <1>12, <1>13, <1>14
       DEF Serving, AbortRequest, pool

LEMMA PoolStep ==
    ASSUME PInv, [Next]_vars, \A f, g \in Refiller : f = g, \A q, r \in Request : q = r,
           AdminStatus = {}
    PROVE  /\ PInv'
           /\ \A f \in Refiller : ToppingUp(f) => Cardinality(Pending') <= Target
<1>1. RInv' /\ TypeOK
    BY ReviewsStep DEF PInv, RInv, IInv
<1>2. ASSUME NEW f \in Refiller, StorePairs(f) \/ \E type \in CardType : StoreCard(f, type)
      PROVE  /\ PInv'
             /\ \A g \in Refiller : ToppingUp(g) => Cardinality(Pending') <= Target
  <2>1. /\ \A g \in Refiller : g = f
        /\ RoomLeft(refill[f])' /\ UNCHANGED web
        /\ ToppingUp(f) => Cardinality(Pending') <= Target
      BY <1>2, StoreRoom DEF StorePairs, StoreCard
  <2>2. \A g \in Refiller : RoomLeft(refill[g])'
      BY <2>1
  <2>3. \A e \in 1..last : exercises'[e] = exercises[e]
    <3>1. PICK type : Store(type)
        BY <1>2 DEF StorePairs, StoreCard
    <3>2. last \in 0..MaxExercises
        BY <1>1 DEF TypeOK
    <3>3. QED
        BY <1>1, <3>1, <3>2 DEF Store, TypeOK, ExerciseId
  <2>4. ASSUME NEW r \in Request
        PROVE  HandsOut(web[r])'
    <3>1. /\ HandsOut(web[r]) /\ web' = web
          /\ web[r].at = "serve" => web[r].exercise \in ExerciseId
          /\ web[r].exercise # None => web[r].exercise <= last
        BY <2>1 DEF PInv, RInv, IInv, WebSound, AnswersSound
    <3>2. web[r].at = "serve" => web[r].exercise \in 1..last
        BY <1>1, <3>1 DEF ExerciseId, TypeOK
    <3>3. QED
        BY <2>3, <3>1, <3>2 DEF HandsOut, Pending, Stored
  <2>5. QED
      BY <1>1, <2>1, <2>2, <2>4 DEF PInv
\* None is: the inventory only shrinks.
<1>3. ASSUME Pending' \subseteq Pending, \A f \in Refiller : ~ToppingUp(f),
             \/ UNCHANGED refill
             \/ UNCHANGED pool /\ \A f \in Refiller : RoomLeft(refill[f])',
             \/ \A r \in Request : HandsOut(web[r])'
             \/ UNCHANGED web /\ (UNCHANGED exercises \/ \E e : Drop({e}))
      PROVE  /\ PInv'
             /\ \A f \in Refiller : ToppingUp(f) => Cardinality(Pending') <= Target
  <2>1. ASSUME UNCHANGED refill, NEW f \in Refiller
        PROVE  RoomLeft(refill[f])'
    <3>1. RoomLeft(refill[f]) /\ refill' = refill /\ refill[f].left \in Nat
        BY <2>1 DEF PInv, RInv, IInv, TypeOK, RefillState
    <3>2. /\ Cardinality(Pending') \in Nat /\ Cardinality(Pending) \in Nat
          /\ Cardinality(Pending') <= Cardinality(Pending)
        BY <1>3, PendingLess, PendingFinite
    <3>3. QED
        BY <3>1, <3>2 DEF RoomLeft
  <2>2. ASSUME UNCHANGED web, UNCHANGED exercises \/ \E e : Drop({e}), NEW r \in Request
        PROVE  HandsOut(web[r])'
    <3>1. HandsOut(web[r]) /\ web' = web
        BY <2>2 DEF PInv
    <3>2. \A e \in ExerciseId : Stored(e)' => exercises'[e] = exercises[e]
        BY <1>1, <2>2 DEF Drop, Stored, TypeOK
    <3>3. web[r].at = "serve" => web[r].exercise \in ExerciseId
        BY DEF PInv, RInv, IInv, WebSound
    <3>4. QED
        BY <3>1, <3>2, <3>3 DEF HandsOut, Pending, Stored
  <2>3. QED
      BY <1>1, <1>3, <2>1, <2>2 DEF PInv
<1>4. UNCHANGED last => \A f \in Refiller : ~ToppingUp(f)
  <2>1. last + 1 # last
      BY <1>1 DEF TypeOK
  <2>2. QED
      BY <2>1 DEF ToppingUp, StoreCard, Store
<1>5. UNCHANGED exercises => Pending' = Pending
    BY DEF Pending, Stored
<1>6. ASSUME NEW f \in Refiller,
             \/ Refilling(f) \/ AbortRefill(f)
             \/ \E only \in OnDemand \cup {None} : StartRefill(f, only)
      PROVE  /\ PInv'
             /\ \A g \in Refiller : ToppingUp(g) => Cardinality(Pending') <= Target
  <2>1. CASE UNCHANGED <<pool, web>>
    <3>1. \A g \in Refiller : g = f
        BY <1>6
    <3>2. \A g \in Refiller : RoomLeft(refill[g])'
        BY <1>6, <2>1, <3>1, OtherRoom
    <3>3. UNCHANGED <<pool, last, exercises, web>>
        BY <2>1 DEF pool
    <3>4. QED
        BY <1>3, <1>4, <1>5, <3>2, <3>3
  <2>2. UNCHANGED <<pool, web>> \/ StorePairs(f) \/ \E type \in CardType : StoreCard(f, type)
      BY <1>6 DEF Refilling, ReadBudget, CheckPairs, CountPending, SkipCard, ReadUsage, Charge,
                  AbortRefill, StartRefill
  <2>3. QED
      BY <1>2, <2>1, <2>2
<1>7. ASSUME NEW r \in Request,
             \/ Serving(r) \/ AbortRequest(r)
             \/ \E types \in {Type} \cup {{t} : t \in OnDemand} : GetNext(r, types)
             \/ \E e \in ExerciseId : SubmitAttempt(r, e)
             \/ \E types \in (SUBSET Type) \ {{}} : SetPreferences(r, types)
      PROVE  /\ PInv'
             /\ \A f \in Refiller : ToppingUp(f) => Cardinality(Pending') <= Target
  <2>1. Pending' \subseteq Pending /\ \A q \in Request : HandsOut(web[q])'
      BY <1>7, RequestPending
  <2>2. UNCHANGED <<last, refill>>
      BY <1>7 DEF Serving, AbortRequest, GetNext, SubmitAttempt, SetPreferences, MarkServed,
                  RecordAttempt, Complete, Feed, WritePreferences, DropDisabled, pool
  <2>3. QED
      BY <1>3, <1>4, <2>1, <2>2
<1>8. ASSUME NEW e \in ExerciseId, DeleteExercise(e)
      PROVE  /\ PInv'
             /\ \A f \in Refiller : ToppingUp(f) => Cardinality(Pending') <= Target
  <2>1. Drop({e}) /\ UNCHANGED <<last, refill, web>>
      BY <1>8 DEF DeleteExercise
  <2>2. Pending' \subseteq Pending
      BY <1>1, <2>1, DropPending
  <2>3. QED
      BY <1>3, <1>4, <2>1, <2>2
<1>9. CASE UNCHANGED <<pool, refill, web>>
  <2>1. UNCHANGED <<last, exercises, refill, web>>
      BY <1>9 DEF pool
  <2>2. QED
      BY <1>3, <1>4, <1>5, <2>1
<1>10. QED
    BY <1>6, <1>7, <1>8, <1>9 DEF Next, vars

(***************************************************************************)
(* A top-up stops at EXERCISE_POOL_TARGET, whatever is answered, dropped,  *)
(* deleted or switched off while it generates, for one worker and a        *)
(* learner with one request at a time whose exercises no admin edits.      *)
(***************************************************************************)
THEOREM StopsAtTarget ==
    ASSUME \A f, g \in Refiller : f = g, \A q, r \in Request : q = r, AdminStatus = {}
    PROVE  Spec => TopUpStopsAtTarget
<1>1. Init => PInv
  <2> SUFFICES ASSUME Init PROVE PInv
      OBVIOUS
  <2>1. RInv
      BY ReviewsInit
  <2>2. \A f \in Refiller : RoomLeft(refill[f])
      BY DEF Init, NoRefill, RoomLeft
  <2>3. \A r \in Request : HandsOut(web[r])
      BY DEF Init, NoRequest, HandsOut
  <2>4. QED
      BY <2>1, <2>2, <2>3 DEF PInv
<1>2. PInv /\ [Next]_vars => PInv'
    BY PoolStep
<1>3. PInv /\ [Next]_vars =>
          [\A f \in Refiller : ToppingUp(f) => Cardinality(Pending') <= Target]_vars
    BY PoolStep
<1>4. QED
    BY <1>1, <1>2, <1>3, PTL DEF Spec, TopUpStopsAtTarget
=============================================================================
