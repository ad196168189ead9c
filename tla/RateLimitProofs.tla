---------------------------- MODULE RateLimitProofs ----------------------------
(***************************************************************************)
(* Theorems about RateLimit, for every quota, window and number of         *)
(* requests.  A request that is about to call Redis knows which key, and   *)
(* one at the login lock is about the login key: RequestSound, which the   *)
(* type invariant and the properties are proved together with.             *)
(***************************************************************************)
EXTENDS RateLimit, FiniteSetTheorems, WellFoundedInduction, TLAPS

KeyKnown(state) ==
    /\ state.at \in {"incr", "expire"} => state.quota \in Quota
    /\ state.at \in {"locked", "verify"} => state.quota = "login"

RequestSound == \A r \in Request : KeyKnown(req[r])

IInv == TypeOK /\ RequestSound /\ CounterExpires

Sound(state) == state \in RequestState /\ KeyKnown(state)

-----------------------------------------------------------------------------
(* States a request moves to *)

LEMMA IdleSound == Sound(Idle)
    BY DEF Sound, Idle, RequestState, KeyKnown

LEMMA AfterSound == ASSUME NEW q \in Quota PROVE Sound(After(q)) /\ After(q).at # "expire"
    BY DEF Sound, After, Idle, Quota, RequestState, KeyKnown

LEMMA GotoSound ==
    ASSUME TypeOK, RequestSound, NEW r \in Request, NEW state, Goto(r, state), Sound(state)
    PROVE  req' \in [Request -> RequestState] /\ RequestSound'
<1>1. \A s \in Request : req'[s] = IF s = r THEN state ELSE req[s]
    BY DEF Goto, TypeOK
<1>2. req' \in [Request -> RequestState]
    BY DEF Goto, TypeOK, Sound
<1>3. QED
    BY <1>1, <1>2 DEF RequestSound, Sound, KeyKnown

\* A request that moves on disarms no key but its own.
LEMMA ArmedKept ==
    ASSUME TypeOK, NEW r \in Request, NEW state, Goto(r, state), NEW q \in Quota, Armed(q),
           req[r].at # "expire" \/ req[r].quota # q
    PROVE  Armed(q)'
    BY DEF Armed, Goto, TypeOK

\* What INCR makes of the counters.
LEMMA IncrementedEffect ==
    ASSUME TypeOK, NEW q \in Quota, counters' = Incremented(q)
    PROVE  /\ counters' \in [Quota -> Counter \cup {None}]
           /\ counters'[q] # None
           /\ counters'[q].count = Count(q) + 1
           /\ counters'[q].expires = ExpiresAt(q)
           /\ \A p \in Quota : p # q => counters'[p] = counters[p]
<1> DEFINE new == [count |-> Count(q) + 1, expires |-> ExpiresAt(q)]
<1>1. counters[q] # None => counters[q] \in Counter
    BY DEF TypeOK
<1>2. Count(q) \in Nat /\ ExpiresAt(q) \in Nat \cup {None}
    BY <1>1 DEF Count, ExpiresAt, Counter
<1>3. new \in Counter /\ new.count = Count(q) + 1 /\ new.expires = ExpiresAt(q)
    BY <1>2 DEF Counter
<1>4. counters' = [counters EXCEPT ![q] = new]
    BY DEF Incremented
<1> HIDE DEF new
<1>5. new # None
    BY <1>3, RateLimitAssumption
<1>6. QED
    BY <1>3, <1>4, <1>5 DEF TypeOK

-----------------------------------------------------------------------------
(* Counters that keep their expiry *)

\* A step that changes no counter and no clock, and disarms no key that is not cut.
LEMMA ExpiryKept ==
    ASSUME IInv, UNCHANGED <<counters, clock>>, cut \subseteq cut',
           \A q \in Quota : Armed(q) => Armed(q)' \/ q \in cut'
    PROVE  CounterExpires'
    BY DEF IInv, CounterExpires

LEMMA BeginStep ==
    ASSUME IInv, NEW r \in Request, NEW quota \in Refusing, Begin(r, quota)
    PROVE  IInv'
<1> DEFINE state == [at |-> "incr", quota |-> quota]
<1>1. Sound(state)
    BY DEF Sound, RequestState, KeyKnown, Refusing
<1>2. Goto(r, state)
    BY DEF Begin
<1>3. req' \in [Request -> RequestState] /\ RequestSound'
    BY <1>1, <1>2, GotoSound DEF IInv
<1>4. \A q \in Quota : Armed(q) => Armed(q)'
    BY <1>2, ArmedKept DEF IInv, Begin
<1>5. CounterExpires'
    BY <1>4, ExpiryKept DEF Begin
<1>6. TypeOK'
    BY <1>3, RateLimitAssumption DEF IInv, TypeOK, Begin
<1>7. QED
    BY <1>3, <1>5, <1>6 DEF IInv

LEMMA IncrStep ==
    ASSUME IInv, NEW r \in Request, Incr(r)
    PROVE  IInv'
<1>0. PICK q \in Quota : q = req[r].quota
    BY DEF IInv, RequestSound, KeyKnown, Incr
<1> DEFINE count == Count(q) + 1
           refused == q \in Refusing /\ Over(q, count)
           state == IF Arms(count) THEN [req[r] EXCEPT !.at = "expire"]
                    ELSE IF refused THEN Idle ELSE After(q)
<1>1. q \in Quota /\ req[r].quota = q /\ req[r] \in RequestState /\ req[r].at = "incr"
    BY <1>0 DEF IInv, TypeOK, Incr
<1>2. counters' = Incremented(q) /\ Goto(r, state)
    BY <1>0 DEF Incr
<1>3. Sound(state)
    BY <1>1, IdleSound, AfterSound DEF Sound, RequestState, KeyKnown
<1>4. req' \in [Request -> RequestState] /\ RequestSound'
    BY <1>2, <1>3, GotoSound DEF IInv
<1>5. /\ counters' \in [Quota -> Counter \cup {None}]
      /\ counters'[q].expires = ExpiresAt(q)
      /\ \A p \in Quota : p # q => counters'[p] = counters[p]
    BY <1>1, <1>2, IncrementedEffect DEF IInv
<1>6. passed' \in [Refusing -> Seq(0..MaxClock)]
    BY <1>0 DEF Incr, IInv, TypeOK
<1>7. TypeOK'
    BY <1>4, <1>5, <1>6 DEF IInv, TypeOK, Incr
<1>8. \A p \in Quota : Armed(p) => Armed(p)'
    BY <1>1, <1>2, ArmedKept DEF IInv
<1>9. counters[q] = None => Armed(q)'
  <2> SUFFICES ASSUME counters[q] = None PROVE Armed(q)'
      OBVIOUS
  <2>1. Arms(count)
      BY DEF Count, Arms
  <2>2. req'[r] = [req[r] EXCEPT !.at = "expire"]
      BY <1>2, <2>1 DEF Goto, IInv, TypeOK
  <2>3. req'[r].at = "expire" /\ req'[r].quota = q
      BY <1>1, <2>2 DEF RequestState
  <2>4. QED
      BY <2>3 DEF Armed
<1>10. CounterExpires'
  <2> SUFFICES ASSUME NEW p \in Quota, counters'[p] # None
               PROVE  IF counters'[p].expires = None THEN Armed(p)' \/ p \in cut'
                      ELSE counters'[p].expires \in (clock' + 1)..(clock' + Window[p])
      BY DEF CounterExpires
  <2>1. CASE p # q
      BY <2>1, <1>5, <1>8 DEF IInv, CounterExpires, Incr
  <2>2. CASE p = q /\ counters[q] = None
      BY <2>2, <1>5, <1>9 DEF ExpiresAt
  <2>3. CASE p = q /\ counters[q] # None
    <3>1. counters'[p].expires = counters[p].expires /\ UNCHANGED <<clock, cut>>
        BY <2>3, <1>5 DEF ExpiresAt, Incr
    <3>2. QED
        BY <2>3, <3>1, <1>8 DEF IInv, CounterExpires
  <2>4. QED
      BY <2>1, <2>2, <2>3
<1>11. QED
    BY <1>4, <1>7, <1>10 DEF IInv

LEMMA ExpireStep ==
    ASSUME IInv, NEW r \in Request, Expire(r)
    PROVE  IInv'
<1>0. PICK q \in Quota : q = req[r].quota
    BY DEF IInv, RequestSound, KeyKnown, Expire
<1>1. req[r].quota = q /\ req[r].at = "expire"
    BY <1>0 DEF Expire
<1>2. Goto(r, After(q))
    BY <1>0 DEF Expire
<1>3. req' \in [Request -> RequestState] /\ RequestSound'
    BY <1>1, <1>2, AfterSound, GotoSound DEF IInv
<1>4. clock \in Nat /\ Window[q] \in Nat \ {0}
    BY <1>1, RateLimitAssumption DEF IInv, TypeOK
<1>5. counters' \in [Quota -> Counter \cup {None}]
  <2>1. CASE counters[q] = None
      BY <1>0, <2>1 DEF IInv, TypeOK, Expire
  <2>2. CASE counters[q] # None
    <3>1. [counters[q] EXCEPT !.expires = clock + Window[q]] \in Counter
        BY <2>2, <1>1, <1>4 DEF IInv, TypeOK, Counter
    <3>2. counters' = [counters EXCEPT ![q] = [counters[q] EXCEPT !.expires = clock + Window[q]]]
        BY <1>0, <2>2 DEF Expire
    <3>3. QED
        BY <3>1, <3>2 DEF IInv, TypeOK
  <2>3. QED
      BY <2>1, <2>2
<1>6. /\ \A p \in Quota : p # q => counters'[p] = counters[p]
      /\ counters[q] = None => counters'[q] = None
      /\ counters[q] # None => counters'[q].expires = clock + Window[q]
    BY <1>0 DEF IInv, TypeOK, Expire, Counter
<1>7. \A p \in Quota : p # q /\ Armed(p) => Armed(p)'
    BY <1>1, <1>2, ArmedKept DEF IInv
<1>8. CounterExpires'
  <2> SUFFICES ASSUME NEW p \in Quota, counters'[p] # None
               PROVE  IF counters'[p].expires = None THEN Armed(p)' \/ p \in cut'
                      ELSE counters'[p].expires \in (clock' + 1)..(clock' + Window[p])
      BY DEF CounterExpires
  <2>1. CASE p # q
      BY <2>1, <1>6, <1>7 DEF IInv, CounterExpires, Expire
  <2>2. CASE p = q
    <3>1. counters'[p].expires = clock + Window[p] /\ clock' = clock
        BY <2>2, <1>6 DEF Expire
    <3>2. clock + Window[p] # None
        BY <2>2, <1>4, RateLimitAssumption
    <3>3. QED
        BY <3>1, <3>2, <2>2, <1>4
  <2>3. QED
      BY <2>1, <2>2
<1>9. TypeOK'
    BY <1>3, <1>5 DEF IInv, TypeOK, Expire
<1>10. QED
    BY <1>3, <1>8, <1>9 DEF IInv

LEMMA RedisFailsStep ==
    ASSUME IInv, NEW r \in Request, RedisFails(r)
    PROVE  IInv'
<1>0. PICK q \in Quota : q = req[r].quota
    BY DEF IInv, RequestSound, KeyKnown, RedisFails
<1>1. req[r].quota = q /\ req[r].at \in {"incr", "expire"}
    BY <1>0 DEF RedisFails
<1>2. /\ Goto(r, After(q))
      /\ blind' = blind \cup {q}
      /\ cut' = IF req[r].at = "expire" \/ (counters[q] = None /\ counters'[q] # None)
                THEN cut \cup {q} ELSE cut
      /\ UNCHANGED <<clock, started, passed>>
    BY <1>0 DEF RedisFails
<1>3. req' \in [Request -> RequestState] /\ RequestSound'
    BY <1>1, <1>2, AfterSound, GotoSound DEF IInv
<1>4. counters' = counters \/ (req[r].at = "incr" /\ counters' = Incremented(q))
    BY <1>0 DEF RedisFails
<1>5. /\ counters' \in [Quota -> Counter \cup {None}]
      /\ counters'[q] # None => counters'[q].expires = ExpiresAt(q)
      /\ \A p \in Quota : p # q => counters'[p] = counters[p]
    BY <1>4, IncrementedEffect DEF IInv, TypeOK, ExpiresAt
<1>6. cut \subseteq cut' /\ cut' \subseteq blind'
    BY <1>2 DEF IInv, TypeOK
<1>7. TypeOK'
    BY <1>2, <1>3, <1>5, <1>6 DEF IInv, TypeOK
<1>8. \A p \in Quota : Armed(p) => Armed(p)' \/ p \in cut'
  <2> SUFFICES ASSUME NEW p \in Quota, Armed(p), ~(req[r].at # "expire" \/ req[r].quota # p)
               PROVE  p \in cut'
      BY <1>2, ArmedKept DEF IInv
  <2>1. QED
      BY <1>1, <1>2
<1>9. CounterExpires'
  <2> SUFFICES ASSUME NEW p \in Quota, counters'[p] # None
               PROVE  IF counters'[p].expires = None THEN Armed(p)' \/ p \in cut'
                      ELSE counters'[p].expires \in (clock' + 1)..(clock' + Window[p])
      BY DEF CounterExpires
  <2>1. CASE counters[p] # None
    <3>1. counters'[p].expires = counters[p].expires /\ clock' = clock
        BY <2>1, <1>2, <1>5 DEF ExpiresAt
    <3>2. QED
        BY <2>1, <3>1, <1>6, <1>8 DEF IInv, CounterExpires
  <2>2. CASE counters[p] = None
    <3>1. p = q
        BY <2>2, <1>5
    <3>2. counters'[p].expires = None /\ p \in cut'
        BY <2>2, <3>1, <1>2, <1>5 DEF ExpiresAt
    <3>3. QED
        BY <3>2
  <2>3. QED
      BY <2>1, <2>2
<1>10. QED
    BY <1>3, <1>7, <1>9 DEF IInv

\* The steps that only move a request that is not about to call EXPIRE.
LEMMA MoveStep ==
    ASSUME IInv, NEW r \in Request, NEW state, Sound(state), Goto(r, state),
           req[r].at # "expire", blind \subseteq blind', blind' \subseteq Quota,
           UNCHANGED <<counters, clock, started, passed, cut>>
    PROVE  IInv'
<1>1. req' \in [Request -> RequestState] /\ RequestSound'
    BY GotoSound DEF IInv
<1>2. \A q \in Quota : Armed(q) => Armed(q)'
    BY ArmedKept DEF IInv
<1>3. CounterExpires'
    BY <1>2, ExpiryKept
<1>4. TypeOK'
    BY <1>1 DEF IInv, TypeOK
<1>5. QED
    BY <1>1, <1>3, <1>4 DEF IInv

LEMMA LoginStep ==
    ASSUME IInv, NEW r \in Request, CheckLock(r) \/ LockUnreadable(r) \/ Verify(r) \/ Finish(r)
    PROVE  IInv'
<1>1. req[r] \in RequestState /\ KeyKnown(req[r])
    BY DEF IInv, TypeOK, RequestSound
<1> DEFINE verifying == [req[r] EXCEPT !.at = "verify"]
           failing == [req[r] EXCEPT !.at = "incr"]
<1>2. req[r].at = "locked" => Sound(verifying)
    BY <1>1 DEF Sound, RequestState, KeyKnown
<1>3. req[r].at = "verify" => Sound(failing)
    BY <1>1 DEF Sound, RequestState, KeyKnown, Quota
<1>4. blind \subseteq Quota
    BY DEF IInv, TypeOK
<1> HIDE DEF verifying, failing
<1>5. CASE CheckLock(r)
    BY <1>2, <1>4, <1>5, IdleSound, MoveStep DEF CheckLock, verifying
<1>6. CASE LockUnreadable(r)
    BY <1>2, <1>4, <1>6, MoveStep DEF LockUnreadable, verifying, Quota
<1>7. CASE Verify(r)
    BY <1>3, <1>4, <1>7, IdleSound, MoveStep DEF Verify, failing
<1>8. CASE Finish(r)
    BY <1>4, <1>8, IdleSound, MoveStep DEF Finish
<1>9. QED
    BY <1>5, <1>6, <1>7, <1>8

LEMMA AbortStep ==
    ASSUME IInv, NEW r \in Request, Abort(r)
    PROVE  IInv'
<1>1. CASE req[r].at # "expire"
    BY <1>1, IdleSound, MoveStep DEF IInv, TypeOK, Abort
<1>2. CASE req[r].at = "expire"
  <2>0. PICK q \in Quota : q = req[r].quota
      BY <1>2 DEF IInv, RequestSound, KeyKnown
  <2>1. blind' = blind \cup {q} /\ cut' = cut \cup {q} /\ Goto(r, Idle)
      BY <1>2, <2>0 DEF Abort
  <2>2. req' \in [Request -> RequestState] /\ RequestSound'
      BY <2>1, IdleSound, GotoSound DEF IInv
  <2>3. \A p \in Quota : Armed(p) => Armed(p)' \/ p \in cut'
      BY <2>0, <2>1, ArmedKept DEF IInv
  <2>4. CounterExpires'
      BY <2>1, <2>3, ExpiryKept DEF Abort
  <2>5. TypeOK'
      BY <2>1, <2>2 DEF IInv, TypeOK, Abort
  <2>6. QED
      BY <2>2, <2>4, <2>5 DEF IInv
<1>3. QED
    BY <1>1, <1>2

\* Redis drops a key on the tick it expires: what is left expires later.
LEMMA TickStep ==
    ASSUME IInv, Tick
    PROVE  IInv'
<1>1. clock \in Nat /\ clock' = clock + 1 /\ clock' \in 0..MaxClock
    BY RateLimitAssumption DEF IInv, TypeOK, Tick
<1>2. \A q \in Quota : counters'[q] = IF counters[q] # None /\ counters[q].expires = clock'
                                      THEN None ELSE counters[q]
    BY DEF Tick
<1>3. counters' \in [Quota -> Counter \cup {None}]
    BY <1>2 DEF IInv, TypeOK, Tick
<1>4. TypeOK' /\ RequestSound'
    BY <1>1, <1>3 DEF IInv, TypeOK, RequestSound, Tick
<1>5. CounterExpires'
  <2> SUFFICES ASSUME NEW q \in Quota, counters'[q] # None
               PROVE  IF counters'[q].expires = None THEN Armed(q)' \/ q \in cut'
                      ELSE counters'[q].expires \in (clock' + 1)..(clock' + Window[q])
      BY DEF CounterExpires
  <2>1. counters'[q] = counters[q] /\ counters[q] # None /\ counters[q].expires # clock'
      BY <1>2
  <2>2. (Armed(q) <=> Armed(q)') /\ cut' = cut
      BY DEF Armed, Tick
  <2>3. Window[q] \in Nat
      BY RateLimitAssumption
  <2>4. QED
      BY <1>1, <2>1, <2>2, <2>3 DEF IInv, CounterExpires
<1>6. QED
    BY <1>4, <1>5 DEF IInv

-----------------------------------------------------------------------------
(* Theorems *)

LEMMA IInvHolds == Spec => []IInv
<1>1. Init => IInv
    BY RateLimitAssumption
       DEF Init, IInv, TypeOK, RequestSound, CounterExpires, Idle, RequestState, KeyKnown, Quota, Refusing
<1>2. IInv /\ [Next]_vars => IInv'
  <2> SUFFICES ASSUME IInv, [Next]_vars PROVE IInv'
      OBVIOUS
  <2>1. CASE Next
      BY <2>1, BeginStep, IncrStep, ExpireStep, RedisFailsStep, LoginStep, AbortStep, TickStep DEF Next
  <2>2. CASE UNCHANGED vars
      BY <2>2 DEF vars, IInv, TypeOK, RequestSound, CounterExpires, Armed
  <2>3. QED
      BY <2>1, <2>2
<1>3. QED
    BY <1>1, <1>2, PTL DEF Spec

(***************************************************************************)
(* The state keeps its type: in particular a quota is only ever cut off    *)
(* from its expiry when a Redis call on it failed or the process died.     *)
(***************************************************************************)
THEOREM TypeCorrect == Spec => []TypeOK
    BY IInvHolds, PTL DEF IInv

(***************************************************************************)
(* However requests overlap, fail and die, a counter ends within one       *)
(* window, or a request is about to give it its end, or its quota was cut  *)
(* off from it.                                                            *)
(***************************************************************************)
THEOREM CountersExpire == Spec => []CounterExpires
    BY IInvHolds, PTL DEF IInv

-----------------------------------------------------------------------------
(* The lock on an account's logins *)

IsGuess(state) == state.at = "verify" \/ (state.at = "incr" /\ state.quota = "login")

LEMMA GuessingFinite ==
    /\ IsFiniteSet(Guessing) /\ Cardinality(Guessing) \in Nat
    /\ Cardinality(Guessing) <= Cardinality(Request) /\ Cardinality(Request) \in Nat
<1>1. Guessing \subseteq Request
    BY DEF Guessing
<1>2. QED
    BY <1>1, RateLimitAssumption, FS_Subset, FS_CardinalityType

LEMMA GuessesAfter ==
    ASSUME TypeOK, NEW r \in Request, NEW state, Goto(r, state)
    PROVE  /\ IsGuess(state) => Guessing' = Guessing \cup {r}
           /\ ~IsGuess(state) => Guessing' = Guessing \ {r}
<1>1. \A s \in Request : req'[s] = IF s = r THEN state ELSE req[s]
    BY DEF Goto, TypeOK
<1>2. QED
    BY <1>1 DEF Guessing, IsGuess

LEMMA NotGuessing ==
    ~IsGuess(Idle) /\ \A q \in Quota : ~IsGuess(After(q))
    BY DEF IsGuess, Idle, After, Quota

LEMMA FailuresType == ASSUME TypeOK, NEW q \in Quota PROVE Count(q) \in Nat
    BY DEF TypeOK, Count, Counter

\* A step that lets no request past the lock and counts no failure.
LEMMA LockKept ==
    ASSUME IInv, LockHolds, IInv', Guessing' \subseteq Guessing, blind \subseteq blind',
           Count("login")' <= Count("login")
    PROVE  LockHolds'
<1>1. IsFiniteSet(Guessing) /\ Cardinality(Guessing) \in Nat /\ Cardinality(Request) \in Nat
    BY GuessingFinite
<1>2. Cardinality(Guessing') <= Cardinality(Guessing) /\ Cardinality(Guessing') \in Nat
    BY <1>1, FS_Subset, FS_CardinalityType
<1>3. Count("login") \in Nat /\ Count("login")' \in Nat /\ Limit["login"] \in Nat
    BY FailuresType, RateLimitAssumption DEF IInv, TypeOK, Count, Counter, Quota
<1>4. QED
    BY <1>1, <1>2, <1>3 DEF LockHolds

LEMMA LockStep ==
    ASSUME IInv, LockHolds, IInv', Next
    PROVE  LockHolds'
<1> USE DEF IInv
<1>1. CASE Tick
  <2>1. Guessing' = Guessing
      BY <1>1 DEF Guessing, Tick
  <2>2. Count("login")' \in {0, Count("login")} /\ Count("login") \in Nat
      BY <1>1, FailuresType DEF Tick, Count, Quota
  <2>3. QED
      BY <1>1, <2>1, <2>2, LockKept DEF Tick
<1>2. ASSUME NEW r \in Request, NEW quota \in Refusing, Begin(r, quota)
      PROVE  LockHolds'
  <2>1. ~IsGuess([at |-> "incr", quota |-> quota])
      BY DEF IsGuess, Refusing
  <2>2. Guessing' = Guessing \ {r} /\ UNCHANGED <<counters, blind>>
      BY <1>2, <2>1, GuessesAfter DEF Begin
  <2>3. Count("login")' = Count("login") /\ Count("login") \in Nat
      BY <2>2, FailuresType DEF Count, Quota
  <2>4. QED
      BY <2>2, <2>3, LockKept
<1>3. ASSUME NEW r \in Request, Incr(r)
      PROVE  LockHolds'
  <2>0. PICK q \in Quota : q = req[r].quota
      BY <1>3 DEF RequestSound, KeyKnown, Incr
  <2>1. /\ req[r].at = "incr" /\ counters' = Incremented(q) /\ UNCHANGED blind
        /\ \E state : Goto(r, state) /\ (state \in {Idle, After(q)} \/ state.at = "expire")
    <3>1. [req[r] EXCEPT !.at = "expire"].at = "expire"
        BY DEF TypeOK, RequestState
    <3>2. QED
        BY <1>3, <2>0, <3>1 DEF Incr
  <2>2. Guessing' = Guessing \ {r}
      BY <2>1, NotGuessing, GuessesAfter DEF IsGuess
  <2>3. CASE q # "login"
    <3>1. Count("login")' = Count("login") /\ Count("login") \in Nat
        BY <2>1, <2>3, IncrementedEffect, FailuresType DEF Count, Quota
    <3>2. QED
        BY <2>1, <2>2, <3>1, LockKept
  <2>4. CASE q = "login"
    <3>1. Count("login")' = Count("login") + 1 /\ Count("login") \in Nat
        BY <2>1, <2>4, IncrementedEffect, FailuresType DEF Count, Quota
    <3>2. r \in Guessing
        BY <2>0, <2>1, <2>4 DEF Guessing
    <3>3. Cardinality(Guessing') = Cardinality(Guessing) - 1
        BY <2>2, <3>2, GuessingFinite, FS_RemoveElement
    <3>4. QED
        BY <2>1, <3>1, <3>3, GuessingFinite, RateLimitAssumption DEF LockHolds, Quota
  <2>5. QED
      BY <2>3, <2>4
<1>4. ASSUME NEW r \in Request, Expire(r)
      PROVE  LockHolds'
  <2>0. PICK q \in Quota : q = req[r].quota
      BY <1>4 DEF RequestSound, KeyKnown, Expire
  <2>1. Guessing' = Guessing \ {r} /\ UNCHANGED blind
      BY <1>4, <2>0, NotGuessing, GuessesAfter DEF Expire
  <2>2. Count("login")' = Count("login") /\ Count("login") \in Nat
    <3>1. counters[q] # None => counters[q] \in Counter
        BY DEF TypeOK
    <3>2. counters'["login"] = counters["login"]
          \/ (counters["login"] # None /\ counters["login"] \in Counter
              /\ counters'["login"] = [counters["login"] EXCEPT !.expires = clock + Window[q]])
        BY <1>4, <2>0, <3>1 DEF Expire, TypeOK, Quota
    <3>3. counters'["login"] # None => counters'["login"] \in Counter
        BY DEF TypeOK, Quota
    <3>4. counters["login"] # None => counters'["login"] # None
      <4>1. clock + Window[q] \in Nat
          BY <2>0, RateLimitAssumption DEF TypeOK
      <4>2. \A c \in Counter : [c EXCEPT !.expires = clock + Window[q]] \in Counter
          BY <4>1 DEF Counter
      <4>3. \A c \in Counter : c # None
          BY RateLimitAssumption
      <4>4. QED
          BY <3>2, <4>2, <4>3
    <3>5. QED
        BY <3>2, <3>4, FailuresType DEF Count, Quota, Counter
  <2>3. QED
      BY <2>1, <2>2, LockKept
<1>5. ASSUME NEW r \in Request, RedisFails(r)
      PROVE  LockHolds'
  <2>0. PICK q \in Quota : q = req[r].quota
      BY <1>5 DEF RequestSound, KeyKnown, RedisFails
  <2>1. /\ Guessing' = Guessing \ {r} /\ blind' = blind \cup {q}
        /\ counters' = counters \/ counters' = Incremented(q)
      BY <1>5, <2>0, NotGuessing, GuessesAfter DEF RedisFails
  <2>2. CASE q # "login"
    <3>1. Count("login")' = Count("login") /\ Count("login") \in Nat
        BY <2>1, <2>2, IncrementedEffect, FailuresType DEF Count, Quota
    <3>2. QED
        BY <2>1, <3>1, LockKept
  <2>3. CASE q = "login"
      BY <2>1, <2>3 DEF LockHolds
  <2>4. QED
      BY <2>2, <2>3
<1>6. ASSUME NEW r \in Request, CheckLock(r)
      PROVE  LockHolds'
  <2>1. UNCHANGED <<counters, blind>>
      BY <1>6 DEF CheckLock
  <2>2. Count("login")' = Count("login") /\ Count("login") \in Nat
      BY <2>1, FailuresType DEF Count, Quota
  <2>3. CASE login_locked
    <3>1. Guessing' = Guessing \ {r}
        BY <1>6, <2>3, NotGuessing, GuessesAfter DEF CheckLock
    <3>2. QED
        BY <2>1, <2>2, <3>1, LockKept
  <2>4. CASE ~login_locked
    <3>1. Guessing' \subseteq Request
        BY DEF Guessing
    <3>2. Cardinality(Guessing') \in Nat /\ Cardinality(Guessing') <= Cardinality(Request)
        BY <3>1, RateLimitAssumption, FS_Subset, FS_CardinalityType
    <3>3. Count("login") <= Limit["login"] - 1
        BY <2>2, <2>4, RateLimitAssumption DEF login_locked, Quota
    <3>4. QED
        BY <2>2, <3>2, <3>3, GuessingFinite, RateLimitAssumption DEF LockHolds, Quota
  <2>5. QED
      BY <2>3, <2>4
<1>7. ASSUME NEW r \in Request, LockUnreadable(r)
      PROVE  LockHolds'
    BY <1>7 DEF LockUnreadable, LockHolds
<1>8. ASSUME NEW r \in Request, Verify(r) \/ Finish(r) \/ Abort(r)
      PROVE  LockHolds'
  <2>1. UNCHANGED counters /\ blind \subseteq blind'
      BY <1>8 DEF Verify, Finish, Abort
  <2>2. Guessing' \subseteq Guessing
    <3>1. CASE Goto(r, Idle)
        BY <3>1, NotGuessing, GuessesAfter
    <3>2. CASE Verify(r) /\ Goto(r, [req[r] EXCEPT !.at = "incr"])
      <4>1. r \in Guessing
          BY <3>2 DEF Verify, Guessing
      <4>2. QED
          BY <3>2, <4>1, GuessesAfter
    <3>3. QED
        BY <1>8, <3>1, <3>2 DEF Verify, Finish, Abort
  <2>3. Count("login")' = Count("login") /\ Count("login") \in Nat
      BY <2>1, FailuresType DEF Count, Quota
  <2>4. QED
      BY <2>1, <2>2, <2>3, LockKept
<1>9. QED
    BY <1>1, <1>2, <1>3, <1>4, <1>5, <1>6, <1>7, <1>8 DEF Next

(***************************************************************************)
(* Failures counted and guesses still under way never exceed the limit by  *)
(* more than the requests running beside the one that reaches it, for any  *)
(* limit and any number of requests.                                       *)
(***************************************************************************)
THEOREM LockHoldsAlways == Spec => []LockHolds
<1>1. Init => LockHolds
  <2> SUFFICES ASSUME Init PROVE LockHolds
      OBVIOUS
  <2>1. Guessing = {}
      BY DEF Init, Guessing, Idle
  <2>2. Cardinality(Guessing) = 0
      BY <2>1, FS_EmptySet
  <2>3. Count("login") = 0
      BY DEF Init, Count, Quota
  <2>4. QED
      BY <2>2, <2>3, GuessingFinite, RateLimitAssumption DEF LockHolds, Quota
<1>2. IInv /\ IInv' /\ LockHolds /\ [Next]_vars => LockHolds'
  <2>1. (IInv /\ IInv' /\ LockHolds /\ Next) => LockHolds'
      BY LockStep
  <2>2. LockHolds /\ UNCHANGED vars => LockHolds'
      BY DEF vars, LockHolds, Count, Guessing
  <2>3. QED
      BY <2>1, <2>2
<1>3. QED
    BY <1>1, <1>2, IInvHolds, PTL DEF Spec

-----------------------------------------------------------------------------
(* Two windows at a boundary *)

\* The requests the counter of q has let through since it was created.
Now(q) == IF Count(q) < Limit[q] THEN Count(q) ELSE Limit[q]

(***************************************************************************)
(* Let through by the counter before the one there is: long enough before  *)
(* its end.  By one before that: a window ago by now.  So two requests     *)
(* with twice the limit between them are at least a window apart.          *)
(***************************************************************************)
SpacedBy(p, limit, window, now, expires, time) ==
    /\ \A i \in 1..Len(p) : p[i] <= time
    /\ \A i, j \in 1..Len(p) : j >= i + 2 * limit => p[j] >= p[i] + window
    /\ expires # None => \A i \in 1..Len(p) : i <= Len(p) - now => p[i] + window <= expires
    /\ \A i \in 1..Len(p) : i <= Len(p) - now - limit => p[i] + window <= time

Spaced(q) == SpacedBy(passed[q], Limit[q], Window[q], Now(q), ExpiresAt(q), clock)

AllSpaced == \A q \in Refusing : Spaced(q)

LEMMA QuotaTyped ==
    ASSUME TypeOK, NEW q \in Refusing
    PROVE  /\ q \in Quota /\ Limit[q] \in Nat \ {0} /\ Window[q] \in Nat \ {0}
           /\ Count(q) \in Nat /\ Now(q) \in 0..Limit[q]
           /\ ExpiresAt(q) \in Nat \cup {None} /\ clock \in 0..MaxClock /\ clock \in Nat
           /\ passed[q] \in Seq(Nat)
<1>1. q \in Quota /\ Limit[q] \in Nat \ {0} /\ Window[q] \in Nat \ {0}
    BY RateLimitAssumption DEF Refusing
<1>2. Count(q) \in Nat /\ ExpiresAt(q) \in Nat \cup {None}
    BY <1>1, FailuresType DEF TypeOK, ExpiresAt, Counter
<1>3. Now(q) \in 0..Limit[q] /\ clock \in 0..MaxClock /\ clock \in Nat
    BY <1>1, <1>2, RateLimitAssumption DEF Now, TypeOK
<1>4. passed[q] \in Seq(Nat)
  <2>1. PICK T : T = 0..MaxClock
      OBVIOUS
  <2>2. T \subseteq Nat
      BY <2>1, RateLimitAssumption
  <2>3. PICK p \in Seq(T) : p = passed[q]
      BY <2>1 DEF TypeOK
  <2>4. p \in Seq(Nat)
    <3>1. Len(p) \in Nat /\ p \in [1..Len(p) -> T]
        BY <2>3
    <3>2. p \in [1..Len(p) -> Nat]
        BY <2>2, <3>1
    <3>3. QED
        BY <3>1, <3>2
  <2>5. QED
      BY <2>3, <2>4
<1>5. QED
    BY <1>1, <1>2, <1>3, <1>4

\* Nothing let through: the counter may count on, be given its end or not be read.
LEMMA StaysSpaced ==
    ASSUME NEW p \in Seq(Nat), NEW limit \in Nat, NEW window \in Nat, NEW time \in Nat,
           NEW now \in Nat, NEW expires \in Nat \cup {None}, None \notin Nat,
           SpacedBy(p, limit, window, now, expires, time),
           NEW later \in Nat, later >= time, NEW more \in Nat, more >= now,
           NEW end \in Nat \cup {None}, end \in {None, expires, time + window}
    PROVE  SpacedBy(p, limit, window, more, end, later)
<1>1. Len(p) \in Nat /\ \A i \in 1..Len(p) : p[i] \in Nat
    OBVIOUS
<1>2. ASSUME NEW i \in 1..Len(p)
      PROVE  p[i] <= later /\ (i <= Len(p) - more - limit => p[i] + window <= later)
  <2>1. p[i] \in Nat /\ p[i] <= time /\ (i <= Len(p) - now - limit => p[i] + window <= time)
      BY <1>1, <1>2 DEF SpacedBy
  <2>2. i <= Len(p) - more - limit => i <= Len(p) - now - limit
      BY <1>1
  <2>3. QED
      BY <2>1, <2>2
<1>3. ASSUME NEW i \in 1..Len(p), end # None, i <= Len(p) - more
      PROVE  p[i] + window <= end
  <2>1. CASE end = expires
    <3>1. i <= Len(p) - now
        BY <1>1, <1>3
    <3>2. QED
        BY <1>3, <2>1, <3>1 DEF SpacedBy
  <2>2. CASE end = time + window
    <3>1. p[i] <= time
        BY <1>3 DEF SpacedBy
    <3>2. QED
        BY <1>1, <1>3, <2>2, <3>1
  <2>3. QED
      BY <1>3, <2>1, <2>2
<1>4. \A i, j \in 1..Len(p) : j >= i + 2 * limit => p[j] >= p[i] + window
    BY DEF SpacedBy
<1>5. QED
    BY <1>2, <1>3, <1>4 DEF SpacedBy

\* The counter has gone: it let through no more than its limit.
LEMMA DroppedSpaced ==
    ASSUME NEW p \in Seq(Nat), NEW limit \in Nat, NEW window \in Nat, NEW time \in Nat,
           NEW now \in 0..limit, NEW expires \in Nat, None \notin Nat,
           SpacedBy(p, limit, window, now, expires, time), expires >= time
    PROVE  SpacedBy(p, limit, window, 0, None, expires)
<1>1. Len(p) \in Nat /\ \A i \in 1..Len(p) : p[i] \in Nat
    OBVIOUS
<1>2. QED
    BY <1>1 DEF SpacedBy

LEMMA PassedSpaced ==
    ASSUME NEW p \in Seq(Nat), NEW limit \in Nat, NEW window \in Nat, NEW time \in Nat,
           NEW now \in 0 .. limit - 1, NEW expires \in Nat \cup {None}, None \notin Nat,
           SpacedBy(p, limit, window, now, expires, time)
    PROVE  SpacedBy(Append(p, time), limit, window, now + 1, expires, time)
<1>1. Len(p) \in Nat /\ \A i \in 1..Len(p) : p[i] \in Nat
    OBVIOUS
<1>2. PICK s : s = Append(p, time)
    OBVIOUS
<1>3. /\ Len(s) = Len(p) + 1 /\ s[Len(p) + 1] = time
      /\ \A i \in 1..Len(p) : s[i] = p[i]
    BY <1>2
<1>4. ASSUME NEW i \in 1..Len(s), NEW j \in 1..Len(s), j >= i + 2 * limit
      PROVE  s[j] >= s[i] + window
  <2>1. CASE j \in 1..Len(p)
      BY <1>1, <1>3, <1>4, <2>1 DEF SpacedBy
  <2>2. CASE j = Len(p) + 1
    <3>1. i <= Len(p) - now - limit /\ i \in 1..Len(p)
        BY <1>1, <1>3, <1>4, <2>2
    <3>2. QED
        BY <1>1, <1>3, <2>2, <3>1 DEF SpacedBy
  <2>3. QED
      BY <1>1, <1>3, <2>1, <2>2
<1>5. ASSUME NEW i \in 1..Len(s)
      PROVE  /\ s[i] <= time
             /\ expires # None /\ i <= Len(s) - (now + 1) => s[i] + window <= expires
             /\ i <= Len(s) - (now + 1) - limit => s[i] + window <= time
  <2>1. CASE i \in 1..Len(p)
      BY <1>1, <1>3, <2>1 DEF SpacedBy
  <2>2. CASE i = Len(p) + 1
      BY <1>1, <1>3, <2>2
  <2>3. QED
      BY <1>1, <1>3, <2>1, <2>2
<1>6. SpacedBy(s, limit, window, now + 1, expires, time)
    BY <1>4, <1>5 DEF SpacedBy
<1>7. QED
    BY <1>2, <1>6

\* A step that lets no request of q through.
LEMMA QuietSpaced ==
    ASSUME TypeOK, TypeOK', NEW q \in Refusing, Spaced(q), passed'[q] = passed[q], clock' = clock,
           Count(q)' >= Count(q), ExpiresAt(q)' \in {ExpiresAt(q), clock + Window[q]}
    PROVE  Spaced(q)'
<1>1. PICK p, limit, window, now, expires, time :
          /\ p = passed[q] /\ limit = Limit[q] /\ window = Window[q]
          /\ now = Now(q) /\ expires = ExpiresAt(q) /\ time = clock
    OBVIOUS
<1>2. /\ p \in Seq(Nat) /\ limit \in Nat /\ window \in Nat /\ now \in Nat
      /\ expires \in Nat \cup {None} /\ time \in Nat /\ Count(q) \in Nat
    BY <1>1, QuotaTyped
<1>3. PICK more, end : more = Now(q)' /\ end = ExpiresAt(q)'
    OBVIOUS
<1>4. Count(q)' \in Nat /\ end \in Nat \cup {None}
  <2>1. q \in Quota
      BY QuotaTyped
  <2>2. Count(q)' \in Nat
      BY <2>1, RateLimitAssumption DEF TypeOK, Count, Counter
  <2>3. QED
      BY <1>1, <1>2, <1>3, <2>2
<1>5. more \in Nat /\ more >= now
    BY <1>1, <1>2, <1>3, <1>4 DEF Now
<1>6. SpacedBy(p, limit, window, now, expires, time)
    BY <1>1 DEF Spaced
<1>7. end \in {None, expires, time + window} /\ None \notin Nat /\ time >= time
    BY <1>1, <1>2, <1>3, RateLimitAssumption
<1>8. SpacedBy(p, limit, window, more, end, time)
    BY <1>2, <1>4, <1>5, <1>6, <1>7, StaysSpaced
<1>9. QED
    BY <1>1, <1>3, <1>8 DEF Spaced

LEMMA TickSpaced ==
    ASSUME IInv, IInv', Tick, NEW q \in Refusing, Spaced(q)
    PROVE  Spaced(q)'
<1>1. PICK p, limit, window, now, time :
          /\ p = passed[q] /\ limit = Limit[q] /\ window = Window[q]
          /\ now = Now(q) /\ time = clock
    OBVIOUS
<1>2. /\ p \in Seq(Nat) /\ limit \in Nat /\ window \in Nat /\ now \in 0..limit
      /\ time \in Nat /\ q \in Quota /\ ExpiresAt(q) \in Nat \cup {None} /\ limit > 0
    BY <1>1, QuotaTyped DEF IInv
<1>3. SpacedBy(p, limit, window, now, ExpiresAt(q), time)
    BY <1>1 DEF Spaced
<1>4. /\ clock' = time + 1 /\ passed' = passed
      /\ counters'[q] = IF counters[q] # None /\ counters[q].expires = clock' THEN None ELSE counters[q]
    BY <1>1, <1>2 DEF Tick
<1>5. CASE counters[q] # None /\ counters[q].expires = clock'
  <2>1. ExpiresAt(q) = time + 1 /\ Count(q)' = 0 /\ ExpiresAt(q)' = None
      BY <1>4, <1>5 DEF ExpiresAt, Count
  <2>2. Now(q)' = 0
      BY <1>1, <1>2, <2>1 DEF Now
  <2>3. SpacedBy(p, limit, window, 0, None, time + 1)
      BY <1>2, <1>3, <2>1, DroppedSpaced, RateLimitAssumption
  <2>4. QED
      BY <1>1, <1>4, <2>1, <2>2, <2>3 DEF Spaced
<1>6. CASE ~(counters[q] # None /\ counters[q].expires = clock')
  <2>1. Count(q)' = Count(q) /\ ExpiresAt(q)' = ExpiresAt(q)
      BY <1>4, <1>6 DEF ExpiresAt, Count
  <2>2. Now(q)' = now
      BY <1>1, <2>1 DEF Now
  <2>3. SpacedBy(p, limit, window, now, ExpiresAt(q), time + 1)
    <3>1. PICK end : end = ExpiresAt(q)
        OBVIOUS
    <3>2. /\ end \in Nat \cup {None} /\ end \in {None, end, time + window} /\ None \notin Nat
          /\ now \in Nat /\ now >= now /\ time + 1 \in Nat /\ time + 1 >= time
        BY <1>2, <3>1, RateLimitAssumption
    <3>3. SpacedBy(p, limit, window, now, end, time)
        BY <1>3, <3>1
    <3>4. SpacedBy(p, limit, window, now, end, time + 1)
        BY <1>2, <3>2, <3>3, StaysSpaced
    <3>5. QED
        BY <3>1, <3>4
  <2>4. QED
      BY <1>1, <1>4, <2>1, <2>2, <2>3 DEF Spaced
<1>7. QED
    BY <1>5, <1>6

\* The quota's own INCR lets a request through: there was room in its counter.
LEMMA IncrSpaced ==
    ASSUME IInv, IInv', NEW r \in Request, Incr(r), NEW q \in Refusing, Spaced(q)
    PROVE  Spaced(q)'
<1>1. PICK k \in Quota : k = req[r].quota
    BY DEF IInv, RequestSound, KeyKnown, Incr
<1>2. /\ counters' = Incremented(k) /\ clock' = clock
      /\ \A j \in Refusing : j # k => passed'[j] = passed[j]
      /\ k \in Refusing /\ ~Over(k, Count(k) + 1) => passed'[k] = Append(passed[k], clock)
      /\ k \in Refusing /\ Over(k, Count(k) + 1) => passed'[k] = passed[k]
    BY <1>1 DEF Incr, IInv, TypeOK
<1>3. q \in Quota /\ Count(q) \in Nat
    BY QuotaTyped DEF IInv
<1>4. CASE q # k
  <2>1. counters'[q] = counters[q]
      BY <1>2, <1>3, <1>4, IncrementedEffect DEF IInv
  <2>2. Count(q)' = Count(q) /\ ExpiresAt(q)' = ExpiresAt(q)
      BY <2>1 DEF Count, ExpiresAt
  <2>3. QED
      BY <1>2, <1>3, <1>4, <2>2, QuietSpaced DEF IInv
<1>5. CASE q = k
  <2>1. Count(q)' = Count(q) + 1 /\ ExpiresAt(q)' = ExpiresAt(q)
      BY <1>2, <1>5, IncrementedEffect DEF IInv, Count, ExpiresAt
  <2>2. CASE Over(q, Count(q) + 1)
      BY <1>2, <1>3, <1>5, <2>1, <2>2, QuietSpaced DEF IInv
  <2>3. CASE ~Over(q, Count(q) + 1)
    <3>1. PICK p, limit, window, now, expires, time :
              /\ p = passed[q] /\ limit = Limit[q] /\ window = Window[q]
              /\ now = Now(q) /\ expires = ExpiresAt(q) /\ time = clock
        OBVIOUS
    <3>2. /\ p \in Seq(Nat) /\ limit \in Nat /\ window \in Nat
          /\ expires \in Nat \cup {None} /\ time \in Nat
        BY <3>1, QuotaTyped DEF IInv
    <3>3. Count(q) + 1 <= limit
        BY <1>3, <2>3, <3>1, <3>2 DEF Over
    <3>4. now = Count(q) /\ now \in 0 .. limit - 1 /\ Now(q)' = now + 1
        BY <1>3, <2>1, <3>1, <3>2, <3>3 DEF Now
    <3>5. SpacedBy(p, limit, window, now, expires, time)
        BY <3>1 DEF Spaced
    <3>6. SpacedBy(Append(p, time), limit, window, now + 1, expires, time)
        BY <3>2, <3>4, <3>5, PassedSpaced, RateLimitAssumption
    <3>7. QED
        BY <1>2, <1>5, <2>1, <2>3, <3>1, <3>4, <3>6 DEF Spaced
  <2>4. QED
      BY <2>2, <2>3
<1>6. QED
    BY <1>4, <1>5

LEMMA SpacedStep ==
    ASSUME IInv, IInv', [Next]_vars, NEW q \in Refusing, Spaced(q)
    PROVE  Spaced(q)'
<1>1. q \in Quota /\ Count(q) \in Nat /\ Window[q] \in Nat /\ clock \in Nat
    BY QuotaTyped DEF IInv
<1>2. CASE UNCHANGED <<counters, clock, passed>>
  <2>1. Count(q)' = Count(q) /\ ExpiresAt(q)' = ExpiresAt(q)
      BY <1>2 DEF Count, ExpiresAt
  <2>2. QED
      BY <1>1, <1>2, <2>1, QuietSpaced DEF IInv
<1>3. ASSUME NEW r \in Request, Expire(r) PROVE Spaced(q)'
  <2>1. PICK k \in Quota : k = req[r].quota
      BY <1>3 DEF IInv, RequestSound, KeyKnown, Expire
  <2>2. /\ clock' = clock /\ passed' = passed
        /\ counters' = IF counters[k] = None THEN counters
                       ELSE [counters EXCEPT ![k].expires = clock + Window[k]]
      BY <1>3, <2>1 DEF Expire
  <2>3. CASE counters'[q] = counters[q]
    <3>1. Count(q)' = Count(q) /\ ExpiresAt(q)' = ExpiresAt(q)
        BY <2>3 DEF Count, ExpiresAt
    <3>2. QED
        BY <1>1, <2>2, <3>1, QuietSpaced DEF IInv
  <2>4. CASE counters'[q] # counters[q]
    <3>1. q = k /\ counters[q] # None /\ counters[q] \in Counter
        BY <1>1, <2>2, <2>4 DEF IInv, TypeOK
    <3>2. PICK c \in Counter : c = counters[q]
        BY <3>1
    <3>3. counters'[q] = [c EXCEPT !.expires = clock + Window[q]]
        BY <1>1, <2>2, <3>1, <3>2 DEF IInv, TypeOK
    <3>4. /\ [c EXCEPT !.expires = clock + Window[q]] \in Counter
          /\ [c EXCEPT !.expires = clock + Window[q]].count = c.count
          /\ [c EXCEPT !.expires = clock + Window[q]].expires = clock + Window[q]
        BY <1>1, <3>2 DEF Counter
    <3>5. counters'[q] # None /\ counters'[q].count = c.count /\ counters'[q].expires = clock + Window[q]
        BY <3>3, <3>4, RateLimitAssumption
    <3>6. Count(q)' = Count(q) /\ ExpiresAt(q)' = clock + Window[q]
        BY <3>1, <3>2, <3>5 DEF Count, ExpiresAt
    <3>7. QED
        BY <1>1, <2>2, <3>6, QuietSpaced DEF IInv
  <2>5. QED
      BY <2>3, <2>4
<1>4. ASSUME NEW r \in Request, RedisFails(r) PROVE Spaced(q)'
  <2>1. PICK k \in Quota : k = req[r].quota
      BY <1>4 DEF IInv, RequestSound, KeyKnown, RedisFails
  <2>2. UNCHANGED <<clock, passed>> /\ (counters' = counters \/ counters' = Incremented(k))
      BY <1>4, <2>1 DEF RedisFails
  <2>3. CASE counters' = counters
      BY <1>2, <2>2, <2>3
  <2>4. CASE counters' = Incremented(k)
    <3>1. /\ Count(q)' = Count(q) \/ Count(q)' = Count(q) + 1
          /\ ExpiresAt(q)' = ExpiresAt(q)
      <4>1. CASE k = q
          BY <1>1, <2>4, <4>1, IncrementedEffect DEF IInv, Count, ExpiresAt
      <4>2. CASE k # q
        <5>1. counters'[q] = counters[q]
            BY <1>1, <2>4, <4>2, IncrementedEffect DEF IInv
        <5>2. QED
            BY <5>1 DEF Count, ExpiresAt
      <4>3. QED
          BY <4>1, <4>2
    <3>2. QED
        BY <1>1, <2>2, <3>1, QuietSpaced DEF IInv
  <2>5. QED
      BY <2>2, <2>3, <2>4
<1>5. ASSUME NEW r \in Request,
             \/ \E quota \in Refusing : Begin(r, quota)
             \/ CheckLock(r) \/ LockUnreadable(r) \/ Verify(r) \/ Finish(r) \/ Abort(r)
      PROVE  Spaced(q)'
    BY <1>2, <1>5 DEF Begin, CheckLock, LockUnreadable, Verify, Finish, Abort
<1>6. CASE UNCHANGED vars
    BY <1>2, <1>6 DEF vars
<1>7. QED
    BY <1>3, <1>4, <1>5, <1>6, TickSpaced, IncrSpaced DEF Next

LEMMA LeastNumber ==
    ASSUME NEW T \in SUBSET Nat, T # {}
    PROVE  \E n \in T : \A m \in T : n <= m
<1>1. PICK R : R = OpToRel(<, Nat)
    OBVIOUS
<1>2. PICK x \in T : \A y \in T : <<y, x>> \notin R
    BY <1>1, NatLessThanWellFounded, WFMin
<1>3. \A x_1, y \in Nat : y < x_1 => <<y, x_1>> \in R
    BY <1>1 DEF OpToRel
<1>4. ASSUME NEW y \in T PROVE x <= y
  <2>1. x \in Nat /\ y \in Nat /\ ~(y < x)
      BY <1>2, <1>3
  <2>2. QED
      BY <2>1
<1>5. QED
    BY <1>4

\* Positions less than `n` apart are no more than n.
LEMMA CloseTogether ==
    ASSUME NEW T \in SUBSET Nat, NEW n \in Nat,
           \A i, j \in T : j < i + n
    PROVE  Cardinality(T) <= n
<1>1. CASE T = {}
    BY <1>1, FS_EmptySet
<1>2. CASE T # {}
  <2>1. PICK a \in T : \A j \in T : a <= j
      BY <1>2, LeastNumber
  <2>2. T \subseteq a .. a + n - 1
      BY <2>1
  <2>3. a \in Int /\ a + n - 1 \in Int
      BY <2>1
  <2>4. /\ IsFiniteSet(a .. a + n - 1)
        /\ Cardinality(a .. a + n - 1) = IF a > a + n - 1 THEN 0 ELSE (a + n - 1) - a + 1
      BY <2>3, FS_Interval
  <2>5. Cardinality(T) <= Cardinality(a .. a + n - 1)
      BY <2>2, <2>4, FS_Subset
  <2>6. Cardinality(a .. a + n - 1) <= n
      BY <2>1, <2>4
  <2>7. Cardinality(T) \in Nat
      BY <2>2, <2>4, FS_Subset, FS_CardinalityType
  <2>8. QED
      BY <2>4, <2>5, <2>6, <2>7
<1>3. QED
    BY <1>1, <1>2

(***************************************************************************)
(* No span of a quota's window holds more than twice its limit of the      *)
(* requests that were counted and let through, wherever it starts, however *)
(* late an expiry is set and whether or not it ever is, for every limit,   *)
(* every window and any number of overlapping requests.                    *)
(***************************************************************************)
THEOREM TwoWindowsAtMost == Spec => []TwoWindows
<1>1. Init => AllSpaced
  <2> SUFFICES ASSUME Init, NEW q \in Refusing PROVE Spaced(q)
      BY DEF AllSpaced
  <2>1. passed[q] = <<>>
      BY DEF Init
  <2>2. QED
      BY <2>1 DEF Spaced, SpacedBy
<1>2. IInv /\ IInv' /\ AllSpaced /\ [Next]_vars => AllSpaced'
    BY SpacedStep DEF AllSpaced
<1>3. IInv /\ AllSpaced => TwoWindows
  <2> SUFFICES ASSUME IInv, AllSpaced, NEW q \in Refusing, NEW t \in 0..MaxClock
               PROVE  Cardinality(Through(q, t)) <= 2 * Limit[q]
      BY DEF TwoWindows
  <2>1. PICK p, limit, window : p = passed[q] /\ limit = Limit[q] /\ window = Window[q]
      OBVIOUS
  <2>2. p \in Seq(Nat) /\ limit \in Nat /\ window \in Nat /\ t \in Nat
      BY <2>1, QuotaTyped, RateLimitAssumption DEF IInv
  <2>3. PICK T : T = Through(q, t) /\ T = {i \in 1..Len(p) : p[i] \in t .. t + window - 1}
    <3>1. DOMAIN p = 1..Len(p)
        BY <2>2
    <3>2. QED
        BY <2>1, <3>1, Zenon DEF Through
  <2>4. T \in SUBSET Nat
      BY <2>3
  <2>5. ASSUME NEW i \in T, NEW j \in T PROVE j < i + 2 * limit
    <3>1. /\ i \in 1..Len(p) /\ j \in 1..Len(p) /\ i \in Nat /\ j \in Nat
          /\ p[i] >= t /\ p[j] <= t + window - 1 /\ p[i] \in Nat /\ p[j] \in Nat
        BY <2>2, <2>3, <2>5
    <3>2. j >= i + 2 * limit => p[j] >= p[i] + window
        BY <2>1, <3>1 DEF AllSpaced, Spaced, SpacedBy
    <3>3. QED
        BY <2>2, <3>1, <3>2
  <2>6. Cardinality(T) <= 2 * limit
      BY <2>2, <2>4, <2>5, CloseTogether
  <2>7. QED
      BY <2>1, <2>3, <2>6
<1>4. QED
    BY <1>1, <1>2, <1>3, IInvHolds, PTL DEF Spec
=============================================================================
