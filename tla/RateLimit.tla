------------------------------ MODULE RateLimit ------------------------------
(***************************************************************************)
(* Fixed-window quotas and the lock on an account's failed logins, counted *)
(* in Redis (app/core/security/rate_limit.py, AuthService.login), for one  *)
(* client and one account: counters of others are other keys.              *)
(*                                                                         *)
(* A counter is created by INCR and gets its end by an EXPIRE of its own,  *)
(* so a process can stop, or Redis become unreachable, between the two.    *)
(***************************************************************************)
EXTENDS Integers, Sequences, FiniteSets

CONSTANTS
    Request,     \* slots for concurrently running requests
    None,        \* no such key, no TTL
    Limit,       \* RATE_LIMIT_*_ATTEMPTS of each quota
    Window,      \* RATE_LIMIT_*_WINDOW_SECONDS of each quota, in ticks
    MaxStarted,  \* bound: requests ever started
    MaxClock     \* bound: the last tick

\* The keys: ratelimit:auth:<ip>, ratelimit:generation:<ip>, ratelimit:login-account:<email>.
Quota == {"auth", "generation", "login"}

\* Failed logins are counted and refuse nothing by themselves.
Refusing == Quota \ {"login"}

Counter == [count : Nat \ {0}, expires : Nat \cup {None}]

ASSUME RateLimitAssumption ==
    /\ Limit \in [Quota -> Nat \ {0}]
    /\ Window \in [Quota -> Nat \ {0}]
    /\ IsFiniteSet(Request)
    /\ MaxStarted \in Nat
    /\ MaxClock \in Nat
    /\ None \notin Nat \cup Quota \cup Counter

VARIABLES
    counters,  \* the Redis keys: value and time of expiry
    clock,
    started,   \* requests started so far
    req,       \* the request running in each slot
    passed,    \* history: when each refusing quota has counted a request and let it through
    blind,     \* history: quotas of which a Redis call has failed
    cut        \* history: quotas whose counter was created by a request that set no expiry

vars == <<counters, clock, started, req, passed, blind, cut>>

RequestState ==
    [at : {"idle", "incr", "expire", "locked", "verify", "working"}, quota : Quota \cup {None}]

Idle == [at |-> "idle", quota |-> None]

Count(q) == IF counters[q] = None THEN 0 ELSE counters[q].count
ExpiresAt(q) == IF counters[q] = None THEN None ELSE counters[q].expires

TypeOK ==
    /\ counters \in [Quota -> Counter \cup {None}]
    /\ clock \in 0..MaxClock
    /\ started \in 0..MaxStarted
    /\ req \in [Request -> RequestState]
    /\ passed \in [Refusing -> Seq(0..MaxClock)]
    /\ blind \in SUBSET Quota
    /\ cut \in SUBSET blind

Init ==
    /\ counters = [q \in Quota |-> None]
    /\ clock = 0
    /\ started = 0
    /\ req = [r \in Request |-> Idle]
    /\ passed = [q \in Refusing |-> <<>>]
    /\ blind = {}
    /\ cut = {}

-----------------------------------------------------------------------------
(* enforce and record_login_failure *)

\* What follows the count of a quota: the handler, or nothing for a failed login.
After(q) ==
    CASE q = "auth" -> [at |-> "locked", quota |-> "login"]
      [] q = "generation" -> [at |-> "working", quota |-> None]
      [] q = "login" -> Idle

Goto(r, state) == req' = [req EXCEPT ![r] = state]

\* The dependency runs before the handler: auth_rate_limit before login,
\* generation_rate_limit before refill_pool.
Begin(r, quota) ==
    /\ req[r].at = "idle"
    /\ started < MaxStarted
    /\ started' = started + 1
    /\ Goto(r, [at |-> "incr", quota |-> quota])
    /\ UNCHANGED <<counters, clock, passed, blind, cut>>

\* Mutant: one more than the quota gets through.
OverByMore(q, count) == count > Limit[q] + 1

Over(q, count) == count > Limit[q]

\* Mutant: the window starts when the quota is spent.
ArmsLate(count) == count = 2

Arms(count) == count = 1

\* Mutant: a new key starts at zero.
IncrementedFromZero(q) ==
    [counters EXCEPT ![q] = [count |-> IF counters[q] = None THEN 0 ELSE Count(q) + 1,
                             expires |-> ExpiresAt(q)]]

Incremented(q) ==
    [counters EXCEPT ![q] = [count |-> Count(q) + 1, expires |-> ExpiresAt(q)]]

Incr(r) ==
    LET q == req[r].quota
        count == Count(q) + 1
        refused == q \in Refusing /\ Over(q, count)
    IN
    /\ req[r].at = "incr"
    /\ counters' = Incremented(q)
    /\ passed' = IF q \in Refusing /\ ~refused THEN [passed EXCEPT ![q] = Append(@, clock)] ELSE passed
    /\ Goto(r, IF Arms(count) THEN [req[r] EXCEPT !.at = "expire"]
               ELSE IF refused THEN Idle ELSE After(q))
    /\ UNCHANGED <<clock, started, blind, cut>>

Expire(r) ==
    LET q == req[r].quota IN
    /\ req[r].at = "expire"
    /\ counters' = IF counters[q] = None THEN counters
                   ELSE [counters EXCEPT ![q].expires = clock + Window[q]]
    /\ Goto(r, After(q))
    /\ UNCHANGED <<clock, started, passed, blind, cut>>

\* Either call may fail, before or after Redis has done it; the request is let through.
RedisFails(r) ==
    LET q == req[r].quota IN
    /\ req[r].at \in {"incr", "expire"}
    /\ \/ counters' = counters
       \/ req[r].at = "incr" /\ counters' = Incremented(q)
    /\ blind' = blind \cup {q}
    /\ cut' = IF req[r].at = "expire" \/ (counters[q] = None /\ counters'[q] # None)
              THEN cut \cup {q} ELSE cut
    /\ Goto(r, After(q))
    /\ UNCHANGED <<clock, started, passed>>

-----------------------------------------------------------------------------
(* AuthService.login, and whatever else the quotas guard *)

\* Mutant: the lock closes one failure late.
LockedLate == Count("login") > Limit["login"]

login_locked == Count("login") >= Limit["login"]

CheckLock(r) ==
    /\ req[r].at = "locked"
    /\ Goto(r, IF login_locked THEN Idle ELSE [req[r] EXCEPT !.at = "verify"])
    /\ UNCHANGED <<counters, clock, started, passed, blind, cut>>

LockUnreadable(r) ==
    /\ req[r].at = "locked"
    /\ blind' = blind \cup {"login"}
    /\ Goto(r, [req[r] EXCEPT !.at = "verify"])
    /\ UNCHANGED <<counters, clock, started, passed, cut>>

\* The password is right, or it is not.
Verify(r) ==
    /\ req[r].at = "verify"
    /\ \/ Goto(r, Idle)
       \/ Goto(r, [req[r] EXCEPT !.at = "incr"])
    /\ UNCHANGED <<counters, clock, started, passed, blind, cut>>

Finish(r) ==
    /\ req[r].at = "working"
    /\ Goto(r, Idle)
    /\ UNCHANGED <<counters, clock, started, passed, blind, cut>>

\* The server process dies.
Abort(r) ==
    /\ req[r].at # "idle"
    /\ Goto(r, Idle)
    /\ blind' = IF req[r].at = "expire" THEN blind \cup {req[r].quota} ELSE blind
    /\ cut' = IF req[r].at = "expire" THEN cut \cup {req[r].quota} ELSE cut
    /\ UNCHANGED <<counters, clock, started, passed>>

\* Redis drops the keys whose time has come.
Tick ==
    /\ clock < MaxClock
    /\ clock' = clock + 1
    /\ counters' = [q \in Quota |->
           IF counters[q] # None /\ counters[q].expires = clock' THEN None ELSE counters[q]]
    /\ UNCHANGED <<started, req, passed, blind, cut>>

Next ==
    \/ \E r \in Request :
          \/ \E quota \in Refusing : Begin(r, quota)
          \/ Incr(r) \/ Expire(r) \/ RedisFails(r)
          \/ CheckLock(r) \/ LockUnreadable(r) \/ Verify(r)
          \/ Finish(r) \/ Abort(r)
    \/ Tick

Spec == Init /\ [][Next]_vars

-----------------------------------------------------------------------------
(* Properties *)

Armed(q) == \E r \in Request : req[r].at = "expire" /\ req[r].quota = q

(***************************************************************************)
(* rate_limit.py:42,77: a counter never outlives its window.  It ends      *)
(* within one, or the request that created it is about to say when, or was *)
(* cut off before it could: the one case in which a key stays for good.    *)
(***************************************************************************)
CounterExpires ==
    \A q \in Quota :
        counters[q] # None =>
            IF counters[q].expires = None THEN Armed(q) \/ q \in cut
            ELSE counters[q].expires \in (clock + 1)..(clock + Window[q])

\* Requests let through in the window's length from tick t on.
Through(q, t) == {i \in DOMAIN passed[q] : passed[q][i] \in t..(t + Window[q] - 1)}

(***************************************************************************)
(* rate_limit.py:4-5: "up to two windows' worth of requests at a           *)
(* boundary", and no more, of those that are counted, however the requests *)
(* overlap and whichever expiry comes late or never.  A call that fails    *)
(* lets its request through uncounted.                                     *)
(***************************************************************************)
TwoWindows ==
    \A q \in Refusing, t \in 0..MaxClock :
        Cardinality(Through(q, t)) <= 2 * Limit[q]

\* Past the lock, and not yet counted if the password turns out wrong.
Guessing ==
    {r \in Request : req[r].at = "verify" \/ (req[r].at = "incr" /\ req[r].quota = "login")}

(***************************************************************************)
(* The lock is read before the password is checked and the failure counted *)
(* after.  Guesses that overlap slip past it, but never more than there    *)
(* are requests running besides the one that reaches the limit.            *)
(***************************************************************************)
LockHolds ==
    "login" \notin blind =>
        Count("login") + Cardinality(Guessing) <= Limit["login"] + Cardinality(Request) - 1
=============================================================================
