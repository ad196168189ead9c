------------------------------- MODULE Sessions -------------------------------
(***************************************************************************)
(* Refresh-token sessions: sign-in, rotation, logout, logout-everywhere,   *)
(* password reset and account deletion, as app/services/auth runs them.    *)
(*                                                                         *)
(* A request is a coroutine of one uvicorn process: it runs alone from one *)
(* `await` on the database to the next, and every repository call commits  *)
(* on its own.  So one action here is one statement of one request with    *)
(* the Python that follows it, and requests interleave between actions.    *)
(* A request that is refused without touching the database is no step.     *)
(***************************************************************************)
EXTENDS Integers

CONSTANTS
    User,       \* the accounts that exist at the start
    Request,    \* slots for concurrently running requests
    None,       \* SQL NULL, and "no such row"
    Grace,      \* REFRESH_REUSE_GRACE_SECONDS, in clock ticks
    Lifetime,   \* REFRESH_EXPIRE_DAYS, in clock ticks
    MaxTokens,  \* bound: refresh tokens ever issued
    MaxClock,   \* bound: ticks of the clock
    MaxResets   \* bound: password changes of one account

Token == 1..MaxTokens
Password == 0..MaxResets

\* A row of refresh_tokens.
RefreshToken ==
    [user_id : User, expires_at : Nat,
     revoked_at : Nat \cup {None}, replaced_by : Token \cup {None}]

ASSUME SessionsAssumption ==
    /\ Grace \in Nat
    /\ Lifetime \in Nat \ {0}
    /\ MaxTokens \in Nat
    /\ MaxClock \in Nat
    /\ MaxResets \in Nat
    /\ None \notin User
    /\ None \notin Nat
    /\ None \notin RefreshToken

VARIABLES
    clock,           \* _utcnow()
    users,           \* ids of the rows of users
    password,        \* the password each hashed_password stands for
    last,            \* the refresh_tokens id sequence
    refresh_tokens,  \* the rows of refresh_tokens, None where there is none
    verified,        \* history: the password a token's sign-in was checked
                     \* against, None for a Google sign-in
    req              \* the request running in each slot

vars == <<clock, users, password, last, refresh_tokens, verified, req>>

-----------------------------------------------------------------------------
(* Requests *)

(***************************************************************************)
(* What a running request holds in its local variables.  `at` is the       *)
(* statement it is waiting to run.                                         *)
(***************************************************************************)
Stage ==
    {"idle", "sign_in", "get_user", "issue", "retire",
     "logout", "logged_out", "set_password", "revoke_all"}

RequestState ==
    [at : Stage, user : User \cup {None}, token : Token \cup {None},
     new : Token \cup {None}, password : Password \cup {None}]

Running(at, u, t, new, pw) ==
    [at |-> at, user |-> u, token |-> t, new |-> new, password |-> pw]

Idle == Running("idle", None, None, None, None)

Goto(r, next) == req' = [req EXCEPT ![r] = next]
Finish(r) == Goto(r, Idle)

Stored(t) == refresh_tokens[t] # None

TypeOK ==
    /\ clock \in 0..MaxClock
    /\ users \in SUBSET User
    /\ password \in [User -> Password]
    /\ last \in 0..MaxTokens
    /\ refresh_tokens \in [Token -> RefreshToken \cup {None}]
    /\ verified \in [Token -> Password \cup {None}]
    /\ req \in [Request -> RequestState]

Init ==
    /\ clock = 0
    /\ users = User
    /\ password = [u \in User |-> 0]
    /\ last = 0
    /\ refresh_tokens = [t \in Token |-> None]
    /\ verified = [t \in Token |-> None]
    /\ req = [r \in Request |-> Idle]

-----------------------------------------------------------------------------
(* _issue_tokens and revoke_all_for_user, the two writers of whole rows *)

\* Mutant: the expiry is forgotten.
IssueTokenNoExpiry(u, pw) ==
    /\ last' = last + 1
    /\ refresh_tokens' =
         [refresh_tokens EXCEPT ![last + 1] =
            [user_id |-> u, expires_at |-> None, revoked_at |-> None, replaced_by |-> None]]
    /\ verified' = [verified EXCEPT ![last + 1] = pw]

\* The INSERT of _issue_tokens; the foreign key refuses it once the user is gone.
IssueToken(u, pw) ==
    /\ last' = last + 1
    /\ refresh_tokens' =
         [refresh_tokens EXCEPT ![last + 1] =
            [user_id |-> u, expires_at |-> clock + Lifetime,
             revoked_at |-> None, replaced_by |-> None]]
    /\ verified' = [verified EXCEPT ![last + 1] = pw]

\* Mutant: the UPDATE forgets whose tokens it is to revoke.
RevokeAllForAnyUser(u) ==
    refresh_tokens' =
        [t \in Token |->
            IF Stored(t) /\ refresh_tokens[t].revoked_at = None
            THEN [refresh_tokens[t] EXCEPT !.revoked_at = clock]
            ELSE refresh_tokens[t]]

\* update_one(stored, ...) of refresh and logout, on what the row holds by now.
UpdateToken(t, revoked_at, replaced_by) ==
    refresh_tokens' =
        [refresh_tokens EXCEPT ![t] =
            [user_id |-> @.user_id, expires_at |-> @.expires_at,
             revoked_at |-> revoked_at, replaced_by |-> replaced_by]]

RevokeAllForUser(u) ==
    refresh_tokens' =
        [t \in Token |->
            IF Stored(t) /\ refresh_tokens[t].user_id = u /\ refresh_tokens[t].revoked_at = None
            THEN [refresh_tokens[t] EXCEPT !.revoked_at = clock]
            ELSE refresh_tokens[t]]

-----------------------------------------------------------------------------
(* Sign-in *)

\* Mutant: any password the account ever had is let in.
LoginUnverified(r, u) ==
    /\ req[r].at = "idle"
    /\ u \in users
    /\ \E pw \in 0..password[u] :
          Goto(r, Running("sign_in", u, None, None, pw))
    /\ UNCHANGED <<clock, users, password, last, refresh_tokens, verified>>

\* login: the row is read and the password verified against it.
Login(r, u) ==
    /\ req[r].at = "idle"
    /\ u \in users
    /\ Goto(r, Running("sign_in", u, None, None, password[u]))
    /\ UNCHANGED <<clock, users, password, last, refresh_tokens, verified>>

\* google_login of a linked account: no password is involved.
GoogleLogin(r, u) ==
    /\ req[r].at = "idle"
    /\ u \in users
    /\ Goto(r, Running("sign_in", u, None, None, None))
    /\ UNCHANGED <<clock, users, password, last, refresh_tokens, verified>>

SignInIssue(r) ==
    /\ req[r].at = "sign_in"
    /\ \/ /\ req[r].user \in users
          /\ last < MaxTokens
          /\ IssueToken(req[r].user, req[r].password)
       \/ /\ req[r].user \notin users
          /\ UNCHANGED <<last, refresh_tokens, verified>>
    /\ Finish(r)
    /\ UNCHANGED <<clock, users, password>>

-----------------------------------------------------------------------------
(* refresh *)

\* Mutant: every revoked token counts as rotated.
RotatedOrRevoked(stored) == stored.revoked_at # None

\* Only rotation sets replaced_by.
Rotated(stored) == stored.replaced_by # None

InGrace(stored) == clock - stored.revoked_at <= Grace

\* Mutant: revocation is checked by age only.
AcceptsRecentlyRevoked(stored) ==
    stored.revoked_at # None => InGrace(stored)

\* What refresh lets through after reading the row.
Accepts(stored) ==
    \/ stored.revoked_at = None
    \/ /\ Rotated(stored)
       /\ InGrace(stored)

RefreshAccepted(r, t) ==
    /\ req[r].at = "idle"
    /\ Stored(t)
    /\ clock < refresh_tokens[t].expires_at
    /\ Accepts(refresh_tokens[t])
    /\ Goto(r, Running("get_user", refresh_tokens[t].user_id, t, None, None))
    /\ UNCHANGED <<clock, users, password, last, refresh_tokens, verified>>

\* Reuse of a revoked token: every session of its user is to be ended.
RefreshReplayed(r, t) ==
    /\ req[r].at = "idle"
    /\ Stored(t)
    /\ clock < refresh_tokens[t].expires_at
    /\ ~Accepts(refresh_tokens[t])
    /\ Goto(r, Running("revoke_all", refresh_tokens[t].user_id, None, None, None))
    /\ UNCHANGED <<clock, users, password, last, refresh_tokens, verified>>

RefreshGetUser(r) ==
    /\ req[r].at = "get_user"
    /\ IF req[r].user \in users
       THEN Goto(r, Running("issue", req[r].user, req[r].token, None, None))
       ELSE Finish(r)
    /\ UNCHANGED <<clock, users, password, last, refresh_tokens, verified>>

RefreshIssue(r) ==
    /\ req[r].at = "issue"
    /\ \/ /\ req[r].user \in users
          /\ last < MaxTokens
          /\ IssueToken(req[r].user, verified[req[r].token])
          /\ Goto(r, Running("retire", req[r].user, req[r].token, last + 1, None))
       \/ /\ req[r].user \notin users
          /\ Finish(r)
          /\ UNCHANGED <<last, refresh_tokens, verified>>
    /\ UNCHANGED <<clock, users, password>>

\* Mutant: the successor is recorded, the token is left live.
RefreshRetireStillLive(r) ==
    LET t == req[r].token IN
    /\ req[r].at = "retire"
    /\ IF Stored(t)
       THEN UpdateToken(t, refresh_tokens[t].revoked_at, req[r].new)
       ELSE UNCHANGED refresh_tokens
    /\ Finish(r)
    /\ UNCHANGED <<clock, users, password, last, verified>>

\* The UPDATE of the row read by RefreshAccepted, whatever it holds by now;
\* it fails when the row is gone.
RefreshRetire(r) ==
    LET t == req[r].token IN
    /\ req[r].at = "retire"
    /\ IF Stored(t)
       THEN UpdateToken(t, clock, req[r].new)
       ELSE UNCHANGED refresh_tokens
    /\ Finish(r)
    /\ UNCHANGED <<clock, users, password, last, verified>>

-----------------------------------------------------------------------------
(* logout, logout_everywhere, PasswordResetService.reset *)

\* logout reads the row; one already revoked is passed over.
Logout(r, t) ==
    /\ req[r].at = "idle"
    /\ Stored(t)
    /\ LET next == IF refresh_tokens[t].revoked_at = None THEN "logout" ELSE "logged_out"
       IN  Goto(r, Running(next, refresh_tokens[t].user_id, t, None, None))
    /\ UNCHANGED <<clock, users, password, last, refresh_tokens, verified>>

\* ... and the request ends with its 204.
LogoutWrite(r) ==
    LET t == req[r].token IN
    /\ req[r].at \in {"logout", "logged_out"}
    /\ IF req[r].at = "logout" /\ Stored(t)
       THEN UpdateToken(t, clock, refresh_tokens[t].replaced_by)
       ELSE UNCHANGED refresh_tokens
    /\ Finish(r)
    /\ UNCHANGED <<clock, users, password, last, verified>>

\* logout-all: get_current_user has found the caller.
LogoutEverywhere(r, u) ==
    /\ req[r].at = "idle"
    /\ u \in users
    /\ Goto(r, Running("revoke_all", u, None, None, None))
    /\ UNCHANGED <<clock, users, password, last, refresh_tokens, verified>>

\* reset: a valid link was presented, its user found and the link spent.
Reset(r, u) ==
    /\ req[r].at = "idle"
    /\ u \in users
    /\ Goto(r, Running("set_password", u, None, None, None))
    /\ UNCHANGED <<clock, users, password, last, refresh_tokens, verified>>

ResetPassword(r) ==
    LET u == req[r].user IN
    /\ req[r].at = "set_password"
    /\ \/ /\ u \in users
          /\ password[u] < MaxResets
          /\ password' = [password EXCEPT ![u] = @ + 1]
          /\ Goto(r, Running("revoke_all", u, None, None, None))
       \/ /\ u \notin users
          /\ Finish(r)
          /\ UNCHANGED password
    /\ UNCHANGED <<clock, users, last, refresh_tokens, verified>>

\* The last statement of a replayed refresh, of logout-all and of reset.
RevokeAll(r) ==
    /\ req[r].at = "revoke_all"
    /\ RevokeAllForUser(req[r].user)
    /\ Finish(r)
    /\ UNCHANGED <<clock, users, password, last, verified>>

-----------------------------------------------------------------------------
(* Account deletion, time and crashes *)

\* ON DELETE CASCADE takes the user's tokens along.
DeleteUser(u) ==
    /\ u \in users
    /\ users' = users \ {u}
    /\ refresh_tokens' =
         [t \in Token |-> IF Stored(t) /\ refresh_tokens[t].user_id = u
                          THEN None ELSE refresh_tokens[t]]
    /\ UNCHANGED <<clock, password, last, verified, req>>

Tick ==
    /\ clock < MaxClock
    /\ clock' = clock + 1
    /\ UNCHANGED <<users, password, last, refresh_tokens, verified, req>>

\* The server dies: no running request gets any further.
Crash ==
    /\ req' = [r \in Request |-> Idle]
    /\ UNCHANGED <<clock, users, password, last, refresh_tokens, verified>>

-----------------------------------------------------------------------------

Next ==
    \/ \E r \in Request, u \in User :
          Login(r, u) \/ GoogleLogin(r, u) \/ LogoutEverywhere(r, u) \/ Reset(r, u)
    \/ \E r \in Request, t \in Token :
          RefreshAccepted(r, t) \/ RefreshReplayed(r, t) \/ Logout(r, t)
    \/ \E r \in Request :
          \/ SignInIssue(r)
          \/ RefreshGetUser(r) \/ RefreshIssue(r) \/ RefreshRetire(r)
          \/ LogoutWrite(r) \/ ResetPassword(r) \/ RevokeAll(r)
    \/ \E u \in User : DeleteUser(u)
    \/ Tick
    \/ Crash

Spec == Init /\ [][Next]_vars

-----------------------------------------------------------------------------
(* Properties *)

\* A refresh with this token would be answered with a new pair.
Refreshable(t) ==
    /\ refresh_tokens[t] # None
    /\ clock < refresh_tokens[t].expires_at
    /\ \/ refresh_tokens[t].revoked_at = None
       \/ /\ refresh_tokens[t].replaced_by # None
          /\ clock - refresh_tokens[t].revoked_at <= Grace

Expired(t) == refresh_tokens[t] = None \/ refresh_tokens[t].expires_at <= clock

\* Requests that read the token while it was good and have still to write.
Refreshing(t) == \E r \in Request : req[r].token = t /\ req[r].at \in {"get_user", "issue", "retire"}
LoggingOut(t) == \E r \in Request : req[r].token = t /\ req[r].at = "logout"

Dead(t) ==
    /\ t <= last
    /\ ~Refreshable(t)
    /\ ~Refreshing(t)
    /\ Expired(t) \/ ~LoggingOut(t)

(***************************************************************************)
(* The rotation chain is sound, crash or no crash: a token that names a    *)
(* successor is revoked, and the successor is a later row of the same user *)
(* that exists and carries the same sign-in.  In particular the server     *)
(* never retires a client's token before the one that replaces it is       *)
(* committed (refresh issues first and retires second).                    *)
(***************************************************************************)
RotationSound ==
    \A t \in Token :
        (Stored(t) /\ refresh_tokens[t].replaced_by # None) =>
            LET next == refresh_tokens[t].replaced_by IN
            /\ refresh_tokens[t].revoked_at # None
            /\ next \in t + 1 .. last
            /\ Stored(next)
            /\ refresh_tokens[next].user_id = refresh_tokens[t].user_id
            /\ verified[next] = verified[t]

(***************************************************************************)
(* A dead token stays dead.  Once a token is refused and no request that   *)
(* read it earlier is still to write, no later step (a refresh, a logout,  *)
(* a revocation, the passing of time) makes it acceptable again or lets a  *)
(* refresh of it through.  This is what "revocation is real" in refresh    *)
(* amounts to, with the races it does not cover named in Dead.             *)
(***************************************************************************)
DeadStaysDead == [][\A t \in Token : Dead(t) => Dead(t)']_vars

Owned(u) == {t \in Token : Stored(t) /\ refresh_tokens[t].user_id = u}

SigningIn(u) == {r \in Request : req[r].at = "sign_in" /\ req[r].user = u}

Outdated(u, pw) == pw \notin {None, password[u]}

OldPasswordGone(u) ==
    /\ \A t \in Owned(u) : Outdated(u, verified[t]) => Dead(t)
    /\ \A r \in SigningIn(u) : ~Outdated(u, req[r].password)
    /\ \A r \in Request :
         (req[r].at \in {"get_user", "issue"} /\ req[r].user = u) =>
             ~Outdated(u, verified[req[r].token])

(***************************************************************************)
(* Once every session opened with a replaced password is gone, none comes  *)
(* back until the password changes again: refreshing a session never       *)
(* launders the sign-in it descends from.                                  *)
(***************************************************************************)
OldPasswordStaysOut ==
    [][\A u \in User :
        OldPasswordGone(u) => OldPasswordGone(u)' \/ password'[u] # password[u]]_vars

(***************************************************************************)
(* A request only ever writes tokens of the user it acts for: the reuse of *)
(* one user's token, or their logout-all, ends nobody else's sessions.     *)
(***************************************************************************)
OthersUntouched ==
    [][\A t \in Token :
        (Stored(t) /\ refresh_tokens'[t] # refresh_tokens[t]) =>
            \/ refresh_tokens[t].user_id \notin users'
            \/ \E r \in Request :
                  /\ req[r].at \in {"retire", "logout", "revoke_all"}
                  /\ req[r].user = refresh_tokens[t].user_id
                  /\ req'[r].at = "idle"]_vars

\* A token that still is, or may yet be, good for a refresh.
Living(t) == Stored(t) /\ ~Dead(t)

\* What SessionLifecycle sees of the table and of the running requests.
BornTokens == 1..last
LivingSessions == {<<t, refresh_tokens[t].user_id>> : t \in {s \in Token : Living(s)}}
SignIns == [u \in User |-> SigningIn(u)]

Lifecycle ==
    INSTANCE SessionLifecycle WITH
        born <- BornTokens, living <- LivingSessions, signing <- SignIns

(***************************************************************************)
(* The statements of the handlers, however they interleave and wherever    *)
(* they stop, amount to the life of sessions SessionLifecycle allows.      *)
(***************************************************************************)
ImplementsLifecycle == Lifecycle!Spec

-----------------------------------------------------------------------------
(* What comments of the repository claim and the code does not do *)

\* auth.py:160 of logout: "the caller wanted them gone, and they are" - after
\* the 204 the token presented is not accepted.
LogoutIsFinal ==
    [][\A r \in Request, t \in Token :
        (LogoutWrite(r) /\ req[r].token = t) => ~Refreshable(t)']_vars

\* password_reset.py:78 "end every existing session", auth.py:166 "Retire every
\* session of a user": after revoke_all_for_user no token of the user works.
RevokeAllEndsSessions ==
    [][\A r \in Request :
        RevokeAll(r) => \A t \in Owned(req[r].user) : ~Refreshable(t)']_vars

\* config/auth.py:10 "How long after a refresh token is rotated its replay is
\* still treated as a race": the window starts at the rotation and is not moved.
GraceNotExtended ==
    [][\A t \in Token :
        (Stored(t) /\ refresh_tokens[t].replaced_by # None /\ refresh_tokens'[t] # None) =>
            refresh_tokens'[t].revoked_at = refresh_tokens[t].revoked_at]_vars
=============================================================================
