------------------------------- MODULE Accounts -------------------------------
(***************************************************************************)
(* Accounts: sign-up by password and by Google, the trial that comes with  *)
(* it, verification and reset links, profiles, and the admin's hand in all *)
(* of it (app/services/auth/auth.py, email_verification.py,                *)
(* password_reset.py, user.py, admin_service.py, payments/                 *)
(* subscription_service.py).  Each statement commits on its own.           *)
(*                                                                         *)
(* A link past its date is refused like a used one and refusing changes    *)
(* nothing, so links do not age here.  The sessions these requests open    *)
(* and end are in Sessions.                                                *)
(***************************************************************************)
EXTENDS Integers, FiniteSets

CONSTANTS
    User,        \* ids of users
    Email,       \* addresses; each also names the Google account it belongs to
    Link,        \* ids of verification and reset links
    Request,     \* slots for concurrently running requests
    None,        \* SQL NULL and "no such row"
    Start,       \* the users at the start
    MaxStarted   \* bound: requests ever started

RoleEnum == {"USER", "ADMIN", "SUPER_ADMIN"}
ADMIN_ROLES == {"ADMIN", "SUPER_ADMIN"}

\* `password` is the link that set it; a profile is its native language.
UserRow ==
    [email : Email, role : RoleEnum, verified : BOOLEAN,
     password : Link \cup {"chosen", None}, native : BOOLEAN]

LinkRow == [kind : {"verify", "reset"}, user : User, used : BOOLEAN]

\* The acting user as get_current_user read it.
Actor == [id : User, role : RoleEnum]

ASSUME AccountsAssumption ==
    /\ Start \in [User -> UserRow \cup {None}]
    /\ \A u, v \in User :
          (Start[u] # None /\ Start[v] # None /\ Start[u].email = Start[v].email) => u = v
    /\ MaxStarted \in Nat
    /\ \A S \in {User, Email, Link} : None \notin S /\ IsFiniteSet(S)
    /\ None \notin UserRow \cup LinkRow \cup Actor
    /\ "chosen" \notin Link

VARIABLES
    users,     \* the users
    oauth,     \* oauth_accounts: <<Google account, user>>
    trials,    \* users with a subscriptions row
    links,     \* email_verification_tokens and password_reset_tokens
    offered,   \* a trial can be granted: NEW_USER_TRIAL_DAYS is not 0, TRIAL_PLAN_CODE has its row
    started,   \* requests started so far
    untried,   \* history: users never signed up, whose sign-up was cut off or met no trial to grant
    crossed,   \* history: <<user, kind>> two overlapping requests issue a link for
    req        \* the request running in each slot

vars == <<users, oauth, trials, links, offered, started, untried, crossed, req>>

-----------------------------------------------------------------------------
(* Rows and requests *)

Stored(u) == users[u] # None

\* get_by_email
UsersOf(email) == {u \in User : Stored(u) /\ users[u].email = email}

\* `read` is the row as the request read it, `new` what it is to become.
RequestState ==
    [at : {"idle", "create", "trial", "oauth", "invalidate", "issue", "use", "update", "delete"},
     op : {"register", "google", "create", "link", "present", "update", "delete", None},
     actor : Actor \cup {None},
     user : User \cup {None}, read : UserRow \cup {None}, new : UserRow \cup {None},
     kind : {"verify", "reset", None}, link : Link \cup {None}]

Idle ==
    [at |-> "idle", op |-> None, actor |-> None, user |-> None, read |-> None,
     new |-> None, kind |-> None, link |-> None]

Goto(r, state) == req' = [req EXCEPT ![r] = state]
Finish(r) == Goto(r, Idle)

Begin(r, state) ==
    /\ req[r].at = "idle"
    /\ started < MaxStarted
    /\ started' = started + 1
    /\ Goto(r, state)
    /\ UNCHANGED <<users, oauth, trials, links, offered, untried, crossed>>

FreshUser(u) ==
    /\ ~Stored(u)
    /\ \A r \in Request : req[r].user # u /\ (req[r].actor # None => req[r].actor.id # u)
FreshLink(l) == links[l] = None /\ \A r \in Request : req[r].link # l

NewUser(email, role, verified, password) ==
    [email |-> email, role |-> role, verified |-> verified, password |-> password, native |-> FALSE]

\* Uniqueness and foreign keys.
Constraints ==
    /\ \A u, v \in User : (Stored(u) /\ Stored(v) /\ users[u].email = users[v].email) => u = v
    /\ \A o \in oauth : Stored(o[2]) /\ \A p \in oauth : p[1] = o[1] => p = o
    /\ \A u \in trials : Stored(u)
    /\ \A l \in Link : links[l] # None => Stored(links[l].user)

TypeOK ==
    /\ users \in [User -> UserRow \cup {None}]
    /\ oauth \in SUBSET (Email \X User)
    /\ trials \in SUBSET User
    /\ links \in [Link -> LinkRow \cup {None}]
    /\ offered \in BOOLEAN
    /\ started \in 0..MaxStarted
    /\ untried \in SUBSET User
    /\ crossed \in SUBSET (User \X {"verify", "reset"})
    /\ req \in [Request -> RequestState]
    /\ Constraints

Init ==
    /\ users = Start
    /\ oauth = {}
    /\ trials = {}
    /\ links = [l \in Link |-> None]
    /\ offered \in BOOLEAN
    /\ started = 0
    /\ untried = {u \in User : Start[u] # None}
    /\ crossed = {}
    /\ req = [r \in Request |-> Idle]

-----------------------------------------------------------------------------
(* Sign-up *)

Register(r, email) ==
    /\ UsersOf(email) = {}
    /\ Begin(r, [Idle EXCEPT !.at = "create", !.op = "register", !.kind = "verify",
                             !.new = NewUser(email, "USER", FALSE, "chosen")])

\* Whoever Google knows signs in to the linked account, else to the one with the
\* address, which is linked, else to a new one.
GoogleLogin(r, email, verified) ==
    /\ \A o \in oauth : o[1] # email
    /\ IF UsersOf(email) = {}
       THEN Begin(r, [Idle EXCEPT !.at = "create", !.op = "google",
                                  !.new = NewUser(email, "USER", verified, None)])
       ELSE \E u \in UsersOf(email) :
               Begin(r, [Idle EXCEPT !.at = "oauth", !.op = "google", !.user = u,
                                     !.new = users[u]])

\* UserService.create_user, open to everyone.
CreateUser(r, email) ==
    /\ UsersOf(email) = {}
    /\ Begin(r, [Idle EXCEPT !.at = "create", !.op = "create",
                             !.new = NewUser(email, "USER", FALSE, "chosen")])

\* Mutant: an account that came from Google gets no trial.
AfterCreateNoTrial(state) ==
    CASE state.op = "register" -> "trial"
      [] state.op = "google" -> "oauth"
      [] OTHER -> "idle"

AfterCreate(state) == IF state.op \in {"register", "google"} THEN "trial" ELSE "idle"

\* The INSERT; a taken address fails.
Create(r) ==
    LET next == AfterCreate(req[r]) IN
    /\ req[r].at = "create"
    /\ IF UsersOf(req[r].new.email) = {}
       THEN LET u == CHOOSE u \in User : FreshUser(u) IN
            /\ \E v \in User : FreshUser(v)  \* bound: there are ids left
            /\ users' = [users EXCEPT ![u] = req[r].new]
            /\ untried' = IF req[r].op = "create" THEN untried \cup {u} ELSE untried \ {u}
            /\ crossed' = {c \in crossed : c[1] # u}
            /\ IF next = "idle" THEN Finish(r)
               ELSE Goto(r, [req[r] EXCEPT !.at = next, !.user = u])
       ELSE Finish(r) /\ UNCHANGED <<users, untried, crossed>>
    /\ UNCHANGED <<oauth, trials, links, offered, started>>

\* grant_trial: without a trial to give the sign-up goes on as if it had been given;
\* deleting the user in the meantime fails the request.
GrantTrial(r) ==
    LET u == req[r].user IN
    /\ req[r].at = "trial"
    /\ IF Stored(u)
       THEN /\ trials' = IF offered THEN trials \cup {u} ELSE trials
            /\ untried' = IF offered THEN untried ELSE untried \cup {u}
            /\ Goto(r, [req[r] EXCEPT !.at = IF req[r].op = "google" THEN "oauth" ELSE "invalidate"])
       ELSE Finish(r) /\ UNCHANGED <<trials, untried>>
    /\ UNCHANGED <<users, oauth, links, offered, started, crossed>>

\* uq_oauth_provider_account
LinkGoogle(r) ==
    LET email == req[r].new.email IN
    /\ req[r].at = "oauth"
    /\ oauth' = IF Stored(req[r].user) /\ \A o \in oauth : o[1] # email
                THEN oauth \cup {<<email, req[r].user>>} ELSE oauth
    /\ Finish(r)
    /\ UNCHANGED <<users, trials, links, offered, started, untried, crossed>>

-----------------------------------------------------------------------------
(* Links *)

ResendVerification(r, u) ==
    /\ Stored(u)
    /\ ~users[u].verified
    /\ Begin(r, [Idle EXCEPT !.at = "invalidate", !.op = "link", !.kind = "verify", !.user = u])

RequestReset(r, email) ==
    \E u \in UsersOf(email) :
        Begin(r, [Idle EXCEPT !.at = "invalidate", !.op = "link", !.kind = "reset", !.user = u])

LiveLinks(u, kind) == {l \in Link : links[l] = [kind |-> kind, user |-> u, used |-> FALSE]}

\* Mutant: the earlier links stay good.
InvalidateNothing(r) ==
    /\ req[r].at = "invalidate"
    /\ Goto(r, [req[r] EXCEPT !.at = "issue"])
    /\ UNCHANGED <<users, oauth, trials, links, offered, started, untried, crossed>>

\* invalidate_for_user
Invalidate(r) ==
    LET u == req[r].user
        kind == req[r].kind
        overlaps == \E s \in Request : req[s].at = "issue" /\ req[s].user = u /\ req[s].kind = kind
    IN
    /\ req[r].at = "invalidate"
    /\ links' = [l \in Link |-> IF l \in LiveLinks(u, kind) THEN [links[l] EXCEPT !.used = TRUE]
                                ELSE links[l]]
    /\ crossed' = IF overlaps THEN crossed \cup {<<u, kind>>} ELSE crossed \ {<<u, kind>>}
    /\ Goto(r, [req[r] EXCEPT !.at = "issue"])
    /\ UNCHANGED <<users, oauth, trials, offered, started, untried>>

Issue(r) ==
    LET u == req[r].user IN
    /\ req[r].at = "issue"
    /\ IF Stored(u)
       THEN LET l == CHOOSE l \in Link : FreshLink(l) IN
            /\ \E k \in Link : FreshLink(k)  \* bound: there are ids left
            /\ links' = [links EXCEPT ![l] = [kind |-> req[r].kind, user |-> u, used |-> FALSE]]
       ELSE UNCHANGED links
    /\ Finish(r)
    /\ UNCHANGED <<users, oauth, trials, offered, started, untried, crossed>>

\* What a link does to the row of its user.
Consumed(l) ==
    IF links[l].kind = "verify" THEN [users[links[l].user] EXCEPT !.verified = TRUE]
    ELSE [users[links[l].user] EXCEPT !.password = l]

\* verify and reset, up to the answer to "is it good?".
Present(r, l) ==
    /\ links[l] # None
    /\ ~links[l].used
    /\ Begin(r, [Idle EXCEPT !.at = "use", !.op = "present", !.link = l, !.user = links[l].user,
                             !.kind = links[l].kind, !.read = users[links[l].user], !.new = Consumed(l)])

\* The row is written whether or not someone else has used the link since; a
\* confirmed address is not confirmed again.
Use(r) ==
    /\ req[r].at = "use"
    /\ IF links[req[r].link] = None
       THEN Finish(r) /\ UNCHANGED links
       ELSE /\ links' = [links EXCEPT ![req[r].link].used = TRUE]
            /\ IF req[r].new = req[r].read THEN Finish(r) ELSE Goto(r, [req[r] EXCEPT !.at = "update"])
    /\ UNCHANGED <<users, oauth, trials, offered, started, untried, crossed>>

-----------------------------------------------------------------------------
(* Profiles and the admin panel *)

Acting(u) == [id |-> u, role |-> users[u].role]

\* UserService.update_user of one's own account, or by an admin of anyone's.
UpdateProfile(r, acting, u, native) ==
    /\ Stored(acting) /\ Stored(u)
    /\ acting = u \/ users[acting].role \in ADMIN_ROLES
    /\ Begin(r, [Idle EXCEPT !.at = "update", !.op = "update", !.actor = Acting(acting), !.user = u,
                             !.read = users[u], !.new = [users[u] EXCEPT !.native = native]])

AdminCreateUser(r, acting, email, role) ==
    /\ Stored(acting)
    /\ users[acting].role \in ADMIN_ROLES
    /\ role # "USER" => users[acting].role = "SUPER_ADMIN"
    /\ UsersOf(email) = {}
    /\ Begin(r, [Idle EXCEPT !.at = "create", !.op = "create", !.actor = Acting(acting),
                             !.new = NewUser(email, role, FALSE, "chosen")])

\* Mutant: any admin manages any user.
ManageableByAll(acting, u) == acting # u

\* _get_manageable_user
Manageable(acting, u) ==
    /\ acting # u
    /\ users[u].role # "USER" => users[acting].role = "SUPER_ADMIN"

AdminUpdateUser(r, acting, u, role) ==
    /\ Stored(acting) /\ Stored(u)
    /\ users[acting].role \in ADMIN_ROLES
    /\ Manageable(acting, u)
    /\ role = "SUPER_ADMIN" => users[acting].role = "SUPER_ADMIN"
    /\ Begin(r, [Idle EXCEPT !.at = "update", !.op = "update", !.actor = Acting(acting), !.user = u,
                             !.read = users[u], !.new = [users[u] EXCEPT !.role = role]])

\* Mutant: the whole row is written back.
UpdatedAll(now, read, new) == new

Column(now, read, new) == IF new # read THEN new ELSE now

\* update_one: the columns that differ from the row as read.
Updated(now, read, new) ==
    [email |-> now.email,
     role |-> Column(now.role, read.role, new.role),
     verified |-> Column(now.verified, read.verified, new.verified),
     password |-> Column(now.password, read.password, new.password),
     native |-> Column(now.native, read.native, new.native)]

Update(r) ==
    LET u == req[r].user IN
    /\ req[r].at = "update"
    /\ users' = IF Stored(u) THEN [users EXCEPT ![u] = Updated(users[u], req[r].read, req[r].new)]
                ELSE users
    /\ Finish(r)
    /\ UNCHANGED <<oauth, trials, links, offered, started, untried, crossed>>

\* Of oneself, by an admin, or through the panel's stricter guard.
DeleteUser(r, acting, u) ==
    /\ Stored(acting) /\ Stored(u)
    /\ acting = u \/ users[acting].role \in ADMIN_ROLES
    /\ Begin(r, [Idle EXCEPT !.at = "delete", !.op = "delete", !.actor = Acting(acting), !.user = u])

AdminDeleteUser(r, acting, u) == DeleteUser(r, acting, u) /\ Manageable(acting, u)

\* Mutant: the links of the user stay.
DeleteUserOnly(r) ==
    /\ req[r].at = "delete"
    /\ users' = [users EXCEPT ![req[r].user] = None]
    /\ Finish(r)
    /\ UNCHANGED <<oauth, trials, links, offered, started, untried, crossed>>

\* ON DELETE CASCADE
Delete(r) ==
    LET u == req[r].user IN
    /\ req[r].at = "delete"
    /\ users' = [users EXCEPT ![u] = None]
    /\ oauth' = {o \in oauth : o[2] # u}
    /\ trials' = trials \ {u}
    /\ links' = [l \in Link |-> IF links[l] # None /\ links[l].user = u THEN None ELSE links[l]]
    /\ Finish(r)
    /\ UNCHANGED <<offered, started, untried, crossed>>

-----------------------------------------------------------------------------

\* The server dies or a statement fails; the client cannot take the sign-up up again.
Abort(r) ==
    /\ req[r].at # "idle"
    /\ untried' = IF req[r].at = "trial" THEN untried \cup {req[r].user} ELSE untried
    /\ Finish(r)
    /\ UNCHANGED <<users, oauth, trials, links, offered, started, crossed>>

auth_router(r) ==
    \/ \E email \in Email : Register(r, email) \/ RequestReset(r, email)
    \/ \E email \in Email, verified \in BOOLEAN : GoogleLogin(r, email, verified)
    \/ \E u \in User : ResendVerification(r, u)
    \/ \E l \in Link : Present(r, l)

users_router(r) ==
    \/ \E email \in Email : CreateUser(r, email)
    \/ \E acting, u \in User, native \in BOOLEAN : UpdateProfile(r, acting, u, native)
    \/ \E acting, u \in User : DeleteUser(r, acting, u)

admin_users(r) ==
    \/ \E acting \in User, email \in Email, role \in RoleEnum : AdminCreateUser(r, acting, email, role)
    \/ \E acting, u \in User, role \in RoleEnum : AdminUpdateUser(r, acting, u, role)
    \/ \E acting, u \in User : AdminDeleteUser(r, acting, u)

\* The plan is put in or taken out of plans by hand, or the server comes back with
\* other settings.
ConfigureTrial ==
    /\ offered' = ~offered
    /\ UNCHANGED <<users, oauth, trials, links, started, untried, crossed, req>>

Next ==
    \/ \E r \in Request :
          \/ auth_router(r) \/ users_router(r) \/ admin_users(r)
          \/ Create(r) \/ GrantTrial(r) \/ LinkGoogle(r)
          \/ Invalidate(r) \/ Issue(r) \/ Use(r)
          \/ Update(r) \/ Delete(r) \/ Abort(r)
    \/ ConfigureTrial

Spec == Init /\ [][Next]_vars

-----------------------------------------------------------------------------
(* Properties *)

(***************************************************************************)
(* repositories/auth.py:46-47: a resend supersedes the previous email.  At *)
(* most one link of a kind is good for a user, unless two requests for one *)
(* overlapped; the next request on its own mends that.                     *)
(***************************************************************************)
OneLinkLives ==
    \A u \in User, kind \in {"verify", "reset"} :
        <<u, kind>> \notin crossed => Cardinality(LiveLinks(u, kind)) <= 1

(***************************************************************************)
(* auth.py:47: a new sign-up gets the trial.  Whoever signed up has it, or *)
(* is about to, unless the request was cut off in between or found no      *)
(* trial to grant (subscription_service.py:41-42).                         *)
(***************************************************************************)
SignedUpHasTrial ==
    \A u \in User :
        Stored(u) =>
            \/ u \in trials
            \/ u \in untried
            \/ \E r \in Request : req[r].at = "trial" /\ req[r].user = u

(***************************************************************************)
(* Links, the profile and the admin write the same row from what each read *)
(* of it.  None takes back what another wrote: a confirmed address stays   *)
(* confirmed, and a password a link has set goes only for one set by       *)
(* another link.                                                           *)
(***************************************************************************)
WritesKept ==
    [][\A u \in User :
          (Stored(u) /\ users'[u] # None) =>
              /\ users[u].verified => users'[u].verified
              /\ users[u].password \in Link => users'[u].password \in Link]_vars

(***************************************************************************)
(* A role is changed by somebody else who is an admin, a privileged one,   *)
(* or one made SUPER_ADMIN, by a SUPER_ADMIN - going by the roles both had *)
(* when the request read them.  Nobody becomes SUPER_ADMIN any other way.  *)
(***************************************************************************)
RolesGuarded ==
    [][\A u \in User :
          (users'[u] # None /\ users'[u].role # (IF Stored(u) THEN users[u].role ELSE "USER")) =>
              \E r \in Request :
                  /\ req[r] # req'[r]
                  /\ req[r].actor # None
                  /\ req[r].actor.id # u
                  /\ req[r].actor.role \in ADMIN_ROLES
                  /\ (users'[u].role = "SUPER_ADMIN" \/ ~Stored(u) \/ req[r].read.role # "USER") =>
                         req[r].actor.role = "SUPER_ADMIN"]_vars
=============================================================================
