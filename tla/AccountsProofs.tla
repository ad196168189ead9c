---------------------------- MODULE AccountsProofs ----------------------------
(***************************************************************************)
(* Proofs about Accounts: its type and its four promises, for any users,   *)
(* addresses, links and number of overlapping requests.                    *)
(***************************************************************************)
EXTENDS Accounts, FiniteSetTheorems, TLAPS

\* What a request carries at each of its steps.
Carries(s) ==
    /\ s.at \in {"create", "trial", "oauth"} => s.new \in UserRow
    /\ s.at = "create" => s.op \in {"register", "google", "create"}
    /\ s.at \in {"trial", "oauth", "invalidate", "issue", "use", "update", "delete"} => s.user \in User
    /\ s.at \in {"use", "update"} => (s.read \in UserRow /\ s.new \in UserRow)
    /\ s.at = "use" => s.link \in Link
    /\ s.at \in {"invalidate", "issue"} => s.kind \in {"verify", "reset"}
    /\ s.at = "create" /\ s.op = "register" => s.kind \in {"verify", "reset"}
    /\ s.at = "trial" /\ s.op # "google" => s.kind \in {"verify", "reset"}

\* An update takes neither a confirmation back nor a password set by a link.
Keeps(s) ==
    s.at \in {"use", "update"} =>
        /\ s.read.verified => s.new.verified
        /\ s.new.password # s.read.password => s.new.password \in Link

\* Who may make an account with a role, or change one.
Allowed(s) ==
    /\ (s.at = "create" /\ s.new.role # "USER") => (s.actor \in Actor /\ s.actor.role = "SUPER_ADMIN")
    /\ (s.at \in {"use", "update"} /\ s.new.role # s.read.role) =>
           /\ s.actor \in Actor
           /\ s.actor.id # s.user
           /\ s.actor.role \in ADMIN_ROLES
           /\ (s.new.role = "SUPER_ADMIN" \/ s.read.role # "USER") => s.actor.role = "SUPER_ADMIN"

Sound(s) == s \in RequestState /\ Carries(s) /\ Keeps(s) /\ Allowed(s)

Issuing(r, u, kind) == req[r].at = "issue" /\ req[r].user = u /\ req[r].kind = kind

\* One link is good, and none while a new one is on its way.
Single(u, kind) ==
    /\ \A k, l \in LiveLinks(u, kind) : k = l
    /\ \A r \in Request :
           Issuing(r, u, kind) =>
               /\ LiveLinks(u, kind) = {}
               /\ \A s \in Request : Issuing(s, u, kind) => s = r

LinksSingle ==
    \A u \in User, kind \in {"verify", "reset"} : <<u, kind>> \notin crossed => Single(u, kind)

IInv ==
    /\ TypeOK
    /\ \A r \in Request : Sound(req[r])
    /\ SignedUpHasTrial
    /\ LinksSingle

USE AccountsAssumption

LEMMA IdleSound == Sound(Idle)
BY DEF Sound, Idle, RequestState, Carries, Keeps, Allowed

\* A request moves on alone, to a state it can be in.
LEMMA Moves ==
    ASSUME IInv, NEW r \in Request, NEW state, Sound(state), req' = [req EXCEPT ![r] = state]
    PROVE  /\ req' \in [Request -> RequestState]
           /\ req'[r] = state
           /\ \A s \in Request : Sound(req'[s])
           /\ \A s \in Request : s # r => req'[s] = req[s]
BY DEF IInv, TypeOK, Sound

LEMMA InitInv == Init => IInv
<1> SUFFICES ASSUME Init PROVE IInv
    OBVIOUS
<1>1. \A r \in Request : req[r] = Idle
    BY DEF Init
<1>2. TypeOK
  <2>1. req \in [Request -> RequestState]
      BY IdleSound, <1>1 DEF Init, Sound
  <2>2. Constraints
      BY DEF Init, Stored, Constraints
  <2>3. QED
      BY <2>1, <2>2 DEF Init, TypeOK
<1>3. LinksSingle
  <2>1. \A u \in User, kind \in {"verify", "reset"} : [kind |-> kind, user |-> u, used |-> FALSE] \in LinkRow
      BY DEF LinkRow
  <2>2. \A u \in User, kind \in {"verify", "reset"} : LiveLinks(u, kind) = {}
      BY <2>1 DEF Init, LiveLinks
  <2>3. QED
      BY <1>1, <2>2 DEF LinksSingle, Single, Issuing, Idle
<1>4. SignedUpHasTrial
    BY DEF Init, SignedUpHasTrial, Stored
<1>5. QED
    BY <1>1, <1>2, <1>3, <1>4, IdleSound DEF IInv

LEMMA LiveRow ==
    ASSUME NEW u \in User, NEW kind \in {"verify", "reset"}, NEW l \in LiveLinks(u, kind)
    PROVE  l \in Link /\ links[l] \in LinkRow /\ links[l] # None /\ links[l].user = u
<1>1. l \in Link /\ links[l] = [kind |-> kind, user |-> u, used |-> FALSE]
    BY DEF LiveLinks
<1>2. [kind |-> kind, user |-> u, used |-> FALSE] \in LinkRow
    BY DEF LinkRow
<1>3. links[l] \in LinkRow /\ links[l].user = u
    BY <1>1, <1>2
<1>4. links[l] # None
    BY <1>3
<1>5. QED
    BY <1>1, <1>3, <1>4

\* Links stay single when none is issued and no request is about to.
LEMMA StillSingle ==
    ASSUME IInv, NEW r \in Request, NEW state, Sound(state), state.at # "issue",
           req' = [req EXCEPT ![r] = state], crossed' = crossed,
           \A u \in User, kind \in {"verify", "reset"} : LiveLinks(u, kind)' \subseteq LiveLinks(u, kind)
    PROVE  LinksSingle'
<1> SUFFICES ASSUME NEW u \in User, NEW kind \in {"verify", "reset"}, <<u, kind>> \notin crossed
             PROVE  Single(u, kind)'
    BY DEF LinksSingle
<1>1. \A s \in Request : Issuing(s, u, kind)' => Issuing(s, u, kind)
    BY Moves DEF Issuing
<1>2. Single(u, kind)
    BY DEF IInv, LinksSingle
<1>3. QED
    BY <1>1, <1>2 DEF Single

\* Who has signed up is still accounted for when the request was not at the trial.
LEMMA StillTried ==
    ASSUME IInv, NEW r \in Request, NEW state, Sound(state), req[r].at # "trial",
           req' = [req EXCEPT ![r] = state], trials \subseteq trials', untried \subseteq untried',
           \A u \in User : users'[u] # None => Stored(u)
    PROVE  SignedUpHasTrial'
<1> SUFFICES ASSUME NEW u \in User, users'[u] # None, u \notin trials', u \notin untried'
             PROVE  \E s \in Request : req'[s].at = "trial" /\ req'[s].user = u
    BY DEF SignedUpHasTrial, Stored
<1>1. PICK s \in Request : req[s].at = "trial" /\ req[s].user = u
    BY DEF IInv, SignedUpHasTrial
<1>2. QED
    BY <1>1, Moves

LEMMA BeginStep ==
    ASSUME IInv, NEW r \in Request, NEW state, Begin(r, state), Sound(state), state.at # "issue"
    PROVE  IInv'
<1>1. /\ req[r].at = "idle" /\ req' = [req EXCEPT ![r] = state]
      /\ UNCHANGED <<users, oauth, trials, links, offered, untried, crossed>>
    BY DEF Begin, Goto
<1>2. TypeOK'
  <2>1. Constraints'
      BY <1>1 DEF IInv, TypeOK, Constraints, Stored
  <2>2. req' \in [Request -> RequestState]
      BY <1>1, Moves
  <2>3. MaxStarted \in Nat
      OBVIOUS
  <2>4. started' \in 0..MaxStarted
      BY <2>3 DEF Begin, IInv, TypeOK
  <2>5. QED
      BY <1>1, <2>1, <2>2, <2>4 DEF IInv, TypeOK
<1>3. LinksSingle'
  <2>1. \A u \in User, kind \in {"verify", "reset"} : LiveLinks(u, kind)' \subseteq LiveLinks(u, kind)
      BY <1>1 DEF LiveLinks
  <2>2. QED
      BY <1>1, <2>1, StillSingle
<1>4. SignedUpHasTrial'
    BY <1>1, StillTried DEF Stored
<1>5. QED
    BY <1>1, <1>2, <1>3, <1>4, Moves DEF IInv

\* What the requests of sign-up, links, profiles and the panel begin with.
LEMMA BeginsSound ==
    ASSUME IInv, NEW r \in Request, auth_router(r) \/ users_router(r) \/ admin_users(r)
    PROVE  \E state : Begin(r, state) /\ Sound(state) /\ state.at # "issue"
<1> USE DEF Sound, Carries, Keeps, Allowed, Idle
<1> DEFINE Begins == \E state : Begin(r, state) /\ Sound(state) /\ state.at # "issue"
<1>0. /\ \A u \in User : Stored(u) => users[u] \in UserRow
      /\ \A l \in Link : links[l] # None => (links[l] \in LinkRow /\ Stored(links[l].user))
    BY DEF IInv, TypeOK, Constraints, Stored
<1>1. ASSUME NEW email \in Email, NEW role \in RoleEnum, NEW verified \in BOOLEAN,
             NEW password \in {"chosen", None}
      PROVE  NewUser(email, role, verified, password) \in UserRow
    BY DEF NewUser, UserRow, RoleEnum
<1>2. "USER" \in RoleEnum /\ Idle \in RequestState
    BY IdleSound DEF RoleEnum
<1>3. ASSUME NEW email \in Email, Register(r, email) PROVE Begins
  <2> DEFINE state == [Idle EXCEPT !.at = "create", !.op = "register", !.kind = "verify",
                                   !.new = NewUser(email, "USER", FALSE, "chosen")]
  <2>1. NewUser(email, "USER", FALSE, "chosen") \in UserRow
      BY <1>1, <1>2
  <2>2. Sound(state) /\ state.at # "issue"
      BY <2>1 DEF RequestState, NewUser
  <2>3. Begin(r, state)
      BY <1>3 DEF Register
  <2>4. QED
      BY <2>2, <2>3
<1>4. ASSUME NEW u \in User, NEW kind \in {"verify", "reset"},
             Begin(r, [Idle EXCEPT !.at = "invalidate", !.op = "link", !.kind = kind, !.user = u])
      PROVE  Begins
  <2> DEFINE state == [Idle EXCEPT !.at = "invalidate", !.op = "link", !.kind = kind, !.user = u]
  <2>1. Sound(state) /\ state.at # "issue"
      BY DEF RequestState
  <2>2. QED
      BY <1>4, <2>1
<1>5. ASSUME NEW email \in Email, NEW verified \in BOOLEAN, GoogleLogin(r, email, verified)
      PROVE  Begins
  <2>1. CASE UsersOf(email) = {}
    <3> DEFINE state == [Idle EXCEPT !.at = "create", !.op = "google",
                                     !.new = NewUser(email, "USER", verified, None)]
    <3>1. NewUser(email, "USER", verified, None) \in UserRow
        BY <1>1, <1>2
    <3>2. Sound(state) /\ state.at # "issue"
        BY <3>1 DEF RequestState, NewUser
    <3>3. QED
        BY <1>5, <2>1, <3>2 DEF GoogleLogin
  <2>2. CASE UsersOf(email) # {}
    <3>1. PICK u \in UsersOf(email) :
             Begin(r, [Idle EXCEPT !.at = "oauth", !.op = "google", !.user = u, !.new = users[u]])
        BY <1>5, <2>2 DEF GoogleLogin
    <3> DEFINE state == [Idle EXCEPT !.at = "oauth", !.op = "google", !.user = u, !.new = users[u]]
    <3>2. u \in User /\ users[u] \in UserRow
        BY <1>0 DEF UsersOf
    <3>3. Sound(state) /\ state.at # "issue"
        BY <3>2 DEF RequestState
    <3>4. QED
        BY <3>1, <3>3
  <2>3. QED
      BY <2>1, <2>2
<1>6. ASSUME NEW l \in Link, Present(r, l) PROVE Begins
  <2> DEFINE u == links[l].user
             state == [Idle EXCEPT !.at = "use", !.op = "present", !.link = l, !.user = u,
                                   !.kind = links[l].kind, !.read = users[u], !.new = Consumed(l)]
  <2>1. u \in User /\ users[u] \in UserRow /\ links[l].kind \in {"verify", "reset"}
      BY <1>0, <1>6 DEF Present, LinkRow
  <2>2. /\ Consumed(l) \in UserRow /\ Consumed(l).role = users[u].role
        /\ users[u].verified => Consumed(l).verified
        /\ Consumed(l).password # users[u].password => Consumed(l).password \in Link
      BY <2>1 DEF Consumed, UserRow
  <2>3. Sound(state) /\ state.at # "issue"
      BY <2>1, <2>2 DEF RequestState
  <2>4. QED
      BY <1>6, <2>3 DEF Present
<1>7. ASSUME NEW email \in Email, CreateUser(r, email) PROVE Begins
  <2> DEFINE state == [Idle EXCEPT !.at = "create", !.op = "create",
                                   !.new = NewUser(email, "USER", FALSE, "chosen")]
  <2>1. NewUser(email, "USER", FALSE, "chosen") \in UserRow
      BY <1>1, <1>2
  <2>2. Sound(state) /\ state.at # "issue"
      BY <2>1 DEF RequestState, NewUser
  <2>3. QED
      BY <1>7, <2>2 DEF CreateUser
<1>8. ASSUME NEW acting \in User, Stored(acting)
      PROVE  Acting(acting) \in Actor /\ Acting(acting).id = acting /\ Acting(acting).role = users[acting].role
    BY <1>0, <1>8 DEF Acting, Actor, UserRow
<1>9. ASSUME NEW acting \in User, NEW u \in User, NEW native \in BOOLEAN,
             UpdateProfile(r, acting, u, native)
      PROVE  Begins
  <2> DEFINE state == [Idle EXCEPT !.at = "update", !.op = "update", !.actor = Acting(acting), !.user = u,
                                   !.read = users[u], !.new = [users[u] EXCEPT !.native = native]]
  <2>1. Acting(acting) \in Actor /\ users[u] \in UserRow
      BY <1>0, <1>8, <1>9 DEF UpdateProfile
  <2>2. Sound(state) /\ state.at # "issue"
      BY <2>1 DEF RequestState, UserRow
  <2>3. QED
      BY <1>9, <2>2 DEF UpdateProfile
<1>10. ASSUME NEW acting \in User, NEW u \in User, NEW role \in RoleEnum,
              AdminUpdateUser(r, acting, u, role)
       PROVE  Begins
  <2> DEFINE state == [Idle EXCEPT !.at = "update", !.op = "update", !.actor = Acting(acting), !.user = u,
                                   !.read = users[u], !.new = [users[u] EXCEPT !.role = role]]
  <2>1. /\ Acting(acting) \in Actor /\ Acting(acting).id = acting
        /\ Acting(acting).role = users[acting].role /\ users[u] \in UserRow
      BY <1>0, <1>8, <1>10 DEF AdminUpdateUser
  <2>2. /\ acting # u /\ Acting(acting).role \in ADMIN_ROLES
        /\ (role = "SUPER_ADMIN" \/ users[u].role # "USER") => Acting(acting).role = "SUPER_ADMIN"
      BY <1>10, <2>1 DEF AdminUpdateUser, Manageable
  <2>3. Sound(state) /\ state.at # "issue"
      BY <2>1, <2>2 DEF RequestState, UserRow
  <2>4. QED
      BY <1>10, <2>3 DEF AdminUpdateUser
<1>11. ASSUME NEW acting \in User, NEW email \in Email, NEW role \in RoleEnum,
              AdminCreateUser(r, acting, email, role)
       PROVE  Begins
  <2> DEFINE state == [Idle EXCEPT !.at = "create", !.op = "create", !.actor = Acting(acting),
                                   !.new = NewUser(email, role, FALSE, "chosen")]
  <2>1. NewUser(email, role, FALSE, "chosen") \in UserRow /\ NewUser(email, role, FALSE, "chosen").role = role
      BY <1>1 DEF NewUser
  <2>2. /\ Acting(acting) \in Actor
        /\ role # "USER" => Acting(acting).role = "SUPER_ADMIN"
      BY <1>8, <1>11 DEF AdminCreateUser
  <2>3. Sound(state) /\ state.at # "issue"
      BY <2>1, <2>2 DEF RequestState
  <2>4. QED
      BY <1>11, <2>3 DEF AdminCreateUser
<1>12. ASSUME NEW acting \in User, NEW u \in User, DeleteUser(r, acting, u) PROVE Begins
  <2> DEFINE state == [Idle EXCEPT !.at = "delete", !.op = "delete", !.actor = Acting(acting), !.user = u]
  <2>1. Acting(acting) \in Actor
      BY <1>8, <1>12 DEF DeleteUser
  <2>2. Sound(state) /\ state.at # "issue"
      BY <2>1 DEF RequestState
  <2>3. QED
      BY <1>12, <2>2 DEF DeleteUser
<1>13. ASSUME NEW u \in User, ResendVerification(r, u) PROVE Begins
    BY <1>4, <1>13 DEF ResendVerification
<1>14. ASSUME NEW email \in Email, RequestReset(r, email) PROVE Begins
    BY <1>4, <1>14 DEF RequestReset, UsersOf
<1>15. QED
    BY <1>3, <1>5, <1>6, <1>7, <1>9, <1>10, <1>11, <1>12, <1>13, <1>14
    DEF auth_router, users_router, admin_users, AdminDeleteUser

LEMMA GrantTrialStep == ASSUME IInv, NEW r \in Request, GrantTrial(r) PROVE IInv'
<1> DEFINE u == req[r].user
           state == IF Stored(u) THEN [req[r] EXCEPT !.at = IF req[r].op = "google" THEN "oauth" ELSE "invalidate"]
                    ELSE Idle
<1>1. /\ req[r].at = "trial" /\ req' = [req EXCEPT ![r] = state]
      /\ trials' = IF Stored(u) /\ offered THEN trials \cup {u} ELSE trials
      /\ untried' = IF Stored(u) /\ ~offered THEN untried \cup {u} ELSE untried
      /\ UNCHANGED <<users, oauth, links, offered, started, crossed>>
    BY DEF GrantTrial, Goto, Finish
<1>2. Sound(req[r]) /\ req[r] \in RequestState /\ u \in User
    BY <1>1 DEF IInv, Sound, Carries
<1>3. Sound(state) /\ state.at # "issue"
  <2>1. CASE Stored(u)
      BY <1>1, <1>2, <2>1 DEF Sound, RequestState, Carries, Keeps, Allowed
  <2>2. CASE ~Stored(u)
      BY <2>2, IdleSound DEF Idle
  <2>3. QED
      BY <2>1, <2>2
<1>4. TypeOK'
  <2>1. Constraints'
      BY <1>1 DEF IInv, TypeOK, Constraints, Stored
  <2>2. req' \in [Request -> RequestState]
      BY <1>1, <1>3, Moves
  <2>3. QED
      BY <1>1, <1>2, <2>1, <2>2 DEF IInv, TypeOK
<1>5. LinksSingle'
  <2>1. \A v \in User, kind \in {"verify", "reset"} : LiveLinks(v, kind)' \subseteq LiveLinks(v, kind)
      BY <1>1 DEF LiveLinks
  <2>2. QED
      BY <1>1, <1>3, <2>1, StillSingle
<1>6. SignedUpHasTrial'
  <2> SUFFICES ASSUME NEW v \in User, users[v] # None, v \notin trials', v \notin untried'
               PROVE  \E s \in Request : req'[s].at = "trial" /\ req'[s].user = v
      BY <1>1 DEF SignedUpHasTrial, Stored
  <2>1. PICK s \in Request : req[s].at = "trial" /\ req[s].user = v
      BY <1>1 DEF IInv, SignedUpHasTrial, Stored
  <2>2. s # r
      BY <1>1, <2>1 DEF Stored
  <2>3. QED
      BY <1>1, <1>3, <2>1, <2>2, Moves
<1>7. QED
    BY <1>1, <1>3, <1>4, <1>5, <1>6, Moves DEF IInv

\* A step that is not about the trial, changes no user and issues no link.
LEMMA SmallStep ==
    ASSUME IInv, NEW r \in Request, NEW state, Sound(state), state.at # "issue",
           req[r].at # "trial", req' = [req EXCEPT ![r] = state],
           links' \in [Link -> LinkRow \cup {None}],
           \A l \in Link : links'[l] = links[l] \/ (links[l] # None /\ links'[l] = [links[l] EXCEPT !.used = TRUE]),
           UNCHANGED <<users, oauth, trials, offered, started, untried, crossed>>
    PROVE  IInv'
<1>1. \A l \in Link : links[l] # None => links[l] \in LinkRow
    BY DEF IInv, TypeOK
<1>2. \A l \in Link : links'[l] # None => (links[l] # None /\ links'[l].user = links[l].user)
    BY <1>1 DEF LinkRow
<1>3. TypeOK'
  <2>1. Constraints'
      BY <1>2 DEF IInv, TypeOK, Constraints, Stored
  <2>2. req' \in [Request -> RequestState]
      BY Moves
  <2>3. QED
      BY <2>1, <2>2 DEF IInv, TypeOK
<1>4. LinksSingle'
  <2>1. \A v \in User, kind \in {"verify", "reset"} : LiveLinks(v, kind)' \subseteq LiveLinks(v, kind)
    <3>1. \A l \in Link : links'[l] = links[l] \/ links'[l].used = TRUE
        BY <1>1 DEF LinkRow
    <3>2. SUFFICES ASSUME NEW v \in User, NEW kind \in {"verify", "reset"}, NEW l \in LiveLinks(v, kind)'
                   PROVE  l \in LiveLinks(v, kind)
        OBVIOUS
    <3>3. l \in Link /\ links'[l] = [kind |-> kind, user |-> v, used |-> FALSE]
        BY DEF LiveLinks
    <3>4. links'[l].used = FALSE
        BY <3>3
    <3>5. QED
        BY <3>1, <3>3, <3>4 DEF LiveLinks
  <2>2. QED
      BY <2>1, StillSingle
<1>5. SignedUpHasTrial'
    BY StillTried DEF Stored
<1>6. QED
    BY <1>3, <1>4, <1>5, Moves DEF IInv

LEMMA LinkGoogleStep == ASSUME IInv, NEW r \in Request, LinkGoogle(r) PROVE IInv'
<1> DEFINE email == req[r].new.email
<1>1. /\ req[r].at = "oauth" /\ req' = [req EXCEPT ![r] = Idle]
      /\ oauth' = IF Stored(req[r].user) /\ \A o \in oauth : o[1] # email
                  THEN oauth \cup {<<email, req[r].user>>} ELSE oauth
      /\ UNCHANGED <<users, trials, links, offered, started, untried, crossed>>
    BY DEF LinkGoogle, Goto, Finish
<1>2. req[r].user \in User /\ email \in Email /\ Idle.at = "idle"
    BY <1>1 DEF IInv, Sound, Carries, UserRow, Idle
<1>3. TypeOK'
  <2>1. oauth' \in SUBSET (Email \X User)
      BY <1>1, <1>2 DEF IInv, TypeOK
  <2>2. \A o \in oauth' : Stored(o[2]) /\ \A p \in oauth' : p[1] = o[1] => p = o
      BY <1>1 DEF IInv, TypeOK, Constraints
  <2>3. Constraints'
      BY <1>1, <2>2 DEF IInv, TypeOK, Constraints, Stored
  <2>4. req' \in [Request -> RequestState]
      BY <1>1, IdleSound, Moves
  <2>5. QED
      BY <1>1, <2>1, <2>3, <2>4 DEF IInv, TypeOK
<1>4. LinksSingle'
  <2>1. \A v \in User, kind \in {"verify", "reset"} : LiveLinks(v, kind)' \subseteq LiveLinks(v, kind)
      BY <1>1 DEF LiveLinks
  <2>2. QED
      BY <1>1, <1>2, <2>1, IdleSound, StillSingle
<1>5. SignedUpHasTrial'
    BY <1>1, IdleSound, StillTried DEF Stored
<1>6. QED
    BY <1>1, <1>3, <1>4, <1>5, IdleSound, Moves DEF IInv

LEMMA UseStep == ASSUME IInv, NEW r \in Request, Use(r) PROVE IInv'
<1>1. /\ req[r].at = "use"
      /\ UNCHANGED <<users, oauth, trials, offered, started, untried, crossed>>
    BY DEF Use
<1>2. Sound(req[r]) /\ req[r].link \in Link /\ Idle.at = "idle"
    BY <1>1 DEF IInv, Sound, Carries, Idle
<1>3. \E state : Sound(state) /\ state.at # "issue" /\ req' = [req EXCEPT ![r] = state]
  <2>1. \/ req' = [req EXCEPT ![r] = Idle]
        \/ req' = [req EXCEPT ![r] = [req[r] EXCEPT !.at = "update"]]
      BY DEF Use, Finish, Goto
  <2>2. Sound([req[r] EXCEPT !.at = "update"]) /\ [req[r] EXCEPT !.at = "update"].at = "update"
      BY <1>1, <1>2 DEF Sound, RequestState, Carries, Keeps, Allowed
  <2>3. QED
      BY <1>2, <2>1, <2>2, IdleSound
<1>4. /\ links' \in [Link -> LinkRow \cup {None}]
      /\ \A l \in Link : links'[l] = links[l] \/ (links[l] # None /\ links'[l] = [links[l] EXCEPT !.used = TRUE])
  <2>1. CASE UNCHANGED links
      BY <2>1 DEF IInv, TypeOK
  <2>2. CASE links[req[r].link] # None /\ links' = [links EXCEPT ![req[r].link].used = TRUE]
    <3>1. PICK l \in Link : l = req[r].link
        BY <1>2
    <3>2. links[l] \in LinkRow /\ links \in [Link -> LinkRow \cup {None}]
        BY <2>2, <3>1 DEF IInv, TypeOK
    <3>3. [links[l] EXCEPT !.used = TRUE] \in LinkRow
        BY <3>2 DEF LinkRow
    <3>4. links' = [links EXCEPT ![l] = [links[l] EXCEPT !.used = TRUE]]
        BY <2>2, <3>1
    <3> DEFINE row == [links[l] EXCEPT !.used = TRUE]
    <3>5. row \in LinkRow /\ links' = [links EXCEPT ![l] = row]
        BY <3>3, <3>4
    <3> HIDE DEF row
    <3>6. links' \in [Link -> LinkRow \cup {None}]
        BY <3>2, <3>5
    <3>7. links'[l] = row /\ \A i \in Link : i # l => links'[i] = links[i]
        BY <3>2, <3>5
    <3>8. links[l] # None
        BY <3>2
    <3>9. QED
        BY <3>6, <3>7, <3>8 DEF row
  <2>3. QED
      BY <2>1, <2>2 DEF Use
<1>5. QED
    BY <1>1, <1>3, <1>4, SmallStep

LEMMA AbortStep == ASSUME IInv, NEW r \in Request, Abort(r) PROVE IInv'
<1>1. /\ req' = [req EXCEPT ![r] = Idle]
      /\ untried' = IF req[r].at = "trial" THEN untried \cup {req[r].user} ELSE untried
      /\ UNCHANGED <<users, oauth, trials, links, offered, started, crossed>>
    BY DEF Abort, Finish, Goto
<1>2. Idle.at = "idle" /\ (req[r].at = "trial" => req[r].user \in User)
    BY DEF Idle, IInv, Sound, Carries
<1>3. TypeOK'
  <2>1. Constraints'
      BY <1>1 DEF IInv, TypeOK, Constraints, Stored
  <2>2. req' \in [Request -> RequestState]
      BY <1>1, IdleSound, Moves
  <2>3. QED
      BY <1>1, <1>2, <2>1, <2>2 DEF IInv, TypeOK
<1>4. LinksSingle'
  <2>1. \A v \in User, kind \in {"verify", "reset"} : LiveLinks(v, kind)' \subseteq LiveLinks(v, kind)
      BY <1>1 DEF LiveLinks
  <2>2. QED
      BY <1>1, <1>2, <2>1, IdleSound, StillSingle
<1>5. SignedUpHasTrial'
  <2> SUFFICES ASSUME NEW v \in User, users[v] # None, v \notin trials, v \notin untried'
               PROVE  \E s \in Request : req'[s].at = "trial" /\ req'[s].user = v
      BY <1>1 DEF SignedUpHasTrial, Stored
  <2>1. PICK s \in Request : req[s].at = "trial" /\ req[s].user = v
      BY <1>1 DEF IInv, SignedUpHasTrial, Stored
  <2>2. s # r
      BY <1>1, <2>1
  <2>3. QED
      BY <1>1, <2>1, <2>2, IdleSound, Moves
<1>6. QED
    BY <1>1, <1>3, <1>4, <1>5, IdleSound, Moves DEF IInv

\* The INSERT, of a user no request knows of.
LEMMA CreateStep == ASSUME IInv, NEW r \in Request, Create(r) PROVE IInv'
<1> DEFINE new == req[r].new
           next == AfterCreate(req[r])
<1>1. req[r].at = "create" /\ UNCHANGED <<oauth, trials, links, offered, started>>
    BY DEF Create
<1>2. Sound(req[r]) /\ new \in UserRow /\ req[r].op \in {"register", "google", "create"} /\ Idle.at = "idle"
    BY <1>1 DEF IInv, Sound, Carries, Idle
<1>3. CASE UsersOf(new.email) # {}
  <2>1. req' = [req EXCEPT ![r] = Idle] /\ UNCHANGED <<users, untried, crossed>>
      BY <1>3 DEF Create, Finish, Goto
  <2>2. links' \in [Link -> LinkRow \cup {None}] /\ \A l \in Link : links'[l] = links[l]
      BY <1>1 DEF IInv, TypeOK
  <2>3. QED
      BY <1>1, <1>2, <2>1, <2>2, IdleSound, SmallStep
<1>4. CASE UsersOf(new.email) = {}
  <2> DEFINE u0 == CHOOSE u \in User : FreshUser(u)
  <2>1. \E u \in User : FreshUser(u)
      BY <1>4 DEF Create
  <2>2. u0 \in User /\ FreshUser(u0)
      BY <2>1
  <2>3. PICK u \in User : u = u0
      BY <2>2
  <2>4. FreshUser(u)
      BY <2>2, <2>3
  <2>5. /\ users' = [users EXCEPT ![u] = new]
        /\ untried' = IF req[r].op = "create" THEN untried \cup {u} ELSE untried \ {u}
        /\ crossed' = {c \in crossed : c[1] # u}
        /\ req' = [req EXCEPT ![r] = IF next = "idle" THEN Idle ELSE [req[r] EXCEPT !.at = next, !.user = u]]
      BY <1>4, <2>3 DEF Create, Finish, Goto
  <2> DEFINE state == IF next = "idle" THEN Idle ELSE [req[r] EXCEPT !.at = next, !.user = u]
  <2> HIDE DEF u0
  <2>6. /\ Sound(state) /\ state.at # "issue"
        /\ req[r].op # "create" => (state.at = "trial" /\ state.user = u)
    <3>1. CASE req[r].op = "create"
        BY <3>1, <1>2, IdleSound DEF AfterCreate
    <3>2. CASE req[r].op # "create"
      <4>1. state = [req[r] EXCEPT !.at = "trial", !.user = u]
          BY <1>2, <3>2 DEF AfterCreate
      <4>2. QED
          BY <1>1, <1>2, <3>2, <4>1 DEF Sound, RequestState, Carries, Keeps, Allowed
    <3>3. QED
        BY <3>1, <3>2
  <2> HIDE DEF state
  <2>7. req' = [req EXCEPT ![r] = state]
      BY <2>5 DEF state
  <2>8. \A l \in Link : links[l] # None => (links[l] \in LinkRow /\ links[l].user # u)
      BY <2>4 DEF FreshUser, IInv, TypeOK, Constraints
  <2>9. TypeOK'
    <3>1. \A v, w \in User : (users'[v] # None /\ users'[w] # None /\ users'[v].email = users'[w].email) => v = w
        BY <1>4, <2>5 DEF IInv, TypeOK, Constraints, UsersOf, Stored
    <3>2. \A v \in User : v # u /\ Stored(v) => users'[v] # None
        BY <2>5 DEF IInv, TypeOK, Stored
    <3>3. \A o \in oauth : o[2] \in User /\ o[2] # u
        BY <2>4 DEF FreshUser, IInv, TypeOK, Constraints
    <3>4. Constraints'
      <4>1. \A o \in oauth : users'[o[2]] # None /\ \A p \in oauth : p[1] = o[1] => p = o
          BY <3>2, <3>3 DEF IInv, TypeOK, Constraints
      <4>2. \A v \in trials : users'[v] # None
          BY <2>4, <3>2 DEF FreshUser, IInv, TypeOK, Constraints
      <4>3. \A l \in Link : links[l] # None => users'[links[l].user] # None
          BY <2>8, <3>2 DEF IInv, TypeOK, Constraints, LinkRow
      <4>4. QED
          BY <1>1, <3>1, <4>1, <4>2, <4>3 DEF Constraints, Stored
    <3>5. req' \in [Request -> RequestState]
        BY <2>6, <2>7, Moves
    <3>6. users' \in [User -> UserRow \cup {None}]
        BY <1>2, <2>5 DEF IInv, TypeOK
    <3>7. untried' \in SUBSET User /\ crossed' \in SUBSET (User \X {"verify", "reset"})
        BY <2>5 DEF IInv, TypeOK
    <3>8. QED
        BY <1>1, <3>4, <3>5, <3>6, <3>7 DEF IInv, TypeOK
  <2>10. LinksSingle'
    <3> SUFFICES ASSUME NEW v \in User, NEW kind \in {"verify", "reset"}, <<v, kind>> \notin crossed'
                 PROVE  Single(v, kind)'
        BY DEF LinksSingle
    <3>1. LiveLinks(v, kind)' = LiveLinks(v, kind)
        BY <1>1 DEF LiveLinks
    <3>2. \A s \in Request : Issuing(s, v, kind)' => (Issuing(s, v, kind) /\ v # u)
        BY <2>4, <2>6, <2>7, Moves DEF Issuing, FreshUser
    <3>3. v = u => LiveLinks(v, kind) = {}
        BY <2>8, LiveRow
    <3>4. CASE v = u
        BY <3>1, <3>2, <3>3, <3>4 DEF Single
    <3>5. CASE v # u
      <4>1. <<v, kind>> \notin crossed
          BY <2>5, <3>5
      <4>2. Single(v, kind)
          BY <4>1 DEF IInv, LinksSingle
      <4>3. QED
          BY <3>1, <3>2, <4>2 DEF Single
    <3>6. QED
        BY <3>4, <3>5
  <2>11. SignedUpHasTrial'
    <3> SUFFICES ASSUME NEW v \in User, users'[v] # None, v \notin trials, v \notin untried'
                 PROVE  \E s \in Request : req'[s].at = "trial" /\ req'[s].user = v
        BY <1>1 DEF SignedUpHasTrial, Stored
    <3>1. CASE v = u
        BY <2>5, <2>6, <2>7, <3>1, Moves
    <3>2. CASE v # u
      <4>1. users[v] # None /\ v \notin untried
          BY <2>5, <3>2 DEF IInv, TypeOK
      <4>2. PICK s \in Request : req[s].at = "trial" /\ req[s].user = v
          BY <4>1 DEF IInv, SignedUpHasTrial, Stored
      <4>3. s # r
          BY <1>1, <4>2
      <4>4. QED
          BY <2>6, <2>7, <4>2, <4>3, Moves
    <3>3. QED
        BY <3>1, <3>2
  <2>12. QED
      BY <2>6, <2>7, <2>9, <2>10, <2>11, Moves DEF IInv
<1>5. QED
    BY <1>3, <1>4

LEMMA InvalidateStep == ASSUME IInv, NEW r \in Request, Invalidate(r) PROVE IInv'
<1>1. /\ req[r].at = "invalidate"
      /\ req' = [req EXCEPT ![r] = [req[r] EXCEPT !.at = "issue"]]
      /\ UNCHANGED <<users, oauth, trials, offered, started, untried>>
    BY DEF Invalidate, Goto
<1>2. Sound(req[r]) /\ req[r].user \in User /\ req[r].kind \in {"verify", "reset"}
    BY <1>1 DEF IInv, Sound, Carries
<1>3. PICK u \in User, kind \in {"verify", "reset"} : u = req[r].user /\ kind = req[r].kind
    BY <1>2
<1> DEFINE state == [req[r] EXCEPT !.at = "issue"]
<1>4. Sound(state) /\ state.at = "issue" /\ state.user = u /\ state.kind = kind
    BY <1>1, <1>2, <1>3 DEF Sound, RequestState, Carries, Keeps, Allowed
<1>5. links' = [l \in Link |-> IF l \in LiveLinks(u, kind) THEN [links[l] EXCEPT !.used = TRUE] ELSE links[l]]
    BY <1>3 DEF Invalidate
<1>6. /\ crossed' \subseteq crossed \cup {<<u, kind>>}
      /\ \A c \in crossed : c # <<u, kind>> => c \in crossed'
      /\ <<u, kind>> \notin crossed' => \A s \in Request : ~Issuing(s, u, kind)
    BY <1>3 DEF Invalidate, Issuing
<1> HIDE DEF state
<1>7. req' = [req EXCEPT ![r] = state]
    BY <1>1 DEF state
<1>8. \A l \in Link : l \in LiveLinks(u, kind) => links[l] \in LinkRow
    BY <1>3, LiveRow
<1>9. \A l \in Link : links[l] # None => links[l] \in LinkRow
    BY DEF IInv, TypeOK
<1>10. /\ links' \in [Link -> LinkRow \cup {None}]
       /\ \A l \in Link : links'[l] # None => (links[l] # None /\ links'[l].user = links[l].user)
       /\ \A l \in Link : links'[l] = links[l] \/ links'[l].used = TRUE
       /\ \A l \in LiveLinks(u, kind) : links'[l].used = TRUE
  <2>1. \A l \in Link : links[l] \in LinkRow =>
           /\ [links[l] EXCEPT !.used = TRUE] \in LinkRow
           /\ [links[l] EXCEPT !.used = TRUE].user = links[l].user
           /\ [links[l] EXCEPT !.used = TRUE].used = TRUE
      BY DEF LinkRow
  <2>2. LiveLinks(u, kind) \subseteq Link
      BY DEF LiveLinks
  <2>3. \A l \in Link : links[l] \in LinkRow \cup {None}
      BY DEF IInv, TypeOK
  <2>4. \A l \in Link : links[l] \in LinkRow => links[l] # None
      OBVIOUS
  <2>5. QED
      BY <1>5, <1>8, <2>1, <2>2, <2>3, <2>4
<1>11. TypeOK'
  <2>1. Constraints'
      BY <1>1, <1>10 DEF IInv, TypeOK, Constraints, Stored
  <2>2. req' \in [Request -> RequestState]
      BY <1>4, <1>7, Moves
  <2>3. crossed' \in SUBSET (User \X {"verify", "reset"})
      BY <1>6 DEF IInv, TypeOK
  <2>4. QED
      BY <1>1, <1>10, <2>1, <2>2, <2>3 DEF IInv, TypeOK
<1>12. LinksSingle'
  <2> SUFFICES ASSUME NEW v \in User, NEW k \in {"verify", "reset"}, <<v, k>> \notin crossed'
               PROVE  Single(v, k)'
      BY DEF LinksSingle
  <2>1. \A l \in Link : l \in LiveLinks(v, k)' => (l \in LiveLinks(v, k) /\ l \notin LiveLinks(u, kind))
    <3> SUFFICES ASSUME NEW l \in Link, links'[l] = [kind |-> k, user |-> v, used |-> FALSE]
                 PROVE  l \in LiveLinks(v, k) /\ l \notin LiveLinks(u, kind)
        BY DEF LiveLinks
    <3>1. links'[l].used = FALSE
        OBVIOUS
    <3>2. links'[l] = links[l] /\ l \notin LiveLinks(u, kind)
        BY <1>10, <3>1
    <3>3. QED
        BY <3>2 DEF LiveLinks
  <2>2. CASE v = u /\ k = kind
    <3>1. LiveLinks(v, k)' = {}
        BY <2>1, <2>2 DEF LiveLinks
    <3>2. \A s \in Request : Issuing(s, v, k)' => s = r
        BY <1>6, <1>7, <1>4, <2>2, Moves DEF Issuing
    <3>3. QED
        BY <3>1, <3>2 DEF Single
  <2>3. CASE ~(v = u /\ k = kind)
    <3>1. <<v, k>> \notin crossed
        BY <1>6, <2>3
    <3>2. \A s \in Request : Issuing(s, v, k)' => Issuing(s, v, k)
        BY <1>4, <1>7, <2>3, Moves DEF Issuing
    <3>3. Single(v, k)
        BY <3>1 DEF IInv, LinksSingle
    <3>4. LiveLinks(v, k)' \subseteq LiveLinks(v, k)
        BY <2>1 DEF LiveLinks
    <3>5. QED
        BY <3>2, <3>3, <3>4 DEF Single
  <2>4. QED
      BY <2>2, <2>3
<1>13. SignedUpHasTrial'
    BY <1>1, <1>4, <1>7, StillTried DEF Stored
<1>14. QED
    BY <1>4, <1>7, <1>11, <1>12, <1>13, Moves DEF IInv

LEMMA IssueStep == ASSUME IInv, NEW r \in Request, Issue(r) PROVE IInv'
<1>1. /\ req[r].at = "issue" /\ req' = [req EXCEPT ![r] = Idle]
      /\ UNCHANGED <<users, oauth, trials, offered, started, untried, crossed>>
    BY DEF Issue, Finish, Goto
<1>2. Sound(req[r]) /\ req[r].user \in User /\ req[r].kind \in {"verify", "reset"} /\ Idle.at = "idle"
    BY <1>1 DEF IInv, Sound, Carries, Idle
<1>3. PICK u \in User, kind \in {"verify", "reset"} : u = req[r].user /\ kind = req[r].kind
    BY <1>2
<1>4. CASE ~Stored(u)
  <2>1. links' \in [Link -> LinkRow \cup {None}] /\ \A l \in Link : links'[l] = links[l]
      BY <1>3, <1>4 DEF Issue, IInv, TypeOK
  <2>2. QED
      BY <1>1, <1>2, <2>1, IdleSound, SmallStep
<1>5. CASE Stored(u)
  <2> DEFINE l0 == CHOOSE l \in Link : FreshLink(l)
             row == [kind |-> kind, user |-> u, used |-> FALSE]
  <2>1. \E l \in Link : FreshLink(l)
      BY <1>3, <1>5 DEF Issue
  <2>2. l0 \in Link /\ FreshLink(l0)
      BY <2>1
  <2>3. PICK l \in Link : l = l0
      BY <2>2
  <2>4. links' = [links EXCEPT ![l] = row]
      BY <1>3, <1>5, <2>3 DEF Issue
  <2>5. row \in LinkRow /\ row.user = u
      BY DEF LinkRow
  <2> HIDE DEF l0
  <2>6. \A k \in Link : links'[k] # None => Stored(links'[k].user)
      BY <1>5, <2>4, <2>5 DEF IInv, TypeOK, Constraints
  <2>7. TypeOK'
    <3>1. Constraints'
        BY <1>1, <2>6 DEF IInv, TypeOK, Constraints, Stored
    <3>2. req' \in [Request -> RequestState]
        BY <1>1, IdleSound, Moves
    <3>3. links' \in [Link -> LinkRow \cup {None}]
        BY <2>4, <2>5 DEF IInv, TypeOK
    <3>4. QED
        BY <1>1, <3>1, <3>2, <3>3 DEF IInv, TypeOK
  <2>8. LinksSingle'
    <3> SUFFICES ASSUME NEW v \in User, NEW k \in {"verify", "reset"}, <<v, k>> \notin crossed
                 PROVE  Single(v, k)'
        BY <1>1 DEF LinksSingle
    <3>1. Single(v, k)
        BY DEF IInv, LinksSingle
    <3>2. \A s \in Request : Issuing(s, v, k)' => (Issuing(s, v, k) /\ s # r)
        BY <1>1, <1>2, IdleSound, Moves DEF Issuing
    <3>3. CASE v = u /\ k = kind
      <4>1. LiveLinks(v, k) = {} /\ \A s \in Request : Issuing(s, v, k) => s = r
          BY <1>1, <1>3, <3>1, <3>3 DEF Single, Issuing
      <4>2. \A i \in LiveLinks(v, k)' : i = l
          BY <2>4, <4>1 DEF LiveLinks, IInv, TypeOK
      <4>3. QED
          BY <3>2, <4>1, <4>2 DEF Single
    <3>4. CASE ~(v = u /\ k = kind)
      <4>1. LiveLinks(v, k)' \subseteq LiveLinks(v, k)
        <5> SUFFICES ASSUME NEW i \in LiveLinks(v, k)' PROVE i \in LiveLinks(v, k)
            OBVIOUS
        <5>1. i \in Link /\ links'[i] = [kind |-> k, user |-> v, used |-> FALSE]
            BY DEF LiveLinks
        <5>2. i # l
            BY <2>4, <3>4, <5>1 DEF IInv, TypeOK
        <5>3. QED
            BY <2>4, <5>1, <5>2 DEF LiveLinks, IInv, TypeOK
      <4>2. QED
          BY <3>1, <3>2, <4>1 DEF Single
    <3>5. QED
        BY <3>3, <3>4
  <2>9. SignedUpHasTrial'
      BY <1>1, IdleSound, StillTried DEF Stored
  <2>10. QED
      BY <1>1, <2>7, <2>8, <2>9, IdleSound, Moves DEF IInv
<1>6. QED
    BY <1>4, <1>5

\* What an update leaves in the row.
LEMMA UpdatedRow ==
    ASSUME NEW now \in UserRow, NEW read \in UserRow, NEW new \in UserRow
    PROVE  /\ Updated(now, read, new) \in UserRow
           /\ Updated(now, read, new).email = now.email
           /\ Updated(now, read, new).role = Column(now.role, read.role, new.role)
           /\ Updated(now, read, new).verified = Column(now.verified, read.verified, new.verified)
           /\ Updated(now, read, new).password = Column(now.password, read.password, new.password)
BY DEF Updated, UserRow, Column

\* The users after an update, row by row.
LEMMA UpdateEffect ==
    ASSUME IInv, NEW r \in Request, Update(r)
    PROVE  /\ req[r].user \in User /\ req[r].read \in UserRow /\ req[r].new \in UserRow
           /\ users' \in [User -> UserRow \cup {None}]
           /\ \A v \in User : v # req[r].user => users'[v] = users[v]
           /\ \A v \in User : users'[v] # None => Stored(v)
           /\ \A v \in User : Stored(v) => users'[v] # None
           /\ \A v \in User : Stored(v) =>
                  users'[v] \in {users[v], Updated(users[v], req[r].read, req[r].new)}
<1>1. /\ req[r].at = "update"
      /\ users' = IF Stored(req[r].user)
                  THEN [users EXCEPT ![req[r].user] = Updated(users[req[r].user], req[r].read, req[r].new)]
                  ELSE users
    BY DEF Update
<1>2. PICK u \in User, read \in UserRow, new \in UserRow :
         u = req[r].user /\ read = req[r].read /\ new = req[r].new
    BY <1>1 DEF IInv, Sound, Carries
<1>3. users \in [User -> UserRow \cup {None}]
    BY DEF IInv, TypeOK
<1>4. CASE ~Stored(u)
    BY <1>1, <1>2, <1>3, <1>4 DEF Stored
<1>5. CASE Stored(u)
  <2>1. users' = [users EXCEPT ![u] = Updated(users[u], read, new)] /\ users[u] \in UserRow
      BY <1>1, <1>2, <1>3, <1>5 DEF Stored
  <2>2. Updated(users[u], read, new) \in UserRow /\ Updated(users[u], read, new) # None
    <3>1. Updated(users[u], read, new) \in UserRow
        BY <2>1, UpdatedRow
    <3>2. QED
        BY <3>1
  <2>3. QED
      BY <1>2, <1>3, <1>5, <2>1, <2>2 DEF Stored
<1>6. QED
    BY <1>4, <1>5

LEMMA UpdateStep == ASSUME IInv, NEW r \in Request, Update(r) PROVE IInv'
<1>1. /\ req[r].at = "update" /\ req' = [req EXCEPT ![r] = Idle]
      /\ UNCHANGED <<oauth, trials, links, offered, started, untried, crossed>>
    BY DEF Update, Finish, Goto
<1>2. Idle.at = "idle"
    BY DEF Idle
<1>3. TypeOK'
  <2>1. \A v \in User : Stored(v) => users'[v].email = users[v].email
    <3>1. \A v \in User : Stored(v) => users[v] \in UserRow
        BY DEF IInv, TypeOK, Stored
    <3>2. QED
        BY <3>1, UpdateEffect, UpdatedRow
  <2>2. \A v, w \in User : (users'[v] # None /\ users'[w] # None /\ users'[v].email = users'[w].email) => v = w
      BY <2>1, UpdateEffect DEF IInv, TypeOK, Constraints
  <2>3. Constraints'
    <3>1. \A o \in oauth : users'[o[2]] # None
        BY UpdateEffect DEF IInv, TypeOK, Constraints
    <3>2. \A v \in trials : users'[v] # None
        BY UpdateEffect DEF IInv, TypeOK, Constraints
    <3>3. \A l \in Link : links[l] # None => users'[links[l].user] # None
        BY UpdateEffect DEF IInv, TypeOK, Constraints, LinkRow
    <3>4. QED
        BY <1>1, <2>2, <3>1, <3>2, <3>3 DEF Constraints, Stored, IInv, TypeOK
  <2>4. req' \in [Request -> RequestState]
      BY <1>1, IdleSound, Moves
  <2>5. QED
      BY <1>1, <2>3, <2>4, UpdateEffect DEF IInv, TypeOK
<1>4. LinksSingle'
  <2>1. \A v \in User, kind \in {"verify", "reset"} : LiveLinks(v, kind)' \subseteq LiveLinks(v, kind)
      BY <1>1 DEF LiveLinks
  <2>2. QED
      BY <1>1, <1>2, <2>1, IdleSound, StillSingle
<1>5. SignedUpHasTrial'
    BY <1>1, UpdateEffect, IdleSound, StillTried
<1>6. QED
    BY <1>1, <1>3, <1>4, <1>5, IdleSound, Moves DEF IInv

LEMMA DeleteStep == ASSUME IInv, NEW r \in Request, Delete(r) PROVE IInv'
<1>1. PICK u \in User : u = req[r].user
    BY DEF Delete, IInv, Sound, Carries
<1>2. /\ req[r].at = "delete" /\ req' = [req EXCEPT ![r] = Idle]
      /\ users' = [users EXCEPT ![u] = None]
      /\ oauth' = {o \in oauth : o[2] # u}
      /\ trials' = trials \ {u}
      /\ links' = [l \in Link |-> IF links[l] # None /\ links[l].user = u THEN None ELSE links[l]]
      /\ UNCHANGED <<offered, started, untried, crossed>>
    BY <1>1 DEF Delete, Finish, Goto
<1>3. Idle.at = "idle"
    BY DEF Idle
<1>4. users \in [User -> UserRow \cup {None}] /\ links \in [Link -> LinkRow \cup {None}] /\ Constraints
    BY DEF IInv, TypeOK
<1>5. \A v \in User : v # u => users'[v] = users[v]
    BY <1>2, <1>4
<1>6. TypeOK'
  <2>1. \A v, w \in User : (users'[v] # None /\ users'[w] # None /\ users'[v].email = users'[w].email) => v = w
      BY <1>2, <1>4 DEF Constraints, Stored
  <2>2. \A o \in oauth' : users'[o[2]] # None /\ \A p \in oauth' : p[1] = o[1] => p = o
      BY <1>2, <1>4, <1>5 DEF Constraints, Stored, IInv, TypeOK
  <2>3. \A v \in trials' : users'[v] # None
      BY <1>2, <1>4, <1>5 DEF Constraints, Stored, IInv, TypeOK
  <2>4. \A l \in Link : links'[l] # None => users'[links'[l].user] # None
      BY <1>2, <1>4, <1>5 DEF Constraints, Stored, LinkRow
  <2>5. Constraints'
      BY <2>1, <2>2, <2>3, <2>4 DEF Constraints, Stored
  <2>6. req' \in [Request -> RequestState]
      BY <1>2, IdleSound, Moves
  <2>7. QED
      BY <1>2, <1>4, <2>5, <2>6 DEF IInv, TypeOK
<1>7. LinksSingle'
  <2>1. ASSUME NEW v \in User, NEW kind \in {"verify", "reset"}, NEW l \in LiveLinks(v, kind)'
        PROVE  l \in LiveLinks(v, kind)
    <3>1. l \in Link /\ links'[l] = [kind |-> kind, user |-> v, used |-> FALSE]
        BY DEF LiveLinks
    <3>2. [kind |-> kind, user |-> v, used |-> FALSE] \in LinkRow
        BY DEF LinkRow
    <3>3. links'[l] = links[l]
        BY <1>2, <3>1, <3>2
    <3>4. QED
        BY <3>1, <3>3 DEF LiveLinks
  <2>2. QED
      BY <1>2, <1>3, <2>1, IdleSound, StillSingle
<1>8. SignedUpHasTrial'
  <2> SUFFICES ASSUME NEW v \in User, users'[v] # None, v \notin trials', v \notin untried
               PROVE  \E s \in Request : req'[s].at = "trial" /\ req'[s].user = v
      BY <1>2 DEF SignedUpHasTrial, Stored
  <2>1. v # u /\ users[v] # None /\ v \notin trials
      BY <1>2, <1>4, <1>5
  <2>2. PICK s \in Request : req[s].at = "trial" /\ req[s].user = v
      BY <2>1 DEF IInv, SignedUpHasTrial, Stored
  <2>3. s # r
      BY <1>2, <2>2
  <2>4. QED
      BY <1>2, <2>2, <2>3, IdleSound, Moves
<1>9. QED
    BY <1>2, <1>6, <1>7, <1>8, IdleSound, Moves DEF IInv

LEMMA ConfigureTrialStep == ASSUME IInv, ConfigureTrial PROVE IInv'
BY DEF ConfigureTrial, IInv, TypeOK, Constraints, Stored, SignedUpHasTrial, LinksSingle, Single,
       LiveLinks, Issuing

LEMMA InvStep == IInv /\ [Next]_vars => IInv'
<1>1. ASSUME IInv, NEW r \in Request, auth_router(r) \/ users_router(r) \/ admin_users(r) PROVE IInv'
    BY <1>1, BeginsSound, BeginStep
<1>2. ASSUME IInv, Next PROVE IInv'
    BY <1>1, <1>2, CreateStep, GrantTrialStep, LinkGoogleStep, InvalidateStep, IssueStep, UseStep,
       UpdateStep, DeleteStep, AbortStep, ConfigureTrialStep DEF Next
<1>3. IInv /\ UNCHANGED vars => IInv'
    BY DEF vars, IInv, TypeOK, Constraints, Stored, SignedUpHasTrial, LinksSingle, Single, LiveLinks,
           Issuing
<1>4. QED
    BY <1>2, <1>3

LEMMA Invariance == Spec => []IInv
BY InitInv, InvStep, PTL DEF Spec

\* What changes a user's row: the INSERT, an UPDATE, or the DELETE.
LEMMA WhoWrites ==
    ASSUME IInv, [Next]_vars
    PROVE  UNCHANGED users \/ \E r \in Request : Create(r) \/ Update(r) \/ Delete(r)
<1>1. ASSUME NEW r \in Request, auth_router(r) \/ users_router(r) \/ admin_users(r) PROVE UNCHANGED users
    BY <1>1, BeginsSound DEF Begin
<1>2. QED
    BY <1>1 DEF Next, vars, GrantTrial, LinkGoogle, Invalidate, Issue, Use, Abort, ConfigureTrial

LEMMA WritesKeptStep ==
    ASSUME IInv, [Next]_vars, NEW u \in User, Stored(u), users'[u] # None
    PROVE  /\ users[u].verified => users'[u].verified
           /\ users[u].password \in Link => users'[u].password \in Link
<1>1. users[u] \in UserRow
    BY DEF IInv, TypeOK, Stored
<1>2. ASSUME NEW r \in Request, Create(r) PROVE users'[u] = users[u]
  <2>1. CASE UNCHANGED users
      BY <2>1
  <2>2. CASE UsersOf(req[r].new.email) = {}
    <3>1. \E v \in User : FreshUser(v)
        BY <1>2, <2>2 DEF Create
    <3>2. FreshUser(CHOOSE v \in User : FreshUser(v))
        BY <3>1
    <3>3. (CHOOSE v \in User : FreshUser(v)) # u
        BY <3>2 DEF FreshUser
    <3>4. QED
        BY <1>2, <2>2, <3>3 DEF Create, IInv, TypeOK
  <2>3. QED
      BY <1>2, <2>1, <2>2 DEF Create
<1>3. ASSUME NEW r \in Request, Delete(r) PROVE users'[u] = users[u]
    BY <1>3 DEF Delete, IInv, TypeOK
<1>4. ASSUME NEW r \in Request, Update(r)
      PROVE  /\ users[u].verified => users'[u].verified
             /\ users[u].password \in Link => users'[u].password \in Link
  <2>1. Keeps(req[r]) /\ req[r].at = "update"
      BY <1>4 DEF IInv, Sound, Update
  <2>2. PICK read \in UserRow, new \in UserRow : read = req[r].read /\ new = req[r].new
      BY <1>4, UpdateEffect
  <2>3. users'[u] \in {users[u], Updated(users[u], read, new)}
      BY <1>4, <2>2, UpdateEffect
  <2>4. /\ read.verified => new.verified
        /\ new.password # read.password => new.password \in Link
      BY <2>1, <2>2 DEF Keeps
  <2>5. /\ users[u].verified \in BOOLEAN /\ read.verified \in BOOLEAN /\ new.verified \in BOOLEAN
      BY <1>1 DEF UserRow
  <2>6. QED
      BY <1>1, <2>3, <2>4, <2>5, UpdatedRow DEF Column
<1>5. QED
    BY <1>2, <1>3, <1>4, WhoWrites

LEMMA RolesGuardedStep ==
    ASSUME IInv, [Next]_vars, NEW u \in User, users'[u] # None,
           users'[u].role # (IF Stored(u) THEN users[u].role ELSE "USER")
    PROVE  \E r \in Request :
               /\ req[r] # req'[r]
               /\ req[r].actor # None
               /\ req[r].actor.id # u
               /\ req[r].actor.role \in ADMIN_ROLES
               /\ (users'[u].role = "SUPER_ADMIN" \/ ~Stored(u) \/ req[r].read.role # "USER") =>
                      req[r].actor.role = "SUPER_ADMIN"
<1>1. users \in [User -> UserRow \cup {None}] /\ req \in [Request -> RequestState]
    BY DEF IInv, TypeOK
<1>2. users' # users
    BY DEF Stored
<1>3. ASSUME NEW r \in Request, Delete(r) PROVE FALSE
    BY <1>1, <1>3 DEF Delete, Stored
<1>4. ASSUME NEW r \in Request, Update(r)
      PROVE  /\ req[r] # req'[r] /\ req[r].actor # None /\ req[r].actor.id # u
             /\ req[r].actor.role \in ADMIN_ROLES
             /\ (users'[u].role = "SUPER_ADMIN" \/ ~Stored(u) \/ req[r].read.role # "USER") =>
                    req[r].actor.role = "SUPER_ADMIN"
  <2>1. Allowed(req[r]) /\ req[r].at = "update" /\ req' = [req EXCEPT ![r] = Idle]
      BY <1>4 DEF IInv, Sound, Update, Finish, Goto
  <2>2. req'[r] # req[r]
      BY <1>1, <2>1 DEF Idle
  <2>3. Stored(u) /\ u = req[r].user
      BY <1>4, UpdateEffect DEF Stored
  <2>4. PICK read \in UserRow, new \in UserRow : read = req[r].read /\ new = req[r].new
      BY <1>4, UpdateEffect
  <2>5. users[u] \in UserRow /\ users'[u] = Updated(users[u], read, new)
      BY <1>1, <1>4, <2>3, <2>4, UpdateEffect DEF Stored
  <2>6. new.role # read.role /\ users'[u].role = new.role
      BY <2>3, <2>5, UpdatedRow DEF Column
  <2>7. QED
      BY <2>1, <2>2, <2>3, <2>4, <2>6 DEF Allowed
<1>5. ASSUME NEW r \in Request, Create(r)
      PROVE  /\ req[r] # req'[r] /\ req[r].actor # None /\ req[r].actor.id # u
             /\ req[r].actor.role \in ADMIN_ROLES
             /\ req[r].actor.role = "SUPER_ADMIN"
  <2> DEFINE u0 == CHOOSE v \in User : FreshUser(v)
  <2>1. UsersOf(req[r].new.email) = {}
      BY <1>2, <1>5 DEF Create
  <2>2. \E v \in User : FreshUser(v)
      BY <1>5, <2>1 DEF Create
  <2>3. FreshUser(u0) /\ u0 \in User
      BY <2>2
  <2>4. users' = [users EXCEPT ![u0] = req[r].new] /\ req[r].at = "create"
      BY <1>5, <2>1 DEF Create
  <2> HIDE DEF u0
  <2>5. u = u0 /\ ~Stored(u)
      BY <1>1, <2>3, <2>4 DEF Stored, FreshUser
  <2>6. req[r].new.role # "USER"
      BY <1>1, <2>4, <2>5
  <2>7. req[r].actor \in Actor /\ req[r].actor.role = "SUPER_ADMIN" /\ req[r].actor # None
      BY <2>4, <2>6 DEF IInv, Sound, Allowed
  <2>8. req[r].actor.id # u
      BY <2>3, <2>5, <2>7 DEF FreshUser
  <2>9. req'[r].at # "create"
    <3>1. PICK next \in {"trial", "idle"} : next = AfterCreate(req[r])
        BY DEF AfterCreate
    <3>2. /\ next = "idle" => req' = [req EXCEPT ![r] = Idle]
          /\ next # "idle" => \E v : req' = [req EXCEPT ![r] = [req[r] EXCEPT !.at = next, !.user = v]]
        BY <1>5, <2>1, <3>1 DEF Create, Finish, Goto
    <3>3. Idle.at = "idle" /\ \A v : [req[r] EXCEPT !.at = next, !.user = v].at = next
        BY <1>1 DEF Idle, RequestState
    <3>4. CASE next = "idle"
      <4>1. req' = [req EXCEPT ![r] = Idle]
          BY <3>2, <3>4
      <4>2. req'[r] = Idle
          BY <1>1, <4>1, Zenon
      <4>3. QED
          BY <3>3, <4>2
    <3>5. CASE next = "trial"
      <4>1. PICK v : req' = [req EXCEPT ![r] = [req[r] EXCEPT !.at = next, !.user = v]]
          BY <3>2, <3>5
      <4>2. req'[r] = [req[r] EXCEPT !.at = next, !.user = v]
          BY <1>1, <4>1, Zenon
      <4>3. QED
          BY <3>3, <3>5, <4>2
    <3>6. QED
        BY <3>4, <3>5
  <2>10. QED
      BY <2>4, <2>7, <2>8, <2>9 DEF ADMIN_ROLES
<1>6. QED
    BY <1>2, <1>3, <1>4, <1>5, WhoWrites

-----------------------------------------------------------------------------

(***************************************************************************)
(* Users, Google accounts, trials, links and requests keep their types,    *)
(* addresses and accounts stay unique and nothing is left behind by a      *)
(* deleted user, for any users, addresses, links and requests.             *)
(***************************************************************************)
THEOREM TypeCorrect == Spec => []TypeOK
BY Invariance, PTL DEF IInv

(***************************************************************************)
(* auth.py:47: whoever signed up has the trial, is about to get it, was    *)
(* cut off in between, or signed up when there was no trial to grant.      *)
(***************************************************************************)
THEOREM TrialGranted == Spec => []SignedUpHasTrial
BY Invariance, PTL DEF IInv

(***************************************************************************)
(* repositories/auth.py:46-47: one link of a kind is good, unless two      *)
(* requests for one overlapped.                                            *)
(***************************************************************************)
THEOREM OneLink == Spec => []OneLinkLives
<1>1. IInv => OneLinkLives
  <2> SUFFICES ASSUME IInv, NEW u \in User, NEW kind \in {"verify", "reset"}, <<u, kind>> \notin crossed
               PROVE  Cardinality(LiveLinks(u, kind)) <= 1
      BY DEF OneLinkLives
  <2>1. \A k, l \in LiveLinks(u, kind) : k = l
      BY DEF IInv, LinksSingle, Single
  <2>2. CASE LiveLinks(u, kind) = {}
      BY <2>2, FS_EmptySet
  <2>3. CASE LiveLinks(u, kind) # {}
    <3>1. PICK l \in LiveLinks(u, kind) : TRUE
        BY <2>3
    <3>2. LiveLinks(u, kind) = {l}
        BY <2>1, <3>1
    <3>3. QED
        BY <3>2, FS_Singleton
  <2>4. QED
      BY <2>2, <2>3
<1>2. QED
    BY <1>1, Invariance, PTL

(***************************************************************************)
(* repositories/base.py: no update takes back a confirmation, or the       *)
(* password a link has set.                                                *)
(***************************************************************************)
THEOREM NoWriteLost == Spec => WritesKept
<1>1. IInv /\ [Next]_vars =>
         [\A u \in User :
             (Stored(u) /\ users'[u] # None) =>
                 /\ users[u].verified => users'[u].verified
                 /\ users[u].password \in Link => users'[u].password \in Link]_vars
    BY WritesKeptStep
<1>2. QED
    BY <1>1, Invariance, PTL DEF Spec, WritesKept

(***************************************************************************)
(* admin_service.py:41-61: roles change by the hand of those who may.      *)
(***************************************************************************)
THEOREM RolesAreGuarded == Spec => RolesGuarded
<1>1. IInv /\ [Next]_vars =>
         [\A u \in User :
             (users'[u] # None /\ users'[u].role # (IF Stored(u) THEN users[u].role ELSE "USER")) =>
                 \E r \in Request :
                     /\ req[r] # req'[r]
                     /\ req[r].actor # None
                     /\ req[r].actor.id # u
                     /\ req[r].actor.role \in ADMIN_ROLES
                     /\ (users'[u].role = "SUPER_ADMIN" \/ ~Stored(u) \/ req[r].read.role # "USER") =>
                            req[r].actor.role = "SUPER_ADMIN"]_vars
    BY RolesGuardedStep
<1>2. QED
    BY <1>1, Invariance, PTL DEF Spec, RolesGuarded
===============================================================================
