---------------------------- MODULE SessionsProofs ----------------------------
(***************************************************************************)
(* Theorems about Sessions, for every value of its constants.              *)
(*                                                                         *)
(* TypeOK and RotationSound are not inductive alone: they rest on what a   *)
(* running refresh has read, which RequestSound states, and on ids coming  *)
(* from the sequence, which IdsSound states.                               *)
(*                                                                         *)
(* Sessions implements SessionLifecycle: a step that inserts no row and    *)
(* starts no sign-in can only end sessions, because dead tokens stay dead  *)
(* (DeadNext) and rows keep their owners.  A refresh that inserts a row    *)
(* does so while the row it was asked with is still there, for else the    *)
(* foreign key would have refused it: AnchorSound adds this to IInv.       *)
(***************************************************************************)
EXTENDS Sessions, TLAPS

IdsSound == \A t \in Token : Stored(t) => t <= last

\* A refresh past its check holds an id of a row that was there; by the time
\* it retires that row, the successor it inserted is there if the row still is.
HeldSound(q) ==
    /\ q.at \in {"sign_in", "set_password", "revoke_all", "get_user", "issue", "retire"} =>
          q.user \in User
    /\ q.at \in {"get_user", "issue", "retire", "logout", "logged_out"} =>
          q.token \in Token /\ q.token <= last
    /\ q.at \in {"get_user", "issue", "retire", "logout"} =>
          (Stored(q.token) => refresh_tokens[q.token].user_id = q.user)
    /\ q.at = "retire" =>
          /\ q.new \in Token
          /\ q.token < q.new
          /\ q.new <= last
          /\ Stored(q.token) =>
                /\ Stored(q.new)
                /\ refresh_tokens[q.new].user_id = q.user
                /\ verified[q.new] = verified[q.token]

RequestSound == \A r \in Request : HeldSound(req[r])

IInv == TypeOK /\ IdsSound /\ RequestSound /\ RotationSound

-----------------------------------------------------------------------------
(* What the writers of rows do, stated once *)

LEMMA IssueTokenEffect ==
    ASSUME TypeOK, NEW u \in User, NEW pw \in Password \cup {None},
           last < MaxTokens, IssueToken(u, pw)
    PROVE  /\ last + 1 \in Token
           /\ last' \in 0..MaxTokens
           /\ last' = last + 1
           /\ refresh_tokens' \in [Token -> RefreshToken \cup {None}]
           /\ verified' \in [Token -> Password \cup {None}]
           /\ refresh_tokens'[last + 1] = [user_id |-> u, expires_at |-> clock + Lifetime,
                                           revoked_at |-> None, replaced_by |-> None]
           /\ verified'[last + 1] = pw
           /\ \A t \in Token : t # last + 1 => /\ refresh_tokens'[t] = refresh_tokens[t]
                                               /\ verified'[t] = verified[t]
<1> USE SessionsAssumption DEF TypeOK, Token
<1>1. last + 1 \in Token /\ last + 1 \in 0..MaxTokens
    OBVIOUS
<1>2. [user_id |-> u, expires_at |-> clock + Lifetime,
       revoked_at |-> None, replaced_by |-> None] \in RefreshToken
    BY DEF RefreshToken
<1>3. QED
    BY <1>1, <1>2 DEF IssueToken

LEMMA RevokeAllEffect ==
    ASSUME TypeOK, NEW u \in User, RevokeAllForUser(u)
    PROVE  /\ refresh_tokens' \in [Token -> RefreshToken \cup {None}]
           /\ \A t \in Token :
                 /\ Stored(t)' <=> Stored(t)
                 /\ Stored(t) =>
                      /\ refresh_tokens'[t].user_id = refresh_tokens[t].user_id
                      /\ refresh_tokens'[t].expires_at = refresh_tokens[t].expires_at
                      /\ refresh_tokens'[t].replaced_by = refresh_tokens[t].replaced_by
                 /\ Stored(t) /\ refresh_tokens[t].revoked_at # None =>
                      refresh_tokens'[t].revoked_at = refresh_tokens[t].revoked_at
<1> USE SessionsAssumption DEF TypeOK
<1> DEFINE Hit(t) == /\ Stored(t)
                     /\ refresh_tokens[t].user_id = u
                     /\ refresh_tokens[t].revoked_at = None
           Row(t) == [refresh_tokens[t] EXCEPT !.revoked_at = clock]
<1>1. \A t \in Token : Stored(t) => refresh_tokens[t] \in RefreshToken
    BY DEF Stored
<1>2. \A t \in Token : Stored(t) =>
          /\ Row(t) \in RefreshToken
          /\ Row(t).user_id = refresh_tokens[t].user_id
          /\ Row(t).expires_at = refresh_tokens[t].expires_at
          /\ Row(t).replaced_by = refresh_tokens[t].replaced_by
    BY <1>1 DEF RefreshToken
<1>3. \A t \in Token : Stored(t) => Row(t) # None
    BY <1>2
<1>4. refresh_tokens' = [t \in Token |-> IF Hit(t) THEN Row(t) ELSE refresh_tokens[t]]
    BY DEF RevokeAllForUser
<1> HIDE DEF Row
<1>5. refresh_tokens' \in [Token -> RefreshToken \cup {None}]
    BY <1>2, <1>4
<1>6. QED
    BY <1>2, <1>3, <1>4, <1>5 DEF Stored

LEMMA UpdateTokenEffect ==
    ASSUME TypeOK, NEW t \in Token, Stored(t),
           NEW at \in Nat \cup {None}, NEW next \in Token \cup {None},
           UpdateToken(t, at, next)
    PROVE  /\ refresh_tokens' \in [Token -> RefreshToken \cup {None}]
           /\ Stored(t)'
           /\ refresh_tokens'[t].user_id = refresh_tokens[t].user_id
           /\ refresh_tokens'[t].expires_at = refresh_tokens[t].expires_at
           /\ refresh_tokens'[t].revoked_at = at
           /\ refresh_tokens'[t].replaced_by = next
           /\ \A s \in Token : s # t => refresh_tokens'[s] = refresh_tokens[s]
<1> USE SessionsAssumption DEF TypeOK
<1>1. refresh_tokens[t] \in RefreshToken
    BY DEF Stored
<1> DEFINE Row == [user_id |-> refresh_tokens[t].user_id,
                   expires_at |-> refresh_tokens[t].expires_at,
                   revoked_at |-> at, replaced_by |-> next]
<1>2. /\ Row \in RefreshToken
      /\ Row.user_id = refresh_tokens[t].user_id
      /\ Row.expires_at = refresh_tokens[t].expires_at
      /\ Row.revoked_at = at
      /\ Row.replaced_by = next
    BY <1>1 DEF RefreshToken
<1>3. refresh_tokens' = [refresh_tokens EXCEPT ![t] = Row]
    BY DEF UpdateToken
<1> HIDE DEF Row
<1>4. QED
    BY <1>2, <1>3 DEF Stored

-----------------------------------------------------------------------------
(* How rows may change in a step, and what that keeps *)

\* Rows keep their owner, a user's rows go together, histories are not rewritten.
RowsEvolve ==
    /\ last <= last'
    /\ \A t \in Token :
          t <= last =>
             /\ Stored(t)' => /\ Stored(t)
                              /\ refresh_tokens'[t].user_id = refresh_tokens[t].user_id
             /\ verified'[t] = verified[t]
    /\ \A s, t \in Token :
          (/\ s <= last /\ t <= last /\ Stored(s) /\ Stored(t)'
           /\ refresh_tokens[s].user_id = refresh_tokens[t].user_id) => Stored(s)'

\* No link is added or moved, no revocation undone.
LinksKept ==
    \A t \in Token :
        Stored(t)' =>
            IF t <= last
            THEN /\ refresh_tokens'[t].replaced_by = refresh_tokens[t].replaced_by
                 /\ refresh_tokens[t].revoked_at # None => refresh_tokens'[t].revoked_at # None
            ELSE refresh_tokens'[t].replaced_by = None

LEMMA HeldSoundKept ==
    ASSUME TypeOK, TypeOK', NEW q \in RequestState, HeldSound(q), RowsEvolve
    PROVE  HeldSound(q)'
<1> USE SessionsAssumption
<1>1. last \in Int /\ last' \in Int /\ last <= last'
    BY DEF TypeOK, RowsEvolve
<1>2. \A t \in Token : t <= last => t <= last'
    BY <1>1 DEF Token
<1>3. QED
    BY <1>2 DEF HeldSound, RowsEvolve

LEMMA RotationKept ==
    ASSUME TypeOK, TypeOK', IdsSound, RotationSound, RowsEvolve, LinksKept
    PROVE  RotationSound'
<1> USE SessionsAssumption
<1> SUFFICES ASSUME NEW t \in Token, Stored(t)', refresh_tokens'[t].replaced_by # None
             PROVE  /\ refresh_tokens'[t].revoked_at # None
                    /\ refresh_tokens'[t].replaced_by \in t + 1 .. last'
                    /\ Stored(refresh_tokens[t].replaced_by)'
                    /\ refresh_tokens'[t].replaced_by = refresh_tokens[t].replaced_by
                    /\ refresh_tokens'[refresh_tokens[t].replaced_by].user_id
                           = refresh_tokens'[t].user_id
                    /\ verified'[refresh_tokens[t].replaced_by] = verified'[t]
    BY DEF RotationSound
<1> DEFINE next == refresh_tokens[t].replaced_by
<1>1. t <= last /\ Stored(t) /\ refresh_tokens'[t].replaced_by = next
    BY DEF LinksKept, RowsEvolve
<1>2. /\ refresh_tokens[t].revoked_at # None
      /\ next \in t + 1 .. last
      /\ Stored(next)
      /\ refresh_tokens[next].user_id = refresh_tokens[t].user_id
      /\ verified[next] = verified[t]
    BY <1>1 DEF RotationSound
<1>3. next \in Token /\ next <= last /\ last <= last'
    BY <1>2 DEF TypeOK, Token, RowsEvolve
<1>4. Stored(next)' /\ refresh_tokens'[next].user_id = refresh_tokens[next].user_id
    BY <1>1, <1>2, <1>3 DEF RowsEvolve
<1>5. next \in t + 1 .. last'
    BY <1>1, <1>2, <1>3 DEF TypeOK
<1>6. QED
    BY <1>1, <1>2, <1>3, <1>4, <1>5 DEF LinksKept, RowsEvolve

\* A step that only moves request r on keeps everything if what r now holds is sound.
LEMMA ReadStep ==
    ASSUME IInv, NEW r \in Request, NEW q \in RequestState, Goto(r, q), HeldSound(q),
           UNCHANGED <<clock, users, password, last, refresh_tokens, verified>>
    PROVE  IInv'
<1> USE DEF IInv
<1>1. TypeOK'
    BY DEF TypeOK, Goto
<1>2. IdsSound' /\ RotationSound'
    BY DEF IdsSound, RotationSound, Stored
<1>3. RequestSound'
  <2> SUFFICES ASSUME NEW s \in Request
               PROVE  HeldSound(req[s])'
      BY DEF RequestSound
  <2>1. req'[s] = q \/ req'[s] = req[s]
      BY DEF Goto, TypeOK
  <2>2. HeldSound(req[s]) /\ HeldSound(q)
      BY DEF RequestSound
  <2>3. \A p : HeldSound(p) => HeldSound(p)'
      BY DEF HeldSound, Stored
  <2>4. QED
      BY <2>1, <2>2, <2>3 DEF HeldSound
<1>4. QED
    BY <1>1, <1>2, <1>3

\* A step that moves request r and writes rows.
LEMMA WriteStep ==
    ASSUME IInv, TypeOK', IdsSound', RotationSound', RowsEvolve,
           NEW r \in Request, NEW q \in RequestState, Goto(r, q), HeldSound(q)'
    PROVE  IInv'
<1> USE DEF IInv
<1> SUFFICES ASSUME NEW s \in Request
             PROVE  HeldSound(req[s])'
    BY DEF RequestSound
<1>1. CASE s = r
    BY <1>1 DEF Goto, TypeOK
<1>2. CASE s # r
  <2>1. req'[s] = req[s] /\ req[s] \in RequestState /\ HeldSound(req[s])
      BY <1>2 DEF Goto, TypeOK, RequestSound
  <2> DEFINE q0 == req[s]
  <2>2. \A p \in RequestState : HeldSound(p) => HeldSound(p)'
      BY HeldSoundKept
  <2>3. QED
      BY <2>1, <2>2 DEF HeldSound
<1>3. QED
    BY <1>1, <1>2

\* An INSERT of a live row evolves the table soundly.
LEMMA IssueKeeps ==
    ASSUME IInv, NEW u \in User, NEW pw \in Password \cup {None}, last < MaxTokens,
           IssueToken(u, pw), req' \in [Request -> RequestState],
           UNCHANGED <<clock, users, password>>
    PROVE  TypeOK' /\ IdsSound' /\ RotationSound' /\ RowsEvolve /\ refresh_tokens'[last + 1] # None
<1> USE SessionsAssumption DEF IInv
<1>1. /\ last + 1 \in Token
      /\ last' \in 0..MaxTokens
      /\ last' = last + 1
      /\ refresh_tokens' \in [Token -> RefreshToken \cup {None}]
      /\ verified' \in [Token -> Password \cup {None}]
      /\ refresh_tokens'[last + 1] = [user_id |-> u, expires_at |-> clock + Lifetime,
                                      revoked_at |-> None, replaced_by |-> None]
      /\ \A t \in Token : t # last + 1 => /\ refresh_tokens'[t] = refresh_tokens[t]
                                          /\ verified'[t] = verified[t]
    BY IssueTokenEffect
<1>2. last \in Nat
    BY DEF TypeOK
<1>3. TypeOK'
    BY <1>1 DEF TypeOK
<1>4. \A t \in Token : /\ t \in Int
                       /\ t <= last => t # last + 1
                       /\ t <= last => t <= last + 1
                       /\ ~(t <= last) => (Stored(t)' => t = last + 1)
    BY <1>1, <1>2 DEF Token, IdsSound, Stored
<1>5. IdsSound'
    BY <1>1, <1>2, <1>4 DEF IdsSound, Stored
<1>6. RowsEvolve
    BY <1>1, <1>2, <1>4 DEF RowsEvolve, Stored
<1>7. LinksKept
    BY <1>1, <1>4 DEF LinksKept, Stored
<1>8. RotationSound'
    BY <1>3, <1>6, <1>7, RotationKept
<1>9. refresh_tokens'[last + 1] # None
  <2>1. clock + Lifetime \in Nat
      BY DEF TypeOK
  <2>2. refresh_tokens'[last + 1] \in RefreshToken
      BY <1>1, <2>1 DEF RefreshToken
  <2>3. QED
      BY <1>1, <2>2 DEF Stored
<1>10. QED
    BY <1>3, <1>5, <1>6, <1>8, <1>9

-----------------------------------------------------------------------------

LEMMA InitInvariant == Init => IInv
<1> SUFFICES ASSUME Init PROVE IInv
    OBVIOUS
<1> USE SessionsAssumption DEF Init
<1>1. TypeOK
    BY DEF TypeOK, Token, Password, RequestState, Stage, Idle, Running
<1>2. IdsSound /\ RotationSound
    BY DEF IdsSound, RotationSound, Stored
<1>3. RequestSound
    BY DEF RequestSound, HeldSound, Idle, Running
<1>4. QED
    BY <1>1, <1>2, <1>3 DEF IInv

LEMMA IdleSound == Idle \in RequestState /\ HeldSound(Idle) /\ HeldSound(Idle)'
    BY DEF Idle, Running, RequestState, Stage, HeldSound

LEMMA NextInvariant == IInv /\ [Next]_vars => IInv'
<1> SUFFICES ASSUME IInv, [Next]_vars PROVE IInv'
    OBVIOUS
<1> USE SessionsAssumption
<1>t. TypeOK /\ IdsSound /\ RequestSound /\ RotationSound
    BY DEF IInv
<1>1. ASSUME NEW r \in Request, NEW u \in User,
             Login(r, u) \/ GoogleLogin(r, u) \/ LogoutEverywhere(r, u) \/ Reset(r, u)
      PROVE  IInv'
  <2>1. PICK q \in {Running("sign_in", u, None, None, password[u]),
                    Running("sign_in", u, None, None, None),
                    Running("revoke_all", u, None, None, None),
                    Running("set_password", u, None, None, None)} :
           /\ Goto(r, q)
           /\ UNCHANGED <<clock, users, password, last, refresh_tokens, verified>>
      BY <1>1 DEF Login, GoogleLogin, LogoutEverywhere, Reset
  <2>2. q \in RequestState /\ HeldSound(q)
      BY <1>t DEF TypeOK, Running, RequestState, Stage, HeldSound
  <2>3. QED
      BY <2>1, <2>2, ReadStep
<1>2. ASSUME NEW r \in Request, NEW t \in Token,
             RefreshAccepted(r, t) \/ RefreshReplayed(r, t) \/ Logout(r, t)
      PROVE  IInv'
  <2> DEFINE owner == refresh_tokens[t].user_id
  <2>1. PICK q \in {Running("get_user", owner, t, None, None),
                    Running("revoke_all", owner, None, None, None),
                    Running("logout", owner, t, None, None),
                    Running("logged_out", owner, t, None, None)} :
           /\ Stored(t)
           /\ Goto(r, q)
           /\ UNCHANGED <<clock, users, password, last, refresh_tokens, verified>>
      BY <1>2 DEF RefreshAccepted, RefreshReplayed, Logout
  <2>2. owner \in User /\ t <= last
      BY <1>t, <2>1 DEF TypeOK, RefreshToken, Stored, IdsSound
  <2>3. q \in RequestState /\ HeldSound(q)
      BY <2>2 DEF Running, RequestState, Stage, HeldSound
  <2>4. QED
      BY <2>1, <2>3, ReadStep
<1>3. ASSUME NEW r \in Request, SignInIssue(r)
      PROVE  IInv'
  <2>1. /\ Goto(r, Idle)
        /\ req[r].user \in User
        /\ req[r].password \in Password \cup {None}
        /\ req' \in [Request -> RequestState]
      BY <1>3, <1>t, IdleSound DEF SignInIssue, Finish, RequestSound, HeldSound, TypeOK,
                                   RequestState, Goto
  <2>2. CASE UNCHANGED <<last, refresh_tokens, verified>>
      BY <1>3, <2>1, <2>2, IdleSound, ReadStep DEF SignInIssue
  <2>3. CASE last < MaxTokens /\ IssueToken(req[r].user, req[r].password)
    <3>1. TypeOK' /\ IdsSound' /\ RotationSound' /\ RowsEvolve
        BY <1>3, <2>1, <2>3, IssueKeeps DEF SignInIssue
    <3>2. QED
        BY <2>1, <3>1, IdleSound, WriteStep
  <2>4. QED
      BY <1>3, <2>2, <2>3 DEF SignInIssue
<1>4. ASSUME NEW r \in Request, RefreshGetUser(r)
      PROVE  IInv'
  <2>1. PICK q \in {Idle, Running("issue", req[r].user, req[r].token, None, None)} :
           /\ Goto(r, q)
           /\ UNCHANGED <<clock, users, password, last, refresh_tokens, verified>>
      BY <1>4 DEF RefreshGetUser, Finish
  <2>2. req[r] \in RequestState /\ HeldSound(req[r]) /\ req[r].at = "get_user"
      BY <1>4, <1>t DEF TypeOK, RequestSound, RefreshGetUser
  <2>3. q \in RequestState /\ HeldSound(q)
      BY <2>2, IdleSound DEF Running, RequestState, Stage, HeldSound
  <2>4. QED
      BY <2>1, <2>3, ReadStep
<1>5. ASSUME NEW r \in Request, RefreshIssue(r)
      PROVE  IInv'
  <2>1. PICK t \in Token, u \in User, pw \in Password \cup {None} :
           /\ t = req[r].token /\ u = req[r].user /\ pw = verified[t]
           /\ t <= last
           /\ Stored(t) => refresh_tokens[t].user_id = u
      BY <1>5, <1>t DEF RefreshIssue, RequestSound, HeldSound, TypeOK
  <2>2. CASE UNCHANGED <<last, refresh_tokens, verified>> /\ Finish(r)
      BY <1>5, <2>2, IdleSound, ReadStep DEF RefreshIssue, Finish
  <2>3. CASE /\ last < MaxTokens
             /\ IssueToken(u, pw)
             /\ Goto(r, Running("retire", u, t, last + 1, None))
    <3>1. /\ last + 1 \in Token
          /\ last' = last + 1
          /\ refresh_tokens'[last + 1] = [user_id |-> u, expires_at |-> clock + Lifetime,
                                          revoked_at |-> None, replaced_by |-> None]
          /\ verified'[last + 1] = pw
          /\ \A s \in Token : s # last + 1 => /\ refresh_tokens'[s] = refresh_tokens[s]
                                              /\ verified'[s] = verified[s]
        BY <1>t, <2>3, IssueTokenEffect
    <3>2. PICK new \in Token : new = last + 1
        BY <3>1
    <3>3. PICK q \in RequestState : q = Running("retire", u, t, new, None)
        BY DEF Running, RequestState, Stage
    <3>4. req' \in [Request -> RequestState]
        BY <1>t, <2>3, <3>2, <3>3 DEF Goto, TypeOK
    <3>5. /\ TypeOK' /\ IdsSound' /\ RotationSound' /\ RowsEvolve
          /\ refresh_tokens'[new] # None
        BY <1>5, <2>3, <3>2, <3>4, IssueKeeps DEF RefreshIssue
    <3>6. t < new /\ new <= last' /\ t <= last' /\ t # new
        BY <1>t, <2>1, <3>1, <3>2 DEF Token, TypeOK
    <3>7. q.at = "retire" /\ q.user = u /\ q.token = t /\ q.new = new
        BY <3>3 DEF Running
    <3>8. /\ refresh_tokens'[new].user_id = u
          /\ refresh_tokens'[t] = refresh_tokens[t]
          /\ verified'[new] = verified'[t]
        BY <2>1, <3>1, <3>2, <3>6
    <3>9. HeldSound(q)'
        BY <2>1, <3>5, <3>6, <3>7, <3>8 DEF HeldSound, Stored
    <3>10. QED
        BY <2>3, <3>2, <3>3, <3>5, <3>9, WriteStep
  <2>4. QED
      BY <1>5, <2>1, <2>2, <2>3 DEF RefreshIssue
<1>6. ASSUME NEW r \in Request, RefreshRetire(r)
      PROVE  IInv'
  <2>1. /\ req[r] \in RequestState /\ HeldSound(req[r]) /\ req[r].at = "retire"
        /\ Goto(r, Idle) /\ clock \in Nat
      BY <1>6, <1>t DEF RefreshRetire, RequestSound, TypeOK, Finish
  <2>2. PICK t \in Token, new \in Token :
           /\ t = req[r].token /\ new = req[r].new
           /\ t <= last /\ t < new /\ new <= last
           /\ Stored(t) => /\ Stored(new)
                           /\ refresh_tokens[t].user_id = refresh_tokens[new].user_id
                           /\ verified[new] = verified[t]
      BY <2>1 DEF HeldSound
  <2>3. CASE ~Stored(t)
      BY <1>6, <2>1, <2>2, <2>3, IdleSound, ReadStep DEF RefreshRetire
  <2>4. CASE Stored(t)
    <3>1. UpdateToken(t, clock, new) /\ UNCHANGED <<clock, users, password, last, verified>>
        BY <1>6, <2>2, <2>4 DEF RefreshRetire
    <3>2. /\ refresh_tokens' \in [Token -> RefreshToken \cup {None}]
          /\ Stored(t)'
          /\ refresh_tokens'[t].user_id = refresh_tokens[t].user_id
          /\ refresh_tokens'[t].revoked_at = clock
          /\ refresh_tokens'[t].replaced_by = new
          /\ \A s \in Token : s # t => refresh_tokens'[s] = refresh_tokens[s]
        BY <1>t, <2>1, <2>4, <3>1, UpdateTokenEffect
    <3>3. TypeOK'
        BY <1>t, <2>1, <3>1, <3>2, IdleSound DEF TypeOK, Goto
    <3>4. IdsSound' /\ RowsEvolve
        BY <1>t, <2>2, <2>4, <3>1, <3>2 DEF IdsSound, RowsEvolve, Stored, TypeOK
    <3>5. RotationSound'
      <4>1. ASSUME NEW s \in Token, Stored(s)', refresh_tokens'[s].replaced_by # None, s # t
            PROVE  /\ refresh_tokens'[s] = refresh_tokens[s]
                   /\ refresh_tokens[s].revoked_at # None
                   /\ refresh_tokens[s].replaced_by \in s + 1 .. last
                   /\ Stored(refresh_tokens[s].replaced_by)
                   /\ refresh_tokens[refresh_tokens[s].replaced_by].user_id
                          = refresh_tokens[s].user_id
                   /\ verified[refresh_tokens[s].replaced_by] = verified[s]
          BY <1>t, <3>2, <4>1 DEF RotationSound, Stored
      <4>2. \A s \in Token : /\ Stored(s) => Stored(s)'
                             /\ refresh_tokens'[s].user_id = refresh_tokens[s].user_id
          BY <3>2 DEF Stored
      <4>3. new \in t + 1 .. last
          BY <2>2 DEF Token
      <4>4. \A s \in Token : s + 1 .. last \subseteq Token
          BY <1>t DEF Token, TypeOK
      <4>5. clock # None
          BY <2>1
      <4>6. QED
          BY <2>2, <2>4, <3>1, <3>2, <4>1, <4>2, <4>3, <4>4, <4>5 DEF RotationSound, Stored
    <3>6. QED
        BY <2>1, <3>3, <3>4, <3>5, IdleSound, WriteStep
  <2>5. QED
      BY <2>3, <2>4
<1>7. ASSUME NEW r \in Request, LogoutWrite(r)
      PROVE  IInv'
  <2>1. /\ req[r] \in RequestState /\ HeldSound(req[r])
        /\ Goto(r, Idle) /\ clock \in Nat
      BY <1>7, <1>t DEF LogoutWrite, RequestSound, TypeOK, Finish
  <2>2. PICK t \in Token : t = req[r].token /\ t <= last
      BY <1>7, <2>1 DEF HeldSound, LogoutWrite
  <2>3. CASE UNCHANGED refresh_tokens
      BY <1>7, <2>1, <2>3, IdleSound, ReadStep DEF LogoutWrite
  <2>4. CASE Stored(t) /\ UpdateToken(t, clock, refresh_tokens[t].replaced_by)
    <3>1. PICK next \in Token \cup {None} : next = refresh_tokens[t].replaced_by
        BY <1>t, <2>4 DEF TypeOK, RefreshToken, Stored
    <3>2. /\ refresh_tokens' \in [Token -> RefreshToken \cup {None}]
          /\ Stored(t)'
          /\ refresh_tokens'[t].user_id = refresh_tokens[t].user_id
          /\ refresh_tokens'[t].revoked_at = clock
          /\ refresh_tokens'[t].replaced_by = refresh_tokens[t].replaced_by
          /\ \A s \in Token : s # t => refresh_tokens'[s] = refresh_tokens[s]
        BY <1>t, <2>1, <2>4, <3>1, UpdateTokenEffect
    <3>3. TypeOK'
        BY <1>7, <1>t, <2>1, <3>2, IdleSound DEF TypeOK, Goto, LogoutWrite
    <3>4. IdsSound' /\ RowsEvolve
        BY <1>7, <1>t, <2>2, <2>4, <3>2
           DEF IdsSound, RowsEvolve, Stored, TypeOK, LogoutWrite
    <3>5. LinksKept
      <4>1. clock # None
          BY <2>1, <1>t
      <4>2. \A s \in Token : Stored(s)' => s <= last
          BY <1>t, <2>2, <3>2 DEF IdsSound, Stored
      <4>3. \A s \in Token : refresh_tokens'[s].replaced_by = refresh_tokens[s].replaced_by
          BY <3>2
      <4>4. \A s \in Token :
               refresh_tokens[s].revoked_at # None => refresh_tokens'[s].revoked_at # None
          BY <3>2, <4>1
      <4>5. QED
          BY <4>2, <4>3, <4>4 DEF LinksKept
    <3>6. RotationSound'
        BY <1>t, <3>3, <3>4, <3>5, RotationKept
    <3>7. QED
        BY <2>1, <3>3, <3>4, <3>6, IdleSound, WriteStep
  <2>5. QED
      BY <1>7, <2>2, <2>3, <2>4 DEF LogoutWrite
<1>8. ASSUME NEW r \in Request, ResetPassword(r)
      PROVE  IInv'
  <2>1. PICK q \in {Idle, Running("revoke_all", req[r].user, None, None, None)} :
           Goto(r, q)
      BY <1>8 DEF ResetPassword, Finish
  <2>2. req[r] \in RequestState /\ HeldSound(req[r]) /\ req[r].at = "set_password"
      BY <1>8, <1>t DEF TypeOK, RequestSound, ResetPassword
  <2>3. q \in RequestState /\ HeldSound(q)'
      BY <2>2, IdleSound DEF Running, RequestState, Stage, HeldSound
  <2>4. TypeOK'
    <3>1. password' \in [User -> Password]
        BY <1>8, <1>t DEF ResetPassword, TypeOK, Password
    <3>2. QED
        BY <1>8, <1>t, <2>1, <2>3, <3>1 DEF ResetPassword, TypeOK, Goto
  <2>5. IdsSound' /\ RowsEvolve /\ LinksKept
      BY <1>8, <1>t DEF ResetPassword, IdsSound, RowsEvolve, LinksKept, Stored, TypeOK
  <2>6. QED
      BY <1>t, <2>1, <2>3, <2>4, <2>5, RotationKept, WriteStep
<1>9. ASSUME NEW r \in Request, RevokeAll(r)
      PROVE  IInv'
  <2>1. Goto(r, Idle) /\ UNCHANGED <<clock, users, password, last, verified>>
      BY <1>9 DEF RevokeAll, Finish
  <2>2. PICK u \in User : u = req[r].user /\ RevokeAllForUser(u)
      BY <1>9, <1>t DEF RevokeAll, RequestSound, HeldSound
  <2>3. /\ refresh_tokens' \in [Token -> RefreshToken \cup {None}]
        /\ \A t \in Token :
              /\ Stored(t)' <=> Stored(t)
              /\ Stored(t) =>
                   /\ refresh_tokens'[t].user_id = refresh_tokens[t].user_id
                   /\ refresh_tokens'[t].replaced_by = refresh_tokens[t].replaced_by
              /\ Stored(t) /\ refresh_tokens[t].revoked_at # None =>
                   refresh_tokens'[t].revoked_at = refresh_tokens[t].revoked_at
      BY <1>t, <2>2, RevokeAllEffect
  <2>4. TypeOK'
      BY <1>t, <2>1, <2>3, IdleSound DEF TypeOK, Goto
  <2>5. IdsSound' /\ RowsEvolve /\ LinksKept
      BY <1>t, <2>1, <2>3 DEF IdsSound, RowsEvolve, LinksKept, TypeOK
  <2>6. QED
      BY <1>t, <2>1, <2>4, <2>5, IdleSound, RotationKept, WriteStep
<1>10. ASSUME NEW u \in User, DeleteUser(u)
       PROVE  IInv'
  <2>1. \A t \in Token :
           /\ Stored(t)' => refresh_tokens'[t] = refresh_tokens[t] /\ Stored(t)
           /\ Stored(t) => (Stored(t)' <=> refresh_tokens[t].user_id # u)
      BY <1>10 DEF DeleteUser, Stored
  <2>2. TypeOK'
      BY <1>10, <1>t DEF DeleteUser, TypeOK
  <2>3. IdsSound' /\ RowsEvolve /\ LinksKept
      BY <1>10, <1>t, <2>1 DEF DeleteUser, IdsSound, RowsEvolve, LinksKept, TypeOK
  <2>4. \A q \in RequestState : HeldSound(q) => HeldSound(q)'
      BY <1>t, <2>2, <2>3, HeldSoundKept
  <2>5. RequestSound'
      BY <1>10, <1>t, <2>4 DEF DeleteUser, RequestSound, HeldSound, TypeOK
  <2>6. QED
      BY <1>t, <2>2, <2>3, <2>5, RotationKept DEF IInv
<1>11. ASSUME Tick \/ UNCHANGED vars
       PROVE  IInv'
  <2>1. clock' \in 0..MaxClock /\ UNCHANGED <<users, password, last, refresh_tokens, verified, req>>
      BY <1>11, <1>t DEF Tick, vars, TypeOK
  <2>2. QED
      BY <1>t, <2>1 DEF IInv, TypeOK, IdsSound, RequestSound, HeldSound, RotationSound, Stored
<1>12. ASSUME Crash
       PROVE  IInv'
  <2>1. TypeOK'
      BY <1>12, <1>t, IdleSound DEF Crash, TypeOK
  <2>2. IdsSound' /\ RotationSound'
      BY <1>12, <1>t DEF Crash, IdsSound, RotationSound, Stored
  <2>3. RequestSound'
      BY <1>12, IdleSound DEF Crash, RequestSound, HeldSound
  <2>4. QED
      BY <2>1, <2>2, <2>3 DEF IInv
<1>13. QED
    BY <1>1, <1>2, <1>3, <1>4, <1>5, <1>6, <1>7, <1>8, <1>9, <1>10, <1>11, <1>12 DEF Next

LEMMA Invariant == Spec => []IInv
<1>1. QED
    BY InitInvariant, NextInvariant, PTL DEF Spec

(***************************************************************************)
(* Every reachable state is well-typed.                                    *)
(***************************************************************************)
THEOREM TypeCorrect == Spec => []TypeOK
<1>1. IInv => TypeOK
    BY DEF IInv
<1>2. QED
    BY <1>1, Invariant, PTL

(***************************************************************************)
(* A retired token always has its successor in the database: whatever the  *)
(* interleaving of refreshes, logouts, revocations, deletions and crashes. *)
(***************************************************************************)
THEOREM RotationCorrect == Spec => []RotationSound
<1>1. IInv => RotationSound
    BY DEF IInv
<1>2. QED
    BY <1>1, Invariant, PTL

-----------------------------------------------------------------------------
(* A dead token stays dead *)

\* What the requests have to do with token t, one of them at a time.
RefreshesToken(q, t) == q.token = t /\ q.at \in {"get_user", "issue", "retire"}
LogsOutToken(q, t) == q.token = t /\ q.at = "logout"

\* A step leaves the row of t alone, removes it, or finds it expired.
RowKept(t) ==
    \/ refresh_tokens'[t] = refresh_tokens[t]
    \/ refresh_tokens'[t] = None
    \/ /\ Expired(t) /\ Stored(t)
       /\ refresh_tokens'[t] \in RefreshToken
       /\ refresh_tokens'[t].expires_at = refresh_tokens[t].expires_at

\* No request starts to refresh t; one that starts to log it out finds it expired.
RequestsKept(t) ==
    \A r \in Request :
        /\ RefreshesToken(req'[r], t) => RefreshesToken(req[r], t)
        /\ LogsOutToken(req'[r], t) => LogsOutToken(req[r], t) \/ Expired(t)

LEMMA DeadKept ==
    ASSUME TypeOK, NEW t \in Token, Dead(t),
           clock' \in Nat, clock <= clock', last' \in Nat, last <= last',
           RowKept(t), RequestsKept(t)
    PROVE  Dead(t)'
<1>t. /\ clock \in Nat /\ last \in Nat
      /\ refresh_tokens[t] = None \/ refresh_tokens[t] \in RefreshToken
      /\ t \in Nat
    BY SessionsAssumption DEF TypeOK, Token
<1>1. t <= last'
    BY <1>t DEF Dead
<1>2. ~Refreshing(t)'
    BY DEF Dead, Refreshing, RequestsKept, RefreshesToken
<1>3. CASE Expired(t)
  <2>1. Expired(t)'
    <3>1. CASE refresh_tokens'[t] = None
        BY <3>1 DEF Expired
    <3>2. CASE refresh_tokens'[t] # None
      <4>1. /\ refresh_tokens[t] \in RefreshToken
            /\ refresh_tokens'[t].expires_at = refresh_tokens[t].expires_at
          BY <1>t, <3>2 DEF RowKept, Stored
      <4>2. refresh_tokens[t].expires_at \in Nat /\ refresh_tokens[t].expires_at <= clock
          BY <1>3, <4>1, SessionsAssumption DEF Expired, RefreshToken
      <4>3. refresh_tokens'[t].expires_at <= clock'
          BY <1>t, <4>1, <4>2
      <4>4. QED
          BY <4>3 DEF Expired
    <3>3. QED
        BY <3>1, <3>2
  <2>2. refresh_tokens'[t] # None => refresh_tokens'[t].expires_at \in Nat
    <3>1. refresh_tokens'[t] # None => refresh_tokens'[t] \in RefreshToken
        BY <1>t DEF RowKept
    <3>2. QED
        BY <3>1 DEF RefreshToken
  <2>3. ~Refreshable(t)'
      BY <1>t, <2>1, <2>2 DEF Refreshable, Expired
  <2>4. QED
      BY <1>1, <1>2, <2>1, <2>3 DEF Dead
<1>4. CASE ~Expired(t)
  <2>1. /\ refresh_tokens[t] \in RefreshToken
        /\ clock < refresh_tokens[t].expires_at
        /\ refresh_tokens[t].revoked_at \in Nat
        /\ refresh_tokens[t].replaced_by = None
              \/ ~(clock - refresh_tokens[t].revoked_at <= Grace)
    <3>1. refresh_tokens[t] \in RefreshToken
        BY <1>4, <1>t DEF Expired
    <3>2. /\ refresh_tokens[t].expires_at \in Nat
          /\ refresh_tokens[t].revoked_at \in Nat \cup {None}
        BY <3>1 DEF RefreshToken
    <3>3. clock < refresh_tokens[t].expires_at
        BY <1>4, <1>t, <3>2 DEF Expired
    <3>4. ~Refreshable(t) /\ refresh_tokens[t] # None
        BY <3>1, SessionsAssumption DEF Dead
    <3>5. QED
        BY <3>1, <3>2, <3>3, <3>4 DEF Refreshable
  <2>2. refresh_tokens'[t] = None \/ refresh_tokens'[t] = refresh_tokens[t]
      BY <1>4 DEF RowKept
  <2>3. ~Refreshable(t)'
    <3>1. CASE refresh_tokens'[t] = None
        BY <3>1 DEF Refreshable
    <3>2. CASE refresh_tokens'[t] = refresh_tokens[t]
      <4>1. refresh_tokens[t].revoked_at # None
          BY <2>1, SessionsAssumption
      <4>2. ~(clock - refresh_tokens[t].revoked_at <= Grace)
               => ~(clock' - refresh_tokens[t].revoked_at <= Grace)
          BY <1>t, <2>1, SessionsAssumption
      <4>3. QED
          BY <2>1, <3>2, <4>1, <4>2 DEF Refreshable
    <3>3. QED
        BY <2>2, <3>1, <3>2
  <2>4. ~LoggingOut(t)'
      BY <1>4 DEF Dead, LoggingOut, RequestsKept, LogsOutToken
  <2>5. QED
      BY <1>1, <1>2, <2>3, <2>4 DEF Dead
<1>5. QED
    BY <1>3, <1>4

\* One request moves on, and neither starts to refresh t nor to log it out.
LEMMA RequestMoves ==
    ASSUME TypeOK, NEW t \in Token, NEW r \in Request, NEW next, Goto(r, next),
           RefreshesToken(next, t) => RefreshesToken(req[r], t),
           LogsOutToken(next, t) => LogsOutToken(req[r], t) \/ Expired(t)
    PROVE  RequestsKept(t)
<1>1. \A q \in Request : req'[q] = IF q = r THEN next ELSE req[q]
    BY DEF Goto, TypeOK
<1>2. QED
    BY <1>1 DEF RequestsKept

LEMMA DeadNext ==
    ASSUME IInv, [Next]_vars, NEW t \in Token, Dead(t)
    PROVE  Dead(t)'
<1>t. TypeOK /\ IdsSound /\ RequestSound /\ SessionsAssumption
    BY SessionsAssumption DEF IInv
<1>n. clock \in Nat /\ last \in Nat /\ t \in Nat /\ t <= last
    BY <1>t DEF TypeOK, Dead, Token
<1>d. ~Refreshable(t) /\ ~Refreshing(t) /\ (Expired(t) \/ ~LoggingOut(t))
    BY DEF Dead
<1>1. ASSUME NEW r \in Request, NEW u \in User,
             Login(r, u) \/ GoogleLogin(r, u) \/ LogoutEverywhere(r, u) \/ Reset(r, u)
      PROVE  Dead(t)'
  <2>1. PICK next \in {Running("sign_in", u, None, None, password[u]),
                       Running("sign_in", u, None, None, None),
                       Running("revoke_all", u, None, None, None),
                       Running("set_password", u, None, None, None)} : Goto(r, next)
      BY <1>1 DEF Login, GoogleLogin, LogoutEverywhere, Reset
  <2>2. RequestsKept(t)
      BY <1>t, <2>1, RequestMoves DEF Running, RefreshesToken, LogsOutToken
  <2>3. UNCHANGED <<clock, last, refresh_tokens>>
      BY <1>1 DEF Login, GoogleLogin, LogoutEverywhere, Reset
  <2>4. QED
      BY <1>t, <1>n, <2>2, <2>3, DeadKept DEF RowKept
<1>2. ASSUME NEW r \in Request, NEW s \in Token, RefreshAccepted(r, s)
      PROVE  Dead(t)'
  <2>1. Refreshable(s)
      BY <1>2 DEF RefreshAccepted, Accepts, Rotated, InGrace, Refreshable, Stored
  <2>2. s # t
      BY <1>d, <2>1
  <2>3. PICK u : Goto(r, Running("get_user", u, s, None, None))
      BY <1>2 DEF RefreshAccepted
  <2>4. RequestsKept(t)
      BY <1>t, <2>2, <2>3, RequestMoves DEF Running, RefreshesToken, LogsOutToken
  <2>5. QED
      BY <1>2, <1>t, <1>n, <2>4, DeadKept DEF RefreshAccepted, RowKept
<1>3. ASSUME NEW r \in Request, NEW s \in Token, RefreshReplayed(r, s)
      PROVE  Dead(t)'
  <2>1. PICK u : Goto(r, Running("revoke_all", u, None, None, None))
      BY <1>3 DEF RefreshReplayed
  <2>2. RequestsKept(t)
      BY <1>t, <2>1, RequestMoves DEF Running, RefreshesToken, LogsOutToken
  <2>3. QED
      BY <1>3, <1>t, <1>n, <2>2, DeadKept DEF RefreshReplayed, RowKept
<1>4. ASSUME NEW r \in Request, NEW s \in Token, Logout(r, s)
      PROVE  Dead(t)'
  <2>1. PICK at, u :
           /\ at \in {"logout", "logged_out"}
           /\ Goto(r, Running(at, u, s, None, None))
           /\ at = "logout" => refresh_tokens[s].revoked_at = None
      BY <1>4 DEF Logout
  <2>2. (at = "logout" /\ s = t) => Expired(t)
    <3>1. SUFFICES ASSUME refresh_tokens[t].revoked_at = None, refresh_tokens[t] # None
                   PROVE  Expired(t)
        BY <1>4, <2>1 DEF Logout, Stored
    <3>2. ~(clock < refresh_tokens[t].expires_at) /\ refresh_tokens[t].expires_at \in Nat
        BY <1>t, <1>d, <3>1 DEF Refreshable, TypeOK, RefreshToken
    <3>3. QED
        BY <1>n, <3>2 DEF Expired
  <2>3. RequestsKept(t)
      BY <1>t, <2>1, <2>2, RequestMoves DEF Running, RefreshesToken, LogsOutToken
  <2>4. QED
      BY <1>4, <1>t, <1>n, <2>3, DeadKept DEF Logout, RowKept
<1>5. ASSUME NEW r \in Request, SignInIssue(r)
      PROVE  Dead(t)'
  <2>1. RequestsKept(t)
      BY <1>5, <1>t, RequestMoves
         DEF SignInIssue, Finish, Idle, Running, RefreshesToken, LogsOutToken
  <2>2. last' \in Nat /\ last <= last' /\ refresh_tokens'[t] = refresh_tokens[t]
      BY <1>5, <1>t, <1>n DEF SignInIssue, IssueToken, TypeOK
  <2>3. QED
      BY <1>5, <1>t, <1>n, <2>1, <2>2, DeadKept DEF SignInIssue, RowKept
<1>6. ASSUME NEW r \in Request, RefreshGetUser(r)
      PROVE  Dead(t)'
  <2>1. PICK next \in {Running("issue", req[r].user, req[r].token, None, None), Idle} :
           Goto(r, next)
      BY <1>6 DEF RefreshGetUser, Finish
  <2>2. RequestsKept(t)
      BY <1>6, <1>t, <2>1, RequestMoves
         DEF RefreshGetUser, Idle, Running, RefreshesToken, LogsOutToken
  <2>3. QED
      BY <1>6, <1>t, <1>n, <2>2, DeadKept DEF RefreshGetUser, RowKept
<1>7. ASSUME NEW r \in Request, RefreshIssue(r)
      PROVE  Dead(t)'
  <2>1. PICK next \in {Running("retire", req[r].user, req[r].token, last + 1, None), Idle} :
           Goto(r, next)
      BY <1>7 DEF RefreshIssue, Finish
  <2>2. RequestsKept(t)
      BY <1>7, <1>t, <2>1, RequestMoves
         DEF RefreshIssue, Idle, Running, RefreshesToken, LogsOutToken
  <2>3. last' \in Nat /\ last <= last' /\ refresh_tokens'[t] = refresh_tokens[t]
      BY <1>7, <1>t, <1>n DEF RefreshIssue, IssueToken, TypeOK
  <2>4. QED
      BY <1>7, <1>t, <1>n, <2>2, <2>3, DeadKept DEF RefreshIssue, RowKept
<1>8. ASSUME NEW r \in Request, RefreshRetire(r)
      PROVE  Dead(t)'
  <2>1. RequestsKept(t)
      BY <1>8, <1>t, RequestMoves
         DEF RefreshRetire, Finish, Idle, Running, RefreshesToken, LogsOutToken
  <2>2. req[r].token # t
      BY <1>8, <1>d DEF RefreshRetire, Refreshing
  <2>3. refresh_tokens'[t] = refresh_tokens[t]
      BY <1>8, <1>t, <2>2 DEF RefreshRetire, UpdateToken, TypeOK
  <2>4. QED
      BY <1>8, <1>t, <1>n, <2>1, <2>3, DeadKept DEF RefreshRetire, RowKept
<1>9. ASSUME NEW r \in Request, LogoutWrite(r)
      PROVE  Dead(t)'
  <2>1. RequestsKept(t)
      BY <1>9, <1>t, RequestMoves
         DEF LogoutWrite, Finish, Idle, Running, RefreshesToken, LogsOutToken
  <2>2. RowKept(t)
    <3>1. CASE req[r].at = "logout" /\ req[r].token = t /\ Stored(t)
      <4>1. Expired(t)
          BY <1>d, <3>1 DEF LoggingOut
      <4>2. UpdateToken(t, clock, refresh_tokens[t].replaced_by)
          BY <1>9, <3>1 DEF LogoutWrite
      <4>3. PICK next \in Token \cup {None} : next = refresh_tokens[t].replaced_by
          BY <1>t, <3>1 DEF TypeOK, RefreshToken, Stored
      <4>4. /\ refresh_tokens[t] \in RefreshToken
            /\ refresh_tokens'[t] = [user_id |-> refresh_tokens[t].user_id,
                                     expires_at |-> refresh_tokens[t].expires_at,
                                     revoked_at |-> clock, replaced_by |-> next]
          BY <1>t, <3>1, <4>2, <4>3 DEF TypeOK, Stored, UpdateToken
      <4>5. refresh_tokens'[t] \in RefreshToken
          BY <1>n, <4>4 DEF RefreshToken
      <4>6. QED
          BY <3>1, <4>1, <4>4, <4>5 DEF RowKept
    <3>2. CASE ~(req[r].at = "logout" /\ req[r].token = t /\ Stored(t))
        BY <1>9, <1>t, <3>2 DEF LogoutWrite, UpdateToken, TypeOK, RowKept
    <3>3. QED
        BY <3>1, <3>2
  <2>3. QED
      BY <1>9, <1>t, <1>n, <2>1, <2>2, DeadKept DEF LogoutWrite
<1>10. ASSUME NEW r \in Request, ResetPassword(r)
       PROVE  Dead(t)'
  <2>1. PICK next \in {Running("revoke_all", req[r].user, None, None, None), Idle} : Goto(r, next)
      BY <1>10 DEF ResetPassword, Finish
  <2>2. RequestsKept(t)
      BY <1>t, <2>1, RequestMoves DEF Idle, Running, RefreshesToken, LogsOutToken
  <2>3. QED
      BY <1>10, <1>t, <1>n, <2>2, DeadKept DEF ResetPassword, RowKept
<1>11. ASSUME NEW r \in Request, RevokeAll(r)
       PROVE  Dead(t)'
  <2>1. RequestsKept(t)
      BY <1>11, <1>t, RequestMoves
         DEF RevokeAll, Finish, Idle, Running, RefreshesToken, LogsOutToken
  <2>2. RowKept(t)
    <3>1. CASE Stored(t) /\ refresh_tokens[t].revoked_at = None
      <4>1. Expired(t)
        <5>1. ~(clock < refresh_tokens[t].expires_at) /\ refresh_tokens[t].expires_at \in Nat
            BY <1>t, <1>d, <3>1 DEF Refreshable, TypeOK, RefreshToken, Stored
        <5>2. QED
            BY <1>n, <5>1 DEF Expired
      <4>2. refresh_tokens[t] \in RefreshToken
          BY <1>t, <3>1 DEF TypeOK, Stored
      <4>3. \/ refresh_tokens'[t] = refresh_tokens[t]
            \/ refresh_tokens'[t] = [refresh_tokens[t] EXCEPT !.revoked_at = clock]
          BY <1>11 DEF RevokeAll, RevokeAllForUser
      <4>4. QED
          BY <1>n, <3>1, <4>1, <4>2, <4>3 DEF RowKept, RefreshToken
    <3>2. CASE ~(Stored(t) /\ refresh_tokens[t].revoked_at = None)
        BY <1>11, <3>2 DEF RevokeAll, RevokeAllForUser, RowKept
    <3>3. QED
        BY <3>1, <3>2
  <2>3. QED
      BY <1>11, <1>t, <1>n, <2>1, <2>2, DeadKept DEF RevokeAll
<1>12. ASSUME NEW u \in User, DeleteUser(u)
       PROVE  Dead(t)'
  <2>1. RequestsKept(t) /\ RowKept(t)
      BY <1>12 DEF DeleteUser, RequestsKept, RowKept
  <2>2. QED
      BY <1>12, <1>t, <1>n, <2>1, DeadKept DEF DeleteUser
<1>13. ASSUME Tick \/ UNCHANGED vars
       PROVE  Dead(t)'
  <2>1. RequestsKept(t) /\ RowKept(t)
      BY <1>13 DEF Tick, vars, RequestsKept, RowKept
  <2>2. clock' \in Nat /\ clock <= clock' /\ last' = last
      BY <1>13, <1>n DEF Tick, vars
  <2>3. QED
      BY <1>t, <1>n, <2>1, <2>2, DeadKept
<1>14. ASSUME Crash
       PROVE  Dead(t)'
  <2>1. RequestsKept(t) /\ RowKept(t)
      BY <1>14 DEF Crash, RequestsKept, RowKept, Idle, Running, RefreshesToken, LogsOutToken
  <2>2. QED
      BY <1>14, <1>t, <1>n, <2>1, DeadKept DEF Crash
<1>15. QED
    BY <1>1, <1>2, <1>3, <1>4, <1>5, <1>6, <1>7, <1>8, <1>9, <1>10, <1>11, <1>12, <1>13, <1>14 DEF Next

(***************************************************************************)
(* Revocation is real: a token that refresh refuses, and that no running   *)
(* request can still write, is refused for ever, for any number of users,  *)
(* requests and tokens, and any grace period.                              *)
(***************************************************************************)
THEOREM DeadTokensStayDead == Spec => DeadStaysDead
<1>1. IInv /\ [Next]_vars => [\A t \in Token : Dead(t) => Dead(t)']_vars
    BY DeadNext
<1>2. QED
    BY <1>1, Invariant, PTL DEF Spec, DeadStaysDead

-----------------------------------------------------------------------------
(* A refresh has its row, and rows stay with their owner *)


Anchored(q) ==
    q.at \in {"get_user", "issue", "retire"} =>
        (Stored(q.token) \/ q.user \notin users)

AnchorSound == \A r \in Request : Anchored(req[r])

LInv == IInv /\ AnchorSound

\* How a step may change the tables: no account comes back, rows keep their
\* owner, and a row goes only together with its owner.
RowsStay ==
    /\ users' \subseteq users
    /\ \A t \in Token :
          /\ (t <= last /\ Stored(t)') => /\ Stored(t)
                                          /\ refresh_tokens'[t].user_id = refresh_tokens[t].user_id
          /\ Stored(t) => Stored(t)' \/ refresh_tokens[t].user_id \notin users'

-----------------------------------------------------------------------------
(* Rows and accounts *)

LEMMA RowsStayNext == ASSUME IInv, [Next]_vars PROVE RowsStay
<1> USE SessionsAssumption
<1>t. TypeOK /\ IdsSound /\ RequestSound
    BY DEF IInv
<1>u. CASE UNCHANGED <<users, refresh_tokens>>
    BY <1>u DEF RowsStay, Stored
<1>i. ASSUME NEW u \in User, NEW pw \in Password \cup {None}, last < MaxTokens,
             IssueToken(u, pw), UNCHANGED users
      PROVE  RowsStay
  <2>1. \A t \in Token : t # last + 1 => refresh_tokens'[t] = refresh_tokens[t]
      BY <1>t, <1>i, IssueTokenEffect
  <2>2. \A t \in Token : t <= last => t # last + 1
      BY <1>t DEF TypeOK, Token
  <2>3. QED
      BY <1>t, <1>i, <2>1, <2>2 DEF RowsStay, Stored, IdsSound
<1>w. ASSUME NEW t \in Token, NEW at \in Nat \cup {None}, NEW next \in Token \cup {None},
             Stored(t), UpdateToken(t, at, next), UNCHANGED users
      PROVE  RowsStay
  <2>1. /\ Stored(t)'
        /\ refresh_tokens'[t].user_id = refresh_tokens[t].user_id
        /\ \A s \in Token : s # t => refresh_tokens'[s] = refresh_tokens[s]
      BY <1>t, <1>w, UpdateTokenEffect
  <2>2. QED
      BY <1>w, <2>1 DEF RowsStay, Stored
<1>1. ASSUME NEW r \in Request, SignInIssue(r) PROVE RowsStay
  <2>1. req[r].user \in User /\ req[r].password \in Password \cup {None}
      BY <1>1, <1>t DEF SignInIssue, RequestSound, HeldSound, TypeOK, RequestState
  <2>2. QED
      BY <1>1, <1>u, <1>i, <2>1 DEF SignInIssue
<1>2. ASSUME NEW r \in Request, RefreshIssue(r) PROVE RowsStay
  <2>1. req[r].user \in User /\ verified[req[r].token] \in Password \cup {None}
      BY <1>2, <1>t DEF RefreshIssue, RequestSound, HeldSound, TypeOK
  <2>2. QED
      BY <1>2, <1>u, <1>i, <2>1 DEF RefreshIssue
<1>3. ASSUME NEW r \in Request, RefreshRetire(r) PROVE RowsStay
  <2>1. /\ req[r].token \in Token /\ req[r].new \in Token /\ clock \in Nat
      BY <1>3, <1>t DEF RefreshRetire, RequestSound, HeldSound, TypeOK
  <2>2. QED
      BY <1>3, <1>u, <1>w, <2>1 DEF RefreshRetire
<1>4. ASSUME NEW r \in Request, LogoutWrite(r) PROVE RowsStay
  <2>1. req[r].token \in Token /\ clock \in Nat
      BY <1>4, <1>t DEF LogoutWrite, RequestSound, HeldSound, TypeOK
  <2>2. Stored(req[r].token) => refresh_tokens[req[r].token].replaced_by \in Token \cup {None}
      BY <1>t, <2>1 DEF TypeOK, RefreshToken, Stored
  <2>3. QED
      BY <1>4, <1>u, <1>w, <2>1, <2>2 DEF LogoutWrite
<1>5. ASSUME NEW r \in Request, RevokeAll(r) PROVE RowsStay
  <2>1. PICK u \in User : u = req[r].user /\ RevokeAllForUser(u)
      BY <1>5, <1>t DEF RevokeAll, RequestSound, HeldSound
  <2>2. \A t \in Token :
           /\ Stored(t)' <=> Stored(t)
           /\ Stored(t) => refresh_tokens'[t].user_id = refresh_tokens[t].user_id
      BY <1>t, <2>1, RevokeAllEffect
  <2>3. QED
      BY <1>5, <2>2 DEF RevokeAll, RowsStay
<1>6. ASSUME NEW u \in User, DeleteUser(u) PROVE RowsStay
    BY <1>6 DEF DeleteUser, RowsStay, Stored
<1>7. QED
  <2>1. ASSUME NEW r \in Request, NEW u \in User,
               Login(r, u) \/ GoogleLogin(r, u) \/ LogoutEverywhere(r, u) \/ Reset(r, u)
        PROVE  RowsStay
      BY <2>1, <1>u DEF Login, GoogleLogin, LogoutEverywhere, Reset
  <2>2. ASSUME NEW r \in Request, NEW t \in Token,
               RefreshAccepted(r, t) \/ RefreshReplayed(r, t) \/ Logout(r, t)
        PROVE  RowsStay
      BY <2>2, <1>u DEF RefreshAccepted, RefreshReplayed, Logout
  <2>3. ASSUME NEW r \in Request, RefreshGetUser(r) \/ ResetPassword(r)
        PROVE  RowsStay
      BY <2>3, <1>u DEF RefreshGetUser, ResetPassword
  <2>4. Tick \/ Crash \/ UNCHANGED vars => RowsStay
      BY <1>u DEF Tick, Crash, vars
  <2>5. QED
      BY <1>1, <1>2, <1>3, <1>4, <1>5, <1>6, <2>1, <2>2, <2>3, <2>4 DEF Next

-----------------------------------------------------------------------------
(* A refresh under way has its row, or its user is gone *)

LEMMA AnchorNext == ASSUME LInv, [Next]_vars PROVE AnchorSound'
<1> USE SessionsAssumption
<1>t. TypeOK /\ IdsSound /\ RequestSound /\ AnchorSound /\ RowsStay
    BY RowsStayNext DEF LInv, IInv
<1>1. ASSUME NEW q \in RequestState, HeldSound(q), Anchored(q)
      PROVE  Anchored(q)'
    BY <1>t, <1>1 DEF Anchored, HeldSound, RowsStay
<1>2. \A r \in Request : Anchored(req[r])'
                            \/ req'[r] # req[r]
    BY <1>t, <1>1 DEF AnchorSound, RequestSound, Anchored, HeldSound, TypeOK
<1>3. ASSUME NEW r \in Request, NEW next, Goto(r, next), Anchored(next)'
      PROVE  AnchorSound'
  <2>1. \A s \in Request : req'[s] = IF s = r THEN next ELSE req[s]
      BY <1>t, <1>3 DEF Goto, TypeOK
  <2>2. QED
      BY <1>2, <1>3, <2>1 DEF AnchorSound, Anchored
<1>4. ASSUME NEW r \in Request, NEW next,
             Goto(r, next), next.at \notin {"get_user", "issue", "retire"}
      PROVE  AnchorSound'
    BY <1>3, <1>4 DEF Anchored
<1>5. Idle.at \notin {"get_user", "issue", "retire"}
    BY DEF Idle, Running
<1>6. ASSUME NEW r \in Request, Finish(r) PROVE AnchorSound'
    BY <1>4, <1>5, <1>6 DEF Finish
<1>7. ASSUME NEW r \in Request, NEW u \in User,
             Login(r, u) \/ GoogleLogin(r, u) \/ LogoutEverywhere(r, u) \/ Reset(r, u)
      PROVE  AnchorSound'
    BY <1>4, <1>7 DEF Login, GoogleLogin, LogoutEverywhere, Reset, Running
<1>8. ASSUME NEW r \in Request, NEW t \in Token, RefreshAccepted(r, t)
      PROVE  AnchorSound'
  <2>1. PICK next : /\ next = Running("get_user", refresh_tokens[t].user_id, t, None, None)
                    /\ Goto(r, next)
      BY <1>8 DEF RefreshAccepted
  <2>2. next.token = t /\ Stored(t)'
      BY <1>8, <2>1 DEF RefreshAccepted, Running, Stored
  <2>3. QED
      BY <1>3, <2>1, <2>2 DEF Anchored
<1>9. ASSUME NEW r \in Request, NEW t \in Token, RefreshReplayed(r, t) \/ Logout(r, t)
      PROVE  AnchorSound'
    BY <1>4, <1>9 DEF RefreshReplayed, Logout, Running
<1>10. ASSUME NEW r \in Request, RefreshGetUser(r)
       PROVE  AnchorSound'
  <2>1. CASE Finish(r)
      BY <1>6, <2>1
  <2>2. CASE Goto(r, Running("issue", req[r].user, req[r].token, None, None))
    <3>1. PICK next : /\ next = Running("issue", req[r].user, req[r].token, None, None)
                      /\ Goto(r, next)
        BY <2>2
    <3>2. Anchored(next)'
        BY <1>10, <1>t, <3>1 DEF RefreshGetUser, Running, AnchorSound, Anchored, Stored
    <3>3. QED
        BY <1>3, <3>1, <3>2
  <2>3. QED
      BY <1>10, <2>1, <2>2 DEF RefreshGetUser
<1>11. ASSUME NEW r \in Request, RefreshIssue(r)
       PROVE  AnchorSound'
  <2>1. CASE Finish(r)
      BY <1>6, <2>1
  <2>2. CASE Goto(r, Running("retire", req[r].user, req[r].token, last + 1, None))
    <3>1. PICK next : /\ next = Running("retire", req[r].user, req[r].token, last + 1, None)
                      /\ Goto(r, next)
        BY <2>2
    <3>2. /\ next.token = req[r].token /\ next.user = req[r].user
          /\ req[r].token \in Token
          /\ Stored(req[r].token) => refresh_tokens[req[r].token].user_id = req[r].user
          /\ Stored(req[r].token) \/ req[r].user \notin users
        BY <1>11, <1>t, <3>1 DEF RefreshIssue, Running, RequestSound, HeldSound, AnchorSound, Anchored
    <3>3. Anchored(next)'
        BY <1>t, <3>2 DEF RowsStay, Anchored
    <3>4. QED
        BY <1>3, <3>1, <3>3
  <2>3. QED
      BY <1>11, <2>1, <2>2 DEF RefreshIssue
<1>12. ASSUME NEW r \in Request,
              SignInIssue(r) \/ RefreshRetire(r) \/ LogoutWrite(r) \/ RevokeAll(r)
       PROVE  AnchorSound'
    BY <1>6, <1>12 DEF SignInIssue, RefreshRetire, LogoutWrite, RevokeAll
<1>13. ASSUME NEW r \in Request, ResetPassword(r)
       PROVE  AnchorSound'
    BY <1>4, <1>6, <1>13 DEF ResetPassword, Running
<1>14. ASSUME Tick \/ UNCHANGED vars \/ \E u \in User : DeleteUser(u)
       PROVE  AnchorSound'
  <2>1. req' = req
      BY <1>14 DEF Tick, vars, DeleteUser
  <2>2. QED
      BY <1>2, <2>1 DEF AnchorSound
<1>15. ASSUME Crash PROVE AnchorSound'
    BY <1>5, <1>15 DEF Crash, AnchorSound, Anchored
<1>16. QED
    BY <1>7, <1>8, <1>9, <1>10, <1>11, <1>12, <1>13, <1>14, <1>15 DEF Next

LEMMA LifecycleInvariant == Spec => []LInv
<1>1. Init => LInv
  <2>1. Init => AnchorSound
      BY DEF Init, AnchorSound, Anchored, Idle, Running
  <2>2. QED
      BY <2>1, InitInvariant DEF LInv
<1>2. LInv /\ [Next]_vars => LInv'
    BY NextInvariant, AnchorNext DEF LInv
<1>3. QED
    BY <1>1, <1>2, PTL DEF Spec

-----------------------------------------------------------------------------
(* What a step does to the sessions that SessionLifecycle sees *)

\* Rows that were there before the step are alive after it only if they were.
LEMMA LivingOld ==
    ASSUME LInv, [Next]_vars, NEW t \in Token, t <= last, Living(t)'
    PROVE  Living(t) /\ refresh_tokens'[t].user_id = refresh_tokens[t].user_id
<1>1. Dead(t) => Dead(t)'
    BY DeadNext DEF LInv
<1>2. RowsStay
    BY RowsStayNext DEF LInv
<1>3. QED
    BY <1>1, <1>2 DEF Living, RowsStay

LEMMA StepEnds ==
    ASSUME LInv, [Next]_vars, last' = last,
           \A u \in User : SigningIn(u)' \subseteq SigningIn(u)
    PROVE  Lifecycle!End
<1>1. \A t \in Token : Stored(t)' => t <= last
    BY NextInvariant DEF LInv, IInv, IdsSound
<1>2. \A t \in Token :
         Living(t)' => (/\ Living(t)
                        /\ refresh_tokens'[t].user_id = refresh_tokens[t].user_id)
    BY <1>1, LivingOld DEF Living
<1>3. LivingSessions' \subseteq LivingSessions
    BY <1>2 DEF LivingSessions
<1>4. \A u \in User : SignIns'[u] \subseteq SignIns[u]
    BY DEF SignIns
<1>5. QED
    BY <1>3, <1>4 DEF Lifecycle!End, BornTokens

\* A request that moves on to anything but a sign-in opens none.
LEMMA SigningMoves ==
    ASSUME TypeOK, NEW r \in Request, NEW next, Goto(r, next), next.at # "sign_in"
    PROVE  \A u \in User : SigningIn(u)' = SigningIn(u) \ {r}
<1>1. \A q \in Request : req'[q] = IF q = r THEN next ELSE req[q]
    BY DEF Goto, TypeOK
<1>2. QED
    BY <1>1 DEF SigningIn

LEMMA MoveEnds ==
    ASSUME LInv, [Next]_vars, last' = last,
           NEW r \in Request, NEW next, Goto(r, next), next.at # "sign_in"
    PROVE  Lifecycle!End
    BY SigningMoves, StepEnds DEF LInv, IInv

\* Whether a session lives depends on its row, the clock and the requests that hold it.
LEMMA LivingSame ==
    ASSUME TypeOK, NEW t \in Token, t <= last, t <= last',
           clock' = clock, refresh_tokens'[t] = refresh_tokens[t],
           NEW r \in Request, NEW next, Goto(r, next),
           RefreshesToken(next, t) <=> RefreshesToken(req[r], t),
           LogsOutToken(next, t) <=> LogsOutToken(req[r], t)
    PROVE  Living(t)' <=> Living(t)
<1>1. \A q \in Request : req'[q] = IF q = r THEN next ELSE req[q]
    BY DEF Goto, TypeOK
<1>2. \A q \in Request : /\ RefreshesToken(req'[q], t) <=> RefreshesToken(req[q], t)
                         /\ LogsOutToken(req'[q], t) <=> LogsOutToken(req[q], t)
    BY <1>1
<1>3. Refreshing(t)' <=> Refreshing(t)
    BY <1>2 DEF Refreshing, RefreshesToken
<1>4. LoggingOut(t)' <=> LoggingOut(t)
    BY <1>2 DEF LoggingOut, LogsOutToken
<1>5. (Refreshable(t)' <=> Refreshable(t)) /\ (Expired(t)' <=> Expired(t)) /\ (Stored(t)' <=> Stored(t))
    BY DEF Refreshable, Expired, Stored
<1>6. QED
    BY <1>3, <1>4, <1>5 DEF Living, Dead

\* An INSERT opens exactly one session, and touches no other.
LEMMA IssueCreates ==
    ASSUME LInv, [Next]_vars, NEW u \in User, NEW pw \in Password \cup {None},
           NEW new \in Nat, new = last + 1,
           last < MaxTokens, IssueToken(u, pw), clock' = clock,
           NEW r \in Request, NEW next, Goto(r, next),
           \A t \in Token : /\ RefreshesToken(next, t) <=> RefreshesToken(req[r], t)
                            /\ LogsOutToken(next, t) <=> LogsOutToken(req[r], t)
    PROVE  new \in Token /\ Lifecycle!Create(new, u)
<1> USE SessionsAssumption
<1>t. TypeOK /\ IdsSound /\ IdsSound' /\ last \in Nat /\ clock \in Nat
    BY NextInvariant DEF LInv, IInv, TypeOK
<1>1. /\ new \in Token
      /\ last' = new
      /\ refresh_tokens'[new] = [user_id |-> u, expires_at |-> clock + Lifetime,
                                      revoked_at |-> None, replaced_by |-> None]
      /\ \A t \in Token : t # new => refresh_tokens'[t] = refresh_tokens[t]
    BY <1>t, IssueTokenEffect
<1>2. ASSUME NEW t \in Token, t <= last
      PROVE  /\ Living(t)' <=> Living(t)
             /\ refresh_tokens'[t].user_id = refresh_tokens[t].user_id
  <2>1. t # new /\ t <= last'
      BY <1>t, <1>1, <1>2 DEF Token
  <2>2. refresh_tokens'[t] = refresh_tokens[t]
      BY <1>1, <2>1
  <2>3. QED
      BY <1>t, <1>2, <2>1, <2>2, LivingSame
<1>3. Living(new)' /\ refresh_tokens'[new].user_id = u
  <2>1. refresh_tokens'[new] \in RefreshToken
      BY <1>t, <1>1 DEF RefreshToken
  <2>2. clock < clock + Lifetime
      BY <1>t
  <2>3. Refreshable(new)'
      BY <1>1, <2>1, <2>2 DEF Refreshable
  <2>4. QED
      BY <1>1, <2>1, <2>3 DEF Living, Dead, Stored
<1>4. \A t \in Token : ~(t <= last) => (~Living(t) /\ (t # new => ~Living(t)'))
  <2>1. \A t \in Token : ~(t <= last) => (~Stored(t) /\ (t # new => ~(t <= last')))
      BY <1>t, <1>1 DEF IdsSound, Token
  <2>2. QED
      BY <1>t, <2>1 DEF IdsSound, Living
<1>5. \A t \in Token : Living(t)' <=> (Living(t) \/ t = new)
    BY <1>1, <1>2, <1>3, <1>4
<1>6. \A t \in Token : Living(t) => refresh_tokens'[t].user_id = refresh_tokens[t].user_id
    BY <1>2, <1>4
<1>7. LivingSessions' = LivingSessions \cup {<<new, u>>}
    BY <1>1, <1>3, <1>5, <1>6 DEF LivingSessions
<1>8. BornTokens' = BornTokens \cup {new} /\ new \notin BornTokens
    BY <1>t, <1>1 DEF BornTokens
<1>9. QED
    BY <1>1, <1>7, <1>8 DEF Lifecycle!Create

-----------------------------------------------------------------------------
(* Every step of Sessions is a step of SessionLifecycle *)

LEMMA LifecycleInit == Init => Lifecycle!Init
<1> SUFFICES ASSUME Init PROVE Lifecycle!Init
    OBVIOUS
<1>1. BornTokens = {}
    BY DEF Init, BornTokens
<1>2. LivingSessions = {}
    BY DEF Init, LivingSessions, Living, Stored
<1>3. SignIns = [u \in User |-> {}]
    BY DEF Init, SignIns, SigningIn, Idle, Running
<1>4. QED
    BY <1>1, <1>2, <1>3 DEF Lifecycle!Init

LEMMA AskStep ==
    ASSUME LInv, NEW r \in Request, NEW u \in User, Login(r, u) \/ GoogleLogin(r, u)
    PROVE  Lifecycle!Ask(u, r)
<1>t. TypeOK
    BY DEF LInv, IInv
<1>1. PICK next : /\ next.at = "sign_in" /\ next.user = u /\ next.token = None
                  /\ Goto(r, next)
    BY DEF Login, GoogleLogin, Running
<1>2. /\ req[r].at = "idle"
      /\ UNCHANGED <<clock, last, refresh_tokens>>
      /\ \A q \in Request : req'[q] = IF q = r THEN next ELSE req[q]
    BY <1>t, <1>1 DEF Login, GoogleLogin, Goto, TypeOK
<1>3. \A v \in User : r \notin SigningIn(v)
    BY <1>2 DEF SigningIn
<1>4. \A v \in User : SigningIn(v)' = IF v = u THEN SigningIn(v) \cup {r} ELSE SigningIn(v)
    BY <1>1, <1>2 DEF SigningIn
<1>5. SignIns' = [SignIns EXCEPT ![u] = @ \cup {r}]
    BY <1>4 DEF SignIns
<1>6. \A t \in Token : Living(t)' <=> Living(t)
  <2> SUFFICES ASSUME NEW t \in Token PROVE Living(t)' <=> Living(t)
      OBVIOUS
  <2>1. CASE t <= last
    <3>1. ~RefreshesToken(next, t) /\ ~RefreshesToken(req[r], t)
        BY <1>1, <1>2 DEF RefreshesToken
    <3>2. ~LogsOutToken(next, t) /\ ~LogsOutToken(req[r], t)
        BY <1>1, <1>2 DEF LogsOutToken
    <3>3. QED
        BY <1>t, <1>1, <1>2, <2>1, <3>1, <3>2, LivingSame
  <2>2. CASE ~(t <= last)
      BY <1>2, <2>2 DEF LInv, IInv, IdsSound, Living, Stored
  <2>3. QED
      BY <2>1, <2>2
<1>7. LivingSessions' = LivingSessions /\ BornTokens' = BornTokens
    BY <1>2, <1>6 DEF LivingSessions, BornTokens
<1>8. QED
    BY <1>3, <1>5, <1>7 DEF Lifecycle!Ask, SignIns

LEMMA SignInStep ==
    ASSUME LInv, [Next]_vars, NEW r \in Request, SignInIssue(r)
    PROVE  Lifecycle!Next
<1>t. TypeOK /\ RequestSound /\ last \in Nat
    BY DEF LInv, IInv, TypeOK
<1>1. /\ Goto(r, Idle) /\ req[r].at = "sign_in" /\ Idle.at = "idle" /\ clock' = clock
      /\ req[r].user \in User /\ req[r].password \in Password \cup {None}
    BY <1>t DEF SignInIssue, Finish, Idle, Running, RequestSound, HeldSound, TypeOK, RequestState
<1>2. CASE UNCHANGED <<last, refresh_tokens, verified>>
    BY <1>1, <1>2, MoveEnds DEF Lifecycle!Next
<1>3. CASE last < MaxTokens /\ IssueToken(req[r].user, req[r].password)
  <2>1. PICK u \in User, new \in Nat : u = req[r].user /\ new = last + 1
      BY <1>t, <1>1
  <2>2. \A t \in Token : /\ ~RefreshesToken(Idle, t) /\ ~RefreshesToken(req[r], t)
                         /\ ~LogsOutToken(Idle, t) /\ ~LogsOutToken(req[r], t)
      BY <1>1 DEF RefreshesToken, LogsOutToken
  <2>3. new \in Token /\ Lifecycle!Create(new, u)
      BY <1>1, <1>3, <2>1, <2>2, IssueCreates
  <2>4. \A v \in User : SigningIn(v)' = SigningIn(v) \ {r}
      BY <1>t, <1>1, SigningMoves
  <2>5. \A v \in User : v # u => r \notin SigningIn(v)
      BY <2>1 DEF SigningIn
  <2>6. r \in SigningIn(u)
      BY <1>1, <2>1 DEF SigningIn
  <2>7. SignIns' = [SignIns EXCEPT ![u] = @ \ {r}]
      BY <2>4, <2>5 DEF SignIns
  <2>8. Lifecycle!SignIn(u, r, new)
      BY <2>3, <2>6, <2>7 DEF Lifecycle!SignIn, SignIns
  <2>9. QED
      BY <2>3, <2>8 DEF Lifecycle!Next
<1>4. QED
    BY <1>2, <1>3 DEF SignInIssue

LEMMA RefreshStep ==
    ASSUME LInv, [Next]_vars, NEW r \in Request, RefreshIssue(r)
    PROVE  Lifecycle!Next
<1>t. TypeOK /\ RequestSound /\ AnchorSound /\ last \in Nat
    BY DEF LInv, IInv, TypeOK
<1>1. PICK s \in Token, u \in User, new \in Nat, pw \in Password \cup {None} :
         /\ s = req[r].token /\ u = req[r].user /\ new = last + 1 /\ pw = verified[s]
         /\ Stored(s) => refresh_tokens[s].user_id = u
         /\ Stored(s) \/ u \notin users
    BY <1>t DEF RefreshIssue, RequestSound, HeldSound, AnchorSound, Anchored, TypeOK
<1>2. req[r].at = "issue" /\ clock' = clock
    BY DEF RefreshIssue
<1>3. CASE Finish(r) /\ UNCHANGED last
  <2>1. Goto(r, Idle) /\ Idle.at # "sign_in"
      BY <1>3 DEF Finish, Idle, Running
  <2>2. QED
      BY <1>3, <2>1, MoveEnds DEF Lifecycle!Next
<1>4. CASE /\ u \in users /\ last < MaxTokens /\ IssueToken(u, pw)
           /\ Goto(r, Running("retire", u, s, new, None))
  <2>1. PICK next : /\ next.at = "retire" /\ next.token = s
                    /\ Goto(r, next)
      BY <1>4 DEF Running
  <2>2. \A t \in Token : /\ RefreshesToken(next, t) <=> RefreshesToken(req[r], t)
                         /\ LogsOutToken(next, t) <=> LogsOutToken(req[r], t)
      BY <1>1, <1>2, <2>1 DEF RefreshesToken, LogsOutToken
  <2>3. new \in Token /\ Lifecycle!Create(new, u)
      BY <1>1, <1>2, <1>4, <2>1, <2>2, IssueCreates
  <2>4. <<s, u>> \in LivingSessions
    <3>1. Refreshing(s)
        BY <1>1, <1>2 DEF Refreshing
    <3>2. Living(s) /\ refresh_tokens[s].user_id = u
        BY <1>1, <1>4, <3>1 DEF Living, Dead
    <3>3. QED
        BY <3>2 DEF LivingSessions
  <2>5. \A v \in User : SigningIn(v)' = SigningIn(v)
      BY <1>t, <1>2, <2>1, SigningMoves DEF SigningIn
  <2>6. SignIns' = SignIns
      BY <2>5 DEF SignIns
  <2>7. Lifecycle!Refresh(s, u, new)
      BY <2>3, <2>4, <2>6 DEF Lifecycle!Refresh
  <2>8. QED
      BY <2>3, <2>7 DEF Lifecycle!Next
<1>5. QED
    BY <1>1, <1>3, <1>4 DEF RefreshIssue

LEMMA LifecycleNext ==
    ASSUME LInv, [Next]_vars
    PROVE  Lifecycle!Next \/ UNCHANGED <<BornTokens, LivingSessions, SignIns>>
<1>t. TypeOK
    BY DEF LInv, IInv
<1>e. Lifecycle!End => Lifecycle!Next
    BY DEF Lifecycle!Next
<1>1. ASSUME NEW r \in Request, NEW u \in User, Login(r, u) \/ GoogleLogin(r, u)
      PROVE  Lifecycle!Next
    BY <1>1, AskStep DEF Lifecycle!Next
<1>2. ASSUME NEW r \in Request, NEW u \in User, LogoutEverywhere(r, u) \/ Reset(r, u)
      PROVE  Lifecycle!Next
  <2>1. PICK next : Goto(r, next) /\ next.at # "sign_in" /\ last' = last
      BY <1>2 DEF LogoutEverywhere, Reset, Running
  <2>2. QED
      BY <1>e, <2>1, MoveEnds
<1>3. ASSUME NEW r \in Request, NEW t \in Token,
             RefreshAccepted(r, t) \/ RefreshReplayed(r, t) \/ Logout(r, t)
      PROVE  Lifecycle!Next
  <2>1. PICK next : Goto(r, next) /\ next.at # "sign_in" /\ last' = last
      BY <1>3 DEF RefreshAccepted, RefreshReplayed, Logout, Running
  <2>2. QED
      BY <1>e, <2>1, MoveEnds
<1>4. ASSUME NEW r \in Request,
             \/ RefreshGetUser(r) \/ RefreshRetire(r) \/ LogoutWrite(r)
             \/ ResetPassword(r) \/ RevokeAll(r)
      PROVE  Lifecycle!Next
  <2>1. PICK next : Goto(r, next) /\ next.at # "sign_in" /\ last' = last
      BY <1>4 DEF RefreshGetUser, RefreshRetire, LogoutWrite, ResetPassword, RevokeAll,
                  Finish, Idle, Running
  <2>2. QED
      BY <1>e, <2>1, MoveEnds
<1>5. ASSUME Tick \/ UNCHANGED vars \/ \E u \in User : DeleteUser(u)
      PROVE  Lifecycle!Next
  <2>1. last' = last /\ req' = req
      BY <1>5 DEF Tick, vars, DeleteUser
  <2>2. \A u \in User : SigningIn(u)' = SigningIn(u)
      BY <2>1 DEF SigningIn
  <2>3. QED
      BY <1>e, <2>1, <2>2, StepEnds
<1>6. ASSUME Crash PROVE Lifecycle!Next
  <2>1. \A u \in User : SigningIn(u)' \subseteq SigningIn(u)
      BY <1>6 DEF Crash, SigningIn, Idle, Running
  <2>2. QED
      BY <1>e, <1>6, <2>1, StepEnds DEF Crash
<1>7. QED
    BY <1>1, <1>2, <1>3, <1>4, <1>5, <1>6, SignInStep, RefreshStep DEF Next

(***************************************************************************)
(* The handlers of app/services/auth, statement by statement and however   *)
(* they interleave or are cut off, implement the life of sessions: a token *)
(* comes from a sign-in or from a living session of the same user, and one *)
(* that has ended stays ended.                                             *)
(***************************************************************************)
THEOREM SessionsImplementLifecycle == Spec => ImplementsLifecycle
<1>1. LInv /\ [Next]_vars => [Lifecycle!Next]_(Lifecycle!vars)
    BY LifecycleNext DEF Lifecycle!vars
<1>2. QED
    BY <1>1, LifecycleInit, LifecycleInvariant, PTL DEF Spec, ImplementsLifecycle, Lifecycle!Spec

-----------------------------------------------------------------------------
(* Nobody writes another user's rows *)

LEMMA WritesOwn ==
    ASSUME IInv, [Next]_vars, NEW t \in Token, Stored(t), refresh_tokens'[t] # refresh_tokens[t]
    PROVE  \/ refresh_tokens[t].user_id \notin users'
           \/ \E r \in Request :
                 /\ req[r].at \in {"retire", "logout", "revoke_all"}
                 /\ req[r].user = refresh_tokens[t].user_id
                 /\ req'[r].at = "idle"
<1> USE SessionsAssumption
<1>t. TypeOK /\ IdsSound /\ RequestSound /\ last \in Nat
    BY DEF IInv, TypeOK
<1>f. \A r \in Request : Finish(r) => req'[r].at = "idle"
    BY <1>t DEF Finish, Goto, Idle, Running, TypeOK
<1>i. ASSUME NEW u, NEW pw, IssueToken(u, pw)
      PROVE  FALSE
  <2>1. t # last + 1
      BY <1>t DEF IdsSound, Token
  <2>2. refresh_tokens'[t] = refresh_tokens[t]
      BY <1>i, <1>t, <2>1 DEF IssueToken, TypeOK
  <2>3. QED
      BY <2>2
<1>1. ASSUME NEW r \in Request, RefreshRetire(r) \/ LogoutWrite(r)
      PROVE  /\ req[r].at \in {"retire", "logout"}
             /\ req[r].user = refresh_tokens[t].user_id
             /\ req'[r].at = "idle"
  <2>1. PICK s, at, next : s = req[r].token /\ Stored(s) /\ UpdateToken(s, at, next)
      BY <1>1 DEF RefreshRetire, LogoutWrite
  <2>2. t = s
      BY <1>t, <2>1 DEF UpdateToken, TypeOK
  <2>3. req[r].at \in {"retire", "logout"}
      BY <1>1 DEF RefreshRetire, LogoutWrite
  <2>4. req[r].user = refresh_tokens[t].user_id
      BY <1>t, <2>1, <2>2, <2>3 DEF RequestSound, HeldSound
  <2>5. Finish(r)
      BY <1>1 DEF RefreshRetire, LogoutWrite
  <2>6. QED
      BY <1>f, <2>3, <2>4, <2>5
<1>2. ASSUME NEW r \in Request, RevokeAll(r)
      PROVE  /\ req[r].at = "revoke_all"
             /\ req[r].user = refresh_tokens[t].user_id
             /\ req'[r].at = "idle"
  <2>1. RevokeAllForUser(req[r].user) /\ Finish(r) /\ req[r].at = "revoke_all"
      BY <1>2 DEF RevokeAll
  <2>2. QED
      BY <1>f, <2>1 DEF RevokeAllForUser
<1>3. ASSUME NEW u \in User, DeleteUser(u)
      PROVE  refresh_tokens[t].user_id \notin users'
    BY <1>3 DEF DeleteUser
<1>4. QED
    BY <1>i, <1>1, <1>2, <1>3
       DEF Next, Login, GoogleLogin, LogoutEverywhere, Reset, RefreshAccepted, RefreshReplayed,
           Logout, SignInIssue, RefreshGetUser, RefreshIssue, ResetPassword, Tick, Crash, vars

(***************************************************************************)
(* A request only ever writes tokens of the user it acts for: neither the  *)
(* replay of one user's token nor their logout-all ends a session of       *)
(* anybody else, however requests and account deletions interleave.        *)
(***************************************************************************)
THEOREM OthersStayUntouched == Spec => OthersUntouched
<1>1. IInv /\ [Next]_vars =>
          [\A t \in Token :
              (Stored(t) /\ refresh_tokens'[t] # refresh_tokens[t]) =>
                  \/ refresh_tokens[t].user_id \notin users'
                  \/ \E r \in Request :
                        /\ req[r].at \in {"retire", "logout", "revoke_all"}
                        /\ req[r].user = refresh_tokens[t].user_id
                        /\ req'[r].at = "idle"]_vars
    BY WritesOwn
<1>2. QED
    BY <1>1, Invariant, PTL DEF Spec, OthersUntouched

-----------------------------------------------------------------------------
(* A replaced password does not come back *)

\* What a running request may still sign in with, for the account u.
Current(q, u) ==
    /\ (q.at = "sign_in" /\ q.user = u) => ~Outdated(u, q.password)
    /\ (q.at \in {"get_user", "issue"} /\ q.user = u) => ~Outdated(u, verified[q.token])

LEMMA GoneMeansCurrent ==
    ASSUME NEW u \in User
    PROVE  OldPasswordGone(u) <=>
               /\ \A t \in Owned(u) : Outdated(u, verified[t]) => Dead(t)
               /\ \A r \in Request : Current(req[r], u)
    BY DEF OldPasswordGone, Current, SigningIn

LEMMA CurrentMeansGone ==
    ASSUME NEW u \in User, \A t \in Owned(u)' : Outdated(u, verified[t])' => Dead(t)',
           \A r \in Request : Current(req[r], u)'
    PROVE  OldPasswordGone(u)'
    BY DEF OldPasswordGone, Current, SigningIn

\* The rows there were keep their owner, their sign-in and their death.
LEMMA OwnedKept ==
    ASSUME IInv, [Next]_vars, NEW u \in User, OldPasswordGone(u), password'[u] = password[u],
           \A t \in Token : t <= last => verified'[t] = verified[t],
           \A t \in Token : (t > last /\ Stored(t)' /\ refresh_tokens'[t].user_id = u) =>
               ~Outdated(u, verified'[t])
    PROVE  \A t \in Owned(u)' : Outdated(u, verified[t])' => Dead(t)'
<1> SUFFICES ASSUME NEW t \in Token, Stored(t)', refresh_tokens'[t].user_id = u,
                    Outdated(u, verified'[t])
             PROVE  Dead(t)'
    BY DEF Owned, Outdated
<1>1. t <= last
    BY DEF IInv, TypeOK, Token
<1>2. Stored(t) /\ refresh_tokens[t].user_id = u /\ verified'[t] = verified[t]
    BY <1>1, RowsStayNext DEF RowsStay
<1>3. Dead(t)
    BY <1>2 DEF OldPasswordGone, Owned
<1>4. QED
    BY <1>3, DeadNext

\* A request's local variables stay current while the password does.
LEMMA CurrentKept ==
    ASSUME IInv, NEW u \in User, password'[u] = password[u],
           \A t \in Token : t <= last => verified'[t] = verified[t],
           NEW r \in Request, Current(req[r], u), req'[r] = req[r]
    PROVE  Current(req[r], u)'
<1>1. HeldSound(req[r])
    BY DEF IInv, RequestSound
<1>2. QED
    BY <1>1 DEF Current, Outdated, HeldSound

LEMMA MoveKeepsGone ==
    ASSUME IInv, [Next]_vars, NEW u \in User, OldPasswordGone(u), password'[u] = password[u],
           \A t \in Token : t <= last => verified'[t] = verified[t],
           \A t \in Token : (t > last /\ Stored(t)' /\ refresh_tokens'[t].user_id = u) =>
               ~Outdated(u, verified'[t]),
           NEW r \in Request, NEW next, Goto(r, next),
           (next.at = "sign_in" /\ next.user = u) => ~Outdated(u, next.password),
           (next.at \in {"get_user", "issue"} /\ next.user = u) =>
               /\ next.token \in 1..last
               /\ ~Outdated(u, verified[next.token])
    PROVE  OldPasswordGone(u)'
<1>1. \A q \in Request : req'[q] = IF q = r THEN next ELSE req[q]
    BY DEF Goto, IInv, TypeOK
<1>2. \A q \in Request : Current(req[q], u)
    BY GoneMeansCurrent
<1>3. last \in 0..MaxTokens
    BY DEF IInv, TypeOK
<1>4. ASSUME NEW q \in Request PROVE Current(req[q], u)'
  <2>1. CASE q # r
      BY <1>1, <1>2, <2>1, CurrentKept
  <2>2. CASE q = r
    <3>1. next.at \in {"get_user", "issue"} /\ next.user = u =>
              verified'[next.token] = verified[next.token]
        BY <1>3, SessionsAssumption DEF Token
    <3>2. QED
        BY <1>1, <2>2, <3>1 DEF Current, Outdated
  <2>3. QED
      BY <2>1, <2>2
<1>5. QED
    BY <1>4, OwnedKept, CurrentMeansGone

LEMMA GoneStays ==
    ASSUME IInv, [Next]_vars, NEW u \in User, OldPasswordGone(u), password'[u] = password[u]
    PROVE  OldPasswordGone(u)'
<1> USE SessionsAssumption
<1>t. /\ TypeOK /\ IdsSound /\ RequestSound /\ last \in 0..MaxTokens
      /\ \A q \in Request : Current(req[q], u)
    BY GoneMeansCurrent DEF IInv, TypeOK
\* No row is new.
<1>a. ASSUME UNCHANGED <<last, verified>>
      PROVE  /\ \A t \in Token : t <= last => verified'[t] = verified[t]
             /\ \A t \in Token : (t > last /\ Stored(t)' /\ refresh_tokens'[t].user_id = u) =>
                    ~Outdated(u, verified'[t])
  <2>1. IdsSound'
      BY NextInvariant DEF IInv
  <2>2. QED
      BY <1>a, <1>t, <2>1 DEF IdsSound, Token
\* One is, with a sign-in that is current.
<1>b. ASSUME NEW v \in User, NEW pw \in Password \cup {None}, last < MaxTokens, IssueToken(v, pw),
             v = u => ~Outdated(u, pw)
      PROVE  /\ \A t \in Token : t <= last => verified'[t] = verified[t]
             /\ \A t \in Token : (t > last /\ Stored(t)' /\ refresh_tokens'[t].user_id = u) =>
                    ~Outdated(u, verified'[t])
  <2>1. /\ refresh_tokens'[last + 1].user_id = v /\ verified'[last + 1] = pw
        /\ \A t \in Token : t # last + 1 => /\ refresh_tokens'[t] = refresh_tokens[t]
                                            /\ verified'[t] = verified[t]
    <3>1. refresh_tokens'[last + 1] = [user_id |-> v, expires_at |-> clock + Lifetime,
                                       revoked_at |-> None, replaced_by |-> None]
        BY <1>b, <1>t, IssueTokenEffect
    <3>2. refresh_tokens'[last + 1].user_id = v
        BY <3>1
    <3>3. verified'[last + 1] = pw
        BY <1>b, <1>t, IssueTokenEffect
    <3>4. \A t \in Token : t # last + 1 => /\ refresh_tokens'[t] = refresh_tokens[t]
                                            /\ verified'[t] = verified[t]
        BY <1>b, <1>t, IssueTokenEffect
    <3>5. QED
        BY <3>2, <3>3, <3>4
  <2>2. \A t \in Token : t <= last => t # last + 1
      BY <1>t DEF Token
  <2>3. \A t \in Token : (t > last /\ t # last + 1) => ~Stored(t)'
      BY <1>t, <2>1 DEF IdsSound, Stored, Token
  <2>4. QED
      BY <1>b, <2>1, <2>2, <2>3
<1>c. ASSUME NEW r \in Request, NEW next, Goto(r, next), UNCHANGED <<last, verified>>,
             next.at \notin {"sign_in", "get_user", "issue"}
      PROVE  OldPasswordGone(u)'
    BY <1>a, <1>c, MoveKeepsGone
<1>d. Idle.at = "idle"
    BY DEF Idle, Running
<1>1. ASSUME NEW r \in Request, NEW v \in User, Login(r, v) \/ GoogleLogin(r, v)
      PROVE  OldPasswordGone(u)'
  <2>1. PICK next : /\ Goto(r, next) /\ next.at = "sign_in" /\ next.user = v
                    /\ next.password \in {None, password[v]}
      BY <1>1 DEF Login, GoogleLogin, Running
  <2>2. next.user = u => ~Outdated(u, next.password)
      BY <2>1 DEF Outdated
  <2>3. UNCHANGED <<last, verified>>
      BY <1>1 DEF Login, GoogleLogin
  <2>4. QED
      BY <1>a, <2>1, <2>2, <2>3, MoveKeepsGone
<1>2. ASSUME NEW r \in Request, NEW v \in User, LogoutEverywhere(r, v) \/ Reset(r, v)
      PROVE  OldPasswordGone(u)'
  <2>1. PICK next : Goto(r, next) /\ next.at \in {"revoke_all", "set_password"}
      BY <1>2 DEF LogoutEverywhere, Reset, Running
  <2>2. QED
      BY <1>2, <1>c, <2>1 DEF LogoutEverywhere, Reset
<1>3. ASSUME NEW r \in Request, NEW t \in Token, RefreshAccepted(r, t)
      PROVE  OldPasswordGone(u)'
  <2>1. PICK next : /\ Goto(r, next) /\ next.at = "get_user"
                    /\ next.user = refresh_tokens[t].user_id /\ next.token = t
      BY <1>3 DEF RefreshAccepted, Running
  <2>2. Stored(t) /\ t \in 1..last /\ ~Dead(t)
      BY <1>3, <1>t DEF RefreshAccepted, IdsSound, Token, Dead, Refreshable, Stored, Accepts,
                        Rotated, InGrace
  <2>3. next.user = u => ~Outdated(u, verified[t])
      BY <2>1, <2>2 DEF OldPasswordGone, Owned
  <2>4. UNCHANGED <<last, verified>>
      BY <1>3 DEF RefreshAccepted
  <2>5. QED
      BY <1>a, <2>1, <2>2, <2>3, <2>4, MoveKeepsGone
<1>4. ASSUME NEW r \in Request, NEW t \in Token, RefreshReplayed(r, t) \/ Logout(r, t)
      PROVE  OldPasswordGone(u)'
  <2>1. PICK next : Goto(r, next) /\ next.at \in {"revoke_all", "logout", "logged_out"}
      BY <1>4 DEF RefreshReplayed, Logout, Running
  <2>2. QED
      BY <1>4, <1>c, <2>1 DEF RefreshReplayed, Logout
<1>5. ASSUME NEW r \in Request, SignInIssue(r)
      PROVE  OldPasswordGone(u)'
  <2>1. Goto(r, Idle)
      BY <1>5 DEF SignInIssue, Finish
  <2>2. CASE UNCHANGED <<last, verified>>
      BY <1>c, <1>d, <2>1, <2>2
  <2>3. CASE last < MaxTokens /\ IssueToken(req[r].user, req[r].password)
    <3>1. PICK v \in User, pw \in Password \cup {None} :
              /\ v = req[r].user /\ pw = req[r].password
              /\ v = u => ~Outdated(u, pw)
        BY <1>5, <1>t DEF SignInIssue, RequestSound, HeldSound, TypeOK, RequestState, Current
    <3>2. QED
        BY <1>b, <1>d, <2>1, <2>3, <3>1, MoveKeepsGone
  <2>4. QED
      BY <1>5, <2>2, <2>3 DEF SignInIssue
<1>6. ASSUME NEW r \in Request, RefreshGetUser(r)
      PROVE  OldPasswordGone(u)'
  <2>1. UNCHANGED <<last, verified>> /\ req[r].at = "get_user"
      BY <1>6 DEF RefreshGetUser
  <2>2. CASE Finish(r)
      BY <1>c, <1>d, <2>1, <2>2 DEF Finish
  <2>3. CASE ~Finish(r)
    <3>1. PICK next : /\ Goto(r, next) /\ next.at = "issue"
                      /\ next.user = req[r].user /\ next.token = req[r].token
        BY <1>6, <2>3 DEF RefreshGetUser, Running
    <3>2. /\ next.token \in 1..last
          /\ next.user = u => ~Outdated(u, verified[next.token])
        BY <1>t, <2>1, <3>1 DEF RequestSound, HeldSound, Current, Token
    <3>3. QED
        BY <1>a, <2>1, <3>1, <3>2, MoveKeepsGone
  <2>4. QED
      BY <2>2, <2>3
<1>7. ASSUME NEW r \in Request, RefreshIssue(r)
      PROVE  OldPasswordGone(u)'
  <2>1. PICK next : Goto(r, next) /\ next.at \in {"retire", "idle"}
      BY <1>7, <1>d DEF RefreshIssue, Finish, Running
  <2>2. CASE UNCHANGED <<last, verified>>
      BY <1>c, <2>1, <2>2
  <2>3. CASE last < MaxTokens /\ IssueToken(req[r].user, verified[req[r].token])
    <3>1. PICK v \in User, pw \in Password \cup {None} :
              /\ v = req[r].user /\ pw = verified[req[r].token]
              /\ v = u => ~Outdated(u, pw)
        BY <1>7, <1>t DEF RefreshIssue, RequestSound, HeldSound, TypeOK, Current
    <3>2. QED
        BY <1>b, <2>1, <2>3, <3>1, MoveKeepsGone
  <2>4. QED
      BY <1>7, <2>2, <2>3 DEF RefreshIssue
<1>8. ASSUME NEW r \in Request, RefreshRetire(r) \/ LogoutWrite(r) \/ RevokeAll(r)
      PROVE  OldPasswordGone(u)'
    BY <1>8, <1>c, <1>d DEF RefreshRetire, LogoutWrite, RevokeAll, Finish
<1>9. ASSUME NEW r \in Request, ResetPassword(r)
      PROVE  OldPasswordGone(u)'
  <2>1. PICK next : Goto(r, next) /\ next.at \in {"revoke_all", "idle"}
      BY <1>9, <1>d DEF ResetPassword, Finish, Running
  <2>2. QED
      BY <1>9, <1>c, <2>1 DEF ResetPassword
<1>10. CASE (\E v \in User : DeleteUser(v)) \/ Tick \/ UNCHANGED vars
  <2>1. UNCHANGED <<last, verified, req>>
      BY <1>10 DEF DeleteUser, Tick, vars
  <2>2. \A q \in Request : Current(req[q], u)'
      BY <1>a, <1>t, <2>1, CurrentKept
  <2>3. QED
      BY <1>a, <2>1, <2>2, OwnedKept, CurrentMeansGone
<1>11. CASE Crash
  <2>1. UNCHANGED <<last, verified>>
      BY <1>11 DEF Crash
  <2>2. \A q \in Request : Current(req[q], u)'
      BY <1>d, <1>11 DEF Crash, Current
  <2>3. QED
      BY <1>a, <2>1, <2>2, OwnedKept, CurrentMeansGone
<1>12. QED
    BY <1>1, <1>2, <1>3, <1>4, <1>5, <1>6, <1>7, <1>8, <1>9, <1>10, <1>11 DEF Next

(***************************************************************************)
(* Once every session opened with a replaced password is gone, none comes  *)
(* back until the password changes again, for any number of users, tokens  *)
(* and requests: refreshing a session never launders the sign-in it        *)
(* descends from, because a refresh hands on the password of the row it    *)
(* was asked with and dead rows are not refreshed.                         *)
(***************************************************************************)
THEOREM OldPasswordNeverReturns == Spec => OldPasswordStaysOut
<1>1. IInv /\ [Next]_vars =>
          [\A u \in User :
              OldPasswordGone(u) => OldPasswordGone(u)' \/ password'[u] # password[u]]_vars
    BY GoneStays
<1>2. QED
    BY <1>1, Invariant, PTL DEF Spec, OldPasswordStaysOut
=============================================================================
