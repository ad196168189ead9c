--------------------------- MODULE SessionLifecycle ---------------------------
(***************************************************************************)
(* What signing in promises, with no table, clock or request in sight: a   *)
(* session comes from a sign-in of its user or from a living session of    *)
(* its user, and one that has ended does not come back.  Sessions          *)
(* implements it (Lifecycle there).                                        *)
(***************************************************************************)
CONSTANTS Token, User, Request

VARIABLES
    born,     \* the refresh tokens ever handed out
    living,   \* <<token, user>>: the sessions that can still be refreshed
    signing   \* the sign-ins under way for each user

vars == <<born, living, signing>>

Init ==
    /\ born = {}
    /\ living = {}
    /\ signing = [u \in User |-> {}]

\* The password was right, or Google has vouched for the user.
Ask(u, r) ==
    /\ \A v \in User : r \notin signing[v]
    /\ signing' = [signing EXCEPT ![u] = @ \cup {r}]
    /\ UNCHANGED <<born, living>>

Create(t, u) ==
    /\ t \notin born
    /\ born' = born \cup {t}
    /\ living' = living \cup {<<t, u>>}

SignIn(u, r, t) ==
    /\ r \in signing[u]
    /\ Create(t, u)
    /\ signing' = [signing EXCEPT ![u] = @ \ {r}]

Refresh(s, u, t) ==
    /\ <<s, u>> \in living
    /\ Create(t, u)
    /\ UNCHANGED signing

\* Sessions end, and sign-ins are given up: by logout, age, replay, reset, a crash.
End ==
    /\ living' \subseteq living
    /\ \A u \in User : signing'[u] \subseteq signing[u]
    /\ UNCHANGED born

Next ==
    \/ End
    \/ \E u \in User, r \in Request : Ask(u, r)
    \/ \E u \in User, r \in Request, t \in Token : SignIn(u, r, t)
    \/ \E s, t \in Token, u \in User : Refresh(s, u, t)

Spec == Init /\ [][Next]_vars
=============================================================================
