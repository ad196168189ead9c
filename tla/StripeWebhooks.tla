---------------------------- MODULE StripeWebhooks ----------------------------
(***************************************************************************)
(* The Stripe webhook pipeline: webhook_events as the idempotency store,   *)
(* and the projection of events onto subscriptions and payments            *)
(* (app/services/payments/webhook_service.py).                             *)
(*                                                                         *)
(* One action is one database statement of one delivery with the Python    *)
(* that follows it; every repository call commits on its own, so requests  *)
(* interleave, and a crash may fall, between any two of them.  Stripe is   *)
(* external: it delivers every event at least once, in any order, and      *)
(* again while it has not been answered with a 200.                        *)
(***************************************************************************)
EXTENDS Integers, Sequences

CONSTANTS
    User,        \* the accounts that exist at the start
    Sub,         \* Stripe subscription ids
    Owner,       \* the user whose checkout creates each subscription
    Status,      \* the Stripe statuses that occur, known to the code or not
    Request,     \* slots for concurrently running deliveries
    None,        \* SQL NULL, and "no such row"
    MaxEvents,   \* bound: events Stripe ever sends
    MaxCrashes   \* bound: crashes of the server

EventId == 1..MaxEvents

ASSUME StripeWebhooksAssumption ==
    /\ Owner \in [Sub -> User]
    /\ {"active", "canceled"} \subseteq Status
    /\ "none" \notin Status
    /\ MaxEvents \in Nat
    /\ MaxCrashes \in Nat
    /\ None \notin User \cup Sub

VARIABLES
    stripe,          \* Stripe's own state of each subscription
    sent,            \* the events Stripe has created; the index is the event id
    users,           \* ids of the rows of users
    trial_over,      \* trial_end_at of the granted trials has passed
    subscriptions,   \* the row of subscriptions of each user (user_id is UNIQUE)
    payments,        \* per invoice, the user_id of each row of payments
    webhook_events,  \* status of the row of webhook_events of each event
    req,             \* the delivery running in each slot
    crashes

external == <<stripe, sent>>
database == <<users, subscriptions, payments, webhook_events>>
vars == <<external, database, trial_over, req, crashes>>

-----------------------------------------------------------------------------
(* Stripe's status and ours *)

\* Mutant: an unpaid first invoice is taken for a running subscription.
LenientStatus ==
    [s \in {"trialing", "active", "past_due", "unpaid", "canceled",
            "incomplete", "incomplete_expired"} |->
        CASE s \in {"past_due", "unpaid"} -> "PAST_DUE"
          [] s = "trialing" -> "TRIALING"
          [] s = "canceled" -> "CANCELED"
          [] OTHER -> "ACTIVE"]

\* Mutant: Stripe's own word is stored.
StripeWords ==
    [s \in {"trialing", "active", "past_due", "unpaid", "canceled",
            "incomplete", "incomplete_expired"} |-> s]

STRIPE_STATUS ==
    [s \in {"trialing", "active", "past_due", "unpaid", "canceled",
            "incomplete", "incomplete_expired"} |->
        CASE s = "trialing" -> "TRIALING"
          [] s = "active" -> "ACTIVE"
          [] s \in {"past_due", "unpaid"} -> "PAST_DUE"
          [] s = "canceled" -> "CANCELED"
          [] s \in {"incomplete", "incomplete_expired"} -> "EXPIRED"]

SubscriptionStatus == {"TRIALING", "ACTIVE", "PAST_DUE", "CANCELED", "EXPIRED"}
ACTIVE_SUBSCRIPTION_STATUSES == {"TRIALING", "ACTIVE"}

\* _STRIPE_STATUS.get(status, default)
StatusOr(status, default) ==
    IF status \in DOMAIN STRIPE_STATUS THEN STRIPE_STATUS[status] ELSE default

\* A row of subscriptions; plan and period dates tell nothing apart here.
Subscription ==
    [provider_subscription_id : Sub \cup {None}, status : SubscriptionStatus,
     cancel_at_period_end : BOOLEAN, trial_end_at : BOOLEAN]

ASSUME NoneAssumption == None \notin Subscription \cup {"RECEIVED", "FAILED", "PROCESSED"}

\* What grant_trial leaves for a new account.
Trial == [provider_subscription_id |-> None, status |-> "TRIALING",
          cancel_at_period_end |-> FALSE, trial_end_at |-> TRUE]

is_active_subscription(sub) ==
    /\ sub # None
    /\ sub.status \in ACTIVE_SUBSCRIPTION_STATUSES
    /\ ~(sub.status = "TRIALING" /\ sub.trial_end_at /\ trial_over)

-----------------------------------------------------------------------------
(* Events and deliveries *)

Event ==
    [type : {"checkout", "changed", "invoice"}, sub : Sub,
     status : Status, will_cancel : BOOLEAN]

\* `at` is the statement a delivery is waiting to run; `seen` the status of the
\* webhook_events row as it has read it, `user` and `read` the subscription row.
Stage ==
    {"idle", "insert", "dispatch", "get_for_user", "upsert", "update",
     "get_subscription", "pay", "processed", "failed"}

Delivery ==
    [at : Stage, event : EventId \cup {None}, seen : {None, "RECEIVED", "FAILED"},
     user : User \cup {None}, read : Subscription \cup {None}]

Running(at, e, seen, u, row) ==
    [at |-> at, event |-> e, seen |-> seen, user |-> u, read |-> row]
Idle == Running("idle", None, None, None, None)

Goto(r, at, u, row) == req' = [req EXCEPT ![r] = Running(at, @.event, @.seen, u, row)]
Continue(r, at) == Goto(r, at, None, None)
Finish(r) == req' = [req EXCEPT ![r] = Idle]

\* The payload of the event the delivery in slot r handles.
Object(r) == sent[req[r].event]

TypeOK ==
    /\ stripe \in [Sub -> [status : Status \cup {"none"}, will_cancel : BOOLEAN]]
    /\ sent \in Seq(Event) /\ Len(sent) <= MaxEvents
    /\ users \in SUBSET User
    /\ trial_over \in BOOLEAN
    /\ subscriptions \in [User -> Subscription \cup {None}]
    /\ payments \in [Sub -> Seq(User \cup {None})]
    /\ webhook_events \in [EventId -> {None, "RECEIVED", "FAILED", "PROCESSED"}]
    /\ req \in [Request -> Delivery]
    /\ crashes \in 0..MaxCrashes

\* Registration has granted a trial, or trials are switched off.
Init ==
    /\ stripe = [s \in Sub |-> [status |-> "none", will_cancel |-> FALSE]]
    /\ sent = <<>>
    /\ users = User
    /\ trial_over = FALSE
    /\ \E row \in {None, Trial} : subscriptions = [u \in User |-> row]
    /\ payments = [s \in Sub |-> <<>>]
    /\ webhook_events = [e \in EventId |-> None]
    /\ req = [r \in Request |-> Idle]
    /\ crashes = 0

-----------------------------------------------------------------------------
(* Stripe *)

Send(type, s, state) ==
    /\ Len(sent) < MaxEvents
    /\ sent' = Append(sent, [type |-> type, sub |-> s, status |-> state.status,
                             will_cancel |-> state.will_cancel])
    /\ stripe' = [stripe EXCEPT ![s] = state]
    /\ UNCHANGED <<database, trial_over, req, crashes>>

\* The hosted checkout completes, or its first payment stays open.
Subscribe(s) ==
    /\ stripe[s].status = "none"
    /\ Owner[s] \in users
    /\ \/ Send("checkout", s, [status |-> "active", will_cancel |-> FALSE])
       \/ /\ "incomplete" \in Status
          /\ Send("changed", s, [status |-> "incomplete", will_cancel |-> FALSE])

\* customer.subscription.created, .updated, .deleted: the state now.
ChangeSubscription(s, status, will_cancel) ==
    /\ stripe[s].status \notin {"none", "canceled", "incomplete_expired"}
    /\ status \in {"incomplete", "incomplete_expired"} => stripe[s].status = "incomplete"
    /\ Send("changed", s, [status |-> status, will_cancel |-> will_cancel])

InvoicePaid(s) ==
    /\ stripe[s].status = "active"
    /\ ~\E i \in 1..Len(sent) : sent[i].type = "invoice" /\ sent[i].sub = s
    /\ Send("invoice", s, stripe[s])

-----------------------------------------------------------------------------
(* handle_stripe: the idempotency store *)

\* Mutant: any stored event is taken for a new one.
ReceiveAgain(r, e) ==
    /\ req[r].at = "idle"
    /\ e <= Len(sent)
    /\ req' = [req EXCEPT ![r] = Running(IF webhook_events[e] = None THEN "insert" ELSE "dispatch",
                                         e, webhook_events[e], None, None)]
    /\ UNCHANGED <<external, database, trial_over, crashes>>

\* Mutant: an event that is stored is a duplicate, handled or not.
ReceiveOnlyNew(r, e) ==
    /\ req[r].at = "idle"
    /\ e <= Len(sent)
    /\ webhook_events[e] = None
    /\ req' = [req EXCEPT ![r] = Running("insert", e, None, None, None)]
    /\ UNCHANGED <<external, database, trial_over, crashes>>

\* get_by_event; an event already PROCESSED is answered with 200 at once.
Receive(r, e) ==
    /\ req[r].at = "idle"
    /\ e <= Len(sent)
    /\ webhook_events[e] # "PROCESSED"
    /\ req' = [req EXCEPT ![r] = Running(IF webhook_events[e] = None THEN "insert" ELSE "dispatch",
                                         e, webhook_events[e], None, None)]
    /\ UNCHANGED <<external, database, trial_over, crashes>>

\* UNIQUE(provider, event_id) refuses the second of two first deliveries.
Insert(r) ==
    /\ req[r].at = "insert"
    /\ IF webhook_events[req[r].event] = None
       THEN /\ webhook_events' = [webhook_events EXCEPT ![req[r].event] = "RECEIVED"]
            /\ req' = [req EXCEPT ![r] = Running("dispatch", @.event, "RECEIVED", None, None)]
       ELSE /\ Finish(r)
            /\ UNCHANGED webhook_events
    /\ UNCHANGED <<external, users, subscriptions, payments, trial_over, crashes>>

\* As in UpdateRow, a status equal to the one read is not written.
Mark(r) ==
    /\ req[r].at \in {"processed", "failed"}
    /\ webhook_events' = [webhook_events EXCEPT ![req[r].event] =
                              IF req[r].at = "processed" THEN "PROCESSED"
                              ELSE IF req[r].seen = "FAILED" THEN @ ELSE "FAILED"]
    /\ Finish(r)
    /\ UNCHANGED <<external, users, subscriptions, payments, trial_over, crashes>>

-----------------------------------------------------------------------------
(* Subscription events *)

\* get_by_provider_id
Holders(s) ==
    {u \in User : subscriptions[u] # None /\ subscriptions[u].provider_subscription_id = s}

\* _on_subscription_changed: for a row that is there the default of the status
\* lookup is a plain string, so `.value` raises on a status it does not know;
\* without a row only a live status, or one it does not know, creates it.
ChangedRead(r) ==
    LET s == Object(r).sub IN
    /\ req[r].at = "dispatch"
    /\ Object(r).type = "changed"
    /\ \/ \E u \in Holders(s) :
             IF Object(r).status \in DOMAIN STRIPE_STATUS
             THEN Goto(r, "update", u, subscriptions[u])
             ELSE Continue(r, "failed")
       \/ /\ Holders(s) = {}
          /\ Continue(r, IF StatusOr(Object(r).status, "ACTIVE") \in ACTIVE_SUBSCRIPTION_STATUSES
                         THEN "get_for_user" ELSE "processed")
    /\ UNCHANGED <<external, database, trial_over, crashes>>

\* The read of _upsert_subscription, for a checkout and for an unseen subscription.
UpsertRead(r) ==
    LET u == Owner[Object(r).sub] IN
    /\ \/ req[r].at = "dispatch" /\ Object(r).type = "checkout"
       \/ req[r].at = "get_for_user"
    /\ Goto(r, "upsert", u, subscriptions[u])
    /\ UNCHANGED <<external, database, trial_over, crashes>>

Column(now, read, new) == IF new # read THEN new ELSE now

\* update_one: only the columns that differ from the row as it was read are written.
Updated(now, read, new) ==
    [provider_subscription_id |-> Column(now.provider_subscription_id,
                                         read.provider_subscription_id,
                                         new.provider_subscription_id),
     status |-> Column(now.status, read.status, new.status),
     cancel_at_period_end |-> Column(now.cancel_at_period_end, read.cancel_at_period_end,
                                     new.cancel_at_period_end),
     trial_end_at |-> Column(now.trial_end_at, read.trial_end_at, new.trial_end_at)]

\* With the row gone the UPDATE fails and takes the session with it;
\* if nothing differs it is the refresh after the commit that fails.
UpdateRow(r, new) ==
    LET u == req[r].user
        read == req[r].read
    IN  \/ /\ subscriptions[u] # None
           /\ subscriptions' =
                [subscriptions EXCEPT ![u] = Updated(subscriptions[u], read, new)]
           /\ Continue(r, "processed")
        \/ /\ subscriptions[u] = None
           /\ IF new # read THEN Finish(r) ELSE Continue(r, "failed")
           /\ UNCHANGED subscriptions

\* The INSERT is refused for a user who has a row by now, or who is gone.
CreateRow(r, u, row) ==
    IF subscriptions[u] = None /\ u \in users
    THEN /\ subscriptions' = [subscriptions EXCEPT ![u] = row]
         /\ Continue(r, "processed")
    ELSE /\ Finish(r)
         /\ UNCHANGED subscriptions

\* Mutant: the row keeps the subscription it was created for.
UpsertKeepsProvider(r) ==
    LET status == IF Object(r).type = "checkout" THEN "ACTIVE"
                  ELSE StatusOr(Object(r).status, "ACTIVE")
    IN
    /\ req[r].at = "upsert"
    /\ IF req[r].read # None
       THEN UpdateRow(r, [req[r].read EXCEPT !.status = status])
       ELSE CreateRow(r, req[r].user,
                      [provider_subscription_id |-> Object(r).sub, status |-> status,
                       cancel_at_period_end |-> FALSE, trial_end_at |-> FALSE])
    /\ UNCHANGED <<external, users, payments, webhook_events, trial_over, crashes>>

\* The write of _upsert_subscription.
Upsert(r) ==
    LET s == Object(r).sub
        status == IF Object(r).type = "checkout" THEN "ACTIVE"
                  ELSE StatusOr(Object(r).status, "ACTIVE")
    IN
    /\ req[r].at = "upsert"
    /\ IF req[r].read # None
       THEN UpdateRow(r, [req[r].read EXCEPT !.provider_subscription_id = s, !.status = status])
       ELSE CreateRow(r, req[r].user,
                      [provider_subscription_id |-> s, status |-> status,
                       cancel_at_period_end |-> FALSE, trial_end_at |-> FALSE])
    /\ UNCHANGED <<external, users, payments, webhook_events, trial_over, crashes>>

\* The update of _on_subscription_changed.
UpdateSubscription(r) ==
    /\ req[r].at = "update"
    /\ UpdateRow(r, [req[r].read EXCEPT !.status = STRIPE_STATUS[Object(r).status],
                                        !.cancel_at_period_end = Object(r).will_cancel])
    /\ UNCHANGED <<external, users, payments, webhook_events, trial_over, crashes>>

-----------------------------------------------------------------------------
(* _on_invoice_paid *)

\* Mutant: the invoice is not looked up first.
InvoiceReadNoLookup(r) ==
    /\ req[r].at = "dispatch"
    /\ Object(r).type = "invoice"
    /\ Continue(r, "get_subscription")
    /\ UNCHANGED <<external, database, trial_over, crashes>>

\* scalar_one_or_none raises on a second row of the invoice.
InvoiceRead(r) ==
    LET rows == Len(payments[Object(r).sub]) IN
    /\ req[r].at = "dispatch"
    /\ Object(r).type = "invoice"
    /\ Continue(r, CASE rows = 0 -> "get_subscription"
                     [] rows = 1 -> "processed"
                     [] OTHER -> "failed")
    /\ UNCHANGED <<external, database, trial_over, crashes>>

InvoiceSubscription(r) ==
    LET s == Object(r).sub IN
    /\ req[r].at = "get_subscription"
    /\ \/ \E u \in Holders(s) : Goto(r, "pay", u, subscriptions[u])
       \/ Holders(s) = {} /\ Continue(r, "pay")
    /\ UNCHANGED <<external, database, trial_over, crashes>>

\* The foreign keys refuse a user or subscription that is gone by now.
Pay(r) ==
    LET s == Object(r).sub IN
    /\ req[r].at = "pay"
    /\ IF req[r].user = None \/ req[r].user \in users
       THEN /\ payments' = [payments EXCEPT ![s] = Append(@, req[r].user)]
            /\ Continue(r, "processed")
       ELSE /\ Finish(r)
            /\ UNCHANGED payments
    /\ UNCHANGED <<external, users, subscriptions, webhook_events, trial_over, crashes>>

-----------------------------------------------------------------------------
(* Account deletion, time and crashes *)

\* subscriptions CASCADE, payments SET NULL; Stripe is not told.
DeleteUser(u) ==
    /\ u \in users
    /\ users' = users \ {u}
    /\ subscriptions' = [subscriptions EXCEPT ![u] = None]
    /\ payments' = [s \in Sub |-> [i \in DOMAIN payments[s] |->
                       IF payments[s][i] = u THEN None ELSE payments[s][i]]]
    /\ UNCHANGED <<external, webhook_events, trial_over, req, crashes>>

TrialEnds ==
    /\ ~trial_over
    /\ trial_over' = TRUE
    /\ UNCHANGED <<external, database, req, crashes>>

\* The server dies: no running delivery gets any further or is answered.
\* (With none running there is nothing to lose.)
Crash ==
    /\ \E r \in Request : req[r] # Idle
    /\ crashes < MaxCrashes
    /\ crashes' = crashes + 1
    /\ req' = [r \in Request |-> Idle]
    /\ UNCHANGED <<external, database, trial_over>>

-----------------------------------------------------------------------------

Handle(r) ==
    \/ Insert(r) \/ ChangedRead(r) \/ UpsertRead(r) \/ Upsert(r) \/ UpdateSubscription(r)
    \/ InvoiceRead(r) \/ InvoiceSubscription(r) \/ Pay(r) \/ Mark(r)

Next ==
    \/ \E s \in Sub : Subscribe(s) \/ InvoicePaid(s)
    \/ \E s \in Sub, status \in Status, will_cancel \in BOOLEAN :
          ChangeSubscription(s, status, will_cancel)
    \/ \E r \in Request, e \in EventId : Receive(r, e)
    \/ \E r \in Request : Handle(r)
    \/ \E u \in User : DeleteUser(u)
    \/ TrialEnds
    \/ Crash

Spec == Init /\ [][Next]_vars

\* The event loop runs every request on, and Stripe delivers an event until it
\* has had its 200.
Fairness ==
    /\ \A r \in Request : WF_vars(Handle(r))
    /\ \A e \in EventId : SF_vars(\E r \in Request : Receive(r, e))

FairSpec == Spec /\ Fairness

\* Deliveries one at a time, in the order of the events: each only after the
\* ones before it have had their 200.
InOrder(r, e) ==
    /\ \A q \in Request : req[q].at = "idle"
    /\ \A d \in 1 .. e - 1 : webhook_events[d] = "PROCESSED"

OrderedNext ==
    /\ Next
    /\ \A r \in Request, e \in EventId : Receive(r, e) => InOrder(r, e)

OrderedSpec == Init /\ [][OrderedNext]_vars
-----------------------------------------------------------------------------
(* Properties *)

Live(s) == stripe[s].status \in {"trialing", "active"}
Sent == 1..Len(sent)

\* The server has stored an event that says s has been paid for, or one of a
\* status it does not know and takes for that (see OnlyLiveCreates).
ReportedLive(s) ==
    \E e \in Sent :
        /\ webhook_events[e] # None
        /\ sent[e].sub = s
        /\ \/ sent[e].type = "checkout"
           \/ sent[e].status \in {"trialing", "active"}
           \/ sent[e].status \notin DOMAIN STRIPE_STATUS

(***************************************************************************)
(* Paid access is earned: a user has it through a running trial, or        *)
(* through a subscription of their own of which a stored event has said    *)
(* that it was live, whatever the order, repetition and overlap of the     *)
(* deliveries.                                                             *)
(***************************************************************************)
AccessEarned ==
    \A u \in User :
        is_active_subscription(subscriptions[u]) =>
            LET s == subscriptions[u].provider_subscription_id IN
            IF s = None THEN ~trial_over ELSE Owner[s] = u /\ ReportedLive(s)

UserGone(e) == e \in Sent /\ Owner[sent[e].sub] \notin users

Handling(e) == \E r \in Request : req[r].at # "idle" /\ req[r].event = e
Settled(e) == webhook_events[e] = "PROCESSED" /\ ~Handling(e)

(***************************************************************************)
(* Idempotency: an event handled to the end, with no delivery of it still  *)
(* running, stays so, and a user whose events are all settled keeps the    *)
(* subscription row as it is (unless the account goes).                    *)
(***************************************************************************)
SettledIsFinal ==
    [][/\ \A e \in EventId : Settled(e) => Settled(e)'
       /\ \A u \in User :
            (\A e \in Sent : Owner[sent[e].sub] = u => Settled(e)) =>
                \/ subscriptions'[u] = subscriptions[u]
                \/ u \notin users']_vars

AllSettled == \A e \in Sent : Settled(e)

(***************************************************************************)
(* Delivered in order, the events of a user's only subscription leave the  *)
(* row equal to what Stripe has, through crashes between any two           *)
(* statements and the redeliveries that follow them.  The flag is only     *)
(* asked for after a checkout: an event that creates the row drops it.     *)
(***************************************************************************)
MirrorsStripe ==
    \A s \in Sub :
        LET row == subscriptions[Owner[s]] IN
        (AllSettled /\ Owner[s] \in users /\ stripe[s].status \in DOMAIN STRIPE_STATUS) =>
            \/ /\ row # None
               /\ row.provider_subscription_id = s
               /\ row.status = STRIPE_STATUS[stripe[s].status]
               /\ (\E e \in Sent : sent[e].type = "checkout" /\ sent[e].sub = s) =>
                     row.cancel_at_period_end = stripe[s].will_cancel
            \/ /\ row = None \/ row.provider_subscription_id = None
               /\ \A e \in Sent : sent[e].sub = s =>
                     sent[e].type = "changed" /\ ~Live(s)

(***************************************************************************)
(* Delivered in order, a paid invoice is in the books exactly once when    *)
(* its event is settled, also after a crash between the insert and the     *)
(* mark.                                                                   *)
(***************************************************************************)
PaidOnce ==
    \A e \in Sent :
        (sent[e].type = "invoice" /\ Settled(e)) => Len(payments[sent[e].sub]) = 1

\* A delivery can always be finished for this event: nothing about it is
\* unknown to the code and its user is still there.
Finishable(e) ==
    /\ e \in Sent
    /\ sent[e].type # "invoice"
    /\ sent[e].status \in DOMAIN STRIPE_STATUS

(***************************************************************************)
(* Every subscription event with a status the code knows is eventually     *)
(* PROCESSED while its account exists: refused first inserts, lost races   *)
(* for the user's row and crashes are all made good by a redelivery.       *)
(***************************************************************************)
EventuallyProcessed ==
    \A e \in EventId :
        Finishable(e) ~>
            (webhook_events[e] = "PROCESSED" \/ UserGone(e))

-----------------------------------------------------------------------------
(* What documents and comments of the repository claim and the code does not *)

\* docs/PAYMENTS.md:52 "make retries and duplicate deliveries safe": an invoice
\* is in the books at most once.
PaymentNotDuplicated == \A s \in Sub : Len(payments[s]) <= 1

\* webhook_service.py:108 "only for a live subscription": a subscription event
\* puts an unseen subscription into the user's row only if Stripe says it is live.
OnlyLiveCreates ==
    [][\A r \in Request :
        (Upsert(r) /\ Object(r).type = "changed" /\ subscriptions' # subscriptions) =>
            Object(r).status \in {"trialing", "active"}]_vars

\* webhook_service.py:69 "let the caller 500 so Stripe retries", PAYMENTS.md:47
\* "safe to replay": an event whose handling failed is handled by a retry.
FailedIsRetried ==
    \A e \in EventId :
        webhook_events[e] = "FAILED" ~>
            (webhook_events[e] = "PROCESSED" \/ UserGone(e))

\* docs/PAYMENTS.md state machine: CANCELED has no way out, "illegal jumps raise
\* InvalidSubscriptionTransition".
CanceledIsFinal ==
    [][\A u \in User :
        LET row == subscriptions[u] IN
        (row # None /\ row.status = "CANCELED") =>
            \/ subscriptions'[u] = None
            \/ subscriptions'[u].status = "CANCELED"
            \/ subscriptions'[u].provider_subscription_id # row.provider_subscription_id]_vars

\* subscription_service.py:17 "does this user have paid access right now": a
\* user with a live subscription and nothing left to deliver has access.
PayingHasAccess ==
    AllSettled =>
        \A s \in Sub :
            (Live(s) /\ Owner[s] \in users) => is_active_subscription(subscriptions[Owner[s]])

\* webhook_service.py:121 "treat either as 'will not renew'": the row says so
\* only of a subscription of which Stripe has said it.
NotRenewingIsReported ==
    \A u \in User :
        LET row == subscriptions[u] IN
        (row # None /\ row.cancel_at_period_end) =>
            \E e \in Sent :
                sent[e].sub = row.provider_subscription_id /\ sent[e].will_cancel
=============================================================================
