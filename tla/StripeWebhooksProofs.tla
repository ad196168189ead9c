------------------------ MODULE StripeWebhooksProofs -------------------------
(***************************************************************************)
(* Theorems about StripeWebhooks, for any users, subscriptions, statuses,  *)
(* events, deliveries and crashes, in any order of delivery.               *)
(*                                                                         *)
(* Two deliveries may mix their columns in one row.  Access is earned all  *)
(* the same because a subscription enters a row only by an event that says *)
(* it is live, and never leaves it for none: the granted trial does not    *)
(* come back.                                                              *)
(*                                                                         *)
(* Delivered in order and one at a time, the row is that of the events     *)
(* that are PROCESSED, or of one more: Mirrored.                           *)
(***************************************************************************)
EXTENDS StripeWebhooks, TLAPS

\* The row of u, if there is one, is no longer the granted trial.
Linked(u) == subscriptions[u] # None => subscriptions[u].provider_subscription_id # None

Earned(u, s) == s \in Sub /\ Owner[s] = u /\ ReportedLive(s)

\* What a row names: a subscription of its user that was reported live, or the trial.
RowsEarned ==
    \A u \in User :
        subscriptions[u] # None =>
            IF subscriptions[u].provider_subscription_id = None
            THEN subscriptions[u].status = "TRIALING" /\ subscriptions[u].trial_end_at
            ELSE Earned(u, subscriptions[u].provider_subscription_id)

\* A delivery past its read works on the row of the owner of its subscription;
\* one that is to link the subscription carries an event that says it is live.
DeliverySound(d) ==
    d.at # "idle" =>
        /\ d.event \in Sent
        /\ d.at # "insert" => webhook_events[d.event] # None
        /\ d.at \in {"get_for_user", "upsert"} => ReportedLive(sent[d.event].sub)
        /\ d.at \in {"upsert", "update"} =>
              /\ d.user = Owner[sent[d.event].sub]
              /\ (d.read # None /\ d.read.provider_subscription_id # None) => Linked(d.user)
        /\ d.at = "update" =>
              /\ d.read # None
              /\ d.read.provider_subscription_id # None
              /\ sent[d.event].status \in DOMAIN STRIPE_STATUS

DeliveriesSound == \A r \in Request : DeliverySound(req[r])

IInv == TypeOK /\ RowsEarned /\ DeliveriesSound

\* Events are neither taken back nor forgotten, nor is a link.
Kept ==
    /\ Len(sent) <= Len(sent')
    /\ \A e \in Sent : sent'[e] = sent[e]
    /\ \A e \in EventId : webhook_events[e] # None => webhook_events'[e] # None
    /\ \A u \in User : Linked(u) => Linked(u)'

\* A step touches the mark of an event, and the row of a user, only on behalf
\* of a delivery, and a delivery starts only on an event that is not PROCESSED.
OnBehalf ==
    /\ \A r \in Request : req'[r].at # "idle" =>
          \/ req[r].at # "idle" /\ req'[r].event = req[r].event
          \/ webhook_events'[req'[r].event] # "PROCESSED"
    /\ \A e \in EventId : webhook_events'[e] = webhook_events[e] \/ Handling(e)
    /\ \A u \in User :
          \/ subscriptions'[u] = subscriptions[u]
          \/ u \notin users'
          \/ \E e \in Sent : Owner[sent[e].sub] = u /\ Handling(e)

USE StripeWebhooksAssumption, NoneAssumption

-----------------------------------------------------------------------------
(* Types and what stays *)

LEMMA StatusKnown ==
    /\ DOMAIN STRIPE_STATUS = {"trialing", "active", "past_due", "unpaid", "canceled",
                               "incomplete", "incomplete_expired"}
    /\ \A s \in DOMAIN STRIPE_STATUS : STRIPE_STATUS[s] \in SubscriptionStatus
    /\ \A s : (StatusOr(s, "ACTIVE") \in SubscriptionStatus)
    /\ \A s : StatusOr(s, "ACTIVE") \in ACTIVE_SUBSCRIPTION_STATUSES =>
          s \in {"trialing", "active"} \/ s \notin DOMAIN STRIPE_STATUS
<1>1. DOMAIN STRIPE_STATUS = {"trialing", "active", "past_due", "unpaid", "canceled",
                              "incomplete", "incomplete_expired"}
    BY DEF STRIPE_STATUS
<1>2. /\ STRIPE_STATUS["trialing"] = "TRIALING" /\ STRIPE_STATUS["active"] = "ACTIVE"
      /\ STRIPE_STATUS["past_due"] = "PAST_DUE" /\ STRIPE_STATUS["unpaid"] = "PAST_DUE"
      /\ STRIPE_STATUS["canceled"] = "CANCELED" /\ STRIPE_STATUS["incomplete"] = "EXPIRED"
      /\ STRIPE_STATUS["incomplete_expired"] = "EXPIRED"
    BY DEF STRIPE_STATUS
<1>3. \A s \in DOMAIN STRIPE_STATUS :
          /\ STRIPE_STATUS[s] \in SubscriptionStatus
          /\ STRIPE_STATUS[s] \in ACTIVE_SUBSCRIPTION_STATUSES => s \in {"trialing", "active"}
    BY <1>1, <1>2 DEF SubscriptionStatus, ACTIVE_SUBSCRIPTION_STATUSES
<1>4. QED
    BY <1>1, <1>3 DEF StatusOr, SubscriptionStatus

LEMMA EventsAre ==
    ASSUME TypeOK
    PROVE  /\ Sent \subseteq EventId /\ Len(sent) \in Nat
           /\ \A e \in Sent : sent[e] \in Event
    BY DEF TypeOK, Sent, EventId

LEMMA ReportStays ==
    ASSUME TypeOK, Kept, NEW s, ReportedLive(s)
    PROVE  ReportedLive(s)'
<1>1. PICK e \in Sent :
          /\ webhook_events[e] # None
          /\ sent[e].sub = s
          /\ \/ sent[e].type = "checkout"
             \/ sent[e].status \in {"trialing", "active"}
             \/ sent[e].status \notin DOMAIN STRIPE_STATUS
    BY DEF ReportedLive
<1>2. e \in Sent' /\ e \in EventId /\ sent'[e] = sent[e]
    BY EventsAre DEF Kept, Sent
<1>3. webhook_events'[e] # None
    BY <1>1, <1>2 DEF Kept
<1>4. QED
    BY <1>1, <1>2, <1>3 DEF ReportedLive

LEMMA SoundStays ==
    ASSUME TypeOK, Kept, NEW d, d \in Delivery, DeliverySound(d)
    PROVE  DeliverySound(d)'
<1> SUFFICES ASSUME d.at # "idle" PROVE DeliverySound(d)'
    BY DEF DeliverySound
<1>1. d.event \in Sent /\ d.event \in EventId
    BY EventsAre DEF DeliverySound
<1>2. d.event \in Sent' /\ sent'[d.event] = sent[d.event]
    BY <1>1 DEF Kept, Sent
<1>3. d.at # "insert" => webhook_events'[d.event] # None
    BY <1>1 DEF DeliverySound, Kept
<1>4. d.at \in {"get_for_user", "upsert"} => ReportedLive(sent[d.event].sub)'
  <2>1. PICK s : s = sent[d.event].sub
      OBVIOUS
  <2>2. ReportedLive(s) => ReportedLive(s)'
      BY ReportStays
  <2>3. sent'[d.event].sub = s
      BY <1>2, <2>1
  <2>4. QED
      BY <2>1, <2>2, <2>3 DEF DeliverySound, ReportedLive
<1>5. d.at \in {"upsert", "update"} =>
          /\ d.user = Owner[sent'[d.event].sub]
          /\ (d.read # None /\ d.read.provider_subscription_id # None) => Linked(d.user)'
  <2>1. d.at \in {"upsert", "update"} => d.user \in User
      BY <1>1, EventsAre DEF DeliverySound, Event
  <2>2. QED
      BY <1>2, <2>1 DEF DeliverySound, Kept
<1>6. d.at = "update" =>
          /\ d.read # None
          /\ d.read.provider_subscription_id # None
          /\ sent'[d.event].status \in DOMAIN STRIPE_STATUS
    BY <1>2 DEF DeliverySound
<1>7. QED
    BY <1>2, <1>3, <1>4, <1>5, <1>6 DEF DeliverySound

LEMMA RowsStay ==
    ASSUME TypeOK, Kept, RowsEarned, UNCHANGED subscriptions
    PROVE  RowsEarned'
<1> SUFFICES ASSUME NEW u \in User, subscriptions[u] # None
             PROVE  IF subscriptions[u].provider_subscription_id = None
                    THEN subscriptions[u].status = "TRIALING" /\ subscriptions[u].trial_end_at
                    ELSE Earned(u, subscriptions[u].provider_subscription_id)'
    BY DEF RowsEarned
<1>1. PICK s : s = subscriptions[u].provider_subscription_id
    OBVIOUS
<1>2. Earned(u, s) => Earned(u, s)'
    BY ReportStays DEF Earned
<1>3. QED
    BY <1>1, <1>2 DEF RowsEarned, Earned, ReportedLive

\* A delivery that moves on and leaves the rows alone.
LEMMA Moves ==
    ASSUME IInv, NEW r \in Request, NEW d \in Delivery,
           DeliverySound(d) \/ DeliverySound(d)',
           req' = [req EXCEPT ![r] = d],
           UNCHANGED <<external, users, subscriptions, trial_over, crashes>>,
           payments' \in [Sub -> Seq(User \cup {None})],
           webhook_events' \in [EventId -> {None, "RECEIVED", "FAILED", "PROCESSED"}],
           \A e \in EventId : webhook_events[e] # None => webhook_events'[e] # None,
           \A e \in EventId : webhook_events'[e] = webhook_events[e] \/ Handling(e),
           d.at # "idle" =>
               \/ req[r].at # "idle" /\ d.event = req[r].event
               \/ webhook_events'[d.event] # "PROCESSED"
    PROVE  IInv' /\ OnBehalf /\ Kept
<1>1. Kept
    BY EventsAre DEF IInv, Kept, external, Linked
<1>2. TypeOK'
    BY DEF IInv, TypeOK, external
<1>3. RowsEarned'
    BY <1>1, RowsStay DEF IInv
<1>4. \A q \in Request : req'[q] = IF q = r THEN d ELSE req[q]
    BY DEF IInv, TypeOK
<1>5. DeliveriesSound'
  <2> SUFFICES ASSUME NEW q \in Request PROVE DeliverySound(req[q])'
      BY DEF DeliveriesSound
  <2>1. PICK c \in Delivery : c = req'[q] /\ (DeliverySound(c) \/ (c = d /\ DeliverySound(d)'))
      BY <1>4 DEF IInv, TypeOK, DeliveriesSound
  <2>2. DeliverySound(c)'
      BY <1>1, <2>1, SoundStays DEF IInv
  <2>3. QED
      BY <2>1, <2>2
<1>6. OnBehalf
    BY <1>4 DEF OnBehalf
<1>7. QED
    BY <1>1, <1>2, <1>3, <1>5, <1>6 DEF IInv

LEMMA RequestTyped ==
    ASSUME IInv, NEW r \in Request
    PROVE  /\ req[r] \in Delivery /\ DeliverySound(req[r])
           /\ req[r].at # "idle" => /\ req[r].event \in Sent /\ req[r].event \in EventId
                                    /\ Object(r) \in Event /\ Handling(req[r].event)
           /\ Idle \in Delivery /\ DeliverySound(Idle)
<1>1. req[r] \in Delivery /\ DeliverySound(req[r])
    BY DEF IInv, TypeOK, DeliveriesSound
<1>2. req[r].at # "idle" => req[r].event \in Sent
    BY <1>1 DEF DeliverySound
<1>3. req[r].at # "idle" => req[r].event \in EventId /\ Object(r) \in Event
    BY <1>2, EventsAre DEF IInv, Object
<1>4. req[r].at # "idle" => Handling(req[r].event)
    BY DEF Handling
<1>5. Idle \in Delivery /\ DeliverySound(Idle)
    BY DEF Idle, Running, Delivery, Stage, DeliverySound
<1>6. QED
    BY <1>1, <1>2, <1>3, <1>4, <1>5

\* A delivery that moves on and writes nothing.
LEMMA Reads ==
    ASSUME IInv, NEW r \in Request, req[r].at # "idle", NEW at \in Stage,
           NEW u \in User \cup {None}, NEW row \in Subscription \cup {None},
           Goto(r, at, u, row),
           UNCHANGED <<external, database, trial_over, crashes>>,
           at # "insert" => webhook_events[req[r].event] # None,
           at \in {"get_for_user", "upsert"} => ReportedLive(Object(r).sub),
           at \in {"upsert", "update"} =>
              /\ u = Owner[Object(r).sub]
              /\ (row # None /\ row.provider_subscription_id # None) => Linked(u),
           at = "update" =>
              /\ row # None
              /\ row.provider_subscription_id # None
              /\ Object(r).status \in DOMAIN STRIPE_STATUS
    PROVE  IInv' /\ OnBehalf /\ Kept
<1>1. PICK d : d = Running(at, req[r].event, req[r].seen, u, row)
    OBVIOUS
<1>2. d.at = at /\ d.event = req[r].event /\ d.user = u /\ d.read = row
    BY <1>1 DEF Running
<1>3. d \in Delivery
    BY <1>1, RequestTyped DEF Running, Delivery
<1>4. DeliverySound(d)
    BY <1>2, RequestTyped DEF DeliverySound, Object
<1>5. req' = [req EXCEPT ![r] = d]
    BY <1>1, RequestTyped DEF Goto, IInv, TypeOK
<1>6. /\ UNCHANGED <<external, users, subscriptions, trial_over, crashes>>
      /\ payments' \in [Sub -> Seq(User \cup {None})]
      /\ webhook_events' \in [EventId -> {None, "RECEIVED", "FAILED", "PROCESSED"}]
      /\ webhook_events' = webhook_events
    BY DEF database, IInv, TypeOK
<1>7. QED
    BY <1>2, <1>3, <1>4, <1>5, <1>6, Moves

LEMMA ReceiveStep ==
    ASSUME IInv, NEW r \in Request, NEW e \in EventId, Receive(r, e)
    PROVE  IInv' /\ OnBehalf /\ Kept
<1>1. PICK at \in {"insert", "dispatch"} :
          at = IF webhook_events[e] = None THEN "insert" ELSE "dispatch"
    OBVIOUS
<1>2. PICK d : d = Running(at, e, webhook_events[e], None, None)
    OBVIOUS
<1>3. /\ d.at = at /\ d.event = e
      /\ e \in Sent /\ webhook_events[e] # "PROCESSED"
    BY <1>2 DEF Running, Receive, Sent, EventId
<1>4. webhook_events[e] \in {None, "RECEIVED", "FAILED"}
    BY <1>3 DEF IInv, TypeOK
<1>5. d \in Delivery
    BY <1>1, <1>2, <1>4 DEF Running, Delivery, Stage
<1>6. DeliverySound(d)
    BY <1>1, <1>3 DEF DeliverySound
<1>7. req' = [req EXCEPT ![r] = d]
    BY <1>1, <1>2 DEF Receive
<1>8. /\ UNCHANGED <<external, users, subscriptions, trial_over, crashes>>
      /\ payments' \in [Sub -> Seq(User \cup {None})]
      /\ webhook_events' \in [EventId -> {None, "RECEIVED", "FAILED", "PROCESSED"}]
      /\ webhook_events' = webhook_events
    BY DEF Receive, database, IInv, TypeOK
<1>9. QED
    BY <1>3, <1>5, <1>6, <1>7, <1>8, Moves

LEMMA InsertStep ==
    ASSUME IInv, NEW r \in Request, Insert(r)
    PROVE  IInv' /\ OnBehalf /\ Kept
<1> DEFINE e == req[r].event
<1>1. /\ req[r].at = "insert" /\ req[r] \in Delivery /\ e \in Sent /\ e \in EventId
      /\ Handling(e) /\ Idle \in Delivery /\ DeliverySound(Idle)
    BY RequestTyped DEF Insert
<1>2. UNCHANGED <<external, users, subscriptions, trial_over, crashes>>
      /\ payments' \in [Sub -> Seq(User \cup {None})]
    BY DEF Insert, IInv, TypeOK
<1>3. CASE webhook_events[e] = None
  <2>1. PICK d : d = Running("dispatch", e, "RECEIVED", None, None)
      OBVIOUS
  <2>2. req' = [req EXCEPT ![r] = d]
      BY <1>3, <2>1 DEF Insert, IInv, TypeOK
  <2>3. webhook_events' = [webhook_events EXCEPT ![e] = "RECEIVED"]
      BY <1>3 DEF Insert
  <2>4. \A f \in EventId : webhook_events'[f] = IF f = e THEN "RECEIVED" ELSE webhook_events[f]
      BY <2>3 DEF IInv, TypeOK
  <2>5. webhook_events' \in [EventId -> {None, "RECEIVED", "FAILED", "PROCESSED"}]
      BY <2>3 DEF IInv, TypeOK
  <2>6. d \in Delivery /\ d.event = e /\ d.at = "dispatch"
      BY <1>1, <2>1 DEF Running, Delivery, Stage
  <2>7. DeliverySound(d)'
      BY <1>1, <1>2, <2>4, <2>6 DEF DeliverySound, external, Sent
  <2>8. QED
      BY <1>1, <1>2, <2>2, <2>4, <2>5, <2>6, <2>7, Moves
<1>4. CASE webhook_events[e] # None
    BY <1>1, <1>2, <1>4, Moves DEF Insert, Finish, Idle, Running, IInv, TypeOK
<1>5. QED
    BY <1>3, <1>4

LEMMA MarkStep ==
    ASSUME IInv, NEW r \in Request, Mark(r)
    PROVE  IInv' /\ OnBehalf /\ Kept
<1> DEFINE e == req[r].event
           mark == IF req[r].at = "processed" THEN "PROCESSED"
                   ELSE IF req[r].seen = "FAILED" THEN webhook_events[e] ELSE "FAILED"
<1>1. /\ req[r].at \in {"processed", "failed"} /\ e \in EventId /\ Handling(e)
      /\ Idle \in Delivery /\ DeliverySound(Idle) /\ Idle.at = "idle"
      /\ webhook_events[e] # None
    BY RequestTyped DEF Mark, Idle, Running, DeliverySound
<1>2. mark \in {"RECEIVED", "FAILED", "PROCESSED"}
    BY <1>1 DEF IInv, TypeOK
<1>3. webhook_events' = [webhook_events EXCEPT ![e] = mark]
    BY DEF Mark
<1> HIDE DEF mark
<1>4. /\ webhook_events' \in [EventId -> {None, "RECEIVED", "FAILED", "PROCESSED"}]
      /\ \A f \in EventId : webhook_events'[f] = IF f = e THEN mark ELSE webhook_events[f]
    BY <1>2, <1>3 DEF IInv, TypeOK
<1>5. /\ req' = [req EXCEPT ![r] = Idle]
      /\ UNCHANGED <<external, users, subscriptions, trial_over, crashes>>
      /\ payments' \in [Sub -> Seq(User \cup {None})]
    BY DEF Mark, Finish, IInv, TypeOK
<1>6. QED
    BY <1>1, <1>2, <1>4, <1>5, Moves

LEMMA InvoiceReadStep ==
    ASSUME IInv, NEW r \in Request, InvoiceRead(r)
    PROVE  IInv' /\ OnBehalf /\ Kept
<1>1. PICK at \in {"get_subscription", "processed", "failed"} : Goto(r, at, None, None)
    BY DEF InvoiceRead, Continue
<1>2. req[r].at = "dispatch" /\ webhook_events[req[r].event] # None
    BY RequestTyped DEF InvoiceRead, DeliverySound
<1>3. QED
    BY <1>1, <1>2, Reads DEF InvoiceRead, Stage

LEMMA InvoiceSubscriptionStep ==
    ASSUME IInv, NEW r \in Request, InvoiceSubscription(r)
    PROVE  IInv' /\ OnBehalf /\ Kept
<1>1. req[r].at = "get_subscription" /\ webhook_events[req[r].event] # None
    BY RequestTyped DEF InvoiceSubscription, DeliverySound
<1>2. PICK u \in User \cup {None}, row \in Subscription \cup {None} : Goto(r, "pay", u, row)
    BY DEF InvoiceSubscription, Continue, Holders, IInv, TypeOK
<1>3. QED
    BY <1>1, <1>2, Reads DEF InvoiceSubscription, Stage

LEMMA ChangedReadStep ==
    ASSUME IInv, NEW r \in Request, ChangedRead(r)
    PROVE  IInv' /\ OnBehalf /\ Kept
<1>1. /\ req[r].at = "dispatch" /\ webhook_events[req[r].event] # None
      /\ req[r].event \in Sent /\ Object(r) \in Event
      /\ UNCHANGED <<external, database, trial_over, crashes>>
    BY RequestTyped DEF ChangedRead, DeliverySound
<1>2. CASE Goto(r, "failed", None, None) \/ Goto(r, "processed", None, None)
    BY <1>1, <1>2, Reads DEF Stage
<1>3. CASE /\ Goto(r, "get_for_user", None, None)
           /\ StatusOr(Object(r).status, "ACTIVE") \in ACTIVE_SUBSCRIPTION_STATUSES
  <2>1. ReportedLive(Object(r).sub)
      BY <1>1, <1>3, StatusKnown DEF ReportedLive, Object
  <2>2. QED
      BY <1>1, <1>3, <2>1, Reads DEF Stage
<1>4. ASSUME NEW u \in Holders(Object(r).sub), Goto(r, "update", u, subscriptions[u]),
             Object(r).status \in DOMAIN STRIPE_STATUS
      PROVE  IInv' /\ OnBehalf /\ Kept
  <2>1. PICK row : row = subscriptions[u]
      OBVIOUS
  <2>2. /\ u \in User /\ row \in Subscription /\ row # None
        /\ row.provider_subscription_id = Object(r).sub
      BY <2>1 DEF Holders, IInv, TypeOK
  <2>3. row.provider_subscription_id # None
      BY <1>1, <2>2 DEF Event
  <2>4. Owner[Object(r).sub] = u /\ Linked(u)
      BY <2>1, <2>2, <2>3 DEF IInv, RowsEarned, Earned, Linked
  <2>5. QED
      BY <1>1, <1>4, <2>1, <2>2, <2>3, <2>4, Reads DEF Stage
<1>5. QED
    BY <1>2, <1>3, <1>4 DEF ChangedRead, Continue

LEMMA UpsertReadStep ==
    ASSUME IInv, NEW r \in Request, UpsertRead(r)
    PROVE  IInv' /\ OnBehalf /\ Kept
<1>1. /\ req[r].at \in {"dispatch", "get_for_user"} /\ webhook_events[req[r].event] # None
      /\ req[r].event \in Sent /\ Object(r) \in Event
      /\ UNCHANGED <<external, database, trial_over, crashes>>
    BY RequestTyped DEF UpsertRead, DeliverySound
<1>2. ReportedLive(Object(r).sub)
    BY <1>1, RequestTyped DEF UpsertRead, ReportedLive, Object, DeliverySound
<1>3. PICK u : u = Owner[Object(r).sub]
    OBVIOUS
<1>4. PICK row : row = subscriptions[u]
    OBVIOUS
<1>5. u \in User /\ row \in Subscription \cup {None} /\ Goto(r, "upsert", u, row)
    BY <1>1, <1>3, <1>4 DEF UpsertRead, IInv, TypeOK, Event
<1>6. row # None /\ row.provider_subscription_id # None => Linked(u)
    BY <1>4 DEF Linked
<1>7. QED
    BY <1>1, <1>2, <1>3, <1>5, <1>6, Reads DEF Stage

LEMMA PayStep ==
    ASSUME IInv, NEW r \in Request, Pay(r)
    PROVE  IInv' /\ OnBehalf /\ Kept
<1> DEFINE s == Object(r).sub
<1>1. /\ req[r].at = "pay" /\ webhook_events[req[r].event] # None
      /\ s \in Sub /\ req[r].user \in User \cup {None} /\ req[r] \in Delivery
      /\ req[r].event \in Sent /\ req[r].event \in EventId /\ Handling(req[r].event)
      /\ Idle \in Delivery /\ DeliverySound(Idle) /\ Idle.at = "idle"
    BY RequestTyped DEF Pay, DeliverySound, Event, Delivery, Idle, Running
<1>2. /\ UNCHANGED <<external, users, subscriptions, trial_over, crashes>>
      /\ webhook_events' = webhook_events
      /\ webhook_events' \in [EventId -> {None, "RECEIVED", "FAILED", "PROCESSED"}]
    BY DEF Pay, IInv, TypeOK
<1>3. payments' \in [Sub -> Seq(User \cup {None})]
  <2>1. payments[s] \in Seq(User \cup {None})
      BY <1>1 DEF IInv, TypeOK
  <2>2. Append(payments[s], req[r].user) \in Seq(User \cup {None})
      BY <1>1, <2>1
  <2>3. QED
      BY <2>2 DEF Pay, IInv, TypeOK
<1>4. PICK d : d = Running("processed", req[r].event, req[r].seen, None, None)
    OBVIOUS
<1>5. /\ d \in Delivery /\ d.at = "processed" /\ d.event = req[r].event
      /\ DeliverySound(d)
    BY <1>1, <1>4 DEF Running, Delivery, Stage, DeliverySound
<1>6. req' = [req EXCEPT ![r] = d] \/ req' = [req EXCEPT ![r] = Idle]
    BY <1>4 DEF Pay, Continue, Goto, Finish, IInv, TypeOK
<1>7. QED
    BY <1>1, <1>2, <1>3, <1>5, <1>6, Moves

-----------------------------------------------------------------------------
(* The steps that write rows *)

LEMMA Stops ==
    ASSUME IInv, NEW r \in Request, req[r].at # "idle",
           req[r].at # "insert",
           Finish(r) \/ Continue(r, "failed"),
           UNCHANGED <<external, database, trial_over, crashes>>
    PROVE  IInv' /\ OnBehalf /\ Kept
<1>1. webhook_events[req[r].event] # None
    BY RequestTyped DEF DeliverySound
<1>2. CASE Finish(r)
  <2>1. /\ UNCHANGED <<external, users, subscriptions, trial_over, crashes>>
        /\ payments' \in [Sub -> Seq(User \cup {None})]
        /\ webhook_events' \in [EventId -> {None, "RECEIVED", "FAILED", "PROCESSED"}]
        /\ webhook_events' = webhook_events
      BY DEF database, IInv, TypeOK
  <2>2. Idle.at = "idle" /\ req' = [req EXCEPT ![r] = Idle]
      BY <1>2 DEF Finish, Idle, Running
  <2>3. QED
      BY <2>1, <2>2, RequestTyped, Moves
<1>3. CASE Continue(r, "failed")
    BY <1>1, <1>3, Reads DEF Continue, Stage
<1>4. QED
    BY <1>2, <1>3

LEMMA UpdatedTyped ==
    ASSUME NEW now \in Subscription, NEW read \in Subscription, NEW new \in Subscription
    PROVE  /\ Updated(now, read, new) \in Subscription
           /\ Updated(now, read, new).provider_subscription_id =
                 IF new.provider_subscription_id # read.provider_subscription_id
                 THEN new.provider_subscription_id ELSE now.provider_subscription_id
    BY DEF Updated, Column, Subscription

\* A delivery that leaves a subscription of the user in the user's row.
LEMMA Links ==
    ASSUME IInv, NEW r \in Request, req[r].at \in {"upsert", "update"},
           NEW u \in User, u = req[r].user, NEW row \in Subscription,
           Earned(u, row.provider_subscription_id),
           subscriptions' = [subscriptions EXCEPT ![u] = row],
           Continue(r, "processed"),
           UNCHANGED <<external, users, payments, webhook_events, trial_over, crashes>>
    PROVE  IInv' /\ OnBehalf /\ Kept
<1>1. /\ req[r] \in Delivery /\ DeliverySound(req[r])
      /\ req[r].event \in Sent /\ req[r].event \in EventId /\ Handling(req[r].event)
      /\ webhook_events[req[r].event] # None
      /\ Owner[sent[req[r].event].sub] = u
    BY RequestTyped DEF DeliverySound
<1>2. row # None /\ row.provider_subscription_id # None
    BY DEF Earned
<1>3. \A v \in User : subscriptions'[v] = IF v = u THEN row ELSE subscriptions[v]
    BY DEF IInv, TypeOK
<1>4. Kept
  <2>1. \A v \in User : Linked(v) => Linked(v)'
      BY <1>2, <1>3 DEF Linked
  <2>2. QED
      BY <2>1, EventsAre DEF IInv, Kept, external
<1>5. PICK d : d = Running("processed", req[r].event, req[r].seen, None, None)
    OBVIOUS
<1>6. d \in Delivery /\ DeliverySound(d) /\ d.at = "processed" /\ d.event = req[r].event
    BY <1>1, <1>5 DEF Running, Delivery, Stage, DeliverySound
<1>7. req' = [req EXCEPT ![r] = d]
    BY <1>5 DEF Continue, Goto, IInv, TypeOK
<1>8. \A q \in Request : req'[q] = IF q = r THEN d ELSE req[q]
    BY <1>7 DEF IInv, TypeOK
<1>9. TypeOK'
    BY <1>6, <1>7 DEF IInv, TypeOK, external
<1>10. RowsEarned'
  <2> SUFFICES ASSUME NEW v \in User, subscriptions'[v] # None
               PROVE  IF subscriptions'[v].provider_subscription_id = None
                      THEN subscriptions'[v].status = "TRIALING" /\ subscriptions'[v].trial_end_at
                      ELSE Earned(v, subscriptions[v].provider_subscription_id)'
      BY DEF RowsEarned
  <2>1. PICK s : s = subscriptions'[v].provider_subscription_id
      OBVIOUS
  <2>2. Earned(v, s) => Earned(v, s)'
      BY <1>4, ReportStays DEF Earned, IInv
  <2>3. s # None => Earned(v, s)
      BY <1>3, <2>1 DEF IInv, RowsEarned
  <2>4. s # None => Earned(v, subscriptions[v].provider_subscription_id)'
      BY <2>1, <2>2, <2>3 DEF Earned, ReportedLive
  <2>5. s = None => subscriptions'[v].status = "TRIALING" /\ subscriptions'[v].trial_end_at
      BY <1>2, <1>3, <2>1 DEF IInv, RowsEarned
  <2>6. QED
      BY <2>1, <2>4, <2>5
<1>11. DeliveriesSound'
  <2> SUFFICES ASSUME NEW q \in Request PROVE DeliverySound(req[q])'
      BY DEF DeliveriesSound
  <2>1. PICK c \in Delivery : c = req'[q] /\ DeliverySound(c)
      BY <1>6, <1>8 DEF IInv, TypeOK, DeliveriesSound
  <2>2. DeliverySound(c)'
      BY <1>4, <2>1, SoundStays DEF IInv
  <2>3. QED
      BY <2>1, <2>2
<1>12. OnBehalf
    BY <1>1, <1>3, <1>6, <1>8 DEF OnBehalf
<1>13. QED
    BY <1>4, <1>9, <1>10, <1>11, <1>12 DEF IInv

\* The UPDATE of either event, of a row that is to name the subscription s.
LEMMA UpdateRowStep ==
    ASSUME IInv, NEW r \in Request, req[r].at \in {"upsert", "update"}, req[r].read # None,
           NEW new \in Subscription, UpdateRow(r, new),
           new.provider_subscription_id # None,
           new.provider_subscription_id # req[r].read.provider_subscription_id =>
              Earned(req[r].user, new.provider_subscription_id),
           UNCHANGED <<external, users, payments, webhook_events, trial_over, crashes>>
    PROVE  IInv' /\ OnBehalf /\ Kept
<1>1. PICK u : u = req[r].user
    OBVIOUS
<1>2. PICK read : read = req[r].read
    OBVIOUS
<1>3. /\ u \in User /\ read \in Subscription
      /\ read.provider_subscription_id # None => Linked(u)
  <2>1. req[r] \in Delivery /\ DeliverySound(req[r]) /\ Object(r) \in Event
      BY RequestTyped
  <2>2. QED
      BY <1>1, <1>2, <2>1 DEF Delivery, DeliverySound, Event, Object
<1>4. CASE subscriptions[u] = None
    BY <1>1, <1>4, Stops DEF UpdateRow, database
<1>5. CASE subscriptions[u] # None
  <2>1. PICK now \in Subscription : now = subscriptions[u]
      BY <1>3, <1>5 DEF IInv, TypeOK
  <2>2. PICK row : row = Updated(now, read, new)
      OBVIOUS
  <2>3. /\ row \in Subscription
        /\ row.provider_subscription_id =
              IF new.provider_subscription_id # read.provider_subscription_id
              THEN new.provider_subscription_id ELSE now.provider_subscription_id
      BY <1>3, <2>1, <2>2, UpdatedTyped
  <2>4. Earned(u, row.provider_subscription_id)
    <3>1. CASE new.provider_subscription_id # read.provider_subscription_id
        BY <1>1, <1>2, <2>3, <3>1
    <3>2. CASE new.provider_subscription_id = read.provider_subscription_id
      <4>1. now # None /\ now.provider_subscription_id # None
          BY <1>3, <1>5, <2>1, <3>2 DEF Linked
      <4>2. Earned(u, now.provider_subscription_id)
          BY <1>3, <2>1, <4>1 DEF IInv, RowsEarned
      <4>3. QED
          BY <2>3, <3>2, <4>2
    <3>3. QED
        BY <3>1, <3>2
  <2>5. subscriptions' = [subscriptions EXCEPT ![u] = row] /\ Continue(r, "processed")
      BY <1>1, <1>2, <1>5, <2>1, <2>2 DEF UpdateRow
  <2>6. QED
      BY <1>1, <1>3, <2>3, <2>4, <2>5, Links
<1>6. QED
    BY <1>4, <1>5

LEMMA UpdateSubscriptionStep ==
    ASSUME IInv, NEW r \in Request, UpdateSubscription(r)
    PROVE  IInv' /\ OnBehalf /\ Kept
<1>1. /\ req[r].at = "update" /\ req[r] \in Delivery /\ DeliverySound(req[r])
      /\ Object(r) \in Event
    BY RequestTyped DEF UpdateSubscription
<1>2. /\ req[r].read \in Subscription /\ req[r].read # None
      /\ req[r].read.provider_subscription_id # None
      /\ Object(r).status \in DOMAIN STRIPE_STATUS
    BY <1>1 DEF DeliverySound, Delivery, Object
<1>3. STRIPE_STATUS[Object(r).status] \in SubscriptionStatus /\ Object(r).will_cancel \in BOOLEAN
    BY <1>1, <1>2, StatusKnown DEF Event
<1>4. PICK new : new = [req[r].read EXCEPT !.status = STRIPE_STATUS[Object(r).status],
                                           !.cancel_at_period_end = Object(r).will_cancel]
    OBVIOUS
<1>5. new \in Subscription /\ new.provider_subscription_id = req[r].read.provider_subscription_id
    BY <1>2, <1>3, <1>4 DEF Subscription
<1>6. QED
    BY <1>1, <1>2, <1>4, <1>5, UpdateRowStep DEF UpdateSubscription

LEMMA UpsertStep ==
    ASSUME IInv, NEW r \in Request, Upsert(r)
    PROVE  IInv' /\ OnBehalf /\ Kept
<1> DEFINE s == Object(r).sub
           status == IF Object(r).type = "checkout" THEN "ACTIVE"
                     ELSE StatusOr(Object(r).status, "ACTIVE")
<1>1. /\ req[r].at = "upsert" /\ req[r] \in Delivery /\ DeliverySound(req[r])
      /\ Object(r) \in Event
      /\ UNCHANGED <<external, users, payments, webhook_events, trial_over, crashes>>
    BY RequestTyped DEF Upsert
<1>2. s \in Sub /\ s # None /\ req[r].user \in User /\ Earned(req[r].user, s)
    BY <1>1 DEF DeliverySound, Object, Event, Earned
<1>3. status \in SubscriptionStatus
    BY StatusKnown DEF SubscriptionStatus
<1>4. CASE req[r].read # None
  <2>1. PICK new : new = [req[r].read EXCEPT !.provider_subscription_id = s, !.status = status]
      OBVIOUS
  <2>2. UpdateRow(r, new)
      BY <1>4, <2>1 DEF Upsert
  <2> HIDE DEF status
  <2>3. new \in Subscription /\ new.provider_subscription_id = s
      BY <1>1, <1>2, <1>3, <1>4, <2>1 DEF Subscription, Delivery
  <2>4. QED
      BY <1>1, <1>2, <1>4, <2>2, <2>3, UpdateRowStep
<1>5. CASE req[r].read = None
  <2>1. PICK row : row = [provider_subscription_id |-> s, status |-> status,
                          cancel_at_period_end |-> FALSE, trial_end_at |-> FALSE]
      OBVIOUS
  <2>2. CreateRow(r, req[r].user, row)
      BY <1>5, <2>1 DEF Upsert
  <2> HIDE DEF status
  <2>3. row \in Subscription /\ row.provider_subscription_id = s
      BY <1>2, <1>3, <2>1 DEF Subscription
  <2>4. CASE UNCHANGED subscriptions /\ Finish(r)
      BY <1>1, <2>4, Stops DEF database
  <2>5. CASE subscriptions' = [subscriptions EXCEPT ![req[r].user] = row] /\ Continue(r, "processed")
    <3>1. PICK u : u = req[r].user
        OBVIOUS
    <3>2. QED
        BY <1>1, <1>2, <2>3, <2>5, <3>1, Links
  <2>6. QED
      BY <2>2, <2>4, <2>5 DEF CreateRow
<1>6. QED
    BY <1>4, <1>5

-----------------------------------------------------------------------------
(* Stripe, deletion, time and crashes *)

LEMMA SendStep ==
    ASSUME IInv, NEW type \in {"checkout", "changed", "invoice"}, NEW s \in Sub,
           NEW state \in [status : Status \cup {"none"}, will_cancel : BOOLEAN],
           state.status \in Status, Send(type, s, state)
    PROVE  IInv' /\ OnBehalf /\ Kept
<1>1. PICK e : e = [type |-> type, sub |-> s, status |-> state.status,
                    will_cancel |-> state.will_cancel]
    OBVIOUS
<1>2. e \in Event /\ sent' = Append(sent, e) /\ Len(sent) < MaxEvents /\ sent \in Seq(Event)
    BY <1>1 DEF Event, Send, IInv, TypeOK
<1>3. /\ sent' \in Seq(Event) /\ Len(sent') = Len(sent) + 1 /\ Len(sent) \in Nat
      /\ \A i \in Sent : sent'[i] = sent[i]
    BY <1>2 DEF Sent
<1>4. UNCHANGED <<users, subscriptions, payments, webhook_events, trial_over, req, crashes>>
    BY DEF Send, database
<1>5. stripe' \in [Sub -> [status : Status \cup {"none"}, will_cancel : BOOLEAN]]
    BY DEF Send, IInv, TypeOK
<1>6. TypeOK'
    BY <1>2, <1>3, <1>4, <1>5 DEF IInv, TypeOK
<1>7. Kept
    BY <1>3, <1>4 DEF Kept, Linked
<1>8. DeliveriesSound'
  <2> SUFFICES ASSUME NEW q \in Request PROVE DeliverySound(req[q])'
      BY DEF DeliveriesSound
  <2>1. PICK c \in Delivery : c = req[q] /\ DeliverySound(c)
      BY DEF IInv, TypeOK, DeliveriesSound
  <2>2. DeliverySound(c)'
      BY <1>7, <2>1, SoundStays DEF IInv
  <2>3. QED
      BY <1>4, <2>1, <2>2
<1>9. RowsEarned'
    BY <1>4, <1>7, RowsStay DEF IInv
<1>10. OnBehalf
    BY <1>4 DEF OnBehalf
<1>11. QED
    BY <1>6, <1>7, <1>8, <1>9, <1>10 DEF IInv

LEMMA StripeStep ==
    ASSUME IInv, NEW s \in Sub,
           \/ Subscribe(s) \/ InvoicePaid(s)
           \/ \E status \in Status, will_cancel \in BOOLEAN : ChangeSubscription(s, status, will_cancel)
    PROVE  IInv' /\ OnBehalf /\ Kept
<1>1. CASE Subscribe(s)
  <2>1. PICK type \in {"checkout", "changed"}, status \in Status :
            Send(type, s, [status |-> status, will_cancel |-> FALSE])
      BY <1>1 DEF Subscribe
  <2>2. PICK state : state = [status |-> status, will_cancel |-> FALSE]
      OBVIOUS
  <2>3. QED
      BY <2>1, <2>2, SendStep
<1>2. CASE InvoicePaid(s)
  <2>1. PICK state : state = stripe[s]
      OBVIOUS
  <2>2. /\ state \in [status : Status \cup {"none"}, will_cancel : BOOLEAN]
        /\ state.status \in Status /\ Send("invoice", s, state)
      BY <1>2, <2>1 DEF InvoicePaid, IInv, TypeOK
  <2>3. QED
      BY <2>2, SendStep
<1>3. ASSUME NEW status \in Status, NEW will_cancel \in BOOLEAN,
             ChangeSubscription(s, status, will_cancel)
      PROVE  IInv' /\ OnBehalf /\ Kept
  <2>1. PICK state : state = [status |-> status, will_cancel |-> will_cancel]
      OBVIOUS
  <2>2. QED
      BY <1>3, <2>1, SendStep DEF ChangeSubscription
<1>4. QED
    BY <1>1, <1>2, <1>3

LEMMA DeleteUserStep ==
    ASSUME IInv, NEW u \in User, DeleteUser(u)
    PROVE  IInv' /\ OnBehalf /\ Kept
<1>1. /\ UNCHANGED <<external, webhook_events, trial_over, req, crashes>>
      /\ users' = users \ {u}
      /\ \A v \in User : subscriptions'[v] = IF v = u THEN None ELSE subscriptions[v]
    BY DEF DeleteUser, IInv, TypeOK
<1>2. Kept
    BY <1>1, EventsAre DEF IInv, Kept, external, Linked
<1>3. TypeOK'
  <2>1. payments' \in [Sub -> Seq(User \cup {None})]
    <3>1. \A s \in Sub : payments[s] \in Seq(User \cup {None})
        BY DEF IInv, TypeOK
    <3>2. ASSUME NEW s \in Sub
          PROVE  [i \in DOMAIN payments[s] |-> IF payments[s][i] = u THEN None ELSE payments[s][i]]
                    \in Seq(User \cup {None})
      <4>1. PICK rows \in Seq(User \cup {None}) : rows = payments[s]
          BY <3>1
      <4>2. DOMAIN rows = 1..Len(rows) /\ Len(rows) \in Nat
            /\ \A i \in 1..Len(rows) : rows[i] \in User \cup {None}
          OBVIOUS
      <4>3. [i \in DOMAIN rows |-> IF rows[i] = u THEN None ELSE rows[i]]
                \in [1..Len(rows) -> User \cup {None}]
          BY <4>2
      <4>4. QED
          BY <4>1, <4>2, <4>3
    <3>3. QED
        BY <3>2 DEF DeleteUser
  <2>2. subscriptions' \in [User -> Subscription \cup {None}]
      BY DEF DeleteUser, IInv, TypeOK
  <2>3. QED
      BY <1>1, <2>1, <2>2 DEF IInv, TypeOK, external
<1>4. RowsEarned'
  <2> SUFFICES ASSUME NEW v \in User, subscriptions'[v] # None
               PROVE  IF subscriptions'[v].provider_subscription_id = None
                      THEN subscriptions'[v].status = "TRIALING" /\ subscriptions'[v].trial_end_at
                      ELSE Earned(v, subscriptions[v].provider_subscription_id)'
      BY DEF RowsEarned
  <2>1. PICK s : s = subscriptions'[v].provider_subscription_id
      OBVIOUS
  <2>2. Earned(v, s) => Earned(v, s)'
      BY <1>2, ReportStays DEF Earned, IInv
  <2>3. subscriptions'[v] = subscriptions[v]
      BY <1>1
  <2>4. QED
      BY <2>1, <2>2, <2>3 DEF IInv, RowsEarned, Earned, ReportedLive
<1>5. DeliveriesSound'
  <2> SUFFICES ASSUME NEW q \in Request PROVE DeliverySound(req[q])'
      BY DEF DeliveriesSound
  <2>1. PICK c \in Delivery : c = req[q] /\ DeliverySound(c)
      BY DEF IInv, TypeOK, DeliveriesSound
  <2>2. DeliverySound(c)'
      BY <1>2, <2>1, SoundStays DEF IInv
  <2>3. QED
      BY <1>1, <2>1, <2>2
<1>6. OnBehalf
    BY <1>1 DEF OnBehalf
<1>7. QED
    BY <1>2, <1>3, <1>4, <1>5, <1>6 DEF IInv

\* The trials end, or the server dies, or nothing happens.
LEMMA QuietStep ==
    ASSUME IInv,
           UNCHANGED <<external, database>>,
           trial_over' \in BOOLEAN, crashes' \in 0..MaxCrashes,
           req' = req \/ req' = [r \in Request |-> Idle]
    PROVE  IInv' /\ OnBehalf /\ Kept
<1>1. UNCHANGED <<stripe, sent, users, subscriptions, payments, webhook_events>>
    BY DEF external, database
<1>2. Kept
    BY <1>1, EventsAre DEF IInv, Kept, Linked
<1>3. Idle \in Delivery /\ DeliverySound(Idle) /\ Idle.at = "idle"
    BY DEF Idle, Running, Delivery, Stage, DeliverySound
<1>4. req' \in [Request -> Delivery]
    BY <1>3 DEF IInv, TypeOK
<1>5. TypeOK'
    BY <1>1, <1>4 DEF IInv, TypeOK
<1>6. RowsEarned'
    BY <1>1, <1>2, RowsStay DEF IInv
<1>7. DeliveriesSound'
  <2> SUFFICES ASSUME NEW q \in Request PROVE DeliverySound(req[q])'
      BY DEF DeliveriesSound
  <2>1. PICK c \in Delivery : c = req'[q] /\ DeliverySound(c)
      BY <1>3 DEF IInv, TypeOK, DeliveriesSound
  <2>2. DeliverySound(c)'
      BY <1>2, <2>1, SoundStays DEF IInv
  <2>3. QED
      BY <2>1, <2>2
<1>8. OnBehalf
    BY <1>1, <1>3 DEF OnBehalf
<1>9. QED
    BY <1>2, <1>5, <1>6, <1>7, <1>8 DEF IInv

-----------------------------------------------------------------------------
(* Theorems *)

LEMMA InitInv == Init => IInv
<1> SUFFICES ASSUME Init PROVE IInv
    OBVIOUS
<1>1. Idle \in Delivery /\ DeliverySound(Idle)
    BY DEF Idle, Running, Delivery, Stage, DeliverySound
<1>2. /\ Trial \in Subscription /\ Trial.provider_subscription_id = None
      /\ Trial.status = "TRIALING" /\ Trial.trial_end_at
    BY DEF Trial, Subscription, SubscriptionStatus
<1>3. PICK row \in {None, Trial} : subscriptions = [u \in User |-> row]
    BY DEF Init
<1>4. sent \in Seq(Event) /\ Len(sent) <= MaxEvents
    BY DEF Init
<1>5. payments \in [Sub -> Seq(User \cup {None})]
    BY DEF Init
<1>6. TypeOK
  <2>1. stripe \in [Sub -> [status : Status \cup {"none"}, will_cancel : BOOLEAN]]
      BY DEF Init
  <2>2. subscriptions \in [User -> Subscription \cup {None}]
      BY <1>2, <1>3
  <2>3. users \in SUBSET User /\ trial_over \in BOOLEAN
      BY DEF Init
  <2>4. crashes \in 0..MaxCrashes
      BY DEF Init
  <2>5. webhook_events \in [EventId -> {None, "RECEIVED", "FAILED", "PROCESSED"}]
      BY DEF Init
  <2>6. req \in [Request -> Delivery]
      BY <1>1 DEF Init
  <2>7. QED
      BY <1>4, <1>5, <2>1, <2>2, <2>3, <2>4, <2>5, <2>6 DEF TypeOK
<1>7. RowsEarned
    BY <1>2, <1>3 DEF RowsEarned
<1>8. DeliveriesSound
    BY <1>1 DEF Init, DeliveriesSound
<1>9. QED
    BY <1>6, <1>7, <1>8 DEF IInv

LEMMA EveryStep ==
    ASSUME IInv, [Next]_vars
    PROVE  IInv' /\ OnBehalf /\ Kept
<1>1. ASSUME NEW r \in Request, Handle(r)
      PROVE  IInv' /\ OnBehalf /\ Kept
    BY <1>1, InsertStep, ChangedReadStep, UpsertReadStep, UpsertStep, UpdateSubscriptionStep,
       InvoiceReadStep, InvoiceSubscriptionStep, PayStep, MarkStep
       DEF Handle
<1>2. CASE TrialEnds
    BY <1>2, QuietStep DEF TrialEnds, IInv, TypeOK
<1>3. CASE Crash
    BY <1>3, QuietStep DEF Crash, IInv, TypeOK
<1>4. CASE UNCHANGED vars
    BY <1>4, QuietStep DEF vars, IInv, TypeOK, external, database
<1>5. QED
    BY <1>1, <1>2, <1>3, <1>4, StripeStep, ReceiveStep, DeleteUserStep DEF Next

LEMMA Invariance == Spec => []IInv
<1>1. IInv /\ [Next]_vars => IInv'
    BY EveryStep
<1>2. QED
    BY <1>1, InitInv, PTL DEF Spec

(***************************************************************************)
(* Stripe, the tables and the deliveries keep their types, for any         *)
(* statuses, events and crashes.                                           *)
(***************************************************************************)
THEOREM TypeCorrect == Spec => []TypeOK
    BY Invariance, PTL DEF IInv

(***************************************************************************)
(* In whatever order deliveries arrive, overlap, fail and repeat, paid     *)
(* access rests on the granted trial while it runs or on a subscription of *)
(* the user's own that a stored event has reported live.                   *)
(***************************************************************************)
THEOREM AccessIsEarned == Spec => []AccessEarned
<1>1. IInv => AccessEarned
    BY DEF IInv, RowsEarned, Earned, AccessEarned, is_active_subscription
<1>2. QED
    BY <1>1, Invariance, PTL

(***************************************************************************)
(* An event handled to the end stays so, and with all events of a user     *)
(* settled no step changes the user's subscription row while the account   *)
(* exists: deliveries are idempotent.                                      *)
(***************************************************************************)
THEOREM SettledEventsStaySettled == Spec => SettledIsFinal
<1>1. ASSUME IInv, [Next]_vars, NEW e \in EventId, Settled(e)
      PROVE  Settled(e)'
  <2>1. OnBehalf /\ IInv'
      BY <1>1, EveryStep
  <2>2. webhook_events[e] = "PROCESSED" /\ webhook_events'[e] = "PROCESSED"
      BY <1>1, <2>1 DEF Settled, OnBehalf
  <2>3. ASSUME NEW r \in Request, req'[r].at # "idle", req'[r].event = e
        PROVE  FALSE
      BY <1>1, <2>1, <2>2, <2>3 DEF OnBehalf, Settled, Handling
  <2>4. QED
      BY <2>2, <2>3 DEF Settled, Handling
<1>2. ASSUME IInv, [Next]_vars, NEW u \in User,
             \A e \in Sent : Owner[sent[e].sub] = u => Settled(e)
      PROVE  subscriptions'[u] = subscriptions[u] \/ u \notin users'
    BY <1>2, EveryStep DEF OnBehalf, Settled
<1>3. IInv /\ [Next]_vars =>
         [/\ \A e \in EventId : Settled(e) => Settled(e)'
          /\ \A u \in User :
                (\A e \in Sent : Owner[sent[e].sub] = u => Settled(e)) =>
                    \/ subscriptions'[u] = subscriptions[u]
                    \/ u \notin users']_vars
    BY <1>1, <1>2
<1>4. QED
    BY <1>3, Invariance, PTL DEF Spec, SettledIsFinal

-----------------------------------------------------------------------------
(* Delivered in order, one at a time *)

\* What a delivery knows of the payments of its invoice.
InvoiceSound(d) ==
    d.at # "idle" =>
        LET e == sent[d.event] IN
        /\ d.at \in {"get_for_user", "upsert", "update"} => e.type # "invoice"
        /\ d.at \in {"get_subscription", "pay"} => e.type = "invoice" /\ Len(payments[e.sub]) = 0
        /\ (d.at = "processed" /\ e.type = "invoice") => Len(payments[e.sub]) = 1

InvoicesSound == \A r \in Request : InvoiceSound(req[r])

OneAtATime == \A r, q \in Request : (req[r].at # "idle" /\ req[q].at # "idle") => r = q

ProcessedIsPaid ==
    \A e \in Sent :
        (sent[e].type = "invoice" /\ webhook_events[e] = "PROCESSED") => Len(payments[sent[e].sub]) = 1

StoredWasSent == \A e \in EventId : webhook_events[e] # None => e \in Sent

OInv == IInv /\ InvoicesSound /\ OneAtATime /\ ProcessedIsPaid /\ StoredWasSent

LengthsStay == \A s \in Sub : Len(payments'[s]) = Len(payments[s])

LEMMA InvoiceStays ==
    ASSUME TypeOK, Kept, LengthsStay, NEW d, d.at # "idle" => d.event \in Sent, InvoiceSound(d)
    PROVE  InvoiceSound(d)'
<1> SUFFICES ASSUME d.at # "idle" PROVE InvoiceSound(d)'
    BY DEF InvoiceSound
<1>1. d.event \in Sent /\ sent[d.event] \in Event /\ sent'[d.event] = sent[d.event]
    BY EventsAre DEF Kept
<1>2. Len(payments'[sent[d.event].sub]) = Len(payments[sent[d.event].sub])
    BY <1>1 DEF Event, LengthsStay
<1>3. QED
    BY <1>1, <1>2 DEF InvoiceSound

LEMMA StoredStaysSent ==
    ASSUME OInv, Kept, OnBehalf
    PROVE  StoredWasSent'
<1> SUFFICES ASSUME NEW e \in EventId, webhook_events'[e] # None PROVE e \in Sent'
    BY DEF StoredWasSent
<1>1. e \in Sent
  <2>1. CASE webhook_events'[e] = webhook_events[e]
      BY <2>1 DEF OInv, StoredWasSent
  <2>2. CASE Handling(e)
      BY <2>2 DEF Handling, OInv, IInv, DeliveriesSound, DeliverySound
  <2>3. QED
      BY <2>1, <2>2 DEF OnBehalf
<1>2. QED
    BY <1>1, EventsAre DEF Kept, Sent, OInv, IInv

\* A step that leaves the number of payments of every invoice as it is.
LEMMA NothingPaid ==
    ASSUME OInv, IInv', OnBehalf, Kept, LengthsStay, OneAtATime',
           \A q \in Request : req'[q].at # "idle" =>
               req'[q].event \in Sent /\ InvoiceSound(req'[q]),
           \A e \in Sent : (sent[e].type = "invoice" /\ webhook_events'[e] = "PROCESSED") =>
               Len(payments[sent[e].sub]) = 1
    PROVE  OInv'
<1>1. ASSUME NEW q \in Request PROVE InvoiceSound(req[q])'
  <2>1. PICK c : c = req'[q]
      OBVIOUS
  <2>2. InvoiceSound(c) /\ (c.at # "idle" => c.event \in Sent)
      BY <2>1 DEF InvoiceSound
  <2>3. InvoiceSound(c)'
      BY <2>2, InvoiceStays DEF OInv, IInv
  <2>4. QED
      BY <2>1, <2>3
<1>2. StoredWasSent'
    BY StoredStaysSent
<1>3. ProcessedIsPaid'
  <2> SUFFICES ASSUME NEW e \in Sent', sent'[e].type = "invoice", webhook_events'[e] = "PROCESSED"
               PROVE  Len(payments'[sent'[e].sub]) = 1
      BY DEF ProcessedIsPaid
  <2>1. e \in EventId
      BY EventsAre DEF IInv, TypeOK, Sent, EventId
  <2>2. e \in Sent
    <3>1. CASE webhook_events'[e] = webhook_events[e]
        BY <2>1, <3>1 DEF OInv, StoredWasSent
    <3>2. CASE Handling(e)
        BY <3>2 DEF Handling, OInv, IInv, DeliveriesSound, DeliverySound
    <3>3. QED
        BY <2>1, <3>1, <3>2 DEF OnBehalf
  <2>3. sent'[e] = sent[e] /\ sent[e] \in Event
      BY <2>2, EventsAre DEF Kept, OInv, IInv
  <2>4. QED
      BY <2>2, <2>3 DEF LengthsStay, Event
<1>4. QED
    BY <1>1, <1>2, <1>3 DEF OInv, InvoicesSound

\* A delivery that moves on as `d` and pays nothing.
LEMMA MovesInOrder ==
    ASSUME OInv, IInv', OnBehalf, Kept, UNCHANGED payments, NEW r \in Request, NEW d,
           req' = [req EXCEPT ![r] = d],
           d.at # "idle" =>
               /\ d.event \in Sent /\ InvoiceSound(d)
               /\ req[r].at # "idle" \/ \A q \in Request : req[q].at = "idle",
           \A e \in Sent : webhook_events'[e] = "PROCESSED" =>
               \/ webhook_events[e] = "PROCESSED"
               \/ sent[e].type = "invoice" => Len(payments[sent[e].sub]) = 1
    PROVE  OInv'
<1>1. \A q \in Request : req'[q] = IF q = r THEN d ELSE req[q]
    BY DEF OInv, IInv, TypeOK
<1>2. OneAtATime'
    BY <1>1 DEF OInv, OneAtATime
<1>3. \A q \in Request : req'[q].at # "idle" => req'[q].event \in Sent /\ InvoiceSound(req'[q])
  <2> SUFFICES ASSUME NEW q \in Request, req'[q].at # "idle"
               PROVE  req'[q].event \in Sent /\ InvoiceSound(req'[q])
      OBVIOUS
  <2>1. CASE q = r
      BY <1>1, <2>1
  <2>2. CASE q # r
    <3>1. req'[q] = req[q] /\ InvoiceSound(req[q]) /\ DeliverySound(req[q])
        BY <1>1, <2>2 DEF OInv, IInv, InvoicesSound, DeliveriesSound
    <3>2. QED
        BY <3>1 DEF DeliverySound
  <2>3. QED
      BY <2>1, <2>2
<1>4. \A e \in Sent : (sent[e].type = "invoice" /\ webhook_events'[e] = "PROCESSED") =>
          Len(payments[sent[e].sub]) = 1
    BY DEF OInv, ProcessedIsPaid
<1>5. LengthsStay
    BY DEF LengthsStay
<1>6. QED
    BY <1>2, <1>3, <1>4, <1>5, NothingPaid

LEMMA ReceiveInOrder ==
    ASSUME OInv, IInv', OnBehalf, Kept, NEW r \in Request, NEW e \in EventId,
           Receive(r, e), InOrder(r, e)
    PROVE  OInv'
<1>1. PICK at \in {"insert", "dispatch"} :
          at = IF webhook_events[e] = None THEN "insert" ELSE "dispatch"
    OBVIOUS
<1>2. PICK d : d = Running(at, e, webhook_events[e], None, None)
    OBVIOUS
<1>3. d.at = at /\ d.event = e /\ e \in Sent
    BY <1>2 DEF Running, Receive, Sent, EventId
<1>4. InvoiceSound(d)
    BY <1>1, <1>3 DEF InvoiceSound
<1>5. /\ req' = [req EXCEPT ![r] = d] /\ UNCHANGED payments /\ webhook_events' = webhook_events
      /\ \A q \in Request : req[q].at = "idle"
    BY <1>1, <1>2 DEF Receive, database, InOrder
<1>6. QED
    BY <1>3, <1>4, <1>5, MovesInOrder

\* A delivery that is refused or fails.
LEMMA StopsInOrder ==
    ASSUME OInv, IInv', OnBehalf, Kept, NEW r \in Request, req[r].at # "idle",
           Finish(r) \/ Continue(r, "failed"), UNCHANGED <<payments, webhook_events>>
    PROVE  OInv'
<1>1. PICK d : /\ req' = [req EXCEPT ![r] = d]
               /\ d.at = "idle" \/ (d.at = "failed" /\ d.event = req[r].event)
  <2>1. CASE Finish(r)
    <3>1. Idle.at = "idle" /\ req' = [req EXCEPT ![r] = Idle]
        BY <2>1 DEF Finish, Idle, Running
    <3>2. QED
        BY <3>1
  <2>2. CASE Continue(r, "failed")
    <3>1. PICK d : d = Running("failed", req[r].event, req[r].seen, None, None)
        OBVIOUS
    <3>2. d.at = "failed" /\ d.event = req[r].event
        BY <3>1 DEF Running
    <3>3. req' = [req EXCEPT ![r] = d]
        BY <2>2, <3>1 DEF Continue, Goto, OInv, IInv, TypeOK
    <3>4. QED
        BY <3>2, <3>3
  <2>3. QED
      BY <2>1, <2>2
<1>2. req[r].event \in Sent
    BY RequestTyped DEF OInv
<1>3. InvoiceSound(d)
    BY <1>1 DEF InvoiceSound
<1>4. QED
    BY <1>1, <1>2, <1>3, MovesInOrder

\* A delivery that goes on to `at` with no payment made.
LEMMA GoesOnInOrder ==
    ASSUME OInv, IInv', OnBehalf, Kept, NEW r \in Request, req[r].at # "idle",
           NEW at \in Stage, NEW u, NEW row, Goto(r, at, u, row),
           UNCHANGED <<payments, webhook_events>>,
           at \in {"get_for_user", "upsert", "update"} => Object(r).type # "invoice",
           at \in {"get_subscription", "pay"} =>
              Object(r).type = "invoice" /\ Len(payments[Object(r).sub]) = 0,
           (at = "processed" /\ Object(r).type = "invoice") => Len(payments[Object(r).sub]) = 1
    PROVE  OInv'
<1>1. PICK d : d = Running(at, req[r].event, req[r].seen, u, row)
    OBVIOUS
<1>2. d.at = at /\ d.event = req[r].event /\ req[r].event \in Sent
    BY <1>1, RequestTyped DEF Running, OInv
<1>3. InvoiceSound(d)
    BY <1>2 DEF InvoiceSound, Object
<1>4. req' = [req EXCEPT ![r] = d]
    BY <1>1 DEF Goto, OInv, IInv, TypeOK
<1>5. QED
    BY <1>2, <1>3, <1>4, MovesInOrder

LEMMA InsertInOrder ==
    ASSUME OInv, IInv', OnBehalf, Kept, NEW r \in Request, Insert(r)
    PROVE  OInv'
<1> DEFINE e == req[r].event
<1>1. req[r].at = "insert" /\ e \in Sent /\ e \in EventId /\ UNCHANGED payments
    BY RequestTyped DEF Insert, OInv
<1>2. CASE webhook_events[e] = None
  <2>1. PICK d : d = Running("dispatch", e, "RECEIVED", None, None)
      OBVIOUS
  <2>2. d.at = "dispatch" /\ d.event = e /\ InvoiceSound(d)
      BY <2>1 DEF Running, InvoiceSound
  <2>3. req' = [req EXCEPT ![r] = d]
      BY <1>2, <2>1 DEF Insert, OInv, IInv, TypeOK
  <2>4. \A f \in EventId : webhook_events'[f] = IF f = e THEN "RECEIVED" ELSE webhook_events[f]
      BY <1>2 DEF Insert, OInv, IInv, TypeOK
  <2>5. \A f \in Sent : webhook_events'[f] = "PROCESSED" => webhook_events[f] = "PROCESSED"
      BY <2>4, EventsAre DEF OInv, IInv
  <2>6. QED
      BY <1>1, <2>2, <2>3, <2>5, MovesInOrder
<1>3. CASE webhook_events[e] # None
    BY <1>1, <1>3, StopsInOrder DEF Insert
<1>4. QED
    BY <1>2, <1>3

LEMMA MarkInOrder ==
    ASSUME OInv, IInv', OnBehalf, Kept, NEW r \in Request, Mark(r)
    PROVE  OInv'
<1> DEFINE e == req[r].event
<1>1. /\ req[r].at \in {"processed", "failed"} /\ e \in Sent /\ e \in EventId /\ UNCHANGED payments
      /\ InvoiceSound(req[r])
    BY RequestTyped DEF Mark, OInv, InvoicesSound
<1>2. PICK d : d = Idle
    OBVIOUS
<1>3. req' = [req EXCEPT ![r] = d] /\ d.at = "idle"
    BY <1>2 DEF Mark, Finish, Idle, Running
<1>4. \A f \in EventId :
          /\ f # e => webhook_events'[f] = webhook_events[f]
          /\ (webhook_events'[e] = "PROCESSED" /\ req[r].at = "failed") => webhook_events[e] = "PROCESSED"
    BY <1>1 DEF Mark, OInv, IInv, TypeOK
<1>5. req[r].at = "processed" /\ sent[e].type = "invoice" => Len(payments[sent[e].sub]) = 1
    BY <1>1 DEF InvoiceSound
<1>6. \A f \in Sent : webhook_events'[f] = "PROCESSED" =>
          \/ webhook_events[f] = "PROCESSED"
          \/ sent[f].type = "invoice" => Len(payments[sent[f].sub]) = 1
    BY <1>1, <1>4, <1>5, EventsAre DEF OInv, IInv
<1>7. QED
    BY <1>1, <1>3, <1>6, MovesInOrder

LEMMA RequestInOrder ==
    ASSUME OInv, NEW r \in Request, req[r].at # "idle"
    PROVE  /\ Object(r) \in Event
           /\ req[r].at \in {"get_for_user", "upsert", "update"} => Object(r).type # "invoice"
           /\ req[r].at \in {"get_subscription", "pay"} =>
                 Object(r).type = "invoice" /\ Len(payments[Object(r).sub]) = 0
    BY RequestTyped DEF OInv, InvoicesSound, InvoiceSound, Object

LEMMA ReadsInOrder ==
    ASSUME OInv, IInv', OnBehalf, Kept, NEW r \in Request,
           ChangedRead(r) \/ UpsertRead(r) \/ InvoiceRead(r) \/ InvoiceSubscription(r)
    PROVE  OInv'
<1>1. req[r].at # "idle" /\ UNCHANGED <<payments, webhook_events>>
    BY DEF ChangedRead, UpsertRead, InvoiceRead, InvoiceSubscription, database
<1>2. CASE ChangedRead(r)
  <2>1. Object(r).type = "changed"
      BY <1>2 DEF ChangedRead
  <2>2. PICK at \in {"update", "failed", "get_for_user", "processed"}, u \in User \cup {None},
             row \in Subscription \cup {None} : Goto(r, at, u, row)
    <3>1. \A u \in User : subscriptions[u] \in Subscription \cup {None}
        BY DEF OInv, IInv, TypeOK
    <3>2. QED
        BY <1>2, <3>1 DEF ChangedRead, Continue, Holders
  <2>3. QED
      BY <1>1, <2>1, <2>2, GoesOnInOrder DEF Stage
<1>3. CASE UpsertRead(r)
  <2>1. Object(r).type # "invoice"
      BY <1>1, <1>3, RequestInOrder DEF UpsertRead
  <2>2. PICK u, row : Goto(r, "upsert", u, row)
      BY <1>3 DEF UpsertRead
  <2>3. QED
      BY <1>1, <2>1, <2>2, GoesOnInOrder DEF Stage
<1>4. CASE InvoiceRead(r)
  <2>1. Object(r).type = "invoice"
      BY <1>4 DEF InvoiceRead
  <2>2. \/ Len(payments[Object(r).sub]) = 0 /\ Goto(r, "get_subscription", None, None)
        \/ Len(payments[Object(r).sub]) = 1 /\ Goto(r, "processed", None, None)
        \/ Continue(r, "failed")
      BY <1>4 DEF InvoiceRead, Continue
  <2>3. QED
      BY <1>1, <2>1, <2>2, GoesOnInOrder, StopsInOrder DEF Stage
<1>5. CASE InvoiceSubscription(r)
  <2>1. Object(r).type = "invoice" /\ Len(payments[Object(r).sub]) = 0
      BY <1>1, <1>5, RequestInOrder DEF InvoiceSubscription
  <2>2. PICK u, row : Goto(r, "pay", u, row)
      BY <1>5 DEF InvoiceSubscription, Continue
  <2>3. QED
      BY <1>1, <2>1, <2>2, GoesOnInOrder DEF Stage
<1>6. QED
    BY <1>2, <1>3, <1>4, <1>5

LEMMA WritesInOrder ==
    ASSUME OInv, IInv', OnBehalf, Kept, NEW r \in Request,
           Upsert(r) \/ UpdateSubscription(r)
    PROVE  OInv'
<1>1. /\ req[r].at \in {"upsert", "update"} /\ UNCHANGED <<payments, webhook_events>>
      /\ Object(r).type # "invoice"
    BY RequestInOrder DEF Upsert, UpdateSubscription
<1>2. Finish(r) \/ Continue(r, "failed") \/ Continue(r, "processed")
    BY DEF Upsert, UpdateSubscription, UpdateRow, CreateRow
<1>3. CASE Continue(r, "processed")
    BY <1>1, <1>3, GoesOnInOrder DEF Continue, Stage
<1>4. QED
    BY <1>1, <1>2, <1>3, StopsInOrder

LEMMA PayInOrder ==
    ASSUME OInv, IInv', OnBehalf, Kept, NEW r \in Request, Pay(r)
    PROVE  OInv'
<1>1. /\ req[r].at = "pay" /\ req[r] \in Delivery /\ Object(r) \in Event
      /\ Object(r).type = "invoice" /\ Len(payments[Object(r).sub]) = 0
      /\ req[r].event \in Sent /\ UNCHANGED <<external, webhook_events>>
    BY RequestInOrder, RequestTyped DEF Pay, OInv
<1>2. PICK s \in Sub : s = Object(r).sub
    BY <1>1 DEF Event
<1>3. CASE Finish(r) /\ UNCHANGED payments
    BY <1>1, <1>3, StopsInOrder
<1>4. CASE /\ payments' = [payments EXCEPT ![s] = Append(payments[s], req[r].user)]
           /\ Continue(r, "processed")
  <2>1. PICK d : d = Running("processed", req[r].event, req[r].seen, None, None)
      OBVIOUS
  <2>2. /\ d.at = "processed" /\ d.event = req[r].event
        /\ \A q \in Request : req'[q] = IF q = r THEN d ELSE req[q]
      BY <1>4, <2>1 DEF Continue, Goto, Running, OInv, IInv, TypeOK
  <2>3. \A t \in Sub : Len(payments'[t]) = IF t = s THEN 1 ELSE Len(payments[t])
    <3>1. payments[s] \in Seq(User \cup {None}) /\ req[r].user \in User \cup {None}
        BY <1>1 DEF OInv, IInv, TypeOK, Delivery
    <3>2. Len(Append(payments[s], req[r].user)) = 1
        BY <1>1, <1>2, <3>1
    <3>3. QED
        BY <1>4, <3>2 DEF OInv, IInv, TypeOK
  <2>4. \A q \in Request : q # r => req[q].at = "idle"
      BY <1>1 DEF OInv, OneAtATime
  <2>5. sent' = sent /\ webhook_events' = webhook_events
      BY <1>1 DEF external
  <2>6. InvoicesSound'
    <3> SUFFICES ASSUME NEW q \in Request, req'[q].at # "idle" PROVE InvoiceSound(req[q])'
        BY DEF InvoicesSound, InvoiceSound
    <3>1. req'[q] = d
        BY <2>2, <2>4
    <3>2. Len(payments'[sent'[d.event].sub]) = 1
        BY <1>2, <2>2, <2>3, <2>5 DEF Object
    <3>3. QED
        BY <2>2, <3>1, <3>2 DEF InvoiceSound
  <2>7. OneAtATime'
      BY <2>2, <2>4 DEF OneAtATime
  <2>8. ProcessedIsPaid'
    <3> SUFFICES ASSUME NEW e \in Sent, sent[e].type = "invoice", webhook_events[e] = "PROCESSED"
                 PROVE  Len(payments'[sent[e].sub]) = 1
        BY <2>5 DEF ProcessedIsPaid, Sent
    <3>1. sent[e].sub \in Sub /\ Len(payments[sent[e].sub]) = 1
        BY EventsAre DEF OInv, IInv, ProcessedIsPaid, Event
    <3>2. QED
        BY <2>3, <3>1
  <2>9. StoredWasSent'
      BY StoredStaysSent
  <2>10. QED
      BY <2>6, <2>7, <2>8, <2>9 DEF OInv
<1>5. QED
    BY <1>2, <1>3, <1>4 DEF Pay

\* A step outside the deliveries.
LEMMA OutsideInOrder ==
    ASSUME OInv, IInv', OnBehalf, Kept, LengthsStay, webhook_events' = webhook_events,
           req' = req \/ \A q \in Request : req'[q].at = "idle"
    PROVE  OInv'
<1>1. OneAtATime'
    BY DEF OInv, OneAtATime
<1>2. ASSUME NEW q \in Request, req'[q].at # "idle"
      PROVE  req'[q].event \in Sent /\ InvoiceSound(req'[q])
  <2>1. req'[q] = req[q] /\ InvoiceSound(req[q]) /\ DeliverySound(req[q])
      BY <1>2 DEF OInv, IInv, InvoicesSound, DeliveriesSound
  <2>2. QED
      BY <1>2, <2>1 DEF DeliverySound
<1>3. \A e \in Sent : (sent[e].type = "invoice" /\ webhook_events'[e] = "PROCESSED") =>
          Len(payments[sent[e].sub]) = 1
    BY DEF OInv, ProcessedIsPaid
<1>4. QED
    BY <1>1, <1>2, <1>3, NothingPaid

LEMMA DeleteKeepsLengths ==
    ASSUME IInv, NEW u \in User, DeleteUser(u)
    PROVE  LengthsStay
<1> SUFFICES ASSUME NEW s \in Sub PROVE Len(payments'[s]) = Len(payments[s])
    BY DEF LengthsStay
<1>1. PICK rows \in Seq(User \cup {None}) : rows = payments[s]
    BY DEF IInv, TypeOK
<1>2. PICK left : left = [i \in DOMAIN rows |-> IF rows[i] = u THEN None ELSE rows[i]]
    OBVIOUS
<1>3. DOMAIN rows = 1..Len(rows) /\ Len(rows) \in Nat
    OBVIOUS
<1>4. left \in [1..Len(rows) -> User \cup {None}]
    BY <1>2, <1>3
<1>5. left \in Seq(User \cup {None}) /\ Len(left) = Len(rows)
    BY <1>3, <1>4
<1>6. payments'[s] = left
    BY <1>1, <1>2 DEF DeleteUser
<1>7. QED
    BY <1>1, <1>5, <1>6

LEMMA EveryOrderedStep ==
    ASSUME OInv, [OrderedNext]_vars
    PROVE  OInv'
<1>1. IInv' /\ OnBehalf /\ Kept
    BY EveryStep DEF OInv, OrderedNext
<1>2. CASE UNCHANGED vars
    BY <1>1, <1>2, OutsideInOrder DEF vars, database, LengthsStay
<1>3. ASSUME NEW s \in Sub,
             \/ Subscribe(s) \/ InvoicePaid(s)
             \/ \E status \in Status, will_cancel \in BOOLEAN :
                   ChangeSubscription(s, status, will_cancel)
      PROVE  OInv'
  <2>1. UNCHANGED <<payments, webhook_events, req>>
      BY <1>3 DEF Subscribe, InvoicePaid, ChangeSubscription, Send, database
  <2>2. QED
      BY <1>1, <2>1, OutsideInOrder DEF LengthsStay
<1>4. ASSUME NEW r \in Request, NEW e \in EventId, Receive(r, e), OrderedNext
      PROVE  OInv'
    BY <1>1, <1>4, ReceiveInOrder DEF OrderedNext
<1>5. ASSUME NEW r \in Request, Handle(r)
      PROVE  OInv'
    BY <1>1, <1>5, InsertInOrder, ReadsInOrder, WritesInOrder, PayInOrder, MarkInOrder DEF Handle
<1>6. ASSUME NEW u \in User, DeleteUser(u)
      PROVE  OInv'
  <2>1. LengthsStay /\ UNCHANGED <<webhook_events, req>>
      BY <1>6, DeleteKeepsLengths DEF OInv, DeleteUser
  <2>2. QED
      BY <1>1, <2>1, OutsideInOrder
<1>7. CASE TrialEnds
    BY <1>1, <1>7, OutsideInOrder DEF TrialEnds, database, LengthsStay
<1>8. CASE Crash
  <2>1. UNCHANGED <<payments, webhook_events>> /\ \A q \in Request : req'[q].at = "idle"
      BY <1>8 DEF Crash, database, Idle, Running
  <2>2. QED
      BY <1>1, <2>1, OutsideInOrder DEF LengthsStay
<1>9. QED
    BY <1>2, <1>3, <1>4, <1>5, <1>6, <1>7, <1>8 DEF OrderedNext, Next

LEMMA OrderedInit == Init => OInv
<1> SUFFICES ASSUME Init PROVE OInv
    OBVIOUS
<1>1. IInv
    BY InitInv
<1>2. Sent = {} /\ \A r \in Request : req[r].at = "idle"
    BY DEF Init, Idle, Running, Sent
<1>3. StoredWasSent
    BY DEF Init, StoredWasSent
<1>4. QED
    BY <1>1, <1>2, <1>3 DEF OInv, InvoicesSound, InvoiceSound, OneAtATime, ProcessedIsPaid

(***************************************************************************)
(* Delivered in order and one at a time, a settled invoice is in the books *)
(* exactly once, through crashes between the insert and the mark, repeated *)
(* deliveries and the deletion of its user, for any number of them.        *)
(***************************************************************************)
THEOREM InvoicesArePaidOnce == OrderedSpec => []PaidOnce
<1>1. OInv /\ [OrderedNext]_vars => OInv'
    BY EveryOrderedStep
<1>2. OInv => PaidOnce
    BY DEF OInv, ProcessedIsPaid, PaidOnce, Settled
<1>3. QED
    BY <1>1, <1>2, OrderedInit, PTL DEF OrderedSpec

-----------------------------------------------------------------------------
(* Delivered in order, the row of a user's only subscription               *)

\* d is the last of the first n events that is about s.
LastOf(s, n, d) ==
    /\ d \in 1..n
    /\ sent[d].sub = s
    /\ \A f \in 1..n : f > d => sent[f].sub # s

\* What the events of a subscription tell of Stripe's state of it.
StripeTold ==
    \A s \in Sub :
        \/ stripe[s].status = "none" /\ \A d \in Sent : sent[d].sub # s
        \/ \E d \in Sent :
              /\ LastOf(s, Len(sent), d)
              /\ sent[d].status = stripe[s].status
              /\ sent[d].will_cancel = stripe[s].will_cancel

\* An invoice repeats the state of the event before it; a checkout comes first.
History ==
    \A e \in Sent :
        /\ sent[e].type = "invoice" =>
              \E d \in Sent :
                 /\ LastOf(sent[e].sub, e - 1, d)
                 /\ sent[d].status = sent[e].status
                 /\ sent[e].status = "active"
                 /\ sent[d].will_cancel = sent[e].will_cancel
        /\ sent[e].type = "checkout" =>
              /\ sent[e].status = "active"
              /\ ~sent[e].will_cancel
              /\ \A d \in 1 .. e - 1 : sent[d].sub # sent[e].sub

\* A row is that of an account, and without a subscription it renews.
RowsPlain ==
    \A u \in User :
        subscriptions[u] # None =>
            /\ u \in users
            /\ subscriptions[u].provider_subscription_id = None => ~subscriptions[u].cancel_at_period_end

Unlinked(row) == row = None \/ row.provider_subscription_id = None

\* The row of the owner of s says what the first n events say of s.
Tells(row, s, n) ==
    /\ row # None
    /\ row.provider_subscription_id = s
    /\ \E d \in 1..n :
          /\ LastOf(s, n, d)
          /\ row.status = StatusOr(sent[d].status, "ACTIVE")
          /\ (\E c \in 1..n : sent[c].type = "checkout" /\ sent[c].sub = s) =>
                row.cancel_at_period_end = sent[d].will_cancel

TellsNothing(row, s, n) ==
    /\ Unlinked(row)
    /\ \A d \in 1..n : sent[d].sub = s =>
          sent[d].type = "changed" /\ sent[d].status \notin {"trialing", "active"}

Reflects(s, n) ==
    Tells(subscriptions[Owner[s]], s, n) \/ TellsNothing(subscriptions[Owner[s]], s, n)

Processed(n) == \A d \in 1..n : webhook_events[d] = "PROCESSED"

InTurn ==
    \A e \in EventId : webhook_events[e] # None => Processed(e - 1)

\* The row is that of the events that are processed, or of one more: the delivery
\* of that one has written the row, and runs on or has been lost.
Mirrored ==
    \A s \in Sub, n \in 0..Len(sent) :
        (/\ Owner[s] \in users
         /\ Processed(n)
         /\ n < Len(sent) => webhook_events[n + 1] # "PROCESSED") =>
            \/ Reflects(s, n)
            \/ n < Len(sent) /\ Reflects(s, n + 1)

\* A delivery handles the first event that is not processed; its read is the
\* row as it is, while the account is there.
Mirrors(d) ==
    d.at # "idle" =>
        LET e == d.event
            s == sent[e].sub
            row == subscriptions[Owner[s]]
        IN
        /\ Processed(e - 1)
        /\ webhook_events[e] # "PROCESSED"
        /\ d.at = "get_for_user" => sent[e].type = "changed"
        /\ d.at = "update" => sent[e].type = "changed"
        /\ Owner[s] \in users =>
              /\ d.at = "get_for_user" => Unlinked(row)
              /\ d.at \in {"upsert", "update"} => d.read = row
              /\ d.at = "update" => row # None /\ row.provider_subscription_id = s
              /\ (d.at = "upsert" /\ sent[e].type # "checkout") =>
                    sent[e].type = "changed" /\ Unlinked(row)
              /\ d.at = "processed" => Reflects(s, e)

AllMirror == \A r \in Request : Mirrors(req[r])

\* No user has two subscriptions.
OneEach == \A s, t \in Sub : Owner[s] = Owner[t] => s = t

MInv == OInv /\ StripeTold /\ History /\ RowsPlain /\ InTurn /\ Mirrored /\ AllMirror

LEMMA LastIsOne ==
    ASSUME NEW s, NEW n \in Nat, NEW d, NEW f, LastOf(s, n, d), LastOf(s, n, f)
    PROVE  d = f
    BY DEF LastOf

\* What the events up to n say does not change as events are appended.
LEMMA TellingStays ==
    ASSUME TypeOK, Kept, NEW s, NEW n \in 0..Len(sent), NEW row
    PROVE  /\ \A d : LastOf(s, n, d) => LastOf(s, n, d)'
           /\ Tells(row, s, n) <=> Tells(row, s, n)'
           /\ TellsNothing(row, s, n) <=> TellsNothing(row, s, n)'
<1>1. Len(sent) \in Nat /\ \A d \in 1..n : d \in Sent /\ sent'[d] = sent[d]
    BY EventsAre DEF Kept, Sent
<1>2. \A d : LastOf(s, n, d) <=> LastOf(s, n, d)'
    BY <1>1 DEF LastOf
<1>3. Tells(row, s, n) <=> Tells(row, s, n)'
    BY <1>1, <1>2 DEF Tells
<1>4. TellsNothing(row, s, n) <=> TellsNothing(row, s, n)'
    BY <1>1 DEF TellsNothing, Unlinked
<1>5. QED
    BY <1>2, <1>3, <1>4

\* An event of another subscription says nothing of s.
LEMMA OtherEvent ==
    ASSUME NEW s, NEW n \in Nat, sent[n + 1].sub # s, NEW row
    PROVE  /\ Tells(row, s, n) <=> Tells(row, s, n + 1)
           /\ TellsNothing(row, s, n) <=> TellsNothing(row, s, n + 1)
<1>1. 1 .. n + 1 = (1..n) \cup {n + 1}
    OBVIOUS
<1>2. \A d : LastOf(s, n, d) <=> LastOf(s, n + 1, d)
    BY <1>1 DEF LastOf
<1>3. (\E c \in 1..n : sent[c].type = "checkout" /\ sent[c].sub = s) <=>
          \E c \in 1 .. n + 1 : sent[c].type = "checkout" /\ sent[c].sub = s
    BY <1>1
<1>4. \A d : LastOf(s, n, d) => d \in 1..n /\ d \in 1 .. n + 1
    BY <1>1 DEF LastOf
<1>5. \A d : LastOf(s, n + 1, d) => d \in 1..n
    BY <1>2, <1>4
<1>6. Tells(row, s, n) => Tells(row, s, n + 1)
    BY <1>2, <1>3, <1>4, Zenon DEF Tells
<1>7. Tells(row, s, n + 1) => Tells(row, s, n)
    BY <1>2, <1>3, <1>5, Zenon DEF Tells
<1>8. TellsNothing(row, s, n) <=> TellsNothing(row, s, n + 1)
    BY <1>1 DEF TellsNothing
<1>9. QED
    BY <1>6, <1>7, <1>8

LEMMA LastNow ==
    ASSUME NEW e \in Nat \ {0}, NEW s, sent[e].sub = s
    PROVE  LastOf(s, e, e)
    BY DEF LastOf

\* A row that the last event itself has written.
LEMMA WrittenTells ==
    ASSUME NEW e \in Nat \ {0}, NEW s, sent[e].sub = s, NEW row, row # None,
           row.provider_subscription_id = s,
           row.status = StatusOr(sent[e].status, "ACTIVE"),
           \/ row.cancel_at_period_end = sent[e].will_cancel
           \/ \A c \in 1..e : sent[c].sub = s => sent[c].type # "checkout"
    PROVE  Tells(row, s, e)
<1>1. LastOf(s, e, e) /\ e \in 1..e
    BY LastNow
<1>2. QED
    BY <1>1 DEF Tells

LEMMA NothingBefore ==
    ASSUME NEW e \in Nat \ {0}, NEW s, NEW row
    PROVE  /\ TellsNothing(row, s, e) => TellsNothing(row, s, e - 1)
           /\ (/\ TellsNothing(row, s, e - 1)
               /\ sent[e].type = "changed"
               /\ sent[e].status \notin {"trialing", "active"}) => TellsNothing(row, s, e)
<1>1. 1..e = (1 .. e - 1) \cup {e}
    OBVIOUS
<1>2. QED
    BY <1>1 DEF TellsNothing

\* An invoice leaves the row as the event before it has left it.
LEMMA InvoiceRepeats ==
    ASSUME TypeOK, History, NEW e \in Sent, sent[e].type = "invoice", NEW row,
           \/ Tells(row, sent[e].sub, e - 1) \/ TellsNothing(row, sent[e].sub, e - 1)
    PROVE  Tells(row, sent[e].sub, e)
<1>1. e \in Nat \ {0}
    BY EventsAre DEF Sent
<1>2. PICK s : s = sent[e].sub
    OBVIOUS
<1>3. PICK d \in Sent :
          /\ LastOf(s, e - 1, d)
          /\ sent[d].status = sent[e].status
          /\ sent[e].status = "active"
          /\ sent[d].will_cancel = sent[e].will_cancel
    BY <1>2 DEF History
<1>4. ~TellsNothing(row, s, e - 1)
    BY <1>3 DEF TellsNothing, LastOf
<1>5. Tells(row, s, e - 1)
    BY <1>2, <1>4
<1>6. PICK f \in 1 .. e - 1 :
          /\ LastOf(s, e - 1, f)
          /\ row.status = StatusOr(sent[f].status, "ACTIVE")
          /\ (\E c \in 1 .. e - 1 : sent[c].type = "checkout" /\ sent[c].sub = s) =>
                row.cancel_at_period_end = sent[f].will_cancel
    BY <1>5 DEF Tells
<1>7. f = d
    BY <1>1, <1>3, <1>6, LastIsOne
<1>8. row # None /\ row.provider_subscription_id = s /\ row.status = StatusOr(sent[e].status, "ACTIVE")
    BY <1>3, <1>5, <1>6, <1>7 DEF Tells
<1>9. \/ row.cancel_at_period_end = sent[e].will_cancel
      \/ \A c \in 1..e : sent[c].sub = s => sent[c].type # "checkout"
  <2>1. 1..e = (1 .. e - 1) \cup {e}
      BY <1>1
  <2>2. QED
      BY <1>3, <1>6, <1>7, <2>1
<1>10. QED
    BY <1>1, <1>2, <1>8, <1>9, WrittenTells

-----------------------------------------------------------------------------
(* The row of a running delivery *)

\* What a delivery under way knows: its event is the first that is not
\* processed, and the row is that of the events before it, or of them and it.
LEMMA AtTurn ==
    ASSUME MInv, OneEach, NEW r \in Request, req[r].at # "idle"
    PROVE  LET e == req[r].event
               s == sent[e].sub
               row == subscriptions[Owner[s]]
           IN
           /\ e \in Sent /\ e \in Nat \ {0} /\ sent[e] \in Event /\ s \in Sub
           /\ e \in EventId
           /\ Owner[s] \in User
           /\ Processed(e - 1) /\ webhook_events[e] # "PROCESSED"
           /\ Owner[s] \in users => Reflects(s, e - 1) \/ Reflects(s, e)
           /\ row \in Subscription \cup {None}
           /\ row # None => Owner[s] \in users
           /\ Holders(s) \subseteq {Owner[s]}
           /\ Unlinked(row) \/ (Owner[s] \in Holders(s) /\ row.provider_subscription_id = s)
<1>1. PICK e : e = req[r].event
    OBVIOUS
<1>2. e \in Sent /\ e \in EventId /\ e \in Nat \ {0} /\ sent[e] \in Event
    BY <1>1, RequestTyped DEF MInv, OInv, EventId, Object
<1>3. PICK s \in Sub : s = sent[e].sub
    BY <1>2 DEF Event
<1>4. PICK row : row = subscriptions[Owner[s]]
    OBVIOUS
<1>5. Owner[s] \in User /\ row \in Subscription \cup {None}
    BY <1>3, <1>4 DEF MInv, OInv, IInv, TypeOK
<1>6. Processed(e - 1) /\ webhook_events[e] # "PROCESSED"
    BY <1>1 DEF MInv, AllMirror, Mirrors
<1>7. Owner[s] \in users => Reflects(s, e - 1) \/ Reflects(s, e)
  <2>1. e - 1 \in 0..Len(sent) /\ e - 1 < Len(sent) /\ (e - 1) + 1 = e
      BY <1>2, EventsAre DEF Sent, MInv, OInv, IInv
  <2>2. QED
      BY <1>3, <1>6, <2>1 DEF MInv, Mirrored
<1>8. row # None => Owner[s] \in users
    BY <1>4, <1>5 DEF MInv, RowsPlain
<1>9. Holders(s) \subseteq {Owner[s]}
  <2> SUFFICES ASSUME NEW u \in Holders(s) PROVE u = Owner[s]
      OBVIOUS
  <2>1. /\ u \in User /\ subscriptions[u] # None
        /\ subscriptions[u].provider_subscription_id = s /\ s # None
      BY <1>3 DEF Holders
  <2>2. QED
      BY <2>1 DEF MInv, OInv, IInv, RowsEarned, Earned
<1>10. Unlinked(row) \/ (Owner[s] \in Holders(s) /\ row.provider_subscription_id = s)
  <2> SUFFICES ASSUME ~Unlinked(row)
               PROVE  Owner[s] \in Holders(s) /\ row.provider_subscription_id = s
      OBVIOUS
  <2>1. PICK t : t = row.provider_subscription_id
      OBVIOUS
  <2>2. t \in Sub /\ Owner[t] = Owner[s]
      BY <1>4, <1>5, <2>1 DEF Unlinked, MInv, OInv, IInv, RowsEarned, Earned, Linked
  <2>3. t = s
      BY <1>3, <2>2 DEF OneEach
  <2>4. QED
      BY <1>4, <1>5, <2>1, <2>3 DEF Unlinked, Holders
<1>11. QED
    BY <1>1, <1>2, <1>3, <1>4, <1>5, <1>6, <1>7, <1>8, <1>9, <1>10

\* The delivery in slot r goes on as d and what it is judged by stays.
LEMMA MirrorsMoves ==
    ASSUME MInv, OInv', NEW r \in Request, NEW d, req' = [req EXCEPT ![r] = d], Mirrors(d),
           UNCHANGED <<external, users, subscriptions, webhook_events>>
    PROVE  MInv'
<1>1. UNCHANGED <<stripe, sent, users, subscriptions, webhook_events>>
    BY DEF external
<1>2. (StripeTold /\ History /\ RowsPlain /\ InTurn /\ Mirrored)'
  <2>1. StripeTold' /\ History'
      BY <1>1 DEF MInv, StripeTold, History, Sent, LastOf
  <2>2. RowsPlain' /\ InTurn'
      BY <1>1 DEF MInv, RowsPlain, InTurn, Processed
  <2>3. Mirrored'
      BY <1>1 DEF MInv, Mirrored, Reflects, Tells, TellsNothing, Unlinked, Processed, LastOf
  <2>4. QED
      BY <2>1, <2>2, <2>3
<1>3. AllMirror'
  <2> SUFFICES ASSUME NEW q \in Request PROVE Mirrors(req[q])'
      BY DEF AllMirror
  <2>1. PICK c : c = req'[q] /\ Mirrors(c)
      BY DEF MInv, AllMirror, OInv, IInv, TypeOK
  <2>2. Mirrors(c)'
    <3>1. PICK e, s : e = c.event /\ s = sent[e].sub
        OBVIOUS
    <3>2. Reflects(s, e) <=> Reflects(s, e)'
        BY <1>1 DEF Reflects, Tells, TellsNothing, Unlinked, LastOf
    <3>3. Processed(e - 1) <=> Processed(e - 1)'
        BY <1>1 DEF Processed
    <3>4. sent'[e].sub = s
        BY <1>1, <3>1
    <3>5. QED
        BY <1>1, <2>1, <3>1, <3>2, <3>3, <3>4 DEF Mirrors, Unlinked, Reflects
  <2>3. QED
      BY <2>1, <2>2
<1>4. QED
    BY <1>2, <1>3 DEF MInv

LEMMA ReceiveMirrors ==
    ASSUME MInv, OInv', NEW r \in Request, NEW e \in EventId, Receive(r, e), InOrder(r, e)
    PROVE  MInv'
<1>1. PICK at \in {"insert", "dispatch"} :
          at = IF webhook_events[e] = None THEN "insert" ELSE "dispatch"
    OBVIOUS
<1>2. PICK d : d = Running(at, e, webhook_events[e], None, None)
    OBVIOUS
<1>3. d.at = at /\ d.event = e
    BY <1>2 DEF Running
<1>4. Processed(e - 1) /\ webhook_events[e] # "PROCESSED"
    BY DEF InOrder, Processed, Receive
<1>5. Mirrors(d)
    BY <1>1, <1>3, <1>4 DEF Mirrors
<1>6. req' = [req EXCEPT ![r] = d] /\ UNCHANGED <<external, users, subscriptions, webhook_events>>
    BY <1>1, <1>2 DEF Receive, database
<1>7. QED
    BY <1>5, <1>6, MirrorsMoves

\* A delivery that is refused or fails.
LEMMA StopsMirror ==
    ASSUME MInv, OInv', NEW r \in Request, req[r].at # "idle",
           Finish(r) \/ Continue(r, "failed"),
           UNCHANGED <<external, users, subscriptions, webhook_events>>
    PROVE  MInv'
<1>1. CASE Finish(r)
  <2>1. PICK d : d = Idle
      OBVIOUS
  <2>2. req' = [req EXCEPT ![r] = d] /\ Mirrors(d)
      BY <1>1, <2>1 DEF Finish, Mirrors, Idle, Running
  <2>3. QED
      BY <2>2, MirrorsMoves
<1>2. CASE Continue(r, "failed")
  <2>1. PICK d : d = Running("failed", req[r].event, req[r].seen, None, None)
      OBVIOUS
  <2>2. d.at = "failed" /\ d.event = req[r].event
      BY <2>1 DEF Running
  <2>3. Mirrors(d)
      BY <2>2 DEF Mirrors, MInv, AllMirror
  <2>4. req' = [req EXCEPT ![r] = d]
      BY <1>2, <2>1 DEF Continue, Goto, MInv, OInv, IInv, TypeOK
  <2>5. QED
      BY <2>3, <2>4, MirrorsMoves
<1>3. QED
    BY <1>1, <1>2

\* A delivery that goes on to `at` and has written no row.
LEMMA GoesOnMirrors ==
    ASSUME MInv, OInv', NEW r \in Request, req[r].at # "idle",
           NEW at, NEW u, NEW row, Goto(r, at, u, row),
           UNCHANGED <<external, users, subscriptions, webhook_events>>,
           at \in {"get_for_user", "update"} => Object(r).type = "changed",
           Owner[Object(r).sub] \in users =>
              /\ at = "get_for_user" => Unlinked(subscriptions[Owner[Object(r).sub]])
              /\ at \in {"upsert", "update"} => row = subscriptions[Owner[Object(r).sub]]
              /\ at = "update" => row # None /\ row.provider_subscription_id = Object(r).sub
              /\ (at = "upsert" /\ Object(r).type # "checkout") =>
                    Object(r).type = "changed" /\ Unlinked(subscriptions[Owner[Object(r).sub]])
              /\ at = "processed" => Reflects(Object(r).sub, req[r].event)
    PROVE  MInv'
<1>1. PICK d : d = Running(at, req[r].event, req[r].seen, u, row)
    OBVIOUS
<1>2. d.at = at /\ d.event = req[r].event /\ d.read = row
    BY <1>1 DEF Running
<1>3. Processed(req[r].event - 1) /\ webhook_events[req[r].event] # "PROCESSED"
    BY DEF MInv, AllMirror, Mirrors
<1>4. Mirrors(d)
    BY <1>2, <1>3 DEF Mirrors, Object
<1>5. req' = [req EXCEPT ![r] = d]
    BY <1>1 DEF Goto, MInv, OInv, IInv, TypeOK
<1>6. QED
    BY <1>4, <1>5, MirrorsMoves

LEMMA ReadsMirror ==
    ASSUME MInv, OneEach, OInv', NEW r \in Request,
           ChangedRead(r) \/ UpsertRead(r) \/ InvoiceRead(r) \/ InvoiceSubscription(r)
    PROVE  MInv'
<1>1. req[r].at # "idle" /\ UNCHANGED <<external, users, subscriptions, webhook_events>>
    BY DEF ChangedRead, UpsertRead, InvoiceRead, InvoiceSubscription, database
<1>2. PICK e, s, row : /\ e = req[r].event /\ s = Object(r).sub /\ s = sent[e].sub
                       /\ row = subscriptions[Owner[s]]
    BY DEF Object
<1>3. /\ e \in Sent /\ e \in Nat \ {0} /\ sent[e] \in Event /\ s \in Sub
      /\ Owner[s] \in users => Reflects(s, e - 1) \/ Reflects(s, e)
      /\ Holders(s) \subseteq {Owner[s]}
      /\ Unlinked(row) \/ (Owner[s] \in Holders(s) /\ row.provider_subscription_id = s)
    BY <1>1, <1>2, AtTurn
<1>4. CASE ChangedRead(r)
  <2>1. sent[e].type = "changed" /\ Object(r).type = "changed" /\ Object(r).status = sent[e].status
      BY <1>2, <1>4 DEF ChangedRead, Object
  <2>2. ASSUME NEW u \in Holders(s), Goto(r, "update", u, subscriptions[u]) PROVE MInv'
    <3>1. u = Owner[s] /\ Goto(r, "update", u, row)
        BY <1>2, <1>3, <2>2
    <3>2. row # None /\ row.provider_subscription_id = s
        BY <1>2, <2>2, <3>1 DEF Holders
    <3>3. QED
        BY <1>1, <1>2, <2>1, <3>1, <3>2, GoesOnMirrors
  <2>3. CASE Continue(r, "failed")
      BY <1>1, <2>3, StopsMirror
  <2>4. ASSUME Holders(s) = {}, Continue(r, "get_for_user") PROVE MInv'
    <3>1. Unlinked(row)
        BY <1>3, <2>4
    <3>2. QED
        BY <1>1, <1>2, <2>1, <2>4, <3>1, GoesOnMirrors DEF Continue
  <2>5. ASSUME Holders(s) = {}, Continue(r, "processed"),
               StatusOr(Object(r).status, "ACTIVE") \notin ACTIVE_SUBSCRIPTION_STATUSES
        PROVE  MInv'
    <3>1. Unlinked(row)
        BY <1>3, <2>5
    <3>2. sent[e].status \notin {"trialing", "active"}
      <4>1. STRIPE_STATUS["trialing"] = "TRIALING" /\ STRIPE_STATUS["active"] = "ACTIVE"
          BY DEF STRIPE_STATUS
      <4>2. QED
          BY <2>1, <2>5, <4>1, StatusKnown DEF StatusOr, ACTIVE_SUBSCRIPTION_STATUSES
    <3>3. Owner[s] \in users => TellsNothing(row, s, e)
      <4>1. s # None
          BY <1>3
      <4>2. ~Tells(row, s, e) /\ ~Tells(row, s, e - 1)
          BY <3>1, <4>1 DEF Tells, Unlinked
      <4>3. Owner[s] \in users => TellsNothing(row, s, e - 1)
          BY <1>2, <1>3, <4>2, NothingBefore DEF Reflects
      <4>4. QED
          BY <1>3, <2>1, <3>2, <4>3, NothingBefore
    <3>4. Owner[s] \in users => Reflects(s, e)
        BY <1>2, <3>3 DEF Reflects
    <3>5. QED
        BY <1>1, <1>2, <2>5, <3>4, GoesOnMirrors DEF Continue
  <2>6. QED
      BY <1>2, <1>4, <2>2, <2>3, <2>4, <2>5 DEF ChangedRead
<1>5. CASE UpsertRead(r)
  <2>1. Goto(r, "upsert", Owner[s], row)
      BY <1>2, <1>5 DEF UpsertRead
  <2>2. Mirrors(req[r])
      BY DEF MInv, AllMirror
  <2>3. (Owner[s] \in users /\ Object(r).type # "checkout") =>
            Object(r).type = "changed" /\ Unlinked(row)
      BY <1>2, <1>5, <2>2 DEF UpsertRead, Mirrors, Object
  <2>4. QED
      BY <1>1, <1>2, <2>1, <2>3, GoesOnMirrors
<1>6. CASE InvoiceRead(r)
  <2>1. CASE Continue(r, "failed") \/ Continue(r, "get_subscription")
      BY <1>1, <2>1, StopsMirror, GoesOnMirrors DEF Continue
  <2>2. CASE Continue(r, "processed")
    <3>1. sent[e].type = "invoice"
        BY <1>2, <1>6 DEF InvoiceRead, Object
    <3>2. Owner[s] \in users => Reflects(s, e)
        BY <1>2, <1>3, <3>1, InvoiceRepeats DEF Reflects, MInv, OInv, IInv
    <3>3. QED
        BY <1>1, <1>2, <2>2, <3>2, GoesOnMirrors DEF Continue
  <2>3. QED
      BY <1>6, <2>1, <2>2 DEF InvoiceRead
<1>7. CASE InvoiceSubscription(r)
  <2>1. PICK u, read : Goto(r, "pay", u, read)
      BY <1>7 DEF InvoiceSubscription, Continue
  <2>2. QED
      BY <1>1, <2>1, GoesOnMirrors
<1>8. QED
    BY <1>4, <1>5, <1>6, <1>7

LEMMA PayMirrors ==
    ASSUME MInv, OneEach, OInv', NEW r \in Request, Pay(r)
    PROVE  MInv'
<1>1. /\ req[r].at = "pay" /\ UNCHANGED <<external, users, subscriptions, webhook_events>>
      /\ Object(r).type = "invoice"
    BY RequestInOrder DEF Pay, MInv
<1>2. PICK e, s : e = req[r].event /\ s = Object(r).sub /\ s = sent[e].sub
    BY DEF Object
<1>3. /\ e \in Sent /\ sent[e].type = "invoice"
      /\ Owner[s] \in users => Reflects(s, e - 1) \/ Reflects(s, e)
    BY <1>1, <1>2, AtTurn DEF Object
<1>4. Owner[s] \in users => Reflects(s, e)
    BY <1>2, <1>3, InvoiceRepeats DEF Reflects, MInv, OInv, IInv
<1>5. CASE Continue(r, "processed")
    BY <1>1, <1>2, <1>4, <1>5, GoesOnMirrors DEF Continue
<1>6. CASE Finish(r)
    BY <1>1, <1>6, StopsMirror
<1>7. QED
    BY <1>5, <1>6 DEF Pay

\* The mark of the delivered event changes.
LEMMA MarksMirror ==
    ASSUME MInv, OneEach, OInv', NEW r \in Request, req[r].at # "idle", NEW d,
           NEW mark \in {"RECEIVED", "FAILED", "PROCESSED"},
           webhook_events' = [webhook_events EXCEPT ![req[r].event] = mark],
           UNCHANGED <<external, users, subscriptions>>,
           req' = [req EXCEPT ![r] = d],
           \/ d.at = "idle"
           \/ d.at = "dispatch" /\ d.event = req[r].event /\ mark # "PROCESSED",
           mark = "PROCESSED" =>
               (Owner[Object(r).sub] \in users => Reflects(Object(r).sub, req[r].event))
    PROVE  MInv'
<1>1. PICK e, s : e = req[r].event /\ s = Object(r).sub /\ s = sent[e].sub
    BY DEF Object
<1>2. /\ e \in Sent /\ e \in EventId /\ e \in Nat \ {0} /\ sent[e] \in Event /\ s \in Sub
      /\ Processed(e - 1) /\ webhook_events[e] # "PROCESSED"
    BY <1>1, AtTurn
<1>3. UNCHANGED <<stripe, sent, users, subscriptions>>
    BY DEF external
<1>4. /\ webhook_events'[e] = mark
      /\ \A f \in EventId : f # e => webhook_events'[f] = webhook_events[f]
    BY <1>1, <1>2 DEF MInv, OInv, IInv, TypeOK
<1>5. StripeTold' /\ History' /\ RowsPlain'
    BY <1>3 DEF MInv, StripeTold, History, RowsPlain, Sent, LastOf
<1>6. Len(sent) \in Nat /\ \A n \in 0..Len(sent) : \A f \in 1..n : f \in EventId
    BY EventsAre DEF MInv, OInv, IInv, Sent, EventId
<1>7. ASSUME NEW n \in 0..Len(sent)
      PROVE  /\ n < e => (Processed(n) <=> Processed(n)')
             /\ Processed(n)' => Processed(n) \/ mark = "PROCESSED"
             /\ n >= e => ~Processed(n)
    BY <1>2, <1>4, <1>6 DEF Processed
<1>8. InTurn'
  <2> SUFFICES ASSUME NEW f \in EventId, webhook_events'[f] # None PROVE Processed(f - 1)'
      BY DEF InTurn
  <2>1. CASE f = e
    <3>1. \A c \in 1 .. e - 1 : c \in EventId /\ c # e
        BY <1>2 DEF EventId
    <3>2. QED
        BY <1>2, <1>4, <2>1, <3>1 DEF Processed
  <2>2. CASE f # e
    <3>1. Processed(f - 1)
        BY <1>4, <2>2 DEF MInv, InTurn
    <3>2. \A c \in 1 .. f - 1 : c \in EventId
        BY DEF EventId
    <3>3. \A c \in 1 .. f - 1 : c # e
        BY <1>2, <3>1 DEF Processed
    <3>4. QED
        BY <1>4, <3>1, <3>2, <3>3 DEF Processed
  <2>3. QED
      BY <2>1, <2>2
<1>9. \A t, n : Reflects(t, n) => Reflects(t, n)'
    BY <1>3 DEF Reflects, Tells, TellsNothing, Unlinked, LastOf
<1>10. Mirrored'
  <2> SUFFICES ASSUME NEW t \in Sub, NEW n \in 0..Len(sent), Owner[t] \in users, Processed(n)',
                      n < Len(sent) => webhook_events'[n + 1] # "PROCESSED"
               PROVE  Reflects(t, n) \/ (n < Len(sent) /\ Reflects(t, n + 1))
      BY <1>3, <1>9 DEF Mirrored
  <2>1. ASSUME Processed(n) PROVE Reflects(t, n) \/ (n < Len(sent) /\ Reflects(t, n + 1))
    <3>1. n < e
        BY <1>2, <1>7, <2>1
    <3>2. n + 1 = e \/ n + 1 < e
        BY <1>2, <3>1
    <3>3. n < Len(sent) /\ n + 1 \in EventId
        BY <1>2, <1>6, <3>1 DEF Sent, EventId
    <3>4. webhook_events[n + 1] # "PROCESSED"
        BY <1>2, <1>4, <3>2, <3>3
    <3>5. QED
        BY <2>1, <3>4 DEF MInv, Mirrored
  <2>2. ASSUME ~Processed(n) PROVE Reflects(t, n)
    <3>1. mark = "PROCESSED" /\ n >= e
        BY <1>2, <1>7, <2>2
    <3>2. n = e
      <4>1. SUFFICES ASSUME n > e PROVE FALSE
          BY <1>2, <3>1
      <4>2. e + 1 \in 1..n /\ e + 1 \in EventId
          BY <1>2, <1>6, <4>1
      <4>3. webhook_events[e + 1] = "PROCESSED"
          BY <1>2, <1>4, <4>2 DEF Processed
      <4>4. Processed((e + 1) - 1) /\ e \in 1 .. (e + 1) - 1
          BY <1>2, <4>2, <4>3 DEF MInv, InTurn
      <4>5. QED
          BY <1>2, <4>4 DEF Processed
    <3>3. CASE t = s
        BY <1>1, <3>1, <3>2, <3>3
    <3>4. CASE t # s
      <4>1. e - 1 \in 0..Len(sent) /\ e - 1 < Len(sent) /\ (e - 1) + 1 = e /\ e - 1 \in Nat
          BY <1>2, <1>6 DEF Sent
      <4>2. Reflects(t, e - 1) \/ Reflects(t, e)
          BY <1>2, <4>1 DEF MInv, Mirrored
      <4>3. Reflects(t, e - 1) <=> Reflects(t, e)
          BY <1>1, <3>4, <4>1, OtherEvent DEF Reflects
      <4>4. QED
          BY <3>2, <4>2, <4>3
    <3>5. QED
        BY <3>3, <3>4
  <2>3. QED
      BY <2>1, <2>2
<1>11. AllMirror'
  <2> SUFFICES ASSUME NEW q \in Request PROVE Mirrors(req[q])'
      BY DEF AllMirror
  <2>1. CASE q # r
    <3>1. req'[q].at = "idle"
        BY <2>1 DEF MInv, OInv, OneAtATime, IInv, TypeOK
    <3>2. QED
        BY <3>1 DEF Mirrors
  <2>2. CASE q = r
    <3>1. req'[q] = d
        BY <2>2 DEF MInv, OInv, IInv, TypeOK
    <3>2. Processed(e - 1)'
      <4>1. e - 1 \in 0..Len(sent) /\ e - 1 < e
          BY <1>2, <1>6 DEF Sent
      <4>2. QED
          BY <1>2, <1>7, <4>1
    <3>3. mark # "PROCESSED" => webhook_events'[e] # "PROCESSED"
        BY <1>4
    <3>4. QED
        BY <1>1, <3>1, <3>2, <3>3 DEF Mirrors
  <2>3. QED
      BY <2>1, <2>2
<1>12. QED
    BY <1>5, <1>8, <1>10, <1>11 DEF MInv

LEMMA InsertMirrors ==
    ASSUME MInv, OneEach, OInv', NEW r \in Request, Insert(r)
    PROVE  MInv'
<1>1. req[r].at = "insert" /\ UNCHANGED <<external, users, subscriptions>>
    BY DEF Insert
<1>2. CASE webhook_events[req[r].event] = None
  <2>1. PICK d : d = Running("dispatch", req[r].event, "RECEIVED", None, None)
      OBVIOUS
  <2>2. d.at = "dispatch" /\ d.event = req[r].event
      BY <2>1 DEF Running
  <2>3. /\ req' = [req EXCEPT ![r] = d]
        /\ webhook_events' = [webhook_events EXCEPT ![req[r].event] = "RECEIVED"]
      BY <1>2, <2>1 DEF Insert, MInv, OInv, IInv, TypeOK
  <2>4. QED
      BY <1>1, <2>2, <2>3, MarksMirror
<1>3. CASE webhook_events[req[r].event] # None
    BY <1>1, <1>3, StopsMirror DEF Insert
<1>4. QED
    BY <1>2, <1>3

LEMMA MarkMirrors ==
    ASSUME MInv, OneEach, OInv', NEW r \in Request, Mark(r)
    PROVE  MInv'
<1>1. /\ req[r].at \in {"processed", "failed"} /\ UNCHANGED <<external, users, subscriptions>>
      /\ req[r].event \in EventId /\ webhook_events[req[r].event] # None
      /\ webhook_events[req[r].event] # "PROCESSED"
    BY RequestTyped, AtTurn DEF Mark, MInv, OInv, DeliverySound
<1>2. PICK mark : mark = IF req[r].at = "processed" THEN "PROCESSED"
                         ELSE IF req[r].seen = "FAILED" THEN webhook_events[req[r].event] ELSE "FAILED"
    OBVIOUS
<1>3. /\ mark \in {"RECEIVED", "FAILED", "PROCESSED"}
      /\ mark = "PROCESSED" => req[r].at = "processed"
    BY <1>1, <1>2 DEF MInv, OInv, IInv, TypeOK
<1>4. webhook_events' = [webhook_events EXCEPT ![req[r].event] = mark]
    BY <1>2 DEF Mark
<1>5. PICK d : d = Idle
    OBVIOUS
<1>6. req' = [req EXCEPT ![r] = d] /\ d.at = "idle"
    BY <1>5 DEF Mark, Finish, Idle, Running
<1>7. mark = "PROCESSED" =>
          (Owner[Object(r).sub] \in users => Reflects(Object(r).sub, req[r].event))
    BY <1>3 DEF MInv, AllMirror, Mirrors, Object
<1>8. QED
    BY <1>1, <1>3, <1>4, <1>6, <1>7, MarksMirror

\* A delivery that has written the row with what its event says.
LEMMA WroteMirrors ==
    ASSUME MInv, OneEach, OInv', NEW r \in Request, req[r].at # "idle",
           Owner[Object(r).sub] \in users, NEW row, row # None,
           subscriptions' = [subscriptions EXCEPT ![Owner[Object(r).sub]] = row],
           Tells(row, Object(r).sub, req[r].event),
           Continue(r, "processed"),
           UNCHANGED <<external, users, webhook_events>>
    PROVE  MInv'
<1>1. PICK e, s : e = req[r].event /\ s = Object(r).sub /\ s = sent[e].sub
    BY DEF Object
<1>2. /\ e \in Sent /\ e \in EventId /\ e \in Nat \ {0} /\ sent[e] \in Event /\ s \in Sub
      /\ Processed(e - 1) /\ webhook_events[e] # "PROCESSED" /\ Owner[s] \in User
    BY <1>1, AtTurn
<1>3. UNCHANGED <<stripe, sent, users, webhook_events>>
    BY DEF external
<1>4. \A u \in User : subscriptions'[u] = IF u = Owner[s] THEN row ELSE subscriptions[u]
    BY <1>1 DEF MInv, OInv, IInv, TypeOK
<1>5. row.provider_subscription_id = s /\ s # None
    BY <1>1, <1>2 DEF Tells
<1>6. StripeTold' /\ History' /\ InTurn'
    BY <1>3 DEF MInv, StripeTold, History, InTurn, Processed, Sent, LastOf
<1>7. RowsPlain'
    BY <1>1, <1>3, <1>4, <1>5 DEF MInv, RowsPlain
<1>8. Reflects(s, e)'
  <2>1. Tells(row, s, e)'
      BY <1>1, <1>3 DEF Tells, LastOf
  <2>2. QED
      BY <1>2, <1>4, <2>1 DEF Reflects
<1>9. \A n : Processed(n) <=> Processed(n)'
    BY <1>3 DEF Processed
<1>10. Mirrored'
  <2> SUFFICES ASSUME NEW t \in Sub, NEW n \in 0..Len(sent), Owner[t] \in users, Processed(n),
                      n < Len(sent) => webhook_events[n + 1] # "PROCESSED"
               PROVE  Reflects(t, n)' \/ (n < Len(sent) /\ Reflects(t, n + 1)')
      BY <1>3, <1>9 DEF Mirrored
  <2>1. CASE t = s
    <3>1. Len(sent) \in Nat /\ e <= Len(sent)
        BY <1>2, EventsAre DEF Sent, MInv, OInv, IInv
    <3>2. n < e
        BY <1>2 DEF Processed
    <3>3. ~(n + 1 < e)
        BY <1>2, <3>1, <3>2 DEF Processed
    <3>4. n + 1 = e /\ n < Len(sent)
        BY <1>2, <3>1, <3>2, <3>3
    <3>5. QED
        BY <1>8, <2>1, <3>4
  <2>2. CASE t # s
    <3>1. Owner[t] \in User /\ Owner[t] # Owner[s]
        BY <1>2, <2>2 DEF OneEach
    <3>2. subscriptions'[Owner[t]] = subscriptions[Owner[t]]
        BY <1>4, <3>1
    <3>3. \A m : Reflects(t, m) => Reflects(t, m)'
        BY <1>3, <3>2 DEF Reflects, Tells, TellsNothing, Unlinked, LastOf
    <3>4. QED
        BY <3>3 DEF MInv, Mirrored
  <2>3. QED
      BY <2>1, <2>2
<1>11. AllMirror'
  <2> SUFFICES ASSUME NEW q \in Request PROVE Mirrors(req[q])'
      BY DEF AllMirror
  <2>1. PICK d : d = Running("processed", e, req[r].seen, None, None)
      OBVIOUS
  <2>2. d.at = "processed" /\ d.event = e
      BY <2>1 DEF Running
  <2>3. CASE q = r
    <3>1. req'[q] = d
        BY <1>1, <2>1, <2>3 DEF Continue, Goto, MInv, OInv, IInv, TypeOK
    <3>2. QED
        BY <1>1, <1>2, <1>3, <1>8, <1>9, <2>2, <3>1 DEF Mirrors
  <2>4. CASE q # r
    <3>1. req'[q].at = "idle"
        BY <2>4 DEF Continue, Goto, MInv, OInv, OneAtATime, IInv, TypeOK
    <3>2. QED
        BY <3>1 DEF Mirrors
  <2>5. QED
      BY <2>3, <2>4
<1>12. QED
    BY <1>6, <1>7, <1>10, <1>11 DEF MInv

LEMMA ReadIsRow ==
    ASSUME NEW now \in Subscription, NEW new \in Subscription
    PROVE  Updated(now, now, new) = new
    BY DEF Updated, Column, Subscription

\* Before a checkout has been written the row renews; a subscription event that
\* is to link the row comes after no checkout.
LEMMA UpsertTells ==
    ASSUME MInv, OneEach, NEW r \in Request, req[r].at = "upsert",
           Owner[Object(r).sub] \in users,
           NEW row, row # None,
           row.provider_subscription_id = Object(r).sub,
           row.status = IF Object(r).type = "checkout" THEN "ACTIVE"
                        ELSE StatusOr(Object(r).status, "ACTIVE"),
           row.cancel_at_period_end =
               IF subscriptions[Owner[Object(r).sub]] = None THEN FALSE
               ELSE subscriptions[Owner[Object(r).sub]].cancel_at_period_end
    PROVE  Tells(row, Object(r).sub, req[r].event)
<1>1. PICK e, s, now : e = req[r].event /\ s = Object(r).sub /\ s = sent[e].sub
                       /\ now = subscriptions[Owner[s]]
    BY DEF Object
<1>2. /\ e \in Sent /\ e \in Nat \ {0} /\ s \in Sub /\ Owner[s] \in User
      /\ Reflects(s, e - 1) \/ Reflects(s, e)
    BY <1>1, AtTurn
<1>3. CASE sent[e].type = "checkout"
  <2>1. /\ sent[e].status = "active" /\ sent[e].will_cancel = FALSE
        /\ \A d \in 1 .. e - 1 : sent[d].sub # s
    <3>1. sent[e] \in Event
        BY <1>2, EventsAre DEF MInv, OInv, IInv
    <3>2. QED
        BY <1>1, <1>2, <1>3, <3>1 DEF MInv, History, Event
  <2>2. StatusOr("active", "ACTIVE") = "ACTIVE"
      BY DEF StatusOr, STRIPE_STATUS
  <2>3. row.cancel_at_period_end = FALSE
    <3>1. CASE now = None
        BY <1>1, <3>1
    <3>2. CASE now # None /\ Unlinked(now)
      <4>1. ~now.cancel_at_period_end /\ now \in Subscription
          BY <1>1, <1>2, <3>2 DEF Unlinked, MInv, RowsPlain, OInv, IInv, TypeOK
      <4>2. now.cancel_at_period_end = FALSE
          BY <4>1 DEF Subscription
      <4>3. QED
          BY <1>1, <3>2, <4>2
    <3>3. CASE ~Unlinked(now)
      <4>1. Tells(now, s, e - 1) \/ Tells(now, s, e)
          BY <1>1, <1>2, <3>3 DEF Reflects, TellsNothing
      <4>2. ~Tells(now, s, e - 1)
          BY <2>1 DEF Tells, LastOf
      <4>3. PICK d \in 1..e :
                /\ LastOf(s, e, d)
                /\ (\E c \in 1..e : sent[c].type = "checkout" /\ sent[c].sub = s) =>
                      now.cancel_at_period_end = sent[d].will_cancel
          BY <4>1, <4>2 DEF Tells
      <4>4. LastOf(s, e, e)
          BY <1>1, <1>2, LastNow
      <4>5. d = e
          BY <1>2, <4>3, <4>4, LastIsOne
      <4>6. e \in 1..e
          BY <1>2
      <4>7. now.cancel_at_period_end = FALSE
          BY <1>1, <1>3, <2>1, <4>3, <4>5, <4>6
      <4>8. now # None
          BY <3>3 DEF Unlinked
      <4>9. QED
          BY <1>1, <4>7, <4>8
    <3>4. QED
        BY <3>1, <3>2, <3>3
  <2>4. row.status = StatusOr(sent[e].status, "ACTIVE")
      BY <1>1, <1>3, <2>1, <2>2 DEF Object
  <2>5. QED
      BY <1>1, <1>2, <2>1, <2>3, <2>4, WrittenTells
<1>4. CASE sent[e].type # "checkout"
  <2>1. Unlinked(now) /\ sent[e].type = "changed"
      BY <1>1, <1>4 DEF MInv, AllMirror, Mirrors, Object
  <2>2. s # None
      BY <1>2
  <2>3. TellsNothing(now, s, e - 1)
    <3>1. ~Tells(now, s, e) /\ ~Tells(now, s, e - 1)
        BY <2>1, <2>2 DEF Tells, Unlinked
    <3>2. QED
        BY <1>1, <1>2, <3>1, NothingBefore DEF Reflects
  <2>4. \A c \in 1..e : sent[c].sub = s => sent[c].type # "checkout"
    <3>1. 1..e = (1 .. e - 1) \cup {e}
        BY <1>2
    <3>2. QED
        BY <1>4, <2>3, <3>1 DEF TellsNothing
  <2>5. row.status = StatusOr(sent[e].status, "ACTIVE")
      BY <1>1, <1>4 DEF Object
  <2>6. QED
      BY <1>1, <1>2, <2>4, <2>5, WrittenTells
<1>5. QED
    BY <1>3, <1>4

LEMMA WritesMirror ==
    ASSUME MInv, OneEach, OInv', NEW r \in Request, Upsert(r) \/ UpdateSubscription(r)
    PROVE  MInv'
<1>1. /\ req[r].at \in {"upsert", "update"} /\ req[r].at # "idle"
      /\ UNCHANGED <<external, users, webhook_events>>
    BY DEF Upsert, UpdateSubscription
<1>2. PICK s, u, now, read : /\ s = Object(r).sub /\ s = sent[req[r].event].sub
                             /\ u = Owner[s] /\ now = subscriptions[u] /\ read = req[r].read
    BY DEF Object
<1>3. /\ s \in Sub /\ u \in User /\ now \in Subscription \cup {None}
      /\ now # None => u \in users
      /\ Object(r) \in Event /\ req[r].event \in Nat \ {0}
      /\ sent[req[r].event].sub = s
    BY <1>1, <1>2, AtTurn DEF Object
<1>4. u = req[r].user
    BY <1>1, <1>2, RequestTyped DEF MInv, OInv, DeliverySound
<1>5. Mirrors(req[r])
    BY DEF MInv, AllMirror
<1>6. u \in users => read = now
    BY <1>1, <1>2, <1>5 DEF Mirrors
<1>7. CASE (Finish(r) \/ Continue(r, "failed")) /\ UNCHANGED subscriptions
    BY <1>1, <1>7, StopsMirror
<1>8. CASE Upsert(r)
  <2>1. req[r].at = "upsert"
      BY <1>8 DEF Upsert
  <2>2. PICK status \in SubscriptionStatus :
            status = IF Object(r).type = "checkout" THEN "ACTIVE" ELSE StatusOr(Object(r).status, "ACTIVE")
      BY StatusKnown DEF SubscriptionStatus
  <2>3. CASE read # None
    <3>1. PICK new : new = [read EXCEPT !.provider_subscription_id = s, !.status = status]
        OBVIOUS
    <3>2. UpdateRow(r, new)
        BY <1>2, <1>8, <2>2, <2>3, <3>1 DEF Upsert
    <3>3. CASE now = None
        BY <1>2, <1>4, <1>7, <3>2, <3>3 DEF UpdateRow
    <3>4. CASE now # None
      <4>1. now \in Subscription /\ u \in users /\ read = now
          BY <1>3, <1>6, <3>4
      <4>2. /\ new \in Subscription /\ new.provider_subscription_id = s /\ new.status = status
            /\ new.cancel_at_period_end = now.cancel_at_period_end
          BY <1>3, <2>2, <3>1, <4>1 DEF Subscription
      <4>3. new # None
          BY <4>2
      <4>4. Updated(now, read, new) = new
          BY <4>1, <4>2, ReadIsRow
      <4>5. subscriptions' = [subscriptions EXCEPT ![u] = new] /\ Continue(r, "processed")
          BY <1>2, <1>4, <3>2, <3>4, <4>4 DEF UpdateRow
      <4>6. Tells(new, s, req[r].event)
          BY <1>2, <2>1, <2>2, <3>4, <4>1, <4>2, <4>3, UpsertTells
      <4>7. QED
          BY <1>1, <1>2, <4>1, <4>3, <4>5, <4>6, WroteMirrors
    <3>5. QED
        BY <3>3, <3>4
  <2>4. CASE read = None
    <3>1. PICK new : new = [provider_subscription_id |-> s, status |-> status,
                            cancel_at_period_end |-> FALSE, trial_end_at |-> FALSE]
        OBVIOUS
    <3>2. CreateRow(r, u, new)
        BY <1>2, <1>4, <1>8, <2>2, <2>4, <3>1 DEF Upsert
    <3>3. CASE ~(now = None /\ u \in users)
        BY <1>2, <1>7, <3>2, <3>3 DEF CreateRow
    <3>4. CASE now = None /\ u \in users
      <4>1. /\ new \in Subscription /\ new.provider_subscription_id = s /\ new.status = status
            /\ new.cancel_at_period_end = FALSE
          BY <1>3, <2>2, <3>1 DEF Subscription
      <4>2. new # None
          BY <4>1
      <4>3. subscriptions' = [subscriptions EXCEPT ![u] = new] /\ Continue(r, "processed")
          BY <1>2, <3>2, <3>4 DEF CreateRow
      <4>4. Tells(new, s, req[r].event)
          BY <1>2, <2>1, <2>2, <3>4, <4>1, <4>2, UpsertTells
      <4>5. QED
          BY <1>1, <1>2, <3>4, <4>2, <4>3, <4>4, WroteMirrors
    <3>5. QED
        BY <3>3, <3>4
  <2>5. QED
      BY <2>3, <2>4
<1>9. CASE UpdateSubscription(r)
  <2>1. req[r].at = "update" /\ Object(r).status \in DOMAIN STRIPE_STATUS
      BY <1>9, RequestTyped DEF UpdateSubscription, DeliverySound, Object, MInv, OInv
  <2>2. PICK new : new = [read EXCEPT !.status = STRIPE_STATUS[Object(r).status],
                                      !.cancel_at_period_end = Object(r).will_cancel]
      OBVIOUS
  <2>3. UpdateRow(r, new)
      BY <1>2, <1>9, <2>2 DEF UpdateSubscription
  <2>4. CASE now = None
      BY <1>2, <1>4, <1>7, <2>3, <2>4 DEF UpdateRow
  <2>5. CASE now # None
    <3>1. now \in Subscription /\ u \in users /\ read = now
        BY <1>3, <1>6, <2>5
    <3>2. now.provider_subscription_id = s
        BY <1>2, <1>5, <2>1, <3>1 DEF Mirrors
    <3>3. /\ STRIPE_STATUS[Object(r).status] \in SubscriptionStatus /\ Object(r).will_cancel \in BOOLEAN
        BY <1>3, <2>1, StatusKnown DEF Event
    <3>4. /\ new \in Subscription /\ new.provider_subscription_id = s
          /\ new.status = STRIPE_STATUS[Object(r).status]
          /\ new.cancel_at_period_end = Object(r).will_cancel
        BY <2>2, <3>1, <3>2, <3>3 DEF Subscription
    <3>5. new # None
        BY <3>4
    <3>6. Updated(now, read, new) = new
        BY <3>1, <3>4, ReadIsRow
    <3>7. subscriptions' = [subscriptions EXCEPT ![u] = new] /\ Continue(r, "processed")
        BY <1>2, <1>4, <2>3, <2>5, <3>6 DEF UpdateRow
    <3>8. new.status = StatusOr(Object(r).status, "ACTIVE")
        BY <2>1, <3>4 DEF StatusOr
    <3>9. Tells(new, s, req[r].event)
        BY <1>2, <1>3, <3>4, <3>5, <3>8, WrittenTells DEF Object
    <3>10. QED
        BY <1>1, <1>2, <3>1, <3>5, <3>7, <3>9, WroteMirrors
  <2>6. QED
      BY <2>4, <2>5
<1>10. QED
    BY <1>8, <1>9

-----------------------------------------------------------------------------
(* Stripe, deletion, time and crashes *)

\* Stripe sends a subscription's first event, an invoice, or a change.
LEMMA SendMirrors ==
    ASSUME MInv, OInv', Kept, NEW type \in {"checkout", "changed", "invoice"}, NEW s \in Sub,
           NEW state \in [status : Status \cup {"none"}, will_cancel : BOOLEAN],
           Send(type, s, state),
           type = "invoice" => state = stripe[s] /\ state.status = "active",
           type = "checkout" =>
               stripe[s].status = "none" /\ state.status = "active" /\ ~state.will_cancel
    PROVE  MInv'
<1>1. PICK n \in Nat : n = Len(sent)
    BY EventsAre DEF MInv, OInv, IInv
<1>2. PICK new : new = [type |-> type, sub |-> s, status |-> state.status,
                        will_cancel |-> state.will_cancel]
    OBVIOUS
<1>3. /\ sent' = Append(sent, new) /\ stripe' = [stripe EXCEPT ![s] = state]
      /\ UNCHANGED <<users, subscriptions, webhook_events, req>>
      /\ n < MaxEvents
    BY <1>1, <1>2 DEF Send, database
<1>4. /\ Len(sent') = n + 1 /\ sent'[n + 1] = new
      /\ \A d \in 1..n : sent'[d] = sent[d]
      /\ Sent = 1..n /\ Sent' = 1 .. n + 1
    BY <1>1, <1>3 DEF MInv, OInv, IInv, TypeOK, Sent
<1>5. new.type = type /\ new.sub = s /\ new.status = state.status /\ new.will_cancel = state.will_cancel
    BY <1>2
<1>6. \A d : LastOf(s, n, d) => d \in 1..n
    BY DEF LastOf
<1>7. \A t, d : t # s => (LastOf(t, n, d) => LastOf(t, n + 1, d)')
    BY <1>4, <1>5 DEF LastOf
<1>8. LastOf(s, n + 1, n + 1)'
    BY <1>4, <1>5 DEF LastOf
<1>9. \A t \in Sub : stripe'[t] = IF t = s THEN state ELSE stripe[t]
    BY <1>3 DEF MInv, OInv, IInv, TypeOK
<1>10. StripeTold'
  <2> SUFFICES ASSUME NEW t \in Sub
               PROVE  \/ stripe'[t].status = "none" /\ \A d \in 1 .. n + 1 : sent'[d].sub # t
                      \/ \E d \in 1 .. n + 1 :
                            /\ LastOf(t, n + 1, d)'
                            /\ sent'[d].status = stripe'[t].status
                            /\ sent'[d].will_cancel = stripe'[t].will_cancel
      BY <1>4 DEF StripeTold
  <2>1. CASE t = s
      BY <1>4, <1>5, <1>8, <1>9, <2>1
  <2>2. ASSUME t # s, stripe[t].status = "none", \A d \in Sent : sent[d].sub # t
        PROVE  stripe'[t].status = "none" /\ \A d \in 1 .. n + 1 : sent'[d].sub # t
      BY <1>4, <1>5, <1>9, <2>2
  <2>3. ASSUME t # s, NEW d \in Sent, LastOf(t, n, d),
               sent[d].status = stripe[t].status, sent[d].will_cancel = stripe[t].will_cancel
        PROVE  /\ d \in 1 .. n + 1 /\ LastOf(t, n + 1, d)'
               /\ sent'[d].status = stripe'[t].status
               /\ sent'[d].will_cancel = stripe'[t].will_cancel
      BY <1>4, <1>7, <1>9, <2>3
  <2>4. QED
      BY <1>1, <2>1, <2>2, <2>3 DEF MInv, StripeTold
<1>11. History'
  <2>1. ASSUME NEW t, NEW m \in 0..n, NEW d, LastOf(t, m, d)
        PROVE  LastOf(t, m, d)'
      BY <1>4, <2>1 DEF LastOf
  <2>2. ASSUME NEW e \in 1..n, sent'[e].type = "invoice", NEW t, t = sent'[e].sub
        PROVE  \E d \in Sent' :
                  /\ LastOf(t, e - 1, d)'
                  /\ sent'[d].status = sent'[e].status
                  /\ sent'[e].status = "active"
                  /\ sent'[d].will_cancel = sent'[e].will_cancel
    <3>1. sent'[e] = sent[e]
        BY <1>4
    <3>2. PICK d \in Sent :
              /\ LastOf(t, e - 1, d)
              /\ sent[d].status = sent[e].status
              /\ sent[e].status = "active"
              /\ sent[d].will_cancel = sent[e].will_cancel
        BY <1>4, <2>2, <3>1 DEF MInv, History
    <3>3. LastOf(t, e - 1, d)'
        BY <2>1, <3>2
    <3>4. QED
        BY <1>4, <3>1, <3>2, <3>3
  <2>3. ASSUME NEW e \in 1..n, sent'[e].type = "checkout"
        PROVE  /\ sent'[e].status = "active" /\ ~sent'[e].will_cancel
               /\ \A d \in 1 .. e - 1 : sent'[d].sub # sent'[e].sub
      BY <1>4, <2>3 DEF MInv, History
  <2>4. ASSUME type = "invoice"
        PROVE  \E d \in Sent' :
                  /\ LastOf(s, n, d)'
                  /\ sent'[d].status = new.status
                  /\ new.status = "active"
                  /\ sent'[d].will_cancel = new.will_cancel
    <3>1. PICK d \in Sent :
              /\ LastOf(s, n, d)
              /\ sent[d].status = stripe[s].status
              /\ sent[d].will_cancel = stripe[s].will_cancel
        BY <1>1, <2>4 DEF MInv, StripeTold
    <3>2. LastOf(s, n, d)'
        BY <1>4, <3>1 DEF LastOf
    <3>3. QED
        BY <1>4, <1>5, <2>4, <3>1, <3>2
  <2>5. ASSUME type = "checkout"
        PROVE  /\ new.status = "active" /\ ~new.will_cancel
               /\ \A d \in 1..n : sent'[d].sub # s
    <3>1. \A d \in Sent : sent[d].sub # s
      <4>1. ~\E d \in Sent : sent[d].status = "none"
          BY EventsAre DEF MInv, OInv, IInv, Event
      <4>2. QED
          BY <2>5, <4>1 DEF MInv, StripeTold
    <3>2. QED
        BY <1>4, <1>5, <2>5, <3>1
  <2>6. (n + 1) - 1 = n /\ 1 .. n + 1 = (1..n) \cup {n + 1}
      OBVIOUS
  <2>7. ASSUME NEW e \in 1 .. n + 1, sent'[e].type = "invoice", NEW t, t = sent'[e].sub
        PROVE  \E d \in Sent' :
                  /\ LastOf(t, e - 1, d)'
                  /\ sent'[d].status = sent'[e].status
                  /\ sent'[e].status = "active"
                  /\ sent'[d].will_cancel = sent'[e].will_cancel
    <3>1. CASE e \in 1..n
        BY <2>2, <2>7, <3>1
    <3>2. CASE e = n + 1
      <4>1. t = s /\ type = "invoice" /\ sent'[e] = new /\ e - 1 = n
          BY <1>4, <1>5, <2>7, <3>2
      <4>2. QED
          BY <2>4, <4>1
    <3>3. QED
        BY <2>6, <3>1, <3>2
  <2>8. ASSUME NEW e \in 1 .. n + 1, sent'[e].type = "checkout"
        PROVE  /\ sent'[e].status = "active" /\ ~sent'[e].will_cancel
               /\ \A d \in 1 .. e - 1 : sent'[d].sub # sent'[e].sub
    <3>1. CASE e \in 1..n
        BY <2>3, <2>8, <3>1
    <3>2. CASE e = n + 1
      <4>1. type = "checkout" /\ sent'[e] = new /\ e - 1 = n
          BY <1>4, <1>5, <2>8, <3>2
      <4>2. QED
          BY <1>5, <2>5, <4>1
    <3>3. QED
        BY <2>6, <3>1, <3>2
  <2>9. QED
      BY <1>4, <2>7, <2>8 DEF History, LastOf
<1>12. RowsPlain' /\ InTurn'
    BY <1>3 DEF MInv, RowsPlain, InTurn, Processed
<1>13. \A m : Processed(m) <=> Processed(m)'
    BY <1>3 DEF Processed
<1>14. \A t, m : m \in 0..n => (Reflects(t, m) <=> Reflects(t, m)')
  <2> SUFFICES ASSUME NEW t, NEW m \in 0..n PROVE Reflects(t, m) <=> Reflects(t, m)'
      OBVIOUS
  <2>1. PICK row : row = subscriptions[Owner[t]]
      OBVIOUS
  <2>2. /\ Tells(row, t, m) <=> Tells(row, t, m)'
        /\ TellsNothing(row, t, m) <=> TellsNothing(row, t, m)'
      BY <1>1, TellingStays DEF MInv, OInv, IInv
  <2>3. subscriptions'[Owner[t]] = row
      BY <1>3, <2>1
  <2>4. QED
      BY <2>1, <2>2, <2>3 DEF Reflects
<1>15. Mirrored'
  <2> SUFFICES ASSUME NEW t \in Sub, NEW m \in 0 .. n + 1, Owner[t] \in users, Processed(m),
                      m < n + 1 => webhook_events[m + 1] # "PROCESSED"
               PROVE  Reflects(t, m)' \/ (m < n + 1 /\ Reflects(t, m + 1)')
      BY <1>3, <1>4, <1>13 DEF Mirrored
  <2>1. webhook_events[n + 1] = None
    <3>1. n + 1 \in EventId /\ n + 1 \notin Sent
        BY <1>3, <1>4 DEF EventId
    <3>2. QED
        BY <3>1 DEF MInv, OInv, StoredWasSent
  <2>2. m \in 0..n
    <3>1. SUFFICES ASSUME m = n + 1 PROVE FALSE
        OBVIOUS
    <3>2. n + 1 \in 1..m
        BY <3>1
    <3>3. QED
        BY <2>1, <3>2 DEF Processed
  <2>3. Reflects(t, m) \/ (m < n /\ Reflects(t, m + 1))
      BY <1>1, <2>2 DEF MInv, Mirrored
  <2>4. m < n => m + 1 \in 0..n
      BY <2>2
  <2>5. QED
      BY <1>14, <2>2, <2>3, <2>4
<1>16. AllMirror'
  <2> SUFFICES ASSUME NEW q \in Request, req[q].at # "idle" PROVE Mirrors(req[q])'
      BY <1>3 DEF AllMirror, Mirrors
  <2>1. PICK e, t : e = req[q].event /\ t = sent[e].sub
      OBVIOUS
  <2>2. e \in Sent
      BY <2>1, RequestTyped DEF MInv, OInv
  <2>3. sent'[e] = sent[e] /\ e \in 0..n
      BY <1>4, <2>2
  <2>4. PICK d : d = req[q] /\ d = req'[q]
      BY <1>3
  <2>5. Mirrors(d)
      BY <2>4 DEF MInv, AllMirror
  <2>6. Reflects(t, e) <=> Reflects(t, e)'
      BY <1>14, <2>3
  <2>7. Processed(e - 1)'<=> Processed(e - 1)
      BY <1>13
  <2>8. sent'[e].sub = t
      BY <2>1, <2>3
  <2>9. Mirrors(d)'
      BY <1>3, <2>1, <2>3, <2>4, <2>5, <2>6, <2>7, <2>8 DEF Mirrors, Unlinked
  <2>10. QED
      BY <2>4, <2>9
<1>17. QED
    BY <1>10, <1>11, <1>12, <1>15, <1>16 DEF MInv

\* Accounts go, and deliveries stop, while the events and marks stay.
LEMMA OutsideMirrors ==
    ASSUME MInv, OInv', UNCHANGED <<external, webhook_events>>,
           users' \subseteq users,
           \A u \in User : u \in users' => subscriptions'[u] = subscriptions[u],
           \A u \in User : u \notin users' => subscriptions'[u] = None,
           req' = req \/ \A q \in Request : req'[q].at = "idle"
    PROVE  MInv'
<1>1. UNCHANGED <<stripe, sent, webhook_events>>
    BY DEF external
<1>2. StripeTold' /\ History' /\ InTurn'
    BY <1>1 DEF MInv, StripeTold, History, InTurn, Processed, Sent, LastOf
<1>3. RowsPlain'
    BY DEF MInv, RowsPlain
<1>4. ASSUME NEW s \in Sub, Owner[s] \in users', NEW n
      PROVE  subscriptions'[Owner[s]] = subscriptions[Owner[s]] /\ (Reflects(s, n) <=> Reflects(s, n)')
  <2>1. subscriptions'[Owner[s]] = subscriptions[Owner[s]]
      BY <1>4
  <2>2. QED
      BY <1>1, <2>1 DEF Reflects, Tells, TellsNothing, Unlinked, LastOf
<1>5. \A n : Processed(n) <=> Processed(n)'
    BY <1>1 DEF Processed
<1>6. Mirrored'
  <2> SUFFICES ASSUME NEW s \in Sub, NEW n \in 0..Len(sent), Owner[s] \in users', Processed(n),
                      n < Len(sent) => webhook_events[n + 1] # "PROCESSED"
               PROVE  Reflects(s, n)' \/ (n < Len(sent) /\ Reflects(s, n + 1)')
      BY <1>1, <1>5 DEF Mirrored
  <2>1. Reflects(s, n) \/ (n < Len(sent) /\ Reflects(s, n + 1))
      BY DEF MInv, Mirrored
  <2>2. QED
      BY <1>4, <2>1
<1>7. AllMirror'
  <2> SUFFICES ASSUME NEW q \in Request, req'[q].at # "idle" PROVE Mirrors(req[q])'
      BY DEF AllMirror, Mirrors
  <2>1. PICK d : d = req[q] /\ d = req'[q]
      OBVIOUS
  <2>2. PICK e, s : e = d.event /\ s = sent[e].sub
      OBVIOUS
  <2>3. d.at # "idle" /\ e \in Sent /\ s \in Sub
      BY <2>1, <2>2, RequestTyped, EventsAre DEF MInv, OInv, IInv, Event
  <2>4. Mirrors(d)
      BY <2>1 DEF MInv, AllMirror
  <2>5. Processed(e - 1)'<=> Processed(e - 1)
      BY <1>5
  <2>6. sent'[e].sub = s
      BY <1>1, <2>2
  <2>7. Owner[s] \in users' =>
            subscriptions'[Owner[s]] = subscriptions[Owner[s]] /\ (Reflects(s, e) <=> Reflects(s, e)')
      BY <1>4, <2>3
  <2>8. Mirrors(d)'
      BY <1>1, <2>2, <2>3, <2>4, <2>5, <2>6, <2>7 DEF Mirrors, Unlinked
  <2>9. QED
      BY <2>1, <2>8
<1>8. QED
    BY <1>2, <1>3, <1>6, <1>7 DEF MInv

LEMMA EveryStepMirrors ==
    ASSUME MInv, OneEach, [OrderedNext]_vars
    PROVE  MInv'
<1>1. OInv' /\ Kept
    BY EveryOrderedStep, EveryStep DEF MInv, OInv, OrderedNext
<1>2. \A u \in User : u \notin users => subscriptions[u] = None
    BY DEF MInv, RowsPlain
<1>3. CASE UNCHANGED vars
    BY <1>1, <1>2, <1>3, OutsideMirrors DEF vars, database
<1>4. ASSUME NEW s \in Sub, Subscribe(s) PROVE MInv'
  <2>1. PICK type \in {"checkout", "changed"}, status \in Status :
            /\ Send(type, s, [status |-> status, will_cancel |-> FALSE])
            /\ type = "checkout" => status = "active"
            /\ stripe[s].status = "none"
      BY <1>4 DEF Subscribe
  <2>2. PICK state : state = [status |-> status, will_cancel |-> FALSE]
      OBVIOUS
  <2>3. /\ state \in [status : Status \cup {"none"}, will_cancel : BOOLEAN]
        /\ state.status = status /\ ~state.will_cancel
      BY <2>2
  <2>4. /\ Send(type, s, state)
        /\ type \in {"checkout", "changed", "invoice"} /\ type # "invoice"
        /\ type = "checkout" => state.status = "active"
      BY <2>1, <2>2, <2>3
  <2>5. QED
      BY <1>1, <2>1, <2>3, <2>4, SendMirrors
<1>5. ASSUME NEW s \in Sub, InvoicePaid(s) PROVE MInv'
  <2>1. PICK state : state = stripe[s]
      OBVIOUS
  <2>2. /\ state \in [status : Status \cup {"none"}, will_cancel : BOOLEAN]
        /\ state.status = "active" /\ Send("invoice", s, state)
      BY <1>5, <2>1 DEF InvoicePaid, MInv, OInv, IInv, TypeOK
  <2>3. QED
      BY <1>1, <2>1, <2>2, SendMirrors
<1>6. ASSUME NEW s \in Sub, NEW status \in Status, NEW will_cancel \in BOOLEAN,
             ChangeSubscription(s, status, will_cancel)
      PROVE  MInv'
  <2>1. PICK state : state = [status |-> status, will_cancel |-> will_cancel]
      OBVIOUS
  <2>2. state \in [status : Status \cup {"none"}, will_cancel : BOOLEAN] /\ Send("changed", s, state)
      BY <1>6, <2>1 DEF ChangeSubscription
  <2>3. QED
      BY <1>1, <2>2, SendMirrors
<1>7. ASSUME NEW r \in Request, NEW e \in EventId, Receive(r, e), OrderedNext
      PROVE  MInv'
    BY <1>1, <1>7, ReceiveMirrors DEF OrderedNext
<1>8. ASSUME NEW r \in Request, Handle(r)
      PROVE  MInv'
    BY <1>1, <1>8, InsertMirrors, ReadsMirror, WritesMirror, PayMirrors, MarkMirrors DEF Handle
<1>9. ASSUME NEW u \in User, DeleteUser(u)
      PROVE  MInv'
  <2>1. /\ UNCHANGED <<external, webhook_events, req>> /\ users' = users \ {u}
        /\ \A v \in User : subscriptions'[v] = IF v = u THEN None ELSE subscriptions[v]
      BY <1>9 DEF DeleteUser, MInv, OInv, IInv, TypeOK
  <2>2. QED
      BY <1>1, <1>2, <2>1, OutsideMirrors
<1>10. CASE TrialEnds
    BY <1>1, <1>2, <1>10, OutsideMirrors DEF TrialEnds, database
<1>11. CASE Crash
  <2>1. /\ UNCHANGED <<external, users, subscriptions, webhook_events>>
        /\ \A q \in Request : req'[q].at = "idle"
      BY <1>11 DEF Crash, database, Idle, Running
  <2>2. QED
      BY <1>1, <1>2, <2>1, OutsideMirrors
<1>12. QED
    BY <1>3, <1>4, <1>5, <1>6, <1>7, <1>8, <1>9, <1>10, <1>11 DEF OrderedNext, Next

LEMMA MirrorInit == Init => MInv
<1> SUFFICES ASSUME Init PROVE MInv
    OBVIOUS
<1>1. OInv
    BY OrderedInit
<1>2. /\ Len(sent) = 0 /\ Sent = {} /\ \A r \in Request : req[r].at = "idle"
      /\ \A s \in Sub : stripe[s].status = "none"
      /\ \A e \in EventId : webhook_events[e] = None
      /\ users = User
    BY DEF Init, Idle, Running, Sent
<1>3. PICK row \in {None, Trial} : \A u \in User : subscriptions[u] = row
    BY DEF Init
<1>4. Trial.provider_subscription_id = None /\ ~Trial.cancel_at_period_end
    BY DEF Trial
<1>5. StripeTold /\ History
    BY <1>2 DEF StripeTold, History
<1>6. RowsPlain
    BY <1>2, <1>3, <1>4 DEF RowsPlain
<1>7. InTurn /\ AllMirror
    BY <1>2 DEF InTurn, AllMirror, Mirrors
<1>8. Mirrored
  <2> SUFFICES ASSUME NEW s \in Sub PROVE Reflects(s, 0)
      BY <1>2 DEF Mirrored
  <2>1. Owner[s] \in User
      OBVIOUS
  <2>2. Unlinked(subscriptions[Owner[s]])
      BY <1>3, <1>4, <2>1 DEF Unlinked
  <2>3. QED
      BY <2>2 DEF Reflects, TellsNothing
<1>9. QED
    BY <1>1, <1>5, <1>6, <1>7, <1>8 DEF MInv

LEMMA MirrorHolds == MInv => MirrorsStripe
<1> SUFFICES ASSUME MInv, NEW s \in Sub, AllSettled, Owner[s] \in users,
                    stripe[s].status \in DOMAIN STRIPE_STATUS,
                    NEW row, row = subscriptions[Owner[s]]
             PROVE  \/ /\ row # None
                       /\ row.provider_subscription_id = s
                       /\ row.status = STRIPE_STATUS[stripe[s].status]
                       /\ (\E e \in Sent : sent[e].type = "checkout" /\ sent[e].sub = s) =>
                             row.cancel_at_period_end = stripe[s].will_cancel
                    \/ /\ row = None \/ row.provider_subscription_id = None
                       /\ \A e \in Sent : sent[e].sub = s =>
                             sent[e].type = "changed" /\ ~Live(s)
    BY DEF MirrorsStripe
<1>1. PICK n \in Nat : n = Len(sent) /\ Sent = 1..n
    BY EventsAre DEF MInv, OInv, IInv, Sent
<1>2. Processed(n)
    BY <1>1 DEF AllSettled, Settled, Processed
<1>3. Tells(row, s, n) \/ TellsNothing(row, s, n)
    BY <1>1, <1>2 DEF MInv, Mirrored, Reflects
<1>4. stripe[s].status # "none"
    BY StatusKnown
<1>5. PICK d \in Sent :
          /\ LastOf(s, n, d)
          /\ sent[d].status = stripe[s].status
          /\ sent[d].will_cancel = stripe[s].will_cancel
    BY <1>1, <1>4 DEF MInv, StripeTold
<1>6. CASE Tells(row, s, n)
  <2>1. PICK f \in 1..n :
            /\ LastOf(s, n, f)
            /\ row.status = StatusOr(sent[f].status, "ACTIVE")
            /\ (\E c \in 1..n : sent[c].type = "checkout" /\ sent[c].sub = s) =>
                  row.cancel_at_period_end = sent[f].will_cancel
      BY <1>6 DEF Tells
  <2>2. f = d
      BY <1>1, <1>5, <2>1, LastIsOne
  <2>3. row # None /\ row.provider_subscription_id = s
      BY <1>6 DEF Tells
  <2>4. row.status = STRIPE_STATUS[stripe[s].status]
      BY <1>5, <2>1, <2>2 DEF StatusOr
  <2>5. QED
      BY <1>1, <1>5, <2>1, <2>2, <2>3, <2>4
<1>7. CASE TellsNothing(row, s, n)
  <2>1. d \in 1..n /\ sent[d].sub = s
      BY <1>5 DEF LastOf
  <2>2. ~Live(s)
      BY <1>5, <1>7, <2>1 DEF TellsNothing, Live
  <2>3. QED
      BY <1>1, <1>7, <2>2 DEF TellsNothing, Unlinked
<1>8. QED
    BY <1>3, <1>6, <1>7

(***************************************************************************)
(* Delivered in order and one at a time, the settled events of a user's    *)
(* only subscription leave the row equal to what Stripe has, through       *)
(* crashes between the write and the mark, redeliveries, statuses the code *)
(* does not know and the deletion of accounts, for any number of them.     *)
(***************************************************************************)
THEOREM RowsMirrorStripe ==
    ASSUME \A s, t \in Sub : Owner[s] = Owner[t] => s = t
    PROVE  OrderedSpec => []MirrorsStripe
<1>1. OneEach
    BY DEF OneEach
<1>2. MInv /\ [OrderedNext]_vars => MInv'
    BY <1>1, EveryStepMirrors
<1>3. QED
    BY <1>2, MirrorInit, MirrorHolds, PTL DEF OrderedSpec
=============================================================================
