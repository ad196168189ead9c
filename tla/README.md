# TLA+ models of langup_backend

langup is a vocabulary-learning service: a FastAPI application over PostgreSQL
and Redis, a Celery worker, Stripe for payments, an external AI gateway, and a
plain-JavaScript client. This directory holds TLA+ models of its core, the TLC
configurations that check them, and proofs checked by TLAPS.

## How the program runs, and what that means for a model

* The web server is one uvicorn process. A request is a coroutine: it runs alone
  from one `await` to the next, and every database or Redis call is an `await`.
* Each request has its own `AsyncSession` with `expire_on_commit=False`, and
  `BaseRepository.create_one`, `update_one`, `delete_one` and `delete_by` commit
  at once (`repositories/base.py:18-59`). A service method of several calls is
  therefore not a transaction: other requests run, and a crash may fall, between
  any two of its calls.
* PostgreSQL runs at READ COMMITTED and the code takes no row locks. `update_one`
  writes the columns whose value differs from the row *as it was read*, and
  UPDATE of a row that is gone raises. A failed flush (a unique or foreign key)
  leaves the session unusable, so a handler that then tries to record the
  failure fails too.
* The bulk import of the dictionary is the exception: one transaction for all
  its entries, committed at the end.
* The Celery worker runs one task at a time (concurrency 1, prefetch 1), with
  late acknowledgement, time limits and retries. With Celery off or the broker
  down, the same jobs run inside the web process, several at a time.

So in every module **one action is one database statement of one request, with
the Python code that follows it up to the next statement**. Requests live in
slots (`Request`), each holding the statement it waits to run (`at`) and the
local variables it still needs. Two consecutive reads that decide one thing are
one action where no property can tell (`has_premium` and the usage row in
`generation_budget` and `consume_generations`; the language and the preferences
in `replenish`; `total_ever` and the candidate words). Requests that are refused
without touching the database are not steps.

## Inventory

| Component | State | Operations | Hard part | What makes it correct |
|---|---|---|---|---|
| Sessions (`services/auth/auth.py`) | `refresh_tokens`, `users` | register, login, Google login, refresh, logout, logout-all | rotation is insert then update; reuse detection; grace window; overlapping tabs | rotation chain sound; a dead token stays dead; nobody else's sessions are touched |
| Accounts, e-mail verification, password reset (`auth.py`, `email_verification.py`, `password_reset.py`, `user.py`, `admin_service.py`) | `users`, `oauth_accounts`, both kinds of one-time links, the trial row | sign-up, link request and use, profile, admin create, edit, delete | several writers of one row; supersession; a sign-up cut off; guards read before the write | one link lives; no write is taken back; the trial comes with the account; roles are guarded |
| Stripe webhooks (`payments/webhook_service.py`) | `webhook_events`, `subscriptions`, `payments` | four event handlers, idempotency store | duplicate, reordered, overlapping deliveries; crash between effect and mark | access is earned; settled events are final; in-order delivery mirrors Stripe; an event is eventually handled |
| Access, trial, billing (`access.py`, `subscription_service.py`, `billing_service.py`) | the subscription row | trial grant, checkout, portal | one row per user for many subscriptions | who pays has access |
| Usage limits (`usage_limit_service.py`) | `usage_limits` | budget, consumption | check, minutes of work, then charge | never overcharged; within the limit when refills do not overlap |
| Exercise pool (`learning/exercise_service.py`) | `exercises`, `exercise_attempts`, preferences | refill, serve, answer, preferences, admin edits | refills and requests race on rows | reviews rest on attempts; target respected |
| Exercise content (`ai/exercise_generation.py`, cards and rounds of `exercise_service.py`) | none: pure functions | accept, repair or refuse the model's reply | repairs change the text the next repair reads | what is stored can be answered, and graded as it was meant |
| Spaced repetition (`spaced_repetition.py`, grading in `exercise_service.py`) | `user_words` | review, graded answers, candidate words | lost updates, rounding, growth | torn rows stay sound; one review, one step of SM-2 |
| Capture and vocabulary (`capture_service.py`, `word_service.py`) | `words`, `sources`, `word_contexts`, `user_words` | capture, remove, admin edits | get-or-create races in four tables | a sentence belongs to an entry |
| Translation cache, dictionary import (`translation_service.py`, `dictionary_service.py`) | JSON column `words.definitions` | cache, merge, import | read-modify-write across an AI call; one transaction per import | translations are kept; an import shows whole or not at all |
| Rate limiting (`core/security/rate_limit.py`) | Redis counters | enforce, lockout | INCR and EXPIRE are two calls; fails open | a counter ends; at most two windows' worth; the lock holds |
| Background dispatch (`learning/background.py`, `celery/`) | queue, results, refill owners in Redis | enqueue, fall back, run, poll, cancel | broker outage, worker crash, redelivery, expiry | no job is lost, each ends, what a page is told has happened |
| Client sessions (`frontend/api.js`) | tokens in localStorage, one refresh in flight | fetch, refresh, logout | several tabs, lost responses | – |
| AI client, notifications, schemas, configuration, migrations | none of their own | – | – | outcomes are choices in the models above |

Interactions: webhooks change what `is_active_subscription` answers, which the
usage limits ask, which refills ask; captures schedule translations and refills;
answers feed spaced repetition, which chooses the words of the next refill;
reset and account deletion reach into the sessions; refills, translations,
e-mails and imports all travel through the background dispatch.

## Modules

| Module | Models |
|---|---|
| `Sessions.tla` | sign-in, refresh, logout, logout-all, the end of a password reset, account deletion, crashes |
| `SessionLifecycle.tla` | what `Sessions` promises, without table, clock or request: the abstract specification |
| `Accounts.tla` | sign-up, links, profiles, roles, admin panel |
| `StripeWebhooks.tla` | webhook store and handlers, Stripe as environment, account deletion, the end of trials, crashes |
| `UsageLimits.tla` | the quota: state, budget, consumption, days, plan changes |
| `ExercisePool.tla` | the pool; extends `UsageLimits` and calls its operators from its refill actions |
| `ExerciseContent.tla` | the pure half of the pool: what becomes of a reply of the model |
| `SpacedRepetition.tla` | SM-2, overlapping reviews, the grading of an answer, the choice of words |
| `Vocabulary.tla` | capture, removal, word edits, translation cache, bulk import |
| `RateLimit.tla` | both quotas and the lock on failed logins |
| `Dispatch.tla` | requests, broker, worker, result backend and the polling page |
| `MC*.tla` | instances for TLC: who owns what, starting rows, symmetry, and in `MCExercisePool` the bounded inputs of `ExerciseContent` |
| `*Proofs.tla` | theorems about `Sessions` (with the refinement of `SessionLifecycle`), `Accounts`, `StripeWebhooks`, `ExercisePool`, `SpacedRepetition`, `Vocabulary`, `RateLimit`, `Dispatch` |

Definitions named "Mutant" next to a definition are that definition with a
plausible bug in it; with it in place the property it is listed with fails.

### Sessions and SessionLifecycle

A token is its row of `refresh_tokens` and rows are numbered in the order of
insertion. `refresh` is the actions `RefreshAccepted` or `RefreshReplayed` (the
read and its checks), `RefreshGetUser`, `RefreshIssue`, `RefreshRetire`; in the
code the row is looked up again before it is retired, which reads what the same
request has just inserted and is part of `RefreshRetire`. `logout` is `Logout`
and `LogoutWrite`; `reset` is `Reset`, `ResetPassword`, `RevokeAll`; a replay
and logout-all end in the same `RevokeAll`. The expiry of the JWT and of the row
are one time, so an expired token is refused before anything else. `verified`
is history: the password the sign-in behind a token was checked against.
Writing a row keeps its `user_id` and `expires_at`, which no code updates.
The foreign key to `users` refuses a token for an account that is gone.

`SessionLifecycle` says what signing in is for: a session is created by a
sign-in of its user or from a living session of its user, and one that has ended
does not come back. `Sessions` maps its tokens that are refreshable, or held by
a refresh that has accepted them, to the living ones. That the second half is
needed is the point of the refinement: a refresh checks a token, waits, and
issues its successor although a logout has ended the token meanwhile. The
abstract life cycle does not end a session whose refresh is under way, and the
model shows there is no other way back to life. Only the ended session is
abstract: which requests end it (`End`) is left open.

### Accounts

One action per statement: the INSERT of a user, the trial, the Google link, the
two statements that issue a link (`Invalidate`, `Issue`), the two that use one
(`Use`, `Update`), and the UPDATE or DELETE of a profile or admin request. A
request carries the row as it read it and the row it wants; `Updated` is
`update_one`. The acting user's role is the one `get_current_user` read at the
start of the request, which is how the code guards. `password` remembers which
link set it, so that losing a password set by a link can be told from changing
it. Links do not age, as an expired link and a used one are refused alike. The
session half of a password reset is in `Sessions`. `offered` says whether there is
a trial to grant: `NEW_USER_TRIAL_DAYS` is not 0 and the plan has its row.
`ConfigureTrial` changes it either way, at any time; without one `grant_trial`
returns and the sign-up goes on (`GrantTrial`), and the user is in `untried`.

### StripeWebhooks

`handle_stripe` is `Receive`, `Insert`, one of the handlers, and `Mark`. The
environment is Stripe: subscriptions whose state changes, an event per change
with the state at that time, and deliveries of any event that has been sent, in
any order, any number of times, several at once. The four handlers are
`ChangedRead`/`UpdateSubscription`, `UpsertRead`/`Upsert` (both callers of
`_upsert_subscription`) and `InvoiceRead`/`InvoiceSubscription`/`Pay`.
`UpdateRow` is `update_one`: only columns that differ from the row read are
written. `Status` may hold statuses the table `_STRIPE_STATUS` does not know,
such as Stripe's "paused": as the default of the lookup they count as ACTIVE
without a row and raise with one. `OrderedSpec` restricts deliveries to one at a
time in the order of the events. Events of other types, and checkouts without
the metadata `start_checkout` always sets, change nothing but their own row and
are left out, as are plan, period dates and amounts.

### UsageLimits and ExercisePool

The pool is that of one learner in one practice language. A refill is
`StartRefill`, `ReadBudget`, then the match-pairs round (`CheckPairs`,
`StorePairs`), the count (`CountPending`), the cards (`StoreCard`, `SkipCard`)
and the charge (`ReadUsage`, `Charge`); `_generate_of_type` is the same stages
with `only` set. The words there are to build from, what the AI gateway answers
and which type the rotation comes to are choices. `AbortRefill` is a crash, the
task's time limit or any exception; the retry is another `StartRefill`.
`get_next` is `GetNext`, `MarkServed`; `submit_attempt` is `SubmitAttempt`,
`RecordAttempt`, `Complete` and one `Feed` per review; `set_preferences` is
`SetPreferences`, `WritePreferences`, `DropDisabled`. `reviews` is history.
The admin panel writes any status of `AdminStatus` and deletes exercises; in
`pool_quota` and `pool_worker` that set is empty, as an admin who makes an
exercise pending again changes the count a top-up works from.

### ExerciseContent

Texts are sequences of tokens: a numbered gap, or a form in which a word is all of
it, its start, or somewhere inside (`Form`). That is all `_contains_word`, the
placeholder and `re.subn(count=1)` can tell apart: an index is searched at the
start of a form, and `_blank_word` falls back to the word anywhere, which a typing
card accepts too (`FirstForm`). Each type is one function from a reply to what is stored, or
`Rejected`; the loop of `_normalize` is a fold, so that each blank is repaired
in the text the earlier repairs left. The promises are operators over sets of
inputs; `ContentSound` in `MCExercisePool` gives them all texts of up to three
or four tokens over two words and two gaps, all replies of up to two blanks, all
lists of up to four distractors, and all rounds of up to three words of a
vocabulary in two languages. TLC evaluates it at the start of each pool run.

### SpacedRepetition

Ease factors are in hundredths, as the `Numeric(4, 2)` column stores them.
`Rounded` gives both neighbours on a tie: the product is a float there, and which
way it goes depends on its last bit. `Review` and `Feed` read the row and compute
from it; `WriteReview` is `update_one` over every column, so that two reviews
may leave a row that mixes both; `Reload` is the read that follows. An answer of
a round reviews each pair it reached with a grade of its own, a card its one
word. Removing a word and capturing it again gives a new row (`uuid`).
`_candidate_words` is the choice of words for the next refill. `raced` is history:
words where a review has overwritten a row other than the one it read.

### Vocabulary

A key is a lemma with its language; of a word's definitions the languages they
translate into are kept, as a rewrite loses or keeps whole entries. `capture`
runs through up to eight statements (`SetTarget` … `Reload`), each its own
commit. `Rewrite` is the UPDATE of four callers: the translation cache, the
admin's and the user's edit of a word. An import reads a chunk, flushes it,
and commits at the end: what it has flushed locks rows and keys against
other writers, two imports may wait for each other, and the database then fails
one (`BreakDeadlock`). `torn`, `known` and `raced` are history.

### RateLimit

`Incr` and `Expire` are two calls to Redis; either may fail before or after
Redis has done it (`RedisFails`), and the process may stop between them
(`Abort`). A failed call lets the request through, as the code does. `login` is
`CheckLock`, `Verify` and, for a wrong password, `Incr` of the account's
counter; a successful login resets nothing. `Tick` moves time and drops keys
whose time has come.

### Dispatch

A request asks (`Ask`), `task.delay` comes back (`Accepted`) or raises
(`Refused`, with the message at the broker or not), and a refill's owner is
recorded before its page gets the id (`Remember`). `RunHere` is the fallback in
the server process. The worker is `Receive`, `Succeed`, `Fail` (a retry for the
tasks with `autoretry_for`), `TimeOut`, `Acknowledge`; a crash leaves the message
unacknowledged, and `Redeliver` is the visibility timeout. `Expire` is the hour
after which states and owner keys go. What a job does is in `ExercisePool` and
`Vocabulary`.

A page learns of its job in three ways. It polls: a refill whose owner is not on
record, or cannot be read, is a 404 whatever has become of it. A refill done in
the request is answered with its outcome. An import without a task id is "Imported"
at once, before it runs. The admin's browser keeps the id of one import (`kept`),
to resume the poll after a reload and to cancel: `Cancel` is the DELETE, which may
fail to reach the workers, after which the page drops the id and lets a poll under
way go on, so that it may still show how the import ended. `Revoke` is what the
workers do with it. One browser is a bound.

## Runs

| Run | Bounds | Shows |
|---|---|---|
| `sessions` | 2 users, 2 requests, 2 tokens, grace 0, lifetime 2, 2 ticks, 1 password change | `TypeOK`, `RotationSound`, `DeadStaysDead`, `OldPasswordStaysOut`, `OthersUntouched`; `ImplementsLifecycle`, the refinement |
| `stripe` | 1 user, 1 subscription, 4 statuses with an unknown one, 2 overlapping deliveries, 3 events, 1 crash | `TypeOK`, `AccessEarned`, `SettledIsFinal` under any delivery |
| `stripe_ordered` | 5 statuses, 4 events, 2 crashes, one delivery at a time | `MirrorsStripe`, `PaidOnce` under in-order delivery |
| `stripe_live` | 2 statuses, 2 overlapping deliveries, 2 events, 1 crash, fairness | `EventuallyProcessed` |
| `pool` | 1 refill, 2 overlapping requests, 1 exercise, 2 attempts, admin edits | `TypeOK`, `ReviewsEarned`; `ContentSound` |
| `pool_worker` | 1 refill, 1 request, 3 exercises, target 2, limit 2 | `WithinQuota`, `TopUpStopsAtTarget` |
| `pool_quota` | 2 overlapping refills, 4 exercises, 2 days, 1 plan change | `NeverOvercharged` |
| `reviews` | 2 words, one well known; one round over both; 2 requests, 4 reviews, 2 days, 1 capture | `TypeOK`, `ScheduleSound`, `ScheduleConsistent`, `GradesAgree`, `CandidatesFill` |
| `vocabulary` | 1 user, 2 keys, 2 languages, 2 imports, 2 requests at a time, 3 in all | `TypeOK`, `SentencesBelong`, `TranslationsKept`, `ImportAtomic` |
| `accounts` | a super-admin, a user, a new address, 3 links, 2 requests at a time, 3 in all, trials on and off | `TypeOK`, `OneLinkLives`, `SignedUpHasTrial`, `WritesKept`, `RolesGuarded` |
| `rate_limit` | 2 requests at a time, 4 in all, limits 2 and 1, windows of 2 ticks, 3 ticks | `TypeOK`, `CounterExpires`, `TwoWindows`, `LockHolds` |
| `dispatch` | a refill and an import, 2 retries, 1 crash of either side, 1 browser, fairness | `TypeOK`, `NothingLost`, `ToldTheTruth`, `CancelSticks`, `EventuallyOver` |

Why these bounds are enough: a race in this code is between two coroutines, the
one that read a row and the one that writes it, so two slots make every such
race; a third request after the two (`accounts`, `vocabulary`) uses what they
left. Two tokens are a sign-in and its successor; with grace 0 and two ticks a
token is seen inside the window and past it, and past its lifetime. Three events
are enough for an event to be overtaken by two others, four for a life cycle of
subscription, change, invoice and end. Four quota requests over four ticks fill
two neighbouring windows of a limit of one or two. The word of `reviews` starts a
step before MASTERED, so that four reviews take it over that line and a failure
back. One crash is one interrupted step; a second interrupts the repair of the
first (`stripe_ordered`). The proofs below drop the bounds
altogether, for the properties they state. Symmetry is
used over slots, and over users in `Sessions`, never in a run with fairness.

Deadlock checking is on for `sessions`. It is off elsewhere: Stripe runs out of
events, a pool out of exercise ids, a run out of requests, when the bounds are
used up.

**Fairness** is used in two runs.

* `stripe_live`: weak fairness of `Handle(r)` – a delivery that runs is run on by
  the event loop – and strong fairness of receiving each event: Stripe redelivers
  what has not had its 200, and a delivery is possible whenever a slot is free.
  Crashes are bounded, as a server that always crashes handles nothing.
  `EventuallyProcessed` leaves invoices and statuses the code does not know out,
  because the code does not promise them (see below).
* `dispatch`: weak fairness of `WorkerStep`, as a worker that is down is restarted
  by its container, one that is up takes the next message, and the hard time
  limit ends every run; of `Redeliver`, the visibility timeout; and of `RunHere`.
  Nothing is assumed about the page, the requests or `Progress`. Without
  redelivery, or with an early acknowledgement, `EventuallyOver` fails.

Properties with a condition on history (`untried`, `crossed`, `torn`, `raced`,
`cut`, `blind`, `forgotten`) say: this goes wrong only after the incident named, and it is set
by the step of the code that is the incident, nowhere else. They are claims about
all other interleavings.

`TopUpStopsAtTarget` and `WithinQuota` are claims about one refill: the worker
runs one task at a time, and they fail for two (next section).

## Disagreements between code and comments

What comments, docs and tests say and the code does not do. The definitions named
are in the modules, under "What documents and comments claim"; each fails with
the constants of the run named here and the property in its place.

| Property | Says | With the constants of | What happens |
|---|---|---|---|
| `LogoutIsFinal` | `auth.py:160` | `sessions`, grace 1 | a logout that presents a token rotated a moment ago leaves it acceptable for the rest of the grace window |
| `RevokeAllEndsSessions` | `auth.py:166`, `password_reset.py:78` | the same | revoke-all passes over a token rotated within the grace window |
| `GraceNotExtended` | `config/auth.py:10` | the same | every replay inside the window moves the window |
| `PaymentNotDuplicated` | `docs/PAYMENTS.md:52` | `stripe` | an event that is RECEIVED but not PROCESSED is dispatched again, and two deliveries of an invoice insert a payment each; every later delivery then raises |
| `OnlyLiveCreates` | `webhook_service.py:108` | `stripe` | an unknown status counts as ACTIVE and creates the row |
| `FailedIsRetried` | `webhook_service.py:69` | `stripe_live` with "paused" | an unknown status fails on every redelivery once the row is there |
| `CanceledIsFinal` | `docs/PAYMENTS.md` | `stripe` | a late update revives a canceled subscription |
| `PayingHasAccess` | `subscription_service.py:17` | `stripe_ordered`, 2 subscriptions of one user (`s1`, `s2`) | two Stripe subscriptions share the user's row; the end of one takes away the access the other pays for |
| `NotRenewingIsReported` | `webhook_service.py:121` | the same | a new subscription inherits the old one's cancellation flag |
| `FreeTierCapped` | `usage_limit_service.py:1` | `pool_quota`, limit 1 | overlapping refills each spend the whole budget |
| `OneRoundPending` | `exercise_service.py:296` | `pool_quota`, no limit | two refills queue two rounds |
| `CompletedIsFinal` | `models/exercise.py:16` | `pool` | SERVED is written over COMPLETED |
| `AnsweredOnce` | `exercise_service.py:138` | `pool` | two overlapping answers are both accepted |
| `DisabledLeaveThePool` | `routers/exercises.py:47` | `pool`, 1 request, 2 exercises | the drop is not reached, or a refill goes on with the old preferences |
| `OwnSentence` | `exercise_service.py:382`, `:403` | `vocabulary`, 2 users | the latest sentence of a word is shown whoever saved it |
| `InProcessIsDone` | `admin.js:487` | `dispatch` | an import the broker refused runs after the answer, and may fail or go with the server, while the page says "Imported" |
| `EveryGradeScheduled` | `routers/learning.py:65` | `reviews` | an interval past the last date of a `datetime` raises: the word can then only be failed |

The invariants say these precisely, as the exceptions they allow:

* `rate_limit.py:8` promises that a limited caller gets in again. A key that lost
  its EXPIRE (a Redis failure or a stop right after INCR) stays for good:
  `CounterExpires`, `cut`.
* `repositories/auth.py:46` promises one good link. Two overlapping requests
  leave two: `OneLinkLives`, `crossed`.
* `auth.py:47` gives a new sign-up the trial. An account made by `POST /users` or
  by an admin has none, nor one whose sign-up was cut off, nor one who signs up while
  trials are off or the plan has no row, which no migration inserts. Nothing makes
  up for it when they are on again: `SignedUpHasTrial`, `untried`.
* `background.py:38` answers a refill whose owner Redis cannot give as it does one
  of somebody else, and the page gives up although the refill goes on:
  `ToldTheTruth`, `forgotten`.
* `admin_service.py:41` lets only a super-admin manage privileged users. The users
  router asks for an admin only: `DeleteUser` and `UpdateProfile` reach a
  super-admin's row.
* `routers/admin.py:190` cancels an import. A worker that is down does not hear of
  it, and one that restarts forgets it: `CancelSticks` is about `revoked`. The page
  forgets the import even if the DELETE was refused, and cannot cancel it again.
* `background.py:3` promises a retry on failure. E-mails and imports have no
  `autoretry_for`: `Retrying`.
* A crash between the new password and the revocation (`password_reset.py:80`)
  leaves the old sessions alive and the link spent; nothing makes up for it.
* `translation_service.py:84` computes the whole list from a row read before an AI
  call: `TranslationsKept`, `raced`. A word renamed between an import's SELECT and
  its UPDATE takes two of its entries: `ImportAtomic`.
* Two blanks with one index: the first takes the placeholder, the second its
  answer, and a requested word is not graded (`exercise_generation.py:200`).
  `FillInBlankAnswerable` asks for distinct indexes.
* Translations of a round are keyed by lemma: a lemma in two languages gets the
  later translation in both pairs (`translation_service.py:80`).
  `RoundUnambiguous` asks for distinct lemmas.

## Proofs

Proved for every value of the constants, from each module's named assumptions
alone. These are the ranges of the bounds; finite sets where cardinalities are
taken (slots for requests and refills, rows, words, jobs: a server has finitely
many of each); that `None`, SQL's NULL, is neither a row nor a value
(`NoneAssumption` in `StripeWebhooks`, `RowAssumption` in `Vocabulary`); for
`Accounts`, that it starts with distinct addresses; and for `SpacedRepetition`
that the vocabulary it starts with is one that reviews, one after the other, have
left behind, in rows numbered apart (`StartAssumption`). A theorem with a
hypothesis of its own states it in an ASSUME.

| Module | Theorem | States |
|---|---|---|
| `SessionsProofs` | `TypeCorrect`, `RotationCorrect`, `DeadTokensStayDead`, `OthersStayUntouched`, `OldPasswordNeverReturns`, `SessionsImplementLifecycle` | `TypeOK`, `RotationSound`, `DeadStaysDead`, `OthersUntouched`, `OldPasswordStaysOut`, `ImplementsLifecycle` |
| `AccountsProofs` | `TypeCorrect`, `OneLink`, `TrialGranted`, `NoWriteLost`, `RolesAreGuarded` | `TypeOK`, `OneLinkLives`, `SignedUpHasTrial`, `WritesKept`, `RolesGuarded` |
| `StripeWebhooksProofs` | `TypeCorrect`, `AccessIsEarned`, `SettledEventsStaySettled`, `InvoicesArePaidOnce`, `RowsMirrorStripe` | `TypeOK`, `AccessEarned`, `SettledIsFinal`, `PaidOnce`, `MirrorsStripe` |
| `ExercisePoolProofs` | `TypeCorrect`, `ReviewsAreEarned`, `IsNeverOvercharged`, `OneWorkerWithinQuota`, `StopsAtTarget` | `TypeOK`, `ReviewsEarned`, `NeverOvercharged`, `WithinQuota`, `TopUpStopsAtTarget` |
| `SpacedRepetitionProofs` | `TypeCorrect`, `TornRowsStaySound`, `ReviewsAreSerial`, `GradesAlwaysAgree`, `RefillsAreFilled` | `TypeOK`, `ScheduleSound`, `ScheduleConsistent`, `GradesAgree`, `CandidatesFill` |
| `VocabularyProofs` | `TypeCorrect`, `NoTranslationIsLost`, `EverySentenceBelongs`, `ImportsAreAtomic` | `TypeOK`, `TranslationsKept`, `SentencesBelong`, `ImportAtomic` |
| `RateLimitProofs` | `TypeCorrect`, `CountersExpire`, `TwoWindowsAtMost`, `LockHoldsAlways` | `TypeOK`, `CounterExpires`, `TwoWindows`, `LockHolds` |
| `DispatchProofs` | `TypeCorrect`, `NoJobLost`, `PagesToldTheTruth`, `CancelledStaysCancelled` | `TypeOK`, `NothingLost`, `ToldTheTruth`, `CancelSticks` |

**Sessions.** The inductive invariant is

    IInv == TypeOK /\ IdsSound /\ RequestSound /\ RotationSound

`RotationSound` is not inductive alone. `RefreshRetire` makes a row point to the
successor its request holds, so the request has to hold a good one: `HeldSound`
says that a refresh about to retire holds a later id, and that if the old row is
still there, then so is the new one, of the same user and sign-in. It is kept
because rows vanish only with their user, both together. That a new row takes an
id nobody holds is `IdsSound`. The effects of the two operators that write rows
are lemmas (`IssueTokenEffect`, `RevokeAllEffect`), and each action has a step of
its own. `DeadStaysDead` follows from `IInv` with one more lemma
(`RequestMoves`): the only requests that bring a token to life are those `Dead`
excludes. `OthersUntouched` needs that a request about to write a token knows
whose it is, which `RequestSound` holds. For `OldPasswordStaysOut` the step to
look at is a refresh: the row it inserts has the password of the row it was asked
with, and a session of an old password that a refresh still holds is one that is
not gone yet; a sign-in inserts the password it has just checked (`GoneStays`).

**The refinement.** `LInv` adds to `IInv` what ties a request to the row it
accepted (`AnchorSound`): the row is gone with its user or still of the user the
request works for. Every action is then shown to be a step of `SessionLifecycle`
or to leave its variables alone: an insert by a sign-in is `SignIn` (`SignInStep`),
one by a refresh `Refresh` (`RefreshStep`), the start of a sign-in `Ask`, and all
others end sessions or change nothing (`StepEnds`).

**Accounts.** The invariant is `TypeOK` (which holds uniqueness and foreign keys),
`Sound` of each request, `SignedUpHasTrial` and `LinksSingle`. `Sound` says what a
request carries at each statement; above all, that a write of a profile or an
admin changes only its own columns, that a link only confirms or sets its own
password, and that a role is changed only by an actor the guard let through.
`OneLinkLives` is not inductive: between the two statements of an issue the links
of the user must all be used (`LinksSingle`), or two issues overlap and the user
is in `crossed`.

**StripeWebhooks.** `IInv` is `TypeOK`, `RowsEarned` and `DeliveriesSound`. A
subscription enters a row only by an event that reports it live for its owner
(`Earned`), which a delivery must still know when, several commits later, it
writes what it read; `Kept` says which facts no step takes back, so that it does:
a row linked to a subscription never becomes the plain trial again (`Linked`).
`OnBehalf` ties every mark of an event and every change of a row to a delivery in
progress, from which `SettledIsFinal` follows: nothing settled has one. For
`PaidOnce`, under `OrderedSpec`, there is in addition one delivery at a time
(`OneAtATime`), no event is stored before it was sent (`StoredWasSent`), a delivery
about to insert a payment is for an invoice without one (`InvoicesSound`), and an
invoice marked PROCESSED has exactly one (`ProcessedIsPaid`).

`MirrorsStripe` is about the moment when everything is settled; between, the row
reflects some prefix of the events. `MInv` says which: the events that are
PROCESSED, or those and the next one (`Mirrored`), whose delivery has written the
row and not yet marked the event, or died there. Marks come in order (`InTurn`),
a delivery under way is that of the first event that is not PROCESSED, and what it
has read is the row as it is (`AllMirror`), as nothing else writes the row. What
the events say is tied to Stripe by `StripeTold` (the last event of a subscription
carries its state) and `History` (an invoice repeats the state of the event before
it, and a checkout comes first). `RowsMirrorStripe` assumes that no user has two
subscriptions, as the property fails of two that share a row (`PayingHasAccess`
above).

**ExercisePool.** Types need `RefillSound`: what a refill has created and has left
to try never exceeds the budget it read.

`ReviewsEarned` counts. A review that is still to be fed is owed by the answer that
recorded its attempt (`Owed`), and what has been fed and what is owed together never
exceed the attempts times the words of the exercise (`Covered`): an answer takes on
its reviews with its attempt, and each `Feed` turns one owed into one fed.

`NeverOvercharged` compares a sum over days with the number of exercises.
It is proved without a sum: `Charges` has one token for every unit a counter has
reached, or that a refill about to charge has read; `Unpaid` has one for every
exercise a running refill has stored and not charged; and the two sets together
are no larger than the number of exercises ever stored. A charge turns tokens of
the second kind into tokens of the first, one for one at most: when the counter
has moved meanwhile some are lost, which is why a learner can be undercharged and
never overcharged.

`StopsAtTarget` assumes one refill at a time, one request at a time, and no edits
by an admin, as `pool_worker` does. A top-up has no more cards left to try than the
inventory has room for (`RoomLeft`), because everything else only takes from it:
the exercise a request is about to mark SERVED is not answered yet (`HandsOut`).
With two requests it may be, and SERVED puts it back.

`WithinQuota` is false of overlapping
refills and of a plan that changes, so
`OneWorkerWithinQuota` assumes one refill at a time and an unchanged plan, as the
run `pool_worker` does. Then the budget read is still there when it is charged
(`HeldWithin`): nobody else moves the counter of the day, and a day that begins
meanwhile begins with an unused one (`FutureUnused`).

**SpacedRepetition.** No property is inductive without what a request carries
between its read and its UPDATE. `ReadsSound` says that it read a sound row, that
what it writes follows from that row (`NextRow`), and that the row, if it is still
there, has not become unreviewed since; `RowsNumbered` tells a word captured anew
from the row read before its removal. A row that mixes the columns of two reviews
is sound because a column is kept only where the review agrees with the sound row
it read (`TornSound`); a row nobody overwrote is the read one, one review on
(`UpdatedFresh`). `GradesAgree` needs that an answer knows its exercise and result
until both are recorded (`ResultKnown`).

`CandidatesFill` follows from one lemma about a finite set in a strict order
(`FirstOfCardinality`): the number of members before one of them is its position,
no two share a position, so the positions are exactly 0 .. n - 1, and the first
`limit` are as many as that. Both orders are strict because rows are numbered
apart, which is part of `RowsNumbered`.

**Vocabulary.** `TypeOK` has the unique keys and the foreign keys, and needs
`TInv`: what each request carries at each statement (`Sound`), and that what an
import has flushed is there and its own (`LocksSound`), so that its commit neither
doubles a key nor writes a row that is gone. Each property then adds what its own
writers carry. `TranslationsKept`: an import about to write has the list of the
word with its translation, or the word is in `raced` (`RowsFresh`).
`SentencesBelong`: a removal past its first statement still means the entry it was
asked for, and a sentence saved since has another entry or is one of the incidents
(`RemovalSound`). `ImportAtomic`: each entry of a running import is on a row it
writes, among its new keys or in a chunk to come, unless a row it holds was changed
by another (`Given`).

**RateLimit.** `IInv` is `TypeOK`, `CounterExpires`, and that a request about to
set an expiry has a quota. `TwoWindows` counts over a span of time, and the
invariant is about two requests: `passed` keeps their ticks in order, and two
with twice the limit between them are at least a window apart (`SpacedBy`). That
rests on the counter there is: what it has not counted itself was let through a
window before its end, and what lies a limit before that, a window ago. Requests
that are all within one window are therefore no more than twice the limit. A
counter that lost its expiry only refuses. For the lock the invariant itself is inductive, by
cases on whether a step adds a guesser (then the count was below the limit),
moves one from guessing to counted, or removes one; `Guessing` is finite because
`Request` is.

**Dispatch.** `NothingLost` is not inductive: an acknowledgement drops the message
in hand, so a run that waits for it must have ended, or left a retry
(`StoredIsOver`). `ToldTheTruth` needs that the backend says SUCCESS only of what
has finished and an end only of what is over (`ResultsTrue`); that a page which
polls, or an id the browser keeps, is of a job Celery took and the page was
answered for (`PagesAnswered`, `Handed`); that a page told of its end without a
poll is of a job Celery takes no more (`TakenWhenAsked`), as otherwise an import
reported without having run could become one that is only late; and that a refill
whose page has its id has its owner on record or in `forgotten` (`OwnersKnown`).
`CancelSticks` needs that a task known to be revoked was handed out and is not
running (`RevokedRests`).

Data that is counted or searched over is handled without induction over it: by
tokens and injections between finite sets (`ExercisePoolProofs`,
`FirstOfCardinality`) or by the least member of a set of numbers (`LeastNumber`).

Only model-checked: `ContentSound`, whose folds over the blanks of a reply and the
words of a round need induction over sequences; and `EventuallyProcessed` and
`EventuallyOver`, as liveness needs fairness and ENABLED. The absence of deadlock in `sessions` is
TLC's, too.

## Not modelled

* **Client sessions** (`frontend/api.js`). In `Sessions` any client may present any
  token at any time, which covers every order the tabs can produce; that a page
  shares one refresh among its requests matters to no property there. A product
  of tabs and server is past what TLC finishes.
* **Practice screens** (`frontend/practice.js`): the state of one page, used by
  one person in sequence. What it submits is any answer in `ExercisePool` and
  `SpacedRepetition`.
* **AI client and prompts**: an external model behind HTTP; its outcomes are
  choices in the models, what is made of its replies is in `ExerciseContent`.
* **Notifications**: wording and SMTP. That a mail is a job that may be refused,
  fail or be lost with the server is in `Dispatch`.
* **Billing**: `start_checkout` and the portal write no row; what follows from them
  at Stripe is the environment of `StripeWebhooks`.
* **Admin panel**: its lists, counts and exports only read. Its writes are in
  `Accounts`, `Vocabulary`, `ExercisePool` and `Dispatch`.
* **Configuration, schemas, error handlers, middleware, migrations, tables no code
  writes**: no state two steps could disagree about.

Left for later: the loops of `ExerciseContent` as recursive functions with a proof of
`ContentSound`; an abstract mirror of Stripe that `StripeWebhooks` implements under
ordered delivery; a second key inside the preferences column, which two profile
writes may lose.
