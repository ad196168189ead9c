----------------------------- MODULE UsageLimits -----------------------------
(***************************************************************************)
(* The daily AI-generation quota of one user: usage_limits and the access  *)
(* check it asks (app/services/payments/usage_limit_service.py).           *)
(*                                                                         *)
(* The quota is three separate calls of whoever generates: read the        *)
(* budget, generate for as long as it takes, then record the consumption   *)
(* as a read and a write of its own.                                       *)
(***************************************************************************)
EXTENDS Integers

CONSTANTS
    None,            \* SQL NULL, "no such row", "unlimited"
    Limit,           \* FREE_DAILY_AI_GENERATIONS; 0 lifts the limit for everyone
    MaxDay,          \* bound: the last day
    MaxPlanChanges   \* bound: times the user's access changes

Day == 0..MaxDay

ASSUME UsageLimitsAssumption ==
    /\ Limit \in Nat
    /\ MaxDay \in Nat
    /\ MaxPlanChanges \in Nat
    /\ None \notin Nat

VARIABLES
    day,           \* _today()
    premium,       \* is_active_subscription of the user's row
    plan_changes,
    used           \* usage_limits.used of each period, None without a row

quota == <<day, premium, plan_changes, used>>

QuotaTypeOK ==
    /\ day \in Day
    /\ premium \in BOOLEAN
    /\ plan_changes \in 0..MaxPlanChanges
    /\ used \in [Day -> Nat \cup {None}]

QuotaInit ==
    /\ day = 0
    /\ premium = FALSE
    /\ plan_changes = 0
    /\ used = [d \in Day |-> None]

Unlimited == Limit <= 0 \/ premium

\* Mutant: the whole allowance, whatever was used.
WholeAllowance == IF Unlimited THEN None ELSE Limit

generation_budget ==
    IF Unlimited THEN None
    ELSE IF used[day] = None THEN Limit
    ELSE IF used[day] >= Limit THEN 0 ELSE Limit - used[day]

\* Mutant: the row read is charged twice over.
ChargeTwice(period, row, n) ==
    used' = [used EXCEPT ![period] = IF row = None THEN n ELSE row + 2 * n]

\* The write of consume_generations: an UPDATE to the sum computed from the
\* row read, or an INSERT.
ConsumeGenerations(period, row, n) ==
    used' = [used EXCEPT ![period] = IF row = None THEN n ELSE row + n]

\* UNIQUE(user_id, metric, period) refuses the INSERT of a second row.
ConsumptionRefused(period, row) == row = None /\ used[period] # None

NewDay ==
    /\ day < MaxDay
    /\ day' = day + 1
    /\ UNCHANGED <<premium, plan_changes, used>>

\* A webhook, a trial or its end changes what is_active_subscription answers.
ChangePlan ==
    /\ plan_changes < MaxPlanChanges
    /\ plan_changes' = plan_changes + 1
    /\ premium' = ~premium
    /\ UNCHANGED <<day, used>>
=============================================================================
