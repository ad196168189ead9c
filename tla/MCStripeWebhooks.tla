--------------------------- MODULE MCStripeWebhooks ---------------------------
(* Instances of StripeWebhooks for TLC. *)
EXTENDS StripeWebhooks, TLC

CONSTANTS u1, u2, s1, s2

OneOwner == s1 :> u1
SameOwner == s1 :> u1 @@ s2 :> u1
TwoOwners == s1 :> u1 @@ s2 :> u2

RequestSymmetry == Permutations(Request)
=============================================================================
