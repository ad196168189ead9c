----------------------------- MODULE MCRateLimit -----------------------------
(* RateLimit for TLC: quotas of one and two requests, over two windows. *)
EXTENDS RateLimit, TLC

MCLimit == [q \in Quota |-> IF q = "auth" THEN 2 ELSE 1]
MCWindow == [q \in Quota |-> 2]

Symmetry == Permutations(Request)
=============================================================================
