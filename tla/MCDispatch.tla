------------------------------ MODULE MCDispatch ------------------------------
(* Dispatch for TLC: a refill and an import. *)
EXTENDS Dispatch

CONSTANTS fill, load

MCKindOf == [j \in Job |-> IF j = fill THEN "refill" ELSE "import"]
=============================================================================
