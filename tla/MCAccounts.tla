------------------------------ MODULE MCAccounts ------------------------------
(* Accounts for TLC: a SUPER_ADMIN, an ordinary user and an address to sign up with. *)
EXTENDS Accounts, TLC

CONSTANTS root, ann, new

MCStart ==
    1 :> [email |-> root, role |-> "SUPER_ADMIN", verified |-> TRUE, password |-> "chosen", native |-> TRUE]
    @@ 2 :> [email |-> ann, role |-> "USER", verified |-> FALSE, password |-> "chosen", native |-> FALSE]
    @@ 3 :> None @@ 4 :> None

Symmetry == Permutations(Request)
=============================================================================
