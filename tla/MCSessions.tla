------------------------------ MODULE MCSessions ------------------------------
(* Finite instances of Sessions for TLC. *)
EXTENDS Sessions, TLC

\* Accounts and request slots are interchangeable, and so is every property.
Symmetry == Permutations(Request) \cup Permutations(User)
=============================================================================
