---- MODULE MCJobberConnection ----
(* Small instances of JobberConnection for TLC. *)
EXTENDS JobberConnection, TLC

Symmetry == Permutations(Handler) \union Permutations(Account)
====
