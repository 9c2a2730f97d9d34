-------------------------- MODULE MCHandsetSession --------------------------
(* A small instance of HandsetSession for TLC.                             *)
EXTENDS HandsetSession, TLC

Symmetry == Permutations(Token)
=============================================================================
