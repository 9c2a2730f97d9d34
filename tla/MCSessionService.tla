-------------------------- MODULE MCSessionService --------------------------
(* Small instance of SessionService for TLC.                               *)
EXTENDS SessionOverlap, TLC

Symmetry == Permutations(Token) \cup Permutations(Device) \cup Permutations(Request)
=============================================================================
