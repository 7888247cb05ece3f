------------------------------ MODULE MCClient ------------------------------
(***************************************************************************)
(* Client for TLC. The handles are interchangeable, so the safety runs may *)
(* use symmetry; the liveness runs do not.                                 *)
(***************************************************************************)
EXTENDS Client, TLC

Handles == Permutations(Node)
=============================================================================
