-------------------------- MODULE MCShoppingEvent --------------------------
(***************************************************************************)
(* Instances of ShoppingEvent for TLC.                                     *)
(***************************************************************************)
EXTENDS ShoppingEvent, TLC

\* Cars and calls are interchangeable (safety runs only).
CarCallSymmetry == Permutations(Cars) \cup Permutations(Procs)
=============================================================================
