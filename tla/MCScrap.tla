------------------------------ MODULE MCScrap ------------------------------
(***************************************************************************)
(* Instances of Scrap for TLC.                                             *)
(***************************************************************************)
EXTENDS Scrap, TLC

\* Requests are interchangeable (safety runs only).
ScrapSymmetry == Permutations(ScrapProcs)
=============================================================================
