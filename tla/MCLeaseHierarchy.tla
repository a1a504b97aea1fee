-------------------------- MODULE MCLeaseHierarchy --------------------------
(***************************************************************************)
(* Instances of LeaseHierarchy for TLC.                                    *)
(***************************************************************************)
EXTENDS LeaseHierarchy, TLC

\* Every rider under one lease, whichever it is.
OneLease == [r \in Riders |-> CHOOSE l \in Leases : TRUE]

\* Riders of one lease are interchangeable, so are cars and calls (safety only).
HierarchySymmetry == Permutations(Cars) \cup Permutations(Riders) \cup Permutations(LeaseProcs)
=============================================================================
