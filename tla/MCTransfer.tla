------------------------------ MODULE MCTransfer ------------------------------
(***************************************************************************)
(* Instances of Transfer for TLC.                                          *)
(***************************************************************************)
EXTENDS Transfer, TLC

\* Every rider under one lease, whichever it is.
OneLease == [r \in Riders |-> CHOOSE l \in Leases : TRUE]

\* Cars, riders and processes are interchangeable (safety only).
TransferSymmetry == Permutations(Cars) \cup Permutations(Riders) \cup Permutations(LeaseProcs)
=============================================================================
