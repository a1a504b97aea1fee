-------------------------- MODULE MCSapIntegration --------------------------
(***************************************************************************)
(* Instances of SapIntegration for TLC.                                    *)
(***************************************************************************)
EXTENDS SapIntegration, TLC

\* Every entity is an invoice, or every one a mileage record.
AllInvoices == [e \in Entities |-> "push_invoice"]
AllMileage == [e \in Entities |-> "push_mileage"]

\* Requests are interchangeable (safety runs only).
SapSymmetry == Permutations(Pushers)
=============================================================================
