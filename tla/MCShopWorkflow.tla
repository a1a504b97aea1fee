--------------------------- MODULE MCShopWorkflow ---------------------------
(***************************************************************************)
(* Instances of ShopWorkflow for TLC.                                      *)
(***************************************************************************)
EXTENDS ShopWorkflow, TLC

Stages == <<"REQUESTED", "ASSIGNED_TO_SHOP", "INBOUND", "INSPECTION", "ESTIMATE_SUBMITTED",
            "ESTIMATE_UNDER_REVIEW", "ESTIMATE_APPROVED", "WORK_AUTHORIZED", "IN_REPAIR",
            "QA_COMPLETE", "FINAL_ESTIMATE_SUBMITTED", "FINAL_ESTIMATE_APPROVED",
            "READY_FOR_RELEASE", "RELEASED">>

\* Clients ask for the next stage they see; what goes back are the reverts.
Forward == [s \in WfStates |-> {Stages[i + 1] : i \in {k \in 1..13 : Stages[k] = s}}]

\* Requests are interchangeable.
WorkflowSymmetry == Permutations(WfProcs)
=============================================================================
