---------------------------- MODULE MCWorkflowBatch ----------------------------
(***************************************************************************)
(* Instances of WorkflowBatchProperties for TLC.                           *)
(***************************************************************************)
EXTENDS WorkflowBatchProperties

CONSTANTS k1, k2, k3
===============================================================================
