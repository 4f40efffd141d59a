----------------------------- MODULE MCCustdClient -----------------------------
(***************************************************************************)
(* Instances of CustdClientProperties for TLC.                             *)
(***************************************************************************)
EXTENDS CustdClientProperties, TLC

CONSTANTS c1, c2, flusher, noCaller

CallerSymmetry == Permutations(Callers)
===============================================================================
