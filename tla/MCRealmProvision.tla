--------------------------- MODULE MCRealmProvision ---------------------------
(***************************************************************************)
(* Instances of RealmProvisionProperties for TLC.                          *)
(***************************************************************************)
EXTENDS RealmProvisionProperties, TLC

CONSTANTS p1, p2

CallerSymmetry == Permutations(Callers)
===============================================================================
