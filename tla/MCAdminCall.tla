---------------------------- MODULE MCAdminCall ----------------------------
(* Runs of every kind of method, and of SetupProducer with one schema. *)
EXTENDS AdminCallProperties
=============================================================================
