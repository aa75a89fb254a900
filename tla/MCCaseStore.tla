---------------------------- MODULE MCCaseStore ----------------------------
(* Requests differ in nothing but their names.                             *)
EXTENDS CaseStore, TLC

Interchangeable == Permutations(Requests)
=============================================================================
