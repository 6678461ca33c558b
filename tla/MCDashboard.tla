---------------------------- MODULE MCDashboard ----------------------------
(***************************************************************************)
(* Small instances of Dashboard for TLC.                                   *)
(***************************************************************************)
EXTENDS Dashboard, TLC

Symmetry == Permutations(Flight) \cup Permutations(Record) \cup Permutations(User)
=============================================================================
