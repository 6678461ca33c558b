----------------------------- MODULE MCAdmission -----------------------------
(***************************************************************************)
(* Admission with interchangeable calls, and windows that are plain, wrap  *)
(* past midnight, or are not set.                                          *)
(***************************************************************************)
EXTENDS Admission, TLC

SomeWindows == {<<2, 5>>, <<4, 1>>, <<Unset, 3>>}

Symmetry == Permutations(Call)
=============================================================================
