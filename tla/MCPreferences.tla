---------------------------- MODULE MCPreferences ----------------------------
(***************************************************************************)
(* Preferences with a few bodies: a channel the seed provides for, one it  *)
(* does not, with and without a priority, in both orders.                  *)
(***************************************************************************)
EXTENDS Preferences, TLC

It(c, p) == [channel |-> c, prioritised |-> p]

FewBodies == { <<It("EMAIL", TRUE), It("SMS", FALSE)>>,
               <<It("SMS", TRUE), It("EMAIL", FALSE)>> }

OneAndNoOne == {Dev, Ghost}

Symmetry == Permutations(Put) \cup Permutations(Run)
=============================================================================
