------------------------------ MODULE MCIntake ------------------------------
(***************************************************************************)
(* Small instances of Intake: two admins, and an id without a user.        *)
(***************************************************************************)
EXTENDS Intake, TLC

CONSTANTS ann, ben, ghost

TwoAdmins  == {ann, ben}
AllUsers   == {ann, ben, ghost}

Nobody     == [u \in AllUsers |-> 0]
Only(u)    == [Nobody EXCEPT ![u] = 1]

\* No preference yet, or one of the two has opted out.
NoRows     == [u \in AllUsers |-> "none"]
Rows       == {NoRows, [NoRows EXCEPT ![ann] = "out"]}

Symmetry   == Permutations(Put)

\* A broadcast that also names an admin, sends on every path, to the unknown id
\* too, and a batch that names one user twice.
Mixed == {
  [mode |-> "admins", channel |-> "IN_APP", names |-> Only(ann)],
  [mode |-> "send",   channel |-> "SMS",    names |-> Only(ann)],
  [mode |-> "sync",   channel |-> "SMS",    names |-> Only(ann)],
  [mode |-> "sync",   channel |-> "EMAIL",  names |-> Only(ann)],
  [mode |-> "sync",   channel |-> "IN_APP", names |-> Only(ann)],
  [mode |-> "users",  channel |-> "EMAIL",  names |-> [Nobody EXCEPT ![ann] = 2]],
  [mode |-> "send",   channel |-> "EMAIL",  names |-> Only(ghost)]}
=============================================================================
