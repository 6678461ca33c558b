------------------------------ MODULE Handoff ------------------------------
(***************************************************************************)
(* What the back-end promises about a notification, whatever requests,     *)
(* workers, failures and retries come: it is a row first and a job second, *)
(* each at most once; a job always finds its row; nothing is delivered     *)
(* that was not persisted, or said to be sent that was not delivered.      *)
(*                                                                         *)
(* Intake is shown to implement this contract from the side of the API,    *)
(* and Delivery, which takes over from there, from the side of the queue.  *)
(***************************************************************************)
CONSTANT Item        \* the notifications

VARIABLES
  rows,              \* the notifications that have a row in notification_logs
  jobs,              \* those whose job has been added to a queue
  delivered,         \* those a provider has accepted
  claimed            \* those that are said to be sent

vars == <<rows, jobs, delivered, claimed>>

Init == rows = {} /\ jobs = {} /\ delivered = {} /\ claimed = {}

Persist(n) == n \notin rows /\ rows' = rows \cup {n} /\ UNCHANGED <<jobs, delivered, claimed>>

Add(n) == n \in rows \ jobs /\ jobs' = jobs \cup {n} /\ UNCHANGED <<rows, delivered, claimed>>

Deliver(n) == n \in rows /\ delivered' = delivered \cup {n} /\ UNCHANGED <<rows, jobs, claimed>>

Claim(n) == n \in delivered /\ claimed' = claimed \cup {n} /\ UNCHANGED <<rows, jobs, delivered>>

\* A late attempt, a dead-lettering or a retry takes the claim back.
Retract(n) == n \in claimed /\ claimed' = claimed \ {n} /\ UNCHANGED <<rows, jobs, delivered>>

Next == \E n \in Item : Persist(n) \/ Add(n) \/ Deliver(n) \/ Claim(n) \/ Retract(n)

Spec == Init /\ [][Next]_vars
=============================================================================
