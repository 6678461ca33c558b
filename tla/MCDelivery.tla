----------------------------- MODULE MCDelivery -----------------------------
(***************************************************************************)
(* Small instances of Delivery for TLC.                                    *)
(***************************************************************************)
EXTENDS DeliveryProperties, TLC

\* Slots are interchangeable, and so are requests; rows and jobs share names.
Symmetry == Permutations(Proc) \cup Permutations(Retry)
=============================================================================
