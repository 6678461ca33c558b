---------------------------- MODULE MCQuietHours ----------------------------
(***************************************************************************)
(* QuietHours on a short day: every window, every starting second.         *)
(***************************************************************************)
EXTENDS QuietHours

\* One unit back or forth: the hour of a daylight-saving change.
OneUnitShifts == {-1, 1}
=============================================================================
