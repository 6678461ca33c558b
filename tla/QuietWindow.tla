---------------------------- MODULE QuietWindow ----------------------------
(***************************************************************************)
(* PreferencesService.quietHoursDelayMs as a function of the user's local  *)
(* second of day, as secondsOfDayInTz reads it, and of the window that the *)
(* preference describes.  Delays are counted in seconds.                   *)
(***************************************************************************)
EXTENDS Integers

CONSTANTS
  Day,      \* SECONDS_PER_DAY
  Unset     \* a null quietHoursStart or quietHoursEnd

Second == 0 .. Day - 1

ASSUME DayAssumption == Day \in Nat \ {0}
ASSUME UnsetAssumption == Unset \notin Second

\* The second of day d seconds from s, for -Day <= d <= Day.
Later(s, d) == IF s + d >= Day THEN s + d - Day ELSE IF s + d < 0 THEN s + d + Day ELSE s + d

HasWindow(start, end) == start # Unset /\ end # Unset /\ start # end

InWindow(now, start, end) ==
  IF start < end THEN start <= now /\ now < end ELSE start <= now \/ now < end

\* Mutants of SecsUntilEnd: no wrap past midnight, and always tomorrow's end.
SecsUntilMidnight(now, end) == IF end > now THEN end - now ELSE Day - now
SecsUntilEndTomorrow(now, end) == Day - now + end

SecsUntilEnd(now, end) == IF end > now THEN end - now ELSE Day - now + end

\* The window the preference describes is open at this second of the day.
Quiet(now, start, end) == HasWindow(start, end) /\ InWindow(now, start, end)

QuietHoursDelay(now, start, end) ==
  IF Quiet(now, start, end) THEN SecsUntilEnd(now, end) ELSE 0
=============================================================================
