------------------------- MODULE QuietWindowProofs -------------------------
(***************************************************************************)
(* Lemmas about the quiet-hours window, for every length of day.           *)
(***************************************************************************)
EXTENDS QuietWindow, TLAPS

USE DayAssumption, UnsetAssumption

-----------------------------------------------------------------------------
(* quietHoursDelayMs as a function.                                        *)

\* In quiet hours the delay is positive and under a day; outside it is zero.
THEOREM DelayBounds ==
  ASSUME NEW s \in Second, NEW b \in Second \cup {Unset}, NEW e \in Second \cup {Unset}
  PROVE  /\ Quiet(s, b, e) => QuietHoursDelay(s, b, e) \in 1 .. Day - 1
         /\ ~Quiet(s, b, e) => QuietHoursDelay(s, b, e) = 0
  BY DEF Second, Quiet, HasWindow, InWindow, QuietHoursDelay, SecsUntilEnd

\* A second later the delay is a second less: quietHoursDelayMs counts down to
\* the end of the window, across midnight too.
THEOREM DelayCountsDown ==
  ASSUME NEW s \in Second, NEW b \in Second \cup {Unset}, NEW e \in Second \cup {Unset},
         Quiet(s, b, e)
  PROVE  QuietHoursDelay(Later(s, 1), b, e) = QuietHoursDelay(s, b, e) - 1
  BY DEF Second, Later, Quiet, HasWindow, InWindow, QuietHoursDelay, SecsUntilEnd

\* So who asks later is not let through earlier.
LEMMA DelayNotOvertaken ==
  ASSUME NEW s \in Second, NEW b \in Second \cup {Unset}, NEW e \in Second \cup {Unset}
  PROVE  QuietHoursDelay(s, b, e) \in Nat /\ QuietHoursDelay(Later(s, 1), b, e) \in Nat
         /\ QuietHoursDelay(s, b, e) <= QuietHoursDelay(Later(s, 1), b, e) + 1
<1>1. Later(s, 1) \in Second
  BY DEF Later, Second
<1>2. QuietHoursDelay(s, b, e) \in Nat /\ QuietHoursDelay(Later(s, 1), b, e) \in Nat
  BY <1>1, DelayBounds
<1>. QED BY <1>2, DelayBounds, DelayCountsDown

\* The delay leads to the end of the window, and the end is outside it: the
\* window the code computes is half open.
THEOREM DelayLeadsToEnd ==
  ASSUME NEW s \in Second, NEW b \in Second \cup {Unset}, NEW e \in Second \cup {Unset},
         Quiet(s, b, e)
  PROVE  Later(s, QuietHoursDelay(s, b, e)) = e /\ ~Quiet(e, b, e)
  BY DEF Second, Later, Quiet, HasWindow, InWindow, QuietHoursDelay, SecsUntilEnd

\* Whatever the jump, the local clock shows a second of the day.
LEMMA LaterIsSecond ==
  ASSUME NEW s \in Second, NEW d \in Int, -Day <= d, d <= Day PROVE Later(s, d) \in Second
  BY DEF Second, Later

\* Going back as far as one went forward leads back, and detours may be reordered.
LEMMA LaterInverse ==
  ASSUME NEW s \in Second, NEW d \in Second
  PROVE  Later(Later(s, d), -d) = s /\ Later(Later(s, -d), d) = s
  BY DEF Second, Later

\* Two shifts of the clock may be made in either order.
LEMMA LaterCommutes ==
  ASSUME NEW s \in Second, NEW d \in Int, NEW e \in Int, -Day <= d, d <= Day, -Day <= e, e <= Day
  PROVE  Later(Later(s, d), e) = Later(Later(s, e), d)
  BY DEF Second, Later
=============================================================================
