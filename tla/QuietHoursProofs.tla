-------------------------- MODULE QuietHoursProofs --------------------------
(***************************************************************************)
(* Proofs about QuietHours for every length of day, every window, every    *)
(* set of clock changes and every time that rendering and saving may take. *)
(***************************************************************************)
EXTENDS QuietHours, QuietWindowProofs

USE DayAssumption, UnsetAssumption, ShiftAssumption, SlipAssumption

-----------------------------------------------------------------------------
\* Where the wait leads, whatever the clock did meanwhile: to the end of the
\* window, and as far past it as slip and jump say.
OnCourse ==
  /\ phase \in {"checked", "delayed"} /\ drift = 0 =>
       left = QuietHoursDelay(Planned(sec), start, end)
  /\ phase = "checked" /\ left > 0 =>
       end \in Second /\ Later(Planned(sec), left) = Later(end, drift)
  /\ phase = "delayed" =>
       end \in Second /\ Later(Planned(sec), left) = Later(end, drift)
  /\ phase \in {"idle", "checked"} => waited = {}
  /\ phase = "idle" => left = 0 /\ slip = 0 /\ drift = 0
  /\ phase = "released" => left = 0

Invariant ==
  /\ TypeOK
  /\ OnCourse
  /\ DelayStaysRight
  /\ OffByTheSlipOnly
  /\ MissesByTheJump

\* What the types say of the slip, the drift, the delay and the planned clock.
LEMMA Bounds ==
  ASSUME TypeOK
  PROVE  /\ slip \in Second /\ -Day <= -slip /\ -slip <= Day /\ -slip \in Int
         /\ drift \in Int /\ -Day <= drift /\ drift <= Day
         /\ left \in Second
         /\ Planned(sec) \in Second
<1>1. /\ slip \in Second /\ -Day <= -slip /\ -slip <= Day /\ -slip \in Int
      /\ drift \in Int /\ -Day <= drift /\ drift <= Day
  BY DEF TypeOK, Second
<1>. QED BY <1>1, LaterIsSecond DEF TypeOK, Planned

\* The invariant holds before anything has been produced.
LEMMA InitInvariant == Init => Invariant
  BY DEF Init, Invariant, TypeOK, OnCourse, DelayStaysRight, OffByTheSlipOnly, MissesByTheJump,
     Second

\* What time, and a jump of the clock, make of the planned second.
LEMMA PlannedElapses ==
  ASSUME NEW s \in Second, NEW k \in Second
  PROVE  Later(Later(s, 1), -(k + 1)) = Later(s, -k)
  BY DEF Second, Later

\* Moving the clock moves the planned clock by as much.
LEMMA PlannedMoves ==
  ASSUME TypeOK, NEW d \in Int, -Day <= d, d <= Day
  PROVE  Later(Later(sec, d), -slip) = Later(Planned(sec), d)
  BY Bounds, LaterCommutes DEF TypeOK, Planned

\* No shift changes nothing.
LEMMA LaterZero == ASSUME NEW s \in Second PROVE Later(s, 0) = s
  BY DEF Second, Later

\* A shift can be made one second first.
LEMMA LaterOnce ==
  ASSUME NEW s \in Second, NEW d \in Second, d > 0
  PROVE  Later(Later(s, 1), d - 1) = Later(s, d)
  BY DEF Second, Later

\* Every step preserves it.
LEMMA NextInvariant == Invariant /\ [Next]_vars => Invariant'
<1> SUFFICES ASSUME Invariant, [Next]_vars PROVE Invariant'
  OBVIOUS
<1>0. /\ TypeOK /\ OnCourse /\ DelayStaysRight /\ OffByTheSlipOnly /\ MissesByTheJump
      /\ slip \in Second /\ -slip \in Int /\ left \in Second /\ Planned(sec) \in Second
      /\ drift \in Int /\ -Day <= drift /\ drift <= Day
      /\ sec \in Second /\ 0 \in Second
      /\ start \in Second \cup {Unset} /\ end \in Second \cup {Unset}
  BY Bounds DEF Invariant, TypeOK, Second
<1>a. /\ Quiet(Planned(sec), start, end) => QuietHoursDelay(Planned(sec), start, end) \in 1 .. Day - 1
      /\ ~Quiet(Planned(sec), start, end) => QuietHoursDelay(Planned(sec), start, end) = 0
  BY <1>0, DelayBounds
<1>b. (phase # "idle" /\ drift = 0) =>
        /\ left = QuietHoursDelay(Planned(sec), start, end)
        /\ Quiet(Planned(sec), start, end) <=> left # 0
  <2>. DEFINE q == Quiet(Planned(sec), start, end)
              d == QuietHoursDelay(Planned(sec), start, end)
  <2>1. (q => d \in 1 .. Day - 1) /\ (~q => d = 0)
    BY <1>a
  <2>2. (phase # "idle" /\ drift = 0) => left = d
    BY <1>0 DEF DelayStaysRight
  <2>. HIDE DEF q, d
  <2>3. (phase # "idle" /\ drift = 0) => left = d /\ (q <=> left # 0)
    BY <2>1, <2>2
  <2>. QED BY <2>3 DEF q, d
<1>1. CASE Check
  <2>1. slip = 0 /\ drift = 0 /\ waited = {} /\ Planned(sec) = sec
    BY <1>0, <1>1, LaterZero DEF Check, OnCourse, Planned
  <2>2. left' = QuietHoursDelay(sec, start, end) /\ left' \in Second
    BY <1>0, <1>1, DelayBounds DEF Check, TypeOK, Second
  <2>3. left' > 0 => end \in Second /\ Later(sec, left') = end
    BY <1>0, <1>1, <2>2, DelayBounds, DelayLeadsToEnd DEF Check, TypeOK, Quiet, HasWindow
  <2>4. Planned(sec)' = Planned(sec)
    BY <1>1 DEF Check, Planned
  <2>5. left' > 0 => Later(end, 0) = end
    BY <2>3, LaterZero
  <2>6. TypeOK'
    BY <1>0, <1>1, <2>2 DEF Check, TypeOK
  <2>7. OnCourse' /\ DelayStaysRight'
    BY <1>1, <2>1, <2>2, <2>3, <2>4, <2>5 DEF Check, OnCourse, DelayStaysRight, Planned
  <2>8. OffByTheSlipOnly' /\ MissesByTheJump'
    BY <1>1, <2>1 DEF Check, OffByTheSlipOnly, MissesByTheJump
  <2>. QED BY <2>6, <2>7, <2>8 DEF Invariant
<1>2. CASE Elapse
  <2>1. Planned(sec)' = Planned(sec)
    BY <1>0, <1>2, PlannedElapses DEF Elapse, Planned
  <2>2. sec' \in Second /\ slip' \in 0 .. MaxSlip
    BY <1>0, <1>2, LaterIsSecond DEF Elapse, TypeOK, Second
  <2>3. TypeOK'
    BY <1>0, <1>2, <2>2 DEF Elapse, TypeOK
  <2>4. OnCourse' /\ DelayStaysRight'
    BY <1>0, <1>2, <2>1 DEF Elapse, OnCourse, DelayStaysRight
  <2>5. OffByTheSlipOnly' /\ MissesByTheJump'
    BY <1>0, <1>2 DEF Elapse, OnCourse, OffByTheSlipOnly, MissesByTheJump
  <2>. QED BY <2>3, <2>4, <2>5 DEF Invariant
<1>3. CASE Abandon
  <2>1. TypeOK'
    BY <1>0, <1>3 DEF Abandon, TypeOK, Second
  <2>. QED BY <1>0, <1>3, <2>1 DEF Abandon, Invariant, OnCourse, DelayStaysRight, OffByTheSlipOnly,
         MissesByTheJump
<1>4. CASE Add
  <2>1. TypeOK'
    BY <1>0, <1>4 DEF Add, TypeOK
  <2>2. Planned(sec)' = Planned(sec) /\ (phase' = "released" => left = 0)
    BY <1>0, <1>4 DEF Add, Planned, Second
  <2>3. OnCourse' /\ DelayStaysRight'
    BY <1>0, <1>4, <2>2 DEF Add, OnCourse, DelayStaysRight
  <2>4. (phase' = "released" /\ drift = 0) => ~Quiet(Planned(sec), start, end)
    BY <1>b, <1>4, <2>2 DEF Add
  <2>5. OffByTheSlipOnly' /\ MissesByTheJump'
    BY <1>0, <1>4, <2>2, <2>4 DEF Add, OnCourse, OffByTheSlipOnly, MissesByTheJump, Planned
  <2>. QED BY <2>1, <2>3, <2>5 DEF Invariant
<1>5. CASE Wait
  <2>1. Planned(sec)' = Later(Planned(sec), 1)
    BY <1>0, <1>5, PlannedMoves, DayAssumption DEF Wait, Planned
  <2>2. sec' \in Second /\ left' \in Second
    BY <1>0, <1>5, LaterIsSecond DEF Wait, Second
  <2>3. TypeOK'
    BY <1>0, <1>5, <2>2 DEF Wait, TypeOK
  <2>4. Later(Planned(sec)', left') = Later(end, drift)
    BY <1>0, <1>5, <2>1, LaterOnce DEF Wait, OnCourse
  <2>5. drift = 0 => Quiet(Planned(sec), start, end)
    BY <1>0, <1>b, <1>5 DEF Wait, Second
  <2>6. drift = 0 => left' = QuietHoursDelay(Planned(sec)', start, end)
    BY <1>0, <1>b, <1>5, <2>1, <2>5, DelayCountsDown DEF Wait
  <2>7. OnCourse' /\ DelayStaysRight'
    BY <1>0, <1>5, <2>4, <2>6 DEF Wait, OnCourse, DelayStaysRight
  <2>8. OffByTheSlipOnly' /\ MissesByTheJump'
    BY <1>0, <1>5, <2>5 DEF Wait, OffByTheSlipOnly, MissesByTheJump, Planned
  <2>. QED BY <2>3, <2>7, <2>8 DEF Invariant
<1>6. CASE ShiftClock
  <2>1. PICK d \in Shifts : sec' = Later(sec, d) /\ drift' = d
    BY <1>6 DEF ShiftClock
  <2>2. d \in Int /\ -Day < d /\ d < Day /\ sec' \in Second
    BY <1>0, <2>1, LaterIsSecond
  <2>3. Planned(sec)' = Later(Planned(sec), d)
    BY <1>0, <1>6, <2>1, <2>2, PlannedMoves DEF ShiftClock, Planned
  <2>4. d = 0 => sec' = sec /\ Planned(sec)' = Planned(sec)
    BY <1>0, <2>1, <2>3, LaterZero
  <2>5. end \in Second /\ Later(Planned(sec), left) = Later(end, 0) =>
          Later(Planned(sec)', left) = Later(end, d)
    <3>1. Later(Later(Planned(sec), d), left) = Later(Later(Planned(sec), left), d)
      BY <1>0, <2>2, LaterCommutes DEF Second
    <3>. QED BY <2>3, <3>1, LaterZero
  <2>6. TypeOK'
    BY <1>0, <1>6, <2>1, <2>2 DEF ShiftClock, TypeOK
  <2>7. OnCourse' /\ DelayStaysRight'
    BY <1>0, <1>6, <2>1, <2>4, <2>5 DEF ShiftClock, OnCourse, DelayStaysRight
  <2>8. OffByTheSlipOnly' /\ MissesByTheJump'
    BY <1>0, <1>6, <2>1, <2>4 DEF ShiftClock, OffByTheSlipOnly, MissesByTheJump, Planned
  <2>. QED BY <2>6, <2>7, <2>8 DEF Invariant
<1>7. CASE Release
  <2>1. Planned(sec) = Later(end, drift)
    BY <1>0, <1>7, LaterZero DEF Release, OnCourse
  <2>2. sec = Later(Later(end, drift), slip)
    BY <1>0, <2>1, LaterInverse DEF Planned
  <2>3. drift = 0 => ~Quiet(Planned(sec), start, end)
    BY <1>b, <1>7 DEF Release
  <2>4. TypeOK' /\ OnCourse' /\ DelayStaysRight'
    BY <1>0, <1>7 DEF Release, TypeOK, OnCourse, DelayStaysRight, Planned
  <2>5. OffByTheSlipOnly' /\ MissesByTheJump'
    BY <1>0, <1>7, <2>2, <2>3 DEF Release, OffByTheSlipOnly, MissesByTheJump, Planned
  <2>. QED BY <2>4, <2>5 DEF Invariant
<1>8. CASE Idle
  <2>1. sec' \in Second
    BY <1>0, <1>8, LaterIsSecond, DayAssumption DEF Idle
  <2>2. TypeOK'
    BY <1>0, <1>8, <2>1 DEF Idle, TypeOK, Second
  <2>. QED BY <1>8, <2>2 DEF Idle, Invariant, OnCourse, DelayStaysRight, OffByTheSlipOnly,
         MissesByTheJump
<1>9. CASE UNCHANGED vars
  BY <1>0, <1>9 DEF vars, Invariant, TypeOK, OnCourse, DelayStaysRight, OffByTheSlipOnly,
     MissesByTheJump, Planned
<1>. QED BY <1>1, <1>2, <1>3, <1>4, <1>5, <1>6, <1>7, <1>8, <1>9 DEF Next

-----------------------------------------------------------------------------
(* The theorems.                                                           *)

\* The inductive invariant holds throughout.
THEOREM InvariantHolds == Spec => []Invariant
  BY InitInvariant, NextInvariant, PTL DEF Spec

\* The variables keep their types: no delay is negative or reaches a day.
THEOREM TypeCorrect == Spec => []TypeOK
<1>1. Invariant => TypeOK
  BY DEF Invariant
<1>. QED BY <1>1, InvariantHolds, PTL

\* The delay handed to BullMQ stays the delay the code would compute now, but
\* for the time that rendering and saving took.
THEOREM DelayIsRight == Spec => []DelayStaysRight
<1>1. Invariant => DelayStaysRight
  BY DEF Invariant
<1>. QED BY <1>1, InvariantHolds, PTL

\* Unless the wall clock jumps, a release falls into quiet hours, or after their
\* end, by no more than the time between the check and queue.add.
THEOREM QuietHoursHonoured == Spec => []OffByTheSlipOnly
<1>1. Invariant => OffByTheSlipOnly
  BY DEF Invariant
<1>. QED BY <1>1, InvariantHolds, PTL

\* A clock change moves the release by exactly as much.
THEOREM JumpMovesRelease == Spec => []MissesByTheJump
<1>1. Invariant => MissesByTheJump
  BY DEF Invariant
<1>. QED BY <1>1, InvariantHolds, PTL
=============================================================================
