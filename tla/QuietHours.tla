----------------------------- MODULE QuietHours -----------------------------
(***************************************************************************)
(* Quiet hours: ProducerService.produce asks quietHoursDelayMs for the     *)
(* delay of a notification, renders and saves it, and only then hands the  *)
(* delay to BullMQ, in whose delayed set the job waits.                    *)
(*                                                                         *)
(* The clock is the user's local second of day.  It advances with the      *)
(* job's remaining delay, one for one, except when the user's UTC offset   *)
(* changes (daylight saving): then the wall clock jumps and the delay,     *)
(* already computed, does not.                                             *)
(***************************************************************************)
EXTENDS QuietWindow

CONSTANTS
  Shifts,   \* the jumps the local clock may make; {} where there is no DST
  MaxSlip   \* bound: the seconds from the check of quiet hours to queue.add

ASSUME ShiftAssumption == \A d \in Shifts : d \in Int /\ -Day < d /\ d < Day
ASSUME SlipAssumption == MaxSlip \in Second

VARIABLES
  sec,        \* the user's local second of day
  start, end, \* the user's window; the preference does not change here
  phase,      \* the notification: not produced, checked, delayed, or handed to a worker
  left,       \* the delay, and what BullMQ has left of it
  slip,       \* history: the seconds from the check to queue.add
  waited,     \* history: the local seconds through which the job was held back
  drift       \* history: how far the wall clock jumped since the check

vars == <<sec, start, end, phase, left, slip, waited, drift>>

TypeOK ==
  /\ sec \in Second
  /\ start \in Second \cup {Unset}
  /\ end \in Second \cup {Unset}
  /\ phase \in {"idle", "checked", "delayed", "released"}
  /\ left \in Second
  /\ slip \in 0 .. MaxSlip
  /\ waited \subseteq Second
  /\ drift \in Shifts \cup {0}

Init ==
  /\ sec \in Second
  /\ start \in Second \cup {Unset}
  /\ end \in Second \cup {Unset}
  /\ phase = "idle"
  /\ left = 0
  /\ slip = 0
  /\ waited = {}
  /\ drift = 0

\* produce, step 3.
Check ==
  /\ phase = "idle"
  /\ left' = QuietHoursDelay(sec, start, end)
  /\ phase' = "checked"
  /\ UNCHANGED <<sec, start, end, slip, waited, drift>>

\* A second passes while the template is rendered and the log row is saved.
Elapse ==
  /\ phase = "checked"
  /\ slip < MaxSlip
  /\ sec' = Later(sec, 1)
  /\ slip' = slip + 1
  /\ UNCHANGED <<start, end, phase, left, waited, drift>>

\* One of the two rejects, and produce with it: there is no job.
Abandon ==
  /\ phase = "checked"
  /\ phase' = "idle"
  /\ left' = 0 /\ slip' = 0 /\ drift' = 0
  /\ UNCHANGED <<sec, start, end, waited>>

\* Mutant of Add: a delay no longer than the awaits took is not handed over.
AddElapsed ==
  /\ phase = "checked"
  /\ phase' = IF left > slip THEN "delayed" ELSE "released"
  /\ UNCHANGED <<sec, start, end, left, slip, waited, drift>>

\* produce, step 6: queue.add, with { delay } only when it is positive.
Add ==
  /\ phase = "checked"
  /\ phase' = IF left > 0 THEN "delayed" ELSE "released"
  /\ UNCHANGED <<sec, start, end, left, slip, waited, drift>>

\* A second passes for a job in the delayed set.
Wait ==
  /\ phase = "delayed"
  /\ left > 0
  /\ sec' = Later(sec, 1)
  /\ left' = left - 1
  /\ waited' = waited \cup {sec}
  /\ UNCHANGED <<start, end, phase, slip, drift>>

\* The offset of the user's time zone changes, once per notification.
ShiftClock ==
  /\ phase \in {"checked", "delayed"}
  /\ drift = 0
  /\ \E d \in Shifts : sec' = Later(sec, d) /\ drift' = d
  /\ UNCHANGED <<start, end, phase, left, slip, waited>>

\* BullMQ promotes the job when its delay has elapsed.
Release ==
  /\ phase = "delayed"
  /\ left = 0
  /\ phase' = "released"
  /\ UNCHANGED <<sec, start, end, left, slip, waited, drift>>

\* Time goes on to the next notification.
Idle ==
  /\ phase \in {"idle", "released"}
  /\ sec' = Later(sec, 1)
  /\ phase' = "idle"
  /\ left' = 0 /\ slip' = 0 /\ waited' = {} /\ drift' = 0
  /\ UNCHANGED <<start, end>>

Next == Check \/ Elapse \/ Abandon \/ Add \/ Wait \/ ShiftClock \/ Release \/ Idle

Spec == Init /\ [][Next]_vars

-----------------------------------------------------------------------------
\* What the local clock would show if nothing had come between check and add.
Planned(s) == Later(s, -slip)

\* The delay that is left is the one the code would compute again, but for the
\* time rendering and saving took: it stays right while the clock does not jump.
DelayStaysRight ==
  (phase # "idle" /\ drift = 0) => left = QuietHoursDelay(Planned(sec), start, end)

\* A notification reaches the workers outside the user's quiet hours and is held
\* back in them only, off by the time from the check to queue.add and by no more
\* than that, unless the wall clock jumped (produce, steps 3 and 6).
OffByTheSlipOnly ==
  drift = 0 =>
    /\ phase = "released" => ~Quiet(Planned(sec), start, end)
    /\ \A s \in waited : Quiet(Planned(s), start, end)

\* A job that was held back is released at the end of the window, later by the
\* slip and by the jump of the clock.
MissesByTheJump ==
  (phase = "released" /\ waited # {}) => sec = Later(Later(end, drift), slip)
=============================================================================
