------------------------------ MODULE Admission ------------------------------
(***************************************************************************)
(* ProducerService.produce between the rate limit and the queue, for one   *)
(* user and channel: RateLimiter composed with the quiet-hours delay.  The *)
(* limiter charges a notification when it is produced; the workers get it  *)
(* when its delay has elapsed.                                             *)
(*                                                                         *)
(* A tick is a unit of the limiter's window and of the user's day.  The    *)
(* local time is read as in QuietWindow, and does not jump here.           *)
(***************************************************************************)
EXTENDS RateLimiter, QuietWindow

CONSTANTS
  Windows,   \* the windows the user may have set
  MaxSlip    \* bound: how long produce may take from one of its steps to the next

ASSUME SlipAssumption == MaxSlip \in Nat
ASSUME WindowsAssumption == Windows \subseteq (Second \cup {Unset}) \X (Second \cup {Unset})

VARIABLES
  start, end, \* the user's window; the preference does not change here
  now,        \* the user's local second of day
  job,        \* per call: none, checked, added, or given up
  delay,      \* per call: delayMs
  checkedAt, due  \* per call: when delayMs was computed, when the workers get the job

jobs  == <<job, delay, checkedAt, due>>
hours == <<start, end>>
admissionVars == <<vars, jobs, hours, now>>

AdmissionTypeOK ==
  /\ TypeOK
  /\ start \in Second \cup {Unset}
  /\ end \in Second \cup {Unset}
  /\ now \in Second
  /\ job \in [Call -> {"none", "checked", "added", "rejected"}]
  /\ delay \in [Call -> Second]
  /\ checkedAt \in [Call -> Time]
  /\ due \in [Call -> 0 .. Horizon + Day]

AdmissionInit ==
  /\ Init
  /\ \E w \in Windows : start = w[1] /\ end = w[2]
  /\ now \in Second
  /\ job = [c \in Call |-> "none"]
  /\ delay = [c \in Call |-> 0]
  /\ checkedAt = [c \in Call |-> 0]
  /\ due = [c \in Call |-> 0]

\* produce, step 2.
Consume(c) ==
  /\ Stamp(c) \/ Allow(c) \/ Deny(c) \/ Fail(c)
  /\ UNCHANGED <<jobs, hours, now>>

\* produce, step 3: consume has answered, and the delay is computed.
Check(c) ==
  /\ state[c] = "allowed" /\ job[c] = "none"
  /\ job' = [job EXCEPT ![c] = "checked"]
  /\ delay' = [delay EXCEPT ![c] = QuietHoursDelay(now, start, end)]
  /\ checkedAt' = [checkedAt EXCEPT ![c] = clock]
  /\ UNCHANGED <<vars, hours, now, due>>

\* produce rejects with the token spent, and nothing is sent: consume does after its
\* script, as the reply is lost or ZCARD rejects, or render, save or queue.add do.
Reject(c) ==
  /\ state[c] = "allowed" /\ job[c] \in {"none", "checked"}
  /\ job' = [job EXCEPT ![c] = "rejected"]
  /\ delay' = [delay EXCEPT ![c] = 0]
  /\ checkedAt' = [checkedAt EXCEPT ![c] = 0]
  /\ UNCHANGED <<vars, hours, now, due>>

\* produce, step 6: BullMQ counts the delay from here.
Add(c) ==
  /\ job[c] = "checked"
  /\ job' = [job EXCEPT ![c] = "added"]
  /\ due' = [due EXCEPT ![c] = clock + delay[c]]
  /\ UNCHANGED <<vars, hours, now, delay, checkedAt>>

\* Time passes; no call is kept waiting beyond the bounds.
Pass ==
  /\ Tick
  /\ now' = Later(now, 1)
  /\ \A c \in Call :
       /\ (state[c] = "allowed" /\ job[c] = "none") => clock < stamp[c] + Lag + MaxSlip
       /\ job[c] = "checked" => clock < checkedAt[c] + MaxSlip
  /\ UNCHANGED <<jobs, hours>>

AdmissionNext == Pass \/ \E c \in Call : Consume(c) \/ Check(c) \/ Reject(c) \/ Add(c)

AdmissionSpec == AdmissionInit /\ [][AdmissionNext]_admissionVars

-----------------------------------------------------------------------------
Added == {c \in Call : job[c] = "added"}

\* The longest produce may take from the stamp to queue.add.
Slow == Lag + 2 * MaxSlip

\* What was added without a delay and reached the workers in (t - w, t].
UndelayedIn(t, w) == {c \in Added : delay[c] = 0 /\ t - w < due[c] /\ due[c] <= t}

\* Outside quiet hours the limit is one on deliveries too, for calls that do not
\* share a millisecond, and k times the limit if k of them do: so many jobs at
\* most reach the workers in any span shorter than the window by all that produce
\* may take.
UndelayedRate ==
  Window > Lag + Slow =>
    \A k \in 0 .. Cardinality(Call) : SharedBy(k) =>
      \A t \in Time : Cardinality(UndelayedIn(t, Window - Lag - Slow)) <= k * Max

\* The length of the user's quiet hours.
QuietLength ==
  IF ~HasWindow(start, end) THEN 0
  ELSE IF start < end THEN end - start ELSE Day - start + end

\* What quiet hours hold back arrives at once, at the end; but these jobs are no
\* more than the limit allows for each of the windows that cover them, times the
\* number of calls that share a millisecond.
BurstBound ==
  Window > Lag =>
    \A k \in 0 .. Cardinality(Call) : SharedBy(k) =>
      \A t \in 0 .. Horizon + Day :
        Cardinality({c \in Added : due[c] = t})
          <= k * (Max * ((QuietLength + Slow) \div (Window - Lag) + 1))

\* Quiet hours reorder no two notifications of a user and channel by more than
\* the time from check to queue.add.
OrderKept ==
  \A c, d \in Added : checkedAt[c] < checkedAt[d] => due[c] <= due[d] + MaxSlip
=============================================================================
