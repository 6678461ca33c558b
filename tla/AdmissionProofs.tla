--------------------------- MODULE AdmissionProofs ---------------------------
(***************************************************************************)
(* Proofs about Admission: it uses the limiter as RateLimiter has it, so   *)
(* what is proved there carries over, and bounds what reaches the workers. *)
(***************************************************************************)
EXTENDS Admission, RateLimiterProofs, QuietWindowProofs, FunctionTheorems

USE LimitAssumption, DayAssumption, UnsetAssumption, SlipAssumption

-----------------------------------------------------------------------------
\* A step of produce is a step of the limiter, or none of its business.
LEMMA LimiterStep == [AdmissionNext]_admissionVars => [Next]_vars
<1>. SUFFICES ASSUME AdmissionNext PROVE [Next]_vars
  BY DEF admissionVars
<1>1. CASE Pass
  BY <1>1 DEF Pass, Next
<1>2. ASSUME NEW c \in Call, Consume(c) PROVE Next
  BY <1>2 DEF Consume, Next
<1>3. ASSUME NEW c \in Call, Check(c) \/ Reject(c) \/ Add(c) PROVE UNCHANGED vars
  BY <1>3 DEF Check, Reject, Add
<1>. QED BY <1>1, <1>2, <1>3 DEF AdmissionNext

\* produce uses the limiter as RateLimiter specifies it.
THEOREM ImplementsRateLimiter == AdmissionSpec => Spec
<1>1. AdmissionInit => Init
  BY DEF AdmissionInit
<1>. QED BY <1>1, LimiterStep, PTL DEF AdmissionSpec, Spec

-----------------------------------------------------------------------------
(* How long a call may be at which step.                                   *)

Timely ==
  \A c \in Call :
    /\ job[c] # "none" => state[c] = "allowed"
    /\ (job[c] = "none" /\ state[c] = "allowed") => clock <= stamp[c] + Lag + MaxSlip
    /\ job[c] = "checked" =>
         /\ stamp[c] <= checkedAt[c] /\ checkedAt[c] <= stamp[c] + Lag + MaxSlip
         /\ checkedAt[c] <= clock /\ clock <= checkedAt[c] + MaxSlip
    /\ (job[c] = "added" /\ delay[c] = 0) => stamp[c] <= due[c] /\ due[c] <= stamp[c] + Slow

AdmissionInvariant == Invariant /\ AdmissionTypeOK /\ Timely

\* The limiter's invariant and Timely hold before any call.
LEMMA AdmissionInitInvariant == AdmissionInit => AdmissionInvariant
<1>. SUFFICES ASSUME AdmissionInit PROVE AdmissionInvariant
  OBVIOUS
<1>1. Invariant
  BY InitInvariant DEF AdmissionInit
<1>2. AdmissionTypeOK
  BY <1>1, WindowsAssumption DEF AdmissionInit, AdmissionTypeOK, Second, Time, Invariant
<1>3. Timely
  BY DEF AdmissionInit, Init, Timely
<1>. QED BY <1>1, <1>2, <1>3 DEF AdmissionInvariant

\* Every step preserves them.
LEMMA AdmissionNextInvariant ==
  AdmissionInvariant /\ [AdmissionNext]_admissionVars => AdmissionInvariant'
<1>. SUFFICES ASSUME AdmissionInvariant, [AdmissionNext]_admissionVars PROVE AdmissionInvariant'
  OBVIOUS
<1>1. Invariant'
  BY LimiterStep, NextInvariant DEF AdmissionInvariant
<1>. SUFFICES AdmissionTypeOK' /\ Timely'
  BY <1>1 DEF AdmissionInvariant
<1>0. /\ clock \in Nat /\ clock' \in Nat /\ Lag \in Nat /\ MaxSlip \in Nat
      /\ stamp \in [Call -> Time] /\ checkedAt \in [Call -> Time] /\ Time \subseteq Nat
      /\ AdmissionTypeOK /\ Timely /\ Invariant /\ TypeOK
  BY <1>1 DEF AdmissionInvariant, AdmissionTypeOK, Invariant, TypeOK, Time
<1>a. ASSUME NEW d \in Call
      PROVE  /\ stamp[d] \in Nat /\ checkedAt[d] \in Nat /\ due[d] \in Nat /\ delay[d] \in Nat
             /\ Slow \in Nat /\ Slow = Lag + 2 * MaxSlip
  <2>1. stamp[d] \in Time /\ checkedAt[d] \in Time /\ due[d] \in 0 .. Horizon + Day /\ delay[d] \in 0 .. Day - 1
    BY <1>0 DEF AdmissionTypeOK, Second
  <2>2. Slow \in Nat /\ Slow = Lag + 2 * MaxSlip
    BY DEF Slow
  <2>3. stamp[d] \in Nat /\ checkedAt[d] \in Nat
    BY <2>1 DEF Time
  <2>4. due[d] \in Nat /\ delay[d] \in Nat
    BY <2>1
  <2>. QED BY <2>2, <2>3, <2>4
<1>2. ASSUME NEW c \in Call, Consume(c) PROVE AdmissionTypeOK' /\ Timely'
  <2>1. AdmissionTypeOK'
    BY <1>0, <1>1, <1>2 DEF AdmissionTypeOK, Consume, jobs, hours, Invariant
  <2>2. UNCHANGED <<job, delay, checkedAt, due, clock>>
    BY <1>2 DEF Consume, jobs, Stamp, Allow, Deny, Fail
  <2>3. ASSUME NEW d \in Call, job[d] # "none"
        PROVE  d # c /\ state'[d] = state[d] /\ stamp'[d] = stamp[d]
    BY <1>0, <1>2, <2>3 DEF Consume, Stamp, Allow, Deny, Fail, Timely, TypeOK
  <2>4. ASSUME NEW d \in Call, state'[d] = "allowed"
        PROVE  stamp'[d] = stamp[d] /\ (state[d] = "allowed" \/ (state[d] = "stamped" /\ clock <= stamp[d] + Lag))
    BY <1>0, <1>2, <2>4 DEF Consume, Stamp, Allow, Deny, Fail, TypeOK, Invariant, StampsRecent
  <2>5. ASSUME NEW d \in Call, job[d] = "none", state'[d] = "allowed"
        PROVE  clock <= stamp'[d] + Lag + MaxSlip
    BY <1>0, <1>a, <2>4, <2>5 DEF Timely
  <2>6. Timely'
    BY <1>0, <2>2, <2>3, <2>5 DEF Timely, Slow
  <2>. QED BY <2>1, <2>6
<1>3. ASSUME NEW c \in Call, Check(c) PROVE AdmissionTypeOK' /\ Timely'
  <2>1. QuietHoursDelay(now, start, end) \in Second
    <3>1. now \in Second /\ start \in Second \cup {Unset} /\ end \in Second \cup {Unset}
      BY <1>0 DEF AdmissionTypeOK
    <3>. QED BY <3>1, DelayBounds DEF Second
  <2>2. AdmissionTypeOK'
    BY <1>0, <1>1, <1>3, <2>1 DEF AdmissionTypeOK, Check, hours, Invariant, TypeOK
  <2>3. Timely'
    BY <1>0, <1>3 DEF Timely, Check, vars, AdmissionTypeOK, Invariant, StampsRecent, Slow
  <2>. QED BY <2>2, <2>3
<1>4. ASSUME NEW c \in Call, Reject(c) PROVE AdmissionTypeOK' /\ Timely'
  <2>1. 0 \in Second /\ 0 \in Time
    BY DEF Second, Time
  <2>2. AdmissionTypeOK'
    BY <1>0, <1>1, <1>4, <2>1 DEF AdmissionTypeOK, Reject, vars, hours, Invariant
  <2>3. /\ UNCHANGED <<clock, state, stamp, due>> /\ job'[c] = "rejected" /\ state[c] = "allowed"
        /\ \A d \in Call \ {c} : job'[d] = job[d] /\ delay'[d] = delay[d] /\ checkedAt'[d] = checkedAt[d]
    BY <1>0, <1>4 DEF AdmissionTypeOK, Reject, vars
  <2>4. Timely'
    BY <1>0, <2>3 DEF Timely, Slow
  <2>. QED BY <2>2, <2>4
<1>5. ASSUME NEW c \in Call, Add(c) PROVE AdmissionTypeOK' /\ Timely'
  <2>1. clock + delay[c] \in 0 .. Horizon + Day
    BY <1>0 DEF TypeOK, AdmissionTypeOK, Time, Second
  <2>2. AdmissionTypeOK'
    BY <1>0, <1>1, <1>5, <2>1 DEF AdmissionTypeOK, Add, hours, Invariant
  <2>3. delay[c] = 0 => stamp[c] <= clock + delay[c] /\ clock + delay[c] <= stamp[c] + Slow
    <3>1. stamp[c] <= checkedAt[c] /\ checkedAt[c] <= stamp[c] + Lag + MaxSlip
      BY <1>5 , <1>0 DEF Timely, Add
    <3>2. checkedAt[c] <= clock /\ clock <= checkedAt[c] + MaxSlip
      BY <1>5, <1>0 DEF Timely, Add
    <3>. QED BY <1>0, <1>a, <3>1, <3>2
  <2>4. Timely'
    BY <1>0, <1>5, <2>3 DEF Timely, Add, vars, AdmissionTypeOK
  <2>. QED BY <2>2, <2>4
<1>6. CASE Pass
  <2>1. AdmissionTypeOK'
    <3>1. now' \in Second
      BY <1>0, <1>6 DEF AdmissionTypeOK, Pass, Later, Second
    <3>. QED BY <1>0, <1>1, <1>6, <3>1 DEF AdmissionTypeOK, Pass, jobs, hours, Invariant
  <2>2. Timely'
    <3>1. /\ clock' = clock + 1 /\ UNCHANGED <<state, stamp, job, delay, checkedAt, due>>
          /\ \A c \in Call :
               /\ (state[c] = "allowed" /\ job[c] = "none") => clock < stamp[c] + Lag + MaxSlip
               /\ job[c] = "checked" => clock < checkedAt[c] + MaxSlip
      BY <1>6 DEF Pass, Tick, jobs
    <3>. SUFFICES ASSUME NEW c \in Call
                  PROVE  /\ job[c] # "none" => state[c] = "allowed"
                         /\ (job[c] = "none" /\ state[c] = "allowed") =>
                              clock + 1 <= stamp[c] + Lag + MaxSlip
                         /\ job[c] = "checked" =>
                              /\ stamp[c] <= checkedAt[c] /\ checkedAt[c] <= stamp[c] + Lag + MaxSlip
                              /\ checkedAt[c] <= clock + 1 /\ clock + 1 <= checkedAt[c] + MaxSlip
                         /\ (job[c] = "added" /\ delay[c] = 0) =>
                              stamp[c] <= due[c] /\ due[c] <= stamp[c] + Slow
      BY <3>1 DEF Timely, Slow
    <3>. QED BY <1>0, <1>a, <3>1 DEF Timely
  <2>. QED BY <2>1, <2>2
<1>7. CASE UNCHANGED admissionVars
  <2>1. UNCHANGED <<clock, state, stamp, job, delay, checkedAt, due, start, end, now>>
    BY <1>7 DEF admissionVars, vars, jobs, hours
  <2>2. Timely'
    BY <1>0, <2>1 DEF Timely, Slow
  <2>. QED BY <1>0, <1>1, <2>1, <2>2 DEF AdmissionTypeOK, Invariant
<1>8. CASE AdmissionNext
  BY <1>2, <1>3, <1>4, <1>5, <1>6, <1>8 DEF AdmissionNext
<1>. QED BY <1>7, <1>8

\* The invariant of the composition: the limiter's own, and the bounds on how
\* long a call may be at each step.
THEOREM AdmissionInvariantHolds == AdmissionSpec => []AdmissionInvariant
  BY AdmissionInitInvariant, AdmissionNextInvariant, PTL DEF AdmissionSpec

\* The variables keep their types.
THEOREM AdmissionTypeCorrect == AdmissionSpec => []AdmissionTypeOK
<1>1. AdmissionInvariant => AdmissionTypeOK
  BY DEF AdmissionInvariant
<1>. QED BY <1>1, AdmissionInvariantHolds, PTL

\* What reaches the workers without a delay keeps the limit, up to the sharing of
\* milliseconds, in every span that is shorter than the window by what produce may
\* take: it was charged in a span that is no longer than the window less the lag.
THEOREM UndelayedRateHolds ==
  ASSUME IsFiniteSet(Call)
  PROVE  AdmissionSpec => []UndelayedRate
<1>1. AdmissionInvariant => UndelayedRate
  <2>. SUFFICES ASSUME AdmissionInvariant, Window > Lag + Slow, NEW k \in Nat, SharedBy(k),
                       NEW t \in Time
                PROVE  Cardinality(UndelayedIn(t, Window - Lag - Slow)) <= k * Max
    BY DEF UndelayedRate
  <2>. DEFINE U == UndelayedIn(t, Window - Lag - Slow)
              S == {stamp[c] : c \in U}
  <2>0. /\ stamp \in [Call -> Time] /\ Timely /\ WindowBound /\ Time \subseteq Int
        /\ due \in [Call -> 0 .. Horizon + Day] /\ Slow \in Nat /\ TypeOK /\ Max \in Nat
    BY DEF AdmissionInvariant, AdmissionTypeOK, Invariant, TypeOK, Time, Slow
  <2>1. U \in SUBSET Allowed /\ S \subseteq ChargedIn(t, Window - Lag)
    <3>. SUFFICES ASSUME NEW c \in U
                  PROVE  c \in Allowed /\ stamp[c] \in ChargedIn(t, Window - Lag)
      OBVIOUS
    <3>1. c \in Added /\ delay[c] = 0 /\ t - (Window - Lag - Slow) < due[c] /\ due[c] <= t
      BY DEF UndelayedIn
    <3>2. c \in Allowed /\ stamp[c] <= due[c] /\ due[c] <= stamp[c] + Slow
      BY <2>0, <3>1 DEF Added, Allowed, Timely
    <3>3. stamp[c] \in Int /\ due[c] \in Int /\ t \in Int
      BY <2>0, <3>1 DEF Added
    <3>4. t - (Window - Lag) < stamp[c] /\ stamp[c] <= t
      BY <2>0, <3>1, <3>2, <3>3
    <3>. QED BY <3>2, <3>4 DEF ChargedIn, AllowedStamps
  <2>2. ChargedIn(t, Window - Lag) \subseteq Time
    BY <2>0 DEF ChargedIn, AllowedStamps, Allowed
  <2>3. Cardinality(ChargedIn(t, Window - Lag)) <= Max
    BY <2>0 DEF WindowBound
  <2>. HIDE DEF U
  <2>4. Cardinality(S) <= Max
    <3>. HIDE DEF S
    <3>. QED BY <2>0, <2>1, <2>2, <2>3, TimesFinite
  <2>5. Cardinality(U) <= k * Max
    BY <2>0, <2>1, <2>4, CallsByStamps
  <2>. QED BY <2>5 DEF U
<1>. QED BY <1>1, AdmissionInvariantHolds, PTL

-----------------------------------------------------------------------------
(* Quiet hours keep the order.                                             *)

\* When a job is planned to reach the workers.
Planned(c) == checkedAt[c] + delay[c]

Checked == {c \in Call : job[c] \in {"checked", "added"}}

\* Who is checked now is not planned before anyone who was checked already; and a
\* job is added within the slip of its check.
Ordered ==
  /\ \A c \in Checked : checkedAt[c] <= clock /\ Planned(c) <= clock + QuietHoursDelay(now, start, end)
  /\ \A c, d \in Checked : checkedAt[c] < checkedAt[d] => Planned(c) <= Planned(d)
  /\ \A c \in Added : Planned(c) <= due[c] /\ due[c] <= Planned(c) + MaxSlip

\* Every step preserves the order of the due times.
LEMMA OrderedNext ==
  ASSUME AdmissionInvariant, Ordered, [AdmissionNext]_admissionVars
  PROVE  Ordered'
<1>. DEFINE q == QuietHoursDelay(now, start, end)
<1>0. /\ clock \in Nat /\ MaxSlip \in Nat /\ now \in Second
      /\ start \in Second \cup {Unset} /\ end \in Second \cup {Unset}
      /\ job \in [Call -> {"none", "checked", "added", "rejected"}]
      /\ delay \in [Call -> 0 .. Day - 1] /\ checkedAt \in [Call -> Time]
      /\ due \in [Call -> 0 .. Horizon + Day] /\ Time \subseteq Nat
  BY DEF AdmissionInvariant, AdmissionTypeOK, TypeOK, Time, Second
<1>1. q \in Nat /\ QuietHoursDelay(Later(now, 1), start, end) \in Nat
      /\ q <= QuietHoursDelay(Later(now, 1), start, end) + 1
  BY <1>0, DelayNotOvertaken
<1>2. \A c \in Call : checkedAt[c] \in Nat /\ delay[c] \in Nat /\ due[c] \in Nat /\ Planned(c) \in Nat
  <2>. TAKE c \in Call
  <2>1. checkedAt[c] \in Time /\ delay[c] \in 0 .. Day - 1 /\ due[c] \in 0 .. Horizon + Day
    BY <1>0
  <2>2. checkedAt[c] \in Nat
    BY <2>1 DEF Time
  <2>3. delay[c] \in Nat /\ due[c] \in Nat
    BY <2>1
  <2>. QED BY <2>2, <2>3 DEF Planned
<1>3. ASSUME NEW c \in Call, Consume(c) PROVE Ordered'
  BY <1>3 DEF Consume, Stamp, Allow, Deny, Fail, jobs, hours, Ordered, Checked, Added, Planned
<1>4. ASSUME NEW c \in Call, Check(c) PROVE Ordered'
  <2>1. /\ UNCHANGED <<clock, now, start, end, due>> /\ c \notin Checked /\ Checked' = Checked \cup {c}
        /\ Added' = Added
    BY <1>0, <1>4 DEF Check, vars, hours, Checked, Added
  <2>2. checkedAt'[c] = clock /\ Planned(c)' = clock + q
    BY <1>0, <1>4 DEF Check, Planned
  <2>3. \A d \in Checked : checkedAt'[d] = checkedAt[d] /\ Planned(d)' = Planned(d)
    BY <1>0, <1>4, <2>1 DEF Check, Planned, Checked
  <2>4. Checked \subseteq Call /\ Added \subseteq Checked
    BY DEF Checked, Added
  <2>. HIDE DEF q
  <2>. QED BY <1>0, <1>1, <1>2, <2>1, <2>2, <2>3, <2>4 DEF Ordered, q
<1>5. ASSUME NEW c \in Call, Reject(c) PROVE Ordered'
  <2>1. /\ UNCHANGED <<clock, now, start, end, due>> /\ Checked' \subseteq Checked
        /\ Added' \subseteq Added /\ Added \subseteq Checked
    BY <1>0, <1>5 DEF Reject, vars, hours, Checked, Added
  <2>2. \A d \in Checked' : d \in Call /\ delay'[d] = delay[d] /\ checkedAt'[d] = checkedAt[d]
    BY <1>0, <1>5 DEF Reject, Checked
  <2>3. Added' \subseteq Checked'
    BY DEF Added, Checked
  <2>. QED BY <2>1, <2>2, <2>3 DEF Ordered, Planned
<1>6. ASSUME NEW c \in Call, Add(c) PROVE Ordered'
  <2>1. /\ UNCHANGED <<clock, now, start, end, delay, checkedAt>> /\ Checked' = Checked
        /\ Added' = Added \cup {c} /\ c \in Checked /\ Added \subseteq Call
        /\ \A d \in Added : due'[d] = due[d]
    BY <1>0, <1>6 DEF Add, vars, hours, Checked, Added
  <2>2. due'[c] = clock + delay[c] /\ checkedAt[c] <= clock /\ clock <= checkedAt[c] + MaxSlip
    BY <1>0, <1>6 DEF Add, AdmissionInvariant, Timely
  <2>3. Planned(c) <= due'[c] /\ due'[c] <= Planned(c) + MaxSlip
    BY <1>0, <1>2, <2>2 DEF Planned
  <2>. QED BY <2>1, <2>3 DEF Ordered, Planned
<1>7. CASE Pass
  <2>1. clock' = clock + 1 /\ now' = Later(now, 1) /\ UNCHANGED <<job, delay, checkedAt, due, start, end>>
    BY <1>7 DEF Pass, Tick, jobs, hours
  <2>2. Checked' = Checked /\ Added' = Added /\ \A c \in Call : Planned(c)' = Planned(c)
    BY <2>1 DEF Checked, Added, Planned
  <2>3. QuietHoursDelay(now, start, end)' = QuietHoursDelay(Later(now, 1), start, end)
    BY <2>1
  <2>4. Checked \subseteq Call /\ Added \subseteq Call
    BY DEF Checked, Added
  <2>. HIDE DEF q
  <2>. QED BY <1>0, <1>1, <1>2, <2>1, <2>2, <2>3, <2>4 DEF Ordered, q
<1>8. CASE UNCHANGED admissionVars
  BY <1>8 DEF admissionVars, vars, jobs, hours, Ordered, Checked, Added, Planned
<1>. QED BY <1>3, <1>4, <1>5, <1>6, <1>7, <1>8 DEF AdmissionNext

\* So the due times are planned in the order of the checks.
LEMMA OrderInvariantHolds == AdmissionSpec => []Ordered
<1>1. AdmissionInit => Ordered
  BY DEF AdmissionInit, Ordered, Checked, Added
<1>. QED BY <1>1, OrderedNext, AdmissionInvariantHolds, PTL DEF AdmissionSpec

\* Notifications keep their order through quiet hours, up to the slip.
THEOREM OrderIsKept == AdmissionSpec => []OrderKept
<1>2. AdmissionInvariant /\ Ordered => OrderKept
  <2>. SUFFICES ASSUME AdmissionInvariant, Ordered, NEW c \in Added, NEW d \in Added,
                       checkedAt[c] < checkedAt[d]
                PROVE  due[c] <= due[d] + MaxSlip
    BY DEF OrderKept
  <2>1. Planned(c) <= Planned(d) /\ due[c] <= Planned(c) + MaxSlip /\ Planned(d) <= due[d]
    BY DEF Ordered, Checked, Added
  <2>2. Planned(c) \in Nat /\ Planned(d) \in Nat /\ due[c] \in Nat /\ due[d] \in Nat /\ MaxSlip \in Nat
    BY DEF AdmissionInvariant, AdmissionTypeOK, Planned, Added, Time, Second
  <2>. QED BY <2>1, <2>2
<1>. QED BY <1>2, OrderInvariantHolds, AdmissionInvariantHolds, PTL

-----------------------------------------------------------------------------
(* What quiet hours hold back.                                             *)

\* Division, as the place of a number among the multiples of the divisor.
LEMMA Divided ==
  ASSUME NEW a \in Nat, NEW w \in Nat \ {0}
  PROVE  a \div w \in Nat /\ (a \div w) * w <= a /\ a < (a \div w) * w + w
  OBVIOUS

\* Dividing by a positive number keeps the order.
LEMMA DividedInOrder ==
  ASSUME NEW a \in Nat, NEW b \in Nat, a <= b, NEW w \in Nat \ {0}
  PROVE  a \div w <= b \div w
<1>1. ASSUME NEW x \in Nat, NEW y \in Nat, y < x PROVE y * w + w <= x * w
  <2>1. PICK d \in Nat : x = y + 1 + d
    <3>1. x - y - 1 \in Nat /\ x = y + 1 + (x - y - 1)
      BY <1>1
    <3>. QED BY <3>1
  <2>2. x * w = y * w + w + d * w /\ d * w \in Nat
    BY <2>1
  <2>. QED BY <2>2
<1>2. a \div w \in Nat /\ b \div w \in Nat /\ (a \div w) * w <= a /\ b < (b \div w) * w + w
  BY Divided
<1>. SUFFICES ASSUME b \div w < a \div w PROVE FALSE
  BY <1>2
<1>3. (b \div w) * w + w <= (a \div w) * w
  BY <1>1, <1>2
<1>. QED BY <1>2, <1>3

\* No delay is longer than the window it waits for.
LEMMA DelayWithinWindow ==
  ASSUME AdmissionTypeOK, NEW s \in Second
  PROVE  QuietLength \in Nat /\ QuietHoursDelay(s, start, end) <= QuietLength
  BY DEF AdmissionTypeOK, QuietLength, QuietHoursDelay, SecsUntilEnd, Quiet, InWindow, HasWindow, Second

\* A call is checked soon after its stamp, and held back no longer than quiet
\* hours last.
HeldBriefly ==
  \A c \in Checked : /\ stamp[c] <= checkedAt[c] /\ checkedAt[c] <= stamp[c] + Lag + MaxSlip
                     /\ delay[c] <= QuietLength

\* Every step preserves HeldBriefly.
LEMMA HeldBrieflyNext ==
  ASSUME AdmissionInvariant, HeldBriefly, [AdmissionNext]_admissionVars
  PROVE  HeldBriefly'
<1>0. /\ AdmissionTypeOK /\ Timely /\ Invariant /\ TypeOK /\ clock \in Nat /\ now \in Second
      /\ Lag \in Nat /\ MaxSlip \in Nat /\ stamp \in [Call -> Time] /\ Time \subseteq Nat
      /\ job \in [Call -> {"none", "checked", "added", "rejected"}]
      /\ delay \in [Call -> Second] /\ checkedAt \in [Call -> Time]
  BY DEF AdmissionInvariant, AdmissionTypeOK, Invariant, TypeOK, Time
<1>1. ASSUME NEW c \in Call, Consume(c) PROVE HeldBriefly'
  <2>1. UNCHANGED <<job, delay, checkedAt, start, end>>
    BY <1>1 DEF Consume, jobs, hours
  <2>2. \A d \in Checked : stamp'[d] = stamp[d]
    BY <1>0, <1>1 DEF Consume, Stamp, Allow, Deny, Fail, Timely, Checked
  <2>. QED BY <2>1, <2>2 DEF HeldBriefly, Checked, QuietLength
<1>2. ASSUME NEW c \in Call, Check(c) PROVE HeldBriefly'
  <2>1. /\ UNCHANGED <<stamp, start, end>> /\ Checked' = Checked \cup {c}
        /\ \A d \in Checked : checkedAt'[d] = checkedAt[d] /\ delay'[d] = delay[d]
    BY <1>0, <1>2 DEF Check, vars, hours, Checked
  <2>2. /\ checkedAt'[c] = clock /\ delay'[c] = QuietHoursDelay(now, start, end)
        /\ state[c] = "allowed" /\ job[c] = "none"
    BY <1>0, <1>2 DEF Check
  <2>3. stamp[c] <= clock /\ clock <= stamp[c] + Lag + MaxSlip
    BY <1>0, <2>2 DEF Timely, Invariant, StampsRecent
  <2>4. QuietHoursDelay(now, start, end) <= QuietLength
    BY <1>0, DelayWithinWindow
  <2>. QED BY <2>1, <2>2, <2>3, <2>4 DEF HeldBriefly, QuietLength
<1>3. ASSUME NEW c \in Call, Reject(c) \/ Add(c) PROVE HeldBriefly'
  BY <1>0, <1>3 DEF Reject, Add, vars, hours, HeldBriefly, Checked, QuietLength
<1>4. CASE Pass
  BY <1>4 DEF Pass, Tick, jobs, hours, HeldBriefly, Checked, QuietLength
<1>5. CASE UNCHANGED admissionVars
  BY <1>5 DEF admissionVars, vars, jobs, hours, HeldBriefly, Checked, QuietLength
<1>. QED BY <1>1, <1>2, <1>3, <1>4, <1>5 DEF AdmissionNext

\* The limiter's bound, for windows that end outside the horizon as well.
LEMMA AnyWindow ==
  ASSUME AdmissionInvariant, Window > Lag, NEW e \in Int
  PROVE  /\ IsFiniteSet(ChargedIn(e, Window - Lag))
         /\ Cardinality(ChargedIn(e, Window - Lag)) <= Max
<1>. DEFINE w == Window - Lag
<1>1. AllowedStamps \subseteq Time /\ WindowBound
  BY DEF AdmissionInvariant, Invariant, TypeOK, AllowedStamps, Allowed
<1>2. \A u \in Int : ChargedIn(u, w) \subseteq Time
  BY <1>1 DEF ChargedIn
<1>. HIDE DEF w
<1>a. w \in Nat /\ \A s \in AllowedStamps : s \in Int /\ 0 <= s /\ s <= Horizon
  BY <1>1 DEF Time, w
<1>3. \A u \in Time : Cardinality(ChargedIn(u, w)) <= Max
  BY <1>1 DEF WindowBound, w
<1>4. CASE e \in Time
  BY <1>2, <1>3, <1>4, TimesFinite DEF w
<1>5. CASE e > Horizon
  <2>1. Horizon \in Time /\ Horizon \in Int
    BY DEF Time
  <2>2. ChargedIn(e, w) \subseteq ChargedIn(Horizon, w)
    BY <1>a, <1>5, <2>1 DEF ChargedIn
  <2>3. ChargedIn(Horizon, w) \in SUBSET Time /\ Cardinality(ChargedIn(Horizon, w)) <= Max
    BY <1>2, <1>3, <2>1
  <2>. QED BY <2>2, <2>3, TimesFinite DEF w
<1>6. CASE e < 0
  <2>1. ChargedIn(e, w) = {}
    BY <1>a, <1>6 DEF ChargedIn
  <2>. QED BY <2>1, FS_EmptySet DEF w
<1>. QED BY <1>4, <1>5, <1>6 DEF Time

\* What reaches the workers at one moment is no more than the limit let through
\* in the windows that cover the user's quiet hours and produce's own time, times
\* the number of calls that share a millisecond.
THEOREM BurstIsBounded ==
  ASSUME IsFiniteSet(Call)
  PROVE  AdmissionSpec => []BurstBound
<1>1. AdmissionInit => HeldBriefly
  BY DEF AdmissionInit, HeldBriefly, Checked
<1>2. AdmissionInvariant /\ Ordered /\ HeldBriefly => BurstBound
  <2>. SUFFICES ASSUME AdmissionInvariant, Ordered, HeldBriefly, Window > Lag,
                       NEW k \in Nat, SharedBy(k), NEW t \in 0 .. Horizon + Day
                PROVE  Cardinality({c \in Added : due[c] = t})
                         <= k * (Max * ((QuietLength + Slow) \div (Window - Lag) + 1))
    BY DEF BurstBound
  <2>. DEFINE w == Window - Lag
              a == QuietLength + Slow
              D == {c \in Added : due[c] = t}
              S == {stamp[c] : c \in D}
              part == [s \in S |-> (t - s) \div w]
  <2>0. w \in Nat \ {0} /\ a \in Nat /\ t \in Nat /\ Slow = Lag + 2 * MaxSlip /\ QuietLength \in Nat
    BY DelayWithinWindow DEF Slow, AdmissionInvariant, AdmissionTypeOK
  <2>1. ASSUME NEW s \in S PROVE s \in AllowedStamps /\ s \in Nat /\ t - s \in 0 .. a
    <3>1. PICK c \in Added : due[c] = t /\ s = stamp[c]
      OBVIOUS
    <3>2. c \in Checked /\ c \in Allowed /\ c \in Call
      BY DEF Added, Checked, Allowed, AdmissionInvariant, Timely
    <3>3. stamp[c] \in Nat /\ checkedAt[c] \in Nat /\ delay[c] \in Nat /\ MaxSlip \in Nat
      BY <3>2 DEF AdmissionInvariant, AdmissionTypeOK, TypeOK, Time, Second
    <3>4. /\ stamp[c] <= checkedAt[c] /\ checkedAt[c] <= stamp[c] + Lag + MaxSlip
          /\ delay[c] <= QuietLength
          /\ checkedAt[c] + delay[c] <= t /\ t <= checkedAt[c] + delay[c] + MaxSlip
      BY <3>1, <3>2 DEF HeldBriefly, Ordered, Planned
    <3>5. t - s >= 0 /\ t - s <= a
      BY <2>0, <3>1, <3>3, <3>4
    <3>. QED BY <2>0, <3>1, <3>2, <3>3, <3>5 DEF AllowedStamps
  <2>2. S \subseteq Time /\ D \in SUBSET Allowed /\ TypeOK
    BY DEF Added, Allowed, AdmissionInvariant, AdmissionTypeOK, TypeOK, Timely
  <2>. HIDE DEF w, a, S
  <2>3. \A s \in S : (t - s) \div w \in 0 .. a \div w
    <3>. TAKE s \in S
    <3>1. t - s \in Nat /\ t - s <= a
      BY <2>1, <2>0
    <3>. QED BY <2>0, <3>1, Divided, DividedInOrder
  <2>4. part \in [S -> 0 .. a \div w] /\ a \div w \in Nat
    BY <2>0, <2>3, Divided
  <2>5. ASSUME NEW i \in 0 .. a \div w PROVE Cardinality({s \in S : part[s] = i}) <= Max
    <3>. DEFINE e == t - i * w
    <3>1. i * w \in Int /\ e \in Int
      BY <2>0, <2>4
    <3>2. {s \in S : part[s] = i} \subseteq ChargedIn(e, w)
      <4>. SUFFICES ASSUME NEW s \in S, (t - s) \div w = i PROVE s \in ChargedIn(e, w)
        OBVIOUS
      <4>1. t - s \in Nat /\ s \in Nat /\ s \in AllowedStamps
        BY <2>0, <2>1
      <4>2. i * w <= t - s /\ t - s < i * w + w
        BY <2>0, <4>1, Divided
      <4>. HIDE DEF e
      <4>3. e - w < s /\ s <= e
        BY <2>0, <3>1, <4>1, <4>2 DEF e
      <4>. QED BY <4>1, <4>3 DEF ChargedIn
    <3>3. IsFiniteSet(ChargedIn(e, w)) /\ Cardinality(ChargedIn(e, w)) <= Max
      BY <3>1, AnyWindow DEF w
    <3>. HIDE DEF e
    <3>4. {s \in S : part[s] = i} \in SUBSET ChargedIn(e, w)
      BY <3>2
    <3>5. Cardinality({s \in S : part[s] = i}) <= Cardinality(ChargedIn(e, w))
          /\ Cardinality({s \in S : part[s] = i}) \in Nat /\ Cardinality(ChargedIn(e, w)) \in Nat
      BY <3>3, <3>4, FS_Subset, FS_CardinalityType
    <3>. QED BY <3>3, <3>5
  <2>. HIDE DEF part
  <2>6. Cardinality(S) <= Max * (a \div w + 1)
    <3>1. IsFiniteSet(S) /\ Max \in Nat
      BY <2>2, TimesFinite
    <3>2. IsFiniteSet(0 .. a \div w) /\ Cardinality(0 .. a \div w) = a \div w + 1
      BY <2>4, FS_Interval
    <3>3. Cardinality(S) <= Max * Cardinality(0 .. a \div w)
      BY <3>1, <3>2, <2>4, <2>5, PartsBound
    <3>. QED BY <3>2, <3>3
  <2>7. Max * (a \div w + 1) \in Nat
    BY <2>4
  <2>. HIDE DEF D
  <2>8. Cardinality(D) <= k * (Max * (a \div w + 1))
    BY <2>2, <2>6, <2>7, CallsByStamps DEF S
  <2>. QED BY <2>8 DEF D, a, w
<1>. QED BY <1>1, <1>2, OrderInvariantHolds, HeldBrieflyNext, AdmissionInvariantHolds, PTL DEF AdmissionSpec
=============================================================================
