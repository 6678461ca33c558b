-------------------------- MODULE RateLimiterProofs --------------------------
(***************************************************************************)
(* Proofs about RateLimiter for every limit, window, lag and set of calls. *)
(***************************************************************************)
EXTENDS RateLimiter, FiniteSetTheorems, FunctionTheorems, TLAPS

USE LimitAssumption

-----------------------------------------------------------------------------
(* Sets of timestamps are finite.                                          *)

\* Every set of timestamps has a cardinality, no larger than a superset's.
LEMMA TimesFinite ==
  ASSUME NEW S \in SUBSET Time
  PROVE  /\ IsFiniteSet(S)
         /\ Cardinality(S) \in Nat
         /\ \A T \in SUBSET S : IsFiniteSet(T) /\ Cardinality(T) \in Nat /\ Cardinality(T) <= Cardinality(S)
<1>1. IsFiniteSet(Time)
  BY FS_Interval DEF Time
<1>2. IsFiniteSet(S)
  BY <1>1, FS_Subset
<1>3. ASSUME NEW T \in SUBSET S
      PROVE  IsFiniteSet(T) /\ Cardinality(T) \in Nat /\ Cardinality(T) <= Cardinality(S)
  BY <1>2, FS_Subset, FS_CardinalityType
<1>. QED BY <1>2, <1>3, FS_CardinalityType

-----------------------------------------------------------------------------
(* What the sorted set holds.                                              *)

\* It holds charged milliseconds only, all that are younger than a window, and
\* outlives them.
ZsetFaithful ==
  /\ zset \subseteq AllowedStamps
  /\ \A s \in AllowedStamps : s > clock - Window => s \in Entries

\* Stamps come from the past, from no further than the lag while they wait.
StampsRecent ==
  /\ \A c \in Call : stamp[c] <= clock
  /\ \A c \in Call : state[c] = "stamped" => clock <= stamp[c] + Lag
  /\ \A s \in AllowedStamps : s <= expiry - Window

Invariant == TypeOK /\ ZsetFaithful /\ StampsRecent /\ WindowBound

\* The invariant holds before the first call.
LEMMA InitInvariant == Init => Invariant
<1> SUFFICES ASSUME Init PROVE Invariant
  OBVIOUS
<1>1. AllowedStamps = {}
  BY DEF Init, AllowedStamps, Allowed
<1>2. WindowBound
  BY <1>1, FS_EmptySet DEF WindowBound, ChargedIn
<1>. QED BY <1>1, <1>2 DEF Init, Invariant, TypeOK, ZsetFaithful, StampsRecent, Time, CallState

\* A step that allows no call leaves the charged milliseconds alone.
LEMMA ChargesStay ==
  ASSUME TypeOK, NEW c \in Call,
         \/ state' = state /\ stamp' = stamp
         \/ Stamp(c) \/ Deny(c) \/ Fail(c)
  PROVE  AllowedStamps' = AllowedStamps
  BY DEF TypeOK, AllowedStamps, Allowed, Stamp, Deny, Fail

\* Every step preserves the invariant.  For WindowBound: the span that ends no
\* earlier than a late call's stamp is younger than a window, so all it was
\* charged is still in the set the script counts.
LEMMA NextInvariant == Invariant /\ [Next]_vars => Invariant'
<1> SUFFICES ASSUME Invariant, [Next]_vars PROVE Invariant'
  OBVIOUS
<1> USE DEF Invariant, TypeOK
<1>1. ASSUME NEW c \in Call, Stamp(c) PROVE Invariant'
  <2>1. AllowedStamps' = AllowedStamps
    BY <1>1, ChargesStay
  <2>2. TypeOK' /\ StampsRecent'
    BY <1>1, <2>1 DEF Stamp, StampsRecent, CallState, Time
  <2>3. ZsetFaithful' /\ WindowBound'
    BY <1>1, <2>1 DEF Stamp, ZsetFaithful, Entries, WindowBound, ChargedIn
  <2>. QED BY <2>2, <2>3
<1>2. ASSUME NEW c \in Call, Deny(c) PROVE Invariant'
  <2>1. AllowedStamps' = AllowedStamps
    BY <1>2, ChargesStay
  <2>2. TypeOK' /\ StampsRecent'
    BY <1>2, <2>1 DEF Deny, StampsRecent, CallState, Trimmed, Entries
  <2>3. ZsetFaithful'
    <3>1. zset' = Trimmed(stamp[c]) /\ clock' = clock /\ expiry' = expiry
      BY <1>2 DEF Deny
    <3>2. zset' \subseteq AllowedStamps'
      BY <2>1, <3>1 DEF Trimmed, Entries, ZsetFaithful
    <3>3. ASSUME NEW s \in AllowedStamps, s > clock - Window PROVE s \in Entries'
      <4>1. s \in Entries /\ clock < expiry
        BY <3>3 DEF ZsetFaithful, Entries
      <4>2. stamp[c] \in Nat /\ clock \in Nat /\ s \in Nat /\ stamp[c] <= clock
        BY <4>1 DEF StampsRecent, Time, Entries
      <4>3. s > stamp[c] - Window
        BY <3>3, <4>2
      <4>. QED BY <3>1, <4>1, <4>3 DEF Trimmed, Entries
    <3>. QED BY <2>1, <3>1, <3>2, <3>3 DEF ZsetFaithful
  <2>4. WindowBound'
    BY <2>1 DEF WindowBound, ChargedIn
  <2>. QED BY <2>2, <2>3, <2>4
<1>3. ASSUME NEW c \in Call, Allow(c) PROVE Invariant'
  <2>1. AllowedStamps' = AllowedStamps \cup {stamp[c]}
    BY <1>3 DEF Allow, AllowedStamps, Allowed
  <2>2. AllowedStamps \subseteq Time /\ stamp[c] \in Time
    BY DEF AllowedStamps, Allowed
  <2>3. Trimmed(stamp[c]) \subseteq Time
    BY DEF Trimmed, Entries
  <2>4. TypeOK'
    BY <1>3, <2>3 DEF Allow, CallState, Time
  <2>5. StampsRecent'
    BY <1>3, <2>1, <2>2 DEF Allow, StampsRecent, Time, AllowedStamps, Allowed
  <2>6. ZsetFaithful'
    <3>1. zset' \subseteq AllowedStamps'
      BY <1>3, <2>1 DEF Allow, Trimmed, Entries, ZsetFaithful
    <3>2. ASSUME NEW s \in AllowedStamps', s > clock' - Window PROVE s \in Entries'
      <4>1. s \in Time /\ clock' = clock /\ clock' < expiry'
        BY <1>3, <2>1, <2>2 DEF Allow, Time
      <4>2. s \in Trimmed(stamp[c]) \/ s = stamp[c]
        BY <2>1, <2>2, <3>2, <4>1 DEF Trimmed, ZsetFaithful, StampsRecent, Time
      <4>. QED BY <1>3, <4>1, <4>2 DEF Allow, Entries
    <3>. QED BY <3>1, <3>2 DEF ZsetFaithful
  <2>7. ASSUME Window > Lag, NEW t \in Time PROVE Cardinality(ChargedIn(t, Window - Lag)') <= Max
    <3>1. CASE stamp[c] > t - (Window - Lag) /\ stamp[c] <= t
      <4>1. ChargedIn(t, Window - Lag)' \subseteq Trimmed(stamp[c]) \cup {stamp[c]}
        <5> SUFFICES ASSUME NEW s \in ChargedIn(t, Window - Lag)', s # stamp[c]
                     PROVE  s \in Trimmed(stamp[c])
          OBVIOUS
        <5>1. s \in AllowedStamps /\ s \in Time /\ t - (Window - Lag) < s
          BY <2>1, <2>2 DEF ChargedIn
        <5>2. clock <= stamp[c] + Lag
          BY <1>3 DEF Allow, StampsRecent
        <5>3. s > clock - Window /\ s > stamp[c] - Window
          BY <2>2, <2>7, <3>1, <5>1, <5>2 DEF Time
        <5>. QED BY <5>1, <5>3 DEF ZsetFaithful, Trimmed
      <4>2. /\ IsFiniteSet(Trimmed(stamp[c]))
            /\ Cardinality(Trimmed(stamp[c])) \in Nat
            /\ Cardinality(Trimmed(stamp[c])) < Max
        BY <1>3, <2>3, TimesFinite DEF Allow, HasRoom
      <4>3. Cardinality(Trimmed(stamp[c]) \cup {stamp[c]})
              \in {Cardinality(Trimmed(stamp[c])), Cardinality(Trimmed(stamp[c])) + 1}
        BY <4>2, FS_AddElement
      <4>4. Cardinality(Trimmed(stamp[c]) \cup {stamp[c]}) <= Max
        BY <4>2, <4>3
      <4>. QED BY <4>1, <4>4, <2>2, <2>3, TimesFinite
    <3>2. CASE ~(stamp[c] > t - (Window - Lag) /\ stamp[c] <= t)
      <4>1. ChargedIn(t, Window - Lag)' = ChargedIn(t, Window - Lag)
        BY <2>1, <3>2 DEF ChargedIn
      <4>. QED BY <2>7, <4>1 DEF WindowBound
    <3>. QED BY <3>1, <3>2
  <2>8. WindowBound'
    BY <2>7 DEF WindowBound
  <2>. QED BY <2>4, <2>5, <2>6, <2>8
<1>6. ASSUME NEW c \in Call, Fail(c) PROVE Invariant'
  <2>1. AllowedStamps' = AllowedStamps
    BY <1>6, ChargesStay
  <2>2. TypeOK' /\ StampsRecent'
    BY <1>6, <2>1 DEF Fail, StampsRecent, CallState
  <2>3. ZsetFaithful' /\ WindowBound'
    BY <1>6, <2>1 DEF Fail, ZsetFaithful, Entries, WindowBound, ChargedIn
  <2>. QED BY <2>2, <2>3
<1>4. CASE Tick
  <2>1. AllowedStamps' = AllowedStamps
    BY <1>4 DEF Tick, AllowedStamps, Allowed
  <2>2. TypeOK' /\ StampsRecent'
    BY <1>4, <2>1 DEF Tick, StampsRecent, Time
  <2>3. ASSUME NEW s \in AllowedStamps, s > clock' - Window PROVE s \in Entries'
    <3>1. s \in Time /\ s <= expiry - Window
      BY DEF AllowedStamps, Allowed, StampsRecent
    <3>2. clock' = clock + 1 /\ zset' = zset /\ expiry' = expiry
      BY <1>4 DEF Tick
    <3>3. s > clock - Window /\ clock' < expiry'
      BY <2>3, <3>1, <3>2 DEF Time
    <3>. QED BY <3>2, <3>3 DEF ZsetFaithful, Entries
  <2>4. ZsetFaithful'
    BY <1>4, <2>1, <2>3 DEF Tick, ZsetFaithful
  <2>5. WindowBound'
    BY <2>1 DEF WindowBound, ChargedIn
  <2>. QED BY <2>2, <2>4, <2>5
<1>5. CASE UNCHANGED vars
  BY <1>5 DEF vars, ZsetFaithful, StampsRecent, WindowBound, Entries, ChargedIn, AllowedStamps, Allowed
<1>. QED BY <1>1, <1>2, <1>3, <1>4, <1>5, <1>6 DEF Next

\* The inductive invariant holds throughout.
THEOREM InvariantHolds == Spec => []Invariant
  BY InitInvariant, NextInvariant, PTL DEF Spec

\* The variables keep their types: timestamps never pass the clock's bound.
THEOREM TypeCorrect == Spec => []TypeOK
<1>1. Invariant => TypeOK
  BY DEF Invariant
<1>. QED BY <1>1, InvariantHolds, PTL

\* No span of a window less the lag is charged more than Max milliseconds.
THEOREM WindowIsBounded == Spec => []WindowBound
<1>1. Invariant => WindowBound
  BY DEF Invariant
<1>. QED BY <1>1, InvariantHolds, PTL

\* A step that denies a call counted Max charged milliseconds younger than a
\* window.
LEMMA DenialStep ==
  ASSUME Invariant, Next, NEW c \in Call, state[c] = "stamped", state'[c] = "denied"
  PROVE  Cardinality({s \in AllowedStamps : s > stamp[c] - Window}) >= Max
<1> USE DEF Invariant, TypeOK
<1>1. Deny(c)
  BY DEF Next, Stamp, Allow, Deny, Fail, Tick
<1>2. Trimmed(stamp[c]) \subseteq {s \in AllowedStamps : s > stamp[c] - Window}
  BY DEF Trimmed, Entries, ZsetFaithful
<1>3. {s \in AllowedStamps : s > stamp[c] - Window} \subseteq Time
  BY DEF AllowedStamps, Allowed
<1>4. ~(Cardinality(Trimmed(stamp[c])) < Max)
  BY <1>1 DEF Deny, HasRoom
<1>. QED BY <1>2, <1>3, <1>4, TimesFinite

\* consume denies no call that has a token left.
THEOREM DenialsAreJustified == Spec => DenialsJustified
<1>1. Invariant /\ [Next]_vars =>
        [\A c \in Call : (state[c] = "stamped" /\ state'[c] = "denied") =>
           Cardinality({s \in AllowedStamps : s > stamp[c] - Window}) >= Max]_vars
  BY DenialStep
<1>. QED BY <1>1, InvariantHolds, PTL DEF Spec, DenialsJustified
-----------------------------------------------------------------------------
(* Counting by parts.                                                      *)

\* A set that falls into parts of at most m members has at most m for each part.
LEMMA PartsBound ==
  ASSUME NEW S, IsFiniteSet(S), NEW I, IsFiniteSet(I), NEW m \in Nat, NEW part \in [S -> I],
         \A i \in I : Cardinality({s \in S : part[s] = i}) <= m
  PROVE  Cardinality(S) <= m * Cardinality(I)
<1>. DEFINE Part(i) == {s \in S : part[s] = i}
            Number  == [i \in I |-> CHOOSE f \in [Part(i) -> 1 .. m] :
                                      \A a, b \in Part(i) : f[a] = f[b] => a = b]
            Place   == [s \in S |-> <<part[s], Number[part[s]][s]>>]
<1>1. ASSUME NEW i \in I
      PROVE  \E f \in [Part(i) -> 1 .. m] : \A a, b \in Part(i) : f[a] = f[b] => a = b
  <2>. DEFINE k == Cardinality(Part(i))
  <2>1. k \in Nat /\ ExistsBijection(1 .. k, Part(i)) /\ k <= m
    BY FS_Subset, FS_CardinalityType
  <2>2. PICK g \in Bijection(1 .. k, Part(i)) : TRUE
    BY <2>1, Fun_ExistsBij
  <2>3. PICK f \in Bijection(Part(i), 1 .. k) : TRUE
    BY <2>2, Fun_BijInverse
  <2>4. f \in [Part(i) -> 1 .. k] /\ \A a, b \in Part(i) : f[a] = f[b] => a = b
    BY <2>3 DEF Bijection, Injection, IsInjective
  <2>. HIDE DEF k
  <2>5. f \in [Part(i) -> 1 .. m]
    BY <2>1, <2>4
  <2>. QED BY <2>4, <2>5
<1>2. \A i \in I : /\ Number[i] \in [Part(i) -> 1 .. m]
                   /\ \A a, b \in Part(i) : Number[i][a] = Number[i][b] => a = b
  BY <1>1
<1>. HIDE DEF Number
<1>3. \A s \in S : part[s] \in I /\ s \in Part(part[s]) /\ Number[part[s]][s] \in 1 .. m
  BY <1>2
<1>4. Place \in [S -> I \X (1 .. m)]
  BY <1>3
<1>5. ASSUME NEW a \in S, NEW b \in S, Place[a] = Place[b] PROVE a = b
  <2>1. part[a] = part[b] /\ Number[part[a]][a] = Number[part[b]][b]
    BY <1>5
  <2>. QED BY <1>2, <1>3, <2>1
<1>. HIDE DEF Place
<1>6. Place \in Injection(S, I \X (1 .. m))
  BY <1>4, <1>5, Fun_IsInj
<1>a. Cardinality(I) \in Nat
  BY FS_CardinalityType
<1>7. IsFiniteSet(1 .. m) /\ Cardinality(1 .. m) = m
  BY FS_Interval
<1>8. IsFiniteSet(I \X (1 .. m)) /\ Cardinality(I \X (1 .. m)) = Cardinality(I) * m
  BY <1>7, FS_Product
<1>9. Cardinality(S) <= Cardinality(I) * m
  BY <1>6, <1>8, FS_Injection
<1>. QED BY <1>a, <1>9

-----------------------------------------------------------------------------
(* How far calls that share a millisecond can exceed the limit.            *)

\* Calls that were charged to at most b milliseconds are at most k * b, if no
\* millisecond was charged for more than k.
LEMMA CallsByStamps ==
  ASSUME TypeOK, IsFiniteSet(Call), NEW k \in Nat, SharedBy(k), NEW b \in Nat,
         NEW C \in SUBSET Allowed, Cardinality({stamp[c] : c \in C}) <= b
  PROVE  Cardinality(C) <= k * b
<1>. DEFINE I == {stamp[c] : c \in C}
            part == [c \in C |-> stamp[c]]
<1>1. IsFiniteSet(C) /\ C \subseteq Call
  BY FS_Subset DEF Allowed
<1>2. I \in SUBSET Time
  BY <1>1 DEF TypeOK
<1>3. IsFiniteSet(I) /\ Cardinality(I) \in Nat /\ Cardinality(I) <= b
  BY <1>2, TimesFinite
<1>4. part \in [C -> I]
  OBVIOUS
<1>5. ASSUME NEW i \in I PROVE Cardinality({c \in C : part[c] = i}) <= k
  <2>1. {c \in C : part[c] = i} \subseteq SendsAt(i) /\ SendsAt(i) \subseteq Call
    BY DEF SendsAt, Allowed
  <2>2. IsFiniteSet(SendsAt(i)) /\ Cardinality(SendsAt(i)) \in Nat
    BY <2>1, FS_Subset, FS_CardinalityType
  <2>3. Cardinality({c \in C : part[c] = i}) <= Cardinality(SendsAt(i))
        /\ Cardinality({c \in C : part[c] = i}) \in Nat
    BY <2>1, <2>2, FS_Subset, FS_CardinalityType
  <2>4. Cardinality(SendsAt(i)) <= k
    BY <1>2 DEF SharedBy
  <2>. QED BY <2>2, <2>3, <2>4
<1>. HIDE DEF I, part
<1>6. Cardinality(C) <= k * Cardinality(I) /\ Cardinality(C) \in Nat
  BY <1>1, <1>3, <1>4, <1>5, PartsBound, FS_CardinalityType
<1>7. k * Cardinality(I) <= k * b
  <2>1. PICK d \in Nat : b = Cardinality(I) + d
    <3>1. b - Cardinality(I) \in Nat /\ b = Cardinality(I) + (b - Cardinality(I))
      BY <1>3
    <3>. QED BY <3>1
  <2>2. k * b = k * Cardinality(I) + k * d /\ k * d \in Nat /\ k * Cardinality(I) \in Nat
    BY <1>3, <2>1
  <2>. QED BY <2>2
<1>8. k * Cardinality(I) \in Nat /\ k * b \in Nat
  BY <1>3
<1>. QED BY <1>6, <1>7, <1>8

\* If no millisecond is charged for more than k calls, a span that charges at most
\* Max milliseconds lets at most k * Max through.
LEMMA SendsBySharing ==
  ASSUME Invariant, IsFiniteSet(Call), Window > Lag, NEW t \in Time, NEW k \in Nat, SharedBy(k)
  PROVE  Cardinality(SendsIn(t, Window - Lag)) <= k * Max
<1>1. SendsIn(t, Window - Lag) \in SUBSET Allowed
  BY DEF SendsIn
<1>2. {stamp[c] : c \in SendsIn(t, Window - Lag)} = ChargedIn(t, Window - Lag)
  BY DEF SendsIn, ChargedIn, AllowedStamps
<1>3. Cardinality(ChargedIn(t, Window - Lag)) <= Max /\ TypeOK /\ Max \in Nat
  BY DEF Invariant, WindowBound
<1>. QED BY <1>1, <1>2, <1>3, CallsByStamps

\* The limiter exceeds its limit by sharing only: where no more than k calls were
\* let through in any millisecond, a window admits no more than k times the limit.
THEOREM SurplusIsSharing ==
  ASSUME IsFiniteSet(Call), Window > Lag, NEW k \in Nat
  PROVE  Spec => [](SharedBy(k) =>
                      \A t \in Time : Cardinality(SendsIn(t, Window - Lag)) <= k * Max)
<1>1. Invariant => (SharedBy(k) =>
                      \A t \in Time : Cardinality(SendsIn(t, Window - Lag)) <= k * Max)
  BY SendsBySharing
<1>. QED BY <1>1, InvariantHolds, PTL

\* The source's claim, that each send is recorded and no window exceeds the limit,
\* holds of every call that had its millisecond to itself, and no delay to Redis.
THEOREM LimitHoldsWithoutSharing ==
  ASSUME IsFiniteSet(Call), Lag = 0
  PROVE  Spec => []((\A c, d \in Allowed : stamp[c] = stamp[d] => c = d) => SendsPerWindow)
<1>1. ASSUME Invariant, \A c, d \in Allowed : stamp[c] = stamp[d] => c = d
      PROVE  SendsPerWindow
  <2>1. ASSUME NEW s \in Time PROVE Cardinality(SendsAt(s)) <= 1
    <3>1. CASE SendsAt(s) = {}
      BY <3>1, FS_EmptySet
    <3>2. CASE SendsAt(s) # {}
      <4>1. PICK c \in SendsAt(s) : TRUE
        BY <3>2
      <4>2. SendsAt(s) = {c}
        BY <1>1, <4>1 DEF SendsAt
      <4>. QED BY <4>2, FS_Singleton
    <3>. QED BY <3>1, <3>2
  <2>2. ASSUME NEW t \in Time PROVE Cardinality(SendsIn(t, Window)) <= Max
    <3>1. Window > Lag /\ Window - Lag = Window /\ 1 * Max = Max
      OBVIOUS
    <3>2. Cardinality(SendsIn(t, Window - Lag)) <= 1 * Max
      BY <1>1, <2>1, <3>1, SendsBySharing DEF SharedBy
    <3>. QED BY <3>1, <3>2
  <2>. QED BY <2>2 DEF SendsPerWindow, SendsIn
<1>. QED BY <1>1, InvariantHolds, PTL
=============================================================================
