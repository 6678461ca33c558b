----------------------------- MODULE RateLimiter -----------------------------
(***************************************************************************)
(* RateLimiterService.consume for one key (one user and channel).  A call  *)
(* reads Date.now() in its own process, then runs the Lua script on Redis: *)
(* the script is atomic, the two steps together are not, so scripts may    *)
(* run out of the order of their timestamps.                               *)
(*                                                                         *)
(* The member a call adds is a function of its timestamp, so the sorted    *)
(* set is a set of timestamps, each its own score.                         *)
(***************************************************************************)
EXTENDS Integers, FiniteSets

CONSTANTS
  Call,      \* the calls of consume for this key
  Max,       \* limitFor(channel).max
  Window,    \* limitFor(channel).windowSec, in milliseconds
  Lag,       \* bound: how long a call may be between Date.now() and Redis
  Horizon    \* bound: the last millisecond explored

ASSUME LimitAssumption == Max \in Nat /\ Window \in Nat \ {0} /\ Lag \in Nat /\ Horizon \in Nat

Time == 0 .. Horizon

VARIABLES
  clock,     \* the common clock of the processes and of Redis
  state,     \* per call: not made, stamped, answered by the script, or failed
  stamp,     \* per call: its nowMs
  zset,      \* the key: the timestamps it holds
  expiry     \* when Redis drops the key (PEXPIRE)

vars == <<clock, state, stamp, zset, expiry>>

CallState == {"new", "stamped", "allowed", "denied", "failed"}

TypeOK ==
  /\ clock \in Time
  /\ state \in [Call -> CallState]
  /\ stamp \in [Call -> Time]
  /\ zset \subseteq Time
  /\ expiry \in 0 .. Horizon + Window

Init ==
  /\ clock = 0
  /\ state = [c \in Call |-> "new"]
  /\ stamp = [c \in Call |-> 0]
  /\ zset = {}
  /\ expiry = 0

\* The key as Redis shows it: empty from the millisecond it expires.
Entries == IF clock < expiry THEN zset ELSE {}

\* Date.now().
Stamp(c) ==
  /\ state[c] = "new"
  /\ state' = [state EXCEPT ![c] = "stamped"]
  /\ stamp' = [stamp EXCEPT ![c] = clock]
  /\ UNCHANGED <<clock, zset, expiry>>

\* Mutant of Trimmed: nothing is removed.
Untrimmed(now) == Entries

\* ZREMRANGEBYSCORE 0 .. now - Window.
Trimmed(now) == {t \in Entries : t > now - Window}

\* Mutant of HasRoom: <= for <.
HasRoomForOneMore(entries) == Cardinality(entries) <= Max

\* ZCARD < max.
HasRoom(entries) == Cardinality(entries) < Max

\* ZADD, PEXPIRE, return 1.
Allow(c) ==
  /\ state[c] = "stamped"
  /\ HasRoom(Trimmed(stamp[c]))
  /\ zset' = Trimmed(stamp[c]) \cup {stamp[c]}
  /\ expiry' = clock + Window
  /\ state' = [state EXCEPT ![c] = "allowed"]
  /\ UNCHANGED <<clock, stamp>>

\* Return 0: the trimming stays, the key's expiry too.
Deny(c) ==
  /\ state[c] = "stamped"
  /\ ~HasRoom(Trimmed(stamp[c]))
  /\ zset' = Trimmed(stamp[c])
  /\ state' = [state EXCEPT ![c] = "denied"]
  /\ UNCHANGED <<clock, stamp, expiry>>

\* Redis rejects the script: so does consume, and the key stays as it is.  (When the
\* script's reply is lost, or the ZCARD that follows it rejects, consume rejects
\* with the token charged: Allow, and then Reject of Admission.)
Fail(c) ==
  /\ state[c] = "stamped"
  /\ state' = [state EXCEPT ![c] = "failed"]
  /\ UNCHANGED <<clock, stamp, zset, expiry>>

\* A millisecond passes; no call is left pending beyond the lag.
Tick ==
  /\ clock < Horizon
  /\ \A c \in Call : state[c] = "stamped" => clock < stamp[c] + Lag
  /\ clock' = clock + 1
  /\ UNCHANGED <<state, stamp, zset, expiry>>

Next == Tick \/ \E c \in Call : Stamp(c) \/ Allow(c) \/ Deny(c) \/ Fail(c)

Spec == Init /\ [][Next]_vars

-----------------------------------------------------------------------------
Allowed == {c \in Call : state[c] = "allowed"}

AllowedStamps == {stamp[c] : c \in Allowed}

\* The calls that were let through with the stamp s, and in (t - w, t].
SendsAt(s) == {c \in Allowed : stamp[c] = s}
SendsIn(t, w) == {c \in Allowed : t - w < stamp[c] /\ stamp[c] <= t}

\* No millisecond was charged for more than k calls.
SharedBy(k) == \A s \in Time : Cardinality(SendsAt(s)) <= k

\* The milliseconds in (t - w, t] that were charged.
ChargedIn(t, w) == {s \in AllowedStamps : t - w < s /\ s <= t}

\* In every span shorter than the window by the lag, at most Max distinct
\* milliseconds were charged: late scripts cost no more than the lag.
WindowBound ==
  Window > Lag => \A t \in Time : Cardinality(ChargedIn(t, Window - Lag)) <= Max

\* No call is turned away unless Max milliseconds were charged later than a
\* window before it: consume never denies a user who has a token left.
DenialsJustified ==
  [][\A c \in Call : (state[c] = "stamped" /\ state'[c] = "denied") =>
       Cardinality({s \in AllowedStamps : s > stamp[c] - Window}) >= Max]_vars

\* rate-limiter.service.ts:14-16 at its word: each send is recorded, the window
\* is the trailing windowSec, there are no races; so no window ever holds more
\* than max sends.
SendsPerWindow == \A t \in Time : Cardinality(SendsIn(t, Window)) <= Max
=============================================================================
