-------------------------- MODULE DashboardProofs --------------------------
(***************************************************************************)
(* Proofs about Dashboard, for any users, records, items and requests in   *)
(* flight.                                                                 *)
(***************************************************************************)
EXTENDS Dashboard, TLAPS

USE DashboardBounds, NoneIsNobody

-----------------------------------------------------------------------------
(* The inductive invariant, in named parts.                                *)

\* A save is for a user, a retry for a record.
SaveKnown == save.stage # "none" => save.for \in User

FlightKnown == \A f \in Flight : flight[f].stage # "free" => flight[f].rec \in Record

\* The socket is the current user's, and "Live" shows whether it is connected.
SocketFollows == sockUser = current /\ live = sockUp /\ (sockUp => current \in User)

\* Until the user is switched with the page open, all that is shown, on its way
\* or stored is the current user's own; other pages keep no settings.
SettingsOwn ==
  /\ page # "preferences" => rows = None /\ save.stage = "none" /\ \A u \in User : rowLoads[u] = 0
  /\ ~crossed =>
       /\ \A u \in User : stored[u] = u /\ (rowLoads[u] > 0 => u = current)
       /\ rows \in {None, current}
       /\ save.stage # "none" => save.for = current /\ save.rows \in {None, current}

\* A record that is being retried has its button disabled, or it was loosened.
RetryGuarded ==
  /\ \A f \in Flight : flight[f].stage = "post" => flight[f].rec \in loosened \cup {retrying}
  /\ DoubleRetryNeedsLoosening

\* What is selected has not been emailed since, unless an order is just being
\* finished or an error was shown.
EmailsOnce ==
  erred \/ /\ stage = "send" => order \cap ordered = {}
           /\ stage # "batch" => selected \cap ordered = {}

Invariant ==
  /\ TypeOK
  /\ SaveKnown
  /\ FlightKnown
  /\ SocketFollows
  /\ SettingsOwn
  /\ RetryGuarded
  /\ EmailsOnce

SessionTypes ==
  /\ current \in User \cup {None}
  /\ page \in Page
  /\ sockUser \in User \cup {None}

BellTypes == bell \in Seq(User) /\ Len(bell) <= Kept

FlagTypes == sockUp \in BOOLEAN /\ live \in BOOLEAN /\ crossed \in BOOLEAN /\ erred \in BOOLEAN

HistoryTypes ==
  /\ view \in User \cup {None}
  /\ loads \in [User -> 0 .. MaxLoads]
  /\ timers \subseteq User

PrefTypes ==
  /\ rows \in User \cup {None}
  /\ rowLoads \in [User -> 0 .. MaxLoads]
  /\ save \in [stage : {"none", "put", "reload"}, for : User \cup {None}, rows : User \cup {None}]
  /\ stored \in [User -> User]

DlqTypes ==
  /\ retrying \in Record \cup {None}
  /\ flight \in [Flight -> [stage : {"free", "post", "load"}, rec : Record \cup {None},
                          here : BOOLEAN]]
  /\ loosened \subseteq Record

ItemTypes ==
  /\ selected \subseteq Thing
  /\ order \subseteq Thing
  /\ stage \in {"none", "send", "batch"}
  /\ message \in {"none", "ok", "err"}
  /\ ordered \subseteq Thing

\* TypeOK, page by page.
LEMMA TypeParts ==
  TypeOK <=> SessionTypes /\ BellTypes /\ FlagTypes /\ HistoryTypes /\ PrefTypes /\ DlqTypes /\ ItemTypes
  BY DEF TypeOK, SessionTypes, BellTypes, FlagTypes, HistoryTypes, PrefTypes, DlqTypes, ItemTypes

\* The types of the parts make the type of the whole.
LEMMA TypesNext ==
  ASSUME SessionTypes', BellTypes', FlagTypes', HistoryTypes', PrefTypes', DlqTypes', ItemTypes'
  PROVE  TypeOK'
  BY DEF TypeOK, SessionTypes, BellTypes, FlagTypes, HistoryTypes, PrefTypes, DlqTypes, ItemTypes

\* Loads in flight are counted up to the bound, and down to nothing.
LEMMA LoadAdded ==
  ASSUME NEW counts \in [User -> 0 .. MaxLoads], NEW u \in User, counts[u] < MaxLoads
  PROVE  AddLoad(counts, u) \in [User -> 0 .. MaxLoads] /\ AddLoad(counts, u)[u] = counts[u] + 1
         /\ \A v \in User : v # u => AddLoad(counts, u)[v] = counts[v]
<1>. DEFINE n == counts[u] + 1
<1>1. n \in 0 .. MaxLoads
  OBVIOUS
<1>2. AddLoad(counts, u) = [counts EXCEPT ![u] = n]
  BY DEF AddLoad
<1>. HIDE DEF n
<1>3. /\ AddLoad(counts, u) \in [User -> 0 .. MaxLoads] /\ AddLoad(counts, u)[u] = n
      /\ \A v \in User : v # u => AddLoad(counts, u)[v] = counts[v]
  BY <1>1, <1>2
<1>. QED BY <1>3 DEF n

\* Counting an answer keeps the counts of loads in range.
LEMMA LoadEnded ==
  ASSUME NEW counts \in [User -> 0 .. MaxLoads], NEW u \in User, counts[u] > 0
  PROVE  [counts EXCEPT ![u] = @ - 1] \in [User -> 0 .. MaxLoads]
<1>. DEFINE n == counts[u] - 1
<1>1. n \in 0 .. MaxLoads
  OBVIOUS
<1>. HIDE DEF n
<1>2. [counts EXCEPT ![u] = n] \in [User -> 0 .. MaxLoads]
  BY <1>1
<1>. QED BY <1>2 DEF n

\* One load of a user, or none, is in range.
LEMMA FirstLoad ==
  ASSUME NEW u
  PROVE  /\ One(u) \in [User -> 0 .. MaxLoads] /\ NoLoads \in [User -> 0 .. MaxLoads]
         /\ \A v \in User : NoLoads[v] = 0 /\ (One(u)[v] > 0 => v = u)
  BY DEF One, NoLoads

\* The bell keeps at most so many notifications, the newest first.
LEMMA Prepended ==
  ASSUME NEW n \in User, bell \in Seq(User), Len(bell) <= Kept
  PROVE  Prepend(n) \in Seq(User) /\ Len(Prepend(n)) <= Kept /\ Prepend(n) # <<>> /\ Head(Prepend(n)) = n
<1>. DEFINE long == <<n>> \o bell
           m == IF Len(bell) < Kept THEN Len(bell) + 1 ELSE Kept
<1>1. long \in Seq(User) /\ Len(long) = Len(bell) + 1 /\ long[1] = n
  OBVIOUS
<1>2. m \in 1 .. Len(long) /\ m <= Kept
  BY <1>1
<1>3. Prepend(n) = SubSeq(long, 1, m)
  BY DEF Prepend
<1>. HIDE DEF long, m
<1>4. SubSeq(long, 1, m) \in Seq(User) /\ Len(SubSeq(long, 1, m)) = m /\ SubSeq(long, 1, m)[1] = n
  BY <1>1, <1>2
<1>. QED BY <1>2, <1>3, <1>4

\* The whole invariant holds when the page is opened.
LEMMA InitInvariant == Init => Invariant
<1>. SUFFICES ASSUME Init PROVE Invariant
  OBVIOUS
<1>1. TypeOK
  <2>1. SessionTypes /\ HistoryTypes BY DEF Init, SessionTypes, HistoryTypes, NoLoads, Page
  <2>2. BellTypes BY DEF Init, BellTypes
  <2>3. FlagTypes BY DEF Init, FlagTypes
  <2>4. PrefTypes BY DEF Init, PrefTypes, NoLoads, NoSave
  <2>5. DlqTypes BY DEF Init, DlqTypes, NoFlight
  <2>6. ItemTypes BY DEF Init, ItemTypes
  <2>. QED BY <2>1, <2>2, <2>3, <2>4, <2>5, <2>6, TypeParts
<1>2. SaveKnown /\ FlightKnown /\ SocketFollows
  BY DEF Init, SaveKnown, FlightKnown, SocketFollows, NoSave, NoFlight
<1>3. SettingsOwn /\ RetryGuarded /\ EmailsOnce
  BY DEF Init, SettingsOwn, RetryGuarded, DoubleRetryNeedsLoosening, EmailsOnce, NoSave, NoFlight, NoLoads
<1>. QED BY <1>1, <1>2, <1>3 DEF Invariant

\* One lemma per event. Choosing another user disconnects, and reloads his pages.
LEMMA SwitchUserStep ==
  ASSUME Invariant, NEW u \in User, SwitchUser(u)
  PROVE  Invariant'
<1>. USE DEF Invariant, SwitchUser, GetSocket, HistoryEffect, PreferencesEffect, sessionVars, bellVars, historyVars, prefVars, dlqVars, itemVars
<1>1. TypeOK'
  <2>1. SessionTypes' BY DEF TypeOK, SessionTypes
  <2>1a. HistoryTypes'
    <3>1. loads \in [User -> 0 .. MaxLoads]
      BY DEF TypeOK
    <3>2. loads' = loads \/ (loads[u] < MaxLoads /\ loads' = AddLoad(loads, u))
      <4>1. CASE page = "history" BY <4>1
      <4>2. CASE page # "history" BY <4>2
      <4>. QED BY <4>1, <4>2
    <3>3. view' \in User \cup {None} /\ timers' \subseteq User
      BY DEF TypeOK
    <3>. HIDE DEF Invariant, SwitchUser, HistoryEffect
    <3>4. loads' \in [User -> 0 .. MaxLoads]
      BY <3>1, <3>2, LoadAdded
    <3>. QED BY <3>3, <3>4 DEF HistoryTypes
  <2>2. BellTypes' BY DEF TypeOK, BellTypes
  <2>3. FlagTypes' BY DEF TypeOK, FlagTypes
  <2>4. PrefTypes'
    <3>1. rowLoads \in [User -> 0 .. MaxLoads]
      BY DEF TypeOK
    <3>2. rowLoads' = rowLoads \/ (rowLoads[u] < MaxLoads /\ rowLoads' = AddLoad(rowLoads, u))
      <4>1. CASE page = "preferences" BY <4>1
      <4>2. CASE page # "preferences" BY <4>2
      <4>. QED BY <4>1, <4>2
    <3>3. rowLoads' \in [User -> 0 .. MaxLoads]
      <4>. HIDE DEF Invariant, SwitchUser, PreferencesEffect
      <4>. QED BY <3>1, <3>2, LoadAdded
    <3>. QED BY <3>3 DEF TypeOK, PrefTypes
  <2>5. DlqTypes' BY DEF TypeOK, DlqTypes, FlightKnown
  <2>6. ItemTypes' BY DEF TypeOK, ItemTypes
  <2>. QED BY <2>1, <2>1a, <2>2, <2>3, <2>4, <2>5, <2>6, TypesNext
<1>2. SaveKnown' /\ FlightKnown' /\ SocketFollows'
  BY DEF SaveKnown, FlightKnown, SocketFollows, TypeOK
<1>3. SettingsOwn'
  <2>1. CASE page = "preferences"
    <3>1. /\ rowLoads'[u] = rowLoads[u] + 1
          /\ \A v \in User : v # u => rowLoads'[v] = rowLoads[v]
      <4>1. rowLoads \in [User -> 0 .. MaxLoads]
        BY DEF TypeOK
      <4>2. rowLoads[u] < MaxLoads /\ rowLoads' = AddLoad(rowLoads, u)
        BY <2>1
      <4>. HIDE DEF Invariant, SwitchUser, PreferencesEffect
      <4>. QED BY <4>1, <4>2, LoadAdded
    <3>2. CASE current # None
      BY <2>1, <3>2 DEF SettingsOwn
    <3>3. CASE current = None /\ ~crossed
      <4>1. \A v \in User : rowLoads[v] = 0
        <5>1. \A v \in User : rowLoads[v] \in Nat
          BY DEF TypeOK
        <5>2. \A v \in User : ~(rowLoads[v] > 0)
          BY <3>3 DEF SettingsOwn
        <5>. HIDE DEF Invariant, SwitchUser
        <5>. QED BY <5>1, <5>2
      <4>2. rows = None /\ save.stage = "none"
        BY <3>3 DEF SettingsOwn, SaveKnown
      <4>. QED BY <2>1, <3>1, <3>3, <4>1, <4>2 DEF SettingsOwn
    <3>4. CASE current = None /\ crossed
      BY <2>1, <3>4 DEF SettingsOwn
    <3>. QED BY <3>2, <3>3, <3>4
  <2>2. CASE page # "preferences"
    BY <2>2 DEF SettingsOwn, SaveKnown, TypeOK
  <2>. QED BY <2>1, <2>2
<1>4. RetryGuarded'
  BY DEF RetryGuarded, DoubleRetryNeedsLoosening, FlightKnown, TypeOK
<1>5. EmailsOnce'
  BY DEF EmailsOnce, TypeOK
<1>. QED BY <1>1, <1>2, <1>3, <1>4, <1>5

\* The socket of the chosen user joins his room.
LEMMA ConnectedStep ==
  ASSUME Invariant, Connected
  PROVE  Invariant'
<1>. USE DEF Invariant, Connected, sessionVars, bellVars, historyVars, prefVars, dlqVars, itemVars
<1>1. TypeOK'
  <2>1. SessionTypes' /\ HistoryTypes' BY DEF TypeOK, SessionTypes, HistoryTypes
  <2>2. BellTypes' BY DEF TypeOK, BellTypes
  <2>3. FlagTypes' BY DEF TypeOK, FlagTypes
  <2>4. PrefTypes' BY DEF TypeOK, PrefTypes, SaveKnown
  <2>5. DlqTypes' BY DEF TypeOK, DlqTypes, FlightKnown
  <2>6. ItemTypes' BY DEF TypeOK, ItemTypes
  <2>. QED BY <2>1, <2>2, <2>3, <2>4, <2>5, <2>6, TypesNext
<1>2. SaveKnown' /\ FlightKnown' /\ SocketFollows'
  BY DEF SaveKnown, FlightKnown, SocketFollows, TypeOK
<1>3. SettingsOwn'
  BY DEF SettingsOwn, SaveKnown, TypeOK
<1>4. RetryGuarded'
  BY DEF RetryGuarded, DoubleRetryNeedsLoosening, FlightKnown, TypeOK
<1>5. EmailsOnce'
  BY DEF EmailsOnce, TypeOK
<1>. QED BY <1>1, <1>2, <1>3, <1>4, <1>5

\* The socket is lost.
LEMMA DisconnectedStep ==
  ASSUME Invariant, Disconnected
  PROVE  Invariant'
<1>. USE DEF Invariant, Disconnected, sessionVars, bellVars, historyVars, prefVars, dlqVars, itemVars
<1>1. TypeOK'
  <2>1. SessionTypes' /\ HistoryTypes' BY DEF TypeOK, SessionTypes, HistoryTypes
  <2>2. BellTypes' BY DEF TypeOK, BellTypes
  <2>3. FlagTypes' BY DEF TypeOK, FlagTypes
  <2>4. PrefTypes' BY DEF TypeOK, PrefTypes, SaveKnown
  <2>5. DlqTypes' BY DEF TypeOK, DlqTypes, FlightKnown
  <2>6. ItemTypes' BY DEF TypeOK, ItemTypes
  <2>. QED BY <2>1, <2>2, <2>3, <2>4, <2>5, <2>6, TypesNext
<1>2. SaveKnown' /\ FlightKnown' /\ SocketFollows'
  BY DEF SaveKnown, FlightKnown, SocketFollows, TypeOK
<1>3. SettingsOwn'
  BY DEF SettingsOwn, SaveKnown, TypeOK
<1>4. RetryGuarded'
  BY DEF RetryGuarded, DoubleRetryNeedsLoosening, FlightKnown, TypeOK
<1>5. EmailsOnce'
  BY DEF EmailsOnce, TypeOK
<1>. QED BY <1>1, <1>2, <1>3, <1>4, <1>5

\* A notification arrives and is put first.
LEMMA NotifiedStep ==
  ASSUME Invariant, Notified
  PROVE  Invariant'
<1>. USE DEF Invariant, Notified, sessionVars, bellVars, historyVars, prefVars, dlqVars, itemVars
<1>1. TypeOK'
  <2>1. SessionTypes' /\ HistoryTypes' BY DEF TypeOK, SessionTypes, HistoryTypes
  <2>2. BellTypes'
    BY Prepended DEF TypeOK, BellTypes, SocketFollows
  <2>3. FlagTypes' BY DEF TypeOK, FlagTypes
  <2>4. PrefTypes' BY DEF TypeOK, PrefTypes, SaveKnown
  <2>5. DlqTypes' BY DEF TypeOK, DlqTypes, FlightKnown
  <2>6. ItemTypes' BY DEF TypeOK, ItemTypes
  <2>. QED BY <2>1, <2>2, <2>3, <2>4, <2>5, <2>6, TypesNext
<1>2. SaveKnown' /\ FlightKnown' /\ SocketFollows'
  BY DEF SaveKnown, FlightKnown, SocketFollows, TypeOK
<1>3. SettingsOwn'
  BY DEF SettingsOwn, SaveKnown, TypeOK
<1>4. RetryGuarded'
  BY DEF RetryGuarded, DoubleRetryNeedsLoosening, FlightKnown, TypeOK
<1>5. EmailsOnce'
  BY DEF EmailsOnce, TypeOK
<1>. QED BY <1>1, <1>2, <1>3, <1>4, <1>5

\* The bell is cleared.
LEMMA ClearStep ==
  ASSUME Invariant, Clear
  PROVE  Invariant'
<1>. USE DEF Invariant, Clear, sessionVars, bellVars, historyVars, prefVars, dlqVars, itemVars
<1>1. TypeOK'
  <2>1. SessionTypes' /\ HistoryTypes' BY DEF TypeOK, SessionTypes, HistoryTypes
  <2>2. BellTypes' BY DEF TypeOK, BellTypes
  <2>3. FlagTypes' BY DEF TypeOK, FlagTypes
  <2>4. PrefTypes' BY DEF TypeOK, PrefTypes, SaveKnown
  <2>5. DlqTypes' BY DEF TypeOK, DlqTypes, FlightKnown
  <2>6. ItemTypes' BY DEF TypeOK, ItemTypes
  <2>. QED BY <2>1, <2>2, <2>3, <2>4, <2>5, <2>6, TypesNext
<1>2. SaveKnown' /\ FlightKnown' /\ SocketFollows'
  BY DEF SaveKnown, FlightKnown, SocketFollows, TypeOK
<1>3. SettingsOwn'
  BY DEF SettingsOwn, SaveKnown, TypeOK
<1>4. RetryGuarded'
  BY DEF RetryGuarded, DoubleRetryNeedsLoosening, FlightKnown, TypeOK
<1>5. EmailsOnce'
  BY DEF EmailsOnce, TypeOK
<1>. QED BY <1>1, <1>2, <1>3, <1>4, <1>5

\* Another page is opened: its state starts anew.
LEMMA NavigateStep ==
  ASSUME Invariant, NEW p \in Page, Navigate(p)
  PROVE  Invariant'
<1>. USE DEF Invariant, Navigate, MountHistory, MountPreferences, LeavePut, Just, NoSave, NoFlight, Posting, sessionVars, bellVars, historyVars, prefVars, dlqVars, itemVars
<1>1. TypeOK'
  <2>1. SessionTypes' BY DEF TypeOK, SessionTypes
  <2>1a. HistoryTypes'
    <3>1. loads' \in [User -> 0 .. MaxLoads]
      BY FirstLoad
    <3>2. timers' \subseteq User
      BY DEF TypeOK
    <3>. QED BY <3>1, <3>2 DEF HistoryTypes
  <2>2. BellTypes' BY DEF TypeOK, BellTypes
  <2>3. FlagTypes' BY DEF TypeOK, FlagTypes
  <2>4. PrefTypes'
    <3>1. rowLoads' \in [User -> 0 .. MaxLoads]
      BY FirstLoad
    <3>2. stored' \in [User -> User]
      BY DEF TypeOK, SaveKnown
    <3>. QED BY <3>1, <3>2 DEF PrefTypes
  <2>5. DlqTypes'
    <3>. DEFINE left(f) == IF flight[f].stage = "post" THEN [flight[f] EXCEPT !.here = FALSE] ELSE NoFlight
               R == [stage : {"free", "post", "load"}, rec : Record \cup {None}, here : BOOLEAN]
    <3>1. ASSUME NEW f \in Flight PROVE left(f) \in R
      <4>1. flight[f] \in R BY DEF TypeOK
      <4>2. [flight[f] EXCEPT !.here = FALSE] \in R BY <4>1
      <4>. QED BY <4>2
    <3>2. flight' = [f \in Flight |-> left(f)]
      OBVIOUS
    <3>. HIDE DEF left
    <3>3. flight' \in [Flight -> R]
      BY <3>1, <3>2
    <3>4. loosened' \subseteq Record
      BY DEF TypeOK, FlightKnown
    <3>. QED BY <3>3, <3>4 DEF DlqTypes
  <2>6. ItemTypes' BY DEF TypeOK, ItemTypes
  <2>. QED BY <2>1, <2>1a, <2>2, <2>3, <2>4, <2>5, <2>6, TypesNext
<1>2. SaveKnown' /\ FlightKnown' /\ SocketFollows'
  BY DEF SaveKnown, FlightKnown, SocketFollows, TypeOK
<1>3. SettingsOwn'
  <2>1. rows' = None /\ save'.stage = "none" /\ current' = current /\ crossed' = crossed
    OBVIOUS
  <2>2. /\ page' # "preferences" => \A u \in User : rowLoads'[u] = 0
        /\ \A u \in User : rowLoads'[u] > 0 => u = current
    <3>1. \/ page' = "preferences" /\ rowLoads' = One(current)
          \/ page' # "preferences" /\ rowLoads' = NoLoads
      <4>1. CASE p = "preferences" BY <4>1
      <4>2. CASE p # "preferences" BY <4>2
      <4>. QED BY <4>1, <4>2
    <3>. HIDE DEF Invariant, Navigate, MountPreferences
    <3>. QED BY <3>1, FirstLoad
  <2>3. ~crossed => \A u \in User : stored'[u] = u
    BY DEF SettingsOwn, SaveKnown, TypeOK
  <2>. QED BY <2>1, <2>2, <2>3 DEF SettingsOwn
<1>4. RetryGuarded'
  BY DEF RetryGuarded, DoubleRetryNeedsLoosening, FlightKnown, TypeOK
<1>5. EmailsOnce'
  BY DEF EmailsOnce, TypeOK
<1>. QED BY <1>1, <1>2, <1>3, <1>4, <1>5

\* The interval asks for the history.
LEMMA PollStep ==
  ASSUME Invariant, NEW u \in User, Poll(u)
  PROVE  Invariant'
<1>. USE DEF Invariant, Poll, sessionVars, bellVars, historyVars, prefVars, dlqVars, itemVars
<1>1. TypeOK'
  <2>1. SessionTypes' BY DEF TypeOK, SessionTypes
  <2>1a. HistoryTypes'
    <3>1. loads \in [User -> 0 .. MaxLoads] /\ loads[u] < MaxLoads /\ loads' = AddLoad(loads, u)
      BY DEF TypeOK
    <3>2. view' \in User \cup {None} /\ timers' \subseteq User
      BY DEF TypeOK
    <3>. HIDE DEF Invariant, Poll
    <3>3. loads' \in [User -> 0 .. MaxLoads]
      BY <3>1, LoadAdded
    <3>. QED BY <3>2, <3>3 DEF HistoryTypes
  <2>2. BellTypes' BY DEF TypeOK, BellTypes
  <2>3. FlagTypes' BY DEF TypeOK, FlagTypes
  <2>4. PrefTypes' BY DEF TypeOK, PrefTypes, SaveKnown
  <2>5. DlqTypes' BY DEF TypeOK, DlqTypes, FlightKnown
  <2>6. ItemTypes' BY DEF TypeOK, ItemTypes
  <2>. QED BY <2>1, <2>1a, <2>2, <2>3, <2>4, <2>5, <2>6, TypesNext
<1>2. SaveKnown' /\ FlightKnown' /\ SocketFollows'
  BY DEF SaveKnown, FlightKnown, SocketFollows, TypeOK
<1>3. SettingsOwn'
  BY DEF SettingsOwn, SaveKnown, TypeOK
<1>4. RetryGuarded'
  BY DEF RetryGuarded, DoubleRetryNeedsLoosening, FlightKnown, TypeOK
<1>5. EmailsOnce'
  BY DEF EmailsOnce, TypeOK
<1>. QED BY <1>1, <1>2, <1>3, <1>4, <1>5

\* The history is answered, in whatever order.
LEMMA HistoryArrivesStep ==
  ASSUME Invariant, NEW u \in User, HistoryArrives(u)
  PROVE  Invariant'
<1>. USE DEF Invariant, HistoryArrives, sessionVars, bellVars, historyVars, prefVars, dlqVars, itemVars
<1>1. TypeOK'
  <2>1. SessionTypes' BY DEF TypeOK, SessionTypes
  <2>1a. HistoryTypes'
    <3>1. loads \in [User -> 0 .. MaxLoads] /\ loads[u] > 0 /\ loads' = [loads EXCEPT ![u] = @ - 1]
      BY DEF TypeOK
    <3>2. view' \in User \cup {None} /\ timers' \subseteq User
      BY DEF TypeOK
    <3>. HIDE DEF Invariant, HistoryArrives
    <3>3. loads' \in [User -> 0 .. MaxLoads]
      BY <3>1, LoadEnded
    <3>. QED BY <3>2, <3>3 DEF HistoryTypes
  <2>2. BellTypes' BY DEF TypeOK, BellTypes
  <2>3. FlagTypes' BY DEF TypeOK, FlagTypes
  <2>4. PrefTypes' BY DEF TypeOK, PrefTypes, SaveKnown
  <2>5. DlqTypes' BY DEF TypeOK, DlqTypes, FlightKnown
  <2>6. ItemTypes' BY DEF TypeOK, ItemTypes
  <2>. QED BY <2>1, <2>1a, <2>2, <2>3, <2>4, <2>5, <2>6, TypesNext
<1>2. SaveKnown' /\ FlightKnown' /\ SocketFollows'
  BY DEF SaveKnown, FlightKnown, SocketFollows, TypeOK
<1>3. SettingsOwn'
  BY DEF SettingsOwn, SaveKnown, TypeOK
<1>4. RetryGuarded'
  BY DEF RetryGuarded, DoubleRetryNeedsLoosening, FlightKnown, TypeOK
<1>5. EmailsOnce'
  BY DEF EmailsOnce, TypeOK
<1>. QED BY <1>1, <1>2, <1>3, <1>4, <1>5

\* A request for the history fails.
LEMMA HistoryFailsStep ==
  ASSUME Invariant, NEW u \in User, HistoryFails(u)
  PROVE  Invariant'
<1>. USE DEF Invariant, HistoryFails, sessionVars, bellVars, historyVars, prefVars, dlqVars, itemVars
<1>1. TypeOK'
  <2>1. SessionTypes' BY DEF TypeOK, SessionTypes
  <2>1a. HistoryTypes'
    <3>1. loads \in [User -> 0 .. MaxLoads] /\ loads[u] > 0 /\ loads' = [loads EXCEPT ![u] = @ - 1]
      BY DEF TypeOK
    <3>2. view' \in User \cup {None} /\ timers' \subseteq User
      BY DEF TypeOK
    <3>. HIDE DEF Invariant, HistoryFails
    <3>3. loads' \in [User -> 0 .. MaxLoads]
      BY <3>1, LoadEnded
    <3>. QED BY <3>2, <3>3 DEF HistoryTypes
  <2>2. BellTypes' BY DEF TypeOK, BellTypes
  <2>3. FlagTypes' BY DEF TypeOK, FlagTypes
  <2>4. PrefTypes' BY DEF TypeOK, PrefTypes, SaveKnown
  <2>5. DlqTypes' BY DEF TypeOK, DlqTypes, FlightKnown
  <2>6. ItemTypes' BY DEF TypeOK, ItemTypes
  <2>. QED BY <2>1, <2>1a, <2>2, <2>3, <2>4, <2>5, <2>6, TypesNext
<1>2. SaveKnown' /\ FlightKnown' /\ SocketFollows'
  BY DEF SaveKnown, FlightKnown, SocketFollows, TypeOK
<1>3. SettingsOwn'
  BY DEF SettingsOwn, SaveKnown, TypeOK
<1>4. RetryGuarded'
  BY DEF RetryGuarded, DoubleRetryNeedsLoosening, FlightKnown, TypeOK
<1>5. EmailsOnce'
  BY DEF EmailsOnce, TypeOK
<1>. QED BY <1>1, <1>2, <1>3, <1>4, <1>5

\* A load of the settings is answered, in whatever order, or fails.
LEMMA RowsArriveStep ==
  ASSUME Invariant, NEW u \in User, RowsArrive(u)
  PROVE  Invariant'
<1>. USE DEF Invariant, RowsArrive, sessionVars, bellVars, historyVars, prefVars, dlqVars, itemVars
<1>1. TypeOK'
  <2>1. SessionTypes' /\ HistoryTypes' BY DEF TypeOK, SessionTypes, HistoryTypes
  <2>2. BellTypes' BY DEF TypeOK, BellTypes
  <2>3. FlagTypes' BY DEF TypeOK, FlagTypes
  <2>4. PrefTypes'
    <3>1. rowLoads \in [User -> 0 .. MaxLoads] /\ rowLoads[u] > 0
          /\ rowLoads' = [rowLoads EXCEPT ![u] = @ - 1]
      BY DEF TypeOK
    <3>2. rowLoads' \in [User -> 0 .. MaxLoads]
      <4>. HIDE DEF Invariant, RowsArrive
      <4>. QED BY <3>1, LoadEnded
    <3>. QED BY <3>2 DEF TypeOK, PrefTypes
  <2>5. DlqTypes' BY DEF TypeOK, DlqTypes, FlightKnown
  <2>6. ItemTypes' BY DEF TypeOK, ItemTypes
  <2>. QED BY <2>1, <2>2, <2>3, <2>4, <2>5, <2>6, TypesNext
<1>2. SaveKnown' /\ FlightKnown' /\ SocketFollows'
  BY DEF SaveKnown, FlightKnown, SocketFollows, TypeOK
<1>3. SettingsOwn'
  BY DEF SettingsOwn, SaveKnown, TypeOK
<1>4. RetryGuarded'
  BY DEF RetryGuarded, DoubleRetryNeedsLoosening, FlightKnown, TypeOK
<1>5. EmailsOnce'
  BY DEF EmailsOnce, TypeOK
<1>. QED BY <1>1, <1>2, <1>3, <1>4, <1>5

\* Save sends what is shown.
LEMMA SaveStep ==
  ASSUME Invariant, Save
  PROVE  Invariant'
<1>. USE DEF Invariant, Save, sessionVars, bellVars, historyVars, prefVars, dlqVars, itemVars
<1>1. TypeOK'
  <2>1. SessionTypes' /\ HistoryTypes' BY DEF TypeOK, SessionTypes, HistoryTypes
  <2>2. BellTypes' BY DEF TypeOK, BellTypes
  <2>3. FlagTypes' BY DEF TypeOK, FlagTypes
  <2>4. PrefTypes' BY DEF TypeOK, PrefTypes, SaveKnown
  <2>5. DlqTypes' BY DEF TypeOK, DlqTypes, FlightKnown
  <2>6. ItemTypes' BY DEF TypeOK, ItemTypes
  <2>. QED BY <2>1, <2>2, <2>3, <2>4, <2>5, <2>6, TypesNext
<1>2. SaveKnown' /\ FlightKnown' /\ SocketFollows'
  BY DEF SaveKnown, FlightKnown, SocketFollows, TypeOK
<1>3. SettingsOwn'
  BY DEF SettingsOwn, SaveKnown, TypeOK
<1>4. RetryGuarded'
  BY DEF RetryGuarded, DoubleRetryNeedsLoosening, FlightKnown, TypeOK
<1>5. EmailsOnce'
  BY DEF EmailsOnce, TypeOK
<1>. QED BY <1>1, <1>2, <1>3, <1>4, <1>5

\* The PUT is answered, and the reload is sent.
LEMMA SaveDoneStep ==
  ASSUME Invariant, SaveDone
  PROVE  Invariant'
<1>. USE DEF Invariant, SaveDone, sessionVars, bellVars, historyVars, prefVars, dlqVars, itemVars
<1>1. TypeOK'
  <2>1. SessionTypes' /\ HistoryTypes' BY DEF TypeOK, SessionTypes, HistoryTypes
  <2>2. BellTypes' BY DEF TypeOK, BellTypes
  <2>3. FlagTypes' BY DEF TypeOK, FlagTypes
  <2>4. PrefTypes' BY DEF TypeOK, PrefTypes, SaveKnown
  <2>5. DlqTypes' BY DEF TypeOK, DlqTypes, FlightKnown
  <2>6. ItemTypes' BY DEF TypeOK, ItemTypes
  <2>. QED BY <2>1, <2>2, <2>3, <2>4, <2>5, <2>6, TypesNext
<1>2. SaveKnown' /\ FlightKnown' /\ SocketFollows'
  BY DEF SaveKnown, FlightKnown, SocketFollows, TypeOK
<1>3. SettingsOwn'
  BY DEF SettingsOwn, SaveKnown, TypeOK
<1>4. RetryGuarded'
  BY DEF RetryGuarded, DoubleRetryNeedsLoosening, FlightKnown, TypeOK
<1>5. EmailsOnce'
  BY DEF EmailsOnce, TypeOK
<1>. QED BY <1>1, <1>2, <1>3, <1>4, <1>5

\* The reload is answered.
LEMMA SaveReloadedStep ==
  ASSUME Invariant, SaveReloaded
  PROVE  Invariant'
<1>. USE DEF Invariant, SaveReloaded, NoSave, sessionVars, bellVars, historyVars, prefVars, dlqVars, itemVars
<1>1. TypeOK'
  <2>1. SessionTypes' /\ HistoryTypes' BY DEF TypeOK, SessionTypes, HistoryTypes
  <2>2. BellTypes' BY DEF TypeOK, BellTypes
  <2>3. FlagTypes' BY DEF TypeOK, FlagTypes
  <2>4. PrefTypes' BY DEF TypeOK, PrefTypes, SaveKnown
  <2>5. DlqTypes' BY DEF TypeOK, DlqTypes, FlightKnown
  <2>6. ItemTypes' BY DEF TypeOK, ItemTypes
  <2>. QED BY <2>1, <2>2, <2>3, <2>4, <2>5, <2>6, TypesNext
<1>2. SaveKnown' /\ FlightKnown' /\ SocketFollows'
  BY DEF SaveKnown, FlightKnown, SocketFollows, TypeOK
<1>3. SettingsOwn'
  BY DEF SettingsOwn, SaveKnown, TypeOK
<1>4. RetryGuarded'
  BY DEF RetryGuarded, DoubleRetryNeedsLoosening, FlightKnown, TypeOK
<1>5. EmailsOnce'
  BY DEF EmailsOnce, TypeOK
<1>. QED BY <1>1, <1>2, <1>3, <1>4, <1>5

\* The PUT or the reload fails.
LEMMA SaveFailsStep ==
  ASSUME Invariant, SaveFails
  PROVE  Invariant'
<1>. USE DEF Invariant, SaveFails, LeavePut, NoSave, sessionVars, bellVars, historyVars, prefVars, dlqVars, itemVars
<1>1. TypeOK'
  <2>1. SessionTypes' /\ HistoryTypes' BY DEF TypeOK, SessionTypes, HistoryTypes
  <2>2. BellTypes' BY DEF TypeOK, BellTypes
  <2>3. FlagTypes' BY DEF TypeOK, FlagTypes
  <2>4. PrefTypes' BY DEF TypeOK, PrefTypes, SaveKnown
  <2>5. DlqTypes' BY DEF TypeOK, DlqTypes, FlightKnown
  <2>6. ItemTypes' BY DEF TypeOK, ItemTypes
  <2>. QED BY <2>1, <2>2, <2>3, <2>4, <2>5, <2>6, TypesNext
<1>2. SaveKnown' /\ FlightKnown' /\ SocketFollows'
  BY DEF SaveKnown, FlightKnown, SocketFollows, TypeOK
<1>3. SettingsOwn'
  BY DEF SettingsOwn, SaveKnown, TypeOK
<1>4. RetryGuarded'
  BY DEF RetryGuarded, DoubleRetryNeedsLoosening, FlightKnown, TypeOK
<1>5. EmailsOnce'
  BY DEF EmailsOnce, TypeOK
<1>. QED BY <1>1, <1>2, <1>3, <1>4, <1>5

\* An administrator retries a record.
LEMMA ClickRetryStep ==
  ASSUME Invariant, NEW f \in Flight, NEW r \in Record, ClickRetry(f, r)
  PROVE  Invariant'
<1>. USE DEF Invariant, ClickRetry, Posting, sessionVars, bellVars, historyVars, prefVars, dlqVars, itemVars
<1>1. TypeOK'
  <2>1. SessionTypes' /\ HistoryTypes' BY DEF TypeOK, SessionTypes, HistoryTypes
  <2>2. BellTypes' BY DEF TypeOK, BellTypes
  <2>3. FlagTypes' BY DEF TypeOK, FlagTypes
  <2>4. PrefTypes' BY DEF TypeOK, PrefTypes, SaveKnown
  <2>5. DlqTypes' BY DEF TypeOK, DlqTypes, FlightKnown
  <2>6. ItemTypes' BY DEF TypeOK, ItemTypes
  <2>. QED BY <2>1, <2>2, <2>3, <2>4, <2>5, <2>6, TypesNext
<1>2. SaveKnown' /\ FlightKnown' /\ SocketFollows'
  BY DEF SaveKnown, FlightKnown, SocketFollows, TypeOK
<1>3. SettingsOwn'
  BY DEF SettingsOwn, SaveKnown, TypeOK
<1>4. RetryGuarded'
  BY DEF RetryGuarded, DoubleRetryNeedsLoosening, FlightKnown, TypeOK
<1>5. EmailsOnce'
  BY DEF EmailsOnce, TypeOK
<1>. QED BY <1>1, <1>2, <1>3, <1>4, <1>5

\* The back-end takes the retry.
LEMMA RetryPostedStep ==
  ASSUME Invariant, NEW f \in Flight, RetryPosted(f)
  PROVE  Invariant'
<1>. USE DEF Invariant, RetryPosted, sessionVars, bellVars, historyVars, prefVars, dlqVars, itemVars
<1>1. TypeOK'
  <2>1. SessionTypes' /\ HistoryTypes' BY DEF TypeOK, SessionTypes, HistoryTypes
  <2>2. BellTypes' BY DEF TypeOK, BellTypes
  <2>3. FlagTypes' BY DEF TypeOK, FlagTypes
  <2>4. PrefTypes' BY DEF TypeOK, PrefTypes, SaveKnown
  <2>5. DlqTypes'
    <3>. DEFINE R == [stage : {"free", "post", "load"}, rec : Record \cup {None}, here : BOOLEAN]
               new == [flight[f] EXCEPT !.stage = "load"]
    <3>1. flight[f] \in R /\ flight \in [Flight -> R] BY DEF TypeOK
    <3>2. new \in R BY <3>1
    <3>3. flight' = [flight EXCEPT ![f] = new] OBVIOUS
    <3>. HIDE DEF new
    <3>4. flight' \in [Flight -> R] BY <3>1, <3>2, <3>3
    <3>. QED BY <3>4 DEF TypeOK, DlqTypes
  <2>6. ItemTypes' BY DEF TypeOK, ItemTypes
  <2>. QED BY <2>1, <2>2, <2>3, <2>4, <2>5, <2>6, TypesNext
<1>2. SaveKnown' /\ FlightKnown' /\ SocketFollows'
  BY DEF SaveKnown, FlightKnown, SocketFollows, TypeOK
<1>3. SettingsOwn'
  BY DEF SettingsOwn, SaveKnown, TypeOK
<1>4. RetryGuarded'
  BY DEF RetryGuarded, DoubleRetryNeedsLoosening, FlightKnown, TypeOK
<1>5. EmailsOnce'
  BY DEF EmailsOnce, TypeOK
<1>. QED BY <1>1, <1>2, <1>3, <1>4, <1>5

\* The retry is answered, or fails.
LEMMA RetryEndsStep ==
  ASSUME Invariant, NEW f \in Flight, RetryEnds(f)
  PROVE  Invariant'
<1>. USE DEF Invariant, RetryEnds, Posting, NoFlight, sessionVars, bellVars, historyVars, prefVars, dlqVars, itemVars
<1>1. TypeOK'
  <2>1. SessionTypes' /\ HistoryTypes' BY DEF TypeOK, SessionTypes, HistoryTypes
  <2>2. BellTypes' BY DEF TypeOK, BellTypes
  <2>3. FlagTypes' BY DEF TypeOK, FlagTypes
  <2>4. PrefTypes' BY DEF TypeOK, PrefTypes, SaveKnown
  <2>5. DlqTypes' BY DEF TypeOK, DlqTypes, FlightKnown
  <2>6. ItemTypes' BY DEF TypeOK, ItemTypes
  <2>. QED BY <2>1, <2>2, <2>3, <2>4, <2>5, <2>6, TypesNext
<1>2. SaveKnown' /\ FlightKnown' /\ SocketFollows'
  BY DEF SaveKnown, FlightKnown, SocketFollows, TypeOK
<1>3. SettingsOwn'
  BY DEF SettingsOwn, SaveKnown, TypeOK
<1>4. RetryGuarded'
  BY DEF RetryGuarded, DoubleRetryNeedsLoosening, FlightKnown, TypeOK
<1>5. EmailsOnce'
  BY DEF EmailsOnce, TypeOK
<1>. QED BY <1>1, <1>2, <1>3, <1>4, <1>5

\* An item is selected or deselected.
LEMMA ToggleStep ==
  ASSUME Invariant, NEW i \in Thing, Toggle(i)
  PROVE  Invariant'
<1>. USE DEF Invariant, Toggle, sessionVars, bellVars, historyVars, prefVars, dlqVars, itemVars
<1>1. TypeOK'
  <2>1. SessionTypes' /\ HistoryTypes' BY DEF TypeOK, SessionTypes, HistoryTypes
  <2>2. BellTypes' BY DEF TypeOK, BellTypes
  <2>3. FlagTypes' BY DEF TypeOK, FlagTypes
  <2>4. PrefTypes' BY DEF TypeOK, PrefTypes, SaveKnown
  <2>5. DlqTypes' BY DEF TypeOK, DlqTypes, FlightKnown
  <2>6. ItemTypes' BY DEF TypeOK, ItemTypes
  <2>. QED BY <2>1, <2>2, <2>3, <2>4, <2>5, <2>6, TypesNext
<1>2. SaveKnown' /\ FlightKnown' /\ SocketFollows'
  BY DEF SaveKnown, FlightKnown, SocketFollows, TypeOK
<1>3. SettingsOwn'
  BY DEF SettingsOwn, SaveKnown, TypeOK
<1>4. RetryGuarded'
  BY DEF RetryGuarded, DoubleRetryNeedsLoosening, FlightKnown, TypeOK
<1>5. EmailsOnce'
  BY DEF EmailsOnce, TypeOK
<1>. QED BY <1>1, <1>2, <1>3, <1>4, <1>5

\* An order is confirmed.
LEMMA ConfirmStep ==
  ASSUME Invariant, Confirm
  PROVE  Invariant'
<1>. USE DEF Invariant, Confirm, sessionVars, bellVars, historyVars, prefVars, dlqVars, itemVars
<1>1. TypeOK'
  <2>1. SessionTypes' /\ HistoryTypes' BY DEF TypeOK, SessionTypes, HistoryTypes
  <2>2. BellTypes' BY DEF TypeOK, BellTypes
  <2>3. FlagTypes' BY DEF TypeOK, FlagTypes
  <2>4. PrefTypes' BY DEF TypeOK, PrefTypes, SaveKnown
  <2>5. DlqTypes' BY DEF TypeOK, DlqTypes, FlightKnown
  <2>6. ItemTypes' BY DEF TypeOK, ItemTypes
  <2>. QED BY <2>1, <2>2, <2>3, <2>4, <2>5, <2>6, TypesNext
<1>2. SaveKnown' /\ FlightKnown' /\ SocketFollows'
  BY DEF SaveKnown, FlightKnown, SocketFollows, TypeOK
<1>3. SettingsOwn'
  BY DEF SettingsOwn, SaveKnown, TypeOK
<1>4. RetryGuarded'
  BY DEF RetryGuarded, DoubleRetryNeedsLoosening, FlightKnown, TypeOK
<1>5. EmailsOnce'
  BY DEF EmailsOnce, TypeOK
<1>. QED BY <1>1, <1>2, <1>3, <1>4, <1>5

\* Its e-mail is queued.
LEMMA EmailQueuedStep ==
  ASSUME Invariant, EmailQueued
  PROVE  Invariant'
<1>. USE DEF Invariant, EmailQueued, sessionVars, bellVars, historyVars, prefVars, dlqVars, itemVars
<1>1. TypeOK'
  <2>1. SessionTypes' /\ HistoryTypes' BY DEF TypeOK, SessionTypes, HistoryTypes
  <2>2. BellTypes' BY DEF TypeOK, BellTypes
  <2>3. FlagTypes' BY DEF TypeOK, FlagTypes
  <2>4. PrefTypes' BY DEF TypeOK, PrefTypes, SaveKnown
  <2>5. DlqTypes' BY DEF TypeOK, DlqTypes, FlightKnown
  <2>6. ItemTypes' BY DEF TypeOK, ItemTypes
  <2>. QED BY <2>1, <2>2, <2>3, <2>4, <2>5, <2>6, TypesNext
<1>2. SaveKnown' /\ FlightKnown' /\ SocketFollows'
  BY DEF SaveKnown, FlightKnown, SocketFollows, TypeOK
<1>3. SettingsOwn'
  BY DEF SettingsOwn, SaveKnown, TypeOK
<1>4. RetryGuarded'
  BY DEF RetryGuarded, DoubleRetryNeedsLoosening, FlightKnown, TypeOK
<1>5. EmailsOnce'
  BY DEF EmailsOnce, TypeOK
<1>. QED BY <1>1, <1>2, <1>3, <1>4, <1>5

\* The administrators are notified, and the selection is cleared.
LEMMA AdminsNotifiedStep ==
  ASSUME Invariant, AdminsNotified
  PROVE  Invariant'
<1>. USE DEF Invariant, AdminsNotified, sessionVars, bellVars, historyVars, prefVars, dlqVars, itemVars
<1>1. TypeOK'
  <2>1. SessionTypes' /\ HistoryTypes' BY DEF TypeOK, SessionTypes, HistoryTypes
  <2>2. BellTypes' BY DEF TypeOK, BellTypes
  <2>3. FlagTypes' BY DEF TypeOK, FlagTypes
  <2>4. PrefTypes' BY DEF TypeOK, PrefTypes, SaveKnown
  <2>5. DlqTypes' BY DEF TypeOK, DlqTypes, FlightKnown
  <2>6. ItemTypes' BY DEF TypeOK, ItemTypes
  <2>. QED BY <2>1, <2>2, <2>3, <2>4, <2>5, <2>6, TypesNext
<1>2. SaveKnown' /\ FlightKnown' /\ SocketFollows'
  BY DEF SaveKnown, FlightKnown, SocketFollows, TypeOK
<1>3. SettingsOwn'
  BY DEF SettingsOwn, SaveKnown, TypeOK
<1>4. RetryGuarded'
  BY DEF RetryGuarded, DoubleRetryNeedsLoosening, FlightKnown, TypeOK
<1>5. EmailsOnce'
  BY DEF EmailsOnce, TypeOK
<1>. QED BY <1>1, <1>2, <1>3, <1>4, <1>5

\* One of the two calls fails: the selection stays.
LEMMA ConfirmFailsStep ==
  ASSUME Invariant, ConfirmFails
  PROVE  Invariant'
<1>. USE DEF Invariant, ConfirmFails, sessionVars, bellVars, historyVars, prefVars, dlqVars, itemVars
<1>1. TypeOK'
  <2>1. SessionTypes' /\ HistoryTypes' BY DEF TypeOK, SessionTypes, HistoryTypes
  <2>2. BellTypes' BY DEF TypeOK, BellTypes
  <2>3. FlagTypes' BY DEF TypeOK, FlagTypes
  <2>4. PrefTypes' BY DEF TypeOK, PrefTypes, SaveKnown
  <2>5. DlqTypes' BY DEF TypeOK, DlqTypes, FlightKnown
  <2>6. ItemTypes' BY DEF TypeOK, ItemTypes
  <2>. QED BY <2>1, <2>2, <2>3, <2>4, <2>5, <2>6, TypesNext
<1>2. SaveKnown' /\ FlightKnown' /\ SocketFollows'
  BY DEF SaveKnown, FlightKnown, SocketFollows, TypeOK
<1>3. SettingsOwn'
  BY DEF SettingsOwn, SaveKnown, TypeOK
<1>4. RetryGuarded'
  BY DEF RetryGuarded, DoubleRetryNeedsLoosening, FlightKnown, TypeOK
<1>5. EmailsOnce'
  BY DEF EmailsOnce, TypeOK
<1>. QED BY <1>1, <1>2, <1>3, <1>4, <1>5

-----------------------------------------------------------------------------
(* Every step keeps the invariant.                                         *)

\* The lemmas put together: the session and the bell,
LEMMA SessionKeeps ==
  ASSUME Invariant, Session
  PROVE  Invariant'
  BY ConnectedStep, DisconnectedStep, NotifiedStep, ClearStep DEF Session

\* the settings,
LEMMA PreferencesKeep ==
  ASSUME Invariant, Preferences
  PROVE  Invariant'
  BY SaveStep, SaveDoneStep, SaveReloadedStep, SaveFailsStep DEF Preferences

\* the items.
LEMMA ItemsKeep ==
  ASSUME Invariant, Items
  PROVE  Invariant'
  BY ConfirmStep, EmailQueuedStep, AdminsNotifiedStep, ConfirmFailsStep DEF Items

\* A stutter changes nothing.
LEMMA StutterKeeps ==
  ASSUME Invariant, UNCHANGED vars
  PROVE  Invariant'
<1>. USE DEF Invariant, vars, sessionVars, bellVars, historyVars, prefVars, dlqVars, itemVars
<1>1. TypeOK'
  <2>1. SessionTypes' /\ HistoryTypes' BY DEF TypeOK, SessionTypes, HistoryTypes
  <2>2. BellTypes' /\ FlagTypes' BY DEF TypeOK, BellTypes, FlagTypes
  <2>3. PrefTypes' BY DEF TypeOK, PrefTypes
  <2>4. DlqTypes' /\ ItemTypes' BY DEF TypeOK, DlqTypes, ItemTypes
  <2>. QED BY <2>1, <2>2, <2>3, <2>4, TypesNext
<1>2. SaveKnown' /\ FlightKnown' /\ SocketFollows' BY DEF SaveKnown, FlightKnown, SocketFollows
<1>3. SettingsOwn' BY DEF SettingsOwn
<1>4. RetryGuarded' BY DEF RetryGuarded, DoubleRetryNeedsLoosening
<1>5. EmailsOnce' BY DEF EmailsOnce
<1>. QED BY <1>1, <1>2, <1>3, <1>4, <1>5

\* Every step preserves the whole invariant.
LEMMA NextInvariant == Invariant /\ [Next]_vars => Invariant'
<1>. SUFFICES ASSUME Invariant, [Next]_vars PROVE Invariant'
  OBVIOUS
<1>1. CASE Session BY <1>1, SessionKeeps
<1>2. CASE Preferences BY <1>2, PreferencesKeep
<1>3. CASE Items BY <1>3, ItemsKeep
<1>4. ASSUME NEW u \in User, SwitchUser(u) \/ RowsArrive(u) \/ Poll(u) \/ HistoryArrives(u) \/ HistoryFails(u)
      PROVE  Invariant'
  BY <1>4, SwitchUserStep, RowsArriveStep, PollStep, HistoryArrivesStep, HistoryFailsStep
<1>5. ASSUME NEW p \in Page, Navigate(p) PROVE Invariant'
  BY <1>5, NavigateStep
<1>6. ASSUME NEW f \in Flight, RetryPosted(f) \/ RetryEnds(f) PROVE Invariant'
  BY <1>6, RetryPostedStep, RetryEndsStep
<1>7. ASSUME NEW f \in Flight, NEW r \in Record, ClickRetry(f, r) PROVE Invariant'
  BY <1>7, ClickRetryStep
<1>8. ASSUME NEW i \in Thing, Toggle(i) PROVE Invariant'
  BY <1>8, ToggleStep
<1>9. CASE UNCHANGED vars BY <1>9, StutterKeeps
<1>. QED BY <1>1, <1>2, <1>3, <1>4, <1>5, <1>6, <1>7, <1>8, <1>9 DEF Next

\* The invariant holds of every behaviour of the tab.
THEOREM InvariantHolds == Spec => []Invariant
  BY InitInvariant, NextInvariant, PTL DEF Spec

-----------------------------------------------------------------------------
(* The properties.                                                         *)

\* Every variable keeps its type: the bell is never longer than what it keeps.
THEOREM TypeCorrect == Spec => []TypeOK
<1>1. Invariant => TypeOK BY DEF Invariant
<1>. QED BY <1>1, InvariantHolds, PTL

\* "Live" is shown only while a socket of the current user is connected.
THEOREM LiveIsCurrent == Spec => []LiveMeansCurrent
<1>1. Invariant => LiveMeansCurrent BY DEF Invariant, SocketFollows, LiveMeansCurrent
<1>. QED BY <1>1, InvariantHolds, PTL

\* One user's settings are stored for another only after a switch of user with
\* the preferences page open.
THEOREM SettingsStayApart == Spec => []SettingsCrossByASwitchOnly
<1>1. Invariant => SettingsCrossByASwitchOnly
  BY DEF Invariant, SettingsOwn, SettingsCrossByASwitchOnly
<1>. QED BY <1>1, InvariantHolds, PTL

\* One record is retried twice at once only if something re-enabled its button.
THEOREM DoubleRetryIsLoosened == Spec => []DoubleRetryNeedsLoosening
<1>1. Invariant => DoubleRetryNeedsLoosening BY DEF Invariant, RetryGuarded
<1>. QED BY <1>1, InvariantHolds, PTL

\* What the bell gains is for the user who is current at that moment.
THEOREM BellIsCurrent == Spec => BellHearsCurrent
<1>1. Invariant /\ [Next]_vars => [bell' # bell => bell' = <<>> \/ Head(bell') = current]_vars
  <2>. SUFFICES ASSUME Invariant, Next, bell' # bell PROVE bell' = <<>> \/ Head(bell') = current
    BY DEF vars
  <2>1. Notified \/ Clear
    BY DEF Next, Session, Preferences, Items, Connected, Disconnected, Save, SaveDone, SaveReloaded,
           SaveFails, Confirm, EmailQueued, AdminsNotified, ConfirmFails, SwitchUser, RowsArrive, Poll,
           HistoryArrives, HistoryFails, Navigate, RetryPosted, RetryEnds, ClickRetry, Toggle, bellVars
  <2>2. CASE Notified
    BY <2>2, Prepended DEF Notified, Invariant, TypeOK, SocketFollows
  <2>3. CASE Clear
    BY <2>3 DEF Clear
  <2>. QED BY <2>1, <2>2, <2>3
<1>. QED BY <1>1, InvariantHolds, PTL DEF Spec, BellHearsCurrent

\* Items are emailed about a second time only after an error was shown.
THEOREM SecondEmailIsAfterError == Spec => SecondEmailNeedsError
<1>1. Invariant => [(stage = "send" /\ stage' = "batch") => order \cap ordered = {} \/ erred]_vars
  BY DEF Invariant, EmailsOnce
<1>. QED BY <1>1, InvariantHolds, PTL DEF Spec, SecondEmailNeedsError
=============================================================================
