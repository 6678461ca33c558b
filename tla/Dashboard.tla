----------------------------- MODULE Dashboard -----------------------------
(***************************************************************************)
(* The front-end in one browser tab: the user switcher (UserProvider, Nav),*)
(* the socket and the NotificationBell that live as long as the tab, and   *)
(* the four pages, one mounted at a time, each with its requests in        *)
(* flight.  A response reaches the state of the page that asked for it if  *)
(* that page is still mounted, whoever the current user is by then.        *)
(*                                                                         *)
(* A user's settings are abstracted to the user they were entered for.     *)
(***************************************************************************)
EXTENDS Naturals, Sequences, FiniteSets

CONSTANTS
  User,       \* what GET /users returns
  Record,     \* the dead-letter records
  Thing,      \* the items for sale
  Flight,     \* bound: DLQ retries in flight at once
  MaxLoads,   \* bound: loads in flight at once, per user
  Kept,       \* how many notifications the bell keeps (30)
  None

ASSUME DashboardBounds == MaxLoads \in Nat \ {0} /\ Kept \in Nat \ {0}
ASSUME NoneIsNobody == None \notin User \cup Record

Page == {"items", "history", "preferences", "dlq"}

VARIABLES
  current, page,                      \* the acting user, the mounted page
  sockUser, sockUp, live, bell,       \* lib/socket.ts, NotificationBell
  view, loads, timers,                \* history: whose logs are shown, loads in
                                      \* flight per user, the users polled for
  rows, rowLoads, save, stored,       \* preferences: whose settings are shown, loads in
                                      \* flight, the save in flight, what the server holds
  retrying, flight,                   \* dlq: the disabled button, the retries
  selected, order, stage, message,    \* items: the selection, the confirm in flight
  crossed, loosened, ordered, erred   \* history the properties read

sessionVars == <<current, page>>
bellVars    == <<sockUser, sockUp, live, bell>>
historyVars == <<view, loads, timers>>
prefVars    == <<rows, rowLoads, save>>
dlqVars     == <<retrying, flight>>
itemVars    == <<selected, order, stage, message>>
vars == <<sessionVars, bellVars, historyVars, prefVars, stored, dlqVars, itemVars,
          crossed, loosened, ordered, erred>>

NoSave   == [stage |-> "none", for |-> None, rows |-> None]
NoFlight == [stage |-> "free", rec |-> None, here |-> FALSE]

TypeOK ==
  /\ current \in User \cup {None}
  /\ page \in Page
  /\ sockUser \in User \cup {None}
  /\ sockUp \in BOOLEAN /\ live \in BOOLEAN
  /\ bell \in Seq(User) /\ Len(bell) <= Kept
  /\ view \in User \cup {None}
  /\ loads \in [User -> 0 .. MaxLoads]
  /\ timers \subseteq User
  /\ rows \in User \cup {None}
  /\ rowLoads \in [User -> 0 .. MaxLoads]
  /\ save \in [stage : {"none", "put", "reload"}, for : User \cup {None}, rows : User \cup {None}]
  /\ stored \in [User -> User]
  /\ retrying \in Record \cup {None}
  /\ flight \in [Flight -> [stage : {"free", "post", "load"}, rec : Record \cup {None},
                          here : BOOLEAN]]
  /\ selected \subseteq Thing
  /\ order \subseteq Thing
  /\ stage \in {"none", "send", "batch"}
  /\ message \in {"none", "ok", "err"}
  /\ crossed \in BOOLEAN /\ erred \in BOOLEAN
  /\ loosened \subseteq Record
  /\ ordered \subseteq Thing

NoLoads == [u \in User |-> 0]

\* What a user counts as: one load in flight, one interval, or nothing for nobody.
One(u) == [v \in User |-> IF v = u THEN 1 ELSE 0]
Just(u) == {u} \ {None}

Init ==
  /\ current = None /\ page = "items"
  /\ sockUser = None /\ sockUp = FALSE /\ live = FALSE /\ bell = <<>>
  /\ view = None /\ loads = NoLoads /\ timers = {}
  /\ rows = None /\ rowLoads = NoLoads /\ save = NoSave
  /\ stored = [u \in User |-> u]
  /\ retrying = None /\ flight = [f \in Flight |-> NoFlight]
  /\ selected = {} /\ order = {} /\ stage = "none" /\ message = "none"
  /\ crossed = FALSE /\ loosened = {} /\ ordered = {} /\ erred = FALSE

-----------------------------------------------------------------------------
(* UserProvider, NotificationBell, lib/socket.ts.                          *)

\* Mutants of GetSocket: the bell is not told, and the socket is made once, whoever
\* asks for it.
GetSocketSilently(u) == sockUser' = u /\ sockUp' = FALSE /\ live' = live

GetSocketOnce(u) ==
  IF sockUser # None THEN UNCHANGED <<sockUser, sockUp>> /\ live' = sockUp
  ELSE sockUser' = u /\ sockUp' = FALSE /\ live' = FALSE

\* getSocket: the other user's socket is disconnected and a new one made, which
\* is not connected yet; the bell shows its state.
GetSocket(u) == sockUser' = u /\ sockUp' = FALSE /\ live' = FALSE

AddLoad(counts, u) == [counts EXCEPT ![u] = @ + 1]

\* Mutant of HistoryEffect: the interval is not cleared.
HistoryEffectLeaking(u) ==
  IF page = "history"
  THEN loads' = AddLoad(loads, u) /\ timers' = timers \cup {u}
  ELSE UNCHANGED <<loads, timers>>

\* The history page's effect: clearInterval, load, setInterval.
HistoryEffect(u) ==
  IF page = "history"
  THEN loads' = AddLoad(loads, u) /\ timers' = {u}
  ELSE UNCHANGED <<loads, timers>>

\* The preferences page's effect: load.
PreferencesEffect(u) ==
  rowLoads' = IF page = "preferences" THEN AddLoad(rowLoads, u) ELSE rowLoads

\* The users list has arrived (u was saved in localStorage, or is the first), or
\* another user is chosen; the effects that depend on currentUser run again.
SwitchUser(u) ==
  /\ u # current
  /\ page = "history" => loads[u] < MaxLoads
  /\ page = "preferences" => rowLoads[u] < MaxLoads
  /\ current' = u
  /\ GetSocket(u)
  /\ HistoryEffect(u)
  /\ PreferencesEffect(u)
  /\ crossed' = (crossed \/ (page = "preferences" /\ current # None))
  /\ UNCHANGED <<page, bell, view, rows, save, stored, dlqVars, itemVars, loosened, ordered, erred>>

\* The socket's 'connect' and 'disconnect' events.
Connected ==
  /\ sockUser # None /\ ~sockUp
  /\ sockUp' = TRUE /\ live' = TRUE
  /\ UNCHANGED <<sessionVars, sockUser, bell, historyVars, prefVars, stored, dlqVars, itemVars,
                 crossed, loosened, ordered, erred>>

Disconnected ==
  /\ sockUp
  /\ sockUp' = FALSE /\ live' = FALSE
  /\ UNCHANGED <<sessionVars, sockUser, bell, historyVars, prefVars, stored, dlqVars, itemVars,
                 crossed, loosened, ordered, erred>>

\* Mutant of Prepend: one too many is kept.
PrependLong(n) == SubSeq(<<n>> \o bell, 1, IF Len(bell) < Kept THEN Len(bell) + 1 ELSE Kept + 1)

\* setItems: newest first, the oldest falls off.
Prepend(n) == SubSeq(<<n>> \o bell, 1, IF Len(bell) < Kept THEN Len(bell) + 1 ELSE Kept)

\* A 'notification' event for a room the socket's user is in.
Notified ==
  /\ sockUp
  /\ bell' = Prepend(sockUser)
  /\ UNCHANGED <<sessionVars, sockUser, sockUp, live, historyVars, prefVars, stored, dlqVars,
                 itemVars, crossed, loosened, ordered, erred>>

Clear ==
  /\ bell # <<>>
  /\ bell' = <<>>
  /\ UNCHANGED <<sessionVars, sockUser, sockUp, live, historyVars, prefVars, stored, dlqVars,
                 itemVars, crossed, loosened, ordered, erred>>

-----------------------------------------------------------------------------
(* Navigation: a page is mounted with fresh state and its first load.      *)

\* The records whose retry is still in flight.
Posting(F) == {flight[f].rec : f \in {g \in F : flight[g].stage = "post"}}

\* A PUT that the page no longer waits for, or whose answer is lost, has reached the
\* server or has not.
LeavePut ==
  \/ UNCHANGED stored
  \/ save.stage = "put" /\ save.rows # None /\ stored' = [stored EXCEPT ![save.for] = save.rows]

MountHistory(p) ==
  /\ view' = None
  /\ loads' = IF p = "history" THEN One(current) ELSE NoLoads
  /\ timers' = IF p = "history" THEN Just(current) ELSE {}

\* Mutant of MountPreferences: the page's state outlives it.
MountPreferencesStale(p) ==
  /\ rowLoads' = IF p = "preferences" THEN One(current) ELSE NoLoads
  /\ rows' = rows
  /\ save' = NoSave

MountPreferences(p) ==
  /\ rowLoads' = IF p = "preferences" THEN One(current) ELSE NoLoads
  /\ rows' = None
  /\ save' = NoSave

\* POSTs in flight go on; the page that sent them, or loads its list, is gone.  So
\* does a confirm, but what it does from here on concerns no page any more.
Navigate(p) ==
  /\ p # page
  /\ page' = p
  /\ MountHistory(p)
  /\ MountPreferences(p) /\ LeavePut
  /\ retrying' = None /\ flight' = [f \in Flight |-> IF flight[f].stage = "post"
                                                  THEN [flight[f] EXCEPT !.here = FALSE]
                                                  ELSE NoFlight]
  /\ loosened' = loosened \cup Posting(Flight)
  /\ selected' = {} /\ order' = {} /\ stage' = "none" /\ message' = "none"
  /\ ordered' = {} /\ erred' = FALSE
  /\ UNCHANGED <<current, bellVars, crossed>>

-----------------------------------------------------------------------------
(* The history page.                                                       *)

\* The interval fires, or Refresh is pressed.
Poll(u) ==
  /\ u \in timers
  /\ loads[u] < MaxLoads
  /\ loads' = AddLoad(loads, u)
  /\ UNCHANGED <<sessionVars, bellVars, view, timers, prefVars, stored, dlqVars, itemVars,
                 crossed, loosened, ordered, erred>>

\* setLogs with whatever answer arrives, in whatever order.
HistoryArrives(u) ==
  /\ loads[u] > 0
  /\ loads' = [loads EXCEPT ![u] = @ - 1]
  /\ view' = u
  /\ UNCHANGED <<sessionVars, bellVars, timers, prefVars, stored, dlqVars, itemVars,
                 crossed, loosened, ordered, erred>>

HistoryFails(u) ==
  /\ loads[u] > 0
  /\ loads' = [loads EXCEPT ![u] = @ - 1]
  /\ UNCHANGED <<sessionVars, bellVars, view, timers, prefVars, stored, dlqVars, itemVars,
                 crossed, loosened, ordered, erred>>

-----------------------------------------------------------------------------
(* The preferences page.                                                   *)

\* A load answers with what the server holds for u, or fails.
RowsArrive(u) ==
  /\ rowLoads[u] > 0
  /\ rowLoads' = [rowLoads EXCEPT ![u] = @ - 1]
  /\ \/ rows' = stored[u]
     \/ UNCHANGED rows
  /\ UNCHANGED <<sessionVars, bellVars, historyVars, save, stored, dlqVars, itemVars,
                 crossed, loosened, ordered, erred>>

\* save: PUT the rows shown, for the current user.
Save ==
  /\ page = "preferences" /\ current # None /\ save.stage = "none"
  /\ save' = [stage |-> "put", for |-> current, rows |-> rows]
  /\ UNCHANGED <<sessionVars, bellVars, historyVars, rows, rowLoads, stored, dlqVars, itemVars,
                 crossed, loosened, ordered, erred>>

\* It is answered, and the rows of the user it was sent for are loaded again;
\* without rows there was nothing to store.
SaveDone ==
  /\ save.stage = "put"
  /\ stored' = IF save.rows = None THEN stored ELSE [stored EXCEPT ![save.for] = save.rows]
  /\ save' = [save EXCEPT !.stage = "reload"]
  /\ UNCHANGED <<sessionVars, bellVars, historyVars, rows, rowLoads, dlqVars, itemVars,
                 crossed, loosened, ordered, erred>>

\* That load answers, and the button is enabled again.
SaveReloaded ==
  /\ save.stage = "reload"
  /\ rows' = stored[save.for]
  /\ save' = NoSave
  /\ UNCHANGED <<sessionVars, bellVars, historyVars, rowLoads, stored, dlqVars, itemVars,
                 crossed, loosened, ordered, erred>>

\* Either request fails, the PUT perhaps after it was stored.
SaveFails ==
  /\ save.stage # "none"
  /\ LeavePut
  /\ save' = NoSave
  /\ UNCHANGED <<sessionVars, bellVars, historyVars, rows, rowLoads, dlqVars, itemVars,
                 crossed, loosened, ordered, erred>>

-----------------------------------------------------------------------------
(* The dead-letter page.                                                   *)

\* Mutant of ClickRetry: the button is never disabled.
ClickRetryAlways(f, r) ==
  /\ page = "dlq" /\ flight[f].stage = "free"
  /\ flight' = [flight EXCEPT ![f] = [stage |-> "post", rec |-> r, here |-> TRUE]]
  /\ retrying' = r
  /\ loosened' = loosened \cup (Posting(Flight) \ {r})
  /\ UNCHANGED <<sessionVars, bellVars, historyVars, prefVars, stored, itemVars,
                 crossed, ordered, erred>>

\* retry(id): the button of `retrying`, and of no other record, is disabled.
ClickRetry(f, r) ==
  /\ page = "dlq" /\ flight[f].stage = "free"
  /\ retrying # r
  /\ flight' = [flight EXCEPT ![f] = [stage |-> "post", rec |-> r, here |-> TRUE]]
  /\ retrying' = r
  /\ loosened' = loosened \cup (Posting(Flight) \ {r})
  /\ UNCHANGED <<sessionVars, bellVars, historyVars, prefVars, stored, itemVars,
                 crossed, ordered, erred>>

\* The POST is answered; the list is loaded again.
RetryPosted(f) ==
  /\ flight[f].stage = "post" /\ flight[f].here
  /\ flight' = [flight EXCEPT ![f].stage = "load"]
  /\ UNCHANGED <<sessionVars, bellVars, historyVars, prefVars, stored, retrying, itemVars,
                 crossed, loosened, ordered, erred>>

\* finally: setRetrying(null), whatever record is being retried by then; nothing
\* if the page is gone.
RetryEnds(f) ==
  /\ flight[f].stage # "free"
  /\ flight' = [flight EXCEPT ![f] = NoFlight]
  /\ IF flight[f].here
     THEN retrying' = None /\ loosened' = loosened \cup Posting(Flight \ {f})
     ELSE UNCHANGED <<retrying, loosened>>
  /\ UNCHANGED <<sessionVars, bellVars, historyVars, prefVars, stored, itemVars,
                 crossed, ordered, erred>>

-----------------------------------------------------------------------------
(* The items page.                                                         *)

\* An item is toggled, also while a confirm is in flight.
Toggle(i) ==
  /\ page = "items"
  /\ selected' = IF i \in selected THEN selected \ {i} ELSE selected \cup {i}
  /\ ordered' = ordered \ {i}
  /\ UNCHANGED <<sessionVars, bellVars, historyVars, prefVars, stored, dlqVars, order, stage,
                 message, crossed, loosened, erred>>

\* confirm: the button is disabled while busy and without a selection.
Confirm ==
  /\ page = "items" /\ current # None
  /\ stage = "none" /\ selected # {}
  /\ stage' = "send" /\ order' = selected /\ message' = "none"
  /\ UNCHANGED <<sessionVars, bellVars, historyVars, prefVars, stored, dlqVars, selected,
                 crossed, loosened, ordered, erred>>

\* The confirmation email is queued.
EmailQueued ==
  /\ stage = "send"
  /\ stage' = "batch"
  /\ ordered' = ordered \cup order
  /\ UNCHANGED <<sessionVars, bellVars, historyVars, prefVars, stored, dlqVars, selected, order,
                 message, crossed, loosened, erred>>

\* Mutant of AdminsNotified: the selection stays.
AdminsNotifiedOnly ==
  /\ stage = "batch"
  /\ stage' = "none" /\ order' = {} /\ message' = "ok" /\ erred' = FALSE
  /\ UNCHANGED <<sessionVars, bellVars, historyVars, prefVars, stored, dlqVars, selected,
                 crossed, loosened, ordered>>

\* The broadcast is answered: the order is done, the selection is emptied.
AdminsNotified ==
  /\ stage = "batch"
  /\ stage' = "none" /\ order' = {} /\ message' = "ok"
  /\ selected' = {} /\ erred' = FALSE
  /\ UNCHANGED <<sessionVars, bellVars, historyVars, prefVars, stored, dlqVars,
                 crossed, loosened, ordered>>

\* Either request fails: an error, and the selection as it was.
ConfirmFails ==
  /\ stage # "none"
  /\ stage' = "none" /\ order' = {} /\ message' = "err"
  /\ erred' = TRUE
  /\ UNCHANGED <<sessionVars, bellVars, historyVars, prefVars, stored, dlqVars, selected,
                 crossed, loosened, ordered>>

-----------------------------------------------------------------------------
Session == Connected \/ Disconnected \/ Notified \/ Clear

Preferences == Save \/ SaveDone \/ SaveReloaded \/ SaveFails

Items == Confirm \/ EmailQueued \/ AdminsNotified \/ ConfirmFails

Next ==
  \/ Session \/ Preferences \/ Items
  \/ \E u \in User : \/ SwitchUser(u) \/ RowsArrive(u)
                     \/ Poll(u) \/ HistoryArrives(u) \/ HistoryFails(u)
  \/ \E p \in Page : Navigate(p)
  \/ \E f \in Flight : \/ RetryPosted(f) \/ RetryEnds(f)
                       \/ \E r \in Record : ClickRetry(f, r)
  \/ \E i \in Thing : Toggle(i)

Spec == Init /\ [][Next]_vars

\* Intervals fire, and the API answers some of the loads it is asked for.
FairSpec == Spec /\ \A u \in User : WF_vars(Poll(u)) /\ SF_vars(HistoryArrives(u))

-----------------------------------------------------------------------------
\* Only notifications for the user who is current when they come are added to
\* the bell (NotificationBell, getSocket).
BellHearsCurrent ==
  [][bell' # bell => bell' = <<>> \/ Head(bell') = current]_vars

\* The bell's "Live" means that a socket of the current user is connected.
LiveMeansCurrent == live => sockUp /\ sockUser = current

\* A user who stays on the history page ends up seeing his own log and no one
\* else's, though answers to loads for another user may still be on the way.
HistoryCatchesUp ==
  \A u \in User : <>[](current = u /\ page = "history") => <>[](view = u)

\* What is stored for a user was entered for that user, unless the user was
\* switched while the preferences page was open.
SettingsCrossByASwitchOnly == (\E u \in User : stored[u] # u) => crossed

\* The same dead-letter record is being retried twice at once only if its button
\* was enabled again by another record's retry, or by leaving the page.
DoubleRetryNeedsLoosening ==
  \A f, g \in Flight :
    (f # g /\ flight[f].stage = "post" /\ flight[g].stage = "post" /\ flight[f].rec = flight[g].rec)
      => flight[f].rec \in loosened

\* A second confirmation email for items that were not selected anew is sent
\* only after an error was shown.
SecondEmailNeedsError ==
  [][(stage = "send" /\ stage' = "batch") => order \cap ordered = {} \/ erred]_vars

\* app/preferences/page.tsx:79, "set quiet hours (in your timezone": the settings
\* a user saves are his own.
StoresOwnSettings == \A u \in User : stored[u] = u
=============================================================================
