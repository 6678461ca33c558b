----------------------------- MODULE Preferences -----------------------------
(***************************************************************************)
(* Who writes user_preferences, and the tables it depends on: PUT          *)
(* /preferences/:userId (PreferencesService.update), which upserts one     *)
(* channel after the other, and the seed (seed.ts), which inserts what is  *)
(* missing and may be run again, also while the API serves requests.       *)
(*                                                                         *)
(* Every statement is a step of its own and may reject.  A row's settings  *)
(* (opt-in, quiet hours) are abstracted to the request that wrote them,    *)
(* its priority to the request that chose it: a PUT need not choose one.   *)
(***************************************************************************)
EXTENDS Naturals, Sequences

CONSTANTS
  Dev, Admin,   \* the users the seed creates
  Ghost,        \* an id without a user
  Addressed,    \* the ids PUTs name
  Put,          \* PUT requests
  Run,          \* runs of the seed
  Bodies,       \* what a PUT may carry
  Seed,         \* the seed, as the writer of a row
  Default,      \* the priority 100 of a new row, for which the PUT named none
  None

Channel  == {"EMAIL", "IN_APP", "SMS"}
Template == {"order_confirmed", "admin_bulk_action"}
User     == {Dev, Admin}
Actor    == Put \cup Run

\* One PreferenceItemDto: its channel, and whether it names a priority.
Item == [channel : Channel, prioritised : BOOLEAN]

Row == [by : Put \cup {Seed}, priority : Put \cup {Seed, Default}]

ASSUME NamesAssumption ==
  /\ Dev # Admin /\ Ghost \notin User /\ None \notin User \cup {Ghost} \cup Row
  /\ Put \cap Run = {} /\ Seed \notin Put /\ Default \notin Put
ASSUME RequestsAssumption == Bodies \subseteq Seq(Item) /\ Addressed \subseteq User \cup {Ghost}

\* What the seed inserts, in its order.
UserRow(u)    == [table |-> "users", user |-> u, name |-> "-"]
PrefRow(u, c) == [table |-> "user_preferences", user |-> u, name |-> c]
TemplateRow(n) == [table |-> "notification_templates", user |-> None, name |-> n]

Plan == << UserRow(Dev), UserRow(Admin),
           PrefRow(Dev, "EMAIL"), PrefRow(Dev, "IN_APP"),
           PrefRow(Admin, "EMAIL"), PrefRow(Admin, "IN_APP"),
           TemplateRow("order_confirmed"), TemplateRow("admin_bulk_action") >>

VARIABLES
  users, templates,   \* the rows of the tables that only the seed fills
  prefs,              \* user_preferences, by its unique key
  pc, at, found,      \* per request and run: where it is, at which item or row,
                      \* what findOne returned
  who, body,          \* per PUT: its path and body
  answer,             \* per PUT: what getForUser returned
  before, rejected    \* history: who had ended when one began; whose statement rejected

tables   == <<users, templates, prefs>>
locals   == <<pc, at, found>>
requests == <<who, body, answer>>
history  == <<before, rejected>>
vars == <<tables, locals, requests, history>>

NoRows == [c \in Channel |-> None]

TypeOK ==
  /\ users \subseteq User
  /\ templates \subseteq Template
  /\ prefs \in [User -> [Channel -> Row \cup {None}]]
  /\ pc \in [Actor -> {"idle", "find", "write", "list", "done", "failed"}]
  /\ at \in [Actor -> Nat]
  /\ \A s \in Run : at[s] \in 1 .. Len(Plan)
  /\ who \in [Put -> User \cup {Ghost, None}]
  /\ body \in [Put -> Seq(Item)]
  /\ \A a \in Put : pc[a] \in {"find", "write"} => at[a] \in 1 .. Len(body[a])
  /\ found \in [Actor -> Row \cup {None}]
  /\ answer \in [Put -> [Channel -> Row \cup {None}]]
  /\ before \in [Actor -> SUBSET Actor]
  /\ rejected \subseteq Actor

\* The tables as the migration leaves them.
Init ==
  /\ users = {} /\ templates = {}
  /\ prefs = [u \in User |-> NoRows]
  /\ pc = [x \in Actor |-> "idle"]
  /\ at = [x \in Actor |-> 1]
  /\ who = [a \in Put |-> None]
  /\ body = [a \in Put |-> <<>>]
  /\ found = [x \in Actor |-> None]
  /\ answer = [a \in Put |-> NoRows]
  /\ before = [x \in Actor |-> {}]
  /\ rejected = {}

Goto(x, step) == pc' = [pc EXCEPT ![x] = step]

\* Promised or thrown: the loop's variables are gone.
End(x, outcome) ==
  /\ Goto(x, outcome)
  /\ at' = [at EXCEPT ![x] = 1]
  /\ found' = [found EXCEPT ![x] = None]

Ended(x) == pc[x] \in {"done", "failed"}

Begin(x) == before' = [before EXCEPT ![x] = {y \in Actor : Ended(y)}]

\* Any awaited statement may reject, and the process may die on it.
Reject(x) ==
  /\ pc[x] \in {"find", "write", "list"}
  /\ End(x, "failed")
  /\ rejected' = rejected \cup {x}
  /\ UNCHANGED <<tables, requests, before>>

-----------------------------------------------------------------------------
(* PreferencesService.update.                                              *)

Stored(u) == IF u \in User THEN prefs[u] ELSE NoRows

ItemOf(a) == body[a][at[a]]

\* The request, up to the first await of the loop, or to getForUser.
PutArrive(a) ==
  /\ pc[a] = "idle"
  /\ \E u \in Addressed \cap (users \cup {Ghost}), b \in Bodies :
       /\ who' = [who EXCEPT ![a] = u]
       /\ body' = [body EXCEPT ![a] = b]
       /\ Goto(a, IF b = <<>> THEN "list" ELSE "find")
  /\ Begin(a)
  /\ UNCHANGED <<tables, at, found, answer, rejected>>

\* repo.findOne.
PutFind(a) ==
  /\ pc[a] = "find"
  /\ found' = [found EXCEPT ![a] = Stored(who[a])[ItemOf(a).channel]]
  /\ Goto(a, "write")
  /\ UNCHANGED <<tables, at, requests, history>>

\* Mutants of NextItem: one item too many, and a return out of the loop.
NextItemPastEnd(a) ==
  IF at[a] <= Len(body[a])
  THEN /\ Goto(a, "find")
       /\ at' = [at EXCEPT ![a] = @ + 1]
       /\ found' = [found EXCEPT ![a] = None]
  ELSE End(a, "list")

NextItemNever(a) == End(a, "list")

\* The loop goes on, and ends in getForUser.
NextItem(a) ==
  IF at[a] < Len(body[a])
  THEN /\ Goto(a, "find")
       /\ at' = [at EXCEPT ![a] = @ + 1]
       /\ found' = [found EXCEPT ![a] = None]
  ELSE End(a, "list")

WriteRow(a, priority) ==
  prefs' = [prefs EXCEPT ![who[a]][ItemOf(a).channel] =
              [by |-> a, priority |-> IF ItemOf(a).prioritised THEN a ELSE priority]]

\* Mutant of PutUpdate: an unnamed priority is reset.
PutUpdateResetting(a) ==
  /\ pc[a] = "write"
  /\ found[a] # None
  /\ WriteRow(a, Default)
  /\ NextItem(a)
  /\ UNCHANGED <<users, templates, requests, history>>

\* repo.update of the row found; it keeps the priority findOne saw.
PutUpdate(a) ==
  /\ pc[a] = "write"
  /\ found[a] # None
  /\ WriteRow(a, found[a].priority)
  /\ NextItem(a)
  /\ UNCHANGED <<users, templates, requests, history>>

\* Nothing holds a new row: UQ_user_channel and FK_pref_user.
MayInsert(u, c) == u \in users /\ prefs[u][c] = None

\* repo.save of a new row.
PutInsert(a) ==
  /\ pc[a] = "write"
  /\ found[a] = None
  /\ MayInsert(who[a], ItemOf(a).channel)
  /\ WriteRow(a, Default)
  /\ NextItem(a)
  /\ UNCHANGED <<users, templates, requests, history>>

\* The constraint refuses it, and update rejects.
PutRefused(a) ==
  /\ pc[a] = "write"
  /\ found[a] = None
  /\ ~MayInsert(who[a], ItemOf(a).channel)
  /\ End(a, "failed")
  /\ UNCHANGED <<tables, requests, history>>

\* Mutant of PutList: a loop nobody awaits.
PutListUnawaited(a) ==
  /\ pc[a] \in {"find", "write", "list"}
  /\ answer' = [answer EXCEPT ![a] = Stored(who[a])]
  /\ End(a, "done")
  /\ UNCHANGED <<tables, who, body, history>>

\* getForUser.
PutList(a) ==
  /\ pc[a] = "list"
  /\ answer' = [answer EXCEPT ![a] = Stored(who[a])]
  /\ End(a, "done")
  /\ UNCHANGED <<tables, who, body, history>>

-----------------------------------------------------------------------------
(* seed().                                                                 *)

Present(r) ==
  CASE r.table = "users"                  -> r.user \in users
    [] r.table = "user_preferences"       -> prefs[r.user][r.name] # None
    [] r.table = "notification_templates" -> r.name \in templates

Insert(r) ==
  /\ users' = IF r.table = "users" THEN users \cup {r.user} ELSE users
  /\ templates' = IF r.table = "notification_templates" THEN templates \cup {r.name} ELSE templates
  /\ prefs' = IF r.table = "user_preferences"
              THEN [prefs EXCEPT ![r.user][r.name] = [by |-> Seed, priority |-> Seed]]
              ELSE prefs

SeedStart(s) ==
  /\ pc[s] = "idle"
  /\ Goto(s, "find")
  /\ Begin(s)
  /\ UNCHANGED <<tables, at, found, requests, rejected>>

NextRow(s) ==
  IF at[s] < Len(Plan)
  THEN at' = [at EXCEPT ![s] = @ + 1] /\ Goto(s, "find") /\ found' = found
  ELSE End(s, "done")

\* Mutants of SeedFind: nobody looks, and the first row found ends the run.
SeedFindNothing(s) ==
  /\ pc[s] = "find"
  /\ Goto(s, "write") /\ UNCHANGED <<at, found>>
  /\ UNCHANGED <<tables, requests, history>>

SeedFindOnce(s) ==
  /\ pc[s] = "find"
  /\ IF Present(Plan[at[s]]) THEN End(s, "done") ELSE Goto(s, "write") /\ UNCHANGED <<at, found>>
  /\ UNCHANGED <<tables, requests, history>>

\* findOne by the row's unique key: what is there is left alone.
SeedFind(s) ==
  /\ pc[s] = "find"
  /\ IF Present(Plan[at[s]]) THEN NextRow(s) ELSE Goto(s, "write") /\ UNCHANGED <<at, found>>
  /\ UNCHANGED <<tables, requests, history>>

\* save, unless somebody else has inserted the row meanwhile.
SeedSave(s) ==
  /\ pc[s] = "write"
  /\ ~Present(Plan[at[s]])
  /\ Insert(Plan[at[s]])
  /\ NextRow(s)
  /\ UNCHANGED <<requests, history>>

\* Then the unique constraint refuses it, and the run exits.
SeedRefused(s) ==
  /\ pc[s] = "write"
  /\ Present(Plan[at[s]])
  /\ End(s, "failed")
  /\ UNCHANGED <<tables, requests, history>>

-----------------------------------------------------------------------------
Update(a) ==
  \/ PutArrive(a) \/ PutFind(a) \/ PutUpdate(a) \/ PutInsert(a) \/ PutRefused(a)
  \/ PutList(a) \/ Reject(a)

SeedStep(s) == SeedStart(s) \/ SeedFind(s) \/ SeedSave(s) \/ SeedRefused(s) \/ Reject(s)

Next == (\E a \in Put : Update(a)) \/ (\E s \in Run : SeedStep(s))

Spec == Init /\ [][Next]_vars

-----------------------------------------------------------------------------
\* Neither of the two had ended when the other began.
Overlap(x, y) ==
  /\ x # y /\ pc[x] # "idle" /\ pc[y] # "idle"
  /\ x \notin before[y] /\ y \notin before[x]

Named(a) == {body[a][i].channel : i \in 1 .. Len(body[a])}

\* A PUT that was answered is never undone by an older one: each channel it
\* named holds its settings, or those of a PUT that had not ended when it came.
\* So PUTs that do not overlap leave no mixture of their settings (update).
LatestWins ==
  \A a \in Put : pc[a] = "done" =>
    \A c \in Named(a) : /\ Stored(who[a])[c] # None
                        /\ Stored(who[a])[c].by \in Put \ before[a]

\* The answer shows, for each channel the PUT named, its own settings or those
\* of a PUT that overlapped it (update, getForUser).
AnswerIsCurrent ==
  \A a \in Put : pc[a] = "done" =>
    \A c \in Named(a) : /\ answer[a][c] # None
                        /\ answer[a][c].by = a \/ Overlap(a, answer[a][c].by)

\* A PUT that names no priority leaves the one the row has, unless another PUT
\* of the same user overlapped it (`item.priority ?? existing.priority`).
PriorityKept ==
  [][\A u \in User, c \in Channel :
       (prefs[u][c] # None /\ prefs'[u][c].priority # prefs[u][c].priority) =>
         LET a == prefs'[u][c].by IN
         \/ prefs'[u][c].priority = a
         \/ \E b \in Put : who[b] = u /\ Overlap(a, b)]_vars

\* Two requests that may insert the same row.
Rivals(x, y) ==
  \/ x \in Put /\ y \in Put /\ who[x] = who[y]
  \/ x \in Run \/ y \in Run

\* A PUT or a run of the seed fails only if a statement rejected, the user does
\* not exist, or a rival overlapped it: the unique constraint is never met by
\* one that works alone, however often the seed failed half-way before.
FailuresExplained ==
  \A x \in Actor : pc[x] = "failed" =>
    \/ x \in rejected
    \/ x \in Put /\ who[x] = Ghost
    \/ \E y \in Actor : Overlap(x, y) /\ Rivals(x, y)

\* A run of the seed that completes leaves every row it is to provide, also
\* after runs that failed half-way and next to others ("Idempotent dev seed").
SeedComplete ==
  \A s \in Run : pc[s] = "done" => \A i \in 1 .. Len(Plan) : Present(Plan[i])
=============================================================================
