-------------------------- MODULE PreferencesProofs --------------------------
(***************************************************************************)
(* Proofs about Preferences, for any set of PUTs, of runs of the seed and  *)
(* of bodies.                                                              *)
(***************************************************************************)
EXTENDS Preferences, TLAPS

-----------------------------------------------------------------------------
(* The inductive invariant, in named parts.                                *)

\* Who has begun, for whom, and after whom.
Begun ==
  /\ \A x \in Actor : pc[x] = "idle" => before[x] = {} /\ at[x] = 1
  /\ \A x, y \in Actor : y \in before[x] => Ended(y)
  /\ \A a \in Put : pc[a] # "idle" => who[a] \in users \cup {Ghost}
  /\ \A s \in Run : pc[s] # "list"

\* A row of a PUT is a row of its user, and the PUT has begun.
Signed ==
  \A u \in User, c \in Channel :
    (prefs[u][c] # None /\ prefs[u][c].by \in Put) =>
      who[prefs[u][c].by] = u /\ pc[prefs[u][c].by] # "idle"

\* The row has the settings of a PUT that had not ended when a came.
Recent(a, c) ==
  /\ who[a] \in User
  /\ prefs[who[a]][c] # None
  /\ prefs[who[a]][c].by \in Put \ before[a]

\* What a PUT has written so far is there, or something more recent.
WrittenBy(a) ==
  /\ pc[a] \in {"find", "write"} => \A i \in 1 .. at[a] - 1 : Recent(a, body[a][i].channel)
  /\ pc[a] \in {"list", "done"} => \A i \in 1 .. Len(body[a]) : Recent(a, body[a][i].channel)

\* The answer was read when that was so.
AnsweredTo(a) ==
  pc[a] = "done" =>
    \A i \in 1 .. Len(body[a]) :
      LET row == answer[a][body[a][i].channel] IN
      row # None /\ (row.by = a \/ (row.by \in Put /\ Overlap(a, row.by)))

\* What findOne returned is what the row holds, unless somebody else was there.
FoundFor(a) ==
  pc[a] = "write" =>
    LET row == Stored(who[a])[ItemOf(a).channel] IN
    /\ found[a] # None =>
         /\ row # None
         /\ \/ row.priority = found[a].priority
            \/ \E b \in Put : who[b] = who[a] /\ Overlap(a, b)
    /\ (found[a] = None /\ row # None) =>
         \E y \in Actor : Overlap(a, y) /\ Rivals(a, y)

\* A run of the seed has provided for the rows it has passed, and inserts a row
\* that is there only if somebody else was there.
ProgressOf(s) ==
  /\ pc[s] \in {"find", "write"} => \A i \in 1 .. at[s] - 1 : Present(Plan[i])
  /\ pc[s] = "done" => \A i \in 1 .. Len(Plan) : Present(Plan[i])
  /\ (pc[s] = "write" /\ Present(Plan[at[s]])) => \E y \in Actor : Overlap(s, y)

\* FailuresExplained, of one of them.
Explained(x) ==
  pc[x] = "failed" =>
    \/ x \in rejected
    \/ x \in Put /\ who[x] = Ghost
    \/ \E y \in Actor : Overlap(x, y) /\ Rivals(x, y)

Own(x) ==
  /\ x \in Put => WrittenBy(x) /\ AnsweredTo(x) /\ FoundFor(x)
  /\ x \in Run => ProgressOf(x)
  /\ Explained(x)

Invariant ==
  /\ TypeOK
  /\ Begun
  /\ Signed
  /\ \A x \in Actor : Own(x)

-----------------------------------------------------------------------------
(* Types.                                                                  *)

\* PUTs and runs of the seed are different actors.
LEMMA ActorFacts == Put \subseteq Actor /\ Run \subseteq Actor /\ Put \cap Run = {}
  BY NamesAssumption DEF Actor

\* The seed's plan: eight rows, of users, preferences and templates that exist.
LEMMA PlanFacts ==
  /\ Len(Plan) = 8
  /\ \A i \in 1 .. Len(Plan) :
       \/ Plan[i].table = "users" /\ Plan[i].user \in User
       \/ Plan[i].table = "user_preferences" /\ Plan[i].user \in User /\ Plan[i].name \in Channel
       \/ Plan[i].table = "notification_templates" /\ Plan[i].name \in Template
<1>1. Len(Plan) = 8
  BY DEF Plan
<1>2. ASSUME NEW i \in 1 .. 8
      PROVE  \/ Plan[i].table = "users" /\ Plan[i].user \in User
             \/ Plan[i].table = "user_preferences" /\ Plan[i].user \in User /\ Plan[i].name \in Channel
             \/ Plan[i].table = "notification_templates" /\ Plan[i].name \in Template
  <2>1. i = 1 \/ i = 2 \/ i = 3 \/ i = 4 \/ i = 5 \/ i = 6 \/ i = 7 \/ i = 8
    OBVIOUS
  <2>. QED BY <2>1 DEF Plan, UserRow, PrefRow, TemplateRow, User, Channel, Template
<1>. QED BY <1>1, <1>2

\* How a PUT or a run that ends changes its own place, and nobody else's.
LEMMA EndType ==
  ASSUME TypeOK, NEW x \in Actor, NEW o \in {"list", "done", "failed"}, End(x, o)
  PROVE  /\ pc' \in [Actor -> {"idle", "find", "write", "list", "done", "failed"}]
         /\ at' \in [Actor -> Nat]
         /\ found' \in [Actor -> Row \cup {None}]
         /\ \A y \in Actor : y # x => pc'[y] = pc[y] /\ at'[y] = at[y] /\ found'[y] = found[y]
         /\ pc'[x] = o /\ at'[x] = 1 /\ found'[x] = None
  BY DEF TypeOK, End, Goto

\* The whole invariant holds before the first call.
LEMMA InitInvariant == Init => Invariant
<1>. SUFFICES ASSUME Init PROVE Invariant
  OBVIOUS
<1>1. TypeOK
  BY PlanFacts, ActorFacts DEF Init, TypeOK, NoRows
<1>2. Begun /\ Signed /\ \A x \in Actor : Own(x)
  BY ActorFacts DEF Init, NoRows, Begun, Signed, Own, WrittenBy, AnsweredTo, FoundFor, ProgressOf,
     Explained
<1>. QED BY <1>1, <1>2 DEF Invariant

\* Where a PUT stands after it has written an item: at the next, or past the last.
LEMMA NextItemType ==
  ASSUME TypeOK, NEW a \in Put, pc[a] = "write", NextItem(a)
  PROVE  /\ pc' \in [Actor -> {"idle", "find", "write", "list", "done", "failed"}]
         /\ at' \in [Actor -> Nat]
         /\ found' \in [Actor -> Row \cup {None}]
         /\ \A y \in Actor : y # a => pc'[y] = pc[y] /\ at'[y] = at[y] /\ found'[y] = found[y]
         /\ \/ pc'[a] = "find" /\ at[a] < Len(body[a]) /\ at'[a] = at[a] + 1
            \/ pc'[a] = "list" /\ at[a] = Len(body[a])
<1>0. a \in Actor /\ at[a] \in 1 .. Len(body[a]) /\ Len(body[a]) \in Nat
  BY ActorFacts DEF TypeOK
<1>1. CASE at[a] < Len(body[a])
  <2>1. /\ pc' = [pc EXCEPT ![a] = "find"]
        /\ at' = [at EXCEPT ![a] = @ + 1]
        /\ found' = [found EXCEPT ![a] = None]
    BY <1>1, Zenon DEF NextItem, Goto
  <2>. QED BY <1>0, <1>1, <2>1 DEF TypeOK
<1>2. CASE ~(at[a] < Len(body[a]))
  BY <1>0, <1>2, EndType DEF NextItem
<1>. QED BY <1>1, <1>2

\* Where a run of the seed stands after a row: at the next, or done.
LEMMA NextRowType ==
  ASSUME TypeOK, NEW s \in Run, NextRow(s)
  PROVE  /\ pc' \in [Actor -> {"idle", "find", "write", "list", "done", "failed"}]
         /\ at' \in [Actor -> Nat]
         /\ found' \in [Actor -> Row \cup {None}]
         /\ \A y \in Actor : y # s => pc'[y] = pc[y] /\ at'[y] = at[y] /\ found'[y] = found[y]
         /\ at'[s] \in 1 .. Len(Plan)
         /\ \/ pc'[s] = "find" /\ at'[s] = at[s] + 1
            \/ pc'[s] = "done" /\ at[s] = Len(Plan)
<1>0. s \in Actor /\ at[s] \in 1 .. Len(Plan)
  BY ActorFacts DEF TypeOK
<1>1. CASE at[s] < Len(Plan)
  <2>1. /\ pc' = [pc EXCEPT ![s] = "find"]
        /\ at' = [at EXCEPT ![s] = @ + 1]
        /\ found' = found
    BY <1>1, Zenon DEF NextRow, Goto
  <2>2. at[s] + 1 \in 1 .. Len(Plan)
    BY <1>0, <1>1, PlanFacts
  <2>. QED BY <1>0, <2>1, <2>2 DEF TypeOK
<1>2. CASE ~(at[s] < Len(Plan))
  BY <1>0, <1>2, EndType, PlanFacts DEF NextRow
<1>. QED BY <1>1, <1>2

\* Only x moves in a step: it was under way or begins now, and the others stay.
Moves(x) ==
  /\ ~Ended(x) /\ pc'[x] # "idle"
  /\ IF pc[x] = "idle"
     THEN before'[x] = {y \in Actor : Ended(y)}
     ELSE before'[x] = before[x] /\ (x \in Put => who'[x] = who[x] /\ body'[x] = body[x])
  /\ \A y \in Actor : y # x =>
       pc'[y] = pc[y] /\ at'[y] = at[y] /\ found'[y] = found[y] /\ before'[y] = before[y]
  /\ \A b \in Put : b # x => who'[b] = who[b] /\ body'[b] = body[b] /\ answer'[b] = answer[b]

\* What x may do to the tables: write its row, or insert one that is missing.
Touches(x) ==
  /\ users \subseteq users' /\ templates \subseteq templates' /\ rejected \subseteq rejected'
  /\ \A u \in User, c \in Channel :
       \/ prefs'[u][c] = prefs[u][c]
       \/ /\ x \in Put /\ pc[x] = "write" /\ u = who[x] /\ c = ItemOf(x).channel
          /\ prefs'[u][c] # None /\ prefs'[u][c].by = x
       \/ /\ x \in Run /\ pc[x] = "write" /\ prefs[u][c] = None
          /\ prefs'[u][c] # None /\ prefs'[u][c].by = Seed

\* The item a PUT is at is one of its body's.
LEMMA ItemType ==
  ASSUME TypeOK, NEW a \in Put, pc[a] \in {"find", "write"}
  PROVE  ItemOf(a) \in Item /\ ItemOf(a).channel \in Channel /\ at[a] \in 1 .. Len(body[a])
<1>1. body[a] \in Seq(Item) /\ at[a] \in 1 .. Len(body[a])
  BY DEF TypeOK
<1>2. ItemOf(a) \in Item
  BY <1>1 DEF ItemOf
<1>. QED BY <1>1, <1>2 DEF Item

\* Each item of a body names a channel.
LEMMA ItemChannel ==
  ASSUME TypeOK, NEW a \in Put, NEW i \in 1 .. Len(body[a])
  PROVE  body[a][i].channel \in Channel
<1>1. body[a][i] \in Item
  BY DEF TypeOK
<1>. QED BY <1>1 DEF Item

\* The part of TypeOK that ties a place to its loop.
InLoop(x) ==
  /\ x \in Run => at'[x] \in 1 .. Len(Plan)
  /\ x \in Put => body'[x] \in Seq(Item) /\ (pc'[x] \in {"find", "write"} => at'[x] \in 1 .. Len(body'[x]))

\* A step of one actor leaves every loop within its bounds.
LEMMA LoopsKept ==
  ASSUME TypeOK, NEW x \in Actor, Moves(x), InLoop(x)
  PROVE  /\ \A s \in Run : at'[s] \in 1 .. Len(Plan)
         /\ \A a \in Put : pc'[a] \in {"find", "write"} => at'[a] \in 1 .. Len(body'[a])
  BY ActorFacts DEF TypeOK, Moves, InLoop

\* A statement that rejects keeps the types and writes no row.
LEMMA RejectStep ==
  ASSUME TypeOK, NEW x \in Actor, Reject(x)
  PROVE  TypeOK' /\ Moves(x) /\ Touches(x)
<1>1. /\ pc' \in [Actor -> {"idle", "find", "write", "list", "done", "failed"}]
      /\ at' \in [Actor -> Nat]
      /\ found' \in [Actor -> Row \cup {None}]
      /\ \A y \in Actor : y # x => pc'[y] = pc[y] /\ at'[y] = at[y] /\ found'[y] = found[y]
      /\ pc'[x] = "failed" /\ at'[x] = 1
  BY EndType DEF Reject
<1>2. Moves(x)
  BY <1>1, ActorFacts DEF TypeOK, Moves, Reject, Ended, requests
<1>3. InLoop(x)
  BY <1>1, PlanFacts DEF InLoop, Reject, TypeOK, requests
<1>5. TypeOK'
  BY <1>1, <1>2, <1>3, LoopsKept DEF TypeOK, Reject, tables, requests
<1>4. Touches(x)
  BY DEF Touches, Reject, tables
<1>. QED BY <1>2, <1>4, <1>5

\* A PUT that arrives keeps the types and changes only what is its own.
LEMMA PutArriveStep ==
  ASSUME TypeOK, Begun, NEW a \in Put, PutArrive(a)
  PROVE  TypeOK' /\ Moves(a) /\ Touches(a)
<1>. USE ActorFacts
<1>1. PICK u \in Addressed \cap (users \cup {Ghost}), b \in Bodies :
        /\ who' = [who EXCEPT ![a] = u]
        /\ body' = [body EXCEPT ![a] = b]
        /\ Goto(a, IF b = <<>> THEN "list" ELSE "find")
  BY DEF PutArrive
<1>2. b \in Seq(Item) /\ u \in User \cup {Ghost}
  BY RequestsAssumption DEF TypeOK
<1>3. /\ pc[a] = "idle" /\ pc' = [pc EXCEPT ![a] = IF b = <<>> THEN "list" ELSE "find"]
      /\ before' = [before EXCEPT ![a] = {y \in Actor : Ended(y)}]
      /\ UNCHANGED <<users, templates, prefs, at, found, answer, rejected>>
  BY <1>1 DEF PutArrive, Goto, Begin, tables
<1>4. Moves(a) /\ Touches(a)
  BY <1>3, <1>1 DEF TypeOK, Moves, Touches, Ended, PutArrive
<1>5. InLoop(a)
  <2>1. b # <<>> => Len(b) >= 1
    BY <1>2
  <2>2. at'[a] = 1 /\ body'[a] = b /\ pc'[a] = IF b = <<>> THEN "list" ELSE "find"
    BY <1>1, <1>3 DEF TypeOK, Begun
  <2>. QED BY <1>2, <2>1, <2>2 DEF InLoop
<1>6. TypeOK'
  <2>1. who' \in [Put -> User \cup {Ghost, None}] /\ body' \in [Put -> Seq(Item)]
    BY <1>1, <1>2 DEF TypeOK
  <2>2. /\ pc' \in [Actor -> {"idle", "find", "write", "list", "done", "failed"}]
        /\ before' \in [Actor -> SUBSET Actor]
    BY <1>3 DEF TypeOK
  <2>. QED BY <2>1, <2>2, <1>3, <1>4, <1>5, LoopsKept DEF TypeOK
<1>. QED BY <1>4, <1>6

\* So does findOne,
LEMMA PutFindStep ==
  ASSUME TypeOK, NEW a \in Put, PutFind(a)
  PROVE  TypeOK' /\ Moves(a) /\ Touches(a)
<1>. USE ActorFacts
<1>1. /\ pc[a] = "find" /\ pc' = [pc EXCEPT ![a] = "write"]
      /\ found' = [found EXCEPT ![a] = Stored(who[a])[ItemOf(a).channel]]
      /\ UNCHANGED <<users, templates, prefs, at, who, body, answer, before, rejected>>
  BY DEF PutFind, Goto, tables, requests, history
<1>2. Stored(who[a])[ItemOf(a).channel] \in Row \cup {None}
  BY <1>1, ItemType DEF TypeOK, Stored, NoRows
<1>3. Moves(a) /\ Touches(a)
  BY <1>1 DEF TypeOK, Moves, Touches, Ended
<1>4. InLoop(a)
  BY <1>1 DEF TypeOK, InLoop
<1>. QED BY <1>1, <1>2, <1>3, <1>4, LoopsKept DEF TypeOK

\* A PUT writes the row of its user and its item, and goes on.
PutWrites(a) ==
  /\ pc[a] = "write" /\ who[a] \in User
  /\ \E row \in Row : /\ row.by = a
                     /\ prefs' = [prefs EXCEPT ![who[a]][ItemOf(a).channel] = row]
  /\ NextItem(a)
  /\ UNCHANGED <<users, templates, requests, history>>

\* an upsert that writes, by either branch,
LEMMA PutWritesStep ==
  ASSUME TypeOK, NEW a \in Put, PutWrites(a)
  PROVE  TypeOK' /\ Moves(a) /\ Touches(a)
<1>. USE ActorFacts
<1>1. ItemOf(a).channel \in Channel /\ at[a] \in 1 .. Len(body[a]) /\ body[a] \in Seq(Item)
  BY ItemType DEF PutWrites, TypeOK
<1>2. /\ pc' \in [Actor -> {"idle", "find", "write", "list", "done", "failed"}]
      /\ at' \in [Actor -> Nat]
      /\ found' \in [Actor -> Row \cup {None}]
      /\ \A y \in Actor : y # a => pc'[y] = pc[y] /\ at'[y] = at[y] /\ found'[y] = found[y]
      /\ \/ pc'[a] = "find" /\ at[a] < Len(body[a]) /\ at'[a] = at[a] + 1
         \/ pc'[a] = "list" /\ at[a] = Len(body[a])
  BY NextItemType DEF PutWrites
<1>3. Moves(a)
  BY <1>2 DEF TypeOK, Moves, Ended, PutWrites, requests, history
<1>4. InLoop(a)
  BY <1>1, <1>2 DEF InLoop, PutWrites, requests
<1>5. PICK row \in Row : row.by = a /\ prefs' = [prefs EXCEPT ![who[a]][ItemOf(a).channel] = row]
  BY DEF PutWrites
<1>6. row # None /\ who[a] \in User
  BY NamesAssumption DEF PutWrites
<1>7. prefs' \in [User -> [Channel -> Row \cup {None}]]
  BY <1>1, <1>5, <1>6 DEF TypeOK
<1>8. Touches(a)
  BY <1>1, <1>5, <1>6 DEF Touches, TypeOK, PutWrites, history
<1>9. TypeOK'
  BY <1>2, <1>3, <1>4, <1>7, LoopsKept DEF TypeOK, PutWrites, requests, history
<1>. QED BY <1>3, <1>8, <1>9

\* An update of the row findOne returned is a write,
LEMMA PutUpdateWrites ==
  ASSUME TypeOK, NEW a \in Put, FoundFor(a), PutUpdate(a)
  PROVE  PutWrites(a)
<1>1. ItemOf(a).channel \in Channel
  BY ItemType DEF PutUpdate
<1>2. who[a] \in User
  BY <1>1 DEF FoundFor, PutUpdate, Stored, NoRows
<1>3. found[a] \in Row
  BY ActorFacts DEF TypeOK, PutUpdate
<1>4. [by |-> a, priority |-> IF ItemOf(a).prioritised THEN a ELSE found[a].priority] \in Row
  BY <1>3 DEF Row
<1>. QED BY <1>2, <1>4 DEF PutUpdate, PutWrites, WriteRow

\* and so is an insert.
LEMMA PutInsertWrites ==
  ASSUME TypeOK, NEW a \in Put, PutInsert(a)
  PROVE  PutWrites(a)
<1>1. who[a] \in User
  BY DEF PutInsert, MayInsert, TypeOK
<1>2. [by |-> a, priority |-> IF ItemOf(a).prioritised THEN a ELSE Default] \in Row
  BY DEF Row
<1>. QED BY <1>1, <1>2 DEF PutInsert, PutWrites, WriteRow

\* An insert that the unique index refuses keeps the types and writes no row;
LEMMA PutRefusedStep ==
  ASSUME TypeOK, NEW a \in Put, PutRefused(a)
  PROVE  TypeOK' /\ Moves(a) /\ Touches(a)
<1>. USE ActorFacts
<1>1. /\ pc' \in [Actor -> {"idle", "find", "write", "list", "done", "failed"}]
      /\ at' \in [Actor -> Nat]
      /\ found' \in [Actor -> Row \cup {None}]
      /\ \A y \in Actor : y # a => pc'[y] = pc[y] /\ at'[y] = at[y] /\ found'[y] = found[y]
      /\ pc'[a] = "failed" /\ at'[a] = 1
  BY EndType DEF PutRefused
<1>2. Moves(a) /\ Touches(a)
  BY <1>1 DEF TypeOK, Moves, Touches, PutRefused, Ended, tables, requests, history
<1>3. InLoop(a)
  BY <1>1 DEF InLoop, PutRefused, TypeOK, requests
<1>4. TypeOK'
  BY <1>1, <1>2, <1>3, LoopsKept DEF TypeOK, PutRefused, tables, requests, history
<1>. QED BY <1>2, <1>4

\* so does the list a PUT answers with.
LEMMA PutListStep ==
  ASSUME TypeOK, NEW a \in Put, PutList(a)
  PROVE  TypeOK' /\ Moves(a) /\ Touches(a)
<1>. USE ActorFacts
<1>1. /\ pc' \in [Actor -> {"idle", "find", "write", "list", "done", "failed"}]
      /\ at' \in [Actor -> Nat]
      /\ found' \in [Actor -> Row \cup {None}]
      /\ \A y \in Actor : y # a => pc'[y] = pc[y] /\ at'[y] = at[y] /\ found'[y] = found[y]
      /\ pc'[a] = "done" /\ at'[a] = 1
  BY EndType DEF PutList
<1>2. answer' = [answer EXCEPT ![a] = Stored(who[a])] /\ Stored(who[a]) \in [Channel -> Row \cup {None}]
  BY DEF PutList, TypeOK, Stored, NoRows
<1>3. Moves(a) /\ Touches(a)
  BY <1>1, <1>2 DEF TypeOK, Moves, Touches, PutList, Ended, tables, history
<1>4. InLoop(a)
  BY <1>1 DEF InLoop, PutList, TypeOK
<1>5. TypeOK'
  BY <1>1, <1>2, <1>3, <1>4, LoopsKept DEF TypeOK, PutList, tables, history
<1>. QED BY <1>3, <1>5

\* A run of the seed that starts keeps the types and changes only what is its own.
LEMMA SeedStartStep ==
  ASSUME TypeOK, NEW s \in Run, SeedStart(s)
  PROVE  TypeOK' /\ Moves(s) /\ Touches(s)
<1>. USE ActorFacts
<1>1. /\ pc[s] = "idle" /\ pc' = [pc EXCEPT ![s] = "find"]
      /\ before' = [before EXCEPT ![s] = {y \in Actor : Ended(y)}]
      /\ UNCHANGED <<users, templates, prefs, at, found, who, body, answer, rejected>>
  BY DEF SeedStart, Goto, Begin, tables, requests
<1>2. Moves(s) /\ Touches(s) /\ InLoop(s)
  BY <1>1 DEF TypeOK, Moves, Touches, InLoop, Ended
<1>3. /\ pc' \in [Actor -> {"idle", "find", "write", "list", "done", "failed"}]
      /\ before' \in [Actor -> SUBSET Actor]
  BY <1>1 DEF TypeOK
<1>. QED BY <1>1, <1>2, <1>3, LoopsKept DEF TypeOK

\* So does its findOne,
LEMMA SeedFindStep ==
  ASSUME TypeOK, NEW s \in Run, SeedFind(s)
  PROVE  TypeOK' /\ Moves(s) /\ Touches(s)
<1>. USE ActorFacts
<1>1. /\ pc' \in [Actor -> {"idle", "find", "write", "list", "done", "failed"}]
      /\ at' \in [Actor -> Nat]
      /\ found' \in [Actor -> Row \cup {None}]
      /\ \A y \in Actor : y # s => pc'[y] = pc[y] /\ at'[y] = at[y] /\ found'[y] = found[y]
      /\ at'[s] \in 1 .. Len(Plan) /\ pc'[s] # "idle"
  <2>1. CASE Present(Plan[at[s]])
    BY <2>1, NextRowType DEF SeedFind
  <2>2. CASE ~Present(Plan[at[s]])
    BY <2>2 DEF SeedFind, Goto, TypeOK
  <2>. QED BY <2>1, <2>2
<1>2. Moves(s) /\ Touches(s) /\ InLoop(s)
  BY <1>1 DEF TypeOK, Moves, Touches, InLoop, SeedFind, Ended, tables, requests, history
<1>. QED BY <1>1, <1>2, LoopsKept DEF TypeOK, SeedFind, tables, requests, history

\* its insert when the index refuses it,
LEMMA SeedRefusedStep ==
  ASSUME TypeOK, NEW s \in Run, SeedRefused(s)
  PROVE  TypeOK' /\ Moves(s) /\ Touches(s)
<1>. USE ActorFacts
<1>1. /\ pc' \in [Actor -> {"idle", "find", "write", "list", "done", "failed"}]
      /\ at' \in [Actor -> Nat]
      /\ found' \in [Actor -> Row \cup {None}]
      /\ \A y \in Actor : y # s => pc'[y] = pc[y] /\ at'[y] = at[y] /\ found'[y] = found[y]
      /\ pc'[s] = "failed" /\ at'[s] = 1
  BY EndType DEF SeedRefused
<1>2. Moves(s) /\ Touches(s) /\ InLoop(s)
  BY <1>1, PlanFacts DEF TypeOK, Moves, Touches, InLoop, SeedRefused, Ended, tables, requests, history
<1>. QED BY <1>1, <1>2, LoopsKept DEF TypeOK, SeedRefused, tables, requests, history

\* The row is there once it is inserted, and nothing else is changed.
LEMMA InsertFacts ==
  ASSUME TypeOK, NEW i \in 1 .. Len(Plan), ~Present(Plan[i]), Insert(Plan[i])
  PROVE  /\ users' \subseteq User /\ templates' \subseteq Template
         /\ prefs' \in [User -> [Channel -> Row \cup {None}]]
         /\ users \subseteq users' /\ templates \subseteq templates'
         /\ Present(Plan[i])'
         /\ \A u \in User, c \in Channel :
              \/ prefs'[u][c] = prefs[u][c]
              \/ prefs[u][c] = None /\ prefs'[u][c] # None /\ prefs'[u][c].by = Seed
<1>. DEFINE r == Plan[i]
           row == [by |-> Seed, priority |-> Seed]
<1>0. row \in Row /\ row # None /\ row.by = Seed
  BY NamesAssumption DEF Row
<1>. HIDE DEF row
<1>1. CASE r.table = "users" /\ r.user \in User
  BY <1>1 DEF Insert, Present, TypeOK
<1>2. CASE r.table = "user_preferences" /\ r.user \in User /\ r.name \in Channel
  <2>1. /\ users' = users /\ templates' = templates
        /\ prefs' = [prefs EXCEPT ![r.user][r.name] = row]
        /\ prefs[r.user][r.name] = None
    BY <1>2 DEF Insert, Present, row
  <2>2. Present(r)' <=> prefs'[r.user][r.name] # None
    BY <1>2 DEF Present
  <2>. HIDE DEF r
  <2>. QED BY <1>0, <1>2, <2>1, <2>2 DEF TypeOK, r
<1>3. CASE r.table = "notification_templates" /\ r.name \in Template
  BY <1>3 DEF Insert, Present, TypeOK
<1>. QED BY <1>1, <1>2, <1>3, PlanFacts

\* and its insert when it is accepted.
LEMMA SeedSaveStep ==
  ASSUME TypeOK, NEW s \in Run, SeedSave(s)
  PROVE  TypeOK' /\ Moves(s) /\ Touches(s)
<1>. USE ActorFacts
<1>0. at[s] \in 1 .. Len(Plan)
  BY DEF TypeOK
<1>1. /\ pc' \in [Actor -> {"idle", "find", "write", "list", "done", "failed"}]
      /\ at' \in [Actor -> Nat]
      /\ found' \in [Actor -> Row \cup {None}]
      /\ \A y \in Actor : y # s => pc'[y] = pc[y] /\ at'[y] = at[y] /\ found'[y] = found[y]
      /\ at'[s] \in 1 .. Len(Plan) /\ pc'[s] # "idle"
  BY NextRowType DEF SeedSave
<1>2. Moves(s) /\ InLoop(s)
  BY <1>1 DEF TypeOK, Moves, InLoop, SeedSave, Ended, requests, history
<1>3. Touches(s)
  BY <1>0, InsertFacts DEF Touches, SeedSave, history
<1>4. TypeOK'
  BY <1>0, <1>1, <1>2, LoopsKept, InsertFacts DEF TypeOK, SeedSave, requests, history
<1>. QED BY <1>2, <1>3, <1>4

-----------------------------------------------------------------------------
(* What a step of x leaves as it is.                                       *)

\* That two actors were at work at the same time stays true.
LEMMA OverlapStable ==
  ASSUME TypeOK, NEW x \in Actor, Moves(x), NEW y \in Actor, NEW z \in Actor, Overlap(y, z)
  PROVE  Overlap(y, z)'
  BY DEF Overlap, Moves

\* Whoever is under way while x moves overlaps it.
LEMMA Meets ==
  ASSUME TypeOK, Begun, NEW x \in Actor, Moves(x), NEW y \in Actor, y # x,
         pc[y] # "idle", ~Ended(y)
  PROVE  Overlap(y, x)'
<1>1. pc'[y] = pc[y] /\ before'[y] = before[y] /\ x \notin before[y]
  BY DEF Moves, Begun
<1>2. y \notin before'[x]
  BY DEF Moves, Begun
<1>. QED BY <1>1, <1>2 DEF Overlap, Moves

\* Who has begun keeps its request.
LEMMA RequestKept ==
  ASSUME NEW x \in Actor, Moves(x), NEW b \in Put, pc[b] # "idle"
  PROVE  who'[b] = who[b] /\ body'[b] = body[b]
  BY DEF Moves

\* That two overlapping actors may meet in a row stays true.
LEMMA RivalsStable ==
  ASSUME TypeOK, NEW x \in Actor, Moves(x), NEW y \in Actor, NEW z \in Actor,
         Overlap(y, z), Rivals(y, z)
  PROVE  Rivals(y, z)'
  BY RequestKept DEF Overlap, Rivals

\* A row that is there stays there: nothing deletes one.
LEMMA PresentStable ==
  ASSUME NEW x \in Actor, Touches(x), NEW i \in 1 .. Len(Plan), Present(Plan[i])
  PROVE  Present(Plan[i])'
<1>. DEFINE r == Plan[i]
<1>1. CASE r.table = "users" /\ r.user \in User
  BY <1>1 DEF Present, Touches
<1>2. CASE r.table = "user_preferences" /\ r.user \in User /\ r.name \in Channel
  <2>1. prefs[r.user][r.name] # None
    BY <1>2 DEF Present
  <2>2. prefs'[r.user][r.name] # None
    BY <1>2, <2>1, Zenon DEF Touches
  <2>. QED BY <1>2, <2>2 DEF Present
<1>3. CASE r.table = "notification_templates" /\ r.name \in Template
  BY <1>3 DEF Present, Touches
<1>. QED BY <1>1, <1>2, <1>3, PlanFacts

\* A row that was written since a PUT came stays so.
LEMMA RecentStable ==
  ASSUME TypeOK, Begun, NEW x \in Actor, Moves(x), Touches(x),
         NEW a \in Put, pc[a] # "idle", NEW c \in Channel, Recent(a, c)
  PROVE  Recent(a, c)'
<1>. USE ActorFacts
<1>1. who'[a] = who[a] /\ before'[a] = before[a]
  BY DEF Moves
<1>2. x \notin before[a]
  BY DEF Begun, Moves
<1>. QED BY <1>1, <1>2 DEF Recent, Touches

\* Every step preserves Begun.
LEMMA BegunStep ==
  ASSUME TypeOK, Begun, NEW x \in Actor, Moves(x), Touches(x),
         x \in Put => who'[x] \in users \cup {Ghost}, x \in Run => pc'[x] # "list"
  PROVE  Begun'
<1>. USE ActorFacts
<1>1. ASSUME NEW y \in Actor, pc'[y] = "idle"
      PROVE  before'[y] = {} /\ at'[y] = 1
  BY <1>1 DEF Begun, Moves
<1>2. ASSUME NEW z \in Actor, NEW y \in Actor, y \in before'[z]
      PROVE  Ended(y)'
  <2>1. Ended(y)
    BY <1>2 DEF Begun, Moves
  <2>. QED BY <2>1 DEF Moves, Ended
<1>3. ASSUME NEW a \in Put, pc'[a] # "idle"
      PROVE  who'[a] \in users' \cup {Ghost}
  <2>1. CASE a = x
    BY <2>1 DEF Touches
  <2>2. CASE a # x
    BY <1>3, <2>2 DEF Begun, Moves, Touches
  <2>. QED BY <2>1, <2>2
<1>4. ASSUME NEW s \in Run
      PROVE  pc'[s] # "list"
  BY DEF Begun, Moves
<1>. QED BY <1>1, <1>2, <1>3, <1>4 DEF Begun, Ended

\* Every step preserves Signed.
LEMMA SignedStep ==
  ASSUME TypeOK, Signed, NEW x \in Actor, Moves(x), Touches(x)
  PROVE  Signed'
<1>. USE ActorFacts
<1>. SUFFICES ASSUME NEW u \in User, NEW c \in Channel,
                     prefs'[u][c] # None, prefs'[u][c].by \in Put
              PROVE  who'[prefs'[u][c].by] = u /\ pc'[prefs'[u][c].by] # "idle"
  BY DEF Signed
<1>1. CASE prefs'[u][c] = prefs[u][c]
  <2>1. who[prefs[u][c].by] = u /\ pc[prefs[u][c].by] # "idle"
    BY <1>1 DEF Signed
  <2>. QED BY <1>1, <2>1 DEF Moves
<1>2. CASE x \in Put /\ pc[x] = "write" /\ u = who[x] /\ prefs'[u][c].by = x
  BY <1>2 DEF Moves
<1>3. CASE prefs'[u][c].by = Seed
  BY <1>3, NamesAssumption
<1>. QED BY <1>1, <1>2, <1>3 DEF Touches

\* What holds of another actor still does.
LEMMA OthersKept ==
  ASSUME Invariant, NEW x \in Actor, Moves(x), Touches(x), NEW y \in Actor, y # x
  PROVE  Own(y)'
<1>. USE ActorFacts
<1>0. TypeOK /\ Begun /\ Own(y)
  BY DEF Invariant
<1>1. pc'[y] = pc[y] /\ at'[y] = at[y] /\ found'[y] = found[y]
  BY DEF Moves
<1>2. y \in Put => who'[y] = who[y] /\ body'[y] = body[y] /\ answer'[y] = answer[y]
  BY DEF Moves
<1>3. ASSUME y \in Put PROVE WrittenBy(y)'
  <2>. SUFFICES ASSUME NEW i \in 1 .. Len(body[y]), NEW c \in Channel, c = body[y][i].channel,
                       \/ pc[y] \in {"find", "write"} /\ i \in 1 .. at[y] - 1
                       \/ pc[y] \in {"list", "done"}
                PROVE  Recent(y, c)'
    <3>1. pc[y] \in {"find", "write"} => at[y] - 1 \in 0 .. Len(body[y])
      BY <1>0, <1>3 DEF TypeOK
    <3>2. \A i \in 1 .. Len(body[y]) : body[y][i].channel \in Channel
      BY <1>0, <1>3, ItemChannel
    <3>. QED BY <1>1, <1>2, <1>3, <3>1, <3>2 DEF WrittenBy, Recent
  <2>1. Recent(y, c)
    BY <1>0, <1>3 DEF Own, WrittenBy
  <2>. QED BY <1>0, <1>3, <2>1, RecentStable
<1>4. ASSUME y \in Put PROVE AnsweredTo(y)'
  <2>1. \A b \in Put : Overlap(y, b) => Overlap(y, b)'
    BY <1>0, OverlapStable
  <2>2. AnsweredTo(y)
    BY <1>0, <1>4 DEF Own
  <2>. QED BY <1>1, <1>2, <1>4, <2>1, <2>2 DEF AnsweredTo, Overlap
<1>5. ASSUME y \in Put PROVE FoundFor(y)'
  <2>. SUFFICES ASSUME pc[y] = "write" PROVE FoundFor(y)'
    BY <1>1 DEF FoundFor
  <2>. DEFINE c == ItemOf(y).channel
              row == Stored(who[y])[c]
              new == (Stored(who[y])[c])'
  <2>1. c \in Channel /\ ItemOf(y)' = ItemOf(y)
    BY <1>0, <1>1, <1>2, <1>5, ItemType DEF ItemOf
  <2>2. Overlap(y, x)'
    BY <1>0, Meets DEF Ended
  <2>3. \/ new = row
        \/ /\ x \in Put /\ who[y] = who[x] /\ who'[x] = who[x] /\ new # None
        \/ /\ x \in Run /\ row = None /\ new # None
    BY <1>2, <1>5, <2>1 DEF Touches, Stored, NoRows, Moves
  <2>4. ASSUME found[y] # None
        PROVE  /\ new # None
               /\ \/ new.priority = found[y].priority
                  \/ \E b \in Put : who'[b] = who'[y] /\ Overlap(y, b)'
    <3>1. row # None /\ (row.priority = found[y].priority
                          \/ \E b \in Put : who[b] = who[y] /\ Overlap(y, b))
      BY <1>0, <1>5, <2>4 DEF Own, FoundFor
    <3>2. ASSUME NEW b \in Put, who[b] = who[y], Overlap(y, b)
          PROVE  who'[b] = who'[y] /\ Overlap(y, b)'
      <4>1. pc[b] # "idle"
        BY <3>2 DEF Overlap
      <4>. QED BY <1>0, <1>2, <1>5, <3>2, <4>1, OverlapStable, RequestKept
    <3>3. CASE new = row
      <4>. HIDE DEF new, row
      <4>. QED BY <3>1, <3>2, <3>3
    <3>4. CASE x \in Put /\ who[y] = who[x] /\ who'[x] = who[x] /\ new # None
      <4>. HIDE DEF new, row
      <4>. QED BY <1>2, <1>5, <2>2, <3>4
    <3>. QED BY <2>3, <3>1, <3>3, <3>4
  <2>5. ASSUME found[y] = None, new # None
        PROVE  \E z \in Actor : Overlap(y, z)' /\ Rivals(y, z)'
    <3>1. CASE new = row
      <4>1. PICK z \in Actor : Overlap(y, z) /\ Rivals(y, z)
        BY <1>0, <1>5, <2>5, <3>1 DEF Own, FoundFor
      <4>. QED BY <1>0, <4>1, OverlapStable, RivalsStable
    <3>2. CASE x \in Put /\ who[y] = who[x] /\ who'[x] = who[x]
      <4>1. Rivals(y, x)'
        BY <1>2, <1>5, <3>2 DEF Rivals
      <4>. QED BY <2>2, <4>1
    <3>3. CASE x \in Run
      <4>1. Rivals(y, x)'
        BY <3>3 DEF Rivals
      <4>. QED BY <2>2, <4>1
    <3>. QED BY <2>3, <3>1, <3>2, <3>3
  <2>6. new = (Stored(who[y])[ItemOf(y).channel])'
    BY <2>1
  <2>. QED BY <1>1, <1>2, <1>5, <2>4, <2>5, <2>6 DEF FoundFor
<1>6. ASSUME y \in Run PROVE ProgressOf(y)'
  <2>0. at[y] \in 1 .. Len(Plan) /\ Len(Plan) \in Nat
    BY <1>0, <1>6, PlanFacts DEF TypeOK
  <2>1. ASSUME pc[y] \in {"find", "write"}, NEW i \in 1 .. at[y] - 1
        PROVE  Present(Plan[i])'
    <3>1. i \in 1 .. Len(Plan)
      BY <2>0
    <3>. QED BY <1>0, <1>6, <2>1, <3>1, PresentStable DEF Own, ProgressOf
  <2>2. ASSUME pc[y] = "done", NEW i \in 1 .. Len(Plan)
        PROVE  Present(Plan[i])'
    BY <1>0, <1>6, <2>2, PresentStable DEF Own, ProgressOf
  <2>3. ASSUME pc[y] = "write"
        PROVE  \E z \in Actor : Overlap(y, z)'
    BY <1>0, <2>3, Meets DEF Ended
  <2>. QED BY <1>1, <2>1, <2>2, <2>3 DEF ProgressOf, Present, Overlap
<1>7. Explained(y)'
  <2>. SUFFICES ASSUME pc[y] = "failed"
                PROVE  \/ y \in rejected'
                       \/ y \in Put /\ who'[y] = Ghost
                       \/ \E z \in Actor : Overlap(y, z)' /\ Rivals(y, z)'
    BY <1>1 DEF Explained, Overlap, Rivals
  <2>1. CASE y \in rejected \/ (y \in Put /\ who[y] = Ghost)
    BY <1>2, <2>1 DEF Touches
  <2>2. CASE \E z \in Actor : Overlap(y, z) /\ Rivals(y, z)
    BY <1>0, <2>2, OverlapStable, RivalsStable
  <2>. QED BY <1>0, <2>1, <2>2 DEF Own, Explained
<1>. QED BY <1>3, <1>4, <1>5, <1>6, <1>7 DEF Own

-----------------------------------------------------------------------------
(* What a step of x makes of x's own part.                                 *)

\* An actor between two statements owes only its progress.
LEMMA OwnByPlace ==
  ASSUME NEW x \in Actor, pc'[x] \notin {"write", "done", "failed"},
         x \in Put => WrittenBy(x)', x \in Run => ProgressOf(x)'
  PROVE  Own(x)'
  BY DEF Own, AnsweredTo, FoundFor, Explained

\* An actor that failed owes only an explanation.
LEMMA OwnFailed ==
  ASSUME NEW x \in Actor, pc'[x] = "failed", Explained(x)'
  PROVE  Own(x)'
  BY DEF Own, AnsweredTo, FoundFor, WrittenBy, ProgressOf

\* A statement that rejects explains the failure.
LEMMA RejectOwn ==
  ASSUME Invariant, NEW x \in Actor, Reject(x)
  PROVE  Own(x)'
<1>1. pc'[x] = "failed"
  BY EndType DEF Reject, Invariant
<1>. QED BY <1>1, OwnFailed DEF Reject, Explained

\* A PUT that arrives has nothing to show yet.
LEMMA PutArriveOwn ==
  ASSUME Invariant, NEW a \in Put, PutArrive(a)
  PROVE  Own(a)'
<1>. USE ActorFacts
<1>1. PICK u \in Addressed, b \in Bodies :
        /\ body' = [body EXCEPT ![a] = b]
        /\ pc' = [pc EXCEPT ![a] = IF b = <<>> THEN "list" ELSE "find"]
  BY DEF PutArrive, Goto
<1>2. at'[a] = 1 /\ body'[a] = b /\ pc'[a] = IF b = <<>> THEN "list" ELSE "find"
  BY <1>1 DEF Invariant, TypeOK, Begun, PutArrive
<1>3. WrittenBy(a)'
  BY <1>2 DEF WrittenBy
<1>. QED BY <1>2, <1>3, OwnByPlace

\* findOne keeps what the PUT has written, and what it returns is the item's row.
LEMMA PutFindOwn ==
  ASSUME Invariant, NEW a \in Put, PutFind(a)
  PROVE  Own(a)'
<1>. USE ActorFacts
<1>1. /\ pc[a] = "find" /\ pc'[a] = "write" /\ found'[a] = Stored(who[a])[ItemOf(a).channel]
      /\ UNCHANGED <<users, prefs, at, who, body, before>>
  BY DEF PutFind, Goto, tables, requests, history, Invariant, TypeOK
<1>2. WrittenBy(a)'
  BY <1>1 DEF WrittenBy, Recent, Invariant, Own
<1>3. FoundFor(a)'
  BY <1>1 DEF FoundFor, Stored, ItemOf
<1>. QED BY <1>1, <1>2, <1>3 DEF Own, AnsweredTo, Explained

\* A write adds its channel to those the PUT has passed.
LEMMA PutWritesOwn ==
  ASSUME Invariant, NEW a \in Put, PutWrites(a)
  PROVE  Own(a)'
<1>. USE ActorFacts
<1>1. TypeOK /\ Begun /\ Moves(a) /\ Touches(a) /\ pc[a] = "write" /\ body' = body
  BY PutWritesStep DEF Invariant, PutWrites, requests
<1>2. \/ pc'[a] = "find" /\ at[a] < Len(body[a]) /\ at'[a] = at[a] + 1
      \/ pc'[a] = "list" /\ at[a] = Len(body[a])
  BY <1>1, NextItemType DEF PutWrites
<1>3. at[a] \in 1 .. Len(body[a]) /\ Len(body[a]) \in Nat
  BY <1>1 DEF TypeOK
<1>4. ASSUME NEW i \in 1 .. at[a], NEW c \in Channel, c = body[a][i].channel
      PROVE  Recent(a, c)'
  <2>1. CASE i = at[a]
    <3>1. PICK row \in Row : row.by = a /\ prefs' = [prefs EXCEPT ![who[a]][ItemOf(a).channel] = row]
      BY DEF PutWrites
    <3>2. c = ItemOf(a).channel /\ row # None /\ who[a] \in User
      BY <1>4, <2>1, NamesAssumption DEF ItemOf, PutWrites
    <3>3. prefs'[who[a]][c] = row
      BY <1>1, <3>1, <3>2 DEF TypeOK
    <3>4. a \notin before[a]
      BY <1>1 DEF Begun, Ended
    <3>. QED BY <3>1, <3>2, <3>3, <3>4 DEF Recent, PutWrites, requests, history
  <2>2. CASE i # at[a]
    <3>1. i \in 1 .. at[a] - 1
      BY <1>3, <2>2
    <3>2. Recent(a, c)
      BY <1>1, <1>4, <3>1 DEF Invariant, Own, WrittenBy
    <3>. QED BY <1>1, <3>2, RecentStable
  <2>. QED BY <2>1, <2>2
<1>5. \A i \in 1 .. Len(body[a]) : body[a][i].channel \in Channel
  BY <1>1, ItemChannel
<1>6. WrittenBy(a)'
  BY <1>1, <1>2, <1>3, <1>4, <1>5 DEF WrittenBy, Recent
<1>. QED BY <1>2, <1>6, OwnByPlace

\* A refused insert is explained by the one who inserted after findOne had looked.
LEMMA PutRefusedOwn ==
  ASSUME Invariant, NEW a \in Put, PutRefused(a)
  PROVE  Own(a)'
<1>. USE ActorFacts
<1>1. TypeOK /\ Begun /\ Moves(a) /\ pc[a] = "write" /\ found[a] = None /\ who' = who
  BY PutRefusedStep DEF Invariant, PutRefused, requests
<1>2. pc'[a] = "failed"
  BY <1>1, EndType DEF PutRefused
<1>3. who[a] \in users \cup {Ghost}
  BY <1>1 DEF Begun
<1>4. CASE who[a] = Ghost
  BY <1>1, <1>2, <1>4, OwnFailed DEF Explained
<1>5. CASE who[a] \in users
  <2>1. Stored(who[a])[ItemOf(a).channel] # None
    BY <1>1, <1>5 DEF PutRefused, MayInsert, Stored, TypeOK
  <2>2. PICK y \in Actor : Overlap(a, y) /\ Rivals(a, y)
    BY <1>1, <2>1 DEF Invariant, Own, FoundFor
  <2>3. Overlap(a, y)' /\ Rivals(a, y)'
    BY <1>1, <2>2, OverlapStable, RivalsStable
  <2>. QED BY <1>2, <2>3, OwnFailed DEF Explained
<1>. QED BY <1>3, <1>4, <1>5

\* The answer lists what the PUT has written, or what came later.
LEMMA PutListOwn ==
  ASSUME Invariant, NEW a \in Put, PutList(a)
  PROVE  Own(a)'
<1>. USE ActorFacts
<1>1. TypeOK /\ Begun /\ Moves(a) /\ pc[a] = "list" /\ UNCHANGED <<users, prefs, who, body, before>>
  BY PutListStep DEF Invariant, PutList, tables, history
<1>2. pc'[a] = "done"
  BY <1>1, EndType DEF PutList
<1>3. answer'[a] = Stored(who[a])
  BY <1>1 DEF PutList, TypeOK
<1>4. WrittenBy(a)
  BY <1>1 DEF Invariant, Own
<1>5. WrittenBy(a)'
  BY <1>1, <1>2, <1>4 DEF WrittenBy, Recent
<1>6. ASSUME NEW i \in 1 .. Len(body[a])
      PROVE  LET row == Stored(who[a])[body[a][i].channel] IN
             row # None /\ (row.by = a \/ (row.by \in Put /\ Overlap(a, row.by)))
  <2>. DEFINE c == body[a][i].channel
              row == prefs[who[a]][c]
  <2>1. c \in Channel /\ who[a] \in User /\ row # None /\ row.by \in Put \ before[a]
    BY <1>1, <1>4, ItemChannel DEF WrittenBy, Recent
  <2>2. pc[row.by] # "idle"
    BY <1>1, <2>1 DEF Invariant, Signed
  <2>3. a \notin before[row.by]
    BY <1>1, <2>1 DEF Begun, Ended
  <2>. QED BY <1>1, <2>1, <2>2, <2>3 DEF Stored, Overlap
<1>7. \A b \in Put : Overlap(a, b) => Overlap(a, b)'
  BY <1>1, OverlapStable
<1>8. AnsweredTo(a)'
  BY <1>1, <1>3, <1>6, <1>7 DEF AnsweredTo, Overlap
<1>. QED BY <1>2, <1>5, <1>8 DEF Own, FoundFor, Explained

\* A run of the seed starts with nothing passed.
LEMMA SeedStartOwn ==
  ASSUME Invariant, NEW s \in Run, SeedStart(s)
  PROVE  Own(s)'
<1>. USE ActorFacts
<1>1. pc'[s] = "find" /\ at'[s] = 1
  BY DEF SeedStart, Goto, Invariant, TypeOK, Begun
<1>2. ProgressOf(s)'
  BY <1>1 DEF ProgressOf
<1>. QED BY <1>1, <1>2, OwnByPlace

\* A run that has found or inserted its row goes on to the next one.
LEMMA NextRowOwn ==
  ASSUME Invariant, NEW s \in Run, pc[s] \in {"find", "write"}, Touches(s), NextRow(s),
         NEW j \in 1 .. Len(Plan), j = at[s], Present(Plan[j])'
  PROVE  Own(s)'
<1>. USE ActorFacts
<1>1. TypeOK /\ at[s] \in 1 .. Len(Plan) /\ Len(Plan) \in Nat
  BY PlanFacts DEF Invariant, TypeOK
<1>2. \/ pc'[s] = "find" /\ at'[s] = at[s] + 1
      \/ pc'[s] = "done" /\ at[s] = Len(Plan)
  BY <1>1, NextRowType
<1>3. ASSUME NEW i \in 1 .. at[s]
      PROVE  Present(Plan[i])'
  <2>1. CASE i = j
    BY <2>1
  <2>2. CASE i # j
    <3>1. i \in 1 .. Len(Plan) /\ i \in 1 .. at[s] - 1
      BY <1>1, <2>2
    <3>. QED BY <3>1, PresentStable DEF Invariant, Own, ProgressOf
  <2>. QED BY <2>1, <2>2
<1>4. pc'[s] = "find" => at'[s] - 1 = at[s]
  BY <1>1, <1>2
<1>5. ProgressOf(s)'
  <2>1. CASE pc'[s] = "find"
    BY <1>3, <1>4, <2>1 DEF ProgressOf
  <2>2. CASE pc'[s] = "done" /\ at[s] = Len(Plan)
    BY <1>3, <2>2 DEF ProgressOf
  <2>. QED BY <1>2, <2>1, <2>2
<1>. QED BY <1>2, <1>5 DEF Own, Explained

\* A row the seed finds is there, and is passed; for another it goes on to insert.
LEMMA SeedFindOwn ==
  ASSUME Invariant, NEW s \in Run, SeedFind(s)
  PROVE  Own(s)'
<1>. USE ActorFacts
<1>1. TypeOK /\ Touches(s) /\ pc[s] = "find" /\ UNCHANGED <<users, templates, prefs>>
  BY SeedFindStep DEF Invariant, SeedFind, tables
<1>2. CASE Present(Plan[at[s]])
  <2>1. PICK j \in 1 .. Len(Plan) : j = at[s]
    BY <1>1 DEF TypeOK
  <2>2. Present(Plan[j])'
    BY <1>1, <1>2, <2>1 DEF Present
  <2>3. NextRow(s)
    BY <1>2 DEF SeedFind
  <2>. QED BY <1>1, <2>1, <2>2, <2>3, NextRowOwn
<1>3. CASE ~Present(Plan[at[s]])
  <2>1. pc'[s] = "write" /\ at' = at
    BY <1>1, <1>3 DEF SeedFind, Goto, TypeOK
  <2>2. ProgressOf(s)'
    BY <1>1, <1>3, <2>1 DEF ProgressOf, Present, Invariant, Own
  <2>. QED BY <2>1, <2>2 DEF Own, Explained
<1>. QED BY <1>2, <1>3

\* A row the seed inserts is there, and is passed.
LEMMA SeedSaveOwn ==
  ASSUME Invariant, NEW s \in Run, SeedSave(s)
  PROVE  Own(s)'
<1>. USE ActorFacts
<1>1. TypeOK /\ Touches(s) /\ at[s] \in 1 .. Len(Plan)
  BY SeedSaveStep DEF Invariant, TypeOK
<1>2. PICK j \in 1 .. Len(Plan) : j = at[s]
  BY <1>1
<1>3. Present(Plan[j])'
  BY <1>1, <1>2, InsertFacts DEF SeedSave
<1>4. pc[s] = "write" /\ NextRow(s)
  BY DEF SeedSave
<1>. QED BY <1>1, <1>2, <1>3, <1>4, NextRowOwn

\* A refused insert of the seed is explained like one of a PUT.
LEMMA SeedRefusedOwn ==
  ASSUME Invariant, NEW s \in Run, SeedRefused(s)
  PROVE  Own(s)'
<1>. USE ActorFacts
<1>1. TypeOK /\ Begun /\ Moves(s) /\ pc[s] = "write" /\ Present(Plan[at[s]])
  BY SeedRefusedStep DEF Invariant, SeedRefused
<1>2. pc'[s] = "failed"
  BY <1>1, EndType DEF SeedRefused
<1>3. PICK y \in Actor : Overlap(s, y)
  BY <1>1 DEF Invariant, Own, ProgressOf
<1>4. Overlap(s, y)' /\ Rivals(s, y)'
  BY <1>1, <1>3, OverlapStable DEF Rivals
<1>. QED BY <1>2, <1>4, OwnFailed DEF Explained

-----------------------------------------------------------------------------
(* Every step.                                                             *)

\* What a step of x does, whichever it is.
StepOf(x) == TypeOK' /\ Moves(x) /\ Touches(x) /\ Own(x)'

\* Each statement of a PUT does what the invariant needs of a step.
LEMMA UpdateStep ==
  ASSUME Invariant, NEW a \in Put, Update(a)
  PROVE  StepOf(a) /\ who'[a] \in users \cup {Ghost}
<1>. USE ActorFacts
<1>0. TypeOK /\ Begun /\ FoundFor(a)
  BY DEF Invariant, Own
<1>1. CASE PutArrive(a)
  <2>1. who'[a] \in users \cup {Ghost}
    BY <1>0, <1>1 DEF PutArrive, TypeOK
  <2>. QED BY <1>0, <1>1, <2>1, PutArriveStep, PutArriveOwn DEF StepOf
<1>2. ASSUME StepOf(a), pc[a] # "idle"
      PROVE  who'[a] \in users \cup {Ghost}
  BY <1>0, <1>2 DEF StepOf, Moves, Begun
<1>3. CASE PutFind(a)
  BY <1>0, <1>2, <1>3, PutFindStep, PutFindOwn DEF StepOf, PutFind
<1>4. CASE PutUpdate(a)
  BY <1>0, <1>2, <1>4, PutUpdateWrites, PutWritesStep, PutWritesOwn DEF StepOf, PutUpdate
<1>5. CASE PutInsert(a)
  BY <1>0, <1>2, <1>5, PutInsertWrites, PutWritesStep, PutWritesOwn DEF StepOf, PutInsert
<1>6. CASE PutRefused(a)
  BY <1>0, <1>2, <1>6, PutRefusedStep, PutRefusedOwn DEF StepOf, PutRefused
<1>7. CASE PutList(a)
  BY <1>0, <1>2, <1>7, PutListStep, PutListOwn DEF StepOf, PutList
<1>8. CASE Reject(a)
  BY <1>0, <1>2, <1>8, RejectStep, RejectOwn DEF StepOf, Reject
<1>. QED BY <1>1, <1>3, <1>4, <1>5, <1>6, <1>7, <1>8 DEF Update

\* And so does each statement of the seed.
LEMMA SeedStepStep ==
  ASSUME Invariant, NEW s \in Run, SeedStep(s)
  PROVE  StepOf(s) /\ pc'[s] # "list"
<1>. USE ActorFacts
<1>0. TypeOK
  BY DEF Invariant
<1>1. CASE SeedStart(s)
  BY <1>0, <1>1, SeedStartStep, SeedStartOwn DEF StepOf, SeedStart, Goto, TypeOK
<1>2. CASE SeedFind(s)
  <2>1. pc'[s] # "list"
    <3>1. CASE Present(Plan[at[s]])
      BY <1>0, <1>2, <3>1, NextRowType DEF SeedFind
    <3>2. CASE ~Present(Plan[at[s]])
      BY <1>0, <1>2, <3>2 DEF SeedFind, Goto, TypeOK
    <3>. QED BY <3>1, <3>2
  <2>. QED BY <1>0, <1>2, <2>1, SeedFindStep, SeedFindOwn DEF StepOf
<1>3. CASE SeedSave(s)
  BY <1>0, <1>3, SeedSaveStep, SeedSaveOwn, NextRowType DEF StepOf, SeedSave
<1>4. CASE SeedRefused(s)
  BY <1>0, <1>4, SeedRefusedStep, SeedRefusedOwn, EndType DEF StepOf, SeedRefused
<1>5. CASE Reject(s)
  BY <1>0, <1>5, RejectStep, RejectOwn, EndType DEF StepOf, Reject
<1>. QED BY <1>1, <1>2, <1>3, <1>4, <1>5 DEF SeedStep

\* Every step preserves the whole invariant.
LEMMA NextInvariant == Invariant /\ [Next]_vars => Invariant'
<1>. SUFFICES ASSUME Invariant, [Next]_vars PROVE Invariant'
  OBVIOUS
<1>. USE ActorFacts
<1>1. ASSUME NEW x \in Actor, StepOf(x),
             x \in Put => who'[x] \in users \cup {Ghost}, x \in Run => pc'[x] # "list"
      PROVE  Invariant'
  <2>1. Begun'
    BY <1>1, BegunStep DEF Invariant, StepOf
  <2>2. Signed'
    BY <1>1, SignedStep DEF Invariant, StepOf
  <2>3. \A y \in Actor : Own(y)'
    BY <1>1, OthersKept DEF StepOf
  <2>. QED BY <1>1, <2>1, <2>2, <2>3 DEF Invariant, StepOf
<1>2. ASSUME NEW a \in Put, Update(a) PROVE Invariant'
  BY <1>1, <1>2, UpdateStep
<1>3. ASSUME NEW s \in Run, SeedStep(s) PROVE Invariant'
  BY <1>1, <1>3, SeedStepStep
<1>4. CASE UNCHANGED vars
  <2>1. /\ UNCHANGED <<users, templates, prefs, pc, at, found, who, body, answer, before, rejected>>
    BY <1>4 DEF vars, tables, locals, requests, history
  <2>2. TypeOK' /\ Begun' /\ Signed'
    BY <2>1 DEF Invariant, TypeOK, Begun, Ended, Signed
  <2>3. ASSUME NEW x \in Actor PROVE Own(x)'
    <3>1. Own(x)
      BY DEF Invariant
    <3>2. x \in Put => WrittenBy(x)' /\ AnsweredTo(x)'
      BY <2>1, <3>1 DEF Own, WrittenBy, Recent, AnsweredTo, Overlap
    <3>3. x \in Put => FoundFor(x)'
      BY <2>1, <3>1 DEF Own, FoundFor, Stored, ItemOf, Overlap, Rivals
    <3>4. x \in Run => ProgressOf(x)'
      BY <2>1, <3>1 DEF Own, ProgressOf, Present, Overlap
    <3>5. Explained(x)'
      BY <2>1, <3>1 DEF Own, Explained, Overlap, Rivals
    <3>. QED BY <3>2, <3>3, <3>4, <3>5 DEF Own
  <2>. QED BY <2>2, <2>3 DEF Invariant
<1>. QED BY <1>2, <1>3, <1>4 DEF Next

-----------------------------------------------------------------------------
(* The theorems.                                                           *)

\* Invariant holds in every state, for any PUTs, runs of the seed and bodies.
THEOREM InvariantHolds == Spec => []Invariant
<1>. QED BY InitInvariant, NextInvariant, PTL DEF Spec

\* The variables keep their types; a PUT's place in its loop is one of its items.
THEOREM TypeCorrect == Spec => []TypeOK
<1>1. Invariant => TypeOK
  BY DEF Invariant
<1>. QED BY <1>1, InvariantHolds, PTL

\* Of an answered PUT each channel it named holds its settings or more recent
\* ones: no write of an older PUT lands on top of them.
THEOREM LatestWinsHolds == Spec => []LatestWins
<1>1. Invariant => LatestWins
  <2>. SUFFICES ASSUME Invariant, NEW a \in Put, pc[a] = "done", NEW i \in 1 .. Len(body[a])
                PROVE  LET row == Stored(who[a])[body[a][i].channel] IN
                       row # None /\ row.by \in Put \ before[a]
    BY DEF LatestWins, Named
  <2>1. Recent(a, body[a][i].channel)
    BY ActorFacts DEF Invariant, Own, WrittenBy
  <2>. QED BY <2>1 DEF Recent, Stored
<1>. QED BY <1>1, InvariantHolds, PTL

\* An answer shows the PUT's own settings, or those of one that overlapped it.
THEOREM AnswerIsCurrentHolds == Spec => []AnswerIsCurrent
<1>1. Invariant => AnswerIsCurrent
  BY ActorFacts DEF Invariant, Own, AnsweredTo, AnswerIsCurrent, Named
<1>. QED BY <1>1, InvariantHolds, PTL

\* A PUT that names no priority changes none, unless one for its user overlaps it.
THEOREM PriorityIsKept == Spec => PriorityKept
<1>. DEFINE Kept(u, c) ==
       (prefs[u][c] # None /\ prefs'[u][c].priority # prefs[u][c].priority) =>
         LET a == prefs'[u][c].by IN
         \/ prefs'[u][c].priority = a
         \/ \E b \in Put : who[b] = u /\ Overlap(a, b)
<1>. USE ActorFacts
<1>1. Invariant /\ [Next]_vars => [\A u \in User, c \in Channel : Kept(u, c)]_vars
  <2>. SUFFICES ASSUME Invariant, Next, NEW u \in User, NEW c \in Channel,
                       prefs[u][c] # None, prefs'[u][c] # prefs[u][c]
                PROVE  Kept(u, c)
    OBVIOUS
  <2>0. TypeOK
    BY DEF Invariant
  <2>1. PICK x \in Actor : (x \in Put /\ Update(x)) \/ (x \in Run /\ SeedStep(x))
    <3>1. CASE \E a \in Put : Update(a)
      BY <3>1
    <3>2. CASE \E s \in Run : SeedStep(s)
      BY <3>2
    <3>. QED BY <3>1, <3>2 DEF Next
  <2>2. Touches(x)
    BY <2>1, UpdateStep, SeedStepStep DEF StepOf
  <2>3. x \in Put /\ pc[x] = "write" /\ u = who[x] /\ c = ItemOf(x).channel /\ prefs' # prefs
    BY <2>2 DEF Touches
  <2>4. PutUpdate(x) \/ PutInsert(x)
    BY <2>1, <2>3 DEF Update, PutArrive, PutFind, PutRefused, PutList, Reject, tables
  <2>5. found[x] # None /\ PutUpdate(x)
    BY <2>3, <2>4 DEF PutInsert, MayInsert, PutUpdate
  <2>6. prefs'[u][c] = [by |-> x, priority |-> IF ItemOf(x).prioritised THEN x ELSE found[x].priority]
    BY <2>0, <2>3, <2>5 DEF PutUpdate, WriteRow, TypeOK
  <2>7. \/ prefs[u][c].priority = found[x].priority
        \/ \E b \in Put : who[b] = u /\ Overlap(x, b)
    BY <2>3, <2>5 DEF Invariant, Own, FoundFor, Stored
  <2>. QED BY <2>6, <2>7
<1>. QED BY <1>1, InvariantHolds, PTL DEF Spec, PriorityKept

\* Nothing fails that works alone: a rejected statement, an unknown user or a
\* rival is behind every failed PUT and every failed run of the seed.
THEOREM FailuresAreExplained == Spec => []FailuresExplained
<1>1. Invariant => FailuresExplained
  BY DEF Invariant, Own, Explained, FailuresExplained
<1>. QED BY <1>1, InvariantHolds, PTL

\* A run of the seed that completes leaves every row it provides.
THEOREM SeedIsComplete == Spec => []SeedComplete
<1>1. Invariant => SeedComplete
  BY ActorFacts DEF Invariant, Own, ProgressOf, SeedComplete
<1>. QED BY <1>1, InvariantHolds, PTL
=============================================================================
