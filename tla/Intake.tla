------------------------------- MODULE Intake -------------------------------
(***************************************************************************)
(* The API side of the back-end: POST /notifications/send and /batch       *)
(* (NotificationsService), which run one ProducerService.produce or        *)
(* .produceSync per recipient, all at once; PUT /preferences/:userId       *)
(* (PreferencesService.update), which may change a recipient's opt-in      *)
(* under them; and what InAppChannel.send pushes to the connected sockets. *)
(*                                                                         *)
(* One channel's preferences are modelled.  Rate limiting, quiet hours and *)
(* the queue workers have modules of their own: here a token may be        *)
(* refused, a job may be delayed, and a worker's attempt at a job is one   *)
(* step, that may have to be repeated.                                     *)
(***************************************************************************)
EXTENDS Naturals, FiniteSets

CONSTANTS
  User,         \* the ids requests may name
  Known,        \* those with a row in the users table
  Admin,        \* those of them with isAdmin
  Call,         \* send and batch requests
  Requests,     \* what they may ask for
  Put,          \* PUT requests
  Seeded,       \* the preference rows there may be at first
  Online,       \* the users with a socket connected
  Copies,       \* bound: how often one request may name one user
  Pushes,       \* bound: how often providers accept one job from the workers
  ChainLength,  \* available providers of EMAIL
  None

Modes    == {"send", "sync", "users", "admins"}
Channels == {"EMAIL", "IN_APP", "SMS"}
PrefRow  == {"none", "in", "out"}

\* names[u]: how often userIds (for a send: userId) holds u.
Request == [mode : Modes, channel : Channels, names : [User -> 0 .. Copies]]

ASSUME UsersAssumption == Admin \subseteq Known /\ Known \subseteq User
ASSUME SeededAssumption == Seeded \subseteq [User -> PrefRow] /\ Online \subseteq Known
ASSUME RequestsAssumption == Requests \subseteq Request
ASSUME IntakeBounds == Copies \in Nat \ {0} /\ ChainLength \in Nat \ {0} /\ Pushes \in Nat
ASSUME NoneAssumption == None \notin Requests \cup User

\* One call of produce or produceSync: request, recipient, copy.
Task == [call : Call, user : User, copy : 1 .. Copies]

VARIABLES
  request, cpc,             \* per call: what it asks for, where it is
  pc, read, idx,            \* per task: where it is, the preference row it read,
                            \* the provider it tries
  row, job,                 \* per task: its row's status, its job
  pref,                     \* per user: the preference row
  ppc, putUser, putTo, found,  \* per PUT: where it is, its path and body, findOne's result
  pushed,                   \* per task: how often a worker got it accepted
  accepted, mishap, optedOut   \* history the properties read

callVars == <<request, cpc>>
taskVars == <<pc, read, idx>>
putVars  == <<pref, ppc, putUser, putTo, found>>
history  == <<accepted, mishap, optedOut>>
vars == <<callVars, taskVars, row, job, putVars, pushed, history>>

CallPc    == {"new", "admins", "running", "ok", "error"}
AwaitPc   == {"user", "pref", "consume", "render", "save", "add", "send", "record", "fail"}
Fulfilled == {"skipped", "queued", "delayed", "sent", "failed"}
PutPc     == {"idle", "find", "write", "done", "failed"}

TypeOK ==
  /\ request \in [Call -> Requests \cup {None}]
  /\ cpc \in [Call -> CallPc]
  /\ pc \in [Task -> {"none", "rejected"} \cup AwaitPc \cup Fulfilled]
  /\ read \in [Task -> PrefRow]
  /\ idx \in [Task -> 0 .. ChainLength]
  /\ row \in [Task -> {"none", "PENDING", "SENT", "FAILED"}]
  /\ job \in [Task -> {"none", "wait", "delayed", "done"}]
  /\ pref \in [User -> PrefRow]
  /\ ppc \in [Put -> PutPc]
  /\ putUser \in [Put -> Known \cup {None}]
  /\ putTo \in [Put -> PrefRow]
  /\ found \in [Put -> BOOLEAN]
  /\ pushed \in [Task -> 0 .. Pushes]
  /\ accepted \in [Task -> 0 .. ChainLength]
  /\ mishap \subseteq Task
  /\ optedOut \subseteq Task

Init ==
  /\ request = [c \in Call |-> None]
  /\ cpc = [c \in Call |-> "new"]
  /\ pc = [t \in Task |-> "none"]
  /\ read = [t \in Task |-> "none"]
  /\ idx = [t \in Task |-> 0]
  /\ row = [t \in Task |-> "none"]
  /\ job = [t \in Task |-> "none"]
  /\ pref \in Seeded
  /\ ppc = [a \in Put |-> "idle"]
  /\ putUser = [a \in Put |-> None]
  /\ putTo = [a \in Put |-> "none"]
  /\ found = [a \in Put |-> FALSE]
  /\ pushed = [t \in Task |-> 0]
  /\ accepted = [t \in Task |-> 0]
  /\ mishap = {}
  /\ optedOut = {}

Goto(t, step) == pc' = [pc EXCEPT ![t] = step]

Sync(t)    == request[t.call].mode = "sync"
IsAdmin(t) == request[t.call].mode = "admins"
Channel(t) == request[t.call].channel

-----------------------------------------------------------------------------
(* NotificationsService: who is notified, and the answer.                  *)

\* One task per userId: userIds may repeat itself.
Named(c, r) == {t \in Task : t.call = c /\ t.copy <= r.names[t.user]}

\* Mutant of WithAdmins: concatenation without the Set.
WithAdminsConcat(c, r) ==
  {t \in Task : t.call = c /\ t.copy <= r.names[t.user] + (IF t.user \in Admin THEN 1 ELSE 0)}

\* toAdmins: the Set of userIds and admins names each user once.
WithAdmins(c, r) ==
  {t \in Task : t.call = c /\ t.copy = 1 /\ (r.names[t.user] > 0 \/ t.user \in Admin)}

PutsFor(u) == {a \in Put : putUser[a] = u /\ ppc[a] \in {"find", "write"}}

\* The map over userIds calls produce for each, up to its first await; which
\* recipients have opted out for good, with no PUT on the way, is noted.
Start(S) ==
  /\ pc' = [t \in Task |-> IF t \in S THEN "user" ELSE pc[t]]
  /\ optedOut' = optedOut \cup {t \in S : pref[t.user] = "out" /\ PutsFor(t.user) = {}}

\* send and batch, up to produce or findAdmins.
Arrive(c) ==
  /\ cpc[c] = "new"
  /\ \E r \in Requests :
       /\ request' = [request EXCEPT ![c] = r]
       /\ IF r.mode = "admins"
          THEN cpc' = [cpc EXCEPT ![c] = "admins"] /\ UNCHANGED <<pc, optedOut>>
          ELSE cpc' = [cpc EXCEPT ![c] = "running"] /\ Start(Named(c, r))
  /\ UNCHANGED <<read, idx, row, job, putVars, pushed, accepted, mishap>>

\* batch, with users.findAdmins answered.
FindAdmins(c) ==
  /\ cpc[c] = "admins"
  /\ cpc' = [cpc EXCEPT ![c] = "running"]
  /\ Start(WithAdmins(c, request[c]))
  /\ UNCHANGED <<request, read, idx, row, job, putVars, pushed, accepted, mishap>>

Tasks(c) == {t \in Task : t.call = c /\ pc[t] # "none"}

\* Mutant of Settled: Promise.race for Promise.all.
SettledFirst(c) == \E t \in Tasks(c) : pc[t] \in Fulfilled

\* Promise.all fulfils with every produce.
Settled(c) == \A t \in Tasks(c) : pc[t] \in Fulfilled

RespondOk(c) ==
  /\ cpc[c] = "running"
  /\ Settled(c)
  /\ cpc' = [cpc EXCEPT ![c] = "ok"]
  /\ UNCHANGED <<request, taskVars, row, job, putVars, pushed, history>>

\* It rejects with the first produce that does; the others go on.
RespondError(c) ==
  /\ \/ cpc[c] = "admins"
     \/ cpc[c] = "running" /\ \E t \in Tasks(c) : pc[t] = "rejected"
  /\ cpc' = [cpc EXCEPT ![c] = "error"]
  /\ UNCHANGED <<request, taskVars, row, job, putVars, pushed, history>>

-----------------------------------------------------------------------------
(* ProducerService.produce and .produceSync, one await at a time.          *)

FindUser(t) ==
  /\ pc[t] = "user"
  /\ Goto(t, IF t.user \in Known THEN "pref" ELSE "skipped")
  /\ UNCHANGED <<callVars, read, idx, row, job, putVars, pushed, history>>

\* Mutant of ReadPreference: the row is read, optedIn is not.
ReadPreferenceOnly(t) ==
  /\ pc[t] = "pref"
  /\ read' = [read EXCEPT ![t] = pref[t.user]]
  /\ Goto(t, IF Sync(t) THEN "render" ELSE "consume")
  /\ UNCHANGED <<callVars, idx, row, job, putVars, pushed, history>>

\* getPreference: no row counts as opted in.
ReadPreference(t) ==
  /\ pc[t] = "pref"
  /\ read' = [read EXCEPT ![t] = pref[t.user]]
  /\ Goto(t, IF pref[t.user] = "out" THEN "skipped"
             ELSE IF Sync(t) THEN "render" ELSE "consume")
  /\ UNCHANGED <<callVars, idx, row, job, putVars, pushed, history>>

\* RateLimiterService.consume has a token, or has not.
Consume(t) ==
  /\ pc[t] = "consume"
  /\ \E allowed \in BOOLEAN : Goto(t, IF allowed THEN "render" ELSE "skipped")
  /\ UNCHANGED <<callVars, read, idx, row, job, putVars, pushed, history>>

Render(t) ==
  /\ pc[t] = "render"
  /\ Goto(t, "save")
  /\ UNCHANGED <<callVars, read, idx, row, job, putVars, pushed, history>>

\* resolver.resolve: in-app is one provider, SMS has none.
Chain(t) == CASE Channel(t) = "EMAIL"  -> ChainLength
              [] Channel(t) = "IN_APP" -> 1
              [] Channel(t) = "SMS"    -> 0

\* logs.save; the sync path goes on with resolver.resolve.
Save(t) ==
  /\ pc[t] = "save"
  /\ row' = [row EXCEPT ![t] = "PENDING"]
  /\ IF ~Sync(t) THEN Goto(t, "add") /\ idx' = idx
     ELSE IF Chain(t) = 0 THEN Goto(t, "fail") /\ idx' = idx
     ELSE Goto(t, "send") /\ idx' = [idx EXCEPT ![t] = 1]
  /\ UNCHANGED <<callVars, read, job, putVars, pushed, history>>

\* Mutant of Enqueue: a producer that enqueues before it persists.
EnqueueFirst(t) ==
  /\ pc[t] \in {"save", "add"}
  /\ ~Sync(t) /\ Channel(t) # "SMS"
  /\ job' = [job EXCEPT ![t] = "wait"]
  /\ Goto(t, "queued")
  /\ UNCHANGED <<callVars, read, idx, row, putVars, pushed, history>>

\* queue.add; only a user with a preference row can be in quiet hours.
Enqueue(t) ==
  /\ pc[t] = "add"
  /\ Channel(t) # "SMS"
  /\ \E delay \in IF read[t] = "none" THEN {FALSE} ELSE BOOLEAN :
       /\ job' = [job EXCEPT ![t] = IF delay THEN "delayed" ELSE "wait"]
       /\ Goto(t, IF delay THEN "delayed" ELSE "queued")
  /\ UNCHANGED <<callVars, read, idx, row, putVars, pushed, history>>

\* Any await outside the provider loop may reject; so does produce.  For SMS
\* queueForChannel throws, with the row already saved.
Rejects(t) ==
  /\ pc[t] \in AwaitPc \ {"send", "record"}
  /\ Goto(t, "rejected")
  /\ UNCHANGED <<callVars, read, idx, row, job, putVars, pushed, history>>

-----------------------------------------------------------------------------
(* The queue workers: one attempt at a job is one step.  Delivery has its   *)
(* parts, how many attempts a job has, and what follows the last.           *)

\* A provider accepts the task, and the update to SENT ends the job.
PushSent(t) ==
  /\ job[t] \in {"wait", "delayed"}
  /\ pushed[t] < Pushes
  /\ pushed' = [pushed EXCEPT ![t] = @ + 1]
  /\ job' = [job EXCEPT ![t] = "done"]
  /\ row' = [row EXCEPT ![t] = "SENT"]
  /\ UNCHANGED <<callVars, taskVars, putVars, history>>

\* Providers accept it, and yet the attempt goes wrong: a reply is lost, the
\* update to SENT rejects, or the worker dies or loses its lock.  The job is
\* tried again, unless this was its last attempt.
PushMishap(t) ==
  /\ job[t] \in {"wait", "delayed"}
  /\ \E n \in 1 .. Chain(t) :
       pushed[t] + n <= Pushes /\ pushed' = [pushed EXCEPT ![t] = @ + n]
  /\ mishap' = mishap \cup {t}
  /\ \E state \in {"wait", "done"} : job' = [job EXCEPT ![t] = state]
  /\ \E status \in {"PENDING", "SENT", "FAILED"} : row' = [row EXCEPT ![t] = status]
  /\ UNCHANGED <<callVars, taskVars, putVars, accepted, optedOut>>

\* No provider accepts it: all of them reject, a statement before them does, or
\* the worker dies first.
PushFails(t) ==
  /\ job[t] \in {"wait", "delayed"}
  /\ \E state \in {"wait", "done"} : job' = [job EXCEPT ![t] = state]
  /\ \E status \in {row[t], "PENDING", "FAILED"} : row' = [row EXCEPT ![t] = status]
  /\ UNCHANGED <<callVars, taskVars, putVars, pushed, history>>

-----------------------------------------------------------------------------
(* The provider loop of produceSync.                                       *)

\* Mutant of NextProvider: one step past the end of the chain.
NextProviderPastEnd(t) ==
  IF idx[t] <= Chain(t)
  THEN idx' = [idx EXCEPT ![t] = @ + 1] /\ Goto(t, "send")
  ELSE idx' = idx /\ Goto(t, "fail")

\* The loop's catch block: the next provider, or past the loop.
NextProvider(t) ==
  IF idx[t] < Chain(t)
  THEN idx' = [idx EXCEPT ![t] = @ + 1] /\ Goto(t, "send")
  ELSE idx' = idx /\ Goto(t, "fail")

Deliver(t) == accepted' = [accepted EXCEPT ![t] = @ + 1]

\* provider.send resolves.
SyncAccepted(t) ==
  /\ pc[t] = "send"
  /\ Deliver(t)
  /\ Goto(t, "record")
  /\ UNCHANGED <<callVars, read, idx, row, job, putVars, pushed, mishap, optedOut>>

\* Mutant of SyncRejected: send is not awaited, its rejection never seen.
SyncRejectedUnseen(t) ==
  /\ pc[t] = "send"
  /\ Goto(t, "record")
  /\ UNCHANGED <<callVars, read, idx, row, job, putVars, pushed, history>>

\* A mail provider's send rejects, perhaps after it took the message; the in-app
\* provider only emits.
SyncRejected(t) ==
  /\ pc[t] = "send"
  /\ Channel(t) = "EMAIL"
  /\ \/ UNCHANGED <<accepted, mishap>>
     \/ Deliver(t) /\ mishap' = mishap \cup {t}
  /\ NextProvider(t)
  /\ UNCHANGED <<callVars, read, row, job, putVars, pushed, optedOut>>

\* Mutant of SyncRecord: the loop is not left after a success.
SyncRecordGoOn(t) ==
  /\ pc[t] = "record"
  /\ row' = [row EXCEPT ![t] = "SENT"]
  /\ NextProvider(t)
  /\ UNCHANGED <<callVars, read, job, putVars, pushed, history>>

\* The update to SENT; the answer is 'sent'.
SyncRecord(t) ==
  /\ pc[t] = "record"
  /\ row' = [row EXCEPT ![t] = "SENT"]
  /\ Goto(t, "sent")
  /\ UNCHANGED <<callVars, read, idx, job, putVars, pushed, history>>

\* That update rejects inside the try: the next provider is tried.
SyncRecordRejected(t) ==
  /\ pc[t] = "record"
  /\ mishap' = mishap \cup {t}
  /\ NextProvider(t)
  /\ UNCHANGED <<callVars, read, row, job, putVars, pushed, accepted, optedOut>>

\* The update to FAILED; the answer is 'failed'.
SyncFail(t) ==
  /\ pc[t] = "fail"
  /\ row' = [row EXCEPT ![t] = "FAILED"]
  /\ Goto(t, "failed")
  /\ UNCHANGED <<callVars, read, idx, job, putVars, pushed, history>>

-----------------------------------------------------------------------------
(* PreferencesService.update, for the channel's item.                      *)

PutArrive(a) ==
  /\ ppc[a] = "idle"
  /\ \E u \in Known, to \in {"in", "out"} :
       /\ putUser' = [putUser EXCEPT ![a] = u]
       /\ putTo' = [putTo EXCEPT ![a] = to]
       /\ optedOut' = {t \in optedOut : t.user # u}
  /\ ppc' = [ppc EXCEPT ![a] = "find"]
  /\ UNCHANGED <<callVars, taskVars, row, job, pref, found, pushed, accepted, mishap>>

PutFind(a) ==
  /\ ppc[a] = "find"
  /\ found' = [found EXCEPT ![a] = pref[putUser[a]] # "none"]
  /\ ppc' = [ppc EXCEPT ![a] = "write"]
  /\ UNCHANGED <<callVars, taskVars, row, job, pref, putUser, putTo, pushed, history>>

\* The request ends, and what it held with it.
End(a, state) ==
  /\ ppc' = [ppc EXCEPT ![a] = state]
  /\ putUser' = [putUser EXCEPT ![a] = None]
  /\ putTo' = [putTo EXCEPT ![a] = "none"]
  /\ found' = [found EXCEPT ![a] = FALSE]

\* repo.update of the row found, or repo.save of a new one.
PutWrite(a) ==
  /\ ppc[a] = "write"
  /\ found[a] \/ pref[putUser[a]] = "none"
  /\ pref' = [pref EXCEPT ![putUser[a]] = putTo[a]]
  /\ End(a, "done")
  /\ UNCHANGED <<callVars, taskVars, row, job, pushed, history>>

\* A statement rejects, for this channel's item or for one before it; repo.save
\* always does when another PUT saved first (the unique constraint).
PutRejects(a) ==
  /\ ppc[a] \in {"find", "write"}
  /\ End(a, "failed")
  /\ UNCHANGED <<callVars, taskVars, row, job, pref, pushed, history>>

-----------------------------------------------------------------------------
Produce(t) ==
  \/ FindUser(t) \/ ReadPreference(t) \/ Consume(t) \/ Render(t) \/ Save(t)
  \/ Enqueue(t) \/ Rejects(t)
  \/ SyncAccepted(t) \/ SyncRejected(t) \/ SyncRecord(t) \/ SyncRecordRejected(t) \/ SyncFail(t)

Push(t) == PushSent(t) \/ PushMishap(t) \/ PushFails(t)

Serve(c) == Arrive(c) \/ FindAdmins(c) \/ RespondOk(c) \/ RespondError(c)

Update(a) == PutArrive(a) \/ PutFind(a) \/ PutWrite(a) \/ PutRejects(a)

Next ==
  \/ \E c \in Call : Serve(c)
  \/ \E t \in Task : Produce(t) \/ Push(t)
  \/ \E a \in Put : Update(a)

Spec == Init /\ [][Next]_vars

-----------------------------------------------------------------------------
\* A recipient who had opted out before the request came, and sends no PUT
\* meanwhile, gets no notification of his own from it, on either path.
OptOutHonoured == \A t \in optedOut : row[t] = "none"

\* An answer without an error accounts for every recipient: who was skipped has
\* no row, everyone else has a row and, unless it was delivered inline, a job;
\* an error means that findAdmins or one of the recipients failed.
AnswersTrue ==
  \A c \in Call :
    /\ cpc[c] = "ok" =>
         \A t \in Tasks(c) : \/ pc[t] = "skipped" /\ row[t] = "none"
                             \/ pc[t] \in {"queued", "delayed"} /\ row[t] # "none" /\ job[t] # "none"
                             \/ pc[t] \in {"sent", "failed"} /\ Sync(t) /\ row[t] # "none"
    /\ cpc[c] = "error" => Tasks(c) = {} \/ \E t \in Tasks(c) : pc[t] = "rejected"

\* What produceSync answers is what the row says: 'sent' and SENT after a
\* provider accepted; 'failed' and FAILED after none did, unless a reply was
\* lost or the update to SENT was.
SyncAnswersTrue ==
  \A t \in Task : (pc[t] # "none" /\ Sync(t)) =>
    /\ (pc[t] = "sent") = (row[t] = "SENT")
    /\ (pc[t] = "failed") = (row[t] = "FAILED")
    /\ pc[t] = "sent" => accepted[t] > 0
    /\ pc[t] = "failed" => accepted[t] = 0 \/ t \in mishap

\* produceSync delivers twice only after a lost reply or a lost update.
SyncDuplicateNeedsMishap == \A t \in Task : accepted[t] > 1 => t \in mishap

\* The sockets that joined the room InAppChannel.send emits to: at the
\* handshake an admin joins the admins room too.
Room(t) ==
  IF Channel(t) # "IN_APP" THEN {}
  ELSE IF IsAdmin(t) THEN Online \cap Admin
  ELSE Online \cap {t.user}

\* What u's sockets receive of request c: every emit, the repeated ones too.
Received(c, u) == {e \in Tasks(c) \X (1 .. Pushes) : u \in Room(e[1]) /\ e[2] <= pushed[e[1]]}

\* Of a broadcast an admin receives no more than one emit per user it was queued
\* for, each of which goes to the whole admins room; what he receives beyond that
\* are repeats of an emit after which something went wrong.  (A dead-lettered job
\* that an administrator puts on the queue again is not one of the request's; that
\* it may be so twice is Delivery's ParallelJobsNeedDoubleRetry.)
BroadcastCopies ==
  \A c \in Call, u \in Known :
    (cpc[c] # "new" /\ request[c].mode = "admins") =>
      Cardinality({e \in Received(c, u) : e[2] = 1 \/ e[1] \notin mishap})
        <= Cardinality({t.user : t \in {s \in Tasks(c) : job[s] # "none"}})

\* ProducerService hands its notifications to the workers as Handoff says, who
\* deliver what was persisted; produceSync answers 'sent' only after a provider
\* accepted what was persisted.
Contract == INSTANCE Handoff WITH
  Item <- Task,
  rows <- {t \in Task : row[t] # "none"},
  jobs <- {t \in Task : job[t] # "none"},
  delivered <- {t \in Task : accepted[t] + pushed[t] > 0},
  claimed <- {t \in Task : pc[t] = "sent"}

HandedOff == Contract!Spec
=============================================================================
