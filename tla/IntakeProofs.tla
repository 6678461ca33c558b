---------------------------- MODULE IntakeProofs ----------------------------
(***************************************************************************)
(* Proofs about Intake, for every set of users, requests and PUTs, every   *)
(* provider chain and every bound on copies.                               *)
(***************************************************************************)
EXTENDS Intake, FiniteSetTheorems, TLAPS

-----------------------------------------------------------------------------
(* The inductive invariant, in named parts.                                *)

\* A task runs for a request that has been read; an answer without an error
\* came after every task of the request, one with an error after a failure.
Answered ==
  /\ \A c \in Call : cpc[c] # "new" => request[c] \in Requests
  /\ \A t \in Task : pc[t] # "none" => cpc[t.call] \in {"running", "ok", "error"}
  /\ \A c \in Call : cpc[c] = "ok" => \A t \in Task : t.call = c => pc[t] \in {"none"} \cup Fulfilled
  /\ \A c \in Call : cpc[c] = "error" =>
       \/ \A t \in Task : t.call = c => pc[t] = "none"
       \/ \E t \in Task : t.call = c /\ pc[t] = "rejected"

\* Where a task stands is what its row and its job say.
Recorded ==
  \A t \in Task :
    /\ pc[t] \in {"none", "user", "pref", "consume", "render", "save", "skipped"} => row[t] = "none"
    /\ pc[t] \in {"add", "send", "record", "fail"} => row[t] = "PENDING"
    /\ pc[t] \in {"queued", "delayed"} => row[t] # "none" /\ job[t] # "none"
    /\ pc[t] = "sent" => row[t] = "SENT"
    /\ pc[t] = "failed" => row[t] = "FAILED"
    /\ pc[t] = "rejected" => row[t] \in {"none", "PENDING"}
    /\ job[t] # "none" => pc[t] \in {"queued", "delayed"}

\* Which of the two paths a task is on.
OnItsPath ==
  \A t \in Task :
    /\ pc[t] \in {"add", "queued", "delayed"} => ~Sync(t)
    /\ pc[t] \in {"send", "record", "fail", "sent", "failed"} => Sync(t)

\* How far down the provider chain a task is, and what it has got from there.
Tried ==
  \A t \in Task :
    /\ pc[t] \in {"send", "record"} => idx[t] \in 1 .. Chain(t)
    /\ pc[t] \in {"none", "user", "pref", "consume", "render", "save"} => accepted[t] = 0
    /\ accepted[t] <= idx[t]
    /\ pc[t] = "send" => accepted[t] < idx[t]
    /\ pc[t] \in {"record", "sent"} => accepted[t] > 0
    /\ accepted[t] > 0 => t \in mishap \/ pc[t] \in {"record", "sent"}
    /\ accepted[t] > 1 => t \in mishap

\* What the workers have pushed has a job, and is pushed again after a mishap only.
Pushed ==
  \A t \in Task :
    /\ pushed[t] > 0 => job[t] = "done" \/ (job[t] # "none" /\ t \in mishap)
    /\ pushed[t] > 1 => t \in mishap

\* Who had opted out still has, with no PUT on the way, and is being skipped.
StillOut ==
  \A t \in optedOut :
    /\ pref[t.user] = "out"
    /\ PutsFor(t.user) = {}
    /\ pc[t] \in {"user", "pref", "skipped", "rejected"}
    /\ row[t] = "none"

Invariant ==
  /\ TypeOK
  /\ Answered
  /\ Recorded
  /\ OnItsPath
  /\ Tried
  /\ Pushed
  /\ StillOut

USE DEF callVars, taskVars, putVars, history, Modes, Channels, PrefRow, CallPc, AwaitPc,
  Fulfilled, PutPc
USE UsersAssumption, SeededAssumption, RequestsAssumption, IntakeBounds, NoneAssumption

\* The invariant holds before any request has come.
LEMMA InitInvariant == Init => Invariant
  BY DEF Init, Invariant, TypeOK, Answered, Recorded, OnItsPath, Tried, Pushed, StillOut, Task

\* The chain has at most ChainLength providers.
LEMMA ChainBound ==
  ASSUME NEW t \in Task, request[t.call] \in Requests
  PROVE  Chain(t) \in 0 .. ChainLength
  BY DEF Chain, Channel, Request

\* A request that comes starts tasks of its own, none of which was there, and
\* notes those whose user has opted out.
LEMMA Arrival ==
  ASSUME TypeOK, Answered, NEW c \in Call, Arrive(c)
  PROVE  /\ request'[c] \in Requests
         /\ \A d \in Call \ {c} : request'[d] = request[d] /\ cpc'[d] = cpc[d]
         /\ cpc'[c] \in {"admins", "running"}
         /\ pc' \in [Task -> {"none", "rejected"} \cup AwaitPc \cup Fulfilled]
         /\ \A t \in Task :
              \/ pc'[t] = pc[t] /\ (t.call = c => pc[t] = "none")
              \/ t.call = c /\ pc[t] = "none" /\ pc'[t] = "user" /\ cpc'[c] = "running"
         /\ optedOut' \subseteq Task
         /\ \A t \in optedOut' :
              \/ t \in optedOut
              \/ pc'[t] = "user" /\ pref[t.user] = "out" /\ PutsFor(t.user) = {}
         /\ UNCHANGED <<read, idx, row, job, pref, ppc, putUser, putTo, found, pushed,
                        accepted, mishap>>
<1>1. PICK r \in Requests :
        /\ cpc[c] = "new"
        /\ request' = [request EXCEPT ![c] = r]
        /\ IF r.mode = "admins"
           THEN cpc' = [cpc EXCEPT ![c] = "admins"] /\ UNCHANGED <<pc, optedOut>>
           ELSE cpc' = [cpc EXCEPT ![c] = "running"] /\ Start(Named(c, r))
  BY DEF Arrive
<1>2. \A t \in Task : t.call = c => pc[t] = "none"
  BY <1>1 DEF Answered
<1>3. request'[c] \in Requests /\ \A d \in Call \ {c} : request'[d] = request[d] /\ cpc'[d] = cpc[d]
  BY <1>1 DEF TypeOK
<1>4. UNCHANGED <<read, idx, row, job, pref, ppc, putUser, putTo, found, pushed, accepted, mishap>>
  BY DEF Arrive
<1>5. CASE r.mode = "admins"
  <2>1. cpc' = [cpc EXCEPT ![c] = "admins"] /\ pc' = pc /\ optedOut' = optedOut
    BY <1>1, <1>5
  <2>2. cpc'[c] = "admins" /\ pc' \in [Task -> {"none", "rejected"} \cup AwaitPc \cup Fulfilled]
    BY <2>1 DEF TypeOK
  <2>3. optedOut' \subseteq Task
    BY <2>1 DEF TypeOK
  <2>. QED BY <1>2, <1>3, <1>4, <2>1, <2>2, <2>3
<1>6. CASE r.mode # "admins"
  <2>1. /\ cpc' = [cpc EXCEPT ![c] = "running"]
        /\ pc' = [t \in Task |-> IF t \in Named(c, r) THEN "user" ELSE pc[t]]
        /\ optedOut' = optedOut \cup {t \in Named(c, r) : pref[t.user] = "out" /\ PutsFor(t.user) = {}}
    BY <1>1, <1>6 DEF Start
  <2>2. Named(c, r) \subseteq {t \in Task : t.call = c}
    BY DEF Named
  <2>3. cpc'[c] = "running"
    BY <2>1 DEF TypeOK
  <2>4. pc' \in [Task -> {"none", "rejected"} \cup AwaitPc \cup Fulfilled]
    BY <2>1 DEF TypeOK
  <2>5. \A t \in Task : IF t \in Named(c, r) THEN t.call = c /\ pc[t] = "none" /\ pc'[t] = "user"
                                           ELSE pc'[t] = pc[t]
    BY <1>2, <2>1, <2>2
  <2>6. optedOut' \subseteq Task
    BY <2>1, <2>2 DEF TypeOK
  <2>7. \A t \in optedOut' :
          \/ t \in optedOut
          \/ pc'[t] = "user" /\ pref[t.user] = "out" /\ PutsFor(t.user) = {}
    <3>1. ASSUME NEW t \in optedOut', t \notin optedOut
          PROVE  t \in Named(c, r) /\ pref[t.user] = "out" /\ PutsFor(t.user) = {}
      BY <2>1, <3>1
    <3>. QED BY <2>2, <2>5, <3>1
  <2>. QED BY <1>2, <1>3, <1>4, <2>3, <2>4, <2>5, <2>6, <2>7
<1>. QED BY <1>5, <1>6

\* Every step keeps the types.
LEMMA TypeNext ==
  ASSUME TypeOK, Answered, Recorded, Tried, Next \/ UNCHANGED vars
  PROVE  TypeOK'
<1>1. \A t \in Task : pc[t] # "none" => Chain(t) \in 0 .. ChainLength
  BY ChainBound DEF Answered, Task
<1> USE DEF TypeOK
<1>2. ASSUME NEW c \in Call, Arrive(c) PROVE TypeOK'
  BY <1>2 DEF Arrive, Start, Named, Tasks
<1>3. ASSUME NEW c \in Call, FindAdmins(c) PROVE TypeOK'
  BY <1>3 DEF FindAdmins, Start, WithAdmins, Tasks
<1>4. ASSUME NEW c \in Call, RespondOk(c) PROVE TypeOK'
  BY <1>4 DEF RespondOk
<1>5. ASSUME NEW c \in Call, RespondError(c) PROVE TypeOK'
  BY <1>5 DEF RespondError
<1>6. ASSUME NEW t \in Task, FindUser(t) PROVE TypeOK'
  BY <1>6 DEF FindUser, Goto
<1>7. ASSUME NEW t \in Task, ReadPreference(t) PROVE TypeOK'
  BY <1>7 DEF ReadPreference, Goto, Sync, Task
<1>8. ASSUME NEW t \in Task, Consume(t) PROVE TypeOK'
  BY <1>8 DEF Consume, Goto
<1>9. ASSUME NEW t \in Task, Render(t) PROVE TypeOK'
  BY <1>9 DEF Render, Goto
<1>10. ASSUME NEW t \in Task, Save(t) PROVE TypeOK'
  BY <1>1, <1>10 DEF Save, Goto
<1>11. ASSUME NEW t \in Task, Enqueue(t) PROVE TypeOK'
  BY <1>11 DEF Enqueue, Goto
<1>12. ASSUME NEW t \in Task, Rejects(t) PROVE TypeOK'
  BY <1>12 DEF Rejects, Goto
<1>13. ASSUME NEW t \in Task, SyncAccepted(t) PROVE TypeOK'
  BY <1>1, <1>13 DEF SyncAccepted, Deliver, Goto, Tried
<1>14. ASSUME NEW t \in Task, SyncRejected(t) PROVE TypeOK'
  BY <1>1, <1>14 DEF SyncRejected, NextProvider, Deliver, Goto, Tried
<1>15. ASSUME NEW t \in Task, SyncRecord(t) PROVE TypeOK'
  BY <1>15 DEF SyncRecord, Goto, Tried
<1>16. ASSUME NEW t \in Task, SyncRecordRejected(t) PROVE TypeOK'
  BY <1>1, <1>16 DEF SyncRecordRejected, NextProvider, Goto, Tried
<1>17. ASSUME NEW t \in Task, SyncFail(t) PROVE TypeOK'
  BY <1>17 DEF SyncFail, Goto, Tried
<1>18. ASSUME NEW t \in Task, Push(t) PROVE TypeOK'
  <2>1. Chain(t) \in 0 .. ChainLength
    BY <1>1, <1>18 DEF Push, PushSent, PushMishap, PushFails, Recorded
  <2>2. pushed' \in [Task -> 0 .. Pushes]
    BY <1>18, <2>1 DEF Push, PushSent, PushMishap, PushFails
  <2>3. job' \in [Task -> {"none", "wait", "delayed", "done"}]
    BY <1>18 DEF Push, PushSent, PushMishap, PushFails
  <2>4. row' \in [Task -> {"none", "PENDING", "SENT", "FAILED"}]
    BY <1>18 DEF Push, PushSent, PushMishap, PushFails
  <2>. QED BY <1>18, <2>2, <2>3, <2>4 DEF Push, PushSent, PushMishap, PushFails
<1>19. ASSUME NEW a \in Put, PutArrive(a) PROVE TypeOK'
  BY <1>19 DEF PutArrive
<1>20. ASSUME NEW a \in Put, PutFind(a) PROVE TypeOK'
  BY <1>20 DEF PutFind
<1>21. ASSUME NEW a \in Put, PutWrite(a) PROVE TypeOK'
  BY <1>21 DEF PutWrite, End
<1>22. ASSUME NEW a \in Put, PutRejects(a) PROVE TypeOK'
  BY <1>22 DEF PutRejects, End
<1>23. CASE UNCHANGED vars
  BY <1>23 DEF vars
<1>. QED
  BY <1>2, <1>3, <1>4, <1>5, <1>6, <1>7, <1>8, <1>9, <1>10, <1>11, <1>12, <1>13, <1>14,
     <1>15, <1>16, <1>17, <1>18, <1>19, <1>20, <1>21, <1>22, <1>23
  DEF Next, Serve, Produce, Update

\* Every step keeps answers after what they answer for.
LEMMA AnsweredNext ==
  ASSUME TypeOK, Answered, Next \/ UNCHANGED vars
  PROVE  Answered'
<1> USE DEF TypeOK, Answered, Task
<1>1. ASSUME NEW c \in Call, Arrive(c) PROVE Answered'
  BY <1>1, Arrival
<1>2. ASSUME NEW c \in Call, FindAdmins(c) PROVE Answered'
  BY <1>2 DEF FindAdmins, Start, WithAdmins, Tasks
<1>3. ASSUME NEW c \in Call, RespondOk(c) PROVE Answered'
  BY <1>3 DEF RespondOk, Settled, Tasks
<1>4. ASSUME NEW c \in Call, RespondError(c) PROVE Answered'
  BY <1>4 DEF RespondError, Tasks
<1>5. ASSUME NEW t \in Task, FindUser(t) PROVE Answered'
  BY <1>5 DEF FindUser, Goto
<1>6. ASSUME NEW t \in Task, ReadPreference(t) PROVE Answered'
  BY <1>6 DEF ReadPreference, Goto
<1>7. ASSUME NEW t \in Task, Consume(t) PROVE Answered'
  BY <1>7 DEF Consume, Goto
<1>8. ASSUME NEW t \in Task, Render(t) PROVE Answered'
  BY <1>8 DEF Render, Goto
<1>9. ASSUME NEW t \in Task, Save(t) PROVE Answered'
  BY <1>9 DEF Save, Goto
<1>10. ASSUME NEW t \in Task, Enqueue(t) PROVE Answered'
  <2>1. pc[t] = "add" /\ UNCHANGED <<request, cpc>>
    BY <1>10 DEF Enqueue
  <2>2. pc' = [pc EXCEPT ![t] = "queued"] \/ pc' = [pc EXCEPT ![t] = "delayed"]
    BY <1>10 DEF Enqueue, Goto
  <2>. QED BY <2>1, <2>2
<1>11. ASSUME NEW t \in Task, Rejects(t) PROVE Answered'
  BY <1>11 DEF Rejects, Goto
<1>12. ASSUME NEW t \in Task, SyncAccepted(t) PROVE Answered'
  BY <1>12 DEF SyncAccepted, Deliver, Goto
<1>13. ASSUME NEW t \in Task, SyncRejected(t) PROVE Answered'
  BY <1>13 DEF SyncRejected, NextProvider, Deliver, Goto
<1>14. ASSUME NEW t \in Task, SyncRecord(t) PROVE Answered'
  BY <1>14 DEF SyncRecord, Goto
<1>15. ASSUME NEW t \in Task, SyncRecordRejected(t) PROVE Answered'
  <2>1. pc[t] = "record" /\ UNCHANGED <<request, cpc>>
    BY <1>15 DEF SyncRecordRejected
  <2>2. pc' = [pc EXCEPT ![t] = "send"] \/ pc' = [pc EXCEPT ![t] = "fail"]
    BY <1>15 DEF SyncRecordRejected, NextProvider, Goto
  <2>. QED BY <2>1, <2>2
<1>16. ASSUME NEW t \in Task, SyncFail(t) PROVE Answered'
  BY <1>16 DEF SyncFail, Goto
<1>17. ASSUME NEW t \in Task, Push(t) PROVE Answered'
  BY <1>17 DEF Push, PushSent, PushMishap, PushFails
<1>18. ASSUME NEW a \in Put, PutArrive(a) PROVE Answered'
  BY <1>18 DEF PutArrive
<1>19. ASSUME NEW a \in Put, PutFind(a) PROVE Answered'
  BY <1>19 DEF PutFind
<1>20. ASSUME NEW a \in Put, PutWrite(a) PROVE Answered'
  BY <1>20 DEF PutWrite, End
<1>21. ASSUME NEW a \in Put, PutRejects(a) PROVE Answered'
  BY <1>21 DEF PutRejects, End
<1>22. CASE UNCHANGED vars
  BY <1>22 DEF vars
<1>. QED
  BY <1>1, <1>2, <1>3, <1>4, <1>5, <1>6, <1>7, <1>8, <1>9, <1>10, <1>11, <1>12, <1>13,
     <1>14, <1>15, <1>16, <1>17, <1>18, <1>19, <1>20, <1>21, <1>22
  DEF Next, Serve, Produce, Update

\* Every step keeps rows and jobs in line with their tasks.
LEMMA RecordedNext ==
  ASSUME TypeOK, Answered, Recorded, Next \/ UNCHANGED vars
  PROVE  Recorded'
<1> USE DEF TypeOK, Recorded
<1>1. ASSUME NEW c \in Call, Arrive(c) PROVE Recorded'
  BY <1>1, Arrival
<1>2. ASSUME NEW c \in Call, FindAdmins(c) PROVE Recorded'
  <2>1. UNCHANGED <<row, job>> /\ cpc[c] = "admins"
        /\ pc' = [t \in Task |-> IF t \in WithAdmins(c, request[c]) THEN "user" ELSE pc[t]]
    BY <1>2 DEF FindAdmins, Start
  <2>2. \A t \in WithAdmins(c, request[c]) : pc[t] = "none"
    BY <2>1 DEF WithAdmins, Answered
  <2>3. \A t \in Task : pc'[t] = pc[t] \/ (pc[t] = "none" /\ pc'[t] = "user")
    BY <2>1, <2>2
  <2>. QED BY <2>1, <2>3
<1>3. ASSUME NEW c \in Call, RespondOk(c) PROVE Recorded'
  BY <1>3 DEF RespondOk
<1>4. ASSUME NEW c \in Call, RespondError(c) PROVE Recorded'
  BY <1>4 DEF RespondError
<1>5. ASSUME NEW t \in Task, FindUser(t) PROVE Recorded'
  BY <1>5 DEF FindUser, Goto, Answered, Task
<1>6. ASSUME NEW t \in Task, ReadPreference(t) PROVE Recorded'
  BY <1>6 DEF ReadPreference, Goto
<1>7. ASSUME NEW t \in Task, Consume(t) PROVE Recorded'
  BY <1>7 DEF Consume, Goto
<1>8. ASSUME NEW t \in Task, Render(t) PROVE Recorded'
  BY <1>8 DEF Render, Goto
<1>9. ASSUME NEW t \in Task, Save(t) PROVE Recorded'
  BY <1>9 DEF Save, Goto
<1>10. ASSUME NEW t \in Task, Enqueue(t) PROVE Recorded'
  BY <1>10 DEF Enqueue, Goto
<1>11. ASSUME NEW t \in Task, Rejects(t) PROVE Recorded'
  BY <1>11 DEF Rejects, Goto
<1>12. ASSUME NEW t \in Task, SyncAccepted(t) PROVE Recorded'
  BY <1>12 DEF SyncAccepted, Deliver, Goto
<1>13. ASSUME NEW t \in Task, SyncRejected(t) PROVE Recorded'
  BY <1>13 DEF SyncRejected, NextProvider, Deliver, Goto
<1>14. ASSUME NEW t \in Task, SyncRecord(t) PROVE Recorded'
  BY <1>14 DEF SyncRecord, Goto
<1>15. ASSUME NEW t \in Task, SyncRecordRejected(t) PROVE Recorded'
  BY <1>15 DEF SyncRecordRejected, NextProvider, Goto
<1>16. ASSUME NEW t \in Task, SyncFail(t) PROVE Recorded'
  BY <1>16 DEF SyncFail, Goto
<1>17. ASSUME NEW t \in Task, Push(t) PROVE Recorded'
  BY <1>17 DEF Push, PushSent, PushMishap, PushFails
<1>18. ASSUME NEW a \in Put, PutArrive(a) PROVE Recorded'
  BY <1>18 DEF PutArrive
<1>19. ASSUME NEW a \in Put, PutFind(a) PROVE Recorded'
  BY <1>19 DEF PutFind
<1>20. ASSUME NEW a \in Put, PutWrite(a) PROVE Recorded'
  BY <1>20 DEF PutWrite, End
<1>21. ASSUME NEW a \in Put, PutRejects(a) PROVE Recorded'
  BY <1>21 DEF PutRejects, End
<1>22. CASE UNCHANGED vars
  BY <1>22 DEF vars
<1>. QED
  BY <1>1, <1>2, <1>3, <1>4, <1>5, <1>6, <1>7, <1>8, <1>9, <1>10, <1>11, <1>12, <1>13,
     <1>14, <1>15, <1>16, <1>17, <1>18, <1>19, <1>20, <1>21, <1>22
  DEF Next, Serve, Produce, Update

\* A task never changes its path: the request it serves stays the same.
LEMMA OnItsPathNext ==
  ASSUME TypeOK, Answered, OnItsPath, Next \/ UNCHANGED vars
  PROVE  OnItsPath'
<1> USE DEF TypeOK, OnItsPath, Sync
<1>1. ASSUME NEW c \in Call, Arrive(c) PROVE OnItsPath'
  BY <1>1, Arrival DEF Answered, Task
<1>2. ASSUME NEW c \in Call, FindAdmins(c) PROVE OnItsPath'
  BY <1>2 DEF FindAdmins, Start, WithAdmins, Tasks, Answered, Task
<1>3. ASSUME NEW c \in Call, RespondOk(c) PROVE OnItsPath'
  BY <1>3 DEF RespondOk
<1>4. ASSUME NEW c \in Call, RespondError(c) PROVE OnItsPath'
  BY <1>4 DEF RespondError
<1>5. ASSUME NEW t \in Task, FindUser(t) PROVE OnItsPath'
  BY <1>5 DEF FindUser, Goto, Answered, Task
<1>6. ASSUME NEW t \in Task, ReadPreference(t) PROVE OnItsPath'
  BY <1>6 DEF ReadPreference, Goto
<1>7. ASSUME NEW t \in Task, Consume(t) PROVE OnItsPath'
  BY <1>7 DEF Consume, Goto
<1>8. ASSUME NEW t \in Task, Render(t) PROVE OnItsPath'
  BY <1>8 DEF Render, Goto
<1>9. ASSUME NEW t \in Task, Save(t) PROVE OnItsPath'
  BY <1>9 DEF Save, Goto
<1>10. ASSUME NEW t \in Task, Enqueue(t) PROVE OnItsPath'
  BY <1>10 DEF Enqueue, Goto
<1>11. ASSUME NEW t \in Task, Rejects(t) PROVE OnItsPath'
  BY <1>11 DEF Rejects, Goto
<1>12. ASSUME NEW t \in Task, SyncAccepted(t) PROVE OnItsPath'
  BY <1>12 DEF SyncAccepted, Deliver, Goto
<1>13. ASSUME NEW t \in Task, SyncRejected(t) PROVE OnItsPath'
  BY <1>13 DEF SyncRejected, NextProvider, Deliver, Goto
<1>14. ASSUME NEW t \in Task, SyncRecord(t) PROVE OnItsPath'
  BY <1>14 DEF SyncRecord, Goto
<1>15. ASSUME NEW t \in Task, SyncRecordRejected(t) PROVE OnItsPath'
  BY <1>15 DEF SyncRecordRejected, NextProvider, Goto
<1>16. ASSUME NEW t \in Task, SyncFail(t) PROVE OnItsPath'
  BY <1>16 DEF SyncFail, Goto
<1>17. ASSUME NEW t \in Task, Push(t) PROVE OnItsPath'
  BY <1>17 DEF Push, PushSent, PushMishap, PushFails
<1>18. ASSUME NEW a \in Put, PutArrive(a) PROVE OnItsPath'
  BY <1>18 DEF PutArrive
<1>19. ASSUME NEW a \in Put, PutFind(a) PROVE OnItsPath'
  BY <1>19 DEF PutFind
<1>20. ASSUME NEW a \in Put, PutWrite(a) PROVE OnItsPath'
  BY <1>20 DEF PutWrite, End
<1>21. ASSUME NEW a \in Put, PutRejects(a) PROVE OnItsPath'
  BY <1>21 DEF PutRejects, End
<1>22. CASE UNCHANGED vars
  BY <1>22 DEF vars
<1>. QED
  BY <1>1, <1>2, <1>3, <1>4, <1>5, <1>6, <1>7, <1>8, <1>9, <1>10, <1>11, <1>12, <1>13,
     <1>14, <1>15, <1>16, <1>17, <1>18, <1>19, <1>20, <1>21, <1>22
  DEF Next, Serve, Produce, Update

\* Every step keeps count of the providers tried.
LEMMA TriedNext ==
  ASSUME TypeOK, Answered, Tried, Next \/ UNCHANGED vars
  PROVE  Tried'
<1>1. \A t \in Task : pc[t] # "none" => Chain(t) \in 0 .. ChainLength
  BY ChainBound DEF Answered, Task
<1>2. ASSUME request' = request PROVE \A t \in Task : Chain(t)' = Chain(t)
  BY <1>2 DEF Chain, Channel
<1> USE DEF TypeOK, Tried
<1>3. ASSUME NEW c \in Call, Arrive(c) PROVE Tried'
  <2>1. ASSUME NEW t \in Task, pc[t] # "none" PROVE Chain(t)' = Chain(t)
    <3>1. t.call \in Call \ {c}
      BY <1>3, <2>1, Arrival DEF Task
    <3>2. request'[t.call] = request[t.call]
      BY <1>3, <3>1, Arrival
    <3>. QED BY <3>2 DEF Chain, Channel
  <2>. QED BY <1>3, <2>1, Arrival
<1>4. ASSUME NEW c \in Call, FindAdmins(c) PROVE Tried'
  BY <1>1, <1>2, <1>4 DEF FindAdmins, Start, WithAdmins, Tasks, Answered, Task
<1>5. ASSUME NEW c \in Call, RespondOk(c) PROVE Tried'
  BY <1>1, <1>2, <1>5 DEF RespondOk
<1>6. ASSUME NEW c \in Call, RespondError(c) PROVE Tried'
  BY <1>1, <1>2, <1>6 DEF RespondError
<1>7. ASSUME NEW t \in Task, FindUser(t) PROVE Tried'
  BY <1>1, <1>2, <1>7 DEF FindUser, Goto, Answered, Task
<1>8. ASSUME NEW t \in Task, ReadPreference(t) PROVE Tried'
  BY <1>1, <1>2, <1>8 DEF ReadPreference, Goto
<1>9. ASSUME NEW t \in Task, Consume(t) PROVE Tried'
  BY <1>1, <1>2, <1>9 DEF Consume, Goto
<1>10. ASSUME NEW t \in Task, Render(t) PROVE Tried'
  BY <1>1, <1>2, <1>10 DEF Render, Goto
<1>11. ASSUME NEW t \in Task, Save(t) PROVE Tried'
  BY <1>1, <1>2, <1>11 DEF Save, Goto, Sync
<1>12. ASSUME NEW t \in Task, Enqueue(t) PROVE Tried'
  BY <1>1, <1>2, <1>12 DEF Enqueue, Goto
<1>13. ASSUME NEW t \in Task, Rejects(t) PROVE Tried'
  BY <1>1, <1>2, <1>13 DEF Rejects, Goto
<1>14. ASSUME NEW t \in Task, SyncAccepted(t) PROVE Tried'
  BY <1>1, <1>2, <1>14 DEF SyncAccepted, Deliver, Goto
<1>15. ASSUME NEW t \in Task, SyncRejected(t) PROVE Tried'
  BY <1>1, <1>2, <1>15 DEF SyncRejected, NextProvider, Deliver, Goto
<1>16. ASSUME NEW t \in Task, SyncRecord(t) PROVE Tried'
  BY <1>1, <1>2, <1>16 DEF SyncRecord, Goto
<1>17. ASSUME NEW t \in Task, SyncRecordRejected(t) PROVE Tried'
  BY <1>1, <1>2, <1>17 DEF SyncRecordRejected, NextProvider, Goto
<1>18. ASSUME NEW t \in Task, SyncFail(t) PROVE Tried'
  BY <1>1, <1>2, <1>18 DEF SyncFail, Goto
<1>19. ASSUME NEW t \in Task, Push(t) PROVE Tried'
  BY <1>1, <1>2, <1>19 DEF Push, PushSent, PushMishap, PushFails
<1>20. ASSUME NEW a \in Put, PutArrive(a) PROVE Tried'
  BY <1>1, <1>2, <1>20 DEF PutArrive
<1>21. ASSUME NEW a \in Put, PutFind(a) PROVE Tried'
  BY <1>1, <1>2, <1>21 DEF PutFind
<1>22. ASSUME NEW a \in Put, PutWrite(a) PROVE Tried'
  BY <1>1, <1>2, <1>22 DEF PutWrite, End
<1>23. ASSUME NEW a \in Put, PutRejects(a) PROVE Tried'
  BY <1>1, <1>2, <1>23 DEF PutRejects, End
<1>24. CASE UNCHANGED vars
  BY <1>1, <1>2, <1>24 DEF vars
<1>. QED
  BY <1>3, <1>4, <1>5, <1>6, <1>7, <1>8, <1>9, <1>10, <1>11, <1>12, <1>13, <1>14, <1>15,
     <1>16, <1>17, <1>18, <1>19, <1>20, <1>21, <1>22, <1>23, <1>24
  DEF Next, Serve, Produce, Update

\* Every step keeps repeated pushes after a mishap.
LEMMA PushedNext ==
  ASSUME TypeOK, Recorded, Pushed, Next \/ UNCHANGED vars
  PROVE  Pushed'
<1> USE DEF TypeOK, Pushed
<1>1. ASSUME NEW t \in Task, Enqueue(t) PROVE Pushed'
  <2>1. \E to \in {"wait", "delayed"} : job' = [job EXCEPT ![t] = to]
    BY <1>1 DEF Enqueue
  <2>2. UNCHANGED <<pushed, mishap>>
    BY <1>1 DEF Enqueue
  <2>3. pushed[t] > 0 => t \in mishap
    BY <1>1 DEF Enqueue, Recorded
  <2>. QED BY <2>1, <2>2, <2>3
<1>2. ASSUME NEW t \in Task, PushSent(t) PROVE Pushed'
  BY <1>2 DEF PushSent
<1>3. ASSUME NEW t \in Task, PushMishap(t) PROVE Pushed'
  <2>1. \A s \in Task \ {t} : pushed'[s] = pushed[s] /\ job'[s] = job[s]
    BY <1>3 DEF PushMishap
  <2>2. t \in mishap' /\ mishap \subseteq mishap' /\ job'[t] # "none"
    BY <1>3 DEF PushMishap
  <2>. QED BY <2>1, <2>2
<1>4. ASSUME NEW t \in Task, PushFails(t) PROVE Pushed'
  BY <1>4 DEF PushFails
<1>5. ASSUME UNCHANGED <<job, pushed>>, mishap \subseteq mishap' PROVE Pushed'
  BY <1>5
<1>6. ASSUME \/ \E c \in Call : Serve(c)
             \/ \E t \in Task : Produce(t) /\ ~Enqueue(t)
             \/ \E a \in Put : Update(a)
             \/ UNCHANGED vars
      PROVE  UNCHANGED <<job, pushed>> /\ mishap \subseteq mishap'
  BY <1>6 DEF Serve, Arrive, FindAdmins, RespondOk, RespondError, Produce, FindUser,
    ReadPreference, Consume, Render, Save, Rejects, SyncAccepted, SyncRejected, SyncRecord,
    SyncRecordRejected, SyncFail, Update, PutArrive, PutFind, PutWrite, PutRejects, vars
<1>. QED BY <1>1, <1>2, <1>3, <1>4, <1>5, <1>6 DEF Next, Push

\* Nothing overrides an opt-out while no PUT comes.
LEMMA StillOutNext ==
  ASSUME TypeOK, Answered, Recorded, StillOut, Next \/ UNCHANGED vars
  PROVE  StillOut'
<1> USE DEF TypeOK, StillOut, PutsFor
<1>1. ASSUME NEW c \in Call, Arrive(c) PROVE StillOut'
  BY <1>1, Arrival DEF Recorded
<1>2. ASSUME NEW c \in Call, FindAdmins(c) PROVE StillOut'
  BY <1>2 DEF FindAdmins, Start, WithAdmins, Tasks, Answered, Recorded, Task
<1>3. ASSUME NEW c \in Call, RespondOk(c) PROVE StillOut'
  BY <1>3 DEF RespondOk
<1>4. ASSUME NEW c \in Call, RespondError(c) PROVE StillOut'
  BY <1>4 DEF RespondError
<1>5. ASSUME NEW t \in Task, FindUser(t) PROVE StillOut'
  BY <1>5 DEF FindUser, Goto, Answered, Recorded, Task
<1>6. ASSUME NEW t \in Task, ReadPreference(t) PROVE StillOut'
  BY <1>6 DEF ReadPreference, Goto
<1>7. ASSUME NEW t \in Task, Consume(t) PROVE StillOut'
  BY <1>7 DEF Consume, Goto
<1>8. ASSUME NEW t \in Task, Render(t) PROVE StillOut'
  BY <1>8 DEF Render, Goto
<1>9. ASSUME NEW t \in Task, Save(t) PROVE StillOut'
  BY <1>9 DEF Save, Goto
<1>10. ASSUME NEW t \in Task, Enqueue(t) PROVE StillOut'
  BY <1>10 DEF Enqueue, Goto
<1>11. ASSUME NEW t \in Task, Rejects(t) PROVE StillOut'
  BY <1>11 DEF Rejects, Goto
<1>12. ASSUME NEW t \in Task, SyncAccepted(t) PROVE StillOut'
  BY <1>12 DEF SyncAccepted, Deliver, Goto
<1>13. ASSUME NEW t \in Task, SyncRejected(t) PROVE StillOut'
  BY <1>13 DEF SyncRejected, NextProvider, Deliver, Goto
<1>14. ASSUME NEW t \in Task, SyncRecord(t) PROVE StillOut'
  BY <1>14 DEF SyncRecord, Goto
<1>15. ASSUME NEW t \in Task, SyncRecordRejected(t) PROVE StillOut'
  BY <1>15 DEF SyncRecordRejected, NextProvider, Goto
<1>16. ASSUME NEW t \in Task, SyncFail(t) PROVE StillOut'
  BY <1>16 DEF SyncFail, Goto
<1>17. ASSUME NEW t \in Task, Push(t) PROVE StillOut'
  BY <1>17 DEF Push, PushSent, PushMishap, PushFails, Recorded
<1>18. ASSUME NEW a \in Put, PutArrive(a) PROVE StillOut'
  BY <1>18 DEF PutArrive
<1>19. ASSUME NEW a \in Put, PutFind(a) PROVE StillOut'
  BY <1>19 DEF PutFind
<1>20. ASSUME NEW a \in Put, PutWrite(a) PROVE StillOut'
  <2>1. \A t \in optedOut : putUser[a] # t.user
    BY <1>20 DEF PutWrite, End
  <2>2. \A t \in optedOut : pref'[t.user] = pref[t.user]
    BY <1>20, <2>1 DEF PutWrite, End, Task
  <2>3. \A u \in User : PutsFor(u)' \subseteq PutsFor(u)
    BY <1>20 DEF PutWrite, End
  <2>. QED BY <1>20, <2>2, <2>3 DEF PutWrite, End, Task
<1>21. ASSUME NEW a \in Put, PutRejects(a) PROVE StillOut'
  BY <1>21 DEF PutRejects, End
<1>22. CASE UNCHANGED vars
  BY <1>22 DEF vars
<1>. QED
  BY <1>1, <1>2, <1>3, <1>4, <1>5, <1>6, <1>7, <1>8, <1>9, <1>10, <1>11, <1>12, <1>13,
     <1>14, <1>15, <1>16, <1>17, <1>18, <1>19, <1>20, <1>21, <1>22
  DEF Next, Serve, Produce, Update

\* Every step preserves the whole invariant.
LEMMA NextInvariant == Invariant /\ [Next]_vars => Invariant'
  BY TypeNext, AnsweredNext, RecordedNext, OnItsPathNext, TriedNext, PushedNext, StillOutNext
  DEF Invariant

-----------------------------------------------------------------------------
(* The contract with the workers.                                          *)

\* Only the save of a task makes its row, and only queue.add its job; only a
\* provider delivers what produceSync sends, which then answers 'sent'.
LEMMA HandoffStep ==
  ASSUME Invariant, Next \/ UNCHANGED vars
  PROVE  Contract!Next \/ UNCHANGED Contract!vars
<1> DEFINE Rows == {t \in Task : row[t] # "none"}
           Jobs == {t \in Task : job[t] # "none"}
           Delivered == {t \in Task : accepted[t] + pushed[t] > 0}
           Sent == {t \in Task : pc[t] = "sent"}
<1> USE DEF Invariant, TypeOK
<1>1. ASSUME NEW t \in Task, Save(t) PROVE Contract!Next
  <2>1. t \notin Rows /\ Rows' = Rows \cup {t} /\ Jobs' = Jobs /\ Delivered' = Delivered
    BY <1>1 DEF Save, Recorded
  <2>2. Sent' = Sent
    BY <1>1 DEF Save, Goto
  <2>3. Contract!Persist(t)
    BY <2>1, <2>2 DEF Contract!Persist
  <2>. QED BY <2>3 DEF Contract!Next
<1>2. ASSUME NEW t \in Task, Enqueue(t) PROVE Contract!Next
  <2>1. t \in Rows \ Jobs /\ Rows' = Rows /\ Jobs' = Jobs \cup {t} /\ Delivered' = Delivered
    BY <1>2 DEF Enqueue, Recorded
  <2>2. Sent' = Sent
    BY <1>2 DEF Enqueue, Goto
  <2>3. Contract!Add(t)
    BY <2>1, <2>2 DEF Contract!Add
  <2>. QED BY <2>3 DEF Contract!Next
<1>3. ASSUME NEW t \in Task, Push(t) PROVE Contract!Next \/ UNCHANGED Contract!vars
  <2>1. t \in Rows /\ Rows' = Rows /\ Jobs' = Jobs
    BY <1>3 DEF Push, PushSent, PushMishap, PushFails, Recorded
  <2>2. Sent' = Sent /\ UNCHANGED accepted
    BY <1>3 DEF Push, PushSent, PushMishap, PushFails
  <2>3. CASE PushFails(t)
    BY <2>1, <2>2, <2>3 DEF PushFails, Contract!vars
  <2>4. CASE PushSent(t) \/ PushMishap(t)
    <3>1. \A s \in Task \ {t} : pushed'[s] = pushed[s]
      BY <2>4 DEF PushSent, PushMishap
    <3>2. pushed'[t] \in Nat /\ pushed'[t] > 0
      BY <2>4 DEF PushSent, PushMishap
    <3>3. Delivered' = Delivered \cup {t}
      BY <2>2, <3>1, <3>2
    <3>4. Contract!Deliver(t)
      BY <2>1, <2>2, <3>3 DEF Contract!Deliver
    <3>. QED BY <3>4 DEF Contract!Next
  <2>. QED BY <1>3, <2>3, <2>4 DEF Push
<1>4. ASSUME NEW t \in Task, SyncAccepted(t) \/ SyncRejected(t)
      PROVE  Contract!Next \/ UNCHANGED Contract!vars
  <2>1. t \in Rows /\ UNCHANGED <<row, job, pushed>>
    BY <1>4 DEF SyncAccepted, SyncRejected, Recorded
  <2>2. Sent' = Sent
    BY <1>4 DEF SyncAccepted, SyncRejected, NextProvider, Goto
  <2>3. CASE accepted' = accepted
    BY <2>1, <2>2, <2>3 DEF Contract!vars
  <2>4. CASE Deliver(t)
    <3>1. accepted[t] \in Nat /\ accepted' = [accepted EXCEPT ![t] = @ + 1]
      BY <2>4 DEF Deliver
    <3>2. \A s \in Task : accepted[s] \in Nat /\ pushed[s] \in Nat /\ pushed'[s] = pushed[s]
      BY <2>1
    <3>a. Delivered' = Delivered \cup {t}
      BY <3>1, <3>2
    <3>3. Contract!Deliver(t)
      BY <2>1, <2>2, <3>a DEF Contract!Deliver
    <3>. QED BY <3>3 DEF Contract!Next
  <2>. QED BY <1>4, <2>3, <2>4 DEF SyncAccepted, SyncRejected
<1>5. ASSUME NEW t \in Task, SyncRecord(t) PROVE Contract!Next
  <2>1. t \in Delivered /\ Rows' = Rows /\ Jobs' = Jobs /\ Delivered' = Delivered
    BY <1>5 DEF SyncRecord, Recorded, Tried
  <2>2. Sent' = Sent \cup {t}
    BY <1>5 DEF SyncRecord, Goto
  <2>3. Contract!Claim(t)
    BY <2>1, <2>2 DEF Contract!Claim
  <2>. QED BY <2>3 DEF Contract!Next
<1>6. ASSUME NEW t \in Task, SyncFail(t) PROVE UNCHANGED Contract!vars
  <2>1. Rows' = Rows /\ Jobs' = Jobs
    BY <1>6 DEF SyncFail, Recorded
  <2>2. Sent' = Sent
    BY <1>6 DEF SyncFail, Goto
  <2>. QED BY <1>6, <2>1, <2>2 DEF SyncFail, Contract!vars
<1>7. ASSUME UNCHANGED <<row, job, accepted, pushed>>,
             \A t \in Task : pc'[t] = "sent" <=> pc[t] = "sent"
      PROVE  UNCHANGED Contract!vars
  <2>1. Sent' = Sent
    BY <1>7
  <2>. QED BY <1>7, <2>1 DEF Contract!vars
<1>8. ASSUME NEW t \in Task,
             FindUser(t) \/ ReadPreference(t) \/ Consume(t) \/ Render(t) \/ Rejects(t)
               \/ SyncRecordRejected(t)
      PROVE  UNCHANGED Contract!vars
  <2>1. \E step : step # "sent" /\ pc[t] # "sent" /\ Goto(t, step)
    BY <1>8 DEF FindUser, ReadPreference, Consume, Render, Rejects, SyncRecordRejected, NextProvider
  <2>2. \A u \in Task : pc'[u] = "sent" <=> pc[u] = "sent"
    BY <2>1 DEF Goto
  <2>3. UNCHANGED <<row, job, accepted, pushed>>
    BY <1>8 DEF FindUser, ReadPreference, Consume, Render, Rejects, SyncRecordRejected
  <2>. QED BY <1>7, <2>2, <2>3
<1>9. ASSUME NEW c \in Call, Arrive(c) PROVE UNCHANGED Contract!vars
  BY <1>7, <1>9, Arrival
<1>10. ASSUME NEW c \in Call, FindAdmins(c) PROVE UNCHANGED Contract!vars
  <2>1. \A t \in Task : pc'[t] = "sent" <=> pc[t] = "sent"
    BY <1>10 DEF FindAdmins, Start, WithAdmins, Answered, Task
  <2>. QED BY <1>7, <1>10, <2>1 DEF FindAdmins
<1>11. ASSUME \/ \E c \in Call : RespondOk(c) \/ RespondError(c)
              \/ \E a \in Put : Update(a)
              \/ UNCHANGED vars
       PROVE  UNCHANGED Contract!vars
  <2>1. UNCHANGED <<row, job, accepted, pushed, pc>>
    BY <1>11 DEF RespondOk, RespondError, Update, PutArrive, PutFind, PutWrite, PutRejects, vars
  <2>. QED BY <1>7, <2>1
<1>. QED
  BY <1>1, <1>2, <1>3, <1>4, <1>5, <1>6, <1>8, <1>9, <1>10, <1>11 DEF Next, Serve, Produce

-----------------------------------------------------------------------------
(* Who a broadcast names, it names once.                                   *)

OneCopyEach == \A t \in Task : (pc[t] # "none" /\ IsAdmin(t)) => t.copy = 1

\* Only a broadcast's own step starts its tasks, and from a set of users.
LEMMA OneCopyNext ==
  ASSUME TypeOK, Answered, OneCopyEach, Next \/ UNCHANGED vars
  PROVE  OneCopyEach'
<1> USE DEF TypeOK, Task
<1>1. ASSUME NEW c \in Call, Arrive(c) PROVE OneCopyEach'
  <2>1. PICK r \in Requests :
          /\ cpc[c] = "new" /\ request' = [request EXCEPT ![c] = r]
          /\ IF r.mode = "admins" THEN pc' = pc ELSE Start(Named(c, r))
    BY <1>1 DEF Arrive
  <2>2. \A t \in Task : t.call = c => pc[t] = "none"
    BY <2>1 DEF Answered
  <2>3. \A t \in Task : t.call # c => pc'[t] = pc[t] /\ request'[t.call] = request[t.call]
    <3>1. CASE r.mode = "admins" BY <2>1, <3>1
    <3>2. CASE r.mode # "admins"
      <4>1. pc' = [t \in Task |-> IF t \in Named(c, r) THEN "user" ELSE pc[t]]
        BY <2>1, <3>2 DEF Start
      <4>2. \A t \in Named(c, r) : t.call = c BY DEF Named
      <4>. QED BY <2>1, <4>1, <4>2
    <3>. QED BY <3>1, <3>2
  <2>4. \A t \in Task : t.call = c => request'[c] = r /\ (r.mode = "admins" => pc'[t] = "none")
    BY <2>1, <2>2
  <2>. QED BY <2>3, <2>4 DEF OneCopyEach, IsAdmin
<1>2. ASSUME NEW c \in Call, FindAdmins(c) PROVE OneCopyEach'
  BY <1>2 DEF FindAdmins, Start, WithAdmins, OneCopyEach, IsAdmin
<1>3. ASSUME UNCHANGED request, \A t \in Task : pc'[t] # "none" => pc[t] # "none"
      PROVE  OneCopyEach'
  BY <1>3 DEF OneCopyEach, IsAdmin
<1>4. ASSUME NEW t \in Task, Produce(t)
      PROVE  UNCHANGED request /\ \A s \in Task : pc'[s] # "none" => pc[s] # "none"
  <2>1. UNCHANGED request /\ pc[t] # "none"
    BY <1>4 DEF Produce, FindUser, ReadPreference, Consume, Render, Save, Enqueue, Rejects,
                SyncAccepted, SyncRejected, SyncRecord, SyncRecordRejected, SyncFail
  <2>2. \E step : Goto(t, step)
    BY <1>4 DEF Produce, FindUser, ReadPreference, Consume, Render, Save, Enqueue, Rejects,
                SyncAccepted, SyncRejected, SyncRecord, SyncRecordRejected, SyncFail, NextProvider
  <2>3. \A s \in Task \ {t} : pc'[s] = pc[s]
    BY <2>2 DEF Goto
  <2>. QED BY <2>1, <2>3
<1>5. ASSUME \/ \E c \in Call : RespondOk(c) \/ RespondError(c)
             \/ \E t \in Task : Push(t)
             \/ \E a \in Put : Update(a)
             \/ UNCHANGED vars
      PROVE  UNCHANGED <<request, pc>>
  BY <1>5 DEF RespondOk, RespondError, Push, PushSent, PushMishap, PushFails, Update, PutArrive, PutFind, PutWrite, PutRejects, vars
<1>. QED BY <1>1, <1>2, <1>3, <1>4, <1>5 DEF Next, Serve

-----------------------------------------------------------------------------
(* The theorems.                                                           *)

\* The inductive invariant is an invariant of the API side.
THEOREM InvariantHolds == Spec => []Invariant
  BY InitInvariant, NextInvariant, PTL DEF Spec

\* The model's variables keep their types: no provider is tried past the chain.
THEOREM TypeCorrect == Spec => []TypeOK
<1>1. Invariant => TypeOK
  BY DEF Invariant
<1>. QED BY <1>1, InvariantHolds, PTL

\* produce and produceSync honour an opt-out that stands.
THEOREM OptOutIsHonoured == Spec => []OptOutHonoured
<1>1. Invariant => OptOutHonoured
  BY DEF Invariant, StillOut, OptOutHonoured
<1>. QED BY <1>1, InvariantHolds, PTL

\* What send and batch answer is what became of every recipient.
THEOREM AnswersAreTrue == Spec => []AnswersTrue
<1>1. Invariant => AnswersTrue
  BY DEF Invariant, TypeOK, Answered, Recorded, OnItsPath, AnswersTrue, Tasks
<1>. QED BY <1>1, InvariantHolds, PTL

\* What produceSync answers is what became of the delivery.
THEOREM SyncAnswersAreTrue == Spec => []SyncAnswersTrue
<1>1. Invariant => SyncAnswersTrue
  BY DEF Invariant, TypeOK, Recorded, OnItsPath, Tried, SyncAnswersTrue
<1>. QED BY <1>1, InvariantHolds, PTL

\* A second inline delivery comes after a lost reply or a lost update.
THEOREM SyncDuplicatesHaveCauses == Spec => []SyncDuplicateNeedsMishap
<1>1. Invariant => SyncDuplicateNeedsMishap
  BY DEF Invariant, Tried, SyncDuplicateNeedsMishap
<1>. QED BY <1>1, InvariantHolds, PTL

\* The API side keeps its side of the contract, step by step.
THEOREM ImplementsHandoff == Spec => HandedOff
<1>1. Init => Contract!Init
  BY DEF Init, Contract!Init
<1>2. Invariant /\ [Next]_vars => [Contract!Next]_(Contract!vars)
  BY HandoffStep
<1>. QED BY <1>1, <1>2, InvariantHolds, PTL DEF Spec, HandedOff, Contract!Spec

\* Of a broadcast to finitely many users an admin receives one emit for each at
\* most, but for the repeats that a mishap explains.
THEOREM BroadcastIsCopiedOncePerUser ==
  ASSUME IsFiniteSet(User)
  PROVE  Spec => []BroadcastCopies
<1>1. Init => OneCopyEach
  BY DEF Init, OneCopyEach
<1>2. Invariant /\ OneCopyEach /\ [Next]_vars => OneCopyEach'
  BY OneCopyNext DEF Invariant
<1>3. Invariant /\ OneCopyEach => BroadcastCopies
  <2>. DEFINE Firsts(c, u) == {e \in Received(c, u) : e[2] = 1 \/ e[1] \notin mishap}
              Users(c) == {t.user : t \in {s \in Tasks(c) : job[s] # "none"}}
  <2>. SUFFICES ASSUME Invariant, OneCopyEach, NEW c \in Call, NEW u \in Known,
                       request[c].mode = "admins"
                PROVE  Cardinality(Firsts(c, u)) <= Cardinality(Users(c))
    BY DEF BroadcastCopies
  <2>1. IsFiniteSet(Users(c))
    <3>1. Users(c) \subseteq User
      BY DEF Tasks, Task
    <3>. QED BY <3>1, FS_Subset
  <2>2. ASSUME NEW e \in Firsts(c, u)
        PROVE  /\ e[1] \in Task /\ e[1].call = c /\ e[1].copy = 1 /\ e[1].user \in Users(c)
               /\ e = <<e[1], 1>>
    <3>1. e[1] \in Tasks(c) /\ e[2] \in 1 .. Pushes /\ e = <<e[1], e[2]>> /\ e[2] <= pushed[e[1]]
      BY DEF Received
    <3>2. e[1] \in Task /\ e[1].call = c /\ pc[e[1]] # "none"
      BY <3>1 DEF Tasks
    <3>3. pushed[e[1]] \in Nat /\ pushed[e[1]] > 0
      BY <3>1, <3>2 DEF Invariant, TypeOK
    <3>4. job[e[1]] # "none" /\ (e[1] \notin mishap => pushed[e[1]] <= 1)
      BY <3>2, <3>3 DEF Invariant, Pushed
    <3>5. e[2] = 1
      BY <3>1, <3>3, <3>4
    <3>6. e[1].copy = 1
      BY <3>2 DEF OneCopyEach, IsAdmin
    <3>. QED BY <3>1, <3>2, <3>4, <3>5, <3>6
  <2>. DEFINE To == [e \in Firsts(c, u) |-> e[1].user]
  <2>3. To \in [Firsts(c, u) -> Users(c)]
    BY <2>2
  <2>4. ASSUME NEW d \in Firsts(c, u), NEW e \in Firsts(c, u), d[1].user = e[1].user PROVE d = e
    <3>1. d[1] = e[1]
      BY <2>2, <2>4 DEF Task
    <3>. QED BY <2>2, <3>1
  <2>. HIDE DEF Firsts, Users
  <2>5. To \in Injection(Firsts(c, u), Users(c))
    BY <2>3, <2>4 DEF Injection, IsInjective
  <2>. HIDE DEF To
  <2>. QED BY <2>1, <2>5, FS_Injection
<1>. QED BY <1>1, <1>2, <1>3, InvariantHolds, PTL DEF Spec
=============================================================================
