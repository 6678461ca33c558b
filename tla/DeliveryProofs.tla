--------------------------- MODULE DeliveryProofs ---------------------------
(***************************************************************************)
(* Proofs about Delivery, for every set of rows, requests and worker slots,*)
(* every bound and every subset of the faults.                             *)
(***************************************************************************)
EXTENDS DeliveryProperties, TLAPS

-----------------------------------------------------------------------------
(* The inductive invariant, in named parts.                                *)

\* A job that may still be attempted has an attempt left; an active one has not
\* stalled too often.
AttemptsBounded ==
  \A j \in Job :
    /\ jobState[j] # "failed" /\ jobState[j] # "completed" => attemptsMade[j] < MaxAttempts
    /\ jobState[j] = "active" => stalled[j] <= MaxStalledCount

\* A lock belongs to the slot at work on an active job, and that slot read the
\* job's attempts under it.
LocksOwned ==
  \A j \in Job :
    lock[j] # None =>
      /\ jobState[j] = "active"
      /\ lock[j] \in Proc
      /\ cur[lock[j]] = j
      /\ attempt[lock[j]] = attemptsMade[j] + 1

\* A busy slot has a job; if it does not own it any more, it lost the lock.
SlotsBusy ==
  \A p \in Proc :
    /\ pc[p] = "idle" <=> cur[p] = None
    /\ cur[p] # None =>
         /\ attempt[p] \in 1 .. MaxAttempts
         /\ lock[cur[p]] = p \/ cur[p] \in overrun
         /\ jobState[cur[p]] = "active" \/ stalled[cur[p]] > 0

\* A job that was never added has no history.
AbsentClean ==
  \A j \in Job :
    jobState[j] = "absent" =>
      /\ \A p \in Proc : cur[p] # j
      /\ stalled[j] = 0
      /\ accepted[j] = 0

\* Where producers and requests stand with the job they add.
AddedByItsOwner ==
  /\ \A l \in Log : logOf[l] = l
  /\ \A l \in Log : producer[l] # "enqueued" => jobState[l] = "absent"
  /\ \A a \in Retry :
       /\ apc[a] \in {"idle", "reset", "add"} => jobState[a] = "absent"
       /\ jobState[a] # "absent" => logOf[a] \in Log
       /\ apc[a] = "idle" => logOf[a] = None /\ rec[a] = None
       /\ apc[a] # "idle" => /\ rec[a] \in Job
                             /\ dlq[rec[a]] # "none"
                             /\ logOf[a] = logOf[rec[a]]
                             /\ logOf[a] \in Log

\* A record is saved by the listener of its job, once.
RecordsSavedOnce ==
  \A j \in Job : dlq[j] # "none" => hpc[j] = "done"

Structure ==
  /\ TypeOK
  /\ AttemptsBounded
  /\ LocksOwned
  /\ SlotsBusy
  /\ OneSlotPerJob
  /\ AbsentClean
  /\ AddedByItsOwner
  /\ RecordsSavedOnce
  /\ DeadLetterExhausted

USE DEF Job, logVars, queueVars, slotVars, handlerVars, adminVars, history,
  Status, ProducerState, JobState, SlotPc, HandlerPc, RecordState, RequestPc, AcceptedBound
USE IdsAssumption, BoundsAssumption

\* The structural invariant holds before anything has been produced.
LEMMA InitStructure == Init => Structure
  BY DEF Init, Structure, TypeOK, AttemptsBounded, LocksOwned, SlotsBusy, OneSlotPerJob,
     AbsentClean, AddedByItsOwner, RecordsSavedOnce, DeadLetterExhausted

\* One step per action; where the solver needs it, one step per part.
LEMMA StructureNext == ASSUME Structure, Next \/ UNCHANGED vars PROVE Structure'
<1> USE DEF Structure, TypeOK, AttemptsBounded, LocksOwned, SlotsBusy, OneSlotPerJob,
            AbsentClean, AddedByItsOwner, RecordsSavedOnce, DeadLetterExhausted
<1>1. ASSUME NEW l \in Log, PersistLog(l) PROVE Structure'
  BY <1>1 DEF PersistLog
<1>2. ASSUME NEW l \in Log, EnqueueJob(l) PROVE Structure'
  BY <1>2 DEF EnqueueJob
<1>3. ASSUME NEW l \in Log, ProducerFails(l) PROVE Structure'
  BY <1>3 DEF ProducerFails
<1>4. ASSUME NEW p \in Proc, Fetch(p) PROVE Structure'
  BY <1>4 DEF Fetch, Goto
<1>5. ASSUME NEW p \in Proc, FailStalled(p) PROVE Structure'
  <2>1. TypeOK'
    BY <1>5, SMTT(40) DEF FailStalled, FailedEvent, Exhausted
  <2>2. AttemptsBounded'
    BY <1>5 DEF FailStalled, FailedEvent, Exhausted
  <2>3. LocksOwned'
    BY <1>5 DEF FailStalled, FailedEvent, Exhausted
  <2>4. SlotsBusy'
    BY <1>5 DEF FailStalled, FailedEvent, Exhausted
  <2>5. OneSlotPerJob'
    BY <1>5 DEF FailStalled, FailedEvent, Exhausted
  <2>6. AbsentClean'
    BY <1>5 DEF FailStalled, FailedEvent, Exhausted
  <2>7. AddedByItsOwner'
    BY <1>5 DEF FailStalled, FailedEvent, Exhausted
  <2>8. RecordsSavedOnce'
    BY <1>5 DEF FailStalled, FailedEvent, Exhausted
  <2>9. DeadLetterExhausted'
    <3>1. PICK k \in Job :
            /\ jobState[k] = "wait"
            /\ jobState' = [jobState EXCEPT ![k] = "failed"]
            /\ attemptsMade' = [attemptsMade EXCEPT ![k] = @ + 1]
            /\ FailedEvent(p, k, attemptsMade[k] + 1)
      BY <1>5 DEF FailStalled
    <3>2. attemptsMade[k] + 1 \in 1 .. MaxAttempts
      BY <3>1
    <3>3. ASSUME NEW j \in Job, hpc'[j] # "none" \/ dlq'[j] # "none"
          PROVE jobState'[j] = "failed" /\ attemptsMade'[j] = MaxAttempts
      <4>1. CASE j = k
        BY <1>5, <3>1, <3>2, <3>3, <4>1 DEF FailStalled, FailedEvent, Exhausted
      <4>2. CASE j # k
        BY <1>5, <3>1, <3>3, <4>2 DEF FailStalled, FailedEvent
      <4>. QED BY <4>1, <4>2
    <3>. QED BY <3>3
  <2>. QED BY <2>1, <2>2, <2>3, <2>4, <2>5, <2>6, <2>7, <2>8, <2>9
<1>6. ASSUME NEW p \in Proc, BeginAttempt(p) PROVE Structure'
  BY <1>6 DEF BeginAttempt, Goto
<1>7. ASSUME NEW p \in Proc, BeginAttemptFails(p) PROVE Structure'
  BY <1>7 DEF BeginAttemptFails, Goto
<1>8. ASSUME NEW p \in Proc, ProviderAccepts(p) PROVE Structure'
  BY <1>8 DEF ProviderAccepts, Goto, CountAcceptance
<1>9. ASSUME NEW p \in Proc, ProviderRejects(p) PROVE Structure'
  <2>1. TypeOK'
    BY <1>9 DEF ProviderRejects, NextProvider, Goto
  <2>2. AttemptsBounded'
    BY <1>9 DEF ProviderRejects, NextProvider, Goto
  <2>3. LocksOwned'
    BY <1>9 DEF ProviderRejects, NextProvider, Goto
  <2>4. SlotsBusy'
    BY <1>9 DEF ProviderRejects, NextProvider, Goto
  <2>5. OneSlotPerJob'
    BY <1>9 DEF ProviderRejects, NextProvider, Goto
  <2>6. AbsentClean'
    BY <1>9 DEF ProviderRejects, NextProvider, Goto
  <2>7. AddedByItsOwner'
    BY <1>9 DEF ProviderRejects, NextProvider, Goto
  <2>8. RecordsSavedOnce'
    BY <1>9 DEF ProviderRejects, NextProvider, Goto
  <2>9. DeadLetterExhausted'
    BY <1>9 DEF ProviderRejects, NextProvider, Goto
  <2>. QED BY <2>1, <2>2, <2>3, <2>4, <2>5, <2>6, <2>7, <2>8, <2>9
<1>10. ASSUME NEW p \in Proc, ReplyLost(p) PROVE Structure'
  <2>1. TypeOK'
    BY <1>10, SMTT(40) DEF ReplyLost, NextProvider, Goto, CountAcceptance
  <2>2. AttemptsBounded'
    BY <1>10 DEF ReplyLost, NextProvider, Goto, CountAcceptance
  <2>3. LocksOwned'
    BY <1>10 DEF ReplyLost, NextProvider, Goto, CountAcceptance
  <2>4. SlotsBusy'
    BY <1>10 DEF ReplyLost, NextProvider, Goto, CountAcceptance
  <2>5. OneSlotPerJob'
    BY <1>10 DEF ReplyLost, NextProvider, Goto, CountAcceptance
  <2>6. AbsentClean'
    BY <1>10 DEF ReplyLost, NextProvider, Goto, CountAcceptance
  <2>7. AddedByItsOwner'
    BY <1>10 DEF ReplyLost, NextProvider, Goto, CountAcceptance
  <2>8. RecordsSavedOnce'
    BY <1>10 DEF ReplyLost, NextProvider, Goto, CountAcceptance
  <2>9. DeadLetterExhausted'
    BY <1>10 DEF ReplyLost, NextProvider, Goto, CountAcceptance
  <2>. QED BY <2>1, <2>2, <2>3, <2>4, <2>5, <2>6, <2>7, <2>8, <2>9
<1>11. ASSUME NEW p \in Proc, RecordSent(p) PROVE Structure'
  BY <1>11 DEF RecordSent, Goto
<1>12. ASSUME NEW p \in Proc, RecordSentFails(p) PROVE Structure'
  BY <1>12 DEF RecordSentFails, NextProvider, Goto
<1>13. ASSUME NEW p \in Proc, RecordFailed(p) PROVE Structure'
  BY <1>13 DEF RecordFailed, Goto
<1>14. ASSUME NEW p \in Proc, RecordFailedFails(p) PROVE Structure'
  BY <1>14 DEF RecordFailedFails, Goto
<1>15. ASSUME NEW p \in Proc, Complete(p) PROVE Structure'
  BY <1>15 DEF Complete, HoldsLock, Release
<1>16. ASSUME NEW p \in Proc, RetryWithBackoff(p) PROVE Structure'
  BY <1>16 DEF RetryWithBackoff, HoldsLock, Release, RetriesLeft, FailedEvent, Exhausted
<1>17. ASSUME NEW p \in Proc, FailForGood(p) PROVE Structure'
  <2>1. TypeOK'
    <3> HIDE DEF AttemptsBounded, LocksOwned, SlotsBusy, OneSlotPerJob, AbsentClean,
                 AddedByItsOwner, RecordsSavedOnce, DeadLetterExhausted
    <3>1. cur[p] \in Job /\ attempt[p] \in 0 .. MaxAttempts
      BY <1>17 DEF FailForGood, HoldsLock
    <3>2. /\ attemptsMade' \in [Job -> 0 .. MaxAttempts]
          /\ jobState' \in [Job -> JobState]
          /\ lock' \in [Job -> Proc \cup {None}]
      BY <1>17, <3>1 DEF FailForGood
    <3>3. /\ hpc' \in [Job -> HandlerPc]
          /\ howner' \in [Job -> Proc \cup {None}]
      BY <1>17, <3>1 DEF FailForGood, FailedEvent
    <3>. QED BY <1>17, <3>2, <3>3 DEF FailForGood, Release
  <2>2. AttemptsBounded'
    BY <1>17 DEF FailForGood, HoldsLock, Release, RetriesLeft, FailedEvent, Exhausted
  <2>3. LocksOwned'
    BY <1>17 DEF FailForGood, HoldsLock, Release, RetriesLeft, FailedEvent, Exhausted
  <2>4. SlotsBusy'
    BY <1>17 DEF FailForGood, HoldsLock, Release, RetriesLeft, FailedEvent, Exhausted
  <2>5. OneSlotPerJob'
    BY <1>17 DEF FailForGood, HoldsLock, Release, RetriesLeft, FailedEvent, Exhausted
  <2>6. AbsentClean'
    BY <1>17 DEF FailForGood, HoldsLock, Release, RetriesLeft, FailedEvent, Exhausted
  <2>7. AddedByItsOwner'
    BY <1>17 DEF FailForGood, HoldsLock, Release, RetriesLeft, FailedEvent, Exhausted
  <2>8. RecordsSavedOnce'
    BY <1>17 DEF FailForGood, HoldsLock, Release, RetriesLeft, FailedEvent, Exhausted
  <2>9. DeadLetterExhausted'
    BY <1>17 DEF FailForGood, HoldsLock, Release, RetriesLeft, FailedEvent, Exhausted
  <2>. QED BY <2>1, <2>2, <2>3, <2>4, <2>5, <2>6, <2>7, <2>8, <2>9
<1>18. ASSUME NEW p \in Proc, ReportRefused(p) PROVE Structure'
  BY <1>18 DEF ReportRefused, HoldsLock, Release
<1>19. ASSUME NEW p \in Proc, LoseLock(p) PROVE Structure'
  BY <1>19 DEF LoseLock, HoldsLock
<1>20. ASSUME NEW p \in Proc, Crash(p) PROVE Structure'
  BY <1>20 DEF Crash, Die, Release
<1>21. ASSUME NEW p \in Proc, HandlerRejects(p) PROVE Structure'
  BY <1>21 DEF HandlerRejects, Die, Release
<1>22. ASSUME NEW j \in Job, Promote(j) PROVE Structure'
  BY <1>22 DEF Promote
<1>23. ASSUME NEW j \in Job, RecoverStalled(j) PROVE Structure'
  BY <1>23 DEF RecoverStalled
<1>24. ASSUME NEW j \in Job, DeadLetterMark(j) PROVE Structure'
  BY <1>24 DEF DeadLetterMark
<1>25. ASSUME NEW j \in Job, DeadLetterSave(j) PROVE Structure'
  BY <1>25 DEF DeadLetterSave
<1>26. ASSUME NEW a \in Retry, RetryFind(a) PROVE Structure'
  BY <1>26 DEF RetryFind
<1>27. ASSUME NEW a \in Retry, RetryReset(a) PROVE Structure'
  BY <1>27 DEF RetryReset
<1>28. ASSUME NEW a \in Retry, RetryAdd(a) PROVE Structure'
  BY <1>28 DEF RetryAdd
<1>29. ASSUME NEW a \in Retry, RetryFlag(a) PROVE Structure'
  BY <1>29 DEF RetryFlag
<1>30. ASSUME NEW a \in Retry, RetryAborts(a) PROVE Structure'
  BY <1>30 DEF RetryAborts
<1>31. CASE UNCHANGED vars
  BY <1>31 DEF vars
<1>. QED
  BY <1>1, <1>2, <1>3, <1>4, <1>5, <1>6, <1>7, <1>8, <1>9, <1>10, <1>11, <1>12, <1>13, <1>14,
     <1>15, <1>16, <1>17, <1>18, <1>19, <1>20, <1>21, <1>22, <1>23, <1>24, <1>25, <1>26,
     <1>27, <1>28, <1>29, <1>30, <1>31
  DEF Next, Produce, Work, Process, Finish, DeadLetter, RetryRequest, Rest

-----------------------------------------------------------------------------
(* Which actions write a variable.                                         *)

\* Writers of producer: produce alone.
LEMMA ProducerWriters ==
  ASSUME Next \/ UNCHANGED vars
  PROVE  \/ UNCHANGED producer
         \/ \E l \in Log : PersistLog(l) \/ EnqueueJob(l) \/ ProducerFails(l)
  BY DEF Next, Produce, Work, Process, Finish, DeadLetter, RetryRequest, Rest, vars, Fetch,
     FailStalled, BeginAttempt, BeginAttemptFails, ProviderAccepts, ProviderRejects,
     ReplyLost, RecordSent, RecordSentFails, RecordFailed, RecordFailedFails, Complete,
     RetryWithBackoff, FailForGood, ReportRefused, LoseLock, Crash, Die, HandlerRejects,
     Promote, RecoverStalled, DeadLetterMark, DeadLetterSave, RetryFind, RetryReset,
     RetryAdd, RetryFlag, RetryAborts

\* A job's row is chosen by the request that requeues it.
LEMMA PayloadWriters ==
  ASSUME Next \/ UNCHANGED vars
  PROVE  \/ UNCHANGED logOf
         \/ \E a \in Retry : RetryFind(a)
  BY DEF Next, Produce, Work, Process, Finish, DeadLetter, RetryRequest, Rest, vars,
     PersistLog, EnqueueJob, ProducerFails, Fetch, FailStalled, BeginAttempt,
     BeginAttemptFails, ProviderAccepts, ProviderRejects, ReplyLost, RecordSent,
     RecordSentFails, RecordFailed, RecordFailedFails, Complete, RetryWithBackoff,
     FailForGood, ReportRefused, LoseLock, Crash, Die, HandlerRejects, Promote,
     RecoverStalled, DeadLetterMark, DeadLetterSave, RetryReset, RetryAdd, RetryFlag,
     RetryAborts

\* Only the stalled-job checker counts stalls.
LEMMA StallWriters ==
  ASSUME Next \/ UNCHANGED vars
  PROVE  \/ UNCHANGED stalled
         \/ \E j \in Job : RecoverStalled(j)
  BY DEF Next, Produce, Work, Process, Finish, DeadLetter, RetryRequest, Rest, vars,
     PersistLog, EnqueueJob, ProducerFails, Fetch, FailStalled, BeginAttempt,
     BeginAttemptFails, ProviderAccepts, ProviderRejects, ReplyLost, RecordSent,
     RecordSentFails, RecordFailed, RecordFailedFails, Complete, RetryWithBackoff,
     FailForGood, ReportRefused, LoseLock, Crash, Die, HandlerRejects, Promote,
     DeadLetterMark, DeadLetterSave, RetryFind, RetryReset, RetryAdd, RetryFlag, RetryAborts

\* Only a lost lock overruns a job.
LEMMA OverrunWriters ==
  ASSUME Next \/ UNCHANGED vars
  PROVE  \/ UNCHANGED overrun
         \/ \E p \in Proc : LoseLock(p)
  BY DEF Next, Produce, Work, Process, Finish, DeadLetter, RetryRequest, Rest, vars,
     PersistLog, EnqueueJob, ProducerFails, Fetch, FailStalled, BeginAttempt,
     BeginAttemptFails, ProviderAccepts, ProviderRejects, ReplyLost, RecordSent,
     RecordSentFails, RecordFailed, RecordFailedFails, Complete, RetryWithBackoff,
     FailForGood, ReportRefused, Crash, Die, HandlerRejects, Promote, RecoverStalled,
     DeadLetterMark, DeadLetterSave, RetryFind, RetryReset, RetryAdd, RetryFlag, RetryAborts

\* The two mishaps.
LEMMA MishapWriters ==
  ASSUME Next \/ UNCHANGED vars
  PROVE  \/ UNCHANGED mishap
         \/ \E p \in Proc : ReplyLost(p) \/ RecordSentFails(p)
  BY DEF Next, Produce, Work, Process, Finish, DeadLetter, RetryRequest, Rest, vars,
     PersistLog, EnqueueJob, ProducerFails, Fetch, FailStalled, BeginAttempt,
     BeginAttemptFails, ProviderAccepts, ProviderRejects, RecordSent, RecordFailed,
     RecordFailedFails, Complete, RetryWithBackoff, FailForGood, ReportRefused, LoseLock,
     Crash, Die, HandlerRejects, Promote, RecoverStalled, DeadLetterMark, DeadLetterSave,
     RetryFind, RetryReset, RetryAdd, RetryFlag, RetryAborts

\* Only a send that reached a provider counts.
LEMMA AcceptanceWriters ==
  ASSUME Next \/ UNCHANGED vars
  PROVE  \/ UNCHANGED accepted
         \/ \E p \in Proc : ProviderAccepts(p) \/ ReplyLost(p)
  BY DEF Next, Produce, Work, Process, Finish, DeadLetter, RetryRequest, Rest, vars,
     PersistLog, EnqueueJob, ProducerFails, Fetch, FailStalled, BeginAttempt,
     BeginAttemptFails, ProviderRejects, RecordSent, RecordSentFails, RecordFailed,
     RecordFailedFails, Complete, RetryWithBackoff, FailForGood, ReportRefused, LoseLock,
     Crash, Die, HandlerRejects, Promote, RecoverStalled, DeadLetterMark, DeadLetterSave,
     RetryFind, RetryReset, RetryAdd, RetryFlag, RetryAborts

\* Requests go their own way.
LEMMA RequestWriters ==
  ASSUME Next \/ UNCHANGED vars
  PROVE  \/ UNCHANGED <<apc, rec>>
         \/ \E a \in Retry : RetryFind(a) \/ RetryReset(a) \/ RetryAdd(a) \/ RetryFlag(a) \/ RetryAborts(a)
  BY DEF Next, Produce, Work, Process, Finish, DeadLetter, RetryRequest, Rest, vars,
     PersistLog, EnqueueJob, ProducerFails, Fetch, FailStalled, BeginAttempt,
     BeginAttemptFails, ProviderAccepts, ProviderRejects, ReplyLost, RecordSent,
     RecordSentFails, RecordFailed, RecordFailedFails, Complete, RetryWithBackoff,
     FailForGood, ReportRefused, LoseLock, Crash, Die, HandlerRejects, Promote,
     RecoverStalled, DeadLetterMark, DeadLetterSave

\* Records are saved by listeners and flagged by requests.
LEMMA RecordWriters ==
  ASSUME Next \/ UNCHANGED vars
  PROVE  \/ UNCHANGED dlq
         \/ \E j \in Job : DeadLetterSave(j)
         \/ \E a \in Retry : RetryFlag(a)
  BY DEF Next, Produce, Work, Process, Finish, DeadLetter, RetryRequest, Rest, vars,
     PersistLog, EnqueueJob, ProducerFails, Fetch, FailStalled, BeginAttempt,
     BeginAttemptFails, ProviderAccepts, ProviderRejects, ReplyLost, RecordSent,
     RecordSentFails, RecordFailed, RecordFailedFails, Complete, RetryWithBackoff,
     FailForGood, ReportRefused, LoseLock, Crash, Die, HandlerRejects, Promote,
     RecoverStalled, DeadLetterMark, RetryFind, RetryReset, RetryAdd, RetryAborts

\* Listeners start with a failure, go on, or die with their process.
LEMMA ListenerWriters ==
  ASSUME Next \/ UNCHANGED vars
  PROVE  \/ UNCHANGED hpc
         \/ \E p \in Proc : FailStalled(p) \/ RetryWithBackoff(p) \/ FailForGood(p) \/ Crash(p) \/ HandlerRejects(p)
         \/ \E j \in Job : DeadLetterMark(j) \/ DeadLetterSave(j)
  BY DEF Next, Produce, Work, Process, Finish, DeadLetter, RetryRequest, Rest, vars,
     PersistLog, EnqueueJob, ProducerFails, Fetch, BeginAttempt, BeginAttemptFails,
     ProviderAccepts, ProviderRejects, ReplyLost, RecordSent, RecordSentFails, RecordFailed,
     RecordFailedFails, Complete, ReportRefused, LoseLock, Promote, RecoverStalled,
     RetryFind, RetryReset, RetryAdd, RetryFlag, RetryAborts

\* Who writes a row's status.
LEMMA StatusWriters ==
  ASSUME Next \/ UNCHANGED vars
  PROVE  \/ UNCHANGED status
         \/ \E l \in Log : PersistLog(l)
         \/ \E p \in Proc : BeginAttempt(p) \/ RecordSent(p) \/ RecordFailed(p)
         \/ \E j \in Job : DeadLetterMark(j)
         \/ \E a \in Retry : RetryReset(a)
  BY DEF Next, Produce, Work, Process, Finish, DeadLetter, RetryRequest, Rest, vars,
     EnqueueJob, ProducerFails, Fetch, FailStalled, BeginAttemptFails, ProviderAccepts,
     ProviderRejects, ReplyLost, RecordSentFails, RecordFailedFails, Complete,
     RetryWithBackoff, FailForGood, ReportRefused, LoseLock, Crash, Die, HandlerRejects,
     Promote, RecoverStalled, DeadLetterSave, RetryFind, RetryAdd, RetryFlag, RetryAborts

\* Who moves a job.
LEMMA JobWriters ==
  ASSUME Next \/ UNCHANGED vars
  PROVE  \/ UNCHANGED <<jobState, attemptsMade>>
         \/ \E l \in Log : EnqueueJob(l)
         \/ \E p \in Proc : Fetch(p) \/ FailStalled(p) \/ Complete(p) \/ RetryWithBackoff(p) \/ FailForGood(p)
         \/ \E j \in Job : Promote(j) \/ RecoverStalled(j)
         \/ \E a \in Retry : RetryAdd(a)
  BY DEF Next, Produce, Work, Process, Finish, DeadLetter, RetryRequest, Rest, vars,
     PersistLog, ProducerFails, BeginAttempt, BeginAttemptFails, ProviderAccepts,
     ProviderRejects, ReplyLost, RecordSent, RecordSentFails, RecordFailed,
     RecordFailedFails, ReportRefused, LoseLock, Crash, Die, HandlerRejects, DeadLetterMark,
     DeadLetterSave, RetryFind, RetryReset, RetryFlag, RetryAborts

-----------------------------------------------------------------------------
(* What a slot, a row and a completed job say about the provider.          *)

Acceptance ==
  /\ \A p \in Proc : pc[p] \in {"record", "complete"} => accepted[cur[p]] > 0
  /\ SentWasAccepted
  /\ CompletedWasAccepted

\* Every step keeps what slots, rows and jobs say about the provider true.
LEMMA AcceptanceNext ==
  ASSUME Structure, Acceptance, Next \/ UNCHANGED vars PROVE Acceptance'
<1> USE DEF Structure, TypeOK, SlotsBusy, AbsentClean, AddedByItsOwner,
            Acceptance, SentWasAccepted, CompletedWasAccepted, JobsOf
<1>1. ASSUME NEW l \in Log, PersistLog(l) PROVE Acceptance'
  BY <1>1 DEF PersistLog
<1>2. ASSUME NEW l \in Log, EnqueueJob(l) PROVE Acceptance'
  <2>1. \A j \in Job : jobState'[j] = "completed" => jobState[j] = "completed"
    BY <1>2 DEF EnqueueJob
  <2>. QED BY <1>2, <2>1 DEF EnqueueJob
<1>3. ASSUME NEW l \in Log, ProducerFails(l) PROVE Acceptance'
  BY <1>3 DEF ProducerFails
<1>4. ASSUME NEW p \in Proc, Fetch(p) PROVE Acceptance'
  BY <1>4 DEF Fetch, Goto
<1>5. ASSUME NEW p \in Proc, FailStalled(p) PROVE Acceptance'
  BY <1>5 DEF FailStalled, FailedEvent, Exhausted
<1>6. ASSUME NEW p \in Proc, BeginAttempt(p) PROVE Acceptance'
  BY <1>6 DEF BeginAttempt, Goto
<1>7. ASSUME NEW p \in Proc, BeginAttemptFails(p) PROVE Acceptance'
  BY <1>7 DEF BeginAttemptFails, Goto
<1>8. ASSUME NEW p \in Proc, ProviderAccepts(p) PROVE Acceptance'
  BY <1>8 DEF ProviderAccepts, Goto, CountAcceptance
<1>9. ASSUME NEW p \in Proc, ProviderRejects(p) PROVE Acceptance'
  BY <1>9 DEF ProviderRejects, NextProvider, Goto
<1>10. ASSUME NEW p \in Proc, ReplyLost(p) PROVE Acceptance'
  BY <1>10 DEF ReplyLost, NextProvider, Goto, CountAcceptance
<1>11. ASSUME NEW p \in Proc, RecordSent(p) PROVE Acceptance'
  BY <1>11 DEF RecordSent, Goto
<1>12. ASSUME NEW p \in Proc, RecordSentFails(p) PROVE Acceptance'
  BY <1>12 DEF RecordSentFails, NextProvider, Goto
<1>13. ASSUME NEW p \in Proc, RecordFailed(p) PROVE Acceptance'
  BY <1>13 DEF RecordFailed, Goto
<1>14. ASSUME NEW p \in Proc, RecordFailedFails(p) PROVE Acceptance'
  BY <1>14 DEF RecordFailedFails, Goto
<1>15. ASSUME NEW p \in Proc, Complete(p) PROVE Acceptance'
  BY <1>15 DEF Complete, HoldsLock, Release
<1>16. ASSUME NEW p \in Proc, RetryWithBackoff(p) PROVE Acceptance'
  BY <1>16 DEF RetryWithBackoff, HoldsLock, Release, RetriesLeft, FailedEvent, Exhausted
<1>17. ASSUME NEW p \in Proc, FailForGood(p) PROVE Acceptance'
  BY <1>17 DEF FailForGood, HoldsLock, Release, RetriesLeft, FailedEvent, Exhausted
<1>18. ASSUME NEW p \in Proc, ReportRefused(p) PROVE Acceptance'
  BY <1>18 DEF ReportRefused, HoldsLock, Release
<1>19. ASSUME NEW p \in Proc, LoseLock(p) PROVE Acceptance'
  BY <1>19 DEF LoseLock, HoldsLock
<1>20. ASSUME NEW p \in Proc, Crash(p) PROVE Acceptance'
  BY <1>20 DEF Crash, Die, Release
<1>21. ASSUME NEW p \in Proc, HandlerRejects(p) PROVE Acceptance'
  BY <1>21 DEF HandlerRejects, Die, Release
<1>22. ASSUME NEW j \in Job, Promote(j) PROVE Acceptance'
  BY <1>22 DEF Promote
<1>23. ASSUME NEW j \in Job, RecoverStalled(j) PROVE Acceptance'
  BY <1>23 DEF RecoverStalled
<1>24. ASSUME NEW j \in Job, DeadLetterMark(j) PROVE Acceptance'
  BY <1>24 DEF DeadLetterMark
<1>25. ASSUME NEW j \in Job, DeadLetterSave(j) PROVE Acceptance'
  BY <1>25 DEF DeadLetterSave
<1>26. ASSUME NEW a \in Retry, RetryFind(a) PROVE Acceptance'
  BY <1>26 DEF RetryFind
<1>27. ASSUME NEW a \in Retry, RetryReset(a) PROVE Acceptance'
  BY <1>27 DEF RetryReset
<1>28. ASSUME NEW a \in Retry, RetryAdd(a) PROVE Acceptance'
  BY <1>28 DEF RetryAdd
<1>29. ASSUME NEW a \in Retry, RetryFlag(a) PROVE Acceptance'
  BY <1>29 DEF RetryFlag
<1>30. ASSUME NEW a \in Retry, RetryAborts(a) PROVE Acceptance'
  BY <1>30 DEF RetryAborts
<1>31. CASE UNCHANGED vars
  BY <1>31 DEF vars
<1>. QED
  BY <1>1, <1>2, <1>3, <1>4, <1>5, <1>6, <1>7, <1>8, <1>9, <1>10, <1>11, <1>12, <1>13, <1>14,
     <1>15, <1>16, <1>17, <1>18, <1>19, <1>20, <1>21, <1>22, <1>23, <1>24, <1>25, <1>26,
     <1>27, <1>28, <1>29, <1>30, <1>31
  DEF Next, Produce, Work, Process, Finish, DeadLetter, RetryRequest, Rest

-----------------------------------------------------------------------------
(* The jobs of a row form a line of retries unless a record is retried     *)
(* twice: at most one of them has no retry of its own.                     *)

\* The job exists, or the request that will add it has found its record.
InLine(j) == j \in Log \/ apc[j] # "idle"

Taken(j) == \E a \in Retry : rec[a] = j

OneEnd ==
  \A j, k \in Job :
    (InLine(j) /\ InLine(k) /\ logOf[j] = logOf[k] /\ ~Taken(j) /\ ~Taken(k)) =>
      j = k \/ RetriedTwice(logOf[j])

\* Every step keeps the line of retries single: only RetryFind extends it, and
\* it extends it at its end or retries a record for the second time.
LEMMA OneEndNext == ASSUME Structure, OneEnd, Next \/ UNCHANGED vars PROVE OneEnd'
<1> USE DEF Structure, TypeOK, AddedByItsOwner
<1>1. ASSUME NEW a \in Retry, RetryFind(a) PROVE OneEnd'
  <2>1. PICK r \in Job : /\ dlq[r] # "none"
                         /\ rec' = [rec EXCEPT ![a] = r]
                         /\ logOf' = [logOf EXCEPT ![a] = logOf[r]]
    BY <1>1 DEF RetryFind
  <2>2. apc[a] = "idle" /\ apc' = [apc EXCEPT ![a] = "reset"] /\ rec[a] = None
    BY <1>1 DEF RetryFind
  <2>3. jobState[a] = "absent" /\ r # a
    BY <2>1, <2>2 DEF DeadLetterExhausted
  <2>4. InLine(r) /\ logOf[r] \in Log
    BY <2>1, <2>3 DEF DeadLetterExhausted, InLine
  <2>5. SUFFICES ASSUME NEW j \in Job, NEW k \in Job, j # k,
                        InLine(j)', InLine(k)', logOf'[j] = logOf'[k], ~Taken(j)', ~Taken(k)'
                 PROVE RetriedTwice(logOf[j])'
    BY DEF OneEnd
  <2>6. ~Taken(j) /\ ~Taken(k) /\ j # r /\ k # r
    BY <2>1, <2>2, <2>5 DEF Taken
  <2>7. CASE j # a /\ k # a
    <3>1. RetriedTwice(logOf[j])
      BY <2>1, <2>2, <2>5, <2>6, <2>7 DEF InLine, OneEnd
    <3>2. PICK b, c \in Retry : b # c /\ logOf[b] = logOf[j] /\ rec[b] = rec[c] /\ rec[b] # None
      BY <3>1 DEF RetriedTwice
    <3>. QED BY <2>1, <2>2, <2>7, <3>2 DEF RetriedTwice
  <2>8. CASE j = a \/ k = a
    <3>1. PICK i \in Job : /\ i # a /\ i # r /\ InLine(i) /\ ~Taken(i) /\ logOf[i] = logOf[r]
                           /\ logOf'[j] = logOf[r]
      BY <2>1, <2>2, <2>5, <2>6, <2>8 DEF InLine
    <3>2. CASE Taken(r)
      BY <2>1, <2>2, <2>3, <3>1, <3>2 DEF Taken, RetriedTwice
    <3>3. CASE ~Taken(r)
      <4>1. RetriedTwice(logOf[r])
        BY <2>4, <3>1, <3>3 DEF OneEnd
      <4>2. PICK b, c \in Retry : b # c /\ logOf[b] = logOf[r] /\ rec[b] = rec[c] /\ rec[b] # None
        BY <4>1 DEF RetriedTwice
      <4>. QED BY <2>1, <2>2, <3>1, <4>2 DEF RetriedTwice
    <3>. QED BY <3>2, <3>3
  <2>. QED BY <2>7, <2>8
<1>2. ASSUME rec' = rec, logOf' = logOf, \A a \in Retry : apc'[a] = "idle" <=> apc[a] = "idle"
      PROVE OneEnd'
  <2>1. \A j \in Job : (InLine(j)' <=> InLine(j)) /\ (Taken(j)' <=> Taken(j))
    BY <1>2 DEF InLine, Taken
  <2>2. ASSUME NEW j \in Job PROVE RetriedTwice(logOf[j])' <=> RetriedTwice(logOf[j])
    BY <1>2 DEF RetriedTwice
  <2>. QED BY <1>2, <2>1, <2>2 DEF OneEnd
<1>3. ASSUME NEW a \in Retry, RetryRequest(a) PROVE OneEnd'
  <2>1. \A b \in Retry : apc'[b] = "idle" <=> apc[b] = "idle"
    BY <1>3 DEF RetryRequest, RetryReset, RetryAdd, RetryFlag, RetryAborts
  <2>. QED BY <1>2, <1>3, <2>1 DEF RetryRequest, RetryReset, RetryAdd, RetryFlag, RetryAborts
<1>4. ASSUME apc' = apc, rec' = rec, logOf' = logOf PROVE OneEnd'
  BY <1>2, <1>4
<1>5. ASSUME NEW l \in Log, Produce(l) PROVE OneEnd'
  BY <1>4, <1>5 DEF Produce, PersistLog, EnqueueJob, ProducerFails
<1>6. ASSUME NEW p \in Proc, Work(p) PROVE OneEnd'
  BY <1>4, <1>6 DEF Work, Fetch, FailStalled, Process, BeginAttempt, BeginAttemptFails,
     ProviderAccepts, ProviderRejects, ReplyLost, RecordSent, RecordSentFails, RecordFailed,
     RecordFailedFails, Finish, Complete, RetryWithBackoff, FailForGood, ReportRefused
<1>7. ASSUME NEW p \in Proc, LoseLock(p) \/ Crash(p) \/ HandlerRejects(p) PROVE OneEnd'
  BY <1>4, <1>7 DEF LoseLock, Crash, HandlerRejects, Die
<1>8. ASSUME NEW j \in Job, Promote(j) \/ RecoverStalled(j) \/ DeadLetter(j) PROVE OneEnd'
  BY <1>4, <1>8 DEF Promote, RecoverStalled, DeadLetter, DeadLetterMark, DeadLetterSave
<1>9. CASE UNCHANGED vars
  BY <1>4, <1>9 DEF vars
<1>. QED
  BY <1>1, <1>3, <1>5, <1>6, <1>7, <1>8, <1>9 DEF Next, Rest

\* OneEnd rules out a second live job: a record's job is not live.
LEMMA ParallelFromOneEnd == ASSUME Structure, OneEnd PROVE ParallelJobsNeedDoubleRetry
<1> USE DEF Structure, TypeOK, AddedByItsOwner
<1>1. ASSUME NEW j \in Job, Live(j) PROVE InLine(j) /\ ~Taken(j) /\ logOf[j] \in Log
  BY <1>1 DEF Live, InLine, Taken, DeadLetterExhausted
<1>. QED BY <1>1 DEF OneEnd, ParallelJobsNeedDoubleRetry

-----------------------------------------------------------------------------
(* SENT is final: its job is the last of the row's line, and done.         *)

\* The exceptions, once they hold, hold for ever.
LEMMA ExceptionsStay ==
  ASSUME Structure, Next \/ UNCHANGED vars, NEW l \in Log
  PROVE  /\ Redelivered(l) => Redelivered(l)'
         /\ RetriedTwice(l) => RetriedTwice(l)'
<1> USE DEF Structure, TypeOK, AddedByItsOwner, AbsentClean
<1>1. \A j \in Job : stalled[j] > 0 => stalled'[j] > 0
  BY StallWriters DEF RecoverStalled
<1>2. \A j \in Job : logOf[j] # None => logOf'[j] = logOf[j]
  BY PayloadWriters DEF RetryFind
<1>3. \A a \in Retry : rec[a] # None => rec'[a] = rec[a]
  BY RequestWriters DEF RetryFind, RetryReset, RetryAdd, RetryFlag, RetryAborts
<1>4. Redelivered(l) => Redelivered(l)'
  BY <1>1, <1>2 DEF Redelivered, JobsOf
<1>5. RetriedTwice(l) => RetriedTwice(l)'
  BY <1>2, <1>3 DEF RetriedTwice
<1>. QED BY <1>4, <1>5

Done(j) ==
  \/ jobState[j] = "completed"
  \/ jobState[j] = "active" /\ \A p \in Proc : cur[p] = j => pc[p] = "complete"

AtEnd(j) == InLine(j) /\ ~Taken(j) /\ Done(j)

\* The job that is done stays done, and the last of its line.
LEMMA DoneStays ==
  ASSUME Structure, Next \/ UNCHANGED vars,
         NEW k \in Job, NEW m \in Log, logOf[k] = m, AtEnd(k), ~Redelivered(m)'
  PROVE  AtEnd(k)' /\ logOf'[k] = m
<1> USE DEF Structure, TypeOK, LocksOwned, SlotsBusy, AbsentClean, AddedByItsOwner,
            DeadLetterExhausted, Redelivered, JobsOf, AtEnd, Done, InLine, Taken
<1>1. ASSUME NEW l \in Log, PersistLog(l) PROVE AtEnd(k)' /\ logOf'[k] = m
  BY <1>1 DEF PersistLog
<1>2. ASSUME NEW l \in Log, EnqueueJob(l) PROVE AtEnd(k)' /\ logOf'[k] = m
  BY <1>2 DEF EnqueueJob
<1>3. ASSUME NEW l \in Log, ProducerFails(l) PROVE AtEnd(k)' /\ logOf'[k] = m
  BY <1>3 DEF ProducerFails
<1>4. ASSUME NEW p \in Proc, Fetch(p) PROVE AtEnd(k)' /\ logOf'[k] = m
  BY <1>4 DEF Fetch, Goto
<1>5. ASSUME NEW p \in Proc, FailStalled(p) PROVE AtEnd(k)' /\ logOf'[k] = m
  BY <1>5 DEF FailStalled, FailedEvent, Exhausted
<1>6. ASSUME NEW p \in Proc, BeginAttempt(p) PROVE AtEnd(k)' /\ logOf'[k] = m
  BY <1>6 DEF BeginAttempt, Goto
<1>7. ASSUME NEW p \in Proc, BeginAttemptFails(p) PROVE AtEnd(k)' /\ logOf'[k] = m
  BY <1>7 DEF BeginAttemptFails, Goto
<1>8. ASSUME NEW p \in Proc, ProviderAccepts(p) PROVE AtEnd(k)' /\ logOf'[k] = m
  BY <1>8 DEF ProviderAccepts, Goto, CountAcceptance
<1>9. ASSUME NEW p \in Proc, ProviderRejects(p) PROVE AtEnd(k)' /\ logOf'[k] = m
  BY <1>9 DEF ProviderRejects, NextProvider, Goto
<1>10. ASSUME NEW p \in Proc, ReplyLost(p) PROVE AtEnd(k)' /\ logOf'[k] = m
  BY <1>10 DEF ReplyLost, NextProvider, Goto, CountAcceptance
<1>11. ASSUME NEW p \in Proc, RecordSent(p) PROVE AtEnd(k)' /\ logOf'[k] = m
  BY <1>11 DEF RecordSent, Goto
<1>12. ASSUME NEW p \in Proc, RecordSentFails(p) PROVE AtEnd(k)' /\ logOf'[k] = m
  BY <1>12 DEF RecordSentFails, NextProvider, Goto
<1>13. ASSUME NEW p \in Proc, RecordFailed(p) PROVE AtEnd(k)' /\ logOf'[k] = m
  BY <1>13 DEF RecordFailed, Goto
<1>14. ASSUME NEW p \in Proc, RecordFailedFails(p) PROVE AtEnd(k)' /\ logOf'[k] = m
  BY <1>14 DEF RecordFailedFails, Goto
<1>15. ASSUME NEW p \in Proc, Complete(p) PROVE AtEnd(k)' /\ logOf'[k] = m
  BY <1>15 DEF Complete, HoldsLock, Release
<1>16. ASSUME NEW p \in Proc, RetryWithBackoff(p) PROVE AtEnd(k)' /\ logOf'[k] = m
  BY <1>16 DEF RetryWithBackoff, HoldsLock, Release, RetriesLeft, FailedEvent, Exhausted
<1>17. ASSUME NEW p \in Proc, FailForGood(p) PROVE AtEnd(k)' /\ logOf'[k] = m
  BY <1>17 DEF FailForGood, HoldsLock, Release, RetriesLeft, FailedEvent, Exhausted
<1>18. ASSUME NEW p \in Proc, ReportRefused(p) PROVE AtEnd(k)' /\ logOf'[k] = m
  BY <1>18 DEF ReportRefused, HoldsLock, Release
<1>19. ASSUME NEW p \in Proc, LoseLock(p) PROVE AtEnd(k)' /\ logOf'[k] = m
  BY <1>19 DEF LoseLock, HoldsLock
<1>20. ASSUME NEW p \in Proc, Crash(p) PROVE AtEnd(k)' /\ logOf'[k] = m
  BY <1>20 DEF Crash, Die, Release
<1>21. ASSUME NEW p \in Proc, HandlerRejects(p) PROVE AtEnd(k)' /\ logOf'[k] = m
  BY <1>21 DEF HandlerRejects, Die, Release
<1>22. ASSUME NEW j \in Job, Promote(j) PROVE AtEnd(k)' /\ logOf'[k] = m
  BY <1>22 DEF Promote
<1>23. ASSUME NEW j \in Job, RecoverStalled(j) PROVE AtEnd(k)' /\ logOf'[k] = m
  BY <1>23 DEF RecoverStalled
<1>24. ASSUME NEW j \in Job, DeadLetterMark(j) PROVE AtEnd(k)' /\ logOf'[k] = m
  BY <1>24 DEF DeadLetterMark
<1>25. ASSUME NEW j \in Job, DeadLetterSave(j) PROVE AtEnd(k)' /\ logOf'[k] = m
  BY <1>25 DEF DeadLetterSave
<1>26. ASSUME NEW a \in Retry, RetryFind(a) PROVE AtEnd(k)' /\ logOf'[k] = m
  BY <1>26 DEF RetryFind
<1>27. ASSUME NEW a \in Retry, RetryReset(a) PROVE AtEnd(k)' /\ logOf'[k] = m
  BY <1>27 DEF RetryReset
<1>28. ASSUME NEW a \in Retry, RetryAdd(a) PROVE AtEnd(k)' /\ logOf'[k] = m
  BY <1>28 DEF RetryAdd
<1>29. ASSUME NEW a \in Retry, RetryFlag(a) PROVE AtEnd(k)' /\ logOf'[k] = m
  BY <1>29 DEF RetryFlag
<1>30. ASSUME NEW a \in Retry, RetryAborts(a) PROVE AtEnd(k)' /\ logOf'[k] = m
  BY <1>30 DEF RetryAborts
<1>31. CASE UNCHANGED vars
  BY <1>31 DEF vars
<1>. QED
  BY <1>1, <1>2, <1>3, <1>4, <1>5, <1>6, <1>7, <1>8, <1>9, <1>10, <1>11, <1>12, <1>13, <1>14,
     <1>15, <1>16, <1>17, <1>18, <1>19, <1>20, <1>21, <1>22, <1>23, <1>24, <1>25, <1>26,
     <1>27, <1>28, <1>29, <1>30, <1>31
  DEF Next, Produce, Work, Process, Finish, DeadLetter, RetryRequest, Rest

\* No one who could write another status to a row that says SENT is left.
LEMMA SentStays ==
  ASSUME Structure, OneEnd, Next \/ UNCHANGED vars, NEW m \in Log, NEW k \in Job,
         logOf[k] = m, AtEnd(k), status[m] = "SENT", ~Redelivered(m), ~RetriedTwice(m)
  PROVE  status'[m] = "SENT"
<1>0. ASSUME NEW j \in Job, InLine(j), ~Taken(j), logOf[j] = m PROVE j = k
  BY <1>0 DEF OneEnd, AtEnd
<1> USE DEF Structure, TypeOK
<1>a. ASSUME NEW p \in Proc, cur[p] # None, logOf[cur[p]] = m PROVE pc[p] = "complete"
  <2>1. cur[p] \in Job /\ jobState[cur[p]] = "active"
    BY <1>a DEF SlotsBusy, Redelivered, JobsOf
  <2>2. InLine(cur[p]) /\ ~Taken(cur[p])
    BY <2>1 DEF InLine, Taken, AddedByItsOwner, DeadLetterExhausted
  <2>3. cur[p] = k
    BY <1>0, <1>a, <2>1, <2>2
  <2>. QED BY <2>1, <2>3 DEF AtEnd, Done
<1>b. ASSUME NEW j \in Job, jobState[j] = "absent" \/ hpc[j] = "mark", InLine(j), logOf[j] = m
      PROVE FALSE
  <2>1. ~Taken(j)
    BY <1>b DEF Taken, AddedByItsOwner, DeadLetterExhausted, RecordsSavedOnce
  <2>2. j = k
    BY <1>0, <1>b, <2>1
  <2>. QED BY <1>b, <2>2 DEF AtEnd, Done, DeadLetterExhausted
<1>1. ASSUME NEW l \in Log, PersistLog(l) PROVE status'[m] = "SENT"
  BY <1>1, <1>b DEF PersistLog, AddedByItsOwner, InLine
<1>2. ASSUME NEW l \in Log, EnqueueJob(l) PROVE status'[m] = "SENT"
  BY <1>2 DEF EnqueueJob
<1>3. ASSUME NEW l \in Log, ProducerFails(l) PROVE status'[m] = "SENT"
  BY <1>3 DEF ProducerFails
<1>4. ASSUME NEW p \in Proc, Fetch(p) PROVE status'[m] = "SENT"
  BY <1>4 DEF Fetch, Goto
<1>5. ASSUME NEW p \in Proc, FailStalled(p) PROVE status'[m] = "SENT"
  BY <1>5 DEF FailStalled, FailedEvent, Exhausted
<1>6. ASSUME NEW p \in Proc, BeginAttempt(p) PROVE status'[m] = "SENT"
  BY <1>6, <1>a DEF BeginAttempt, SlotsBusy
<1>7. ASSUME NEW p \in Proc, BeginAttemptFails(p) PROVE status'[m] = "SENT"
  BY <1>7 DEF BeginAttemptFails, Goto
<1>8. ASSUME NEW p \in Proc, ProviderAccepts(p) PROVE status'[m] = "SENT"
  BY <1>8 DEF ProviderAccepts, Goto, CountAcceptance
<1>9. ASSUME NEW p \in Proc, ProviderRejects(p) PROVE status'[m] = "SENT"
  BY <1>9 DEF ProviderRejects, NextProvider, Goto
<1>10. ASSUME NEW p \in Proc, ReplyLost(p) PROVE status'[m] = "SENT"
  BY <1>10 DEF ReplyLost, NextProvider, Goto, CountAcceptance
<1>11. ASSUME NEW p \in Proc, RecordSent(p) PROVE status'[m] = "SENT"
  BY <1>11 DEF RecordSent, Goto
<1>12. ASSUME NEW p \in Proc, RecordSentFails(p) PROVE status'[m] = "SENT"
  BY <1>12 DEF RecordSentFails, NextProvider, Goto
<1>13. ASSUME NEW p \in Proc, RecordFailed(p) PROVE status'[m] = "SENT"
  BY <1>13, <1>a DEF RecordFailed, SlotsBusy
<1>14. ASSUME NEW p \in Proc, RecordFailedFails(p) PROVE status'[m] = "SENT"
  BY <1>14 DEF RecordFailedFails, Goto
<1>15. ASSUME NEW p \in Proc, Complete(p) PROVE status'[m] = "SENT"
  BY <1>15 DEF Complete, HoldsLock, Release
<1>16. ASSUME NEW p \in Proc, RetryWithBackoff(p) PROVE status'[m] = "SENT"
  BY <1>16 DEF RetryWithBackoff, HoldsLock, Release, RetriesLeft, FailedEvent, Exhausted
<1>17. ASSUME NEW p \in Proc, FailForGood(p) PROVE status'[m] = "SENT"
  BY <1>17 DEF FailForGood, HoldsLock, Release, RetriesLeft, FailedEvent, Exhausted
<1>18. ASSUME NEW p \in Proc, ReportRefused(p) PROVE status'[m] = "SENT"
  BY <1>18 DEF ReportRefused, HoldsLock, Release
<1>19. ASSUME NEW p \in Proc, LoseLock(p) PROVE status'[m] = "SENT"
  BY <1>19 DEF LoseLock, HoldsLock
<1>20. ASSUME NEW p \in Proc, Crash(p) PROVE status'[m] = "SENT"
  BY <1>20 DEF Crash, Die, Release
<1>21. ASSUME NEW p \in Proc, HandlerRejects(p) PROVE status'[m] = "SENT"
  BY <1>21 DEF HandlerRejects, Die, Release
<1>22. ASSUME NEW j \in Job, Promote(j) PROVE status'[m] = "SENT"
  BY <1>22 DEF Promote
<1>23. ASSUME NEW j \in Job, RecoverStalled(j) PROVE status'[m] = "SENT"
  BY <1>23 DEF RecoverStalled
<1>24. ASSUME NEW j \in Job, DeadLetterMark(j) PROVE status'[m] = "SENT"
  BY <1>24, <1>b DEF DeadLetterMark, InLine, AddedByItsOwner, DeadLetterExhausted
<1>25. ASSUME NEW j \in Job, DeadLetterSave(j) PROVE status'[m] = "SENT"
  BY <1>25 DEF DeadLetterSave
<1>26. ASSUME NEW a \in Retry, RetryFind(a) PROVE status'[m] = "SENT"
  BY <1>26 DEF RetryFind
<1>27. ASSUME NEW a \in Retry, RetryReset(a) PROVE status'[m] = "SENT"
  BY <1>27, <1>b DEF RetryReset, InLine, AddedByItsOwner
<1>28. ASSUME NEW a \in Retry, RetryAdd(a) PROVE status'[m] = "SENT"
  BY <1>28 DEF RetryAdd
<1>29. ASSUME NEW a \in Retry, RetryFlag(a) PROVE status'[m] = "SENT"
  BY <1>29 DEF RetryFlag
<1>30. ASSUME NEW a \in Retry, RetryAborts(a) PROVE status'[m] = "SENT"
  BY <1>30 DEF RetryAborts
<1>31. CASE UNCHANGED vars
  BY <1>31 DEF vars
<1>. QED
  BY <1>1, <1>2, <1>3, <1>4, <1>5, <1>6, <1>7, <1>8, <1>9, <1>10, <1>11, <1>12, <1>13, <1>14,
     <1>15, <1>16, <1>17, <1>18, <1>19, <1>20, <1>21, <1>22, <1>23, <1>24, <1>25, <1>26,
     <1>27, <1>28, <1>29, <1>30, <1>31
  DEF Next, Produce, Work, Process, Finish, DeadLetter, RetryRequest, Rest

SentAtTheEnd ==
  \A l \in Log : status[l] = "SENT" =>
    Redelivered(l) \/ RetriedTwice(l) \/ \E j \in Job : logOf[j] = l /\ AtEnd(j)

\* Only RecordSent makes a row say SENT, for the job of a slot about to complete.
LEMMA SentComesFromTheEnd ==
  ASSUME Structure, Next \/ UNCHANGED vars, NEW m \in Log,
         status[m] # "SENT", status'[m] = "SENT", ~Redelivered(m)'
  PROVE  \E j \in Job : logOf'[j] = m /\ AtEnd(j)'
<1> USE DEF Structure, TypeOK
<1>1. PICK p \in Proc : RecordSent(p) /\ logOf[cur[p]] = m
  BY StatusWriters DEF PersistLog, BeginAttempt, RecordSent, RecordFailed, DeadLetterMark,
     RetryReset
<1>2. cur[p] \in Job /\ jobState[cur[p]] = "active"
  BY <1>1 DEF RecordSent, SlotsBusy, Redelivered, JobsOf
<1>3. \A q \in Proc : cur[q] = cur[p] => q = p
  BY <1>1, <1>2 DEF RecordSent, OneSlotPerJob, SlotsBusy, Redelivered, JobsOf
<1>4. Done(cur[p])'
  BY <1>1, <1>2, <1>3 DEF RecordSent, Goto, Done
<1>5. InLine(cur[p])' /\ ~Taken(cur[p])'
  BY <1>1, <1>2 DEF RecordSent, InLine, Taken, AddedByItsOwner, DeadLetterExhausted
<1>. QED BY <1>1, <1>2, <1>4, <1>5 DEF RecordSent, AtEnd

\* Every step keeps a done job at the end of a SENT row's line.
LEMMA SentAtTheEndNext ==
  ASSUME Structure, SentAtTheEnd, Next \/ UNCHANGED vars PROVE SentAtTheEnd'
<1>1. SUFFICES ASSUME NEW l \in Log, status'[l] = "SENT", ~Redelivered(l)', ~RetriedTwice(l)'
               PROVE \E j \in Job : logOf'[j] = l /\ AtEnd(j)'
  BY DEF SentAtTheEnd
<1>2. ~Redelivered(l) /\ ~RetriedTwice(l)
  BY <1>1, ExceptionsStay
<1>3. CASE status[l] = "SENT"
  BY <1>1, <1>2, <1>3, DoneStays DEF SentAtTheEnd
<1>4. CASE status[l] # "SENT"
  BY <1>1, <1>4, SentComesFromTheEnd
<1>. QED BY <1>3, <1>4

\* No step takes a row out of SENT without one of the two exceptions.
LEMMA SentFinalStep ==
  ASSUME Structure, OneEnd, SentAtTheEnd, Next \/ UNCHANGED vars
  PROVE  \A l \in Log : (status[l] = "SENT" /\ status'[l] # "SENT") =>
           Redelivered(l) \/ RetriedTwice(l)
BY SentStays DEF SentAtTheEnd

-----------------------------------------------------------------------------
(* DLQ is final: the dead job is the last of the row's line, but for a     *)
(* request that has not reset the row yet, or died before it did.          *)

Overran(l) == \E j \in JobsOf(l) : j \in overrun

DeadEnd(j) ==
  /\ InLine(j)
  /\ hpc[j] \in {"save", "done", "aborted"}
  /\ \A a \in Retry : rec[a] = j => apc[a] \in {"reset", "aborted"} /\ jobState[a] = "absent"

DeadAtTheEnd ==
  \A l \in Log : status[l] = "DLQ" =>
    Overran(l) \/ RetriedTwice(l) \/ \E j \in Job : logOf[j] = l /\ DeadEnd(j)

\* A lock that was lost stays lost.
LEMMA OverranStays ==
  ASSUME Structure, Next \/ UNCHANGED vars, NEW l \in Log, Overran(l) PROVE Overran(l)'
<1> USE DEF Structure, TypeOK, AddedByItsOwner
<1>1. \A j \in Job : logOf[j] # None => logOf'[j] = logOf[j]
  BY PayloadWriters DEF RetryFind
<1>2. overrun \subseteq overrun'
  BY OverrunWriters DEF LoseLock
<1>. QED BY <1>1, <1>2 DEF Overran, JobsOf

\* No job of the row is in a slot, or still to be added by its producer.
LEMMA DeadRowAlone ==
  ASSUME Structure, OneEnd, NEW l \in Log, NEW j \in Job, logOf[j] = l, DeadEnd(j),
         ~Overran(l), ~RetriedTwice(l)
  PROVE  /\ \A p \in Proc : cur[p] # None => logOf[cur[p]] # l
         /\ producer[l] # "idle"
<1> USE DEF Structure, TypeOK
<1>1. jobState[j] = "failed"
  BY DEF DeadEnd, DeadLetterExhausted
<1>2. ASSUME NEW k \in Job, InLine(k), logOf[k] = l, ~Taken(k)
      PROVE k = j \/ (k \in Retry /\ jobState[k] = "absent")
  <2>1. CASE ~Taken(j)
    BY <1>2, <2>1 DEF OneEnd, DeadEnd
  <2>2. CASE Taken(j)
    <3>1. PICK a \in Retry : rec[a] = j
      BY <2>2 DEF Taken
    <3>2. jobState[a] = "absent" /\ InLine(a) /\ logOf[a] = l
      BY <3>1 DEF DeadEnd, InLine, AddedByItsOwner
    <3>3. ~Taken(a)
      BY <3>2 DEF Taken, AddedByItsOwner, DeadLetterExhausted
    <3>. QED BY <1>2, <3>2, <3>3 DEF OneEnd
  <2>. QED BY <2>1, <2>2
<1>3. ASSUME NEW p \in Proc, cur[p] # None, logOf[cur[p]] = l PROVE FALSE
  <2>1. cur[p] \in Job /\ jobState[cur[p]] = "active"
    BY <1>3 DEF SlotsBusy, LocksOwned, Overran, JobsOf
  <2>2. InLine(cur[p]) /\ ~Taken(cur[p])
    BY <2>1 DEF InLine, Taken, AddedByItsOwner, DeadLetterExhausted
  <2>. QED BY <1>1, <1>2, <1>3, <2>1, <2>2
<1>4. ASSUME producer[l] = "idle" PROVE FALSE
  <2>1. jobState[l] = "absent" /\ InLine(l) /\ logOf[l] = l
    BY <1>4 DEF AddedByItsOwner, InLine
  <2>2. ~Taken(l)
    BY <2>1 DEF Taken, AddedByItsOwner, DeadLetterExhausted
  <2>. QED BY <1>1, <1>2, <2>1, <2>2
<1>. QED BY <1>3, <1>4

\* No step takes a row out of DLQ but a request's, or one of the exceptions'.
LEMMA DlqFinalStep ==
  ASSUME Structure, OneEnd, DeadAtTheEnd, Next \/ UNCHANGED vars, NEW l \in Log,
         status[l] = "DLQ", status'[l] # "DLQ"
  PROVE  \/ \E a \in Retry : apc[a] = "reset" /\ logOf[a] = l
         \/ \E j \in JobsOf(l) : j \in overrun
         \/ RetriedTwice(l)
<1> USE DEF Structure, TypeOK
<1>1. SUFFICES ASSUME ~Overran(l), ~RetriedTwice(l)
               PROVE \E a \in Retry : apc[a] = "reset" /\ logOf[a] = l
  BY DEF Overran
<1>2. /\ \A p \in Proc : cur[p] # None => logOf[cur[p]] # l
      /\ producer[l] # "idle"
  BY <1>1, DeadRowAlone DEF DeadAtTheEnd
<1>3. ASSUME NEW k \in Log, PersistLog(k) PROVE FALSE
  BY <1>2, <1>3 DEF PersistLog
<1>4. ASSUME NEW p \in Proc, BeginAttempt(p) \/ RecordSent(p) \/ RecordFailed(p) PROVE FALSE
  BY <1>2, <1>4 DEF BeginAttempt, RecordSent, RecordFailed, SlotsBusy
<1>5. ASSUME NEW j \in Job, DeadLetterMark(j) PROVE FALSE
  BY <1>5 DEF DeadLetterMark
<1>6. ASSUME NEW a \in Retry, RetryReset(a) PROVE apc[a] = "reset" /\ logOf[a] = l
  BY <1>6 DEF RetryReset
<1>. QED BY <1>3, <1>4, <1>5, <1>6, StatusWriters

\* A listener marks a row before its job has a record that could be retried.
LEMMA DlqComesFromTheEnd ==
  ASSUME Structure, Next \/ UNCHANGED vars, NEW l \in Log,
         status[l] # "DLQ", status'[l] = "DLQ"
  PROVE  \E j \in Job : logOf'[j] = l /\ DeadEnd(j)'
<1> USE DEF Structure, TypeOK
<1>1. PICK j \in Job : DeadLetterMark(j) /\ logOf[j] = l
  BY StatusWriters DEF PersistLog, BeginAttempt, RecordSent, RecordFailed, DeadLetterMark,
     RetryReset
<1>2. InLine(j) /\ dlq[j] = "none"
  BY <1>1 DEF DeadLetterMark, InLine, AddedByItsOwner, DeadLetterExhausted, RecordsSavedOnce
<1>3. \A a \in Retry : rec[a] # j
  BY <1>2 DEF AddedByItsOwner
<1>4. hpc'[j] = "save" /\ UNCHANGED <<logOf, apc, rec, jobState>>
  BY <1>1 DEF DeadLetterMark
<1>. QED BY <1>1, <1>2, <1>3, <1>4 DEF DeadEnd, InLine

\* While the row says DLQ, its dead job stays at the end of the line.
LEMMA DeadEndStays ==
  ASSUME Structure, Next \/ UNCHANGED vars, NEW l \in Log, NEW j \in Job,
         logOf[j] = l, DeadEnd(j), status'[l] = "DLQ"
  PROVE  logOf'[j] = l /\ DeadEnd(j)'
<1> USE DEF Structure, TypeOK
<1>1. logOf'[j] = l
  BY PayloadWriters DEF RetryFind, AddedByItsOwner
<1>2. InLine(j)'
  BY RequestWriters DEF DeadEnd, InLine, RetryFind, RetryReset, RetryAdd, RetryFlag, RetryAborts
<1>3. jobState[j] = "failed"
  BY DEF DeadEnd, DeadLetterExhausted
<1>4. hpc'[j] \in {"save", "done", "aborted"}
  <2>1. ASSUME NEW p \in Proc, FailStalled(p) PROVE hpc'[j] = hpc[j]
    BY <1>3, <2>1 DEF FailStalled, FailedEvent
  <2>2. ASSUME NEW p \in Proc, RetryWithBackoff(p) \/ FailForGood(p) PROVE hpc'[j] = hpc[j]
    <3>1. cur[p] # j
      BY <1>3, <2>2 DEF RetryWithBackoff, FailForGood, HoldsLock, LocksOwned
    <3>. QED BY <2>2, <3>1 DEF RetryWithBackoff, FailForGood, FailedEvent
  <2>3. ASSUME NEW p \in Proc, Crash(p) \/ HandlerRejects(p) PROVE hpc'[j] \in {hpc[j], "aborted"}
    BY <2>3 DEF Crash, HandlerRejects, Die
  <2>4. ASSUME NEW k \in Job, DeadLetterMark(k) \/ DeadLetterSave(k)
        PROVE hpc'[j] \in {"save", "done", "aborted"}
    BY <2>4 DEF DeadLetterMark, DeadLetterSave, DeadEnd
  <2>. QED BY <2>1, <2>2, <2>3, <2>4, ListenerWriters DEF DeadEnd
<1>5. ASSUME NEW a \in Retry, rec'[a] = j
      PROVE apc'[a] \in {"reset", "aborted"} /\ jobState'[a] = "absent"
  <2>1. ASSUME NEW b \in Retry, RetryFind(b)
        PROVE apc'[a] \in {"reset", "aborted"} /\ jobState'[a] = "absent"
    BY <1>5, <2>1 DEF RetryFind, DeadEnd, AddedByItsOwner
  <2>2. ASSUME NEW b \in Retry, RetryReset(b)
        PROVE apc'[a] \in {"reset", "aborted"} /\ jobState'[a] = "absent"
    <3>1. b # a
      BY <1>5, <2>2 DEF RetryReset, AddedByItsOwner
    <3>. QED BY <1>5, <2>2, <3>1 DEF RetryReset, DeadEnd
  <2>3. ASSUME NEW b \in Retry, RetryAdd(b) \/ RetryFlag(b) \/ RetryAborts(b)
        PROVE apc'[a] \in {"reset", "aborted"} /\ jobState'[a] = "absent"
    BY <1>5, <2>3 DEF RetryAdd, RetryFlag, RetryAborts, DeadEnd
  <2>4. CASE UNCHANGED <<apc, rec>>
    <3>1. rec[a] = j /\ apc'[a] \in {"reset", "aborted"} /\ jobState[a] = "absent"
      BY <1>5, <2>4 DEF DeadEnd
    <3>2. jobState'[a] = "absent"
      BY <2>4, <3>1, JobWriters DEF EnqueueJob, Fetch, FailStalled, Complete, RetryWithBackoff,
         FailForGood, HoldsLock, LocksOwned, Promote, RecoverStalled, RetryAdd
    <3>. QED BY <3>1, <3>2
  <2>. QED BY <2>1, <2>2, <2>3, <2>4, RequestWriters
<1>. QED BY <1>1, <1>2, <1>4, <1>5 DEF DeadEnd

\* Every step keeps a dead job at the end of a DLQ row's line.
LEMMA DeadAtTheEndNext ==
  ASSUME Structure, DeadAtTheEnd, Next \/ UNCHANGED vars PROVE DeadAtTheEnd'
<1>1. SUFFICES ASSUME NEW l \in Log, status'[l] = "DLQ", ~Overran(l)', ~RetriedTwice(l)'
               PROVE \E j \in Job : logOf'[j] = l /\ DeadEnd(j)'
  BY DEF DeadAtTheEnd
<1>2. ~Overran(l) /\ ~RetriedTwice(l)
  BY <1>1, OverranStays, ExceptionsStay
<1>3. CASE status[l] = "DLQ"
  BY <1>1, <1>2, <1>3, DeadEndStays DEF DeadAtTheEnd
<1>4. CASE status[l] # "DLQ"
  BY <1>1, <1>4, DlqComesFromTheEnd
<1>. QED BY <1>3, <1>4

-----------------------------------------------------------------------------
(* Nothing is lost: each thing that pursues a row hands it to the next.    *)

\* A record flagged as retried was retried by a request that finished.
RetriedByRequest ==
  \A r \in Job : dlq[r] = "retried" => \E a \in Retry : rec[a] = r /\ apc[a] = "done"

\* Only RetryFlag flags a record, and the request that did stays finished.
LEMMA RetriedByRequestNext ==
  ASSUME Structure, RetriedByRequest, Next \/ UNCHANGED vars PROVE RetriedByRequest'
<1> USE DEF Structure, TypeOK, AddedByItsOwner, RetriedByRequest
<1>1. ASSUME NEW r \in Job, dlq'[r] = "retried", dlq[r] # "retried"
      PROVE \E a \in Retry : rec'[a] = r /\ apc'[a] = "done"
  BY <1>1, RecordWriters DEF DeadLetterSave, RetryFlag
<1>2. \A a \in Retry : apc[a] = "done" => apc'[a] = "done" /\ rec'[a] = rec[a]
  BY RequestWriters DEF RetryFind, RetryReset, RetryAdd, RetryFlag, RetryAborts
<1>. QED BY <1>1, <1>2

\* A row that is stranded stays so: each way of losing it is permanent.
LEMMA StrandedStays ==
  ASSUME Structure, Next \/ UNCHANGED vars, NEW l \in Log, Stranded(l) PROVE Stranded(l)'
<1> USE DEF Structure, TypeOK, AddedByItsOwner, AttemptsBounded, DeadLetterExhausted
<1>1. producer[l] = "failed" => producer'[l] = "failed"
  BY ProducerWriters DEF PersistLog, EnqueueJob, ProducerFails
<1>2. \A j \in Job : logOf[j] # None => logOf'[j] = logOf[j]
  BY PayloadWriters DEF RetryFind
<1>3. overrun \subseteq overrun'
  BY OverrunWriters DEF LoseLock
<1>4. \A j \in Job : hpc[j] = "aborted" => hpc'[j] = "aborted"
  <2>1. ASSUME NEW p \in Proc, FailStalled(p) \/ RetryWithBackoff(p) \/ FailForGood(p)
        PROVE  \A j \in Job : hpc[j] = "aborted" => hpc'[j] = "aborted"
    <3>1. \A j \in Job : hpc[j] = "aborted" => jobState[j] = "failed"
      OBVIOUS
    <3>2. CASE FailStalled(p)
      BY <3>1, <3>2 DEF FailStalled, FailedEvent
    <3>3. CASE RetryWithBackoff(p) \/ FailForGood(p)
      <4>1. cur[p] \in Job /\ jobState[cur[p]] = "active"
        BY <3>3 DEF RetryWithBackoff, FailForGood, HoldsLock, LocksOwned
      <4>2. FailedEvent(p, cur[p], attempt[p])
        BY <3>3 DEF RetryWithBackoff, FailForGood
      <4>. QED BY <3>1, <4>1, <4>2 DEF FailedEvent
    <3>. QED BY <2>1, <3>2, <3>3
  <2>2. ASSUME NEW p \in Proc, Crash(p) \/ HandlerRejects(p)
        PROVE  \A j \in Job : hpc[j] = "aborted" => hpc'[j] = "aborted"
    BY <2>2 DEF Crash, HandlerRejects, Die
  <2>3. ASSUME NEW k \in Job, DeadLetterMark(k) \/ DeadLetterSave(k)
        PROVE  \A j \in Job : hpc[j] = "aborted" => hpc'[j] = "aborted"
    BY <2>3 DEF DeadLetterMark, DeadLetterSave
  <2>. QED BY <2>1, <2>2, <2>3, ListenerWriters
<1>5. \A j \in Job : jobState[j] = "failed" => jobState'[j] = "failed" /\ attemptsMade'[j] = attemptsMade[j]
  <2>1. ASSUME NEW p \in Proc, Complete(p) \/ RetryWithBackoff(p) \/ FailForGood(p)
        PROVE  \A j \in Job : jobState[j] = "failed" =>
                 jobState'[j] = "failed" /\ attemptsMade'[j] = attemptsMade[j]
    <3>1. cur[p] \in Job /\ jobState[cur[p]] = "active"
      BY <2>1 DEF Complete, RetryWithBackoff, FailForGood, HoldsLock, LocksOwned
    <3>. QED BY <2>1, <3>1 DEF Complete, RetryWithBackoff, FailForGood
  <2>2. ASSUME NEW p \in Proc, Fetch(p) \/ FailStalled(p)
        PROVE  \A j \in Job : jobState[j] = "failed" =>
                 jobState'[j] = "failed" /\ attemptsMade'[j] = attemptsMade[j]
    BY <2>2 DEF Fetch, FailStalled
  <2>. QED BY <2>1, <2>2, JobWriters DEF EnqueueJob, Promote, RecoverStalled, RetryAdd
<1>6. \A a \in Retry :
        /\ apc[a] = "aborted" => apc'[a] = "aborted"
        /\ apc[a] \in {"flag", "done", "aborted"} => apc'[a] \in {"flag", "done", "aborted"}
        /\ apc[a] # "idle" => rec'[a] = rec[a]
  BY RequestWriters DEF RetryFind, RetryReset, RetryAdd, RetryFlag, RetryAborts
<1>. QED BY <1>1, <1>2, <1>3, <1>4, <1>5, <1>6 DEF Stranded, JobsOf

\* What can pursue a row, each by name.
Handled(j) == hpc[j] \in {"mark", "save"}
Listed(j) == dlq[j] = "pending" /\ ~\E a \in Retry : rec[a] = j /\ apc[a] = "flag"

\* A job at work stays at work until its row says SENT or its listener runs.
LEMMA WorkGoesOn ==
  ASSUME Structure, Next \/ UNCHANGED vars, NEW m \in Log, NEW k \in Job,
         logOf[k] = m, AtWork(k), ~Stranded(m)', status'[m] # "SENT"
  PROVE  logOf'[k] = m /\ (AtWork(k)' \/ Handled(k)')
<1> USE DEF Structure, TypeOK, AttemptsBounded, LocksOwned, SlotsBusy, AddedByItsOwner,
            AbsentClean, DeadLetterExhausted, AtWork, Live, Handled, Stranded, JobsOf
<1>1. ASSUME NEW l \in Log, PersistLog(l) PROVE logOf'[k] = m /\ (AtWork(k)' \/ Handled(k)')
  BY <1>1 DEF PersistLog
<1>2. ASSUME NEW l \in Log, EnqueueJob(l) PROVE logOf'[k] = m /\ (AtWork(k)' \/ Handled(k)')
  BY <1>2 DEF EnqueueJob
<1>3. ASSUME NEW l \in Log, ProducerFails(l) PROVE logOf'[k] = m /\ (AtWork(k)' \/ Handled(k)')
  BY <1>3 DEF ProducerFails
<1>4. ASSUME NEW p \in Proc, Fetch(p) PROVE logOf'[k] = m /\ (AtWork(k)' \/ Handled(k)')
  BY <1>4 DEF Fetch, Goto
<1>5. ASSUME NEW p \in Proc, FailStalled(p) PROVE logOf'[k] = m /\ (AtWork(k)' \/ Handled(k)')
  BY <1>5 DEF FailStalled, FailedEvent, Exhausted
<1>6. ASSUME NEW p \in Proc, BeginAttempt(p) PROVE logOf'[k] = m /\ (AtWork(k)' \/ Handled(k)')
  BY <1>6 DEF BeginAttempt, Goto
<1>7. ASSUME NEW p \in Proc,
BeginAttemptFails(p) PROVE logOf'[k] = m /\ (AtWork(k)' \/ Handled(k)')
  BY <1>7 DEF BeginAttemptFails, Goto
<1>8. ASSUME NEW p \in Proc,
ProviderAccepts(p) PROVE logOf'[k] = m /\ (AtWork(k)' \/ Handled(k)')
  BY <1>8 DEF ProviderAccepts, Goto, CountAcceptance
<1>9. ASSUME NEW p \in Proc,
ProviderRejects(p) PROVE logOf'[k] = m /\ (AtWork(k)' \/ Handled(k)')
  BY <1>9 DEF ProviderRejects, NextProvider, Goto
<1>10. ASSUME NEW p \in Proc, ReplyLost(p) PROVE logOf'[k] = m /\ (AtWork(k)' \/ Handled(k)')
  BY <1>10 DEF ReplyLost, NextProvider, Goto, CountAcceptance
<1>11. ASSUME NEW p \in Proc, RecordSent(p) PROVE logOf'[k] = m /\ (AtWork(k)' \/ Handled(k)')
  BY <1>11 DEF RecordSent, Goto
<1>12. ASSUME NEW p \in Proc,
RecordSentFails(p) PROVE logOf'[k] = m /\ (AtWork(k)' \/ Handled(k)')
  BY <1>12 DEF RecordSentFails, NextProvider, Goto
<1>13. ASSUME NEW p \in Proc, RecordFailed(p) PROVE logOf'[k] = m /\ (AtWork(k)' \/ Handled(k)')
  BY <1>13 DEF RecordFailed, Goto
<1>14. ASSUME NEW p \in Proc,
RecordFailedFails(p) PROVE logOf'[k] = m /\ (AtWork(k)' \/ Handled(k)')
  BY <1>14 DEF RecordFailedFails, Goto
<1>15. ASSUME NEW p \in Proc, Complete(p) PROVE logOf'[k] = m /\ (AtWork(k)' \/ Handled(k)')
  BY <1>15 DEF Complete, HoldsLock, Release
<1>16. ASSUME NEW p \in Proc,
RetryWithBackoff(p) PROVE logOf'[k] = m /\ (AtWork(k)' \/ Handled(k)')
  BY <1>16 DEF RetryWithBackoff, HoldsLock, Release, RetriesLeft, FailedEvent, Exhausted
<1>17. ASSUME NEW p \in Proc, FailForGood(p) PROVE logOf'[k] = m /\ (AtWork(k)' \/ Handled(k)')
  BY <1>17 DEF FailForGood, HoldsLock, Release, RetriesLeft, FailedEvent, Exhausted
<1>18. ASSUME NEW p \in Proc,
ReportRefused(p) PROVE logOf'[k] = m /\ (AtWork(k)' \/ Handled(k)')
  BY <1>18 DEF ReportRefused, HoldsLock, Release
<1>19. ASSUME NEW p \in Proc, LoseLock(p) PROVE logOf'[k] = m /\ (AtWork(k)' \/ Handled(k)')
  BY <1>19 DEF LoseLock, HoldsLock
<1>20. ASSUME NEW p \in Proc, Crash(p) PROVE logOf'[k] = m /\ (AtWork(k)' \/ Handled(k)')
  BY <1>20 DEF Crash, Die, Release
<1>21. ASSUME NEW p \in Proc,
HandlerRejects(p) PROVE logOf'[k] = m /\ (AtWork(k)' \/ Handled(k)')
  BY <1>21 DEF HandlerRejects, Die, Release
<1>22. ASSUME NEW j \in Job, Promote(j) PROVE logOf'[k] = m /\ (AtWork(k)' \/ Handled(k)')
  BY <1>22 DEF Promote
<1>23. ASSUME NEW j \in Job,
RecoverStalled(j) PROVE logOf'[k] = m /\ (AtWork(k)' \/ Handled(k)')
  BY <1>23 DEF RecoverStalled
<1>24. ASSUME NEW j \in Job,
DeadLetterMark(j) PROVE logOf'[k] = m /\ (AtWork(k)' \/ Handled(k)')
  BY <1>24 DEF DeadLetterMark
<1>25. ASSUME NEW j \in Job,
DeadLetterSave(j) PROVE logOf'[k] = m /\ (AtWork(k)' \/ Handled(k)')
  BY <1>25 DEF DeadLetterSave
<1>26. ASSUME NEW a \in Retry, RetryFind(a) PROVE logOf'[k] = m /\ (AtWork(k)' \/ Handled(k)')
  BY <1>26 DEF RetryFind
<1>27. ASSUME NEW a \in Retry, RetryReset(a) PROVE logOf'[k] = m /\ (AtWork(k)' \/ Handled(k)')
  BY <1>27 DEF RetryReset
<1>28. ASSUME NEW a \in Retry, RetryAdd(a) PROVE logOf'[k] = m /\ (AtWork(k)' \/ Handled(k)')
  BY <1>28 DEF RetryAdd
<1>29. ASSUME NEW a \in Retry, RetryFlag(a) PROVE logOf'[k] = m /\ (AtWork(k)' \/ Handled(k)')
  BY <1>29 DEF RetryFlag
<1>30. ASSUME NEW a \in Retry, RetryAborts(a) PROVE logOf'[k] = m /\ (AtWork(k)' \/ Handled(k)')
  BY <1>30 DEF RetryAborts
<1>31. CASE UNCHANGED vars
  BY <1>31 DEF vars
<1>. QED
  BY <1>1, <1>2, <1>3, <1>4, <1>5, <1>6, <1>7, <1>8, <1>9, <1>10, <1>11, <1>12, <1>13, <1>14,
     <1>15, <1>16, <1>17, <1>18, <1>19, <1>20, <1>21, <1>22, <1>23, <1>24, <1>25, <1>26,
     <1>27, <1>28, <1>29, <1>30, <1>31
  DEF Next, Produce, Work, Process, Finish, DeadLetter, RetryRequest, Rest

\* A listener at work goes on until its record is listed.
LEMMA ListenerGoesOn ==
  ASSUME Structure, Next \/ UNCHANGED vars, NEW m \in Log, NEW k \in Job,
         logOf[k] = m, Handled(k), ~Stranded(m)'
  PROVE  logOf'[k] = m /\ (Handled(k)' \/ Listed(k)')
<1> USE DEF Structure, TypeOK, AttemptsBounded, LocksOwned, AddedByItsOwner, RecordsSavedOnce,
            DeadLetterExhausted
<1>1. logOf'[k] = m
  BY PayloadWriters DEF Handled, RetryFind
<1>2. hpc'[k] # "aborted"
  BY <1>1 DEF Stranded, JobsOf
<1>3. Handled(k)' \/ (hpc[k] = "save" /\ dlq'[k] = "pending" /\ rec' = rec)
  <2>1. CASE UNCHANGED hpc
    BY <2>1 DEF Handled
  <2>2. ASSUME NEW p \in Proc, FailStalled(p) \/ RetryWithBackoff(p) \/ FailForGood(p)
        PROVE  Handled(k)'
    BY <2>2 DEF Handled, FailStalled, RetryWithBackoff, FailForGood, FailedEvent
  <2>3. ASSUME NEW p \in Proc, Crash(p) \/ HandlerRejects(p) PROVE Handled(k)'
    BY <1>2, <2>3 DEF Handled, Crash, HandlerRejects, Die
  <2>4. ASSUME NEW j \in Job, DeadLetterMark(j) PROVE Handled(k)'
    BY <2>4 DEF Handled, DeadLetterMark
  <2>5. ASSUME NEW j \in Job, DeadLetterSave(j)
        PROVE  Handled(k)' \/ (hpc[k] = "save" /\ dlq'[k] = "pending" /\ rec' = rec)
    BY <2>5 DEF Handled, DeadLetterSave
  <2>. QED BY <2>1, <2>2, <2>3, <2>4, <2>5, ListenerWriters
<1>4. \A a \in Retry : rec[a] # k
  BY DEF Handled
<1>. QED BY <1>1, <1>3, <1>4 DEF Listed

\* A listed record stays listed until a request has requeued its job.
LEMMA ListingGoesOn ==
  ASSUME Structure, Next \/ UNCHANGED vars, NEW m \in Log, NEW k \in Job,
         logOf[k] = m, Listed(k)
  PROVE  /\ logOf'[k] = m
         /\ Listed(k)' \/ \E a \in Retry : logOf'[a] = m /\ AtWork(a)'
<1> USE DEF Structure, TypeOK, AddedByItsOwner
<1>1. logOf'[k] = m
  BY PayloadWriters DEF Listed, RetryFind
<1>2. ASSUME NEW a \in Retry, RetryAdd(a), rec[a] = k PROVE logOf'[a] = m /\ AtWork(a)'
  BY <1>2 DEF RetryAdd, AtWork, Live, AbsentClean
<1>3. dlq'[k] = "pending"
  BY RecordWriters DEF Listed, DeadLetterSave, RetryFlag, RecordsSavedOnce
<1>4. ASSUME NEW a \in Retry, rec'[a] = k, apc'[a] = "flag", ~RetryAdd(a)
      PROVE  rec[a] = k /\ apc[a] = "flag"
  BY <1>4, RequestWriters DEF RetryFind, RetryReset, RetryAdd, RetryFlag, RetryAborts
<1>5. ASSUME NEW a \in Retry, RetryAdd(a), rec'[a] = k PROVE rec[a] = k
  BY <1>5 DEF RetryAdd
<1>. QED BY <1>1, <1>2, <1>3, <1>4, <1>5 DEF Listed

\* A request that has reset the row adds the job, or leaves its record listed.
LEMMA RequestGoesOn ==
  ASSUME Structure, RetriedByRequest, Next \/ UNCHANGED vars, NEW m \in Log, NEW b \in Retry,
         logOf[b] = m, apc[b] = "add", ~Stranded(m)'
  PROVE  \/ logOf'[b] = m /\ (apc'[b] = "add" \/ AtWork(b)')
         \/ \E r \in Job : logOf'[r] = m /\ Listed(r)'
<1> USE DEF Structure, TypeOK, AddedByItsOwner
<1>1. logOf'[b] = m /\ rec'[b] = rec[b]
  BY RequestWriters, PayloadWriters DEF RetryFind, RetryReset, RetryAdd, RetryFlag,
     RetryAborts
<1>2. apc'[b] = "add" \/ RetryAdd(b) \/ RetryAborts(b)
  BY RequestWriters DEF RetryFind, RetryReset, RetryAdd, RetryFlag, RetryAborts
<1>3. ASSUME RetryAdd(b) PROVE AtWork(b)'
  BY <1>3 DEF RetryAdd, AtWork, Live, AbsentClean
<1>4. ASSUME RetryAborts(b) PROVE \E r \in Job : logOf'[r] = m /\ Listed(r)'
  <2>1. /\ apc' = [apc EXCEPT ![b] = "aborted"]
        /\ rec' = rec /\ dlq' = dlq /\ logOf' = logOf
    BY <1>4 DEF RetryAborts
  <2>2. ASSUME NEW c \in Retry, c # b, rec[c] = rec[b], apc[c] \in {"flag", "done"} PROVE FALSE
    BY <2>1, <2>2 DEF Stranded
  <2>3. dlq[rec[b]] = "pending"
    BY <2>2 DEF RetriedByRequest
  <2>. QED BY <2>1, <2>2, <2>3 DEF Listed
<1>. QED BY <1>1, <1>2, <1>3, <1>4

\* A producer that has saved its row adds the job, unless it fails.
LEMMA ProducerGoesOn ==
  ASSUME Structure, Next \/ UNCHANGED vars, NEW m \in Log, producer[m] = "saved", ~Stranded(m)'
  PROVE  producer'[m] = "saved" \/ (logOf'[m] = m /\ AtWork(m)')
<1> USE DEF Structure, TypeOK, AddedByItsOwner
<1>1. producer'[m] = "saved" \/ EnqueueJob(m) \/ ProducerFails(m)
  BY ProducerWriters DEF PersistLog, EnqueueJob, ProducerFails
<1>2. ASSUME EnqueueJob(m) PROVE logOf'[m] = m /\ AtWork(m)'
  BY <1>2 DEF EnqueueJob, AtWork, Live, AbsentClean
<1>3. ~ProducerFails(m)
  BY DEF ProducerFails, Stranded
<1>. QED BY <1>1, <1>2, <1>3

\* Whoever takes the row out of SENT, or creates it, pursues it.
LEMMA WritersPursue ==
  ASSUME Structure, Next \/ UNCHANGED vars, NEW m \in Log,
         status[m] \in {"none", "SENT"}, status'[m] \notin {"none", "SENT"}, ~Stranded(m)'
  PROVE  Pursued(m)'
<1> USE DEF Structure, TypeOK, AddedByItsOwner
<1>1. \/ PersistLog(m)
      \/ \E p \in Proc : cur[p] # None /\ logOf[cur[p]] = m /\ (BeginAttempt(p) \/ RecordFailed(p))
      \/ \E j \in Job : logOf[j] = m /\ DeadLetterMark(j)
      \/ \E a \in Retry : logOf[a] = m /\ RetryReset(a)
  BY StatusWriters DEF PersistLog, BeginAttempt, RecordSent, RecordFailed, DeadLetterMark,
     RetryReset, SlotsBusy
<1>2. CASE PersistLog(m)
  BY <1>2 DEF PersistLog, Pursued
<1>3. ASSUME NEW p \in Proc, cur[p] # None, logOf[cur[p]] = m,
                     BeginAttempt(p) \/ RecordFailed(p)
      PROVE  Pursued(m)'
  <2>1. /\ UNCHANGED <<jobState, lock, cur, overrun, logOf>>
        /\ cur[p] \in Job
        /\ pc'[p] # "complete"
    <3>1. CASE BeginAttempt(p)
      BY <1>3, <3>1 DEF BeginAttempt, Goto
    <3>2. CASE RecordFailed(p)
      BY <1>3, <3>2 DEF RecordFailed, Goto
    <3>. QED BY <1>3, <3>1, <3>2
  <2>2. cur[p] \notin overrun
    BY <1>3, <2>1 DEF Stranded, JobsOf
  <2>3. lock[cur[p]] = p /\ jobState[cur[p]] = "active"
    BY <1>3, <2>1, <2>2 DEF SlotsBusy, LocksOwned
  <2>4. \A q \in Proc : cur[q] = cur[p] => q = p
    BY <1>3, <2>2 DEF OneSlotPerJob
  <2>. QED BY <1>3, <2>1, <2>3, <2>4 DEF Pursued, AtWork, Live, JobsOf
<1>4. ASSUME NEW j \in Job, logOf[j] = m, DeadLetterMark(j) PROVE Pursued(m)'
  BY <1>4 DEF DeadLetterMark, Pursued, JobsOf
<1>5. ASSUME NEW a \in Retry, logOf[a] = m, RetryReset(a) PROVE Pursued(m)'
  BY <1>5 DEF RetryReset, Pursued
<1>. QED BY <1>1, <1>2, <1>3, <1>4, <1>5

\* Every step preserves NothingLost: a row's pursuer is followed by another.
LEMMA NothingLostNext ==
  ASSUME Structure, RetriedByRequest, NothingLost, Next \/ UNCHANGED vars PROVE NothingLost'
<1>1. SUFFICES ASSUME NEW l \in Log, status'[l] \notin {"none", "SENT"}, ~Stranded(l)'
               PROVE  Pursued(l)'
  BY DEF NothingLost
<1>2. CASE status[l] \in {"none", "SENT"}
  BY <1>1, <1>2, WritersPursue
<1>3. CASE status[l] \notin {"none", "SENT"}
  <2>1. Pursued(l)
    BY <1>1, <1>3, StrandedStays DEF NothingLost
  <2>2. CASE producer[l] = "saved"
    BY <1>1, <2>2, ProducerGoesOn DEF Pursued, JobsOf
  <2>3. ASSUME NEW j \in Job, logOf[j] = l, AtWork(j) PROVE Pursued(l)'
    BY <1>1, <2>3, WorkGoesOn DEF Pursued, JobsOf, Handled
  <2>4. ASSUME NEW j \in Job, logOf[j] = l, Handled(j) PROVE Pursued(l)'
    BY <1>1, <2>4, ListenerGoesOn DEF Pursued, JobsOf, Handled, Listed
  <2>5. ASSUME NEW j \in Job, logOf[j] = l, Listed(j) PROVE Pursued(l)'
    BY <1>1, <2>5, ListingGoesOn DEF Pursued, JobsOf, Listed
  <2>6. ASSUME NEW a \in Retry, logOf[a] = l, apc[a] = "add" PROVE Pursued(l)'
    <3>1. \/ logOf'[a] = l /\ (apc'[a] = "add" \/ AtWork(a)')
          \/ \E r \in Job : logOf'[r] = l /\ Listed(r)'
      BY <1>1, <2>6, RequestGoesOn
    <3>. QED BY <3>1 DEF Pursued, JobsOf, Listed
  <2>. QED BY <2>1, <2>2, <2>3, <2>4, <2>5, <2>6 DEF Pursued, JobsOf, Handled, Listed
<1>. QED BY <1>2, <1>3

-----------------------------------------------------------------------------
(* A row that is neither sent nor dead-lettered has somebody at work on it. *)

InHand(l) ==
  \/ producer[l] = "saved"
  \/ \E j \in JobsOf(l) : AtWork(j) \/ hpc[j] = "mark"
  \/ \E a \in Retry : logOf[a] = l /\ apc[a] = "add"

LeftBehind(l) == Stranded(l) \/ \E a \in Retry : logOf[a] = l /\ apc[a] = "aborted"

OpenRowsInHand ==
  \A l \in Log : status[l] \in {"PENDING", "FAILED"} => InHand(l) \/ LeftBehind(l)

\* Whoever makes a row PENDING or FAILED has it in hand.
LEMMA WritersTakeInHand ==
  ASSUME Structure, Next \/ UNCHANGED vars, NEW m \in Log, status'[m] # status[m],
         status'[m] \in {"PENDING", "FAILED"}, ~Stranded(m)'
  PROVE  InHand(m)'
<1> USE DEF Structure, TypeOK, AddedByItsOwner
<1>1. \/ PersistLog(m)
      \/ \E p \in Proc : cur[p] # None /\ logOf[cur[p]] = m /\ (BeginAttempt(p) \/ RecordFailed(p))
      \/ \E a \in Retry : logOf[a] = m /\ RetryReset(a)
  BY StatusWriters DEF PersistLog, BeginAttempt, RecordSent, RecordFailed, DeadLetterMark,
     RetryReset, SlotsBusy
<1>2. CASE PersistLog(m)
  BY <1>2 DEF PersistLog, InHand
<1>3. ASSUME NEW p \in Proc, cur[p] # None, logOf[cur[p]] = m,
                     BeginAttempt(p) \/ RecordFailed(p)
      PROVE  InHand(m)'
  <2>1. /\ UNCHANGED <<jobState, lock, cur, overrun, logOf>>
        /\ cur[p] \in Job
        /\ pc'[p] # "complete"
    <3>1. CASE BeginAttempt(p)
      BY <1>3, <3>1 DEF BeginAttempt, Goto
    <3>2. CASE RecordFailed(p)
      BY <1>3, <3>2 DEF RecordFailed, Goto
    <3>. QED BY <1>3, <3>1, <3>2
  <2>2. cur[p] \notin overrun
    BY <1>3, <2>1 DEF Stranded, JobsOf
  <2>3. lock[cur[p]] = p /\ jobState[cur[p]] = "active"
    BY <1>3, <2>1, <2>2 DEF SlotsBusy, LocksOwned
  <2>4. \A q \in Proc : cur[q] = cur[p] => q = p
    BY <1>3, <2>2 DEF OneSlotPerJob
  <2>. QED BY <1>3, <2>1, <2>3, <2>4 DEF InHand, AtWork, Live, JobsOf
<1>4. ASSUME NEW a \in Retry, logOf[a] = m, RetryReset(a) PROVE InHand(m)'
  BY <1>4 DEF RetryReset, InHand
<1>. QED BY <1>1, <1>2, <1>3, <1>4

\* A job at work that stops before its row says SENT hands it to a listener that
\* has not written DLQ yet.
LEMMA WorkEndsInMark ==
  ASSUME Structure, Next \/ UNCHANGED vars, NEW m \in Log, NEW k \in Job,
         logOf[k] = m, AtWork(k), ~Stranded(m)', status'[m] # "SENT"
  PROVE  logOf'[k] = m /\ (AtWork(k)' \/ hpc'[k] = "mark")
<1> USE DEF Structure, TypeOK, DeadLetterExhausted
<1>1. logOf'[k] = m /\ (AtWork(k)' \/ Handled(k)')
  BY WorkGoesOn
<1>2. hpc[k] = "none"
  BY DEF AtWork, Live
<1>3. hpc'[k] # "save"
  <2>1. ASSUME NEW p \in Proc, NEW i \in Job, NEW made, FailedEvent(p, i, made)
        PROVE  hpc'[k] # "save"
    BY <1>2, <2>1 DEF FailedEvent
  <2>2. ASSUME NEW p \in Proc, RetryWithBackoff(p) \/ FailForGood(p) PROVE hpc'[k] # "save"
    <3>1. cur[p] \in Job /\ FailedEvent(p, cur[p], attempt[p])
      BY <2>2 DEF RetryWithBackoff, FailForGood, HoldsLock
    <3>. QED BY <2>1, <3>1
  <2>3. ASSUME NEW p \in Proc, FailStalled(p) PROVE hpc'[k] # "save"
    BY <2>1, <2>3 DEF FailStalled
  <2>4. ASSUME NEW p \in Proc, Crash(p) \/ HandlerRejects(p) PROVE hpc'[k] # "save"
    BY <1>2, <2>4 DEF Crash, HandlerRejects, Die
  <2>5. ASSUME NEW j \in Job, DeadLetterMark(j) \/ DeadLetterSave(j) PROVE hpc'[k] # "save"
    BY <1>2, <2>5 DEF DeadLetterMark, DeadLetterSave
  <2>. QED BY <1>2, <2>2, <2>3, <2>4, <2>5, ListenerWriters
<1>. QED BY <1>1, <1>3 DEF Handled

\* Every step preserves OpenRowsInHand: an open row passes from hand to hand until
\* it says SENT or DLQ.
LEMMA OpenRowsInHandNext ==
  ASSUME Structure, OpenRowsInHand, Next \/ UNCHANGED vars PROVE OpenRowsInHand'
<1> USE DEF Structure, TypeOK, AddedByItsOwner
<1>1. SUFFICES ASSUME NEW l \in Log, status'[l] \in {"PENDING", "FAILED"}, ~LeftBehind(l)'
               PROVE  InHand(l)'
  BY DEF OpenRowsInHand
<1>2. ~Stranded(l)' /\ ~Stranded(l)
  BY <1>1, StrandedStays DEF LeftBehind
<1>3. \A a \in Retry : logOf[a] = l => apc[a] # "aborted" /\ ~RetryAborts(a)
  <2>1. \A a \in Retry : logOf[a] = l => logOf'[a] = l
    BY PayloadWriters DEF RetryFind
  <2>2. \A a \in Retry : apc[a] = "aborted" => apc'[a] = "aborted"
    BY RequestWriters DEF RetryFind, RetryReset, RetryAdd, RetryFlag, RetryAborts
  <2>. QED BY <1>1, <2>1, <2>2 DEF LeftBehind, RetryAborts
<1>4. CASE status'[l] # status[l]
  BY <1>1, <1>2, <1>4, WritersTakeInHand
<1>5. CASE status'[l] = status[l]
  <2>1. InHand(l)
    BY <1>1, <1>2, <1>3, <1>5 DEF OpenRowsInHand, LeftBehind
  <2>2. CASE producer[l] = "saved"
    BY <1>2, <2>2, ProducerGoesOn DEF InHand, JobsOf
  <2>3. ASSUME NEW j \in Job, logOf[j] = l, AtWork(j) PROVE InHand(l)'
    BY <1>1, <1>2, <2>3, WorkEndsInMark DEF InHand, JobsOf
  <2>4. ASSUME NEW j \in Job, logOf[j] = l, hpc[j] = "mark" PROVE InHand(l)'
    <3>1. logOf'[j] = l /\ (Handled(j)' \/ Listed(j)')
      BY <1>2, <2>4, ListenerGoesOn DEF Handled
    <3>2. ~DeadLetterMark(j)
      BY <1>1, <2>4 DEF DeadLetterMark
    <3>3. hpc'[j] \in {"mark", "aborted"}
      <4>1. ASSUME NEW p \in Proc, NEW i \in Job, NEW made, FailedEvent(p, i, made)
            PROVE  hpc'[j] = "mark"
        BY <2>4, <4>1 DEF FailedEvent
      <4>2. ASSUME NEW p \in Proc, RetryWithBackoff(p) \/ FailForGood(p) PROVE hpc'[j] = "mark"
        <5>1. cur[p] \in Job /\ FailedEvent(p, cur[p], attempt[p])
          BY <4>2 DEF RetryWithBackoff, FailForGood, HoldsLock
        <5>. QED BY <4>1, <5>1
      <4>3. ASSUME NEW p \in Proc, FailStalled(p) PROVE hpc'[j] = "mark"
        BY <4>1, <4>3 DEF FailStalled
      <4>4. ASSUME NEW p \in Proc, Crash(p) \/ HandlerRejects(p)
            PROVE  hpc'[j] \in {"mark", "aborted"}
        BY <2>4, <4>4 DEF Crash, HandlerRejects, Die
      <4>5. ASSUME NEW i \in Job, i # j, DeadLetterMark(i) PROVE hpc'[j] = "mark"
        BY <2>4, <4>5 DEF DeadLetterMark
      <4>6. ASSUME NEW i \in Job, DeadLetterSave(i) PROVE hpc'[j] = "mark"
        BY <2>4, <4>6 DEF DeadLetterSave
      <4>. QED BY <2>4, <3>2, <4>2, <4>3, <4>4, <4>5, <4>6, ListenerWriters
    <3>4. hpc'[j] # "aborted"
      BY <1>2, <3>1 DEF Stranded, JobsOf
    <3>. QED BY <3>1, <3>3, <3>4 DEF InHand, JobsOf
  <2>5. ASSUME NEW a \in Retry, logOf[a] = l, apc[a] = "add" PROVE InHand(l)'
    <3>1. logOf'[a] = l
      BY <2>5, PayloadWriters DEF RetryFind
    <3>2. apc'[a] = "add" \/ RetryAdd(a)
      BY <1>3, <2>5, RequestWriters DEF RetryFind, RetryReset, RetryAdd, RetryFlag, RetryAborts
    <3>3. ASSUME RetryAdd(a) PROVE AtWork(a)'
      BY <3>3 DEF RetryAdd, AtWork, Live, AbsentClean
    <3>. QED BY <3>1, <3>2, <3>3 DEF InHand, JobsOf
  <2>. QED BY <2>1, <2>2, <2>3, <2>4, <2>5 DEF InHand, JobsOf
<1>. QED BY <1>4, <1>5

-----------------------------------------------------------------------------
(* No duplicate without a cause: an accepted job is the last of its line.  *)

Cause(l) == RetriedTwice(l) \/ \E i \in JobsOf(l) : stalled[i] > 0 \/ i \in mishap

Succeeded(j) ==
  \/ jobState[j] = "completed"
  \/ jobState[j] = "active" /\ \A p \in Proc : cur[p] = j => pc[p] \in {"record", "complete"}

AcceptedOnce(j) == accepted[j] = 1 /\ InLine(j) /\ ~Taken(j) /\ Succeeded(j)

AcceptedAtTheEnd ==
  \A j \in Job : accepted[j] > 0 => Cause(logOf[j]) \/ AcceptedOnce(j)

\* A cause of duplicates, once it is there, is there for ever.
LEMMA CauseStays ==
  ASSUME Structure, Next \/ UNCHANGED vars, NEW l \in Log, Cause(l) PROVE Cause(l)'
<1> USE DEF Structure, TypeOK, AddedByItsOwner
<1>1. mishap \subseteq mishap'
  BY MishapWriters DEF ReplyLost, RecordSentFails
<1>2. \A j \in Job : logOf[j] # None => logOf'[j] = logOf[j]
  BY PayloadWriters DEF RetryFind
<1>. QED BY <1>1, <1>2, ExceptionsStay DEF Cause, Redelivered, JobsOf

\* A job accepted once stays accepted once while its row has no such cause.
LEMMA AcceptedOnceStays ==
  ASSUME Structure, Next \/ UNCHANGED vars, NEW k \in Job, logOf[k] \in Log,
         AcceptedOnce(k), ~Cause(logOf[k])'
  PROVE  AcceptedOnce(k)'
<1> USE DEF Structure, TypeOK, LocksOwned, SlotsBusy, AbsentClean, AddedByItsOwner,
            DeadLetterExhausted, Cause, JobsOf, AcceptedOnce, Succeeded, InLine, Taken
<1>1. ASSUME NEW l \in Log, PersistLog(l) PROVE AcceptedOnce(k)'
  BY <1>1 DEF PersistLog
<1>2. ASSUME NEW l \in Log, EnqueueJob(l) PROVE AcceptedOnce(k)'
  BY <1>2 DEF EnqueueJob
<1>3. ASSUME NEW l \in Log, ProducerFails(l) PROVE AcceptedOnce(k)'
  BY <1>3 DEF ProducerFails
<1>4. ASSUME NEW p \in Proc, Fetch(p) PROVE AcceptedOnce(k)'
  BY <1>4 DEF Fetch, Goto
<1>5. ASSUME NEW p \in Proc, FailStalled(p) PROVE AcceptedOnce(k)'
  BY <1>5 DEF FailStalled, FailedEvent, Exhausted
<1>6. ASSUME NEW p \in Proc, BeginAttempt(p) PROVE AcceptedOnce(k)'
  BY <1>6 DEF BeginAttempt, Goto
<1>7. ASSUME NEW p \in Proc, BeginAttemptFails(p) PROVE AcceptedOnce(k)'
  BY <1>7 DEF BeginAttemptFails, Goto
<1>8. ASSUME NEW p \in Proc, ProviderAccepts(p) PROVE AcceptedOnce(k)'
  BY <1>8 DEF ProviderAccepts, Goto, CountAcceptance
<1>9. ASSUME NEW p \in Proc, ProviderRejects(p) PROVE AcceptedOnce(k)'
  BY <1>9 DEF ProviderRejects, NextProvider, Goto
<1>10. ASSUME NEW p \in Proc, ReplyLost(p) PROVE AcceptedOnce(k)'
  BY <1>10 DEF ReplyLost, NextProvider, Goto, CountAcceptance
<1>11. ASSUME NEW p \in Proc, RecordSent(p) PROVE AcceptedOnce(k)'
  BY <1>11 DEF RecordSent, Goto
<1>12. ASSUME NEW p \in Proc, RecordSentFails(p) PROVE AcceptedOnce(k)'
  BY <1>12 DEF RecordSentFails, NextProvider, Goto
<1>13. ASSUME NEW p \in Proc, RecordFailed(p) PROVE AcceptedOnce(k)'
  BY <1>13 DEF RecordFailed, Goto
<1>14. ASSUME NEW p \in Proc, RecordFailedFails(p) PROVE AcceptedOnce(k)'
  BY <1>14 DEF RecordFailedFails, Goto
<1>15. ASSUME NEW p \in Proc, Complete(p) PROVE AcceptedOnce(k)'
  BY <1>15 DEF Complete, HoldsLock, Release
<1>16. ASSUME NEW p \in Proc, RetryWithBackoff(p) PROVE AcceptedOnce(k)'
  <2>0. pc[p] = "throw" /\ HoldsLock(p)
    BY <1>16 DEF RetryWithBackoff
  <2>1. cur[p] \in Job /\ cur[p] # k
    BY <2>0 DEF HoldsLock
  <2>2. /\ jobState'[k] = jobState[k]
        /\ \A q \in Proc : cur'[q] = k => cur[q] = k /\ pc'[q] = pc[q]
        /\ UNCHANGED <<accepted, apc, rec>>
    BY <1>16, <2>1 DEF RetryWithBackoff, Release
  <2>. QED BY <2>2
<1>17. ASSUME NEW p \in Proc, FailForGood(p) PROVE AcceptedOnce(k)'
  <2>0. pc[p] = "throw" /\ HoldsLock(p)
    BY <1>17 DEF FailForGood
  <2>1. cur[p] \in Job /\ cur[p] # k
    BY <2>0 DEF HoldsLock
  <2>2. /\ jobState'[k] = jobState[k]
        /\ \A q \in Proc : cur'[q] = k => cur[q] = k /\ pc'[q] = pc[q]
        /\ UNCHANGED <<accepted, apc, rec>>
    BY <1>17, <2>1 DEF FailForGood, Release
  <2>. QED BY <2>2
<1>18. ASSUME NEW p \in Proc, ReportRefused(p) PROVE AcceptedOnce(k)'
  BY <1>18 DEF ReportRefused, HoldsLock, Release
<1>19. ASSUME NEW p \in Proc, LoseLock(p) PROVE AcceptedOnce(k)'
  BY <1>19 DEF LoseLock, HoldsLock
<1>20. ASSUME NEW p \in Proc, Crash(p) PROVE AcceptedOnce(k)'
  BY <1>20 DEF Crash, Die, Release
<1>21. ASSUME NEW p \in Proc, HandlerRejects(p) PROVE AcceptedOnce(k)'
  BY <1>21 DEF HandlerRejects, Die, Release
<1>22. ASSUME NEW j \in Job, Promote(j) PROVE AcceptedOnce(k)'
  BY <1>22 DEF Promote
<1>23. ASSUME NEW j \in Job, RecoverStalled(j) PROVE AcceptedOnce(k)'
  BY <1>23 DEF RecoverStalled
<1>24. ASSUME NEW j \in Job, DeadLetterMark(j) PROVE AcceptedOnce(k)'
  BY <1>24 DEF DeadLetterMark
<1>25. ASSUME NEW j \in Job, DeadLetterSave(j) PROVE AcceptedOnce(k)'
  BY <1>25 DEF DeadLetterSave
<1>26. ASSUME NEW a \in Retry, RetryFind(a) PROVE AcceptedOnce(k)'
  BY <1>26 DEF RetryFind
<1>27. ASSUME NEW a \in Retry, RetryReset(a) PROVE AcceptedOnce(k)'
  BY <1>27 DEF RetryReset
<1>28. ASSUME NEW a \in Retry, RetryAdd(a) PROVE AcceptedOnce(k)'
  BY <1>28 DEF RetryAdd
<1>29. ASSUME NEW a \in Retry, RetryFlag(a) PROVE AcceptedOnce(k)'
  BY <1>29 DEF RetryFlag
<1>30. ASSUME NEW a \in Retry, RetryAborts(a) PROVE AcceptedOnce(k)'
  BY <1>30 DEF RetryAborts
<1>31. CASE UNCHANGED vars
  BY <1>31 DEF vars
<1>. QED
  BY <1>1, <1>2, <1>3, <1>4, <1>5, <1>6, <1>7, <1>8, <1>9, <1>10, <1>11, <1>12, <1>13, <1>14,
     <1>15, <1>16, <1>17, <1>18, <1>19, <1>20, <1>21, <1>22, <1>23, <1>24, <1>25, <1>26,
     <1>27, <1>28, <1>29, <1>30, <1>31
  DEF Next, Produce, Work, Process, Finish, DeadLetter, RetryRequest, Rest

\* Every step keeps accepted jobs at the end of their line, or has a cause.
LEMMA AcceptedAtTheEndNext ==
  ASSUME Structure, AcceptedAtTheEnd, Next \/ UNCHANGED vars PROVE AcceptedAtTheEnd'
<1> USE DEF Structure, TypeOK, AddedByItsOwner
<1>1. SUFFICES ASSUME NEW j \in Job, accepted'[j] > 0, ~Cause(logOf[j])'
               PROVE  AcceptedOnce(j)'
  BY DEF AcceptedAtTheEnd
<1>2. CASE accepted[j] > 0
  <2>1. logOf[j] \in Log /\ logOf'[j] = logOf[j]
    BY <1>2 DEF AbsentClean, Next, Produce, PersistLog, EnqueueJob, ProducerFails, Work,
       Fetch, FailStalled, Process,
     BeginAttempt, BeginAttemptFails, ProviderAccepts, ProviderRejects, ReplyLost, RecordSent,
     RecordSentFails, RecordFailed, RecordFailedFails, Finish, Complete, RetryWithBackoff,
     FailForGood, ReportRefused, LoseLock, Crash, HandlerRejects, Die, Promote, RecoverStalled,
     DeadLetter, DeadLetterMark, DeadLetterSave, RetryFind, RetryRequest, RetryReset, RetryAdd,
     RetryFlag, RetryAborts, Rest, vars
  <2>2. ~Cause(logOf[j])
    BY <1>1, <2>1, CauseStays
  <2>. QED BY <1>1, <1>2, <2>1, <2>2, AcceptedOnceStays DEF AcceptedAtTheEnd
<1>3. CASE accepted[j] = 0
  <2>1. PICK p \in Proc : cur[p] = j /\ (ProviderAccepts(p) \/ ReplyLost(p))
    <3>1. PICK p \in Proc : ProviderAccepts(p) \/ ReplyLost(p)
      BY <1>1, <1>3, AcceptanceWriters
    <3>2. cur[p] = j
      BY <1>1, <1>3, <3>1 DEF ProviderAccepts, ReplyLost, CountAcceptance
    <3>. QED BY <3>1, <3>2
  <2>2. ~ReplyLost(p)
    BY <1>1, <2>1 DEF ReplyLost, Cause, JobsOf
  <2>3. ProviderAccepts(p) /\ UNCHANGED <<jobState, cur, logOf, rec, apc, dlq, stalled, mishap>>
    BY <2>1, <2>2 DEF ProviderAccepts
  <2>4. stalled[j] = 0 /\ logOf[j] \in Log
    BY <1>1, <2>1, <2>3 DEF Cause, JobsOf, AbsentClean
  <2>5. jobState[j] = "active" /\ \A q \in Proc : cur[q] = j => q = p
    BY <2>1, <2>4 DEF SlotsBusy, OneSlotPerJob
  <2>6. InLine(j)' /\ ~Taken(j)'
    BY <2>3, <2>5 DEF InLine, Taken, DeadLetterExhausted
  <2>7. accepted'[j] = 1 /\ pc'[p] = "record"
    BY <1>3, <2>1, <2>3 DEF ProviderAccepts, CountAcceptance, Goto
  <2>. QED BY <2>3, <2>5, <2>6, <2>7 DEF AcceptedOnce, Succeeded
<1>. QED BY <1>2, <1>3

\* Two accepted jobs would both be the end of the line, so they are one.
LEMMA DuplicateFromAcceptedAtTheEnd ==
  ASSUME Structure, OneEnd, AcceptedAtTheEnd PROVE DuplicateNeedsCause
<1>1. SUFFICES ASSUME NEW j \in Job, NEW k \in Job, accepted[j] > 0, accepted[k] > 0,
                      logOf[j] = logOf[k], ~Cause(logOf[j])
               PROVE  j = k /\ accepted[j] = 1
  BY DEF DuplicateNeedsCause, Cause
<1>2. AcceptedOnce(j) /\ AcceptedOnce(k)
  BY <1>1 DEF AcceptedAtTheEnd
<1>. QED BY <1>1, <1>2 DEF AcceptedOnce, OneEnd, Cause

-----------------------------------------------------------------------------
(* The contract with the API side.                                         *)

\* A producer starts by saving its row, and a job that was added has a row.
RowsFirst ==
  /\ \A l \in Log : producer[l] = "idle" <=> status[l] = "none"
  /\ \A j \in Job : jobState[j] # "absent" => status[logOf[j]] # "none"

\* What every step but those of produce leaves alone: which rows and jobs there are.
Unproduced ==
  /\ \A l \in Log : /\ producer'[l] = "idle" <=> producer[l] = "idle"
                    /\ status'[l] = "none" <=> status[l] = "none"
                    /\ jobState'[l] = "absent" <=> jobState[l] = "absent"
  /\ \A j \in Job : jobState'[j] # "absent" => logOf'[j] \in Log /\ status[logOf'[j]] # "none"

\* Workers, listeners and requests write rows that exist, and requests add jobs
\* of their own for rows that exist.
LEMMA OthersProduceNothing ==
  ASSUME Structure, RowsFirst, Next \/ UNCHANGED vars,
         ~\E l \in Log : PersistLog(l) \/ EnqueueJob(l)
  PROVE  Unproduced
<1>1. \A j \in Job : jobState[j] # "absent" => logOf[j] \in Log /\ status[logOf[j]] # "none"
  BY DEF Structure, TypeOK, RowsFirst, AddedByItsOwner
<1>2. \A p \in Proc : cur[p] # None => cur[p] \in Job /\ jobState[cur[p]] # "absent"
  BY DEF Structure, TypeOK, AbsentClean
<1>3. \A j \in Job : dlq[j] # "none" => jobState[j] # "absent"
  BY DEF Structure, RecordsSavedOnce, DeadLetterExhausted
<1>4. \A a \in Retry : apc[a] # "idle" => logOf[a] \in Log /\ status[logOf[a]] # "none"
  BY <1>1, <1>3 DEF Structure, AddedByItsOwner
<1> USE DEF Structure, TypeOK, AddedByItsOwner, Unproduced
<1>5. ASSUME NEW l \in Log, ProducerFails(l) PROVE Unproduced
  BY <1>1, <1>2, <1>3, <1>4, <1>5 DEF ProducerFails
<1>6. ASSUME NEW p \in Proc, Fetch(p) PROVE Unproduced
  BY <1>1, <1>2, <1>3, <1>4, <1>6 DEF Fetch, Goto
<1>7. ASSUME NEW p \in Proc, FailStalled(p) PROVE Unproduced
  BY <1>1, <1>2, <1>3, <1>4, <1>7 DEF FailStalled
<1>8. ASSUME NEW p \in Proc, BeginAttempt(p) PROVE Unproduced
  BY <1>1, <1>2, <1>3, <1>4, <1>8 DEF BeginAttempt, SlotsBusy
<1>9. ASSUME NEW p \in Proc, BeginAttemptFails(p) PROVE Unproduced
  BY <1>1, <1>2, <1>3, <1>4, <1>9 DEF BeginAttemptFails
<1>10. ASSUME NEW p \in Proc, ProviderAccepts(p) PROVE Unproduced
  BY <1>1, <1>2, <1>3, <1>4, <1>10 DEF ProviderAccepts
<1>11. ASSUME NEW p \in Proc, ProviderRejects(p) PROVE Unproduced
  BY <1>1, <1>2, <1>3, <1>4, <1>11 DEF ProviderRejects
<1>12. ASSUME NEW p \in Proc, ReplyLost(p) PROVE Unproduced
  BY <1>1, <1>2, <1>3, <1>4, <1>12 DEF ReplyLost
<1>13. ASSUME NEW p \in Proc, RecordSent(p) PROVE Unproduced
  BY <1>1, <1>2, <1>3, <1>4, <1>13 DEF RecordSent, SlotsBusy
<1>14. ASSUME NEW p \in Proc, RecordSentFails(p) PROVE Unproduced
  BY <1>1, <1>2, <1>3, <1>4, <1>14 DEF RecordSentFails
<1>15. ASSUME NEW p \in Proc, RecordFailed(p) PROVE Unproduced
  BY <1>1, <1>2, <1>3, <1>4, <1>15 DEF RecordFailed, SlotsBusy
<1>16. ASSUME NEW p \in Proc, RecordFailedFails(p) PROVE Unproduced
  BY <1>1, <1>2, <1>3, <1>4, <1>16 DEF RecordFailedFails
<1>17. ASSUME NEW p \in Proc, Complete(p) PROVE Unproduced
  BY <1>1, <1>2, <1>3, <1>4, <1>17 DEF Complete, HoldsLock
<1>18. ASSUME NEW p \in Proc, RetryWithBackoff(p) PROVE Unproduced
  BY <1>1, <1>2, <1>3, <1>4, <1>18 DEF RetryWithBackoff, HoldsLock
<1>19. ASSUME NEW p \in Proc, FailForGood(p) PROVE Unproduced
  BY <1>1, <1>2, <1>3, <1>4, <1>19 DEF FailForGood, HoldsLock
<1>20. ASSUME NEW p \in Proc, ReportRefused(p) PROVE Unproduced
  BY <1>1, <1>2, <1>3, <1>4, <1>20 DEF ReportRefused
<1>21. ASSUME NEW p \in Proc, LoseLock(p) PROVE Unproduced
  BY <1>1, <1>2, <1>3, <1>4, <1>21 DEF LoseLock
<1>22. ASSUME NEW p \in Proc, Crash(p) PROVE Unproduced
  BY <1>1, <1>2, <1>3, <1>4, <1>22 DEF Crash, Die
<1>23. ASSUME NEW p \in Proc, HandlerRejects(p) PROVE Unproduced
  BY <1>1, <1>2, <1>3, <1>4, <1>23 DEF HandlerRejects, Die
<1>24. ASSUME NEW j \in Job, Promote(j) PROVE Unproduced
  BY <1>1, <1>2, <1>3, <1>4, <1>24 DEF Promote
<1>25. ASSUME NEW j \in Job, RecoverStalled(j) PROVE Unproduced
  BY <1>1, <1>2, <1>3, <1>4, <1>25 DEF RecoverStalled
<1>26. ASSUME NEW j \in Job, DeadLetterMark(j) PROVE Unproduced
  BY <1>1, <1>2, <1>3, <1>4, <1>26 DEF DeadLetterMark, DeadLetterExhausted
<1>27. ASSUME NEW j \in Job, DeadLetterSave(j) PROVE Unproduced
  BY <1>1, <1>2, <1>3, <1>4, <1>27 DEF DeadLetterSave
<1>28. ASSUME NEW a \in Retry, RetryFind(a) PROVE Unproduced
  BY <1>1, <1>2, <1>3, <1>4, <1>28 DEF RetryFind
<1>29. ASSUME NEW a \in Retry, RetryReset(a) PROVE Unproduced
  BY <1>1, <1>2, <1>3, <1>4, <1>29 DEF RetryReset
<1>30. ASSUME NEW a \in Retry, RetryAdd(a) PROVE Unproduced
  BY <1>1, <1>2, <1>3, <1>4, <1>30 DEF RetryAdd
<1>31. ASSUME NEW a \in Retry, RetryFlag(a) PROVE Unproduced
  BY <1>1, <1>2, <1>3, <1>4, <1>31 DEF RetryFlag
<1>32. ASSUME NEW a \in Retry, RetryAborts(a) PROVE Unproduced
  BY <1>1, <1>2, <1>3, <1>4, <1>32 DEF RetryAborts
<1>33. CASE UNCHANGED vars
  BY <1>1, <1>33 DEF vars
<1>. QED
  BY <1>5, <1>6, <1>7, <1>8, <1>9, <1>10, <1>11, <1>12, <1>13, <1>14, <1>15, <1>16, <1>17,
     <1>18, <1>19, <1>20, <1>21, <1>22, <1>23, <1>24, <1>25, <1>26, <1>27, <1>28, <1>29,
     <1>30, <1>31, <1>32, <1>33
  DEF Next, Produce, Work, Process, Finish, DeadLetter, RetryRequest, Rest

\* Every step keeps rows ahead of jobs.
LEMMA RowsFirstNext ==
  ASSUME Structure, RowsFirst, Next \/ UNCHANGED vars
  PROVE  RowsFirst'
<1>1. ASSUME NEW l \in Log, PersistLog(l) PROVE RowsFirst'
  BY <1>1 DEF Structure, TypeOK, RowsFirst, AddedByItsOwner, PersistLog
<1>2. ASSUME NEW l \in Log, EnqueueJob(l) PROVE RowsFirst'
  <2>1. status[l] # "none" /\ logOf[l] = l
    BY <1>2 DEF Structure, RowsFirst, AddedByItsOwner, EnqueueJob
  <2>. QED BY <1>2, <2>1 DEF Structure, TypeOK, RowsFirst, AddedByItsOwner, EnqueueJob
<1>3. ASSUME ~\E l \in Log : PersistLog(l) \/ EnqueueJob(l) PROVE RowsFirst'
  <2>1. Unproduced
    BY <1>3, OthersProduceNothing
  <2>. QED BY <2>1 DEF RowsFirst, Unproduced
<1>. QED BY <1>1, <1>2, <1>3

\* The rows of which some job was accepted.
Delivered == {l \in Log : \E j \in JobsOf(l) : accepted[j] > 0}

\* A slot that sends works for a row that exists.
LEMMA SlotHasRow ==
  ASSUME Structure, RowsFirst, NEW p \in Proc, pc[p] # "idle"
  PROVE  cur[p] \in Job /\ logOf[cur[p]] \in Log /\ status[logOf[cur[p]]] # "none"
<1>1. cur[p] \in Job
  BY DEF Structure, TypeOK, SlotsBusy
<1>2. jobState[cur[p]] # "absent"
  BY <1>1 DEF Structure, AbsentClean
<1>. QED BY <1>1, <1>2 DEF Structure, RowsFirst, AddedByItsOwner

\* A send that reached a provider delivers the slot's row, and no other.
LEMMA SendDelivers ==
  ASSUME Structure, NEW p \in Proc, ProviderAccepts(p) \/ ReplyLost(p)
  PROVE  Delivered' = Delivered \cup {logOf[cur[p]]} /\ UNCHANGED <<status, jobState>>
<1>1. cur[p] \in Job /\ UNCHANGED <<logOf, status, jobState>> /\ CountAcceptance(cur[p])
  BY DEF Structure, TypeOK, SlotsBusy, ProviderAccepts, ReplyLost
<1>2. logOf[cur[p]] \in Log
  BY <1>1 DEF Structure, AbsentClean, AddedByItsOwner
<1>3. accepted'[cur[p]] > 0 /\ \A j \in Job \ {cur[p]} : accepted'[j] = accepted[j]
  BY <1>1 DEF Structure, TypeOK, CountAcceptance
<1>4. \A l \in Log : JobsOf(l)' = JobsOf(l) /\ JobsOf(l) \subseteq Job
  BY <1>1 DEF JobsOf
<1>5. cur[p] \in JobsOf(logOf[cur[p]]) /\ \A l \in Log : cur[p] \in JobsOf(l) => l = logOf[cur[p]]
  BY <1>1 DEF JobsOf
<1>. QED BY <1>1, <1>2, <1>3, <1>4, <1>5 DEF Delivered

\* No other step delivers anything: a job that gets its row was never sent.
LEMMA OthersDeliverNothing ==
  ASSUME Structure, Next \/ UNCHANGED vars, ~\E p \in Proc : ProviderAccepts(p) \/ ReplyLost(p)
  PROVE  Delivered' = Delivered
<1>1. accepted' = accepted
  BY AcceptanceWriters
<1>2. \A j \in Job : accepted[j] > 0 => logOf'[j] = logOf[j]
  <2>1. CASE UNCHANGED logOf
    BY <2>1
  <2>2. ASSUME NEW a \in Retry, RetryFind(a)
        PROVE  \A j \in Job : accepted[j] > 0 => logOf'[j] = logOf[j]
    <3>1. accepted[a] = 0 /\ \A j \in Job \ {a} : logOf'[j] = logOf[j]
      BY <2>2 DEF RetryFind, Structure, TypeOK, AddedByItsOwner, AbsentClean
    <3>. QED BY <3>1
  <2>. QED BY <2>1, <2>2, PayloadWriters
<1>. QED BY <1>1, <1>2 DEF Delivered, JobsOf

\* Every step is a step of the contract or none of its business.
LEMMA HandoffStep ==
  ASSUME Structure, Acceptance, RowsFirst, Next \/ UNCHANGED vars
  PROVE  Contract!Next \/ UNCHANGED Contract!vars
<1> DEFINE Rows == {l \in Log : status[l] # "none"}
           Jobs == {l \in Log : jobState[l] # "absent"}
           Sent == {l \in Log : status[l] = "SENT"}
<1>1. ASSUME NEW l \in Log, PersistLog(l) PROVE Contract!Next
  <2>1. l \notin Rows /\ Rows' = Rows \cup {l} /\ Jobs' = Jobs /\ Sent' = Sent
    BY <1>1 DEF Structure, TypeOK, RowsFirst, PersistLog
  <2>2. Delivered' = Delivered
    BY <1>1 DEF PersistLog, Delivered, JobsOf
  <2>3. Contract!Persist(l)
    BY <2>1, <2>2 DEF Contract!Persist, Delivered
  <2>. QED BY <2>3 DEF Contract!Next
<1>2. ASSUME NEW l \in Log, EnqueueJob(l) PROVE Contract!Next
  <2>1. l \in Rows \ Jobs
    BY <1>2 DEF Structure, RowsFirst, AddedByItsOwner, EnqueueJob
  <2>2. Rows' = Rows /\ Jobs' = Jobs \cup {l} /\ Sent' = Sent
    BY <1>2 DEF Structure, TypeOK, EnqueueJob
  <2>3. Delivered' = Delivered
    BY <1>2 DEF EnqueueJob, Delivered, JobsOf
  <2>4. Contract!Add(l)
    BY <2>1, <2>2, <2>3 DEF Contract!Add, Delivered
  <2>. QED BY <2>4 DEF Contract!Next
<1>3. ASSUME NEW p \in Proc, ProviderAccepts(p) \/ ReplyLost(p) PROVE Contract!Next
  <2>1. PICK l \in Rows : l = logOf[cur[p]]
    BY <1>3, SlotHasRow DEF ProviderAccepts, ReplyLost
  <2>2. Delivered' = Delivered \cup {l} /\ UNCHANGED <<status, jobState>>
    BY <1>3, <2>1, SendDelivers
  <2>3. Contract!Deliver(l)
    BY <2>2 DEF Contract!Deliver, Delivered
  <2>. QED BY <2>3 DEF Contract!Next
<1>4. ASSUME NEW p \in Proc, RecordSent(p) PROVE Contract!Next
  <2>1. PICK l \in Rows : cur[p] \in Job /\ l = logOf[cur[p]]
    BY <1>4, SlotHasRow DEF RecordSent
  <2>2. l \in Delivered
    BY <1>4, <2>1 DEF RecordSent, Acceptance, Delivered, JobsOf
  <2>3. Delivered' = Delivered
    BY <1>4 DEF RecordSent, Delivered, JobsOf
  <2>4. Rows' = Rows /\ Jobs' = Jobs /\ Sent' = Sent \cup {l}
    BY <1>4, <2>1 DEF RecordSent, Structure, TypeOK
  <2>5. Contract!Claim(l)
    BY <2>2, <2>3, <2>4 DEF Contract!Claim, Delivered
  <2>. QED BY <2>5 DEF Contract!Next
<1>5. ASSUME NEW l \in Log, status[l] # "none", UNCHANGED <<jobState, logOf, accepted>>,
             NEW s \in Status \ {"none", "SENT"}, status' = [status EXCEPT ![l] = s]
      PROVE  Contract!Next \/ UNCHANGED Contract!vars
  <2>1. Rows' = Rows /\ Jobs' = Jobs /\ Sent' = Sent \ {l}
    BY <1>5 DEF Structure, TypeOK
  <2>2. Delivered' = Delivered
    BY <1>5 DEF Delivered, JobsOf
  <2>3. CASE l \in Sent
    <3>1. Contract!Retract(l)
      BY <2>1, <2>2, <2>3 DEF Contract!Retract, Delivered
    <3>. QED BY <3>1 DEF Contract!Next
  <2>4. CASE l \notin Sent
    BY <2>1, <2>2, <2>4 DEF Contract!vars, Delivered
  <2>. QED BY <2>3, <2>4
<1>6. ASSUME NEW p \in Proc, BeginAttempt(p) \/ RecordFailed(p)
      PROVE  Contract!Next \/ UNCHANGED Contract!vars
  <2>1. logOf[cur[p]] \in Log /\ status[logOf[cur[p]]] # "none"
    BY <1>6, SlotHasRow DEF BeginAttempt, RecordFailed
  <2>2. \E s \in Status \ {"none", "SENT"} : status' = [status EXCEPT ![logOf[cur[p]]] = s]
    BY <1>6 DEF BeginAttempt, RecordFailed
  <2>. QED BY <1>5, <1>6, <2>1, <2>2 DEF BeginAttempt, RecordFailed
<1>7. ASSUME NEW j \in Job, DeadLetterMark(j) PROVE Contract!Next \/ UNCHANGED Contract!vars
  <2>1. jobState[j] # "absent"
    BY <1>7 DEF DeadLetterMark, Structure, DeadLetterExhausted
  <2>2. logOf[j] \in Log /\ status[logOf[j]] # "none"
    BY <2>1 DEF Structure, AddedByItsOwner, RowsFirst
  <2>3. \E s \in Status \ {"none", "SENT"} : status' = [status EXCEPT ![logOf[j]] = s]
    BY <1>7 DEF DeadLetterMark
  <2>. QED BY <1>5, <1>7, <2>2, <2>3 DEF DeadLetterMark
<1>8. ASSUME NEW a \in Retry, RetryReset(a) PROVE Contract!Next \/ UNCHANGED Contract!vars
  <2>1. rec[a] \in Job /\ dlq[rec[a]] # "none" /\ logOf[a] = logOf[rec[a]] /\ logOf[a] \in Log
    BY <1>8 DEF RetryReset, Structure, AddedByItsOwner
  <2>2. status[logOf[a]] # "none"
    BY <2>1 DEF Structure, RowsFirst, DeadLetterExhausted
  <2>3. \E s \in Status \ {"none", "SENT"} : status' = [status EXCEPT ![logOf[a]] = s]
    BY <1>8 DEF RetryReset
  <2>. QED BY <1>5, <1>8, <2>1, <2>2, <2>3 DEF RetryReset
<1>9. ASSUME UNCHANGED status, ~\E l \in Log : PersistLog(l) \/ EnqueueJob(l),
             ~\E p \in Proc : ProviderAccepts(p) \/ ReplyLost(p)
      PROVE  UNCHANGED Contract!vars
  <2>1. Unproduced
    BY <1>9, OthersProduceNothing
  <2>2. Rows' = Rows /\ Jobs' = Jobs /\ Sent' = Sent
    BY <1>9, <2>1 DEF Unproduced
  <2>3. Delivered' = Delivered
    BY <1>9, OthersDeliverNothing
  <2>. QED BY <2>2, <2>3 DEF Contract!vars, Delivered
<1>. QED BY <1>1, <1>2, <1>3, <1>4, <1>6, <1>7, <1>8, <1>9, StatusWriters

-----------------------------------------------------------------------------
(* Jobs and slots run down.                                                *)

\* What Stages says of each job state.
LEMMA StagesAre ==
  /\ Stages["absent"] = 4 /\ Stages["delayed"] = 3 /\ Stages["wait"] = 2
  /\ Stages["active"] = 1 /\ Stages["completed"] = 0 /\ Stages["failed"] = 0
  BY DEF Stages

\* A job moves on by its stage, or by an attempt or a stall more.
LEMMA JobRunsDown ==
  ASSUME Structure, Next \/ UNCHANGED vars, NEW j \in Job
  PROVE  UNCHANGED <<jobState[j], attemptsMade[j], stalled[j]>> \/ MovesLeft(j)' < MovesLeft(j)
<1> DEFINE moves(s, made, st) ==
      3 * ((MaxAttempts - made) + (MaxStalledCount + 1 - st)) + Stages[s]
<1> USE DEF Structure, TypeOK
<1>0. /\ MovesLeft(j) = moves(jobState[j], attemptsMade[j], stalled[j])
      /\ MovesLeft(j)' = moves(jobState'[j], attemptsMade'[j], stalled'[j])
      /\ attemptsMade[j] \in Nat /\ stalled[j] \in Nat
  BY DEF MovesLeft
<1>a. ASSUME NEW made \in Nat, NEW st \in Nat
      PROVE  /\ moves("wait", made, st) < moves("absent", made, st)
             /\ moves("delayed", made, st) < moves("absent", made, st)
             /\ moves("wait", made, st) < moves("delayed", made, st)
             /\ moves("active", made, st) < moves("wait", made, st)
             /\ moves("completed", made, st) < moves("active", made, st)
             /\ moves("delayed", made + 1, st) < moves("active", made, st)
             /\ moves("failed", made + 1, st) < moves("active", made, st)
             /\ moves("failed", made + 1, st) < moves("wait", made, st)
             /\ moves("wait", made, st + 1) < moves("active", made, st)
  BY <1>a, StagesAre
<1> HIDE DEF moves
<1>1. ASSUME NEW l \in Log, EnqueueJob(l)
      PROVE UNCHANGED <<jobState[j], attemptsMade[j], stalled[j]>> \/ MovesLeft(j)' < MovesLeft(j)
  <2>1. jobState[l] = "absent" /\ UNCHANGED <<attemptsMade, stalled>>
    BY <1>1 DEF EnqueueJob, AddedByItsOwner
  <2>2. CASE j = l
    <3>1. jobState'[l] \in {"wait", "delayed"}
      BY <1>1 DEF EnqueueJob
    <3>. QED BY <1>0, <1>a, <2>1, <2>2, <3>1
  <2>3. CASE j # l
    BY <1>1, <2>1, <2>3 DEF EnqueueJob
  <2>. QED BY <2>2, <2>3
<1>2. ASSUME NEW p \in Proc, Fetch(p)
      PROVE UNCHANGED <<jobState[j], attemptsMade[j], stalled[j]>> \/ MovesLeft(j)' < MovesLeft(j)
  BY <1>0, <1>a, <1>2 DEF Fetch
<1>3. ASSUME NEW p \in Proc, FailStalled(p)
      PROVE UNCHANGED <<jobState[j], attemptsMade[j], stalled[j]>> \/ MovesLeft(j)' < MovesLeft(j)
  BY <1>0, <1>a, <1>3 DEF FailStalled
<1>4. ASSUME NEW p \in Proc, Complete(p)
      PROVE UNCHANGED <<jobState[j], attemptsMade[j], stalled[j]>> \/ MovesLeft(j)' < MovesLeft(j)
  <2>1. cur[p] \in Job /\ jobState[cur[p]] = "active" /\ UNCHANGED <<attemptsMade, stalled>>
    BY <1>4 DEF Complete, HoldsLock, LocksOwned
  <2>2. CASE j = cur[p]
    BY <1>0, <1>a, <1>4, <2>1, <2>2 DEF Complete
  <2>3. CASE j # cur[p]
    BY <1>4, <2>1, <2>3 DEF Complete
  <2>. QED BY <2>2, <2>3
<1>5. ASSUME NEW p \in Proc, RetryWithBackoff(p) \/ FailForGood(p)
      PROVE UNCHANGED <<jobState[j], attemptsMade[j], stalled[j]>> \/ MovesLeft(j)' < MovesLeft(j)
  <2>1. cur[p] \in Job /\ jobState[cur[p]] = "active" /\ attempt[p] = attemptsMade[cur[p]] + 1
    BY <1>5 DEF RetryWithBackoff, FailForGood, HoldsLock, LocksOwned
  <2>2. CASE j = cur[p]
    BY <1>0, <1>a, <1>5, <2>1, <2>2 DEF RetryWithBackoff, FailForGood
  <2>3. CASE j # cur[p]
    BY <1>5, <2>1, <2>3 DEF RetryWithBackoff, FailForGood
  <2>. QED BY <2>2, <2>3
<1>6. ASSUME NEW k \in Job, Promote(k) \/ RecoverStalled(k)
      PROVE UNCHANGED <<jobState[j], attemptsMade[j], stalled[j]>> \/ MovesLeft(j)' < MovesLeft(j)
  BY <1>0, <1>a, <1>6 DEF Promote, RecoverStalled
<1>7. ASSUME NEW a \in Retry, RetryAdd(a)
      PROVE UNCHANGED <<jobState[j], attemptsMade[j], stalled[j]>> \/ MovesLeft(j)' < MovesLeft(j)
  BY <1>0, <1>a, <1>7 DEF RetryAdd, AddedByItsOwner
<1>8. CASE UNCHANGED <<jobState, attemptsMade, stalled>>
  BY <1>8
<1>9. UNCHANGED <<jobState, attemptsMade>> => UNCHANGED stalled \/ \E k \in Job : RecoverStalled(k)
  BY StallWriters
<1>. QED BY <1>1, <1>2, <1>3, <1>4, <1>5, <1>6, <1>7, <1>8, <1>9, JobWriters

\* The number of steps a slot has left, by the step it is at.
LEMMA StepsLeftIs ==
  ASSUME NEW p \in Proc
  PROVE  /\ pc[p] = "idle" => StepsLeft(p) = 0
         /\ pc[p] \in {"throw", "complete"} => StepsLeft(p) = 1
         /\ pc[p] = "fail" => StepsLeft(p) = 2
         /\ pc[p] = "record" => StepsLeft(p) = 2 * (ChainLength - idx[p]) + 3
         /\ pc[p] = "send" => StepsLeft(p) = 2 * (ChainLength - idx[p]) + 4
         /\ pc[p] = "begin" => StepsLeft(p) = 2 * ChainLength + 3
  BY DEF StepsLeft

\* What StepsLeft is after a step, by the place the slot has come to.
LEMMA StepsLeftWillBe ==
  ASSUME NEW p \in Proc
  PROVE  /\ pc'[p] = "idle" => StepsLeft(p)' = 0
         /\ pc'[p] \in {"throw", "complete"} => StepsLeft(p)' = 1
         /\ pc'[p] = "fail" => StepsLeft(p)' = 2
         /\ pc'[p] = "record" => StepsLeft(p)' = 2 * (ChainLength - idx'[p]) + 3
         /\ pc'[p] = "send" => StepsLeft(p)' = 2 * (ChainLength - idx'[p]) + 4
         /\ pc'[p] = "begin" => StepsLeft(p)' = 2 * ChainLength + 3
  BY DEF StepsLeft

\* What is left is never negative.
LEMMA SuppliesAreNatural ==
  /\ TypeOK => /\ \A j \in Job : MovesLeft(j) \in Nat
               /\ \A p \in Proc : StepsLeft(p) \in Nat
  /\ TypeOK' => /\ \A j \in Job : MovesLeft(j)' \in Nat
                /\ \A p \in Proc : StepsLeft(p)' \in Nat
<1>1. ASSUME NEW j \in Job, TypeOK PROVE MovesLeft(j) \in Nat
  <2>1. Stages[jobState[j]] \in Nat
    BY <1>1, StagesAre DEF TypeOK
  <2>2. MaxAttempts - attemptsMade[j] \in Nat /\ MaxStalledCount + 1 - stalled[j] \in Nat
    BY <1>1 DEF TypeOK
  <2>. QED BY <2>1, <2>2 DEF MovesLeft
<1>2. ASSUME NEW j \in Job, TypeOK' PROVE MovesLeft(j)' \in Nat
  <2>1. Stages[jobState'[j]] \in Nat
    BY <1>2, StagesAre DEF TypeOK
  <2>2. MaxAttempts - attemptsMade'[j] \in Nat /\ MaxStalledCount + 1 - stalled'[j] \in Nat
    BY <1>2 DEF TypeOK
  <2>. QED BY <2>1, <2>2 DEF MovesLeft
<1>3. ASSUME NEW p \in Proc, TypeOK PROVE StepsLeft(p) \in Nat
  BY <1>3, StepsLeftIs DEF TypeOK
<1>4. ASSUME NEW p \in Proc, TypeOK' PROVE StepsLeft(p)' \in Nat
  BY <1>4, StepsLeftWillBe DEF TypeOK
<1>. QED BY <1>1, <1>2, <1>3, <1>4

\* A step of process() brings the slot nearer to its end; others leave it alone.
LEMMA SlotRunsDown ==
  ASSUME Structure, Next \/ UNCHANGED vars, NEW p \in Proc, pc[p] # "idle"
  PROVE  UNCHANGED <<pc[p], cur[p], attempt[p], idx[p]>> \/ StepsLeft(p)' < StepsLeft(p)
<1> DEFINE Goal == UNCHANGED <<pc[p], cur[p], attempt[p], idx[p]>> \/ StepsLeft(p)' < StepsLeft(p)
<1> SUFFICES Goal
  OBVIOUS
<1>0. /\ pc[p] \in SlotPc /\ idx[p] \in 0 .. ChainLength
      /\ pc \in [Proc -> SlotPc] /\ idx \in [Proc -> 0 .. ChainLength]
      /\ cur \in [Proc -> Job \cup {None}] /\ attempt \in [Proc -> 0 .. MaxAttempts]
  BY DEF Structure, TypeOK
<1>a. StepsLeft(p) > 0
  BY <1>0, StepsLeftIs
<1>b. ASSUME NEW q \in Proc, Release(q) PROVE Goal
  BY <1>0, <1>a, <1>b, StepsLeftWillBe DEF Release
<1>c. ASSUME NEW q \in Proc, NextProvider(q), pc[q] \in {"send", "record"},
             UNCHANGED <<cur, attempt>>
      PROVE Goal
  <2>1. CASE q = p
    BY <1>0, <1>c, <2>1, StepsLeftIs, StepsLeftWillBe DEF NextProvider, Goto
  <2>2. CASE q # p
    BY <1>0, <1>c, <2>2 DEF NextProvider, Goto
  <2>. QED BY <2>1, <2>2
<1>1. ASSUME NEW q \in Proc, Fetch(q) PROVE Goal
  BY <1>0, <1>1 DEF Fetch, Goto
<1>2. ASSUME NEW q \in Proc, BeginAttempt(q) PROVE Goal
  BY <1>0, <1>2, StepsLeftIs, StepsLeftWillBe DEF BeginAttempt, Goto
<1>3. ASSUME NEW q \in Proc, BeginAttemptFails(q) \/ RecordFailed(q) \/ RecordFailedFails(q)
      PROVE Goal
  BY <1>0, <1>3, StepsLeftIs, StepsLeftWillBe
  DEF BeginAttemptFails, RecordFailed, RecordFailedFails, Goto
<1>4. ASSUME NEW q \in Proc, ProviderAccepts(q) PROVE Goal
  BY <1>0, <1>4, StepsLeftIs, StepsLeftWillBe DEF ProviderAccepts, Goto
<1>5. ASSUME NEW q \in Proc, RecordSent(q) PROVE Goal
  BY <1>0, <1>5, StepsLeftIs, StepsLeftWillBe DEF RecordSent, Goto
<1>6. ASSUME NEW q \in Proc, ProviderRejects(q) \/ ReplyLost(q) \/ RecordSentFails(q) PROVE Goal
  BY <1>c, <1>6 DEF ProviderRejects, ReplyLost, RecordSentFails
<1>7. ASSUME NEW q \in Proc, Finish(q) PROVE Goal
  BY <1>b, <1>7 DEF Finish, Complete, RetryWithBackoff, FailForGood, ReportRefused
<1>8. ASSUME NEW q \in Proc, Crash(q) \/ HandlerRejects(q) PROVE Goal
  BY <1>b, <1>8 DEF Crash, HandlerRejects, Die
<1>9. CASE UNCHANGED slotVars
  BY <1>9
<1>10. ASSUME NEW q \in Proc, FailStalled(q) \/ LoseLock(q) PROVE Goal
  BY <1>9, <1>10 DEF FailStalled, LoseLock
<1>11. ASSUME NEW l \in Log, Produce(l) PROVE Goal
  BY <1>9, <1>11 DEF Produce, PersistLog, EnqueueJob, ProducerFails
<1>12. ASSUME NEW j \in Job, Promote(j) \/ RecoverStalled(j) \/ DeadLetter(j) PROVE Goal
  BY <1>9, <1>12 DEF Promote, RecoverStalled, DeadLetter, DeadLetterMark, DeadLetterSave
<1>13. ASSUME NEW a \in Retry, RetryFind(a) \/ RetryRequest(a) PROVE Goal
  BY <1>9, <1>13 DEF RetryFind, RetryRequest, RetryReset, RetryAdd, RetryFlag, RetryAborts
<1>14. CASE UNCHANGED vars
  BY <1>9, <1>14 DEF vars
<1>. QED
  BY <1>1, <1>2, <1>3, <1>4, <1>5, <1>6, <1>7, <1>8, <1>10, <1>11, <1>12, <1>13, <1>14
  DEF Next, Work, Process, Rest

-----------------------------------------------------------------------------
(* Each exception the properties allow has a fault behind it.              *)

\* Who takes or drops a lock.
LEMMA LockWriters ==
  ASSUME Next \/ UNCHANGED vars
  PROVE  \/ UNCHANGED lock
         \/ \E p \in Proc : \/ Fetch(p) \/ Complete(p) \/ RetryWithBackoff(p) \/ FailForGood(p)
                            \/ LoseLock(p) \/ Crash(p) \/ HandlerRejects(p)
  BY DEF Next, Produce, Work, Process, Finish, DeadLetter, RetryRequest, Rest, vars,
     PersistLog, EnqueueJob, ProducerFails, FailStalled, BeginAttempt, BeginAttemptFails,
     ProviderAccepts, ProviderRejects, ReplyLost, RecordSent, RecordSentFails, RecordFailed,
     RecordFailedFails, ReportRefused, Promote, RecoverStalled, DeadLetterMark,
     DeadLetterSave, RetryFind, RetryReset, RetryAdd, RetryFlag, RetryAborts

\* While no process dies and no lock is lost, an active job is always locked, no
\* job stalls, and a job fails only with its last attempt.
Attended ==
  \A j \in Job : /\ jobState[j] = "active" => lock[j] # None
                 /\ stalled[j] = 0
                 /\ jobState[j] = "failed" => attemptsMade[j] = MaxAttempts

\* The other exceptions, each by the faults that can cause it.
Causes ==
  /\ "lockloss" \notin Faults => overrun = {}
  /\ Faults \cap {"lostreply", "workerdb"} = {} => mishap = {}
  /\ Faults \cap {"crash", "handlerdb"} = {} => \A j \in Job : hpc[j] # "aborted"
  /\ "api" \notin Faults => /\ \A l \in Log : producer[l] # "failed"
                            /\ \A a \in Retry : apc[a] # "aborted"
  /\ Faults \cap {"crash", "handlerdb", "lockloss"} = {} => Attended

\* Without these faults nobody takes a lock from a job at work.
LEMMA AttendedNext ==
  ASSUME Structure, Attended, Next \/ UNCHANGED vars,
         Faults \cap {"crash", "handlerdb", "lockloss"} = {}
  PROVE  Attended'
<1> USE DEF Structure, TypeOK, Attended
<1>1. \A p \in Proc : ~LoseLock(p) /\ ~Crash(p) /\ ~HandlerRejects(p)
  BY DEF LoseLock, Crash, HandlerRejects
<1>2. \A j \in Job : ~RecoverStalled(j)
  BY DEF RecoverStalled
<1>3. UNCHANGED stalled
  BY <1>2, StallWriters
<1>4. \A p \in Proc : ~FailStalled(p)
  BY DEF FailStalled
<1>5. ASSUME NEW p \in Proc, Fetch(p) PROVE Attended'
  BY <1>3, <1>5 DEF Fetch, Goto
<1>6. ASSUME NEW p \in Proc, Complete(p) PROVE Attended'
  BY <1>3, <1>6 DEF Complete, HoldsLock, Release
<1>7. ASSUME NEW p \in Proc, RetryWithBackoff(p) PROVE Attended'
  BY <1>3, <1>7 DEF RetryWithBackoff, HoldsLock, Release
<1>8. ASSUME NEW p \in Proc, FailForGood(p) PROVE Attended'
  <2>1. cur[p] \in Job /\ attempt[p] = MaxAttempts
    <3>1. cur[p] # None /\ ~(attempt[p] < MaxAttempts)
      BY <1>8 DEF FailForGood, HoldsLock, RetriesLeft
    <3>2. cur[p] \in Job /\ attempt[p] \in 1 .. MaxAttempts
      BY <3>1 DEF SlotsBusy
    <3>. QED BY <3>1, <3>2
  <2>2. jobState' = [jobState EXCEPT ![cur[p]] = "failed"] /\ lock' = [lock EXCEPT ![cur[p]] = None]
    BY <1>8 DEF FailForGood
  <2>3. attemptsMade' = [attemptsMade EXCEPT ![cur[p]] = MaxAttempts]
    BY <1>8, <2>1 DEF FailForGood
  <2>. QED BY <1>3, <2>1, <2>2, <2>3
<1>9. ASSUME UNCHANGED lock, NEW l \in Log, EnqueueJob(l) PROVE Attended'
  BY <1>3, <1>9 DEF EnqueueJob
<1>10. ASSUME UNCHANGED lock, NEW j \in Job, Promote(j) PROVE Attended'
  BY <1>3, <1>10 DEF Promote
<1>11. ASSUME UNCHANGED lock, NEW a \in Retry, RetryAdd(a) PROVE Attended'
  BY <1>3, <1>11 DEF RetryAdd
<1>12. CASE UNCHANGED <<lock, jobState, attemptsMade>>
  BY <1>3, <1>12
<1>. QED
  BY <1>1, <1>2, <1>4, <1>5, <1>6, <1>7, <1>8, <1>9, <1>10, <1>11, <1>12, LockWriters, JobWriters

\* Every step keeps each exception with its faults.
LEMMA CausesNext ==
  ASSUME Structure, Causes, Next \/ UNCHANGED vars
  PROVE  Causes'
<1> USE DEF Causes
<1>1. "lockloss" \notin Faults => overrun' = {}
  BY OverrunWriters DEF LoseLock
<1>2. Faults \cap {"lostreply", "workerdb"} = {} => mishap' = {}
  BY MishapWriters DEF ReplyLost, RecordSentFails
<1>3. ASSUME Faults \cap {"crash", "handlerdb"} = {} PROVE \A j \in Job : hpc'[j] # "aborted"
  <2>1. \A p \in Proc : ~Crash(p) /\ ~HandlerRejects(p)
    BY <1>3 DEF Crash, HandlerRejects
  <2>2. \A j \in Job : hpc[j] # "aborted"
    BY <1>3
  <2>3. ASSUME NEW p \in Proc, NEW i \in Job, NEW made, FailedEvent(p, i, made)
        PROVE  \A j \in Job : hpc'[j] # "aborted"
    BY <2>2, <2>3 DEF FailedEvent, Structure, TypeOK
  <2>4. ASSUME NEW p \in Proc, FailStalled(p) PROVE \A j \in Job : hpc'[j] # "aborted"
    BY <2>3, <2>4 DEF FailStalled
  <2>5. ASSUME NEW p \in Proc, RetryWithBackoff(p) \/ FailForGood(p)
        PROVE  \A j \in Job : hpc'[j] # "aborted"
    <3>1. cur[p] \in Job /\ FailedEvent(p, cur[p], attempt[p])
      BY <2>5 DEF RetryWithBackoff, FailForGood, HoldsLock, Structure, TypeOK
    <3>. QED BY <2>3, <3>1
  <2>6. ASSUME NEW i \in Job, DeadLetterMark(i) \/ DeadLetterSave(i)
        PROVE  \A j \in Job : hpc'[j] # "aborted"
    BY <2>2, <2>6 DEF DeadLetterMark, DeadLetterSave, Structure, TypeOK
  <2>. QED BY <2>1, <2>2, <2>4, <2>5, <2>6, ListenerWriters
<1>4. "api" \notin Faults => \A l \in Log : producer'[l] # "failed"
  BY ProducerWriters DEF PersistLog, EnqueueJob, ProducerFails, Structure, TypeOK
<1>5. "api" \notin Faults => \A a \in Retry : apc'[a] # "aborted"
  BY RequestWriters DEF RetryFind, RetryReset, RetryAdd, RetryFlag, RetryAborts, Structure, TypeOK
<1>6. Faults \cap {"crash", "handlerdb", "lockloss"} = {} => Attended'
  BY AttendedNext
<1>. QED BY <1>1, <1>2, <1>3, <1>4, <1>5, <1>6

-----------------------------------------------------------------------------
(* The theorems.                                                           *)

Invariant ==
  /\ Structure
  /\ Acceptance
  /\ OneEnd
  /\ SentAtTheEnd
  /\ DeadAtTheEnd
  /\ RetriedByRequest
  /\ NothingLost
  /\ OpenRowsInHand
  /\ AcceptedAtTheEnd
  /\ RowsFirst

\* The whole invariant holds initially.
LEMMA InitInvariant == Init => Invariant
<1> SUFFICES ASSUME Init PROVE Invariant
  OBVIOUS
<1>1. Structure
  BY InitStructure
<1>2. Acceptance
  BY DEF Init, Acceptance, SentWasAccepted, CompletedWasAccepted
<1>3. OneEnd
  BY DEF Init, OneEnd, InLine
<1>4. SentAtTheEnd /\ DeadAtTheEnd /\ NothingLost /\ OpenRowsInHand
  BY DEF Init, SentAtTheEnd, DeadAtTheEnd, NothingLost, OpenRowsInHand
<1>5. RetriedByRequest /\ AcceptedAtTheEnd
  BY DEF Init, RetriedByRequest, AcceptedAtTheEnd
<1>6. RowsFirst
  BY DEF Init, RowsFirst
<1>. QED BY <1>1, <1>2, <1>3, <1>4, <1>5, <1>6 DEF Invariant

\* Every step preserves the whole invariant.
LEMMA NextInvariant == Invariant /\ [Next]_vars => Invariant'
  BY StructureNext, AcceptanceNext, OneEndNext, SentAtTheEndNext, DeadAtTheEndNext,
     RetriedByRequestNext, NothingLostNext, OpenRowsInHandNext, AcceptedAtTheEndNext,
     RowsFirstNext
  DEF Invariant

\* The inductive invariant is an invariant of the delivery core.
THEOREM InvariantHolds == Spec => []Invariant
  BY InitInvariant, NextInvariant, PTL DEF Spec

\* The model's variables keep their types: attempts never pass MAX_ATTEMPTS.
THEOREM TypeCorrect == Spec => []TypeOK
<1>1. Invariant => TypeOK
  BY DEF Invariant, Structure
<1>. QED BY <1>1, InvariantHolds, PTL

\* process() runs twice at once for one job only after a lost lock.
THEOREM OneSlot == Spec => []OneSlotPerJob
<1>1. Invariant => OneSlotPerJob
  BY DEF Invariant, Structure
<1>. QED BY <1>1, InvariantHolds, PTL

\* handleFailure dead-letters only a job that has used its last attempt.
THEOREM DeadLettersAreExhausted == Spec => []DeadLetterExhausted
<1>1. Invariant => DeadLetterExhausted
  BY DEF Invariant, Structure
<1>. QED BY <1>1, InvariantHolds, PTL

\* SENT is the truth, and so is a completed job: a provider accepted it.
THEOREM SuccessesAreTrue == Spec => []SuccessIsTrue
<1>1. Invariant => SuccessIsTrue
  BY DEF Invariant, Acceptance, SuccessIsTrue
<1>. QED BY <1>1, InvariantHolds, PTL

\* Two live jobs of one row come from a record retried twice.
THEOREM ParallelJobs == Spec => []ParallelJobsNeedDoubleRetry
<1>1. Invariant => ParallelJobsNeedDoubleRetry
  BY ParallelFromOneEnd DEF Invariant
<1>. QED BY <1>1, InvariantHolds, PTL

\* Every duplicate has one of the known causes.
THEOREM DuplicatesHaveCauses == Spec => []DuplicateNeedsCause
<1>1. Invariant => DuplicateNeedsCause
  BY DuplicateFromAcceptedAtTheEnd DEF Invariant
<1>. QED BY <1>1, InvariantHolds, PTL

\* No row is forgotten except in the ways Stranded lists.
THEOREM NothingIsLost == Spec => []NothingLost
<1>1. Invariant => NothingLost
  BY DEF Invariant
<1>. QED BY <1>1, InvariantHolds, PTL

\* A row leaves SENT only after a redelivery or a record retried twice.
THEOREM SentStaysSent == Spec => SentIsFinal
<1>1. Invariant /\ [Next]_vars =>
        [\A l \in Log : (status[l] = "SENT" /\ status'[l] # "SENT") =>
           Redelivered(l) \/ RetriedTwice(l)]_vars
  BY SentFinalStep DEF Invariant
<1>. QED BY <1>1, InvariantHolds, PTL DEF Spec, SentIsFinal

\* A row leaves DLQ by an administrator's request, or after a worker outlived its
\* lock or a record was retried twice.
THEOREM DeadLettersStay == Spec => DlqIsFinal
<1>1. Invariant /\ [Next]_vars =>
        [\A l \in Log : (status[l] = "DLQ" /\ status'[l] # "DLQ") =>
           \/ \E a \in Retry : apc[a] = "reset" /\ logOf[a] = l
           \/ \E j \in JobsOf(l) : j \in overrun
           \/ RetriedTwice(l)]_vars
  BY DlqFinalStep DEF Invariant
<1>. QED BY <1>1, InvariantHolds, PTL DEF Spec, DlqIsFinal

\* Each move of a job, and each step of a busy slot, uses up a bounded supply: no
\* fault and no schedule makes a job move for ever.
THEOREM EverythingRunsDown == Spec => RunsDown
<1>1. Invariant /\ Invariant' /\ [Next]_vars =>
        [/\ \A j \in Job : \/ UNCHANGED <<jobState[j], attemptsMade[j], stalled[j]>>
                           \/ MovesLeft(j)' \in 0 .. MovesLeft(j) - 1
         /\ \A p \in Proc : pc[p] # "idle" =>
              \/ UNCHANGED <<pc[p], cur[p], attempt[p], idx[p]>>
              \/ StepsLeft(p)' \in 0 .. StepsLeft(p) - 1]_vars
  <2> SUFFICES ASSUME Invariant, Invariant', [Next]_vars
               PROVE  /\ \A j \in Job : \/ UNCHANGED <<jobState[j], attemptsMade[j], stalled[j]>>
                                        \/ MovesLeft(j)' \in 0 .. MovesLeft(j) - 1
                      /\ \A p \in Proc : pc[p] # "idle" =>
                           \/ UNCHANGED <<pc[p], cur[p], attempt[p], idx[p]>>
                           \/ StepsLeft(p)' \in 0 .. StepsLeft(p) - 1
    OBVIOUS
  <2>1. Structure /\ TypeOK /\ TypeOK'
    BY DEF Invariant, Structure
  <2>2. ASSUME NEW j \in Job
        PROVE  \/ UNCHANGED <<jobState[j], attemptsMade[j], stalled[j]>>
               \/ MovesLeft(j)' \in 0 .. MovesLeft(j) - 1
    <3>1. MovesLeft(j) \in Nat /\ MovesLeft(j)' \in Nat
      BY <2>1, SuppliesAreNatural
    <3>. QED BY <2>1, <3>1, JobRunsDown
  <2>3. ASSUME NEW p \in Proc, pc[p] # "idle"
        PROVE  \/ UNCHANGED <<pc[p], cur[p], attempt[p], idx[p]>>
               \/ StepsLeft(p)' \in 0 .. StepsLeft(p) - 1
    <3>1. StepsLeft(p) \in Nat /\ StepsLeft(p)' \in Nat
      BY <2>1, SuppliesAreNatural
    <3>. QED BY <2>1, <2>3, <3>1, SlotRunsDown
  <2>. QED BY <2>2, <2>3
<1>. QED BY <1>1, InvariantHolds, PTL DEF Spec, RunsDown

\* When the system has come to rest, each row says SENT or DLQ, or is stranded, or
\* waits for an administrator whose request died: the safety half of Settles.
THEOREM RestIsSettled ==
  Spec => [](Quiescent => \A l \in Log :
            status[l] \in {"PENDING", "FAILED"} =>
              Stranded(l) \/ \E a \in Retry : logOf[a] = l /\ apc[a] = "aborted")
<1>1. Quiescent => \A l \in Log : ~InHand(l)
  BY DEF Quiescent, InHand, AtWork, Live, JobsOf
<1>2. Invariant /\ Quiescent => \A l \in Log :
        status[l] \in {"PENDING", "FAILED"} =>
          Stranded(l) \/ \E a \in Retry : logOf[a] = l /\ apc[a] = "aborted"
  BY <1>1 DEF Invariant, OpenRowsInHand, LeftBehind
<1>. QED BY <1>2, InvariantHolds, PTL

\* Every exception of the properties above has one of its faults behind it: with
\* no faults there are none.
THEOREM ExceptionsHaveFaults == Spec => []Causes
<1>1. Init => Causes
  BY DEF Init, Causes, Attended
<1>2. Invariant /\ Causes /\ [Next]_vars => Causes'
  BY CausesNext DEF Invariant
<1>. QED BY <1>1, <1>2, InvariantHolds, PTL DEF Spec

\* When nothing crashes, rejects or dies half way, every notification that is not
\* sent yet is pursued: no interleaving alone can lose one.
THEOREM NothingIsLostWithoutFaults ==
  ASSUME Faults = {}
  PROVE  Spec => [](\A l \in Log : status[l] \notin {"none", "SENT"} => Pursued(l))
<1>1. Causes => \A l \in Log : ~Stranded(l)
  BY DEF Causes, Attended, Stranded, JobsOf
<1>2. Invariant /\ Causes => \A l \in Log : status[l] \notin {"none", "SENT"} => Pursued(l)
  BY <1>1 DEF Invariant, NothingLost
<1>. QED BY <1>2, InvariantHolds, ExceptionsHaveFaults, PTL

\* When workers and providers do not fail but by a clean rejection, a notification
\* is delivered twice only by an administrator who retries one record twice.
THEOREM OneDeliveryWithoutFaults ==
  ASSUME Faults \subseteq {"api"}
  PROVE  Spec => [](\A j, k \in Job :
           (accepted[j] > 0 /\ accepted[k] > 0 /\ logOf[j] = logOf[k] /\ (j # k \/ accepted[j] > 1))
             => RetriedTwice(logOf[j]))
<1>1. Causes => mishap = {} /\ \A i \in Job : stalled[i] = 0
  BY DEF Causes, Attended
<1>2. Invariant /\ Causes =>
        \A j, k \in Job :
          (accepted[j] > 0 /\ accepted[k] > 0 /\ logOf[j] = logOf[k] /\ (j # k \/ accepted[j] > 1))
            => RetriedTwice(logOf[j])
  <2> SUFFICES ASSUME Invariant, Causes, NEW j \in Job, NEW k \in Job,
                      accepted[j] > 0, accepted[k] > 0, logOf[j] = logOf[k], j # k \/ accepted[j] > 1
               PROVE  RetriedTwice(logOf[j])
    OBVIOUS
  <2>1. RetriedTwice(logOf[j]) \/ \E i \in JobsOf(logOf[j]) : stalled[i] > 0 \/ i \in mishap
    BY DuplicateFromAcceptedAtTheEnd DEF Invariant, DuplicateNeedsCause
  <2>. QED BY <1>1, <2>1 DEF JobsOf
<1>. QED BY <1>2, InvariantHolds, ExceptionsHaveFaults, PTL

\* The worker does stop at the first provider that succeeds, unless the update
\* that records the success rejects.
THEOREM FirstSuccessEndsTheChain ==
  ASSUME "workerdb" \notin Faults
  PROVE  Spec => UntilOneSucceeds
<1>1. Invariant /\ [Next]_vars => [\A p \in Proc : pc[p] = "record" => pc'[p] # "send"]_vars
  <2> SUFFICES ASSUME Invariant, Next, NEW p \in Proc, pc[p] = "record", pc'[p] = "send"
               PROVE  FALSE
    BY DEF vars, slotVars
  <2>1. PICK q \in Proc : \/ Fetch(q) \/ Process(q) \/ Finish(q) \/ Crash(q) \/ HandlerRejects(q)
    BY DEF Next, Produce, Work, DeadLetter, RetryRequest, Rest, vars, PersistLog, EnqueueJob,
       ProducerFails, FailStalled, LoseLock, Promote, RecoverStalled, DeadLetterMark,
       DeadLetterSave, RetryFind, RetryReset, RetryAdd, RetryFlag, RetryAborts
  <2>2. pc[q] # "record" \/ RecordSent(q) \/ Crash(q) \/ HandlerRejects(q)
    BY <2>1 DEF Fetch, Process, Finish, BeginAttempt, BeginAttemptFails, ProviderAccepts,
       ProviderRejects, ReplyLost, RecordSentFails, RecordFailed, RecordFailedFails, Complete,
       RetryWithBackoff, FailForGood, ReportRefused
  <2>3. \E step \in SlotPc : pc' = [pc EXCEPT ![q] = step]
    BY <2>1 DEF Fetch, Process, Finish, BeginAttempt, BeginAttemptFails, ProviderAccepts,
       ProviderRejects, ReplyLost, RecordSent, RecordSentFails, RecordFailed, RecordFailedFails,
       Complete, RetryWithBackoff, FailForGood, ReportRefused, Crash, HandlerRejects, Die,
       Release, NextProvider, Goto
  <2>4. p = q
    BY <2>3 DEF Invariant, Structure, TypeOK
  <2>5. pc'[q] # "send"
    BY <2>2, <2>4 DEF RecordSent, Crash, HandlerRejects, Die, Release, Goto, Invariant, Structure, TypeOK
  <2>. QED BY <2>4, <2>5
<1>. QED BY <1>1, InvariantHolds, PTL DEF Spec, UntilOneSucceeds

\* The delivery core keeps its side of the contract: its initial states are the
\* contract's, and every step is one of the contract's or stutters.
THEOREM ImplementsHandoff == Spec => HandedOff
<1>1. Init => Contract!Init
  BY DEF Init, Contract!Init, JobsOf
<1>2. Invariant /\ [Next]_vars => [Contract!Next]_(Contract!vars)
  BY HandoffStep DEF Invariant
<1>. QED BY <1>1, <1>2, InvariantHolds, PTL DEF Spec, HandedOff, Contract!Spec
=============================================================================
