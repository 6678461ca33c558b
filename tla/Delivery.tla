------------------------------ MODULE Delivery ------------------------------
(***************************************************************************)
(* The delivery core of the notification back-end, from the moment         *)
(* ProducerService.produce has decided to send: the log row and the BullMQ *)
(* job it creates, the queue workers (BaseChannelProcessor.process) that   *)
(* walk the provider chain and write the row's status, the 'failed' event  *)
(* listener (handleFailure) that dead-letters, and the administrator's     *)
(* DlqService.retry.                                                       *)
(*                                                                         *)
(* Every awaited call to Postgres, Redis or a provider is a step of its    *)
(* own, so workers, listeners and requests interleave between awaits.      *)
(* BullMQ 5.78 itself is external: the model keeps the part of its job     *)
(* life cycle the code relies on (locks, stalled jobs, attempts).          *)
(***************************************************************************)
EXTENDS Naturals, FiniteSets

CONSTANTS
  Log,              \* log rows; a produced job carries the name of its row
  Retry,            \* POST /notifications/dlq/:id/retry; so does a requeued job
  Proc,             \* worker slots, each in a process of its own
  None,             \* no process, no row, no record
  MaxAttempts,      \* MAX_ATTEMPTS
  MaxStalledCount,  \* BullMQ's maxStalledCount (the code keeps the default, 1)
  ChainLength,      \* providers ChannelResolver.resolve returns for the channel
  Faults            \* which faults the environment may inject

AllFaults == {"crash",      \* a worker process dies
              "lockloss",   \* a live worker fails to renew its job lock
              "workerdb",   \* a log update in process() rejects
              "lostreply",  \* a provider accepts, but send() rejects
              "handlerdb",  \* a statement of deadLetter() rejects
              "api"}        \* a produce or retry request dies half way

ASSUME IdsAssumption == Log \cap Retry = {} /\ None \notin Log \cup Retry \cup Proc
ASSUME BoundsAssumption == /\ MaxAttempts \in Nat \ {0}
                           /\ MaxStalledCount \in Nat
                           \* nodemailer and in-app are always available
                           /\ ChainLength \in Nat \ {0}
ASSUME FaultsAssumption == Faults \subseteq AllFaults

Job == Log \cup Retry

VARIABLES
  status, attempts,                            \* notification_logs
  producer,                                    \* produce(), per row
  jobState, logOf, attemptsMade, stalled, lock,  \* Redis, per job
  pc, cur, attempt, idx,                       \* process(), per worker slot
  hpc, howner,                                 \* the 'failed' listener, per job
  dlq,                                         \* dead_letter_records, by job
  apc, rec,                                    \* DlqService.retry, per request
  accepted, mishap, overrun                    \* history the properties read

logVars     == <<status, attempts>>
queueVars   == <<jobState, logOf, attemptsMade, stalled, lock>>
slotVars    == <<pc, cur, attempt, idx>>
handlerVars == <<hpc, howner>>
adminVars   == <<apc, rec>>
history     == <<accepted, mishap, overrun>>
vars == <<logVars, producer, queueVars, slotVars, handlerVars, dlq, adminVars, history>>

Status        == {"none", "PENDING", "SENT", "FAILED", "DLQ"}
ProducerState == {"idle", "saved", "enqueued", "failed"}
JobState      == {"absent", "wait", "delayed", "active", "completed", "failed"}
SlotPc        == {"idle", "begin", "send", "record", "fail", "throw", "complete"}
HandlerPc     == {"none", "mark", "save", "done", "aborted"}
RecordState   == {"none", "pending", "retried"}
RequestPc     == {"idle", "reset", "add", "flag", "done", "aborted"}

\* Acceptances are counted up to this bound: "more than once" is all that matters.
AcceptedBound == 2

TypeOK ==
  /\ status \in [Log -> Status]
  /\ attempts \in [Log -> 0 .. MaxAttempts]
  /\ producer \in [Log -> ProducerState]
  /\ jobState \in [Job -> JobState]
  /\ logOf \in [Job -> Log \cup {None}]
  /\ attemptsMade \in [Job -> 0 .. MaxAttempts]
  /\ stalled \in [Job -> 0 .. MaxStalledCount + 1]
  /\ lock \in [Job -> Proc \cup {None}]
  /\ pc \in [Proc -> SlotPc]
  /\ cur \in [Proc -> Job \cup {None}]
  /\ attempt \in [Proc -> 0 .. MaxAttempts]
  /\ idx \in [Proc -> 0 .. ChainLength]
  /\ hpc \in [Job -> HandlerPc]
  /\ howner \in [Job -> Proc \cup {None}]
  /\ dlq \in [Job -> RecordState]
  /\ apc \in [Retry -> RequestPc]
  /\ rec \in [Retry -> Job \cup {None}]
  /\ accepted \in [Job -> 0 .. AcceptedBound]
  /\ mishap \subseteq Job
  /\ overrun \subseteq Job

Init ==
  /\ status = [l \in Log |-> "none"]
  /\ attempts = [l \in Log |-> 0]
  /\ producer = [l \in Log |-> "idle"]
  /\ jobState = [j \in Job |-> "absent"]
  /\ logOf = [j \in Job |-> IF j \in Log THEN j ELSE None]
  /\ attemptsMade = [j \in Job |-> 0]
  /\ stalled = [j \in Job |-> 0]
  /\ lock = [j \in Job |-> None]
  /\ pc = [p \in Proc |-> "idle"]
  /\ cur = [p \in Proc |-> None]
  /\ attempt = [p \in Proc |-> 0]
  /\ idx = [p \in Proc |-> 0]
  /\ hpc = [j \in Job |-> "none"]
  /\ howner = [j \in Job |-> None]
  /\ dlq = [j \in Job |-> "none"]
  /\ apc = [a \in Retry |-> "idle"]
  /\ rec = [a \in Retry |-> None]
  /\ accepted = [j \in Job |-> 0]
  /\ mishap = {}
  /\ overrun = {}

-----------------------------------------------------------------------------
(* ProducerService.produce, from step 5 on.                                *)

\* logs.save: a PENDING row with no attempt yet.
PersistLog(l) ==
  /\ producer[l] = "idle"
  /\ producer' = [producer EXCEPT ![l] = "saved"]
  /\ status' = [status EXCEPT ![l] = "PENDING"]
  /\ UNCHANGED <<attempts, queueVars, slotVars, handlerVars, dlq, adminVars, history>>

\* Mutant of EnqueueJob: a producer that does not wait for the row.
EnqueueUnsaved(l) ==
  /\ producer[l] \in {"idle", "saved"}
  /\ producer' = [producer EXCEPT ![l] = "enqueued"]
  /\ jobState' = [jobState EXCEPT ![l] = "wait"]
  /\ UNCHANGED <<logVars, logOf, attemptsMade, stalled, lock, slotVars,
                 handlerVars, dlq, adminVars, history>>

\* queue.add: with a delay when the user is in quiet hours.
EnqueueJob(l) ==
  /\ producer[l] = "saved"
  /\ producer' = [producer EXCEPT ![l] = "enqueued"]
  /\ \E s \in {"wait", "delayed"} : jobState' = [jobState EXCEPT ![l] = s]
  /\ UNCHANGED <<logVars, logOf, attemptsMade, stalled, lock, slotVars,
                 handlerVars, dlq, adminVars, history>>

\* queueForChannel or queue.add throws, or the process dies between the two.
ProducerFails(l) ==
  /\ "api" \in Faults
  /\ producer[l] = "saved"
  /\ producer' = [producer EXCEPT ![l] = "failed"]
  /\ UNCHANGED <<logVars, queueVars, slotVars, handlerVars, dlq, adminVars, history>>

-----------------------------------------------------------------------------
(* BaseChannelProcessor.process in worker slot p.                          *)

HoldsLock(p) == cur[p] # None /\ lock[cur[p]] = p

Goto(p, step) == pc' = [pc EXCEPT ![p] = step]

\* The slot returns to the worker's fetch loop.
Release(p) ==
  /\ pc' = [pc EXCEPT ![p] = "idle"]
  /\ cur' = [cur EXCEPT ![p] = None]
  /\ attempt' = [attempt EXCEPT ![p] = 0]
  /\ idx' = [idx EXCEPT ![p] = 0]

\* BullMQ hands a waiting job to a free slot, under the slot's lock; the job
\* object carries the attemptsMade it had at this moment.
Fetch(p) ==
  /\ pc[p] = "idle"
  /\ \E j \in Job :
       /\ jobState[j] = "wait"
       /\ stalled[j] <= MaxStalledCount
       /\ jobState' = [jobState EXCEPT ![j] = "active"]
       /\ lock' = [lock EXCEPT ![j] = p]
       /\ cur' = [cur EXCEPT ![p] = j]
       /\ attempt' = [attempt EXCEPT ![p] = attemptsMade[j] + 1]
  /\ Goto(p, "begin")
  /\ UNCHANGED <<logVars, producer, logOf, attemptsMade, stalled, idx,
                 handlerVars, dlq, adminVars, history>>

\* The first statement: attempts, and back to PENDING.
BeginAttempt(p) ==
  /\ pc[p] = "begin"
  /\ attempts' = [attempts EXCEPT ![logOf[cur[p]]] = attempt[p]]
  /\ status' = [status EXCEPT ![logOf[cur[p]]] = "PENDING"]
  /\ idx' = [idx EXCEPT ![p] = 1]
  /\ Goto(p, "send")
  /\ UNCHANGED <<producer, queueVars, cur, attempt, handlerVars, dlq, adminVars, history>>

\* That update rejects: process() throws before it has tried a provider.
BeginAttemptFails(p) ==
  /\ "workerdb" \in Faults
  /\ pc[p] = "begin"
  /\ Goto(p, "throw")
  /\ UNCHANGED <<logVars, producer, queueVars, cur, attempt, idx, handlerVars,
                 dlq, adminVars, history>>

\* The loop's catch block: the next provider, or past the loop.
NextProvider(p) ==
  IF idx[p] < ChainLength
  THEN idx' = [idx EXCEPT ![p] = @ + 1] /\ Goto(p, "send")
  ELSE idx' = idx /\ Goto(p, "fail")

CountAcceptance(j) ==
  accepted' = [accepted EXCEPT ![j] = IF @ < AcceptedBound THEN @ + 1 ELSE @]

\* provider.send resolves.
ProviderAccepts(p) ==
  /\ pc[p] = "send"
  /\ CountAcceptance(cur[p])
  /\ Goto(p, "record")
  /\ UNCHANGED <<logVars, producer, queueVars, cur, attempt, idx, handlerVars,
                 dlq, adminVars, mishap, overrun>>

\* Mutant: a loop that does not await send(): its rejection is never seen.
RejectionUnseen(p) ==
  /\ pc[p] = "send"
  /\ Goto(p, "record")
  /\ UNCHANGED <<logVars, producer, queueVars, cur, attempt, idx, handlerVars,
                 dlq, adminVars, history>>

\* provider.send rejects and nothing was delivered.
ProviderRejects(p) ==
  /\ pc[p] = "send"
  /\ NextProvider(p)
  /\ UNCHANGED <<logVars, producer, queueVars, cur, attempt, handlerVars,
                 dlq, adminVars, history>>

\* provider.send rejects although the provider took the message.
ReplyLost(p) ==
  /\ "lostreply" \in Faults
  /\ pc[p] = "send"
  /\ CountAcceptance(cur[p])
  /\ mishap' = mishap \cup {cur[p]}
  /\ NextProvider(p)
  /\ UNCHANGED <<logVars, producer, queueVars, cur, attempt, handlerVars,
                 dlq, adminVars, overrun>>

\* Mutant: a loop that does not return after a success.
RecordSentAndGoOn(p) ==
  /\ pc[p] = "record"
  /\ status' = [status EXCEPT ![logOf[cur[p]]] = "SENT"]
  /\ NextProvider(p)
  /\ UNCHANGED <<attempts, producer, queueVars, cur, attempt, handlerVars,
                 dlq, adminVars, history>>

\* The update to SENT; process() returns.
RecordSent(p) ==
  /\ pc[p] = "record"
  /\ status' = [status EXCEPT ![logOf[cur[p]]] = "SENT"]
  /\ Goto(p, "complete")
  /\ UNCHANGED <<attempts, producer, queueVars, cur, attempt, idx, handlerVars,
                 dlq, adminVars, history>>

\* That update is inside the try: when it rejects, the next provider is tried.
RecordSentFails(p) ==
  /\ "workerdb" \in Faults
  /\ pc[p] = "record"
  /\ mishap' = mishap \cup {cur[p]}
  /\ NextProvider(p)
  /\ UNCHANGED <<logVars, producer, queueVars, cur, attempt, handlerVars,
                 dlq, adminVars, accepted, overrun>>

\* Every provider failed: the update to FAILED, then the rethrow.
RecordFailed(p) ==
  /\ pc[p] = "fail"
  /\ status' = [status EXCEPT ![logOf[cur[p]]] = "FAILED"]
  /\ Goto(p, "throw")
  /\ UNCHANGED <<attempts, producer, queueVars, cur, attempt, idx, handlerVars,
                 dlq, adminVars, history>>

\* That update rejects: process() throws its error instead.
RecordFailedFails(p) ==
  /\ "workerdb" \in Faults
  /\ pc[p] = "fail"
  /\ Goto(p, "throw")
  /\ UNCHANGED <<logVars, producer, queueVars, cur, attempt, idx, handlerVars,
                 dlq, adminVars, history>>

-----------------------------------------------------------------------------
(* What BullMQ does with the outcome, and the 'failed' event it emits.     *)

\* Mutants of the two conditions below: off by one, or missing.
RetriesLeftPlusOne(made) == made <= MaxAttempts
ExhaustedAlways(made) == TRUE
ExhaustedTooLate(made) == made > MaxAttempts

\* Job.moveToFailed retries while the attempt just made was not the last.
RetriesLeft(made) == made < MaxAttempts

\* handleFailure's condition for dead-lettering.
Exhausted(made) == made >= MaxAttempts

\* onFailed -> handleFailure, on a job that has made this many attempts: the
\* listener runs in the process that moved the job, on its own from there.
FailedEvent(p, j, made) ==
  IF Exhausted(made)
  THEN /\ hpc' = [hpc EXCEPT ![j] = "mark"]
       /\ howner' = [howner EXCEPT ![j] = p]
  ELSE UNCHANGED handlerVars

\* moveToCompleted, with the lock still held.
Complete(p) ==
  /\ pc[p] = "complete"
  /\ HoldsLock(p)
  /\ jobState' = [jobState EXCEPT ![cur[p]] = "completed"]
  /\ lock' = [lock EXCEPT ![cur[p]] = None]
  /\ Release(p)
  /\ UNCHANGED <<logVars, producer, logOf, attemptsMade, stalled, handlerVars,
                 dlq, adminVars, history>>

\* Mutant: a retry that forgets to count the attempt it follows.
RetryUncounted(p) ==
  /\ pc[p] = "throw"
  /\ HoldsLock(p)
  /\ RetriesLeft(attempt[p])
  /\ jobState' = [jobState EXCEPT ![cur[p]] = "delayed"]
  /\ lock' = [lock EXCEPT ![cur[p]] = None]
  /\ FailedEvent(p, cur[p], attempt[p])
  /\ Release(p)
  /\ UNCHANGED <<logVars, producer, logOf, attemptsMade, stalled, dlq, adminVars, history>>

\* moveToFailed with retries left: delayed by notifBackoff, which is never 0.
RetryWithBackoff(p) ==
  /\ pc[p] = "throw"
  /\ HoldsLock(p)
  /\ RetriesLeft(attempt[p])
  /\ attemptsMade' = [attemptsMade EXCEPT ![cur[p]] = attempt[p]]
  /\ jobState' = [jobState EXCEPT ![cur[p]] = "delayed"]
  /\ lock' = [lock EXCEPT ![cur[p]] = None]
  /\ FailedEvent(p, cur[p], attempt[p])
  /\ Release(p)
  /\ UNCHANGED <<logVars, producer, logOf, stalled, dlq, adminVars, history>>

\* moveToFailed on the last attempt: kept in the failed set (removeOnFail: false).
FailForGood(p) ==
  /\ pc[p] = "throw"
  /\ HoldsLock(p)
  /\ ~RetriesLeft(attempt[p])
  /\ attemptsMade' = [attemptsMade EXCEPT ![cur[p]] = attempt[p]]
  /\ jobState' = [jobState EXCEPT ![cur[p]] = "failed"]
  /\ lock' = [lock EXCEPT ![cur[p]] = None]
  /\ FailedEvent(p, cur[p], attempt[p])
  /\ Release(p)
  /\ UNCHANGED <<logVars, producer, logOf, stalled, dlq, adminVars, history>>

\* A slot whose lock is gone cannot move the job: BullMQ only reports an error.
ReportRefused(p) ==
  /\ pc[p] \in {"complete", "throw"}
  /\ ~HoldsLock(p)
  /\ Release(p)
  /\ UNCHANGED <<logVars, producer, queueVars, handlerVars, dlq, adminVars, history>>

\* The backoff or the quiet-hours delay has elapsed.
Promote(j) ==
  /\ jobState[j] = "delayed"
  /\ jobState' = [jobState EXCEPT ![j] = "wait"]
  /\ UNCHANGED <<logVars, producer, logOf, attemptsMade, stalled, lock, slotVars,
                 handlerVars, dlq, adminVars, history>>

\* Mutant: a checker that takes a locked job for a stalled one.
RecoverLocked(j) ==
  /\ jobState[j] = "active"
  /\ stalled[j] <= MaxStalledCount
  /\ stalled' = [stalled EXCEPT ![j] = @ + 1]
  /\ jobState' = [jobState EXCEPT ![j] = "wait"]
  /\ UNCHANGED <<logVars, producer, logOf, attemptsMade, lock, slotVars,
                 handlerVars, dlq, adminVars, history>>

\* The stalled-job checker finds an active job that nobody has locked.
RecoverStalled(j) ==
  /\ jobState[j] = "active"
  /\ lock[j] = None
  /\ stalled' = [stalled EXCEPT ![j] = @ + 1]
  /\ jobState' = [jobState EXCEPT ![j] = "wait"]
  /\ UNCHANGED <<logVars, producer, logOf, attemptsMade, lock, slotVars,
                 handlerVars, dlq, adminVars, history>>

\* A job that stalled too often is failed, without process(), by the slot that
\* fetches it; it counts as one attempt more.
FailStalled(p) ==
  /\ pc[p] = "idle"
  /\ \E j \in Job :
       /\ jobState[j] = "wait"
       /\ stalled[j] > MaxStalledCount
       /\ jobState' = [jobState EXCEPT ![j] = "failed"]
       /\ attemptsMade' = [attemptsMade EXCEPT ![j] = @ + 1]
       /\ FailedEvent(p, j, attemptsMade[j] + 1)
  /\ UNCHANGED <<logVars, producer, logOf, stalled, lock, slotVars, dlq, adminVars, history>>

\* A live worker's lock expires: it goes on working on a job it no longer owns.
LoseLock(p) ==
  /\ "lockloss" \in Faults
  /\ HoldsLock(p)
  /\ lock' = [lock EXCEPT ![cur[p]] = None]
  /\ overrun' = overrun \cup {cur[p]}
  /\ UNCHANGED <<logVars, producer, jobState, logOf, attemptsMade, stalled, slotVars,
                 handlerVars, dlq, adminVars, accepted, mishap>>

\* Worker process p dies with its slot, its lock and its listeners.
Die(p) ==
  /\ Release(p)
  /\ lock' = [j \in Job |-> IF lock[j] = p THEN None ELSE lock[j]]
  /\ hpc' = [j \in Job |-> IF howner[j] = p /\ hpc[j] \in {"mark", "save"}
                           THEN "aborted" ELSE hpc[j]]
  /\ UNCHANGED <<logVars, producer, jobState, logOf, attemptsMade, stalled,
                 howner, dlq, adminVars, history>>

Busy(p) == pc[p] # "idle" \/ \E j \in Job : howner[j] = p /\ hpc[j] \in {"mark", "save"}

Crash(p) == "crash" \in Faults /\ Busy(p) /\ Die(p)

-----------------------------------------------------------------------------
(* The 'failed' listener: DlqService.deadLetter for job j.                 *)

\* logs.update to DLQ.
DeadLetterMark(j) ==
  /\ hpc[j] = "mark"
  /\ status' = [status EXCEPT ![logOf[j]] = "DLQ"]
  /\ hpc' = [hpc EXCEPT ![j] = "save"]
  /\ UNCHANGED <<attempts, producer, queueVars, slotVars, howner, dlq, adminVars, history>>

\* dlq.save of the record.
DeadLetterSave(j) ==
  /\ hpc[j] = "save"
  /\ dlq' = [dlq EXCEPT ![j] = "pending"]
  /\ hpc' = [hpc EXCEPT ![j] = "done"]
  /\ UNCHANGED <<logVars, producer, queueVars, slotVars, howner, adminVars, history>>

\* Either rejects: nobody awaits the listener, so the unhandled rejection ends
\* the worker process.
HandlerRejects(p) ==
  /\ "handlerdb" \in Faults
  /\ \E j \in Job : howner[j] = p /\ hpc[j] \in {"mark", "save"}
  /\ Die(p)

-----------------------------------------------------------------------------
(* DlqService.retry, request a.                                            *)

\* dlq.findOne: any record will do, retried or not; its payload names the row.
RetryFind(a) ==
  /\ apc[a] = "idle"
  /\ \E r \in Job :
       /\ dlq[r] # "none"
       /\ rec' = [rec EXCEPT ![a] = r]
       /\ logOf' = [logOf EXCEPT ![a] = logOf[r]]
  /\ apc' = [apc EXCEPT ![a] = "reset"]
  /\ UNCHANGED <<logVars, producer, jobState, attemptsMade, stalled, lock, slotVars,
                 handlerVars, dlq, history>>

\* Mutant: a retry that resets the row and flags the record, but adds no job.
RetryResetOnly(a) ==
  /\ apc[a] = "reset"
  /\ status' = [status EXCEPT ![logOf[a]] = "PENDING"]
  /\ apc' = [apc EXCEPT ![a] = "flag"]
  /\ UNCHANGED <<attempts, producer, queueVars, slotVars, handlerVars, dlq, rec, history>>

\* logs.update back to PENDING.
RetryReset(a) ==
  /\ apc[a] = "reset"
  /\ status' = [status EXCEPT ![logOf[a]] = "PENDING"]
  /\ apc' = [apc EXCEPT ![a] = "add"]
  /\ UNCHANGED <<attempts, producer, queueVars, slotVars, handlerVars, dlq, rec, history>>

\* queue.add of a new job with the record's payload.
RetryAdd(a) ==
  /\ apc[a] = "add"
  /\ jobState' = [jobState EXCEPT ![a] = "wait"]
  /\ apc' = [apc EXCEPT ![a] = "flag"]
  /\ UNCHANGED <<logVars, producer, logOf, attemptsMade, stalled, lock, slotVars,
                 handlerVars, dlq, rec, history>>

\* dlq.update: the record is marked retried.
RetryFlag(a) ==
  /\ apc[a] = "flag"
  /\ dlq' = [dlq EXCEPT ![rec[a]] = "retried"]
  /\ apc' = [apc EXCEPT ![a] = "done"]
  /\ UNCHANGED <<logVars, producer, queueVars, slotVars, handlerVars, rec, history>>

\* The request dies, or one of its statements rejects.
RetryAborts(a) ==
  /\ "api" \in Faults
  /\ apc[a] \in {"reset", "add", "flag"}
  /\ apc' = [apc EXCEPT ![a] = "aborted"]
  /\ UNCHANGED <<logVars, producer, queueVars, slotVars, handlerVars, dlq, rec, history>>

-----------------------------------------------------------------------------

Produce(l) == PersistLog(l) \/ EnqueueJob(l) \/ ProducerFails(l)

Process(p) ==
  \/ BeginAttempt(p) \/ BeginAttemptFails(p)
  \/ ProviderAccepts(p) \/ ProviderRejects(p) \/ ReplyLost(p)
  \/ RecordSent(p) \/ RecordSentFails(p)
  \/ RecordFailed(p) \/ RecordFailedFails(p)

Finish(p) == Complete(p) \/ RetryWithBackoff(p) \/ FailForGood(p) \/ ReportRefused(p)

Work(p) == Fetch(p) \/ FailStalled(p) \/ Process(p) \/ Finish(p)

DeadLetter(j) == DeadLetterMark(j) \/ DeadLetterSave(j)

RetryRequest(a) == RetryReset(a) \/ RetryAdd(a) \/ RetryFlag(a) \/ RetryAborts(a)

\* Nothing is left to do: every job is finished or was never added.
Quiescent ==
  /\ \A l \in Log : producer[l] \in {"enqueued", "failed"}
  /\ \A j \in Job : /\ jobState[j] \in {"absent", "completed", "failed"}
                    /\ hpc[j] \in {"none", "done", "aborted"}
  /\ \A p \in Proc : pc[p] = "idle"
  /\ \A a \in Retry : apc[a] \in {"idle", "done", "aborted"}

\* The system may rest there, waiting for the next request.
Rest == Quiescent /\ UNCHANGED vars

Next ==
  \/ \E l \in Log : Produce(l)
  \/ \E p \in Proc : Work(p) \/ LoseLock(p) \/ Crash(p) \/ HandlerRejects(p)
  \/ \E j \in Job : Promote(j) \/ RecoverStalled(j) \/ DeadLetter(j)
  \/ \E a \in Retry : RetryFind(a) \/ RetryRequest(a)
  \/ Rest

Spec == Init /\ [][Next]_vars

(***************************************************************************)
(* Fairness: a worker keeps fetching and its awaits settle one way or the  *)
(* other; BullMQ promotes delayed jobs and checks for stalled ones on      *)
(* timers; a listener or request in progress goes on.  Nothing obliges a   *)
(* caller to produce, an administrator to retry, or a fault to happen.     *)
(***************************************************************************)
Fairness ==
  /\ \A p \in Proc : WF_vars(Work(p))
  /\ \A j \in Job : WF_vars(Promote(j)) /\ WF_vars(RecoverStalled(j)) /\ WF_vars(DeadLetter(j))
  /\ \A a \in Retry : WF_vars(RetryRequest(a))
  /\ \A l \in Log : WF_vars(EnqueueJob(l) \/ ProducerFails(l))

FairSpec == Spec /\ Fairness
=============================================================================
