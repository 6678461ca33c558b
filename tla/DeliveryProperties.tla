------------------------- MODULE DeliveryProperties -------------------------
(***************************************************************************)
(* What makes the delivery core correct, and the complete list of the ways *)
(* in which it may fall short: every property names its exceptions by the  *)
(* fault or the sequence of calls that leads to them.                      *)
(***************************************************************************)
EXTENDS Delivery

JobsOf(l) == {j \in Job : logOf[j] = l}

\* The job can still make an attempt, or is making one.
Live(j) == jobState[j] \in {"wait", "delayed", "active"}

\* Two requests retried the same dead-letter record of row l: nothing in
\* DlqService.retry looks at `retried`.
RetriedTwice(l) ==
  \E a, b \in Retry : a # b /\ logOf[a] = l /\ rec[a] = rec[b] /\ rec[a] # None

\* Some job of row l stopped being extended by its worker and was redelivered.
Redelivered(l) == \E j \in JobsOf(l) : stalled[j] > 0

-----------------------------------------------------------------------------
(* Who may work on a notification, and when.                               *)

\* A job is in two worker slots at once only if its lock was lost and it was
\* redelivered: base.processor.ts never runs twice concurrently otherwise.
OneSlotPerJob ==
  \A p, q \in Proc :
    (p # q /\ cur[p] # None /\ cur[p] = cur[q]) => cur[p] \in overrun /\ stalled[cur[p]] > 0

\* Two live jobs carry the same row only after an administrator has retried one
\* of its dead-letter records twice (dlq.service.ts, retry).
ParallelJobsNeedDoubleRetry ==
  \A j, k \in Job :
    (j # k /\ Live(j) /\ Live(k) /\ logOf[j] = logOf[k]) => RetriedTwice(logOf[j])

\* Only a job that failed after its last permitted attempt is dead-lettered
\* (handleFailure), and BullMQ will never touch it again.
DeadLetterExhausted ==
  \A j \in Job :
    (hpc[j] # "none" \/ dlq[j] # "none") =>
      jobState[j] = "failed" /\ attemptsMade[j] = MaxAttempts

-----------------------------------------------------------------------------
(* What a status or a job state says about the provider.                   *)

\* A row says SENT only if a provider accepted one of its jobs, and a job BullMQ
\* holds as completed was accepted: process() never returns normally otherwise.
SentWasAccepted == \A l \in Log : status[l] = "SENT" => \E j \in JobsOf(l) : accepted[j] > 0

CompletedWasAccepted == \A j \in Job : jobState[j] = "completed" => accepted[j] > 0

SuccessIsTrue == SentWasAccepted /\ CompletedWasAccepted

\* Nothing is delivered twice, by one job or by two jobs of the same row, unless
\* a job was redelivered, a success was not recorded or its reply was lost, or
\* one dead-letter record was retried twice.
DuplicateNeedsCause ==
  \A j, k \in Job :
    (accepted[j] > 0 /\ accepted[k] > 0 /\ logOf[j] = logOf[k] /\ (j # k \/ accepted[j] > 1)) =>
      \/ RetriedTwice(logOf[j])
      \/ \E i \in JobsOf(logOf[j]) : stalled[i] > 0 \/ i \in mishap

\* A row that says SENT goes on saying so, unless one of its jobs was
\* redelivered or one of its dead-letter records was retried twice.
SentIsFinal ==
  [][\A l \in Log : (status[l] = "SENT" /\ status'[l] # "SENT") =>
       Redelivered(l) \/ RetriedTwice(l)]_vars

\* A row that says DLQ goes on saying so until an administrator's request resets
\* it, unless a worker outlived its lock on one of its jobs and writes late, or
\* one of its records was retried twice: the dashboard's list and the row agree.
DlqIsFinal ==
  [][\A l \in Log : (status[l] = "DLQ" /\ status'[l] # "DLQ") =>
       \/ \E a \in Retry : apc[a] = "reset" /\ logOf[a] = l
       \/ \E j \in JobsOf(l) : j \in overrun
       \/ RetriedTwice(l)]_vars

-----------------------------------------------------------------------------
(* No notification is forgotten.                                           *)

\* A live job that has not yet recorded its success.
AtWork(j) == Live(j) /\ \A p \in Proc : ~(cur[p] = j /\ pc[p] = "complete")

\* Something will still be done about row l, or can be from the dashboard: a
\* producer about to enqueue, a job, a listener, a request, or a record that is
\* listed as not retried and that no request is about to flag.
Pursued(l) ==
  \/ producer[l] = "saved"
  \/ \E j \in JobsOf(l) :
       \/ AtWork(j)
       \/ hpc[j] \in {"mark", "save"}
       \/ dlq[j] = "pending" /\ ~\E a \in Retry : rec[a] = j /\ apc[a] = "flag"
  \/ \E a \in Retry : logOf[a] = l /\ apc[a] = "add"

\* The ways a row can be left behind: its job was never added; a worker outlived
\* its lock and wrote late; a listener died before the record was saved; a job
\* stalled too often and was failed before its last attempt; of two requests for
\* one record, one died after resetting the row.
Stranded(l) ==
  \/ producer[l] = "failed"
  \/ \E j \in JobsOf(l) :
       \/ j \in overrun
       \/ hpc[j] = "aborted"
       \/ jobState[j] = "failed" /\ attemptsMade[j] < MaxAttempts
  \/ \E a, b \in Retry : /\ a # b /\ logOf[a] = l /\ rec[a] = rec[b]
                         /\ apc[a] = "aborted" /\ apc[b] \in {"flag", "done", "aborted"}

\* A persisted row that does not say SENT is pursued, or stranded in one of the
\* known ways; there is no other way to lose a notification.
NothingLost ==
  \A l \in Log : status[l] \notin {"none", "SENT"} => Pursued(l) \/ Stranded(l)

\* What a job has left: its attempts, the stalls it is allowed, and the way to the
\* end of the attempt it is in.
Stages == [absent |-> 4, delayed |-> 3, wait |-> 2, active |-> 1, completed |-> 0, failed |-> 0]

MovesLeft(j) ==
  3 * ((MaxAttempts - attemptsMade[j]) + (MaxStalledCount + 1 - stalled[j])) + Stages[jobState[j]]

\* How many more steps a slot takes at most before it fetches again.
StepsLeft(p) ==
  LET providers == 2 * (ChainLength - idx[p])
  IN  CASE pc[p] = "idle" -> 0
        [] pc[p] \in {"throw", "complete"} -> 1
        [] pc[p] = "fail" -> 2
        [] pc[p] = "record" -> providers + 3
        [] pc[p] = "send" -> providers + 4
        [] pc[p] = "begin" -> 2 * ChainLength + 3

\* Nothing ever sets a job back, no crash, stall, lost lock or rejection: each of
\* its moves uses up some of what it has left, which is finite; and each step of a
\* busy slot brings it nearer to the end of process().  This is why jobs terminate.
RunsDown ==
  [][/\ \A j \in Job : \/ UNCHANGED <<jobState[j], attemptsMade[j], stalled[j]>>
                       \/ MovesLeft(j)' \in 0 .. MovesLeft(j) - 1
     /\ \A p \in Proc : pc[p] # "idle" =>
          \/ UNCHANGED <<pc[p], cur[p], attempt[p], idx[p]>>
          \/ StepsLeft(p)' \in 0 .. StepsLeft(p) - 1]_vars

\* Every job that is added is eventually completed or failed, whatever crashes,
\* lost locks and rejections come (MAX_ATTEMPTS and maxStalledCount are finite).
JobsTerminate ==
  \A j \in Job : Live(j) ~> jobState[j] \in {"completed", "failed"}

\* A row that is PENDING or FAILED eventually says SENT or DLQ, or is stranded,
\* or waits for the administrator whose request to retry it died.
Settles ==
  \A l \in Log : status[l] \in {"PENDING", "FAILED"} ~>
                   \/ status[l] \in {"SENT", "DLQ"}
                   \/ Stranded(l)
                   \/ \E a \in Retry : logOf[a] = l /\ apc[a] = "aborted"
-----------------------------------------------------------------------------
(* The contract with the API side.                                         *)

\* Whatever workers, listeners and administrators do, a produced notification
\* is a row first and a job second, once each (produce, steps 5 and 6), and its
\* row turns SENT only after a provider accepted one of its jobs (process).
Contract == INSTANCE Handoff WITH
  Item <- Log,
  rows <- {l \in Log : status[l] # "none"},
  jobs <- {l \in Log : jobState[l] # "absent"},
  delivered <- {l \in Log : \E j \in JobsOf(l) : accepted[j] > 0},
  claimed <- {l \in Log : status[l] = "SENT"}

HandedOff == Contract!Spec

-----------------------------------------------------------------------------
(* What comments of the source say, without the exceptions above.          *)

\* channel-resolver.service.ts:10, "the worker tries each in order until one
\* succeeds": after a provider has accepted, process() does not try another.
UntilOneSucceeds ==
  [][\A p \in Proc : pc[p] = "record" => pc'[p] # "send"]_vars
=============================================================================
