# Formal model of the notification system

TLA+ modules that model the back-end and the front-end of this repository, TLC
configurations that check them on small instances, and TLAPS proofs for every
value of the constants. Paths below are relative to `back-end/src/` unless they
start with `front-end/`.

## The system

A NestJS back-end takes requests to notify users, persists one row per
notification in Postgres, puts one job per row on a BullMQ queue in Redis, and
delivers the jobs with queue workers through a chain of providers. Jobs that run
out of attempts go to a dead-letter table, from which an administrator retries
them in a Next.js dashboard. In-app notifications are pushed over Socket.IO.

    dashboard --HTTP--> NotificationsService --> ProducerService --add--> BullMQ queue
        ^                                          |  ^   ^                   |
        |                                     row  |  |   `- RateLimiter      | fetch
    Socket.IO                                      v  |      (Redis)          v
        |               PreferencesService --- Postgres <--status-- BaseChannelProcessor
        |               (opt-in, quiet hours)      ^                  |  'failed' event
        `---- InAppGateway <-- InAppChannel <------+------------------'        |
                                                   `--- DlqService <-----------'

### Inventory

| Component | State | Operations | Interacts by |
|---|---|---|---|
| Intake API (`notifications.service`, `producer.service`) | `notification_logs` rows (status, attempts, payload) | `send`, `batch`, `produce`, `produceSync` | one `produce` per recipient, all concurrently; awaits on Postgres, Redis, providers |
| Preferences (`preferences.service`) | one row per user and channel: opt-in, quiet hours, priority | `update` (per channel: find, then update or insert), `getForUser`, `getPreference`, `quietHoursDelayMs` | read by the producer while PUTs and the seed write |
| Rate limiter (`common/rate-limiter.service`) | a sorted set per user and channel, with an expiry | `consume`: `Date.now()`, then a Lua script | several API processes, one Redis |
| Queues (`queue/*`, BullMQ) | jobs: waiting, delayed, active under a lock, completed, failed; attempts made, stalled count | add, fetch, retry with backoff, fail, promote, recover stalled | producers, workers and timers |
| Delivery workers (`workers/*`) | the slot's job and place in the provider chain; the row's status | `process`, `handleFailure` | several slots, callbacks of the `failed` event |
| Dead-letter service (`queue/dlq.service`) | `dead_letter_records`, `retried` | `deadLetter`, `retry`, `list` | called by listeners and by concurrent requests |
| Channel resolver and providers (`channels/*`) | none after start-up | `resolve`, `send` | external mail services, the gateway |
| In-app gateway (`inapp.gateway`) | Socket.IO rooms `user:<id>` and `admins` | `handleConnection`, `emitToUser`, `emitToAdmins` | browsers |
| Dashboard (`front-end/`) | current user, socket, bell, per-page state and requests in flight | switch user, navigate, poll, save, retry, confirm | the HTTP API and the socket |
| Templates, users | tables only the seed writes | `render`, `findById`, `findAdmins` | awaited by the producer |
| Schema and seed (`migrations`, `seed`) | the tables and their constraints | eight inserts, each after a look for its row | run by hand, also next to the API or to another run |
| Logging, metrics, correlation, bootstrap, markup | -- | -- | not modelled |

### What is hard

* **Interleaving.** Every `await` lets other workers, listeners and requests run.
  A worker slot may go on after it lost its job's lock.
* **Partial failure.** Every statement can reject between two others that
  succeeded: row saved but job not added, message sent but not recorded, row
  marked DLQ but record not saved, row reset but job not added.
* **Crashes.** A worker process dies; BullMQ redelivers its job, at most
  `maxStalledCount` times; its pending `failed` listeners are lost.
* **Time.** Scripts reach Redis late and out of order; wall clocks jump; the delay
  of a notification is old by the time its job is added.
* **Stale state.** The dashboard's answers arrive in any order, for users and
  pages that are no longer current.

### What makes each component correct

* Delivery: SENT and completed mean accepted; one slot per job; nothing is
  delivered twice, changed after SENT, or forgotten, but for named causes; every
  job ends and every row settles.
* Intake: the row comes before its job, each once; opt-outs are honoured; answers
  account for every recipient; an admin receives a broadcast once per recipient, but
  for repeats after a worker's mishap.
* Rate limiter: a bound on what a window charges; no denial with a token left.
* Quiet hours: a job is held until the window ends, and no longer, off by no more
  than rendering and saving took.
* Rate limit and quiet hours together: the jobs that are not delayed keep the rate, and
  those released at the end of a window are no more than the limit let in
  meanwhile, both times the number of calls that share a millisecond (which the
  limiter counts once); the order of a user's notifications is kept.
* Preferences and seed: a PUT that was answered is not undone by an older one; a
  failure has a cause; the seed completes what earlier runs left undone.
* Dashboard: what a user sees, hears, stores and retries is his own and is asked
  for once, but for named sequences of clicks.

## Modules

| Module | Models | Lines of the code |
|---|---|---|
| `Handoff` | the abstract contract: a row is persisted once, then its job is added once; only a row that is there is delivered, and only what was delivered is said to be sent | `producer.service.ts` steps 5 and 6, `base.processor.ts:29-79` |
| `Delivery` | rows, queue, workers, listeners, dead letters, retries | `producer.service.ts:126-178`, `base.processor.ts`, `email/inapp.worker.ts`, `dlq.service.ts`, `queue.module.ts` |
| `DeliveryProperties` | what makes `Delivery` correct | |
| `Intake` | send, batch, broadcast, the inline path, PUT of an opt-in, the rooms | `notifications.service.ts`, `producer.service.ts`, `preferences.service.ts:32-65`, `inapp.gateway.ts` |
| `Preferences` | PUTs of several channels and runs of the seed | `preferences.service.ts:24-65`, `seed.ts`, the tables of the migration they write |
| `QuietWindow` | `quietHoursDelayMs` as a function | `preferences.service.ts:67-115` |
| `QuietHours` | the delay from its computation to the release of the job | `producer.service.ts`, steps 3 to 6 |
| `RateLimiter` | `consume` and its script | `rate-limiter.service.ts` |
| `Admission` | `produce` from the rate limit to the queue: `RateLimiter` composed with `QuietWindow` | `producer.service.ts`, steps 2 to 6 |
| `Dashboard` | the browser tab | `front-end/components`, `lib`, `app` |
| `MC*` | small instances for TLC | |
| `*Proofs` | theorems of the module they are named after | |

`Delivery` and `Intake` overlap in the producer and meet in `Handoff`: both are
shown to implement it, `Delivery` with the row's SENT as the claim that it was
sent, `Intake` with the 'sent' that `produceSync` answers. `Intake` makes a worker's
attempt at a job one step `Push`, and replaces the rate limiter and quiet hours by
their outcomes (`Consume` may refuse, `Enqueue` may delay a user who has a
preference row). `Admission` puts those two together for one user and channel, and
is shown to implement `RateLimiter`. `Intake` has the PUTs of one channel that
`produce` meets half-way, `Preferences` the PUTs as they meet one another.

### State and actions

**Delivery.** `status`/`attempts` are the log row's columns, `jobState`,
`attemptsMade`, `stalled` and `lock` BullMQ's job, `pc`/`cur`/`attempt`/`idx` the
local state of one run of `process` in a worker slot, `hpc` the `failed` listener
of a job, `apc`/`rec` a retry request, `dlq` the record. A produced job carries
the name of its row and a requeued one the name of its request, so
`Job == Log \cup Retry`. One action is one await: `BeginAttempt` (first update and
`resolve`), `ProviderAccepts`/`ProviderRejects`/`ReplyLost`, `RecordSent`,
`RecordFailed`, then BullMQ's `Complete`, `RetryWithBackoff` or `FailForGood`; the
listener's `DeadLetterMark` and `DeadLetterSave`; the request's `RetryFind`,
`RetryReset`, `RetryAdd`, `RetryFlag`. Each `...Fails` and `...Rejects` action is
the same await rejecting; a rejected statement is taken not to have been applied.
BullMQ (5.78) itself is external: the model keeps the part of its job life cycle
the code relies on. `accepted`, `mishap` and `overrun` are history.

**Intake.** A task is one call of `produce` or `produceSync`, for a request, a
recipient and a copy (userIds may repeat itself). `pc` names the await it is at;
`Start` is the `map` of `batch`, `RespondOk`/`RespondError` the two outcomes of
`Promise.all`. A PUT finds and then writes, and an insert may meet the unique
constraint. `pushed` counts how often providers accepted a job from the workers.
`Push` is a whole attempt: `PushSent` gets it accepted and recorded; after
`PushMishap` providers have accepted it, and yet a lost reply, a rejected update to
SENT, or the worker's death or lost lock leaves the job to be tried again, or done
if that was its last attempt; `PushFails` has it accepted by nobody. `Room` says whose
sockets an emit reaches, `Received` which emits a user's sockets got. Dead letters
and their retries are left to `Delivery`. `accepted` (the inline path's acceptances),
`mishap` and `optedOut` are history: `optedOut` holds the tasks whose recipient had
opted out when they started and sends no PUT. A PUT names a user that exists, as the
foreign key demands.

**Preferences.** `pc`, `at` and `found` are the local state of one `update` or
`seed` between two awaits: `find` before `findOne`, `write` before the update or
insert, `list` before `getForUser`. `PutRefused` and `SeedRefused` are the unique
and the foreign key of the migration. A row's settings are abstracted to the
request that wrote them, its priority to the request that chose it. `before` (who
had ended when this one began) and `rejected` are history.

**QuietHours.** The state is the user's local second of day and the job's
remaining delay. `Check` computes the delay, `Elapse` lets rendering and saving
take their time, `Add` hands the delay to BullMQ as it was computed, and from then
on clock and delay tick together; `ShiftClock` moves only the former.

**RateLimiter.** `Stamp` is `Date.now()`, `Allow` and `Deny` are the script, `Fail`
is the script rejected. "Allowed" is the script's answer: `consume` may still reject
afterwards, in its ZCARD, with the token charged (`Reject` of `Admission`). The
member is a function of the timestamp, so the sorted set is a set of timestamps.
The clocks of the processes are taken to agree.

**Admission.** The variables and actions of `RateLimiter`, and per call the job
and its delay. `Consume` is any step of the limiter; `Check`, `Reject` and `Add` are
the rest of `produce` (`Reject` also the ZCARD that ends `consume`). `Pass` is the
tick of the limiter's clock and of the user's (`now`); it waits for a call that has
used up its bound (`Lag`, `MaxSlip`).

**Dashboard.** One tab, one page mounted at a time. A response reaches the state
of the page that asked for it if it is still mounted. A user's settings are
abstracted to the user they were entered for. A confirm whose page is left goes on to
its broadcast in the code, and is no longer followed in the model: the page it
would report to is gone. Whether a PUT that nobody waits for
any more reached the server is decided when the page stops waiting. `crossed`,
`loosened`, `ordered` and `erred` are history.

## Runs

| Run | Instance | What it shows |
|---|---|---|
| `delivery_one_retry` | 1 row, 1 retry request, 2 slots, 2 attempts, 2 providers, every fault | types; one slot per job; SENT and completed are true; only exhausted jobs are dead-lettered; DLQ stays until a retry; nothing is lost; jobs and slots run down |
| `delivery_two_retries` | the same with 2 retry requests, without crashes or lost locks | parallel jobs, duplicates and changes after SENT have causes; `Handoff` is implemented |
| `delivery_progress` | 1 row, 1 request, 1 slot, every fault, fairness | jobs end, rows settle |
| `quiet_hours` | a day of 8 units, every window, 2 units from check to add, a jump by one | a notification is off its quiet hours by the slip only, and misses the end by the jump |
| `rate_limit` | 5 calls, 2 tokens, a window of 5, a lag of 2 | the bound on charges, no unjustified denial |
| `admission` | 3 calls, 1 token, a window of 4, a day of 6, a plain, a wrapping and an unset quiet window | the rate of undelayed jobs and the burst of jobs at the end of quiet hours, by how many calls share a millisecond; the order |
| `intake` | 1 request of six kinds, 2 users and an unknown id, 2 PUTs, 2 providers, 2 acceptances of a job | opt-outs, answers, copies of a broadcast with repeated emits, `Handoff` |
| `preferences` | 2 PUTs of 2 channels in either order, 2 runs of the seed, any statement rejecting | the latest PUT wins, answers, priorities and failures are explained, the seed completes |
| `dashboard` | 2 users, 2 records, 1 item, 2 loads and 2 retries in flight | what is current, crossed, doubled |
| `until_one`, `rate_burst`, `settings_switch` | small | violated: see Disagreements |

**Bounds.** Two slots are enough for a job to be redelivered while its first slot
is still running; two attempts for a first, a last and a retried failure; two
providers for a fallback; `maxStalledCount = 1` is BullMQ's default. `AcceptedBound`
caps the count of acceptances of a job at 2, as no property tells more apart. The
production numbers (5 attempts) change the number of rounds and nothing else.
With the double retry two requests are the interesting case, and they are checked
without crashes so that the causes are the requests' own. A day of 8 units holds
every order of now, start and end, equal ends and wraps. Five calls overfill a
window of two tokens twice; the lag of two lets scripts swap. In `admission` a
token is charged, held back, and a second one charged in the next window before
the user's morning, so that both arrive together; a third is one more than
the bound for calls that share no millisecond. Scripts are not late there
(`Lag = 0`), which `rate_limit` covers. For `intake` one request is the unit of
every property; the PUTs are its concurrency, and two acceptances (`Pushes`) are a
first emit
and a repeated one. In `preferences` the bodies name a
channel the seed provides and one it does not; two runs of the seed overlap,
or one completes what the other left. The bounds of `RateLimiter` (`Lag`,
`Horizon`), `QuietHours` and `Admission` (`MaxSlip`), `Intake` (`Copies`, `Pushes`)
and `Dashboard` (`Flight`,
`MaxLoads`) are constants named as such; the theorems hold for every value of them.

**Deadlock** is checked, except in the rate limiter, admission, intake and
preferences runs, whose finite sets of calls are used up. `Delivery` may rest only
when no job, listener or
request has anything left to do (`Rest`), so that its runs show that nobody waits
for ever.

**Fairness.** `Delivery!Fairness`: a BullMQ worker loops and its awaits settle one
way or the other; delayed jobs are promoted and stalled ones recovered by timers; a
listener or request under way goes on. None is assumed of callers,
administrators or faults, and faults are bounded by the code (attempts, stalled
count) and not by the model. `Dashboard!FairSpec`: the interval that is set fires,
and among the loads of a user infinitely many are answered (strong fairness, since
an answer is not always on its way).

## Proofs

All of them hold for every value of the constants that satisfies the named
assumptions of the modules: disjoint identifiers, positive numbers of attempts and
providers, the subset relations between users. Eight theorems assume more, and say
so: finitely many users (`BroadcastIsCopiedOncePerUser`) or calls
(`SurplusIsSharing`, `LimitHoldsWithoutSharing`, `UndelayedRateHolds`,
`BurstIsBounded`), and which faults do not occur
(`NothingIsLostWithoutFaults`, `OneDeliveryWithoutFaults`,
`FirstSuccessEndsTheChain`). `SurplusIsSharing` also assumes that the lag is shorter
than the window, and `LimitHoldsWithoutSharing` that it is zero.

* **`DeliveryProofs`.** `Structure` is the inductive core: attempts are bounded,
  a lock belongs to the slot at work, a slot without its job's lock is an overrun,
  jobs are added by their owner, a record is saved once by its listener. On it rest
  the properties in turn. `NothingLost` is preserved because each thing that
  pursues a row hands it to the next (a slot to a listener, a listener to a record,
  a record to a request, a request to a job). For `SentIsFinal`, `DlqIsFinal` and
  `DuplicateNeedsCause` the jobs of a row are seen as a line in which each job but
  one has been retried (`OneEnd`); an accepted, SENT or dead-lettered job sits at
  the end of that line (`AcceptedAtTheEnd`, `SentAtTheEnd`, `DeadAtTheEnd`), where
  no other job can write the row, unless there is a cause. A section of frame lemmas
  says which actions write which variable, so that each preservation proof looks at
  the few that do.
  - `EverythingRunsDown` is the part of termination that is not about fairness.
    A job has `MovesLeft`, a slot `StepsLeft`; both are natural numbers, and every
    step that touches a job or a busy slot lowers its own. The stage of a job may
    go back (active to delayed or waiting), but only with an attempt or a stall more.
    Under `Fairness` a live job always has a step ahead of it: a delayed one is
    promoted, a waiting one fetched or failed, an active one without a lock
    recovered, and one with a lock belongs to a busy slot (`LocksOwned`), which runs
    down to `Finish`. So `JobsTerminate` follows by hand; TLC checks it as a whole.
  - `RestIsSettled` is the other half of `Settles`: when nothing moves any more, a row
    that still says PENDING or FAILED is stranded or waits for the administrator whose
    request died. Its invariant `OpenRowsInHand` is sharper than `NothingLost`: an open
    row has a producer, a job, a listener that has not marked it yet or a request at
    work on it now, and a record listed in the dashboard does not count.
  - `ExceptionsHaveFaults` says which fault is behind each exception that
    `NothingLost`, `DuplicateNeedsCause` and `OneSlotPerJob` allow. Its kernel is
    `Attended`: while no process dies and no lock is lost, an active job is locked,
    so that none stalls. Hence the two statements without exceptions, for systems
    without those faults, and `FirstSuccessEndsTheChain`: a rejected update to SENT
    is the only way to the behaviour that `until_one` finds.
  - `ImplementsHandoff` is the refinement, step by step: saving is `Persist`,
    `queue.add` is `Add`, an accepted send is `Deliver` (the row exists, as a slot's
    job was added: `RowsFirst`), the update to SENT is `Claim` (`Acceptance`), and
    each other write of a status is `Retract` or a stutter.
* **`IntakeProofs`.** The invariant relates a task's place to its row, its job,
  the request's answer (`Recorded`, `Answered`), the providers tried (`Tried`) and
  the preference behind it (`StillOut`). For a broadcast, `OneCopyEach` makes its
  copies injective in their users, and `Pushed` says that a job which was accepted
  had been added and, without a mishap, is done and was accepted once; so the emits
  that count are injective in the users as well, and there are no more of them.
  `ImplementsHandoff` maps the inline path as well.
* **`PreferencesProofs`.** The invariant says of each channel a PUT has passed
  that the row is there and that its writer had not ended when the PUT came, and
  of each row a run of the seed has passed that it is there. Rows are never
  deleted, which makes both stable; a refused insert is explained by who inserted
  the row after `findOne` looked.
* **`QuietWindowProofs`.** The function: bounds, counting down, leading to the end
  of the window, and not being overtaken: a later check never ends earlier.
* **`QuietHoursProofs`.** The wait: the remaining delay is the one the function
  would give on the planned clock (`DelayIsRight`), and leads to the end up to jump
  and slip.
* **`RateLimiterProofs`.** `ZsetFaithful` says that the key holds every charged
  millisecond younger than a window, despite late scripts and expiry;
  `StampsRecent` bounds how late a stamp can be. The counting argument takes the
  latest stamp of an overfull span. `PartsBound`, a set covered by finitely many
  parts of at most m elements, is proved once by choosing for each element its part
  and its place there. With the calls of each charged millisecond as the parts it
  gives `CallsByStamps` (m stamps of at most k calls each are no more than k * m
  calls) and `SurplusIsSharing`: what `rate_burst` finds is due to shared milliseconds,
  and exceeds the limit by their size at most.
* **`AdmissionProofs`.** `AdmissionSpec` implements `RateLimiter!Spec`, so that
  `WindowBound` carries over; `Timely` relates each call's stamp, check and due
  time, which turns the bound on charged milliseconds into one on the jobs delivered,
  by `CallsByStamps`. `Ordered` keeps the
  due times as they were planned at the checks in the order of the checks, and each
  due time within `MaxSlip` of its plan. `BurstIsBounded` needs no induction over
  the windows of a night: `HeldBriefly` bounds the time from stamp to due, so that
  the stamps of the jobs due at one moment lie in a span of known length; dividing their
  distance to its start by the window's length names the part each is in
  (`Divided`), `AnyWindow` bounds a part, `PartsBound` adds up the stamps, and
  `CallsByStamps` goes from stamps to jobs.
* **`DashboardProofs`.** `SaveKnown` and `FlightKnown` say what a request in flight
  was asked for, `SocketFollows` which socket is connected, `SettingsOwn` whose
  settings are shown until a switch, `RetryGuarded` that a record with a retry in
  flight has its button disabled, `EmailsOnce` that an order is confirmed once
  until an error is shown.

**Only model-checked:** liveness (`JobsTerminate`, `Settles`, `HistoryCatchesUp`),
which is beyond the prover. Every invariant and every action property of the
passing runs is a theorem.

## Disagreements between the code and what it says

* `until_one` -- the resolver says that a worker tries providers until one
  succeeds; the update to SENT is in the same `try`, so its failure, and nothing else
  (`FirstSuccessEndsTheChain`), sends the message again through the next provider
  (`base.processor.ts:59`).
* `rate_burst` -- each send is said to be recorded; calls of the same millisecond
  share a member and count once (`rate-limiter.service.ts:60`);
  `LimitHoldsWithoutSharing` shows that nothing else exceeds the limit but the lag.
* `settings_switch` -- a user is to set his own quiet hours; Save can store another
  user's after a switch (`front-end/app/preferences/page.tsx:57`).

Seen while modelling, and not a run of their own: a job that failed for stalling
too often is never dead-lettered, as it has attempts left (`base.processor.ts:110`;
`NothingLost` lists such jobs as stranded); every copy of a broadcast goes to the
room of all admins, also of those who opted out (`inapp.channel.ts:31`), and again
when the worker's update to SENT rejects (`base.processor.ts:59`; `BroadcastCopies`
says how many an admin receives otherwise); the worker
is said to have no HTTP server (`README.md:42`), and `main.ts:29` listens all the
same.

## Not modelled

Logging, metrics and correlation ids, which no decision of the program reads;
bootstrap and configuration, whose values are the constants; the migration's
`down()` and the log and dead-letter tables, which are initial states here; the
interpolation of templates; markup. Of what is modelled: the lengths of backoff
delays, `removeOnComplete`, the listing endpoints (`history`, `list`) beyond what
the dashboard makes of them, sockets that connect during a request, the Redis
adapter between gateway instances, edits of preferences that are not saved yet,
the cut of seconds in the times the page shows, the DLQ page's list and inspector,
and clocks that disagree between API processes.

## Plan

Done: `Delivery`, `QuietWindow`, `QuietHours`, `RateLimiter`, `Handoff`, `Intake`,
`Dashboard`, `Preferences`, `Admission`, and the proofs listed above. The order was
by importance: the delivery core first, then what decides whether and when it is
entered, then the API around it, then the browser and the tables.

To come, in this order; what is still to be proved is liveness only, of which
`RunsDown` has the part the prover can reach:

1. A refinement of `Intake`'s `Push` by `Delivery`: the outcomes of an attempt are
   those of the parts `Delivery` has, and retried dead letters count as emits.
2. Sockets that connect and disconnect on the server side, so that SENT can be
   compared with who was there to hear it.
3. The rows of the preferences page with edits that are not saved yet, and what
   a late answer does to them.
