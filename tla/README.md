# Verification of the Refahi notification service

TLA+ models of `src/` (the Refahi.Notif solution), model-checked with TLC and, where the statement
matters for every size of the system, proved with TLAPS.

## 1. The system

The service accepts notification requests over RabbitMQ (MassTransit) and HTTP, stores a row per
message (EF Core, Postgres or SQL Server), schedules or publishes one command per channel, and has
one consumer per channel that calls a provider and records the outcome.

| Component | State | Operations | Interacts through |
|---|---|---|---|
| Message aggregate (`Domain.Core/Aggregates/MessageAgg`) | per channel: status, retry counter, provider id; job id | Enqueued, Send, Retry, Invalid, ValidatorDeny, Delivered, UnDelivered; push jobs: Send, Retry, Clicked, Delivered | loaded and saved as one row |
| SendMessage handling (`SendMessageRequestHandler`, `MessageService`) | none of its own | add row; schedule a Hangfire job or publish one command per channel; undo on failure | row, Hangfire, bus |
| Channel consumers (`InternalConsumers/*`) | a copy of the row while they work | load, ask validators, call the provider, save the whole row | row, providers, MassTransit retry |
| Delete, re-send, delivery reports | none | delete a future message and its job, by id or by tag, or rows only by one SQL statement; publish SMS commands again; store a report | row, Hangfire, bus |
| Contact and user messages (`SendMessageTo*RequestHandler`) | none | turn steps, delays and dependencies into parts with due times and validators | row, Hangfire, users |
| Users and devices (`UserAgg`, `UserRepository`) | users, device tokens, e-mail, phone | upsert and invalidate devices, set e-mail and phone | tables with unique indexes |
| Inbox (`SendNotificationMessage`, `InboxMessageService`) | inbox messages, cached unread counter | insert, count, reset | table and Redis |
| One-time passwords (`Otp/*`) | Redis entry per reference code | generate, validate | Redis, bus |
| Verification SMS (`SendVerifySms*`, `VerifySmsSent*`) | sent codes | send before expiry, record, delivery report | bus, providers, table |
| Settings (`SettingHolder`) | static dictionary per process | fill, read, set | table |
| Uptime checker (`NikSmsUptimeChecker`) | static id of the next job per process | check, delete the previous job, schedule the next | Hangfire |
| Real-time hub (`RealTimeHub`, its consumers, `signalr.js`) | the hub's `Context` and `Clients`, static list of users, two totals | connect, disconnect, send to a user or to connections | SignalR, bus |
| SMS and push gateways, e-mail sender | token cache; a limiter per scope | send | providers, Redis |
| Push proxy, HTTP API, middleware, pages | none | forward | - |

Hard behaviour, component by component (every line is in `PROJECT.json` under `hazards`):

* *Dispatch.* A request is handled in four separately durable steps; a crash or failure between
  any two is followed by a retry that starts from the beginning against what the earlier attempt
  left. Consumers hold a copy of the row across a call to a provider and then write all of its
  columns, so concurrent consumers of one message overwrite each other. The broker may deliver a
  command twice. Hangfire may run a job twice, and jobs of failed attempts are never removed. An
  SMS gateway's answer may say nothing, and its delivery reports repeat and contradict each other.
  Correct means: an id and a delivery status are backed by the gateway (the status Sended alone is
  not, see section 3), nothing is sent before its time or after a timely delete, duplicates come
  from disturbances only, and a requested message eventually gets out.
* *OTP.* Validation reads a copy of the entry and acts on the copy. Correct means: used once, a
  bounded number of guesses.
* *Push.* One delivery sends to all devices of a user and saves once; a failure in between is
  retried against what was saved, while reports of devices save copies of the same row. Correct
  means: the row claims nothing a gateway does not back, nobody is sent a push twice without a
  disturbance, and a job is given up after three failures and not before.
* *Users.* Handlers read a user untracked, change the copy, read the user again and insert and
  delete the difference; uniqueness is tested before it is saved. Correct means: nobody loses a
  device to a command that does not concern it, a registration does what it says, and an e-mail
  has one owner.
* *Inbox.* The first message of an inbox is committed before the row, the counter is read, removed
  and written by concurrent consumers. Correct means: what is marked sent is in the inbox, and the
  counter counts.
* *Real-time hub.* One hub object serves all callbacks, so each overwrites the context another is
  using. Correct means: the list of users is the connections, and a page that listens gets its
  messages.
* *Contact.* Steps, delays and dependencies become parts with due times of which each is scheduled
  or published on its own. Correct means: the order of the steps is kept, no part is lost or
  doubled, and a delete stops them all.
* *Verification SMS.* The expiry is tested before a slow call that is retried and, for first
  codes, falls back to another endpoint; the row is written by an event of its own. Correct means:
  few texts, none long after the expiry, and a row only for a text.
* *Settings.* Filling empties a static dictionary first; nothing locks. Correct means: a value set
  is a value read, and a read does not fail.
* *Uptime checker.* A chain of jobs that delete and schedule each other across processes. Correct
  means: one chain per process, which goes on.

## 2. Modules

| Module | Models | Role |
|---|---|---|
| `MessageDomain` | value objects `Sms`, `Email`, `Telegram` | operators: one per transition, with its guard |
| `Dispatch` | `SendMessageRequestHandler`, `MessageService`, the three consumers, delete, re-send and report handlers; broker, Hangfire, database and providers as environment | state machine and properties |
| `MessageLifecycle` | what the status and the id of an SMS promise | abstract specification |
| `Dispatch_proofs`, `DispatchTime_proofs`, `DispatchRows_proofs` | - | proofs about `Dispatch`: types, honesty and caps; times and duplicates; rows and the refinement of `MessageLifecycle` |
| `Otp` | `GenerateOtpHandler`, `ValidateOtpHandler`, Redis | state machine and properties |
| `Otp_proofs` | - | proofs about `Otp` |
| `Push` | `SendPushMessageConsumer`, the push value object, the three push senders, `NotificationDelivered`- and `NotificationClickedRequestHandler` | state machine and properties |
| `Push_proofs` | - | proofs about `Push` |
| `Users` | `User`, `UserRepository`, `BaseRepository.UpdateWithRelatedEntities`, the five user commands | state machine and properties |
| `Users_proofs` | - | proofs about `Users` |
| `Inbox` | `SendNotificationMessageConsumer`, `InboxMessageService`, `AddMessageToUserInbox` | state machine and properties |
| `RealTime` | `RealTimeHub`, its two consumers, `signalr.js` | state machine and properties |
| `Contact` | `SendMessageToContactRequestHandler`, `AddJobAndSetToDomainSeparate` | state machine and properties |
| `VerifySms` | `SendVerifySmsConsumer`, Kavenegar's and Mediana's senders, `VerifySmsSentConsumer`, reports | state machine and properties |
| `Settings` | `SettingsHolder` | state machine and properties |
| `UptimeChecker` | `NikSmsUptimeChecker`, Hangfire | state machine and properties |
| `MCDispatch`, `MCOtp`, `MCPush`, `MCUsers` | - | instances for TLC |
| `MCServices` | - | one instance for the six modules that share no state |
| `InboxAndHub_proofs` | - | proofs about `Inbox` and `RealTime` |
| `Services_proofs` | - | proofs about `Settings`, `UptimeChecker`, `VerifySms`, `Contact`, and the six side by side |

### Dispatch

`row[m]` is the Messages row: the job id and, per channel, status, retry counter and provider id.
`ready` counts the copies of each command in the queues; `worker[w]` is what a consumer instance
is doing: its command, the step it is at, the row it has read (`snap`), how often it was retried,
and whether the broker still counts the delivery as its own. `job` is Hangfire, `accepted` what
the providers took, `reported` how often the gateway called back about each message.

An action is the code between two points where another actor can see or change shared state: the
existence test (`IsExist`), the first save (`AddRow`), scheduling (`ScheduleJob`), the second save
(`SavePending`), each publish (`PublishNow`), the catch block with the save of its finally block
(`CatchDelete`); for consumers the load (`LoadForSend`), the provider call with the transition of
the in-memory object (`CallProvider`) and the save (`RecordOutcome`). The three consumers are one
set of actions with the channel as a parameter, and `NothingToSend`, `CanSend`, `CanRetry` and
`ValidatorDeny` say where the channels differ: SMS insists on Pending, e-mail and Telegram only on
the retry limit; `Telegram.Send` has no guard; e-mail has no validator; a refused Telegram part is
rebuilt with a retry counter of 0. When the value object refuses the transition nothing is saved
and the exception is swallowed, as in the code.

What a provider did and what its sender returns are two things. E-mail and Telegram throw when the
provider did not take the message, except that `TelegramSender` makes no call for an empty
Telegram and returns normally (`EmptyTelegram`). An SMS gateway may have taken the message or not
(`MayAccept`) when its sender returns Invalid (no text, a refusal, an answer of Mediana's that
cannot be read) and when it returns normally without a usable id (`NoId`: an answer of
Kavenegar's that cannot be read, whatever its HTTP status, or more than 100 numbers at Mediana);
only an answer that is read gives an id of an accepted SMS. Kavenegar's callback host publishes
every callback (`ReportDelivery`), also those about a status in between, so reports of one SMS
repeat, contradict each other and may be handled side by side.

`MessageLifecycle` says what remains for whoever reads an SMS's row: it is created, queued
(`Enqueue`) and settled once (`Settle`, or `Acknowledge` when the id is known), a settled SMS is
never taken back, an id means that the gateway has the SMS, and a delivery status is only ever
shown for an SMS with an id (`Confirm`, which may repeat).

`Throw` is MassTransit's retry policy followed by `DiscardFaultedMessages`. Failures are actions
or disjuncts guarded by `Fault(kind)`: a failing query or save, a publish that fails or whose
confirmation is lost, a provider that fails or whose answer is lost, a failing Hangfire call or
job, a process crash (the unacknowledged delivery returns), a lost connection (the delivery is
handed out a second time while the first consumer runs on).

A delete comes in three forms. By id, the handler saves the deletion of the row and then deletes
the job (`LoadForDelete`, `DeleteRow`, `DropJob`); by tag, the consumer's handler deletes the jobs
first and saves last (`ByTag`); by tag over HTTP, one statement deletes rows and no job
(`DeleteByTag`).

Abstractions: all requests carry the same channels; every message has a tag of its own; message
contents, gateways and times are dropped (time is the event `DueTimeComes`); a validator's answer
is a free choice for messages that have one; any SMS may get any answer. A delivery report
names the message whose SMS got the provider's id, since ids are unique per provider. Reading and
publishing of a re-send are one step: a command published later is a command delivered later. A
Hangfire job that fails runs again from its first channel.

### Otp

`cache` is Redis, `issue` the progress of each generation, `handler` the progress of each
validation with the copy it read, `late` the reference codes whose `ExpiresAt` has come. `Get`,
`Check`, `Delete` and `Set` are the handler between its Redis calls. A call may fail before or
after it took effect; an entry may disappear at any time, since Redis and the handler use
different clocks; a `Set` after `ExpiresAt` throws, as `DistributedCacheEntryOptions` requires an
expiry in the future. A code is only right or wrong. `answers` and `overlapped` are history
variables.

### Push

`push` is the PushNotification part of the row: the status of the message and one job per device
with status, retry counter and result. `worker[w]` has the copy its consumer works on (`snap`) and
the jobs it still has to send (`todo`). `LoadPush` is the read, with the answer of the validators;
`CallGateway` one round of the loop, from the sender's HTTP call to `PushNotificationSend` or
`PushNotificationRetry` on the copy; `SavePush` the single save at the end and the exception that
makes MassTransit start again; `LoadEvent` and `SaveEvent` the handlers of a report. The three
senders differ in what they hide: `FirebaseSend` reports an unregistered token (which publishes
InvalidDevice) and swallows every other failure; `AppleSend` throws when there is no answer and
calls a refusal a success; `ProxySend` does not wait. None of them makes the consumer think a job
failed when the gateway refused it. `called` and `accepted` are what the gateways saw.

Abstractions: the row exists, is queued, and is not deleted (module `Dispatch`); saves of the
whole row by the other channels are not part of the model; the message has at least one device and
their addresses differ (the request validation asks for that); the devices come in any order after
the Firebase ones; devices report only pushes they got, by FCM id or by the id of the message
alone, as the two endpoints do; the insert of a `NotificationEvent` is left out, and what becomes
of an invalid device is in module `Users`.

### Users

`email` is the Users table (with "absent" for no row), `device` the Devices table: owner and token
per device id. `handler[n]` is one delivered command with what its handler has read and is about
to save. Each query and each save is an action: `FindOtherOwner`, `CheckEmail`, `FindInvalid`,
`LoadUser`, the second read `UpdateWithRelatedEntities`, `SaveUser`, and the whole-graph
`UpdateAll` of FillUserInfo. Reads are untracked and EF Core ignores `SetValues` on an untracked
object, so the update inserts and deletes devices but changes no column of a row that stays: a
known device's new token is not stored. `Conflict` is the database: unique tokens, keys, and a
deleted row that is gone. `Init` is any consistent content. `stale`, `before` and `alone` are
history. Phone numbers, which nothing compares, are left out.

### Inbox, RealTime, Contact, VerifySms, Settings, UptimeChecker

These share no state with each other or with `Dispatch`, so each has its own specification
(`InboxSpec` and so on) and `MCServices` checks them in one run, one at a time.

* `Inbox`: consumers of one user's inbox, step by step: `LoadLetter`, `FindInbox`, `InsertInbox`
  (the early commit), `GetCount`, `RemoveCount`, `SetCount` on the cache, and `SaveLetter`, one
  transaction for row and message. Failures, second deliveries, an expiring counter and a user
  created late are actions.
* `RealTime`: `InitializeHub` is SignalR setting `Context` and `Clients` on the singleton before
  the callback, `OnConnected` and `OnDisconnected` read them; `SendMessage` and
  `SendMessageToUser` are the consumers; the page's script has its own state, its messages travel
  on `wire`. A process may restart, a link may be cut.
* `Contact`: `TakeStep` is one round of the loop over the steps (`Dependencies`, `Delayed`,
  `Handel`); then the row, one job per part that waits (`ScheduleOne`), the save that keeps the
  last job's id, and one command per other part. Failures lead to the catch block and a retry.
  `RunContactJob` is a job that publishes and is over, `RerunContactJob` one that publishes and is
  run again, because the publish threw all the same or the server died (`jobReruns` counts them).
  What a dependency asks is an endpoint that is commented out, so only the plan is modelled, not
  the asking.
* `VerifySms`: `CheckCode` tests the expiry, `CallKavenegar`, `CallMediana` and its `FallBack` are
  the gateways with every answer they can give, `PublishSent` the event, `InsertRow` its consumer,
  `ReportText` and `CheckVerifyMessage` a delivery report.
* `Settings`: requests of several processes: `Look`, the three steps of Fill (`Clear`, `Query`,
  `Assign`), and `Contains` and `Index`, the two reads that may meet null. `SaveSetting` is the
  update; its row is still tracked by the context, so the process reads its own value back.
* `UptimeChecker`: `StartChecker`, `BeginCheck`, `DeletePrevious`, `ScheduleNext`, `EndCheck`;
  Hangfire runs any job in any process, runs a failed or abandoned one again unless it was
  deleted, and processes stop.

## 3. Runs

| Run | Question | Bounds | Result |
|---|---|---|---|
| `dispatch_two_channels` | `TypeOK`, `DuplicatesAreDisturbances`, `RequestResolves` | e-mail and Telegram, DueTime, 2 copies of the request, 1 fault of any kind, 1 retry, 2 workers, 2 jobs | holds |
| `dispatch_scheduled` | `NoPhantomSent`, `NoEarlySend`, `LateDeleteNeverSent`, `NothingForgotten` | SMS, DueTime, 1 request, 1 delete by id or by tag in either form, 1 re-send (`MinRetry` 1), 1 report, 1 fault of any kind, 2 workers, 2 jobs | holds |
| `dispatch_own_channel` | `RetryCap`, `OwnConsumerNeverRegresses` | SMS and an empty Telegram, validator, 1 report, 4 retries, 4 faults (provider, crash), 2 workers | holds |
| `dispatch_lifecycle` | `ImplementsLifecycle`, `RequestResolves` | SMS, validator, 2 copies of the request, 2 reports, 2 faults (database, provider, lost answer, crash), 2 retries | holds |
| `dispatch_idempotent` | `IdempotentRequest` | 1 crash | violated |
| `dispatch_orphan_job` | `OrphanJobNeverSends` | 1 delete, no fault | violated |
| `otp_bounds` | `SerialOtp`, `PairBound` | 2 handlers, 3 attempts, 2 faults | holds, and a `PairBound` of 8 would not |
| `otp_one_time` | `OneTime` | no fault | violated |
| `push_devices` | `TypeOK`, `NoPhantomPush`, `PushDuplicatesAreDisturbances` | 1 Firebase, 1 APN, 1 proxied device, validator, 2 workers, 1 report, 2 faults of any kind | holds |
| `push_retries` | `PushRetryCap`, `GivesUpAfterThree` | 1 Firebase, 1 APN device, 2 workers, 5 faults (database, gateway, publish, lost connection) | holds |
| `users` | `TypeOK`, `StrangersOnlyIfStale`, `RegistersAlone`, `OneRetryHeals`, `SharedEmailExplained` | 3 users, 2 devices, 2 tokens, 1 e-mail, 2 commands, 3 retries, 1 fault | holds |
| `services` | the 17 properties below | below | holds |

What `services` shows, and its bounds:

| Module | Properties | Bounds |
|---|---|---|
| all six | `ServicesTypeOK` | - |
| `Inbox` | `NotifiedMeansStored`, `OneStranded`, `UnreadExact` | 3 messages (1 without address, 1 with validator), 2 consumers, 3 retries, 1 fault |
| `RealTime` | `ActiveUsersExact`, `ReadyPageGetsIt` | 2 pages, 2 messages, 1 restart |
| `Contact` | `StepsInOrder`, `ConditionsComplete`, `EachPartOnce`, `ContactLateDelete` | channels Notification, SMS, e-mail; at most 3 steps; one delay, one due time, one own time; 1 fault (or a job run again), 1 delete |
| `VerifySms` | `RowMeansText`, `TextsAreDisturbances`, `FewLateTexts` | 2 codes (1 first, 1 repeated), 2 consumers, 3 retries, 1 fault, 1 report |
| `Settings` | `FreshAfterLoneSet`, `FailsOnlyBesideFill` | 2 processes, 2 requests, 2 values, 2 sets |
| `UptimeChecker` | `OneJobOfItsOwn`, `CheckingGoesOn` | 2 processes, 3 starts, 4 checks, 1 fault |

Why these bounds are enough. In `Dispatch` one message suffices because, with a tag of its own, no
operation touches two rows; rows meet only in the worker pool, which one message already shares
between its channels, its request copies, its delete and its reports. Two workers are the least
that interleave, and every interference here is between two holders of a copy. One fault of each
kind, at every step, combined with a duplicate request or a redelivery, gives the second actor;
runs whose property counts (`RetryCap`, `GivesUpAfterThree`) have as many faults as the count
needs: four failures reach the cap of three and try to pass it, and a crash among them redelivers
the command. `MaxAttempts` stands for 20 in the code and only has to exceed what a run's faults
use up, or, in `dispatch_two_channels`, to be reached. `MaxSends` is never reached where it could
hide a duplicate: in the runs that look for one, a request, one fault and one re-send give at most
three sends. In `users` two tokens and two devices give every conflict of one device with two
owners, and three users a command's own user and two others that hold its device and its token,
which is what `OneRetryHeals` is about. In `services` three steps are a step, one in between that
makes no part, and one that depends on both; three messages are a first one and two that count at
the same time; two processes and three starts are a chain, a foreign chain and a restart. Deadlock
is not checked: a bounded system stops when requests and faults are used up, and so does the
service when it has nothing to do.

`NoPhantomSent` is weaker than its name suggests. One would expect that a row marked Sended was
sent, and for an SMS that is not so: Kavenegar's sender returns normally for an answer it cannot
read (`KaveSmsSender.cs:47`; its comment says that this must not repeat the send), Mediana's for
more than 100 numbers without a call (`MedianaSmsSender.cs:110`), and the consumer books Sended.
What holds, and is checked, is that an id in the row is one the gateway gave out for this SMS,
that it comes with a sent status, and that only an SMS with an id is shown as delivered or not.
For an e-mail, or a Telegram that is not empty, Sended does mean that the provider took it. The
run has an SMS; the e-mail and Telegram half is shown by the theorem `DispatchNoPhantomSent`.

`DuplicatesAreDisturbances` is checked for e-mail and Telegram without a re-send. That an SMS
whose outcome was not saved is sent again by a re-send, and that a re-send meets a consumer before
its save, is covered by the theorem `DispatchDuplicatesBounded` only.

Several properties excuse a case in which the code does go wrong, and do not catch it: an SMS
command of a job that is earlier than the save of Pending is dropped, a delivery report earlier
than the save of the id is dropped, `UnreadExact` and `ActiveUsersExact` say nothing of callers
that overlap, `RowMeansText` little of a first code that Mediana failed to send. `hazards` in
`PROJECT.json` says so at each.

`NothingForgotten` excludes crashes and failing saves, and it must: a delete by tag takes the job
first, so when its save fails, or the process dies, and the DueTime comes before the retry, the
handler skips the message and its row waits for ever. Without the exclusion TLC finds that
behaviour, 14 states long; deletes by id alone need no exclusion. It also excludes requests that
are handled twice, and `DuplicatesAreDisturbances` messages that a delete may have touched;
section 4 says why. When several messages share a tag, one that has vanished makes the save of all
fail in the same way; the model, with one message per tag, does not show this.

`OwnConsumerNeverRegresses` is checked without lost connections: a redelivery while the first
consumer still runs gives a channel two consumers with two copies, and the slower one may write
Pending over Sended.

`PushDuplicatesAreDisturbances` counts what can make a consumer forget a push: a failing save, a
lost answer, a crash, a redelivery, a report that saves an older copy. A gateway that fails is not
among them, so a retry for one device must leave the others alone; only when two consumers overlap
may a failure add a round. `GivesUpAfterThree` needs five faults, three for a job's cap and two
for the database to use up an attempt, and looks at states in which nothing is under way. In
`push_devices` the proxied and the unproxied APN device stand side by side to cover both senders;
an installation has one or the other.

The condition of `NoEarlySend` deserves attention: it holds for `MinRetry = 1`, and is proved for
every `MinRetry > 0`. With `MinRetryCount` left at its default 0 the re-send query also selects
messages that wait for their DueTime (the mutant `PendingAny` is exactly that).

The properties of `Users`, `Settings` and `UptimeChecker` say when the code is right, not that it
always is, and each exception is one the run reaches: a stale copy lets a command remove a device
it does not name; a FillUserInfo, or two overlapping SetUserEmail, share an e-mail; a Set of
another process is never seen; two fillers, or a Get beside one, meet null; a failed check may end
the chain, an overlapping one doubles it. `RegistersAlone` exempts the device the user already
had, whose token the untracked update drops.

### Liveness

`RequestResolves` assumes weak fairness of every consumer's own step, of delivery to an idle
consumer, of the Hangfire server and of the clock. The broker hands out what is queued,
MassTransit runs a consumer it has started, Hangfire polls its due jobs, and time passes; nothing
is assumed of clients, operators or failures. It promises nothing once a process has crashed or a
database call failed, or when there were more failures than retries: after those the code really
may drop a message (`dispatch_idempotent`). It is checked for e-mail with Telegram and for SMS
alone, because it fails outside: with SMS and another channel in one row the other consumer's save
can take a settled SMS back to Pending for good, and with a DueTime a job may publish before
Pending is saved, after which the SMS consumer drops the command.

### Violated statements

The violated properties quote what the code base says of itself; `findings` in `PROJECT.json`
gives the lines:

* *"to be idempotent".* A row saved but not yet queued when the process dies stays Created for
  ever; the redelivered request returns because the row exists.
* *"backgroundjob without domain not work".* True while the row is gone (`LateDeleteNeverSent`
  holds), but a delete that hits the request handler between scheduling and saving makes its retry
  add the row again, and the first job, which nobody deletes, sends it.
* *"One-Time Password".* True while validations do not overlap (`SerialOtp`); two concurrent ones
  can both be accepted. The documented "Maximum validation attempts allowed" is exceeded in the
  same way, up to the bound of `PairBound`.

## 4. Proofs

`tlapm` proves the eight modules named `*_proofs`. Every property of every run that the prover can
reach is a theorem; the run shows it on a small instance, the theorem for every value of the
constants. The assumptions are the named ones of the modules (`DispatchAssumption`,
`OtpAssumption` and so on: types and distinctness of the constants; `NullAssumption` in
`Contact`), and the hypotheses of single theorems:

| Theorem | Hypothesis | Why |
|---|---|---|
| `DispatchNotEarly`, `DispatchLateDelete` | `MinRetry > 0` | with 0 the re-send query selects messages that wait for their DueTime |
| `DispatchDuplicatesBounded` | finitely many `Workers` and `JobIds` | it counts them |
| `DispatchOwnConsumer` | `OneAtATime`: no DueTime, no re-send, no failing publish and no lost connection | these put a second command of a channel in flight, or a second consumer on one; the run of the property has none of them |
| `DispatchImplementsLifecycle` | `OneAtATime` and `OnlySms` | the other consumers' saves of the whole row can take an SMS back to Pending |
| `OtpPair` | at most two handlers | the bound is that of two at a time; three can undo more |

All of them hold in the run that checks the property. The theorems of `Inbox`, `RealTime`,
`Contact`, `VerifySms`, `Settings` and `UptimeChecker` are about the module's own specification;
`ServicesRefine` carries them over to `MCServices`, where the run `services` checks them side by
side, and `ServicesTypeCorrect` follows. `TypeOK` of `Otp`, which is proved, is in no run of its
own.

### Dispatch

* `DispatchTypeCorrect`: `Spec => []TypeOK`. `TypeOK` is not inductive: an action uses the row a
  worker has read, and the job a row names. `TypeInv` adds that a worker at a step that uses its
  copy has one and that the job id in a row belongs to an existing job.
* `DispatchNoPhantomSent`: whatever copies are written over whatever rows, what a row claims is
  backed by the provider. The invariant has to say the same of the copies the workers hold
  (`HonestInv`); what makes it inductive is that `accepted` only grows, so a copy that was honest
  when read is honest when written, however stale. A request handler that is about to queue still
  holds the new row it has added (`FreshSnaps`), so that the Pending copy it saves has no id.
* `DispatchRetryCap`: the counter of e-mail and Telegram never passes 3, for any number of
  consumers. Again rows and copies are bounded together (`CapInv`): a copy before the provider
  call counts at most 2, because `NothingToSend` was false when it was read. Both use one lemma
  per action on where the rows and copies of the next state come from.
* `DispatchNotEarly`: nothing of a message with a DueTime reaches a provider before it. `EarlyInv`
  says that until then nobody has begun to send (`Quiet`: no command, no sending consumer, no
  running job, nothing accepted) and that every row and copy is as the request handler made it
  (`FreshCopies`), so that its retry counter is 0 and the re-send query, with `MinRetry > 0`, does
  not select it.
* `DispatchLateDelete`: a message deleted in time, with its request handled, is never sent. The
  invariant `LateInv` says of such a message that its row is gone and that no request, no handler
  that could add or save it, and no sender with a copy is left (`Gone`); a job or command that is
  left finds no row. At the moment of the delete this follows from `EarlyInv` and from `StepsInv`,
  which ties a consumer's step to the type of its command.
* `DispatchDuplicatesBounded`: no duplicate without a disturbance. The invariant is an account per
  message and channel (`PaidFor`): what the provider has accepted, the row that does not exist
  yet, the consumers and the jobs that may still send (`Open`, `Planned`) and the commands in the
  queue never add up to more than 1 plus the faults and re-sends. Each step moves one unit from
  one place to another, and each fault that creates a unit pays for it. The account needs that one
  handler at a time works on an existing row (`OneHandler`), which the existence check gives as
  long as nobody deletes the row.
* `DispatchOwnConsumer`: `SoleInv` says that each channel of a message has one carrier, a handler,
  a consumer or the command in the queue (`Sole`), and that until the carrier is done neither the
  row nor a copy of it is settled, but for the copy in which its consumer has just recorded the
  outcome (`Unsettled`). So whoever writes an unsettled part over a settled one is a consumer of
  another command.
* `DispatchImplementsLifecycle`: the refinement, action by action. `LifeInv` puts together
  `TypeInv`, `StepsInv`, `HonestInv` and `SoleInv`, and adds what each consumer that is about to
  write knows of the row it will overwrite (`StageInv`): the abstract `Enqueue`, `Settle`,
  `Acknowledge` and `Confirm` take a status from one value to the next, but the code writes a copy
  without looking, so the invariant has to know what it finds. Reports may repeat, contradict each
  other and be handled side by side: a handler that saves finds the id it has read and some sent
  status, which is all that `Confirm` needs.
* `DispatchNothingForgotten`: `NameInv` says that the job a row or a copy names is a job of that
  message (`Owners`); and, while the request is handled once and nothing was lost, that as long as
  the request is under way nobody but its handler knows the job (`Unnamed`), and that a job is
  deleted after the row or, by tag, with the row next (`LastNamed`).

### Otp, Push, Users

* `OtpTypeCorrect` and `OtpSerial`: the copy of the only validation of a code that never
  overlapped equals the cached entry (or the entry has expired), and wrong answers equal the
  attempts that entry counts; hence at most one acceptance and at most `MaxAttempts` wrong
  answers.
* `OtpPair`: two overlapping validations answer at most MaxAttempts (MaxAttempts + 3) / 2 wrong
  codes. The invariant (`Pair`) is a potential: what has been answered, plus what the cached entry
  and the copies still allow, where a copy that is held back is worth a second climb from its own
  count. The bound is reached: for three attempts it is 9, and TLC finds 9.
* `PushTypeCorrect`, `PushHonest` (of `NoPhantomPush`) and `PushRetriesCapped`: one inductive
  invariant, `PushInv`, bounds the stored row and every copy alike. It adds that a job with an FCM
  id was tried, because a report turns such a job into Delivered, and that a job still to be sent
  in a copy has failed at most twice. `called` and `accepted` only grow (`GoodRowGrows`), so a
  copy that was good when it was read is good when it is saved.
* `PushDuplicatesBounded`: two accounts, because a failing gateway is a disturbance only once a
  connection was lost. `PaidFor` holds always and counts all faults; `LoneFor` counts only those
  that make a consumer forget, while one delivery is there (`Single`) and the pending jobs of the
  row and of its copy have failed equally often (`Same`).
* `PushGivesUp`: `Trying` says that without reports and lost connections each attempt has failed
  every job that is still pending once more, unless the database took the attempt; when the last
  attempt is over that is the property.
* `UsersTypeCorrect`: with its types, tokens stay unique and owners exist. `UsersStrangers`: a
  handler changes the row of a device its command does not name only if the row changed after the
  handler read it. `UInv` adds what a handler knows of its user (`Owners`) and that its copy
  agrees with the table on every device that is not `stale` (`Copies`).
* `UsersRetryHeals`, `UsersRegisters`, `UsersSharedEmail`: `Alone` says of a command that nobody
  overlaps what it has read, what it has yet to change and how far the tables are from what it
  asks (`UpsertAlone`, `OtherAlone`), through its several commits and any retry: an attempt fails
  of itself only on a second rival, and the next one starts with that rival gone.

### The services

* `InboxTypeCorrect`, `InboxNotified`, `InboxOneStranded`: `InboxInv` adds to the types what each
  step of a consumer implies about its message (`ConsumersOK`), and states `OneStranded` without
  cardinality (`StrandedAlone`): two stranded messages are one. `InboxUnread`: while nothing has
  disturbed it, at most one consumer is between reading and writing the counter, and what it read
  is the number of messages marked (`ExactInv`).
* `RealTimeTypeCorrect`, `RealTimeActive`, `RealTimeReady`: `HubInv` relates the two totals and
  the list to the connections' states by counting, `PageInv` the messages a page is owed to those
  under way and shown.
* `CheckerTypeCorrect`, `CheckerOneJob`, `CheckerGoesOn`: `Chains` follows one process whose
  checks neither overlapped nor failed: it has one check at a time (`OneCheck`), its static field
  names the only job it has left (`KnowsItsJob`), and between the delete and the next schedule it
  has none (`NoneBetween`).
* `SettingsTypeCorrect`, `SettingsFresh`, `SettingsFails`: a dictionary of a process whose own Set
  was the last is the table's, or null, or about to be cleared (`OldIsCleared`), and whoever fills
  it assigns what is in the table (`FillsFresh`); a Get that finds null after it had found a
  dictionary has seen a Fill beside it (`NullNoticed`).
* `VerifyTypeCorrect`, `VerifyRowMeansText`, `VerifyTextsBounded`, `VerifyLateBounded`: `Budget`
  is an account like `PaidFor`, of commands, consumers that have yet to send, and texts;
  `LateBudget` the same for the attempts that had passed their check when the code expired;
  `Meanings` says what an event under way and a consumer about to publish stand for.
* `ContactTypeCorrect`, `ContactStepsInOrder`, `ContactConditions`, `ContactOnce`,
  `ContactDeleteStops`: `ContactInv` follows the loop (`Planned`), the jobs and commands ordered
  and those still owed in this attempt (`Listed`, `Orders`), where a re-run of a job adds one on
  both sides of the account (`Balanced`), and what a late delete leaves (`Gone`). The parts are
  listed in the order of their channels by concatenation, so that no recursion is needed.

### What stays with TLC

`RequestResolves` is liveness under fairness, which is out of the prover's reach. The three
violated statements are false. What a property leaves out stays unproved as well, and two
exclusions were found necessary while proving:

* `DuplicatesAreDisturbances` leaves out messages a delete may have touched. A delete between two
  copies of one request lets each handler remove the row the other one has added again, and every
  retry schedules another job: with one delete, four jobs and three retries TLC finds a third
  e-mail without any fault, in 34 steps. A delete is therefore not one duplicate's worth of
  disturbance. `dispatch_two_channels` has no deletes.
* `NothingForgotten` leaves out requests that are handled twice (`HandledOnce`). With a second
  copy of the request TLC finds, in 23 steps, a row that names a job already deleted: a consumer
  whose provider failed saves the copy it read before the delete over the row that the second
  handling has added. A lost connection makes the second copy just as well, so that with it two
  faults are enough; in `dispatch_scheduled`, with one fault, the property also holds without
  this exclusion.

## 5. Not modelled

* Endpoints and commands without a caller: the inbox and message-validation controllers are
  commented out, and with them the inbox commands and queries and the answer to a dependency.
* SendMessageToUser beyond its look-up: it takes the path of `Dispatch`; the look-up of the user's
  addresses is a query. A step-wise message takes the path of `Contact` without its consumers.
* A push message without devices (`Empty`), and what `PgNotifContext` makes of its empty list.
* The e-mail limiter: its semaphore is a field of a scoped service, so nobody else ever acquires
  it. The token caches of the gateways: a cached value and a login call.
* The in-memory cache of the Development environment, which shares objects between requests
  instead of copying them. Consumers' timeout tokens, which no callee reads.
* Several messages with one tag in a delete (see section 3).
* The hub's public methods as remote calls: `SendMessage` and `SendMessageToUser`
  (`RealTimeHub.cs:46` and `:51`) can be invoked by any connected client as well as by the
  consumers. They send through the caller's `Clients` and change no state of the hub.
* Ids of pushes that contain one another: a report finds a job by `Contains`
  (`PushNotification.cs:88`), the model compares whole ids.
* HTTP requests to the gateways, request validation, formatting, logging, middleware, Razor pages,
  the push proxy's program, the file store, migrations, broker configuration (unit-tested in the
  repository).
* Third-party code: the JavaScript libraries under `wwwroot/lib`; of the scripts only `signalr.js`
  is the repository's own and has behaviour, and it is in `RealTime`.

What a next step would be: two messages in one worker pool sharing a tag; an abstract history for
all channels of a row, which would say what the saves of whole rows can take back; and the exact
number of duplicates a delete can cause.
