------------------------------ MODULE Dispatch ------------------------------
(***************************************************************************)
(* The outbound path of the notification service.  A SendMessage command   *)
(* is handled in several separately saved steps (row, Hangfire job, status,*)
(* one bus command per channel); each channel command is consumed by a     *)
(* worker that reads the whole row, calls the provider and writes the      *)
(* whole row back; Hangfire fires delayed jobs; an operator re-sends or    *)
(* deletes; the provider reports deliveries.  Broker, database, Hangfire   *)
(* and providers are external: they keep a state of their own and may fail *)
(* in the ways FaultKinds names, MaxFaults times in all.                   *)
(***************************************************************************)
EXTENDS MessageDomain

CONSTANTS
  Msg,          \* ids of the messages clients send
  Channels,     \* the channels every request carries
  Due,          \* messages whose request has a DueTime
  Validated,    \* messages whose request has a ValidatorUrl
  EmptyTelegram,\* messages whose Telegram has neither a text nor a named file
  Workers,      \* consumer instances of the receive endpoints
  JobIds,       \* ids Hangfire gives to jobs
  MaxAttempts,  \* retries of one delivery (LongRetry: 20 in the code)
  MinRetry,     \* MinRetryCount of the operator's re-send request
  MaxSends,     \* bound: SMSs a provider accepts of one message
  MaxFaults,    \* bound: injected faults
  MaxResends,   \* bound: re-send requests
  MaxDeletes,   \* bound: delete requests
  MaxRequests,  \* bound: copies of one SendMessage clients publish
  MaxReports,   \* bound: delivery callbacks about one message
  FaultKinds,   \* the faults that may be injected
  NoRow,        \* no row with this id
  NoJob         \* null job id

AllFaultKinds == {"database", "publish", "lostConfirm", "provider",
                  "lostAnswer", "job", "crash", "disconnect"}

\* A row is written and read as one value; the job id in it is the one that
\* Message.Enqueued was given.
Row == [jobId : JobIds \cup {NoJob}, part : [Channels -> Part]]

\* Hangfire's record of one AddJob: live until it is deleted.
Job == [msg : Msg, phase : {"scheduled", "running", "over"}, live : BOOLEAN,
        todo : SUBSET Channels]

ASSUME DispatchAssumption ==
  /\ Channels \subseteq ChannelNames /\ Channels # {}
  /\ Due \subseteq Msg /\ Validated \subseteq Msg /\ EmptyTelegram \subseteq Msg
  /\ NoJob \notin JobIds \cup Job /\ NoRow \notin Row
  /\ MaxAttempts \in Nat /\ MinRetry \in Nat /\ MaxSends \in Nat
  /\ MaxFaults \in Nat /\ MaxResends \in Nat /\ MaxDeletes \in Nat
  /\ MaxRequests \in Nat /\ MaxReports \in Nat
  /\ FaultKinds \subseteq AllFaultKinds

VARIABLES
  row,       \* Messages table: the row of each message, or NoRow
  ready,     \* broker: copies of each command waiting for a consumer
  worker,    \* what each consumer instance is doing
  job,       \* Hangfire: each scheduled JobAction, or NoJob
  past,      \* messages whose DueTime has come
  accepted,  \* providers: messages accepted, per message and channel
  reported,  \* provider: callbacks made about the SMSs of each message
  spent,     \* how much of each bound has been used
  withdrawn  \* history: how each message was deleted, see DeleteRow

vars == <<row, ready, worker, job, past, accepted, reported, spent, withdrawn>>

-----------------------------------------------------------------------------
(* Commands, rows and consumers                                            *)

Ids == 1..MaxSends

Requests == [type : {"SendMessage"}, msg : Msg]
Sends    == [type : Channels, msg : Msg]
Deletes  == [type : {"DeleteMessage", "DeleteMessageByTag"}, msg : Msg]
Reports  == {report \in [type : {"SmsDelivery"}, msg : Msg, id : Ids,
                         delivered : BOOLEAN] : "Sms" \in Channels}

Command == Requests \cup Sends \cup Deletes \cup Reports

RequestOf(m) == [type |-> "SendMessage", msg |-> m]

SendCommand(c, m) == [type |-> c, msg |-> m]

Steps == {"isExist", "add", "schedule", "save", "publish", "catch",
          "load", "send", "record", "delete", "dropJob"}

Idle == [step |-> "idle"]

\* attempt: retries so far; held: the broker still counts the delivery as
\* ours; snap: the row this consumer read; todo: channels left to publish;
\* failed: the provider call threw and the delivery is retried after saving.
Busy == [step : Steps, cmd : Command, attempt : 0..MaxAttempts, held : BOOLEAN,
         snap : Row \cup {NoRow}, todo : SUBSET Channels, failed : BOOLEAN]

FirstStep(cmd) == IF cmd \in Requests THEN "isExist" ELSE "load"

Begin(cmd, attempt, held) ==
  [step |-> FirstStep(cmd), cmd |-> cmd, attempt |-> attempt, held |-> held,
   snap |-> NoRow, todo |-> {}, failed |-> FALSE]

\* Order in which JobAction publishes the channels of a message.
Rank == [Sms |-> 1, Email |-> 2, Telegram |-> 3]

IsNext(c, todo) == c \in todo /\ \A d \in todo : Rank[c] <= Rank[d]

NewRow == [jobId |-> NoJob, part |-> [c \in Channels |-> NewPart]]

\* Message.Enqueued: all parts become Pending and the job id is kept.
EnqueuedRow(r, jobId) ==
  [jobId |-> jobId, part |-> [c \in Channels |-> Enqueued(r.part[c])]]

TypeOK ==
  /\ row \in [Msg -> Row \cup {NoRow}]
  /\ ready \in [Command -> Nat]
  /\ worker \in [Workers -> Busy \cup {Idle}]
  /\ job \in [JobIds -> Job \cup {NoJob}]
  /\ past \subseteq Msg
  /\ accepted \in [Msg -> [Channels -> Nat]]
  /\ reported \in [Msg -> Nat]
  /\ spent \in [faults : Nat, resends : Nat, deletes : Nat,
                requests : [Msg -> Nat], kinds : SUBSET FaultKinds]
  /\ withdrawn \in [Msg -> {"no", "early", "late"}]

Init ==
  /\ row = [m \in Msg |-> NoRow]
  /\ ready = [cmd \in Command |-> 0]
  /\ worker = [w \in Workers |-> Idle]
  /\ job = [j \in JobIds |-> NoJob]
  /\ past = {}
  /\ accepted = [m \in Msg |-> [c \in Channels |-> 0]]
  /\ reported = [m \in Msg |-> 0]
  /\ spent = [faults |-> 0, resends |-> 0, deletes |-> 0,
              requests |-> [m \in Msg |-> 0], kinds |-> {}]
  /\ withdrawn = [m \in Msg |-> "no"]

-----------------------------------------------------------------------------
(* The broker and MassTransit                                              *)

Fault(kind) ==
  /\ kind \in FaultKinds
  /\ spent.faults < MaxFaults
  /\ spent' = [spent EXCEPT !.faults = @ + 1, !.kinds = @ \cup {kind}]

Publish(cmds) == ready' = [c \in Command |-> ready[c] + IF c \in cmds THEN 1 ELSE 0]

\* A copy of the request of m is queued or being handled.
RequestPending(m) ==
  \/ ready[RequestOf(m)] > 0
  \/ \E w \in Workers : worker[w] # Idle /\ worker[w].cmd = RequestOf(m)

At(w, step) == worker[w] # Idle /\ worker[w].step = step

MessageOf(w) == worker[w].cmd.msg

Become(w, state) == worker' = [worker EXCEPT ![w] = state]

GoTo(w, step) == Become(w, [worker[w] EXCEPT !.step = step])

\* The consumer returned: the delivery is acknowledged.
Ack(w) == Become(w, Idle)

\* Mutant of Throw: a delivery that failed is not tried again.
ThrowOnce(w) == Ack(w)

\* Mutant of Throw: the retries are not counted against the limit.
ThrowForever(w) ==
  Become(w, Begin(worker[w].cmd, worker[w].attempt + 1, worker[w].held))

\* The consumer threw: UseMessageRetry runs it again from the start; when the
\* retries are exhausted DiscardFaultedMessages drops the delivery.
Throw(w) ==
  Become(w, IF worker[w].attempt < MaxAttempts
            THEN Begin(worker[w].cmd, worker[w].attempt + 1, worker[w].held)
            ELSE Idle)

Deliver(w, cmd) ==
  /\ worker[w] = Idle
  /\ ready[cmd] > 0
  /\ ready' = [ready EXCEPT ![cmd] = @ - 1]
  /\ Become(w, Begin(cmd, 0, TRUE))
  /\ UNCHANGED <<row, job, past, accepted, reported, spent, withdrawn>>

\* Delete(domain) and SaveAsync; mutant: the save is forgotten.
RowDeletedUnsaved(m) == m \in Msg /\ row' = row

RowDeleted(m) == row' = [row EXCEPT ![m] = NoRow]

\* The process dies: what it had not acknowledged goes back to the queue.
Crash(w) ==
  /\ worker[w] # Idle
  /\ Fault("crash")
  /\ Ack(w)
  /\ Publish(IF worker[w].held THEN {worker[w].cmd} ELSE {})
  /\ UNCHANGED <<row, job, past, accepted, reported, withdrawn>>

\* The query a consumer starts with throws.
ReadFails(w) ==
  /\ At(w, "isExist") \/ At(w, "load")
  /\ Fault("database")
  /\ Throw(w)
  /\ UNCHANGED <<row, ready, job, past, accepted, reported, withdrawn>>

\* The connection is lost: the broker delivers again, the consumer runs on.
Disconnect(w) ==
  /\ worker[w] # Idle /\ worker[w].held
  /\ Fault("disconnect")
  /\ Become(w, [worker[w] EXCEPT !.held = FALSE])
  /\ Publish({worker[w].cmd})
  /\ UNCHANGED <<row, job, past, accepted, reported, withdrawn>>

-----------------------------------------------------------------------------
(* Clients, operators, time                                                *)

SubmitMessage(m) ==
  /\ spent.requests[m] < MaxRequests
  /\ spent' = [spent EXCEPT !.requests[m] = @ + 1]
  /\ Publish({RequestOf(m)})
  /\ withdrawn' = [withdrawn EXCEPT ![m] = "no"]
  /\ UNCHANGED <<row, worker, job, past, accepted, reported>>

SubmitDelete(cmd) ==
  /\ spent.deletes < MaxDeletes
  /\ spent' = [spent EXCEPT !.deletes = @ + 1]
  /\ Publish({cmd})
  /\ UNCHANGED <<row, worker, job, past, accepted, reported, withdrawn>>

\* Mutant of PendingRetried: the retry counter is not compared.
PendingAny ==
  {m \in Msg : /\ row[m] # NoRow
               /\ "Sms" \in Channels
               /\ row[m].part["Sms"].status = "Pending"}

\* SmsPendingRetried, narrowed by the ids and dates the operator gives.
PendingRetried ==
  {m \in Msg : /\ row[m] # NoRow
               /\ "Sms" \in Channels
               /\ row[m].part["Sms"].status = "Pending"
               /\ row[m].part["Sms"].retry >= MinRetry}

ReSendFailedSms(chosen) ==
  /\ chosen # {} /\ chosen \subseteq PendingRetried
  /\ spent.resends < MaxResends
  /\ spent' = [spent EXCEPT !.resends = @ + 1]
  /\ Publish({SendCommand("Sms", m) : m \in chosen})
  /\ UNCHANGED <<row, worker, job, past, accepted, reported, withdrawn>>

DueTimeComes(m) ==
  /\ m \in Due \ past
  /\ past' = past \cup {m}
  /\ UNCHANGED <<row, ready, worker, job, accepted, reported, spent, withdrawn>>

\* The provider calls back about an SMS it accepted, as often as it likes: also
\* about a status in between, which counts as not delivered.  The callback host
\* publishes every callback without looking at the database.
ReportDelivery(m, id, delivered) ==
  /\ "Sms" \in Channels
  /\ id \in 1..accepted[m]["Sms"] /\ reported[m] < MaxReports
  /\ reported' = [reported EXCEPT ![m] = @ + 1]
  /\ Publish({[type |-> "SmsDelivery", msg |-> m, id |-> id,
               delivered |-> delivered]})
  /\ UNCHANGED <<row, worker, job, past, accepted, spent, withdrawn>>

-----------------------------------------------------------------------------
(* SendMessageRequestHandler and MessageService.AddJobAndSetToDomain       *)

\* An existing row means "already handled": the handler returns.
IsExist(w) ==
  /\ At(w, "isExist")
  /\ IF row[MessageOf(w)] # NoRow THEN Ack(w) ELSE GoTo(w, "add")
  /\ UNCHANGED <<row, ready, job, past, accepted, reported, spent, withdrawn>>

\* AddAsync and SaveAsync; the primary key refuses a second row.
AddRow(w) ==
  LET m == MessageOf(w) IN
  /\ At(w, "add")
  /\ \/ /\ row[m] = NoRow
        /\ row' = [row EXCEPT ![m] = NewRow]
        /\ IF m \in Due
           THEN Become(w, [worker[w] EXCEPT !.step = "schedule", !.snap = NewRow])
           ELSE Become(w, [worker[w] EXCEPT !.step = "save",
                                            !.snap = EnqueuedRow(NewRow, NoJob)])
        /\ UNCHANGED spent
     \/ /\ row[m] # NoRow /\ Throw(w) /\ UNCHANGED <<row, spent>>
     \/ Fault("database") /\ Throw(w) /\ UNCHANGED row
  /\ UNCHANGED <<ready, job, past, accepted, reported, withdrawn>>

\* AddJob, then domain.Enqueued(jobId): the job exists before it is saved.
ScheduleJob(w) ==
  LET m == MessageOf(w) IN
  /\ At(w, "schedule")
  /\ \/ \E j \in JobIds :
          /\ job[j] = NoJob
          /\ job' = [job EXCEPT ![j] = [msg |-> m, phase |-> "scheduled",
                                        live |-> TRUE, todo |-> Channels]]
          /\ Become(w, [worker[w] EXCEPT !.step = "save",
                                         !.snap = EnqueuedRow(@, j)])
          /\ UNCHANGED spent
     \/ Fault("job") /\ GoTo(w, "catch") /\ UNCHANGED job
  /\ UNCHANGED <<row, ready, past, accepted, reported, withdrawn>>

\* A message with a DueTime is left to its job; mutant: it is also sent now.
AfterSaveAlways(w) ==
  Become(w, [worker[w] EXCEPT !.step = "publish", !.todo = Channels])

AfterSave(w) ==
  IF MessageOf(w) \in Due
  THEN Ack(w)
  ELSE Become(w, [worker[w] EXCEPT !.step = "publish", !.todo = Channels])

\* Update and SaveAsync of the Pending row: all columns, no version check.
\* An update that finds no row throws DbUpdateConcurrencyException.
SavePending(w) ==
  LET m == MessageOf(w) IN
  /\ At(w, "save")
  /\ \/ /\ row[m] # NoRow
        /\ row' = [row EXCEPT ![m] = worker[w].snap]
        /\ AfterSave(w)
        /\ UNCHANGED spent
     \/ /\ row[m] = NoRow /\ GoTo(w, "catch") /\ UNCHANGED <<row, spent>>
     \/ Fault("database") /\ GoTo(w, "catch") /\ UNCHANGED row
  /\ UNCHANGED <<ready, job, past, accepted, reported, withdrawn>>

\* JobAction run by the handler itself, one channel at a time.
PublishNow(w, c) ==
  LET send == {SendCommand(c, MessageOf(w))}
      rest == worker[w].todo \ {c} IN
  /\ At(w, "publish") /\ IsNext(c, worker[w].todo)
  /\ \/ /\ Publish(send)
        /\ IF rest = {} THEN Ack(w)
                        ELSE Become(w, [worker[w] EXCEPT !.todo = rest])
        /\ UNCHANGED spent
     \/ Fault("publish") /\ GoTo(w, "catch") /\ UNCHANGED ready
     \/ Fault("lostConfirm") /\ GoTo(w, "catch") /\ Publish(send)
  /\ UNCHANGED <<row, job, past, accepted, reported, withdrawn>>

\* catch: Delete(domain), saved by the finally block; the exception goes on.
CatchDelete(w) ==
  LET m == MessageOf(w) IN
  /\ At(w, "catch")
  /\ \/ RowDeleted(m) /\ UNCHANGED spent
     \/ Fault("database") /\ UNCHANGED row
  /\ Throw(w)
  /\ UNCHANGED <<ready, job, past, accepted, reported, withdrawn>>

-----------------------------------------------------------------------------
(* Hangfire                                                                *)

StartJob(j) ==
  /\ job[j] # NoJob /\ job[j].phase = "scheduled" /\ job[j].live
  /\ job[j].msg \in past
  /\ job' = [job EXCEPT ![j].phase = "running"]
  /\ UNCHANGED <<row, ready, worker, past, accepted, reported, spent, withdrawn>>

JobPublish(j, c) ==
  LET send == {SendCommand(c, job[j].msg)}
      rest == job[j].todo \ {c} IN
  /\ job[j] # NoJob /\ job[j].phase = "running" /\ IsNext(c, job[j].todo)
  /\ Publish(send)
  /\ job' = [job EXCEPT ![j].todo = rest]
  /\ UNCHANGED <<row, worker, past, accepted, reported, spent, withdrawn>>

EndJob(j) ==
  /\ job[j] # NoJob /\ job[j].phase = "running" /\ job[j].todo = {}
  /\ job' = [job EXCEPT ![j].phase = "over"]
  /\ UNCHANGED <<row, ready, worker, past, accepted, reported, spent, withdrawn>>

\* A publish throws or the server dies: Hangfire runs the whole job again.
JobFails(j) ==
  /\ job[j] # NoJob /\ job[j].phase = "running"
  /\ Fault("job")
  /\ job' = [job EXCEPT ![j].phase = "scheduled", ![j].todo = Channels]
  /\ UNCHANGED <<row, ready, worker, past, accepted, reported, withdrawn>>

-----------------------------------------------------------------------------
(* SendSms-, SendEmail- and SendTelegramMessageConsumer                    *)

\* Mutants of NothingToSend: the limit is off by one; every channel insists
\* on Pending, not only SMS.
NothingToSendAfterFour(c, m) ==
  \/ row[m] = NoRow
  \/ c = "Sms" /\ row[m].part["Sms"].status # "Pending"
  \/ c \in {"Email", "Telegram"} /\ row[m].part[c].retry > 3

\* What makes a consumer return without sending.
NothingToSend(c, m) ==
  \/ row[m] = NoRow
  \/ c = "Sms" /\ row[m].part["Sms"].status # "Pending"
  \/ c \in {"Email", "Telegram"} /\ row[m].part[c].retry >= 3

LoadForSend(w, c) ==
  LET m == MessageOf(w) IN
  /\ At(w, "load") /\ worker[w].cmd.type = c
  /\ IF NothingToSend(c, m)
     THEN Ack(w)
     ELSE Become(w, [worker[w] EXCEPT !.step = "send", !.snap = row[m]])
  /\ UNCHANGED <<row, ready, job, past, accepted, reported, spent, withdrawn>>

\* The finally block: the outcome goes into the snapshot if the value object
\* allows it, otherwise the exception is swallowed and nothing is saved.
Outcome(w, c, allowed, part, failed) ==
  IF allowed
  THEN Become(w, [worker[w] EXCEPT !.step = "record", !.failed = failed,
                                   !.snap.part[c] = part])
  ELSE IF failed THEN Throw(w) ELSE Ack(w)

\* TelegramSender makes no call for an empty Telegram.
ProviderAccepts(m, c) ==
  /\ c = "Telegram" => m \notin EmptyTelegram
  /\ accepted[m][c] < MaxSends
  /\ accepted' = [accepted EXCEPT ![m][c] = @ + 1]

\* What an SMS gateway did when its answer, if there was one, does not tell.
MayAccept(m, c) == ProviderAccepts(m, c) \/ UNCHANGED accepted

\* An SMS is booked as invalid if it has no text, the gateway refuses it or
\* Mediana's answer cannot be read; as sent, with no id, if Kavenegar's answer
\* cannot be read, whatever its HTTP status, or, with a warning for an id and
\* without a call, if Mediana gets more than 100 numbers.  A Telegram that is
\* empty is booked as sent.
CallProvider(w, c) ==
  LET m == MessageOf(w)
      part == worker[w].snap.part[c] IN
  /\ At(w, "send") /\ worker[w].cmd.type = c
  /\ \/ /\ m \in Validated /\ c # "Email"
        /\ Outcome(w, c, TRUE, ValidatorDeny(c, part), FALSE)
        /\ UNCHANGED <<accepted, spent>>
     \/ /\ c = "Sms" /\ MayAccept(m, c)
        /\ \/ Outcome(w, c, CanInvalid(part), Invalid(part), FALSE)
           \/ Outcome(w, c, CanSend(c, part), Send(c, part, NoId), FALSE)
        /\ UNCHANGED spent
     \/ /\ c = "Telegram" /\ m \in EmptyTelegram
        /\ Outcome(w, c, CanSend(c, part), Send(c, part, NoId), FALSE)
        /\ UNCHANGED <<accepted, spent>>
     \/ /\ ProviderAccepts(m, c)
        /\ Outcome(w, c, CanSend(c, part), Send(c, part, accepted[m][c] + 1), FALSE)
        /\ UNCHANGED spent
     \/ /\ Fault("provider")
        /\ Outcome(w, c, CanRetry(part), Retry(part), TRUE)
        /\ UNCHANGED accepted
     \/ /\ Fault("lostAnswer") /\ ProviderAccepts(m, c)
        /\ Outcome(w, c, CanRetry(part), Retry(part), TRUE)
  /\ UNCHANGED <<row, ready, job, past, reported, withdrawn>>

\* Update and SaveAsync of the whole snapshot, exceptions swallowed; then the
\* exception of the provider call, if there was one, reaches MassTransit.
RecordOutcome(w) ==
  LET m == MessageOf(w) IN
  /\ At(w, "record") /\ worker[w].cmd \in Sends
  /\ \/ /\ row[m] # NoRow
        /\ row' = [row EXCEPT ![m] = worker[w].snap]
        /\ UNCHANGED spent
     \/ row[m] = NoRow /\ UNCHANGED <<row, spent>>
     \/ Fault("database") /\ UNCHANGED row
  /\ IF worker[w].failed THEN Throw(w) ELSE Ack(w)
  /\ UNCHANGED <<ready, job, past, accepted, reported, withdrawn>>

-----------------------------------------------------------------------------
(* SmsDeliveryChangeRequestHandler                                         *)

\* Mutant of FindsSms: the id is not compared.
FindsAnySms(m, id) == row[m] # NoRow

\* GetBySmsIdInProviderAsync.
FindsSms(m, id) == row[m] # NoRow /\ row[m].part["Sms"].id = id

\* No row with that id: the report is dropped.
LoadForReport(w) ==
  LET m == MessageOf(w)
      cmd == worker[w].cmd IN
  /\ At(w, "load") /\ cmd \in Reports
  /\ IF ~FindsSms(m, cmd.id)
     THEN Ack(w)
     ELSE IF ~CanReport(row[m].part["Sms"])
     THEN Throw(w)
     ELSE Become(w, [worker[w] EXCEPT !.step = "record",
             !.snap = [row[m] EXCEPT !.part["Sms"] = Report(@, cmd.delivered)]])
  /\ UNCHANGED <<row, ready, job, past, accepted, reported, spent, withdrawn>>

SaveReport(w) ==
  LET m == MessageOf(w) IN
  /\ At(w, "record") /\ worker[w].cmd \in Reports
  /\ \/ /\ row[m] # NoRow
        /\ row' = [row EXCEPT ![m] = worker[w].snap]
        /\ Ack(w)
        /\ UNCHANGED spent
     \/ row[m] = NoRow /\ Throw(w) /\ UNCHANGED <<row, spent>>
     \/ Fault("database") /\ Throw(w) /\ UNCHANGED row
  /\ UNCHANGED <<ready, job, past, accepted, reported, withdrawn>>

-----------------------------------------------------------------------------
(* DeleteMessageRequestHandler and DeleteMessageByTagRequestHandler        *)

\* By tag the job is deleted first and the save comes last.
ByTag(w) == worker[w].cmd.type = "DeleteMessageByTag"

\* GetAsync, or the row of GetByTag: only a message that still waits is deleted.
LoadForDelete(w) ==
  LET m == MessageOf(w) IN
  /\ At(w, "load") /\ worker[w].cmd \in Deletes
  /\ IF row[m] = NoRow \/ m \notin Due \/ m \in past
     THEN Ack(w)
     ELSE Become(w, [worker[w] EXCEPT !.step = IF ByTag(w) THEN "dropJob" ELSE "delete",
                                      !.snap = row[m]])
  /\ UNCHANGED <<row, ready, job, past, accepted, reported, spent, withdrawn>>

\* The history variable notes a row deleted before its DueTime, and whether a
\* copy of its request was then still being handled; a new request clears it.
Withdrawn(m) ==
  withdrawn' = IF m \in past THEN withdrawn
               ELSE [withdrawn EXCEPT ![m] = IF RequestPending(m) THEN "early" ELSE "late"]

DeleteRow(w) ==
  LET m == MessageOf(w) IN
  /\ At(w, "delete")
  /\ \/ /\ row[m] # NoRow
        /\ RowDeleted(m)
        /\ Withdrawn(m)
        /\ IF ByTag(w) THEN Ack(w) ELSE GoTo(w, "dropJob")
        /\ UNCHANGED spent
     \/ row[m] = NoRow /\ Throw(w) /\ UNCHANGED <<row, spent, withdrawn>>
     \/ Fault("database") /\ Throw(w) /\ UNCHANGED <<row, withdrawn>>
  /\ UNCHANGED <<ready, job, past, accepted, reported>>

\* Hangfire's Delete of the JobId the snapshot carries; null or a failing
\* call throws, and the exception is swallowed.
DropJob(w) ==
  LET j == worker[w].snap.jobId IN
  /\ At(w, "dropJob")
  /\ \/ /\ j # NoJob
        /\ job' = [job EXCEPT ![j].live = FALSE]
        /\ UNCHANGED spent
     \/ j = NoJob /\ UNCHANGED <<job, spent>>
     \/ Fault("job") /\ UNCHANGED job
  /\ IF ByTag(w) THEN GoTo(w, "delete") ELSE Ack(w)
  /\ UNCHANGED <<row, ready, past, accepted, reported, withdrawn>>

\* DeleteDirect over HTTP: one statement deletes the rows that wait, no job.
DeleteByTag(m) ==
  /\ spent.deletes < MaxDeletes
  /\ spent' = [spent EXCEPT !.deletes = @ + 1]
  /\ m \in Due \ past /\ row[m] # NoRow
  /\ RowDeleted(m)
  /\ Withdrawn(m)
  /\ UNCHANGED <<ready, worker, job, past, accepted, reported>>

-----------------------------------------------------------------------------

HandleRequest(w) ==
  \/ IsExist(w) \/ AddRow(w) \/ ScheduleJob(w) \/ SavePending(w)
  \/ \E c \in Channels : PublishNow(w, c)
  \/ CatchDelete(w)

HandleSend(w) ==
  \/ \E c \in Channels : LoadForSend(w, c) \/ CallProvider(w, c)
  \/ RecordOutcome(w)

HandleReport(w) == LoadForReport(w) \/ SaveReport(w)

HandleDelete(w) == LoadForDelete(w) \/ DeleteRow(w) \/ DropJob(w)

Consume(w) ==
  \/ HandleRequest(w) \/ HandleSend(w) \/ HandleReport(w) \/ HandleDelete(w)

RunJob(j) == StartJob(j) \/ (\E c \in Channels : JobPublish(j, c)) \/ EndJob(j)

Broker == \E w \in Workers :
            \/ \E cmd \in Command : Deliver(w, cmd)
            \/ ReadFails(w) \/ Crash(w) \/ Disconnect(w)

Clients ==
  \/ \E m \in Msg : SubmitMessage(m) \/ DueTimeComes(m)
  \/ \E cmd \in Deletes : SubmitDelete(cmd)
  \/ \E chosen \in SUBSET Msg : ReSendFailedSms(chosen)
  \/ \E m \in Msg, id \in Ids, delivered \in BOOLEAN :
        ReportDelivery(m, id, delivered)

Next ==
  \/ Clients \/ Broker
  \/ \E w \in Workers : Consume(w)
  \/ \E j \in JobIds : RunJob(j) \/ JobFails(j)
  \/ \E m \in Msg : DeleteByTag(m)

Spec == Init /\ [][Next]_vars

-----------------------------------------------------------------------------
(* Properties                                                              *)

\* What a row may claim of a send.  An e-mail or Telegram that is not empty is
\* marked sent only if its provider took it.  An SMS marked sent without an id
\* claims nothing: the senders return normally for an answer they cannot read and
\* for a call they did not make.  But an id other than NoId is one the gateway gave
\* out for this SMS, it comes with a status that claims the send, and only an SMS
\* that has it is ever shown as delivered or not delivered.
HonestSms(part, m) ==
  /\ part.id <= accepted[m]["Sms"]
  /\ part.id # NoId => part.status \in SentStatuses
  /\ part.status \in {"Delivered", "UnDelivered"} => part.id # NoId

Honest(r, m) ==
  \A c \in Channels :
     IF c = "Sms" THEN HonestSms(r.part[c], m)
     ELSE r.part[c].status \in SentStatuses =>
            accepted[m][c] > 0 \/ (c = "Telegram" /\ m \in EmptyTelegram)

\* The claims a row makes are true, whatever stale whole-row writes, retries,
\* crashes and reports of lost or unread answers come between.
NoPhantomSent == \A m \in Msg : row[m] # NoRow => Honest(row[m], m)

\* The give-up limit of the e-mail and Telegram consumers holds in the row
\* even when several consumers of one message count retries from old copies.
RetryCap ==
  \A m \in Msg : row[m] # NoRow =>
     \A c \in Channels \ {"Sms"} : row[m].part[c].retry <= 3

\* Nothing of a message with a DueTime reaches a provider before that time,
\* neither through its job nor through an operator's re-send.
NoEarlySend ==
  \A m \in Due \ past : \A c \in Channels : accepted[m][c] = 0

\* A user gets a message once, plus at most once for every fault or re-send that
\* disturbed its way: no duplicate comes from the code alone.  Messages that may
\* have been deleted are left out: a delete lets a second copy of the request
\* schedule a second job, and two copies can take each other's row away again.
Disturbances == spent.faults + spent.resends

DuplicatesAreDisturbances ==
  \A m \in Msg, c \in Channels :
    spent.deletes = 0 \/ m \notin Due => accepted[m][c] <= 1 + Disturbances

\* A message deleted before its DueTime, after its request had been handled,
\* is never sent, even if Hangfire failed to delete its job ("backgroundjob
\* without domain not work").
LateDeleteNeverSent ==
  \A m \in Msg : withdrawn[m] = "late" =>
     \A c \in Channels : accepted[m][c] = 0

\* Faults after which nobody may come back to a message: a crash leaves a row
\* that was saved and not queued, a failing save loses the outcome of an SMS.
Lossy == {"crash", "database"}

DeletePending(m) ==
  \E cmd \in Deletes :
    cmd.msg = m /\ (ready[cmd] > 0 \/ \E w \in Workers : worker[w] # Idle /\ worker[w].cmd = cmd)

\* A channel of the message waits for its job or for its command.
Waits(m) == \E c \in Channels : row[m].part[c].status = "Pending"

\* A scheduled message is not forgotten: the job its row names is deleted only
\* together with the row.  The exception is a delete by tag, which takes the job
\* first: if its save fails or the process dies, and the DueTime comes before the
\* retry, the row is neither deleted nor ever sent.  A request that is handled
\* twice is left out: whoever is behind may write the id of a job that is gone
\* into the row of the second handling.
HandledOnce(m) == spent.requests[m] <= 1 /\ "disconnect" \notin spent.kinds

NothingForgotten ==
  \A m \in Msg : HandledOnce(m) /\ row[m] # NoRow /\ row[m].jobId # NoJob /\ Waits(m) =>
    job[row[m].jobId].live \/ DeletePending(m) \/ spent.kinds \cap Lossy # {}

\* A job that a deleted row left behind sends nothing, whatever happened to
\* the message since: the unconditional form of the same comment.
OrphanJobNeverSends ==
  \A m \in Msg :
     (/\ withdrawn[m] # "no" /\ row[m] # NoRow /\ row[m].jobId # NoJob
      /\ job[row[m].jobId].phase = "scheduled")
     => \A c \in Channels : accepted[m][c] = 0

\* "for be idempotent": handling a request again is the same as handling it
\* once, so no row is left unqueued when no copy of its request is pending.
IdempotentRequest ==
  \A m \in Msg : row[m] # NoRow /\ ~RequestPending(m) =>
     \A c \in Channels : row[m].part[c].status # "Created"

\* While a channel has one command in flight at a time, its own consumer never
\* takes a settled part back to Pending; only a whole-row write of somebody
\* else (another channel, the request handler) can.
Settled(r, c) == r.part[c].status \notin {"Created", "Pending"}

Regresses(m, c) ==
  /\ row[m] # NoRow /\ row'[m] # NoRow
  /\ Settled(row[m], c) /\ ~Settled(row'[m], c)

Owns(cmd, c) == cmd.type = c \/ (cmd.type = "SmsDelivery" /\ c = "Sms")

OwnConsumerNeverRegresses ==
  [][\A m \in Msg, c \in Channels :
       Regresses(m, c) =>
         \E w \in Workers : /\ worker'[w] # worker[w] /\ worker[w] # Idle
                             /\ ~Owns(worker[w].cmd, c)]_vars

\* With one channel and one command in flight at a time the rows implement
\* the status history of MessageLifecycle.
Lifecycle ==
  INSTANCE MessageLifecycle WITH
    status <- [m \in Msg |-> IF row[m] = NoRow THEN "Absent"
                             ELSE row[m].part["Sms"].status],
    reached <- {m \in Msg : accepted[m]["Sms"] > 0},
    known <- {m \in Msg : row[m] # NoRow /\ row[m].part["Sms"].id # NoId}

ImplementsLifecycle == Lifecycle!Spec

\* Brokers hand a waiting command to an idle consumer, consumers and Hangfire
\* run on, and time passes.  Nothing is assumed of clients or of faults.
Fairness ==
  /\ \A w \in Workers : WF_vars(Consume(w))
  /\ \A w \in Workers : WF_vars(\E cmd \in Command : Deliver(w, cmd))
  /\ \A j \in JobIds : WF_vars(RunJob(j))
  /\ \A m \in Due : WF_vars(DueTimeComes(m))

FairSpec == Spec /\ Fairness

\* Every requested message gets out in spite of all other faults, as long as
\* retries remain: an e-mail or Telegram that is not empty reaches its provider,
\* an SMS and an empty Telegram reach a final status.
RequestResolves ==
  \A m \in Msg, c \in Channels :
    spent.requests[m] > 0 ~>
      \/ spent.kinds \cap Lossy # {} \/ spent.faults > MaxAttempts
      \/ IF c = "Sms" \/ (c = "Telegram" /\ m \in EmptyTelegram)
         THEN row[m] # NoRow /\ Settled(row[m], c)
         ELSE accepted[m][c] > 0
=============================================================================
