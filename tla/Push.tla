-------------------------------- MODULE Push --------------------------------
(***************************************************************************)
(* The push part of one message: SendPushMessageConsumer calls a gateway   *)
(* for every device of the user and saves the whole row once, at the end;  *)
(* meanwhile devices report that a push arrived or was opened, and those   *)
(* handlers load and save the whole row too.  Both are retried by          *)
(* MassTransit.  The row is stored and queued before this module begins    *)
(* (module Dispatch) and nobody deletes it.  Broker, database and gateways *)
(* fail in the ways FaultKinds names, MaxFaults times in all.              *)
(***************************************************************************)
EXTENDS Naturals

CONSTANTS
  Devices,      \* addresses of the push jobs of the message (at least one)
  Firebase,     \* the devices reached through Firebase; the others use APN
  Proxied,      \* APN devices reached through the proxy: all or none in code
  Validated,    \* the message has a ValidatorUrl
  Workers,      \* consumer instances of the receive endpoints
  MaxAttempts,  \* retries of one delivery (ShortRetry: 3)
  MaxSends,     \* bound: pushes a gateway accepts for one device
  MaxFaults,    \* bound: injected faults
  MaxEvents,    \* bound: reports of devices
  FaultKinds,   \* the faults that may be injected
  Null,         \* null result, null FCMMessageId, nothing read
  ErrorText     \* a reason the gateway gives for a refusal

AllFaultKinds ==
  {"database", "provider", "lostAnswer", "publish", "crash", "disconnect"}

\* PushNotificationStatus.
Status == {"Created", "Pending", "Sended", "Delivered", "Clicked",
           "InvalidDeny", "Empty"}

\* Firebase numbers the pushes it accepts; APN answers without an id.
FcmIds == [device : Firebase, n : 1..MaxSends]

PushNotificationJob ==
  [status : Status, retry : Nat, result : FcmIds \cup {Null, ErrorText}]

PushNotification == [status : Status, jobs : [Devices -> PushNotificationJob]]

ASSUME PushAssumption ==
  /\ Devices # {} /\ Firebase \subseteq Devices /\ Proxied \subseteq Devices \ Firebase
  /\ Validated \in BOOLEAN
  /\ MaxAttempts \in Nat /\ MaxSends \in Nat /\ MaxFaults \in Nat
  /\ MaxEvents \in Nat /\ FaultKinds \subseteq AllFaultKinds
  /\ Null # ErrorText /\ Null \notin FcmIds /\ ErrorText \notin FcmIds
  /\ Null \notin PushNotification

VARIABLES
  push,      \* Messages table: the PushNotification columns of the row
  ready,     \* broker: copies of each command waiting for a consumer
  worker,    \* what each consumer instance is doing
  called,    \* gateways: calls made for each device
  accepted,  \* gateways: pushes accepted for each device
  invalid,   \* devices whose token was published as InvalidDevice
  spent      \* how much of each bound has been used

vars == <<push, ready, worker, called, accepted, invalid, spent>>

-----------------------------------------------------------------------------
(* Commands and consumers                                                  *)

SendPush == [type |-> "SendPush"]

Events == [type : {"Delivered", "Clicked"}, id : FcmIds \cup {Null}]

Command == {SendPush} \cup Events

Idle == [step |-> "idle"]

\* attempt: retries so far; held: the broker still counts the delivery as
\* ours; snap: the row as this consumer sees it; todo: jobs left to send.
Busy == [step : {"load", "send", "save"}, cmd : Command,
         attempt : 0..MaxAttempts, held : BOOLEAN,
         snap : PushNotification \cup {Null}, todo : SUBSET Devices]

Begin(cmd, attempt, held) ==
  [step |-> "load", cmd |-> cmd, attempt |-> attempt, held |-> held,
   snap |-> Null, todo |-> {}]

\* Enqueued, saved and published by the request handler.
Init ==
  /\ push = [status |-> "Pending",
             jobs |-> [d \in Devices |->
                         [status |-> "Pending", retry |-> 0, result |-> Null]]]
  /\ ready = [cmd \in Command |-> IF cmd = SendPush THEN 1 ELSE 0]
  /\ worker = [w \in Workers |-> Idle]
  /\ called = [d \in Devices |-> 0]
  /\ accepted = [d \in Devices |-> 0]
  /\ invalid = {}
  /\ spent = [faults |-> 0, events |-> 0, of |-> [k \in AllFaultKinds |-> 0]]

TypeOK ==
  /\ push \in PushNotification
  /\ ready \in [Command -> Nat]
  /\ worker \in [Workers -> Busy \cup {Idle}]
  /\ called \in [Devices -> Nat]
  /\ accepted \in [Devices -> Nat]
  /\ invalid \subseteq Devices
  /\ spent \in [faults : Nat, events : Nat, of : [AllFaultKinds -> Nat]]

At(w, step) == worker[w] # Idle /\ worker[w].step = step

Become(w, state) == worker' = [worker EXCEPT ![w] = state]

Ack(w) == Become(w, Idle)

\* Mutant of Throw: the retries are not counted against the limit.
ThrowForever(w) ==
  Become(w, Begin(worker[w].cmd, worker[w].attempt + 1, worker[w].held))

\* UseMessageRetry starts the consumer again; after ShortRetry's last retry
\* DiscardFaultedMessages drops the delivery.
Throw(w) ==
  Become(w, IF worker[w].attempt < MaxAttempts
            THEN Begin(worker[w].cmd, worker[w].attempt + 1, worker[w].held)
            ELSE Idle)

Fault(kind) ==
  /\ kind \in FaultKinds
  /\ spent.faults < MaxFaults
  /\ spent' = [spent EXCEPT !.faults = @ + 1, !.of[kind] = @ + 1]

Deliver(w, cmd) ==
  /\ worker[w] = Idle
  /\ ready[cmd] > 0
  /\ ready' = [ready EXCEPT ![cmd] = @ - 1]
  /\ Become(w, Begin(cmd, 0, TRUE))
  /\ UNCHANGED <<push, called, accepted, invalid, spent>>

\* The query or, for a validator, its answer fails.
ReadFails(w) ==
  /\ At(w, "load")
  /\ Fault("database")
  /\ Throw(w)
  /\ UNCHANGED <<push, ready, called, accepted, invalid>>

\* The process dies: what it had not acknowledged goes back to the queue.
Crash(w) ==
  /\ worker[w] # Idle
  /\ Fault("crash")
  /\ Ack(w)
  /\ ready' = [ready EXCEPT ![worker[w].cmd] =
                              IF worker[w].held THEN @ + 1 ELSE @]
  /\ UNCHANGED <<push, called, accepted, invalid>>

\* The connection is lost: the broker delivers again, the consumer runs on.
Disconnect(w) ==
  /\ worker[w] # Idle /\ worker[w].held
  /\ Fault("disconnect")
  /\ Become(w, [worker[w] EXCEPT !.held = FALSE])
  /\ ready' = [ready EXCEPT ![worker[w].cmd] = @ + 1]
  /\ UNCHANGED <<push, called, accepted, invalid>>

-----------------------------------------------------------------------------
(* The PushNotification value object: no operation has a guard             *)

Send(p, d, result) ==
  [status |-> "Sended",
   jobs |-> [p.jobs EXCEPT ![d].status = "Sended", ![d].result = result]]

Retry(p, d) == [p EXCEPT !.jobs[d].retry = @ + 1]

ValidatorDeny(p) ==
  [status |-> "InvalidDeny",
   jobs |-> [d \in Devices |-> [p.jobs[d] EXCEPT !.status = "InvalidDeny"]]]

\* Mutant of Reported: a job without a result counts as a match.
ReportedLoosely(p, event) ==
  [status |-> event.type,
   jobs |-> [d \in Devices |->
               IF p.jobs[d].result \in {event.id, Null}
               THEN [p.jobs[d] EXCEPT !.status = event.type]
               ELSE p.jobs[d]]]

\* Delivered and Clicked: the job whose result contains the id, if any, and
\* the status of the whole message in any case.
Reported(p, event) ==
  [status |-> event.type,
   jobs |-> [d \in Devices |->
               IF p.jobs[d].result # Null /\ p.jobs[d].result = event.id
               THEN [p.jobs[d] EXCEPT !.status = event.type]
               ELSE p.jobs[d]]]

-----------------------------------------------------------------------------
(* SendPushMessageConsumer                                                 *)

\* Mutants of Todo: the cap is off by one; the status is not looked at.
TodoUpToFour(p) ==
  {d \in Devices : p.jobs[d].status = "Pending" /\ p.jobs[d].retry <= 3}

TodoAnyStatus(p) == {d \in Devices : p.jobs[d].retry < 3}

\* The pending jobs that have not failed three times.
Todo(p) ==
  {d \in Devices : p.jobs[d].status = "Pending" /\ p.jobs[d].retry < 3}

\* The validator is asked on every attempt and may refuse on any of them.
LoadPush(w) ==
  /\ At(w, "load") /\ worker[w].cmd = SendPush
  /\ \/ Become(w, [worker[w] EXCEPT !.step = "send", !.snap = push,
                                    !.todo = Todo(push)])
     \/ /\ Validated
        /\ Become(w, [worker[w] EXCEPT !.step = "send", !.todo = {},
                                       !.snap = ValidatorDeny(push)])
  /\ UNCHANGED <<push, ready, called, accepted, invalid, spent>>

Accept(d) ==
  /\ accepted[d] < MaxSends
  /\ accepted' = [accepted EXCEPT ![d] = @ + 1]

\* The gateway returned; what it returned decides nothing but the result.
Done(w, d, result) ==
  Become(w, [worker[w] EXCEPT !.snap = Send(@, d, result), !.todo = @ \ {d}])

\* The gateway, or the publish of InvalidDevice, threw.
Failed(w, d) ==
  Become(w, [worker[w] EXCEPT !.snap = Retry(@, d), !.todo = @ \ {d}])

\* FirebaseNotificationSender: a refused token is answered, any other failure
\* is swallowed and an empty result returned.
FirebaseSend(w, d) ==
  /\ d \in Firebase
  /\ \/ /\ Accept(d)
        /\ Done(w, d, [device |-> d, n |-> accepted[d] + 1])
        /\ UNCHANGED <<invalid, spent>>
     \/ /\ Done(w, d, ErrorText)
        /\ invalid' = invalid \cup {d}
        /\ UNCHANGED <<accepted, spent>>
     \/ Fault("publish") /\ Failed(w, d) /\ UNCHANGED <<accepted, invalid>>
     \/ Fault("provider") /\ Done(w, d, Null) /\ UNCHANGED <<accepted, invalid>>
     \/ /\ Fault("lostAnswer") /\ Accept(d) /\ Done(w, d, Null)
        /\ UNCHANGED invalid

\* APNNotificationSender: a refusal is a success with a reason, no answer is
\* an exception.
AppleSend(w, d) ==
  /\ d \notin Firebase \cup Proxied
  /\ \/ Accept(d) /\ Done(w, d, Null) /\ UNCHANGED spent
     \/ Done(w, d, ErrorText) /\ UNCHANGED <<accepted, spent>>
     \/ Fault("provider") /\ Failed(w, d) /\ UNCHANGED accepted
     \/ Fault("lostAnswer") /\ Accept(d) /\ Failed(w, d)
  /\ UNCHANGED invalid

\* APNProxyNotificationSender does not wait for the answer.
ProxySend(w, d) ==
  /\ d \in Proxied
  /\ Done(w, d, Null)
  /\ Accept(d) \/ UNCHANGED accepted
  /\ UNCHANGED <<invalid, spent>>

\* One round of the loop; the list has the Firebase jobs first.
CallGateway(w, d) ==
  /\ At(w, "send") /\ d \in worker[w].todo
  /\ d \in Firebase \/ worker[w].todo \cap Firebase = {}
  /\ called' = [called EXCEPT ![d] = @ + 1]
  /\ FirebaseSend(w, d) \/ AppleSend(w, d) \/ ProxySend(w, d)
  /\ UNCHANGED <<push, ready>>

\* Mutant of Unfinished: the status of the message is looked at, not its jobs.
UnfinishedStatus(p) == p.status = "Pending"

Unfinished(p) == \E d \in Devices : p.jobs[d].status = "Pending"

\* Update and SaveAsync of the whole row; the consumer then throws if a
\* gateway threw or a job is still pending, which comes to the same thing.
SavePush(w) ==
  /\ At(w, "send") /\ worker[w].todo = {}
  /\ \/ /\ push' = worker[w].snap
        /\ IF Unfinished(worker[w].snap) THEN Throw(w) ELSE Ack(w)
        /\ UNCHANGED spent
     \/ Fault("database") /\ Throw(w) /\ UNCHANGED push
  /\ UNCHANGED <<ready, called, accepted, invalid>>

-----------------------------------------------------------------------------
(* NotificationDelivered- and NotificationClickedRequestHandler            *)

\* A device that shows a push reports it: by the FCM id, or by the id of the
\* message alone.
ReportEvent(event) ==
  /\ spent.events < MaxEvents
  /\ IF event.id = Null THEN \E d \in Devices : accepted[d] > 0
                        ELSE event.id.n <= accepted[event.id.device]
  /\ spent' = [spent EXCEPT !.events = @ + 1]
  /\ ready' = [ready EXCEPT ![event] = @ + 1]
  /\ UNCHANGED <<push, worker, called, accepted, invalid>>

\* string.Contains(null) throws at the first job that has a result.
LoadEvent(w) ==
  LET event == worker[w].cmd IN
  /\ At(w, "load") /\ event \in Events
  /\ IF event.id = Null /\ \E d \in Devices : push.jobs[d].result # Null
     THEN Throw(w)
     ELSE Become(w, [worker[w] EXCEPT !.step = "save",
                                      !.snap = Reported(push, event)])
  /\ UNCHANGED <<push, ready, called, accepted, invalid, spent>>

SaveEvent(w) ==
  /\ At(w, "save")
  /\ \/ push' = worker[w].snap /\ Ack(w) /\ UNCHANGED spent
     \/ Fault("database") /\ Throw(w) /\ UNCHANGED push
  /\ UNCHANGED <<ready, called, accepted, invalid>>

-----------------------------------------------------------------------------

Consume(w) ==
  \/ LoadPush(w) \/ SavePush(w) \/ LoadEvent(w) \/ SaveEvent(w)
  \/ \E d \in Devices : CallGateway(w, d)

Broker(w) ==
  \/ \E cmd \in Command : Deliver(w, cmd)
  \/ ReadFails(w) \/ Crash(w) \/ Disconnect(w)

Next ==
  \/ \E w \in Workers : Consume(w) \/ Broker(w)
  \/ \E event \in Events : ReportEvent(event)

Spec == Init /\ [][Next]_vars

-----------------------------------------------------------------------------
(* Properties                                                              *)

\* What the row says of a device is backed by its gateway: a push recorded as
\* sent was at least tried (Firebase hides failures, so no more can be said),
\* and one recorded as delivered or opened, like any stored FCM id, is one
\* the gateway accepted for that very device, whatever stale rows are saved.
HonestJob(d, j) ==
  /\ j.status \in {"Sended", "Delivered", "Clicked"} => called[d] > 0
  /\ j.status \in {"Delivered", "Clicked"} => j.result \in FcmIds
  /\ j.result \in FcmIds => j.result.device = d /\ j.result.n <= accepted[d]

NoPhantomPush == \A d \in Devices : HonestJob(d, push.jobs[d])

\* No job is retried more than three times, although consumers that overlap
\* count from copies of the row and write their counts over one another.
PushRetryCap == \A d \in Devices : push.jobs[d].retry <= 3

\* Everything that can make a consumer forget that a push went out: the save
\* or the answer got lost, the delivery was repeated, a report of a device
\* saved an older row.  A gateway that fails makes no duplicate, unless two
\* consumers work on the message at once.
Disturbances ==
  spent.events + spent.of["database"] + spent.of["lostAnswer"]
  + spent.of["crash"] + spent.of["disconnect"]
  + IF spent.of["disconnect"] > 0
    THEN spent.of["provider"] + spent.of["publish"] ELSE 0

\* A device gets the push once, plus at most once per such disturbance.
PushDuplicatesAreDisturbances ==
  \A d \in Devices : accepted[d] <= 1 + Disturbances

Quiescent ==
  /\ \A cmd \in Command : ready[cmd] = 0
  /\ \A w \in Workers : worker[w] = Idle

\* The retries of the broker and the cap of the jobs fit: when everything has
\* come to rest a job is still pending only if it failed three times, or if
\* failures of the database used up the attempts it was entitled to.
GivesUpAfterThree ==
  Quiescent /\ spent.events = 0 /\ spent.of["disconnect"] = 0 =>
    \A d \in Devices : push.jobs[d].status = "Pending" =>
       \/ push.jobs[d].retry >= 3
       \/ push.jobs[d].retry + spent.of["database"] > MaxAttempts
=============================================================================
