----------------------------- MODULE Push_proofs -----------------------------
(***************************************************************************)
(* Proofs about Push: its types, that the row claims nothing of a device   *)
(* that its gateway does not back, the cap on retries, the bound on pushes *)
(* accepted twice and that no attempt a job is entitled to is lost.        *)
(*                                                                         *)
(* As in Dispatch_proofs, whatever is claimed of the stored row must be    *)
(* claimed of every copy a consumer may still save.                        *)
(***************************************************************************)
EXTENDS Push, FiniteSetTheorems, TLAPS

HasSnap(state) == state # Idle /\ state.step \in {"send", "save"}

\* HonestJob and PushRetryCap of one job, for given counts of calls and of
\* acceptances; a job with an FCM id was tried, which Reported relies on.
Backed(d, j, tries, sent) ==
  /\ j.status \in {"Sended", "Delivered", "Clicked"} => tries > 0
  /\ j.status \in {"Delivered", "Clicked"} => j.result \in FcmIds
  /\ j.result \in FcmIds => j.result.device = d /\ j.result.n <= sent /\ tries > 0
  /\ j.retry <= 3

GoodRow(p, tries, sent) ==
  \A d \in Devices : Backed(d, p.jobs[d], tries[d], sent[d])

\* A job that is still to be sent can be retried once more.
GoodWorker(state, tries, sent) ==
  HasSnap(state) =>
    /\ state.snap \in PushNotification
    /\ GoodRow(state.snap, tries, sent)
    /\ state.step = "send" => \A d \in state.todo : state.snap.jobs[d].retry < 3

PushInv ==
  /\ TypeOK
  /\ GoodRow(push, called, accepted)
  /\ \A w \in Workers : GoodWorker(worker[w], called, accepted)

Counts == [Devices -> Nat]

-----------------------------------------------------------------------------

\* A worker's state is told from Idle by its step.
LEMMA IdleIsNotBusy == Idle \notin Busy /\ ~HasSnap(Idle)
BY DEF Idle, Busy, HasSnap

\* The operations of the value object keep its type.
LEMMA SendTyped ==
  ASSUME NEW p \in PushNotification, NEW d \in Devices,
         NEW result \in FcmIds \cup {Null, ErrorText}
  PROVE  Send(p, d, result) \in PushNotification
<1>1. [p.jobs EXCEPT ![d].status = "Sended", ![d].result = result]
        \in [Devices -> PushNotificationJob]
  BY DEF PushNotification, PushNotificationJob, Status
<1> QED BY <1>1 DEF Send, PushNotification, Status

LEMMA RetryTyped ==
  ASSUME NEW p \in PushNotification, NEW d \in Devices
  PROVE  Retry(p, d) \in PushNotification
<1> USE DEF PushNotification, PushNotificationJob
<1>1. p.jobs[d].retry + 1 \in Nat /\ p.jobs[d] \in PushNotificationJob
  OBVIOUS
<1>2. [p.jobs[d] EXCEPT !.retry = @ + 1] \in PushNotificationJob
  BY <1>1
<1>3. [p.jobs EXCEPT ![d] = [p.jobs[d] EXCEPT !.retry = @ + 1]]
        \in [Devices -> PushNotificationJob]
  BY <1>2
<1>4. Retry(p, d)
        = [p EXCEPT !.jobs = [p.jobs EXCEPT ![d] = [p.jobs[d] EXCEPT !.retry = @ + 1]]]
  BY DEF Retry
<1> QED BY <1>3, <1>4

LEMMA DenyTyped ==
  ASSUME NEW p \in PushNotification
  PROVE  ValidatorDeny(p) \in PushNotification
BY DEF ValidatorDeny, PushNotification, PushNotificationJob, Status

LEMMA ReportedTyped ==
  ASSUME NEW p \in PushNotification, NEW event \in Events
  PROVE  Reported(p, event) \in PushNotification
<1> USE DEF PushNotification, PushNotificationJob, Status
<1>1. event.type \in Status
  BY DEF Events
<1>2. \A d \in Devices : [p.jobs[d] EXCEPT !.status = event.type]
                           \in PushNotificationJob
  BY <1>1
<1> QED BY <1>1, <1>2 DEF Reported

\* A row stays good when the gateways are called and accept more.
LEMMA GoodRowGrows ==
  ASSUME NEW p \in PushNotification,
         NEW t \in Counts, NEW s \in Counts, NEW t2 \in Counts, NEW s2 \in Counts,
         \A d \in Devices : t[d] <= t2[d] /\ s[d] <= s2[d],
         GoodRow(p, t, s)
  PROVE  GoodRow(p, t2, s2)
<1> SUFFICES ASSUME NEW d \in Devices
             PROVE  Backed(d, p.jobs[d], t2[d], s2[d])
  BY DEF GoodRow
<1>1. Backed(d, p.jobs[d], t[d], s[d]) /\ t[d] <= t2[d] /\ s[d] <= s2[d]
  BY DEF GoodRow
<1>2. t[d] \in Nat /\ s[d] \in Nat /\ t2[d] \in Nat /\ s2[d] \in Nat
  BY DEF Counts
<1>3. p.jobs[d].result \in FcmIds => p.jobs[d].result.n \in Nat
  BY PushAssumption DEF FcmIds
<1> QED BY <1>1, <1>2, <1>3 DEF Backed

\* The operations of the value object keep a row good, each under the
\* circumstances in which the consumers use it.
LEMMA SendKeepsGood ==
  ASSUME NEW p \in PushNotification, NEW d \in Devices,
         NEW result \in FcmIds \cup {Null, ErrorText},
         NEW t \in Counts, NEW s \in Counts, GoodRow(p, t, s), t[d] > 0,
         result \in FcmIds => result.device = d /\ result.n <= s[d]
  PROVE  GoodRow(Send(p, d, result), t, s)
<1> SUFFICES ASSUME NEW e \in Devices
             PROVE  Backed(e, Send(p, d, result).jobs[e], t[e], s[e])
  BY DEF GoodRow
<1>1. Backed(e, p.jobs[e], t[e], s[e])
  BY DEF GoodRow
<1>2. p.jobs \in [Devices -> PushNotificationJob]
  BY DEF PushNotification
<1>3. CASE e = d
  <2>1. Send(p, d, result).jobs[e]
          = [p.jobs[d] EXCEPT !.status = "Sended", !.result = result]
    BY <1>2, <1>3 DEF Send, PushNotificationJob
  <2>2. Send(p, d, result).jobs[e].status = "Sended"
        /\ Send(p, d, result).jobs[e].result = result
        /\ Send(p, d, result).jobs[e].retry = p.jobs[e].retry
    BY <1>2, <1>3, <2>1 DEF PushNotificationJob
  <2> QED BY <1>1, <1>3, <2>2 DEF Backed
<1>4. CASE e # d
  <2>1. Send(p, d, result).jobs[e] = p.jobs[e]
    BY <1>2, <1>4 DEF Send, PushNotificationJob
  <2> QED BY <1>1, <2>1
<1> QED BY <1>3, <1>4

LEMMA RetryKeepsGood ==
  ASSUME NEW p \in PushNotification, NEW d \in Devices,
         NEW t, NEW s, GoodRow(p, t, s), p.jobs[d].retry < 3
  PROVE  GoodRow(Retry(p, d), t, s)
<1> SUFFICES ASSUME NEW e \in Devices
             PROVE  Backed(e, Retry(p, d).jobs[e], t[e], s[e])
  BY DEF GoodRow
<1>1. Backed(e, p.jobs[e], t[e], s[e])
  BY DEF GoodRow
<1>2. p.jobs \in [Devices -> PushNotificationJob]
  BY DEF PushNotification
<1>3. CASE e = d
  <2>1. p.jobs[d].retry \in Nat
    BY <1>2 DEF PushNotificationJob
  <2>2. /\ Retry(p, d).jobs[e].status = p.jobs[e].status
        /\ Retry(p, d).jobs[e].result = p.jobs[e].result
        /\ Retry(p, d).jobs[e].retry = p.jobs[e].retry + 1
    BY <1>2, <1>3 DEF Retry, PushNotification, PushNotificationJob
  <2> QED BY <1>1, <1>3, <2>1, <2>2 DEF Backed
<1>4. CASE e # d
  <2>1. Retry(p, d).jobs[e] = p.jobs[e]
    BY <1>2, <1>4 DEF Retry, PushNotification, PushNotificationJob
  <2> QED BY <1>1, <2>1
<1> QED BY <1>3, <1>4

LEMMA DenyKeepsGood ==
  ASSUME NEW p \in PushNotification, NEW t, NEW s, GoodRow(p, t, s)
  PROVE  GoodRow(ValidatorDeny(p), t, s)
<1> SUFFICES ASSUME NEW d \in Devices
             PROVE  Backed(d, ValidatorDeny(p).jobs[d], t[d], s[d])
  BY DEF GoodRow
<1>1. Backed(d, p.jobs[d], t[d], s[d]) /\ p.jobs[d] \in PushNotificationJob
  BY DEF GoodRow, PushNotification
<1>2. /\ ValidatorDeny(p).jobs[d].status = "InvalidDeny"
      /\ ValidatorDeny(p).jobs[d].result = p.jobs[d].result
      /\ ValidatorDeny(p).jobs[d].retry = p.jobs[d].retry
  BY <1>1 DEF ValidatorDeny, PushNotificationJob
<1> QED BY <1>1, <1>2 DEF Backed

LEMMA ReportedKeepsGood ==
  ASSUME NEW p \in PushNotification, NEW event \in Events,
         NEW t, NEW s, GoodRow(p, t, s)
  PROVE  GoodRow(Reported(p, event), t, s)
<1> SUFFICES ASSUME NEW d \in Devices
             PROVE  Backed(d, Reported(p, event).jobs[d], t[d], s[d])
  BY DEF GoodRow
<1>1. Backed(d, p.jobs[d], t[d], s[d]) /\ p.jobs[d] \in PushNotificationJob
  BY DEF GoodRow, PushNotification
<1>2. event.id \in FcmIds \cup {Null}
  BY DEF Events
<1>3. CASE p.jobs[d].result # Null /\ p.jobs[d].result = event.id
  <2>1. p.jobs[d].result \in FcmIds
    BY <1>2, <1>3
  <2>2. /\ Reported(p, event).jobs[d].result = p.jobs[d].result
        /\ Reported(p, event).jobs[d].retry = p.jobs[d].retry
    BY <1>1, <1>3 DEF Reported, PushNotificationJob
  <2> QED BY <1>1, <2>1, <2>2 DEF Backed
<1>4. CASE ~(p.jobs[d].result # Null /\ p.jobs[d].result = event.id)
  <2>1. Reported(p, event).jobs[d] = p.jobs[d]
    BY <1>4 DEF Reported
  <2> QED BY <1>1, <2>1
<1> QED BY <1>3, <1>4

-----------------------------------------------------------------------------
(* Steps                                                                   *)

\* A step of one consumer keeps PushInv if it leaves the row and the consumer
\* good, and no counter of the gateways goes down.
LEMMA WorkerStep ==
  ASSUME PushInv, NEW w \in Workers, NEW state \in Busy \cup {Idle},
         worker' = [worker EXCEPT ![w] = state],
         called' \in Counts, accepted' \in Counts,
         \A d \in Devices : called[d] <= called'[d] /\ accepted[d] <= accepted'[d],
         push' \in PushNotification, GoodRow(push', called', accepted'),
         GoodWorker(state, called', accepted'),
         ready' \in [Command -> Nat], invalid' \subseteq Devices,
         spent' \in [faults : Nat, events : Nat, of : [AllFaultKinds -> Nat]]
  PROVE  PushInv'
<1>1. called \in Counts /\ accepted \in Counts
      /\ worker \in [Workers -> Busy \cup {Idle}]
  BY DEF PushInv, TypeOK, Counts
<1>2. TypeOK'
  BY <1>1 DEF TypeOK, Counts
<1>3. ASSUME NEW v \in Workers
      PROVE  GoodWorker(worker'[v], called', accepted')
  <2>1. CASE v = w
    BY <1>1, <2>1
  <2>2. CASE v # w
    <3>1. worker'[v] = worker[v] /\ GoodWorker(worker[v], called, accepted)
      BY <1>1, <2>2 DEF PushInv
    <3>2. HasSnap(worker[v]) => GoodRow(worker[v].snap, called', accepted')
      BY <1>1, <3>1, GoodRowGrows DEF GoodWorker
    <3> QED BY <3>1, <3>2 DEF GoodWorker
  <2> QED BY <2>1, <2>2
<1> QED BY <1>2, <1>3 DEF PushInv

\* The same for the many steps in which no gateway takes part.
LEMMA QuietStep ==
  ASSUME PushInv, NEW w \in Workers, NEW state \in Busy \cup {Idle},
         worker' = [worker EXCEPT ![w] = state],
         UNCHANGED <<called, accepted, invalid>>,
         push' \in PushNotification, GoodRow(push', called, accepted),
         GoodWorker(state, called, accepted),
         ready' \in [Command -> Nat],
         spent' \in [faults : Nat, events : Nat, of : [AllFaultKinds -> Nat]]
  PROVE  PushInv'
<1>1. called \in Counts /\ accepted \in Counts /\ invalid \subseteq Devices
  BY DEF PushInv, TypeOK, Counts
<1>2. \A d \in Devices : called[d] <= called'[d] /\ accepted[d] <= accepted'[d]
  BY <1>1 DEF Counts
<1> QED BY <1>1, <1>2, WorkerStep

\* What is known of a busy consumer and of the counters of the bounds.
LEMMA BusyFacts ==
  ASSUME PushInv, NEW w \in Workers, worker[w] # Idle
  PROVE  /\ worker[w] \in Busy
         /\ worker[w].cmd \in Command
         /\ GoodWorker(worker[w], called, accepted)
<1>1. worker[w] \in Busy
  BY DEF PushInv, TypeOK
<1> QED BY <1>1 DEF PushInv, Busy

LEMMA FaultTyped ==
  ASSUME PushInv, NEW kind, Fault(kind)
  PROVE  spent' \in [faults : Nat, events : Nat, of : [AllFaultKinds -> Nat]]
<1>1. spent \in [faults : Nat, events : Nat, of : [AllFaultKinds -> Nat]]
  BY DEF PushInv, TypeOK
<1>2. spent.faults + 1 \in Nat /\ spent.of[kind] + 1 \in Nat
  BY <1>1, PushAssumption DEF Fault
<1>3. spent' = [spent EXCEPT !.faults = spent.faults + 1,
                             !.of = [spent.of EXCEPT ![kind] = spent.of[kind] + 1]]
  BY DEF Fault
<1>4. [spent.of EXCEPT ![kind] = spent.of[kind] + 1] \in [AllFaultKinds -> Nat]
  BY <1>1, <1>2
<1> QED BY <1>1, <1>2, <1>3, <1>4

\* A consumer that starts, or starts again, holds no row.
LEMMA BeginIsGood ==
  ASSUME NEW cmd \in Command, NEW attempt \in 0..MaxAttempts, NEW held \in BOOLEAN
  PROVE  Begin(cmd, attempt, held) \in Busy /\ ~HasSnap(Begin(cmd, attempt, held))
BY DEF Begin, Busy, HasSnap

\* After a throw the consumer starts again or is idle, without a row.
LEMMA ThrowState ==
  ASSUME PushInv, NEW w \in Workers, worker[w] # Idle, Throw(w)
  PROVE  \E state \in Busy \cup {Idle} :
            worker' = [worker EXCEPT ![w] = state] /\ ~HasSnap(state)
<1>1. worker[w].attempt \in 0..MaxAttempts /\ worker[w].cmd \in Command
      /\ worker[w].held \in BOOLEAN
  BY BusyFacts DEF Busy
<1>2. CASE worker[w].attempt < MaxAttempts
  <2>1. worker[w].attempt + 1 \in 0..MaxAttempts
    BY <1>1, <1>2, PushAssumption
  <2> DEFINE again == Begin(worker[w].cmd, worker[w].attempt + 1, worker[w].held)
  <2>2. again \in Busy /\ ~HasSnap(again)
    BY <1>1, <2>1, BeginIsGood
  <2>3. worker' = [worker EXCEPT ![w] = again]
    BY <1>2 DEF Throw, Become
  <2> QED BY <2>2, <2>3
<1>3. CASE ~(worker[w].attempt < MaxAttempts)
  <2>1. worker' = [worker EXCEPT ![w] = Idle]
    BY <1>3 DEF Throw, Become
  <2> QED BY <2>1, IdleIsNotBusy
<1> QED BY <1>2, <1>3

\* A throw, with whatever good row is saved before it, keeps PushInv.
LEMMA ThrowStep ==
  ASSUME PushInv, NEW w \in Workers, worker[w] # Idle, Throw(w),
         UNCHANGED <<ready, called, accepted, invalid>>,
         push' \in PushNotification, GoodRow(push', called, accepted),
         spent' \in [faults : Nat, events : Nat, of : [AllFaultKinds -> Nat]]
  PROVE  PushInv'
<1>1. PICK state \in Busy \cup {Idle} :
         worker' = [worker EXCEPT ![w] = state] /\ ~HasSnap(state)
  BY ThrowState
<1>2. GoodWorker(state, called, accepted)
  BY <1>1 DEF GoodWorker
<1>3. ready' \in [Command -> Nat]
  BY DEF PushInv, TypeOK
<1> QED BY <1>1, <1>2, <1>3, QuietStep

\* The number of copies of a command in the broker.
LEMMA ReadyUpdated ==
  ASSUME PushInv, NEW cmd \in Command
  PROVE  /\ ready[cmd] \in Nat
         /\ \A n \in Nat : [ready EXCEPT ![cmd] = n] \in [Command -> Nat]
BY DEF PushInv, TypeOK

\* The broker, and everything that can befall a consumer at any step.
LEMMA BrokerStep ==
  ASSUME PushInv, NEW w \in Workers, Broker(w)
  PROVE  PushInv'
<1>1. /\ push \in PushNotification /\ GoodRow(push, called, accepted)
      /\ ready \in [Command -> Nat]
      /\ spent \in [faults : Nat, events : Nat, of : [AllFaultKinds -> Nat]]
  BY DEF PushInv, TypeOK
<1>2. CASE \E cmd \in Command : Deliver(w, cmd)
  <2>1. PICK cmd \in Command : Deliver(w, cmd)
    BY <1>2
  <2>2. worker' = [worker EXCEPT ![w] = Begin(cmd, 0, TRUE)]
    BY <2>1 DEF Deliver, Become
  <2>3. Begin(cmd, 0, TRUE) \in Busy /\ ~HasSnap(Begin(cmd, 0, TRUE))
    <3>1. 0 \in 0..MaxAttempts /\ TRUE \in BOOLEAN
      BY PushAssumption
    <3> QED BY <3>1, BeginIsGood
  <2>4. GoodWorker(Begin(cmd, 0, TRUE), called, accepted)
    BY <2>3 DEF GoodWorker
  <2>5. ready' \in [Command -> Nat]
    <3>1. ready' = [ready EXCEPT ![cmd] = ready[cmd] - 1] /\ ready[cmd] > 0
      BY <2>1 DEF Deliver
    <3>2. ready[cmd] \in Nat
      BY ReadyUpdated
    <3>3. ready[cmd] - 1 \in Nat
      BY <3>1, <3>2
    <3> QED BY <3>1, <3>3, ReadyUpdated
  <2>6. UNCHANGED <<push, called, accepted, invalid, spent>>
    BY <2>1 DEF Deliver
  <2> QED BY <1>1, <2>2, <2>3, <2>4, <2>5, <2>6, QuietStep
<1>3. CASE ReadFails(w)
  <2>1. worker[w] # Idle /\ Throw(w) /\ Fault("database")
        /\ UNCHANGED <<push, ready, called, accepted, invalid>>
    BY <1>3 DEF ReadFails, At
  <2>2. spent' \in [faults : Nat, events : Nat, of : [AllFaultKinds -> Nat]]
    BY <2>1, FaultTyped
  <2> QED BY <1>1, <2>1, <2>2, ThrowStep
<1>4. CASE Crash(w)
  <2>1. worker' = [worker EXCEPT ![w] = Idle] /\ Fault("crash")
        /\ UNCHANGED <<push, called, accepted, invalid>>
    BY <1>4 DEF Crash, Ack, Become
  <2>2. ready' \in [Command -> Nat]
    <3>1. worker[w].cmd \in Command
      BY <1>4, BusyFacts DEF Crash
    <3> DEFINE n == IF worker[w].held THEN ready[worker[w].cmd] + 1
                                      ELSE ready[worker[w].cmd]
    <3>2. ready' = [ready EXCEPT ![worker[w].cmd] = n]
      BY <1>4 DEF Crash
    <3>3. n \in Nat
      BY <3>1, ReadyUpdated
    <3> HIDE DEF n
    <3> QED BY <3>1, <3>2, <3>3, ReadyUpdated
  <2>3. GoodWorker(Idle, called, accepted)
    BY IdleIsNotBusy DEF GoodWorker
  <2>4. spent' \in [faults : Nat, events : Nat, of : [AllFaultKinds -> Nat]]
    BY <2>1, FaultTyped
  <2> QED BY <1>1, <2>1, <2>2, <2>3, <2>4, QuietStep
<1>5. CASE Disconnect(w)
  <2> DEFINE state == [worker[w] EXCEPT !.held = FALSE]
  <2>1. worker[w] # Idle /\ worker' = [worker EXCEPT ![w] = state]
        /\ Fault("disconnect") /\ UNCHANGED <<push, called, accepted, invalid>>
    BY <1>5 DEF Disconnect, Become
  <2>2. worker[w] \in Busy /\ GoodWorker(worker[w], called, accepted)
    BY <2>1, BusyFacts
  <2>3. state \in Busy
    BY <2>2 DEF Busy
  <2>4. state.step = worker[w].step /\ state.snap = worker[w].snap
        /\ state.todo = worker[w].todo
    BY <2>2 DEF Busy
  <2>5. GoodWorker(state, called, accepted)
    BY <2>1, <2>2, <2>4 DEF GoodWorker, HasSnap
  <2>6. ready' \in [Command -> Nat]
    <3>1. worker[w].cmd \in Command
      BY <2>1, BusyFacts
    <3>2. ready' = [ready EXCEPT ![worker[w].cmd] = ready[worker[w].cmd] + 1]
      BY <1>5 DEF Disconnect
    <3>3. ready[worker[w].cmd] + 1 \in Nat
      BY <3>1, ReadyUpdated
    <3> QED BY <3>1, <3>2, <3>3, ReadyUpdated
  <2>7. spent' \in [faults : Nat, events : Nat, of : [AllFaultKinds -> Nat]]
    BY <2>1, FaultTyped
  <2> HIDE DEF state
  <2> QED BY <1>1, <2>1, <2>3, <2>5, <2>6, <2>7, QuietStep
<1> QED BY <1>2, <1>3, <1>4, <1>5 DEF Broker

\* Loading the row, with or without the refusal of the validator.
LEMMA LoadPushStep ==
  ASSUME PushInv, NEW w \in Workers, LoadPush(w)
  PROVE  PushInv'
<1>1. /\ push \in PushNotification /\ GoodRow(push, called, accepted)
      /\ ready \in [Command -> Nat]
      /\ spent \in [faults : Nat, events : Nat, of : [AllFaultKinds -> Nat]]
  BY DEF PushInv, TypeOK
<1>2. worker[w] # Idle /\ UNCHANGED <<push, ready, called, accepted, invalid, spent>>
  BY DEF LoadPush, At
<1>3. worker[w] \in Busy
  BY <1>2, BusyFacts
<1>4. ASSUME NEW snap \in PushNotification, NEW todo \in SUBSET Devices,
             GoodRow(snap, called, accepted),
             \A d \in todo : snap.jobs[d].retry < 3,
             worker' = [worker EXCEPT ![w] =
                          [worker[w] EXCEPT !.step = "send", !.snap = snap, !.todo = todo]]
      PROVE  PushInv'
  <2> DEFINE state == [worker[w] EXCEPT !.step = "send", !.snap = snap, !.todo = todo]
  <2>1. state \in Busy /\ state.step = "send" /\ state.snap = snap /\ state.todo = todo
    BY <1>3 DEF Busy
  <2>2. GoodWorker(state, called, accepted)
    BY <1>4, <2>1 DEF GoodWorker
  <2>3. worker' = [worker EXCEPT ![w] = state]
    BY <1>4
  <2> HIDE DEF state
  <2> QED BY <1>1, <1>2, <2>1, <2>2, <2>3, QuietStep
<1>5. Todo(push) \in SUBSET Devices /\ \A d \in Todo(push) : push.jobs[d].retry < 3
  BY DEF Todo
<1>6. ValidatorDeny(push) \in PushNotification
      /\ GoodRow(ValidatorDeny(push), called, accepted)
  BY <1>1, DenyTyped, DenyKeepsGood
<1>7. CASE Become(w, [worker[w] EXCEPT !.step = "send", !.snap = push,
                                       !.todo = Todo(push)])
  BY <1>1, <1>4, <1>5, <1>7 DEF Become
<1>8. CASE Become(w, [worker[w] EXCEPT !.step = "send", !.todo = {},
                                       !.snap = ValidatorDeny(push)])
  <2>1. worker' = [worker EXCEPT ![w] =
                     [worker[w] EXCEPT !.step = "send", !.snap = ValidatorDeny(push),
                                       !.todo = {}]]
    BY <1>3, <1>8 DEF Become, Busy
  <2> QED
    <3>1. {} \in SUBSET Devices
      OBVIOUS
    <3>2. \A d \in {} : ValidatorDeny(push).jobs[d].retry < 3
      OBVIOUS
    <3> HIDE DEF ValidatorDeny
    <3> QED BY <1>4, <1>6, <2>1, <3>1, <3>2
<1> QED BY <1>7, <1>8 DEF LoadPush

\* Saving the row at the end of the loop.
LEMMA SavePushStep ==
  ASSUME PushInv, NEW w \in Workers, SavePush(w)
  PROVE  PushInv'
<1>1. /\ push \in PushNotification /\ GoodRow(push, called, accepted)
      /\ ready \in [Command -> Nat]
      /\ spent \in [faults : Nat, events : Nat, of : [AllFaultKinds -> Nat]]
  BY DEF PushInv, TypeOK
<1>2. worker[w] # Idle /\ HasSnap(worker[w])
      /\ UNCHANGED <<ready, called, accepted, invalid>>
  BY DEF SavePush, At, HasSnap
<1>3. /\ worker[w].snap \in PushNotification
      /\ GoodRow(worker[w].snap, called, accepted)
  BY <1>2, BusyFacts DEF GoodWorker
<1>4. CASE /\ push' = worker[w].snap
           /\ IF Unfinished(worker[w].snap) THEN Throw(w) ELSE Ack(w)
           /\ UNCHANGED spent
  <2>1. push' \in PushNotification /\ GoodRow(push', called, accepted)
    BY <1>3, <1>4
  <2>2. CASE Throw(w)
    BY <1>1, <1>2, <1>4, <2>1, <2>2, ThrowStep
  <2>3. CASE Ack(w)
    <3>1. worker' = [worker EXCEPT ![w] = Idle] /\ GoodWorker(Idle, called, accepted)
      BY <2>3, IdleIsNotBusy DEF Ack, Become, GoodWorker
    <3> QED BY <1>1, <1>2, <1>4, <2>1, <3>1, QuietStep
  <2> QED BY <1>4, <2>2, <2>3
<1>5. CASE Fault("database") /\ Throw(w) /\ UNCHANGED push
  BY <1>1, <1>2, <1>5, FaultTyped, ThrowStep
<1> QED BY <1>4, <1>5 DEF SavePush

\* The report of a device, applied to the row it finds.
LEMMA LoadEventStep ==
  ASSUME PushInv, NEW w \in Workers, LoadEvent(w)
  PROVE  PushInv'
<1>1. /\ push \in PushNotification /\ GoodRow(push, called, accepted)
      /\ ready \in [Command -> Nat]
      /\ spent \in [faults : Nat, events : Nat, of : [AllFaultKinds -> Nat]]
  BY DEF PushInv, TypeOK
<1>2. worker[w] # Idle /\ worker[w].cmd \in Events
      /\ UNCHANGED <<push, ready, called, accepted, invalid, spent>>
  BY DEF LoadEvent, At
<1>3. worker[w] \in Busy
  BY <1>2, BusyFacts
<1>4. /\ Reported(push, worker[w].cmd) \in PushNotification
      /\ GoodRow(Reported(push, worker[w].cmd), called, accepted)
  BY <1>1, <1>2, ReportedTyped, ReportedKeepsGood
<1>5. CASE Throw(w)
  BY <1>1, <1>2, <1>5, ThrowStep
<1>6. ASSUME NEW snap \in PushNotification, GoodRow(snap, called, accepted),
             worker' = [worker EXCEPT ![w] =
                          [worker[w] EXCEPT !.step = "save", !.snap = snap]]
      PROVE  PushInv'
  <2> DEFINE state == [worker[w] EXCEPT !.step = "save", !.snap = snap]
  <2>1. state \in Busy /\ state.step = "save" /\ state.snap = snap
    BY <1>3 DEF Busy
  <2>2. GoodWorker(state, called, accepted)
    BY <1>6, <2>1 DEF GoodWorker
  <2>3. worker' = [worker EXCEPT ![w] = state]
    BY <1>6
  <2> HIDE DEF state
  <2> QED BY <1>1, <1>2, <2>1, <2>2, <2>3, QuietStep
<1> QED BY <1>4, <1>5, <1>6 DEF LoadEvent, Become

LEMMA SaveEventStep ==
  ASSUME PushInv, NEW w \in Workers, SaveEvent(w)
  PROVE  PushInv'
<1>1. /\ push \in PushNotification /\ GoodRow(push, called, accepted)
      /\ ready \in [Command -> Nat]
      /\ spent \in [faults : Nat, events : Nat, of : [AllFaultKinds -> Nat]]
  BY DEF PushInv, TypeOK
<1>2. worker[w] # Idle /\ HasSnap(worker[w])
      /\ UNCHANGED <<ready, called, accepted, invalid>>
  BY DEF SaveEvent, At, HasSnap
<1>3. /\ worker[w].snap \in PushNotification
      /\ GoodRow(worker[w].snap, called, accepted)
  BY <1>2, BusyFacts DEF GoodWorker
<1>4. CASE push' = worker[w].snap /\ Ack(w) /\ UNCHANGED spent
  <2>1. worker' = [worker EXCEPT ![w] = Idle] /\ GoodWorker(Idle, called, accepted)
    BY <1>4, IdleIsNotBusy DEF Ack, Become, GoodWorker
  <2> QED BY <1>1, <1>2, <1>3, <1>4, <2>1, QuietStep
<1>5. CASE Fault("database") /\ Throw(w) /\ UNCHANGED push
  BY <1>1, <1>2, <1>5, FaultTyped, ThrowStep
<1> QED BY <1>4, <1>5 DEF SaveEvent

\* A device reports what it shows.
LEMMA ReportEventStep ==
  ASSUME PushInv, NEW event \in Events, ReportEvent(event)
  PROVE  PushInv'
<1>1. ready' \in [Command -> Nat]
  <2>1. event \in Command
    BY DEF Command
  <2>2. ready' = [ready EXCEPT ![event] = ready[event] + 1]
    BY DEF ReportEvent
  <2>3. ready[event] + 1 \in Nat
    BY <2>1, ReadyUpdated
  <2> QED BY <2>1, <2>2, <2>3, ReadyUpdated
<1>2. spent' \in [faults : Nat, events : Nat, of : [AllFaultKinds -> Nat]]
  <2>1. spent \in [faults : Nat, events : Nat, of : [AllFaultKinds -> Nat]]
    BY DEF PushInv, TypeOK
  <2>2. spent' = [spent EXCEPT !.events = spent.events + 1]
    BY DEF ReportEvent
  <2> QED BY <2>1, <2>2
<1>3. UNCHANGED <<push, worker, called, accepted, invalid>>
  BY DEF ReportEvent
<1>4. TypeOK'
  BY <1>1, <1>2, <1>3 DEF PushInv, TypeOK
<1> QED BY <1>3, <1>4 DEF PushInv

-----------------------------------------------------------------------------
(* The gateways                                                            *)

\* One round of the loop: the gateway was called, may have accepted, and
\* either answered (Done) or threw (Failed).
LEMMA RoundStep ==
  ASSUME PushInv, NEW w \in Workers, NEW d \in Devices,
         At(w, "send"), d \in worker[w].todo,
         called' = [called EXCEPT ![d] = @ + 1],
         accepted' \in Counts, \A e \in Devices : accepted[e] <= accepted'[e],
         \/ Failed(w, d)
         \/ \E result \in FcmIds \cup {Null, ErrorText} :
               /\ Done(w, d, result)
               /\ result \in FcmIds => result.device = d /\ result.n <= accepted'[d],
         UNCHANGED <<push, ready>>, invalid' \subseteq Devices,
         spent' \in [faults : Nat, events : Nat, of : [AllFaultKinds -> Nat]]
  PROVE  PushInv'
<1>1. /\ push \in PushNotification /\ GoodRow(push, called, accepted)
      /\ ready \in [Command -> Nat] /\ called \in Counts /\ accepted \in Counts
  BY DEF PushInv, TypeOK, Counts
<1>2. worker[w] # Idle /\ worker[w].step = "send" /\ HasSnap(worker[w])
  BY DEF At, HasSnap
<1>3. /\ worker[w] \in Busy /\ worker[w].snap \in PushNotification
      /\ GoodRow(worker[w].snap, called, accepted)
      /\ \A e \in worker[w].todo : worker[w].snap.jobs[e].retry < 3
  BY <1>2, BusyFacts DEF GoodWorker
<1>4. called' \in Counts /\ called'[d] > 0
      /\ \A e \in Devices : called[e] <= called'[e]
  BY <1>1 DEF Counts
<1>5. /\ GoodRow(worker[w].snap, called', accepted')
      /\ GoodRow(push, called', accepted')
  BY <1>1, <1>3, <1>4, GoodRowGrows
<1>6. ASSUME NEW snap \in PushNotification, GoodRow(snap, called', accepted'),
             \A e \in worker[w].todo \ {d} : snap.jobs[e] = worker[w].snap.jobs[e],
             Become(w, [worker[w] EXCEPT !.snap = snap, !.todo = worker[w].todo \ {d}])
      PROVE  PushInv'
  <2> DEFINE state == [worker[w] EXCEPT !.snap = snap, !.todo = worker[w].todo \ {d}]
  <2>1. state \in Busy /\ state.snap = snap /\ state.todo = worker[w].todo \ {d}
    BY <1>3 DEF Busy
  <2>2. GoodWorker(state, called', accepted')
    BY <1>3, <1>6, <2>1 DEF GoodWorker
  <2>3. worker' = [worker EXCEPT ![w] = state]
    BY <1>6 DEF Become
  <2> HIDE DEF state
  <2> QED BY <1>1, <1>4, <1>5, <2>1, <2>2, <2>3, WorkerStep
<1>7. worker[w].snap.jobs \in [Devices -> PushNotificationJob]
  BY <1>3 DEF PushNotification
<1>8. CASE Failed(w, d)
  <2> DEFINE snap == Retry(worker[w].snap, d)
  <2>1. snap \in PushNotification /\ GoodRow(snap, called', accepted')
    BY <1>3, <1>5, RetryTyped, RetryKeepsGood
  <2>2. \A e \in worker[w].todo \ {d} : snap.jobs[e] = worker[w].snap.jobs[e]
    BY <1>3, <1>7 DEF Retry, PushNotification
  <2>3. Become(w, [worker[w] EXCEPT !.snap = snap, !.todo = worker[w].todo \ {d}])
    BY <1>3, <1>8 DEF Failed, Busy
  <2> HIDE DEF snap
  <2> QED BY <1>6, <2>1, <2>2, <2>3
<1>9. ASSUME NEW result \in FcmIds \cup {Null, ErrorText}, Done(w, d, result),
             result \in FcmIds => result.device = d /\ result.n <= accepted'[d]
      PROVE  PushInv'
  <2> DEFINE snap == Send(worker[w].snap, d, result)
  <2>1. snap \in PushNotification /\ GoodRow(snap, called', accepted')
    BY <1>3, <1>4, <1>5, <1>9, SendTyped, SendKeepsGood
  <2>2. \A e \in worker[w].todo \ {d} : snap.jobs[e] = worker[w].snap.jobs[e]
    <3>1. worker[w].todo \subseteq Devices
      BY <1>3 DEF Busy
    <3> QED BY <1>7, <3>1 DEF Send, PushNotificationJob
  <2>3. Become(w, [worker[w] EXCEPT !.snap = snap, !.todo = worker[w].todo \ {d}])
    BY <1>3, <1>9 DEF Done, Busy
  <2> HIDE DEF snap
  <2> QED BY <1>6, <2>1, <2>2, <2>3
<1> QED BY <1>8, <1>9

\* What an accepted push does to the counter of its device.
LEMMA AcceptCounts ==
  ASSUME PushInv, NEW d \in Devices, Accept(d)
  PROVE  /\ accepted' \in Counts
         /\ \A e \in Devices : accepted[e] <= accepted'[e]
         /\ accepted'[d] = accepted[d] + 1 /\ accepted[d] + 1 \in 1..MaxSends
<1>1. accepted \in Counts /\ MaxSends \in Nat
  BY PushAssumption DEF PushInv, TypeOK, Counts
<1>2. accepted[d] \in Nat /\ accepted[d] < MaxSends
      /\ accepted' = [accepted EXCEPT ![d] = accepted[d] + 1]
  BY <1>1 DEF Accept, Counts
<1> QED BY <1>1, <1>2 DEF Counts

\* Every gateway meets the hypotheses of RoundStep.
LEMMA CallGatewayStep ==
  ASSUME PushInv, NEW w \in Workers, NEW d \in Devices, CallGateway(w, d)
  PROVE  PushInv'
<1> DEFINE
      Answered == \E result \in FcmIds \cup {Null, ErrorText} :
                    /\ Done(w, d, result)
                    /\ result \in FcmIds => result.device = d /\ result.n <= accepted'[d]
      SpentTyped == spent' \in [faults : Nat, events : Nat, of : [AllFaultKinds -> Nat]]
      CountsGrow == /\ accepted' \in Counts
                    /\ \A e \in Devices : accepted[e] <= accepted'[e]
<1>1. At(w, "send") /\ d \in worker[w].todo /\ UNCHANGED <<push, ready>>
      /\ called' = [called EXCEPT ![d] = @ + 1]
  BY DEF CallGateway
<1>2. UNCHANGED accepted => CountsGrow
  BY DEF PushInv, TypeOK, Counts
<1>3. UNCHANGED spent => SpentTyped
  BY DEF PushInv, TypeOK
<1>4. Accept(d) => CountsGrow
  BY AcceptCounts
<1>5. invalid \subseteq Devices
  BY DEF PushInv, TypeOK
<1>6. Done(w, d, Null) => Answered
  BY PushAssumption
<1>7. Done(w, d, ErrorText) => Answered
  BY PushAssumption
<1>8. FirebaseSend(w, d) => /\ CountsGrow /\ SpentTyped /\ invalid' \subseteq Devices
                            /\ Failed(w, d) \/ Answered
  <2>1. ASSUME d \in Firebase, Accept(d),
               Done(w, d, [device |-> d, n |-> accepted[d] + 1])
        PROVE  Answered
    <3> DEFINE id == [device |-> d, n |-> accepted[d] + 1]
    <3>1. accepted'[d] = accepted[d] + 1 /\ accepted[d] + 1 \in 1..MaxSends
      BY <2>1, AcceptCounts
    <3>2. id \in FcmIds /\ id.device = d /\ id.n = accepted[d] + 1
      BY <2>1, <3>1 DEF FcmIds
    <3>3. id.n <= accepted'[d]
      BY <3>1, <3>2
    <3>4. Done(w, d, id)
      BY <2>1
    <3> HIDE DEF id
    <3> QED BY <3>2, <3>3, <3>4
  <2>2. \A kind : Fault(kind) => SpentTyped
    BY FaultTyped
  <2> HIDE DEF Answered, SpentTyped, CountsGrow
  <2> QED BY <1>2, <1>3, <1>4, <1>5, <1>6, <1>7, <2>1, <2>2 DEF FirebaseSend
<1>9. AppleSend(w, d) => /\ CountsGrow /\ SpentTyped /\ invalid' \subseteq Devices
                         /\ Failed(w, d) \/ Answered
  <2>1. \A kind : Fault(kind) => SpentTyped
    BY FaultTyped
  <2> HIDE DEF Answered, SpentTyped, CountsGrow
  <2> QED BY <1>2, <1>3, <1>4, <1>5, <1>6, <1>7, <2>1 DEF AppleSend
<1>10. ProxySend(w, d) => /\ CountsGrow /\ SpentTyped /\ invalid' \subseteq Devices
                          /\ Failed(w, d) \/ Answered
  <2> HIDE DEF Answered, SpentTyped, CountsGrow
  <2> QED BY <1>2, <1>3, <1>4, <1>5, <1>6 DEF ProxySend
<1>11. /\ CountsGrow /\ SpentTyped /\ invalid' \subseteq Devices
       /\ Failed(w, d) \/ Answered
  BY <1>8, <1>9, <1>10 DEF CallGateway
<1> QED BY <1>1, <1>11, RoundStep

-----------------------------------------------------------------------------
(* Theorems                                                                *)

LEMMA InitPushInv == Init => PushInv
<1> SUFFICES ASSUME Init PROVE PushInv
  OBVIOUS
<1>1. TypeOK
  <2>1. push \in PushNotification
    BY DEF Init, PushNotification, PushNotificationJob, Status
  <2>2. ready \in [Command -> Nat] /\ worker \in [Workers -> Busy \cup {Idle}]
        /\ called \in [Devices -> Nat] /\ accepted \in [Devices -> Nat]
        /\ invalid \subseteq Devices
    BY DEF Init
  <2>3. spent \in [faults : Nat, events : Nat, of : [AllFaultKinds -> Nat]]
    BY DEF Init
  <2> QED BY <2>1, <2>2, <2>3 DEF TypeOK
<1>2. ASSUME NEW d \in Devices PROVE Backed(d, push.jobs[d], called[d], accepted[d])
  BY PushAssumption DEF Init, Backed
<1>3. ASSUME NEW w \in Workers PROVE GoodWorker(worker[w], called, accepted)
  BY IdleIsNotBusy DEF Init, GoodWorker
<1> QED BY <1>1, <1>2, <1>3 DEF PushInv, GoodRow

LEMMA NextPushInv == PushInv /\ [Next]_vars => PushInv'
<1> SUFFICES ASSUME PushInv, [Next]_vars PROVE PushInv'
  OBVIOUS
<1>1. ASSUME NEW w \in Workers, Consume(w) PROVE PushInv'
  BY <1>1, LoadPushStep, SavePushStep, LoadEventStep, SaveEventStep, CallGatewayStep
     DEF Consume
<1>2. ASSUME NEW w \in Workers, Broker(w) PROVE PushInv'
  BY <1>2, BrokerStep
<1>3. ASSUME NEW event \in Events, ReportEvent(event) PROVE PushInv'
  BY <1>3, ReportEventStep
<1>4. CASE UNCHANGED vars
  BY <1>4 DEF vars, PushInv, TypeOK
<1> QED BY <1>1, <1>2, <1>3, <1>4 DEF Next

\* For any number of devices, consumers, faults and reports the row, the
\* broker and every consumer stay within their types; in particular no
\* delivery is attempted more often than ShortRetry allows.
THEOREM PushTypeCorrect == Spec => []TypeOK
<1>1. PushInv => TypeOK
  BY DEF PushInv
<1> QED BY <1>1, InitPushInv, NextPushInv, PTL DEF Spec

\* The row never says of a device what its gateway does not back, whatever
\* copies of it consumers and reports write over one another.
THEOREM PushHonest == Spec => []NoPhantomPush
<1>1. PushInv => NoPhantomPush
  BY DEF PushInv, GoodRow, Backed, NoPhantomPush, HonestJob
<1> QED BY <1>1, InitPushInv, NextPushInv, PTL DEF Spec

\* No job counts more than three failed attempts, however many consumers
\* work on copies of the row.
THEOREM PushRetriesCapped == Spec => []PushRetryCap
<1>1. PushInv => PushRetryCap
  BY DEF PushInv, GoodRow, Backed, PushRetryCap
<1> QED BY <1>1, InitPushInv, NextPushInv, PTL DEF Spec

-----------------------------------------------------------------------------
(* What the pushes of a device are due to                                  *)

\* A worker that has a delivery of the SendPush command, or of a report.
Sends(s) == s # Idle /\ s.cmd = SendPush

Reports(s) == s # Idle /\ s.cmd \in Events

Pending(p, d) == p.jobs[d].status = "Pending"

\* Until a connection is lost there is one delivery of SendPush, at most.
Single ==
  spent.of["disconnect"] = 0 =>
    /\ \A w \in Workers : worker[w] # Idle => worker[w].held
    /\ \A v, w \in Workers : Sends(worker[v]) /\ Sends(worker[w]) => v = w
    /\ ready[SendPush] <= 1
    /\ ready[SendPush] = 1 => \A w \in Workers : ~Sends(worker[w])

\* Jobs that are still pending have failed as often as each other, in the stored
\* row and in the copies, where those not yet sent are one failure behind.
SameRow(p) ==
  \A d, e \in Devices : Pending(p, d) /\ Pending(p, e) => p.jobs[d].retry = p.jobs[e].retry

SameCopy(s) ==
  s # Idle =>
    /\ s.step = "load" => s.todo = {}
    /\ s.step = "send" =>
         /\ s.cmd = SendPush
         /\ \A d \in s.todo : Pending(s.snap, d)
         /\ \A d, e \in s.todo : s.snap.jobs[d].retry = s.snap.jobs[e].retry
         /\ \A d \in s.todo, e \in Devices \ s.todo : Pending(s.snap, e) =>
              s.snap.jobs[e].retry = s.snap.jobs[d].retry + 1
         /\ \A d, e \in Devices \ s.todo : Pending(s.snap, d) /\ Pending(s.snap, e) =>
              s.snap.jobs[d].retry = s.snap.jobs[e].retry
    /\ s.step = "save" => s.cmd \in Events /\ SameRow(s.snap)

Same == SameRow(push) /\ \A w \in Workers : SameCopy(worker[w])

\* A worker that may still have the push of d accepted in this attempt; one that
\* has a pending job behind it and so will be started again.
MaySend(s, d) == Sends(s) /\ (s.step = "load" \/ d \in s.todo)

ComesBack(s) ==
  Sends(s) /\ s.step = "send" /\ \E e \in Devices \ s.todo : Pending(s.snap, e)

Open(d) == {w \in Workers : MaySend(worker[w], d)}

Back == {w \in Workers : ComesBack(worker[w])}

Payments ==
  spent.events + spent.of["database"] + spent.of["lostAnswer"] + spent.of["crash"]
  + spent.of["disconnect"] + spent.of["provider"] + spent.of["publish"]

\* What was accepted and what may yet be, in this attempt or in a next one, is
\* paid for: by the one push there is to be, or by a report or a fault.
PaidFor(d) ==
  /\ IsFiniteSet(Open(d)) /\ IsFiniteSet(Back)
  /\ accepted[d] + Cardinality(Open(d)) + Cardinality(Back) + ready[SendPush] <= 1 + Payments

\* The reports that have not been saved yet.
Queued == {x \in Events \X (Nat \ {0}) : x[2] <= ready[x[1]]}

Handling == {w \in Workers : Reports(worker[w])}

\* The only delivery of SendPush will still come to send the push of d.
Again(d) ==
  \/ \E w \in Workers : Sends(worker[w]) /\ worker[w].step = "send" /\ Pending(worker[w].snap, d)
  \/ /\ \/ ready[SendPush] > 0
        \/ \E w \in Workers : Sends(worker[w]) /\ worker[w].step = "load"
     /\ Pending(push, d)

Left(d) == IF Again(d) THEN 1 ELSE 0

LonePayments ==
  spent.events + spent.of["database"] + spent.of["lostAnswer"] + spent.of["crash"]

\* While there is one delivery, what a gateway fails is sent again without a
\* duplicate: only a lost answer, save or process and a report need to pay.
LoneFor(d) ==
  /\ IsFiniteSet(Queued) /\ IsFiniteSet(Handling)
  /\ spent.of["disconnect"] = 0 =>
       accepted[d] + Left(d) + Cardinality(Queued) + Cardinality(Handling) <= 1 + LonePayments

\* Every attempt that did not find the database failing (db times it did) has
\* failed a job that is still pending once more, unless it had failed three times.
Tried(j, n, db) == j.status = "Pending" => j.retry >= 3 \/ j.retry + db >= n

TriedBy(p, s, db) ==
  \A d \in Devices :
    /\ Tried(p.jobs[d], s.attempt, db)
    /\ s.step = "send" /\ d \in s.todo => s.snap.jobs[d].retry + db >= s.attempt
    /\ s.step = "send" /\ d \notin s.todo => Tried(s.snap.jobs[d], s.attempt + 1, db)

AllTried(p, db) == \A d \in Devices : Tried(p.jobs[d], MaxAttempts + 1, db)

Trying ==
  spent.events = 0 =>
    /\ \A event \in Events : ready[event] = 0
    /\ \A w \in Workers : ~Reports(worker[w])
    /\ spent.of["disconnect"] = 0 =>
         /\ \A w \in Workers : Sends(worker[w]) =>
              TriedBy(push, worker[w], spent.of["database"])
         /\ ready[SendPush] = 0 /\ (\A w \in Workers : ~Sends(worker[w])) =>
              AllTried(push, spent.of["database"])

DueInv ==
  /\ Single /\ Same /\ Trying
  /\ \A d \in Devices : PaidFor(d) /\ LoneFor(d)

-----------------------------------------------------------------------------
(* One worker moves                                                        *)

\* Sets that differ in one element.
LEMMA SetMove ==
  ASSUME NEW S, IsFiniteSet(S), NEW T, NEW w, T \ {w} = S \ {w}
  PROVE  /\ IsFiniteSet(T) /\ Cardinality(T) \in Nat /\ Cardinality(S) \in Nat
         /\ Cardinality(T) + (IF w \in S THEN 1 ELSE 0)
              = Cardinality(S) + (IF w \in T THEN 1 ELSE 0)
<1>1. IsFiniteSet(S \ {w}) /\ Cardinality(S \ {w}) \in Nat /\ Cardinality(S) \in Nat
  BY FS_RemoveElement, FS_CardinalityType
<1>2. w \notin S \ {w}
  OBVIOUS
<1>3. /\ IsFiniteSet((S \ {w}) \cup {w})
      /\ Cardinality((S \ {w}) \cup {w}) = Cardinality(S \ {w}) + 1
  BY <1>1, <1>2, FS_AddElement
<1>4. Cardinality(S) = Cardinality(S \ {w}) + IF w \in S THEN 1 ELSE 0
  <2>1. CASE w \in S
    <3>1. S = (S \ {w}) \cup {w}
      BY <2>1
    <3> QED BY <1>3, <2>1, <3>1
  <2>2. CASE w \notin S
    <3>1. S = S \ {w}
      BY <2>2
    <3>2. Cardinality(S) = Cardinality(S \ {w})
      BY <3>1
    <3> QED BY <1>1, <2>2, <3>2
  <2> QED BY <2>1, <2>2
<1>5. /\ IsFiniteSet(T)
      /\ Cardinality(T) = Cardinality(S \ {w}) + IF w \in T THEN 1 ELSE 0
  <2>1. CASE w \in T
    <3>1. T = (S \ {w}) \cup {w}
      BY <2>1
    <3> QED BY <1>3, <2>1, <3>1
  <2>2. CASE w \notin T
    <3>1. T = S \ {w}
      BY <2>2
    <3>2. Cardinality(T) = Cardinality(S \ {w}) /\ IsFiniteSet(T)
      BY <1>1, <3>1
    <3> QED BY <1>1, <2>2, <3>2
  <2> QED BY <2>1, <2>2
<1> QED BY <1>1, <1>4, <1>5

OpenOf(s, d) == IF MaySend(s, d) THEN 1 ELSE 0

BackOf(s) == IF ComesBack(s) THEN 1 ELSE 0

HandOf(s) == IF Reports(s) THEN 1 ELSE 0

LEMMA Becoming ==
  ASSUME PushInv, NEW w \in Workers, NEW s, Become(w, s)
  PROVE  worker'[w] = s /\ \A v \in Workers \ {w} : worker'[v] = worker[v]
BY DEF Become, PushInv, TypeOK

LEMMA OpenMoves ==
  ASSUME PushInv, NEW w \in Workers, NEW s, Become(w, s), NEW d, IsFiniteSet(Open(d))
  PROVE  /\ IsFiniteSet(Open(d)') /\ Cardinality(Open(d)') \in Nat /\ Cardinality(Open(d)) \in Nat
         /\ Cardinality(Open(d)') + OpenOf(worker[w], d) = Cardinality(Open(d)) + OpenOf(s, d)
<1>1. worker'[w] = s /\ \A v \in Workers \ {w} : worker'[v] = worker[v]
  BY Becoming
<1>2. Open(d)' = {v \in Workers : MaySend(worker'[v], d)}
  BY DEF Open, MaySend, Sends
<1>3. Open(d)' \ {w} = Open(d) \ {w}
  BY <1>1, <1>2 DEF Open
<1>4. (w \in Open(d) <=> MaySend(worker[w], d)) /\ (w \in Open(d)' <=> MaySend(s, d))
  BY <1>1, <1>2 DEF Open
<1>5. /\ IsFiniteSet(Open(d)') /\ Cardinality(Open(d)') \in Nat /\ Cardinality(Open(d)) \in Nat
      /\ Cardinality(Open(d)') + (IF w \in Open(d) THEN 1 ELSE 0)
           = Cardinality(Open(d)) + (IF w \in Open(d)' THEN 1 ELSE 0)
  BY <1>3, SetMove
<1> QED BY <1>4, <1>5 DEF OpenOf

LEMMA BackMoves ==
  ASSUME PushInv, NEW w \in Workers, NEW s, Become(w, s), IsFiniteSet(Back)
  PROVE  /\ IsFiniteSet(Back') /\ Cardinality(Back') \in Nat /\ Cardinality(Back) \in Nat
         /\ Cardinality(Back') + BackOf(worker[w]) = Cardinality(Back) + BackOf(s)
<1>1. worker'[w] = s /\ \A v \in Workers \ {w} : worker'[v] = worker[v]
  BY Becoming
<1>2. Back' = {v \in Workers : ComesBack(worker'[v])}
  BY DEF Back, ComesBack, Sends, Pending
<1>3. Back' \ {w} = Back \ {w}
  BY <1>1, <1>2 DEF Back
<1>4. (w \in Back <=> ComesBack(worker[w])) /\ (w \in Back' <=> ComesBack(s))
  BY <1>1, <1>2 DEF Back
<1>5. /\ IsFiniteSet(Back') /\ Cardinality(Back') \in Nat /\ Cardinality(Back) \in Nat
      /\ Cardinality(Back') + (IF w \in Back THEN 1 ELSE 0)
           = Cardinality(Back) + (IF w \in Back' THEN 1 ELSE 0)
  BY <1>3, SetMove
<1> QED BY <1>4, <1>5 DEF BackOf

LEMMA HandMoves ==
  ASSUME PushInv, NEW w \in Workers, NEW s, Become(w, s), IsFiniteSet(Handling)
  PROVE  /\ IsFiniteSet(Handling') /\ Cardinality(Handling') \in Nat
         /\ Cardinality(Handling) \in Nat
         /\ Cardinality(Handling') + HandOf(worker[w]) = Cardinality(Handling) + HandOf(s)
<1>1. worker'[w] = s /\ \A v \in Workers \ {w} : worker'[v] = worker[v]
  BY Becoming
<1>2. Handling' = {v \in Workers : Reports(worker'[v])}
  BY DEF Handling, Reports
<1>3. Handling' \ {w} = Handling \ {w}
  BY <1>1, <1>2 DEF Handling
<1>4. (w \in Handling <=> Reports(worker[w])) /\ (w \in Handling' <=> Reports(s))
  BY <1>1, <1>2 DEF Handling
<1>5. /\ IsFiniteSet(Handling') /\ Cardinality(Handling') \in Nat
      /\ Cardinality(Handling) \in Nat
      /\ Cardinality(Handling') + (IF w \in Handling THEN 1 ELSE 0)
           = Cardinality(Handling) + (IF w \in Handling' THEN 1 ELSE 0)
  BY <1>3, SetMove
<1> QED BY <1>4, <1>5 DEF HandOf

\* The queue of reports grows and shrinks by one.
LEMMA QueuedMore ==
  ASSUME PushInv, NEW event \in Events, IsFiniteSet(Queued),
         ready' = [ready EXCEPT ![event] = ready[event] + 1]
  PROVE  IsFiniteSet(Queued') /\ Cardinality(Queued') = Cardinality(Queued) + 1
         /\ Cardinality(Queued) \in Nat
<1>1. ready \in [Command -> Nat] /\ event \in Command /\ Events \subseteq Command
  BY DEF PushInv, TypeOK, Command
<1> PICK n : n = ready[event]
  OBVIOUS
<1>2. n \in Nat
  BY <1>1
<1>3. \A e \in Events : ready'[e] = IF e = event THEN n + 1 ELSE ready[e]
  BY <1>1
<1>4. <<event, n + 1>> \notin Queued
  BY <1>2 DEF Queued
<1>5. Queued' = Queued \cup {<<event, n + 1>>}
  <2>1. \A e \in Events, i \in Nat \ {0} : <<e, i>> \in Queued' <=>
          <<e, i>> \in Queued \cup {<<event, n + 1>>}
    <3> SUFFICES ASSUME NEW e \in Events, NEW i \in Nat \ {0}
                 PROVE  <<e, i>> \in Queued' <=> <<e, i>> \in Queued \cup {<<event, n + 1>>}
      OBVIOUS
    <3>1. <<e, i>> \in Queued' <=> i <= ready'[e]
      BY DEF Queued
    <3>2. <<e, i>> \in Queued <=> i <= ready[e]
      BY DEF Queued
    <3> QED BY <1>2, <1>3, <3>1, <3>2
  <2>2. <<event, n + 1>> \in Events \X (Nat \ {0})
    BY <1>2
  <2>3. Queued \subseteq Events \X (Nat \ {0}) /\ Queued' \subseteq Events \X (Nat \ {0})
    BY DEF Queued
  <2> HIDE DEF Queued
  <2>4. Queued \cup {<<event, n + 1>>} \subseteq Events \X (Nat \ {0})
    BY <2>2, <2>3
  <2> QED BY <2>1, <2>3, <2>4
<1> QED BY <1>4, <1>5, FS_AddElement, FS_CardinalityType

LEMMA QueuedLess ==
  ASSUME PushInv, NEW event \in Events, IsFiniteSet(Queued), ready[event] > 0,
         ready' = [ready EXCEPT ![event] = ready[event] - 1]
  PROVE  IsFiniteSet(Queued') /\ Cardinality(Queued') + 1 = Cardinality(Queued)
         /\ Cardinality(Queued') \in Nat
<1>1. ready \in [Command -> Nat] /\ event \in Command /\ Events \subseteq Command
  BY DEF PushInv, TypeOK, Command
<1> PICK n : n = ready[event]
  OBVIOUS
<1>2. n \in Nat \ {0}
  BY <1>1
<1>3. \A e \in Events : ready'[e] = IF e = event THEN n - 1 ELSE ready[e]
  BY <1>1
<1>4. <<event, n>> \in Queued
  BY <1>2 DEF Queued
<1>5. Queued' = Queued \ {<<event, n>>}
  <2>1. \A e \in Events, i \in Nat \ {0} : <<e, i>> \in Queued' <=>
          <<e, i>> \in Queued \ {<<event, n>>}
    <3> SUFFICES ASSUME NEW e \in Events, NEW i \in Nat \ {0}
                 PROVE  <<e, i>> \in Queued' <=> <<e, i>> \in Queued \ {<<event, n>>}
      OBVIOUS
    <3>1. <<e, i>> \in Queued' <=> i <= ready'[e]
      BY DEF Queued
    <3>2. <<e, i>> \in Queued <=> i <= ready[e]
      BY DEF Queued
    <3> QED BY <1>2, <1>3, <3>1, <3>2
  <2>2. Queued \subseteq Events \X (Nat \ {0}) /\ Queued' \subseteq Events \X (Nat \ {0})
    BY DEF Queued
  <2> HIDE DEF Queued
  <2> QED BY <2>1, <2>2
<1>6. IsFiniteSet(Queued') /\ Cardinality(Queued') = Cardinality(Queued) - 1
  BY <1>4, <1>5, FS_RemoveElement
<1>7. Cardinality(Queued) \in Nat /\ Cardinality(Queued') \in Nat
  BY <1>6, FS_CardinalityType
<1> QED BY <1>6, <1>7

-----------------------------------------------------------------------------
(* The shapes of the steps                                                 *)

LEMMA PaymentsNat ==
  ASSUME PushInv
  PROVE  /\ Payments \in Nat /\ LonePayments \in Nat /\ spent.events \in Nat
         /\ \A k \in AllFaultKinds : spent.of[k] \in Nat
<1>1. spent.events \in Nat /\ \A k \in AllFaultKinds : spent.of[k] \in Nat
  BY DEF PushInv, TypeOK
<1>2. /\ spent.of["database"] \in Nat /\ spent.of["lostAnswer"] \in Nat
      /\ spent.of["crash"] \in Nat /\ spent.of["disconnect"] \in Nat
      /\ spent.of["provider"] \in Nat /\ spent.of["publish"] \in Nat
  BY <1>1 DEF AllFaultKinds
<1> QED BY <1>1, <1>2 DEF Payments, LonePayments

\* A fault adds one to the count of its kind and to no other.
LEMMA FaultCounts ==
  ASSUME PushInv, NEW kind, Fault(kind)
  PROVE  /\ kind \in AllFaultKinds /\ spent'.events = spent.events
         /\ spent'.of[kind] = spent.of[kind] + 1
         /\ \A k \in AllFaultKinds \ {kind} : spent'.of[k] = spent.of[k]
<1>1. spent \in [faults : Nat, events : Nat, of : [AllFaultKinds -> Nat]]
  BY DEF PushInv, TypeOK
<1>2. kind \in AllFaultKinds
  BY PushAssumption DEF Fault
<1>3. spent' = [faults |-> spent.faults + 1, events |-> spent.events,
                of |-> [spent.of EXCEPT ![kind] = spent.of[kind] + 1]]
  BY <1>1, <1>2 DEF Fault
<1> QED BY <1>1, <1>2, <1>3

LEMMA FaultPays ==
  ASSUME PushInv, NEW kind, Fault(kind)
  PROVE  /\ Payments' = Payments + 1
         /\ kind \in {"database", "lostAnswer", "crash"} => LonePayments' = LonePayments + 1
         /\ kind \in {"provider", "publish", "disconnect"} => LonePayments' = LonePayments
<1>1. spent.events \in Nat /\ \A k \in AllFaultKinds : spent.of[k] \in Nat
  BY PaymentsNat
<1>2. /\ spent.of["database"] \in Nat /\ spent.of["lostAnswer"] \in Nat
      /\ spent.of["crash"] \in Nat /\ spent.of["disconnect"] \in Nat
      /\ spent.of["provider"] \in Nat /\ spent.of["publish"] \in Nat
  BY <1>1 DEF AllFaultKinds
<1>3. /\ kind \in AllFaultKinds /\ spent'.events = spent.events
      /\ spent'.of[kind] = spent.of[kind] + 1
      /\ \A k \in AllFaultKinds \ {kind} : spent'.of[k] = spent.of[k]
  BY FaultCounts
<1>4. CASE kind = "database"
  BY <1>1, <1>2, <1>3, <1>4 DEF AllFaultKinds, Payments, LonePayments
<1>5. CASE kind = "lostAnswer"
  BY <1>1, <1>2, <1>3, <1>5 DEF AllFaultKinds, Payments, LonePayments
<1>6. CASE kind = "crash"
  BY <1>1, <1>2, <1>3, <1>6 DEF AllFaultKinds, Payments, LonePayments
<1>7. CASE kind = "disconnect"
  BY <1>1, <1>2, <1>3, <1>7 DEF AllFaultKinds, Payments, LonePayments
<1>8. CASE kind = "provider"
  BY <1>1, <1>2, <1>3, <1>8 DEF AllFaultKinds, Payments, LonePayments
<1>9. CASE kind = "publish"
  BY <1>1, <1>2, <1>3, <1>9 DEF AllFaultKinds, Payments, LonePayments
<1> QED BY <1>3, <1>4, <1>5, <1>6, <1>7, <1>8, <1>9 DEF AllFaultKinds

LEMMA NoFaultPaysNothing ==
  ASSUME UNCHANGED spent
  PROVE  Payments' = Payments /\ LonePayments' = LonePayments
BY DEF Payments, LonePayments

\* A consumer that starts on a delivery, and one that a throw leaves behind.
Starting(s, cmd, attempt, held) ==
  /\ s # Idle /\ s.step = "load" /\ s.cmd = cmd /\ s.attempt = attempt
  /\ s.held = held /\ s.todo = {}

Thrown(o, s) ==
  \/ s = Idle /\ o.attempt = MaxAttempts
  \/ Starting(s, o.cmd, o.attempt + 1, o.held)

LEMMA BeginStarts ==
  ASSUME NEW cmd, NEW attempt, NEW held
  PROVE  Starting(Begin(cmd, attempt, held), cmd, attempt, held)
BY DEF Begin, Idle, Starting

LEMMA ThrowShape ==
  ASSUME PushInv, NEW w \in Workers, worker[w] # Idle, Throw(w)
  PROVE  \E s : Become(w, s) /\ Thrown(worker[w], s)
<1>1. worker[w] \in Busy
  BY BusyFacts
<1>2. worker[w].attempt \in 0..MaxAttempts /\ MaxAttempts \in Nat
  BY <1>1, PushAssumption DEF Busy
<1>3. CASE worker[w].attempt < MaxAttempts
  BY <1>3, BeginStarts DEF Throw, Thrown
<1>4. CASE ~(worker[w].attempt < MaxAttempts)
  <2>1. worker[w].attempt = MaxAttempts
    BY <1>2, <1>4
  <2> QED BY <1>4, <2>1 DEF Throw, Thrown
<1> QED BY <1>3, <1>4

\* One round of the loop: what the copy says of d, and of no other device.
RoundOf(o, s, d) ==
  /\ s # Idle /\ s.step = "send" /\ s.cmd = o.cmd /\ s.attempt = o.attempt
  /\ s.held = o.held /\ s.todo = o.todo \ {d}
  /\ \A e \in Devices \ {d} : s.snap.jobs[e] = o.snap.jobs[e]

SentOf(s, d) == s.snap.jobs[d].status = "Sended"

ThrewOf(o, s, d) ==
  /\ s.snap.jobs[d].status = o.snap.jobs[d].status
  /\ s.snap.jobs[d].retry = o.snap.jobs[d].retry + 1

LEMMA DoneShape ==
  ASSUME PushInv, NEW w \in Workers, NEW d \in Devices, At(w, "send"), NEW result,
         Done(w, d, result)
  PROVE  \E s : Become(w, s) /\ RoundOf(worker[w], s, d) /\ SentOf(s, d)
<1>1. /\ worker[w] # Idle /\ worker[w].step = "send" /\ worker[w] \in Busy
      /\ worker[w].snap \in PushNotification
  BY BusyFacts DEF At, GoodWorker, HasSnap
<1>2. worker[w].snap.jobs \in [Devices -> PushNotificationJob]
  BY <1>1 DEF PushNotification
<1> DEFINE snap == Send(worker[w].snap, d, result)
           s == [worker[w] EXCEPT !.snap = snap, !.todo = worker[w].todo \ {d}]
<1>3. Become(w, s)
  BY <1>1 DEF Done, Busy
<1>4. snap.jobs[d].status = "Sended"
      /\ \A e \in Devices \ {d} : snap.jobs[e] = worker[w].snap.jobs[e]
  BY <1>2 DEF Send, PushNotificationJob
<1> HIDE DEF snap
<1>5. s.snap = snap /\ s.todo = worker[w].todo \ {d} /\ s.step = worker[w].step
      /\ s.cmd = worker[w].cmd /\ s.attempt = worker[w].attempt /\ s.held = worker[w].held
  BY <1>1 DEF Busy
<1> HIDE DEF s
<1>6. s # Idle
  BY <1>1, <1>5 DEF Idle
<1>7. RoundOf(worker[w], s, d)
  BY <1>1, <1>4, <1>5, <1>6 DEF RoundOf
<1>8. SentOf(s, d)
  BY <1>4, <1>5 DEF SentOf
<1> QED BY <1>3, <1>7, <1>8

LEMMA FailedShape ==
  ASSUME PushInv, NEW w \in Workers, NEW d \in Devices, At(w, "send"), Failed(w, d)
  PROVE  \E s : Become(w, s) /\ RoundOf(worker[w], s, d) /\ ThrewOf(worker[w], s, d)
<1>1. /\ worker[w] # Idle /\ worker[w].step = "send" /\ worker[w] \in Busy
      /\ worker[w].snap \in PushNotification
  BY BusyFacts DEF At, GoodWorker, HasSnap
<1>2. worker[w].snap.jobs \in [Devices -> PushNotificationJob]
  BY <1>1 DEF PushNotification
<1> DEFINE snap == Retry(worker[w].snap, d)
           s == [worker[w] EXCEPT !.snap = snap, !.todo = worker[w].todo \ {d}]
<1>3. Become(w, s)
  BY <1>1 DEF Failed, Busy
<1>4. snap.jobs[d].status = worker[w].snap.jobs[d].status
      /\ snap.jobs[d].retry = worker[w].snap.jobs[d].retry + 1
      /\ \A e \in Devices \ {d} : snap.jobs[e] = worker[w].snap.jobs[e]
  BY <1>1, <1>2 DEF Retry, PushNotification, PushNotificationJob
<1> HIDE DEF snap
<1>5. s.snap = snap /\ s.todo = worker[w].todo \ {d} /\ s.step = worker[w].step
      /\ s.cmd = worker[w].cmd /\ s.attempt = worker[w].attempt /\ s.held = worker[w].held
  BY <1>1 DEF Busy
<1> HIDE DEF s
<1>6. s # Idle
  BY <1>1, <1>5 DEF Idle
<1>7. RoundOf(worker[w], s, d)
  BY <1>1, <1>4, <1>5, <1>6 DEF RoundOf
<1>8. ThrewOf(worker[w], s, d)
  BY <1>4, <1>5 DEF ThrewOf
<1> QED BY <1>3, <1>7, <1>8

\* What a round did for d: it was answered or it threw, after a fault.
Answered(s, d) ==
  /\ SentOf(s, d)
  /\ Accept(d) \/ UNCHANGED accepted
  /\ UNCHANGED spent \/ Fault("provider") \/ Fault("lostAnswer")

Raised(o, s, d) ==
  /\ ThrewOf(o, s, d)
  /\ \/ UNCHANGED accepted /\ (Fault("provider") \/ Fault("publish"))
     \/ Accept(d) /\ Fault("lostAnswer")

LEMMA RoundShape ==
  ASSUME PushInv, NEW w \in Workers, NEW d \in Devices, CallGateway(w, d)
  PROVE  \E s : /\ Become(w, s) /\ RoundOf(worker[w], s, d)
                /\ Answered(s, d) \/ Raised(worker[w], s, d)
<1>1. At(w, "send")
  BY DEF CallGateway
<1>2. ASSUME NEW result, Done(w, d, result), Accept(d) \/ UNCHANGED accepted,
             UNCHANGED spent \/ Fault("provider") \/ Fault("lostAnswer")
      PROVE  \E s : Become(w, s) /\ RoundOf(worker[w], s, d) /\ Answered(s, d)
  <2>1. PICK s : Become(w, s) /\ RoundOf(worker[w], s, d) /\ SentOf(s, d)
    BY <1>1, <1>2, DoneShape
  <2>2. Answered(s, d)
    BY <1>2, <2>1 DEF Answered
  <2> QED BY <2>1, <2>2
<1>3. ASSUME Failed(w, d),
             \/ UNCHANGED accepted /\ (Fault("provider") \/ Fault("publish"))
             \/ Accept(d) /\ Fault("lostAnswer")
      PROVE  \E s : Become(w, s) /\ RoundOf(worker[w], s, d) /\ Raised(worker[w], s, d)
  <2>1. PICK s : Become(w, s) /\ RoundOf(worker[w], s, d) /\ ThrewOf(worker[w], s, d)
    BY <1>1, <1>3, FailedShape
  <2>2. Raised(worker[w], s, d)
    BY <1>3, <2>1 DEF Raised
  <2> QED BY <2>1, <2>2
<1>4. CASE FirebaseSend(w, d)
  BY <1>2, <1>3, <1>4 DEF FirebaseSend
<1>5. CASE AppleSend(w, d)
  BY <1>2, <1>3, <1>5 DEF AppleSend
<1>6. CASE ProxySend(w, d)
  BY <1>2, <1>6 DEF ProxySend
<1> QED BY <1>4, <1>5, <1>6 DEF CallGateway

LEMMA AcceptOne ==
  ASSUME PushInv, NEW d \in Devices, Accept(d)
  PROVE  accepted'[d] = accepted[d] + 1 /\ \A e \in Devices \ {d} : accepted'[e] = accepted[e]
<1>1. accepted \in [Devices -> Nat]
  BY DEF PushInv, TypeOK
<1> QED BY <1>1 DEF Accept

-----------------------------------------------------------------------------
(* One delivery, and equal counts                                          *)

LEMMA SameStep ==
  ASSUME PushInv, Same, NEW w \in Workers, NEW s, Become(w, s), SameCopy(s), SameRow(push')
  PROVE  Same'
<1>1. worker'[w] = s /\ \A v \in Workers \ {w} : worker'[v] = worker[v]
  BY Becoming
<1>2. \A v \in Workers : SameCopy(worker'[v])
  BY <1>1 DEF Same
<1>3. SameRow(push)' /\ \A v \in Workers : SameCopy(worker[v])'
  BY <1>2 DEF SameRow, SameCopy, Pending
<1> QED BY <1>3 DEF Same

LEMMA StartingIsSame ==
  ASSUME NEW s, NEW cmd, NEW attempt, NEW held, Starting(s, cmd, attempt, held)
  PROVE  SameCopy(s)
BY DEF Starting, SameCopy

LEMMA IdleIsSame == SameCopy(Idle)
BY DEF SameCopy

LEMMA ThrownIsSame ==
  ASSUME NEW o, NEW s, Thrown(o, s)
  PROVE  SameCopy(s)
BY IdleIsSame, StartingIsSame DEF Thrown

\* A worker that holds what it held and takes no delivery of SendPush.
LEMMA SingleStep ==
  ASSUME PushInv, Single, NEW w \in Workers, NEW s, Become(w, s),
         s # Idle => worker[w] # Idle /\ s.held = worker[w].held,
         Sends(s) => Sends(worker[w]),
         ready'[SendPush] = ready[SendPush],
         spent'.of["disconnect"] = spent.of["disconnect"]
  PROVE  Single'
<1>1. worker'[w] = s /\ \A v \in Workers \ {w} : worker'[v] = worker[v]
  BY Becoming
<1>2. \A v \in Workers : Sends(worker'[v]) => Sends(worker[v])
  BY <1>1
<1>3. \A v \in Workers : worker'[v] # Idle => worker[v] # Idle /\ worker'[v].held = worker[v].held
  BY <1>1
<1>4. ASSUME spent.of["disconnect"] = 0
      PROVE  /\ \A v \in Workers : worker'[v] # Idle => worker'[v].held
             /\ \A u, v \in Workers : Sends(worker'[u]) /\ Sends(worker'[v]) => u = v
             /\ ready'[SendPush] <= 1
             /\ ready'[SendPush] = 1 => \A v \in Workers : ~Sends(worker'[v])
  BY <1>2, <1>3, <1>4 DEF Single
<1>5. \A v \in Workers : Sends(worker[v])' <=> Sends(worker'[v])
  BY DEF Sends
<1> QED BY <1>4, <1>5 DEF Single

LEMMA ThrownIsSingle ==
  ASSUME NEW o, NEW s, o # Idle, Thrown(o, s)
  PROVE  /\ s # Idle => o # Idle /\ s.held = o.held
         /\ Sends(s) => Sends(o)
         /\ Reports(s) => Reports(o)
BY DEF Thrown, Starting, Sends, Reports

\* The arithmetic of the queues: a command is not SendPush if it is a report.
LEMMA CommandsDiffer ==
  /\ SendPush \in Command /\ SendPush \notin Events /\ Events \subseteq Command
  /\ \A cmd \in Command : cmd = SendPush \/ cmd \in Events
<1>1. \A e \in Events : e.type # SendPush.type
  BY DEF Events, SendPush
<1> QED BY <1>1 DEF Command

LEMMA DeliverShape ==
  ASSUME PushInv, NEW w \in Workers, NEW cmd \in Command, Deliver(w, cmd)
  PROVE  /\ worker[w] = Idle /\ ready[cmd] > 0 /\ ready[cmd] \in Nat
         /\ ready'[cmd] = ready[cmd] - 1
         /\ \A c \in Command \ {cmd} : ready'[c] = ready[c]
         /\ ready' = [ready EXCEPT ![cmd] = ready[cmd] - 1]
         /\ UNCHANGED <<push, called, accepted, invalid, spent>>
         /\ \E s : Become(w, s) /\ Starting(s, cmd, 0, TRUE)
<1>1. ready \in [Command -> Nat]
  BY DEF PushInv, TypeOK
<1> QED BY <1>1, BeginStarts DEF Deliver

LEMMA DeliverDue ==
  ASSUME PushInv, Single, Same, NEW w \in Workers, NEW cmd \in Command, Deliver(w, cmd)
  PROVE  Single' /\ Same'
<1>1. /\ worker[w] = Idle /\ ready[cmd] > 0 /\ ready[cmd] \in Nat
      /\ ready'[cmd] = ready[cmd] - 1
      /\ \A c \in Command \ {cmd} : ready'[c] = ready[c]
      /\ UNCHANGED <<push, spent>>
  BY DeliverShape
<1>2. PICK s : Become(w, s) /\ Starting(s, cmd, 0, TRUE)
  BY DeliverShape
<1>3. worker'[w] = s /\ \A v \in Workers \ {w} : worker'[v] = worker[v]
  BY <1>2, Becoming
<1>4. Same'
  <2>1. SameRow(push')
    BY <1>1 DEF Same
  <2> QED BY <1>2, <2>1, SameStep, StartingIsSame
<1>5. ASSUME spent.of["disconnect"] = 0
      PROVE  /\ \A v \in Workers : worker'[v] # Idle => worker'[v].held
             /\ \A u, v \in Workers : Sends(worker'[u]) /\ Sends(worker'[v]) => u = v
             /\ ready'[SendPush] <= 1
             /\ ready'[SendPush] = 1 => \A v \in Workers : ~Sends(worker'[v])
  <2>1. /\ \A v \in Workers : worker[v] # Idle => worker[v].held
        /\ \A u, v \in Workers : Sends(worker[u]) /\ Sends(worker[v]) => u = v
        /\ ready[SendPush] <= 1
        /\ ready[SendPush] = 1 => \A v \in Workers : ~Sends(worker[v])
    BY <1>5 DEF Single
  <2>2. \A v \in Workers : worker'[v] # Idle => worker'[v].held
    BY <1>2, <1>3, <2>1 DEF Starting
  <2>3. CASE cmd = SendPush
    <3>1. ready[cmd] = 1 /\ ready'[cmd] = 0
      BY <1>1, <2>1, <2>3
    <3>2. \A v \in Workers \ {w} : ~Sends(worker'[v])
      BY <1>3, <2>1, <2>3, <3>1
    <3> QED BY <2>2, <2>3, <3>1, <3>2
  <2>4. CASE cmd # SendPush
    <3>1. ready'[SendPush] = ready[SendPush]
      BY <1>1, <2>4, CommandsDiffer
    <3>2. ~Sends(worker'[w])
      BY <1>2, <1>3, <2>4 DEF Starting, Sends
    <3>3. \A v \in Workers : Sends(worker'[v]) => Sends(worker[v])
      BY <1>3, <3>2
    <3> QED BY <2>1, <2>2, <3>1, <3>3
  <2> QED BY <2>3, <2>4
<1>6. \A v \in Workers : Sends(worker[v])' <=> Sends(worker'[v])
  BY DEF Sends
<1> QED BY <1>1, <1>4, <1>5, <1>6 DEF Single

LEMMA CrashShape ==
  ASSUME PushInv, NEW w \in Workers, Crash(w)
  PROVE  /\ worker[w] # Idle /\ worker[w].cmd \in Command /\ Become(w, Idle)
         /\ Fault("crash") /\ UNCHANGED <<push, called, accepted, invalid>>
         /\ ready[worker[w].cmd] \in Nat
         /\ worker[w].held =>
              ready' = [ready EXCEPT ![worker[w].cmd] = ready[worker[w].cmd] + 1]
         /\ ~worker[w].held => ready' = ready
<1>1. worker[w] # Idle /\ ready \in [Command -> Nat]
  BY DEF Crash, PushInv, TypeOK
<1>2. worker[w].cmd \in Command
  BY <1>1, BusyFacts
<1> QED BY <1>1, <1>2 DEF Crash, Ack

LEMMA CrashDue ==
  ASSUME PushInv, Single, Same, NEW w \in Workers, Crash(w)
  PROVE  Single' /\ Same'
<1>1. /\ worker[w] # Idle /\ worker[w].cmd \in Command /\ Become(w, Idle)
      /\ Fault("crash") /\ UNCHANGED push
      /\ ready[worker[w].cmd] \in Nat
      /\ worker[w].held =>
           ready' = [ready EXCEPT ![worker[w].cmd] = ready[worker[w].cmd] + 1]
      /\ ~worker[w].held => ready' = ready
  BY CrashShape
<1>2. worker'[w] = Idle /\ \A v \in Workers \ {w} : worker'[v] = worker[v]
  BY <1>1, Becoming
<1>3. Same'
  <2>1. SameRow(push')
    BY <1>1 DEF Same
  <2> QED BY <1>1, <2>1, SameStep, IdleIsSame
<1>4. spent'.of["disconnect"] = spent.of["disconnect"]
  <2>1. "disconnect" \in AllFaultKinds \ {"crash"}
    BY DEF AllFaultKinds
  <2> QED BY <1>1, <2>1, FaultCounts
<1>5. ready \in [Command -> Nat]
  BY DEF PushInv, TypeOK
<1>6. ASSUME spent.of["disconnect"] = 0
      PROVE  /\ \A v \in Workers : worker'[v] # Idle => worker'[v].held
             /\ \A u, v \in Workers : Sends(worker'[u]) /\ Sends(worker'[v]) => u = v
             /\ ready'[SendPush] <= 1
             /\ ready'[SendPush] = 1 => \A v \in Workers : ~Sends(worker'[v])
  <2>1. /\ \A v \in Workers : worker[v] # Idle => worker[v].held
        /\ \A u, v \in Workers : Sends(worker[u]) /\ Sends(worker[v]) => u = v
        /\ ready[SendPush] <= 1
        /\ ready[SendPush] = 1 => \A v \in Workers : ~Sends(worker[v])
    BY <1>6 DEF Single
  <2>2. ~Sends(worker'[w]) /\ \A v \in Workers : Sends(worker'[v]) => Sends(worker[v])
    BY <1>2 DEF Sends
  <2>3. \A v \in Workers : worker'[v] # Idle => worker'[v].held
    BY <1>2, <2>1
  <2>4. CASE worker[w].cmd = SendPush
    <3>1. Sends(worker[w])
      BY <1>1, <2>4 DEF Sends
    <3>2. ready[SendPush] # 1 /\ ready[SendPush] \in Nat
      BY <1>1, <2>1, <2>4, <3>1
    <3>3. ready'[SendPush] = ready[SendPush] + 1
      BY <1>1, <1>5, <2>1, <2>4
    <3>4. \A v \in Workers : ~Sends(worker'[v])
      BY <1>2, <2>1, <2>2, <3>1
    <3> QED BY <2>1, <2>3, <3>2, <3>3, <3>4
  <2>5. CASE worker[w].cmd # SendPush
    <3>1. ready'[SendPush] = ready[SendPush]
      BY <1>1, <1>5, <2>5, CommandsDiffer
    <3> QED BY <2>1, <2>2, <2>3, <3>1
  <2> QED BY <2>4, <2>5
<1>7. \A v \in Workers : Sends(worker[v])' <=> Sends(worker'[v])
  BY DEF Sends
<1> QED BY <1>3, <1>4, <1>6, <1>7 DEF Single

LEMMA DisconnectShape ==
  ASSUME PushInv, NEW w \in Workers, Disconnect(w)
  PROVE  /\ worker[w] # Idle /\ worker[w].cmd \in Command
         /\ Fault("disconnect") /\ UNCHANGED <<push, called, accepted, invalid>>
         /\ ready' = [ready EXCEPT ![worker[w].cmd] = ready[worker[w].cmd] + 1]
         /\ spent'.of["disconnect"] # 0 /\ spent'.events = spent.events
         /\ \E s : /\ Become(w, s) /\ s # Idle /\ s.step = worker[w].step
                   /\ s.cmd = worker[w].cmd /\ s.snap = worker[w].snap
                   /\ s.todo = worker[w].todo
<1>1. worker[w] # Idle /\ Fault("disconnect")
  BY DEF Disconnect
<1>2. worker[w] \in Busy /\ worker[w].cmd \in Command
  BY <1>1, BusyFacts
<1> DEFINE s == [worker[w] EXCEPT !.held = FALSE]
<1>3. s.step = worker[w].step /\ s.snap = worker[w].snap
      /\ s.cmd = worker[w].cmd /\ s.todo = worker[w].todo
  BY <1>2 DEF Busy
<1>4. Become(w, s)
  BY DEF Disconnect
<1> HIDE DEF s
<1>5. s # Idle
  BY <1>2, <1>3 DEF Idle, Busy
<1>6. spent'.of["disconnect"] = spent.of["disconnect"] + 1 /\ spent'.events = spent.events
      /\ spent.of["disconnect"] \in Nat
  BY <1>1, FaultCounts, PaymentsNat DEF AllFaultKinds
<1> QED BY <1>1, <1>2, <1>3, <1>4, <1>5, <1>6 DEF Disconnect

LEMMA DisconnectDue ==
  ASSUME PushInv, Single, Same, NEW w \in Workers, Disconnect(w)
  PROVE  Single' /\ Same'
<1>1. worker[w] # Idle /\ UNCHANGED push /\ spent'.of["disconnect"] # 0
  BY DisconnectShape
<1>2. PICK s : /\ Become(w, s) /\ s # Idle /\ s.step = worker[w].step
               /\ s.cmd = worker[w].cmd /\ s.snap = worker[w].snap
               /\ s.todo = worker[w].todo
  BY DisconnectShape
<1>3. SameCopy(s) /\ SameRow(push')
  BY <1>1, <1>2 DEF Same, SameCopy
<1>4. Same'
  BY <1>2, <1>3, SameStep
<1> QED BY <1>1, <1>4 DEF Single

LEMMA ThrowDue ==
  ASSUME PushInv, Single, Same, NEW w \in Workers, worker[w] # Idle, Throw(w),
         SameRow(push'), ready' = ready, spent'.of["disconnect"] = spent.of["disconnect"]
  PROVE  Single' /\ Same'
<1>1. PICK s : Become(w, s) /\ Thrown(worker[w], s)
  BY ThrowShape
<1>2. /\ s # Idle => worker[w] # Idle /\ s.held = worker[w].held
      /\ Sends(s) => Sends(worker[w])
  BY <1>1, ThrownIsSingle
<1> QED BY <1>1, <1>2, SingleStep, SameStep, ThrownIsSame

LEMMA AckDue ==
  ASSUME PushInv, Single, Same, NEW w \in Workers, Ack(w),
         SameRow(push'), ready' = ready, spent'.of["disconnect"] = spent.of["disconnect"]
  PROVE  Single' /\ Same'
<1>1. Become(w, Idle) /\ ~Sends(Idle)
  BY DEF Ack, Sends
<1> QED BY <1>1, SingleStep, SameStep, IdleIsSame

LEMMA DatabaseFault ==
  ASSUME PushInv, Fault("database")
  PROVE  /\ spent'.of["disconnect"] = spent.of["disconnect"] /\ spent'.events = spent.events
         /\ spent'.of["database"] = spent.of["database"] + 1
<1>1. "disconnect" \in AllFaultKinds \ {"database"}
  BY DEF AllFaultKinds
<1> QED BY <1>1, FaultCounts

LEMMA ReadFailsDue ==
  ASSUME PushInv, Single, Same, NEW w \in Workers, ReadFails(w)
  PROVE  Single' /\ Same'
<1>1. worker[w] # Idle /\ Throw(w) /\ Fault("database") /\ UNCHANGED <<push, ready>>
  BY DEF ReadFails, At
<1>2. SameRow(push')
  BY <1>1 DEF Same
<1> QED BY <1>1, <1>2, DatabaseFault, ThrowDue

\* Loading the row: as stored, or refused.
Loading(o, snap, todo) == [o EXCEPT !.step = "send", !.snap = snap, !.todo = todo]

LEMMA LoadingFields ==
  ASSUME NEW o \in Busy, NEW snap, NEW todo
  PROVE  /\ Loading(o, snap, todo) # Idle /\ Loading(o, snap, todo).step = "send"
         /\ Loading(o, snap, todo).cmd = o.cmd
         /\ Loading(o, snap, todo).attempt = o.attempt
         /\ Loading(o, snap, todo).held = o.held
         /\ Loading(o, snap, todo).snap = snap /\ Loading(o, snap, todo).todo = todo
<1>1. Loading(o, snap, todo).step = "send"
  BY DEF Loading, Busy
<1> QED BY <1>1 DEF Loading, Busy, Idle

Loaded(o, s) ==
  /\ s # Idle /\ s.step = "send" /\ s.cmd = SendPush
  /\ s.attempt = o.attempt /\ s.held = o.held
  /\ \/ s.snap = push /\ s.todo = Todo(push)
     \/ s.todo = {} /\ \A d \in Devices : ~Pending(s.snap, d)

LEMMA LoadPushShape ==
  ASSUME PushInv, NEW w \in Workers, LoadPush(w)
  PROVE  /\ Sends(worker[w]) /\ worker[w].step = "load" /\ worker[w] # Idle
         /\ UNCHANGED <<push, ready, called, accepted, invalid, spent>>
         /\ \E s : Become(w, s) /\ Loaded(worker[w], s)
<1>1. /\ worker[w] # Idle /\ worker[w].step = "load" /\ worker[w].cmd = SendPush
      /\ UNCHANGED <<push, ready, called, accepted, invalid, spent>>
  BY DEF LoadPush, At
<1>2. worker[w] \in Busy
  BY <1>1, BusyFacts
<1>3. CASE Become(w, [worker[w] EXCEPT !.step = "send", !.snap = push,
                                       !.todo = Todo(push)])
  <2>1. Become(w, Loading(worker[w], push, Todo(push)))
    BY <1>3 DEF Loading
  <2>2. Loaded(worker[w], Loading(worker[w], push, Todo(push)))
    BY <1>1, <1>2, LoadingFields DEF Loaded
  <2> QED BY <1>1, <2>1, <2>2 DEF Sends
<1>4. CASE Become(w, [worker[w] EXCEPT !.step = "send", !.todo = {},
                                       !.snap = ValidatorDeny(push)])
  <2>1. Become(w, Loading(worker[w], ValidatorDeny(push), {}))
    BY <1>2, <1>4 DEF Busy, Loading
  <2>2. push.jobs \in [Devices -> PushNotificationJob]
    BY DEF PushInv, TypeOK, PushNotification
  <2>3. \A d \in Devices : ~Pending(ValidatorDeny(push), d)
    BY <2>2 DEF ValidatorDeny, Pending, PushNotificationJob
  <2>4. Loaded(worker[w], Loading(worker[w], ValidatorDeny(push), {}))
    BY <1>1, <1>2, <2>3, LoadingFields DEF Loaded
  <2> QED BY <1>1, <2>1, <2>4 DEF Sends
<1> QED BY <1>3, <1>4 DEF LoadPush

LEMMA LoadPushDue ==
  ASSUME PushInv, Single, Same, NEW w \in Workers, LoadPush(w)
  PROVE  Single' /\ Same'
<1>1. Sends(worker[w]) /\ UNCHANGED <<push, ready, spent>> /\ worker[w] # Idle
  BY LoadPushShape DEF Sends
<1>2. PICK s : Become(w, s) /\ Loaded(worker[w], s)
  BY LoadPushShape
<1> USE DEF Loaded
<1>3. SameRow(push) /\ SameRow(push')
  BY <1>1 DEF Same
<1>4. SameCopy(s)
  <2>1. CASE s.todo = {} /\ \A d \in Devices : ~Pending(s.snap, d)
    BY <1>2, <2>1 DEF SameCopy
  <2>2. CASE s.snap = push /\ s.todo = Todo(push)
    <3>1. \A d \in s.todo : d \in Devices /\ Pending(push, d) /\ push.jobs[d].retry < 3
      BY <2>2 DEF Todo, Pending
    <3>2. \A e \in Devices \ s.todo : Pending(push, e) => ~(push.jobs[e].retry < 3)
      BY <2>2 DEF Todo, Pending
    <3>3. \A d \in s.todo, e \in Devices \ s.todo : ~Pending(push, e)
      BY <1>3, <3>1, <3>2 DEF SameRow
    <3>4. /\ \A d, e \in s.todo : push.jobs[d].retry = push.jobs[e].retry
          /\ \A d, e \in Devices \ s.todo : Pending(push, d) /\ Pending(push, e) =>
               push.jobs[d].retry = push.jobs[e].retry
      BY <1>3, <3>1 DEF SameRow
    <3> QED BY <1>2, <2>2, <3>1, <3>3, <3>4 DEF SameCopy
  <2> QED BY <1>2, <2>1, <2>2
<1> QED BY <1>1, <1>2, <1>3, <1>4, SingleStep, SameStep

LEMMA RoundFaults ==
  ASSUME PushInv, NEW o, NEW s, NEW d, Answered(s, d) \/ Raised(o, s, d)
  PROVE  /\ spent'.of["disconnect"] = spent.of["disconnect"] /\ spent'.events = spent.events
         /\ spent'.of["database"] = spent.of["database"]
<1>1. ASSUME NEW kind \in {"provider", "publish", "lostAnswer"}, Fault(kind)
      PROVE  /\ spent'.of["disconnect"] = spent.of["disconnect"]
             /\ spent'.events = spent.events
             /\ spent'.of["database"] = spent.of["database"]
  <2>1. {"disconnect", "database"} \subseteq AllFaultKinds \ {kind}
    BY DEF AllFaultKinds
  <2> QED BY <1>1, <2>1, FaultCounts
<1>2. UNCHANGED spent \/ \E kind \in {"provider", "publish", "lostAnswer"} : Fault(kind)
  BY DEF Answered, Raised
<1> QED BY <1>1, <1>2

LEMMA CallGatewayDue ==
  ASSUME PushInv, Single, Same, NEW w \in Workers, NEW d \in Devices, CallGateway(w, d)
  PROVE  Single' /\ Same'
<1>1. /\ worker[w] # Idle /\ worker[w].step = "send" /\ d \in worker[w].todo
      /\ UNCHANGED <<push, ready>>
  BY DEF CallGateway, At
<1>2. PICK s : /\ Become(w, s) /\ RoundOf(worker[w], s, d)
               /\ Answered(s, d) \/ Raised(worker[w], s, d)
  BY RoundShape
<1> PICK o : o = worker[w]
  OBVIOUS
<1>3. /\ o \in Busy /\ o.snap \in PushNotification /\ o.todo \subseteq Devices
  BY <1>1, BusyFacts DEF GoodWorker, HasSnap, Busy
<1>4. SameCopy(o) /\ SameRow(push')
  BY <1>1 DEF Same
<1>5. /\ \A e \in o.todo : Pending(o.snap, e)
      /\ \A e, f \in o.todo : o.snap.jobs[e].retry = o.snap.jobs[f].retry
      /\ \A e \in o.todo, f \in Devices \ o.todo : Pending(o.snap, f) =>
           o.snap.jobs[f].retry = o.snap.jobs[e].retry + 1
      /\ \A e, f \in Devices \ o.todo : Pending(o.snap, e) /\ Pending(o.snap, f) =>
           o.snap.jobs[e].retry = o.snap.jobs[f].retry
      /\ o.cmd = SendPush
  BY <1>1, <1>4 DEF SameCopy
<1>6. /\ s # Idle /\ s.step = "send" /\ s.cmd = o.cmd /\ s.held = o.held
      /\ s.todo = o.todo \ {d}
      /\ \A e \in Devices \ {d} : s.snap.jobs[e] = o.snap.jobs[e]
  BY <1>2 DEF RoundOf
<1>7. \/ ~Pending(s.snap, d)
      \/ Pending(s.snap, d) /\ s.snap.jobs[d].retry = o.snap.jobs[d].retry + 1
  BY <1>1, <1>2, <1>5 DEF Answered, Raised, SentOf, ThrewOf, Pending
<1>8. \A e \in Devices \ {d} : Pending(s.snap, e) <=> Pending(o.snap, e)
  BY <1>6 DEF Pending
<1>9. SameCopy(s)
  <2>1. \A e \in s.todo : e \in o.todo /\ e \in Devices \ {d} /\ Pending(s.snap, e)
    BY <1>3, <1>5, <1>6, <1>8
  <2>2. \A e, f \in s.todo : s.snap.jobs[e].retry = s.snap.jobs[f].retry
    BY <1>5, <1>6, <2>1
  <2>3. \A e \in s.todo, f \in Devices \ s.todo : Pending(s.snap, f) =>
          s.snap.jobs[f].retry = s.snap.jobs[e].retry + 1
    <3> SUFFICES ASSUME NEW e \in s.todo, NEW f \in Devices \ s.todo, Pending(s.snap, f)
                 PROVE  s.snap.jobs[f].retry = s.snap.jobs[e].retry + 1
      OBVIOUS
    <3>1. CASE f = d
      BY <1>1, <1>5, <1>6, <1>7, <2>1, <3>1
    <3>2. CASE f # d
      BY <1>5, <1>6, <1>8, <2>1, <3>2
    <3> QED BY <3>1, <3>2
  <2>4. \A e, f \in Devices \ s.todo : Pending(s.snap, e) /\ Pending(s.snap, f) =>
          s.snap.jobs[e].retry = s.snap.jobs[f].retry
    <3> SUFFICES ASSUME NEW e \in Devices \ s.todo, NEW f \in Devices \ s.todo,
                        Pending(s.snap, e), Pending(s.snap, f)
                 PROVE  s.snap.jobs[e].retry = s.snap.jobs[f].retry
      OBVIOUS
    <3>1. \A g \in Devices \ s.todo : g # d => g \in Devices \ o.todo
      BY <1>6
    <3>2. CASE e = d /\ f # d
      BY <1>1, <1>5, <1>6, <1>7, <1>8, <3>1, <3>2
    <3>3. CASE e # d /\ f = d
      BY <1>1, <1>5, <1>6, <1>7, <1>8, <3>1, <3>3
    <3>4. CASE e # d /\ f # d
      BY <1>5, <1>6, <1>8, <3>1, <3>4
    <3> QED BY <3>2, <3>3, <3>4
  <2> QED BY <1>5, <1>6, <2>1, <2>2, <2>3, <2>4 DEF SameCopy
<1>10. spent'.of["disconnect"] = spent.of["disconnect"]
  BY <1>2, RoundFaults
<1>11. Sends(s) => Sends(worker[w])
  BY <1>1, <1>6 DEF Sends
<1> QED BY <1>1, <1>2, <1>4, <1>6, <1>9, <1>10, <1>11, SingleStep, SameStep

LEMMA SavePushDue ==
  ASSUME PushInv, Single, Same, NEW w \in Workers, SavePush(w)
  PROVE  Single' /\ Same'
<1>1. worker[w] # Idle /\ worker[w].step = "send" /\ worker[w].todo = {} /\ ready' = ready
  BY DEF SavePush, At
<1>2. SameRow(push) /\ SameCopy(worker[w])
  BY DEF Same
<1>3. SameRow(worker[w].snap)
  BY <1>1, <1>2 DEF SameCopy, SameRow
<1>4. CASE /\ push' = worker[w].snap
           /\ IF Unfinished(worker[w].snap) THEN Throw(w) ELSE Ack(w)
           /\ UNCHANGED spent
  BY <1>1, <1>3, <1>4, ThrowDue, AckDue
<1>5. CASE Fault("database") /\ Throw(w) /\ UNCHANGED push
  BY <1>1, <1>2, <1>5, DatabaseFault, ThrowDue
<1> QED BY <1>4, <1>5 DEF SavePush

\* A report changes the status of jobs to one that is not Pending.
LEMMA ReportedIsSame ==
  ASSUME NEW p \in PushNotification, NEW event \in Events
  PROVE  \A d \in Devices :
           /\ Pending(Reported(p, event), d) => Pending(p, d)
           /\ Reported(p, event).jobs[d].retry = p.jobs[d].retry
<1>1. p.jobs \in [Devices -> PushNotificationJob]
  BY DEF PushNotification
<1>2. event.type # "Pending"
  BY DEF Events
<1> QED BY <1>1, <1>2 DEF Reported, Pending, PushNotificationJob

LEMMA LoadEventShape ==
  ASSUME PushInv, Same, NEW w \in Workers, LoadEvent(w)
  PROVE  /\ Reports(worker[w]) /\ worker[w] # Idle /\ worker[w].step = "load"
         /\ UNCHANGED <<push, ready, called, accepted, invalid, spent>>
         /\ \E s : /\ Become(w, s)
                   /\ \/ Thrown(worker[w], s)
                      \/ /\ s # Idle /\ s.step = "save" /\ s.cmd = worker[w].cmd
                         /\ s.held = worker[w].held /\ SameRow(s.snap)
<1>1. /\ worker[w] # Idle /\ worker[w].step = "load" /\ worker[w].cmd \in Events
      /\ UNCHANGED <<push, ready, called, accepted, invalid, spent>>
  BY DEF LoadEvent, At
<1>2. worker[w] \in Busy
  BY <1>1, BusyFacts
<1>3. CASE Throw(w)
  BY <1>1, <1>3, ThrowShape DEF Reports
<1>4. CASE Become(w, [worker[w] EXCEPT !.step = "save",
                                       !.snap = Reported(push, worker[w].cmd)])
  <2> DEFINE snap == Reported(push, worker[w].cmd)
             s == [worker[w] EXCEPT !.step = "save", !.snap = snap]
  <2>1. SameRow(snap)
    <3>1. push \in PushNotification /\ SameRow(push)
      BY DEF PushInv, TypeOK, Same
    <3> QED BY <1>1, <3>1, ReportedIsSame DEF SameRow
  <2> HIDE DEF snap
  <2>2. s.step = "save" /\ s.cmd = worker[w].cmd /\ s.held = worker[w].held /\ s.snap = snap
    BY <1>2 DEF Busy
  <2>3. Become(w, s)
    BY <1>4 DEF snap
  <2> HIDE DEF s
  <2>4. s # Idle
    BY <2>2 DEF Idle
  <2> QED BY <1>1, <2>1, <2>2, <2>3, <2>4 DEF Reports
<1> QED BY <1>3, <1>4 DEF LoadEvent

LEMMA LoadEventDue ==
  ASSUME PushInv, Single, Same, NEW w \in Workers, LoadEvent(w)
  PROVE  Single' /\ Same'
<1>1. /\ Reports(worker[w]) /\ worker[w] # Idle /\ UNCHANGED <<push, ready, spent>>
  BY LoadEventShape
<1>2. PICK s : /\ Become(w, s)
               /\ \/ Thrown(worker[w], s)
                  \/ /\ s # Idle /\ s.step = "save" /\ s.cmd = worker[w].cmd
                     /\ s.held = worker[w].held /\ SameRow(s.snap)
  BY LoadEventShape
<1>3. SameCopy(s)
  BY <1>1, <1>2, ThrownIsSame DEF SameCopy, Reports
<1>4. /\ s # Idle => worker[w] # Idle /\ s.held = worker[w].held
      /\ Sends(s) => Sends(worker[w])
  BY <1>1, <1>2, ThrownIsSingle DEF Sends
<1>5. SameRow(push')
  BY <1>1 DEF Same
<1> QED BY <1>1, <1>2, <1>3, <1>4, <1>5, SingleStep, SameStep

LEMMA SaveEventDue ==
  ASSUME PushInv, Single, Same, NEW w \in Workers, SaveEvent(w)
  PROVE  Single' /\ Same'
<1>1. worker[w] # Idle /\ worker[w].step = "save" /\ ready' = ready
  BY DEF SaveEvent, At
<1>2. SameRow(push) /\ SameRow(worker[w].snap)
  BY <1>1 DEF Same, SameCopy
<1>3. CASE push' = worker[w].snap /\ Ack(w) /\ UNCHANGED spent
  BY <1>1, <1>2, <1>3, AckDue
<1>4. CASE Fault("database") /\ Throw(w) /\ UNCHANGED push
  BY <1>1, <1>2, <1>4, DatabaseFault, ThrowDue
<1> QED BY <1>3, <1>4 DEF SaveEvent

LEMMA ReportEventShape ==
  ASSUME PushInv, NEW event \in Events, ReportEvent(event)
  PROVE  /\ UNCHANGED <<push, worker, called, accepted, invalid>>
         /\ ready' = [ready EXCEPT ![event] = ready[event] + 1]
         /\ ready'[SendPush] = ready[SendPush]
         /\ spent'.of = spent.of /\ spent'.events = spent.events + 1
<1>1. /\ ready \in [Command -> Nat]
      /\ spent \in [faults : Nat, events : Nat, of : [AllFaultKinds -> Nat]]
  BY DEF PushInv, TypeOK
<1> QED BY <1>1, CommandsDiffer DEF ReportEvent

LEMMA ReportEventDue ==
  ASSUME PushInv, Single, Same, NEW event \in Events, ReportEvent(event)
  PROVE  Single' /\ Same'
<1>1. UNCHANGED <<push, worker>> /\ ready'[SendPush] = ready[SendPush] /\ spent'.of = spent.of
  BY ReportEventShape
<1>2. Same'
  BY <1>1 DEF Same, SameRow, SameCopy, Pending
<1>3. Single'
  BY <1>1 DEF Single, Sends
<1> QED BY <1>2, <1>3

-----------------------------------------------------------------------------
(* Every acceptance is paid for                                            *)

LEMMA CountsNat ==
  ASSUME PushInv
  PROVE  /\ \A d \in Devices : accepted[d] \in Nat
         /\ \A cmd \in Command : ready[cmd] \in Nat
         /\ ready[SendPush] \in Nat
BY CommandsDiffer DEF PushInv, TypeOK

LEMMA CountsNatNext ==
  ASSUME PushInv'
  PROVE  /\ \A d \in Devices : accepted'[d] \in Nat
         /\ ready'[SendPush] \in Nat /\ Payments' \in Nat /\ LonePayments' \in Nat
<1>1. /\ accepted' \in [Devices -> Nat] /\ ready' \in [Command -> Nat]
      /\ spent' \in [faults : Nat, events : Nat, of : [AllFaultKinds -> Nat]]
  BY DEF PushInv, TypeOK
<1>2. /\ spent'.of["database"] \in Nat /\ spent'.of["lostAnswer"] \in Nat
      /\ spent'.of["crash"] \in Nat /\ spent'.of["disconnect"] \in Nat
      /\ spent'.of["provider"] \in Nat /\ spent'.of["publish"] \in Nat
      /\ spent'.events \in Nat
  BY <1>1 DEF AllFaultKinds
<1> QED BY <1>1, <1>2, CommandsDiffer DEF Payments, LonePayments

LEMMA PaidStep ==
  ASSUME PushInv, PushInv', NEW w \in Workers, NEW s, Become(w, s), NEW d \in Devices,
         PaidFor(d),
         accepted'[d] + OpenOf(s, d) + BackOf(s) + ready'[SendPush] + Payments
           <= accepted[d] + OpenOf(worker[w], d) + BackOf(worker[w]) + ready[SendPush] + Payments'
  PROVE  PaidFor(d)'
<1>1. /\ IsFiniteSet(Open(d)) /\ IsFiniteSet(Back)
      /\ accepted[d] + Cardinality(Open(d)) + Cardinality(Back) + ready[SendPush] <= 1 + Payments
  BY DEF PaidFor
<1>2. /\ IsFiniteSet(Open(d)') /\ Cardinality(Open(d)') \in Nat /\ Cardinality(Open(d)) \in Nat
      /\ Cardinality(Open(d)') + OpenOf(worker[w], d) = Cardinality(Open(d)) + OpenOf(s, d)
  BY <1>1, OpenMoves
<1>3. /\ IsFiniteSet(Back') /\ Cardinality(Back') \in Nat /\ Cardinality(Back) \in Nat
      /\ Cardinality(Back') + BackOf(worker[w]) = Cardinality(Back) + BackOf(s)
  BY <1>1, BackMoves
<1>4. /\ accepted[d] \in Nat /\ accepted'[d] \in Nat /\ ready[SendPush] \in Nat
      /\ ready'[SendPush] \in Nat /\ Payments \in Nat /\ Payments' \in Nat
  BY CountsNat, PaymentsNat, CountsNatNext
<1>5. /\ OpenOf(s, d) \in Nat /\ OpenOf(worker[w], d) \in Nat
      /\ BackOf(s) \in Nat /\ BackOf(worker[w]) \in Nat
  BY DEF OpenOf, BackOf
<1>6. accepted'[d] + Cardinality(Open(d)') + Cardinality(Back') + ready'[SendPush]
        <= 1 + Payments'
  BY <1>1, <1>2, <1>3, <1>4, <1>5
<1> QED BY <1>2, <1>3, <1>6 DEF PaidFor

LEMMA StartingOwes ==
  ASSUME NEW s, NEW cmd, NEW attempt, NEW held, Starting(s, cmd, attempt, held), NEW d
  PROVE  /\ OpenOf(s, d) = (IF cmd = SendPush THEN 1 ELSE 0) /\ BackOf(s) = 0
BY DEF Starting, OpenOf, MaySend, Sends, BackOf, ComesBack

LEMMA IdleOwes == \A d : OpenOf(Idle, d) = 0 /\ BackOf(Idle) = 0
BY DEF OpenOf, MaySend, Sends, BackOf, ComesBack

\* A throw owes a new attempt: what fails pays for it, if the job that was left
\* pending has not.
LEMMA ThrownOwes ==
  ASSUME NEW o, NEW s, Thrown(o, s), NEW d
  PROVE  /\ OpenOf(s, d) = 0 \/ (OpenOf(s, d) = 1 /\ o.cmd = SendPush)
         /\ BackOf(s) = 0
BY StartingOwes, IdleOwes DEF Thrown

LEMMA DeliverPaid ==
  ASSUME PushInv, PushInv', NEW w \in Workers, NEW cmd \in Command, Deliver(w, cmd),
         NEW d \in Devices, PaidFor(d)
  PROVE  PaidFor(d)'
<1>1. /\ worker[w] = Idle /\ ready[cmd] > 0 /\ ready[cmd] \in Nat
      /\ ready'[cmd] = ready[cmd] - 1
      /\ \A c \in Command \ {cmd} : ready'[c] = ready[c]
      /\ UNCHANGED <<accepted, spent>>
  BY DeliverShape
<1>2. PICK s : Become(w, s) /\ Starting(s, cmd, 0, TRUE)
  BY DeliverShape
<1>3. Payments' = Payments /\ Payments \in Nat
  BY <1>1, NoFaultPaysNothing, PaymentsNat
<1>4. accepted[d] \in Nat /\ ready[SendPush] \in Nat
  BY CountsNat
<1>5. OpenOf(worker[w], d) = 0 /\ BackOf(worker[w]) = 0
  BY <1>1, IdleOwes
<1>6. CASE cmd = SendPush
  <2>1. OpenOf(s, d) = 1 /\ BackOf(s) = 0
    BY <1>2, <1>6, StartingOwes
  <2>2. ready'[SendPush] = ready[SendPush] - 1
    BY <1>1, <1>6
  <2> QED BY <1>1, <1>2, <1>3, <1>4, <1>5, <2>1, <2>2, PaidStep
<1>7. CASE cmd # SendPush
  <2>1. OpenOf(s, d) = 0 /\ BackOf(s) = 0
    BY <1>2, <1>7, StartingOwes
  <2>2. ready'[SendPush] = ready[SendPush]
    BY <1>1, <1>7, CommandsDiffer
  <2> QED BY <1>1, <1>2, <1>3, <1>4, <1>5, <2>1, <2>2, PaidStep
<1> QED BY <1>6, <1>7

\* A fault that ends or restarts what a worker did.
LEMMA ThrowPaid ==
  ASSUME PushInv, PushInv', NEW w \in Workers, worker[w] # Idle, Throw(w),
         NEW d \in Devices, PaidFor(d),
         UNCHANGED <<accepted, ready>>, NEW kind, Fault(kind)
  PROVE  PaidFor(d)'
<1>1. PICK s : Become(w, s) /\ Thrown(worker[w], s)
  BY ThrowShape
<1>2. Payments' = Payments + 1 /\ Payments \in Nat
  BY FaultPays, PaymentsNat
<1>3. accepted[d] \in Nat /\ ready[SendPush] \in Nat
  BY CountsNat
<1>4. OpenOf(s, d) \in {0, 1} /\ BackOf(s) = 0
  BY <1>1, ThrownOwes
<1>5. OpenOf(worker[w], d) \in {0, 1} /\ BackOf(worker[w]) \in {0, 1}
  BY DEF OpenOf, BackOf
<1> QED BY <1>1, <1>2, <1>3, <1>4, <1>5, PaidStep

LEMMA CrashPaid ==
  ASSUME PushInv, PushInv', NEW w \in Workers, Crash(w), NEW d \in Devices, PaidFor(d)
  PROVE  PaidFor(d)'
<1>1. /\ worker[w] # Idle /\ worker[w].cmd \in Command /\ Become(w, Idle)
      /\ Fault("crash") /\ UNCHANGED accepted
      /\ ready[worker[w].cmd] \in Nat
      /\ worker[w].held =>
           ready' = [ready EXCEPT ![worker[w].cmd] = ready[worker[w].cmd] + 1]
      /\ ~worker[w].held => ready' = ready
  BY CrashShape
<1>2. Payments' = Payments + 1 /\ Payments \in Nat
  BY <1>1, FaultPays, PaymentsNat
<1>3. accepted[d] \in Nat /\ ready[SendPush] \in Nat
  BY CountsNat
<1>4. OpenOf(Idle, d) = 0 /\ BackOf(Idle) = 0
  BY IdleOwes
<1>5. OpenOf(worker[w], d) \in {0, 1} /\ BackOf(worker[w]) \in {0, 1}
  BY DEF OpenOf, BackOf
<1>6. ready'[SendPush] = ready[SendPush] \/ ready'[SendPush] = ready[SendPush] + 1
  <2>1. ready \in [Command -> Nat] /\ SendPush \in Command
    BY CommandsDiffer DEF PushInv, TypeOK
  <2>2. worker[w].cmd = SendPush \/ worker[w].cmd # SendPush
    OBVIOUS
  <2> QED BY <1>1, <2>1, <2>2
<1> QED BY <1>1, <1>2, <1>3, <1>4, <1>5, <1>6, PaidStep

LEMMA DisconnectPaid ==
  ASSUME PushInv, PushInv', NEW w \in Workers, Disconnect(w), NEW d \in Devices, PaidFor(d)
  PROVE  PaidFor(d)'
<1>1. /\ worker[w] # Idle /\ worker[w].cmd \in Command
      /\ Fault("disconnect") /\ UNCHANGED accepted
      /\ ready' = [ready EXCEPT ![worker[w].cmd] = ready[worker[w].cmd] + 1]
  BY DisconnectShape
<1>2. PICK s : /\ Become(w, s) /\ s # Idle /\ s.step = worker[w].step
               /\ s.cmd = worker[w].cmd /\ s.snap = worker[w].snap
               /\ s.todo = worker[w].todo
  BY DisconnectShape
<1>3. Payments' = Payments + 1 /\ Payments \in Nat
  BY <1>1, FaultPays, PaymentsNat
<1>4. accepted[d] \in Nat /\ ready[SendPush] \in Nat
  BY CountsNat
<1>5. OpenOf(s, d) = OpenOf(worker[w], d) /\ BackOf(s) = BackOf(worker[w])
  BY <1>1, <1>2 DEF OpenOf, BackOf, MaySend, ComesBack, Sends
<1>6. OpenOf(worker[w], d) \in {0, 1} /\ BackOf(worker[w]) \in {0, 1}
  BY DEF OpenOf, BackOf
<1>7. ready'[SendPush] = ready[SendPush] \/ ready'[SendPush] = ready[SendPush] + 1
  <2>1. ready \in [Command -> Nat] /\ SendPush \in Command
    BY CommandsDiffer DEF PushInv, TypeOK
  <2>2. worker[w].cmd = SendPush \/ worker[w].cmd # SendPush
    OBVIOUS
  <2> QED BY <1>1, <2>1, <2>2
<1> QED BY <1>1, <1>2, <1>3, <1>4, <1>5, <1>6, <1>7, PaidStep

\* One attempt sends the jobs that have failed less than three times: no other
\* job is pending then, for they have all failed as often.
LEMMA LoadPushPaid ==
  ASSUME PushInv, PushInv', Same, NEW w \in Workers, LoadPush(w), NEW d \in Devices, PaidFor(d)
  PROVE  PaidFor(d)'
<1>1. /\ Sends(worker[w]) /\ worker[w].step = "load" /\ worker[w] # Idle
      /\ UNCHANGED <<push, ready, accepted, spent>>
  BY LoadPushShape
<1>2. PICK s : Become(w, s) /\ Loaded(worker[w], s)
  BY LoadPushShape
<1>3. Payments' = Payments /\ Payments \in Nat
  BY <1>1, NoFaultPaysNothing, PaymentsNat
<1>4. accepted[d] \in Nat /\ ready[SendPush] \in Nat
  BY CountsNat
<1>5. OpenOf(worker[w], d) = 1 /\ BackOf(worker[w]) = 0
  BY <1>1 DEF OpenOf, MaySend, BackOf, ComesBack
<1>6. OpenOf(s, d) + BackOf(s) <= 1 /\ OpenOf(s, d) \in {0, 1} /\ BackOf(s) \in {0, 1}
  <2>1. CASE s.todo = {} /\ \A e \in Devices : ~Pending(s.snap, e)
    BY <1>2, <2>1 DEF Loaded, OpenOf, MaySend, BackOf, ComesBack
  <2>2. CASE s.snap = push /\ s.todo = Todo(push)
    <3>1. \A e \in s.todo : e \in Devices /\ Pending(push, e) /\ push.jobs[e].retry < 3
      BY <2>2 DEF Todo, Pending
    <3>2. \A e \in Devices \ s.todo : Pending(push, e) => ~(push.jobs[e].retry < 3)
      BY <2>2 DEF Todo, Pending
    <3>3. SameRow(push)
      BY DEF Same
    <3>4. d \in s.todo => ~ComesBack(s)
      BY <2>2, <3>1, <3>2, <3>3 DEF SameRow, ComesBack
    <3>5. s.step = "send"
      BY <1>2 DEF Loaded
    <3>6. MaySend(s, d) => ~ComesBack(s)
      BY <3>4, <3>5 DEF MaySend
    <3> QED BY <3>6 DEF OpenOf, BackOf
  <2> QED BY <1>2, <2>1, <2>2 DEF Loaded
<1> QED BY <1>1, <1>2, <1>3, <1>4, <1>5, <1>6, PaidStep

LEMMA RoundPays ==
  ASSUME PushInv, NEW o, NEW s, NEW d, Answered(s, d) \/ Raised(o, s, d)
  PROVE  /\ Payments \in Nat /\ LonePayments \in Nat
         /\ Payments' = Payments \/ Payments' = Payments + 1
         /\ LonePayments' = LonePayments \/ LonePayments' = LonePayments + 1
<1>1. ASSUME NEW kind \in {"provider", "publish", "lostAnswer"}, Fault(kind)
      PROVE  /\ Payments' = Payments + 1
             /\ LonePayments' = LonePayments \/ LonePayments' = LonePayments + 1
  BY <1>1, FaultPays
<1>2. UNCHANGED spent \/ \E kind \in {"provider", "publish", "lostAnswer"} : Fault(kind)
  BY DEF Answered, Raised
<1> QED BY <1>1, <1>2, PaymentsNat, NoFaultPaysNothing

LEMMA RaisedPays ==
  ASSUME PushInv, NEW o, NEW s, NEW d, Raised(o, s, d)
  PROVE  /\ Payments' = Payments + 1
         /\ UNCHANGED accepted \/ (Accept(d) /\ LonePayments' = LonePayments + 1)
<1>1. \/ UNCHANGED accepted /\ (Fault("provider") \/ Fault("publish"))
      \/ Accept(d) /\ Fault("lostAnswer")
  BY DEF Raised
<1> QED BY <1>1, FaultPays

LEMMA CallGatewayPaid ==
  ASSUME PushInv, PushInv', Same, NEW w \in Workers, NEW x \in Devices, CallGateway(w, x),
         NEW d \in Devices, PaidFor(d)
  PROVE  PaidFor(d)'
<1>1. /\ worker[w] # Idle /\ worker[w].step = "send" /\ x \in worker[w].todo
      /\ ready' = ready
  BY DEF CallGateway, At
<1>2. PICK s : /\ Become(w, s) /\ RoundOf(worker[w], s, x)
               /\ Answered(s, x) \/ Raised(worker[w], s, x)
  BY RoundShape
<1> PICK o : o = worker[w]
  OBVIOUS
<1>3. o.cmd = SendPush /\ Sends(o)
  BY <1>1 DEF Same, SameCopy, Sends
<1>4. /\ s # Idle /\ s.step = "send" /\ s.cmd = o.cmd /\ s.todo = o.todo \ {x}
      /\ \A e \in Devices \ {x} : s.snap.jobs[e] = o.snap.jobs[e]
  BY <1>2 DEF RoundOf
<1>5. Sends(s)
  BY <1>3, <1>4 DEF Sends
<1>6. Payments \in Nat /\ (Payments' = Payments \/ Payments' = Payments + 1)
  BY <1>2, RoundPays
<1>7. accepted[d] \in Nat /\ ready[SendPush] \in Nat
  BY CountsNat
<1>8. accepted'[d] = accepted[d] \/ (d = x /\ accepted'[d] = accepted[d] + 1)
  <2>1. Accept(x) \/ UNCHANGED accepted
    BY <1>2 DEF Answered, Raised
  <2> QED BY <2>1, AcceptOne
<1>9. /\ d = x => OpenOf(o, d) = 1 /\ OpenOf(s, d) = 0
      /\ d # x => OpenOf(o, d) = OpenOf(s, d)
  BY <1>1, <1>3, <1>4, <1>5 DEF OpenOf, MaySend
<1>10. /\ OpenOf(o, d) \in Nat /\ OpenOf(s, d) \in Nat /\ BackOf(o) \in Nat /\ BackOf(s) \in Nat
       /\ BackOf(s) <= 1
  BY DEF OpenOf, BackOf
<1>13. accepted'[d] + OpenOf(s, d) <= accepted[d] + OpenOf(o, d) /\ accepted'[d] \in Nat
  <2>1. CASE d = x
    BY <1>7, <1>8, <1>9, <2>1
  <2>2. CASE d # x
    BY <1>7, <1>8, <1>9, <1>10, <2>2
  <2> QED BY <2>1, <2>2
<1>14. ASSUME BackOf(s) + Payments <= BackOf(o) + Payments'
       PROVE  PaidFor(d)'
  <2>1. Payments' \in Nat
    BY <1>6
  <2>2. accepted'[d] + OpenOf(s, d) + BackOf(s) + ready'[SendPush] + Payments
          <= accepted[d] + OpenOf(o, d) + BackOf(o) + ready[SendPush] + Payments'
    <3>1. ready'[SendPush] = ready[SendPush]
      BY <1>1
    <3> QED BY <1>6, <1>7, <1>10, <1>13, <1>14, <2>1, <3>1
  <2> QED BY <1>2, <2>2, PaidStep
<1>11. CASE Answered(s, x)
  <2>1. \A e \in Devices \ s.todo : Pending(s.snap, e) =>
          e \in Devices \ o.todo /\ Pending(o.snap, e)
    BY <1>4, <1>11 DEF Answered, SentOf, Pending
  <2>2. BackOf(s) = 0 \/ BackOf(o) = 1
    BY <1>1, <1>3, <2>1 DEF BackOf, ComesBack
  <2>3. BackOf(s) + Payments <= BackOf(o) + Payments'
    BY <1>6, <1>10, <2>2
  <2> QED BY <1>14, <2>3
<1>12. CASE Raised(o, s, x)
  <2>1. Payments' = Payments + 1
    BY <1>12, RaisedPays
  <2>3. BackOf(s) + Payments <= BackOf(o) + Payments'
    BY <1>6, <1>10, <2>1
  <2> QED BY <1>14, <2>3
<1> QED BY <1>2, <1>11, <1>12

LEMMA SavePushPaid ==
  ASSUME PushInv, PushInv', Same, NEW w \in Workers, SavePush(w), NEW d \in Devices, PaidFor(d)
  PROVE  PaidFor(d)'
<1>1. /\ worker[w] # Idle /\ worker[w].step = "send" /\ worker[w].todo = {}
      /\ UNCHANGED <<ready, accepted>>
  BY DEF SavePush, At
<1>2. worker[w].cmd = SendPush
  BY <1>1 DEF Same, SameCopy
<1>3. accepted[d] \in Nat /\ ready[SendPush] \in Nat /\ Payments \in Nat
  BY CountsNat, PaymentsNat
<1>4. OpenOf(worker[w], d) = 0 /\ BackOf(worker[w]) = IF Unfinished(worker[w].snap) THEN 1 ELSE 0
  BY <1>1, <1>2 DEF OpenOf, MaySend, BackOf, ComesBack, Sends, Unfinished, Pending
<1>5. CASE /\ IF Unfinished(worker[w].snap) THEN Throw(w) ELSE Ack(w)
           /\ UNCHANGED spent
  <2>1. Payments' = Payments
    BY <1>5, NoFaultPaysNothing
  <2>2. CASE Unfinished(worker[w].snap)
    <3>1. PICK s : Become(w, s) /\ Thrown(worker[w], s)
      BY <1>1, <1>5, <2>2, ThrowShape
    <3>2. OpenOf(s, d) \in {0, 1} /\ BackOf(s) = 0
      BY <3>1, ThrownOwes
    <3> QED BY <1>1, <1>3, <1>4, <2>1, <2>2, <3>1, <3>2, PaidStep
  <2>3. CASE ~Unfinished(worker[w].snap)
    <3>1. Become(w, Idle) /\ OpenOf(Idle, d) = 0 /\ BackOf(Idle) = 0
      BY <1>5, <2>3, IdleOwes DEF Ack
    <3> QED BY <1>1, <1>3, <1>4, <2>1, <2>3, <3>1, PaidStep
  <2> QED BY <2>2, <2>3
<1>6. CASE Fault("database") /\ Throw(w)
  BY <1>1, <1>6, ThrowPaid
<1> QED BY <1>5, <1>6 DEF SavePush

\* What handles a report owes no push.
LEMMA ReportOwes ==
  ASSUME NEW s, s # Idle, s.cmd \in Events, NEW d
  PROVE  OpenOf(s, d) = 0 /\ BackOf(s) = 0
BY CommandsDiffer DEF OpenOf, MaySend, BackOf, ComesBack, Sends

LEMMA LoadEventPaid ==
  ASSUME PushInv, PushInv', Same, NEW w \in Workers, LoadEvent(w), NEW d \in Devices, PaidFor(d)
  PROVE  PaidFor(d)'
<1>1. /\ Reports(worker[w]) /\ worker[w] # Idle /\ UNCHANGED <<ready, accepted, spent>>
  BY LoadEventShape
<1>2. PICK s : /\ Become(w, s)
               /\ \/ Thrown(worker[w], s)
                  \/ s # Idle /\ s.cmd = worker[w].cmd
  BY LoadEventShape
<1>3. accepted[d] \in Nat /\ ready[SendPush] \in Nat /\ Payments \in Nat /\ Payments' = Payments
  BY <1>1, CountsNat, PaymentsNat, NoFaultPaysNothing
<1>4. OpenOf(worker[w], d) = 0 /\ BackOf(worker[w]) = 0
  BY <1>1, ReportOwes DEF Reports
<1>5. OpenOf(s, d) = 0 /\ BackOf(s) = 0
  <2>1. worker[w].cmd \in Events
    BY <1>1 DEF Reports
  <2>2. s = Idle \/ (s # Idle /\ s.cmd = worker[w].cmd)
    BY <1>2 DEF Thrown, Starting
  <2> QED BY <2>1, <2>2, ReportOwes, IdleOwes
<1> QED BY <1>1, <1>2, <1>3, <1>4, <1>5, PaidStep

LEMMA SaveEventPaid ==
  ASSUME PushInv, PushInv', Same, NEW w \in Workers, SaveEvent(w), NEW d \in Devices, PaidFor(d)
  PROVE  PaidFor(d)'
<1>1. worker[w] # Idle /\ worker[w].step = "save" /\ UNCHANGED <<ready, accepted>>
  BY DEF SaveEvent, At
<1>2. worker[w].cmd \in Events
  BY <1>1 DEF Same, SameCopy
<1>3. accepted[d] \in Nat /\ ready[SendPush] \in Nat /\ Payments \in Nat
  BY CountsNat, PaymentsNat
<1>4. CASE Ack(w) /\ UNCHANGED spent
  <2>1. Become(w, Idle) /\ Payments' = Payments
    BY <1>4, NoFaultPaysNothing DEF Ack
  <2>2. OpenOf(worker[w], d) = 0 /\ BackOf(worker[w]) = 0
    BY <1>1, <1>2, ReportOwes
  <2> QED BY <1>1, <1>3, <2>1, <2>2, IdleOwes, PaidStep
<1>5. CASE Fault("database") /\ Throw(w)
  BY <1>1, <1>5, ThrowPaid
<1> QED BY <1>4, <1>5 DEF SaveEvent

LEMMA ReportEventPaid ==
  ASSUME PushInv, NEW event \in Events, ReportEvent(event), NEW d \in Devices, PaidFor(d)
  PROVE  PaidFor(d)'
<1>1. /\ UNCHANGED <<worker, accepted>> /\ ready'[SendPush] = ready[SendPush]
      /\ spent'.of = spent.of /\ spent'.events = spent.events + 1
  BY ReportEventShape
<1>2. Open(d)' = Open(d) /\ Back' = Back
  BY <1>1 DEF Open, Back, MaySend, ComesBack, Sends, Pending
<1>3. /\ spent.of["database"] \in Nat /\ spent.of["lostAnswer"] \in Nat
      /\ spent.of["crash"] \in Nat /\ spent.of["disconnect"] \in Nat
      /\ spent.of["provider"] \in Nat /\ spent.of["publish"] \in Nat
      /\ spent.events \in Nat
  BY PaymentsNat DEF AllFaultKinds
<1>4. Payments' = Payments + 1 /\ Payments \in Nat
  BY <1>1, <1>3, PaymentsNat DEF Payments
<1>5. /\ IsFiniteSet(Open(d)) /\ IsFiniteSet(Back)
      /\ accepted[d] + Cardinality(Open(d)) + Cardinality(Back) + ready[SendPush] <= 1 + Payments
  BY DEF PaidFor
<1>6. /\ Cardinality(Open(d)) \in Nat /\ Cardinality(Back) \in Nat /\ accepted[d] \in Nat
      /\ ready[SendPush] \in Nat
  BY <1>5, FS_CardinalityType, CountsNat
<1>7. accepted[d] + Cardinality(Open(d)) + Cardinality(Back) + ready[SendPush] <= 1 + Payments'
  BY <1>4, <1>5, <1>6
<1> QED BY <1>1, <1>2, <1>5, <1>7 DEF PaidFor

-----------------------------------------------------------------------------
(* While there is one delivery a gateway that fails costs no duplicate     *)

SendsAgain(s, d) == Sends(s) /\ s.step = "send" /\ Pending(s.snap, d)

Fresh(s) == Sends(s) /\ s.step = "load"

LEMMA LeftBit ==
  ASSUME NEW d
  PROVE  /\ Left(d) \in Nat /\ Left(d) <= 1 /\ Left(d)' \in Nat /\ Left(d)' <= 1
         /\ Again(d) => Left(d) = 1
         /\ ~Again(d)' => Left(d)' = 0
BY DEF Left

LEMMA AgainMoves ==
  ASSUME PushInv, NEW w \in Workers, NEW s, Become(w, s), NEW d, Again(d)'
  PROVE  \/ SendsAgain(s, d)
         \/ \E v \in Workers \ {w} : SendsAgain(worker[v], d)
         \/ /\ \/ ready'[SendPush] > 0 \/ Fresh(s)
               \/ \E v \in Workers \ {w} : Fresh(worker[v])
            /\ Pending(push', d)
<1>1. worker'[w] = s /\ \A v \in Workers \ {w} : worker'[v] = worker[v]
  BY Becoming
<1>2. \/ \E v \in Workers : SendsAgain(worker'[v], d)
      \/ /\ \/ ready'[SendPush] > 0
            \/ \E v \in Workers : Fresh(worker'[v])
         /\ Pending(push', d)
  BY DEF Again, SendsAgain, Fresh, Sends, Pending
<1> QED BY <1>1, <1>2

LEMMA AgainNow ==
  ASSUME NEW w \in Workers, NEW d
  PROVE  /\ SendsAgain(worker[w], d) => Again(d)
         /\ Fresh(worker[w]) /\ Pending(push, d) => Again(d)
         /\ ready[SendPush] > 0 /\ Pending(push, d) => Again(d)
BY DEF Again, SendsAgain, Fresh

\* A step that leaves the row alone and starts no delivery of SendPush.
LEMMA LeftStep ==
  ASSUME PushInv, NEW w \in Workers, NEW s, Become(w, s), NEW d,
         SendsAgain(s, d) => Again(d), Fresh(s) /\ Pending(push, d) => Again(d),
         push' = push, ready'[SendPush] > 0 => ready[SendPush] > 0
  PROVE  Left(d)' <= Left(d)
<1>1. ASSUME Again(d)' PROVE Again(d)
  BY <1>1, AgainMoves, AgainNow
<1> QED BY <1>1, LeftBit

\* The only consumer that sends moves on.
LEMMA LeftAlone ==
  ASSUME PushInv, Single, spent.of["disconnect"] = 0, NEW w \in Workers, Sends(worker[w]),
         NEW s, Become(w, s), ready'[SendPush] = ready[SendPush], NEW d,
         SendsAgain(s, d) => Again(d), Fresh(s) /\ Pending(push', d) => Again(d)
  PROVE  Left(d)' <= Left(d)
<1>1. /\ \A v \in Workers \ {w} : ~Sends(worker[v])
      /\ ~(ready[SendPush] > 0)
  <2>1. /\ \A u, v \in Workers : Sends(worker[u]) /\ Sends(worker[v]) => u = v
        /\ ready[SendPush] <= 1
        /\ ready[SendPush] = 1 => \A v \in Workers : ~Sends(worker[v])
    BY DEF Single
  <2>2. ready[SendPush] \in Nat /\ ready[SendPush] # 1
    BY <2>1, CountsNat
  <2> QED BY <2>1, <2>2
<1>2. \A v \in Workers \ {w} : ~SendsAgain(worker[v], d) /\ ~Fresh(worker[v])
  BY <1>1 DEF SendsAgain, Fresh
<1>3. ASSUME Again(d)' PROVE Again(d)
  BY <1>1, <1>2, <1>3, AgainMoves
<1> QED BY <1>3, LeftBit

LEMMA LoneStep ==
  ASSUME PushInv, PushInv', NEW w \in Workers, NEW s, Become(w, s), NEW d \in Devices,
         LoneFor(d), IsFiniteSet(Queued'),
         spent'.of["disconnect"] = 0 =>
           /\ spent.of["disconnect"] = 0
           /\ accepted'[d] + Left(d)' + Cardinality(Queued') + HandOf(s) + LonePayments
                <= accepted[d] + Left(d) + Cardinality(Queued) + HandOf(worker[w]) + LonePayments'
  PROVE  LoneFor(d)'
<1>1. /\ IsFiniteSet(Queued) /\ IsFiniteSet(Handling)
      /\ spent.of["disconnect"] = 0 =>
           accepted[d] + Left(d) + Cardinality(Queued) + Cardinality(Handling) <= 1 + LonePayments
  BY DEF LoneFor
<1>2. /\ IsFiniteSet(Handling') /\ Cardinality(Handling') \in Nat
      /\ Cardinality(Handling) \in Nat
      /\ Cardinality(Handling') + HandOf(worker[w]) = Cardinality(Handling) + HandOf(s)
  BY <1>1, HandMoves
<1>3. Cardinality(Queued) \in Nat /\ Cardinality(Queued') \in Nat
  BY <1>1, FS_CardinalityType
<1>4. /\ accepted[d] \in Nat /\ accepted'[d] \in Nat
      /\ LonePayments \in Nat /\ LonePayments' \in Nat
  BY CountsNat, PaymentsNat, CountsNatNext
<1>5. HandOf(s) \in Nat /\ HandOf(worker[w]) \in Nat /\ Left(d) \in Nat /\ Left(d)' \in Nat
  BY LeftBit DEF HandOf
<1>6. ASSUME spent'.of["disconnect"] = 0
      PROVE  accepted'[d] + Left(d)' + Cardinality(Queued') + Cardinality(Handling')
               <= 1 + LonePayments'
  <2>1. accepted[d] + Left(d) + Cardinality(Queued) + Cardinality(Handling) <= 1 + LonePayments
    BY <1>1, <1>6
  <2>2. accepted'[d] + Left(d)' + Cardinality(Queued') + HandOf(s) + LonePayments
          <= accepted[d] + Left(d) + Cardinality(Queued) + HandOf(worker[w]) + LonePayments'
    BY <1>6
  <2> QED BY <1>2, <1>3, <1>4, <1>5, <2>1, <2>2
<1> QED BY <1>2, <1>6 DEF LoneFor

\* The queue of reports is not touched.
LEMMA QueuedSame ==
  ASSUME \A event \in Events : ready'[event] = ready[event]
  PROVE  Queued' = Queued
BY DEF Queued

LEMMA HandBit ==
  ASSUME NEW o, NEW s, o # Idle
  PROVE  /\ HandOf(o) \in Nat /\ HandOf(s) \in Nat /\ HandOf(o) <= 1 /\ HandOf(s) <= 1
         /\ Thrown(o, s) => HandOf(s) <= HandOf(o)
         /\ HandOf(Idle) = 0
BY ThrownIsSingle DEF HandOf, Reports

LEMMA DeliverLone ==
  ASSUME PushInv, PushInv', Single, NEW w \in Workers, NEW cmd \in Command, Deliver(w, cmd),
         NEW d \in Devices, LoneFor(d)
  PROVE  LoneFor(d)'
<1>1. /\ worker[w] = Idle /\ ready[cmd] > 0 /\ ready[cmd] \in Nat
      /\ ready'[cmd] = ready[cmd] - 1
      /\ \A c \in Command \ {cmd} : ready'[c] = ready[c]
      /\ ready' = [ready EXCEPT ![cmd] = ready[cmd] - 1]
      /\ UNCHANGED <<push, accepted, spent>>
  BY DeliverShape
<1>2. PICK s : Become(w, s) /\ Starting(s, cmd, 0, TRUE)
  BY DeliverShape
<1>3. LonePayments' = LonePayments /\ LonePayments \in Nat /\ accepted[d] \in Nat
  BY <1>1, NoFaultPaysNothing, PaymentsNat, CountsNat
<1>4. HandOf(worker[w]) = 0
  BY <1>1 DEF HandOf, Reports
<1>5. IsFiniteSet(Queued)
  BY DEF LoneFor
<1>6. Left(d)' <= Left(d) /\ Left(d)' \in Nat /\ Left(d) \in Nat
  <2>1. ~SendsAgain(s, d)
    BY <1>2 DEF SendsAgain, Starting
  <2>2. Fresh(s) /\ Pending(push, d) => Again(d)
    BY <1>1, <1>2, AgainNow DEF Fresh, Sends, Starting
  <2>3. ready'[SendPush] > 0 => ready[SendPush] > 0
    BY <1>1, CommandsDiffer, CountsNat
  <2> QED BY <1>1, <1>2, <2>1, <2>2, <2>3, LeftStep, LeftBit
<1>7. CASE cmd = SendPush
  <2>1. Queued' = Queued
    BY <1>1, <1>7, CommandsDiffer, QueuedSame
  <2>2. HandOf(s) = 0
    BY <1>2, <1>7, CommandsDiffer DEF HandOf, Reports, Starting
  <2>3. Cardinality(Queued) \in Nat
    BY <1>5, FS_CardinalityType
  <2>4. accepted'[d] + Left(d)' + Cardinality(Queued') + HandOf(s) + LonePayments
          <= accepted[d] + Left(d) + Cardinality(Queued) + HandOf(worker[w]) + LonePayments'
    BY <1>1, <1>3, <1>4, <1>6, <2>1, <2>2, <2>3
  <2> QED BY <1>1, <1>2, <1>5, <2>1, <2>4, LoneStep
<1>8. CASE cmd # SendPush
  <2>1. cmd \in Events
    BY <1>8, CommandsDiffer
  <2>2. /\ IsFiniteSet(Queued') /\ Cardinality(Queued') + 1 = Cardinality(Queued)
        /\ Cardinality(Queued') \in Nat
    BY <1>1, <1>5, <2>1, QueuedLess
  <2>3. HandOf(s) = 1
    BY <1>2, <2>1 DEF HandOf, Reports, Starting
  <2>4. accepted'[d] + Left(d)' + Cardinality(Queued') + HandOf(s) + LonePayments
          <= accepted[d] + Left(d) + Cardinality(Queued) + HandOf(worker[w]) + LonePayments'
    BY <1>1, <1>3, <1>4, <1>6, <2>2, <2>3
  <2> QED BY <1>1, <1>2, <2>2, <2>4, LoneStep
<1> QED BY <1>7, <1>8

LEMMA ThrowLone ==
  ASSUME PushInv, PushInv', NEW w \in Workers, worker[w] # Idle, Throw(w), Fault("database"),
         UNCHANGED <<accepted, ready>>, NEW d \in Devices, LoneFor(d)
  PROVE  LoneFor(d)'
<1>1. PICK s : Become(w, s) /\ Thrown(worker[w], s)
  BY ThrowShape
<1>2. LonePayments' = LonePayments + 1 /\ LonePayments \in Nat /\ accepted[d] \in Nat
  BY FaultPays, PaymentsNat, CountsNat
<1>3. Queued' = Queued /\ IsFiniteSet(Queued)
  BY QueuedSame DEF LoneFor
<1>4. Cardinality(Queued) \in Nat
  BY <1>3, FS_CardinalityType
<1>5. /\ HandOf(s) <= HandOf(worker[w]) /\ HandOf(s) \in Nat /\ HandOf(worker[w]) \in Nat
      /\ Left(d)' \in Nat /\ Left(d) \in Nat /\ Left(d)' <= 1
  BY <1>1, HandBit, LeftBit
<1>6. spent'.of["disconnect"] = spent.of["disconnect"]
  BY DatabaseFault
<1>7. accepted'[d] + Left(d)' + Cardinality(Queued') + HandOf(s) + LonePayments
        <= accepted[d] + Left(d) + Cardinality(Queued) + HandOf(worker[w]) + LonePayments'
  BY <1>2, <1>3, <1>4, <1>5
<1> QED BY <1>1, <1>3, <1>6, <1>7, LoneStep

LEMMA CrashLone ==
  ASSUME PushInv, PushInv', NEW w \in Workers, Crash(w), NEW d \in Devices, LoneFor(d)
  PROVE  LoneFor(d)'
<1>1. /\ worker[w] # Idle /\ worker[w].cmd \in Command /\ Become(w, Idle)
      /\ Fault("crash") /\ UNCHANGED accepted
      /\ ready[worker[w].cmd] \in Nat
      /\ worker[w].held =>
           ready' = [ready EXCEPT ![worker[w].cmd] = ready[worker[w].cmd] + 1]
      /\ ~worker[w].held => ready' = ready
  BY CrashShape
<1>2. LonePayments' = LonePayments + 1 /\ LonePayments \in Nat /\ accepted[d] \in Nat
  BY <1>1, FaultPays, PaymentsNat, CountsNat
<1>3. spent'.of["disconnect"] = spent.of["disconnect"]
  <2>1. "disconnect" \in AllFaultKinds \ {"crash"}
    BY DEF AllFaultKinds
  <2> QED BY <1>1, <2>1, FaultCounts
<1>4. IsFiniteSet(Queued)
  BY DEF LoneFor
<1>5. /\ HandOf(Idle) = 0 /\ HandOf(worker[w]) \in Nat
      /\ Left(d)' \in Nat /\ Left(d) \in Nat /\ Left(d)' <= 1
  BY <1>1, HandBit, LeftBit
<1>6. CASE worker[w].cmd \in Events /\ worker[w].held
  <2>1. /\ IsFiniteSet(Queued') /\ Cardinality(Queued') = Cardinality(Queued) + 1
        /\ Cardinality(Queued) \in Nat
    BY <1>1, <1>4, <1>6, QueuedMore
  <2>2. HandOf(worker[w]) = 1
    BY <1>1, <1>6 DEF HandOf, Reports
  <2>3. accepted'[d] + Left(d)' + Cardinality(Queued') + HandOf(Idle) + LonePayments
          <= accepted[d] + Left(d) + Cardinality(Queued) + HandOf(worker[w]) + LonePayments'
    BY <1>1, <1>2, <1>5, <2>1, <2>2
  <2> QED BY <1>1, <1>3, <2>1, <2>3, LoneStep
<1>7. CASE ~(worker[w].cmd \in Events /\ worker[w].held)
  <2>1. \A event \in Events : ready'[event] = ready[event]
    <3>1. ready \in [Command -> Nat]
      BY DEF PushInv, TypeOK
    <3> QED BY <1>1, <1>7, <3>1, CommandsDiffer
  <2>2. Queued' = Queued
    BY <2>1, QueuedSame
  <2>3. Cardinality(Queued) \in Nat
    BY <1>4, FS_CardinalityType
  <2>4. accepted'[d] + Left(d)' + Cardinality(Queued') + HandOf(Idle) + LonePayments
          <= accepted[d] + Left(d) + Cardinality(Queued) + HandOf(worker[w]) + LonePayments'
    BY <1>1, <1>2, <1>5, <2>2, <2>3
  <2> QED BY <1>1, <1>3, <1>4, <2>2, <2>4, LoneStep
<1> QED BY <1>6, <1>7

LEMMA DisconnectLone ==
  ASSUME PushInv, PushInv', NEW w \in Workers, Disconnect(w), NEW d \in Devices, LoneFor(d)
  PROVE  LoneFor(d)'
<1>1. /\ worker[w].cmd \in Command
      /\ ready' = [ready EXCEPT ![worker[w].cmd] = ready[worker[w].cmd] + 1]
      /\ spent'.of["disconnect"] # 0
  BY DisconnectShape
<1>2. PICK s : Become(w, s)
  BY DisconnectShape
<1>3. IsFiniteSet(Queued)
  BY DEF LoneFor
<1>4. IsFiniteSet(Queued')
  <2>1. CASE worker[w].cmd \in Events
    BY <1>1, <1>3, <2>1, QueuedMore
  <2>2. CASE worker[w].cmd \notin Events
    <3>1. ready \in [Command -> Nat]
      BY DEF PushInv, TypeOK
    <3>2. \A event \in Events : ready'[event] = ready[event]
      BY <1>1, <2>2, <3>1, CommandsDiffer
    <3> QED BY <1>3, <3>2, QueuedSame
  <2> QED BY <2>1, <2>2
<1> QED BY <1>1, <1>2, <1>4, LoneStep

LEMMA LoadPushLone ==
  ASSUME PushInv, PushInv', NEW w \in Workers, LoadPush(w), NEW d \in Devices, LoneFor(d)
  PROVE  LoneFor(d)'
<1>1. /\ Sends(worker[w]) /\ worker[w].step = "load" /\ worker[w] # Idle
      /\ UNCHANGED <<push, ready, accepted, spent>>
  BY LoadPushShape
<1>2. PICK s : Become(w, s) /\ Loaded(worker[w], s)
  BY LoadPushShape
<1>3. LonePayments' = LonePayments /\ LonePayments \in Nat /\ accepted[d] \in Nat
  BY <1>1, NoFaultPaysNothing, PaymentsNat, CountsNat
<1>4. Queued' = Queued /\ IsFiniteSet(Queued)
  BY <1>1, QueuedSame DEF LoneFor
<1>5. Cardinality(Queued) \in Nat
  BY <1>4, FS_CardinalityType
<1>6. HandOf(s) = 0 /\ HandOf(worker[w]) = 0
  BY <1>1, <1>2, CommandsDiffer DEF Loaded, HandOf, Reports, Sends
<1>7. Left(d)' <= Left(d) /\ Left(d)' \in Nat /\ Left(d) \in Nat
  <2>1. ASSUME SendsAgain(s, d) PROVE Again(d)
    <3>1. Pending(s.snap, d)
      BY <2>1 DEF SendsAgain
    <3>2. Pending(push, d)
      BY <1>2, <3>1 DEF Loaded
    <3> QED BY <1>1, <3>2, AgainNow DEF Fresh
  <2>2. ~Fresh(s)
    BY <1>2 DEF Loaded, Fresh
  <2> QED BY <1>1, <1>2, <2>1, <2>2, LeftStep, LeftBit
<1>8. accepted'[d] + Left(d)' + Cardinality(Queued') + HandOf(s) + LonePayments
        <= accepted[d] + Left(d) + Cardinality(Queued) + HandOf(worker[w]) + LonePayments'
  BY <1>1, <1>3, <1>4, <1>5, <1>6, <1>7
<1> QED BY <1>1, <1>2, <1>4, <1>8, LoneStep

\* What a gateway accepted is not pending any more in the copy of the only
\* consumer; what threw is, and is sent by the next attempt.
LEMMA CallGatewayLone ==
  ASSUME PushInv, PushInv', Single, Same, NEW w \in Workers, NEW x \in Devices,
         CallGateway(w, x), NEW d \in Devices, LoneFor(d)
  PROVE  LoneFor(d)'
<1>1. /\ worker[w] # Idle /\ worker[w].step = "send" /\ x \in worker[w].todo
      /\ UNCHANGED <<push, ready>>
  BY DEF CallGateway, At
<1>2. PICK s : /\ Become(w, s) /\ RoundOf(worker[w], s, x)
               /\ Answered(s, x) \/ Raised(worker[w], s, x)
  BY RoundShape
<1>3. Sends(worker[w]) /\ worker[w].cmd = SendPush /\ Pending(worker[w].snap, x)
  BY <1>1 DEF Same, SameCopy, Sends
<1>4. /\ s # Idle /\ s.step = "send" /\ s.cmd = SendPush
      /\ \A e \in Devices \ {x} : s.snap.jobs[e] = worker[w].snap.jobs[e]
  BY <1>2, <1>3 DEF RoundOf
<1>5. HandOf(s) = 0 /\ HandOf(worker[w]) = 0
  BY <1>3, <1>4, CommandsDiffer DEF HandOf, Reports
<1>6. Queued' = Queued /\ IsFiniteSet(Queued)
  BY <1>1, QueuedSame DEF LoneFor
<1>7. Cardinality(Queued) \in Nat
  BY <1>6, FS_CardinalityType
<1>8. accepted[d] \in Nat /\ Left(d) \in Nat /\ Left(d)' \in Nat /\ Left(d)' <= 1 /\ Left(d) <= 1
  BY CountsNat, LeftBit
<1>9. spent'.of["disconnect"] = spent.of["disconnect"]
  BY <1>2, RoundFaults
<1>10. LonePayments \in Nat /\ (LonePayments' = LonePayments \/ LonePayments' = LonePayments + 1)
  BY <1>2, RoundPays
<1>11. ~Fresh(s)
  BY <1>4 DEF Fresh
<1>12. ASSUME spent.of["disconnect"] = 0
       PROVE  accepted'[d] + Left(d)' + LonePayments <= accepted[d] + Left(d) + LonePayments'
  <2>1. CASE d # x
    <3>1. accepted'[d] = accepted[d]
      <4>1. Accept(x) \/ UNCHANGED accepted
        BY <1>2 DEF Answered, Raised
      <4> QED BY <2>1, <4>1, AcceptOne
    <3>2. SendsAgain(s, d) => SendsAgain(worker[w], d)
      BY <1>1, <1>3, <1>4, <2>1 DEF SendsAgain, Pending
    <3>3. SendsAgain(s, d) => Again(d)
      BY <3>2, AgainNow
    <3>4. Left(d)' <= Left(d)
      BY <1>1, <1>2, <1>3, <1>11, <1>12, <3>3, LeftAlone
    <3> QED BY <1>8, <1>10, <3>1, <3>4
  <2>2. CASE d = x
    <3>1. Left(d) = 1
      BY <1>1, <1>3, <2>2, AgainNow, LeftBit DEF SendsAgain
    <3>2. CASE Answered(s, x)
      <4>1. ~SendsAgain(s, d)
        BY <2>2, <3>2 DEF Answered, SentOf, SendsAgain, Pending
      <4>2. ~Again(d)'
        <5>1. SUFFICES ASSUME Again(d)' PROVE FALSE
          OBVIOUS
        <5>2. /\ \A v \in Workers \ {w} : ~SendsAgain(worker[v], d) /\ ~Fresh(worker[v])
              /\ ready[SendPush] # 1 /\ ready[SendPush] <= 1 /\ ready[SendPush] \in Nat
          BY <1>3, <1>12, CountsNat DEF Single, SendsAgain, Fresh
        <5> QED BY <1>1, <1>2, <1>11, <4>1, <5>1, <5>2, AgainMoves
      <4>3. Left(d)' = 0
        BY <4>2, LeftBit
      <4>4. accepted'[d] = accepted[d] \/ accepted'[d] = accepted[d] + 1
        BY <2>2, <3>2, AcceptOne DEF Answered
      <4> QED BY <1>8, <1>10, <3>1, <4>3, <4>4
    <3>3. CASE Raised(worker[w], s, x)
      <4>1. UNCHANGED accepted \/ (Accept(x) /\ LonePayments' = LonePayments + 1)
        BY <3>3, RaisedPays
      <4>2. CASE UNCHANGED accepted
        BY <1>8, <1>10, <3>1, <4>2
      <4>3. CASE Accept(x) /\ LonePayments' = LonePayments + 1
        <5>1. accepted'[d] = accepted[d] + 1
          BY <2>2, <4>3, AcceptOne
        <5> QED BY <1>8, <1>10, <3>1, <4>3, <5>1
      <4> QED BY <4>1, <4>2, <4>3
    <3> QED BY <1>2, <3>2, <3>3
  <2> QED BY <2>1, <2>2
<1>13. ASSUME spent.of["disconnect"] = 0
       PROVE  accepted'[d] + Left(d)' + Cardinality(Queued') + HandOf(s) + LonePayments
                <= accepted[d] + Left(d) + Cardinality(Queued) + HandOf(worker[w]) + LonePayments'
  <2>1. accepted'[d] \in Nat /\ LonePayments' \in Nat
    BY CountsNatNext
  <2> QED BY <1>5, <1>6, <1>7, <1>8, <1>10, <1>12, <1>13, <2>1
<1> QED BY <1>2, <1>6, <1>9, <1>13, LoneStep

LEMMA SavePushLone ==
  ASSUME PushInv, PushInv', Single, Same, NEW w \in Workers, SavePush(w),
         NEW d \in Devices, LoneFor(d)
  PROVE  LoneFor(d)'
<1>1. /\ worker[w] # Idle /\ worker[w].step = "send" /\ UNCHANGED <<ready, accepted>>
  BY DEF SavePush, At
<1>2. Sends(worker[w]) /\ worker[w].cmd = SendPush
  BY <1>1 DEF Same, SameCopy, Sends
<1>3. ASSUME push' = worker[w].snap, UNCHANGED spent, NEW s, Become(w, s),
             s = Idle \/ Thrown(worker[w], s)
      PROVE  LoneFor(d)'
  <2>1. HandOf(s) = 0 /\ HandOf(worker[w]) = 0
    BY <1>2, <1>3, CommandsDiffer DEF HandOf, Reports, Thrown, Starting
  <2>2. ~SendsAgain(s, d)
    BY <1>3 DEF SendsAgain, Sends, Thrown, Starting
  <2>3. Fresh(s) /\ Pending(push', d) => Again(d)
    BY <1>1, <1>2, <1>3, AgainNow DEF SendsAgain
  <2>4. spent.of["disconnect"] = 0 => Left(d)' <= Left(d)
    BY <1>1, <1>2, <1>3, <2>2, <2>3, LeftAlone
  <2>5. LonePayments' = LonePayments /\ LonePayments \in Nat /\ accepted[d] \in Nat
        /\ Left(d) \in Nat /\ Left(d)' \in Nat
    BY <1>3, NoFaultPaysNothing, PaymentsNat, CountsNat, LeftBit
  <2>6. Queued' = Queued /\ IsFiniteSet(Queued)
    BY <1>1, QueuedSame DEF LoneFor
  <2>7. Cardinality(Queued) \in Nat
    BY <2>6, FS_CardinalityType
  <2>8. spent.of["disconnect"] = 0 =>
          accepted'[d] + Left(d)' + Cardinality(Queued') + HandOf(s) + LonePayments
            <= accepted[d] + Left(d) + Cardinality(Queued) + HandOf(worker[w]) + LonePayments'
    BY <1>1, <2>1, <2>4, <2>5, <2>6, <2>7
  <2> QED BY <1>3, <2>6, <2>8, LoneStep
<1>4. CASE /\ push' = worker[w].snap
           /\ IF Unfinished(worker[w].snap) THEN Throw(w) ELSE Ack(w)
           /\ UNCHANGED spent
  <2>1. CASE Throw(w)
    <3>1. PICK s : Become(w, s) /\ Thrown(worker[w], s)
      BY <1>1, <2>1, ThrowShape
    <3> QED BY <1>3, <1>4, <3>1
  <2>2. CASE Ack(w)
    BY <1>3, <1>4, <2>2 DEF Ack
  <2> QED BY <1>4, <2>1, <2>2
<1>5. CASE Fault("database") /\ Throw(w)
  BY <1>1, <1>5, ThrowLone
<1> QED BY <1>4, <1>5 DEF SavePush

LEMMA LoadEventLone ==
  ASSUME PushInv, PushInv', Same, NEW w \in Workers, LoadEvent(w), NEW d \in Devices, LoneFor(d)
  PROVE  LoneFor(d)'
<1>1. /\ Reports(worker[w]) /\ worker[w] # Idle /\ UNCHANGED <<push, ready, accepted, spent>>
  BY LoadEventShape
<1>2. PICK s : Become(w, s) /\ (Thrown(worker[w], s) \/ (s # Idle /\ s.cmd = worker[w].cmd))
  BY LoadEventShape
<1>3. LonePayments' = LonePayments /\ LonePayments \in Nat /\ accepted[d] \in Nat
  BY <1>1, NoFaultPaysNothing, PaymentsNat, CountsNat
<1>4. Queued' = Queued /\ IsFiniteSet(Queued)
  BY <1>1, QueuedSame DEF LoneFor
<1>5. Cardinality(Queued) \in Nat
  BY <1>4, FS_CardinalityType
<1>6. HandOf(s) \in Nat /\ HandOf(s) <= 1 /\ HandOf(worker[w]) = 1
  BY <1>1 DEF HandOf
<1>7. Left(d)' <= Left(d) /\ Left(d)' \in Nat /\ Left(d) \in Nat
  <2>1. s = Idle \/ s.cmd \in Events
    BY <1>1, <1>2 DEF Reports, Thrown, Starting
  <2>2. ~SendsAgain(s, d) /\ ~Fresh(s)
    BY <2>1, CommandsDiffer DEF SendsAgain, Fresh, Sends
  <2> QED BY <1>1, <1>2, <2>2, LeftStep, LeftBit
<1>8. accepted'[d] + Left(d)' + Cardinality(Queued') + HandOf(s) + LonePayments
        <= accepted[d] + Left(d) + Cardinality(Queued) + HandOf(worker[w]) + LonePayments'
  BY <1>1, <1>3, <1>4, <1>5, <1>6, <1>7
<1> QED BY <1>1, <1>2, <1>4, <1>8, LoneStep

\* A report that saves its copy may undo what a consumer saved: once.
LEMMA SaveEventLone ==
  ASSUME PushInv, PushInv', Same, NEW w \in Workers, SaveEvent(w), NEW d \in Devices, LoneFor(d)
  PROVE  LoneFor(d)'
<1>1. worker[w] # Idle /\ worker[w].step = "save" /\ UNCHANGED <<ready, accepted>>
  BY DEF SaveEvent, At
<1>2. worker[w].cmd \in Events
  BY <1>1 DEF Same, SameCopy
<1>3. CASE Ack(w) /\ UNCHANGED spent
  <2>1. Become(w, Idle) /\ LonePayments' = LonePayments
    BY <1>3, NoFaultPaysNothing DEF Ack
  <2>2. HandOf(Idle) = 0 /\ HandOf(worker[w]) = 1
    BY <1>1, <1>2 DEF HandOf, Reports
  <2>3. Queued' = Queued /\ IsFiniteSet(Queued)
    BY <1>1, QueuedSame DEF LoneFor
  <2>4. Cardinality(Queued) \in Nat
    BY <2>3, FS_CardinalityType
  <2>5. LonePayments \in Nat /\ accepted[d] \in Nat
        /\ Left(d) \in Nat /\ Left(d)' \in Nat /\ Left(d)' <= 1
    BY PaymentsNat, CountsNat, LeftBit
  <2>6. accepted'[d] + Left(d)' + Cardinality(Queued') + HandOf(Idle) + LonePayments
          <= accepted[d] + Left(d) + Cardinality(Queued) + HandOf(worker[w]) + LonePayments'
    BY <1>1, <2>1, <2>2, <2>3, <2>4, <2>5
  <2> QED BY <1>3, <2>1, <2>3, <2>6, LoneStep
<1>4. CASE Fault("database") /\ Throw(w)
  BY <1>1, <1>4, ThrowLone
<1> QED BY <1>3, <1>4 DEF SaveEvent

LEMMA ReportEventLone ==
  ASSUME PushInv, PushInv', NEW event \in Events, ReportEvent(event), NEW d \in Devices,
         LoneFor(d)
  PROVE  LoneFor(d)'
<1>1. /\ UNCHANGED <<push, worker, accepted>> /\ ready'[SendPush] = ready[SendPush]
      /\ ready' = [ready EXCEPT ![event] = ready[event] + 1]
      /\ spent'.of = spent.of /\ spent'.events = spent.events + 1
  BY ReportEventShape
<1>2. Handling' = Handling
  BY <1>1 DEF Handling, Reports
<1>3. Left(d)' = Left(d)
  BY <1>1 DEF Left, Again, Sends, Pending
<1>4. /\ IsFiniteSet(Queued) /\ IsFiniteSet(Handling)
      /\ spent.of["disconnect"] = 0 =>
           accepted[d] + Left(d) + Cardinality(Queued) + Cardinality(Handling) <= 1 + LonePayments
  BY DEF LoneFor
<1>5. /\ IsFiniteSet(Queued') /\ Cardinality(Queued') = Cardinality(Queued) + 1
      /\ Cardinality(Queued) \in Nat
  BY <1>1, <1>4, QueuedMore
<1>6. Cardinality(Handling) \in Nat /\ accepted[d] \in Nat /\ Left(d) \in Nat
  BY <1>4, FS_CardinalityType, CountsNat, LeftBit
<1>7. LonePayments' = LonePayments + 1 /\ LonePayments \in Nat
  <2>1. /\ spent.of["database"] \in Nat /\ spent.of["lostAnswer"] \in Nat
        /\ spent.of["crash"] \in Nat /\ spent.events \in Nat
    BY PaymentsNat DEF AllFaultKinds
  <2> QED BY <1>1, <2>1 DEF LonePayments
<1>8. spent'.of["disconnect"] = 0 =>
        accepted'[d] + Left(d)' + Cardinality(Queued') + Cardinality(Handling')
          <= 1 + LonePayments'
  BY <1>1, <1>2, <1>3, <1>4, <1>5, <1>6, <1>7
<1> QED BY <1>2, <1>4, <1>5, <1>8 DEF LoneFor

-----------------------------------------------------------------------------
(* No attempt is lost                                                      *)

LEMMA TryingVacuous ==
  ASSUME spent'.events # 0
  PROVE  Trying'
BY DEF Trying

LEMMA NoReporter ==
  ASSUME Trying, NEW w \in Workers, Reports(worker[w])
  PROVE  spent.events # 0
BY DEF Trying

\* The only consumer that sends moves on.
LEMMA TryingStep ==
  ASSUME PushInv, Single, Trying, NEW w \in Workers, Sends(worker[w]), NEW s, Become(w, s),
         ready' = ready, spent'.events = spent.events,
         spent'.of["disconnect"] = spent.of["disconnect"],
         s = Idle \/ Sends(s),
         TriedBy(push, worker[w], spent.of["database"]) /\ Sends(s) =>
           TriedBy(push', s, spent'.of["database"]),
         TriedBy(push, worker[w], spent.of["database"]) /\ s = Idle =>
           AllTried(push', spent'.of["database"])
  PROVE  Trying'
<1>1. worker'[w] = s /\ \A v \in Workers \ {w} : worker'[v] = worker[v]
  BY Becoming
<1>2. ASSUME spent.events = 0
      PROVE  /\ \A event \in Events : ready'[event] = 0
             /\ \A v \in Workers : ~Reports(worker'[v])
  <2>1. ~Reports(s)
    BY CommandsDiffer DEF Reports, Sends
  <2> QED BY <1>1, <1>2, <2>1 DEF Trying
<1>3. ASSUME spent.events = 0, spent.of["disconnect"] = 0
      PROVE  /\ \A v \in Workers : Sends(worker'[v]) =>
                  TriedBy(push', worker'[v], spent'.of["database"])
             /\ ready'[SendPush] = 0 /\ (\A v \in Workers : ~Sends(worker'[v])) =>
                  AllTried(push', spent'.of["database"])
  <2>1. TriedBy(push, worker[w], spent.of["database"])
    BY <1>3 DEF Trying
  <2>2. \A v \in Workers \ {w} : ~Sends(worker'[v])
    BY <1>1, <1>3 DEF Single
  <2> QED BY <1>1, <2>1, <2>2
<1>4. /\ \A v \in Workers : Sends(worker[v])' <=> Sends(worker'[v])
      /\ \A v \in Workers : Reports(worker[v])' <=> Reports(worker'[v])
      /\ \A v \in Workers : TriedBy(push, worker[v], spent.of["database"])'
                              <=> TriedBy(push', worker'[v], spent'.of["database"])
      /\ AllTried(push, spent.of["database"])' <=> AllTried(push', spent'.of["database"])
  BY DEF Sends, Reports, TriedBy, Tried, AllTried
<1> QED BY <1>2, <1>3, <1>4 DEF Trying

\* A throw begins the next attempt, or gives up after the last one.
LEMMA ThrownTried ==
  ASSUME PushInv, NEW o \in Busy, NEW s, Thrown(o, s), NEW p, NEW db,
         \A d \in Devices : Tried(p.jobs[d], o.attempt + 1, db)
  PROVE  /\ Sends(s) => TriedBy(p, s, db)
         /\ s = Idle => AllTried(p, db)
<1>1. CASE s = Idle /\ o.attempt = MaxAttempts
  BY <1>1 DEF Sends, AllTried
<1>2. CASE Starting(s, o.cmd, o.attempt + 1, o.held)
  BY <1>2 DEF Starting, TriedBy
<1> QED BY <1>1, <1>2 DEF Thrown

LEMMA JobsTyped ==
  ASSUME NEW p \in PushNotification
  PROVE  \A d \in Devices : p.jobs[d].retry \in Nat
BY DEF PushNotification, PushNotificationJob

\* An attempt that the database failed need not have failed the jobs.
LEMMA FaultTried ==
  ASSUME NEW j, j.retry \in Nat, NEW n \in Nat, NEW db \in Nat, Tried(j, n, db)
  PROVE  Tried(j, n + 1, db + 1)
BY DEF Tried

LEMMA ThrowTrying ==
  ASSUME PushInv, Single, Trying, NEW w \in Workers, worker[w] # Idle, Throw(w),
         Fault("database"), UNCHANGED <<push, ready>>
  PROVE  Trying'
<1>1. /\ spent'.of["disconnect"] = spent.of["disconnect"] /\ spent'.events = spent.events
      /\ spent'.of["database"] = spent.of["database"] + 1
  BY DatabaseFault
<1>2. CASE Reports(worker[w])
  BY <1>1, <1>2, NoReporter, TryingVacuous
<1>3. CASE ~Reports(worker[w])
  <2>1. worker[w] \in Busy /\ worker[w].cmd \in Command
    BY BusyFacts
  <2>2. Sends(worker[w])
    BY <1>3, <2>1, CommandsDiffer DEF Reports, Sends
  <2>3. PICK s : Become(w, s) /\ Thrown(worker[w], s)
    BY ThrowShape
  <2>4. s = Idle \/ Sends(s)
    BY <2>2, <2>3 DEF Thrown, Starting, Sends
  <2>5. ASSUME TriedBy(push, worker[w], spent.of["database"])
        PROVE  /\ Sends(s) => TriedBy(push', s, spent'.of["database"])
               /\ s = Idle => AllTried(push', spent'.of["database"])
    <3>1. \A d \in Devices : Tried(push.jobs[d], worker[w].attempt, spent.of["database"])
      BY <2>5 DEF TriedBy
    <3>2. /\ \A d \in Devices : push.jobs[d].retry \in Nat
          /\ worker[w].attempt \in Nat /\ spent.of["database"] \in Nat
      BY <2>1, PushAssumption, JobsTyped, PaymentsNat DEF PushInv, TypeOK, Busy, AllFaultKinds
    <3>3. \A d \in Devices : Tried(push.jobs[d], worker[w].attempt + 1, spent.of["database"] + 1)
      BY <3>1, <3>2, FaultTried
    <3>4. \A d \in Devices : Tried(push'.jobs[d], worker[w].attempt + 1, spent'.of["database"])
      BY <1>1, <3>3
    <3> QED BY <2>1, <2>3, <3>4, ThrownTried
  <2> QED BY <1>1, <2>2, <2>3, <2>4, <2>5, TryingStep
<1> QED BY <1>2, <1>3

LEMMA DeliverTrying ==
  ASSUME PushInv, Trying, NEW w \in Workers, NEW cmd \in Command, Deliver(w, cmd)
  PROVE  Trying'
<1>1. /\ worker[w] = Idle /\ ready[cmd] > 0
      /\ \A c \in Command \ {cmd} : ready'[c] = ready[c]
      /\ UNCHANGED <<push, spent>>
  BY DeliverShape
<1>2. PICK s : Become(w, s) /\ Starting(s, cmd, 0, TRUE)
  BY DeliverShape
<1>3. CASE spent.events # 0
  BY <1>1, <1>3, TryingVacuous
<1>4. CASE spent.events = 0
  <2>1. \A event \in Events : ready[event] = 0
    BY <1>4 DEF Trying
  <2>2. cmd = SendPush
    BY <1>1, <2>1, CommandsDiffer
  <2>3. worker'[w] = s /\ \A v \in Workers \ {w} : worker'[v] = worker[v]
    BY <1>2, Becoming
  <2>4. Sends(s) /\ ~Reports(s)
    BY <1>2, <2>2, CommandsDiffer DEF Starting, Sends, Reports
  <2>5. /\ \A event \in Events : ready'[event] = 0
        /\ \A v \in Workers : ~Reports(worker'[v])
    BY <1>1, <1>4, <2>1, <2>2, <2>3, <2>4, CommandsDiffer DEF Trying
  <2>6. TriedBy(push, s, spent.of["database"])
    <3>1. /\ \A d \in Devices : push.jobs[d].retry \in Nat
          /\ spent.of["database"] \in Nat
      BY JobsTyped, PaymentsNat DEF PushInv, TypeOK, AllFaultKinds
    <3>2. \A n, db \in Nat : n + db >= 0
      OBVIOUS
    <3>3. \A d \in Devices : push.jobs[d].retry + spent.of["database"] >= 0
      BY <3>1, <3>2
    <3> QED BY <1>2, <3>3 DEF TriedBy, Tried, Starting
  <2>7. ASSUME spent.of["disconnect"] = 0
        PROVE  \A v \in Workers : Sends(worker'[v]) =>
                 TriedBy(push, worker'[v], spent.of["database"])
    BY <1>4, <2>3, <2>6, <2>7 DEF Trying
  <2>8. ~(\A v \in Workers : ~Sends(worker'[v]))
    BY <2>3, <2>4
  <2>9. /\ \A v \in Workers : Sends(worker[v])' <=> Sends(worker'[v])
        /\ \A v \in Workers : Reports(worker[v])' <=> Reports(worker'[v])
        /\ \A v \in Workers : TriedBy(push, worker[v], spent.of["database"])'
                                <=> TriedBy(push, worker'[v], spent.of["database"])
    BY <1>1 DEF Sends, Reports, TriedBy, Tried
  <2> QED BY <1>1, <2>5, <2>7, <2>8, <2>9 DEF Trying
<1> QED BY <1>3, <1>4

\* The delivery of a consumer that dies comes back, so nothing is at rest.
LEMMA CrashTrying ==
  ASSUME PushInv, Single, Trying, NEW w \in Workers, Crash(w)
  PROVE  Trying'
<1>1. /\ worker[w] # Idle /\ worker[w].cmd \in Command /\ Become(w, Idle)
      /\ Fault("crash") /\ UNCHANGED push
      /\ ready[worker[w].cmd] \in Nat
      /\ worker[w].held =>
           ready' = [ready EXCEPT ![worker[w].cmd] = ready[worker[w].cmd] + 1]
      /\ ~worker[w].held => ready' = ready
  BY CrashShape
<1>2. /\ spent'.of["disconnect"] = spent.of["disconnect"] /\ spent'.events = spent.events
      /\ spent'.of["database"] = spent.of["database"]
  <2>1. {"disconnect", "database"} \subseteq AllFaultKinds \ {"crash"}
    BY DEF AllFaultKinds
  <2> QED BY <1>1, <2>1, FaultCounts
<1>3. CASE spent.events # 0
  BY <1>2, <1>3, TryingVacuous
<1>4. CASE spent.events = 0
  <2>1. /\ \A event \in Events : ready[event] = 0
        /\ \A v \in Workers : ~Reports(worker[v])
    BY <1>4 DEF Trying
  <2>2. worker[w].cmd = SendPush
    BY <1>1, <2>1, CommandsDiffer DEF Reports
  <2>3. worker'[w] = Idle /\ \A v \in Workers \ {w} : worker'[v] = worker[v]
    BY <1>1, Becoming
  <2>4. ready \in [Command -> Nat]
    BY DEF PushInv, TypeOK
  <2>5. /\ \A event \in Events : ready'[event] = 0
        /\ \A v \in Workers : ~Reports(worker'[v])
    BY <1>1, <2>1, <2>2, <2>3, <2>4, CommandsDiffer DEF Reports
  <2>6. ASSUME spent.of["disconnect"] = 0
        PROVE  /\ \A v \in Workers : ~Sends(worker'[v])
               /\ ready'[SendPush] # 0
    <3>1. worker[w].held /\ \A v \in Workers \ {w} : ~Sends(worker[v])
      BY <1>1, <2>2, <2>6 DEF Single, Sends
    <3>2. ready'[SendPush] = ready[SendPush] + 1 /\ ready[SendPush] \in Nat
      BY <1>1, <2>2, <2>4, <3>1
    <3> QED BY <2>3, <3>1, <3>2 DEF Sends
  <2>7. /\ \A v \in Workers : Sends(worker[v])' <=> Sends(worker'[v])
        /\ \A v \in Workers : Reports(worker[v])' <=> Reports(worker'[v])
    BY DEF Sends, Reports
  <2> QED BY <1>2, <2>5, <2>6, <2>7 DEF Trying
<1> QED BY <1>3, <1>4

LEMMA DisconnectTrying ==
  ASSUME PushInv, Trying, NEW w \in Workers, Disconnect(w)
  PROVE  Trying'
<1>1. /\ worker[w] # Idle /\ worker[w].cmd \in Command
      /\ ready' = [ready EXCEPT ![worker[w].cmd] = ready[worker[w].cmd] + 1]
      /\ spent'.of["disconnect"] # 0 /\ spent'.events = spent.events
  BY DisconnectShape
<1>2. PICK s : Become(w, s) /\ s # Idle /\ s.cmd = worker[w].cmd
  BY DisconnectShape
<1>3. CASE spent.events # 0
  BY <1>1, <1>3, TryingVacuous
<1>4. CASE spent.events = 0
  <2>1. /\ \A event \in Events : ready[event] = 0
        /\ \A v \in Workers : ~Reports(worker[v])
    BY <1>4 DEF Trying
  <2>2. worker[w].cmd = SendPush
    BY <1>1, <2>1, CommandsDiffer DEF Reports
  <2>3. worker'[w] = s /\ \A v \in Workers \ {w} : worker'[v] = worker[v]
    BY <1>2, Becoming
  <2>4. ready \in [Command -> Nat]
    BY DEF PushInv, TypeOK
  <2>5. /\ \A event \in Events : ready'[event] = 0
        /\ \A v \in Workers : ~Reports(worker'[v])
    BY <1>1, <1>2, <2>1, <2>2, <2>3, <2>4, CommandsDiffer DEF Reports
  <2>6. \A v \in Workers : Reports(worker[v])' <=> Reports(worker'[v])
    BY DEF Reports
  <2> QED BY <1>1, <2>5, <2>6 DEF Trying
<1> QED BY <1>3, <1>4

LEMMA LoadPushTrying ==
  ASSUME PushInv, Single, Trying, NEW w \in Workers, LoadPush(w)
  PROVE  Trying'
<1>1. /\ Sends(worker[w]) /\ worker[w].step = "load" /\ worker[w] # Idle
      /\ UNCHANGED <<push, ready, spent>>
  BY LoadPushShape
<1>2. PICK s : Become(w, s) /\ Loaded(worker[w], s)
  BY LoadPushShape
<1>3. Sends(s) /\ s # Idle
  BY <1>2 DEF Loaded, Sends
<1>4. /\ \A d \in Devices : push.jobs[d].retry \in Nat
      /\ worker[w].attempt \in Nat /\ spent.of["database"] \in Nat
  <2>1. worker[w] \in Busy
    BY <1>1, BusyFacts
  <2> QED BY <2>1, PushAssumption, JobsTyped, PaymentsNat
          DEF PushInv, TypeOK, Busy, AllFaultKinds
<1>5. ASSUME TriedBy(push, worker[w], spent.of["database"])
      PROVE  TriedBy(push, s, spent.of["database"])
  <2> SUFFICES ASSUME NEW d \in Devices
               PROVE  /\ Tried(push.jobs[d], s.attempt, spent.of["database"])
                      /\ s.step = "send" /\ d \in s.todo =>
                           s.snap.jobs[d].retry + spent.of["database"] >= s.attempt
                      /\ s.step = "send" /\ d \notin s.todo =>
                           Tried(s.snap.jobs[d], s.attempt + 1, spent.of["database"])
    BY DEF TriedBy
  <2>1. Tried(push.jobs[d], worker[w].attempt, spent.of["database"])
    BY <1>5 DEF TriedBy
  <2>2. s.attempt = worker[w].attempt
    BY <1>2 DEF Loaded
  <2>3. CASE s.todo = {} /\ \A e \in Devices : ~Pending(s.snap, e)
    BY <2>1, <2>2, <2>3 DEF Tried, Pending
  <2>4. CASE s.snap = push /\ s.todo = Todo(push)
    <3>1. d \in s.todo <=> push.jobs[d].status = "Pending" /\ push.jobs[d].retry < 3
      BY <2>4 DEF Todo
    <3> QED BY <1>4, <2>1, <2>2, <2>4, <3>1 DEF Tried
  <2> QED BY <1>2, <2>3, <2>4 DEF Loaded
<1> QED BY <1>1, <1>2, <1>3, <1>5, TryingStep

LEMMA CallGatewayTrying ==
  ASSUME PushInv, Single, Same, Trying, NEW w \in Workers, NEW x \in Devices, CallGateway(w, x)
  PROVE  Trying'
<1>1. /\ worker[w] # Idle /\ worker[w].step = "send" /\ x \in worker[w].todo
      /\ UNCHANGED <<push, ready>>
  BY DEF CallGateway, At
<1>2. PICK s : /\ Become(w, s) /\ RoundOf(worker[w], s, x)
               /\ Answered(s, x) \/ Raised(worker[w], s, x)
  BY RoundShape
<1>3. Sends(worker[w]) /\ Pending(worker[w].snap, x)
  BY <1>1 DEF Same, SameCopy, Sends
<1>4. /\ s # Idle /\ s.step = "send" /\ s.cmd = worker[w].cmd /\ s.attempt = worker[w].attempt
      /\ s.todo = worker[w].todo \ {x}
      /\ \A e \in Devices \ {x} : s.snap.jobs[e] = worker[w].snap.jobs[e]
  BY <1>2 DEF RoundOf
<1>5. Sends(s) /\ s # Idle
  BY <1>3, <1>4 DEF Sends
<1>6. /\ spent'.of["disconnect"] = spent.of["disconnect"] /\ spent'.events = spent.events
      /\ spent'.of["database"] = spent.of["database"]
  BY <1>2, RoundFaults
<1>7. /\ worker[w].snap.jobs[x].retry \in Nat /\ worker[w].attempt \in Nat
      /\ spent.of["database"] \in Nat
  <2>1. worker[w] \in Busy /\ worker[w].snap \in PushNotification
    BY <1>1, BusyFacts DEF GoodWorker, HasSnap
  <2> QED BY <2>1, PushAssumption, JobsTyped, PaymentsNat DEF Busy, AllFaultKinds
<1>8. ASSUME TriedBy(push, worker[w], spent.of["database"])
      PROVE  TriedBy(push, s, spent.of["database"])
  <2> SUFFICES ASSUME NEW d \in Devices
               PROVE  /\ Tried(push.jobs[d], s.attempt, spent.of["database"])
                      /\ s.step = "send" /\ d \in s.todo =>
                           s.snap.jobs[d].retry + spent.of["database"] >= s.attempt
                      /\ s.step = "send" /\ d \notin s.todo =>
                           Tried(s.snap.jobs[d], s.attempt + 1, spent.of["database"])
    BY DEF TriedBy
  <2>1. /\ Tried(push.jobs[d], worker[w].attempt, spent.of["database"])
        /\ d \in worker[w].todo =>
             worker[w].snap.jobs[d].retry + spent.of["database"] >= worker[w].attempt
        /\ d \notin worker[w].todo =>
             Tried(worker[w].snap.jobs[d], worker[w].attempt + 1, spent.of["database"])
    BY <1>1, <1>8 DEF TriedBy
  <2>2. CASE d # x
    <3>1. s.snap.jobs[d] = worker[w].snap.jobs[d] /\ (d \in s.todo <=> d \in worker[w].todo)
      BY <1>4, <2>2
    <3> QED BY <1>4, <2>1, <3>1
  <2>3. CASE d = x
    <3>1. d \notin s.todo
      BY <1>4, <2>3
    <3>2. \/ s.snap.jobs[d].status # "Pending"
          \/ s.snap.jobs[d].retry = worker[w].snap.jobs[d].retry + 1
      BY <1>2, <2>3 DEF Answered, Raised, SentOf, ThrewOf
    <3>3. Tried(s.snap.jobs[d], s.attempt + 1, spent.of["database"])
      BY <1>1, <1>4, <1>7, <2>1, <2>3, <3>2 DEF Tried
    <3> QED BY <1>4, <2>1, <3>1, <3>3
  <2> QED BY <2>2, <2>3
<1> QED BY <1>1, <1>2, <1>3, <1>5, <1>6, <1>8, TryingStep

LEMMA SavePushTrying ==
  ASSUME PushInv, Single, Same, Trying, NEW w \in Workers, SavePush(w)
  PROVE  Trying'
<1>1. /\ worker[w] # Idle /\ worker[w].step = "send" /\ worker[w].todo = {} /\ ready' = ready
  BY DEF SavePush, At
<1>2. Sends(worker[w]) /\ worker[w] \in Busy
  BY <1>1, BusyFacts DEF Same, SameCopy, Sends
<1>3. ASSUME TriedBy(push, worker[w], spent.of["database"])
      PROVE  \A d \in Devices :
               Tried(worker[w].snap.jobs[d], worker[w].attempt + 1, spent.of["database"])
  BY <1>1, <1>3 DEF TriedBy
<1>4. CASE push' = worker[w].snap /\ Unfinished(worker[w].snap) /\ Throw(w) /\ UNCHANGED spent
  <2>1. PICK s : Become(w, s) /\ Thrown(worker[w], s)
    BY <1>1, <1>4, ThrowShape
  <2>2. s = Idle \/ Sends(s)
    BY <1>2, <2>1 DEF Thrown, Starting, Sends
  <2>3. ASSUME TriedBy(push, worker[w], spent.of["database"])
        PROVE  /\ Sends(s) => TriedBy(push', s, spent'.of["database"])
               /\ s = Idle => AllTried(push', spent'.of["database"])
    <3>1. \A d \in Devices : Tried(push'.jobs[d], worker[w].attempt + 1, spent'.of["database"])
      BY <1>3, <1>4, <2>3
    <3> QED BY <1>2, <2>1, <3>1, ThrownTried
  <2> QED BY <1>1, <1>2, <1>4, <2>1, <2>2, <2>3, TryingStep
<1>5. CASE push' = worker[w].snap /\ ~Unfinished(worker[w].snap) /\ Ack(w) /\ UNCHANGED spent
  <2>1. Become(w, Idle) /\ ~Sends(Idle)
    BY <1>5 DEF Ack, Sends
  <2>2. AllTried(push', spent'.of["database"])
    BY <1>5 DEF Unfinished, AllTried, Tried
  <2> QED BY <1>1, <1>2, <1>5, <2>1, <2>2, TryingStep
<1>6. CASE Fault("database") /\ Throw(w) /\ UNCHANGED push
  BY <1>1, <1>6, ThrowTrying
<1> QED BY <1>4, <1>5, <1>6 DEF SavePush

LEMMA LoadEventTrying ==
  ASSUME PushInv, Same, Trying, NEW w \in Workers, LoadEvent(w)
  PROVE  Trying'
<1>1. Reports(worker[w]) /\ UNCHANGED spent
  BY LoadEventShape
<1> QED BY <1>1, NoReporter, TryingVacuous

LEMMA SaveEventTrying ==
  ASSUME PushInv, Same, Trying, NEW w \in Workers, SaveEvent(w)
  PROVE  Trying'
<1>1. worker[w] # Idle /\ worker[w].step = "save"
  BY DEF SaveEvent, At
<1>2. Reports(worker[w])
  BY <1>1 DEF Same, SameCopy, Reports
<1>3. spent'.events = spent.events
  BY DatabaseFault DEF SaveEvent
<1> QED BY <1>2, <1>3, NoReporter, TryingVacuous

LEMMA ReportEventTrying ==
  ASSUME PushInv, NEW event \in Events, ReportEvent(event)
  PROVE  Trying'
<1>1. spent'.events = spent.events + 1 /\ spent.events \in Nat
  BY ReportEventShape, PaymentsNat
<1> QED BY <1>1, TryingVacuous

-----------------------------------------------------------------------------
(* The invariant and its theorems                                          *)

LEMMA WorkerDue ==
  ASSUME PushInv, PushInv', DueInv, NEW w \in Workers, Consume(w) \/ Broker(w)
  PROVE  DueInv'
<1>1. Single /\ Same /\ Trying /\ \A d \in Devices : PaidFor(d) /\ LoneFor(d)
  BY DEF DueInv
<1>2. CASE \E cmd \in Command : Deliver(w, cmd)
  <2>1. PICK cmd \in Command : Deliver(w, cmd)
    BY <1>2
  <2>2. Single' /\ Same' /\ Trying'
    BY <1>1, <2>1, DeliverDue, DeliverTrying
  <2>3. \A d \in Devices : PaidFor(d)' /\ LoneFor(d)'
    BY <1>1, <2>1, DeliverPaid, DeliverLone
  <2> QED BY <2>2, <2>3 DEF DueInv
<1>3. CASE ReadFails(w)
  <2>1. worker[w] # Idle /\ Throw(w) /\ Fault("database") /\ UNCHANGED <<push, ready, accepted>>
    BY <1>3 DEF ReadFails, At
  <2>2. Single' /\ Same' /\ Trying'
    BY <1>1, <1>3, <2>1, ReadFailsDue, ThrowTrying
  <2>3. \A d \in Devices : PaidFor(d)' /\ LoneFor(d)'
    BY <1>1, <2>1, ThrowPaid, ThrowLone
  <2> QED BY <2>2, <2>3 DEF DueInv
<1>4. CASE Crash(w)
  <2>1. Single' /\ Same' /\ Trying'
    BY <1>1, <1>4, CrashDue, CrashTrying
  <2>2. \A d \in Devices : PaidFor(d)' /\ LoneFor(d)'
    BY <1>1, <1>4, CrashPaid, CrashLone
  <2> QED BY <2>1, <2>2 DEF DueInv
<1>5. CASE Disconnect(w)
  <2>1. Single' /\ Same' /\ Trying'
    BY <1>1, <1>5, DisconnectDue, DisconnectTrying
  <2>2. \A d \in Devices : PaidFor(d)' /\ LoneFor(d)'
    BY <1>1, <1>5, DisconnectPaid, DisconnectLone
  <2> QED BY <2>1, <2>2 DEF DueInv
<1>6. CASE LoadPush(w)
  <2>1. Single' /\ Same' /\ Trying'
    BY <1>1, <1>6, LoadPushDue, LoadPushTrying
  <2>2. \A d \in Devices : PaidFor(d)' /\ LoneFor(d)'
    BY <1>1, <1>6, LoadPushPaid, LoadPushLone
  <2> QED BY <2>1, <2>2 DEF DueInv
<1>7. CASE SavePush(w)
  <2>1. Single' /\ Same' /\ Trying'
    BY <1>1, <1>7, SavePushDue, SavePushTrying
  <2>2. \A d \in Devices : PaidFor(d)' /\ LoneFor(d)'
    BY <1>1, <1>7, SavePushPaid, SavePushLone
  <2> QED BY <2>1, <2>2 DEF DueInv
<1>8. CASE LoadEvent(w)
  <2>1. Single' /\ Same' /\ Trying'
    BY <1>1, <1>8, LoadEventDue, LoadEventTrying
  <2>2. \A d \in Devices : PaidFor(d)' /\ LoneFor(d)'
    BY <1>1, <1>8, LoadEventPaid, LoadEventLone
  <2> QED BY <2>1, <2>2 DEF DueInv
<1>9. CASE SaveEvent(w)
  <2>1. Single' /\ Same' /\ Trying'
    BY <1>1, <1>9, SaveEventDue, SaveEventTrying
  <2>2. \A d \in Devices : PaidFor(d)' /\ LoneFor(d)'
    BY <1>1, <1>9, SaveEventPaid, SaveEventLone
  <2> QED BY <2>1, <2>2 DEF DueInv
<1>10. CASE \E x \in Devices : CallGateway(w, x)
  <2>1. PICK x \in Devices : CallGateway(w, x)
    BY <1>10
  <2>2. Single' /\ Same' /\ Trying'
    BY <1>1, <2>1, CallGatewayDue, CallGatewayTrying
  <2>3. \A d \in Devices : PaidFor(d)' /\ LoneFor(d)'
    BY <1>1, <2>1, CallGatewayPaid, CallGatewayLone
  <2> QED BY <2>2, <2>3 DEF DueInv
<1> QED BY <1>2, <1>3, <1>4, <1>5, <1>6, <1>7, <1>8, <1>9, <1>10 DEF Consume, Broker

LEMMA InitDue == Init => DueInv
<1> SUFFICES ASSUME Init PROVE DueInv
  OBVIOUS
<1>1. /\ ready = [cmd \in Command |-> IF cmd = SendPush THEN 1 ELSE 0]
      /\ worker = [w \in Workers |-> Idle]
      /\ accepted = [d \in Devices |-> 0]
      /\ spent.events = 0 /\ \A k \in AllFaultKinds : spent.of[k] = 0
      /\ \A d \in Devices : push.jobs[d].retry = 0
  BY DEF Init
<1>2. /\ spent.of["database"] = 0 /\ spent.of["lostAnswer"] = 0
      /\ spent.of["crash"] = 0 /\ spent.of["disconnect"] = 0
      /\ spent.of["provider"] = 0 /\ spent.of["publish"] = 0
  BY <1>1 DEF AllFaultKinds
<1>3. /\ ready[SendPush] = 1 /\ \A event \in Events : ready[event] = 0
      /\ \A w \in Workers : worker[w] = Idle
  BY <1>1, CommandsDiffer
<1>4. Single /\ Same /\ Trying
  <2>1. Single
    BY <1>3 DEF Single, Sends
  <2>2. Same
    BY <1>1, <1>3 DEF Same, SameRow, SameCopy
  <2>3. Trying
    BY <1>3 DEF Trying, Sends, Reports
  <2> QED BY <2>1, <2>2, <2>3
<1>5. Payments = 0 /\ LonePayments = 0
  BY <1>1, <1>2 DEF Payments, LonePayments
<1>6. /\ IsFiniteSet({}) /\ Cardinality({}) = 0
  BY FS_EmptySet
<1>7. Back = {} /\ Handling = {}
  BY <1>3 DEF Back, Handling, ComesBack, Sends, Reports
<1>8. Queued = {}
  BY <1>3 DEF Queued
<1>9. ASSUME NEW d \in Devices PROVE PaidFor(d) /\ LoneFor(d)
  <2>1. Open(d) = {}
    BY <1>3 DEF Open, MaySend, Sends
  <2>2. accepted[d] = 0
    BY <1>1
  <2>3. PaidFor(d)
    BY <1>3, <1>5, <1>6, <1>7, <2>1, <2>2 DEF PaidFor
  <2>4. LoneFor(d)
    BY <1>5, <1>6, <1>7, <1>8, <2>2, LeftBit DEF LoneFor
  <2> QED BY <2>3, <2>4
<1> QED BY <1>4, <1>9 DEF DueInv

LEMMA NextDue == PushInv /\ PushInv' /\ DueInv /\ [Next]_vars => DueInv'
<1> SUFFICES ASSUME PushInv, PushInv', DueInv, [Next]_vars PROVE DueInv'
  OBVIOUS
<1>1. ASSUME NEW w \in Workers, Consume(w) \/ Broker(w) PROVE DueInv'
  BY <1>1, WorkerDue
<1>2. ASSUME NEW event \in Events, ReportEvent(event) PROVE DueInv'
  <2>1. Single /\ Same /\ Trying /\ \A d \in Devices : PaidFor(d) /\ LoneFor(d)
    BY DEF DueInv
  <2>2. Single' /\ Same' /\ Trying'
    BY <1>2, <2>1, ReportEventDue, ReportEventTrying
  <2>3. \A d \in Devices : PaidFor(d)' /\ LoneFor(d)'
    BY <1>2, <2>1, ReportEventPaid, ReportEventLone
  <2> QED BY <2>2, <2>3 DEF DueInv
<1>3. CASE UNCHANGED vars
  <2>1. UNCHANGED <<push, ready, worker, accepted, spent>>
    BY <1>3 DEF vars
  <2>2. Single' /\ Same' /\ Trying'
    <3>1. Single'
      BY <2>1 DEF DueInv, Single, Sends
    <3>2. Same'
      BY <2>1 DEF DueInv, Same, SameRow, SameCopy, Pending
    <3>3. Trying'
      BY <2>1 DEF DueInv, Trying, Sends, Reports, TriedBy, Tried, AllTried
    <3> QED BY <3>1, <3>2, <3>3
  <2>3. \A d \in Devices : PaidFor(d)' /\ LoneFor(d)'
    <3>1. Back' = Back /\ Handling' = Handling /\ Queued' = Queued
          /\ Payments' = Payments /\ LonePayments' = LonePayments
      BY <2>1 DEF Back, Handling, Queued, Payments, LonePayments, ComesBack, Reports,
                  Sends, Pending
    <3>2. ASSUME NEW d \in Devices PROVE Open(d)' = Open(d) /\ Left(d)' = Left(d)
      BY <2>1 DEF Open, MaySend, Sends, Left, Again, Pending
    <3>3. ASSUME NEW d \in Devices PROVE PaidFor(d)'
      BY <2>1, <3>1, <3>2 DEF DueInv, PaidFor
    <3>4. ASSUME NEW d \in Devices PROVE LoneFor(d)'
      BY <2>1, <3>1, <3>2 DEF DueInv, LoneFor
    <3> QED BY <3>3, <3>4
  <2> QED BY <2>2, <2>3 DEF DueInv
<1> QED BY <1>1, <1>2, <1>3 DEF Next

\* A device gets the push once, plus once at most for every disturbance: for
\* any number of devices, consumers, retries, reports and faults.  While each
\* delivery is held a gateway that fails is no disturbance.
THEOREM PushDuplicatesBounded == Spec => []PushDuplicatesAreDisturbances
<1>1. PushInv /\ DueInv => PushDuplicatesAreDisturbances
  <2> SUFFICES ASSUME PushInv, DueInv, NEW d \in Devices
               PROVE  accepted[d] <= 1 + Disturbances
    BY DEF PushDuplicatesAreDisturbances
  <2>1. /\ spent.of["database"] \in Nat /\ spent.of["lostAnswer"] \in Nat
        /\ spent.of["crash"] \in Nat /\ spent.of["disconnect"] \in Nat
        /\ spent.of["provider"] \in Nat /\ spent.of["publish"] \in Nat
        /\ spent.events \in Nat
    BY PaymentsNat DEF AllFaultKinds
  <2>2. accepted[d] \in Nat /\ ready[SendPush] \in Nat
    BY CountsNat
  <2>3. CASE spent.of["disconnect"] = 0
    <3>1. /\ IsFiniteSet(Queued) /\ IsFiniteSet(Handling)
          /\ accepted[d] + Left(d) + Cardinality(Queued) + Cardinality(Handling)
               <= 1 + LonePayments
      BY <2>3 DEF DueInv, LoneFor
    <3>2. Cardinality(Queued) \in Nat /\ Cardinality(Handling) \in Nat /\ Left(d) \in Nat
      BY <3>1, FS_CardinalityType, LeftBit
    <3>3. LonePayments \in Nat
      BY PaymentsNat
    <3>4. accepted[d] <= 1 + LonePayments
      BY <2>2, <3>1, <3>2, <3>3
    <3>5. Disturbances = LonePayments
      BY <2>1, <2>3 DEF Disturbances, LonePayments
    <3> QED BY <3>4, <3>5
  <2>4. CASE spent.of["disconnect"] # 0
    <3>1. /\ IsFiniteSet(Open(d)) /\ IsFiniteSet(Back)
          /\ accepted[d] + Cardinality(Open(d)) + Cardinality(Back) + ready[SendPush]
               <= 1 + Payments
      BY DEF DueInv, PaidFor
    <3>2. Cardinality(Open(d)) \in Nat /\ Cardinality(Back) \in Nat
      BY <3>1, FS_CardinalityType
    <3>3. Payments \in Nat
      BY PaymentsNat
    <3>4. accepted[d] <= 1 + Payments
      BY <2>2, <3>1, <3>2, <3>3
    <3>5. Disturbances = Payments
      BY <2>1, <2>4 DEF Disturbances, Payments
    <3> QED BY <3>4, <3>5
  <2> QED BY <2>3, <2>4
<1> QED BY <1>1, InitPushInv, NextPushInv, InitDue, NextDue, PTL DEF Spec

\* Without reports and lost connections a job is given up only after it failed
\* three times, or as often as the attempts the database left it.
THEOREM PushGivesUp == Spec => []GivesUpAfterThree
<1>1. PushInv /\ DueInv => GivesUpAfterThree
  <2> SUFFICES ASSUME PushInv, DueInv, Quiescent, spent.events = 0,
                      spent.of["disconnect"] = 0, NEW d \in Devices,
                      push.jobs[d].status = "Pending"
               PROVE  \/ push.jobs[d].retry >= 3
                      \/ push.jobs[d].retry + spent.of["database"] > MaxAttempts
    BY DEF GivesUpAfterThree
  <2>1. ready[SendPush] = 0 /\ \A w \in Workers : ~Sends(worker[w])
    BY CommandsDiffer DEF Quiescent, Sends
  <2>2. AllTried(push, spent.of["database"])
    BY <2>1 DEF DueInv, Trying
  <2>3. /\ push.jobs[d].retry \in Nat /\ spent.of["database"] \in Nat /\ MaxAttempts \in Nat
    BY PushAssumption, JobsTyped, PaymentsNat DEF PushInv, TypeOK, AllFaultKinds
  <2> QED BY <2>2, <2>3 DEF AllTried, Tried
<1> QED BY <1>1, InitPushInv, NextPushInv, InitDue, NextDue, PTL DEF Spec
=============================================================================
