--------------------------- MODULE Dispatch_proofs ---------------------------
(***************************************************************************)
(* Proofs about Dispatch: its types, that no status claims a send that did *)
(* not happen, and that the give-up limit of a channel holds.              *)
(*                                                                         *)
(* Rows travel: a consumer copies a row into its snapshot, changes the     *)
(* copy and writes it over whatever the table holds by then.  Every        *)
(* invariant about rows is therefore proved for the snapshots too.         *)
(***************************************************************************)
EXTENDS Dispatch, TLAPS

\* The steps at which a consumer holds a row.
HasSnap == {"schedule", "save", "send", "record", "delete", "dropJob"}

\* The job a row names is one of jobs, deleted in Hangfire or not.
Known(r, jobs) == r # NoRow => (r.jobId # NoJob => jobs[r.jobId] # NoJob)

Held(state, jobs) ==
  state # Idle => /\ state.step \in HasSnap => state.snap \in Row
                  /\ Known(state.snap, jobs)

TypeInv ==
  /\ TypeOK
  /\ \A m \in Msg : Known(row[m], job)
  /\ \A w \in Workers : Held(worker[w], job)

-----------------------------------------------------------------------------
(* Values                                                                  *)

\* A part keeps its type under every operation of the aggregate.
LEMMA PartOperations ==
  ASSUME NEW part \in Part, NEW c \in ChannelNames, NEW id \in Nat,
         NEW delivered \in BOOLEAN
  PROVE  /\ Enqueued(part) \in Part
         /\ Send(c, part, id) \in Part
         /\ Retry(part) \in Part
         /\ Invalid(part) \in Part
         /\ ValidatorDeny(c, part) \in Part
         /\ Report(part, delivered) \in Part
<1> USE DEF Part, SmsStatus, NoId
<1>1. Enqueued(part) \in Part
  BY DEF Enqueued
<1>2. Send(c, part, id) \in Part
  BY DEF Send
<1>3. Retry(part) \in Part
  <2>1. part.retry + 1 \in Nat
    OBVIOUS
  <2>2. \A n \in Nat : [part EXCEPT !.retry = n, !.id = NoId] \in Part
    OBVIOUS
  <2> QED BY <2>1, <2>2 DEF Retry
<1>4. Invalid(part) \in Part
  BY DEF Invalid
<1>5. ValidatorDeny(c, part) \in Part
  BY DEF ValidatorDeny
<1>6. Report(part, delivered) \in Part
  BY DEF Report
<1> QED BY <1>1, <1>2, <1>3, <1>4, <1>5, <1>6

\* A new row, a queued row and a row with another part are rows.
LEMMA RowValues ==
  /\ NewRow \in Row /\ NewRow.jobId = NoJob
  /\ \A r \in Row, j \in JobIds \cup {NoJob} :
        EnqueuedRow(r, j) \in Row /\ EnqueuedRow(r, j).jobId = j
  /\ \A r \in Row, c \in Channels, part \in Part :
        /\ [r EXCEPT !.part[c] = part] \in Row
        /\ [r EXCEPT !.part[c] = part].jobId = r.jobId
<1>1. NewPart \in Part
  BY DEF NewPart, Part, SmsStatus, NoId
<1>2. NewRow \in Row /\ NewRow.jobId = NoJob
  BY <1>1 DEF NewRow, Row
<1>3. ASSUME NEW r \in Row, NEW j \in JobIds \cup {NoJob}
      PROVE EnqueuedRow(r, j) \in Row /\ EnqueuedRow(r, j).jobId = j
  <2>1. \A c \in Channels : Enqueued(r.part[c]) \in Part
    BY PartOperations, DispatchAssumption DEF Row, ChannelNames
  <2> QED BY <2>1 DEF EnqueuedRow, Row
<1>4. ASSUME NEW r \in Row, NEW c \in Channels, NEW part \in Part
      PROVE /\ [r EXCEPT !.part[c] = part] \in Row
            /\ [r EXCEPT !.part[c] = part].jobId = r.jobId
  BY DEF Row
<1> QED BY <1>2, <1>3, <1>4

\* What a busy consumer knows of its command.
LEMMA BusyFacts ==
  ASSUME TypeOK, NEW w \in Workers, worker[w] # Idle
  PROVE  /\ worker[w] \in Busy
         /\ worker[w].cmd \in Command
         /\ MessageOf(w) \in Msg
<1>1. worker[w] \in Busy
  BY DEF TypeOK
<1>2. worker[w].cmd \in Command
  BY <1>1 DEF Busy
<1>3. worker[w].cmd.msg \in Msg
  BY <1>2 DEF Command, Requests, Sends, Deletes, Reports
<1> QED BY <1>1, <1>2, <1>3 DEF MessageOf

\* A delivery starts without a row.
LEMMA BeginState ==
  ASSUME NEW cmd \in Command, NEW attempt \in 0..MaxAttempts, NEW held \in BOOLEAN
  PROVE  /\ Begin(cmd, attempt, held) \in Busy
         /\ Begin(cmd, attempt, held).step \in {"isExist", "load"}
         /\ Begin(cmd, attempt, held).snap = NoRow
         /\ Begin(cmd, attempt, held).cmd = cmd
BY DEF Begin, Busy, FirstStep, Steps

\* Idle is not the state of a busy consumer.
LEMMA IdleNotBusy == Idle \notin Busy
BY DEF Idle, Busy

\* After a throw the consumer starts again, without a row, or is idle.
LEMMA ThrowState ==
  ASSUME TypeOK, NEW w \in Workers, worker[w] # Idle, Throw(w)
  PROVE  \E state \in Busy \cup {Idle} :
            /\ Become(w, state)
            /\ state # Idle => /\ state.step \in {"isExist", "load"}
                               /\ state.snap = NoRow /\ state.cmd = worker[w].cmd
<1>1. worker[w] \in Busy /\ worker[w].attempt \in 0..MaxAttempts
      /\ worker[w].held \in BOOLEAN /\ worker[w].cmd \in Command
  BY BusyFacts DEF Busy
<1>2. CASE worker[w].attempt < MaxAttempts
  <2>1. worker[w].attempt + 1 \in 0..MaxAttempts
    BY <1>1, <1>2, DispatchAssumption
  <2> DEFINE again == Begin(worker[w].cmd, worker[w].attempt + 1, worker[w].held)
  <2>2. /\ again \in Busy /\ again.step \in {"isExist", "load"}
        /\ again.snap = NoRow /\ again.cmd = worker[w].cmd
    BY <1>1, <2>1, BeginState
  <2>3. Become(w, again)
    BY <1>2 DEF Throw
  <2> QED BY <2>2, <2>3
<1>3. CASE ~(worker[w].attempt < MaxAttempts)
  BY <1>3 DEF Throw
<1> QED BY <1>2, <1>3

\* Publishing keeps the counts of the broker.
LEMMA PublishTyped ==
  ASSUME TypeOK, NEW cmds, Publish(cmds) PROVE ready' \in [Command -> Nat]
BY DEF TypeOK, Publish

\* A fault is counted.
\* Using up a part of a bound keeps the counters typed.
LEMMA SpentTyped ==
  ASSUME TypeOK
  PROVE  /\ spent.faults \in Nat /\ spent.resends \in Nat /\ spent.deletes \in Nat
         /\ \A k \in FaultKinds :
              [spent EXCEPT !.faults = @ + 1, !.kinds = @ \cup {k}] \in
                [faults : Nat, resends : Nat, deletes : Nat, requests : [Msg -> Nat],
                 kinds : SUBSET FaultKinds]
         /\ [spent EXCEPT !.resends = @ + 1] \in
                [faults : Nat, resends : Nat, deletes : Nat, requests : [Msg -> Nat],
                 kinds : SUBSET FaultKinds]
         /\ [spent EXCEPT !.deletes = @ + 1] \in
                [faults : Nat, resends : Nat, deletes : Nat, requests : [Msg -> Nat],
                 kinds : SUBSET FaultKinds]
<1>1. spent \in [faults : Nat, resends : Nat, deletes : Nat, requests : [Msg -> Nat],
                kinds : SUBSET FaultKinds]
  BY DEF TypeOK
<1>2. spent.faults + 1 \in Nat /\ spent.resends + 1 \in Nat /\ spent.deletes + 1 \in Nat
  BY <1>1
<1> DEFINE f == spent.faults + 1
           r == spent.resends + 1
           d == spent.deletes + 1
<1>3. f \in Nat /\ r \in Nat /\ d \in Nat
  BY <1>2
<1> HIDE DEF f, r, d
<1>4. \A k \in FaultKinds : spent.kinds \cup {k} \in SUBSET FaultKinds
  BY <1>1
<1>5. ASSUME NEW k \in FaultKinds
      PROVE  [spent EXCEPT !.faults = f, !.kinds = @ \cup {k}] \in
               [faults : Nat, resends : Nat, deletes : Nat, requests : [Msg -> Nat],
                kinds : SUBSET FaultKinds]
  <2> DEFINE ks == spent.kinds \cup {k}
  <2>1. ks \in SUBSET FaultKinds
    BY <1>4
  <2> HIDE DEF ks
  <2>2. [spent EXCEPT !.faults = f, !.kinds = ks] \in
          [faults : Nat, resends : Nat, deletes : Nat, requests : [Msg -> Nat],
           kinds : SUBSET FaultKinds]
    BY <1>1, <1>3, <2>1
  <2> QED BY <2>2 DEF ks
<1>6. [spent EXCEPT !.resends = r] \in
        [faults : Nat, resends : Nat, deletes : Nat, requests : [Msg -> Nat],
         kinds : SUBSET FaultKinds]
  BY <1>1, <1>3
<1>7. [spent EXCEPT !.deletes = d] \in
        [faults : Nat, resends : Nat, deletes : Nat, requests : [Msg -> Nat],
         kinds : SUBSET FaultKinds]
  BY <1>1, <1>3
<1> QED BY <1>1, <1>5, <1>6, <1>7 DEF f, r, d

LEMMA FaultTyped ==
  ASSUME TypeOK, NEW kind, Fault(kind)
  PROVE  spent' \in [faults : Nat, resends : Nat, deletes : Nat, requests : [Msg -> Nat],
                kinds : SUBSET FaultKinds]
BY SpentTyped DEF Fault

-----------------------------------------------------------------------------
(* Type correctness                                                        *)

JobsKept == \A j \in JobIds : job[j] # NoJob => job'[j] # NoJob

\* A job that exists goes on existing, so a row that names it may be kept.
LEMMA KnownKept ==
  ASSUME JobsKept, NEW r \in Row \cup {NoRow}, Known(r, job) PROVE Known(r, job')
BY DispatchAssumption DEF JobsKept, Known, Row

\* Init establishes the types: no row, no job, nobody busy.
LEMMA InitTypeInv == Init => TypeInv
<1> SUFFICES ASSUME Init PROVE TypeInv
  OBVIOUS
<1>1. TypeOK
  BY DEF Init, TypeOK
<1>2. \A m \in Msg : Known(row[m], job)
  BY DEF Init, Known
<1>3. \A w \in Workers : Held(worker[w], job)
  BY DEF Init, Held
<1> QED BY <1>1, <1>2, <1>3 DEF TypeInv

\* The part of TypeOK that is not about rows, jobs and consumers.
CountsOK ==
  /\ ready \in [Command -> Nat]
  /\ past \subseteq Msg
  /\ accepted \in [Msg -> [Channels -> Nat]]
  /\ reported \in [Msg -> Nat]
  /\ spent \in [faults : Nat, resends : Nat, deletes : Nat, requests : [Msg -> Nat],
               kinds : SUBSET FaultKinds]
  /\ withdrawn \in [Msg -> {"no", "early", "late"}]

\* Rows stay rows, and the jobs they name exist.
RowsStayTyped ==
  row' \in [Msg -> Row \cup {NoRow}] /\ \A m \in Msg : Known(row'[m], job')

JobsStayTyped == JobsKept /\ job' \in [JobIds -> Job \cup {NoJob}]

\* A step of one consumer keeps the types if its new state is well-typed, and
\* if rows stay rows, and jobs jobs.
LEMMA ConsumerStep ==
  ASSUME TypeInv, NEW w \in Workers, NEW state \in Busy \cup {Idle},
         Become(w, state), Held(state, job'), CountsOK', JobsStayTyped,
         RowsStayTyped
  PROVE  TypeInv'
<1>1. worker' \in [Workers -> Busy \cup {Idle}] /\ worker'[w] = state
      /\ \A v \in Workers \ {w} : worker'[v] = worker[v]
  BY DEF Become, TypeInv, TypeOK
<1>2. TypeOK'
  BY <1>1 DEF TypeOK, CountsOK, RowsStayTyped, JobsStayTyped
<1>3. ASSUME NEW v \in Workers PROVE Held(worker'[v], job')
  <2>1. CASE v = w
    BY <1>1, <2>1
  <2>2. CASE v # w
    <3>1. worker[v] # Idle => worker[v].snap \in Row \cup {NoRow}
      BY DEF TypeInv, TypeOK, Busy
    <3>2. Held(worker[v], job)
      BY DEF TypeInv
    <3>3. worker[v] # Idle => Known(worker[v].snap, job')
      BY <3>1, <3>2, KnownKept DEF Held, JobsStayTyped
    <3> QED BY <1>1, <2>2, <3>2, <3>3 DEF Held
  <2> QED BY <2>1, <2>2
<1> QED BY <1>2, <1>3 DEF TypeInv, RowsStayTyped

\* A step that schedules or changes no job leaves every job as it was.
LEMMA JobsUnchanged ==
  ASSUME TypeInv, UNCHANGED job PROVE JobsStayTyped
BY DEF TypeInv, TypeOK, JobsStayTyped, JobsKept

\* Rows stay typed when they do not change or one is replaced by a typed one.
LEMMA RowReplaced ==
  ASSUME TypeInv, JobsStayTyped, NEW m \in Msg, NEW r \in Row \cup {NoRow},
         Known(r, job'), row' = [row EXCEPT ![m] = r] \/ UNCHANGED row
  PROVE  RowsStayTyped
<1>1. row \in [Msg -> Row \cup {NoRow}]
  BY DEF TypeInv, TypeOK
<1>2. \A k \in Msg : Known(row[k], job')
  BY <1>1, KnownKept DEF TypeInv, JobsStayTyped
<1> QED BY <1>1, <1>2 DEF RowsStayTyped

\* The states a throw leaves a consumer in hold no row.
LEMMA ThrowHeld ==
  ASSUME NEW jobs, NEW state \in Busy \cup {Idle},
         state # Idle => state.step \in {"isExist", "load"} /\ state.snap = NoRow
  PROVE  Held(state, jobs)
BY DEF Held, HasSnap, Known

\* A consumer that throws keeps the types if rows, jobs and counts do.
LEMMA ThrowStep ==
  ASSUME TypeInv, NEW w \in Workers, worker[w] # Idle, Throw(w) \/ Ack(w),
         CountsOK', JobsStayTyped, RowsStayTyped
  PROVE  TypeInv'
<1>1. CASE Throw(w)
  <2>1. PICK state \in Busy \cup {Idle} :
           /\ Become(w, state)
           /\ state # Idle => /\ state.step \in {"isExist", "load"}
                              /\ state.snap = NoRow /\ state.cmd = worker[w].cmd
    BY <1>1, ThrowState DEF TypeInv
  <2>2. Held(state, job')
    BY <2>1, ThrowHeld
  <2> QED BY <2>1, <2>2, ConsumerStep
<1>2. CASE Ack(w)
  <2>1. Held(Idle, job')
    BY DEF Held
  <2> QED BY <1>2, <2>1, ConsumerStep DEF Ack
<1> QED BY <1>1, <1>2

\* Counts stay counts when commands are published and faults are counted.
LEMMA CountsStep ==
  ASSUME TypeInv,
         UNCHANGED ready \/ \E cmds : Publish(cmds),
         UNCHANGED spent \/ \E kind : Fault(kind),
         UNCHANGED <<past, reported, withdrawn>>
  PROVE  /\ UNCHANGED accepted => CountsOK'
         /\ \A m \in Msg, c \in Channels : ProviderAccepts(m, c) => CountsOK'
<1>1. ready' \in [Command -> Nat]
  BY PublishTyped DEF TypeInv, TypeOK
<1>2. spent' \in [faults : Nat, resends : Nat, deletes : Nat, requests : [Msg -> Nat],
                kinds : SUBSET FaultKinds]
  BY FaultTyped DEF TypeInv, TypeOK
<1>3. ASSUME NEW m \in Msg, NEW c \in Channels, ProviderAccepts(m, c)
      PROVE  accepted' \in [Msg -> [Channels -> Nat]]
  BY <1>3 DEF ProviderAccepts, TypeInv, TypeOK
<1> QED BY <1>1, <1>2, <1>3 DEF TypeInv, TypeOK, CountsOK

\* The broker's steps keep the types.
LEMMA BrokerTyped ==
  ASSUME TypeInv, NEW w \in Workers,
         (\E cmd \in Command : Deliver(w, cmd)) \/ ReadFails(w) \/ Crash(w) \/ Disconnect(w)
  PROVE  TypeInv'
<1>1. UNCHANGED job /\ UNCHANGED row
  BY DEF Deliver, ReadFails, Crash, Disconnect
<1>2. JobsStayTyped /\ RowsStayTyped
  BY <1>1, JobsUnchanged DEF RowsStayTyped, TypeInv, TypeOK
<1>3. ASSUME NEW cmd \in Command, Deliver(w, cmd) PROVE TypeInv'
  <2>1. CountsOK'
    BY <1>3 DEF Deliver, TypeInv, TypeOK, CountsOK
  <2>2. /\ Begin(cmd, 0, TRUE) \in Busy
        /\ Begin(cmd, 0, TRUE).step \in {"isExist", "load"}
        /\ Begin(cmd, 0, TRUE).snap = NoRow
    <3>1. 0 \in 0..MaxAttempts /\ TRUE \in BOOLEAN
      BY DispatchAssumption
    <3> QED BY <3>1, BeginState
  <2>3. Held(Begin(cmd, 0, TRUE), job')
    BY <2>2, ThrowHeld
  <2> QED BY <1>2, <1>3, <2>1, <2>2, <2>3, ConsumerStep DEF Deliver
<1>4. CASE ReadFails(w)
  <2>1. CountsOK'
    BY <1>4, CountsStep DEF ReadFails
  <2> QED BY <1>2, <1>4, <2>1, ThrowStep DEF ReadFails, At
<1>5. CASE Crash(w)
  <2>1. CountsOK'
    BY <1>5, CountsStep DEF Crash
  <2> QED BY <1>2, <1>5, <2>1, ThrowStep DEF Crash
<1>6. CASE Disconnect(w)
  <2>1. CountsOK'
    BY <1>6, CountsStep DEF Disconnect
  <2> DEFINE state == [worker[w] EXCEPT !.held = FALSE]
  <2>2. state \in Busy
    BY <1>6, BusyFacts DEF Disconnect, Busy, TypeInv
  <2>3. state.step = worker[w].step /\ state.snap = worker[w].snap
    BY <1>6, BusyFacts DEF Disconnect, Busy, TypeInv
  <2>4. Held(state, job')
    BY <1>1, <1>6, <2>3 DEF Disconnect, TypeInv, Held
  <2> QED BY <1>2, <1>6, <2>1, <2>2, <2>4, ConsumerStep DEF Disconnect
<1> QED BY <1>3, <1>4, <1>5, <1>6

\* Clients, operators, time and the provider's callback keep the types.
LEMMA ClientsTyped == TypeInv /\ Clients => TypeInv'
<1> SUFFICES ASSUME TypeInv, Clients PROVE TypeInv'
  OBVIOUS
<1>1. ASSUME NEW m \in Msg, SubmitMessage(m) PROVE TypeInv'
  <2>1. spent' \in [faults : Nat, resends : Nat, deletes : Nat, requests : [Msg -> Nat],
                kinds : SUBSET FaultKinds]
    <3>1. spent.requests \in [Msg -> Nat]
      BY DEF TypeInv, TypeOK
    <3>2. [spent.requests EXCEPT ![m] = @ + 1] \in [Msg -> Nat]
      BY <3>1
    <3> QED BY <1>1, <3>2 DEF SubmitMessage, TypeInv, TypeOK
  <2> QED BY <1>1, <2>1, PublishTyped DEF SubmitMessage, TypeInv, TypeOK
<1>2. ASSUME NEW cmd \in Deletes, SubmitDelete(cmd) PROVE TypeInv'
  <2>1. spent' \in [faults : Nat, resends : Nat, deletes : Nat, requests : [Msg -> Nat],
                kinds : SUBSET FaultKinds]
    BY <1>2, SpentTyped DEF SubmitDelete, TypeInv
  <2> QED BY <1>2, <2>1, PublishTyped DEF SubmitDelete, TypeInv, TypeOK
<1>3. ASSUME NEW m \in Msg, DueTimeComes(m) PROVE TypeInv'
  BY <1>3 DEF DueTimeComes, TypeInv, TypeOK
<1>4. ASSUME NEW chosen \in SUBSET Msg, ReSendFailedSms(chosen) PROVE TypeInv'
  <2>1. spent' \in [faults : Nat, resends : Nat, deletes : Nat, requests : [Msg -> Nat],
                kinds : SUBSET FaultKinds]
    BY <1>4, SpentTyped DEF ReSendFailedSms, TypeInv
  <2> QED BY <1>4, <2>1, PublishTyped DEF ReSendFailedSms, TypeInv, TypeOK
<1>5. ASSUME NEW m \in Msg, NEW id \in Ids, NEW delivered \in BOOLEAN,
             ReportDelivery(m, id, delivered)
      PROVE  TypeInv'
  <2>1. reported' \in [Msg -> Nat]
    BY <1>5 DEF ReportDelivery, TypeInv, TypeOK
  <2> QED BY <1>5, <2>1, PublishTyped DEF ReportDelivery, TypeInv, TypeOK
<1> QED BY <1>1, <1>2, <1>3, <1>4, <1>5 DEF Clients

\* A consumer that goes to another step, with the row it holds or a known one.
LEMMA MoveState ==
  ASSUME TypeInv, NEW w \in Workers, worker[w] # Idle, NEW step \in Steps,
         NEW snap \in Row, NEW jobs, Known(snap, jobs)
  PROVE  /\ [worker[w] EXCEPT !.step = step, !.snap = snap] \in Busy
         /\ Held([worker[w] EXCEPT !.step = step, !.snap = snap], jobs)
<1>1. worker[w] \in Busy
  BY BusyFacts DEF TypeInv
<1> QED BY <1>1 DEF Busy, Held

\* A consumer that goes to a step at which it needs no row.
LEMMA GoToStep ==
  ASSUME TypeInv, NEW w \in Workers, worker[w] # Idle, NEW step \in Steps,
         step \in HasSnap => worker[w].snap \in Row, GoTo(w, step),
         CountsOK', JobsStayTyped, RowsStayTyped
  PROVE  TypeInv'
<1>1. worker[w] \in Busy
  BY BusyFacts DEF TypeInv
<1> DEFINE state == [worker[w] EXCEPT !.step = step]
<1>2. state \in Busy /\ state.step = step /\ state.snap = worker[w].snap
  BY <1>1 DEF Busy
<1>3. worker[w].snap \in Row \cup {NoRow} /\ Known(worker[w].snap, job)
  BY <1>1 DEF Busy, TypeInv, Held
<1>4. Known(worker[w].snap, job')
  BY <1>3, KnownKept DEF JobsStayTyped
<1>5. Held(state, job')
  BY <1>2, <1>4 DEF Held
<1> QED BY <1>2, <1>5, ConsumerStep DEF GoTo

\* SendMessageRequestHandler keeps the types.
LEMMA RequestTyped ==
  ASSUME TypeInv, NEW w \in Workers, HandleRequest(w)
  PROVE  TypeInv'
<1> DEFINE m == MessageOf(w)
<1>1. worker[w] # Idle
  BY DEF HandleRequest, IsExist, AddRow, ScheduleJob, SavePending, PublishNow,
         CatchDelete, At
<1>2. worker[w] \in Busy /\ m \in Msg
  BY <1>1, BusyFacts DEF TypeInv
<1>3. Held(worker[w], job) /\ Known(NoRow, job') /\ NoRow \in Row \cup {NoRow}
  BY DEF TypeInv, Known
<1>4. CASE IsExist(w)
  <2>1. JobsStayTyped /\ CountsOK'
    BY <1>4, JobsUnchanged, CountsStep DEF IsExist
  <2>2. RowsStayTyped
    BY <1>2, <1>3, <1>4, <2>1, RowReplaced DEF IsExist
  <2>3. "add" \in Steps /\ "add" \notin HasSnap
    BY DEF Steps, HasSnap
  <2> QED BY <1>1, <1>4, <2>1, <2>2, <2>3, GoToStep, ThrowStep DEF IsExist
<1>5. CASE AddRow(w)
  <2>1. JobsStayTyped /\ CountsOK'
    BY <1>5, JobsUnchanged, CountsStep DEF AddRow
  <2>2. NewRow \in Row /\ Known(NewRow, job')
    BY RowValues DEF Known
  <2>3. RowsStayTyped
    BY <1>2, <1>3, <1>5, <2>1, <2>2, RowReplaced DEF AddRow
  <2>4. EnqueuedRow(NewRow, NoJob) \in Row /\ Known(EnqueuedRow(NewRow, NoJob), job')
    BY <2>2, RowValues DEF Known
  <2>5. "schedule" \in Steps /\ "save" \in Steps
    BY DEF Steps
  <2>6. CASE Throw(w)
    BY <1>1, <2>1, <2>3, <2>6, ThrowStep
  <2>7. CASE Become(w, [worker[w] EXCEPT !.step = "schedule", !.snap = NewRow])
    BY <1>1, <2>1, <2>2, <2>3, <2>5, <2>7, MoveState, ConsumerStep
  <2>8. CASE Become(w, [worker[w] EXCEPT !.step = "save",
                                         !.snap = EnqueuedRow(NewRow, NoJob)])
    BY <1>1, <2>1, <2>3, <2>4, <2>5, <2>8, MoveState, ConsumerStep
  <2> QED BY <1>5, <2>6, <2>7, <2>8 DEF AddRow
<1>6. CASE ScheduleJob(w)
  <2>1. CountsOK'
    BY <1>6, CountsStep DEF ScheduleJob
  <2>2. worker[w].snap \in Row
    BY <1>1, <1>3, <1>6 DEF ScheduleJob, At, Held, HasSnap
  <2>3. ASSUME NEW j \in JobIds, job[j] = NoJob,
               job' = [job EXCEPT ![j] = [msg |-> m, phase |-> "scheduled",
                                          live |-> TRUE, todo |-> Channels]],
               Become(w, [worker[w] EXCEPT !.step = "save", !.snap = EnqueuedRow(@, j)])
        PROVE TypeInv'
    <3> DEFINE new == [msg |-> m, phase |-> "scheduled", live |-> TRUE, todo |-> Channels]
    <3>1. new \in Job /\ new # NoJob
      <4>1. new \in Job
        BY <1>2 DEF Job
      <4> HIDE DEF new
      <4> QED BY <4>1, DispatchAssumption
    <3>2. JobsStayTyped /\ job'[j] # NoJob
      BY <2>3, <3>1 DEF JobsStayTyped, JobsKept, TypeInv, TypeOK
    <3>3. RowsStayTyped
      BY <1>2, <1>3, <1>6, <3>2, RowReplaced DEF ScheduleJob
    <3> DEFINE snap == EnqueuedRow(worker[w].snap, j)
    <3>4. snap \in Row /\ Known(snap, job')
      BY <2>2, <3>2, RowValues DEF Known
    <3>5. "save" \in Steps
      BY DEF Steps
    <3>6. Become(w, [worker[w] EXCEPT !.step = "save", !.snap = snap])
      BY <1>2, <2>3 DEF Busy
    <3> QED BY <1>1, <2>1, <3>2, <3>3, <3>4, <3>5, <3>6, MoveState, ConsumerStep
  <2>4. CASE GoTo(w, "catch") /\ UNCHANGED job
    <3>1. JobsStayTyped
      BY <2>4, JobsUnchanged
    <3>2. RowsStayTyped
      BY <1>2, <1>3, <1>6, <3>1, RowReplaced DEF ScheduleJob
    <3>3. "catch" \in Steps /\ "catch" \notin HasSnap
      BY DEF Steps, HasSnap
    <3> QED BY <1>1, <2>1, <2>4, <3>1, <3>2, <3>3, GoToStep
  <2> QED BY <1>6, <2>3, <2>4 DEF ScheduleJob
<1>7. CASE SavePending(w)
  <2>1. JobsStayTyped /\ CountsOK'
    BY <1>7, JobsUnchanged, CountsStep DEF SavePending
  <2>2. worker[w].snap \in Row
    BY <1>1, <1>3, <1>7 DEF SavePending, At, Held, HasSnap
  <2>3. Known(worker[w].snap, job')
    BY <1>1, <1>3, <2>1, <2>2, KnownKept DEF JobsStayTyped, Held
  <2>4. RowsStayTyped
    BY <1>2, <1>3, <1>7, <2>1, <2>2, <2>3, RowReplaced DEF SavePending
  <2>5. CASE AfterSave(w)
    <3> DEFINE state == [worker[w] EXCEPT !.step = "publish", !.todo = Channels]
    <3>1. state \in Busy /\ state.snap = worker[w].snap /\ state.step \notin HasSnap
      BY <1>2 DEF Busy, Steps, HasSnap
    <3>2. Held(state, job')
      BY <2>3, <3>1 DEF Held
    <3>3. Become(w, state) \/ Ack(w)
      BY <2>5 DEF AfterSave
    <3> QED BY <1>1, <2>1, <2>4, <3>1, <3>2, <3>3, ConsumerStep, ThrowStep
  <2>6. CASE GoTo(w, "catch")
    <3>1. "catch" \in Steps /\ "catch" \notin HasSnap
      BY DEF Steps, HasSnap
    <3> QED BY <1>1, <2>1, <2>4, <2>6, <3>1, GoToStep
  <2> QED BY <1>7, <2>5, <2>6 DEF SavePending
<1>8. ASSUME NEW c \in Channels, PublishNow(w, c) PROVE TypeInv'
  <2>1. JobsStayTyped /\ CountsOK'
    BY <1>8, JobsUnchanged, CountsStep DEF PublishNow
  <2>2. RowsStayTyped
    BY <1>2, <1>3, <1>8, <2>1, RowReplaced DEF PublishNow
  <2>3. CASE GoTo(w, "catch")
    <3>1. "catch" \in Steps /\ "catch" \notin HasSnap
      BY DEF Steps, HasSnap
    <3> QED BY <1>1, <2>1, <2>2, <2>3, <3>1, GoToStep
  <2>4. CASE Ack(w)
    BY <1>1, <2>1, <2>2, <2>4, ThrowStep
  <2>5. CASE Become(w, [worker[w] EXCEPT !.todo = worker[w].todo \ {c}])
    <3> DEFINE state == [worker[w] EXCEPT !.todo = worker[w].todo \ {c}]
    <3>1. state \in Busy /\ state.snap = worker[w].snap /\ state.step = worker[w].step
      BY <1>2 DEF Busy
    <3>2. Held(state, job')
      BY <1>1, <1>3, <1>8, <3>1 DEF Held, PublishNow
    <3> QED BY <2>1, <2>2, <2>5, <3>1, <3>2, ConsumerStep
  <2> QED BY <1>8, <2>3, <2>4, <2>5 DEF PublishNow
<1>9. CASE CatchDelete(w)
  <2>1. JobsStayTyped /\ CountsOK'
    BY <1>9, JobsUnchanged, CountsStep DEF CatchDelete
  <2>2. RowsStayTyped
    BY <1>2, <1>3, <1>9, <2>1, RowReplaced DEF CatchDelete, RowDeleted
  <2> QED BY <1>1, <1>9, <2>1, <2>2, ThrowStep DEF CatchDelete
<1> QED BY <1>4, <1>5, <1>6, <1>7, <1>8, <1>9 DEF HandleRequest

\* Hangfire's steps keep the types.
LEMMA JobTyped ==
  ASSUME TypeInv, NEW j \in JobIds, RunJob(j) \/ JobFails(j)
  PROVE  TypeInv'
<1>1. job[j] \in Job /\ job[j] # NoJob
  BY DEF RunJob, JobFails, StartJob, JobPublish, EndJob, TypeInv, TypeOK
<1>2. PICK new : job' = [job EXCEPT ![j] = new] /\ new \in Job
  <2>1. CASE StartJob(j)
    <3>1. [job[j] EXCEPT !.phase = "running"] \in Job
      BY <1>1 DEF Job
    <3> QED BY <2>1, <3>1 DEF StartJob
  <2>2. ASSUME NEW c \in Channels, JobPublish(j, c)
        PROVE \E new : job' = [job EXCEPT ![j] = new] /\ new \in Job
    <3>1. [job[j] EXCEPT !.todo = job[j].todo \ {c}] \in Job
      BY <1>1 DEF Job
    <3> QED BY <2>2, <3>1 DEF JobPublish
  <2>3. CASE EndJob(j)
    <3>1. [job[j] EXCEPT !.phase = "over"] \in Job
      BY <1>1 DEF Job
    <3> QED BY <2>3, <3>1 DEF EndJob
  <2>4. CASE JobFails(j)
    <3>1. [job[j] EXCEPT !.phase = "scheduled", !.todo = Channels] \in Job
      BY <1>1 DEF Job
    <3>2. job' = [job EXCEPT ![j] = [job[j] EXCEPT !.phase = "scheduled", !.todo = Channels]]
      BY <1>1, <2>4 DEF JobFails, TypeInv, TypeOK
    <3> QED BY <3>1, <3>2
  <2> QED BY <2>1, <2>2, <2>3, <2>4 DEF RunJob
<1>3. new # NoJob
  BY <1>2, DispatchAssumption
<1>4. JobsStayTyped
  BY <1>2, <1>3 DEF JobsStayTyped, JobsKept, TypeInv, TypeOK
<1>5. CountsOK'
  BY CountsStep
     DEF RunJob, JobFails, StartJob, JobPublish, EndJob
<1>6. UNCHANGED <<row, worker>>
  BY DEF RunJob, JobFails, StartJob, JobPublish, EndJob
<1>7. TypeOK'
  BY <1>4, <1>5, <1>6 DEF TypeInv, TypeOK, JobsStayTyped, CountsOK
<1>8. \A m \in Msg : Known(row[m], job')
  <2>1. row \in [Msg -> Row \cup {NoRow}]
    BY DEF TypeInv, TypeOK
  <2> QED BY <1>4, <2>1, KnownKept DEF TypeInv, JobsStayTyped
<1>9. \A w \in Workers : Held(worker[w], job')
  <2> SUFFICES ASSUME NEW w \in Workers, worker[w] # Idle PROVE Held(worker[w], job')
    BY DEF Held
  <2>1. worker[w].snap \in Row \cup {NoRow} /\ Held(worker[w], job)
    BY DEF TypeInv, TypeOK, Busy
  <2> QED BY <1>4, <2>1, KnownKept DEF JobsStayTyped, Held
<1> QED BY <1>6, <1>7, <1>8, <1>9 DEF TypeInv

\* The value objects a consumer may put into its snapshot are parts.
LEMMA OutcomeTyped ==
  ASSUME TypeInv, NEW w \in Workers, worker[w] # Idle, At(w, "send"),
         NEW c \in Channels, NEW allowed \in BOOLEAN, NEW part \in Part,
         NEW failed \in BOOLEAN, Outcome(w, c, allowed, part, failed),
         CountsOK', UNCHANGED <<row, job>>
  PROVE  TypeInv'
<1>1. worker[w] \in Busy /\ Held(worker[w], job)
  BY BusyFacts DEF TypeInv
<1>2. worker[w].snap \in Row
  BY <1>1 DEF Held, At, HasSnap
<1>3. JobsStayTyped
  BY JobsUnchanged
<1>4. RowsStayTyped
  BY DEF TypeInv, TypeOK, RowsStayTyped
<1>5. CASE Throw(w) \/ Ack(w)
  BY <1>3, <1>4, <1>5, ThrowStep
<1>6. CASE Become(w, [worker[w] EXCEPT !.step = "record", !.failed = failed,
                                       !.snap.part[c] = part])
  <2> DEFINE snap == [worker[w].snap EXCEPT !.part[c] = part]
             state == [worker[w] EXCEPT !.step = "record", !.failed = failed, !.snap = snap]
  <2>1. snap \in Row /\ Known(snap, job')
    <3>1. snap \in Row /\ snap.jobId = worker[w].snap.jobId
      BY <1>2, RowValues
    <3>2. Known(worker[w].snap, job) /\ worker[w].snap # NoRow
      BY <1>1, <1>2, DispatchAssumption DEF Held
    <3> HIDE DEF snap
    <3> QED BY <3>1, <3>2 DEF Known
  <2>2. state \in Busy /\ state.step = "record" /\ state.snap = snap
    BY <1>1, <2>1 DEF Busy, Steps
  <2>3. Held(state, job')
    BY <2>1, <2>2 DEF Held
  <2>4. Become(w, state)
    BY <1>1, <1>6 DEF Busy
  <2> QED BY <1>3, <1>4, <2>2, <2>3, <2>4, ConsumerStep
<1> QED BY <1>5, <1>6 DEF Outcome

\* The send consumers keep the types.
LEMMA SendTyped ==
  ASSUME TypeInv, NEW w \in Workers, HandleSend(w)
  PROVE  TypeInv'
<1> DEFINE m == MessageOf(w)
<1>1. worker[w] # Idle /\ UNCHANGED job
  BY DEF HandleSend, LoadForSend, CallProvider, RecordOutcome, At
<1>2. worker[w] \in Busy /\ m \in Msg /\ Held(worker[w], job)
  BY <1>1, BusyFacts DEF TypeInv
<1>3. JobsStayTyped /\ Known(NoRow, job')
  BY <1>1, JobsUnchanged DEF Known
<1>4. ASSUME NEW c \in Channels, LoadForSend(w, c) PROVE TypeInv'
  <2>1. CountsOK'
    BY <1>4, CountsStep DEF LoadForSend
  <2>2. RowsStayTyped
    BY <1>1, <1>4 DEF LoadForSend, TypeInv, TypeOK, RowsStayTyped
  <2>3. CASE NothingToSend(c, m)
    BY <1>1, <1>3, <1>4, <2>1, <2>2, <2>3, ThrowStep DEF LoadForSend
  <2>4. CASE ~NothingToSend(c, m)
    <3>1. row[m] \in Row /\ Known(row[m], job')
      BY <1>1, <1>2, <2>4 DEF NothingToSend, TypeInv, TypeOK
    <3>2. "send" \in Steps
      BY DEF Steps
    <3>3. Become(w, [worker[w] EXCEPT !.step = "send", !.snap = row[m]])
      BY <1>4, <2>4 DEF LoadForSend
    <3> QED BY <1>1, <1>3, <2>1, <2>2, <3>1, <3>2, <3>3, MoveState, ConsumerStep
  <2> QED BY <2>3, <2>4
<1>5. ASSUME NEW c \in Channels, CallProvider(w, c) PROVE TypeInv'
  <2> DEFINE part == worker[w].snap.part[c]
  <2>1. part \in Part /\ At(w, "send") /\ c \in ChannelNames
    BY <1>2, <1>5, DispatchAssumption DEF CallProvider, At, Held, HasSnap, Row
  <2>2. accepted[m][c] + 1 \in Nat
    BY <1>2 DEF TypeInv, TypeOK
  <2>3. /\ Send(c, part, accepted[m][c] + 1) \in Part /\ Send(c, part, NoId) \in Part
        /\ Retry(part) \in Part /\ Invalid(part) \in Part
        /\ ValidatorDeny(c, part) \in Part
    BY <2>1, <2>2, PartOperations DEF NoId
  <2>4. CanSend(c, part) \in BOOLEAN /\ CanRetry(part) \in BOOLEAN /\ CanInvalid(part) \in BOOLEAN
    BY DEF CanSend, CanRetry, CanInvalid
  <2>5. UNCHANGED <<row, job>> /\ CountsOK'
    BY <1>2, <1>5, CountsStep DEF CallProvider, MayAccept
  <2> HIDE DEF part
  <2>6. \/ Outcome(w, c, TRUE, ValidatorDeny(c, part), FALSE)
        \/ Outcome(w, c, CanInvalid(part), Invalid(part), FALSE)
        \/ Outcome(w, c, CanSend(c, part), Send(c, part, accepted[m][c] + 1), FALSE)
        \/ Outcome(w, c, CanSend(c, part), Send(c, part, NoId), FALSE)
        \/ Outcome(w, c, CanRetry(part), Retry(part), TRUE)
    BY <1>5 DEF CallProvider, part
  <2>7. TRUE \in BOOLEAN /\ FALSE \in BOOLEAN
    OBVIOUS
  <2> QED BY <1>1, <2>1, <2>3, <2>4, <2>5, <2>6, <2>7, OutcomeTyped
<1>6. CASE RecordOutcome(w)
  <2>1. CountsOK'
    BY <1>6, CountsStep DEF RecordOutcome
  <2>2. worker[w].snap \in Row
    BY <1>1, <1>2, <1>6 DEF RecordOutcome, At, Held, HasSnap
  <2>3. Known(worker[w].snap, job')
    BY <1>1, <1>2 DEF Held
  <2>4. RowsStayTyped
    BY <1>2, <1>3, <1>6, <2>2, <2>3, RowReplaced DEF RecordOutcome
  <2> QED BY <1>1, <1>3, <1>6, <2>1, <2>4, ThrowStep DEF RecordOutcome
<1> QED BY <1>4, <1>5, <1>6 DEF HandleSend

\* The handler of delivery reports keeps the types.
LEMMA ReportTyped ==
  ASSUME TypeInv, NEW w \in Workers, HandleReport(w)
  PROVE  TypeInv'
<1> DEFINE m == MessageOf(w)
<1>0. "Sms" \in Channels
  BY DEF HandleReport, LoadForReport, SaveReport, Reports
<1>1. worker[w] # Idle /\ UNCHANGED job
  BY DEF HandleReport, LoadForReport, SaveReport, At
<1>2. worker[w] \in Busy /\ m \in Msg /\ Held(worker[w], job)
  BY <1>1, BusyFacts DEF TypeInv
<1>3. JobsStayTyped /\ Known(NoRow, job') /\ CountsOK'
  BY <1>1, JobsUnchanged, CountsStep DEF HandleReport, LoadForReport, SaveReport, Known
<1>4. CASE LoadForReport(w)
  <2>1. RowsStayTyped
    BY <1>1, <1>4 DEF LoadForReport, TypeInv, TypeOK, RowsStayTyped
  <2>2. CASE Ack(w) \/ Throw(w)
    BY <1>1, <1>3, <2>1, <2>2, ThrowStep
  <2>3. ASSUME FindsSms(m, worker[w].cmd.id), NEW part, part = Report(row[m].part["Sms"], worker[w].cmd.delivered),
               Become(w, [worker[w] EXCEPT !.step = "record",
                            !.snap = [row[m] EXCEPT !.part["Sms"] = part]])
        PROVE  TypeInv'
    <3>1. row[m] \in Row /\ row[m] # NoRow /\ Known(row[m], job)
      BY <1>2, <2>3 DEF TypeInv, TypeOK, FindsSms
    <3>2. part \in Part
      BY <1>0, <3>1, <2>3 DEF Row, Part, Report, SmsStatus
    <3> DEFINE snap == [row[m] EXCEPT !.part["Sms"] = part]
    <3>3. snap \in Row /\ snap.jobId = row[m].jobId
      BY <1>0, <3>1, <3>2, RowValues
    <3>4. "record" \in Steps
      BY DEF Steps
    <3>5. Become(w, [worker[w] EXCEPT !.step = "record", !.snap = snap])
      BY <2>3
    <3> HIDE DEF snap
    <3>6. Known(snap, job')
      BY <1>1, <3>1, <3>3 DEF Known
    <3> QED BY <1>1, <1>3, <2>1, <3>3, <3>4, <3>5, <3>6, MoveState, ConsumerStep
  <2> QED BY <1>4, <2>2, <2>3 DEF LoadForReport
<1>5. CASE SaveReport(w)
  <2>1. worker[w].snap \in Row
    BY <1>1, <1>2, <1>5 DEF SaveReport, At, Held, HasSnap
  <2>2. Known(worker[w].snap, job')
    BY <1>1, <1>2 DEF Held
  <2>3. RowsStayTyped
    BY <1>2, <1>3, <1>5, <2>1, <2>2, RowReplaced DEF SaveReport
  <2> QED BY <1>1, <1>3, <1>5, <2>3, ThrowStep DEF SaveReport
<1> QED BY <1>4, <1>5 DEF HandleReport

\* DeleteMessageRequestHandler keeps the types.
LEMMA DeleteTyped ==
  ASSUME TypeInv, NEW w \in Workers, HandleDelete(w)
  PROVE  TypeInv'
<1> DEFINE m == MessageOf(w)
<1>1. worker[w] # Idle
  BY DEF HandleDelete, LoadForDelete, DeleteRow, DropJob, At
<1>2. worker[w] \in Busy /\ m \in Msg /\ Held(worker[w], job)
  BY <1>1, BusyFacts DEF TypeInv
<1>3. CASE LoadForDelete(w)
  <2>1. JobsStayTyped /\ CountsOK'
    BY <1>3, JobsUnchanged, CountsStep DEF LoadForDelete
  <2>2. RowsStayTyped
    BY <1>3 DEF LoadForDelete, TypeInv, TypeOK, RowsStayTyped
  <2>3. CASE Ack(w)
    BY <1>1, <2>1, <2>2, <2>3, ThrowStep
  <2>4. ASSUME row[m] # NoRow, NEW step \in {"delete", "dropJob"},
               Become(w, [worker[w] EXCEPT !.step = step, !.snap = row[m]])
        PROVE  TypeInv'
    <3>1. row[m] \in Row /\ Known(row[m], job')
      BY <1>2, <1>3, <2>4 DEF LoadForDelete, TypeInv, TypeOK
    <3>2. step \in Steps
      BY DEF Steps
    <3> QED BY <1>1, <2>1, <2>2, <2>4, <3>1, <3>2, MoveState, ConsumerStep
  <2> QED BY <1>3, <2>3, <2>4 DEF LoadForDelete
<1>4. CASE DeleteRow(w)
  <2>1. JobsStayTyped
    BY <1>4, JobsUnchanged DEF DeleteRow
  <2>2. CountsOK'
    <3>1. withdrawn' \in [Msg -> {"no", "early", "late"}]
      BY <1>2, <1>4 DEF DeleteRow, Withdrawn, TypeInv, TypeOK
    <3>2. spent' \in [faults : Nat, resends : Nat, deletes : Nat, requests : [Msg -> Nat],
                kinds : SUBSET FaultKinds]
      BY <1>4, FaultTyped DEF DeleteRow, TypeInv, TypeOK
    <3> QED BY <1>4, <3>1, <3>2 DEF DeleteRow, TypeInv, TypeOK, CountsOK
  <2>3. NoRow \in Row \cup {NoRow} /\ Known(NoRow, job')
    BY DEF Known
  <2>4. RowsStayTyped
    BY <1>2, <1>4, <2>1, <2>3, RowReplaced DEF DeleteRow, RowDeleted
  <2>5. "dropJob" \in Steps /\ worker[w].snap \in Row
    BY <1>1, <1>2, <1>4 DEF Steps, DeleteRow, At, Held, HasSnap
  <2> QED BY <1>1, <1>4, <2>1, <2>2, <2>4, <2>5, GoToStep, ThrowStep DEF DeleteRow
<1>5. CASE DropJob(w)
  <2> DEFINE j == worker[w].snap.jobId
  <2>1. CountsOK'
    BY <1>5, CountsStep DEF DropJob
  <2>2. worker[w].snap \in Row /\ worker[w].snap # NoRow
    BY <1>1, <1>2, <1>5, DispatchAssumption DEF DropJob, At, Held, HasSnap
  <2>3. JobsStayTyped
    <3>1. CASE j # NoJob /\ job' = [job EXCEPT ![j].live = FALSE]
      <4>1. j \in JobIds /\ job[j] \in Job
        BY <1>1, <1>2, <2>2, <3>1 DEF Held, Known, Row, TypeInv, TypeOK
      <4>2. [job[j] EXCEPT !.live = FALSE] \in Job
        BY <4>1 DEF Job
      <4>3. [job[j] EXCEPT !.live = FALSE] # NoJob
        BY <4>2, DispatchAssumption
      <4>4. job' = [job EXCEPT ![j] = [job[j] EXCEPT !.live = FALSE]]
        BY <3>1
      <4> QED BY <4>1, <4>2, <4>3, <4>4 DEF JobsStayTyped, JobsKept, TypeInv, TypeOK
    <3>2. CASE UNCHANGED job
      BY <3>2, JobsUnchanged
    <3> QED BY <1>5, <3>1, <3>2 DEF DropJob
  <2>4. RowsStayTyped
    BY <1>2, <1>5, <2>3, RowReplaced DEF DropJob, Known
  <2>5. "delete" \in Steps
    BY DEF Steps
  <2> QED BY <1>1, <1>5, <2>1, <2>2, <2>3, <2>4, <2>5, GoToStep, ThrowStep DEF DropJob
<1> QED BY <1>3, <1>4, <1>5 DEF HandleDelete

\* The direct delete keeps the types: it takes a row away.
LEMMA ByTagTyped ==
  ASSUME TypeInv, NEW m \in Msg, DeleteByTag(m)
  PROVE  TypeInv'
<1>1. JobsStayTyped
  BY JobsUnchanged DEF DeleteByTag
<1>2. RowsStayTyped
  BY <1>1, RowReplaced DEF DeleteByTag, RowDeleted, Known
<1>3. withdrawn' \in [Msg -> {"no", "early", "late"}]
  BY DEF DeleteByTag, Withdrawn, TypeInv, TypeOK
<1>4. spent' \in [faults : Nat, resends : Nat, deletes : Nat, requests : [Msg -> Nat],
              kinds : SUBSET FaultKinds]
  BY SpentTyped DEF DeleteByTag, TypeInv
<1>5. TypeOK'
  BY <1>1, <1>2, <1>3, <1>4 DEF DeleteByTag, TypeInv, TypeOK, RowsStayTyped, JobsStayTyped
<1>6. \A w \in Workers : Held(worker[w], job)'
  BY DEF DeleteByTag, TypeInv, Held, Known
<1> QED BY <1>2, <1>5, <1>6 DEF TypeInv, RowsStayTyped

\* Every step keeps the types.
LEMMA NextTypeInv == TypeInv /\ [Next]_vars => TypeInv'
<1> SUFFICES ASSUME TypeInv, [Next]_vars PROVE TypeInv'
  OBVIOUS
<1>1. CASE Clients
  BY <1>1, ClientsTyped
<1>2. CASE Broker
  BY <1>2, BrokerTyped DEF Broker
<1>3. ASSUME NEW w \in Workers, Consume(w) PROVE TypeInv'
  BY <1>3, RequestTyped, SendTyped, ReportTyped, DeleteTyped DEF Consume
<1>4. ASSUME NEW j \in JobIds, RunJob(j) \/ JobFails(j) PROVE TypeInv'
  BY <1>4, JobTyped
<1>5. ASSUME NEW m \in Msg, DeleteByTag(m) PROVE TypeInv'
  BY <1>5, ByTagTyped
<1>6. CASE UNCHANGED vars
  BY <1>6 DEF vars, TypeInv, TypeOK
<1> QED BY <1>1, <1>2, <1>3, <1>4, <1>5, <1>6 DEF Next

\* Type correctness of the outbound path: in particular what a consumer
\* writes over a row is a row, and no delivery is tried more than MaxAttempts
\* times again.
THEOREM DispatchTypeCorrect == Spec => []TypeOK
<1>1. TypeInv => TypeOK
  BY DEF TypeInv
<1> QED BY <1>1, InitTypeInv, NextTypeInv, PTL DEF Spec

-----------------------------------------------------------------------------
(* Where rows come from                                                    *)

\* A row of the next state was there, is new, or is what a consumer of this
\* message held.
RowsFrom ==
  \A m \in Msg :
     \/ row'[m] \in {row[m], NoRow, NewRow}
     \/ \E w \in Workers : /\ worker[w] # Idle /\ MessageOf(w) = m
                           /\ worker[w].snap \in Row
                           /\ row'[m] = worker[w].snap

\* What a provider call may make of the part of channel c: nothing sent, sent
\* as far as the code can tell, or sent and counted.
Attempted(m, c, before, after) ==
  \/ after = ValidatorDeny(c, before)
  \/ after = Invalid(before)
  \/ CanRetry(before) /\ after = Retry(before)
  \/ ProviderAccepts(m, c) /\ after = Send(c, before, accepted[m][c] + 1)
  \/ (c = "Sms" \/ (c = "Telegram" /\ m \in EmptyTelegram)) /\ after = Send(c, before, NoId)

\* A consumer's snapshot in the next state: none; the one it held, unless it
\* is about to send; a new or queued row; the row of its message as loaded;
\* its snapshot with the outcome of a provider call; a reported row.
SnapFrom(w) ==
  LET before == worker[w].snap
      after == worker'[w].snap
      m == MessageOf(w) IN
  \/ after = NoRow
  \/ /\ worker[w] # Idle /\ worker'[w].cmd = worker[w].cmd
     /\ \/ after = before /\ (At(w, "send")' => At(w, "send"))
        \/ ~At(w, "send")' /\ after \in {NewRow, EnqueuedRow(NewRow, NoJob)}
        \/ /\ ~At(w, "send")' /\ before \in Row /\ At(w, "schedule")
           /\ \E j \in JobIds : after = EnqueuedRow(before, j)
        \/ ~At(w, "send")' /\ after = row[m] /\ row[m] \in Row
        \/ /\ after = row[m] /\ row[m] \in Row
           /\ \E c \in Channels : worker[w].cmd.type = c /\ ~NothingToSend(c, m)
        \/ /\ At(w, "send") /\ ~At(w, "send")' /\ before \in Row
           /\ \E c \in Channels, part \in Part :
                 /\ worker[w].cmd.type = c
                 /\ Attempted(m, c, before.part[c], part)
                 /\ after = [before EXCEPT !.part[c] = part]
        \/ /\ ~At(w, "send")' /\ row[m] \in Row /\ "Sms" \in Channels
           /\ CanReport(row[m].part["Sms"]) /\ row[m].part["Sms"].id # NoId
           /\ \E delivered \in BOOLEAN :
                 after = [row[m] EXCEPT !.part["Sms"] =
                                           Report(row[m].part["Sms"], delivered)]

SnapsFrom == \A w \in Workers : worker'[w] # Idle => SnapFrom(w)

\* Providers never take a message back.
AcceptedGrows ==
  \A m \in Msg, c \in Channels : accepted[m][c] <= accepted'[m][c]

\* The counts of the providers stand still or one goes up.
LEMMA Grows ==
  ASSUME TypeInv
  PROVE  /\ UNCHANGED accepted => AcceptedGrows
         /\ \A m \in Msg, c \in Channels : ProviderAccepts(m, c) => AcceptedGrows
<1>1. \A m \in Msg, c \in Channels : accepted[m][c] \in Nat
  BY DEF TypeInv, TypeOK
<1>2. ASSUME NEW m \in Msg, NEW c \in Channels, ProviderAccepts(m, c) PROVE AcceptedGrows
  BY <1>1, <1>2 DEF ProviderAccepts, AcceptedGrows, TypeInv, TypeOK
<1> QED BY <1>1, <1>2 DEF AcceptedGrows

\* Only the row of the consumer's message changes, in one of three ways.
LEMMA RowFrom ==
  ASSUME TypeInv, NEW w \in Workers, worker[w] # Idle, NEW r,
         UNCHANGED row \/ row' = [row EXCEPT ![MessageOf(w)] = r],
         r \in {NoRow, NewRow} \/ (r = worker[w].snap /\ r \in Row)
  PROVE  RowsFrom
BY DEF RowsFrom, TypeInv, TypeOK

\* Only one consumer changes.
LEMMA OneSnap ==
  ASSUME TypeInv, NEW w \in Workers, NEW state, Become(w, state),
         state # Idle => SnapFrom(w)
  PROVE  SnapsFrom
<1> SUFFICES ASSUME NEW v \in Workers, worker'[v] # Idle PROVE SnapFrom(v)
  BY DEF SnapsFrom
<1>1. CASE v = w
  BY <1>1 DEF Become, TypeInv, TypeOK
<1>2. CASE v # w
  <2>1. worker'[v] = worker[v]
    BY <1>2 DEF Become, TypeInv, TypeOK
  <2> QED BY <2>1 DEF SnapFrom, At
<1> QED BY <1>1, <1>2

\* A consumer that throws or is done holds no row.
LEMMA ThrowSnap ==
  ASSUME TypeInv, NEW w \in Workers, worker[w] # Idle, Throw(w) \/ Ack(w)
  PROVE  SnapsFrom
<1>1. CASE Throw(w)
  <2>1. PICK state \in Busy \cup {Idle} :
           Become(w, state) /\ (state # Idle => state.snap = NoRow)
    BY <1>1, ThrowState DEF TypeInv
  <2>2. state # Idle => SnapFrom(w)
    BY <2>1 DEF SnapFrom, Become, TypeInv, TypeOK
  <2> QED BY <2>1, <2>2, OneSnap
<1>2. CASE Ack(w)
  BY <1>2, OneSnap DEF Ack
<1> QED BY <1>1, <1>2

\* A consumer that goes on with the row it holds.
LEMMA SameSnap ==
  ASSUME TypeInv, NEW w \in Workers, worker[w] # Idle, NEW state, Become(w, state),
         state.snap = worker[w].snap, state.cmd = worker[w].cmd,
         state.step = "send" => worker[w].step = "send"
  PROVE  SnapsFrom
<1>1. worker'[w] = state
  BY DEF Become, TypeInv, TypeOK
<1>2. SnapFrom(w)
  BY <1>1 DEF SnapFrom, At
<1> QED BY <1>2, OneSnap

\* GoTo keeps the row, and no consumer goes to "send" that way.
LEMMA GoToSnap ==
  ASSUME TypeInv, NEW w \in Workers, worker[w] # Idle, NEW step \in Steps \ {"send"},
         GoTo(w, step)
  PROVE  SnapsFrom
<1>1. worker[w] \in Busy
  BY BusyFacts DEF TypeInv
<1>2. /\ [worker[w] EXCEPT !.step = step].snap = worker[w].snap
      /\ [worker[w] EXCEPT !.step = step].cmd = worker[w].cmd
      /\ [worker[w] EXCEPT !.step = step].step = step
  BY <1>1 DEF Busy
<1> QED BY <1>2, SameSnap DEF GoTo

\* A consumer that goes on with another row.
LEMMA MoveSnap ==
  ASSUME TypeInv, NEW w \in Workers, worker[w] # Idle, NEW step, NEW snap,
         Become(w, [worker[w] EXCEPT !.step = step, !.snap = snap])
  PROVE  /\ worker'[w].snap = snap /\ worker'[w].cmd = worker[w].cmd
         /\ worker'[w].step = step
         /\ SnapFrom(w) => SnapsFrom
<1>1. worker[w] \in Busy
  BY BusyFacts DEF TypeInv
<1>2. worker'[w] = [worker[w] EXCEPT !.step = step, !.snap = snap]
  BY DEF Become, TypeInv, TypeOK
<1>3. SnapFrom(w) => SnapsFrom
  BY OneSnap
<1> QED BY <1>1, <1>2, <1>3 DEF Busy

Froms == RowsFrom /\ SnapsFrom /\ AcceptedGrows

\* SendMessageRequestHandler: its rows are new, queued or gone.
LEMMA RequestFrom ==
  ASSUME TypeInv, NEW w \in Workers, HandleRequest(w)
  PROVE  Froms
<1>1. worker[w] # Idle /\ AcceptedGrows
  BY Grows
     DEF HandleRequest, IsExist, AddRow, ScheduleJob, SavePending, PublishNow,
         CatchDelete, At
<1>2. worker[w] \in Busy /\ Held(worker[w], job)
  BY <1>1, BusyFacts DEF TypeInv
<1>3. "catch" \in Steps \ {"send"} /\ "add" \in Steps \ {"send"}
  BY DEF Steps
<1>4. CASE IsExist(w)
  BY <1>1, <1>3, <1>4, ThrowSnap, GoToSnap, RowFrom DEF IsExist, Froms
<1>5. CASE AddRow(w)
  <2>1. RowsFrom
    BY <1>1, <1>5, RowFrom DEF AddRow
  <2>2. CASE Throw(w)
    BY <1>1, <2>1, <2>2, ThrowSnap DEF Froms
  <2>3. CASE Become(w, [worker[w] EXCEPT !.step = "schedule", !.snap = NewRow])
    <3>1. SnapFrom(w)
      BY <1>1, <2>3, MoveSnap DEF SnapFrom, At
    <3> QED BY <1>1, <2>1, <2>3, <3>1, MoveSnap DEF Froms
  <2>4. CASE Become(w, [worker[w] EXCEPT !.step = "save",
                                         !.snap = EnqueuedRow(NewRow, NoJob)])
    <3>1. SnapFrom(w)
      BY <1>1, <2>4, MoveSnap DEF SnapFrom, At
    <3> QED BY <1>1, <2>1, <2>4, <3>1, MoveSnap DEF Froms
  <2> QED BY <1>5, <2>2, <2>3, <2>4 DEF AddRow
<1>6. CASE ScheduleJob(w)
  <2>1. RowsFrom
    BY <1>1, <1>6, RowFrom DEF ScheduleJob
  <2>2. ASSUME NEW j \in JobIds,
               Become(w, [worker[w] EXCEPT !.step = "save", !.snap = EnqueuedRow(@, j)])
        PROVE  SnapsFrom
    <3> DEFINE snap == EnqueuedRow(worker[w].snap, j)
    <3>1. Become(w, [worker[w] EXCEPT !.step = "save", !.snap = snap])
      BY <1>2, <2>2 DEF Busy
    <3>2. /\ worker'[w].snap = snap /\ worker'[w].cmd = worker[w].cmd
          /\ worker'[w].step = "save"
          /\ SnapFrom(w) => SnapsFrom
      BY <1>1, <3>1, MoveSnap
    <3>3. worker[w].snap \in Row /\ At(w, "schedule")
      BY <1>1, <1>2, <1>6 DEF ScheduleJob, At, Held, HasSnap
    <3> QED BY <1>1, <3>2, <3>3 DEF SnapFrom, At
  <2>3. CASE GoTo(w, "catch")
    BY <1>1, <1>3, <2>1, <2>3, GoToSnap DEF Froms
  <2> QED BY <1>1, <1>6, <2>1, <2>2, <2>3 DEF ScheduleJob, Froms
<1>7. CASE SavePending(w)
  <2>1. worker[w].snap \in Row
    BY <1>1, <1>2, <1>7 DEF SavePending, At, Held, HasSnap
  <2>2. RowsFrom
    BY <1>1, <1>7, <2>1, RowFrom DEF SavePending
  <2>3. CASE AfterSave(w)
    <3> DEFINE state == [worker[w] EXCEPT !.step = "publish", !.todo = Channels]
    <3>1. state.snap = worker[w].snap /\ state.cmd = worker[w].cmd /\ state.step = "publish"
      BY <1>2 DEF Busy
    <3>2. Become(w, state) \/ Ack(w)
      BY <2>3 DEF AfterSave
    <3> HIDE DEF state
    <3> QED BY <1>1, <2>2, <3>1, <3>2, SameSnap, ThrowSnap DEF Froms
  <2>4. CASE GoTo(w, "catch")
    BY <1>1, <1>3, <2>2, <2>4, GoToSnap DEF Froms
  <2> QED BY <1>7, <2>3, <2>4 DEF SavePending
<1>8. ASSUME NEW c \in Channels, PublishNow(w, c) PROVE Froms
  <2>1. RowsFrom
    BY <1>1, <1>8, RowFrom DEF PublishNow
  <2>2. CASE GoTo(w, "catch")
    BY <1>1, <1>3, <2>1, <2>2, GoToSnap DEF Froms
  <2>3. CASE Ack(w)
    BY <1>1, <2>1, <2>3, ThrowSnap DEF Froms
  <2>4. CASE Become(w, [worker[w] EXCEPT !.todo = worker[w].todo \ {c}])
    <3> DEFINE state == [worker[w] EXCEPT !.todo = worker[w].todo \ {c}]
    <3>1. /\ state.snap = worker[w].snap /\ state.cmd = worker[w].cmd
          /\ state.step = worker[w].step
      BY <1>2 DEF Busy
    <3> HIDE DEF state
    <3>2. SnapsFrom
      BY <1>1, <2>4, <3>1, SameSnap DEF state
    <3> QED BY <1>1, <2>1, <3>2 DEF Froms
  <2> QED BY <1>8, <2>2, <2>3, <2>4 DEF PublishNow
<1>9. CASE CatchDelete(w)
  BY <1>1, <1>9, ThrowSnap, RowFrom DEF CatchDelete, RowDeleted, Froms
<1> QED BY <1>4, <1>5, <1>6, <1>7, <1>8, <1>9 DEF HandleRequest

\* What a provider call leads to: the outcome in the snapshot, or no row.
LEMMA OutcomeFrom ==
  ASSUME TypeInv, NEW w \in Workers, worker[w] # Idle, At(w, "send"),
         NEW c \in Channels, worker[w].cmd.type = c,
         NEW allowed, NEW part \in Part, NEW failed,
         allowed => Attempted(MessageOf(w), c, worker[w].snap.part[c], part),
         Outcome(w, c, allowed, part, failed)
  PROVE  SnapsFrom
<1>1. worker[w] \in Busy /\ worker[w].snap \in Row
  BY BusyFacts DEF TypeInv, Held, At, HasSnap
<1>2. CASE Throw(w) \/ Ack(w)
  BY <1>2, ThrowSnap
<1>3. CASE allowed /\ Become(w, [worker[w] EXCEPT !.step = "record", !.failed = failed,
                                                  !.snap.part[c] = part])
  <2> DEFINE snap == [worker[w].snap EXCEPT !.part[c] = part]
             state == [worker[w] EXCEPT !.step = "record", !.failed = failed, !.snap = snap]
  <2>1. Become(w, state)
    BY <1>1, <1>3 DEF Busy
  <2>2. state.snap = snap /\ state.cmd = worker[w].cmd /\ state.step = "record"
    BY <1>1 DEF Busy
  <2> HIDE DEF state
  <2>3. worker'[w] = state
    BY <2>1 DEF Become, TypeInv, TypeOK
  <2>4. SnapFrom(w)
    BY <1>1, <1>3, <2>2, <2>3 DEF SnapFrom, At
  <2> QED BY <2>1, <2>4, OneSnap
<1> QED BY <1>2, <1>3 DEF Outcome

\* The send consumers: a loaded row, its outcome, and that row written back.
LEMMA SendFrom ==
  ASSUME TypeInv, NEW w \in Workers, HandleSend(w)
  PROVE  Froms
<1> DEFINE m == MessageOf(w)
<1>1. worker[w] # Idle
  BY DEF HandleSend, LoadForSend, CallProvider, RecordOutcome, At
<1>2. worker[w] \in Busy /\ m \in Msg /\ Held(worker[w], job)
  BY <1>1, BusyFacts DEF TypeInv
<1>3. ASSUME NEW c \in Channels, LoadForSend(w, c) PROVE Froms
  <2>1. RowsFrom /\ AcceptedGrows
    BY <1>1, <1>3, RowFrom, Grows DEF LoadForSend
  <2>2. CASE NothingToSend(c, m)
    BY <1>1, <1>3, <2>1, <2>2, ThrowSnap DEF LoadForSend, Froms
  <2>3. CASE ~NothingToSend(c, m)
    <3>1. row[m] \in Row
      BY <1>2, <2>3 DEF NothingToSend, TypeInv, TypeOK
    <3>2. Become(w, [worker[w] EXCEPT !.step = "send", !.snap = row[m]])
      BY <1>3, <2>3 DEF LoadForSend
    <3>3. SnapFrom(w)
      BY <1>1, <1>3, <2>3, <3>1, <3>2, MoveSnap DEF SnapFrom, LoadForSend
    <3> QED BY <1>1, <2>1, <3>2, <3>3, MoveSnap DEF Froms
  <2> QED BY <2>2, <2>3
<1>4. ASSUME NEW c \in Channels, CallProvider(w, c) PROVE Froms
  <2> DEFINE part == worker[w].snap.part[c]
  <2>1. part \in Part /\ At(w, "send") /\ c \in ChannelNames /\ worker[w].cmd.type = c
    BY <1>1, <1>2, <1>4, DispatchAssumption DEF CallProvider, At, Held, HasSnap, Row
  <2>2. accepted[m][c] + 1 \in Nat
    BY <1>2 DEF TypeInv, TypeOK
  <2>3. /\ Send(c, part, accepted[m][c] + 1) \in Part /\ Send(c, part, NoId) \in Part
        /\ Retry(part) \in Part /\ Invalid(part) \in Part
        /\ ValidatorDeny(c, part) \in Part
    BY <2>1, <2>2, PartOperations DEF NoId
  <2>4. RowsFrom /\ AcceptedGrows
    <3>1. UNCHANGED row /\ (UNCHANGED accepted \/ ProviderAccepts(m, c))
      BY <1>4 DEF CallProvider, MayAccept
    <3> QED BY <1>1, <1>2, <3>1, RowFrom, Grows
  <2> HIDE DEF part
  <2>5. \/ Outcome(w, c, TRUE, ValidatorDeny(c, part), FALSE)
        \/ Outcome(w, c, CanInvalid(part), Invalid(part), FALSE)
        \/ /\ ProviderAccepts(m, c)
           /\ Outcome(w, c, CanSend(c, part), Send(c, part, accepted[m][c] + 1), FALSE)
        \/ /\ c = "Sms" \/ (c = "Telegram" /\ m \in EmptyTelegram)
           /\ Outcome(w, c, CanSend(c, part), Send(c, part, NoId), FALSE)
        \/ Outcome(w, c, CanRetry(part), Retry(part), TRUE)
    BY <1>4 DEF CallProvider, part
  <2>6. /\ Attempted(m, c, part, ValidatorDeny(c, part))
        /\ Attempted(m, c, part, Invalid(part))
        /\ CanRetry(part) => Attempted(m, c, part, Retry(part))
        /\ ProviderAccepts(m, c) => Attempted(m, c, part, Send(c, part, accepted[m][c] + 1))
        /\ c = "Sms" \/ (c = "Telegram" /\ m \in EmptyTelegram) =>
             Attempted(m, c, part, Send(c, part, NoId))
    BY DEF Attempted
  <2>7. SnapsFrom
    BY <1>1, <2>1, <2>3, <2>5, <2>6, OutcomeFrom DEF part
  <2> QED BY <2>4, <2>7 DEF Froms
<1>5. CASE RecordOutcome(w)
  <2>1. worker[w].snap \in Row
    BY <1>1, <1>2, <1>5 DEF RecordOutcome, At, Held, HasSnap
  <2>2. RowsFrom
    BY <1>1, <1>5, <2>1, RowFrom DEF RecordOutcome
  <2> QED BY <1>1, <1>5, <2>2, ThrowSnap, Grows DEF RecordOutcome, Froms
<1> QED BY <1>3, <1>4, <1>5 DEF HandleSend

\* The handler of delivery reports: a reported row, and that row written back.
LEMMA ReportFrom ==
  ASSUME TypeInv, NEW w \in Workers, HandleReport(w)
  PROVE  Froms
<1> DEFINE m == MessageOf(w)
<1>1. worker[w] # Idle /\ AcceptedGrows
  BY Grows DEF HandleReport, LoadForReport, SaveReport, At
<1>2. worker[w] \in Busy /\ m \in Msg /\ Held(worker[w], job)
  BY <1>1, BusyFacts DEF TypeInv
<1>3. CASE LoadForReport(w)
  <2>1. RowsFrom
    BY <1>1, <1>3, RowFrom DEF LoadForReport
  <2>2. CASE Ack(w) \/ Throw(w)
    BY <1>1, <2>1, <2>2, ThrowSnap DEF Froms
  <2>3. ASSUME FindsSms(m, worker[w].cmd.id), CanReport(row[m].part["Sms"]),
               Become(w, [worker[w] EXCEPT !.step = "record",
                  !.snap = [row[m] EXCEPT !.part["Sms"] = Report(@, worker[w].cmd.delivered)]])
        PROVE  Froms
    <3>1. "Sms" \in Channels /\ worker[w].cmd.delivered \in BOOLEAN /\ worker[w].cmd.id \in Ids
      BY <1>3 DEF LoadForReport, Reports
    <3>2. row[m] \in Row /\ row[m].part["Sms"].id # NoId
      BY <1>2, <2>3, <3>1, DispatchAssumption DEF TypeInv, TypeOK, FindsSms, Ids, NoId
    <3> DEFINE snap == [row[m] EXCEPT !.part["Sms"] =
                          Report(row[m].part["Sms"], worker[w].cmd.delivered)]
    <3>3. Become(w, [worker[w] EXCEPT !.step = "record", !.snap = snap])
      BY <2>3, <3>1, <3>2 DEF Row
    <3>4. /\ worker'[w].snap = snap /\ worker'[w].cmd = worker[w].cmd
          /\ worker'[w].step = "record" /\ (SnapFrom(w) => SnapsFrom)
      BY <1>1, <3>3, MoveSnap
    <3>5. SnapFrom(w)
      BY <1>1, <2>3, <3>1, <3>2, <3>4 DEF SnapFrom, At
    <3> QED BY <1>1, <2>1, <3>4, <3>5 DEF Froms
  <2> QED BY <1>3, <2>2, <2>3 DEF LoadForReport
<1>4. CASE SaveReport(w)
  <2>1. worker[w].snap \in Row
    BY <1>1, <1>2, <1>4 DEF SaveReport, At, Held, HasSnap
  <2>2. RowsFrom
    BY <1>1, <1>4, <2>1, RowFrom DEF SaveReport
  <2> QED BY <1>1, <1>4, <2>2, ThrowSnap DEF SaveReport, Froms
<1> QED BY <1>3, <1>4 DEF HandleReport

\* DeleteMessageRequestHandler: a loaded row, and no row.
LEMMA DeleteFrom ==
  ASSUME TypeInv, NEW w \in Workers, HandleDelete(w)
  PROVE  Froms
<1> DEFINE m == MessageOf(w)
<1>1. worker[w] # Idle /\ AcceptedGrows
  BY Grows DEF HandleDelete, LoadForDelete, DeleteRow, DropJob, At
<1>2. worker[w] \in Busy /\ m \in Msg
  BY <1>1, BusyFacts DEF TypeInv
<1>3. RowsFrom
  BY <1>1, RowFrom DEF HandleDelete, LoadForDelete, DeleteRow, DropJob, RowDeleted
<1>4. CASE Ack(w) \/ Throw(w)
  BY <1>1, <1>3, <1>4, ThrowSnap DEF Froms
<1>5. CASE GoTo(w, "dropJob") \/ GoTo(w, "delete")
  <2>1. {"dropJob", "delete"} \subseteq Steps \ {"send"}
    BY DEF Steps
  <2> QED BY <1>1, <1>3, <1>5, <2>1, GoToSnap DEF Froms
<1>6. ASSUME row[m] # NoRow, NEW step \in {"dropJob", "delete"},
             Become(w, [worker[w] EXCEPT !.step = step, !.snap = row[m]])
      PROVE  Froms
  <2>1. row[m] \in Row
    BY <1>2, <1>6 DEF TypeInv, TypeOK
  <2>2. SnapFrom(w)
    BY <1>1, <1>6, <2>1, MoveSnap DEF SnapFrom, At
  <2> QED BY <1>1, <1>3, <1>6, <2>2, MoveSnap DEF Froms
<1> QED BY <1>4, <1>5, <1>6 DEF HandleDelete, LoadForDelete, DeleteRow, DropJob

\* Deliveries, crashes and lost connections bring no row.
LEMMA BrokerFrom ==
  ASSUME TypeInv, NEW w \in Workers,
         (\E cmd \in Command : Deliver(w, cmd)) \/ ReadFails(w) \/ Crash(w) \/ Disconnect(w)
  PROVE  Froms
<1>1. UNCHANGED <<row, accepted>>
  BY DEF Deliver, ReadFails, Crash, Disconnect
<1>2. RowsFrom /\ AcceptedGrows
  BY <1>1, Grows DEF RowsFrom
<1>3. ASSUME NEW cmd \in Command, Deliver(w, cmd) PROVE SnapsFrom
  <2>1. Begin(cmd, 0, TRUE).snap = NoRow /\ Become(w, Begin(cmd, 0, TRUE))
    BY <1>3 DEF Begin, Deliver
  <2>2. worker'[w].snap = NoRow
    BY <2>1 DEF Become, TypeInv, TypeOK
  <2> QED BY <2>1, <2>2, OneSnap DEF SnapFrom
<1>4. CASE ReadFails(w) \/ Crash(w)
  BY <1>2, <1>4, ThrowSnap DEF ReadFails, Crash, At, Froms
<1>5. ASSUME Disconnect(w) PROVE SnapsFrom
  <2> DEFINE state == [worker[w] EXCEPT !.held = FALSE]
  <2>1. worker[w] # Idle /\ Become(w, state)
    BY <1>5 DEF Disconnect
  <2>2. worker[w] \in Busy
    BY <2>1, BusyFacts DEF TypeInv
  <2>3. state.snap = worker[w].snap /\ state.cmd = worker[w].cmd /\ state.step = worker[w].step
    BY <2>2 DEF Busy
  <2> QED BY <2>1, <2>3, SameSnap
<1> QED BY <1>2, <1>3, <1>4, <1>5 DEF Froms

\* Every step: rows and snapshots come from where they should.
LEMMA NextFroms == TypeInv /\ [Next]_vars => Froms
<1> SUFFICES ASSUME TypeInv, [Next]_vars PROVE Froms
  OBVIOUS
<1>1. CASE UNCHANGED <<row, worker, accepted>>
  BY <1>1, Grows DEF Froms, RowsFrom, SnapsFrom, SnapFrom, At
<1>2. CASE Clients
  <2>1. UNCHANGED <<row, worker, accepted>>
    BY <1>2 DEF Clients, SubmitMessage, SubmitDelete, DueTimeComes, ReSendFailedSms,
         ReportDelivery
  <2> QED BY <1>1, <2>1
<1>3. CASE Broker
  BY <1>3, BrokerFrom DEF Broker
<1>4. ASSUME NEW w \in Workers, Consume(w) PROVE Froms
  BY <1>4, RequestFrom, SendFrom, ReportFrom, DeleteFrom DEF Consume
<1>5. ASSUME NEW j \in JobIds, RunJob(j) \/ JobFails(j) PROVE Froms
  <2>1. UNCHANGED <<row, worker, accepted>>
    BY <1>5 DEF RunJob, JobFails, StartJob, JobPublish, EndJob
  <2> QED BY <1>1, <2>1
<1>6. ASSUME NEW m \in Msg, DeleteByTag(m) PROVE Froms
  <2>1. RowsFrom
    BY <1>6 DEF DeleteByTag, RowDeleted, RowsFrom, TypeInv, TypeOK
  <2>2. UNCHANGED <<worker, accepted>>
    BY <1>6 DEF DeleteByTag
  <2> QED BY <2>1, <2>2, Grows DEF Froms, SnapsFrom, SnapFrom, At
<1>7. CASE UNCHANGED vars
  BY <1>1, <1>7 DEF vars
<1> QED BY <1>2, <1>3, <1>4, <1>5, <1>6, <1>7 DEF Next

-----------------------------------------------------------------------------
(* No phantom sends                                                        *)

\* A consumer that is about to schedule holds the row it has just added.
FreshSnaps == \A w \in Workers : At(w, "schedule") => worker[w].snap = NewRow

\* Rows and snapshots claim only what is so.
HonestInv ==
  /\ NoPhantomSent /\ FreshSnaps
  /\ \A w \in Workers :
        worker[w] # Idle /\ worker[w].snap # NoRow => Honest(worker[w].snap, MessageOf(w))

LEMMA FreshStep ==
  ASSUME TypeInv, FreshSnaps, NEW w \in Workers, NEW s, Become(w, s),
         s # Idle /\ s.step = "schedule" => s.snap = NewRow
  PROVE  FreshSnaps'
BY DEF FreshSnaps, At, Become, TypeInv, TypeOK

\* Nobody else goes to "schedule" than the handler that added the row.
LEMMA NextFresh == TypeInv /\ FreshSnaps /\ [Next]_vars => FreshSnaps'
<1> SUFFICES ASSUME TypeInv, FreshSnaps, [Next]_vars PROVE FreshSnaps'
  OBVIOUS
<1>1. CASE UNCHANGED worker
  BY <1>1 DEF FreshSnaps, At
<1>2. ASSUME NEW w \in Workers, worker[w] # Idle, Throw(w) \/ Ack(w) PROVE FreshSnaps'
  <2>1. \E s : Become(w, s) /\ (s # Idle => s.step # "schedule")
    BY <1>2, ThrowState DEF Ack, TypeInv
  <2> QED BY <2>1, FreshStep
<1>3. ASSUME NEW w \in Workers, worker[w] # Idle, NEW s, Become(w, s), s.step # "schedule"
      PROVE  FreshSnaps'
  BY <1>3, FreshStep
<1>4. ASSUME NEW w \in Workers, worker[w] # Idle, NEW step \in Steps \ {"schedule"}, GoTo(w, step)
      PROVE  FreshSnaps'
  BY <1>3, <1>4, BusyFacts DEF GoTo, Busy, TypeInv
<1>5. ASSUME NEW w \in Workers, HandleRequest(w) PROVE FreshSnaps'
  <2>1. worker[w] # Idle /\ worker[w] \in Busy
    BY <1>5, BusyFacts DEF TypeInv, HandleRequest, IsExist, AddRow, ScheduleJob, SavePending,
         PublishNow, CatchDelete, At
  <2>2. {"add", "catch"} \subseteq Steps \ {"schedule"}
    BY DEF Steps
  <2>3. CASE IsExist(w)
    BY <1>2, <1>4, <2>1, <2>2, <2>3 DEF IsExist
  <2>4. CASE AddRow(w)
    <3>1. CASE Become(w, [worker[w] EXCEPT !.step = "schedule", !.snap = NewRow])
      BY <2>1, <3>1, FreshStep DEF Busy
    <3>2. CASE Become(w, [worker[w] EXCEPT !.step = "save", !.snap = EnqueuedRow(NewRow, NoJob)])
      BY <1>3, <2>1, <3>2 DEF Busy
    <3>3. CASE Throw(w)
      BY <1>2, <2>1, <3>3
    <3> QED BY <2>4, <3>1, <3>2, <3>3 DEF AddRow
  <2>5. CASE ScheduleJob(w)
    <3>1. ASSUME NEW j \in JobIds,
                 Become(w, [worker[w] EXCEPT !.step = "save", !.snap = EnqueuedRow(@, j)])
          PROVE  FreshSnaps'
      BY <1>3, <2>1, <3>1 DEF Busy
    <3> QED BY <1>4, <2>1, <2>2, <2>5, <3>1 DEF ScheduleJob
  <2>6. CASE SavePending(w)
    <3>1. CASE AfterSave(w)
      BY <1>2, <1>3, <2>1, <3>1 DEF AfterSave, Busy
    <3> QED BY <1>4, <2>1, <2>2, <2>6, <3>1 DEF SavePending
  <2>7. ASSUME NEW c \in Channels, PublishNow(w, c) PROVE FreshSnaps'
    <3>1. CASE Become(w, [worker[w] EXCEPT !.todo = worker[w].todo \ {c}])
      BY <1>3, <2>1, <2>7, <3>1 DEF Busy, PublishNow, At
    <3> QED BY <1>2, <1>4, <2>1, <2>2, <2>7, <3>1 DEF PublishNow
  <2>8. CASE CatchDelete(w)
    BY <1>2, <2>1, <2>8 DEF CatchDelete
  <2> QED BY <1>5, <2>3, <2>4, <2>5, <2>6, <2>7, <2>8 DEF HandleRequest
<1>6. ASSUME NEW w \in Workers, HandleSend(w) \/ HandleReport(w) \/ HandleDelete(w)
      PROVE  FreshSnaps'
  <2>1. worker[w] # Idle /\ worker[w] \in Busy
    BY <1>6, BusyFacts DEF TypeInv, HandleSend, LoadForSend, CallProvider, RecordOutcome,
         HandleReport, LoadForReport, SaveReport, HandleDelete, LoadForDelete, DeleteRow, DropJob, At
  <2>2. {"dropJob", "delete"} \subseteq Steps \ {"schedule"}
    BY DEF Steps
  <2>3. ASSUME NEW c, NEW allowed, NEW part, NEW failed, Outcome(w, c, allowed, part, failed)
        PROVE  FreshSnaps'
    BY <1>2, <1>3, <2>1, <2>3 DEF Outcome, Busy
  <2>4. ASSUME NEW c \in Channels, LoadForSend(w, c) PROVE FreshSnaps'
    BY <1>2, <1>3, <2>1, <2>4 DEF LoadForSend, Busy
  <2>5. ASSUME NEW c \in Channels, CallProvider(w, c) PROVE FreshSnaps'
    BY <2>3, <2>5 DEF CallProvider
  <2>6. CASE RecordOutcome(w) \/ SaveReport(w)
    BY <1>2, <2>1, <2>6 DEF RecordOutcome, SaveReport
  <2>7. CASE LoadForReport(w)
    BY <1>2, <1>3, <2>1, <2>7 DEF LoadForReport, Busy
  <2>8. CASE LoadForDelete(w)
    BY <1>2, <1>3, <2>1, <2>8 DEF LoadForDelete, Busy
  <2>9. CASE DeleteRow(w) \/ DropJob(w)
    BY <1>2, <1>4, <2>1, <2>2, <2>9 DEF DeleteRow, DropJob
  <2> QED BY <1>6, <2>4, <2>5, <2>6, <2>7, <2>8, <2>9
          DEF HandleSend, HandleReport, HandleDelete
<1>7. CASE Broker
  <2>1. ASSUME NEW w \in Workers, NEW cmd \in Command, Deliver(w, cmd) PROVE FreshSnaps'
    BY <2>1, FreshStep DEF Deliver, Begin, FirstStep
  <2>2. ASSUME NEW w \in Workers, ReadFails(w) \/ Crash(w) PROVE FreshSnaps'
    BY <1>2, <2>2 DEF ReadFails, Crash, At
  <2>3. ASSUME NEW w \in Workers, Disconnect(w) PROVE FreshSnaps'
    <3>1. /\ worker[w] \in Busy
          /\ Become(w, [worker[w] EXCEPT !.held = FALSE])
      BY <2>3, BusyFacts DEF Disconnect, TypeInv
    <3>2. /\ [worker[w] EXCEPT !.held = FALSE].step = worker[w].step
          /\ [worker[w] EXCEPT !.held = FALSE].snap = worker[w].snap
      BY <3>1 DEF Busy
    <3>3. worker[w] # Idle /\ worker[w].step = "schedule" => worker[w].snap = NewRow
      BY DEF FreshSnaps, At
    <3> QED BY <2>3, <3>1, <3>2, <3>3, FreshStep DEF Disconnect
  <2> QED BY <1>7, <2>1, <2>2, <2>3 DEF Broker
<1>8. CASE Clients
  BY <1>1, <1>8 DEF Clients, SubmitMessage, SubmitDelete, DueTimeComes, ReSendFailedSms,
     ReportDelivery
<1>9. ASSUME NEW j \in JobIds, RunJob(j) \/ JobFails(j) PROVE FreshSnaps'
  BY <1>1, <1>9 DEF RunJob, JobFails, StartJob, JobPublish, EndJob
<1>10. ASSUME NEW m \in Msg, DeleteByTag(m) PROVE FreshSnaps'
  BY <1>1, <1>10 DEF DeleteByTag
<1> QED BY <1>1, <1>5, <1>6, <1>7, <1>8, <1>9, <1>10 DEF Next, Consume, vars

\* One part of a row of m, compared with the provider's count n for its channel.
HonestPart(m, c, part, n) ==
  IF c = "Sms"
  THEN /\ part.id <= n
       /\ part.id # NoId => part.status \in SentStatuses
       /\ part.status \in {"Delivered", "UnDelivered"} => part.id # NoId
  ELSE part.status \in SentStatuses => n > 0 \/ (c = "Telegram" /\ m \in EmptyTelegram)

LEMMA HonestParts ==
  ASSUME NEW r, NEW m
  PROVE  Honest(r, m) <=> \A c \in Channels : HonestPart(m, c, r.part[c], accepted[m][c])
BY DEF Honest, HonestSms, HonestPart

\* What was true of a row stays true while the providers' counts grow.
LEMMA HonestKept ==
  ASSUME TypeInv, TypeOK', AcceptedGrows, NEW m \in Msg, NEW r \in Row, Honest(r, m)
  PROVE  Honest(r, m)'
<1>1. \A c \in Channels : /\ accepted[m][c] \in Nat /\ accepted'[m][c] \in Nat
                          /\ accepted[m][c] <= accepted'[m][c]
                          /\ r.part[c].id \in Nat
  BY DEF AcceptedGrows, TypeInv, TypeOK, Row, Part
<1> QED BY <1>1 DEF Honest, HonestSms

\* A row all of whose parts are new or just queued claims nothing.
LEMMA HonestUnsent ==
  ASSUME TypeOK, NEW m \in Msg, NEW r \in Row,
         \A c \in Channels : r.part[c].status \in {"Created", "Pending"} /\ r.part[c].id = NoId
  PROVE  Honest(r, m)
<1>1. \A c \in Channels : accepted[m][c] \in Nat
  BY DEF TypeOK
<1> QED BY <1>1 DEF Honest, HonestSms, SentStatuses, NoId

\* Queueing a new row claims nothing.
LEMMA HonestEnqueued ==
  ASSUME TypeOK, NEW m \in Msg, NEW j \in JobIds
  PROVE  Honest(EnqueuedRow(NewRow, j), m)
<1>1. NewRow \in Row /\ EnqueuedRow(NewRow, j) \in Row
  BY RowValues
<1>2. \A c \in Channels : /\ EnqueuedRow(NewRow, j).part[c].status = "Pending"
                          /\ EnqueuedRow(NewRow, j).part[c].id = NoId
  BY DEF EnqueuedRow, Enqueued, NewRow, NewPart
<1> QED BY <1>1, <1>2, HonestUnsent

\* Replacing one honest part by an honest part keeps a row honest.
LEMMA HonestReplaced ==
  ASSUME NEW m \in Msg, NEW r \in Row, NEW c \in Channels, NEW part \in Part,
         Honest(r, m), HonestPart(m, c, part, accepted[m][c])
  PROVE  Honest([r EXCEPT !.part[c] = part], m)
<1>1. \A d \in Channels : [r EXCEPT !.part[c] = part].part[d] =
                             IF d = c THEN part ELSE r.part[d]
  BY DEF Row
<1> QED BY <1>1, HonestParts

\* What a provider call leaves in a part is honest about the new counts.
LEMMA HonestAttempted ==
  ASSUME TypeInv, TypeOK', AcceptedGrows, NEW m \in Msg, NEW c \in Channels,
         NEW before \in Part, NEW after \in Part,
         HonestPart(m, c, before, accepted[m][c]), Attempted(m, c, before, after)
  PROVE  HonestPart(m, c, after, accepted'[m][c])
<1>1. /\ accepted[m][c] \in Nat /\ accepted'[m][c] \in Nat
      /\ accepted[m][c] <= accepted'[m][c]
  BY DEF AcceptedGrows, TypeInv, TypeOK
<1>2. CASE after = ValidatorDeny(c, before)
  BY <1>1, <1>2 DEF ValidatorDeny, Part, HonestPart, SentStatuses, NoId, SmsStatus
<1>3. CASE after = Invalid(before)
  BY <1>1, <1>3 DEF Invalid, Part, HonestPart, SentStatuses, NoId, SmsStatus
<1>4. CASE CanRetry(before) /\ after = Retry(before)
  <2>1. after.status = "Pending" /\ after.id = NoId
    BY <1>4 DEF CanRetry, Retry, Part
  <2> QED BY <1>1, <2>1 DEF HonestPart, SentStatuses, NoId
<1>5. CASE ProviderAccepts(m, c) /\ after = Send(c, before, accepted[m][c] + 1)
  <2>1. accepted'[m][c] = accepted[m][c] + 1
    BY <1>1, <1>5 DEF ProviderAccepts, TypeInv, TypeOK
  <2>2. /\ after.status = "Sended" /\ (c = "Sms" => after.id = accepted[m][c] + 1)
        /\ accepted'[m][c] > 0
    BY <1>1, <1>5, <2>1 DEF Send, Part
  <2> QED BY <1>1, <2>1, <2>2 DEF HonestPart, SentStatuses
<1>6. CASE /\ c = "Sms" \/ (c = "Telegram" /\ m \in EmptyTelegram)
           /\ after = Send(c, before, NoId)
  <2>1. after.status = "Sended" /\ (c = "Sms" => after.id = NoId)
    BY <1>6 DEF Send, Part
  <2> QED BY <1>1, <1>6, <2>1 DEF HonestPart, NoId
<1> QED BY <1>2, <1>3, <1>4, <1>5, <1>6 DEF Attempted

\* A delivery report replaces one claim of a send by another.
LEMMA HonestReported ==
  ASSUME NEW m, NEW part \in Part, NEW delivered \in BOOLEAN, NEW n \in Nat,
         part.id # NoId, HonestPart(m, "Sms", part, n)
  PROVE  HonestPart(m, "Sms", Report(part, delivered), n)
<1>1. /\ Report(part, delivered).id = part.id
      /\ Report(part, delivered).status \in {"Delivered", "UnDelivered"}
  BY DEF Report, Part
<1> QED BY <1>1 DEF HonestPart, SentStatuses

\* Every step keeps rows and snapshots honest.
LEMMA NextHonestInv == TypeInv /\ HonestInv /\ [Next]_vars => HonestInv'
<1> SUFFICES ASSUME TypeInv, HonestInv, [Next]_vars PROVE HonestInv'
  OBVIOUS
<1>1. TypeInv' /\ TypeOK /\ TypeOK'
  BY NextTypeInv DEF TypeInv
<1>2. RowsFrom /\ SnapsFrom /\ AcceptedGrows
  BY NextFroms DEF Froms
<1>3. ASSUME NEW m \in Msg, NEW r \in Row, Honest(r, m) PROVE Honest(r, m)'
  BY <1>1, <1>2, <1>3, HonestKept
<1>4. /\ NewRow \in Row /\ EnqueuedRow(NewRow, NoJob) \in Row
      /\ \A c \in Channels : /\ NewRow.part[c] = NewPart
                             /\ EnqueuedRow(NewRow, NoJob).part[c] = Enqueued(NewPart)
  BY RowValues DEF NewRow, EnqueuedRow
<1>5. \A m \in Msg : Honest(NewRow, m) /\ Honest(EnqueuedRow(NewRow, NoJob), m)
  <2>1. NewPart.status = "Created" /\ NewPart.id = NoId
    BY DEF NewPart
  <2>2. Enqueued(NewPart).status = "Pending" /\ Enqueued(NewPart).id = NoId
    BY DEF NewPart, Enqueued
  <2> QED BY <1>1, <1>4, <2>1, <2>2, HonestUnsent
<1>6. NoPhantomSent'
  <2> SUFFICES ASSUME NEW m \in Msg, NEW r, r = row'[m], r # NoRow PROVE Honest(r, m)'
    BY DEF NoPhantomSent, Honest, HonestSms
  <2>1. r \in Row
    BY <1>1 DEF TypeOK
  <2>2. Honest(r, m)
    <3>1. CASE r \in {row[m], NewRow}
      BY <1>5, <3>1 DEF HonestInv, NoPhantomSent
    <3>2. CASE \E w \in Workers : /\ worker[w] # Idle /\ MessageOf(w) = m
                                  /\ worker[w].snap \in Row /\ r = worker[w].snap
      BY <3>2, DispatchAssumption DEF HonestInv
    <3> QED BY <1>2, <3>1, <3>2 DEF RowsFrom
  <2> QED BY <1>3, <2>1, <2>2
<1>7. ASSUME NEW w \in Workers, worker'[w] # Idle,
             NEW r, r = worker'[w].snap, r # NoRow,
             NEW m, m = worker'[w].cmd.msg
      PROVE  Honest(r, m)'
  <2>1. SnapFrom(w)
    BY <1>2, <1>7 DEF SnapsFrom
  <2>2. worker[w] # Idle /\ m = MessageOf(w) /\ m \in Msg
    <3>1. worker[w] # Idle /\ worker'[w].cmd = worker[w].cmd
      BY <1>7, <2>1 DEF SnapFrom
    <3> QED BY <1>1, <1>7, <3>1, BusyFacts DEF MessageOf
  <2>3. r \in Row
    <3>1. worker'[w] \in Busy
      BY <1>1, <1>7 DEF TypeOK
    <3> QED BY <1>7, <3>1 DEF Busy
  <2> DEFINE before == worker[w].snap
  <2>4. before \in Row => Honest(before, m)
    BY <2>2, DispatchAssumption DEF HonestInv
  <2>5. row[m] \in Row => Honest(row[m], m)
    BY <2>2, DispatchAssumption DEF HonestInv, NoPhantomSent
  <2>6. CASE r \in {before, row[m], NewRow, EnqueuedRow(NewRow, NoJob)}
    BY <1>3, <1>5, <2>2, <2>3, <2>4, <2>5, <2>6
  <2>7. ASSUME before \in Row, NEW j \in JobIds, At(w, "schedule"), r = EnqueuedRow(before, j)
        PROVE  Honest(r, m)'
    <3>1. Honest(EnqueuedRow(NewRow, j), m)
      BY <1>1, <2>2, <2>7, HonestEnqueued
    <3> QED BY <1>3, <2>2, <2>3, <2>7, <3>1 DEF HonestInv, FreshSnaps
  <2>8. ASSUME before \in Row, NEW c \in Channels, NEW part \in Part,
               Attempted(m, c, before.part[c], part), r = [before EXCEPT !.part[c] = part]
        PROVE  Honest(r, m)'
    <3>1. before.part[c] \in Part /\ HonestPart(m, c, before.part[c], accepted[m][c])
      BY <2>4, <2>8, HonestParts DEF Row
    <3>2. HonestPart(m, c, part, accepted'[m][c])
      BY <1>1, <1>2, <2>2, <2>8, <3>1, HonestAttempted
    <3>3. \A d \in Channels : HonestPart(m, d, before.part[d], accepted'[m][d])
      <4>1. \A x \in Row : Honest(x, m) =>
               \A d \in Channels : HonestPart(m, d, x.part[d], accepted'[m][d])
        BY <1>3, <2>2 DEF Honest, HonestSms, HonestPart
      <4> QED BY <2>4, <2>8, <4>1
    <3>4. \A d \in Channels : r.part[d] = IF d = c THEN part ELSE before.part[d]
      BY <2>8 DEF Row
    <3> HIDE DEF before
    <3> QED BY <3>2, <3>3, <3>4 DEF Honest, HonestSms, HonestPart
  <2>9. ASSUME row[m] \in Row, "Sms" \in Channels, NEW delivered \in BOOLEAN,
               row[m].part["Sms"].id # NoId,
               r = [row[m] EXCEPT !.part["Sms"] = Report(row[m].part["Sms"], delivered)]
        PROVE  Honest(r, m)'
    <3> DEFINE part == row[m].part["Sms"]
    <3>1. part \in Part /\ HonestPart(m, "Sms", part, accepted[m]["Sms"])
      BY <2>5, <2>9, HonestParts DEF Row
    <3>2. accepted[m]["Sms"] \in Nat
      BY <1>1, <2>2, <2>9 DEF TypeOK
    <3>3. HonestPart(m, "Sms", Report(part, delivered), accepted[m]["Sms"])
      BY <2>9, <3>1, <3>2, HonestReported
    <3>4. Report(part, delivered) \in Part
      BY <3>1, PartOperations DEF ChannelNames, NoId
    <3>5. Honest(r, m)
      BY <2>2, <2>5, <2>9, <3>3, <3>4, HonestReplaced
    <3> QED BY <1>3, <2>2, <2>3, <3>5
  <2> QED BY <1>7, <2>1, <2>2, <2>6, <2>7, <2>8, <2>9 DEF SnapFrom
<1>8. \A w \in Workers :
         worker'[w] # Idle /\ worker'[w].snap # NoRow
            => \A r, m : r = worker'[w].snap /\ m = worker'[w].cmd.msg => Honest(r, m)'
  BY <1>7
<1>9. FreshSnaps'
  BY NextFresh DEF HonestInv
<1> QED BY <1>6, <1>8, <1>9 DEF HonestInv, Honest, HonestSms, MessageOf

\* For any set of messages, channels, consumers and jobs, and any number of
\* faults: an e-mail or Telegram marked sent was taken by its provider, unless
\* the Telegram is empty; an SMS carries an id only if its gateway gave that id
\* out and its status claims the send, and is shown as delivered or not
\* delivered only with an id.  An SMS marked sent without one claims nothing.
THEOREM DispatchNoPhantomSent == Spec => []NoPhantomSent
<1>1. Init => HonestInv
  BY DEF Init, HonestInv, NoPhantomSent, FreshSnaps, At
<1>2. HonestInv => NoPhantomSent
  BY DEF HonestInv
<1> QED BY <1>1, <1>2, InitTypeInv, NextTypeInv, NextHonestInv, PTL DEF Spec

-----------------------------------------------------------------------------
(* The give-up limit                                                       *)

Capped(r) == \A c \in Channels \ {"Sms"} : r.part[c].retry <= 3

\* A consumer about to call the provider may book one more retry.
CapInv ==
  /\ \A m \in Msg : row[m] # NoRow => Capped(row[m])
  /\ \A w \in Workers :
        worker[w] # Idle /\ worker[w].snap # NoRow =>
          /\ Capped(worker[w].snap)
          /\ \A c \in Channels \ {"Sms"} :
                At(w, "send") /\ worker[w].cmd.type = c => worker[w].snap.part[c].retry < 3

\* A provider call adds at most one to the retries of its own channel.
LEMMA CappedAttempted ==
  ASSUME NEW m, NEW c \in ChannelNames, NEW before \in Part, NEW after \in Part,
         Attempted(m, c, before, after)
  PROVE  after.retry <= before.retry + 1
<1>1. CASE after = ValidatorDeny(c, before)
  BY <1>1 DEF ValidatorDeny, Part
<1>2. CASE after = Invalid(before)
  BY <1>2 DEF Invalid, Part
<1>3. CASE after = Retry(before)
  <2>1. after.retry = before.retry + 1
    BY <1>3 DEF Retry, Part
  <2> QED BY <2>1 DEF Part
<1>4. ASSUME NEW id, after = Send(c, before, id) PROVE after.retry <= before.retry + 1
  BY <1>4 DEF Send, Part
<1> QED BY <1>1, <1>2, <1>3, <1>4 DEF Attempted

\* Queued, replaced and reported rows are capped if what they replace was.
LEMMA CappedValues ==
  /\ Capped(NewRow) /\ Capped(EnqueuedRow(NewRow, NoJob))
  /\ \A r \in Row, j \in JobIds : Capped(r) => Capped(EnqueuedRow(r, j))
  /\ \A r \in Row, c \in Channels, part \in Part :
        Capped(r) /\ (c # "Sms" => part.retry <= 3) => Capped([r EXCEPT !.part[c] = part])
<1>1. Capped(NewRow) /\ Capped(EnqueuedRow(NewRow, NoJob))
  BY DEF Capped, NewRow, NewPart, EnqueuedRow, Enqueued
<1>2. ASSUME NEW r \in Row, NEW j \in JobIds, Capped(r) PROVE Capped(EnqueuedRow(r, j))
  <2>1. \A c \in Channels : EnqueuedRow(r, j).part[c].retry = r.part[c].retry
    BY DEF EnqueuedRow, Enqueued, Row, Part
  <2> QED BY <1>2, <2>1 DEF Capped
<1>3. ASSUME NEW r \in Row, NEW c \in Channels, NEW part \in Part,
             Capped(r), c # "Sms" => part.retry <= 3
      PROVE  Capped([r EXCEPT !.part[c] = part])
  <2>1. \A d \in Channels : [r EXCEPT !.part[c] = part].part[d] =
                               IF d = c THEN part ELSE r.part[d]
    BY DEF Row
  <2> QED BY <1>3, <2>1 DEF Capped
<1> QED BY <1>1, <1>2, <1>3

\* Every step keeps the limit.
LEMMA NextCapInv == TypeInv /\ CapInv /\ [Next]_vars => CapInv'
<1> SUFFICES ASSUME TypeInv, CapInv, [Next]_vars PROVE CapInv'
  OBVIOUS
<1>1. TypeOK /\ TypeOK'
  BY NextTypeInv DEF TypeInv
<1>2. RowsFrom /\ SnapsFrom
  BY NextFroms DEF Froms
<1>3. ASSUME NEW m \in Msg, row'[m] # NoRow PROVE Capped(row'[m])
  <2>1. CASE row'[m] \in {row[m], NewRow}
    BY <1>3, <2>1, CappedValues DEF CapInv
  <2>2. CASE \E w \in Workers : /\ worker[w] # Idle /\ MessageOf(w) = m
                                /\ worker[w].snap \in Row /\ row'[m] = worker[w].snap
    BY <2>2, DispatchAssumption DEF CapInv
  <2> QED BY <1>2, <1>3, <2>1, <2>2 DEF RowsFrom
<1>4. ASSUME NEW w \in Workers, worker'[w] # Idle, worker'[w].snap # NoRow
      PROVE  /\ Capped(worker'[w].snap)
             /\ \A c \in Channels \ {"Sms"} :
                   At(w, "send")' /\ worker'[w].cmd.type = c
                      => worker'[w].snap.part[c].retry < 3
  <2> DEFINE before == worker[w].snap
             after == worker'[w].snap
             m == MessageOf(w)
  <2>1. SnapFrom(w)
    BY <1>2, <1>4 DEF SnapsFrom
  <2>2. worker[w] # Idle /\ worker'[w].cmd = worker[w].cmd /\ m \in Msg
    BY <1>1, <1>4, <2>1, BusyFacts DEF SnapFrom
  <2>3. before # NoRow => Capped(before)
    BY <2>2 DEF CapInv
  <2>4. row[m] # NoRow => Capped(row[m])
    BY <2>2 DEF CapInv
  <2>5. CASE after = before /\ (At(w, "send")' => At(w, "send"))
    BY <1>4, <2>2, <2>3, <2>5 DEF CapInv
  <2>6. CASE ~At(w, "send")' /\ after \in {row[m], NewRow, EnqueuedRow(NewRow, NoJob)}
    BY <1>4, <2>4, <2>6, CappedValues
  <2>7. ASSUME ~At(w, "send")', before \in Row, NEW j \in JobIds,
               after = EnqueuedRow(before, j)
        PROVE  Capped(after)
    BY <2>3, <2>7, CappedValues, DispatchAssumption
  <2>8. ASSUME after = row[m], row[m] \in Row, NEW c \in Channels,
               worker[w].cmd.type = c, ~NothingToSend(c, m)
        PROVE  /\ Capped(after)
               /\ c # "Sms" => after.part[c].retry < 3
    <3>1. c # "Sms" => c \in {"Email", "Telegram"}
      BY DispatchAssumption DEF ChannelNames
    <3>2. row[m].part[c].retry \in Nat
      BY <2>8 DEF Row, Part
    <3> QED BY <1>4, <2>4, <2>8, <3>1, <3>2 DEF NothingToSend
  <2>9. ASSUME At(w, "send"), before \in Row, NEW c \in Channels, NEW part \in Part,
               worker[w].cmd.type = c, Attempted(m, c, before.part[c], part),
               after = [before EXCEPT !.part[c] = part]
        PROVE  Capped(after)
    <3>1. before.part[c] \in Part /\ c \in ChannelNames /\ before # NoRow
      BY <2>9, DispatchAssumption DEF Row
    <3>2. part.retry <= before.part[c].retry + 1
      BY <2>9, <3>1, CappedAttempted
    <3>3. c # "Sms" => before.part[c].retry < 3
      BY <2>2, <2>9, <3>1 DEF CapInv
    <3>4. c # "Sms" => part.retry <= 3
      BY <2>9, <3>1, <3>2, <3>3 DEF Part
    <3>5. Capped(before)
      BY <2>3, <3>1
    <3> HIDE DEF before, after
    <3> QED BY <2>9, <3>4, <3>5, CappedValues
  <2>10. ASSUME row[m] \in Row, "Sms" \in Channels, NEW delivered \in BOOLEAN,
                after = [row[m] EXCEPT !.part["Sms"] = Report(row[m].part["Sms"], delivered)]
         PROVE  Capped(after)
    <3>1. Report(row[m].part["Sms"], delivered) \in Part
      <4>1. row[m].part["Sms"] \in Part
        BY <2>10 DEF Row
      <4> QED BY <4>1, PartOperations DEF ChannelNames, NoId
    <3> HIDE DEF after
    <3> QED BY <2>4, <2>10, <3>1, CappedValues, DispatchAssumption
  <2> QED BY <1>4, <2>1, <2>2, <2>5, <2>6, <2>7, <2>8, <2>9, <2>10 DEF SnapFrom
<1> QED BY <1>3, <1>4 DEF CapInv, At

\* However many consumers work on copies of one message, an e-mail or
\* Telegram part never counts more than three failed attempts.
THEOREM DispatchRetryCap == Spec => []RetryCap
<1>1. Init => CapInv
  BY DEF Init, CapInv
<1>2. CapInv => RetryCap
  BY DEF CapInv, RetryCap, Capped
<1> QED BY <1>1, <1>2, InitTypeInv, NextTypeInv, NextCapInv, PTL DEF Spec

=============================================================================
